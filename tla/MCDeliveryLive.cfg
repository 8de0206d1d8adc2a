\* One pod of the cron job, with every retry and failure on lists of three, and
\* the mails it causes.
SPECIFICATION DeliveryFairSpec
CONSTANTS
    p1 = p1
    a1 = a1
    Orgs = {1, 2}
    JobPods = {p1}
    AdminRuns = {}
    MaxRequestRetries = 2
    MaxKafkaRetries = 2
    MaxListLen = 3
    LastDay = 0
INVARIANTS
    FinishedRunAccountsForEveryOrg
    NotNotifiedIsAllOrNothing
PROPERTIES
    StepsRunOut
    StartedRunReturns
    JobReachesRoadmapRun
    WrittenReportIsMailed
\* A run may be over for good: the job is not restarted and nobody need trigger another.
CHECK_DEADLOCK FALSE
