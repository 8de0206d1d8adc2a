\* A pod and a background task report to one organization on two days, with
\* dry runs and forced mails.
SPECIFICATION DeliverySpec
CONSTANTS
    p1 = p1
    a1 = a1
    Orgs = {1}
    JobPods = {p1}
    AdminRuns = {a1}
    MaxRequestRetries = 1
    MaxKafkaRetries = 1
    MaxListLen = 2
    LastDay = 1
INVARIANTS
    DeliveryTypeOK
    FinishedRunAccountsForEveryOrg
    OnlyAskedOrgsAreNotified
    OneRegularMailPerDay
    ForcedMailIsNotSuppressed
PROPERTIES
    KeepsThePromise
\* A run may be over for good: the job is not restarted and nobody need trigger another.
CHECK_DEADLOCK FALSE
