\* The log line of a run that could not set up its producer.
SPECIFICATION Spec
CONSTANTS
    p1 = p1
    a1 = a1
    Orgs = {1}
    JobPods = {p1}
    AdminRuns = {}
    MaxRequestRetries = 1
    MaxKafkaRetries = 1
    MaxListLen = 2
    LastDay = 0
INVARIANTS
    NotNotifiedMeansNothingSent
\* A run may be over for good: the job is not restarted and nobody need trigger another.
CHECK_DEADLOCK FALSE
