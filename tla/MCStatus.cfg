\* The cron job's process, and the API's with concurrent runs among the requests of users.
SPECIFICATION Spec
CONSTANTS
    k1 = k1
    k2 = k2
    k3 = k3
    postgresql = postgresql
    nodejs = nodejs
    golang = golang
    rust = rust
    run1 = run1
    run2 = run2
    Packages = {k1, k3}
    Streams = {postgresql, golang, rust}
    PackageStream <- MCPackageStream
    ModuleStreams <- MCModuleStreams
    Rolling = {golang, rust}
    StartDay <- MCStartDay
    EndDay <- MCEndDay
    NearDays = 1
    CacheSize = 1
    Runs = {run1, run2}
    JobRun = run1
    LastDay = 1
INVARIANTS
    TypeOK
    JobStatusIsCurrent
    CacheHoldsOneOrg
    ModuleStatusIsCurrent
    PackageStatusIsSinceLastEnd
