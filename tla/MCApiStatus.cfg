\* The API process: an admin run among the requests of users.
SPECIFICATION Spec
CONSTANTS
    k1 = k1
    k2 = k2
    k3 = k3
    postgresql = postgresql
    nodejs = nodejs
    golang = golang
    rust = rust
    run1 = run1
    run2 = run2
    Packages <- MCPackages
    Streams = {postgresql, nodejs}
    PackageStream <- MCPackageStream
    ModuleStreams <- MCModuleStreams
    Rolling = {}
    StartDay <- MCStartDay
    EndDay <- MCEndDay
    NearDays = 1
    CacheSize = 2
    Runs = {run1}
    JobRun = run1
    LastDay = 4
INVARIANTS
    CountedStatusIsCurrent
