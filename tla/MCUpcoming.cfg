SPECIFICATION Spec

CONSTANTS
    h1 = h1
    h2 = h2
    r1 = r1
    Hosts = {h1, h2}
    Replicas = {r1}
    Profiles <- MCProfiles
    File <- MCFile
    Month <- MCMonth
    LastDay = 3

SYMMETRY HostSymmetry

INVARIANTS
    TypeOK
    BatchesMatchWhole
    PagesMatchRows
    NamedMonthIsCovered
    ReportCountsRows

PROPERTIES
    BatchesKeepThePromise
