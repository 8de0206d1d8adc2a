SPECIFICATION Spec

CONSTANTS
    h1 = h1
    h2 = h2
    h3 = h3
    Hosts = {h1, h2, h3}
    Profiles <- MCProfiles
    Entities <- MCEntities
    Modules <- MCModules
    Streams <- MCStreams
    StreamOf <- MCStreamOf
    Major <- MCMajor
    Minor <- MCMinor
    Product <- MCProduct
    ListName <- MCListName
    Depth <- MCDepth
    Rolling = {"Rust"}
    ShortName <- MCShortName
    Version <- MCVersion
    Worded = {"python-ply"}
    TextRank <- MCTextRank
    StartDay <- MCStartDay
    EndDay <- MCEndDay
    ModuleLists <- MCModuleLists
    NearDays = 1
    Today = 3

SYMMETRY HostSymmetry

INVARIANTS
    ShortNameFindsHosts
