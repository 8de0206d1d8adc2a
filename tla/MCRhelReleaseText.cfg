SPECIFICATION Spec

CONSTANTS
    h1 = h1
    h2 = h2
    h3 = h3
    g1 = g1
    eus = eus
    els = els
    e4s = e4s
    ungrouped = ungrouped
    Hosts = {h1, h2, h3}
    Profiles <- MCProfiles
    OsNames = {"RHEL", "CentOS Linux"}
    Groups = {g1}
    Ungrouped = ungrouped
    EusIds = {eus}
    ElsIds = {els}
    E4sIds = {e4s}
    Catalogue <- MCCatalogue
    EndDay <- MCEndDay
    LastDay = 1

SYMMETRY HostSymmetry

INVARIANT
    PagesMatchRows
