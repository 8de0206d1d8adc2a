\* Three hosts, two names of which a search finds one, pages of one or two hosts.
SPECIFICATION Spec

CONSTANTS
    Hosts = {1, 2, 3}
    Names = {1, 2}
    Hits = {2}
    Limits = {1, 2}

INVARIANTS
    TypeOK
    PageFitsTotal
    StayingHostsAreSeen
    PagesDoNotOverlap
    WalkEnds
