--------------------------- MODULE MCRelevantRhel ---------------------------
(* RelevantRhel for an inventory whose hosts report any of ten profiles. *)
EXTENDS RelevantRhel, TLC

CONSTANTS h1, h2, h3, g1, ungrouped, eus, els, e4s

Reports(name, os, release, products, groups, isUngrouped) ==
    [name |-> name, os |-> os, release |-> release, products |-> products,
     groups |-> groups, ungrouped |-> isUngrouped]

(* Parts of os_release: "9", "09", and one that is not a number. *)
P(n)   == [value |-> n, plain |-> TRUE]
Pad(n) == [value |-> n, plain |-> FALSE]
Word   == [value |-> NotNumber, plain |-> FALSE]

MCProfiles == {
    Reports("RHEL", <<9, 4>>, <<P(9), P(4)>>, {}, {g1}, FALSE),
    Reports("RHEL", <<9, 4>>, <<P(9), P(5)>>, {els, eus}, {}, TRUE), \* release is ahead
    Reports("RHEL", NoVersion, <<P(9), P(4), P(1)>>, {eus}, {g1}, FALSE), \* "9.4.1"
    Reports("RHEL", NoVersion, <<P(9), P(4), Word>>, {}, {g1}, FALSE),    \* "9.4.z"
    Reports("RHEL", NoVersion, <<P(9), Pad(4)>>, {eus}, {}, TRUE),        \* "9.04"
    Reports("RHEL", NoVersion, <<P(9)>>, {}, {g1}, FALSE),                \* "9"
    Reports("RHEL", <<9, NoMinor>>, <<P(9), P(4)>>, {}, {g1}, FALSE),
    Reports("RHEL", <<9, 5>>, << >>, {e4s, eus}, {}, FALSE),
    Reports("CentOS Linux", <<9, 4>>, << >>, {}, {}, TRUE),
    Reports(NoName, <<9, 4>>, << >>, {els}, {g1}, FALSE)}

MCEndDay == <<9, 4>> :> 1 @@ <<9, 5>> :> 1 @@ <<9, 6>> :> 2 @@ <<8, 10>> :> 2
MCCatalogue == DOMAIN MCEndDay

HostSymmetry == Permutations(Hosts)
=============================================================================
