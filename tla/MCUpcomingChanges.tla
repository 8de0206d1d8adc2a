-------------------------- MODULE MCUpcomingChanges --------------------------
(* UpcomingChanges for a file of four items: two share a name and release and
   two a name, one has no date of addition, one is not deployed. *)
EXTENDS UpcomingChanges, TLC

CONSTANTS h1, h2, r1

Item(name, release, type, major, packages, deployed, added) ==
    [name |-> name, release |-> release, type |-> type, major |-> major,
     packages |-> packages, deployed |-> deployed, added |-> added]

MCFile == <<
    Item("python", "9.5", "addition", 9, {"python"}, 1, 0),
    Item("python", "9.5", "deprecation", 9, {"python-old", "kernel"}, 3, Undated),
    Item("python", "10.0", "change", 10, {"python"}, NotDeployed, 1),
    Item("kernel", "9.5", "enhancement", 9, {"kernel"}, 2, 0)>>

Reports(major, packages) == [major |-> major, packages |-> packages]

MCProfiles == {
    Reports(9, {"python", "other"}),
    Reports(9, {"python-old", "kernel"}),
    Reports(10, {"python", "kernel"}),
    Reports(NoMajor, {"python"}),
    Reports(9, {})}

MCMonth == 0 :> 0 @@ 1 :> 0 @@ 2 :> 1 @@ 3 :> 2

HostSymmetry == Permutations(Hosts)
=============================================================================
