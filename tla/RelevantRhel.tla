---------------------------- MODULE RelevantRhel ----------------------------
(***************************************************************************)
(* The RHEL versions of an organization, read in three ways.               *)
(*                                                                         *)
(*   GET  /relevant/lifecycle/rhel         the whole inventory at once     *)
(*   POST /relevant/lifecycle/rhel/hosts   the hosts of a batch            *)
(*   GET  /v2/.../{major}/{minor}/systems  the hosts behind one row        *)
(*                                                                         *)
(* The first two share relevant_systems, which classifies hosts in Python; *)
(* the third classifies them in SQL, "to match v1's logic".  A client that *)
(* works in batches is told by the docstring of the second how to merge    *)
(* the responses into what the first would have said.                      *)
(*                                                                         *)
(* A version is <<major, minor>>; minor NoMinor stands for None, which the *)
(* code too compares as -1.  os_release is text, and the two languages     *)
(* read it differently: here it is the sequence of its dotted parts, each  *)
(* with the number that int() makes of it and whether it is written as     *)
(* str() writes that number ("9", not "09").                               *)
(***************************************************************************)
EXTENDS Integers, Sequences, FiniteSets

CONSTANTS
    Hosts,      \* host ids of the organization
    Profiles,   \* what a host may report, see ProfilesAssumption
    OsNames,    \* values of operating_system.name
    Groups,     \* ids of host groups
    Ungrouped,  \* None in host_groups: the group marked "ungrouped"
    EusIds, ElsIds, E4sIds, \* product ids of extended support
    Catalogue,  \* keys of OS_LIFECYCLE_DATES
    EndDay,     \* end_date of each of them
    LastDay

NoName    == "no name"
NoMinor   == -1
NoVersion == <<0, NoMinor>>
NotNumber == -1         \* int() raises ValueError

(* A dotted part of os_release; without a sign, a number is in Nat. *)
Parts == [value : Nat \cup {NotNumber}, plain : BOOLEAN]

ASSUME ProfilesAssumption ==
    \A p \in Profiles :
        /\ p.name \in OsNames \cup {NoName}
        \* operating_system: without a major there is no minor either
        /\ p.os \in ((Nat \ {0}) \X (Nat \cup {NoMinor})) \cup {NoVersion}
        \* os_release, whatever a host writes into it; << >> when it is missing
        /\ p.release \in Seq(Parts)
        /\ \A i \in DOMAIN p.release : p.release[i].plain => p.release[i].value \in Nat
        /\ p.groups \subseteq Groups
        /\ p.ungrouped \in BOOLEAN

ASSUME CatalogueAssumption ==
    /\ Catalogue \subseteq (Nat \ {0}) \X (Nat \cup {NoMinor})
    /\ EndDay \in [Catalogue -> Nat]
    /\ LastDay \in Nat
    /\ Ungrouped \notin Groups
    /\ NoName \notin OsNames
    /\ IsFiniteSet(Hosts)

Days           == 0..LastDay
LifecycleTypes == {"mainline", "EUS", "ELS", "E4S"}

VARIABLES
    profile,    \* the inventory: what each host reports
    hostGroups, \* host_groups of the caller; {} is unrestricted access
    today,
    asked,      \* ids the client has asked for in batches
    days,       \* days on which its batches were answered
    merged,     \* its installed rows: which hosts are listed under which key
    related     \* its related versions

clientVars == <<asked, days, merged, related>>
vars       == <<profile, hostGroups, today, clientVars>>

-----------------------------------------------------------------------------
(* Classification in Python.                                               *)

Meets(products, ids) == products \cap ids # {}

(* get_lifecycle_type: mainline < EUS < ELS < E4S. *)
GetLifecycleType(products) ==
    CASE Meets(products, E4sIds) -> "E4S"
      [] Meets(products, ElsIds) /\ ~Meets(products, E4sIds) -> "ELS"
      [] Meets(products, EusIds) /\ ~Meets(products, ElsIds \cup E4sIds) -> "EUS"
      [] OTHER -> "mainline"

(* It can be unpacked into two numbers, and int() accepts every part of it. *)
Numeric(release) ==
    Len(release) >= 2 /\ \A i \in DOMAIN release : release[i].value # NotNumber

(* rhel_major_minor; NoVersion is its ValueError. *)
RhelMajorMinor(p) ==
    IF p.os # NoVersion THEN p.os
    ELSE IF Numeric(p.release) THEN <<p.release[1].value, p.release[2].value>>
    ELSE NoVersion

VersionOf(h) == RhelMajorMinor(profile[h])
TypeOf(h)    == GetLifecycleType(profile[h].products)

(* HostCount, the key of an installed row. *)
HostCount(h) == [name |-> profile[h].name, version |-> VersionOf(h), type |-> TypeOf(h)]

(* Mistake: a host without an OS name is counted. *)
CountedWithoutName(H) == {h \in H : VersionOf(h) # NoVersion}

(* The hosts of H that are not skipped for missing data. *)
Counted(H) == {h \in H : profile[h].name # NoName /\ VersionOf(h) # NoVersion}

-----------------------------------------------------------------------------
(* relevant_systems over the hosts H.                                      *)

(* Mistake: the key of the detail is the version alone. *)
SystemsOfAnyType(H, v, t) == {h \in Counted(H) : VersionOf(h) = v}

(* systems_by_version_lifecycle: its key has no name. *)
SystemsDetail(H, v, t) == {h \in Counted(H) : VersionOf(h) = v /\ TypeOf(h) = t}

InstalledRow(H, k) ==
    [key     |-> k,
     count   |-> Cardinality({h \in Counted(H) : HostCount(h) = k}),
     systems |-> SystemsDetail(H, k.version, k.type)]

Installed(H) == {InstalledRow(H, HostCount(h)) : h \in Counted(H)}

Versions(H) == {VersionOf(h) : h \in Counted(H)}

(* Mistake: relative to the latest installed minor. *)
NewerThanAll(H) ==
    {v \in Catalogue : /\ \E i \in Versions(H) : v[1] = i[1]
                       /\ \A i \in Versions(H) : v[1] = i[1] => v[2] > i[2]
                       /\ EndDay[v] > today}

(* Later minors of an installed major that are not out of support today. *)
NewerVersions(H) ==
    {v \in Catalogue : /\ \E i \in Versions(H) : v[1] = i[1] /\ v[2] > i[2]
                       /\ EndDay[v] > today}

RelatedVersions(H) == NewerVersions(H) \ Versions(H)

-----------------------------------------------------------------------------
(* The SQL.                                                                *)

(* _host_groups_filter *)
Readable ==
    {h \in Hosts :
        \/ hostGroups = {}
        \/ Ungrouped \in hostGroups /\ profile[h].ungrouped
        \/ profile[h].groups \cap hostGroups # {}}

(* query_host_inventory_by_ids: ids that the caller cannot read are omitted. *)
QueryHostInventoryByIds(B) == B \cap Readable

(* GET /lifecycle/host-uuids: the ids of which a client makes its batches. *)
AccessibleHostUuids == Readable

(* Mistake: EUS does not leave out ELS. *)
OverlappingTypeFilter(t, products) ==
    CASE t = "E4S" -> Meets(products, E4sIds)
      [] t = "ELS" -> Meets(products, ElsIds) /\ ~Meets(products, E4sIds)
      [] t = "EUS" -> Meets(products, EusIds) /\ ~Meets(products, E4sIds)
      [] t = "mainline" -> ~Meets(products, EusIds \cup ElsIds \cup E4sIds)

(* _lifecycle_type_sql_filter *)
LifecycleTypeFilter(t, products) ==
    CASE t = "E4S" -> Meets(products, E4sIds)
      [] t = "ELS" -> Meets(products, ElsIds) /\ ~Meets(products, E4sIds)
      [] t = "EUS" -> Meets(products, EusIds) /\ ~Meets(products, ElsIds \cup E4sIds)
      [] t = "mainline" -> ~Meets(products, EusIds \cup ElsIds \cup E4sIds)

(* What MajorVersion and MinorVersion let a caller ask for. *)
Requestable == (7..10) \X (0..10)

(* split_part(os_release, '.', i) = str(n), compared as text. *)
PartIs(release, i, n) == i <= Len(release) /\ release[i] = [value |-> n, plain |-> TRUE]

(* Mistake: the release is read although operating_system has a version. *)
EitherVersionMatches(p, v) ==
    /\ p.name # NoName
    /\ p.os = v \/ (PartIs(p.release, 1, v[1]) /\ PartIs(p.release, 2, v[2]))

(* The two alternatives of version_match. *)
VersionMatch(p, v) ==
    /\ p.name # NoName
    /\ \/ p.os = v
       \/ p.os = NoVersion /\ PartIs(p.release, 1, v[1]) /\ PartIs(p.release, 2, v[2])

(* query_rhel_systems, all pages of it. *)
RhelSystems(v, t) ==
    {h \in Readable : VersionMatch(profile[h], v)
                      /\ LifecycleTypeFilter(t, profile[h].products)}

-----------------------------------------------------------------------------
(* A client that works in batches.                                         *)

Init ==
    /\ profile \in [Hosts -> Profiles]
    /\ hostGroups \in SUBSET (Groups \cup {Ungrouped})
    /\ today = 0
    /\ asked = {}
    /\ days = {}
    /\ merged = {}
    /\ related = {}

(* POST .../hosts for the ids B.  The client merges rows with the same key,
   listing each host once, and drops a related version once a batch has it
   installed. *)
PostBatch(B) ==
    LET H == QueryHostInventoryByIds(B)
    IN  /\ asked' = asked \cup B
        /\ days' = days \cup {today}
        /\ merged' = merged \cup UNION {{[key |-> r.key, host |-> h] : h \in r.systems} :
                                          r \in Installed(H)}
        /\ related' = (related \cup RelatedVersions(H))
                          \ {m.key.version : m \in merged'}
        /\ UNCHANGED <<profile, hostGroups, today>>

Midnight ==
    /\ today < LastDay
    /\ today' = today + 1
    /\ UNCHANGED <<profile, hostGroups, clientVars>>

Next == (\E B \in SUBSET Hosts : PostBatch(B)) \/ Midnight

Spec == Init /\ [][Next]_vars

-----------------------------------------------------------------------------
(* Properties.                                                             *)

Keys == [name : OsNames, version : Nat \X (Nat \cup {NoMinor}),
         type : LifecycleTypes]

(* The client holds keys and hosts of the inventory only. *)
TypeOK ==
    /\ profile \in [Hosts -> Profiles]
    /\ hostGroups \subseteq Groups \cup {Ungrouped}
    /\ today \in Days
    /\ asked \subseteq Hosts
    /\ days \subseteq Days
    /\ merged \subseteq [key : Keys, host : Hosts]
    /\ related \subseteq Catalogue

MergedSystems(k) == {m.host : m \in {n \in merged : n.key = k}}

MergedRows ==
    {[key |-> k, count |-> Cardinality(MergedSystems(k)), systems |-> MergedSystems(k)] :
        k \in {m.key : m \in merged}}

AllAsked == AccessibleHostUuids \subseteq asked

(* relevant_rhel_hosts: "To match a request for all accessible hosts when
   processing batches, merge installed rows that share an OS name, version,
   and lifecycle type, counting each host once."  Whatever the batches, with
   overlaps and ids the caller may not read, once they cover the readable
   hosts the merged rows are those of one request for all of them. *)
BatchesMatchWhole == AllAsked => MergedRows = Installed(Readable)

(* The same where all hosts report one operating system name. *)
OneOsName == \A h, g \in Counted(Hosts) : profile[h].name = profile[g].name

OneNameBatchesMatchWhole == OneOsName => BatchesMatchWhole

(* Names apart, the merge is exact: of each host it has asked for and may read
   the client knows the version and the lifecycle type, as BatchedRows
   promises, also where two OS names share them. *)
Promise == INSTANCE BatchedRows WITH
    gives  <- [h \in Hosts |-> IF h \in Counted(Readable) THEN {<<VersionOf(h), TypeOf(h)>>}
                                                         ELSE {}],
    listed <- {<< <<m.key.version, m.key.type>>, m.host >> : m \in merged}

BatchesKeepThePromise == Promise!Spec

(* The recipe for related versions loses none, and is exact when the batches
   are answered on the day on which the whole inventory would be. *)
RelatedBatchesMatchWhole ==
    AllAsked => /\ RelatedVersions(Readable) \subseteq related
                /\ days \subseteq {today} => related = RelatedVersions(Readable)

(* query_rhel_systems: "rhel_major_minor() extracts (major, minor) from
   operating_system JSONB or falls back to parsing os_release.  We replicate
   both behaviors here."  The pages of a version and lifecycle type list the
   hosts that the row of the v1 response lists, and list none where there is
   no such row. *)
PagesMatchRows ==
    \A v \in Requestable, t \in LifecycleTypes :
        RhelSystems(v, t) = SystemsDetail(Readable, v, t)

(* Hosts of which only os_release tells a version, and those whose os_release
   both languages read alike. *)
FromRelease(h) == profile[h].os = NoVersion

WrittenPlainly(h) ==
    LET release == profile[h].release
    IN  Len(release) >= 2 /\ release[1].plain /\ release[2].plain

(* How far apart the two classifications can be.  A page has a host that the
   row has not only when v1 skips the host, for a part of its os_release that
   is no number; it never shows a host that v1 lists under another version or
   type.  A row has a host that no page shows only when the host writes its
   release otherwise than by plain numbers.  So they agree on all hosts that
   report a version in operating_system, or whose os_release is plain numbers. *)
PagesDifferByTextOnly ==
    \A v \in Requestable, t \in LifecycleTypes :
        LET pages == RhelSystems(v, t)
            row   == SystemsDetail(Readable, v, t)
        IN  /\ \A h \in pages \ row : FromRelease(h) /\ VersionOf(h) = NoVersion
            /\ \A h \in row \ pages : FromRelease(h) /\ ~WrittenPlainly(h)
=============================================================================
