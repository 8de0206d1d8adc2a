------------------------- MODULE RelevantRhelProofs -------------------------
(* Theorems about the three readings of an inventory, for any hosts, any
   profiles, any product ids, any catalogue and any sequence of batches. *)
EXTENDS RelevantRhel, TLAPS

-----------------------------------------------------------------------------
(* How Python and SQL classify a host.                                     *)

(* The four SQL filters partition the hosts as get_lifecycle_type does,
   whatever products a host has. *)
THEOREM LifecycleTypesAgree ==
    ASSUME NEW products, NEW t \in LifecycleTypes
    PROVE  LifecycleTypeFilter(t, products) <=> GetLifecycleType(products) = t
  <1>1. Meets(products, ElsIds \cup E4sIds)
            <=> Meets(products, ElsIds) \/ Meets(products, E4sIds)
    BY DEF Meets
  <1>2. Meets(products, EusIds \cup ElsIds \cup E4sIds)
            <=> \/ Meets(products, EusIds)
                \/ Meets(products, ElsIds)
                \/ Meets(products, E4sIds)
    BY DEF Meets
  <1> QED BY <1>1, <1>2 DEF LifecycleTypeFilter, GetLifecycleType, LifecycleTypes

LEMMA RequestableIsVersion == \A v \in Requestable : v # NoVersion
  BY DEF Requestable, NoVersion

(* Wherever version_match and rhel_major_minor give different answers, the
   version is in os_release: SQL accepts text that Python cannot read, or
   Python reads numbers that are not written as str() writes them. *)
LEMMA VersionsDifferByText ==
    ASSUME NEW p \in Profiles, NEW v \in Requestable, p.name # NoName
    PROVE  /\ VersionMatch(p, v) /\ RhelMajorMinor(p) # v =>
                 p.os = NoVersion /\ RhelMajorMinor(p) = NoVersion
           /\ ~VersionMatch(p, v) /\ RhelMajorMinor(p) = v =>
                 /\ p.os = NoVersion
                 /\ ~(Len(p.release) >= 2 /\ p.release[1].plain /\ p.release[2].plain)
<1>1. CASE p.os # NoVersion
  BY <1>1, RequestableIsVersion DEF VersionMatch, RhelMajorMinor
<1>2. CASE p.os = NoVersion /\ Len(p.release) >= 2
  <2>1. p.release \in Seq(Parts)
    BY ProfilesAssumption
  <2>2. p.release[1] \in Parts /\ p.release[2] \in Parts
    BY <1>2, <2>1
  <2>3. v[1] \in Nat /\ v[2] \in Nat /\ v = <<v[1], v[2]>>
    BY DEF Requestable
  <2>4. p.os # v /\ v # NoVersion
    BY <1>2, RequestableIsVersion
  <2>5. VersionMatch(p, v) <=> /\ p.release[1] = [value |-> v[1], plain |-> TRUE]
                               /\ p.release[2] = [value |-> v[2], plain |-> TRUE]
    BY <1>2, <2>4 DEF VersionMatch, PartIs
  <2>6. RhelMajorMinor(p) = IF Numeric(p.release)
                            THEN <<p.release[1].value, p.release[2].value>>
                            ELSE NoVersion
    BY <1>2 DEF RhelMajorMinor
  <2>7. ASSUME VersionMatch(p, v), RhelMajorMinor(p) # v
        PROVE  RhelMajorMinor(p) = NoVersion
    <3>1. p.release[1].value = v[1] /\ p.release[2].value = v[2]
      BY <2>5, <2>7
    <3> QED BY <2>3, <2>6, <2>7, <3>1
  <2>8. ASSUME ~VersionMatch(p, v), RhelMajorMinor(p) = v
        PROVE  ~(p.release[1].plain /\ p.release[2].plain)
    <3>1. p.release[1].value = v[1] /\ p.release[2].value = v[2]
      BY <2>3, <2>4, <2>6, <2>8
    <3>2. ~(/\ p.release[1] = [value |-> v[1], plain |-> TRUE]
            /\ p.release[2] = [value |-> v[2], plain |-> TRUE])
      BY <2>5, <2>8
    <3> QED BY <2>2, <3>1, <3>2 DEF Parts
  <2> QED BY <1>2, <2>7, <2>8
<1>3. CASE p.os = NoVersion /\ ~(Len(p.release) >= 2)
  <2>1. RhelMajorMinor(p) = NoVersion
    BY <1>3 DEF RhelMajorMinor, Numeric
  <2> QED BY <1>3, <2>1
<1> QED BY <1>1, <1>2, <1>3

LEMMA PagesFromProfiles == profile \in [Hosts -> Profiles] => PagesDifferByTextOnly
<1> SUFFICES ASSUME profile \in [Hosts -> Profiles],
                    NEW v \in Requestable, NEW t \in LifecycleTypes
             PROVE  /\ \A h \in RhelSystems(v, t) \ SystemsDetail(Readable, v, t) :
                          FromRelease(h) /\ VersionOf(h) = NoVersion
                    /\ \A h \in SystemsDetail(Readable, v, t) \ RhelSystems(v, t) :
                          FromRelease(h) /\ ~WrittenPlainly(h)
  BY DEF PagesDifferByTextOnly
<1>1. \A h \in Readable : profile[h] \in Profiles
  BY DEF Readable
<1>2. \A h : LifecycleTypeFilter(t, profile[h].products) <=> TypeOf(h) = t
  BY LifecycleTypesAgree DEF TypeOf
<1>3. \A h : h \in RhelSystems(v, t) <=>
           h \in Readable /\ VersionMatch(profile[h], v) /\ TypeOf(h) = t
  BY <1>2 DEF RhelSystems
<1>4. \A h : h \in SystemsDetail(Readable, v, t) <=>
           h \in Readable /\ profile[h].name # NoName /\ VersionOf(h) = v /\ TypeOf(h) = t
  BY RequestableIsVersion DEF SystemsDetail, Counted
<1>5. ASSUME NEW h \in RhelSystems(v, t) \ SystemsDetail(Readable, v, t)
      PROVE  FromRelease(h) /\ VersionOf(h) = NoVersion
  <2>1. h \in Readable /\ VersionMatch(profile[h], v) /\ profile[h].name # NoName
    BY <1>3 DEF VersionMatch
  <2>2. VersionOf(h) # v
    BY <1>3, <1>4, <2>1
  <2> QED BY <1>1, <2>1, <2>2, VersionsDifferByText DEF VersionOf, FromRelease
<1>6. ASSUME NEW h \in SystemsDetail(Readable, v, t) \ RhelSystems(v, t)
      PROVE  FromRelease(h) /\ ~WrittenPlainly(h)
  <2>1. h \in Readable /\ profile[h].name # NoName /\ VersionOf(h) = v
    BY <1>4
  <2>2. ~VersionMatch(profile[h], v)
    BY <1>3, <1>4
  <2> QED BY <1>1, <2>1, <2>2, VersionsDifferByText
          DEF VersionOf, FromRelease, WrittenPlainly
<1> QED BY <1>5, <1>6

-----------------------------------------------------------------------------
(* The inductive invariant of the client.                                  *)

Seen == asked \cap Readable

Entry(h) == [key |-> HostCount(h), host |-> h]

Newer(v, H) == \E i \in Versions(H) : v[1] = i[1] /\ v[2] > i[2]

MergedVersions == {m.key.version : m \in merged}

StateType ==
    /\ profile \in [Hosts -> Profiles]
    /\ today \in Nat
    /\ asked \subseteq Hosts

(* With one OS name the client holds each host it has seen under its key. *)
MergedHolds == OneOsName => merged = {Entry(h) : h \in Counted(Seen)}

(* Names or not, it knows the versions it has seen. *)
VersionsHold == MergedVersions = Versions(Seen)

(* What it holds as related is newer than something it has seen, was in
   support on a day of a batch, and has not been seen installed. *)
RelatedSound ==
    \A v \in related : /\ v \in Catalogue
                       /\ Newer(v, Seen)
                       /\ v \notin Versions(Seen)
                       /\ \E d \in days : EndDay[v] > d

(* And it misses nothing that is still in support. *)
RelatedComplete ==
    \A v \in Catalogue :
        Newer(v, Seen) /\ EndDay[v] > today /\ v \notin Versions(Seen) => v \in related

ClientInv == StateType /\ MergedHolds /\ VersionsHold /\ RelatedSound /\ RelatedComplete

LEMMA ClientInit == Init => ClientInv
  <1> SUFFICES ASSUME Init PROVE ClientInv
    OBVIOUS
  <1>1. Seen = {} /\ Counted(Seen) = {} /\ Versions(Seen) = {}
    BY DEF Init, Seen, Counted, Versions
  <1>2. StateType
    BY DEF Init, StateType
  <1>3. MergedHolds /\ VersionsHold
    BY <1>1 DEF Init, MergedHolds, VersionsHold, MergedVersions
  <1>4. RelatedSound /\ RelatedComplete
    BY <1>1 DEF Init, RelatedSound, RelatedComplete, Newer
  <1> QED BY <1>2, <1>3, <1>4 DEF ClientInv

-----------------------------------------------------------------------------
(* Facts about one batch.                                                  *)

BatchEntries(H) == UNION {{[key |-> r.key, host |-> h] : h \in r.systems} : r \in Installed(H)}

(* With one OS name the detail of a row is the hosts with the row's key. *)
LEMMA DetailIsRow ==
    ASSUME OneOsName, NEW H \in SUBSET Hosts, NEW g \in Counted(H)
    PROVE  SystemsDetail(H, HostCount(g).version, HostCount(g).type)
             = {h \in Counted(H) : HostCount(h) = HostCount(g)}
  <1>1. \A h \in Counted(H) : profile[h].name = profile[g].name
    BY DEF OneOsName, Counted
  <1>2. \A h \in Counted(H) :
           HostCount(h) = HostCount(g) <=> VersionOf(h) = VersionOf(g) /\ TypeOf(h) = TypeOf(g)
    BY <1>1 DEF HostCount
  <1> QED BY <1>2 DEF SystemsDetail, HostCount

LEMMA BatchOfOneName ==
    ASSUME OneOsName, NEW H \in SUBSET Hosts
    PROVE  BatchEntries(H) = {Entry(h) : h \in Counted(H)}
  <1>1. ASSUME NEW g \in Counted(H)
        PROVE  {[key |-> InstalledRow(H, HostCount(g)).key, host |-> h] :
                    h \in InstalledRow(H, HostCount(g)).systems}
                 = {Entry(h) : h \in {f \in Counted(H) : HostCount(f) = HostCount(g)}}
    <2>1. /\ InstalledRow(H, HostCount(g)).key = HostCount(g)
          /\ InstalledRow(H, HostCount(g)).systems
               = {h \in Counted(H) : HostCount(h) = HostCount(g)}
      BY DetailIsRow DEF InstalledRow
    <2> QED BY <2>1 DEF Entry
  <1>2. ASSUME NEW e \in BatchEntries(H) PROVE e \in {Entry(h) : h \in Counted(H)}
    BY <1>1 DEF BatchEntries, Installed
  <1>3. ASSUME NEW h \in Counted(H) PROVE Entry(h) \in BatchEntries(H)
    BY <1>1 DEF BatchEntries, Installed
  <1> QED BY <1>2, <1>3

(* The keys of a batch carry the versions installed in it. *)
LEMMA BatchVersions ==
    ASSUME NEW H \in SUBSET Hosts
    PROVE  {e.key.version : e \in BatchEntries(H)} = Versions(H)
  <1>1. ASSUME NEW e \in BatchEntries(H) PROVE e.key.version \in Versions(H)
    <2>1. PICK g \in Counted(H) : e \in {[key |-> InstalledRow(H, HostCount(g)).key, host |-> h] :
                                            h \in InstalledRow(H, HostCount(g)).systems}
      BY DEF BatchEntries, Installed
    <2>2. e.key = HostCount(g)
      BY <2>1 DEF InstalledRow
    <2> QED BY <2>2 DEF HostCount, Versions
  <1>2. ASSUME NEW g \in Counted(H)
        PROVE  \E e \in BatchEntries(H) : e.key.version = VersionOf(g)
    <2> DEFINE r == InstalledRow(H, HostCount(g))
               e == [key |-> r.key, host |-> g]
    <2>1. r.key = HostCount(g) /\ r.systems = SystemsDetail(H, VersionOf(g), TypeOf(g))
      BY DEF InstalledRow, HostCount
    <2>2. g \in r.systems
      BY <2>1 DEF SystemsDetail
    <2>3. e \in BatchEntries(H)
      BY <2>2 DEF BatchEntries, Installed
    <2>4. e.key.version = VersionOf(g)
      BY <2>1 DEF HostCount
    <2> QED BY <2>3, <2>4
  <1> QED BY <1>1, <1>2 DEF Versions

LEMMA CountedUnion ==
    ASSUME NEW G, NEW H
    PROVE  /\ Counted(G \cup H) = Counted(G) \cup Counted(H)
           /\ Versions(G \cup H) = Versions(G) \cup Versions(H)
           /\ \A v : Newer(v, G \cup H) <=> Newer(v, G) \/ Newer(v, H)
  <1>1. Counted(G \cup H) = Counted(G) \cup Counted(H)
    BY DEF Counted
  <1>2. Versions(G \cup H) = Versions(G) \cup Versions(H)
    BY <1>1 DEF Versions
  <1> QED BY <1>1, <1>2 DEF Newer

-----------------------------------------------------------------------------
(* The steps keep the invariant.                                           *)

LEMMA PostBatchKeeps ==
    ASSUME ClientInv, NEW B \in SUBSET Hosts, PostBatch(B)
    PROVE  ClientInv'
  <1> DEFINE H == B \cap Readable
  <1>1. H \in SUBSET Hosts
    OBVIOUS
  <1>2. /\ asked' = asked \cup B
        /\ days' = days \cup {today}
        /\ merged' = merged \cup BatchEntries(H)
        /\ related' = (related \cup RelatedVersions(H)) \ {m.key.version : m \in merged'}
        /\ UNCHANGED <<profile, hostGroups, today>>
    BY DEF PostBatch, QueryHostInventoryByIds, BatchEntries
  <1>3. Seen' = Seen \cup H
    BY <1>2 DEF Seen, Readable
  <1>4. /\ \A S : Counted(S)' = Counted(S')
        /\ \A S : Versions(S)' = Versions(S')
        /\ \A h : Entry(h)' = Entry(h')
    BY <1>2 DEF Counted, Versions, Entry, HostCount, VersionOf, TypeOf
  <1>5. Counted(Seen)' = Counted(Seen) \cup Counted(H)
    BY <1>2, <1>3, CountedUnion DEF Counted, VersionOf
  <1>6. Versions(Seen)' = Versions(Seen) \cup Versions(H)
    BY <1>2, <1>5 DEF Versions, VersionOf
  <1>7. StateType'
    BY <1>2 DEF ClientInv, StateType
  <1>8. MergedHolds'
    <2>1. SUFFICES ASSUME OneOsName'
                   PROVE  merged' = {Entry(h) : h \in Counted(Seen)}'
      BY DEF MergedHolds
    <2>2. OneOsName
      BY <1>2, <2>1 DEF OneOsName, Counted, VersionOf
    <2>3. merged' = {Entry(h) : h \in Counted(Seen)} \cup {Entry(h) : h \in Counted(H)}
      BY <1>1, <1>2, <2>2, BatchOfOneName DEF ClientInv, MergedHolds
    <2>4. {Entry(h) : h \in Counted(Seen)}' = {Entry(h) : h \in Counted(Seen) \cup Counted(H)}
      BY <1>2, <1>5 DEF Entry, HostCount, VersionOf, TypeOf
    <2> QED BY <2>3, <2>4
  <1>9. MergedVersions' = Versions(Seen)'
    <2>1. MergedVersions' = MergedVersions \cup {e.key.version : e \in BatchEntries(H)}
      BY <1>2 DEF MergedVersions
    <2> QED BY <1>1, <1>6, <2>1, BatchVersions DEF ClientInv, VersionsHold
  <1>10. \A v : Newer(v, Seen)' <=> Newer(v, Seen) \/ Newer(v, H)
    BY <1>6 DEF Newer
  <1>11. related' = (related \cup RelatedVersions(H)) \ Versions(Seen)'
    BY <1>2, <1>9 DEF MergedVersions
  <1>12. \A v : v \in RelatedVersions(H) <=> /\ v \in Catalogue
                                             /\ Newer(v, H)
                                             /\ EndDay[v] > today
                                             /\ v \notin Versions(H)
    BY DEF RelatedVersions, NewerVersions, Newer
  <1>13. RelatedSound'
    <2>1. SUFFICES ASSUME NEW v \in related'
                   PROVE  /\ v \in Catalogue
                          /\ Newer(v, Seen)'
                          /\ v \notin Versions(Seen)'
                          /\ \E d \in days' : EndDay[v] > d
      BY DEF RelatedSound
    <2>2. v \notin Versions(Seen)'
      BY <1>11
    <2>3. CASE v \in related
      BY <1>2, <1>10, <2>2, <2>3 DEF ClientInv, RelatedSound
    <2>4. CASE v \in RelatedVersions(H)
      BY <1>2, <1>10, <1>12, <2>2, <2>4
    <2> QED BY <1>11, <2>3, <2>4
  <1>14. RelatedComplete'
    <2>1. SUFFICES ASSUME NEW v \in Catalogue, Newer(v, Seen)', EndDay[v] > today,
                          v \notin Versions(Seen)'
                   PROVE  v \in related'
      BY <1>2 DEF RelatedComplete
    <2>2. v \notin Versions(Seen) /\ v \notin Versions(H)
      BY <1>6, <2>1
    <2>3. CASE Newer(v, Seen)
      BY <1>11, <2>1, <2>2, <2>3 DEF ClientInv, RelatedComplete
    <2>4. CASE Newer(v, H)
      BY <1>11, <1>12, <2>1, <2>2, <2>4
    <2> QED BY <1>10, <2>1, <2>3, <2>4
  <1> QED BY <1>7, <1>8, <1>9, <1>13, <1>14 DEF ClientInv, VersionsHold

LEMMA SameInventory ==
    ASSUME UNCHANGED <<profile, hostGroups, asked, merged>>
    PROVE  /\ Counted(Seen)' = Counted(Seen)
           /\ Versions(Seen)' = Versions(Seen)
           /\ \A v : Newer(v, Seen)' <=> Newer(v, Seen)
           /\ MergedHolds' <=> MergedHolds
           /\ VersionsHold' <=> VersionsHold
  <1>1. Counted(Seen)' = Counted(Seen)
    BY DEF Counted, Seen, Readable, VersionOf
  <1>2. Versions(Seen)' = Versions(Seen)
    BY <1>1 DEF Versions, VersionOf
  <1>3. \A v : Newer(v, Seen)' <=> Newer(v, Seen)
    BY <1>2 DEF Newer
  <1>4. OneOsName' <=> OneOsName
    BY DEF OneOsName, Counted, VersionOf
  <1>5. {Entry(h) : h \in Counted(Seen)}' = {Entry(h) : h \in Counted(Seen)}
    BY <1>1 DEF Entry, HostCount, VersionOf, TypeOf
  <1> QED BY <1>1, <1>2, <1>3, <1>4, <1>5 DEF MergedHolds, VersionsHold, MergedVersions

LEMMA ClientNext == ClientInv /\ [Next]_vars => ClientInv'
  <1> SUFFICES ASSUME ClientInv, [Next]_vars PROVE ClientInv'
    OBVIOUS
  <1>1. ASSUME NEW B \in SUBSET Hosts, PostBatch(B) PROVE ClientInv'
    BY <1>1, PostBatchKeeps
  <1>2. ASSUME UNCHANGED <<profile, hostGroups, clientVars>>,
               today' \in Nat, today' >= today
        PROVE  ClientInv'
    <2>1. UNCHANGED <<profile, hostGroups, asked, days, merged, related>>
      BY <1>2 DEF clientVars
    <2>2. StateType'
      BY <1>2, <2>1 DEF ClientInv, StateType
    <2>3. RelatedSound'
      BY <2>1, SameInventory DEF ClientInv, RelatedSound
    <2>4. \A v \in Catalogue : EndDay[v] > today' => EndDay[v] > today
      BY <1>2, CatalogueAssumption DEF ClientInv, StateType
    <2>5. RelatedComplete'
      BY <2>1, <2>4, SameInventory DEF ClientInv, RelatedComplete
    <2> QED BY <2>1, <2>2, <2>3, <2>5, SameInventory DEF ClientInv
  <1>3. CASE Midnight
    BY <1>2, <1>3 DEF Midnight, ClientInv, StateType
  <1>4. CASE UNCHANGED vars
    BY <1>2, <1>4 DEF vars, ClientInv, StateType
  <1> QED BY <1>1, <1>3, <1>4 DEF Next

-----------------------------------------------------------------------------
(* Types.                                                                  *)

LEMMA CountedKeys ==
    ASSUME profile \in [Hosts -> Profiles], NEW h \in Counted(Hosts)
    PROVE  HostCount(h) \in Keys
<1>1. /\ profile[h] \in Profiles
      /\ profile[h].name # NoName
      /\ VersionOf(h) # NoVersion
  BY DEF Counted
<1>2. profile[h].name \in OsNames
  BY <1>1, ProfilesAssumption
<1>3. VersionOf(h) \in Nat \X (Nat \cup {NoMinor})
  <2>1. CASE profile[h].os # NoVersion
    BY <1>1, <2>1, ProfilesAssumption DEF VersionOf, RhelMajorMinor
  <2>2. CASE profile[h].os = NoVersion
    <3> DEFINE release == profile[h].release
    <3>1. Numeric(release) /\ VersionOf(h) = <<release[1].value, release[2].value>>
      BY <1>1, <2>2 DEF VersionOf, RhelMajorMinor
    <3>2. release \in Seq(Parts) /\ Len(release) >= 2
      BY <1>1, <3>1, ProfilesAssumption DEF Numeric
    <3>3. 1 \in DOMAIN release /\ 2 \in DOMAIN release
      BY <3>2
    <3> HIDE DEF release
    <3>4. release[1] \in Parts /\ release[2] \in Parts
      BY <3>2, <3>3
    <3>5. release[1].value # NotNumber /\ release[2].value # NotNumber
      BY <3>1, <3>3 DEF Numeric
    <3>6. release[1].value \in Nat /\ release[2].value \in Nat
      BY <3>4, <3>5 DEF Parts
    <3> QED BY <3>1, <3>6
  <2> QED BY <2>1, <2>2
<1>4. TypeOf(h) \in LifecycleTypes
  BY DEF TypeOf, GetLifecycleType, LifecycleTypes
<1> QED
  BY <1>2, <1>3, <1>4 DEF HostCount, Keys

LEMMA TypeInit == Init => TypeOK
  BY CatalogueAssumption DEF Init, TypeOK, Days

LEMMA TypeBatch ==
    ASSUME TypeOK, NEW B \in SUBSET Hosts, PostBatch(B)
    PROVE  TypeOK'
<1> DEFINE H == B \cap Readable
<1>1. ASSUME NEW r \in Installed(H), NEW h \in r.systems
      PROVE  r.key \in Keys /\ h \in Hosts
  <2>1. PICK g \in Counted(H) : r = InstalledRow(H, HostCount(g))
    BY <1>1 DEF Installed
  <2>2. r.key \in Keys
    BY <2>1, CountedKeys DEF TypeOK, Counted, InstalledRow
  <2>3. h \in Hosts
    BY <1>1, <2>1 DEF InstalledRow, SystemsDetail, Counted
  <2> QED BY <2>2, <2>3
<1>2. merged' \subseteq [key : Keys, host : Hosts]
  <2>1. ASSUME NEW e \in BatchEntries(H)
        PROVE  e \in [key : Keys, host : Hosts]
    <3>1. PICK r \in Installed(H) : e \in {[key |-> r.key, host |-> h] : h \in r.systems}
      BY <2>1 DEF BatchEntries
    <3>2. PICK h \in r.systems : e = [key |-> r.key, host |-> h]
      BY <3>1
    <3>3. r.key \in Keys /\ h \in Hosts
      BY <1>1, <3>2
    <3> QED BY <3>2, <3>3
  <2>2. merged' = merged \cup BatchEntries(H)
    BY DEF PostBatch, QueryHostInventoryByIds, BatchEntries
  <2> QED BY <2>1, <2>2 DEF TypeOK
<1>3. related' \subseteq Catalogue
  BY DEF TypeOK, PostBatch, QueryHostInventoryByIds, RelatedVersions, NewerVersions
<1> QED
  BY <1>2, <1>3 DEF TypeOK, PostBatch, QueryHostInventoryByIds

LEMMA TypeNext == TypeOK /\ [Next]_vars => TypeOK'
<1> SUFFICES ASSUME TypeOK, [Next]_vars PROVE TypeOK'
  OBVIOUS
<1>1. ASSUME NEW B \in SUBSET Hosts, PostBatch(B) PROVE TypeOK'
  BY <1>1, TypeBatch
<1>2. CASE Midnight
  BY <1>2, CatalogueAssumption DEF Midnight, clientVars, TypeOK, Days
<1>3. CASE UNCHANGED vars
  BY <1>3 DEF vars, clientVars, TypeOK
<1> QED BY <1>1, <1>2, <1>3 DEF Next

(* The rows that the client merges have a name, a version and a lifecycle
   type, whatever hosts report; hosts for which relevant_systems finds none
   are in no row. *)
THEOREM TypeCorrect == Spec => []TypeOK
  BY TypeInit, TypeNext, PTL DEF Spec

-----------------------------------------------------------------------------
(* What the invariant gives.                                               *)

LEMMA MergedIsWhole == ClientInv => OneNameBatchesMatchWhole
  <1> SUFFICES ASSUME ClientInv, OneOsName, Readable \subseteq asked
               PROVE  MergedRows = Installed(Readable)
    BY DEF OneNameBatchesMatchWhole, BatchesMatchWhole, AllAsked, AccessibleHostUuids
  <1>1. Seen = Readable /\ Readable \in SUBSET Hosts
    BY DEF Seen, Readable
  <1>2. merged = {Entry(h) : h \in Counted(Readable)}
    BY <1>1 DEF ClientInv, MergedHolds
  <1>3. {m.key : m \in merged} = {HostCount(h) : h \in Counted(Readable)}
    <2>1. \A m \in merged : \E h \in Counted(Readable) : m.key = HostCount(h)
      BY <1>2 DEF Entry
    <2>2. \A h \in Counted(Readable) : Entry(h) \in merged /\ Entry(h).key = HostCount(h)
      BY <1>2 DEF Entry
    <2> QED BY <2>1, <2>2
  <1>4. ASSUME NEW g \in Counted(Readable)
        PROVE  /\ MergedSystems(HostCount(g))
                    = {h \in Counted(Readable) : HostCount(h) = HostCount(g)}
               /\ InstalledRow(Readable, HostCount(g)).systems
                    = {h \in Counted(Readable) : HostCount(h) = HostCount(g)}
    <2>1. MergedSystems(HostCount(g)) = {h \in Counted(Readable) : HostCount(h) = HostCount(g)}
      <3>1. \A m \in merged : m.host \in Counted(Readable) /\ m.key = HostCount(m.host)
        BY <1>2 DEF Entry
      <3>2. \A h \in Counted(Readable) :
               Entry(h) \in merged /\ Entry(h).key = HostCount(h) /\ Entry(h).host = h
        BY <1>2 DEF Entry
      <3>3. \A h \in MergedSystems(HostCount(g)) :
               h \in Counted(Readable) /\ HostCount(h) = HostCount(g)
        BY <3>1 DEF MergedSystems
      <3>4. \A h \in Counted(Readable) :
               HostCount(h) = HostCount(g) => h \in MergedSystems(HostCount(g))
        BY <3>2 DEF MergedSystems
      <3> QED BY <3>3, <3>4
    <2> QED BY <1>1, <2>1, DetailIsRow DEF InstalledRow
  <1>5. ASSUME NEW g \in Counted(Readable)
        PROVE  [key |-> HostCount(g), count |-> Cardinality(MergedSystems(HostCount(g))),
                systems |-> MergedSystems(HostCount(g))] = InstalledRow(Readable, HostCount(g))
    BY <1>4 DEF InstalledRow
  <1> QED BY <1>3, <1>5 DEF MergedRows, Installed

LEMMA RelatedIsWhole == ClientInv => RelatedBatchesMatchWhole
  <1> SUFFICES ASSUME ClientInv, Readable \subseteq asked
               PROVE  /\ RelatedVersions(Readable) \subseteq related
                      /\ days \subseteq {today} => related = RelatedVersions(Readable)
    BY DEF RelatedBatchesMatchWhole, AllAsked, AccessibleHostUuids
  <1>1. Seen = Readable
    BY DEF Seen, Readable
  <1>2. \A v : v \in RelatedVersions(Readable) <=> /\ v \in Catalogue
                                                   /\ Newer(v, Seen)
                                                   /\ EndDay[v] > today
                                                   /\ v \notin Versions(Seen)
    BY <1>1 DEF RelatedVersions, NewerVersions, Newer
  <1>3. RelatedVersions(Readable) \subseteq related
    BY <1>2 DEF ClientInv, RelatedComplete
  <1>4. days \subseteq {today} => related \subseteq RelatedVersions(Readable)
    BY <1>2 DEF ClientInv, RelatedSound
  <1> QED BY <1>3, <1>4

LEMMA ClientInvCorrect == Spec => []ClientInv
  BY ClientInit, ClientNext, PTL DEF Spec

(* Whatever the batches, once they cover the readable hosts of an inventory
   with one OS name, the merged rows are those of one request for all. *)
THEOREM BatchesCorrect == Spec => []OneNameBatchesMatchWhole
  BY ClientInvCorrect, MergedIsWhole, PTL

(* The recipe for related versions loses none over any number of days, and is
   exact when all batches are answered on one day. *)
THEOREM RelatedCorrect == Spec => []RelatedBatchesMatchWhole
  BY ClientInvCorrect, RelatedIsWhole, PTL

-----------------------------------------------------------------------------
(* Names apart.                                                            *)

RowOf(h)  == <<VersionOf(h), TypeOf(h)>>
Gives     == [h \in Hosts |-> IF h \in Counted(Readable) THEN {RowOf(h)} ELSE {}]
PairOf(m) == << <<m.key.version, m.key.type>>, m.host >>
Listed    == {PairOf(m) : m \in merged}
Pairs(H)  == {<<RowOf(h), h>> : h \in Counted(H)}

(* The client knows the version and the type of the hosts it has seen. *)
PairsInv == asked \subseteq Hosts /\ Listed = Pairs(Seen)

(* A batch lists its hosts under their versions and types, whatever their names. *)
LEMMA BatchPairs ==
    ASSUME NEW H
    PROVE  {PairOf(e) : e \in BatchEntries(H)} = Pairs(H)
<1>1. ASSUME NEW e \in BatchEntries(H) PROVE PairOf(e) \in Pairs(H)
  <2>1. PICK g \in Counted(H) :
           \E h \in InstalledRow(H, HostCount(g)).systems :
               e = [key |-> InstalledRow(H, HostCount(g)).key, host |-> h]
    BY DEF BatchEntries, Installed
  <2>2. PICK h \in SystemsDetail(H, VersionOf(g), TypeOf(g)) :
           e = [key |-> HostCount(g), host |-> h]
    BY <2>1 DEF InstalledRow, HostCount
  <2>3. h \in Counted(H) /\ RowOf(h) = RowOf(g)
    BY DEF SystemsDetail, RowOf
  <2>4. PairOf(e) = <<RowOf(g), h>>
    BY <2>2 DEF PairOf, RowOf, HostCount
  <2> QED BY <2>3, <2>4 DEF Pairs
<1>2. ASSUME NEW h \in Counted(H)
      PROVE  \E e \in BatchEntries(H) : PairOf(e) = <<RowOf(h), h>>
  <2> DEFINE r == InstalledRow(H, HostCount(h))
             e == [key |-> r.key, host |-> h]
  <2>1. r.key = HostCount(h) /\ r.systems = SystemsDetail(H, VersionOf(h), TypeOf(h))
    BY DEF InstalledRow, HostCount
  <2>2. h \in r.systems
    BY <2>1 DEF SystemsDetail
  <2>3. e \in BatchEntries(H)
    BY <2>2 DEF BatchEntries, Installed
  <2>4. PairOf(e) = <<RowOf(h), h>>
    BY <2>1 DEF PairOf, RowOf, HostCount
  <2> QED BY <2>3, <2>4
<1> QED BY <1>1, <1>2 DEF Pairs

LEMMA PairsStep ==
    ASSUME PairsInv, [Next]_vars
    PROVE  PairsInv'
<1>1. profile' = profile /\ hostGroups' = hostGroups
  BY DEF Next, PostBatch, Midnight, vars
<1>2. ASSUME NEW B \in SUBSET Hosts, PostBatch(B) PROVE PairsInv'
  <2> DEFINE H == B \cap Readable
  <2>1. /\ asked' = asked \cup B
        /\ merged' = merged \cup BatchEntries(H)
    BY <1>2 DEF PostBatch, QueryHostInventoryByIds, BatchEntries
  <2>2. Listed' = Listed \cup {PairOf(e) : e \in BatchEntries(H)}
    BY <2>1 DEF Listed, PairOf
  <2>3. Listed' = Pairs(Seen) \cup Pairs(H)
    BY <2>2, BatchPairs DEF PairsInv
  <2>4. Pairs(Seen)' = Pairs(Seen) \cup Pairs(H)
    <3>1. Seen' = Seen \cup H
      BY <1>1, <2>1 DEF Seen, Readable
    <3>2. Pairs(Seen)' = Pairs(Seen \cup H)
      BY <1>1, <3>1 DEF Pairs, Counted, RowOf, VersionOf, TypeOf
    <3>3. Counted(Seen \cup H) = Counted(Seen) \cup Counted(H)
      BY CountedUnion
    <3> QED BY <3>2, <3>3 DEF Pairs
  <2> QED BY <2>1, <2>3, <2>4 DEF PairsInv
<1>3. CASE UNCHANGED clientVars
  <2>1. Seen' = Seen /\ Listed' = Listed /\ asked' = asked
    BY <1>1, <1>3 DEF Seen, Readable, Listed, clientVars
  <2>2. Pairs(Seen)' = Pairs(Seen)
    BY <1>1, <2>1 DEF Pairs, Counted, RowOf, VersionOf, TypeOf
  <2> QED BY <2>1, <2>2 DEF PairsInv
<1> QED BY <1>2, <1>3 DEF Next, Midnight, vars

LEMMA PairsInvariant == Spec => []PairsInv
<1>1. Init => PairsInv
  BY DEF Init, PairsInv, Listed, Pairs, Counted, Seen
<1> QED BY <1>1, PairsStep, PTL DEF Spec

(* The hosts that may not be read, or that are not counted, give no row. *)
LEMMA PairsArePromised ==
    ASSUME NEW H \in SUBSET Hosts
    PROVE  Pairs(H \cap Readable) = UNION {{<<r, h>> : r \in Gives[h]} : h \in H}
<1>1. Counted(H \cap Readable) = H \cap Counted(Readable)
  BY DEF Counted
<1>2. \A h \in H : Gives[h] = IF h \in Counted(Readable) THEN {RowOf(h)} ELSE {}
  BY DEF Gives
<1>3. Pairs(H \cap Readable) = {<<RowOf(h), h>> : h \in H \cap Counted(Readable)}
  BY <1>1 DEF Pairs
<1>4. ASSUME NEW x \in UNION {{<<r, h>> : r \in Gives[h]} : h \in H}
      PROVE  x \in Pairs(H \cap Readable)
  <2>1. PICK h \in H : \E r \in Gives[h] : x = <<r, h>>
    OBVIOUS
  <2>2. h \in Counted(Readable) /\ x = <<RowOf(h), h>>
    BY <1>2, <2>1
  <2> QED BY <1>3, <2>2
<1>5. ASSUME NEW h \in H \cap Counted(Readable)
      PROVE  <<RowOf(h), h>> \in UNION {{<<r, g>> : r \in Gives[g]} : g \in H}
  <2>1. h \in H /\ RowOf(h) \in Gives[h]
    BY <1>2
  <2>2. <<RowOf(h), h>> \in {<<r, h>> : r \in Gives[h]}
    BY <2>1
  <2> QED BY <2>1, <2>2
<1> QED BY <1>3, <1>4, <1>5

PromiseInv == asked \subseteq Hosts /\ Listed = UNION {{<<r, h>> : r \in Gives[h]} : h \in asked}

LEMMA PromiseStep ==
    ASSUME PromiseInv, PromiseInv', [Next]_vars
    PROVE  [Promise!Next]_(Promise!clientVars)
<1>1. profile' = profile /\ hostGroups' = hostGroups
  BY DEF Next, PostBatch, Midnight, vars
<1>2. Gives' = Gives
  BY <1>1 DEF Gives, Counted, Readable, RowOf, VersionOf, TypeOf
<1>3. ASSUME NEW B \in SUBSET Hosts, PostBatch(B) PROVE Promise!Next
  <2>1. asked' = asked \cup B
    BY <1>3 DEF PostBatch
  <2>2. Listed' = UNION {{<<r, h>> : r \in Gives[h]} : h \in asked'}
    BY <1>2 DEF PromiseInv
  <2>3. Promise!Merge(B)
    BY <1>2, <2>1, <2>2 DEF Promise!Merge, Promise!RowsOf, Gives, Listed, RowOf, PairOf
  <2> QED BY <2>3 DEF Promise!Next, Promise!Merge
<1>4. CASE UNCHANGED clientVars
  BY <1>2, <1>4 DEF Promise!clientVars, clientVars, Gives, Listed, RowOf, PairOf
<1> QED BY <1>3, <1>4 DEF Next, Midnight, vars

(* For any OS names, the merged rows are those that BatchedRows promises once
   the names are left out of their keys. *)
THEOREM PromiseKept == Spec => BatchesKeepThePromise
<1>1. Init => Promise!Init
  BY DEF Init, Promise!Init
<1>2. PairsInv => PromiseInv
  BY PairsArePromised DEF PairsInv, PromiseInv, Seen
<1>3. PromiseInv /\ PromiseInv' /\ [Next]_vars => [Promise!Next]_(Promise!clientVars)
  BY PromiseStep
<1> QED
  BY <1>1, <1>2, <1>3, PairsInvariant, PTL DEF Spec, BatchesKeepThePromise, Promise!Spec

(* So batches that cover the readable hosts tell every version and type. *)
THEOREM VersionsMatchWhole == Spec => []Promise!WholeIsListed
  BY PromiseKept, Promise!PromiseGivesWhole, PTL DEF BatchesKeepThePromise

(* For every version and lifecycle type a caller may ask for, and whatever
   hosts write into os_release: the pages of /v2 list the hosts of the v1 row,
   but for those of whose os_release v1 cannot read some part, and those that
   do not write it as plain numbers. *)
THEOREM PagesCorrect == Spec => []PagesDifferByTextOnly
  <1>1. ClientInv => PagesDifferByTextOnly
    BY PagesFromProfiles DEF ClientInv, StateType
  <1> QED BY <1>1, ClientInvCorrect, PTL
=============================================================================
