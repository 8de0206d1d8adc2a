----------------------- MODULE AppStreamStatusProofs -----------------------
(* Theorems about the statuses that notifications count, for any catalogue,
   any packages, any cache size and any number of days. *)
EXTENDS AppStreamStatus, FiniteSetTheorems, TLAPS

(* Every status has its day. *)
LEMMA StatusType ==
    ASSUME NEW s \in Streams, NEW dated \in BOOLEAN, NEW d \in Nat
    PROVE  SupportStatus(s, dated, d) \in Statuses
  BY CatalogueAssumption DEF SupportStatus, Statuses

LEMMA ValidateType ==
    ASSUME TypeOK, NEW V, NEW D, Validate(V, D)
    PROVE  status' \in [Streams -> Statuses]
  <1>1. day \in Nat
    BY ProcessAssumption DEF TypeOK, Days
  <1>2. \A s \in Streams : (s \notin Rolling \/ s \in D) \in BOOLEAN
    OBVIOUS
  <1>3. \A s \in Streams : SupportStatus(s, s \notin Rolling \/ s \in D, day) \in Statuses
    BY <1>1, <1>2, StatusType
  <1> QED BY <1>3 DEF Validate, TypeOK

LEMMA StreamsOfType == ASSUME NEW P \in SUBSET Packages PROVE StreamsOf(P) \subseteq Streams
  BY CatalogueAssumption DEF StreamsOf

LEMMA TypeInit == Init => TypeOK
  <1> SUFFICES ASSUME Init PROVE TypeOK
    OBVIOUS
  <1>1. \A s \in Streams : CatalogueStatus(s, 0) \in Statuses
    BY StatusType DEF CatalogueStatus
  <1>2. Cardinality(cache) <= CacheSize
    BY FS_EmptySet, ProcessAssumption DEF Init
  <1> QED
    BY <1>1, <1>2, ProcessAssumption
    DEF Init, TypeOK, Days, Steps, Unread, Statuses

LEMMA FindType ==
    ASSUME TypeOK, NEW P \in SUBSET Packages, NEW M \in SUBSET Streams,
           FindStreams(P, M)
    PROVE  /\ status' \in [Streams -> Statuses]
           /\ osDated' = osDated
           /\ cache' \subseteq Packages
           /\ Cardinality(cache') <= CacheSize
  <1>1. cache \cup P \subseteq Packages
    BY DEF TypeOK
  <1>2. CASE Cardinality(cache \cup P) <= CacheSize
    BY <1>1, <1>2, ValidateType DEF FindStreams
  <1>3. CASE ~(Cardinality(cache \cup P) <= CacheSize)
    <2>1. cache' \in {C \in SUBSET (cache \cup P) : Cardinality(C) = CacheSize}
      BY <1>3 DEF FindStreams
    <2>2. Cardinality(cache') <= CacheSize
      BY <2>1, ProcessAssumption
    <2> QED BY <1>1, <1>3, <2>1, <2>2, ValidateType DEF FindStreams
  <1> QED BY <1>2, <1>3

LEMMA TypeNext == TypeOK /\ [Next]_vars => TypeOK'
  <1> SUFFICES ASSUME TypeOK, [Next]_vars PROVE TypeOK'
    OBVIOUS
  <1>0. apiProcess' \in BOOLEAN
    BY DEF Next, vars, TypeOK
  <1>1. ASSUME NEW r \in Runs, StartOrg(r) PROVE TypeOK'
    BY <1>0, <1>1 DEF StartOrg, TypeOK, Steps
  <1>2. ASSUME NEW r \in Runs, MatchStreams(r) PROVE TypeOK'
    <2>1. PICK P \in SUBSET Packages :
            /\ FindStreams(P, {})
            /\ found' = [found EXCEPT ![r] = @ \cup StreamsOf(P)]
            /\ hostPackages' = [hostPackages EXCEPT ![r] = P]
      BY <1>2 DEF MatchStreams
    <2>2. StreamsOf(P) \subseteq Streams
      BY StreamsOfType
    <2>3. /\ step' = [step EXCEPT ![r] = "matched"]
          /\ endBefore' = [endBefore EXCEPT ![r] = lastEnd]
          /\ UNCHANGED <<day, since, counted, lastEnd>>
      BY <1>2 DEF MatchStreams
    <2> QED BY <1>0, <2>1, <2>2, <2>3, FindType DEF TypeOK, Steps
  <1>3. ASSUME NEW r \in Runs, CountStreams(r) PROVE TypeOK'
    <2>1. [s \in Streams |-> IF s \in found[r] THEN status[s] ELSE "unknown"]
            \in [Streams -> Statuses]
      BY DEF TypeOK, Statuses
    <2> QED BY <1>0, <1>3, <2>1 DEF CountStreams, TypeOK, Steps
  <1>4. ASSUME NEW r \in Runs, FinishOrg(r) PROVE TypeOK'
    <2>1. Cardinality(cache') <= CacheSize
      BY <1>4, FS_EmptySet, ProcessAssumption DEF FinishOrg
    <2>2. 0 \in Days
      BY ProcessAssumption DEF Days
    <2> QED BY <1>0, <1>4, <2>1, <2>2 DEF FinishOrg, TypeOK, Steps, Unread, Statuses
  <1>5. ASSUME NEW r \in Runs, FinishRoadmapOrg(r) PROVE TypeOK'
    <2>1. Cardinality(cache') <= CacheSize
      BY <1>5, FS_EmptySet, ProcessAssumption DEF FinishRoadmapOrg
    <2> QED BY <1>0, <1>5, <2>1 DEF FinishRoadmapOrg, TypeOK, orgVars
  <1>6. CASE RelevantRequest
    BY <1>0, <1>6, FindType DEF RelevantRequest, TypeOK, orgVars
  <1>7. CASE CatalogueRequest
    BY <1>0, <1>7, ValidateType DEF CatalogueRequest, TypeOK, orgVars
  <1>8. CASE PartialCatalogueRequest
    BY <1>0, <1>8, ValidateType DEF PartialCatalogueRequest, TypeOK, orgVars
  <1>9. CASE Midnight
    BY <1>0, <1>9, ProcessAssumption DEF Midnight, TypeOK, Days, orgVars
  <1>10. CASE UNCHANGED vars
    BY <1>0, <1>10 DEF vars, orgVars, TypeOK
  <1>11. ASSUME NEW r \in Runs, ReadHosts(r) PROVE TypeOK'
    <2>1. PICK M, verified \in SUBSET ModuleStreams :
            /\ verified \subseteq M
            /\ Validate(M, osDated)
            /\ found' = [found EXCEPT ![r] = @ \cup verified]
      BY <1>11 DEF ReadHosts
    <2>2. verified \subseteq Streams
      BY CatalogueAssumption
    <2>3. UNCHANGED <<day, osDated, cache, step, since, counted, hostPackages, endBefore, lastEnd>>
      BY <1>11 DEF ReadHosts
    <2> QED BY <1>0, <2>1, <2>2, <2>3, ValidateType DEF TypeOK
  <1>12. CASE RequestReadsHosts
    BY <1>0, <1>12, ValidateType DEF RequestReadsHosts, TypeOK, orgVars
  <1> QED
    BY <1>1, <1>2, <1>3, <1>4, <1>5, <1>6, <1>7, <1>8, <1>9, <1>10, <1>11, <1>12 DEF Next

(* The type invariant. *)
THEOREM TypeCorrect == Spec => []TypeOK
  BY TypeInit, TypeNext, PTL DEF Spec

-----------------------------------------------------------------------------
(* Statuses that are current: lemmas for both kinds of process.            *)

(* v is the status of s on a day from lo to hi. *)
CurrentIn(lo, hi, v, s) == \E d \in lo..hi : v = CatalogueStatus(s, d)

LEMMA CurrentStays ==
    ASSUME NEW lo \in Nat, NEW hi \in Nat, NEW later \in Nat, hi <= later,
           NEW v, NEW s, CurrentIn(lo, hi, v, s)
    PROVE  CurrentIn(lo, later, v, s)
  BY DEF CurrentIn

LEMMA CurrentToday ==
    ASSUME NEW lo \in Nat, NEW hi \in Nat, lo <= hi, NEW s
    PROVE  CurrentIn(lo, hi, CatalogueStatus(s, hi), s)
  BY DEF CurrentIn

(* Validating an object leaves its status alone or makes it today's. *)
LEMMA ValidateStatus ==
    ASSUME NEW V, NEW D, Validate(V, D), NEW s \in Streams,
           s \in Rolling => s \notin D
    PROVE  /\ status'[s] = status[s] \/ status'[s] = CatalogueStatus(s, day)
           /\ s \in V => status'[s] = CatalogueStatus(s, day)
  <1>1. (s \notin Rolling \/ s \in D) = (s \notin Rolling)
    OBVIOUS
  <1> QED BY <1>1 DEF Validate, CatalogueStatus

LEMMA FindStatus ==
    ASSUME NEW P \in SUBSET Packages, NEW M \in SUBSET Streams,
           FindStreams(P, M), NEW s \in Streams, s \in Rolling => s \notin osDated
    PROVE  /\ status'[s] = status[s] \/ status'[s] = CatalogueStatus(s, day)
           /\ s \in M => status'[s] = CatalogueStatus(s, day)
  <1>1. CASE Cardinality(cache \cup P) <= CacheSize
    <2>1. Validate(M \cup StreamsOf(P \ cache), osDated)
      BY <1>1 DEF FindStreams
    <2> QED BY <2>1, ValidateStatus
  <1>2. CASE ~(Cardinality(cache \cup P) <= CacheSize)
    <2>1. PICK missed \in SUBSET P : Validate(M \cup StreamsOf(missed), osDated)
      BY <1>2 DEF FindStreams
    <2> QED BY <2>1, ValidateStatus
  <1> QED BY <1>1, <1>2

-----------------------------------------------------------------------------
(* Statuses in any process, where catalogue responses date rolling streams. *)

(* v is a status that the object of s may have been given on a day from lo to
   hi, when D had their OS's dates by then. *)
SeenIn(lo, hi, D, v, s) == \E d \in lo..hi : v \in AttributeStatuses(s, D, d)

LEMMA SeenStays ==
    ASSUME NEW lo \in Nat, NEW hi \in Nat, NEW later \in Nat, hi <= later,
           NEW D, NEW E, D \subseteq E,
           NEW v, NEW s, SeenIn(lo, hi, D, v, s)
    PROVE  SeenIn(lo, later, E, v, s)
  <1>1. PICK d \in lo..hi : v \in AttributeStatuses(s, D, d)
    BY DEF SeenIn
  <1>2. AttributeStatuses(s, D, d) \subseteq AttributeStatuses(s, E, d)
    <2>1. CASE s \in D
      BY <2>1 DEF AttributeStatuses
    <2>2. CASE s \notin D
      <3>1. (s \notin Rolling \/ s \in D) = (s \notin Rolling)
        BY <2>2
      <3> QED BY <3>1 DEF AttributeStatuses, CatalogueStatus
    <2> QED BY <2>1, <2>2
  <1>3. d \in lo..later
    OBVIOUS
  <1> QED BY <1>1, <1>2, <1>3 DEF SeenIn

LEMMA SeenToday ==
    ASSUME NEW lo \in Nat, NEW hi \in Nat, lo <= hi,
           NEW D, NEW s, NEW v \in AttributeStatuses(s, D, hi)
    PROVE  SeenIn(lo, hi, D, v, s)
  BY DEF SeenIn

(* Validating an object leaves its status alone or makes it today's. *)
LEMMA ValidateAttribute ==
    ASSUME NEW V, NEW D, Validate(V, D), NEW s \in Streams
    PROVE  /\ status'[s] = status[s] \/ status'[s] \in AttributeStatuses(s, D, day)
           /\ s \in V => status'[s] \in AttributeStatuses(s, D, day)
  BY DEF Validate, AttributeStatuses

(* Whoever validates objects or dates them, they only become fresher. *)
StatusesGrow ==
    /\ osDated \subseteq osDated'
    /\ \A s \in Streams :
          status'[s] = status[s] \/ status'[s] \in AttributeStatuses(s, osDated', day)

LEMMA ValidateGrows ==
    ASSUME NEW V, Validate(V, osDated'), osDated \subseteq osDated'
    PROVE  StatusesGrow
  BY ValidateAttribute DEF StatusesGrow

LEMMA FindGrows ==
    ASSUME NEW P \in SUBSET Packages, NEW M \in SUBSET Streams, FindStreams(P, M)
    PROVE  StatusesGrow
  <1>1. osDated' = osDated
    BY DEF FindStreams
  <1>2. CASE Cardinality(cache \cup P) <= CacheSize
    BY <1>1, <1>2, ValidateGrows DEF FindStreams
  <1>3. CASE ~(Cardinality(cache \cup P) <= CacheSize)
    <2>1. PICK missed \in SUBSET P : Validate(M \cup StreamsOf(missed), osDated)
      BY <1>3 DEF FindStreams
    <2> QED BY <1>1, <2>1, ValidateGrows
  <1> QED BY <1>2, <1>3

LEMMA FresherIn ==
    ASSUME NEW lo \in Nat, day \in Nat, day' \in Nat, lo <= day, day <= day',
           StatusesGrow, NEW s \in Streams, SeenIn(lo, day, osDated, status[s], s)
    PROVE  SeenIn(lo, day', osDated', status'[s], s)
  <1>1. osDated \subseteq osDated'
    BY DEF StatusesGrow
  <1>2. CASE status'[s] = status[s]
    BY <1>1, <1>2, SeenStays
  <1>3. CASE status'[s] \in AttributeStatuses(s, osDated', day)
    <2>1. SeenIn(lo, day, osDated', status'[s], s)
      BY <1>3, SeenToday
    <2> QED BY <2>1, SeenStays
  <1> QED BY <1>2, <1>3 DEF StatusesGrow

-----------------------------------------------------------------------------
(* Streams reported as modules, in any process.                            *)

(* The steps in which statuses of found streams are yet to be read. *)
Reading == {"streaming", "matched"}

OwnModules(r) == found[r] \cap ModuleStreams

(* The key of a module is made while the organization is processed, so its
   status stems from then, and so does what is counted. *)
ModulePart(r) ==
    /\ since[r] <= day
    /\ \A s \in OwnModules(r) :
          /\ step[r] \in Reading => SeenIn(since[r], day, osDated, status[s], s)
          /\ step[r] = "counted" => SeenIn(since[r], day, osDated, counted[r][s], s)

ModuleInv == \A r \in Runs : ModulePart(r)

LEMMA ModuleInvInit == Init => ModuleInv
  BY DEF Init, ModuleInv, ModulePart, OwnModules

LEMMA DayType ==
    TypeOK => day \in Nat /\ \A r \in Runs : since[r] \in Nat
  BY ProcessAssumption DEF TypeOK, Days

(* A run that stands still keeps its part, while objects are validated or the
   day changes. *)
LEMMA ModulePartKept ==
    ASSUME TypeOK, NEW r \in Runs, ModulePart(r), day' \in Nat, day <= day', StatusesGrow,
           since'[r] = since[r], step'[r] = step[r], found'[r] = found[r],
           counted'[r] = counted[r]
    PROVE  ModulePart(r)'
  <1>1. since[r] <= day /\ since[r] \in Nat /\ day \in Nat
    BY DayType DEF ModulePart
  <1>2. OwnModules(r)' = OwnModules(r) /\ OwnModules(r) \subseteq Streams
    BY DEF OwnModules, TypeOK
  <1>3. ASSUME NEW s \in OwnModules(r), step[r] \in Reading
        PROVE  SeenIn(since[r], day', osDated', status'[s], s)
    BY <1>1, <1>2, <1>3, FresherIn DEF ModulePart
  <1>4. ASSUME NEW s \in OwnModules(r), step[r] = "counted"
        PROVE  SeenIn(since[r], day', osDated', counted[r][s], s)
    <2>1. SeenIn(since[r], day, osDated, counted[r][s], s)
      BY <1>4 DEF ModulePart
    <2> QED BY <1>1, <2>1, SeenStays DEF StatusesGrow
  <1> QED BY <1>1, <1>2, <1>3, <1>4 DEF ModulePart

LEMMA ModuleInvNext == TypeOK /\ ModuleInv /\ [Next]_vars => ModuleInv'
  <1> SUFFICES ASSUME TypeOK, ModuleInv, [Next]_vars, NEW q \in Runs
               PROVE  ModulePart(q)'
    BY DEF ModuleInv
  <1>0. /\ day \in Nat /\ \A r \in Runs : since[r] \in Nat /\ since[r] <= day
        /\ \A r \in Runs : OwnModules(r) \subseteq Streams /\ ModulePart(r)
    BY DayType DEF OwnModules, TypeOK, ModuleInv, ModulePart
  \* Steps that are of no run, or of another one.
  <1>1. ASSUME StatusesGrow, day' \in Nat, day <= day', since'[q] = since[q],
               step'[q] = step[q], found'[q] = found[q], counted'[q] = counted[q]
        PROVE  ModulePart(q)'
    BY <1>0, <1>1, ModulePartKept
  <1>2. ASSUME NEW r \in Runs, StartOrg(r) PROVE ModulePart(q)'
    <2>1. CASE q = r
      BY <1>0, <1>2, <2>1 DEF StartOrg, TypeOK, OwnModules, ModulePart
    <2>2. CASE q # r
      BY <1>0, <1>1, <1>2, <2>2 DEF StartOrg, TypeOK, StatusesGrow
    <2> QED BY <2>1, <2>2
  <1>3. ASSUME NEW r \in Runs, ReadHosts(r) PROVE ModulePart(q)'
    <2>1. PICK M, verified \in SUBSET ModuleStreams :
            /\ verified \subseteq M
            /\ Validate(M, osDated)
            /\ found' = [found EXCEPT ![r] = @ \cup verified]
      BY <1>3 DEF ReadHosts
    <2>2. /\ step[r] = "streaming"
          /\ UNCHANGED <<day, osDated, step, since, counted>>
      BY <1>3 DEF ReadHosts
    <2>3. StatusesGrow
      BY <2>1, <2>2, ValidateGrows
    <2>4. CASE q = r
      <3>1. ASSUME NEW s \in OwnModules(r)'
            PROVE  SeenIn(since[r], day, osDated, status'[s], s)
        <4>1. s \in OwnModules(r) \/ s \in M \cap Streams
          BY <2>1, <3>1, CatalogueAssumption DEF OwnModules, TypeOK
        <4>2. CASE s \in OwnModules(r)
          <5>1. SeenIn(since[r], day, osDated, status[s], s) /\ s \in Streams
            BY <1>0, <2>2, <4>2 DEF ModulePart, Reading
          <5> QED BY <1>0, <2>2, <2>3, <5>1, FresherIn
        <4>3. CASE s \in M \cap Streams
          <5>1. status'[s] \in AttributeStatuses(s, osDated, day)
            BY <2>1, <4>3, ValidateAttribute
          <5> QED BY <1>0, <5>1, SeenToday
        <4> QED BY <4>1, <4>2, <4>3
      <3> QED BY <1>0, <2>2, <2>4, <3>1 DEF ModulePart
    <2>5. CASE q # r
      <3>1. found'[q] = found[q]
        BY <2>1, <2>5 DEF TypeOK
      <3> QED BY <1>0, <1>1, <2>2, <2>3, <3>1
    <2> QED BY <2>4, <2>5
  <1>4. ASSUME NEW r \in Runs, MatchStreams(r) PROVE ModulePart(q)'
    <2>1. PICK P \in SUBSET Packages :
            /\ FindStreams(P, {})
            /\ found' = [found EXCEPT ![r] = @ \cup StreamsOf(P)]
      BY <1>4 DEF MatchStreams
    <2>2. /\ step[r] = "streaming" /\ step' = [step EXCEPT ![r] = "matched"]
          /\ UNCHANGED <<day, since, counted>>
      BY <1>4 DEF MatchStreams
    <2>3. StatusesGrow
      BY <2>1, FindGrows
    <2>4. CASE q = r
      <3>1. OwnModules(r)' = OwnModules(r)
        BY <2>1, CatalogueAssumption DEF OwnModules, StreamsOf, TypeOK
      <3>2. \A s \in OwnModules(r) : SeenIn(since[r], day, osDated, status[s], s)
        BY <1>0, <2>2 DEF ModulePart, Reading
      <3>3. \A s \in OwnModules(r) : SeenIn(since[r], day', osDated', status'[s], s)
        BY <1>0, <2>2, <2>3, <3>2, FresherIn
      <3> QED BY <1>0, <2>2, <2>4, <3>1, <3>3 DEF TypeOK, ModulePart
    <2>5. CASE q # r
      <3>1. step'[q] = step[q] /\ found'[q] = found[q]
        BY <2>1, <2>2, <2>5 DEF TypeOK
      <3> QED BY <1>0, <1>1, <2>2, <2>3, <3>1
    <2> QED BY <2>4, <2>5
  <1>5. ASSUME NEW r \in Runs, CountStreams(r) PROVE ModulePart(q)'
    <2>1. UNCHANGED <<day, status, osDated, since, found>>
      BY <1>5 DEF CountStreams
    <2>2. CASE q = r
      <3>1. step[r] = "matched" /\ step'[r] = "counted"
        BY <1>5 DEF CountStreams, TypeOK
      <3>2. \A s \in OwnModules(r) : counted'[r][s] = status[s]
        BY <1>0, <1>5 DEF CountStreams, TypeOK, OwnModules
      <3>3. \A s \in OwnModules(r) : SeenIn(since[r], day, osDated, counted'[r][s], s)
        BY <1>0, <3>1, <3>2 DEF ModulePart, Reading
      <3> QED BY <1>0, <2>1, <2>2, <3>1, <3>3 DEF OwnModules, Reading, ModulePart
    <2>3. CASE q # r
      <3>1. step'[q] = step[q] /\ counted'[q] = counted[q]
        BY <1>5, <2>3 DEF CountStreams, TypeOK
      <3>2. StatusesGrow
        BY <2>1 DEF StatusesGrow
      <3> QED BY <1>0, <1>1, <2>1, <3>1, <3>2
    <2> QED BY <2>2, <2>3
  <1>6. ASSUME NEW r \in Runs, FinishOrg(r) PROVE ModulePart(q)'
    <2>1. CASE q = r
      BY <1>0, <1>6, <2>1 DEF FinishOrg, TypeOK, Reading, ModulePart
    <2>2. CASE q # r
      BY <1>0, <1>1, <1>6, <2>2 DEF FinishOrg, TypeOK, StatusesGrow
    <2> QED BY <2>1, <2>2
  <1>7. ASSUME NEW r \in Runs, FinishRoadmapOrg(r) PROVE ModulePart(q)'
    BY <1>0, <1>1, <1>7 DEF FinishRoadmapOrg, orgVars, StatusesGrow
  <1>8. CASE RelevantRequest
    <2>1. StatusesGrow
      BY <1>8, FindGrows DEF RelevantRequest
    <2> QED BY <1>0, <1>1, <1>8, <2>1 DEF RelevantRequest, orgVars
  <1>9. CASE CatalogueRequest
    <2>1. StatusesGrow
      BY <1>9, ValidateGrows DEF CatalogueRequest
    <2> QED BY <1>0, <1>1, <1>9, <2>1 DEF CatalogueRequest, orgVars
  <1>10. CASE PartialCatalogueRequest
    <2>1. StatusesGrow
      BY <1>10, ValidateGrows DEF PartialCatalogueRequest
    <2> QED BY <1>0, <1>1, <1>10, <2>1 DEF PartialCatalogueRequest, orgVars
  <1>11. CASE RequestReadsHosts
    <2>1. StatusesGrow
      BY <1>11, ValidateGrows DEF RequestReadsHosts
    <2> QED BY <1>0, <1>1, <1>11, <2>1 DEF RequestReadsHosts, orgVars
  <1>12. CASE Midnight
    BY <1>0, <1>1, <1>12 DEF Midnight, orgVars, StatusesGrow
  <1>13. CASE UNCHANGED vars
    BY <1>0, <1>1, <1>13 DEF vars, orgVars, StatusesGrow
  <1> QED
    BY <1>2, <1>3, <1>4, <1>5, <1>6, <1>7, <1>8, <1>9, <1>10, <1>11, <1>12, <1>13 DEF Next

(* Also in the API process, with its caches and its users, a stream that
   hosts report as a module is counted under the status of a day on which the
   organization is processed, and a rolling one by the end date of its OS
   only if a catalogue response gave it that date. *)
THEOREM ModuleStatusCorrect == Spec => []ModuleStatusIsCurrent
  <1>1. ModuleInv => ModuleStatusIsCurrent
    BY DEF ModuleInv, ModulePart, ModuleStatusIsCurrent, OwnModules, SeenIn
  <1> QED BY <1>1, TypeInit, TypeNext, ModuleInvInit, ModuleInvNext, PTL DEF Spec

-----------------------------------------------------------------------------
(* Streams found by packages, in any process.                    *)

(* What the cache vouches for was validated since any run was last done with
   an organization: every lookup that misses validates, and that end cleared
   the cache. *)
CacheInv ==
    /\ lastEnd <= day
    /\ \A s \in StreamsOf(cache) : SeenIn(lastEnd, day, osDated, status[s], s)

OwnPackageStreams(r) == found[r] \ ModuleStreams

PackagePart(r) ==
    /\ endBefore[r] <= day
    /\ step[r] = "streaming" => found[r] \subseteq ModuleStreams
    /\ \A s \in OwnPackageStreams(r) :
          /\ step[r] = "matched" => SeenIn(endBefore[r], day, osDated, status[s], s)
          /\ step[r] = "counted" => SeenIn(endBefore[r], day, osDated, counted[r][s], s)

PackageInv == CacheInv /\ \A r \in Runs : PackagePart(r)

LEMMA PackageInvInit == Init => PackageInv
  <1> SUFFICES ASSUME Init PROVE PackageInv
    OBVIOUS
  <1>1. lastEnd <= day /\ StreamsOf(cache) = {}
    BY DEF Init, StreamsOf
  <1>2. \A r \in Runs : PackagePart(r)
    BY DEF Init, PackagePart, OwnPackageStreams
  <1> QED BY <1>1, <1>2 DEF PackageInv, CacheInv

LEMMA HistoryType ==
    TypeOK => lastEnd \in Nat /\ \A r \in Runs : endBefore[r] \in Nat
  BY ProcessAssumption DEF TypeOK, Days

(* The cache is as it was, or empty. *)
LEMMA CacheInvKept ==
    ASSUME TypeOK, CacheInv, day' \in Nat, day <= day', StatusesGrow,
           \/ cache' = cache /\ lastEnd' = lastEnd
           \/ cache' = {} /\ lastEnd' = day
    PROVE  CacheInv'
  <1>1. day \in Nat /\ lastEnd \in Nat /\ lastEnd <= day
    BY DayType, HistoryType DEF CacheInv
  <1>2. CASE cache' = {} /\ lastEnd' = day
    <2>1. StreamsOf(cache)' = {}
      BY <1>2 DEF StreamsOf
    <2> QED BY <1>1, <1>2, <2>1 DEF CacheInv
  <1>3. CASE cache' = cache /\ lastEnd' = lastEnd
    <2>1. StreamsOf(cache)' = StreamsOf(cache) /\ StreamsOf(cache) \subseteq Streams
      BY <1>3, StreamsOfType DEF StreamsOf, TypeOK
    <2>2. \A s \in StreamsOf(cache) : SeenIn(lastEnd, day, osDated, status[s], s)
      BY DEF CacheInv
    <2>3. \A s \in StreamsOf(cache) : SeenIn(lastEnd, day', osDated', status'[s], s)
      BY <1>1, <2>1, <2>2, FresherIn
    <2> QED BY <1>1, <1>3, <2>1, <2>3 DEF CacheInv
  <1> QED BY <1>2, <1>3

(* After a lookup of packages P, by hits or by misses and with any eviction,
   their streams and those of the cache are current since the last end. *)
LEMMA FindKeeps ==
    ASSUME TypeOK, CacheInv, NEW P \in SUBSET Packages, NEW M \in SUBSET Streams,
           FindStreams(P, M), UNCHANGED <<day, lastEnd>>
    PROVE  /\ CacheInv'
           /\ \A s \in StreamsOf(P) : SeenIn(lastEnd, day, osDated, status'[s], s)
           /\ StatusesGrow /\ osDated' = osDated
  <1>1. day \in Nat /\ lastEnd \in Nat /\ lastEnd <= day
    BY DayType, HistoryType DEF CacheInv
  <1>2. StreamsOf(cache \cup P) \subseteq Streams
    BY StreamsOfType DEF TypeOK
  <1>3. PICK missed \in SUBSET P :
          P \ cache \subseteq missed /\ Validate(M \cup StreamsOf(missed), osDated)
    BY DEF FindStreams
  <1>4. cache' \subseteq cache \cup P
    BY DEF FindStreams
  <1>5. StatusesGrow /\ osDated' = osDated
    BY FindGrows DEF FindStreams
  <1>6. ASSUME NEW s \in StreamsOf(cache \cup P)
        PROVE  SeenIn(lastEnd, day, osDated, status'[s], s)
    <2>1. s \in StreamsOf(cache) \/ s \in StreamsOf(missed)
      BY <1>3 DEF StreamsOf
    <2>2. CASE s \in StreamsOf(cache)
      <3>1. SeenIn(lastEnd, day, osDated, status[s], s) /\ s \in Streams
        BY <1>2, <2>2 DEF CacheInv, StreamsOf
      <3> QED BY <1>1, <1>5, <3>1, FresherIn
    <2>3. CASE s \in StreamsOf(missed)
      <3>1. status'[s] \in AttributeStatuses(s, osDated, day)
        <4>1. s \in Streams /\ s \in M \cup StreamsOf(missed)
          BY <1>2, <2>3
        <4>2. Validate(M \cup StreamsOf(missed), osDated)
          BY <1>3
        <4> QED BY <4>1, <4>2, ValidateAttribute
      <3> QED BY <1>1, <3>1, SeenToday
    <2> QED BY <2>1, <2>2, <2>3
  <1>7. StreamsOf(cache)' \subseteq StreamsOf(cache \cup P)
    BY <1>4 DEF StreamsOf
  <1>8. StreamsOf(P) \subseteq StreamsOf(cache \cup P)
    BY DEF StreamsOf
  <1>9. CacheInv'
    BY <1>1, <1>5, <1>6, <1>7 DEF CacheInv
  <1> QED BY <1>5, <1>6, <1>8, <1>9

(* A run that stands still keeps its part. *)
LEMMA PackagePartKept ==
    ASSUME TypeOK, NEW r \in Runs, PackagePart(r), day' \in Nat, day <= day', StatusesGrow,
           endBefore'[r] = endBefore[r], step'[r] = step[r], found'[r] = found[r],
           counted'[r] = counted[r]
    PROVE  PackagePart(r)'
  <1>1. endBefore[r] <= day /\ endBefore[r] \in Nat /\ day \in Nat
    BY DayType, HistoryType DEF PackagePart
  <1>2. OwnPackageStreams(r)' = OwnPackageStreams(r)
        /\ OwnPackageStreams(r) \subseteq Streams
    BY DEF OwnPackageStreams, TypeOK
  <1>3. ASSUME NEW s \in OwnPackageStreams(r), step[r] = "matched"
        PROVE  SeenIn(endBefore[r], day', osDated', status'[s], s)
    BY <1>1, <1>2, <1>3, FresherIn DEF PackagePart
  <1>4. ASSUME NEW s \in OwnPackageStreams(r), step[r] = "counted"
        PROVE  SeenIn(endBefore[r], day', osDated', counted[r][s], s)
    BY <1>1, <1>4, SeenStays DEF PackagePart, StatusesGrow
  <1> QED BY <1>1, <1>2, <1>3, <1>4 DEF PackagePart

LEMMA PackageInvNext == TypeOK /\ PackageInv /\ [Next]_vars => PackageInv'
  <1> SUFFICES ASSUME TypeOK, PackageInv, [Next]_vars PROVE PackageInv'
    OBVIOUS
  <1>0. /\ day \in Nat /\ lastEnd \in Nat /\ lastEnd <= day /\ CacheInv
        /\ \A r \in Runs : endBefore[r] \in Nat /\ PackagePart(r)
    BY DayType, HistoryType DEF PackageInv, CacheInv
  \* Steps of a run, its own part aside.
  <1>1. ASSUME NEW r \in Runs, CacheInv', StatusesGrow, UNCHANGED day, PackagePart(r)',
               \A q \in Runs \ {r} : /\ endBefore'[q] = endBefore[q] /\ step'[q] = step[q]
                                     /\ found'[q] = found[q] /\ counted'[q] = counted[q]
        PROVE  PackageInv'
    <2>1. \A q \in Runs \ {r} : PackagePart(q)'
      BY <1>0, <1>1, PackagePartKept
    <2> QED BY <1>1, <2>1 DEF PackageInv
  \* Steps that are of no run.
  <1>2. ASSUME CacheInv', StatusesGrow, day' \in Nat, day <= day', UNCHANGED orgVars
        PROVE  PackageInv'
    <2>1. \A q \in Runs : PackagePart(q)'
      BY <1>0, <1>2, PackagePartKept DEF orgVars
    <2> QED BY <1>2, <2>1 DEF PackageInv
  <1>3. ASSUME NEW r \in Runs, StartOrg(r) PROVE PackageInv'
    <2>1. StatusesGrow /\ UNCHANGED day /\ CacheInv'
      BY <1>0, <1>3, CacheInvKept DEF StartOrg, StatusesGrow
    <2>2. PackagePart(r)'
      BY <1>0, <1>3 DEF StartOrg, TypeOK, PackagePart, OwnPackageStreams
    <2> QED BY <1>1, <1>3, <2>1, <2>2 DEF StartOrg, TypeOK
  <1>4. ASSUME NEW r \in Runs, ReadHosts(r) PROVE PackageInv'
    <2>1. PICK M, verified \in SUBSET ModuleStreams :
            /\ Validate(M, osDated)
            /\ found' = [found EXCEPT ![r] = @ \cup verified]
      BY <1>4 DEF ReadHosts
    <2>2. /\ step[r] = "streaming"
          /\ UNCHANGED <<day, osDated, cache, step, since, counted, endBefore, lastEnd>>
      BY <1>4 DEF ReadHosts
    <2>3. StatusesGrow
      BY <2>1, <2>2, ValidateGrows
    <2>4. CacheInv'
      BY <1>0, <2>2, <2>3, CacheInvKept
    <2>5. found'[r] = found[r] \cup verified /\ found[r] \subseteq ModuleStreams
      BY <1>0, <2>1, <2>2 DEF TypeOK, PackagePart
    <2>6. PackagePart(r)'
      BY <1>0, <2>2, <2>5 DEF PackagePart, OwnPackageStreams
    <2> QED BY <1>1, <2>1, <2>2, <2>3, <2>4, <2>6 DEF TypeOK
  <1>5. ASSUME NEW r \in Runs, MatchStreams(r) PROVE PackageInv'
    <2>1. PICK P \in SUBSET Packages :
            /\ FindStreams(P, {})
            /\ found' = [found EXCEPT ![r] = @ \cup StreamsOf(P)]
      BY <1>5 DEF MatchStreams
    <2>2. /\ step[r] = "streaming" /\ step' = [step EXCEPT ![r] = "matched"]
          /\ endBefore' = [endBefore EXCEPT ![r] = lastEnd]
          /\ UNCHANGED <<day, since, counted, lastEnd>>
      BY <1>5 DEF MatchStreams
    <2>3. /\ CacheInv' /\ StatusesGrow /\ osDated' = osDated
          /\ \A s \in StreamsOf(P) : SeenIn(lastEnd, day, osDated, status'[s], s)
      BY <1>0, <2>1, <2>2, FindKeeps
    <2>4. /\ found'[r] = found[r] \cup StreamsOf(P) /\ found[r] \subseteq ModuleStreams
          /\ endBefore'[r] = lastEnd /\ step'[r] = "matched"
      BY <1>0, <2>1, <2>2 DEF TypeOK, PackagePart
    <2>5. OwnPackageStreams(r)' \subseteq StreamsOf(P)
      BY <2>4 DEF OwnPackageStreams
    <2>6. PackagePart(r)'
      BY <1>0, <2>2, <2>3, <2>4, <2>5 DEF PackagePart
    <2> QED BY <1>1, <2>1, <2>2, <2>3, <2>6 DEF TypeOK
  <1>6. ASSUME NEW r \in Runs, CountStreams(r) PROVE PackageInv'
    <2>1. /\ step[r] = "matched" /\ step' = [step EXCEPT ![r] = "counted"]
          /\ UNCHANGED <<day, status, osDated, cache, found, endBefore, lastEnd>>
          /\ \A q \in Runs \ {r} : counted'[q] = counted[q]
          /\ \A s \in OwnPackageStreams(r) : counted'[r][s] = status[s]
      BY <1>6 DEF CountStreams, TypeOK, OwnPackageStreams
    <2>2. StatusesGrow /\ CacheInv'
      BY <1>0, <2>1, CacheInvKept DEF StatusesGrow
    <2>3. PackagePart(r)'
      BY <1>0, <2>1 DEF PackagePart, OwnPackageStreams, TypeOK
    <2> QED BY <1>1, <2>1, <2>2, <2>3 DEF TypeOK
  <1>7. ASSUME NEW r \in Runs, FinishOrg(r) PROVE PackageInv'
    <2>1. StatusesGrow /\ CacheInv' /\ UNCHANGED day
      BY <1>0, <1>7, CacheInvKept DEF FinishOrg, StatusesGrow
    <2>2. PackagePart(r)'
      BY <1>0, <1>7 DEF FinishOrg, TypeOK, PackagePart, OwnPackageStreams
    <2> QED BY <1>1, <1>7, <2>1, <2>2 DEF FinishOrg, TypeOK
  <1>8. ASSUME NEW r \in Runs, FinishRoadmapOrg(r) PROVE PackageInv'
    BY <1>0, <1>2, <1>8, CacheInvKept DEF FinishRoadmapOrg, StatusesGrow
  <1>9. CASE RelevantRequest
    <2>1. PICK P \in SUBSET Packages, related \in SUBSET Streams : FindStreams(P, related)
      BY <1>9 DEF RelevantRequest
    <2>2. UNCHANGED <<day, orgVars, lastEnd>>
      BY <1>9 DEF RelevantRequest
    <2>3. CacheInv' /\ StatusesGrow
      BY <1>0, <2>1, <2>2, FindKeeps
    <2> QED BY <1>0, <1>2, <2>2, <2>3
  <1>10. CASE RequestReadsHosts
    <2>1. StatusesGrow
      BY <1>10, ValidateGrows DEF RequestReadsHosts
    <2> QED BY <1>0, <1>2, <1>10, <2>1, CacheInvKept DEF RequestReadsHosts
  <1>11. CASE CatalogueRequest
    <2>1. StatusesGrow
      BY <1>11, ValidateGrows DEF CatalogueRequest
    <2> QED BY <1>0, <1>2, <1>11, <2>1, CacheInvKept DEF CatalogueRequest
  <1>12. CASE PartialCatalogueRequest
    <2>1. StatusesGrow
      BY <1>12, ValidateGrows DEF PartialCatalogueRequest
    <2> QED BY <1>0, <1>2, <1>12, <2>1, CacheInvKept DEF PartialCatalogueRequest
  <1>13. CASE Midnight
    <2>1. day' \in Nat /\ day <= day' /\ UNCHANGED <<status, osDated, cache, orgVars, lastEnd>>
      BY <1>0, <1>13 DEF Midnight
    <2> QED BY <1>0, <1>2, <2>1, CacheInvKept DEF StatusesGrow
  <1>14. CASE UNCHANGED vars
    <2>1. UNCHANGED <<day, status, osDated, cache, orgVars, lastEnd>>
      BY <1>14 DEF vars
    <2> QED BY <1>0, <1>2, <2>1, CacheInvKept DEF StatusesGrow
  <1> QED
    BY <1>3, <1>4, <1>5, <1>6, <1>7, <1>8, <1>9, <1>10, <1>11, <1>12, <1>13, <1>14 DEF Next

(* In any process a stream that is found by a package is counted under the
   status of a day no earlier than the one on which a run was last done with
   an organization, a rolling one by the dates it had by then, for any catalogue, cache size, runs, users and days. *)
THEOREM PackageStatusCorrect == Spec => []PackageStatusIsSinceLastEnd
  <1>1. PackageInv => PackageStatusIsSinceLastEnd
    BY DEF PackageInv, PackagePart, PackageStatusIsSinceLastEnd, OwnPackageStreams, SeenIn
  <1> QED BY <1>1, TypeInit, TypeNext, PackageInvInit, PackageInvNext, PTL DEF Spec

-----------------------------------------------------------------------------
(* The cron job's process.                                                 *)

(* Nothing but the run itself fills the cache, so what it holds when the
   statuses are read was put there, and validated, for this organization. *)
JobPart(r) ==
    /\ since[r] <= day
    /\ step[r] \in {"between", "streaming"} => cache = {}
    /\ cache \subseteq hostPackages[r]
    /\ step[r] \in Reading =>
          \A s \in found[r] : CurrentIn(since[r], day, status[s], s)
    /\ step[r] = "counted" =>
          \A s \in found[r] : CurrentIn(since[r], day, counted[r][s], s)

JobState ==
    /\ osDated = {}
    /\ JobPart(JobRun)
    /\ \A q \in Runs \ {JobRun} : step[q] = "between"

JobInv == ~apiProcess => JobState

LEMMA JobInvInit == Init => JobInv
  BY ProcessAssumption DEF Init, JobInv, JobState, JobPart, Reading

(* Matching with an empty cache validates every stream it finds. *)
LEMMA FindAll ==
    ASSUME TypeOK, cache = {}, osDated = {},
           NEW P \in SUBSET Packages, NEW M \in SUBSET Streams, FindStreams(P, M)
    PROVE  /\ cache' \subseteq P
           /\ \A s \in M \cup StreamsOf(P) : status'[s] = CatalogueStatus(s, day)
  <1>1. M \cup StreamsOf(P) \subseteq Streams
    BY StreamsOfType
  <1>2. P \ cache = P /\ cache \cup P = P
    OBVIOUS
  <1>3. Validate(M \cup StreamsOf(P), osDated)
    <2>1. CASE Cardinality(cache \cup P) <= CacheSize
      BY <1>2, <2>1 DEF FindStreams
    <2>2. CASE ~(Cardinality(cache \cup P) <= CacheSize)
      <3>1. PICK missed \in SUBSET P :
              P \ cache \subseteq missed /\ Validate(M \cup StreamsOf(missed), osDated)
        BY <2>2 DEF FindStreams
      <3>2. missed = P
        BY <1>2, <3>1
      <3> QED BY <3>1, <3>2
    <2> QED BY <2>1, <2>2
  <1>4. cache' \subseteq P
    BY <1>2 DEF FindStreams
  <1> QED BY <1>1, <1>3, <1>4, ValidateStatus

LEMMA JobInvNext == TypeOK /\ JobInv /\ [Next]_vars => JobInv'
  <1> SUFFICES ASSUME TypeOK, JobInv, [Next]_vars, ~apiProcess
               PROVE  JobState'
    BY DEF JobInv, Next, vars
  <1> DEFINE r == JobRun
  <1> r \in Runs
    BY ProcessAssumption
  <1> USE DEF JobPart, JobState
  <1>0. day \in Nat /\ since[r] \in Nat /\ JobState
    BY DayType DEF JobInv
  <1>1. ASSUME StartOrg(r) PROVE JobState'
    BY <1>0, <1>1 DEF StartOrg, TypeOK, Reading
  <1>2. ASSUME MatchStreams(r) PROVE JobState'
    <2>1. PICK P \in SUBSET Packages :
            /\ FindStreams(P, {})
            /\ found' = [found EXCEPT ![r] = @ \cup StreamsOf(P)]
            /\ hostPackages' = [hostPackages EXCEPT ![r] = P]
      BY <1>2 DEF MatchStreams
    <2>2. /\ step[r] = "streaming" /\ step' = [step EXCEPT ![r] = "matched"]
          /\ UNCHANGED <<day, since, counted>>
      BY <1>2 DEF MatchStreams
    <2>3. /\ cache' \subseteq P /\ osDated' = osDated
          /\ \A s \in StreamsOf(P) : status'[s] = CatalogueStatus(s, day)
          /\ \A s \in Streams : status'[s] = status[s] \/ status'[s] = CatalogueStatus(s, day)
      BY <1>0, <2>1, <2>2, FindAll, FindType, FindStatus
    <2>4. \A s \in found'[r] : CurrentIn(since[r], day, status'[s], s)
      <3>1. \A s \in found[r] : s \in Streams /\ CurrentIn(since[r], day, status[s], s)
        BY <1>0, <2>2 DEF TypeOK, Reading
      <3>2. found'[r] = found[r] \cup StreamsOf(P)
        BY <2>1 DEF TypeOK
      <3> QED BY <1>0, <2>3, <3>1, <3>2, CurrentToday
    <2>5. JobPart(r)'
      BY <1>0, <2>1, <2>2, <2>3, <2>4 DEF TypeOK, Reading
    <2>6. \A q \in Runs \ {r} : step'[q] = step[q]
      BY <2>2 DEF TypeOK
    <2> QED BY <1>0, <2>3, <2>5, <2>6
  <1>3. ASSUME CountStreams(r) PROVE JobState'
    <2>1. /\ step[r] = "matched" /\ step'[r] = "counted"
          /\ UNCHANGED <<day, osDated, since, found, cache, hostPackages>>
      BY <1>3 DEF CountStreams, TypeOK
    <2>2. \A s \in found[r] : counted'[r][s] = status[s]
      BY <1>3 DEF CountStreams, TypeOK
    <2>3. JobPart(r)'
      BY <1>0, <2>1, <2>2 DEF Reading
    <2>4. \A q \in Runs \ {r} : step'[q] = step[q]
      BY <1>3 DEF CountStreams, TypeOK
    <2> QED BY <1>0, <2>1, <2>3, <2>4
  <1>4. ASSUME FinishOrg(r) PROVE JobState'
    BY <1>0, <1>4 DEF FinishOrg, TypeOK, Reading
  <1>5. ASSUME FinishRoadmapOrg(r) PROVE JobState'
    BY <1>0, <1>5 DEF FinishRoadmapOrg, orgVars, TypeOK
  <1>6. CASE Midnight
    <2>1. day' \in Nat /\ day <= day' /\ UNCHANGED <<status, osDated, cache, orgVars>>
      BY <1>0, <1>6 DEF Midnight
    <2> QED BY <1>0, <2>1, CurrentStays DEF orgVars
  <1>7. CASE UNCHANGED vars
    BY <1>0, <1>7 DEF vars, orgVars
  <1>8. ASSUME ReadHosts(r) PROVE JobState'
    <2>1. PICK M, verified \in SUBSET ModuleStreams :
            /\ verified \subseteq M
            /\ Validate(M, osDated)
            /\ found' = [found EXCEPT ![r] = @ \cup verified]
      BY <1>8 DEF ReadHosts
    <2>2. /\ step[r] = "streaming"
          /\ UNCHANGED <<day, osDated, cache, step, since, counted, hostPackages>>
      BY <1>8 DEF ReadHosts
    <2>3. \A s \in Streams :
             /\ status'[s] = status[s] \/ status'[s] = CatalogueStatus(s, day)
             /\ s \in M => status'[s] = CatalogueStatus(s, day)
      BY <1>0, <2>1, ValidateStatus
    <2>4. \A s \in found[r] : s \in Streams /\ CurrentIn(since[r], day, status[s], s)
      BY <1>0, <2>2 DEF TypeOK, Reading
    <2>5. found'[r] = found[r] \cup verified /\ M \subseteq Streams
      BY <2>1, CatalogueAssumption DEF TypeOK
    <2>6. ASSUME NEW s \in found'[r] PROVE CurrentIn(since[r], day, status'[s], s)
      <3>1. CurrentIn(since[r], day, CatalogueStatus(s, day), s)
        BY <1>0, CurrentToday
      <3>2. CASE s \in found[r]
        BY <2>3, <2>4, <3>1, <3>2
      <3>3. CASE s \in verified
        BY <2>1, <2>3, <2>5, <3>1, <3>3
      <3> QED BY <2>5, <3>2, <3>3
    <2>7. JobPart(r)'
      <3>1. since[r] <= day /\ cache = {} /\ cache \subseteq hostPackages[r]
        BY <1>0, <2>2
      <3>2. step'[r] # "counted"
        BY <2>2
      <3> QED BY <2>2, <2>6, <3>1, <3>2
    <2> QED BY <1>0, <2>2, <2>7
  <1> QED
    BY <1>1, <1>2, <1>3, <1>4, <1>5, <1>6, <1>7, <1>8
    DEF Next, MayRun, RequestReadsHosts, RelevantRequest, CatalogueRequest, PartialCatalogueRequest

(* In the cron job every stream is counted under the status of a day on which
   the organization is processed, however many organizations came before. *)
THEOREM JobStatusCorrect == Spec => []JobStatusIsCurrent
  <1>1. JobInv => JobStatusIsCurrent
    BY DEF JobInv, JobState, JobPart, JobStatusIsCurrent, CountedStatusIsCurrent, CurrentIn
  <1> QED BY <1>1, TypeInit, TypeNext, JobInvInit, JobInvNext, PTL DEF Spec

(* In the cron job the cache is no larger than the largest organization. *)
THEOREM JobCacheCorrect == Spec => []CacheHoldsOneOrg
  <1>1. JobInv => CacheHoldsOneOrg
    BY DEF JobInv, JobState, JobPart, CacheHoldsOneOrg
  <1> QED BY <1>1, TypeInit, TypeNext, JobInvInit, JobInvNext, PTL DEF Spec

=============================================================================
