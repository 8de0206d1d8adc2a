------------------------ MODULE UpcomingChangesProofs ------------------------
(***************************************************************************)
(* Proofs about UpcomingChanges.                                           *)
(*                                                                         *)
(* The reverse index finds the systems that the rows list, so a report is  *)
(* a function of the inventory and of the days on which it was made        *)
(* (ReportInv).  What the client holds is described item by item: each row *)
(* is an item of the batches under a reading day, and each host of the     *)
(* batches is in a row of the items it matches (ClientInv).                *)
(***************************************************************************)
EXTENDS UpcomingChanges, FiniteSetTheorems, TLAPS

ItemType == [name : STRING, release : STRING, type : Types, major : Nat \ {NoMajor},
             packages : SUBSET STRING, deployed : Days \cup {NotDeployed},
             added : Nat \cup {Undated}]

ClientInv ==
    /\ fileDays = {} => asked = {}
    /\ \A k \in known : \E i \in Listed(asked, wantsAll), d \in fileDays : k = RowKey(i, d)
    /\ \A i \in Listed(asked, wantsAll) :
          fileDays # {} => \E d \in fileDays : RowKey(i, d) \in known
    /\ \A a \in affected : \E i \in Items, d \in fileDays :
          a.row = RowKey(i, d) /\ a.host \in Systems(asked, i)
    /\ \A i \in Items : \A h \in Systems(asked, i) : \E d \in fileDays :
          [row |-> RowKey(i, d), host |-> h] \in affected

ReportInv ==
    report # NoReport =>
        /\ report.day \in Days
        /\ report.counted = CountedItems(report.day)
        /\ report.payload = PayloadCounts(report.counted)
        /\ \E now \in {report.day, report.day + 1} \cap Days : report.month = Month[now] - 1

-----------------------------------------------------------------------------
(* The file.                                                               *)

LEMMA ItemsAreRecords == \A i \in Items : File[i] \in ItemType
<1>1. File \in Seq(ItemType)
  BY FileAssumption DEF ItemType
<1> QED
  BY <1>1 DEF Items

LEMMA ItemsAreFinite == IsFiniteSet(Items)
<1>1. Len(File) \in Nat /\ Items = 1..Len(File)
  BY FileAssumption DEF Items
<1> QED
  BY <1>1, FS_Interval

(* A row says which item it is of. *)
LEMMA RowKeysDiffer ==
    ASSUME NEW i \in Items, NEW j \in Items, NEW d, NEW e, RowKey(i, d) = RowKey(j, e)
    PROVE  i = j
<1>1. /\ RowKey(i, d).name = RowKey(j, e).name
      /\ RowKey(i, d).release = RowKey(j, e).release
      /\ RowKey(i, d).type = RowKey(j, e).type
      /\ RowKey(i, d).packages = RowKey(j, e).packages
      /\ RowKey(i, d).deployed = RowKey(j, e).deployed
  OBVIOUS
<1>2. /\ File[i].name = File[j].name
      /\ File[i].release = File[j].release
      /\ File[i].type = File[j].type
      /\ File[i].packages = File[j].packages
      /\ File[i].deployed = File[j].deployed
  BY <1>1 DEF RowKey
<1> QED
  BY <1>2, FileAssumption

-----------------------------------------------------------------------------
(* Matching.                                                               *)

LEMMA ListedWithoutAll ==
    ASSUME NEW H
    PROVE  Listed(H, FALSE) = {i \in Items : Systems(H, i) # {}}
  BY DEF Listed, Systems, Majors

LEMMA ListedWithAll ==
    ASSUME NEW H
    PROVE  Listed(H, TRUE) = Items
  BY DEF Listed

LEMMA SystemsOfUnion ==
    ASSUME NEW A, NEW B, NEW i
    PROVE  Systems(A \cup B, i) = Systems(A, i) \cup Systems(B, i)
  BY DEF Systems, Usable

LEMMA ListedOfUnion ==
    ASSUME NEW A, NEW B, NEW all \in BOOLEAN
    PROVE  Listed(A \cup B, all) = Listed(A, all) \cup Listed(B, all)
<1>1. CASE all = TRUE
  BY <1>1, ListedWithAll
<1>2. CASE all = FALSE
  <2>1. \A i : Systems(A \cup B, i) = Systems(A, i) \cup Systems(B, i)
    BY SystemsOfUnion
  <2>2. /\ Listed(A \cup B, FALSE) = {i \in Items : Systems(A \cup B, i) # {}}
        /\ Listed(A, FALSE) = {i \in Items : Systems(A, i) # {}}
        /\ Listed(B, FALSE) = {i \in Items : Systems(B, i) # {}}
    BY ListedWithoutAll
  <2> QED
    BY <1>2, <2>1, <2>2
<1> QED
  BY <1>1, <1>2

(* The reverse index matches the hosts whose package sets meet the item's. *)
LEMMA IndexMatches ==
    ASSUME NEW i \in Items, NEW h \in Usable(Hosts)
    PROVE  i \in MatchedItems(h) <=> h \in Systems(Hosts, i)
<1>1. ASSUME i \in MatchedItems(h) PROVE h \in Systems(Hosts, i)
  <2>1. PICK e \in ReverseIndex : /\ e.major = profile[h].major
                                  /\ e.package \in profile[h].packages
                                  /\ e.item = i
    BY <1>1 DEF MatchedItems
  <2>2. e.major = File[i].major /\ e.package \in File[i].packages
    BY <2>1 DEF ReverseIndex
  <2> QED
    BY <2>1, <2>2 DEF Systems
<1>2. ASSUME h \in Systems(Hosts, i) PROVE i \in MatchedItems(h)
  <2>1. PICK q \in File[i].packages : q \in profile[h].packages
    BY <1>2 DEF Systems
  <2> DEFINE e == [major |-> File[i].major, package |-> q, item |-> i]
  <2>2. e \in ReverseIndex
    BY <2>1 DEF ReverseIndex
  <2>3. e.major = profile[h].major
    BY <1>2 DEF Systems
  <2> QED
    BY <2>1, <2>2, <2>3 DEF MatchedItems
<1> QED
  BY <1>1, <1>2

LEMMA AffectedCountMatches ==
    ASSUME NEW i \in Items
    PROVE  AffectedCount(i) # 0 <=> Systems(Hosts, i) # {}
<1>1. {h \in Usable(Hosts) : i \in MatchedItems(h)} = Systems(Hosts, i)
  BY IndexMatches DEF Systems
<1>2. IsFiniteSet(Systems(Hosts, i))
  <2>1. Systems(Hosts, i) \subseteq Hosts
    BY DEF Systems, Usable
  <2> QED
    BY <2>1, CalendarAssumption, FS_Subset
<1>3. Cardinality(Systems(Hosts, i)) = 0 <=> Systems(Hosts, i) = {}
  BY <1>2, FS_EmptySet
<1> QED
  BY <1>1, <1>3 DEF AffectedCount

(* A page asked for by a name and release that only one item has is its own. *)
THEOREM PagesCorrect == Spec => []PagesMatchRows
<1>1. PagesMatchRows
  <2> SUFFICES ASSUME NEW i \in Items, UniqueName(i)
               PROVE  Pages(File[i].name, File[i].release) = Systems(Hosts, i)
    BY DEF PagesMatchRows
  <2>1. Items = 1..Len(File) /\ Len(File) \in Nat
    BY FileAssumption DEF Items
  <2>2. \A j \in 1..i-1 : j \in Items /\ j # i
    BY <2>1
  <2>3. \A j \in 1..i-1 : File[j].name # File[i].name \/ File[j].release # File[i].release
    BY <2>2 DEF UniqueName
  <2>4. Target(File[i].name, File[i].release) = {i}
    BY <2>3 DEF Target, UniqueName
  <2> QED
    BY <2>4 DEF Pages
<1> QED
  BY <1>1, PTL

-----------------------------------------------------------------------------
(* Reports.                                                                *)

LEMMA CountedAreItems == \A d : CountedItems(d) \subseteq Items
  BY DEF CountedItems

(* The payload adds up to the items, each of which has one type. *)
LEMMA PayloadSum ==
    ASSUME NEW I \in SUBSET Items
    PROVE  /\ PayloadCounts(I) \in Payloads
           /\ PayloadCounts(I)["addition"] + PayloadCounts(I)["change"]
                 + PayloadCounts(I)["deprecation"] = Cardinality(I)
<1> DEFINE A == OfType(I, "addition")
           C == OfType(I, "change")
           D == OfType(I, "deprecation")
           E == OfType(I, "enhancement")
<1>1. \A t : IsFiniteSet(OfType(I, t)) /\ Cardinality(OfType(I, t)) \in Nat
  <2>1. \A t : OfType(I, t) \subseteq Items
    BY DEF OfType
  <2> QED
    BY <2>1, ItemsAreFinite, FS_Subset, FS_CardinalityType
<1>2. PayloadCounts(I) = [t \in Types \ {"enhancement"} |->
        IF t = "addition" THEN Cardinality(A) + Cardinality(E) ELSE Cardinality(OfType(I, t))]
  BY DEF PayloadCounts
<1>3. Cardinality(A) \in Nat /\ Cardinality(C) \in Nat /\ Cardinality(D) \in Nat
      /\ Cardinality(E) \in Nat
  BY <1>1
<1>4. PayloadCounts(I) \in Payloads
  BY <1>1, <1>2, <1>3 DEF Payloads
<1>5. /\ PayloadCounts(I)["addition"] = Cardinality(A) + Cardinality(E)
      /\ PayloadCounts(I)["change"] = Cardinality(C)
      /\ PayloadCounts(I)["deprecation"] = Cardinality(D)
  BY <1>2 DEF Types
<1>6. I = ((A \cup E) \cup C) \cup D
  BY ItemsAreRecords DEF OfType, ItemType, Types
<1>7. A \cap E = {} /\ (A \cup E) \cap C = {} /\ ((A \cup E) \cup C) \cap D = {}
  BY DEF OfType
<1>8. IsFiniteSet(A) /\ IsFiniteSet(E) /\ IsFiniteSet(C) /\ IsFiniteSet(D)
  BY <1>1
<1> HIDE DEF A, C, D, E
<1>9. Cardinality({}) = 0
  BY FS_EmptySet
<1>10. /\ IsFiniteSet(A \cup E)
       /\ Cardinality(A \cup E) = Cardinality(A) + Cardinality(E) - Cardinality(A \cap E)
  BY <1>8, FS_Union
<1>11. /\ IsFiniteSet((A \cup E) \cup C)
       /\ Cardinality((A \cup E) \cup C)
             = Cardinality(A \cup E) + Cardinality(C) - Cardinality((A \cup E) \cap C)
  BY <1>8, <1>10, FS_Union
<1>12. Cardinality(((A \cup E) \cup C) \cup D)
           = Cardinality((A \cup E) \cup C) + Cardinality(D)
                - Cardinality(((A \cup E) \cup C) \cap D)
  BY <1>8, <1>11, FS_Union
<1>13. /\ Cardinality(A \cap E) = 0
       /\ Cardinality((A \cup E) \cap C) = 0
       /\ Cardinality(((A \cup E) \cup C) \cap D) = 0
  BY <1>7, <1>9
<1>14. Cardinality(I) = Cardinality(((A \cup E) \cup C) \cup D)
  BY <1>6
<1>15. Cardinality(I) = ((Cardinality(A) + Cardinality(E)) + Cardinality(C)) + Cardinality(D)
  BY <1>3, <1>10, <1>11, <1>12, <1>13, <1>14
<1> QED
  BY <1>3, <1>4, <1>5, <1>15

(* Sets and types of the state. *)
LEMMA TypeStep ==
    ASSUME TypeOK, [Next]_vars
    PROVE  TypeOK'
<1>1. ASSUME NEW r \in Replicas, NEW B \in SUBSET Hosts, PostBatch(r, B) PROVE TypeOK'
  <2> DEFINE readOn == IF loaded[r] = NotRead THEN day ELSE loaded[r]
  <2>1. readOn \in Days
    BY DEF TypeOK
  <2>2. loaded' \in [Replicas -> Days \cup {NotRead}] /\ fileDays' \subseteq Days
        /\ asked' \subseteq Hosts /\ profile' = profile /\ day' = day
        /\ wantsAll' = wantsAll /\ report' = report
    BY <1>1, <2>1 DEF TypeOK, PostBatch
  <2>3. \A i : Systems(B, i) \subseteq B
    BY DEF Systems, Usable
  <2>4. \A a \in affected' : a.row \in known' /\ a.host \in asked'
    BY <1>1, <2>3 DEF TypeOK, PostBatch
  <2> QED
    BY <2>2, <2>4 DEF TypeOK
<1>2. ASSUME NEW r \in Replicas, Restart(r) PROVE TypeOK'
  BY <1>2 DEF TypeOK, Restart, clientVars
<1>3. ASSUME NEW now \in Days, Notify(now) PROVE TypeOK'
  <2>1. CountedItems(day) \in SUBSET Items
    BY CountedAreItems
  <2>2. PayloadCounts(CountedItems(day)) \in Payloads
    BY <2>1, PayloadSum
  <2> QED
    BY <1>3, <2>1, <2>2 DEF TypeOK, Notify, clientVars
<1>4. CASE Midnight
  BY <1>4, CalendarAssumption DEF TypeOK, Midnight, clientVars, Days
<1>5. CASE UNCHANGED vars
  BY <1>5 DEF TypeOK, vars, clientVars
<1> QED
  BY <1>1, <1>2, <1>3, <1>4, <1>5 DEF Next

THEOREM TypeCorrect == Spec => []TypeOK
<1>1. Init => TypeOK
  BY CalendarAssumption DEF Init, TypeOK, Days
<1> QED
  BY <1>1, TypeStep, PTL DEF Spec

LEMMA ReportStep ==
    ASSUME TypeOK, ReportInv, [Next]_vars
    PROVE  ReportInv'
<1>1. profile' = profile
  BY DEF Next, PostBatch, Restart, Notify, Midnight, vars
<1>2. CASE report' = report
  <2> SUFFICES ASSUME report # NoReport PROVE ReportInv'
    BY <1>2 DEF ReportInv
  <2>1. CountedItems(report.day)' = CountedItems(report.day)
    BY <1>1, <1>2 DEF ReportInv, CountedItems, AffectedCount, Usable,
                                        MatchedItems, Majors
  <2> QED
    BY <1>2, <2>1 DEF ReportInv
<1>3. ASSUME NEW now \in Days, Notify(now) PROVE ReportInv'
  <2>1. day \in Days
    BY DEF TypeOK
  <2>2. /\ report'.day = day
        /\ report'.counted = CountedItems(day)
        /\ report'.payload = PayloadCounts(CountedItems(day))
        /\ report'.month = Month[now] - 1
    BY <1>3 DEF Notify
  <2>3. CountedItems(report.day)' = CountedItems(day)
    BY <1>1, <2>2 DEF CountedItems, AffectedCount, Usable, MatchedItems, Majors
  <2>4. now \in {day, day + 1} \cap Days
    BY <1>3 DEF Notify
  <2> QED
    BY <2>1, <2>2, <2>3, <2>4 DEF ReportInv
<1> QED
  BY <1>2, <1>3 DEF Next, PostBatch, Restart, Midnight, vars

LEMMA ReportInvariant == Spec => [](TypeOK /\ ReportInv)
<1>1. Init => ReportInv
  BY DEF Init, ReportInv
<1> QED
  BY <1>1, ReportStep, TypeCorrect, PTL DEF Spec

(* No month that a report names has items it leaves out. *)
THEOREM NamedMonthCorrect == Spec => []NamedMonthIsCovered
<1>1. ASSUME ReportInv PROVE NamedMonthIsCovered
  <2> SUFFICES ASSUME report # NoReport, NEW i \in Items, Systems(Hosts, i) # {},
                      File[i].deployed # NotDeployed,
                      Month[File[i].deployed] = report.month
               PROVE  i \in report.counted
    BY DEF NamedMonthIsCovered
  <2> DEFINE dep == File[i].deployed
             d   == report.day
  <2>1. /\ d \in Days
        /\ report.counted = CountedItems(d)
        /\ \E now \in {d, d + 1} \cap Days : report.month = Month[now] - 1
    BY <1>1 DEF ReportInv
  <2>2. PICK now \in Days : now \in {d, d + 1} /\ Month[dep] = Month[now] - 1
    BY <2>1
  <2>3. dep \in Days
    BY ItemsAreRecords DEF ItemType
  <2> HIDE DEF dep, d
  <2>4. Month[dep] \in Nat /\ Month[now] \in Nat /\ Month[d] \in Nat
    BY <2>1, <2>2, <2>3, CalendarAssumption
  <2>5. d \in Int /\ dep \in Int /\ now \in Int
    BY <2>1, <2>2, <2>3, CalendarAssumption DEF Days
  <2>6. Month[d] <= Month[now]
    BY <2>1, <2>2, <2>5, CalendarAssumption
  <2>7. dep < now
    <3>1. now <= dep => Month[now] <= Month[dep]
      BY <2>2, <2>3, CalendarAssumption
    <3> QED
      BY <2>2, <2>4, <2>5, <3>1
  <2>8. dep <= d
    BY <2>2, <2>5, <2>7
  <2>9. SinceCutoffDate(dep, d)
    BY <2>2, <2>4, <2>6 DEF SinceCutoffDate
  <2>10. DeployedOn(i, d) = dep
    BY DEF DeployedOn, dep
  <2>11. AffectedCount(i) # 0 /\ File[i].major \in Majors(Hosts)
    BY AffectedCountMatches DEF Systems, Majors
  <2> QED
    BY <2>1, <2>8, <2>9, <2>10, <2>11 DEF CountedItems
<1> QED
  BY <1>1, ReportInvariant, PTL

(* The report counts rows of its window, and its payload adds up to them. *)
THEOREM ReportCountsCorrect == Spec => []ReportCountsRows
<1>1. ASSUME ReportInv PROVE ReportCountsRows
  <2> SUFFICES ASSUME report # NoReport
               PROVE  /\ report.counted \subseteq Listed(Hosts, FALSE)
                      /\ report.month = Month[report.day] - 1 =>
                            \A i \in report.counted :
                               File[i].deployed # NotDeployed
                                  => Month[File[i].deployed] >= report.month
                      /\ report.payload["addition"] + report.payload["change"]
                            + report.payload["deprecation"] = Cardinality(report.counted)
    BY DEF ReportCountsRows
  <2>1. report.counted = CountedItems(report.day) /\ report.payload = PayloadCounts(report.counted)
    BY <1>1 DEF ReportInv
  <2>2. report.counted \subseteq Listed(Hosts, FALSE)
    BY <2>1, AffectedCountMatches, ListedWithoutAll DEF CountedItems
  <2>3. \A i \in report.counted :
           File[i].deployed # NotDeployed => Month[File[i].deployed] >= Month[report.day] - 1
    BY <2>1 DEF CountedItems, SinceCutoffDate, DeployedOn
  <2>4. report.counted \in SUBSET Items
    BY <2>1, CountedAreItems
  <2>5. PayloadCounts(report.counted)["addition"] + PayloadCounts(report.counted)["change"]
           + PayloadCounts(report.counted)["deprecation"] = Cardinality(report.counted)
    BY <2>4, PayloadSum
  <2> QED
    BY <2>1, <2>2, <2>3, <2>5
<1> QED
  BY <1>1, ReportInvariant, PTL

-----------------------------------------------------------------------------
(* The client.                                                             *)

LEMMA ClientStep ==
    ASSUME TypeOK, ClientInv, [Next]_vars
    PROVE  ClientInv'
<1>1. \A H, i : Systems(H, i)' = Systems(H, i)
  BY DEF Next, PostBatch, Restart, Notify, Midnight, vars, Systems, Usable
<1>2. CASE UNCHANGED <<profile, clientVars>>
  <2>1. Listed(asked, wantsAll)' = Listed(asked, wantsAll)
    BY <1>2 DEF Listed, Majors, Systems, Usable, clientVars
  <2>2. \A i : Systems(asked, i)' = Systems(asked, i)
    BY <1>2 DEF Systems, Usable, clientVars
  <2> QED
    BY <1>2, <2>1, <2>2 DEF ClientInv, clientVars
<1>3. ASSUME NEW r \in Replicas, NEW B \in SUBSET Hosts, PostBatch(r, B) PROVE ClientInv'
  <2> DEFINE readOn == IF loaded[r] = NotRead THEN day ELSE loaded[r]
  <2>1. /\ profile' = profile
        /\ wantsAll' = wantsAll
        /\ asked' = asked \cup B
        /\ fileDays' = fileDays \cup {readOn}
        /\ known' = known \cup {RowKey(i, readOn) : i \in Listed(B, wantsAll)}
        /\ affected' = affected \cup
              UNION {{[row |-> RowKey(i, readOn), host |-> h] : h \in Systems(B, i)} :
                        i \in Listed(B, wantsAll)}
    BY <1>3 DEF PostBatch
  <2> HIDE DEF readOn
  <2>2. Listed(asked, wantsAll)' = Listed(asked, wantsAll) \cup Listed(B, wantsAll)
    <3>1. Listed(asked, wantsAll)' = Listed(asked \cup B, wantsAll)
      BY <2>1 DEF Listed, Majors, Systems, Usable
    <3> QED
      BY <3>1, ListedOfUnion DEF TypeOK
  <2>3. \A i : Systems(asked, i)' = Systems(asked, i) \cup Systems(B, i)
    BY <2>1 DEF Systems, Usable
  <2>4. ASSUME NEW k \in known'
        PROVE  \E i \in Listed(asked, wantsAll)', d \in fileDays' : k = RowKey(i, d)
    <3>1. CASE k \in known
      BY <2>1, <2>2, <3>1 DEF ClientInv
    <3>2. CASE k \in {RowKey(i, readOn) : i \in Listed(B, wantsAll)}
      BY <2>1, <2>2, <3>2
    <3> QED
      BY <2>1, <3>1, <3>2
  <2>5. ASSUME NEW i \in Listed(asked, wantsAll)'
        PROVE  \E d \in fileDays' : RowKey(i, d) \in known'
    <3>1. CASE i \in Listed(B, wantsAll)
      BY <2>1, <3>1
    <3>2. CASE i \in Listed(asked, wantsAll) /\ fileDays # {}
      BY <2>1, <3>2 DEF ClientInv
    <3>3. CASE i \in Listed(asked, wantsAll) /\ fileDays = {}
      <4>1. asked = {}
        BY <3>3 DEF ClientInv
      <4>2. asked \cup B = B
        BY <4>1
      <4>3. i \in Listed(B, wantsAll)
        BY <3>3, <4>2, ListedOfUnion DEF TypeOK
      <4> QED
        BY <3>1, <4>3
    <3> QED
      BY <2>2, <3>1, <3>2, <3>3
  <2>6. ASSUME NEW a \in affected'
        PROVE  \E i \in Items, d \in fileDays' :
                   a.row = RowKey(i, d) /\ a.host \in Systems(asked, i)'
    <3>1. CASE a \in affected
      BY <2>1, <2>3, <3>1 DEF ClientInv
    <3>2. CASE a \notin affected
      <4>1. PICK i \in Listed(B, wantsAll) :
               \E h \in Systems(B, i) : a = [row |-> RowKey(i, readOn), host |-> h]
        BY <2>1, <3>2
      <4>2. i \in Items /\ a.row = RowKey(i, readOn) /\ a.host \in Systems(asked, i)'
        BY <2>3, <4>1 DEF Listed
      <4> QED
        BY <2>1, <4>2
    <3> QED
      BY <3>1, <3>2
  <2>7. ASSUME NEW i \in Items, NEW h \in Systems(asked, i)'
        PROVE  \E d \in fileDays' : [row |-> RowKey(i, d), host |-> h] \in affected'
    <3>1. CASE h \in Systems(asked, i)
      BY <2>1, <3>1 DEF ClientInv
    <3>2. CASE h \in Systems(B, i)
      <4>1. i \in Listed(B, wantsAll)
        BY <3>2, ListedWithoutAll, ListedWithAll DEF TypeOK
      <4>2. [row |-> RowKey(i, readOn), host |-> h] \in affected'
        BY <2>1, <3>2, <4>1
      <4> QED
        BY <2>1, <4>2
    <3> QED
      BY <2>3, <3>1, <3>2
  <2>8. fileDays' # {}
    BY <2>1
  <2> QED
    BY <2>4, <2>5, <2>6, <2>7, <2>8 DEF ClientInv
<1> QED
  BY <1>2, <1>3 DEF Next, Restart, Notify, Midnight, vars, clientVars

LEMMA ClientInvariant == Spec => [](TypeOK /\ ClientInv)
<1>1. Init => ClientInv
  BY DEF Init, ClientInv, Systems, Usable
<1> QED
  BY <1>1, ClientStep, TypeCorrect, PTL DEF Spec

(* Merged batches say what one request for all hosts says. *)
THEOREM BatchesCorrect == Spec => []BatchesMatchWhole
<1>1. ASSUME ClientInv PROVE BatchesMatchWhole
  <2> SUFFICES ASSUME asked = Hosts, DatesAgree, NEW i \in Items
               PROVE  /\ RowsOf(i) # {} => i \in Listed(Hosts, wantsAll)
                      /\ i \in Listed(Hosts, wantsAll) /\ fileDays # {}
                            => Cardinality(RowsOf(i)) = 1
                      /\ \A k \in RowsOf(i) :
                            {a.host : a \in {x \in affected : x.row = k}} = Systems(Hosts, i)
    BY DEF BatchesMatchWhole
  <2>1. \A d, e \in fileDays : RowKey(i, d) = RowKey(i, e)
    BY DEF DatesAgree, RowKey
  <2>2. ASSUME NEW k \in RowsOf(i) PROVE i \in Listed(Hosts, wantsAll)
    <3>1. PICK d \in fileDays : k = RowKey(i, d) /\ k \in known
      BY <2>2 DEF RowsOf
    <3>2. PICK j \in Listed(Hosts, wantsAll), e \in fileDays : k = RowKey(j, e)
      BY <1>1, <3>1 DEF ClientInv
    <3>3. j \in Items
      BY <3>2 DEF Listed
    <3> QED
      BY <3>1, <3>2, <3>3, RowKeysDiffer
  <2>3. ASSUME i \in Listed(Hosts, wantsAll), fileDays # {}
        PROVE  Cardinality(RowsOf(i)) = 1
    <3>1. PICK d \in fileDays : RowKey(i, d) \in known
      BY <1>1, <2>3 DEF ClientInv
    <3>2. RowsOf(i) = {RowKey(i, d)}
      BY <2>1, <3>1 DEF RowsOf
    <3> QED
      BY <3>2, FS_Singleton
  <2>4. ASSUME NEW k \in RowsOf(i)
        PROVE  {a.host : a \in {x \in affected : x.row = k}} = Systems(Hosts, i)
    <3>1. PICK d \in fileDays : k = RowKey(i, d)
      BY <2>4 DEF RowsOf
    <3>2. ASSUME NEW a \in affected, a.row = k PROVE a.host \in Systems(Hosts, i)
      <4>1. PICK j \in Items, e \in fileDays :
               a.row = RowKey(j, e) /\ a.host \in Systems(Hosts, j)
        BY <1>1, <3>2 DEF ClientInv
      <4>2. j = i
        BY <3>1, <3>2, <4>1, RowKeysDiffer
      <4> QED
        BY <4>1, <4>2
    <3>3. ASSUME NEW h \in Systems(Hosts, i)
          PROVE  \E a \in affected : a.row = k /\ a.host = h
      <4>1. PICK e \in fileDays : [row |-> RowKey(i, e), host |-> h] \in affected
        BY <1>1, <3>3 DEF ClientInv
      <4>2. RowKey(i, e) = k
        BY <2>1, <3>1, <4>1
      <4> QED
        BY <4>1, <4>2
    <3> QED
      BY <3>2, <3>3
  <2> QED
    BY <2>2, <2>3, <2>4
<1> QED
  BY <1>1, ClientInvariant, PTL

-----------------------------------------------------------------------------
(* Dates apart.                                                            *)

Gives == [h \in Hosts |-> {i \in Items : h \in Systems(Hosts, i)}]
ListedPairs ==
    {x \in Items \X Hosts :
        \E d \in fileDays : [row |-> RowKey(x[1], d), host |-> x[2]] \in affected}

PromiseInv ==
    asked \subseteq Hosts /\ ListedPairs = UNION {{<<i, h>> : i \in Gives[h]} : h \in asked}

LEMMA PairsArePromised ==
    ASSUME TypeOK, ClientInv
    PROVE  PromiseInv
<1>1. asked \subseteq Hosts
  BY DEF TypeOK
<1>2. \A i : Systems(asked, i) = asked \cap Systems(Hosts, i)
  BY <1>1 DEF Systems, Usable
<1>3. \A h \in asked : Gives[h] = {i \in Items : h \in Systems(Hosts, i)}
  BY <1>1 DEF Gives
<1>4. ASSUME NEW x \in ListedPairs
      PROVE  x[2] \in asked /\ x[1] \in Gives[x[2]] /\ x = <<x[1], x[2]>>
  <2>1. x[1] \in Items /\ x[2] \in Hosts /\ x = <<x[1], x[2]>>
    BY DEF ListedPairs
  <2>2. PICK d \in fileDays : [row |-> RowKey(x[1], d), host |-> x[2]] \in affected
    BY DEF ListedPairs
  <2>3. PICK j \in Items, e \in fileDays :
           RowKey(x[1], d) = RowKey(j, e) /\ x[2] \in Systems(asked, j)
    BY <2>2 DEF ClientInv
  <2>4. j = x[1]
    BY <2>1, <2>3, RowKeysDiffer
  <2> QED
    BY <1>2, <1>3, <2>1, <2>3, <2>4
<1>5. ASSUME NEW h \in asked, NEW i \in Gives[h]
      PROVE  <<i, h>> \in ListedPairs
  <2>1. i \in Items /\ h \in Systems(asked, i) /\ h \in Hosts
    BY <1>1, <1>2, <1>3
  <2>2. PICK d \in fileDays : [row |-> RowKey(i, d), host |-> h] \in affected
    BY <2>1 DEF ClientInv
  <2> QED
    BY <2>1, <2>2 DEF ListedPairs
<1>6. ASSUME NEW x \in ListedPairs PROVE x \in UNION {{<<i, h>> : i \in Gives[h]} : h \in asked}
  BY <1>4
<1> QED
  BY <1>1, <1>5, <1>6 DEF PromiseInv

LEMMA PromiseInvariant == Spec => []PromiseInv
  BY ClientInvariant, PairsArePromised, PTL

LEMMA PromiseStep ==
    ASSUME PromiseInv, PromiseInv', [Next]_vars
    PROVE  [Promise!Next]_(Promise!clientVars)
<1>1. profile' = profile
  BY DEF Next, PostBatch, Restart, Notify, Midnight, vars
<1>2. Gives' = Gives
  BY <1>1 DEF Gives, Systems, Usable
<1>3. ASSUME NEW r \in Replicas, NEW B \in SUBSET Hosts, PostBatch(r, B) PROVE Promise!Next
  <2>1. asked' = asked \cup B
    BY <1>3 DEF PostBatch
  <2>2. ListedPairs' = UNION {{<<i, h>> : i \in Gives[h]} : h \in asked'}
    BY <1>2 DEF PromiseInv
  <2>3. Promise!Merge(B)
    BY <1>2, <2>1, <2>2 DEF Promise!Merge, Promise!RowsOf, Gives, ListedPairs
  <2> QED
    BY <2>3 DEF Promise!Next, Promise!Merge
<1>4. CASE UNCHANGED clientVars
  BY <1>2, <1>4 DEF Promise!clientVars, clientVars, Gives, ListedPairs
<1> QED
  BY <1>3, <1>4 DEF Next, Restart, Notify, Midnight, vars

(* The merged rows are those that BatchedRows promises once dates are left out
   of their keys, on whatever days replicas read the file, restarts included. *)
THEOREM PromiseKept == Spec => BatchesKeepThePromise
<1>1. Init => Promise!Init
  BY DEF Init, Promise!Init
<1>2. PromiseInv /\ PromiseInv' /\ [Next]_vars => [Promise!Next]_(Promise!clientVars)
  BY PromiseStep
<1> QED
  BY <1>1, <1>2, PromiseInvariant, PTL DEF Spec, BatchesKeepThePromise, Promise!Spec

(* So batches that cover the hosts tell every item that affects one. *)
THEOREM ItemsMatchWhole == Spec => []Promise!WholeIsListed
  BY PromiseKept, Promise!PromiseGivesWhole, PTL DEF BatchesKeepThePromise
=============================================================================
