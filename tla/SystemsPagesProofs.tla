-------------------------- MODULE SystemsPagesProofs --------------------------
(***************************************************************************)
(* Proofs about SystemsPages.                                              *)
(*                                                                         *)
(* The ranks of a list of n hosts are 0..n-1, each taken once (CountBelow),*)
(* so a page is full unless it is the last (PageSize).  The rank of a host *)
(* that stays never falls while none leaves, and never rises while none    *)
(* comes (RanksGrow, RanksFall); the walk follows from these two.          *)
(***************************************************************************)
EXTENDS SystemsPages, FiniteSetTheorems, WellFoundedInduction, TLAPS

(* The hosts of which the first k of the list consist. *)
Below(k) == {h \in Listed : Rank(h) < k}

Ahead(h) == {g \in Listed : Before(g, h)}

(* Hosts have names that can be compared. *)
OrderOK == matching \subseteq Hosts /\ name \in [Hosts -> Names]

-----------------------------------------------------------------------------
(* The list.                                                               *)

LEMMA MinOfNaturals ==
    ASSUME NEW S \in SUBSET Nat, S # {}
    PROVE  \E n \in S : \A m \in S : n <= m
<1>1. \E n \in S : \A m \in S : <<m, n>> \notin OpToRel(<, Nat)
  BY NatLessThanWellFounded, WFMin
<1>2. \A m, n \in S : m < n => <<m, n>> \in OpToRel(<, Nat)
  BY DEF OpToRel
<1>3. PICK n \in S : \A m \in S : <<m, n>> \notin OpToRel(<, Nat)
  BY <1>1
<1>4. \A m \in S : ~(m < n) /\ m \in Nat /\ n \in Nat
  BY <1>2, <1>3
<1>5. \A m \in S : n <= m
  BY <1>4
<1> QED
  BY <1>5

LEMMA ListIsFinite ==
    ASSUME OrderOK
    PROVE  /\ Listed \subseteq Hosts /\ IsFiniteSet(Listed)
           /\ Total \in 0..Cardinality(Hosts)
<1>1. Listed \subseteq Hosts
  BY DEF OrderOK, Listed
<1>2. /\ IsFiniteSet(Listed) /\ Cardinality(Listed) <= Cardinality(Hosts)
      /\ Cardinality(Hosts) \in Nat
  BY <1>1, PagesAssumption, FS_Subset, FS_CardinalityType
<1>3. Cardinality(Listed) \in Nat
  BY <1>2, FS_CardinalityType
<1> QED
  BY <1>1, <1>2, <1>3 DEF Total

LEMMA BeforeIsTotal ==
    ASSUME OrderOK, NEW g \in Hosts, NEW h \in Hosts
    PROVE  /\ ~Before(h, h)
           /\ Before(g, h) \/ Before(h, g) \/ g = h
           /\ \A f \in Hosts : Before(f, g) /\ Before(g, h) => Before(f, h)
<1>1. \A f \in Hosts : name[f] \in Nat /\ f \in Nat
  BY PagesAssumption DEF OrderOK
<1> QED
  BY <1>1 DEF Before

LEMMA RankType ==
    ASSUME OrderOK, NEW h
    PROVE  /\ IsFiniteSet(Ahead(h)) /\ Rank(h) = Cardinality(Ahead(h))
           /\ Rank(h) \in Nat
           /\ h \in Listed => Rank(h) < Total
<1>1. Ahead(h) \subseteq Listed
  BY DEF Ahead
<1>2. IsFiniteSet(Ahead(h)) /\ Cardinality(Ahead(h)) <= Total
      /\ (Cardinality(Ahead(h)) = Total => Ahead(h) = Listed)
  BY <1>1, ListIsFinite, FS_Subset DEF Total
<1>3. Rank(h) = Cardinality(Ahead(h))
  BY DEF Rank, Ahead
<1>4. Rank(h) \in Nat
  BY <1>2, <1>3, FS_CardinalityType
<1>5. h \in Listed => h \notin Ahead(h)
  BY ListIsFinite, BeforeIsTotal DEF Ahead
<1>6. Total \in Nat
  BY ListIsFinite, PagesAssumption, FS_CardinalityType
<1> QED
  BY <1>2, <1>3, <1>4, <1>5, <1>6

LEMMA RankIsStrict ==
    ASSUME OrderOK, NEW g \in Listed, NEW h \in Listed, Before(g, h)
    PROVE  Rank(g) < Rank(h)
<1>1. g \in Hosts /\ h \in Hosts /\ Listed \subseteq Hosts
  BY ListIsFinite
<1>2. Ahead(g) \subseteq Ahead(h)
  BY <1>1, BeforeIsTotal DEF Ahead
<1>3. g \in Ahead(h) /\ g \notin Ahead(g)
  BY <1>1, BeforeIsTotal DEF Ahead
<1>4. IsFiniteSet(Ahead(h)) /\ Rank(g) = Cardinality(Ahead(g)) /\ Rank(h) = Cardinality(Ahead(h))
      /\ Rank(g) \in Nat /\ Rank(h) \in Nat
  BY RankType
<1>5. Cardinality(Ahead(g)) <= Cardinality(Ahead(h))
      /\ (Cardinality(Ahead(h)) = Cardinality(Ahead(g)) => Ahead(h) = Ahead(g))
  BY <1>2, <1>4, FS_Subset
<1> QED
  BY <1>3, <1>4, <1>5

(* The first k of the list are k hosts, or all. *)
LEMMA CountBelow ==
    ASSUME OrderOK, NEW k \in Nat
    PROVE  /\ IsFiniteSet(Below(k))
           /\ Cardinality(Below(k)) = IF Total <= k THEN Total ELSE k
<1>1. Below(k) \subseteq Listed /\ Listed \subseteq Hosts /\ IsFiniteSet(Listed)
  BY ListIsFinite DEF Below
<1>2. IsFiniteSet(Below(k)) /\ Cardinality(Below(k)) \in Nat /\ Cardinality(Below(k)) <= Total
  BY <1>1, FS_Subset, FS_CardinalityType DEF Total
<1>3. Total \in Nat
  BY <1>1, FS_CardinalityType DEF Total
<1>4. Cardinality(Below(k)) <= k
  <2> SUFFICES ASSUME k < Cardinality(Below(k)) PROVE FALSE
    BY <1>2
  <2> DEFINE f == [h \in Below(k) |-> Rank(h)]
  <2>1. f \in [Below(k) -> 0..(k-1)]
    BY RankType DEF Below
  <2>2. IsFiniteSet(0..(k-1)) /\ Cardinality(0..(k-1)) = k
    <3>1. IsFiniteSet(0..(k-1))
          /\ Cardinality(0..(k-1)) = IF 0 > k - 1 THEN 0 ELSE (k - 1) - 0 + 1
      BY FS_Interval
    <3> QED
      BY <3>1
  <2>3. PICK g, h \in Below(k) : g # h /\ f[g] = f[h]
    <3> HIDE DEF f
    <3> QED
      BY <1>2, <2>1, <2>2, FS_PigeonHole
  <2>4. Rank(g) = Rank(h) /\ g \in Listed /\ h \in Listed
    BY <1>1, <2>3
  <2>5. Before(g, h) \/ Before(h, g)
    BY <1>1, <2>3, <2>4, BeforeIsTotal
  <2>6. Rank(g) \in Nat /\ Rank(h) \in Nat
    BY RankType
  <2> QED
    BY <2>4, <2>5, <2>6, RankIsStrict
<1>5. CASE Below(k) = Listed
  BY <1>2, <1>3, <1>4, <1>5 DEF Total
<1>6. CASE Below(k) # Listed
  <2> DEFINE R == {Rank(h) : h \in Listed \ Below(k)}
  <2>1. R \in SUBSET Nat /\ R # {}
    BY <1>1, <1>6, RankType
  <2>2. PICK m \in Listed \ Below(k) : \A g \in Listed \ Below(k) : Rank(m) <= Rank(g)
    <3>1. \E n \in R : \A i \in R : n <= i
      <4> HIDE DEF R
      <4> QED
        BY <2>1, MinOfNaturals
    <3> QED
      BY <3>1
  <2>3. Rank(m) \in Nat /\ k <= Rank(m) /\ Rank(m) < Total
        /\ Rank(m) = Cardinality(Ahead(m))
    BY <2>2, RankType DEF Below
  <2>4. ASSUME NEW g \in Ahead(m) PROVE g \in Below(k)
    <3>1. g \in Listed /\ Rank(g) < Rank(m) /\ Rank(g) \in Nat
      BY <2>2, <2>4, RankIsStrict, RankType DEF Ahead
    <3> QED
      BY <2>2, <2>3, <3>1
  <2>5. Rank(m) <= Cardinality(Below(k))
    BY <1>2, <2>3, <2>4, FS_Subset
  <2> QED
    BY <1>2, <1>3, <1>4, <2>3, <2>5
<1> QED
  BY <1>2, <1>5, <1>6

(* A page takes what the total leaves after its offset, up to the limit. *)
LEMMA PageSize ==
    ASSUME OrderOK, limit \in Nat \ {0}, NEW o \in Nat
    PROVE  /\ IsFiniteSet(Page(o)) /\ Page(o) \subseteq Listed
           /\ Cardinality(Page(o)) = IF Total <= o THEN 0
                                     ELSE IF Total - o < limit THEN Total - o ELSE limit
<1>1. o + limit \in Nat /\ o < o + limit
  OBVIOUS
<1>2. \A h \in Listed : Rank(h) \in Nat
  BY RankType
<1>3. Page(o) = Below(o + limit) \ Below(o) /\ Below(o) \subseteq Below(o + limit)
  BY <1>1, <1>2 DEF Page, Below
<1>4. Below(o + limit) \cap Below(o) = Below(o)
  BY <1>3
<1>5. IsFiniteSet(Below(o + limit))
      /\ Cardinality(Below(o + limit)) = IF Total <= o + limit THEN Total ELSE o + limit
  BY <1>1, CountBelow
<1>6. Cardinality(Below(o)) = IF Total <= o THEN Total ELSE o
  BY CountBelow
<1>7. IsFiniteSet(Page(o))
      /\ Cardinality(Page(o)) = Cardinality(Below(o + limit)) - Cardinality(Below(o))
  BY <1>3, <1>4, <1>5, FS_Difference
<1>8. Total \in Nat
  BY ListIsFinite, PagesAssumption, FS_CardinalityType
<1>9. Page(o) \subseteq Listed
  BY DEF Page
<1> QED
  BY <1>5, <1>6, <1>7, <1>8, <1>9

-----------------------------------------------------------------------------
(* Steps.                                                                  *)

Changed(h) == Leave(h) \/ \E n \in Names : Arrive(h, n) \/ Rename(h, n)

LEMMA TypeGivesOrder ==
    ASSUME TypeOK
    PROVE  OrderOK /\ limit \in Nat \ {0} /\ Total \in Nat /\ Total \in 0..Cardinality(Hosts)
           /\ Cardinality(Hosts) \in Nat
<1>1. OrderOK /\ limit \in Nat \ {0}
  BY PagesAssumption DEF TypeOK, OrderOK
<1>2. Total \in 0..Cardinality(Hosts) /\ Cardinality(Hosts) \in Nat
  BY <1>1, ListIsFinite, PagesAssumption, FS_CardinalityType
<1> QED
  BY <1>1, <1>2

(* A change to the inventory moves one host. *)
LEMMA OneHostMoves ==
    ASSUME TypeOK, NEW h \in Hosts, Changed(h)
    PROVE  /\ matching' \subseteq Hosts /\ name' \in [Hosts -> Names]
           /\ Listed' \subseteq Hosts
           /\ \A g \in Hosts \ {h} : (g \in Listed' <=> g \in Listed) /\ name'[g] = name[g]
           /\ Disturb(h)
<1>1. Disturb(h)
  BY DEF Changed, Leave, Arrive, Rename
<1>2. matching' \subseteq Hosts /\ name' \in [Hosts -> Names] /\ search' = search
  BY <1>1 DEF Changed, Leave, Arrive, Rename, TypeOK, Disturb, settings
<1>3. \A g \in Hosts \ {h} : (g \in matching' <=> g \in matching) /\ name'[g] = name[g]
  BY DEF Changed, Leave, Arrive, Rename, TypeOK
<1> QED
  BY <1>1, <1>2, <1>3 DEF Listed

LEMMA RanksGrow ==
    ASSUME TypeOK, NEW h \in Hosts, Changed(h), h \notin Listed, NEW g \in Listed
    PROVE  g \in Listed' /\ Rank(g) <= Rank(g)'
<1> DEFINE A == {f \in Listed : Before(f, g)}
           B == {f \in Listed' : Before(f, g)'}
<1>1. Listed \subseteq Hosts /\ IsFiniteSet(Hosts)
  BY PagesAssumption DEF Listed, TypeOK
<1>2. \A f \in Listed : f \in Listed' /\ name'[f] = name[f]
  BY <1>1, OneHostMoves
<1>3. A \subseteq B
  BY <1>2 DEF Before
<1>4. IsFiniteSet(B)
  BY <1>1, OneHostMoves, FS_Subset
<1>5. Cardinality(A) <= Cardinality(B)
  BY <1>3, <1>4, FS_Subset
<1> QED
  BY <1>2, <1>5 DEF Rank

LEMMA RanksFall ==
    ASSUME TypeOK, NEW h \in Hosts, Changed(h), h \notin Listed', NEW g \in Listed'
    PROVE  g \in Listed /\ Rank(g)' <= Rank(g) /\ Rank(g)' \in Nat /\ Rank(g) \in Nat
<1> DEFINE A == {f \in Listed : Before(f, g)}
           B == {f \in Listed' : Before(f, g)'}
<1>1. Listed \subseteq Hosts /\ Listed' \subseteq Hosts /\ IsFiniteSet(Hosts)
  BY PagesAssumption, OneHostMoves DEF Listed, TypeOK
<1>2. \A f \in Listed' : f \in Listed /\ name'[f] = name[f]
  BY <1>1, OneHostMoves
<1>3. B \subseteq A
  BY <1>2 DEF Before
<1>4. IsFiniteSet(A) /\ IsFiniteSet(B)
  BY <1>1, FS_Subset
<1>5. Cardinality(B) <= Cardinality(A) /\ Cardinality(A) \in Nat /\ Cardinality(B) \in Nat
  BY <1>3, <1>4, FS_Subset, FS_CardinalityType
<1> QED
  BY <1>2, <1>5 DEF Rank

(* Where the inventory is untouched, so is the list. *)
LEMMA SameList ==
    ASSUME UNCHANGED <<settings, inventory>>
    PROVE  Listed' = Listed /\ Total' = Total /\ \A h : Rank(h)' = Rank(h)
  BY DEF settings, inventory, Listed, Total, Rank, Before

LEMMA ReceiveType ==
    ASSUME TypeOK, NEW total \in 0..Cardinality(Hosts), Receive(total)
    PROVE  /\ got' \subseteq Hosts /\ twice' \subseteq got'
           /\ offset' \in Nat /\ done' \in BOOLEAN
           /\ reply' \in [offset : Nat, total : 0..Cardinality(Hosts), count : Nat,
                          steady : BOOLEAN]
           /\ reply'.count <= limit
<1>1. OrderOK /\ limit \in Nat \ {0} /\ offset \in Nat /\ Total \in Nat
  BY TypeGivesOrder DEF TypeOK
<1>2. /\ Page(offset) \subseteq Listed
      /\ Cardinality(Page(offset)) = IF Total <= offset THEN 0
                                     ELSE IF Total - offset < limit THEN Total - offset ELSE limit
  BY <1>1, PageSize
<1>3. Cardinality(Page(offset)) \in Nat /\ Cardinality(Page(offset)) <= limit
  BY <1>1, <1>2
<1>4. Page(offset) \subseteq Hosts
  BY <1>1, <1>2, ListIsFinite
<1>5. reply' = [offset |-> offset, total |-> total, count |-> Cardinality(Page(offset)),
                steady |-> steady]
  BY DEF Receive
<1>6. offset' = offset + limit /\ done' \in BOOLEAN
  <2>1. stopsAtTotal => done' = (offset + limit >= total)
    BY DEF Receive
  <2>2. ~stopsAtTotal => done' = (Cardinality(Page(offset)) < limit)
    BY DEF Receive
  <2>3. (offset + limit >= total) \in BOOLEAN
    OBVIOUS
  <2>4. (Cardinality(Page(offset)) < limit) \in BOOLEAN
    OBVIOUS
  <2>5. done' \in BOOLEAN
    BY <2>1, <2>2, <2>3, <2>4, Zenon
  <2> QED
    BY <2>5 DEF Receive
<1>7. got' = got \cup Page(offset) /\ twice' = twice \cup (got \cap Page(offset))
  BY DEF Receive
<1> QED
  BY <1>1, <1>3, <1>4, <1>5, <1>6, <1>7 DEF TypeOK

LEMMA TypeStep ==
    ASSUME TypeOK, [Next]_vars
    PROVE  TypeOK'
<1>0. OrderOK /\ Total \in 0..Cardinality(Hosts) /\ Cardinality(Hosts) \in Nat
  BY TypeGivesOrder
<1>1. CASE PythonPage
  BY <1>0, <1>1, ReceiveType DEF PythonPage, TypeOK, settings, inventory, history
<1>2. CASE SqlCount
  BY <1>0, <1>2 DEF SqlCount, TypeOK, settings, inventory, walkVars, history
<1>3. CASE SqlPage
  <2>1. counted \in 0..Cardinality(Hosts)
    BY <1>3 DEF SqlPage, TypeOK
  <2> QED
    BY <1>3, <2>1, ReceiveType DEF SqlPage, TypeOK, settings, inventory, history
<1>4. CASE SqlFails
  BY <1>4 DEF SqlFails, TypeOK, settings, inventory, walkVars, history
<1>5. ASSUME NEW h \in Hosts, Changed(h) PROVE TypeOK'
  <2>1. matching' \subseteq Hosts /\ name' \in [Hosts -> Names]
    BY <1>5, OneHostMoves
  <2>2. UNCHANGED <<settings, counted, walkVars, first>>
        /\ left' \in BOOLEAN /\ came' \in BOOLEAN /\ steady' \in BOOLEAN
    BY <1>5, OneHostMoves DEF Disturb, TypeOK
  <2> QED
    BY <2>1, <2>2 DEF TypeOK, settings, walkVars
<1>6. CASE UNCHANGED vars
  BY <1>6 DEF vars, settings, inventory, walkVars, history, TypeOK
<1> QED
  BY <1>1, <1>2, <1>3, <1>4, <1>5, <1>6 DEF Next, Changed

(* Sets and types of the walk, and no page is too long. *)
THEOREM TypeCorrect == Spec => []TypeOK
<1>1. ASSUME Init PROVE TypeOK
  <2>1. Cardinality(Hosts) \in Nat
    BY PagesAssumption, FS_CardinalityType
  <2>2. limit \in Nat \ {0} /\ NoReply.count <= limit
    BY <1>1, PagesAssumption DEF Init, NoReply
  <2>3. NoReply \in [offset : Nat, total : 0..Cardinality(Hosts), count : Nat, steady : BOOLEAN]
    BY <2>1 DEF NoReply
  <2> QED
    BY <1>1, <2>2, <2>3 DEF Init, TypeOK, Listed
<1> QED
  BY <1>1, TypeStep, PTL DEF Spec

-----------------------------------------------------------------------------
(* The walk.                                                               *)

(* A total that was counted is still the list's if nothing has happened. *)
CountInv ==
    counted # NotCounted =>
        /\ endpoint = "sql" /\ ~done
        /\ steady \/ (~came /\ ~left) => counted = Total

(* What the walk has not reached is ahead of it. *)
SeenInv ==
    /\ ~left => first \subseteq Listed
    /\ ~left /\ ~done => \A h \in first \ got : offset <= Rank(h)
    /\ StayingHostsAreSeen

(* What it has got is behind it. *)
OverlapInv ==
    ~came => twice = {} /\ \A h \in got \cap Listed : Rank(h) < offset

WalkInv == CountInv /\ SeenInv /\ OverlapInv /\ PageFitsTotal /\ WalkEnds

LEMMA WalkInit == Init => WalkInv
<1> SUFFICES ASSUME Init PROVE WalkInv
  OBVIOUS
<1>1. OrderOK
  BY DEF Init, OrderOK
<1>2. \A h : Rank(h) \in Nat
  BY <1>1, RankType
<1>3. WalkEnds
  BY PagesAssumption, FS_CardinalityType DEF Init, WalkEnds
<1> QED
  BY <1>2, <1>3
  DEF Init, WalkInv, CountInv, SeenInv, OverlapInv, PageFitsTotal, StayingHostsAreSeen, NoReply

LEMMA MoveStep ==
    ASSUME TypeOK, WalkInv, NEW h \in Hosts, Changed(h)
    PROVE  WalkInv'
<1>1. /\ UNCHANGED <<settings, counted, walkVars, first>>
      /\ left' = (left \/ h \in Listed)
      /\ came' = (came \/ h \in Listed')
      /\ steady' = (steady /\ counted = NotCounted)
  BY OneHostMoves DEF Disturb
<1>2. CountInv'
  <2> SUFFICES ASSUME counted # NotCounted PROVE CountInv'
    BY <1>1 DEF CountInv
  <2>1. ~steady'
    BY <1>1
  <2>2. ASSUME ~came', ~left' PROVE Total' = Total
    <3>1. h \notin Listed /\ h \notin Listed'
      BY <1>1, <2>2
    <3>2. Listed' = Listed
      <4>1. Listed \subseteq Hosts /\ Listed' \subseteq Hosts
        BY OneHostMoves DEF Listed, TypeOK
      <4> QED
        BY <3>1, <4>1, OneHostMoves
    <3> QED
      BY <3>2 DEF Total
  <2> QED
    BY <1>1, <2>1, <2>2 DEF WalkInv, CountInv, settings, walkVars
<1>3. SeenInv'
  <2>1. ASSUME ~left' PROVE ~left /\ h \notin Listed
    BY <1>1, <2>1
  <2>2. ASSUME ~left'
        PROVE  first' \subseteq Listed' /\ (~done' => \A g \in (first \ got)' : offset' <= Rank(g)')
    <3>1. first \subseteq Listed /\ h \notin Listed /\ ~left
      BY <2>1, <2>2 DEF WalkInv, SeenInv
    <3>2. \A g \in first : g \in Listed' /\ Rank(g) <= Rank(g)'
      BY <3>1, RanksGrow
    <3>3. \A g : Rank(g) \in Nat
      BY TypeGivesOrder, RankType
    <3>4. \A g \in first : Rank(g)' \in Nat
      <4>1. \A g : {f \in Listed' : Before(f, g)'} \subseteq Hosts
        BY OneHostMoves
      <4> QED
        BY <4>1, PagesAssumption, FS_Subset, FS_CardinalityType DEF Rank
    <3> QED
      BY <1>1, <3>1, <3>2, <3>3, <3>4 DEF WalkInv, SeenInv, walkVars, TypeOK
  <2>3. StayingHostsAreSeen'
    BY <1>1 DEF WalkInv, SeenInv, StayingHostsAreSeen, walkVars, settings
  <2> QED
    BY <2>2, <2>3 DEF SeenInv
<1>4. OverlapInv'
  <2> SUFFICES ASSUME ~came' PROVE twice' = {} /\ \A g \in (got \cap Listed)' : Rank(g)' < offset'
    BY DEF OverlapInv
  <2>1. ~came /\ h \notin Listed'
    BY <1>1
  <2>2. ASSUME NEW g \in (got \cap Listed)' PROVE Rank(g)' < offset'
    <3>1. g \in got /\ g \in Listed' /\ offset' = offset /\ offset \in Nat
      BY <1>1, <2>2 DEF walkVars, TypeOK
    <3>2. g \in Listed /\ Rank(g)' <= Rank(g) /\ Rank(g)' \in Nat /\ Rank(g) \in Nat
      BY <2>1, <3>1, RanksFall
    <3>3. Rank(g) < offset
      BY <2>1, <3>1, <3>2 DEF WalkInv, OverlapInv
    <3> QED
      BY <3>1, <3>2, <3>3
  <2> QED
    BY <1>1, <2>1, <2>2 DEF WalkInv, OverlapInv, walkVars
<1>5. PageFitsTotal'
  BY <1>1 DEF WalkInv, PageFitsTotal, walkVars, settings
<1>6. WalkEnds'
  BY <1>1 DEF WalkInv, WalkEnds, walkVars
<1> QED
  BY <1>2, <1>3, <1>4, <1>5, <1>6 DEF WalkInv

(* A response whose total is that of the list, unless the list changed. *)
LEMMA ReceiveStep ==
    ASSUME TypeOK, WalkInv, NEW total \in 0..Cardinality(Hosts), Receive(total), ~done,
           UNCHANGED <<settings, inventory, history>>,
           steady \/ (~came /\ ~left) \/ endpoint = "python" => total = Total
    PROVE  SeenInv' /\ OverlapInv' /\ PageFitsTotal' /\ WalkEnds'
<1>1. OrderOK /\ limit \in Nat \ {0} /\ offset \in Nat /\ Total \in Nat /\ total \in Nat
  BY TypeGivesOrder DEF TypeOK
<1>2. Listed' = Listed /\ \A h : Rank(h)' = Rank(h)
  BY SameList
<1>3. \A h : Rank(h) \in Nat /\ (h \in Listed => Rank(h) < Total)
  BY <1>1, RankType
<1>4. /\ got' = got \cup Page(offset)
      /\ twice' = twice \cup (got \cap Page(offset))
      /\ offset' = offset + limit
      /\ reply' = [offset |-> offset, total |-> total,
                   count |-> Cardinality(Page(offset)), steady |-> steady]
      /\ done' => IF stopsAtTotal THEN offset + limit >= total
                                  ELSE Cardinality(Page(offset)) < limit
  BY DEF Receive
<1>5. Cardinality(Page(offset)) = IF Total <= offset THEN 0
                                  ELSE IF Total - offset < limit THEN Total - offset ELSE limit
  BY <1>1, PageSize
<1>6. limit' = limit /\ endpoint' = endpoint /\ stopsAtTotal' = stopsAtTotal
      /\ first' = first /\ came' = came /\ left' = left
  BY DEF settings, history
<1>7. SeenInv'
  <2>1. ~left => first \subseteq Listed
    BY DEF WalkInv, SeenInv
  <2>2. ASSUME ~left, NEW h \in first, h \notin got' PROVE offset + limit <= Rank(h)
    <3>1. h \in Listed /\ offset <= Rank(h)
      BY <1>4, <2>1, <2>2 DEF WalkInv, SeenInv
    <3>2. h \notin Page(offset)
      BY <1>4, <2>2
    <3> QED
      BY <1>1, <1>3, <3>1, <3>2 DEF Page
  <2>3. ASSUME done', ~left, endpoint = "sql" /\ stopsAtTotal => ~came
        PROVE  first \subseteq got'
    <3>1. Total <= offset + limit
      <4>1. CASE stopsAtTotal
        <5>1. total = Total
          <6>1. endpoint = "python" \/ ~came
            BY <2>3, <4>1 DEF TypeOK, Endpoints
          <6> QED
            BY <2>3, <6>1
        <5> QED
          BY <1>1, <1>4, <2>3, <4>1, <5>1
      <4>2. CASE ~stopsAtTotal
        BY <1>1, <1>4, <1>5, <2>3, <4>2
      <4> QED
        BY <4>1, <4>2
    <3>2. \A h \in first : Rank(h) < offset + limit
      BY <1>1, <1>3, <2>1, <2>3, <3>1
    <3> QED
      BY <1>1, <1>3, <2>2, <2>3, <3>2
  <2> QED
    BY <1>2, <1>4, <1>6, <2>1, <2>2, <2>3 DEF SeenInv, StayingHostsAreSeen
<1>8. OverlapInv'
  <2> SUFFICES ASSUME ~came PROVE twice' = {} /\ \A h \in got' \cap Listed : Rank(h) < offset'
    BY <1>2, <1>6 DEF OverlapInv
  <2>1. twice = {} /\ \A h \in got \cap Listed : Rank(h) < offset
    BY DEF WalkInv, OverlapInv
  <2>2. \A h \in Page(offset) : h \in Listed /\ offset <= Rank(h) /\ Rank(h) < offset + limit
    BY DEF Page
  <2>3. got \cap Page(offset) = {}
    BY <1>1, <1>3, <2>1, <2>2
  <2>4. \A h \in got' \cap Listed : Rank(h) < offset + limit
    BY <1>1, <1>3, <1>4, <2>1, <2>2
  <2> QED
    BY <1>4, <2>1, <2>3, <2>4
<1>9. PageFitsTotal'
  <2> SUFFICES ASSUME steady
               PROVE  Cardinality(Page(offset)) =
                         IF total <= offset THEN 0
                         ELSE IF total - offset < limit THEN total - offset ELSE limit
    BY <1>4, <1>6 DEF PageFitsTotal
  <2> QED
    BY <1>5
<1>10. WalkEnds'
  <2> SUFFICES ASSUME ~done' PROVE offset + limit <= Cardinality(Hosts)
    BY <1>4 DEF WalkEnds
  <2>1. Total <= Cardinality(Hosts) /\ total <= Cardinality(Hosts) /\ Cardinality(Hosts) \in Nat
    BY TypeGivesOrder
  <2>2. CASE stopsAtTotal
    <3>1. done' = (offset + limit >= total)
      BY <2>2 DEF Receive
    <3>2. ~(offset + limit >= total)
      BY <3>1, Zenon
    <3> QED
      BY <1>1, <2>1, <3>2
  <2>3. CASE ~stopsAtTotal
    <3>1. done' = (Cardinality(Page(offset)) < limit)
      BY <2>3 DEF Receive
    <3>2. ~(Cardinality(Page(offset)) < limit)
      BY <3>1, Zenon
    <3>3. ~(Total <= offset) /\ ~(Total - offset < limit)
      BY <1>1, <1>5, <3>2
    <3> QED
      BY <1>1, <2>1, <3>3
  <2> QED
    BY <2>2, <2>3
<1> QED
  BY <1>7, <1>8, <1>9, <1>10

LEMMA WalkStep ==
    ASSUME TypeOK, WalkInv, [Next]_vars
    PROVE  WalkInv'
<1>1. CASE PythonPage
  <2>1. Total \in 0..Cardinality(Hosts)
    BY TypeGivesOrder
  <2>2. SeenInv' /\ OverlapInv' /\ PageFitsTotal' /\ WalkEnds'
    BY <1>1, <2>1, ReceiveStep DEF PythonPage
  <2>3. CountInv'
    BY <1>1 DEF PythonPage, WalkInv, CountInv, settings
  <2> QED
    BY <2>2, <2>3 DEF WalkInv
<1>2. CASE SqlPage
  <2>1. counted \in 0..Cardinality(Hosts) /\ ~done /\ endpoint = "sql"
        /\ (steady \/ (~came /\ ~left) => counted = Total)
    BY <1>2 DEF SqlPage, TypeOK, WalkInv, CountInv
  <2>2. SeenInv' /\ OverlapInv' /\ PageFitsTotal' /\ WalkEnds'
    BY <1>2, <2>1, ReceiveStep DEF SqlPage
  <2>3. CountInv'
    BY <1>2 DEF SqlPage, CountInv
  <2> QED
    BY <2>2, <2>3 DEF WalkInv
<1>3. CASE SqlCount \/ SqlFails \/ UNCHANGED vars
  <2>1. UNCHANGED <<settings, inventory, walkVars, history>>
    BY <1>3 DEF SqlCount, SqlFails, vars
  <2>2. Listed' = Listed /\ Total' = Total /\ \A h : Rank(h)' = Rank(h)
    BY <2>1, SameList
  <2>3. CountInv'
    BY <1>3, <2>1, <2>2 DEF SqlCount, SqlFails, vars, WalkInv, CountInv, settings, walkVars, history
  <2>4. SeenInv' /\ OverlapInv' /\ PageFitsTotal' /\ WalkEnds'
    BY <2>1, <2>2 DEF WalkInv, SeenInv, OverlapInv, PageFitsTotal, WalkEnds,
                      StayingHostsAreSeen, settings, walkVars, history
  <2> QED
    BY <2>3, <2>4 DEF WalkInv
<1>4. ASSUME NEW h \in Hosts, Changed(h) PROVE WalkInv'
  BY <1>4, MoveStep
<1> QED
  BY <1>1, <1>2, <1>3, <1>4 DEF Next, Changed

LEMMA WalkInvariant == Spec => []WalkInv
  BY WalkInit, WalkStep, TypeCorrect, PTL DEF Spec

(* A response is as long as its total says. *)
THEOREM PageFitsTotalCorrect == Spec => []PageFitsTotal
  BY WalkInvariant, PTL DEF WalkInv

(* No host is missed while none leaves its place. *)
THEOREM StayingHostsCorrect == Spec => []StayingHostsAreSeen
<1>1. WalkInv => StayingHostsAreSeen
  BY DEF WalkInv, SeenInv
<1> QED
  BY <1>1, WalkInvariant, PTL

(* None is got twice while none comes. *)
THEOREM PagesDoNotOverlapCorrect == Spec => []PagesDoNotOverlap
<1>1. WalkInv => PagesDoNotOverlap
  BY DEF WalkInv, OverlapInv, PagesDoNotOverlap
<1> QED
  BY <1>1, WalkInvariant, PTL

(* The walk ends within the hosts that exist, whatever the inventory does. *)
THEOREM WalkEndsCorrect == Spec => []WalkEnds
<1>1. WalkInv => WalkEnds
  BY DEF WalkInv
<1> QED
  BY <1>1, WalkInvariant, PTL
=============================================================================
