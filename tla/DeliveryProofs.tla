--------------------------- MODULE DeliveryProofs ---------------------------
(* Theorems about the mails that the notification runs cause: one regular
   report a day, no forced mail suppressed, and the refinement of
   MonthlyReports. *)
EXTENDS NotificationDelivery, NotificatorProofs, FiniteSetTheorems

(* Messages written to the topic or about to be. *)
Issued == topic \cup {payload[t] : t \in {u \in Tasks : pc[u] = "send"}}

RegularId(m) == [kind |-> m.kind, org |-> m.org, day |-> m.day, nonce |-> 0]

(* An id tells a regular message's kind, organization and day, and a forced
   message from every other. *)
IssuedInv ==
    /\ \A m \in Issued : /\ m.day <= day
                         /\ m.forced => m.id.nonce \in 1..minted
                         /\ ~m.forced => m.id = RegularId(m)
    /\ \A m, n \in Issued : m.forced /\ m.id = n.id => m = n

LEMMA IssuedType ==
    ASSUME TypeOK
    PROVE  Issued \subseteq Messages
  BY DEF Issued, TypeOK

LEMMA IssuedInit == Init => IssuedInv
  <1> SUFFICES ASSUME Init PROVE Issued = {}
    BY DEF IssuedInv
  <1> QED BY DEF Init, Issued

(* Only a payload that is being sent gets into the topic. *)
LEMMA TopicNext ==
    ASSUME RunInv, [Next]_vars
    PROVE  /\ topic \subseteq topic'
           /\ topic' \subseteq Issued
  <1>1. ASSUME NEW t \in Tasks, Step(t)
        PROVE  topic \subseteq topic' /\ topic' \subseteq Issued
    BY <1>1
    DEF Step, FetchSucceeds, FetchRetries, FetchFails, ConnectSucceeds,
        ConnectRetries, ConnectFails, BuildSucceeds, BuildFails, SendSucceeds,
        SendFails, StopSucceeds, StopFails, Issued
  <1>2. ASSUME NEW T \in SUBSET Tasks, Crash(T)
        PROVE  topic \subseteq topic' /\ topic' \subseteq Issued
    BY <1>2 DEF Crash, Issued
  <1>3. topic \subseteq Issued
    BY DEF Issued
  <1> QED
    BY <1>1, <1>2, <1>3, NextCases DEF Enter, Midnight, vars

(* A step issues at most one message, the payload that BuildSucceeds makes. *)
LEMMA IssuedNext ==
    ASSUME RunInv, [Next]_vars
    PROVE  \/ Issued' \subseteq Issued /\ minted' >= minted
           \/ \E t \in Tasks :
                 /\ pc[t] = "build"
                 /\ Issued' \subseteq Issued \cup {Notification(req[t], orgIds[t][index[t]])}
                 /\ minted' = IF req[t].forceEmail THEN minted + 1 ELSE minted
                 /\ day' = day
  <1>1. minted \in Nat
    BY DEF RunInv, TypeOK
  <1>2. ASSUME \A t \in Tasks : pc'[t] = "send" => pc[t] = "send" /\ payload'[t] = payload[t]
        PROVE  Issued' \subseteq Issued
    BY <1>2, TopicNext DEF Issued
  <1>3. ASSUME NEW t \in Tasks, Step(t), ~(BuildSucceeds(t) /\ ~req[t].dryRun)
        PROVE  Issued' \subseteq Issued /\ minted' >= minted
    <2>1. \A u \in Tasks : pc'[u] = "send" => pc[u] = "send" /\ payload'[u] = payload[u]
      <3>1. CASE NextOrg(t)
        <4>1. /\ pc'[t] # "send"
              /\ \A u \in Tasks : u # t => pc'[u] = pc[u] /\ payload'[u] = payload[u]
          BY <3>1 DEF NextOrg, RunInv, TypeOK
        <4> QED BY <4>1
      <3>2. CASE FetchSucceeds(t)
        <4>1. /\ pc'[t] # "send" /\ payload' = payload
              /\ \A u \in Tasks : u # t => pc'[u] = pc[u]
          BY <3>2 DEF FetchSucceeds, Return, RunInv, TypeOK
        <4> QED BY <4>1
      <3>3. ASSUME \/ FetchRetries(t) \/ FetchFails(t) \/ ConnectSucceeds(t)
                   \/ ConnectRetries(t) \/ ConnectFails(t)
                   \/ StopSucceeds(t) \/ StopFails(t)
            PROVE  \A u \in Tasks : pc'[u] = "send" => pc[u] = "send" /\ payload'[u] = payload[u]
        BY <3>3
        DEF FetchRetries, FetchFails, ConnectSucceeds, ConnectRetries, ConnectFails,
            StopSucceeds, StopFails, Return, callVars, RunInv, TypeOK
      <3> QED
        BY <1>3, <3>1, <3>2, <3>3
        DEF Step, BuildSucceeds, BuildFails, SendSucceeds, SendFails, OrgFails
    <2>2. minted' >= minted
      BY <1>1, <1>3
      DEF Step, FetchSucceeds, FetchRetries, FetchFails, ConnectSucceeds,
          ConnectRetries, ConnectFails, BuildSucceeds, BuildFails, SendSucceeds,
          SendFails, StopSucceeds, StopFails
    <2> QED BY <1>2, <2>1, <2>2
  <1>4. ASSUME NEW t \in Tasks, BuildSucceeds(t), ~req[t].dryRun
        PROVE  /\ pc[t] = "build"
               /\ Issued' \subseteq Issued \cup {Notification(req[t], orgIds[t][index[t]])}
               /\ minted' = IF req[t].forceEmail THEN minted + 1 ELSE minted
               /\ day' = day
    <2>1. /\ payload'[t] = Notification(req[t], orgIds[t][index[t]])
          /\ \A u \in Tasks : u # t => pc'[u] = pc[u] /\ payload'[u] = payload[u]
      BY <1>4 DEF BuildSucceeds, RunInv, TypeOK
    <2>2. topic' = topic
      BY <1>4 DEF BuildSucceeds
    <2> QED BY <1>4, <2>1, <2>2 DEF BuildSucceeds, Issued
  <1>5. ASSUME NEW t \in Tasks, NEW r \in Requests, NEW l \in Lists, Enter(t, r, l)
        PROVE  Issued' \subseteq Issued /\ minted' >= minted
    BY <1>1, <1>2, <1>5 DEF Enter, RunInv, TypeOK
  <1>6. ASSUME NEW T \in SUBSET Tasks, Crash(T)
        PROVE  Issued' \subseteq Issued /\ minted' >= minted
    BY <1>1, <1>2, <1>6 DEF Crash, callVars
  <1>7. CASE Midnight \/ UNCHANGED vars
    BY <1>1, <1>2, <1>7 DEF Midnight, vars, callVars
  <1> QED BY <1>3, <1>4, <1>5, <1>6, <1>7, NextCases

LEMMA IssuedInvNext ==
    ASSUME RunInv, IssuedInv, [Next]_vars
    PROVE  IssuedInv'
  <1>1. /\ day \in Nat /\ day' \in Nat /\ day' >= day
        /\ minted \in Nat
    <2>1. day \in Nat /\ minted \in Nat
      BY BoundsAssumption DEF RunInv, TypeOK, Days
    <2>2. day' = day \/ day' = day + 1
      BY NextCases
      DEF Enter, Crash, Midnight, vars, Step, FetchSucceeds, FetchRetries, FetchFails,
          ConnectSucceeds, ConnectRetries, ConnectFails, BuildSucceeds, BuildFails,
          SendSucceeds, SendFails, StopSucceeds, StopFails, callVars
    <2> QED BY <2>1, <2>2
  <1>2. \A m \in Issued : m.day \in Nat /\ m.id.nonce \in Nat
    BY IssuedType, BoundsAssumption DEF RunInv, Messages, Days, Ids
  <1>3. CASE Issued' \subseteq Issued /\ minted' >= minted /\ minted' \in Nat
    BY <1>1, <1>2, <1>3 DEF IssuedInv, RegularId
  <1>4. ASSUME NEW t \in Tasks, pc[t] = "build",
               Issued' \subseteq Issued \cup {Notification(req[t], orgIds[t][index[t]])},
               minted' = IF req[t].forceEmail THEN minted + 1 ELSE minted,
               day' = day
        PROVE  IssuedInv'
    <2> DEFINE new == Notification(req[t], orgIds[t][index[t]])
    <2>1. /\ new \in Messages
          /\ new.forced = req[t].forceEmail
          /\ new.day = day
          /\ new.id.nonce = IF new.forced THEN minted + 1 ELSE 0
          /\ ~new.forced => new.id = RegularId(new)
      BY <1>4, NotificationType
      DEF RunInv, Notification, MakeNotificationUuid, RegularId
    <2>2. new.forced \in BOOLEAN
      BY <2>1 DEF Messages
    <2>3. \A m \in Issued : ~(m.id.nonce = minted + 1)
      <3> SUFFICES ASSUME NEW m \in Issued PROVE ~(m.id.nonce = minted + 1)
        OBVIOUS
      <3>1. CASE m.forced
        BY <1>1, <3>1 DEF IssuedInv
      <3>2. CASE ~m.forced
        <4>1. m.id = RegularId(m)
          BY <3>2 DEF IssuedInv
        <4>2. m.id.nonce = 0
          BY <4>1 DEF RegularId
        <4> QED BY <1>1, <4>2
      <3> QED BY <3>1, <3>2
    <2>4. ASSUME NEW m \in Issued'
          PROVE  /\ m.day <= day'
                 /\ m.forced => m.id.nonce \in 1..minted'
                 /\ ~m.forced => m.id = RegularId(m)
      <3>1. CASE m \in Issued
        BY <1>1, <1>2, <1>4, <3>1 DEF IssuedInv
      <3>2. CASE m = new
        BY <1>1, <1>4, <2>1, <3>2
      <3> QED BY <1>4, <2>4, <3>1, <3>2
    <2>5. ASSUME NEW m \in Issued', NEW n \in Issued', m.forced, m.id = n.id
          PROVE  m = n
      <3>1. CASE m \in Issued /\ n \in Issued
        BY <2>5, <3>1 DEF IssuedInv
      <3>2. CASE m = new /\ n \in Issued
        BY <1>1, <2>1, <2>3, <2>5, <3>2
      <3>3. CASE m \in Issued /\ n = new
        <4>1. n.forced
          BY <1>1, <2>1, <2>5, <3>3 DEF IssuedInv
        <4> QED BY <1>1, <2>1, <2>3, <2>5, <3>3, <4>1
      <3> QED BY <1>4, <2>5, <3>1, <3>2, <3>3
    <2> QED BY <2>4, <2>5 DEF IssuedInv, RegularId
  <1>5. TypeOK'
    BY TypeNext DEF RunInv
  <1> QED BY <1>1, <1>3, <1>4, <1>5, IssuedNext DEF TypeOK

-----------------------------------------------------------------------------
(* What the backend has mailed is told by the ids it has met. *)
BackendInv ==
    /\ seen \subseteq Ids
    /\ regularMails \in [Slots -> Nat]
    /\ forcedMails \subseteq topic
    /\ IsFiniteSet(forcedMails)
    /\ \A i \in seen : \E m \in topic : m.id = i
    /\ \A m \in forcedMails : m.forced /\ m.id \in seen
    /\ \A m \in topic : m.forced /\ m.id \in seen => m \in forcedMails
    /\ \A s \in Slots : regularMails[s] = IF RegularId(s) \in seen THEN 1 ELSE 0

DeliveryInv == RunInv /\ IssuedInv /\ BackendInv

LEMMA DeliveryInvInit == DeliveryInit => DeliveryInv
  BY RunInit, IssuedInit, FS_EmptySet DEF DeliveryInit, DeliveryInv, BackendInv

(* A message in the topic: its slot, and its id if it is a regular one. *)
LEMMA TopicMessage ==
    ASSUME RunInv, IssuedInv, NEW m \in topic
    PROVE  /\ m \in Messages
           /\ SlotOf(m) \in Slots
           /\ m.id \in Ids
           /\ m.forced \in BOOLEAN
           /\ ~m.forced => m.id = RegularId(SlotOf(m))
           /\ m.forced => \A s \in Slots : m.id # RegularId(s)
           /\ \A n \in topic : m.forced /\ n.id = m.id => n = m
  <1>1. m \in Messages /\ m \in Issued
    BY DEF RunInv, TypeOK, Issued
  <1>2. /\ SlotOf(m) \in Slots /\ m.id \in Ids /\ m.forced \in BOOLEAN
    BY <1>1 DEF Messages, SlotOf, Slots
  <1>3. ~m.forced => m.id = RegularId(m)
    BY <1>1 DEF IssuedInv
  <1>4. RegularId(SlotOf(m)) = RegularId(m)
    BY DEF RegularId, SlotOf
  <1>5. ASSUME m.forced, NEW s \in Slots
        PROVE  m.id # RegularId(s)
    <2>1. m.id.nonce \in 1..minted
      BY <1>1, <1>5 DEF IssuedInv
    <2>2. RegularId(s).nonce = 0
      BY DEF RegularId
    <2>3. minted \in Nat
      BY DEF RunInv, TypeOK
    <2> QED BY <2>1, <2>2, <2>3
  <1>6. ASSUME NEW n \in topic, m.forced, n.id = m.id
        PROVE  n = m
    <2>1. n \in Issued
      BY DEF Issued
    <2> QED BY <1>1, <1>6, <2>1 DEF IssuedInv
  <1> QED BY <1>1, <1>2, <1>3, <1>4, <1>5, <1>6

(* The runs add to the topic; the backend's state stands. *)
LEMMA BackendRuns ==
    ASSUME DeliveryInv, [Next]_vars, UNCHANGED backendVars
    PROVE  BackendInv'
  <1>1. topic \subseteq topic' /\ topic' \subseteq Issued
    BY TopicNext DEF DeliveryInv
  <1>2. ASSUME NEW m \in topic', m.forced, m.id \in seen
        PROVE  m \in forcedMails
    <2>1. PICK n \in topic : n.id = m.id
      BY <1>2 DEF DeliveryInv, BackendInv
    <2>2. n \in Issued /\ m \in Issued
      BY <1>1 DEF Issued
    <2>3. m = n
      BY <1>2, <2>1, <2>2 DEF DeliveryInv, IssuedInv
    <2> QED BY <1>2, <2>1, <2>3 DEF DeliveryInv, BackendInv
  <1> QED
    BY <1>1, <1>2 DEF DeliveryInv, BackendInv, backendVars

LEMMA BackendDelivers ==
    ASSUME DeliveryInv, NEW m \in topic, Deliver(m)
    PROVE  BackendInv'
  <1>1. /\ m.id \notin seen /\ seen' = seen \cup {m.id} /\ topic' = topic
        /\ m.id \in Ids /\ SlotOf(m) \in Slots /\ m.forced \in BOOLEAN
    BY TopicMessage DEF Deliver, vars, DeliveryInv
  <1>2. CASE m.forced
    <2>1. forcedMails' = forcedMails \cup {m} /\ regularMails' = regularMails
      BY <1>2 DEF Deliver
    <2>2. IsFiniteSet(forcedMails')
      BY <2>1, FS_AddElement DEF DeliveryInv, BackendInv
    <2>3. \A s \in Slots : RegularId(s) # m.id
      BY <1>2, TopicMessage DEF DeliveryInv
    <2>4. \A n \in topic : n.id = m.id => n = m
      BY <1>2, TopicMessage DEF DeliveryInv
    <2> QED
      BY <1>1, <1>2, <2>1, <2>2, <2>3, <2>4 DEF DeliveryInv, BackendInv
  <1>3. CASE ~m.forced
    <2>1. /\ regularMails' = [regularMails EXCEPT ![SlotOf(m)] = @ + 1]
          /\ forcedMails' = forcedMails
      BY <1>3 DEF Deliver
    <2>2. m.id = RegularId(SlotOf(m))
      BY <1>3, TopicMessage DEF DeliveryInv
    <2>3. \A s \in Slots : RegularId(s) = m.id => s = SlotOf(m)
      <3>1. \A s, r \in Slots : RegularId(s) = RegularId(r) => s = r
        BY DEF RegularId, Slots
      <3> QED BY <1>1, <2>2, <3>1
    <2>4. \A n \in topic : n.forced => n.id # m.id
      BY <1>1, <2>2, TopicMessage DEF DeliveryInv
    <2>5. \A s \in Slots : regularMails'[s] = IF RegularId(s) \in seen' THEN 1 ELSE 0
      BY <1>1, <2>1, <2>2, <2>3 DEF DeliveryInv, BackendInv
    <2>6. regularMails' \in [Slots -> Nat]
      BY <1>1, <2>1 DEF DeliveryInv, BackendInv
    <2> QED
      BY <1>1, <2>1, <2>4, <2>5, <2>6 DEF DeliveryInv, BackendInv
  <1> QED BY <1>1, <1>2, <1>3

LEMMA DeliveryInvNext == DeliveryInv /\ [DeliveryNext]_deliveryVars => DeliveryInv'
  <1> SUFFICES ASSUME DeliveryInv, [DeliveryNext]_deliveryVars
               PROVE  DeliveryInv'
    OBVIOUS
  <1>1. [Next]_vars
    BY DEF DeliveryNext, deliveryVars, Deliver
  <1>2. RunInv' /\ IssuedInv'
    BY <1>1, TypeNext, PayloadNext, AskedNext, AccountedNext, IssuedInvNext
    DEF RunInv, DeliveryInv
  <1>3. BackendInv'
    BY <1>1, BackendRuns, BackendDelivers DEF DeliveryNext, deliveryVars
  <1> QED BY <1>2, <1>3 DEF DeliveryInv

THEOREM DeliveryInvCorrect == DeliverySpec => []DeliveryInv
  BY DeliveryInvInit, DeliveryInvNext, PTL DEF DeliverySpec

(* The types of the runs and the backend. *)
THEOREM DeliveryTypeCorrect == DeliverySpec => []DeliveryTypeOK
  <1>1. DeliveryInv => DeliveryTypeOK
    BY DEF DeliveryInv, RunInv, BackendInv, DeliveryTypeOK, TypeOK
  <1> QED BY DeliveryInvCorrect, <1>1, PTL

(* At most one regular mail of a kind to an organization a day. *)
THEOREM OneRegularMailCorrect == DeliverySpec => []OneRegularMailPerDay
  <1>1. DeliveryInv => OneRegularMailPerDay
    BY DEF DeliveryInv, BackendInv, OneRegularMailPerDay
  <1> QED BY DeliveryInvCorrect, <1>1, PTL

(* A forced message that the backend holds for met has been mailed itself. *)
THEOREM ForcedMailCorrect == DeliverySpec => []ForcedMailIsNotSuppressed
  <1>1. DeliveryInv => ForcedMailIsNotSuppressed
    BY DEF DeliveryInv, BackendInv, ForcedMailIsNotSuppressed
  <1> QED BY DeliveryInvCorrect, <1>1, PTL

-----------------------------------------------------------------------------
(* The refinement of MonthlyReports.                                       *)

ForcedIn(M, s) == {m \in M : SlotOf(m) = s}

(* One more forced message changes the count of its own slot only. *)
LEMMA ForcedCountStep ==
    ASSUME NEW M, IsFiniteSet(M), NEW m, m \notin M, NEW s
    PROVE  Cardinality(ForcedIn(M \cup {m}, s)) =
             IF s = SlotOf(m) THEN Cardinality(ForcedIn(M, s)) + 1
                              ELSE Cardinality(ForcedIn(M, s))
  <1>1. IsFiniteSet(ForcedIn(M, s))
    BY FS_Subset DEF ForcedIn
  <1>2. CASE s = SlotOf(m)
    <2>1. ForcedIn(M \cup {m}, s) = ForcedIn(M, s) \cup {m}
      BY <1>2 DEF ForcedIn
    <2>2. m \notin ForcedIn(M, s)
      BY DEF ForcedIn
    <2> QED BY <1>1, <1>2, <2>1, <2>2, FS_AddElement
  <1>3. CASE s # SlotOf(m)
    <2>1. ForcedIn(M \cup {m}, s) = ForcedIn(M, s)
      BY <1>3 DEF ForcedIn
    <2> QED BY <1>3, <2>1
  <1> QED BY <1>2, <1>3

LEMMA PromiseInit == DeliveryInit => Promise!Init
  <1> SUFFICES ASSUME DeliveryInit PROVE Promise!Init
    OBVIOUS
  <1>1. \A s \in Slots : ForcedIn(forcedMails, s) = {}
    BY DEF DeliveryInit, ForcedIn
  <1>2. ForcedCount = [s \in Slots |-> 0]
    BY <1>1, FS_EmptySet DEF ForcedCount, ForcedIn
  <1> QED
    BY <1>2 DEF DeliveryInit, Init, Promise!Init, Promise!NoMail, Promise!Slots, Slots

(* A step of the runs is a new day, more organizations asked for, or nothing
   that the promise is about. *)
LEMMA PromiseRuns ==
    ASSUME DeliveryInv, TypeOK', [Next]_vars, UNCHANGED backendVars
    PROVE  [Promise!Next]_(Promise!reportVars)
  <1>1. ForcedCount' = ForcedCount /\ regularMails' = regularMails
    BY DEF backendVars, ForcedCount
  <1>2. CASE Midnight
    BY <1>1, <1>2 DEF Midnight, Promise!Next, Promise!NewDay
  <1>3. ASSUME day' = day, asked \subseteq asked'
        PROVE  [Promise!Next]_(Promise!reportVars)
    <2>1. asked' \in SUBSET (Kinds \X Orgs)
      BY DEF TypeOK
    <2> QED BY <1>1, <1>3, <2>1 DEF Promise!Next, Promise!Ask
  <1>4. ASSUME NEW t \in Tasks, Step(t)
        PROVE  day' = day /\ asked \subseteq asked'
    BY <1>4
    DEF Step, FetchSucceeds, FetchRetries, FetchFails, ConnectSucceeds,
        ConnectRetries, ConnectFails, BuildSucceeds, BuildFails, SendSucceeds,
        SendFails, StopSucceeds, StopFails
  <1> QED
    BY <1>2, <1>3, <1>4, NextCases DEF Enter, Crash, vars

(* What the backend mails is due. *)
LEMMA PromiseDelivers ==
    ASSUME DeliveryInv, NEW m \in topic, Deliver(m)
    PROVE  Promise!Next
  <1>1. /\ m.id \notin seen /\ UNCHANGED vars
        /\ m \in Messages /\ SlotOf(m) \in Slots /\ m.forced \in BOOLEAN
    BY TopicMessage DEF Deliver, DeliveryInv
  <1>2. Promise!Due(SlotOf(m))
    <2>1. <<m.kind, m.org>> \in asked
      BY DEF DeliveryInv, RunInv, AskedInv
    <2>2. m.day <= day
      BY DEF DeliveryInv, IssuedInv, Issued
    <2> QED BY <2>1, <2>2 DEF Promise!Due, SlotOf
  <1>3. CASE ~m.forced
    <2>1. /\ regularMails' = [regularMails EXCEPT ![SlotOf(m)] = @ + 1]
          /\ forcedMails' = forcedMails
      BY <1>3 DEF Deliver
    <2>2. regularMails[SlotOf(m)] = 0
      BY <1>1, <1>3, TopicMessage DEF DeliveryInv, BackendInv
    <2>3. Promise!MailRegular(SlotOf(m))
      BY <1>1, <1>2, <2>1, <2>2 DEF Promise!MailRegular, ForcedCount, vars, DeliveryInv, BackendInv
    <2> QED BY <1>1, <2>3 DEF Promise!Next, Promise!Slots, Slots
  <1>4. CASE m.forced
    <2>1. forcedMails' = forcedMails \cup {m} /\ regularMails' = regularMails
      BY <1>4 DEF Deliver
    <2>2. m \notin forcedMails /\ IsFiniteSet(forcedMails)
      BY <1>1 DEF DeliveryInv, BackendInv
    <2>3. \A s \in Slots : ForcedCount'[s] =
             IF s = SlotOf(m) THEN ForcedCount[s] + 1 ELSE ForcedCount[s]
      BY <2>1, <2>2, ForcedCountStep DEF ForcedCount, ForcedIn
    <2>4. ForcedCount' = [ForcedCount EXCEPT ![SlotOf(m)] = @ + 1]
      <3>1. /\ ForcedCount = [s \in Slots |-> ForcedCount[s]]
            /\ ForcedCount' = [s \in Slots |-> ForcedCount'[s]]
        BY DEF ForcedCount
      <3> HIDE DEF ForcedCount
      <3> QED BY <1>1, <2>3, <3>1
    <2>5. Promise!MailForced(SlotOf(m))
      BY <1>1, <1>2, <2>1, <2>4 DEF Promise!MailForced, vars
    <2> QED BY <1>1, <2>5 DEF Promise!Next, Promise!Slots, Slots
  <1> QED BY <1>1, <1>3, <1>4

(* The runs and the backend keep the promise of MonthlyReports. *)
THEOREM PromiseKept == DeliverySpec => KeepsThePromise
  <1>1. /\ DeliveryInv /\ DeliveryInv' /\ [DeliveryNext]_deliveryVars
        => [Promise!Next]_(Promise!reportVars)
    <2> SUFFICES ASSUME DeliveryInv, DeliveryInv', [DeliveryNext]_deliveryVars
                 PROVE  [Promise!Next]_(Promise!reportVars)
      OBVIOUS
    <2>1. TypeOK'
      BY DEF DeliveryInv, RunInv
    <2>2. CASE [Next]_vars /\ UNCHANGED backendVars
      BY <2>1, <2>2, PromiseRuns
    <2>3. ASSUME NEW m \in topic, Deliver(m)
          PROVE  Promise!Next
      BY <2>3, PromiseDelivers
    <2> QED BY <2>2, <2>3 DEF DeliveryNext, deliveryVars
  <1> QED
    BY DeliveryInvCorrect, PromiseInit, <1>1, PTL
    DEF DeliverySpec, KeepsThePromise, Promise!Spec
=============================================================================
