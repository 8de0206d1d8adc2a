-------------------------- MODULE NotificatorProofs --------------------------
(* Theorems about the notification runs, for any organizations, any number of
   pods and background tasks, any retry limits and any number of days. *)
EXTENDS Notificator, TLAPS

(* What a list of organization ids is. *)
LEMMA ListType ==
    ASSUME NEW l \in Lists
    PROVE  /\ l \in Seq(Orgs)
           /\ Len(l) \in Nat
           /\ DOMAIN l = 1..Len(l)
           /\ l # <<>> => 1 \in DOMAIN l
           /\ \A i \in DOMAIN l : l[i] \in Orgs
  <1>1. PICK n \in 0..MaxListLen : l \in [1..n -> Orgs]
    BY DEF Lists
  <1>2. l \in Seq(Orgs) /\ Len(l) = n /\ DOMAIN l = 1..n
    BY <1>1
  <1>3. l # <<>> => n # 0
    BY <1>2
  <1> QED BY <1>1, <1>2, <1>3

LEMMA EmptyList == <<>> \in Lists
  <1>1. <<>> \in [1..0 -> Orgs]
    OBVIOUS
  <1>2. 0 \in 0..MaxListLen
    BY BoundsAssumption
  <1> QED BY <1>1, <1>2 DEF Lists

(* The organizations that a list makes a run ask for. *)
LEMMA AskedType ==
    ASSUME NEW r \in Requests, NEW l \in Lists
    PROVE  AskedBy(r, l) \subseteq Kinds \X Orgs
  BY ListType DEF AskedBy, Requests, Range

LEMMA TypeInit == Init => TypeOK
  BY EmptyList, BoundsAssumption
  DEF Init, TypeOK, Days, Messages, Requests, Kinds, Reports

(* Starting a coroutine keeps the types. *)
LEMMA TypeEnter ==
    ASSUME TypeOK, NEW t \in Tasks, NEW r \in Requests, NEW l \in Lists, Enter(t, r, l)
    PROVE  TypeOK'
  <1>1. asked' \subseteq Kinds \X Orgs
    BY AskedType DEF TypeOK, Enter
  <1>2. l # <<>> => 1 \in DOMAIN l
    BY ListType
  <1> QED
    BY <1>1, <1>2 DEF TypeOK, Enter, Suspended, Messages, Reports

(* So does each step of a coroutine. *)
LEMMA TypeFetch ==
    ASSUME TypeOK, NEW t \in Tasks,
           FetchSucceeds(t) \/ FetchRetries(t) \/ FetchFails(t)
    PROVE  TypeOK'
  <1>1. CASE FetchSucceeds(t)
    <2>1. PICK l \in Lists :
            /\ orgIds' = [orgIds EXCEPT ![t] = l]
            /\ asked' = asked \cup AskedBy(req[t], l)
            /\ IF l = <<>>
               THEN Return(t, "no_subscribers") /\ UNCHANGED attempt
               ELSE /\ pc' = [pc EXCEPT ![t] = "connect"]
                    /\ attempt' = [attempt EXCEPT ![t] = 1]
                    /\ UNCHANGED report
      BY <1>1 DEF FetchSucceeds
    <2>2. asked' \subseteq Kinds \X Orgs
      BY <2>1, AskedType DEF TypeOK
    <2>3. l # <<>> => 1 \in DOMAIN l
      BY ListType
    <2>4. /\ pc[t] = "fetch" /\ index[t] = 1
          /\ UNCHANGED <<day, topic, minted, req, index, payload, acked, failedOrgs>>
      BY <1>1 DEF FetchSucceeds, TypeOK
    <2>5. CASE l = <<>>
      BY <2>1, <2>2, <2>4, <2>5 DEF TypeOK, Return, Suspended, Reports
    <2>6. CASE l # <<>>
      BY <2>1, <2>2, <2>3, <2>4, <2>6 DEF TypeOK, Suspended, Reports
    <2> QED BY <2>5, <2>6
  <1>2. CASE FetchRetries(t)
    BY <1>2 DEF TypeOK, FetchRetries, Suspended
  <1>3. CASE FetchFails(t)
    BY <1>3 DEF TypeOK, FetchFails, Return, Suspended, Reports
  <1> QED BY <1>1, <1>2, <1>3

LEMMA TypeProducer ==
    ASSUME TypeOK, NEW t \in Tasks,
           \/ ConnectSucceeds(t) \/ ConnectRetries(t) \/ ConnectFails(t)
           \/ StopSucceeds(t) \/ StopFails(t)
    PROVE  TypeOK'
  <1>1. CASE ConnectSucceeds(t)
    BY <1>1 DEF TypeOK, ConnectSucceeds, callVars, Suspended
  <1>2. CASE ConnectRetries(t)
    BY <1>2 DEF TypeOK, ConnectRetries, Suspended
  <1>3. CASE ConnectFails(t)
    BY <1>3 DEF TypeOK, ConnectFails, Return, Suspended, Reports
  <1>4. CASE StopSucceeds(t)
    BY <1>4 DEF TypeOK, StopSucceeds, Return, Suspended, Reports
  <1>5. CASE StopFails(t)
    BY <1>5 DEF TypeOK, StopFails, Return, Suspended, Reports
  <1> QED BY <1>1, <1>2, <1>3, <1>4, <1>5

(* The loop stays inside its list. *)
LEMMA TypeNextOrg ==
    ASSUME TypeOK, NEW t \in Tasks, pc[t] \in {"build", "send"}, NextOrg(t),
           orgIds' = orgIds
    PROVE  /\ index' \in [Tasks -> Nat \ {0}]
           /\ pc' \in [Tasks -> Suspended \cup {"idle", "returned", "crashed"}]
           /\ payload' \in [Tasks -> Messages \cup {NoMessage}]
           /\ \A u \in Tasks :
                 /\ pc'[u] = "fetch" => index'[u] = 1
                 /\ pc'[u] \in {"connect", "build", "send"} => index'[u] \in DOMAIN orgIds[u]
                 /\ pc'[u] = "send" => payload'[u] \in Messages
  <1>1. /\ index[t] \in DOMAIN orgIds[t]
        /\ orgIds[t] \in Lists
        /\ index[t] \in Nat \ {0}
    BY DEF TypeOK
  <1>2. index[t] < Len(orgIds[t]) => index[t] + 1 \in DOMAIN orgIds[t]
    BY <1>1, ListType
  <1> QED BY <1>1, <1>2 DEF TypeOK, NextOrg, Suspended

LEMMA TypeOrgFails ==
    ASSUME TypeOK, NEW t \in Tasks, pc[t] \in {"build", "send"}, OrgFails(t)
    PROVE  failedOrgs' \in [Tasks -> Seq(Orgs)]
  <1>1. index[t] \in DOMAIN orgIds[t] /\ orgIds[t] \in Lists
    BY DEF TypeOK
  <1>2. orgIds[t][index[t]] \in Orgs
    BY <1>1, ListType
  <1> QED BY <1>2 DEF TypeOK, OrgFails

LEMMA NotificationType ==
    ASSUME TypeOK, NEW t \in Tasks, pc[t] = "build"
    PROVE  Notification(req[t], orgIds[t][index[t]]) \in Messages
  <1>1. /\ index[t] \in DOMAIN orgIds[t]
        /\ orgIds[t] \in Lists
        /\ req[t] \in Requests
    BY DEF TypeOK
  <1>2. orgIds[t][index[t]] \in Orgs
    BY <1>1, ListType
  <1> QED
    BY <1>1, <1>2
    DEF TypeOK, Notification, MakeNotificationUuid, Messages, Ids, Requests

LEMMA TypeLoop ==
    ASSUME TypeOK, NEW t \in Tasks,
           \/ BuildSucceeds(t) \/ BuildFails(t)
           \/ SendSucceeds(t) \/ SendFails(t)
    PROVE  TypeOK'
  <1>1. CASE BuildSucceeds(t)
    <2>1. minted' \in Nat
      BY <1>1 DEF TypeOK, BuildSucceeds
    <2>2. CASE req[t].dryRun
      <3>1. NextOrg(t) /\ orgIds' = orgIds /\ pc[t] \in {"build", "send"}
        BY <1>1, <2>2 DEF BuildSucceeds
      <3> QED BY <1>1, <2>1, <3>1, TypeNextOrg DEF TypeOK, BuildSucceeds
    <2>3. CASE ~req[t].dryRun
      <3>1. Notification(req[t], orgIds[t][index[t]]) \in Messages
        BY <1>1, NotificationType DEF BuildSucceeds
      <3>2. /\ payload' = [payload EXCEPT ![t] = Notification(req[t], orgIds[t][index[t]])]
            /\ pc' = [pc EXCEPT ![t] = "send"]
            /\ pc[t] = "build"
            /\ UNCHANGED <<day, topic, asked, req, orgIds, index, attempt, acked,
                           failedOrgs, report>>
        BY <1>1, <2>3 DEF BuildSucceeds
      <3> QED BY <2>1, <3>1, <3>2 DEF TypeOK, Suspended
    <2> QED BY <2>2, <2>3
  <1>2. CASE BuildFails(t)
    <2>1. NextOrg(t) /\ OrgFails(t) /\ orgIds' = orgIds /\ pc[t] \in {"build", "send"}
      BY <1>2 DEF BuildFails, OrgFails
    <2> QED BY <1>2, <2>1, TypeNextOrg, TypeOrgFails DEF TypeOK, BuildFails
  <1>3. CASE SendSucceeds(t)
    <2>1. /\ NextOrg(t) /\ orgIds' = orgIds /\ pc[t] \in {"build", "send"}
          /\ payload[t] \in Messages
      BY <1>3 DEF SendSucceeds, TypeOK
    <2>2. topic' \subseteq Messages /\ acked' \in [Tasks -> SUBSET Messages]
      BY <1>3, <2>1 DEF SendSucceeds, TypeOK
    <2> QED BY <1>3, <2>1, <2>2, TypeNextOrg DEF TypeOK, SendSucceeds
  <1>4. CASE SendFails(t)
    <2>1. /\ NextOrg(t) /\ OrgFails(t) /\ orgIds' = orgIds
          /\ pc[t] \in {"build", "send"} /\ payload[t] \in Messages
      BY <1>4 DEF SendFails, OrgFails, TypeOK
    <2>2. topic' \subseteq Messages
      BY <1>4, <2>1 DEF SendFails, TypeOK
    <2> QED BY <1>4, <2>1, <2>2, TypeNextOrg, TypeOrgFails DEF TypeOK, SendFails
  <1> QED BY <1>1, <1>2, <1>3, <1>4

LEMMA TypeCrash ==
    ASSUME TypeOK, NEW T \in SUBSET Tasks, Crash(T)
    PROVE  TypeOK'
  <1>1. \A t \in T : pc[t] = "send" => payload[t] \in Messages
    BY DEF TypeOK
  <1>2. topic' \subseteq Messages
    BY <1>1 DEF Crash, TypeOK
  <1> QED BY <1>2 DEF TypeOK, Crash, callVars

(* Every step is one of a coroutine, the start of one, a crash, or a new day. *)
LEMMA NextCases ==
    ASSUME [Next]_vars
    PROVE  \/ \E t \in Tasks : Step(t)
           \/ \E t \in Tasks, r \in Requests, l \in Lists : Enter(t, r, l)
           \/ \E T \in SUBSET Tasks : Crash(T)
           \/ Midnight \/ UNCHANGED vars
  <1> USE DEF Tasks
  <1>1. ASSUME NEW p \in JobPods, CronStart(p) \/ NextReport(p)
        PROVE  \E t \in Tasks, r \in Requests, l \in Lists : Enter(t, r, l)
    <2>1. JobRequest("lifecycle") \in Requests /\ JobRequest("roadmap") \in Requests
      BY DEF JobRequest, Requests, Kinds
    <2> QED BY <1>1, <2>1, EmptyList DEF CronStart, NextReport
  <1>2. ASSUME NEW t \in AdminRuns, TriggerCustom(t) \/ TriggerAll(t)
        PROVE  \E u \in Tasks, r \in Requests, l \in Lists : Enter(u, r, l)
    BY <1>2, EmptyList DEF TriggerCustom, TriggerAll, CustomLists
  <1>3. ASSUME CrashApi \/ \E p \in JobPods : CrashPod(p)
        PROVE  \E T \in SUBSET Tasks : Crash(T)
    BY <1>3 DEF CrashApi, CrashPod
  <1> QED BY <1>1, <1>2, <1>3 DEF Next

(* Every action keeps the types. *)
LEMMA TypeNext == TypeOK /\ [Next]_vars => TypeOK'
  <1> SUFFICES ASSUME TypeOK, [Next]_vars
               PROVE  TypeOK'
    OBVIOUS
  <1>1. ASSUME NEW t \in Tasks, Step(t)
        PROVE  TypeOK'
    BY <1>1, TypeFetch, TypeProducer, TypeLoop DEF Step
  <1>2. CASE Midnight
    BY <1>2, BoundsAssumption DEF Midnight, TypeOK, callVars, Days
  <1>3. CASE UNCHANGED vars
    BY <1>3 DEF vars, callVars, TypeOK
  <1> QED BY <1>1, <1>2, <1>3, NextCases, TypeEnter, TypeCrash

(* The type invariant. *)
THEOREM TypeCorrect == Spec => []TypeOK
  BY TypeInit, TypeNext, PTL DEF Spec

-----------------------------------------------------------------------------
(* The invariant behind the safety properties: what a run is about to send,
   whom the real runs ask for, and how far a run has come in its list. *)

PayloadInv ==
    \A t \in Tasks : pc[t] = "send" =>
        /\ ~req[t].dryRun
        /\ payload[t].kind = req[t].kind
        /\ payload[t].org = orgIds[t][index[t]]

AskedInv ==
    /\ \A m \in topic : <<m.kind, m.org>> \in asked
    /\ \A t \in Tasks : ~req[t].dryRun =>
          \A i \in DOMAIN orgIds[t] : <<req[t].kind, orgIds[t][i]>> \in asked

InLoop == {"connect", "build", "send"}

DoneUpTo(t) ==
    {i \in DOMAIN orgIds[t] : pc[t] \in InLoop => i < index[t]}

AccountedInv ==
    \A t \in Tasks :
        /\ acked[t] \subseteq topic
        /\ (/\ \/ pc[t] \in InLoop \cup {"stop"}
               \/ pc[t] = "returned" /\ report[t] = "finished"
            /\ ~req[t].dryRun)
           => \A i \in DoneUpTo(t) : Accounted(t, orgIds[t][i])

RunInv == TypeOK /\ PayloadInv /\ AskedInv /\ AccountedInv

LEMMA RunInit == Init => RunInv
  BY TypeInit
  DEF Init, RunInv, PayloadInv, AskedInv, AccountedInv, InLoop

(* Only a real run, and only BuildSucceeds, gets a task to the send. *)
LEMMA PayloadNext == RunInv /\ [Next]_vars => PayloadInv'
  <1> SUFFICES ASSUME TypeOK, PayloadInv, [Next]_vars
               PROVE  PayloadInv'
    BY DEF RunInv
  <1>1. ASSUME NEW t \in Tasks, FetchSucceeds(t)
        PROVE  PayloadInv'
    <2>1. /\ pc[t] = "fetch" /\ pc'[t] \in {"returned", "connect"}
          /\ \A u \in Tasks : u # t => pc'[u] = pc[u] /\ orgIds'[u] = orgIds[u]
          /\ UNCHANGED <<req, index, payload>>
      BY <1>1 DEF FetchSucceeds, Return, TypeOK
    <2> QED BY <2>1 DEF PayloadInv
  <1>2. ASSUME NEW t \in Tasks,
               \/ FetchRetries(t) \/ FetchFails(t) \/ ConnectSucceeds(t)
               \/ ConnectRetries(t) \/ ConnectFails(t)
               \/ StopSucceeds(t) \/ StopFails(t)
        PROVE  PayloadInv'
    <2>1. /\ UNCHANGED <<req, index, payload, orgIds>>
          /\ \A u \in Tasks : pc'[u] = "send" => pc[u] = "send"
      BY <1>2
      DEF FetchRetries, FetchFails, ConnectSucceeds, ConnectRetries, ConnectFails,
          StopSucceeds, StopFails, Return, TypeOK, callVars
    <2> QED BY <2>1 DEF PayloadInv
  <1>3. ASSUME NEW t \in Tasks, NextOrg(t), req' = req, orgIds' = orgIds
        PROVE  PayloadInv'
    <2>1. /\ pc'[t] \in {"build", "stop"}
          /\ \A u \in Tasks : u # t => /\ pc'[u] = pc[u] /\ index'[u] = index[u]
                                     /\ payload'[u] = payload[u]
      BY <1>3 DEF NextOrg, TypeOK
    <2> QED BY <1>3, <2>1 DEF PayloadInv
  <1>4. ASSUME NEW t \in Tasks, BuildSucceeds(t), ~req[t].dryRun
        PROVE  PayloadInv'
    <2>1. /\ payload' = [payload EXCEPT ![t] = Notification(req[t], orgIds[t][index[t]])]
          /\ \A u \in Tasks : u # t => pc'[u] = pc[u]
          /\ UNCHANGED <<req, orgIds, index>>
      BY <1>4 DEF BuildSucceeds, TypeOK
    <2>2. /\ payload'[t].kind = req[t].kind
          /\ payload'[t].org = orgIds[t][index[t]]
          /\ \A u \in Tasks : u # t => payload'[u] = payload[u]
      BY <2>1 DEF Notification, TypeOK
    <2> QED BY <1>4, <2>1, <2>2 DEF PayloadInv
  <1>5. ASSUME NEW t \in Tasks, Step(t)
        PROVE  PayloadInv'
    BY <1>1, <1>2, <1>3, <1>4, <1>5
    DEF Step, BuildSucceeds, BuildFails, SendSucceeds, SendFails, OrgFails
  <1>6. ASSUME NEW t \in Tasks, NEW r \in Requests, NEW l \in Lists, Enter(t, r, l)
        PROVE  PayloadInv'
    <2>1. /\ pc'[t] \in {"fetch", "connect"}
          /\ \A u \in Tasks : u # t => /\ pc'[u] = pc[u] /\ index'[u] = index[u]
                                     /\ payload'[u] = payload[u]
                                     /\ orgIds'[u] = orgIds[u] /\ req'[u] = req[u]
      BY <1>6 DEF Enter, TypeOK
    <2> QED BY <2>1 DEF PayloadInv
  <1>7. ASSUME NEW T \in SUBSET Tasks, Crash(T)
        PROVE  PayloadInv'
    <2>1. /\ UNCHANGED callVars
          /\ \A u \in Tasks : pc'[u] = "send" => pc[u] = "send"
      BY <1>7 DEF Crash
    <2> QED BY <2>1 DEF PayloadInv, callVars
  <1>8. CASE Midnight \/ UNCHANGED vars
    BY <1>8 DEF PayloadInv, Midnight, vars, callVars
  <1> QED BY <1>5, <1>6, <1>7, <1>8, NextCases

(* A message in the topic and a list in work stay covered by asked, which
   only grows. *)
LEMMA AskedNext == RunInv /\ [Next]_vars => AskedInv'
  <1> SUFFICES ASSUME TypeOK, PayloadInv, AskedInv, [Next]_vars
               PROVE  AskedInv'
    BY DEF RunInv
  <1>1. ASSUME NEW t \in Tasks, NEW l \in Lists,
               asked' = asked \cup AskedBy(req'[t], l),
               topic' = topic,
               orgIds'[t] = l,
               \A u \in Tasks : u # t => req'[u] = req[u] /\ orgIds'[u] = orgIds[u]
        PROVE  AskedInv'
    <2>1. ~req'[t].dryRun => \A i \in DOMAIN l : <<req'[t].kind, l[i]>> \in asked'
      BY <1>1 DEF AskedBy, Range
    <2> QED BY <1>1, <2>1 DEF AskedInv
  <1>2. ASSUME NEW t \in Tasks, FetchSucceeds(t)
        PROVE  AskedInv'
    <2>1. PICK l \in Lists : /\ orgIds' = [orgIds EXCEPT ![t] = l]
                             /\ asked' = asked \cup AskedBy(req[t], l)
                             /\ topic' = topic /\ req' = req
      BY <1>2 DEF FetchSucceeds
    <2> QED BY <1>1, <2>1 DEF TypeOK
  <1>3. ASSUME NEW t \in Tasks, NEW r \in Requests, NEW l \in Lists, Enter(t, r, l)
        PROVE  AskedInv'
    BY <1>1, <1>3 DEF Enter, TypeOK
  <1>4. ASSUME UNCHANGED <<asked, req, orgIds>>,
               \A m \in topic' : m \in topic \/ \E t \in Tasks : pc[t] = "send" /\ m = payload[t]
        PROVE  AskedInv'
    <2>1. ASSUME NEW t \in Tasks, pc[t] = "send"
          PROVE  <<payload[t].kind, payload[t].org>> \in asked
      BY <2>1 DEF TypeOK, PayloadInv, AskedInv
    <2> QED BY <1>4, <2>1 DEF AskedInv
  <1>5. ASSUME NEW t \in Tasks, Step(t), ~FetchSucceeds(t)
        PROVE  AskedInv'
    BY <1>4, <1>5
    DEF Step, FetchRetries, FetchFails, ConnectSucceeds, ConnectRetries,
        ConnectFails, BuildSucceeds, BuildFails, SendSucceeds, SendFails,
        StopSucceeds, StopFails, callVars
  <1>6. ASSUME NEW T \in SUBSET Tasks, Crash(T)
        PROVE  AskedInv'
    BY <1>4, <1>6 DEF Crash, callVars
  <1>7. CASE Midnight \/ UNCHANGED vars
    BY <1>7 DEF AskedInv, Midnight, vars, callVars
  <1> QED BY <1>2, <1>3, <1>5, <1>6, <1>7, NextCases

(* The body of the loop accounts for the current organization, and nothing
   takes back what is accounted for. *)
LEMMA AccountedNext == RunInv /\ [Next]_vars => AccountedInv'
  <1> SUFFICES ASSUME TypeOK, PayloadInv, AccountedInv, [Next]_vars
               PROVE  AccountedInv'
    BY DEF RunInv
  <1> DEFINE Covered(t) ==
        (/\ \/ pc[t] \in InLoop \cup {"stop"}
            \/ pc[t] = "returned" /\ report[t] = "finished"
         /\ ~req[t].dryRun)
        => \A i \in DoneUpTo(t) : Accounted(t, orgIds[t][i])
  <1> DEFINE SameRun(u) ==
        /\ pc'[u] = pc[u] /\ report'[u] = report[u] /\ acked'[u] = acked[u]
        /\ req'[u] = req[u] /\ orgIds'[u] = orgIds[u] /\ index'[u] = index[u]
        /\ failedOrgs'[u] = failedOrgs[u]
  <1>1. ASSUME NEW t \in Tasks, Covered(t)', acked'[t] \subseteq topic',
               topic \subseteq topic',
               \A u \in Tasks : u # t => SameRun(u)
        PROVE  AccountedInv'
    <2>1. ASSUME NEW u \in Tasks, u # t
          PROVE  acked'[u] \subseteq topic' /\ Covered(u)'
      BY <1>1, <2>1 DEF AccountedInv, Accounted, DoneUpTo
    <2> HIDE DEF Covered
    <2>2. \A u \in Tasks : acked'[u] \subseteq topic' /\ Covered(u)'
      BY <1>1, <2>1
    <2> QED BY <2>2 DEF AccountedInv, Covered
  <1>2. ASSUME NEW t \in Tasks, NEW r \in Requests, NEW l \in Lists, Enter(t, r, l)
        PROVE  AccountedInv'
    <2>1. /\ acked'[t] = {} /\ index'[t] = 1 /\ pc'[t] \in {"fetch", "connect"}
          /\ orgIds'[t] = l /\ topic' = topic
          /\ \A u \in Tasks : u # t => SameRun(u)
      BY <1>2 DEF Enter, TypeOK
    <2>2. \A i \in DOMAIN l : ~(i < 1)
      BY ListType
    <2>3. Covered(t)'
      BY <2>1, <2>2 DEF InLoop, DoneUpTo
    <2> QED BY <1>1, <2>1, <2>3
  <1>3. ASSUME NEW t \in Tasks, FetchSucceeds(t)
        PROVE  AccountedInv'
    <2>1. PICK l \in Lists :
            /\ orgIds' = [orgIds EXCEPT ![t] = l]
            /\ IF l = <<>>
               THEN Return(t, "no_subscribers")
               ELSE pc' = [pc EXCEPT ![t] = "connect"] /\ UNCHANGED report
            /\ UNCHANGED <<topic, req, index, acked, failedOrgs>>
      BY <1>3 DEF FetchSucceeds
    <2>2. \A u \in Tasks : u # t => SameRun(u)
      BY <2>1 DEF TypeOK, Return
    <2>3. \A i \in DOMAIN l : ~(i < index'[t])
      BY <1>3, <2>1, ListType DEF FetchSucceeds, TypeOK
    <2>4. pc'[t] = "connect" \/ (pc'[t] = "returned" /\ report'[t] = "no_subscribers")
      BY <2>1 DEF TypeOK, Return
    <2>5. ASSUME pc'[t] = "connect", NEW i \in DoneUpTo(t)'
          PROVE  FALSE
      <3>1. orgIds'[t] = l
        BY <2>1 DEF TypeOK
      <3>2. i \in DOMAIN l /\ i < index'[t]
        BY <2>5, <3>1 DEF DoneUpTo, InLoop
      <3> QED BY <2>3, <3>2
    <2>6. Covered(t)'
      BY <2>4, <2>5 DEF InLoop
    <2> QED BY <1>1, <2>1, <2>2, <2>6 DEF AccountedInv
  \* A step that leaves the list and the accounts of its run alone.
  <1>4. ASSUME NEW t \in Tasks,
               UNCHANGED <<topic, req, orgIds, index, acked, failedOrgs>>,
               \A u \in Tasks : u # t => pc'[u] = pc[u] /\ report'[u] = report[u],
               \/ pc[t] \in InLoop /\ pc'[t] \in InLoop
               \/ pc'[t] \notin InLoop \cup {"stop", "returned"}
               \/ pc'[t] = "returned" /\ report'[t] # "finished"
               \/ pc[t] = "stop" /\ pc'[t] = "returned"
        PROVE  AccountedInv'
    <2>1. Covered(t)'
      BY <1>4 DEF AccountedInv, InLoop, DoneUpTo, Accounted
    <2> QED BY <1>1, <1>4, <2>1 DEF AccountedInv
  <1>5. ASSUME NEW t \in Tasks,
               \/ FetchRetries(t) \/ FetchFails(t) \/ ConnectSucceeds(t)
               \/ ConnectRetries(t) \/ ConnectFails(t)
               \/ StopSucceeds(t) \/ StopFails(t)
        PROVE  AccountedInv'
    BY <1>4, <1>5
    DEF FetchRetries, FetchFails, ConnectSucceeds, ConnectRetries, ConnectFails,
        StopSucceeds, StopFails, Return, TypeOK, callVars, InLoop
  \* The loop leaves its position with the organization there accounted for.
  <1>6. ASSUME NEW t \in Tasks, NextOrg(t), pc[t] \in {"build", "send"},
               UNCHANGED <<req, orgIds, report>>,
               topic \subseteq topic', acked'[t] \subseteq topic',
               acked[t] \subseteq acked'[t],
               Range(failedOrgs[t]) \subseteq Range(failedOrgs'[t]),
               ~req[t].dryRun =>
                   \A o : o = orgIds[t][index[t]] => Accounted(t, o)',
               \A u \in Tasks : u # t => acked'[u] = acked[u] /\ failedOrgs'[u] = failedOrgs[u]
        PROVE  AccountedInv'
    <2>1. /\ index[t] \in 1..Len(orgIds[t]) /\ DOMAIN orgIds[t] = 1..Len(orgIds[t])
          /\ Len(orgIds[t]) \in Nat
      BY <1>6, ListType DEF TypeOK
    <2>2. /\ index'[t] = index[t] + 1
          /\ pc'[t] = IF index[t] < Len(orgIds[t]) THEN "build" ELSE "stop"
          /\ \A u \in Tasks : u # t => SameRun(u)
      BY <1>6 DEF NextOrg, TypeOK
    <2>3. \A i \in DoneUpTo(t)' : i \in DoneUpTo(t) \/ i = index[t]
      BY <1>6, <2>1, <2>2 DEF DoneUpTo, InLoop
    <2>4. ASSUME ~req[t].dryRun, NEW i \in DoneUpTo(t)'
          PROVE  Accounted(t, orgIds[t][i])'
      <3>1. CASE i = index[t]
        <4>1. \A o : o = orgIds[t][index[t]] => Accounted(t, o)'
          BY <1>6, <2>4
        <4> QED BY <1>6, <3>1, <4>1 DEF Accounted
      <3>2. CASE i \in DoneUpTo(t)
        <4>1. Accounted(t, orgIds[t][i])
          BY <1>6, <2>4, <3>2 DEF AccountedInv, InLoop
        <4> QED BY <1>6, <4>1 DEF Accounted
      <3> QED BY <2>3, <2>4, <3>1, <3>2
    <2>5. Covered(t)'
      BY <1>6, <2>4
    <2> QED BY <1>1, <1>6, <2>2, <2>5
  <1>7. ASSUME NEW t \in Tasks, NEW o, NEW s \in Seq(Orgs)
        PROVE  Range(s) \subseteq Range(Append(s, o)) /\ o \in Range(Append(s, o))
    <2>1. /\ DOMAIN Append(s, o) = 1..(Len(s) + 1)
          /\ \A i \in 1..Len(s) : Append(s, o)[i] = s[i]
          /\ Append(s, o)[Len(s) + 1] = o
          /\ Len(s) \in Nat /\ DOMAIN s = 1..Len(s)
      OBVIOUS
    <2> QED BY <2>1 DEF Range
  <1>8. ASSUME NEW t \in Tasks, OrgFails(t), pc[t] \in {"build", "send"},
               UNCHANGED <<req, orgIds, report, acked>>, topic \subseteq topic'
        PROVE  AccountedInv'
    <2>1. /\ NextOrg(t)
          /\ failedOrgs'[t] = Append(failedOrgs[t], orgIds[t][index[t]])
          /\ failedOrgs[t] \in Seq(Orgs)
          /\ \A u \in Tasks : u # t => failedOrgs'[u] = failedOrgs[u]
      BY <1>8 DEF OrgFails, TypeOK
    <2>2. /\ Range(failedOrgs[t]) \subseteq Range(failedOrgs'[t])
          /\ orgIds[t][index[t]] \in Range(failedOrgs'[t])
      BY <1>7, <2>1
    <2>3. \A o : o = orgIds[t][index[t]] => Accounted(t, o)'
      BY <2>2 DEF Accounted
    <2>4. acked'[t] \subseteq topic'
      BY <1>8 DEF AccountedInv
    <2> QED BY <1>6, <1>8, <2>1, <2>2, <2>3, <2>4
  <1>9. ASSUME NEW t \in Tasks,
               BuildSucceeds(t) \/ BuildFails(t) \/ SendSucceeds(t) \/ SendFails(t)
        PROVE  AccountedInv'
    <2>1. CASE BuildSucceeds(t) /\ req[t].dryRun
      BY <1>6, <2>1 DEF BuildSucceeds, AccountedInv
    <2>2. CASE BuildSucceeds(t) /\ ~req[t].dryRun
      BY <1>4, <2>2 DEF BuildSucceeds, TypeOK, InLoop
    <2>3. CASE BuildFails(t)
      BY <1>8, <2>3 DEF BuildFails
    <2>4. CASE SendFails(t)
      BY <1>8, <2>4 DEF SendFails
    <2>5. CASE SendSucceeds(t)
      <3>1. /\ payload[t].org = orgIds[t][index[t]] /\ payload[t].kind = req[t].kind
            /\ acked'[t] = acked[t] \cup {payload[t]}
            /\ topic' = topic \cup {payload[t]}
            /\ \A u \in Tasks : u # t => acked'[u] = acked[u]
        BY <2>5 DEF SendSucceeds, PayloadInv, TypeOK
      <3>2. \A o : o = orgIds[t][index[t]] => Accounted(t, o)'
        BY <2>5, <3>1 DEF SendSucceeds, Accounted
      <3>3. acked'[t] \subseteq topic'
        BY <3>1 DEF AccountedInv
      <3> QED BY <1>6, <2>5, <3>1, <3>2, <3>3 DEF SendSucceeds
    <2> QED BY <1>9, <2>1, <2>2, <2>3, <2>4, <2>5
  <1>10. ASSUME NEW T \in SUBSET Tasks, Crash(T)
         PROVE  AccountedInv'
    BY <1>10 DEF AccountedInv, Accounted, DoneUpTo, InLoop, Crash, callVars
  <1>11. CASE Midnight \/ UNCHANGED vars
    BY <1>11 DEF AccountedInv, Accounted, DoneUpTo, Midnight, vars, callVars
  <1> QED
    BY <1>2, <1>3, <1>5, <1>9, <1>10, <1>11, NextCases DEF Step

(* RunInv is inductive. *)
THEOREM RunCorrect == Spec => []RunInv
  <1>1. RunInv /\ [Next]_vars => RunInv'
    BY TypeNext, PayloadNext, AskedNext, AccountedNext DEF RunInv
  <1> QED BY RunInit, <1>1, PTL DEF Spec

(* A finished run has acknowledged or listed every organization: whatever the
   list, the failures, the crashes of others and the days it takes. *)
THEOREM FinishedRunCorrect == Spec => []FinishedRunAccountsForEveryOrg
  <1>1. RunInv => FinishedRunAccountsForEveryOrg
    BY DEF RunInv, AccountedInv, DoneUpTo, InLoop, FinishedRunAccountsForEveryOrg, Range
  <1> QED BY RunCorrect, <1>1, PTL

(* Nobody is notified whom no real run of that kind was to notify. *)
THEOREM OnlyAskedCorrect == Spec => []OnlyAskedOrgsAreNotified
  <1>1. RunInv => OnlyAskedOrgsAreNotified
    BY DEF RunInv, AskedInv, OnlyAskedOrgsAreNotified
  <1> QED BY RunCorrect, <1>1, PTL

(* A message is acknowledged only behind the connection and only to a real
   run, and a run that returned without "Finished" kept its accounts. *)
AllOrNothing(t) ==
    pc[t] = "returned" /\ report[t] = "not_notified" /\ acked[t] # {} =>
        \A o \in Range(orgIds[t]) : Accounted(t, o)

AckedInv ==
    \A t \in Tasks : /\ pc[t] \in {"fetch", "connect"} \/ req[t].dryRun => acked[t] = {}
                     /\ AllOrNothing(t)

LEMMA AckedInit == Init => AckedInv
  BY DEF Init, AckedInv, AllOrNothing

LEMMA AckedNext == RunInv /\ AckedInv /\ [Next]_vars => AckedInv'
  <1> SUFFICES ASSUME RunInv, AckedInv, [Next]_vars
               PROVE  AckedInv'
    OBVIOUS
  <1> USE DEF RunInv
  \* A step that does not return, and acknowledges nothing to a dry run.
  <1>1. ASSUME NEW t \in Tasks, pc'[t] # "returned" \/ report'[t] # "not_notified",
               pc'[t] \in {"fetch", "connect"} \/ req'[t].dryRun => acked'[t] = {},
               \A u \in Tasks : u # t => /\ pc'[u] = pc[u] /\ report'[u] = report[u]
                                        /\ req'[u] = req[u] /\ acked'[u] = acked[u]
                                        /\ orgIds'[u] = orgIds[u]
                                        /\ failedOrgs'[u] = failedOrgs[u]
        PROVE  AckedInv'
    BY <1>1 DEF AckedInv, AllOrNothing, Accounted
  <1>2. ASSUME NEW t \in Tasks, NEW r \in Requests, NEW l \in Lists, Enter(t, r, l)
        PROVE  AckedInv'
    BY <1>1, <1>2 DEF Enter, TypeOK
  <1>3. ASSUME NEW t \in Tasks, FetchSucceeds(t) \/ FetchRetries(t) \/ FetchFails(t)
        PROVE  AckedInv'
    <2>1. acked[t] = {} /\ acked' = acked
      BY <1>3 DEF FetchSucceeds, FetchRetries, FetchFails, AckedInv
    <2>2. CASE FetchSucceeds(t)
      BY <1>1, <2>1, <2>2 DEF FetchSucceeds, Return, TypeOK
    <2>3. CASE FetchRetries(t) \/ FetchFails(t)
      BY <1>1, <2>1, <2>3 DEF FetchRetries, FetchFails, Return, TypeOK
    <2> QED BY <1>3, <2>2, <2>3
  <1>4. ASSUME NEW t \in Tasks, ConnectSucceeds(t) \/ ConnectRetries(t) \/ StopSucceeds(t)
        PROVE  AckedInv'
    <2>1. /\ pc'[t] # "returned" \/ report'[t] # "not_notified"
          /\ UNCHANGED <<req, acked, orgIds, failedOrgs>>
          /\ pc'[t] = "connect" => pc[t] = "connect"
          /\ pc'[t] # "fetch"
          /\ \A u \in Tasks : u # t => pc'[u] = pc[u] /\ report'[u] = report[u]
      BY <1>4
      DEF ConnectSucceeds, ConnectRetries, StopSucceeds, Return, callVars, TypeOK
    <2> QED BY <1>1, <2>1 DEF AckedInv
  \* The two ways to the line: nothing sent, or the loop at its end.
  <1>5. ASSUME NEW t \in Tasks, ConnectFails(t) \/ StopFails(t)
        PROVE  AckedInv'
    <2>1. /\ pc[t] \in {"connect", "stop"} /\ pc' = [pc EXCEPT ![t] = "returned"]
          /\ report' = [report EXCEPT ![t] = "not_notified"]
          /\ UNCHANGED <<req, acked, orgIds, index, failedOrgs>>
      BY <1>5 DEF ConnectFails, StopFails, Return
    <2>2. ASSUME acked[t] # {}
          PROVE  \A o \in Range(orgIds[t]) : Accounted(t, o)
      <3>1. pc[t] = "stop" /\ ~req[t].dryRun
        BY <2>1, <2>2 DEF AckedInv
      <3>2. \A i \in DOMAIN orgIds[t] : Accounted(t, orgIds[t][i])
        BY <3>1 DEF AccountedInv, DoneUpTo, InLoop
      <3> QED BY <3>2 DEF Range
    <2>3. AllOrNothing(t)'
      <3>1. orgIds'[t] = orgIds[t] /\ acked'[t] = acked[t]
        BY <2>1
      <3>2. \A o : Accounted(t, o) => Accounted(t, o)'
        BY <2>1 DEF Accounted
      <3>3. acked'[t] # {} => \A o \in Range(orgIds'[t]) : Accounted(t, o)'
        BY <2>2, <3>1, <3>2
      <3> QED BY <3>3 DEF AllOrNothing
    <2>4. ASSUME NEW u \in Tasks, u # t
          PROVE  AllOrNothing(u)'
      <3>1. AllOrNothing(u)
        BY DEF AckedInv
      <3>2. /\ pc'[u] = pc[u] /\ report'[u] = report[u]
            /\ orgIds'[u] = orgIds[u] /\ acked'[u] = acked[u]
        BY <2>1, <2>4 DEF TypeOK
      <3>3. \A o : Accounted(u, o) => Accounted(u, o)'
        BY <2>1 DEF Accounted
      <3> QED BY <3>1, <3>2, <3>3 DEF AllOrNothing
    <2>5. \A u \in Tasks :
             pc'[u] \in {"fetch", "connect"} \/ req'[u].dryRun => acked'[u] = {}
      BY <2>1 DEF AckedInv, TypeOK
    <2> QED BY <2>3, <2>4, <2>5 DEF AckedInv
  <1>6. ASSUME NEW t \in Tasks, pc[t] \in {"build", "send"}, NextOrg(t), UNCHANGED <<req, orgIds>>,
               req[t].dryRun => acked'[t] = {},
               \A u \in Tasks : u # t => /\ report'[u] = report[u] /\ acked'[u] = acked[u]
                                        /\ failedOrgs'[u] = failedOrgs[u]
        PROVE  AckedInv'
    <2>1. /\ pc'[t] \in {"build", "stop"}
          /\ \A u \in Tasks : u # t => pc'[u] = pc[u]
      BY <1>6 DEF NextOrg, TypeOK
    <2> QED BY <1>1, <1>6, <2>1
  <1>7. ASSUME NEW t \in Tasks,
               BuildSucceeds(t) \/ BuildFails(t) \/ SendSucceeds(t) \/ SendFails(t)
        PROVE  AckedInv'
    <2>1. req[t].dryRun => acked[t] = {}
      BY DEF AckedInv
    <2>2. CASE BuildSucceeds(t) /\ req[t].dryRun
      BY <1>6, <2>1, <2>2 DEF BuildSucceeds
    <2>3. CASE BuildSucceeds(t) /\ ~req[t].dryRun
      <3>1. /\ pc'[t] = "send" /\ UNCHANGED <<report, req, acked, orgIds, failedOrgs>>
            /\ \A u \in Tasks : u # t => pc'[u] = pc[u]
        BY <2>3 DEF BuildSucceeds, TypeOK
      <3> QED BY <1>1, <2>3, <3>1
    <2>4. CASE BuildFails(t) \/ SendFails(t)
      <3>1. /\ pc[t] \in {"build", "send"} /\ NextOrg(t)
            /\ UNCHANGED <<req, orgIds, report, acked>>
            /\ \A u \in Tasks : u # t => failedOrgs'[u] = failedOrgs[u]
        BY <2>4 DEF BuildFails, SendFails, OrgFails, TypeOK
      <3> QED BY <1>6, <2>1, <3>1
    <2>5. CASE SendSucceeds(t)
      <3>1. ~req[t].dryRun
        BY <2>5 DEF SendSucceeds, PayloadInv
      <3>2. /\ pc[t] \in {"build", "send"} /\ NextOrg(t)
            /\ UNCHANGED <<req, orgIds, report, failedOrgs>>
            /\ \A u \in Tasks : u # t => acked'[u] = acked[u]
        BY <2>5 DEF SendSucceeds, TypeOK
      <3> QED BY <1>6, <3>1, <3>2
    <2> QED BY <1>7, <2>2, <2>3, <2>4, <2>5
  <1>8. ASSUME NEW T \in SUBSET Tasks, Crash(T)
        PROVE  AckedInv'
    BY <1>8 DEF Crash, callVars, AckedInv, AllOrNothing, Accounted
  <1>9. CASE Midnight \/ UNCHANGED vars
    BY <1>9 DEF Midnight, vars, callVars, AckedInv, AllOrNothing, Accounted
  <1> QED
    BY <1>2, <1>3, <1>4, <1>5, <1>7, <1>8, <1>9, NextCases DEF Step

(* A run that says that no organization was notified has notified none, or has
   dealt with all of them: what is left of that line when the stop fails. *)
THEOREM NotNotifiedCorrect == Spec => []NotNotifiedIsAllOrNothing
  <1>1. AckedInv => NotNotifiedIsAllOrNothing
    BY DEF AckedInv, AllOrNothing, NotNotifiedIsAllOrNothing
  <1>2. Spec => []AckedInv
    BY RunCorrect, AckedInit, AckedNext, PTL DEF Spec
  <1> QED BY <1>1, <1>2, PTL

-----------------------------------------------------------------------------
(* Every run is short.                                                     *)

(* The retry loops count up to their limits. *)
AttemptInv ==
    \A t \in Tasks : /\ pc[t] = "fetch" => attempt[t] <= MaxRequestRetries
                     /\ pc[t] = "connect" => attempt[t] <= MaxKafkaRetries

LEMMA ListLength ==
    ASSUME NEW l \in Lists
    PROVE  Len(l) \in 0..MaxListLen
  BY DEF Lists

LEMMA AttemptInit == Init => AttemptInv
  BY DEF Init, AttemptInv

LEMMA AttemptNext == TypeOK /\ AttemptInv /\ [Next]_vars => AttemptInv'
  <1> SUFFICES ASSUME TypeOK, AttemptInv, [Next]_vars
               PROVE  AttemptInv'
    OBVIOUS
  <1> USE BoundsAssumption
  <1>1. ASSUME NEW t \in Tasks, Step(t)
        PROVE  AttemptInv'
    <2>1. CASE FetchSucceeds(t)
      <3>1. /\ pc'[t] = "returned" \/ (pc'[t] = "connect" /\ attempt'[t] = 1)
            /\ \A u \in Tasks : u # t => pc'[u] = pc[u] /\ attempt'[u] = attempt[u]
        BY <2>1 DEF FetchSucceeds, Return, TypeOK
      <3> QED BY <3>1 DEF AttemptInv
    <2>2. CASE FetchRetries(t)
      BY <2>2 DEF FetchRetries, TypeOK, AttemptInv
    <2>5. CASE ConnectRetries(t)
      BY <2>5 DEF ConnectRetries, TypeOK, AttemptInv
    <2>3. CASE \/ FetchFails(t) \/ ConnectSucceeds(t) \/ ConnectFails(t)
               \/ StopSucceeds(t) \/ StopFails(t)
      BY <2>3
      DEF FetchFails, ConnectSucceeds, ConnectFails, StopSucceeds, StopFails, Return,
          callVars, TypeOK, AttemptInv
    <2>4. CASE BuildSucceeds(t) \/ BuildFails(t) \/ SendSucceeds(t) \/ SendFails(t)
      BY <2>4
      DEF BuildSucceeds, BuildFails, SendSucceeds, SendFails, OrgFails, NextOrg, TypeOK,
          AttemptInv
    <2> QED BY <1>1, <2>1, <2>2, <2>3, <2>4, <2>5 DEF Step
  <1>2. ASSUME NEW t \in Tasks, NEW r \in Requests, NEW l \in Lists, Enter(t, r, l)
        PROVE  AttemptInv'
    BY <1>2 DEF Enter, TypeOK, AttemptInv
  <1>3. ASSUME NEW T \in SUBSET Tasks, Crash(T)
        PROVE  AttemptInv'
    BY <1>3 DEF Crash, callVars, AttemptInv
  <1>4. CASE Midnight \/ UNCHANGED vars
    BY <1>4 DEF Midnight, vars, callVars, AttemptInv
  <1> QED BY <1>1, <1>2, <1>3, <1>4, NextCases

(* The bound of a run at each of its awaits is at least one. *)
LEMMA StepsLeftPositive ==
    ASSUME TypeOK, AttemptInv, NEW t \in Tasks
    PROVE  /\ StepsLeft(t) \in Nat
           /\ pc[t] \in Suspended => StepsLeft(t) >= 1
  <1>1. /\ Len(orgIds[t]) \in Nat /\ attempt[t] \in Nat /\ index[t] \in Nat
        /\ pc[t] \in {"build", "send"} => index[t] <= Len(orgIds[t])
    BY ListType DEF TypeOK
  <1>2. /\ pc[t] = "fetch" => attempt[t] <= MaxRequestRetries
        /\ pc[t] = "connect" => attempt[t] <= MaxKafkaRetries
    BY DEF AttemptInv
  <1> QED BY <1>1, <1>2, BoundsAssumption DEF StepsLeft, Suspended

(* A step of a run leaves it fewer. *)
LEMMA StepDescends ==
    ASSUME TypeOK, TypeOK', AttemptInv, AttemptInv', NEW t \in Tasks, Step(t)
    PROVE  StepsLeft(t)' \in 0..StepsLeft(t) - 1
  <1> USE BoundsAssumption
  <1>1. /\ Len(orgIds[t]) \in Nat /\ index[t] \in Nat \ {0} /\ attempt[t] \in Nat \ {0}
        /\ pc[t] \in {"build", "send"} => index[t] <= Len(orgIds[t])
        /\ pc[t] = "fetch" => attempt[t] <= MaxRequestRetries
        /\ pc[t] = "connect" => attempt[t] <= MaxKafkaRetries
    BY ListType DEF TypeOK, AttemptInv
  <1>2. StepsLeft(t)' \in Nat
    <2>1. /\ Len(orgIds'[t]) \in Nat /\ attempt'[t] \in Nat /\ index'[t] \in Nat
          /\ pc'[t] \in {"build", "send"} => index'[t] <= Len(orgIds'[t])
          /\ MaxListLen \in Nat /\ MaxKafkaRetries \in Nat /\ MaxRequestRetries \in Nat
      BY ListType DEF TypeOK
    <2>2. /\ pc'[t] = "fetch" => attempt'[t] <= MaxRequestRetries
          /\ pc'[t] = "connect" => attempt'[t] <= MaxKafkaRetries
      BY DEF AttemptInv
    <2>3. CASE pc'[t] = "fetch" \/ pc'[t] = "connect"
      BY <2>1, <2>2, <2>3 DEF StepsLeft
    <2>4. CASE pc'[t] = "build" \/ pc'[t] = "send"
      BY <2>1, <2>4 DEF StepsLeft
    <2>5. CASE pc'[t] \notin {"fetch", "connect", "build", "send"}
      BY <2>5 DEF StepsLeft
    <2> QED BY <2>3, <2>4, <2>5
  <1>3. SUFFICES StepsLeft(t)' < StepsLeft(t)
    BY <1>2, StepsLeftPositive
  <1>4. CASE FetchSucceeds(t)
    <2>1. PICK l \in Lists :
            /\ orgIds'[t] = l
            /\ pc'[t] = "returned" \/ (pc'[t] = "connect" /\ attempt'[t] = 1)
      BY <1>4 DEF FetchSucceeds, Return, TypeOK
    <2>2. Len(l) \in 0..MaxListLen
      BY ListLength
    <2> QED BY <1>1, <1>4, <2>1, <2>2 DEF FetchSucceeds, StepsLeft
  <1>5. CASE FetchRetries(t) \/ ConnectRetries(t)
    BY <1>1, <1>5 DEF FetchRetries, ConnectRetries, StepsLeft, TypeOK
  <1>6. CASE FetchFails(t) \/ ConnectFails(t) \/ StopSucceeds(t) \/ StopFails(t)
    <2>1. pc[t] \in Suspended /\ pc'[t] = "returned"
      BY <1>6 DEF FetchFails, ConnectFails, StopSucceeds, StopFails, Return, Suspended, TypeOK
    <2>2. StepsLeft(t)' = 0
      BY <2>1 DEF StepsLeft
    <2> QED BY <2>1, <2>2, StepsLeftPositive
  <1>7. CASE ConnectSucceeds(t)
    BY <1>1, <1>7 DEF ConnectSucceeds, callVars, StepsLeft, TypeOK
  <1>8. ASSUME NextOrg(t), pc[t] \in {"build", "send"}, orgIds' = orgIds
        PROVE  StepsLeft(t)' < StepsLeft(t)
    <2>1. /\ index'[t] = index[t] + 1 /\ orgIds'[t] = orgIds[t]
          /\ pc'[t] = IF index[t] < Len(orgIds[t]) THEN "build" ELSE "stop"
      BY <1>8 DEF NextOrg, TypeOK
    <2>2. StepsLeft(t) >= 2 * (Len(orgIds[t]) - index[t]) + 2
      BY <1>1, <1>8 DEF StepsLeft
    <2>3. CASE index[t] < Len(orgIds[t])
      <3>1. StepsLeft(t)' = 2 * (Len(orgIds[t]) - (index[t] + 1)) + 3
        BY <2>1, <2>3 DEF StepsLeft
      <3> QED BY <1>1, <2>2, <3>1, StepsLeftPositive
    <2>4. CASE ~(index[t] < Len(orgIds[t]))
      <3>1. StepsLeft(t)' = 1
        BY <2>1, <2>4 DEF StepsLeft
      <3> QED BY <1>1, <1>8, <2>2, <3>1, StepsLeftPositive
    <2> QED BY <2>3, <2>4
  <1>9. CASE BuildSucceeds(t) /\ ~req[t].dryRun
    BY <1>1, <1>9 DEF BuildSucceeds, StepsLeft, TypeOK
  <1>10. CASE \/ BuildSucceeds(t) /\ req[t].dryRun
              \/ BuildFails(t) \/ SendSucceeds(t) \/ SendFails(t)
    BY <1>8, <1>10 DEF BuildSucceeds, BuildFails, SendSucceeds, SendFails, OrgFails
  <1> QED BY <1>4, <1>5, <1>6, <1>7, <1>9, <1>10 DEF Step

(* What a step of another task, or of the environment, does to task t. *)
Untouched(t) == UNCHANGED <<pc[t], orgIds[t], index[t], attempt[t]>>

LEMMA OtherTasksUntouched ==
    ASSUME TypeOK, NEW t \in Tasks, NEW u \in Tasks, u # t,
           Step(u) \/ \E r \in Requests, l \in Lists : Enter(u, r, l)
    PROVE  Untouched(t)
  <1>1. CASE Step(u)
    BY <1>1
    DEF Step, FetchSucceeds, FetchRetries, FetchFails, ConnectSucceeds, ConnectRetries,
        ConnectFails, BuildSucceeds, BuildFails, SendSucceeds, SendFails, StopSucceeds,
        StopFails, OrgFails, NextOrg, Return, callVars, TypeOK, Untouched
  <1>2. CASE \E r \in Requests, l \in Lists : Enter(u, r, l)
    BY <1>2 DEF Enter, TypeOK, Untouched
  <1> QED BY <1>1, <1>2

(* Only a task that is not under way is started. *)
LEMMA StartsFromRest ==
    ASSUME [Next]_vars
    PROVE  \/ \E t \in Tasks : Step(t)
           \/ \E t \in Tasks, r \in Requests, l \in Lists :
                 pc[t] \notin Suspended /\ Enter(t, r, l)
           \/ \E T \in SUBSET Tasks : Crash(T)
           \/ Midnight \/ UNCHANGED vars
  <1> USE DEF Tasks, Suspended
  <1>1. ASSUME NEW p \in JobPods, CronStart(p) \/ NextReport(p)
        PROVE  \E t \in Tasks, r \in Requests, l \in Lists :
                  pc[t] \notin Suspended /\ Enter(t, r, l)
    <2>1. JobRequest("lifecycle") \in Requests /\ JobRequest("roadmap") \in Requests
      BY DEF JobRequest, Requests, Kinds
    <2>2. CASE CronStart(p)
      BY <2>1, <2>2, EmptyList DEF CronStart
    <2>3. CASE NextReport(p)
      BY <2>1, <2>3, EmptyList DEF NextReport
    <2> QED BY <1>1, <2>2, <2>3
  <1>2. ASSUME NEW t \in AdminRuns, TriggerCustom(t) \/ TriggerAll(t)
        PROVE  \E u \in Tasks, r \in Requests, l \in Lists :
                  pc[u] \notin Suspended /\ Enter(u, r, l)
    BY <1>2, EmptyList DEF TriggerCustom, TriggerAll, CustomLists
  <1>3. ASSUME CrashApi \/ \E p \in JobPods : CrashPod(p)
        PROVE  \E T \in SUBSET Tasks : Crash(T)
    BY <1>3 DEF CrashApi, CrashPod
  <1> QED BY <1>1, <1>2, <1>3 DEF Next

(* Each step of a run leaves it fewer steps, and nothing gives it more: what
   the termination of every run rests on, for any limits, lists and tasks. *)
THEOREM StepsRunOutCorrect == Spec => StepsRunOut
  <1> DEFINE OfTask(t) == pc[t] \in Suspended =>
                             StepsLeft(t)' \in 0..StepsLeft(t) - 1 \/ Untouched(t)
  <1>1. ASSUME TypeOK, TypeOK', AttemptInv, AttemptInv', [Next]_vars
        PROVE  \A t \in Tasks : OfTask(t)
    <2> TAKE t \in Tasks
    <2>1. ASSUME NEW u \in Tasks, Step(u)
          PROVE  OfTask(t)
      <3>1. CASE u = t
        <4>1. StepsLeft(t)' \in 0..StepsLeft(t) - 1
          BY <1>1, <2>1, <3>1, StepDescends
        <4> QED BY <4>1
      <3>2. CASE u # t
        <4>1. Untouched(t)
          BY <1>1, <2>1, <3>2, OtherTasksUntouched
        <4> QED BY <4>1
      <3> QED BY <3>1, <3>2
    <2>2. ASSUME NEW u \in Tasks, NEW r \in Requests, NEW l \in Lists,
                 pc[u] \notin Suspended, Enter(u, r, l)
          PROVE  OfTask(t)
      <3>1. CASE u # t
        <4>1. Untouched(t)
          BY <1>1, <2>2, <3>1, OtherTasksUntouched
        <4> QED BY <4>1
      <3> QED BY <2>2, <3>1
    <2>3. ASSUME NEW T \in SUBSET Tasks, Crash(T), pc[t] \in Suspended
          PROVE  StepsLeft(t)' \in 0..StepsLeft(t) - 1 \/ Untouched(t)
      <3>1. CASE t \in T
        <4>1. StepsLeft(t)' = 0
          BY <2>3, <3>1 DEF Crash, StepsLeft
        <4> QED BY <1>1, <2>3, <4>1, StepsLeftPositive
      <3>2. CASE t \notin T
        BY <2>3, <3>2 DEF Crash, callVars, Untouched
      <3> QED BY <3>1, <3>2
    <2>4. CASE Midnight \/ UNCHANGED vars
      BY <2>4 DEF Midnight, vars, callVars, Untouched
    <2> HIDE DEF OfTask
    <2>5. ASSUME NEW T \in SUBSET Tasks, Crash(T)
          PROVE  OfTask(t)
      BY <2>3, <2>5 DEF OfTask
    <2> QED BY <1>1, <2>1, <2>2, <2>4, <2>5, StartsFromRest
  <1>2. TypeOK /\ TypeOK' /\ AttemptInv /\ AttemptInv' /\ [Next]_vars
        => [\A t \in Tasks : pc[t] \in Suspended =>
              \/ StepsLeft(t)' \in 0..StepsLeft(t) - 1
              \/ UNCHANGED <<pc[t], orgIds[t], index[t], attempt[t]>>]_vars
    BY <1>1 DEF Untouched
  <1>3. Spec => []AttemptInv
    BY TypeCorrect, AttemptInit, AttemptNext, PTL DEF Spec
  <1> QED
    BY TypeCorrect, <1>2, <1>3, PTL DEF Spec, StepsRunOut
=============================================================================
