----------------------------- MODULE Notificator -----------------------------
(***************************************************************************)
(* The monthly notification runs of Insights Planning.                     *)
(*                                                                         *)
(* A run is one execution of lifecycle_notification or roadmap_notification*)
(* (src/src/notificator/lifecycle.py, roadmap.py: the two coroutines have  *)
(* the same control and differ only in the report they build).  Runs are   *)
(* started by the cron job, whose main awaits one coroutine after the      *)
(* other, and by the admin endpoints of the API, each of which leaves a    *)
(* background task in the event loop.  Tasks interleave at their awaits:   *)
(* the request for the subscribed organizations, the connection to Kafka,  *)
(* the database queries behind a payload, the send and the stop.           *)
(***************************************************************************)
EXTENDS Naturals, Sequences, Functions

CONSTANTS
    Orgs,             \* organization ids
    JobPods,          \* pods of the cron job: firings, replacements, reruns
    AdminRuns,        \* background tasks accepted by the admin endpoints
    MaxRequestRetries,\* REQUEST_MAX_RETRIES
    MaxKafkaRetries,  \* KAFKA_MAX_RETRIES
    MaxListLen,       \* longest subscription list considered
    LastDay           \* the last calendar day considered

ASSUME OrgsAssumption   == Orgs \subseteq Nat \ {0}
ASSUME TasksAssumption  == JobPods \cap AdminRuns = {}
ASSUME BoundsAssumption == /\ MaxRequestRetries \in Nat \ {0}
                           /\ MaxKafkaRetries \in Nat \ {0}
                           /\ MaxListLen \in Nat \ {0}
                           /\ LastDay \in Nat

Tasks == JobPods \cup AdminRuns
Kinds == {"lifecycle", "roadmap"}
Days  == 0..LastDay

(* What the Notifications Gateway may answer: any list, with repetitions. *)
Lists == UNION {[1..n -> Orgs] : n \in 0..MaxListLen}

(* What trigger_custom passes on: sorted(set(org_ids)), never empty. *)
CustomLists ==
    {l \in Lists : /\ l # <<>>
                   /\ \A i, j \in DOMAIN l : i < j => l[i] < l[j]}

(* A notification id is a function of kind, organization and day (uuid5),
   unless nonce # 0: then it is a random uuid4, the nonce-th of all. *)
Ids      == [kind : Kinds, org : Orgs, day : Days, nonce : Nat]
Messages == [kind : Kinds, org : Orgs, day : Days, forced : BOOLEAN, id : Ids]
Requests == [kind : Kinds, dryRun : BOOLEAN, forceEmail : BOOLEAN]

NoMessage == [kind |-> "none"]

VARIABLES
    day,        \* the calendar day, UTC
    topic,      \* messages written to the notifications topic
    minted,     \* number of random ids drawn
    asked,      \* history: the <<kind, org>> that real runs were to notify
    pc,         \* where each task is: a state of the coroutine it runs
    req,        \* the keyword arguments of the call
    orgIds,     \* org_ids
    index,      \* position of the loop over org_ids
    attempt,    \* attempt of the retry loop the task is in
    payload,    \* payload of the current organization
    acked,      \* messages of this call the broker acknowledged
    failedOrgs, \* failed_orgs
    report      \* the last line the call logged

callVars == <<req, orgIds, index, attempt, payload, acked, failedOrgs, report>>
vars     == <<day, topic, minted, asked, pc, callVars>>

Suspended == {"fetch", "connect", "build", "send", "stop"}
Reports   == {"none", "no_org_ids", "no_subscribers", "not_notified", "finished"}

Init ==
    /\ day = 0
    /\ topic = {}
    /\ minted = 0
    /\ asked = {}
    /\ pc = [t \in Tasks |-> "idle"]
    /\ req = [t \in Tasks |-> [kind |-> "lifecycle", dryRun |-> FALSE, forceEmail |-> FALSE]]
    /\ orgIds = [t \in Tasks |-> <<>>]
    /\ index = [t \in Tasks |-> 1]
    /\ attempt = [t \in Tasks |-> 1]
    /\ payload = [t \in Tasks |-> NoMessage]
    /\ acked = [t \in Tasks |-> {}]
    /\ failedOrgs = [t \in Tasks |-> <<>>]
    /\ report = [t \in Tasks |-> "none"]

-----------------------------------------------------------------------------
(* Entering and leaving a *_notification coroutine.                        *)

(* The real runs of r were asked to notify the organizations of list l. *)
AskedBy(r, l) == IF r.dryRun THEN {} ELSE {<<r.kind, o>> : o \in Range(l)}

(* Task t enters the coroutine with arguments r.  An override list skips the
   request for the subscribers; an empty list is never passed. *)
Enter(t, r, override) ==
    /\ req' = [req EXCEPT ![t] = r]
    /\ orgIds' = [orgIds EXCEPT ![t] = override]
    /\ pc' = [pc EXCEPT ![t] = IF override = <<>> THEN "fetch" ELSE "connect"]
    /\ asked' = asked \cup AskedBy(r, override)
    /\ index' = [index EXCEPT ![t] = 1]
    /\ attempt' = [attempt EXCEPT ![t] = 1]
    /\ payload' = [payload EXCEPT ![t] = NoMessage]
    /\ acked' = [acked EXCEPT ![t] = {}]
    /\ failedOrgs' = [failedOrgs EXCEPT ![t] = <<>>]
    /\ report' = [report EXCEPT ![t] = "none"]
    /\ UNCHANGED <<day, topic, minted>>

Return(t, line) ==
    /\ pc' = [pc EXCEPT ![t] = "returned"]
    /\ report' = [report EXCEPT ![t] = line]

JobRequest(k) == [kind |-> k, dryRun |-> FALSE, forceEmail |-> FALSE]

(* The cron schedule, or the replacement of a lost pod, starts main(). *)
CronStart(p) ==
    /\ pc[p] = "idle"
    /\ Enter(p, JobRequest("lifecycle"), <<>>)

(* Mistake: main stops when the lifecycle run has not finished. *)
NextReportAfterSuccess(p) ==
    /\ pc[p] = "returned"
    /\ req[p].kind = "lifecycle"
    /\ report[p] = "finished"
    /\ Enter(p, JobRequest("roadmap"), <<>>)

(* main() goes on to the roadmap report however the lifecycle call ended:
   the coroutine swallows every exception. *)
NextReport(p) ==
    /\ pc[p] = "returned"
    /\ req[p].kind = "lifecycle"
    /\ Enter(p, JobRequest("roadmap"), <<>>)

TriggerCustom(t) ==
    /\ pc[t] = "idle"
    /\ \E r \in Requests, l \in CustomLists : Enter(t, r, l)

TriggerAll(t) ==
    /\ pc[t] = "idle"
    /\ \E r \in Requests : Enter(t, r, <<>>)

-----------------------------------------------------------------------------
(* get_org_ids: the request to the Notifications Gateway.                  *)

FetchSucceeds(t) ==
    /\ pc[t] = "fetch"
    /\ \E l \in Lists :
          /\ orgIds' = [orgIds EXCEPT ![t] = l]
          /\ asked' = asked \cup AskedBy(req[t], l)
          /\ IF l = <<>>
             THEN Return(t, "no_subscribers") /\ UNCHANGED attempt
             ELSE /\ pc' = [pc EXCEPT ![t] = "connect"]
                  /\ attempt' = [attempt EXCEPT ![t] = 1]
                  /\ UNCHANGED report
    /\ UNCHANGED <<day, topic, minted, req, index, payload, acked, failedOrgs>>

(* An HTTP status or transport error, and the loop has attempts left. *)
FetchRetries(t) ==
    /\ pc[t] = "fetch"
    /\ attempt[t] < MaxRequestRetries
    /\ attempt' = [attempt EXCEPT ![t] = @ + 1]
    /\ UNCHANGED <<day, topic, minted, asked, pc, req, orgIds, index, payload,
                   acked, failedOrgs, report>>

(* The last attempt fails, or any attempt fails with an error that is not
   retried: settings, certificates, a body that is not JSON or not ids. *)
FetchFails(t) ==
    /\ pc[t] = "fetch"
    /\ Return(t, "no_org_ids")
    /\ UNCHANGED <<day, topic, minted, asked, req, orgIds, index, attempt,
                   payload, acked, failedOrgs>>

-----------------------------------------------------------------------------
(* kafka_producer: connecting, and stopping on the way out.                *)

ConnectSucceeds(t) ==
    /\ pc[t] = "connect"
    /\ pc' = [pc EXCEPT ![t] = "build"]
    /\ UNCHANGED <<day, topic, minted, asked, callVars>>

(* Mistake: the attempts are counted anew, so they never run out. *)
ConnectRetriesForever(t) ==
    /\ pc[t] = "connect"
    /\ attempt' = [attempt EXCEPT ![t] = 1 + (@ % MaxKafkaRetries)]
    /\ UNCHANGED <<day, topic, minted, asked, pc, req, orgIds, index, payload,
                   acked, failedOrgs, report>>

ConnectRetries(t) ==
    /\ pc[t] = "connect"
    /\ attempt[t] < MaxKafkaRetries
    /\ attempt' = [attempt EXCEPT ![t] = @ + 1]
    /\ UNCHANGED <<day, topic, minted, asked, pc, req, orgIds, index, payload,
                   acked, failedOrgs, report>>

(* The last KafkaError, no brokers configured, or an error of another type. *)
ConnectFails(t) ==
    /\ pc[t] = "connect"
    /\ Return(t, "not_notified")
    /\ UNCHANGED <<day, topic, minted, asked, req, orgIds, index, attempt,
                   payload, acked, failedOrgs>>

StopSucceeds(t) ==
    /\ pc[t] = "stop"
    /\ Return(t, "finished")
    /\ UNCHANGED <<day, topic, minted, asked, req, orgIds, index, attempt,
                   payload, acked, failedOrgs>>

(* producer.stop() raises inside the async with: the handler meant for a
   producer that could not be set up also gets this error. *)
StopFails(t) ==
    /\ pc[t] = "stop"
    /\ Return(t, "not_notified")
    /\ UNCHANGED <<day, topic, minted, asked, req, orgIds, index, attempt,
                   payload, acked, failedOrgs>>

-----------------------------------------------------------------------------
(* The loop over org_ids.                                                  *)

(* Mistake: the loop runs past the end of the list. *)
NextOrgPastEnd(t) ==
    /\ index' = [index EXCEPT ![t] = @ + 1]
    /\ payload' = [payload EXCEPT ![t] = NoMessage]
    /\ pc' = [pc EXCEPT ![t] = IF index[t] <= Len(orgIds[t]) THEN "build" ELSE "stop"]

(* The loop goes to the next organization, or leaves the async with; the
   payload is not used again. *)
NextOrg(t) ==
    /\ index' = [index EXCEPT ![t] = @ + 1]
    /\ payload' = [payload EXCEPT ![t] = NoMessage]
    /\ pc' = [pc EXCEPT ![t] = IF index[t] < Len(orgIds[t]) THEN "build" ELSE "stop"]

(* Mistake: the failure is logged and not noted. *)
OrgFailsSilently(t) ==
    /\ UNCHANGED failedOrgs
    /\ NextOrg(t)

(* Mistake: the producer is set up again after a failure. *)
OrgFailsReconnecting(t) ==
    /\ failedOrgs' = [failedOrgs EXCEPT ![t] = Append(@, orgIds[t][index[t]])]
    /\ index' = [index EXCEPT ![t] = @ + 1]
    /\ payload' = [payload EXCEPT ![t] = NoMessage]
    /\ pc' = [pc EXCEPT ![t] = IF index[t] < Len(orgIds[t]) THEN "connect" ELSE "stop"]

(* except Exception: the organization is noted and the loop goes on. *)
OrgFails(t) ==
    /\ failedOrgs' = [failedOrgs EXCEPT ![t] = Append(@, orgIds[t][index[t]])]
    /\ NextOrg(t)

(* Mistakes: every id random, no id random, one id for both reports. *)
AlwaysRandomUuid(k, o, d, forced, random) ==
    [kind |-> k, org |-> o, day |-> d, nonce |-> random]

NeverRandomUuid(k, o, d, forced, random) ==
    [kind |-> k, org |-> o, day |-> d, nonce |-> 0]

UuidWithoutKind(k, o, d, forced, random) ==
    [kind |-> "lifecycle", org |-> o, day |-> d, nonce |-> IF forced THEN random ELSE 0]

MakeNotificationUuid(k, o, d, forced, random) ==
    [kind |-> k, org |-> o, day |-> d, nonce |-> IF forced THEN random ELSE 0]

(* Mistake: both runs build the lifecycle report. *)
LifecycleNotification(r, o) ==
    [kind |-> "lifecycle", org |-> o, day |-> day, forced |-> r.forceEmail,
     id |-> MakeNotificationUuid("lifecycle", o, day, r.forceEmail, minted + 1)]

(* The payload, built when the queries of the organization have returned: its
   day is the day of that moment. *)
Notification(r, o) ==
    [kind |-> r.kind, org |-> o, day |-> day, forced |-> r.forceEmail,
     id |-> MakeNotificationUuid(r.kind, o, day, r.forceEmail, minted + 1)]

(* The report of the current organization is ready: a dry run goes on to the
   next one, a real run hands the payload to the producer. *)
BuildSucceeds(t) ==
    /\ pc[t] = "build"
    /\ minted' = IF req[t].forceEmail THEN minted + 1 ELSE minted
    /\ IF req[t].dryRun
       THEN NextOrg(t)
       ELSE /\ payload' = [payload EXCEPT ![t] =
                              Notification(req[t], orgIds[t][index[t]])]
            /\ pc' = [pc EXCEPT ![t] = "send"]
            /\ UNCHANGED index
    /\ UNCHANGED <<day, topic, asked, req, orgIds, attempt, acked, failedOrgs, report>>

BuildFails(t) ==
    /\ pc[t] = "build"
    /\ OrgFails(t)
    /\ UNCHANGED <<day, topic, minted, asked, req, orgIds, attempt, acked, report>>

SendSucceeds(t) ==
    /\ pc[t] = "send"
    /\ topic' = topic \cup {payload[t]}
    /\ acked' = [acked EXCEPT ![t] = @ \cup {payload[t]}]
    /\ NextOrg(t)
    /\ UNCHANGED <<day, minted, asked, req, orgIds, attempt, failedOrgs, report>>

(* send_and_wait raises.  The message may be in the topic all the same: the
   acknowledgement was lost, not the message. *)
SendFails(t) ==
    /\ pc[t] = "send"
    /\ \E written \in SUBSET {payload[t]} : topic' = topic \cup written
    /\ OrgFails(t)
    /\ UNCHANGED <<day, minted, asked, req, orgIds, attempt, acked, report>>

-----------------------------------------------------------------------------
(* The environment.                                                        *)

(* The process of tasks T dies; what they were sending may have been written. *)
Crash(T) ==
    /\ pc' = [t \in Tasks |-> IF t \in T THEN "crashed" ELSE pc[t]]
    /\ \E written \in SUBSET {payload[t] : t \in {u \in T : pc[u] = "send"}} :
          topic' = topic \cup written
    /\ UNCHANGED <<day, minted, asked, callVars>>

CrashPod(p) ==
    /\ pc[p] \in Suspended
    /\ Crash({p})

(* An API process dies with some of the background tasks that still run. *)
CrashApi ==
    \E T \in SUBSET {t \in AdminRuns : pc[t] \in Suspended} :
        T # {} /\ Crash(T)

Midnight ==
    /\ day < LastDay
    /\ day' = day + 1
    /\ UNCHANGED <<topic, minted, asked, pc, callVars>>

-----------------------------------------------------------------------------
(* What the coroutine itself does once it runs. *)
Step(t) ==
    \/ FetchSucceeds(t) \/ FetchRetries(t) \/ FetchFails(t)
    \/ ConnectSucceeds(t) \/ ConnectRetries(t) \/ ConnectFails(t)
    \/ BuildSucceeds(t) \/ BuildFails(t)
    \/ SendSucceeds(t) \/ SendFails(t)
    \/ StopSucceeds(t) \/ StopFails(t)

Next ==
    \/ \E t \in Tasks : Step(t)
    \/ \E p \in JobPods : CronStart(p) \/ NextReport(p) \/ CrashPod(p)
    \/ \E t \in AdminRuns : TriggerCustom(t) \/ TriggerAll(t)
    \/ CrashApi
    \/ Midnight

Spec == Init /\ [][Next]_vars

(* Every await of a run has a time limit or an answer, so a started coroutine
   keeps taking steps, and main goes on from one to the other.  Nothing makes
   the cron job fire, an administrator trigger, a process crash or stay up. *)
Fairness ==
    /\ \A t \in Tasks : WF_vars(Step(t))
    /\ \A p \in JobPods : WF_vars(NextReport(p))

-----------------------------------------------------------------------------
(* Properties.                                                             *)

(* Every variable holds what the code keeps there: in particular the loop
   index stays inside the list while the loop runs, and a payload is in
   flight exactly while its task is suspended in the send. *)
TypeOK ==
    /\ day \in Days
    /\ topic \subseteq Messages
    /\ minted \in Nat
    /\ asked \subseteq Kinds \X Orgs
    /\ pc \in [Tasks -> Suspended \cup {"idle", "returned", "crashed"}]
    /\ req \in [Tasks -> Requests]
    /\ orgIds \in [Tasks -> Lists]
    /\ index \in [Tasks -> Nat \ {0}]
    /\ attempt \in [Tasks -> Nat \ {0}]
    /\ payload \in [Tasks -> Messages \cup {NoMessage}]
    /\ acked \in [Tasks -> SUBSET Messages]
    /\ failedOrgs \in [Tasks -> Seq(Orgs)]
    /\ report \in [Tasks -> Reports]
    /\ \A t \in Tasks :
          /\ pc[t] = "fetch" => index[t] = 1
          /\ pc[t] \in {"connect", "build", "send"} => index[t] \in DOMAIN orgIds[t]
          /\ pc[t] = "send" => payload[t] \in Messages

(* The run of task t has dealt with organization o: the broker acknowledged a
   message of the right kind, or the organization is in failed_orgs. *)
Accounted(t, o) ==
    \/ o \in Range(failedOrgs[t])
    \/ \E m \in acked[t] : m.org = o /\ m.kind = req[t].kind

(* A run that logs "Finished" has, for every organization it was to notify,
   either the broker's acknowledgement of a message of the right kind or an
   entry in failed_orgs, in whatever order builds and sends failed. *)
FinishedRunAccountsForEveryOrg ==
    \A t \in Tasks :
        pc[t] = "returned" /\ report[t] = "finished" /\ ~req[t].dryRun =>
            /\ acked[t] \subseteq topic
            /\ \A o \in Range(orgIds[t]) : Accounted(t, o)

(* Only organizations that a real run of that kind was to notify ever have a
   message in the topic: no dry run writes one, and no run writes one of the
   other report. *)
OnlyAskedOrgsAreNotified ==
    \A m \in topic : <<m.kind, m.org>> \in asked

(* The log line "no orgs were notified" of a run that could not set up its
   producer is true: none of its messages was acknowledged. *)
NotNotifiedMeansNothingSent ==
    \A t \in Tasks :
        pc[t] = "returned" /\ report[t] = "not_notified" => acked[t] = {}

(* The line "no orgs were notified" of a producer that could not be set up or
   stopped is all or nothing: either the broker acknowledged no message of the
   run, or the loop had come to its end, with every organization acknowledged
   or in failed_orgs.  It never hides a run that stopped half way. *)
NotNotifiedIsAllOrNothing ==
    \A t \in Tasks :
        pc[t] = "returned" /\ report[t] = "not_notified" /\ acked[t] # {} =>
            \A o \in Range(orgIds[t]) : Accounted(t, o)

(* The most steps that the coroutine of task t can still take: its attempts to
   come, two steps for every organization to come, one for the stop. *)
StepsLeft(t) ==
    LET toCome == Len(orgIds[t]) - index[t]
    IN  IF pc[t] = "fetch" THEN 2 * MaxListLen + MaxKafkaRetries + MaxRequestRetries
                                  + 2 - attempt[t]
        ELSE IF pc[t] = "connect" THEN 2 * Len(orgIds[t]) + MaxKafkaRetries + 2 - attempt[t]
        ELSE IF pc[t] = "build" THEN 2 * toCome + 3
        ELSE IF pc[t] = "send" THEN 2 * toCome + 2
        ELSE IF pc[t] = "stop" THEN 1
        ELSE 0

(* No run goes round in circles: whatever fails, each of its steps leaves fewer
   that can follow, and no step of another task or of the environment leaves
   it more.  With the retry limits and the list of a run given, its length has
   a bound. *)
StepsRunOut ==
    [][\A t \in Tasks : pc[t] \in Suspended =>
          \/ StepsLeft(t)' \in 0..StepsLeft(t) - 1
          \/ UNCHANGED <<pc[t], orgIds[t], index[t], attempt[t]>>]_vars

(* Every run that starts comes to an end, through all its retries and failing
   organizations, unless its process dies. *)
StartedRunReturns ==
    \A t \in Tasks : pc[t] \in Suspended ~> pc[t] \in {"returned", "crashed"}

(* A pod that starts also makes the roadmap run, however its lifecycle run
   went, unless it dies. *)
JobReachesRoadmapRun ==
    \A p \in JobPods :
        pc[p] # "idle" ~> (req[p].kind = "roadmap" \/ pc[p] = "crashed")
=============================================================================
