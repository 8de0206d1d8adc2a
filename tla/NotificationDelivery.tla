------------------------ MODULE NotificationDelivery ------------------------
(***************************************************************************)
(* The notification runs of Notificator together with the consumer of      *)
(* their topic.  The consumer is the notification backend of another       *)
(* project: it reads every message of the topic at least once, in any      *)
(* order, any time later, and mails a message unless it has met its id     *)
(* before.  That is how the code in src/ uses it (_make_notification_uuid, *)
(* the force_email field of the admin API); the rest is external.          *)
(***************************************************************************)
EXTENDS Notificator, FiniteSets

(* The mails of one kind to one organization on one day. *)
Slots     == [kind : Kinds, org : Orgs, day : Days]
SlotOf(m) == [kind |-> m.kind, org |-> m.org, day |-> m.day]

VARIABLES
    seen,         \* notification ids the backend has met
    regularMails, \* number of regular mails sent, by slot
    forcedMails   \* forced messages that were mailed

backendVars  == <<seen, regularMails, forcedMails>>
deliveryVars == <<vars, backendVars>>

DeliveryInit ==
    /\ Init
    /\ seen = {}
    /\ regularMails = [s \in Slots |-> 0]
    /\ forcedMails = {}

(* The backend reads message m for the first time.  Reading a message with an
   id it has met, this one again or another, changes nothing. *)
Deliver(m) ==
    /\ m \in topic
    /\ m.id \notin seen
    /\ seen' = seen \cup {m.id}
    /\ IF m.forced
       THEN forcedMails' = forcedMails \cup {m} /\ UNCHANGED regularMails
       ELSE /\ regularMails' = [regularMails EXCEPT ![SlotOf(m)] = @ + 1]
            /\ UNCHANGED forcedMails
    /\ UNCHANGED vars

DeliveryNext ==
    \/ Next /\ UNCHANGED backendVars
    \/ \E m \in topic : Deliver(m)

DeliverySpec == DeliveryInit /\ [][DeliveryNext]_deliveryVars

(* The runs go on as in Notificator and the backend keeps reading the topic. *)
DeliveryFairSpec ==
    /\ DeliverySpec
    /\ Fairness
    /\ WF_deliveryVars(\E m \in topic : Deliver(m))

-----------------------------------------------------------------------------
(* Properties.                                                             *)

(* The backend's state has its type. *)
DeliveryTypeOK ==
    /\ TypeOK
    /\ seen \subseteq Ids
    /\ regularMails \in [Slots -> Nat]
    /\ forcedMails \subseteq Messages

(* However many pods, administrators and retried sends report to an
   organization on one day, it gets one regular mail of each kind: two
   payloads of the same kind, organization and day have the same id. *)
OneRegularMailPerDay ==
    \A s \in Slots : regularMails[s] <= 1

(* force_email "so each trigger delivers a fresh email": a forced message is
   never taken for one the backend has met, neither for the regular report of
   the same day nor for an earlier forced one. *)
ForcedMailIsNotSuppressed ==
    \A m \in topic : m.forced /\ m.id \in seen => m \in forcedMails

(* A regular report that reached the topic is mailed in the end, by itself or
   by an equal report of the same kind and day: no other message of the
   organization makes the backend drop it. *)
WrittenReportIsMailed ==
    \A s \in Slots :
        (\E m \in topic : SlotOf(m) = s /\ ~m.forced) ~> (regularMails[s] > 0)

(* All of it keeps the promise of MonthlyReports. *)
ForcedCount ==
    [s \in Slots |-> Cardinality({m \in forcedMails : SlotOf(m) = s})]

Promise == INSTANCE MonthlyReports WITH
    today <- day, regular <- regularMails, forced <- ForcedCount

KeepsThePromise == Promise!Spec
=============================================================================
