--------------------------- MODULE MonthlyReports ---------------------------
(***************************************************************************)
(* What the notification runs promise to the people who get the e-mail,    *)
(* whatever number of jobs, administrators, retries, crashes and repeated  *)
(* deliveries are behind it:                                               *)
(*   - an organization is mailed only a report that some run was to send it*)
(*   - it gets the regular report of one kind at most once per day         *)
(*     (_make_notification_uuid: "lets the notification backend deduplicate*)
(*     repeated deliveries for the same report");                          *)
(*   - only a forced e-mail comes on top of it.                            *)
(***************************************************************************)
EXTENDS Naturals

CONSTANTS Kinds, Orgs, Days

VARIABLES
    today,
    asked,      \* the <<kind, org>> that some run was to notify
    regular,    \* number of regular mails, by kind, organization and day
    forced      \* number of forced mails, likewise

reportVars == <<today, asked, regular, forced>>

Slots  == [kind : Kinds, org : Orgs, day : Days]
NoMail == [s \in Slots |-> 0]

Init ==
    /\ today = 0
    /\ asked = {}
    /\ regular = NoMail
    /\ forced = NoMail

NewDay ==
    /\ today' = today + 1
    /\ UNCHANGED <<asked, regular, forced>>

Ask ==
    /\ asked' \in SUBSET (Kinds \X Orgs)
    /\ asked \subseteq asked'
    /\ UNCHANGED <<today, regular, forced>>

Due(s) == <<s.kind, s.org>> \in asked /\ s.day <= today

MailRegular(s) ==
    /\ Due(s)
    /\ regular[s] = 0
    /\ regular' = [regular EXCEPT ![s] = 1]
    /\ UNCHANGED <<today, asked, forced>>

MailForced(s) ==
    /\ Due(s)
    /\ forced' = [forced EXCEPT ![s] = @ + 1]
    /\ UNCHANGED <<today, asked, regular>>

Next ==
    \/ NewDay
    \/ Ask
    \/ \E s \in Slots : MailRegular(s) \/ MailForced(s)

Spec == Init /\ [][Next]_reportVars
=============================================================================
