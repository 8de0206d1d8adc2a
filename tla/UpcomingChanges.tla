--------------------------- MODULE UpcomingChanges ---------------------------
(***************************************************************************)
(* Upcoming changes: the items of one file, matched with the hosts of an   *)
(* organization in four places.                                            *)
(*                                                                         *)
(*   GET  /relevant/upcoming-changes         rows for the whole inventory  *)
(*   POST /relevant/upcoming-changes/hosts   rows for a batch of hosts     *)
(*   GET  /v2/.../systems                    the hosts behind one item     *)
(*   the monthly roadmap notification        counts of deployed items      *)
(*                                                                         *)
(* The first three compare package sets host by host, the notification     *)
(* goes through a reverse index.  Every API process reads the file once,   *)
(* when it first needs it; an item without dateAdded gets the day of that  *)
(* reading.  A client that works in batches may get each of them from      *)
(* another process, and is told how to merge them by the docstring of      *)
(* get_relevant_upcoming_for_hosts.                                        *)
(***************************************************************************)
EXTENDS Integers, FiniteSets, Sequences

CONSTANTS
    Hosts,       \* the hosts of the organization that the caller may read
    Profiles,    \* what a host may report, see ProfilesAssumption
    File,        \* the items, in the order of the file
    Replicas,    \* processes of the API
    Month,       \* the calendar: the month of each day
    LastDay

NoMajor  == 0
NotRead  == -1
Undated  == -1      \* an item without dateAdded
NotDeployed == -1   \* an item without deployedDate

Items == DOMAIN File
Days  == 0..LastDay
Types == {"addition", "change", "deprecation", "enhancement"}

ASSUME FileAssumption ==
    /\ File \in Seq([name : STRING, release : STRING, type : Types, major : Nat \ {NoMajor},
                     packages : SUBSET STRING, deployed : Days \cup {NotDeployed},
                     added : Nat \cup {Undated}])
    \* no two items are alike but for what the response leaves out and the date added
    /\ \A i, j \in Items :
          /\ File[i].name = File[j].name
          /\ File[i].release = File[j].release
          /\ File[i].type = File[j].type
          /\ File[i].packages = File[j].packages
          /\ File[i].deployed = File[j].deployed
          => i = j

ASSUME ProfilesAssumption ==
    \A p \in Profiles : p.major \in Nat /\ p.packages \subseteq STRING

ASSUME CalendarAssumption ==
    /\ IsFiniteSet(Hosts)
    /\ LastDay \in Nat
    /\ Month \in [Days -> Nat]
    /\ \A d, e \in Days : d <= e => Month[d] <= Month[e]

VARIABLES
    profile,    \* the inventory: what each host reports
    day,        \* date.today()
    loaded,     \* day on which each replica read the file, or NotRead
    wantsAll,   \* the client's parameter "all"
    asked,      \* ids the client has asked for in batches
    fileDays,   \* history: reading days of the replicas that answered
    known,      \* rows the client has got
    affected,   \* and the hosts it has merged into each
    report      \* the last roadmap notification

clientVars == <<wantsAll, asked, fileDays, known, affected>>
vars       == <<profile, day, loaded, clientVars, report>>

NoReport == [counted |-> {}, payload |-> <<>>, day |-> NotRead, month |-> NotRead]

-----------------------------------------------------------------------------
(* Matching.                                                               *)

(* packages_by_system skips hosts without a version or without packages. *)
Usable(H) == {h \in H : profile[h].major # NoMajor /\ profile[h].packages # {}}

Majors(H) == {profile[h].major : h \in Usable(H)}

(* get_upcoming_data_with_hosts: the systems of an item. *)
Systems(H, i) ==
    {h \in Usable(H) : /\ profile[h].major = File[i].major
                       /\ File[i].packages \cap profile[h].packages # {}}

(* get_upcoming_relevant: its items. *)
Listed(H, all) ==
    {i \in Items : all \/ (File[i].major \in Majors(H) /\ Systems(H, i) # {})}

(* Mistake: "name and release are not enough to identify a record". *)
KeyOfNameAndRelease(i, readOn) ==
    [name |-> File[i].name, release |-> File[i].release]

(* What the client matches rows by; the item's major is not in the response. *)
RowKey(i, readOn) ==
    [name |-> File[i].name, release |-> File[i].release, type |-> File[i].type,
     packages |-> File[i].packages, deployed |-> File[i].deployed,
     added |-> IF File[i].added = Undated THEN readOn ELSE File[i].added]

(* Mistake: any release will do. *)
TargetByName(name, release) ==
    {i \in Items : File[i].name = name /\ \A j \in 1..i-1 : File[j].name # name}

(* get_upcoming_systems_v2: the first item with the name and release. *)
Target(name, release) ==
    {i \in Items : /\ File[i].name = name /\ File[i].release = release
                   /\ \A j \in 1..i-1 : File[j].name # name \/ File[j].release # release}

(* All pages of it. *)
Pages(name, release) == UNION {Systems(Hosts, i) : i \in Target(name, release)}

-----------------------------------------------------------------------------
(* The notification.                                                       *)

(* Mistake: the index has no major. *)
IndexWithoutMajor ==
    {e \in [major : Majors(Hosts), package : UNION {File[i].packages : i \in Items},
            item : Items] : e.package \in File[e.item].packages}

(* reverse_index of get_relevant_upcoming. *)
ReverseIndex ==
    UNION {{[major |-> File[i].major, package |-> q, item |-> i] : q \in File[i].packages} :
              i \in Items}

(* _stream_and_match_hosts: the items that one host matches. *)
MatchedItems(h) ==
    {e.item : e \in {x \in ReverseIndex : /\ x.major = profile[h].major
                                          /\ x.package \in profile[h].packages}}

AffectedCount(i) == Cardinality({h \in Usable(Hosts) : i \in MatchedItems(h)})

(* Mistake: from the first day of this month. *)
SinceThisMonth(deployed, d) == Month[deployed] >= Month[d]

(* _upcoming_cutoff_date: on or after the first day of the month before d's. *)
SinceCutoffDate(deployed, d) == Month[deployed] >= Month[d] - 1

(* An item that is not deployed counts as deployed today. *)
DeployedOn(i, d) == IF File[i].deployed = NotDeployed THEN d ELSE File[i].deployed

CountedItems(d) ==
    {i \in Items : /\ AffectedCount(i) # 0
                   /\ File[i].major \in Majors(Hosts)
                   /\ SinceCutoffDate(DeployedOn(i, d), d)
                   /\ DeployedOn(i, d) <= d}

OfType(I, t) == {i \in I : File[i].type = t}

(* Mistake: enhancements stay a type of their own. *)
UnfoldedPayload(I) == [t \in Types |-> Cardinality(OfType(I, t))]

(* Enhancements are counted as additions. *)
PayloadCounts(I) ==
    [t \in Types \ {"enhancement"} |->
        IF t = "addition"
        THEN Cardinality(OfType(I, "addition")) + Cardinality(OfType(I, "enhancement"))
        ELSE Cardinality(OfType(I, t))]

-----------------------------------------------------------------------------

Init ==
    /\ profile \in [Hosts -> Profiles]
    /\ day = 0
    /\ loaded = [r \in Replicas |-> NotRead]
    /\ wantsAll \in BOOLEAN
    /\ asked = {}
    /\ fileDays = {}
    /\ known = {}
    /\ affected = {}
    /\ report = NoReport

(* POST .../hosts for the ids B, answered by replica r. *)
PostBatch(r, B) ==
    LET readOn == IF loaded[r] = NotRead THEN day ELSE loaded[r]
    IN  /\ loaded' = [loaded EXCEPT ![r] = readOn]
        /\ asked' = asked \cup B
        /\ fileDays' = fileDays \cup {readOn}
        /\ known' = known \cup {RowKey(i, readOn) : i \in Listed(B, wantsAll)}
        /\ affected' = affected \cup
              UNION {{[row |-> RowKey(i, readOn), host |-> h] : h \in Systems(B, i)} :
                        i \in Listed(B, wantsAll)}
        /\ UNCHANGED <<profile, day, wantsAll, report>>

(* A replica is replaced; the new process has not read the file. *)
Restart(r) ==
    /\ loaded[r] # NotRead
    /\ loaded' = [loaded EXCEPT ![r] = NotRead]
    /\ UNCHANGED <<profile, day, clientVars, report>>

(* get_roadmap_notification: today is read for the counts, and again for the
   payload; nothing is awaited in between, so at most one midnight passes. *)
Notify(now) ==
    /\ now \in {day, day + 1} \cap Days
    /\ day' = now
    /\ report' = [counted |-> CountedItems(day), payload |-> PayloadCounts(CountedItems(day)),
                  day |-> day, month |-> Month[now] - 1]
    /\ UNCHANGED <<profile, loaded, clientVars>>

Midnight ==
    /\ day < LastDay
    /\ day' = day + 1
    /\ UNCHANGED <<profile, loaded, clientVars, report>>

Next ==
    \/ \E r \in Replicas, B \in SUBSET Hosts : PostBatch(r, B)
    \/ \E r \in Replicas : Restart(r)
    \/ \E now \in Days : Notify(now)
    \/ Midnight

Spec == Init /\ [][Next]_vars

-----------------------------------------------------------------------------
(* Properties.                                                             *)

Payloads == [Types \ {"enhancement"} -> Nat]

(* Replicas, client and report hold days, items and hosts that exist. *)
TypeOK ==
    /\ profile \in [Hosts -> Profiles]
    /\ day \in Days
    /\ loaded \in [Replicas -> Days \cup {NotRead}]
    /\ wantsAll \in BOOLEAN
    /\ asked \subseteq Hosts
    /\ fileDays \subseteq Days
    /\ \A a \in affected : a.row \in known /\ a.host \in asked
    /\ report # NoReport => /\ report.counted \subseteq Items
                            /\ report.payload \in Payloads
                            /\ report.day \in Days

(* Rows stay apart when each item is dated by the file, or when every replica
   that answered has read it on one day. *)
DatesAgree ==
    \/ \A i \in Items : File[i].added # Undated
    \/ \A d, e \in fileDays : d = e

RowsOf(i) == {k \in known : \E d \in fileDays : k = RowKey(i, d)}

(* get_relevant_upcoming_for_hosts: "To match one request for all accessible
   hosts when processing batches, merge rows that are the same roadmap record,
   union the affected systems, and count each host once."  Once the batches
   cover the hosts there is one row for each item that the whole request would
   list, with its hosts, as long as the replicas give items one date. *)
BatchesMatchWhole ==
    asked = Hosts /\ DatesAgree =>
        \A i \in Items :
            /\ RowsOf(i) # {} => i \in Listed(Hosts, wantsAll)
            /\ i \in Listed(Hosts, wantsAll) /\ fileDays # {} => Cardinality(RowsOf(i)) = 1
            /\ \A k \in RowsOf(i) :
                  {a.host : a \in {x \in affected : x.row = k}} = Systems(Hosts, i)

(* Dates apart, the merge is exact: of each host it has asked for the client
   knows the items that affect it, as BatchedRows promises, on whatever days
   the processes that answered have read the file. *)
Promise == INSTANCE BatchedRows WITH
    gives  <- [h \in Hosts |-> {i \in Items : h \in Systems(Hosts, i)}],
    listed <- {x \in Items \X Hosts :
                  \E d \in fileDays : [row |-> RowKey(x[1], d), host |-> x[2]] \in affected}

BatchesKeepThePromise == Promise!Spec

UniqueName(i) ==
    \A j \in Items : File[j].name = File[i].name /\ File[j].release = File[i].release => i = j

(* get_upcoming_systems_v2 asked for an item that is alone with its name and
   release lists the hosts of the item's row. *)
PagesMatchRows ==
    \A i \in Items : UniqueName(i) =>
        Pages(File[i].name, File[i].release) = Systems(Hosts, i)

(* _build_roadmap_notification_payload names the month before the day on which
   it runs, the counts have a window of their own.  Whatever midnight comes in
   between, an item that affects a host and was deployed in the named month is
   in the report, and is counted under some type. *)
NamedMonthIsCovered ==
    report # NoReport =>
        \A i \in Items :
            /\ Systems(Hosts, i) # {}
            /\ File[i].deployed # NotDeployed
            /\ Month[File[i].deployed] = report.month
            => i \in report.counted

(* "The reporting window spans from the 1st of the previous month to today".
   The report counts rows of GET /relevant/upcoming-changes only, none that was
   deployed before the month it names unless it was built across the end of a
   month, and every one it counts is in the sum of the payload. *)
ReportCountsRows ==
    report # NoReport =>
        /\ report.counted \subseteq Listed(Hosts, FALSE)
        /\ report.month = Month[report.day] - 1 =>
              \A i \in report.counted :
                  File[i].deployed # NotDeployed => Month[File[i].deployed] >= report.month
        /\ report.payload["addition"] + report.payload["change"] + report.payload["deprecation"]
              = Cardinality(report.counted)
=============================================================================
