--------------------------- MODULE AppStreamStatus ---------------------------
(***************************************************************************)
(* The support status that a lifecycle notification counts.                *)
(*                                                                         *)
(* The catalogue of application streams is a set of objects of the process,*)
(* created at import.  An object's support_status is computed by its       *)
(* validators, so it is that of the last day on which the object was       *)
(* validated: at import, when an AppStreamKey is made around it, or when a *)
(* catalogue response carries it.  app_stream_from_package is memoised: a  *)
(* package found in the cache makes no new key and validates nothing.  The *)
(* notification loop counts the attribute (get_relevant_appstreams) and    *)
(* clears the cache after every organization (clear_caches).               *)
(*                                                                         *)
(* The same code runs in two kinds of process: the cron job, which runs    *)
(* nothing else, and the API, where the admin endpoints start runs while   *)
(* requests of users come in (apiProcess).                                 *)
(***************************************************************************)
EXTENDS Naturals, FiniteSets

CONSTANTS
    Packages,       \* (package, os_major) pairs that hosts report
    Streams,        \* the AppStreamEntity objects
    PackageStream,  \* the stream a package matches
    ModuleStreams,  \* streams that hosts report as dnf modules
    Rolling,        \* streams without an end date of their own
    StartDay, EndDay, \* start_date and end_date; of a rolling stream: of its OS
    NearDays,       \* the "30 * months" days before the end date
    CacheSize,      \* maxsize of the lru_cache
    Runs,           \* notification runs of this process
    JobRun,         \* the one that stands for the runs of the cron job
    LastDay

ASSUME CatalogueAssumption ==
    /\ PackageStream \in [Packages -> Streams]
    /\ ModuleStreams \subseteq Streams
    \* APP_STREAM_MODULES and APP_STREAM_PACKAGES share no object
    /\ \A p \in Packages : PackageStream[p] \notin ModuleStreams
    /\ Rolling \subseteq Streams
    /\ StartDay \in [Streams -> Nat]
    /\ EndDay \in [Streams -> Nat]
    /\ NearDays \in Nat
    /\ IsFiniteSet(Packages)

ASSUME ProcessAssumption ==
    /\ CacheSize \in Nat \ {0}
    /\ JobRun \in Runs
    /\ LastDay \in Nat

Statuses == {"upcoming", "retired", "near_retirement", "supported", "unknown"}
Days     == 0..LastDay

(* _calculate_support_status of stream s on day d; dated says whether the
   object has an end date. *)
SupportStatus(s, dated, d) ==
    CASE StartDay[s] > d -> "upcoming"
      [] StartDay[s] <= d /\ ~dated -> "unknown"
      [] StartDay[s] <= d /\ dated /\ EndDay[s] < d -> "retired"
      [] StartDay[s] <= d /\ dated /\ EndDay[s] >= d /\ EndDay[s] <= d + NearDays
            -> "near_retirement"
      [] OTHER -> "supported"

(* The status by the catalogue's own dates. *)
CatalogueStatus(s, d) == SupportStatus(s, s \notin Rolling, d)

(* What a validation on day d gives the object of s while the rolling streams
   in D, or fewer, have the end date of their OS. *)
AttributeStatuses(s, D, d) ==
    {CatalogueStatus(s, d), SupportStatus(s, s \notin Rolling \/ s \in D, d)}

VARIABLES
    apiProcess, \* the API process, or the cron job's
    day,        \* date.today()
    status,     \* support_status of each object
    osDated,    \* rolling objects that were given the end date of their OS
    cache,      \* keys in the cache of app_stream_from_package
    step,       \* where each run is in the processing of an organization
    since,      \* day on which that processing began
    found,      \* streams that systems_by_app_stream found
    counted,    \* the statuses read for the counts
    hostPackages,\* history: packages of the organization in work
    lastEnd,    \* history: day on which any run was last done with an organization
    endBefore   \* history: what that day was when run r matched its packages

orgVars == <<step, since, found, counted, hostPackages, endBefore>>
vars    == <<apiProcess, day, status, osDated, cache, orgVars, lastEnd>>

Unread == [s \in Streams |-> "unknown"]

Init ==
    /\ apiProcess \in BOOLEAN
    /\ day = 0
    /\ status = [s \in Streams |-> CatalogueStatus(s, 0)]
    /\ osDated = {}
    /\ cache = {}
    /\ step = [r \in Runs |-> "between"]
    /\ since = [r \in Runs |-> 0]
    /\ found = [r \in Runs |-> {}]
    /\ counted = [r \in Runs |-> Unread]
    /\ hostPackages = [r \in Runs |-> {}]
    /\ lastEnd = 0
    /\ endBefore = [r \in Runs |-> 0]

-----------------------------------------------------------------------------
(* The validators of the objects in V run today. *)
Validate(V, dated) ==
    status' = [s \in Streams |->
                  IF s \in V THEN SupportStatus(s, s \notin Rolling \/ s \in dated, day)
                  ELSE status[s]]

StreamsOf(P) == {PackageStream[p] : p \in P}

(* Mistake: a cache without a maximum. *)
FindStreamsUnbounded(P, V) ==
    /\ Validate(V \cup StreamsOf(P \ cache), osDated)
    /\ cache' = cache \cup P
    /\ UNCHANGED osDated

(* The package loop of systems_by_app_stream over packages P; it has no await.
   Each key is looked up once.  When the cache overflows, which keys are
   evicted, and so which are missed, depends on the order of the lookups.  V
   are further objects that the caller validates before its next await. *)
FindStreams(P, V) ==
    /\ UNCHANGED osDated
    /\ IF Cardinality(cache \cup P) <= CacheSize
       THEN /\ Validate(V \cup StreamsOf(P \ cache), osDated)
            /\ cache' = cache \cup P
       ELSE /\ \E missed \in SUBSET P :
                  /\ P \ cache \subseteq missed
                  /\ Validate(V \cup StreamsOf(missed), osDated)
            /\ cache' \in {C \in SUBSET (cache \cup P) : Cardinality(C) = CacheSize}

-----------------------------------------------------------------------------
(* One organization of a lifecycle notification run.                       *)

(* Notificator.get_relevant_appstreams opens its session. *)
StartOrg(r) ==
    /\ step[r] = "between"
    /\ step' = [step EXCEPT ![r] = "streaming"]
    /\ since' = [since EXCEPT ![r] = day]
    /\ found' = [found EXCEPT ![r] = {}]
    /\ UNCHANGED <<day, status, osDated, cache, counted, hostPackages, endBefore, lastEnd>>

(* Mistake: the cache of module keys is not a local variable, so modules that
   an earlier organization reported get no new key. *)
ReadHostsTrustingKeys(r) ==
    /\ step[r] = "streaming"
    /\ \E M, K \in SUBSET ModuleStreams :
          /\ K \subseteq M
          /\ Validate(K, osDated)
          /\ found' = [found EXCEPT ![r] = @ \cup M]
    /\ UNCHANGED <<day, osDated, cache, step, since, counted, hostPackages, endBefore, lastEnd>>

(* A batch of hosts is streamed.  Keys are made for the modules M, some of
   which turn out to have none of their packages installed. *)
ReadHosts(r) ==
    /\ step[r] = "streaming"
    /\ \E M, verified \in SUBSET ModuleStreams :
          /\ verified \subseteq M
          /\ Validate(M, osDated)
          /\ found' = [found EXCEPT ![r] = @ \cup verified]
    /\ UNCHANGED <<day, osDated, cache, step, since, counted, hostPackages, endBefore, lastEnd>>

(* All hosts have been streamed: they report packages P. *)
MatchStreams(r) ==
    /\ step[r] = "streaming"
    /\ \E P \in SUBSET Packages :
          /\ FindStreams(P, {})
          /\ found' = [found EXCEPT ![r] = @ \cup StreamsOf(P)]
          /\ hostPackages' = [hostPackages EXCEPT ![r] = P]
    /\ step' = [step EXCEPT ![r] = "matched"]
    /\ endBefore' = [endBefore EXCEPT ![r] = lastEnd]
    /\ UNCHANGED <<day, since, counted, lastEnd>>

(* The session is closed, with an await, before the statuses are read. *)
CountStreams(r) ==
    /\ step[r] = "matched"
    /\ counted' = [counted EXCEPT ![r] =
                     [s \in Streams |-> IF s \in found[r] THEN status[s] ELSE "unknown"]]
    /\ step' = [step EXCEPT ![r] = "counted"]
    /\ UNCHANGED <<day, status, osDated, cache, since, found, hostPackages, endBefore, lastEnd>>

(* Mistake: the caches are not cleared after an organization that failed. *)
FinishOrgKeepingCache(r) ==
    /\ step[r] # "between"
    /\ step' = [step EXCEPT ![r] = "between"]
    /\ cache' \in {{}, cache}
    /\ found' = [found EXCEPT ![r] = {}]
    /\ counted' = [counted EXCEPT ![r] = Unread]
    /\ hostPackages' = [hostPackages EXCEPT ![r] = {}]
    /\ endBefore' = [endBefore EXCEPT ![r] = 0]
    /\ lastEnd' = day
    /\ UNCHANGED <<day, status, osDated, since>>

(* The notification is sent, or anything failed before: in both cases the
   finally clause clears the caches. *)
FinishOrg(r) ==
    /\ step[r] # "between"
    /\ step' = [step EXCEPT ![r] = "between"]
    /\ cache' = {}
    /\ found' = [found EXCEPT ![r] = {}]
    /\ counted' = [counted EXCEPT ![r] = Unread]
    /\ hostPackages' = [hostPackages EXCEPT ![r] = {}]
    /\ endBefore' = [endBefore EXCEPT ![r] = 0]
    /\ lastEnd' = day
    /\ UNCHANGED <<day, status, osDated, since>>

(* A roadmap notification reads no statuses and clears the caches as well. *)
FinishRoadmapOrg(r) ==
    /\ step[r] = "between"
    /\ cache' = {}
    /\ lastEnd' = day
    /\ UNCHANGED <<day, status, osDated, orgVars>>

-----------------------------------------------------------------------------
(* Requests of users, in the API process only.                             *)

(* /relevant/lifecycle/app-streams of any organization streams hosts. *)
RequestReadsHosts ==
    /\ apiProcess
    /\ \E M \in SUBSET ModuleStreams : Validate(M, osDated)
    /\ UNCHANGED <<day, osDated, cache, orgVars, lastEnd>>

(* It looks up their packages, and makes keys for the related streams. *)
RelevantRequest ==
    /\ apiProcess
    /\ \E P \in SUBSET Packages, related \in SUBSET Streams : FindStreams(P, related)
    /\ UNCHANGED <<day, orgVars, lastEnd>>

(* The full catalogue gives the rolling streams it returns the end date of
   their OS, in place, and validates what it returns. *)
CatalogueRequest ==
    /\ apiProcess
    /\ \E V \in SUBSET Streams :
          /\ osDated' = osDated \cup (V \cap Rolling)
          /\ Validate(V, osDated')
    /\ UNCHANGED <<day, cache, orgVars, lastEnd>>

(* The other catalogue endpoints only validate what they return. *)
PartialCatalogueRequest ==
    /\ apiProcess
    /\ \E V \in SUBSET Streams : Validate(V, osDated)
    /\ UNCHANGED <<day, osDated, cache, orgVars, lastEnd>>

Midnight ==
    /\ day < LastDay
    /\ day' = day + 1
    /\ UNCHANGED <<status, osDated, cache, orgVars, lastEnd>>

(* main() of the job awaits one run after the other. *)
MayRun(r) == apiProcess \/ r = JobRun

Next ==
    /\ \/ \E r \in Runs : /\ MayRun(r)
                          /\ \/ StartOrg(r) \/ ReadHosts(r) \/ MatchStreams(r)
                             \/ CountStreams(r) \/ FinishOrg(r) \/ FinishRoadmapOrg(r)
       \/ RequestReadsHosts \/ RelevantRequest
       \/ CatalogueRequest \/ PartialCatalogueRequest
       \/ Midnight
    /\ UNCHANGED apiProcess

Spec == Init /\ [][Next]_vars

-----------------------------------------------------------------------------
(* Properties.                                                             *)

Steps == {"between", "streaming", "matched", "counted"}

(* The cache never holds more than its maximum and never a foreign key. *)
TypeOK ==
    /\ apiProcess \in BOOLEAN
    /\ day \in Days
    /\ status \in [Streams -> Statuses]
    /\ osDated \subseteq Rolling
    /\ cache \subseteq Packages
    /\ Cardinality(cache) <= CacheSize
    /\ step \in [Runs -> Steps]
    /\ since \in [Runs -> Days]
    /\ found \in [Runs -> SUBSET Streams]
    /\ counted \in [Runs -> [Streams -> Statuses]]
    /\ hostPackages \in [Runs -> SUBSET Packages]
    /\ lastEnd \in Days
    /\ endBefore \in [Runs -> Days]

(* The notification counts a stream of an organization under a status that
   the stream has, by the dates of the catalogue, on some day while the
   organization is processed: never under the status of an earlier day, on
   which another organization or a user's request happened to look at the
   same package. *)
CountedStatusIsCurrent ==
    \A r \in Runs : step[r] = "counted" =>
        \A s \in found[r] :
            \E d \in since[r]..day : counted[r][s] = CatalogueStatus(s, d)

(* It does so in the cron job. *)
JobStatusIsCurrent == ~apiProcess => CountedStatusIsCurrent

(* In the API process too, where the cache may know a package for days, a
   stream that hosts report as a module is counted under its status on a
   day of the processing: the key of a module is made anew for every
   organization.  A rolling stream is counted by the end date of its OS only
   once a catalogue response has given it that date, under the run's feet if
   the response comes while the organization is processed. *)
ModuleStatusIsCurrent ==
    \A r \in Runs : step[r] = "counted" =>
        \A s \in found[r] \cap ModuleStreams :
            \E d \in since[r]..day : counted[r][s] \in AttributeStatuses(s, osDated, d)

(* A stream that is found by a package may be counted under an old status in
   the API process, and this is how old: it is that of a day no earlier than
   the one on which any run, of either report, was last done with an
   organization before the packages were matched.  Clearing the caches bounds
   the age of what they vouch for, although users fill them in between, and
   although catalogue responses change the dates of rolling streams. *)
PackageStatusIsSinceLastEnd ==
    \A r \in Runs : step[r] = "counted" =>
        \A s \in found[r] \ ModuleStreams :
            \E d \in endBefore[r]..day : counted[r][s] \in AttributeStatuses(s, osDated, d)

(* cache.py: clear_caches "bounds memory to the size of the single largest
   org": in the cron job the cache holds packages of the organization in work
   only, and none between two organizations, also after one that failed. *)
CacheHoldsOneOrg == ~apiProcess => cache \subseteq hostPackages[JobRun]
=============================================================================
