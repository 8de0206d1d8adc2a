-------------------------- MODULE RelevantAppStreams --------------------------
(***************************************************************************)
(* The application streams of an organization's hosts.                     *)
(*                                                                         *)
(* systems_by_app_stream reads the hosts of a request one after the other, *)
(* in the order in which the database gives them, and finds the catalogue  *)
(* entities that their dnf modules and packages match.  Entities with the  *)
(* same names and RHEL version are one stream: their AppStreamKeys are     *)
(* equal, so the first one that is met stays the key of the result, and    *)
(* its version and dates become those of the row, although others of the   *)
(* stream may have different ones (as gcc-toolset-16 has from              *)
(* gcc-toolset-16-binutils in the catalogue that is shipped).              *)
(*                                                                         *)
(* Four callers share the result: the list of rows, the list for a batch   *)
(* of hosts, the systems behind a name, and the notification.  A client    *)
(* that works in batches is told how to merge them by the docstring of     *)
(* get_relevant_app_streams_for_hosts.                                     *)
(***************************************************************************)
EXTENDS Integers, FiniteSets

CONSTANTS
    Hosts,      \* the hosts of the organization that the caller may read
    Profiles,   \* what a host may report, see ProfilesAssumption
    Entities,   \* AppStreamEntity objects of the catalogue
    Modules,    \* those from APP_STREAM_MODULES, the others are packages
    Streams,    \* classes of equal keys
    StreamOf,   \* the stream of an entity
    \* of a stream, by what makes its keys equal:
    Major, Minor, Product, ListName, Depth, Rolling,
    \* of an entity:
    ShortName, Version, Worded, TextRank, StartDay, EndDay,
    ModuleLists, \* MODULE_PACKAGES: the packages of each module
    NearDays,   \* the "30 * months" days before the end date
    Today       \* date.today(): requests of a client are answered on one day

NoMajor  == 0
NoMinor  == -1
NoEntity == "no entity"
Omitted  == -2          \* os_minor left out of a request

\* Major, minor and micro of a stream, 0 for those that it leaves out.
Versions == Nat \X Nat \X Nat
\* The two of a package that are compared with them.
PackageVersions == Nat \X Nat

ASSUME EntitiesAssumption ==
    /\ Modules \subseteq Entities
    /\ NoEntity \notin Entities
    /\ StreamOf \in [Entities -> Streams]
    \* names and versions keep modules and packages apart, and modules from each other
    /\ \A m \in Modules, e \in Entities : StreamOf[m] = StreamOf[e] => m = e
    /\ Version \in [Entities -> Versions]
    \* streams like "2.x", whose parts int() does not accept: in their Version a
    \* number stands for the text of a part
    /\ Worded \subseteq Entities
    \* the place of a stream's text in the order of strings
    /\ TextRank \in [Entities -> Nat]
    /\ StartDay \in [Entities -> Nat]
    /\ EndDay \in [Entities -> Nat]
    \* a module that the catalogue does not know may have a list, too
    /\ \A l \in ModuleLists : l.entity \in Modules \cup {NoEntity}

ASSUME StreamsAssumption ==
    /\ Major \in [Streams -> Nat \ {NoMajor}]
    /\ Minor \in [Streams -> Nat \cup {NoMinor}]
    /\ Depth \in [Streams -> {1, 2}]
    /\ Rolling \subseteq Streams
    /\ NearDays \in Nat
    /\ Today \in Nat
    /\ IsFiniteSet(Hosts)

ASSUME ProfilesAssumption ==
    \A p \in Profiles :
        /\ p.major \in Nat
        /\ \A m \in p.modules : m.entity \in Modules
        /\ \A q \in p.packages : q.version \in PackageVersions

VARIABLES
    profile,     \* the inventory: what each host reports
    serving,     \* a request is in work
    batch,       \* its hosts
    unread,      \* those not yet streamed
    moduleCache, \* module_cache: modules that were looked up
    key,         \* systems_by_stream: the key of each stream, or NoEntity
    systems,     \* and its systems
    asked,       \* ids the client has asked for in batches
    merged,      \* its rows: which hosts are listed for which stream
    related      \* its related streams

requestVars == <<serving, batch, unread, moduleCache, key, systems>>
clientVars  == <<asked, merged, related>>
vars        == <<profile, requestVars, clientVars>>

MajorOf(e) == Major[StreamOf[e]]

-----------------------------------------------------------------------------
(* What a host matches.                                                    *)

(* A module in use, by the status that dnf reports; RHEL 9 and later may
   report none. *)
InUse(major, m) ==
    /\ MajorOf(m.entity) = major
    /\ \/ m.status \cap {"enabled", "installed"} # {}
       \/ major > 8 /\ m.status = {}

(* Modules taken by their status alone. *)
TakenModules(p) ==
    {m.entity : m \in {n \in p.modules : InUse(p.major, n) /\ "enabled" \notin n.status}}

(* Mistake: the cache is asked before the status. *)
CachedFirst(p, cache) ==
    TakenModules(p) \cup {m.entity : m \in {n \in p.modules : n.entity \in cache}}

(* app_streams_from_modules with its cache. *)
AppStreamsFromModules(p, cache) ==
    (TakenModules(p) \cap cache) \cup (TakenModules(p) \ cache)

(* Enabled modules wait for their packages; without a list they are skipped. *)
PendingLists(p) ==
    {l \in ModuleLists : \E m \in p.modules : /\ m.entity = l.entity
                                              /\ InUse(p.major, m)
                                              /\ "enabled" \in m.status}

(* Mistake: any package of a list verifies its module. *)
NoSharedNames(major) == {}

(* _shared_package_names: names in the lists of two modules of one major. *)
SharedNames(major) ==
    {n \in UNION {l.names : l \in ModuleLists} :
        \E l, k \in ModuleLists : /\ l.major = major /\ k.major = major
                                  /\ l.module # k.module
                                  /\ n \in l.names \cap k.names}

(* _verify_pending_modules: a package of the list must be there, and one that
   no other module has, or the package named like the module. *)
Verified(l, names) ==
    /\ l.names \cap names # {}
    /\ \/ (l.names \cap names) \ SharedNames(l.major) # {}
       \/ l.module \in names

VerifiedModules(p) ==
    {l.entity : l \in {k \in PendingLists(p) : Verified(k, {q.name : q \in p.packages})}}

(* app_stream_from_package, as deep as the name of the stream says. *)
VersionMatches(e, version) ==
    /\ Version[e][1] = version[1]
    /\ Depth[StreamOf[e]] = 1 \/ Version[e][2] = version[2]

PackageEntities(p) ==
    {e \in Entities \ Modules :
        /\ MajorOf(e) = p.major
        /\ \E q \in p.packages : q.name = ShortName[e] /\ VersionMatches(e, q.version)}

(* All keys that one host gives; without a RHEL version it is skipped. *)
KeysOf(p, cache) ==
    IF p.major = NoMajor THEN {}
    ELSE AppStreamsFromModules(p, cache) \cup VerifiedModules(p) \cup PackageEntities(p)

StreamsOf(K) == {StreamOf[e] : e \in K}

-----------------------------------------------------------------------------
(* What the callers make of the result.                                    *)

Found     == {s \in Streams : key[s] # NoEntity}
FoundKeys == {key[s] : s \in Found}

(* Mistake: rolling streams are not omitted. *)
RowsWithRolling == Found

(* build_relevant_app_streams omits rolling streams. *)
Rows == Found \ Rolling

NotEol(e) == StreamOf[e] \in Rolling \/ EndDay[e] > Today

(* The order of tuples *)
TupleLess(v, w) == \E i \in 1..3 : v[i] < w[i] /\ \A j \in 1..3 : j < i => v[j] = w[j]

(* streams_lt: by the three numbers, or by the text where there are none. *)
OlderVersion(a, b) ==
    IF a \in Worded \/ b \in Worded THEN TextRank[a] < TextRank[b]
                                  ELSE TupleLess(Version[a], Version[b])

(* _should_add_same_rhel_version, _should_add_newer_rhel_version *)
ShouldAdd(e, installed) ==
    /\ Product[StreamOf[e]] = Product[StreamOf[installed]]
    /\ NotEol(e)
    /\ \/ /\ MajorOf(e) = MajorOf(installed)
          /\ OlderVersion(installed, e)
       \/ /\ MajorOf(e) > MajorOf(installed)
          /\ StartDay[e] > StartDay[installed]

(* The streams related_app_streams collects for the keys K. *)
NewerStreams(K) == {StreamOf[e] : e \in {a \in Entities : \E i \in K : ShouldAdd(a, i)}}

RelatedRows == (NewerStreams(FoundKeys) \ Found) \ Rolling

Named(s, name) == ListName[s] = name \/ ShortName[key[s]] = name

SystemsOf(S) == UNION {systems[s] : s \in S}

(* Mistake: a wildcard hides the exact matches. *)
WildcardListing(name, major, minor) ==
    LET matched  == {s \in Found : Named(s, name) /\ Major[s] = major}
        wildcard == {s \in matched : Minor[s] = NoMinor}
    IN  SystemsOf(IF minor = Omitted THEN matched
                  ELSE IF wildcard # {} THEN wildcard
                  ELSE {s \in matched : Minor[s] = minor})

(* get_app_streams_systems_v2, all pages of it: with a minor its exact matches
   before the wildcards without one, without a minor the union of all. *)
Listing(name, major, minor) ==
    LET matched == {s \in Found : Named(s, name) /\ Major[s] = major}
        exact   == {s \in matched : Minor[s] = minor}
    IN  SystemsOf(IF minor = Omitted THEN matched
                  ELSE IF exact # {} THEN exact
                  ELSE {s \in matched : Minor[s] = NoMinor})

(* _calculate_support_status of today. *)
SupportStatus(e) ==
    CASE StartDay[e] > Today -> "upcoming"
      [] StartDay[e] <= Today /\ StreamOf[e] \in Rolling -> "unknown"
      [] StartDay[e] <= Today /\ StreamOf[e] \notin Rolling /\ EndDay[e] < Today -> "retired"
      [] /\ StartDay[e] <= Today /\ StreamOf[e] \notin Rolling
         /\ EndDay[e] >= Today /\ EndDay[e] <= Today + NearDays -> "near_retirement"
      [] OTHER -> "supported"

NotifyStatuses == {"retired", "near_retirement"}

(* The streams of one section of get_relevant_appstreams. *)
Section(status, major) ==
    {s \in Found : Major[s] = major /\ SupportStatus(key[s]) = status}

(* Mistake: the sizes of the rows are summed. *)
SumOfCounts(status, major) ==
    Cardinality({x \in Section(status, major) \X Hosts : x[2] \in systems[x[1]]})

(* Its systems_count *)
SystemsCount(status, major) == Cardinality(SystemsOf(Section(status, major)))

-----------------------------------------------------------------------------
(* Requests, and a client that works in batches.                           *)

Init ==
    /\ profile \in [Hosts -> Profiles]
    /\ serving = FALSE
    /\ batch = {}
    /\ unread = {}
    /\ moduleCache = {}
    /\ key = [s \in Streams |-> NoEntity]
    /\ systems = [s \in Streams |-> {}]
    /\ asked = {}
    /\ merged = {}
    /\ related = {}

(* A request for the hosts B: a batch, or with B = Hosts the whole. *)
StartRequest(B) ==
    /\ ~serving
    /\ serving' = TRUE
    /\ batch' = B
    /\ unread' = B
    /\ moduleCache' = {}
    /\ key' = [s \in Streams |-> NoEntity]
    /\ systems' = [s \in Streams |-> {}]
    /\ UNCHANGED <<profile, clientVars>>

(* Mistake: only the first host of a stream is kept. *)
OnlyFirstSystem(K, h) ==
    [s \in Streams |-> IF s \in StreamsOf(K) /\ systems[s] = {} THEN {h} ELSE systems[s]]

AddSystem(K, h) ==
    [s \in Streams |-> IF s \in StreamsOf(K) THEN systems[s] \cup {h} ELSE systems[s]]

(* The next row of the query, which has no order.  The packages of all hosts
   are looked up after the last one; no module shares a stream with them, so
   the keys are those of this order.  A host may report the packages of one
   stream in any order. *)
ReadHost(h) ==
    LET K   == KeysOf(profile[h], moduleCache)
        new == StreamsOf(K) \ Found
    IN  /\ serving
        /\ h \in unread
        /\ unread' = unread \ {h}
        /\ moduleCache' = moduleCache \cup TakenModules(profile[h])
        /\ \E first \in [new -> K] :
              /\ \A s \in new : StreamOf[first[s]] = s
              /\ key' = [s \in Streams |-> IF s \in new THEN first[s] ELSE key[s]]
        /\ systems' = AddSystem(K, h)
        /\ UNCHANGED <<profile, serving, batch, clientVars>>

(* Mistake: related rows are collected and never dropped. *)
CollectRelated(M) == related \cup RelatedRows

(* "Drop a related row if that stream is installed in any batch" *)
MergeRelated(M) == (related \cup RelatedRows) \ {m.stream : m \in M}

(* The response, and the client's merge: installed rows by stream, each host
   once, and related rows that no batch has installed. *)
FinishRequest ==
    /\ serving
    /\ unread = {}
    /\ serving' = FALSE
    /\ asked' = asked \cup batch
    /\ merged' = merged \cup UNION {{[stream |-> s, host |-> h] : h \in systems[s]} : s \in Rows}
    /\ related' = MergeRelated(merged')
    /\ UNCHANGED <<profile, batch, unread, moduleCache, key, systems>>

Next ==
    \/ \E B \in SUBSET Hosts : StartRequest(B)
    \/ \E h \in Hosts : ReadHost(h)
    \/ FinishRequest

Spec == Init /\ [][Next]_vars

-----------------------------------------------------------------------------
(* Properties.                                                             *)

(* Keys are entities of their streams, rows list hosts of the request. *)
TypeOK ==
    /\ profile \in [Hosts -> Profiles]
    /\ serving \in BOOLEAN
    /\ batch \subseteq Hosts
    /\ unread \subseteq batch
    /\ moduleCache \subseteq Modules
    /\ key \in [Streams -> Entities \cup {NoEntity}]
    /\ \A s \in Found : StreamOf[key[s]] = s
    /\ systems \in [Streams -> SUBSET batch]
    /\ asked \subseteq Hosts
    /\ merged \subseteq [stream : Streams \ Rolling, host : Hosts]
    /\ related \subseteq Streams \ Rolling

(* What a host gives when it is read alone, and what the hosts H give. *)
Alone(h)  == KeysOf(profile[h], {})
AllOf(H)  == UNION {Alone(h) : h \in H}
Users(H, s) == {h \in H : s \in StreamsOf(Alone(h))}

Answered == serving /\ unread = {}

(* systems_by_app_stream shares a cache of modules and a dictionary of package
   owners between hosts.  Still a host is listed for a stream if and only if
   it would be when it were read alone ("Cache checking needs to happen after
   checking module status, otherwise a module will be incorrectly included"). *)
MatchedAlone ==
    serving => \A s \in Streams : systems[s] = Users(batch \ unread, s)

(* get_relevant_app_streams_for_hosts: "merge installed rows, counting each
   host once".  The client knows of the hosts it has asked for which streams
   they give when they are read alone, as BatchedRows promises. *)
Promise == INSTANCE BatchedRows WITH
    gives  <- [h \in Hosts |-> StreamsOf(Alone(h)) \ Rolling],
    listed <- {<<m.stream, m.host>> : m \in merged}

BatchesKeepThePromise == Promise!Spec

(* Streams that are related to one of K whichever entity of it is the key. *)
CertainlyNewer(K) ==
    UNION {{t \in Streams : \A e \in K : StreamOf[e] = s => t \in NewerStreams({e})} :
               s \in StreamsOf(K)}

(* "Drop a related row if that stream is installed in any batch": the client
   that has asked for all hosts, in whatever batches, has no related stream
   that is installed on any of them, none that is newer than no entity that a
   host has, and every one that is newer than all entities that hosts have of
   some stream.  A single request for all hosts is between the same bounds;
   what lies there depends on which entity of a stream was met first.  Where
   the entities that hosts have of a stream agree there are none between, and
   it has those of a single request. *)
RelatedBatchesMatchWhole ==
    asked = Hosts =>
        LET K       == AllOf(Hosts)
            without == StreamsOf(K) \cup Rolling
        IN  /\ related \subseteq NewerStreams(K) \ without
            /\ CertainlyNewer(K) \ without \subseteq related

(* A name that stands for all entities of a stream. *)
NamesOf(s) ==
    LET short == {ShortName[e] : e \in {a \in Entities : StreamOf[a] = s}}
    IN  {ListName[s]} \cup {n \in short : short = {n}}

(* get_app_streams_systems_v2 against the list of rows: "the name may be either
   the list name or the app stream entity's short name".  Asked with the list
   name of a row, or the short name that all its entities have, with its major
   and with or without its minor, if it has one, it lists every host of the
   row, and no other host unless another key shares the name ("the result may
   combine parent rows"). *)
PagesCoverRows ==
    Answered => \A s \in Rows : \A name \in NamesOf(s), minor \in {Omitted, Minor[s]} \ {NoMinor} :
        LET listed == Listing(name, Major[s], minor)
        IN  /\ systems[s] \subseteq listed
            /\ (\A r \in Found \ {s} : ~Named(r, name)) => listed = systems[s]

(* "MODULE_PACKAGES": no list has a package named like another module of the
   same major. *)
ModuleNamesAreOwn ==
    \A l, k \in ModuleLists : l.major = k.major /\ l.module # k.module => l.module \notin k.names

(* Packages that speak for the module of the list l and for no other one. *)
OwnPackages(l) ==
    {n \in l.names \cup {l.module} :
        \A k \in ModuleLists : k.major = l.major /\ k.module # l.module => n \notin k.names}

(* _verify_pending_modules: "Packages unique to this module (within the same
   os_major) are trustworthy on their own."  A host that is listed for a module
   which it does not report as in use by itself has a package that speaks for
   this module only: a package that two modules share makes it a host of
   neither. *)
EnabledModulesHaveOwnPackages ==
    ModuleNamesAreOwn /\ Answered =>
        \A m \in Modules : \A h \in systems[StreamOf[m]] : m \notin TakenModules(profile[h]) =>
            \E l \in ModuleLists, q \in profile[h].packages :
                l.entity = m /\ q.name \in OwnPackages(l)

(* The statuses of the entities that the hosts of the request have of s. *)
StatusesOf(s) == {SupportStatus(e) : e \in {a \in AllOf(batch) : StreamOf[a] = s}}

(* get_relevant_appstreams: "a single system can appear in multiple
   appstreams, so naive len() summing would over-count".  A section has the
   streams of which all entities that hosts have are in its status, and no
   stream of which none is; and the count is that of the hosts which have a
   stream of the section when they are read alone, each of them once. *)
NotificationCountsHosts ==
    Answered =>
        \A status \in NotifyStatuses, major \in {Major[s] : s \in Streams} :
            LET section == Section(status, major)
            IN  /\ \A s \in section : Major[s] = major /\ status \in StatusesOf(s)
                /\ \A s \in Streams : Major[s] = major /\ StatusesOf(s) = {status} => s \in section
                /\ SystemsCount(status, major) =
                       Cardinality({h \in batch : StreamsOf(Alone(h)) \cap section # {}})

(* get_app_streams_systems_v2: "The name may be either the list name or the
   app stream entity's short name."  A host that has an entity is listed under
   the short name of that entity. *)
ShortNameFindsHosts ==
    Answered => \A h \in batch : \A e \in Alone(h) :
        h \in Listing(ShortName[e], MajorOf(e), Omitted)
=============================================================================
