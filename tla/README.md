# Specifications of the digital roadmap backend

TLA+ modules for the parts of this repository whose behaviour over time, or
whose agreement with each other, is hard to test: the monthly notification runs
and what reaches the people they mail, the statuses, systems and changes those
mails count, and the ways in which the API reads the RHEL versions, the
application streams and the upcoming changes of an organization: whole, in
batches and in pages. TLC checks every module on small instances; TLAPS proves
the safety properties for all values of the constants.

Paths below are relative to `src/src/` unless they start with `src/`.

## The system

| Component | State it keeps | Operations | Hard behaviour |
|---|---|---|---|
| Notification runs, `notificator/lifecycle.py`, `roadmap.py`, `__main__.py` | local to a call: list of organizations, loop, `failed_orgs` | one coroutine per report; `main` awaits both | failures in the middle, dry runs, crashes, two at once |
| Subscribed organizations, `subscriptions.py` | none | a request with retries | retries end; any answer |
| Kafka producer, `kafka.py` | the connection | start with retries, send, stop | a send that fails though written; a stop that fails |
| Admin endpoints, `roadmap/admin/notifications/` | background tasks of the API process | custom, all | beside each other and beside the job |
| Payloads, `notificator/notificator.py` | none | sections, id, day | day and month are read at several moments |
| Notification backend (other project) | ids it has met | mail unless met | duplicates, any order |
| App stream catalogue, `roadmap/data/app_streams.py`, `roadmap/v1/lifecycle/app_streams.py` | shared objects with a computed status; an `lru_cache` | match modules and packages, validate, respond | statuses of another day; objects changed in place |
| Caches, `notificator/cache.py` | the `lru_cache`s | clear | cleared at any await of another run |
| Relevant RHEL, `roadmap/v1/lifecycle/rhel.py`, `relevant_rhel_hosts.py` | none | rows of the inventory, of a batch | merged batches against the whole |
| RHEL systems v2, `roadmap/common.py`, `v2/relevant_rhel.py` | none | pages of one row, by SQL | the same classification written twice |
| Inventory queries, `roadmap/common.py`, `database.py` | sessions | stream rows, filter by group and id | total and page are two statements |
| RBAC and Kessel, `roadmap/common.py`, `kessel.py` | a client | groups a caller may read | external decision |
| Upcoming changes, `roadmap/v1/upcoming.py`, `relevant_upcoming_hosts.py`, `v2/relevant_upcoming.py` | a file read once | counts and pages by package | windows around a month boundary; names that repeat |
| App streams for hosts and v2, `relevant_app_streams_hosts.py`, `v2/relevant_app_streams.py` | none | batches, pages | related streams, exact and wildcard minors |
| Host uuids, `host_uuids.py` | none | the ids a caller may read | |
| Application, OpenAPI, configuration, logging, data, scripts, deployment | little or none | | |

How they interact. The cron job's process runs `main()`. The API process
serves users and runs background tasks for administrators; both call the same
coroutines. A run asks the Notifications Gateway for the subscribed
organizations, connects to Kafka, and for each organization streams its hosts,
matches them with the catalogue, builds a payload and sends it. The
notification backend reads the topic and mails. Inside one process, tasks
share the catalogue objects and the caches and interleave at their awaits.
The job and the API share only the topic and the inventory database.

What makes each part correct:

* a run deals with every organization it was given, or says which it did not;
  its last log line is true; it ends; the roadmap run follows;
* an organization gets a regular report once a day, forced ones always, and
  none that nobody asked for;
* counts use statuses of the day of the report; caches stay small;
* a host is found under the streams and changes that it matches, whichever
  hosts are read before it;
* merged batches say what the whole says; a page lists what its row counts,
  and a walk through the pages sees every host that stays.

`PROJECT.json` lists the hazards behind these, each at its line.

## Modules

| Module | What it is |
|---|---|
| `Notificator` | runs as coroutines of the job and the API, up to the topic |
| `NotificationDelivery` | `Notificator` composed with the consumer of the topic |
| `MonthlyReports` | abstract: what the two promise to the people they mail |
| `BatchedRows` | abstract: what a client of the three batch endpoints is promised |
| `AppStreamStatus` | catalogue objects, caches, runs and requests of one process |
| `RelevantRhel` | three readings of an inventory, and a client that works in batches |
| `RelevantAppStreams` | hosts read one by one and matched with the catalogue, and the four readers of the result |
| `UpcomingChanges` | one file of items, matched with hosts by three endpoints and by the report |
| `SystemsPages` | the paginated lists of `/v2` over an inventory that changes |
| `NotificatorProofs`, `DeliveryProofs`, and for each of the last five `...Proofs` | theorems; `BatchedRows` holds its own |
| `MC...` | instances for TLC; `SystemsPages` needs none |

An operator whose comment begins with "Mistake" is a wrong version of the
definition after it. With it in place of that definition TLC finds one of the
properties violated; `PROJECT.json` says which under "mutants".

### Notificator

`pc[t]` is the await at which the coroutine of task `t` is suspended:

    idle -> fetch -> connect -> build <-> send -> stop -> returned
                                                   any -> crashed

| Action | Code |
|---|---|
| `CronStart`, `NextReport` | `__main__.py:21-28`; `main` goes on however the first call ended |
| `TriggerCustom`, `TriggerAll` | `admin/notifications/__init__.py:92-169`; a background task, any dry run or force flag |
| `FetchSucceeds`, `FetchRetries`, `FetchFails` | `subscriptions.py:21-81` and the handler `lifecycle.py:25-27` |
| `ConnectSucceeds`, `ConnectRetries`, `ConnectFails` | `kafka.py:80-131`, handler `lifecycle.py:58-60` |
| `BuildSucceeds`, `BuildFails` | `lifecycle.py:38-44`; a dry run goes to the next organization here |
| `SendSucceeds`, `SendFails` | `kafka.py:149-153`; a failed send may have written |
| `StopSucceeds`, `StopFails` | `kafka.py:134-135`, then `lifecycle.py:62-76` or its handler |
| `CrashPod`, `CrashApi`, `Midnight` | environment |

`NextOrg` and `OrgFails` are the end of one turn of the loop. The two
coroutines have the same control, so one module stands for both and `kind`
says which. Payloads are reduced to kind, organization, day, force flag and
id; an id is the function of those that `_make_notification_uuid` hashes, or
a fresh number for uuid4. History variable: `asked`, whom real runs were to
notify. `JobPods` are all pods the schedule or a rerun ever starts;
`restartPolicy: Never` (`src/deploy/config.yml:180`) means a crashed pod does
not come back.

`StopFails` is reached with messages acknowledged, and then the run logs that
"no orgs were notified": that is finding `not_notified`.
`NotNotifiedIsAllOrNothing` is what the line can still be taken for: either no
message was acknowledged, or the whole list was gone through. `StepsRunOut`
says of each step of a started coroutine that it moves nothing of its own or
takes from the number of steps that are left (`StepsLeft`).

### NotificationDelivery and MonthlyReports

The backend is not in this repository. It is modelled as
`_make_notification_uuid` describes it: repeated deliveries are deduplicated by
id. `Deliver(m)` is the first reading of a message with its id; further ones
change nothing and are stutters. `KeepsThePromise` is
`INSTANCE MonthlyReports` with `regular` the number of regular mails and
`forced` the number of forced messages mailed in each slot (kind,
organization, day).

### BatchedRows

The docstrings of the three endpoints for lists of host ids promise that
batches can be merged "to match one request for all accessible hosts".
`gives` is the rows of each host, `asked` the hosts that the client has asked
for, `listed` the pairs of row and host it knows; a `Merge` makes `listed` what
the hosts asked so far give. What the three merges differ in is which part of
a response is the row, and that is the refinement mapping `Promise` of each
module.

### AppStreamStatus

A catalogue object is a stream with a `status`. The validator runs at import
(`Init`), when an `AppStreamKey` is made around the object, and when a
catalogue response carries it; each is `Validate`. `ReadHosts` is the host
loop with its module keys, `MatchStreams` the package loop with the memoised
`app_stream_from_package`, `CountStreams` the reading of the attribute at
`notificator.py:113`, `FinishOrg` the `finally: clear_caches()`.
`CatalogueRequest` is the response that gives rolling streams the end date of
their OS, in place; `PartialCatalogueRequest`, `RequestReadsHosts` and
`RelevantRequest` are the other endpoints that validate. When the cache
overflows, which keys miss and which survive is any choice that the size
allows, more than LRU would.

Which package matches which stream is a constant here; how they match is in
`RelevantAppStreams`. Packages that match nothing have no effect.
`apiProcess`, chosen at the start, says in which process we are. In the job's,
runs follow each other, so `MayRun` lets one of them act; in the API's, runs
and requests interleave.

In the job's process clearing the caches makes the counted status current
(`JobStatusIsCurrent`). In the API process a request of a user fills the cache,
days later an admin run hits it, and a stream counts under its old status:
finding `api_status`. Streams found as modules are not exposed to this, and
`ModuleStatusIsCurrent` says so. `PackageStatusIsSinceLastEnd` is the other
boundary of the finding: since every end of an organization clears the caches,
whichever run and report it is of, a status that is counted is never older than
the last such end before the packages were matched. History variables `lastEnd`
and `endBefore` hold that day.

A rolling stream has no end date of its own, so by the catalogue it is never
near its end; once a response has given its object the date of the OS, it may
be, for the rest of the process. In the API process a count may therefore see
either status: `AttributeStatuses` is what a validation on some day can have
given, and both properties include rolling streams by it. In the job's process
no response is made, and `JobStatusIsCurrent` has them by their own dates only.

### RelevantRhel

`profile[h]` is what host `h` reports: name, version in `operating_system`,
version in `os_release`, product ids, groups. `Counted`, `GetLifecycleType`,
`RhelMajorMinor`, `Installed`, `RelatedVersions` are `relevant_systems`;
`VersionMatch`, `LifecycleTypeFilter`, `Readable`, `RhelSystems` are the SQL;
`AccessibleHostUuids` is the list of ids from which a client makes its batches.

`os_release` is text, and Python and SQL read it differently, so `release` is
the sequence of its dotted parts (`Parts`): for each the number that `int()`
makes of it, or `NotNumber`, and whether it is written as `str()` writes that
number. `RhelMajorMinor` refuses the string when any part is no number, or
there is only one (`Numeric`); `VersionMatch` compares the text of the first two
(`PartIs`). Signs are left out. The numbers of `operating_system` are integers
in both languages.

`PostBatch` is one request of a client for any ids, related versions included,
followed by the merge that the docstring of `get_relevant_rhel_for_hosts`
prescribes. The inventory does not change while the client works, since there
is no whole to compare with otherwise; the day does. `BatchesMatchWhole` is the
docstring's claim. It fails when two OS names share a version and type (finding
`rhel_mixed_names`) and holds otherwise (`OneNameBatchesMatchWhole`).
`BatchesKeepThePromise` is `INSTANCE BatchedRows` with a version and type as a
row, without the OS name: so taken the merge is exact for mixed names too,
which says where the finding ends.

`PagesMatchRows` compares the SQL with the rows for every version and type a
caller may ask for. It is what the comment at `common.py:896-899` claims, and it
fails (finding `rhel_release_text`): a host with the release "9.4.z" is skipped
by v1 and on the v2 page of 9.4, and one with "9.04" is in the v1 row of 9.4 and
on no page. `PagesDifferByTextOnly` is how far the two can be apart: they agree
on every host that has its version from `operating_system`, or whose
`os_release` begins with two plain numbers and has only numbers after them, and
no host is on the page of another version or type than v1 gives it.

### RelevantAppStreams

A stream is a class of catalogue entities with equal `AppStreamKey`s: the same
names and the same RHEL version. `StartRequest(B)` begins a request for the
hosts `B` (all of them, or a batch); `ReadHost` takes any unread host, since
the query has no order; `FinishRequest` is the response together with the
client's merge, as the docstring of `get_relevant_app_streams_for_hosts`
prescribes it. `key[s]` is the entity that became the key of a stream, the
first one met, and `systems[s]` its hosts.

| Operator | Code (`v1/lifecycle/app_streams.py` unless named) |
|---|---|
| `InUse`, `TakenModules`, `AppStreamsFromModules` | statuses of dnf modules and the cache, `:451-529` |
| `PendingLists`, `Verified` with `SharedNames` | modules that are only enabled, verified by their packages, `:347-372`, `data/__init__.py:38-53` |
| `VersionMatches`, `PackageEntities` | packages, by the depth of the stream's name, `:595-649` |
| `Rows`, `NewerStreams`, `RelatedRows` | the list, and related streams, `:301-344`, `:659-722` |
| `Named`, `Listing` | `v2/relevant_app_streams.py:100-123` |
| `Section`, `SystemsCount` | `notificator/notificator.py:99-123` |

In the code packages are collected during the loop and looked up after it.
`ReadHost` looks them up with their host. Only entities of packages share
streams with each other, so every key that the code can choose is chosen by
some order in the model, and the other way round.

Streams are ordered as `streams_lt` does (`OlderVersion`): by major, minor and
micro, or by their text when one of them is no number, for which `Worded` and
`TextRank` stand.

The shipped catalogue has streams whose entities differ: 94 of them in the
short name, such as `python3.11` and `python3.11-debug`, both "Python 3.11"
for RHEL 9.2, and some in what decides related rows and statuses. "Python 3.11"
for RHEL 9 has entities with the versions of libraries, "gcc-toolset 16" for
8.10 has the start dates 2026-11-09 (`data/packages.py:565`) and 2024-05-22
(`:643`). Then what the response says depends on which host was read first. For
the short name that is finding `short_names`. No property assumes agreement; the
instance has streams of each kind, and the properties bound what the order can
change:

* `RelatedBatchesMatchWhole`: after all hosts have been asked for, in whatever
  batches, the client has no related stream that is installed, or that is
  newer than no entity that a host has, and it has every one that is newer than
  all entities that hosts have of some stream. A single request for all hosts
  is between the same bounds. Where the entities that hosts have of a stream agree in what is newer
  than they are, the two bounds are one set (`BoundsMeet`) and the docstring's
  "match a single request" holds exactly. Where they do not, it need not: the
  batches may meet another entity first than the single request does. In the
  shipped catalogue this can happen for hosts with "gcc-toolset 16" (8.10),
  "gcc-toolset 15" (9.7), Python 3.11, 3.12 and 3.14 (RHEL 9), and on RHEL 10
  with Node.js 24, PHP 8.4, PostgreSQL 18, Python 3.14 and Ruby 3.3.
* `NotificationCountsHosts`: a section has every stream of which all entities
  that hosts have are in its status, and none of which no entity is; and the
  count of systems is that of the hosts that have a stream of the section when
  they are read alone, each of them once.

Related rows are compared by stream; that their names may differ between
batches is documented.

`BatchesKeepThePromise` is `INSTANCE BatchedRows`: a host gives the streams it
matches when it is read alone, `StartRequest` and `ReadHost` are stutters, and
`FinishRequest` is a `Merge`. `PagesCoverRows` takes every name by which a
client may ask for a row, `NamesOf`: the list name, and the short name if all
entities of the stream share it, since otherwise finding `short_names` is in
the way. `EnabledModulesHaveOwnPackages` says what the rule about shared
packages is for: a module that is only enabled counts by a package that no
other module of its major lists. It assumes that no list has the name of another
module (`ModuleNamesAreOwn`), which is so in the shipped lists; a list that had
one would let that module be verified by a package that speaks for another.

### UpcomingChanges

`File` is the list of items. Each process of the API reads it once
(`read_upcoming_file` is an `lru_cache`), and an item without `dateAdded` gets
the day of that reading, `loaded[r]`. `PostBatch(r, B)` is a batch answered by
replica `r`, with the client's merge by the record that the docstring of
`get_relevant_upcoming_for_hosts` names (`RowKey`; detail fields that never
change are folded into the name). `Restart` is a deployment or a new pod.
`Notify(now)` builds a report: the window of the counts comes from `day`, the
month it names from `now`, which is a later day if midnight passed. No `await`
lies between the two, so at most one did. Days have months by the constant
`Month`, which only has to be monotone.

`BatchesMatchWhole` assumes that all dates are in the file or that all answers
come from processes that read it on one day. Otherwise one item has two keys
and the merge doubles it; the shipped file has all dates.
`BatchesKeepThePromise`, with an item as a row of `BatchedRows` and its dates
left out, says that nothing else is lost or made up then. `PagesMatchRows` is
about items that are alone with their name and release, which all shipped ones
are; others get the pages of the first of them, and there is no parameter to
tell them apart.

### SystemsPages

One client walks through one list by offset. `matching` and `name` change with
any `Arrive`, `Leave` and `Rename` between any two steps. `PythonPage` is one
step, for the endpoints that read the hosts once per request; `SqlCount` and
`SqlPage` are the two statements of `query_rhel_systems`. `database.py` sets no
isolation level, and at the default of PostgreSQL each statement has its own
snapshot. The client stops at the total or at a page that is not full.

`WalkEnds`: as long as the client goes on, its offset is not past the number of
all hosts, however often hosts come, leave and come again in front of it. Since
the offset only grows, the walk ends.

A total and a page of one response may disagree; `PageFitsTotal` says that
this is the only way they do. `StayingHostsAreSeen` makes one exception, for a
client of the SQL endpoint that stops at the total while hosts come: TLC shows
that without it a count of one, a host that arrives with an earlier name and
a page of one end the walk before the host that was there from the start.
`test_v2_rhel_systems_pagination` asserts "Pages should not overlap" and
"Total should be consistent" over a fixed inventory.

## Runs

| Run | Checks | Bounds, and why they are enough |
|---|---|---|
| `not_notified` | `NotNotifiedMeansNothingSent`, violated | one pod, one organization listed up to twice: an acknowledged message and a stop that raises need no more |
| `delivery_safety` | `DeliveryTypeOK`, `FinishedRunAccountsForEveryOrg`, `OnlyAskedOrgsAreNotified`, `OneRegularMailPerDay`, `ForcedMailIsNotSuppressed`, `KeepsThePromise` | a pod and a task, dry or forced or neither, one organization listed up to twice, two days: messages of one day and of two that could collide, and a dry run beside a real one |
| `pod_live` | `FinishedRunAccountsForEveryOrg`, `NotNotifiedIsAllOrNothing`, `StepsRunOut`, `StartedRunReturns`, `JobReachesRoadmapRun`, `WrittenReportIsMailed` | one pod with both reports, two organizations, lists up to 3 with repetitions, 2 attempts: a first, middle and last organization, a failure at each, a retry that succeeds and one that gives up |
| `status` | `TypeOK`, `JobStatusIsCurrent`, `CacheHoldsOneOrg`, `ModuleStatusIsCurrent`, `PackageStatusIsSinceLastEnd` | both processes; two concurrent runs in the API's, two packages over a cache of one, two days between which a stream found by a package nears its end and one found as a module starts; a rolling stream of each kind, which after a catalogue response goes through what a stream with dates does |
| `api_status` | `CountedStatusIsCurrent`, violated | one run among requests, no rolling streams |
| `rhel_batches` | `TypeOK`, `OneNameBatchesMatchWhole`, `RelatedBatchesMatchWhole`, `PagesDifferByTextOnly`, `BatchesKeepThePromise` | three symmetric hosts, ten profiles that cover each source of a version, a release of one, two and three parts, one with a word and one with a leading zero, and each precedence of types, two days |
| `rhel_release_text` | `PagesMatchRows`, violated | the same |
| `rhel_mixed_names` | `BatchesMatchWhole`, violated | the same |
| `app_streams` | `TypeOK`, `MatchedAlone`, `RelatedBatchesMatchWhole`, `PagesCoverRows`, `NotificationCountsHosts`, `EnabledModulesHaveOwnPackages`, `BatchesKeepThePromise` | three symmetric hosts, nine profiles, 15 entities in 12 streams: two modules that share a package, a stream whose three packages differ in name, version and end, one whose two differ in start, versions that differ in the micro number only and one that is no number, one name on three streams with and without a minor, one product on two majors, a rolling stream, all statuses |
| `short_names` | `ShortNameFindsHosts`, violated | the same |
| `upcoming` | `TypeOK`, `BatchesMatchWhole`, `PagesMatchRows`, `NamedMonthIsCovered`, `ReportCountsRows`, `BatchesKeepThePromise` | two symmetric hosts, five profiles, four items (a shared name and release, one undated, one not deployed, each type), four days in three months. One replica: a client only sees on which day the process that answers has read the file, and since its merge is a union, in which the order of the answers is lost, a replica that may be replaced at any time leads it to every state that several do; the proofs have any number |
| `pages` | `TypeOK`, `PageFitsTotal`, `StayingHostsAreSeen`, `PagesDoNotOverlap`, `WalkEnds` | three hosts, two names of which the search finds one, pages of one and two hosts: any mix of arrivals, departures and renames within a walk of up to four pages |

`CHECK_DEADLOCK FALSE` stands where a run may be over for good. All bounds
are constants: numbers of tasks, retries, `MaxListLen`, `LastDay`,
`CacheSize`. The code's own retry and cache limits are larger; the models
behave alike for any positive value, and the proofs hold for all.

### Fairness

`Fairness` is weak fairness of the steps of a run at each await and of
`NextReport`. The request has a timeout of 180 s (`subscriptions.py`), the
waits between attempts are sleeps of fixed length, aiokafka's calls have
request timeouts, and the event loop runs every ready task. That the inventory
database answers or fails is an assumption: no statement timeout is set in
`database.py`. `DeliveryFairSpec` adds that the backend keeps reading. No
fairness is assumed of the schedule, administrators, crashes or midnight, nor
that any request or send succeeds.

## Proofs

Assumptions on constants are the named `ASSUME`s; TLC evaluates each in the
runs above.

`NotificatorProofs`. `TypeCorrect` by induction over the actions.
What `FinishedRunCorrect` and `OnlyAskedCorrect` state is not inductive: a finished run
accounts for all organizations because the loop accounts for those before its
index, which `AccountedInv` (with `DoneUpTo`) states for every `pc`; a message
in the topic was asked for because every payload in flight was, which
`AskedInv` and `PayloadInv` add. `RunInv` is their conjunction with `TypeOK`.
`NotNotifiedCorrect` needs `AckedInv`: nothing is acknowledged while the list
is fetched or the producer set up, so a run that ends there has nothing to
hide, and one that ends at the stop has been through its list.
`StepsRunOutCorrect` is about steps: `AttemptInv` keeps the number of attempts
below its bound, so that `StepsLeft` is a natural number, and `StepDescends`
goes through the actions. It is the safety half of `StartedRunReturns`: a
started run cannot go on forever; that it does go on is fairness, and stays
with TLC.

`BatchedRows`. `PromiseGivesWhole`, from the invariant `RowsKnown`, shows that
what is promised is what the docstrings claim. The three `PromiseKept` show
that initial states map to initial states and each step to a `Merge` or a
stutter; with them `RowsMatchWhole`, `VersionsMatchWhole` and
`ItemsMatchWhole` are instances of `PromiseGivesWhole`, not proved again.

`DeliveryProofs`. `DeliveryInv` adds to `RunInv` what relates ids and
mails: an id determines its message's slot and force flag, a regular id has
nonce 0, random ids are at most `minted`, one message per nonce, and a
slot has been mailed exactly if its regular id was met. From it follow
`OneRegularMailCorrect`, `ForcedMailCorrect` and `PromiseKept`: initial states
map to initial states, and every step maps to a step of `MonthlyReports` or a
stutter.

`AppStreamStatusProofs`. `TypeCorrect` bounds the cache with any eviction.
`ModuleInv`: modules found by a run that has not counted yet have a status of a
day since it began, which validation by anyone, and a date given by a catalogue
response, only makes fresher (`StatusesGrow`, `FresherIn`).
`PackageInv`: what the cache knows has a status of a day since the last end of
an organization (`CacheInv`), for what is not in it is validated when it is
looked up (`FindKeeps`), and what a run has matched stays as fresh as the cache
was then. `JobInv`: in the job's process the cache is empty until the run
matches packages, so every lookup misses and validates.

`RelevantRhelProofs`. `LifecycleTypesAgree` shows the two classifications by
products equal, and the lemma `VersionsDifferByText` says for each host how the
two readings of a version can differ; `PagesCorrect` follows. `ClientInv`
describes the merged rows and related versions by the hosts seen so far, and
gives `BatchesCorrect` and `RelatedCorrect` for any batches. `PairsInv`, for
`PromiseKept`, says the same of pairs of a version and type and a host, where
hosts of two names may be in one row's details. `TypeCorrect` shows that every
row has a name, version and type.

`RelevantAppStreamsProofs`. The cache does not change what a host matches
(`CacheIrrelevant`), so by `ReadInv` the dictionary after any prefix of the
hosts is what they give one by one, with some entity of theirs as key: that is
`MatchedAloneCorrect`. `MergeInv` and `RelatedInv` describe the client's rows
and related streams by the hosts asked so far (`NewerOfUnion`: what is newer
than the keys of a union is newer than those of a part; `CertainFromKeys` and
`CertainOfUnion`: what is newer than every entity of a stream is newer than any
key of it, in a batch and in the union), and give `PromiseKept` and
`RelatedCorrect`. `BoundsMeet` shows when its bounds are one set. `VerifiedByOwnPackage` shows that a package that verifies
a module is in no other list, for `OwnPackagesCorrect`. `CountsFromKeys`
carries the statuses of keys over to the entities of hosts for
`NotificationCountsCorrect`, without any assumption on the catalogue.

`UpcomingChangesProofs`. `IndexMatches` shows that the reverse index selects
the hosts of the set comparison, and `PayloadSum` that the three counts add up;
`ReportInv` keeps what the report was built from while days pass.
`RowKeysDiffer` shows that the key of the merge tells items apart and is one
per item when dates agree, `SystemsOfUnion` and `ListedOfUnion` that batches
distribute over unions; `ClientInv` is the client's state in these terms, and
`PairsArePromised` reads it as `BatchedRows` does.

`SystemsPagesProofs`. `CountBelow`, by well-founded choice of the least host
that is left, shows that the first k places of a sorted list of n hosts hold
min(k, n) hosts, so a page is full unless it is the last (`PageSize`); a page
that is full has its hosts after the offset, which keeps the offset within all
hosts (`WalkEnds`, a conjunct of `WalkInv`).
`RanksGrow` and `RanksFall` say what arrivals and departures do to the rank of
a host that stays. `SeenInv`: while none leaves, hosts from the start that are
before the offset have been seen; `OverlapInv`: while none comes, hosts that
have been seen are before the offset.

`JobInv` speaks about the job's process only: its `JobState` holds as long as
`apiProcess` is false.

Only model-checked: the liveness properties of `pod_live`, since fairness and
`ENABLED` are out of this prover's reach. The violations are shown by TLC.

## Not modelled

* RBAC and Kessel: the decision is made by services outside; the groups a
  caller may read are any set (`hostGroups`).
* Literal data. About 24,000 of the 31,000 lines of the implementation are
  catalogue entries (`data/packages.py`, `module_packages.py`, `modules.py`,
  `systems.py`). A module takes a catalogue as constants, with the assumptions
  it needs, and an instance has a few entries that stand for its cases. The
  share of all lines that the definitions stand for is small for that reason.
* Layout of responses, filters and search terms of the catalogue's own lists;
  the grammar of NEVRA strings.
* Database sessions, pools and the mapping of errors beyond "a statement
  fails"; OpenAPI, logging, Sentry, configuration; scripts, playbooks,
  dashboards and tests.

## Plan

Done: all modules above with their proofs. What could follow:

1. The module lists of an instance could be taken from `module_packages.py`
   for one major, to check `Verified` over the real overlaps.
2. `SystemsPages` composed with `RelevantRhel` and `RelevantAppStreams`, so that
   the list that is paged is the one that a profile change alters.
3. The notification's counts and the pages of `/v2` have no abstract
   specification of their own: one of "counts of a set of rows" would serve
   `NotificationCountsHosts` and `ReportCountsRows`.
4. Invariants of `MonthlyReports` itself (no mail without a report that was
   written, forced mails no more than forced messages) carried over to
   `NotificationDelivery` by its `PromiseKept`, as is done for `BatchedRows`.
