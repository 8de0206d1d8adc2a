----------------------------- MODULE SystemsPages -----------------------------
(***************************************************************************)
(* The paginated lists of hosts of /v2.                                    *)
(*                                                                         *)
(*   /relevant/lifecycle/rhel/{major}/{minor}/systems    pages in SQL      *)
(*   /relevant/lifecycle/app-streams/systems             pages in Python   *)
(*   /relevant/upcoming-changes/systems                  pages in Python   *)
(*                                                                         *)
(* A client walks through a list by offset, one request after the other,   *)
(* while hosts come to the inventory, leave it and change their names.     *)
(* An endpoint in Python reads the list once per request.  The one in SQL  *)
(* counts it with one statement and reads the page with another; at the    *)
(* default isolation each sees the list as it is when it runs.  Neither    *)
(* keeps anything from one request to the next.                            *)
(***************************************************************************)
EXTENDS Integers, FiniteSets

CONSTANTS
    Hosts,   \* ids
    Names,   \* display names, in the order in which they sort
    Hits,    \* those that contain the term that a search looks for
    Limits   \* page sizes

ASSUME PagesAssumption ==
    /\ Hosts \subseteq Nat
    /\ IsFiniteSet(Hosts)
    /\ Names \subseteq Nat
    /\ Hits \subseteq Names
    /\ Limits \subseteq Nat \ {0}

Endpoints  == {"sql", "python"}
NotCounted == -1

VARIABLES
    endpoint,
    limit,        \* the client's page size
    search,       \* whether the client passes a search term
    stopsAtTotal, \* whether it stops at meta.total, or at a page that is not full
    matching,     \* hosts with the version, stream or change that is asked for
    name,         \* their display names
    offset,       \* of the next request
    counted,      \* result of the first statement of a request in work
    steady,       \* history: the list has not changed since that statement
    got,          \* hosts that the client has got
    twice,        \* and those it has got more than once
    done,
    reply,        \* the last response
    first,        \* history: the list when the walk began
    came, left    \* history: whether a host has come to its place, or left it

settings  == <<endpoint, limit, search, stopsAtTotal>>
walkVars  == <<offset, got, twice, done, reply>>
inventory == <<matching, name>>
history   == <<first, came, left>>
vars      == <<settings, inventory, counted, steady, walkVars, history>>

NoReply == [offset |-> 0, total |-> 0, count |-> 0, steady |-> TRUE]

-----------------------------------------------------------------------------
(* One list.                                                               *)

Listed == {h \in matching : search => name[h] \in Hits}

(* Mistake: the total is that of the list before the search. *)
TotalBeforeSearch == Cardinality(matching)

Total == Cardinality(Listed)

(* ORDER BY display_name, id; in Python the same key. *)
Before(g, h) == name[g] < name[h] \/ (name[g] = name[h] /\ g < h)

(* The index of a host in the sorted list. *)
Rank(h) == Cardinality({g \in Listed : Before(g, h)})

(* Mistake: both ends are included. *)
PageWithBothEnds(o) == {h \in Listed : o <= Rank(h) /\ Rank(h) <= o + limit}

(* Mistake: filtered[offset:limit]. *)
PageUpToLimit(o) == {h \in Listed : o <= Rank(h) /\ Rank(h) < limit}

(* Mistake: every request is answered with the first page. *)
PageWithoutOffset(o) == {h \in Listed : Rank(h) < limit}

(* filtered[offset : offset + limit], or LIMIT and OFFSET. *)
Page(o) == {h \in Listed : o <= Rank(h) /\ Rank(h) < o + limit}

-----------------------------------------------------------------------------

Init ==
    /\ endpoint \in Endpoints
    /\ limit \in Limits
    /\ search \in BOOLEAN
    /\ stopsAtTotal \in BOOLEAN
    /\ matching \in SUBSET Hosts
    /\ name \in [Hosts -> Names]
    /\ offset = 0
    /\ counted = NotCounted
    /\ steady = TRUE
    /\ got = {}
    /\ twice = {}
    /\ done = FALSE
    /\ reply = NoReply
    /\ first = Listed
    /\ came = FALSE
    /\ left = FALSE

(* The client gets the page at its offset, with a total, and goes on or stops. *)
Receive(total) ==
    LET page == Page(offset)
    IN  /\ got' = got \cup page
        /\ twice' = twice \cup (got \cap page)
        /\ offset' = offset + limit
        /\ done' = IF stopsAtTotal THEN offset + limit >= total
                                   ELSE Cardinality(page) < limit
        /\ reply' = [offset |-> offset, total |-> total, count |-> Cardinality(page),
                     steady |-> steady]

(* get_app_stream_systems_v2, get_upcoming_systems_v2 *)
PythonPage ==
    /\ endpoint = "python"
    /\ ~done
    /\ Receive(Total)
    /\ UNCHANGED <<settings, inventory, counted, steady, history>>

(* query_rhel_systems runs its count_query. *)
SqlCount ==
    /\ endpoint = "sql"
    /\ ~done
    /\ counted = NotCounted
    /\ counted' = Total
    /\ steady' = TRUE
    /\ UNCHANGED <<settings, inventory, walkVars, history>>

(* It runs its data_query and responds. *)
SqlPage ==
    /\ counted # NotCounted
    /\ Receive(counted)
    /\ counted' = NotCounted
    /\ steady' = TRUE
    /\ UNCHANGED <<settings, inventory, history>>

(* The second statement fails: "Error querying host inventory".  The client
   asks for the page again.  A failure of the first changes nothing here. *)
SqlFails ==
    /\ counted # NotCounted
    /\ counted' = NotCounted
    /\ steady' = TRUE
    /\ UNCHANGED <<settings, inventory, walkVars, history>>

-----------------------------------------------------------------------------
(* The inventory.                                                          *)

(* A host that is renamed leaves its place and comes to another. *)
Disturb(h) ==
    /\ UNCHANGED <<settings, counted, walkVars, first>>
    /\ left' = (left \/ h \in Listed)
    /\ came' = (came \/ h \in Listed')
    /\ steady' = (steady /\ counted = NotCounted)

Arrive(h, n) ==
    /\ h \notin matching
    /\ matching' = matching \cup {h}
    /\ name' = [name EXCEPT ![h] = n]
    /\ Disturb(h)

Leave(h) ==
    /\ h \in matching
    /\ matching' = matching \ {h}
    /\ UNCHANGED name
    /\ Disturb(h)

Rename(h, n) ==
    /\ h \in matching
    /\ n # name[h]
    /\ name' = [name EXCEPT ![h] = n]
    /\ UNCHANGED matching
    /\ Disturb(h)

Next ==
    \/ PythonPage
    \/ SqlCount \/ SqlPage \/ SqlFails
    \/ \E h \in Hosts, n \in Names : Arrive(h, n) \/ Rename(h, n)
    \/ \E h \in Hosts : Leave(h)

Spec == Init /\ [][Next]_vars

-----------------------------------------------------------------------------
(* Properties.                                                             *)

(* The client knows hosts that exist, and gets no more than it asked for. *)
TypeOK ==
    /\ endpoint \in Endpoints
    /\ limit \in Limits
    /\ search \in BOOLEAN /\ stopsAtTotal \in BOOLEAN
    /\ matching \subseteq Hosts
    /\ name \in [Hosts -> Names]
    /\ offset \in Nat
    /\ counted \in 0..Cardinality(Hosts) \cup {NotCounted}
    /\ steady \in BOOLEAN
    /\ got \subseteq Hosts
    /\ twice \subseteq got
    /\ done \in BOOLEAN
    /\ reply \in [offset : Nat, total : 0..Cardinality(Hosts), count : Nat,
                  steady : BOOLEAN]
    /\ reply.count <= limit
    /\ first \subseteq Hosts
    /\ came \in BOOLEAN /\ left \in BOOLEAN

(* With any offsets, a response has as many hosts as its total leaves after
   its offset, up to the limit, unless the list changed between the two
   statements of query_rhel_systems. *)
PageFitsTotal ==
    reply.steady =>
        reply.count = IF reply.total <= reply.offset THEN 0
                      ELSE IF reply.total - reply.offset < limit
                           THEN reply.total - reply.offset ELSE limit

(* A walk during which no host leaves its place misses none of the hosts that
   it began with, however many come; where the total is counted by a statement
   of its own, as long as none comes or the client does not stop at it. *)
StayingHostsAreSeen ==
    /\ done
    /\ ~left
    /\ endpoint = "sql" /\ stopsAtTotal => ~came
    => first \subseteq got

(* test_v2_rhel_systems_pagination: "Pages should not overlap".  They do not,
   however many hosts leave, as long as none comes. *)
PagesDoNotOverlap == ~came => twice = {}

(* The list may grow under the client, or shrink.  Still a client that goes on
   is within the hosts that exist, so a walk ends after at most one request
   more than fit into them, whatever the inventory does. *)
WalkEnds == ~done => offset <= Cardinality(Hosts)
=============================================================================
