----------------------------- MODULE BatchedRows -----------------------------
(***************************************************************************)
(* What the three endpoints for lists of host ids promise to a client that *)
(* asks for the hosts of an organization in batches and merges the rows of *)
(* the responses as their docstrings say ("to match one request for all    *)
(* accessible hosts when processing batches"): whatever the batches, how   *)
(* they overlap and how they were answered, it knows which hosts that it   *)
(* has asked for are in which row, and nothing else.                       *)
(***************************************************************************)
EXTENDS TLAPS

CONSTANT Hosts

VARIABLES
    gives,   \* the rows that each host gives; empty if it may not be read
    asked,   \* the hosts that the client has asked for
    listed   \* its rows: pairs of a row and a host

clientVars == <<gives, asked, listed>>

RowsOf(H) == UNION {{<<r, h>> : r \in gives[h]} : h \in H}

Init ==
    /\ DOMAIN gives = Hosts
    /\ asked = {}
    /\ listed = {}

Merge(B) ==
    /\ asked' = asked \cup B
    /\ listed' = RowsOf(asked')
    /\ UNCHANGED gives

Next == \E B \in SUBSET Hosts : Merge(B)

Spec == Init /\ [][Next]_clientVars

-----------------------------------------------------------------------------

RowsKnown == asked \subseteq Hosts /\ listed = RowsOf(asked)

(* "To match one request for all accessible hosts": when no host is left out
   that gives a row, the client has what one request for all would list. *)
WholeIsListed ==
    (\A h \in Hosts \ asked : gives[h] = {}) => listed = RowsOf(Hosts)

(* The promise makes the batches match the whole. *)
THEOREM PromiseGivesWhole == Spec => []WholeIsListed
<1>1. Init => RowsKnown
  BY DEF Init, RowsKnown, RowsOf
<1>2. RowsKnown /\ [Next]_clientVars => RowsKnown'
  <2> SUFFICES ASSUME RowsKnown, [Next]_clientVars PROVE RowsKnown'
    OBVIOUS
  <2>1. gives' = gives
    BY DEF Next, Merge, clientVars
  <2>2. RowsOf(asked)' = RowsOf(asked')
    BY <2>1 DEF RowsOf
  <2>3. ASSUME NEW B \in SUBSET Hosts, Merge(B) PROVE RowsKnown'
    BY <2>2, <2>3 DEF RowsKnown, Merge
  <2>4. CASE UNCHANGED clientVars
    BY <2>2, <2>4 DEF RowsKnown, clientVars
  <2> QED
    BY <2>3, <2>4 DEF Next
<1>3. RowsKnown => WholeIsListed
  BY DEF RowsKnown, WholeIsListed, RowsOf
<1> QED
  BY <1>1, <1>2, <1>3, PTL DEF Spec
=============================================================================
