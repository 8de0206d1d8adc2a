----------------------- MODULE RelevantAppStreamsProofs -----------------------
(***************************************************************************)
(* Proofs about RelevantAppStreams.                                        *)
(*                                                                         *)
(* The cache of modules makes no difference to what a host gives, so while *)
(* a request is served each stream lists the hosts read so far that give   *)
(* it, and has a key as soon as it lists one (ReadInv).  A finished request*)
(* adds to the client's rows what its hosts give when read alone           *)
(* (MergeInv).  Related streams depend on which entity became the key, so  *)
(* the client's lie between those that some choice of keys gives and those *)
(* that every choice gives (RelatedInv); BoundsMeet says when there is     *)
(* nothing in between.                                                     *)
(***************************************************************************)
EXTENDS RelevantAppStreams, TLAPS

(* What the hosts read so far have given. *)
ReadInv ==
    serving => \A s \in Streams :
        /\ systems[s] = Users(batch \ unread, s)
        /\ key[s] # NoEntity => key[s] \in AllOf(batch \ unread)
        /\ systems[s] # {} => key[s] # NoEntity

(* The client's rows are those of the hosts it has asked for. *)
MergeInv ==
    merged = {m \in [stream : Streams \ Rolling, host : asked] :
                 m.stream \in StreamsOf(Alone(m.host))}

RelatedInv ==
    LET K       == AllOf(asked)
        without == StreamsOf(K) \cup Rolling
    IN  /\ related \subseteq NewerStreams(K) \ without
        /\ CertainlyNewer(K) \ without \subseteq related

-----------------------------------------------------------------------------
(* Lemmas about what hosts give.                                           *)

(* What a host gives does not depend on what the cache holds. *)
LEMMA CacheIrrelevant ==
    ASSUME NEW p, NEW cache
    PROVE  KeysOf(p, cache) = KeysOf(p, {})
  BY DEF KeysOf, AppStreamsFromModules

LEMMA KeysAreEntities ==
    ASSUME NEW p \in Profiles, NEW cache
    PROVE  KeysOf(p, cache) \subseteq Entities
<1>1. TakenModules(p) \subseteq Modules
  BY ProfilesAssumption DEF TakenModules
<1>2. VerifiedModules(p) \subseteq Modules
  BY ProfilesAssumption DEF VerifiedModules, PendingLists
<1>3. Modules \subseteq Entities
  BY EntitiesAssumption
<1> QED
  BY <1>1, <1>2, <1>3 DEF KeysOf, AppStreamsFromModules, PackageEntities

LEMMA TakenAreModules ==
    ASSUME NEW p \in Profiles
    PROVE  TakenModules(p) \subseteq Modules
  BY ProfilesAssumption DEF TakenModules

LEMMA AloneIsEntities ==
    ASSUME TypeOK, NEW h \in Hosts
    PROVE  Alone(h) \subseteq Entities
<1>1. profile[h] \in Profiles
  BY DEF TypeOK
<1> QED
  BY <1>1, KeysAreEntities DEF Alone

LEMMA AllOfIsEntities ==
    ASSUME TypeOK, NEW H \in SUBSET Hosts
    PROVE  AllOf(H) \subseteq Entities
  BY AloneIsEntities DEF AllOf

(* The streams of some hosts are those with a user among them. *)
LEMMA StreamsOfAll ==
    ASSUME NEW H
    PROVE  StreamsOf(AllOf(H)) = UNION {StreamsOf(Alone(h)) : h \in H}
  BY DEF StreamsOf, AllOf

LEMMA StreamsOfType ==
    ASSUME NEW K \in SUBSET Entities
    PROVE  StreamsOf(K) \subseteq Streams
  BY EntitiesAssumption DEF StreamsOf

-----------------------------------------------------------------------------
(* Type correctness.                                                       *)

LEMMA InitType == Init => TypeOK
  BY DEF Init, TypeOK, Found

LEMMA StartType ==
    ASSUME TypeOK, NEW B \in SUBSET Hosts, StartRequest(B)
    PROVE  TypeOK'
  BY DEF TypeOK, StartRequest, Found, clientVars

LEMMA ReadType ==
    ASSUME TypeOK, NEW h \in Hosts, ReadHost(h)
    PROVE  TypeOK'
<1> DEFINE K   == KeysOf(profile[h], moduleCache)
           new == StreamsOf(K) \ Found
<1>1. profile[h] \in Profiles
  BY DEF TypeOK
<1>2. K \subseteq Entities
  BY <1>1, KeysAreEntities
<1>3. TakenModules(profile[h]) \subseteq Modules
  BY <1>1, TakenAreModules
<1>4. PICK first \in [new -> K] :
         /\ \A s \in new : StreamOf[first[s]] = s
         /\ key' = [s \in Streams |-> IF s \in new THEN first[s] ELSE key[s]]
  BY DEF ReadHost
<1>5. \A s \in new : first[s] \in Entities
  BY <1>2, <1>4
<1>6. key' \in [Streams -> Entities \cup {NoEntity}]
  BY <1>4, <1>5 DEF TypeOK
<1>7. \A s \in Found' : StreamOf[key'[s]] = s
  BY <1>4 DEF Found, TypeOK
<1>8. systems' \in [Streams -> SUBSET batch]
  BY DEF TypeOK, ReadHost, AddSystem
<1> QED
  BY <1>3, <1>6, <1>7, <1>8 DEF TypeOK, ReadHost, clientVars

LEMMA FinishType ==
    ASSUME TypeOK, FinishRequest
    PROVE  TypeOK'
<1>1. merged' \subseteq [stream : Streams \ Rolling, host : Hosts]
  BY DEF TypeOK, FinishRequest, Rows, Found
<1>2. RelatedRows \subseteq Streams \ Rolling
  BY EntitiesAssumption DEF RelatedRows, NewerStreams
<1>3. related' \subseteq Streams \ Rolling
  BY <1>2 DEF TypeOK, FinishRequest, MergeRelated
<1>4. asked' \subseteq Hosts
  BY DEF TypeOK, FinishRequest
<1> QED
  BY <1>1, <1>3, <1>4 DEF TypeOK, FinishRequest, Found

(* Keys belong to their streams and rows list hosts of the request: the
   dictionary that systems_by_app_stream builds is well formed. *)
THEOREM TypeCorrect == Spec => []TypeOK
<1>1. TypeOK /\ [Next]_vars => TypeOK'
  <2> SUFFICES ASSUME TypeOK, [Next]_vars
               PROVE  TypeOK'
    OBVIOUS
  <2>1. ASSUME NEW B \in SUBSET Hosts, StartRequest(B) PROVE TypeOK'
    BY <2>1, StartType
  <2>2. ASSUME NEW h \in Hosts, ReadHost(h) PROVE TypeOK'
    BY <2>2, ReadType
  <2>3. CASE FinishRequest
    BY <2>3, FinishType
  <2>4. CASE UNCHANGED vars
    BY <2>4 DEF TypeOK, Found, vars, requestVars, clientVars
  <2> QED
    BY <2>1, <2>2, <2>3, <2>4 DEF Next
<1> QED
  BY <1>1, InitType, PTL DEF Spec

-----------------------------------------------------------------------------
(* While a request is served.                                              *)

LEMMA StartRead ==
    ASSUME TypeOK, NEW B \in SUBSET Hosts, StartRequest(B)
    PROVE  ReadInv'
  BY DEF ReadInv, StartRequest, Users

LEMMA ReadRead ==
    ASSUME TypeOK, ReadInv, NEW h \in Hosts, ReadHost(h)
    PROVE  ReadInv'
<1> DEFINE K    == KeysOf(profile[h], moduleCache)
           new  == StreamsOf(K) \ Found
           read == batch \ unread
<1>1. K = Alone(h)
  BY CacheIrrelevant DEF Alone
<1>2. (batch \ unread)' = read \cup {h}
  BY DEF ReadHost, TypeOK
<1>3. profile' = profile
  BY DEF ReadHost
<1>4. AllOf(batch \ unread)' = AllOf(read) \cup K
  BY <1>1, <1>2, <1>3 DEF AllOf, Alone
<1>5. PICK first \in [new -> K] :
         key' = [s \in Streams |-> IF s \in new THEN first[s] ELSE key[s]]
  BY DEF ReadHost
<1> SUFFICES ASSUME NEW s \in Streams
             PROVE  /\ systems'[s] = Users(batch \ unread, s)'
                    /\ key'[s] # NoEntity => key'[s] \in AllOf(batch \ unread)'
                    /\ systems'[s] # {} => key'[s] # NoEntity
  BY DEF ReadInv
<1>6. /\ systems[s] = Users(read, s)
      /\ key[s] # NoEntity => key[s] \in AllOf(read)
      /\ systems[s] # {} => key[s] # NoEntity
  BY DEF ReadInv, ReadHost
<1>7. systems'[s] = IF s \in StreamsOf(K) THEN systems[s] \cup {h} ELSE systems[s]
  BY DEF ReadHost, AddSystem
<1>8. Users(batch \ unread, s)' = IF s \in StreamsOf(K) THEN Users(read, s) \cup {h}
                                  ELSE Users(read, s)
  BY <1>1, <1>2, <1>3 DEF Users, Alone
<1>9. systems'[s] = Users(batch \ unread, s)'
  BY <1>2, <1>6, <1>7, <1>8
<1>10. key'[s] # NoEntity => key'[s] \in AllOf(batch \ unread)'
  BY <1>2, <1>4, <1>5, <1>6
<1>11. systems'[s] # {} => key'[s] # NoEntity
  <2>1. K \subseteq Entities
    BY KeysAreEntities DEF TypeOK
  <2>2. s \in new => key'[s] \in Entities
    BY <1>5, <2>1
  <2>3. s \in StreamsOf(K) /\ s \notin new => key'[s] = key[s] /\ key[s] # NoEntity
    BY <1>5 DEF Found
  <2>4. s \notin StreamsOf(K) => systems'[s] = systems[s] /\ key'[s] = key[s]
    BY <1>5, <1>7
  <2> QED
    BY <1>6, <2>2, <2>3, <2>4, EntitiesAssumption
<1> QED
  BY <1>9, <1>10, <1>11

LEMMA ReadInvStep ==
    ASSUME TypeOK, ReadInv, [Next]_vars
    PROVE  ReadInv'
<1>1. ASSUME NEW B \in SUBSET Hosts, StartRequest(B) PROVE ReadInv'
  BY <1>1, StartRead
<1>2. ASSUME NEW h \in Hosts, ReadHost(h) PROVE ReadInv'
  BY <1>2, ReadRead
<1>3. CASE FinishRequest
  BY <1>3 DEF FinishRequest, ReadInv
<1>4. CASE UNCHANGED vars
  BY <1>4 DEF ReadInv, Users, AllOf, Alone, vars, requestVars
<1> QED
  BY <1>1, <1>2, <1>3, <1>4 DEF Next

LEMMA ReadInvariant == Spec => [](TypeOK /\ ReadInv)
<1>1. Init => ReadInv
  BY DEF Init, ReadInv
<1> QED
  BY <1>1, ReadInvStep, TypeCorrect, PTL DEF Spec

(* A host is listed for a stream if and only if it would be alone, for any
   catalogue, inventory, order of hosts and module lists. *)
THEOREM MatchedAloneCorrect == Spec => []MatchedAlone
<1>1. ReadInv => MatchedAlone
  BY DEF ReadInv, MatchedAlone
<1> QED
  BY <1>1, ReadInvariant, PTL

(* What an answered request has found. *)
LEMMA AnsweredFound ==
    ASSUME TypeOK, ReadInv, Answered
    PROVE  /\ \A s \in Streams : systems[s] = Users(batch, s)
           /\ Found = StreamsOf(AllOf(batch))
           /\ FoundKeys \subseteq AllOf(batch)
           /\ StreamsOf(FoundKeys) = Found
<1>1. batch \ unread = batch
  BY DEF Answered
<1>2. \A s \in Streams : systems[s] = Users(batch, s)
  BY <1>1 DEF ReadInv, Answered
<1>3. \A s \in Found : key[s] \in AllOf(batch) /\ StreamOf[key[s]] = s
  BY <1>1 DEF ReadInv, Answered, Found, TypeOK
<1>4. Found \subseteq StreamsOf(AllOf(batch))
  BY <1>3 DEF StreamsOf
<1>5. ASSUME NEW s \in StreamsOf(AllOf(batch)) PROVE s \in Found
  <2>1. PICK h \in batch : s \in StreamsOf(Alone(h))
    BY StreamsOfAll
  <2>2. s \in Streams
    BY <2>1, AloneIsEntities, StreamsOfType DEF TypeOK
  <2>3. systems[s] # {}
    BY <1>2, <2>1, <2>2 DEF Users
  <2> QED
    BY <2>2, <2>3 DEF ReadInv, Answered, Found
<1>6. StreamsOf(FoundKeys) = Found
  BY <1>3 DEF StreamsOf, FoundKeys
<1>7. FoundKeys \subseteq AllOf(batch)
  BY <1>3 DEF FoundKeys
<1> QED
  BY <1>2, <1>4, <1>5, <1>6, <1>7

-----------------------------------------------------------------------------
(* The client's installed rows.                                            *)

LEMMA FinishMerge ==
    ASSUME TypeOK, ReadInv, MergeInv, FinishRequest
    PROVE  MergeInv'
<1>1. Answered
  BY DEF FinishRequest, Answered
<1>2. /\ \A s \in Streams : systems[s] = Users(batch, s)
      /\ Found = StreamsOf(AllOf(batch))
  BY <1>1, AnsweredFound
<1> DEFINE Added == UNION {{[stream |-> s, host |-> h] : h \in systems[s]} : s \in Rows}
<1>3. ASSUME NEW m \in Added
      PROVE  /\ m \in [stream : Streams \ Rolling, host : batch]
             /\ m.stream \in StreamsOf(Alone(m.host))
  BY <1>2 DEF Rows, Found, Users
<1>4. ASSUME NEW m \in [stream : Streams \ Rolling, host : batch],
             m.stream \in StreamsOf(Alone(m.host))
      PROVE  m \in Added
  <2>1. m.host \in systems[m.stream]
    BY <1>2, <1>4 DEF Users
  <2>2. m.stream \in Rows
    BY <1>2, <1>4, StreamsOfAll DEF Rows
  <2>3. m = [stream |-> m.stream, host |-> m.host]
    OBVIOUS
  <2> QED
    BY <2>1, <2>2, <2>3
<1>5. /\ merged' = merged \cup Added
      /\ asked' = asked \cup batch
      /\ profile' = profile
  BY DEF FinishRequest
<1> HIDE DEF Added
<1>6. ASSUME NEW m
      PROVE  m \in merged' <=> /\ m \in [stream : Streams \ Rolling, host : asked']
                               /\ m.stream \in StreamsOf(Alone(m.host))
  BY <1>3, <1>4, <1>5 DEF MergeInv
<1> QED
  BY <1>5, <1>6 DEF MergeInv, Alone

LEMMA MergeInvStep ==
    ASSUME TypeOK, ReadInv, MergeInv, [Next]_vars
    PROVE  MergeInv'
<1>1. ASSUME NEW B \in SUBSET Hosts, StartRequest(B) PROVE MergeInv'
  BY <1>1 DEF StartRequest, MergeInv, Alone, clientVars
<1>2. ASSUME NEW h \in Hosts, ReadHost(h) PROVE MergeInv'
  BY <1>2 DEF ReadHost, MergeInv, Alone, clientVars
<1>3. CASE FinishRequest
  BY <1>3, FinishMerge
<1>4. CASE UNCHANGED vars
  BY <1>4 DEF MergeInv, Alone, vars, clientVars
<1> QED
  BY <1>1, <1>2, <1>3, <1>4 DEF Next

LEMMA MergeInvariant == Spec => [](TypeOK /\ ReadInv /\ MergeInv)
<1>1. Init => MergeInv
  BY DEF Init, MergeInv
<1> QED
  BY <1>1, MergeInvStep, ReadInvariant, PTL DEF Spec

Gives  == [h \in Hosts |-> StreamsOf(Alone(h)) \ Rolling]
Listed == {<<m.stream, m.host>> : m \in merged}

(* The client's rows in terms of the promise. *)
LEMMA ListedIsPromised ==
    ASSUME TypeOK, MergeInv
    PROVE  Listed = Promise!RowsOf(asked)
<1>1. ASSUME NEW x \in Listed PROVE x \in Promise!RowsOf(asked)
  <2>1. PICK m \in merged : x = <<m.stream, m.host>>
    BY DEF Listed
  <2>2. m.host \in asked /\ m.host \in Hosts /\ m.stream \in StreamsOf(Alone(m.host)) \ Rolling
    BY <2>1 DEF MergeInv, TypeOK
  <2> QED
    BY <2>1, <2>2 DEF Promise!RowsOf
<1>2. ASSUME NEW x \in Promise!RowsOf(asked) PROVE x \in Listed
  <2>1. PICK h \in asked : x \in {<<r, h>> : r \in StreamsOf(Alone(h)) \ Rolling}
    BY DEF Promise!RowsOf, TypeOK
  <2>2. PICK s \in StreamsOf(Alone(h)) \ Rolling : x = <<s, h>>
    BY <2>1
  <2>3. s \in Streams
    BY <2>2, AloneIsEntities, StreamsOfType DEF TypeOK
  <2>4. [stream |-> s, host |-> h] \in merged
    BY <2>2, <2>3 DEF MergeInv
  <2> QED
    BY <2>2, <2>4 DEF Listed
<1> QED
  BY <1>1, <1>2

PromiseInv == Listed = Promise!RowsOf(asked)

LEMMA PromiseInvariant == Spec => []PromiseInv
<1>1. TypeOK /\ MergeInv => PromiseInv
  BY ListedIsPromised DEF PromiseInv
<1> QED
  BY <1>1, MergeInvariant, PTL

(* A response merges its batch, anything else leaves the client alone. *)
LEMMA PromiseStep ==
    ASSUME TypeOK, PromiseInv, PromiseInv', [Next]_vars
    PROVE  [Promise!Next]_(Promise!clientVars)
<1>0. profile' = profile
  BY DEF Next, StartRequest, ReadHost, FinishRequest, vars
<1>1. Gives' = Gives
  BY <1>0 DEF Gives, Alone
<1>2. CASE FinishRequest
  <2>1. asked' = asked \cup batch /\ batch \in SUBSET Hosts
    BY <1>2 DEF FinishRequest, TypeOK
  <2>2. Listed' = Promise!RowsOf(asked')
    BY <1>0 DEF PromiseInv, Promise!RowsOf, Alone
  <2>3. Promise!Merge(batch)
    BY <1>1, <2>1, <2>2 DEF Promise!Merge, Gives, Listed
  <2>4. Promise!Next
    BY <2>1, <2>3 DEF Promise!Next, Promise!Merge
  <2> QED
    BY <2>4
<1>3. CASE UNCHANGED clientVars
  BY <1>1, <1>3 DEF Promise!clientVars, clientVars, Gives, Listed
<1> QED
  BY <1>2, <1>3 DEF Next, StartRequest, ReadHost, vars

(* Whatever the batches and the order in which their hosts are read, the client
   has the rows that BatchedRows promises. *)
THEOREM PromiseKept == Spec => BatchesKeepThePromise
<1>1. Init => Promise!Init
  BY DEF Init, Promise!Init
<1>2. TypeOK /\ PromiseInv /\ PromiseInv' /\ [Next]_vars => [Promise!Next]_(Promise!clientVars)
  BY PromiseStep
<1> QED
  BY <1>1, <1>2, TypeCorrect, PromiseInvariant, PTL DEF Spec, BatchesKeepThePromise, Promise!Spec

(* So batches that cover the hosts merge into the rows of one request. *)
THEOREM RowsMatchWhole == Spec => []Promise!WholeIsListed
  BY PromiseKept, Promise!PromiseGivesWhole, PTL DEF BatchesKeepThePromise

-----------------------------------------------------------------------------
(* The client's related streams.                                           *)

LEMMA NewerOfUnion ==
    ASSUME NEW A, NEW B
    PROVE  NewerStreams(A \cup B) = NewerStreams(A) \cup NewerStreams(B)
  BY DEF NewerStreams

(* A stream that every entity of the keys' streams makes newer is newer than
   the keys, whichever they are. *)
LEMMA CertainFromKeys ==
    ASSUME NEW K, NEW F \in SUBSET K, StreamsOf(K) \subseteq StreamsOf(F)
    PROVE  CertainlyNewer(K) \subseteq NewerStreams(F)
<1> SUFFICES ASSUME NEW s \in StreamsOf(K), NEW t \in Streams,
                    \A e \in K : StreamOf[e] = s => t \in NewerStreams({e})
             PROVE  t \in NewerStreams(F)
  BY DEF CertainlyNewer
<1>1. PICK e \in F : StreamOf[e] = s
  BY DEF StreamsOf
<1>2. t \in NewerStreams({e})
  BY <1>1
<1> QED
  BY <1>2 DEF NewerStreams

(* What is certain of two sets of entities is certain of one of them. *)
LEMMA CertainOfUnion ==
    ASSUME NEW A, NEW B
    PROVE  CertainlyNewer(A \cup B) \subseteq CertainlyNewer(A) \cup CertainlyNewer(B)
<1> SUFFICES ASSUME NEW s \in StreamsOf(A \cup B), NEW t \in Streams,
                    \A e \in A \cup B : StreamOf[e] = s => t \in NewerStreams({e})
             PROVE  t \in CertainlyNewer(A) \cup CertainlyNewer(B)
  BY DEF CertainlyNewer
<1>1. s \in StreamsOf(A) \/ s \in StreamsOf(B)
  BY DEF StreamsOf
<1> QED
  BY <1>1 DEF CertainlyNewer

(* Where entities of one stream have the same newer streams, as those with one
   version and start date do, the bounds of the client's related streams meet:
   it has the related streams of a single request. *)
THEOREM BoundsMeet ==
    ASSUME NEW K \in SUBSET Entities,
           \A a, b \in K : StreamOf[a] = StreamOf[b] => NewerStreams({a}) = NewerStreams({b})
    PROVE  CertainlyNewer(K) = NewerStreams(K)
<1>1. CertainlyNewer(K) \subseteq NewerStreams(K)
  BY CertainFromKeys
<1>2. ASSUME NEW t \in NewerStreams(K) PROVE t \in CertainlyNewer(K)
  <2>1. PICK i \in K : t \in NewerStreams({i})
    BY DEF NewerStreams
  <2>2. t \in Streams
    BY EntitiesAssumption DEF NewerStreams
  <2> DEFINE certain(s) ==
               {x \in Streams : \A e \in K : StreamOf[e] = s => x \in NewerStreams({e})}
  <2>3. t \in certain(StreamOf[i])
    BY <2>1, <2>2
  <2>4. StreamOf[i] \in StreamsOf(K)
    BY DEF StreamsOf
  <2>5. CertainlyNewer(K) = UNION {certain(s) : s \in StreamsOf(K)}
    BY DEF CertainlyNewer
  <2> HIDE DEF certain
  <2> QED
    BY <2>3, <2>4, <2>5
<1> QED
  BY <1>1, <1>2

LEMMA FinishRelated ==
    ASSUME TypeOK, ReadInv, MergeInv, RelatedInv, FinishRequest
    PROVE  RelatedInv'
<1> DEFINE A == AllOf(asked)
           B == AllOf(batch)
<1>1. Answered
  BY DEF FinishRequest, Answered
<1>2. AllOf(asked)' = A \cup B
  BY DEF FinishRequest, AllOf, Alone
<1>3. /\ Found = StreamsOf(B)
      /\ FoundKeys \subseteq B
      /\ StreamsOf(FoundKeys) = StreamsOf(B)
  BY <1>1, AnsweredFound
<1>4. B \subseteq Entities
  BY AllOfIsEntities DEF TypeOK
<1>5. NewerStreams(FoundKeys) \subseteq NewerStreams(B)
  BY <1>3 DEF NewerStreams
<1>6. CertainlyNewer(B) \subseteq NewerStreams(FoundKeys)
  BY <1>3, CertainFromKeys
<1>7. /\ related \subseteq NewerStreams(A) \ (StreamsOf(A) \cup Rolling)
      /\ CertainlyNewer(A) \ (StreamsOf(A) \cup Rolling) \subseteq related
      /\ RelatedRows = (NewerStreams(FoundKeys) \ StreamsOf(B)) \ Rolling
  BY <1>3 DEF RelatedInv, RelatedRows
<1>8. {m.stream : m \in merged'} = StreamsOf(A \cup B) \ Rolling
  <2>1. MergeInv' /\ asked' \subseteq Hosts /\ profile' = profile
    BY FinishMerge, FinishType DEF TypeOK, FinishRequest
  <2>2. StreamsOf(A \cup B) = UNION {StreamsOf(Alone(h)) : h \in asked'}
    BY StreamsOfAll DEF FinishRequest, StreamsOf, AllOf
  <2>3. \A h \in asked' : StreamsOf(Alone(h)) \subseteq Streams
    BY <2>1, AloneIsEntities, StreamsOfType
  <2>4. merged' = {m \in [stream : Streams \ Rolling, host : asked'] :
                      m.stream \in StreamsOf(Alone(m.host))}
    BY <2>1 DEF MergeInv, Alone
  <2>5. ASSUME NEW m \in merged' PROVE m.stream \in StreamsOf(A \cup B) \ Rolling
    BY <2>2, <2>4
  <2>6. ASSUME NEW s \in StreamsOf(A \cup B) \ Rolling
        PROVE  \E m \in merged' : m.stream = s
    <3>1. PICK h \in asked' : s \in StreamsOf(Alone(h))
      BY <2>2
    <3>2. [stream |-> s, host |-> h] \in merged'
      BY <2>3, <2>4, <3>1
    <3> QED
      BY <3>2
  <2> QED
    BY <2>5, <2>6
<1>9. StreamsOf(A \cup B) = StreamsOf(A) \cup StreamsOf(B)
  BY DEF StreamsOf
<1>10. NewerStreams(A \cup B) = NewerStreams(A) \cup NewerStreams(B)
  BY NewerOfUnion
<1>11. related' = (related \cup RelatedRows) \ {m.stream : m \in merged'}
  BY DEF FinishRequest, MergeRelated
<1>12. CertainlyNewer(A \cup B) \subseteq CertainlyNewer(A) \cup CertainlyNewer(B)
  BY CertainOfUnion
<1>13. related' \cap Rolling = {}
  BY <1>7, <1>11
<1>14. RelatedInv' <=>
           /\ related' \subseteq NewerStreams(A \cup B) \ (StreamsOf(A \cup B) \cup Rolling)
           /\ CertainlyNewer(A \cup B) \ (StreamsOf(A \cup B) \cup Rolling) \subseteq related'
  BY <1>2 DEF RelatedInv, NewerStreams, StreamsOf, CertainlyNewer
<1> HIDE DEF A, B
<1>15. related' \subseteq NewerStreams(A \cup B) \ (StreamsOf(A \cup B) \cup Rolling)
  BY <1>5, <1>7, <1>8, <1>10, <1>11, <1>13
<1>16. CertainlyNewer(A \cup B) \ (StreamsOf(A \cup B) \cup Rolling) \subseteq related'
  BY <1>6, <1>7, <1>8, <1>9, <1>11, <1>12
<1> QED
  BY <1>14, <1>15, <1>16

LEMMA RelatedInvStep ==
    ASSUME TypeOK, ReadInv, MergeInv, RelatedInv, [Next]_vars
    PROVE  RelatedInv'
<1>1. ASSUME NEW B \in SUBSET Hosts, StartRequest(B) PROVE RelatedInv'
  BY <1>1 DEF StartRequest, RelatedInv, AllOf, Alone, clientVars
<1>2. ASSUME NEW h \in Hosts, ReadHost(h) PROVE RelatedInv'
  BY <1>2 DEF ReadHost, RelatedInv, AllOf, Alone, clientVars
<1>3. CASE FinishRequest
  BY <1>3, FinishRelated
<1>4. CASE UNCHANGED vars
  BY <1>4 DEF RelatedInv, AllOf, Alone, vars, clientVars
<1> QED
  BY <1>1, <1>2, <1>3, <1>4 DEF Next

(* Whatever the batches, the order of their hosts and the catalogue, the merge
   has no related stream that a host has installed or that is newer than no
   entity of the hosts, and each that is newer than all entities that they have
   of some stream. *)
THEOREM RelatedCorrect == Spec => []RelatedBatchesMatchWhole
<1>1. Init => RelatedInv
  BY DEF Init, RelatedInv, CertainlyNewer, StreamsOf, AllOf
<1>2. RelatedInv => RelatedBatchesMatchWhole
  BY DEF RelatedInv, RelatedBatchesMatchWhole
<1> QED
  BY <1>1, <1>2, RelatedInvStep, MergeInvariant, PTL DEF Spec

-----------------------------------------------------------------------------
(* Rows against pages and counts.                                          *)

(* Asked by a name that stands for the whole stream, with the row's major and
   minor or without the minor, the pages cover the row, and are the row when no
   other key has the name. *)
THEOREM PagesCorrect == Spec => []PagesCoverRows
<1>1. TypeOK => PagesCoverRows
  <2> SUFFICES ASSUME TypeOK, NEW s \in Rows, NEW name \in NamesOf(s),
                      NEW minor \in {Omitted, Minor[s]} \ {NoMinor}
               PROVE  LET listed == Listing(name, Major[s], minor)
                      IN  /\ systems[s] \subseteq listed
                          /\ (\A r \in Found \ {s} : ~Named(r, name)) => listed = systems[s]
    BY DEF PagesCoverRows
  <2> DEFINE matched == {r \in Found : Named(r, name) /\ Major[r] = Major[s]}
             exact   == {r \in matched : Minor[r] = minor}
             chosen  == IF minor = Omitted THEN matched
                        ELSE IF exact # {} THEN exact
                        ELSE {r \in matched : Minor[r] = NoMinor}
  <2>1. Named(s, name)
    <3>1. key[s] \in Entities /\ StreamOf[key[s]] = s
      BY DEF TypeOK, Rows, Found
    <3>2. ShortName[key[s]] \in {ShortName[e] : e \in {a \in Entities : StreamOf[a] = s}}
      BY <3>1
    <3> QED
      BY <3>2 DEF NamesOf, Named
  <2>2. s \in matched
    BY <2>1 DEF Rows
  <2>3. minor # Omitted => s \in exact
    BY <2>2
  <2>4. s \in chosen /\ chosen \subseteq matched
    BY <2>2, <2>3
  <2>5. (\A r \in Found \ {s} : ~Named(r, name)) => matched = {s}
    BY <2>2
  <2>6. Listing(name, Major[s], minor) = SystemsOf(chosen)
    BY DEF Listing
  <2> HIDE DEF matched, chosen
  <2> QED
    BY <2>4, <2>5, <2>6 DEF SystemsOf
<1> QED
  BY <1>1, TypeCorrect, PTL

(* What verifies a module of a list is a package of no other module. *)
LEMMA VerifiedByOwnPackage ==
    ASSUME ModuleNamesAreOwn, NEW l \in ModuleLists, NEW names, Verified(l, names)
    PROVE  \E n \in names : n \in OwnPackages(l)
<1>1. CASE (l.names \cap names) \ SharedNames(l.major) # {}
  <2>1. PICK n \in l.names \cap names : n \notin SharedNames(l.major)
    BY <1>1
  <2>2. ASSUME NEW k \in ModuleLists, k.major = l.major, k.module # l.module
        PROVE  n \notin k.names
    BY <2>1, <2>2 DEF SharedNames
  <2> QED
    BY <2>1, <2>2 DEF OwnPackages
<1>2. CASE l.module \in names
  BY <1>2 DEF ModuleNamesAreOwn, OwnPackages
<1> QED
  BY <1>1, <1>2 DEF Verified

LEMMA OwnPackagesFromRead ==
    ASSUME TypeOK, ReadInv
    PROVE  EnabledModulesHaveOwnPackages
<1> SUFFICES ASSUME ModuleNamesAreOwn, Answered, NEW m \in Modules,
                    NEW h \in systems[StreamOf[m]], m \notin TakenModules(profile[h])
             PROVE  \E l \in ModuleLists, q \in profile[h].packages :
                        l.entity = m /\ q.name \in OwnPackages(l)
  BY DEF EnabledModulesHaveOwnPackages
<1>1. m \in Entities /\ StreamOf[m] \in Streams
  BY EntitiesAssumption
<1>2. h \in batch /\ StreamOf[m] \in StreamsOf(Alone(h))
  BY <1>1, AnsweredFound DEF Users
<1>3. PICK e \in Alone(h) : StreamOf[e] = StreamOf[m]
  BY <1>2 DEF StreamsOf
<1>4. e = m
  BY <1>2, <1>3, AloneIsEntities, EntitiesAssumption DEF TypeOK
<1>5. m \in VerifiedModules(profile[h])
  BY <1>3, <1>4 DEF Alone, KeysOf, AppStreamsFromModules, PackageEntities
<1>6. PICK l \in ModuleLists : /\ l.entity = m
                               /\ Verified(l, {q.name : q \in profile[h].packages})
  BY <1>5 DEF VerifiedModules, PendingLists
<1>7. \E n \in {q.name : q \in profile[h].packages} : n \in OwnPackages(l)
  BY <1>6, VerifiedByOwnPackage
<1> QED
  BY <1>6, <1>7

(* A module that a host has only enabled is listed on the strength of a package
   that belongs to this module alone, whatever the module lists share. *)
THEOREM OwnPackagesCorrect == Spec => []EnabledModulesHaveOwnPackages
  BY OwnPackagesFromRead, ReadInvariant, PTL

LEMMA CountsFromKeys ==
    ASSUME TypeOK, ReadInv
    PROVE  NotificationCountsHosts
<1> SUFFICES ASSUME Answered, NEW status \in NotifyStatuses,
                    NEW major \in {Major[s] : s \in Streams}
             PROVE  LET section == Section(status, major)
                    IN  /\ \A s \in section : Major[s] = major /\ status \in StatusesOf(s)
                        /\ \A s \in Streams :
                               Major[s] = major /\ StatusesOf(s) = {status} => s \in section
                        /\ SystemsCount(status, major) =
                               Cardinality({h \in batch : StreamsOf(Alone(h)) \cap section # {}})
  BY DEF NotificationCountsHosts
<1> DEFINE section == Section(status, major)
<1>1. /\ \A s \in Streams : systems[s] = Users(batch, s)
      /\ Found = StreamsOf(AllOf(batch))
      /\ FoundKeys \subseteq AllOf(batch)
  BY AnsweredFound
<1>2. \A s \in Found : s \in Streams /\ key[s] \in AllOf(batch) /\ StreamOf[key[s]] = s
  BY <1>1 DEF Found, FoundKeys, TypeOK
<1>3. \A s \in Found : SupportStatus(key[s]) \in StatusesOf(s)
  BY <1>2 DEF StatusesOf
<1>4. \A s \in section : Major[s] = major /\ status \in StatusesOf(s)
  BY <1>3 DEF Section
<1>5. ASSUME NEW s \in Streams, Major[s] = major, StatusesOf(s) = {status}
      PROVE  s \in section
  <2>1. s \in StreamsOf(AllOf(batch))
    BY <1>5 DEF StatusesOf, StreamsOf
  <2> QED
    BY <1>1, <1>3, <1>5, <2>1 DEF Section
<1>6. SystemsOf(section) = {h \in batch : StreamsOf(Alone(h)) \cap section # {}}
  <2>1. \A s \in section : systems[s] = {h \in batch : s \in StreamsOf(Alone(h))}
    BY <1>1, <1>2 DEF Section, Users
  <2> HIDE DEF section
  <2> QED
    BY <2>1 DEF SystemsOf
<1> QED
  BY <1>4, <1>5, <1>6 DEF SystemsCount

(* Each section has the streams of which all entities of the hosts are in its
   status, none of which no entity is, and counts each host that has one of its
   streams once; no agreement between entities of a stream is assumed. *)
THEOREM NotificationCountsCorrect == Spec => []NotificationCountsHosts
  BY CountsFromKeys, ReadInvariant, PTL
=============================================================================
