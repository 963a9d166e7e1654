-------------------------- MODULE KubeQueueProofs --------------------------
(***************************************************************************)
(* Theorems about the whole process, with every fault the model has:       *)
(* failing calls, lost replies, missed deletes, crashes and restarts.      *)
(***************************************************************************)
EXTENDS KubeQueue, ResourceQuotaProofs, SequenceTheorems

----------------------------------------------------------------------------
(***************************************************************************)
(* Maps.                                                                   *)
(***************************************************************************)

\* What it means to be a map from some of A to B (the Go maps of the code).
LEMMA MapsToDef ==
  ASSUME NEW A, NEW B, NEW f
  PROVE  f \in MapsTo(A, B) <=> DOMAIN f \in SUBSET A /\ f \in [DOMAIN f -> B]
<1>1. ASSUME f \in MapsTo(A, B)
      PROVE  DOMAIN f \in SUBSET A /\ f \in [DOMAIN f -> B]
  <2>1. PICK S \in SUBSET A : f \in [S -> B]
    BY <1>1 DEF MapsTo
  <2>2. QED
    BY <2>1
<1>2. ASSUME DOMAIN f \in SUBSET A, f \in [DOMAIN f -> B]
      PROVE  f \in MapsTo(A, B)
  BY <1>2 DEF MapsTo
<1>3. QED
  BY <1>1, <1>2

\* An empty map has every type.
LEMMA EmptyMapType ==
  ASSUME NEW A, NEW B
  PROVE  EmptyMap \in MapsTo(A, B)
<1>1. DOMAIN EmptyMap = {} /\ EmptyMap \in [DOMAIN EmptyMap -> B]
  BY DEF EmptyMap
<1>2. QED
  BY <1>1, MapsToDef

\* A map stays a map when a key is set.
LEMMA PutType ==
  ASSUME NEW A, NEW B, NEW f \in MapsTo(A, B), NEW k \in A, NEW v \in B
  PROVE  /\ Put(f, k, v) \in MapsTo(A, B)
         /\ DOMAIN Put(f, k, v) = DOMAIN f \cup {k}
<1>1. DOMAIN f \in SUBSET A /\ f \in [DOMAIN f -> B]
  BY MapsToDef
<1>2. /\ DOMAIN Put(f, k, v) = DOMAIN f \cup {k}
      /\ Put(f, k, v) \in [DOMAIN f \cup {k} -> B]
  BY <1>1 DEF Put
<1>3. QED
  BY <1>1, <1>2, MapsToDef

\* A map stays a map when a key is removed.
LEMMA DropType ==
  ASSUME NEW A, NEW B, NEW f \in MapsTo(A, B), NEW k
  PROVE  Drop(f, k) \in MapsTo(A, B)
<1>1. DOMAIN f \in SUBSET A /\ f \in [DOMAIN f -> B]
  BY MapsToDef
<1>2. DOMAIN Drop(f, k) = DOMAIN f \ {k} /\ Drop(f, k) \in [DOMAIN f \ {k} -> B]
  BY <1>1 DEF Drop
<1>3. QED
  BY <1>1, <1>2, MapsToDef

\* A map may be given a larger range (the table of queues grows).
LEMMA MapsToMono ==
  ASSUME NEW A, NEW B, NEW C, B \subseteq C, NEW f \in MapsTo(A, B)
  PROVE  f \in MapsTo(A, C)
<1>1. DOMAIN f \in SUBSET A /\ f \in [DOMAIN f -> B]
  BY MapsToDef
<1>2. f \in [DOMAIN f -> C]
  BY <1>1
<1>3. QED
  BY <1>1, <1>2, MapsToDef

\* A function on 1 .. n is a sequence, and a sequence is such a function.
LEMMA FunctionIsSeq ==
  ASSUME NEW S, NEW n \in Nat, NEW f \in [1 .. n -> S]
  PROVE  f \in Seq(S)
OBVIOUS

\* The other direction.
LEMMA SeqIsFunction ==
  ASSUME NEW S, NEW s \in Seq(S)
  PROVE  Len(s) \in Nat /\ DOMAIN s = 1 .. Len(s) /\ s \in [1 .. Len(s) -> S]
OBVIOUS

\* A FIFO: an event at the end, the oldest event, the events after it.
LEMMA FifoType ==
  ASSUME NEW S, NEW s \in Seq(S)
  PROVE  /\ \A e \in S : /\ Append(s, e) \in Seq(S)
                         /\ DOMAIN Append(s, e) = DOMAIN s \cup {Len(s) + 1}
         /\ s # << >> => Head(s) \in S /\ Tail(s) \in Seq(S)
         /\ Len(s) > 1 => Tail(s) # << >>
         /\ Len(s) \in Nat
<1>1. Len(s) \in Nat /\ (s # << >> => Head(s) \in S /\ Tail(s) \in Seq(S))
  OBVIOUS
<1>2. \A e \in S : /\ Append(s, e) \in Seq(S)
                   /\ DOMAIN Append(s, e) = DOMAIN s \cup {Len(s) + 1}
  OBVIOUS
<1>3. ASSUME Len(s) > 1 PROVE Tail(s) # << >>
  <2>1. Len(Tail(s)) = Len(s) - 1
    BY <1>1, <1>3
  <2>2. Len(Tail(s)) # 0
    <3> DEFINE n == Len(s)
               m == Len(Tail(s))
    <3>1. n \in Nat /\ n > 1 /\ m = n - 1
      BY <1>1, <1>3, <2>1
    <3> HIDE DEF n, m
    <3>2. m # 0
      BY <3>1
    <3>3. QED
      BY <3>2 DEF m
  <2>3. Len(<< >>) = 0
    OBVIOUS
  <2>4. QED
    BY <2>2, <2>3, Zenon
<1>4. QED
  BY <1>1, <1>2, <1>3

\* An event put at the end of a FIFO.
LEMMA AppendAt ==
  ASSUME NEW S, NEW s \in Seq(S), NEW e \in S
  PROVE  /\ s \o << e >> = Append(s, e)
         /\ DOMAIN Append(s, e) = DOMAIN s \cup {Len(s) + 1}
         /\ Append(s, e)[Len(s) + 1] = e
         /\ \A i \in DOMAIN s : /\ Append(s, e)[i] = s[i]
                                /\ i \in Nat /\ i < Len(s) + 1
         /\ Len(s) \in Nat
<1>1. Len(s) \in Nat /\ DOMAIN s = 1 .. Len(s)
  BY SeqIsFunction
<1>2. s \o << e >> = Append(s, e)
  OBVIOUS
<1>3. /\ DOMAIN Append(s, e) = DOMAIN s \cup {Len(s) + 1}
      /\ Append(s, e)[Len(s) + 1] = e
      /\ \A i \in DOMAIN s : Append(s, e)[i] = s[i]
  BY FifoType
<1>4. \A i \in DOMAIN s : i \in Nat /\ i < Len(s) + 1
  BY <1>1
<1>5. QED
  BY <1>1, <1>2, <1>3, <1>4

\* The oldest event taken from a FIFO.
LEMMA TailAt ==
  ASSUME NEW S, NEW s \in Seq(S), s # << >>
  PROVE  /\ 1 \in DOMAIN s /\ Head(s) = s[1]
         /\ \A i \in DOMAIN Tail(s) : /\ i \in Nat /\ 1 < i + 1
                                      /\ i + 1 \in DOMAIN s
                                      /\ Tail(s)[i] = s[i + 1]
<1>1. Len(s) \in Nat /\ DOMAIN s = 1 .. Len(s) /\ Len(s) > 0
  BY SeqIsFunction
<1>2. /\ Tail(s) \in Seq(S) /\ Len(Tail(s)) = Len(s) - 1
      /\ \A i \in 1 .. Len(Tail(s)) : Tail(s)[i] = s[i + 1]
  BY HeadTailProperties
<1>3. DOMAIN Tail(s) = 1 .. Len(Tail(s))
  BY <1>2, SeqIsFunction
<1> DEFINE n == Len(s)
           m == Len(Tail(s))
<1>4. n \in Nat /\ n > 0 /\ m = n - 1
  BY <1>1, <1>2
<1> HIDE DEF n, m
<1>5. 1 \in 1 .. n /\ \A i \in 1 .. m : i \in Nat /\ 1 < i + 1 /\ i + 1 \in 1 .. n
  BY <1>4
<1>6. Head(s) = s[1]
  OBVIOUS
<1>7. QED
  BY <1>1, <1>2, <1>3, <1>5, <1>6 DEF n, m

\* A sequence may be given a larger range.
LEMMA SeqMono ==
  ASSUME NEW A, NEW B, A \subseteq B, NEW s \in Seq(A)
  PROVE  s \in Seq(B)
<1>1. Len(s) \in Nat /\ s \in [1 .. Len(s) -> A]
  OBVIOUS
<1>2. s \in [1 .. Len(s) -> B]
  BY <1>1
<1>3. QED
  BY <1>1, <1>2

\* The orders of a finite set are sequences over it (map iteration in SortedQueue,
\* the list of an informer).
LEMMA SetToSeqsType ==
  ASSUME NEW S, IsFiniteSet(S), NEW s \in SetToSeqs(S)
  PROVE  s \in Seq(S)
<1>1. Cardinality(S) \in Nat
  BY FS_CardinalityType
<1>2. s \in [1 .. Cardinality(S) -> S]
  BY DEF SetToSeqs
<1>3. QED
  BY <1>1, <1>2

----------------------------------------------------------------------------
(***************************************************************************)
(* The queues.                                                             *)
(***************************************************************************)

\* Every method of a queue leaves a queue: keys of units with their specs, in
\* both heaps (priority_scheduling_queue.go).
LEMMA SQType ==
  ASSUME NEW pq \in QueueType, NEW u \in Units, NEW spec \in Specs
  PROVE  /\ SQAdd(pq, u, spec) \in QueueType
         /\ SQAddUnschedulableIfNotPresent(pq, u, spec) \in QueueType
         /\ SQDelete(pq, u) \in QueueType
         /\ SQUpdate(pq, u, spec) \in QueueType
         /\ SQPop(pq, u) \in QueueType
<1>1. pq.items \in SpecMap /\ pq.backoffQ \in SpecMap
  BY DEF QueueType
<1>2. /\ Put(pq.items, u, spec) \in SpecMap
      /\ Put(pq.backoffQ, u, spec) \in SpecMap
      /\ Drop(pq.items, u) \in SpecMap
      /\ Drop(pq.backoffQ, u) \in SpecMap
  BY <1>1, PutType, DropType DEF SpecMap
<1>3. \A f \in SpecMap : /\ [pq EXCEPT !.items = f] \in QueueType
                              /\ [pq EXCEPT !.backoffQ = f] \in QueueType
  BY DEF QueueType
<1>4. QED
  BY <1>2, <1>3 DEF SQAdd, SQAddUnschedulableIfNotPresent, SQDelete, SQUpdate, SQPop

\* So does a flush of the backoff queue (flushBackoffQCompleted).
LEMMA SQFlushType ==
  ASSUME NEW pq \in QueueType, NEW S \in SUBSET DOMAIN pq.backoffQ
  PROVE  SQFlush(pq, S) \in QueueType
<1> DEFINE items == [u \in DOMAIN pq.items \cup S |->
                       IF u \in S THEN pq.backoffQ[u] ELSE pq.items[u]]
           backoffQ == [u \in DOMAIN pq.backoffQ \ S |-> pq.backoffQ[u]]
<1>1. pq.items \in SpecMap /\ pq.backoffQ \in SpecMap
  BY DEF QueueType
<1>2. /\ DOMAIN pq.items \in SUBSET Units
      /\ pq.items \in [DOMAIN pq.items -> Specs]
      /\ DOMAIN pq.backoffQ \in SUBSET Units
      /\ pq.backoffQ \in [DOMAIN pq.backoffQ -> Specs]
  BY <1>1, MapsToDef DEF SpecMap
<1>3. items \in SpecMap
  <2>1. DOMAIN items \in SUBSET Units /\ items \in [DOMAIN items -> Specs]
    BY <1>2
  <2> HIDE DEF items
  <2>2. QED
    BY <2>1, MapsToDef DEF SpecMap
<1>4. backoffQ \in SpecMap
  <2>1. DOMAIN backoffQ \in SUBSET Units /\ backoffQ \in [DOMAIN backoffQ -> Specs]
    BY <1>2
  <2> HIDE DEF backoffQ
  <2>2. QED
    BY <2>1, MapsToDef DEF SpecMap
<1>5. SQFlush(pq, S) = [pq EXCEPT !.items = items, !.backoffQ = backoffQ]
  BY DEF SQFlush
<1> HIDE DEF items, backoffQ
<1>6. QED
  BY <1>3, <1>4, <1>5 DEF QueueType

\* Pop returns a unit.
LEMMA TopsType ==
  ASSUME NEW pq \in QueueType
  PROVE  Tops(pq) \subseteq Units /\ \A u \in Tops(pq) : pq.items[u] \in Specs
<1>1. pq.items \in SpecMap
  BY DEF QueueType
<1>2. DOMAIN pq.items \in SUBSET Units /\ pq.items \in [DOMAIN pq.items -> Specs]
  BY <1>1, MapsToDef DEF SpecMap
<1>3. QED
  BY <1>2 DEF Tops

\* An operation on one queue leaves the table and the map in place.
LEMMA SetQueueType ==
  ASSUME MQTypeOK, NEW i, NEW pq, pq \in QueueType, SetQueue(i, pq)
  PROVE  /\ queues' \in Seq(QueueType)
         /\ DOMAIN queues' = DOMAIN queues
         /\ queueMap' \in MapsTo(Namespaces, DOMAIN queues')
<1>1. DOMAIN queues' = DOMAIN queues /\ queueMap' = queueMap
  BY DEF SetQueue
<1>2. Len(queues) \in Nat /\ queues \in [1 .. Len(queues) -> QueueType]
  BY DEF MQTypeOK
<1>3. queues' \in [1 .. Len(queues) -> QueueType]
  BY <1>2 DEF SetQueue
<1>4. queues' \in Seq(QueueType)
  BY <1>2, <1>3, FunctionIsSeq
<1>5. QED
  BY <1>1, <1>4 DEF MQTypeOK

\* The queue of a pointer.
LEMMA QueueAt ==
  ASSUME MQTypeOK, NEW i \in DOMAIN queues
  PROVE  queues[i] \in QueueType
BY DEF MQTypeOK

\* A new queue is empty (NewPrioritySchedulingQueue).
LEMMA NewQueueType ==
  ASSUME NEW q \in QueueObjects
  PROVE  NewPrioritySchedulingQueue(q) \in QueueType
<1>1. EmptyMap \in SpecMap
  BY EmptyMapType DEF SpecMap
<1>2. QueueNs[q] \in Namespaces /\ QueuePriority[q] \in Int
  BY ConstantsOK DEF ConstantsOK
<1>3. QED
  BY <1>1, <1>2 DEF NewPrioritySchedulingQueue, QueueType

\* The queues of the map are in the table, and there are finitely many of them.
LEMMA RegisteredType ==
  ASSUME MQTypeOK
  PROVE  Registered \in SUBSET DOMAIN queues /\ IsFiniteSet(Registered)
<1>1. queueMap \in [DOMAIN queueMap -> DOMAIN queues]
  BY MapsToDef DEF MQTypeOK
<1>2. Registered \in SUBSET DOMAIN queues
  BY <1>1 DEF Registered
<1>3. DOMAIN queues = 1 .. Len(queues) /\ Len(queues) \in Nat
  BY DEF MQTypeOK
<1>4. IsFiniteSet(DOMAIN queues)
  BY <1>3, FS_Interval
<1>5. QED
  BY <1>2, <1>4, FS_Subset

\* Adding a queue to the table and to the map: pointers stay valid.
LEMMA NewEntryType ==
  ASSUME MQTypeOK, NEW q \in QueueObjects,
         queueMap' = Put(queueMap, QueueNs[q], Len(queues) + 1),
         NEW qs, qs = Append(queues, NewPrioritySchedulingQueue(q)),
         NEW I, queues' = qs \/ queues' = RunAll(qs, I)
  PROVE  /\ queues' \in Seq(QueueType)
         /\ DOMAIN queues \subseteq DOMAIN queues'
         /\ queueMap' \in MapsTo(Namespaces, DOMAIN queues')
<1>1. queues \in Seq(QueueType) /\ NewPrioritySchedulingQueue(q) \in QueueType
  BY NewQueueType DEF MQTypeOK
<1>2. qs \in Seq(QueueType) /\ DOMAIN qs = DOMAIN queues \cup {Len(queues) + 1}
  BY <1>1, FifoType
<1>3. queues' \in Seq(QueueType) /\ DOMAIN queues' = DOMAIN qs
  <2>1. CASE queues' = qs
    BY <1>2, <2>1
  <2>2. CASE queues' = RunAll(qs, I)
    <3>1. \A pq \in QueueType : [pq EXCEPT !.run = TRUE] \in QueueType
      BY DEF QueueType
    <3>2. DOMAIN qs = 1 .. Len(qs) /\ Len(qs) \in Nat /\ qs \in [1 .. Len(qs) -> QueueType]
      BY <1>2, SeqIsFunction
    <3>3. RunAll(qs, I) \in [1 .. Len(qs) -> QueueType]
      BY <3>1, <3>2 DEF RunAll
    <3>4. RunAll(qs, I) \in Seq(QueueType)
      BY <3>2, <3>3, FunctionIsSeq
    <3>5. DOMAIN RunAll(qs, I) = DOMAIN qs
      BY DEF RunAll
    <3>6. QED
      BY <2>2, <3>4, <3>5, Zenon
  <2>3. QED
    BY <2>1, <2>2
<1>4. QueueNs[q] \in Namespaces
  BY ConstantsOK DEF ConstantsOK
<1>5. queueMap \in MapsTo(Namespaces, DOMAIN queues')
  BY <1>2, <1>3, MapsToMono DEF MQTypeOK
<1>6. queueMap' \in MapsTo(Namespaces, DOMAIN queues')
  BY <1>2, <1>3, <1>4, <1>5, PutType
<1>7. QED
  BY <1>2, <1>3, <1>6

----------------------------------------------------------------------------
(***************************************************************************)
(* The API server.                                                         *)
(***************************************************************************)
\* A step that leaves the API server alone.
LEMMA ApiSame == ApiTypeOK /\ UNCHANGED apiVars => ApiTypeOK'
BY DEF ApiTypeOK, apiVars, unitVars, queueVars

\* A bound that is used up does not become negative.
LEMMA SpendType ==
  ASSUME left \in [Kinds -> Nat], NEW K, Spend(K)
  PROVE  left' \in [Kinds -> Nat]
BY DEF Spend

\* A stored object.
LEMMA StoredType ==
  ASSUME NEW new \in MapsTo(Units, Objs), NEW u \in DOMAIN new
  PROVE  u \in Units /\ new[u] \in Objs
<1>1. DOMAIN new \in SUBSET Units /\ new \in [DOMAIN new -> Objs]
  BY MapsToDef
<1>2. QED
  BY <1>1

\* What the informer has seen is a map of objects.
LEMMA SeenType ==
  ASSUME ApiTypeOK
  PROVE  /\ DOMAIN seen = DOMAIN api \cup DOMAIN unseen
         /\ \A u \in DOMAIN api : seen[u] = api[u]
         /\ \A u \in DOMAIN seen : u \in Units /\ seen[u] \in Objs
<1>1. /\ DOMAIN api \in SUBSET Units /\ api \in [DOMAIN api -> Objs]
      /\ DOMAIN unseen \in SUBSET Units /\ unseen \in [DOMAIN unseen -> Objs]
  BY MapsToDef DEF ApiTypeOK
<1>2. QED
  BY <1>1 DEF seen

\* An event of a handler is made of the object that is written or was seen.
LEMMA FilteredType ==
  ASSUME ApiTypeOK, NEW u \in Units, NEW new \in MapsTo(Units, Objs),
         NEW was \in BOOLEAN, NEW is \in BOOLEAN,
         was => u \in DOMAIN seen, is => u \in DOMAIN new
  PROVE  /\ Filtered(u, was, is, new) \in Seq(UnitEvent)
         /\ ~(was /\ is) => Filtered(u, was, is, new) \in Seq(DequeuedEvent)
<1>1. CASE is
  <2>1. new[u].spec \in Specs
    BY <1>1, StoredType DEF Objs
  <2>2. \A o \in {"Add", "Update"} :
          [op |-> o, unit |-> u, spec |-> new[u].spec] \in UnitEvent
    BY <2>1 DEF UnitEvent
  <2>3. [op |-> "Add", unit |-> u, spec |-> new[u].spec] \in DequeuedEvent
    BY <2>1 DEF DequeuedEvent
  <2>4. QED
    BY <1>1, <2>2, <2>3 DEF Filtered
<1>2. CASE ~is /\ was
  <2>1. seen[u].spec \in Specs
    BY <1>2, SeenType DEF Objs
  <2>2. LET e == [op |-> "Delete", unit |-> u, spec |-> seen[u].spec]
        IN  e \in UnitEvent /\ e \in DequeuedEvent
    BY <2>1 DEF UnitEvent, DequeuedEvent
  <2>3. QED
    BY <1>2, <2>2 DEF Filtered
<1>3. CASE ~is /\ ~was
  BY <1>3 DEF Filtered
<1>4. QED
  BY <1>1, <1>2, <1>3

\* Every write puts well-formed events into the FIFOs of the two handlers.
LEMMA WriteType ==
  ASSUME ApiTypeOK, NEW u \in Units, NEW new \in MapsTo(Units, Objs), Write(u, new)
  PROVE  /\ api' \in MapsTo(Units, Objs)
         /\ unseen' \in MapsTo(Units, Objs)
         /\ current' \in [Units -> SUBSET Workers]
         /\ unitEvents' \in Seq(UnitEvent)
         /\ dequeuedEvents' \in Seq(DequeuedEvent)
<1>1. api' = new /\ current' \in [Units -> SUBSET Workers]
  BY DEF Write, ApiTypeOK
<1>2. unseen' \in MapsTo(Units, Objs)
  BY DropType DEF Write, ApiTypeOK
<1>3. QueuedEvents(u, new) \in Seq(UnitEvent)
  <2>1. /\ IsQueued(seen, u) \in BOOLEAN /\ IsQueued(new, u) \in BOOLEAN
        /\ IsQueued(seen, u) => u \in DOMAIN seen
        /\ IsQueued(new, u) => u \in DOMAIN new
    BY DEF IsQueued
  <2>2. QED
    BY <2>1, FilteredType DEF QueuedEvents
<1>4. DequeuedEvents(u, new) \in Seq(DequeuedEvent)
  <2>1. /\ IsDequeued(seen, u) \in BOOLEAN /\ IsDequeued(new, u) \in BOOLEAN
        /\ IsDequeued(seen, u) => u \in DOMAIN seen
        /\ IsDequeued(new, u) => u \in DOMAIN new
    BY DEF IsDequeued
  <2>2. QED
    BY <2>1, FilteredType DEF DequeuedEvents
<1>5. QED
  BY <1>1, <1>2, <1>3, <1>4 DEF Write, ApiTypeOK

\* What the clients do to the API server.
LEMMA ClientsType ==
  ASSUME ApiTypeOK, Clients
  PROVE  ApiTypeOK'
<1>1. \A K : Spend(K) => left' \in [Kinds -> Nat]
  BY SpendType DEF ApiTypeOK
<1>3. ASSUME NEW u \in Units, NEW spec \in Specs, CreateUnit(u, spec)
      PROVE  ApiTypeOK'
  <2>1. [phase |-> "Enqueued", spec |-> spec] \in Objs
    BY DEF Objs
  <2>2. Put(api, u, [phase |-> "Enqueued", spec |-> spec]) \in MapsTo(Units, Objs)
    BY <2>1, PutType DEF ApiTypeOK
  <2>3. QED
    BY <1>1, <1>3, <2>2, WriteType DEF CreateUnit, ApiTypeOK, queueVars
<1>4. ASSUME NEW u \in Units, NEW p \in Priorities, UpdateUnit(u, p)
      PROVE  ApiTypeOK'
  <2>1. u \in DOMAIN api /\ api \in [DOMAIN api -> Objs] /\ DOMAIN api \in SUBSET Units
    BY <1>4, MapsToDef DEF UpdateUnit, IsQueued, ApiTypeOK
  <2>2. PICK spec \in Specs : spec = [api[u].spec EXCEPT !.priority = p]
    BY <2>1 DEF Objs, Specs
  <2>3. [api EXCEPT ![u].spec = spec] \in [DOMAIN api -> Objs]
    BY <2>1 DEF Objs
  <2>4. [api EXCEPT ![u].spec = spec] \in MapsTo(Units, Objs)
    BY <2>1, <2>3 DEF MapsTo
  <2>5. Write(u, [api EXCEPT ![u].spec = spec])
    BY <1>4, <2>2 DEF UpdateUnit
  <2>6. QED
    BY <1>1, <1>4, <2>4, <2>5, WriteType DEF UpdateUnit, ApiTypeOK, queueVars
<1>5. ASSUME NEW u \in Units, DeleteUnit(u) PROVE ApiTypeOK'
  <2>1. Drop(api, u) \in MapsTo(Units, Objs)
    BY DropType DEF ApiTypeOK
  <2>2. QED
    BY <1>1, <1>5, <2>1, WriteType DEF DeleteUnit, ApiTypeOK, queueVars
<1>6. ASSUME NEW u \in Units, FinishUnit(u) PROVE ApiTypeOK'
  <2>1. Drop(api, u) \in MapsTo(Units, Objs)
    BY DropType DEF ApiTypeOK
  <2>2. QED
    BY <1>6, <2>1, WriteType DEF FinishUnit, ApiTypeOK, queueVars
<1>7. ASSUME NEW u \in Units, DeleteUnitUnseen(u) PROVE ApiTypeOK'
  <2>1. Drop(api, u) \in MapsTo(Units, Objs)
    BY DropType DEF ApiTypeOK
  <2>2. u \in DOMAIN api /\ api[u] \in Objs
    BY <1>7, StoredType DEF DeleteUnitUnseen, ApiTypeOK
  <2>3. Put(unseen, u, api[u]) \in MapsTo(Units, Objs)
    BY <2>2, PutType DEF ApiTypeOK
  <2>4. QED
    BY <1>1, <1>7, <2>1, <2>3 DEF DeleteUnitUnseen, ApiTypeOK, queueVars
<1>2. ASSUME NEW u \in Units, RelistMissing(u) PROVE ApiTypeOK'
  <2>1. Drop(unseen, u) \in MapsTo(Units, Objs)
    BY DropType DEF ApiTypeOK
  <2>2. QED
    BY <1>2, <2>1 DEF RelistMissing, ApiTypeOK, queueVars
<1>8. ASSUME NEW q \in QueueObjects, CreateQueue(q) \/ TouchQueue(q) \/ RemoveQueue(q)
      PROVE  ApiTypeOK'
  <2>1. \A o \in {"Add", "Update", "Delete"} : [op |-> o, queue |-> q] \in QEvent
    BY DEF QEvent
  <2>2. PICK o \in {"Add", "Update", "Delete"} :
          queueEvents' = Append(queueEvents, [op |-> o, queue |-> q])
    BY <1>8 DEF CreateQueue, TouchQueue, RemoveQueue, QueueEvent
  <2>3. queueEvents' \in Seq(QEvent)
    BY <2>1, <2>2, FifoType DEF ApiTypeOK
  <2>4. QED
    BY <1>1, <1>8, <2>3
       DEF CreateQueue, TouchQueue, RemoveQueue, ApiTypeOK, unitVars
<1>9. QED
  BY <1>2, <1>3, <1>4, <1>5, <1>6, <1>7, <1>8 DEF Clients

----------------------------------------------------------------------------
(***************************************************************************)
(* The scheduling loop and its goroutines.                                 *)
(***************************************************************************)

\* Pointers stay valid when the table of queues grows.
LEMMA PointersMono ==
  ASSUME NEW D, NEW E, D \subseteq E
  PROVE  /\ LoopState(D) \subseteq LoopState(E)
         /\ GoroutineState(D) \subseteq GoroutineState(E)
<1>1. \A s \in Seq(D) : s \in Seq(E)
  BY SeqMono
<1>2. QED
  BY <1>1 DEF LoopState, GoroutineState

\* A step that leaves the scheduler alone and takes no queue out of the table.
LEMMA SchedSame ==
  ASSUME SchedTypeOK, UNCHANGED <<sched, goroutines>>,
         DOMAIN queues \subseteq DOMAIN queues'
  PROVE  SchedTypeOK'
<1>1. /\ LoopState(DOMAIN queues) \subseteq LoopState(DOMAIN queues')
      /\ GoroutineState(DOMAIN queues) \subseteq GoroutineState(DOMAIN queues')
  BY PointersMono
<1> DEFINE L == LoopState(DOMAIN queues)
           G == GoroutineState(DOMAIN queues)
           M == LoopState(DOMAIN queues')
           H == GoroutineState(DOMAIN queues')
<1>2. sched \in L /\ goroutines \in [Workers -> G] /\ L \subseteq M /\ G \subseteq H
  BY <1>1 DEF SchedTypeOK
<1> HIDE DEF L, G, M, H
<1>3. sched' \in M /\ goroutines' \in [Workers -> H]
  BY <1>2
<1>4. QED
  BY <1>3 DEF SchedTypeOK, M, H

\* 0 is no index of the table: a closure that shares q is told from the others.
LEMMA LoopVariableNoQueue ==
  ASSUME MQTypeOK
  PROVE  LoopVariable \notin DOMAIN queues
<1>1. DOMAIN queues = 1 .. Len(queues) /\ Len(queues) \in Nat
  BY SeqIsFunction DEF MQTypeOK
<1>2. QED
  BY <1>1 DEF LoopVariable

\* Where the loop reads q there is a queue, and where it reads the unit, a unit.
LEMMA LoopReads ==
  ASSUME SchedTypeOK
  PROVE  /\ sched.pc \notin {"sort", "panic"} => sched.rest # << >> /\ Q \in DOMAIN queues
         /\ sched.pc \notin {"sort", "length", "pop", "panic"} => sched.unit \in Units
<1> DEFINE D == DOMAIN queues
<1>1. sched \in LoopState(D)
  BY DEF SchedTypeOK
<1> HIDE DEF D
<1>2. sched.rest \in Seq(D)
  BY <1>1 DEF LoopState
<1>3. sched.pc \notin {"sort", "panic"} => sched.rest # << >>
  BY <1>1 DEF LoopState
<1>4. sched.rest # << >> => Q \in D
  BY <1>2, FifoType DEF Q
<1>5. sched.pc \notin {"sort", "length", "pop", "panic"} => sched.unit \in Units
  BY <1>1 DEF LoopState
<1>6. QED
  BY <1>3, <1>4, <1>5 DEF D

LEMMA NoSpecType == NoSpec \in Specs
BY ConstantsOK DEF ConstantsOK, NoSpec, Specs

\* A cycle starts with no queue and no unit.
LEMMA NewCycleType ==
  ASSUME NEW D
  PROVE  /\ NewCycle \in LoopState(D)
         /\ [NewCycle EXCEPT !.pc = "panic"] \in LoopState(D)
         /\ \A s \in Seq(D) : s # << >> =>
              [NewCycle EXCEPT !.pc = "length", !.rest = s] \in LoopState(D)
<1>1. NoSpec \in Specs /\ NoUnit \notin Units /\ << >> \in Seq(D)
  BY NoSpecType, ConstantsOK DEF ConstantsOK
<1>2. QED
  BY <1>1 DEF NewCycle, LoopState

\* A goroutine that has ended.
LEMMA IdleType ==
  ASSUME NEW D
  PROVE  Idle \in GoroutineState(D)
BY NoSpecType, ConstantsOK DEF ConstantsOK, Idle, GoroutineState

\* The end of a cycle leaves q as its last queue to the closures that share it.
LEMMA FreezeType ==
  ASSUME NEW D, LoopVariable \notin D, NEW i \in D,
         NEW gs \in [Workers -> GoroutineState(D)]
  PROVE  /\ FreezeLoopVariable(gs, i) \in [Workers -> GoroutineState(D)]
         /\ \A s \in Workers : FreezeLoopVariable(gs, i)[s].queue = LoopVariable =>
                               FreezeLoopVariable(gs, i)[s].pc = "idle"
<1>1. \A g \in GoroutineState(D) : /\ [g EXCEPT !.queue = i] \in GoroutineState(D)
                                    /\ [g EXCEPT !.queue = i].queue = i
  BY DEF GoroutineState
<1> DEFINE G == GoroutineState(D)
<1> HIDE DEF G
<1>2. \A s \in Workers : FreezeLoopVariable(gs, i)[s] =
        IF gs[s].pc # "idle" /\ gs[s].queue = LoopVariable
        THEN [gs[s] EXCEPT !.queue = i] ELSE gs[s]
  BY DEF FreezeLoopVariable
<1>3. FreezeLoopVariable(gs, i) \in [Workers -> G]
  BY <1>1 DEF FreezeLoopVariable, G
<1>4. QED
  BY <1>1, <1>2, <1>3 DEF G

\* The end of a round of the loop (scheduler.go, schedule: for _, q := range).
LEMMA AdvanceType ==
  ASSUME MQTypeOK, SchedTypeOK, sched.pc \notin {"sort", "panic"},
         NEW gs \in [Workers -> GoroutineState(DOMAIN queues)], Advance(gs),
         DOMAIN queues' = DOMAIN queues
  PROVE  SchedTypeOK'
<1> DEFINE D == DOMAIN queues
<1>1. sched.rest # << >> /\ Q \in D /\ LoopVariable \notin D
  BY LoopReads, LoopVariableNoQueue
<1>2. sched.rest \in Seq(D)
  BY DEF SchedTypeOK, LoopState
<1>3. CASE /\ Len(sched.rest) > 1
           /\ sched' = [NewCycle EXCEPT !.pc = "length", !.rest = Tail(sched.rest)]
           /\ goroutines' = gs
  <2> HIDE DEF D
  <2>1. Tail(sched.rest) \in Seq(D) /\ Tail(sched.rest) # << >>
    BY <1>1, <1>2, <1>3, FifoType
  <2>2. sched' \in LoopState(D)
    BY <1>3, <2>1, NewCycleType
  <2>3. sched'.pc = "length"
    BY <1>3 DEF NewCycle
  <2>4. QED
    BY <1>3, <2>2, <2>3 DEF SchedTypeOK, D
<1>4. CASE /\ Len(sched.rest) = 1
           /\ sched' = NewCycle
           /\ goroutines' = FreezeLoopVariable(gs, Q)
  BY <1>1, <1>4, FreezeType, NewCycleType DEF SchedTypeOK
<1>5. QED
  BY <1>3, <1>4 DEF Advance

----------------------------------------------------------------------------
(***************************************************************************)
(* Every step keeps the type invariant.  Frame facts first.                *)
(***************************************************************************)
ListedOK == listed \in [Namespaces -> SUBSET QuotaObjects]

LEMMA RQInitType == RQInit => RQTypeOK
BY RQInitInv DEF RQInv

\* A step that leaves the scheduler's variables alone leaves the lister alone.
LEMMA ListedSame == ListedOK /\ UNCHANGED listed => ListedOK'
BY DEF ListedOK

\* A step that leaves the queues and the pointer of the unit handler alone.
LEMMA MQSame == MQTypeOK /\ UNCHANGED <<mqVars, found>> => MQTypeOK'
BY DEF MQTypeOK, mqVars

\* Reserve and Unreserve keep the plugin's part.
LEMMA PluginStep ==
  ASSUME RQTypeOK, NEW u \in Units, NEW spec \in Specs,
         \/ Reserve(u, spec.resource) \/ ReserveFails(u)
         \/ Unreserve(u, spec.resource)
  PROVE  RQTypeOK'
<1>1. PICK d \in ResourceLists : d = spec.resource
  BY DEF Specs
<1>2. QED
  BY <1>1, RQNextType

\* The parts make the whole.
LEMMA TypeParts ==
  /\ TypeOK <=> /\ ApiTypeOK /\ MQTypeOK /\ SchedTypeOK
             /\ ListedOK /\ RQTypeOK
  /\ TypeOK' <=> /\ ApiTypeOK' /\ MQTypeOK' /\ SchedTypeOK'
              /\ ListedOK' /\ RQTypeOK'
BY DEF TypeOK, ListedOK

\* The clients write the API server's store and nothing else.
LEMMA ClientStepInv == TypeOK /\ ClientStep => TypeOK'
<1> SUFFICES ASSUME TypeOK, ClientStep PROVE TypeOK'
  OBVIOUS
<1>1. ApiTypeOK'
  BY ClientsType, TypeParts DEF ClientStep
<1>2. MQTypeOK'
  BY MQSame, TypeParts DEF ClientStep
<1>3. SchedTypeOK' /\ ListedOK'
  BY ListedSame, SchedSame, TypeParts DEF ClientStep, mqVars, schedVars
<1>4. RQTypeOK'
  BY RQStutterType, TypeParts DEF ClientStep
<1>5. QED
  BY <1>1, <1>2, <1>3, <1>4, TypeParts

----------------------------------------------------------------------------

\* The event a handler takes is about a unit; the FIFO loses its head.
LEMMA UnitEventType ==
  ASSUME ApiTypeOK, unitEvents # << >>
  PROVE  /\ Head(unitEvents) \in UnitEvent /\ Tail(unitEvents) \in Seq(UnitEvent)
         /\ Head(unitEvents).unit \in Units /\ Head(unitEvents).spec \in Specs
<1>1. Head(unitEvents) \in UnitEvent /\ Tail(unitEvents) \in Seq(UnitEvent)
  BY FifoType DEF ApiTypeOK
<1>2. QED
  BY <1>1 DEF UnitEvent

\* The handler's lookup gives a queue of the table (GetQueueByName).
LEMMA GetQueueByNameInv == TypeOK /\ GetQueueByName => TypeOK'
<1> SUFFICES ASSUME TypeOK, GetQueueByName PROVE TypeOK'
  OBVIOUS
<1> USE TypeParts
<1>1. ApiTypeOK'
  <2>1. Tail(unitEvents) \in Seq(UnitEvent)
    BY UnitEventType DEF GetQueueByName
  <2>2. unitEvents' \in Seq(UnitEvent)
    BY <2>1 DEF GetQueueByName, ApiTypeOK
  <2>3. QED
    BY <2>2 DEF GetQueueByName, ApiTypeOK, queueVars
<1>2. MQTypeOK'
  <2>1. queueMap \in [DOMAIN queueMap -> DOMAIN queues]
    BY MapsToDef DEF MQTypeOK
  <2>2. found' \in {NoQueue} \cup DOMAIN queues
    BY <2>1 DEF GetQueueByName, MQTypeOK
  <2>3. QED
    BY <2>2 DEF GetQueueByName, MQTypeOK, mqVars
<1>3. SchedTypeOK' /\ ListedOK'
  BY SchedSame DEF GetQueueByName, mqVars, schedVars, ListedOK
<1>4. RQTypeOK'
  BY RQStutterType DEF GetQueueByName
<1>5. QED
  BY <1>1, <1>2, <1>3, <1>4

\* The handler's operation on the queue it found.
LEMMA UnitHandledInv ==
  ASSUME TypeOK, unitEvents # << >>, NEW pq \in QueueType, UnitHandled(pq)
  PROVE  TypeOK'
<1> USE TypeParts
<1>1. ApiTypeOK'
  <2>1. Tail(unitEvents) \in Seq(UnitEvent)
    BY UnitEventType
  <2>2. QED
    BY <2>1 DEF UnitHandled, ApiTypeOK, queueVars
<1>2. SetQueue(found, pq)
  BY DEF UnitHandled
<1>3. /\ queues' \in Seq(QueueType) /\ DOMAIN queues' = DOMAIN queues
      /\ queueMap' \in MapsTo(Namespaces, DOMAIN queues')
  BY <1>2, SetQueueType
<1>4. MQTypeOK'
  BY <1>3 DEF UnitHandled, MQTypeOK
<1>5. SchedTypeOK' /\ ListedOK'
  BY <1>3, SchedSame DEF UnitHandled, schedVars, ListedOK
<1>6. RQTypeOK'
  BY RQStutterType DEF UnitHandled
<1>7. QED
  BY <1>1, <1>4, <1>5, <1>6

\* AddQueueUnit, UpdateQueueUnit and DeleteQueueUnit, and the lookup.
LEMMA UnitHandlerInv == TypeOK /\ UnitHandler => TypeOK'
<1> SUFFICES ASSUME TypeOK, UnitHandler PROVE TypeOK'
  OBVIOUS
<1> USE TypeParts
<1>1. CASE GetQueueByName
  BY <1>1, GetQueueByNameInv
<1>2. CASE AddQueueUnit \/ UpdateQueueUnit \/ DeleteQueueUnit
  <2> DEFINE u == Head(unitEvents).unit
             spec == Head(unitEvents).spec
  <2>1. unitEvents # << >> /\ found # NoQueue
    BY <1>2 DEF AddQueueUnit, UpdateQueueUnit, DeleteQueueUnit, Take
  <2>2. u \in Units /\ spec \in Specs
    BY <2>1, UnitEventType
  <2>3. queues[found] \in QueueType
    BY <2>1, QueueAt DEF MQTypeOK
  <2>4. /\ SQAdd(queues[found], u, spec) \in QueueType
        /\ SQUpdate(queues[found], u, spec) \in QueueType
        /\ SQDelete(queues[found], u) \in QueueType
    BY <2>2, <2>3, SQType
  <2>5. \/ UnitHandled(SQAdd(queues[found], u, spec))
        \/ UnitHandled(SQUpdate(queues[found], u, spec))
        \/ UnitHandled(SQDelete(queues[found], u))
    BY <1>2 DEF AddQueueUnit, UpdateQueueUnit, DeleteQueueUnit
  <2> HIDE DEF u, spec
  <2>6. QED
    BY <2>1, <2>4, <2>5, UnitHandledInv
<1>3. QED
  BY <1>1, <1>2 DEF UnitHandler

\* AddDequeuedQueueUnit and DeleteDequeuedQueueUnit call the plugin.
LEMMA DequeuedHandlerInv == TypeOK /\ DequeuedHandler => TypeOK'
<1> SUFFICES ASSUME TypeOK, DequeuedHandler PROVE TypeOK'
  OBVIOUS
<1> USE TypeParts
<1>1. dequeuedEvents # << >> /\ DequeuedHandled
  BY DEF DequeuedHandler, AddDequeuedQueueUnit, DeleteDequeuedQueueUnit, Take
<1>2. Head(dequeuedEvents) \in DequeuedEvent /\ Tail(dequeuedEvents) \in Seq(DequeuedEvent)
  BY <1>1, FifoType DEF ApiTypeOK
<1>3. Head(dequeuedEvents).unit \in Units /\ Head(dequeuedEvents).spec \in Specs
  BY <1>2 DEF DequeuedEvent
<1>4. ApiTypeOK'
  BY <1>1, <1>2 DEF DequeuedHandled, ApiTypeOK, queueVars
<1>5. MQTypeOK'
  BY <1>1, MQSame DEF DequeuedHandled
<1>6. SchedTypeOK' /\ ListedOK'
  BY <1>1, SchedSame DEF DequeuedHandled, mqVars, schedVars, ListedOK
<1>7. RQTypeOK'
  BY <1>3, PluginStep
     DEF DequeuedHandler, AddDequeuedQueueUnit, DeleteDequeuedQueueUnit
<1>8. QED
  BY <1>4, <1>5, <1>6, <1>7

\* AddQueue, UpdateQueue and DeleteQueue: queues are added to the table, and the
\* pointers of the scheduler, of its closures and of the unit handler stay valid.
LEMMA QueueHandlerInv == TypeOK /\ QueueHandler => TypeOK'
<1> SUFFICES ASSUME TypeOK, QueueHandler PROVE TypeOK'
  OBVIOUS
<1> USE TypeParts
<1> DEFINE q == Head(queueEvents).queue
<1>1. /\ queueEvents # << >> /\ QueueHandled
      /\ MQAdd(q) \/ MQUpdate(q) \/ MQDelete(q)
  BY DEF QueueHandler, AddQueue, UpdateQueue, DeleteQueue, Take
<1>2. Head(queueEvents) \in QEvent /\ Tail(queueEvents) \in Seq(QEvent)
  BY <1>1, FifoType DEF ApiTypeOK
<1>3. q \in QueueObjects
  BY <1>2 DEF QEvent
<1> HIDE DEF q
<1>4. ApiTypeOK'
  BY <1>1, <1>2 DEF QueueHandled, ApiTypeOK, unitVars
<1>5. /\ queues' \in Seq(QueueType)
      /\ DOMAIN queues \subseteq DOMAIN queues'
      /\ queueMap' \in MapsTo(Namespaces, DOMAIN queues')
  <2>1. CASE MQDelete(q) \/ UNCHANGED mqVars
    BY <2>1, DropType DEF MQDelete, MQTypeOK, mqVars
  <2>2. CASE MQUpdate(q)
    BY <1>3, <2>2, NewEntryType DEF MQUpdate
  <2>3. CASE MQAdd(q) /\ ~UNCHANGED mqVars
    BY <1>3, <2>3, NewEntryType DEF MQAdd
  <2>4. QED
    BY <1>1, <2>1, <2>2, <2>3
<1>6. MQTypeOK'
  BY <1>1, <1>5 DEF QueueHandled, MQTypeOK
<1>7. SchedTypeOK' /\ ListedOK'
  BY <1>1, <1>5, SchedSame DEF QueueHandled, schedVars, ListedOK
<1>8. RQTypeOK'
  BY <1>1, RQStutterType DEF QueueHandled
<1>9. QED
  BY <1>4, <1>6, <1>7, <1>8

----------------------------------------------------------------------------
(***************************************************************************)
(* The scheduling loop (scheduler.go, schedule).                           *)
(***************************************************************************)

\* The moves of the loop within one round.
LEMMA LoopMoves ==
  ASSUME NEW D, NEW c \in LoopState(D)
  PROVE  /\ c.pc = "sort" => \A s \in Seq(D) :
              [c EXCEPT !.rest = s, !.pc = IF s = << >> THEN "sort" ELSE "length"]
                \in LoopState(D)
         /\ c.pc = "length" => [c EXCEPT !.pc = "pop"] \in LoopState(D)
         /\ c.pc = "pop" => \A u \in Units, spec \in Specs :
              [c EXCEPT !.pc = "filter", !.unit = u, !.spec = spec] \in LoopState(D)
         /\ c.pc \in {"filter", "check", "reserve"} =>
              \A pc \in {"check", "reserve", "errget"}, B \in SUBSET QuotaObjects,
                 T \in SUBSET Resources :
                [c EXCEPT !.pc = pc, !.basket = B, !.todo = T] \in LoopState(D)
         /\ c.pc = "errget" => \A spec \in Specs :
              [c EXCEPT !.pc = "erradd", !.spec = spec] \in LoopState(D)
<1>1. NoUnit \notin Units
  BY ConstantsOK DEF ConstantsOK
<1>2. QED
  BY <1>1 DEF LoopState

\* A move of the loop that starts no goroutine and ends no cycle.
LEMMA LoopMoved ==
  ASSUME SchedTypeOK, sched' \in LoopState(DOMAIN queues),
         sched'.pc = "sort" => sched.pc = "sort",
         UNCHANGED goroutines, DOMAIN queues' = DOMAIN queues
  PROVE  SchedTypeOK'
BY DEF SchedTypeOK

\* What a step of the loop leaves alone.
LEMMA LoopFrame ==
  ASSUME TypeOK, UNCHANGED <<mqVars, found, rqVars, listed>>, ApiTypeOK', SchedTypeOK'
  PROVE  TypeOK'
BY TypeParts, MQSame, RQStutterType, ListedSame

\* The start of a cycle.
LEMMA SortedQueueInv == TypeOK /\ SortedQueue /\ UNCHANGED found => TypeOK'
<1> SUFFICES ASSUME TypeOK, SortedQueue, UNCHANGED found PROVE TypeOK'
  OBVIOUS
<1> USE TypeParts
<1>1. PICK s \in SortedQueues :
        sched' = [sched EXCEPT !.rest = s,
                               !.pc = IF s = << >> THEN "sort" ELSE "length"]
  BY DEF SortedQueue
<1>2. s \in SetToSeqs(Registered)
  BY <1>1 DEF SortedQueues
<1>3. s \in Seq(Registered)
  BY <1>2, RegisteredType, SetToSeqsType
<1>4. s \in Seq(DOMAIN queues)
  BY <1>3, RegisteredType, SeqMono
<1>5. sched \in LoopState(DOMAIN queues) /\ sched.pc = "sort"
  BY DEF SchedTypeOK, SortedQueue, At
<1>6. sched' \in LoopState(DOMAIN queues)
  BY <1>1, <1>4, <1>5, LoopMoves
<1>7. SchedTypeOK'
  BY <1>5, <1>6, LoopMoved DEF SortedQueue, mqVars
<1>8. QED
  BY <1>7, ApiSame, LoopFrame DEF SortedQueue

\* The check of the length.
LEMMA LengthInv == TypeOK /\ Length /\ UNCHANGED found => TypeOK'
<1> SUFFICES ASSUME TypeOK, Length, UNCHANGED found PROVE TypeOK'
  OBVIOUS
<1> USE TypeParts
<1>1. sched \in LoopState(DOMAIN queues) /\ sched.pc = "length"
  BY DEF SchedTypeOK, Length, At
<1>2. SchedTypeOK'
  <2>1. CASE sched' = [sched EXCEPT !.pc = "pop"] /\ UNCHANGED goroutines
    <3>1. sched' \in LoopState(DOMAIN queues)
      BY <1>1, <2>1, LoopMoves
    <3>2. sched'.pc = "pop"
      BY <1>1, <2>1 DEF LoopState
    <3>3. QED
      BY <2>1, <3>1, <3>2, LoopMoved DEF Length, mqVars
  <2>2. CASE Advance(goroutines)
    <3>1. goroutines \in [Workers -> GoroutineState(DOMAIN queues)]
      BY DEF SchedTypeOK
    <3>2. QED
      BY <1>1, <2>2, <3>1, AdvanceType DEF Length, mqVars
  <2>3. QED
    BY <2>1, <2>2 DEF Length
<1>3. QED
  BY <1>2, ApiSame, LoopFrame DEF Length

\* Pop, and the panic of the empty heap.
LEMMA PopInv == TypeOK /\ Pop /\ UNCHANGED found => TypeOK'
<1> SUFFICES ASSUME TypeOK, Pop, UNCHANGED found PROVE TypeOK'
  OBVIOUS
<1> USE TypeParts
<1>1. sched \in LoopState(DOMAIN queues) /\ sched.pc = "pop"
  BY DEF SchedTypeOK, Pop, At
<1>2. ApiTypeOK' /\ RQTypeOK' /\ ListedOK'
  BY ListedSame, ApiSame, RQStutterType DEF Pop
<1>3. ASSUME NEW u \in Tops(queues[Q]), SetQueue(Q, SQPop(queues[Q], u)),
             sched' = [sched EXCEPT !.pc = "filter", !.unit = u,
                                    !.spec = queues[Q].items[u]]
      PROVE  MQTypeOK' /\ SchedTypeOK'
  <2>1. queues[Q] \in QueueType
    BY <1>1, LoopReads, QueueAt
  <2>2. u \in Units
    BY <2>1, TopsType
  <2>3. SQPop(queues[Q], u) \in QueueType
    BY <2>1, <2>2, SQType, NoSpecType
  <2>9. queues[Q].items[u] \in Specs
    BY <2>1, TopsType
  <2>4. /\ queues' \in Seq(QueueType) /\ DOMAIN queues' = DOMAIN queues
        /\ queueMap' \in MapsTo(Namespaces, DOMAIN queues')
    BY <1>3, <2>3, SetQueueType
  <2>5. MQTypeOK'
    BY <2>4 DEF MQTypeOK
  <2>6. sched' \in LoopState(DOMAIN queues)
    BY <1>1, <1>3, <2>2, <2>9, LoopMoves
  <2>7. sched'.pc = "filter"
    BY <1>1, <1>3 DEF LoopState
  <2>8. QED
    BY <2>4, <2>5, <2>6, <2>7, LoopMoved DEF Pop
<1>4. CASE sched' = [NewCycle EXCEPT !.pc = "panic"] /\ UNCHANGED mqVars
  <2>1. sched' \in LoopState(DOMAIN queues)
    BY <1>4, NewCycleType
  <2>2. sched'.pc = "panic"
    BY <1>4 DEF NewCycle
  <2>3. SchedTypeOK'
    BY <1>4, <2>1, <2>2, LoopMoved DEF Pop, mqVars
  <2>4. QED
    BY <1>2, <1>4, <2>3, MQSame
<1>5. QED
  BY <1>2, <1>3, <1>4 DEF Pop

\* The steps of Filter.
LEMMA FilterInv ==
  ASSUME TypeOK, UNCHANGED found, FilterSelect \/ \E r \in Resources : FilterCheck(r)
  PROVE  TypeOK'
<1> USE TypeParts
<1>1. /\ sched \in LoopState(DOMAIN queues) /\ sched.pc \in {"filter", "check"}
      /\ UNCHANGED <<rqVars, mqVars, apiVars, goroutines, listed>>
  BY DEF SchedTypeOK, FilterSelect, FilterCheck, At
<1>2. sched.unit \in Units /\ sched.todo \in SUBSET Resources
  BY <1>1, LoopReads DEF LoopState
<1>3. /\ DOMAIN sched.spec.resource \in SUBSET Resources
      /\ sched.basket \in SUBSET QuotaObjects
      /\ Baskets(listed[ConsumerNs[sched.unit]], sched.unit) \in SUBSET QuotaObjects
  <2>1. sched.spec \in Specs /\ sched.basket \in SUBSET QuotaObjects
    BY <1>1 DEF LoopState
  <2>2. sched.spec.resource \in ResourceLists
    BY <2>1 DEF Specs
  <2>3. listed[ConsumerNs[sched.unit]] \in SUBSET QuotaObjects
    BY <1>2, ConstantsOK DEF ConstantsOK, ListedOK
  <2>4. QED
    BY <2>1, <2>2, <2>3, ConstantsOK DEF ConstantsOK, Baskets, SelectResourceQuota
<1>4. PICK pc \in {"check", "reserve", "errget"}, B \in SUBSET QuotaObjects,
           T \in SUBSET Resources : GoTo(pc, B, T)
  <2>1. CASE FilterSelect
    BY <1>3, <2>1 DEF FilterSelect
  <2>2. ASSUME NEW r \in Resources, FilterCheck(r)
        PROVE  \E pc \in {"check", "reserve", "errget"}, B \in SUBSET QuotaObjects,
                  T \in SUBSET Resources : GoTo(pc, B, T)
    BY <1>2, <1>3, <2>2 DEF FilterCheck
  <2>3. QED
    BY <2>1, <2>2
<1>5. sched' = [sched EXCEPT !.pc = pc, !.basket = B, !.todo = T]
  BY <1>4 DEF GoTo
<1>6. sched' \in LoopState(DOMAIN queues)
  BY <1>1, <1>4, <1>5, LoopMoves
<1>7. sched'.pc = pc
  BY <1>1, <1>5 DEF LoopState
<1>8. SchedTypeOK'
  BY <1>1, <1>4, <1>6, <1>7, LoopMoved DEF mqVars
<1>9. QED
  BY <1>1, <1>8, ApiSame, LoopFrame

\* Reserve, and the start of a goroutine.
LEMMA ReserveAndGoInv == TypeOK /\ ReserveAndGo /\ UNCHANGED found => TypeOK'
<1> SUFFICES ASSUME TypeOK, ReserveAndGo, UNCHANGED found PROVE TypeOK'
  OBVIOUS
<1> USE TypeParts
<1>1. sched \in LoopState(DOMAIN queues) /\ sched.pc = "reserve"
  BY DEF SchedTypeOK, ReserveAndGo, At
<1>2. sched.unit \in Units /\ sched.spec \in Specs
  BY <1>1, LoopReads DEF LoopState
<1>3. RQTypeOK'
  BY <1>2, PluginStep DEF ReserveAndGo
<1>4. SchedTypeOK'
  <2>1. CASE GoTo("errget", {}, {}) /\ UNCHANGED goroutines
    <3>1. sched' \in LoopState(DOMAIN queues)
      BY <1>1, <2>1, LoopMoves DEF GoTo
    <3>2. sched'.pc = "errget"
      BY <1>1, <2>1 DEF GoTo, LoopState
    <3>3. QED
      BY <2>1, <3>1, <3>2, LoopMoved DEF ReserveAndGo, mqVars
  <2>2. ASSUME NEW s \in Workers,
               Advance([goroutines EXCEPT ![s] =
                          [Idle EXCEPT !.pc = "get", !.unit = sched.unit,
                                       !.spec = sched.spec]])
        PROVE  SchedTypeOK'
    <3> DEFINE G == GoroutineState(DOMAIN queues)
               g == [Idle EXCEPT !.pc = "get", !.unit = sched.unit,
                                 !.spec = sched.spec]
    <3>1. g \in G
      BY <1>2, ConstantsOK DEF ConstantsOK, Idle, GoroutineState
    <3>2. goroutines \in [Workers -> G]
      BY DEF SchedTypeOK
    <3> HIDE DEF G, g
    <3>3. [goroutines EXCEPT ![s] = g] \in [Workers -> G]
      BY <3>1, <3>2
    <3>4. QED
      BY <1>1, <2>2, <3>3, AdvanceType DEF G, g, ReserveAndGo, mqVars
  <2>3. QED
    BY <2>1, <2>2 DEF ReserveAndGo
<1>5. QED
  BY ListedSame, <1>3, <1>4, ApiSame, MQSame DEF ReserveAndGo

\* ErrorFunc reads the unit afresh.
LEMMA ErrorGetInv == TypeOK /\ ErrorGet /\ UNCHANGED found => TypeOK'
<1> SUFFICES ASSUME TypeOK, ErrorGet, UNCHANGED found PROVE TypeOK'
  OBVIOUS
<1> USE TypeParts
<1>1. sched \in LoopState(DOMAIN queues) /\ sched.pc = "errget"
  BY DEF SchedTypeOK, ErrorGet, At
<1>2. left' \in [Kinds -> Nat]
  BY SpendType DEF ErrorGet, GetFinds, GetMisses, CallFails, ApiTypeOK
<1>3. ApiTypeOK'
  BY <1>2 DEF ErrorGet, ApiTypeOK, unitVars, queueVars
<1>4. CASE /\ GetFinds(sched.unit)
           /\ sched' = [sched EXCEPT !.pc = "erradd",
                                     !.spec = api[sched.unit].spec]
           /\ UNCHANGED goroutines
  <2>1. api[sched.unit] \in Objs
    BY <1>4, StoredType DEF GetFinds, ApiTypeOK
  <2>2. api[sched.unit].spec \in Specs
    BY <2>1 DEF Objs
  <2>3. sched' \in LoopState(DOMAIN queues)
    BY <1>1, <1>4, <2>2, LoopMoves
  <2>4. sched'.pc = "erradd"
    BY <1>1, <1>4 DEF LoopState
  <2>5. SchedTypeOK'
    BY <1>4, <2>3, <2>4, LoopMoved DEF ErrorGet, mqVars
  <2>6. QED
    BY <1>3, <2>5, LoopFrame DEF ErrorGet
<1>5. CASE Advance(goroutines)
  <2>1. goroutines \in [Workers -> GoroutineState(DOMAIN queues)]
    BY DEF SchedTypeOK
  <2>2. SchedTypeOK'
    BY <1>1, <1>5, <2>1, AdvanceType DEF ErrorGet, mqVars
  <2>3. QED
    BY <1>3, <2>2, LoopFrame DEF ErrorGet
<1>6. QED
  BY <1>4, <1>5 DEF ErrorGet

\* ErrorFunc puts the unit into the backoff queue.
LEMMA ErrorAddInv == TypeOK /\ ErrorAdd /\ UNCHANGED found => TypeOK'
<1> SUFFICES ASSUME TypeOK, ErrorAdd, UNCHANGED found PROVE TypeOK'
  OBVIOUS
<1> USE TypeParts
<1>1. sched \in LoopState(DOMAIN queues) /\ sched.pc = "erradd"
  BY DEF SchedTypeOK, ErrorAdd, At
<1>2. queues[Q] \in QueueType /\ sched.unit \in Units
  BY <1>1, LoopReads, QueueAt
<1>3. sched.spec \in Specs
  BY <1>1 DEF LoopState
<1>4. SQAddUnschedulableIfNotPresent(queues[Q], sched.unit, sched.spec) \in QueueType
  BY <1>2, <1>3, SQType
<1>5. /\ queues' \in Seq(QueueType) /\ DOMAIN queues' = DOMAIN queues
      /\ queueMap' \in MapsTo(Namespaces, DOMAIN queues')
  BY <1>4, SetQueueType DEF ErrorAdd
<1>6. MQTypeOK'
  BY <1>5 DEF MQTypeOK
<1>7. goroutines \in [Workers -> GoroutineState(DOMAIN queues)]
  BY DEF SchedTypeOK
<1>8. SchedTypeOK'
  BY <1>1, <1>5, <1>7, AdvanceType DEF ErrorAdd
<1>9. QED
  BY ListedSame, <1>6, <1>8, ApiSame, RQStutterType DEF ErrorAdd

\* One step of the loop.
LEMMA ScheduleInv == TypeOK /\ Schedule => TypeOK'
BY SortedQueueInv, LengthInv, PopInv, FilterInv, ReserveAndGoInv, ErrorGetInv,
   ErrorAddInv DEF Schedule, SchedulingLoop

----------------------------------------------------------------------------
(***************************************************************************)
(* The dequeue goroutines (scheduler.go, Dequeue and the closure).         *)
(***************************************************************************)

\* The moves of one goroutine.
LEMMA GoroutineMoves ==
  ASSUME NEW D, NEW g \in GoroutineState(D), g.pc # "idle"
  PROVE  /\ \A pc \in {"update", "unreserve", "call"} : g.pc \notin {"errget", "erradd"} =>
              [g EXCEPT !.pc = pc] \in GoroutineState(D)
         /\ \A i \in D : i # LoopVariable =>
              [g EXCEPT !.pc = "errget", !.queue = i] \in GoroutineState(D)
         /\ \A spec \in Specs : g.queue # LoopVariable =>
              [g EXCEPT !.pc = "erradd", !.spec = spec] \in GoroutineState(D)
         /\ g.unit \in Units /\ g.spec \in Specs
BY DEF GoroutineState

\* A goroutine is where it is: its unit, its queue.
LEMMA GoroutineAt ==
  ASSUME SchedTypeOK, NEW s \in Workers, NEW pc, AtG(s, pc), pc # "idle"
  PROVE  /\ goroutines[s] \in GoroutineState(DOMAIN queues)
         /\ goroutines[s].pc = pc
         /\ UnitOf(s) \in Units /\ goroutines[s].spec \in Specs
<1>1. goroutines[s] \in GoroutineState(DOMAIN queues) /\ goroutines[s].pc = pc
  BY DEF SchedTypeOK, AtG
<1>2. QED
  BY <1>1, GoroutineMoves DEF UnitOf

\* A move of one goroutine leaves the pointers valid, if it does not come to share
\* q while no cycle is in progress.
LEMMA GoroutineMoved ==
  ASSUME SchedTypeOK, NEW s \in Workers, NEW g \in GoroutineState(DOMAIN queues),
         g.pc = "idle" \/ g.queue # LoopVariable \/ goroutines[s].queue = LoopVariable,
         goroutines[s].pc # "idle",
         goroutines' = [goroutines EXCEPT ![s] = g],
         UNCHANGED sched, DOMAIN queues' = DOMAIN queues
  PROVE  SchedTypeOK'
<1> DEFINE G == GoroutineState(DOMAIN queues)
<1>1. goroutines \in [Workers -> G] /\ g \in G /\ sched' \in LoopState(DOMAIN queues')
  BY DEF SchedTypeOK
<1> HIDE DEF G
<1>2. /\ goroutines' \in [Workers -> G]
      /\ \A t \in Workers : goroutines'[t] = IF t = s THEN g ELSE goroutines[t]
  BY <1>1
<1>3. sched'.pc = "sort" => \A t \in Workers :
        goroutines'[t].queue = LoopVariable => goroutines'[t].pc = "idle"
  BY <1>2 DEF SchedTypeOK
<1>4. QED
  BY <1>1, <1>2, <1>3 DEF SchedTypeOK, G

\* The two writes to goroutines[s], as one record each.
LEMMA GoroutineWrites ==
  ASSUME SchedTypeOK, NEW s \in Workers
  PROVE  /\ \A pc : MoveTo(s, pc) =>
              goroutines' = [goroutines EXCEPT ![s] = [goroutines[s] EXCEPT !.pc = pc]]
         /\ Finish(s) => goroutines' = [goroutines EXCEPT ![s] = Idle]
BY DEF MoveTo, Finish

\* MoveTo and Finish leave the pointers valid.
LEMMA GoroutineGoes ==
  ASSUME SchedTypeOK, NEW s \in Workers, goroutines[s].pc # "idle",
         UNCHANGED sched, DOMAIN queues' = DOMAIN queues,
         \/ Finish(s)
         \/ /\ goroutines[s].pc \notin {"errget", "erradd"}
            /\ \E pc \in {"update", "unreserve", "call"} : MoveTo(s, pc)
  PROVE  SchedTypeOK'
<1> DEFINE D == DOMAIN queues
<1>1. goroutines[s] \in GoroutineState(D)
  BY DEF SchedTypeOK
<1>2. CASE Finish(s)
  <2>1. Idle \in GoroutineState(D) /\ Idle.pc = "idle"
    BY IdleType DEF Idle
  <2>2. QED
    BY <1>2, <2>1, GoroutineMoved, GoroutineWrites
<1>3. ASSUME NEW pc \in {"update", "unreserve", "call"}, MoveTo(s, pc),
             goroutines[s].pc \notin {"errget", "erradd"}
      PROVE  SchedTypeOK'
  <2> DEFINE g == [goroutines[s] EXCEPT !.pc = pc]
  <2>1. g \in GoroutineState(D)
    BY <1>1, <1>3, GoroutineMoves
  <2>2. g.queue = goroutines[s].queue
    OBVIOUS
  <2>3. goroutines' = [goroutines EXCEPT ![s] = g]
    BY <1>3, GoroutineWrites
  <2> HIDE DEF g
  <2>4. QED
    BY <2>1, <2>2, <2>3, GoroutineMoved
<1>4. QED
  BY <1>2, <1>3

\* Dequeue reads the unit.
LEMMA DequeueGetInv ==
  ASSUME TypeOK, NEW s \in Workers, DequeueGet(s), UNCHANGED found
  PROVE  TypeOK'
<1> USE TypeParts
<1>1. goroutines[s].pc = "get" /\ UnitOf(s) \in Units
  BY GoroutineAt DEF DequeueGet
<1>2. left' \in [Kinds -> Nat]
  BY SpendType DEF DequeueGet, GetFinds, GetMisses, CallFails, ApiTypeOK
<1>3. current' \in [Units -> SUBSET Workers]
  BY <1>1 DEF DequeueGet, ApiTypeOK
<1>4. ApiTypeOK'
  BY <1>2, <1>3 DEF DequeueGet, ApiTypeOK, queueVars
<1>5. SchedTypeOK'
  BY <1>1, GoroutineGoes DEF DequeueGet, mqVars
<1>6. QED
  BY <1>4, <1>5, LoopFrame DEF DequeueGet

\* Dequeue writes the unit.
LEMMA DequeueUpdateInv ==
  ASSUME TypeOK, NEW s \in Workers, DequeueUpdate(s), UNCHANGED found
  PROVE  TypeOK'
<1> USE TypeParts
<1> DEFINE u == UnitOf(s)
<1>1. goroutines[s].pc = "update" /\ u \in Units
  BY GoroutineAt DEF DequeueUpdate
<1>2. left' \in [Kinds -> Nat]
  BY SpendType DEF DequeueUpdate, CallFails, ApiTypeOK
<1>3. /\ api' \in MapsTo(Units, Objs)
      /\ unseen' \in MapsTo(Units, Objs)
      /\ current' \in [Units -> SUBSET Workers]
      /\ unitEvents' \in Seq(UnitEvent)
      /\ dequeuedEvents' \in Seq(DequeuedEvent)
  <2> HIDE DEF u
  <2>1. CASE NoWrite(s, u)
    BY <1>1, <2>1 DEF NoWrite, ApiTypeOK
  <2>2. CASE Write(u, [api EXCEPT ![u].phase = "Dequeued"])
    <3>1. [api EXCEPT ![u].phase = "Dequeued"] \in MapsTo(Units, Objs)
      <4>1. api \in [DOMAIN api -> Objs] /\ DOMAIN api \in SUBSET Units
        BY MapsToDef DEF ApiTypeOK
      <4>2. [api EXCEPT ![u].phase = "Dequeued"] \in [DOMAIN api -> Objs]
        BY <4>1 DEF Objs
      <4>3. QED
        BY <4>1, <4>2 DEF MapsTo
    <3>2. QED
      BY <1>1, <2>2, <3>1, WriteType
  <2>3. QED
    BY <2>1, <2>2 DEF DequeueUpdate, SetDequeued, u
<1>4. ApiTypeOK'
  BY <1>2, <1>3 DEF DequeueUpdate, ApiTypeOK, queueVars
<1>5. SchedTypeOK'
  BY <1>1, GoroutineGoes DEF DequeueUpdate, mqVars
<1>6. QED
  BY <1>4, <1>5, LoopFrame DEF DequeueUpdate

\* The reservation is given back.
LEMMA DequeueUnreserveInv ==
  ASSUME TypeOK, NEW s \in Workers, DequeueUnreserve(s), UNCHANGED found
  PROVE  TypeOK'
<1> USE TypeParts
<1>1. /\ goroutines[s].pc = "unreserve"
      /\ UnitOf(s) \in Units /\ goroutines[s].spec \in Specs
  BY GoroutineAt DEF DequeueUnreserve
<1>2. RQTypeOK'
  BY <1>1, PluginStep DEF DequeueUnreserve
<1>3. SchedTypeOK'
  BY <1>1, GoroutineGoes DEF DequeueUnreserve, mqVars
<1>4. QED
  BY ListedSame, <1>2, <1>3, ApiSame, MQSame DEF DequeueUnreserve

\* The closure reads q, which a cycle in progress has, or which is frozen.
LEMMA DequeueCallErrorFuncInv ==
  ASSUME TypeOK, NEW s \in Workers, DequeueCallErrorFunc(s), UNCHANGED found
  PROVE  TypeOK'
<1> USE TypeParts
<1> DEFINE i == IF goroutines[s].queue = LoopVariable THEN Q ELSE goroutines[s].queue
           g == [goroutines[s] EXCEPT !.pc = "errget", !.queue = i]
<1>1. /\ goroutines[s] \in GoroutineState(DOMAIN queues)
      /\ goroutines[s].pc = "call"
  BY GoroutineAt DEF DequeueCallErrorFunc
<1>2. i \in DOMAIN queues
  <2>1. CASE goroutines[s].queue = LoopVariable
    <3>1. sched.pc # "sort"
      BY <1>1, <2>1 DEF SchedTypeOK
    <3>2. sched.pc # "panic"
      BY DEF DequeueCallErrorFunc, AtG, Running, At
    <3>3. QED
      BY <2>1, <3>1, <3>2, LoopReads
  <2>2. CASE goroutines[s].queue # LoopVariable
    BY <1>1, <2>2 DEF GoroutineState
  <2>3. QED
    BY <2>1, <2>2
<1>3. i # LoopVariable
  BY <1>2, LoopVariableNoQueue
<1>4. goroutines' = [goroutines EXCEPT ![s] = g]
  BY DEF DequeueCallErrorFunc, SchedTypeOK
<1> HIDE DEF i
<1>5. g \in GoroutineState(DOMAIN queues) /\ g.queue = i
  BY <1>1, <1>2, <1>3, GoroutineMoves DEF GoroutineState
<1> HIDE DEF g
<1>6. SchedTypeOK'
  BY <1>1, <1>3, <1>4, <1>5, GoroutineMoved DEF DequeueCallErrorFunc, mqVars
<1>7. QED
  BY <1>6, ApiSame, LoopFrame DEF DequeueCallErrorFunc

\* ErrorFunc in the goroutine: the Get ...
LEMMA DequeueErrorGetInv ==
  ASSUME TypeOK, NEW s \in Workers, DequeueErrorGet(s), UNCHANGED found
  PROVE  TypeOK'
<1> USE TypeParts
<1>1. /\ goroutines[s] \in GoroutineState(DOMAIN queues)
      /\ goroutines[s].pc = "errget"
      /\ goroutines[s].queue # LoopVariable
  BY GoroutineAt DEF DequeueErrorGet, GoroutineState
<1>2. left' \in [Kinds -> Nat]
  BY SpendType DEF DequeueErrorGet, GetFinds, GetMisses, CallFails, ApiTypeOK
<1>3. ApiTypeOK'
  BY <1>2 DEF DequeueErrorGet, ApiTypeOK, unitVars, queueVars
<1>4. SchedTypeOK'
  <2>1. CASE Finish(s)
    BY <1>1, <2>1, GoroutineGoes DEF DequeueErrorGet, mqVars
  <2>2. CASE /\ GetFinds(UnitOf(s))
             /\ goroutines' = [goroutines EXCEPT ![s].pc = "erradd",
                                   ![s].spec = api[UnitOf(s)].spec]
    <3> DEFINE spec == api[UnitOf(s)].spec
               g == [goroutines[s] EXCEPT !.pc = "erradd", !.spec = spec]
    <3>1. api[UnitOf(s)] \in Objs
      BY <2>2, StoredType DEF GetFinds, ApiTypeOK
    <3>2. spec \in Specs
      BY <3>1 DEF Objs
    <3>3. goroutines' = [goroutines EXCEPT ![s] = g]
      BY <2>2 DEF SchedTypeOK
    <3> HIDE DEF spec
    <3>4. g \in GoroutineState(DOMAIN queues)
      BY <1>1, <3>2, GoroutineMoves
    <3>5. g.queue = goroutines[s].queue
      BY <1>1 DEF GoroutineState
    <3> HIDE DEF g
    <3>6. QED
      BY <1>1, <3>3, <3>4, <3>5, GoroutineMoved DEF DequeueErrorGet, mqVars
  <2>3. QED
    BY <2>1, <2>2 DEF DequeueErrorGet
<1>5. QED
  BY <1>3, <1>4, LoopFrame DEF DequeueErrorGet

\* ... and the unit goes into the backoff queue of the queue q points to.
LEMMA DequeueErrorAddInv ==
  ASSUME TypeOK, NEW s \in Workers, DequeueErrorAdd(s), UNCHANGED found
  PROVE  TypeOK'
<1> USE TypeParts
<1> DEFINE i == goroutines[s].queue
           spec == goroutines[s].spec
<1>1. goroutines[s].pc = "erradd" /\ UnitOf(s) \in Units
  BY GoroutineAt DEF DequeueErrorAdd
<1>2. i \in DOMAIN queues /\ spec \in Specs
  BY GoroutineAt DEF DequeueErrorAdd, GoroutineState
<1> HIDE DEF i, spec
<1>3. SQAddUnschedulableIfNotPresent(queues[i], UnitOf(s), spec) \in QueueType
  BY <1>1, <1>2, QueueAt, SQType
<1>4. SetQueue(i, SQAddUnschedulableIfNotPresent(queues[i], UnitOf(s), spec))
  BY DEF DequeueErrorAdd, i, spec
<1>5. /\ queues' \in Seq(QueueType) /\ DOMAIN queues' = DOMAIN queues
      /\ queueMap' \in MapsTo(Namespaces, DOMAIN queues')
  BY <1>3, <1>4, SetQueueType
<1>6. MQTypeOK'
  BY <1>5 DEF MQTypeOK
<1>7. SchedTypeOK'
  BY <1>1, <1>5, GoroutineGoes DEF DequeueErrorAdd
<1>8. QED
  BY ListedSame, <1>6, <1>7, ApiSame, RQStutterType DEF DequeueErrorAdd

\* One step of a goroutine.
LEMMA GoroutineInv ==
  ASSUME TypeOK, NEW s \in Workers, Goroutine(s)
  PROVE  TypeOK'
BY DequeueGetInv, DequeueUpdateInv, DequeueUnreserveInv, DequeueCallErrorFuncInv,
   DequeueErrorGetInv, DequeueErrorAddInv DEF Goroutine, DequeueGoroutine

----------------------------------------------------------------------------
(***************************************************************************)
(* The other steps of the process.                                         *)
(***************************************************************************)

\* The flush loop of one queue.
LEMMA FlushInv ==
  ASSUME TypeOK, NEW i \in DOMAIN queues, Flush(i)
  PROVE  TypeOK'
<1> USE TypeParts
<1>1. PICK S \in SUBSET DOMAIN queues[i].backoffQ : SetQueue(i, SQFlush(queues[i], S))
  BY DEF Flush, FlushBackoffQCompleted
<1>2. SQFlush(queues[i], S) \in QueueType
  BY <1>1, QueueAt, SQFlushType
<1>3. /\ queues' \in Seq(QueueType) /\ DOMAIN queues' = DOMAIN queues
      /\ queueMap' \in MapsTo(Namespaces, DOMAIN queues')
  BY <1>1, <1>2, SetQueueType
<1>4. MQTypeOK'
  BY <1>3 DEF Flush, MQTypeOK
<1>5. SchedTypeOK' /\ ListedOK'
  BY <1>3, SchedSame DEF Flush, schedVars, ListedOK
<1>6. QED
  BY <1>4, <1>5, ApiSame, RQStutterType DEF Flush

\* The ResourceQuota lister gets one more object.
LEMMA ListResourceQuotaInv ==
  ASSUME TypeOK, NEW n \in Namespaces, ListResourceQuota(n)
  PROVE  TypeOK'
<1> USE TypeParts
<1>1. SchedTypeOK'
  BY SchedSame DEF ListResourceQuota, mqVars
<1>2. PICK q \in Quotas[n] : listed' = [listed EXCEPT ![n] = @ \cup {q}]
  BY DEF ListResourceQuota
<1>3. q \in QuotaObjects
  BY DEF QuotaObjects
<1>4. ListedOK'
  BY <1>2, <1>3 DEF ListedOK
<1>5. QED
  BY <1>1, <1>4, ApiSame, MQSame, RQStutterType DEF ListResourceQuota

\* The events of a list: one for every object, well-formed if every object's is.
LEMMA ListType ==
  ASSUME NEW S, IsFiniteSet(S), NEW s \in SetToSeqs(S), NEW T, NEW e,
         DOMAIN e = DOMAIN s, \A i \in DOMAIN s : s[i] \in S => e[i] \in T,
         e = [i \in DOMAIN s |-> e[i]]
  PROVE  e \in Seq(T)
<1>1. s \in Seq(S)
  BY SetToSeqsType
<1>2. Len(s) \in Nat /\ DOMAIN s = 1 .. Len(s) /\ s \in [1 .. Len(s) -> S]
  BY <1>1, SeqIsFunction
<1>3. e \in [1 .. Len(s) -> T]
  BY <1>2
<1>4. QED
  BY <1>2, <1>3, FunctionIsSeq

\* What the informers of a new process deliver.
LEMMA RelistType ==
  ASSUME ApiTypeOK, Relist
  PROVE  /\ unitEvents' \in Seq(UnitEvent)
         /\ dequeuedEvents' \in Seq(DequeuedEvent)
         /\ queueEvents' \in Seq(QEvent)
         /\ api' \in MapsTo(Units, Objs)
         /\ unseen' \in MapsTo(Units, Objs)
         /\ apiQueues' \in SUBSET QueueObjects
         /\ current' \in [Units -> SUBSET Workers]
<1>1. unitEvents' \in Seq(UnitEvent)
  <2> DEFINE S == {u \in Units : IsQueued(api, u)}
  <2>1. PICK s \in SetToSeqs(S) : unitEvents' =
          [i \in DOMAIN s |-> [op |-> "Add", unit |-> s[i],
                               spec |-> api[s[i]].spec]]
    BY DEF Relist
  <2>2. IsFiniteSet(S)
    BY FiniteObjects, FS_Subset DEF FiniteObjects
  <2>3. \A u \in S : [op |-> "Add", unit |-> u, spec |-> api[u].spec] \in UnitEvent
    BY StoredType DEF IsQueued, ApiTypeOK, Objs, UnitEvent
  <2> HIDE DEF S
  <2>4. \A i \in DOMAIN s : s[i] \in S => unitEvents'[i] \in UnitEvent
    BY <2>1, <2>3
  <2>5. /\ DOMAIN unitEvents' = DOMAIN s
        /\ unitEvents' = [i \in DOMAIN s |-> unitEvents'[i]]
    BY <2>1
  <2>6. QED
    BY <2>1, <2>2, <2>4, <2>5, ListType
<1>2. dequeuedEvents' \in Seq(DequeuedEvent)
  <2> DEFINE S == {u \in Units : IsDequeued(api, u)}
  <2>1. PICK s \in SetToSeqs(S) : dequeuedEvents' =
          [i \in DOMAIN s |-> [op |-> "Add", unit |-> s[i],
                               spec |-> api[s[i]].spec]]
    BY DEF Relist
  <2>2. IsFiniteSet(S)
    BY FiniteObjects, FS_Subset DEF FiniteObjects
  <2>3. \A u \in S : [op |-> "Add", unit |-> u, spec |-> api[u].spec] \in DequeuedEvent
    BY StoredType DEF IsDequeued, ApiTypeOK, Objs, DequeuedEvent
  <2> HIDE DEF S
  <2>4. \A i \in DOMAIN s : s[i] \in S => dequeuedEvents'[i] \in DequeuedEvent
    BY <2>1, <2>3
  <2>5. /\ DOMAIN dequeuedEvents' = DOMAIN s
        /\ dequeuedEvents' = [i \in DOMAIN s |-> dequeuedEvents'[i]]
    BY <2>1
  <2>6. QED
    BY <2>1, <2>2, <2>4, <2>5, ListType
<1>3. queueEvents' \in Seq(QEvent)
  <2>1. PICK s \in SetToSeqs(apiQueues) : queueEvents' =
          [i \in DOMAIN s |-> [op |-> "Add", queue |-> s[i]]]
    BY DEF Relist
  <2>2. IsFiniteSet(apiQueues)
    BY FiniteObjects, FS_Subset DEF FiniteObjects, ApiTypeOK
  <2>3. \A q \in apiQueues : [op |-> "Add", queue |-> q] \in QEvent
    BY DEF QEvent, ApiTypeOK
  <2>4. \A i \in DOMAIN s : s[i] \in apiQueues => queueEvents'[i] \in QEvent
    BY <2>1, <2>3
  <2>5. /\ DOMAIN queueEvents' = DOMAIN s
        /\ queueEvents' = [i \in DOMAIN s |-> queueEvents'[i]]
    BY <2>1
  <2>6. QED
    BY <2>1, <2>2, <2>4, <2>5, ListType
<1>4. QED
  BY <1>1, <1>2, <1>3, EmptyMapType DEF Relist, ApiTypeOK

\* A fresh process: the loop at the start of a cycle, no goroutine, no queue.
LEMMA FreshSched ==
  ASSUME sched = NewCycle, goroutines = [s \in Workers |-> Idle]
  PROVE  SchedTypeOK
<1>1. sched \in LoopState(DOMAIN queues)
  BY NewCycleType
<1>2. goroutines \in [Workers -> GoroutineState(DOMAIN queues)]
  BY IdleType
<1>3. \A s \in Workers : goroutines[s].pc = "idle"
  BY DEF Idle
<1>4. QED
  BY <1>1, <1>2, <1>3 DEF SchedTypeOK

\* No queue at all.
LEMMA FreshQueues ==
  ASSUME queues = << >>, queueMap = EmptyMap, found = NoQueue
  PROVE  MQTypeOK
<1>1. queues \in Seq(QueueType)
  OBVIOUS
<1>2. QED
  BY <1>1, EmptyMapType DEF MQTypeOK

\* Death and restart of the process (NewController): the ledger starts empty, and
\* so does the record.
LEMMA RestartInv == TypeOK /\ Restart => TypeOK'
<1> SUFFICES ASSUME TypeOK, Restart PROVE TypeOK'
  OBVIOUS
<1> USE TypeParts
<1>1. left' \in [Kinds -> Nat]
  BY SpendType DEF Restart, ApiTypeOK
<1>2. ApiTypeOK'
  BY <1>1, RelistType DEF Restart, ApiTypeOK
<1>3. MQTypeOK'
  <2>1. queues' \in Seq(QueueType)
    BY DEF Restart
  <2>2. queueMap' \in MapsTo(Namespaces, DOMAIN queues')
    BY EmptyMapType DEF Restart
  <2>3. QED
    BY <2>1, <2>2 DEF Restart, MQTypeOK
<1>4. SchedTypeOK'
  <2> DEFINE D == DOMAIN queues'
  <2>1. sched' \in LoopState(D)
    BY NewCycleType DEF Restart
  <2>2. goroutines' \in [Workers -> GoroutineState(D)]
    BY IdleType DEF Restart
  <2>3. \A s \in Workers : goroutines'[s].pc = "idle"
    BY DEF Restart, Idle
  <2>4. QED
    BY <2>1, <2>2, <2>3 DEF SchedTypeOK
<1>5. RQTypeOK'
  <2>1. RQInit'
    BY DEF Restart, RQInit
  <2>2. QED
    BY <2>1, RQInitType, PTL
<1>6. QED
  BY <1>2, <1>3, <1>4, <1>5 DEF Restart, ListedOK

----------------------------------------------------------------------------
(***************************************************************************)
(* The theorems.                                                           *)
(***************************************************************************)

\* The process before its informers have delivered anything.
LEMMA InitInv == Init => TypeOK
<1> SUFFICES ASSUME Init PROVE TypeOK
  OBVIOUS
<1> USE TypeParts
<1>1. ApiTypeOK
  <2>1. api \in MapsTo(Units, Objs) /\ unseen \in MapsTo(Units, Objs)
    BY EmptyMapType DEF Init, ApiInit
  <2>2. left \in [Kinds -> Nat]
    BY LimitsOK DEF LimitsOK, Init, ApiInit
  <2>3. /\ unitEvents \in Seq(UnitEvent) /\ dequeuedEvents \in Seq(DequeuedEvent)
        /\ queueEvents \in Seq(QEvent)
    BY DEF Init, ApiInit
  <2>4. QED
    BY <2>1, <2>2, <2>3 DEF Init, ApiInit, ApiTypeOK
<1>2. MQTypeOK
  BY FreshQueues DEF Init, MQInit
<1>3. SchedTypeOK /\ ListedOK
  BY FreshSched DEF Init, SchedInit, ListedOK
<1>4. RQTypeOK
  BY RQInitType DEF Init
<1>5. QED
  BY <1>1, <1>2, <1>3, <1>4

\* A step that changes nothing.
LEMMA StutterInv == TypeOK /\ UNCHANGED vars => TypeOK'
<1> SUFFICES ASSUME TypeOK, UNCHANGED vars PROVE TypeOK'
  OBVIOUS
<1> USE TypeParts
<1>1. SchedTypeOK' /\ ListedOK'
  BY SchedSame DEF vars, mqVars, schedVars, ListedOK
<1>2. QED
  BY <1>1, ApiSame, MQSame, RQStutterType DEF vars

\* Every step of the system keeps the invariant.
LEMMA NextInv == TypeOK /\ [Next]_vars => TypeOK'
<1> SUFFICES ASSUME TypeOK, [Next]_vars PROVE TypeOK'
  OBVIOUS
<1>1. CASE ClientStep
  BY <1>1, ClientStepInv
<1>2. CASE UnitHandler \/ DequeuedHandler \/ QueueHandler
  BY <1>2, UnitHandlerInv, DequeuedHandlerInv, QueueHandlerInv
<1>3. CASE Schedule
  BY <1>3, ScheduleInv
<1>4. ASSUME NEW s \in Workers, Goroutine(s) PROVE TypeOK'
  BY <1>4, GoroutineInv
<1>5. ASSUME NEW i \in DOMAIN queues, Flush(i) PROVE TypeOK'
  BY <1>5, FlushInv
<1>9. ASSUME NEW n \in Namespaces, ListResourceQuota(n) PROVE TypeOK'
  BY <1>9, ListResourceQuotaInv
<1>6. CASE Restart
  BY <1>6, RestartInv
<1>7. CASE StayDown \/ UNCHANGED vars
  BY <1>7, StutterInv DEF StayDown
<1>8. QED
  BY <1>1, <1>2, <1>3, <1>4, <1>5, <1>6, <1>7, <1>9 DEF Next

\* Type correctness of the whole process, with every fault: in particular, every
\* queue pointer that the scheduler, a closure or a handler follows is valid, and
\* a goroutine that still shares the loop variable q reads it only while a cycle
\* gives it a value (scheduler.go, schedule and the closure it starts).
THEOREM TypeCorrect == Spec => []TypeOK
BY InitInv, NextInv, PTL DEF Spec

----------------------------------------------------------------------------

\* An order of a finite set visits every element of it.
LEMMA SetToSeqsOnto ==
  ASSUME NEW S, IsFiniteSet(S), NEW s \in SetToSeqs(S), NEW x \in S
  PROVE  \E i \in DOMAIN s : s[i] = x
<1> DEFINE n == Cardinality(S)
<1>1. n \in Nat
  BY FS_CardinalityType
<1>2. s \in [1 .. n -> S] /\ \A i, j \in 1 .. n : i # j => s[i] # s[j]
  BY DEF SetToSeqs
<1>3. SUFFICES ASSUME \A i \in DOMAIN s : s[i] # x PROVE FALSE
  OBVIOUS
<1>4. IsFiniteSet(S \ {x}) /\ Cardinality(S \ {x}) = n - 1
  BY FS_RemoveElement
<1>5. IsFiniteSet(1 .. n) /\ Cardinality(1 .. n) = n
  BY <1>1, FS_Interval
<1> HIDE DEF n
<1>6. s \in Injection(1 .. n, S \ {x})
  BY <1>2, <1>3 DEF Injection, IsInjective
<1>7. Cardinality(1 .. n) <= Cardinality(S \ {x})
  BY <1>4, <1>6, FS_Injection DEF ExistsInjection
<1>8. QED
  BY <1>1, <1>4, <1>5, <1>7

\* The process that is up: every Queue object has been added.
LEMMA ReadyInv == Ready => TypeOK
<1> SUFFICES ASSUME Ready PROVE TypeOK
  OBVIOUS
<1> USE TypeParts
<1>1. ApiTypeOK
  <2>1. api \in MapsTo(Units, Objs) /\ unseen \in MapsTo(Units, Objs)
    BY EmptyMapType DEF Ready
  <2>2. left \in [Kinds -> Nat]
    BY LimitsOK DEF LimitsOK, Ready
  <2>3. /\ unitEvents \in Seq(UnitEvent) /\ dequeuedEvents \in Seq(DequeuedEvent)
        /\ queueEvents \in Seq(QEvent)
    BY DEF Ready
  <2>4. QED
    BY <2>1, <2>2, <2>3 DEF Ready, ApiTypeOK
<1>2. MQTypeOK
  <2>1. PICK s \in SetToSeqs(QueueObjects) :
          /\ queues = [i \in DOMAIN s |->
                         [NewPrioritySchedulingQueue(s[i]) EXCEPT !.run = TRUE]]
          /\ queueMap = [n \in {QueueNs[q] : q \in QueueObjects} |->
                           CHOOSE i \in DOMAIN s : QueueNs[s[i]] = n]
    BY DEF Ready
  <2>2. IsFiniteSet(QueueObjects)
    BY FiniteObjects DEF FiniteObjects
  <2>3. s \in Seq(QueueObjects)
    BY <2>2, SetToSeqsType
  <2>4. /\ Len(s) \in Nat /\ DOMAIN s = 1 .. Len(s)
        /\ s \in [1 .. Len(s) -> QueueObjects]
    BY <2>3, SeqIsFunction
  <2>5. \A q \in QueueObjects :
          [NewPrioritySchedulingQueue(q) EXCEPT !.run = TRUE] \in QueueType
    <3>1. \A pq \in QueueType : [pq EXCEPT !.run = TRUE] \in QueueType
      BY DEF QueueType
    <3>2. QED
      BY <3>1, NewQueueType
  <2>6. queues \in [1 .. Len(s) -> QueueType]
    BY <2>1, <2>4, <2>5
  <2>7. queues \in Seq(QueueType) /\ DOMAIN queues = DOMAIN s
    BY <2>4, <2>6, FunctionIsSeq
  <2>8. ASSUME NEW n \in DOMAIN queueMap
        PROVE  n \in Namespaces /\ queueMap[n] \in DOMAIN queues
    <3>1. PICK q \in QueueObjects : n = QueueNs[q]
      BY <2>1
    <3>2. PICK i \in DOMAIN s : s[i] = q
      BY <2>2, SetToSeqsOnto
    <3>3. queueMap[n] = CHOOSE j \in DOMAIN s : QueueNs[s[j]] = n
      BY <2>1
    <3>4. queueMap[n] \in DOMAIN s
      BY <3>1, <3>2, <3>3
    <3>5. QED
      BY <2>7, <3>1, <3>4, ConstantsOK DEF ConstantsOK
  <2>9. queueMap \in [DOMAIN queueMap -> DOMAIN queues] /\ DOMAIN queueMap \in SUBSET Namespaces
    BY <2>1, <2>8
  <2>10. QED
    BY <2>7, <2>9, MapsToDef DEF MQTypeOK, Ready
<1>3. SchedTypeOK /\ ListedOK
  BY FreshSched DEF Ready, ListedOK, QuotaObjects
<1>4. RQTypeOK
  BY RQInitType DEF Ready
<1>5. QED
  BY <1>1, <1>2, <1>3, <1>4

----------------------------------------------------------------------------
(***************************************************************************)
(* The budgets of outside events.                                          *)
(***************************************************************************)

\* The budgets only shrink.
LeftBounded == \A k \in Kinds : left[k] <= Limits[k]

\* A step leaves the budgets alone or takes from some of them.
LEMMA LeftStep ==
  ASSUME [Next]_vars
  PROVE  UNCHANGED left \/ \E K : Spend(K)
<1>1. CASE ClientStep
  BY <1>1 DEF ClientStep, Clients, CreateUnit, UpdateUnit, DeleteUnit, FinishUnit,
              DeleteUnitUnseen, RelistMissing, CreateQueue, TouchQueue, RemoveQueue
<1>2. CASE UnitHandler \/ DequeuedHandler \/ QueueHandler
  BY <1>2 DEF UnitHandler, GetQueueByName, AddQueueUnit, UpdateQueueUnit,
              DeleteQueueUnit, UnitHandled, DequeuedHandler, AddDequeuedQueueUnit,
              DeleteDequeuedQueueUnit, DequeuedHandled, QueueHandler, AddQueue,
              UpdateQueue, DeleteQueue, QueueHandled
<1>3. CASE Schedule
  BY <1>3 DEF Schedule, SchedulingLoop, SortedQueue, Length, Pop, FilterSelect,
              FilterCheck, ReserveAndGo, ErrorGet, ErrorAdd, apiVars,
              GetFinds, GetMisses, CallFails
<1>4. ASSUME NEW s \in Workers, Goroutine(s) PROVE UNCHANGED left \/ \E K : Spend(K)
  BY <1>4 DEF Goroutine, DequeueGoroutine, DequeueGet, DequeueUpdate,
              DequeueUnreserve, DequeueCallErrorFunc, DequeueErrorGet,
              DequeueErrorAdd, apiVars, GetFinds, GetMisses, CallFails
<1>5. ASSUME NEW i \in DOMAIN queues, Flush(i) PROVE UNCHANGED left
  BY <1>5 DEF Flush, apiVars
<1>6. ASSUME NEW n \in Namespaces, ListResourceQuota(n) PROVE UNCHANGED left
  BY <1>6 DEF ListResourceQuota, apiVars
<1>7. CASE Restart \/ StayDown \/ UNCHANGED vars
  BY <1>7 DEF Restart, StayDown, vars, apiVars
<1>8. QED
  BY <1>1, <1>2, <1>3, <1>4, <1>5, <1>6, <1>7 DEF Next

\* So no budget grows.
LEMMA LeftShrinks ==
  ASSUME TypeOK, [Next]_vars
  PROVE  \A k \in Kinds : left'[k] <= left[k]
<1>1. left \in [Kinds -> Nat]
  BY DEF TypeOK, ApiTypeOK
<1>2. CASE UNCHANGED left
  BY <1>1, <1>2
<1>3. ASSUME NEW K, Spend(K) PROVE \A k \in Kinds : left'[k] <= left[k]
  BY <1>1, <1>3 DEF Spend
<1>4. QED
  BY <1>2, <1>3, LeftStep

\* They stay bounded, and a fault that has happened stays so.
LEMMA LeftNext ==
  ASSUME TypeOK, LeftBounded, [Next]_vars
  PROVE  LeftBounded' /\ \A k \in Kinds : Unused(k)' => Unused(k)
<1>1. left \in [Kinds -> Nat] /\ Limits \in [Kinds -> Nat]
  BY LimitsOK DEF LimitsOK, TypeOK, ApiTypeOK
<1>2. \A k \in Kinds : left'[k] <= left[k]
  BY LeftShrinks
<1>3. left' \in [Kinds -> Nat]
  BY NextInv DEF TypeOK, ApiTypeOK
<1>4. LeftBounded'
  BY <1>1, <1>2, <1>3 DEF LeftBounded
<1>5. ASSUME NEW k \in Kinds, left'[k] = Limits[k] PROVE left[k] = Limits[k]
  BY <1>1, <1>2, <1>3, <1>5 DEF LeftBounded
<1>6. QED
  BY <1>4, <1>5 DEF Unused

\* A fault that has not happened after a step has not happened in it.
LEMMA NotSpent ==
  ASSUME ApiTypeOK, NEW k \in Kinds, Unused(k), Unused(k)', NEW K, Spend(K)
  PROVE  k \notin K
<1>1. SUFFICES ASSUME k \in K PROVE FALSE
  OBVIOUS
<1>2. left[k] \in Nat /\ left'[k] = left[k] - 1
  BY <1>1 DEF Spend, ApiTypeOK
<1>3. left'[k] = left[k]
  BY DEF Unused
<1>4. QED
  BY <1>2, <1>3

----------------------------------------------------------------------------
(***************************************************************************)
(* The ledger of the whole process.  Until a key gets another              *)
(* Spec.Resource, all copies of a unit request the same, so that Unreserve *)
(* takes back what Reserve added.                                          *)
(***************************************************************************)
Matches(u, spec) == spec.resource = Demand[u]

KeptObjs(m)   == \A u \in DOMAIN m : Matches(u, m[u].spec)
KeptMap(m)    == \A u \in DOMAIN m : Matches(u, m[u])
KeptEvents(s) == \A i \in DOMAIN s : Matches(s[i].unit, s[i].spec)
KeptQueue(pq) == KeptMap(pq.items) /\ KeptMap(pq.backoffQ)
KeptCopy(c)   == c.unit # NoUnit => Matches(c.unit, c.spec)

ApiKept ==
  /\ KeptObjs(api) /\ KeptObjs(unseen)
  /\ KeptEvents(unitEvents) /\ KeptEvents(dequeuedEvents)

QueuesKept == \A i \in DOMAIN queues : KeptQueue(queues[i])

CopiesKept == KeptCopy(sched) /\ \A s \in Workers : KeptCopy(goroutines[s])

SpecsKept == ApiKept /\ QueuesKept /\ CopiesKept

\* A map with a matching copy more, or with a key less.
LEMMA KeptPutDrop ==
  ASSUME NEW f, KeptMap(f), NEW u, NEW spec
  PROVE  /\ Matches(u, spec) => KeptMap(Put(f, u, spec))
         /\ KeptMap(Drop(f, u))
BY DEF KeptMap, Put, Drop

\* A queue only hands on the copies it is given.
LEMMA KeptSQ ==
  ASSUME NEW pq \in QueueType, KeptQueue(pq), NEW u \in Units, NEW spec \in Specs
  PROVE  /\ Matches(u, spec) => /\ KeptQueue(SQAdd(pq, u, spec))
                                /\ KeptQueue(SQAddUnschedulableIfNotPresent(pq, u, spec))
                                /\ KeptQueue(SQUpdate(pq, u, spec))
         /\ KeptQueue(SQDelete(pq, u)) /\ KeptQueue(SQPop(pq, u))
<1>1. KeptMap(pq.items) /\ KeptMap(pq.backoffQ)
  BY DEF KeptQueue
<1>2. \A f : KeptMap(f) => /\ KeptQueue([pq EXCEPT !.items = f])
                           /\ KeptQueue([pq EXCEPT !.backoffQ = f])
  BY <1>1 DEF KeptQueue, QueueType
<1>3. /\ Matches(u, spec) => /\ KeptMap(Put(pq.items, u, spec))
                             /\ KeptMap(Put(pq.backoffQ, u, spec))
      /\ KeptMap(Drop(pq.items, u)) /\ KeptMap(Drop(pq.backoffQ, u))
  BY <1>1, KeptPutDrop
<1>4. QED
  BY <1>2, <1>3 DEF SQAdd, SQAddUnschedulableIfNotPresent, SQDelete, SQUpdate, SQPop

\* So does a flush.
LEMMA KeptFlush ==
  ASSUME NEW pq \in QueueType, KeptQueue(pq), NEW S \in SUBSET DOMAIN pq.backoffQ
  PROVE  KeptQueue(SQFlush(pq, S))
<1> DEFINE items == [u \in DOMAIN pq.items \cup S |->
                       IF u \in S THEN pq.backoffQ[u] ELSE pq.items[u]]
           backoffQ == [u \in DOMAIN pq.backoffQ \ S |-> pq.backoffQ[u]]
<1>1. KeptMap(items) /\ KeptMap(backoffQ)
  BY DEF KeptQueue, KeptMap
<1>2. SQFlush(pq, S) = [pq EXCEPT !.items = items, !.backoffQ = backoffQ]
  BY DEF SQFlush
<1> HIDE DEF items, backoffQ
<1>3. QED
  BY <1>1, <1>2 DEF QueueType, KeptQueue

\* One queue of the table changes.
LEMMA KeptSetQueue ==
  ASSUME MQTypeOK, QueuesKept, NEW i, NEW pq, KeptQueue(pq), SetQueue(i, pq)
  PROVE  QueuesKept'
<1>1. /\ DOMAIN queues' = DOMAIN queues
      /\ \A j \in DOMAIN queues : queues'[j] = IF j = i THEN pq ELSE queues[j]
  BY DEF SetQueue
<1>2. QED
  BY <1>1 DEF QueuesKept

\* Two sequences of events, one after the other.
LEMMA KeptConcat ==
  ASSUME NEW S, NEW s \in Seq(S), NEW t \in Seq(S), KeptEvents(s), KeptEvents(t)
  PROVE  KeptEvents(s \o t)
<1>1. /\ s \o t \in Seq(S) /\ Len(s \o t) = Len(s) + Len(t)
      /\ \A i \in 1 .. Len(s) + Len(t) :
           (s \o t)[i] = IF i <= Len(s) THEN s[i] ELSE t[i - Len(s)]
  BY ConcatProperties
<1> DEFINE w == s \o t
           m == Len(s)
           n == Len(t)
<1>2. /\ m \in Nat /\ n \in Nat /\ DOMAIN s = 1 .. m /\ DOMAIN t = 1 .. n
      /\ DOMAIN w = 1 .. m + n
      /\ \A i \in 1 .. m + n : w[i] = IF i <= m THEN s[i] ELSE t[i - m]
  BY <1>1, SeqIsFunction
<1> HIDE DEF w, m, n
<1>3. ASSUME NEW i \in 1 .. m + n
      PROVE  \/ i \in 1 .. m /\ w[i] = s[i]
             \/ i - m \in 1 .. n /\ w[i] = t[i - m]
  BY <1>2
<1>4. KeptEvents(w)
  BY <1>2, <1>3 DEF KeptEvents
<1>5. QED
  BY <1>4 DEF w

\* The oldest event and the ones after it.
LEMMA KeptTail ==
  ASSUME NEW S, NEW s \in Seq(S), s # << >>, KeptEvents(s)
  PROVE  Matches(Head(s).unit, Head(s).spec) /\ KeptEvents(Tail(s))
BY TailAt DEF KeptEvents

\* The events of a write carry the copy that is written or was seen.
LEMMA KeptFiltered ==
  ASSUME ApiTypeOK, ApiKept, NEW u \in Units, NEW new, KeptObjs(new),
         NEW was \in BOOLEAN, NEW is \in BOOLEAN,
         was => u \in DOMAIN seen, is => u \in DOMAIN new
  PROVE  KeptEvents(Filtered(u, was, is, new))
<1>1. KeptEvents(<< >>)
  BY DEF KeptEvents
<1>2. \A o, spec : Matches(u, spec) =>
        KeptEvents(<< [op |-> o, unit |-> u, spec |-> spec] >>)
  BY DEF KeptEvents, Matches
<1>3. is => Matches(u, new[u].spec)
  BY DEF KeptObjs
<1>4. was => Matches(u, seen[u].spec)
  BY DEF ApiKept, KeptObjs, seen
<1>5. QED
  BY <1>1, <1>2, <1>3, <1>4 DEF Filtered

LEMMA KeptWrite ==
  ASSUME ApiTypeOK, ApiKept, NEW u \in Units, NEW new \in MapsTo(Units, Objs),
         KeptObjs(new), Write(u, new)
  PROVE  ApiKept'
<1>1. KeptObjs(unseen')
  BY DEF Write, ApiKept, KeptObjs, Drop
<1>2. /\ QueuedEvents(u, new) \in Seq(UnitEvent)
      /\ KeptEvents(QueuedEvents(u, new))
  <2>1. /\ IsQueued(seen, u) \in BOOLEAN /\ IsQueued(new, u) \in BOOLEAN
        /\ IsQueued(seen, u) => u \in DOMAIN seen
        /\ IsQueued(new, u) => u \in DOMAIN new
    BY DEF IsQueued
  <2>2. QED
    BY <2>1, FilteredType, KeptFiltered DEF QueuedEvents
<1>3. /\ DequeuedEvents(u, new) \in Seq(DequeuedEvent)
      /\ KeptEvents(DequeuedEvents(u, new))
  <2>1. /\ IsDequeued(seen, u) \in BOOLEAN /\ IsDequeued(new, u) \in BOOLEAN
        /\ IsDequeued(seen, u) => u \in DOMAIN seen
        /\ IsDequeued(new, u) => u \in DOMAIN new
    BY DEF IsDequeued
  <2>2. KeptEvents(<< >>)
    BY DEF KeptEvents
  <2>3. QED
    BY <2>1, <2>2, FilteredType, KeptFiltered DEF DequeuedEvents
<1>4. KeptEvents(unitEvents') /\ KeptEvents(dequeuedEvents')
  BY <1>2, <1>3, KeptConcat DEF Write, ApiKept, ApiTypeOK
<1>5. QED
  BY <1>1, <1>4 DEF Write, ApiKept

\* The clients: only a resize gives a key another Spec.Resource.
LEMMA ClientsKept ==
  ASSUME ApiTypeOK, ApiKept, Clients, Unused("resize"), Unused("resize")'
  PROVE  ApiKept'
<1>1. KeptObjs(api)
  BY DEF ApiKept
<1>2. ASSUME NEW u \in Units, NEW spec \in Specs, CreateUnit(u, spec) PROVE ApiKept'
  <2> DEFINE o == [phase |-> "Enqueued", spec |-> spec]
  <2>1. Matches(u, spec)
    BY <1>2, NotSpent DEF CreateUnit, Kinds, Matches
  <2>2. o \in Objs /\ o.spec = spec
    BY DEF Objs
  <2> HIDE DEF o
  <2>3. Put(api, u, o) \in MapsTo(Units, Objs)
    BY <2>2, PutType DEF ApiTypeOK
  <2>4. KeptObjs(Put(api, u, o))
    BY <1>1, <2>1, <2>2 DEF KeptObjs, Put
  <2>5. Write(u, Put(api, u, o))
    BY <1>2 DEF CreateUnit, o
  <2>6. QED
    BY <2>3, <2>4, <2>5, KeptWrite
<1>3. ASSUME NEW u \in Units, NEW p \in Priorities, UpdateUnit(u, p) PROVE ApiKept'
  <2>1. u \in DOMAIN api /\ api \in [DOMAIN api -> Objs] /\ DOMAIN api \in SUBSET Units
    BY <1>3, MapsToDef DEF UpdateUnit, IsQueued, ApiTypeOK
  <2>2. PICK spec \in Specs : spec = [api[u].spec EXCEPT !.priority = p]
    BY <2>1 DEF Objs, Specs
  <2>3. Matches(u, spec)
    BY <1>1, <2>1, <2>2 DEF KeptObjs, Matches, Objs, Specs
  <2> DEFINE new == [api EXCEPT ![u].spec = spec]
  <2>4. new \in [DOMAIN api -> Objs] /\ new[u].spec = spec
    BY <2>1 DEF Objs
  <2>5. \A v \in DOMAIN api : v # u => new[v] = api[v]
    BY <2>1
  <2>6. Write(u, new)
    BY <1>3, <2>2 DEF UpdateUnit
  <2> HIDE DEF new
  <2>7. new \in MapsTo(Units, Objs) /\ KeptObjs(new)
    BY <1>1, <2>1, <2>3, <2>4, <2>5 DEF MapsTo, KeptObjs
  <2>8. QED
    BY <2>6, <2>7, KeptWrite
<1>4. ASSUME NEW u \in Units, DeleteUnit(u) \/ FinishUnit(u) PROVE ApiKept'
  <2>1. Drop(api, u) \in MapsTo(Units, Objs) /\ KeptObjs(Drop(api, u))
    BY <1>1, DropType DEF ApiTypeOK, KeptObjs, Drop
  <2>2. QED
    BY <1>4, <2>1, KeptWrite DEF DeleteUnit, FinishUnit
<1>5. ASSUME NEW u \in Units, DeleteUnitUnseen(u) PROVE ApiKept'
  <2>1. KeptObjs(Drop(api, u)) /\ KeptObjs(Put(unseen, u, api[u]))
    BY <1>5 DEF DeleteUnitUnseen, ApiKept, KeptObjs, Drop, Put
  <2>2. QED
    BY <1>5, <2>1 DEF DeleteUnitUnseen, ApiKept
<1>6. ASSUME NEW u \in Units, RelistMissing(u) PROVE ApiKept'
  <2>1. KeptObjs(Drop(unseen, u))
    BY DEF ApiKept, KeptObjs, Drop
  <2>2. QED
    BY <1>6, <2>1 DEF RelistMissing, ApiKept
<1>7. ASSUME NEW q \in QueueObjects, CreateQueue(q) \/ TouchQueue(q) \/ RemoveQueue(q)
      PROVE  ApiKept'
  BY <1>7 DEF CreateQueue, TouchQueue, RemoveQueue, ApiKept, unitVars
<1>8. QED
  BY <1>2, <1>3, <1>4, <1>5, <1>6, <1>7 DEF Clients

\* The end of a round changes no goroutine but for the queue it points to.
LEMMA AdvanceKeeps ==
  ASSUME NEW gs \in [Workers -> GoroutineState(DOMAIN queues)], Advance(gs)
  PROVE  /\ \A s \in Workers : /\ goroutines'[s].unit = gs[s].unit
                               /\ goroutines'[s].spec = gs[s].spec
                               /\ goroutines'[s].pc = gs[s].pc
         /\ sched'.pc \in {"length", "sort"} /\ sched'.unit = NoUnit
<1>1. CASE /\ sched' = [NewCycle EXCEPT !.pc = "length", !.rest = Tail(sched.rest)]
           /\ goroutines' = gs
  BY <1>1 DEF NewCycle
<1>2. CASE sched' = NewCycle /\ goroutines' = FreezeLoopVariable(gs, Q)
  <2>1. ASSUME NEW s \in Workers
        PROVE  /\ goroutines'[s].unit = gs[s].unit
               /\ goroutines'[s].spec = gs[s].spec
               /\ goroutines'[s].pc = gs[s].pc
    <3>1. goroutines'[s] = gs[s] \/ goroutines'[s] = [gs[s] EXCEPT !.queue = Q]
      BY <1>2 DEF FreezeLoopVariable
    <3>2. gs[s] \in GoroutineState(DOMAIN queues)
      OBVIOUS
    <3>3. QED
      BY <3>1, <3>2 DEF GoroutineState
  <2>2. QED
    BY <1>2, <2>1 DEF NewCycle
<1>3. QED
  BY <1>1, <1>2 DEF Advance

\* A round that ends without a new goroutine.
LEMMA KeptAdvance ==
  ASSUME SchedTypeOK, CopiesKept, Advance(goroutines)
  PROVE  CopiesKept'
<1>1. goroutines \in [Workers -> GoroutineState(DOMAIN queues)]
  BY DEF SchedTypeOK
<1>2. QED
  BY <1>1, AdvanceKeeps DEF CopiesKept, KeptCopy

\* One goroutine changes.
LEMMA KeptGoroutine ==
  ASSUME SchedTypeOK, CopiesKept, NEW s \in Workers, NEW g, KeptCopy(g),
         goroutines' = [goroutines EXCEPT ![s] = g], UNCHANGED sched
  PROVE  CopiesKept'
<1>1. \A t \in Workers : goroutines'[t] = IF t = s THEN g ELSE goroutines[t]
  BY DEF SchedTypeOK
<1>2. QED
  BY <1>1 DEF CopiesKept, KeptCopy

\* MoveTo and Finish.
LEMMA KeptGoes ==
  ASSUME SchedTypeOK, CopiesKept, NEW s \in Workers, UNCHANGED sched,
         Finish(s) \/ \E pc : MoveTo(s, pc)
  PROVE  CopiesKept'
<1>1. CASE Finish(s)
  <2>1. KeptCopy(Idle)
    BY DEF KeptCopy, Idle
  <2>2. QED
    BY <1>1, <2>1, KeptGoroutine DEF Finish
<1>2. ASSUME NEW pc, MoveTo(s, pc) PROVE CopiesKept'
  <2> DEFINE g == [goroutines[s] EXCEPT !.pc = pc]
  <2>1. goroutines[s] \in GoroutineState(DOMAIN queues)
    BY DEF SchedTypeOK
  <2>2. g.unit = goroutines[s].unit /\ g.spec = goroutines[s].spec
    BY <2>1 DEF GoroutineState
  <2>3. goroutines' = [goroutines EXCEPT ![s] = g]
    BY <1>2, GoroutineWrites
  <2> HIDE DEF g
  <2>4. KeptCopy(g)
    BY <2>2 DEF CopiesKept, KeptCopy
  <2>5. QED
    BY <2>3, <2>4, KeptGoroutine
<1>3. QED
  BY <1>1, <1>2

\* Reserve and Unreserve of a matching copy.
LEMMA PluginExact ==
  ASSUME RQInv, NEW u \in Units, NEW spec, Matches(u, spec),
         \/ Reserve(u, spec.resource) \/ ReserveFails(u)
         \/ Unreserve(u, spec.resource)
  PROVE  RQInv'
BY RQNextInv DEF Matches

\* Frames: what a step leaves alone stays kept.
LEMMA KeptFrame ==
  /\ ApiKept /\ UNCHANGED unitVars => ApiKept'
  /\ QueuesKept /\ UNCHANGED queues => QueuesKept'
  /\ CopiesKept /\ UNCHANGED <<sched, goroutines>> => CopiesKept'
BY DEF ApiKept, QueuesKept, CopiesKept, unitVars

LEMMA SpecsParts ==
  /\ SpecsKept <=> ApiKept /\ QueuesKept /\ CopiesKept
  /\ SpecsKept' <=> ApiKept' /\ QueuesKept' /\ CopiesKept'
BY DEF SpecsKept

\* The unit handler.
LEMMA UnitHandlerKept ==
  ASSUME TypeOK, SpecsKept, RQInv, UnitHandler
  PROVE  SpecsKept' /\ RQInv'
<1> USE TypeParts, SpecsParts
<1>1. /\ UNCHANGED <<rqVars, api, unseen, dequeuedEvents, sched, goroutines>>
      /\ unitEvents # << >> /\ unitEvents' \in {unitEvents, Tail(unitEvents)}
  BY DEF UnitHandler, GetQueueByName, AddQueueUnit, UpdateQueueUnit, DeleteQueueUnit,
         Take, UnitHandled, schedVars
<1>2. ApiKept'
  BY <1>1, KeptTail DEF ApiKept, ApiTypeOK
<1>3. QueuesKept'
  <2>1. CASE GetQueueByName
    BY <2>1, KeptFrame DEF GetQueueByName, mqVars
  <2>2. CASE AddQueueUnit \/ UpdateQueueUnit \/ DeleteQueueUnit
    <3> DEFINE u == Head(unitEvents).unit
               spec == Head(unitEvents).spec
    <3>1. found # NoQueue /\ u \in Units /\ spec \in Specs /\ Matches(u, spec)
      BY <1>1, <2>2, UnitEventType, KeptTail
         DEF AddQueueUnit, UpdateQueueUnit, DeleteQueueUnit, ApiKept, ApiTypeOK
    <3>2. queues[found] \in QueueType /\ KeptQueue(queues[found])
      BY <3>1, QueueAt DEF MQTypeOK, QueuesKept
    <3>3. \/ SetQueue(found, SQAdd(queues[found], u, spec))
          \/ SetQueue(found, SQUpdate(queues[found], u, spec))
          \/ SetQueue(found, SQDelete(queues[found], u))
      BY <2>2 DEF AddQueueUnit, UpdateQueueUnit, DeleteQueueUnit, UnitHandled
    <3> HIDE DEF u, spec
    <3>4. /\ KeptQueue(SQAdd(queues[found], u, spec))
          /\ KeptQueue(SQUpdate(queues[found], u, spec))
          /\ KeptQueue(SQDelete(queues[found], u))
      BY <3>1, <3>2, KeptSQ
    <3>5. QED
      BY <3>3, <3>4, KeptSetQueue
  <2>3. QED
    BY <2>1, <2>2 DEF UnitHandler
<1>4. QED
  BY <1>1, <1>2, <1>3, KeptFrame, RQStutterInv

\* The handler for Dequeued units.
LEMMA DequeuedHandlerKept ==
  ASSUME TypeOK, SpecsKept, RQInv, DequeuedHandler
  PROVE  SpecsKept' /\ RQInv'
<1> USE TypeParts, SpecsParts
<1>1. dequeuedEvents # << >> /\ DequeuedHandled
  BY DEF DequeuedHandler, AddDequeuedQueueUnit, DeleteDequeuedQueueUnit, Take
<1>2. /\ Matches(Head(dequeuedEvents).unit, Head(dequeuedEvents).spec)
      /\ KeptEvents(Tail(dequeuedEvents))
  BY <1>1, KeptTail DEF ApiKept, ApiTypeOK
<1>3. Head(dequeuedEvents).unit \in Units
  <2>1. Head(dequeuedEvents) \in DequeuedEvent
    BY <1>1, FifoType DEF ApiTypeOK
  <2>2. QED
    BY <2>1 DEF DequeuedEvent
<1>4. RQInv'
  BY <1>2, <1>3, PluginExact
     DEF DequeuedHandler, AddDequeuedQueueUnit, DeleteDequeuedQueueUnit
<1>5. ApiKept'
  BY <1>1, <1>2 DEF DequeuedHandled, ApiKept
<1>6. QED
  BY <1>1, <1>4, <1>5, KeptFrame DEF DequeuedHandled, mqVars, schedVars

\* New queues are empty.
LEMMA QueueHandlerKept ==
  ASSUME TypeOK, SpecsKept, RQInv, QueueHandler
  PROVE  SpecsKept' /\ RQInv'
<1> USE TypeParts, SpecsParts
<1>1. PICK q : QueueHandled /\ (MQAdd(q) \/ MQUpdate(q) \/ MQDelete(q))
  BY DEF QueueHandler, AddQueue, UpdateQueue, DeleteQueue
<1>2. QueuesKept'
  <2> DEFINE new == NewPrioritySchedulingQueue(q)
             qs == Append(queues, new)
  <2>1. KeptQueue(new) /\ KeptQueue([new EXCEPT !.run = TRUE])
    BY DEF NewPrioritySchedulingQueue, KeptQueue, KeptMap, EmptyMap
  <2>2. \A i \in DOMAIN queues : /\ KeptQueue(queues[i])
                                 /\ KeptQueue([queues[i] EXCEPT !.run = TRUE])
    <3>1. \A pq \in QueueType : KeptQueue(pq) => KeptQueue([pq EXCEPT !.run = TRUE])
      BY DEF KeptQueue, QueueType
    <3>2. QED
      BY <3>1, QueueAt DEF QueuesKept
  <2> HIDE DEF new
  <2>3. \A i \in DOMAIN qs : qs[i] = new \/ (i \in DOMAIN queues /\ qs[i] = queues[i])
    <3>1. queues \in Seq(QueueType \cup {new})
      BY SeqMono DEF MQTypeOK
    <3>2. QED
      BY <3>1, AppendAt
  <2> HIDE DEF qs
  <2>4. /\ DOMAIN queues' \subseteq DOMAIN queues \cup DOMAIN qs
        /\ \A i \in DOMAIN queues' :
             \/ i \in DOMAIN queues /\ queues'[i] = queues[i]
             \/ i \in DOMAIN qs /\ queues'[i] = qs[i]
             \/ i \in DOMAIN qs /\ queues'[i] = [qs[i] EXCEPT !.run = TRUE]
    BY <1>1 DEF MQAdd, MQUpdate, MQDelete, RunAll, mqVars, qs, new
  <2>5. QED
    BY <2>1, <2>2, <2>3, <2>4 DEF QueuesKept
<1>3. QED
  BY <1>1, <1>2, KeptFrame, RQStutterInv DEF QueueHandled, schedVars

\* A move of the loop that keeps the unit in hand keeps its copy, unless it reads
\* it afresh.
LEMMA LoopKept ==
  ASSUME TypeOK, SpecsKept, RQInv, Schedule
  PROVE  SpecsKept' /\ RQInv'
<1> USE TypeParts, SpecsParts
<1>1. sched \in LoopState(DOMAIN queues)
  BY DEF SchedTypeOK
<1>2. ASSUME NEW c, KeptCopy(c), sched' = c, UNCHANGED goroutines PROVE CopiesKept'
  BY <1>2 DEF CopiesKept
<1>3. ASSUME sched'.unit = sched.unit, sched'.spec = sched.spec, UNCHANGED goroutines
      PROVE  CopiesKept'
  BY <1>3 DEF CopiesKept, KeptCopy
<1>4. CASE SortedQueue
  <2>1. PICK s : sched' = [sched EXCEPT !.rest = s,
                                        !.pc = IF s = << >> THEN "sort" ELSE "length"]
    BY <1>4 DEF SortedQueue
  <2>2. CopiesKept'
    <3>1. sched'.unit = sched.unit /\ sched'.spec = sched.spec
      BY <1>1, <2>1 DEF LoopState
    <3>2. QED
      BY <1>3, <1>4, <3>1 DEF SortedQueue
  <2>3. QED
    BY <1>4, <2>2, KeptFrame, RQStutterInv DEF SortedQueue, apiVars, mqVars
<1>5. CASE Length
  <2>1. CopiesKept'
    <3>1. CASE sched' = [sched EXCEPT !.pc = "pop"] /\ UNCHANGED goroutines
      <4>1. sched'.unit = sched.unit /\ sched'.spec = sched.spec
        BY <1>1, <3>1 DEF LoopState
      <4>2. QED
        BY <1>3, <3>1, <4>1
    <3>2. CASE Advance(goroutines)
      BY <3>2, KeptAdvance
    <3>3. QED
      BY <1>5, <3>1, <3>2 DEF Length
  <2>2. QED
    BY <1>5, <2>1, KeptFrame, RQStutterInv DEF Length, apiVars, mqVars
<1>6. CASE Pop
  <2>1. UNCHANGED <<rqVars, unitVars, goroutines>>
    BY <1>6 DEF Pop, apiVars
  <2>2. ASSUME NEW u \in Tops(queues[Q]), SetQueue(Q, SQPop(queues[Q], u)),
               sched' = [sched EXCEPT !.pc = "filter", !.unit = u,
                                      !.spec = queues[Q].items[u]]
        PROVE  QueuesKept' /\ CopiesKept'
    <3> DEFINE spec == queues[Q].items[u]
               c == [sched EXCEPT !.pc = "filter", !.unit = u, !.spec = spec]
    <3>1. Q \in DOMAIN queues /\ queues[Q] \in QueueType /\ KeptQueue(queues[Q])
      BY <1>6, LoopReads, QueueAt DEF Pop, At, QueuesKept
    <3>2. u \in Units /\ spec \in Specs /\ Matches(u, spec)
      BY <3>1, TopsType DEF Tops, KeptQueue, KeptMap
    <3>3. QueuesKept'
      BY <2>2, <3>1, <3>2, KeptSQ, KeptSetQueue
    <3> HIDE DEF spec
    <3>4. KeptCopy(c)
      BY <1>1, <3>2 DEF LoopState, KeptCopy
    <3>5. sched' = c
      BY <2>2 DEF spec
    <3> HIDE DEF c
    <3>6. QED
      BY <1>2, <2>1, <3>3, <3>4, <3>5
  <2>3. ASSUME sched' = [NewCycle EXCEPT !.pc = "panic"], UNCHANGED mqVars
        PROVE  QueuesKept' /\ CopiesKept'
    <3>1. KeptCopy([NewCycle EXCEPT !.pc = "panic"])
      BY DEF NewCycle, KeptCopy
    <3>2. QED
      BY <1>2, <2>1, <2>3, <3>1, KeptFrame DEF mqVars
  <2>4. QueuesKept' /\ CopiesKept'
    BY <1>6, <2>2, <2>3 DEF Pop
  <2>5. QED
    BY <2>1, <2>4, KeptFrame, RQStutterInv
<1>7. CASE FilterSelect \/ \E r \in Resources : FilterCheck(r)
  <2>1. UNCHANGED <<rqVars, queues, unitVars, goroutines>>
    BY <1>7 DEF FilterSelect, FilterCheck, apiVars, mqVars
  <2>2. PICK pc, B, T : GoTo(pc, B, T)
    BY <1>7 DEF FilterSelect, FilterCheck
  <2>3. CopiesKept'
    <3>1. sched'.unit = sched.unit /\ sched'.spec = sched.spec
      BY <1>1, <2>2 DEF GoTo, LoopState
    <3>2. QED
      BY <1>3, <2>1, <3>1
  <2>4. QED
    BY <2>1, <2>3, KeptFrame, RQStutterInv
<1>8. CASE ReserveAndGo
  <2>1. sched.unit \in Units /\ Matches(sched.unit, sched.spec)
    BY <1>8, LoopReads, ConstantsOK
       DEF ReserveAndGo, At, ConstantsOK, CopiesKept, KeptCopy
  <2>2. RQInv'
    BY <1>8, <2>1, PluginExact DEF ReserveAndGo
  <2>3. ASSUME GoTo("errget", {}, {}), UNCHANGED goroutines PROVE CopiesKept'
    <3>1. sched'.unit = sched.unit /\ sched'.spec = sched.spec
      BY <1>1, <2>3 DEF GoTo, LoopState
    <3>2. QED
      BY <1>3, <2>3, <3>1
  <2>4. ASSUME NEW s \in Workers,
               Advance([goroutines EXCEPT ![s] =
                          [Idle EXCEPT !.pc = "get", !.unit = sched.unit,
                                       !.spec = sched.spec]])
        PROVE  CopiesKept'
    <3> DEFINE G == GoroutineState(DOMAIN queues)
               g == [Idle EXCEPT !.pc = "get", !.unit = sched.unit,
                                 !.spec = sched.spec]
               gs == [goroutines EXCEPT ![s] = g]
    <3>1. g \in G /\ g.unit = sched.unit /\ g.spec = sched.spec
      BY <1>1, <2>1, ConstantsOK DEF ConstantsOK, Idle, GoroutineState, LoopState
    <3>2. goroutines \in [Workers -> G]
      BY DEF SchedTypeOK
    <3>3. Advance(gs)
      BY <2>4
    <3> HIDE DEF G, g
    <3>4. /\ gs \in [Workers -> G]
          /\ \A t \in Workers : gs[t] = IF t = s THEN g ELSE goroutines[t]
      BY <3>1, <3>2
    <3> HIDE DEF gs
    <3>5. /\ \A t \in Workers : /\ goroutines'[t].unit = gs[t].unit
                                /\ goroutines'[t].spec = gs[t].spec
          /\ sched'.unit = NoUnit
      BY <3>3, <3>4, AdvanceKeeps DEF G
    <3>6. \A t \in Workers : KeptCopy(gs[t])
      BY <2>1, <3>1, <3>4 DEF CopiesKept, KeptCopy
    <3>7. QED
      BY <3>5, <3>6 DEF CopiesKept, KeptCopy
  <2>5. CopiesKept'
    BY <1>8, <2>3, <2>4 DEF ReserveAndGo
  <2>6. QED
    BY <1>8, <2>2, <2>5, KeptFrame DEF ReserveAndGo, apiVars, mqVars
<1>9. CASE ErrorGet
  <2>1. UNCHANGED <<rqVars, queues, unitVars>>
    BY <1>9 DEF ErrorGet, mqVars
  <2>2. CASE /\ GetFinds(sched.unit)
             /\ sched' = [sched EXCEPT !.pc = "erradd",
                                       !.spec = api[sched.unit].spec]
             /\ UNCHANGED goroutines
    <3> DEFINE spec == api[sched.unit].spec
               c == [sched EXCEPT !.pc = "erradd", !.spec = spec]
    <3>1. Matches(sched.unit, spec)
      BY <2>2 DEF GetFinds, ApiKept, KeptObjs
    <3> HIDE DEF spec
    <3>2. KeptCopy(c)
      BY <1>1, <3>1 DEF LoopState, KeptCopy
    <3>3. sched' = c
      BY <2>2 DEF spec
    <3> HIDE DEF c
    <3>4. CopiesKept'
      BY <1>2, <2>2, <3>2, <3>3
    <3>5. QED
      BY <2>1, <3>4, KeptFrame, RQStutterInv
  <2>3. CASE Advance(goroutines)
    BY <2>1, <2>3, KeptAdvance, KeptFrame, RQStutterInv
  <2>4. QED
    BY <1>9, <2>2, <2>3 DEF ErrorGet
<1>10. CASE ErrorAdd
  <2>1. sched.unit \in Units /\ sched.spec \in Specs /\ Matches(sched.unit, sched.spec)
    BY <1>1, <1>10, LoopReads, ConstantsOK
       DEF ErrorAdd, At, ConstantsOK, CopiesKept, KeptCopy, LoopState
  <2>2. queues[Q] \in QueueType /\ KeptQueue(queues[Q])
    BY <1>10, LoopReads, QueueAt DEF ErrorAdd, At, QueuesKept
  <2>3. KeptQueue(SQAddUnschedulableIfNotPresent(queues[Q], sched.unit, sched.spec))
    BY <2>1, <2>2, KeptSQ
  <2>4. QueuesKept'
    BY <1>10, <2>3, KeptSetQueue DEF ErrorAdd
  <2>5. QED
    BY <1>10, <2>4, KeptAdvance, KeptFrame, RQStutterInv DEF ErrorAdd, apiVars
<1>11. QED
  BY <1>4, <1>5, <1>6, <1>7, <1>8, <1>9, <1>10 DEF Schedule, SchedulingLoop

\* A goroutine gives back what the loop reserved for its copy.
LEMMA GoroutineKept ==
  ASSUME TypeOK, SpecsKept, RQInv, NEW s \in Workers, Goroutine(s)
  PROVE  SpecsKept' /\ RQInv'
<1> USE TypeParts, SpecsParts
<1>1. UNCHANGED sched
  BY DEF Goroutine, DequeueGoroutine, DequeueGet, DequeueUpdate, DequeueUnreserve,
         DequeueCallErrorFunc, DequeueErrorGet, DequeueErrorAdd
<1>2. /\ goroutines[s] \in GoroutineState(DOMAIN queues)
      /\ KeptCopy(goroutines[s])
  BY DEF SchedTypeOK, CopiesKept
<1>3. CASE DequeueGet(s)
  <2>1. CopiesKept'
    BY <1>1, <1>3, KeptGoes DEF DequeueGet
  <2>2. ApiKept'
    BY <1>3 DEF DequeueGet, ApiKept
  <2>3. QED
    BY <1>3, <2>1, <2>2, KeptFrame, RQStutterInv DEF DequeueGet, mqVars
<1>4. CASE DequeueUpdate(s)
  <2>1. CopiesKept'
    BY <1>1, <1>4, KeptGoes DEF DequeueUpdate
  <2>2. UnitOf(s) \in Units
    BY <1>4, GoroutineAt DEF DequeueUpdate
  <2>3. CASE NoWrite(s, UnitOf(s))
    BY <1>4, <2>1, <2>3, KeptFrame, RQStutterInv
       DEF DequeueUpdate, NoWrite, ApiKept, mqVars
  <2>4. CASE Write(UnitOf(s), [api EXCEPT ![UnitOf(s)].phase = "Dequeued"])
    <3>1. PICK u \in Units : u = UnitOf(s)
      BY <2>2
    <3> DEFINE new == [api EXCEPT ![u].phase = "Dequeued"]
    <3>2. api \in [DOMAIN api -> Objs] /\ DOMAIN api \in SUBSET Units
      BY MapsToDef DEF ApiTypeOK
    <3>3. /\ new \in [DOMAIN api -> Objs]
          /\ \A v \in DOMAIN api : new[v].spec = api[v].spec
      BY <3>2 DEF Objs
    <3>4. Write(u, new)
      BY <2>4, <3>1
    <3> HIDE DEF new
    <3>5. new \in MapsTo(Units, Objs) /\ KeptObjs(new)
      BY <3>2, <3>3 DEF MapsTo, KeptObjs, ApiKept
    <3>6. ApiKept'
      BY <3>4, <3>5, KeptWrite
    <3>7. QED
      BY <1>4, <2>1, <3>6, KeptFrame, RQStutterInv DEF DequeueUpdate, mqVars
  <2>5. QED
    BY <1>4, <2>3, <2>4 DEF DequeueUpdate, SetDequeued
<1>5. CASE DequeueUnreserve(s)
  <2>1. UnitOf(s) \in Units
    BY <1>5, GoroutineAt DEF DequeueUnreserve
  <2>2. Matches(UnitOf(s), goroutines[s].spec)
    BY <1>2, <2>1, ConstantsOK DEF ConstantsOK, UnitOf, KeptCopy
  <2>3. RQInv'
    BY <1>5, <2>1, <2>2, PluginExact DEF DequeueUnreserve
  <2>4. CopiesKept'
    BY <1>1, <1>5, KeptGoes DEF DequeueUnreserve
  <2>5. QED
    BY <1>5, <2>3, <2>4, KeptFrame DEF DequeueUnreserve, apiVars, mqVars
<1>6. CASE DequeueCallErrorFunc(s)
  <2> DEFINE i == IF goroutines[s].queue = LoopVariable THEN Q ELSE goroutines[s].queue
             g == [goroutines[s] EXCEPT !.pc = "errget", !.queue = i]
  <2>1. goroutines' = [goroutines EXCEPT ![s] = g]
    BY <1>6 DEF DequeueCallErrorFunc, SchedTypeOK
  <2> HIDE DEF i
  <2>2. g.unit = goroutines[s].unit /\ g.spec = goroutines[s].spec
    BY <1>2 DEF GoroutineState
  <2> HIDE DEF g
  <2>3. KeptCopy(g)
    BY <1>2, <2>2 DEF KeptCopy
  <2>4. CopiesKept'
    BY <1>1, <2>1, <2>3, KeptGoroutine
  <2>5. QED
    BY <1>6, <2>4, KeptFrame, RQStutterInv DEF DequeueCallErrorFunc, apiVars, mqVars
<1>7. CASE DequeueErrorGet(s)
  <2> DEFINE spec == api[UnitOf(s)].spec
             g == [goroutines[s] EXCEPT !.pc = "erradd", !.spec = spec]
  <2>1. ASSUME GetFinds(UnitOf(s)), goroutines' = [goroutines EXCEPT ![s] = g]
        PROVE  CopiesKept'
    <3>1. Matches(UnitOf(s), spec)
      BY <2>1 DEF GetFinds, ApiKept, KeptObjs
    <3> HIDE DEF spec
    <3>2. g.unit = UnitOf(s) /\ g.spec = spec
      BY <1>2 DEF GoroutineState, UnitOf
    <3> HIDE DEF g
    <3>3. KeptCopy(g)
      BY <3>1, <3>2 DEF KeptCopy
    <3>4. QED
      BY <1>1, <2>1, <3>3, KeptGoroutine
  <2>2. ASSUME Finish(s) PROVE CopiesKept'
    BY <1>1, <2>2, KeptGoes
  <2>3. CopiesKept'
    BY <1>7, <2>1, <2>2 DEF DequeueErrorGet, SchedTypeOK
  <2>4. QED
    BY <1>7, <2>3, KeptFrame, RQStutterInv DEF DequeueErrorGet, mqVars
<1>8. CASE DequeueErrorAdd(s)
  <2> DEFINE i == goroutines[s].queue
             spec == goroutines[s].spec
  <2>1. UnitOf(s) \in Units /\ spec \in Specs /\ i \in DOMAIN queues
    BY <1>8, GoroutineAt DEF DequeueErrorAdd, GoroutineState
  <2>2. Matches(UnitOf(s), spec)
    BY <1>2, <2>1, ConstantsOK DEF ConstantsOK, UnitOf, KeptCopy
  <2>3. queues[i] \in QueueType /\ KeptQueue(queues[i])
    BY <2>1, QueueAt DEF QueuesKept
  <2>4. SetQueue(i, SQAddUnschedulableIfNotPresent(queues[i], UnitOf(s), spec))
    BY <1>8 DEF DequeueErrorAdd
  <2> HIDE DEF i, spec
  <2>5. QueuesKept'
    BY <2>1, <2>2, <2>3, <2>4, KeptSQ, KeptSetQueue
  <2>6. CopiesKept'
    BY <1>1, <1>8, KeptGoes DEF DequeueErrorAdd
  <2>7. QED
    BY <1>8, <2>5, <2>6, KeptFrame, RQStutterInv DEF DequeueErrorAdd, apiVars
<1>9. QED
  BY <1>3, <1>4, <1>5, <1>6, <1>7, <1>8 DEF Goroutine, DequeueGoroutine

\* The events of a list.
LEMMA KeptList ==
  ASSUME NEW S, NEW s \in SetToSeqs(S), IsFiniteSet(S),
         \A u \in S : Matches(u, api[u].spec)
  PROVE  KeptEvents([i \in DOMAIN s |-> [op |-> "Add", unit |-> s[i],
                                         spec |-> api[s[i]].spec]])
<1>1. s \in Seq(S)
  BY SetToSeqsType
<1>2. \A i \in DOMAIN s : s[i] \in S
  BY <1>1
<1>3. QED
  BY <1>2 DEF KeptEvents

\* After a restart every copy comes from the API server's store.
LEMMA RestartKept ==
  ASSUME TypeOK, SpecsKept, Restart
  PROVE  SpecsKept' /\ RQInv'
<1> USE TypeParts, SpecsParts
<1>1. KeptEvents(unitEvents')
  <2> DEFINE S == {u \in Units : IsQueued(api, u)}
  <2>1. PICK s \in SetToSeqs(S) : unitEvents' =
          [i \in DOMAIN s |-> [op |-> "Add", unit |-> s[i],
                               spec |-> api[s[i]].spec]]
    BY DEF Restart, Relist
  <2>2. IsFiniteSet(S) /\ \A u \in S : Matches(u, api[u].spec)
    BY FiniteObjects, FS_Subset DEF FiniteObjects, IsQueued, ApiKept, KeptObjs
  <2> HIDE DEF S
  <2>3. QED
    BY <2>1, <2>2, KeptList
<1>2. KeptEvents(dequeuedEvents')
  <2> DEFINE S == {u \in Units : IsDequeued(api, u)}
  <2>1. PICK s \in SetToSeqs(S) : dequeuedEvents' =
          [i \in DOMAIN s |-> [op |-> "Add", unit |-> s[i],
                               spec |-> api[s[i]].spec]]
    BY DEF Restart, Relist
  <2>2. IsFiniteSet(S) /\ \A u \in S : Matches(u, api[u].spec)
    BY FiniteObjects, FS_Subset DEF FiniteObjects, IsDequeued, ApiKept, KeptObjs
  <2> HIDE DEF S
  <2>3. QED
    BY <2>1, <2>2, KeptList
<1>3. ApiKept'
  BY <1>1, <1>2 DEF Restart, Relist, ApiKept, KeptObjs, EmptyMap
<1>4. QueuesKept' /\ CopiesKept'
  BY DEF Restart, QueuesKept, CopiesKept, KeptCopy, NewCycle, Idle
<1>5. RQInv'
  <2>1. RQInit'
    BY DEF Restart, RQInit
  <2>2. QED
    BY <2>1, RQInitInv, PTL
<1>6. QED
  BY <1>3, <1>4, <1>5

\* A step in which no key gets another Spec.Resource.
LEMMA SpecsNext ==
  ASSUME TypeOK, SpecsKept, RQInv, [Next]_vars, Unused("resize"), Unused("resize")'
  PROVE  SpecsKept' /\ RQInv'
<1> USE TypeParts, SpecsParts
<1>1. CASE ClientStep
  BY <1>1, ClientsKept, KeptFrame, RQStutterInv DEF ClientStep, mqVars, schedVars
<1>2. CASE UnitHandler \/ DequeuedHandler \/ QueueHandler
  BY <1>2, UnitHandlerKept, DequeuedHandlerKept, QueueHandlerKept
<1>3. CASE Schedule
  BY <1>3, LoopKept
<1>4. ASSUME NEW s \in Workers, Goroutine(s) PROVE SpecsKept' /\ RQInv'
  BY <1>4, GoroutineKept
<1>5. ASSUME NEW i \in DOMAIN queues, Flush(i) PROVE SpecsKept' /\ RQInv'
  <2>1. PICK S \in SUBSET DOMAIN queues[i].backoffQ : SetQueue(i, SQFlush(queues[i], S))
    BY <1>5 DEF Flush, FlushBackoffQCompleted
  <2>2. KeptQueue(SQFlush(queues[i], S))
    BY <2>1, QueueAt, KeptFlush DEF QueuesKept
  <2>3. QueuesKept'
    BY <2>1, <2>2, KeptSetQueue
  <2>4. QED
    BY <1>5, <2>3, KeptFrame, RQStutterInv DEF Flush, apiVars, schedVars
<1>6. ASSUME NEW n \in Namespaces, ListResourceQuota(n) PROVE SpecsKept' /\ RQInv'
  BY <1>6, KeptFrame, RQStutterInv DEF ListResourceQuota, apiVars, mqVars
<1>7. CASE Restart
  BY <1>7, RestartKept
<1>8. CASE StayDown \/ UNCHANGED vars
  BY <1>8, KeptFrame, RQStutterInv DEF StayDown, vars, apiVars, mqVars, schedVars
<1>9. QED
  BY <1>1, <1>2, <1>3, <1>4, <1>5, <1>6, <1>7, <1>8 DEF Next

\* No copy of a unit exists at first.
LEMMA SpecsInit ==
  ASSUME Init \/ Ready
  PROVE  TypeOK /\ LeftBounded /\ SpecsKept /\ RQInv
<1> USE SpecsParts
<1>1. TypeOK
  BY InitInv, ReadyInv
<1>2. /\ api = EmptyMap /\ unseen = EmptyMap /\ left = Limits
      /\ unitEvents = << >> /\ dequeuedEvents = << >>
      /\ sched = NewCycle /\ goroutines = [s \in Workers |-> Idle] /\ RQInit
  BY DEF Init, Ready, ApiInit, SchedInit
<1>3. LeftBounded
  BY <1>2, LimitsOK DEF LimitsOK, LeftBounded
<1>4. ApiKept /\ CopiesKept
  BY <1>2 DEF ApiKept, KeptObjs, KeptEvents, EmptyMap, CopiesKept, KeptCopy, NewCycle, Idle
<1>5. QueuesKept
  <2>1. CASE Init
    BY <2>1 DEF Init, MQInit, QueuesKept
  <2>2. CASE Ready
    <3>1. PICK s : queues = [i \in DOMAIN s |->
                     [NewPrioritySchedulingQueue(s[i]) EXCEPT !.run = TRUE]]
      BY <2>2 DEF Ready
    <3>2. \A q : KeptQueue([NewPrioritySchedulingQueue(q) EXCEPT !.run = TRUE])
      BY DEF NewPrioritySchedulingQueue, KeptQueue, KeptMap, EmptyMap
    <3>3. QED
      BY <3>1, <3>2 DEF QueuesKept
  <2>3. QED
    BY <2>1, <2>2
<1>6. QED
  BY <1>1, <1>2, <1>3, <1>4, <1>5, RQInitInv

\* The inductive invariant: with the types, that until a resize all copies match
\* and the ledger is exact.
LedgerInv ==
  TypeOK /\ LeftBounded /\ (Unused("resize") => SpecsKept /\ RQInv)

LEMMA LedgerNext == LedgerInv /\ [Next]_vars => LedgerInv'
<1> SUFFICES ASSUME LedgerInv, [Next]_vars PROVE LedgerInv'
  OBVIOUS
<1>1. TypeOK' /\ LeftBounded' /\ (Unused("resize")' => Unused("resize"))
  BY NextInv, LeftNext DEF LedgerInv, Kinds
<1>2. ASSUME Unused("resize")' PROVE SpecsKept' /\ RQInv'
  BY <1>1, <1>2, SpecsNext DEF LedgerInv
<1>3. QED
  BY <1>1, <1>2 DEF LedgerInv

LEMMA LedgerHolds == LedgerInv => TypeOK /\ LedgerExactUntilResize
BY DEF LedgerInv, LedgerExactUntilResize, RQInv

\* The ledger of the running process is exact until a key gets another
\* Spec.Resource, whatever the interleaving of handlers, scheduler and goroutines
\* and whatever else goes wrong: Reserve and Unreserve are called by the loop, the
\* goroutines and the handlers for Dequeued units with copies they got at
\* different times (resource_quota.go; scheduler.go; eventhandler.go).
THEOREM SystemLedgerExact == Spec => []LedgerExactUntilResize
<1>1. Init => LedgerInv
  BY SpecsInit DEF LedgerInv
<1>2. QED
  BY <1>1, LedgerNext, LedgerHolds, PTL DEF Spec

\* Both hold of the process that starts when everything is up.
THEOREM ReadyInvariance == ReadySpec => [](TypeOK /\ LedgerExactUntilResize)
<1>1. Ready => LedgerInv
  BY SpecsInit DEF LedgerInv
<1>2. QED
  BY <1>1, LedgerNext, LedgerHolds, PTL DEF ReadySpec
============================================================================
