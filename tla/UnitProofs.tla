---------------------------- MODULE UnitProofs -----------------------------
(***************************************************************************)
(* No unit is forgotten: NoUnitLost, for every number of units, queues,    *)
(* goroutines, client writes, lost replies and deletes that the watch      *)
(* misses, as long as the queues stay as they are, no API call fails       *)
(* without effect, the process is not restarted and no unit is created     *)
(* again before the informer knows that its predecessor is gone.           *)
(***************************************************************************)
EXTENDS QuotaProofs

(***************************************************************************)
(* The inductive invariant.                                                *)
(***************************************************************************)

\* The faults that make kube-queue forget a unit have not happened: a changed
\* Queue replaces its queue, ErrorFunc drops a unit it cannot read, after a restart
\* the events of units may come before those of their queues, and a unit whose
\* creation the watch missed is only updated, in a queue that does not have it.
Harmful == {"queueWrite", "callError", "restart", "missedCreate"}

QueuesStand == \A k \in Harmful : Unused(k)

\* The Queue objects have all been added and do not change.
QueuesSettled ==
  /\ apiQueues = QueueObjects /\ queueEvents = << >>
  /\ DOMAIN queueMap = {QueueNs[q] : q \in QueueObjects}

\* Every pointer to a queue is to one the scheduler visits.
PointersRegistered ==
  /\ found \in {NoQueue} \cup Registered
  /\ sched.rest \in Seq(Registered)
  /\ \A s \in Workers : goroutines[s].queue \in {LoopVariable} \cup Registered

\* A unit that waits although a Delete of it is still to be handled was created
\* anew: an Add follows.
DeleteThenAdd ==
  \A i \in DOMAIN unitEvents :
    unitEvents[i].op = "Delete" /\ IsQueued(api, unitEvents[i].unit) =>
      \E j \in DOMAIN unitEvents :
        j > i /\ unitEvents[j].op = "Add" /\ unitEvents[j].unit = unitEvents[i].unit

KnownQueue(u) == ConsumerNs[u] \in DOMAIN queueMap

Remembered == \A u \in Units : IsQueued(api, u) /\ KnownQueue(u) =>
                InQueue(u) \/ InHand(u) \/ AddPending(u)

UnitsKept == DeleteThenAdd /\ Remembered

UnitInv == /\ TypeOK /\ LeftBounded
           /\ QueuesStand => QueuesSettled /\ PointersRegistered /\ UnitsKept

----------------------------------------------------------------------------
(***************************************************************************)
(* One queue: who waits in it after an operation.                          *)
(***************************************************************************)

\* Only Delete and Pop take a unit out, and only the one they are given; Add and
\* AddUnschedulableIfNotPresent put theirs in (priority_scheduling_queue.go).
LEMMA WaitingAfter ==
  ASSUME NEW pq \in QueueType, NEW u, NEW p
  PROVE  /\ Waiting(SQAdd(pq, u, p)) = Waiting(pq) \cup {u}
         /\ Waiting(SQAddUnschedulableIfNotPresent(pq, u, p)) = Waiting(pq) \cup {u}
         /\ Waiting(SQUpdate(pq, u, p)) = Waiting(pq)
         /\ Waiting(pq) \ {u} \subseteq Waiting(SQDelete(pq, u))
         /\ Waiting(pq) \ {u} \subseteq Waiting(SQPop(pq, u))
<1>1. \A f : /\ [pq EXCEPT !.items = f].items = f
             /\ [pq EXCEPT !.items = f].backoffQ = pq.backoffQ
             /\ [pq EXCEPT !.backoffQ = f].items = pq.items
             /\ [pq EXCEPT !.backoffQ = f].backoffQ = f
  BY DEF QueueType
<1>2. \A f, k, v : /\ DOMAIN Put(f, k, v) = DOMAIN f \cup {k}
                   /\ DOMAIN Drop(f, k) = DOMAIN f \ {k}
  BY DEF Put, Drop
<1>3. Waiting(SQAdd(pq, u, p)) = Waiting(pq) \cup {u}
  <2> DEFINE F == Put(pq.items, u, p)
  <2>1. SQAdd(pq, u, p) = [pq EXCEPT !.items = F]
    BY DEF SQAdd
  <2>2. DOMAIN F = DOMAIN pq.items \cup {u}
    BY <1>2
  <2> HIDE DEF F
  <2>3. QED
    BY <1>1, <2>1, <2>2 DEF Waiting
<1>4. Waiting(SQAddUnschedulableIfNotPresent(pq, u, p)) = Waiting(pq) \cup {u}
  <2> DEFINE F == Put(pq.backoffQ, u, p)
  <2>1. SQAddUnschedulableIfNotPresent(pq, u, p) =
          IF u \in Waiting(pq) THEN pq ELSE [pq EXCEPT !.backoffQ = F]
    BY DEF SQAddUnschedulableIfNotPresent
  <2>2. DOMAIN F = DOMAIN pq.backoffQ \cup {u}
    BY <1>2
  <2> HIDE DEF F
  <2>3. Waiting([pq EXCEPT !.backoffQ = F]) = Waiting(pq) \cup {u}
    BY <1>1, <2>2 DEF Waiting
  <2>4. QED
    BY <2>1, <2>3
<1>5. Waiting(SQUpdate(pq, u, p)) = Waiting(pq)
  <2> DEFINE F == Put(pq.items, u, p)
             B == Put(pq.backoffQ, u, p)
  <2>1. SQUpdate(pq, u, p) =
          IF u \in DOMAIN pq.items THEN [pq EXCEPT !.items = F]
          ELSE IF u \in DOMAIN pq.backoffQ THEN [pq EXCEPT !.backoffQ = B] ELSE pq
    BY DEF SQUpdate
  <2>2. DOMAIN F = DOMAIN pq.items \cup {u} /\ DOMAIN B = DOMAIN pq.backoffQ \cup {u}
    BY <1>2
  <2> HIDE DEF F, B
  <2>3. QED
    BY <1>1, <2>1, <2>2 DEF Waiting
<1>6. /\ Waiting(pq) \ {u} \subseteq Waiting(SQDelete(pq, u))
      /\ Waiting(pq) \ {u} \subseteq Waiting(SQPop(pq, u))
  <2> DEFINE F == Drop(pq.items, u)
             B == Drop(pq.backoffQ, u)
  <2>1. /\ SQPop(pq, u) = [pq EXCEPT !.items = F]
        /\ SQDelete(pq, u) = IF u \in DOMAIN pq.items THEN [pq EXCEPT !.items = F]
                             ELSE [pq EXCEPT !.backoffQ = B]
    BY DEF SQPop, SQDelete
  <2>2. DOMAIN F = DOMAIN pq.items \ {u} /\ DOMAIN B = DOMAIN pq.backoffQ \ {u}
    BY <1>2
  <2> HIDE DEF F, B
  <2>3. QED
    BY <1>1, <2>1, <2>2 DEF Waiting
<1>7. QED
  BY <1>3, <1>4, <1>5, <1>6

\* A flush moves units from one heap to the other.
LEMMA WaitingFlushed ==
  ASSUME NEW pq \in QueueType, NEW S, S \subseteq DOMAIN pq.backoffQ
  PROVE  Waiting(SQFlush(pq, S)) = Waiting(pq)
<1> DEFINE F == [u \in DOMAIN pq.items \cup S |->
                   IF u \in S THEN pq.backoffQ[u] ELSE pq.items[u]]
           B == [u \in DOMAIN pq.backoffQ \ S |-> pq.backoffQ[u]]
<1>1. SQFlush(pq, S) = [pq EXCEPT !.items = F, !.backoffQ = B]
  BY DEF SQFlush
<1>2. DOMAIN F = DOMAIN pq.items \cup S /\ DOMAIN B = DOMAIN pq.backoffQ \ S
  OBVIOUS
<1> HIDE DEF F, B
<1>3. /\ [pq EXCEPT !.items = F, !.backoffQ = B].items = F
      /\ [pq EXCEPT !.items = F, !.backoffQ = B].backoffQ = B
  BY DEF QueueType
<1>4. QED
  BY <1>1, <1>2, <1>3 DEF Waiting

\* The queues after an operation on one of them.
LEMMA InQueueAfter ==
  ASSUME MQTypeOK, NEW i \in DOMAIN queues, NEW pq, SetQueue(i, pq)
  PROVE  /\ \A u : InQueue(u) /\ (u \in Waiting(queues[i]) => u \in Waiting(pq))
                     => InQueue(u)'
         /\ i \in Registered => \A u \in Waiting(pq) : InQueue(u)'
         /\ Registered' = Registered
<1>1. /\ queues'[i] = pq
      /\ \A j \in DOMAIN queues : j # i => queues'[j] = queues[j]
      /\ Registered' = Registered
  BY DEF SetQueue, Registered
<1>2. Registered \subseteq DOMAIN queues
  BY RegisteredType
<1>3. QED
  BY <1>1, <1>2 DEF InQueue

----------------------------------------------------------------------------
(***************************************************************************)
(* The events of the units that are not Dequeued.                          *)
(***************************************************************************)

\* An event of the handler for units that are not Dequeued.
LEMMA UnitEventAt ==
  ASSUME ApiTypeOK, NEW i \in DOMAIN unitEvents
  PROVE  unitEvents[i].unit \in Units
<1>1. unitEvents[i] \in UnitEvent
  BY SeqIsFunction DEF ApiTypeOK
<1>2. QED
  BY <1>1 DEF UnitEvent

\* What a write puts into the FIFO of that handler.
LEMMA QueuedWriteEvent ==
  ASSUME ApiTypeOK, NEW u \in Units, NEW new \in MapsTo(Units, Objs),
         IsQueued(new, u) /\ IsQueued(seen, u) => IsQueued(api, u)
  PROVE  \/ QueuedEvents(u, new) = << >> /\ ~IsQueued(api, u) /\ ~IsQueued(new, u)
         \/ \E e \in UnitEvent :
              /\ QueuedEvents(u, new) = << e >> /\ e.unit = u
              /\ \/ e.op = "Add" /\ IsQueued(new, u)
                 \/ e.op = "Update" /\ IsQueued(api, u) /\ IsQueued(new, u)
                 \/ e.op = "Delete" /\ ~IsQueued(new, u)
<1>1. /\ IsQueued(api, u) => IsQueued(seen, u)
      /\ IsQueued(seen, u) => seen[u].spec \in Specs
  BY SeenType DEF IsQueued, Objs
<1>2. IsQueued(new, u) => new[u].spec \in Specs
  BY StoredType DEF IsQueued, Objs
<1>3. QueuedEvents(u, new) = Filtered(u, IsQueued(seen, u), IsQueued(new, u), new)
  BY DEF QueuedEvents
<1>4. CASE ~IsQueued(seen, u) /\ ~IsQueued(new, u)
  BY <1>1, <1>3, <1>4 DEF Filtered
<1>5. ASSUME NEW o \in {"Add", "Update", "Delete"}, NEW spec \in Specs,
             QueuedEvents(u, new) = << [op |-> o, unit |-> u, spec |-> spec] >>,
             \/ o = "Add" /\ IsQueued(new, u)
             \/ o = "Update" /\ IsQueued(api, u) /\ IsQueued(new, u)
             \/ o = "Delete" /\ ~IsQueued(new, u)
      PROVE  \E e \in UnitEvent :
               /\ QueuedEvents(u, new) = << e >> /\ e.unit = u
               /\ \/ e.op = "Add" /\ IsQueued(new, u)
                  \/ e.op = "Update" /\ IsQueued(api, u) /\ IsQueued(new, u)
                  \/ e.op = "Delete" /\ ~IsQueued(new, u)
  <2> DEFINE e == [op |-> o, unit |-> u, spec |-> spec]
  <2>1. e \in UnitEvent /\ e.unit = u /\ e.op = o
    BY DEF UnitEvent
  <2> HIDE DEF e
  <2>2. QED
    BY <1>5, <2>1 DEF e
<1>6. CASE ~IsQueued(seen, u) /\ IsQueued(new, u)
  <2>1. QueuedEvents(u, new) = << [op |-> "Add", unit |-> u, spec |-> new[u].spec] >>
    BY <1>3, <1>6 DEF Filtered
  <2>2. QED
    BY <1>2, <1>5, <1>6, <2>1
<1>7. CASE IsQueued(seen, u) /\ IsQueued(new, u)
  <2>1. QueuedEvents(u, new) = << [op |-> "Update", unit |-> u, spec |-> new[u].spec] >>
    BY <1>3, <1>7 DEF Filtered
  <2>2. QED
    BY <1>2, <1>5, <1>7, <2>1
<1>8. CASE IsQueued(seen, u) /\ ~IsQueued(new, u)
  <2>1. QueuedEvents(u, new) = << [op |-> "Delete", unit |-> u, spec |-> seen[u].spec] >>
    BY <1>3, <1>8 DEF Filtered
  <2>2. QED
    BY <1>1, <1>5, <1>8, <2>1
<1>9. QED
  BY <1>4, <1>6, <1>7, <1>8

----------------------------------------------------------------------------
(***************************************************************************)
(* Steps that keep the units.                                              *)
(***************************************************************************)

\* A step that leaves the store and the events alone: a unit that waits is still
\* in a queue or in somebody's hands.
LEMMA UnitsFrame ==
  ASSUME UnitsKept, UNCHANGED <<api, unitEvents, queueMap>>,
         \A u \in Units : IsQueued(api, u) /\ (InQueue(u) \/ InHand(u))
                            => (InQueue(u) \/ InHand(u))'
  PROVE  UnitsKept'
<1>1. DeleteThenAdd'
  BY DEF UnitsKept, DeleteThenAdd
<1>2. ASSUME NEW u \in Units, IsQueued(api, u)', KnownQueue(u)'
      PROVE  (InQueue(u) \/ InHand(u) \/ AddPending(u))'
  <2>1. InQueue(u) \/ InHand(u) \/ AddPending(u)
    BY <1>2 DEF UnitsKept, Remembered, KnownQueue
  <2>2. AddPending(u) => AddPending(u)'
    BY DEF AddPending
  <2>3. IsQueued(api, u)
    BY <1>2
  <2>4. QED
    BY <2>1, <2>2, <2>3
<1>3. QED
  BY <1>1, <1>2 DEF UnitsKept, Remembered

\* A unit disappears from the store and nobody is told.
LEMMA UnitsUnseen ==
  ASSUME UnitsKept, UNCHANGED <<unitEvents, queueMap, queues, sched, goroutines>>,
         \A u \in Units : IsQueued(api', u) => IsQueued(api, u), ApiTypeOK
  PROVE  UnitsKept'
<1>1. DeleteThenAdd'
  BY UnitEventAt DEF UnitsKept, DeleteThenAdd
<1>2. \A u \in Units : /\ InQueue(u)' <=> InQueue(u)
                       /\ InHand(u)' <=> InHand(u)
                       /\ AddPending(u)' <=> AddPending(u)
                       /\ KnownQueue(u)' <=> KnownQueue(u)
  BY DEF InQueue, Registered, InHand, AddPending, KnownQueue
<1>3. QED
  BY <1>1, <1>2 DEF UnitsKept, Remembered

\* A write of one unit: it leaves an Add behind when the unit begins to wait, and
\* a Delete only when it does not wait any longer.
LEMMA UnitsWrite ==
  ASSUME ApiTypeOK, UnitsKept, NEW u \in Units, NEW new \in MapsTo(Units, Objs),
         Write(u, new), UNCHANGED queueMap,
         IsQueued(new, u) /\ IsQueued(seen, u) => IsQueued(api, u),
         \A v \in Units : v # u => (IsQueued(new, v) <=> IsQueued(api, v)),
         \A v \in Units : IsQueued(new, v) /\ (InQueue(v) \/ InHand(v))
                            => (InQueue(v) \/ InHand(v))'
  PROVE  UnitsKept'
<1>1. /\ api' = new /\ unitEvents' = unitEvents \o QueuedEvents(u, new)
      /\ unitEvents \in Seq(UnitEvent)
  BY DEF Write, ApiTypeOK
<1>2. CASE QueuedEvents(u, new) = << >> /\ ~IsQueued(api, u) /\ ~IsQueued(new, u)
  <2>1. unitEvents \o << >> = unitEvents
    BY <1>1
  <2>2. UNCHANGED unitEvents
    BY <1>1, <1>2, <2>1
  <2>3. DeleteThenAdd'
    BY <1>1, <1>2, <2>2, UnitEventAt DEF UnitsKept, DeleteThenAdd
  <2>4. Remembered'
    BY <1>1, <1>2, <2>2 DEF UnitsKept, Remembered, AddPending, KnownQueue
  <2>5. QED
    BY <2>3, <2>4 DEF UnitsKept
<1>3. ASSUME NEW e \in UnitEvent, QueuedEvents(u, new) = << e >>, e.unit = u,
             \/ e.op = "Add" /\ IsQueued(new, u)
             \/ e.op = "Update" /\ IsQueued(api, u) /\ IsQueued(new, u)
             \/ e.op = "Delete" /\ ~IsQueued(new, u)
      PROVE  UnitsKept'
  <2> DEFINE n == Len(unitEvents) + 1
  <2>1. /\ DOMAIN unitEvents' = DOMAIN unitEvents \cup {n}
        /\ unitEvents'[n] = e
        /\ \A i \in DOMAIN unitEvents : /\ unitEvents'[i] = unitEvents[i]
                                        /\ i \in Nat /\ i < n
        /\ n \in Nat
    BY <1>1, <1>3, AppendAt
  <2> HIDE DEF n
  <2>2. DeleteThenAdd'
    <3> SUFFICES ASSUME NEW i \in DOMAIN unitEvents', unitEvents'[i].op = "Delete",
                        IsQueued(api', unitEvents'[i].unit)
                 PROVE  \E j \in DOMAIN unitEvents' :
                          /\ j > i /\ unitEvents'[j].op = "Add"
                          /\ unitEvents'[j].unit = unitEvents'[i].unit
      BY DEF DeleteThenAdd
    <3>1. i # n
      BY <1>1, <1>3, <2>1
    <3>2. i \in DOMAIN unitEvents /\ unitEvents'[i] = unitEvents[i] /\ n > i
      BY <2>1, <3>1
    <3>3. CASE unitEvents[i].unit = u /\ e.op = "Add"
      BY <1>3, <2>1, <3>2, <3>3
    <3>4. CASE unitEvents[i].unit # u \/ e.op = "Update"
      <4>1. unitEvents[i].unit \in Units
        BY <3>2, UnitEventAt
      <4>2. IsQueued(api, unitEvents[i].unit)
        BY <1>1, <1>3, <3>2, <3>4, <4>1
      <4>3. PICK j \in DOMAIN unitEvents :
              j > i /\ unitEvents[j].op = "Add" /\ unitEvents[j].unit = unitEvents[i].unit
        BY <3>2, <4>2 DEF UnitsKept, DeleteThenAdd
      <4>4. QED
        BY <2>1, <3>2, <4>3
    <3>5. QED
      BY <1>1, <1>3, <3>2, <3>3, <3>4
  <2>3. ASSUME NEW v \in Units, IsQueued(new, v), KnownQueue(v)
        PROVE  (InQueue(v) \/ InHand(v) \/ AddPending(v))'
    <3>1. CASE v = u /\ e.op = "Add"
      BY <1>3, <2>1, <3>1 DEF AddPending
    <3>2. CASE v # u \/ e.op # "Add"
      <4>1. IsQueued(api, v)
        BY <1>3, <2>3, <3>2
      <4>2. InQueue(v) \/ InHand(v) \/ AddPending(v)
        BY <2>3, <4>1 DEF UnitsKept, Remembered
      <4>3. AddPending(v) => AddPending(v)'
        BY <2>1 DEF AddPending
      <4>4. QED
        BY <2>3, <4>2, <4>3
    <3>3. QED
      BY <3>1, <3>2
  <2>4. Remembered'
    BY <1>1, <2>3 DEF Remembered, KnownQueue
  <2>5. QED
    BY <2>2, <2>4 DEF UnitsKept
<1>4. QED
  BY <1>2, <1>3, QueuedWriteEvent

\* A handler has done with the oldest event.  Whatever it does to the queues, the
\* unit of an Add is in one afterwards, a Delete removes nothing but its own unit,
\* and of an event that is dropped the queue is unknown.
LEMMA UnitsEvent ==
  ASSUME ApiTypeOK, UnitsKept, unitEvents # << >>, unitEvents' = Tail(unitEvents),
         UNCHANGED <<api, queueMap, sched, goroutines>>,
         NEW u \in Units, u = Head(unitEvents).unit,
         \A v \in Units : v # u /\ InQueue(v) => InQueue(v)',
         \/ Head(unitEvents).op = "Add" /\ InQueue(u)'
         \/ Head(unitEvents).op = "Update" /\ (InQueue(u) => InQueue(u)')
         \/ Head(unitEvents).op = "Delete"
         \/ ~KnownQueue(u)
  PROVE  UnitsKept'
<1> DEFINE E == unitEvents
           F == unitEvents'
<1>1. /\ 1 \in DOMAIN E /\ Head(E) = E[1]
      /\ \A i \in DOMAIN F : /\ i \in Nat /\ 1 < i + 1 /\ i + 1 \in DOMAIN E
                             /\ F[i] = E[i + 1]
  BY TailAt DEF ApiTypeOK
<1>2. \A j \in DOMAIN E : j # 1 => j \in Nat /\ j - 1 \in DOMAIN F /\ F[j - 1] = E[j]
  <2>1. E \in Seq(UnitEvent)
    BY DEF ApiTypeOK
  <2>2. /\ Len(E) \in Nat /\ DOMAIN E = 1 .. Len(E) /\ Len(E) > 0
        /\ Len(F) = Len(E) - 1 /\ F \in Seq(UnitEvent)
    BY <2>1, SeqIsFunction, HeadTailProperties
  <2>3. DOMAIN F = 1 .. Len(F)
    BY <2>2, SeqIsFunction
  <2> HIDE DEF E, F
  <2>4. \A j \in DOMAIN E : j # 1 => j \in Nat /\ j - 1 \in DOMAIN F /\ (j - 1) + 1 = j
    BY <2>2, <2>3
  <2>5. QED
    BY <1>1, <2>4
<1>3. DeleteThenAdd'
  <2> SUFFICES ASSUME NEW i \in DOMAIN F, F[i].op = "Delete", IsQueued(api, F[i].unit)
               PROVE  \E j \in DOMAIN F :
                        j > i /\ F[j].op = "Add" /\ F[j].unit = F[i].unit
    BY DEF DeleteThenAdd
  <2>1. i + 1 \in DOMAIN E /\ F[i] = E[i + 1] /\ i \in Nat
    BY <1>1
  <2>2. PICK j \in DOMAIN E : j > i + 1 /\ E[j].op = "Add" /\ E[j].unit = E[i + 1].unit
    BY <2>1 DEF UnitsKept, DeleteThenAdd
  <2>3. j # 1 /\ (j \in Nat => j - 1 > i)
    BY <2>1, <2>2
  <2>4. j - 1 \in DOMAIN F /\ F[j - 1] = E[j] /\ j - 1 > i
    BY <1>2, <2>3
  <2>5. QED
    BY <2>1, <2>2, <2>4
<1>4. ASSUME NEW v \in Units, IsQueued(api, v), KnownQueue(v)
      PROVE  (InQueue(v) \/ InHand(v) \/ AddPending(v))'
  <2>1. InQueue(v) \/ InHand(v) \/ AddPending(v)
    BY <1>4 DEF UnitsKept, Remembered
  <2>2. InHand(v) => InHand(v)'
    BY DEF InHand
  <2>3. ASSUME NEW j \in DOMAIN E, j # 1, E[j].unit = v, E[j].op = "Add"
        PROVE  AddPending(v)'
    BY <1>2, <2>3 DEF AddPending
  <2>4. CASE v # u
    <3>1. AddPending(v) => AddPending(v)'
      BY <1>1, <2>3, <2>4 DEF AddPending
    <3>2. QED
      BY <2>1, <2>2, <2>4, <3>1
  <2>5. CASE v = u /\ E[1].op = "Add"
    BY <1>1, <1>4, <2>5
  <2>6. CASE v = u /\ E[1].op = "Update"
    <3>1. AddPending(v) => AddPending(v)'
      BY <2>3, <2>6 DEF AddPending
    <3>2. QED
      BY <1>1, <1>4, <2>1, <2>2, <2>6, <3>1
  <2>7. CASE v = u /\ E[1].op = "Delete"
    <3>1. PICK j \in DOMAIN E : j > 1 /\ E[j].op = "Add" /\ E[j].unit = u
      BY <1>1, <1>4, <2>7 DEF UnitsKept, DeleteThenAdd
    <3>2. QED
      BY <2>3, <2>7, <3>1
  <2>8. QED
    BY <1>1, <1>4, <2>4, <2>5, <2>6, <2>7
<1>5. Remembered'
  BY <1>4 DEF Remembered, KnownQueue
<1>6. QED
  BY <1>3, <1>5 DEF UnitsKept

----------------------------------------------------------------------------
(***************************************************************************)
(* The steps.                                                              *)
(***************************************************************************)

\* Before a step, and what has to be shown after it.
Kept == QueuesSettled /\ PointersRegistered /\ UnitsKept

\* A step that leaves the queue map and the pointers alone.
LEMMA PointersSame ==
  ASSUME Kept, UNCHANGED <<queueVars, queueMap, found, sched, goroutines>>
  PROVE  QueuesSettled' /\ PointersRegistered'
BY DEF Kept, QueuesSettled, PointersRegistered, Registered, queueVars

\* Nobody lets go of a unit when neither the queues nor the scheduler change.
LEMMA HandsSame ==
  ASSUME UNCHANGED <<queues, queueMap, sched, goroutines>>
  PROVE  \A u \in Units : InQueue(u) \/ InHand(u) => (InQueue(u) \/ InHand(u))'
BY DEF InQueue, Registered, InHand

\* The clients: only writes of units are left.
LEMMA ClientUnits ==
  ASSUME TypeOK, TypeOK', Kept, ClientStep,
         \A K : Spend(K) => K \cap Harmful = {}
  PROVE  Kept'
<1>1. ApiTypeOK /\ ApiTypeOK' /\ UnitsKept
  BY DEF TypeOK, Kept
<1>2. Clients /\ UNCHANGED <<queues, queueMap, sched, goroutines, found>>
  BY DEF ClientStep, mqVars, schedVars
<1>3. \A v \in Units : InQueue(v) \/ InHand(v) => (InQueue(v) \/ InHand(v))'
  BY <1>2, HandsSame
<1>4. ASSUME NEW u \in Units, NEW new, Write(u, new), UNCHANGED queueVars,
             u \in DOMAIN api \/ u \notin DOMAIN unseen,
             \A v \in Units : v # u => (IsQueued(new, v) <=> IsQueued(api, v))
      PROVE  Kept'
  <2>1. new \in MapsTo(Units, Objs)
    BY <1>1, <1>4 DEF Write, ApiTypeOK
  <2>2. IsQueued(seen, u) => IsQueued(api, u)
    BY <1>1, <1>4, SeenType DEF IsQueued
  <2>3. UnitsKept'
    BY <1>1, <1>2, <1>3, <1>4, <2>1, <2>2, UnitsWrite
  <2>4. QED
    BY <1>2, <1>4, <2>3, PointersSame DEF Kept
<1>5. ASSUME NEW u \in Units, NEW spec \in Specs, CreateUnit(u, spec) PROVE Kept'
  <2> DEFINE new == Put(api, u, [phase |-> "Enqueued", spec |-> spec])
  <2>1. \A v \in Units : v # u => (IsQueued(new, v) <=> IsQueued(api, v))
    BY DEF IsQueued, Put
  <2>2. Write(u, new) /\ UNCHANGED queueVars
    BY <1>5 DEF CreateUnit
  <2>3. u \notin DOMAIN unseen
    BY <1>5 DEF CreateUnit, Harmful
  <2> HIDE DEF new
  <2>4. QED
    BY <1>4, <2>1, <2>2, <2>3
<1>6. ASSUME NEW u \in Units, NEW p \in Priorities, UpdateUnit(u, p) PROVE Kept'
  <2> DEFINE new == [api EXCEPT ![u].spec = [api[u].spec EXCEPT !.priority = p]]
  <2>1. \A v \in Units : v # u => (IsQueued(new, v) <=> IsQueued(api, v))
    BY DEF IsQueued
  <2>2. Write(u, new) /\ UNCHANGED queueVars /\ u \in DOMAIN api
    BY <1>6 DEF UpdateUnit, IsQueued
  <2> HIDE DEF new
  <2>3. QED
    BY <1>4, <2>1, <2>2
<1>7. ASSUME NEW u \in Units, DeleteUnit(u) \/ FinishUnit(u) PROVE Kept'
  <2> DEFINE new == Drop(api, u)
  <2>1. \A v \in Units : v # u => (IsQueued(new, v) <=> IsQueued(api, v))
    BY DEF IsQueued, Drop
  <2>2. Write(u, new) /\ UNCHANGED queueVars /\ u \in DOMAIN api
    BY <1>7 DEF DeleteUnit, FinishUnit, IsQueued, IsDequeued
  <2> HIDE DEF new
  <2>3. QED
    BY <1>4, <2>1, <2>2
<1>8. ASSUME NEW u \in Units, DeleteUnitUnseen(u) \/ RelistMissing(u) PROVE Kept'
  <2>1. \A v \in Units : IsQueued(api', v) => IsQueued(api, v)
    BY <1>8 DEF DeleteUnitUnseen, RelistMissing, IsQueued, Drop
  <2>2. UNCHANGED <<unitEvents, queueVars>>
    BY <1>8 DEF DeleteUnitUnseen, RelistMissing
  <2>3. UnitsKept'
    BY <1>1, <1>2, <2>1, <2>2, UnitsUnseen
  <2>4. QED
    BY <1>2, <2>2, <2>3, PointersSame DEF Kept
<1>9. \A q \in QueueObjects : ~(CreateQueue(q) \/ TouchQueue(q) \/ RemoveQueue(q))
  BY DEF CreateQueue, TouchQueue, RemoveQueue, Harmful
<1>10. QED
  BY <1>2, <1>5, <1>6, <1>7, <1>8, <1>9 DEF Clients

\* The handlers of the units that wait.
LEMMA UnitHandlerUnits ==
  ASSUME TypeOK, Kept, UnitHandler
  PROVE  Kept'
<1>1. /\ ApiTypeOK /\ MQTypeOK /\ UnitsKept /\ PointersRegistered /\ QueuesSettled
      /\ unitEvents # << >>
      /\ UNCHANGED <<api, queueVars, queueMap, sched, goroutines>>
  BY DEF TypeOK, Kept, UnitHandler, GetQueueByName, AddQueueUnit, UpdateQueueUnit,
         DeleteQueueUnit, Take, UnitHandled, SetQueue, mqVars, schedVars
<1>2. PICK u \in Units : u = Head(unitEvents).unit
  BY <1>1, UnitEventType
<1>3. Registered' = Registered
  BY <1>1 DEF Registered
<1>4. QueuesSettled' /\ (found' \in {NoQueue} \cup Registered => PointersRegistered')
  BY <1>1, <1>3 DEF QueuesSettled, PointersRegistered, queueVars
<1>5. CASE GetQueueByName
  <2>1. UNCHANGED queues
    BY <1>5 DEF GetQueueByName, mqVars
  <2>2. \A v \in Units : InQueue(v) \/ InHand(v) => (InQueue(v) \/ InHand(v))'
    BY <1>1, <2>1, HandsSame
  <2>3. CASE ConsumerNs[u] \in DOMAIN queueMap
    <3>1. found' = queueMap[ConsumerNs[u]] /\ UNCHANGED unitEvents
      BY <1>2, <1>5, <2>3 DEF GetQueueByName
    <3>2. found' \in Registered
      BY <2>3, <3>1 DEF Registered
    <3>3. UnitsKept'
      BY <1>1, <2>2, <3>1, UnitsFrame
    <3>4. QED
      BY <1>4, <3>2, <3>3 DEF Kept
  <2>4. CASE ConsumerNs[u] \notin DOMAIN queueMap
    <3>1. unitEvents' = Tail(unitEvents) /\ UNCHANGED found
      BY <1>2, <1>5, <2>4 DEF GetQueueByName
    <3>2. \A v \in Units : InQueue(v) => InQueue(v)'
      BY <1>1, <2>1 DEF InQueue, Registered
    <3>3. ~KnownQueue(u)
      BY <2>4 DEF KnownQueue
    <3>4. UnitsKept'
      BY <1>1, <1>2, <3>1, <3>2, <3>3, UnitsEvent
    <3>5. found' \in {NoQueue} \cup Registered
      BY <1>1, <3>1 DEF PointersRegistered
    <3>6. QED
      BY <1>4, <3>4, <3>5 DEF Kept
  <2>5. QED
    BY <2>3, <2>4
<1>6. ASSUME NEW pq, found # NoQueue, UnitHandled(pq),
             Waiting(queues[found]) \ {u} \subseteq Waiting(pq),
             \/ Head(unitEvents).op = "Add" /\ u \in Waiting(pq)
             \/ /\ Head(unitEvents).op = "Update"
                /\ Waiting(queues[found]) \subseteq Waiting(pq)
             \/ Head(unitEvents).op = "Delete"
      PROVE  Kept'
  <2>1. PICK i \in Registered : i = found
    BY <1>1, <1>6 DEF PointersRegistered
  <2>2. i \in DOMAIN queues
    BY <1>1, RegisteredType
  <2>3. SetQueue(i, pq) /\ unitEvents' = Tail(unitEvents) /\ found' = NoQueue
    BY <1>6, <2>1 DEF UnitHandled
  <2>4. /\ \A v : InQueue(v) /\ (v \in Waiting(queues[i]) => v \in Waiting(pq))
                    => InQueue(v)'
        /\ \A v \in Waiting(pq) : InQueue(v)'
    BY <1>1, <2>2, <2>3, InQueueAfter
  <2>5. \A v \in Units : v # u /\ InQueue(v) => InQueue(v)'
    BY <1>6, <2>1, <2>4
  <2>6. \/ Head(unitEvents).op = "Add" /\ InQueue(u)'
        \/ Head(unitEvents).op = "Update" /\ (InQueue(u) => InQueue(u)')
        \/ Head(unitEvents).op = "Delete"
    BY <1>6, <2>1, <2>4
  <2>7. UnitsKept'
    BY <1>1, <1>2, <2>3, <2>5, <2>6, UnitsEvent
  <2>8. QED
    BY <1>4, <2>3, <2>7 DEF Kept
<1>7. found # NoQueue => queues[found] \in QueueType
  BY <1>1, RegisteredType, QueueAt DEF PointersRegistered
<1>8. CASE AddQueueUnit
  <2> DEFINE pq == SQAdd(queues[found], u, Head(unitEvents).spec)
  <2>1. found # NoQueue /\ UnitHandled(pq) /\ Head(unitEvents).op = "Add"
    BY <1>2, <1>8 DEF AddQueueUnit, Take
  <2>2. Waiting(pq) = Waiting(queues[found]) \cup {u}
    BY <1>7, <2>1, WaitingAfter
  <2> HIDE DEF pq
  <2>3. QED
    BY <1>6, <2>1, <2>2
<1>9. CASE UpdateQueueUnit
  <2> DEFINE pq == SQUpdate(queues[found], u, Head(unitEvents).spec)
  <2>1. found # NoQueue /\ UnitHandled(pq) /\ Head(unitEvents).op = "Update"
    BY <1>2, <1>9 DEF UpdateQueueUnit, Take
  <2>2. Waiting(pq) = Waiting(queues[found])
    BY <1>7, <2>1, WaitingAfter
  <2> HIDE DEF pq
  <2>3. QED
    BY <1>6, <2>1, <2>2
<1>10. CASE DeleteQueueUnit
  <2> DEFINE pq == SQDelete(queues[found], u)
  <2>1. found # NoQueue /\ UnitHandled(pq) /\ Head(unitEvents).op = "Delete"
    BY <1>2, <1>10 DEF DeleteQueueUnit, Take
  <2>2. Waiting(queues[found]) \ {u} \subseteq Waiting(pq)
    BY <1>7, <2>1, WaitingAfter
  <2> HIDE DEF pq
  <2>3. QED
    BY <1>6, <2>1, <2>2
<1>11. QED
  BY <1>5, <1>8, <1>9, <1>10 DEF UnitHandler

----------------------------------------------------------------------------
(***************************************************************************)
(* The scheduling loop.                                                    *)
(***************************************************************************)

\* The loop is at a queue it visits.
LEMMA LoopAtRegistered ==
  ASSUME SchedTypeOK, PointersRegistered, sched.pc \notin {"sort", "panic"}
  PROVE  Q \in Registered /\ Tail(sched.rest) \in Seq(Registered)
BY LoopReads, FifoType DEF PointersRegistered, Q

\* The end of a round: the loop has let go of its unit, the goroutines have theirs.
LEMMA AdvanceUnits ==
  ASSUME SchedTypeOK, PointersRegistered, sched.pc \notin {"sort", "panic"},
         NEW gs \in [Workers -> GoroutineState(DOMAIN queues)], Advance(gs),
         \A s \in Workers : gs[s].queue \in {LoopVariable} \cup Registered,
         UNCHANGED <<queueMap, found>>
  PROVE  /\ PointersRegistered'
         /\ \A u : (\E s \in Workers : gs[s].unit = u) => InHand(u)'
<1>1. Q \in Registered /\ Tail(sched.rest) \in Seq(Registered) /\ Registered' = Registered
  BY LoopAtRegistered DEF Registered
<1>2. \A u : (\E s \in Workers : gs[s].unit = u) => InHand(u)'
  BY AdvanceKeeps DEF InHand
<1>3. sched'.rest \in Seq(Registered)
  <2>1. << >> \in Seq(Registered)
    OBVIOUS
  <2>2. PICK r : r = Tail(sched.rest)
    OBVIOUS
  <2>3. sched' = [NewCycle EXCEPT !.pc = "length", !.rest = r] \/ sched' = NewCycle
    BY <2>2 DEF Advance
  <2>4. sched'.rest = r \/ sched'.rest = << >>
    <3>1. NewCycle.rest = << >>
      BY DEF NewCycle
    <3>2. [NewCycle EXCEPT !.pc = "length", !.rest = r].rest = r
      BY DEF NewCycle
    <3>3. QED
      BY <2>3, <3>1, <3>2
  <2>5. QED
    BY <1>1, <2>1, <2>2, <2>4
<1>4. ASSUME NEW s \in Workers PROVE goroutines'[s].queue \in {LoopVariable} \cup Registered
  <2>1. goroutines'[s] = gs[s] \/ goroutines'[s] = [gs[s] EXCEPT !.queue = Q]
    BY DEF Advance, FreezeLoopVariable
  <2>2. gs[s] \in GoroutineState(DOMAIN queues)
    OBVIOUS
  <2>3. goroutines'[s].queue = gs[s].queue \/ goroutines'[s].queue = Q
    BY <2>1, <2>2 DEF GoroutineState
  <2>4. QED
    BY <1>1, <2>3
<1>5. QED
  BY <1>1, <1>2, <1>3, <1>4 DEF PointersRegistered

\* One step of the loop: Pop takes a unit in hand, the others keep it there, hand
\* it to a goroutine, put it back, or find that it is not stored any longer.
LEMMA ScheduleUnits ==
  ASSUME TypeOK, Kept, Schedule, ~Spend({"callError"})
  PROVE  Kept'
<1>1. /\ ApiTypeOK /\ MQTypeOK /\ SchedTypeOK
      /\ QueuesSettled /\ PointersRegistered /\ UnitsKept
      /\ goroutines \in [Workers -> GoroutineState(DOMAIN queues)]
  BY DEF TypeOK, Kept, SchedTypeOK
<1>2. /\ UNCHANGED <<api, unitEvents, queueVars, found, queueMap>> /\ SchedulingLoop
  BY DEF Schedule, SchedulingLoop, SortedQueue, Length, Pop, FilterSelect, FilterCheck,
         ReserveAndGo, ErrorGet, ErrorAdd, apiVars, unitVars, queueVars, mqVars, SetQueue
<1>3. QueuesSettled' /\ Registered' = Registered
  BY <1>1, <1>2 DEF QueuesSettled, queueVars, Registered
<1>4. ASSUME PointersRegistered',
             \A u \in Units : IsQueued(api, u) /\ (InQueue(u) \/ InHand(u))
                                => (InQueue(u) \/ InHand(u))'
      PROVE  Kept'
  BY <1>1, <1>2, <1>3, <1>4, UnitsFrame DEF Kept
<1>5. UNCHANGED queues => \A u : InQueue(u) => InQueue(u)'
  BY <1>3 DEF InQueue
<1>6. \A u \in Units : InHand(u) => \/ sched.unit = u
                                    \/ \E s \in Workers : goroutines[s].unit = u
  BY DEF InHand
<1>7. \A s \in Workers : goroutines[s].queue \in {LoopVariable} \cup Registered
  BY <1>1 DEF PointersRegistered
<1>8. sched.pc \in {"sort", "length", "pop", "panic"} => \A u \in Units : sched.unit # u
  BY <1>1, ConstantsOK DEF ConstantsOK, SchedTypeOK, LoopState
<1>9. ASSUME UNCHANGED <<queues, goroutines>>, sched'.unit = sched.unit,
             sched'.rest \in Seq(Registered)
      PROVE  Kept'
  <2>1. PointersRegistered'
    BY <1>1, <1>2, <1>3, <1>9 DEF PointersRegistered
  <2>2. \A u : InHand(u) => InHand(u)'
    BY <1>9 DEF InHand
  <2>3. QED
    BY <1>4, <1>5, <1>9, <2>1, <2>2
<1>10. CASE SortedQueue
  <2>1. PICK r \in SortedQueues :
          sched' = [sched EXCEPT !.rest = r,
                                 !.pc = IF r = << >> THEN "sort" ELSE "length"]
    BY <1>10 DEF SortedQueue
  <2>2. r \in Seq(Registered)
    BY <1>1, <2>1, RegisteredType, SetToSeqsType DEF SortedQueues
  <2>3. sched'.unit = sched.unit /\ sched'.rest = r
    BY <1>1, <2>1 DEF SchedTypeOK, LoopState
  <2>4. QED
    BY <1>9, <1>10, <2>2, <2>3 DEF SortedQueue, mqVars
<1>11. ASSUME NEW pc, UNCHANGED <<queues, goroutines>>,
              \/ sched' = [sched EXCEPT !.pc = pc]
              \/ \E B, T : sched' = [sched EXCEPT !.pc = pc, !.basket = B, !.todo = T]
              \/ \E p : sched' = [sched EXCEPT !.pc = pc, !.spec = p]
       PROVE  Kept'
  <2>1. sched'.unit = sched.unit /\ sched'.rest = sched.rest
    BY <1>1, <1>11 DEF SchedTypeOK, LoopState
  <2>2. QED
    BY <1>1, <1>9, <1>11, <2>1 DEF PointersRegistered
<1>12. CASE Length
  <2>1. CASE sched' = [sched EXCEPT !.pc = "pop"] /\ UNCHANGED goroutines
    BY <1>11, <1>12, <2>1 DEF Length, mqVars
  <2>2. CASE Advance(goroutines)
    <3>1. /\ PointersRegistered'
          /\ \A u : (\E s \in Workers : goroutines[s].unit = u) => InHand(u)'
      BY <1>1, <1>2, <1>7, <1>12, <2>2, AdvanceUnits DEF Length, At
    <3>2. \A u \in Units : sched.unit # u
      BY <1>8, <1>12 DEF Length, At
    <3>3. UNCHANGED queues
      BY <1>12 DEF Length, mqVars
    <3>4. QED
      BY <1>4, <1>5, <1>6, <3>1, <3>2, <3>3
  <2>3. QED
    BY <1>12, <2>1, <2>2 DEF Length
<1>13. CASE Pop
  <2>1. \A u \in Units : sched.unit # u
    BY <1>8, <1>13 DEF Pop, At
  <2>2. UNCHANGED goroutines
    BY <1>13 DEF Pop
  <2>3. ASSUME NEW u \in Tops(queues[Q]), SetQueue(Q, SQPop(queues[Q], u)),
               sched' = [sched EXCEPT !.pc = "filter", !.unit = u,
                                      !.spec = queues[Q].items[u]]
        PROVE  Kept'
    <3>1. PICK i \in DOMAIN queues : i = Q
      BY <1>1, <1>13, LoopReads DEF Pop, At
    <3>2. PICK pq : pq = SQPop(queues[i], u)
      OBVIOUS
    <3>3. SetQueue(i, pq)
      BY <2>3, <3>1, <3>2
    <3>4. Waiting(queues[i]) \ {u} \subseteq Waiting(pq)
      BY <1>1, <3>2, QueueAt, WaitingAfter
    <3>5. \A v : InQueue(v) /\ v # u => InQueue(v)'
      BY <1>1, <3>3, <3>4, InQueueAfter
    <3>6. sched'.unit = u /\ sched'.rest = sched.rest
      BY <1>1, <2>3 DEF SchedTypeOK, LoopState
    <3>7. PointersRegistered'
      BY <1>1, <1>2, <1>3, <2>2, <3>6 DEF PointersRegistered
    <3>8. \A v \in Units : InQueue(v) \/ InHand(v) => (InQueue(v) \/ InHand(v))'
      BY <1>6, <2>1, <2>2, <3>5, <3>6 DEF InHand
    <3>9. QED
      BY <1>4, <3>7, <3>8
  <2>4. CASE sched' = [NewCycle EXCEPT !.pc = "panic"] /\ UNCHANGED mqVars
    <3>1. sched'.rest = << >>
      BY <2>4 DEF NewCycle
    <3>2. PointersRegistered'
      BY <1>1, <1>2, <1>3, <2>2, <3>1 DEF PointersRegistered
    <3>3. \A v \in Units : InQueue(v) \/ InHand(v) => (InQueue(v) \/ InHand(v))'
      BY <1>5, <1>6, <2>1, <2>2, <2>4 DEF InHand, mqVars
    <3>4. QED
      BY <1>4, <3>2, <3>3
  <2>5. QED
    BY <1>13, <2>3, <2>4 DEF Pop
<1>14. CASE FilterSelect
  BY <1>11, <1>14 DEF FilterSelect, GoTo, mqVars
<1>15. ASSUME NEW r \in Resources, FilterCheck(r) PROVE Kept'
  BY <1>11, <1>15 DEF FilterCheck, GoTo, mqVars
<1>16. CASE ReserveAndGo
  <2>1. UNCHANGED queues /\ sched.pc \notin {"sort", "panic"}
    BY <1>16 DEF ReserveAndGo, mqVars, At
  <2>2. CASE GoTo("errget", {}, {}) /\ UNCHANGED goroutines
    BY <1>11, <2>1, <2>2 DEF GoTo
  <2>3. ASSUME NEW s \in Workers, goroutines[s] = Idle,
               Advance([goroutines EXCEPT ![s] =
                          [Idle EXCEPT !.pc = "get", !.unit = sched.unit,
                                       !.spec = sched.spec]])
        PROVE  Kept'
    <3>1. PICK u \in Units : u = sched.unit
      BY <1>1, <1>16, LoopReads DEF ReserveAndGo, At
    <3> DEFINE g == [Idle EXCEPT !.pc = "get", !.unit = u, !.spec = sched.spec]
               gs == [goroutines EXCEPT ![s] = g]
               G == GoroutineState(DOMAIN queues)
    <3>2. g \in G /\ g.unit = u /\ g.queue = LoopVariable
      <4>1. sched.spec \in Specs
        BY <1>1 DEF SchedTypeOK, LoopState
      <4>2. QED
        BY <4>1, ConstantsOK DEF ConstantsOK, Idle, GoroutineState
    <3>3. goroutines \in [Workers -> G]
      BY <1>1
    <3> HIDE DEF g, G
    <3>4. gs \in [Workers -> G]
          /\ \A t \in Workers : gs[t] = IF t = s THEN g ELSE goroutines[t]
      BY <3>2, <3>3
    <3>5. Advance(gs)
      BY <2>3, <3>1 DEF g
    <3> HIDE DEF gs
    <3>6. \A t \in Workers : gs[t].queue \in {LoopVariable} \cup Registered
      BY <1>7, <3>2, <3>4
    <3>7. /\ PointersRegistered'
          /\ \A v : (\E t \in Workers : gs[t].unit = v) => InHand(v)'
      BY <1>1, <1>2, <2>1, <3>4, <3>5, <3>6, AdvanceUnits DEF G
    <3>8. \A v \in Units : goroutines[s].unit # v
      BY <2>3, ConstantsOK DEF ConstantsOK, Idle
    <3>9. \A v \in Units : InHand(v) => InHand(v)'
      BY <1>6, <3>1, <3>2, <3>4, <3>7, <3>8
    <3>10. QED
      BY <1>4, <1>5, <2>1, <3>7, <3>9
  <2>4. QED
    BY <1>16, <2>2, <2>3 DEF ReserveAndGo
<1>17. CASE ErrorGet
  <2>1. UNCHANGED queues /\ sched.pc \notin {"sort", "panic"}
    BY <1>17 DEF ErrorGet, mqVars, At
  <2>2. CASE /\ UNCHANGED goroutines
             /\ sched' = [sched EXCEPT !.pc = "erradd", !.spec = api[sched.unit].spec]
    BY <1>11, <2>1, <2>2
  <2>3. CASE GetMisses(sched.unit) /\ Advance(goroutines)
    <3>1. /\ PointersRegistered'
          /\ \A u : (\E s \in Workers : goroutines[s].unit = u) => InHand(u)'
      BY <1>1, <1>2, <1>7, <2>1, <2>3, AdvanceUnits
    <3>2. \A u \in Units : IsQueued(api, u) => u # sched.unit
      BY <2>3 DEF GetMisses, IsQueued
    <3>3. QED
      BY <1>4, <1>5, <1>6, <2>1, <3>1, <3>2
  <2>4. QED
    BY <1>17, <2>2, <2>3 DEF ErrorGet, CallFails
<1>18. CASE ErrorAdd
  <2>1. sched.pc \notin {"sort", "panic"}
    BY <1>18 DEF ErrorAdd, At
  <2>2. PICK i \in Registered : i = Q
    BY <1>1, <2>1, LoopAtRegistered
  <2>3. i \in DOMAIN queues
    BY <1>1, RegisteredType
  <2>4. PICK pq : pq = SQAddUnschedulableIfNotPresent(queues[i], sched.unit, sched.spec)
    OBVIOUS
  <2>5. SetQueue(i, pq) /\ Advance(goroutines)
    BY <1>18, <2>2, <2>4 DEF ErrorAdd
  <2>6. Waiting(pq) = Waiting(queues[i]) \cup {sched.unit}
    BY <1>1, <2>3, <2>4, QueueAt, WaitingAfter
  <2>7. (\A v : InQueue(v) => InQueue(v)') /\ \A v : v = sched.unit => InQueue(v)'
    BY <1>1, <2>3, <2>5, <2>6, InQueueAfter
  <2>8. /\ PointersRegistered'
        /\ \A u : (\E s \in Workers : goroutines[s].unit = u) => InHand(u)'
    BY <1>1, <1>2, <1>7, <2>1, <2>5, AdvanceUnits
  <2>9. QED
    BY <1>4, <1>6, <2>7, <2>8
<1>19. QED
  BY <1>2, <1>10, <1>12, <1>13, <1>14, <1>15, <1>16, <1>17, <1>18 DEF SchedulingLoop

----------------------------------------------------------------------------
(***************************************************************************)
(* The dequeue goroutines.                                                 *)
(***************************************************************************)

\* A step of goroutine s: every pointer stays one to a visited queue, and nobody
\* but s lets go of a unit.
LEMMA GoroutineHands ==
  ASSUME SchedTypeOK, Kept, NEW s \in Workers, NEW g,
         goroutines' = [goroutines EXCEPT ![s] = g],
         g.queue \in {LoopVariable} \cup Registered,
         UNCHANGED <<queueVars, queueMap, sched, found>>
  PROVE  /\ QueuesSettled' /\ PointersRegistered'
         /\ \A u \in Units : InHand(u) /\ (goroutines[s].unit = u => g.unit = u) => InHand(u)'
<1>1. \A t \in Workers : goroutines'[t] = IF t = s THEN g ELSE goroutines[t]
  BY DEF SchedTypeOK
<1>2. QueuesSettled' /\ Registered' = Registered
  BY DEF Kept, QueuesSettled, queueVars, Registered
<1>3. PointersRegistered'
  BY <1>1, <1>2 DEF Kept, PointersRegistered
<1>4. QED
  BY <1>1, <1>2, <1>3 DEF InHand

\* The same when s keeps its unit and its queue.
LEMMA GoroutineMovesOn ==
  ASSUME SchedTypeOK, Kept, NEW s \in Workers,
         \/ \E pc : MoveTo(s, pc)
         \/ \E pc, p : goroutines' = [goroutines EXCEPT ![s].pc = pc, ![s].spec = p],
         UNCHANGED <<queueVars, queueMap, sched, found>>
  PROVE  /\ QueuesSettled' /\ PointersRegistered'
         /\ \A u \in Units : InHand(u) => InHand(u)'
<1>1. goroutines[s] \in GoroutineState(DOMAIN queues)
  BY DEF SchedTypeOK
<1>2. PICK pc, p : \/ goroutines' = [goroutines EXCEPT ![s] = [goroutines[s] EXCEPT !.pc = pc]]
                   \/ goroutines' = [goroutines EXCEPT ![s] =
                                       [goroutines[s] EXCEPT !.pc = pc, !.spec = p]]
  BY DEF MoveTo, SchedTypeOK
<1>3. PICK g : /\ goroutines' = [goroutines EXCEPT ![s] = g]
               /\ \/ g = [goroutines[s] EXCEPT !.pc = pc]
                  \/ g = [goroutines[s] EXCEPT !.pc = pc, !.spec = p]
  BY <1>2
<1>4. g.unit = goroutines[s].unit /\ g.queue = goroutines[s].queue
  BY <1>1, <1>3 DEF GoroutineState
<1>5. g.queue \in {LoopVariable} \cup Registered
  BY <1>4 DEF Kept, PointersRegistered
<1>6. QED
  BY <1>3, <1>4, <1>5, GoroutineHands

\* One step of a goroutine: it lets go of its unit when the unit is Dequeued, when
\* it is not stored any longer, and when ErrorFunc has put it back.
LEMMA GoroutineUnits ==
  ASSUME TypeOK, TypeOK', Kept, NEW s \in Workers, Goroutine(s), ~Spend({"callError"})
  PROVE  Kept'
<1>1. /\ ApiTypeOK /\ ApiTypeOK' /\ MQTypeOK /\ SchedTypeOK
      /\ QueuesSettled /\ PointersRegistered /\ UnitsKept
  BY DEF TypeOK, Kept
<1>2. /\ UNCHANGED <<queueVars, queueMap, sched, found>> /\ DequeueGoroutine(s)
  BY DEF Goroutine, DequeueGoroutine, DequeueGet, DequeueUpdate, DequeueUnreserve,
         DequeueCallErrorFunc, DequeueErrorGet, DequeueErrorAdd, apiVars, mqVars, SetQueue
<1>3. UNCHANGED queues => \A u : InQueue(u) => InQueue(u)'
  BY <1>2 DEF InQueue, Registered
<1>4. ASSUME QueuesSettled', PointersRegistered', UNCHANGED <<api, unitEvents>>,
             \A u \in Units : IsQueued(api, u) /\ (InQueue(u) \/ InHand(u))
                                => (InQueue(u) \/ InHand(u))'
      PROVE  Kept'
  BY <1>1, <1>2, <1>4, UnitsFrame DEF Kept
<1>5. \A pc : MoveTo(s, pc) => /\ QueuesSettled' /\ PointersRegistered'
                               /\ \A u \in Units : InHand(u) => InHand(u)'
  BY <1>1, <1>2, GoroutineMovesOn
<1>6. Finish(s) => /\ QueuesSettled' /\ PointersRegistered'
                   /\ \A u \in Units : InHand(u) /\ u # UnitOf(s) => InHand(u)'
  BY <1>1, <1>2, GoroutineHands DEF Finish, UnitOf, Idle
<1>7. CASE DequeueGet(s)
  <2>1. \E pc : MoveTo(s, pc)
    BY <1>7 DEF DequeueGet
  <2>2. UNCHANGED <<api, unitEvents, queues>>
    BY <1>7 DEF DequeueGet, mqVars
  <2>3. QED
    BY <1>3, <1>4, <1>5, <2>1, <2>2
<1>8. CASE DequeueUpdate(s)
  <2>1. PICK u \in Units : u = UnitOf(s)
    BY <1>1, <1>8, GoroutineAt DEF DequeueUpdate
  <2>2. UNCHANGED queues /\ (Finish(s) \/ MoveTo(s, "unreserve"))
    BY <1>8 DEF DequeueUpdate, mqVars
  <2>3. /\ QueuesSettled' /\ PointersRegistered'
        /\ \A v \in Units : v # u /\ InHand(v) => InHand(v)'
        /\ MoveTo(s, "unreserve") => \A v \in Units : InHand(v) => InHand(v)'
    BY <1>5, <1>6, <2>1, <2>2
  <2>4. CASE NoWrite(s, u) /\ (IsDequeued(api, u) \/ MoveTo(s, "unreserve"))
    <3>1. \A v \in Units : IsQueued(api, v) /\ InHand(v) => InHand(v)'
      BY <2>3, <2>4 DEF IsDequeued, IsQueued
    <3>2. UNCHANGED <<api, unitEvents>>
      BY <2>4 DEF NoWrite
    <3>3. QED
      BY <1>3, <1>4, <2>2, <2>3, <3>1, <3>2
  <2>5. CASE Write(u, [api EXCEPT ![u].phase = "Dequeued"])
    <3> DEFINE new == [api EXCEPT ![u].phase = "Dequeued"]
    <3>1. \A v \in Units : v # u => (IsQueued(new, v) <=> IsQueued(api, v))
      BY DEF IsQueued
    <3>2. ~IsQueued(new, u)
      <4>1. CASE u \in DOMAIN api
        <5>1. api[u] \in Objs
          BY <1>1, <4>1, StoredType DEF ApiTypeOK
        <5>2. new[u].phase = "Dequeued"
          BY <4>1, <5>1 DEF Objs
        <5>3. QED
          BY <5>2 DEF IsQueued
      <4>2. QED
        BY <4>1 DEF IsQueued
    <3>3. Write(u, new)
      BY <2>5
    <3> HIDE DEF new
    <3>4. new \in MapsTo(Units, Objs)
      BY <1>1, <3>3 DEF Write, ApiTypeOK
    <3>5. \A v \in Units : IsQueued(new, v) /\ (InQueue(v) \/ InHand(v))
                             => (InQueue(v) \/ InHand(v))'
      BY <1>3, <2>2, <2>3, <3>2
    <3>6. UnitsKept'
      BY <1>1, <1>2, <3>1, <3>2, <3>3, <3>4, <3>5, UnitsWrite
    <3>7. QED
      BY <2>3, <3>6 DEF Kept
  <2>6. QED
    BY <1>8, <2>1, <2>4, <2>5 DEF DequeueUpdate, SetDequeued
<1>9. CASE DequeueUnreserve(s)
  <2>1. MoveTo(s, "call") /\ UNCHANGED <<api, unitEvents, queues>>
    BY <1>9 DEF DequeueUnreserve, apiVars, unitVars, mqVars
  <2>2. QED
    BY <1>3, <1>4, <1>5, <2>1
<1>10. CASE DequeueCallErrorFunc(s)
  <2>1. /\ goroutines[s] \in GoroutineState(DOMAIN queues)
        /\ goroutines[s].pc = "call"
    BY <1>1, <1>10, GoroutineAt DEF DequeueCallErrorFunc
  <2>2. PICK i : i = IF goroutines[s].queue = LoopVariable THEN Q ELSE goroutines[s].queue
    OBVIOUS
  <2>3. i \in Registered
    <3>1. CASE goroutines[s].queue = LoopVariable
      <4>1. sched.pc \notin {"sort", "panic"}
        BY <1>1, <1>10, <2>1, <3>1 DEF SchedTypeOK, DequeueCallErrorFunc, AtG, Running, At
      <4>2. QED
        BY <1>1, <2>2, <3>1, <4>1, LoopAtRegistered
    <3>2. CASE goroutines[s].queue # LoopVariable
      BY <1>1, <2>2, <3>2 DEF PointersRegistered
    <3>3. QED
      BY <3>1, <3>2
  <2>4. goroutines' = [goroutines EXCEPT ![s] =
                         [goroutines[s] EXCEPT !.pc = "errget", !.queue = i]]
    BY <1>1, <1>10, <2>2 DEF DequeueCallErrorFunc, SchedTypeOK
  <2>5. PICK g : g = [goroutines[s] EXCEPT !.pc = "errget", !.queue = i]
    OBVIOUS
  <2>6. g.queue = i /\ g.unit = goroutines[s].unit
    BY <2>1, <2>5 DEF GoroutineState
  <2>7. goroutines' = [goroutines EXCEPT ![s] = g]
    BY <2>4, <2>5
  <2>8. QueuesSettled' /\ PointersRegistered' /\ \A u \in Units : InHand(u) => InHand(u)'
    BY <1>1, <1>2, <2>3, <2>6, <2>7, GoroutineHands
  <2>9. UNCHANGED <<api, unitEvents, queues>>
    BY <1>10 DEF DequeueCallErrorFunc, apiVars, unitVars, mqVars
  <2>10. QED
    BY <1>3, <1>4, <2>8, <2>9
<1>11. CASE DequeueErrorGet(s)
  <2>1. UNCHANGED <<api, unitEvents, queues>>
    BY <1>11 DEF DequeueErrorGet, unitVars, mqVars
  <2>2. CASE goroutines' = [goroutines EXCEPT ![s].pc = "erradd",
                              ![s].spec = api[UnitOf(s)].spec]
    <3>1. QueuesSettled' /\ PointersRegistered' /\ \A u \in Units : InHand(u) => InHand(u)'
      BY <1>1, <1>2, <2>2, GoroutineMovesOn
    <3>2. QED
      BY <1>3, <1>4, <2>1, <3>1
  <2>3. CASE GetMisses(UnitOf(s)) /\ Finish(s)
    <3>1. \A u \in Units : IsQueued(api, u) => u # UnitOf(s)
      BY <2>3 DEF GetMisses, IsQueued
    <3>2. QED
      BY <1>3, <1>4, <1>6, <2>1, <2>3, <3>1
  <2>4. QED
    BY <1>11, <2>2, <2>3 DEF DequeueErrorGet, CallFails
<1>12. CASE DequeueErrorAdd(s)
  <2>1. /\ goroutines[s] \in GoroutineState(DOMAIN queues)
        /\ goroutines[s].pc = "erradd"
    BY <1>1, <1>12, GoroutineAt DEF DequeueErrorAdd
  <2>2. PICK i \in Registered : i = goroutines[s].queue
    BY <1>1, <2>1 DEF PointersRegistered, GoroutineState
  <2>3. i \in DOMAIN queues
    BY <1>1, RegisteredType
  <2>4. PICK pq : pq = SQAddUnschedulableIfNotPresent(queues[i], UnitOf(s),
                                                      goroutines[s].spec)
    OBVIOUS
  <2>5. SetQueue(i, pq) /\ Finish(s)
    BY <1>12, <2>2, <2>4 DEF DequeueErrorAdd
  <2>6. Waiting(pq) = Waiting(queues[i]) \cup {UnitOf(s)}
    BY <1>1, <2>3, <2>4, QueueAt, WaitingAfter
  <2>7. (\A v : InQueue(v) => InQueue(v)') /\ \A v : v = UnitOf(s) => InQueue(v)'
    BY <1>1, <2>3, <2>5, <2>6, InQueueAfter
  <2>8. UNCHANGED <<api, unitEvents>>
    BY <1>12 DEF DequeueErrorAdd, apiVars, unitVars
  <2>9. QED
    BY <1>4, <1>6, <2>5, <2>7, <2>8
<1>13. QED
  BY <1>2, <1>7, <1>8, <1>9, <1>10, <1>11, <1>12 DEF DequeueGoroutine

----------------------------------------------------------------------------
(***************************************************************************)
(* The theorem.                                                            *)
(***************************************************************************)

\* When the process is up nothing waits yet.
LEMMA UnitInit ==
  ASSUME Ready
  PROVE  UnitInv
<1>1. TypeOK /\ LeftBounded
  BY SpecsInit
<1>2. QueuesSettled
  BY DEF Ready, QueuesSettled
<1>3. /\ found = NoQueue /\ sched = NewCycle /\ goroutines = [s \in Workers |-> Idle]
      /\ api = EmptyMap /\ unitEvents = << >>
  BY DEF Ready
<1>4. PointersRegistered
  <2>1. sched.rest = << >>
    BY <1>3 DEF NewCycle
  <2>2. \A s \in Workers : goroutines[s].queue = LoopVariable
    BY <1>3 DEF Idle
  <2>3. << >> \in Seq(Registered)
    OBVIOUS
  <2>4. QED
    BY <1>3, <2>1, <2>2, <2>3 DEF PointersRegistered
<1>5. UnitsKept
  BY <1>3 DEF UnitsKept, DeleteThenAdd, Remembered, IsQueued, EmptyMap
<1>6. QED
  BY <1>1, <1>2, <1>4, <1>5 DEF UnitInv

\* While none of these faults has happened, no step is one of them.
LEMMA QueuesStood ==
  ASSUME TypeOK, LeftBounded, [Next]_vars, QueuesStand'
  PROVE  QueuesStand /\ \A K : Spend(K) => K \cap Harmful = {}
<1>1. Harmful \subseteq Kinds
  BY DEF Harmful, Kinds
<1>2. QueuesStand
  BY <1>1, LeftNext DEF QueuesStand
<1>3. ASSUME NEW K, Spend(K), NEW k \in Harmful PROVE k \notin K
  BY <1>1, <1>2, <1>3, NotSpent DEF QueuesStand, TypeOK
<1>4. QED
  BY <1>2, <1>3

\* Every step keeps the invariant.
LEMMA UnitNext ==
  ASSUME UnitInv, [Next]_vars
  PROVE  UnitInv'
<1>1. TypeOK /\ LeftBounded /\ TypeOK' /\ LeftBounded'
  BY NextInv, LeftNext DEF UnitInv
<1>2. SUFFICES ASSUME QueuesStand' PROVE Kept'
  BY <1>1 DEF UnitInv, Kept
<1>3. /\ Kept
      /\ \A K : Spend(K) => K \cap Harmful = {}
      /\ ~Spend({"callError"}) /\ ~Spend({"restart"})
  <2>1. QueuesStand /\ \A K : Spend(K) => K \cap Harmful = {}
    BY <1>1, <1>2, QueuesStood
  <2>2. ~Spend({"callError"}) /\ ~Spend({"restart"})
    BY <2>1 DEF Harmful
  <2>3. QED
    BY <2>1, <2>2 DEF UnitInv, Kept
<1>4. ASSUME UNCHANGED <<api, unitEvents, queueVars, queues, queueMap, sched, goroutines,
                         found>>
      PROVE  Kept'
  BY <1>3, <1>4, PointersSame, HandsSame, UnitsFrame DEF Kept
<1>5. CASE ClientStep
  BY <1>1, <1>3, <1>5, ClientUnits
<1>6. CASE UnitHandler
  BY <1>1, <1>3, <1>6, UnitHandlerUnits
<1>7. CASE DequeuedHandler
  BY <1>4, <1>7 DEF DequeuedHandler, AddDequeuedQueueUnit, DeleteDequeuedQueueUnit,
                    DequeuedHandled, mqVars, schedVars
<1>8. CASE QueueHandler
  BY <1>3, <1>8 DEF QueueHandler, AddQueue, UpdateQueue, DeleteQueue, Take, Kept,
                    QueuesSettled
<1>9. CASE Schedule
  BY <1>1, <1>3, <1>9, ScheduleUnits
<1>10. ASSUME NEW s \in Workers, Goroutine(s) PROVE Kept'
  BY <1>1, <1>3, <1>10, GoroutineUnits
<1>11. ASSUME NEW i \in DOMAIN queues, Flush(i) PROVE Kept'
  <2>1. MQTypeOK
    BY <1>1 DEF TypeOK
  <2>2. PICK S \in SUBSET DOMAIN queues[i].backoffQ : SetQueue(i, SQFlush(queues[i], S))
    BY <1>11 DEF Flush, FlushBackoffQCompleted
  <2>3. PICK pq : pq = SQFlush(queues[i], S)
    OBVIOUS
  <2>4. SetQueue(i, pq) /\ Waiting(pq) = Waiting(queues[i])
    BY <2>1, <2>2, <2>3, QueueAt, WaitingFlushed
  <2>5. \A u : InQueue(u) => InQueue(u)'
    BY <2>1, <2>4, InQueueAfter
  <2>6. UNCHANGED <<api, unitEvents, queueVars, queueMap, sched, goroutines, found>>
    BY <1>11, <2>4 DEF Flush, apiVars, unitVars, schedVars, SetQueue
  <2>7. \A u : InHand(u) => InHand(u)'
    BY <2>6 DEF InHand
  <2>8. UnitsKept'
    BY <1>3, <2>5, <2>6, <2>7, UnitsFrame DEF Kept
  <2>9. QED
    BY <1>3, <2>6, <2>8, PointersSame DEF Kept
<1>12. CASE \/ \E n \in Namespaces : ListResourceQuota(n)
            \/ StayDown \/ UNCHANGED vars
  BY <1>4, <1>12 DEF ListResourceQuota, StayDown, vars, apiVars, unitVars, mqVars,
                     schedVars
<1>13. CASE Restart
  BY <1>3, <1>13 DEF Restart
<1>14. QED
  BY <1>5, <1>6, <1>7, <1>8, <1>9, <1>10, <1>11, <1>12, <1>13 DEF Next

LEMMA UnitInvImplies == UnitInv => (QueuesStand => NoUnitLost)
BY DEF UnitInv, QueuesSettled, UnitsKept, Remembered, KnownQueue, NoUnitLost

\* A unit that waits, and whose queue exists, is in a queue the scheduler visits, or
\* in the hands of the scheduler or of a goroutine, or the event that adds it is
\* still to be handled: with any number of units, goroutines and writes, lost
\* replies and deletes that the watch misses, as long as the queues stay as they
\* are, no call fails, the process is not restarted and no unit is created again
\* before the informer knows that its predecessor is gone (eventhandler.go, the
\* handlers for units that are not Dequeued; scheduler.go, schedule, Dequeue and
\* ErrorFunc).
THEOREM NoUnitIsLost == ReadySpec => [](QueuesStand => NoUnitLost)
<1>1. Ready => UnitInv
  BY UnitInit
<1>2. UnitInv /\ [Next]_vars => UnitInv'
  BY UnitNext
<1>3. QED
  BY <1>1, <1>2, UnitInvImplies, PTL DEF ReadySpec
============================================================================
