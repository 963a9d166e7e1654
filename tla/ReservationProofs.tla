------------------------- MODULE ReservationProofs -------------------------
(***************************************************************************)
(* No reservation is left behind: ReservationJustified, for every number   *)
(* of units, queues, goroutines and faults, across restarts, lost replies  *)
(* and failing calls, until the watch misses a delete.                     *)
(***************************************************************************)
EXTENDS QuotaProofs

(***************************************************************************)
(* The inductive invariant.                                                *)
(***************************************************************************)

\* A copy that still carries the current resourceVersion is one of a stored unit:
\* an Update that succeeds finds the unit.
FreshStored == \A u \in Units : current[u] # {} => u \in DOMAIN api

\* When the last event of a unit is an Add, the unit is Dequeued: the reservation
\* that AddDequeuedQueueUnit makes does not come too late.
LastAddTrue ==
  \A i \in DOMAIN dequeuedEvents :
    /\ dequeuedEvents[i].op = "Add"
    /\ \A j \in DOMAIN dequeuedEvents :
         j > i => dequeuedEvents[j].unit # dequeuedEvents[i].unit
    => IsDequeued(api, dequeuedEvents[i].unit)

Justified(u) == \/ IsDequeued(api, u)
                \/ DequeuedEventPending(u)
                \/ \E s \in Workers : Holds(s, u)

\* The informer's store is up to date.
NothingUnseen == DOMAIN unseen = {}

JustifiedInv == NothingUnseen /\ LastAddTrue /\ \A u \in quRecord : Justified(u)

\* Unreserve of a recorded unit does not return early.
RecordedKnown == \A u \in quRecord : NsOf[u] \in DOMAIN reserved

ReservationInv == /\ TypeOK /\ LeftBounded /\ RecordedKnown /\ FreshStored
                  /\ Unused("missedDelete") => JustifiedInv

----------------------------------------------------------------------------
(***************************************************************************)
(* Fresh copies.                                                           *)
(***************************************************************************)

\* A write of one unit makes every copy of it stale.
LEMMA FreshWrite ==
  ASSUME ApiTypeOK, FreshStored, NEW u \in Units, NEW new, api' = new,
         current' = [current EXCEPT ![u] = {}], DOMAIN api \ {u} \subseteq DOMAIN new
  PROVE  FreshStored'
<1>1. current \in [Units -> SUBSET Workers]
  BY DEF ApiTypeOK
<1>2. current'[u] = {} /\ \A v \in Units : v # u => current'[v] = current[v]
  BY <1>1
<1>3. QED
  BY <1>2 DEF FreshStored

\* The store stays, and copies are made of stored units or dropped.
LEMMA FreshKept ==
  ASSUME FreshStored, UNCHANGED api,
         \A u \in Units : current'[u] \subseteq current[u] \/ u \in DOMAIN api
  PROVE  FreshStored'
BY DEF FreshStored

----------------------------------------------------------------------------
(***************************************************************************)
(* Who justifies a reservation.                                            *)
(***************************************************************************)

\* A step that leaves the store and the events alone and makes no reservation; a
\* goroutine lets go of a reservation only when the unit is Dequeued.
LEMMA JustifiedFrame ==
  ASSUME JustifiedInv, UNCHANGED <<api, unseen, dequeuedEvents>>,
         quRecord' \subseteq quRecord,
         \A s \in Workers, u \in quRecord' :
            Holds(s, u) => Holds(s, u)' \/ IsDequeued(api, u)
  PROVE  JustifiedInv'
<1>1. LastAddTrue'
  BY DEF JustifiedInv, LastAddTrue
<1>2. ASSUME NEW u \in quRecord' PROVE Justified(u)'
  BY <1>2 DEF JustifiedInv, Justified, DequeuedEventPending
<1>3. QED
  BY <1>1, <1>2 DEF JustifiedInv, NothingUnseen

\* What a write puts into the FIFO of the handler for Dequeued units.
LEMMA WriteEvent ==
  ASSUME ApiTypeOK, NothingUnseen, NEW u \in Units, NEW new,
         u \in DOMAIN new => new[u] \in Objs
  PROVE  \/ /\ DequeuedEvents(u, new) = << >>
            /\ IsDequeued(api, u) <=> IsDequeued(new, u)
         \/ \E e \in DequeuedEvent : /\ DequeuedEvents(u, new) = << e >>
                                     /\ e.unit = u
                                     /\ e.op = "Add" <=> IsDequeued(new, u)
<1>1. IsDequeued(seen, u) <=> IsDequeued(api, u)
  BY SeenType DEF IsDequeued, NothingUnseen
<1>2. CASE IsDequeued(api, u) <=> IsDequeued(new, u)
  BY <1>1, <1>2 DEF DequeuedEvents, Filtered
<1>3. CASE ~IsDequeued(api, u) /\ IsDequeued(new, u)
  <2> DEFINE e == [op |-> "Add", unit |-> u, spec |-> new[u].spec]
  <2>1. new[u].spec \in Specs
    BY <1>3 DEF IsDequeued, Objs
  <2>2. e \in DequeuedEvent /\ e.unit = u /\ e.op = "Add"
    BY <2>1 DEF DequeuedEvent
  <2>3. DequeuedEvents(u, new) = << e >>
    BY <1>1, <1>3 DEF DequeuedEvents, Filtered
  <2> HIDE DEF e
  <2>4. QED
    BY <1>3, <2>2, <2>3
<1>4. CASE IsDequeued(api, u) /\ ~IsDequeued(new, u)
  <2> DEFINE e == [op |-> "Delete", unit |-> u, spec |-> seen[u].spec]
  <2>1. seen[u].spec \in Specs
    BY <1>1, <1>4, SeenType DEF IsDequeued, Objs
  <2>2. e \in DequeuedEvent /\ e.unit = u /\ e.op = "Delete"
    BY <2>1 DEF DequeuedEvent
  <2>3. DequeuedEvents(u, new) = << e >>
    BY <1>1, <1>4 DEF DequeuedEvents, Filtered
  <2> HIDE DEF e
  <2>4. QED
    BY <1>4, <2>2, <2>3
<1>5. QED
  BY <1>2, <1>3, <1>4

\* A write of one unit: a change of its phase leaves an event behind.
LEMMA JustifiedWrite ==
  ASSUME ApiTypeOK, RQTypeOK, JustifiedInv, NEW u \in Units, NEW new, Write(u, new),
         UNCHANGED quRecord, u \in DOMAIN new => new[u] \in Objs,
         \A v \in Units : v # u => (IsDequeued(new, v) <=> IsDequeued(api, v)),
         \A s \in Workers, v \in Units :
            Holds(s, v) => Holds(s, v)' \/ (v = u /\ IsDequeued(new, u))
  PROVE  JustifiedInv'
<1>1. /\ api' = new
      /\ dequeuedEvents' = dequeuedEvents \o DequeuedEvents(u, new)
      /\ dequeuedEvents \in Seq(DequeuedEvent)
      /\ quRecord \in SUBSET Units
      /\ NothingUnseen /\ NothingUnseen'
  BY DEF Write, ApiTypeOK, RQTypeOK, JustifiedInv, NothingUnseen, Drop
<1>2. CASE DequeuedEvents(u, new) = << >> /\ (IsDequeued(api, u) <=> IsDequeued(new, u))
  <2>1. dequeuedEvents \o << >> = dequeuedEvents
    BY <1>1
  <2>2. UNCHANGED dequeuedEvents
    BY <1>1, <1>2, <2>1
  <2>3. LastAddTrue'
    BY <1>1, <1>2, <2>2, EventAt DEF JustifiedInv, LastAddTrue
  <2>4. ASSUME NEW v \in quRecord' PROVE Justified(v)'
    BY <1>1, <1>2, <2>2, <2>4 DEF JustifiedInv, Justified, DequeuedEventPending
  <2>5. QED
    BY <1>1, <2>3, <2>4 DEF JustifiedInv
<1>3. ASSUME NEW d \in DequeuedEvent, DequeuedEvents(u, new) = << d >>,
             d.unit = u, d.op = "Add" <=> IsDequeued(new, u)
      PROVE  JustifiedInv'
  <2> DEFINE n == Len(dequeuedEvents) + 1
  <2>1. d \in DequeuedEvent /\ d.unit = u
    BY <1>3
  <2>2. dequeuedEvents' = dequeuedEvents \o << d >>
    BY <1>1, <1>3
  <2>3. /\ DOMAIN dequeuedEvents' = DOMAIN dequeuedEvents \cup {n}
        /\ dequeuedEvents'[n] = d
        /\ \A i \in DOMAIN dequeuedEvents : /\ dequeuedEvents'[i] = dequeuedEvents[i]
                                            /\ i \in Nat /\ i < n
        /\ n \in Nat
    BY <1>1, <2>1, <2>2, AppendAt
  <2> HIDE DEF n
  <2>4. LastAddTrue'
    <3> SUFFICES ASSUME NEW i \in DOMAIN dequeuedEvents', dequeuedEvents'[i].op = "Add",
                        \A j \in DOMAIN dequeuedEvents' :
                          j > i => dequeuedEvents'[j].unit # dequeuedEvents'[i].unit
                 PROVE  IsDequeued(api', dequeuedEvents'[i].unit)
      BY DEF LastAddTrue
    <3>1. CASE i = n
      BY <1>1, <1>3, <2>1, <2>3, <3>1
    <3>2. CASE i \in DOMAIN dequeuedEvents
      <4>1. dequeuedEvents'[i] = dequeuedEvents[i] /\ dequeuedEvents[i].unit \in Units
        BY <2>3, <3>2, EventAt
      <4>2. n > i /\ n \in DOMAIN dequeuedEvents' /\ dequeuedEvents'[n].unit = u
        BY <2>1, <2>3, <3>2
      <4>3. dequeuedEvents[i].unit # u
        BY <4>1, <4>2
      <4>4. \A j \in DOMAIN dequeuedEvents :
              j > i => dequeuedEvents[j].unit # dequeuedEvents[i].unit
        BY <2>3, <4>1
      <4>5. IsDequeued(api, dequeuedEvents[i].unit)
        BY <3>2, <4>1, <4>4 DEF JustifiedInv, LastAddTrue
      <4>6. QED
        BY <1>1, <4>1, <4>3, <4>5
    <3>3. QED
      BY <2>3, <3>1, <3>2
  <2>5. ASSUME NEW v \in quRecord' PROVE Justified(v)'
    <3>1. v \in Units /\ v \in quRecord /\ Justified(v)
      BY <1>1, <2>5 DEF JustifiedInv
    <3>2. CASE v = u
      BY <2>1, <2>3, <3>2 DEF Justified, DequeuedEventPending
    <3>3. CASE v # u /\ DequeuedEventPending(v)
      BY <2>3, <3>3 DEF Justified, DequeuedEventPending
    <3>4. CASE v # u /\ IsDequeued(api, v)
      BY <1>1, <3>1, <3>4 DEF Justified
    <3>5. CASE v # u /\ \E s \in Workers : Holds(s, v)
      BY <3>1, <3>5 DEF Justified
    <3>6. QED
      BY <3>1, <3>2, <3>3, <3>4, <3>5 DEF Justified
  <2>6. QED
    BY <1>1, <2>4, <2>5 DEF JustifiedInv
<1>4. QED
  BY <1>1, <1>2, <1>3, WriteEvent

\* A handler takes the oldest event.  It adds a reservation for its unit, or there
\* is none any more afterwards, or nothing changes.
LEMMA JustifiedEvent ==
  ASSUME ApiTypeOK, RQTypeOK, JustifiedInv, dequeuedEvents # << >>,
         dequeuedEvents' = Tail(dequeuedEvents), UNCHANGED <<api, unseen, goroutines>>,
         NEW u \in Units, u = Head(dequeuedEvents).unit,
         \/ quRecord' \subseteq quRecord \ {u} /\ Head(dequeuedEvents).op = "Delete"
         \/ quRecord' \subseteq quRecord \cup {u} /\ Head(dequeuedEvents).op = "Add"
  PROVE  JustifiedInv'
<1> DEFINE E == dequeuedEvents
           F == dequeuedEvents'
<1>1. /\ 1 \in DOMAIN E /\ Head(E) = E[1]
      /\ \A i \in DOMAIN F : /\ i \in Nat /\ 1 < i + 1 /\ i + 1 \in DOMAIN E
                             /\ F[i] = E[i + 1]
  BY TailAt DEF ApiTypeOK
<1>2. \A j \in DOMAIN E : j # 1 => j \in Nat /\ j - 1 \in DOMAIN F /\ F[j - 1] = E[j]
  <2>1. E \in Seq(DequeuedEvent)
    BY DEF ApiTypeOK
  <2>2. /\ Len(E) \in Nat /\ DOMAIN E = 1 .. Len(E) /\ Len(E) > 0
        /\ Len(F) = Len(E) - 1 /\ F \in Seq(DequeuedEvent)
    BY <2>1, SeqIsFunction, HeadTailProperties
  <2>3. DOMAIN F = 1 .. Len(F)
    BY <2>2, SeqIsFunction
  <2> HIDE DEF E, F
  <2>4. \A j \in DOMAIN E : j # 1 => j \in Nat /\ j - 1 \in DOMAIN F /\ (j - 1) + 1 = j
    BY <2>2, <2>3
  <2>5. QED
    BY <1>1, <2>4
<1>3. LastAddTrue'
  <2> SUFFICES ASSUME NEW i \in DOMAIN F, F[i].op = "Add",
                      \A j \in DOMAIN F : j > i => F[j].unit # F[i].unit
               PROVE  IsDequeued(api, F[i].unit)
    BY DEF LastAddTrue
  <2>1. i + 1 \in DOMAIN E /\ F[i] = E[i + 1] /\ i \in Nat
    BY <1>1
  <2>2. ASSUME NEW j \in DOMAIN E, j > i + 1 PROVE E[j].unit # E[i + 1].unit
    <3>1. j \in Nat /\ j - 1 \in DOMAIN F /\ F[j - 1] = E[j] /\ j - 1 > i
      BY <1>2, <2>1, <2>2
    <3>2. QED
      BY <2>1, <3>1
  <2>3. QED
    BY <2>1, <2>2 DEF JustifiedInv, LastAddTrue
<1>4. ASSUME NEW v \in quRecord' PROVE Justified(v)'
  <2>1. ASSUME NEW j \in DOMAIN E, j # 1, E[j].unit = v PROVE Justified(v)'
    BY <1>2, <2>1 DEF Justified, DequeuedEventPending
  <2>2. CASE IsDequeued(api, v) \/ \E s \in Workers : Holds(s, v)
    BY <2>2 DEF Justified, Holds
  <2>3. CASE v # u
    <3>1. v \in quRecord /\ Justified(v)
      BY <1>4, <2>3 DEF JustifiedInv
    <3>2. QED
      BY <1>1, <2>1, <2>2, <2>3, <3>1 DEF Justified, DequeuedEventPending
  <2>4. CASE v = u /\ Head(E).op = "Add"
    <3>1. CASE \E j \in DOMAIN E : j # 1 /\ E[j].unit = u
      BY <2>1, <2>4, <3>1
    <3>2. CASE \A j \in DOMAIN E : j # 1 => E[j].unit # u
      <4>1. \A j \in DOMAIN E : j > 1 => E[j].unit # E[1].unit
        BY <1>1, <3>2
      <4>2. IsDequeued(api, u)
        BY <1>1, <2>4, <4>1 DEF JustifiedInv, LastAddTrue
      <4>3. QED
        BY <2>2, <2>4, <4>2
    <3>3. QED
      BY <3>1, <3>2
  <2>5. QED
    BY <1>4, <2>3, <2>4
<1>5. QED
  BY <1>3, <1>4 DEF JustifiedInv, NothingUnseen

\* The loop reserves, and starts the goroutine that holds the reservation.
LEMMA JustifiedReserve ==
  ASSUME JustifiedInv, NEW s \in Workers, NEW u \in Units,
         quRecord' = quRecord \cup {u}, UNCHANGED <<api, unseen, dequeuedEvents>>,
         Holds(s, u)',
         \A t \in Workers, v \in quRecord : Holds(t, v) => Holds(t, v)'
  PROVE  JustifiedInv'
<1>1. LastAddTrue'
  BY DEF JustifiedInv, LastAddTrue
<1>2. ASSUME NEW v \in quRecord' PROVE Justified(v)'
  BY <1>2 DEF JustifiedInv, Justified, DequeuedEventPending
<1>3. QED
  BY <1>1, <1>2 DEF JustifiedInv, NothingUnseen

\* A new process starts without reservations, and lists what is Dequeued.
LEMMA JustifiedRestart ==
  ASSUME Restart
  PROVE  JustifiedInv'
<1>1. UNCHANGED api /\ quRecord' = {} /\ NothingUnseen'
  BY DEF Restart, Relist, NothingUnseen, EmptyMap
<1>2. \A i \in DOMAIN dequeuedEvents' : IsDequeued(api, dequeuedEvents'[i].unit)
  <2> DEFINE S == {u \in Units : IsDequeued(api, u)}
  <2>1. PICK s \in SetToSeqs(S) : dequeuedEvents' =
          [i \in DOMAIN s |-> [op |-> "Add", unit |-> s[i], spec |-> api[s[i]].spec]]
    BY DEF Restart, Relist
  <2>2. IsFiniteSet(S)
    BY FiniteObjects, FS_Subset DEF FiniteObjects
  <2>3. s \in Seq(S)
    BY <2>2, SetToSeqsType
  <2>4. \A i \in DOMAIN s : s[i] \in S
    BY <2>3, SeqIsFunction
  <2>5. QED
    BY <2>1, <2>4
<1>3. QED
  BY <1>1, <1>2 DEF JustifiedInv, LastAddTrue

\* Unreserve leaves no record of the unit.
LEMMA UnreserveRecord ==
  ASSUME RecordedKnown, NEW u \in Units, NEW d, Unreserve(u, d)
  PROVE  quRecord' \subseteq quRecord \ {u}
BY DEF RecordedKnown, Unreserve, NothingToUnreserve, rqVars

\* Reserve enters the namespace, and Unreserve does not remove it.
LEMMA KnownKept ==
  ASSUME TypeOK, RecordedKnown, [Next]_vars
  PROVE  RecordedKnown'
<1>1. CASE UNCHANGED rqVars
  BY <1>1 DEF RecordedKnown, rqVars
<1>2. ASSUME NEW u \in Units, NEW d, Reserve(u, d) PROVE RecordedKnown'
  <2>1. DOMAIN reserved' = DOMAIN reserved \cup {NsOf[u]} /\ quRecord' = quRecord \cup {u}
    BY <1>2 DEF Reserve
  <2>2. QED
    BY <2>1 DEF RecordedKnown
<1>3. ASSUME NEW u \in Units, NEW d, Unreserve(u, d) PROVE RecordedKnown'
  <2>1. DOMAIN reserved' = DOMAIN reserved /\ quRecord' \subseteq quRecord
    BY <1>3 DEF Unreserve, rqVars
  <2>2. QED
    BY <2>1 DEF RecordedKnown
<1>4. CASE DequeuedHandler
  <2>1. Head(dequeuedEvents).unit \in Units
    <3>1. dequeuedEvents # << >> /\ ApiTypeOK
      BY <1>4 DEF DequeuedHandler, AddDequeuedQueueUnit, DeleteDequeuedQueueUnit, Take,
                  TypeOK
    <3>2. QED
      BY <3>1, TailAt, EventAt DEF ApiTypeOK
  <2>2. QED
    BY <1>1, <1>2, <1>3, <1>4, <2>1
       DEF DequeuedHandler, AddDequeuedQueueUnit, DeleteDequeuedQueueUnit, ReserveFails
<1>5. CASE Schedule
  <2>1. UNCHANGED rqVars \/ ReserveAndGo
    BY <1>5 DEF Schedule, SchedulingLoop, SortedQueue, Length, Pop, FilterSelect,
                FilterCheck, ErrorGet, ErrorAdd
  <2>2. CASE ReserveAndGo
    <3>1. sched.unit \in Units
      BY <2>2, LoopReads DEF ReserveAndGo, At, TypeOK
    <3>2. QED
      BY <1>1, <1>2, <2>2, <3>1 DEF ReserveAndGo, ReserveFails
  <2>3. QED
    BY <1>1, <2>1, <2>2
<1>6. ASSUME NEW s \in Workers, Goroutine(s) PROVE RecordedKnown'
  <2>1. UNCHANGED rqVars \/ DequeueUnreserve(s)
    BY <1>6 DEF Goroutine, DequeueGoroutine, DequeueGet, DequeueUpdate,
                DequeueCallErrorFunc, DequeueErrorGet, DequeueErrorAdd
  <2>2. CASE DequeueUnreserve(s)
    <3>1. UnitOf(s) \in Units
      BY <2>2, GoroutineAt DEF DequeueUnreserve, TypeOK
    <3>2. QED
      BY <1>3, <2>2, <3>1 DEF DequeueUnreserve
  <2>3. QED
    BY <1>1, <2>1, <2>2
<1>7. CASE Restart
  BY <1>7 DEF Restart, RecordedKnown
<1>8. CASE \/ ClientStep \/ UnitHandler \/ QueueHandler \/ StayDown \/ UNCHANGED vars
           \/ \E i \in DOMAIN queues : Flush(i)
           \/ \E n \in Namespaces : ListResourceQuota(n)
  <2>1. UNCHANGED rqVars
    BY <1>8 DEF ClientStep, UnitHandler, GetQueueByName, AddQueueUnit, UpdateQueueUnit,
                DeleteQueueUnit, UnitHandled, QueueHandler, AddQueue, UpdateQueue,
                DeleteQueue, QueueHandled, StayDown, vars, Flush, ListResourceQuota
  <2>2. QED
    BY <1>1, <2>1
<1>9. QED
  BY <1>4, <1>5, <1>6, <1>7, <1>8 DEF Next

----------------------------------------------------------------------------
(***************************************************************************)
(* The steps.                                                              *)
(***************************************************************************)

\* What has to be shown of a step.
ReservationsKept ==
  /\ FreshStored'
  /\ JustifiedInv => JustifiedInv' \/ Spend({"missedDelete"})

\* A step that leaves the stored units, their events, the record and the
\* goroutines alone.
LEMMA QuietKept ==
  ASSUME ReservationInv,
         UNCHANGED <<api, unseen, current, dequeuedEvents, quRecord, goroutines>>
  PROVE  ReservationsKept
<1>1. FreshStored'
  BY FreshKept DEF ReservationInv
<1>2. JustifiedInv => JustifiedInv'
  BY JustifiedFrame DEF Holds
<1>3. QED
  BY <1>1, <1>2 DEF ReservationsKept

\* A write of a client.
LEMMA ClientWriteKept ==
  ASSUME ReservationInv, NEW u \in Units, NEW new, Write(u, new),
         UNCHANGED <<quRecord, goroutines>>, DOMAIN api \ {u} \subseteq DOMAIN new,
         u \in DOMAIN new => new[u] \in Objs,
         \A v \in Units : v # u => (IsDequeued(new, v) <=> IsDequeued(api, v))
  PROVE  ReservationsKept
<1>1. ApiTypeOK /\ RQTypeOK /\ FreshStored
  BY DEF ReservationInv, TypeOK
<1>2. FreshStored'
  BY <1>1, FreshWrite DEF Write
<1>3. JustifiedInv => JustifiedInv'
  BY <1>1, JustifiedWrite DEF Holds
<1>4. QED
  BY <1>2, <1>3 DEF ReservationsKept

\* The clients.
LEMMA ClientHolds ==
  ASSUME ReservationInv, ClientStep
  PROVE  ReservationsKept
<1>1. ApiTypeOK /\ FreshStored
  BY DEF ReservationInv, TypeOK
<1>2. Clients /\ UNCHANGED <<quRecord, goroutines>>
  BY DEF ClientStep, rqVars, schedVars
<1>3. ASSUME NEW u \in Units, NEW spec \in Specs, CreateUnit(u, spec)
      PROVE  ReservationsKept
  <2> DEFINE o == [phase |-> "Enqueued", spec |-> spec]
             new == Put(api, u, o)
  <2>1. DOMAIN api \subseteq DOMAIN new
    BY DEF Put
  <2>2. \A v \in Units : v # u => (IsDequeued(new, v) <=> IsDequeued(api, v))
    BY DEF IsDequeued, Put
  <2>3. Write(u, new)
    BY <1>3 DEF CreateUnit
  <2>4. new[u] \in Objs
    <3>1. o \in Objs
      BY DEF Objs
    <3>2. QED
      BY <3>1 DEF Put
  <2> HIDE DEF new
  <2>5. QED
    BY <1>2, <2>1, <2>2, <2>3, <2>4, ClientWriteKept
<1>4. ASSUME NEW u \in Units, NEW p \in Priorities, UpdateUnit(u, p)
      PROVE  ReservationsKept
  <2> DEFINE spec == [api[u].spec EXCEPT !.priority = p]
             new == [api EXCEPT ![u].spec = spec]
  <2>1. /\ DOMAIN api = DOMAIN new
        /\ \A v \in Units : v # u => (IsDequeued(new, v) <=> IsDequeued(api, v))
    BY DEF IsDequeued
  <2>2. Write(u, new) /\ u \in DOMAIN api
    BY <1>4 DEF UpdateUnit, IsQueued
  <2>3. new[u] \in Objs
    <3>1. api[u] \in Objs
      BY <1>1, <2>2, StoredType DEF ApiTypeOK
    <3>2. spec \in Specs
      BY <3>1 DEF Objs, Specs
    <3> HIDE DEF spec
    <3>3. new[u] = [api[u] EXCEPT !.spec = spec]
      BY <2>2
    <3>4. QED
      BY <3>1, <3>2, <3>3 DEF Objs
  <2> HIDE DEF new
  <2>4. QED
    BY <1>2, <2>1, <2>2, <2>3, ClientWriteKept
<1>5. ASSUME NEW u \in Units, DeleteUnit(u) \/ FinishUnit(u) PROVE ReservationsKept
  <2> DEFINE new == Drop(api, u)
  <2>1. /\ DOMAIN api \ {u} = DOMAIN new
        /\ \A v \in Units : v # u => (IsDequeued(new, v) <=> IsDequeued(api, v))
    BY DEF IsDequeued, Drop
  <2>2. Write(u, new)
    BY <1>5 DEF DeleteUnit, FinishUnit
  <2> HIDE DEF new
  <2>3. QED
    BY <1>2, <2>1, <2>2, ClientWriteKept
<1>6. ASSUME NEW u \in Units, DeleteUnitUnseen(u) PROVE ReservationsKept
  <2>1. DOMAIN api \ {u} \subseteq DOMAIN Drop(api, u)
    BY DEF Drop
  <2>2. FreshStored'
    BY <1>1, <1>6, <2>1, FreshWrite DEF DeleteUnitUnseen
  <2>3. QED
    BY <1>6, <2>2 DEF DeleteUnitUnseen, ReservationsKept
<1>7. ASSUME NEW q \in QueueObjects, CreateQueue(q) \/ TouchQueue(q) \/ RemoveQueue(q)
      PROVE  ReservationsKept
  <2>1. UNCHANGED unitVars
    BY <1>7 DEF CreateQueue, TouchQueue, RemoveQueue
  <2>2. QED
    BY <1>2, <2>1, QuietKept DEF unitVars
<1>8. ASSUME NEW u \in Units, RelistMissing(u) PROVE ReservationsKept
  <2>1. FreshStored'
    BY <1>1, <1>8, FreshKept DEF RelistMissing
  <2>2. ~JustifiedInv
    BY <1>8 DEF RelistMissing, JustifiedInv, NothingUnseen
  <2>3. QED
    BY <2>1, <2>2 DEF ReservationsKept
<1>9. QED
  BY <1>2, <1>3, <1>4, <1>5, <1>6, <1>7, <1>8 DEF Clients

\* The handlers of the Dequeued units.
LEMMA DequeuedHandlerHolds ==
  ASSUME ReservationInv, DequeuedHandler
  PROVE  ReservationsKept
<1>1. ApiTypeOK /\ RQTypeOK /\ RecordedKnown /\ FreshStored
  BY DEF ReservationInv, TypeOK
<1>2. /\ dequeuedEvents # << >> /\ dequeuedEvents' = Tail(dequeuedEvents)
      /\ UNCHANGED <<api, unseen, current, goroutines>>
  BY DEF DequeuedHandler, AddDequeuedQueueUnit, DeleteDequeuedQueueUnit, Take,
         DequeuedHandled, schedVars
<1>3. PICK u \in Units : u = Head(dequeuedEvents).unit
  BY <1>1, <1>2, TailAt, EventAt DEF ApiTypeOK
<1>4. \/ /\ Unreserve(u, Head(dequeuedEvents).spec.resource)
         /\ Head(dequeuedEvents).op = "Delete"
      \/ /\ Reserve(u, Head(dequeuedEvents).spec.resource) \/ ReserveFails(u)
         /\ Head(dequeuedEvents).op = "Add"
  BY <1>3 DEF DequeuedHandler, AddDequeuedQueueUnit, DeleteDequeuedQueueUnit, Take
<1>5. \/ quRecord' \subseteq quRecord \ {u} /\ Head(dequeuedEvents).op = "Delete"
      \/ quRecord' \subseteq quRecord \cup {u} /\ Head(dequeuedEvents).op = "Add"
  BY <1>1, <1>4, UnreserveRecord DEF Reserve, ReserveFails, rqVars
<1>6. JustifiedInv => JustifiedInv'
  BY <1>1, <1>2, <1>3, <1>5, JustifiedEvent
<1>7. FreshStored'
  BY <1>1, <1>2, FreshKept
<1>8. QED
  BY <1>6, <1>7 DEF ReservationsKept

\* One step of the loop.
LEMMA ScheduleHolds ==
  ASSUME ReservationInv, SchedulingLoop
  PROVE  ReservationsKept
<1>1. /\ SchedTypeOK /\ FreshStored
      /\ goroutines \in [Workers -> GoroutineState(DOMAIN queues)]
  BY DEF ReservationInv, TypeOK, SchedTypeOK
<1>2. UNCHANGED unitVars
  BY DEF SchedulingLoop, SortedQueue, Length, Pop, FilterSelect, FilterCheck,
         ReserveAndGo, ErrorGet, ErrorAdd, apiVars
<1>3. FreshStored'
  BY <1>1, <1>2, FreshKept DEF unitVars
<1>4. \/ UNCHANGED rqVars /\ (UNCHANGED goroutines \/ Advance(goroutines))
      \/ ReserveAndGo
  BY DEF SchedulingLoop, SortedQueue, Length, Pop, FilterSelect, FilterCheck,
         ErrorGet, ErrorAdd
<1>5. CASE UNCHANGED rqVars /\ (UNCHANGED goroutines \/ Advance(goroutines))
  <2>1. \A s \in Workers : /\ goroutines'[s].unit = goroutines[s].unit
                           /\ goroutines'[s].pc = goroutines[s].pc
    BY <1>1, <1>5, AdvanceKeeps
  <2>2. JustifiedInv => JustifiedInv'
    BY <1>2, <1>5, <2>1, JustifiedFrame DEF Holds, rqVars, unitVars
  <2>3. QED
    BY <1>3, <2>2 DEF ReservationsKept
<1>6. CASE ReserveAndGo
  <2>1. sched.unit \in Units
    BY <1>1, <1>6, LoopReads DEF ReserveAndGo, At
  <2>2. CASE ReserveFails(sched.unit) /\ UNCHANGED goroutines
    <3>1. UNCHANGED rqVars
      BY <2>2 DEF ReserveFails
    <3>2. QED
      BY <1>5, <2>2, <3>1
  <2>3. ASSUME NEW s \in Workers, goroutines[s] = Idle, 
               Reserve(sched.unit, sched.spec.resource),
               Advance([goroutines EXCEPT ![s] =
                          [Idle EXCEPT !.pc = "get", !.unit = sched.unit,
                                       !.spec = sched.spec]])
        PROVE  ReservationsKept
    <3>1. PICK u \in Units : u = sched.unit
      BY <2>1
    <3> DEFINE g == [Idle EXCEPT !.pc = "get", !.unit = u, !.spec = sched.spec]
               gs == [goroutines EXCEPT ![s] = g]
               G == GoroutineState(DOMAIN queues)
    <3>2. g \in G /\ g.unit = u /\ g.pc = "get"
      <4>1. sched.spec \in Specs
        BY <1>1 DEF SchedTypeOK, LoopState
      <4>2. QED
        BY <4>1, ConstantsOK DEF ConstantsOK, Idle, GoroutineState
    <3>3. goroutines \in [Workers -> G]
      BY <1>1
    <3> HIDE DEF g, G
    <3>4. gs \in [Workers -> G]
          /\ \A t \in Workers : gs[t] = IF t = s THEN g ELSE goroutines[t]
      BY <3>2, <3>3
    <3>5. Advance(gs)
      BY <2>3, <3>1 DEF g
    <3> HIDE DEF gs
    <3>6. \A t \in Workers : /\ goroutines'[t].unit = gs[t].unit
                             /\ goroutines'[t].pc = gs[t].pc
      BY <3>4, <3>5, AdvanceKeeps DEF G
    <3>7. \A v : ~Holds(s, v)
      BY <2>3 DEF Holds, Idle
    <3>8. Holds(s, u)' /\ \A t \in Workers, v \in quRecord : Holds(t, v) => Holds(t, v)'
      BY <3>2, <3>4, <3>6, <3>7 DEF Holds
    <3>9. quRecord' = quRecord \cup {u}
      BY <2>3, <3>1 DEF Reserve
    <3>10. JustifiedInv => JustifiedInv'
      BY <1>2, <3>8, <3>9, JustifiedReserve DEF unitVars
    <3>11. QED
      BY <1>3, <3>10 DEF ReservationsKept
  <2>4. QED
    BY <1>6, <2>2, <2>3 DEF ReserveAndGo
<1>7. QED
  BY <1>4, <1>5, <1>6

\* A step of goroutine s does not touch the others; s keeps its unit when it moves
\* on to "update" or to "unreserve".
LEMMA HoldsKept ==
  ASSUME SchedTypeOK, NEW s \in Workers, NEW g, goroutines' = [goroutines EXCEPT ![s] = g]
  PROVE  \A t \in Workers : \A v : Holds(t, v) /\ t # s => Holds(t, v)'
BY DEF Holds, SchedTypeOK

LEMMA MoveKept ==
  ASSUME SchedTypeOK, NEW s \in Workers, NEW pc \in {"update", "unreserve"}, MoveTo(s, pc)
  PROVE  \A t \in Workers : \A v : Holds(t, v) => Holds(t, v)'
<1> DEFINE G == GoroutineState(DOMAIN queues)
           g == [goroutines[s] EXCEPT !.pc = pc]
<1>1. goroutines \in [Workers -> G]
  BY DEF SchedTypeOK
<1>2. goroutines[s] \in G => g.unit = goroutines[s].unit /\ g.pc = pc
  BY DEF GoroutineState
<1> HIDE DEF G
<1>3. /\ goroutines'[s] = g
      /\ \A t \in Workers : t # s => goroutines'[t] = goroutines[t]
  BY <1>1 DEF MoveTo
<1> HIDE DEF g
<1>4. goroutines'[s].unit = goroutines[s].unit /\ goroutines'[s].pc = pc
  BY <1>1, <1>2, <1>3
<1>5. QED
  BY <1>3, <1>4 DEF Holds

\* The Update of Dequeue.
LEMMA DequeueUpdateKept ==
  ASSUME ReservationInv, NEW s \in Workers, DequeueUpdate(s)
  PROVE  ReservationsKept
<1>1. /\ ApiTypeOK /\ RQTypeOK /\ SchedTypeOK /\ FreshStored
      /\ UNCHANGED quRecord /\ current \in [Units -> SUBSET Workers]
  BY DEF ReservationInv, TypeOK, DequeueUpdate, rqVars, ApiTypeOK
<1>2. PICK u \in Units : u = UnitOf(s)
  BY <1>1, GoroutineAt DEF DequeueUpdate
<1>3. \A v : Holds(s, v) => v = u
  BY <1>2 DEF Holds, UnitOf
<1>4. /\ \A t \in Workers : \A v : Holds(t, v) /\ t # s => Holds(t, v)'
      /\ MoveTo(s, "unreserve") => \A t \in Workers : \A v : Holds(t, v) => Holds(t, v)'
  <2>1. MoveTo(s, "unreserve") => \A t \in Workers : \A v : Holds(t, v) => Holds(t, v)'
    BY <1>1, MoveKept
  <2>2. Finish(s) => \A t \in Workers : \A v : Holds(t, v) /\ t # s => Holds(t, v)'
    BY <1>1, HoldsKept DEF Finish
  <2>3. Finish(s) \/ MoveTo(s, "unreserve")
    BY DEF DequeueUpdate
  <2>4. QED
    BY <2>1, <2>2, <2>3
<1>5. CASE NoWrite(s, u) /\ (IsDequeued(api, u) \/ MoveTo(s, "unreserve"))
  <2>1. FreshStored'
    <3>1. \A v \in Units : current'[v] \subseteq current[v]
      BY <1>1, <1>5 DEF NoWrite
    <3>2. QED
      BY <1>1, <1>5, <3>1, FreshKept DEF NoWrite
  <2>2. \A t \in Workers, v \in quRecord' :
          Holds(t, v) => Holds(t, v)' \/ IsDequeued(api, v)
    BY <1>3, <1>4, <1>5
  <2>3. JustifiedInv => JustifiedInv'
    BY <1>1, <1>5, <2>2, JustifiedFrame DEF NoWrite
  <2>4. QED
    BY <2>1, <2>3 DEF ReservationsKept
<1>6. CASE s \in current[u] /\ Write(u, [api EXCEPT ![u].phase = "Dequeued"])
  <2> DEFINE new == [api EXCEPT ![u].phase = "Dequeued"]
  <2>1. u \in DOMAIN api
    BY <1>1, <1>6 DEF FreshStored
  <2>2. /\ DOMAIN new = DOMAIN api
        /\ \A v \in Units : v # u => (IsDequeued(new, v) <=> IsDequeued(api, v))
    BY DEF IsDequeued
  <2>3. IsDequeued(new, u)
    <3>1. api[u] \in Objs
      BY <1>1, <2>1, StoredType DEF ApiTypeOK
    <3>2. new[u].phase = "Dequeued"
      BY <2>1, <3>1 DEF Objs
    <3>3. QED
      BY <2>1, <2>2, <3>2 DEF IsDequeued
  <2>4. Write(u, new)
    BY <1>6
  <2> HIDE DEF new
  <2>5. FreshStored'
    BY <1>1, <2>2, <2>4, FreshWrite DEF Write
  <2>6. \A t \in Workers, v \in Units :
          Holds(t, v) => Holds(t, v)' \/ (v = u /\ IsDequeued(new, u))
    BY <1>3, <1>4, <2>3
  <2>7. new[u] \in Objs
    <3>1. api[u] \in Objs
      BY <1>1, <2>1, StoredType DEF ApiTypeOK
    <3>2. new[u] = [api[u] EXCEPT !.phase = "Dequeued"]
      BY <2>1 DEF new
    <3>3. QED
      BY <3>1, <3>2 DEF Objs
  <2>8. JustifiedInv => JustifiedInv'
    BY <1>1, <2>2, <2>4, <2>6, <2>7, JustifiedWrite
  <2>9. QED
    BY <2>5, <2>8 DEF ReservationsKept
<1>7. QED
  BY <1>2, <1>5, <1>6 DEF DequeueUpdate, SetDequeued

\* One step of a goroutine.
LEMMA GoroutineHolds ==
  ASSUME ReservationInv, NEW s \in Workers, DequeueGoroutine(s)
  PROVE  ReservationsKept
<1>1. /\ ApiTypeOK /\ RQTypeOK /\ RecordedKnown /\ SchedTypeOK /\ FreshStored
      /\ current \in [Units -> SUBSET Workers]
  BY DEF ReservationInv, TypeOK, ApiTypeOK
<1>2. CASE DequeueGet(s)
  <2>1. PICK u \in Units : u = UnitOf(s)
    BY <1>1, <1>2, GoroutineAt DEF DequeueGet
  <2>2. \A v \in Units : current'[v] \subseteq current[v] \/ v \in DOMAIN api
    BY <1>1, <1>2, <2>1 DEF DequeueGet, GetFinds
  <2>3. FreshStored'
    BY <1>1, <1>2, <2>2, FreshKept DEF DequeueGet
  <2>4. \A t \in Workers : \A v : Holds(t, v) => Holds(t, v)'
    BY <1>1, <1>2, MoveKept DEF DequeueGet
  <2>5. JustifiedInv => JustifiedInv'
    BY <1>2, <2>4, JustifiedFrame DEF DequeueGet, rqVars
  <2>6. QED
    BY <2>3, <2>5 DEF ReservationsKept
<1>3. CASE DequeueUpdate(s)
  BY <1>3, DequeueUpdateKept
<1>4. CASE DequeueUnreserve(s)
  <2>1. PICK u \in Units : u = UnitOf(s)
    BY <1>1, <1>4, GoroutineAt DEF DequeueUnreserve
  <2>2. quRecord' \subseteq quRecord \ {u}
    BY <1>1, <1>4, <2>1, UnreserveRecord DEF DequeueUnreserve
  <2>3. \A t \in Workers : \A v : Holds(t, v) /\ t # s => Holds(t, v)'
    BY <1>1, <1>4, HoldsKept DEF DequeueUnreserve, MoveTo
  <2>4. \A v : Holds(s, v) => v = u
    BY <2>1 DEF Holds, UnitOf
  <2>5. JustifiedInv => JustifiedInv'
    BY <1>4, <2>2, <2>3, <2>4, JustifiedFrame DEF DequeueUnreserve, apiVars, unitVars
  <2>6. FreshStored'
    BY <1>1, <1>4, FreshKept DEF DequeueUnreserve, apiVars, unitVars
  <2>7. QED
    BY <2>5, <2>6 DEF ReservationsKept
<1>5. CASE DequeueCallErrorFunc(s) \/ DequeueErrorGet(s) \/ DequeueErrorAdd(s)
  <2>1. UNCHANGED <<api, unseen, current, dequeuedEvents, quRecord>>
    BY <1>5 DEF DequeueCallErrorFunc, DequeueErrorGet, DequeueErrorAdd, apiVars,
                unitVars, rqVars
  <2>2. \A v : ~Holds(s, v)
    BY <1>5 DEF DequeueCallErrorFunc, DequeueErrorGet, DequeueErrorAdd, AtG, Holds
  <2>3. \A t \in Workers : \A v : Holds(t, v) /\ t # s => Holds(t, v)'
    <3>1. \A t \in Workers : t # s => goroutines'[t] = goroutines[t]
      BY <1>1, <1>5 DEF DequeueCallErrorFunc, DequeueErrorGet, DequeueErrorAdd, Finish,
                        SchedTypeOK
    <3>2. QED
      BY <3>1 DEF Holds
  <2>4. JustifiedInv => JustifiedInv'
    BY <2>1, <2>2, <2>3, JustifiedFrame
  <2>5. FreshStored'
    BY <1>1, <2>1, FreshKept
  <2>6. QED
    BY <2>4, <2>5 DEF ReservationsKept
<1>6. QED
  BY <1>2, <1>3, <1>4, <1>5 DEF DequeueGoroutine

----------------------------------------------------------------------------
(***************************************************************************)
(* The theorems.                                                           *)
(***************************************************************************)

\* There is nothing to justify at first.
LEMMA ReservationInit ==
  ASSUME Init \/ Ready
  PROVE  ReservationInv
<1>1. TypeOK /\ LeftBounded
  BY SpecsInit
<1>2. /\ dequeuedEvents = << >> /\ quRecord = {} /\ unseen = EmptyMap
      /\ current = [u \in Units |-> {}]
  BY DEF Init, Ready, ApiInit, RQInit
<1>3. FreshStored
  BY <1>2 DEF FreshStored
<1>4. JustifiedInv /\ RecordedKnown
  BY <1>2 DEF JustifiedInv, LastAddTrue, NothingUnseen, EmptyMap, RecordedKnown
<1>5. QED
  BY <1>1, <1>3, <1>4 DEF ReservationInv

\* Every step keeps the invariant.
LEMMA ReservationNext ==
  ASSUME ReservationInv, [Next]_vars
  PROVE  ReservationInv'
<1>1. TypeOK /\ LeftBounded /\ RecordedKnown /\ FreshStored
  BY DEF ReservationInv
<1>2. /\ TypeOK' /\ LeftBounded' /\ RecordedKnown'
      /\ Unused("missedDelete")' => Unused("missedDelete")
  BY <1>1, NextInv, LeftNext, KnownKept DEF Kinds
<1>3. ReservationsKept
  <2>1. CASE ClientStep
    BY <2>1, ClientHolds
  <2>2. CASE UnitHandler
    <3>1. UNCHANGED <<api, unseen, current, dequeuedEvents, quRecord, goroutines>>
      BY <2>2 DEF UnitHandler, GetQueueByName, AddQueueUnit, UpdateQueueUnit,
                  DeleteQueueUnit, UnitHandled, rqVars, schedVars
    <3>2. QED
      BY <3>1, QuietKept
  <2>3. CASE DequeuedHandler
    BY <2>3, DequeuedHandlerHolds
  <2>4. CASE QueueHandler
    <3>1. UNCHANGED <<api, unseen, current, dequeuedEvents, quRecord, goroutines>>
      BY <2>4 DEF QueueHandler, AddQueue, UpdateQueue, DeleteQueue, QueueHandled,
                  unitVars, rqVars, schedVars
    <3>2. QED
      BY <3>1, QuietKept
  <2>5. CASE Schedule
    BY <2>5, ScheduleHolds DEF Schedule
  <2>6. ASSUME NEW s \in Workers, Goroutine(s) PROVE ReservationsKept
    BY <2>6, GoroutineHolds DEF Goroutine
  <2>7. ASSUME NEW i \in DOMAIN queues, Flush(i) PROVE ReservationsKept
    <3>1. UNCHANGED <<api, unseen, current, dequeuedEvents, quRecord, goroutines>>
      BY <2>7 DEF Flush, apiVars, unitVars, rqVars, schedVars
    <3>2. QED
      BY <3>1, QuietKept
  <2>8. CASE \/ \E n \in Namespaces : ListResourceQuota(n)
             \/ StayDown \/ UNCHANGED vars
    <3>1. UNCHANGED <<api, unseen, current, dequeuedEvents, quRecord, goroutines>>
      BY <2>8 DEF ListResourceQuota, StayDown, vars, apiVars, unitVars, rqVars, schedVars
    <3>2. QED
      BY <3>1, QuietKept
  <2>9. CASE Restart
    <3>1. \A u \in Units : current'[u] = {}
      BY <2>9 DEF Restart, Relist
    <3>2. FreshStored'
      BY <3>1 DEF FreshStored
    <3>3. QED
      BY <2>9, <3>2, JustifiedRestart DEF ReservationsKept
  <2>10. QED
    BY <2>1, <2>2, <2>3, <2>4, <2>5, <2>6, <2>7, <2>8, <2>9 DEF Next
<1>4. ASSUME Unused("missedDelete")' PROVE JustifiedInv'
  <2>1. Unused("missedDelete") /\ JustifiedInv
    BY <1>2, <1>4 DEF ReservationInv
  <2>2. ~Spend({"missedDelete"})
    BY <1>1, <1>4, <2>1, NotSpent DEF TypeOK, Kinds
  <2>3. QED
    BY <1>3, <2>1, <2>2 DEF ReservationsKept
<1>5. QED
  BY <1>2, <1>3, <1>4 DEF ReservationsKept, ReservationInv

LEMMA ReservationInvImplies == ReservationInv => ReservationJustified
BY DEF ReservationInv, ReservationJustified, JustifiedInv, Justified

\* A unit holds a reservation only while it is Dequeued, while a goroutine is about
\* to dequeue it or to give the reservation back, or while an event that settles it
\* is on its way: until the watch misses a delete, with any number of goroutines,
\* failing calls, lost replies, changes of queues, crashes and restarts
\* (scheduler.go, Dequeue; eventhandler.go, the handlers for Dequeued units).
THEOREM NoReservationLeft == Spec => []ReservationJustified
<1>1. Init => ReservationInv
  BY ReservationInit
<1>2. ReservationInv /\ [Next]_vars => ReservationInv'
  BY ReservationNext
<1>3. QED
  BY <1>1, <1>2, ReservationInvImplies, PTL DEF Spec

\* The same for the process that starts when everything is up.
THEOREM ReadyNoReservationLeft == ReadySpec => []ReservationJustified
<1>1. Ready => ReservationInv
  BY ReservationInit
<1>2. ReservationInv /\ [Next]_vars => ReservationInv'
  BY ReservationNext
<1>3. QED
  BY <1>1, <1>2, ReservationInvImplies, PTL DEF ReadySpec
============================================================================
