---------------------------- MODULE QuotaProofs ----------------------------
(***************************************************************************)
(* The quota is respected: the units that are Dequeued at the API server   *)
(* never request more than the hard limit that Filter checks against, for  *)
(* every number of units, queues, goroutines and resources, until the      *)
(* first of three events: a restart, after which the ledger is rebuilt     *)
(* while units are scheduled, an Update whose reply is lost, and a key     *)
(* that is created again with another Spec.Resource.                       *)
(*                                                                         *)
(* Filter reads the ledger of the ConsumerRef's namespace and Reserve      *)
(* writes that of the unit's own: they must agree.  Filter takes the only  *)
(* quota it finds in the lister: a namespace with several must be listed   *)
(* completely.                                                             *)
(***************************************************************************)
EXTENDS KubeQueueProofs

SameNamespace == NsOf = ConsumerNs

\* A namespace has at most one ResourceQuota object.
SingleQuota == \A n \in Namespaces : \A p, q \in Quotas[n] : p = q

----------------------------------------------------------------------------
(***************************************************************************)
(* The inductive invariant.                                                *)
(***************************************************************************)
NoFaultYet == Unused("restart") /\ Unused("lostReply")

\* u is reserved and no goroutine is going to give the reservation back.
Settled(u) == u \in quRecord /\ \A s \in Workers : ~Holds(s, u)

\* A unit that is Dequeued as far as the informer knows is settled; so is one with
\* an event on its way.
DequeuedSettled == \A u \in Units : IsDequeued(seen, u) => Settled(u)

EventsSettled == \A i \in DOMAIN dequeuedEvents : Settled(dequeuedEvents[i].unit)

\* A goroutine works under a reservation, and alone.
HoldsAlone ==
  \A s \in Workers, u \in Units : Holds(s, u) =>
    u \in quRecord /\ \A t \in Workers : Holds(t, u) => t = s

\* The event of a deletion is the last one of its unit: until it is handled the
\* key stays recorded, and a new unit of that key is not reserved.
DeleteIsLast ==
  \A i \in DOMAIN dequeuedEvents : dequeuedEvents[i].op = "Delete" =>
    /\ ~IsDequeued(seen, dequeuedEvents[i].unit)
    /\ \A j \in DOMAIN dequeuedEvents :
         j > i => dequeuedEvents[j].unit # dequeuedEvents[i].unit

\* Who owns a reservation.
OwnershipInv == DequeuedSettled /\ EventsSettled /\ HoldsAlone /\ DeleteIsLast

\* What is reserved is within the quota.
LedgerInQuota ==
  \A n \in Namespaces :
    \A q \in SelectResourceQuota(Quotas[n], n) :
      \A r \in DOMAIN q.hard :
        ~q.nilHard => GetReservedByResourceName(n, r) <= q.hard[r]

\* Filter's answer for one resource.
Fits(u, r) ==
  \E b \in Baskets(Quotas[ConsumerNs[u]], u) : FitsIn(b, u, Demand[u], r)

\* What Filter has found so far stays true until Reserve.
FilterStable ==
  /\ sched.pc = "check" =>
       /\ sched.basket \subseteq Baskets(Quotas[ConsumerNs[sched.unit]], sched.unit)
       /\ \A r \in DOMAIN Demand[sched.unit] \ sched.todo : Fits(sched.unit, r)
  /\ sched.pc = "reserve" =>
       \A r \in DOMAIN Demand[sched.unit] : Fits(sched.unit, r)

\* A lister that is not complete has nothing to choose from.
ListerSafe ==
  \/ listed = [n \in Namespaces |-> Quotas[n]]
  \/ SingleQuota /\ \A n \in Namespaces : listed[n] \subseteq Quotas[n]

QuotaInv == /\ TypeOK /\ SpecsKept /\ RQInv
            /\ OwnershipInv /\ LedgerInQuota /\ FilterStable /\ ListerSafe

----------------------------------------------------------------------------
\* An event of the handler for Dequeued units.
LEMMA EventAt ==
  ASSUME ApiTypeOK, NEW i \in DOMAIN dequeuedEvents
  PROVE  /\ dequeuedEvents[i].unit \in Units
         /\ dequeuedEvents[i].op \in {"Add", "Delete"}
<1>1. dequeuedEvents[i] \in DequeuedEvent
  BY SeqIsFunction DEF ApiTypeOK
<1>2. QED
  BY <1>1 DEF DequeuedEvent

----------------------------------------------------------------------------
(***************************************************************************)
(* Who owns a reservation.                                                 *)
(***************************************************************************)

\* A step that makes no unit Dequeued, starts no goroutine, and leaves the record
\* and the events alone.
LEMMA OwnFrame ==
  ASSUME ApiTypeOK, OwnershipInv, UNCHANGED <<quRecord, dequeuedEvents>>,
         \A u \in Units : IsDequeued(seen', u) => IsDequeued(seen, u),
         \A s \in Workers, u \in Units : Holds(s, u)' => Holds(s, u)
  PROVE  OwnershipInv'
<1> USE DEF OwnershipInv
<1>1. \A u \in Units : Settled(u) => Settled(u)'
  BY DEF Settled
<1>2. DequeuedSettled'
  BY <1>1 DEF DequeuedSettled
<1>3. EventsSettled'
  BY <1>1, EventAt DEF EventsSettled
<1>4. HoldsAlone'
  BY DEF HoldsAlone
<1>5. DeleteIsLast'
  BY EventAt DEF DeleteIsLast
<1>6. QED
  BY <1>2, <1>3, <1>4, <1>5

\* What the informer has seen after a write of u.
LEMMA SeenWrite ==
  ASSUME NEW u, NEW new, Write(u, new), DOMAIN new \ {u} = DOMAIN api \ {u},
         \A v \in DOMAIN api : v # u => new[v] = api[v]
  PROVE  \A v : IsDequeued(seen', v) <=> IF v = u THEN IsDequeued(new, u)
                                              ELSE IsDequeued(seen, v)
<1>1. api' = new /\ unseen' = Drop(unseen, u)
  BY DEF Write
<1>2. IsDequeued(seen', u) <=> IsDequeued(new, u)
  BY <1>1 DEF IsDequeued, seen, Drop
<1>3. ASSUME NEW v, v # u PROVE IsDequeued(seen', v) <=> IsDequeued(seen, v)
  <2>1. v \in DOMAIN new <=> v \in DOMAIN api
    BY <1>3
  <2>2. v \in DOMAIN unseen' <=> v \in DOMAIN unseen
    BY <1>1, <1>3 DEF Drop
  <2>3. v \in DOMAIN unseen => unseen'[v] = unseen[v]
    BY <1>1, <1>3 DEF Drop
  <2>4. QED
    BY <1>1, <1>3, <2>1, <2>2, <2>3 DEF IsDequeued, seen
<1>4. QED
  BY <1>2, <1>3

\* A client's write.  If the informer had the unit as Dequeued, the event of its
\* deletion is put behind all the others of the unit (eventhandler.go,
\* DeleteDequeuedQueueUnit).
LEMMA OwnWrite ==
  ASSUME ApiTypeOK, OwnershipInv, NEW u \in Units, NEW new, Write(u, new),
         DOMAIN new \ {u} = DOMAIN api \ {u},
         \A v \in DOMAIN api : v # u => new[v] = api[v], ~IsDequeued(new, u),
         UNCHANGED <<quRecord, goroutines>>
  PROVE  OwnershipInv'
<1> USE DEF OwnershipInv
<1>1. \A v : IsDequeued(seen', v) <=> v # u /\ IsDequeued(seen, v)
  BY SeenWrite
<1>2. /\ dequeuedEvents' = dequeuedEvents \o DequeuedEvents(u, new)
      /\ dequeuedEvents \in Seq(DequeuedEvent)
  BY DEF Write, ApiTypeOK
<1>3. CASE ~IsDequeued(seen, u)
  <2>1. DequeuedEvents(u, new) = << >>
    BY <1>3 DEF DequeuedEvents, Filtered
  <2>2. UNCHANGED dequeuedEvents
    BY <1>2, <2>1
  <2>3. QED
    BY <1>1, <2>2, OwnFrame DEF Holds
<1>4. CASE IsDequeued(seen, u)
  <2> DEFINE d == [op |-> "Delete", unit |-> u, spec |-> seen[u].spec]
             n == Len(dequeuedEvents) + 1
  <2>1. DequeuedEvents(u, new) = << d >>
    BY <1>4 DEF DequeuedEvents, Filtered
  <2>2. d \in DequeuedEvent /\ d.unit = u /\ d.op = "Delete"
    <3>1. seen[u].spec \in Specs
      BY <1>4, SeenType DEF IsDequeued, Objs
    <3>2. QED
      BY <3>1 DEF DequeuedEvent
  <2> HIDE DEF d
  <2>3. /\ DOMAIN dequeuedEvents' = DOMAIN dequeuedEvents \cup {n}
        /\ dequeuedEvents'[n] = d
        /\ \A i \in DOMAIN dequeuedEvents : /\ dequeuedEvents'[i] = dequeuedEvents[i]
                                            /\ i \in Nat /\ i < n
        /\ n \in Nat
    BY <1>2, <2>1, <2>2, AppendAt
  <2> HIDE DEF n
  <2>4. \A v \in Units : Settled(v)' <=> Settled(v)
    BY DEF Settled, Holds
  <2>5. DequeuedSettled'
    BY <1>1, <2>4 DEF DequeuedSettled
  <2>6. EventsSettled'
    BY <1>4, <2>2, <2>3, <2>4, EventAt DEF EventsSettled, DequeuedSettled
  <2>7. HoldsAlone'
    BY DEF HoldsAlone, Holds
  <2>8. DeleteIsLast'
    <3> SUFFICES ASSUME NEW i \in DOMAIN dequeuedEvents', dequeuedEvents'[i].op = "Delete"
                 PROVE  /\ ~IsDequeued(seen', dequeuedEvents'[i].unit)
                        /\ \A j \in DOMAIN dequeuedEvents' :
                             j > i => dequeuedEvents'[j].unit # dequeuedEvents'[i].unit
      BY DEF DeleteIsLast
    <3>1. CASE i = n
      BY <1>1, <2>2, <2>3, <3>1
    <3>2. CASE i \in DOMAIN dequeuedEvents
      <4>1. dequeuedEvents'[i] = dequeuedEvents[i] /\ dequeuedEvents[i].unit \in Units
        BY <2>3, <3>2, EventAt
      <4>2. ~IsDequeued(seen, dequeuedEvents[i].unit)
        BY <3>2, <4>1 DEF DeleteIsLast
      <4>3. dequeuedEvents[i].unit # u
        BY <1>4, <4>2
      <4>4. QED
        BY <1>1, <2>2, <2>3, <3>2, <4>1, <4>2, <4>3 DEF DeleteIsLast
    <3>3. QED
      BY <2>3, <3>1, <3>2
  <2>9. QED
    BY <2>5, <2>6, <2>7, <2>8
<1>5. QED
  BY <1>3, <1>4

\* A goroutine makes its unit Dequeued and ends (scheduler.go, Dequeue).
LEMMA OwnDequeue ==
  ASSUME ApiTypeOK, OwnershipInv, NEW s \in Workers, NEW u \in Units, Holds(s, u),
         Write(u, [api EXCEPT ![u].phase = "Dequeued"]),
         UNCHANGED quRecord,
         \A t \in Workers, v \in Units : Holds(t, v)' => t # s /\ Holds(t, v)
  PROVE  OwnershipInv'
<1> USE DEF OwnershipInv
<1> DEFINE new == [api EXCEPT ![u].phase = "Dequeued"]
           a == [op |-> "Add", unit |-> u, spec |-> new[u].spec]
<1>1. /\ \A v \in Units : v # u => (IsDequeued(seen', v) <=> IsDequeued(seen, v))
      /\ IsDequeued(seen', u) <=> IsDequeued(new, u)
  <2>1. DOMAIN new = DOMAIN api /\ \A v \in DOMAIN api : v # u => new[v] = api[v]
    OBVIOUS
  <2> HIDE DEF new
  <2>2. QED
    BY <2>1, SeenWrite DEF new
<1>2. /\ dequeuedEvents' = dequeuedEvents \o DequeuedEvents(u, new)
      /\ dequeuedEvents \in Seq(DequeuedEvent)
  BY DEF Write, ApiTypeOK
<1>3. ~IsDequeued(seen, u) /\ u \in quRecord
  BY DEF DequeuedSettled, Settled, HoldsAlone
<1>4. \/ DequeuedEvents(u, new) = << a >> /\ IsDequeued(new, u)
      \/ DequeuedEvents(u, new) = << >>
  BY <1>3 DEF DequeuedEvents, Filtered
<1>5. IsDequeued(new, u) => a \in DequeuedEvent
  <2>1. ASSUME u \in DOMAIN api PROVE new[u].spec \in Specs
    BY <2>1, StoredType DEF ApiTypeOK, Objs
  <2>2. DOMAIN new = DOMAIN api
    OBVIOUS
  <2> HIDE DEF new
  <2>3. QED
    BY <2>1, <2>2 DEF DequeuedEvent, IsDequeued
<1>6. a.unit = u /\ a.op = "Add"
  OBVIOUS
<1> HIDE DEF a, new
<1>7. /\ \A i \in DOMAIN dequeuedEvents : dequeuedEvents'[i] = dequeuedEvents[i]
      /\ \A i \in DOMAIN dequeuedEvents' :
           i \in DOMAIN dequeuedEvents \/ dequeuedEvents'[i] = a
  <2>1. CASE DequeuedEvents(u, new) = << a >> /\ IsDequeued(new, u)
    BY <1>2, <1>5, <2>1, AppendAt
  <2>2. CASE DequeuedEvents(u, new) = << >>
    <3>1. dequeuedEvents \o << >> = dequeuedEvents
      BY <1>2
    <3>2. QED
      BY <1>2, <2>2, <3>1
  <2>3. QED
    BY <1>4, <2>1, <2>2
<1>8. \A i \in DOMAIN dequeuedEvents : dequeuedEvents[i].unit # u
  BY DEF EventsSettled, Settled
<1>9. Settled(u)' /\ \A v \in Units : Settled(v) => Settled(v)'
  BY <1>3 DEF Settled, HoldsAlone
<1>10. DequeuedSettled'
  BY <1>1, <1>9 DEF DequeuedSettled
<1>11. EventsSettled'
  BY <1>6, <1>7, <1>9, EventAt DEF EventsSettled
<1>12. HoldsAlone'
  BY DEF HoldsAlone
<1>13. DeleteIsLast'
  <2> SUFFICES ASSUME NEW i \in DOMAIN dequeuedEvents', dequeuedEvents'[i].op = "Delete"
               PROVE  /\ ~IsDequeued(seen', dequeuedEvents'[i].unit)
                      /\ \A j \in DOMAIN dequeuedEvents' :
                           j > i => dequeuedEvents'[j].unit # dequeuedEvents'[i].unit
    BY DEF DeleteIsLast
  <2>1. i \in DOMAIN dequeuedEvents /\ dequeuedEvents'[i] = dequeuedEvents[i]
    BY <1>6, <1>7
  <2>2. dequeuedEvents[i].unit # u /\ dequeuedEvents[i].unit \in Units
    BY <1>8, <2>1, EventAt
  <2>3. ~IsDequeued(seen', dequeuedEvents'[i].unit)
    BY <1>1, <2>1, <2>2 DEF DeleteIsLast
  <2>4. QED
    BY <1>6, <1>7, <2>1, <2>2, <2>3 DEF DeleteIsLast
<1>14. QED
  BY <1>10, <1>11, <1>12, <1>13

\* Reserve by the loop, and the goroutine that starts with it: the key has no
\* Dequeued unit, no event and no goroutine.
LEMMA OwnReserve ==
  ASSUME ApiTypeOK, OwnershipInv, NEW s \in Workers, NEW u \in Units, u \notin quRecord,
         quRecord' = quRecord \cup {u}, UNCHANGED <<api, unseen, dequeuedEvents>>,
         \A t \in Workers, v \in Units : Holds(t, v)' => Holds(t, v) \/ (t = s /\ v = u)
  PROVE  OwnershipInv'
<1> USE DEF OwnershipInv
<1>0. \A v : IsDequeued(seen', v) <=> IsDequeued(seen, v)
  BY DEF seen
<1>1. \A v \in Units : Settled(v) => v # u /\ Settled(v)'
  BY DEF Settled
<1>2. \A t \in Workers : ~Holds(t, u)
  BY DEF HoldsAlone
<1>3. DequeuedSettled'
  BY <1>0, <1>1 DEF DequeuedSettled
<1>4. EventsSettled'
  BY <1>1, EventAt DEF EventsSettled
<1>5. HoldsAlone'
  BY <1>2 DEF HoldsAlone
<1>6. DeleteIsLast'
  BY <1>0, EventAt DEF DeleteIsLast
<1>7. QED
  BY <1>3, <1>4, <1>5, <1>6

\* The roll-back of a goroutine: nobody else counts on its reservation.
LEMMA OwnUnreserve ==
  ASSUME ApiTypeOK, OwnershipInv, NEW s \in Workers, NEW u \in Units, Holds(s, u),
         quRecord \ {u} \subseteq quRecord', UNCHANGED <<api, unseen, dequeuedEvents>>,
         \A t \in Workers, v \in Units : Holds(t, v)' => t # s /\ Holds(t, v)
  PROVE  OwnershipInv'
<1> USE DEF OwnershipInv
<1>0. \A v : IsDequeued(seen', v) <=> IsDequeued(seen, v)
  BY DEF seen
<1>1. \A v \in Units : Settled(v) => v # u /\ Settled(v)'
  BY DEF Settled
<1>2. DequeuedSettled'
  BY <1>0, <1>1 DEF DequeuedSettled
<1>3. EventsSettled'
  BY <1>1, EventAt DEF EventsSettled
<1>4. HoldsAlone'
  BY DEF HoldsAlone
<1>5. DeleteIsLast'
  BY <1>0, EventAt DEF DeleteIsLast
<1>6. QED
  BY <1>2, <1>3, <1>4, <1>5

\* The handlers of the Dequeued units: Add finds the unit recorded; Delete gives
\* up a reservation that nobody counts on any more.
LEMMA OwnEvent ==
  ASSUME ApiTypeOK, OwnershipInv, dequeuedEvents # << >>,
         dequeuedEvents' = Tail(dequeuedEvents), UNCHANGED <<api, unseen, goroutines>>,
         \/ quRecord' = quRecord
         \/ /\ Head(dequeuedEvents).op = "Delete"
            /\ quRecord' = quRecord \ {Head(dequeuedEvents).unit}
  PROVE  OwnershipInv'
<1> USE DEF OwnershipInv
<1>0. \A v : IsDequeued(seen', v) <=> IsDequeued(seen, v)
  BY DEF seen
<1> DEFINE E == dequeuedEvents
           F == dequeuedEvents'
<1>1. /\ 1 \in DOMAIN E /\ Head(E) = E[1]
      /\ \A i \in DOMAIN F : /\ i \in Nat /\ 1 < i + 1 /\ i + 1 \in DOMAIN E
                             /\ F[i] = E[i + 1]
  BY TailAt DEF ApiTypeOK
<1>2. \A s \in Workers, v \in Units : Holds(s, v)' <=> Holds(s, v)
  BY DEF Holds
<1>3. PICK u \in Units : u = Head(dequeuedEvents).unit /\ Settled(u)
  BY <1>1, EventAt DEF EventsSettled
<1>4. quRecord' = quRecord \/
        /\ quRecord' = quRecord \ {u} /\ ~IsDequeued(seen, u)
        /\ \A i \in DOMAIN F : F[i].unit # u
  BY <1>1, <1>3 DEF DeleteIsLast
<1>5. \A v \in Units : Settled(v) /\ v # u => Settled(v)'
  BY <1>2, <1>4 DEF Settled
<1>6. quRecord' = quRecord => Settled(u)'
  BY <1>2, <1>3 DEF Settled
<1>7. DequeuedSettled'
  BY <1>0, <1>4, <1>5, <1>6 DEF DequeuedSettled
<1>8. EventsSettled'
  BY <1>1, <1>4, <1>5, <1>6, EventAt DEF EventsSettled
<1>9. HoldsAlone'
  BY <1>2, <1>3, <1>4 DEF HoldsAlone, Settled
<1>10. DeleteIsLast'
  BY <1>0, <1>1 DEF DeleteIsLast
<1>11. QED
  BY <1>7, <1>8, <1>9, <1>10

----------------------------------------------------------------------------

\* Before either fault has happened, a step is not one of them.
LEMMA NoFault ==
  ASSUME ApiTypeOK, NoFaultYet, NoFaultYet'
  PROVE  ~Spend({"restart"}) /\ ~Spend({"lostReply"})
<1>1. "restart" \in Kinds /\ "lostReply" \in Kinds
  BY DEF Kinds
<1>2. ASSUME NEW k \in {"restart", "lostReply"}, Spend({k}) PROVE FALSE
  <2>1. Unused(k) /\ Unused(k)'
    BY DEF NoFaultYet
  <2>2. QED
    BY <1>1, <1>2, <2>1, NotSpent
<1>3. QED
  BY <1>2

\* The clients.
LEMMA OwnClients ==
  ASSUME ApiTypeOK, OwnershipInv, Clients, UNCHANGED <<quRecord, goroutines>>
  PROVE  OwnershipInv'
<1>1. \A s \in Workers, v \in Units : Holds(s, v)' => Holds(s, v)
  BY DEF Holds
<1>2. ASSUME NEW u \in Units, NEW spec \in Specs, CreateUnit(u, spec) PROVE OwnershipInv'
  <2> DEFINE o == [phase |-> "Enqueued", spec |-> spec]
             new == Put(api, u, o)
  <2>1. o.phase = "Enqueued"
    OBVIOUS
  <2>2. Write(u, new)
    BY <1>2 DEF CreateUnit
  <2> HIDE DEF o
  <2>3. /\ DOMAIN new \ {u} = DOMAIN api \ {u} /\ ~IsDequeued(new, u)
        /\ \A v \in DOMAIN api : v # u => new[v] = api[v]
    BY <2>1 DEF Put, IsDequeued
  <2> HIDE DEF new
  <2>4. QED
    BY <2>2, <2>3, OwnWrite
<1>3. ASSUME NEW u \in Units, NEW p \in Priorities, UpdateUnit(u, p) PROVE OwnershipInv'
  <2> DEFINE spec == [api[u].spec EXCEPT !.priority = p]
             new == [api EXCEPT ![u].spec = spec]
  <2>1. Write(u, new)
    BY <1>3 DEF UpdateUnit
  <2> HIDE DEF spec
  <2>2. api[u] \in Objs /\ api[u].phase # "Dequeued" /\ u \in DOMAIN api
    BY <1>3, StoredType DEF UpdateUnit, IsQueued, ApiTypeOK
  <2>3. new[u].phase = api[u].phase
    BY <2>2 DEF Objs
  <2>4. DOMAIN new = DOMAIN api /\ \A v \in DOMAIN api : v # u => new[v] = api[v]
    OBVIOUS
  <2> HIDE DEF new
  <2>5. ~IsDequeued(new, u)
    BY <2>2, <2>3 DEF IsDequeued
  <2>6. QED
    BY <2>1, <2>4, <2>5, OwnWrite
<1>4. ASSUME NEW u \in Units, DeleteUnit(u) \/ FinishUnit(u) PROVE OwnershipInv'
  <2> DEFINE new == Drop(api, u)
  <2>1. Write(u, new)
    BY <1>4 DEF DeleteUnit, FinishUnit
  <2>2. /\ DOMAIN new \ {u} = DOMAIN api \ {u} /\ ~IsDequeued(new, u)
        /\ \A v \in DOMAIN api : v # u => new[v] = api[v]
    BY DEF Drop, IsDequeued
  <2> HIDE DEF new
  <2>3. QED
    BY <2>1, <2>2, OwnWrite
<1>5. ASSUME NEW u \in Units, DeleteUnitUnseen(u) PROVE OwnershipInv'
  <2>1. \A v \in Units : IsDequeued(seen', v) => IsDequeued(seen, v)
    BY <1>5 DEF DeleteUnitUnseen, IsDequeued, seen, Drop, Put
  <2>2. QED
    BY <1>1, <1>5, <2>1, OwnFrame DEF DeleteUnitUnseen
<1>6. ASSUME NEW u \in Units, RelistMissing(u) PROVE OwnershipInv'
  <2>1. \A v \in Units : IsDequeued(seen', v) => IsDequeued(seen, v)
    BY <1>6 DEF RelistMissing, IsDequeued, seen, Drop
  <2>2. QED
    BY <1>1, <1>6, <2>1, OwnFrame DEF RelistMissing
<1>7. ASSUME NEW q \in QueueObjects, CreateQueue(q) \/ TouchQueue(q) \/ RemoveQueue(q)
      PROVE  OwnershipInv'
  <2>1. UNCHANGED <<api, unseen, dequeuedEvents>>
    BY <1>7 DEF CreateQueue, TouchQueue, RemoveQueue, unitVars
  <2>2. QED
    BY <1>1, <2>1, OwnFrame DEF seen
<1>8. QED
  BY <1>2, <1>3, <1>4, <1>5, <1>6, <1>7 DEF Clients

\* The handlers of the Dequeued units find the unit recorded.
LEMMA OwnHandler ==
  ASSUME ApiTypeOK, OwnershipInv, DequeuedHandler
  PROVE  /\ OwnershipInv'
         /\ \/ UNCHANGED rqVars
            \/ \E u \in Units, spec \in Specs : Unreserve(u, spec.resource)
<1>1. /\ dequeuedEvents # << >> /\ dequeuedEvents' = Tail(dequeuedEvents)
      /\ UNCHANGED <<api, unseen, goroutines>>
  BY DEF DequeuedHandler, AddDequeuedQueueUnit, DeleteDequeuedQueueUnit, Take,
         DequeuedHandled, schedVars
<1>2. 1 \in DOMAIN dequeuedEvents /\ Head(dequeuedEvents) = dequeuedEvents[1]
  BY <1>1, TailAt DEF ApiTypeOK
<1>3. PICK u \in Units : u = Head(dequeuedEvents).unit /\ u \in quRecord
  BY <1>2, EventAt DEF OwnershipInv, EventsSettled, Settled
<1>4. PICK spec \in Specs : spec = Head(dequeuedEvents).spec
  <2>1. dequeuedEvents[1] \in DequeuedEvent
    BY <1>2, SeqIsFunction DEF ApiTypeOK
  <2>2. QED
    BY <1>2, <2>1 DEF DequeuedEvent
<1>5. \/ UNCHANGED rqVars
      \/ Unreserve(u, spec.resource) /\ Head(dequeuedEvents).op = "Delete"
  BY <1>3, <1>4 DEF DequeuedHandler, AddDequeuedQueueUnit, DeleteDequeuedQueueUnit,
                    Take, Reserve, ReserveFails
<1>6. OwnershipInv'
  BY <1>1, <1>3, <1>5, OwnEvent DEF Unreserve, rqVars
<1>7. QED
  BY <1>5, <1>6

\* A step of the loop that does not reserve.
LEMMA OwnLoop ==
  ASSUME ApiTypeOK, SchedTypeOK, OwnershipInv,
         UNCHANGED <<api, unseen, dequeuedEvents, quRecord>>,
         UNCHANGED goroutines \/ Advance(goroutines)
  PROVE  OwnershipInv'
<1>1. goroutines \in [Workers -> GoroutineState(DOMAIN queues)]
  BY DEF SchedTypeOK
<1>2. \A s \in Workers : /\ goroutines'[s].unit = goroutines[s].unit
                         /\ goroutines'[s].pc = goroutines[s].pc
  BY <1>1, AdvanceKeeps
<1>3. \A s \in Workers, u \in Units : Holds(s, u)' => Holds(s, u)
  BY <1>2 DEF Holds
<1>4. QED
  BY <1>3, OwnFrame DEF seen

\* The loop reserves, and starts a goroutine.
LEMMA OwnReserveAndGo ==
  ASSUME ApiTypeOK, SchedTypeOK, OwnershipInv, ReserveAndGo
  PROVE  OwnershipInv'
<1>1. /\ UNCHANGED <<api, unseen, dequeuedEvents>> /\ sched.pc = "reserve"
      /\ goroutines \in [Workers -> GoroutineState(DOMAIN queues)]
  BY DEF ReserveAndGo, apiVars, unitVars, At, SchedTypeOK
<1>2. PICK u \in Units : u = sched.unit
  BY <1>1, LoopReads
<1>3. CASE ReserveFails(u) /\ UNCHANGED goroutines
  BY <1>1, <1>3, OwnLoop DEF ReserveFails, rqVars
<1>4. ASSUME NEW s \in Workers, Reserve(u, sched.spec.resource),
             Advance([goroutines EXCEPT ![s] =
                        [Idle EXCEPT !.pc = "get", !.unit = sched.unit,
                                     !.spec = sched.spec]])
      PROVE  OwnershipInv'
  <2>1. PICK spec \in Specs : spec = sched.spec
    BY DEF SchedTypeOK, LoopState
  <2> DEFINE g == [Idle EXCEPT !.pc = "get", !.unit = u, !.spec = spec]
             gs == [goroutines EXCEPT ![s] = g]
             G == GoroutineState(DOMAIN queues)
  <2>2. g \in G /\ g.unit = u
    BY ConstantsOK DEF ConstantsOK, Idle, GoroutineState
  <2>3. goroutines \in [Workers -> G]
    BY <1>1
  <2>4. Advance(gs)
    BY <1>2, <1>4, <2>1
  <2> HIDE DEF g, G
  <2>5. gs \in [Workers -> G] /\ \A t \in Workers : gs[t] = IF t = s THEN g ELSE goroutines[t]
    BY <2>2, <2>3
  <2> HIDE DEF gs
  <2>6. \A t \in Workers : /\ goroutines'[t].unit = gs[t].unit
                           /\ goroutines'[t].pc = gs[t].pc
    BY <2>4, <2>5, AdvanceKeeps DEF G
  <2>7. \A t \in Workers, v \in Units : Holds(t, v)' => Holds(t, v) \/ (t = s /\ v = u)
    BY <2>2, <2>5, <2>6 DEF Holds
  <2>8. u \notin quRecord /\ quRecord' = quRecord \cup {u}
    BY <1>4 DEF Reserve
  <2>9. QED
    BY <1>1, <2>7, <2>8, OwnReserve
<1>5. QED
  BY <1>2, <1>3, <1>4 DEF ReserveAndGo

\* One step of the loop.
LEMMA OwnSchedule ==
  ASSUME ApiTypeOK, SchedTypeOK, OwnershipInv, Schedule
  PROVE  OwnershipInv'
<1>1. CASE ReserveAndGo
  BY <1>1, OwnReserveAndGo
<1>2. CASE \/ SortedQueue \/ Length \/ Pop \/ ErrorGet \/ ErrorAdd \/ FilterSelect
           \/ \E r \in Resources : FilterCheck(r)
  <2>1. UNCHANGED <<api, unseen, dequeuedEvents, quRecord>>
    BY <1>2 DEF SortedQueue, Length, Pop, ErrorGet, ErrorAdd, FilterSelect, FilterCheck,
                apiVars, unitVars, rqVars
  <2>2. UNCHANGED goroutines \/ Advance(goroutines)
    BY <1>2 DEF SortedQueue, Length, Pop, ErrorGet, ErrorAdd, FilterSelect, FilterCheck
  <2>3. QED
    BY <2>1, <2>2, OwnLoop
<1>3. QED
  BY <1>1, <1>2 DEF Schedule, SchedulingLoop

\* After a move of goroutine s that is not to "get", "update" or "unreserve", s
\* holds nothing; the others hold what they held.
LEMMA ReleaseHolds ==
  ASSUME SchedTypeOK, NEW s \in Workers, Finish(s) \/ MoveTo(s, "call")
  PROVE  \A t \in Workers, v \in Units : Holds(t, v)' => t # s /\ Holds(t, v)
<1> DEFINE G == GoroutineState(DOMAIN queues)
<1>1. goroutines \in [Workers -> G]
  BY DEF SchedTypeOK
<1>2. goroutines[s] \in G => [goroutines[s] EXCEPT !.pc = "call"].pc = "call"
  BY DEF GoroutineState
<1> HIDE DEF G
<1>3. /\ goroutines'[s] = Idle \/ goroutines'[s] = [goroutines[s] EXCEPT !.pc = "call"]
      /\ \A t \in Workers : t # s => goroutines'[t] = goroutines[t]
  BY <1>1 DEF Finish, MoveTo
<1>4. goroutines'[s].pc \in {"idle", "call"}
  <2>1. CASE goroutines'[s] = Idle
    BY <2>1 DEF Idle
  <2>2. CASE goroutines'[s] = [goroutines[s] EXCEPT !.pc = "call"]
    <3>1. goroutines[s] \in G
      BY <1>1
    <3>2. QED
      BY <1>2, <2>2, <3>1
  <2>3. QED
    BY <1>3, <2>1, <2>2
<1>5. QED
  BY <1>3, <1>4 DEF Holds

\* A move of s between places where it holds its unit.
LEMMA MoveHolds ==
  ASSUME SchedTypeOK, NEW s \in Workers, NEW pc, MoveTo(s, pc),
         goroutines[s].pc \in {"get", "update"}
  PROVE  \A t \in Workers, v \in Units : Holds(t, v)' => Holds(t, v)
<1> DEFINE G == GoroutineState(DOMAIN queues)
<1>1. goroutines \in [Workers -> G]
  BY DEF SchedTypeOK
<1>2. goroutines[s] \in G => [goroutines[s] EXCEPT !.pc = pc].unit = goroutines[s].unit
  BY DEF GoroutineState
<1> HIDE DEF G
<1>3. /\ goroutines'[s] = [goroutines[s] EXCEPT !.pc = pc]
      /\ \A t \in Workers : t # s => goroutines'[t] = goroutines[t]
  BY <1>1 DEF MoveTo
<1>4. goroutines'[s].unit = goroutines[s].unit
  BY <1>1, <1>2, <1>3
<1>5. QED
  BY <1>3, <1>4 DEF Holds

\* A goroutine of ErrorFunc holds nothing.
LEMMA ErrorHolds ==
  ASSUME SchedTypeOK, NEW s \in Workers, NEW g,
         g.pc \in {"idle", "errget", "erradd"},
         goroutines' = [goroutines EXCEPT ![s] = g]
  PROVE  \A t \in Workers, v \in Units : Holds(t, v)' => Holds(t, v)
<1>1. goroutines \in [Workers -> GoroutineState(DOMAIN queues)]
  BY DEF SchedTypeOK
<1>2. /\ goroutines'[s] = g
      /\ \A t \in Workers : t # s => goroutines'[t] = goroutines[t]
  BY <1>1
<1>3. QED
  BY <1>2 DEF Holds

\* The Update of Dequeue: it makes the unit Dequeued and the goroutine ends, or
\* the store stays as it is.
LEMMA OwnUpdate ==
  ASSUME ApiTypeOK, SchedTypeOK, OwnershipInv, NoFaultYet, NoFaultYet',
         NEW s \in Workers, DequeueUpdate(s)
  PROVE  OwnershipInv'
<1>1. goroutines[s].pc = "update" /\ UNCHANGED quRecord
  BY DEF DequeueUpdate, AtG, rqVars
<1>2. PICK u \in Units : u = UnitOf(s)
  BY GoroutineAt DEF DequeueUpdate
<1>3. Holds(s, u)
  BY <1>1, <1>2 DEF Holds, UnitOf
<1>4. \/ SetDequeued(s, u) /\ Finish(s)
      \/ MoveTo(s, "unreserve") /\ NoWrite(s, u)
  BY <1>2, NoFault DEF DequeueUpdate
<1>5. CASE NoWrite(s, u) /\ (Finish(s) \/ MoveTo(s, "unreserve"))
  <2>1. \A t \in Workers, v \in Units : Holds(t, v)' => Holds(t, v)
    BY <1>1, <1>5, ReleaseHolds, MoveHolds
  <2>2. QED
    BY <1>1, <1>5, <2>1, OwnFrame DEF NoWrite, seen
<1>6. CASE Write(u, [api EXCEPT ![u].phase = "Dequeued"]) /\ Finish(s)
  <2>1. \A t \in Workers, v \in Units : Holds(t, v)' => t # s /\ Holds(t, v)
    BY <1>6, ReleaseHolds
  <2>2. QED
    BY <1>1, <1>3, <1>6, <2>1, OwnDequeue
<1>7. QED
  BY <1>4, <1>5, <1>6 DEF SetDequeued

\* One step of a goroutine.
LEMMA OwnGoroutine ==
  ASSUME ApiTypeOK, SchedTypeOK, OwnershipInv, NoFaultYet, NoFaultYet',
         NEW s \in Workers, Goroutine(s)
  PROVE  OwnershipInv'
<1>1. goroutines[s] \in GoroutineState(DOMAIN queues)
  BY DEF SchedTypeOK
<1>2. ASSUME UNCHANGED <<api, unseen, dequeuedEvents, quRecord>>,
             \A t \in Workers, v \in Units : Holds(t, v)' => Holds(t, v)
      PROVE  OwnershipInv'
  BY <1>2, OwnFrame DEF seen
<1>3. CASE DequeueGet(s)
  <2>1. \A t \in Workers, v \in Units : Holds(t, v)' => Holds(t, v)
    BY <1>3, MoveHolds DEF DequeueGet, AtG
  <2>2. QED
    BY <1>2, <1>3, <2>1 DEF DequeueGet, rqVars
<1>4. CASE DequeueUpdate(s)
  BY <1>4, OwnUpdate
<1>5. CASE DequeueUnreserve(s)
  <2>1. PICK u \in Units : u = UnitOf(s) /\ goroutines[s].pc = "unreserve"
    BY <1>5, GoroutineAt DEF DequeueUnreserve
  <2>2. Holds(s, u) /\ UNCHANGED <<api, unseen, dequeuedEvents>>
    BY <1>5, <2>1 DEF DequeueUnreserve, Holds, UnitOf, apiVars, unitVars
  <2>3. quRecord \ {u} \subseteq quRecord'
    BY <1>5, <2>1 DEF DequeueUnreserve, Unreserve, rqVars
  <2>4. \A t \in Workers, v \in Units : Holds(t, v)' => t # s /\ Holds(t, v)
    BY <1>5, ReleaseHolds DEF DequeueUnreserve
  <2>5. QED
    BY <2>2, <2>3, <2>4, OwnUnreserve
<1>6. CASE DequeueCallErrorFunc(s)
  <2> DEFINE i == IF goroutines[s].queue = LoopVariable THEN Q ELSE goroutines[s].queue
             g == [goroutines[s] EXCEPT !.pc = "errget", !.queue = i]
  <2>1. goroutines' = [goroutines EXCEPT ![s] = g]
    BY <1>6 DEF DequeueCallErrorFunc, SchedTypeOK
  <2> HIDE DEF i
  <2>2. g.pc = "errget"
    BY <1>1 DEF GoroutineState
  <2> HIDE DEF g
  <2>3. \A t \in Workers, v \in Units : Holds(t, v)' => Holds(t, v)
    <3>1. /\ goroutines'[s].pc = "errget"
          /\ \A t \in Workers : t # s => goroutines'[t] = goroutines[t]
      BY <2>1, <2>2 DEF SchedTypeOK
    <3>2. QED
      BY <3>1 DEF Holds
  <2>4. QED
    BY <1>2, <1>6, <2>3 DEF DequeueCallErrorFunc, apiVars, unitVars, rqVars
<1>7. CASE DequeueErrorGet(s)
  <2> DEFINE spec == api[UnitOf(s)].spec
             g == [goroutines[s] EXCEPT !.pc = "erradd", !.spec = spec]
  <2>1. goroutines' = [goroutines EXCEPT ![s] = g] \/ Finish(s)
    BY <1>7 DEF DequeueErrorGet, SchedTypeOK
  <2> HIDE DEF spec
  <2>2. g.pc = "erradd"
    BY <1>1 DEF GoroutineState
  <2> HIDE DEF g
  <2>3. \A t \in Workers, v \in Units : Holds(t, v)' => Holds(t, v)
    BY <2>1, <2>2, ErrorHolds, ReleaseHolds
  <2>4. QED
    BY <1>2, <1>7, <2>3 DEF DequeueErrorGet, unitVars, rqVars
<1>8. CASE DequeueErrorAdd(s)
  <2>1. \A t \in Workers, v \in Units : Holds(t, v)' => Holds(t, v)
    BY <1>8, ReleaseHolds DEF DequeueErrorAdd
  <2>2. QED
    BY <1>2, <1>8, <2>1 DEF DequeueErrorAdd, apiVars, unitVars, rqVars
<1>9. QED
  BY <1>3, <1>4, <1>5, <1>6, <1>7, <1>8 DEF Goroutine, DequeueGoroutine

\* Every step that is not one of the two faults.
LEMMA OwnNext ==
  ASSUME TypeOK, OwnershipInv, [Next]_vars, NoFaultYet, NoFaultYet'
  PROVE  OwnershipInv'
<1> USE TypeParts
<1>1. CASE ClientStep
  BY <1>1, OwnClients DEF ClientStep, rqVars, schedVars
<1>2. CASE DequeuedHandler
  BY <1>2, OwnHandler
<1>3. CASE Schedule
  BY <1>3, OwnSchedule
<1>4. ASSUME NEW s \in Workers, Goroutine(s) PROVE OwnershipInv'
  BY <1>4, OwnGoroutine
<1>5. ~Restart
  BY NoFault DEF Restart
<1>6. CASE \/ UnitHandler \/ QueueHandler \/ StayDown \/ UNCHANGED vars
           \/ \E i \in DOMAIN queues : Flush(i)
           \/ \E n \in Namespaces : ListResourceQuota(n)
  <2>1. UNCHANGED <<api, unseen, dequeuedEvents, quRecord, goroutines>>
    BY <1>6 DEF UnitHandler, GetQueueByName, AddQueueUnit, UpdateQueueUnit,
                DeleteQueueUnit, UnitHandled, QueueHandler, AddQueue, UpdateQueue,
                DeleteQueue, QueueHandled, StayDown, Flush, ListResourceQuota,
                vars, apiVars, unitVars, rqVars, schedVars
  <2>2. QED
    BY <2>1, OwnFrame DEF Holds, seen
<1>7. QED
  BY <1>1, <1>2, <1>3, <1>4, <1>5, <1>6 DEF Next

\* Nothing is reserved or Dequeued at first.
LEMMA OwnInit == Init \/ Ready => OwnershipInv
<1> SUFFICES ASSUME Init \/ Ready PROVE OwnershipInv
  OBVIOUS
<1>1. /\ api = EmptyMap /\ unseen = EmptyMap /\ dequeuedEvents = << >>
      /\ goroutines = [s \in Workers |-> Idle]
  BY DEF Init, Ready, ApiInit, SchedInit
<1>2. \A u \in Units : ~IsDequeued(seen, u) /\ \A s \in Workers : ~Holds(s, u)
  BY <1>1 DEF IsDequeued, seen, EmptyMap, Holds, Idle
<1>3. DOMAIN dequeuedEvents = {}
  BY <1>1
<1>4. QED
  BY <1>2, <1>3
     DEF OwnershipInv, DequeuedSettled, EventsSettled, HoldsAlone, DeleteIsLast

----------------------------------------------------------------------------
(***************************************************************************)
(* The ledger and the quota.                                               *)
(***************************************************************************)

\* No entry of the ledger grows.
LedgerShrinks ==
  \A n \in Namespaces, r \in Resources :
    GetReservedByResourceName(n, r)' <= GetReservedByResourceName(n, r)

\* What is reserved is a natural number.
LEMMA ReservedNat ==
  ASSUME RQTypeOK, NEW n \in Namespaces, NEW r \in Resources
  PROVE  GetReservedByResourceName(n, r) \in Nat
BY DEF RQTypeOK, GetReservedByResourceName

\* Filter selects at most one quota (resource_quota.go, SelectResourceQuota).
LEMMA OneQuota ==
  ASSUME NEW n \in Namespaces, NEW p \in SelectResourceQuota(Quotas[n], n),
         NEW q \in SelectResourceQuota(Quotas[n], n)
  PROVE  p = q /\ p \in Quotas[n]
<1>1. CASE Cardinality(Quotas[n]) = 1
  <2>1. PICK x : Quotas[n] = {x}
    BY <1>1, QuotaNames, FS_Singleton DEF QuotaNames
  <2>2. QED
    BY <1>1, <2>1 DEF SelectResourceQuota
<1>2. CASE Cardinality(Quotas[n]) # 1
  BY <1>2, QuotaNames DEF QuotaNames, SelectResourceQuota
<1>3. QED
  BY <1>1, <1>2

\* Unreserve lowers the ledger.
LEMMA UnreserveShrinks ==
  ASSUME RQTypeOK, NEW u \in Units, NEW d \in ResourceLists, Unreserve(u, d)
  PROVE  LedgerShrinks
<1> SUFFICES ASSUME NEW n \in Namespaces, NEW r \in Resources
             PROVE  GetReservedByResourceName(n, r)' <= GetReservedByResourceName(n, r)
  BY DEF LedgerShrinks
<1>1. GetReservedByResourceName(n, r) \in Nat /\ Asks(d, r) \in Nat
  BY ReservedNat, AsksNat
<1>2. CASE UNCHANGED rqVars
  BY <1>1, <1>2 DEF rqVars, GetReservedByResourceName
<1>3. CASE /\ ~NothingToUnreserve(u)
           /\ reserved' = [reserved EXCEPT ![NsOf[u]] =
                             [x \in Resources |-> IF @[x] - Asks(d, x) <= 0
                                                  THEN 0
                                                  ELSE @[x] - Asks(d, x)]]
  <2>1. CASE n = NsOf[u]
    <3>1. n \in DOMAIN reserved /\ DOMAIN reserved' = DOMAIN reserved
      BY <1>3, <2>1 DEF NothingToUnreserve
    <3>2. reserved'[n][r] = IF reserved[n][r] - Asks(d, r) <= 0
                            THEN 0 ELSE reserved[n][r] - Asks(d, r)
      BY <1>3, <2>1, <3>1
    <3>3. reserved[n][r] \in Nat
      BY <1>1, <3>1 DEF GetReservedByResourceName
    <3>4. reserved'[n][r] <= reserved[n][r]
      BY <1>1, <3>2, <3>3
    <3>5. QED
      BY <3>1, <3>4 DEF GetReservedByResourceName
  <2>2. CASE n # NsOf[u]
    <3>1. GetReservedByResourceName(n, r)' = GetReservedByResourceName(n, r)
      BY <1>3, <2>2 DEF GetReservedByResourceName
    <3>2. QED
      BY <1>1, <3>1
  <2>3. QED
    BY <2>1, <2>2
<1>4. QED
  BY <1>2, <1>3 DEF Unreserve

\* A ledger that stays as it is does not grow.
LEMMA SameShrinks ==
  ASSUME RQTypeOK, UNCHANGED rqVars
  PROVE  LedgerShrinks
<1> SUFFICES ASSUME NEW n \in Namespaces, NEW r \in Resources
             PROVE  GetReservedByResourceName(n, r)' <= GetReservedByResourceName(n, r)
  BY DEF LedgerShrinks
<1>1. GetReservedByResourceName(n, r)' = GetReservedByResourceName(n, r)
  BY DEF rqVars, GetReservedByResourceName
<1>2. QED
  BY <1>1, ReservedNat

\* A ledger that does not grow stays within the quota.
LEMMA LedgerKept ==
  ASSUME RQTypeOK, RQTypeOK', LedgerShrinks, LedgerInQuota
  PROVE  LedgerInQuota'
<1> SUFFICES ASSUME NEW n \in Namespaces, NEW q \in SelectResourceQuota(Quotas[n], n),
                    NEW r \in DOMAIN q.hard, ~q.nilHard
             PROVE  GetReservedByResourceName(n, r)' <= q.hard[r]
  BY DEF LedgerInQuota, SelectResourceQuota
<1>1. r \in Resources /\ q.hard[r] \in Nat
  BY OneQuota, ConstantsOK DEF ConstantsOK
<1>2. /\ GetReservedByResourceName(n, r) \in Nat /\ GetReservedByResourceName(n, r)' \in Nat
      /\ GetReservedByResourceName(n, r)' <= GetReservedByResourceName(n, r)
  <2>1. GetReservedByResourceName(n, r)' \in Nat
    BY <1>1 DEF RQTypeOK, GetReservedByResourceName
  <2>2. QED
    BY <1>1, <2>1, ReservedNat DEF LedgerShrinks
<1>3. GetReservedByResourceName(n, r) <= q.hard[r]
  BY DEF LedgerInQuota
<1>4. QED
  BY <1>1, <1>2, <1>3

\* And what fitted still fits.
LEMMA FitsKept ==
  ASSUME RQTypeOK, RQTypeOK', LedgerShrinks, NEW u \in Units, NEW r \in DOMAIN Demand[u],
         Fits(u, r)
  PROVE  Fits(u, r)'
<1> DEFINE n == ConsumerNs[u]
<1>1. PICK b \in Baskets(Quotas[n], u) : FitsIn(b, u, Demand[u], r)
  BY DEF Fits
<1>2. n \in Namespaces /\ r \in Resources /\ Demand[u][r] \in Nat
  BY AsksNat, ConstantsOK DEF ConstantsOK
<1>3. b \in Quotas[n]
  BY <1>1, <1>2, OneQuota DEF Baskets
<1>4. FitsIn(b, u, Demand[u], r)'
  <2> SUFFICES ASSUME r \in DOMAIN b.hard
               PROVE  GetReservedByResourceName(n, r)' + Demand[u][r] <= b.hard[r]
    BY DEF FitsIn
  <2>1. b.hard[r] \in Nat
    BY <1>2, <1>3, ConstantsOK DEF ConstantsOK
  <2>2. GetReservedByResourceName(n, r) + Demand[u][r] <= b.hard[r]
    BY <1>1 DEF FitsIn
  <2>3. GetReservedByResourceName(n, r) \in Nat /\ GetReservedByResourceName(n, r)' \in Nat
    <3>1. GetReservedByResourceName(n, r)' \in Nat
      BY <1>2 DEF RQTypeOK, GetReservedByResourceName
    <3>2. QED
      BY <1>2, <3>1, ReservedNat
  <2>4. GetReservedByResourceName(n, r)' <= GetReservedByResourceName(n, r)
    BY <1>2 DEF LedgerShrinks
  <2> HIDE DEF n
  <2>5. QED
    BY <1>2, <2>1, <2>2, <2>3, <2>4
<1>5. QED
  BY <1>1, <1>4 DEF Fits, Baskets, SelectResourceQuota

\* Reserve after a Filter that let the unit pass keeps the ledger within the quota.
LEMMA ReserveInQuota ==
  ASSUME NsOf = ConsumerNs, RQTypeOK, LedgerInQuota, NEW u \in Units, Reserve(u, Demand[u]),
         \A r \in DOMAIN Demand[u] : Fits(u, r)
  PROVE  LedgerInQuota'
<1> SUFFICES ASSUME NEW n \in Namespaces, NEW q \in SelectResourceQuota(Quotas[n], n),
                    NEW r \in DOMAIN q.hard, ~q.nilHard
             PROVE  GetReservedByResourceName(n, r)' <= q.hard[r]
  BY DEF LedgerInQuota, SelectResourceQuota
<1>1. r \in Resources /\ q.hard[r] \in Nat
  BY OneQuota, ConstantsOK DEF ConstantsOK
<1>2. GetReservedByResourceName(n, r) \in Nat /\ GetReservedByResourceName(n, r) <= q.hard[r]
  BY <1>1, ReservedNat DEF LedgerInQuota
<1>3. CASE n # NsOf[u]
  <2>1. GetReservedByResourceName(n, r)' = GetReservedByResourceName(n, r)
    BY <1>3 DEF Reserve, GetReservedByResourceName
  <2>2. QED
    BY <1>2, <2>1
<1>4. CASE n = NsOf[u]
  <2>1. GetReservedByResourceName(n, r)' = GetReservedByResourceName(n, r) + Asks(Demand[u], r)
    <3>1. reserved'[n] = [x \in Resources |-> GetReservedByResourceName(n, x) + Asks(Demand[u], x)]
      BY <1>4 DEF Reserve
    <3>2. n \in DOMAIN reserved'
      BY <1>4 DEF Reserve
    <3>3. GetReservedByResourceName(n, r)' = reserved'[n][r]
      BY <3>2 DEF GetReservedByResourceName
    <3>4. QED
      BY <1>1, <3>1, <3>3
  <2>2. CASE r \notin DOMAIN Demand[u]
    BY <1>2, <2>1, <2>2 DEF Asks
  <2>3. CASE r \in DOMAIN Demand[u]
    <3>1. PICK b \in Baskets(Quotas[n], u) : FitsIn(b, u, Demand[u], r)
      BY <1>4, <2>3 DEF Fits
    <3>2. b = q
      BY <1>4, <3>1, OneQuota DEF Baskets
    <3>3. GetReservedByResourceName(n, r) + Demand[u][r] <= q.hard[r]
      BY <1>4, <3>1, <3>2 DEF FitsIn
    <3>4. QED
      BY <2>1, <2>3, <3>3 DEF Asks
  <2>4. QED
    BY <2>2, <2>3
<1>5. QED
  BY <1>3, <1>4

\* What Filter selects from the lister is what it should check against.
LEMMA ListerSelects ==
  ASSUME ListerSafe, NEW n \in Namespaces
  PROVE  SelectResourceQuota(listed[n], n) \subseteq SelectResourceQuota(Quotas[n], n)
<1>1. CASE listed = [m \in Namespaces |-> Quotas[m]]
  BY <1>1
<1>2. CASE SingleQuota /\ listed[n] \subseteq Quotas[n]
  <2> SUFFICES ASSUME NEW q \in listed[n], NEW L, L = listed[n], NEW K, K = Quotas[n],
                      q \in SelectResourceQuota(L, n)
               PROVE  q \in SelectResourceQuota(K, n)
    BY DEF SelectResourceQuota
  <2>1. L = {q} /\ K = {q}
    BY <1>2 DEF SingleQuota
  <2>2. QED
    BY <2>1
<1>3. QED
  BY <1>1, <1>2 DEF ListerSafe

\* The lister grows by the quotas there are, until the process is restarted.
LEMMA ListerNext ==
  ASSUME TypeOK, ListerSafe, [Next]_vars, NoFaultYet, NoFaultYet'
  PROVE  ListerSafe'
<1> USE TypeParts
<1>1. ASSUME UNCHANGED listed PROVE ListerSafe'
  BY <1>1 DEF ListerSafe
<1>2. CASE ClientStep \/ UnitHandler \/ DequeuedHandler \/ QueueHandler \/ Schedule
  <2>1. UNCHANGED listed
    BY <1>2 DEF ClientStep, UnitHandler, GetQueueByName, AddQueueUnit, UpdateQueueUnit,
                DeleteQueueUnit, UnitHandled, DequeuedHandler, AddDequeuedQueueUnit,
                DeleteDequeuedQueueUnit, DequeuedHandled, QueueHandler, AddQueue,
                UpdateQueue, DeleteQueue, QueueHandled, Schedule, SchedulingLoop,
                SortedQueue, Length, Pop, FilterSelect, FilterCheck, ReserveAndGo,
                ErrorGet, ErrorAdd, schedVars
  <2>2. QED
    BY <1>1, <2>1
<1>3. CASE \/ \E s \in Workers : Goroutine(s)
           \/ \E i \in DOMAIN queues : Flush(i)
           \/ StayDown \/ UNCHANGED vars
  <2>1. UNCHANGED listed
    BY <1>3 DEF Goroutine, DequeueGoroutine, DequeueGet, DequeueUpdate,
                DequeueUnreserve, DequeueCallErrorFunc, DequeueErrorGet,
                DequeueErrorAdd, Flush, StayDown, vars, schedVars
  <2>2. QED
    BY <1>1, <2>1
<1>4. ASSUME NEW n \in Namespaces, ListResourceQuota(n) PROVE ListerSafe'
  <2>1. PICK q \in Quotas[n] \ listed[n] : listed' = [listed EXCEPT ![n] = @ \cup {q}]
    BY <1>4 DEF ListResourceQuota
  <2>2. SingleQuota /\ \A m \in Namespaces : listed[m] \subseteq Quotas[m]
    BY <2>1 DEF ListerSafe
  <2>3. \A m \in Namespaces : listed'[m] \subseteq Quotas[m]
    BY <2>1, <2>2 DEF ListedOK
  <2>4. QED
    BY <2>2, <2>3 DEF ListerSafe, SingleQuota
<1>5. ~Restart
  BY NoFault DEF Restart
<1>6. QED
  BY <1>2, <1>3, <1>4, <1>5 DEF Next

----------------------------------------------------------------------------
(***************************************************************************)
(* The steps.                                                              *)
(***************************************************************************)

\* A step that does not raise the ledger and is no step of Filter.
LEMMA QuotaStep ==
  ASSUME TypeOK, TypeOK', LedgerInQuota, FilterStable, LedgerShrinks,
         UNCHANGED sched \/ sched'.pc \notin {"check", "reserve"}
  PROVE  LedgerInQuota' /\ FilterStable'
<1> USE TypeParts
<1>1. LedgerInQuota'
  BY LedgerKept
<1>2. CASE sched'.pc \notin {"check", "reserve"}
  BY <1>1, <1>2 DEF FilterStable
<1>3. CASE UNCHANGED sched /\ sched.pc \in {"check", "reserve"}
  <2>1. PICK u \in Units : u = sched.unit
    BY <1>3, LoopReads
  <2>2. \A r \in DOMAIN Demand[u] : Fits(u, r) => Fits(u, r)'
    BY FitsKept
  <2>3. sched' = sched /\ \A r : Fits(sched.unit, r)' <=> Fits(u, r)'
    BY <1>3, <2>1 DEF Fits, FitsIn, GetReservedByResourceName, Baskets
  <2>4. QED
    BY <1>1, <2>1, <2>2, <2>3 DEF FilterStable
<1>4. QED
  BY <1>2, <1>3

\* Filter: what it answers for a resource is what FilterStable says of it.
LEMMA FilterQuota ==
  ASSUME TypeOK, TypeOK', SpecsKept, ListerSafe, LedgerInQuota, FilterStable,
         FilterSelect \/ \E r \in Resources : FilterCheck(r)
  PROVE  LedgerInQuota' /\ FilterStable'
<1> USE TypeParts
<1>1. UNCHANGED <<reserved, quRecord>> /\ sched \in LoopState(DOMAIN queues)
  BY DEF FilterSelect, FilterCheck, rqVars, SchedTypeOK
<1>2. LedgerInQuota'
  BY <1>1, SameShrinks, LedgerKept DEF rqVars
<1>3. PICK u \in Units : u = sched.unit /\ sched.spec.resource = Demand[u]
  <2>1. sched.unit \in Units
    BY LoopReads DEF FilterSelect, FilterCheck, At
  <2>2. sched.unit # NoUnit
    BY <2>1, ConstantsOK DEF ConstantsOK
  <2>3. QED
    BY <2>1, <2>2 DEF SpecsKept, CopiesKept, KeptCopy, Matches
<1>4. \A x : Fits(u, x)' <=> Fits(u, x)
  BY <1>1 DEF Fits, FitsIn, GetReservedByResourceName, Baskets
<1> DEFINE B == Baskets(Quotas[ConsumerNs[u]], u)
           D == DOMAIN Demand[u]
<1>5. ASSUME NEW pc \in {"check", "reserve", "errget"}, NEW b, NEW T, GoTo(pc, b, T),
             pc = "check" => b \subseteq B /\ \A x \in D \ T : Fits(u, x),
             pc = "reserve" => \A x \in D : Fits(u, x)
      PROVE  FilterStable'
  <2>1. sched'.pc = pc /\ sched'.basket = b /\ sched'.todo = T /\ sched'.unit = u
    BY <1>1, <1>3, <1>5 DEF GoTo, LoopState
  <2>2. \A x : Fits(sched.unit, x)' <=> Fits(u, x)
    BY <1>4, <2>1 DEF Fits, FitsIn, GetReservedByResourceName, Baskets
  <2>3. QED
    BY <1>5, <2>1, <2>2 DEF FilterStable
<1>6. CASE FilterSelect
  <2> DEFINE b == Baskets(listed[ConsumerNs[u]], u)
  <2>1. ConsumerNs[u] \in Namespaces
    BY ConstantsOK DEF ConstantsOK
  <2>2. b \subseteq B
    BY <2>1, ListerSelects DEF Baskets
  <2>3. \/ GoTo("errget", {}, {})
        \/ GoTo("reserve", {}, {}) /\ D = {}
        \/ GoTo("check", b, D)
    BY <1>3, <1>6 DEF FilterSelect
  <2> HIDE DEF b, B, D
  <2>4. FilterStable'
    BY <1>5, <2>2, <2>3
  <2>5. QED
    BY <1>2, <2>4
<1>7. ASSUME NEW r \in Resources, FilterCheck(r) PROVE FilterStable'
  <2>1. /\ r \in sched.todo /\ sched.basket \subseteq B
        /\ \A x \in D \ sched.todo : Fits(u, x)
    BY <1>3, <1>7 DEF FilterCheck, At, FilterStable
  <2>2. FitsBasket(r) => Fits(u, r)
    BY <1>3, <2>1 DEF FitsBasket, Fits
  <2>3. \/ GoTo("errget", {}, {})
        \/ GoTo("reserve", {}, {}) /\ Fits(u, r) /\ sched.todo = {r}
        \/ GoTo("check", sched.basket, sched.todo \ {r}) /\ Fits(u, r)
    BY <1>7, <2>2 DEF FilterCheck
  <2> HIDE DEF B, D
  <2>4. QED
    BY <1>5, <2>1, <2>3
<1>8. QED
  BY <1>2, <1>6, <1>7

\* The end of a round.
LEMMA AdvancePc ==
  ASSUME NEW gs, Advance(gs)
  PROVE  sched'.pc \in {"length", "sort"}
<1>1. CASE sched' = [NewCycle EXCEPT !.pc = "length", !.rest = Tail(sched.rest)]
  BY <1>1 DEF NewCycle
<1>2. CASE sched' = NewCycle
  BY <1>2 DEF NewCycle
<1>3. QED
  BY <1>1, <1>2 DEF Advance

\* Reserve.
LEMMA ReserveQuota ==
  ASSUME SameNamespace, TypeOK, TypeOK', SpecsKept, LedgerInQuota, FilterStable,
         ReserveAndGo
  PROVE  LedgerInQuota' /\ FilterStable'
<1> USE TypeParts
<1>1. /\ sched.pc = "reserve" /\ sched \in LoopState(DOMAIN queues)
      /\ goroutines \in [Workers -> GoroutineState(DOMAIN queues)]
  BY DEF ReserveAndGo, At, SchedTypeOK
<1>2. PICK u \in Units : u = sched.unit /\ sched.spec.resource = Demand[u]
  <2>1. sched.unit \in Units
    BY <1>1, LoopReads
  <2>2. sched.unit # NoUnit
    BY <2>1, ConstantsOK DEF ConstantsOK
  <2>3. QED
    BY <2>1, <2>2 DEF SpecsKept, CopiesKept, KeptCopy, Matches
<1>3. CASE ReserveFails(sched.unit) /\ GoTo("errget", {}, {})
  <2>1. sched'.pc = "errget"
    BY <1>1, <1>3 DEF GoTo, LoopState
  <2>2. QED
    BY <1>3, <2>1, SameShrinks, QuotaStep DEF ReserveFails
<1>4. ASSUME NEW s \in Workers, Reserve(sched.unit, sched.spec.resource),
             Advance([goroutines EXCEPT ![s] =
                        [Idle EXCEPT !.pc = "get", !.unit = sched.unit,
                                     !.spec = sched.spec]])
      PROVE  LedgerInQuota' /\ FilterStable'
  <2>1. \A r \in DOMAIN Demand[u] : Fits(u, r)
    BY <1>1, <1>2 DEF FilterStable
  <2>2. LedgerInQuota'
    BY <1>2, <1>4, <2>1, ReserveInQuota DEF SameNamespace
  <2>3. sched'.pc \in {"length", "sort"}
    BY <1>4, AdvancePc
  <2>4. QED
    BY <2>2, <2>3 DEF FilterStable
<1>5. QED
  BY <1>3, <1>4 DEF ReserveAndGo

\* One step of the loop.
LEMMA ScheduleQuota ==
  ASSUME SameNamespace, TypeOK, TypeOK', SpecsKept, ListerSafe, LedgerInQuota,
         FilterStable, Schedule
  PROVE  LedgerInQuota' /\ FilterStable'
<1> USE TypeParts
<1>1. sched \in LoopState(DOMAIN queues)
  BY DEF SchedTypeOK
<1>2. CASE FilterSelect \/ \E r \in Resources : FilterCheck(r)
  BY <1>2, FilterQuota
<1>3. CASE ReserveAndGo
  BY <1>3, ReserveQuota
<1>4. CASE SortedQueue \/ Length \/ Pop \/ ErrorGet \/ ErrorAdd
  <2>1. UNCHANGED rqVars
    BY <1>4 DEF SortedQueue, Length, Pop, ErrorGet, ErrorAdd
  <2>2. sched'.pc \notin {"check", "reserve"}
    <3>1. CASE SortedQueue \/ Length
      BY <1>1, <3>1, AdvancePc DEF SortedQueue, Length, LoopState
    <3>2. CASE Pop
      BY <1>1, <3>2 DEF Pop, LoopState, NewCycle
    <3>3. CASE ErrorGet \/ ErrorAdd
      BY <1>1, <3>3, AdvancePc DEF ErrorGet, ErrorAdd, LoopState
    <3>4. QED
      BY <1>4, <3>1, <3>2, <3>3
  <2>3. QED
    BY <2>1, <2>2, SameShrinks, QuotaStep
<1>5. QED
  BY <1>2, <1>3, <1>4 DEF Schedule, SchedulingLoop

\* One step of a goroutine: it gives back, or leaves the ledger alone.
LEMMA GoroutineQuota ==
  ASSUME TypeOK, TypeOK', LedgerInQuota, FilterStable, NEW s \in Workers, Goroutine(s)
  PROVE  LedgerInQuota' /\ FilterStable'
<1> USE TypeParts
<1>1. UNCHANGED sched
  BY DEF Goroutine, DequeueGoroutine, DequeueGet, DequeueUpdate, DequeueUnreserve,
         DequeueCallErrorFunc, DequeueErrorGet, DequeueErrorAdd
<1>2. CASE DequeueUnreserve(s)
  <2>1. UnitOf(s) \in Units /\ goroutines[s].spec \in Specs
    BY <1>2, GoroutineAt DEF DequeueUnreserve
  <2>2. goroutines[s].spec.resource \in ResourceLists
    BY <2>1 DEF Specs
  <2>3. LedgerShrinks
    BY <1>2, <2>1, <2>2, UnreserveShrinks DEF DequeueUnreserve
  <2>4. QED
    BY <1>1, <2>3, QuotaStep
<1>3. CASE ~DequeueUnreserve(s)
  <2>1. UNCHANGED rqVars
    BY <1>3 DEF Goroutine, DequeueGoroutine, DequeueGet, DequeueUpdate,
                DequeueCallErrorFunc, DequeueErrorGet, DequeueErrorAdd
  <2>2. QED
    BY <1>1, <2>1, SameShrinks, QuotaStep
<1>4. QED
  BY <1>2, <1>3

----------------------------------------------------------------------------
(***************************************************************************)
(* The theorems.                                                           *)
(***************************************************************************)

\* Nothing is reserved at first, and the lister is empty or full.
LEMMA QuotaInit ==
  ASSUME (SingleQuota /\ Init) \/ Ready
  PROVE  QuotaInv
<1>1. TypeOK /\ SpecsKept /\ RQInv /\ OwnershipInv
  BY SpecsInit, OwnInit
<1>2. reserved = EmptyMap /\ sched = NewCycle
  BY DEF Init, Ready, RQInit, SchedInit
<1>3. FilterStable
  BY <1>2 DEF FilterStable, NewCycle
<1>4. LedgerInQuota
  <2> SUFFICES ASSUME NEW n \in Namespaces, NEW q \in SelectResourceQuota(Quotas[n], n),
                      NEW r \in DOMAIN q.hard
               PROVE  GetReservedByResourceName(n, r) <= q.hard[r]
    BY DEF LedgerInQuota
  <2>1. q.hard[r] \in Nat
    BY OneQuota, ConstantsOK DEF ConstantsOK
  <2>2. GetReservedByResourceName(n, r) = 0
    BY <1>2 DEF GetReservedByResourceName, EmptyMap
  <2>3. QED
    BY <2>1, <2>2
<1>5. ListerSafe
  BY DEF Init, Ready, SchedInit, ListerSafe
<1>6. QED
  BY <1>1, <1>3, <1>4, <1>5 DEF QuotaInv

\* None of the three events has happened.
Quiet == NoFaultYet /\ Unused("resize")

\* Every step that is none of them keeps the invariant.
LEMMA QuotaNext ==
  ASSUME SameNamespace, QuotaInv, [Next]_vars, Quiet, Quiet'
  PROVE  QuotaInv'
<1> USE TypeParts DEF QuotaInv
<1>1. TypeOK' /\ SpecsKept' /\ RQInv'
  BY NextInv, SpecsNext DEF Quiet
<1>2. OwnershipInv' /\ ListerSafe'
  BY OwnNext, ListerNext DEF Quiet
<1>3. CASE Schedule
  BY <1>1, <1>2, <1>3, ScheduleQuota
<1>4. CASE \E s \in Workers : Goroutine(s)
  BY <1>1, <1>2, <1>4, GoroutineQuota
<1>5. CASE DequeuedHandler
  <2>1. UNCHANGED sched
    BY <1>5 DEF DequeuedHandler, AddDequeuedQueueUnit, DeleteDequeuedQueueUnit,
                DequeuedHandled, schedVars
  <2>2. \A spec \in Specs : spec.resource \in ResourceLists
    BY DEF Specs
  <2>3. LedgerShrinks
    BY <1>5, <2>2, OwnHandler, UnreserveShrinks, SameShrinks
  <2>4. QED
    BY <1>1, <1>2, <2>1, <2>3, QuotaStep
<1>6. ~Restart
  BY NoFault DEF Restart, Quiet
<1>7. CASE \/ ClientStep \/ UnitHandler \/ QueueHandler \/ StayDown \/ UNCHANGED vars
           \/ \E i \in DOMAIN queues : Flush(i)
           \/ \E n \in Namespaces : ListResourceQuota(n)
  <2>1. UNCHANGED <<rqVars, sched>>
    BY <1>7 DEF ClientStep, UnitHandler, GetQueueByName, AddQueueUnit, UpdateQueueUnit,
                DeleteQueueUnit, UnitHandled, QueueHandler, AddQueue, UpdateQueue,
                DeleteQueue, QueueHandled, StayDown, Flush, ListResourceQuota,
                vars, schedVars
  <2>2. QED
    BY <1>1, <1>2, <2>1, SameShrinks, QuotaStep
<1>8. QED
  BY <1>3, <1>4, <1>5, <1>6, <1>7 DEF Next

\* The invariant is strong enough: what is Dequeued is recorded, and what is
\* recorded is within the quota.
LEMMA QuotaInvImplies ==
  ASSUME QuotaInv
  PROVE  Room(DequeuedUnits) /\ QuotaRespected
<1> USE TypeParts
<1>1. /\ ReservedIsSum /\ FiniteTokens(quRecord) /\ ApiTypeOK
      /\ LedgerInQuota /\ DequeuedSettled /\ KeptObjs(api)
  BY DEF QuotaInv, RQInv, OwnershipInv, SpecsKept, ApiKept
<1>2. DequeuedUnits \in SUBSET quRecord
  BY <1>1, SeenType DEF DequeuedUnits, DequeuedSettled, Settled, IsDequeued
<1>3. Room(DequeuedUnits)
  <2> SUFFICES ASSUME NEW n \in Namespaces, NEW q \in SelectResourceQuota(Quotas[n], n),
                      NEW r \in DOMAIN q.hard, ~q.nilHard
               PROVE  Load(DequeuedUnits, Demand, n, r) <= q.hard[r]
    BY DEF Room, WithinQuota
  <2>1. r \in Resources /\ q.hard[r] \in Nat
    BY OneQuota, ConstantsOK DEF ConstantsOK
  <2>2. /\ Load(DequeuedUnits, Demand, n, r) <= Load(quRecord, Demand, n, r)
        /\ Load(DequeuedUnits, Demand, n, r) \in Nat
        /\ Load(quRecord, Demand, n, r) \in Nat
    BY <1>1, <1>2, <2>1, LoadMono DEF FiniteTokens
  <2>3. Load(quRecord, Demand, n, r) = GetReservedByResourceName(n, r)
    BY <1>1, <2>1 DEF ReservedIsSum
  <2>4. Load(quRecord, Demand, n, r) <= q.hard[r]
    BY <1>1, <2>3 DEF LedgerInQuota
  <2>5. QED
    BY <2>1, <2>2, <2>4
<1>4. \A u \in DequeuedUnits : Stored[u] = Demand[u]
  BY <1>1 DEF DequeuedUnits, IsDequeued, Stored, KeptObjs, Matches
<1>5. \A n, r : Tokens(DequeuedUnits, Stored, n, r) = Tokens(DequeuedUnits, Demand, n, r)
  BY <1>4 DEF Tokens
<1>6. QED
  BY <1>3, <1>5 DEF Room, QuotaRespected, WithinQuota, Load

\* The invariant holds until the first of the three events.
QuotaInvYet == TypeOK /\ LeftBounded /\ (Quiet => QuotaInv)

LEMMA QuotaYetNext ==
  ASSUME SameNamespace, QuotaInvYet, [Next]_vars
  PROVE  QuotaInvYet'
<1>1. TypeOK' /\ LeftBounded' /\ (Quiet' => Quiet)
  BY NextInv, LeftNext DEF QuotaInvYet, Quiet, NoFaultYet, Kinds
<1>2. ASSUME Quiet' PROVE QuotaInv'
  BY <1>1, <1>2, QuotaNext DEF QuotaInvYet
<1>3. QED
  BY <1>1, <1>2 DEF QuotaInvYet

LEMMA QuotaYetImplies == QuotaInvYet => QuotaUntilDisturbed
BY QuotaInvImplies DEF QuotaInvYet, QuotaUntilDisturbed, Quiet, NoFaultYet

\* The units that are Dequeued never exceed the quota before the first restart,
\* lost reply or change of a Spec.Resource, whatever the clients, handlers,
\* scheduler and goroutines do and in whatever order, also with failing calls,
\* missed deletes, units re-created as they were and changing queues, and while
\* the ResourceQuota lister is being filled, if no namespace has two quotas
\* (resource_quota.go, Filter and Reserve; scheduler.go, schedule and Dequeue).
THEOREM QuotaSafe ==
  ASSUME SameNamespace, SingleQuota
  PROVE  Spec => []QuotaUntilDisturbed
<1>1. Init => QuotaInvYet
  BY QuotaInit, SpecsInit DEF QuotaInvYet
<1>2. QuotaInvYet /\ [Next]_vars => QuotaInvYet'
  BY QuotaYetNext
<1>3. QED
  BY <1>1, <1>2, QuotaYetImplies, PTL DEF Spec

\* The same for the process that starts with a full lister, for any number of
\* quotas.
THEOREM ReadyQuotaSafe ==
  ASSUME SameNamespace
  PROVE  ReadySpec => []QuotaUntilDisturbed
<1>1. Ready => QuotaInvYet
  BY QuotaInit, SpecsInit DEF QuotaInvYet
<1>2. QuotaInvYet /\ [Next]_vars => QuotaInvYet'
  BY QuotaYetNext
<1>3. QED
  BY <1>1, <1>2, QuotaYetImplies, PTL DEF ReadySpec
============================================================================
