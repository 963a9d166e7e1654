-------------------------- MODULE AdmissionProofs --------------------------
(***************************************************************************)
(* Seen from the API server, the process is the machine of Admission, for  *)
(* every number of units, queues, goroutines and resources, as long as it  *)
(* is not disturbed: the store changes by submissions, withdrawals, ends   *)
(* of jobs, and by the Update of a goroutine that holds a reservation. The *)
(* invariant QuotaInv says that the quota has room after such an Update.   *)
(***************************************************************************)
EXTENDS QuotaProofs

\* The process is never restarted and no reply of an Update is lost.
NoFaults == Limits["restart"] = 0 /\ Limits["lostReply"] = 0

\* Nor does a key get another Spec.Resource.
Undisturbed == NoFaults /\ Limits["resize"] = 0

QueuedUnits == {u \in Units : IsQueued(api, u)}

\* The Update of goroutine s makes u Dequeued.
DequeueOf(s, u) ==
  /\ Holds(s, u)
  /\ u \in QueuedUnits
  /\ QueuedUnits' = QueuedUnits \ {u}
  /\ DequeuedUnits' = DequeuedUnits \cup {u}

\* What a step of the process does to the waiting and the running units.
StoreStep ==
  \/ UNCHANGED <<QueuedUnits, DequeuedUnits>>
  \/ \E u \in Units :
       Admission!Submit(u) \/ Admission!Withdraw(u) \/ Admission!End(u)
  \/ \E s \in Workers, u \in Units : DequeueOf(s, u)

----------------------------------------------------------------------------

\* A step that leaves the stored units alone.
LEMMA StoreFrame ==
  ASSUME UNCHANGED api
  PROVE  StoreStep
BY DEF StoreStep, QueuedUnits, DequeuedUnits, IsQueued, IsDequeued

\* A unit that is deleted, waiting or running.
LEMMA StoreDrop ==
  ASSUME NEW u \in Units, u \in DOMAIN api, api' = Drop(api, u)
  PROVE  StoreStep
<1>1. \A v \in Units : /\ IsQueued(api', v) <=> v # u /\ IsQueued(api, v)
                       /\ IsDequeued(api', v) <=> v # u /\ IsDequeued(api, v)
  BY DEF Drop, IsQueued, IsDequeued
<1>2. QueuedUnits' = QueuedUnits \ {u} /\ DequeuedUnits' = DequeuedUnits \ {u}
  BY <1>1 DEF QueuedUnits, DequeuedUnits
<1>3. CASE IsQueued(api, u)
  <2>1. u \in QueuedUnits /\ UNCHANGED DequeuedUnits
    BY <1>2, <1>3 DEF QueuedUnits, DequeuedUnits, IsQueued, IsDequeued
  <2>2. Admission!Withdraw(u)
    BY <1>2, <2>1 DEF Admission!Withdraw, QueuedUnits
  <2>3. QED
    BY <2>2 DEF StoreStep
<1>4. CASE IsDequeued(api, u)
  <2>1. u \in DequeuedUnits /\ UNCHANGED QueuedUnits
    BY <1>2, <1>4 DEF QueuedUnits, DequeuedUnits, IsQueued, IsDequeued
  <2>2. Admission!End(u)
    BY <1>2, <2>1 DEF Admission!End, QueuedUnits
  <2>3. QED
    BY <2>2 DEF StoreStep
<1>5. QED
  BY <1>3, <1>4 DEF IsQueued, IsDequeued

\* The clients.
LEMMA ClientStore ==
  ASSUME ApiTypeOK, Clients
  PROVE  StoreStep
<1>1. ASSUME NEW u \in Units, NEW spec \in Specs, CreateUnit(u, spec)
      PROVE  StoreStep
  <2> DEFINE o == [phase |-> "Enqueued", spec |-> spec]
  <2>0. o.phase = "Enqueued"
    OBVIOUS
  <2>1. u \notin DOMAIN api /\ api' = Put(api, u, o)
    BY <1>1 DEF CreateUnit, Write
  <2> HIDE DEF o
  <2>2. \A v \in Units : /\ IsQueued(api', v) <=> v = u \/ IsQueued(api, v)
                         /\ IsDequeued(api', v) <=> IsDequeued(api, v)
    BY <2>0, <2>1 DEF Put, IsQueued, IsDequeued
  <2>3. /\ QueuedUnits' = QueuedUnits \cup {u} /\ DequeuedUnits' = DequeuedUnits
        /\ u \notin QueuedUnits \cup DequeuedUnits
    BY <2>1, <2>2 DEF QueuedUnits, DequeuedUnits, IsQueued, IsDequeued
  <2>4. Admission!Submit(u)
    BY <2>3 DEF Admission!Submit, QueuedUnits
  <2>5. QED
    BY <2>4 DEF StoreStep
<1>2. ASSUME NEW u \in Units, NEW p \in Priorities, UpdateUnit(u, p)
      PROVE  StoreStep
  <2> DEFINE spec == [api[u].spec EXCEPT !.priority = p]
  <2>1. /\ u \in DOMAIN api /\ api[u] \in Objs
        /\ api' = [api EXCEPT ![u].spec = spec]
    BY <1>2, StoredType DEF UpdateUnit, Write, IsQueued, ApiTypeOK
  <2> HIDE DEF spec
  <2>2. api'[u].phase = api[u].phase
    BY <2>1 DEF Objs
  <2>3. DOMAIN api' = DOMAIN api /\ \A v \in DOMAIN api : v # u => api'[v] = api[v]
    BY <2>1
  <2>4. \A v \in Units : /\ IsQueued(api', v) <=> IsQueued(api, v)
                         /\ IsDequeued(api', v) <=> IsDequeued(api, v)
    BY <2>2, <2>3 DEF IsQueued, IsDequeued
  <2>5. QED
    BY <2>4 DEF StoreStep, QueuedUnits, DequeuedUnits
<1>3. ASSUME NEW u \in Units, DeleteUnit(u) \/ FinishUnit(u) \/ DeleteUnitUnseen(u)
      PROVE  StoreStep
  <2>1. u \in DOMAIN api /\ api' = Drop(api, u)
    BY <1>3 DEF DeleteUnit, FinishUnit, DeleteUnitUnseen, Write, IsQueued, IsDequeued
  <2>2. QED
    BY <2>1, StoreDrop
<1>4. ASSUME NEW u \in Units, RelistMissing(u) PROVE StoreStep
  BY <1>4, StoreFrame DEF RelistMissing
<1>5. ASSUME NEW q \in QueueObjects, CreateQueue(q) \/ TouchQueue(q) \/ RemoveQueue(q)
      PROVE  StoreStep
  BY <1>5, StoreFrame DEF CreateQueue, TouchQueue, RemoveQueue, unitVars
<1>6. QED
  BY <1>1, <1>2, <1>3, <1>4, <1>5 DEF Clients

\* The Update of a goroutine.
LEMMA UpdateStore ==
  ASSUME ApiTypeOK, SchedTypeOK, NEW s \in Workers, DequeueUpdate(s)
  PROVE  StoreStep
<1>1. PICK u \in Units : u = UnitOf(s) /\ goroutines[s].pc = "update"
  BY GoroutineAt DEF DequeueUpdate
<1>2. \/ UNCHANGED api
      \/ /\ ~IsDequeued(api, u)
         /\ api' = [api EXCEPT ![u].phase = "Dequeued"]
  BY <1>1 DEF DequeueUpdate, SetDequeued, NoWrite, Write
<1>3. CASE UNCHANGED api
  BY <1>3, StoreFrame
<1>4. CASE /\ ~IsDequeued(api, u)
           /\ api' = [api EXCEPT ![u].phase = "Dequeued"]
           /\ u \in DOMAIN api
  <2>1. api[u] \in Objs
    BY <1>4, StoredType DEF ApiTypeOK
  <2>2. api'[u].phase = "Dequeued"
    BY <1>4, <2>1 DEF Objs
  <2>3. DOMAIN api' = DOMAIN api /\ \A v \in DOMAIN api : v # u => api'[v] = api[v]
    BY <1>4
  <2>4. \A v \in Units : /\ IsQueued(api', v) <=> v # u /\ IsQueued(api, v)
                         /\ IsDequeued(api', v) <=> v = u \/ IsDequeued(api, v)
    BY <1>4, <2>2, <2>3 DEF IsQueued, IsDequeued
  <2>5. u \in QueuedUnits
    BY <1>4 DEF QueuedUnits, IsQueued, IsDequeued
  <2>6. /\ QueuedUnits' = QueuedUnits \ {u}
        /\ DequeuedUnits' = DequeuedUnits \cup {u}
    BY <2>4 DEF QueuedUnits, DequeuedUnits
  <2>7. Holds(s, u)
    BY <1>1 DEF Holds, UnitOf
  <2>8. QED
    BY <2>5, <2>6, <2>7 DEF StoreStep, DequeueOf
<1>5. CASE u \notin DOMAIN api /\ api' = [api EXCEPT ![u].phase = "Dequeued"]
  <2>1. UNCHANGED api
    <3>1. api \in [DOMAIN api -> Objs]
      BY MapsToDef DEF ApiTypeOK
    <3>2. QED
      BY <1>5, <3>1
  <2>2. QED
    BY <2>1, StoreFrame
<1>6. QED
  BY <1>2, <1>3, <1>4, <1>5

\* Nothing else writes the stored units; a restart reads them.
LEMMA NextStore ==
  ASSUME TypeOK, [Next]_vars
  PROVE  StoreStep
<1>1. ApiTypeOK /\ SchedTypeOK
  BY DEF TypeOK
<1>2. CASE ClientStep
  BY <1>1, <1>2, ClientStore DEF ClientStep
<1>3. CASE UnitHandler
  <2>1. UNCHANGED api
    BY <1>3 DEF UnitHandler, GetQueueByName, AddQueueUnit, UpdateQueueUnit,
                DeleteQueueUnit, UnitHandled
  <2>2. QED
    BY <2>1, StoreFrame
<1>4. CASE DequeuedHandler
  <2>1. UNCHANGED api
    BY <1>4 DEF DequeuedHandler, AddDequeuedQueueUnit, DeleteDequeuedQueueUnit,
                DequeuedHandled
  <2>2. QED
    BY <2>1, StoreFrame
<1>5. CASE QueueHandler
  <2>1. UNCHANGED api
    BY <1>5 DEF QueueHandler, AddQueue, UpdateQueue, DeleteQueue, QueueHandled, unitVars
  <2>2. QED
    BY <2>1, StoreFrame
<1>6. CASE Schedule
  <2>1. UNCHANGED api
    BY <1>6 DEF Schedule, SchedulingLoop, SortedQueue, Length, Pop, FilterSelect,
                FilterCheck, ReserveAndGo, ErrorGet, ErrorAdd, apiVars, unitVars
  <2>2. QED
    BY <2>1, StoreFrame
<1>7. ASSUME NEW s \in Workers, Goroutine(s) PROVE StoreStep
  <2>1. DequeueUpdate(s) \/ UNCHANGED api
    BY <1>7 DEF Goroutine, DequeueGoroutine, DequeueGet, DequeueUnreserve,
                DequeueCallErrorFunc, DequeueErrorGet, DequeueErrorAdd, apiVars, unitVars
  <2>2. QED
    BY <1>1, <2>1, StoreFrame, UpdateStore
<1>8. ASSUME NEW i \in DOMAIN queues, Flush(i) PROVE StoreStep
  BY <1>8, StoreFrame DEF Flush, apiVars, unitVars
<1>9. CASE \/ \E n \in Namespaces : ListResourceQuota(n)
           \/ Restart \/ StayDown \/ UNCHANGED vars
  <2>1. UNCHANGED api
    BY <1>9 DEF ListResourceQuota, Restart, Relist, StayDown, vars, apiVars, unitVars
  <2>2. QED
    BY <2>1, StoreFrame
<1>10. QED
  BY <1>2, <1>3, <1>4, <1>5, <1>6, <1>7, <1>8, <1>9 DEF Next

----------------------------------------------------------------------------
(***************************************************************************)
(* The theorems.                                                           *)
(***************************************************************************)

\* A fault of a kind that the limits rule out never happens.
LEMMA NeverUsed ==
  ASSUME NEW k \in Kinds, Limits[k] = 0
  PROVE  /\ ApiTypeOK /\ LeftBounded => Unused(k)
         /\ ApiTypeOK' /\ LeftBounded' => Unused(k)'
<1>1. ASSUME ApiTypeOK, LeftBounded PROVE Unused(k)
  <2>1. left[k] \in Nat /\ left[k] <= 0
    BY <1>1 DEF ApiTypeOK, LeftBounded
  <2>2. QED
    BY <2>1 DEF Unused
<1>2. ASSUME ApiTypeOK', LeftBounded' PROVE Unused(k)'
  <2>1. left'[k] \in Nat /\ left'[k] <= 0
    BY <1>2 DEF ApiTypeOK, LeftBounded
  <2>2. QED
    BY <2>1 DEF Unused
<1>3. QED
  BY <1>1, <1>2

OwnedInv == TypeOK /\ LeftBounded /\ OwnershipInv

\* Without the two faults every step keeps the ownership of reservations.
LEMMA OwnedNext ==
  ASSUME NoFaults, OwnedInv, [Next]_vars
  PROVE  OwnedInv'
<1>1. TypeOK' /\ LeftBounded'
  BY NextInv, LeftNext DEF OwnedInv
<1>2. NoFaultYet /\ NoFaultYet'
  BY <1>1, NeverUsed, TypeParts DEF OwnedInv, NoFaults, NoFaultYet, Kinds
<1>3. OwnershipInv'
  BY <1>2, OwnNext DEF OwnedInv
<1>4. QED
  BY <1>1, <1>3 DEF OwnedInv

AdmissionInv == QuotaInv /\ LeftBounded

\* Undisturbed, every step keeps the ledger within the quota.
LEMMA UndisturbedNext ==
  ASSUME SameNamespace, Undisturbed, AdmissionInv, [Next]_vars
  PROVE  AdmissionInv'
<1>1. TypeOK /\ TypeOK' /\ LeftBounded'
  BY NextInv, LeftNext DEF AdmissionInv, QuotaInv
<1>2. Quiet /\ Quiet'
  BY <1>1, NeverUsed, TypeParts
     DEF AdmissionInv, NoFaults, Undisturbed, Quiet, NoFaultYet, Kinds
<1>3. QED
  BY <1>1, <1>2, QuotaNext DEF AdmissionInv

\* A Dequeue happens under a reservation.
LEMMA DequeueReservedStep ==
  ASSUME OwnershipInv, StoreStep, NEW u \in Units,
         ~IsDequeued(api, u), IsDequeued(api', u)
  PROVE  u \in quRecord
<1>1. HoldsAlone
  BY DEF OwnershipInv
<1>2. u \notin DequeuedUnits /\ u \in DequeuedUnits'
  BY DEF DequeuedUnits
<1>3. PICK s \in Workers, v \in Units : DequeueOf(s, v)
  BY <1>2 DEF StoreStep, Admission!Submit, Admission!Withdraw, Admission!End
<1>4. v = u /\ Holds(s, u)
  BY <1>2, <1>3 DEF DequeueOf
<1>5. QED
  BY <1>1, <1>4 DEF HoldsAlone

\* A step that changes the store is a step of Admission.
LEMMA AdmissionStep ==
  ASSUME Room(DequeuedUnits)', StoreStep
  PROVE  [Admission!Next]_<<QueuedUnits, DequeuedUnits>>
<1>1. CASE UNCHANGED <<QueuedUnits, DequeuedUnits>>
  BY <1>1
<1>2. ASSUME NEW u \in Units,
             Admission!Submit(u) \/ Admission!Withdraw(u) \/ Admission!End(u)
      PROVE  Admission!Next
  BY <1>2 DEF Admission!Next
<1>3. ASSUME NEW s \in Workers, NEW u \in Units, DequeueOf(s, u)
      PROVE  Admission!Next
  <2>1. Room(DequeuedUnits')
    BY DEF Room, WithinQuota
  <2>2. Room(DequeuedUnits \cup {u})
    BY <1>3, <2>1 DEF DequeueOf
  <2>3. Admission!Admit(u)
    BY <1>3, <2>2 DEF Admission!Admit, DequeueOf, QueuedUnits
  <2>4. QED
    BY <2>3 DEF Admission!Next
<1>4. QED
  BY <1>1, <1>2, <1>3 DEF StoreStep

\* A unit becomes Dequeued only while the ledger holds a reservation for it, in
\* every interleaving of handlers, scheduler, goroutines and clients, whatever the
\* copies request and the quotas are (scheduler.go, schedule: Reserve comes before
\* Dequeue; eventhandler.go, DeleteDequeuedQueueUnit).
THEOREM DequeueIsReserved ==
  ASSUME NoFaults
  PROVE  Spec \/ ReadySpec => DequeueReserved
<1>1. Init \/ Ready => OwnedInv
  BY SpecsInit, OwnInit DEF OwnedInv
<1>2. OwnedInv /\ [Next]_vars => OwnedInv'
  BY OwnedNext
<1>3. OwnedInv /\ [Next]_vars =>
        [\A u \in Units : ~IsDequeued(api, u) /\ IsDequeued(api', u) => u \in quRecord]_vars
  BY NextStore, DequeueReservedStep DEF OwnedInv
<1>4. QED
  BY <1>1, <1>2, <1>3, PTL DEF Spec, ReadySpec, DequeueReserved

\* The process implements Admission: seen from the API server it submits,
\* withdraws, ends, and admits only what the quota has room for next to the units
\* that run (scheduler.go, schedule and Dequeue; resource_quota.go, Filter).  A
\* process whose lister is still being filled does so if no namespace has two
\* quotas.
THEOREM Refinement ==
  ASSUME SameNamespace, Undisturbed
  PROVE  (SingleQuota /\ Spec) \/ ReadySpec => ImplementsAdmission
<1>1. (SingleQuota /\ Init) \/ Ready => AdmissionInv
  BY QuotaInit, SpecsInit DEF AdmissionInv
<1>2. AdmissionInv /\ [Next]_vars => AdmissionInv'
  BY UndisturbedNext
<1>3. Init \/ Ready => Admission!Init
  BY DEF Init, Ready, ApiInit, EmptyMap, Admission!Init, DequeuedUnits, IsQueued, IsDequeued
<1>4. AdmissionInv /\ AdmissionInv' /\ [Next]_vars =>
        [Admission!Next]_<<QueuedUnits, DequeuedUnits>>
  <2>1. AdmissionInv => Room(DequeuedUnits)
    BY QuotaInvImplies DEF AdmissionInv
  <2>2. AdmissionInv' => Room(DequeuedUnits)'
    BY <2>1, PTL
  <2>3. QED
    BY <2>2, NextStore, AdmissionStep DEF AdmissionInv, QuotaInv
<1>5. QED
  BY <1>1, <1>2, <1>3, <1>4, PTL
     DEF Spec, ReadySpec, ImplementsAdmission, Admission!Spec, QueuedUnits
============================================================================
