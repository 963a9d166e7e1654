----------------------------- MODULE KubeQueue -----------------------------
(***************************************************************************)
(* The kube-queue process: the controller's event handlers                 *)
(* (pkg/controller), the scheduler, the queues and the ResourceQuota       *)
(* plugin, running against the API server and its informers, with crashes  *)
(* and restarts of the process.                                            *)
(***************************************************************************)
EXTENDS Scheduler

VARIABLE found  \* the queue the unit handler has looked up for its event

vars == <<apiVars, rqVars, mqVars, schedVars, found>>

NoQueue == 0

Init == ApiInit /\ RQInit /\ MQInit /\ SchedInit /\ found = NoQueue

----------------------------------------------------------------------------
(***************************************************************************)
(* The handlers.  Each takes the oldest event of its own FIFO.             *)
(***************************************************************************)
Take(fifo, op) == Running /\ fifo # << >> /\ Head(fifo).op = op

\* First step of the handlers for units that are not Dequeued: find the queue
\* of the ConsumerRef.Namespace.  An event for an unknown queue is dropped.
GetQueueByName ==
  /\ Running /\ unitEvents # << >> /\ found = NoQueue
  /\ LET n == ConsumerNs[Head(unitEvents).unit]
     IN  IF n \in DOMAIN queueMap
         THEN found' = queueMap[n] /\ UNCHANGED unitEvents
         ELSE unitEvents' = Tail(unitEvents) /\ UNCHANGED found
  /\ UNCHANGED <<api, unseen, current, dequeuedEvents, queueVars, left, rqVars,
                 mqVars, schedVars>>

\* Second step, under the lock of the queue that was found: it becomes pq.
UnitHandled(pq) ==
  /\ SetQueue(found, pq)
  /\ found' = NoQueue
  /\ unitEvents' = Tail(unitEvents)
  /\ UNCHANGED <<api, unseen, current, dequeuedEvents, queueVars, left, rqVars,
                 schedVars>>

AddQueueUnit ==
  /\ Take(unitEvents, "Add") /\ found # NoQueue
  /\ LET e == Head(unitEvents)
     IN  UnitHandled(SQAdd(queues[found], e.unit, e.spec))

UpdateQueueUnit ==
  /\ Take(unitEvents, "Update") /\ found # NoQueue
  /\ LET e == Head(unitEvents)
     IN  UnitHandled(SQUpdate(queues[found], e.unit, e.spec))

DeleteQueueUnit ==
  /\ Take(unitEvents, "Delete") /\ found # NoQueue
  /\ UnitHandled(SQDelete(queues[found], Head(unitEvents).unit))

DequeuedHandled ==
  /\ dequeuedEvents' = Tail(dequeuedEvents)
  /\ UNCHANGED <<api, unseen, current, unitEvents, queueVars, left, mqVars,
                 schedVars, found>>

\* The status of Reserve is ignored.
AddDequeuedQueueUnit ==
  /\ Take(dequeuedEvents, "Add")
  /\ LET e == Head(dequeuedEvents)
     IN  Reserve(e.unit, e.spec.resource) \/ ReserveFails(e.unit)
  /\ DequeuedHandled

\* Mutant of DeleteDequeuedQueueUnit: the reservation is kept.
DeleteDequeuedNoUnreserve ==
  /\ Take(dequeuedEvents, "Delete")
  /\ UNCHANGED rqVars
  /\ DequeuedHandled

DeleteDequeuedQueueUnit ==
  /\ Take(dequeuedEvents, "Delete")
  /\ LET e == Head(dequeuedEvents) IN Unreserve(e.unit, e.spec.resource)
  /\ DequeuedHandled

QueueHandled ==
  /\ queueEvents' = Tail(queueEvents)
  /\ UNCHANGED <<apiQueues, unitVars, left, rqVars, schedVars, found>>

AddQueue ==
  /\ Take(queueEvents, "Add")
  /\ MQAdd(Head(queueEvents).queue)
  /\ QueueHandled

UpdateQueue ==
  /\ Take(queueEvents, "Update")
  /\ MQUpdate(Head(queueEvents).queue)
  /\ QueueHandled

DeleteQueue ==
  /\ Take(queueEvents, "Delete")
  /\ MQDelete(Head(queueEvents).queue)
  /\ QueueHandled

UnitHandler     == GetQueueByName \/ AddQueueUnit \/ UpdateQueueUnit \/ DeleteQueueUnit
DequeuedHandler == AddDequeuedQueueUnit \/ DeleteDequeuedQueueUnit
QueueHandler    == AddQueue \/ UpdateQueue \/ DeleteQueue

----------------------------------------------------------------------------

Flush(i) ==
  /\ Running
  /\ FlushBackoffQCompleted(i)
  /\ UNCHANGED <<apiVars, rqVars, schedVars, found>>

\* The ResourceQuota informer, started last in app.Run, fills its lister with one
\* object after the other; nobody waits until it has them all.
ListResourceQuota(n) ==
  /\ Running
  /\ \E q \in Quotas[n] \ listed[n] : listed' = [listed EXCEPT ![n] = @ \cup {q}]
  /\ UNCHANGED <<apiVars, rqVars, mqVars, sched, goroutines, found>>

Schedule == SchedulingLoop /\ UNCHANGED found

Goroutine(s) == DequeueGoroutine(s) /\ UNCHANGED found

ClientStep == Clients /\ UNCHANGED <<rqVars, mqVars, schedVars, found>>

\* The process died, by a panic or otherwise, and NewController starts over:
\* nothing but the API server's store survives.
Restart ==
  /\ Spend({"restart"})
  /\ Relist
  /\ reserved' = EmptyMap /\ quRecord' = {}
  /\ queues' = << >> /\ queueMap' = EmptyMap
  /\ sched' = NewCycle
  /\ goroutines' = [s \in Workers |-> Idle]
  /\ listed' = [n \in Namespaces |-> {}]
  /\ found' = NoQueue

\* Bound: a process that panics when no restart is left stays down.
StayDown == At("panic") /\ left["restart"] = 0 /\ UNCHANGED vars

Next ==
  \/ ClientStep
  \/ UnitHandler \/ DequeuedHandler \/ QueueHandler
  \/ Schedule
  \/ \E s \in Workers : Goroutine(s)
  \/ \E i \in DOMAIN queues : Flush(i)
  \/ \E n \in Namespaces : ListResourceQuota(n)
  \/ Restart \/ StayDown

Spec == Init /\ [][Next]_vars

(***************************************************************************)
(* The same system from the moment it is up: every Queue object has been   *)
(* added, in some order, and the ResourceQuota lister is filled.           *)
(***************************************************************************)
Ready ==
  /\ apiQueues = QueueObjects
  /\ \E s \in SetToSeqs(QueueObjects) :
       /\ queues = [i \in DOMAIN s |->
                      [NewPrioritySchedulingQueue(s[i]) EXCEPT !.run = TRUE]]
       /\ queueMap = [n \in {QueueNs[q] : q \in QueueObjects} |->
                        CHOOSE i \in DOMAIN s : QueueNs[s[i]] = n]
  /\ api = EmptyMap /\ unseen = EmptyMap
  /\ current = [u \in Units |-> {}]
  /\ unitEvents = << >> /\ dequeuedEvents = << >> /\ queueEvents = << >>
  /\ left = Limits
  /\ RQInit
  /\ sched = NewCycle
  /\ goroutines = [s \in Workers |-> Idle]
  /\ listed = [n \in Namespaces |-> Quotas[n]]
  /\ found = NoQueue

ReadySpec == Ready /\ [][Next]_vars

----------------------------------------------------------------------------
Objs == [phase : {"Enqueued", "Dequeued"}, spec : Specs]

UnitEvent == [op : {"Add", "Update", "Delete"}, unit : Units, spec : Specs]
DequeuedEvent == [op : {"Add", "Delete"}, unit : Units, spec : Specs]
QEvent == [op : {"Add", "Update", "Delete"}, queue : QueueObjects]

ApiTypeOK ==
  /\ api \in MapsTo(Units, Objs)
  /\ unseen \in MapsTo(Units, Objs)
  /\ current \in [Units -> SUBSET Workers]
  /\ unitEvents \in Seq(UnitEvent)
  /\ dequeuedEvents \in Seq(DequeuedEvent)
  /\ apiQueues \in SUBSET QueueObjects
  /\ queueEvents \in Seq(QEvent)
  /\ left \in [Kinds -> Nat]

SpecMap == MapsTo(Units, Specs)

QueueType == [name : Namespaces, priority : Int, items : SpecMap,
              backoffQ : SpecMap, run : BOOLEAN]

MQTypeOK ==
  /\ queues \in Seq(QueueType)
  /\ queueMap \in MapsTo(Namespaces, DOMAIN queues)
  /\ found \in {NoQueue} \cup DOMAIN queues

QuotaObjects == UNION {Quotas[n] : n \in Namespaces}

\* The scheduling loop has a queue to look at, and a unit, where it reads them.
LoopState(D) ==
  {c \in [pc : {"sort", "length", "pop", "filter", "check", "reserve",
                "errget", "erradd", "panic"},
          rest : Seq(D), unit : Units \cup {NoUnit}, spec : Specs,
          basket : SUBSET QuotaObjects, todo : SUBSET Resources] :
     /\ c.rest = << >> <=> c.pc \in {"sort", "panic"}
     /\ c.unit = NoUnit <=> c.pc \in {"sort", "length", "pop", "panic"}}

\* A goroutine in ErrorFunc has read the variable q.
GoroutineState(D) ==
  {g \in [pc : {"idle", "get", "update", "unreserve", "call", "errget", "erradd"},
          unit : Units \cup {NoUnit}, spec : Specs,
          queue : {LoopVariable} \cup D] :
     /\ g.unit = NoUnit <=> g.pc = "idle"
     /\ g.queue = LoopVariable => g.pc \notin {"errget", "erradd"}}

\* The last conjunct: a closure shares q only with a cycle in progress.
SchedTypeOK ==
  /\ sched \in LoopState(DOMAIN queues)
  /\ goroutines \in [Workers -> GoroutineState(DOMAIN queues)]
  /\ sched.pc = "sort" => \A s \in Workers :
       goroutines[s].queue = LoopVariable => goroutines[s].pc = "idle"

\* The type invariant, with what makes every pointer valid: the scheduler is at a
\* queue whenever it or one of its closures reads q (scheduler.go, schedule).
TypeOK ==
  /\ ApiTypeOK
  /\ RQTypeOK
  /\ MQTypeOK
  /\ SchedTypeOK
  /\ listed \in [Namespaces -> SUBSET QuotaObjects]

----------------------------------------------------------------------------
(***************************************************************************)
(* Safety.                                                                 *)
(***************************************************************************)

\* No fault of this kind has happened yet.
Unused(kind) == left[kind] = Limits[kind]

\* Goroutine s works on the reservation of u and has not given it back.
Holds(s, u) == /\ goroutines[s].unit = u
               /\ goroutines[s].pc \in {"get", "update", "unreserve"}

DequeuedEventPending(u) ==
  \E i \in DOMAIN dequeuedEvents : dequeuedEvents[i].unit = u

\* No reservation is left behind: a unit holds one only while it is Dequeued,
\* while a goroutine is about to dequeue it or to give the reservation back, or
\* while an event that settles it is on its way (scheduler.go, Dequeue and the
\* goroutine around it; eventhandler.go, the handlers for Dequeued units).  It
\* holds until the watch misses a delete, also across restarts.
ReservationJustified ==
  Unused("missedDelete") =>
    \A u \in quRecord : \/ IsDequeued(api, u)
                         \/ DequeuedEventPending(u)
                         \/ \E s \in Workers : Holds(s, u)

DequeuedUnits == {u \in Units : IsDequeued(api, u)}

\* The ledger is exact: what is reserved is the sum of what the recorded units
\* request.  Reserve adds at most once per key, Unreserve takes back exactly what
\* was added (its clamp at zero never hides a deficit), and its "no such
\* namespace" return never leaves a record behind (resource_quota.go).  It holds
\* until a key gets another Spec.Resource: Unreserve may then be given another
\* copy than Reserve was.
LedgerExactUntilResize == Unused("resize") => ReservedIsSum

\* What the stored units request.
Stored == [u \in DOMAIN api |-> api[u].spec.resource]

\* The units that are Dequeued at the API server never request more than the
\* hard limit of the quota Filter checks against (resource_quota.go, Filter:
\* "returns Status with success if there are enough resource left").
QuotaRespected == WithinQuota(DequeuedUnits, Stored)

\* Only a restart, a lost reply or a key that gets another Spec.Resource can lead
\* beyond the quota: with failing calls, missed deletes, units re-created as they
\* were and changing queues the ledger is too strict at worst.
QuotaUntilDisturbed ==
  Unused("restart") /\ Unused("lostReply") /\ Unused("resize") => QuotaRespected

\* What kube-queue promises, without its queues, ledger and goroutines: a unit is
\* admitted only while the quota has room for it next to the units that run.
\* The promise is about units that request Demand[u], that is, for limits that
\* allow no "resize".
Room(S) == WithinQuota(S, Demand)

Admission == INSTANCE Admission WITH
               waiting <- {u \in Units : IsQueued(api, u)},
               running <- DequeuedUnits

\* The whole process implements that promise: seen from the API server, its
\* steps are submissions, withdrawals, ends of jobs and admissions the quota has
\* room for (scheduler.go, schedule and Dequeue; resource_quota.go, Filter).
ImplementsAdmission == Admission!Spec

\* A unit becomes Dequeued only while the ledger holds a reservation for it:
\* between Reserve and the Update of its goroutine no handler and no other
\* goroutine gives that reservation back (scheduler.go, schedule: Reserve comes
\* before Dequeue; eventhandler.go, DeleteDequeuedQueueUnit).
DequeueReserved ==
  [][\A u \in Units : ~IsDequeued(api, u) /\ IsDequeued(api', u)
                         => u \in quRecord]_vars

InQueue(u) == \E i \in Registered : u \in Waiting(queues[i])

InHand(u) == sched.unit = u \/ \E s \in Workers : goroutines[s].unit = u

AddPending(u) == \E i \in DOMAIN unitEvents :
                   unitEvents[i].unit = u /\ unitEvents[i].op = "Add"

\* A unit that waits at the API server, and whose queue exists there, is never
\* forgotten: it is in a queue the scheduler visits, or in the hands of the
\* scheduler or of a goroutine that may put it back, or the event that adds it
\* is still to be handled (eventhandler.go, AddQueueUnit; scheduler.go,
\* ErrorFunc; doc/queueunit.md: "After the `QueueUnit` is created, it is added
\* to the queue").
NoUnitLost ==
  \A u \in Units :
    IsQueued(api, u) /\ (\E q \in apiQueues : QueueNs[q] = ConsumerNs[u])
      => InQueue(u) \/ InHand(u) \/ AddPending(u)

\* A unit waits only in the queue of its ConsumerRef.Namespace, where the
\* handlers look for it (eventhandler.go: "Namespace is key of queueMap").
UnitsInOwnQueue ==
  \A i \in Registered : \A u \in Waiting(queues[i]) :
    ConsumerNs[u] = queues[i].name

\* The scheduler never pops an empty heap (scheduler.go, Length then Pop).
NoPanic == Running

UnitEventPending(u) == \E i \in DOMAIN unitEvents : unitEvents[i].unit = u

\* When every event of a unit has been handled, its queue sorts it by the
\* priority it has at the API server (README.md: "Support dynamic adjustment of
\* job priority in queue").
PriorityAdjusted ==
  \A u \in Units : IsQueued(api, u) /\ ~UnitEventPending(u) =>
    \A i \in Registered :
      \A copies \in {queues[i].items, queues[i].backoffQ} :
        u \in DOMAIN copies => copies[u].priority = api[u].spec.priority

----------------------------------------------------------------------------
(***************************************************************************)
(* Liveness.  Every goroutine of the process is scheduled by the Go        *)
(* runtime.  A backoff that has started ends (FlushOf): its completion     *)
(* time is fixed.  A unit is not passed over for ever by units of its own  *)
(* priority (PopOf): a unit that failed stays in backoff for a second or   *)
(* more, while the busy loop of the scheduler empties the queue.           *)
(***************************************************************************)
QueueIndices == 1 .. (Limits["queueWrite"] + Cardinality(QueueObjects))

FlushOf(i, u) ==
  /\ i \in DOMAIN queues
  /\ u \in DOMAIN queues[i].backoffQ
  /\ Flush(i)
  /\ u \notin DOMAIN queues'[i].backoffQ

PopOf(u) == Pop /\ sched'.unit = u /\ UNCHANGED found

Fairness ==
  /\ WF_vars(UnitHandler) /\ WF_vars(DequeuedHandler) /\ WF_vars(QueueHandler)
  /\ WF_vars(Schedule)
  /\ \A s \in Workers : WF_vars(Goroutine(s))
  /\ \A u \in Units : /\ SF_vars(PopOf(u))
                        /\ \A i \in QueueIndices : WF_vars(FlushOf(i, u))
  /\ \A n \in Namespaces : WF_vars(ListResourceQuota(n))

\* Jobs end, and their units are deleted.
JobsEnd ==
  \A u \in Units :
    WF_vars(FinishUnit(u) /\ UNCHANGED <<rqVars, mqVars, schedVars, found>>)

FairReadySpec == ReadySpec /\ Fairness /\ JobsEnd

\* Every unit that waits is dequeued in the end, or withdrawn, although only one
\* of them fits the quota at a time (README.md, 5.2: when job1 is Succeeded "Job2
\* will continue to run"); a panic ends the guarantee.
EventuallyDequeued ==
  \A u \in Units : IsQueued(api, u) ~> ~IsQueued(api, u) \/ ~Running

\* What is left of a deleted unit, its reservation and its copy in a queue or in
\* somebody's hands, disappears, whatever the goroutines and handlers were doing at
\* the time: nobody puts it back for ever.
DeletedUnitsVanish ==
  \A u \in Units : u \notin DOMAIN api ~>
    (u \notin quRecord /\ ~InQueue(u) /\ ~InHand(u)) \/ u \in DOMAIN api \/ ~Running
============================================================================
