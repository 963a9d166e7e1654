# A verification of kube-queue

kube-queue holds jobs back in a Kubernetes cluster until there is quota for
them.  Every job has a `QueueUnit` custom resource.  A unit waits in the queue
of its namespace until the scheduler finds room for it in the namespace's
`ResourceQuota`; then the scheduler sets its phase to `Dequeued`, and the job's
operator starts the pods.

This directory holds TLA+ modules for that system, translated from the Go code
under `pkg/` and `cmd/`, TLC configurations that check them on small instances,
and TLAPS proofs.

## 1. Inventory

| component | state | operations | who calls it |
|---|---|---|---|
| event handlers (`pkg/controller`) | none of their own; one FIFO per handler in the informer | `AddQueueUnit`, `UpdateQueueUnit`, `DeleteQueueUnit` (units that are not Dequeued); `AddDequeuedQueueUnit`, `DeleteDequeuedQueueUnit`; `AddQueue`, `UpdateQueue`, `DeleteQueue` | three informer goroutines |
| `MultiSchedulingQueue` | `queueMap`: namespace to queue | `Add`, `Update`, `Delete`, `Run`, `GetQueueByName`, `SortedQueue` | queue handler, unit handler, scheduler |
| `PrioritySchedulingQueue` | `items` and `backoffQ`, two heaps; `run` | `Add`, `Update`, `Delete`, `AddUnschedulableIfNotPresent`, `Pop`, `Length`, `flushBackoffQCompleted` | unit handler, scheduler, dequeue goroutines, its own flush loop |
| `Heap` | key array, map from key to object and index | `Add`, `Update`, `Delete`, `Pop`, `Peek`, `Get` | the queue, under its lock |
| `Priority` plugin | none | `QueueLess`, `MultiQueueLess` | heap, `SortedQueue` |
| `ResourceQuota` plugin | `reserved`, `quRecord` | `Filter`, `Reserve`, `Unreserve` | scheduler, dequeue goroutines, handlers of Dequeued units |
| scheduler (`pkg/scheduler`) | the cycle in progress | `schedule`, `Dequeue`, `ErrorFunc` | one loop; one goroutine per reserved unit |
| framework, registries, options, `cmd` | plugin lists, flags | wiring | start-up |
| API server, informers, clients (outside) | stored objects, resource versions, undelivered events | create, update, delete, watch, relist | everybody |

The parts share state through pointers and locks, not messages: the scheduler
keeps pointers to queue objects that a handler may have replaced, the goroutine
of a reserved unit shares the loop variable of the cycle that started it, and
four kinds of goroutines write the ledger of the `ResourceQuota` plugin.

What is hard here, and what therefore the properties are about:

* *concurrency*: every lock and every API call is a place where another
  goroutine comes in: between `Length` and `Pop`, between `Filter` and
  `Reserve`, between `Reserve`, `Get` and `Update`, between `ErrorFunc`'s `Get`
  and its add, between `GetQueueByName` and the operation on the queue found;
* *ordering*: unit events, Dequeued-unit events and queue events arrive in any
  relative order, and a unit may be deleted and created again under the same
  key, with another `Spec.Resource` too, while an older copy of it is in
  somebody's hands;
* *failure*: API calls fail, replies get lost, watches break and miss deletes and
  what follows them, the process dies and rebuilds everything from the informers,
  and schedules while the listers are still being filled;
* *liveness*: a unit that did not fit must come back out of backoff and run when
  the job before it ends.

`PROJECT.json` lists these hazards with the line where each one bites.

What makes each component correct:

* `ResourceQuota`: the ledger is exact; no reservation is left behind; the units
  that run never exceed the quota;
* queues: no waiting unit is forgotten; a unit waits in its own queue, at its
  current priority; backoff is honoured, and no unit stays in it longer;
* scheduler: it does not crash; it dequeues a unit only under a reservation;
  every unit is dequeued in the end;
* the whole: seen from the API server it is the simple machine of `Admission`.

## 2. Modules

| module | models | main correspondence |
|---|---|---|
| `Maps` | Go maps | a map is a function whose domain is the set of keys present |
| `Objects` | the custom resources | keys of units, queues, quotas as constants; a copy of a unit carries its `Specs` (priority, resource list); `Load`: what a set of units requests |
| `ResourceQuota` | `plugins/resourcequota` | `reserved`, `quRecord`; `Reserve`, `Unreserve`, the parts of `Filter`, each for the copy it is given |
| `LeastMap` | what the queues expect of a heap | a map of which a least object can be taken |
| `Heap` | `pkg/queue/heap` | `queue`, `items` with their indices; one step per iteration of a sift loop of `container/heap` |
| `SchedulingQueue` | the interface `SchedulingQueue` of `pkg/queue` | one queue without time: `SQ...` operators are its methods |
| `PrioritySchedulingQueue` | `pkg/queue/schedulingqueue`, `plugins/priority`, `framework/type.go` | one queue with its clock: `QueueUnitInfo`, attempts, backoff, the two comparators, the flush loop, the policy |
| `MultiSchedulingQueue` | `pkg/queue/multischedulingqueue` | `queues` is the heap of queue objects, an index is a pointer, `queueMap` the map; `MQ...` operators are the methods of the map |
| `ApiServer` | outside: API server, informers, clients | `api`, `unseen` (what the informer does not know to be deleted), `current` (optimistic concurrency), three event FIFOs, the FilterFuncs |
| `Scheduler` | `pkg/scheduler`, `framework/runtime` | `sched` (program counter, rest of the cycle, copy in hand, quota selected by `Filter`), `goroutines` with their copies, `listed` (what the ResourceQuota lister has) |
| `KubeQueue` | `pkg/controller`, `cmd/app/server` | the handlers, restart, `Next`, the properties, fairness |
| `Admission` | the promise to the user | `waiting`, `running`; a unit is admitted only if the quota has room |
| `MCKubeQueue`, `MCPrioritySchedulingQueue`, `MCHeap` | | instances for TLC |
| `ResourceQuotaProofs` | | theorems about the ledger |
| `KubeQueueProofs` | | theorems about the whole process: types, ledger |
| `QuotaProofs` | | the quota is respected |
| `AdmissionProofs` | | the process implements `Admission` |
| `ReservationProofs` | | no reservation is left behind |
| `UnitProofs` | | no waiting unit is forgotten |
| `HeapProofs` | | the heap: indices, order, `LeastMap` |
| `PrioritySchedulingQueueProofs` | | one queue with its clock: backoff, flush, `SchedulingQueue` |

`Scheduler` extends `ResourceQuota`, `MultiSchedulingQueue` and `ApiServer`;
`KubeQueue` extends `Scheduler` and instantiates `Admission`.

The queues are modelled at three levels, each shown to implement the next:
`Heap` implements `LeastMap` (`ImplementsLeastMap`); `PrioritySchedulingQueue`
uses its two heaps as such maps, and does nothing but the operations of
`SchedulingQueue` (`ImplementsTimeless`); `MultiSchedulingQueue` and everything
above it is written with those operations.  So what holds in `KubeQueue` does not
depend on the clock, and `PrioritySchedulingQueue` says when things happen.

How the code becomes actions:

* A step ends where the code releases a lock or makes an API call.  `schedule`
  becomes `SortedQueue`, `Length`, `Pop`, `FilterSelect`, one `FilterCheck` per
  requested resource, `ReserveAndGo`, and `ErrorGet`/`ErrorAdd` for `ErrorFunc`.
  The goroutine is `DequeueGet`, `DequeueUpdate`, `DequeueUnreserve`,
  `DequeueCallErrorFunc`, `DequeueErrorGet`, `DequeueErrorAdd`.  A handler of
  waiting units is `GetQueueByName` followed by its operation; the other
  handlers take one lock and are one step.
* `go.mod` says go 1.14, so all iterations of the loop in `schedule` share one
  variable `q`, and a goroutine reads it when it calls `ErrorFunc`.  The model
  has a goroutine point at the loop variable until it reads it
  (`DequeueCallErrorFunc`) or the cycle ends (`FreezeLoopVariable`).
* `Pop` on an empty heap: `container/heap` swaps elements 0 and -1, and the
  process panics (`sched.pc = "panic"`).  After that only `Restart` can happen.
* The optimistic concurrency of the API server: `current[u]` holds the
  goroutines whose copy of `u` has the newest resourceVersion; every write
  empties it, and an `Update` with an older copy is refused.  Writing what is
  already stored is no change.
* An informer calls each handler from a FIFO of its own; a
  `FilteringResourceEventHandler` turns a phase change into a Delete for one
  handler and an Add for the other (`Filtered`).  It compares the new object with
  the one in the informer's store (`seen`).
* A broken watch.  After `DeleteUnitUnseen` the store still has the unit.  Either
  the relist finds it missing (`RelistMissing`): the handlers get a
  `DeletedFinalStateUnknown`, which every FilterFunc rejects.  Or the key is
  created again first: then `CreateUnit` reaches the handlers as an Update of the
  old unit, or, if that one was Dequeued, as the phase change it looks like.
* `Filter`, `Reserve` and `Unreserve` use the `Spec.Resource` of the copy they are
  given: the popped one, the one of the event, the one the goroutine was started
  with.  `Dequeue` reads the unit afresh and marks whatever it finds under the key.
* The ResourceQuota lister is filled with one object after the other
  (`ListResourceQuota`), and nobody waits for it.
* `Restart` is what `NewController` makes of the stored objects: empty ledger,
  empty queues, one Add event per object and handler in any order.  An API call
  in flight at the crash took effect before it or not at all.

What is abstracted: quantities are natural numbers; a copy of a unit is its
priority and its resource list (labels and the like are updates that keep both).
An update changes only the priority, as `doc/queueunit.md` says; a re-created unit
may have any resource list.  `Demand[u]` is the usual one of a key, and every
creation with another counts as a "resize" in `Limits`, so that properties can say
what holds before the first.  In `KubeQueue`
time is left out, so a flush may move any set of units of the backoff queue, and
units of equal priority leave `items` in any order.  Both are more than the code
does: what is shown holds for every clock.

`PrioritySchedulingQueue` has the clock.  The event handlers call at any time, up
to `MaxWrites` times; a caller pops a unit, and dequeues it or puts it back with
`ErrorFunc`, whose `Get` may take any time after the attempt was counted and
stamped.  The flush loop runs every `FlushPeriod`.  The flush takes the roots of
the backoff heap until one has to wait: `Completed` says so with the heap's own
comparator, so that a comparator that disagrees with the completion time would
leave units behind.  A policy without a sort plugin leaves the comparator of
`items` nil; `PutItems` panics when a heap with such a comparator has to compare.

In `Heap` the lock of the queue is held during a call, so the next call begins
when the last one has returned.  `last` is a history variable: it names the
operation that changed the contents, which lets `LeastMap` say that a `Delete`
removed the key it was given and that a `Pop` took a least one.

## 3. Runs

The runs of `KubeQueue` use two units of which the quota admits one at a time, and
two dequeue goroutines.  The code starts a goroutine for every reserved unit; the
model's are the members of `Workers`, and the scheduler waits for an idle one.
That is enough for the interesting cases: a unit in hand while the other is
queued, running or in backoff; two goroutines at once (for the same key too,
after a re-creation); conflicts.  `Limits` bounds what comes from outside: writes
of units and queues, creations with another `Spec.Resource`, failed calls, lost
replies, missed deletes and missed re-creations, restarts.  Jobs
end without a limit.  Four writes let a unit be created, deleted and created
again while the other unit is in the system.  Symmetry between the units, the
goroutines or the keys is used where the instance treats them alike, in safety
runs only.

| run | shows |
|---|---|
| `core` | no faults, 4 writes, two queues per cycle, two resources, two quota objects: type correctness; no waiting unit is forgotten, also when it landed in the other queue (`NoUnitLost`); no reservation is left behind (`ReservationJustified`); a unit becomes Dequeued only under a reservation (`DequeueReserved`); the process implements `Admission`, although `Filter` takes the lock anew for every resource.  Units are re-created as they were |
| `cold_start` | from an empty process, with 2 writes of units and 2 of queue objects and faults of any two kinds (API error, lost reply, missed delete, missed re-creation, another `Spec.Resource`, crash): the ledger is exact until a `Spec.Resource` changes (`LedgerExactUntilResize`); no reservation is left behind before a delete is missed; the quota is respected before the first crash, lost reply or changed `Spec.Resource` (`QuotaUntilDisturbed`) |
| `queue` | one queue with two units and two priorities, 3 calls of the handlers and 3 seconds in ticks of half a second, initial backoff 1 s, maximum 2.5 s: the backoff is honoured, a completed unit leaves at the next flush whatever waits beside it (`NoOverdueBackoff`), and every step is one of the timeless queue.  `BackoffFormula` compares `calculateBackoffDuration` with the doubling up to the maximum, for initial durations up to 5, maxima up to 20, 7 attempts |
| `heap` | all calls on up to six keys with three ranks: array and index map agree at every moment, the root is least between calls, the heap implements `LeastMap`.  Six is the least number with which `Delete` can move the last element to a branch where it has to go up |
| `liveness` | no faults, 4 writes: waiting units are dequeued; of a deleted unit neither a reservation nor a copy in a queue or in anybody's hands is left in the end |

The clock of `queue` stops at `MaxTime`, where nothing may be left to do, so that
run does not look for deadlocks.  In three seconds a unit can fail, come back, and
fail again with twice the backoff while the other one fails later and is done
earlier: the case in which the order of the backoff heap matters.  `BackoffFormula`
leaves out one combination: with a maximum below the initial duration, the first
attempt waits for the initial duration, although `options.go` calls the other one
the "max duration".  The code caps only while it doubles.

`cold_start` has a constraint, `TwoFaults`: a behaviour is followed until a third
kind of fault has happened.  Each property is lost through one kind, and a second
may come before it; more kinds at once only add states.

Seven runs end in a counterexample: there the code does not do what its
documentation or comments say.

| run | violated | what happens |
|---|---|---|
| `pop_empty` | `NoPanic` | the only unit is deleted between `Length` and `Pop` |
| `queue_replaced` | `NoUnitLost` | any update of a Queue object replaces its queue by an empty one |
| `quota_restart` | `QuotaRespected` | a waiting unit is filtered before the Dequeued ones are reserved again |
| `loop_variable` | `UnitsInOwnQueue` | the goroutine reads `q` after the loop has moved on |
| `stale_priority` | `PriorityAdjusted` | `ErrorFunc` queues a copy older than an update that was already handled |
| `tombstone` | `EventuallyDequeued` | the delete of a Dequeued unit is filtered out, its reservation stays |
| `fifo_policy` | `PolicySupported` | a queue with policy FIFO has no comparator; the second unit added to it panics |

More ways into the same violations are known and have no run of their own.  TLC
finds each of them with the limits named, which `MCKubeQueue` defines, in one of the
configurations above.

* `NoUnitLost` fails when a restart delivers a unit's Add before its queue's (limits
  `Crash`); when `ErrorFunc`'s `Get` fails (one `callError`); and when a unit is
  deleted and created again while the watch is broken, since the queue drops an
  Update of a unit it does not have (limits `MissedCreate`).
* `QuotaRespected` fails when the reply to an `Update` that took effect is lost and
  the goroutine rolls back (three writes, one `lostReply`); when a key is created
  again with a larger `Spec.Resource` while the scheduler or a goroutine holds the
  smaller copy, since `Dequeue` marks the new one (limits `Resize`); and, from
  `Spec`, when a namespace has two quotas of which the lister has only the wrong one:
  `SelectResourceQuota` takes it because it is the only one (quotas `TwoQuotas`).
* `EventuallyDequeued` fails when a Queue object is written (limits `QueueWrite`,
  `FairReadySpec`).  A removed queue takes its units with it; after an update the new
  queue is not run, and a unit that comes into its backoff queue stays there.

So the passing run of `NoUnitLost` says nothing about writes of queues, restarts,
failing calls or broken watches: there the code does lose units.

### Fairness

`Fairness` says that the Go runtime runs every goroutine: the three handlers,
the scheduling loop and each dequeue goroutine are weakly fair, and the
ResourceQuota informer lists every object in the end.  A backoff that has begun ends, because its
completion time is fixed when the unit enters the queue and the flush loop runs
every second (`FlushOf`); `NoOverdueBackoff` of the run `queue` shows that part with
the clock.  `PopOf` is strongly fair: a unit that is again and
again among the first of its queue is popped.  In the code units of equal
priority leave by `InitialAttemptTimestamp`; the older one that fails is in
backoff until the next tick of the flush loop, and the loop of the scheduler,
which never sleeps, empties the queue in the meantime.  `JobsEnd` is an
assumption about jobs, without which nothing can be promised to the waiting ones.
No fairness is assumed for clients' other writes, faults or restarts.

## 4. Proofs

All proofs are for every value of the constants: any number of units, queues,
goroutines, resources, quota objects, any limits, heaps of any size, any durations.
They rest on named assumptions, which TLC evaluates in every run of the module:
for the process `ConstantsOK` (the objects are well formed), `FiniteObjects` (a
cluster stores finitely many of them), `QuotaNames` (the quota objects of a
namespace have different names) and `LimitsOK`; for the heap `LessIsWeakOrder` and
`NoKeyIsNone`; for the queue `TimesOK` (times are natural numbers, the initial
backoff and the flush period not zero) and `PrioritiesAreNumbers`.

Every safety property that a passing run checks, invariants, action properties and
refinements, has a theorem, some with a hypothesis that is given below; liveness has
none.

**The ledger** (`ResourceQuotaProofs`).  `RQTypeCorrect`: whatever copies `Reserve`
and `Unreserve` are given, no reserved quantity becomes negative, because `Unreserve`
deletes an entry that would not stay positive.  That clamp could hide a deficit.
`LedgerExact`: if all copies of a key request the same (`MatchedSpec`), it does not,
and `reserved` is always the sum of what the recorded units request
(`ReservedIsSum`).  The inductive invariant is
`RQInv == RQTypeOK /\ ReservedIsSum /\ FiniteTokens(quRecord)`.  The sum is a
cardinality, and `FiniteTokens` is what makes adding and removing a unit an
addition and a subtraction.  Without matching copies the ledger does get bent, and
nothing is claimed.

**The process** (`KubeQueueProofs`).  `TypeOK` is inductive for
`Next`, restarts and all faults included; there is one lemma per action.
`TypeCorrect` follows.  The types say more than their name:
every index the scheduler, a closure or a handler follows is that of a queue
object, and a goroutine points at the loop variable only while a cycle gives it a
value.  The second part is why `LoopState` and `GoroutineState` are sets of
consistent records and why the last conjunct of `SchedTypeOK` is there.
`SystemLedgerExact`: until a key is created with another `Spec.Resource`
(`LedgerExactUntilResize`) the ledger is exact.  The invariant adds `SpecsKept`:
every copy in the store, in an event, in a queue, in the loop or in a goroutine then
requests `Demand[u]`, so that whoever calls `Reserve` or `Unreserve` passes that.

**The quota** (`QuotaProofs`).  `QuotaSafe`: `QuotaUntilDisturbed` always holds,
whatever the limits: `QuotaRespected` until the first restart, lost reply or changed
`Spec.Resource`.  Section 3 shows for each of the three why it ends there.  The
hypotheses are `SameNamespace`, units live in the namespace of their ConsumerRef,
so that `Filter` and `Reserve` use the same ledger; and `SingleQuota`, no namespace has
two quotas, so that a lister that is half full does not show `Filter` the wrong one.
`ReadyQuotaSafe` starts with a full lister and does without `SingleQuota`
(`ListerSafe` is what the proofs use of either).  Failing calls, missed deletes and
re-creations, conflicts, units re-created as they were and changes of queues are all
allowed.  `QuotaRespected` speaks of the store, and the code only keeps the ledger
within the quota, so the invariant has to tie the two together.  `QuotaInv` has,
besides what was proved before,

* `LedgerInQuota`: what is reserved is within the selected quota;
* `FilterStable`: what `Filter` has found for the resources checked so far stays
  true until `Reserve`.  In between the ledger only shrinks (`LedgerShrinks`): the
  one other caller of `Reserve`, the handler `AddDequeuedQueueUnit`, then finds
  its unit recorded already (`EventsSettled`).  So the separate locks do no harm;
* `DequeuedSettled`: a Dequeued unit is recorded and no goroutine is going to give
  its reservation back;
* `HoldsAlone`: a goroutine before its `Update` works under a reservation and is
  the only one to do so.  `Reserve` fails on a recorded key, and then no goroutine
  is started: that is why a unit re-created under the same key does not bring two
  goroutines together;
* `EventsSettled` and `DeleteIsLast`: the handler that gives a reservation back
  does so for a unit that is neither Dequeued again nor in a goroutine's hands.
  They speak of what the informer has seen (`seen`), which after a missed delete is
  not what is stored.

The last three points are `OwnershipInv`, which does not depend on what copies request.
The invariant of the theorem is `QuotaInvYet`: `QuotaInv` while none of the three has
happened (`Quiet`).  That this condition, once false, stays so is `LeftNext`:
the budgets of outside events only shrink.

**The promise** (`AdmissionProofs`).  `NextStore` says what a step does to the
waiting and the running units; only the `Update` of a goroutine makes one
Dequeued.  With `OwnershipInv` this gives `DequeueIsReserved`, for limits without
restarts and lost replies (`NoFaults`), whatever the copies request and the quotas
are.  With `QuotaRespected` after the step it gives `Refinement`: the process
implements `Admission`.  That is for a process that is `Undisturbed` (limits that
also allow no other `Spec.Resource`), with `SameNamespace`, and with `SingleQuota` or
a full lister.

**Reservations** (`ReservationProofs`).  `NoReservationLeft`: until the watch misses
a delete, and across restarts, lost replies, changed resource lists and everything
else, every reservation has somebody who will settle it (`ReservationJustified`).
The invariant adds `RecordedKnown`, a recorded unit's namespace is in the ledger, so
`Unreserve` does not return early; `FreshStored`, a copy with the current
resourceVersion is one of a stored unit, so an `Update` that succeeds has made a
stored unit Dequeued and the goroutine may let go; `NothingUnseen`, the informer's
store is that of the API server; and `LastAddTrue`, when the last event of a unit is
an Add the unit is Dequeued, so `AddDequeuedQueueUnit` never makes a reservation
nobody takes back.  `tombstone` shows why a missed delete ends it.

**Units** (`UnitProofs`).  `NoUnitIsLost`: `NoUnitLost` holds as long as no Queue
object changes, no API call fails, the process is not restarted and no unit is
created again before the informer knows that its predecessor is gone
(`QueuesStand`; the four are `Harmful`).  Section 3 has a counterexample for each of
them.  Lost replies do no harm, nor does a missed delete alone.  The invariant adds

* `QueuesSettled`: the queue map is the one of the start;
* `PointersRegistered`: the loop, the closures and the handlers hold pointers only to
  queues that the scheduler visits, so `ErrorFunc` never puts a unit where it is not
  seen, though it may put it into the wrong queue (`loop_variable`);
* `DeleteThenAdd`: a unit that waits while a Delete of it is in the FIFO was created
  again, and its Add comes after that Delete.  The handler of an old Delete may
  remove the new unit from the queue; the Add that follows brings it back.

**The heap** (`HeapProofs`).  `HeapInv` has the types, `Indexed`, and the heap order
with its exception.  During `down` (`OrderedDown`) the object at the place being
sifted may be greater than its children, and before its first move less than its
parent; during `up` (`OrderedUp`) it may be less than its parent.  In both, its
children are in order with its parent (`Bypass`): without that clause a swap could put
them behind an object they go before.  `Leaving` says which object a `Delete` or `Pop` has moved to the end.  `PeekIsLeast`: if some
object went before the root, take the first place that holds one; its parent holds
another.  `HeapIsLeastMap`: the sift loops only permute the array, so the map from
keys to objects changes in one step of each call, and `Pop` takes what was at the root.

**The queue** (`PrioritySchedulingQueueProofs`).  `BackoffDurationIsBackoff`: the
loop of `calculateBackoffDuration` doubles up to the maximum for every initial
duration, maximum and number of attempts, but for the first attempt when the maximum
is below the initial duration; `FlushLeavesNone` therefore has that relation of the
two options as its hypothesis.  This is an induction over data.  The
induction theorems of the library take an operator, so the induction is done with
sets: a set of natural numbers that contains 0 and is closed under successor is all
of them, since its complement has no least element (`NatSetInduction`), and a
recursive function on the naturals satisfies its equation because the finite
approximations exist and agree (`PrimitiveRecursion`).  The provers know no `^`, so
`Backoff` has `PowerOfTwo`.  `BackoffIsHonoured` and `FlushLeavesNone` are proved
together with the types: `Completed` takes whole prefixes of the backoff order, so a
unit that stays has one before it, or is one, that is not done.
`QueueIsSchedulingQueue`: every step of the queue with its clock is one of
`SchedulingQueue`; it needs `CanCompare`, a policy with a sort plugin, since without
one the heap panics (`fifo_policy`).  `ComparatorsAreWeakOrders` shows for both
comparators what `Heap` assumes, so that the heap theorems apply to both heaps.

Only model-checked are the liveness properties `EventuallyDequeued` and
`DeletedUnitsVanish`: liveness under fairness, and `ENABLED`, are out of the prover's
reach.

## 5. Not modelled

* Charts, CRDs, examples, build scripts: no behaviour.
* Flag parsing, client construction, logging, the event recorder.
* `MultiSchedulingQueue.Close` and `PrioritySchedulingQueue.Close`:
  `Scheduler.Start` never returns, so they are not reached.  `TopUnit` has no
  caller.
* `Get`, `GetByKey`, `Peek`, `Len` and `List` of the heap, the getters of the
  queues and of the framework read state and are part of the steps that use them.
* `RunScorePlugins` returns a constant and is not called; status codes and
  plugin factories are wiring.
* A QueueUnit without a `ConsumerRef`.  The handlers (`eventhandler.go:124`, `:146`,
  `:169`) and `Filter` (`resource_quota.go:167`) dereference it, and the process
  panics; every unit of the model has one.
* A key that is created again with another `ConsumerRef.Namespace`: `ConsumerNs` is a
  constant.
* ResourceQuota objects that change or are deleted, and the resync of the informers.
* Two Queue objects in one namespace, and units whose ConsumerRef namespace is not
  their own, are expressible by the constants but in no run.

## 6. Plan

Done: `ResourceQuota`, the queues, the scheduler, the handlers, their composition
with the API server, faults, restarts, `Admission`, liveness; the heap and the
queue with its clock, and the two refinements that tie them to the rest; the
proofs of section 4.  What is left:

1. The safety that the liveness properties rest on, as theorems: whatever is not idle
   has a step to take (no goroutine at a program counter without an action, no unit in
   hand without a queue to go back to).
2. `DequeueIsReserved` and `Refinement` for limits that allow the faults, until
   the first of them happens, as `QuotaSafe` has it.
3. What is left of the ledger when copies of a key differ: the sum of what was given
   to `Reserve`, less what `Unreserve` took too much.
4. Units whose ConsumerRef namespace is not their own: what is left of the quota
   without `SameNamespace`.
