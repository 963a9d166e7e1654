----------------------------- MODULE Scheduler -----------------------------
(***************************************************************************)
(* The scheduler (pkg/scheduler): one loop that takes at most one unit     *)
(* from every queue per cycle, filters and reserves it, and a goroutine    *)
(* per reserved unit that marks it Dequeued at the API server.             *)
(*                                                                         *)
(* A step ends where another goroutine can come in between: at a lock or   *)
(* at an API call.                                                         *)
(***************************************************************************)
EXTENDS ResourceQuota, MultiSchedulingQueue, ApiServer

VARIABLES
  sched,       \* the scheduling loop
  goroutines,  \* goroutines[s]: the dequeue goroutine s
  listed       \* listed[n]: the quotas of n that the ResourceQuota lister has

schedVars == <<sched, goroutines, listed>>

\* rest holds the queues the cycle has yet to visit; its head is the loop
\* variable q.  unit and spec are the copy in hand.  basket holds the quota that
\* the filter has selected, todo the resources it has yet to look at.
NewCycle == [pc |-> "sort", rest |-> << >>, unit |-> NoUnit, spec |-> NoSpec,
             basket |-> {}, todo |-> {}]

\* queue = LoopVariable: the goroutine's closure still shares the variable q of
\* the cycle that started it.
LoopVariable == 0
Idle == [pc |-> "idle", unit |-> NoUnit, spec |-> NoSpec, queue |-> LoopVariable]

SchedInit ==
  /\ sched = NewCycle
  /\ goroutines = [s \in Workers |-> Idle]
  /\ listed = [n \in Namespaces |-> {}]

At(pc) == sched.pc = pc
Running == ~At("panic")
Q == Head(sched.rest)

----------------------------------------------------------------------------
\* The API calls of the scheduler and of the goroutines.

GetFinds(u)  == u \in DOMAIN api /\ UNCHANGED left
GetMisses(u) == u \notin DOMAIN api /\ UNCHANGED left
CallFails    == Spend({"callError"})

----------------------------------------------------------------------------
(***************************************************************************)
(* The scheduling loop.                                                    *)
(***************************************************************************)

\* go 1.14 has one variable q per loop: after the cycle it keeps the last
\* queue, and that is what the closures started in the cycle see from then on.
FreezeLoopVariable(gs, i) ==
  [s \in Workers |-> IF gs[s].pc # "idle" /\ gs[s].queue = LoopVariable
                     THEN [gs[s] EXCEPT !.queue = i]
                     ELSE gs[s]]

\* Mutant of Advance: the cycle ends one queue too late.
AdvanceOffByOne(gs) ==
  \/ /\ Len(sched.rest) > 0
     /\ sched' = [NewCycle EXCEPT !.pc = "length", !.rest = Tail(sched.rest)]
     /\ goroutines' = gs
  \/ /\ Len(sched.rest) = 0
     /\ sched' = NewCycle
     /\ goroutines' = FreezeLoopVariable(gs, Q)

\* On to the next queue of the cycle, or to the next cycle; gs is what the
\* goroutines are after this step.
Advance(gs) ==
  \/ /\ Len(sched.rest) > 1
     /\ sched' = [NewCycle EXCEPT !.pc = "length", !.rest = Tail(sched.rest)]
     /\ goroutines' = gs
  \/ /\ Len(sched.rest) = 1
     /\ sched' = NewCycle
     /\ goroutines' = FreezeLoopVariable(gs, Q)

SortedQueue ==
  /\ At("sort")
  /\ \E s \in SortedQueues :
       sched' = [sched EXCEPT !.rest = s,
                              !.pc = IF s = << >> THEN "sort" ELSE "length"]
  /\ UNCHANGED <<rqVars, mqVars, apiVars, goroutines, listed>>

\* q.Length() > 0, read without the queue's lock.
Length ==
  /\ At("length")
  /\ \/ /\ DOMAIN queues[Q].items # {}
        /\ sched' = [sched EXCEPT !.pc = "pop"]
        /\ UNCHANGED goroutines
     \/ /\ DOMAIN queues[Q].items = {}
        /\ Advance(goroutines)
  /\ UNCHANGED <<rqVars, mqVars, apiVars, listed>>

\* Pop of an empty heap panics (container/heap swaps elements 0 and -1).
Pop ==
  /\ At("pop")
  /\ \/ \E u \in Tops(queues[Q]) :
          /\ SetQueue(Q, SQPop(queues[Q], u))
          /\ sched' = [sched EXCEPT !.pc = "filter", !.unit = u,
                                    !.spec = queues[Q].items[u]]
     \/ /\ DOMAIN queues[Q].items = {}
        /\ sched' = [NewCycle EXCEPT !.pc = "panic"]
        /\ UNCHANGED mqVars
  /\ UNCHANGED <<rqVars, apiVars, goroutines, listed>>

GoTo(pc, basket, todo) ==
  sched' = [sched EXCEPT !.pc = pc, !.basket = basket, !.todo = todo]

\* RunFilterPlugins, up to the loop over the requested resources ...
FilterSelect ==
  /\ At("filter")
  /\ LET basket == Baskets(listed[ConsumerNs[sched.unit]], sched.unit)
         todo   == DOMAIN sched.spec.resource
     IN  IF basket = {} THEN GoTo("errget", {}, {})
         ELSE IF todo = {} THEN GoTo("reserve", {}, {})
         ELSE GoTo("check", basket, todo)
  /\ UNCHANGED <<rqVars, mqVars, apiVars, goroutines, listed>>

\* The selected quota has room for what the unit requests of r.
FitsBasket(r) ==
  \E b \in sched.basket : FitsIn(b, sched.unit, sched.spec.resource, r)

\* Mutant of FilterCheck: one resource that fits is enough.
FilterCheckFirst(r) ==
  /\ At("check")
  /\ r \in sched.todo
  /\ IF FitsBasket(r) THEN GoTo("reserve", {}, {}) ELSE GoTo("errget", {}, {})
  /\ UNCHANGED <<rqVars, mqVars, apiVars, goroutines, listed>>

\* ... and one round of that loop, which takes the plugin's read lock anew.
FilterCheck(r) ==
  /\ At("check")
  /\ r \in sched.todo
  /\ IF ~FitsBasket(r) THEN GoTo("errget", {}, {})
     ELSE IF sched.todo = {r} THEN GoTo("reserve", {}, {})
     ELSE GoTo("check", sched.basket, sched.todo \ {r})
  /\ UNCHANGED <<rqVars, mqVars, apiVars, goroutines, listed>>

\* RunReservePluginsReserve; on success the goroutine is started.
ReserveAndGo ==
  /\ At("reserve")
  /\ \/ /\ ReserveFails(sched.unit)
        /\ GoTo("errget", {}, {})
        /\ UNCHANGED goroutines
     \/ /\ Reserve(sched.unit, sched.spec.resource)
        /\ \E s \in Workers :
             /\ goroutines[s] = Idle
             /\ Advance([goroutines EXCEPT ![s] =
                           [Idle EXCEPT !.pc = "get", !.unit = sched.unit,
                                        !.spec = sched.spec]])
  /\ UNCHANGED <<mqVars, apiVars, listed>>

\* ErrorFunc: read the unit afresh; when that fails it is not put back.
ErrorGet ==
  /\ At("errget")
  /\ \/ /\ GetFinds(sched.unit)
        /\ sched' = [sched EXCEPT !.pc = "erradd",
                                  !.spec = api[sched.unit].spec]
        /\ UNCHANGED goroutines
     \/ /\ GetMisses(sched.unit) \/ CallFails
        /\ Advance(goroutines)
  /\ UNCHANGED <<rqVars, mqVars, unitVars, queueVars, listed>>

ErrorAdd ==
  /\ At("erradd")
  /\ SetQueue(Q, SQAddUnschedulableIfNotPresent(queues[Q], sched.unit,
                                                sched.spec))
  /\ Advance(goroutines)
  /\ UNCHANGED <<rqVars, apiVars, listed>>

SchedulingLoop ==
  \/ SortedQueue \/ Length \/ Pop \/ FilterSelect
  \/ \E r \in Resources : FilterCheck(r)
  \/ ReserveAndGo \/ ErrorGet \/ ErrorAdd

----------------------------------------------------------------------------
(***************************************************************************)
(* The dequeue goroutine s: Dequeue (Get, Update) and, when that fails,    *)
(* Unreserve and ErrorFunc.                                                *)
(***************************************************************************)
AtG(s, pc) == Running /\ goroutines[s].pc = pc
UnitOf(s) == goroutines[s].unit
MoveTo(s, pc) == goroutines' = [goroutines EXCEPT ![s].pc = pc]
Finish(s) == goroutines' = [goroutines EXCEPT ![s] = Idle]

\* Mutant of DequeueGet: a Get that fails does not give the reservation back.
DequeueGetNoUnreserve(s) ==
  /\ AtG(s, "get")
  /\ \/ /\ GetFinds(UnitOf(s))
        /\ current' = [current EXCEPT ![UnitOf(s)] = @ \cup {s}]
        /\ MoveTo(s, "update")
     \/ /\ GetMisses(UnitOf(s)) \/ CallFails
        /\ MoveTo(s, "call")
        /\ UNCHANGED current
  /\ UNCHANGED <<api, unseen, unitEvents, dequeuedEvents, queueVars, rqVars,
                 mqVars, sched, listed>>

DequeueGet(s) ==
  /\ AtG(s, "get")
  /\ \/ /\ GetFinds(UnitOf(s))
        /\ current' = [current EXCEPT ![UnitOf(s)] = @ \cup {s}]
        /\ MoveTo(s, "update")
     \/ /\ GetMisses(UnitOf(s)) \/ CallFails
        /\ MoveTo(s, "unreserve")
        /\ UNCHANGED current
  /\ UNCHANGED <<api, unseen, unitEvents, dequeuedEvents, queueVars, rqVars,
                 mqVars, sched, listed>>

\* The store stays as it is; s has no more use for its copy of u.
NoWrite(s, u) ==
  /\ current' = [current EXCEPT ![u] = @ \ {s}]
  /\ UNCHANGED <<api, unseen, unitEvents, dequeuedEvents>>

\* The effect of a successful Update: writing what is stored already is no
\* change to the API server.
SetDequeued(s, u) ==
  \/ /\ ~IsDequeued(api, u)
     /\ Write(u, [api EXCEPT ![u].phase = "Dequeued"])
  \/ /\ IsDequeued(api, u)
     /\ NoWrite(s, u)

\* Mutant of DequeueUpdate: after a conflict the goroutine just returns.
DequeueUpdateNoRollback(s) ==
  /\ AtG(s, "update")
  /\ \/ /\ s \in current[UnitOf(s)]
        /\ SetDequeued(s, UnitOf(s))
        /\ \/ Finish(s) /\ UNCHANGED left
           \/ MoveTo(s, "unreserve") /\ Spend({"lostReply"})
     \/ /\ \/ s \notin current[UnitOf(s)] /\ UNCHANGED left
           \/ CallFails
        /\ Finish(s)
        /\ NoWrite(s, UnitOf(s))
  /\ UNCHANGED <<queueVars, rqVars, mqVars, sched, listed>>

DequeueUpdate(s) ==
  /\ AtG(s, "update")
  /\ \/ /\ s \in current[UnitOf(s)]
        /\ SetDequeued(s, UnitOf(s))
        /\ \/ Finish(s) /\ UNCHANGED left
           \/ MoveTo(s, "unreserve") /\ Spend({"lostReply"})
     \/ /\ \/ s \notin current[UnitOf(s)] /\ UNCHANGED left
           \/ CallFails
        /\ MoveTo(s, "unreserve")
        /\ NoWrite(s, UnitOf(s))
  /\ UNCHANGED <<queueVars, rqVars, mqVars, sched, listed>>

DequeueUnreserve(s) ==
  /\ AtG(s, "unreserve")
  /\ Unreserve(UnitOf(s), goroutines[s].spec.resource)
  /\ MoveTo(s, "call")
  /\ UNCHANGED <<apiVars, mqVars, sched, listed>>

\* Mutant of DequeueCallErrorFunc: ErrorFunc is not called.
DequeueNoErrorFunc(s) ==
  /\ AtG(s, "call")
  /\ Finish(s)
  /\ UNCHANGED <<apiVars, rqVars, mqVars, sched, listed>>

\* The arguments of ErrorFunc are evaluated: this is where q is read.
DequeueCallErrorFunc(s) ==
  /\ AtG(s, "call")
  /\ goroutines' = [goroutines EXCEPT
                      ![s].pc = "errget",
                      ![s].queue = IF @ = LoopVariable THEN Q ELSE @]
  /\ UNCHANGED <<apiVars, rqVars, mqVars, sched, listed>>

DequeueErrorGet(s) ==
  /\ AtG(s, "errget")
  /\ \/ /\ GetFinds(UnitOf(s))
        /\ goroutines' = [goroutines EXCEPT ![s].pc = "erradd",
                             ![s].spec = api[UnitOf(s)].spec]
     \/ /\ GetMisses(UnitOf(s)) \/ CallFails
        /\ Finish(s)
  /\ UNCHANGED <<unitVars, queueVars, rqVars, mqVars, sched, listed>>

DequeueErrorAdd(s) ==
  /\ AtG(s, "erradd")
  /\ LET i == goroutines[s].queue
     IN  SetQueue(i, SQAddUnschedulableIfNotPresent(queues[i], UnitOf(s),
                                                    goroutines[s].spec))
  /\ Finish(s)
  /\ UNCHANGED <<apiVars, rqVars, sched, listed>>

DequeueGoroutine(s) ==
  \/ DequeueGet(s) \/ DequeueUpdate(s) \/ DequeueUnreserve(s)
  \/ DequeueCallErrorFunc(s) \/ DequeueErrorGet(s) \/ DequeueErrorAdd(s)
============================================================================
