-------------------------- MODULE SchedulingQueue --------------------------
(***************************************************************************)
(* One scheduling queue, without time: a record pq with the map items of   *)
(* the units that can be popped and the map backoffQ of those that wait,   *)
(* both from units to the spec of the copy the queue holds, a record with  *)
(* a priority.  Each operation holds the queue's lock throughout.          *)
(*                                                                         *)
(* A flush of the backoff queue moves any set of units, and units of equal *)
(* priority leave in any order; PrioritySchedulingQueue has the queue with *)
(* time, and shows that it does nothing but these operations.              *)
(***************************************************************************)
EXTENDS Integers, Maps

Waiting(pq) == DOMAIN pq.items \cup DOMAIN pq.backoffQ

SQAdd(pq, u, spec) == [pq EXCEPT !.items = Put(@, u, spec)]

SQAddUnschedulableIfNotPresent(pq, u, spec) ==
  IF u \in Waiting(pq) THEN pq ELSE [pq EXCEPT !.backoffQ = Put(@, u, spec)]

SQDelete(pq, u) ==
  IF u \in DOMAIN pq.items
  THEN [pq EXCEPT !.items = Drop(@, u)]
  ELSE [pq EXCEPT !.backoffQ = Drop(@, u)]

SQUpdate(pq, u, spec) ==
  IF u \in DOMAIN pq.items THEN [pq EXCEPT !.items = Put(@, u, spec)]
  ELSE IF u \in DOMAIN pq.backoffQ THEN [pq EXCEPT !.backoffQ = Put(@, u, spec)]
  ELSE pq

\* The units Pop may return: QueueLess puts the highest priority first.
Tops(pq) == {u \in DOMAIN pq.items :
               \A v \in DOMAIN pq.items : pq.items[v].priority <= pq.items[u].priority}

SQPop(pq, u) == [pq EXCEPT !.items = Drop(@, u)]

\* Mutant of SQFlush: the unit is only peeked at.
SQFlushNoPop(pq, S) ==
  [pq EXCEPT !.items = [u \in DOMAIN @ \cup S |->
                          IF u \in S THEN pq.backoffQ[u] ELSE pq.items[u]]]

\* flushBackoffQCompleted when exactly the units of S have completed their
\* backoff.  A unit that is in items too is overwritten by the older copy.
SQFlush(pq, S) ==
  [pq EXCEPT !.items = [u \in DOMAIN @ \cup S |->
                          IF u \in S THEN pq.backoffQ[u] ELSE pq.items[u]],
             !.backoffQ = [u \in DOMAIN @ \ S |-> pq.backoffQ[u]]]
============================================================================
