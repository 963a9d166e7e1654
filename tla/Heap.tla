-------------------------------- MODULE Heap -------------------------------
(***************************************************************************)
(* The heap of a scheduling queue (pkg/queue/heap): an array of keys in    *)
(* heap order, and a map from a key to its object and its place in the     *)
(* array.  The sift loops are those of Go's container/heap, which calls    *)
(* back Less, Swap, Push and Pop.                                          *)
(*                                                                         *)
(* One iteration of a loop is one step.  The queue's lock is held during a *)
(* call, so the next call starts when the one in progress has returned.    *)
(* Places count from 0, as in Go.                                          *)
(***************************************************************************)
EXTENDS Integers, Maps

CONSTANTS
  Keys,
  NoKey,          \* not a key
  Objects,
  LessFn(_, _)    \* the lessFunc of the heap

\* QueueLess and podsCompareBackoffCompleted are strict weak orders.
ASSUME LessIsWeakOrder ==
  /\ \A a, b \in Objects : LessFn(a, b) \in BOOLEAN
  /\ \A a, b \in Objects : LessFn(a, b) => ~LessFn(b, a)
  /\ \A a, b, c \in Objects : LessFn(a, c) => LessFn(a, b) \/ LessFn(b, c)

ASSUME NoKeyIsNone == NoKey \notin Keys

VARIABLES
  items,    \* data.items: a map from keys to [obj, index]
  queue,    \* data.queue: the keys, a function on 0 .. size - 1
  size,     \* len(data.queue)
  call,     \* the call in progress, see Returned, Down, Up and Done
  last      \* history: the last change of the contents, see LeastMap

vars == <<items, queue, size, call, last>>

None == <<"none", NoKey>>
Pops == <<"pop", NoKey>>

Init ==
  /\ items = EmptyMap /\ queue = EmptyMap /\ size = 0
  /\ call = [pc |-> "idle"]
  /\ last = None

----------------------------------------------------------------------------
(***************************************************************************)
(* The methods of data.                                                    *)
(***************************************************************************)
ObjAt(i) == items[queue[i]].obj

Less(i, j) ==
  /\ i <= size /\ j <= size
  /\ queue[i] \in DOMAIN items /\ queue[j] \in DOMAIN items
  /\ LessFn(ObjAt(i), ObjAt(j))

\* Mutant of Swap: the second item keeps its old index.
SwapOneIndex(i, j) ==
  /\ queue' = [queue EXCEPT ![i] = queue[j], ![j] = queue[i]]
  /\ items' = [items EXCEPT ![queue[j]].index = i]

Swap(i, j) ==
  /\ queue' = [queue EXCEPT ![i] = queue[j], ![j] = queue[i]]
  /\ items' = [k \in DOMAIN items |->
                 CASE k = queue[i] -> [items[k] EXCEPT !.index = j]
                   [] k = queue[j] /\ k # queue[i] -> [items[k] EXCEPT !.index = i]
                   [] OTHER -> items[k]]

Push(k, v) ==
  /\ items' = Put(items, k, [obj |-> v, index |-> size])
  /\ queue' = Put(queue, size, k)
  /\ size' = size + 1

----------------------------------------------------------------------------
(***************************************************************************)
(* The calls of Heap.  A call ends at once or goes on in the sift loops:   *)
(* down below n from place "from", up from place i.  "after" tells what    *)
(* comes then: None, or data.Pop, for Delete(k) or for Pop.                *)
(***************************************************************************)
Idle == call.pc = "idle"
Returned == [pc |-> "idle"]
Down(i, from, n, after) == [pc |-> "down", i |-> i, from |-> from, n |-> n, after |-> after]
Up(i, after) == [pc |-> "up", i |-> i, after |-> after]

\* The loops are done: return, or remove the last element.
Done(after) == IF after = None THEN Returned ELSE [pc |-> "pop", after |-> after]

\* heap.Push
AddNew(k, v) ==
  /\ Push(k, v)
  /\ call' = Up(size, None)
  /\ last' = <<"add", k>>

Add(k, v) ==
  /\ Idle
  /\ \/ k \notin DOMAIN items /\ AddNew(k, v)
     \/ /\ k \in DOMAIN items
        /\ items' = [items EXCEPT ![k].obj = v]
        /\ call' = LET i == items[k].index IN Down(i, i, size, None)
        /\ last' = <<"add", k>>
        /\ UNCHANGED <<queue, size>>

AddIfNotPresent(k, v) == Idle /\ k \notin DOMAIN items /\ AddNew(k, v)

\* Mutant of Delete: the element is not brought to the end of the array.
DeleteNoSwap(k) ==
  /\ Idle /\ k \in DOMAIN items
  /\ call' = Done(<<"delete", k>>)
  /\ UNCHANGED <<items, queue, size, last>>

\* heap.Remove; a key that is not there is an error that changes nothing.
Delete(k) ==
  /\ Idle /\ k \in DOMAIN items
  /\ LET i == items[k].index
         n == size - 1
     IN  IF i = n
         THEN call' = Done(<<"delete", k>>) /\ UNCHANGED <<items, queue>>
         ELSE call' = Down(i, i, n, <<"delete", k>>) /\ Swap(i, n)
  /\ UNCHANGED <<size, last>>

\* heap.Pop.  On an empty heap it panics, see Scheduler: there is no such step.
Pop ==
  /\ Idle /\ size > 0
  /\ Swap(0, size - 1)
  /\ call' = Down(0, 0, size - 1, Pops)
  /\ UNCHANGED <<size, last>>

----------------------------------------------------------------------------
(***************************************************************************)
(* container/heap.                                                         *)
(***************************************************************************)
Parent(j) == IF j = 0 THEN 0 ELSE (j - 1) \div 2

\* The child of i to compare with: the lesser one, if there are two below n.
Child(i, n) ==
  LET l == 2 * i + 1
  IN  IF l + 1 < n /\ Less(l + 1, l) THEN l + 1 ELSE l

\* down found its place; when it did not move, Fix and Remove go on with up.
DownDone(i, from, after) ==
  IF i > from \/ after = Pops THEN Done(after) ELSE Up(from, after)

\* Mutant of SiftDown: Fix and Remove do not go on with up.
SiftDownOnly ==
  /\ call.pc = "down"
  /\ LET i == call.i
         j == Child(i, call.n)
     IN  IF 2 * i + 1 < call.n /\ Less(j, i)
         THEN Swap(i, j) /\ call' = [call EXCEPT !.i = j]
         ELSE call' = Done(call.after) /\ UNCHANGED <<items, queue>>
  /\ UNCHANGED <<size, last>>

SiftDown ==
  /\ call.pc = "down"
  /\ LET i == call.i
         j == Child(i, call.n)
     IN  IF 2 * i + 1 < call.n /\ Less(j, i)
         THEN Swap(i, j) /\ call' = [call EXCEPT !.i = j]
         ELSE call' = DownDone(i, call.from, call.after) /\ UNCHANGED <<items, queue>>
  /\ UNCHANGED <<size, last>>

SiftUp ==
  /\ call.pc = "up"
  /\ LET j == call.i
         i == Parent(j)
     IN  IF i # j /\ Less(j, i)
         THEN Swap(i, j) /\ call' = [call EXCEPT !.i = i]
         ELSE call' = Done(call.after) /\ UNCHANGED <<items, queue>>
  /\ UNCHANGED <<size, last>>

\* Mutant of PopLast: the key stays in the array.
PopLastKeepsKey ==
  /\ call.pc = "pop"
  /\ LET k == queue[size - 1]
     IN  /\ items' = Drop(items, k)
         /\ last' = IF call.after = Pops THEN <<"pop", k>> ELSE call.after
  /\ size' = size - 1
  /\ call' = Returned
  /\ UNCHANGED queue

\* data.Pop: the last element leaves.
PopLast ==
  /\ call.pc = "pop"
  /\ LET k == queue[size - 1]
     IN  /\ items' = Drop(items, k)
         /\ last' = IF call.after = Pops THEN <<"pop", k>> ELSE call.after
  /\ queue' = Drop(queue, size - 1)
  /\ size' = size - 1
  /\ call' = Returned

Sift == SiftDown \/ SiftUp \/ PopLast

Next ==
  \/ \E k \in Keys : Delete(k) \/ \E v \in Objects : Add(k, v) \/ AddIfNotPresent(k, v)
  \/ Pop
  \/ Sift

Spec == Init /\ [][Next]_vars

----------------------------------------------------------------------------
(***************************************************************************)
(* Properties.                                                             *)
(***************************************************************************)
Places == 0 .. size - 1

TypeOK ==
  /\ DOMAIN items \subseteq Keys
  /\ \A k \in DOMAIN items : items[k].obj \in Objects /\ items[k].index \in Places
  /\ size \in Nat
  /\ DOMAIN queue = Places /\ \A i \in Places : queue[i] \in Keys
  /\ call.pc \in {"idle", "down", "up", "pop"}
  /\ call.pc = "down" => call.i \in Places /\ call.from \in Places /\ call.n \in 0 .. size
  /\ call.pc = "up" => call.i \in Places
  /\ call.pc = "pop" => size > 0
  /\ last \in {None} \cup ({"add", "delete", "pop"} \X Keys)

\* Array and map agree, also half-way through a call (heap.go, data: "We depend
\* on the property that items in the map are in the queue and vice versa").
Indexed ==
  /\ \A i \in Places : queue[i] \in DOMAIN items /\ items[queue[i]].index = i
  /\ \A k \in DOMAIN items : queue[items[k].index] = k

\* Between two calls Peek returns an object that none goes in front of: the
\* flush of the backoff queue looks no further (heap.go, Peek and Less).
RootIsLeast ==
  Idle /\ size > 0 => \A k \in DOMAIN items : ~LessFn(items[k].obj, ObjAt(0))

\* The heap is the map its users take it for: an Add, a Delete and a Pop take
\* effect once, and Pop takes a least object, also of a heap that replaced
\* objects and deleted in the middle (heap.go, Add, Delete, Pop).
Least == INSTANCE LeastMap WITH objs <- [k \in DOMAIN items |-> items[k].obj]

ImplementsLeastMap == Least!Spec
============================================================================
