---------------------- MODULE PrioritySchedulingQueue ----------------------
(***************************************************************************)
(* A PrioritySchedulingQueue with its clock: when a unit whose scheduling  *)
(* failed comes back, and in which order the units leave.                  *)
(*                                                                         *)
(* The event handlers Add, Update and Delete units at any time.  A caller  *)
(* pops a unit and holds it until it is dequeued or put in the backoff     *)
(* queue: the scheduling loop is one caller, and every dequeue goroutine   *)
(* another.  The flush loop runs once per FlushPeriod.                     *)
(*                                                                         *)
(* The heaps items and backoffQ are maps of which a least element can be   *)
(* taken, which is what Heap implements.                                   *)
(***************************************************************************)
EXTENDS SchedulingQueue

CONSTANTS
  Units, Priorities,
  Callers,          \* who may hold a popped unit
  Policy,           \* spec.queuePolicy of the Queue object
  InitialBackoff,   \* podInitialBackoffDuration
  MaxBackoff,       \* podMaxBackoffDuration
  FlushPeriod,      \* of wait.Until in Run
  MaxTime,          \* bound on the clock
  MaxWrites         \* bound on the calls of the event handlers

ASSUME TimesOK ==
  /\ InitialBackoff \in Nat \ {0} /\ MaxBackoff \in Nat
  /\ FlushPeriod \in Nat \ {0} /\ MaxTime \in Nat /\ MaxWrites \in Nat

\* spec.priority is an *int32.
ASSUME PrioritiesAreNumbers == Priorities \subseteq Int

VARIABLES
  now,        \* the clock
  lastFlush,  \* when the flush loop ran last
  items,      \* map from units to their QueueUnitInfo
  backoffQ,   \* likewise
  entered,    \* history: when a unit came to backoffQ or was updated there
  held,       \* map from callers to the unit and QueueUnitInfo they popped
  writes,     \* how many calls the event handlers may still make
  panicked    \* the process died

vars == <<now, lastFlush, items, backoffQ, entered, held, writes, panicked>>

----------------------------------------------------------------------------
(***************************************************************************)
(* QueueUnitInfo, backoff and the orders of the two heaps.                 *)
(***************************************************************************)
\* Mutant of NewQueueUnitInfo: the timestamp stays Go's zero time.
NewQueueUnitInfoNoTime(p) ==
  [priority |-> p, timestamp |-> -1, attempts |-> 0, initial |-> now]

NewQueueUnitInfo(p) ==
  [priority |-> p, timestamp |-> now, attempts |-> 0, initial |-> now]

\* Mutant of BackoffDuration: stops doubling in place of going to the maximum.
BackoffDurationKeep(initial, max, attempts) ==
  LET duration[i \in Nat] ==
        IF i = 0 \/ duration[i - 1] * 2 > max
        THEN IF i = 0 THEN initial ELSE duration[i - 1]
        ELSE duration[i - 1] * 2
  IN  duration[IF attempts > 1 THEN attempts - 1 ELSE 0]

\* The loop of calculateBackoffDuration: duration[i] after i iterations.
BackoffDuration(initial, max, attempts) ==
  LET duration[i \in Nat] ==
        IF i = 0 THEN initial
        ELSE IF duration[i - 1] * 2 > max THEN max ELSE duration[i - 1] * 2
  IN  duration[IF attempts > 1 THEN attempts - 1 ELSE 0]

CalculateBackoffDuration(info) ==
  BackoffDuration(InitialBackoff, MaxBackoff, info.attempts)

\* Mutant of GetBackoffTime: counts from the first attempt.
GetBackoffTimeFirst(info) == info.initial + CalculateBackoffDuration(info)

GetBackoffTime(info) == info.timestamp + CalculateBackoffDuration(info)

\* Mutant of PodsCompareBackoffCompleted: the last failure decides.
PodsCompareTimestamps(i1, i2) == i1.timestamp < i2.timestamp

PodsCompareBackoffCompleted(i1, i2) == GetBackoffTime(i1) < GetBackoffTime(i2)

\* Mutant of QueueLess: the older unit goes first whatever its priority.
QueueLessOldest(i1, i2) == i1.initial < i2.initial

QueueLess(i1, i2) ==
  \/ i1.priority > i2.priority
  \/ i1.priority = i2.priority /\ i1.initial < i2.initial

\* The plugins of the registry, with the interfaces NewFramework finds they have.
Plugins == [ResourceQuota |-> {"Filter", "Reserve"},
            Priority |-> {"QueueSort", "MultiQueueSort"}]

\* The names of those that sort a queue.
QueueSortFuncMap == {name \in DOMAIN Plugins : "QueueSort" \in Plugins[name]}

\* A policy without a plugin leaves lessFn nil; the call panics.
CanCompare == Policy \in QueueSortFuncMap

\* A heap that holds the units of D compares when new ones come to it.
Compares(D, new) == \E u \in new \ D : \E v \in D \cup new : v # u

\* items becomes m, unless the comparison that takes panics.
PutItems(m) ==
  IF ~CanCompare /\ Compares(DOMAIN items, DOMAIN m)
  THEN panicked' = TRUE /\ UNCHANGED items
  ELSE items' = m /\ UNCHANGED panicked

----------------------------------------------------------------------------
(***************************************************************************)
(* The calls.                                                              *)
(***************************************************************************)
\* Add, Update and Delete are called by the event handlers.
Written == writes > 0 /\ writes' = writes - 1

Add(u, p) ==
  /\ Written
  /\ PutItems(Put(items, u, NewQueueUnitInfo(p)))
  /\ UNCHANGED <<now, lastFlush, backoffQ, entered, held>>

Update(u, p) ==
  /\ Written
  /\ \/ /\ u \in DOMAIN items
        /\ items' = Put(items, u, NewQueueUnitInfo(p))
        /\ UNCHANGED <<backoffQ, entered>>
     \/ /\ u \notin DOMAIN items /\ u \in DOMAIN backoffQ
        /\ backoffQ' = Put(backoffQ, u, NewQueueUnitInfo(p))
        /\ entered' = Put(entered, u, now)
        /\ UNCHANGED items
  /\ UNCHANGED <<now, lastFlush, held, panicked>>

Delete(u) ==
  /\ Written
  /\ \/ u \in DOMAIN items /\ items' = Drop(items, u) /\ UNCHANGED <<backoffQ, entered>>
     \/ /\ u \notin DOMAIN items /\ u \in DOMAIN backoffQ
        /\ backoffQ' = Drop(backoffQ, u) /\ entered' = Drop(entered, u)
        /\ UNCHANGED items
  /\ UNCHANGED <<now, lastFlush, held, panicked>>

\* The scheduler asks for the length first; Pop takes a least unit.
Pop(c, u) ==
  /\ c \notin DOMAIN held /\ u \in DOMAIN items
  /\ \A v \in DOMAIN items : ~QueueLess(items[v], items[u])
  /\ items' = Drop(items, u)
  /\ held' = Put(held, c, [unit |-> u, info |-> items[u], failed |-> FALSE])
  /\ UNCHANGED <<now, lastFlush, backoffQ, entered, writes, panicked>>

\* The unit is dequeued: nobody puts it back.
Succeed(c) ==
  /\ c \in DOMAIN held /\ ~held[c].failed
  /\ held' = Drop(held, c)
  /\ UNCHANGED <<now, lastFlush, items, backoffQ, entered, writes, panicked>>

\* ErrorFunc up to its Get.
Fail(c) ==
  /\ c \in DOMAIN held /\ ~held[c].failed
  /\ held' = [held EXCEPT ![c].failed = TRUE,
                          ![c].info.attempts = @ + 1,
                          ![c].info.timestamp = now]
  /\ UNCHANGED <<now, lastFlush, items, backoffQ, entered, writes, panicked>>

\* The Get of ErrorFunc fails.
GiveUp(c) ==
  /\ c \in DOMAIN held /\ held[c].failed
  /\ held' = Drop(held, c)
  /\ UNCHANGED <<now, lastFlush, items, backoffQ, entered, writes, panicked>>

\* The Get returns the unit with priority p.
AddUnschedulableIfNotPresent(c, p) ==
  /\ c \in DOMAIN held /\ held[c].failed
  /\ LET u == held[c].unit
     IN  IF u \in DOMAIN items \cup DOMAIN backoffQ
         THEN UNCHANGED <<backoffQ, entered>>
         ELSE /\ backoffQ' = Put(backoffQ, u, [held[c].info EXCEPT !.priority = p])
              /\ entered' = Put(entered, u, now)
  /\ held' = Drop(held, c)
  /\ UNCHANGED <<now, lastFlush, items, writes, panicked>>

\* The units the flush loop takes before it peeks at one that has to wait.
Completed ==
  {u \in DOMAIN backoffQ :
     \A v \in DOMAIN backoffQ :
        v = u \/ PodsCompareBackoffCompleted(backoffQ[v], backoffQ[u])
          => GetBackoffTime(backoffQ[v]) <= now}

FlushBackoffQCompleted ==
  /\ now = lastFlush + FlushPeriod /\ lastFlush' = now
  /\ PutItems([u \in DOMAIN items \cup Completed |->
                 IF u \in Completed THEN backoffQ[u] ELSE items[u]])
  /\ backoffQ' = [u \in DOMAIN backoffQ \ Completed |-> backoffQ[u]]
  /\ entered' = [u \in DOMAIN entered \ Completed |-> entered[u]]
  /\ UNCHANGED <<now, held, writes>>

\* Time passes; the flush loop keeps its period.
Tick ==
  /\ now < MaxTime /\ now < lastFlush + FlushPeriod
  /\ now' = now + 1
  /\ UNCHANGED <<lastFlush, items, backoffQ, entered, held, writes, panicked>>

Init ==
  /\ now = 0 /\ lastFlush = 0
  /\ items = EmptyMap /\ backoffQ = EmptyMap /\ entered = EmptyMap /\ held = EmptyMap
  /\ writes = MaxWrites /\ panicked = FALSE

Next ==
  /\ ~panicked
  /\ \/ \E u \in Units : \/ \E p \in Priorities : Add(u, p) \/ Update(u, p)
                         \/ Delete(u)
                         \/ \E c \in Callers : Pop(c, u)
     \/ \E c \in Callers : \/ Succeed(c) \/ Fail(c) \/ GiveUp(c)
                           \/ \E p \in Priorities : AddUnschedulableIfNotPresent(c, p)
     \/ FlushBackoffQCompleted
     \/ Tick

Spec == Init /\ [][Next]_vars

----------------------------------------------------------------------------
(***************************************************************************)
(* Properties.                                                             *)
(***************************************************************************)
Infos == [priority : Priorities, timestamp : 0 .. now, attempts : Nat, initial : 0 .. now]

TypeOK ==
  /\ now \in 0 .. MaxTime /\ lastFlush \in 0 .. now
  /\ DOMAIN items \subseteq Units /\ \A u \in DOMAIN items : items[u] \in Infos
  /\ DOMAIN backoffQ \subseteq Units /\ \A u \in DOMAIN backoffQ : backoffQ[u] \in Infos
  /\ DOMAIN entered = DOMAIN backoffQ /\ \A u \in DOMAIN entered : entered[u] \in 0 .. now
  /\ DOMAIN held \subseteq Callers
  /\ \A c \in DOMAIN held : held[c] \in [unit : Units, info : Infos, failed : BOOLEAN]
  /\ writes \in 0 .. MaxWrites /\ panicked \in BOOLEAN

PowerOfTwo[n \in Nat] == IF n = 0 THEN 1 ELSE 2 * PowerOfTwo[n - 1]

\* The backoff after so many attempts as the options mean it (options.go: "init
\* duration", "max duration"): the initial duration, doubled for every attempt
\* after the first, and never more than the maximum.
Backoff(initial, max, attempts) ==
  LET doubled == initial * PowerOfTwo[IF attempts > 1 THEN attempts - 1 ELSE 0]
  IN  IF doubled > max THEN max ELSE doubled

\* calculateBackoffDuration computes it, also for a maximum that doubling does not
\* meet.  The exception: a maximum below the initial duration does not bound the
\* first attempt.  The formula is the same in every state and is evaluated in the
\* initial one.
BackoffFormula ==
  Init => \A initial \in 1 .. 5, max \in 0 .. 20, attempts \in 0 .. 7 :
             initial <= max \/ attempts > 1 =>
               BackoffDuration(initial, max, attempts) = Backoff(initial, max, attempts)

BackoffOver(info) == info.timestamp + Backoff(InitialBackoff, MaxBackoff, info.attempts)

\* A unit that failed is not tried again before its backoff is over, whatever
\* the order in which units come to the backoff queue and leave it.
BackoffHonoured ==
  \A i \in {items[u] : u \in DOMAIN items}
             \cup {held[c].info : c \in {d \in DOMAIN held : ~held[d].failed}} :
     i.attempts > 0 => now >= BackoffOver(i)

\* No unit is stuck in the backoff queue behind one that waits longer: the
\* flush takes every unit that was there before and whose backoff, counted
\* from its last failure or update, was over (flushBackoffQCompleted looks at
\* the root of the heap only).
NoOverdueBackoff ==
  \A u \in DOMAIN backoffQ :
     \/ entered[u] >= lastFlush
     \/ BackoffOver(backoffQ[u]) > lastFlush

\* A queue of either policy works (CHANGELOG.md: "Support two basic queueing
\* policies for the elements in single queue: FIFO, Priority").
PolicySupported == ~panicked

\* The queue does only what SchedulingQueue says, the interface against which
\* the rest of the system is modelled: no step moves, loses or reprioritises a
\* unit in any other way, and Pop takes one of the highest priority.
Timeless ==
  [items |-> [u \in DOMAIN items |-> [priority |-> items[u].priority]],
   backoffQ |-> [u \in DOMAIN backoffQ |-> [priority |-> backoffQ[u].priority]]]

TimelessStep ==
  \/ /\ DOMAIN held' \subseteq DOMAIN held
     /\ \/ \E u \in Units : \E spec \in [priority : Priorities] :
              \/ Timeless' = SQAdd(Timeless, u, spec)
              \/ Timeless' = SQUpdate(Timeless, u, spec)
              \/ Timeless' = SQAddUnschedulableIfNotPresent(Timeless, u, spec)
        \/ \E u \in Units : Timeless' = SQDelete(Timeless, u)
        \/ \E S \in SUBSET DOMAIN backoffQ : Timeless' = SQFlush(Timeless, S)
  \/ \E c \in DOMAIN held' \ DOMAIN held :
        /\ held'[c].unit \in Tops(Timeless)
        /\ Timeless' = SQPop(Timeless, held'[c].unit)

ImplementsTimeless == [][TimelessStep]_<<Timeless, DOMAIN held>>
============================================================================
