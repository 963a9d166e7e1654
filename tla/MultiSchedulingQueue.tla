------------------------ MODULE MultiSchedulingQueue ------------------------
(***************************************************************************)
(* The scheduling queues (pkg/queue): the map from a queue name, which is  *)
(* the namespace of the Queue object, to the PrioritySchedulingQueue that  *)
(* holds the units waiting there.                                          *)
(*                                                                         *)
(* The scheduler and its goroutines keep pointers to queue objects that    *)
(* the map may have replaced or dropped meanwhile, so the objects live in  *)
(* their own table "queues" and a pointer is an index of that table.       *)
(*                                                                         *)
(* SchedulingQueue has the operations of one queue, without time.          *)
(***************************************************************************)
EXTENDS Objects, SchedulingQueue, Sequences, SequencesExt

VARIABLES
  queues,    \* sequence of the queue objects made so far
  queueMap   \* function from queue names to indices of queues

mqVars == <<queues, queueMap>>

NewPrioritySchedulingQueue(q) ==
  [name |-> QueueNs[q], priority |-> QueuePriority[q],
   items |-> EmptyMap, backoffQ |-> EmptyMap, run |-> FALSE]

MQInit == queues = << >> /\ queueMap = EmptyMap

Registered == {queueMap[n] : n \in DOMAIN queueMap}

\* MultiSchedulingQueue.Run: start the flush loop of every registered queue.
RunAll(qs, indices) ==
  [i \in DOMAIN qs |-> IF i \in indices THEN [qs[i] EXCEPT !.run = TRUE]
                                        ELSE qs[i]]

\* Controller.AddQueue and MultiSchedulingQueue.Add.
MQAdd(q) ==
  IF QueueNs[q] \in DOMAIN queueMap
  THEN UNCHANGED mqVars
  ELSE LET i == Len(queues) + 1
       IN  /\ queueMap' = Put(queueMap, QueueNs[q], i)
           /\ queues' = RunAll(Append(queues, NewPrioritySchedulingQueue(q)),
                               Registered \cup {i})

\* MultiSchedulingQueue.Update: a new, empty queue that nobody runs.
MQUpdate(q) ==
  /\ queueMap' = Put(queueMap, QueueNs[q], Len(queues) + 1)
  /\ queues' = Append(queues, NewPrioritySchedulingQueue(q))

MQDelete(q) ==
  /\ queueMap' = Drop(queueMap, QueueNs[q])
  /\ UNCHANGED queues

\* The results SortedQueue may return: the registered queues, highest priority
\* first, those of equal priority in any order.
SortedQueues ==
  {s \in SetToSeqs(Registered) :
     \A i, j \in DOMAIN s :
        i < j => queues[s[i]].priority >= queues[s[j]].priority}

\* One queue object changes to pq, the map stays.
SetQueue(i, pq) ==
  /\ queues' = [queues EXCEPT ![i] = pq]
  /\ UNCHANGED queueMap

\* The 1 second flush loop of a queue that Run has started.
FlushBackoffQCompleted(i) ==
  /\ queues[i].run
  /\ \E S \in SUBSET DOMAIN queues[i].backoffQ :
        /\ S # {}
        /\ SetQueue(i, SQFlush(queues[i], S))
============================================================================
