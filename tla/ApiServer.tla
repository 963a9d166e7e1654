----------------------------- MODULE ApiServer -----------------------------
(***************************************************************************)
(* The environment of kube-queue: the API server that stores QueueUnits    *)
(* and Queues, the clients that write them (extension servers, users) and  *)
(* the informers that deliver every change to kube-queue's handlers.       *)
(*                                                                         *)
(* An informer gives each registered handler its own FIFO and goroutine,   *)
(* so the two handlers of the QueueUnit informer and the one of the Queue  *)
(* informer advance independently.  A FIFO holds the events that pass the  *)
(* handler's FilterFunc.  The informer knows a change by comparing it with *)
(* what it saw last (seen): when the watch breaks, it may learn of a       *)
(* deletion late, or only that another object has taken the key.           *)
(*                                                                         *)
(* resourceVersion: an Update succeeds only if nobody wrote the object     *)
(* since the caller's Get.  current[u] is the set of goroutines whose copy *)
(* of u still carries the current resourceVersion.                         *)
(***************************************************************************)
EXTENDS Objects, Sequences, SequencesExt

CONSTANTS
  Workers,  \* identities of the goroutines that dequeue units
  Limits    \* bounds: how often each kind of outside event may happen

Kinds == {"write",         \* a client creates, updates or deletes a unit
          "resize",        \* ... with another Spec.Resource than Demand[u]
          "queueWrite",    \* a client creates, updates or deletes a queue
          "missedDelete",  \* a delete is missed by the watch
          "missedCreate",  \* ... and so is the creation that follows it
          "callError",     \* an API call fails and has no effect
          "lostReply",     \* an Update takes effect but reports an error
          "restart"}       \* the process dies and is started again

ASSUME LimitsOK == Limits \in [Kinds -> Nat]

VARIABLES
  api,             \* the stored units: a map to [phase, spec]
  unseen,          \* deleted units that the informer's store still has
  current,         \* current[u], see above
  unitEvents,      \* FIFO of the handler for units that are not Dequeued
  dequeuedEvents,  \* FIFO of the handler for Dequeued units
  apiQueues,       \* the stored Queue objects
  queueEvents,     \* FIFO of the Queue handler
  left             \* what is left of Limits

unitVars  == <<api, unseen, current, unitEvents, dequeuedEvents>>
queueVars == <<apiQueues, queueEvents>>
apiVars   == <<unitVars, queueVars, left>>

Spend(kinds) ==
  /\ \A k \in kinds : left[k] > 0
  /\ left' = [k \in Kinds |-> IF k \in kinds THEN left[k] - 1 ELSE left[k]]

----------------------------------------------------------------------------

\* The FilterFuncs of the two QueueUnit handlers; a unit that is not in a
\* passes neither.
IsQueued(a, u)   == u \in DOMAIN a /\ a[u].phase # "Dequeued"
IsDequeued(a, u) == u \in DOMAIN a /\ a[u].phase = "Dequeued"

\* The informer's store.
seen == [u \in DOMAIN api \cup DOMAIN unseen |->
           IF u \in DOMAIN api THEN api[u] ELSE unseen[u]]

\* cache.FilteringResourceEventHandler: what a handler is called with when an
\* object that did (was) or did not pass its filter now does (is) or does not.
\* It is given the new object, and on Delete the old one.
Filtered(u, was, is, new) ==
  CASE is /\ was   -> <<[op |-> "Update", unit |-> u, spec |-> new[u].spec]>>
    [] is /\ ~was  -> <<[op |-> "Add", unit |-> u, spec |-> new[u].spec]>>
    [] ~is /\ was  -> <<[op |-> "Delete", unit |-> u, spec |-> seen[u].spec]>>
    [] ~is /\ ~was -> << >>

\* The handler for Dequeued units has no UpdateFunc.
DequeuedEvents(u, new) ==
  IF IsDequeued(seen, u) /\ IsDequeued(new, u)
  THEN << >>
  ELSE Filtered(u, IsDequeued(seen, u), IsDequeued(new, u), new)

QueuedEvents(u, new) == Filtered(u, IsQueued(seen, u), IsQueued(new, u), new)

\* A write that changes u in the store to what it is in new.
Write(u, new) ==
  /\ api' = new
  /\ unseen' = Drop(unseen, u)
  /\ current' = [current EXCEPT ![u] = {}]
  /\ unitEvents' = unitEvents \o QueuedEvents(u, new)
  /\ dequeuedEvents' = dequeuedEvents \o DequeuedEvents(u, new)

----------------------------------------------------------------------------
\* Clients.

\* A unit created while the informer's store still has its predecessor reaches
\* the handlers as an update of that one.
CreateUnit(u, spec) ==
  /\ u \notin DOMAIN api
  /\ Spend({"write"}
             \cup (IF spec.resource = Demand[u] THEN {} ELSE {"resize"})
             \cup (IF u \in DOMAIN unseen THEN {"missedCreate"} ELSE {}))
  /\ Write(u, Put(api, u, [phase |-> "Enqueued", spec |-> spec]))
  /\ UNCHANGED queueVars

\* Only an Enqueued unit may be changed, and only its priority
\* (doc/queueunit.md); an update that keeps the priority stands for one of
\* labels or annotations.
UpdateUnit(u, p) ==
  /\ IsQueued(api, u)
  /\ Spend({"write"})
  /\ LET spec == [api[u].spec EXCEPT !.priority = p]
     IN  Write(u, [api EXCEPT ![u].spec = spec])
  /\ UNCHANGED queueVars

\* The job is withdrawn while it waits.
DeleteUnit(u) ==
  /\ IsQueued(api, u)
  /\ Spend({"write"})
  /\ Write(u, Drop(api, u))
  /\ UNCHANGED queueVars

\* The job has ended; "users need to delete the object of QueueUnit along with
\* the job".
FinishUnit(u) ==
  /\ IsDequeued(api, u)
  /\ Write(u, Drop(api, u))
  /\ UNCHANGED <<queueVars, left>>

\* The watch was broken when u was deleted.
DeleteUnitUnseen(u) ==
  /\ u \in DOMAIN api
  /\ Spend({"missedDelete"})
  /\ api' = Drop(api, u)
  /\ unseen' = Put(unseen, u, api[u])
  /\ current' = [current EXCEPT ![u] = {}]
  /\ UNCHANGED <<unitEvents, dequeuedEvents, queueVars>>

\* The relist of a watch that was broken finds u missing and delivers a
\* cache.DeletedFinalStateUnknown, which both FilterFuncs reject.
RelistMissing(u) ==
  /\ u \in DOMAIN unseen
  /\ unseen' = Drop(unseen, u)
  /\ UNCHANGED <<api, current, unitEvents, dequeuedEvents, queueVars, left>>

QueueEvent(q, op) == queueEvents' = Append(queueEvents, [op |-> op, queue |-> q])

CreateQueue(q) ==
  /\ q \notin apiQueues
  /\ Spend({"queueWrite"})
  /\ apiQueues' = apiQueues \cup {q}
  /\ QueueEvent(q, "Add")
  /\ UNCHANGED unitVars

TouchQueue(q) ==
  /\ q \in apiQueues
  /\ Spend({"queueWrite"})
  /\ QueueEvent(q, "Update")
  /\ UNCHANGED <<apiQueues, unitVars>>

RemoveQueue(q) ==
  /\ q \in apiQueues
  /\ Spend({"queueWrite"})
  /\ apiQueues' = apiQueues \ {q}
  /\ QueueEvent(q, "Delete")
  /\ UNCHANGED unitVars

Clients ==
  \/ \E u \in Units : \/ \E spec \in Specs : CreateUnit(u, spec)
                      \/ \E p \in Priorities : UpdateUnit(u, p)
                      \/ DeleteUnit(u) \/ FinishUnit(u)
                      \/ DeleteUnitUnseen(u) \/ RelistMissing(u)
  \/ \E q \in QueueObjects : CreateQueue(q) \/ TouchQueue(q) \/ RemoveQueue(q)

----------------------------------------------------------------------------

ApiInit ==
  /\ api = EmptyMap /\ unseen = EmptyMap
  /\ current = [u \in Units |-> {}]
  /\ unitEvents = << >>
  /\ dequeuedEvents = << >>
  /\ apiQueues = {}
  /\ queueEvents = << >>
  /\ left = Limits

\* The informers of a new process list the stored objects: one Add for each,
\* in the order of the list.
Relist ==
  LET AddAll(S, E(_)) ==
        {[i \in DOMAIN s |-> E(s[i])] : s \in SetToSeqs(S)}
  IN  /\ unitEvents' \in
           AddAll({u \in Units : IsQueued(api, u)},
                  LAMBDA u : [op |-> "Add", unit |-> u, spec |-> api[u].spec])
      /\ dequeuedEvents' \in
           AddAll({u \in Units : IsDequeued(api, u)},
                  LAMBDA u : [op |-> "Add", unit |-> u, spec |-> api[u].spec])
      /\ queueEvents' \in
           AddAll(apiQueues, LAMBDA q : [op |-> "Add", queue |-> q])
      /\ unseen' = EmptyMap
      /\ current' = [u \in Units |-> {}]
      /\ UNCHANGED <<api, apiQueues>>
============================================================================
