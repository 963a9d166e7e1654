----------------------------- MODULE Admission -----------------------------
(***************************************************************************)
(* What kube-queue is for, seen from the API server: jobs are submitted    *)
(* and wait, and a waiting job is admitted only when the quota has room    *)
(* for it next to all the jobs that run.                                   *)
(***************************************************************************)
CONSTANTS
  Units,
  Room(_)    \* Room(S): the quota has room for the units of S together

VARIABLES
  waiting,   \* the units that are submitted and not Dequeued
  running    \* the units that are Dequeued

Submit(u) ==
  /\ u \notin waiting \cup running
  /\ waiting' = waiting \cup {u}
  /\ UNCHANGED running

Withdraw(u) ==
  /\ u \in waiting
  /\ waiting' = waiting \ {u}
  /\ UNCHANGED running

Admit(u) ==
  /\ u \in waiting
  /\ Room(running \cup {u})
  /\ waiting' = waiting \ {u}
  /\ running' = running \cup {u}

End(u) ==
  /\ u \in running
  /\ running' = running \ {u}
  /\ UNCHANGED waiting

Init == waiting = {} /\ running = {}

Next == \E u \in Units : Submit(u) \/ Withdraw(u) \/ Admit(u) \/ End(u)

Spec == Init /\ [][Next]_<<waiting, running>>
============================================================================
