----------------------------- MODULE LeastMap ------------------------------
(***************************************************************************)
(* What the queues expect of a heap: a map from keys to objects from which *)
(* a least object can be taken.                                            *)
(***************************************************************************)
EXTENDS Maps

CONSTANTS
  Keys,
  NoKey,          \* not a key
  Objects,
  LessFn(_, _)    \* LessFn(a, b): a goes in front of b

VARIABLES
  objs,           \* the map
  last            \* the last operation and its key

\* No object of the map m goes in front of that of k.
IsLeast(m, k) == \A j \in DOMAIN m : ~LessFn(m[j], m[k])

Add(k, v) == objs' = Put(objs, k, v) /\ last' = <<"add", k>>

Delete(k) == k \in DOMAIN objs /\ objs' = Drop(objs, k) /\ last' = <<"delete", k>>

Pop(k) ==
  /\ k \in DOMAIN objs /\ IsLeast(objs, k)
  /\ objs' = Drop(objs, k)
  /\ last' = <<"pop", k>>

Init == objs = EmptyMap /\ last = <<"none", NoKey>>

Next == \E k \in Keys : Delete(k) \/ Pop(k) \/ \E v \in Objects : Add(k, v)

Spec == Init /\ [][Next]_<<objs, last>>
============================================================================
