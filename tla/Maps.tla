------------------------------- MODULE Maps --------------------------------
(***************************************************************************)
(* Go maps: functions whose domain is the set of keys present.             *)
(***************************************************************************)

\* The maps from some of A to B.
MapsTo(A, B) == UNION {[S -> B] : S \in SUBSET A}

EmptyMap == [x \in {} |-> x]
Put(f, k, v) == [x \in DOMAIN f \cup {k} |-> IF x = k THEN v ELSE f[x]]
Drop(f, k) == [x \in DOMAIN f \ {k} |-> f[x]]
============================================================================
