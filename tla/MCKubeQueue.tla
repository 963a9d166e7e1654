---------------------------- MODULE MCKubeQueue ----------------------------
(***************************************************************************)
(* Instances of KubeQueue for TLC: two units a and b, one or two           *)
(* namespaces, two dequeue goroutines.                                     *)
(***************************************************************************)
EXTENDS KubeQueue, TLC

CONSTANTS a, b, n1, n2, cpu, gpu, q1, q2, g1, g2

\* One namespace whose quota has room for one of the two units at a time, or for
\* any number of units that request nothing.
OneNs     == [u \in {a, b} |-> n1]
Two       == [u \in {a, b} |-> cpu :> 2]
TwoOrNone == {EmptyMap, cpu :> 2}
Room3     == n1 :> {[name |-> n1, nilHard |-> FALSE, hard |-> cpu :> 3]}
OneQ      == q1 :> n1
OneQPri   == q1 :> 0

\* Two namespaces with a queue and a quota each; both units belong to n1.  The
\* queues have equal priority, so the scheduler visits them in any order.
TwoQ     == q1 :> n1 @@ q2 :> n2
TwoQPri  == q1 :> 0 @@ q2 :> 0
TwoRooms == [n \in {n1, n2} |-> {[name |-> n, nilHard |-> FALSE, hard |-> cpu :> 3]}]

\* The same with two resources, and in n1 two quota objects, of which the one
\* named like the namespace counts; it does not limit cpu.
CpuGpu      == a :> (cpu :> 2 @@ gpu :> 1) @@ b :> (cpu :> 1 @@ gpu :> 2)
CpuGpuLists == {EmptyMap, CpuGpu[a], CpuGpu[b]}
TwoQuotas   ==
  n1 :> {[name |-> n1, nilHard |-> FALSE, hard |-> gpu :> 2],
         [name |-> n2, nilHard |-> FALSE, hard |-> cpu :> 0]} @@
  n2 :> {[name |-> n1, nilHard |-> TRUE, hard |-> EmptyMap]}

SymmetricWorkers == Permutations({g1, g2})
Symmetric == Permutations({a, b}) \cup SymmetricWorkers

\* At most so many events of each kind.
None         == [k \in Kinds |-> 0]
Writes4      == [None EXCEPT !["write"] = 4]
ColdStart    == [k \in Kinds |-> IF k \in {"write", "queueWrite"} THEN 2 ELSE 1]
QueueWrite   == [None EXCEPT !["write"] = 3, !["queueWrite"] = 1]
Crash        == [None EXCEPT !["write"] = 2, !["restart"] = 1]
MissedDelete == [None EXCEPT !["write"] = 2, !["missedDelete"] = 1]
Resize       == [None EXCEPT !["write"] = 4, !["resize"] = 1]
MissedCreate == [MissedDelete EXCEPT !["missedCreate"] = 1]

\* Constraint: faults of at most two kinds in one behaviour, whichever they are.
Faults    == Kinds \ {"write", "queueWrite"}
TwoFaults == Cardinality({k \in Faults : ~Unused(k)}) <= 2
============================================================================
