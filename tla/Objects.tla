------------------------------ MODULE Objects ------------------------------
(***************************************************************************)
(* The Kubernetes objects kube-queue works on.                             *)
(*                                                                         *)
(* A QueueUnit is identified by its key, namespace/name.  doc/queueunit.md *)
(* allows only its priority to change, but a key may be deleted and        *)
(* created again with another Spec.Resource, so every copy of a unit       *)
(* carries its own spec.  Quantities are natural numbers.                  *)
(***************************************************************************)
EXTENDS Integers, FiniteSets, Maps

CONSTANTS
  Units,         \* keys of the QueueUnits
  NoUnit,        \* not a unit
  Namespaces,
  Resources,     \* resource names: cpu, memory, ...
  NsOf,          \* NsOf[u]: metadata.namespace of u
  ConsumerNs,    \* ConsumerNs[u]: spec.consumerRef.namespace of u
  ResourceLists, \* the values of spec.resource of a unit
  Demand,        \* Demand[u]: the one that units of key u have unless resized
  Quotas,        \* Quotas[n]: the ResourceQuota objects of namespace n
  QueueObjects,  \* the Queue custom resources
  QueueNs,       \* QueueNs[q]: metadata.namespace of q
  QueuePriority, \* QueuePriority[q]: spec.priority of q, 0 when it is nil
  Priorities     \* the values of spec.priority of a unit, 0 for nil

\* A resource list is a map from some of the resource names to quantities.
\* A ResourceQuota object has a name and a hard limit, which may be nil.
ASSUME ConstantsOK ==
  /\ NoUnit \notin Units
  /\ NsOf \in [Units -> Namespaces]
  /\ ConsumerNs \in [Units -> Namespaces]
  /\ \A d \in ResourceLists : /\ DOMAIN d \subseteq Resources
                             /\ \A r \in DOMAIN d : d[r] \in Nat
  /\ EmptyMap \in ResourceLists
  /\ Demand \in [Units -> ResourceLists]
  /\ DOMAIN Quotas = Namespaces
  /\ \A n \in Namespaces : \A q \in Quotas[n] :
        /\ q.nilHard \in BOOLEAN
        /\ DOMAIN q.hard \subseteq Resources
        /\ \A r \in DOMAIN q.hard : q.hard[r] \in Nat
  /\ QueueNs \in [QueueObjects -> Namespaces]
  /\ QueuePriority \in [QueueObjects -> Int]
  /\ Priorities \subseteq Int /\ 0 \in Priorities

\* A cluster stores finitely many objects.
ASSUME FiniteObjects == IsFiniteSet(Units) /\ IsFiniteSet(QueueObjects)

\* The ResourceQuota objects of a namespace are told apart by their names.
ASSUME QuotaNames ==
  \A n \in Namespaces :
    /\ IsFiniteSet(Quotas[n])
    /\ \A p, q \in Quotas[n] : p.name = q.name => p = q

----------------------------------------------------------------------------

\* What decides about a unit: its priority and what it requests.
Specs == [priority : Priorities, resource : ResourceLists]

NoSpec == [priority |-> 0, resource |-> EmptyMap]

\* What a resource list requests of r; a resource it does not name counts 0.
Asks(d, r) == IF r \in DOMAIN d THEN d[r] ELSE 0

(***************************************************************************)
(* How much of r the units of S that live in n request together, when u    *)
(* requests D[u].  The sum is counted: Tokens holds Asks(D[u], r) distinct *)
(* pairs for every u.                                                      *)
(***************************************************************************)
Tokens(S, D, n, r) ==
  UNION {{u} \X (1 .. Asks(D[u], r)) : u \in {v \in S : NsOf[v] = n}}

Load(S, D, n, r) == Cardinality(Tokens(S, D, n, r))
============================================================================
