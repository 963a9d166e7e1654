--------------------------- MODULE ResourceQuota ---------------------------
(***************************************************************************)
(* The ResourceQuota plugin (pkg/framework/plugins/resourcequota): the     *)
(* filter and reserve plugin that decides whether a QueueUnit may leave    *)
(* its queue.  It keeps, per namespace, how much of every resource has     *)
(* been promised ("reserved") and the keys of the units it promised it to  *)
(* ("quRecord").                                                           *)
(***************************************************************************)
EXTENDS Objects

VARIABLES
  reserved,  \* a map from the namespaces met so far to what is reserved there
  quRecord   \* the units that hold a reservation

rqVars == <<reserved, quRecord>>

----------------------------------------------------------------------------

\* A resource that is missing in reserved[n] is kept as 0 here: the code reads
\* a missing entry as the zero quantity and deletes an entry that reaches zero.
GetReservedByResourceName(n, r) ==
  IF n \in DOMAIN reserved THEN reserved[n][r] ELSE 0

\* u is the key of the unit that Reserve and Unreserve are given, d the
\* Spec.Resource of that copy of it.

\* Mutant of Reserve: the unit is not recorded.
ReserveNoRecord(u, d) ==
  /\ u \notin quRecord
  /\ reserved' = [n \in DOMAIN reserved \cup {NsOf[u]} |->
                    IF n = NsOf[u]
                    THEN [r \in Resources |->
                            GetReservedByResourceName(n, r) + Asks(d, r)]
                    ELSE reserved[n]]
  /\ UNCHANGED quRecord

Reserve(u, d) ==
  /\ u \notin quRecord
  /\ reserved' = [n \in DOMAIN reserved \cup {NsOf[u]} |->
                    IF n = NsOf[u]
                    THEN [r \in Resources |->
                            GetReservedByResourceName(n, r) + Asks(d, r)]
                    ELSE reserved[n]]
  /\ quRecord' = quRecord \cup {u}

\* Reserve on a unit that is already recorded: status Error, nothing changes.
ReserveFails(u) ==
  /\ u \in quRecord
  /\ UNCHANGED rqVars

\* The two early returns of Unreserve: no record, or no such namespace.
NothingToUnreserve(u) == u \notin quRecord \/ NsOf[u] \notin DOMAIN reserved

\* Mutant of Unreserve: the record stays.
UnreserveKeepRecord(u, d) ==
  \/ /\ NothingToUnreserve(u)
     /\ UNCHANGED rqVars
  \/ /\ ~NothingToUnreserve(u)
     /\ reserved' = [reserved EXCEPT ![NsOf[u]] =
                       [r \in Resources |-> IF @[r] - Asks(d, r) <= 0
                                            THEN 0
                                            ELSE @[r] - Asks(d, r)]]
     /\ UNCHANGED quRecord

Unreserve(u, d) ==
  \/ /\ NothingToUnreserve(u)
     /\ UNCHANGED rqVars
  \/ /\ ~NothingToUnreserve(u)
     /\ reserved' = [reserved EXCEPT ![NsOf[u]] =
                       [r \in Resources |-> IF @[r] - Asks(d, r) <= 0
                                            THEN 0
                                            ELSE @[r] - Asks(d, r)]]
     /\ quRecord' = quRecord \ {u}

(***************************************************************************)
(* Filter.  SelectResourceQuota yields the quota to check against, as a    *)
(* set with at most one element: the only one of the namespace, or the one *)
(* named like the namespace.  Filter looks at the namespace of the         *)
(* ConsumerRef, and at one resource after the other (FitsIn).              *)
(***************************************************************************)
SelectResourceQuota(rqs, n) ==
  IF Cardinality(rqs) = 1 THEN rqs ELSE {q \in rqs : q.name = n}

Baskets(rqs, u) ==
  {q \in SelectResourceQuota(rqs, ConsumerNs[u]) : ~q.nilHard}

\* Mutant of FitsIn: off by one.
FitsInOffByOne(basket, u, d, r) ==
  r \in DOMAIN basket.hard =>
    GetReservedByResourceName(ConsumerNs[u], r) + d[r] - 1 <= basket.hard[r]

FitsIn(basket, u, d, r) ==
  r \in DOMAIN basket.hard =>
    GetReservedByResourceName(ConsumerNs[u], r) + d[r] <= basket.hard[r]

\* The units of S, requesting what D says, stay together within the quota that
\* Filter selects for each namespace.
WithinQuota(S, D) ==
  \A n \in Namespaces :
    \A q \in SelectResourceQuota(Quotas[n], n) :
      \A r \in DOMAIN q.hard : ~q.nilHard => Load(S, D, n, r) <= q.hard[r]

----------------------------------------------------------------------------

RQInit == reserved = EmptyMap /\ quRecord = {}

\* On its own the plugin meets any sequence of calls with any copies.
RQNext ==
  \E u \in Units : \/ \E d \in ResourceLists : Reserve(u, d) \/ Unreserve(u, d)
                   \/ ReserveFails(u)

RQSpec == RQInit /\ [][RQNext]_rqVars

\* The same when all copies of a key have the same Spec.Resource.
MatchedNext ==
  \E u \in Units : Reserve(u, Demand[u]) \/ ReserveFails(u) \/ Unreserve(u, Demand[u])

MatchedSpec == RQInit /\ [][MatchedNext]_rqVars

RQTypeOK ==
  /\ quRecord \in SUBSET Units
  /\ DOMAIN reserved \in SUBSET Namespaces
  /\ reserved \in [DOMAIN reserved -> [Resources -> Nat]]

\* The ledger is exact: for every namespace and resource, the reserved quantity
\* is the sum of what the recorded units request.
ReservedIsSum ==
  /\ \A n \in Namespaces, r \in Resources :
        GetReservedByResourceName(n, r) = Load(quRecord, Demand, n, r)
  /\ \A u \in quRecord : NsOf[u] \in DOMAIN reserved
============================================================================
