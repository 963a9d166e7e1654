------------------------ MODULE ResourceQuotaProofs ------------------------
(***************************************************************************)
(* The ledger of the ResourceQuota plugin, for any set of units,           *)
(* namespaces and resources and any sequence of calls: never negative, and *)
(* exact if all copies of a key that the calls are given request the same. *)
(*                                                                         *)
(* The invariant RQInv adds to the two results that the tokens counted by  *)
(* Load form finite sets; the set of units itself need not be finite.      *)
(***************************************************************************)
EXTENDS ResourceQuota, FiniteSetTheorems, TLAPS

FiniteTokens(S) ==
  \A n \in Namespaces, r \in Resources : IsFiniteSet(Tokens(S, Demand, n, r))

RQInv == RQTypeOK /\ ReservedIsSum /\ FiniteTokens(quRecord)

\* The share of u in the load of namespace n.
Share(u, n, r) == IF NsOf[u] = n THEN Asks(Demand[u], r) ELSE 0

----------------------------------------------------------------------------

\* A request is a natural number (Spec.Resource, read by Reserve).
LEMMA AsksNat ==
  /\ \A d \in ResourceLists, r \in Resources : Asks(d, r) \in Nat
  /\ \A u \in Units : Demand[u] \in ResourceLists
  /\ \A u \in Units, r \in Resources : Asks(Demand[u], r) \in Nat
BY ConstantsOK DEF ConstantsOK, Asks

\* Nothing is counted for no units (the state New leaves the plugin in).
LEMMA LoadEmpty ==
  ASSUME NEW n \in Namespaces, NEW r \in Resources
  PROVE  IsFiniteSet(Tokens({}, Demand, n, r)) /\ Load({}, Demand, n, r) = 0
<1>1. Tokens({}, Demand, n, r) = {}
  BY DEF Tokens
<1>2. QED
  BY <1>1, FS_EmptySet DEF Load

\* The tokens of a single unit: Asks(Demand[u], r) of them.
LEMMA TokensOfOne ==
  ASSUME NEW u \in Units, NEW r \in Resources
  PROVE  /\ IsFiniteSet({u} \X (1 .. Asks(Demand[u], r)))
         /\ Cardinality({u} \X (1 .. Asks(Demand[u], r))) = Asks(Demand[u], r)
<1> DEFINE k == Asks(Demand[u], r)
<1>1. k \in Nat
  BY AsksNat
<1>2. IsFiniteSet(1 .. k) /\ Cardinality(1 .. k) = k
  BY <1>1, FS_Interval
<1>3. IsFiniteSet({u}) /\ Cardinality({u}) = 1
  BY FS_Singleton
<1> HIDE DEF k
<1>4. /\ IsFiniteSet({u} \X (1 .. k))
      /\ Cardinality({u} \X (1 .. k)) = 1 * k
  BY <1>2, <1>3, FS_Product
<1>5. QED
  BY <1>1, <1>4 DEF k

\* What Reserve adds: one more unit adds its share to the load, and only there.
LEMMA LoadAdd ==
  ASSUME NEW S \in SUBSET Units, NEW u \in Units \ S,
         NEW n \in Namespaces, NEW r \in Resources,
         IsFiniteSet(Tokens(S, Demand, n, r))
  PROVE  /\ IsFiniteSet(Tokens(S \cup {u}, Demand, n, r))
         /\ Load(S \cup {u}, Demand, n, r) = Load(S, Demand, n, r) + Share(u, n, r)
         /\ Load(S, Demand, n, r) \in Nat
<1> DEFINE Mine == {u} \X (1 .. Asks(Demand[u], r))
<1>1. Load(S, Demand, n, r) \in Nat
  BY FS_CardinalityType DEF Load
<1>2. CASE NsOf[u] # n
  <2>1. Tokens(S \cup {u}, Demand, n, r) = Tokens(S, Demand, n, r)
    BY <1>2 DEF Tokens
  <2>2. QED
    BY <1>1, <1>2, <2>1 DEF Load, Share
<1>3. CASE NsOf[u] = n
  <2>1. Tokens(S \cup {u}, Demand, n, r) = Tokens(S, Demand, n, r) \cup Mine
    BY <1>3 DEF Tokens
  <2>2. Tokens(S, Demand, n, r) \cap Mine = {}
    BY DEF Tokens
  <2>3. IsFiniteSet(Mine) /\ Cardinality(Mine) = Asks(Demand[u], r)
    BY TokensOfOne
  <2> HIDE DEF Mine
  <2>4. /\ IsFiniteSet(Tokens(S, Demand, n, r) \cup Mine)
        /\ Cardinality(Tokens(S, Demand, n, r) \cup Mine) =
             Cardinality(Tokens(S, Demand, n, r)) + Cardinality(Mine) - Cardinality({})
    BY <2>2, <2>3, FS_Union
  <2>5. /\ IsFiniteSet(Tokens(S \cup {u}, Demand, n, r))
        /\ Load(S \cup {u}, Demand, n, r) = Load(S, Demand, n, r) + Cardinality(Mine) - Cardinality({})
    BY <2>1, <2>4, Zenon DEF Load
  <2>6. Cardinality({}) = 0
    BY FS_EmptySet
  <2>7. Asks(Demand[u], r) \in Nat
    BY AsksNat
  <2>8. Share(u, n, r) = Asks(Demand[u], r)
    BY <1>3 DEF Share
  <2>9. QED
    BY <1>1, <2>3, <2>5, <2>6, <2>7, <2>8
<1>4. QED
  BY <1>2, <1>3

\* A part of the units has a part of the load.
LEMMA LoadMono ==
  ASSUME NEW S, NEW T \in SUBSET S, NEW D, NEW n, NEW r,
         IsFiniteSet(Tokens(S, D, n, r))
  PROVE  /\ IsFiniteSet(Tokens(T, D, n, r))
         /\ Load(T, D, n, r) <= Load(S, D, n, r)
         /\ Load(T, D, n, r) \in Nat
         /\ Load(S, D, n, r) \in Nat
<1>1. Tokens(T, D, n, r) \in SUBSET Tokens(S, D, n, r)
  BY DEF Tokens
<1>2. QED
  BY <1>1, FS_Subset, FS_CardinalityType DEF Load

\* What Unreserve takes back: the unit's share, which the load contains.
LEMMA LoadRemove ==
  ASSUME NEW S \in SUBSET Units, NEW u \in S,
         NEW n \in Namespaces, NEW r \in Resources,
         IsFiniteSet(Tokens(S, Demand, n, r))
  PROVE  /\ IsFiniteSet(Tokens(S \ {u}, Demand, n, r))
         /\ Load(S \ {u}, Demand, n, r) = Load(S, Demand, n, r) - Share(u, n, r)
         /\ Load(S \ {u}, Demand, n, r) \in Nat
<1>1. S \ {u} \in SUBSET Units /\ u \in Units \ (S \ {u})
  OBVIOUS
<1>2. (S \ {u}) \cup {u} = S
  OBVIOUS
<1>3. IsFiniteSet(Tokens(S \ {u}, Demand, n, r))
  BY LoadMono
<1>4. /\ Load((S \ {u}) \cup {u}, Demand, n, r) = Load(S \ {u}, Demand, n, r) + Share(u, n, r)
      /\ Load(S \ {u}, Demand, n, r) \in Nat
  BY <1>1, <1>3, LoadAdd
<1>5. Share(u, n, r) \in Nat
  BY AsksNat DEF Share
<1>6. Load(S, Demand, n, r) = Load(S \ {u}, Demand, n, r) + Share(u, n, r)
  BY <1>2, <1>4, Zenon
<1>7. QED
  BY <1>3, <1>4, <1>5, <1>6

----------------------------------------------------------------------------

\* New leaves the plugin with an empty ledger, which is exact.
LEMMA RQInitInv == RQInit => RQInv
<1> SUFFICES ASSUME RQInit PROVE RQInv
  OBVIOUS
<1>1. DOMAIN reserved = {} /\ quRecord = {}
  BY DEF RQInit, EmptyMap
<1>2. RQTypeOK
  BY <1>1 DEF RQTypeOK, RQInit, EmptyMap
<1>3. ReservedIsSum /\ FiniteTokens(quRecord)
  BY <1>1, LoadEmpty DEF ReservedIsSum, FiniteTokens, GetReservedByResourceName
<1>4. QED
  BY <1>2, <1>3 DEF RQInv

\* What Reserve does, given the copy d of unit u.
Adds(u, d) ==
  /\ NsOf[u] \in Namespaces
  /\ u \in Units \ quRecord /\ quRecord' = quRecord \cup {u}
  /\ DOMAIN reserved' = DOMAIN reserved \cup {NsOf[u]}
  /\ \A n \in DOMAIN reserved' : reserved'[n] =
       IF n = NsOf[u]
       THEN [r \in Resources |-> GetReservedByResourceName(n, r) + Asks(d, r)]
       ELSE reserved[n]

LEMMA ReserveAdds ==
  ASSUME NEW u \in Units, NEW d, Reserve(u, d)
  PROVE  Adds(u, d)
BY ConstantsOK DEF ConstantsOK, Reserve, Adds

\* What Unreserve does, where it does not return early.
Takes(u, d) ==
  /\ NsOf[u] \in Namespaces /\ NsOf[u] \in DOMAIN reserved
  /\ u \in quRecord /\ quRecord' = quRecord \ {u}
  /\ DOMAIN reserved' = DOMAIN reserved
  /\ reserved' = [n \in DOMAIN reserved' |-> reserved'[n]]
  /\ \A n \in DOMAIN reserved : n # NsOf[u] => reserved'[n] = reserved[n]
  /\ reserved'[NsOf[u]] = [r \in Resources |->
       IF reserved[NsOf[u]][r] - Asks(d, r) <= 0 THEN 0
       ELSE reserved[NsOf[u]][r] - Asks(d, r)]

LEMMA UnreserveTakes ==
  ASSUME RQTypeOK, NEW u \in Units, NEW d, Unreserve(u, d), ~NothingToUnreserve(u)
  PROVE  Takes(u, d)
<1> DEFINE m == NsOf[u]
           f == [r \in Resources |-> IF reserved[m][r] - Asks(d, r) <= 0 THEN 0
                                     ELSE reserved[m][r] - Asks(d, r)]
<1>1. m \in Namespaces /\ m \in DOMAIN reserved /\ u \in quRecord
  BY ConstantsOK DEF ConstantsOK, NothingToUnreserve
<1>2. quRecord' = quRecord \ {u} /\ reserved' = [reserved EXCEPT ![m] = f]
  BY DEF Unreserve
<1> HIDE DEF f
<1>3. /\ DOMAIN reserved' = DOMAIN reserved /\ reserved'[m] = f
      /\ reserved' = [n \in DOMAIN reserved' |-> reserved'[n]]
      /\ \A n \in DOMAIN reserved : n # m => reserved'[n] = reserved[n]
  BY <1>1, <1>2
<1>4. QED
  BY <1>1, <1>2, <1>3 DEF f, Takes

\* Reserve leaves natural numbers, whatever copy it is given.
LEMMA ReserveType ==
  ASSUME RQTypeOK, NEW u \in Units, NEW d \in ResourceLists, Reserve(u, d)
  PROVE  RQTypeOK'
<1>0. Adds(u, d)
  BY ReserveAdds
<1>1. \A n \in Namespaces, r \in Resources :
        GetReservedByResourceName(n, r) \in Nat
  BY DEF RQTypeOK, GetReservedByResourceName
<1>2. ASSUME NEW n \in DOMAIN reserved'
      PROVE  reserved'[n] \in [Resources -> Nat]
  <2>1. CASE n = NsOf[u]
    <3>1. \A r \in Resources :
            GetReservedByResourceName(n, r) + Asks(d, r) \in Nat
      BY <1>1, <2>1, <1>0, AsksNat DEF Adds
    <3>2. reserved'[n] =
            [r \in Resources |-> GetReservedByResourceName(n, r) + Asks(d, r)]
      BY <2>1, <1>0 DEF Adds
    <3>3. QED
      BY <3>1, <3>2
  <2>2. CASE n # NsOf[u]
    BY <2>2, <1>0 DEF RQTypeOK, Adds
  <2>3. QED
    BY <2>1, <2>2
<1>3. reserved' = [n \in DOMAIN reserved' |-> reserved'[n]]
  BY DEF Reserve
<1>4. quRecord' \in SUBSET Units /\ DOMAIN reserved' \in SUBSET Namespaces
  BY <1>0 DEF RQTypeOK, Adds
<1>5. QED
  BY <1>2, <1>3, <1>4 DEF RQTypeOK

\* Unreserve leaves natural numbers, whatever copy it is given: it deletes an entry
\* that would not stay positive.
LEMMA UnreserveType ==
  ASSUME RQTypeOK, NEW u \in Units, NEW d \in ResourceLists, Unreserve(u, d),
         ~NothingToUnreserve(u)
  PROVE  RQTypeOK'
<1>0. Takes(u, d)
  BY UnreserveTakes
<1>1. \A n \in DOMAIN reserved : reserved[n] \in [Resources -> Nat]
  BY DEF RQTypeOK
<1>2. reserved'[NsOf[u]] \in [Resources -> Nat]
  <2>1. \A r \in Resources : reserved[NsOf[u]][r] \in Nat /\ Asks(d, r) \in Nat
    BY <1>1, <1>0, AsksNat DEF Takes
  <2>2. QED
    BY <2>1, <1>0 DEF Takes
<1>3. \A n \in DOMAIN reserved' : reserved'[n] \in [Resources -> Nat]
  BY <1>1, <1>2, <1>0 DEF Takes
<1>4. QED
  BY <1>0, <1>3 DEF RQTypeOK, Takes

LEMMA RQStutterType == RQTypeOK /\ UNCHANGED rqVars => RQTypeOK'
BY DEF rqVars, RQTypeOK

\* Every call of the plugin, with any copy.
LEMMA RQNextType ==
  ASSUME RQTypeOK, NEW u \in Units, NEW d \in ResourceLists,
         Reserve(u, d) \/ ReserveFails(u) \/ Unreserve(u, d)
  PROVE  RQTypeOK'
<1>1. CASE Unreserve(u, d) /\ ~NothingToUnreserve(u)
  BY <1>1, UnreserveType
<1>2. QED
  BY <1>1, ReserveType, RQStutterType DEF ReserveFails, Unreserve

----------------------------------------------------------------------------

\* Reserve keeps the ledger exact: it adds a request at most once per unit.
LEMMA ReserveInv ==
  ASSUME RQInv, NEW u \in Units, Reserve(u, Demand[u])
  PROVE  RQInv'
<1> USE DEF RQInv
<1>0. Adds(u, Demand[u])
  BY ReserveAdds
<1>1. RQTypeOK'
  BY ReserveType, AsksNat
<1>2. ASSUME NEW n \in Namespaces, NEW r \in Resources
      PROVE  /\ IsFiniteSet(Tokens(quRecord', Demand, n, r))
             /\ GetReservedByResourceName(n, r)' = Load(quRecord', Demand, n, r)
  <2>1. /\ IsFiniteSet(Tokens(quRecord', Demand, n, r))
        /\ Load(quRecord', Demand, n, r) = Load(quRecord, Demand, n, r) + Share(u, n, r)
        /\ Load(quRecord, Demand, n, r) \in Nat
    BY <1>0, LoadAdd DEF RQTypeOK, FiniteTokens, Adds
  <2>2. GetReservedByResourceName(n, r) = Load(quRecord, Demand, n, r)
    BY DEF ReservedIsSum
  <2>3. CASE n = NsOf[u]
    <3>1. n \in DOMAIN reserved'
      BY <2>3, <1>0 DEF Adds
    <3>2. reserved'[n][r] = GetReservedByResourceName(n, r) + Asks(Demand[u], r)
      BY <2>3, <3>1, <1>0 DEF Adds
    <3>3. GetReservedByResourceName(n, r)' = reserved'[n][r]
      BY <3>1 DEF GetReservedByResourceName
    <3>4. QED
      BY <2>1, <2>2, <2>3, <3>2, <3>3 DEF Share
  <2>4. CASE n # NsOf[u]
    <3>1. GetReservedByResourceName(n, r)' = GetReservedByResourceName(n, r)
      BY <2>4, <1>0 DEF GetReservedByResourceName, Adds
    <3>2. QED
      BY <2>1, <2>2, <2>4, <3>1 DEF Share
  <2>5. QED
    BY <2>1, <2>3, <2>4
<1>3. \A v \in quRecord' : NsOf[v] \in DOMAIN reserved'
  BY <1>0 DEF ReservedIsSum, Adds
<1>4. ReservedIsSum' /\ FiniteTokens(quRecord)'
  BY <1>2, <1>3 DEF ReservedIsSum, FiniteTokens, Load, Tokens, Asks
<1>5. QED
  BY <1>1, <1>4

\* Unreserve keeps the ledger exact: it takes back what was added, and the clamp
\* at zero is never used to hide a deficit.
LEMMA UnreserveInv ==
  ASSUME RQInv, NEW u \in Units, Unreserve(u, Demand[u]), ~NothingToUnreserve(u)
  PROVE  RQInv'
<1> USE DEF RQInv
<1> DEFINE m == NsOf[u]
<1>0. Takes(u, Demand[u])
  BY UnreserveTakes
<1>1. /\ m \in Namespaces /\ m \in DOMAIN reserved /\ u \in quRecord
      /\ quRecord' = quRecord \ {u} /\ DOMAIN reserved' = DOMAIN reserved
  BY <1>0 DEF Takes
<1>2. RQTypeOK'
  BY UnreserveType, AsksNat
<1>3. ASSUME NEW n \in Namespaces, NEW r \in Resources
      PROVE  /\ IsFiniteSet(Tokens(quRecord', Demand, n, r))
             /\ GetReservedByResourceName(n, r)' = Load(quRecord', Demand, n, r)
  <2>1. /\ IsFiniteSet(Tokens(quRecord', Demand, n, r))
        /\ Load(quRecord', Demand, n, r) = Load(quRecord, Demand, n, r) - Share(u, n, r)
        /\ Load(quRecord', Demand, n, r) \in Nat
    BY <1>1, LoadRemove DEF RQTypeOK, FiniteTokens
  <2>2. GetReservedByResourceName(n, r) = Load(quRecord, Demand, n, r)
    BY DEF ReservedIsSum
  <2>3. CASE n = m
    <3>1. reserved[m][r] \in Nat /\ Asks(Demand[u], r) \in Nat
      BY <1>1, AsksNat DEF RQTypeOK
    <3>2. reserved[m][r] - Asks(Demand[u], r) = Load(quRecord', Demand, n, r)
      BY <1>1, <2>1, <2>2, <2>3 DEF GetReservedByResourceName, Share
    <3>3. reserved'[m][r] = IF reserved[m][r] - Asks(Demand[u], r) <= 0 THEN 0
                            ELSE reserved[m][r] - Asks(Demand[u], r)
      BY <1>0 DEF Takes
    <3>4. reserved'[m][r] = Load(quRecord', Demand, n, r)
      BY <2>1, <3>1, <3>2, <3>3
    <3>5. QED
      BY <1>1, <2>1, <2>3, <3>4 DEF GetReservedByResourceName
  <2>4. CASE n # m
    <3>1. Load(quRecord, Demand, n, r) \in Nat
      BY FS_CardinalityType DEF Load, FiniteTokens
    <3>2. Load(quRecord', Demand, n, r) = Load(quRecord, Demand, n, r)
      BY <2>1, <2>4, <3>1 DEF Share
    <3>3. GetReservedByResourceName(n, r)' = GetReservedByResourceName(n, r)
      BY <1>1, <2>4, <1>0 DEF GetReservedByResourceName, Takes
    <3>4. QED
      BY <2>1, <2>2, <3>2, <3>3
  <2>5. QED
    BY <2>3, <2>4
<1>4. \A v \in quRecord' : NsOf[v] \in DOMAIN reserved'
  BY <1>1 DEF ReservedIsSum
<1>5. ReservedIsSum' /\ FiniteTokens(quRecord)'
  BY <1>3, <1>4 DEF ReservedIsSum, FiniteTokens, Load, Tokens, Asks
<1>6. QED
  BY <1>2, <1>5

\* A call that changes nothing keeps everything.
LEMMA RQStutterInv == RQInv /\ UNCHANGED rqVars => RQInv'
BY DEF RQInv, rqVars, RQTypeOK, ReservedIsSum, FiniteTokens,
       GetReservedByResourceName, Load, Tokens, Asks

\* Every call with a copy that requests Demand[u] keeps the invariant.
LEMMA RQNextInv ==
  ASSUME RQInv, NEW u \in Units,
         Reserve(u, Demand[u]) \/ ReserveFails(u) \/ Unreserve(u, Demand[u])
  PROVE  RQInv'
<1>1. CASE Unreserve(u, Demand[u]) /\ ~NothingToUnreserve(u)
  BY <1>1, UnreserveInv
<1>2. QED
  BY <1>1, ReserveInv, RQStutterInv DEF ReserveFails, Unreserve

----------------------------------------------------------------------------

\* The record holds keys of units and the reserved quantities are natural numbers:
\* no sequence of Reserve and Unreserve, with whatever copies of the units, makes
\* one negative (Unreserve deletes an entry that would not stay positive).
THEOREM RQTypeCorrect == RQSpec => []RQTypeOK
<1>1. RQInit => RQTypeOK
  BY RQInitInv DEF RQInv
<1>2. RQTypeOK /\ [RQNext]_rqVars => RQTypeOK'
  BY RQNextType, RQStutterType, AsksNat DEF RQNext
<1>3. QED
  BY <1>1, <1>2, PTL DEF RQSpec

\* The ledger is exact after any sequence of Reserve and Unreserve in which all
\* copies of a key request the same: what is reserved is then the sum of what the
\* recorded units request.
THEOREM LedgerExact == MatchedSpec => []ReservedIsSum
<1>1. RQInv /\ [MatchedNext]_rqVars => RQInv'
  BY RQNextInv, RQStutterInv DEF MatchedNext
<1>2. RQInv => ReservedIsSum
  BY DEF RQInv
<1>3. QED
  BY <1>1, <1>2, RQInitInv, PTL DEF MatchedSpec
============================================================================
