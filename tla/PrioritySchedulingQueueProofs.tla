------------------- MODULE PrioritySchedulingQueueProofs -------------------
(***************************************************************************)
(* The queue with its clock, for every set of units, callers and           *)
(* priorities, every length of the backoffs and of the flush period:       *)
(* calculateBackoffDuration computes what options.go describes, no unit is *)
(* tried before its backoff is over, the flush leaves none behind that it  *)
(* should take, and the queue does only what SchedulingQueue says.         *)
(***************************************************************************)
EXTENDS PrioritySchedulingQueue, TLAPS, WellFoundedInduction

(***************************************************************************)
(* Induction, with the set of the numbers of which something holds.        *)
(***************************************************************************)
LEMMA NatSetInduction ==
  ASSUME NEW S, 0 \in S, \A n \in Nat : n \in S => n + 1 \in S
  PROVE  Nat \subseteq S
<1> DEFINE R == OpToRel(<, Nat)
           T == Nat \ S
<1>1. IsWellFoundedOn(R, Nat)
  BY NatLessThanWellFounded
<1>2. \A x, y \in Nat : x < y => <<x, y>> \in R
  BY DEF OpToRel
<1> HIDE DEF R
<1>3. SUFFICES ASSUME T # {}
               PROVE  FALSE
  OBVIOUS
<1>4. T \in SUBSET Nat
  OBVIOUS
<1>5. PICK x \in T : \A y \in T : ~(<<y, x>> \in R)
  BY <1>1, <1>3, <1>4, WFMin
<1>6. x \in Nat /\ x # 0 /\ x - 1 \in Nat /\ x - 1 < x /\ x \notin S
  OBVIOUS
<1>7. x - 1 \in S
  BY <1>2, <1>5, <1>6
<1>8. QED
  BY <1>6, <1>7

\* The first values of a function that starts with a and goes on with step.
Prefix(g, n, a, step) ==
  g[0] = a /\ \A m \in Nat : m < n => g[m + 1] = step[g[m]]

LEMMA PrefixExists ==
  ASSUME NEW a \in Nat, NEW step \in [Nat -> Nat], NEW n \in Nat
  PROVE  \E g \in [Nat -> Nat] : Prefix(g, n, a, step)
<1> DEFINE N == {k \in Nat : \E g \in [Nat -> Nat] : Prefix(g, k, a, step)}
<1>1. 0 \in N
  <2>1. [k \in Nat |-> a] \in [Nat -> Nat] /\ Prefix([k \in Nat |-> a], 0, a, step)
    BY DEF Prefix
  <2>2. QED
    BY <2>1
<1>2. ASSUME NEW k \in Nat, k \in N
      PROVE  k + 1 \in N
  <2>1. PICK g \in [Nat -> Nat] : Prefix(g, k, a, step)
    BY <1>2
  <2> DEFINE h == [i \in Nat |-> IF i = k + 1 THEN step[g[k]] ELSE g[i]]
  <2>2. h \in [Nat -> Nat]
    OBVIOUS
  <2>3. h[0] = a
    BY <2>1 DEF Prefix
  <2>4. ASSUME NEW m \in Nat, m < k + 1
        PROVE  h[m + 1] = step[h[m]]
    <3>1. CASE m = k
      BY <3>1
    <3>2. CASE m < k
      BY <2>1, <3>2 DEF Prefix
    <3>3. QED
      BY <2>4, <3>1, <3>2
  <2>5. Prefix(h, k + 1, a, step)
    BY <2>3, <2>4 DEF Prefix
  <2> HIDE DEF h
  <2>6. QED
    BY <2>2, <2>5
<1> HIDE DEF N
<1>3. Nat \subseteq N
  BY <1>1, <1>2, NatSetInduction
<1>4. QED
  BY <1>3 DEF N

\* There is a function that starts with a and goes on with step.
LEMMA PrimitiveRecursion ==
  ASSUME NEW a \in Nat, NEW step \in [Nat -> Nat]
  PROVE  \E f \in [Nat -> Nat] : f[0] = a /\ \A n \in Nat : f[n + 1] = step[f[n]]
<1> DEFINE G == [n \in Nat |-> CHOOSE g \in [Nat -> Nat] : Prefix(g, n, a, step)]
           f == [n \in Nat |-> G[n][n]]
<1>1. ASSUME NEW n \in Nat
      PROVE  G[n] \in [Nat -> Nat] /\ Prefix(G[n], n, a, step)
  BY PrefixExists
<1> HIDE DEF G
<1>2. f \in [Nat -> Nat]
  BY <1>1
<1>3. f[0] = a
  BY <1>1 DEF Prefix
<1>4. ASSUME NEW n \in Nat
      PROVE  f[n + 1] = step[f[n]]
  <2>1. Prefix(G[n + 1], n + 1, a, step) /\ Prefix(G[n], n, a, step)
    BY <1>1
  <2>2. Prefix(G[n + 1], n, a, step)
    BY <2>1 DEF Prefix
  <2>3. G[n + 1][n] = G[n][n]
    <3> DEFINE N == {k \in Nat : k <= n => G[n + 1][k] = G[n][k]}
    <3>1. 0 \in N
      BY <2>1 DEF Prefix
    <3>2. ASSUME NEW k \in Nat, k \in N
          PROVE  k + 1 \in N
      BY <2>1, <2>2, <3>2 DEF Prefix
    <3> HIDE DEF N
    <3>3. n \in N
      BY <3>1, <3>2, NatSetInduction
    <3>4. QED
      BY <3>3 DEF N
  <2>4. G[n + 1][n + 1] = step[G[n + 1][n]]
    BY <2>1 DEF Prefix
  <2>5. QED
    BY <2>3, <2>4
<1> HIDE DEF f
<1>5. QED
  BY <1>2, <1>3, <1>4

----------------------------------------------------------------------------
(***************************************************************************)
(* The backoff.                                                            *)
(***************************************************************************)
LEMMA PowerOfTwoValues ==
  /\ PowerOfTwo \in [Nat -> Nat] /\ PowerOfTwo[0] = 1
  /\ \A n \in Nat : PowerOfTwo[n + 1] = 2 * PowerOfTwo[n]
<1> DEFINE Body(f) == [n \in Nat |-> IF n = 0 THEN 1 ELSE 2 * f[n - 1]]
<1>1. PICK one \in Nat, step \in [Nat -> Nat] : one = 1 /\ \A x \in Nat : step[x] = 2 * x
  <2>1. [x \in Nat |-> 2 * x] \in [Nat -> Nat]
    OBVIOUS
  <2>2. QED
    BY <2>1
<1>2. PICK f \in [Nat -> Nat] : f[0] = one /\ \A n \in Nat : f[n + 1] = step[f[n]]
  BY PrimitiveRecursion
<1>3. f = Body(f)
  <2>1. ASSUME NEW n \in Nat
        PROVE  f[n] = IF n = 0 THEN 1 ELSE 2 * f[n - 1]
    <3>1. CASE n = 0
      BY <3>1, <1>1, <1>2
    <3>2. CASE n # 0
      <4>1. n - 1 \in Nat /\ (n - 1) + 1 = n
        BY <3>2
      <4>2. f[n] = step[f[n - 1]] /\ f[n - 1] \in Nat
        BY <4>1, <1>2
      <4>3. QED
        BY <3>2, <4>2, <1>1
    <3>3. QED
      BY <3>1, <3>2
  <2>2. QED
    BY <2>1
<1>4. PowerOfTwo = CHOOSE g : g = Body(g)
  BY DEF PowerOfTwo
<1> HIDE DEF Body
<1>5. PowerOfTwo = Body(PowerOfTwo)
  BY <1>3, <1>4
<1>6. \A n \in Nat : PowerOfTwo[n] = IF n = 0 THEN 1 ELSE 2 * PowerOfTwo[n - 1]
  BY <1>5 DEF Body
<1>7. PowerOfTwo[0] = 1 /\ \A n \in Nat : PowerOfTwo[n + 1] = 2 * PowerOfTwo[n]
  BY <1>6
<1> DEFINE N == {n \in Nat : PowerOfTwo[n] \in Nat}
<1>8. Nat \subseteq N
  <2>1. 0 \in N /\ \A n \in Nat : n \in N => n + 1 \in N
    BY <1>7
  <2> HIDE DEF N
  <2>2. QED
    BY <2>1, NatSetInduction
<1>9. PowerOfTwo \in [Nat -> Nat]
  <2>1. PowerOfTwo = [n \in Nat |-> PowerOfTwo[n]]
    BY <1>5 DEF Body
  <2>2. QED
    BY <2>1, <1>8
<1>10. QED
  BY <1>7, <1>9

\* The loop's values: the doubled duration, or the maximum once that is above it.
LEMMA DurationValues ==
  ASSUME NEW initial \in Nat, NEW max \in Nat, NEW i \in Nat
  PROVE  LET duration[k \in Nat] ==
               IF k = 0 THEN initial
               ELSE IF duration[k - 1] * 2 > max THEN max ELSE duration[k - 1] * 2
         IN  duration[i] = IF i = 0 THEN initial
                           ELSE IF initial * PowerOfTwo[i] > max THEN max
                           ELSE initial * PowerOfTwo[i]
<1> DEFINE Body(f) == [k \in Nat |-> IF k = 0 THEN initial
                                     ELSE IF f[k - 1] * 2 > max THEN max ELSE f[k - 1] * 2]
           duration == CHOOSE f : f = Body(f)
<1>1. PICK step \in [Nat -> Nat] :
        \A x \in Nat : step[x] = IF x * 2 > max THEN max ELSE x * 2
  <2>1. [x \in Nat |-> IF x * 2 > max THEN max ELSE x * 2] \in [Nat -> Nat]
    OBVIOUS
  <2>2. QED
    BY <2>1
<1>2. PICK f \in [Nat -> Nat] : f[0] = initial /\ \A n \in Nat : f[n + 1] = step[f[n]]
  BY PrimitiveRecursion
<1>3. f = Body(f)
  <2>1. ASSUME NEW n \in Nat
        PROVE  f[n] = IF n = 0 THEN initial
                      ELSE IF f[n - 1] * 2 > max THEN max ELSE f[n - 1] * 2
    <3>1. CASE n = 0
      BY <3>1, <1>2
    <3>2. CASE n # 0
      <4>1. n - 1 \in Nat /\ (n - 1) + 1 = n
        BY <3>2
      <4>2. f[n] = step[f[n - 1]] /\ f[n - 1] \in Nat
        BY <4>1, <1>2
      <4>3. QED
        BY <3>2, <4>2, <1>1
    <3>3. QED
      BY <3>1, <3>2
  <2>2. QED
    BY <2>1, <1>2
<1> HIDE DEF Body
<1>4. duration = Body(duration)
  BY <1>3
<1> HIDE DEF duration
<1>5. \A k \in Nat :
        duration[k] = IF k = 0 THEN initial
                      ELSE IF duration[k - 1] * 2 > max THEN max ELSE duration[k - 1] * 2
  BY <1>4 DEF Body
<1> DEFINE P(k) == initial * PowerOfTwo[k]
           Value(k) == IF k = 0 THEN initial ELSE IF P(k) > max THEN max ELSE P(k)
           N == {k \in Nat : duration[k] = Value(k)}
<1>6. ASSUME NEW k \in Nat
      PROVE  P(k) \in Nat /\ P(k + 1) = P(k) * 2
  <2>1. PowerOfTwo[k] \in Nat /\ PowerOfTwo[k + 1] = 2 * PowerOfTwo[k]
    BY PowerOfTwoValues
  <2>2. \A x, y \in Nat : x * y \in Nat /\ x * (2 * y) = (x * y) * 2
    OBVIOUS
  <2>3. QED
    BY <2>1, <2>2
<1>7. P(0) = initial
  BY PowerOfTwoValues
<1> HIDE DEF P
<1>8. 0 \in N
  BY <1>5
<1>9. ASSUME NEW k \in Nat, k \in N
      PROVE  k + 1 \in N
  <2>1. duration[k] = Value(k) /\ P(k) \in Nat /\ P(k + 1) = P(k) * 2
    BY <1>6, <1>9
  <2>2. duration[k + 1] = IF duration[k] * 2 > max THEN max ELSE duration[k] * 2
    BY <1>5
  <2>3. duration[k + 1] = IF P(k + 1) > max THEN max ELSE P(k + 1)
    BY <2>1, <2>2, <1>7
  <2>4. QED
    BY <2>3
<1>10. duration[i] = Value(i)
  <2> HIDE DEF N
  <2>1. Nat \subseteq N
    BY <1>8, <1>9, NatSetInduction
  <2>2. QED
    BY <2>1 DEF N
<1>11. QED
  BY <1>10 DEF duration, Body, P

\* calculateBackoffDuration computes the backoff that the options mean, for every
\* initial duration, every maximum and every number of attempts, unless a maximum
\* below the initial duration should bound the first attempt.
THEOREM BackoffDurationIsBackoff ==
  ASSUME NEW initial \in Nat, NEW max \in Nat, NEW attempts \in Nat,
         initial <= max \/ attempts > 1
  PROVE  BackoffDuration(initial, max, attempts) = Backoff(initial, max, attempts)
<1>1. CASE attempts > 1
  <2>1. attempts - 1 \in Nat /\ attempts - 1 # 0
    BY <1>1
  <2>2. QED
    BY <2>1, <1>1, DurationValues DEF BackoffDuration, Backoff
<1>2. CASE ~(attempts > 1)
  <2>1. BackoffDuration(initial, max, attempts) = initial
    BY <1>2, DurationValues DEF BackoffDuration
  <2>2. initial * PowerOfTwo[0] = initial
    BY PowerOfTwoValues
  <2>3. QED
    BY <1>2, <2>1, <2>2 DEF Backoff
<1>3. QED
  BY <1>1, <1>2

\* There the code waits for the initial duration: it is never too short.
LEMMA BackoffDurationAtLeast ==
  ASSUME NEW initial \in Nat, NEW max \in Nat, NEW attempts \in Nat
  PROVE  /\ BackoffDuration(initial, max, attempts) \in Nat
         /\ Backoff(initial, max, attempts) \in Nat
         /\ BackoffDuration(initial, max, attempts) >= Backoff(initial, max, attempts)
<1>1. PICK k \in Nat : k = IF attempts > 1 THEN attempts - 1 ELSE 0
  OBVIOUS
<1>2. PowerOfTwo[k] \in Nat
  BY PowerOfTwoValues
<1>3. initial * PowerOfTwo[k] \in Nat
  BY <1>2
<1>4. Backoff(initial, max, attempts) \in Nat
  BY <1>1, <1>3 DEF Backoff
<1>5. CASE initial <= max \/ attempts > 1
  BY <1>4, <1>5, BackoffDurationIsBackoff
<1>6. CASE ~(initial <= max \/ attempts > 1)
  <2>1. BackoffDuration(initial, max, attempts) = initial
    BY <1>6, DurationValues DEF BackoffDuration
  <2>2. initial * PowerOfTwo[0] = initial
    BY PowerOfTwoValues
  <2>3. Backoff(initial, max, attempts) = max
    BY <1>6, <2>2 DEF Backoff
  <2>4. QED
    BY <1>6, <2>1, <2>3
<1>7. QED
  BY <1>5, <1>6

\* The instance that TLC evaluates is one of them.
THEOREM BackoffFormulaHolds == Spec => []BackoffFormula
<1>1. BackoffFormula
  BY BackoffDurationIsBackoff DEF BackoffFormula
<1>2. QED
  BY <1>1, PTL

----------------------------------------------------------------------------
(***************************************************************************)
(* The type invariant.                                                     *)
(***************************************************************************)
QueueTypeOK(q) == DOMAIN q \subseteq Units /\ \A u \in DOMAIN q : q[u] \in Infos

Holdings == [unit : Units, info : Infos, failed : BOOLEAN]

LEMMA InfoFields ==
  ASSUME NEW i \in Infos, now \in Nat
  PROVE  /\ i.timestamp \in Nat /\ i.timestamp <= now /\ i.attempts \in Nat
         /\ i.priority \in Priorities /\ i.initial \in 0 .. now
         /\ i = [priority |-> i.priority, timestamp |-> i.timestamp,
                 attempts |-> i.attempts, initial |-> i.initial]
BY DEF Infos

LEMMA NewInfo ==
  ASSUME NEW p \in Priorities, now \in Nat
  PROVE  NewQueueUnitInfo(p) \in Infos /\ NewQueueUnitInfo(p).attempts = 0
BY DEF NewQueueUnitInfo, Infos

LEMMA PutQueue ==
  ASSUME NEW q, QueueTypeOK(q), NEW u \in Units, NEW i \in Infos
  PROVE  QueueTypeOK(Put(q, u, i))
BY DEF QueueTypeOK, Put

LEMMA DropQueue ==
  ASSUME NEW q, QueueTypeOK(q), NEW u
  PROVE  QueueTypeOK(Drop(q, u))
BY DEF QueueTypeOK, Drop

LEMMA TypeInit == Init => TypeOK
<1>1. SUFFICES ASSUME Init
               PROVE  TypeOK
  OBVIOUS
<1>2. /\ DOMAIN items = {} /\ DOMAIN backoffQ = {} /\ DOMAIN entered = {} /\ DOMAIN held = {}
      /\ now = 0 /\ lastFlush = 0 /\ writes = MaxWrites /\ panicked = FALSE
  BY <1>1 DEF Init, EmptyMap
<1>3. now \in 0 .. MaxTime /\ lastFlush \in 0 .. now /\ writes \in 0 .. MaxWrites
  BY <1>2, TimesOK
<1>4. QED
  BY <1>2, <1>3, Zenon DEF TypeOK

LEMMA TypeFacts ==
  ASSUME TypeOK
  PROVE  /\ now \in Nat /\ lastFlush \in Nat /\ lastFlush <= now
         /\ QueueTypeOK(items) /\ QueueTypeOK(backoffQ)
BY TimesOK DEF TypeOK, QueueTypeOK

\* What the calls that do not move the clock have to show of the maps.
LEMMA TypeOfMaps ==
  ASSUME TypeOK, UNCHANGED <<now, lastFlush>>,
         QueueTypeOK(items'), QueueTypeOK(backoffQ'),
         DOMAIN entered' = DOMAIN backoffQ', \A u \in DOMAIN entered' : entered'[u] \in 0 .. now,
         DOMAIN held' \subseteq Callers, \A c \in DOMAIN held' : held'[c] \in Holdings,
         writes' \in 0 .. MaxWrites, panicked' \in BOOLEAN
  PROVE  TypeOK'
BY DEF TypeOK, QueueTypeOK, Holdings, Infos

LEMMA EnteredPut ==
  ASSUME TypeOK, NEW u, NEW i
  PROVE  /\ DOMAIN Put(entered, u, now) = DOMAIN Put(backoffQ, u, i)
         /\ \A v \in DOMAIN Put(entered, u, now) : Put(entered, u, now)[v] \in 0 .. now
BY TypeFacts DEF TypeOK, Put

LEMMA EnteredDrop ==
  ASSUME TypeOK, NEW u
  PROVE  /\ DOMAIN Drop(entered, u) = DOMAIN Drop(backoffQ, u)
         /\ \A v \in DOMAIN Drop(entered, u) : Drop(entered, u)[v] \in 0 .. now
BY DEF TypeOK, Drop

LEMMA HeldDrop ==
  ASSUME TypeOK, NEW c
  PROVE  /\ DOMAIN Drop(held, c) \subseteq Callers
         /\ \A d \in DOMAIN Drop(held, c) : Drop(held, c)[d] \in Holdings /\ Drop(held, c)[d] = held[d]
BY DEF TypeOK, Drop, Holdings

LEMMA WritesLeft ==
  ASSUME TypeOK, Written
  PROVE  writes' \in 0 .. MaxWrites
BY TimesOK DEF TypeOK, Written

\* ErrorFunc counts the attempt and notes the time.
LEMMA FailHeld ==
  ASSUME TypeOK, NEW c \in DOMAIN held, Fail(c)
  PROVE  /\ DOMAIN held' = DOMAIN held /\ held'[c].failed
         /\ \A d \in DOMAIN held : held'[d] \in Holdings
         /\ \A d \in DOMAIN held : d # c => held'[d] = held[d]
<1>1. held[c] \in [unit : Units, info : Infos, failed : BOOLEAN] /\ now \in Nat
  BY TypeFacts DEF TypeOK
<1>2. held[c].info \in Infos /\ held[c].unit \in Units
  BY <1>1
<1> DEFINE new == [priority |-> held[c].info.priority, timestamp |-> now,
                   attempts |-> held[c].info.attempts + 1, initial |-> held[c].info.initial]
<1>3. new \in Infos
  BY <1>1, <1>2, InfoFields DEF Infos
<1>4. held'[c] = [unit |-> held[c].unit, info |-> new, failed |-> TRUE]
  <2>1. held[c] = [unit |-> held[c].unit, info |-> held[c].info, failed |-> held[c].failed]
    BY <1>1
  <2>2. held[c].info = [priority |-> held[c].info.priority, timestamp |-> held[c].info.timestamp,
                        attempts |-> held[c].info.attempts, initial |-> held[c].info.initial]
    BY <1>1, <1>2, InfoFields
  <2>3. held'[c] = [[[held[c] EXCEPT !.failed = TRUE]
                       EXCEPT !.info.attempts = held[c].info.attempts + 1]
                       EXCEPT !.info.timestamp = now]
    BY DEF Fail
  <2>4. QED
    BY <2>1, <2>2, <2>3
<1>5. DOMAIN held' = DOMAIN held /\ \A d \in DOMAIN held : d # c => held'[d] = held[d]
  BY DEF Fail
<1> HIDE DEF new
<1>6. held'[c] \in Holdings /\ held'[c].failed
  BY <1>2, <1>3, <1>4 DEF Holdings
<1>7. QED
  BY <1>5, <1>6 DEF TypeOK, Holdings

LEMMA TypeNext ==
  ASSUME TypeOK, Next
  PROVE  TypeOK'
<1> USE DEF Holdings
<1>1. /\ now \in Nat /\ lastFlush \in Nat /\ lastFlush <= now
      /\ QueueTypeOK(items) /\ QueueTypeOK(backoffQ)
  BY TypeFacts
<1>2. /\ DOMAIN entered = DOMAIN backoffQ /\ \A u \in DOMAIN entered : entered[u] \in 0 .. now
      /\ DOMAIN held \subseteq Callers /\ \A c \in DOMAIN held : held[c] \in Holdings
      /\ writes \in 0 .. MaxWrites /\ panicked \in BOOLEAN
  BY DEF TypeOK
<1>3. ASSUME NEW u \in Units, NEW p \in Priorities, Add(u, p)
      PROVE  TypeOK'
  <2>1. QueueTypeOK(items') /\ panicked' \in BOOLEAN
    BY <1>1, <1>2, <1>3, NewInfo, PutQueue DEF Add, PutItems
  <2>2. QED
    BY <2>1, <1>1, <1>2, <1>3, TypeOfMaps, WritesLeft DEF Add
<1>4. ASSUME NEW u \in Units, NEW p \in Priorities, Update(u, p)
      PROVE  TypeOK'
  <2>1. QueueTypeOK(items') /\ QueueTypeOK(backoffQ')
    BY <1>1, <1>4, NewInfo, PutQueue DEF Update
  <2>2. /\ DOMAIN entered' = DOMAIN backoffQ'
        /\ \A v \in DOMAIN entered' : entered'[v] \in 0 .. now
    BY <1>2, <1>4, EnteredPut DEF Update
  <2>3. QED
    BY <2>1, <2>2, <1>2, <1>4, TypeOfMaps, WritesLeft DEF Update
<1>5. ASSUME NEW u \in Units, Delete(u)
      PROVE  TypeOK'
  <2>1. QueueTypeOK(items') /\ QueueTypeOK(backoffQ')
    BY <1>1, <1>5, DropQueue DEF Delete
  <2>2. /\ DOMAIN entered' = DOMAIN backoffQ'
        /\ \A v \in DOMAIN entered' : entered'[v] \in 0 .. now
    BY <1>2, <1>5, EnteredDrop DEF Delete
  <2>3. QED
    BY <2>1, <2>2, <1>2, <1>5, TypeOfMaps, WritesLeft DEF Delete
<1>6. ASSUME NEW u \in Units, NEW c \in Callers, Pop(c, u)
      PROVE  TypeOK'
  <2>1. QueueTypeOK(items')
    BY <1>1, <1>6, DropQueue DEF Pop
  <2>2. DOMAIN held' \subseteq Callers /\ \A d \in DOMAIN held' : held'[d] \in Holdings
    BY <1>1, <1>2, <1>6 DEF Pop, Put, QueueTypeOK
  <2>3. QED
    BY <2>1, <2>2, <1>1, <1>2, <1>6, TypeOfMaps DEF Pop
<1>7. ASSUME NEW c \in Callers, Succeed(c) \/ GiveUp(c)
      PROVE  TypeOK'
  BY <1>1, <1>2, <1>7, HeldDrop, TypeOfMaps DEF Succeed, GiveUp
<1>8. ASSUME NEW c \in Callers, Fail(c)
      PROVE  TypeOK'
  <2>1. c \in DOMAIN held
    BY <1>8 DEF Fail
  <2>2. DOMAIN held' \subseteq Callers /\ \A d \in DOMAIN held' : held'[d] \in Holdings
    BY <2>1, <1>2, <1>8, FailHeld
  <2>3. QED
    BY <2>2, <1>1, <1>2, <1>8, TypeOfMaps DEF Fail
<1>9. ASSUME NEW c \in Callers, NEW p \in Priorities, AddUnschedulableIfNotPresent(c, p)
      PROVE  TypeOK'
  <2>1. c \in DOMAIN held /\ held[c].unit \in Units /\ held[c].info \in Infos
    BY <1>2, <1>9 DEF AddUnschedulableIfNotPresent
  <2>2. [held[c].info EXCEPT !.priority = p] \in Infos
    BY <2>1 DEF Infos
  <2>3. QueueTypeOK(backoffQ')
    BY <2>1, <2>2, <1>1, <1>9, PutQueue DEF AddUnschedulableIfNotPresent
  <2>4. /\ DOMAIN entered' = DOMAIN backoffQ'
        /\ \A v \in DOMAIN entered' : entered'[v] \in 0 .. now
    BY <1>2, <1>9, EnteredPut DEF AddUnschedulableIfNotPresent
  <2>5. DOMAIN held' \subseteq Callers /\ \A d \in DOMAIN held' : held'[d] \in Holdings
    BY <1>9, HeldDrop DEF AddUnschedulableIfNotPresent
  <2>6. QED
    BY <2>3, <2>4, <2>5, <1>1, <1>2, <1>9, TypeOfMaps DEF AddUnschedulableIfNotPresent
<1>10. CASE FlushBackoffQCompleted
  <2>1. Completed \subseteq DOMAIN backoffQ
    BY DEF Completed
  <2>2. QueueTypeOK(items') /\ QueueTypeOK(backoffQ') /\ panicked' \in BOOLEAN
    BY <2>1, <1>1, <1>2, <1>10 DEF FlushBackoffQCompleted, PutItems, QueueTypeOK
  <2>3. /\ DOMAIN entered' = DOMAIN backoffQ'
        /\ \A v \in DOMAIN entered' : entered'[v] \in 0 .. now
    BY <1>2, <1>10 DEF FlushBackoffQCompleted
  <2>4. now' = now /\ lastFlush' \in 0 .. now' /\ UNCHANGED <<held, writes>>
    BY <1>1, <1>10 DEF FlushBackoffQCompleted
  <2>5. QED
    BY <2>2, <2>3, <2>4, <1>2 DEF TypeOK, QueueTypeOK, Infos
<1>11. CASE Tick
  <2>1. now' = now + 1 /\ now' \in 0 .. MaxTime /\ lastFlush' \in 0 .. now'
    BY <1>1, <1>11, TimesOK DEF Tick
  <2>2. Infos \subseteq Infos' /\ 0 .. now \subseteq 0 .. now'
    BY <2>1, <1>1 DEF Infos
  <2>3. QED
    BY <2>1, <2>2, <1>2, <1>1, <1>11 DEF Tick, TypeOK, QueueTypeOK
<1>12. QED
  BY <1>3, <1>4, <1>5, <1>6, <1>7, <1>8, <1>9, <1>10, <1>11 DEF Next

----------------------------------------------------------------------------
(***************************************************************************)
(* The two backoff invariants, which hold together.                        *)
(***************************************************************************)

\* getBackoffTime gives the end of the backoff, or a later time when the maximum
\* is below the initial duration.
LEMMA BackoffTimeValue ==
  ASSUME NEW i, i.timestamp \in Nat, i.attempts \in Nat
  PROVE  /\ BackoffOver(i) \in Nat /\ GetBackoffTime(i) \in Nat
         /\ GetBackoffTime(i) >= BackoffOver(i)
         /\ InitialBackoff <= MaxBackoff => GetBackoffTime(i) = BackoffOver(i)
<1>1. PICK t \in Nat, n \in Nat, initial \in Nat, max \in Nat :
        t = i.timestamp /\ n = i.attempts /\ initial = InitialBackoff /\ max = MaxBackoff
  BY TimesOK
<1> DEFINE D == BackoffDuration(initial, max, n)
           B == Backoff(initial, max, n)
<1>2. D \in Nat /\ B \in Nat /\ D >= B
  BY BackoffDurationAtLeast
<1>3. initial <= max => D = B
  BY BackoffDurationIsBackoff
<1>4. GetBackoffTime(i) = t + D /\ BackoffOver(i) = t + B
  BY <1>1 DEF GetBackoffTime, BackoffOver, CalculateBackoffDuration
<1> HIDE DEF D, B
<1>5. QED
  BY <1>1, <1>2, <1>3, <1>4

LEMMA BackoffOverValue ==
  ASSUME NEW i \in Infos, now \in Nat
  PROVE  /\ BackoffOver(i) \in Nat /\ GetBackoffTime(i) \in Nat
         /\ GetBackoffTime(i) >= BackoffOver(i)
         /\ InitialBackoff <= MaxBackoff => GetBackoffTime(i) = BackoffOver(i)
BY InfoFields, BackoffTimeValue

\* The backoff of a unit that may be tried is over at time t.
Over(i, t) == i.attempts > 0 => t >= BackoffOver(i)

OverItems(q, t) == \A u \in DOMAIN q : Over(q[u], t)
OverHeld(h, t) == \A c \in DOMAIN h : ~h[c].failed => Over(h[c].info, t)

LEMMA HonouredParts ==
  /\ BackoffHonoured <=> OverItems(items, now) /\ OverHeld(held, now)
  /\ BackoffHonoured' <=> OverItems(items', now') /\ OverHeld(held', now')
BY DEF BackoffHonoured, OverItems, OverHeld, Over

\* What the flush takes is over; what it leaves is not.
LEMMA FlushTakes ==
  ASSUME TypeOK
  PROVE  /\ \A u \in Completed : u \in DOMAIN backoffQ /\ BackoffOver(backoffQ[u]) <= now
         /\ InitialBackoff <= MaxBackoff =>
              \A u \in DOMAIN backoffQ \ Completed : BackoffOver(backoffQ[u]) > now
<1>1. now \in Nat /\ \A u \in DOMAIN backoffQ : backoffQ[u] \in Infos
  BY TypeFacts DEF TypeOK
<1>2. \A u \in DOMAIN backoffQ : /\ BackoffOver(backoffQ[u]) \in Nat
                                 /\ GetBackoffTime(backoffQ[u]) \in Nat
                                 /\ GetBackoffTime(backoffQ[u]) >= BackoffOver(backoffQ[u])
                                 /\ InitialBackoff <= MaxBackoff =>
                                      GetBackoffTime(backoffQ[u]) = BackoffOver(backoffQ[u])
  BY <1>1, BackoffOverValue
<1>3. \A u \in Completed : u \in DOMAIN backoffQ /\ BackoffOver(backoffQ[u]) <= now
  BY <1>1, <1>2 DEF Completed
<1>4. ASSUME InitialBackoff <= MaxBackoff, NEW u \in DOMAIN backoffQ \ Completed
      PROVE  BackoffOver(backoffQ[u]) > now
  <2>1. PICK v \in DOMAIN backoffQ :
          /\ v = u \/ GetBackoffTime(backoffQ[v]) < GetBackoffTime(backoffQ[u])
          /\ ~(GetBackoffTime(backoffQ[v]) <= now)
    BY DEF Completed, PodsCompareBackoffCompleted
  <2>2. QED
    BY <2>1, <1>1, <1>2, <1>4
<1>5. QED
  BY <1>3, <1>4

LEMMA PutItemsOver ==
  ASSUME NEW q, OverItems(q, now), OverItems(items, now), PutItems(q)
  PROVE  OverItems(items', now)
BY DEF PutItems

LEMMA HonouredNext ==
  ASSUME TypeOK, BackoffHonoured, Next
  PROVE  BackoffHonoured'
<1>1. now \in Nat /\ OverItems(items, now) /\ OverHeld(held, now)
  BY TypeFacts, HonouredParts
<1>2. ASSUME NEW p \in Priorities
      PROVE  Over(NewQueueUnitInfo(p), now)
  BY <1>1, NewInfo DEF Over
<1>3. ASSUME NEW u \in Units, NEW p \in Priorities, Add(u, p) \/ Update(u, p)
      PROVE  BackoffHonoured'
  <2>1. OverItems(Put(items, u, NewQueueUnitInfo(p)), now)
    BY <1>1, <1>2 DEF OverItems, Put
  <2>2. OverItems(items', now)
    BY <2>1, <1>1, <1>3, PutItemsOver DEF Add, Update
  <2>3. QED
    BY <2>2, <1>1, <1>3, HonouredParts DEF Add, Update
<1>4. ASSUME NEW u \in Units, Delete(u)
      PROVE  BackoffHonoured'
  <2>1. OverItems(items', now)
    BY <1>1, <1>4 DEF Delete, Drop, OverItems
  <2>2. QED
    BY <2>1, <1>1, <1>4, HonouredParts DEF Delete
<1>5. ASSUME NEW u \in Units, NEW c \in Callers, Pop(c, u)
      PROVE  BackoffHonoured'
  <2>1. OverItems(items', now)
    BY <1>1, <1>5 DEF Pop, Drop, OverItems
  <2>2. OverHeld(held', now)
    BY <1>1, <1>5 DEF Pop, Put, OverItems, OverHeld
  <2>3. QED
    BY <2>1, <2>2, <1>5, HonouredParts DEF Pop
<1>6. ASSUME NEW c \in Callers, UNCHANGED <<items, now>>, held' = Drop(held, c)
      PROVE  BackoffHonoured'
  <2>1. OverHeld(held', now)
    BY <1>1, <1>6 DEF Drop, OverHeld
  <2>2. QED
    BY <2>1, <1>1, <1>6, HonouredParts
<1>7. ASSUME NEW c \in Callers, Fail(c)
      PROVE  BackoffHonoured'
  <2>1. /\ DOMAIN held' = DOMAIN held /\ held'[c].failed
        /\ \A d \in DOMAIN held : d # c => held'[d] = held[d]
    BY <1>7, FailHeld DEF Fail
  <2>2. OverHeld(held', now)
    BY <2>1, <1>1 DEF OverHeld
  <2>3. QED
    BY <2>2, <1>1, <1>7, HonouredParts DEF Fail
<1>8. CASE FlushBackoffQCompleted
  <2> DEFINE q == [u \in DOMAIN items \cup Completed |->
                     IF u \in Completed THEN backoffQ[u] ELSE items[u]]
  <2>1. \A u \in Completed : backoffQ[u] \in Infos /\ BackoffOver(backoffQ[u]) <= now
    BY FlushTakes DEF TypeOK
  <2>2. \A u \in Completed : Over(backoffQ[u], now)
    BY <2>1, <1>1, BackoffOverValue DEF Over
  <2>3. OverItems(q, now)
    BY <2>2, <1>1 DEF OverItems
  <2>4. PutItems(q) /\ UNCHANGED <<now, held>>
    BY <1>8 DEF FlushBackoffQCompleted
  <2> HIDE DEF q
  <2>5. OverItems(items', now)
    BY <2>3, <2>4, <1>1, PutItemsOver
  <2>6. QED
    BY <2>4, <2>5, <1>1, HonouredParts
<1>9. CASE Tick
  <2>1. ASSUME NEW i \in Infos, Over(i, now)
        PROVE  Over(i, now')
    BY <2>1, <1>1, <1>9, BackoffOverValue DEF Over, Tick
  <2>2. OverItems(items', now')
    BY <2>1, <1>1, <1>9 DEF Tick, OverItems, TypeOK
  <2>3. OverHeld(held', now')
    BY <2>1, <1>1, <1>9 DEF Tick, OverHeld, TypeOK
  <2>4. QED
    BY <2>2, <2>3, HonouredParts
<1>10. QED
  BY <1>3, <1>4, <1>5, <1>6, <1>7, <1>8, <1>9
     DEF Next, Succeed, GiveUp, AddUnschedulableIfNotPresent

LEMMA NoOverdueNext ==
  ASSUME InitialBackoff <= MaxBackoff, TypeOK, NoOverdueBackoff, Next
  PROVE  NoOverdueBackoff'
<1>1. now \in Nat /\ lastFlush \in Nat /\ lastFlush <= now /\ DOMAIN entered = DOMAIN backoffQ
  BY TypeFacts DEF TypeOK
<1>2. \A u \in DOMAIN backoffQ :
        entered[u] >= lastFlush \/ BackoffOver(backoffQ[u]) > lastFlush
  BY DEF NoOverdueBackoff
<1>3. CASE UNCHANGED <<lastFlush, backoffQ, entered>>
  BY <1>2, <1>3 DEF NoOverdueBackoff
<1>4. ASSUME NEW u, NEW i, UNCHANGED lastFlush,
             backoffQ' = Put(backoffQ, u, i), entered' = Put(entered, u, now)
      PROVE  NoOverdueBackoff'
  BY <1>1, <1>2, <1>4 DEF NoOverdueBackoff, Put
<1>5. ASSUME NEW u, UNCHANGED lastFlush,
             backoffQ' = Drop(backoffQ, u), entered' = Drop(entered, u)
      PROVE  NoOverdueBackoff'
  BY <1>1, <1>2, <1>5 DEF NoOverdueBackoff, Drop
<1>6. CASE FlushBackoffQCompleted
  <2>1. /\ lastFlush' = now
        /\ DOMAIN backoffQ' = DOMAIN backoffQ \ Completed
        /\ \A u \in DOMAIN backoffQ' : backoffQ'[u] = backoffQ[u]
    BY <1>6 DEF FlushBackoffQCompleted
  <2>2. QED
    BY <2>1, FlushTakes DEF NoOverdueBackoff
<1>7. ASSUME NEW u \in Units, NEW p \in Priorities, Update(u, p)
      PROVE  NoOverdueBackoff'
  BY <1>3, <1>4, <1>7 DEF Update
<1>8. ASSUME NEW u \in Units, Delete(u)
      PROVE  NoOverdueBackoff'
  BY <1>3, <1>5, <1>8 DEF Delete
<1>9. ASSUME NEW c \in Callers, NEW p \in Priorities, AddUnschedulableIfNotPresent(c, p)
      PROVE  NoOverdueBackoff'
  BY <1>3, <1>4, <1>9 DEF AddUnschedulableIfNotPresent
<1>10. QED
  BY <1>3, <1>6, <1>7, <1>8, <1>9 DEF Next, Add, Pop, Succeed, Fail, GiveUp, Tick

QueueInv == /\ TypeOK /\ BackoffHonoured
            /\ InitialBackoff <= MaxBackoff => NoOverdueBackoff

LEMMA QueueInvAlways == Spec => []QueueInv
<1>1. Init => QueueInv
  <2>1. SUFFICES ASSUME Init
                 PROVE  QueueInv
    OBVIOUS
  <2>2. DOMAIN items = {} /\ DOMAIN held = {} /\ DOMAIN backoffQ = {}
    BY <2>1 DEF Init, EmptyMap
  <2>3. BackoffHonoured /\ NoOverdueBackoff
    BY <2>2 DEF BackoffHonoured, NoOverdueBackoff
  <2>4. QED
    BY <2>1, <2>3, TypeInit DEF QueueInv
<1>2. QueueInv /\ [Next]_vars => QueueInv'
  <2>1. CASE Next
    BY <2>1, TypeNext, HonouredNext, NoOverdueNext DEF QueueInv
  <2>2. CASE UNCHANGED vars
    BY <2>2 DEF vars, QueueInv, TypeOK, Infos, BackoffHonoured, NoOverdueBackoff
  <2>3. QED
    BY <2>1, <2>2
<1>3. QED
  BY <1>1, <1>2, PTL DEF Spec

\* Times never run backwards and every map holds what it should, for every run
\* of the handlers, the callers and the flush loop.
THEOREM QueueTypeCorrect == Spec => []TypeOK
BY QueueInvAlways, PTL DEF QueueInv

\* No unit that failed can be popped before its backoff is over, whatever the
\* durations and however Add, Update, Delete, ErrorFunc and the flush interleave.
THEOREM BackoffIsHonoured == Spec => []BackoffHonoured
BY QueueInvAlways, PTL DEF QueueInv

\* flushBackoffQCompleted, which looks at the root of the heap only, leaves no
\* unit behind whose backoff was over, if the maximum is no less than the initial
\* duration.
THEOREM FlushLeavesNone ==
  Spec => [](InitialBackoff <= MaxBackoff => NoOverdueBackoff)
BY QueueInvAlways, PTL DEF QueueInv

----------------------------------------------------------------------------
(***************************************************************************)
(* The orders of the two heaps.                                            *)
(***************************************************************************)
QueueUnitInfos == [priority : Priorities, timestamp : Nat, attempts : Nat, initial : Nat]

\* What Heap asks of its comparator (LessIsWeakOrder) holds of the two that
\* NewPrioritySchedulingQueue gives to its heaps, for every backoff and priority:
\* QueueLess with its tie-break, and podsCompareBackoffCompleted.
THEOREM ComparatorsAreWeakOrders ==
  \A a, b, c \in QueueUnitInfos :
    /\ QueueLess(a, b) \in BOOLEAN /\ (QueueLess(a, b) => ~QueueLess(b, a))
    /\ QueueLess(a, c) => QueueLess(a, b) \/ QueueLess(b, c)
    /\ PodsCompareBackoffCompleted(a, b) \in BOOLEAN
    /\ PodsCompareBackoffCompleted(a, b) => ~PodsCompareBackoffCompleted(b, a)
    /\ PodsCompareBackoffCompleted(a, c) =>
         PodsCompareBackoffCompleted(a, b) \/ PodsCompareBackoffCompleted(b, c)
<1> SUFFICES ASSUME NEW a \in QueueUnitInfos, NEW b \in QueueUnitInfos,
                    NEW c \in QueueUnitInfos
             PROVE  /\ QueueLess(a, b) \in BOOLEAN /\ (QueueLess(a, b) => ~QueueLess(b, a))
                    /\ QueueLess(a, c) => QueueLess(a, b) \/ QueueLess(b, c)
                    /\ PodsCompareBackoffCompleted(a, b) \in BOOLEAN
                    /\ PodsCompareBackoffCompleted(a, b) => ~PodsCompareBackoffCompleted(b, a)
                    /\ PodsCompareBackoffCompleted(a, c) =>
                         PodsCompareBackoffCompleted(a, b) \/ PodsCompareBackoffCompleted(b, c)
  OBVIOUS
<1>1. \A i \in QueueUnitInfos : i.priority \in Int /\ i.initial \in Nat
  BY PrioritiesAreNumbers DEF QueueUnitInfos
<1>2. /\ QueueLess(a, b) \in BOOLEAN /\ (QueueLess(a, b) => ~QueueLess(b, a))
      /\ QueueLess(a, c) => QueueLess(a, b) \/ QueueLess(b, c)
  BY <1>1 DEF QueueLess
<1>3. \A i \in QueueUnitInfos : GetBackoffTime(i) \in Nat
  <2> SUFFICES ASSUME NEW i \in QueueUnitInfos PROVE GetBackoffTime(i) \in Nat
    OBVIOUS
  <2>1. i.timestamp \in Nat /\ i.attempts \in Nat
    BY DEF QueueUnitInfos
  <2>2. QED
    BY <2>1, BackoffTimeValue
<1>4. QED
  BY <1>2, <1>3 DEF PodsCompareBackoffCompleted

----------------------------------------------------------------------------
(***************************************************************************)
(* The queue implements SchedulingQueue.                                   *)
(***************************************************************************)
SpecOf(i) == [priority |-> i.priority]

SpecsOf(q) == [u \in DOMAIN q |-> SpecOf(q[u])]

LEMMA TimelessParts ==
  /\ Timeless = [items |-> SpecsOf(items), backoffQ |-> SpecsOf(backoffQ)]
  /\ Timeless' = [items |-> SpecsOf(items'), backoffQ |-> SpecsOf(backoffQ')]
BY DEF Timeless, SpecsOf, SpecOf

LEMMA SpecsOfPut ==
  ASSUME NEW q, NEW u, NEW i
  PROVE  SpecsOf(Put(q, u, i)) = Put(SpecsOf(q), u, SpecOf(i))
BY DEF SpecsOf, Put

LEMMA SpecsOfDrop ==
  ASSUME NEW q, NEW u
  PROVE  SpecsOf(Drop(q, u)) = Drop(SpecsOf(q), u)
BY DEF SpecsOf, Drop

\* The handlers' calls are those of SchedulingQueue, or panic and change nothing.
LEMMA WriteIsTimeless ==
  ASSUME TypeOK, NEW u \in Units, NEW p \in Priorities, Add(u, p) \/ Update(u, p)
  PROVE  TimelessStep \/ Timeless' = Timeless
<1> DEFINE I == SpecsOf(items)
           B == SpecsOf(backoffQ)
<1>0. PICK spec \in [priority : Priorities] : spec = [priority |-> p]
  OBVIOUS
<1>1. DOMAIN I = DOMAIN items /\ DOMAIN B = DOMAIN backoffQ /\ SpecOf(NewQueueUnitInfo(p)) = spec
  BY <1>0 DEF SpecsOf, SpecOf, NewQueueUnitInfo
<1>2. Timeless = [items |-> I, backoffQ |-> B]
  BY TimelessParts
<1>3. held' = held
  BY DEF Add, Update
<1> HIDE DEF I, B
<1>4. CASE Add(u, p)
  <2>1. CASE items' = Put(items, u, NewQueueUnitInfo(p))
    <3>1. SpecsOf(items') = Put(I, u, spec) /\ SpecsOf(backoffQ') = B
      BY <2>1, <1>1, <1>4, SpecsOfPut DEF Add, I, B
    <3>2. Timeless' = SQAdd(Timeless, u, spec)
      BY <3>1, <1>2, TimelessParts DEF SQAdd
    <3>3. QED
      BY <3>2, <1>3 DEF TimelessStep
  <2>2. CASE items' = items
    BY <2>2, <1>4 DEF Add, Timeless
  <2>3. QED
    BY <2>1, <2>2, <1>4 DEF Add, PutItems
<1>5. CASE Update(u, p)
  <2>1. CASE u \in DOMAIN items
    <3>1. SpecsOf(items') = Put(I, u, spec) /\ SpecsOf(backoffQ') = B
      BY <2>1, <1>1, <1>5, SpecsOfPut DEF Update, I, B
    <3>2. Timeless' = SQUpdate(Timeless, u, spec)
      BY <2>1, <3>1, <1>1, <1>2, TimelessParts DEF SQUpdate
    <3>3. QED
      BY <3>2, <1>3 DEF TimelessStep
  <2>2. CASE u \notin DOMAIN items
    <3>1. u \in DOMAIN backoffQ /\ SpecsOf(items') = I /\ SpecsOf(backoffQ') = Put(B, u, spec)
      BY <2>2, <1>1, <1>5, SpecsOfPut DEF Update, I, B
    <3>2. Timeless' = SQUpdate(Timeless, u, spec)
      BY <2>2, <3>1, <1>1, <1>2, TimelessParts DEF SQUpdate
    <3>3. QED
      BY <3>2, <1>3 DEF TimelessStep
  <2>3. QED
    BY <2>1, <2>2
<1>6. QED
  BY <1>4, <1>5

LEMMA DeleteIsTimeless ==
  ASSUME NEW u \in Units, Delete(u)
  PROVE  TimelessStep
<1> DEFINE I == SpecsOf(items)
           B == SpecsOf(backoffQ)
<1>1. DOMAIN I = DOMAIN items /\ DOMAIN B = DOMAIN backoffQ
  BY DEF SpecsOf
<1>2. Timeless = [items |-> I, backoffQ |-> B]
  BY TimelessParts
<1>3. held' = held
  BY DEF Delete
<1> HIDE DEF I, B
<1>4. CASE u \in DOMAIN items
  <2>1. SpecsOf(items') = Drop(I, u) /\ SpecsOf(backoffQ') = B
    BY <1>4, SpecsOfDrop DEF Delete, I, B
  <2>2. Timeless' = SQDelete(Timeless, u)
    BY <1>4, <2>1, <1>1, <1>2, TimelessParts DEF SQDelete
  <2>3. QED
    BY <2>2, <1>3 DEF TimelessStep
<1>5. CASE u \notin DOMAIN items
  <2>1. SpecsOf(items') = I /\ SpecsOf(backoffQ') = Drop(B, u)
    BY <1>5, SpecsOfDrop DEF Delete, I, B
  <2>2. Timeless' = SQDelete(Timeless, u)
    BY <1>5, <2>1, <1>1, <1>2, TimelessParts DEF SQDelete
  <2>3. QED
    BY <2>2, <1>3 DEF TimelessStep
<1>6. QED
  BY <1>4, <1>5

\* Pop takes a unit of the highest priority.
LEMMA PopIsTimeless ==
  ASSUME TypeOK, NEW u \in Units, NEW c \in Callers, Pop(c, u)
  PROVE  TimelessStep
<1>1. /\ c \in DOMAIN held' \ DOMAIN held /\ held'[c].unit = u /\ u \in DOMAIN items
      /\ items' = Drop(items, u) /\ backoffQ' = backoffQ
  BY DEF Pop, Put
<1>2. \A v \in DOMAIN items : items[v].priority \in Int
  BY PrioritiesAreNumbers, InfoFields, TypeFacts DEF TypeOK
<1>3. \A v \in DOMAIN items : items[v].priority <= items[u].priority
  BY <1>1, <1>2 DEF Pop, QueueLess
<1>4. Timeless.items = SpecsOf(items)
  BY TimelessParts
<1>5. u \in Tops(Timeless)
  BY <1>1, <1>3, <1>4 DEF Tops, SpecsOf, SpecOf
<1>6. Timeless' = SQPop(Timeless, u)
  <2> DEFINE I == SpecsOf(items)
             B == SpecsOf(backoffQ)
  <2>1. Timeless' = [items |-> Drop(I, u), backoffQ |-> B]
    BY <1>1, TimelessParts, SpecsOfDrop
  <2>2. Timeless = [items |-> I, backoffQ |-> B]
    BY TimelessParts
  <2> HIDE DEF I, B
  <2>3. QED
    BY <2>1, <2>2 DEF SQPop
<1>7. QED
  BY <1>1, <1>5, <1>6 DEF TimelessStep

\* A flush of nothing changes nothing: the callers' other steps are such.
LEMMA ReturnIsTimeless ==
  ASSUME DOMAIN held' \subseteq DOMAIN held, UNCHANGED <<items, backoffQ>>
  PROVE  TimelessStep
<1> DEFINE I == SpecsOf(items)
           B == SpecsOf(backoffQ)
<1>1. /\ I = [u \in DOMAIN I |-> I[u]] /\ B = [u \in DOMAIN B |-> B[u]]
      /\ Timeless = [items |-> I, backoffQ |-> B] /\ Timeless' = Timeless
  BY TimelessParts DEF SpecsOf, Timeless
<1> HIDE DEF I, B
<1>2. SQFlush(Timeless, {}) = Timeless
  <2> DEFINE F == [u \in DOMAIN Timeless.items \cup {} |->
                     IF u \in {} THEN Timeless.backoffQ[u] ELSE Timeless.items[u]]
             G == [u \in DOMAIN Timeless.backoffQ \ {} |-> Timeless.backoffQ[u]]
  <2>1. F = [u \in DOMAIN I |-> I[u]] /\ G = [u \in DOMAIN B |-> B[u]]
    BY <1>1
  <2>2. SQFlush(Timeless, {}) = [Timeless EXCEPT !.items = F, !.backoffQ = G]
    BY DEF SQFlush
  <2> HIDE DEF F, G
  <2>3. F = I /\ G = B
    BY <2>1, <1>1
  <2>4. QED
    BY <2>2, <2>3, <1>1
<1>3. QED
  BY <1>1, <1>2 DEF TimelessStep

LEMMA AddUnschedulableIsTimeless ==
  ASSUME TypeOK, NEW c \in Callers, NEW p \in Priorities, AddUnschedulableIfNotPresent(c, p)
  PROVE  TimelessStep
<1> DEFINE I == SpecsOf(items)
           B == SpecsOf(backoffQ)
<1>0. PICK spec \in [priority : Priorities] : spec = [priority |-> p]
  OBVIOUS
<1>1. PICK u \in Units : u = held[c].unit
  BY DEF AddUnschedulableIfNotPresent, TypeOK
<1>2. DOMAIN held' \subseteq DOMAIN held /\ items' = items
  BY DEF AddUnschedulableIfNotPresent, Drop
<1>3. DOMAIN I = DOMAIN items /\ DOMAIN B = DOMAIN backoffQ
  BY DEF SpecsOf
<1>4. Timeless = [items |-> I, backoffQ |-> B]
  BY TimelessParts
<1>5. CASE u \in DOMAIN items \cup DOMAIN backoffQ
  BY <1>1, <1>2, <1>5, ReturnIsTimeless DEF AddUnschedulableIfNotPresent
<1>6. CASE u \notin DOMAIN items \cup DOMAIN backoffQ
  <2> DEFINE i == [held[c].info EXCEPT !.priority = p]
  <2>1. SpecOf(i) = spec
    BY <1>0 DEF AddUnschedulableIfNotPresent, TypeOK, Infos, SpecOf
  <2>2. backoffQ' = Put(backoffQ, u, i)
    BY <1>1, <1>6 DEF AddUnschedulableIfNotPresent
  <2> HIDE DEF i
  <2>3. SpecsOf(items') = I /\ SpecsOf(backoffQ') = Put(B, u, spec)
    BY <2>1, <2>2, <1>2, SpecsOfPut
  <2> HIDE DEF I, B
  <2>4. Timeless' = SQAddUnschedulableIfNotPresent(Timeless, u, spec)
    BY <2>3, <1>3, <1>4, <1>6, TimelessParts DEF SQAddUnschedulableIfNotPresent, Waiting
  <2>5. QED
    BY <2>4, <1>2 DEF TimelessStep
<1>7. QED
  BY <1>5, <1>6

LEMMA FlushIsTimeless ==
  ASSUME TypeOK, CanCompare, FlushBackoffQCompleted
  PROVE  TimelessStep
<1> DEFINE I == SpecsOf(items)
           B == SpecsOf(backoffQ)
<1>1. Completed \subseteq DOMAIN backoffQ /\ held' = held
  BY DEF Completed, FlushBackoffQCompleted
<1>2. /\ items' = [u \in DOMAIN items \cup Completed |->
                     IF u \in Completed THEN backoffQ[u] ELSE items[u]]
      /\ backoffQ' = [u \in DOMAIN backoffQ \ Completed |-> backoffQ[u]]
  BY DEF FlushBackoffQCompleted, PutItems
<1>3. PICK S \in SUBSET DOMAIN backoffQ : S = Completed
  BY <1>1
<1> DEFINE F == [u \in DOMAIN I \cup S |-> IF u \in S THEN B[u] ELSE I[u]]
           G == [u \in DOMAIN B \ S |-> B[u]]
<1>4. SpecsOf(items') = F /\ SpecsOf(backoffQ') = G
  BY <1>2, <1>3 DEF SpecsOf
<1>5. Timeless = [items |-> I, backoffQ |-> B]
  BY TimelessParts
<1> HIDE DEF I, B
<1>6. /\ Timeless.items = I /\ Timeless.backoffQ = B
      /\ F = [u \in DOMAIN Timeless.items \cup S |->
               IF u \in S THEN Timeless.backoffQ[u] ELSE Timeless.items[u]]
      /\ G = [u \in DOMAIN Timeless.backoffQ \ S |-> Timeless.backoffQ[u]]
  BY <1>5
<1>7. SQFlush(Timeless, S) = [Timeless EXCEPT !.items = F, !.backoffQ = G]
  BY <1>6 DEF SQFlush
<1> HIDE DEF F, G
<1>8. Timeless' = SQFlush(Timeless, S)
  BY <1>4, <1>5, <1>7, TimelessParts
<1>9. QED
  BY <1>1, <1>8 DEF TimelessStep

LEMMA NextIsTimeless ==
  ASSUME TypeOK, CanCompare, [Next]_vars
  PROVE  TimelessStep \/ UNCHANGED <<Timeless, DOMAIN held>>
<1>1. ASSUME NEW u \in Units, NEW p \in Priorities, Add(u, p) \/ Update(u, p)
      PROVE  TimelessStep \/ UNCHANGED <<Timeless, DOMAIN held>>
  BY <1>1, WriteIsTimeless DEF Add, Update
<1>2. ASSUME NEW u \in Units, Delete(u)
      PROVE  TimelessStep \/ UNCHANGED <<Timeless, DOMAIN held>>
  BY <1>2, DeleteIsTimeless
<1>3. ASSUME NEW c \in Callers, Succeed(c) \/ GiveUp(c) \/ Fail(c)
      PROVE  TimelessStep
  BY <1>3, ReturnIsTimeless DEF Succeed, GiveUp, Fail, Drop
<1>4. CASE Tick \/ UNCHANGED vars
  BY <1>4, ReturnIsTimeless DEF Tick, vars
<1>5. QED
  BY <1>1, <1>2, <1>3, <1>4, PopIsTimeless, AddUnschedulableIsTimeless, FlushIsTimeless DEF Next

\* No step moves, loses or reprioritises a unit in any way SchedulingQueue does
\* not have, and Pop takes one of the highest priority, when the policy of the
\* queue has a plugin.  Without one (FIFO) the process panics, see PolicySupported.
THEOREM QueueIsSchedulingQueue ==
  ASSUME CanCompare
  PROVE  Spec => ImplementsTimeless
<1>1. TypeOK /\ [Next]_vars => [TimelessStep]_<<Timeless, DOMAIN held>>
  BY NextIsTimeless
<1>2. QED
  BY <1>1, QueueTypeCorrect, PTL DEF Spec, ImplementsTimeless
============================================================================
