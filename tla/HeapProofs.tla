----------------------------- MODULE HeapProofs ----------------------------
(***************************************************************************)
(* The heap, for every set of keys and objects, every order of the objects *)
(* and every size: array and map agree half-way through a call too, the    *)
(* root is least between two calls, and the heap implements LeastMap.      *)
(***************************************************************************)
EXTENDS Heap, TLAPS, WellFoundedInduction

(***************************************************************************)
(* The inductive invariant.  f is the array of objects in heap order, of   *)
(* which the places below n are looked at.                                 *)
(***************************************************************************)
NotAfter(f, i, j) == ~LessFn(f[j], f[i])

\* No object goes in front of that of its parent.
Ordered(f, n) == \A j \in 1 .. n - 1 : NotAfter(f, Parent(j), j)

\* If place i is left out, its children are in order with its parent.
Bypass(f, n, i) == \A j \in 1 .. n - 1 : i > 0 /\ Parent(j) = i => NotAfter(f, Parent(i), j)

\* Down has brought an object to place i: it may have to go behind the children
\* there and, when it has not moved yet, in front of the parent.
OrderedDown(f, n, i, from) ==
  /\ \A j \in 1 .. n - 1 : Parent(j) # i /\ (j = i => i > from) => NotAfter(f, Parent(j), j)
  /\ Bypass(f, n, i)

\* Up has brought an object to place i: it may have to go in front of the parent.
OrderedUp(f, n, i) ==
  /\ \A j \in 1 .. n - 1 : j # i => NotAfter(f, Parent(j), j)
  /\ Bypass(f, n, i)

Objs == [i \in Places |-> ObjAt(i)]

\* The last place is not part of the heap while its object is on its way out.
Limit == IF Idle \/ call.after = None THEN size ELSE size - 1

Afters == {None, Pops} \cup {<<"delete", k>> : k \in Keys}

Calls == {Returned}
           \cup [pc : {"down"}, i : Nat, from : Nat, n : Nat, after : Afters]
           \cup [pc : {"up"}, i : Nat, after : Afters]
           \cup [pc : {"pop"}, after : Afters \ {None}]

Typed ==
  /\ size \in Nat
  /\ DOMAIN items \subseteq Keys
  /\ items \in [DOMAIN items -> [obj : Objects, index : Places]]
  /\ queue \in [Places -> Keys]
  /\ call \in Calls
  /\ last \in {None} \cup ({"add", "delete", "pop"} \X Keys)

\* The loop in progress has at most one object that is out of place.
Sifting ==
  /\ call.pc \in {"idle", "pop"} => Ordered(Objs, Limit)
  /\ call.pc = "down" =>
       /\ call.n = Limit /\ call.i \in Places /\ call.from <= call.i
       /\ IF call.after = Pops THEN call.from = 0 ELSE call.i < Limit
       /\ OrderedDown(Objs, Limit, call.i, call.from)
  /\ call.pc = "up" => call.i < Limit /\ OrderedUp(Objs, Limit, call.i)

\* The object on its way out is the one to delete, or a least one.
Leaving ==
  ~Idle /\ call.after # None =>
    /\ size > 0
    /\ IF call.after = Pops
       THEN \A k \in DOMAIN items : ~LessFn(items[k].obj, ObjAt(size - 1))
       ELSE call.after = <<"delete", queue[size - 1]>>

HeapInv == Typed /\ Indexed /\ Sifting /\ Leaving

----------------------------------------------------------------------------
(***************************************************************************)
(* The order of the objects and the shape of the tree.                     *)
(***************************************************************************)

\* A set of natural numbers that is not empty has a least element.
LEMMA LeastNat ==
  ASSUME NEW T \in SUBSET Nat, T # {}
  PROVE  \E x \in T : \A y \in T : x <= y
<1> DEFINE R == OpToRel(<, Nat)
<1>1. IsWellFoundedOn(R, Nat)
  BY NatLessThanWellFounded
<1>2. \A x, y \in Nat : x < y => <<x, y>> \in R
  BY DEF OpToRel
<1> HIDE DEF R
<1>3. PICK x \in T : \A y \in T : ~(<<y, x>> \in R)
  BY <1>1, WFMin
<1>4. ASSUME NEW y \in T
      PROVE  x <= y
  <2>1. x \in Nat /\ y \in Nat
    OBVIOUS
  <2>2. ~(y < x)
    BY <1>2, <1>3, <2>1
  <2>3. QED
    BY <2>1, <2>2
<1>5. QED
  BY <1>4

\* Not going in front is transitive, and no object goes in front of itself.
LEMMA NotLessTransitive ==
  ASSUME NEW a \in Objects, NEW b \in Objects, NEW c \in Objects,
         ~LessFn(a, b), ~LessFn(b, c)
  PROVE  ~LessFn(a, c)
BY LessIsWeakOrder

LEMMA NotLessItself ==
  ASSUME NEW a \in Objects
  PROVE  ~LessFn(a, a)
BY LessIsWeakOrder

LEMMA NotLessBack ==
  ASSUME NEW a \in Objects, NEW b \in Objects, LessFn(a, b)
  PROVE  ~LessFn(b, a)
BY LessIsWeakOrder

\* The tree: the parent of a place is in front of it, its children are two.
LEMMA ParentInFront ==
  ASSUME NEW j \in Nat, j > 0
  PROVE  Parent(j) \in Nat /\ Parent(j) < j
BY DEF Parent

LEMMA ChildrenOf ==
  ASSUME NEW i \in Nat, NEW j \in Nat, j > 0
  PROVE  Parent(j) = i <=> j = 2 * i + 1 \/ j = 2 * i + 2
BY DEF Parent

\* In a heap the root is least.
LEMMA RootOfOrdered ==
  ASSUME NEW n \in Nat, NEW m \in Nat, n <= m, NEW f \in [0 .. m - 1 -> Objects],
         Ordered(f, n), NEW i \in 0 .. n - 1
  PROVE  ~LessFn(f[i], f[0])
<1> DEFINE T == {j \in 0 .. n - 1 : LessFn(f[j], f[0])}
<1>1. SUFFICES ASSUME T # {}
               PROVE  FALSE
  OBVIOUS
<1>2. T \in SUBSET Nat
  OBVIOUS
<1>3. PICK j \in T : \A y \in T : j <= y
  BY <1>1, <1>2, LeastNat
<1>4. j \in 0 .. n - 1 /\ LessFn(f[j], f[0]) /\ 0 \in 0 .. m - 1 /\ j \in 0 .. m - 1
  OBVIOUS
<1>5. j # 0
  BY <1>4, NotLessItself
<1>6. Parent(j) \in 0 .. n - 1 /\ Parent(j) < j /\ Parent(j) \in 0 .. m - 1
  BY <1>4, <1>5, ParentInFront
<1>7. ~LessFn(f[Parent(j)], f[0])
  BY <1>3, <1>6
<1>8. ~LessFn(f[j], f[Parent(j)])
  BY <1>4, <1>5 DEF Ordered, NotAfter
<1>9. QED
  BY <1>4, <1>6, <1>7, <1>8, NotLessTransitive

----------------------------------------------------------------------------
(***************************************************************************)
(* What the loops do to the order.                                         *)
(***************************************************************************)
Swapped(f, i, j) == [f EXCEPT ![i] = f[j], ![j] = f[i]]

\* Down finds a child c that goes in front, the lesser one, and takes it up.
LEMMA DownStep ==
  ASSUME NEW n \in Nat, NEW m \in Nat, n <= m, NEW f \in [0 .. m - 1 -> Objects],
         NEW i \in 0 .. m - 1, NEW from \in Nat, from <= i, NEW c \in 1 .. n - 1,
         OrderedDown(f, n, i, from), Parent(c) = i, LessFn(f[c], f[i]),
         \A j \in 1 .. n - 1 : Parent(j) = i => ~LessFn(f[j], f[c])
  PROVE  OrderedDown(Swapped(f, i, c), n, c, from) /\ c > from
<1> DEFINE g == Swapped(f, i, c)
<1>1. i < c /\ i \in 0 .. n - 1 /\ c \in 0 .. m - 1
  BY ParentInFront
<1>2. /\ g[i] = f[c] /\ g[c] = f[i]
      /\ \A k \in 0 .. m - 1 : k # i /\ k # c => g[k] = f[k]
  BY <1>1 DEF Swapped
<1> HIDE DEF g
<1>3. ASSUME NEW j \in 1 .. n - 1
      PROVE  j \in 0 .. m - 1 /\ Parent(j) \in 0 .. m - 1 /\ Parent(j) < j
  BY ParentInFront
<1>4. ASSUME NEW j \in 1 .. n - 1, Parent(j) # c
      PROVE  NotAfter(g, Parent(j), j)
  <2>1. CASE j = c
    BY <2>1, <1>1, <1>2, NotLessBack DEF NotAfter
  <2>2. CASE j # c /\ Parent(j) = i
    BY <2>2, <1>1, <1>2, <1>3 DEF NotAfter
  <2>3. CASE j = i
    <3>1. NotAfter(f, Parent(i), c)
      BY <2>3 DEF OrderedDown, Bypass
    <3>2. Parent(i) # i /\ Parent(i) # c
      BY <2>3, <1>1, <1>3
    <3>3. QED
      BY <2>3, <3>1, <3>2, <1>2, <1>3 DEF NotAfter
  <2>4. CASE j # c /\ j # i /\ Parent(j) # i
    <3>1. NotAfter(f, Parent(j), j)
      BY <2>4 DEF OrderedDown
    <3>2. QED
      BY <2>4, <3>1, <1>2, <1>3, <1>4 DEF NotAfter
  <2>5. QED
    BY <2>1, <2>2, <2>3, <2>4
<1>5. ASSUME NEW j \in 1 .. n - 1, Parent(j) = c
      PROVE  NotAfter(g, i, j)
  <2>1. NotAfter(f, c, j)
    BY <1>1, <1>3, <1>5 DEF OrderedDown
  <2>2. QED
    BY <2>1, <1>1, <1>2, <1>3, <1>5 DEF NotAfter
<1>6. QED
  BY <1>1, <1>4, <1>5 DEF OrderedDown, Bypass, g

\* Down ends when no child goes in front: the object may still have to go up.
LEMMA DownEnd ==
  ASSUME NEW f, NEW n \in Nat, NEW i \in Nat, NEW from \in Nat, OrderedDown(f, n, i, from),
         \A j \in 1 .. n - 1 : Parent(j) = i => ~LessFn(f[j], f[i])
  PROVE  /\ OrderedUp(f, n, i)
         /\ i > from \/ i = 0 => Ordered(f, n)
BY DEF OrderedDown, OrderedUp, Ordered, NotAfter

\* Up exchanges an object with its parent.
LEMMA UpStep ==
  ASSUME NEW n \in Nat, NEW m \in Nat, n <= m, NEW f \in [0 .. m - 1 -> Objects],
         NEW c \in 1 .. n - 1, OrderedUp(f, n, c), LessFn(f[c], f[Parent(c)])
  PROVE  OrderedUp(Swapped(f, Parent(c), c), n, Parent(c))
<1> DEFINE i == Parent(c)
           g == Swapped(f, i, c)
<1>1. i < c /\ i \in 0 .. n - 1 /\ i \in 0 .. m - 1 /\ c \in 0 .. m - 1
  BY ParentInFront
<1>2. /\ g[i] = f[c] /\ g[c] = f[i]
      /\ \A k \in 0 .. m - 1 : k # i /\ k # c => g[k] = f[k]
  BY <1>1 DEF Swapped
<1> HIDE DEF g
<1>3. ASSUME NEW j \in 1 .. n - 1
      PROVE  j \in 0 .. m - 1 /\ Parent(j) \in 0 .. m - 1 /\ Parent(j) < j
  BY ParentInFront
<1>4. \A j \in 1 .. n - 1 : j # c => ~LessFn(f[j], f[Parent(j)])
  BY DEF OrderedUp, NotAfter
<1>5. ~LessFn(f[i], f[c])
  BY <1>1, NotLessBack
<1>6. ASSUME NEW j \in 1 .. n - 1, Parent(j) = i, j # c
      PROVE  ~LessFn(f[j], f[c])
  BY <1>1, <1>3, <1>4, <1>5, <1>6, NotLessTransitive
<1>7. ASSUME NEW j \in 1 .. n - 1, j # i
      PROVE  NotAfter(g, Parent(j), j)
  <2>1. CASE j = c
    BY <2>1, <1>2, <1>5 DEF NotAfter
  <2>2. CASE j # c /\ Parent(j) = i
    BY <2>2, <1>1, <1>2, <1>3, <1>6, <1>7 DEF NotAfter
  <2>3. CASE Parent(j) = c
    <3>1. ~LessFn(f[j], f[i])
      BY <2>3 DEF OrderedUp, Bypass, NotAfter
    <3>2. j # c
      BY <2>3, <1>3
    <3>3. QED
      BY <2>3, <3>1, <3>2, <1>2, <1>3, <1>7 DEF NotAfter
  <2>4. CASE j # c /\ Parent(j) # i /\ Parent(j) # c
    BY <2>4, <1>2, <1>3, <1>4, <1>7 DEF NotAfter
  <2>5. QED
    BY <2>1, <2>2, <2>3, <2>4
<1>8. ASSUME NEW j \in 1 .. n - 1, Parent(j) = i, i > 0
      PROVE  NotAfter(g, Parent(i), j)
  <2>1. i \in 1 .. n - 1 /\ Parent(i) \in 0 .. m - 1 /\ Parent(i) < i
    BY <1>1, <1>3, <1>8
  <2>2. ~LessFn(f[i], f[Parent(i)])
    BY <2>1, <1>1, <1>4
  <2>3. g[Parent(i)] = f[Parent(i)]
    BY <2>1, <1>1, <1>2
  <2>4. CASE j = c
    BY <2>2, <2>3, <2>4, <1>2 DEF NotAfter
  <2>5. CASE j # c
    <3>1. ~LessFn(f[j], f[i])
      BY <2>5, <1>4, <1>8
    <3>2. ~LessFn(f[j], f[Parent(i)])
      BY <2>1, <2>2, <3>1, <1>1, <1>3, NotLessTransitive
    <3>3. QED
      BY <2>3, <2>5, <3>2, <1>2, <1>3, <1>8 DEF NotAfter
  <2>6. QED
    BY <2>4, <2>5
<1>9. QED
  BY <1>7, <1>8 DEF OrderedUp, Bypass, g

\* Up ends when the object does not go in front of its parent.
LEMMA UpEnd ==
  ASSUME NEW f, NEW n \in Nat, NEW c \in Nat, OrderedUp(f, n, c),
         c = 0 \/ ~LessFn(f[c], f[Parent(c)])
  PROVE  Ordered(f, n)
BY DEF OrderedUp, Ordered, NotAfter

\* A heap is one below any smaller bound, and with one object replaced or one
\* added it is what the loops start from.
LEMMA OrderedBelow ==
  ASSUME NEW f, NEW n \in Nat, NEW k \in Nat, k <= n, Ordered(f, n)
  PROVE  Ordered(f, k)
BY DEF Ordered

LEMMA ReplacedDown ==
  ASSUME NEW n \in Nat, NEW m \in Nat, n <= m, NEW f \in [0 .. m - 1 -> Objects],
         NEW g, NEW i \in 0 .. m - 1, Ordered(f, n),
         \A j \in 0 .. n - 1 : j # i => g[j] = f[j]
  PROVE  OrderedDown(g, n, i, i)
<1>1. ASSUME NEW j \in 1 .. n - 1
      PROVE  /\ j \in 0 .. m - 1 /\ Parent(j) \in 0 .. n - 1 /\ Parent(j) < j
             /\ ~LessFn(f[j], f[Parent(j)])
  BY ParentInFront DEF Ordered, NotAfter
<1>2. ASSUME NEW j \in 1 .. n - 1, Parent(j) # i, j # i
      PROVE  NotAfter(g, Parent(j), j)
  BY <1>1, <1>2 DEF NotAfter
<1>3. ASSUME NEW j \in 1 .. n - 1, i > 0, Parent(j) = i
      PROVE  NotAfter(g, Parent(i), j)
  <2>1. i \in 1 .. n - 1 /\ j # i
    BY <1>1, <1>3
  <2>2. Parent(i) \in 0 .. m - 1 /\ Parent(i) < i /\ Parent(i) \in 0 .. n - 1
    BY <2>1, <1>1
  <2>3. ~LessFn(f[j], f[Parent(i)])
    BY <2>1, <2>2, <1>1, <1>3, NotLessTransitive
  <2>4. g[j] = f[j] /\ g[Parent(i)] = f[Parent(i)]
    BY <2>1, <2>2
  <2>5. QED
    BY <2>3, <2>4 DEF NotAfter
<1>4. QED
  BY <1>2, <1>3 DEF OrderedDown, Bypass

LEMMA AddedUp ==
  ASSUME NEW n \in Nat, NEW f, NEW g, Ordered(f, n),
         \A j \in 0 .. n - 1 : g[j] = f[j]
  PROVE  OrderedUp(g, n + 1, n)
<1>1. ASSUME NEW j \in 1 .. n
      PROVE  Parent(j) < j /\ Parent(j) \in 0 .. n - 1
  BY ParentInFront
<1>2. ASSUME NEW j \in 1 .. n, j # n
      PROVE  NotAfter(g, Parent(j), j)
  BY <1>1, <1>2 DEF Ordered, NotAfter
<1>3. \A j \in 1 .. n : Parent(j) # n
  BY <1>1
<1>4. QED
  BY <1>2, <1>3 DEF OrderedUp, Bypass

----------------------------------------------------------------------------
(***************************************************************************)
(* The methods of data.                                                    *)
(***************************************************************************)
LEMMA ObjsType ==
  ASSUME Typed, Indexed
  PROVE  /\ Objs \in [Places -> Objects]
         /\ \A i \in Places : Objs[i] = ObjAt(i) /\ queue[i] \in DOMAIN items
BY DEF Typed, Indexed, Objs, ObjAt

LEMMA LessIsLessFn ==
  ASSUME Typed, Indexed, NEW i \in Places, NEW j \in Places
  PROVE  Less(i, j) <=> LessFn(Objs[i], Objs[j])
<1>1. i <= size /\ j <= size
  BY DEF Typed, Places
<1>2. QED
  BY <1>1, ObjsType DEF Less

\* Swap exchanges two places of the array and keeps the map in step.
LEMMA SwapKeeps ==
  ASSUME Typed, Indexed, NEW i \in Places, NEW j \in Places, Swap(i, j), UNCHANGED size
  PROVE  /\ items' \in [DOMAIN items -> [obj : Objects, index : Places]]
         /\ \A k \in DOMAIN items : items'[k].obj = items[k].obj
         /\ queue' \in [Places -> Keys]
         /\ Indexed'
         /\ Objs' = Swapped(Objs, i, j)
         /\ queue'[i] = queue[j] /\ queue'[j] = queue[i]
         /\ \A p \in Places : p # i /\ p # j => queue'[p] = queue[p]
<1>1. /\ queue' \in [Places -> Keys]
      /\ queue'[i] = queue[j] /\ queue'[j] = queue[i]
      /\ \A p \in Places : p # i /\ p # j => queue'[p] = queue[p]
  BY DEF Swap, Typed
<1>2. Places' = Places
  BY DEF Places
<1>3. /\ DOMAIN items' = DOMAIN items
      /\ items' = [k \in DOMAIN items |-> items'[k]]
      /\ \A k \in DOMAIN items :
           items'[k] = [obj |-> items[k].obj,
                        index |-> IF k = queue[i] THEN j
                                  ELSE IF k = queue[j] THEN i ELSE items[k].index]
  <2>1. ASSUME NEW k \in DOMAIN items
        PROVE  items[k] = [obj |-> items[k].obj, index |-> items[k].index]
    BY DEF Typed
  <2>2. QED
    BY <2>1 DEF Swap
<1>4. items' \in [DOMAIN items -> [obj : Objects, index : Places]]
  BY <1>3 DEF Typed
<1>5. \A k \in DOMAIN items : items'[k].obj = items[k].obj
  BY <1>3
<1>6. \A p \in Places : queue[p] \in DOMAIN items /\ items[queue[p]].index = p
  BY DEF Indexed
<1>7. ASSUME NEW p \in Places
      PROVE  queue'[p] \in DOMAIN items /\ items'[queue'[p]].index = p
  <2>1. CASE p = i
    BY <2>1, <1>1, <1>3, <1>6
  <2>2. CASE p = j /\ p # i
    BY <2>2, <1>1, <1>3, <1>6
  <2>3. CASE p # i /\ p # j
    BY <2>3, <1>1, <1>3, <1>6
  <2>4. QED
    BY <2>1, <2>2, <2>3
<1>8. ASSUME NEW k \in DOMAIN items
      PROVE  queue'[items'[k].index] = k
  <2>1. queue[items[k].index] = k /\ items[k].index \in Places
    BY DEF Indexed, Typed
  <2>2. items'[k].index = IF k = queue[i] THEN j
                          ELSE IF k = queue[j] THEN i ELSE items[k].index
    BY <1>3
  <2>3. QED
    BY <2>1, <2>2, <1>1
<1>9. Indexed'
  BY <1>2, <1>3, <1>7, <1>8 DEF Indexed
<1>10. Objs' = Swapped(Objs, i, j)
  <2>1. Objs' = [p \in Places |-> items'[queue'[p]].obj]
    BY <1>2 DEF Objs, ObjAt
  <2>2. \A p \in Places : items'[queue'[p]].obj = items[queue'[p]].obj
    BY <1>5, <1>7
  <2>3. Swapped(Objs, i, j) =
          [p \in Places |-> IF p = j THEN Objs[i] ELSE IF p = i THEN Objs[j] ELSE Objs[p]]
    BY DEF Swapped, Objs
  <2>4. ASSUME NEW p \in Places
        PROVE  items'[queue'[p]].obj =
                 IF p = j THEN Objs[i] ELSE IF p = i THEN Objs[j] ELSE Objs[p]
    BY <2>2, <1>1 DEF Objs, ObjAt
  <2>5. QED
    BY <2>1, <2>3, <2>4
<1>11. QED
  BY <1>1, <1>4, <1>5, <1>9, <1>10

\* Push puts a new key at the end.
LEMMA PushKeeps ==
  ASSUME Typed, Indexed, NEW k \in Keys, NEW v \in Objects, k \notin DOMAIN items, Push(k, v)
  PROVE  /\ size' = size + 1 /\ size' \in Nat
         /\ DOMAIN items' = DOMAIN items \cup {k}
         /\ items' \in [DOMAIN items' -> [obj : Objects, index : Places']]
         /\ queue' \in [Places' -> Keys]
         /\ Indexed'
         /\ \A p \in Places : Objs'[p] = Objs[p]
<1>1. size' = size + 1 /\ size' \in Nat /\ Places' = Places \cup {size} /\ size \notin Places
  BY DEF Push, Typed, Places
<1>2. /\ DOMAIN items' = DOMAIN items \cup {k}
      /\ items'[k] = [obj |-> v, index |-> size]
      /\ \A x \in DOMAIN items : items'[x] = items[x]
  BY DEF Push, Put
<1>3. items' \in [DOMAIN items' -> [obj : Objects, index : Places']]
  <2>1. \A x \in DOMAIN items' : items'[x] \in [obj : Objects, index : Places']
    BY <1>1, <1>2 DEF Typed
  <2>2. items' = [x \in DOMAIN items' |-> items'[x]]
    BY DEF Push, Put
  <2>3. QED
    BY <2>1, <2>2
<1>4. /\ queue'[size] = k /\ \A p \in Places : queue'[p] = queue[p]
      /\ queue' \in [Places' -> Keys]
  BY <1>1 DEF Push, Put, Typed
<1>5. \A p \in Places : queue[p] \in DOMAIN items /\ items[queue[p]].index = p
  BY DEF Indexed
<1>6. \A p \in Places' : queue'[p] \in DOMAIN items' /\ items'[queue'[p]].index = p
  BY <1>1, <1>2, <1>4, <1>5
<1>7. \A x \in DOMAIN items' : queue'[items'[x].index] = x
  <2>1. \A x \in DOMAIN items : items[x].index \in Places /\ queue[items[x].index] = x
    BY DEF Typed, Indexed
  <2>2. QED
    BY <2>1, <1>2, <1>4
<1>8. Indexed'
  BY <1>6, <1>7 DEF Indexed
<1>9. \A p \in Places : Objs'[p] = Objs[p]
  BY <1>1, <1>2, <1>4, <1>5 DEF Objs, ObjAt
<1>10. QED
  BY <1>1, <1>2, <1>3, <1>4, <1>8, <1>9

----------------------------------------------------------------------------
(***************************************************************************)
(* The calls and their loops: every step keeps the invariant.              *)
(***************************************************************************)
LEMMA CallForms ==
  ASSUME Typed
  PROVE  /\ call.pc \in {"idle", "down", "up", "pop"}
         /\ call.pc = "idle" => call = Returned
         /\ call.pc = "down" => /\ call.i \in Nat /\ call.from \in Nat /\ call.n \in Nat
                                /\ call.after \in Afters
                                /\ call = Down(call.i, call.from, call.n, call.after)
         /\ call.pc = "up" => /\ call.i \in Nat /\ call.after \in Afters
                              /\ call = Up(call.i, call.after)
         /\ call.pc = "pop" => call.after \in Afters \ {None}
BY DEF Typed, Calls, Returned, Down, Up

LEMMA CallsBuilt ==
  /\ Returned \in Calls /\ Returned.pc = "idle"
  /\ \A i, from, n \in Nat : \A a \in Afters :
       /\ Down(i, from, n, a) \in Calls /\ Down(i, from, n, a).pc = "down"
       /\ Down(i, from, n, a).i = i /\ Down(i, from, n, a).from = from
       /\ Down(i, from, n, a).n = n /\ Down(i, from, n, a).after = a
  /\ \A i \in Nat : \A a \in Afters :
       /\ Up(i, a) \in Calls /\ Up(i, a).pc = "up" /\ Up(i, a).i = i /\ Up(i, a).after = a
  /\ \A a \in Afters \ {None} :
       Done(a) \in Calls /\ Done(a).pc = "pop" /\ Done(a).after = a
  /\ Done(None) = Returned
BY DEF Calls, Returned, Down, Up, Done

LEMMA AftersDiffer ==
  /\ None \in Afters /\ Pops \in Afters /\ None # Pops
  /\ \A k \in Keys : /\ <<"delete", k>> \in Afters
                     /\ <<"delete", k>> # None /\ <<"delete", k>> # Pops
BY DEF Afters, None, Pops

LEMMA InitInv ==
  ASSUME Init
  PROVE  HeapInv
<1>1. /\ size = 0 /\ Places = {} /\ DOMAIN items = {} /\ DOMAIN queue = {}
      /\ items = [k \in {} |-> k] /\ queue = [k \in {} |-> k]
  BY DEF Init, EmptyMap, Places
<1>2. call = Returned /\ call.pc = "idle" /\ Idle
  BY DEF Init, Returned, Idle
<1>3. Typed
  BY <1>1, <1>2, CallsBuilt DEF Typed, Init
<1>4. Indexed
  BY <1>1 DEF Indexed
<1>5. Sifting
  BY <1>1, <1>2 DEF Sifting, Ordered, Limit
<1>6. Leaving
  BY <1>2 DEF Leaving
<1>7. QED
  BY <1>3, <1>4, <1>5, <1>6 DEF HeapInv

\* heap.Push: the new object is the one out of place.
LEMMA AddNewInv ==
  ASSUME HeapInv, Idle, NEW k \in Keys, NEW v \in Objects, k \notin DOMAIN items, AddNew(k, v)
  PROVE  HeapInv'
<1>1. Typed /\ Indexed /\ Sifting
  BY DEF HeapInv
<1>2. /\ size' = size + 1 /\ size' \in Nat
      /\ DOMAIN items' = DOMAIN items \cup {k}
      /\ items' \in [DOMAIN items' -> [obj : Objects, index : Places']]
      /\ queue' \in [Places' -> Keys]
      /\ Indexed'
      /\ \A p \in Places : Objs'[p] = Objs[p]
  BY <1>1, PushKeeps DEF AddNew
<1>3. size \in Nat
  BY <1>1 DEF Typed
<1>4. call' \in Calls /\ call'.pc = "up" /\ call'.i = size /\ call'.after = None
  BY <1>3, CallsBuilt, AftersDiffer DEF AddNew
<1>5. Typed'
  BY <1>1, <1>2, <1>4 DEF Typed, AddNew
<1>6. Ordered(Objs, size)
  BY <1>1 DEF Sifting, Limit, Idle
<1>7. OrderedUp(Objs', size + 1, size)
  BY <1>2, <1>3, <1>6, AddedUp DEF Places
<1>8. Limit' = size + 1
  BY <1>2, <1>4 DEF Limit
<1>9. Sifting'
  BY <1>3, <1>4, <1>7, <1>8 DEF Sifting
<1>10. Leaving'
  BY <1>4 DEF Leaving
<1>11. QED
  BY <1>2, <1>5, <1>9, <1>10 DEF HeapInv

\* heap.Fix after the object of a key was replaced.
LEMMA AddKnownInv ==
  ASSUME HeapInv, NEW k \in Keys, NEW v \in Objects, k \in DOMAIN items, Add(k, v)
  PROVE  HeapInv'
<1>1. Typed /\ Indexed /\ Sifting /\ Idle
  BY DEF HeapInv, Add
<1> DEFINE i == items[k].index
<1>2. /\ items' = [items EXCEPT ![k].obj = v]
      /\ call' = Down(i, i, size, None) /\ last' = <<"add", k>>
      /\ queue' = queue /\ size' = size
  BY DEF Add, AddNew
<1>3. i \in Places /\ i \in Nat /\ size \in Nat /\ Places' = Places
  BY <1>1, <1>2 DEF Typed, Places
<1>4. /\ items' \in [DOMAIN items -> [obj : Objects, index : Places]]
      /\ \A x \in DOMAIN items : items'[x].index = items[x].index
      /\ \A x \in DOMAIN items : x # k => items'[x] = items[x]
  BY <1>1, <1>2 DEF Typed
<1>5. Indexed'
  BY <1>1, <1>2, <1>3, <1>4 DEF Indexed
<1>6. /\ call' \in Calls /\ call'.pc = "down" /\ call'.i = i /\ call'.from = i
      /\ call'.n = size /\ call'.after = None
  BY <1>2, <1>3, CallsBuilt, AftersDiffer
<1>7. Typed'
  BY <1>1, <1>2, <1>3, <1>4, <1>6 DEF Typed
<1>8. \A p \in Places : p # i => Objs'[p] = Objs[p]
  BY <1>1, <1>2, <1>3, <1>4 DEF Objs, ObjAt, Indexed
<1>9. Ordered(Objs, size)
  BY <1>1 DEF Sifting, Limit, Idle
<1>10. OrderedDown(Objs', size, i, i)
  BY <1>1, <1>3, <1>8, <1>9, ReplacedDown, ObjsType DEF Places
<1>11. Limit' = size
  BY <1>2, <1>6 DEF Limit
<1>12. Sifting'
  BY <1>2, <1>3, <1>6, <1>10, <1>11, AftersDiffer DEF Sifting, Places
<1>13. Leaving'
  BY <1>6 DEF Leaving
<1>14. QED
  BY <1>5, <1>7, <1>12, <1>13 DEF HeapInv

\* heap.Remove and heap.Pop bring the object to the end.
LEMMA BringToEnd ==
  ASSUME Typed, Indexed, Ordered(Objs, size), size > 0, NEW i \in Places,
         Swap(i, size - 1), UNCHANGED size
  PROVE  /\ OrderedDown(Objs', size - 1, i, i)
         /\ queue'[size - 1] = queue[i]
<1>1. size \in Nat /\ size - 1 \in Nat /\ size - 1 \in Places
  BY DEF Typed, Places
<1>2. Objs' = Swapped(Objs, i, size - 1) /\ queue'[size - 1] = queue[i]
  BY <1>1, SwapKeeps
<1>3. Ordered(Objs, size - 1)
  BY <1>1, OrderedBelow
<1>4. Objs \in [0 .. size - 1 -> Objects]
  BY ObjsType DEF Places
<1>5. \A j \in 0 .. (size - 1) - 1 : j # i => Objs'[j] = Objs[j]
  BY <1>1, <1>2, <1>4 DEF Swapped
<1>6. i \in 0 .. size - 1
  BY DEF Places
<1>7. OrderedDown(Objs', size - 1, i, i)
  BY <1>1, <1>3, <1>4, <1>5, <1>6, ReplacedDown
<1>8. QED
  BY <1>2, <1>7

LEMMA DeleteInv ==
  ASSUME HeapInv, NEW k \in Keys, Delete(k)
  PROVE  HeapInv'
<1>1. Typed /\ Indexed /\ Sifting /\ Idle /\ k \in DOMAIN items
  BY DEF HeapInv, Delete
<1> DEFINE i == items[k].index
           after == <<"delete", k>>
<1>2. i \in Places /\ size \in Nat /\ queue[i] = k /\ size' = size /\ last' = last
  BY <1>1 DEF Typed, Indexed, Delete
<1>3. size > 0 /\ size - 1 \in Nat /\ size - 1 \in Places /\ i \in Nat /\ Places' = Places
  BY <1>2 DEF Places
<1>4. Ordered(Objs, size)
  BY <1>1 DEF Sifting, Limit, Idle
<1>5. after \in Afters \ {None} /\ after # Pops
  BY AftersDiffer
<1> HIDE DEF i, after
<1>6. CASE i = size - 1
  <2>1. call' = Done(after) /\ UNCHANGED <<items, queue, size, last>>
    BY <1>6 DEF Delete, i, after
  <2>2. call' \in Calls /\ call'.pc = "pop" /\ call'.after = after
    BY <2>1, <1>5, CallsBuilt
  <2>3. Typed' /\ Indexed' /\ Objs' = Objs
    BY <2>1, <2>2, <1>1 DEF Typed, Indexed, Objs, ObjAt, Places
  <2>4. Ordered(Objs', size - 1)
    BY <2>3, <1>2, <1>3, <1>4, OrderedBelow
  <2>5. Sifting'
    BY <2>1, <2>2, <2>4, <1>5 DEF Sifting, Limit, Idle
  <2>6. Leaving'
    BY <2>1, <2>2, <1>2, <1>3, <1>5, <1>6 DEF Leaving, after
  <2>7. QED
    BY <2>3, <2>5, <2>6 DEF HeapInv
<1>7. CASE i # size - 1
  <2>1. call' = Down(i, i, size - 1, after) /\ Swap(i, size - 1)
    BY <1>7 DEF Delete, i, after
  <2>2. /\ call' \in Calls /\ call'.pc = "down" /\ call'.after = after
        /\ call'.i = i /\ call'.from = i /\ call'.n = size - 1
    BY <2>1, <1>3, <1>5, CallsBuilt
  <2>3. /\ items' \in [DOMAIN items -> [obj : Objects, index : Places]]
        /\ queue' \in [Places -> Keys] /\ Indexed'
    BY <2>1, <1>1, <1>2, <1>3, SwapKeeps
  <2>4. Typed'
    BY <2>2, <2>3, <1>1, <1>2, <1>3 DEF Typed
  <2>5. OrderedDown(Objs', size - 1, i, i) /\ queue'[size - 1] = k
    BY <2>1, <1>1, <1>2, <1>3, <1>4, BringToEnd
  <2>6. i < size - 1 /\ Limit' = size - 1
    BY <2>2, <1>2, <1>5, <1>7 DEF Limit, Idle, Places
  <2>7. Sifting'
    BY <2>2, <2>5, <2>6, <1>2, <1>3, <1>5 DEF Sifting
  <2>8. Leaving'
    BY <2>2, <2>5, <1>2, <1>3, <1>5 DEF Leaving, after
  <2>9. QED
    BY <2>3, <2>4, <2>7, <2>8 DEF HeapInv
<1>8. QED
  BY <1>6, <1>7

\* The root, which Pop brings to the end, is least.
LEMMA RootIsLeastOfAll ==
  ASSUME Typed, Indexed, Ordered(Objs, size), size > 0
  PROVE  \A k \in DOMAIN items : ~LessFn(items[k].obj, ObjAt(0))
<1>1. TAKE k \in DOMAIN items
<1>2. items[k].index \in Places /\ queue[items[k].index] = k
  BY DEF Typed, Indexed
<1>3. /\ size \in Nat /\ 0 \in Places /\ items[k].index \in 0 .. size - 1
      /\ Objs \in [0 .. size - 1 -> Objects]
  BY <1>2, ObjsType DEF Typed, Places
<1>4. ~LessFn(Objs[items[k].index], Objs[0])
  BY <1>3, RootOfOrdered
<1>5. QED
  BY <1>2, <1>3, <1>4 DEF Objs, ObjAt

LEMMA PopInv ==
  ASSUME HeapInv, Pop
  PROVE  HeapInv'
<1>1. Typed /\ Indexed /\ Sifting /\ Idle /\ size > 0 /\ Swap(0, size - 1)
  BY DEF HeapInv, Pop
<1>2. /\ size \in Nat /\ size - 1 \in Nat /\ size - 1 \in Places /\ 0 \in Places
      /\ size' = size /\ last' = last /\ Places' = Places
  BY <1>1 DEF Typed, Places, Pop
<1>3. Ordered(Objs, size)
  BY <1>1 DEF Sifting, Limit, Idle
<1>4. /\ call' \in Calls /\ call'.pc = "down" /\ call'.after = Pops
      /\ call'.i = 0 /\ call'.from = 0 /\ call'.n = size - 1
  BY <1>2, AftersDiffer, CallsBuilt DEF Pop
<1>5. /\ items' \in [DOMAIN items -> [obj : Objects, index : Places]]
      /\ \A k \in DOMAIN items : items'[k].obj = items[k].obj
      /\ queue' \in [Places -> Keys] /\ Indexed'
  BY <1>1, <1>2, SwapKeeps
<1>6. Typed'
  BY <1>1, <1>2, <1>4, <1>5 DEF Typed
<1>7. OrderedDown(Objs', size - 1, 0, 0) /\ queue'[size - 1] = queue[0]
  BY <1>1, <1>2, <1>3, BringToEnd
<1>8. Limit' = size - 1
  BY <1>2, <1>4, AftersDiffer DEF Limit, Idle
<1>9. Sifting'
  BY <1>2, <1>4, <1>7, <1>8 DEF Sifting
<1>10. Leaving'
  <2>1. queue[0] \in DOMAIN items
    BY <1>1, <1>2 DEF Indexed
  <2>2. DOMAIN items' = DOMAIN items /\ ObjAt(size - 1)' = ObjAt(0)
    BY <2>1, <1>2, <1>5, <1>7 DEF ObjAt
  <2>3. \A k \in DOMAIN items' : ~LessFn(items'[k].obj, ObjAt(size - 1)')
    BY <2>2, <1>1, <1>3, <1>5, RootIsLeastOfAll
  <2>4. QED
    BY <2>3, <1>1, <1>2, <1>4 DEF Leaving
<1>11. QED
  BY <1>5, <1>6, <1>9, <1>10 DEF HeapInv

\* A swap below the limit leaves the object that is on its way out alone.
LEMMA LeavingKept ==
  ASSUME Typed, Indexed, Leaving, ~Idle, NEW i \in Places, NEW j \in Places,
         i < Limit, j < Limit, Swap(i, j), UNCHANGED size,
         call'.pc # "idle", call'.after = call.after
  PROVE  Leaving'
<1>1. SUFFICES ASSUME call.after # None
               PROVE  Leaving'
  BY DEF Leaving
<1>2. /\ size > 0 /\ Limit = size - 1 /\ size \in Nat /\ size - 1 \in Places
      /\ i # size - 1 /\ j # size - 1
  BY <1>1 DEF Leaving, Limit, Typed, Places
<1>3. /\ DOMAIN items' = DOMAIN items
      /\ \A k \in DOMAIN items : items'[k].obj = items[k].obj
      /\ queue'[size - 1] = queue[size - 1]
  BY <1>2, SwapKeeps
<1>4. queue[size - 1] \in DOMAIN items
  BY <1>2 DEF Indexed
<1>5. ObjAt(size - 1)' = ObjAt(size - 1)
  BY <1>3, <1>4 DEF ObjAt
<1>6. QED
  BY <1>1, <1>2, <1>3, <1>5 DEF Leaving

\* The loops are done: what was said of the object on its way out still holds.
LEMMA DoneInv ==
  ASSUME HeapInv, ~Idle, call.after \in Afters, Ordered(Objs, Limit),
         call' = Done(call.after), UNCHANGED <<items, queue, size, last>>
  PROVE  HeapInv'
<1>1. Typed /\ Indexed /\ Leaving
  BY DEF HeapInv
<1>2. Objs' = Objs /\ Indexed'
  BY <1>1 DEF Objs, ObjAt, Places, Indexed
<1>3. CASE call.after = None
  <2>1. call' \in Calls /\ call'.pc = "idle" /\ Idle'
    BY <1>3, CallsBuilt DEF Idle
  <2>2. Typed'
    BY <2>1, <1>1 DEF Typed, Places
  <2>3. Limit' = Limit
    BY <2>1, <1>3 DEF Limit
  <2>4. Sifting'
    BY <2>1, <2>3, <1>2 DEF Sifting
  <2>5. Leaving'
    BY <2>1 DEF Leaving
  <2>6. QED
    BY <2>2, <2>4, <2>5, <1>2 DEF HeapInv
<1>4. CASE call.after # None
  <2>1. call' \in Calls /\ call'.pc = "pop" /\ call'.after = call.after /\ ~Idle'
    BY <1>4, CallsBuilt DEF Idle
  <2>2. Typed'
    BY <2>1, <1>1 DEF Typed, Places
  <2>3. Limit' = Limit
    BY <2>1 DEF Limit
  <2>4. Sifting'
    BY <2>1, <2>3, <1>2 DEF Sifting
  <2>5. Leaving'
    BY <2>1, <1>1 DEF Leaving, ObjAt
  <2>6. QED
    BY <2>2, <2>4, <2>5, <1>2 DEF HeapInv
<1>5. QED
  BY <1>3, <1>4

LEMMA LimitFits ==
  ASSUME Typed, Leaving
  PROVE  Limit \in Nat /\ Limit <= size
BY DEF Typed, Leaving, Limit

\* The child down compares with goes in front of no child.
LEMMA LesserChild ==
  ASSUME Typed, Indexed, NEW i \in Nat, NEW n \in Nat, n <= size, 2 * i + 1 < n
  PROVE  /\ Child(i, n) \in 1 .. n - 1 /\ Parent(Child(i, n)) = i
         /\ \A j \in 1 .. n - 1 : Parent(j) = i => ~LessFn(Objs[j], Objs[Child(i, n)])
<1> DEFINE l == 2 * i + 1
<1>1. size \in Nat /\ l \in Nat /\ l \in 1 .. n - 1 /\ l \in Places
  BY DEF Typed, Places
<1>2. l + 1 < n => l + 1 \in 1 .. n - 1 /\ l + 1 \in Places
  BY <1>1 DEF Typed, Places
<1>3. l + 1 < n => (Less(l + 1, l) <=> LessFn(Objs[l + 1], Objs[l]))
  BY <1>1, <1>2, LessIsLessFn
<1>4. Parent(l) = i /\ Parent(l + 1) = i
  BY <1>1 DEF Parent
<1>5. \A j \in 1 .. n - 1 : Parent(j) = i => j = l \/ (j = l + 1 /\ l + 1 < n)
  BY ChildrenOf
<1>6. \A p \in Places : Objs[p] \in Objects
  BY ObjsType
<1>7. Child(i, n) = IF l + 1 < n /\ Less(l + 1, l) THEN l + 1 ELSE l
  BY DEF Child
<1> HIDE DEF l
<1>8. CASE l + 1 < n /\ Less(l + 1, l)
  <2>1. Child(i, n) = l + 1
    BY <1>7, <1>8
  <2>2. ~LessFn(Objs[l], Objs[l + 1]) /\ ~LessFn(Objs[l + 1], Objs[l + 1])
    BY <1>1, <1>2, <1>3, <1>6, <1>8, NotLessBack, NotLessItself
  <2>3. QED
    BY <2>1, <2>2, <1>2, <1>4, <1>5, <1>8
<1>9. CASE ~(l + 1 < n /\ Less(l + 1, l))
  <2>1. Child(i, n) = l
    BY <1>7, <1>9
  <2>2. ~LessFn(Objs[l], Objs[l]) /\ (l + 1 < n => ~LessFn(Objs[l + 1], Objs[l]))
    BY <1>1, <1>3, <1>6, <1>9, NotLessItself
  <2>3. QED
    BY <2>1, <2>2, <1>1, <1>4, <1>5
<1>10. QED
  BY <1>8, <1>9

LEMMA SiftDownInv ==
  ASSUME HeapInv, SiftDown
  PROVE  HeapInv'
<1>1. Typed /\ Indexed /\ Sifting /\ Leaving /\ call.pc = "down" /\ ~Idle
  BY DEF HeapInv, SiftDown, Idle
<1> DEFINE i == call.i
           from == call.from
           after == call.after
           n == Limit
           c == Child(i, n)
<1>2. /\ i \in Nat /\ from \in Nat /\ after \in Afters /\ call.n = n
      /\ call = Down(i, from, n, after)
  BY <1>1, CallForms DEF Sifting
<1>3. /\ i \in Places /\ from <= i /\ OrderedDown(Objs, n, i, from)
      /\ IF after = Pops THEN from = 0 ELSE i < n
  BY <1>1 DEF Sifting
<1>4. n \in Nat /\ n <= size /\ size \in Nat
  BY <1>1, LimitFits DEF Typed
<1>5. Objs \in [0 .. size - 1 -> Objects] /\ i \in 0 .. size - 1
  BY <1>1, <1>3, ObjsType DEF Places
<1>6. size' = size /\ last' = last /\ Places' = Places
  BY DEF SiftDown, Places
<1>7. IF 2 * i + 1 < n /\ Less(c, i)
      THEN Swap(i, c) /\ call' = [call EXCEPT !.i = c]
      ELSE call' = DownDone(i, from, after) /\ UNCHANGED <<items, queue>>
  BY <1>2 DEF SiftDown
<1> HIDE DEF i, from, after, n, c
<1>8. 2 * i + 1 < n => /\ c \in 1 .. n - 1 /\ Parent(c) = i /\ c \in Places
                       /\ Less(c, i) <=> LessFn(Objs[c], Objs[i])
                       /\ \A j \in 1 .. n - 1 : Parent(j) = i => ~LessFn(Objs[j], Objs[c])
  <2>1. SUFFICES ASSUME 2 * i + 1 < n
                 PROVE  /\ c \in 1 .. n - 1 /\ Parent(c) = i /\ c \in Places
                        /\ Less(c, i) <=> LessFn(Objs[c], Objs[i])
                        /\ \A j \in 1 .. n - 1 : Parent(j) = i => ~LessFn(Objs[j], Objs[c])
    OBVIOUS
  <2>2. /\ c \in 1 .. n - 1 /\ Parent(c) = i
        /\ \A j \in 1 .. n - 1 : Parent(j) = i => ~LessFn(Objs[j], Objs[c])
    BY <2>1, <1>1, <1>2, <1>4, LesserChild DEF c
  <2>3. c \in Places
    BY <2>2, <1>4 DEF Places
  <2>4. QED
    BY <2>2, <2>3, <1>1, <1>3, LessIsLessFn
<1>9. CASE 2 * i + 1 < n /\ Less(c, i)
  <2>1. /\ c \in 1 .. n - 1 /\ c \in Nat /\ Parent(c) = i /\ c \in Places
        /\ LessFn(Objs[c], Objs[i]) /\ i < c
        /\ \A j \in 1 .. n - 1 : Parent(j) = i => ~LessFn(Objs[j], Objs[c])
    BY <1>8, <1>9, ParentInFront
  <2>2. Swap(i, c) /\ call' = Down(c, from, n, after)
    BY <1>2, <1>7, <1>9 DEF Down
  <2>3. /\ call' \in Calls /\ call'.pc = "down" /\ call'.after = after
        /\ call'.i = c /\ call'.from = from /\ call'.n = n
    BY <2>1, <2>2, <1>2, <1>4, CallsBuilt
  <2>4. /\ items' \in [DOMAIN items -> [obj : Objects, index : Places]]
        /\ queue' \in [Places -> Keys] /\ Indexed' /\ Objs' = Swapped(Objs, i, c)
    BY <2>1, <2>2, <1>1, <1>3, <1>6, SwapKeeps
  <2>5. Typed'
    BY <2>3, <2>4, <1>1, <1>6 DEF Typed
  <2>6. OrderedDown(Objs', n, c, from) /\ c > from
    BY <2>1, <2>4, <1>2, <1>3, <1>4, <1>5, DownStep
  <2>7. Limit' = n
    BY <2>3, <1>1, <1>6 DEF Limit, Idle, n, after
  <2>8. Sifting'
    BY <2>1, <2>3, <2>6, <2>7, <1>2, <1>3, <1>4, <1>6 DEF Sifting
  <2>9. Leaving'
    BY <2>1, <2>2, <2>3, <1>1, <1>2, <1>3, <1>4, <1>6, LeavingKept DEF n, after
  <2>10. QED
    BY <2>4, <2>5, <2>8, <2>9 DEF HeapInv
<1>10. CASE ~(2 * i + 1 < n /\ Less(c, i))
  <2>1. call' = DownDone(i, from, after) /\ UNCHANGED <<items, queue, size, last>>
    BY <1>6, <1>7, <1>10
  <2>2. ASSUME NEW j \in 1 .. n - 1, Parent(j) = i
        PROVE  ~LessFn(Objs[j], Objs[i])
    <3>1. 2 * i + 1 < n /\ ~Less(c, i)
      BY <2>2, <1>2, <1>4, <1>10, ChildrenOf
    <3>2. /\ c \in 0 .. size - 1 /\ j \in 0 .. size - 1
          /\ ~LessFn(Objs[j], Objs[c]) /\ ~LessFn(Objs[c], Objs[i])
      BY <2>2, <3>1, <1>4, <1>8
    <3>3. QED
      BY <3>2, <1>5, NotLessTransitive
  <2>3. OrderedUp(Objs, n, i) /\ (i > from \/ i = 0 => Ordered(Objs, n))
    BY <2>2, <1>2, <1>3, <1>4, DownEnd
  <2>4. CASE i > from \/ after = Pops
    <3>1. Ordered(Objs, n)
      BY <2>3, <2>4, <1>2, <1>3
    <3>2. QED
      BY <2>1, <2>4, <3>1, <1>1, <1>2, DoneInv DEF DownDone, n, after
  <2>5. CASE ~(i > from \/ after = Pops)
    <3>1. i = from /\ i < n /\ call' = Up(i, after)
      BY <2>1, <2>5, <1>2, <1>3 DEF DownDone
    <3>2. call' \in Calls /\ call'.pc = "up" /\ call'.i = i /\ call'.after = after
      BY <3>1, <1>2, CallsBuilt
    <3>3. Typed' /\ Indexed' /\ Objs' = Objs
      BY <2>1, <3>2, <1>1 DEF Typed, Indexed, Objs, ObjAt, Places
    <3>4. Limit' = n
      BY <3>2, <1>1, <1>6 DEF Limit, Idle, n, after
    <3>5. Sifting'
      BY <2>3, <3>1, <3>2, <3>3, <3>4 DEF Sifting
    <3>6. Leaving'
      BY <2>1, <3>2, <1>1 DEF Leaving, ObjAt, Idle, after
    <3>7. QED
      BY <3>3, <3>5, <3>6 DEF HeapInv
  <2>6. QED
    BY <2>4, <2>5
<1>11. QED
  BY <1>9, <1>10

LEMMA SiftUpInv ==
  ASSUME HeapInv, SiftUp
  PROVE  HeapInv'
<1>1. Typed /\ Indexed /\ Sifting /\ Leaving /\ call.pc = "up" /\ ~Idle
  BY DEF HeapInv, SiftUp, Idle
<1> DEFINE c == call.i
           i == Parent(c)
           after == call.after
           n == Limit
<1>2. c \in Nat /\ after \in Afters /\ call = Up(c, after)
  BY <1>1, CallForms
<1>3. c < n /\ OrderedUp(Objs, n, c)
  BY <1>1 DEF Sifting
<1>4. n \in Nat /\ n <= size /\ size \in Nat
  BY <1>1, LimitFits DEF Typed
<1>5. Objs \in [0 .. size - 1 -> Objects] /\ c \in Places
  BY <1>1, <1>2, <1>3, <1>4, ObjsType DEF Places
<1>6. size' = size /\ last' = last /\ Places' = Places
  BY DEF SiftUp, Places
<1>7. IF i # c /\ Less(c, i)
      THEN Swap(i, c) /\ call' = [call EXCEPT !.i = i]
      ELSE call' = Done(after) /\ UNCHANGED <<items, queue>>
  BY DEF SiftUp
<1>8. /\ c = 0 => i = c
      /\ c > 0 => i \in Nat /\ i < c /\ i \in Places
      /\ Less(c, i) <=> LessFn(Objs[c], Objs[i])
  <2>1. c = 0 => i = c
    BY DEF Parent
  <2>2. c > 0 => i \in Nat /\ i < c /\ i \in Places
    BY <1>2, <1>3, <1>4, ParentInFront DEF Places
  <2>3. i \in Places
    BY <2>1, <2>2, <1>2, <1>5
  <2>4. QED
    BY <2>1, <2>2, <2>3, <1>1, <1>5, LessIsLessFn
<1> HIDE DEF i, after, n, c
<1>9. CASE i # c /\ Less(c, i)
  <2>1. /\ c \in 1 .. n - 1 /\ i \in Nat /\ i < c /\ i < n /\ i \in Places
        /\ LessFn(Objs[c], Objs[i])
    BY <1>2, <1>3, <1>4, <1>8, <1>9
  <2>2. Swap(i, c) /\ call' = Up(i, after)
    BY <1>2, <1>7, <1>9 DEF Up
  <2>3. call' \in Calls /\ call'.pc = "up" /\ call'.after = after /\ call'.i = i
    BY <2>1, <2>2, <1>2, CallsBuilt
  <2>4. /\ items' \in [DOMAIN items -> [obj : Objects, index : Places]]
        /\ queue' \in [Places -> Keys] /\ Indexed' /\ Objs' = Swapped(Objs, i, c)
    BY <2>1, <2>2, <1>1, <1>5, <1>6, SwapKeeps
  <2>5. Typed'
    BY <2>3, <2>4, <1>1, <1>6 DEF Typed
  <2>6. OrderedUp(Objs', n, i)
    BY <2>1, <2>4, <1>3, <1>4, <1>5, UpStep DEF i
  <2>7. Limit' = n
    BY <2>3, <1>1, <1>6 DEF Limit, Idle, n, after
  <2>8. Sifting'
    BY <2>1, <2>3, <2>6, <2>7 DEF Sifting
  <2>9. Leaving'
    BY <2>1, <2>2, <2>3, <1>1, <1>3, <1>5, <1>6, LeavingKept DEF n, after
  <2>10. QED
    BY <2>4, <2>5, <2>8, <2>9 DEF HeapInv
<1>10. CASE ~(i # c /\ Less(c, i))
  <2>1. call' = Done(after) /\ UNCHANGED <<items, queue, size, last>>
    BY <1>6, <1>7, <1>10
  <2>2. c = 0 \/ ~LessFn(Objs[c], Objs[i])
    BY <1>2, <1>8, <1>10
  <2>3. Ordered(Objs, n)
    BY <2>2, <1>2, <1>3, <1>4, UpEnd DEF i
  <2>4. QED
    BY <2>1, <2>3, <1>1, <1>2, DoneInv DEF n, after
<1>11. QED
  BY <1>9, <1>10

LEMMA PopLastInv ==
  ASSUME HeapInv, PopLast
  PROVE  HeapInv'
<1>1. Typed /\ Indexed /\ Sifting /\ Leaving /\ call.pc = "pop" /\ ~Idle
  BY DEF HeapInv, PopLast, Idle
<1>2. call.after \in Afters \ {None}
  BY <1>1, CallForms
<1>3. size > 0 /\ size \in Nat /\ Limit = size - 1 /\ Ordered(Objs, size - 1)
  BY <1>1, <1>2 DEF Leaving, Limit, Sifting, Typed
<1> DEFINE k == queue[size - 1]
<1>4. /\ size' = size - 1 /\ call' = Returned
      /\ items' = [x \in DOMAIN items \ {k} |-> items[x]]
      /\ queue' = [p \in Places \ {size - 1} |-> queue[p]]
      /\ last' = IF call.after = Pops THEN <<"pop", k>> ELSE call.after
  BY <1>1 DEF PopLast, Drop, Typed
<1>5. /\ size' \in Nat /\ Places' = Places \ {size - 1} /\ size - 1 \in Places
      /\ \A p \in 0 .. (size - 1) - 1 : p \in Places'
  BY <1>3, <1>4 DEF Places
<1>6. k \in Keys /\ k \in DOMAIN items
  BY <1>1, <1>5 DEF Typed, Indexed
<1>7. \A p \in Places : queue[p] \in DOMAIN items /\ items[queue[p]].index = p
  BY <1>1 DEF Indexed
<1>8. \A x \in DOMAIN items : items[x].index \in Places /\ queue[items[x].index] = x
  BY <1>1 DEF Indexed, Typed
<1>9. \A x \in DOMAIN items' : items'[x] = items[x] /\ items[x].index \in Places'
  BY <1>4, <1>5, <1>8
<1>10. \A p \in Places' : queue'[p] = queue[p] /\ queue[p] \in DOMAIN items'
  BY <1>4, <1>5, <1>7
<1>11. Indexed'
  <2>1. \A p \in Places' : queue'[p] \in DOMAIN items' /\ items'[queue'[p]].index = p
    BY <1>5, <1>7, <1>9, <1>10
  <2>2. \A x \in DOMAIN items' : queue'[items'[x].index] = x
    BY <1>4, <1>8, <1>9, <1>10
  <2>3. QED
    BY <2>1, <2>2 DEF Indexed
<1>12. call' \in Calls /\ call'.pc = "idle" /\ Idle'
  BY <1>4, CallsBuilt DEF Idle
<1>13. Typed'
  <2>1. items' \in [DOMAIN items' -> [obj : Objects, index : Places']]
    <3>1. \A x \in DOMAIN items' : items'[x] \in [obj : Objects, index : Places']
      BY <1>1, <1>4, <1>9 DEF Typed
    <3>2. QED
      BY <3>1, <1>4
  <2>2. queue' \in [Places' -> Keys]
    BY <1>1, <1>4, <1>5 DEF Typed
  <2>3. last' \in {"add", "delete", "pop"} \X Keys
    BY <1>2, <1>4, <1>6 DEF Afters, None
  <2>4. QED
    BY <2>1, <2>2, <2>3, <1>1, <1>4, <1>5, <1>12 DEF Typed
<1>14. \A p \in Places' : Objs'[p] = Objs[p]
  BY <1>5, <1>9, <1>10 DEF Objs, ObjAt
<1>15. Ordered(Objs', size - 1)
  BY <1>3, <1>5, <1>14, ParentInFront DEF Ordered, NotAfter
<1>16. Sifting'
  BY <1>4, <1>12, <1>15 DEF Sifting, Limit
<1>17. Leaving'
  BY <1>12 DEF Leaving
<1>18. QED
  BY <1>11, <1>13, <1>16, <1>17 DEF HeapInv

LEMMA NextInv ==
  ASSUME HeapInv, [Next]_vars
  PROVE  HeapInv'
<1>1. ASSUME NEW k \in Keys, Delete(k)
      PROVE  HeapInv'
  BY <1>1, DeleteInv
<1>2. ASSUME NEW k \in Keys, NEW v \in Objects, Add(k, v)
      PROVE  HeapInv'
  BY <1>2, AddNewInv, AddKnownInv DEF Add
<1>3. ASSUME NEW k \in Keys, NEW v \in Objects, AddIfNotPresent(k, v)
      PROVE  HeapInv'
  BY <1>3, AddNewInv DEF AddIfNotPresent
<1>4. CASE UNCHANGED vars
  BY <1>4 DEF vars, HeapInv, Typed, Indexed, Sifting, Leaving, Objs, ObjAt, Places, Limit, Idle
<1>5. QED
  BY <1>1, <1>2, <1>3, <1>4, PopInv, SiftDownInv, SiftUpInv, PopLastInv DEF Next, Sift

----------------------------------------------------------------------------
(***************************************************************************)
(* The theorems.                                                           *)
(***************************************************************************)
LEMMA InvImplies ==
  ASSUME HeapInv
  PROVE  TypeOK /\ Indexed /\ RootIsLeast
<1>1. Typed /\ Indexed /\ Sifting /\ Leaving
  BY DEF HeapInv
<1>2. TypeOK
  <2>1. /\ call.pc \in {"idle", "down", "up", "pop"}
        /\ call.pc = "down" => call.i \in Nat /\ call.from \in Nat
        /\ call.pc = "up" => call.i \in Nat
        /\ call.pc = "pop" => call.after # None
    BY <1>1, CallForms
  <2>2. call.pc = "down" => call.i \in Places /\ call.from \in Places /\ call.n \in 0 .. size
    BY <2>1, <1>1, LimitFits DEF Sifting, Places, Typed
  <2>3. call.pc = "up" => call.i \in Places
    BY <2>1, <1>1, LimitFits DEF Sifting, Places, Typed
  <2>4. call.pc = "pop" => size > 0
    BY <2>1, <1>1 DEF Leaving, Idle
  <2>5. QED
    BY <2>1, <2>2, <2>3, <2>4, <1>1 DEF TypeOK, Typed
<1>3. RootIsLeast
  BY <1>1, RootIsLeastOfAll DEF RootIsLeast, Sifting, Limit, Idle
<1>4. QED
  BY <1>1, <1>2, <1>3

LEMMA HeapInvAlways == Spec => []HeapInv
<1>1. Init => HeapInv
  BY InitInv
<1>2. HeapInv /\ [Next]_vars => HeapInv'
  BY NextInv
<1>3. QED
  BY <1>1, <1>2, PTL DEF Spec

\* The loops stay within the array and the map, for every size of the heap and
\* however the calls follow one another (heap.go; container/heap).
THEOREM HeapTypeCorrect == Spec => []TypeOK
BY HeapInvAlways, InvImplies, PTL

\* Array and map agree after every iteration of every call: no Swap, Push or Pop
\* of data leaves an item with a wrong index or a key without an item.
THEOREM MapAgreesWithArray == Spec => []Indexed
BY HeapInvAlways, InvImplies, PTL

\* Between two calls the root is least, for every weak order of the objects:
\* Peek returns what Pop would, after replacing and deleting in the middle too.
THEOREM PeekIsLeast == Spec => []RootIsLeast
BY HeapInvAlways, InvImplies, PTL

----------------------------------------------------------------------------
(***************************************************************************)
(* The heap implements the map from which a least object can be taken.     *)
(***************************************************************************)
Map == [k \in DOMAIN items |-> items[k].obj]

LEMMA AddMaps ==
  ASSUME Typed, NEW k \in Keys, NEW v \in Objects,
         Add(k, v) \/ AddIfNotPresent(k, v)
  PROVE  Least!Add(k, v)
<1>1. last' = <<"add", k>>
  BY DEF Add, AddIfNotPresent, AddNew
<1>2. /\ DOMAIN items' = DOMAIN items \cup {k}
      /\ items'[k].obj = v
      /\ \A x \in DOMAIN items : x # k => items'[x] = items[x]
  <2>1. CASE items' = Put(items, k, [obj |-> v, index |-> size])
    BY <2>1 DEF Put
  <2>2. CASE k \in DOMAIN items /\ items' = [items EXCEPT ![k].obj = v]
    BY <2>2 DEF Typed
  <2>3. QED
    BY <2>1, <2>2 DEF Add, AddIfNotPresent, AddNew, Push
<1>3. Map' = Put(Map, k, v)
  BY <1>2 DEF Map, Put
<1>4. QED
  BY <1>1, <1>3 DEF Least!Add, Least!Put, Put, Map

\* A swap moves keys, not objects.
LEMMA SwapMaps ==
  ASSUME Typed, Indexed, NEW i \in Places, NEW j \in Places, Swap(i, j), UNCHANGED size
  PROVE  Map' = Map
BY SwapKeeps DEF Map

LEMMA PopLastMaps ==
  ASSUME HeapInv, PopLast
  PROVE  \E k \in Keys : Least!Delete(k) \/ Least!Pop(k)
<1>1. Typed /\ Indexed /\ Leaving /\ call.pc = "pop" /\ ~Idle
  BY DEF HeapInv, PopLast, Idle
<1>2. call.after \in Afters \ {None}
  BY <1>1, CallForms
<1>3. size \in Nat /\ size > 0 /\ size - 1 \in Places
  BY <1>1, <1>2 DEF Leaving, Typed, Places
<1>4. PICK k \in Keys : k = queue[size - 1] /\ k \in DOMAIN items
  BY <1>1, <1>3 DEF Typed, Indexed
<1>5. Map' = Drop(Map, k) /\ DOMAIN Map = DOMAIN items
  BY <1>4 DEF PopLast, Map, Drop
<1>6. last' = IF call.after = Pops THEN <<"pop", k>> ELSE call.after
  BY <1>4 DEF PopLast
<1>7. CASE call.after = Pops
  <2>1. \A x \in DOMAIN Map : ~LessFn(Map[x], Map[k])
    BY <1>1, <1>2, <1>4, <1>7 DEF Leaving, Map, ObjAt
  <2>2. Least!Pop(k)
    BY <2>1, <1>4, <1>5, <1>6, <1>7
       DEF Least!Pop, Least!IsLeast, Least!Drop, Drop, Map
  <2>3. QED
    BY <2>2
<1>8. CASE call.after # Pops
  <2>1. last' = <<"delete", k>>
    BY <1>1, <1>2, <1>4, <1>6, <1>8 DEF Leaving
  <2>2. Least!Delete(k)
    BY <2>1, <1>4, <1>5 DEF Least!Delete, Least!Drop, Drop, Map
  <2>3. QED
    BY <2>2
<1>9. QED
  BY <1>7, <1>8

LEMMA SiftMaps ==
  ASSUME HeapInv, SiftDown \/ SiftUp
  PROVE  Map' = Map /\ last' = last
<1>1. Typed /\ Indexed /\ Sifting /\ Leaving
  BY DEF HeapInv
<1>2. last' = last /\ size' = size
  BY DEF SiftDown, SiftUp
<1>3. Limit \in Nat /\ Limit <= size /\ size \in Nat
  BY <1>1, LimitFits DEF Typed
<1>4. CASE items' = items
  BY <1>2, <1>4 DEF Map
<1>5. CASE SiftDown /\ items' # items
  <2>1. /\ call.pc = "down" /\ call.i \in Nat /\ call.i \in Places /\ call.n = Limit
        /\ 2 * call.i + 1 < call.n /\ Swap(call.i, Child(call.i, call.n))
    BY <1>1, <1>5, CallForms DEF SiftDown, Sifting
  <2>2. Child(call.i, call.n) \in 1 .. call.n - 1
    BY <2>1, <1>1, <1>3, LesserChild
  <2>3. Child(call.i, call.n) \in Places
    BY <2>1, <2>2, <1>3 DEF Places
  <2>4. QED
    BY <2>1, <2>3, <1>1, <1>2, SwapMaps
<1>6. CASE SiftUp /\ items' # items
  <2>1. /\ call.pc = "up" /\ call.i \in Nat /\ call.i < Limit
        /\ Parent(call.i) # call.i /\ Swap(Parent(call.i), call.i)
    BY <1>1, <1>6, CallForms DEF SiftUp, Sifting
  <2>2. call.i # 0
    BY <2>1 DEF Parent
  <2>3. call.i \in Places /\ Parent(call.i) \in Places
    BY <2>1, <2>2, <1>3, ParentInFront DEF Places
  <2>4. QED
    BY <2>1, <2>3, <1>1, <1>2, SwapMaps
<1>7. QED
  BY <1>4, <1>5, <1>6

\* Delete and Pop change nothing of the map before their last step.
LEMMA StartMaps ==
  ASSUME HeapInv, Pop \/ \E k \in Keys : Delete(k)
  PROVE  Map' = Map /\ last' = last
<1>1. Typed /\ Indexed
  BY DEF HeapInv
<1>2. last' = last /\ size' = size /\ size \in Nat
  BY <1>1 DEF Pop, Delete, Typed
<1>3. CASE items' = items
  BY <1>2, <1>3 DEF Map
<1>4. CASE Pop
  <2>1. 0 \in Places /\ size - 1 \in Places /\ Swap(0, size - 1)
    BY <1>2, <1>4 DEF Pop, Places
  <2>2. QED
    BY <2>1, <1>1, <1>2, SwapMaps
<1>5. ASSUME NEW k \in Keys, Delete(k), items' # items
      PROVE  Map' = Map
  <2>1. items[k].index \in Places /\ Swap(items[k].index, size - 1)
    BY <1>1, <1>5 DEF Delete, Typed
  <2>2. size - 1 \in Places
    BY <2>1, <1>2 DEF Places
  <2>3. QED
    BY <2>1, <2>2, <1>1, <1>2, SwapMaps
<1>6. QED
  BY <1>2, <1>3, <1>4, <1>5

LEMMA InitMaps == Init => Least!Init
<1>1. SUFFICES ASSUME Init
               PROVE  Least!Init
  OBVIOUS
<1>2. DOMAIN items = {} /\ last = <<"none", NoKey>>
  BY <1>1 DEF Init, EmptyMap, None
<1>3. QED
  BY <1>2 DEF Least!Init, Least!EmptyMap

LEMMA NextMaps ==
  ASSUME HeapInv, [Next]_vars
  PROVE  Least!Next \/ UNCHANGED <<Map, last>>
<1>1. Typed
  BY DEF HeapInv
<1>2. ASSUME NEW k \in Keys, NEW v \in Objects, Add(k, v) \/ AddIfNotPresent(k, v)
      PROVE  Least!Next
  BY <1>1, <1>2, AddMaps DEF Least!Next
<1>3. CASE PopLast
  BY <1>3, PopLastMaps DEF Least!Next
<1>4. CASE SiftDown \/ SiftUp
  BY <1>4, SiftMaps
<1>5. CASE Pop \/ \E k \in Keys : Delete(k)
  BY <1>5, StartMaps
<1>6. CASE UNCHANGED vars
  BY <1>6 DEF vars, Map
<1>7. QED
  BY <1>2, <1>3, <1>4, <1>5, <1>6 DEF Next, Sift

\* Add, Delete and Pop of a heap take effect once, in one step, and Pop takes a
\* least object: the heap is the map the queues take it for (heap.go).
THEOREM HeapIsLeastMap == Spec => ImplementsLeastMap
<1>1. Init => Least!Init
  BY InitMaps
<1>2. HeapInv /\ [Next]_vars => [Least!Next]_<<Map, last>>
  BY NextMaps
<1>3. QED
  BY <1>1, <1>2, HeapInvAlways, PTL DEF Spec, ImplementsLeastMap, Least!Spec, Map
============================================================================
