-------------------------- MODULE NearClockProofs --------------------------
(***************************************************************************)
(* The heap of the near queue, for every set of keys and every length:     *)
(* what up and down compute, that the order survives a call through a      *)
(* stale position, and that a drain takes the due entries and no others.   *)
(***************************************************************************)
EXTENDS NearClock, Recursion

Parent(j) == (j - 1) \div 2

\* The deadline at position j.
At(h, j) == h[j + 1].expireAt

\* The parent of a position, as container/heap computes it.
LEMMA ParentOf ==
  ASSUME NEW j \in Nat \ {0}
  PROVE  /\ Parent(j) \in Nat /\ Parent(j) < j
         /\ \A i \in Nat : Parent(j) = i <=> j = 2 * i + 1 \/ j = 2 * i + 2
  BY DEF Parent

\* Every position of a heap holds an entry.
LEMMA EntryAt ==
  ASSUME NEW h \in Seq(NearEntry), NEW j \in Nat, j < Len(h)
  PROVE  h[j + 1] \in NearEntry /\ At(h, j) \in Int /\ j + 1 \in DOMAIN h
<1>1. j + 1 \in 1..Len(h)
  OBVIOUS
<1>2. h[j + 1] \in NearEntry /\ j + 1 \in DOMAIN h
  BY <1>1
<1> QED  BY <1>2 DEF At, NearEntry

\* nearHeap.Swap exchanges two positions and leaves the others alone.
LEMMA SwapAt ==
  ASSUME NEW h \in Seq(NearEntry), NEW i \in Nat, NEW j \in Nat, i < Len(h), j < Len(h)
  PROVE  /\ Swap(h, i, j) \in Seq(NearEntry)
         /\ Len(Swap(h, i, j)) = Len(h)
         /\ At(Swap(h, i, j), i) = At(h, j)
         /\ At(Swap(h, i, j), j) = At(h, i)
         /\ \A k \in Nat : k < Len(h) /\ k # i /\ k # j => Swap(h, i, j)[k + 1] = h[k + 1]
         /\ \A k \in Nat : k < Len(h) /\ k # i /\ k # j => At(Swap(h, i, j), k) = At(h, k)
         /\ Swap(h, i, j)[i + 1] = h[j + 1]
         /\ Swap(h, i, j)[j + 1] = h[i + 1]
<1>1. h[i + 1] \in NearEntry /\ h[j + 1] \in NearEntry /\ i + 1 \in DOMAIN h /\ j + 1 \in DOMAIN h
  BY EntryAt
<1>2. Swap(h, i, j) \in Seq(NearEntry) /\ Len(Swap(h, i, j)) = Len(h) /\ DOMAIN Swap(h, i, j) = DOMAIN h
  BY <1>1 DEF Swap
<1>3. Swap(h, i, j)[i + 1] = h[j + 1] /\ Swap(h, i, j)[j + 1] = h[i + 1]
  BY <1>1 DEF Swap
<1>4. ASSUME NEW k \in Nat, k < Len(h), k # i, k # j PROVE Swap(h, i, j)[k + 1] = h[k + 1]
  <2>1. k + 1 \in DOMAIN h
    BY <1>4, EntryAt
  <2> QED  BY <1>4, <2>1 DEF Swap
<1> QED  BY <1>2, <1>3, <1>4 DEF At

-----------------------------------------------------------------------------
(***************************************************************************)
(* up and down as loops.                                                   *)
(***************************************************************************)
UpStops == {u \in Rising : u.pos = 0 \/ ~Less(u.heap, u.pos, (u.pos - 1) \div 2)}
UpStep == [u \in Rising |-> [heap |-> Swap(u.heap, (u.pos - 1) \div 2, u.pos), pos |-> (u.pos - 1) \div 2]]

LEMMA UpEnds == Ends(Rising, UpStops, UpStep, [u \in Rising |-> u.pos])
<1> DEFINE m == [u \in Rising |-> u.pos]
<1>1. m \in [Rising -> Nat]
  BY DEF Rising
<1>2. ASSUME NEW u \in Rising \ UpStops PROVE UpStep[u] \in Rising /\ m[UpStep[u]] < m[u]
  <2>1. u.heap \in Seq(NearEntry) /\ u.pos \in Nat \ {0} /\ u.pos < Len(u.heap)
    BY DEF Rising, UpStops
  <2> DEFINE i == (u.pos - 1) \div 2
  <2>2. i \in Nat /\ i < u.pos /\ i < Len(u.heap)
    BY <2>1
  <2>3. UpStep[u] = [heap |-> Swap(u.heap, i, u.pos), pos |-> i]
    BY DEF UpStep
  <2> HIDE DEF i
  <2>4. Swap(u.heap, i, u.pos) \in Seq(NearEntry) /\ Len(Swap(u.heap, i, u.pos)) = Len(u.heap)
    BY <2>1, <2>2, SwapAt
  <2> QED  BY <2>2, <2>3, <2>4 DEF Rising
<1> QED  BY <1>1, <1>2 DEF Ends

LEMMA UpIs ==
  ASSUME NEW u \in Rising
  PROVE  Up[u] = IF u \in UpStops THEN u ELSE Up[UpStep[u]]
<1> DEFINE out == [x \in Rising |-> x]
<1>1. PICK f : f = [x \in Rising |-> IF x \in UpStops THEN out[x] ELSE f[UpStep[x]]]
  <2> HIDE DEF out
  <2> QED  BY UpEnds, TailRecursion
<1>2. f = [x \in Rising |-> LET i == (x.pos - 1) \div 2
                            IN IF x.pos = 0 \/ ~Less(x.heap, x.pos, i)
                               THEN x
                               ELSE f[[heap |-> Swap(x.heap, i, x.pos), pos |-> i]]]
  <2>1. ASSUME NEW x \in Rising
        PROVE  (IF x \in UpStops THEN out[x] ELSE f[UpStep[x]])
               = (LET i == (x.pos - 1) \div 2
                  IN IF x.pos = 0 \/ ~Less(x.heap, x.pos, i)
                     THEN x
                     ELSE f[[heap |-> Swap(x.heap, i, x.pos), pos |-> i]])
    BY DEF UpStops, UpStep
  <2> QED  BY <1>1, <2>1, Zenon
<1>3. Up = [x \in Rising |-> LET i == (x.pos - 1) \div 2
                             IN IF x.pos = 0 \/ ~Less(x.heap, x.pos, i)
                                THEN x
                                ELSE Up[[heap |-> Swap(x.heap, i, x.pos), pos |-> i]]]
  BY <1>2 DEF Up
<1> QED  BY <1>3 DEF UpStops, UpStep

-----------------------------------------------------------------------------
(***************************************************************************)
(* Order.  The first n positions are ordered; or ordered but for the one   *)
(* that rises (sinks), whose children are no earlier than its parent.      *)
(***************************************************************************)
OrderedTo(h, n) == \A j \in 1..(n - 1) : At(h, Parent(j)) <= At(h, j)

ChildrenAbove(h, p, n) ==
  \A j \in 1..(n - 1) : Parent(j) = p /\ p # 0 => At(h, Parent(p)) <= At(h, j)
OrderedButRising(h, p, n) ==
  /\ \A j \in 1..(n - 1) : j # p => At(h, Parent(j)) <= At(h, j)
  /\ ChildrenAbove(h, p, n)
OrderedButSinking(h, p, n) ==
  /\ \A j \in 1..(n - 1) : Parent(j) # p => At(h, Parent(j)) <= At(h, j)
  /\ ChildrenAbove(h, p, n)

\* One turn of up.
LEMMA UpTurn ==
  ASSUME NEW h \in Seq(NearEntry), NEW n \in Nat, n <= Len(h), NEW p \in Nat \ {0}, p < n,
         OrderedButRising(h, p, n), At(h, p) < At(h, Parent(p))
  PROVE  OrderedButRising(Swap(h, Parent(p), p), Parent(p), n)
<1> DEFINE q == Parent(p)
           g == Swap(h, q, p)
<1>1. q \in Nat /\ q < p /\ q < n /\ q < Len(h) /\ p < Len(h)
  BY ParentOf
<1>2. /\ At(g, q) = At(h, p) /\ At(g, p) = At(h, q)
      /\ \A k \in Nat : k < Len(h) /\ k # q /\ k # p => At(g, k) = At(h, k)
  BY <1>1, SwapAt
<1>3. \A k \in Nat : k < Len(h) => At(h, k) \in Int
  BY EntryAt
<1>4. At(h, p) < At(h, q)
  OBVIOUS
<1> HIDE DEF q, g
<1>5. ASSUME NEW j \in 1..(n - 1), j # q PROVE At(g, Parent(j)) <= At(g, j)
  <2>1. j \in Nat /\ j < Len(h) /\ Parent(j) \in Nat /\ Parent(j) < j
    BY ParentOf
  <2>2. j # p => At(h, Parent(j)) <= At(h, j)
    BY DEF OrderedButRising
  <2>3. Parent(j) = p => At(h, q) <= At(h, j)
    BY <1>1 DEF OrderedButRising, ChildrenAbove, q
  <2>4. Parent(p) = q
    BY DEF q
  <2> QED  BY <1>1, <1>2, <1>3, <1>4, <1>5, <2>1, <2>2, <2>3, <2>4
<1>6. ASSUME NEW j \in 1..(n - 1), Parent(j) = q, q # 0 PROVE At(g, Parent(q)) <= At(g, j)
  <2>1. Parent(q) \in Nat /\ Parent(q) < q /\ q \in 1..(n - 1) /\ q # p
    BY <1>1, <1>6, ParentOf
  <2>2. At(h, Parent(q)) <= At(h, q)
    BY <2>1 DEF OrderedButRising
  <2>3. j # p => At(h, q) <= At(h, j)
    BY <1>6 DEF OrderedButRising
  <2>4. j \in Nat /\ j < Len(h) /\ j # q
    BY <1>6, ParentOf
  <2> QED  BY <1>1, <1>2, <1>3, <2>1, <2>2, <2>3, <2>4
<1>7. OrderedButRising(g, q, n)
  BY <1>5, <1>6 DEF OrderedButRising, ChildrenAbove
<1> QED  BY <1>7 DEF g, q

\* What up returns: a heap of the same length, in order if only the risen entry was out of it.
LEMMA UpOrders ==
  ASSUME NEW h \in Seq(NearEntry), NEW p \in Nat, p < Len(h)
  PROVE  /\ Risen(h, p).heap \in Seq(NearEntry) /\ Len(Risen(h, p).heap) = Len(h)
         /\ Risen(h, p).pos \in Nat /\ Risen(h, p).pos <= p
         /\ \A n \in Nat : n <= Len(h) /\ p < n /\ OrderedButRising(h, p, n)
              => OrderedTo(Risen(h, p).heap, n)
<1> DEFINE Good(u) ==
      /\ Up[u].heap \in Seq(NearEntry) /\ Len(Up[u].heap) = Len(u.heap)
      /\ Up[u].pos \in Nat /\ Up[u].pos <= u.pos
      /\ \A n \in Nat : n <= Len(u.heap) /\ u.pos < n /\ OrderedButRising(u.heap, u.pos, n)
           => OrderedTo(Up[u].heap, n)
    T == {u \in Rising : Good(u)}
<1>1. ASSUME NEW u \in Rising
      PROVE u.heap \in Seq(NearEntry) /\ u.pos \in Nat /\ u.pos < Len(u.heap)
  BY DEF Rising
<1>2. ASSUME NEW u \in Rising \cap UpStops PROVE u \in T
  <2>1. Up[u] = u
    BY UpIs
  <2>2. ASSUME NEW n \in Nat, n <= Len(u.heap), u.pos < n, OrderedButRising(u.heap, u.pos, n)
        PROVE  OrderedTo(u.heap, n)
    <3>1. u.pos # 0 => At(u.heap, Parent(u.pos)) <= At(u.heap, u.pos)
      <4> HAVE u.pos # 0
      <4>1. ~Less(u.heap, u.pos, Parent(u.pos))
        BY DEF UpStops, Parent
      <4>2. Parent(u.pos) \in Nat /\ Parent(u.pos) < u.pos
        BY <1>1, ParentOf
      <4>3. At(u.heap, Parent(u.pos)) \in Int /\ At(u.heap, u.pos) \in Int
        BY <1>1, <4>2, EntryAt
      <4> QED  BY <4>1, <4>3 DEF Less, At
    <3> QED  BY <2>2, <3>1 DEF OrderedTo, OrderedButRising
  <2> QED  BY <1>1, <2>1, <2>2
<1>3. ASSUME NEW u \in Rising \ UpStops, UpStep[u] \in T PROVE u \in T
  <2> DEFINE v == UpStep[u]
             q == Parent(u.pos)
  <2>1. Up[u] = Up[v]
    BY UpIs
  <2>2. u.pos # 0 /\ Less(u.heap, u.pos, q)
    BY DEF UpStops, Parent
  <2>3. q \in Nat /\ q < u.pos
    BY <1>1, <2>2, ParentOf
  <2>4. v.heap = Swap(u.heap, q, u.pos) /\ v.pos = q
    BY DEF UpStep, Parent
  <2>5. Len(v.heap) = Len(u.heap)
    BY <1>1, <2>3, <2>4, SwapAt
  <2>6. ASSUME NEW n \in Nat, n <= Len(u.heap), u.pos < n, OrderedButRising(u.heap, u.pos, n)
        PROVE  OrderedTo(Up[u].heap, n)
    <3>1. At(u.heap, u.pos) < At(u.heap, q)
      BY <2>2 DEF Less, At
    <3>2. OrderedButRising(v.heap, v.pos, n)
      BY <1>1, <2>2, <2>4, <2>6, <3>1, UpTurn
    <3>3. v.pos < n
      BY <1>1, <2>3, <2>4, <2>6
    <3> QED  BY <1>3, <2>1, <2>5, <2>6, <3>2, <3>3
  <2>7. Good(v)
    BY <1>3
  <2> HIDE DEF v, q
  <2> QED  BY <1>1, <2>1, <2>3, <2>4, <2>5, <2>6, <2>7
<1> HIDE DEF T
<1>4. Rising \subseteq T
  BY <1>2, <1>3, UpEnds, LoopInduction
<1>5. [heap |-> h, pos |-> p] \in Rising
  BY DEF Rising
<1>6. Good([heap |-> h, pos |-> p])
  BY <1>4, <1>5 DEF T
<1> QED  BY <1>6 DEF Risen

-----------------------------------------------------------------------------
\* The child that down compares with: none, or the earlier one.
LEMMA MinChildIs ==
  ASSUME NEW h \in Seq(NearEntry), NEW i \in Nat, NEW n \in Nat, n <= Len(h)
  PROVE  /\ MinChild(h, i, n) \in Nat
         /\ MinChild(h, i, n) = i => \A j \in 1..(n - 1) : Parent(j) # i
         /\ MinChild(h, i, n) # i =>
              /\ i < MinChild(h, i, n) /\ MinChild(h, i, n) < n
              /\ Parent(MinChild(h, i, n)) = i
              /\ \A j \in 1..(n - 1) : Parent(j) = i => At(h, MinChild(h, i, n)) <= At(h, j)
<1> DEFINE l == 2 * i + 1
           c == MinChild(h, i, n)
<1>1. \A j \in 1..(n - 1) : Parent(j) = i <=> j = l \/ j = l + 1
  BY ParentOf
<1>2. CASE l >= n
  BY <1>1, <1>2 DEF MinChild
<1>3. CASE l < n
  <2>1. At(h, l) \in Int /\ (l + 1 < n => At(h, l + 1) \in Int)
    BY <1>3, EntryAt
  <2>2. Parent(l) = i /\ Parent(l + 1) = i
    BY DEF Parent
  <2>3. CASE l + 1 < n /\ Less(h, l + 1, l)
    <3>1. c = l + 1
      BY <1>3, <2>3 DEF MinChild
    <3>2. At(h, l + 1) <= At(h, l)
      BY <2>1, <2>3 DEF Less, At
    <3> QED  BY <1>1, <1>3, <2>1, <2>2, <2>3, <3>1, <3>2
  <2>4. CASE ~(l + 1 < n /\ Less(h, l + 1, l))
    <3>1. c = l
      BY <1>3, <2>4 DEF MinChild
    <3>2. l + 1 < n => At(h, l) <= At(h, l + 1)
      BY <2>1, <2>4 DEF Less, At
    <3> QED  BY <1>1, <1>3, <2>1, <2>2, <3>1, <3>2
  <2> QED  BY <2>3, <2>4
<1> QED  BY <1>2, <1>3

DownStops ==
  {d \in Sinking : LET j == MinChild(d.heap, d.pos, d.n) IN j = d.pos \/ ~Less(d.heap, j, d.pos)}
DownStep ==
  [d \in Sinking |->
     [heap |-> Swap(d.heap, d.pos, MinChild(d.heap, d.pos, d.n)),
      pos |-> MinChild(d.heap, d.pos, d.n), n |-> d.n]]
DownMeasure == [d \in Sinking |-> IF d.pos >= d.n THEN 0 ELSE d.n - d.pos]

LEMMA DownEnds == Ends(Sinking, DownStops, DownStep, DownMeasure)
<1>1. DownMeasure \in [Sinking -> Nat]
  BY DEF DownMeasure, Sinking
<1>2. ASSUME NEW d \in Sinking \ DownStops
      PROVE  DownStep[d] \in Sinking /\ DownMeasure[DownStep[d]] < DownMeasure[d]
  <2>1. d.heap \in Seq(NearEntry) /\ d.pos \in Nat /\ d.n \in Nat /\ d.n <= Len(d.heap)
    BY DEF Sinking
  <2> DEFINE c == MinChild(d.heap, d.pos, d.n)
  <2>2. c # d.pos
    BY DEF DownStops
  <2>3. c \in Nat /\ d.pos < c /\ c < d.n
    BY <2>1, <2>2, MinChildIs
  <2>4. DownStep[d] = [heap |-> Swap(d.heap, d.pos, c), pos |-> c, n |-> d.n]
    BY DEF DownStep
  <2> HIDE DEF c
  <2>5. Swap(d.heap, d.pos, c) \in Seq(NearEntry) /\ Len(Swap(d.heap, d.pos, c)) = Len(d.heap)
    BY <2>1, <2>3, SwapAt
  <2>6. DownStep[d] \in Sinking
    BY <2>1, <2>3, <2>4, <2>5 DEF Sinking
  <2> QED  BY <2>1, <2>3, <2>4, <2>6 DEF DownMeasure
<1> QED  BY <1>1, <1>2 DEF Ends

LEMMA DownIs ==
  ASSUME NEW d \in Sinking
  PROVE  Down[d] = IF d \in DownStops THEN d ELSE Down[DownStep[d]]
<1> DEFINE out == [x \in Sinking |-> x]
<1>1. PICK f : f = [x \in Sinking |-> IF x \in DownStops THEN out[x] ELSE f[DownStep[x]]]
  <2> HIDE DEF out
  <2> QED  BY DownEnds, TailRecursion
<1>2. f = [x \in Sinking |-> LET j == MinChild(x.heap, x.pos, x.n)
                             IN IF j = x.pos \/ ~Less(x.heap, j, x.pos)
                                THEN x
                                ELSE f[[heap |-> Swap(x.heap, x.pos, j), pos |-> j, n |-> x.n]]]
  <2>1. ASSUME NEW x \in Sinking
        PROVE  (IF x \in DownStops THEN out[x] ELSE f[DownStep[x]])
               = (LET j == MinChild(x.heap, x.pos, x.n)
                  IN IF j = x.pos \/ ~Less(x.heap, j, x.pos)
                     THEN x
                     ELSE f[[heap |-> Swap(x.heap, x.pos, j), pos |-> j, n |-> x.n]])
    BY DEF DownStops, DownStep
  <2> QED  BY <1>1, <2>1, ZenonT(30)
<1>3. Down = [x \in Sinking |-> LET j == MinChild(x.heap, x.pos, x.n)
                                IN IF j = x.pos \/ ~Less(x.heap, j, x.pos)
                                   THEN x
                                   ELSE Down[[heap |-> Swap(x.heap, x.pos, j), pos |-> j, n |-> x.n]]]
  BY <1>2 DEF Down
<1> QED  BY <1>3 DEF DownStops, DownStep

\* Ordered but for the entry at p, which may be out of order on either side.
OrderedBut(h, p, n) ==
  /\ \A j \in 1..(n - 1) : j # p /\ Parent(j) # p => At(h, Parent(j)) <= At(h, j)
  /\ ChildrenAbove(h, p, n)

\* One turn of down.
LEMMA DownTurn ==
  ASSUME NEW h \in Seq(NearEntry), NEW n \in Nat, n <= Len(h), NEW p \in Nat,
         OrderedBut(h, p, n), NEW c, c = MinChild(h, p, n), c # p, At(h, c) < At(h, p)
  PROVE  OrderedButSinking(Swap(h, p, c), c, n)
<1> DEFINE g == Swap(h, p, c)
<1>1. c \in Nat /\ p < c /\ c < n /\ c < Len(h) /\ p < Len(h) /\ Parent(c) = p /\ c \in 1..(n - 1)
  BY MinChildIs, SMTT(30)
<1>2. /\ At(g, p) = At(h, c) /\ At(g, c) = At(h, p)
      /\ \A k \in Nat : k < Len(h) /\ k # p /\ k # c => At(g, k) = At(h, k)
  BY <1>1, SwapAt
<1>3. \A k \in Nat : k < Len(h) => At(h, k) \in Int
  BY EntryAt
<1>4. \A j \in 1..(n - 1) : Parent(j) = p => At(h, c) <= At(h, j)
  BY MinChildIs
<1> HIDE DEF g
<1>5. ASSUME NEW j \in 1..(n - 1), Parent(j) # c PROVE At(g, Parent(j)) <= At(g, j)
  <2>1. j \in Nat /\ j < Len(h) /\ Parent(j) \in Nat /\ Parent(j) < j
    BY ParentOf
  <2>2. j # p /\ Parent(j) # p => At(h, Parent(j)) <= At(h, j)
    BY DEF OrderedBut
  <2>3. j = p => At(h, Parent(p)) <= At(h, c)
    BY <1>1 DEF OrderedBut, ChildrenAbove
  <2> QED  BY <1>1, <1>2, <1>3, <1>4, <1>5, <2>1, <2>2, <2>3
<1>6. ASSUME NEW j \in 1..(n - 1), Parent(j) = c PROVE At(g, Parent(c)) <= At(g, j)
  <2>1. j \in Nat /\ j < Len(h) /\ c < j
    BY <1>6, ParentOf
  <2>2. At(h, c) <= At(h, j)
    BY <1>1, <1>6, <2>1 DEF OrderedBut
  <2> QED  BY <1>1, <1>2, <2>1, <2>2
<1>7. OrderedButSinking(g, c, n)
  BY <1>5, <1>6 DEF OrderedButSinking, ChildrenAbove
<1> QED  BY <1>7 DEF g

-----------------------------------------------------------------------------
(***************************************************************************)
(* How often an entry is in a heap.                                        *)
(***************************************************************************)
Places(h, e) == {i \in DOMAIN h : h[i] = e}

LEMMA PlacesFinite ==
  ASSUME NEW h \in Seq(NearEntry), NEW e
  PROVE  IsFiniteSet(Places(h, e)) /\ Copies(h, e) = Cardinality(Places(h, e)) /\ Copies(h, e) \in Nat
<1>1. IsFiniteSet(1..Len(h))
  BY FS_Interval
<1>2. Places(h, e) \subseteq 1..Len(h)
  BY DEF Places
<1>3. IsFiniteSet(Places(h, e))
  BY <1>1, <1>2, FS_Subset
<1>4. Cardinality(Places(h, e)) \in Nat
  BY <1>3, FS_CardinalityType
<1> QED  BY <1>3, <1>4 DEF Places, Copies

\* A swap keeps every copy.
LEMMA SwapCopies ==
  ASSUME NEW h \in Seq(NearEntry), NEW i \in Nat, NEW j \in Nat, i < Len(h), j < Len(h), NEW e
  PROVE  Copies(Swap(h, i, j), e) = Copies(h, e)
<1> DEFINE g == Swap(h, i, j)
           a == i + 1
           b == j + 1
           A == Places(h, e)
           B == Places(g, e)
<1>1. /\ a \in DOMAIN h /\ b \in DOMAIN h /\ DOMAIN g = DOMAIN h /\ g \in Seq(NearEntry)
      /\ g[a] = h[b] /\ g[b] = h[a]
      /\ \A k \in DOMAIN h : k # a /\ k # b => g[k] = h[k]
  <2>1. a \in DOMAIN h /\ b \in DOMAIN h
    BY EntryAt
  <2> QED  BY <2>1, SwapAt DEF Swap
<1>2. IsFiniteSet(A) /\ Copies(h, e) = Cardinality(A) /\ Cardinality(A) \in Nat
  BY PlacesFinite
<1>3. Copies(g, e) = Cardinality(B)
  BY <1>1, PlacesFinite
<1> HIDE DEF g, a, b, A, B
<1>4. CASE (h[a] = e) <=> (h[b] = e)
  <2>1. A = B
    BY <1>1, <1>4 DEF A, B, Places
  <2> QED  BY <1>2, <1>3, <2>1 DEF g
<1>5. ASSUME NEW x, NEW y, x \in A, y \notin A, B = (A \ {x}) \cup {y}
      PROVE  Cardinality(B) = Cardinality(A)
  <2>1. IsFiniteSet(A \ {x}) /\ Cardinality(A \ {x}) = Cardinality(A) - 1
    BY <1>2, <1>5, FS_RemoveElement
  <2>2. y \notin A \ {x}
    BY <1>5
  <2>3. Cardinality((A \ {x}) \cup {y}) = Cardinality(A) - 1 + 1
    BY <2>1, <2>2, FS_AddElement
  <2> QED  BY <1>2, <1>5, <2>3
<1>6. CASE h[a] = e /\ h[b] # e
  <2>1. a \in A /\ b \notin A /\ B = (A \ {a}) \cup {b}
    BY <1>1, <1>6 DEF A, B, Places
  <2> QED  BY <1>2, <1>3, <1>5, <2>1 DEF g
<1>7. CASE h[a] # e /\ h[b] = e
  <2>1. b \in A /\ a \notin A /\ B = (A \ {b}) \cup {a}
    BY <1>1, <1>7 DEF A, B, Places
  <2> QED  BY <1>2, <1>3, <1>5, <2>1 DEF g
<1> QED  BY <1>4, <1>6, <1>7

\* Down ends where no child is earlier.
LEMMA DownStopped ==
  ASSUME NEW h \in Seq(NearEntry), NEW n \in Nat, n <= Len(h), NEW p \in Nat,
         NEW c, c = MinChild(h, p, n), c = p \/ ~Less(h, c, p),
         NEW j \in 1..(n - 1), Parent(j) = p
  PROVE  At(h, p) <= At(h, j)
<1>1. c # p /\ c \in Nat /\ p < c /\ c < n /\ At(h, c) <= At(h, j)
  BY MinChildIs
<1>2. At(h, c) \in Int /\ At(h, p) \in Int /\ At(h, j) \in Int
  BY <1>1, EntryAt
<1>3. At(h, p) <= At(h, c)
  BY <1>1, <1>2, SMTT(30) DEF Less, At
<1> QED  BY <1>1, <1>2, <1>3

\* What a turn of down leaves alone.
LEMMA DownKeeps ==
  ASSUME NEW h \in Seq(NearEntry), NEW n \in Nat, n <= Len(h), NEW p \in Nat,
         NEW c, c = MinChild(h, p, n), c # p
  PROVE  /\ c \in Nat /\ p < c /\ c < n
         /\ Len(Swap(h, p, c)) = Len(h)
         /\ \A k \in Nat : n <= k /\ k < Len(h) => Swap(h, p, c)[k + 1] = h[k + 1]
         /\ \A e : Copies(Swap(h, p, c), e) = Copies(h, e)
<1>1. c \in Nat /\ p < c /\ c < n
  BY MinChildIs
<1>2. c < Len(h) /\ p < Len(h)
  BY <1>1
<1>3. /\ Len(Swap(h, p, c)) = Len(h)
      /\ \A k \in Nat : k < Len(h) /\ k # p /\ k # c => Swap(h, p, c)[k + 1] = h[k + 1]
  BY <1>1, <1>2, SwapAt
<1>4. \A e : Copies(Swap(h, p, c), e) = Copies(h, e)
  BY <1>1, <1>2, SwapCopies
<1> QED  BY <1>1, <1>3, <1>4

\* What down returns, turn by turn.
LEMMA DownOrders ==
  ASSUME NEW h \in Seq(NearEntry), NEW p \in Nat, NEW n \in Nat, n <= Len(h),
         NEW r, r = Down[[heap |-> h, pos |-> p, n |-> n]]
  PROVE  /\ r.heap \in Seq(NearEntry) /\ Len(r.heap) = Len(h)
         /\ r.pos \in Nat /\ p <= r.pos
         /\ \A k \in Nat : n <= k /\ k < Len(h) => r.heap[k + 1] = h[k + 1]
         /\ \A e : Copies(r.heap, e) = Copies(h, e)
         /\ OrderedButSinking(h, p, n) => OrderedTo(r.heap, n)
<1> DEFINE Good(d) ==
      /\ Down[d].heap \in Seq(NearEntry) /\ Len(Down[d].heap) = Len(d.heap)
      /\ Down[d].pos \in Nat /\ d.pos <= Down[d].pos
      /\ \A k \in Nat : d.n <= k /\ k < Len(d.heap) => Down[d].heap[k + 1] = d.heap[k + 1]
      /\ \A e : Copies(Down[d].heap, e) = Copies(d.heap, e)
      /\ OrderedButSinking(d.heap, d.pos, d.n) => OrderedTo(Down[d].heap, d.n)
    T == {d \in Sinking : Good(d)}
<1>1. ASSUME NEW d \in Sinking
      PROVE  d.heap \in Seq(NearEntry) /\ d.pos \in Nat /\ d.n \in Nat /\ d.n <= Len(d.heap)
  BY DEF Sinking
<1>2. ASSUME NEW d \in Sinking \cap DownStops PROVE d \in T
  <2>1. Down[d] = d
    BY DownIs
  <2>2. ASSUME OrderedButSinking(d.heap, d.pos, d.n) PROVE OrderedTo(d.heap, d.n)
    <3>1. LET c == MinChild(d.heap, d.pos, d.n) IN c = d.pos \/ ~Less(d.heap, c, d.pos)
      BY DEF DownStops
    <3>2. ASSUME NEW j \in 1..(d.n - 1), Parent(j) = d.pos
          PROVE  At(d.heap, d.pos) <= At(d.heap, j)
      BY <1>1, <3>1, <3>2, DownStopped
    <3> QED  BY <2>2, <3>2 DEF OrderedTo, OrderedButSinking
  <2> QED  BY <1>1, <2>1, <2>2
<1>3. ASSUME NEW d \in Sinking \ DownStops, DownStep[d] \in T PROVE d \in T
  <2> DEFINE v == DownStep[d]
             c == MinChild(d.heap, d.pos, d.n)
  <2>1. Down[d] = Down[v]
    BY DownIs
  <2>2. c # d.pos /\ Less(d.heap, c, d.pos)
    BY DEF DownStops
  <2>3. /\ c \in Nat /\ d.pos < c /\ c < d.n
        /\ Len(Swap(d.heap, d.pos, c)) = Len(d.heap)
        /\ \A k \in Nat : d.n <= k /\ k < Len(d.heap)
             => Swap(d.heap, d.pos, c)[k + 1] = d.heap[k + 1]
        /\ \A e : Copies(Swap(d.heap, d.pos, c), e) = Copies(d.heap, e)
    <3>0. PICK to : to = c
      OBVIOUS
    <3>1. PICK old \in Seq(NearEntry), from \in Nat, size \in Nat :
            old = d.heap /\ from = d.pos /\ size = d.n /\ size <= Len(old)
      BY <1>1
    <3>2. to = MinChild(old, from, size) /\ to # from
      BY <2>2, <3>0, <3>1
    <3> HIDE DEF c, v
    <3>3. /\ to \in Nat /\ from < to /\ to < size
          /\ Len(Swap(old, from, to)) = Len(old)
          /\ \A k \in Nat : size <= k /\ k < Len(old) => Swap(old, from, to)[k + 1] = old[k + 1]
          /\ \A e : Copies(Swap(old, from, to), e) = Copies(old, e)
      BY <3>1, <3>2, DownKeeps
    <3> QED  BY <3>0, <3>1, <3>3
  <2>4. v.heap = Swap(d.heap, d.pos, c) /\ v.pos = c /\ v.n = d.n
    BY DEF DownStep
  <2>7. ASSUME OrderedButSinking(d.heap, d.pos, d.n)
        PROVE  OrderedButSinking(v.heap, v.pos, v.n)
    <3>1. At(d.heap, c) < At(d.heap, d.pos)
      BY <2>2 DEF Less, At
    <3>2. OrderedBut(d.heap, d.pos, d.n)
      BY <2>7 DEF OrderedBut, OrderedButSinking
    <3> HIDE DEF v
    <3> QED  BY <1>1, <2>2, <2>4, <3>1, <3>2, DownTurn
  <2>8. Good(v)
    BY <1>3
  <2> HIDE DEF v, c
  <2>9. Good(d)
    BY <1>1, <2>1, <2>3, <2>4, <2>7, <2>8
  <2> QED  BY <2>9
<1> HIDE DEF T
<1>4. Sinking \subseteq T
  <2>1. Sinking \cap DownStops \subseteq T
    BY <1>2
  <2> QED  BY <1>3, <2>1, DownEnds, LoopInduction
<1>5. [heap |-> h, pos |-> p, n |-> n] \in Sinking
  BY DEF Sinking
<1>6. Good([heap |-> h, pos |-> p, n |-> n])
  BY <1>4, <1>5 DEF T
<1> QED  BY <1>6

-----------------------------------------------------------------------------
(***************************************************************************)
(* The operations of container/heap.                                       *)
(***************************************************************************)
\* down, else up: the order is restored wherever the entry at i belongs.
LEMMA SettleOrders ==
  ASSUME NEW h \in Seq(NearEntry), NEW n \in Nat, n <= Len(h), NEW i \in Nat, i < n
  PROVE  /\ Settle(h, i, n) \in Seq(NearEntry) /\ Len(Settle(h, i, n)) = Len(h)
         /\ OrderedBut(h, i, n) => OrderedTo(Settle(h, i, n), n)
<1> DEFINE d == [heap |-> h, pos |-> i, n |-> n]
           r == Down[d]
           c == MinChild(h, i, n)
           g == Swap(h, i, c)
<1>1. d \in Sinking /\ d.heap = h /\ d.pos = i /\ d.n = n
  BY DEF Sinking
<1>2. r.heap \in Seq(NearEntry) /\ Len(r.heap) = Len(h)
  BY DownOrders
<1>3. i < Len(h)
  OBVIOUS
<1>4. /\ Risen(h, i).heap \in Seq(NearEntry) /\ Len(Risen(h, i).heap) = Len(h)
      /\ OrderedButRising(h, i, n) => OrderedTo(Risen(h, i).heap, n)
  BY <1>3, UpOrders
<1>5. Settle(h, i, n) = IF r.pos = i THEN Risen(h, i).heap ELSE r.heap
  BY DEF Settle
<1>6. CASE d \in DownStops
  <2>1. r.pos = i
    BY <1>1, <1>6, DownIs
  <2>2. c = i \/ ~Less(h, c, i)
    BY <1>1, <1>6 DEF DownStops
  <2>3. OrderedBut(h, i, n) => OrderedButRising(h, i, n)
    <3>1. \A j \in 1..(n - 1) : Parent(j) = i => At(h, i) <= At(h, j)
      BY <2>2, DownStopped
    <3> QED  BY <3>1 DEF OrderedBut, OrderedButRising
  <2> HIDE DEF r
  <2> QED  BY <1>4, <1>5, <2>1, <2>3
<1>7. CASE d \notin DownStops
  <2>1. r = Down[DownStep[d]]
    BY <1>1, <1>7, DownIs
  <2>2. DownStep[d] = [heap |-> g, pos |-> c, n |-> n]
    BY <1>1 DEF DownStep
  <2>3. c # i /\ Less(h, c, i)
    BY <1>1, <1>7 DEF DownStops
  <2> HIDE DEF d
  <2>4. c \in Nat /\ i < c /\ c < n /\ Len(g) = Len(h)
    BY <2>3, DownKeeps
  <2>5. c < Len(h)
    BY <2>4
  <2>6. g \in Seq(NearEntry)
    BY <1>3, <2>4, <2>5, SwapAt
  <2>7. OrderedBut(h, i, n) => OrderedButSinking(g, c, n)
    <3>1. At(h, c) < At(h, i)
      BY <2>3 DEF Less, At
    <3> QED  BY <2>3, <3>1, DownTurn
  <2> HIDE DEF g, c, r
  <2>8. /\ r.pos \in Nat /\ c <= r.pos
        /\ OrderedButSinking(g, c, n) => OrderedTo(r.heap, n)
    BY <2>1, <2>2, <2>4, <2>6, DownOrders
  <2> QED  BY <1>2, <1>5, <2>4, <2>7, <2>8
<1> QED  BY <1>6, <1>7

\* The first n entries of a heap.
LEMMA FirstOf ==
  ASSUME NEW h \in Seq(NearEntry), NEW n \in Nat, n <= Len(h)
  PROVE  /\ SubSeq(h, 1, n) \in Seq(NearEntry) /\ Len(SubSeq(h, 1, n)) = n
         /\ \A k \in 1..n : SubSeq(h, 1, n)[k] = h[k]
         /\ OrderedTo(h, n) => OrderedTo(SubSeq(h, 1, n), n)
<1>1. /\ SubSeq(h, 1, n) \in Seq(NearEntry) /\ Len(SubSeq(h, 1, n)) = n
      /\ \A k \in 1..n : SubSeq(h, 1, n)[k] = h[k]
  OBVIOUS
<1>2. ASSUME NEW j \in 1..(n - 1), At(h, Parent(j)) <= At(h, j)
      PROVE  At(SubSeq(h, 1, n), Parent(j)) <= At(SubSeq(h, 1, n), j)
  <2>1. j + 1 \in 1..n /\ Parent(j) + 1 \in 1..n
    BY ParentOf
  <2> QED  BY <1>1, <1>2, <2>1 DEF At
<1> QED  BY <1>1, <1>2 DEF OrderedTo

\* In an ordered heap, a position's children are no earlier than its parent.
LEMMA Grandchildren ==
  ASSUME NEW h \in Seq(NearEntry), OrderedTo(h, Len(h)), NEW i \in Nat, i < Len(h), i # 0,
         NEW j \in 1..(Len(h) - 1), Parent(j) = i
  PROVE  At(h, Parent(i)) <= At(h, j)
<1>1. i \in 1..(Len(h) - 1) /\ Parent(i) \in Nat /\ Parent(i) < i
  BY ParentOf
<1>2. At(h, Parent(i)) <= At(h, i) /\ At(h, i) <= At(h, j)
  BY <1>1 DEF OrderedTo
<1>3. At(h, Parent(i)) \in Int /\ At(h, i) \in Int /\ At(h, j) \in Int
  BY <1>1, EntryAt
<1> QED  BY <1>2, <1>3

\* Whatever is put at position i of an ordered heap, the rest stays ordered around it.
LEMMA OrderedElsewhere ==
  ASSUME NEW h \in Seq(NearEntry), OrderedTo(h, Len(h)), NEW i \in Nat, i < Len(h),
         NEW g \in Seq(NearEntry), NEW n \in Nat, n <= Len(h),
         \A k \in Nat : k < n /\ k # i => At(g, k) = At(h, k)
  PROVE  OrderedBut(g, i, n)
<1>1. ASSUME NEW j \in 1..(n - 1), j # i, Parent(j) # i
      PROVE  At(g, Parent(j)) <= At(g, j)
  <2>1. Parent(j) \in Nat /\ Parent(j) < n /\ j \in Nat /\ j < n /\ j \in 1..(Len(h) - 1)
    BY ParentOf
  <2>2. At(h, Parent(j)) <= At(h, j)
    BY <2>1 DEF OrderedTo
  <2> QED  BY <1>1, <2>1, <2>2
<1>2. ASSUME NEW j \in 1..(n - 1), Parent(j) = i, i # 0
      PROVE  At(g, Parent(i)) <= At(g, j)
  <2>1. Parent(i) \in Nat /\ Parent(i) < i /\ i < j /\ j \in Nat /\ j < n /\ j \in 1..(Len(h) - 1)
    BY <1>2, ParentOf
  <2>2. At(h, Parent(i)) <= At(h, j)
    BY <1>2, <2>1, Grandchildren
  <2> QED  BY <2>1, <2>2
<1> QED  BY <1>1, <1>2 DEF OrderedBut, ChildrenAbove

\* heap.Fix after the entry at i has changed.
LEMMA FixOrders ==
  ASSUME NEW h \in Seq(NearEntry), NEW i \in Nat, i < Len(h), NEW x \in Int
  PROVE  LET g == [h EXCEPT ![i + 1].expireAt = x]
         IN /\ HeapFix(g, i) \in Seq(NearEntry) /\ Len(HeapFix(g, i)) = Len(h)
            /\ OrderedTo(h, Len(h)) => OrderedTo(HeapFix(g, i), Len(h))
<1> DEFINE g == [h EXCEPT ![i + 1].expireAt = x]
<1>1. i + 1 \in DOMAIN h /\ h[i + 1] \in NearEntry
  BY EntryAt
<1>2. [h[i + 1] EXCEPT !.expireAt = x] \in NearEntry
  BY <1>1 DEF NearEntry
<1>3. g = [h EXCEPT ![i + 1] = [h[i + 1] EXCEPT !.expireAt = x]]
  BY <1>1
<1>4. g \in Seq(NearEntry) /\ Len(g) = Len(h)
  BY <1>1, <1>2, <1>3
<1>5. \A k \in Nat : k < Len(h) /\ k # i => At(g, k) = At(h, k)
  <2> TAKE k \in Nat
  <2> HAVE k < Len(h) /\ k # i
  <2>1. k + 1 \in DOMAIN h /\ k + 1 # i + 1
    BY EntryAt
  <2> QED  BY <1>3, <2>1 DEF At
<1> HIDE DEF g
<1>6. OrderedTo(h, Len(h)) => OrderedBut(g, i, Len(h))
  BY <1>4, <1>5, OrderedElsewhere
<1>7. /\ Settle(g, i, Len(g)) \in Seq(NearEntry) /\ Len(Settle(g, i, Len(g))) = Len(g)
      /\ OrderedBut(g, i, Len(g)) => OrderedTo(Settle(g, i, Len(g)), Len(g))
  BY <1>4, SettleOrders
<1> QED  BY <1>4, <1>6, <1>7 DEF HeapFix, g

\* heap.Remove at any position of the heap.
LEMMA RemoveOrders ==
  ASSUME NEW h \in Seq(NearEntry), NEW i \in Nat, i < Len(h)
  PROVE  /\ HeapRemove(h, i) \in Seq(NearEntry) /\ Len(HeapRemove(h, i)) = Len(h) - 1
         /\ OrderedTo(h, Len(h)) => OrderedTo(HeapRemove(h, i), Len(HeapRemove(h, i)))
<1> DEFINE n == Len(h) - 1
           g == IF n = i THEN h ELSE Settle(Swap(h, i, n), i, n)
<1>1. n \in Nat /\ n < Len(h) /\ n <= Len(h)
  OBVIOUS
<1>2. g \in Seq(NearEntry) /\ Len(g) = Len(h) /\ (OrderedTo(h, Len(h)) => OrderedTo(g, n))
  <2>1. CASE n = i
    BY <1>1, <2>1 DEF OrderedTo
  <2>2. CASE n # i
    <3> DEFINE s == Swap(h, i, n)
    <3>1. i < n
      BY <1>1, <2>2
    <3> HIDE DEF n
    <3>2. /\ s \in Seq(NearEntry) /\ Len(s) = Len(h)
          /\ \A k \in Nat : k < Len(h) /\ k # i /\ k # n => At(s, k) = At(h, k)
      BY <1>1, SwapAt
    <3> HIDE DEF s
    <3>3. \A k \in Nat : k < n /\ k # i => At(s, k) = At(h, k)
      BY <1>1, <3>2
    <3>4. OrderedTo(h, Len(h)) => OrderedBut(s, i, n)
      BY <1>1, <3>2, <3>3, OrderedElsewhere
    <3>5. n <= Len(s)
      BY <1>1, <3>2
    <3>6. /\ Settle(s, i, n) \in Seq(NearEntry) /\ Len(Settle(s, i, n)) = Len(s)
          /\ OrderedBut(s, i, n) => OrderedTo(Settle(s, i, n), n)
      BY <1>1, <3>1, <3>2, <3>5, SettleOrders
    <3> QED  BY <2>2, <3>2, <3>4, <3>6 DEF s
  <2> QED  BY <2>1, <2>2
<1>3. HeapRemove(h, i) = SubSeq(g, 1, n)
  BY DEF HeapRemove
<1> HIDE DEF g, n
<1>4. n <= Len(g)
  BY <1>1, <1>2
<1>5. /\ SubSeq(g, 1, n) \in Seq(NearEntry) /\ Len(SubSeq(g, 1, n)) = n
      /\ OrderedTo(g, n) => OrderedTo(SubSeq(g, 1, n), n)
  BY <1>1, <1>2, <1>4, FirstOf
<1> QED  BY <1>2, <1>3, <1>5 DEF n

\* heap.Push.
LEMMA PushOrders ==
  ASSUME NEW h \in Seq(NearEntry), NEW e \in NearEntry
  PROVE  /\ Pushed(h, e).heap \in Seq(NearEntry) /\ Len(Pushed(h, e).heap) = Len(h) + 1
         /\ Pushed(h, e).pos \in Nat /\ Pushed(h, e).pos <= Len(h)
         /\ OrderedTo(h, Len(h)) => OrderedTo(Pushed(h, e).heap, Len(h) + 1)
<1> DEFINE g == Append(h, e)
           p == Len(h)
<1>1. g \in Seq(NearEntry) /\ Len(g) = p + 1 /\ p \in Nat /\ p < Len(g)
      /\ \A k \in Nat : k < p => g[k + 1] = h[k + 1]
  OBVIOUS
<1>2. ASSUME OrderedTo(h, Len(h)) PROVE OrderedButRising(g, p, p + 1)
  <2>1. ASSUME NEW j \in 1..(p + 1 - 1), j # p PROVE At(g, Parent(j)) <= At(g, j)
    <3>1. j \in 1..(Len(h) - 1) /\ j < p /\ Parent(j) \in Nat /\ Parent(j) < p
      BY <1>1, <2>1, ParentOf
    <3>2. At(h, Parent(j)) <= At(h, j)
      BY <1>2, <3>1 DEF OrderedTo
    <3> QED  BY <1>1, <3>1, <3>2 DEF At
  <2>2. ASSUME NEW j \in 1..(p + 1 - 1) PROVE Parent(j) # p
    BY <1>1, ParentOf
  <2> QED  BY <2>1, <2>2 DEF OrderedButRising, ChildrenAbove
<1> HIDE DEF g, p
<1>3. p + 1 \in Nat /\ p + 1 <= Len(g) /\ p < p + 1
  BY <1>1
<1>4. /\ Risen(g, p).heap \in Seq(NearEntry) /\ Len(Risen(g, p).heap) = Len(g)
      /\ Risen(g, p).pos \in Nat /\ Risen(g, p).pos <= p
      /\ OrderedButRising(g, p, p + 1) => OrderedTo(Risen(g, p).heap, p + 1)
  BY <1>1, <1>3, UpOrders
<1> QED  BY <1>1, <1>2, <1>4 DEF Pushed, g, p

\* The last entry of a heap, and the copies among the others.
LEMMA LastCopy ==
  ASSUME NEW h \in Seq(NearEntry), NEW n \in Nat, Len(h) = n + 1, NEW e
  PROVE  Copies(h, e) = Copies(SubSeq(h, 1, n), e) + (IF h[n + 1] = e THEN 1 ELSE 0)
<1> DEFINE g == SubSeq(h, 1, n)
<1>1. g \in Seq(NearEntry) /\ DOMAIN g = 1..n /\ \A k \in 1..n : g[k] = h[k]
  BY FirstOf
<1>2. DOMAIN h = 1..(n + 1)
  OBVIOUS
<1> HIDE DEF g
<1>3. IsFiniteSet(Places(g, e)) /\ Copies(g, e) = Cardinality(Places(g, e)) /\ Copies(g, e) \in Nat
  BY <1>1, PlacesFinite
<1>4. Copies(h, e) = Cardinality(Places(h, e))
  BY PlacesFinite
<1>5. n + 1 \notin Places(g, e)
  BY <1>1 DEF Places
<1>6. CASE h[n + 1] = e
  <2>1. Places(h, e) = Places(g, e) \cup {n + 1}
    BY <1>1, <1>2, <1>6 DEF Places
  <2> QED  BY <1>3, <1>4, <1>5, <1>6, <2>1, FS_AddElement, ZenonT(30) DEF g
<1>7. CASE h[n + 1] # e
  <2>1. Places(h, e) = Places(g, e)
    BY <1>1, <1>2, <1>7 DEF Places
  <2> QED  BY <1>3, <1>4, <1>7, <2>1 DEF g
<1> QED  BY <1>6, <1>7

\* heap.Pop takes the first entry and nothing else.
LEMMA PopOrders ==
  ASSUME NEW h \in Seq(NearEntry), h # <<>>
  PROVE  /\ HeapPop(h) \in Seq(NearEntry) /\ Len(HeapPop(h)) = Len(h) - 1
         /\ OrderedTo(h, Len(h)) => OrderedTo(HeapPop(h), Len(HeapPop(h)))
         /\ \A e : Copies(h, e) = Copies(HeapPop(h), e) + (IF h[1] = e THEN 1 ELSE 0)
<1> DEFINE n == Len(h) - 1
           s == Swap(h, 0, n)
           r == Down[[heap |-> s, pos |-> 0, n |-> n]]
<1>1. n \in Nat /\ n < Len(h) /\ n <= Len(h) /\ Len(h) = n + 1 /\ 0 < Len(h)
  OBVIOUS
<1>2. HeapPop(h) = SubSeq(r.heap, 1, n)
  BY DEF HeapPop, Sunk
<1> HIDE DEF n
<1>3. /\ s \in Seq(NearEntry) /\ Len(s) = Len(h)
      /\ \A k \in Nat : k < Len(h) /\ k # 0 /\ k # n => At(s, k) = At(h, k)
      /\ s[n + 1] = h[1]
  <2>1. 0 \in Nat /\ 0 + 1 = 1
    OBVIOUS
  <2> QED  BY <1>1, <2>1, SwapAt
<1>4. \A e : Copies(s, e) = Copies(h, e)
  <2>1. 0 \in Nat
    OBVIOUS
  <2> QED  BY <1>1, <2>1, SwapCopies
<1> HIDE DEF s
<1>5. ASSUME OrderedTo(h, Len(h)) PROVE OrderedButSinking(s, 0, n)
  <2>1. ASSUME NEW j \in 1..(n - 1), Parent(j) # 0 PROVE At(s, Parent(j)) <= At(s, j)
    <3>1. /\ j \in 1..(Len(h) - 1) /\ j \in Nat /\ j < n /\ j # 0
          /\ Parent(j) \in Nat /\ Parent(j) < n
      BY <1>1, ParentOf
    <3>2. At(h, Parent(j)) <= At(h, j)
      BY <1>5, <3>1 DEF OrderedTo
    <3> QED  BY <1>1, <1>3, <2>1, <3>1, <3>2
  <2> QED  BY <2>1 DEF OrderedButSinking, ChildrenAbove
<1>6. n <= Len(s) /\ 0 \in Nat
  BY <1>1, <1>3
<1>7. /\ r.heap \in Seq(NearEntry) /\ Len(r.heap) = Len(s)
      /\ \A k \in Nat : n <= k /\ k < Len(s) => r.heap[k + 1] = s[k + 1]
      /\ \A e : Copies(r.heap, e) = Copies(s, e)
      /\ OrderedTo(h, Len(h)) => OrderedTo(r.heap, n)
  <2> DEFINE p == 0
  <2>1. r = Down[[heap |-> s, pos |-> p, n |-> n]] /\ p \in Nat /\ (OrderedTo(h, Len(h)) => OrderedButSinking(s, p, n))
    BY <1>5
  <2> HIDE DEF r, p
  <2> QED  BY <1>1, <1>3, <1>6, <2>1, DownOrders
<1> HIDE DEF r
<1>8. r.heap[n + 1] = h[1] /\ Len(r.heap) = n + 1
  BY <1>1, <1>3, <1>7
<1>9. /\ SubSeq(r.heap, 1, n) \in Seq(NearEntry) /\ Len(SubSeq(r.heap, 1, n)) = n
      /\ OrderedTo(r.heap, n) => OrderedTo(SubSeq(r.heap, 1, n), n)
  BY <1>1, <1>7, <1>8, FirstOf
<1>10. \A e : Copies(r.heap, e) = Copies(SubSeq(r.heap, 1, n), e) + (IF r.heap[n + 1] = e THEN 1 ELSE 0)
  BY <1>1, <1>7, <1>8, LastCopy
<1>11. \A e : Copies(h, e) = Copies(SubSeq(r.heap, 1, n), e) + (IF h[1] = e THEN 1 ELSE 0)
  BY <1>4, <1>7, <1>8, <1>10, Zenon
<1>12. \A e : Copies(h, e) = Copies(HeapPop(h), e) + (IF h[1] = e THEN 1 ELSE 0)
  BY <1>2, <1>11, Zenon
<1>13. /\ HeapPop(h) \in Seq(NearEntry) /\ Len(HeapPop(h)) = Len(h) - 1
       /\ OrderedTo(h, Len(h)) => OrderedTo(HeapPop(h), Len(HeapPop(h)))
  <2> DEFINE g == SubSeq(r.heap, 1, n)
  <2>1. HeapPop(h) = g /\ g \in Seq(NearEntry) /\ Len(g) = n /\ (OrderedTo(r.heap, n) => OrderedTo(g, n))
    BY <1>2, <1>9
  <2> HIDE DEF g
  <2> QED  BY <1>1, <1>7, <2>1
<1> QED  BY <1>12, <1>13, Zenon

-----------------------------------------------------------------------------
(***************************************************************************)
(* DrainExpired.                                                           *)
(***************************************************************************)
\* No entry of an ordered heap is before the first.
LEMMA FirstIsLeast ==
  ASSUME NEW h \in Seq(NearEntry), OrderedTo(h, Len(h)), NEW k \in Nat, k < Len(h)
  PROVE  At(h, 0) <= At(h, k)
<1> DEFINE D == 0..(Len(h) - 1)
           m == [x \in D |-> x]
           T == {x \in D : At(h, 0) <= At(h, x)}
<1>1. m \in [D -> Nat]
  OBVIOUS
<1>2. ASSUME NEW x \in D, \A y \in D : m[y] < m[x] => y \in T PROVE x \in T
  <2>1. At(h, 0) \in Int /\ At(h, x) \in Int
    BY EntryAt
  <2>2. CASE x = 0
    BY <2>1, <2>2
  <2>3. CASE x # 0
    <3>1. Parent(x) \in D /\ Parent(x) < x /\ x \in 1..(Len(h) - 1)
      BY <2>3, ParentOf
    <3>2. At(h, 0) <= At(h, Parent(x)) /\ At(h, Parent(x)) <= At(h, x)
      BY <1>2, <3>1 DEF OrderedTo
    <3>3. At(h, Parent(x)) \in Int
      BY <3>1, EntryAt
    <3> QED  BY <2>1, <3>2, <3>3
  <2> QED  BY <2>2, <2>3
<1>3. k \in D
  OBVIOUS
<1> HIDE DEF D, T, m
<1>4. D \subseteq T
  BY <1>1, <1>2, MeasureInduction
<1> QED  BY <1>3, <1>4 DEF T

\* What is earlier is due no later.
LEMMA DueEarlier ==
  ASSUME NEW a \in NearEntry, NEW b \in NearEntry, a.expireAt <= b.expireAt, IsDue(b), cached \in Int
  PROVE  IsDue(a)
<1>1. a.expireAt \in Int /\ b.expireAt \in Int /\ NsPerMs \in Nat \ {0}
  BY NearClockAssumption DEF NearEntry
<1>2. ASSUME NEW x \in Int PROVE Ms(x) \in Int /\ NsPerMs * Ms(x) <= x /\ x < NsPerMs * Ms(x) + NsPerMs
  BY <1>1 DEF Ms
<1>3. Ms(a.expireAt) \in Int /\ Ms(b.expireAt) \in Int /\ Ms(cached) \in Int
  BY <1>1, <1>2
<1>4. ASSUME Ms(b.expireAt) < Ms(a.expireAt) PROVE FALSE
  <2> DEFINE p == Ms(a.expireAt)
             q == Ms(b.expireAt)
             n == NsPerMs
  <2>1. p \in Int /\ q \in Int /\ n \in Nat \ {0} /\ p - q >= 1
    BY <1>1, <1>3, <1>4
  <2>2. n * p < n * q + n
    <3>1. n * p <= a.expireAt /\ b.expireAt < n * q + n
      BY <1>1, <1>2
    <3> HIDE DEF p, q, n
    <3> QED  BY <1>1, <2>1, <3>1
  <2> HIDE DEF p, q, n
  <2>3. n * (p - q) < n
    BY <2>1, <2>2
  <2>4. n * (p - q) >= n
    BY <2>1
  <2> QED  BY <2>1, <2>3, <2>4
<1> QED  BY <1>3, <1>4 DEF IsDue

DrainStops == {d \in Draining : d.heap = <<>> \/ ~IsDue(d.heap[1])}
DrainStep ==
  [d \in Draining |-> [heap |-> HeapPop(d.heap), popped |-> d.popped \cup {d.heap[1].key}]]

LEMMA DrainEnds == Ends(Draining, DrainStops, DrainStep, [d \in Draining |-> Len(d.heap)])
<1> DEFINE m == [d \in Draining |-> Len(d.heap)]
<1>1. m \in [Draining -> Nat]
  BY DEF Draining
<1>2. ASSUME NEW d \in Draining \ DrainStops PROVE DrainStep[d] \in Draining /\ m[DrainStep[d]] < m[d]
  <2>1. d.heap \in Seq(NearEntry) /\ d.popped \in SUBSET Keys /\ d.heap # <<>>
    BY DEF Draining, DrainStops
  <2>2. HeapPop(d.heap) \in Seq(NearEntry) /\ Len(HeapPop(d.heap)) = Len(d.heap) - 1
    BY <2>1, PopOrders
  <2>3. d.heap[1].key \in Keys
    <3>1. 1 \in 1..Len(d.heap)
      BY <2>1
    <3>2. d.heap[1] \in NearEntry
      BY <2>1, <3>1
    <3> QED  BY <3>2 DEF NearEntry
  <2>4. DrainStep[d] = [heap |-> HeapPop(d.heap), popped |-> d.popped \cup {d.heap[1].key}]
    BY DEF DrainStep
  <2>5. DrainStep[d] \in Draining
    BY <2>1, <2>2, <2>3, <2>4 DEF Draining
  <2> QED  BY <2>1, <2>2, <2>4, <2>5
<1> QED  BY <1>1, <1>2 DEF Ends

LEMMA DrainedIs ==
  ASSUME NEW d \in Draining
  PROVE  Drained[d] = IF d \in DrainStops THEN d ELSE Drained[DrainStep[d]]
<1> DEFINE out == [x \in Draining |-> x]
<1>1. PICK f : f = [x \in Draining |-> IF x \in DrainStops THEN out[x] ELSE f[DrainStep[x]]]
  <2> HIDE DEF out
  <2> QED  BY DrainEnds, TailRecursion
<1>2. f = [x \in Draining |->
             IF x.heap = <<>> \/ ~IsDue(x.heap[1])
             THEN x
             ELSE f[[heap |-> HeapPop(x.heap), popped |-> x.popped \cup {x.heap[1].key}]]]
  <2>1. ASSUME NEW x \in Draining
        PROVE  (IF x \in DrainStops THEN out[x] ELSE f[DrainStep[x]])
               = IF x.heap = <<>> \/ ~IsDue(x.heap[1])
                 THEN x
                 ELSE f[[heap |-> HeapPop(x.heap), popped |-> x.popped \cup {x.heap[1].key}]]
    BY DEF DrainStops, DrainStep
  <2> QED  BY <1>1, <2>1, Zenon
<1>3. Drained = [x \in Draining |->
                   IF x.heap = <<>> \/ ~IsDue(x.heap[1])
                   THEN x
                   ELSE Drained[[heap |-> HeapPop(x.heap), popped |-> x.popped \cup {x.heap[1].key}]]]
  BY <1>2 DEF Drained, Draining
<1> QED  BY <1>3 DEF DrainStops, DrainStep

\* What a drain leaves of an ordered heap.
LEMMA DrainLeaves ==
  ASSUME NEW h \in Seq(NearEntry), NEW K \in SUBSET Keys, cached \in Int,
         NEW r, r = Drained[[heap |-> h, popped |-> K]]
  PROVE  /\ r \in Draining
         /\ OrderedTo(h, Len(h)) =>
              /\ OrderedTo(r.heap, Len(r.heap))
              /\ \A e \in NearEntry : Copies(r.heap, e) = IF IsDue(e) THEN 0 ELSE Copies(h, e)
<1> DEFINE Good(d) ==
      /\ Drained[d] \in Draining
      /\ OrderedTo(d.heap, Len(d.heap)) =>
           /\ OrderedTo(Drained[d].heap, Len(Drained[d].heap))
           /\ \A e \in NearEntry :
                Copies(Drained[d].heap, e) = IF IsDue(e) THEN 0 ELSE Copies(d.heap, e)
    T == {d \in Draining : Good(d)}
<1>1. ASSUME NEW d \in Draining PROVE d.heap \in Seq(NearEntry) /\ d.popped \in SUBSET Keys
  BY DEF Draining
<1>2. ASSUME NEW d \in Draining \cap DrainStops PROVE d \in T
  <2>1. Drained[d] = d
    BY DrainedIs
  <2>2. ASSUME OrderedTo(d.heap, Len(d.heap)), NEW e \in NearEntry, IsDue(e)
        PROVE  Copies(d.heap, e) = 0
    <3>1. ASSUME NEW i \in DOMAIN d.heap, d.heap[i] = e PROVE FALSE
      <4> DEFINE g == d.heap
      <4>1. g \in Seq(NearEntry) /\ i \in 1..Len(g) /\ g # <<>> /\ 1 \in 1..Len(g)
        BY <1>1, <3>1
      <4>2. ~IsDue(g[1])
        BY <4>1 DEF DrainStops
      <4>3. OrderedTo(g, Len(g)) /\ g[i] = e
        BY <2>2, <3>1
      <4> HIDE DEF g
      <4>4. i - 1 \in Nat /\ i - 1 < Len(g) /\ i - 1 + 1 = i
        BY <4>1
      <4>5. At(g, 0) <= At(g, i - 1)
        BY <4>1, <4>3, <4>4, FirstIsLeast
      <4>6. g[1].expireAt <= e.expireAt
        BY <4>3, <4>4, <4>5 DEF At
      <4>7. g[1] \in NearEntry
        BY <4>1
      <4> QED  BY <2>2, <4>2, <4>6, <4>7, DueEarlier
    <3>2. {i \in DOMAIN d.heap : d.heap[i] = e} = {}
      BY <3>1
    <3> QED  BY <3>2, FS_EmptySet DEF Copies
  <2> QED  BY <2>1, <2>2
<1>3. ASSUME NEW d \in Draining \ DrainStops, DrainStep[d] \in T PROVE d \in T
  <2> DEFINE v == DrainStep[d]
             g == d.heap
  <2>1. Drained[d] = Drained[v] /\ v.heap = HeapPop(g)
    BY DrainedIs DEF DrainStep
  <2>2. g \in Seq(NearEntry) /\ g # <<>> /\ IsDue(g[1])
    BY <1>1 DEF DrainStops
  <2>3. Good(v)
    BY <1>3
  <2>4. HeapPop(g) \in Seq(NearEntry) /\ (OrderedTo(g, Len(g)) => OrderedTo(HeapPop(g), Len(HeapPop(g))))
    BY <2>2, PopOrders
  <2>5. \A e : Copies(g, e) = Copies(HeapPop(g), e) + (IF g[1] = e THEN 1 ELSE 0)
    BY <2>2, PopOrders
  <2>6. \A e \in NearEntry : ~IsDue(e) => Copies(HeapPop(g), e) = Copies(g, e)
    <3> TAKE e \in NearEntry
    <3> HAVE ~IsDue(e)
    <3>1. g[1] # e
      BY <2>2
    <3>2. Copies(HeapPop(g), e) \in Nat
      BY <2>4, PlacesFinite
    <3>3. Copies(g, e) = Copies(HeapPop(g), e) + (IF g[1] = e THEN 1 ELSE 0)
      BY <2>5
    <3> QED  BY <3>1, <3>2, <3>3
  <2> HIDE DEF v
  <2>7. ASSUME OrderedTo(g, Len(g)), NEW e \in NearEntry
        PROVE  Copies(Drained[d].heap, e) = IF IsDue(e) THEN 0 ELSE Copies(g, e)
    <3>1. Copies(Drained[v].heap, e) = IF IsDue(e) THEN 0 ELSE Copies(v.heap, e)
      BY <2>1, <2>3, <2>4, <2>7
    <3> HIDE DEF g
    <3> QED  BY <2>1, <2>6, <3>1
  <2>8. /\ Drained[d] \in Draining
        /\ OrderedTo(g, Len(g)) => OrderedTo(Drained[d].heap, Len(Drained[d].heap))
    BY <2>1, <2>3, <2>4
  <2> QED  BY <2>7, <2>8
<1> HIDE DEF T
<1>4. Draining \subseteq T
  <2>1. Draining \cap DrainStops \subseteq T
    BY <1>2
  <2> QED  BY <1>3, <2>1, DrainEnds, LoopInduction
<1>5. [heap |-> h, popped |-> K] \in Draining
  BY DEF Draining
<1>6. Good([heap |-> h, popped |-> K])
  BY <1>4, <1>5 DEF T
<1> QED  BY <1>6

LEMMA OrderedIs ==
  ASSUME NEW h \in Seq(NearEntry)
  PROVE  OrderedTo(h, Len(h)) <=> \A j \in 1..(Len(h) - 1) : ~Less(h, j, (j - 1) \div 2)
<1>1. ASSUME NEW j \in 1..(Len(h) - 1)
      PROVE  At(h, Parent(j)) <= At(h, j) <=> ~Less(h, j, (j - 1) \div 2)
  <2>1. Parent(j) \in Nat /\ Parent(j) < j /\ j \in Nat /\ j < Len(h)
    BY ParentOf
  <2>2. Parent(j) < Len(h)
    BY <2>1
  <2>3. At(h, j) \in Int /\ At(h, Parent(j)) \in Int
    BY <2>1, <2>2, EntryAt
  <2>4. ~Less(h, j, (j - 1) \div 2) <=> ~(At(h, j) < At(h, Parent(j)))
    BY DEF Less, At, Parent
  <2> QED  BY <2>3, <2>4
<1> QED  BY <1>1 DEF OrderedTo

\* The operations of the queue, by whomever and whenever they are called.
LEMMA AddSound ==
  ASSUME NearTypeOK, HeapOrdered, NEW k \in Keys, NEW at \in Int, Add(k, at)
  PROVE  NearTypeOK' /\ HeapOrdered'
<1>1. heap \in Seq(NearEntry) /\ index \in [Keys -> Nat \cup {NoIndex}] /\ OrderedTo(heap, Len(heap))
  BY OrderedIs DEF NearTypeOK, HeapOrdered
<1>2. /\ heap' \in Seq(NearEntry) /\ index' \in [Keys -> Nat \cup {NoIndex}]
      /\ OrderedTo(heap', Len(heap'))
  <2>1. CASE index[k] # NoIndex
    <3> DEFINE i == index[k]
               g == [heap EXCEPT ![i + 1].expireAt = at]
    <3>1. i \in Nat /\ i < Len(heap)
      BY <1>1, <2>1 DEF Add, OutOfRange
    <3>2. heap' = HeapFix(g, i) /\ index' = index
      BY <2>1 DEF Add
    <3>3. /\ HeapFix(g, i) \in Seq(NearEntry) /\ Len(HeapFix(g, i)) = Len(heap)
          /\ OrderedTo(heap, Len(heap)) => OrderedTo(HeapFix(g, i), Len(heap))
      <4> HIDE DEF i
      <4> QED  BY <1>1, <3>1, FixOrders
    <3> HIDE DEF g, i
    <3> QED  BY <1>1, <3>2, <3>3
  <2>2. CASE index[k] = NoIndex
    <3> DEFINE e == [key |-> k, expireAt |-> at]
    <3>1. e \in NearEntry
      BY DEF NearEntry
    <3>2. heap' = Pushed(heap, e).heap /\ index' = [index EXCEPT ![k] = Pushed(heap, e).pos]
      BY <2>2 DEF Add
    <3> HIDE DEF e
    <3>3. /\ Pushed(heap, e).heap \in Seq(NearEntry) /\ Len(Pushed(heap, e).heap) = Len(heap) + 1
          /\ Pushed(heap, e).pos \in Nat
          /\ OrderedTo(heap, Len(heap)) => OrderedTo(Pushed(heap, e).heap, Len(heap) + 1)
      BY <1>1, <3>1, PushOrders
    <3> QED  BY <1>1, <3>2, <3>3
  <2> QED  BY <2>1, <2>2
<1> QED  BY <1>2, OrderedIs DEF NearTypeOK, HeapOrdered

LEMMA RemoveSound ==
  ASSUME NearTypeOK, HeapOrdered, NEW k \in Keys, Remove(k)
  PROVE  NearTypeOK' /\ HeapOrdered'
<1>1. heap \in Seq(NearEntry) /\ index \in [Keys -> Nat \cup {NoIndex}] /\ OrderedTo(heap, Len(heap))
  BY OrderedIs DEF NearTypeOK, HeapOrdered
<1>2. heap' \in Seq(NearEntry) /\ OrderedTo(heap', Len(heap'))
  <2>1. CASE index[k] = NoIndex
    BY <1>1, <2>1 DEF Remove
  <2>2. CASE index[k] # NoIndex
    <3> DEFINE i == index[k]
    <3>1. i \in Nat /\ i < Len(heap) /\ heap' = HeapRemove(heap, i)
      BY <1>1, <2>2 DEF Remove, OutOfRange
    <3> HIDE DEF i
    <3> QED  BY <1>1, <3>1, RemoveOrders
  <2> QED  BY <2>1, <2>2
<1>3. index' \in [Keys -> Nat \cup {NoIndex}]
  BY <1>1 DEF Remove
<1> QED  BY <1>2, <1>3, OrderedIs DEF NearTypeOK, HeapOrdered

LEMMA DrainSound ==
  ASSUME NearTypeOK, HeapOrdered, cached \in Nat, DrainExpired
  PROVE  /\ NearTypeOK' /\ HeapOrdered'
         /\ \A e \in NearEntry : Copies(heap', e) = IF IsDue(e) THEN 0 ELSE Copies(heap, e)
<1>1. heap \in Seq(NearEntry) /\ index \in [Keys -> Nat \cup {NoIndex}] /\ OrderedTo(heap, Len(heap))
  BY OrderedIs DEF NearTypeOK, HeapOrdered
<1>2. heap' = Drain.heap /\ index' = [j \in Keys |-> IF j \in DrainedKeys THEN NoIndex ELSE index[j]]
  BY DEF DrainExpired
<1>3. Drain = Drained[[heap |-> heap, popped |-> {}]]
  BY DEF Drain
<1>4. cached \in Int /\ {} \in SUBSET Keys
  OBVIOUS
<1>5. /\ Drain \in Draining
      /\ OrderedTo(Drain.heap, Len(Drain.heap))
      /\ \A e \in NearEntry : Copies(Drain.heap, e) = IF IsDue(e) THEN 0 ELSE Copies(heap, e)
  BY <1>1, <1>3, <1>4, DrainLeaves
<1>6. heap' \in Seq(NearEntry) /\ OrderedTo(heap', Len(heap'))
  BY <1>2, <1>5 DEF Draining
<1>7. index' \in [Keys -> Nat \cup {NoIndex}]
  BY <1>1, <1>2
<1>8. NearTypeOK' /\ HeapOrdered'
  BY <1>6, <1>7, OrderedIs DEF NearTypeOK, HeapOrdered
<1> QED  BY <1>2, <1>5, <1>8

\* After Add the map knows the key, and what it knew of the others (near_queue.go:69-77).
LEMMA AddRegisters ==
  ASSUME NearTypeOK, NEW k \in Keys, NEW at \in Int, Add(k, at)
  PROVE  index'[k] # NoIndex /\ \A j \in Keys \ {k} : index'[j] = index[j]
<1>1. heap \in Seq(NearEntry) /\ index \in [Keys -> Nat \cup {NoIndex}]
  BY DEF NearTypeOK
<1>2. CASE index[k] # NoIndex
  BY <1>2 DEF Add
<1>3. CASE index[k] = NoIndex
  <2> DEFINE e == [key |-> k, expireAt |-> at]
  <2>1. e \in NearEntry
    BY DEF NearEntry
  <2>2. index' = [index EXCEPT ![k] = Pushed(heap, e).pos]
    BY <1>3 DEF Add
  <2> HIDE DEF e
  <2>3. Pushed(heap, e).pos \in Nat
    BY <1>1, <2>1, PushOrders
  <2> QED  BY <1>1, <2>2, <2>3 DEF NoIndex
<1> QED  BY <1>2, <1>3

-----------------------------------------------------------------------------
(***************************************************************************)
(* The specification.  The types and the order of the heap are needed      *)
(* together: a drain stops at the first entry that is not due.             *)
(***************************************************************************)
NearInv == NearTypeOK /\ cached \in Nat /\ now \in Nat /\ HeapOrdered

LEMMA NearStart == Init => NearInv
  BY DEF Init, NearInit, NearInv, NearTypeOK, HeapOrdered, NoIndex

LEMMA TickKeeps ==
  ASSUME NearInv, NearTick
  PROVE  /\ NearInv'
         /\ \A e \in NearEntry : Copies(heap', e) = IF IsDue(e) THEN 0 ELSE Copies(heap, e)
<1>1. DrainExpired /\ cached' = cached /\ now' = now
  BY DEF NearTick
<1> QED  BY <1>1, DrainSound DEF NearInv

LEMMA NearStep == NearInv /\ [Next]_vars => NearInv'
<1> SUFFICES ASSUME NearInv, [Next]_vars PROVE NearInv'
  OBVIOUS
<1>1. CASE Clock
  BY <1>1 DEF Clock, NearInv, NearTypeOK, HeapOrdered, Less
<1>2. CASE CacheRefresh
  BY <1>2 DEF CacheRefresh, NearInv, NearTypeOK, HeapOrdered, Less
<1>3. CASE NearTick
  BY <1>3, TickKeeps
<1>4. ASSUME NEW k \in Keys, AddKey(k) PROVE NearInv'
  <2>1. PICK d \in Delays : Add(k, now + d)
    BY <1>4 DEF AddKey
  <2>2. now + d \in Int
    BY NearClockAssumption DEF NearInv
  <2>3. NearTypeOK' /\ HeapOrdered'
    BY <2>1, <2>2, AddSound DEF NearInv
  <2> QED  BY <1>4, <2>3 DEF AddKey, NearInv
<1>6. ASSUME NEW k \in Keys, RemoveKey(k) PROVE NearInv'
  BY <1>6, RemoveSound DEF RemoveKey, NearInv
<1>5. CASE UNCHANGED vars
  BY <1>5 DEF vars, NearInv, NearTypeOK, HeapOrdered, Less
<1> QED  BY <1>1, <1>2, <1>3, <1>4, <1>5, <1>6 DEF Next

\* The near queue's heap and map hold keys, deadlines and positions (near_queue.go:9-13,42-47).
THEOREM NearTypes == Spec => []NearTypeOK
<1>1. NearInv => NearTypeOK
  BY DEF NearInv
<1> QED  BY <1>1, NearStart, NearStep, PTL DEF Spec

(***************************************************************************)
(* The heap stays ordered whatever position Add and Remove go through:     *)
(* nq.index does not follow the swaps, and heap.Fix and heap.Remove        *)
(* restore the order at any position in range (near_queue.go:68-88).       *)
(***************************************************************************)
THEOREM HeapStaysOrdered == Spec => []HeapOrdered
<1>1. NearInv => HeapOrdered
  BY DEF NearInv
<1> QED  BY <1>1, NearStart, NearStep, PTL DEF Spec

(***************************************************************************)
(* A drain takes every due entry, however many copies of a key stale       *)
(* positions have left, and no other entry (near_queue.go:90-108).         *)
(***************************************************************************)
THEOREM DrainTakesTheDue == Spec => DrainExact
<1>1. ASSUME NearInv, NearTick
      PROVE  \A e \in Entries(heap) \cup Entries(heap') :
               Copies(heap', e) = IF IsDue(e) THEN 0 ELSE Copies(heap, e)
  <2>1. heap \in Seq(NearEntry) /\ heap' \in Seq(NearEntry)
    BY <1>1, TickKeeps DEF NearInv, NearTypeOK
  <2>2. Entries(heap) \cup Entries(heap') \subseteq NearEntry
    BY <2>1 DEF Entries
  <2> QED  BY <1>1, <2>2, TickKeeps
<1>2. NearInv /\ [Next]_vars =>
        [NearTick =>
           \A e \in Entries(heap) \cup Entries(heap') :
              Copies(heap', e) = IF IsDue(e) THEN 0 ELSE Copies(heap, e)]_vars
  BY <1>1
<1> QED  BY <1>2, NearStart, NearStep, PTL DEF Spec, DrainExact
=============================================================================
