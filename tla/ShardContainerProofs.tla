------------------------ MODULE ShardContainerProofs ------------------------
(***************************************************************************)
(* The invariants of ShardContainer and SegmentIndex for every finite set  *)
(* of keys, every number of shards and segments and every hash function.   *)
(***************************************************************************)
EXTENDS ShardContainer, SegmentIndex, Recursion

(***************************************************************************)
(* Sums.  SumFunction takes one element after the other, in some order; a  *)
(* sum of sums, a sum with one change and the order of two sums follow.    *)
(***************************************************************************)
SomeOf(s) == CHOOSE x \in s : TRUE
IsSum(u, f, S) ==
  /\ u \in [SUBSET S -> Int]
  /\ u[{}] = 0
  /\ \A s \in SUBSET S : s # {} => u[s] = f[SomeOf(s)] + u[s \ {SomeOf(s)}]

LEMMA SumEnds ==
  ASSUME NEW S, IsFiniteSet(S)
  PROVE  Ends(SUBSET S, {{}}, [s \in SUBSET S |-> s \ {SomeOf(s)}], [s \in SUBSET S |-> Cardinality(s)])
<1> DEFINE pick == [s \in SUBSET S |-> SomeOf(s)]
<1>1. \A s \in SUBSET S : s # {} => pick[s] \in s
  BY DEF SomeOf
<1>2. Ends(SUBSET S, {{}}, [s \in SUBSET S |-> s \ {pick[s]}], [s \in SUBSET S |-> Cardinality(s)])
  <2> HIDE DEF pick
  <2> QED  BY <1>1, FoldEnds
<1>3. [s \in SUBSET S |-> s \ {pick[s]}] = [s \in SUBSET S |-> s \ {SomeOf(s)}]
  OBVIOUS
<1> QED  BY <1>2, <1>3

LEMMA SumIs ==
  ASSUME NEW S, IsFiniteSet(S), NEW f \in [S -> Int]
  PROVE  \E u : IsSum(u, f, S) /\ SumFunction(f) = u[S]
<1> DEFINE D == SUBSET S
           step == [s \in D |-> s \ {SomeOf(s)}]
           m == [s \in D |-> Cardinality(s)]
           out == [s \in D |-> 0]
           comb == [q \in D \X Int |-> f[SomeOf(q[1])] + q[2]]
<1>1. Ends(D, {{}}, step, m)
  BY SumEnds
<1>2. ASSUME NEW s \in D, s # {} PROVE SomeOf(s) \in s /\ SomeOf(s) \in S /\ f[SomeOf(s)] \in Int
  BY <1>2 DEF SomeOf
<1>3. Yields(D, Int, {{}}, out, comb)
  <2>1. ASSUME NEW s \in D \ {{}}, NEW v \in Int PROVE comb[<<s, v>>] \in Int
    <3>1. comb[<<s, v>>] = f[SomeOf(s)] + v
      OBVIOUS
    <3> QED  BY <1>2, <3>1
  <2>2. \A s \in D : out[s] \in Int
    OBVIOUS
  <2> HIDE DEF D, out, comb
  <2> QED  BY <2>1, <2>2 DEF Yields
<1>4. PICK u \in [D -> Int] :
        \A s \in D : u[s] = IF s \in {{}} THEN out[s] ELSE comb[<<s, u[step[s]]>>]
  <2> HIDE DEF D, step, m, out, comb
  <2> QED  BY <1>1, <1>3, LinearRecursion
<1>5. ASSUME NEW s \in D, s # {} PROVE u[s] = f[SomeOf(s)] + u[s \ {SomeOf(s)}]
  <2>1. step[s] = s \ {SomeOf(s)} /\ step[s] \in D
    OBVIOUS
  <2>2. u[step[s]] \in Int /\ u[s] = comb[<<s, u[step[s]]>>]
    BY <1>4, <1>5, <2>1
  <2> QED  BY <2>1, <2>2
<1>6. u[{}] = 0
  BY <1>4
<1>7. IsSum(u, f, S)
  BY <1>4, <1>5, <1>6 DEF IsSum
<1> DEFINE Add1(k, n) == f[k] + n
<1>8. u = [s \in D |-> IF s = {} THEN 0 ELSE LET x == CHOOSE x \in s : TRUE IN Add1(x, u[s \ {x}])]
  <2>1. ASSUME NEW s \in D
        PROVE  u[s] = IF s = {} THEN 0 ELSE LET x == CHOOSE x \in s : TRUE IN Add1(x, u[s \ {x}])
    BY <1>5, <1>6 DEF SomeOf
  <2> QED  BY <1>4, <2>1
<1> DEFINE iter[s \in D] == IF s = {} THEN 0 ELSE LET x == CHOOSE x \in s : TRUE IN Add1(x, iter[s \ {x}])
<1>9. iter = [s \in D |-> IF s = {} THEN 0 ELSE LET x == CHOOSE x \in s : TRUE IN Add1(x, iter[s \ {x}])]
  <2> HIDE DEF D
  <2> QED  BY <1>8, ZenonT(30)
<1>10. SumFunction(f) = iter[S]
  <2>1. DOMAIN f = S
    OBVIOUS
  <2>2. SumFunctionOnSet(f, S) = iter[S]
    BY DEF SumFunctionOnSet, FoldFunctionOnSet, MapThenFoldSet
  <2> HIDE DEF iter
  <2> QED  BY <2>1, <2>2, Zenon DEF SumFunction
<1> HIDE DEF iter
<1> DEFINE T == {s \in D : iter[s] = u[s]}
<1>11. ASSUME NEW s \in D, s = {} PROVE s \in T
  BY <1>6, <1>9, <1>11
<1>12. ASSUME NEW s \in D \ {{}}, step[s] \in T PROVE s \in T
  <2>1. step[s] = s \ {SomeOf(s)} /\ iter[step[s]] = u[step[s]]
    BY <1>12
  <2>2. iter[s] = Add1(SomeOf(s), iter[s \ {SomeOf(s)}])
    BY <1>9 DEF SomeOf
  <2>3. u[s] = Add1(SomeOf(s), u[s \ {SomeOf(s)}])
    BY <1>8, Zenon DEF SomeOf
  <2> QED  BY <2>1, <2>2, <2>3
<1>13. D \subseteq T
  <2> DEFINE stop == {{}}
  <2>1. D \cap stop \subseteq T
    BY <1>11
  <2>2. Ends(D, stop, step, m) /\ \A s \in D \ stop : step[s] \in T => s \in T
    BY <1>1, <1>12
  <2> HIDE DEF D, stop, step, m, T
  <2> QED  BY <2>1, <2>2, LoopInduction
<1>14. iter[S] = u[S]
  BY <1>13
<1> QED  BY <1>7, <1>10, <1>14

LEMMA SumType ==
  ASSUME NEW S, IsFiniteSet(S), NEW f \in [S -> Int]
  PROVE  SumFunction(f) \in Int
<1>1. PICK u : IsSum(u, f, S) /\ SumFunction(f) = u[S]
  BY SumIs
<1> QED  BY <1>1 DEF IsSum

\* The sum of two functions has the sum of their sums.
LEMMA SumAdd ==
  ASSUME NEW S, IsFiniteSet(S), NEW f \in [S -> Int], NEW g \in [S -> Int], NEW h \in [S -> Int],
         \A x \in S : h[x] = f[x] + g[x]
  PROVE  SumFunction(h) = SumFunction(f) + SumFunction(g)
<1>1. PICK u : IsSum(u, f, S) /\ SumFunction(f) = u[S]
  BY SumIs
<1>2. PICK v : IsSum(v, g, S) /\ SumFunction(g) = v[S]
  BY SumIs
<1>3. PICK w : IsSum(w, h, S) /\ SumFunction(h) = w[S]
  BY SumIs
<1> DEFINE D == SUBSET S
           stop == {{}}
           step == [s \in D |-> s \ {SomeOf(s)}]
           m == [s \in D |-> Cardinality(s)]
           T == {s \in D : w[s] = u[s] + v[s]}
<1>4. Ends(D, stop, step, m)
  BY SumEnds
<1>5. ASSUME NEW s \in D, s = {} PROVE s \in T
  BY <1>1, <1>2, <1>3, <1>5 DEF IsSum
<1>6. ASSUME NEW s \in D \ stop, step[s] \in T PROVE s \in T
  <2> DEFINE x == SomeOf(s)
             r == s \ {x}
  <2>1. x \in S /\ r \in D /\ step[s] = r
    BY DEF SomeOf
  <2>2. u[s] = f[x] + u[r] /\ v[s] = g[x] + v[r] /\ w[s] = h[x] + w[r]
    BY <1>1, <1>2, <1>3 DEF IsSum
  <2>3. u[r] \in Int /\ v[r] \in Int /\ f[x] \in Int /\ g[x] \in Int
    BY <1>1, <1>2, <2>1 DEF IsSum
  <2>4. w[r] = u[r] + v[r] /\ h[x] = f[x] + g[x]
    BY <1>6, <2>1
  <2> HIDE DEF x, r
  <2> QED  BY <2>2, <2>3, <2>4
<1>7. D \subseteq T
  <2>1. D \cap stop \subseteq T
    BY <1>5
  <2>2. \A s \in D \ stop : step[s] \in T => s \in T
    BY <1>6
  <2> HIDE DEF D, stop, step, m, T
  <2> QED  BY <1>4, <2>1, <2>2, LoopInduction
<1>8. S \in T
  BY <1>7
<1> QED  BY <1>1, <1>2, <1>3, <1>8

\* Nothing negative adds up to nothing negative.
LEMMA SumNat ==
  ASSUME NEW S, IsFiniteSet(S), NEW f \in [S -> Int], \A x \in S : f[x] >= 0
  PROVE  SumFunction(f) \in Nat
<1>1. PICK u : IsSum(u, f, S) /\ SumFunction(f) = u[S]
  BY SumIs
<1> DEFINE D == SUBSET S
           stop == {{}}
           step == [s \in D |-> s \ {SomeOf(s)}]
           m == [s \in D |-> Cardinality(s)]
           T == {s \in D : u[s] >= 0}
<1>2. Ends(D, stop, step, m)
  BY SumEnds
<1>3. ASSUME NEW s \in D, s = {} PROVE s \in T
  BY <1>1, <1>3 DEF IsSum
<1>4. ASSUME NEW s \in D \ stop, step[s] \in T PROVE s \in T
  <2> DEFINE x == SomeOf(s)
             r == s \ {x}
  <2>1. x \in S /\ r \in D /\ step[s] = r
    BY DEF SomeOf
  <2>2. u[s] = f[x] + u[r]
    BY <1>1 DEF IsSum
  <2>3. u[r] \in Int /\ f[x] \in Int /\ f[x] >= 0 /\ u[r] >= 0
    BY <1>1, <1>4, <2>1 DEF IsSum
  <2> HIDE DEF x, r
  <2> QED  BY <2>2, <2>3
<1>5. D \subseteq T
  <2>1. D \cap stop \subseteq T
    BY <1>3
  <2>2. \A s \in D \ stop : step[s] \in T => s \in T
    BY <1>4
  <2> HIDE DEF D, stop, step, m, T
  <2> QED  BY <1>2, <2>1, <2>2, LoopInduction
<1>6. S \in T /\ u[S] \in Int
  BY <1>1, <1>5 DEF IsSum
<1> QED  BY <1>1, <1>6

LEMMA SumZero ==
  ASSUME NEW S, IsFiniteSet(S), NEW f \in [S -> Int], \A x \in S : f[x] = 0
  PROVE  SumFunction(f) = 0
<1>1. SumFunction(f) = SumFunction(f) + SumFunction(f)
  BY SumAdd
<1> QED  BY <1>1, SumType

LEMMA SumMono ==
  ASSUME NEW S, IsFiniteSet(S), NEW f \in [S -> Int], NEW g \in [S -> Int],
         \A x \in S : f[x] <= g[x]
  PROVE  SumFunction(f) <= SumFunction(g)
<1> DEFINE d == [x \in S |-> g[x] - f[x]]
<1>1. d \in [S -> Int] /\ \A x \in S : d[x] >= 0 /\ g[x] = f[x] + d[x]
  OBVIOUS
<1> HIDE DEF d
<1>2. SumFunction(d) \in Nat /\ SumFunction(g) = SumFunction(f) + SumFunction(d)
  BY <1>1, SumNat, SumAdd
<1> QED  BY <1>2, SumType

\* A function that is 0 but for one element.
LEMMA SumPoint ==
  ASSUME NEW S, IsFiniteSet(S), NEW k \in S, NEW f \in [S -> Int], \A x \in S : x # k => f[x] = 0
  PROVE  SumFunction(f) = f[k]
<1>1. PICK u : IsSum(u, f, S) /\ SumFunction(f) = u[S]
  BY SumIs
<1> DEFINE D == SUBSET S
           stop == {{}}
           step == [s \in D |-> s \ {SomeOf(s)}]
           m == [s \in D |-> Cardinality(s)]
           T == {s \in D : u[s] = IF k \in s THEN f[k] ELSE 0}
<1>2. Ends(D, stop, step, m)
  BY SumEnds
<1>3. ASSUME NEW s \in D, s = {} PROVE s \in T
  BY <1>1, <1>3 DEF IsSum
<1>4. ASSUME NEW s \in D \ stop, step[s] \in T PROVE s \in T
  <2> DEFINE x == SomeOf(s)
             r == s \ {x}
  <2>1. x \in s /\ x \in S /\ r \in D /\ step[s] = r /\ x \notin r
    BY DEF SomeOf
  <2>2. u[s] = f[x] + u[r]
    BY <1>1 DEF IsSum
  <2>3. u[r] = IF k \in r THEN f[k] ELSE 0
    BY <1>4, <2>1
  <2>4. f[k] \in Int /\ f[x] \in Int /\ (x # k => f[x] = 0) /\ (k \in s <=> k \in r \/ k = x)
    BY <2>1
  <2> HIDE DEF x, r
  <2>5. u[s] = IF k \in s THEN f[k] ELSE 0
    BY <2>1, <2>2, <2>3, <2>4
  <2> QED  BY <2>5
<1>5. D \subseteq T
  <2>1. D \cap stop \subseteq T
    BY <1>3
  <2>2. \A s \in D \ stop : step[s] \in T => s \in T
    BY <1>4
  <2> HIDE DEF D, stop, step, m, T
  <2> QED  BY <1>2, <2>1, <2>2, LoopInduction
<1>6. S \in T
  BY <1>5
<1> QED  BY <1>1, <1>6

\* One value changes, and the sum with it.
LEMMA SumUpdate ==
  ASSUME NEW S, IsFiniteSet(S), NEW k \in S, NEW f \in [S -> Int], NEW g \in [S -> Int],
         \A x \in S : x # k => g[x] = f[x]
  PROVE  SumFunction(g) = SumFunction(f) + (g[k] - f[k])
<1> DEFINE d == [x \in S |-> g[x] - f[x]]
<1>1. d \in [S -> Int] /\ d[k] = g[k] - f[k] /\ \A x \in S : g[x] = f[x] + d[x] /\ (x # k => d[x] = 0)
  OBVIOUS
<1> HIDE DEF d
<1>2. SumFunction(d) = d[k] /\ SumFunction(g) = SumFunction(f) + SumFunction(d)
  BY <1>1, SumPoint, SumAdd
<1> QED  BY <1>1, <1>2

-----------------------------------------------------------------------------
(***************************************************************************)
(* The container.                                                          *)
(***************************************************************************)
Ones(s, idx) == [key \in Keys |-> IF getShard(key) = s /\ idx[key] # Absent THEN 1 ELSE 0]
SizesAt(s, idx) == [key \in Keys |-> IF getShard(key) = s THEN Bytes(idx[key]) ELSE 0]
BytesIn(s, idx) == SumFunction(SizesAt(s, idx))

\* What the writer of a shard has done so far.
WriterAt(s) ==
  /\ \A key \in Keys : getShard(key) = s =>
       /\ pc[s] \in {"idle", "cut", "publish"} => stored[key] = old[key]
       /\ pc[s] \in {"idle", "account"} => stored[key] = copy[key]
       /\ pc[s] = "cut" => copy[key] \in {old[key], Absent}
  /\ \A key \in batch[s] : getShard(key) = s
  /\ delta[s] = BytesIn(s, copy) - BytesIn(s, old)

\* keyCount runs ahead of the published index, usedBytes behind it.
CountersAt(s) ==
  /\ keyCount[s] = KeysIn(s, copy) - lost[s]
  /\ usedBytes[s] = BytesIn(s, old)

ShardInv == \A s \in Shards : WriterAt(s) /\ CountersAt(s)

\* What the histories of a walk say of this moment.
HistoryInv ==
  todo # {} => \A key \in Keys : low[key] <= Least(key) /\ Most(key) <= high[key]

\* f is what a walk has made of the keys: nothing in shards it has not read.
Within(f) ==
  \A key \in Keys :
    IF getShard(key) \in todo THEN f[key] = 0 ELSE low[key] <= f[key] /\ f[key] <= high[key]

\* m is what Count has missed in the shards it has read.
Missed(m) == \A s \in Shards : IF s \in todo THEN m[s] = 0 ELSE m[s] <= lost[s]

ResultInv ==
  /\ walk = "none" => todo = {}
  /\ walk = "Keys" => Within(listed)
  /\ walk = "Usage" => \E f \in [Keys -> Nat] : Within(f) /\ total = SumFunction(f)
  /\ walk = "Count" => \E f \in [Keys -> Nat], m \in [Shards -> Nat] :
                         Within(f) /\ Missed(m) /\ total = SumFunction(f) - SumFunction(m)

WriterType ==
  /\ stored \in Indexes /\ old \in Indexes /\ copy \in Indexes
  /\ pc \in [Shards -> {"idle", "cut", "publish", "account"}]
  /\ batch \in [Shards -> SUBSET Keys]
  /\ delta \in [Shards -> Int]
  /\ keyCount \in [Shards -> Int] /\ usedBytes \in [Shards -> Int]
  /\ lost \in [Shards -> Nat]
WalkType ==
  /\ walk \in {"none", "Count", "Usage", "Keys"}
  /\ todo \subseteq Shards
  /\ total \in Int
  /\ listed \in [Keys -> Nat]
  /\ low \in [Keys -> Nat] /\ high \in [Keys -> Nat]

WriteInv == WriterType /\ ShardInv
WalkInv == WalkType /\ HistoryInv /\ ResultInv
IInv == WriteInv /\ WalkInv

-----------------------------------------------------------------------------
\* getShard stays inside the shard array.
LEMMA ShardOfKey == \A key \in Keys : getShard(key) \in Shards
BY ShardAssumption DEF getShard, Shards

LEMMA FiniteShards == IsFiniteSet(Shards)
BY ShardAssumption, FS_Interval DEF Shards

LEMMA SizeTypes ==
  ASSUME NEW idx \in Indexes
  PROVE  /\ \A key \in Keys : idx[key] \in Int /\ (idx[key] # Absent => idx[key] \in Nat)
         /\ \A key \in Keys : Bytes(idx[key]) \in Nat /\ Weight(idx[key]) \in Nat
         /\ \A s : Ones(s, idx) \in [Keys -> Nat] /\ SizesAt(s, idx) \in [Keys -> Nat]
         /\ \A s : Ones(s, idx) \in [Keys -> Int] /\ SizesAt(s, idx) \in [Keys -> Int]
<1>1. \A key \in Keys : idx[key] \in Int /\ (idx[key] # Absent => idx[key] \in Nat)
  <2>1. ASSUME NEW key \in Keys PROVE idx[key] \in Int /\ (idx[key] # Absent => idx[key] \in Nat)
    <3>1. idx[key] \in Sizes \/ idx[key] = Absent
      BY DEF Indexes
    <3>2. \A n \in Sizes : n \in Nat
      BY PairAssumption
    <3>3. Absent \in Int
      BY DEF Absent
    <3> QED  BY <3>1, <3>2, <3>3
  <2> QED  BY <2>1
<1>2. \A key \in Keys : Bytes(idx[key]) \in Nat /\ Weight(idx[key]) \in Nat
  BY <1>1 DEF Bytes, Weight
<1>3. \A s : Ones(s, idx) \in [Keys -> Nat] /\ SizesAt(s, idx) \in [Keys -> Nat]
  BY <1>2 DEF Ones, SizesAt
<1>4. \A s : Ones(s, idx) \in [Keys -> Int] /\ SizesAt(s, idx) \in [Keys -> Int]
  BY <1>2 DEF Ones, SizesAt
<1> QED  BY <1>1, <1>2, <1>3, <1>4

LEMMA CountTypes ==
  ASSUME NEW idx \in Indexes, NEW s
  PROVE  KeysIn(s, idx) \in Int /\ BytesIn(s, idx) \in Int /\ KeysIn(s, idx) = SumFunction(Ones(s, idx))
<1>1. KeysIn(s, idx) = SumFunction(Ones(s, idx))
  BY DEF KeysIn, Ones
<1>2. Ones(s, idx) \in [Keys -> Int] /\ SizesAt(s, idx) \in [Keys -> Int]
  BY SizeTypes
<1> QED  BY <1>1, <1>2, SumType, ShardAssumption DEF BytesIn

\* Only the keys of a shard matter to its counts.
LEMMA CountsSame ==
  ASSUME NEW s, NEW a \in Indexes, NEW b \in Indexes,
         \A key \in Keys : getShard(key) = s => a[key] = b[key]
  PROVE  KeysIn(s, a) = KeysIn(s, b) /\ BytesIn(s, a) = BytesIn(s, b)
<1>1. Ones(s, a) = Ones(s, b)
  BY DEF Ones
<1>2. SizesAt(s, a) = SizesAt(s, b)
  BY DEF SizesAt
<1>3. KeysIn(s, a) = SumFunction(Ones(s, a)) /\ KeysIn(s, b) = SumFunction(Ones(s, b))
  BY CountTypes
<1> QED  BY <1>1, <1>2, <1>3 DEF BytesIn

\* One pair of a shard changes.
LEMMA CountsChange ==
  ASSUME NEW key \in Keys, NEW a \in Indexes, NEW b \in Indexes,
         \A k \in Keys : k # key => b[k] = a[k]
  PROVE  LET s == getShard(key)
         IN /\ KeysIn(s, b) = KeysIn(s, a) + ((IF b[key] = Absent THEN 0 ELSE 1)
                                              - (IF a[key] = Absent THEN 0 ELSE 1))
            /\ BytesIn(s, b) = BytesIn(s, a) + (Bytes(b[key]) - Bytes(a[key]))
            /\ \A t : t # s => KeysIn(t, b) = KeysIn(t, a) /\ BytesIn(t, b) = BytesIn(t, a)
<1> DEFINE s == getShard(key)
<1>1. /\ Ones(s, a) \in [Keys -> Int] /\ Ones(s, b) \in [Keys -> Int]
      /\ SizesAt(s, a) \in [Keys -> Int] /\ SizesAt(s, b) \in [Keys -> Int]
  BY SizeTypes
<1>2. SumFunction(Ones(s, b)) = SumFunction(Ones(s, a)) + (Ones(s, b)[key] - Ones(s, a)[key])
  <2>1. \A k \in Keys : k # key => Ones(s, b)[k] = Ones(s, a)[k]
    BY DEF Ones
  <2> QED  BY <1>1, <2>1, SumUpdate, ShardAssumption
<1>3. BytesIn(s, b) = BytesIn(s, a) + (SizesAt(s, b)[key] - SizesAt(s, a)[key])
  <2>1. \A k \in Keys : k # key => SizesAt(s, b)[k] = SizesAt(s, a)[k]
    BY DEF SizesAt
  <2> QED  BY <1>1, <2>1, SumUpdate, ShardAssumption DEF BytesIn
<1>4. /\ Ones(s, b)[key] = IF b[key] = Absent THEN 0 ELSE 1
      /\ Ones(s, a)[key] = IF a[key] = Absent THEN 0 ELSE 1
      /\ SizesAt(s, b)[key] = Bytes(b[key]) /\ SizesAt(s, a)[key] = Bytes(a[key])
  BY DEF Ones, SizesAt
<1>5. KeysIn(s, a) = SumFunction(Ones(s, a)) /\ KeysIn(s, b) = SumFunction(Ones(s, b))
  BY CountTypes
<1>6. ASSUME NEW t, t # s PROVE KeysIn(t, b) = KeysIn(t, a) /\ BytesIn(t, b) = BytesIn(t, a)
  <2>1. \A k \in Keys : getShard(k) = t => b[k] = a[k]
    BY <1>6
  <2> QED  BY <2>1, CountsSame
<1> HIDE DEF s
<1>7. /\ KeysIn(s, b) = KeysIn(s, a) + ((IF b[key] = Absent THEN 0 ELSE 1)
                                        - (IF a[key] = Absent THEN 0 ELSE 1))
      /\ BytesIn(s, b) = BytesIn(s, a) + (Bytes(b[key]) - Bytes(a[key]))
  BY <1>2, <1>3, <1>4, <1>5
<1> QED  BY <1>6, <1>7 DEF s

\* Taking keys away lowers the count.
LEMMA CountsFall ==
  ASSUME NEW s, NEW a \in Indexes, NEW b \in Indexes,
         \A key \in Keys : getShard(key) = s => b[key] \in {a[key], Absent}
  PROVE  KeysIn(s, a) - KeysIn(s, b) \in Nat
<1>1. \A key \in Keys : Ones(s, b)[key] <= Ones(s, a)[key]
  BY DEF Ones
<1>2. Ones(s, a) \in [Keys -> Int] /\ Ones(s, b) \in [Keys -> Int]
  BY SizeTypes
<1>3. SumFunction(Ones(s, b)) <= SumFunction(Ones(s, a))
  BY <1>1, <1>2, SumMono, ShardAssumption
<1> QED  BY <1>3, CountTypes

-----------------------------------------------------------------------------
\* Least and Most are numbers.
LEMMA LeastMost ==
  ASSUME WriterType
  PROVE  \A key \in Keys :
           /\ Least(key) \in Nat /\ Most(key) \in Nat
           /\ walk = "Keys" => Least(key) = Weight(stored[key]) /\ Most(key) = Weight(stored[key])
           /\ walk # "Keys" => /\ Least(key) <= Weight(old[key]) /\ Least(key) <= Weight(copy[key])
                               /\ Weight(old[key]) <= Most(key) /\ Weight(copy[key]) <= Most(key)
<1> SUFFICES ASSUME NEW key \in Keys
             PROVE  /\ Least(key) \in Nat /\ Most(key) \in Nat
                    /\ walk = "Keys" => Least(key) = Weight(stored[key]) /\ Most(key) = Weight(stored[key])
                    /\ walk # "Keys" => /\ Least(key) <= Weight(old[key]) /\ Least(key) <= Weight(copy[key])
                                        /\ Weight(old[key]) <= Most(key) /\ Weight(copy[key]) <= Most(key)
  OBVIOUS
<1>1. Weight(stored[key]) \in Nat /\ Weight(old[key]) \in Nat /\ Weight(copy[key]) \in Nat
  BY SizeTypes DEF WriterType
<1> QED  BY <1>1 DEF Least, Most, Lesser, Greater

WeightsAreNat == \A key \in Keys : Least(key) \in Nat /\ Most(key) \in Nat
LEMMA NatWeights == WriterType => WeightsAreNat
BY LeastMost DEF WeightsAreNat

\* A walk in progress widens its histories with every step of a writer.
LEMMA ObserveKeeps ==
  ASSUME WalkInv, WriterType, WriterType', Observe, \A s \in Shards : lost[s] <= lost'[s]
  PROVE  WalkInv'
<1> USE DEF WalkInv
<1>1. CASE todo = {}
  <2>1. walk' = "none" /\ todo' = {} /\ total' = 0
    BY <1>1 DEF Observe
  <2>2. listed' \in [Keys -> Nat] /\ low' \in [Keys -> Nat] /\ high' \in [Keys -> Nat]
    BY <1>1 DEF Observe
  <2> QED  BY <2>1, <2>2 DEF WalkType, HistoryInv, ResultInv
<1>2. CASE todo # {}
  <2>1. /\ walk' = walk /\ todo' = todo /\ total' = total /\ listed' = listed
        /\ low' = [key \in Keys |-> Lesser(low[key], Least(key)')]
        /\ high' = [key \in Keys |-> Greater(high[key], Most(key)')]
    BY <1>2 DEF Observe, walkVars
  <2>2. \A key \in Keys : Least(key)' \in Nat /\ Most(key)' \in Nat
    <3>1. WriterType'
      OBVIOUS
    <3>2. WeightsAreNat'
      BY <3>1, NatWeights, PTL
    <3> QED  BY <3>2 DEF WeightsAreNat
  <2>3. ASSUME NEW key \in Keys
        PROVE  /\ low'[key] \in Nat /\ high'[key] \in Nat
               /\ low'[key] <= low[key] /\ high[key] <= high'[key]
               /\ low'[key] <= Least(key)' /\ Most(key)' <= high'[key]
    <3>1. low[key] \in Nat /\ high[key] \in Nat /\ Least(key)' \in Nat /\ Most(key)' \in Nat
      BY <2>2 DEF WalkType
    <3>2. low'[key] = Lesser(low[key], Least(key)') /\ high'[key] = Greater(high[key], Most(key)')
      BY <2>1
    <3> QED  BY <3>1, <3>2 DEF Lesser, Greater
  <2>4. WalkType'
    BY <2>1, <2>3 DEF WalkType
  <2>5. HistoryInv'
    BY <2>3 DEF HistoryInv
  <2>6. ASSUME NEW f \in [Keys -> Nat], Within(f) PROVE Within(f)'
    <3>1. ASSUME NEW key \in Keys
          PROVE  IF getShard(key) \in todo THEN f[key] = 0 ELSE low'[key] <= f[key] /\ f[key] <= high'[key]
      BY <2>3, <2>6 DEF Within, WalkType
    <3> QED  BY <2>1, <3>1 DEF Within, getShard
  <2>7. ASSUME NEW m \in [Shards -> Nat], Missed(m) PROVE Missed(m)'
    <3>1. ASSUME NEW s \in Shards PROVE IF s \in todo THEN m[s] = 0 ELSE m[s] <= lost'[s]
      <4>1. m[s] \in Nat /\ lost[s] \in Nat /\ lost'[s] \in Nat /\ lost[s] <= lost'[s]
        BY DEF WriterType
      <4> QED  BY <2>7, <4>1 DEF Missed
    <3> QED  BY <2>1, <3>1 DEF Missed
  <2>8. ResultInv'
    <3>1. walk' = "Keys" => Within(listed)'
      <4> SUFFICES ASSUME walk = "Keys" PROVE Within(listed)'
        BY <2>1
      <4>1. listed \in [Keys -> Nat] /\ Within(listed)
        BY DEF WalkType, ResultInv
      <4>2. ASSUME NEW key \in Keys
            PROVE  IF getShard(key) \in todo THEN listed[key] = 0
                   ELSE low'[key] <= listed[key] /\ listed[key] <= high'[key]
        BY <2>3, <4>1 DEF Within, WalkType
      <4> QED  BY <2>1, <4>2 DEF Within, getShard
    <3>2. walk' = "Usage" => \E f \in [Keys -> Nat] : Within(f)' /\ total' = SumFunction(f)
      BY <2>1, <2>6 DEF ResultInv
    <3>3. walk' = "Count" => \E f \in [Keys -> Nat], m \in [Shards -> Nat] :
                               Within(f)' /\ Missed(m)' /\ total' = SumFunction(f) - SumFunction(m)
      BY <2>1, <2>6, <2>7 DEF ResultInv
    <3>4. walk' = "none" => todo' = {}
      BY <2>1 DEF ResultInv
    <3> QED  BY <3>1, <3>2, <3>3, <3>4 DEF ResultInv
  <2> QED  BY <2>4, <2>5, <2>8
<1> QED  BY <1>1, <1>2

-----------------------------------------------------------------------------
\* The step of one shard's writer leaves the others alone.
Others(s) ==
  /\ \A t \in Shards \ {s} :
       /\ pc'[t] = pc[t] /\ batch'[t] = batch[t] /\ delta'[t] = delta[t]
       /\ keyCount'[t] = keyCount[t] /\ usedBytes'[t] = usedBytes[t] /\ lost'[t] = lost[t]
  /\ \A key \in Keys :
       getShard(key) # s => /\ stored'[key] = stored[key] /\ old'[key] = old[key]
                            /\ copy'[key] = copy[key]

LEMMA WriterStepKeeps ==
  ASSUME IInv, NEW s \in Shards, WriterType', Others(s), Observe, lost[s] <= lost'[s],
         WriterAt(s)', CountersAt(s)'
  PROVE  IInv'
<1> USE DEF IInv, WriteInv
<1>1. ASSUME NEW t \in Shards, t # s PROVE WriterAt(t)' /\ CountersAt(t)'
  <2>1. WriterAt(t) /\ CountersAt(t)
    BY DEF ShardInv
  <2>2. /\ pc'[t] = pc[t] /\ batch'[t] = batch[t] /\ delta'[t] = delta[t]
        /\ keyCount'[t] = keyCount[t] /\ usedBytes'[t] = usedBytes[t] /\ lost'[t] = lost[t]
        /\ \A key \in Keys : getShard(key) = t => /\ stored'[key] = stored[key] /\ old'[key] = old[key]
                                                  /\ copy'[key] = copy[key]
    BY <1>1 DEF Others
  <2>3. KeysIn(t, copy') = KeysIn(t, copy) /\ BytesIn(t, copy') = BytesIn(t, copy)
    BY <2>2, CountsSame DEF WriterType
  <2>4. BytesIn(t, old') = BytesIn(t, old)
    BY <2>2, CountsSame DEF WriterType
  <2>5. WriterAt(t)'
    BY <2>1, <2>2, <2>3, <2>4 DEF WriterAt, getShard
  <2>6. CountersAt(t)'
    BY <2>1, <2>2, <2>3, <2>4 DEF CountersAt
  <2> QED  BY <2>5, <2>6
<1>2. ShardInv'
  <2>1. \A t \in Shards : WriterAt(t)' /\ CountersAt(t)'
    BY <1>1
  <2> QED  BY <2>1 DEF ShardInv
<1>3. \A t \in Shards : lost[t] <= lost'[t]
  <2>1. ASSUME NEW t \in Shards PROVE lost[t] <= lost'[t]
    <3>1. lost[t] \in Nat /\ (t # s => lost'[t] = lost[t])
      BY DEF WriterType, Others
    <3> QED  BY <3>1
  <2> QED  BY <2>1
<1>4. WalkInv'
  BY <1>3, ObserveKeeps
<1> QED  BY <1>2, <1>4

LEMMA SetKeeps == ASSUME IInv, NEW key \in Keys, NEW size \in Sizes, Set(key, size) PROVE IInv'
<1> DEFINE s == getShard(key)
<1> USE DEF IInv, WriteInv
<1>1. s \in Shards /\ size \in Nat /\ size \in Sizes /\ size # Absent
  BY ShardOfKey, PairAssumption DEF Absent
<1>2. /\ pc[s] = "idle" /\ pc' = [pc EXCEPT ![s] = "publish"]
      /\ copy' = [copy EXCEPT ![key] = size]
      /\ keyCount' = [keyCount EXCEPT ![s] = IF stored[key] = Absent THEN @ + 1 ELSE @]
      /\ delta' = [delta EXCEPT ![s] = size - Bytes(stored[key])]
      /\ stored' = stored /\ old' = old /\ batch' = batch /\ usedBytes' = usedBytes /\ lost' = lost
      /\ Observe
  BY DEF Set
<1>3. copy' \in Indexes /\ copy'[key] = size /\ \A k \in Keys : k # key => copy'[k] = copy[k]
  BY <1>1, <1>2 DEF WriterType, Indexes
<1>4. WriterAt(s) /\ CountersAt(s)
  BY <1>1 DEF ShardInv
<1>5. \A k \in Keys : getShard(k) = s => stored[k] = old[k] /\ copy[k] = old[k]
  BY <1>2, <1>4 DEF WriterAt
<1>6. Bytes(stored[key]) \in Nat /\ Bytes(size) = size
  BY <1>1, SizeTypes DEF WriterType, Bytes
<1>7. WriterType'
  BY <1>1, <1>2, <1>3, <1>6 DEF WriterType
<1>8. /\ KeysIn(s, copy') = KeysIn(s, copy) + ((IF copy'[key] = Absent THEN 0 ELSE 1)
                                               - (IF copy[key] = Absent THEN 0 ELSE 1))
      /\ BytesIn(s, copy') = BytesIn(s, copy) + (Bytes(copy'[key]) - Bytes(copy[key]))
  BY <1>3, CountsChange DEF WriterType
<1>9. KeysIn(s, copy) \in Int /\ BytesIn(s, copy) \in Int /\ lost[s] \in Nat
  BY <1>1, CountTypes DEF WriterType
<1>10. BytesIn(s, copy) = BytesIn(s, old)
  BY <1>5, CountsSame DEF WriterType
<1>11. Others(s)
  BY <1>2, <1>3 DEF Others, WriterType
<1>12. /\ pc'[s] = "publish" /\ delta'[s] = size - Bytes(stored[key])
       /\ keyCount'[s] = IF stored[key] = Absent THEN keyCount[s] + 1 ELSE keyCount[s]
  BY <1>1, <1>2 DEF WriterType
<1>13. copy[key] = stored[key]
  BY <1>5
<1> HIDE DEF s
<1>14. keyCount'[s] = KeysIn(s, copy') - lost[s]
  BY <1>1, <1>3, <1>4, <1>8, <1>9, <1>12, <1>13 DEF CountersAt
<1>15. delta'[s] = BytesIn(s, copy') - BytesIn(s, old)
  BY <1>1, <1>3, <1>6, <1>8, <1>9, <1>10, <1>12, <1>13
<1>16. CountersAt(s)'
  BY <1>2, <1>4, <1>14 DEF CountersAt
<1>17. WriterAt(s)'
  BY <1>2, <1>4, <1>5, <1>12, <1>15 DEF WriterAt, getShard
<1> QED  BY <1>1, <1>2, <1>7, <1>9, <1>11, <1>16, <1>17, WriterStepKeeps

LEMMA LockBatchKeeps ==
  ASSUME IInv, NEW s \in Shards, NEW keys \in SUBSET Keys, \A key \in keys : getShard(key) = s,
         LockBatch(s, keys)
  PROVE  IInv'
<1> USE DEF IInv, WriteInv
<1>1. /\ pc[s] = "idle" /\ pc' = [pc EXCEPT ![s] = "cut"] /\ batch' = [batch EXCEPT ![s] = keys]
      /\ stored' = stored /\ old' = old /\ copy' = copy /\ delta' = delta
      /\ keyCount' = keyCount /\ usedBytes' = usedBytes /\ lost' = lost /\ Observe
  BY DEF LockBatch, indexVars
<1>2. WriterType' /\ Others(s)
  BY <1>1 DEF WriterType, Others
<1>3. WriterAt(s) /\ CountersAt(s)
  BY DEF ShardInv
<1>4. pc'[s] = "cut" /\ batch'[s] = keys /\ lost[s] \in Nat
  BY <1>1 DEF WriterType
<1>5. WriterAt(s)'
  BY <1>1, <1>3, <1>4 DEF WriterAt, getShard
<1>6. CountersAt(s)'
  BY <1>1, <1>3 DEF CountersAt
<1> QED  BY <1>1, <1>2, <1>4, <1>5, <1>6, WriterStepKeeps

LEMMA CutKeyKeeps == ASSUME IInv, NEW s \in Shards, NEW key \in batch[s], CutKey(s, key) PROVE IInv'
<1> USE DEF IInv, WriteInv
<1>1. /\ pc[s] = "cut" /\ batch' = [batch EXCEPT ![s] = @ \ {key}]
      /\ copy' = [copy EXCEPT ![key] = Absent]
      /\ delta' = [delta EXCEPT ![s] = @ - Bytes(copy[key])]
      /\ keyCount' = [keyCount EXCEPT ![s] = IF copy[key] = Absent THEN @ ELSE @ - 1]
      /\ stored' = stored /\ old' = old /\ pc' = pc /\ usedBytes' = usedBytes /\ lost' = lost
      /\ Observe
  BY DEF CutKey
<1>2. WriterAt(s) /\ CountersAt(s)
  BY DEF ShardInv
<1>3. key \in Keys /\ getShard(key) = s
  BY <1>2 DEF WriterType, WriterAt
<1>4. copy' \in Indexes /\ copy'[key] = Absent /\ \A k \in Keys : k # key => copy'[k] = copy[k]
  BY <1>1, <1>3 DEF WriterType, Indexes
<1>5. Bytes(copy[key]) \in Nat /\ Bytes(Absent) = 0 /\ (copy[key] = Absent => Bytes(copy[key]) = 0)
  BY <1>3, SizeTypes DEF WriterType, Bytes
<1>6. WriterType'
  BY <1>1, <1>4, <1>5 DEF WriterType
<1>7. /\ KeysIn(s, copy') = KeysIn(s, copy) + ((IF copy'[key] = Absent THEN 0 ELSE 1)
                                               - (IF copy[key] = Absent THEN 0 ELSE 1))
      /\ BytesIn(s, copy') = BytesIn(s, copy) + (Bytes(copy'[key]) - Bytes(copy[key]))
  BY <1>3, <1>4, CountsChange DEF WriterType
<1>8. KeysIn(s, copy) \in Int /\ BytesIn(s, copy) \in Int /\ BytesIn(s, old) \in Int /\ lost[s] \in Nat
  BY CountTypes DEF WriterType
<1>9. Others(s)
  BY <1>1, <1>3, <1>4 DEF Others, WriterType
<1>10. /\ batch'[s] = batch[s] \ {key} /\ delta'[s] = delta[s] - Bytes(copy[key])
       /\ keyCount'[s] = IF copy[key] = Absent THEN keyCount[s] ELSE keyCount[s] - 1
  BY <1>1 DEF WriterType
<1>11. keyCount'[s] = KeysIn(s, copy') - lost[s]
  BY <1>2, <1>4, <1>7, <1>8, <1>10 DEF CountersAt
<1>12. delta'[s] = BytesIn(s, copy') - BytesIn(s, old)
  BY <1>2, <1>4, <1>5, <1>7, <1>8, <1>10 DEF WriterAt
<1>13. CountersAt(s)'
  BY <1>1, <1>2, <1>11 DEF CountersAt
<1>14. WriterAt(s)'
  BY <1>1, <1>2, <1>4, <1>10, <1>12 DEF WriterAt, getShard
<1> QED  BY <1>1, <1>6, <1>8, <1>9, <1>13, <1>14, WriterStepKeeps

\* A writer that publishes nothing leaves its shard as it was, but for the count.
LEMMA AbandonKeeps ==
  ASSUME IInv, NEW s \in Shards, NEW idx \in Indexes, pc[s] = "cut", Abandon(s, idx), Observe,
         \A key \in Keys : getShard(key) = s => idx[key] \in {stored[key], Absent},
         keyCount' \in [Shards -> Int], \A t \in Shards \ {s} : keyCount'[t] = keyCount[t],
         keyCount'[s] = KeysIn(s, idx) - lost[s]
  PROVE  IInv'
<1> USE DEF IInv, WriteInv
<1>1. /\ pc' = [pc EXCEPT ![s] = "idle"] /\ batch' = [batch EXCEPT ![s] = {}]
      /\ delta' = [delta EXCEPT ![s] = 0] /\ copy' = InShard(s, stored, copy)
      /\ lost' = [lost EXCEPT ![s] = @ + KeysIn(s, stored) - KeysIn(s, idx)]
      /\ stored' = stored /\ old' = old /\ usedBytes' = usedBytes
  BY DEF Abandon
<1>2. WriterAt(s) /\ CountersAt(s)
  BY DEF ShardInv
<1>3. \A key \in Keys : getShard(key) = s => stored[key] = old[key]
  BY <1>2 DEF WriterAt
<1>4. copy' \in Indexes /\ \A key \in Keys : copy'[key] = IF getShard(key) = s THEN stored[key] ELSE copy[key]
  BY <1>1 DEF InShard, WriterType, Indexes
<1>5. /\ KeysIn(s, copy') = KeysIn(s, stored) /\ BytesIn(s, copy') = BytesIn(s, stored)
  BY <1>4, CountsSame DEF WriterType
<1>6. BytesIn(s, stored) = BytesIn(s, old)
  BY <1>3, CountsSame DEF WriterType
<1>7. KeysIn(s, stored) - KeysIn(s, idx) \in Nat
  BY CountsFall DEF WriterType
<1>8. KeysIn(s, stored) \in Int /\ KeysIn(s, idx) \in Int /\ BytesIn(s, old) \in Int /\ lost[s] \in Nat
  BY CountTypes DEF WriterType
<1>9. lost'[s] = lost[s] + KeysIn(s, stored) - KeysIn(s, idx) /\ lost'[s] \in Nat /\ lost[s] <= lost'[s]
  <2>1. lost'[s] = lost[s] + KeysIn(s, stored) - KeysIn(s, idx)
    BY <1>1 DEF WriterType
  <2> QED  BY <1>7, <1>8, <2>1
<1>10. \A t \in Shards \ {s} : lost'[t] = lost[t] /\ lost[t] \in Nat
  BY <1>1 DEF WriterType
<1>11. lost' \in [Shards -> Nat]
  <2>1. lost' = [t \in Shards |-> lost'[t]]
    BY <1>1 DEF WriterType
  <2> QED  BY <1>9, <1>10, <2>1
<1>12. WriterType'
  BY <1>1, <1>4, <1>11 DEF WriterType
<1>13. Others(s)
  BY <1>1, <1>4, <1>10 DEF Others, WriterType
<1>14. pc'[s] = "idle" /\ batch'[s] = {} /\ delta'[s] = 0
  BY <1>1 DEF WriterType
<1>15. delta'[s] = BytesIn(s, copy') - BytesIn(s, old)
  BY <1>5, <1>6, <1>8, <1>14
<1>16. WriterAt(s)'
  BY <1>1, <1>3, <1>4, <1>14, <1>15 DEF WriterAt, getShard
<1>17. keyCount'[s] = KeysIn(s, copy') - lost'[s]
  BY <1>5, <1>8, <1>9
<1>18. CountersAt(s)'
  BY <1>1, <1>2, <1>17 DEF CountersAt
<1> QED  BY <1>9, <1>12, <1>13, <1>16, <1>18, WriterStepKeeps

LEMMA CancelPanicsKeeps ==
  ASSUME IInv, NEW s \in Shards, NEW key \in batch[s], CancelPanics(s, key)
  PROVE  IInv'
<1> DEFINE idx == [copy EXCEPT ![key] = Absent]
<1>1. /\ pc[s] = "cut" /\ copy[key] # Absent /\ keyCount' = [keyCount EXCEPT ![s] = @ - 1]
      /\ Abandon(s, idx) /\ Observe
  BY DEF CancelPanics
<1>2. WriterType /\ WriterAt(s) /\ CountersAt(s)
  BY DEF IInv, WriteInv, ShardInv
<1>3. key \in Keys /\ getShard(key) = s
  BY <1>2 DEF WriterType, WriterAt
<1>4. idx \in Indexes /\ idx[key] = Absent /\ \A k \in Keys : k # key => idx[k] = copy[k]
  BY <1>2, <1>3 DEF WriterType, Indexes
<1> HIDE DEF idx
<1>5. KeysIn(s, idx) = KeysIn(s, copy) + ((IF idx[key] = Absent THEN 0 ELSE 1)
                                          - (IF copy[key] = Absent THEN 0 ELSE 1))
  BY <1>2, <1>3, <1>4, CountsChange DEF WriterType
<1>6. KeysIn(s, copy) \in Int /\ lost[s] \in Nat
  BY <1>2, CountTypes DEF WriterType
<1>7. \A k \in Keys : getShard(k) = s => idx[k] \in {stored[k], Absent}
  BY <1>1, <1>2, <1>4 DEF WriterAt
<1>8. /\ keyCount' \in [Shards -> Int] /\ keyCount'[s] = keyCount[s] - 1
      /\ \A t \in Shards \ {s} : keyCount'[t] = keyCount[t]
  BY <1>1, <1>2 DEF WriterType
<1>9. keyCount'[s] = KeysIn(s, idx) - lost[s]
  BY <1>1, <1>2, <1>4, <1>5, <1>6, <1>8 DEF CountersAt
<1> QED  BY <1>1, <1>4, <1>7, <1>8, <1>9, AbandonKeeps

LEMMA PublishNothingKeeps == ASSUME IInv, NEW s \in Shards, PublishNothing(s) PROVE IInv'
<1>1. pc[s] = "cut" /\ Abandon(s, copy) /\ keyCount' = keyCount /\ Observe
  BY DEF PublishNothing, CutDone
<1>2. WriterType /\ WriterAt(s) /\ CountersAt(s)
  BY DEF IInv, WriteInv, ShardInv
<1>3. \A k \in Keys : getShard(k) = s => copy[k] \in {stored[k], Absent}
  BY <1>1, <1>2 DEF WriterAt
<1>4. keyCount' \in [Shards -> Int] /\ copy \in Indexes /\ keyCount'[s] = KeysIn(s, copy) - lost[s]
  BY <1>1, <1>2 DEF WriterType, CountersAt
<1> QED  BY <1>1, <1>3, <1>4, AbandonKeeps

LEMMA PublishKeeps == ASSUME IInv, NEW s \in Shards, Publish(s) PROVE IInv'
<1> USE DEF IInv, WriteInv
<1>1. /\ pc[s] \in {"publish", "cut"} /\ pc' = [pc EXCEPT ![s] = "account"]
      /\ stored' = InShard(s, copy, stored)
      /\ old' = old /\ copy' = copy /\ batch' = batch /\ delta' = delta /\ keyCount' = keyCount
      /\ usedBytes' = usedBytes /\ lost' = lost /\ Observe
  BY DEF Publish, CutDone
<1>2. stored' \in Indexes /\ \A key \in Keys : stored'[key] = IF getShard(key) = s THEN copy[key] ELSE stored[key]
  BY <1>1 DEF InShard, WriterType, Indexes
<1>3. WriterType' /\ Others(s) /\ lost[s] \in Nat
  BY <1>1, <1>2 DEF WriterType, Others
<1>4. WriterAt(s) /\ CountersAt(s) /\ pc'[s] = "account"
  BY <1>1 DEF ShardInv, WriterType
<1>5. WriterAt(s)'
  BY <1>1, <1>2, <1>4 DEF WriterAt, getShard
<1>6. CountersAt(s)'
  BY <1>1, <1>4 DEF CountersAt
<1> QED  BY <1>1, <1>3, <1>5, <1>6, WriterStepKeeps

LEMMA AccountKeeps == ASSUME IInv, NEW s \in Shards, Account(s) PROVE IInv'
<1> USE DEF IInv, WriteInv
<1>1. /\ pc[s] = "account" /\ pc' = [pc EXCEPT ![s] = "idle"]
      /\ usedBytes' = [usedBytes EXCEPT ![s] = @ + delta[s]]
      /\ delta' = [delta EXCEPT ![s] = 0] /\ old' = InShard(s, stored, old)
      /\ stored' = stored /\ copy' = copy /\ batch' = batch /\ keyCount' = keyCount
      /\ lost' = lost /\ Observe
  BY DEF Account
<1>2. old' \in Indexes /\ \A key \in Keys : old'[key] = IF getShard(key) = s THEN stored[key] ELSE old[key]
  BY <1>1 DEF InShard, WriterType, Indexes
<1>3. WriterType' /\ Others(s) /\ lost[s] \in Nat
  BY <1>1, <1>2 DEF WriterType, Others
<1>4. WriterAt(s) /\ CountersAt(s) /\ pc'[s] = "idle" /\ delta'[s] = 0 /\ usedBytes'[s] = usedBytes[s] + delta[s]
  BY <1>1 DEF ShardInv, WriterType
<1>5. BytesIn(s, old') = BytesIn(s, copy)
  <2>1. \A key \in Keys : getShard(key) = s => old'[key] = copy[key]
    BY <1>1, <1>2, <1>4 DEF WriterAt
  <2> QED  BY <1>2, <2>1, CountsSame DEF WriterType
<1>6. BytesIn(s, copy) \in Int /\ BytesIn(s, old) \in Int
  BY CountTypes DEF WriterType
<1>7. usedBytes'[s] = BytesIn(s, old') /\ delta'[s] = BytesIn(s, copy) - BytesIn(s, old')
  BY <1>4, <1>5, <1>6 DEF WriterAt, CountersAt
<1>8. WriterAt(s)'
  BY <1>1, <1>2, <1>4, <1>7 DEF WriterAt, getShard
<1>9. CountersAt(s)'
  BY <1>1, <1>4, <1>7 DEF CountersAt
<1> QED  BY <1>1, <1>3, <1>8, <1>9, WriterStepKeeps

-----------------------------------------------------------------------------
LEMMA WritersStay == ASSUME WriteInv, UNCHANGED writerVars PROVE WriteInv'
<1>1. /\ stored' = stored /\ old' = old /\ copy' = copy /\ pc' = pc /\ batch' = batch /\ delta' = delta
      /\ keyCount' = keyCount /\ usedBytes' = usedBytes /\ lost' = lost
  BY DEF writerVars, indexVars
<1>2. WriterType'
  BY <1>1 DEF WriteInv, WriterType
<1>3. \A s \in Shards : WriterAt(s)' /\ CountersAt(s)'
  BY <1>1 DEF WriteInv, ShardInv, WriterAt, CountersAt, getShard
<1> QED  BY <1>2, <1>3 DEF WriteInv, ShardInv

\* A walk begins with what the keys weigh now and has read nothing.
LEMMA BeginKeeps == ASSUME IInv, NEW kind \in {"Count", "Usage", "Keys"}, Begin(kind) PROVE IInv'
<1>1. /\ walk' = kind /\ todo' = Shards /\ total' = 0 /\ listed' = [key \in Keys |-> 0]
      /\ UNCHANGED writerVars
      /\ low' = [key \in Keys |-> Least(key)'] /\ high' = [key \in Keys |-> Most(key)']
  BY DEF Begin
<1>2. WriteInv'
  BY <1>1, WritersStay DEF IInv
<1>3. WriterType'
  BY <1>2 DEF WriteInv
<1>4. WeightsAreNat'
  BY <1>3, NatWeights, PTL
<1>5. \A key \in Keys : Least(key)' \in Nat /\ Most(key)' \in Nat
  BY <1>4 DEF WeightsAreNat
<1>6. WalkType'
  BY <1>1, <1>5 DEF WalkType
<1>7. HistoryInv'
  <2>1. \A key \in Keys : low'[key] = Least(key)' /\ high'[key] = Most(key)'
    BY <1>1
  <2>2. \A key \in Keys : low'[key] <= Least(key)' /\ Most(key)' <= high'[key]
    BY <1>5, <2>1
  <2> QED  BY <2>2 DEF HistoryInv
<1> DEFINE f == [key \in Keys |-> 0]
           m == [s \in Shards |-> 0]
<1>8. f \in [Keys -> Nat] /\ m \in [Shards -> Nat] /\ f \in [Keys -> Int] /\ m \in [Shards -> Int]
  OBVIOUS
<1>9. SumFunction(f) = 0 /\ SumFunction(m) = 0
  <2>1. (\A key \in Keys : f[key] = 0) /\ (\A s \in Shards : m[s] = 0)
    OBVIOUS
  <2> HIDE DEF f, m
  <2> QED  BY <1>8, <2>1, SumZero, FiniteShards, ShardAssumption
<1>10. Within(f)' /\ Within(listed)' /\ Missed(m)'
  BY <1>1, ShardOfKey DEF Within, Missed, getShard
<1> HIDE DEF f, m
<1>11. ResultInv'
  <2>1. total' = SumFunction(f) /\ total' = SumFunction(f) - SumFunction(m)
    BY <1>1, <1>9
  <2> QED  BY <1>1, <1>8, <1>10, <2>1 DEF ResultInv
<1> QED  BY <1>2, <1>6, <1>7, <1>11 DEF IInv, WalkInv

\* What reading a shard leaves alone.
Reads(s) == s \in todo /\ todo' = todo \ {s} /\ UNCHANGED <<writerVars, walk, low, high>>

LEMMA ReadStays ==
  ASSUME IInv, NEW s, Reads(s), total' \in Int, listed' \in [Keys -> Nat]
  PROVE  WriteInv' /\ WalkType' /\ HistoryInv'
<1>1. UNCHANGED writerVars /\ walk' = walk /\ low' = low /\ high' = high /\ todo' = todo \ {s} /\ s \in todo
  BY DEF Reads
<1>2. WriteInv'
  BY <1>1, WritersStay DEF IInv
<1>3. WalkType'
  BY <1>1 DEF IInv, WalkInv, WalkType
<1>4. stored' = stored /\ old' = old /\ copy' = copy
  BY <1>1 DEF writerVars, indexVars
<1>5. \A key \in Keys : Least(key)' = Least(key) /\ Most(key)' = Most(key)
  BY <1>1, <1>4 DEF Least, Most, Lesser, Greater, Weight, Bytes
<1>6. HistoryInv'
  BY <1>1, <1>5 DEF IInv, WalkInv, HistoryInv
<1> QED  BY <1>2, <1>3, <1>6

\* What is read of a shard in step with its pairs is within the bounds.
LEMMA ReadWithin ==
  ASSUME IInv, NEW s, Reads(s), NEW f \in [Keys -> Nat], Within(f), NEW g \in [Keys -> Nat],
         \A key \in Keys :
           IF getShard(key) = s THEN Least(key) <= g[key] /\ g[key] <= Most(key) ELSE g[key] = f[key]
  PROVE  Within(g)'
<1>1. low' = low /\ high' = high /\ todo' = todo \ {s} /\ s \in todo
  BY DEF Reads
<1>2. ASSUME NEW key \in Keys
      PROVE  IF getShard(key) \in todo' THEN g[key] = 0 ELSE low[key] <= g[key] /\ g[key] <= high[key]
  <2>1. CASE getShard(key) = s
    <3>1. low[key] <= Least(key) /\ Most(key) <= high[key]
      BY <1>1 DEF IInv, WalkInv, HistoryInv
    <3>2. Least(key) <= g[key] /\ g[key] <= Most(key)
      BY <2>1
    <3>3. low[key] \in Nat /\ high[key] \in Nat /\ Least(key) \in Nat /\ Most(key) \in Nat /\ g[key] \in Nat
      BY LeastMost DEF IInv, WriteInv, WalkInv, WalkType
    <3> QED  BY <1>1, <2>1, <3>1, <3>2, <3>3
  <2>2. CASE getShard(key) # s
    BY <1>1, <2>2 DEF Within
  <2> QED  BY <2>1, <2>2
<1> QED  BY <1>1, <1>2 DEF Within, getShard

LEMMA KeysShardKeeps == ASSUME IInv, NEW s \in todo, KeysShard(s) PROVE IInv'
<1>1. /\ walk = "Keys" /\ Reads(s) /\ total' = total
      /\ listed' = [key \in Keys |-> IF getShard(key) = s /\ stored[key] # Absent
                                     THEN listed[key] + 1 ELSE listed[key]]
  BY DEF KeysShard, Reads
<1>2. WalkType /\ WriterType /\ Within(listed)
  BY <1>1 DEF IInv, WalkInv, WriteInv, ResultInv
<1>3. listed' \in [Keys -> Nat] /\ total' \in Int
  BY <1>1, <1>2 DEF WalkType
<1>4. WriteInv' /\ WalkType' /\ HistoryInv'
  BY <1>1, <1>3, ReadStays
<1>5. ASSUME NEW key \in Keys
      PROVE  IF getShard(key) = s THEN Least(key) <= listed'[key] /\ listed'[key] <= Most(key)
             ELSE listed'[key] = listed[key]
  <2>1. CASE getShard(key) # s
    BY <1>1, <2>1
  <2>2. CASE getShard(key) = s
    <3>1. listed[key] = 0
      BY <1>2, <2>2 DEF Within
    <3>2. listed'[key] = IF stored[key] = Absent THEN 0 ELSE 1
      BY <1>1, <2>2, <3>1
    <3>3. Weight(stored[key]) = IF stored[key] = Absent THEN 0 ELSE 1
      BY <1>1 DEF Weight
    <3>4. Least(key) = Weight(stored[key]) /\ Most(key) = Weight(stored[key])
      BY <1>1, <1>2, LeastMost
    <3> QED  BY <2>2, <3>2, <3>3, <3>4
  <2> QED  BY <2>1, <2>2
<1>6. Within(listed)'
  <2>1. PICK g \in [Keys -> Nat] : g = listed'
    BY <1>3
  <2>2. \A key \in Keys : IF getShard(key) = s THEN Least(key) <= g[key] /\ g[key] <= Most(key)
                          ELSE g[key] = listed[key]
    BY <1>5, <2>1
  <2>3. PICK f \in [Keys -> Nat] : f = listed
    BY <1>2 DEF WalkType
  <2>4. Within(f)
    BY <1>2, <2>3
  <2>5. Within(g)'
    BY <1>1, <2>2, <2>3, <2>4, ReadWithin
  <2> QED  BY <2>1, <2>5 DEF Within
<1>7. ResultInv'
  BY <1>1, <1>6 DEF ResultInv, Reads
<1> QED  BY <1>4, <1>7 DEF IInv, WalkInv

LEMMA UsageShardKeeps == ASSUME IInv, NEW s \in todo, UsageShard(s) PROVE IInv'
<1>1. walk = "Usage" /\ Reads(s) /\ total' = total + usedBytes[s] /\ listed' = listed
  BY DEF UsageShard, Reads
<1>2. WalkType /\ WriterType /\ s \in Shards
  BY DEF IInv, WalkInv, WriteInv, WalkType
<1>3. listed' \in [Keys -> Nat] /\ total' \in Int
  BY <1>1, <1>2 DEF WalkType, WriterType
<1>4. WriteInv' /\ WalkType' /\ HistoryInv'
  BY <1>1, <1>3, ReadStays
<1>5. PICK f \in [Keys -> Nat] : Within(f) /\ total = SumFunction(f)
  BY <1>1 DEF IInv, WalkInv, ResultInv
<1> DEFINE w == SizesAt(s, old)
<1>6. w \in [Keys -> Int] /\ \A key \in Keys : Bytes(old[key]) \in Nat
  BY <1>2, SizeTypes DEF WriterType
<1>7. PICK g \in [Keys -> Nat] :
         \A key \in Keys : g[key] = IF getShard(key) = s THEN Bytes(old[key]) ELSE f[key]
  <2> DEFINE h == [key \in Keys |-> IF getShard(key) = s THEN Bytes(old[key]) ELSE f[key]]
  <2>1. h \in [Keys -> Nat] /\ \A key \in Keys : h[key] = IF getShard(key) = s THEN Bytes(old[key]) ELSE f[key]
    BY <1>6
  <2> HIDE DEF h
  <2> QED  BY <2>1
<1>8. g \in [Keys -> Int] /\ f \in [Keys -> Int]
  OBVIOUS
<1>9. \A key \in Keys : g[key] = f[key] + w[key]
  <2>1. ASSUME NEW key \in Keys PROVE g[key] = f[key] + w[key]
    <3>1. f[key] \in Nat /\ (getShard(key) = s => f[key] = 0)
      BY <1>5 DEF Within
    <3> QED  BY <1>6, <1>7, <3>1 DEF SizesAt
  <2> QED  BY <2>1
<1>10. SumFunction(g) = SumFunction(f) + SumFunction(w)
  <2> HIDE DEF w
  <2> QED  BY <1>6, <1>8, <1>9, SumAdd, ShardAssumption
<1>11. usedBytes[s] = SumFunction(w)
  BY <1>2 DEF IInv, WriteInv, ShardInv, CountersAt, BytesIn
<1>12. total' = SumFunction(g)
  BY <1>1, <1>5, <1>10, <1>11
<1>13. \A key \in Keys :
         IF getShard(key) = s THEN Least(key) <= g[key] /\ g[key] <= Most(key) ELSE g[key] = f[key]
  <2>1. \A key \in Keys : Weight(old[key]) = Bytes(old[key])
    BY <1>1 DEF Weight
  <2>2. \A key \in Keys : Least(key) <= Weight(old[key]) /\ Weight(old[key]) <= Most(key)
    BY <1>1, <1>2, LeastMost
  <2> QED  BY <1>7, <2>1, <2>2
<1> HIDE DEF w
<1>14. Within(g)'
  BY <1>1, <1>5, <1>8, <1>13, ReadWithin
<1>15. ResultInv'
  BY <1>1, <1>8, <1>12, <1>14 DEF ResultInv, Reads
<1> QED  BY <1>4, <1>15 DEF IInv, WalkInv

LEMMA CountShardKeeps == ASSUME IInv, NEW s \in todo, CountShard(s) PROVE IInv'
<1>1. walk = "Count" /\ Reads(s) /\ total' = total + keyCount[s] /\ listed' = listed
  BY DEF CountShard, Reads
<1>2. WalkType /\ WriterType /\ s \in Shards
  BY DEF IInv, WalkInv, WriteInv, WalkType
<1>3. listed' \in [Keys -> Nat] /\ total' \in Int
  BY <1>1, <1>2 DEF WalkType, WriterType
<1>4. WriteInv' /\ WalkType' /\ HistoryInv'
  BY <1>1, <1>3, ReadStays
<1>5. PICK f \in [Keys -> Nat], m \in [Shards -> Nat] :
        Within(f) /\ Missed(m) /\ total = SumFunction(f) - SumFunction(m)
  BY <1>1 DEF IInv, WalkInv, ResultInv
<1> DEFINE w == Ones(s, copy)
<1>6. /\ w \in [Keys -> Int] /\ lost[s] \in Nat
      /\ \A key \in Keys : Weight(copy[key]) \in Nat
  BY <1>2, SizeTypes DEF WriterType
<1>7. PICK g \in [Keys -> Nat] :
         \A key \in Keys : g[key] = IF getShard(key) = s THEN Weight(copy[key]) ELSE f[key]
  <2> DEFINE h == [key \in Keys |-> IF getShard(key) = s THEN Weight(copy[key]) ELSE f[key]]
  <2>1. h \in [Keys -> Nat] /\ \A key \in Keys : h[key] = IF getShard(key) = s THEN Weight(copy[key]) ELSE f[key]
    BY <1>6
  <2> HIDE DEF h
  <2> QED  BY <2>1
<1>8. PICK n \in [Shards -> Nat] : n = [m EXCEPT ![s] = lost[s]]
  BY <1>2, <1>6
<1>9. g \in [Keys -> Int] /\ f \in [Keys -> Int]
  OBVIOUS
<1>10. \A key \in Keys : g[key] = f[key] + w[key]
  <2>1. ASSUME NEW key \in Keys PROVE g[key] = f[key] + w[key]
    <3>1. f[key] \in Nat /\ (getShard(key) = s => f[key] = 0)
      BY <1>5 DEF Within
    <3>2. Weight(copy[key]) = IF copy[key] = Absent THEN 0 ELSE 1
      BY <1>1 DEF Weight
    <3> QED  BY <1>7, <3>1, <3>2 DEF Ones
  <2> QED  BY <2>1
<1>11. SumFunction(g) = SumFunction(f) + SumFunction(w)
  <2> HIDE DEF w
  <2> QED  BY <1>6, <1>9, <1>10, SumAdd, ShardAssumption
<1>12. keyCount[s] = SumFunction(w) - lost[s] /\ lost[s] \in Nat
  BY <1>2, CountTypes DEF IInv, WriteInv, ShardInv, CountersAt, WriterType
<1>13. n \in [Shards -> Int] /\ m \in [Shards -> Int] /\ m[s] = 0 /\ n[s] = lost[s]
  BY <1>2, <1>5, <1>8, <1>12 DEF Missed
<1>14. SumFunction(n) = SumFunction(m) + (n[s] - m[s])
  <2>1. \A t \in Shards : t # s => n[t] = m[t]
    BY <1>8
  <2> QED  BY <1>2, <1>13, <2>1, SumUpdate, FiniteShards
<1>15. /\ SumFunction(f) \in Int /\ SumFunction(w) \in Int /\ SumFunction(m) \in Int
  <2> HIDE DEF w
  <2> QED  BY <1>6, <1>9, <1>13, SumType, FiniteShards, ShardAssumption
<1>16. total' = SumFunction(g) - SumFunction(n)
  <2> HIDE DEF w
  <2> QED  BY <1>1, <1>5, <1>11, <1>12, <1>13, <1>14, <1>15
<1>17. \A key \in Keys :
         IF getShard(key) = s THEN Least(key) <= g[key] /\ g[key] <= Most(key) ELSE g[key] = f[key]
  <2>1. \A key \in Keys : Least(key) <= Weight(copy[key]) /\ Weight(copy[key]) <= Most(key)
    BY <1>1, <1>2, LeastMost
  <2> QED  BY <1>7, <2>1
<1>18. Missed(n)'
  <2>1. lost' = lost /\ todo' = todo \ {s}
    BY <1>1 DEF Reads, writerVars
  <2>2. \A t \in Shards : IF t \in todo' THEN n[t] = 0 ELSE n[t] <= lost[t]
    BY <1>2, <1>5, <1>8, <1>12, <2>1 DEF Missed
  <2> QED  BY <2>1, <2>2 DEF Missed
<1> HIDE DEF w
<1>19. Within(g)'
  BY <1>1, <1>5, <1>9, <1>17, ReadWithin
<1>20. ResultInv'
  BY <1>1, <1>9, <1>13, <1>16, <1>18, <1>19 DEF ResultInv, Reads
<1> QED  BY <1>4, <1>20 DEF IInv, WalkInv

LEMMA InitHolds == Init => IInv
<1> SUFFICES ASSUME Init PROVE IInv
  OBVIOUS
<1>1. stored \in Indexes /\ old = stored /\ copy = stored
  BY DEF Init, Indexes
<1>2. WriterType /\ WalkType
  BY <1>1 DEF Init, WriterType, WalkType
<1>3. ASSUME NEW s \in Shards PROVE KeysIn(s, stored) = 0 /\ BytesIn(s, stored) = 0
  <2>1. \A key \in Keys : Ones(s, stored)[key] = 0 /\ SizesAt(s, stored)[key] = 0
    BY DEF Init, Ones, SizesAt, Bytes
  <2>2. Ones(s, stored) \in [Keys -> Int] /\ SizesAt(s, stored) \in [Keys -> Int]
    BY <1>1, SizeTypes
  <2>3. KeysIn(s, stored) = SumFunction(Ones(s, stored))
    BY <1>1, CountTypes
  <2> QED  BY <2>1, <2>2, <2>3, SumZero, ShardAssumption DEF BytesIn
<1>4. ShardInv
  <2>1. ASSUME NEW s \in Shards PROVE WriterAt(s) /\ CountersAt(s)
    <3>1. /\ pc[s] = "idle" /\ batch[s] = {} /\ delta[s] = 0 /\ keyCount[s] = 0 /\ usedBytes[s] = 0
          /\ lost[s] = 0
      BY DEF Init
    <3> QED  BY <1>1, <1>3, <3>1 DEF WriterAt, CountersAt
  <2> QED  BY <2>1 DEF ShardInv
<1>5. HistoryInv /\ ResultInv
  BY DEF Init, HistoryInv, ResultInv
<1> QED  BY <1>2, <1>4, <1>5 DEF IInv, WriteInv, WalkInv

LEMMA NextKeeps == IInv /\ [Next]_vars => IInv'
<1> SUFFICES ASSUME IInv, [Next]_vars PROVE IInv'
  OBVIOUS
<1>1. ASSUME NEW key \in Keys, Delete(key) PROVE IInv'
  <2>1. getShard(key) \in Shards /\ {key} \in SUBSET Keys
    BY ShardOfKey
  <2> QED  BY <1>1, <2>1, LockBatchKeeps DEF Delete
<1>2. ASSUME NEW key \in Keys, NEW size \in Sizes, Set(key, size) PROVE IInv'
  BY <1>2, SetKeeps
<1>3. ASSUME NEW s \in Shards, WriterStep(s) PROVE IInv'
  <2>1. ASSUME NEW keys \in (SUBSET {key \in Keys : getShard(key) = s}) \ {{}}, LockBatch(s, keys)
        PROVE  IInv'
    <3>1. keys \in SUBSET Keys /\ \A key \in keys : getShard(key) = s
      OBVIOUS
    <3> QED  BY <2>1, <3>1, LockBatchKeeps
  <2> QED
    BY <1>3, <2>1, CutKeyKeeps, CancelPanicsKeeps, PublishNothingKeeps, PublishKeeps, AccountKeeps
       DEF WriterStep, Flush
<1>4. ASSUME NEW kind \in {"Count", "Usage", "Keys"}, Begin(kind) PROVE IInv'
  BY <1>4, BeginKeeps
<1>5. ASSUME NEW s \in todo, CountShard(s) \/ UsageShard(s) \/ KeysShard(s) PROVE IInv'
  BY <1>5, CountShardKeeps, UsageShardKeeps, KeysShardKeeps
<1>6. CASE UNCHANGED vars
  <2>1. UNCHANGED writerVars /\ UNCHANGED walkVars /\ low' = low /\ high' = high
    BY <1>6 DEF vars
  <2>2. walk' = walk /\ todo' = todo /\ total' = total /\ listed' = listed /\ lost' = lost
        /\ stored' = stored /\ old' = old /\ copy' = copy
    BY <2>1 DEF walkVars, writerVars, indexVars
  <2>3. WriteInv'
    BY <2>1, WritersStay DEF IInv
  <2>4. WalkType'
    BY <2>1, <2>2 DEF IInv, WalkInv, WalkType
  <2>5. \A key \in Keys : Least(key)' = Least(key) /\ Most(key)' = Most(key)
    BY <2>2 DEF Least, Most, Lesser, Greater, Weight, Bytes
  <2>6. HistoryInv'
    BY <2>1, <2>2, <2>5 DEF IInv, WalkInv, HistoryInv
  <2>7. ResultInv'
    BY <2>1, <2>2 DEF IInv, WalkInv, ResultInv, Within, Missed, getShard
  <2> QED  BY <2>3, <2>4, <2>6, <2>7 DEF IInv, WalkInv
<1> QED  BY <1>1, <1>2, <1>3, <1>4, <1>5, <1>6 DEF Next

-----------------------------------------------------------------------------
(***************************************************************************)
(* The inductive invariant holds in every reachable state of the shard     *)
(* container: keyCount is the keys of the copy being written less those    *)
(* lost, usedBytes the bytes of the index last accounted for, and a walk   *)
(* has made of every key it has passed something within its history        *)
(* (sharding.go:32-115, in_memory.go:79-172).                              *)
(***************************************************************************)
THEOREM ContainerInvariant == Spec => []IInv
BY InitHolds, NextKeeps, PTL DEF Spec

(***************************************************************************)
(* The container is well formed: getShard and the walks stay inside the    *)
(* shard array, whatever the hash (sharding.go:25-115).                    *)
(***************************************************************************)
THEOREM ContainerTyped == Spec => []TypeOK
<1>1. IInv => TypeOK
  BY DEF IInv, WriteInv, WalkInv, WriterType, WalkType, TypeOK
<1> QED  BY <1>1, ContainerInvariant, PTL

(***************************************************************************)
(* Whatever is stored, deleted or abandoned between the reads of its       *)
(* shards, Keys lists what was there throughout and nothing else that was  *)
(* not, Usage stays between the least and the greatest bytes there were,   *)
(* and Count never exceeds the keys there were and falls short of them     *)
(* only by what deletes counted down without publishing                    *)
(* (sharding.go:57-80,101-115, in_memory.go:114,119-120,162-170).          *)
(***************************************************************************)
THEOREM WalksBounded == Spec => []WalkBounds
<1>1. IInv => WalkBounds
  <2> SUFFICES ASSUME IInv, todo = {}
               PROVE  /\ walk = "Keys" => \A key \in Keys : low[key] <= listed[key] /\ listed[key] <= high[key]
                      /\ walk = "Usage" => SumFunction(low) <= total /\ total <= SumFunction(high)
                      /\ walk = "Count" => /\ SumFunction(low) - SumFunction(lost) <= total
                                           /\ total <= SumFunction(high)
    BY DEF WalkBounds
  <2>1. low \in [Keys -> Int] /\ high \in [Keys -> Int] /\ lost \in [Shards -> Int]
    BY DEF IInv, WriteInv, WalkInv, WriterType, WalkType
  <2>2. /\ SumFunction(low) \in Int /\ SumFunction(high) \in Int /\ SumFunction(lost) \in Int
    BY <2>1, SumType, FiniteShards, ShardAssumption
  <2>3. ASSUME NEW f \in [Keys -> Nat], Within(f)
        PROVE  SumFunction(low) <= SumFunction(f) /\ SumFunction(f) <= SumFunction(high) /\ SumFunction(f) \in Int
    <3>1. f \in [Keys -> Int] /\ \A key \in Keys : low[key] <= f[key] /\ f[key] <= high[key]
      BY <2>3 DEF Within
    <3> QED  BY <2>1, <3>1, SumMono, SumType, ShardAssumption
  <2>4. ASSUME NEW m \in [Shards -> Nat], Missed(m)
        PROVE  SumFunction(m) \in Nat /\ SumFunction(m) <= SumFunction(lost)
    <3>1. m \in [Shards -> Int] /\ \A s \in Shards : m[s] >= 0 /\ m[s] <= lost[s]
      BY <2>4 DEF Missed
    <3> QED  BY <2>1, <3>1, SumNat, SumMono, FiniteShards
  <2>5. CASE walk = "Keys"
    BY <2>5 DEF IInv, WalkInv, ResultInv, Within
  <2>6. CASE walk = "Usage"
    BY <2>3, <2>6 DEF IInv, WalkInv, ResultInv
  <2>7. CASE walk = "Count"
    <3>1. PICK f \in [Keys -> Nat], m \in [Shards -> Nat] :
            Within(f) /\ Missed(m) /\ total = SumFunction(f) - SumFunction(m)
      BY <2>7 DEF IInv, WalkInv, ResultInv
    <3>2. SumFunction(low) <= SumFunction(f) /\ SumFunction(f) <= SumFunction(high) /\ SumFunction(f) \in Int
      BY <2>3, <3>1
    <3>3. SumFunction(m) \in Nat /\ SumFunction(m) <= SumFunction(lost)
      BY <2>4, <3>1
    <3> QED  BY <2>2, <2>7, <3>1, <3>2, <3>3
  <2> QED  BY <2>5, <2>6, <2>7
<1> QED  BY <1>1, ContainerInvariant, PTL
-----------------------------------------------------------------------------
(***************************************************************************)
(* The binary search of a segment, as a loop over the range it has left.   *)
(***************************************************************************)
Ranges(keys) == (0..Len(keys)) \X (0..Len(keys))
Middle(r) == (r[1] + r[2]) \div 2
SearchStops(keys) == {r \in Ranges(keys) : r[1] >= r[2]}
SearchStep(keys, target) ==
  [r \in Ranges(keys) |->
     IF keys[Middle(r) + 1] < target THEN <<Middle(r) + 1, r[2]>> ELSE <<r[1], Middle(r)>>]
SearchMeasure(keys) == [r \in Ranges(keys) |-> IF r[1] >= r[2] THEN 0 ELSE r[2] - r[1]]

LEMMA SearchTurn ==
  ASSUME NEW keys, Len(keys) \in Nat, NEW target, NEW r \in Ranges(keys) \ SearchStops(keys)
  PROVE  /\ r = <<r[1], r[2]>> /\ r[1] \in Nat /\ r[2] \in Nat /\ r[2] <= Len(keys)
         /\ Middle(r) \in Nat /\ r[1] <= Middle(r) /\ Middle(r) < r[2]
         /\ SearchStep(keys, target)[r] =
              IF keys[Middle(r) + 1] < target THEN <<Middle(r) + 1, r[2]>> ELSE <<r[1], Middle(r)>>
         /\ SearchStep(keys, target)[r] \in Ranges(keys)
<1>1. r = <<r[1], r[2]>> /\ r[1] \in Nat /\ r[2] \in Nat /\ r[2] <= Len(keys) /\ r[1] < r[2]
  BY DEF Ranges, SearchStops
<1>2. Middle(r) \in Nat /\ r[1] <= Middle(r) /\ Middle(r) < r[2]
  BY <1>1 DEF Middle
<1>3. SearchStep(keys, target)[r] =
        IF keys[Middle(r) + 1] < target THEN <<Middle(r) + 1, r[2]>> ELSE <<r[1], Middle(r)>>
  BY DEF SearchStep
<1>4. SearchStep(keys, target)[r] \in Ranges(keys)
  BY <1>1, <1>2, <1>3 DEF Ranges
<1> QED  BY <1>1, <1>2, <1>3, <1>4

LEMMA SearchEnds ==
  ASSUME NEW keys, Len(keys) \in Nat, NEW target
  PROVE  Ends(Ranges(keys), SearchStops(keys), SearchStep(keys, target), SearchMeasure(keys))
<1> DEFINE m == SearchMeasure(keys)
           step == SearchStep(keys, target)
<1>1. m \in [Ranges(keys) -> Nat]
  BY DEF SearchMeasure, Ranges
<1>2. ASSUME NEW r \in Ranges(keys) \ SearchStops(keys)
      PROVE  step[r] \in Ranges(keys) /\ m[step[r]] < m[r]
  <2>1. r[1] \in Nat /\ r[2] \in Nat /\ Middle(r) \in Nat /\ r[1] <= Middle(r) /\ Middle(r) < r[2]
    BY SearchTurn
  <2>2. step[r] = <<Middle(r) + 1, r[2]>> \/ step[r] = <<r[1], Middle(r)>>
    BY DEF SearchStep
  <2>3. step[r] \in Ranges(keys)
    BY SearchTurn
  <2> HIDE DEF step
  <2> QED  BY <2>1, <2>2, <2>3 DEF SearchMeasure
<1> QED  BY <1>1, <1>2 DEF Ends

\* The function that Position applies to the whole range.
LEMMA SearchIs ==
  ASSUME NEW keys, Len(keys) \in Nat, NEW target
  PROVE  \E f : /\ Position(keys, target) = f[<<0, Len(keys)>>]
                /\ \A r \in Ranges(keys) :
                     f[r] = IF r \in SearchStops(keys) THEN r[1] ELSE f[SearchStep(keys, target)[r]]
<1> DEFINE out == [r \in Ranges(keys) |-> r[1]]
           stop == SearchStops(keys)
           step == SearchStep(keys, target)
<1>1. PICK u : u = [r \in Ranges(keys) |-> IF r \in stop THEN out[r] ELSE u[step[r]]]
  <2> HIDE DEF out, stop, step
  <2>1. Ends(Ranges(keys), stop, step, SearchMeasure(keys))
    BY SearchEnds DEF stop, step
  <2> QED  BY <2>1, TailRecursion
<1> DEFINE search[r \in Ranges(keys)] ==
             LET h == (r[1] + r[2]) \div 2
             IN IF r[1] >= r[2] THEN r[1]
                ELSE search[IF keys[h + 1] < target THEN <<h + 1, r[2]>> ELSE <<r[1], h>>]
<1>2. Position(keys, target) = search[<<0, Len(keys)>>]
  BY DEF Position, Ranges
<1>3. u = [r \in Ranges(keys) |->
             LET h == (r[1] + r[2]) \div 2
             IN IF r[1] >= r[2] THEN r[1]
                ELSE u[IF keys[h + 1] < target THEN <<h + 1, r[2]>> ELSE <<r[1], h>>]]
  <2>1. ASSUME NEW r \in Ranges(keys)
        PROVE  (IF r \in stop THEN out[r] ELSE u[step[r]])
               = LET h == (r[1] + r[2]) \div 2
                 IN IF r[1] >= r[2] THEN r[1]
                    ELSE u[IF keys[h + 1] < target THEN <<h + 1, r[2]>> ELSE <<r[1], h>>]
    BY DEF SearchStops, SearchStep, Middle
  <2> QED  BY <1>1, <2>1, Zenon
<1>4. search = [r \in Ranges(keys) |->
                  LET h == (r[1] + r[2]) \div 2
                  IN IF r[1] >= r[2] THEN r[1]
                     ELSE search[IF keys[h + 1] < target THEN <<h + 1, r[2]>> ELSE <<r[1], h>>]]
  BY <1>3
<1> HIDE DEF search
<1>5. \A r \in Ranges(keys) : search[r] = IF r \in stop THEN r[1] ELSE search[step[r]]
  BY <1>4 DEF SearchStops, SearchStep, Middle
<1> QED  BY <1>2, <1>5

\* A segment's keys are in ascending order, none twice.
Ascending(keys) == \A i, j \in 1..Len(keys) : i < j => keys[i] < keys[j]

\* slices.BinarySearch on ascending keys: what is before the position is smaller, the rest is not.
LEMMA PositionSplits ==
  ASSUME NEW keys \in Seq(Nat), Ascending(keys), NEW target \in Nat
  PROVE  /\ Position(keys, target) \in 0..Len(keys)
         /\ \A k \in 1..Len(keys) : k <= Position(keys, target) <=> keys[k] < target
<1> DEFINE stop == SearchStops(keys)
           step == SearchStep(keys, target)
           Splits(p) == p \in 0..Len(keys) /\ \A k \in 1..Len(keys) : k <= p <=> keys[k] < target
           Holds(r) == /\ r[1] <= r[2]
                       /\ \A k \in 1..Len(keys) : k <= r[1] => keys[k] < target
                       /\ \A k \in 1..Len(keys) : k > r[2] => ~(keys[k] < target)
<1>1. PICK f : /\ Position(keys, target) = f[<<0, Len(keys)>>]
               /\ \A r \in Ranges(keys) : f[r] = IF r \in stop THEN r[1] ELSE f[step[r]]
  BY SearchIs
<1> DEFINE T == {r \in Ranges(keys) : Holds(r) => Splits(f[r])}
<1>2. ASSUME NEW r \in Ranges(keys) \cap stop PROVE r \in T
  <2>1. f[r] = r[1] /\ r[1] \in 0..Len(keys) /\ r[2] \in 0..Len(keys) /\ r[1] >= r[2]
    BY <1>1 DEF SearchStops, Ranges
  <2> QED  BY <2>1
<1>3. ASSUME NEW r \in Ranges(keys) \ stop, step[r] \in T PROVE r \in T
  <2>1. f[r] = f[step[r]]
    BY <1>1
  <2> DEFINE h == Middle(r)
  <2>2. /\ r[1] \in Nat /\ r[2] \in Nat /\ r[2] <= Len(keys)
        /\ h \in Nat /\ r[1] <= h /\ h < r[2]
        /\ step[r] = IF keys[h + 1] < target THEN <<h + 1, r[2]>> ELSE <<r[1], h>>
    <3>1. step[r] = IF keys[h + 1] < target THEN <<h + 1, r[2]>> ELSE <<r[1], h>>
      BY DEF SearchStep
    <3>2. Len(keys) \in Nat
      OBVIOUS
    <3>3. r[1] \in Nat /\ r[2] \in Nat /\ r[2] <= Len(keys) /\ h \in Nat /\ r[1] <= h /\ h < r[2]
      BY <3>2, SearchTurn
    <3> QED  BY <3>1, <3>3
  <2> HIDE DEF h, step, Splits
  <2>3. h + 1 \in 1..Len(keys)
    BY <2>2
  <2>4. \A k \in 1..Len(keys) : keys[k] \in Nat
    OBVIOUS
  <2>5. ASSUME Holds(r) PROVE Holds(step[r])
    <3>1. CASE keys[h + 1] < target
      <4>1. \A k \in 1..Len(keys) : k <= h + 1 => keys[k] < target
        <5> TAKE k \in 1..Len(keys)
        <5> HAVE k <= h + 1
        <5>1. CASE k = h + 1
          BY <3>1, <5>1
        <5>2. CASE k < h + 1
          <6>1. keys[k] < keys[h + 1] /\ keys[k] \in Nat /\ keys[h + 1] \in Nat
            BY <2>3, <2>4, <5>2 DEF Ascending
          <6> QED  BY <3>1, <6>1
        <5> QED  BY <2>2, <5>1, <5>2
      <4> QED  BY <2>2, <2>5, <3>1, <4>1
    <3>2. CASE ~(keys[h + 1] < target)
      <4>1. \A k \in 1..Len(keys) : k > h => ~(keys[k] < target)
        BY <2>2, <2>3, <2>4, <3>2, SMTT(30) DEF Ascending
      <4> QED  BY <2>2, <2>5, <3>2, <4>1
    <3> QED  BY <3>1, <3>2
  <2> QED  BY <1>3, <2>1, <2>5
<1>4. Ranges(keys) \subseteq T
  <2> HIDE DEF T, stop, step
  <2>1. Ends(Ranges(keys), stop, step, SearchMeasure(keys))
    BY SearchEnds DEF stop, step
  <2>2. Ranges(keys) \cap stop \subseteq T
    BY <1>2
  <2> QED  BY <1>3, <2>1, <2>2, LoopInduction
<1>5. <<0, Len(keys)>> \in Ranges(keys) /\ Holds(<<0, Len(keys)>>)
  BY DEF Ranges
<1>6. Splits(f[<<0, Len(keys)>>])
  BY <1>4, <1>5
<1> QED  BY <1>1, <1>6

-----------------------------------------------------------------------------
(***************************************************************************)
(* Segments: ascending keys, and at each key's position the entry f has    *)
(* for it.                                                                 *)
(***************************************************************************)
GoodSegment(f) ==
  {seg \in [keys : Seq(SegKeys), vals : Seq(Int)] :
     /\ Ascending(seg.keys)
     /\ Len(seg.vals) = Len(seg.keys)
     /\ \A i \in 1..Len(seg.keys) : seg.vals[i] = f[seg.keys[i]]}
KeySet(keys) == {keys[k] : k \in 1..Len(keys)}

LEMMA SearchFinds ==
  ASSUME NEW keys \in Seq(SegKeys), Ascending(keys), NEW key \in SegKeys
  PROVE  /\ Position(keys, key) \in 0..Len(keys)
         /\ \A k \in 1..Len(keys) : k <= Position(keys, key) <=> keys[k] < key
         /\ Found(keys, key) <=> key \in KeySet(keys)
         /\ Found(keys, key) => Position(keys, key) + 1 \in 1..Len(keys) /\ keys[Position(keys, key) + 1] = key
<1> DEFINE p == Position(keys, key)
<1>1. keys \in Seq(Nat) /\ key \in Nat /\ \A k \in 1..Len(keys) : keys[k] \in Nat
  <2>1. SegKeys \subseteq Nat
    BY SegmentAssumption
  <2>2. \A k \in 1..Len(keys) : keys[k] \in Nat
    <3>1. \A k \in 1..Len(keys) : keys[k] \in SegKeys
      OBVIOUS
    <3> QED  BY <2>1, <3>1, Zenon
  <2>3. keys = [k \in 1..Len(keys) |-> keys[k]] /\ Len(keys) \in Nat
    OBVIOUS
  <2>4. keys \in Seq(Nat)
    BY <2>2, <2>3
  <2> QED  BY <2>1, <2>2, <2>4
<1>2. p \in 0..Len(keys) /\ \A k \in 1..Len(keys) : k <= p <=> keys[k] < key
  BY <1>1, PositionSplits
<1>3. Found(keys, key) <=> p < Len(keys) /\ keys[p + 1] = key
  BY DEF Found
<1> HIDE DEF p
<1>4. ASSUME NEW k \in 1..Len(keys), keys[k] = key PROVE p < Len(keys) /\ keys[p + 1] = key
  <2>1. p < k /\ p + 1 \in 1..Len(keys)
    BY <1>1, <1>2, <1>4
  <2>2. ~(keys[p + 1] < key)
    BY <1>2, <2>1
  <2>3. p + 1 < k => keys[p + 1] < keys[k]
    BY <2>1 DEF Ascending
  <2>4. p + 1 = k
    BY <1>2, <1>4, <2>1, <2>2, <2>3
  <2>5. p < Len(keys)
    BY <1>2, <2>1
  <2> QED  BY <1>4, <2>4, <2>5
<1>5. Found(keys, key) <=> key \in KeySet(keys)
  BY <1>2, <1>3, <1>4 DEF KeySet
<1>6. Found(keys, key) => p + 1 \in 1..Len(keys) /\ keys[p + 1] = key
  BY <1>2, <1>3
<1> QED  BY <1>2, <1>5, <1>6 DEF p

Inserted(new, keys, p, key) ==
  /\ Len(new) = Len(keys) + 1
  /\ \A k \in 1..p : new[k] = keys[k]
  /\ new[p + 1] = key
  /\ \A k \in (p + 1)..Len(keys) : new[k + 1] = keys[k]
Removed(new, keys, p) ==
  /\ Len(new) = Len(keys) - 1
  /\ \A k \in 1..p : new[k] = keys[k]
  /\ \A k \in (p + 1)..(Len(keys) - 1) : new[k] = keys[k + 1]

\* slices.Insert.
LEMMA InsertIs ==
  ASSUME NEW V, NEW keys \in Seq(V), NEW p \in 0..Len(keys), NEW key \in V
  PROVE  /\ InsertAt(keys, p + 1, key) \in Seq(V)
         /\ Inserted(InsertAt(keys, p + 1, key), keys, p, key)
<1> DEFINE a == SubSeq(keys, 1, p)
           b == SubSeq(keys, p + 1, Len(keys))
           c == a \o <<key>>
<1>1. a \in Seq(V) /\ Len(a) = p /\ \A k \in 1..p : a[k] = keys[k]
  OBVIOUS
<1>2. b \in Seq(V) /\ Len(b) = Len(keys) - p /\ \A k \in 1..(Len(keys) - p) : b[k] = keys[p + k]
  OBVIOUS
<1>3. InsertAt(keys, p + 1, key) = c \o b
  <2>1. InsertAt(keys, p + 1, key) = SubSeq(keys, 1, (p + 1) - 1) \o <<key>> \o b
    BY Zenon DEF InsertAt
  <2>2. (p + 1) - 1 = p
    OBVIOUS
  <2>3. SubSeq(keys, 1, (p + 1) - 1) = a
    BY <2>2, Zenon
  <2> HIDE DEF b, a
  <2> QED  BY <2>1, <2>3, Zenon
<1> HIDE DEF a, b
<1>4. c \in Seq(V) /\ Len(c) = p + 1 /\ c[p + 1] = key /\ \A k \in 1..p : c[k] = keys[k]
  BY <1>1
<1> HIDE DEF c
<1> DEFINE d == c \o b
<1>5. /\ d \in Seq(V) /\ Len(d) = Len(keys) + 1
      /\ \A k \in 1..(p + 1) : d[k] = c[k]
      /\ \A k \in (p + 2)..(Len(keys) + 1) : d[k] = b[k - (p + 1)]
  BY <1>2, <1>4
<1>7. InsertAt(keys, p + 1, key) = d
  BY <1>3
<1> HIDE DEF d
<1>6. \A k \in (p + 1)..Len(keys) : d[k + 1] = keys[k]
  <2> TAKE k \in (p + 1)..Len(keys)
  <2>1. k + 1 \in (p + 2)..(Len(keys) + 1) /\ (k + 1) - (p + 1) = k - p
    OBVIOUS
  <2>2. k - p \in 1..(Len(keys) - p) /\ p + (k - p) = k
    OBVIOUS
  <2>3. d[k + 1] = b[k - p] /\ b[k - p] = keys[k]
    BY <1>2, <1>5, <2>1, <2>2
  <2> QED  BY <2>3
<1>8. (\A k \in 1..p : d[k] = keys[k]) /\ d[p + 1] = key
  BY <1>4, <1>5
<1> QED  BY <1>5, <1>6, <1>7, <1>8 DEF Inserted

\* slices.Delete of one element.
LEMMA RemoveIs ==
  ASSUME NEW V, NEW keys \in Seq(V), NEW p \in 0..Len(keys), p < Len(keys)
  PROVE  /\ RemoveAt(keys, p + 1) \in Seq(V)
         /\ Removed(RemoveAt(keys, p + 1), keys, p)
<1> DEFINE a == SubSeq(keys, 1, p)
           b == SubSeq(keys, p + 2, Len(keys))
           n == Len(keys) - p - 1
<1>1. a \in Seq(V) /\ Len(a) = p /\ \A k \in 1..p : a[k] = keys[k]
  OBVIOUS
<1>2. b \in Seq(V) /\ Len(b) = n /\ \A k \in 1..n : b[k] = keys[p + 1 + k]
  OBVIOUS
<1>3. RemoveAt(keys, p + 1) = a \o b
  <2>1. RemoveAt(keys, p + 1) = SubSeq(keys, 1, (p + 1) - 1) \o SubSeq(keys, p + 1 + 1, Len(keys))
    BY Zenon DEF RemoveAt
  <2>2. (p + 1) - 1 = p /\ p + 1 + 1 = p + 2
    OBVIOUS
  <2>3. SubSeq(keys, 1, (p + 1) - 1) = a /\ SubSeq(keys, p + 1 + 1, Len(keys)) = b
    BY <2>2, Zenon
  <2> HIDE DEF b, a
  <2> QED  BY <2>1, <2>3, Zenon
<1>4. n \in Nat /\ p + n = Len(keys) - 1
  OBVIOUS
<1> HIDE DEF a, b, n
<1> DEFINE d == a \o b
<1>5. /\ d \in Seq(V) /\ Len(d) = p + n
      /\ \A k \in 1..p : d[k] = a[k]
      /\ \A k \in (p + 1)..(p + n) : d[k] = b[k - p]
  <2>1. d \in Seq(V) /\ Len(d) = p + n
    BY <1>1, <1>2, <1>4
  <2>2. \A k \in 1..p : d[k] = a[k]
    BY <1>1, <1>2, <1>4
  <2>3. \A k \in (p + 1)..(p + n) : d[k] = b[k - p]
    BY <1>1, <1>2, <1>4
  <2> QED  BY <2>1, <2>2, <2>3
<1>7. RemoveAt(keys, p + 1) = d
  BY <1>3
<1> HIDE DEF d
<1>6. \A k \in (p + 1)..(Len(keys) - 1) : d[k] = keys[k + 1]
  <2> TAKE k \in (p + 1)..(Len(keys) - 1)
  <2>1. k \in (p + 1)..(p + n) /\ k - p \in 1..n /\ p + 1 + (k - p) = k + 1
    BY <1>4
  <2>2. d[k] = b[k - p] /\ b[k - p] = keys[k + 1]
    BY <1>2, <1>5, <2>1
  <2> QED  BY <2>2
<1>8. \A k \in 1..p : d[k] = keys[k]
  BY <1>1, <1>5
<1> QED  BY <1>4, <1>5, <1>6, <1>7, <1>8 DEF Removed

\* A key inserted where the search ended keeps the order.
LEMMA InsertAscends ==
  ASSUME NEW keys \in Seq(Nat), Ascending(keys), NEW key \in Nat, NEW p \in 0..Len(keys),
         \A k \in 1..Len(keys) : IF k <= p THEN keys[k] < key ELSE key < keys[k],
         NEW new \in Seq(Nat), Inserted(new, keys, p, key)
  PROVE  Ascending(new) /\ KeySet(new) = KeySet(keys) \cup {key}
<1> DEFINE n == Len(keys)
<1>1. /\ n \in Nat /\ Len(new) = n + 1 /\ p \in 0..n
      /\ \A k \in 1..p : new[k] = keys[k]
      /\ new[p + 1] = key
      /\ \A k \in (p + 1)..n : new[k + 1] = keys[k]
  BY DEF Inserted
<1>2. \A k, l \in 1..n : k < l => keys[k] < keys[l]
  BY DEF Ascending
<1>3. \A k \in 1..n : keys[k] \in Nat /\ (k <= p => keys[k] < key) /\ (k > p => key < keys[k])
  OBVIOUS
<1> HIDE DEF n
<1>4. ASSUME NEW k \in 1..(n + 1), k > p + 1 PROVE k - 1 \in (p + 1)..n /\ new[k] = keys[k - 1]
  <2>1. k - 1 \in (p + 1)..n /\ (k - 1) + 1 = k
    BY <1>1, <1>4
  <2> QED  BY <1>1, <2>1
<1>5. ASSUME NEW i \in 1..(n + 1), NEW j \in 1..(n + 1), i < j PROVE new[i] < new[j]
  <2>1. CASE j <= p
    <3>1. i \in 1..p /\ j \in 1..p /\ i \in 1..n /\ j \in 1..n
      BY <1>1, <1>5, <2>1
    <3> QED  BY <1>1, <1>2, <1>5, <3>1
  <2>2. CASE j = p + 1
    <3>1. i \in 1..p /\ i \in 1..n /\ i <= p
      BY <1>1, <1>5, <2>2
    <3> QED  BY <1>1, <1>3, <2>2, <3>1
  <2>3. CASE j > p + 1
    <3>1. j - 1 \in 1..n /\ j - 1 > p /\ new[j] = keys[j - 1]
      BY <1>1, <1>4, <2>3
    <3>2. CASE i <= p
      <4>1. i \in 1..p /\ i \in 1..n /\ i < j - 1
        BY <1>1, <3>1, <3>2
      <4> QED  BY <1>1, <1>2, <3>1, <4>1
    <3>3. CASE i = p + 1
      BY <1>1, <1>3, <3>1, <3>3
    <3>4. CASE i > p + 1
      <4>1. i - 1 \in 1..n /\ new[i] = keys[i - 1] /\ i - 1 < j - 1
        BY <1>1, <1>4, <1>5, <3>4
      <4> QED  BY <1>2, <3>1, <4>1
    <3> QED  BY <1>1, <3>2, <3>3, <3>4
  <2> QED  BY <1>1, <2>1, <2>2, <2>3
<1>6. ASSUME NEW k \in 1..(n + 1) PROVE new[k] = key \/ \E l \in 1..n : new[k] = keys[l]
  <2>1. CASE k <= p
    <3>1. k \in 1..p /\ k \in 1..n
      BY <1>1, <2>1
    <3> QED  BY <1>1, <3>1
  <2>2. CASE k = p + 1
    BY <1>1, <2>2
  <2>3. CASE k > p + 1
    <3>1. k - 1 \in 1..n /\ new[k] = keys[k - 1]
      BY <1>1, <1>4, <2>3
    <3> QED  BY <3>1
  <2> QED  BY <1>1, <2>1, <2>2, <2>3
<1>7. ASSUME NEW k \in 1..n PROVE \E l \in 1..(n + 1) : keys[k] = new[l]
  <2>1. CASE k <= p
    <3>1. k \in 1..p /\ k \in 1..(n + 1)
      BY <1>1, <2>1
    <3> QED  BY <1>1, <3>1
  <2>2. CASE k > p
    <3>1. k \in (p + 1)..n /\ k + 1 \in 1..(n + 1)
      BY <1>1, <2>2
    <3>2. keys[k] = new[k + 1]
      BY <1>1, <3>1
    <3> QED  BY <3>1, <3>2
  <2> QED  BY <1>1, <2>1, <2>2
<1>8. p + 1 \in 1..(n + 1)
  BY <1>1
<1>9. KeySet(new) = {new[k] : k \in 1..(n + 1)} /\ KeySet(keys) = {keys[k] : k \in 1..n}
  BY <1>1 DEF KeySet, n
<1>10. KeySet(new) = KeySet(keys) \cup {key}
  <2>1. KeySet(new) \subseteq KeySet(keys) \cup {key}
    BY <1>6, <1>9
  <2>2. KeySet(keys) \subseteq KeySet(new)
    BY <1>7, <1>9
  <2>3. key \in KeySet(new)
    BY <1>1, <1>8, <1>9
  <2> QED  BY <2>1, <2>2, <2>3
<1> QED  BY <1>1, <1>5, <1>10 DEF Ascending

\* A key removed where the search found it keeps the order.
LEMMA RemoveAscends ==
  ASSUME NEW keys \in Seq(Nat), Ascending(keys), NEW p \in 0..Len(keys), p < Len(keys),
         NEW key, key = keys[p + 1], NEW new \in Seq(Nat), Removed(new, keys, p)
  PROVE  Ascending(new) /\ KeySet(new) = KeySet(keys) \ {key}
<1> DEFINE n == Len(keys)
<1>1. /\ n \in Nat /\ p < n /\ Len(new) = n - 1 /\ p \in 0..n
      /\ \A k \in 1..p : new[k] = keys[k]
      /\ \A k \in (p + 1)..(n - 1) : new[k] = keys[k + 1]
  <2>1. n \in Nat /\ p < n /\ p \in 0..n
    OBVIOUS
  <2>2. /\ Len(new) = n - 1
        /\ \A k \in 1..p : new[k] = keys[k]
        /\ \A k \in (p + 1)..(n - 1) : new[k] = keys[k + 1]
    BY Zenon DEF Removed
  <2> QED  BY <2>1, <2>2
<1>2. \A k, l \in 1..n : k < l => keys[k] < keys[l]
  BY DEF Ascending
<1>3. \A k \in 1..n : keys[k] \in Nat
  OBVIOUS
<1> HIDE DEF n
<1>4. ASSUME NEW k \in 1..(n - 1), k > p PROVE k + 1 \in 1..n /\ new[k] = keys[k + 1]
  <2>1. k \in (p + 1)..(n - 1) /\ k + 1 \in 1..n
    BY <1>1, <1>4
  <2> QED  BY <1>1, <2>1
<1>5. ASSUME NEW k \in 1..(n - 1), k <= p PROVE k \in 1..n /\ new[k] = keys[k]
  <2>1. k \in 1..p /\ k \in 1..n
    BY <1>1, <1>5
  <2> QED  BY <1>1, <2>1
<1>6. ASSUME NEW i \in 1..(n - 1), NEW j \in 1..(n - 1), i < j PROVE new[i] < new[j]
  <2>1. CASE j <= p
    <3>1. i <= p
      BY <1>1, <1>6, <2>1
    <3> QED  BY <1>2, <1>5, <1>6, <2>1, <3>1
  <2>2. CASE j > p
    <3>1. j + 1 \in 1..n /\ new[j] = keys[j + 1]
      BY <1>4, <2>2
    <3>2. CASE i <= p
      <4>1. i \in 1..n /\ new[i] = keys[i] /\ i < j + 1
        BY <1>5, <1>6, <3>2
      <4> QED  BY <1>2, <3>1, <4>1
    <3>3. CASE i > p
      <4>1. i + 1 \in 1..n /\ new[i] = keys[i + 1] /\ i + 1 < j + 1
        BY <1>4, <1>6, <3>3
      <4> QED  BY <1>2, <3>1, <4>1
    <3> QED  BY <1>1, <3>2, <3>3
  <2> QED  BY <1>1, <2>1, <2>2
<1>7. ASSUME NEW k \in 1..n, k # p + 1 PROVE keys[k] # key
  <2>1. p + 1 \in 1..n
    BY <1>1
  <2>2. keys[k] < keys[p + 1] \/ keys[p + 1] < keys[k]
    BY <1>1, <1>2, <1>7, <2>1
  <2> QED  BY <1>3, <2>1, <2>2
<1>8. ASSUME NEW k \in 1..(n - 1) PROVE new[k] # key /\ \E l \in 1..n : new[k] = keys[l]
  <2>1. CASE k <= p
    <3>1. k \in 1..n /\ new[k] = keys[k] /\ k # p + 1
      BY <1>1, <1>5, <2>1, SMTT(30)
    <3> QED  BY <1>7, <3>1
  <2>2. CASE k > p
    <3>1. k + 1 \in 1..n /\ new[k] = keys[k + 1] /\ k + 1 # p + 1
      BY <1>1, <1>4, <2>2
    <3> QED  BY <1>7, <3>1
  <2> QED  BY <1>1, <2>1, <2>2
<1>9. ASSUME NEW k \in 1..n, keys[k] # key PROVE \E l \in 1..(n - 1) : keys[k] = new[l]
  <2>1. CASE k <= p
    <3>1. k \in 1..p /\ k \in 1..(n - 1)
      BY <1>1, <2>1
    <3> QED  BY <1>1, <3>1
  <2>2. CASE k > p
    <3>1. k # p + 1
      BY <1>9
    <3>2. k - 1 \in (p + 1)..(n - 1) /\ k - 1 \in 1..(n - 1) /\ (k - 1) + 1 = k
      BY <1>1, <2>2, <3>1
    <3>3. new[k - 1] = keys[k]
      BY <1>1, <3>2
    <3> QED  BY <3>2, <3>3
  <2> QED  BY <1>1, <2>1, <2>2
<1>10. KeySet(new) = {new[k] : k \in 1..(n - 1)} /\ KeySet(keys) = {keys[k] : k \in 1..n}
  BY <1>1 DEF KeySet, n
<1>11. KeySet(new) = KeySet(keys) \ {key}
  BY <1>8, <1>9, <1>10, ZenonT(30)
<1> QED  BY <1>1, <1>6, <1>11 DEF Ascending

\* Keys are numbers, and a sequence of keys is one of numbers.
LEMMA KeysAreNat ==
  ASSUME NEW keys \in Seq(SegKeys)
  PROVE  keys \in Seq(Nat) /\ \A k \in 1..Len(keys) : keys[k] \in SegKeys /\ keys[k] \in Nat
<1>1. SegKeys \subseteq Nat
  BY SegmentAssumption
<1>2. \A k \in 1..Len(keys) : keys[k] \in SegKeys
  OBVIOUS
<1>3. \A k \in 1..Len(keys) : keys[k] \in Nat
  BY <1>1, <1>2, Zenon
<1>4. keys = [k \in 1..Len(keys) |-> keys[k]] /\ Len(keys) \in Nat
  OBVIOUS
<1>5. keys \in Seq(Nat)
  BY <1>3, <1>4
<1> QED  BY <1>2, <1>3, <1>5

\* Set on a segment adds its key, or gives it another entry.
LEMMA PutAdds ==
  ASSUME NEW f \in [SegKeys -> Int], NEW seg \in GoodSegment(f), NEW key \in SegKeys, NEW val \in Int
  PROVE  /\ Put(seg, key, val) \in GoodSegment([f EXCEPT ![key] = val])
         /\ KeySet(Put(seg, key, val).keys) = KeySet(seg.keys) \cup {key}
<1> DEFINE keys == seg.keys
           vals == seg.vals
           n == Len(keys)
           p == Position(keys, key)
           h == [f EXCEPT ![key] = val]
<1>1. /\ keys \in Seq(SegKeys) /\ vals \in Seq(Int) /\ Ascending(keys) /\ Len(vals) = n /\ n \in Nat
      /\ \A i \in 1..n : vals[i] = f[keys[i]]
      /\ seg = [keys |-> keys, vals |-> vals]
  BY DEF GoodSegment
<1>2. h[key] = val /\ \A k \in SegKeys : k # key => h[k] = f[k]
  OBVIOUS
<1> HIDE DEF keys, vals, h
<1>3. /\ p \in 0..n
      /\ \A k \in 1..n : k <= p <=> keys[k] < key
      /\ Found(keys, key) <=> key \in KeySet(keys)
      /\ Found(keys, key) => p + 1 \in 1..n /\ keys[p + 1] = key
  BY <1>1, SearchFinds
<1>4. Put(seg, key, val) =
        IF Found(keys, key)
        THEN [seg EXCEPT !.vals[p + 1] = val]
        ELSE [keys |-> InsertAt(keys, p + 1, key), vals |-> InsertAt(vals, p + 1, val)]
  BY DEF Put, keys, vals
<1>5. \A k \in 1..n : keys[k] \in SegKeys /\ keys[k] \in Nat
  BY <1>1, KeysAreNat
<1> HIDE DEF p
<1>6. CASE Found(keys, key)
  <2> DEFINE new == [vals EXCEPT ![p + 1] = val]
  <2>1. new \in Seq(Int) /\ Len(new) = n /\ \A i \in 1..n : new[i] = IF i = p + 1 THEN val ELSE vals[i]
    BY <1>1, <1>3, <1>6
  <2>2. Put(seg, key, val) = [keys |-> keys, vals |-> new]
    <3>1. Put(seg, key, val) = [seg EXCEPT !.vals = new]
      BY <1>4, <1>6, Zenon DEF vals
    <3> HIDE DEF new
    <3> QED  BY <1>1, <3>1
  <2> HIDE DEF new
  <2>3. ASSUME NEW i \in 1..n PROVE new[i] = h[keys[i]]
    <3>1. CASE i = p + 1
      BY <1>2, <1>3, <1>6, <2>1, <3>1
    <3>2. CASE i # p + 1
      <4>1. keys[i] # key
        <5>1. i < p + 1 \/ p + 1 < i
          BY <1>3, <3>2
        <5>2. keys[i] < keys[p + 1] \/ keys[p + 1] < keys[i]
          BY <1>1, <1>3, <1>6, <5>1 DEF Ascending
        <5> QED  BY <1>3, <1>5, <1>6, <5>2
      <4> QED  BY <1>1, <1>2, <1>5, <2>1, <3>2, <4>1
    <3> QED  BY <3>1, <3>2
  <2>4. [keys |-> keys, vals |-> new] \in GoodSegment(h)
    BY <1>1, <2>1, <2>3 DEF GoodSegment
  <2> QED  BY <1>3, <1>6, <2>2, <2>4 DEF keys, h
<1>7. CASE ~Found(keys, key)
  <2> DEFINE new == InsertAt(keys, p + 1, key)
             nvals == InsertAt(vals, p + 1, val)
  <2>1. new \in Seq(SegKeys) /\ Inserted(new, keys, p, key)
    BY <1>1, <1>3, InsertIs
  <2>2. nvals \in Seq(Int) /\ Inserted(nvals, vals, p, val)
    BY <1>1, <1>3, InsertIs
  <2>3. Put(seg, key, val) = [keys |-> new, vals |-> nvals]
    BY <1>4, <1>7
  <2> HIDE DEF new, nvals
  <2>4. keys \in Seq(Nat) /\ new \in Seq(Nat) /\ key \in Nat
    BY <1>1, <2>1, KeysAreNat, SegmentAssumption
  <2>5. \A k \in 1..n : keys[k] # key
    BY <1>3, <1>7 DEF KeySet
  <2>6. \A k \in 1..n : IF k <= p THEN keys[k] < key ELSE key < keys[k]
    BY <1>3, <1>5, <2>4, <2>5
  <2>7. Ascending(new) /\ KeySet(new) = KeySet(keys) \cup {key}
    BY <1>1, <1>3, <2>1, <2>4, <2>6, InsertAscends, ZenonT(30)
  <2>8. Len(new) = n + 1 /\ Len(nvals) = n + 1
    BY <1>1, <2>1, <2>2 DEF Inserted
  <2>9. ASSUME NEW i \in 1..(n + 1) PROVE nvals[i] = h[new[i]]
    <3>1. CASE i <= p
      <4>1. i \in 1..p /\ i \in 1..n
        BY <1>1, <1>3, <3>1
      <4>2. new[i] = keys[i] /\ nvals[i] = vals[i]
        BY <2>1, <2>2, <4>1 DEF Inserted
      <4> QED  BY <1>1, <1>2, <1>5, <2>5, <4>1, <4>2
    <3>2. CASE i = p + 1
      BY <1>2, <2>1, <2>2, <3>2 DEF Inserted
    <3>3. CASE i > p + 1
      <4>1. i - 1 \in (p + 1)..n /\ i - 1 \in 1..n /\ (i - 1) + 1 = i
        BY <1>1, <1>3, <3>3
      <4>2. new[(i - 1) + 1] = keys[i - 1]
        BY <2>1, <4>1 DEF Inserted
      <4>3. nvals[(i - 1) + 1] = vals[i - 1]
        BY <1>1, <2>2, <4>1 DEF Inserted
      <4> QED  BY <1>1, <1>2, <1>5, <2>5, <4>1, <4>2, <4>3, SMTT(30)
    <3> QED  BY <1>3, <3>1, <3>2, <3>3
  <2>10. [keys |-> new, vals |-> nvals] \in GoodSegment(h)
    BY <2>1, <2>2, <2>7, <2>8, <2>9 DEF GoodSegment
  <2> QED  BY <2>3, <2>7, <2>10 DEF keys, h
<1> QED  BY <1>6, <1>7

\* One turn of deleteBatch on a segment takes its key away, and its entry with it.
LEMMA CutTakes ==
  ASSUME NEW f \in [SegKeys -> Int], NEW seg \in GoodSegment(f), NEW key \in SegKeys
  PROVE  /\ Cut(seg, key) \in GoodSegment(f)
         /\ KeySet(Cut(seg, key).keys) = KeySet(seg.keys) \ {key}
<1> DEFINE keys == seg.keys
           vals == seg.vals
           n == Len(keys)
           p == Position(keys, key)
<1>1. /\ keys \in Seq(SegKeys) /\ vals \in Seq(Int) /\ Ascending(keys) /\ Len(vals) = n /\ n \in Nat
      /\ \A i \in 1..n : vals[i] = f[keys[i]]
  BY DEF GoodSegment
<1> HIDE DEF keys, vals
<1>2. /\ p \in 0..n
      /\ Found(keys, key) <=> key \in KeySet(keys)
      /\ Found(keys, key) => p + 1 \in 1..n /\ keys[p + 1] = key
  BY <1>1, SearchFinds
<1>3. Cut(seg, key) =
        IF Found(keys, key)
        THEN [keys |-> RemoveAt(keys, p + 1), vals |-> RemoveAt(vals, p + 1)]
        ELSE seg
  BY DEF Cut, keys, vals
<1> HIDE DEF p
<1>4. CASE ~Found(keys, key)
  BY <1>2, <1>3, <1>4 DEF keys
<1>5. CASE Found(keys, key)
  <2> DEFINE new == RemoveAt(keys, p + 1)
             nvals == RemoveAt(vals, p + 1)
  <2>1. p < n /\ keys[p + 1] = key
    BY <1>1, <1>2, <1>5
  <2>2. new \in Seq(SegKeys) /\ Removed(new, keys, p)
    BY <1>1, <1>2, <2>1, RemoveIs
  <2>3. nvals \in Seq(Int) /\ Removed(nvals, vals, p)
    BY <1>1, <1>2, <2>1, RemoveIs
  <2>4. Cut(seg, key) = [keys |-> new, vals |-> nvals]
    BY <1>3, <1>5
  <2> HIDE DEF new, nvals
  <2>5. keys \in Seq(Nat) /\ new \in Seq(Nat)
    BY <1>1, <2>2, KeysAreNat
  <2>6. Ascending(new) /\ KeySet(new) = KeySet(keys) \ {key}
    <3>1. Ascending(keys) /\ p \in 0..Len(keys) /\ p < Len(keys) /\ key = keys[p + 1]
      BY <1>1, <1>2, <2>1
    <3> QED  BY ONLY <2>2, <2>5, <3>1, RemoveAscends
  <2>7. Len(new) = n - 1 /\ Len(nvals) = n - 1
    BY <1>1, <2>2, <2>3 DEF Removed
  <2>8. ASSUME NEW i \in 1..(n - 1) PROVE nvals[i] = f[new[i]]
    <3>1. CASE i <= p
      <4>1. i \in 1..p /\ i \in 1..n
        BY <1>1, <1>2, <3>1
      <4>2. new[i] = keys[i] /\ nvals[i] = vals[i]
        BY <2>2, <2>3, <4>1 DEF Removed
      <4> QED  BY <1>1, <4>1, <4>2
    <3>2. CASE i > p
      <4>1. i \in (p + 1)..(n - 1) /\ i + 1 \in 1..n
        BY <1>1, <1>2, <3>2
      <4>2. new[i] = keys[i + 1]
        BY <2>2, <4>1 DEF Removed
      <4>3. nvals[i] = vals[i + 1]
        BY <1>1, <2>3, <4>1 DEF Removed
      <4> QED  BY <1>1, <4>1, <4>2, <4>3
    <3> QED  BY <1>2, <3>1, <3>2
  <2>9. [keys |-> new, vals |-> nvals] \in GoodSegment(f)
    BY <2>2, <2>3, <2>6, <2>7, <2>8 DEF GoodSegment
  <2> QED  BY <2>4, <2>6, <2>9 DEF keys
<1> QED  BY <1>4, <1>5

-----------------------------------------------------------------------------
(***************************************************************************)
(* deleteBatch: the keys of a group are cut one after the other.           *)
(***************************************************************************)
Current == GoodSegment(pairs)

LEMMA CutAll ==
  ASSUME pairs \in [SegKeys -> Int],
         NEW seg \in Current, NEW n \in Nat, NEW seq \in [1..n -> SegKeys]
  PROVE  /\ FoldLeft(Cut, seg, seq) \in Current
         /\ KeySet(FoldLeft(Cut, seg, seq).keys) = KeySet(seg.keys) \ {seq[i] : i \in 1..n}
<1> DEFINE S == 1..n
           D == SUBSET S
           pick == [s \in D |-> Max(s)]
           step == [s \in D |-> s \ {pick[s]}]
           m == [s \in D |-> Cardinality(s)]
           out == [s \in D |-> seg]
           comb == [p \in D \X Current |-> Cut(p[2], seq[Max(p[1])])]
<1>1. IsFiniteSet(S)
  BY FS_Interval
<1>2. ASSUME NEW s \in D, s # {} PROVE Max(s) \in s
  <2>1. \E x \in s : \A y \in s : x >= y
    BY <1>2, GreatestNat
  <2> QED  BY <2>1, Zenon DEF Max
<1>3. \A s \in D : s # {} => pick[s] \in s
  BY <1>2
<1>4. Ends(D, {{}}, step, m)
  <2> HIDE DEF S, pick
  <2> QED  BY <1>1, <1>3, FoldEnds
<1>5. Yields(D, Current, {{}}, out, comb)
  <2>1. ASSUME NEW s \in D \ {{}}, NEW v \in Current PROVE comb[<<s, v>>] \in Current
    <3>1. seq[Max(s)] \in SegKeys
      BY <1>2
    <3> QED  BY <3>1, CutTakes DEF Current
  <2> QED  BY <2>1 DEF Yields
<1>6. PICK u \in [D -> Current] :
        \A s \in D : u[s] = IF s \in {{}} THEN out[s] ELSE comb[<<s, u[step[s]]>>]
  <2> HIDE DEF D, step, m, out, comb
  <2> QED  BY <1>4, <1>5, LinearRecursion, SMTT(30)
<1>7. u = [s \in D |-> IF s = {} THEN seg ELSE LET x == Max(s) IN Cut(u[s \ {x}], seq[x])]
  <2>1. ASSUME NEW s \in D
        PROVE  u[s] = IF s = {} THEN seg ELSE LET x == Max(s) IN Cut(u[s \ {x}], seq[x])
    <3>1. CASE s = {}
      BY <1>6, <3>1
    <3>2. CASE s # {}
      <4>1. step[s] = s \ {Max(s)} /\ step[s] \in D
        OBVIOUS
      <4>2. u[step[s]] \in Current /\ u[s] = comb[<<s, u[step[s]]>>]
        BY <1>6, <3>2, <4>1
      <4>3. comb[<<s, u[step[s]]>>] = Cut(u[step[s]], seq[Max(s)])
        BY <4>2
      <4> QED  BY <3>2, <4>1, <4>2, <4>3
    <3> QED  BY <3>1, <3>2
  <2> QED  BY <1>6, <2>1
<1> DEFINE iter[s \in D] == IF s = {} THEN seg ELSE LET x == Max(s) IN Cut(iter[s \ {x}], seq[x])
<1>8. iter = [s \in D |-> IF s = {} THEN seg ELSE LET x == Max(s) IN Cut(iter[s \ {x}], seq[x])]
  <2> HIDE DEF D
  <2> QED  BY <1>7
<1>9. FoldLeft(Cut, seg, seq) = iter[S]
  BY DEF FoldLeft, MapThenFoldSet
<1> HIDE DEF iter
<1> DEFINE T == {s \in D : /\ iter[s] \in Current
                           /\ KeySet(iter[s].keys) = KeySet(seg.keys) \ {seq[i] : i \in s}}
<1>10. ASSUME NEW s \in D, s = {} PROVE s \in T
  BY <1>8, <1>10
<1>11. ASSUME NEW s \in D \ {{}}, step[s] \in T PROVE s \in T
  <2> DEFINE r == s \ {Max(s)}
             key == seq[Max(s)]
  <2>1. step[s] = r /\ r \in D /\ Max(s) \in s /\ key \in SegKeys
    BY <1>2
  <2>2. iter[r] \in Current /\ KeySet(iter[r].keys) = KeySet(seg.keys) \ {seq[i] : i \in r}
    BY <1>11, <2>1
  <2>3. iter[s] = Cut(iter[r], key)
    BY <1>8
  <2>4. iter[s] \in Current /\ KeySet(iter[s].keys) = KeySet(iter[r].keys) \ {key}
    <3> HIDE DEF r, key
    <3>1. iter[r] \in Current /\ key \in SegKeys
      BY <2>1, <2>2
    <3>2. /\ Cut(iter[r], key) \in Current
          /\ KeySet(Cut(iter[r], key).keys) = KeySet(iter[r].keys) \ {key}
      BY <3>1, CutTakes DEF Current
    <3> QED  BY <2>3, <3>2
  <2>5. {seq[i] : i \in s} = {seq[i] : i \in r} \cup {key}
    BY <2>1
  <2> QED  BY <2>2, <2>4, <2>5
<1>12. D \subseteq T
  <2> HIDE DEF D, step, m, T
  <2>1. D \cap {{}} \subseteq T
    BY <1>10
  <2> QED  BY <1>4, <1>11, <2>1, LoopInduction
<1>13. S \in T
  BY <1>12
<1> QED  BY <1>9, <1>13

\* SetToSeq lists a finite set.
LEMMA SeqOfSet ==
  ASSUME NEW S, IsFiniteSet(S)
  PROVE  /\ Cardinality(S) \in Nat
         /\ SetToSeq(S) \in [1..Cardinality(S) -> S]
         /\ S = {SetToSeq(S)[i] : i \in 1..Cardinality(S)}
<1> DEFINE n == Cardinality(S)
           list == SetToSeq(S)
<1>1. n \in Nat /\ ExistsBijection(1..n, S)
  BY FS_CardinalityType
<1>2. PICK f : f \in Bijection(1..n, S)
  BY <1>1 DEF ExistsBijection
<1>3. f \in [1..n -> S] /\ IsInjective(f)
  BY <1>2 DEF Bijection, Injection, IsInjective
<1>4. list \in [1..n -> S] /\ IsInjective(list)
  BY <1>3, Zenon DEF SetToSeq
<1> HIDE DEF list, n
<1>5. list \in Injection(1..n, S)
  BY <1>4 DEF Injection, IsInjective
<1>6. Cardinality(1..n) = n
  BY <1>1, FS_Interval
<1>7. list \in Surjection(1..n, S)
  <2>1. Cardinality(1..n) = Cardinality(S) <=> list \in Surjection(1..n, S)
    BY <1>5, FS_Injection
  <2> QED  BY <1>6, <2>1 DEF n
<1>8. S = {list[i] : i \in 1..n}
  BY <1>4, <1>7 DEF Surjection
<1> QED  BY <1>1, <1>4, <1>8 DEF list, n

\* deleteBatch takes from every segment the keys of the batch that hash to it.
LEMMA BatchTakes ==
  ASSUME pairs \in [SegKeys -> Int], NEW idx \in [Segments -> Current],
         NEW group \in SUBSET SegKeys, IsFiniteSet(group)
  PROVE  /\ CutBatch(idx, group) \in [Segments -> Current]
         /\ \A g \in Segments :
              KeySet(CutBatch(idx, group)[g].keys) =
                KeySet(idx[g].keys) \ {key \in group : segmentIndexOf(key) = g}
<1>1. ASSUME NEW g \in Segments
      PROVE  LET S == {key \in group : segmentIndexOf(key) = g}
             IN /\ FoldLeft(Cut, idx[g], SetToSeq(S)) \in Current
                /\ KeySet(FoldLeft(Cut, idx[g], SetToSeq(S)).keys) = KeySet(idx[g].keys) \ S
  <2> DEFINE S == {key \in group : segmentIndexOf(key) = g}
             n == Cardinality(S)
             list == SetToSeq(S)
             seg == idx[g]
  <2>1. IsFiniteSet(S)
    BY FS_Subset
  <2>2. seg \in Current /\ S \subseteq SegKeys
    OBVIOUS
  <2> HIDE DEF S, seg
  <2>3. n \in Nat /\ list \in [1..n -> S] /\ S = {list[i] : i \in 1..n}
    BY <2>1, SeqOfSet
  <2> HIDE DEF n, list
  <2>4. list \in [1..n -> SegKeys]
    BY <2>2, <2>3
  <2>5. /\ FoldLeft(Cut, seg, list) \in Current
        /\ KeySet(FoldLeft(Cut, seg, list).keys) = KeySet(seg.keys) \ {list[i] : i \in 1..n}
    BY <2>2, <2>3, <2>4, CutAll
  <2>6. /\ FoldLeft(Cut, seg, list) \in Current
        /\ KeySet(FoldLeft(Cut, seg, list).keys) = KeySet(seg.keys) \ S
    BY <2>3, <2>5, Zenon
  <2> QED  BY <2>6 DEF S, seg, list
<1> QED  BY <1>1 DEF CutBatch

-----------------------------------------------------------------------------
(***************************************************************************)
(* The inductive invariant: every segment is sorted, keeps keys and        *)
(* entries in step, and holds exactly the stored keys of its hash.         *)
(***************************************************************************)
Held(f, g) == {key \in SegKeys : f[key] # Absent /\ segmentIndexOf(key) = g}
SegInv ==
  /\ pairs \in [SegKeys -> Int]
  /\ index \in [Segments -> Current]
  /\ \A g \in Segments : KeySet(index[g].keys) = Held(pairs, g)

LEMMA SegmentOfKey == \A key \in SegKeys : segmentIndexOf(key) \in Segments
BY SegmentAssumption DEF segmentIndexOf, Segments

\* A segment stays right when only pairs it does not hold change.
LEMMA StillGood ==
  ASSUME NEW f, NEW h, NEW seg \in GoodSegment(f), \A key \in KeySet(seg.keys) : h[key] = f[key]
  PROVE  seg \in GoodSegment(h)
<1>1. \A i \in 1..Len(seg.keys) : seg.keys[i] \in KeySet(seg.keys)
  BY DEF KeySet
<1>2. \A i \in 1..Len(seg.keys) : seg.vals[i] = h[seg.keys[i]]
  BY <1>1 DEF GoodSegment
<1> QED  BY <1>2 DEF GoodSegment

LEMMA IndexStep ==
  ASSUME NEW new \in [SegKeys -> Int], pairs' = new, NEW idx, index' = idx,
         DOMAIN idx = Segments, idx = [g \in Segments |-> idx[g]],
         \A g \in Segments : idx[g] \in GoodSegment(new) /\ KeySet(idx[g].keys) = Held(new, g)
  PROVE  SegInv'
<1>1. idx \in [Segments -> GoodSegment(new)]
  OBVIOUS
<1>2. Current' = GoodSegment(new)
  BY DEF Current, GoodSegment
<1>3. \A g \in Segments : Held(pairs, g)' = Held(new, g)
  BY DEF Held
<1>4. \A g \in Segments : KeySet(index[g].keys)' = KeySet(idx[g].keys)
  BY DEF KeySet
<1> QED  BY <1>1, <1>2, <1>3, <1>4 DEF SegInv

LEMMA SegInitHolds == SegInit => SegInv
<1> SUFFICES ASSUME SegInit PROVE SegInv
  OBVIOUS
<1>1. EmptySegment \in Current /\ KeySet(EmptySegment.keys) = {}
  BY DEF EmptySegment, Current, GoodSegment, Ascending, KeySet
<1>2. pairs \in [SegKeys -> Int] /\ \A g \in Segments : Held(pairs, g) = {}
  BY DEF SegInit, Absent, Held
<1> QED  BY <1>1, <1>2 DEF SegInit, SegInv

LEMMA SegSetKeeps == ASSUME SegInv, NEW key \in SegKeys, NEW size \in Sizes, SegSet(key, size) PROVE SegInv'
<1> DEFINE h == segmentIndexOf(key)
           new == [pairs EXCEPT ![key] = size]
           idx == [index EXCEPT ![h] = Put(index[h], key, size)]
<1>1. h \in Segments /\ size \in Int /\ size # Absent
  BY SegmentOfKey, PairAssumption DEF Absent
<1>2. /\ pairs \in [SegKeys -> Int]
      /\ \A g \in Segments : index[g] \in GoodSegment(pairs) /\ KeySet(index[g].keys) = Held(pairs, g)
      /\ index \in [Segments -> Current]
  BY DEF SegInv, Current
<1>3. pairs' = new /\ index' = idx /\ new \in [SegKeys -> Int]
  BY <1>1, <1>2 DEF SegSet
<1>4. /\ DOMAIN idx = Segments /\ idx = [g \in Segments |-> idx[g]]
      /\ idx[h] = Put(index[h], key, size) /\ \A g \in Segments : g # h => idx[g] = index[g]
  BY <1>1, <1>2
<1>5. new[key] = size /\ \A k \in SegKeys : k # key => new[k] = pairs[k]
  BY <1>2
<1>6. idx[h] \in GoodSegment(new) /\ KeySet(idx[h].keys) = Held(new, h)
  <2>1. /\ Put(index[h], key, size) \in GoodSegment(new)
        /\ KeySet(Put(index[h], key, size).keys) = KeySet(index[h].keys) \cup {key}
    BY <1>1, <1>2, PutAdds, ZenonT(30)
  <2> HIDE DEF new, idx
  <2>2. Held(new, h) = Held(pairs, h) \cup {key}
    <3> QED  BY <1>1, <1>5 DEF Held
  <2> QED  BY <1>1, <1>2, <1>4, <2>1, <2>2
<1> HIDE DEF idx, new
<1>7. ASSUME NEW g \in Segments, g # h
      PROVE  idx[g] \in GoodSegment(new) /\ KeySet(idx[g].keys) = Held(new, g)
  <2>1. idx[g] = index[g]
    BY <1>4, <1>7
  <2>2. Held(new, g) = Held(pairs, g)
    BY <1>5, <1>7 DEF Held
  <2>3. \A k \in KeySet(index[g].keys) : new[k] = pairs[k]
    BY <1>2, <1>5, <1>7 DEF Held
  <2>4. index[g] \in GoodSegment(pairs)
    BY <1>2
  <2>5. index[g] \in GoodSegment(new)
    BY <2>3, <2>4, StillGood
  <2> QED  BY <1>2, <2>1, <2>2, <2>5
<1>8. \A g \in Segments : idx[g] \in GoodSegment(new) /\ KeySet(idx[g].keys) = Held(new, g)
  BY <1>6, <1>7
<1> QED  BY <1>3, <1>4, <1>8, IndexStep

LEMMA SegBatchKeeps == ASSUME SegInv, NEW group \in SUBSET SegKeys, deleteBatch(group) PROVE SegInv'
<1> DEFINE idx == CutBatch(index, group)
           new == [key \in SegKeys |-> IF key \in group THEN Absent ELSE pairs[key]]
<1>1. IsFiniteSet(group)
  BY SegmentAssumption, FS_Subset
<1>2. /\ pairs \in [SegKeys -> Int] /\ index \in [Segments -> Current]
      /\ \A g \in Segments : KeySet(index[g].keys) = Held(pairs, g)
  BY DEF SegInv
<1>3. /\ idx \in [Segments -> Current]
      /\ \A g \in Segments :
           KeySet(idx[g].keys) = KeySet(index[g].keys) \ {key \in group : segmentIndexOf(key) = g}
  BY <1>1, <1>2, BatchTakes
<1>4. pairs' = new /\ index' = idx
  BY DEF deleteBatch
<1>5. new \in [SegKeys -> Int] /\ \A key \in SegKeys : new[key] = IF key \in group THEN Absent ELSE pairs[key]
  BY <1>2 DEF Absent
<1> HIDE DEF idx, new
<1>6. ASSUME NEW g \in Segments
      PROVE  idx[g] \in GoodSegment(new) /\ KeySet(idx[g].keys) = Held(new, g)
  <2>1. KeySet(idx[g].keys) = Held(new, g)
    BY <1>2, <1>3, <1>5 DEF Held
  <2>2. \A k \in KeySet(idx[g].keys) : new[k] = pairs[k]
    BY <1>5, <2>1 DEF Held
  <2>3. idx[g] \in GoodSegment(pairs)
    BY <1>3 DEF Current
  <2> QED  BY <2>1, <2>2, <2>3, StillGood
<1>7. DOMAIN idx = Segments /\ idx = [g \in Segments |-> idx[g]]
  BY <1>3
<1> QED  BY <1>4, <1>5, <1>6, <1>7, IndexStep

LEMMA SegNextKeeps == SegInv /\ [SegNext]_segVars => SegInv'
<1> SUFFICES ASSUME SegInv, [SegNext]_segVars PROVE SegInv'
  OBVIOUS
<1>1. ASSUME NEW key \in SegKeys, NEW size \in Sizes, SegSet(key, size) PROVE SegInv'
  BY <1>1, SegSetKeeps
<1>2. ASSUME NEW key \in SegKeys, SegDelete(key) PROVE SegInv'
  BY <1>2, SegBatchKeeps DEF SegDelete
<1>3. CASE SegFlush
  BY <1>3, SegBatchKeeps DEF SegFlush
<1>4. CASE UNCHANGED segVars
  BY <1>4 DEF segVars, SegInv, Current, GoodSegment, Held, KeySet
<1> QED  BY <1>1, <1>2, <1>3, <1>4 DEF SegNext

(***************************************************************************)
(* Every segment of a shard's index stays strictly sorted, has its entries *)
(* in step with its keys, and holds the pairs stored last, each in the     *)
(* segment of its hash (in_memory.go:86-119,127-172).                      *)
(***************************************************************************)
THEOREM IndexInvariant == SegSpec => []SegInv
BY SegInitHolds, SegNextKeeps, PTL DEF SegSpec

(***************************************************************************)
(* Get and Exists find by binary search exactly the keys stored, each with *)
(* the entry stored last, after any sequence of Set, Delete and batches,   *)
(* for any hash and any number of segments                                 *)
(* (in_memory.go:50-58,100-113,146-179).                                   *)
(***************************************************************************)
THEOREM SearchIsExact == SegSpec => []SearchExact
<1>1. SegInv => SearchExact
  <2> SUFFICES ASSUME SegInv, NEW key \in SegKeys
               PROVE  LET seg == index[segmentIndexOf(key)]
                      IN /\ Found(seg.keys, key) <=> pairs[key] # Absent
                         /\ Found(seg.keys, key) => seg.vals[Position(seg.keys, key) + 1] = pairs[key]
    BY DEF SearchExact
  <2> DEFINE seg == index[segmentIndexOf(key)]
             keys == seg.keys
  <2>1. seg \in GoodSegment(pairs) /\ KeySet(keys) = Held(pairs, segmentIndexOf(key))
    BY SegmentOfKey DEF SegInv, Current
  <2>2. /\ keys \in Seq(SegKeys) /\ Ascending(keys)
        /\ \A i \in 1..Len(keys) : seg.vals[i] = pairs[keys[i]]
    BY <2>1 DEF GoodSegment
  <2>3. key \in KeySet(keys) <=> pairs[key] # Absent
    BY <2>1 DEF Held
  <2> HIDE DEF keys
  <2>4. /\ Found(keys, key) <=> key \in KeySet(keys)
        /\ Found(keys, key) => Position(keys, key) + 1 \in 1..Len(keys) /\ keys[Position(keys, key) + 1] = key
    BY <2>2, SearchFinds
  <2> QED  BY <2>2, <2>3, <2>4 DEF keys
<1> QED  BY <1>1, IndexInvariant, PTL

-----------------------------------------------------------------------------
(***************************************************************************)
(* Keys: the segments' keys one after the other.                           *)
(***************************************************************************)
Once(keys) == \A i, j \in 1..Len(keys) : keys[i] = keys[j] => i = j

LEMMA JoinOnce ==
  ASSUME NEW a \in Seq(SegKeys), NEW b \in Seq(SegKeys), Once(a), Once(b),
         KeySet(a) \cap KeySet(b) = {}
  PROVE  /\ a \o b \in Seq(SegKeys)
         /\ Once(a \o b)
         /\ KeySet(a \o b) = KeySet(a) \cup KeySet(b)
<1> DEFINE c == a \o b
           m == Len(a)
           n == Len(b)
<1>1. /\ c \in Seq(SegKeys) /\ m \in Nat /\ n \in Nat /\ Len(c) = m + n
      /\ \A k \in 1..(m + n) : c[k] = IF k <= m THEN a[k] ELSE b[k - m]
  OBVIOUS
<1> HIDE DEF c, m, n
<1>2. \A k \in 1..m : k \in 1..(m + n) /\ c[k] = a[k]
  BY <1>1
<1>3. \A k \in 1..n : m + k \in 1..(m + n) /\ c[m + k] = b[k]
  <2>1. ASSUME NEW k \in 1..n PROVE m + k \in 1..(m + n) /\ c[m + k] = b[k]
    <3>1. m + k \in 1..(m + n) /\ ~(m + k <= m) /\ (m + k) - m = k
      BY <1>1
    <3> QED  BY <1>1, <3>1
  <2> QED  BY <2>1
<1>4. \A k \in 1..(m + n) : k \in 1..m \/ \E l \in 1..n : k = m + l
  <2>1. ASSUME NEW k \in 1..(m + n), k \notin 1..m PROVE \E l \in 1..n : k = m + l
    <3>1. k - m \in 1..n /\ k = m + (k - m)
      BY <1>1, <2>1
    <3> QED  BY <3>1
  <2> QED  BY <2>1
<1>5. \A k \in 1..m, l \in 1..n : a[k] # b[l]
  BY DEF KeySet, m, n
<1>6. Once(c)
  <2> SUFFICES ASSUME NEW i \in 1..(m + n), NEW j \in 1..(m + n), c[i] = c[j] PROVE i = j
    BY <1>1 DEF Once
  <2>1. CASE i \in 1..m /\ j \in 1..m
    BY <1>2, <2>1 DEF Once, m
  <2>2. CASE i \in 1..m /\ \E l \in 1..n : j = m + l
    BY <1>2, <1>3, <1>5, <2>2
  <2>3. CASE j \in 1..m /\ \E l \in 1..n : i = m + l
    BY <1>2, <1>3, <1>5, <2>3
  <2>4. CASE (\E k \in 1..n : i = m + k) /\ (\E l \in 1..n : j = m + l)
    <3>1. PICK k \in 1..n : i = m + k
      BY <2>4
    <3>2. PICK l \in 1..n : j = m + l
      BY <2>4
    <3>3. b[k] = b[l]
      BY <1>3, <3>1, <3>2
    <3>4. k = l
      BY <3>3 DEF Once, n
    <3> QED  BY <3>1, <3>2, <3>4
  <2> QED  BY <1>4, <2>1, <2>2, <2>3, <2>4
<1>7. KeySet(c) = KeySet(a) \cup KeySet(b)
  <2>1. KeySet(c) = {c[k] : k \in 1..(m + n)} /\ KeySet(a) = {a[k] : k \in 1..m} /\ KeySet(b) = {b[k] : k \in 1..n}
    BY <1>1 DEF KeySet, m, n
  <2>2. ASSUME NEW k \in 1..(m + n) PROVE c[k] \in KeySet(a) \cup KeySet(b)
    BY <1>2, <1>3, <1>4, <2>1
  <2>3. ASSUME NEW k \in 1..m PROVE a[k] \in KeySet(c)
    BY <1>2, <2>1
  <2>4. ASSUME NEW k \in 1..n PROVE b[k] \in KeySet(c)
    BY <1>3, <2>1
  <2> QED  BY <2>1, <2>2, <2>3, <2>4
<1> QED  BY <1>1, <1>6, <1>7 DEF c

\* Sequences that share no key, each without a repetition, are flattened to one without.
LEMMA FlattenOnce ==
  ASSUME NEW n \in Nat \ {0}, NEW seqs \in [1..n -> Seq(SegKeys)],
         \A i \in 1..n : Once(seqs[i]),
         \A i, j \in 1..n : i # j => KeySet(seqs[i]) \cap KeySet(seqs[j]) = {}
  PROVE  /\ FlattenSeq(seqs) \in Seq(SegKeys)
         /\ Once(FlattenSeq(seqs))
         /\ KeySet(FlattenSeq(seqs)) = UNION {KeySet(seqs[i]) : i \in 1..n}
<1> DEFINE D == 1..n
           V == Seq(SegKeys)
           step == [i \in D |-> i - 1]
           m == [i \in D |-> i]
           comb == [p \in D \X V |-> p[2] \o seqs[p[1]]]
<1>1. Ends(D, {1}, step, m)
  BY DEF Ends
<1>2. Yields(D, V, {1}, seqs, comb)
  <2>1. ASSUME NEW i \in D \ {1}, NEW v \in V PROVE comb[<<i, v>>] \in V
    <3>1. comb[<<i, v>>] = v \o seqs[i] /\ seqs[i] \in V
      OBVIOUS
    <3> QED  BY <3>1
  <2> QED  BY <2>1 DEF Yields
<1>3. PICK u \in [D -> V] :
        \A i \in D : u[i] = IF i \in {1} THEN seqs[i] ELSE comb[<<i, u[step[i]]>>]
  <2> DEFINE stop == {1}
             out == seqs
  <2>1. Ends(D, stop, step, m) /\ Yields(D, V, stop, out, comb)
    BY <1>1, <1>2
  <2> HIDE DEF D, V, step, m, comb, stop, out
  <2>2. \E f \in [D -> V] :
          \A i \in D : f[i] = IF i \in stop THEN out[i] ELSE comb[<<i, f[step[i]]>>]
    BY <2>1, LinearRecursion
  <2> QED  BY <2>2 DEF stop, out
<1>4. u = [i \in D |-> IF i = 1 THEN seqs[i] ELSE u[i - 1] \o seqs[i]]
  <2>1. ASSUME NEW i \in D PROVE u[i] = IF i = 1 THEN seqs[i] ELSE u[i - 1] \o seqs[i]
    <3>1. CASE i = 1
      BY <1>3, <3>1
    <3>2. CASE i # 1
      <4>1. step[i] = i - 1 /\ i - 1 \in D
        BY <3>2
      <4>2. u[i - 1] \in V /\ u[i] = comb[<<i, u[i - 1]>>]
        BY <1>3, <3>2, <4>1
      <4> QED  BY <3>2, <4>2
    <3> QED  BY <3>1, <3>2
  <2> QED  BY <1>3, <2>1, SMTT(30)
<1>5. Len(seqs) = n /\ n # 0
  OBVIOUS
<1> DEFINE flatten[i \in D] == IF i = 1 THEN seqs[i] ELSE flatten[i - 1] \o seqs[i]
<1>6. flatten = [i \in D |-> IF i = 1 THEN seqs[i] ELSE flatten[i - 1] \o seqs[i]]
  <2> HIDE DEF D
  <2> QED  BY <1>4
<1>7. FlattenSeq(seqs) = flatten[n]
  BY <1>5 DEF FlattenSeq
<1> HIDE DEF flatten
<1> DEFINE Upto(i) == UNION {KeySet(seqs[j]) : j \in 1..i}
           T == {i \in D : flatten[i] \in V /\ Once(flatten[i]) /\ KeySet(flatten[i]) = Upto(i)}
<1>8. ASSUME NEW i \in D, i = 1 PROVE i \in T
  <2>1. flatten[i] = seqs[1]
    BY <1>6, <1>8
  <2>2. Upto(1) = KeySet(seqs[1])
    OBVIOUS
  <2> QED  BY <1>8, <2>1, <2>2
<1>9. ASSUME NEW i \in D \ {1}, step[i] \in T PROVE i \in T
  <2> DEFINE a == flatten[i - 1]
             b == seqs[i]
  <2>1. i - 1 \in D /\ step[i] = i - 1
    OBVIOUS
  <2>2. a \in V /\ Once(a) /\ KeySet(a) = Upto(i - 1)
    BY <1>9, <2>1
  <2>3. flatten[i] = a \o b /\ b \in V /\ Once(b)
    BY <1>6
  <2>4. KeySet(a) \cap KeySet(b) = {}
    <3>1. \A j \in 1..(i - 1) : j \in D /\ j # i
      OBVIOUS
    <3> QED  BY <2>2, <3>1
  <2>5. Upto(i) = Upto(i - 1) \cup KeySet(b)
    <3>1. 1..i = (1..(i - 1)) \cup {i}
      OBVIOUS
    <3> QED  BY <3>1
  <2> HIDE DEF a, b, Upto
  <2>6. a \o b \in V /\ Once(a \o b) /\ KeySet(a \o b) = KeySet(a) \cup KeySet(b)
    BY <2>2, <2>3, <2>4, JoinOnce
  <2> QED  BY <2>2, <2>3, <2>5, <2>6
<1>10. D \subseteq T
  <2> DEFINE stop == {1}
  <2>1. D \cap stop \subseteq T
    BY <1>8
  <2>2. Ends(D, stop, step, m) /\ \A i \in D \ stop : step[i] \in T => i \in T
    BY <1>1, <1>9
  <2> HIDE DEF D, stop, step, m, T
  <2> QED  BY <2>1, <2>2, LoopInduction, SMTT(30)
<1>11. n \in T
  BY <1>10
<1> QED  BY <1>7, <1>11

(***************************************************************************)
(* A shard lists exactly its stored keys and none twice, whatever was      *)
(* stored and deleted before (in_memory.go:106-115,181-192).               *)
(***************************************************************************)
THEOREM ListIsExact == SegSpec => []ListExact
<1>1. SegInv => ListExact
  <2> DEFINE all == {key \in SegKeys : pairs[key] # Absent}
  <2> SUFFICES ASSUME SegInv PROVE IsInjective(KeysOf) /\ Range(KeysOf) = all
    BY DEF ListExact
  <2> DEFINE n == SegmentCount
             seqs == [g \in 1..n |-> index[g - 1].keys]
             list == FlattenSeq(seqs)
  <2>1. n \in Nat \ {0}
    BY SegmentAssumption
  <2>2. ASSUME NEW g \in 1..n
        PROVE  /\ seqs[g] \in Seq(SegKeys) /\ Once(seqs[g])
               /\ KeySet(seqs[g]) = {key \in all : segmentIndexOf(key) = g - 1}
    <3>1. g - 1 \in Segments /\ seqs[g] = index[g - 1].keys
      BY <2>1 DEF Segments
    <3>2. /\ index[g - 1] \in GoodSegment(pairs)
          /\ KeySet(seqs[g]) = {key \in all : segmentIndexOf(key) = g - 1}
      BY <3>1 DEF SegInv, Current, Held
    <3>3. seqs[g] \in Seq(SegKeys) /\ Ascending(seqs[g])
      BY <3>1, <3>2 DEF GoodSegment
    <3>4. \A k \in 1..Len(seqs[g]) : seqs[g][k] \in Nat
      BY <3>3, KeysAreNat
    <3>5. Once(seqs[g])
      <4> DEFINE keys == seqs[g]
      <4>1. ASSUME NEW i \in 1..Len(keys), NEW j \in 1..Len(keys), keys[i] = keys[j] PROVE i = j
        <5>1. ~(i < j) /\ ~(j < i)
          BY <3>3, <3>4, <4>1 DEF Ascending
        <5> QED  BY <5>1
      <4> QED  BY <4>1 DEF Once
    <3> QED  BY <3>2, <3>3, <3>5
  <2> HIDE DEF seqs, n
  <2>3. seqs \in [1..n -> Seq(SegKeys)]
    <3>1. seqs = [g \in 1..n |-> seqs[g]]
      BY DEF seqs
    <3> QED  BY <2>2, <3>1
  <2>4. \A i, j \in 1..n : i # j => KeySet(seqs[i]) \cap KeySet(seqs[j]) = {}
    <3>1. ASSUME NEW i \in 1..n, NEW j \in 1..n, NEW key, key \in KeySet(seqs[i]), key \in KeySet(seqs[j])
          PROVE  i = j
      <4>1. i - 1 = j - 1
        BY <2>2, <3>1
      <4> QED  BY <2>1, <4>1
    <3> QED  BY <3>1
  <2>5. list \in Seq(SegKeys) /\ Once(list) /\ KeySet(list) = UNION {KeySet(seqs[i]) : i \in 1..n}
    BY <2>1, <2>2, <2>3, <2>4, FlattenOnce
  <2>6. UNION {KeySet(seqs[i]) : i \in 1..n} = all
    <3>1. ASSUME NEW key \in all PROVE \E i \in 1..n : key \in KeySet(seqs[i])
      <4>1. key \in SegKeys
        OBVIOUS
      <4>2. segmentIndexOf(key) \in 0..(n - 1)
        BY <4>1, SegmentOfKey DEF Segments, n
      <4>3. segmentIndexOf(key) + 1 \in 1..n /\ (segmentIndexOf(key) + 1) - 1 = segmentIndexOf(key)
        BY <2>1, <4>2
      <4> QED  BY <2>2, <4>3
    <3>2. \A i \in 1..n : KeySet(seqs[i]) \subseteq all
      BY <2>2
    <3> QED  BY <3>1, <3>2
  <2>7. KeysOf = list
    BY DEF KeysOf, seqs, n
  <2> HIDE DEF list
  <2>8. DOMAIN list = 1..Len(list)
    BY <2>5
  <2>9. IsInjective(list)
    BY <2>5, <2>8, Zenon DEF Once, IsInjective
  <2>10. Range(list) = KeySet(list)
    BY <2>8, Zenon DEF Range, KeySet
  <2> QED  BY <2>5, <2>6, <2>7, <2>9, <2>10
<1> QED  BY <1>1, IndexInvariant, PTL
=============================================================================
