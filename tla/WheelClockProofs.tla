-------------------------- MODULE WheelClockProofs --------------------------
(***************************************************************************)
(* The timing wheel for every number of keys and slots and every length of *)
(* a tick: TypeOK, Coherent, and how late an entry can be.                 *)
(***************************************************************************)
EXTENDS WheelClock, TLAPS

\* Where an entry goes is a slot, and the turns it waits are a natural number.
LEMMA Placement ==
  ASSUME WheelTypeOK, now \in Nat, NEW at \in Int
  PROVE  SlotOf(at) \in Slots /\ RoundsOf(at) \in Nat
<1>1. SlotCount \in Nat /\ SlotCount > 0 /\ TickMs \in Nat /\ TickMs > 0 /\ NsPerMs \in Nat /\ NsPerMs > 0
  BY WheelAssumption
<1>2. Ms(at) \in Int /\ Ms(now) \in Int
  BY <1>1 DEF Ms
<1>3. Ticks(at) \in Nat
  BY <1>1, <1>2 DEF Ticks
<1>4. currentPos \in Nat
  BY <1>1 DEF WheelTypeOK, Slots
<1>5. SlotOf(at) \in Slots
  BY <1>1, <1>3, <1>4 DEF SlotOf, Slots
<1>6. RoundsOf(at) \in Nat
  BY <1>1, <1>3 DEF RoundsOf
<1> QED
  BY <1>5, <1>6

\* removeLocked yields slots of entries.
LEMMA WithoutType ==
  ASSUME WheelTypeOK, NEW key \in Keys
  PROVE  Without(key) \in [Slots -> SUBSET WheelEntry]
BY DEF WheelTypeOK, Without

\* Removing a key leaves no entry of that key in any slot.
LEMMA WithoutRemoves ==
  ASSUME WheelTypeOK, EntriesIndexed, NEW key \in Keys, NEW s \in Slots
  PROVE  Without(key)[s] = {e \in slots[s] : e.key # key}
<1>1. \A e \in slots[s] : e.key = key => keyIndex[key] = s
  BY DEF EntriesIndexed
<1>2. CASE keyIndex[key] = NoSlot
  <2>1. s # NoSlot
    BY WheelAssumption DEF Slots, NoSlot
  <2> QED
    BY <1>1, <1>2, <2>1 DEF Without, WheelTypeOK
<1>3. CASE keyIndex[key] # NoSlot
  <2>1. keyIndex[key] \in Slots
    BY <1>3 DEF WheelTypeOK
  <2>2. CASE s = keyIndex[key]
    BY <1>3, <2>1, <2>2 DEF Without, WheelTypeOK
  <2>3. CASE s # keyIndex[key]
    BY <1>1, <1>3, <2>1, <2>3 DEF Without, WheelTypeOK
  <2> QED
    BY <2>2, <2>3
<1> QED
  BY <1>2, <1>3

-----------------------------------------------------------------------------
\* Add moves the one entry of its key and its index together (hashed_wheel.go:53-82).
LEMMA AddPreserves ==
  ASSUME WheelTypeOK, Coherent, now \in Nat, NEW key \in Keys, NEW at \in Int,
         Add(key, at)
  PROVE  WheelTypeOK' /\ Coherent'
<1> USE DEF Coherent
<1>1. PICK smear \in Smears :
        LET t == at + smear
            new == [key |-> key, expireAt |-> t, rounds |-> RoundsOf(t)]
        IN /\ slots' = [Without(key) EXCEPT ![SlotOf(t)] = @ \cup {new}]
           /\ keyIndex' = [keyIndex EXCEPT ![key] = SlotOf(t)]
           /\ UNCHANGED currentPos
  BY DEF Add
<1> DEFINE t == at + smear
           new == [key |-> key, expireAt |-> t, rounds |-> RoundsOf(t)]
           W == Without(key)
           d == SlotOf(t)
<1>2. t \in Int
  BY <1>1, WheelAssumption DEF Smears
<1>3. d \in Slots /\ new \in WheelEntry
  BY <1>2, Placement DEF WheelEntry
<1>4. W \in [Slots -> SUBSET WheelEntry]
  BY WithoutType
<1>5. \A s \in Slots : W[s] = {e \in slots[s] : e.key # key}
  BY WithoutRemoves
<1>6. /\ slots' = [W EXCEPT ![d] = @ \cup {new}]
      /\ keyIndex' = [keyIndex EXCEPT ![key] = d]
      /\ currentPos' = currentPos
  BY <1>1
<1>7. new.key = key
  OBVIOUS
<1> HIDE DEF t, new, W, d
<1>8. WheelTypeOK'
  BY <1>3, <1>4, <1>6 DEF WheelTypeOK
<1>9. \A s \in Slots : slots'[s] = IF s = d THEN W[s] \cup {new} ELSE W[s]
  BY <1>3, <1>4, <1>6
<1>10. keyIndex'[key] = d /\ \A k \in Keys : k # key => keyIndex'[k] = keyIndex[k]
  BY <1>6 DEF WheelTypeOK
<1>11. \A s \in Slots : \A e \in slots'[s] : (e = new /\ s = d) \/ (e \in slots[s] /\ e.key # key)
  <2> TAKE s \in Slots
  <2>1. W[s] = {e \in slots[s] : e.key # key}
    BY <1>5
  <2>2. slots'[s] = IF s = d THEN W[s] \cup {new} ELSE W[s]
    BY <1>9
  <2> TAKE e \in slots'[s]
  <2>3. e \in W[s] \/ (s = d /\ e = new)
    BY <2>2
  <2> QED
    BY <2>1, <2>3
<1>12. \A s \in Slots : \A e \in slots[s] : e.key \in Keys
  BY DEF WheelTypeOK, WheelEntry
<1>13. EntriesIndexed'
  BY <1>7, <1>10, <1>11, <1>12 DEF EntriesIndexed
<1>14. IndexedPresent'
  <2> SUFFICES ASSUME NEW k \in Keys, keyIndex'[k] # NoSlot
               PROVE  \E e \in slots'[keyIndex'[k]] : e.key = k
    BY DEF IndexedPresent
  <2>1. CASE k = key
    BY <2>1, <1>3, <1>7, <1>9, <1>10
  <2>2. CASE k # key
    <3>1. keyIndex'[k] = keyIndex[k] /\ keyIndex[k] \in Slots
      BY <2>2, <1>10 DEF WheelTypeOK
    <3>2. PICK e \in slots[keyIndex[k]] : e.key = k
      BY <3>1 DEF IndexedPresent
    <3> QED
      BY <2>2, <3>1, <3>2, <1>5, <1>9
  <2> QED
    BY <2>1, <2>2
<1>15. OneEntryPerKey'
  BY <1>7, <1>11 DEF OneEntryPerKey
<1> QED
  BY <1>8, <1>13, <1>14, <1>15

\* Remove drops entry and index together.
LEMMA RemovePreserves ==
  ASSUME WheelTypeOK, Coherent, NEW key \in Keys, Remove(key)
  PROVE  WheelTypeOK' /\ Coherent'
<1> USE DEF Coherent
<1>1. slots' = Without(key) /\ keyIndex' = [keyIndex EXCEPT ![key] = NoSlot] /\ currentPos' = currentPos
  BY DEF Remove
<1>2. WheelTypeOK'
  BY <1>1, WithoutType DEF WheelTypeOK
<1>3. \A s \in Slots : slots'[s] = {e \in slots[s] : e.key # key}
  BY <1>1, WithoutRemoves
<1>4. keyIndex'[key] = NoSlot /\ \A k \in Keys : k # key => keyIndex'[k] = keyIndex[k]
  BY <1>1 DEF WheelTypeOK
<1>5. \A s \in Slots : \A e \in slots[s] : e.key \in Keys
  BY DEF WheelTypeOK, WheelEntry
<1>6. EntriesIndexed'
  BY <1>3, <1>4, <1>5 DEF EntriesIndexed
<1>7. IndexedPresent'
  <2> SUFFICES ASSUME NEW k \in Keys, keyIndex'[k] # NoSlot
               PROVE  \E e \in slots'[keyIndex'[k]] : e.key = k
    BY DEF IndexedPresent
  <2>1. k # key /\ keyIndex'[k] = keyIndex[k] /\ keyIndex[k] \in Slots
    BY <1>4 DEF WheelTypeOK
  <2>2. PICK e \in slots[keyIndex[k]] : e.key = k
    BY <2>1 DEF IndexedPresent
  <2> QED
    BY <1>3, <2>1, <2>2
<1>8. OneEntryPerKey'
  BY <1>3 DEF OneEntryPerKey
<1> QED
  BY <1>2, <1>6, <1>7, <1>8

\* Advance unindexes exactly the entries it takes out.
LEMMA AdvancePreserves ==
  ASSUME WheelTypeOK, Coherent, Advance
  PROVE  WheelTypeOK' /\ Coherent'
<1> USE DEF Coherent
<1> DEFINE here == slots[currentPos]
           kept == {Visited(e) : e \in {f \in here : ~IsDue(f)}}
<1>1. currentPos \in Slots /\ here \in SUBSET WheelEntry
  BY DEF WheelTypeOK
<1>2. \A e \in WheelEntry : Visited(e) \in WheelEntry /\ Visited(e).key = e.key
  BY DEF Visited, WheelEntry
<1>3. kept \in SUBSET WheelEntry
  BY <1>1, <1>2
<1>4. /\ slots' = [slots EXCEPT ![currentPos] = kept]
      /\ keyIndex' = [k \in Keys |-> IF k \in Expired THEN NoSlot ELSE keyIndex[k]]
  BY DEF Advance
<1>5. currentPos' \in Slots
  BY <1>1, WheelAssumption DEF Advance, Slots
<1>6. WheelTypeOK'
  BY <1>1, <1>3, <1>4, <1>5 DEF WheelTypeOK
<1>7. \A s \in Slots : slots'[s] = IF s = currentPos THEN kept ELSE slots[s]
  BY <1>4 DEF WheelTypeOK
<1>8. \A e \in kept : \E f \in here : ~IsDue(f) /\ e = Visited(f) /\ e.key = f.key
  BY <1>1, <1>2
<1>9. \A k \in Keys : k \in Expired <=> \E f \in here : IsDue(f) /\ f.key = k
  BY <1>1 DEF Expired
<1>10. \A s \in Slots : \A e \in slots[s] : e.key \in Keys
  BY DEF WheelTypeOK, WheelEntry
<1>11. \A f \in here : ~IsDue(f) => f.key \notin Expired
  BY <1>1, <1>9, <1>10 DEF OneEntryPerKey
<1>12. \A s \in Slots : s # currentPos => \A e \in slots[s] : e.key \notin Expired
  BY <1>1, <1>9, <1>10 DEF EntriesIndexed
<1>13. \A f \in here : ~IsDue(f) => Visited(f) \in kept
  OBVIOUS
<1> HIDE DEF here, kept
<1>14. EntriesIndexed'
  <2> SUFFICES ASSUME NEW s \in Slots, NEW e \in slots'[s]
               PROVE  keyIndex'[e.key] = s
    BY DEF EntriesIndexed
  <2>1. CASE s = currentPos
    <3>1. PICK f \in here : ~IsDue(f) /\ e.key = f.key
      BY <2>1, <1>7, <1>8
    <3>2. f.key \in Keys /\ keyIndex[f.key] = s
      BY <2>1, <3>1, <1>10, <1>1 DEF EntriesIndexed, here
    <3> QED
      BY <3>1, <3>2, <1>4, <1>11
  <2>2. CASE s # currentPos
    BY <2>2, <1>4, <1>7, <1>10, <1>12 DEF EntriesIndexed
  <2> QED
    BY <2>1, <2>2
<1>15. IndexedPresent'
  <2> SUFFICES ASSUME NEW k \in Keys, keyIndex'[k] # NoSlot
               PROVE  \E e \in slots'[keyIndex'[k]] : e.key = k
    BY DEF IndexedPresent
  <2>1. k \notin Expired /\ keyIndex'[k] = keyIndex[k]
    BY <1>4
  <2>2. keyIndex[k] \in Slots
    BY <2>1 DEF WheelTypeOK
  <2>3. PICK f \in slots[keyIndex[k]] : f.key = k
    BY <2>1 DEF IndexedPresent
  <2>4. CASE keyIndex[k] = currentPos
    <3>1. f \in here /\ ~IsDue(f)
      BY <2>1, <2>3, <2>4, <1>9 DEF here
    <3>2. Visited(f) \in kept /\ Visited(f).key = k
      BY <3>1, <2>3, <1>1, <1>2, <1>13
    <3> QED
      BY <2>1, <2>2, <2>4, <3>2, <1>7
  <2>5. CASE keyIndex[k] # currentPos
    BY <2>1, <2>2, <2>3, <2>5, <1>7
  <2> QED
    BY <2>4, <2>5
<1>16. OneEntryPerKey'
  <2> SUFFICES ASSUME NEW s \in Slots, NEW e \in slots'[s], NEW f \in slots'[s], e.key = f.key
               PROVE  e = f
    BY DEF OneEntryPerKey
  <2>1. CASE s = currentPos
    <3>1. PICK g \in here : e = Visited(g) /\ e.key = g.key
      BY <2>1, <1>7, <1>8
    <3>2. PICK h \in here : f = Visited(h) /\ f.key = h.key
      BY <2>1, <1>7, <1>8
    <3>3. g = h
      BY <3>1, <3>2, <1>1 DEF OneEntryPerKey, here
    <3> QED
      BY <3>1, <3>2, <3>3
  <2>2. CASE s # currentPos
    BY <2>2, <1>7 DEF OneEntryPerKey
  <2> QED
    BY <2>1, <2>2
<1> QED
  BY <1>6, <1>14, <1>15, <1>16

-----------------------------------------------------------------------------
(***************************************************************************)
(* The index and the slots of the wheel describe the same timers, and the  *)
(* wheel keeps its types, whatever callers add and remove between ticks.   *)
(* The inductive invariant is the two together: EntriesIndexed is what     *)
(* makes removeLocked find the entry it must take out before Add puts in a *)
(* second one.                                                             *)
(***************************************************************************)
THEOREM WheelCoherent == Spec => [](TypeOK /\ Coherent)
<1>1. Init => TypeOK /\ Coherent
  <2> SUFFICES ASSUME Init PROVE TypeOK /\ Coherent
    OBVIOUS
  <2>1. 0 \in Slots
    BY WheelAssumption DEF Slots
  <2>2. TypeOK
    BY <2>1 DEF Init, WheelInit, TypeOK, WheelTypeOK
  <2>3. Coherent
    BY DEF Init, WheelInit, Coherent, EntriesIndexed, IndexedPresent, OneEntryPerKey
  <2> QED
    BY <2>2, <2>3
<1>2. TypeOK /\ Coherent /\ [Next]_vars => (TypeOK /\ Coherent)'
  <2> SUFFICES ASSUME TypeOK, Coherent, [Next]_vars
               PROVE  TypeOK' /\ Coherent'
    OBVIOUS
  <2>1. WheelTypeOK /\ now \in Nat /\ tick \in BOOLEAN
    BY DEF TypeOK
  <2>2. ASSUME UNCHANGED wheelVars
        PROVE  WheelTypeOK' /\ Coherent'
    BY <2>1, <2>2 DEF wheelVars, WheelTypeOK, Coherent, EntriesIndexed, IndexedPresent, OneEntryPerKey
  <2>3. CASE Clock
    <3>1. WheelTypeOK' /\ Coherent'
      BY <2>2, <2>3 DEF Clock
    <3>2. now' \in Nat
      BY <2>1, <2>3 DEF Clock
    <3>3. tick' \in BOOLEAN
      BY <2>3 DEF Clock
    <3> QED
      BY <3>1, <3>2, <3>3 DEF TypeOK
  <2>4. CASE WheelTick
    <3>1. WheelTypeOK' /\ Coherent'
      BY <2>1, <2>4, AdvancePreserves DEF WheelTick
    <3> QED
      BY <2>1, <2>4, <3>1 DEF WheelTick, TypeOK
  <2>5. ASSUME NEW k \in Keys, AddKey(k)
        PROVE  TypeOK' /\ Coherent'
    <3>1. PICK d \in Delays : Add(k, now + d)
      BY <2>5 DEF AddKey
    <3>2. now + d \in Int
      BY <2>1, <3>1, WheelClockAssumption
    <3>3. WheelTypeOK' /\ Coherent'
      BY <2>1, <3>1, <3>2, AddPreserves
    <3> QED
      BY <2>1, <2>5, <3>3 DEF AddKey, TypeOK
  <2>6. ASSUME NEW k \in Keys, RemoveKey(k)
        PROVE  TypeOK' /\ Coherent'
    <3>1. WheelTypeOK' /\ Coherent'
      BY <2>1, <2>6, RemovePreserves DEF RemoveKey
    <3> QED
      BY <2>1, <2>6, <3>1 DEF RemoveKey, TypeOK
  <2>7. CASE UNCHANGED vars
    <3>1. WheelTypeOK' /\ Coherent'
      BY <2>2, <2>7 DEF vars, wheelVars
    <3> QED
      BY <2>1, <2>7, <3>1 DEF vars, TypeOK
  <2> QED
    BY <2>3, <2>4, <2>5, <2>6, <2>7 DEF Next
<1> QED
  BY <1>1, <1>2, PTL DEF Spec

-----------------------------------------------------------------------------
(***************************************************************************)
(* How late an entry can be.  With "a" turns of Advance done so far, the   *)
(* slot of an entry is visited next by turn a + d, and the visit that      *)
(* finds no rounds left comes within one turn of the wheel after the       *)
(* deadline.                                                               *)
(***************************************************************************)
Period == TickMs * NsPerMs

Phase(a) ==
  /\ currentPos = a % SlotCount
  /\ tick => now = (a + 1) * Period
  /\ ~tick => a * Period <= now /\ now < (a + 1) * Period

Timely(a, s, e) ==
  \E d \in Slots :
    /\ (a + d) % SlotCount = s
    /\ (a + d + e.rounds * SlotCount + 1) * TickMs < Ms(e.expireAt) + SlotCount * TickMs

TurnInv == \E a \in Nat : Phase(a) /\ \A s \in Slots : \A e \in slots[s] : Timely(a, s, e)

\* Division by the number of slots.
LEMMA SlotMod ==
  ASSUME NEW x \in Nat
  PROVE  /\ x % SlotCount \in Slots
         /\ x \div SlotCount \in Nat
         /\ x = SlotCount * (x \div SlotCount) + (x % SlotCount)
BY WheelAssumption DEF Slots

\* A multiple of n other than 0 is at least n away from 0.
LEMMA FarMultiple ==
  ASSUME NEW n \in Nat, NEW q \in Int, q # 0
  PROVE  n * q >= n \/ n * q <= -n
<1>1. CASE q >= 1
  BY <1>1
<1>2. CASE q <= -1
  BY <1>2
<1> QED
  BY <1>1, <1>2

\* Numbers less than a turn apart fall into different slots.
LEMMA SlotsDiffer ==
  ASSUME NEW x \in Nat, NEW d \in Slots, (x + d) % SlotCount = x % SlotCount
  PROVE  d = 0
<1> DEFINE q == (x + d) \div SlotCount - x \div SlotCount
<1>1. d \in Nat /\ d < SlotCount /\ x + d \in Nat /\ SlotCount \in Nat
  BY WheelAssumption DEF Slots
<1>2. q \in Int /\ SlotCount * q = d
  BY <1>1, SlotMod
<1>3. q = 0
  BY <1>1, <1>2, FarMultiple
<1> QED
  BY <1>1, <1>2, <1>3

\* Numbers whole turns apart fall into the same slot.
LEMMA SameSlot ==
  ASSUME NEW x \in Nat, NEW y \in Nat, NEW k \in Int, x = y + SlotCount * k
  PROVE  x % SlotCount = y % SlotCount
<1> DEFINE q == k + y \div SlotCount - x \div SlotCount
<1>1. /\ x % SlotCount \in Nat /\ x % SlotCount < SlotCount
      /\ y % SlotCount \in Nat /\ y % SlotCount < SlotCount
      /\ q \in Int /\ SlotCount \in Nat
  BY SlotMod, WheelAssumption DEF Slots
<1>2. (x % SlotCount) - (y % SlotCount) = SlotCount * q
  BY SlotMod, WheelAssumption
<1>3. q = 0
  BY <1>1, <1>2, FarMultiple
<1> QED
  BY <1>1, <1>2, <1>3

\* Milliseconds round nanoseconds down.
LEMMA MsBounds ==
  ASSUME NEW x \in Int
  PROVE  Ms(x) \in Int /\ NsPerMs * Ms(x) <= x /\ x < NsPerMs * Ms(x) + NsPerMs
BY WheelAssumption DEF Ms

\* Rounding down keeps the order with whole milliseconds.
LEMMA MsOrder ==
  ASSUME NEW x \in Int, NEW m \in Int
  PROVE  /\ m * NsPerMs <= x => m <= Ms(x)
         /\ x <= m * NsPerMs => Ms(x) <= m
<1>1. NsPerMs \in Nat /\ NsPerMs >= 1 /\ Ms(x) \in Int
  BY MsBounds, WheelAssumption
<1>2. NsPerMs * Ms(x) <= x /\ x < NsPerMs * Ms(x) + NsPerMs
  BY MsBounds
<1> DEFINE u == m - Ms(x)
<1>3. u \in Int /\ m * NsPerMs = NsPerMs * Ms(x) + NsPerMs * u
  BY <1>1
<1>4. u >= 1 => NsPerMs * u >= NsPerMs
  BY <1>1, <1>3
<1>5. u <= -1 => NsPerMs * u <= -NsPerMs
  BY <1>1, <1>3
<1>6. m * NsPerMs <= x => m <= Ms(x)
  BY <1>1, <1>2, <1>3, <1>4
<1>7. x <= m * NsPerMs => Ms(x) <= m
  BY <1>1, <1>2, <1>3, <1>5
<1> QED
  BY <1>6, <1>7

\* Between two turns the clock lies in the tick that the turns so far leave.
LEMMA PhaseMs ==
  ASSUME now \in Nat, tick \in BOOLEAN, NEW a \in Nat, Phase(a)
  PROVE  a * TickMs <= Ms(now) /\ Ms(now) <= (a + 1) * TickMs /\ Ms(now) \in Int
<1>1. TickMs \in Nat /\ NsPerMs \in Nat
  BY WheelAssumption
<1>2. a * Period = (a * TickMs) * NsPerMs /\ (a + 1) * Period = ((a + 1) * TickMs) * NsPerMs
  BY <1>1 DEF Period
<1>3. Period \in Nat /\ a * Period <= (a + 1) * Period
  BY <1>1 DEF Period
<1>4. a * Period <= now /\ now <= (a + 1) * Period
  BY <1>3 DEF Phase
<1>5. a * TickMs \in Int /\ (a + 1) * TickMs \in Int
  BY <1>1
<1> QED
  BY <1>2, <1>4, <1>5, MsOrder, MsBounds

\* A new entry is in time: Add rounds its delay down to whole ticks, so that the visit it
\* waits for is at most a tick and a smear late (hashed_wheel.go:62-72).
LEMMA PlacedTimely ==
  ASSUME SlotCount > 1, WheelTypeOK, now \in Nat, tick \in BOOLEAN, NEW a \in Nat, Phase(a),
         NEW t \in Int, t > now - TickMs \div 4, NEW e, e.expireAt = t, e.rounds = RoundsOf(t)
  PROVE  Timely(a, SlotOf(t), e)
<1> DEFINE n == Ticks(t)
           d == n % SlotCount
           r == n \div SlotCount
<1>0. /\ TickMs \in Nat /\ TickMs >= 4 /\ NsPerMs \in Nat /\ NsPerMs >= 1
      /\ SlotCount \in Nat /\ SlotCount >= 2
  BY WheelAssumption
<1>1. Ms(t) \in Int /\ Ms(now) \in Int
  BY MsBounds
<1>2. n \in Nat /\ n * TickMs <= (IF Ms(t) - Ms(now) < 0 THEN 0 ELSE Ms(t) - Ms(now))
  BY <1>0, <1>1 DEF Ticks
<1> HIDE DEF n
<1>3. d \in Slots /\ r \in Nat /\ n = SlotCount * r + d
  BY <1>2, SlotMod
<1>4. (a + d) % SlotCount = SlotOf(t)
  <2>1. /\ a % SlotCount \in Nat /\ a \div SlotCount \in Nat
        /\ a = SlotCount * (a \div SlotCount) + (a % SlotCount)
    BY SlotMod, <1>0 DEF Slots
  <2>2. d \in Nat
    BY <1>0, <1>3 DEF Slots
  <2> DEFINE k == a \div SlotCount - r
  <2>3. k \in Int /\ a + d \in Nat /\ (a % SlotCount) + n \in Nat
    BY <1>2, <1>3, <2>1, <2>2
  <2>4. a + d = ((a % SlotCount) + n) + SlotCount * k
    BY <1>0, <1>2, <1>3, <2>1, <2>2
  <2>5. (a + d) % SlotCount = ((a % SlotCount) + n) % SlotCount
    BY <2>3, <2>4, SameSlot
  <2> QED
    BY <2>5 DEF SlotOf, Phase, n
<1>5. (a + d + e.rounds * SlotCount + 1) * TickMs = a * TickMs + n * TickMs + TickMs
  <2>1. a + d + r * SlotCount + 1 = a + n + 1 /\ e.rounds = r
    BY <1>0, <1>2, <1>3 DEF RoundsOf, n, Slots
  <2> QED
    BY <1>0, <1>2, <2>1
<1>6. Ms(now) - Ms(t) < TickMs
  <2>1. /\ NsPerMs * Ms(now) <= now /\ t < NsPerMs * Ms(t) + NsPerMs
    BY MsBounds
  <2>2. NsPerMs * (Ms(now) - Ms(t)) = NsPerMs * Ms(now) - NsPerMs * Ms(t)
    BY <1>0, <1>1
  <2>3. TickMs \div 4 \in Nat /\ TickMs \div 4 < TickMs
    BY <1>0
  <2>4. NsPerMs * (Ms(now) - Ms(t)) < TickMs \div 4 + NsPerMs
    BY <1>0, <1>1, <2>1, <2>2, <2>3
  <2>5. Ms(now) - Ms(t) >= TickMs => NsPerMs * (Ms(now) - Ms(t)) >= NsPerMs * TickMs
    BY <1>0, <1>1
  <2>6. NsPerMs * TickMs >= NsPerMs + TickMs - 1
    <3>1. (NsPerMs - 1) * (TickMs - 1) >= 0
      BY <1>0
    <3> QED
      BY <1>0, <3>1
  <2> QED
    BY <1>0, <1>1, <2>3, <2>4, <2>5, <2>6
<1>7. SlotCount * TickMs >= 2 * TickMs
  BY <1>0
<1>8. a * TickMs <= Ms(now) /\ a * TickMs \in Int /\ n * TickMs \in Int /\ SlotCount * TickMs \in Int
  BY <1>0, <1>2, PhaseMs
<1>9. a * TickMs + n * TickMs + TickMs < Ms(t) + SlotCount * TickMs
  <2> DEFINE x == a * TickMs
             y == n * TickMs
             z == SlotCount * TickMs
  <2>1. x \in Int /\ y \in Int /\ z \in Int /\ x <= Ms(now) /\ z >= 2 * TickMs
    BY <1>7, <1>8
  <2>2. y <= (IF Ms(t) - Ms(now) < 0 THEN 0 ELSE Ms(t) - Ms(now))
    BY <1>2
  <2> HIDE DEF x, y, z
  <2>3. x + y + TickMs < Ms(t) + z
    BY <1>0, <1>1, <1>6, <2>1, <2>2
  <2> QED
    BY <2>3 DEF x, y, z
<1> QED
  BY <1>3, <1>4, <1>5, <1>9 DEF Timely

\* Add keeps the other entries where they are.
LEMMA AddTimely ==
  ASSUME SlotCount > 1, TypeOK, Coherent, TurnInv, NEW key \in Keys, NEW at \in Int, at >= now,
         Add(key, at), UNCHANGED <<now, tick>>
  PROVE  TurnInv'
<1>0. WheelTypeOK /\ now \in Nat /\ tick \in BOOLEAN
  BY DEF TypeOK
<1>1. PICK smear \in Smears :
        LET t == at + smear
            new == [key |-> key, expireAt |-> t, rounds |-> RoundsOf(t)]
        IN /\ slots' = [Without(key) EXCEPT ![SlotOf(t)] = @ \cup {new}]
           /\ UNCHANGED currentPos
  BY DEF Add
<1> DEFINE t == at + smear
           new == [key |-> key, expireAt |-> t, rounds |-> RoundsOf(t)]
<1>2. PICK a \in Nat : Phase(a) /\ \A s \in Slots : \A e \in slots[s] : Timely(a, s, e)
  BY DEF TurnInv
<1>3. t \in Int /\ t > now - TickMs \div 4
  BY <1>0, <1>1, WheelAssumption DEF Smears
<1>4. Timely(a, SlotOf(t), new)
  BY <1>0, <1>2, <1>3, PlacedTimely
<1>5. SlotOf(t) \in Slots
  BY <1>0, <1>3, Placement
<1>6. \A s \in Slots : \A e \in slots'[s] : e \in slots[s] \/ (s = SlotOf(t) /\ e = new)
  BY <1>0, <1>1, <1>5, WithoutType, WithoutRemoves DEF Coherent
<1>7. \A s \in Slots : \A e \in slots'[s] : Timely(a, s, e)
  BY <1>2, <1>4, <1>6
<1>8. Phase(a)'
  BY <1>1, <1>2 DEF Phase
<1>9. \A s \in Slots : \A e \in slots'[s] : Timely(a, s, e)'
  BY <1>7 DEF Timely
<1> QED
  BY <1>8, <1>9 DEF TurnInv

\* Advance: what stays in the slot it visits has a round left or is not due, and is seen
\* again one turn later; every other slot comes one tick nearer (hashed_wheel.go:100-140).
LEMMA AdvanceTimely ==
  ASSUME TypeOK, TurnInv, WheelTick
  PROVE  TurnInv'
<1>0. /\ WheelTypeOK /\ now \in Nat /\ tick /\ ~tick' /\ now' = now
      /\ slots' = [slots EXCEPT ![currentPos] = {Visited(e) : e \in {f \in slots[currentPos] : ~IsDue(f)}}]
      /\ currentPos' = (currentPos + 1) % SlotCount
  BY DEF TypeOK, WheelTick, Advance
<1>1. /\ TickMs \in Nat /\ TickMs >= 4 /\ NsPerMs \in Nat /\ NsPerMs >= 1
      /\ SlotCount \in Nat /\ SlotCount >= 1
  BY WheelAssumption
<1>2. PICK a \in Nat : Phase(a) /\ \A s \in Slots : \A e \in slots[s] : Timely(a, s, e)
  BY DEF TurnInv
<1>3. currentPos = a % SlotCount /\ currentPos \in Slots /\ now = (a + 1) * Period
  BY <1>0, <1>2 DEF Phase, WheelTypeOK
<1>4. Ms(now) = (a + 1) * TickMs /\ (a + 1) * TickMs \in Int
  <2>1. now = ((a + 1) * TickMs) * NsPerMs /\ (a + 1) * TickMs \in Int
    BY <1>1, <1>3 DEF Period
  <2> QED
    BY <1>0, <2>1, MsOrder, MsBounds
<1>5. Phase(a + 1)'
  <2>1. currentPos' = (a + 1) % SlotCount
    <3>1. a \div SlotCount \in Nat /\ a = SlotCount * (a \div SlotCount) + (a % SlotCount)
      BY SlotMod
    <3>2. currentPos + 1 \in Nat /\ a + 1 \in Nat
      BY <1>1, <1>3 DEF Slots
    <3>3. a + 1 = currentPos + 1 + SlotCount * (a \div SlotCount)
      BY <1>1, <1>3, <3>1, <3>2
    <3>4. (a + 1) % SlotCount = (currentPos + 1) % SlotCount
      BY <3>1, <3>2, <3>3, SameSlot
    <3> QED
      BY <1>0, <3>4
  <2>2. Period \in Nat /\ Period >= 1
    BY <1>1 DEF Period
  <2>3. (a + 1) * Period < (a + 1 + 1) * Period
    BY <2>2
  <2> QED
    BY <1>0, <1>3, <2>1, <2>2, <2>3 DEF Phase, Period
<1>6. ASSUME NEW s \in Slots, NEW e \in slots'[s]
      PROVE  Timely(a + 1, s, e)
  <2>1. CASE s # currentPos
    <3>1. e \in slots[s]
      BY <1>0, <1>6, <2>1 DEF WheelTypeOK
    <3>2. PICK d \in Slots :
            /\ (a + d) % SlotCount = s
            /\ (a + d + e.rounds * SlotCount + 1) * TickMs < Ms(e.expireAt) + SlotCount * TickMs
      BY <1>2, <3>1 DEF Timely
    <3>3. d # 0
      BY <1>3, <2>1, <3>2
    <3>4. d - 1 \in Slots /\ a + 1 + (d - 1) = a + d
      BY <1>1, <3>2, <3>3 DEF Slots
    <3> QED
      BY <3>2, <3>4 DEF Timely
  <2>2. CASE s = currentPos
    <3>1. PICK f \in slots[s] : ~IsDue(f) /\ e = Visited(f)
      BY <1>0, <1>6, <2>2 DEF WheelTypeOK
    <3>2. f \in WheelEntry
      BY <1>0, <3>1 DEF WheelTypeOK
    <3>3. f.rounds \in Nat /\ Ms(f.expireAt) \in Int
      BY <3>2, MsBounds DEF WheelEntry
    <3>4. PICK d \in Slots :
            /\ (a + d) % SlotCount = s
            /\ (a + d + f.rounds * SlotCount + 1) * TickMs < Ms(f.expireAt) + SlotCount * TickMs
      BY <1>2, <3>1 DEF Timely
    <3>5. d = 0
      BY <1>3, <2>2, <3>4, SlotsDiffer
    <3> DEFINE last == SlotCount - 1
    <3>6. last \in Slots /\ a + 1 + last = a + SlotCount
      BY <1>1 DEF Slots
    <3>7. (a + 1 + last) % SlotCount = s
      <4>1. a + SlotCount \in Nat /\ a + SlotCount = a + SlotCount * 1
        BY <1>1
      <4> QED
        BY <1>3, <2>2, <3>6, <4>1, SameSlot
    <3>8. CASE f.rounds > 0
      <4>1. e.rounds = f.rounds - 1 /\ e.expireAt = f.expireAt
        BY <3>1, <3>2, <3>8 DEF Visited, WheelEntry
      <4>2. a + 1 + last + e.rounds * SlotCount + 1 = a + d + f.rounds * SlotCount + 1
        BY <1>1, <3>3, <3>5, <3>6, <4>1
      <4> QED
        BY <3>4, <3>6, <3>7, <4>1, <4>2 DEF Timely
    <3>9. CASE f.rounds = 0
      <4>1. e = f /\ Ms(f.expireAt) > Ms(now)
        BY <1>0, <3>1, <3>3, <3>9, MsBounds DEF Visited, IsDue
      <4>2. a + 1 + last + e.rounds * SlotCount + 1 = a + 1 + SlotCount
        BY <1>1, <3>6, <3>9, <4>1
      <4>3. (a + 1 + SlotCount) * TickMs = (a + 1) * TickMs + SlotCount * TickMs
        BY <1>1
      <4>4. SlotCount * TickMs \in Int
        BY <1>1
      <4>5. (a + 1) * TickMs + SlotCount * TickMs < Ms(e.expireAt) + SlotCount * TickMs
        BY <1>4, <3>3, <4>1, <4>4
      <4> QED
        BY <3>6, <3>7, <4>2, <4>3, <4>5 DEF Timely
    <3> QED
      BY <3>3, <3>8, <3>9
  <2> QED
    BY <2>1, <2>2
<1>7. \A s \in Slots : \A e \in slots'[s] : Timely(a + 1, s, e)'
  BY <1>6 DEF Timely
<1> QED
  BY <1>5, <1>7 DEF TurnInv

\* The ticker fires exactly when a period is over.
LEMMA ClockTimely ==
  ASSUME TypeOK, TurnInv, Clock
  PROVE  TurnInv'
<1>0. /\ now \in Nat /\ ~tick /\ now' = now + 1 /\ UNCHANGED <<slots, currentPos>>
      /\ tick' = ((now + 1) % Period = 0)
  BY DEF TypeOK, Clock, wheelVars, Period
<1>1. PICK a \in Nat : Phase(a) /\ \A s \in Slots : \A e \in slots[s] : Timely(a, s, e)
  BY DEF TurnInv
<1>2. Period \in Nat /\ Period >= 1
  BY WheelAssumption DEF Period
<1>3. a * Period <= now /\ now < (a + 1) * Period /\ a * Period \in Int /\ (a + 1) * Period \in Int
  BY <1>0, <1>1, <1>2 DEF Phase
<1> DEFINE q == (now + 1) \div Period
           m == (now + 1) % Period
<1>4. q \in Int /\ m \in Nat /\ m < Period /\ now + 1 = Period * q + m
  BY <1>0, <1>2
<1>5. /\ Period * (q - a) = Period * q - a * Period
      /\ Period * (q - (a + 1)) = Period * q - (a + 1) * Period
      /\ (a + 1) * Period = a * Period + Period
  BY <1>2, <1>4
<1> HIDE DEF q, m
<1>6. CASE now + 1 = (a + 1) * Period
  <2>0. Period * q \in Int
    BY <1>2, <1>4
  <2>1. Period * (q - (a + 1)) = -m
    BY <1>3, <1>4, <1>5, <1>6, <2>0
  <2>2. q - (a + 1) = 0
    BY <1>2, <1>4, <2>1, FarMultiple
  <2>3. m = 0
    BY <1>2, <1>4, <2>1, <2>2
  <2>4. tick'
    BY <1>0, <2>3 DEF m
  <2> QED
    BY <1>0, <1>1, <1>6, <2>4 DEF Phase, TurnInv, Timely, Period
<1>7. CASE now + 1 < (a + 1) * Period
  <2>1. m # 0
    <3> SUFFICES ASSUME m = 0 PROVE FALSE
      OBVIOUS
    <3>1. Period * (q - a) > 0 /\ Period * (q - a) < Period
      BY <1>0, <1>2, <1>3, <1>4, <1>5, <1>7
    <3>2. q - a # 0
      BY <1>2, <1>4, <3>1
    <3> QED
      BY <1>2, <1>4, <3>1, <3>2, FarMultiple
  <2>2. ~tick'
    BY <1>0, <2>1 DEF m
  <2>3. Phase(a)'
    BY <1>0, <1>1, <1>3, <1>7, <2>2 DEF Phase, Period
  <2> QED
    BY <1>0, <1>1, <2>3 DEF TurnInv, Timely
<1> QED
  BY <1>0, <1>3, <1>6, <1>7

\* Every state of the wheel is well typed: positions stay in the wheel and rounds natural.
THEOREM WheelTyped == Spec => []TypeOK
BY WheelCoherent, PTL

(***************************************************************************)
(* No deadline is missed by a turn of the wheel or more, however keys are  *)
(* added, moved and removed meanwhile: for every wheel of at least two     *)
(* slots (the code has 2048), every tick of at least four milliseconds and *)
(* every resolution of the clock (hashed_wheel.go:70,123).                 *)
(***************************************************************************)
THEOREM OverdueBounded ==
  ASSUME SlotCount > 1
  PROVE  Spec => []OverdueLessThanATurn
<1>1. Init => TurnInv
  <2> SUFFICES ASSUME Init PROVE TurnInv
    OBVIOUS
  <2>1. Phase(0)
    BY WheelAssumption DEF Init, WheelInit, Phase, Period
  <2> QED
    BY <2>1 DEF TurnInv, Init, WheelInit
<1>2. TypeOK /\ Coherent /\ TurnInv /\ [Next]_vars => TurnInv'
  <2> SUFFICES ASSUME TypeOK, Coherent, TurnInv, [Next]_vars
               PROVE  TurnInv'
    OBVIOUS
  <2>1. CASE Clock
    BY <2>1, ClockTimely
  <2>2. CASE WheelTick
    BY <2>2, AdvanceTimely
  <2>3. ASSUME NEW k \in Keys, AddKey(k)
        PROVE  TurnInv'
    <3>1. PICK d \in Delays : Add(k, now + d)
      BY <2>3 DEF AddKey
    <3>2. now + d \in Int /\ now + d >= now
      BY <3>1, WheelClockAssumption DEF TypeOK
    <3> QED
      BY <2>3, <3>1, <3>2, AddTimely DEF AddKey
  <2>4. ASSUME NEW k \in Keys, RemoveKey(k)
        PROVE  TurnInv'
    <3>1. \A s \in Slots : slots'[s] \subseteq slots[s]
      BY <2>4, WithoutRemoves DEF RemoveKey, Remove, TypeOK, Coherent
    <3> QED
      BY <2>4, <3>1 DEF RemoveKey, Remove, TurnInv, Phase, Timely
  <2>5. CASE UNCHANGED vars
    BY <2>5 DEF vars, TurnInv, Phase, Timely
  <2> QED
    BY <2>1, <2>2, <2>3, <2>4, <2>5 DEF Next
<1>3. TypeOK /\ TurnInv => OverdueLessThanATurn
  <2> SUFFICES ASSUME TypeOK, TurnInv, NEW s \in Slots, NEW e \in slots[s]
               PROVE  Ms(now) - Ms(e.expireAt) < SlotCount * TickMs
    BY DEF OverdueLessThanATurn
  <2>0. now \in Nat /\ tick \in BOOLEAN /\ e \in WheelEntry
    BY DEF TypeOK, WheelTypeOK
  <2>1. PICK a \in Nat : Phase(a) /\ Timely(a, s, e)
    BY DEF TurnInv
  <2>2. PICK d \in Slots :
          (a + d + e.rounds * SlotCount + 1) * TickMs < Ms(e.expireAt) + SlotCount * TickMs
    BY <2>1 DEF Timely
  <2>3. Ms(now) <= (a + 1) * TickMs /\ Ms(now) \in Int
    BY <2>0, <2>1, PhaseMs
  <2>4. TickMs \in Nat /\ SlotCount \in Nat /\ d \in Nat /\ e.rounds \in Nat /\ Ms(e.expireAt) \in Int
    BY <2>0, <2>2, WheelAssumption, MsBounds DEF Slots, WheelEntry
  <2> DEFINE w == d + e.rounds * SlotCount
  <2>5. w \in Nat /\ (a + d + e.rounds * SlotCount + 1) = (a + 1) + w
    BY <2>4
  <2> HIDE DEF w
  <2>6. ((a + 1) + w) * TickMs = (a + 1) * TickMs + w * TickMs /\ w * TickMs >= 0
    BY <2>4, <2>5
  <2>7. (a + 1) * TickMs \in Int /\ w * TickMs \in Int /\ SlotCount * TickMs \in Int
    BY <2>4, <2>5
  <2> QED
    BY <2>2, <2>3, <2>4, <2>5, <2>6, <2>7
<1> QED
  BY <1>1, <1>2, <1>3, WheelCoherent, PTL DEF Spec

=============================================================================
