---------------------------- MODULE HashedWheel ----------------------------
(***************************************************************************)
(* The timing wheel of internal/gc/hashed_wheel.go.  Every operation runs  *)
(* under hw.mu from its first to its last line, so each is one atomic      *)
(* step.  A slot is a set of entries: the list order of slot.entries only  *)
(* decides the order of the batch Advance returns, and that batch goes     *)
(* into a map (delete_coalescer.go).                                       *)
(*                                                                         *)
(* Times are in nanoseconds of the model; NsPerMs of them make one         *)
(* millisecond, the unit of the wheel (10^6 in the code).                  *)
(***************************************************************************)
EXTENDS Integers

CONSTANTS
  Keys,       \* the keys that can be scheduled
  SlotCount,  \* hw.slotCount (defaultWheelSlots = 2048 in gc.go)
  TickMs,     \* hw.tickMs (defaultWheelTickMs = 500 in gc.go)
  NsPerMs     \* nanoseconds per millisecond (10^6)

ASSUME WheelAssumption ==
  /\ SlotCount \in Nat \ {0}
  /\ TickMs \in Nat /\ TickMs >= 4    \* rand.Int63n(tickMs/4) needs tickMs/4 >= 1
  /\ NsPerMs \in Nat \ {0}

VARIABLES
  slots,      \* hw.slots: slot -> set of wheelEntry
  currentPos, \* hw.currentPos
  keyIndex,   \* hw.keyIndex: key -> its slot, NoSlot when the key is absent
  now         \* the wall clock, time.Now().UnixNano()

wheelVars == <<slots, currentPos, keyIndex>>

Slots == 0..(SlotCount - 1)
NoSlot == -1
WheelEntry == [key : Keys, expireAt : Int, rounds : Nat]

WheelTypeOK ==
  /\ slots \in [Slots -> SUBSET WheelEntry]
  /\ currentPos \in Slots
  /\ keyIndex \in [Keys -> Slots \cup {NoSlot}]

WheelInit ==
  /\ slots = [s \in Slots |-> {}]
  /\ currentPos = 0
  /\ keyIndex = [k \in Keys |-> NoSlot]

Ms(t) == t \div NsPerMs

(***************************************************************************)
(* smear is drawn in 0..tickMs/4-1, negated half of the time, and added to *)
(* a deadline in nanoseconds.                                              *)
(***************************************************************************)
Smears == (1 - TickMs \div 4)..(TickMs \div 4 - 1)

(***************************************************************************)
(* Where an entry due at "at" belongs: whole ticks from now, counted from  *)
(* the current position, one round per full turn.                          *)
(***************************************************************************)
Ticks(at) == IF Ms(at) - Ms(now) < 0 THEN 0 ELSE (Ms(at) - Ms(now)) \div TickMs
SlotOf(at) == (currentPos + Ticks(at)) % SlotCount
RoundsOf_ExtraTurn(at) == Ticks(at) \div SlotCount + 1
RoundsOf(at) == Ticks(at) \div SlotCount

\* removeLocked: the slots without the entry the index knows for this key.
Without_Skipped(key) == slots
Without(key) ==
  IF keyIndex[key] = NoSlot
  THEN slots
  ELSE [slots EXCEPT ![keyIndex[key]] = {e \in @ : e.key # key}]

Add(key, expireAt) ==
  \E smear \in Smears :
    LET at == expireAt + smear
        new == [key |-> key, expireAt |-> at, rounds |-> RoundsOf(at)]
    IN /\ slots' = [Without(key) EXCEPT ![SlotOf(at)] = @ \cup {new}]
       /\ keyIndex' = [keyIndex EXCEPT ![key] = SlotOf(at)]
       /\ UNCHANGED currentPos

Remove(key) ==
  /\ slots' = Without(key)
  /\ keyIndex' = [keyIndex EXCEPT ![key] = NoSlot]
  /\ UNCHANGED currentPos

(***************************************************************************)
(* Advance visits the current slot: entries with rounds left lose one,     *)
(* entries that are due leave the wheel, entries that are not due yet stay *)
(* in the slot and are next seen a full turn later.                        *)
(***************************************************************************)
IsDue(e) == e.rounds = 0 /\ Ms(e.expireAt) <= Ms(now)

Visited_Unchecked(e) == [e EXCEPT !.rounds = @ - 1]
Visited(e) == IF e.rounds > 0 THEN [e EXCEPT !.rounds = @ - 1] ELSE e

\* The keys Advance returns to the garbage collector.
Expired == {k \in Keys : \E e \in slots[currentPos] : e.key = k /\ IsDue(e)}

Advance ==
  /\ slots' = [slots EXCEPT ![currentPos] = {Visited(e) : e \in {f \in @ : ~IsDue(f)}}]
  /\ keyIndex' = [k \in Keys |-> IF k \in Expired THEN NoSlot ELSE keyIndex[k]]
  /\ currentPos' = (currentPos + 1) % SlotCount

-----------------------------------------------------------------------------
(***************************************************************************)
(* keyIndex and the slots describe the same set of timers: an entry lies   *)
(* in the slot the index names for its key, an indexed key has an entry    *)
(* there, and no key has two.  removeLocked relies on it: with a stale     *)
(* index Remove would leave a live timer behind for a key that is gone.    *)
(***************************************************************************)
EntriesIndexed == \A s \in Slots : \A e \in slots[s] : keyIndex[e.key] = s
IndexedPresent ==
  \A k \in Keys : keyIndex[k] # NoSlot => \E e \in slots[keyIndex[k]] : e.key = k
OneEntryPerKey == \A s \in Slots : \A e, f \in slots[s] : e.key = f.key => e = f

Coherent == EntriesIndexed /\ IndexedPresent /\ OneEntryPerKey
=============================================================================
