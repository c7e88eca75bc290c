----------------------------- MODULE WheelClock -----------------------------
(***************************************************************************)
(* The timing wheel closed with what drives it: the clock, the wheel       *)
(* ticker of gc.go and callers that add and remove keys at any time.       *)
(***************************************************************************)
EXTENDS HashedWheel

CONSTANTS
  Delays,   \* how far ahead of the clock a deadline may lie, in nanoseconds
  MaxTime   \* bound on the clock, in nanoseconds

ASSUME WheelClockAssumption == Delays \subseteq Nat /\ MaxTime \in Nat

VARIABLE tick  \* wheelTicker.C holds a tick that the select loop has not taken

vars == <<slots, currentPos, keyIndex, now, tick>>

Init == WheelInit /\ now = 0 /\ tick = FALSE

(***************************************************************************)
(* The ticker fires every TickMs.  The clock waits for the collector's     *)
(* goroutine to take a tick: the goroutine's other work is a heap drain,   *)
(* far shorter than a tick of half a second.                               *)
(***************************************************************************)
Clock ==
  /\ now < MaxTime
  /\ ~tick
  /\ now' = now + 1
  /\ tick' = ((now + 1) % (TickMs * NsPerMs) = 0)
  /\ UNCHANGED wheelVars

WheelTick ==
  /\ tick
  /\ tick' = FALSE
  /\ Advance
  /\ UNCHANGED now

AddKey(k) ==
  /\ \E d \in Delays : now + d <= MaxTime /\ Add(k, now + d)
  /\ UNCHANGED <<now, tick>>

RemoveKey(k) ==
  /\ Remove(k)
  /\ UNCHANGED <<now, tick>>

Next ==
  \/ Clock
  \/ WheelTick
  \/ \E k \in Keys : AddKey(k) \/ RemoveKey(k)

Spec == Init /\ [][Next]_vars

-----------------------------------------------------------------------------
\* Slots, position and index of the wheel stay in range and no entry has negative rounds.
TypeOK == WheelTypeOK /\ now \in Nat /\ tick \in BOOLEAN

(***************************************************************************)
(* A deadline is missed by less than one turn of the wheel: an entry still *)
(* in a slot is less than SlotCount * TickMs milliseconds overdue.  Add    *)
(* rounds the delay down to whole ticks (hashed_wheel.go:70), so the slot  *)
(* is often visited just before the deadline and the entry waits for the   *)
(* next visit (hashed_wheel.go:123); this bounds that wait, and the bound  *)
(* is reached.                                                             *)
(***************************************************************************)
OverdueLessThanATurn ==
  \A s \in Slots : \A e \in slots[s] :
     Ms(now) - Ms(e.expireAt) < SlotCount * TickMs
=============================================================================
