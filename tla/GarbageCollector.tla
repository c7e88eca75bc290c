-------------------------- MODULE GarbageCollector --------------------------
(***************************************************************************)
(* The garbage collector of one shard (internal/gc/gc.go): it composes the *)
(* near queue and the timing wheel, owns the goroutine that drains both on *)
(* their tickers, and feeds the delete coalescer's pending set             *)
(* (internal/gc/delete_coalescer.go).  The coalescer's own goroutine ends  *)
(* in deleteBatch, so its steps are in CowStore.                           *)
(*                                                                         *)
(* Each call into the near queue, the wheel or the pending set holds that  *)
(* structure's mutex throughout and is one atomic step; Cancel's two calls *)
(* are one step as well, because the structures share no state and only    *)
(* the holder of the store's writeMu calls Schedule or Cancel.             *)
(***************************************************************************)
EXTENDS Integers, Sequences

CONSTANTS
  Keys,
  SlotCount, TickMs,  \* the wheel: defaultWheelSlots, defaultWheelTickMs
  WindowMs,           \* the near queue: defaultNearWindowMs
  NsPerMs             \* nanoseconds per millisecond (10^6)

ASSUME GcAssumption ==
  /\ SlotCount \in Nat \ {0}
  /\ TickMs \in Nat /\ TickMs >= 4    \* rand.Int63n(tickMs/4) needs tickMs/4 >= 1
  /\ WindowMs \in Nat
  /\ NsPerMs \in Nat \ {0}

VARIABLES
  now,         \* the wall clock, time.Now() in nanoseconds
  cached,      \* util.cachedTimeNanos
  nearHeap,    \* gc.nearQueue.heap
  nearIndex,   \* gc.nearQueue.index
  slots,       \* gc.wheel.slots
  currentPos,  \* gc.wheel.currentPos
  keyIndex,    \* gc.wheel.keyIndex
  pending,     \* gc.coalescer.pending
  collector,   \* the goroutine of Start: "off", "select", "enqueue" or "done"
  expired,     \* its local: keys drained from the timers, not yet enqueued
  stopped      \* gc.stopCh and gc.coalescer.stopCh are closed

Near == INSTANCE NearQueue WITH heap <- nearHeap, index <- nearIndex
Wheel == INSTANCE HashedWheel

nearQueue == <<nearHeap, nearIndex>>
wheel == <<slots, currentPos, keyIndex>>
timers == <<nearHeap, nearIndex, slots, currentPos, keyIndex>>
gcVars == <<timers, pending, collector, expired, stopped>>
clockVars == <<now, cached>>

GcTypeOK ==
  /\ now \in Nat /\ cached \in Nat
  /\ Near!NearTypeOK
  /\ Wheel!WheelTypeOK
  /\ pending \subseteq Keys
  /\ collector \in {"off", "select", "enqueue", "done"}
  /\ expired \subseteq Keys
  /\ stopped \in BOOLEAN

GcInit ==
  /\ now = 0 /\ cached = 0
  /\ Near!NearInit
  /\ Wheel!WheelInit
  /\ pending = {}
  /\ collector = "off"
  /\ expired = {}
  /\ stopped = FALSE

-----------------------------------------------------------------------------
(***************************************************************************)
(* Cancel(key): the near queue first, then the wheel.  A panic in the near *)
(* queue leaves both as they were.                                         *)
(***************************************************************************)
CancelPanics(key) == Near!RemovePanics(key)

Cancel(key) == Near!Remove(key) /\ Wheel!Remove(key)

(***************************************************************************)
(* Schedule(key, ttl, createdAt).  time.Duration(ttl) is a number of       *)
(* nanoseconds.  A timer goes to one of the two structures; the other one  *)
(* is left alone.                                                          *)
(***************************************************************************)
ExpireAt(ttl, createdAt) == createdAt + ttl

SchedulePanics(key, ttl, createdAt) ==
  IF ttl <= 0 THEN CancelPanics(key) ELSE Near!AddPanics(key, ExpireAt(ttl, createdAt))

Schedule(key, ttl, createdAt) ==
  IF ttl <= 0
  THEN Cancel(key)
  ELSE \/ Near!Add(key, ExpireAt(ttl, createdAt)) /\ UNCHANGED wheel
       \/ /\ ~Near!InWindow(ExpireAt(ttl, createdAt))
          /\ Wheel!Add(key, ExpireAt(ttl, createdAt))
          /\ UNCHANGED nearQueue

ScheduleDelete(key) == pending' = pending \cup {key}

-----------------------------------------------------------------------------
(***************************************************************************)
(* The collector's goroutine.  A ticker may fire at any moment (select     *)
(* picks any ready case, also once stopCh is closed); what it drains is a  *)
(* local of the goroutine until EnqueueBatch takes dc.mu.                  *)
(***************************************************************************)
Collect(keys) ==
  /\ expired' = keys
  /\ collector' = IF keys = {} THEN "select" ELSE "enqueue"

NearTick ==
  /\ collector = "select"
  /\ Near!DrainExpired
  /\ Collect(Near!DrainedKeys)
  /\ UNCHANGED <<clockVars, wheel, pending, stopped>>

WheelTick ==
  /\ collector = "select"
  /\ Wheel!Advance
  /\ Collect(Wheel!Expired)
  /\ UNCHANGED <<clockVars, nearQueue, pending, stopped>>

EnqueueBatch_Dropped ==
  /\ collector = "enqueue"
  /\ expired' = {}
  /\ collector' = "select"
  /\ UNCHANGED <<clockVars, timers, pending, stopped>>
EnqueueBatch ==
  /\ collector = "enqueue"
  /\ pending' = pending \cup expired
  /\ expired' = {}
  /\ collector' = "select"
  /\ UNCHANGED <<clockVars, timers, stopped>>

CollectorExit ==
  /\ collector = "select"
  /\ stopped
  /\ collector' = "done"
  /\ UNCHANGED <<clockVars, timers, pending, expired, stopped>>

\* startOnce: the goroutine is spawned once, also after Stop.
Start == collector = "off" /\ collector' = "select" /\ UNCHANGED <<timers, pending, expired, stopped>>

\* stopOnce: no goroutine can tell the two channels apart in time.
Stop == ~stopped /\ stopped' = TRUE /\ UNCHANGED <<timers, pending, collector, expired>>
=============================================================================
