------------------------------ MODULE CowStore ------------------------------
(***************************************************************************)
(* One shard: the copy-on-write store of internal/engine/in_memory.go with *)
(* its garbage collector, called concurrently by the request goroutines of *)
(* the transports through internal/service/storage_service.go.             *)
(*                                                                         *)
(* An Index is immutable once published, so a snapshot is a function from  *)
(* keys to entries; the split into 64 sorted segments is the              *)
(* representation of that function.  Entries live on the heap and are      *)
(* named by EntryIds, allocated in order.  A goroutine's steps are cut at  *)
(* the points another goroutine can observe: lock, atomic store, atomic    *)
(* add, compare-and-swap, a call into the collector.                       *)
(***************************************************************************)
EXTENDS GarbageCollector, FiniteSetsExt

CONSTANTS
  Clients,     \* request goroutines
  TcpClients,  \* the clients of the TCP transport: no recover() on their stack
  Flusher,     \* the goroutine of the delete coalescer
  NoEntry,     \* "not found"
  Nobody,      \* writeMu is free
  Sizes,       \* sizeOf(key, value): the bytes of a key and its value
  TTLs,        \* the TTLs requests carry, in seconds
  Singles,     \* the SingleRead flags requests carry
  NsPerSec,    \* nanoseconds per second (10^9)
  Requests,    \* which of "Set", "Get", "Delete" the clients issue
  GcCalls,     \* which of "StartGC", "StopGC" the owner of the store makes
  MaxEntries,  \* bound: Sets issued
  MaxDrift,    \* bound: how far below zero panicking deletes drive keyCount
  MaxTime      \* bound: the clock

Procs == Clients \cup {Flusher}
EntryIds == 1..MaxEntries

ASSUME StoreAssumption ==
  /\ TcpClients \subseteq Clients
  /\ Flusher \notin Clients
  /\ Nobody \notin Clients \cup {Flusher}
  /\ NoEntry \notin EntryIds
  /\ Sizes \subseteq Nat
  /\ TTLs \subseteq Nat           \* a negative TTL is refused by the service
  /\ Singles \subseteq BOOLEAN
  /\ NsPerSec \in Nat \ {0}
  /\ Requests \subseteq {"Set", "Get", "Delete"}
  /\ GcCalls \subseteq {"StartGC", "StopGC"}
  /\ MaxEntries \in Nat
  /\ MaxDrift \in Nat
  /\ MaxTime \in Nat

VARIABLES
  index,      \* *s.ptr: key -> entry or NoEntry
  entry,      \* the entries allocated so far, in order
  taken,      \* entries whose AccessCount left 0 by compare-and-swap
  delivered,  \* history: how often an entry was handed to a caller of Get
  keyCount,   \* s.keyCount
  usedBytes,  \* s.usedBytes
  writeMu,    \* s.writeMu: its holder, or Nobody
  pc,         \* goroutine -> the step it is at
  keys,       \* goroutine -> the keys its operation is about
  cur,        \* goroutine -> the entry its Set stores or its Get found
  newIdx,     \* goroutine -> local of Set and deleteBatch: the next index
  batch,      \* goroutine -> local of deleteBatch: the keys still to visit
  delta,      \* goroutine -> local of Set and deleteBatch: change of usedBytes
  flusher,    \* the coalescer's goroutine: "off", "run", "last" or "done"
  health      \* "ok", "recovered" once a panic was recovered, "dead" once one was not

opVars == <<pc, keys, cur>>
localVars == <<newIdx, batch, delta>>
counters == <<keyCount, usedBytes>>
dataVars == <<index, entry, taken, delivered, counters>>
storeVars == <<dataVars, writeMu, opVars, localVars, flusher, health>>
vars == <<clockVars, gcVars, storeVars>>

Entry == [size : Sizes, ttl : TTLs, single : Singles, createdAt : Nat]
Snapshot == [Keys -> EntryIds \cup {NoEntry}]
EmptyIndex == [k \in Keys |-> NoEntry]
Steps == {"idle",
          "setLock", "setPublish", "setUsage", "setSchedule",
          "delLock", "delKeys", "delUsage",
          "getLoad", "getCheck", "getTake", "getHit", "getStale"}

StoreTypeOK ==
  /\ index \in Snapshot
  /\ entry \in Seq(Entry) /\ Len(entry) <= MaxEntries
  /\ taken \subseteq EntryIds
  /\ delivered \in [EntryIds -> Nat]
  /\ keyCount \in Int /\ usedBytes \in Int
  /\ writeMu \in Procs \cup {Nobody}
  /\ pc \in [Procs -> Steps]
  /\ keys \in [Procs -> SUBSET Keys]
  /\ cur \in [Procs -> EntryIds \cup {NoEntry}]
  /\ newIdx \in [Procs -> Snapshot]
  /\ batch \in [Procs -> SUBSET Keys]
  /\ delta \in [Procs -> Int]
  /\ flusher \in {"off", "run", "last", "done"}
  /\ health \in {"ok", "recovered", "dead"}

\* Store, timers and goroutines are well formed: indices stay in range and no wheel entry has negative rounds.
TypeOK == StoreTypeOK /\ GcTypeOK

Init ==
  /\ GcInit
  /\ index = EmptyIndex
  /\ entry = <<>>
  /\ taken = {}
  /\ delivered = [e \in EntryIds |-> 0]
  /\ keyCount = 0 /\ usedBytes = 0
  /\ writeMu = Nobody
  /\ pc = [p \in Procs |-> "idle"]
  /\ keys = [p \in Procs |-> {}]
  /\ cur = [p \in Procs |-> NoEntry]
  /\ newIdx = [p \in Procs |-> EmptyIndex]
  /\ batch = [p \in Procs |-> {}]
  /\ delta = [p \in Procs |-> 0]
  /\ flusher = "off"
  /\ health = "ok"

-----------------------------------------------------------------------------
(***************************************************************************)
(* Helpers.                                                                *)
(***************************************************************************)
SizeAt(idx, k) == IF idx[k] = NoEntry THEN 0 ELSE entry[idx[k]].size

\* IsExpired: time.Now().After(ExpiresAt), ExpiresAt zero without a TTL.
IsExpired(e) == e.ttl > 0 /\ now > e.createdAt + e.ttl * NsPerSec

Goto(p, step) == pc' = [pc EXCEPT ![p] = step]

\* A call begins: goroutine p, about the keys K, with entry e (or NoEntry).
Begin(p, step, K, e) ==
  /\ Goto(p, step)
  /\ keys' = [keys EXCEPT ![p] = K]
  /\ cur' = [cur EXCEPT ![p] = e]

Lock(p) == writeMu = Nobody /\ writeMu' = p

\* The call returns and its locals are gone.
Return(p) == Begin(p, "idle", {}, NoEntry)
DropLocals(p) ==
  /\ newIdx' = [newIdx EXCEPT ![p] = EmptyIndex]
  /\ batch' = [batch EXCEPT ![p] = {}]
  /\ delta' = [delta EXCEPT ![p] = 0]

Unlock_Forgotten(p) == DropLocals(p) /\ UNCHANGED writeMu
Unlock(p) == writeMu' = Nobody /\ DropLocals(p)

(***************************************************************************)
(* A panic in the collector unwinds the call: deferred unlocks run.  The   *)
(* Recovery middleware turns it into a 500 for an HTTP request; on a TCP   *)
(* connection or in the coalescer nothing recovers it and the process ends.*)
(***************************************************************************)
Panic(p) ==
  /\ Return(p)
  /\ Unlock(p)
  /\ health' = IF p \in TcpClients \cup {Flusher} THEN "dead" ELSE "recovered"
  /\ UNCHANGED <<timers, flusher>>

-----------------------------------------------------------------------------
(***************************************************************************)
(* Set.  The service stamps the entry with the clock (storage_service.go)  *)
(* before the store is entered.  Requests whose expiry the bounded clock   *)
(* would never pass are left out.                                          *)
(***************************************************************************)
SetCall(p) ==
  /\ pc[p] = "idle"
  /\ "Set" \in Requests
  /\ Len(entry) < MaxEntries
  /\ \E k \in Keys, e \in [size : Sizes, ttl : TTLs, single : Singles, createdAt : {now}] :
       /\ now + e.ttl * NsPerSec < MaxTime
       /\ entry' = Append(entry, e)
       /\ Begin(p, "setLock", {k}, Len(entry) + 1)
  /\ UNCHANGED <<clockVars, gcVars, index, taken, delivered, counters, writeMu,
                 localVars, flusher, health>>

\* Take the lock, copy the snapshot, put the entry in; count a new key.
SetLock_NoLock(p) ==
  \E k \in keys[p] :
    /\ pc[p] = "setLock"
    /\ writeMu' = p
    /\ newIdx' = [newIdx EXCEPT ![p] = [index EXCEPT ![k] = cur[p]]]
    /\ delta' = [delta EXCEPT ![p] = entry[cur[p]].size - SizeAt(index, k)]
    /\ keyCount' = keyCount + (IF index[k] = NoEntry THEN 1 ELSE 0)
    /\ Goto(p, "setPublish")
    /\ UNCHANGED <<clockVars, gcVars, index, entry, taken, delivered, usedBytes,
                   keys, cur, batch, flusher, health>>
SetLock_CountAlways(p) ==
  \E k \in keys[p] :
    /\ pc[p] = "setLock"
    /\ Lock(p)
    /\ newIdx' = [newIdx EXCEPT ![p] = [index EXCEPT ![k] = cur[p]]]
    /\ delta' = [delta EXCEPT ![p] = entry[cur[p]].size - SizeAt(index, k)]
    /\ keyCount' = keyCount + 1
    /\ Goto(p, "setPublish")
    /\ UNCHANGED <<clockVars, gcVars, index, entry, taken, delivered, usedBytes,
                   keys, cur, batch, flusher, health>>
SetLock(p) ==
  \E k \in keys[p] :
    /\ pc[p] = "setLock"
    /\ Lock(p)
    /\ newIdx' = [newIdx EXCEPT ![p] = [index EXCEPT ![k] = cur[p]]]
    /\ delta' = [delta EXCEPT ![p] = entry[cur[p]].size - SizeAt(index, k)]
    /\ keyCount' = keyCount + (IF index[k] = NoEntry THEN 1 ELSE 0)
    /\ Goto(p, "setPublish")
    /\ UNCHANGED <<clockVars, gcVars, index, entry, taken, delivered, usedBytes,
                   keys, cur, batch, flusher, health>>

SetPublish(p) ==
  /\ pc[p] = "setPublish"
  /\ index' = newIdx[p]
  /\ Goto(p, "setUsage")
  /\ UNCHANGED <<clockVars, gcVars, entry, taken, delivered, counters, writeMu,
                 keys, cur, localVars, flusher, health>>

SetUsage_OldKept(p) ==
  /\ pc[p] = "setUsage"
  /\ usedBytes' = usedBytes + entry[cur[p]].size
  /\ Goto(p, "setSchedule")
  /\ UNCHANGED <<clockVars, gcVars, index, entry, taken, delivered, keyCount,
                 writeMu, keys, cur, localVars, flusher, health>>
SetUsage(p) ==
  /\ pc[p] = "setUsage"
  /\ usedBytes' = usedBytes + delta[p]
  /\ Goto(p, "setSchedule")
  /\ UNCHANGED <<clockVars, gcVars, index, entry, taken, delivered, keyCount,
                 writeMu, keys, cur, localVars, flusher, health>>

SetSchedule(p) ==
  \E k \in keys[p] :
    LET e == entry[cur[p]]
    IN /\ pc[p] = "setSchedule"
       /\ \/ /\ ~SchedulePanics(k, e.ttl, e.createdAt)
             /\ Schedule(k, e.ttl, e.createdAt)
             /\ Return(p)
             /\ Unlock(p)
             /\ UNCHANGED <<flusher, health>>
          \/ /\ SchedulePanics(k, e.ttl, e.createdAt)
             /\ Panic(p)
       /\ UNCHANGED <<clockVars, pending, collector, expired, stopped, dataVars>>

-----------------------------------------------------------------------------
(***************************************************************************)
(* Delete and the coalescer's flush both run deleteBatch.                  *)
(***************************************************************************)
DeleteCall(p) ==
  /\ pc[p] = "idle"
  /\ "Delete" \in Requests
  /\ keyCount >= -MaxDrift
  /\ \E k \in Keys : Begin(p, "delLock", {k}, NoEntry)
  /\ UNCHANGED <<clockVars, gcVars, dataVars, writeMu, localVars, flusher, health>>

(***************************************************************************)
(* flush: take the pending set and leave an empty one, then deleteBatch.   *)
(* The goroutine flushes on its ticker, and once more when it finds stopCh *)
(* closed.  A flush with nothing pending returns at once.                  *)
(***************************************************************************)
Flush_NoReturn ==
  /\ flusher = "run"
  /\ pc[Flusher] = "idle"
  /\ IF pending = {}
     THEN UNCHANGED <<opVars, pending>>
     ELSE Begin(Flusher, "delLock", pending, NoEntry) /\ pending' = {}
  /\ UNCHANGED <<clockVars, timers, collector, expired, stopped, dataVars, writeMu,
                 localVars, health, flusher>>
Flush ==
  /\ flusher = "run"
  /\ pc[Flusher] = "idle"
  /\ flusher' = "run" \/ (stopped /\ flusher' = IF pending = {} THEN "done" ELSE "last")
  /\ IF pending = {}
     THEN UNCHANGED <<opVars, pending>>
     ELSE Begin(Flusher, "delLock", pending, NoEntry) /\ pending' = {}
  /\ UNCHANGED <<clockVars, timers, collector, expired, stopped, dataVars, writeMu,
                 localVars, health>>

DelLock(p) ==
  /\ pc[p] = "delLock"
  /\ Lock(p)
  /\ newIdx' = [newIdx EXCEPT ![p] = index]
  /\ batch' = [batch EXCEPT ![p] = keys[p]]
  /\ delta' = [delta EXCEPT ![p] = 0]
  /\ Goto(p, "delKeys")
  /\ UNCHANGED <<clockVars, gcVars, dataVars, keys, cur, flusher, health>>

\* One turn of the loop, for a key found in the snapshot or not.
DelMissing(p, k) ==
  /\ newIdx[p][k] = NoEntry
  /\ batch' = [batch EXCEPT ![p] = @ \ {k}]
  /\ UNCHANGED <<timers, keyCount, writeMu, opVars, newIdx, delta, flusher, health>>

DelFound_KeepTimer(p, k) ==
  /\ newIdx[p][k] # NoEntry
  /\ keyCount' = keyCount - 1
  /\ batch' = [batch EXCEPT ![p] = @ \ {k}]
  /\ delta' = [delta EXCEPT ![p] = @ - SizeAt(newIdx[p], k)]
  /\ newIdx' = [newIdx EXCEPT ![p][k] = NoEntry]
  /\ UNCHANGED <<timers, writeMu, opVars, flusher, health>>
DelFound(p, k) ==
  /\ newIdx[p][k] # NoEntry
  /\ keyCount' = keyCount - 1
  /\ \/ /\ ~CancelPanics(k)
        /\ Cancel(k)
        /\ batch' = [batch EXCEPT ![p] = @ \ {k}]
        /\ delta' = [delta EXCEPT ![p] = @ - SizeAt(newIdx[p], k)]
        /\ newIdx' = [newIdx EXCEPT ![p][k] = NoEntry]
        /\ UNCHANGED <<writeMu, opVars, flusher, health>>
     \/ CancelPanics(k) /\ Panic(p)

DelKey(p) ==
  /\ pc[p] = "delKeys"
  /\ \E k \in batch[p] : DelMissing(p, k) \/ DelFound(p, k)
  /\ UNCHANGED <<clockVars, pending, collector, expired, stopped, index, entry,
                 taken, delivered, usedBytes>>

\* The new index is published only if the batch changed the byte count.
DelPublish_Grown(p) ==
  /\ pc[p] = "delKeys"
  /\ batch[p] = {}
  /\ index' = IF delta[p] > 0 THEN newIdx[p] ELSE index
  /\ Goto(p, "delUsage")
  /\ UNCHANGED <<clockVars, gcVars, entry, taken, delivered, counters, writeMu,
                 keys, cur, localVars, flusher, health>>
DelPublish(p) ==
  /\ pc[p] = "delKeys"
  /\ batch[p] = {}
  /\ index' = IF delta[p] # 0 THEN newIdx[p] ELSE index
  /\ Goto(p, "delUsage")
  /\ UNCHANGED <<clockVars, gcVars, entry, taken, delivered, counters, writeMu,
                 keys, cur, localVars, flusher, health>>

DelUsage(p) ==
  /\ pc[p] = "delUsage"
  /\ usedBytes' = usedBytes + delta[p]
  /\ Return(p)
  /\ Unlock(p)
  /\ flusher' = IF p = Flusher /\ flusher = "last" THEN "done" ELSE flusher
  /\ UNCHANGED <<clockVars, gcVars, index, entry, taken, delivered, keyCount, health>>

-----------------------------------------------------------------------------
(***************************************************************************)
(* Get: load the snapshot, check expiry, and for a single-read entry take  *)
(* it by compare-and-swap.  Expired and taken entries are handed to the    *)
(* coalescer for deletion, by key.                                         *)
(***************************************************************************)
GetCall(p) ==
  /\ pc[p] = "idle"
  /\ "Get" \in Requests
  /\ \E k \in Keys : Begin(p, "getLoad", {k}, NoEntry)
  /\ UNCHANGED <<clockVars, gcVars, dataVars, writeMu, localVars, flusher, health>>

GetLoad(p) ==
  \E k \in keys[p] :
    /\ pc[p] = "getLoad"
    /\ cur' = [cur EXCEPT ![p] = index[k]]
    /\ Goto(p, "getCheck")
    /\ UNCHANGED <<clockVars, gcVars, dataVars, writeMu, keys, localVars, flusher, health>>

GetCheck(p) ==
  /\ pc[p] = "getCheck"
  /\ \/ cur[p] = NoEntry /\ Return(p)
     \/ /\ cur[p] # NoEntry
        /\ LET e == entry[cur[p]]
           IN \/ IsExpired(e) /\ Goto(p, "getStale") /\ UNCHANGED <<keys, cur>>
              \/ ~IsExpired(e) /\ e.single /\ Goto(p, "getTake") /\ UNCHANGED <<keys, cur>>
              \/ ~IsExpired(e) /\ ~e.single /\ Return(p)
  /\ UNCHANGED <<clockVars, gcVars, dataVars, writeMu, localVars, flusher, health>>

GetTake_NoCas(p) ==
  /\ pc[p] = "getTake"
  /\ taken' = taken \cup {cur[p]}
  /\ Goto(p, "getHit")
  /\ UNCHANGED <<clockVars, gcVars, index, entry, delivered, counters, writeMu, keys, cur,
                 localVars, flusher, health>>
GetTake(p) ==
  /\ pc[p] = "getTake"
  /\ \/ /\ cur[p] \notin taken
        /\ taken' = taken \cup {cur[p]}
        /\ Goto(p, "getHit")
        /\ UNCHANGED <<keys, cur>>
     \/ /\ cur[p] \in taken
        /\ Return(p)
        /\ UNCHANGED taken
  /\ UNCHANGED <<clockVars, gcVars, index, entry, delivered, counters, writeMu,
                 localVars, flusher, health>>

\* ScheduleDelete(key), then return the entry, or "not found" if it expired.
GetEnqueue(p) ==
  \E k \in keys[p] :
    /\ pc[p] \in {"getHit", "getStale"}
    /\ ScheduleDelete(k)
    /\ delivered' = IF pc[p] = "getHit" THEN [delivered EXCEPT ![cur[p]] = @ + 1] ELSE delivered
    /\ Return(p)
    /\ UNCHANGED <<clockVars, timers, collector, expired, stopped, index, entry, taken,
                   counters, writeMu, localVars, flusher, health>>

-----------------------------------------------------------------------------
\* Start runs both goroutines: the coalescer's and the collector's.
StartGC ==
  /\ "StartGC" \in GcCalls
  /\ Start
  /\ flusher' = "run"
  /\ UNCHANGED <<clockVars, dataVars, writeMu, opVars, localVars, health>>

StopGC ==
  /\ "StopGC" \in GcCalls
  /\ Stop
  /\ UNCHANGED <<clockVars, storeVars>>

Clock ==
  /\ now < MaxTime
  /\ now' = now + 1
  /\ UNCHANGED <<cached, gcVars, storeVars>>

\* The ticker of util/time_cache.go.
CacheRefresh ==
  /\ cached # now
  /\ cached' = now
  /\ UNCHANGED <<now, gcVars, storeVars>>

CollectorStep ==
  /\ NearTick \/ WheelTick \/ EnqueueBatch \/ CollectorExit
  /\ UNCHANGED storeVars

Call(p) == SetCall(p) \/ DeleteCall(p) \/ GetCall(p)

DeleteSteps(p) == DelLock(p) \/ DelKey(p) \/ DelPublish(p) \/ DelUsage(p)

ClientSteps(p) ==
  \/ SetLock(p) \/ SetPublish(p) \/ SetUsage(p) \/ SetSchedule(p)
  \/ GetLoad(p) \/ GetCheck(p) \/ GetTake(p) \/ GetEnqueue(p)

Next ==
  /\ health # "dead"
  /\ \/ \E p \in Clients : Call(p) \/ ClientSteps(p)
     \/ \E p \in Procs : DeleteSteps(p)
     \/ Flush
     \/ CollectorStep
     \/ StartGC \/ StopGC
     \/ Clock \/ CacheRefresh

Spec == Init /\ [][Next]_vars

-----------------------------------------------------------------------------
Stored == {k \in Keys : index[k] # NoEntry}
Dead(e) == IsExpired(entry[e]) \/ e \in taken

(***************************************************************************)
(* Whenever no writer is inside and no call has panicked, Count() is the   *)
(* number of stored keys: keyCount changes before the index is published   *)
(* (in_memory.go:114,162), under requests and the coalescer at once, and   *)
(* nothing recomputes it.                                                  *)
(***************************************************************************)
KeyCountExact ==
  writeMu = Nobody /\ health = "ok" => keyCount = Cardinality(Stored)

(***************************************************************************)
(* Whenever no writer is inside, Usage() is the sum of the stored sizes:   *)
(* usedBytes changes after the index is published (in_memory.go:120,170),  *)
(* by differences between old and new entries.  Unlike keyCount it stays   *)
(* exact when a call panics in between and leaves its index unpublished.   *)
(***************************************************************************)
UsedBytesExact ==
  writeMu = Nobody =>
    usedBytes = MapThenSumSet(LAMBDA k : SizeAt(index, k), Keys)

(***************************************************************************)
(* A single-read value is handed out at most once, also when readers that  *)
(* loaded it from old snapshots race with each other, with the coalescer's *)
(* delete and with a new Set of the key (in_memory.go:64-70).              *)
(***************************************************************************)
SingleReadOnce == \A e \in EntryIds : delivered[e] <= 1

(***************************************************************************)
(* When a client's Delete leaves its critical section, by returning or by  *)
(* a panic (in_memory.go:127-172), its key is not in the index.            *)
(***************************************************************************)
DeleteDeletes ==
  [][\A p \in Clients :
       pc[p] = "delKeys" /\ pc'[p] # "delKeys" => \A k \in keys[p] : index'[k] = NoEntry]_vars

(***************************************************************************)
(* The coalescer removes nothing but entries that are expired or were      *)
(* read: the keys it deletes were chosen earlier, by a timer or a Get      *)
(* (in_memory.go:61,66; gc.go:71-75), and may hold a newer value by now.   *)
(***************************************************************************)
FlushRemovesOnlyDead ==
  [][pc[Flusher] = "delKeys" /\ pc'[Flusher] = "delUsage" =>
       \A k \in Stored : index'[k] = NoEntry => Dead(index[k])]_vars

(***************************************************************************)
(* Whenever no writer is inside, a stored key with a TTL is known to the   *)
(* collector - it has a timer, or is on its way to the coalescer - and no  *)
(* timer is left for a key that is not stored (in_memory.go:122,163).      *)
(***************************************************************************)
Timed == {k \in Keys : keyIndex[k] # Wheel!NoSlot} \cup {nearHeap[i].key : i \in DOMAIN nearHeap}
OnTheWay == pending \cup expired \cup keys[Flusher]

TimersMatchStore ==
  writeMu = Nobody =>
    /\ Timed \subseteq Stored
    /\ \A k \in Stored : entry[index[k]].ttl > 0 => k \in Timed \cup OnTheWay

(***************************************************************************)
(* The shard implements the atomic map KVStore: Set and delete take effect *)
(* when the new index is stored (in_memory.go:119,169), Get when it loads  *)
(* the index (in_memory.go:51).  No update is lost and no reader sees half *)
(* of a batch.                                                             *)
(***************************************************************************)
PhaseOf(step) ==
  CASE step = "idle" -> "idle"
    [] step \in {"setLock", "setPublish"} -> "set"
    [] step \in {"delLock", "delKeys"} -> "delete"
    [] step = "getLoad" -> "get"
    [] OTHER -> "done"

KV == INSTANCE KVStore WITH
        Values <- EntryIds, None <- NoEntry, map <- index,
        phase <- [p \in Procs |-> PhaseOf(pc[p])], target <- keys, value <- cur

Linearizable == KV!Spec

-----------------------------------------------------------------------------
(***************************************************************************)
(* Fairness: a goroutine inside a call keeps running; sync.Mutex in        *)
(* starvation mode hands the lock to the longest waiter, so an acquire     *)
(* that is enabled again and again succeeds; tickers keep firing; select   *)
(* picks at random, so a closed stopCh is noticed.  Clients are free not   *)
(* to call.                                                                *)
(***************************************************************************)
Running(A) == health # "dead" /\ A
Background(A) == health # "dead" /\ A /\ UNCHANGED storeVars

Fairness ==
  /\ \A p \in Clients : WF_vars(Running(ClientSteps(p))) /\ SF_vars(Running(SetLock(p)))
  /\ \A p \in Procs : WF_vars(Running(DeleteSteps(p))) /\ SF_vars(Running(DelLock(p)))
  /\ WF_vars(Running(StartGC))
  /\ WF_vars(Running(Flush))
  /\ SF_vars(Running(Flush /\ flusher' # "run"))
  /\ WF_vars(Running(Clock))
  /\ WF_vars(Running(CacheRefresh))
  /\ SF_vars(Background(NearTick))
  /\ SF_vars(Background(WheelTick))
  /\ WF_vars(Background(EnqueueBatch))
  /\ SF_vars(Background(CollectorExit))

FairSpec == Spec /\ Fairness

(***************************************************************************)
(* "Removes expired data in the background" (README.md:24): an entry that  *)
(* is expired, or single-read and read, does not stay in the index, unless *)
(* the collector is stopped.                                               *)
(***************************************************************************)
EventuallyReaped ==
  \A k \in Keys, e \in EntryIds :
    (index[k] = e /\ Dead(e)) ~> (index[k] # e \/ stopped)

\* Every call returns: no goroutine waits for writeMu for ever.
CallsReturn == \A p \in Procs : (pc[p] # "idle") ~> (pc[p] = "idle")

\* After StopGC both goroutines end, whatever their tickers do (gc.go:76, delete_coalescer.go:59).
StopEnds ==
  stopped ~> (collector \in {"off", "done"} /\ flusher \in {"off", "done"})
=============================================================================
