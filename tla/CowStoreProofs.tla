--------------------------- MODULE CowStoreProofs ---------------------------
(***************************************************************************)
(* The shard for every number of keys, clients, entries and timers: the    *)
(* invariant of its writers and, on top of it, single-read delivery, the   *)
(* refinement of the atomic map, and the exact key and byte counts.        *)
(***************************************************************************)
EXTENDS CowStore, Recursion

Inside == {"setPublish", "setUsage", "setSchedule", "delKeys", "delUsage"}
SetSteps == {"setLock", "setPublish", "setUsage", "setSchedule"}
FoundSteps == {"getTake", "getHit", "getStale"}

TypeInv == StoreTypeOK /\ pending \subseteq Keys /\ expired \subseteq Keys /\ now \in Nat

\* writeMu is held by the goroutine inside a critical section, and by no other.
MutexInv == \A p \in Procs : pc[p] \in Inside <=> writeMu = p

\* A Set is about one key and an entry that exists.
ArgInv ==
  \A p \in Procs :
    /\ pc[p] \in SetSteps => cur[p] \in DOMAIN entry /\ \E k \in Keys : keys[p] = {k}
    /\ pc[p] \in FoundSteps => cur[p] # NoEntry

\* What the index names exists.
IndexInv == \A k \in Keys : index[k] # NoEntry => index[k] \in DOMAIN entry

Minus(K) == [k \in Keys |-> IF k \in K THEN NoEntry ELSE index[k]]

\* The index under construction is the published one with the changes made so far.
BuildInv ==
  \A p \in Procs :
    /\ pc[p] = "setPublish" => \A k \in keys[p] : newIdx[p] = [index EXCEPT ![k] = cur[p]]
    /\ pc[p] = "delKeys" =>
         /\ batch[p] \subseteq keys[p]
         /\ newIdx[p] = Minus(keys[p] \ batch[p])
         /\ delta[p] <= 0
         /\ 0 \notin Sizes /\ delta[p] = 0 => newIdx[p] = index

IInv == TypeInv /\ MutexInv /\ ArgInv /\ IndexInv /\ BuildInv

-----------------------------------------------------------------------------
\* Steps that touch neither the index, the locals nor the operations.
LEMMA QuietStep ==
  ASSUME IInv, TypeInv',
         UNCHANGED <<index, entry, writeMu, opVars, localVars>>
  PROVE  IInv'
<1> USE DEF IInv, opVars, localVars
<1>1. MutexInv'
  BY DEF MutexInv
<1>2. ArgInv'
  BY DEF ArgInv
<1>3. IndexInv'
  BY DEF IndexInv
<1>4. BuildInv'
  BY DEF BuildInv, Minus
<1> QED
  BY <1>1, <1>2, <1>3, <1>4

\* A Set call allocates its entry and names its key (storage_service.go:51-61).
LEMMA SetCallInv ==
  ASSUME IInv, NEW p \in Clients, SetCall(p)
  PROVE  IInv'
<1> USE DEF IInv
<1>0. p \in Procs
  BY DEF Procs
<1>1. PICK k \in Keys, e \in [size : Sizes, ttl : TTLs, single : Singles, createdAt : {now}] :
        entry' = Append(entry, e) /\ Begin(p, "setLock", {k}, Len(entry) + 1)
  BY DEF SetCall
<1>2. e \in Entry /\ entry \in Seq(Entry) /\ Len(entry) < MaxEntries /\ pc[p] = "idle"
  BY DEF SetCall, Entry, TypeInv, StoreTypeOK
<1>3. entry' \in Seq(Entry) /\ Len(entry') = Len(entry) + 1 /\ Len(entry) \in Nat
  BY <1>1, <1>2
<1>4. DOMAIN entry' = 1..(Len(entry) + 1) /\ DOMAIN entry = 1..Len(entry)
  BY <1>2, <1>3
<1>5. Len(entry) + 1 \in EntryIds /\ Len(entry') <= MaxEntries
  BY <1>2, <1>3, StoreAssumption DEF EntryIds
<1>6. UNCHANGED <<clockVars, gcVars, index, taken, delivered, counters, writeMu, localVars, flusher, health>>
  BY DEF SetCall
<1>7. /\ pc' = [pc EXCEPT ![p] = "setLock"]
      /\ keys' = [keys EXCEPT ![p] = {k}]
      /\ cur' = [cur EXCEPT ![p] = Len(entry) + 1]
  BY <1>1 DEF Begin, Goto
<1>8. TypeInv'
  BY <1>0, <1>3, <1>5, <1>6, <1>7 DEF TypeInv, StoreTypeOK, Snapshot, Steps, clockVars, gcVars, counters, localVars
<1>9. MutexInv'
  BY <1>0, <1>2, <1>6, <1>7 DEF MutexInv, TypeInv, StoreTypeOK, Inside
<1>10. ArgInv'
  BY <1>0, <1>4, <1>5, <1>6, <1>7 DEF ArgInv, TypeInv, StoreTypeOK, SetSteps, FoundSteps
<1>11. IndexInv'
  BY <1>4, <1>6 DEF IndexInv
<1>12. BuildInv'
  BY <1>0, <1>6, <1>7 DEF BuildInv, Minus, TypeInv, StoreTypeOK, localVars
<1> QED
  BY <1>8, <1>9, <1>10, <1>11, <1>12

\* A step of p outside its critical section: it moves p between unlocked steps.
LEMMA UnlockedStep ==
  ASSUME IInv, TypeInv', NEW p \in Procs, NEW step \in Steps \ (Inside \cup SetSteps),
         NEW K, NEW e,
         pc[p] \notin Inside,
         step \in FoundSteps => e # NoEntry,
         Begin(p, step, K, e),
         UNCHANGED <<index, entry, writeMu, localVars>>
  PROVE  IInv'
<1> USE DEF IInv, localVars
<1>1. /\ pc' = [pc EXCEPT ![p] = step]
      /\ keys' = [keys EXCEPT ![p] = K]
      /\ cur' = [cur EXCEPT ![p] = e]
  BY DEF Begin, Goto
<1>2. MutexInv'
  BY <1>1 DEF MutexInv, TypeInv, StoreTypeOK
<1>3. ArgInv'
  BY <1>1 DEF ArgInv, TypeInv, StoreTypeOK
<1>4. IndexInv'
  BY DEF IndexInv
<1>5. BuildInv'
  BY <1>1 DEF BuildInv, Minus, TypeInv, StoreTypeOK, Inside
<1> QED
  BY <1>2, <1>3, <1>4, <1>5

\* The size of an allocated entry is one of Sizes.
LEMMA EntrySize ==
  ASSUME TypeInv, NEW i \in DOMAIN entry
  PROVE  entry[i].size \in Sizes /\ entry[i].size \in Nat
<1>1. entry[i] \in Entry
  BY DEF TypeInv, StoreTypeOK
<1> QED
  BY <1>1, StoreAssumption DEF Entry

\* sizeOf what an index holds for a key; positive unless a pair may be empty.
LEMMA SizeAtNat ==
  ASSUME TypeInv, NEW idx, NEW k \in Keys, idx[k] # NoEntry => idx[k] \in DOMAIN entry
  PROVE  /\ SizeAt(idx, k) \in Nat
         /\ 0 \notin Sizes /\ idx[k] # NoEntry => SizeAt(idx, k) > 0
<1>1. CASE idx[k] = NoEntry
  BY <1>1 DEF SizeAt
<1>2. CASE idx[k] # NoEntry
  BY <1>2, EntrySize DEF SizeAt
<1> QED
  BY <1>1, <1>2

\* Set builds its copy under the lock (in_memory.go:83-118).
LEMMA SetLockInv ==
  ASSUME IInv, NEW p \in Clients, SetLock(p)
  PROVE  IInv'
<1> USE DEF IInv
<1>0. p \in Procs /\ pc[p] = "setLock" /\ writeMu = Nobody /\ writeMu' = p
  BY DEF Procs, SetLock, Lock
<1>1. PICK k \in Keys : keys[p] = {k}
  BY <1>0 DEF ArgInv, SetSteps
<1>2. /\ newIdx' = [newIdx EXCEPT ![p] = [index EXCEPT ![k] = cur[p]]]
      /\ delta' = [delta EXCEPT ![p] = entry[cur[p]].size - SizeAt(index, k)]
      /\ keyCount' = keyCount + (IF index[k] = NoEntry THEN 1 ELSE 0)
      /\ pc' = [pc EXCEPT ![p] = "setPublish"]
      /\ UNCHANGED <<clockVars, gcVars, index, entry, taken, delivered, usedBytes,
                     keys, cur, batch, flusher, health>>
  BY <1>1 DEF SetLock, Goto
<1>3. entry[cur[p]].size \in Int
  BY <1>0, EntrySize DEF ArgInv, SetSteps
<1>4. SizeAt(index, k) \in Int
  BY SizeAtNat DEF IndexInv
<1>5. [index EXCEPT ![k] = cur[p]] \in Snapshot
  BY <1>0 DEF TypeInv, StoreTypeOK, Snapshot
<1>6. TypeInv'
  BY <1>0, <1>2, <1>3, <1>4, <1>5 DEF TypeInv, StoreTypeOK, Steps, clockVars, gcVars
<1>7. MutexInv'
  BY <1>0, <1>2, StoreAssumption DEF MutexInv, TypeInv, StoreTypeOK, Inside, Procs
<1>8. ArgInv'
  BY <1>0, <1>2 DEF ArgInv, TypeInv, StoreTypeOK, SetSteps, FoundSteps
<1>9. IndexInv'
  BY <1>2 DEF IndexInv
<1>10. \A q \in Procs : q # p => pc'[q] # "setPublish" /\ pc'[q] # "delKeys"
  BY <1>0, <1>2, StoreAssumption DEF MutexInv, Inside, Procs, TypeInv, StoreTypeOK
<1>11. pc'[p] = "setPublish" /\ newIdx'[p] = [index' EXCEPT ![k] = cur'[p]] /\ keys'[p] = {k}
  BY <1>0, <1>1, <1>2 DEF TypeInv, StoreTypeOK
<1>12. BuildInv'
  BY <1>10, <1>11 DEF BuildInv
<1> QED
  BY <1>6, <1>7, <1>8, <1>9, <1>12

\* Only one goroutine is inside.
LEMMA OneInside ==
  ASSUME IInv, NEW p \in Procs, pc[p] \in Inside, NEW q \in Procs, q # p
  PROVE  pc[q] \notin Inside /\ writeMu = p
BY DEF IInv, MutexInv

\* Set stores the copy (in_memory.go:119).
LEMMA SetPublishInv ==
  ASSUME IInv, NEW p \in Clients, SetPublish(p)
  PROVE  IInv'
<1> USE DEF IInv
<1>0. p \in Procs /\ pc[p] = "setPublish" /\ pc[p] \in Inside
  BY DEF Procs, SetPublish, Inside
<1>1. /\ index' = newIdx[p]
      /\ pc' = [pc EXCEPT ![p] = "setUsage"]
      /\ UNCHANGED <<clockVars, gcVars, entry, taken, delivered, counters, writeMu,
                     keys, cur, localVars, flusher, health>>
  BY DEF SetPublish, Goto
<1>2. PICK k \in Keys : keys[p] = {k}
  BY <1>0 DEF ArgInv, SetSteps
<1>3. index' = [index EXCEPT ![k] = cur[p]] /\ cur[p] \in DOMAIN entry
  BY <1>0, <1>1, <1>2 DEF BuildInv, ArgInv, SetSteps
<1>4. TypeInv'
  BY <1>0, <1>1 DEF TypeInv, StoreTypeOK, Steps, clockVars, gcVars, counters, localVars
<1>5. MutexInv'
  BY <1>0, <1>1 DEF MutexInv, TypeInv, StoreTypeOK, Inside
<1>6. ArgInv'
  BY <1>0, <1>1 DEF ArgInv, TypeInv, StoreTypeOK, SetSteps, FoundSteps
<1>7. IndexInv'
  BY <1>1, <1>3 DEF IndexInv, TypeInv, StoreTypeOK, Snapshot
<1>8. \A q \in Procs : pc'[q] # "setPublish" /\ pc'[q] # "delKeys"
  BY <1>0, <1>1, OneInside DEF Inside, TypeInv, StoreTypeOK
<1>9. BuildInv'
  BY <1>8 DEF BuildInv
<1> QED
  BY <1>4, <1>5, <1>6, <1>7, <1>9

\* Set adjusts usedBytes (in_memory.go:120).
LEMMA SetUsageInv ==
  ASSUME IInv, NEW p \in Clients, SetUsage(p)
  PROVE  IInv'
<1> USE DEF IInv
<1>0. p \in Procs /\ pc[p] = "setUsage" /\ pc[p] \in Inside
  BY DEF Procs, SetUsage, Inside
<1>1. /\ usedBytes' = usedBytes + delta[p]
      /\ pc' = [pc EXCEPT ![p] = "setSchedule"]
      /\ UNCHANGED <<clockVars, gcVars, index, entry, taken, delivered, keyCount, writeMu,
                     keys, cur, localVars, flusher, health>>
  BY DEF SetUsage, Goto
<1>2. TypeInv'
  BY <1>0, <1>1 DEF TypeInv, StoreTypeOK, Steps, clockVars, gcVars, localVars
<1>3. MutexInv'
  BY <1>0, <1>1 DEF MutexInv, TypeInv, StoreTypeOK, Inside
<1>4. ArgInv'
  BY <1>0, <1>1 DEF ArgInv, TypeInv, StoreTypeOK, SetSteps, FoundSteps
<1>5. IndexInv'
  BY <1>1 DEF IndexInv
<1>6. BuildInv'
  BY <1>0, <1>1 DEF BuildInv, Minus, TypeInv, StoreTypeOK, localVars
<1> QED
  BY <1>2, <1>3, <1>4, <1>5, <1>6

\* Leaving the critical section, by a return or by a panic.
LEMMA LeaveStep ==
  ASSUME IInv, NEW p \in Procs, pc[p] \in Inside, Return(p), Unlock(p),
         UNCHANGED <<index, entry, taken, delivered, now, pending, expired>>,
         keyCount' \in Int, usedBytes' \in Int,
         flusher' \in {"off", "run", "last", "done"},
         health' \in {"ok", "recovered", "dead"}
  PROVE  IInv'
<1> USE DEF IInv
<1>1. /\ pc' = [pc EXCEPT ![p] = "idle"]
      /\ keys' = [keys EXCEPT ![p] = {}]
      /\ cur' = [cur EXCEPT ![p] = NoEntry]
      /\ writeMu' = Nobody
      /\ newIdx' = [newIdx EXCEPT ![p] = EmptyIndex]
      /\ batch' = [batch EXCEPT ![p] = {}]
      /\ delta' = [delta EXCEPT ![p] = 0]
  BY DEF Return, Unlock, DropLocals, Begin, Goto
<1>2. EmptyIndex \in Snapshot
  BY DEF EmptyIndex, Snapshot
<1>3. TypeInv'
  BY <1>1, <1>2 DEF TypeInv, StoreTypeOK, Steps
<1>4. \A q \in Procs : pc'[q] \notin Inside
  BY <1>1, OneInside DEF Inside, TypeInv, StoreTypeOK
<1>5. MutexInv'
  BY <1>1, <1>4, StoreAssumption DEF MutexInv, Procs
<1>6. ArgInv'
  BY <1>1 DEF ArgInv, TypeInv, StoreTypeOK, SetSteps, FoundSteps
<1>7. IndexInv'
  BY DEF IndexInv
<1>8. BuildInv'
  BY <1>4 DEF BuildInv, Inside
<1> QED
  BY <1>3, <1>5, <1>6, <1>7, <1>8

\* Set schedules its timer and leaves, or panics (in_memory.go:122).
LEMMA SetScheduleInv ==
  ASSUME IInv, NEW p \in Clients, SetSchedule(p)
  PROVE  IInv'
<1>1. p \in Procs /\ pc[p] \in Inside
  BY DEF Procs, SetSchedule, Inside
<1>2. /\ Return(p) /\ Unlock(p)
      /\ UNCHANGED <<clockVars, pending, expired, dataVars, flusher>>
      /\ health' = health \/ health' \in {"recovered", "dead"}
  BY DEF SetSchedule, Panic
<1> QED
  BY <1>1, <1>2, LeaveStep DEF dataVars, counters, clockVars, IInv, TypeInv, StoreTypeOK

\* deleteBatch copies the index under the lock (in_memory.go:131-137).
LEMMA DelLockInv ==
  ASSUME IInv, NEW p \in Procs, DelLock(p)
  PROVE  IInv'
<1> USE DEF IInv
<1>1. /\ pc[p] = "delLock" /\ writeMu = Nobody /\ writeMu' = p
      /\ newIdx' = [newIdx EXCEPT ![p] = index]
      /\ batch' = [batch EXCEPT ![p] = keys[p]]
      /\ delta' = [delta EXCEPT ![p] = 0]
      /\ pc' = [pc EXCEPT ![p] = "delKeys"]
      /\ UNCHANGED <<clockVars, gcVars, dataVars, keys, cur, flusher, health>>
  BY DEF DelLock, Lock, Goto
<1>2. TypeInv'
  BY <1>1 DEF TypeInv, StoreTypeOK, Steps, clockVars, gcVars, dataVars, counters
<1>3. MutexInv'
  BY <1>1, StoreAssumption DEF MutexInv, TypeInv, StoreTypeOK, Inside, Procs
<1>4. ArgInv'
  BY <1>1 DEF ArgInv, TypeInv, StoreTypeOK, SetSteps, FoundSteps, dataVars
<1>5. IndexInv'
  BY <1>1 DEF IndexInv, dataVars
<1>6. \A q \in Procs : q # p => pc'[q] # "setPublish" /\ pc'[q] # "delKeys"
  BY <1>1, StoreAssumption DEF MutexInv, Inside, Procs, TypeInv, StoreTypeOK
<1>7. /\ pc'[p] = "delKeys" /\ newIdx'[p] = index' /\ batch'[p] = keys'[p] /\ delta'[p] = 0
      /\ index' \in Snapshot
  BY <1>1 DEF TypeInv, StoreTypeOK, dataVars
<1>8. newIdx'[p] = Minus(keys[p] \ batch[p])'
  BY <1>7 DEF Minus, Snapshot
<1>9. BuildInv'
  BY <1>6, <1>7, <1>8 DEF BuildInv
<1> QED
  BY <1>2, <1>3, <1>4, <1>5, <1>9

\* The key visited next, as the loop of deleteBatch finds it.
LEMMA NextIndex ==
  ASSUME IInv, NEW p \in Procs, pc[p] = "delKeys", NEW k \in batch[p]
  PROVE  k \in Keys /\ k \in keys[p] /\ newIdx[p][k] = index[k]
BY DEF IInv, BuildInv, Minus, TypeInv, StoreTypeOK

\* One turn of the loop of deleteBatch, a panic included (in_memory.go:153-164).
LEMMA DelKeyInv ==
  ASSUME IInv, NEW p \in Procs, DelKey(p)
  PROVE  IInv'
<1> USE DEF IInv
<1>1. pc[p] = "delKeys" /\ pc[p] \in Inside
  BY DEF DelKey, Inside
<1>2. PICK k \in batch[p] : DelMissing(p, k) \/ DelFound(p, k)
  BY DEF DelKey
<1>3. UNCHANGED <<clockVars, pending, collector, expired, stopped, index, entry, taken, delivered, usedBytes>>
  BY DEF DelKey
<1>4. k \in Keys /\ k \in keys[p] /\ newIdx[p][k] = index[k]
  BY <1>1, NextIndex
<1>5. CASE DelFound(p, k) /\ CancelPanics(k)
  <2>1. Panic(p) /\ keyCount' = keyCount - 1
    BY <1>5 DEF DelFound
  <2> QED
    BY <1>1, <1>3, <2>1, LeaveStep DEF Panic, clockVars, TypeInv, StoreTypeOK
<1>6. CASE DelMissing(p, k) \/ (DelFound(p, k) /\ ~CancelPanics(k))
  <2>1. /\ batch' = [batch EXCEPT ![p] = @ \ {k}]
        /\ UNCHANGED <<writeMu, opVars, flusher, health>>
        /\ \/ newIdx[p][k] = NoEntry /\ UNCHANGED <<keyCount, newIdx, delta>>
           \/ /\ newIdx[p][k] # NoEntry
              /\ keyCount' = keyCount - 1
              /\ delta' = [delta EXCEPT ![p] = @ - SizeAt(newIdx[p], k)]
              /\ newIdx' = [newIdx EXCEPT ![p][k] = NoEntry]
    BY <1>6 DEF DelMissing, DelFound
  <2>2. /\ SizeAt(newIdx[p], k) \in Nat
        /\ 0 \notin Sizes /\ newIdx[p][k] # NoEntry => SizeAt(newIdx[p], k) > 0
    BY <1>4, SizeAtNat DEF IndexInv
  <2>3. TypeInv'
    <3>1. batch' \in [Procs -> SUBSET Keys] /\ keyCount' \in Int
      BY <2>1 DEF TypeInv, StoreTypeOK
    <3>2. delta' \in [Procs -> Int]
      BY <2>1, <2>2 DEF TypeInv, StoreTypeOK
    <3>3. newIdx[p] \in Snapshot
      BY DEF TypeInv, StoreTypeOK
    <3>4. [newIdx[p] EXCEPT ![k] = NoEntry] \in Snapshot
      BY <3>3 DEF Snapshot
    <3>5. newIdx' \in [Procs -> Snapshot]
      BY <2>1, <3>4 DEF TypeInv, StoreTypeOK
    <3> QED
      BY <1>3, <2>1, <3>1, <3>2, <3>5 DEF TypeInv, StoreTypeOK, clockVars, opVars
  <2>4. MutexInv' /\ ArgInv' /\ IndexInv'
    BY <1>3, <2>1 DEF MutexInv, ArgInv, IndexInv, opVars
  <2>5. /\ batch'[p] = batch[p] \ {k} /\ keys'[p] = keys[p] /\ pc' = pc
        /\ \A q \in Procs : q # p => pc[q] # "setPublish" /\ pc[q] # "delKeys"
    BY <1>1, <2>1, OneInside DEF opVars, Inside, TypeInv, StoreTypeOK
  <2>6. newIdx'[p] = [newIdx[p] EXCEPT ![k] = NoEntry]
    BY <2>1, <1>4 DEF TypeInv, StoreTypeOK, Snapshot
  <2>7. newIdx'[p] = Minus(keys[p] \ batch[p])'
    <3>1. newIdx[p] = Minus(keys[p] \ batch[p]) /\ index' = index
      BY <1>1, <1>3 DEF BuildInv
    <3> QED
      BY <1>4, <2>5, <2>6, <3>1 DEF Minus
  <2>8. delta'[p] <= 0 /\ (0 \notin Sizes /\ delta'[p] = 0 => newIdx'[p] = index')
    <3>1. /\ delta[p] <= 0 /\ delta[p] \in Int /\ index' = index
          /\ 0 \notin Sizes /\ delta[p] = 0 => newIdx[p] = index
      BY <1>1, <1>3 DEF BuildInv, TypeInv, StoreTypeOK
    <3>2. CASE newIdx[p][k] = NoEntry
      BY <2>1, <3>1, <3>2
    <3>3. CASE newIdx[p][k] # NoEntry
      <4>1. delta'[p] = delta[p] - SizeAt(newIdx[p], k)
        BY <2>1, <3>3 DEF TypeInv, StoreTypeOK
      <4> QED
        BY <2>2, <3>1, <3>3, <4>1
    <3> QED
      BY <3>2, <3>3
  <2>9. BuildInv'
    BY <1>1, <2>5, <2>7, <2>8 DEF BuildInv, TypeInv, StoreTypeOK
  <2> QED
    BY <2>3, <2>4, <2>9
<1> QED
  BY <1>2, <1>5, <1>6

\* deleteBatch stores its copy (in_memory.go:168-169).
LEMMA DelPublishInv ==
  ASSUME IInv, NEW p \in Procs, DelPublish(p)
  PROVE  IInv'
<1> USE DEF IInv
<1>1. /\ pc[p] = "delKeys" /\ pc[p] \in Inside /\ batch[p] = {}
      /\ index' = IF delta[p] # 0 THEN newIdx[p] ELSE index
      /\ pc' = [pc EXCEPT ![p] = "delUsage"]
      /\ UNCHANGED <<clockVars, gcVars, entry, taken, delivered, counters, writeMu,
                     keys, cur, localVars, flusher, health>>
  BY DEF DelPublish, Goto, Inside
<1>2. index' = Minus(keys[p]) \/ index' = index
  BY <1>1 DEF BuildInv, Minus
<1>3. TypeInv'
  BY <1>1 DEF TypeInv, StoreTypeOK, Steps, clockVars, gcVars, counters, localVars
<1>4. MutexInv'
  BY <1>1 DEF MutexInv, TypeInv, StoreTypeOK, Inside
<1>5. ArgInv'
  BY <1>1 DEF ArgInv, TypeInv, StoreTypeOK, SetSteps, FoundSteps
<1>6. IndexInv'
  BY <1>1, <1>2 DEF IndexInv, Minus
<1>7. \A q \in Procs : pc'[q] # "setPublish" /\ pc'[q] # "delKeys"
  BY <1>1, OneInside DEF Inside, TypeInv, StoreTypeOK
<1>8. BuildInv'
  BY <1>7 DEF BuildInv
<1> QED
  BY <1>3, <1>4, <1>5, <1>6, <1>8

\* deleteBatch adjusts usedBytes and leaves (in_memory.go:170).
LEMMA DelUsageInv ==
  ASSUME IInv, NEW p \in Procs, DelUsage(p)
  PROVE  IInv'
<1>1. pc[p] \in Inside
  BY DEF DelUsage, Inside
<1>2. usedBytes' \in Int /\ flusher' \in {"off", "run", "last", "done"}
  BY DEF DelUsage, IInv, TypeInv, StoreTypeOK
<1> QED
  BY <1>1, <1>2, LeaveStep DEF DelUsage, clockVars, gcVars, IInv, TypeInv, StoreTypeOK

\* Delete and Get calls begin outside the critical section.
LEMMA CallInv ==
  ASSUME IInv, NEW p \in Clients, DeleteCall(p) \/ GetCall(p)
  PROVE  IInv'
<1>1. PICK k \in Keys, step \in {"delLock", "getLoad"} : Begin(p, step, {k}, NoEntry)
  BY DEF DeleteCall, GetCall
<1>2. p \in Procs /\ pc[p] \notin Inside
  BY DEF Procs, DeleteCall, GetCall, Inside
<1>3. UNCHANGED <<clockVars, gcVars, dataVars, writeMu, localVars, flusher, health>>
  BY DEF DeleteCall, GetCall
<1>4. step \in Steps \ (Inside \cup SetSteps) /\ step \notin FoundSteps
  BY DEF Steps, Inside, SetSteps, FoundSteps
<1>5. TypeInv'
  BY <1>1, <1>2, <1>3, <1>4 DEF IInv, TypeInv, StoreTypeOK, Begin, Goto, clockVars, gcVars,
     dataVars, counters, localVars
<1> QED
  BY <1>1, <1>2, <1>3, <1>4, <1>5, UnlockedStep DEF dataVars

\* The coalescer begins a deleteBatch with the pending keys (delete_coalescer.go:67-83).
LEMMA FlushInv ==
  ASSUME IInv, Flush
  PROVE  IInv'
<1>1. Flusher \in Procs /\ pc[Flusher] \notin Inside
  BY DEF Procs, Flush, Inside
<1>2. /\ UNCHANGED <<clockVars, expired, dataVars, writeMu, localVars, health>>
      /\ flusher' \in {"off", "run", "last", "done"}
  BY DEF Flush
<1>3. CASE pending = {}
  <2>1. UNCHANGED <<opVars, pending>>
    BY <1>3 DEF Flush
  <2>2. TypeInv'
    BY <1>2, <2>1 DEF IInv, TypeInv, StoreTypeOK, opVars, clockVars, dataVars, counters, localVars
  <2> QED
    BY <1>2, <2>1, <2>2, QuietStep DEF dataVars
<1>4. CASE pending # {}
  <2>1. Begin(Flusher, "delLock", pending, NoEntry) /\ pending' = {}
    BY <1>4 DEF Flush
  <2>2. TypeInv'
    BY <1>1, <1>2, <2>1 DEF IInv, TypeInv, StoreTypeOK, Steps, Begin, Goto, clockVars, dataVars,
       counters, localVars
  <2>3. "delLock" \in Steps \ (Inside \cup SetSteps) /\ "delLock" \notin FoundSteps
    BY DEF Steps, Inside, SetSteps, FoundSteps
  <2> QED
    BY <1>1, <1>2, <2>1, <2>2, <2>3, UnlockedStep DEF dataVars
<1> QED
  BY <1>3, <1>4

\* What a step of Get does to the operation of its goroutine.
LEMMA GetMove ==
  ASSUME IInv, NEW p \in Clients,
         GetLoad(p) \/ GetCheck(p) \/ GetTake(p) \/ GetEnqueue(p)
  PROVE  \E step \in {"idle", "getCheck"} \cup FoundSteps, e \in EntryIds \cup {NoEntry},
            K \in SUBSET Keys :
           Begin(p, step, K, e) /\ (step \in FoundSteps => e # NoEntry)
<1> USE DEF IInv
<1>1. p \in Procs /\ keys \in [Procs -> SUBSET Keys] /\ cur \in [Procs -> EntryIds \cup {NoEntry}]
  BY DEF Procs, TypeInv, StoreTypeOK
<1>2. keys = [keys EXCEPT ![p] = keys[p]] /\ cur = [cur EXCEPT ![p] = cur[p]]
  BY <1>1
<1>3. ASSUME NEW step \in {"idle", "getCheck"} \cup FoundSteps, Goto(p, step), UNCHANGED <<keys, cur>>
      PROVE  Begin(p, step, keys[p], cur[p])
  BY <1>2, <1>3 DEF Begin
<1>4. CASE GetLoad(p)
  <2>1. PICK k \in keys[p] : cur' = [cur EXCEPT ![p] = index[k]] /\ Goto(p, "getCheck") /\ UNCHANGED keys
    BY <1>4 DEF GetLoad
  <2>2. index[k] \in EntryIds \cup {NoEntry}
    BY <1>1, <2>1 DEF TypeInv, StoreTypeOK, Snapshot
  <2>3. Begin(p, "getCheck", keys[p], index[k])
    BY <1>2, <2>1 DEF Begin
  <2> QED
    BY <1>1, <2>2, <2>3 DEF FoundSteps
<1>5. CASE GetCheck(p)
  <2>1. CASE Return(p)
    BY <2>1 DEF Return, FoundSteps
  <2>2. CASE cur[p] # NoEntry /\ UNCHANGED <<keys, cur>> /\ (Goto(p, "getStale") \/ Goto(p, "getTake"))
    BY <1>1, <1>3, <2>2 DEF FoundSteps
  <2> QED
    BY <1>5, <2>1, <2>2 DEF GetCheck
<1>6. CASE GetTake(p)
  <2>1. CASE Return(p)
    BY <2>1 DEF Return, FoundSteps
  <2>2. CASE Goto(p, "getHit") /\ UNCHANGED <<keys, cur>>
    <3>1. cur[p] # NoEntry
      BY <1>1, <1>6 DEF GetTake, ArgInv, FoundSteps
    <3> QED
      BY <1>1, <1>3, <2>2, <3>1 DEF FoundSteps
  <2> QED
    BY <1>6, <2>1, <2>2 DEF GetTake
<1>7. CASE GetEnqueue(p)
  BY <1>7 DEF GetEnqueue, Return, FoundSteps
<1> QED
  BY <1>4, <1>5, <1>6, <1>7

\* Get never enters the critical section (in_memory.go:50-77).
LEMMA GetInv ==
  ASSUME IInv, NEW p \in Clients,
         GetLoad(p) \/ GetCheck(p) \/ GetTake(p) \/ GetEnqueue(p)
  PROVE  IInv'
<1>1. PICK step \in {"idle", "getCheck"} \cup FoundSteps, e \in EntryIds \cup {NoEntry},
           K \in SUBSET Keys :
        Begin(p, step, K, e) /\ (step \in FoundSteps => e # NoEntry)
  BY GetMove
<1>2. p \in Procs /\ pc[p] \notin Inside
  BY DEF Procs, Inside, GetLoad, GetCheck, GetTake, GetEnqueue
<1>3. UNCHANGED <<clockVars, expired, index, entry, counters, writeMu, localVars, flusher, health>>
  BY DEF GetLoad, GetCheck, GetTake, GetEnqueue, gcVars, dataVars
<1>4. step \in Steps \ (Inside \cup SetSteps)
  BY DEF Steps, Inside, SetSteps, FoundSteps
<1>5. taken' \subseteq EntryIds
  <2>1. CASE GetTake(p)
    <3>1. cur[p] \in EntryIds
      BY <1>2, <2>1 DEF GetTake, IInv, ArgInv, FoundSteps, TypeInv, StoreTypeOK
    <3> QED
      BY <2>1, <3>1 DEF GetTake, IInv, TypeInv, StoreTypeOK
  <2>2. CASE GetLoad(p) \/ GetCheck(p) \/ GetEnqueue(p)
    BY <2>2 DEF GetLoad, GetCheck, GetEnqueue, dataVars, IInv, TypeInv, StoreTypeOK
  <2> QED
    BY <2>1, <2>2
<1>6. pending' \subseteq Keys /\ delivered' \in [EntryIds -> Nat]
  <2>1. CASE GetEnqueue(p)
    <3>1. PICK k \in keys[p] :
            /\ pc[p] \in FoundSteps
            /\ pending' = pending \cup {k}
            /\ delivered' = IF pc[p] = "getHit" THEN [delivered EXCEPT ![cur[p]] = @ + 1] ELSE delivered
      BY <2>1 DEF GetEnqueue, ScheduleDelete, FoundSteps
    <3>2. cur[p] \in EntryIds
      BY <1>2, <3>1 DEF IInv, ArgInv, TypeInv, StoreTypeOK
    <3>3. pending' \subseteq Keys
      BY <1>2, <3>1 DEF IInv, TypeInv, StoreTypeOK
    <3>4. delivered' \in [EntryIds -> Nat]
      BY <3>1, <3>2 DEF IInv, TypeInv, StoreTypeOK
    <3> QED
      BY <3>3, <3>4
  <2>2. CASE GetLoad(p) \/ GetCheck(p) \/ GetTake(p)
    BY <2>2 DEF GetLoad, GetCheck, GetTake, dataVars, gcVars, IInv, TypeInv, StoreTypeOK
  <2> QED
    BY <2>1, <2>2
<1>7. TypeInv'
  BY <1>1, <1>2, <1>3, <1>4, <1>5, <1>6 DEF IInv, TypeInv, StoreTypeOK, Begin, Goto,
     clockVars, counters, localVars
<1> QED
  BY <1>1, <1>2, <1>3, <1>4, <1>7, UnlockedStep

\* Clocks and the collector leave the store alone.
LEMMA BackgroundInv ==
  ASSUME IInv, StartGC \/ StopGC \/ Clock \/ CacheRefresh \/ CollectorStep
  PROVE  IInv'
<1>1. UNCHANGED <<dataVars, writeMu, opVars, localVars, health>>
  BY DEF StartGC, StopGC, Clock, CacheRefresh, CollectorStep, storeVars
<1>2. flusher' = flusher \/ flusher' = "run"
  BY DEF StartGC, StopGC, Clock, CacheRefresh, CollectorStep, storeVars
<1>3. now' \in Nat
  BY DEF StartGC, StopGC, Clock, CacheRefresh, CollectorStep, NearTick, WheelTick, EnqueueBatch,
     CollectorExit, clockVars, IInv, TypeInv
<1>4. Near!DrainedKeys \subseteq Keys /\ Wheel!Expired \subseteq Keys
  BY DEF Near!DrainedKeys, Wheel!Expired
<1>5. CASE StartGC \/ StopGC \/ Clock \/ CacheRefresh
  <2>1. UNCHANGED <<pending, expired>>
    BY <1>5 DEF StartGC, Start, StopGC, Stop, Clock, CacheRefresh, gcVars
  <2>2. TypeInv'
    BY <1>1, <1>2, <1>3, <2>1 DEF IInv, TypeInv, StoreTypeOK, dataVars, counters, opVars, localVars
  <2> QED
    BY <1>1, <2>2, QuietStep DEF dataVars
<1>6. CASE CollectorStep
  <2>1. pending' \subseteq Keys /\ expired' \subseteq Keys
    BY <1>4, <1>6 DEF CollectorStep, NearTick, WheelTick, EnqueueBatch, CollectorExit, Collect,
       IInv, TypeInv
  <2>2. TypeInv'
    BY <1>1, <1>2, <1>3, <2>1 DEF IInv, TypeInv, StoreTypeOK, dataVars, counters, opVars, localVars
  <2> QED
    BY <1>1, <2>2, QuietStep DEF dataVars
<1> QED
  BY <1>5, <1>6

\* A new store satisfies the invariant.
LEMMA InitInv == Init => IInv
<1> SUFFICES ASSUME Init PROVE IInv
  OBVIOUS
<1>1. EmptyIndex \in Snapshot
  BY DEF EmptyIndex, Snapshot
<1>2. TypeInv
  BY <1>1, StoreAssumption DEF Init, GcInit, TypeInv, StoreTypeOK, Steps
<1>3. MutexInv
  BY StoreAssumption DEF Init, MutexInv, Inside, Procs
<1>4. ArgInv /\ BuildInv
  BY DEF Init, ArgInv, BuildInv, SetSteps, FoundSteps
<1>5. IndexInv
  BY DEF Init, IndexInv, EmptyIndex
<1> QED
  BY <1>2, <1>3, <1>4, <1>5 DEF IInv

\* Every step of the shard keeps the invariant.
LEMMA NextInv ==
  ASSUME IInv, [Next]_vars
  PROVE  IInv'
<1>1. CASE UNCHANGED vars
  <2>1. TypeInv'
    BY <1>1 DEF IInv, TypeInv, StoreTypeOK, vars, clockVars, gcVars, storeVars, dataVars, counters,
       opVars, localVars
  <2> QED
    BY <1>1, <2>1, QuietStep DEF vars, storeVars, dataVars
<1>2. ASSUME NEW p \in Clients, Call(p) \/ ClientSteps(p)
      PROVE  IInv'
  BY <1>2, SetCallInv, CallInv, SetLockInv, SetPublishInv, SetUsageInv, SetScheduleInv, GetInv
     DEF Call, ClientSteps
<1>3. ASSUME NEW p \in Procs, DeleteSteps(p)
      PROVE  IInv'
  BY <1>3, DelLockInv, DelKeyInv, DelPublishInv, DelUsageInv DEF DeleteSteps
<1> QED
  BY <1>1, <1>2, <1>3, FlushInv, BackgroundInv DEF Next

(***************************************************************************)
(* The writers of a shard exclude each other and build the next index from *)
(* the published one, whoever they are and whichever call panics.          *)
(***************************************************************************)
THEOREM StoreInvariant == Spec => []IInv
<1>1. IInv /\ [Next]_vars => IInv'
  BY NextInv
<1> QED
  BY <1>1, InitInv, PTL DEF Spec

-----------------------------------------------------------------------------
(***************************************************************************)
(* Single-read entries.  The compare-and-swap on AccessCount decides which *)
(* reader may deliver; until it has, the entry was delivered to nobody.    *)
(***************************************************************************)
HitInv ==
  /\ \A p \in Procs : pc[p] = "getHit" => cur[p] \in taken /\ delivered[cur[p]] = 0
  /\ \A p, q \in Procs : pc[p] = "getHit" /\ pc[q] = "getHit" /\ cur[p] = cur[q] => p = q
  /\ \A e \in EntryIds : delivered[e] # 0 => e \in taken /\ delivered[e] = 1

\* A step in which no goroutine wins, or is done with, an entry.
LEMMA HitKept ==
  ASSUME HitInv, UNCHANGED <<taken, delivered>>,
         \A p \in Procs : pc'[p] = "getHit" => pc[p] = "getHit" /\ cur'[p] = cur[p]
  PROVE  HitInv'
BY DEF HitInv

LEMMA NextHit ==
  ASSUME IInv, HitInv, [Next]_vars
  PROVE  HitInv'
<1> USE DEF IInv
<1>0. pc \in [Procs -> Steps] /\ cur \in [Procs -> EntryIds \cup {NoEntry}] /\ Clients \subseteq Procs
  BY DEF TypeInv, StoreTypeOK, Procs
<1>1. ASSUME NEW p \in Procs, NEW step, NEW K, NEW e, Begin(p, step, K, e), step # "getHit",
             UNCHANGED <<taken, delivered>>
      PROVE  HitInv'
  BY <1>0, <1>1, HitKept DEF Begin, Goto
<1>2. ASSUME NEW p \in Procs, NEW step, Goto(p, step), step # "getHit", UNCHANGED <<cur, taken, delivered>>
      PROVE  HitInv'
  BY <1>0, <1>2, HitKept DEF Goto
<1>3. ASSUME UNCHANGED <<opVars, taken, delivered>>
      PROVE  HitInv'
  BY <1>3, HitKept DEF opVars
<1>4. ASSUME NEW p \in Clients, Call(p)
      PROVE  HitInv'
  BY <1>0, <1>1, <1>4 DEF Call, SetCall, DeleteCall, GetCall, dataVars
<1>5. ASSUME NEW p \in Clients, SetLock(p) \/ SetPublish(p) \/ SetUsage(p)
      PROVE  HitInv'
  BY <1>0, <1>2, <1>5 DEF SetLock, SetPublish, SetUsage
<1>6. ASSUME NEW p \in Clients, SetSchedule(p)
      PROVE  HitInv'
  BY <1>0, <1>1, <1>6 DEF SetSchedule, Panic, Return, dataVars
<1>7. ASSUME NEW p \in Procs, DeleteSteps(p)
      PROVE  HitInv'
  <2>1. CASE DelLock(p)
    BY <1>2, <2>1 DEF DelLock, dataVars
  <2>2. CASE DelKey(p)
    BY <1>1, <1>3, <2>2 DEF DelKey, DelMissing, DelFound, Panic, Return
  <2>3. CASE DelPublish(p)
    BY <1>2, <2>3 DEF DelPublish
  <2>4. CASE DelUsage(p)
    BY <1>1, <2>4 DEF DelUsage, Return
  <2> QED
    BY <1>7, <2>1, <2>2, <2>3, <2>4 DEF DeleteSteps
<1>8. CASE Flush
  <2>1. Flusher \in Procs
    BY DEF Procs
  <2> QED
    BY <1>1, <1>3, <1>8, <2>1 DEF Flush, dataVars
<1>9. ASSUME NEW p \in Clients, GetLoad(p) \/ GetCheck(p)
      PROVE  HitInv'
  <2>1. CASE GetLoad(p)
    BY <1>0, <2>1, HitKept DEF GetLoad, Goto, dataVars
  <2>2. CASE GetCheck(p)
    BY <1>0, <1>1, <1>2, <2>2 DEF GetCheck, Return, dataVars
  <2> QED
    BY <1>9, <2>1, <2>2
<1>10. ASSUME NEW p \in Clients, GetTake(p)
       PROVE  HitInv'
  <2>1. p \in Procs /\ cur[p] \in EntryIds /\ UNCHANGED delivered
    BY <1>0, <1>10 DEF GetTake, ArgInv, FoundSteps
  <2>2. CASE Return(p) /\ UNCHANGED taken
    BY <1>1, <2>1, <2>2 DEF Return
  <2>3. CASE cur[p] \notin taken /\ taken' = taken \cup {cur[p]} /\ Goto(p, "getHit") /\ UNCHANGED cur
    <3>1. delivered[cur[p]] = 0 /\ \A q \in Procs : pc[q] = "getHit" => cur[q] # cur[p]
      BY <2>1, <2>3 DEF HitInv
    <3>2. \A q \in Procs : pc'[q] = "getHit" => q = p \/ pc[q] = "getHit"
      BY <1>0, <2>3 DEF Goto
    <3> QED
      BY <2>1, <2>3, <3>1, <3>2 DEF HitInv
  <2> QED
    BY <1>10, <2>2, <2>3 DEF GetTake
<1>11. ASSUME NEW p \in Clients, GetEnqueue(p)
       PROVE  HitInv'
  <2>1. p \in Procs /\ Return(p) /\ UNCHANGED taken
    BY <1>0, <1>11 DEF GetEnqueue
  <2>2. CASE pc[p] = "getStale"
    BY <1>1, <1>11, <2>1, <2>2 DEF GetEnqueue, Return
  <2>3. CASE pc[p] = "getHit"
    <3>1. delivered' = [delivered EXCEPT ![cur[p]] = @ + 1] /\ delivered \in [EntryIds -> Nat]
      BY <1>11, <2>3 DEF GetEnqueue, TypeInv, StoreTypeOK
    <3>2. cur[p] \in EntryIds /\ cur[p] \in taken /\ delivered[cur[p]] = 0
      BY <1>0, <2>1, <2>3 DEF HitInv, ArgInv, FoundSteps
    <3>3. \A q \in Procs : pc'[q] = "getHit" =>
            q # p /\ pc[q] = "getHit" /\ cur'[q] = cur[q] /\ cur[q] # cur[p]
      BY <1>0, <2>1, <2>3 DEF Return, Begin, Goto, HitInv
    <3>4. \A e \in EntryIds : delivered'[e] = IF e = cur[p] THEN 1 ELSE delivered[e]
      BY <3>1, <3>2
    <3>5. \A q \in Procs : pc'[q] = "getHit" => cur'[q] \in taken' /\ delivered'[cur'[q]] = 0
      <4>1. ASSUME NEW q \in Procs, pc'[q] = "getHit"
            PROVE  cur'[q] \in taken' /\ delivered'[cur'[q]] = 0
        <5>1. cur[q] \in EntryIds /\ cur[q] \in taken /\ delivered[cur[q]] = 0
          BY <1>0, <3>3, <4>1 DEF HitInv, ArgInv, FoundSteps
        <5> QED
          BY <2>1, <3>3, <3>4, <4>1, <5>1
      <4> QED
        BY <4>1
    <3> QED
      BY <2>1, <3>2, <3>3, <3>4, <3>5 DEF HitInv
  <2> QED
    BY <1>11, <2>2, <2>3 DEF GetEnqueue
<1>12. CASE StartGC \/ StopGC \/ Clock \/ CacheRefresh \/ CollectorStep
  BY <1>3, <1>12 DEF StartGC, StopGC, Clock, CacheRefresh, CollectorStep, storeVars, dataVars
<1>13. CASE UNCHANGED vars
  BY <1>3, <1>13 DEF vars, storeVars, dataVars
<1> QED
  BY <1>4, <1>5, <1>6, <1>7, <1>8, <1>9, <1>10, <1>11, <1>12, <1>13 DEF Next, ClientSteps

(***************************************************************************)
(* However many readers hold an entry from old snapshots, and whatever     *)
(* Sets, deletes and flushes run meanwhile, a single-read value is         *)
(* delivered at most once (in_memory.go:64-70).                            *)
(***************************************************************************)
THEOREM DeliveredOnce == Spec => []SingleReadOnce
<1>1. Init => HitInv
  BY DEF Init, HitInv
<1>2. IInv /\ HitInv /\ [Next]_vars => HitInv'
  BY NextHit
<1>3. HitInv => SingleReadOnce
  <2> SUFFICES ASSUME HitInv, NEW e \in EntryIds
               PROVE  delivered[e] <= 1
    BY DEF SingleReadOnce
  <2>1. delivered[e] = 0 \/ delivered[e] = 1
    BY DEF HitInv
  <2> QED
    BY <2>1
<1> QED
  BY <1>1, <1>2, <1>3, StoreInvariant, PTL DEF Spec

-----------------------------------------------------------------------------
(***************************************************************************)
(* The copy-on-write store implements the atomic map: every step of the    *)
(* shard is a step of KVStore or leaves its variables alone.               *)
(***************************************************************************)
PhaseOfAll == [q \in Procs |-> PhaseOf(pc[q])]

\* The abstract phase of every step.
LEMMA Phases ==
  /\ PhaseOf("idle") = "idle"
  /\ PhaseOf("setLock") = "set" /\ PhaseOf("setPublish") = "set"
  /\ PhaseOf("delLock") = "delete" /\ PhaseOf("delKeys") = "delete"
  /\ PhaseOf("getLoad") = "get"
  /\ \A step \in {"setUsage", "setSchedule", "delUsage", "getCheck"} \cup FoundSteps :
        PhaseOf(step) = "done"
BY DEF PhaseOf, FoundSteps

\* A move of one goroutine is a turn of the abstract one.
LEMMA MoveIsTurn ==
  ASSUME TypeInv, NEW p \in Procs, NEW step, NEW K, NEW e, Begin(p, step, K, e)
  PROVE  KV!Turn(p, PhaseOf(step), K, e)
<1>1. PhaseOfAll' = [PhaseOfAll EXCEPT ![p] = PhaseOf(step)]
  BY DEF PhaseOfAll, Begin, Goto, TypeInv, StoreTypeOK
<1> QED
  BY <1>1 DEF KV!Turn, Begin, PhaseOfAll

\* So is a move that keeps its operands.
LEMMA StayIsTurn ==
  ASSUME TypeInv, NEW p \in Procs, NEW step, Goto(p, step), UNCHANGED <<keys, cur>>
  PROVE  KV!Turn(p, PhaseOf(step), keys[p], cur[p])
<1>1. Begin(p, step, keys[p], cur[p])
  BY DEF Begin, TypeInv, StoreTypeOK
<1> QED
  BY <1>1, MoveIsTurn

\* Moving on within one phase is no abstract step.
LEMMA SamePhase ==
  ASSUME TypeInv, NEW p \in Procs, NEW step, Goto(p, step), PhaseOf(step) = PhaseOf(pc[p]),
         UNCHANGED <<index, keys, cur>>
  PROVE  UNCHANGED KV!kvVars
<1>1. PhaseOfAll' = PhaseOfAll
  BY DEF PhaseOfAll, Goto, TypeInv, StoreTypeOK
<1> QED
  BY <1>1 DEF KV!kvVars, PhaseOfAll

\* The mapped phase function, applied.
LEMMA PhaseAt ==
  ASSUME NEW p \in Procs
  PROVE  [q \in Procs |-> PhaseOf(pc[q])][p] = PhaseOf(pc[p])
OBVIOUS

\* The calls of the clients are abstract calls.
LEMMA CallRefines ==
  ASSUME IInv, NEW p \in Clients, Call(p)
  PROVE  KV!Call(p)
<1>1. p \in Procs /\ pc[p] = "idle" /\ index' = index
  BY DEF Procs, Call, SetCall, DeleteCall, GetCall, dataVars
<1>2. [q \in Procs |-> PhaseOf(pc[q])][p] = "idle"
  BY <1>1, PhaseAt, Phases
<1>3. CASE SetCall(p)
  <2>1. PICK k \in Keys : Begin(p, "setLock", {k}, Len(entry) + 1)
    BY <1>3 DEF SetCall
  <2>2. Len(entry) + 1 \in EntryIds
    BY <1>3, StoreAssumption DEF SetCall, EntryIds, IInv, TypeInv, StoreTypeOK
  <2>3. KV!Turn(p, "set", {k}, Len(entry) + 1)
    BY <1>1, <2>1, MoveIsTurn, Phases DEF IInv
  <2> QED
    BY <1>1, <1>2, <2>2, <2>3 DEF KV!Call
<1>4. CASE DeleteCall(p)
  <2>1. PICK k \in Keys : Begin(p, "delLock", {k}, NoEntry)
    BY <1>4 DEF DeleteCall
  <2>2. KV!Turn(p, "delete", {k}, NoEntry)
    BY <1>1, <2>1, MoveIsTurn, Phases DEF IInv
  <2> QED
    BY <1>1, <1>2, <2>2 DEF KV!Call
<1>5. CASE GetCall(p)
  <2>1. PICK k \in Keys : Begin(p, "getLoad", {k}, NoEntry)
    BY <1>5 DEF GetCall
  <2>2. KV!Turn(p, "get", {k}, NoEntry)
    BY <1>1, <2>1, MoveIsTurn, Phases DEF IInv
  <2> QED
    BY <1>1, <1>2, <2>2 DEF KV!Call
<1> QED
  BY <1>3, <1>4, <1>5 DEF Call

\* A return after the linearization point is an abstract return.
LEMMA ReturnRefines ==
  ASSUME IInv, NEW p \in Procs, PhaseOf(pc[p]) = "done", Return(p), UNCHANGED index
  PROVE  KV!Return(p)
<1>1. KV!Turn(p, "idle", {}, NoEntry)
  BY MoveIsTurn, Phases DEF Return, IInv
<1> QED
  BY <1>1, PhaseAt DEF KV!Return

\* Set takes effect where it stores the index (in_memory.go:119).
LEMMA SetRefines ==
  ASSUME IInv, NEW p \in Clients, SetLock(p) \/ SetPublish(p) \/ SetUsage(p) \/ SetSchedule(p)
  PROVE  KV!Next \/ UNCHANGED KV!kvVars
<1>0. p \in Procs /\ TypeInv
  BY DEF Procs, IInv
<1>1. CASE SetLock(p)
  <2>1. pc[p] = "setLock" /\ Goto(p, "setPublish") /\ UNCHANGED <<index, keys, cur>>
    BY <1>1 DEF SetLock
  <2> QED
    BY <1>0, <2>1, SamePhase, Phases
<1>2. CASE SetPublish(p)
  <2>1. pc[p] = "setPublish" /\ Goto(p, "setUsage") /\ UNCHANGED <<keys, cur>> /\ index' = newIdx[p]
    BY <1>2 DEF SetPublish
  <2>2. KV!Turn(p, "done", keys[p], cur[p])
    BY <1>0, <2>1, StayIsTurn, Phases
  <2>3. PICK k \in Keys : keys[p] = {k}
    BY <1>0, <2>1 DEF IInv, ArgInv, SetSteps
  <2>4. index' = [index EXCEPT ![k] = cur[p]]
    BY <1>0, <2>1, <2>3 DEF IInv, BuildInv
  <2>5. index' = [j \in Keys |-> IF j \in keys[p] THEN cur[p] ELSE index[j]]
    BY <1>0, <2>3, <2>4 DEF TypeInv, StoreTypeOK, Snapshot
  <2>6. [q \in Procs |-> PhaseOf(pc[q])][p] = "set"
    BY <1>0, <2>1, PhaseAt, Phases
  <2>7. KV!Apply(p)
    BY <2>2, <2>5, <2>6 DEF KV!Apply
  <2> QED
    BY <1>0, <2>7 DEF KV!Next
<1>3. CASE SetUsage(p)
  <2>1. pc[p] = "setUsage" /\ Goto(p, "setSchedule") /\ UNCHANGED <<index, keys, cur>>
    BY <1>3 DEF SetUsage
  <2> QED
    BY <1>0, <2>1, SamePhase, Phases
<1>4. CASE SetSchedule(p)
  <2>1. pc[p] = "setSchedule" /\ Return(p) /\ UNCHANGED index
    BY <1>4 DEF SetSchedule, Panic, dataVars
  <2> QED
    BY <1>0, <2>1, ReturnRefines, Phases DEF KV!Next
<1> QED
  BY <1>1, <1>2, <1>3, <1>4

\* deleteBatch takes effect when it publishes; a panic before that is a failure.
LEMMA DeleteRefines ==
  ASSUME 0 \notin Sizes, IInv, NEW p \in Procs, DeleteSteps(p)
  PROVE  KV!Next \/ UNCHANGED KV!kvVars
<1>0. TypeInv
  BY DEF IInv
<1>1. CASE DelLock(p)
  <2>1. pc[p] = "delLock" /\ Goto(p, "delKeys") /\ UNCHANGED <<index, keys, cur>>
    BY <1>1 DEF DelLock, dataVars
  <2> QED
    BY <1>0, <2>1, SamePhase, Phases
<1>2. CASE DelKey(p)
  <2>1. pc[p] = "delKeys" /\ UNCHANGED index
    BY <1>2 DEF DelKey
  <2>2. UNCHANGED opVars \/ Panic(p)
    BY <1>2 DEF DelKey, DelMissing, DelFound
  <2>3. CASE UNCHANGED opVars
    BY <2>1, <2>3 DEF opVars, KV!kvVars
  <2>4. CASE Panic(p)
    <3>1. KV!Turn(p, "idle", {}, NoEntry)
      BY <1>0, <2>4, MoveIsTurn, Phases DEF Panic, Return
    <3>2. [q \in Procs |-> PhaseOf(pc[q])][p] = "delete"
      BY <2>1, PhaseAt, Phases
    <3> QED
      BY <2>1, <3>1, <3>2 DEF KV!Fail, KV!Next
  <2> QED
    BY <2>2, <2>3, <2>4
<1>3. CASE DelPublish(p)
  <2>1. /\ pc[p] = "delKeys" /\ batch[p] = {} /\ Goto(p, "delUsage") /\ UNCHANGED <<keys, cur>>
        /\ index' = IF delta[p] # 0 THEN newIdx[p] ELSE index
    BY <1>3 DEF DelPublish
  <2>2. KV!Turn(p, "done", keys[p], cur[p])
    BY <1>0, <2>1, StayIsTurn, Phases
  <2>3. index' = [k \in Keys |-> IF k \in keys[p] THEN NoEntry ELSE index[k]]
    BY <2>1 DEF IInv, BuildInv, Minus
  <2>4. [q \in Procs |-> PhaseOf(pc[q])][p] = "delete"
    BY <2>1, PhaseAt, Phases
  <2>5. KV!Apply(p)
    BY <2>2, <2>3, <2>4 DEF KV!Apply
  <2> QED
    BY <2>5 DEF KV!Next
<1>4. CASE DelUsage(p)
  <2>1. pc[p] = "delUsage" /\ Return(p) /\ UNCHANGED index
    BY <1>4 DEF DelUsage
  <2> QED
    BY <2>1, ReturnRefines, Phases DEF KV!Next
<1> QED
  BY <1>1, <1>2, <1>3, <1>4 DEF DeleteSteps

\* A flush with pending keys is an abstract call of delete.
LEMMA FlushRefines ==
  ASSUME IInv, Flush
  PROVE  KV!Next \/ UNCHANGED KV!kvVars
<1>1. Flusher \in Procs /\ pc[Flusher] = "idle" /\ index' = index
  BY DEF Procs, Flush, dataVars
<1>2. CASE pending = {}
  BY <1>1, <1>2 DEF Flush, opVars, KV!kvVars
<1>3. CASE pending # {}
  <2>1. Begin(Flusher, "delLock", pending, NoEntry) /\ pending \in SUBSET Keys
    BY <1>3 DEF Flush, IInv, TypeInv
  <2>2. KV!Turn(Flusher, "delete", pending, NoEntry)
    BY <1>1, <2>1, MoveIsTurn, Phases DEF IInv
  <2>3. [q \in Procs |-> PhaseOf(pc[q])][Flusher] = "idle"
    BY <1>1, PhaseAt, Phases
  <2>4. KV!Call(Flusher)
    BY <1>1, <2>1, <2>2, <2>3 DEF KV!Call
  <2> QED
    BY <1>1, <2>4 DEF KV!Next
<1> QED
  BY <1>2, <1>3

\* Get takes effect where it loads the index (in_memory.go:51).
LEMMA GetRefines ==
  ASSUME IInv, NEW p \in Clients,
         GetLoad(p) \/ GetCheck(p) \/ GetTake(p) \/ GetEnqueue(p)
  PROVE  KV!Next \/ UNCHANGED KV!kvVars
<1>0. p \in Procs /\ TypeInv
  BY DEF Procs, IInv
<1>1. index' = index
  BY DEF GetLoad, GetCheck, GetTake, GetEnqueue, dataVars
<1>2. CASE GetLoad(p)
  <2>1. PICK k \in keys[p] :
          pc[p] = "getLoad" /\ cur' = [cur EXCEPT ![p] = index[k]] /\ Goto(p, "getCheck") /\ UNCHANGED keys
    BY <1>2 DEF GetLoad
  <2>2. Begin(p, "getCheck", keys[p], index[k])
    BY <1>0, <2>1 DEF Begin, TypeInv, StoreTypeOK
  <2>3. KV!Turn(p, "done", keys[p], index[k])
    BY <1>0, <2>2, MoveIsTurn, Phases
  <2>4. [q \in Procs |-> PhaseOf(pc[q])][p] = "get"
    BY <1>0, <2>1, PhaseAt, Phases
  <2>5. KV!Apply(p)
    BY <1>1, <2>1, <2>3, <2>4 DEF KV!Apply
  <2> QED
    BY <1>0, <2>5 DEF KV!Next
<1>3. CASE GetCheck(p) \/ GetTake(p) \/ GetEnqueue(p)
  <2>1. pc[p] \in {"getCheck"} \cup FoundSteps
    BY <1>3 DEF GetCheck, GetTake, GetEnqueue, FoundSteps
  <2>2. PhaseOf(pc[p]) = "done"
    BY <2>1, Phases
  <2>3. Return(p) \/ \E step \in FoundSteps : Goto(p, step) /\ UNCHANGED <<keys, cur>>
    BY <1>3 DEF GetCheck, GetTake, GetEnqueue, FoundSteps
  <2>4. CASE Return(p)
    BY <1>0, <1>1, <2>2, <2>4, ReturnRefines DEF KV!Next
  <2>5. ASSUME NEW step \in FoundSteps, Goto(p, step), UNCHANGED <<keys, cur>>
        PROVE  UNCHANGED KV!kvVars
    BY <1>0, <1>1, <2>2, <2>5, SamePhase, Phases
  <2> QED
    BY <2>3, <2>4, <2>5
<1> QED
  BY <1>2, <1>3

\* Every step of the shard is an abstract step or a stutter.
LEMMA NextRefines ==
  ASSUME 0 \notin Sizes, IInv, [Next]_vars
  PROVE  [KV!Next]_(KV!kvVars)
<1>1. ASSUME UNCHANGED <<index, opVars>>
      PROVE  UNCHANGED KV!kvVars
  BY <1>1 DEF opVars, KV!kvVars
<1>2. CASE UNCHANGED vars
  BY <1>1, <1>2 DEF vars, storeVars, dataVars
<1>3. ASSUME NEW p \in Clients, Call(p)
      PROVE  KV!Next
  BY <1>3, CallRefines DEF KV!Next, Procs
<1>4. ASSUME NEW p \in Clients, ClientSteps(p)
      PROVE  KV!Next \/ UNCHANGED KV!kvVars
  BY <1>4, SetRefines, GetRefines DEF ClientSteps
<1>5. CASE StartGC \/ StopGC \/ Clock \/ CacheRefresh \/ CollectorStep
  BY <1>1, <1>5 DEF StartGC, StopGC, Clock, CacheRefresh, CollectorStep, storeVars, dataVars
<1> QED
  BY <1>2, <1>3, <1>4, <1>5, DeleteRefines, FlushRefines DEF Next

\* A new store is an empty map.
LEMMA InitRefines == Init => KV!Init
<1> SUFFICES ASSUME Init PROVE KV!Init
  OBVIOUS
<1>1. PhaseOfAll = [p \in Procs |-> "idle"]
  BY Phases DEF Init, PhaseOfAll
<1> QED
  BY <1>1 DEF Init, EmptyIndex, KV!Init, PhaseOfAll

(***************************************************************************)
(* Requests and the coalescer see one atomic map: no update is lost, a     *)
(* batch is deleted as a whole, a reader sees one instant, also when calls *)
(* panic.  The hypothesis is needed: deleteBatch publishes only if the     *)
(* byte count changed (in_memory.go:168).                                  *)
(***************************************************************************)
THEOREM StoreIsAtomicMap ==
  ASSUME 0 \notin Sizes
  PROVE  Spec => Linearizable
<1>1. Spec => []IInv
  BY StoreInvariant
<1>2. IInv /\ [Next]_vars => [KV!Next]_(KV!kvVars)
  BY NextRefines
<1> QED
  BY <1>1, <1>2, InitRefines, PTL DEF Spec, Linearizable, KV!Spec

-----------------------------------------------------------------------------
(***************************************************************************)
(* The key count of a shard is exact whenever no writer is inside, until a *)
(* call panics.                                                            *)
(***************************************************************************)
StoredIn(idx) == {k \in Keys : idx[k] # NoEntry}

\* Before it publishes, the writer inside has counted the index it is building.
CountInv ==
  /\ IsFiniteSet(StoredIn(index))
  /\ health = "ok" =>
       /\ writeMu = Nobody => keyCount = Cardinality(StoredIn(index))
       /\ \A p \in Procs :
            /\ pc[p] \in {"setPublish", "delKeys"} => keyCount = Cardinality(StoredIn(newIdx[p]))
            /\ pc[p] \in {"setUsage", "setSchedule", "delUsage"} =>
                 keyCount = Cardinality(StoredIn(index))

-----------------------------------------------------------------------------
\* A step that touches neither counter, index, lock nor locals keeps the count.
LEMMA StayCount ==
  ASSUME CountInv, UNCHANGED <<index, keyCount, writeMu, health, newIdx, pc>>
  PROVE  CountInv'
BY DEF CountInv, StoredIn

\* Nor does a goroutine that moves outside the critical section disturb it.
LEMMA UnlockedCount ==
  ASSUME IInv, CountInv, NEW p \in Procs, NEW step \in Steps \ Inside, Goto(p, step),
         UNCHANGED <<index, keyCount, writeMu, health, newIdx>>
  PROVE  CountInv'
BY DEF CountInv, StoredIn, Goto, Inside, IInv, TypeInv, StoreTypeOK

\* Unlocking after Set or deleteBatch: the published index is the counted one.
LEMMA LeaveCount ==
  ASSUME IInv, CountInv, NEW p \in Procs, pc[p] \in {"setSchedule", "delUsage"}, Return(p), Unlock(p),
         UNCHANGED <<index, keyCount>>, health' = "ok" => health = "ok"
  PROVE  CountInv'
<1>1. \A q \in Procs : pc'[q] \notin Inside
  BY OneInside DEF Inside, Return, Begin, Goto, IInv, TypeInv, StoreTypeOK
<1>2. health' = "ok" => keyCount' = Cardinality(StoredIn(index'))
  BY DEF CountInv
<1>3. IsFiniteSet(StoredIn(index))'
  BY DEF CountInv, StoredIn
<1> QED
  BY <1>1, <1>2, <1>3 DEF CountInv, Inside, StoredIn

\* After a panic nothing is claimed of keyCount (in_memory.go:162-163).
LEMMA PanicCount ==
  ASSUME CountInv, UNCHANGED index, health' # "ok"
  PROVE  CountInv'
BY DEF CountInv, StoredIn

\* Set counts a key exactly when its copy has one key more (in_memory.go:100-114).
LEMMA SetLockCount ==
  ASSUME IInv, CountInv, NEW p \in Clients, SetLock(p)
  PROVE  CountInv'
<1>0. p \in Procs /\ pc[p] = "setLock" /\ writeMu = Nobody /\ writeMu' = p /\ p # Nobody
  BY StoreAssumption DEF Procs, SetLock, Lock
<1>1. PICK k \in keys[p] :
        /\ newIdx' = [newIdx EXCEPT ![p] = [index EXCEPT ![k] = cur[p]]]
        /\ keyCount' = keyCount + (IF index[k] = NoEntry THEN 1 ELSE 0)
        /\ pc' = [pc EXCEPT ![p] = "setPublish"]
        /\ UNCHANGED <<index, health>>
  BY DEF SetLock, Goto
<1>2. k \in Keys /\ cur[p] # NoEntry
  <2>1. cur[p] \in DOMAIN entry /\ DOMAIN entry = 1..Len(entry) /\ Len(entry) <= MaxEntries /\ Len(entry) \in Nat
    BY <1>0 DEF IInv, ArgInv, SetSteps, TypeInv, StoreTypeOK
  <2>2. cur[p] \in EntryIds
    BY <2>1, StoreAssumption DEF EntryIds
  <2> QED
    BY <1>0, <2>2, StoreAssumption DEF IInv, TypeInv, StoreTypeOK
<1>3. newIdx'[p] = [index EXCEPT ![k] = cur[p]] /\ index \in Snapshot
  BY <1>0, <1>1 DEF IInv, TypeInv, StoreTypeOK
<1>4. StoredIn(newIdx'[p]) = StoredIn(index) \cup {k}
  BY <1>2, <1>3 DEF StoredIn, Snapshot
<1>5. IsFiniteSet(StoredIn(index)) /\ (health = "ok" => keyCount = Cardinality(StoredIn(index)))
  BY <1>0 DEF CountInv
<1>6. Cardinality(StoredIn(index) \cup {k}) =
        IF k \in StoredIn(index) THEN Cardinality(StoredIn(index)) ELSE Cardinality(StoredIn(index)) + 1
  BY <1>5, FS_AddElement
<1>7. Cardinality(StoredIn(index)) \in Nat
  BY <1>5, FS_CardinalityType
<1>8. k \in StoredIn(index) <=> index[k] # NoEntry
  BY <1>2 DEF StoredIn
<1>9. health = "ok" => keyCount' = Cardinality(StoredIn(newIdx'[p]))
  <2>1. CASE index[k] = NoEntry
    BY <1>1, <1>4, <1>5, <1>6, <1>7, <1>8, <2>1
  <2>2. CASE index[k] # NoEntry
    <3>1. keyCount \in Int
      BY DEF IInv, TypeInv, StoreTypeOK
    <3>2. keyCount' = keyCount
      BY <1>1, <2>2, <3>1
    <3> QED
      BY <1>4, <1>5, <1>6, <1>8, <2>2, <3>2
  <2> QED
    BY <2>1, <2>2
<1>10. \A q \in Procs : q # p => pc'[q] \notin Inside
  BY <1>0, <1>1, StoreAssumption DEF IInv, MutexInv, Procs, TypeInv, StoreTypeOK
<1>11. pc'[p] = "setPublish"
  BY <1>0, <1>1 DEF IInv, TypeInv, StoreTypeOK
<1>12. IsFiniteSet(StoredIn(index))'
  BY <1>1, <1>5 DEF StoredIn
<1> QED
  BY <1>0, <1>1, <1>9, <1>10, <1>11, <1>12 DEF CountInv, Inside, StoredIn

\* Storing the built index makes the count the one of the published index.
LEMMA PublishCount ==
  ASSUME IInv, CountInv, NEW p \in Procs, pc[p] \in {"setPublish", "delKeys"},
         IsFiniteSet(StoredIn(newIdx[p])), index' = newIdx[p],
         NEW step \in {"setUsage", "delUsage"}, Goto(p, step),
         UNCHANGED <<keyCount, writeMu, health, newIdx>>
  PROVE  CountInv'
<1>1. pc[p] \in Inside /\ writeMu # Nobody
  BY StoreAssumption DEF Inside, IInv, MutexInv, Procs
<1>2. \A q \in Procs : q # p => pc'[q] \notin Inside
  BY <1>1, OneInside DEF Goto, IInv, TypeInv, StoreTypeOK
<1>3. pc'[p] = step
  BY DEF Goto, IInv, TypeInv, StoreTypeOK
<1>4. health = "ok" => keyCount = Cardinality(StoredIn(newIdx[p]))
  BY DEF CountInv
<1>5. StoredIn(index)' = StoredIn(newIdx[p])
  BY DEF StoredIn
<1> QED
  BY <1>1, <1>2, <1>3, <1>4, <1>5 DEF CountInv, Inside

\* Set publishes a copy with at most one key more (in_memory.go:118-119).
LEMMA SetPublishCount ==
  ASSUME IInv, CountInv, NEW p \in Clients, SetPublish(p)
  PROVE  CountInv'
<1>1. /\ p \in Procs /\ pc[p] = "setPublish" /\ index' = newIdx[p] /\ Goto(p, "setUsage")
      /\ UNCHANGED <<keyCount, writeMu, health, newIdx>>
  BY DEF Procs, SetPublish, counters, localVars
<1>2. PICK k \in Keys : keys[p] = {k}
  BY <1>1 DEF IInv, ArgInv, SetSteps
<1>3. newIdx[p] = [index EXCEPT ![k] = cur[p]] /\ index \in Snapshot
  BY <1>1, <1>2 DEF IInv, BuildInv, TypeInv, StoreTypeOK
<1>4. StoredIn(newIdx[p]) \in SUBSET (StoredIn(index) \cup {k})
  BY <1>3 DEF StoredIn, Snapshot
<1>5. IsFiniteSet(StoredIn(index) \cup {k})
  BY FS_AddElement DEF CountInv
<1>6. IsFiniteSet(StoredIn(newIdx[p]))
  BY <1>4, <1>5, FS_Subset
<1> QED
  BY <1>1, <1>6, PublishCount

\* The byte counter of Set is independent of the key count (in_memory.go:120).
LEMMA SetUsageCount ==
  ASSUME IInv, CountInv, NEW p \in Clients, SetUsage(p)
  PROVE  CountInv'
<1>1. /\ p \in Procs /\ pc[p] = "setUsage" /\ pc' = [pc EXCEPT ![p] = "setSchedule"]
      /\ UNCHANGED <<index, keyCount, writeMu, health, newIdx>>
  BY DEF Procs, SetUsage, Goto, localVars
<1> QED
  BY <1>1 DEF CountInv, StoredIn, IInv, TypeInv, StoreTypeOK

\* deleteBatch starts from a copy of the counted index (in_memory.go:131-137).
LEMMA DelLockCount ==
  ASSUME IInv, CountInv, NEW p \in Procs, DelLock(p)
  PROVE  CountInv'
<1>1. /\ writeMu = Nobody /\ writeMu' = p /\ p # Nobody
      /\ newIdx' = [newIdx EXCEPT ![p] = index]
      /\ pc' = [pc EXCEPT ![p] = "delKeys"]
      /\ UNCHANGED <<index, keyCount, health>>
  BY StoreAssumption DEF DelLock, Lock, Goto, dataVars, counters, Procs
<1>2. \A q \in Procs : q # p => pc'[q] \notin Inside
  BY <1>1, StoreAssumption DEF IInv, MutexInv, Procs, TypeInv, StoreTypeOK
<1>3. pc'[p] = "delKeys" /\ newIdx'[p] = index
  BY <1>1 DEF IInv, TypeInv, StoreTypeOK
<1> QED
  BY <1>1, <1>2, <1>3 DEF CountInv, StoredIn, Inside

\* What deleteBatch builds has no key the published index lacks.
LEMMA BuiltFinite ==
  ASSUME IInv, CountInv, NEW p \in Procs, pc[p] = "delKeys"
  PROVE  IsFiniteSet(StoredIn(newIdx[p]))
<1>1. StoredIn(newIdx[p]) \in SUBSET StoredIn(index)
  BY DEF IInv, BuildInv, Minus, StoredIn
<1> QED
  BY <1>1, FS_Subset DEF CountInv

\* Each key deleteBatch drops from its copy is uncounted once (in_memory.go:153-164).
LEMMA DelKeyCount ==
  ASSUME IInv, CountInv, NEW p \in Procs, DelKey(p)
  PROVE  CountInv'
<1>1. pc[p] = "delKeys" /\ UNCHANGED index
  BY DEF DelKey
<1>2. PICK k \in batch[p] : DelMissing(p, k) \/ DelFound(p, k)
  BY DEF DelKey
<1>3. CASE DelMissing(p, k)
  BY <1>1, <1>3, StayCount DEF DelMissing, opVars
<1>4. CASE DelFound(p, k) /\ CancelPanics(k)
  <2>1. health' # "ok"
    BY <1>4 DEF DelFound, Panic
  <2> QED
    BY <1>1, <2>1, PanicCount
<1>5. CASE DelFound(p, k) /\ ~CancelPanics(k)
  <2>1. /\ newIdx[p][k] # NoEntry
        /\ keyCount' = keyCount - 1
        /\ newIdx' = [newIdx EXCEPT ![p][k] = NoEntry]
        /\ UNCHANGED <<writeMu, pc, health>>
    BY <1>5 DEF DelFound, opVars
  <2>2. k \in Keys
    BY <1>1, NextIndex
  <2>3. newIdx[p] \in Snapshot /\ newIdx'[p] = [newIdx[p] EXCEPT ![k] = NoEntry]
    BY <2>1 DEF IInv, TypeInv, StoreTypeOK
  <2>4. StoredIn(newIdx'[p]) = StoredIn(newIdx[p]) \ {k} /\ k \in StoredIn(newIdx[p])
    BY <2>1, <2>2, <2>3 DEF StoredIn, Snapshot
  <2>5. Cardinality(StoredIn(newIdx'[p])) = Cardinality(StoredIn(newIdx[p])) - 1
    BY <1>1, <2>4, BuiltFinite, FS_RemoveElement
  <2>6. pc[p] \in Inside /\ writeMu # Nobody
    BY <1>1, StoreAssumption DEF Inside, IInv, MutexInv, Procs
  <2>7. \A q \in Procs : q # p => pc'[q] \notin Inside
    BY <2>1, <2>6, OneInside
  <2>8. health = "ok" => keyCount' = Cardinality(StoredIn(newIdx'[p]))
    BY <1>1, <2>1, <2>5 DEF CountInv
  <2>9. IsFiniteSet(StoredIn(index))'
    BY <1>1 DEF CountInv, StoredIn
  <2> QED
    BY <1>1, <2>1, <2>6, <2>7, <2>8, <2>9 DEF CountInv, Inside, StoredIn
<1> QED
  BY <1>2, <1>3, <1>4, <1>5

\* deleteBatch publishes, or has dropped no key (in_memory.go:168-169).
LEMMA DelPublishCount ==
  ASSUME 0 \notin Sizes, IInv, CountInv, NEW p \in Procs, DelPublish(p)
  PROVE  CountInv'
<1>1. /\ pc[p] = "delKeys" /\ Goto(p, "delUsage")
      /\ index' = IF delta[p] # 0 THEN newIdx[p] ELSE index
      /\ UNCHANGED <<keyCount, writeMu, health, newIdx>>
  BY DEF DelPublish, counters, localVars
<1>2. index' = newIdx[p]
  BY <1>1 DEF IInv, BuildInv
<1> QED
  BY <1>1, <1>2, BuiltFinite, PublishCount

-----------------------------------------------------------------------------
\* Every step of the shard keeps CountInv.
LEMMA NextCount ==
  ASSUME 0 \notin Sizes, IInv, CountInv, [Next]_vars
  PROVE  CountInv'
<1>1. CASE UNCHANGED vars
  BY <1>1, StayCount DEF vars, storeVars, dataVars, counters, opVars, localVars
<1>2. ASSUME NEW p \in Clients, Call(p)
      PROVE  CountInv'
  <2>1. PICK step \in {"setLock", "delLock", "getLoad"} : Goto(p, step)
    BY <1>2 DEF Call, SetCall, DeleteCall, GetCall, Begin
  <2>2. step \in Steps \ Inside /\ p \in Procs
    BY DEF Steps, Inside, Procs
  <2>3. UNCHANGED <<index, keyCount, writeMu, health, newIdx>>
    BY <1>2 DEF Call, SetCall, DeleteCall, GetCall, dataVars, counters, localVars
  <2> QED
    BY <2>1, <2>2, <2>3, UnlockedCount
<1>3. ASSUME NEW p \in Clients, GetLoad(p) \/ GetCheck(p) \/ GetTake(p) \/ GetEnqueue(p)
      PROVE  CountInv'
  <2>1. PICK step \in {"idle", "getCheck"} \cup FoundSteps : Goto(p, step)
    BY <1>3, GetMove DEF Begin
  <2>2. step \in Steps \ Inside /\ p \in Procs
    BY DEF Steps, Inside, FoundSteps, Procs
  <2>3. UNCHANGED <<index, keyCount, writeMu, health, newIdx>>
    BY <1>3 DEF GetLoad, GetCheck, GetTake, GetEnqueue, dataVars, counters, localVars
  <2> QED
    BY <2>1, <2>2, <2>3, UnlockedCount
<1>4. ASSUME NEW p \in Clients, SetSchedule(p)
      PROVE  CountInv'
  <2>1. /\ p \in Procs /\ pc[p] = "setSchedule" /\ Return(p) /\ Unlock(p)
        /\ UNCHANGED <<index, keyCount>> /\ (health' = "ok" => health = "ok")
    BY <1>4 DEF SetSchedule, Panic, Procs, dataVars, counters
  <2> QED
    BY <2>1, LeaveCount
<1>5. ASSUME NEW p \in Procs, DelUsage(p)
      PROVE  CountInv'
  BY <1>5, LeaveCount DEF DelUsage
<1>6. CASE Flush
  <2>1. UNCHANGED <<index, keyCount, writeMu, health, newIdx>>
    BY <1>6 DEF Flush, dataVars, counters, localVars
  <2>2. UNCHANGED pc \/ Goto(Flusher, "delLock")
    BY <1>6 DEF Flush, opVars, Begin
  <2>3. "delLock" \in Steps \ Inside /\ Flusher \in Procs
    BY DEF Steps, Inside, Procs
  <2> QED
    BY <2>1, <2>2, <2>3, StayCount, UnlockedCount
<1>7. CASE StartGC \/ StopGC \/ Clock \/ CacheRefresh \/ CollectorStep
  <2>1. UNCHANGED <<index, keyCount, writeMu, health, newIdx, pc>>
    BY <1>7 DEF StartGC, StopGC, Clock, CacheRefresh, CollectorStep, storeVars, dataVars, counters,
       opVars, localVars
  <2> QED
    BY <2>1, StayCount
<1> QED
  BY <1>1, <1>2, <1>3, <1>4, <1>5, <1>6, <1>7, SetLockCount, SetPublishCount, SetUsageCount,
     DelLockCount, DelKeyCount, DelPublishCount
     DEF Next, ClientSteps, DeleteSteps

\* An empty shard counts no keys.
LEMMA InitCount == Init => CountInv
<1> SUFFICES ASSUME Init PROVE CountInv
  OBVIOUS
<1>1. StoredIn(index) = {}
  BY DEF Init, EmptyIndex, StoredIn
<1> QED
  BY <1>1, FS_EmptySet DEF Init, CountInv

(***************************************************************************)
(* Count() is exact between writes, for any number of concurrent requests  *)
(* and flushes, until a call panics: keyCount, updated before the index is *)
(* published, always counts the index the writer is building.              *)
(***************************************************************************)
THEOREM KeyCountIsExact ==
  ASSUME 0 \notin Sizes
  PROVE  Spec => []KeyCountExact
<1>1. Spec => []IInv
  BY StoreInvariant
<1>2. IInv /\ CountInv /\ [Next]_vars => CountInv'
  BY NextCount
<1>3. CountInv => KeyCountExact
  BY DEF CountInv, KeyCountExact, Stored, StoredIn
<1> QED
  BY <1>1, <1>2, <1>3, InitCount, PTL DEF Spec

-----------------------------------------------------------------------------
(***************************************************************************)
(* The byte count.  The sizes of the keys are added up in some order; what *)
(* matters is that changing one size changes the sum by the difference.    *)
(***************************************************************************)
Weights(ent, idx) == [k \in Keys |-> IF idx[k] = NoEntry THEN 0 ELSE ent[idx[k]].size]
Total(ent, idx) == MapThenSumSet(LAMBDA k : IF idx[k] = NoEntry THEN 0 ELSE ent[idx[k]].size, Keys)

Any(s) == CHOOSE x \in s : TRUE
IsSum(u, w) ==
  /\ u \in [SUBSET Keys -> Int]
  /\ u[{}] = 0
  /\ \A s \in SUBSET Keys : s # {} => u[s] = w[Any(s)] + u[s \ {Any(s)}]

\* Summation takes one key after the other.
LEMMA SumEnds ==
  ASSUME IsFiniteSet(Keys)
  PROVE  Ends(SUBSET Keys, {{}}, [s \in SUBSET Keys |-> s \ {Any(s)}], [s \in SUBSET Keys |-> Cardinality(s)])
<1> DEFINE pick == [s \in SUBSET Keys |-> Any(s)]
<1>1. \A s \in SUBSET Keys : s # {} => pick[s] \in s
  BY DEF Any
<1>2. Ends(SUBSET Keys, {{}}, [s \in SUBSET Keys |-> s \ {pick[s]}], [s \in SUBSET Keys |-> Cardinality(s)])
  <2> HIDE DEF pick
  <2> QED  BY <1>1, FoldEnds
<1>3. [s \in SUBSET Keys |-> s \ {pick[s]}] = [s \in SUBSET Keys |-> s \ {Any(s)}]
  OBVIOUS
<1> QED  BY <1>2, <1>3

LEMMA TotalIsSum ==
  ASSUME IsFiniteSet(Keys), NEW ent, NEW idx, Weights(ent, idx) \in [Keys -> Int]
  PROVE  \E u : IsSum(u, Weights(ent, idx)) /\ Total(ent, idx) = u[Keys]
<1> DEFINE D == SUBSET Keys
           w == Weights(ent, idx)
           step == [s \in D |-> s \ {Any(s)}]
           m == [s \in D |-> Cardinality(s)]
           out == [s \in D |-> 0]
           comb == [q \in D \X Int |-> w[Any(q[1])] + q[2]]
<1>1. Ends(D, {{}}, step, m)
  BY SumEnds
<1>2. ASSUME NEW s \in D, s # {} PROVE Any(s) \in s /\ Any(s) \in Keys /\ w[Any(s)] \in Int
  BY <1>2 DEF Any
<1> HIDE DEF w
<1>3. Yields(D, Int, {{}}, out, comb)
  <2>1. ASSUME NEW s \in D \ {{}}, NEW v \in Int PROVE comb[<<s, v>>] \in Int
    <3>1. comb[<<s, v>>] = w[Any(s)] + v
      OBVIOUS
    <3> QED  BY <1>2, <3>1
  <2>2. \A s \in D : out[s] \in Int
    OBVIOUS
  <2> HIDE DEF D, out, comb
  <2> QED  BY <2>1, <2>2 DEF Yields
<1>4. PICK u \in [D -> Int] :
        \A s \in D : u[s] = IF s \in {{}} THEN out[s] ELSE comb[<<s, u[step[s]]>>]
  <2> HIDE DEF D, step, m, out, comb
  <2> QED  BY <1>1, <1>3, LinearRecursion
<1>5. ASSUME NEW s \in D, s # {} PROVE u[s] = w[Any(s)] + u[s \ {Any(s)}]
  <2>1. step[s] = s \ {Any(s)} /\ step[s] \in D
    OBVIOUS
  <2>2. u[step[s]] \in Int /\ u[s] = comb[<<s, u[step[s]]>>]
    BY <1>4, <1>5, <2>1
  <2> QED  BY <2>1, <2>2
<1>6. u[{}] = 0
  BY <1>4
<1>7. IsSum(u, w)
  BY <1>4, <1>5, <1>6 DEF IsSum
<1> DEFINE Add1(k, n) == (IF idx[k] = NoEntry THEN 0 ELSE ent[idx[k]].size) + n
<1>8. u = [s \in D |-> IF s = {} THEN 0 ELSE LET x == CHOOSE x \in s : TRUE IN Add1(x, u[s \ {x}])]
  <2>1. ASSUME NEW s \in D
        PROVE  u[s] = IF s = {} THEN 0 ELSE LET x == CHOOSE x \in s : TRUE IN Add1(x, u[s \ {x}])
    <3>1. CASE s = {}
      BY <1>6, <3>1
    <3>2. CASE s # {}
      <4>1. w[Any(s)] = IF idx[Any(s)] = NoEntry THEN 0 ELSE ent[idx[Any(s)]].size
        BY <1>2, <3>2 DEF w, Weights
      <4> QED  BY <1>5, <3>2, <4>1 DEF Any
    <3> QED  BY <3>1, <3>2
  <2> QED  BY <1>4, <2>1
<1> DEFINE iter[s \in D] == IF s = {} THEN 0 ELSE LET x == CHOOSE x \in s : TRUE IN Add1(x, iter[s \ {x}])
<1>9. iter = [s \in D |-> IF s = {} THEN 0 ELSE LET x == CHOOSE x \in s : TRUE IN Add1(x, iter[s \ {x}])]
  <2> HIDE DEF D
  <2> QED  BY <1>8, ZenonT(30)
<1>10. Total(ent, idx) = iter[Keys]
  BY DEF Total, MapThenSumSet, MapThenFoldSet
<1> HIDE DEF iter
<1> DEFINE T == {s \in D : iter[s] = u[s]}
<1>11. ASSUME NEW s \in D, s = {} PROVE s \in T
  BY <1>6, <1>9, <1>11
<1>12. ASSUME NEW s \in D \ {{}}, step[s] \in T PROVE s \in T
  <2>1. step[s] = s \ {Any(s)} /\ iter[step[s]] = u[step[s]]
    BY <1>12
  <2>2. iter[s] = Add1(Any(s), iter[s \ {Any(s)}])
    BY <1>9 DEF Any
  <2>3. u[s] = Add1(Any(s), u[s \ {Any(s)}])
    BY <1>8, Zenon DEF Any
  <2> QED  BY <2>1, <2>2, <2>3
<1>13. D \subseteq T
  <2> DEFINE stop == {{}}
  <2>1. D \cap stop \subseteq T
    BY <1>11
  <2>2. Ends(D, stop, step, m) /\ \A s \in D \ stop : step[s] \in T => s \in T
    BY <1>1, <1>12
  <2> HIDE DEF D, stop, step, m, T
  <2> QED  BY <2>1, <2>2, LoopInduction
<1>14. iter[Keys] = u[Keys]
  BY <1>13
<1> QED  BY <1>7, <1>10, <1>14 DEF w

\* One weight changes, and the sum with it.
LEMMA SumChanges ==
  ASSUME IsFiniteSet(Keys), NEW w \in [Keys -> Int], NEW v \in [Keys -> Int], NEW k \in Keys,
         \A j \in Keys : j # k => v[j] = w[j],
         NEW f, NEW g, IsSum(f, w), IsSum(g, v)
  PROVE  g[Keys] = f[Keys] + (v[k] - w[k])
<1> DEFINE D == SUBSET Keys
           stop == {{}}
           step == [s \in D |-> s \ {Any(s)}]
           m == [s \in D |-> Cardinality(s)]
           T == {s \in D : g[s] = f[s] + (IF k \in s THEN v[k] - w[k] ELSE 0)}
<1>1. Ends(D, stop, step, m)
  BY SumEnds
<1>2. \A s \in D : f[s] \in Int /\ g[s] \in Int
  BY DEF IsSum
<1>3. ASSUME NEW s \in D, s = {} PROVE s \in T
  BY <1>3 DEF IsSum
<1>4. ASSUME NEW s \in D \ stop, step[s] \in T PROVE s \in T
  <2> DEFINE x == Any(s)
             r == s \ {x}
  <2>1. x \in s /\ x \in Keys /\ r \in D /\ step[s] = r
    BY DEF Any
  <2>2. f[s] = w[x] + f[r] /\ g[s] = v[x] + g[r]
    BY DEF IsSum
  <2>3. g[r] = f[r] + (IF k \in r THEN v[k] - w[k] ELSE 0)
    BY <1>4, <2>1
  <2>4. f[r] \in Int /\ g[r] \in Int /\ w[x] \in Int /\ v[x] \in Int /\ w[k] \in Int /\ v[k] \in Int
    BY <1>2, <2>1
  <2>5. CASE x = k
    <3>1. k \in s /\ k \notin r
      BY <2>1, <2>5
    <3>2. g[s] = f[s] + (v[k] - w[k])
      BY <2>2, <2>3, <2>4, <2>5, <3>1
    <3> QED  BY <3>1, <3>2
  <2>6. CASE x # k
    <3>1. v[x] = w[x] /\ (k \in r <=> k \in s)
      BY <2>1, <2>6
    <3>2. CASE k \in s
      <4>1. g[s] = f[s] + (v[k] - w[k])
        BY <2>2, <2>3, <2>4, <3>1, <3>2
      <4> QED  BY <3>2, <4>1
    <3>3. CASE k \notin s
      <4>1. g[s] = f[s] + 0
        BY <2>2, <2>3, <2>4, <3>1, <3>3
      <4> QED  BY <3>3, <4>1
    <3> QED  BY <3>2, <3>3
  <2> QED  BY <2>5, <2>6
<1>5. D \subseteq T
  <2>1. D \cap stop \subseteq T
    BY <1>3
  <2>2. \A s \in D \ stop : step[s] \in T => s \in T
    BY <1>4
  <2> HIDE DEF D, stop, step, m, T
  <2> QED  BY <1>1, <2>1, <2>2, LoopInduction
<1>6. Keys \in T
  BY <1>5
<1> QED  BY <1>6

\* An entry of another size at one key changes the total by the difference.
LEMMA TotalChanges ==
  ASSUME IsFiniteSet(Keys), NEW ent, NEW idx, NEW fnt, NEW jdx, NEW k \in Keys,
         Weights(ent, idx) \in [Keys -> Int], Weights(fnt, jdx) \in [Keys -> Int],
         \A j \in Keys : j # k => Weights(fnt, jdx)[j] = Weights(ent, idx)[j]
  PROVE  /\ Total(ent, idx) \in Int /\ Total(fnt, jdx) \in Int
         /\ Total(fnt, jdx) = Total(ent, idx) + (Weights(fnt, jdx)[k] - Weights(ent, idx)[k])
<1> DEFINE w == Weights(ent, idx)
           v == Weights(fnt, jdx)
<1>1. w \in [Keys -> Int] /\ v \in [Keys -> Int] /\ \A j \in Keys : j # k => v[j] = w[j]
  OBVIOUS
<1>2. PICK f : IsSum(f, w) /\ Total(ent, idx) = f[Keys]
  BY TotalIsSum
<1>3. PICK g : IsSum(g, v) /\ Total(fnt, jdx) = g[Keys]
  BY TotalIsSum
<1> HIDE DEF w, v
<1>4. f[Keys] \in Int /\ g[Keys] \in Int
  BY <1>2, <1>3 DEF IsSum
<1>5. g[Keys] = f[Keys] + (v[k] - w[k])
  BY <1>1, <1>2, <1>3, SumChanges
<1> QED  BY <1>2, <1>3, <1>4, <1>5 DEF w, v

Named(idx) == \A k \in Keys : idx[k] # NoEntry => idx[k] \in DOMAIN entry

\* Every index in use names entries that exist, so sizes add up.
LEMMA WeightsAre ==
  ASSUME TypeInv, NEW idx, Named(idx)
  PROVE  /\ Weights(entry, idx) \in [Keys -> Int]
         /\ \A k \in Keys : Weights(entry, idx)[k] = SizeAt(idx, k)
<1>1. ASSUME NEW k \in Keys PROVE SizeAt(idx, k) \in Int
  <2>1. idx[k] # NoEntry => idx[k] \in DOMAIN entry
    BY DEF Named
  <2>2. SizeAt(idx, k) \in Nat
    BY <2>1, SizeAtNat
  <2> QED  BY <2>2
<1>2. Weights(entry, idx) = [k \in Keys |-> SizeAt(idx, k)]
  BY DEF Weights, SizeAt
<1> QED  BY <1>1, <1>2

LEMMA IndexNamed ==
  ASSUME IInv
  PROVE  /\ Named(index)
         /\ \A p \in Procs : pc[p] \in {"setPublish", "delKeys"} => Named(newIdx[p])
<1>1. Named(index)
  BY DEF IInv, IndexInv, Named
<1>2. ASSUME NEW p \in Procs, pc[p] = "setPublish" PROVE Named(newIdx[p])
  <2>1. PICK k \in Keys : keys[p] = {k}
    BY <1>2 DEF IInv, ArgInv, SetSteps
  <2>2. newIdx[p] = [index EXCEPT ![k] = cur[p]] /\ cur[p] \in DOMAIN entry /\ index \in Snapshot
    BY <1>2, <2>1 DEF IInv, ArgInv, SetSteps, BuildInv, TypeInv, StoreTypeOK
  <2> QED  BY <1>1, <2>2 DEF Named, Snapshot
<1>3. ASSUME NEW p \in Procs, pc[p] = "delKeys" PROVE Named(newIdx[p])
  <2>1. newIdx[p] = Minus(keys[p] \ batch[p])
    BY <1>3 DEF IInv, BuildInv
  <2>2. \A k \in Keys : newIdx[p][k] = NoEntry \/ newIdx[p][k] = index[k]
    BY <2>1 DEF Minus
  <2> QED  BY <1>1, <2>2, Zenon DEF Named
<1> QED  BY <1>1, <1>2, <1>3

(***************************************************************************)
(* Until it adds its difference to usedBytes, the writer inside owes the   *)
(* counter exactly what its index differs by from the one counted.         *)
(***************************************************************************)
UsageInv ==
  /\ writeMu = Nobody => usedBytes = Total(entry, index)
  /\ \A p \in Procs :
       /\ pc[p] \in {"setPublish", "delKeys"} =>
            /\ usedBytes = Total(entry, index)
            /\ Total(entry, newIdx[p]) = usedBytes + delta[p]
       /\ pc[p] \in {"setUsage", "delUsage"} => usedBytes + delta[p] = Total(entry, index)
       /\ pc[p] = "setSchedule" => usedBytes = Total(entry, index)

LEMMA StayUsage ==
  ASSUME UsageInv, UNCHANGED <<index, entry, usedBytes, writeMu, newIdx, delta, pc>>
  PROVE  UsageInv'
BY DEF UsageInv

\* A goroutine that moves outside the critical section does not disturb the count.
LEMMA UnlockedUsage ==
  ASSUME IInv, UsageInv, NEW p \in Procs, NEW step \in Steps \ Inside, Goto(p, step),
         UNCHANGED <<index, entry, usedBytes, writeMu, newIdx, delta>>
  PROVE  UsageInv'
BY DEF UsageInv, Goto, Inside, IInv, TypeInv, StoreTypeOK

\* A new entry is in no index yet (storage_service.go:51-61).
LEMMA SetCallUsage ==
  ASSUME IsFiniteSet(Keys), IInv, UsageInv, NEW p \in Clients, SetCall(p)
  PROVE  UsageInv'
<1>1. PICK k \in Keys : \E e : entry' = Append(entry, e) /\ Goto(p, "setLock")
  BY DEF SetCall, Begin
<1>2. p \in Procs /\ UNCHANGED <<index, usedBytes, writeMu, newIdx, delta>>
  BY DEF Procs, SetCall, counters, localVars
<1>3. IInv'
  BY SetCallInv
<1>4. \A i \in DOMAIN entry : entry'[i] = entry[i] /\ i \in DOMAIN entry'
  BY <1>1 DEF IInv, TypeInv, StoreTypeOK
<1>5. ASSUME NEW idx, Named(idx) PROVE Total(entry', idx) = Total(entry, idx)
  <2> DEFINE w == Weights(entry, idx)
  <2>1. Weights(entry', idx) = w
    BY <1>4, <1>5 DEF Weights, Named
  <2>2. w \in [Keys -> Int]
    BY <1>5, WeightsAre DEF IInv
  <2> HIDE DEF w
  <2>3. Weights(entry', idx) \in [Keys -> Int] /\ \A j \in Keys : Weights(entry', idx)[j] = w[j]
    BY <2>1, <2>2
  <2>4. /\ Total(entry, idx) \in Int
        /\ Total(entry', idx) = Total(entry, idx) + (Weights(entry', idx)[k] - Weights(entry, idx)[k])
    BY <2>2, <2>3, TotalChanges DEF w
  <2>5. Weights(entry', idx)[k] - Weights(entry, idx)[k] = 0
    BY <2>1, <2>2 DEF w
  <2> QED  BY <2>4, <2>5
<1>6. /\ Total(entry', index) = Total(entry, index)
      /\ \A q \in Procs : pc[q] \in {"setPublish", "delKeys"} => Total(entry', newIdx[q]) = Total(entry, newIdx[q])
  BY <1>5, IndexNamed
<1>7. pc'[p] = "setLock" /\ \A q \in Procs : q # p => pc'[q] = pc[q]
  BY <1>1, <1>2 DEF Goto, IInv, TypeInv, StoreTypeOK
<1> QED  BY <1>2, <1>6, <1>7 DEF UsageInv

\* Set computes its difference from the snapshot it copies (in_memory.go:100-116).
LEMMA SetLockUsage ==
  ASSUME IsFiniteSet(Keys), IInv, UsageInv, NEW p \in Clients, SetLock(p)
  PROVE  UsageInv'
<1>0. p \in Procs /\ pc[p] = "setLock" /\ writeMu = Nobody /\ writeMu' = p /\ p # Nobody
  BY StoreAssumption DEF Procs, SetLock, Lock
<1>1. PICK k \in keys[p] :
        /\ newIdx' = [newIdx EXCEPT ![p] = [index EXCEPT ![k] = cur[p]]]
        /\ delta' = [delta EXCEPT ![p] = entry[cur[p]].size - SizeAt(index, k)]
        /\ pc' = [pc EXCEPT ![p] = "setPublish"]
        /\ UNCHANGED <<index, entry, usedBytes>>
  BY DEF SetLock, Goto
<1> DEFINE jdx == [index EXCEPT ![k] = cur[p]]
<1>2. k \in Keys /\ cur[p] \in DOMAIN entry /\ cur[p] # NoEntry /\ index \in Snapshot
  <2>1. cur[p] \in DOMAIN entry /\ DOMAIN entry = 1..Len(entry) /\ Len(entry) <= MaxEntries /\ Len(entry) \in Nat
    BY <1>0 DEF IInv, ArgInv, SetSteps, TypeInv, StoreTypeOK
  <2>2. cur[p] \in EntryIds
    BY <2>1, StoreAssumption DEF EntryIds
  <2> QED
    BY <1>0, <2>1, <2>2, StoreAssumption DEF IInv, TypeInv, StoreTypeOK
<1>3. jdx[k] = cur[p] /\ \A j \in Keys : j # k => jdx[j] = index[j]
  BY <1>2 DEF Snapshot
<1>4. /\ pc'[p] = "setPublish" /\ newIdx'[p] = jdx
      /\ delta'[p] = entry[cur[p]].size - SizeAt(index, k)
  BY <1>0, <1>1 DEF IInv, TypeInv, StoreTypeOK
<1> HIDE DEF jdx
<1>5. Named(index) /\ Named(jdx)
  BY <1>2, <1>3, IndexNamed DEF Named
<1>6. /\ Weights(entry, index) \in [Keys -> Int] /\ Weights(entry, jdx) \in [Keys -> Int]
      /\ Weights(entry, index)[k] = SizeAt(index, k) /\ Weights(entry, jdx)[k] = entry[cur[p]].size
      /\ \A j \in Keys : j # k => Weights(entry, jdx)[j] = Weights(entry, index)[j]
  BY <1>2, <1>3, <1>5, WeightsAre DEF SizeAt, IInv
<1>7. Total(entry, jdx) = Total(entry, index) + (Weights(entry, jdx)[k] - Weights(entry, index)[k])
  BY <1>2, <1>6, TotalChanges
<1>8. usedBytes = Total(entry, index)
  BY <1>0 DEF UsageInv
<1>9. \A q \in Procs : q # p => pc'[q] \notin Inside
  BY <1>0, <1>1, StoreAssumption DEF IInv, MutexInv, Procs, TypeInv, StoreTypeOK
<1>10. Total(entry, jdx) = usedBytes + delta'[p]
  BY <1>4, <1>6, <1>7, <1>8
<1> QED  BY <1>0, <1>1, <1>4, <1>8, <1>9, <1>10 DEF UsageInv, Inside

\* Storing the built index moves the debt to the published one (in_memory.go:119,169).
LEMMA PublishUsage ==
  ASSUME IInv, UsageInv, NEW p \in Procs, pc[p] \in {"setPublish", "delKeys"},
         index' = newIdx[p] \/ (index' = index /\ delta[p] = 0),
         NEW step \in {"setUsage", "delUsage"}, Goto(p, step),
         UNCHANGED <<entry, usedBytes, writeMu, newIdx, delta>>
  PROVE  UsageInv'
<1>1. pc[p] \in Inside /\ writeMu # Nobody
  BY StoreAssumption DEF Inside, IInv, MutexInv, Procs
<1>2. \A q \in Procs : q # p => pc'[q] \notin Inside
  BY <1>1, OneInside DEF Goto, IInv, TypeInv, StoreTypeOK
<1>3. pc'[p] = step /\ usedBytes \in Int
  BY DEF Goto, IInv, TypeInv, StoreTypeOK
<1>4. usedBytes + delta[p] = Total(entry, index')
  BY <1>3 DEF UsageInv
<1> QED  BY <1>1, <1>2, <1>3, <1>4 DEF UsageInv, Inside

\* Set pays (in_memory.go:120).
LEMMA SetUsageUsage ==
  ASSUME IInv, UsageInv, NEW p \in Clients, SetUsage(p)
  PROVE  UsageInv'
<1>1. /\ p \in Procs /\ pc[p] = "setUsage" /\ pc' = [pc EXCEPT ![p] = "setSchedule"]
      /\ usedBytes' = usedBytes + delta[p]
      /\ UNCHANGED <<index, entry, writeMu, newIdx, delta>>
  BY DEF Procs, SetUsage, Goto, localVars
<1>2. pc[p] \in Inside /\ writeMu # Nobody
  BY <1>1, StoreAssumption DEF Inside, IInv, MutexInv, Procs
<1>3. \A q \in Procs : q # p => pc'[q] \notin Inside
  BY <1>1, <1>2, OneInside DEF IInv, TypeInv, StoreTypeOK
<1>4. pc'[p] = "setSchedule" /\ usedBytes' = Total(entry, index)
  BY <1>1 DEF UsageInv, IInv, TypeInv, StoreTypeOK
<1> QED  BY <1>1, <1>2, <1>3, <1>4 DEF UsageInv, Inside

\* Whoever unlocks has paid, or has published nothing.
LEMMA LeaveUsage ==
  ASSUME IInv, NEW p \in Procs, pc[p] \in Inside, Return(p), Unlock(p),
         usedBytes' = Total(entry, index), UNCHANGED <<index, entry>>
  PROVE  UsageInv'
<1>1. \A q \in Procs : pc'[q] \notin Inside
  BY OneInside DEF Inside, Return, Begin, Goto, IInv, TypeInv, StoreTypeOK
<1> QED  BY <1>1 DEF UsageInv, Inside

\* deleteBatch owes nothing yet (in_memory.go:131-137).
LEMMA DelLockUsage ==
  ASSUME IInv, UsageInv, NEW p \in Procs, DelLock(p)
  PROVE  UsageInv'
<1>1. /\ writeMu = Nobody /\ writeMu' = p /\ p # Nobody
      /\ newIdx' = [newIdx EXCEPT ![p] = index]
      /\ delta' = [delta EXCEPT ![p] = 0]
      /\ pc' = [pc EXCEPT ![p] = "delKeys"]
      /\ UNCHANGED <<index, entry, usedBytes>>
  BY StoreAssumption DEF DelLock, Lock, Goto, dataVars, counters, Procs
<1>2. \A q \in Procs : q # p => pc'[q] \notin Inside
  BY <1>1, StoreAssumption DEF IInv, MutexInv, Procs, TypeInv, StoreTypeOK
<1>3. pc'[p] = "delKeys" /\ newIdx'[p] = index /\ delta'[p] = 0
  BY <1>1 DEF IInv, TypeInv, StoreTypeOK
<1>4. usedBytes = Total(entry, index) /\ usedBytes \in Int
  BY <1>1 DEF UsageInv, IInv, TypeInv, StoreTypeOK
<1> QED  BY <1>1, <1>2, <1>3, <1>4 DEF UsageInv, Inside

\* Each key dropped from the copy adds its size to the debt; a panic forgets copy and debt
\* (in_memory.go:153-166).
LEMMA DelKeyUsage ==
  ASSUME IsFiniteSet(Keys), IInv, UsageInv, NEW p \in Procs, DelKey(p)
  PROVE  UsageInv'
<1>1. pc[p] = "delKeys" /\ pc[p] \in Inside /\ UNCHANGED <<index, entry, usedBytes>>
  BY DEF DelKey, Inside
<1>2. PICK k \in batch[p] : DelMissing(p, k) \/ DelFound(p, k)
  BY DEF DelKey
<1>3. CASE DelMissing(p, k)
  BY <1>1, <1>3, StayUsage DEF DelMissing, opVars
<1>4. CASE DelFound(p, k) /\ CancelPanics(k)
  <2>1. Return(p) /\ Unlock(p)
    BY <1>4 DEF DelFound, Panic
  <2>2. usedBytes' = Total(entry, index)
    BY <1>1 DEF UsageInv
  <2> QED  BY <1>1, <2>1, <2>2, LeaveUsage
<1>5. CASE DelFound(p, k) /\ ~CancelPanics(k)
  <2> DEFINE idx == newIdx[p]
             jdx == [newIdx[p] EXCEPT ![k] = NoEntry]
  <2>1. /\ newIdx' = [newIdx EXCEPT ![p][k] = NoEntry]
        /\ delta' = [delta EXCEPT ![p] = @ - SizeAt(newIdx[p], k)]
        /\ UNCHANGED <<writeMu, pc>>
    BY <1>5 DEF DelFound, opVars
  <2>2. k \in Keys
    BY <1>1, NextIndex
  <2>3. idx \in Snapshot /\ newIdx'[p] = jdx /\ delta'[p] = delta[p] - SizeAt(idx, k) /\ delta[p] \in Int
    BY <2>1 DEF IInv, TypeInv, StoreTypeOK
  <2>4. jdx[k] = NoEntry /\ \A j \in Keys : j # k => jdx[j] = idx[j]
    BY <2>2, <2>3 DEF Snapshot
  <2>5. \A q \in Procs : q # p => pc'[q] \notin Inside
    BY <1>1, <2>1, OneInside
  <2>6. usedBytes = Total(entry, index) /\ Total(entry, idx) = usedBytes + delta[p] /\ usedBytes \in Int
    BY <1>1 DEF UsageInv, IInv, TypeInv, StoreTypeOK
  <2>7. Named(idx)
    BY <1>1, IndexNamed
  <2> HIDE DEF idx, jdx
  <2>8. Named(jdx)
    BY <2>4, <2>7 DEF Named
  <2>9. /\ Weights(entry, idx) \in [Keys -> Int] /\ Weights(entry, jdx) \in [Keys -> Int]
        /\ Weights(entry, idx)[k] = SizeAt(idx, k) /\ Weights(entry, jdx)[k] = 0
        /\ \A j \in Keys : j # k => Weights(entry, jdx)[j] = Weights(entry, idx)[j]
    <3>1. \A j \in Keys : Weights(entry, idx)[j] = SizeAt(idx, j) /\ Weights(entry, jdx)[j] = SizeAt(jdx, j)
      BY <2>7, <2>8, WeightsAre DEF IInv
    <3>2. SizeAt(jdx, k) = 0 /\ \A j \in Keys : j # k => SizeAt(jdx, j) = SizeAt(idx, j)
      BY <2>4 DEF SizeAt
    <3> QED  BY <2>2, <2>7, <2>8, <3>1, <3>2, WeightsAre DEF IInv
  <2>10. Total(entry, jdx) = Total(entry, idx) + (Weights(entry, jdx)[k] - Weights(entry, idx)[k])
    BY <2>2, <2>9, TotalChanges
  <2>11. SizeAt(idx, k) \in Int
    BY <2>2, <2>9
  <2>12. Total(entry, jdx) = usedBytes + delta'[p]
    BY <2>3, <2>6, <2>9, <2>10, <2>11
  <2>13. pc'[p] = "delKeys" /\ pc[p] = "delKeys" /\ writeMu' # Nobody
    BY <1>1, <2>1, StoreAssumption DEF IInv, MutexInv, Procs
  <2> QED  BY <1>1, <2>3, <2>5, <2>6, <2>12, <2>13 DEF UsageInv, Inside
<1> QED
  BY <1>2, <1>3, <1>4, <1>5

\* Every step of the shard keeps UsageInv.
LEMMA NextUsage ==
  ASSUME IsFiniteSet(Keys), IInv, UsageInv, [Next]_vars
  PROVE  UsageInv'
<1>1. CASE UNCHANGED vars
  BY <1>1, StayUsage DEF vars, storeVars, dataVars, counters, opVars, localVars
<1>2. ASSUME NEW p \in Clients, DeleteCall(p) \/ GetCall(p)
      PROVE  UsageInv'
  <2>1. PICK step \in {"delLock", "getLoad"} : Goto(p, step)
    BY <1>2 DEF DeleteCall, GetCall, Begin
  <2>2. step \in Steps \ Inside /\ p \in Procs
    BY DEF Steps, Inside, Procs
  <2>3. UNCHANGED <<index, entry, usedBytes, writeMu, newIdx, delta>>
    BY <1>2 DEF DeleteCall, GetCall, dataVars, counters, localVars
  <2> QED
    BY <2>1, <2>2, <2>3, UnlockedUsage
<1>3. ASSUME NEW p \in Clients, GetLoad(p) \/ GetCheck(p) \/ GetTake(p) \/ GetEnqueue(p)
      PROVE  UsageInv'
  <2>1. PICK step \in {"idle", "getCheck"} \cup FoundSteps : Goto(p, step)
    BY <1>3, GetMove DEF Begin
  <2>2. step \in Steps \ Inside /\ p \in Procs
    BY DEF Steps, Inside, FoundSteps, Procs
  <2>3. UNCHANGED <<index, entry, usedBytes, writeMu, newIdx, delta>>
    BY <1>3 DEF GetLoad, GetCheck, GetTake, GetEnqueue, dataVars, counters, localVars
  <2> QED
    BY <2>1, <2>2, <2>3, UnlockedUsage
<1>4. ASSUME NEW p \in Clients, SetPublish(p)
      PROVE  UsageInv'
  <2>1. /\ p \in Procs /\ pc[p] = "setPublish" /\ index' = newIdx[p] /\ Goto(p, "setUsage")
        /\ UNCHANGED <<entry, usedBytes, writeMu, newIdx, delta>>
    BY <1>4 DEF Procs, SetPublish, counters, localVars
  <2> QED
    BY <2>1, PublishUsage
<1>5. ASSUME NEW p \in Clients, SetSchedule(p)
      PROVE  UsageInv'
  <2>1. /\ p \in Procs /\ pc[p] = "setSchedule" /\ Return(p) /\ Unlock(p)
        /\ UNCHANGED <<index, entry, usedBytes>>
    BY <1>5 DEF SetSchedule, Panic, Procs, dataVars, counters
  <2>2. pc[p] \in Inside /\ usedBytes' = Total(entry, index)
    BY <2>1 DEF Inside, UsageInv
  <2> QED
    BY <2>1, <2>2, LeaveUsage
<1>6. ASSUME NEW p \in Procs, DelPublish(p)
      PROVE  UsageInv'
  <2>1. /\ pc[p] = "delKeys" /\ Goto(p, "delUsage")
        /\ index' = newIdx[p] \/ (index' = index /\ delta[p] = 0)
        /\ UNCHANGED <<entry, usedBytes, writeMu, newIdx, delta>>
    BY <1>6 DEF DelPublish, counters, localVars
  <2> QED
    BY <2>1, PublishUsage
<1>7. ASSUME NEW p \in Procs, DelUsage(p)
      PROVE  UsageInv'
  <2>1. /\ pc[p] = "delUsage" /\ Return(p) /\ Unlock(p) /\ UNCHANGED <<index, entry>>
        /\ usedBytes' = usedBytes + delta[p]
    BY <1>7 DEF DelUsage
  <2>2. pc[p] \in Inside /\ usedBytes' = Total(entry, index)
    BY <2>1 DEF Inside, UsageInv
  <2> QED
    BY <2>1, <2>2, LeaveUsage
<1>8. CASE Flush
  <2>1. UNCHANGED <<index, entry, usedBytes, writeMu, newIdx, delta>>
    BY <1>8 DEF Flush, dataVars, counters, localVars
  <2>2. UNCHANGED pc \/ Goto(Flusher, "delLock")
    BY <1>8 DEF Flush, opVars, Begin
  <2>3. "delLock" \in Steps \ Inside /\ Flusher \in Procs
    BY DEF Steps, Inside, Procs
  <2> QED
    BY <2>1, <2>2, <2>3, StayUsage, UnlockedUsage
<1>9. CASE StartGC \/ StopGC \/ Clock \/ CacheRefresh \/ CollectorStep
  <2>1. UNCHANGED <<index, entry, usedBytes, writeMu, newIdx, delta, pc>>
    BY <1>9 DEF StartGC, StopGC, Clock, CacheRefresh, CollectorStep, storeVars, dataVars, counters,
       opVars, localVars
  <2> QED
    BY <2>1, StayUsage
<1> QED
  BY <1>1, <1>2, <1>3, <1>4, <1>5, <1>6, <1>7, <1>8, <1>9, SetCallUsage, SetLockUsage, SetUsageUsage,
     DelLockUsage, DelKeyUsage
     DEF Next, Call, ClientSteps, DeleteSteps

\* An empty shard uses no bytes.
LEMMA InitUsage == ASSUME IsFiniteSet(Keys), Init PROVE UsageInv
<1> DEFINE w == Weights(entry, index)
<1>1. index = EmptyIndex /\ usedBytes = 0 /\ \A p \in Procs : pc[p] = "idle"
  BY DEF Init
<1>2. w = [k \in Keys |-> 0]
  BY <1>1 DEF Weights, EmptyIndex
<1>3. PICK u : IsSum(u, w) /\ Total(entry, index) = u[Keys]
  BY <1>2, TotalIsSum
<1> HIDE DEF w
<1> DEFINE D == SUBSET Keys
           stop == {{}}
           step == [s \in D |-> s \ {Any(s)}]
           m == [s \in D |-> Cardinality(s)]
           T == {s \in D : u[s] = 0}
<1>4. Ends(D, stop, step, m)
  BY SumEnds
<1>5. D \cap stop \subseteq T
  BY <1>3 DEF IsSum
<1>6. ASSUME NEW s \in D \ stop, step[s] \in T PROVE s \in T
  <2>1. Any(s) \in Keys /\ step[s] = s \ {Any(s)}
    BY DEF Any
  <2>2. u[s] = w[Any(s)] + u[s \ {Any(s)}]
    BY <1>3 DEF IsSum
  <2>3. w[Any(s)] = 0 /\ u[s \ {Any(s)}] = 0
    BY <1>2, <1>6, <2>1
  <2>4. u[s] = 0
    BY <2>2, <2>3
  <2> QED  BY <2>4
<1>7. D \subseteq T
  <2>1. \A s \in D \ stop : step[s] \in T => s \in T
    BY <1>6
  <2> HIDE DEF D, stop, step, m, T
  <2> QED  BY <1>4, <1>5, <2>1, LoopInduction
<1>8. Total(entry, index) = 0
  BY <1>3, <1>7
<1> QED  BY <1>1, <1>8 DEF UsageInv

(***************************************************************************)
(* Usage() is exact between writes, for any sizes, zero included, any      *)
(* number of concurrent requests and flushes, and also after a panic: the  *)
(* writer inside owes usedBytes what its index differs by from the         *)
(* published one, and whoever unlocks has paid or has published nothing.   *)
(***************************************************************************)
THEOREM UsageIsExact ==
  ASSUME IsFiniteSet(Keys)
  PROVE  Spec => []UsedBytesExact
<1>1. Spec => []IInv
  BY StoreInvariant
<1>2. IInv /\ UsageInv /\ [Next]_vars => UsageInv'
  BY NextUsage
<1>3. UsageInv => UsedBytesExact
  <2>1. Total(entry, index) = MapThenSumSet(LAMBDA k : SizeAt(index, k), Keys)
    BY DEF Total, SizeAt
  <2> QED  BY <2>1 DEF UsageInv, UsedBytesExact
<1>4. Init => UsageInv
  BY InitUsage
<1> QED
  BY <1>1, <1>2, <1>3, <1>4, PTL DEF Spec

-----------------------------------------------------------------------------
(***************************************************************************)
(* The timers inside the shard.  What NearClockProofs and WheelClockProofs *)
(* show of each operation of the near queue and the wheel holds whoever    *)
(* calls it, so it can be used here.                                       *)
(***************************************************************************)
NQ == INSTANCE NearClockProofs WITH heap <- nearHeap, index <- nearIndex, Delays <- {}, MaxHeap <- 0
HW == INSTANCE WheelClockProofs WITH Delays <- {}, tick <- FALSE

\* The near queue is a heap and the wheel's index and slots agree.
TimersSound == Near!NearTypeOK /\ Near!HeapOrdered /\ Wheel!WheelTypeOK /\ Wheel!Coherent

\* The queue and the wheel of the proofs are those of the garbage collector.
LEMMA SameQueue ==
  /\ Near!NearTypeOK <=> NQ!NearTypeOK
  /\ Near!HeapOrdered <=> NQ!HeapOrdered
  /\ (Near!NearTypeOK <=> NQ!NearTypeOK)'
  /\ (Near!HeapOrdered <=> NQ!HeapOrdered)'
BY DEF Near!NearTypeOK, NQ!NearTypeOK, Near!NearEntry, NQ!NearEntry, Near!NoIndex, NQ!NoIndex,
   Near!HeapOrdered, NQ!HeapOrdered, Near!Less, NQ!Less

LEMMA SameRemove == ASSUME NEW k PROVE Near!Remove(k) <=> NQ!Remove(k)
BY DEF Near!Remove, NQ!Remove, Near!OutOfRange, NQ!OutOfRange, Near!NoIndex, NQ!NoIndex,
   Near!HeapRemove, NQ!HeapRemove, Near!Settle, NQ!Settle, Near!Swap, NQ!Swap, Near!Risen, NQ!Risen,
   Near!Up, NQ!Up, Near!Down, NQ!Down, Near!Less, NQ!Less, Near!MinChild, NQ!MinChild,
   Near!Rising, NQ!Rising, Near!Sinking, NQ!Sinking, Near!NearEntry, NQ!NearEntry

LEMMA SameAdd == ASSUME NEW k, NEW at PROVE Near!Add(k, at) <=> NQ!Add(k, at)
BY DEF Near!Add, NQ!Add, Near!InWindow, NQ!InWindow, Near!Ms, NQ!Ms, Near!Pushed, NQ!Pushed,
   Near!OutOfRange, NQ!OutOfRange, Near!NoIndex, NQ!NoIndex, Near!HeapFix, NQ!HeapFix,
   Near!Settle, NQ!Settle, Near!Swap, NQ!Swap, Near!Risen, NQ!Risen, Near!Up, NQ!Up,
   Near!Down, NQ!Down, Near!Less, NQ!Less, Near!MinChild, NQ!MinChild, Near!Rising, NQ!Rising,
   Near!Sinking, NQ!Sinking, Near!NearEntry, NQ!NearEntry

LEMMA SameDrain == Near!DrainExpired <=> NQ!DrainExpired
BY DEF Near!DrainExpired, NQ!DrainExpired, Near!Drain, NQ!Drain, Near!Drained, NQ!Drained,
   Near!Draining, NQ!Draining,
   Near!DrainedKeys, NQ!DrainedKeys, Near!IsDue, NQ!IsDue, Near!Ms, NQ!Ms, Near!HeapPop, NQ!HeapPop,
   Near!NoIndex, NQ!NoIndex, Near!Sunk, NQ!Sunk, Near!Swap, NQ!Swap, Near!Down, NQ!Down,
   Near!Less, NQ!Less, Near!MinChild, NQ!MinChild, Near!Sinking, NQ!Sinking, Near!NearEntry, NQ!NearEntry

LEMMA SameWheel ==
  /\ Wheel!WheelTypeOK <=> HW!WheelTypeOK
  /\ Wheel!Coherent <=> HW!Coherent
  /\ (Wheel!WheelTypeOK <=> HW!WheelTypeOK)'
  /\ (Wheel!Coherent <=> HW!Coherent)'
  /\ \A k : Wheel!Remove(k) <=> HW!Remove(k)
  /\ \A k, at : Wheel!Add(k, at) <=> HW!Add(k, at)
  /\ Wheel!Advance <=> HW!Advance
BY DEF Wheel!WheelTypeOK, HW!WheelTypeOK, Wheel!Slots, HW!Slots, Wheel!WheelEntry, HW!WheelEntry,
   Wheel!NoSlot, HW!NoSlot, Wheel!Coherent, HW!Coherent, Wheel!EntriesIndexed, HW!EntriesIndexed,
   Wheel!IndexedPresent, HW!IndexedPresent, Wheel!OneEntryPerKey, HW!OneEntryPerKey,
   Wheel!Remove, HW!Remove, Wheel!Without, HW!Without, Wheel!Add, HW!Add, Wheel!Smears, HW!Smears,
   Wheel!RoundsOf, HW!RoundsOf, Wheel!SlotOf, HW!SlotOf, Wheel!Ticks, HW!Ticks, Wheel!Ms, HW!Ms,
   Wheel!Advance, HW!Advance, Wheel!Visited, HW!Visited, Wheel!IsDue, HW!IsDue,
   Wheel!Expired, HW!Expired

LEMMA NearStepsSound ==
  ASSUME Near!NearTypeOK, Near!HeapOrdered, cached \in Nat,
         \/ UNCHANGED nearQueue
         \/ \E k \in Keys : Near!Remove(k)
         \/ \E k \in Keys, at \in Int : Near!Add(k, at)
         \/ Near!DrainExpired
  PROVE  Near!NearTypeOK' /\ Near!HeapOrdered'
<1> USE GcAssumption, StoreAssumption, SameQueue
<1>1. CASE UNCHANGED nearQueue
  BY <1>1 DEF nearQueue, Near!NearTypeOK, Near!HeapOrdered, Near!Less
<1>2. ASSUME NEW k \in Keys, Near!Remove(k) PROVE Near!NearTypeOK' /\ Near!HeapOrdered'
  BY <1>2, SameRemove, NQ!RemoveSound
<1>3. ASSUME NEW k \in Keys, NEW at \in Int, Near!Add(k, at) PROVE Near!NearTypeOK' /\ Near!HeapOrdered'
  BY <1>3, SameAdd, NQ!AddSound
<1>4. CASE Near!DrainExpired
  BY <1>4, SameDrain, NQ!DrainSound
<1> QED  BY <1>1, <1>2, <1>3, <1>4

LEMMA WheelStepsSound ==
  ASSUME Wheel!WheelTypeOK, Wheel!Coherent, now \in Nat,
         \/ UNCHANGED wheel
         \/ \E k \in Keys : Wheel!Remove(k)
         \/ \E k \in Keys, at \in Int : Wheel!Add(k, at)
         \/ Wheel!Advance
  PROVE  Wheel!WheelTypeOK' /\ Wheel!Coherent'
<1> USE GcAssumption, StoreAssumption, SameWheel
<1>1. CASE UNCHANGED wheel
  BY <1>1 DEF wheel, Wheel!WheelTypeOK, Wheel!Coherent, Wheel!EntriesIndexed, Wheel!IndexedPresent,
     Wheel!OneEntryPerKey
<1>2. ASSUME NEW k \in Keys, Wheel!Remove(k) PROVE Wheel!WheelTypeOK' /\ Wheel!Coherent'
  BY <1>2, HW!RemovePreserves
<1>3. ASSUME NEW k \in Keys, NEW at \in Int, Wheel!Add(k, at) PROVE Wheel!WheelTypeOK' /\ Wheel!Coherent'
  BY <1>3, HW!AddPreserves
<1>4. CASE Wheel!Advance
  BY <1>4, HW!AdvancePreserves
<1> QED  BY <1>1, <1>2, <1>3, <1>4

\* What any step of the shard may do to the near queue, and to the wheel.
NearSteps ==
  \/ UNCHANGED nearQueue
  \/ \E k \in Keys : Near!Remove(k)
  \/ \E k \in Keys, at \in Int : Near!Add(k, at)
  \/ Near!DrainExpired
WheelSteps ==
  \/ UNCHANGED wheel
  \/ \E k \in Keys : Wheel!Remove(k)
  \/ \E k \in Keys, at \in Int : Wheel!Add(k, at)
  \/ Wheel!Advance

TimersInv ==
  /\ TimersSound
  /\ cached \in Nat
  /\ collector \in {"off", "select", "enqueue", "done"}
  /\ stopped \in BOOLEAN

\* The deadline a Set schedules is a number, and its key is a key (in_memory.go:122).
LEMMA SetScheduleTimers ==
  ASSUME IInv, NEW p \in Clients, SetSchedule(p)
  PROVE  NearSteps /\ WheelSteps
<1>1. PICK k \in keys[p] :
        \/ Schedule(k, entry[cur[p]].ttl, entry[cur[p]].createdAt)
        \/ UNCHANGED timers
  BY DEF SetSchedule, Panic
<1>2. p \in Procs /\ pc[p] \in SetSteps
  BY DEF Procs, SetSchedule, SetSteps
<1>3. k \in Keys /\ entry[cur[p]] \in Entry
  BY <1>1, <1>2 DEF IInv, ArgInv, TypeInv, StoreTypeOK
<1> DEFINE at == ExpireAt(entry[cur[p]].ttl, entry[cur[p]].createdAt)
<1>4. at \in Int
  <2>1. entry[cur[p]].ttl \in Nat /\ entry[cur[p]].createdAt \in Nat
    BY <1>3, StoreAssumption DEF Entry
  <2> QED  BY <2>1 DEF ExpireAt
<1>5. CASE UNCHANGED timers
  BY <1>5 DEF timers, nearQueue, wheel, NearSteps, WheelSteps
<1>6. CASE Schedule(k, entry[cur[p]].ttl, entry[cur[p]].createdAt)
  <2>1. \/ Near!Remove(k) /\ Wheel!Remove(k)
        \/ Near!Add(k, at) /\ UNCHANGED wheel
        \/ Wheel!Add(k, at) /\ UNCHANGED nearQueue
    BY <1>6 DEF Schedule, Cancel
  <2> HIDE DEF at
  <2> QED  BY <1>3, <1>4, <2>1 DEF NearSteps, WheelSteps
<1> QED  BY <1>1, <1>5, <1>6

\* deleteBatch cancels the timers of a key it finds (in_memory.go:163).
LEMMA DelKeyTimers ==
  ASSUME IInv, NEW p \in Procs, DelKey(p)
  PROVE  NearSteps /\ WheelSteps
<1>1. PICK k \in batch[p] : UNCHANGED timers \/ (Near!Remove(k) /\ Wheel!Remove(k))
  BY DEF DelKey, DelMissing, DelFound, Panic, Cancel
<1>2. k \in Keys
  BY NextIndex DEF DelKey
<1>3. UNCHANGED timers => UNCHANGED nearQueue /\ UNCHANGED wheel
  BY DEF timers, nearQueue, wheel
<1> QED  BY <1>1, <1>2, <1>3 DEF NearSteps, WheelSteps

\* Only Schedule, Cancel and the collector's two tickers touch the timers.
LEMMA NextTimers ==
  ASSUME IInv, [Next]_vars
  PROVE  NearSteps /\ WheelSteps
<1>1. UNCHANGED timers => NearSteps /\ WheelSteps
  BY DEF timers, nearQueue, wheel, NearSteps, WheelSteps
<1>2. CASE UNCHANGED vars
  BY <1>1, <1>2 DEF vars, gcVars
<1>3. ASSUME NEW p \in Clients, Call(p) \/ ClientSteps(p), ~SetSchedule(p)
      PROVE  UNCHANGED timers
  BY <1>3 DEF Call, SetCall, DeleteCall, GetCall, ClientSteps, SetLock, SetPublish, SetUsage,
     GetLoad, GetCheck, GetTake, GetEnqueue, gcVars
<1>4. ASSUME NEW p \in Procs, DeleteSteps(p), ~DelKey(p)
      PROVE  UNCHANGED timers
  BY <1>4 DEF DeleteSteps, DelLock, DelPublish, DelUsage, gcVars
<1>5. CASE Flush \/ StartGC \/ StopGC \/ Clock \/ CacheRefresh
  BY <1>1, <1>5 DEF Flush, StartGC, Start, StopGC, Stop, Clock, CacheRefresh, gcVars
<1>6. CASE CollectorStep
  BY <1>1, <1>6 DEF CollectorStep, NearTick, WheelTick, EnqueueBatch, CollectorExit,
     NearSteps, WheelSteps
<1> QED
  BY <1>1, <1>2, <1>3, <1>4, <1>5, <1>6, SetScheduleTimers, DelKeyTimers
     DEF Next, ClientSteps, DeleteSteps

\* Every step keeps the timers sound and the collector's state well formed.
LEMMA NextTimersInv ==
  ASSUME IInv, TimersInv, [Next]_vars
  PROVE  TimersInv'
<1>1. NearSteps /\ WheelSteps
  BY NextTimers
<1>2. now \in Nat /\ cached \in Nat
  BY DEF IInv, TypeInv, TimersInv
<1>3. Near!NearTypeOK' /\ Near!HeapOrdered'
  BY <1>1, <1>2, NearStepsSound DEF TimersInv, TimersSound, NearSteps
<1>4. Wheel!WheelTypeOK' /\ Wheel!Coherent'
  BY <1>1, <1>2, WheelStepsSound DEF TimersInv, TimersSound, WheelSteps
<1> DEFINE Rest == /\ cached' \in Nat
                   /\ collector' \in {"off", "select", "enqueue", "done"}
                   /\ stopped' \in BOOLEAN
<1> USE DEF TimersInv
<1>5. UNCHANGED <<cached, collector, stopped>> => Rest
  OBVIOUS
<1>6. ASSUME UNCHANGED vars PROVE Rest
  BY <1>5, <1>6 DEF vars, gcVars, clockVars
<1>7. ASSUME NEW p \in Clients, Call(p) \/ ClientSteps(p)
      PROVE  UNCHANGED <<cached, collector, stopped>>
  BY <1>7 DEF Call, SetCall, DeleteCall, GetCall, ClientSteps, SetLock, SetPublish, SetUsage,
     SetSchedule, GetLoad, GetCheck, GetTake, GetEnqueue, gcVars, clockVars
<1>8. ASSUME NEW p \in Procs, DeleteSteps(p)
      PROVE  UNCHANGED <<cached, collector, stopped>>
  BY <1>8 DEF DeleteSteps, DelLock, DelKey, DelPublish, DelUsage, gcVars, clockVars
<1>9. ASSUME Flush PROVE Rest
  BY <1>5, <1>9 DEF Flush, clockVars
<1>10. ASSUME StartGC \/ StopGC \/ Clock \/ CacheRefresh PROVE Rest
  BY <1>2, <1>10 DEF StartGC, Start, StopGC, Stop, Clock, CacheRefresh, gcVars, clockVars
<1>11. ASSUME CollectorStep PROVE Rest
  BY <1>11 DEF CollectorStep, NearTick, WheelTick, EnqueueBatch, CollectorExit, Collect, clockVars
<1>12. Rest
  <2> HIDE DEF Rest
  <2> QED  BY <1>5, <1>6, <1>7, <1>8, <1>9, <1>10, <1>11 DEF Next
<1> QED  BY <1>3, <1>4, <1>12 DEF TimersSound

LEMMA InitTimers == Init => TimersInv
<1> SUFFICES ASSUME Init PROVE TimersInv
  OBVIOUS
<1>1. Near!NearTypeOK /\ Near!HeapOrdered
  BY DEF Init, GcInit, Near!NearInit, Near!NearTypeOK, Near!HeapOrdered
<1>2. Wheel!WheelTypeOK /\ Wheel!Coherent
  BY GcAssumption DEF Init, GcInit, Wheel!WheelInit, Wheel!WheelTypeOK, Wheel!Coherent, Wheel!Slots,
     Wheel!EntriesIndexed, Wheel!IndexedPresent, Wheel!OneEntryPerKey
<1> QED  BY <1>1, <1>2 DEF Init, GcInit, TimersInv, TimersSound

(***************************************************************************)
(* Inside the shard, under any interleaving of requests, the coalescer and *)
(* the collector, and after any recovered panic, the near queue remains a  *)
(* heap and the wheel's key index agrees with its slots (gc.go:33-80).     *)
(***************************************************************************)
THEOREM ShardTimersSound == Spec => []TimersSound
<1>1. IInv /\ TimersInv /\ [Next]_vars => TimersInv'
  BY NextTimersInv
<1>2. TimersInv => TimersSound
  BY DEF TimersInv
<1> QED
  BY <1>1, <1>2, InitTimers, StoreInvariant, PTL DEF Spec

(***************************************************************************)
(* Store, timers and goroutines stay well formed: no step leaves a heap    *)
(* position, a wheel slot or a goroutine's local outside its range.        *)
(***************************************************************************)
THEOREM StoreTyped == Spec => []TypeOK
<1>1. IInv /\ TimersInv /\ [Next]_vars => TimersInv'
  BY NextTimersInv
<1>2. IInv /\ TimersInv => TypeOK
  BY DEF IInv, TypeInv, TimersInv, TimersSound, TypeOK, GcTypeOK
<1> QED
  BY <1>1, <1>2, InitTimers, StoreInvariant, PTL DEF Spec

-----------------------------------------------------------------------------
(***************************************************************************)
(* Deletes.  A deleteBatch that gets to its end has removed its keys; what *)
(* can keep it from getting there is a panic of the near queue, and that   *)
(* needs a key with a recorded position.                                   *)
(***************************************************************************)

\* The store of the new index, if the byte count changed (in_memory.go:168-169).
LEMMA PublishDeletes ==
  ASSUME IInv, 0 \notin Sizes, NEW p \in Procs, DelPublish(p)
  PROVE  \A k \in keys[p] : index'[k] = NoEntry
<1>1. pc[p] = "delKeys" /\ batch[p] = {}
  BY DEF DelPublish
<1>2. newIdx[p] = Minus(keys[p]) /\ (delta[p] = 0 => newIdx[p] = index)
  BY <1>1 DEF IInv, BuildInv
<1>3. index' = Minus(keys[p])
  BY <1>2 DEF DelPublish
<1>4. keys[p] \subseteq Keys
  BY DEF IInv, TypeInv, StoreTypeOK
<1> QED  BY <1>3, <1>4 DEF Minus

\* A goroutine leaves the loop of deleteBatch by publishing or by a panic.
LEMMA LoopExit ==
  ASSUME IInv, [Next]_vars, NEW p \in Procs, pc[p] = "delKeys", pc'[p] # "delKeys"
  PROVE  DelPublish(p) \/ (Panic(p) /\ \E k \in Keys : CancelPanics(k))
<1>1. pc \in [Procs -> Steps]
  BY DEF IInv, TypeInv, StoreTypeOK
<1> DEFINE Moves(q) == \E s : pc' = [pc EXCEPT ![q] = s]
<1>2. ASSUME NEW q \in Procs, q # p PROVE ~Moves(q)
  BY <1>1, <1>2
<1>3. pc' # pc
  OBVIOUS
<1>4. ASSUME NEW q \in Clients, Call(q) \/ ClientSteps(q) PROVE pc[q] # "delKeys" /\ (Moves(q) \/ pc' = pc)
  BY <1>4 DEF Call, SetCall, DeleteCall, GetCall, ClientSteps, SetLock, SetPublish, SetUsage,
     SetSchedule, GetLoad, GetCheck, GetTake, GetEnqueue, Begin, Return, Goto, Panic
<1>5. ASSUME NEW q \in Procs, DeleteSteps(q) PROVE Moves(q) \/ pc' = pc
  BY <1>5 DEF DeleteSteps, DelLock, DelKey, DelMissing, DelFound, DelPublish, DelUsage, Begin,
     Return, Goto, Panic, opVars
<1>6. ASSUME Flush PROVE FALSE
  <2>1. pc[Flusher] = "idle" /\ Flusher \in Procs /\ (Moves(Flusher) \/ pc' = pc)
    BY <1>6 DEF Flush, Begin, Goto, opVars, Procs
  <2> QED  BY <1>2, <1>3, <2>1
<1>7. ~(CollectorStep \/ StartGC \/ StopGC \/ Clock \/ CacheRefresh \/ UNCHANGED vars)
  BY <1>3 DEF CollectorStep, StartGC, StopGC, Clock, CacheRefresh, vars, storeVars, opVars
<1>8. Clients \subseteq Procs
  BY DEF Procs
<1>9. DeleteSteps(p)
  <2> HIDE DEF Moves
  <2> QED  BY <1>2, <1>3, <1>4, <1>5, <1>6, <1>7, <1>8 DEF Next
<1>10. ~DelLock(p) /\ ~DelUsage(p)
  BY DEF DelLock, DelUsage
<1>11. CASE DelPublish(p)
  BY <1>11
<1>12. CASE DelKey(p)
  <2>1. PICK k \in batch[p] : DelMissing(p, k) \/ DelFound(p, k)
    BY <1>12 DEF DelKey
  <2>2. k \in Keys
    BY NextIndex, <2>1
  <2>3. Panic(p) /\ CancelPanics(k)
    BY <1>3, <2>1 DEF DelMissing, DelFound, opVars
  <2> QED  BY <2>2, <2>3
<1> QED  BY <1>9, <1>10, <1>11, <1>12 DEF DeleteSteps

(***************************************************************************)
(* A batch of deletes that is not cut short by a panic has removed all its *)
(* keys when it goes on to its byte count (in_memory.go:153-170), whatever *)
(* timers there are and whoever runs it, the coalescer included.           *)
(***************************************************************************)
THEOREM BatchesDelete ==
  ASSUME 0 \notin Sizes
  PROVE  Spec => [][\A p \in Procs : pc[p] = "delKeys" /\ pc'[p] = "delUsage" =>
                      \A k \in keys[p] : index'[k] = NoEntry]_vars
<1> DEFINE P == \A p \in Procs : pc[p] = "delKeys" /\ pc'[p] = "delUsage" =>
                  \A k \in keys[p] : index'[k] = NoEntry
<1>1. ASSUME IInv, [Next]_vars PROVE P
  <2> SUFFICES ASSUME NEW p \in Procs, pc[p] = "delKeys", pc'[p] = "delUsage"
               PROVE  \A k \in keys[p] : index'[k] = NoEntry
    OBVIOUS
  <2>1. Panic(p) => pc'[p] = "idle"
    BY <1>1 DEF Panic, Return, Begin, Goto, IInv, TypeInv, StoreTypeOK
  <2> QED  BY <1>1, <2>1, LoopExit, PublishDeletes
<1> QED
  BY <1>1, StoreInvariant, PTL DEF Spec

\* Without TTLs no key ever gets a recorded position, so nothing can panic.
NoPositions == \A k \in Keys : nearIndex[k] = Near!NoIndex

LEMMA NoPanic ==
  ASSUME NoPositions, Near!NearTypeOK, NEW k \in Keys
  PROVE  ~CancelPanics(k)
BY DEF NoPositions, Near!NearTypeOK, CancelPanics, Near!RemovePanics, Near!OutOfRange, Near!NoIndex

LEMMA NextNoPositions ==
  ASSUME TTLs \subseteq {0}, IInv, TimersInv, NoPositions, [Next]_vars
  PROVE  NoPositions'
<1>1. nearIndex \in [Keys -> Nat \cup {Near!NoIndex}]
  BY DEF TimersInv, TimersSound, Near!NearTypeOK
<1>2. CASE UNCHANGED nearIndex
  BY <1>2 DEF NoPositions
<1>3. ASSUME NEW k \in Keys, Near!Remove(k) PROVE NoPositions'
  BY <1>1, <1>3 DEF NoPositions, Near!Remove
<1>4. CASE Near!DrainExpired
  BY <1>1, <1>4 DEF NoPositions, Near!DrainExpired
<1>5. ASSUME NEW p \in Clients, SetSchedule(p) PROVE NoPositions'
  <2>1. PICK k \in keys[p] :
          \/ Schedule(k, entry[cur[p]].ttl, entry[cur[p]].createdAt)
          \/ UNCHANGED timers
    BY <1>5 DEF SetSchedule, Panic
  <2>2. k \in Keys /\ entry[cur[p]] \in Entry
    <3>1. p \in Procs /\ pc[p] \in SetSteps
      BY <1>5 DEF Procs, SetSchedule, SetSteps
    <3> QED  BY <2>1, <3>1 DEF IInv, ArgInv, TypeInv, StoreTypeOK
  <2>3. entry[cur[p]].ttl = 0
    BY <2>2 DEF Entry
  <2>4. UNCHANGED timers \/ Near!Remove(k)
    BY <2>1, <2>3 DEF Schedule, Cancel
  <2> QED  BY <1>2, <1>3, <2>2, <2>4 DEF timers
<1>6. ASSUME NEW p \in Clients, Call(p) \/ ClientSteps(p), ~SetSchedule(p)
      PROVE  UNCHANGED nearIndex
  BY <1>6 DEF Call, SetCall, DeleteCall, GetCall, ClientSteps, SetLock, SetPublish, SetUsage,
     GetLoad, GetCheck, GetTake, GetEnqueue, gcVars, timers
<1>7. ASSUME NEW p \in Procs, DeleteSteps(p)
      PROVE  NoPositions'
  <2>1. CASE DelKey(p)
    <3>1. PICK k \in batch[p] : UNCHANGED timers \/ Near!Remove(k)
      BY <2>1 DEF DelKey, DelMissing, DelFound, Panic, Cancel
    <3>2. k \in Keys
      BY <2>1, NextIndex DEF DelKey
    <3> QED  BY <1>2, <1>3, <3>1, <3>2 DEF timers
  <2>2. CASE DelLock(p) \/ DelPublish(p) \/ DelUsage(p)
    BY <1>2, <2>2 DEF DelLock, DelPublish, DelUsage, gcVars, timers
  <2> QED  BY <1>7, <2>1, <2>2 DEF DeleteSteps
<1>8. CASE Flush \/ StartGC \/ StopGC \/ Clock \/ CacheRefresh \/ UNCHANGED vars
  BY <1>2, <1>8 DEF Flush, StartGC, Start, StopGC, Stop, Clock, CacheRefresh, vars, gcVars, timers
<1>9. CASE CollectorStep
  BY <1>2, <1>4, <1>9 DEF CollectorStep, NearTick, WheelTick, EnqueueBatch, CollectorExit, timers, nearQueue
<1> QED
  BY <1>2, <1>5, <1>6, <1>7, <1>8, <1>9 DEF Next, ClientSteps

(***************************************************************************)
(* Without TTLs and empty pairs a client's Delete deletes: no panic cuts   *)
(* it short (in_memory.go:127-172).  Both hypotheses are needed: the run   *)
(* stale_position shows the panic, and a zero byte count is not published. *)
(***************************************************************************)
THEOREM DeletesTakeEffect ==
  ASSUME 0 \notin Sizes, TTLs \subseteq {0}
  PROVE  Spec => DeleteDeletes
<1> DEFINE P == \A p \in Clients : pc[p] = "delKeys" /\ pc'[p] # "delKeys" =>
                  \A k \in keys[p] : index'[k] = NoEntry
<1>1. ASSUME IInv, TimersInv, NoPositions, [Next]_vars PROVE P
  <2> SUFFICES ASSUME NEW p \in Clients, pc[p] = "delKeys", pc'[p] # "delKeys"
               PROVE  \A k \in keys[p] : index'[k] = NoEntry
    OBVIOUS
  <2>1. p \in Procs
    BY DEF Procs
  <2>2. \A k \in Keys : ~CancelPanics(k)
    BY <1>1, NoPanic DEF TimersInv, TimersSound
  <2> QED  BY <1>1, <2>1, <2>2, LoopExit, PublishDeletes
<1>2. IInv /\ TimersInv /\ [Next]_vars => TimersInv'
  BY NextTimersInv
<1>3. IInv /\ TimersInv /\ NoPositions /\ [Next]_vars => NoPositions'
  BY NextNoPositions
<1>4. Init => NoPositions
  BY DEF Init, GcInit, Near!NearInit, NoPositions
<1> QED
  BY <1>1, <1>2, <1>3, <1>4, InitTimers, StoreInvariant, PTL DEF Spec, DeleteDeletes

-----------------------------------------------------------------------------
(***************************************************************************)
(* Timers and stored keys.  A key is registered when the wheel's index or  *)
(* the near queue's map knows it.  FollowInv: what is registered is        *)
(* stored, and stays so in the index a delete is building.  CoverInv, as   *)
(* long as no call has panicked: what is stored with a TTL is registered   *)
(* or on its way to the coalescer, except for the key whose Set has        *)
(* published its entry and not yet scheduled it.                           *)
(***************************************************************************)
Registered == {k \in Keys : keyIndex[k] # Wheel!NoSlot \/ nearIndex[k] # Near!NoIndex}
Known == Registered \cup OnTheWay
TimedIn(ent, idx) == {k \in Keys : idx[k] # NoEntry /\ ent[idx[k]].ttl > 0}

Scheduling == {"setUsage", "setSchedule"}
Waiting == Scheduling \cup {"delKeys"}

FollowInv ==
  /\ Registered \subseteq Stored
  /\ \A p \in Procs :
       /\ pc[p] = "idle" => keys[p] = {}
       /\ pc[p] = "delKeys" => Registered \subseteq StoredIn(newIdx[p])
       /\ pc[p] \in Scheduling => \A k \in keys[p] : index[k] = cur[p]

Covered ==
  /\ (\A p \in Procs : pc[p] \notin Waiting) => TimedIn(entry, index) \subseteq Known
  /\ \A p \in Procs : pc[p] = "delKeys" => TimedIn(entry, newIdx[p]) \subseteq Known
  /\ \A p \in Procs : pc[p] \in Scheduling => TimedIn(entry, index) \subseteq keys[p] \cup Known

CoverInv ==
  /\ collector # "enqueue" => expired = {}
  /\ \A p \in Procs : pc[p] = "delUsage" => \A k \in keys[p] : index[k] = NoEntry
  /\ health = "ok" => Covered

\* A step of p leaves the other goroutines where they are.
Others(p) ==
  \A q \in Procs \ {p} :
    pc'[q] = pc[q] /\ keys'[q] = keys[q] /\ cur'[q] = cur[q] /\ newIdx'[q] = newIdx[q]

LEMMA ClientOthers ==
  ASSUME TypeInv, NEW p \in Clients, Call(p) \/ ClientSteps(p)
  PROVE  Others(p)
<1>1. /\ pc \in [Procs -> Steps] /\ keys \in [Procs -> SUBSET Keys]
      /\ cur \in [Procs -> EntryIds \cup {NoEntry}] /\ newIdx \in [Procs -> Snapshot]
      /\ p \in Procs
  BY DEF TypeInv, StoreTypeOK, Procs
<1> USE DEF Others
<1>2. CASE Call(p)
  BY <1>1, <1>2 DEF Call, SetCall, DeleteCall, GetCall, Begin, Goto, localVars
<1>3. CASE SetLock(p) \/ SetPublish(p) \/ SetUsage(p)
  BY <1>1, <1>3 DEF SetLock, SetPublish, SetUsage, Goto, localVars
<1>4. CASE SetSchedule(p)
  <2>1. Return(p) /\ Unlock(p)
    BY <1>4 DEF SetSchedule, Panic
  <2> QED  BY <1>1, <2>1 DEF Return, Begin, Goto, Unlock, DropLocals
<1>5. CASE GetLoad(p) \/ GetCheck(p)
  BY <1>1, <1>5 DEF GetLoad, GetCheck, Return, Begin, Goto, localVars
<1>6. CASE GetTake(p) \/ GetEnqueue(p)
  BY <1>1, <1>6 DEF GetTake, GetEnqueue, Return, Begin, Goto, localVars
<1> QED  BY <1>2, <1>3, <1>4, <1>5, <1>6 DEF ClientSteps

LEMMA DeleterOthers ==
  ASSUME TypeInv, NEW p \in Procs, DeleteSteps(p) \/ (p = Flusher /\ Flush)
  PROVE  Others(p)
<1>1. /\ pc \in [Procs -> Steps] /\ keys \in [Procs -> SUBSET Keys]
      /\ cur \in [Procs -> EntryIds \cup {NoEntry}] /\ newIdx \in [Procs -> Snapshot]
  BY DEF TypeInv, StoreTypeOK
<1> USE DEF Others
<1>2. CASE DelLock(p) \/ DelPublish(p)
  BY <1>1, <1>2 DEF DelLock, DelPublish, Goto, localVars
<1>3. CASE DelUsage(p)
  BY <1>1, <1>3 DEF DelUsage, Return, Begin, Goto, Unlock, DropLocals
<1>4. CASE DelKey(p)
  <2>1. PICK k \in batch[p] : DelMissing(p, k) \/ DelFound(p, k)
    BY <1>4 DEF DelKey
  <2>2. CASE Panic(p)
    BY <1>1, <2>2 DEF Panic, Return, Begin, Goto, Unlock, DropLocals
  <2>3. CASE ~Panic(p)
    BY <1>1, <2>1, <2>3 DEF DelMissing, DelFound, opVars
  <2> QED  BY <2>2, <2>3
<1>5. CASE p = Flusher /\ Flush
  BY <1>1, <1>5 DEF Flush, Begin, Goto, opVars, localVars
<1> QED  BY <1>2, <1>3, <1>4, <1>5 DEF DeleteSteps

\* Steps of p that leave timers and index alone.
LEMMA QuietFollow ==
  ASSUME FollowInv, NEW p \in Procs, Others(p), UNCHANGED <<timers, index>>,
         pc'[p] = "idle" => keys'[p] = {},
         pc'[p] = "delKeys" => newIdx'[p] = index,
         pc'[p] \in Scheduling => pc[p] \in Scheduling /\ keys'[p] = keys[p] /\ cur'[p] = cur[p]
  PROVE  FollowInv'
<1>1. Registered' = Registered
  BY DEF Registered, timers
<1>2. Stored' = Stored /\ StoredIn(index) = Stored
  BY DEF Stored, StoredIn
<1>3. ASSUME NEW q \in Procs
      PROVE  /\ pc'[q] = "idle" => keys'[q] = {}
             /\ pc'[q] = "delKeys" => Registered \subseteq StoredIn(newIdx'[q])
             /\ pc'[q] \in Scheduling => \A k \in keys'[q] : index'[k] = cur'[q]
  BY <1>2 DEF FollowInv, Others
<1> QED  BY <1>1, <1>2, <1>3 DEF FollowInv, StoredIn

\* What a snapshot says of TTLs does not change when another entry is allocated.
LEMMA SameTimed ==
  ASSUME NEW idx \in Snapshot, \A k \in Keys : idx[k] # NoEntry => idx[k] \in DOMAIN entry,
         \A i \in DOMAIN entry : entry'[i] = entry[i]
  PROVE  TimedIn(entry', idx) = TimedIn(entry, idx)
BY DEF TimedIn

LEMMA QuietCover ==
  ASSUME IInv, CoverInv, NEW p \in Procs, Others(p), UNCHANGED <<index, collector, expired>>,
         health' = health,
         \A i \in DOMAIN entry : entry'[i] = entry[i],
         TimedIn(entry, index) \cap Known \subseteq Known',
         pc[p] \in Waiting => pc'[p] \in Waiting,
         pc'[p] = "delKeys" => writeMu = Nobody /\ newIdx'[p] = index,
         pc'[p] \in Scheduling => pc[p] \in Scheduling /\ keys'[p] = keys[p],
         pc'[p] # "delUsage"
  PROVE  CoverInv'
<1> DEFINE T == TimedIn(entry, index)
<1>1. index \in Snapshot /\ \A k \in Keys : index[k] # NoEntry => index[k] \in DOMAIN entry
  BY DEF IInv, TypeInv, StoreTypeOK, IndexInv
<1>2. TimedIn(entry', index') = T
  BY <1>1, SameTimed
<1>3. /\ collector' # "enqueue" => expired' = {}
      /\ \A q \in Procs : pc'[q] = "delUsage" => \A k \in keys'[q] : index'[k] = NoEntry
  BY DEF CoverInv, Others
<1>4. ASSUME health' = "ok" PROVE Covered'
  <2>1. Covered
    BY <1>4 DEF CoverInv
  <2>2. (\A q \in Procs : pc'[q] \notin Waiting) => T \subseteq Known'
    BY <2>1 DEF Covered, Others
  <2>3. ASSUME NEW q \in Procs, pc'[q] = "delKeys" PROVE TimedIn(entry', newIdx'[q]) \subseteq Known'
    <3>1. CASE q = p
      <4>1. \A r \in Procs : pc[r] \notin Waiting
        BY <2>3, <3>1, StoreAssumption DEF IInv, MutexInv, Inside, Waiting, Scheduling, Procs
      <4>2. T \subseteq Known
        BY <2>1, <4>1 DEF Covered
      <4> QED  BY <1>2, <2>3, <3>1, <4>2
    <3>2. CASE q # p
      <4>1. pc[q] = "delKeys" /\ newIdx'[q] = newIdx[q]
        BY <2>3, <3>2 DEF Others
      <4>2. newIdx[q] = Minus(keys[q] \ batch[q])
        BY <4>1 DEF IInv, BuildInv
      <4>3. newIdx[q] \in Snapshot
        BY DEF IInv, TypeInv, StoreTypeOK
      <4>4. /\ \A k \in Keys : newIdx[q][k] # NoEntry => newIdx[q][k] \in DOMAIN entry
            /\ TimedIn(entry, newIdx[q]) \subseteq T
        BY <1>1, <4>2 DEF Minus, TimedIn
      <4>5. TimedIn(entry', newIdx[q]) = TimedIn(entry, newIdx[q])
        BY <4>3, <4>4, SameTimed
      <4>6. TimedIn(entry, newIdx[q]) \subseteq Known
        BY <2>1, <4>1 DEF Covered
      <4> QED  BY <4>1, <4>4, <4>5, <4>6
    <3> QED  BY <3>1, <3>2
  <2>4. ASSUME NEW q \in Procs, pc'[q] \in Scheduling PROVE T \subseteq keys'[q] \cup Known'
    <3>1. pc[q] \in Scheduling /\ keys'[q] = keys[q]
      BY <2>4 DEF Others
    <3>2. T \subseteq keys[q] \cup Known
      BY <2>1, <3>1 DEF Covered
    <3> QED  BY <3>1, <3>2
  <2> QED  BY <1>2, <2>2, <2>3, <2>4 DEF Covered
<1> QED  BY <1>3, <1>4 DEF CoverInv

\* Cancel forgets its key and no other (gc.go:57-60).
LEMMA CancelForgets ==
  ASSUME TimersSound, NEW k \in Keys, Cancel(k)
  PROVE  Registered' = Registered \ {k}
<1>1. /\ nearIndex \in [Keys -> Nat \cup {Near!NoIndex}]
      /\ keyIndex \in [Keys -> Wheel!Slots \cup {Wheel!NoSlot}]
  BY DEF TimersSound, Near!NearTypeOK, Wheel!WheelTypeOK
<1>2. /\ nearIndex' = [nearIndex EXCEPT ![k] = Near!NoIndex]
      /\ keyIndex' = [keyIndex EXCEPT ![k] = Wheel!NoSlot]
  BY DEF Cancel, Near!Remove, Wheel!Remove
<1> QED  BY <1>1, <1>2 DEF Registered

\* A deadline that is scheduled registers its key, in one structure or the other (gc.go:33-54).
LEMMA AddingRegisters ==
  ASSUME TimersSound, now \in Nat, NEW k \in Keys, NEW at \in Int,
         \/ Near!Add(k, at) /\ UNCHANGED wheel
         \/ Wheel!Add(k, at) /\ UNCHANGED nearQueue
  PROVE  Registered' = Registered \cup {k}
<1>1. /\ nearIndex \in [Keys -> Nat \cup {Near!NoIndex}]
      /\ keyIndex \in [Keys -> Wheel!Slots \cup {Wheel!NoSlot}]
  BY DEF TimersSound, Near!NearTypeOK, Wheel!WheelTypeOK
<1>2. CASE Near!Add(k, at) /\ UNCHANGED wheel
  <2>1. nearIndex'[k] # NQ!NoIndex /\ \A j \in Keys \ {k} : nearIndex'[j] = nearIndex[j]
    <3>1. NQ!NearTypeOK /\ NQ!Add(k, at)
      BY <1>2, SameQueue, SameAdd DEF TimersSound
    <3> QED  BY <3>1, NQ!AddRegisters, GcAssumption, StoreAssumption
  <2>2. keyIndex' = keyIndex /\ Near!NoIndex = NQ!NoIndex
    BY <1>2 DEF wheel, Near!NoIndex, NQ!NoIndex
  <2> QED  BY <2>1, <2>2 DEF Registered
<1>3. CASE Wheel!Add(k, at) /\ UNCHANGED nearQueue
  <2>1. PICK smear \in Wheel!Smears :
          keyIndex' = [keyIndex EXCEPT ![k] = Wheel!SlotOf(at + smear)]
    BY <1>3 DEF Wheel!Add
  <2>2. at + smear \in Int
    BY GcAssumption DEF Wheel!Smears
  <2>3. Wheel!SlotOf(at + smear) # Wheel!NoSlot
    <3>1. HW!SlotOf(at + smear) \in HW!Slots
      BY <2>2, SameWheel, HW!Placement, GcAssumption, StoreAssumption DEF TimersSound
    <3>2. HW!SlotOf(at + smear) = Wheel!SlotOf(at + smear)
      BY DEF HW!SlotOf, Wheel!SlotOf, HW!Ticks, Wheel!Ticks, HW!Ms, Wheel!Ms
    <3> QED  BY <3>1, <3>2, GcAssumption DEF HW!Slots, Wheel!NoSlot
  <2>4. nearIndex' = nearIndex
    BY <1>3 DEF nearQueue
  <2> QED  BY <1>1, <2>1, <2>3, <2>4 DEF Registered
<1> QED  BY <1>2, <1>3

\* What a tick takes out of the timers it hands to the collector (gc.go:71-75).
LEMMA TickHandsOver ==
  ASSUME NearTick \/ WheelTick
  PROVE  /\ Registered' \subseteq Registered
         /\ Registered \subseteq Registered' \cup expired'
<1>1. CASE NearTick
  <2>1. /\ nearIndex' = [k \in Keys |-> IF k \in Near!DrainedKeys THEN Near!NoIndex ELSE nearIndex[k]]
        /\ keyIndex' = keyIndex /\ expired' = Near!DrainedKeys
    BY <1>1 DEF NearTick, Near!DrainExpired, Collect, wheel
  <2> QED  BY <2>1 DEF Registered
<1>2. CASE WheelTick
  <2>1. /\ keyIndex' = [k \in Keys |-> IF k \in Wheel!Expired THEN Wheel!NoSlot ELSE keyIndex[k]]
        /\ nearIndex' = nearIndex /\ expired' = Wheel!Expired
    BY <1>2 DEF WheelTick, Wheel!Advance, Collect, nearQueue
  <2> QED  BY <2>1 DEF Registered
<1> QED  BY <1>1, <1>2

\* Calls, reads and the steps of Set that do not publish.
LEMMA ClientFollows ==
  ASSUME IInv, FollowInv, NEW p \in Clients, Call(p) \/ ClientSteps(p), ~SetPublish(p), ~SetSchedule(p)
  PROVE  FollowInv' /\ (CoverInv => CoverInv')
<1>1. p \in Procs /\ p # Flusher /\ Flusher \in Procs /\ Others(p)
  BY ClientOthers, StoreAssumption DEF Procs, IInv
<1>2. /\ pc \in [Procs -> Steps] /\ keys \in [Procs -> SUBSET Keys]
      /\ cur \in [Procs -> EntryIds \cup {NoEntry}] /\ entry \in Seq(Entry)
  BY DEF IInv, TypeInv, StoreTypeOK
<1>3. UNCHANGED <<timers, index, collector, expired>> /\ pending \subseteq pending' /\ health' = health
  BY DEF Call, SetCall, DeleteCall, GetCall, ClientSteps, SetLock, SetUsage, GetLoad, GetCheck,
     GetTake, GetEnqueue, ScheduleDelete, gcVars, dataVars
<1>4. /\ pc[p] \in Waiting => pc'[p] \in Waiting
      /\ pc'[p] \notin {"delKeys", "delUsage"}
      /\ pc'[p] = "idle" => keys'[p] = {}
      /\ pc'[p] \in Scheduling => pc[p] \in Scheduling /\ keys'[p] = keys[p] /\ cur'[p] = cur[p]
  <2>1. CASE Call(p)
    BY <1>1, <1>2, <2>1 DEF Call, SetCall, DeleteCall, GetCall, Begin, Goto, Waiting, Scheduling
  <2>2. CASE SetLock(p) \/ SetUsage(p)
    BY <1>1, <1>2, <2>2 DEF SetLock, SetUsage, Goto, Waiting, Scheduling
  <2>3. CASE GetLoad(p) \/ GetCheck(p)
    BY <1>1, <1>2, <2>3 DEF GetLoad, GetCheck, Return, Begin, Goto, Waiting, Scheduling
  <2>4. CASE GetTake(p) \/ GetEnqueue(p)
    BY <1>1, <1>2, <2>4 DEF GetTake, GetEnqueue, Return, Begin, Goto, Waiting, Scheduling
  <2> QED  BY <2>1, <2>2, <2>3, <2>4 DEF ClientSteps
<1>5. \A i \in DOMAIN entry : entry'[i] = entry[i]
  <2>1. CASE SetCall(p)
    BY <1>2, <2>1 DEF SetCall
  <2>2. CASE ~SetCall(p)
    BY <2>2 DEF Call, DeleteCall, GetCall, ClientSteps, SetLock, SetUsage, GetLoad, GetCheck,
       GetTake, GetEnqueue, dataVars
  <2> QED  BY <2>1, <2>2
<1>6. Known \subseteq Known'
  BY <1>1, <1>3 DEF Known, Registered, OnTheWay, Others, timers
<1>7. FollowInv'
  BY <1>1, <1>3, <1>4, QuietFollow
<1> QED  BY <1>1, <1>3, <1>4, <1>5, <1>6, <1>7, QuietCover

\* deleteBatch takes the lock, or adjusts usedBytes and leaves; a flush begins.
LEMMA DeleterFollows ==
  ASSUME IInv, FollowInv, NEW p \in Procs, DelLock(p) \/ DelUsage(p) \/ (p = Flusher /\ Flush)
  PROVE  FollowInv' /\ (CoverInv => CoverInv')
<1>1. Others(p) /\ Flusher \in Procs
  BY DeleterOthers DEF DeleteSteps, IInv, Procs
<1>2. /\ pc \in [Procs -> Steps] /\ keys \in [Procs -> SUBSET Keys]
      /\ newIdx \in [Procs -> Snapshot]
  BY DEF IInv, TypeInv, StoreTypeOK
<1>3. UNCHANGED <<timers, index, collector, expired>> /\ health' = health /\ entry' = entry
  BY DEF DelLock, DelUsage, Flush, gcVars, dataVars
<1>4. /\ pc[p] \in Waiting => pc'[p] \in Waiting
      /\ pc'[p] \notin Scheduling \cup {"delUsage"}
      /\ pc'[p] = "idle" => keys'[p] = {}
      /\ pc'[p] = "delKeys" => writeMu = Nobody /\ newIdx'[p] = index
  <2>1. CASE DelLock(p)
    BY <1>2, <2>1 DEF DelLock, Lock, Goto, Waiting, Scheduling
  <2>2. CASE DelUsage(p)
    BY <1>2, <2>2 DEF DelUsage, Return, Begin, Goto, Waiting, Scheduling
  <2>3. CASE p = Flusher /\ Flush
    BY <1>2, <2>3 DEF Flush, Begin, Goto, opVars, Waiting, Scheduling, FollowInv
  <2> QED  BY <2>1, <2>2, <2>3
<1>5. FollowInv'
  BY <1>1, <1>3, <1>4, QuietFollow
<1>6. ASSUME CoverInv PROVE TimedIn(entry, index) \cap Known \subseteq Known'
  <2>0. Registered' = Registered
    BY <1>3 DEF Registered, timers
  <2>1. CASE DelLock(p)
    <3>1. pending' = pending /\ keys' = keys
      BY <2>1 DEF DelLock, gcVars
    <3> QED  BY <1>3, <2>0, <3>1 DEF Known, OnTheWay
  <2>2. CASE DelUsage(p)
    <3>1. pending' = pending /\ pc[p] = "delUsage" /\ keys' = [keys EXCEPT ![p] = {}]
      BY <2>2 DEF DelUsage, gcVars, Return, Begin
    <3>2. \A k \in keys[p] : index[k] = NoEntry
      BY <1>6, <3>1 DEF CoverInv
    <3> QED  BY <1>2, <1>1, <1>3, <2>0, <3>1, <3>2 DEF Known, OnTheWay, TimedIn
  <2>3. CASE p = Flusher /\ Flush
    <3>1. keys[Flusher] = {} /\ pc[Flusher] = "idle"
      BY <1>1, <2>3 DEF Flush, FollowInv
    <3>2. pending \subseteq pending' \cup keys'[Flusher]
      BY <1>1, <1>2, <2>3 DEF Flush, Begin
    <3> QED  BY <1>3, <2>0, <3>1, <3>2 DEF Known, OnTheWay
  <2> QED  BY <2>1, <2>2, <2>3
<1> QED  BY <1>1, <1>3, <1>4, <1>5, <1>6, QuietCover

\* Steps of the one goroutine inside a critical section.
LEMMA InsideFollows ==
  ASSUME IInv, FollowInv, NEW p \in Procs, pc[p] \in Inside, Others(p),
         Registered' \subseteq Stored',
         pc'[p] = "idle" => keys'[p] = {},
         pc'[p] = "delKeys" => Registered' \subseteq StoredIn(newIdx'[p]),
         pc'[p] \in Scheduling => \A k \in keys'[p] : index'[k] = cur'[p]
  PROVE  FollowInv'
<1>1. ASSUME NEW q \in Procs, q # p
      PROVE  pc'[q] \notin Inside /\ (pc'[q] = "idle" => keys'[q] = {})
  BY <1>1, OneInside DEF Others, FollowInv
<1>2. ASSUME NEW q \in Procs
      PROVE  /\ pc'[q] = "idle" => keys'[q] = {}
             /\ pc'[q] = "delKeys" => Registered' \subseteq StoredIn(newIdx'[q])
             /\ pc'[q] \in Scheduling => \A k \in keys'[q] : index'[k] = cur'[q]
  BY <1>1 DEF Inside, Scheduling
<1> QED  BY <1>2 DEF FollowInv, StoredIn

LEMMA InsideCovers ==
  ASSUME IInv, CoverInv, NEW p \in Procs, pc[p] \in Inside, Others(p),
         UNCHANGED <<collector, expired>>,
         pc'[p] = "delUsage" => \A k \in keys'[p] : index'[k] = NoEntry,
         health' = "ok" =>
           /\ pc'[p] \notin Waiting => TimedIn(entry', index') \subseteq Known'
           /\ pc'[p] = "delKeys" => TimedIn(entry', newIdx'[p]) \subseteq Known'
           /\ pc'[p] \in Scheduling => TimedIn(entry', index') \subseteq keys'[p] \cup Known'
  PROVE  CoverInv'
<1>1. ASSUME NEW q \in Procs, q # p PROVE pc'[q] \notin Inside
  BY <1>1, OneInside DEF Others
<1>2. /\ collector' # "enqueue" => expired' = {}
      /\ \A q \in Procs : pc'[q] = "delUsage" => \A k \in keys'[q] : index'[k] = NoEntry
  BY <1>1 DEF CoverInv, Inside
<1>3. health' = "ok" => Covered'
  BY <1>1 DEF Covered, Inside, Waiting, Scheduling
<1> QED  BY <1>2, <1>3 DEF CoverInv

\* Set publishes its entry (in_memory.go:119).
LEMMA SetPublishFollows ==
  ASSUME IInv, FollowInv, NEW p \in Clients, SetPublish(p)
  PROVE  FollowInv' /\ (CoverInv => CoverInv')
<1>1. p \in Procs /\ pc[p] = "setPublish" /\ pc[p] \in Inside /\ Others(p)
  BY ClientOthers DEF Procs, SetPublish, Inside, ClientSteps, IInv
<1>2. PICK k \in Keys : keys[p] = {k} /\ index' = [index EXCEPT ![k] = cur[p]]
  BY <1>1 DEF IInv, ArgInv, SetSteps, SetPublish, BuildInv
<1>3. /\ pc'[p] = "setUsage"
      /\ UNCHANGED <<timers, collector, expired, pending, entry, keys, cur, health>>
  BY <1>1 DEF SetPublish, Goto, gcVars, IInv, TypeInv, StoreTypeOK
<1>4. index \in Snapshot /\ cur[p] # NoEntry
  BY <1>1, StoreAssumption DEF IInv, TypeInv, StoreTypeOK, ArgInv, SetSteps, EntryIds
<1>5. Registered' = Registered /\ Known' = Known
  BY <1>3 DEF Registered, Known, OnTheWay, timers
<1>6. Stored \subseteq Stored' /\ TimedIn(entry', index') \subseteq TimedIn(entry, index) \cup {k}
  BY <1>2, <1>3, <1>4 DEF Stored, TimedIn, Snapshot
<1>7. \A j \in keys'[p] : index'[j] = cur'[p]
  BY <1>2, <1>3, <1>4 DEF Snapshot
<1>8. FollowInv'
  <2>1. Registered' \subseteq Stored'
    BY <1>5, <1>6 DEF FollowInv
  <2> QED  BY <1>1, <1>3, <1>7, <2>1, InsideFollows
<1>9. ASSUME CoverInv PROVE CoverInv'
  <2>1. \A q \in Procs : pc[q] \notin Waiting
    BY <1>1, OneInside DEF Inside, Waiting, Scheduling
  <2>2. health' = "ok" => TimedIn(entry', index') \subseteq keys'[p] \cup Known'
    BY <1>2, <1>3, <1>5, <1>6, <1>9, <2>1 DEF CoverInv, Covered
  <2>3. pc'[p] \in Waiting
    BY <1>3 DEF Waiting, Scheduling
  <2> QED  BY <1>1, <1>3, <1>9, <2>2, <2>3, InsideCovers
<1> QED  BY <1>8, <1>9

\* Set schedules its entry, or withdraws the timers of the one it replaced (in_memory.go:122).
LEMMA SetScheduleFollows ==
  ASSUME IInv, TimersInv, FollowInv, NEW p \in Clients, SetSchedule(p)
  PROVE  FollowInv' /\ (CoverInv => CoverInv')
<1>1. /\ p \in Procs /\ p # Flusher /\ Flusher \in Procs
      /\ pc[p] = "setSchedule" /\ pc[p] \in Inside /\ pc[p] \in Scheduling /\ Others(p)
  BY ClientOthers, StoreAssumption DEF Procs, SetSchedule, Inside, Scheduling, ClientSteps, IInv
<1>2. PICK k \in Keys : keys[p] = {k}
  BY <1>1 DEF IInv, ArgInv, SetSteps
<1>3. /\ Return(p)
      /\ UNCHANGED <<collector, expired, pending, index, entry>>
      /\ \/ Schedule(k, entry[cur[p]].ttl, entry[cur[p]].createdAt)
         \/ UNCHANGED timers /\ health' # "ok"
  BY <1>2 DEF SetSchedule, Panic, dataVars
<1>4. pc'[p] = "idle" /\ keys'[p] = {}
  BY <1>1, <1>3 DEF Return, Begin, Goto, IInv, TypeInv, StoreTypeOK
<1>5. index[k] = cur[p] /\ cur[p] # NoEntry /\ entry[cur[p]] \in Entry
  <2>1. cur[p] \in DOMAIN entry /\ cur[p] # NoEntry
    BY <1>1, StoreAssumption DEF IInv, TypeInv, StoreTypeOK, ArgInv, SetSteps, EntryIds
  <2> QED  BY <1>1, <1>2, <2>1 DEF IInv, TypeInv, StoreTypeOK, FollowInv
<1>6. OnTheWay' = OnTheWay
  BY <1>1, <1>3 DEF OnTheWay, Others
<1> DEFINE at == ExpireAt(entry[cur[p]].ttl, entry[cur[p]].createdAt)
<1>7. at \in Int /\ entry[cur[p]].ttl \in Nat
  <2>1. entry[cur[p]].ttl \in Nat /\ entry[cur[p]].createdAt \in Nat
    BY <1>5, StoreAssumption DEF Entry
  <2> QED  BY <2>1 DEF ExpireAt
<1>8. \/ Registered' = Registered /\ health' # "ok"
      \/ Registered' = Registered \ {k} /\ entry[cur[p]].ttl = 0
      \/ Registered' = Registered \cup {k}
  <2>1. CASE UNCHANGED timers /\ health' # "ok"
    BY <2>1 DEF Registered, timers
  <2>2. CASE Schedule(k, entry[cur[p]].ttl, entry[cur[p]].createdAt)
    <3>1. \/ Cancel(k) /\ entry[cur[p]].ttl = 0
          \/ Near!Add(k, at) /\ UNCHANGED wheel
          \/ Wheel!Add(k, at) /\ UNCHANGED nearQueue
      BY <1>7, <2>2 DEF Schedule
    <3>2. now \in Nat /\ TimersSound
      BY DEF IInv, TypeInv, TimersInv
    <3> HIDE DEF at
    <3> QED  BY <1>7, <3>1, <3>2, CancelForgets, AddingRegisters
  <2> QED  BY <1>3, <2>1, <2>2
<1>9. FollowInv'
  <2>1. Stored' = Stored /\ k \in Stored
    BY <1>3, <1>5 DEF Stored
  <2>2. Registered' \subseteq Stored'
    BY <1>8, <2>1 DEF FollowInv
  <2> QED  BY <1>1, <1>4, <2>2, InsideFollows DEF Scheduling
<1>10. ASSUME CoverInv PROVE CoverInv'
  <2>1. ASSUME health' = "ok" PROVE TimedIn(entry', index') \subseteq Known'
    <3>1. health = "ok"
      BY <2>1 DEF SetSchedule, Panic
    <3>2. TimedIn(entry, index) \subseteq {k} \cup Known
      BY <1>1, <1>2, <1>10, <3>1 DEF CoverInv, Covered
    <3>3. entry[cur[p]].ttl = 0 => k \notin TimedIn(entry, index)
      BY <1>5 DEF TimedIn
    <3>4. TimedIn(entry', index') = TimedIn(entry, index)
      BY <1>3
    <3> QED  BY <1>6, <1>8, <2>1, <3>2, <3>3, <3>4 DEF Known
  <2> QED  BY <1>1, <1>3, <1>4, <1>10, <2>1, InsideCovers DEF Scheduling
<1> QED  BY <1>9, <1>10

\* One turn of the loop of deleteBatch (in_memory.go:153-164).
LEMMA DelKeyFollows ==
  ASSUME IInv, TimersInv, FollowInv, NEW p \in Procs, DelKey(p)
  PROVE  FollowInv' /\ (CoverInv => CoverInv')
<1>1. pc[p] = "delKeys" /\ pc[p] \in Inside /\ Others(p)
  BY DeleterOthers DEF DelKey, DeleteSteps, Inside, IInv
<1>2. PICK k \in batch[p] : DelMissing(p, k) \/ DelFound(p, k)
  BY DEF DelKey
<1>3. k \in Keys /\ newIdx[p] \in Snapshot /\ index \in Snapshot
  BY <1>1, NextIndex DEF IInv, TypeInv, StoreTypeOK
<1>4. UNCHANGED <<pending, collector, expired, index, entry>> /\ Stored' = Stored
  BY DEF DelKey, Stored
<1>5. Registered \subseteq Stored /\ Registered \subseteq StoredIn(newIdx[p])
  BY <1>1 DEF FollowInv
<1>6. CASE Panic(p)
  <2>1. pc'[p] = "idle" /\ keys'[p] = {} /\ health' # "ok" /\ Registered' = Registered
    BY <1>6 DEF Panic, Return, Begin, Goto, IInv, TypeInv, StoreTypeOK, Registered, timers
  <2>2. FollowInv'
    BY <1>1, <1>4, <1>5, <2>1, InsideFollows DEF Scheduling
  <2> QED  BY <1>1, <1>4, <2>1, <2>2, InsideCovers
<1>7. CASE ~Panic(p)
  <2>1. /\ UNCHANGED <<pc, keys, cur, health>>
        /\ \/ newIdx' = newIdx /\ UNCHANGED timers
           \/ newIdx' = [newIdx EXCEPT ![p][k] = NoEntry] /\ Cancel(k)
    BY <1>2, <1>7 DEF DelMissing, DelFound, opVars
  <2>2. \/ newIdx'[p] = newIdx[p] /\ Registered' = Registered
        \/ newIdx'[p] = [newIdx[p] EXCEPT ![k] = NoEntry] /\ Registered' = Registered \ {k}
    <3>1. CASE newIdx' = newIdx /\ UNCHANGED timers
      BY <3>1 DEF Registered, timers
    <3>2. CASE newIdx' = [newIdx EXCEPT ![p][k] = NoEntry] /\ Cancel(k)
      <4>1. Registered' = Registered \ {k}
        BY <1>3, <3>2, CancelForgets DEF TimersInv
      <4>2. newIdx'[p] = [newIdx[p] EXCEPT ![k] = NoEntry]
        BY <3>2 DEF IInv, TypeInv, StoreTypeOK
      <4> QED  BY <4>1, <4>2
    <3> QED  BY <2>1, <3>1, <3>2
  <2>3. Registered' \subseteq StoredIn(newIdx'[p])
    BY <1>3, <1>5, <2>2 DEF StoredIn, Snapshot
  <2>4. FollowInv'
    BY <1>1, <1>4, <1>5, <2>1, <2>2, <2>3, InsideFollows DEF Scheduling
  <2>5. ASSUME CoverInv PROVE CoverInv'
    <3>1. OnTheWay' = OnTheWay
      BY <1>4, <2>1 DEF OnTheWay
    <3>2. ASSUME health' = "ok" PROVE TimedIn(entry', newIdx'[p]) \subseteq Known'
      <4>1. TimedIn(entry, newIdx[p]) \subseteq Known
        BY <1>1, <2>1, <2>5, <3>2 DEF CoverInv, Covered
      <4>2. CASE newIdx'[p] = newIdx[p] /\ Registered' = Registered
        BY <1>4, <3>1, <4>1, <4>2 DEF Known
      <4>3. CASE newIdx'[p] = [newIdx[p] EXCEPT ![k] = NoEntry] /\ Registered' = Registered \ {k}
        <5>1. TimedIn(entry', newIdx'[p]) \subseteq TimedIn(entry, newIdx[p]) \ {k}
          BY <1>3, <1>4, <4>3 DEF TimedIn, Snapshot
        <5> QED  BY <3>1, <4>1, <4>3, <5>1 DEF Known
      <4> QED  BY <2>2, <4>2, <4>3
    <3> QED  BY <1>1, <1>4, <2>1, <2>5, <3>2, InsideCovers DEF Scheduling, Waiting
  <2> QED  BY <2>4, <2>5
<1> QED  BY <1>6, <1>7

\* deleteBatch publishes (in_memory.go:168-169).
LEMMA DelPublishFollows ==
  ASSUME IInv, FollowInv, NEW p \in Procs, DelPublish(p)
  PROVE  FollowInv' /\ (0 \notin Sizes /\ CoverInv => CoverInv')
<1>1. /\ pc[p] = "delKeys" /\ batch[p] = {} /\ pc[p] \in Inside /\ Others(p)
      /\ newIdx[p] \in Snapshot /\ index \in Snapshot
  BY DeleterOthers DEF DelPublish, DeleteSteps, Inside, IInv, TypeInv, StoreTypeOK
<1>2. /\ pc'[p] = "delUsage"
      /\ UNCHANGED <<timers, collector, expired, pending, entry, keys, health>>
      /\ index' = IF delta[p] # 0 THEN newIdx[p] ELSE index
  BY DEF DelPublish, Goto, gcVars, IInv, TypeInv, StoreTypeOK
<1>3. Registered' = Registered /\ Known' = Known
  BY <1>2 DEF Registered, Known, OnTheWay, timers
<1>4. Registered \subseteq Stored /\ Registered \subseteq StoredIn(newIdx[p])
  BY <1>1 DEF FollowInv
<1>5. Registered' \subseteq Stored'
  BY <1>2, <1>3, <1>4 DEF Stored, StoredIn
<1>6. FollowInv'
  BY <1>1, <1>2, <1>5, InsideFollows DEF Scheduling
<1>7. ASSUME 0 \notin Sizes, CoverInv PROVE CoverInv'
  <2>1. index' = newIdx[p]
    BY <1>1, <1>2, <1>7 DEF IInv, BuildInv
  <2>2. \A k \in keys'[p] : index'[k] = NoEntry
    BY <1>2, <1>7, PublishDeletes
  <2>3. health' = "ok" => TimedIn(entry', index') \subseteq Known'
    BY <1>1, <1>2, <1>3, <1>7, <2>1 DEF CoverInv, Covered
  <2> QED  BY <1>1, <1>2, <1>7, <2>2, <2>3, InsideCovers DEF Scheduling
<1> QED  BY <1>6, <1>7

\* Clocks, Start, Stop and the collector's goroutine.
LEMMA BackgroundFollows ==
  ASSUME IInv, FollowInv,
         StartGC \/ StopGC \/ Clock \/ CacheRefresh \/ CollectorStep \/ UNCHANGED vars
  PROVE  FollowInv' /\ (CoverInv => CoverInv')
<1>1. UNCHANGED <<index, entry, pc, keys, cur, newIdx, health>>
  BY DEF StartGC, StopGC, Clock, CacheRefresh, CollectorStep, vars, storeVars, dataVars, opVars, localVars
<1>2. Stored' = Stored
  BY <1>1 DEF Stored
<1>3. /\ Registered' \subseteq Registered
      /\ CoverInv => Known \subseteq Known' /\ (collector' # "enqueue" => expired' = {})
  <2>1. CASE NearTick \/ WheelTick
    <3>1. /\ collector = "select" /\ pending' = pending
          /\ collector' # "enqueue" => expired' = {}
      BY <2>1 DEF NearTick, WheelTick, Collect
    <3>2. CoverInv => expired = {}
      BY <3>1 DEF CoverInv
    <3> QED  BY <1>1, <2>1, <3>1, <3>2, TickHandsOver DEF Known, OnTheWay
  <2>2. CASE ~(NearTick \/ WheelTick)
    <3>1. UNCHANGED timers
      BY <2>2 DEF StartGC, Start, StopGC, Stop, Clock, CacheRefresh, CollectorStep, EnqueueBatch,
         CollectorExit, vars, gcVars
    <3>2. Registered' = Registered
      BY <3>1 DEF Registered, timers
    <3>3. pending \cup expired \subseteq pending' \cup expired'
      BY <2>2 DEF StartGC, Start, StopGC, Stop, Clock, CacheRefresh, CollectorStep, EnqueueBatch,
         CollectorExit, vars, gcVars
    <3>4. CoverInv => (collector' # "enqueue" => expired' = {})
      BY <2>2 DEF StartGC, Start, StopGC, Stop, Clock, CacheRefresh, CollectorStep, EnqueueBatch,
         CollectorExit, vars, gcVars, CoverInv
    <3> QED  BY <1>1, <3>2, <3>3, <3>4 DEF Known, OnTheWay
  <2> QED  BY <2>1, <2>2
<1>4. FollowInv'
  BY <1>1, <1>2, <1>3 DEF FollowInv, StoredIn
<1>5. ASSUME CoverInv PROVE CoverInv'
  <2>1. health' = "ok" => Covered'
    BY <1>1, <1>3, <1>5 DEF CoverInv, Covered, TimedIn
  <2> QED  BY <1>1, <1>3, <1>5, <2>1 DEF CoverInv
<1> QED  BY <1>4, <1>5

LEMMA NextFollows ==
  ASSUME IInv, TimersInv, FollowInv, [Next]_vars
  PROVE  FollowInv' /\ (0 \notin Sizes /\ CoverInv => CoverInv')
<1>1. ASSUME NEW p \in Clients, Call(p) \/ ClientSteps(p)
      PROVE  FollowInv' /\ (CoverInv => CoverInv')
  BY <1>1, ClientFollows, SetPublishFollows, SetScheduleFollows
<1>2. ASSUME NEW p \in Procs, DeleteSteps(p)
      PROVE  FollowInv' /\ (0 \notin Sizes /\ CoverInv => CoverInv')
  BY <1>2, DeleterFollows, DelKeyFollows, DelPublishFollows DEF DeleteSteps
<1>3. ASSUME Flush PROVE FollowInv' /\ (CoverInv => CoverInv')
  <2>1. Flusher \in Procs
    BY DEF Procs
  <2> QED  BY <1>3, <2>1, DeleterFollows
<1> QED  BY <1>1, <1>2, <1>3, BackgroundFollows DEF Next

LEMMA InitFollows == Init => FollowInv /\ CoverInv
<1> SUFFICES ASSUME Init PROVE FollowInv /\ CoverInv
  OBVIOUS
<1>1. Registered = {} /\ TimedIn(entry, index) = {}
  BY DEF Init, GcInit, Near!NearInit, Wheel!WheelInit, Registered, TimedIn, EmptyIndex
<1>2. \A p \in Procs : pc[p] = "idle" /\ keys[p] = {}
  BY DEF Init
<1>3. expired = {}
  BY DEF Init, GcInit
<1> QED  BY <1>1, <1>2, <1>3 DEF FollowInv, CoverInv, Covered, Scheduling

(***************************************************************************)
(* No timer outlives its key: what the wheel's index or the near queue's   *)
(* map knows is stored, at every moment, with any number of keys, stale    *)
(* heap positions and recovered panics (in_memory.go:122,163).             *)
(***************************************************************************)
THEOREM NoTimerWithoutKey == Spec => [](Registered \subseteq Stored)
<1>1. IInv /\ TimersInv /\ FollowInv /\ [Next]_vars => FollowInv'
  BY NextFollows
<1>2. IInv /\ TimersInv /\ [Next]_vars => TimersInv'
  BY NextTimersInv
<1>3. FollowInv => Registered \subseteq Stored
  BY DEF FollowInv
<1> QED
  BY <1>1, <1>2, <1>3, InitFollows, InitTimers, StoreInvariant, PTL DEF Spec

(***************************************************************************)
(* No key with a TTL is forgotten: until the first panic, and whenever no  *)
(* writer is inside, it is registered with a timer or on its way to the    *)
(* coalescer, so the collector that drained its timer, the flush that is   *)
(* about to delete it and a Set that replaces it meanwhile agree           *)
(* (gc.go:71-75, delete_coalescer.go:65-77).                               *)
(***************************************************************************)
THEOREM NoKeyWithoutTimer ==
  ASSUME 0 \notin Sizes
  PROVE  Spec => [](writeMu = Nobody /\ health = "ok" => TimedIn(entry, index) \subseteq Known)
<1>1. IInv /\ TimersInv /\ FollowInv /\ CoverInv /\ [Next]_vars => FollowInv' /\ CoverInv'
  BY NextFollows
<1>2. IInv /\ TimersInv /\ [Next]_vars => TimersInv'
  BY NextTimersInv
<1>3. IInv /\ CoverInv => (writeMu = Nobody /\ health = "ok" => TimedIn(entry, index) \subseteq Known)
  <2> SUFFICES ASSUME IInv, CoverInv, writeMu = Nobody, health = "ok"
               PROVE  TimedIn(entry, index) \subseteq Known
    OBVIOUS
  <2>1. \A p \in Procs : pc[p] \notin Waiting
    BY StoreAssumption DEF IInv, MutexInv, Inside, Waiting, Scheduling, Procs
  <2> QED  BY <2>1 DEF CoverInv, Covered
<1> QED
  BY <1>1, <1>2, <1>3, InitFollows, InitTimers, StoreInvariant, PTL DEF Spec

-----------------------------------------------------------------------------
(***************************************************************************)
(* The near queue names its keys twice, in the heap and in the map of      *)
(* recorded positions.  A removal at a position that has gone stale takes  *)
(* another key's entry out of the heap and its own key out of the map      *)
(* (near_queue.go:80-87); until then the two name the same keys.           *)
(***************************************************************************)
MapMatchesHeap ==
  {nearHeap[i].key : i \in DOMAIN nearHeap} = {k \in Keys : nearIndex[k] # Near!NoIndex}

(***************************************************************************)
(* With any number of keys, clients and TTLs, timers and store match       *)
(* whenever no writer is inside, in every state before the first panic in  *)
(* which the near queue's heap and map name the same keys: a key has a     *)
(* timer only while it is stored, and one or a pending delete if it has a  *)
(* TTL (in_memory.go:122,163; gc.go:33-80).  Cancel, schedule, the         *)
(* collector's two ticks and the coalescer never break the match           *)
(* themselves: its only way to fail before a panic is a stale position.    *)
(***************************************************************************)
THEOREM TimersMatchUnlessStale ==
  ASSUME 0 \notin Sizes
  PROVE  Spec => [](health = "ok" /\ MapMatchesHeap => TimersMatchStore)
<1>1. IInv /\ TimersInv /\ FollowInv /\ CoverInv /\ [Next]_vars => FollowInv' /\ CoverInv'
  BY NextFollows
<1>2. IInv /\ TimersInv /\ [Next]_vars => TimersInv'
  BY NextTimersInv
<1>3. IInv /\ FollowInv /\ CoverInv => (health = "ok" /\ MapMatchesHeap => TimersMatchStore)
  <2> SUFFICES ASSUME IInv, FollowInv, CoverInv, health = "ok", MapMatchesHeap, writeMu = Nobody
               PROVE  /\ Timed \subseteq Stored
                      /\ \A j \in Stored : entry[index[j]].ttl > 0 => j \in Timed \cup OnTheWay
    BY DEF TimersMatchStore
  <2>1. Timed = Registered
    BY DEF Timed, Registered, MapMatchesHeap
  <2>2. \A p \in Procs : pc[p] \notin Waiting
    BY StoreAssumption DEF IInv, MutexInv, Inside, Waiting, Scheduling, Procs
  <2>3. TimedIn(entry, index) \subseteq Known
    BY <2>2 DEF CoverInv, Covered
  <2> QED  BY <2>1, <2>3 DEF FollowInv, Known, TimedIn, Stored
<1> QED
  BY <1>1, <1>2, <1>3, InitFollows, InitTimers, StoreInvariant, PTL DEF Spec
=============================================================================
