# Bukt: a verification project

Bukt (`src/`) is an in-memory key-value store in Go: named buckets, each split
into shards; a shard is a copy-on-write index with its own expiry collector;
requests arrive over HTTP and a binary TCP protocol. This directory holds TLA+
models of its core, TLC runs on small instances, and TLAPS proofs of the
properties that matter most.

## 1. Inventory

| Component | Source (`src/internal/`) | State | Operations |
|---|---|---|---|
| Timing wheel | `gc/hashed_wheel.go` | slots of entries (deadline, rounds), position, key -> slot | Add, Remove, Advance |
| Near queue | `gc/near_queue.go` | binary heap of deadlines, key -> heap position | Add, Remove, DrainExpired |
| Collector | `gc/gc.go` | the two timer structures, stop channel, one goroutine | Schedule, Cancel, Start, Stop, two tickers |
| Delete coalescer | `gc/delete_coalescer.go` | set of pending keys, one goroutine | Enqueue, EnqueueBatch, flush, Start, Stop |
| Shard | `engine/in_memory.go`, `engine/types.go` | atomic pointer to an immutable index, writeMu, keyCount, usedBytes, per-entry access count | Set, Get, Delete, deleteBatch; Exists, Keys, Count, Usage |
| Shard container | `engine/sharding.go` | array of shards | routing by hash; Keys, Count, Usage over all shards; StartGC, StopGC, Close |
| Bucket manager | `bucket/bucket.go` | atomic pointer to the bucket index, writeMu | CreateBucket, DeleteBucket, GetStore, GetBucket, ListBuckets, Shutdown |
| Services | `service/*.go` | none | stamp entries, resolve buckets, look a new bucket up again |
| Cached clock | `util/time_cache.go` | a timestamp refreshed by a ticker | CachedNow |
| Tokens | `auth/*.go` | secret key | GenerateToken, ValidateToken |
| HTTP transport | `transport/http/` | none | seven routes: token check, body check, service call, status; recovery of panics |
| TCP codec | `transport/tcp/protocol.go`, `codec.go` | none | frames and payloads to bytes and back |
| TCP connection | `transport/tcp/server.go`, `handler.go` | buffer from a shared pool | read, cut a frame, execute, answer |
| TCP server | `transport/tcp/server.go`, `cmd/kvstore/main.go` | listener, wait group, stop flag | Start, accept, Stop with a deadline |
| Rest | `config`, `logger`, `util`, `errs` | configuration | wiring |

How they interact. A request goroutine checks a token, asks the bucket manager
for a container (one atomic load), routes the key to a shard and runs Set, Get or
Delete there. Writers of a shard hold its `writeMu` and call the collector
(Schedule, Cancel) while holding it. Readers take no lock: they load the index
once, and hand expired or read single-read keys to the coalescer. The collector's
goroutine drains the timers and feeds the coalescer, whose goroutine calls back
into the shard's deleteBatch. A panic below an HTTP handler becomes a 500; below
a TCP connection or the coalescer it ends the process. A TCP connection keeps what
it has read in a slice from a pool; the keys it decodes are strings that lie in
that slice, and the store keeps them. On a signal `main` stops the TCP server and
waits for its goroutines, ten seconds at most.

What is hard: readers on old snapshots racing with writers, with each other and
with the coalescer; counters that change before and after the index is published;
deletes chosen by key and executed later; a position map that the heap's swaps make
stale; two clocks (wall and cached) and two units of time; goroutines that must be
started and must stop; walks over shards that change meanwhile; bucket lookups
that are stale when used; frames cut anywhere by reads; memory shared by the store,
the pool and the connections; connections that arrive while the server stops.
`PROJECT.json` lists each hazard at its line.

What makes the parts correct:

- wheel: index and slots describe the same timers; lateness is bounded;
- near queue: heap order; a drain takes exactly what is due;
- shard: an atomic map; exact counters; a single-read value is read once; timers
  follow the stored keys; a flush removes only dead entries; expired entries go
  away; calls return; stop ends the goroutines;
- segments: the search finds exactly the stored keys, each with its entry;
- container: bounds on what Count, Usage and Keys report while shards change;
- bucket manager: an atomic registry; no leaked collector, isolation of buckets; no
  server error without its cause, nor with the registry touched or its lock held;
- tokens: valid for their own bucket only;
- connections: frames executed whole, in order and once; answers that name their
  request; every frame answered; buffers with one owner; stored keys that do not
  change;
- server: Stop waits for every connection it can, and ends at its deadline.

## 2. Modules

| Module | Models | Notes |
|---|---|---|
| `HashedWheel` | timing wheel | operators and actions; every operation holds `hw.mu`, so it is one step |
| `WheelClock` | wheel + wall clock + ticker + callers | closed system for TLC and for the proof |
| `NearQueue` | near queue with `container/heap` (external) | sifting as recursive functions; `index` is written once per push, as in the code |
| `NearClock` | near queue + both clocks + ticker + callers | closed system |
| `GarbageCollector` | collector and pending set, composing `NearQueue` and `HashedWheel` by INSTANCE | actions for both tickers, EnqueueBatch, exit |
| `CowStore` | one shard with its collector, its clients and the coalescer's goroutine | the core; EXTENDS `GarbageCollector` |
| `KVStore` | abstract specification: an atomic map | `CowStore` refines it |
| `Pairs` | sizes of pairs | shared by the next two |
| `ShardContainer` | routing, the counters and indexes of all shards, and the walks over them | a writer per shard, cut at every move of a counter or of the published index |
| `SegmentIndex` | the sorted segments of one shard, with `slices.BinarySearch` (external) | a writer publishes its copies at once, so Set and deleteBatch are one step each |
| `Answers` | HTTP handlers and routes, TCP status codes, error to status | constants only, shared by the next two groups |
| `BucketManager` | bucket registry, services, token check, every HTTP route and TCP command | containers are numbered; data is reduced to who wrote it |
| `Registry` | abstract specification: a map from names to containers with instantaneous create, drop and find | `BucketManager` refines it |
| `Token` | tokens as bytes | operators; `MCBucketManager` checks them |
| `Codec` | frames and payloads as cells | operators; `MCTcpServer` checks them |
| `TcpConn` | connection loop, handler, buffer pool | slices of numbered backing arrays; `append` in place or into a new array |
| `TcpServer` | Start, accept loop, Stop, exit of `main` | EXTENDS `TcpConn` |
| `MC*` | instances for TLC | keys, clients, symmetry |
| `Recursion` | no code: lemmas on induction and recursive functions | cited by `NearClockProofs`, `CowStoreProofs` and `ShardContainerProofs` |
| `WheelClockProofs`, `NearClockProofs` | theorems on the timer structures | section 5 |
| `CowStoreProofs` | theorems on `CowStore` | invariant, single reads, refinement of `KVStore`, counters, timers, deletes; uses the two above by INSTANCE |
| `ShardContainerProofs` | theorems on `ShardContainer` and `SegmentIndex` | |
| `BucketManagerProofs` | theorems on `BucketManager` | the refinement of `Registry` included |
| `TcpServerProofs` | theorems on `TcpServer`: wait group and buffers | |
| `TcpFrameProofs` | theorems on `TcpConn` inside `TcpServer`: frames, keys, answers, and on `Codec` | EXTENDS `TcpServerProofs` |

State of `CowStore`: `index` is `*s.ptr`, a function from keys to entries (the 64
sorted segments of the code represent that function); `entry` the allocated
entries; `taken` those whose AccessCount the compare-and-swap has moved off 0;
`keyCount`, `usedBytes`, `writeMu` the fields of the same name; `pc`, `keys`,
`cur`, `newIdx`, `batch`, `delta` the locals of every goroutine; `flusher` and
`collector` the life of the two background goroutines; `health` records whether a
panic happened. `delivered` is a history variable. Steps are cut at
every lock, atomic store, atomic add, compare-and-swap and call into the
collector. Set is SetCall (service), SetLock (lock, copy, count), SetPublish
(`ptr.Store`), SetUsage, SetSchedule (timer, unlock); deleteBatch is DelLock, one
DelKey per key, DelPublish, DelUsage; Get is GetLoad, GetCheck, GetTake,
GetEnqueue. SetSchedule and DelKey have a branch for the panic of the near queue.

Cancel is one step although it takes the locks of two structures one after the
other: only the holder of `writeMu` schedules or cancels, and a collector tick
between the two calls leaves the same timers and the same keys pending as a tick
before or after both.

A request of `BucketManager` is one HTTP route or TCP command. Its front (Auth, body,
Validate) is one step, because it reads only the request and the secret; the service
and the manager are cut at the lock, the atomic store, the stop of a collector and
each lookup. The answer is the status that the handler's switch in `Answers` makes of
the service's error; `failed` remembers who was last answered 500. CreateLock, SetApply
and ReadApply have a branch for a panic that Recovery answers (the allocation of a
container with a huge shard count; the near queue's stale positions, after a Set has
published its pair or before a Delete has): deferred unlocks run and nothing else does.
On a TCP goroutine the same panic ends the process, which is the end of the behaviour.

State of `ShardContainer`: per shard the published index (`stored`), the one its writer
started from (`old`) and its copy (`copy`), the two counters, and where the writer is.
Count adds `keyCount`, which moves before the index is published; Usage adds `usedBytes`,
which moves after it; Keys lists what is published. `lost` counts the keys a deleteBatch has
counted down and not published, because Cancel panicked or its delta was zero; `low` and
`high` are what each key weighed at least and at most while the walk was under way.
A writer's step forgets a walk that has returned, so results do not multiply the states.

State of `TcpConn`: `mem` holds the backing arrays, `buf` the slice of each connection,
`pool` the slices in `bufPool`, `stored` the store with the place of every key
(`at` the index's, `own` the entry's own copy of the string header); `wg` is `s.wg`.
`sent`, `handled`, `replies`, `why` are history. A connection is cut at Read, at the
execution of a frame and at the write of its answer; between them nobody else sees
its buffer. One cell stands for a fixed-width field or a character, so lengths and
offsets are those of the code up to scale. The store itself is the atomic map that
the refinement justifies; a Get may miss an entry that can expire or was read.
The store's panic and the invalid slice of a short frame are Panic, which ends the process.
Append doubles the capacity when it has to move: the runtime's growth is at least
enough for the data, and no property depends on how much is left over.

## 3. Runs

Every cfg names its bounds. Times are for two workers.

| Run | Checks | Instance | Result |
|---|---|---|---|
| `wheel` | TypeOK, Coherent, OverdueLessThanATurn | 2 keys, 2 slots of 8 ms, 2 ns per ms, more than two turns of clock | holds; 0.4 M states, 30 s |
| `near` | HeapOrdered, DrainExact | 3 keys, heap of up to 4, window 2 ms, lagging cached clock | holds; 98 k states, 20 s |
| `linear` | KeyCountExact, SingleReadOnce, DeleteDeletes, Linearizable | 2 keys, 2 clients, 2 Sets, no TTL, collector started | holds; 171 k states, 30 s |
| `timers` | TypeOK, UsedBytesExact, TimersMatchStore | 1 key, 1 client, TTL 0, 1 (near queue) and 2 (wheel), start and stop | holds; 2.2 M states, 75 s |
| `live` | EventuallyReaped, CallsReturn, StopEnds | 1 single-read key with a TTL, 1 client, start and stop, window 0 so that a lagging cached clock picks the wheel and a fresh one the near queue | holds; 27 k states, 150 s |
| `shards` | TypeOK, WalkBounds, SearchExact, ListExact | 3 keys of size 0 or 2 on 2 shards, two in one shard, any batch, panics; beside them one shard of 5 keys in 3 segments, four in one | holds; 1.8 M states, 165 s |
| `buckets` | TypeOK, NoLeakedCollector, DefaultServed, Isolated, AtomicRegistry, StopOnlyDropped, ServerErrorsExplained | 2 requests, default and 2 more names, another spelling and a bad one, 3 containers, panics | holds; 165 k states, 185 s |
| `tcp` | TypeOK, FramesInOrder, AnswersCorrelate, NeverOverflows, BuffersOwned, KeysStableIfAnswered, StopDrains, AllAnswered, ShutdownEnds | 2 connections, 2 frames of six kinds, reads of 5 cells or as much as there is up to 12 | holds; 393 k states, 120 s |
| `no_gc` | EventuallyReaped | the collector is not started | violated |
| `early_expiry` | FlushRemovesOnlyDead | a second is 2 ns, so the units differ | violated |
| `stale_position` | DeleteDeletes | 2 keys with near timers, no collector | violated |
| `tcp_keys` | StoredKeysStable | as `tcp`, with reads that take all there is | violated |

The bounds. Two writers and two keys are enough for every race on the shard:
each property speaks of one key, or of one writer against another. `linear` has no
timers, so that two clients fit; `timers` and `live` have one key, because two
keys in the near queue reach the stale positions, which `stale_position` shows on
their own. The clock is bounded by `MaxTime`; a Set
whose expiry the clock would never pass is not issued, so an entry with a TTL can
always expire. `NsPerSec = 1` except in `early_expiry`: with both units equal the
other properties can be judged apart from that defect. `MaxEntries` bounds the
Sets, `MaxDrift` how far below zero panicking deletes drive `keyCount`,
`MaxContainers` the buckets ever made: with three, both requests can create at once,
and a name can be deleted and created again. In `shards`, two keys in one shard make a
batch that counts one key down and panics on the next, the third key changes in the other
shard meanwhile, and size 0 is what deleteBatch takes for no change; `MaxLost` bounds the
keys a counter loses. Three keys in one segment are the least for which an insertion or a
cut in the middle moves others; the shard beside has four. The container and that shard do
not see each other, so a behaviour of the run moves one of them only. `MaxFrames` bounds the
frames of all connections: two pipelined on one, so that a read ends anywhere in the
second, or one on each, so that the second connection gets the first one's buffer.
A read of 5 cells cuts every frame in the middle and, after another one, the header;
`readChunkSize` is less than the longest frame, and `MaxConnectionBuffSize` is the
least value for which the connection loop can be right (the largest frame plus one
read; the code has more than that), so that the limit can be met. `no_gc`, `tcp` and `tcp_keys` run without the deadlock check: without
collector and requests nothing is left to do, and the server's process ends.

What needs no behaviour is checked as an assumption when the runs start.
`MCTcpServer`: every payload and frame decodes to what was encoded and no proper prefix
decodes (CodecInverts, FramesInvert). `MCBucketManager`: a token without expiry is valid
for its own bucket only, at any time, and neither a prefix of it nor the token with
one byte changed is; a token with an expiry is valid until then exactly if no byte of
the expiry is a dot (TokensNameBuckets, TokensExpire).

### What the violations say

1. Nothing calls StartGC, so no expired or single-read entry is ever removed,
   while the README promises removal in the background (`no_gc`).
2. The collector takes the TTL for nanoseconds, the service for seconds
   (`early_expiry`); visible once the collector is started.
3. The near queue's recorded positions go stale: two Sets with a short TTL and two
   Deletes panic and leave the key stored (`stale_position`).
4. A SET whose answer cannot be written leaves its frame in the buffer that goes
   back to the pool; the next connection overwrites the key the store holds
   (`tcp_keys`). As long as answers are written the keys are safe, because a consumed
   frame lies before the slice that goes back (KeysStableIfAnswered).

More consequences show with other constants and need no run of their own. With
`0` among `Sizes` in `linear`, DeleteDeletes is violated: deleteBatch takes "zero bytes
changed" for "nothing changed" (`in_memory.go:168`), and an empty key with an empty value,
which the TCP handler accepts, cannot be deleted. `stale_position`'s instance with
three entries, `MaxDrift = 2`, the collector started and no deadlock check explores
Set, Delete and flush panicking: Linearizable holds in spite of it (68 k states).
With `NsPerSec = 1`, `TTLs = {0}`, `Singles = {TRUE, FALSE}`, `Requests = {"Set",
"Get"}` and two entries, `early_expiry`'s property is violated by a queued delete
that a new Set of the key does not withdraw (`in_memory.go:66`). With two keys,
`WindowMs = 2`, `SlotCount = 1` and TTLs 1 and 2, EventuallyReaped is violated with
the collector running: a removal at a stale position takes another key's timer out.
StopDrains says `lnClosed` for a reason: without that condition `tcp` finds a signal that comes
before Start has published the listener. Stop closes nothing, its Wait returns at once,
Start goes on to accept a client, and Stop returns nil with the connection open
(`server.go:46-48,93-102`), although `main` logs that the servers stopped gracefully.

Four disagreements with `src/README.md` concern the shape of the interface alone and
show by reading `Answers` and `Token` beside it: `GET /api/buckets` passes Auth, which
wants a bucket that this path has not, and always answers 400 (the README has it list
the buckets); the paths begin with `/api`, not `/api/v1`; the header is
`X-Bucket-Token`, not `X-Auth-Token`; and a token whose expiry has a byte 46 is
refused, though no caller asks for an expiry yet (`token.go:92`). A TCP frame shorter
than its header ends the process (`server.go:159`, Panic).

The passing runs and the proofs hold around these: Linearizable holds with the
panics (a failed delete has no effect on the map), KeyCountExact is claimed only
until the first panic (usedBytes is exact after one, too, because a panic publishes
nothing), Count is bounded from below only up to the keys lost by panics and empty
batches (WalkBounds), a 500 may follow a pair that was stored but never a change of the
registry (ServerErrorsExplained), TimersMatchStore and EventuallyReaped for one key (and a started collector),
DeleteDeletes without timers and empty pairs.

## 4. Fairness

`CowStore!Fairness`, used by `live` and `no_gc`:

- a goroutine inside a call keeps running (weak fairness of its steps): the Go
  scheduler is preemptive;
- acquiring `writeMu` is strongly fair: `sync.Mutex` switches to hand-off when a
  waiter starves;
- each ticker case of the collector's select, and its stop case, is strongly fair:
  tickers keep firing and select chooses uniformly among ready cases; likewise the
  coalescer's;
- the clock and the cached clock advance; StartGC, where the run's owner makes it
  at all, happens.

`TcpServer!Fairness`, used by `tcp`: goroutines that can run do run, and the deadline
of `main`'s context passes. A Read without data waits, so nothing makes a peer send or
leave, nor a signal arrive. A write is assumed to return: a peer that stops reading
blocks its own connection, and Stop's deadline does not depend on it. Fairness of a
connection is written out with Runnable instead of WF, because evaluating ENABLED of
the codec is slow; Runnable is the disjunction of the guards.

Clients are free never to call anything. No fairness is assumed after a panic that
ends the process.

## 5. Proofs

Every theorem is about all values of the constants that satisfy the modules' ASSUMEs;
a further hypothesis is named below. Every safety property has the same shape of
argument: an inductive invariant, one lemma per action, and the property as a consequence.

**Wheel** (`WheelClockProofs`). `WheelCoherent` and `WheelTyped`: `TypeOK /\ Coherent` is
inductive. Without removes the only entry of a key because the index names its slot
(the lemma WithoutRemoves), so Add and Remove move entry and index together, and Advance
unindexes exactly what it takes out. `OverdueBounded` adds TurnInv: after some
number `a` of ticks the position and the phase of the ticker are those of `a`, and for
every entry the tick that will take it out, counted from the distance of its slot and its
rounds, comes less than a turn after its deadline. It assumes `SlotCount > 1` (the code has
2048): on a wheel of one slot the bound is false.

**Near queue** (`NearClockProofs`). `NearTypes`, `HeapStaysOrdered`, `DrainTakesTheDue`: heap order
and types are inductive together with the two clocks (NearInv). Up and Down are recursive
functions; what they compute is proved for every heap with the loop lemmas of `Recursion`
(below): while an entry rises, the order fails at most between it and its parent, and its
parent is due no later than its children; while it sinks, at most between it and its
children. Settle may run on a stale position and then sifts an entry that was in order;
the argument does not care which entry it is. For the drain: each turn pops the least deadline, so
the loop stops at the first entry that is not due with all due ones gone, and the number of
copies of every other entry is unchanged. `NsPerMs` is positive.

**Shard** (`CowStoreProofs`). `StoreInvariant`: types of the store (TypeInv), the holder of
`writeMu` is the one goroutine inside a critical section (MutexInv), operands of each step
are defined (ArgInv), published entries are allocated (IndexInv), and what a writer has
built so far is the published index with its key set, or without the keys it has
visited (BuildInv). It needs no assumption about the data. `DeliveredOnce` adds HitInv: an
entry is delivered by the one reader whose compare-and-swap took it, and until then to
nobody. On this invariant rest:

- `StoreIsAtomicMap`: the shard implements `KVStore`, panics included. The linearization
  points are `ptr.Store` for Set and deleteBatch and the load of the snapshot for Get;
  every other step maps to a call, a return, a failed delete or a stutter.
- `KeyCountIsExact`: the counter agrees with the index under construction while a writer is
  inside, and with the published one otherwise (CountInv).
- `UsageIsExact`: what a writer inside still owes `usedBytes` is the difference between the
  sums over the published index and over the one it builds (UsageInv). The set of keys is
  finite, as a sum needs; sizes may be zero, and calls may panic.
- `ShardTimersSound` and `StoreTyped`: the wheel and the near queue keep their invariants
  inside the shard, where Set, deletes, the coalescer and the collector share them
  (TimersInv). The proof instantiates the lemmas of `WheelClockProofs` and `NearClockProofs`
  with the shard's variables and has one step per call the shard makes on them.
- `BatchesDelete` and `DeletesTakeEffect` (DeleteDeletes): a deleteBatch that is not cut short
  by a panic has removed its keys, with any TTLs; without TTLs no panic cuts it short,
  because the near queue's map stays empty.
- `NoTimerWithoutKey`, `NoKeyWithoutTimer`, `TimersMatchUnlessStale`: every registered key is
  stored, and registered with the index under construction as well (FollowInv); every
  stored key with a TTL is registered, expired and about to be enqueued, pending, or in the
  hands of the writer that will schedule or delete it (CoverInv). With any number of keys
  TimersMatchStore follows in every state before the first panic in which the near queue's
  heap and map name the same keys (MapMatchesHeap). A removal at a stale position breaks
  that, and with two keys TimersMatchStore is false then; the first two theorems still
  hold: stale positions lose heap entries, not registrations.

All of these but `StoreInvariant`, `DeliveredOnce`, `UsageIsExact`, `ShardTimersSound`,
`StoreTyped` and `NoTimerWithoutKey` assume `0 \notin Sizes`, no empty pair of key and value,
because deleteBatch takes "zero bytes changed" for "nothing changed"; section 3 says what
happens otherwise. `DeletesTakeEffect` assumes `TTLs \subseteq {0}`.

**Container and segments** (`ShardContainerProofs`). `ContainerInvariant`: in every shard
`keyCount` is the number of keys of the writer's copy less those lost, `usedBytes` the bytes
of the index it started from, `delta` the difference it still owes (ShardInv); `low` and
`high` bracket what each key of a shard can weigh now (HistoryInv); and what the walk has
made of the shards behind it is the sum, over their keys, of weights within these brackets
(ResultInv). From it `ContainerTyped` and `WalksBounded`: the sums are taken key by key, so a
key that moves in and out between two reads cannot be counted twice, and Count is short by
`lost` at most. The set of keys is finite, as a sum needs. `IndexInvariant`, `SearchIsExact`,
`ListIsExact`: every segment is strictly sorted, has its entries in step, and
holds the pairs stored last whose hash names it (SegInv). The binary search is proved by
induction on the length of the interval, deleteBatch's loop over a group of keys by
induction on the group; a batch is a finite set, as a slice is.

**Bucket manager** (`BucketManagerProofs`). `RegistryInvariant` says who holds `writeMu`
(MutexInv), that the index being built differs from the published one in its
builder's bucket alone (BuildInv), that no container is served under two names
(ServedInv), that a bucket that was made is served until somebody drops it (MadeInv), that a
container a request is about to write to is served under no name but the request's
(WriteInv), and that an unpublished container has neither data nor writers (FreshInv). From
it: `RegistryTyped`, `CollectorsAccounted`, `DefaultStays`, `NamespacesIsolated`, and the action
properties `StoppedIsDropped` and `ErrorsExplained`; the latter also needs that a request
that is about to take the lock has no container yet (UnboundInv), so that a 500 given there
is told from one given by the second lookup. The proof found one
assumption that the instance had made silently: the mark for "no token" is
not itself the name of a bucket (`NoToken \notin Raw`).

`RegistryIsAtomic`: the manager implements `Registry`. CreateBucket and DeleteBucket take
effect where the index is stored, GetStore where it is loaded; the containers that were ever
served are those that were made, without the one a CreateBucket has not published
(mutual exclusion: there is at most one). The collector's stop, the token and the second lookup
of CreateBucket come after the effect and are part of the return. GetBucket hands out no
container and is a stutter.

**TCP server** (`TcpServerProofs`). `ServerInvariant`: `wg` is the number of open connections
plus one for the accept loop, which holds at most one connection it has not counted,
and once it has been zero under a closed listener no connection is left or can come
(LifeInv); buffers are typed, have one owner, keep the frame that was just handled in
front, and hold less than a largest frame before a read (BufInv). From it: `StopsDrained`,
`BuffersOwnedOnce`, `BuffersBounded`, `ServerTyped`. Requests have natural lengths and
commands, and the sizes that come from the wire are unsigned, as in the code.

**Frames, keys, answers** (`TcpFrameProofs`).

- `FramesArriveInOrder`: the cells of a connection that were not consumed, those in its
  buffer followed by those on the wire, are the frames sent and not yet cut off, each at
  its position (FramesInv). The hypothesis TruthfulOrShort says that the length in a
  header is the length of the frame, or is less than a header (which ends the process,
  Panic). Without it the statement is false: a longer wrong length makes the loop
  take the next frame for a part of this one. The requests of the `tcp` run satisfy it.
- `KeysStayStable`: the slice of every stored key lies behind the start of every open
  buffer and every pooled slice of its array (KeysInv). Appending and cutting only move
  that start forward, as does giving a buffer back after a consumed frame; the one step
  that does not is a failed write, which the property excludes and `tcp_keys` shows.
- `FrameRoundTrip` and `AnswersMatchRequests`: a frame of up to `MaxPayloadSize` decodes to
  what was encoded, and every answer is such a frame. For a Get this needs a fact about
  the store: an entry is no larger than the payload it came in, so its value fits an
  answer (EntryOk). `MaxPayloadSize >= 1`: an answer has a status.
- `GetPayloadRoundTrip` and `SetPayloadRoundTrip`: payloads decode to what they were made of,
  and the key lies in the payload, where the zero-copy string points. The strings are
  shorter than their length field can say; a longer one would be cut modulo 2^16.

**Induction over data** (`Recursion`). The prover cannot instantiate a theorem that takes
an operator, so induction is stated over sets: a set of naturals that contains 0 and with
every number its successor is all of Nat (NatSet), and a set that contains `x` whenever it
contains everything of smaller measure is the whole domain (MeasureInduction). On these
rest: a loop, given as a function `step` and a set `stop`, ends when a measure falls
(LoopInduction); a recursive function that follows a loop that ends exists and satisfies its
equation (LinearRecursion, TailRecursion), which is what makes the TLA+ definitions of Up,
Down, Drained and the binary search usable in a proof; and a fold over a finite set
takes one element after the other (FoldEnds).

Invariants were checked by TLC on small instances before they were proved where they are
state predicates TLC can evaluate (IInv of the shard, the registry and the server; ShardInv
and HistoryInv of the container; UsageInv, FollowInv and CoverInv with two keys and panics).

Only model-checked: EventuallyReaped, CallsReturn, StopEnds, AllAnswered and ShutdownEnds,
because the prover has no support for fairness; and the tokens as bytes, which no
behaviour changes. Every other property of a passing run is stated by a theorem.

## 6. Not modelled

- Access statistics (`LastAccess`, AccessCount of normal entries): nothing reads them.
- Configuration (read once at start), logging, correlation ids: output or constants.
- Read and write timeouts and the accept deadline of the TCP server: `main` leaves
  them at zero, which switches them off. The HTTP server's own timeouts and its
  failure to listen, which ends the process.
- base64 and JSON; the contents of metadata answers.
- 64-bit overflow of a TTL of more than 292 years.

## 7. Plan

Done, in this order: timing wheel, near queue, collector, shard with abstract map and
refinement, shard container, bucket manager; proofs of the wheel, of the shard's
invariant, refinement and key count; then codec, connections and TCP server, sorted
segments, tokens as bytes, HTTP routes and answers; then the proofs of the wheel's lateness,
single reads, container, bucket manager, TCP server, frames, keys and answers.

Then the near queue, the sorted segments, the byte count, the timers and deletes inside the
shard, the atomic registry and the codec of payloads.

Left: the byte-level tokens for names of every length (MCBucketManager checks short
ones), and the liveness properties, which need a prover with fairness.
