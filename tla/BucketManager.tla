--------------------------- MODULE BucketManager ---------------------------
(***************************************************************************)
(* The bucket registry of internal/bucket/bucket.go, called concurrently   *)
(* by the requests of both transports through internal/service: a          *)
(* copy-on-write index from names to shard containers.  Writers hold       *)
(* writeMu; readers load the index and then work on a container that may   *)
(* have been dropped from it since.                                        *)
(*                                                                         *)
(* A container is named by a number, allocated in order.  Of its data only *)
(* who wrote it matters here: the bucket names of the requests that        *)
(* stored into it.  Tokens of CreateBucket carry no expiry; a token is     *)
(* named by the bucket it was issued for.                                  *)
(***************************************************************************)
EXTENDS Naturals, FiniteSets

CONSTANTS
  Clients,        \* request goroutines
  Names,          \* bucket names, as the registry keeps them
  Raw,            \* bucket names as clients spell them
  Normalise,      \* TrimSpace and ToLower: spelling -> name, or BadName
  BadName,        \* a name with other characters, or one that is too long
  Default,        \* "default"
  EmptyName,      \* ""
  NoToken,        \* no token, or one that does not verify
  NoBucket,       \* absent from the index
  Nobody,         \* writeMu is free
  MaxContainers   \* bound: containers ever created

Containers == 1..MaxContainers

ASSUME BucketAssumption ==
  /\ Default \in Names /\ Default # EmptyName
  /\ EmptyName \in Names
  /\ Names \subseteq Raw
  /\ Normalise \in [Raw -> Names \cup {BadName}]
  /\ NoToken \notin Raw
  /\ Nobody \notin Clients
  /\ MaxContainers \in Nat \ {0}
  /\ NoBucket \notin Containers

VARIABLES
  buckets,   \* *bm.ptr: name -> container or NoBucket
  writeMu,   \* bm.writeMu: its holder, or Nobody
  created,   \* how many containers were made
  closed,    \* containers whose collectors were told to stop
  writers,   \* container -> names of the buckets its data was stored for
  issued,    \* names a token was issued for
  pc,        \* goroutine -> the step it is at
  op,        \* goroutine -> its request, an HTTP route or a TCP command
  name,      \* goroutine -> the bucket its request names
  newIdx,    \* goroutine -> local: the next index
  store,     \* goroutine -> local: the container it looked up, made or drops
  failed     \* history: goroutines whose last request was answered 500

registry == <<buckets, created, closed, writers, issued>>
locals == <<op, name, newIdx, store>>
vars == <<registry, writeMu, pc, locals, failed>>

Api == INSTANCE Answers
HttpOps == DOMAIN Api!Routes
TcpOps == DOMAIN Api!TcpOk

Index == [Names -> Containers \cup {NoBucket}]
NoBuckets == [n \in Names |-> NoBucket]
Steps == {"idle", "createLock", "createPublish", "createReturn", "createLookup",
          "deleteLock", "deletePublish", "deleteStop", "getBucket",
          "getStore", "setApply", "readApply",
          "shutdownLock", "shutdownClose"}
NoOp == "none"

\* The registry, the lock and every request in progress are well formed (bucket.go:41-45).
TypeOK ==
  /\ buckets \in Index
  /\ writeMu \in Clients \cup {Nobody}
  /\ created \in Containers
  /\ closed \subseteq 1..created
  /\ writers \in [Containers -> SUBSET Names]
  /\ issued \subseteq Names
  /\ pc \in [Clients -> Steps]
  /\ op \in [Clients -> HttpOps \cup TcpOps \cup {NoOp}]
  /\ name \in [Clients -> Names]
  /\ newIdx \in [Clients -> Index]
  /\ store \in [Clients -> Containers \cup {NoBucket}]
  /\ failed \subseteq Clients

\* NewBucketManager has created the default bucket; main prints its token.
Init ==
  /\ buckets = [NoBuckets EXCEPT ![Default] = 1]
  /\ created = 1
  /\ closed = {}
  /\ writers = [c \in Containers |-> {}]
  /\ issued = {Default}
  /\ writeMu = Nobody
  /\ pc = [p \in Clients |-> "idle"]
  /\ op = [p \in Clients |-> NoOp]
  /\ name = [p \in Clients |-> Default]
  /\ newIdx = [p \in Clients |-> NoBuckets]
  /\ store = [p \in Clients |-> NoBucket]
  /\ failed = {}

-----------------------------------------------------------------------------
Goto(p, step) == pc' = [pc EXCEPT ![p] = step]

\* The answer is written; of the status only a server error is remembered.
Write(p, status) == failed' = IF status = 500 THEN failed \cup {p} ELSE failed \ {p}

\* Request o for bucket n has reached the service.
Begin(p, step, o, n) ==
  /\ pc[p] = "idle"
  /\ Goto(p, step)
  /\ op' = [op EXCEPT ![p] = o]
  /\ name' = [name EXCEPT ![p] = n]
  /\ failed' = failed \ {p}
  /\ UNCHANGED <<registry, writeMu, newIdx, store>>

\* The request is answered and its locals are gone.
Finish(p, status) ==
  /\ Goto(p, "idle")
  /\ Write(p, status)
  /\ op' = [op EXCEPT ![p] = NoOp]
  /\ name' = [name EXCEPT ![p] = Default]
  /\ newIdx' = [newIdx EXCEPT ![p] = NoBuckets]
  /\ store' = [store EXCEPT ![p] = NoBucket]

\* The service returns err and the handler answers.
Answer(p, err) == Finish(p, Api!Status(op[p], err))

(***************************************************************************)
(* A panic below an HTTP handler: deferred unlocks run, and Recovery       *)
(* answers.  On a TCP goroutine nobody recovers it and the process ends:   *)
(* no step follows.                                                        *)
(***************************************************************************)
Recovered(p) == op[p] \in HttpOps /\ Finish(p, 500)

\* A request that is refused before it touches anything.
Refuse(p, status) ==
  /\ pc[p] = "idle"
  /\ Write(p, status)
  /\ UNCHANGED <<registry, writeMu, pc, locals>>

Lock(p) == writeMu = Nobody /\ writeMu' = p
Unlock == writeMu' = Nobody

(***************************************************************************)
(* ValidateToken on a token without expiry: it was issued for the expected *)
(* bucket, which is not empty.  Names are made of lower-case letters,      *)
(* digits and hyphens, so cutting the token at its first '.' finds them.   *)
(***************************************************************************)
ValidateToken(token, expected) == token = expected /\ expected # EmptyName

Tokens == issued \cup {NoToken}

\* GenerateToken(n, 0): a signed token without expiry, bound to n.
GenerateToken(n) == issued' = issued \cup {n}

(***************************************************************************)
(* The front of an HTTP request: Auth, which wants a bucket in the path    *)
(* and a token for it, then the handler's checks of the body.  A TCP       *)
(* command checks the token too.                                           *)
(***************************************************************************)
Passes == 0

Auth(n, token) ==
  IF n = EmptyName THEN 400
  ELSE IF ValidateToken(token, n) THEN Passes ELSE 401

Front(o, n, token, bodyOk) ==
  LET h == Api!Routes[o]
      auth == IF h.auth THEN Auth(n, token) ELSE Passes
  IN IF auth = Passes /\ h.body /\ ~bodyOk THEN 400 ELSE auth

\* Action A is what a request that passes does next.
Http(p, o, n, A) ==
  \E s \in {Front(o, n, token, bodyOk) : token \in Tokens, bodyOk \in BOOLEAN} :
    IF s # Passes THEN Refuse(p, s) ELSE A

Tcp(p, n, A) ==
  \E valid \in {ValidateToken(token, n) : token \in Tokens} :
    IF valid THEN A ELSE Refuse(p, Api!StatusUnauthorized)

-----------------------------------------------------------------------------
(***************************************************************************)
(* CreateBucket, of the manager and then of the service.  Validate has     *)
(* normalised the name; the manager checks it again for being empty.       *)
(***************************************************************************)
CreateCall(p, raw) ==
  LET n == Normalise[raw]
  IN IF n \in {EmptyName, BadName}
     THEN Refuse(p, 400)
     ELSE /\ created + Cardinality({q \in Clients : pc[q] = "createLock"}) < MaxContainers
          /\ Begin(p, "createLock", "CreateBucket", n)

\* The name is free: copy the index and add a new container.
NewContainer(p) ==
  /\ created' = created + 1
  /\ store' = [store EXCEPT ![p] = created + 1]
  /\ newIdx' = [newIdx EXCEPT ![p] = [buckets EXCEPT ![name[p]] = created + 1]]
  /\ Goto(p, "createPublish")
  /\ UNCHANGED <<buckets, closed, writers, issued, op, name, failed>>

\* Variant: without the lock.
CreateLock_NoLock(p) ==
  /\ pc[p] = "createLock"
  /\ \/ /\ buckets[name[p]] # NoBucket
        /\ Answer(p, "ErrBucketAlreadyExists")
        /\ UNCHANGED registry
     \/ buckets[name[p]] = NoBucket /\ NewContainer(p)
  /\ UNCHANGED writeMu
\* NewShardContainer panics on a shard count too large for its slice.
CreateLock(p) ==
  /\ pc[p] = "createLock"
  /\ writeMu = Nobody
  /\ \/ /\ buckets[name[p]] # NoBucket
        /\ Answer(p, "ErrBucketAlreadyExists")
        /\ UNCHANGED <<registry, writeMu>>
     \/ buckets[name[p]] = NoBucket /\ Lock(p) /\ NewContainer(p)
     \/ /\ buckets[name[p]] = NoBucket
        /\ Recovered(p)
        /\ UNCHANGED <<registry, writeMu>>

CreatePublish(p) ==
  /\ pc[p] = "createPublish"
  /\ buckets' = newIdx[p]
  /\ Goto(p, "createReturn")
  /\ UNCHANGED <<created, closed, writers, issued, writeMu, locals, failed>>

\* The token is made under the lock; then the deferred unlock.
CreateReturn(p) ==
  /\ pc[p] = "createReturn"
  /\ GenerateToken(name[p])
  /\ Unlock
  /\ Goto(p, "createLookup")
  /\ UNCHANGED <<buckets, created, closed, writers, locals, failed>>

\* Found in the current index; the metadata it copies is not modelled.
GetBucket(n) == buckets[n] # NoBucket

\* The service looks the new bucket up again, without the lock.
CreateLookup(p) ==
  /\ pc[p] = "createLookup"
  /\ Answer(p, IF GetBucket(name[p]) THEN "nil" ELSE "ErrBucketNotFound")
  /\ UNCHANGED <<registry, writeMu>>

GetBucketCall(p, n) == Begin(p, "getBucket", "GetBucket", n)

GetBucketLookup(p) ==
  /\ pc[p] = "getBucket"
  /\ Answer(p, IF GetBucket(name[p]) THEN "nil" ELSE "ErrBucketNotFound")
  /\ UNCHANGED <<registry, writeMu>>

-----------------------------------------------------------------------------
(***************************************************************************)
(* DeleteBucket.  Auth has validated the token of the header; the manager, *)
(* after its check for the default bucket, validates the one of the body.  *)
(***************************************************************************)
\* Variant: any bucket may be deleted.
DeleteCall_AnyName(p, n, token) ==
  IF ValidateToken(token, n)
  THEN Begin(p, "deleteLock", "DeleteBucket", n)
  ELSE Refuse(p, Api!Status("DeleteBucket", "ErrUnauthorized"))
DeleteCall(p, n, token) ==
  \/ n = Default /\ Refuse(p, Api!Status("DeleteBucket", "ErrCannotDeleteDefault"))
  \/ /\ n # Default /\ ~ValidateToken(token, n)
     /\ Refuse(p, Api!Status("DeleteBucket", "ErrUnauthorized"))
  \/ /\ n # Default /\ ValidateToken(token, n)
     /\ Begin(p, "deleteLock", "DeleteBucket", n)

DeleteLock_Unchecked(p) ==
  /\ pc[p] = "deleteLock"
  /\ Lock(p)
  /\ newIdx' = [newIdx EXCEPT ![p] = [buckets EXCEPT ![name[p]] = NoBucket]]
  /\ store' = [store EXCEPT ![p] = buckets[name[p]]]
  /\ Goto(p, "deletePublish")
  /\ UNCHANGED <<registry, op, name, failed>>
DeleteLock(p) ==
  /\ pc[p] = "deleteLock"
  /\ writeMu = Nobody
  /\ \/ /\ buckets[name[p]] = NoBucket
        /\ Answer(p, "ErrBucketNotFound")
        /\ UNCHANGED writeMu
     \/ /\ buckets[name[p]] # NoBucket
        /\ Lock(p)
        /\ newIdx' = [newIdx EXCEPT ![p] = [buckets EXCEPT ![name[p]] = NoBucket]]
        /\ store' = [store EXCEPT ![p] = buckets[name[p]]]
        /\ Goto(p, "deletePublish")
        /\ UNCHANGED <<op, name, failed>>
  /\ UNCHANGED registry

DeletePublish_StopFirst(p) ==
  /\ pc[p] = "deletePublish"
  /\ closed' = closed \cup {store[p]}
  /\ IF store[p] \in closed
     THEN buckets' = newIdx[p] /\ Goto(p, "deleteStop")
     ELSE UNCHANGED <<buckets, pc>>
  /\ UNCHANGED <<created, writers, issued, writeMu, locals, failed>>
DeletePublish(p) ==
  /\ pc[p] = "deletePublish"
  /\ buckets' = newIdx[p]
  /\ Goto(p, "deleteStop")
  /\ UNCHANGED <<created, closed, writers, issued, writeMu, locals, failed>>

\* StopGC of the dropped container, still under the lock.
DeleteStop_Skipped(p) ==
  /\ pc[p] = "deleteStop"
  /\ Unlock
  /\ Answer(p, "nil")
  /\ UNCHANGED registry
DeleteStop(p) ==
  /\ pc[p] = "deleteStop"
  /\ closed' = closed \cup {store[p]}
  /\ Unlock
  /\ Answer(p, "nil")
  /\ UNCHANGED <<buckets, created, writers, issued>>

-----------------------------------------------------------------------------
(***************************************************************************)
(* Set, Get and Delete of the storage service: GetStore, then the          *)
(* operation on that container, served or not.                             *)
(***************************************************************************)
Writes == {"CreateKV", "Set"}
Reads == {"GetKV", "Get"}

\* HTTP's Validate has refused a negative TTL, TCP's comes as far as the service.
StorageCall(p, o, n) ==
  \/ o \in Writes \cap TcpOps /\ Refuse(p, Api!Status(o, "ErrInvalidTTL"))
  \/ Begin(p, "getStore", o, n)

\* Variant: a missing bucket means the default one.
GetStore_OrDefault(p) ==
  /\ pc[p] = "getStore"
  /\ store' = [store EXCEPT ![p] = IF buckets[name[p]] = NoBucket THEN buckets[Default]
                                   ELSE buckets[name[p]]]
  /\ Goto(p, IF op[p] \in Writes THEN "setApply" ELSE "readApply")
  /\ UNCHANGED <<registry, writeMu, op, name, newIdx, failed>>
GetStore(p) ==
  /\ pc[p] = "getStore"
  /\ \/ buckets[name[p]] = NoBucket /\ Answer(p, "ErrBucketNotFound")
     \/ /\ buckets[name[p]] # NoBucket
        /\ store' = [store EXCEPT ![p] = buckets[name[p]]]
        /\ Goto(p, IF op[p] \in Writes THEN "setApply" ELSE "readApply")
        /\ UNCHANGED <<op, name, newIdx, failed>>
  /\ UNCHANGED <<registry, writeMu>>

\* Scheduling the key's expiry may panic, after the pair was published.
SetApply(p) ==
  /\ pc[p] = "setApply"
  /\ writers' = [writers EXCEPT ![store[p]] = @ \cup {name[p]}]
  /\ Answer(p, "nil") \/ Recovered(p)
  /\ UNCHANGED <<buckets, created, closed, issued, writeMu>>

\* Get and Delete add no data; Get may find no such key, and cancelling the expiry of
\* the key that Delete has found may panic.
ReadApply(p) ==
  /\ pc[p] = "readApply"
  /\ \/ Answer(p, "nil")
     \/ op[p] \in Reads /\ Answer(p, "ErrKeyNotFound")
     \/ op[p] \notin Reads /\ Recovered(p)
  /\ UNCHANGED <<registry, writeMu>>

-----------------------------------------------------------------------------
(***************************************************************************)
(* Shutdown closes the buckets one by one under the lock and leaves them   *)
(* in the index.                                                           *)
(***************************************************************************)
ShutdownCall(p) == Begin(p, "shutdownLock", NoOp, Default)

ShutdownLock(p) ==
  /\ pc[p] = "shutdownLock"
  /\ Lock(p)
  /\ Goto(p, "shutdownClose")
  /\ UNCHANGED <<registry, locals, failed>>

Served == {buckets[n] : n \in Names} \ {NoBucket}

ShutdownClose(p) ==
  /\ pc[p] = "shutdownClose"
  /\ \/ /\ \E c \in Served \ closed : closed' = closed \cup {c}
        /\ UNCHANGED <<writeMu, pc, locals, failed>>
     \/ /\ Served \subseteq closed
        /\ Unlock
        /\ Goto(p, "idle")
        /\ UNCHANGED <<closed, locals, failed>>
  /\ UNCHANGED <<buckets, created, writers, issued>>

-----------------------------------------------------------------------------
\* ListBuckets has no bucket in its path.
HttpCall(p) ==
  \/ \E raw \in Raw : Http(p, "CreateBucket", raw, CreateCall(p, raw))
  \/ Http(p, "ListBuckets", EmptyName, FALSE)
  \/ \E n \in Raw \ {EmptyName} :
       \/ Http(p, "GetBucket", n, GetBucketCall(p, n))
       \/ Http(p, "DeleteBucket", n, \E token \in Tokens : DeleteCall(p, n, token))
       \/ \E o \in {"CreateKV", "GetKV", "DeleteKV"} : Http(p, o, n, StorageCall(p, o, n))

TcpCall(p) == \E n \in Raw, o \in TcpOps : Tcp(p, n, StorageCall(p, o, n))

ClientStep(p) ==
  \/ HttpCall(p) \/ TcpCall(p)
  \/ CreateLock(p) \/ CreatePublish(p) \/ CreateReturn(p) \/ CreateLookup(p)
  \/ DeleteLock(p) \/ DeletePublish(p) \/ DeleteStop(p) \/ GetBucketLookup(p)
  \/ GetStore(p) \/ SetApply(p) \/ ReadApply(p)
  \/ ShutdownCall(p) \/ ShutdownLock(p) \/ ShutdownClose(p)

Next == \E p \in Clients : ClientStep(p)

Spec == Init /\ [][Next]_vars

-----------------------------------------------------------------------------
(***************************************************************************)
(* No collector is leaked: a container that was made and not told to stop  *)
(* is served, or a CreateBucket or DeleteBucket in progress holds it       *)
(* (bucket.go:125-137,175-179).                                            *)
(***************************************************************************)
NoLeakedCollector ==
  \A c \in 1..created :
    \/ c \in Served \cup closed
    \/ \E p \in Clients :
         \/ pc[p] = "createPublish" /\ newIdx[p][name[p]] = c
         \/ pc[p] = "deleteStop" /\ store[p] = c

(***************************************************************************)
(* Unless Shutdown was asked for, requests that look a bucket up now never *)
(* get one whose collector is stopped (bucket.go:175-179: publish, then    *)
(* stop).                                                                  *)
(***************************************************************************)
ShuttingDown == \E p \in Clients : pc[p] = "shutdownClose"
StopOnlyDropped ==
  [][\A c \in closed' \ closed : ShuttingDown \/ c \notin Served]_vars

\* The default bucket is served at all times (bucket.go:54,147).
DefaultServed == buckets[Default] # NoBucket

(***************************************************************************)
(* "Isolated namespaces": what a served bucket holds was stored by         *)
(* requests for that bucket, though a writer resolves the name first and   *)
(* writes later, when the name may be gone or taken again                  *)
(* (storage_service.go:38-61).                                             *)
(***************************************************************************)
Isolated == \A n \in Names : buckets[n] # NoBucket => writers[buckets[n]] \subseteq {n}

(***************************************************************************)
(* A request answered 500 leaves the registry and its lock alone.  It is a *)
(* CreateKV or DeleteKV, or a CreateBucket that leaves no bucket of its    *)
(* own behind: it never made one, or made one that another request has     *)
(* dropped before the service looked it up.  No request that reads, and no *)
(* DeleteBucket, ends so (bucket_service.go:41-46, handlers.go:154-164,    *)
(* recovery.go:11-15, bucket.go:109-125).                                  *)
(***************************************************************************)
Dropped(c) == c \in closed \/ \E q \in Clients : pc[q] = "deleteStop" /\ store[q] = c
ServerErrorsExplained ==
  [][\A p \in Clients :
       p \in failed' \ failed =>
         /\ UNCHANGED <<buckets, created, closed, issued>> /\ writeMu' # p
         /\ \/ op[p] \in {"CreateKV", "DeleteKV"}
            \/ op[p] = "CreateBucket" /\ (store[p] = NoBucket \/ Dropped(store[p]))]_vars

-----------------------------------------------------------------------------
(***************************************************************************)
(* The manager implements the atomic Registry: CreateBucket and            *)
(* DeleteBucket take effect when the new index is stored                   *)
(* (bucket.go:137,175), GetStore when it loads the index                   *)
(* (bucket.go:91-98).  A container being made is not there yet, one        *)
(* being dropped still is.  GetBucket hands nothing out and is no          *)
(* operation of the abstract one.                                          *)
(***************************************************************************)
PhaseOf(step) ==
  CASE step \in {"createLock", "createPublish"} -> "create"
    [] step \in {"deleteLock", "deletePublish"} -> "drop"
    [] step = "getStore" -> "find"
    [] step \in {"createReturn", "createLookup", "deleteStop", "setApply", "readApply"} -> "done"
    [] OTHER -> "idle"

RequestOf(p) ==
  LET phase == PhaseOf(pc[p])
  IN [step |-> phase,
      name |-> IF phase = "idle" THEN Default ELSE name[p],
      got |-> IF phase = "done" THEN store[p] ELSE NoBucket]

Published == (1..created) \ {store[p] : p \in {q \in Clients : pc[q] = "createPublish"}}

R == INSTANCE Registry WITH
       Procs <- Clients, None <- NoBucket, served <- buckets, made <- Published,
       call <- [p \in Clients |-> RequestOf(p)]

AtomicRegistry == R!Spec
=============================================================================
