------------------------ MODULE BucketManagerProofs ------------------------
(***************************************************************************)
(* The bucket registry, for every number of clients, names and containers: *)
(* the safety properties of BucketManager follow from one inductive        *)
(* invariant, which says who holds writeMu, what the index being built     *)
(* will change, and which containers can still be reached under which      *)
(* name.                                                                   *)
(***************************************************************************)
EXTENDS BucketManager, FiniteSetTheorems, TLAPS

Inside == {"createPublish", "createReturn", "deletePublish", "deleteStop", "shutdownClose"}
CreateSteps == {"createLock", "createPublish", "createReturn", "createLookup"}
DeleteSteps == {"deleteLock", "deletePublish", "deleteStop"}
StorageOps == {"CreateKV", "GetKV", "DeleteKV"} \cup TcpOps

\* The requests that may still make a container.
Creators == {q \in Clients : pc[q] = "createLock"}

\* There is room for the containers of all of them.
RoomInv == IsFiniteSet(Creators) /\ created + Cardinality(Creators) <= MaxContainers

\* writeMu is held by the goroutine inside a critical section, and by no other.
MutexInv == \A p \in Clients : pc[p] \in Inside <=> writeMu = p

\* Which request is at which step; no step of DeleteBucket is about the default bucket.
OpInv ==
  \A p \in Clients :
    /\ pc[p] \in CreateSteps => op[p] = "CreateBucket"
    /\ pc[p] \in DeleteSteps => op[p] = "DeleteBucket" /\ name[p] # Default
    /\ pc[p] = "getBucket" => op[p] = "GetBucket"
    /\ pc[p] = "getStore" => op[p] \in StorageOps
    /\ pc[p] = "setApply" => op[p] \in Writes
    /\ pc[p] = "readApply" => op[p] \in StorageOps \ Writes

\* No container is served under two names, and all that are served were made.
ServedInv ==
  \A n \in Names :
    buckets[n] # NoBucket =>
      /\ buckets[n] <= created
      /\ \A m \in Names : buckets[m] = buckets[n] => m = n

\* The index being built differs from the published one in the bucket of its builder.
BuildInv ==
  \A p \in Clients :
    /\ pc[p] = "createPublish" =>
         /\ store[p] \in 1..created
         /\ buckets[name[p]] = NoBucket
         /\ newIdx[p] = [buckets EXCEPT ![name[p]] = store[p]]
         /\ \A n \in Names : buckets[n] # store[p]
    /\ pc[p] = "deletePublish" =>
         /\ store[p] = buckets[name[p]] /\ store[p] # NoBucket
         /\ newIdx[p] = [buckets EXCEPT ![name[p]] = NoBucket]
    /\ pc[p] = "deleteStop" =>
         /\ store[p] \in 1..created
         /\ \A n \in Names : buckets[n] # store[p]

\* A bucket that was made is served under its name until somebody drops it.
MadeInv ==
  \A p \in Clients :
    /\ pc[p] = "createReturn" => buckets[name[p]] = store[p] /\ store[p] # NoBucket
    /\ pc[p] = "createLookup" =>
         store[p] # NoBucket /\ (buckets[name[p]] = store[p] \/ Dropped(store[p]))

\* A container a request is about to write to is served under no name but the request's.
WriteInv ==
  \A p \in Clients :
    pc[p] = "setApply" =>
      /\ store[p] \in 1..created
      /\ \A n \in Names : buckets[n] = store[p] => n = name[p]

\* A container that is not published yet has no data and no writer on its way to it.
FreshInv ==
  /\ \A c \in Containers : c > created => writers[c] = {}
  /\ \A p \in Clients :
       pc[p] = "createPublish" =>
         /\ writers[store[p]] = {}
         /\ \A q \in Clients : pc[q] = "setApply" => store[q] # store[p]

IInv ==
  /\ TypeOK /\ RoomInv /\ MutexInv /\ OpInv /\ ServedInv /\ BuildInv /\ MadeInv
  /\ WriteInv /\ FreshInv /\ NoLeakedCollector /\ DefaultServed /\ Isolated
-----------------------------------------------------------------------------
\* The handlers' switches know the errors they can meet: no such answer is a 500
\* (handlers.go, handler.go).
LEMMA KnownErrors ==
  /\ Api!Status("CreateBucket", "nil") # 500
  /\ Api!Status("CreateBucket", "ErrBucketAlreadyExists") # 500
  /\ Api!Status("GetBucket", "nil") # 500
  /\ Api!Status("GetBucket", "ErrBucketNotFound") # 500
  /\ Api!Status("DeleteBucket", "nil") # 500
  /\ Api!Status("DeleteBucket", "ErrBucketNotFound") # 500
  /\ Api!Status("DeleteBucket", "ErrUnauthorized") # 500
  /\ Api!Status("DeleteBucket", "ErrCannotDeleteDefault") # 500
BY DEF Api!Status, Api!Routes, Api!TcpOk, Api!CreateBucket, Api!GetBucket, Api!DeleteBucket

LEMMA KnownStorageErrors ==
  ASSUME NEW o \in StorageOps
  PROVE  /\ Api!Status(o, "nil") # 500
         /\ Api!Status(o, "ErrBucketNotFound") # 500
         /\ o \in Reads => Api!Status(o, "ErrKeyNotFound") # 500
         /\ o \in TcpOps => Api!Status(o, "ErrInvalidTTL") # 500
<1>1. CASE o \in TcpOps
  <2>1. \A e : /\ Api!Status(o, "nil") \in {0, 1, 2}
               /\ e # "nil" => Api!Status(o, e) = Api!handleServiceError(e)
    BY <1>1 DEF TcpOps, Api!Status, Api!TcpOk, Api!StatusOK, Api!StatusCreated, Api!StatusNoContent
  <2>2. \A e : Api!handleServiceError(e) # 500
    BY DEF Api!handleServiceError, Api!TcpErrors, Api!StatusInvalidTTL, Api!StatusNotFound,
           Api!StatusKeyExpired, Api!StatusUnauthorized, Api!StatusInternalError
  <2> QED
    BY <2>1, <2>2
<1>2. CASE o = "CreateKV"
  BY <1>2 DEF TcpOps, Reads, Api!Status, Api!Routes, Api!TcpOk, Api!CreateKV
<1>3. CASE o = "GetKV"
  BY <1>3 DEF TcpOps, Api!Status, Api!Routes, Api!TcpOk, Api!GetKV
<1>4. CASE o = "DeleteKV"
  BY <1>4 DEF TcpOps, Reads, Api!Status, Api!Routes, Api!TcpOk, Api!DeleteKV
<1> QED
  BY <1>1, <1>2, <1>3, <1>4 DEF StorageOps

\* The front of a request refuses with a client error, and lets a route that wants a token
\* pass only with the one issued for its bucket (middleware/auth.go, handlers.go).
LEMMA FrontAnswers ==
  ASSUME NEW o \in HttpOps, NEW n \in Raw, issued \subseteq Names,
         NEW s \in {Front(o, n, token, bodyOk) : token \in Tokens, bodyOk \in BOOLEAN}
  PROVE  /\ s # 500
         /\ s = Passes /\ o # "CreateBucket" => n \in Names /\ n # EmptyName
<1>1. PICK token \in Tokens, bodyOk \in BOOLEAN : s = Front(o, n, token, bodyOk)
  OBVIOUS
<1>2. o # "CreateBucket" => Api!Routes[o].auth
  BY DEF HttpOps, Api!Routes, Api!CreateKV, Api!GetKV, Api!DeleteKV, Api!GetBucket,
         Api!DeleteBucket, Api!ListBuckets
<1>3. Auth(n, token) \in {Passes, 400, 401}
  BY DEF Auth, Passes
<1>4. s \in {Passes, 400, 401}
  BY <1>1, <1>3 DEF Front
<1>5. Auth(n, token) = Passes => n \in Names /\ n # EmptyName
  BY BucketAssumption DEF Auth, Passes, ValidateToken, Tokens
<1>6. s = Passes /\ o # "CreateBucket" => Auth(n, token) = Passes
  BY <1>1, <1>2 DEF Front, Passes
<1> QED
  BY <1>4, <1>5, <1>6 DEF Passes

\* What a request can be once its front has let it pass: nothing, or the first step of one
\* operation on a name of the registry.
Started(p) ==
  \/ \E status : status # 500 /\ Refuse(p, status)
  \/ /\ created + Cardinality(Creators) < MaxContainers
     /\ \E n \in Names : Begin(p, "createLock", "CreateBucket", n)
  \/ \E n \in Names : Begin(p, "getBucket", "GetBucket", n)
  \/ \E n \in Names \ {Default} : Begin(p, "deleteLock", "DeleteBucket", n)
  \/ \E n \in Names, o \in StorageOps : Begin(p, "getStore", o, n)

LEMMA HttpStarts ==
  ASSUME NEW p \in Clients, issued \subseteq Names, HttpCall(p)
  PROVE  Started(p)
<1> DEFINE Fronts(o, n) == {Front(o, n, token, bodyOk) : token \in Tokens, bodyOk \in BOOLEAN}
<1>0. {"CreateBucket", "ListBuckets", "GetBucket", "DeleteBucket", "CreateKV", "GetKV",
       "DeleteKV"} \subseteq HttpOps
  BY DEF HttpOps, Api!Routes
<1>1. ASSUME NEW raw \in Raw, Http(p, "CreateBucket", raw, CreateCall(p, raw))
      PROVE  Started(p)
  <2>1. PICK s \in Fronts("CreateBucket", raw) :
          IF s # Passes THEN Refuse(p, s) ELSE CreateCall(p, raw)
    BY <1>1 DEF Http
  <2>2. s # 500
    BY <1>0, <2>1, FrontAnswers
  <2>3. Normalise[raw] \notin {EmptyName, BadName} => Normalise[raw] \in Names
    BY BucketAssumption
  <2> QED
    BY <2>1, <2>2, <2>3 DEF CreateCall, Started, Creators
<1>2. ASSUME Http(p, "ListBuckets", EmptyName, FALSE)
      PROVE  Started(p)
  <2>1. PICK s \in Fronts("ListBuckets", EmptyName) : s # Passes /\ Refuse(p, s)
    BY <1>2 DEF Http
  <2>2. s # 500
    BY <1>0, <2>1, FrontAnswers, BucketAssumption
  <2> QED
    BY <2>1, <2>2 DEF Started
<1>3. ASSUME NEW n \in Raw, Http(p, "GetBucket", n, GetBucketCall(p, n))
      PROVE  Started(p)
  <2>1. PICK s \in Fronts("GetBucket", n) :
          IF s # Passes THEN Refuse(p, s) ELSE GetBucketCall(p, n)
    BY <1>3 DEF Http
  <2>2. s # 500 /\ (s = Passes => n \in Names)
    BY <1>0, <2>1, FrontAnswers
  <2> QED
    BY <2>1, <2>2 DEF Started, GetBucketCall
<1>4. ASSUME NEW n \in Raw,
             Http(p, "DeleteBucket", n, \E token \in Tokens : DeleteCall(p, n, token))
      PROVE  Started(p)
  <2>1. PICK s \in Fronts("DeleteBucket", n) :
          IF s # Passes THEN Refuse(p, s) ELSE \E token \in Tokens : DeleteCall(p, n, token)
    BY <1>4 DEF Http
  <2>2. s # 500 /\ (s = Passes => n \in Names)
    BY <1>0, <2>1, FrontAnswers
  <2> QED
    BY <2>1, <2>2, KnownErrors DEF Started, DeleteCall
<1>5. ASSUME NEW n \in Raw, NEW o \in {"CreateKV", "GetKV", "DeleteKV"},
             Http(p, o, n, StorageCall(p, o, n))
      PROVE  Started(p)
  <2>1. PICK s \in Fronts(o, n) : IF s # Passes THEN Refuse(p, s) ELSE StorageCall(p, o, n)
    BY <1>5 DEF Http
  <2>2. s # 500 /\ (s = Passes => n \in Names)
    BY <1>0, <2>1, FrontAnswers
  <2>3. o \in StorageOps
    BY DEF StorageOps
  <2> QED
    BY <2>1, <2>2, <2>3, KnownStorageErrors DEF Started, StorageCall
<1> QED
  BY <1>1, <1>2, <1>3, <1>4, <1>5 DEF HttpCall

LEMMA TcpStarts ==
  ASSUME NEW p \in Clients, issued \subseteq Names, TcpCall(p)
  PROVE  Started(p)
<1>1. PICK n \in Raw, o \in TcpOps : Tcp(p, n, StorageCall(p, o, n))
  BY DEF TcpCall
<1>2. PICK token \in Tokens :
        IF ValidateToken(token, n) THEN StorageCall(p, o, n)
        ELSE Refuse(p, Api!StatusUnauthorized)
  BY <1>1 DEF Tcp
<1>3. ValidateToken(token, n) => n \in Names
  BY BucketAssumption DEF ValidateToken, Tokens
<1>4. o \in StorageOps /\ Api!StatusUnauthorized # 500
  BY DEF StorageOps, Api!StatusUnauthorized
<1>5. CASE ValidateToken(token, n)
  BY <1>2, <1>3, <1>4, <1>5, KnownStorageErrors DEF StorageCall, Started
<1>6. CASE ~ValidateToken(token, n)
  BY <1>2, <1>4, <1>6 DEF Started
<1> QED
  BY <1>5, <1>6

-----------------------------------------------------------------------------
\* The room for new containers when a request moves on, enters CreateBucket, or leaves its
\* first step, perhaps with a container (bucket.go:109-137).
LEMMA RoomKept ==
  ASSUME TypeOK, RoomInv, NEW p \in Clients, NEW s,
         pc[p] # "createLock", s # "createLock", pc' = [pc EXCEPT ![p] = s], created' = created
  PROVE  RoomInv'
<1>1. Creators' = Creators
  BY DEF Creators, TypeOK
<1> QED
  BY <1>1 DEF RoomInv

LEMMA RoomTaken ==
  ASSUME TypeOK, RoomInv, NEW p \in Clients, pc[p] # "createLock",
         pc' = [pc EXCEPT ![p] = "createLock"], created' = created,
         created + Cardinality(Creators) < MaxContainers
  PROVE  RoomInv'
<1>1. Creators' = Creators \cup {p} /\ p \notin Creators
  BY DEF Creators, TypeOK
<1>2. /\ IsFiniteSet(Creators')
      /\ Cardinality(Creators') = Cardinality(Creators) + 1
      /\ Cardinality(Creators) \in Nat
  BY <1>1, FS_AddElement, FS_CardinalityType DEF RoomInv
<1> QED
  BY <1>2, BucketAssumption DEF RoomInv, TypeOK, Containers

LEMMA RoomUsed ==
  ASSUME TypeOK, RoomInv, NEW p \in Clients, NEW s,
         pc[p] = "createLock", s # "createLock", pc' = [pc EXCEPT ![p] = s],
         created' \in {created, created + 1}
  PROVE  RoomInv' /\ created' \in Containers
<1>1. Creators' = Creators \ {p} /\ p \in Creators
  BY DEF Creators, TypeOK
<1>2. /\ IsFiniteSet(Creators')
      /\ Cardinality(Creators') = Cardinality(Creators) - 1
      /\ Cardinality(Creators) \in Nat /\ Cardinality(Creators') \in Nat
  BY <1>1, FS_RemoveElement, FS_CardinalityType DEF RoomInv
<1> QED
  BY <1>2, BucketAssumption DEF RoomInv, TypeOK, Containers

\* A step of p outside the lock that leaves the registry alone.
QuietSteps == {"idle", "createLock", "getBucket", "deleteLock", "getStore", "readApply", "shutdownLock"}

LEMMA QuietStep ==
  ASSUME IInv, NEW p \in Clients, NEW s \in QuietSteps, pc[p] \notin Inside,
         pc' = [pc EXCEPT ![p] = s], UNCHANGED <<registry, writeMu>>,
         NEW o \in HttpOps \cup TcpOps \cup {NoOp}, op' = [op EXCEPT ![p] = o],
         NEW n \in Names, name' = [name EXCEPT ![p] = n],
         NEW i \in Index, newIdx' = [newIdx EXCEPT ![p] = i],
         NEW c \in Containers \cup {NoBucket}, store' = [store EXCEPT ![p] = c],
         failed' \subseteq Clients, RoomInv', OpInv'
  PROVE  IInv'
<1> USE DEF IInv, registry
<1>1. TypeOK'
  BY DEF TypeOK, QuietSteps, Steps
<1>2. MutexInv'
  BY DEF MutexInv, TypeOK, QuietSteps, Inside
<1>3. ServedInv' /\ DefaultServed' /\ Isolated'
  BY DEF ServedInv, DefaultServed, Isolated
<1>4. BuildInv'
  BY DEF BuildInv, TypeOK, QuietSteps, Inside
<1>5. \A x : Dropped(x) => Dropped(x)'
  BY DEF Dropped, TypeOK, QuietSteps, Inside
<1>6. MadeInv'
  BY <1>5 DEF MadeInv, TypeOK, QuietSteps, Inside
<1>7. WriteInv' /\ FreshInv'
  BY DEF WriteInv, FreshInv, TypeOK, QuietSteps
<1>8. NoLeakedCollector'
  BY DEF NoLeakedCollector, Served, TypeOK, QuietSteps, Inside
<1> QED
  BY <1>1, <1>2, <1>3, <1>4, <1>6, <1>7, <1>8

LEMMA RefuseInv ==
  ASSUME IInv, NEW p \in Clients, NEW status, Refuse(p, status)
  PROVE  IInv'
<1> USE DEF IInv, Refuse, registry, locals
<1>1. failed' \subseteq Clients
  BY DEF Write, TypeOK
<1>2. TypeOK'
  BY <1>1 DEF TypeOK
<1>3. RoomInv' /\ MutexInv' /\ OpInv' /\ ServedInv' /\ BuildInv' /\ WriteInv' /\ FreshInv'
  BY DEF RoomInv, Creators, MutexInv, OpInv, ServedInv, BuildInv, WriteInv, FreshInv
<1>4. MadeInv' /\ NoLeakedCollector' /\ DefaultServed' /\ Isolated'
  BY DEF MadeInv, Dropped, NoLeakedCollector, Served, DefaultServed, Isolated
<1> QED
  BY <1>2, <1>3, <1>4

\* A request that has locked nothing is answered.
LEMMA FinishInv ==
  ASSUME IInv, NEW p \in Clients, NEW status, pc[p] \notin Inside,
         Finish(p, status), UNCHANGED <<registry, writeMu>>
  PROVE  IInv'
<1> USE DEF IInv, Finish, Goto
<1>1. failed' \subseteq Clients
  BY DEF Write, TypeOK
<1>2. RoomInv'
  BY RoomKept, RoomUsed DEF registry
<1>3. OpInv'
  BY DEF OpInv, TypeOK, CreateSteps, DeleteSteps
<1>4. NoBuckets \in Index /\ Default \in Names /\ "idle" \in QuietSteps
  BY BucketAssumption DEF NoBuckets, Index, QuietSteps
<1> QED
  BY <1>1, <1>2, <1>3, <1>4, QuietStep

\* A request reaches its service.
LEMMA BeginInv ==
  ASSUME IInv, NEW p \in Clients, NEW s \in QuietSteps, NEW o, NEW n \in Names, Begin(p, s, o, n),
         s = "createLock" => o = "CreateBucket" /\ created + Cardinality(Creators) < MaxContainers,
         s = "getBucket" => o = "GetBucket",
         s = "deleteLock" => o = "DeleteBucket" /\ n # Default,
         s = "getStore" => o \in StorageOps,
         s = "shutdownLock" => o = NoOp,
         s \notin {"idle", "readApply"}
  PROVE  IInv'
<1> USE DEF IInv, Begin, Goto
<1>1. pc[p] = "idle" /\ pc' = [pc EXCEPT ![p] = s] /\ created' = created
  BY DEF registry
<1>2. RoomInv'
  BY <1>1, RoomKept, RoomTaken
<1>3. OpInv'
  BY DEF OpInv, TypeOK, CreateSteps, DeleteSteps, QuietSteps
<1>4. o \in HttpOps \cup TcpOps \cup {NoOp}
  BY DEF QuietSteps, StorageOps, HttpOps, Api!Routes
<1>5. failed' \subseteq Clients /\ newIdx[p] \in Index /\ store[p] \in Containers \cup {NoBucket}
  BY DEF TypeOK
<1>6. newIdx' = [newIdx EXCEPT ![p] = newIdx[p]] /\ store' = [store EXCEPT ![p] = store[p]]
  BY DEF TypeOK
<1>7. pc[p] \notin Inside /\ UNCHANGED <<registry, writeMu>>
  BY <1>1 DEF Inside
<1>8. op' = [op EXCEPT ![p] = o] /\ name' = [name EXCEPT ![p] = n]
  OBVIOUS
<1> QED
  BY <1>1, <1>2, <1>3, <1>4, <1>5, <1>6, <1>7, <1>8, QuietStep

LEMMA CallInv ==
  ASSUME IInv, NEW p \in Clients, HttpCall(p) \/ TcpCall(p) \/ ShutdownCall(p)
  PROVE  IInv'
<1>1. CASE ShutdownCall(p)
  BY <1>1, BeginInv, BucketAssumption DEF ShutdownCall, QuietSteps
<1>2. CASE Started(p)
  <2>1. ASSUME NEW status, Refuse(p, status)
        PROVE  IInv'
    BY <2>1, RefuseInv
  <2>2. ASSUME created + Cardinality(Creators) < MaxContainers,
               NEW n \in Names, Begin(p, "createLock", "CreateBucket", n)
        PROVE  IInv'
    BY <2>2, BeginInv DEF QuietSteps
  <2>3. ASSUME NEW n \in Names, Begin(p, "getBucket", "GetBucket", n)
        PROVE  IInv'
    BY <2>3, BeginInv DEF QuietSteps
  <2>4. ASSUME NEW n \in Names \ {Default}, Begin(p, "deleteLock", "DeleteBucket", n)
        PROVE  IInv'
    BY <2>4, BeginInv DEF QuietSteps
  <2>5. ASSUME NEW n \in Names, NEW o \in StorageOps, Begin(p, "getStore", o, n)
        PROVE  IInv'
    BY <2>5, BeginInv DEF QuietSteps
  <2> QED
    BY <1>2, <2>1, <2>2, <2>3, <2>4, <2>5 DEF Started
<1> QED
  BY <1>1, <1>2, HttpStarts, TcpStarts DEF IInv, TypeOK

\* CreateBucket finds the name taken, or locks and makes the next container, which nobody
\* else can have met (bucket.go:109-124).
LEMMA CreateLockInv ==
  ASSUME IInv, NEW p \in Clients, CreateLock(p)
  PROVE  IInv'
<1> USE DEF IInv
<1>1. CASE /\ Answer(p, "ErrBucketAlreadyExists") \/ Recovered(p)
           /\ UNCHANGED <<registry, writeMu>>
  BY <1>1, FinishInv DEF CreateLock, Inside, Answer, Recovered
<1>2. CASE buckets[name[p]] = NoBucket /\ Lock(p) /\ NewContainer(p)
  <2> USE <1>2
  <2>1. /\ pc[p] = "createLock" /\ pc' = [pc EXCEPT ![p] = "createPublish"]
        /\ created' = created + 1
        /\ store' = [store EXCEPT ![p] = created + 1]
        /\ newIdx' = [newIdx EXCEPT ![p] = [buckets EXCEPT ![name[p]] = created + 1]]
        /\ writeMu = Nobody /\ writeMu' = p
        /\ UNCHANGED <<buckets, closed, writers, issued, op, name, failed>>
    BY DEF CreateLock, NewContainer, Lock, Goto
  <2>2. RoomInv' /\ created + 1 \in Containers /\ created \in Nat
    <3>1. RoomInv' /\ created' \in Containers
      BY <2>1, RoomUsed
    <3> QED
      BY <2>1, <3>1, BucketAssumption DEF TypeOK, Containers
  <2>3. TypeOK'
    <3>1. [buckets EXCEPT ![name[p]] = created + 1] \in Index
      BY <2>2 DEF TypeOK, Index
    <3>2. closed' \subseteq 1..created'
      BY <2>1, <2>2 DEF TypeOK
    <3> QED
      BY <2>1, <2>2, <3>1, <3>2 DEF TypeOK, Steps
  <2>4. \A q \in Clients : pc[q] \notin Inside
    BY <2>1, BucketAssumption DEF MutexInv
  <2>5. MutexInv'
    BY <2>1, <2>4, BucketAssumption DEF MutexInv, TypeOK, Inside
  <2>6. OpInv'
    BY <2>1 DEF OpInv, TypeOK, CreateSteps, DeleteSteps
  <2>7. /\ \A n \in Names : buckets[n] # NoBucket => buckets[n] \in 1..created
        /\ NoBucket # created + 1
    BY <2>2, BucketAssumption DEF ServedInv, TypeOK, Index, Containers
  <2>8. ServedInv' /\ DefaultServed' /\ Isolated'
    BY <2>1, <2>2, <2>7 DEF ServedInv, DefaultServed, Isolated
  <2>9. BuildInv'
    <3>1. \A q \in Clients \ {p} : pc'[q] \notin Inside
      BY <2>1, <2>4 DEF TypeOK
    <3>2. /\ pc'[p] = "createPublish" /\ store'[p] = created + 1
          /\ newIdx'[p] = [buckets EXCEPT ![name[p]] = created + 1]
      BY <2>1 DEF TypeOK
    <3>3. \A n \in Names : buckets[n] # created + 1
      BY <2>2, <2>7
    <3>4. store'[p] \in 1..created' /\ buckets'[name'[p]] = NoBucket
      BY <2>1, <2>2, <3>2
    <3>5. newIdx'[p] = [buckets' EXCEPT ![name'[p]] = store'[p]]
      BY <2>1, <3>2
    <3>6. \A n \in Names : buckets'[n] # store'[p]
      BY <2>1, <3>2, <3>3
    <3> QED
      BY <3>1, <3>2, <3>4, <3>5, <3>6 DEF BuildInv, Inside
  <2>10. MadeInv'
    BY <2>1, <2>4 DEF MadeInv, Dropped, TypeOK, Inside
  <2>11. WriteInv'
    BY <2>1, <2>2 DEF WriteInv, TypeOK
  <2>12. FreshInv'
    <3>1. \A q \in Clients : pc[q] = "setApply" => store[q] \in 1..created
      BY DEF WriteInv
    <3>2. \A c \in Containers : c > created + 1 => c > created
      BY <2>2 DEF Containers
    <3>3. writers[created + 1] = {}
      BY <2>2 DEF FreshInv
    <3> QED
      BY <2>1, <2>2, <2>4, <3>1, <3>2, <3>3 DEF FreshInv, TypeOK, Inside
  <2>13. NoLeakedCollector'
    <3>1. newIdx'[p][name'[p]] = created + 1 /\ pc'[p] = "createPublish"
      BY <2>1 DEF TypeOK, Index
    <3>2. \A c \in 1..created : c \in Served \cup closed
      BY <2>4 DEF NoLeakedCollector, Inside
    <3>3. \A c \in 1..(created + 1) : c \in 1..created \/ c = created + 1
      BY <2>2
    <3> QED
      BY <2>1, <3>1, <3>2, <3>3 DEF NoLeakedCollector, Served
  <2> QED
    BY <2>2, <2>3, <2>5, <2>6, <2>8, <2>9, <2>10, <2>11, <2>12, <2>13
<1> QED
  BY <1>1, <1>2 DEF CreateLock

\* A goroutine inside the lock is alone there.
LEMMA Alone ==
  ASSUME IInv, NEW p \in Clients, pc[p] \in Inside
  PROVE  writeMu = p /\ \A q \in Clients \ {p} : pc[q] \notin Inside
BY DEF IInv, MutexInv

\* The new index is published: it adds the container, still without data, under a name that
\* was free (bucket.go:125-137).
LEMMA CreatePublishInv ==
  ASSUME IInv, NEW p \in Clients, CreatePublish(p)
  PROVE  IInv'
<1> USE DEF IInv
<1>1. /\ pc[p] = "createPublish" /\ pc' = [pc EXCEPT ![p] = "createReturn"]
      /\ buckets' = newIdx[p]
      /\ UNCHANGED <<created, closed, writers, issued, writeMu, op, name, newIdx, store, failed>>
  BY DEF CreatePublish, Goto, locals
<1>2. writeMu = p /\ \A q \in Clients \ {p} : pc[q] \notin Inside
  BY <1>1, Alone DEF Inside
<1>3. \A q \in Clients \ {p} : pc'[q] = pc[q]
  BY <1>1 DEF TypeOK
<1>4. /\ store[p] \in 1..created /\ buckets[name[p]] = NoBucket
      /\ buckets' = [buckets EXCEPT ![name[p]] = store[p]]
      /\ \A n \in Names : buckets[n] # store[p]
      /\ writers[store[p]] = {}
      /\ \A q \in Clients : pc[q] = "setApply" => store[q] # store[p]
      /\ name[p] \in Names
  BY <1>1 DEF BuildInv, FreshInv, TypeOK
<1>5. \A n \in Names : buckets'[n] = IF n = name[p] THEN store[p] ELSE buckets[n]
  BY <1>4 DEF TypeOK, Index
<1>6. store[p] # NoBucket /\ store[p] <= created /\ created \in Nat
  BY <1>4, BucketAssumption DEF TypeOK, Containers
<1>7. TypeOK'
  BY <1>1 DEF TypeOK, Steps
<1>8. RoomInv'
  BY <1>1, RoomKept
<1>9. MutexInv'
  BY <1>1, <1>2 DEF MutexInv, TypeOK, Inside
<1>10. OpInv'
  BY <1>1 DEF OpInv, TypeOK, CreateSteps, DeleteSteps
<1>11. ServedInv'
  BY <1>1, <1>4, <1>5, <1>6 DEF ServedInv
<1>12. BuildInv'
  BY <1>1, <1>2, <1>3 DEF BuildInv, TypeOK, Inside
<1>13. MadeInv'
  <2>2. pc'[p] = "createReturn" /\ buckets'[name'[p]] = store'[p] /\ store'[p] # NoBucket
    BY <1>1, <1>4, <1>5, <1>6 DEF TypeOK
  <2>3. ASSUME NEW q \in Clients \ {p}, pc'[q] = "createLookup"
        PROVE  (store[q] # NoBucket /\ (buckets[name[q]] = store[q] \/ Dropped(store[q])))'
    <3>1. pc[q] = "createLookup" /\ store'[q] = store[q] /\ name'[q] = name[q] /\ name[q] \in Names
      BY <1>1, <1>3, <2>3 DEF TypeOK
    <3>2. store[q] # NoBucket /\ (buckets[name[q]] = store[q] \/ Dropped(store[q]))
      BY <3>1 DEF MadeInv
    <3>3. Dropped(store[q]) => Dropped(store[q])'
      BY <1>1, <1>3 DEF Dropped
    <3> QED
      BY <1>1, <1>4, <1>5, <3>1, <3>2, <3>3
  <2> QED
    BY <1>1, <1>2, <1>3, <2>2, <2>3 DEF MadeInv, Inside
<1>14. WriteInv'
  BY <1>1, <1>3, <1>4, <1>5 DEF WriteInv, TypeOK
<1>15. FreshInv'
  BY <1>1, <1>2, <1>3 DEF FreshInv, TypeOK, Inside
<1>16. NoLeakedCollector'
  <2>1. ASSUME NEW c \in 1..created, c \notin closed, c # store[p]
        PROVE  c \in Served'
    <3>1. newIdx[p][name[p]] = store[p]
      BY <1>1, <1>4 DEF TypeOK, Index
    <3>2. c \in Served
      BY <1>1, <1>2, <2>1, <3>1 DEF NoLeakedCollector, Inside
    <3>3. PICK n \in Names : buckets[n] = c /\ c # NoBucket
      BY <3>2 DEF Served
    <3> QED
      BY <1>4, <1>5, <3>3 DEF Served
  <2>2. store[p] \in Served'
    BY <1>4, <1>5, <1>6 DEF Served
  <2> QED
    BY <1>1, <2>1, <2>2 DEF NoLeakedCollector
<1>17. DefaultServed'
  BY <1>5, <1>6, BucketAssumption DEF DefaultServed
<1>18. Isolated'
  BY <1>1, <1>4, <1>5 DEF Isolated
<1> QED
  BY <1>7, <1>8, <1>9, <1>10, <1>11, <1>12, <1>13, <1>14, <1>15, <1>16, <1>17, <1>18

\* The token is issued and the lock released (bucket.go:132-137).
LEMMA CreateReturnInv ==
  ASSUME IInv, NEW p \in Clients, CreateReturn(p)
  PROVE  IInv'
<1> USE DEF IInv
<1>1. /\ pc[p] = "createReturn" /\ pc' = [pc EXCEPT ![p] = "createLookup"]
      /\ writeMu' = Nobody
      /\ issued' = issued \cup {name[p]}
      /\ UNCHANGED <<buckets, created, closed, writers, op, name, newIdx, store, failed>>
  BY DEF CreateReturn, Goto, locals, Unlock, GenerateToken
<1>2. writeMu = p /\ \A q \in Clients \ {p} : pc[q] \notin Inside
  BY <1>1, Alone DEF Inside
<1>3. \A q \in Clients \ {p} : pc'[q] = pc[q]
  BY <1>1 DEF TypeOK
<1>7. TypeOK'
  BY <1>1 DEF TypeOK, Steps
<1>8. RoomInv'
  BY <1>1, RoomKept
<1>9. MutexInv'
  BY <1>1, <1>2, BucketAssumption DEF MutexInv, TypeOK, Inside
<1>10. OpInv'
  BY <1>1 DEF OpInv, TypeOK, CreateSteps, DeleteSteps
<1>11. ServedInv' /\ DefaultServed' /\ Isolated'
  BY <1>1 DEF ServedInv, DefaultServed, Isolated
<1>12. BuildInv'
  BY <1>1, <1>2, <1>3 DEF BuildInv, TypeOK, Inside
<1>13. MadeInv'
  BY <1>1, <1>3 DEF MadeInv, Dropped, TypeOK
<1>14. WriteInv' /\ FreshInv'
  BY <1>1, <1>3 DEF WriteInv, FreshInv, TypeOK
<1>16. NoLeakedCollector'
  BY <1>1, <1>3 DEF NoLeakedCollector, Served, TypeOK
<1> QED
  BY <1>7, <1>8, <1>9, <1>10, <1>11, <1>12, <1>13, <1>14, <1>16

\* The steps that only read the registry and answer.
LEMMA LookupInv ==
  ASSUME IInv, NEW p \in Clients, CreateLookup(p) \/ GetBucketLookup(p) \/ ReadApply(p)
  PROVE  IInv'
BY FinishInv DEF CreateLookup, GetBucketLookup, ReadApply, Inside, Answer, Recovered

\* DeleteBucket finds no bucket, or locks and copies the index without it (bucket.go:156-174).
LEMMA DeleteLockInv ==
  ASSUME IInv, NEW p \in Clients, DeleteLock(p)
  PROVE  IInv'
<1> USE DEF IInv
<1>1. CASE Answer(p, "ErrBucketNotFound") /\ UNCHANGED writeMu
  BY <1>1, FinishInv DEF DeleteLock, Inside, Answer
<1>2. CASE ~(Answer(p, "ErrBucketNotFound") /\ UNCHANGED writeMu)
  <2>1. /\ pc[p] = "deleteLock" /\ pc' = [pc EXCEPT ![p] = "deletePublish"]
        /\ buckets[name[p]] # NoBucket
        /\ newIdx' = [newIdx EXCEPT ![p] = [buckets EXCEPT ![name[p]] = NoBucket]]
        /\ store' = [store EXCEPT ![p] = buckets[name[p]]]
        /\ writeMu = Nobody /\ writeMu' = p
        /\ UNCHANGED <<buckets, created, closed, writers, issued, op, name, failed>>
    BY <1>2 DEF DeleteLock, Lock, Goto, registry
  <2>2. \A q \in Clients : pc[q] \notin Inside
    BY <2>1, BucketAssumption DEF MutexInv
  <2>3. \A q \in Clients \ {p} :
          pc'[q] = pc[q] /\ store'[q] = store[q] /\ newIdx'[q] = newIdx[q]
    BY <2>1 DEF TypeOK
  <2>4. /\ pc'[p] = "deletePublish" /\ store'[p] = buckets[name[p]]
        /\ newIdx'[p] = [buckets EXCEPT ![name[p]] = NoBucket]
    BY <2>1 DEF TypeOK
  <2>5. TypeOK'
    <3>1. [buckets EXCEPT ![name[p]] = NoBucket] \in Index /\ buckets[name[p]] \in Containers \cup {NoBucket}
      BY DEF TypeOK, Index
    <3> QED
      BY <2>1, <3>1 DEF TypeOK, Steps
  <2>6. RoomInv'
    BY <2>1, RoomKept
  <2>7. MutexInv'
    BY <2>1, <2>2, <2>3, <2>4, BucketAssumption DEF MutexInv, Inside
  <2>8. OpInv'
    BY <2>1 DEF OpInv, TypeOK, CreateSteps, DeleteSteps
  <2>9. ServedInv' /\ DefaultServed' /\ Isolated'
    BY <2>1 DEF ServedInv, DefaultServed, Isolated
  <2>10. BuildInv'
    <3>1. \A q \in Clients : pc'[q] \in {"createPublish", "deletePublish", "deleteStop"} => q = p
      BY <2>2, <2>3 DEF Inside
    <3>2. (/\ store[p] = buckets[name[p]] /\ store[p] # NoBucket
           /\ newIdx[p] = [buckets EXCEPT ![name[p]] = NoBucket])'
      BY <2>1, <2>4
    <3>3. pc'[p] # "createPublish" /\ pc'[p] # "deleteStop"
      BY <2>4
    <3> QED
      BY <3>1, <3>2, <3>3 DEF BuildInv
  <2>11. MadeInv'
    <3>1. \A c : Dropped(c) => Dropped(c)'
      BY <2>1, <2>2, <2>3 DEF Dropped, Inside
    <3> QED
      BY <2>1, <2>2, <2>3, <2>4, <3>1 DEF MadeInv, Inside
  <2>12. WriteInv' /\ FreshInv'
    BY <2>1, <2>2, <2>3, <2>4 DEF WriteInv, FreshInv, Inside
  <2>13. NoLeakedCollector'
    BY <2>1, <2>2 DEF NoLeakedCollector, Served, Inside
  <2> QED
    BY <2>5, <2>6, <2>7, <2>8, <2>9, <2>10, <2>11, <2>12, <2>13
<1> QED
  BY <1>1, <1>2

\* The index without the bucket is published; the container is now only the deleter's, and
\* that of requests that looked it up before (bucket.go:175).
LEMMA DeletePublishInv ==
  ASSUME IInv, NEW p \in Clients, DeletePublish(p)
  PROVE  IInv'
<1> USE DEF IInv
<1>1. /\ pc[p] = "deletePublish" /\ pc' = [pc EXCEPT ![p] = "deleteStop"]
      /\ buckets' = newIdx[p]
      /\ UNCHANGED <<created, closed, writers, issued, writeMu, op, name, newIdx, store, failed>>
  BY DEF DeletePublish, Goto, locals
<1>2. writeMu = p /\ \A q \in Clients \ {p} : pc[q] \notin Inside
  BY <1>1, Alone DEF Inside
<1>3. pc'[p] = "deleteStop" /\ \A q \in Clients \ {p} : pc'[q] = pc[q]
  BY <1>1 DEF TypeOK
<1>4. /\ store[p] = buckets[name[p]] /\ store[p] # NoBucket
      /\ buckets' = [buckets EXCEPT ![name[p]] = NoBucket]
      /\ name[p] \in Names /\ name[p] # Default
  BY <1>1 DEF BuildInv, OpInv, DeleteSteps, TypeOK
<1>5. \A n \in Names : buckets'[n] = IF n = name[p] THEN NoBucket ELSE buckets[n]
  BY <1>4 DEF TypeOK, Index
<1>6. store[p] \in 1..created /\ \A n \in Names : buckets'[n] # store[p]
  BY <1>4, <1>5, BucketAssumption DEF ServedInv, TypeOK, Containers
<1>7. TypeOK'
  BY <1>1 DEF TypeOK, Steps
<1>8. RoomInv'
  BY <1>1, RoomKept
<1>9. MutexInv'
  BY <1>1, <1>2, <1>3 DEF MutexInv, Inside
<1>10. OpInv'
  BY <1>1 DEF OpInv, TypeOK, CreateSteps, DeleteSteps
<1>11. ServedInv' /\ Isolated'
  BY <1>1, <1>5 DEF ServedInv, Isolated
<1>12. BuildInv'
  BY <1>1, <1>2, <1>3, <1>6 DEF BuildInv, Inside
<1>13. MadeInv'
  <2>3. ASSUME NEW q \in Clients \ {p}, pc'[q] = "createLookup"
        PROVE  (store[q] # NoBucket /\ (buckets[name[q]] = store[q] \/ Dropped(store[q])))'
    <3>1. pc[q] = "createLookup" /\ store'[q] = store[q] /\ name'[q] = name[q] /\ name[q] \in Names
      BY <1>1, <1>3, <2>3 DEF TypeOK
    <3>2. store[q] # NoBucket /\ (buckets[name[q]] = store[q] \/ Dropped(store[q]))
      BY <3>1 DEF MadeInv
    <3>3. Dropped(store[q]) => Dropped(store[q])'
      BY <1>1, <1>2, <1>3 DEF Dropped, Inside
    <3>4. store[q] = store[p] => Dropped(store[q])'
      BY <1>1, <1>3 DEF Dropped
    <3> QED
      BY <1>1, <1>4, <1>5, <3>1, <3>2, <3>3, <3>4
  <2> QED
    BY <1>1, <1>2, <1>3, <2>3 DEF MadeInv, Inside
<1>14. WriteInv'
  <2>1. \A n \in Names, q \in Clients :
          pc[q] = "setApply" /\ buckets'[n] = store[q] => buckets[n] = store[q]
    BY <1>5, BucketAssumption DEF WriteInv, TypeOK, Containers
  <2> QED
    BY <1>1, <1>3, <2>1 DEF WriteInv
<1>15. FreshInv'
  BY <1>1, <1>2, <1>3 DEF FreshInv, Inside
<1>16. NoLeakedCollector'
  <2>1. ASSUME NEW c \in 1..created, c \notin closed, c # store[p]
        PROVE  c \in Served'
    <3>2. c \in Served
      BY <1>1, <1>2, <2>1 DEF NoLeakedCollector, Inside
    <3>3. PICK n \in Names : buckets[n] = c /\ c # NoBucket
      BY <3>2 DEF Served
    <3> QED
      BY <1>4, <1>5, <2>1, <3>3 DEF Served
  <2> QED
    BY <1>1, <1>3, <2>1 DEF NoLeakedCollector
<1>17. DefaultServed'
  BY <1>4, <1>5, BucketAssumption DEF DefaultServed
<1> QED
  BY <1>7, <1>8, <1>9, <1>10, <1>11, <1>12, <1>13, <1>14, <1>15, <1>16, <1>17

\* The dropped container's collector is told to stop, and the lock released
\* (bucket.go:176-180).
LEMMA DeleteStopInv ==
  ASSUME IInv, NEW p \in Clients, DeleteStop(p)
  PROVE  IInv'
<1> USE DEF IInv
<1>1. /\ pc[p] = "deleteStop" /\ pc' = [pc EXCEPT ![p] = "idle"]
      /\ closed' = closed \cup {store[p]} /\ writeMu' = Nobody
      /\ op' = [op EXCEPT ![p] = NoOp] /\ name' = [name EXCEPT ![p] = Default]
      /\ newIdx' = [newIdx EXCEPT ![p] = NoBuckets] /\ store' = [store EXCEPT ![p] = NoBucket]
      /\ failed' \subseteq Clients
      /\ UNCHANGED <<buckets, created, writers, issued>>
  BY DEF DeleteStop, Answer, Finish, Goto, Unlock, Write, TypeOK
<1>2. writeMu = p /\ \A q \in Clients \ {p} : pc[q] \notin Inside
  BY <1>1, Alone DEF Inside
<1>3. /\ pc'[p] = "idle"
      /\ \A q \in Clients \ {p} : pc'[q] = pc[q] /\ store'[q] = store[q] /\ name'[q] = name[q]
  BY <1>1 DEF TypeOK
<1>4. store[p] \in 1..created
  BY <1>1 DEF BuildInv
<1>7. TypeOK'
  <2>1. NoBuckets \in Index /\ Default \in Names
    BY BucketAssumption DEF NoBuckets, Index
  <2> QED
    BY <1>1, <1>4, <2>1 DEF TypeOK, Steps
<1>8. RoomInv'
  BY <1>1, RoomKept
<1>9. MutexInv'
  BY <1>1, <1>2, <1>3, BucketAssumption DEF MutexInv, Inside
<1>10. OpInv'
  BY <1>1 DEF OpInv, TypeOK, CreateSteps, DeleteSteps
<1>11. ServedInv' /\ DefaultServed' /\ Isolated'
  BY <1>1 DEF ServedInv, DefaultServed, Isolated
<1>12. BuildInv'
  BY <1>1, <1>2, <1>3 DEF BuildInv, Inside
<1>13. MadeInv'
  <2>1. \A c : Dropped(c) => Dropped(c)'
    BY <1>1, <1>2, <1>3 DEF Dropped, Inside
  <2> QED
    BY <1>1, <1>2, <1>3, <2>1 DEF MadeInv, Inside
<1>14. WriteInv' /\ FreshInv'
  BY <1>1, <1>2, <1>3 DEF WriteInv, FreshInv, Inside
<1>16. NoLeakedCollector'
  BY <1>1, <1>2, <1>3 DEF NoLeakedCollector, Served, Inside
<1> QED
  BY <1>7, <1>8, <1>9, <1>10, <1>11, <1>12, <1>13, <1>14, <1>16

\* The index being built stays right as long as its builder and the published index rest.
LEMMA BuildKept ==
  ASSUME BuildInv, UNCHANGED <<buckets, created>>,
         \A q \in Clients :
           pc'[q] \in {"createPublish", "deletePublish", "deleteStop"} =>
             /\ pc'[q] = pc[q] /\ store'[q] = store[q]
             /\ name'[q] = name[q] /\ newIdx'[q] = newIdx[q]
  PROVE  BuildInv'
<1>1. ASSUME NEW q \in Clients, pc'[q] = "createPublish"
      PROVE  (/\ store[q] \in 1..created
              /\ buckets[name[q]] = NoBucket
              /\ newIdx[q] = [buckets EXCEPT ![name[q]] = store[q]]
              /\ \A n \in Names : buckets[n] # store[q])'
  <2>1. /\ pc[q] = "createPublish" /\ store'[q] = store[q]
        /\ name'[q] = name[q] /\ newIdx'[q] = newIdx[q] /\ buckets' = buckets /\ created' = created
    BY <1>1
  <2>2. /\ store[q] \in 1..created
        /\ buckets[name[q]] = NoBucket
        /\ newIdx[q] = [buckets EXCEPT ![name[q]] = store[q]]
        /\ \A n \in Names : buckets[n] # store[q]
    BY <2>1, Zenon DEF BuildInv
  <2> QED
    BY <2>1, <2>2, Zenon
<1>2. ASSUME NEW q \in Clients, pc'[q] = "deletePublish"
      PROVE  (/\ store[q] = buckets[name[q]] /\ store[q] # NoBucket
              /\ newIdx[q] = [buckets EXCEPT ![name[q]] = NoBucket])'
  <2>1. /\ pc[q] = "deletePublish" /\ store'[q] = store[q]
        /\ name'[q] = name[q] /\ newIdx'[q] = newIdx[q] /\ buckets' = buckets
    BY <1>2
  <2>2. /\ store[q] = buckets[name[q]] /\ store[q] # NoBucket
        /\ newIdx[q] = [buckets EXCEPT ![name[q]] = NoBucket]
    BY <2>1, Zenon DEF BuildInv
  <2> QED
    BY <2>1, <2>2, Zenon
<1>3. ASSUME NEW q \in Clients, pc'[q] = "deleteStop"
      PROVE  (store[q] \in 1..created /\ \A n \in Names : buckets[n] # store[q])'
  <2>1. pc[q] = "deleteStop" /\ store'[q] = store[q] /\ buckets' = buckets /\ created' = created
    BY <1>3
  <2>2. store[q] \in 1..created /\ \A n \in Names : buckets[n] # store[q]
    BY <2>1, Zenon DEF BuildInv
  <2> QED
    BY <2>1, <2>2, Zenon
<1> QED
  BY <1>1, <1>2, <1>3 DEF BuildInv

\* GetStore: the container served under the request's name, and under no other.  A read takes
\* no further part; a writer keeps the container while the registry moves on
\* (storage_service.go:38-61).
LEMMA GetStoreInv ==
  ASSUME IInv, NEW p \in Clients, GetStore(p)
  PROVE  IInv'
<1> USE DEF IInv
<1>1. CASE Answer(p, "ErrBucketNotFound")
  BY <1>1, FinishInv DEF GetStore, Inside, Answer
<1>2. CASE ~Answer(p, "ErrBucketNotFound")
  <2> DEFINE step == IF op[p] \in Writes THEN "setApply" ELSE "readApply"
  <2>1. /\ pc[p] = "getStore" /\ pc' = [pc EXCEPT ![p] = step]
        /\ buckets[name[p]] # NoBucket
        /\ store' = [store EXCEPT ![p] = buckets[name[p]]]
        /\ UNCHANGED <<buckets, created, closed, writers, issued, writeMu, op, name, newIdx, failed>>
    BY <1>2 DEF GetStore, Goto, registry
  <2>2. step \in {"setApply", "readApply"}
    OBVIOUS
  <2>3. /\ pc'[p] = step /\ store'[p] = buckets[name[p]]
        /\ \A q \in Clients \ {p} : pc'[q] = pc[q] /\ store'[q] = store[q]
    BY <2>1 DEF TypeOK
  <2>4. buckets[name[p]] \in 1..created /\ name[p] \in Names
    BY <2>1, BucketAssumption DEF ServedInv, TypeOK, Index, Containers
  <2>5. TypeOK'
    <3>1. buckets[name[p]] \in Containers
      BY <2>1 DEF TypeOK, Index
    <3> QED
      BY <2>1, <2>2, <3>1 DEF TypeOK, Steps
  <2>6. OpInv'
    <3>1. op[p] \in StorageOps
      BY <2>1 DEF OpInv
    <3> QED
      BY <2>1, <2>3, <3>1 DEF OpInv, CreateSteps, DeleteSteps
  <2> HIDE DEF step
  <2>7. RoomInv'
    BY <2>1, <2>2, RoomKept
  <2>8. MutexInv'
    BY <2>1, <2>2, <2>3 DEF MutexInv, Inside
  <2>9. ServedInv' /\ DefaultServed' /\ Isolated'
    BY <2>1 DEF ServedInv, DefaultServed, Isolated
  <2>10. BuildInv'
    BY <2>1, <2>2, <2>3, BuildKept
  <2>11. MadeInv'
    <3>1. \A c : Dropped(c) => Dropped(c)'
      BY <2>1, <2>3 DEF Dropped
    <3> QED
      BY <2>1, <2>2, <2>3, <3>1 DEF MadeInv
  <2>12. WriteInv'
    BY <2>1, <2>3, <2>4 DEF WriteInv, ServedInv
  <2>13. FreshInv'
    <3>1. \A q \in Clients : pc[q] = "createPublish" =>
            pc'[q] = pc[q] /\ store'[q] = store[q] /\ store[q] # store'[p]
      <4>1. \A q \in Clients : pc[q] = "createPublish" => buckets[name[p]] # store[q]
        BY <2>4 DEF BuildInv
      <4> QED
        BY <2>1, <2>3, <4>1
    <3>2. \A q \in Clients : pc'[q] = "createPublish" => pc[q] = "createPublish"
      BY <2>2, <2>3
    <3>3. \A q \in Clients : pc'[q] = "setApply" =>
            q = p \/ (pc[q] = "setApply" /\ store'[q] = store[q])
      BY <2>3
    <3> QED
      BY <2>1, <3>1, <3>2, <3>3 DEF FreshInv
  <2>14. NoLeakedCollector'
    BY <2>1, <2>3 DEF NoLeakedCollector, Served
  <2> QED
    BY <2>5, <2>6, <2>7, <2>8, <2>9, <2>10, <2>11, <2>12, <2>13, <2>14
<1> QED
  BY <1>1, <1>2

\* Set stores into the container it found, served or not (storage_service.go:51-61).
LEMMA SetApplyInv ==
  ASSUME IInv, NEW p \in Clients, SetApply(p)
  PROVE  IInv'
<1> USE DEF IInv
<1>1. /\ pc[p] = "setApply" /\ pc' = [pc EXCEPT ![p] = "idle"]
      /\ writers' = [writers EXCEPT ![store[p]] = writers[store[p]] \cup {name[p]}]
      /\ op' = [op EXCEPT ![p] = NoOp] /\ name' = [name EXCEPT ![p] = Default]
      /\ newIdx' = [newIdx EXCEPT ![p] = NoBuckets] /\ store' = [store EXCEPT ![p] = NoBucket]
      /\ failed' \subseteq Clients
      /\ UNCHANGED <<buckets, created, closed, issued, writeMu>>
  BY DEF SetApply, Answer, Recovered, Finish, Goto, Write, TypeOK
<1>2. /\ pc'[p] = "idle"
      /\ \A q \in Clients \ {p} : /\ pc'[q] = pc[q] /\ store'[q] = store[q]
                                  /\ name'[q] = name[q] /\ newIdx'[q] = newIdx[q]
  BY <1>1 DEF TypeOK
<1>3. /\ store[p] \in 1..created /\ store[p] \in Containers /\ name[p] \in Names
      /\ \A n \in Names : buckets[n] = store[p] => n = name[p]
  BY <1>1, BucketAssumption DEF WriteInv, TypeOK, Containers
<1>4. \A c \in Containers \ {store[p]} : writers'[c] = writers[c]
  BY <1>1 DEF TypeOK
<1>5. writers'[store[p]] = writers[store[p]] \cup {name[p]}
  BY <1>1, <1>3 DEF TypeOK
<1>7. TypeOK'
  <2>1. NoBuckets \in Index /\ Default \in Names
    BY BucketAssumption DEF NoBuckets, Index
  <2> QED
    BY <1>1, <1>3, <2>1 DEF TypeOK, Steps
<1>8. RoomInv'
  BY <1>1, RoomKept
<1>9. MutexInv'
  BY <1>1, <1>2 DEF MutexInv, Inside
<1>10. OpInv'
  BY <1>1 DEF OpInv, TypeOK, CreateSteps, DeleteSteps
<1>11. ServedInv' /\ DefaultServed'
  BY <1>1 DEF ServedInv, DefaultServed
<1>12. BuildInv'
  BY <1>1, <1>2, BuildKept
<1>13. MadeInv'
  <2>1. \A c : Dropped(c) => Dropped(c)'
    BY <1>1, <1>2 DEF Dropped
  <2> QED
    BY <1>1, <1>2, <2>1 DEF MadeInv
<1>14. WriteInv'
  BY <1>1, <1>2 DEF WriteInv
<1>15. FreshInv'
  <2>1. \A c \in Containers : c > created => c # store[p]
    BY <1>3 DEF TypeOK, Containers
  <2>2. \A q \in Clients : pc'[q] = "createPublish" =>
          pc[q] = "createPublish" /\ store[q] # store[p] /\ store[q] \in Containers
    BY <1>1, <1>2, BucketAssumption DEF FreshInv, BuildInv, TypeOK, Containers
  <2> QED
    BY <1>1, <1>2, <1>4, <2>1, <2>2, SMTT(30) DEF FreshInv
<1>16. NoLeakedCollector'
  BY <1>1, <1>2 DEF NoLeakedCollector, Served
<1>17. Isolated'
  <2>1. ASSUME NEW n \in Names, buckets[n] # NoBucket
        PROVE  writers'[buckets[n]] \subseteq {n}
    <3>1. buckets[n] \in Containers /\ writers[buckets[n]] \subseteq {n}
      BY <2>1 DEF Isolated, TypeOK, Index
    <3> QED
      BY <1>3, <1>4, <1>5, <3>1
  <2> QED
    BY <1>1, <2>1 DEF Isolated
<1> QED
  BY <1>7, <1>8, <1>9, <1>10, <1>11, <1>12, <1>13, <1>14, <1>15, <1>16, <1>17

\* Shutdown takes the lock, stops the collectors of what is served, one by one, and leaves
\* (bucket.go:214-233).
LEMMA ShutdownInv ==
  ASSUME IInv, NEW p \in Clients, ShutdownLock(p) \/ ShutdownClose(p)
  PROVE  IInv'
<1> USE DEF IInv
<1>0. /\ UNCHANGED <<buckets, created, writers, issued, op, name, newIdx, store, failed>>
      /\ \/ /\ pc[p] = "shutdownLock" /\ pc' = [pc EXCEPT ![p] = "shutdownClose"]
            /\ writeMu = Nobody /\ writeMu' = p /\ closed' = closed
         \/ /\ pc[p] = "shutdownClose" /\ pc' = pc /\ writeMu' = writeMu
            /\ \E c \in Served : closed' = closed \cup {c}
         \/ /\ pc[p] = "shutdownClose" /\ pc' = [pc EXCEPT ![p] = "idle"]
            /\ writeMu' = Nobody /\ closed' = closed
  BY DEF ShutdownLock, ShutdownClose, Lock, Unlock, Goto, registry, locals
<1>1. \A q \in Clients : pc'[q] # pc[q] =>
        pc[q] \in {"shutdownLock", "shutdownClose"} /\ pc'[q] \in {"idle", "shutdownClose"}
  BY <1>0 DEF TypeOK
<1>2. closed \subseteq closed' /\ closed' \subseteq 1..created
  <2>1. Served \subseteq 1..created
    BY BucketAssumption DEF Served, ServedInv, TypeOK, Index, Containers
  <2> QED
    BY <1>0, <2>1 DEF TypeOK
<1>3. TypeOK'
  BY <1>0, <1>2 DEF TypeOK, Steps
<1>4. RoomInv'
  <2>1. Creators' = Creators
    BY <1>1 DEF Creators
  <2> QED
    BY <1>0, <2>1 DEF RoomInv
<1>5. MutexInv'
  BY <1>0, BucketAssumption DEF MutexInv, TypeOK, Inside
<1>6. OpInv'
  BY <1>0, <1>1 DEF OpInv, CreateSteps, DeleteSteps
<1>7. ServedInv' /\ DefaultServed' /\ Isolated'
  BY <1>0 DEF ServedInv, DefaultServed, Isolated
<1>8. BuildInv'
  BY <1>0, <1>1 DEF BuildInv
<1>9. MadeInv'
  <2>1. \A c : Dropped(c) => Dropped(c)'
    BY <1>0, <1>1, <1>2 DEF Dropped
  <2> QED
    BY <1>0, <1>1, <2>1 DEF MadeInv
<1>10. WriteInv' /\ FreshInv'
  BY <1>0, <1>1 DEF WriteInv, FreshInv
<1>11. NoLeakedCollector'
  BY <1>0, <1>1, <1>2 DEF NoLeakedCollector, Served
<1> QED
  BY <1>3, <1>4, <1>5, <1>6, <1>7, <1>8, <1>9, <1>10, <1>11

-----------------------------------------------------------------------------
LEMMA InitInv == Init => IInv
<1> SUFFICES ASSUME Init
             PROVE  IInv
  OBVIOUS
<1> USE BucketAssumption DEF Init
<1>1. \A n \in Names : buckets[n] = IF n = Default THEN 1 ELSE NoBucket
  BY DEF NoBuckets
<1>2. 1 \in Containers /\ created = 1
  BY DEF Containers
<1>3. TypeOK
  <2>1. NoBuckets \in Index
    BY DEF NoBuckets, Index
  <2>2. [NoBuckets EXCEPT ![Default] = 1] \in Index
    BY <1>2, <2>1 DEF Index
  <2> QED
    BY <1>2, <2>1, <2>2 DEF TypeOK, Steps
<1>4. RoomInv
  <2>1. Creators = {}
    BY DEF Creators
  <2> QED
    BY <2>1, FS_EmptySet DEF RoomInv
<1>5. MutexInv
  BY DEF MutexInv, Inside
<1>6. OpInv
  BY DEF OpInv, CreateSteps, DeleteSteps
<1>7. ServedInv /\ DefaultServed /\ Isolated
  BY <1>1, <1>2 DEF ServedInv, DefaultServed, Isolated
<1>8. BuildInv /\ MadeInv /\ WriteInv /\ FreshInv
  BY DEF BuildInv, MadeInv, WriteInv, FreshInv
<1>9. NoLeakedCollector
  <2>1. 1 \in Served
    BY <1>1, <1>2 DEF Served
  <2> QED
    BY <2>1, <1>2 DEF NoLeakedCollector
<1> QED
  BY <1>3, <1>4, <1>5, <1>6, <1>7, <1>8, <1>9 DEF IInv

LEMMA NextInv == IInv /\ [Next]_vars => IInv'
<1> SUFFICES ASSUME IInv, [Next]_vars
             PROVE  IInv'
  OBVIOUS
<1>1. ASSUME NEW p \in Clients, ClientStep(p)
      PROVE  IInv'
  BY <1>1, CallInv, CreateLockInv, CreatePublishInv, CreateReturnInv, LookupInv, DeleteLockInv,
     DeletePublishInv, DeleteStopInv, GetStoreInv, SetApplyInv, ShutdownInv DEF ClientStep
<1>2. CASE UNCHANGED vars
  <2>1. UNCHANGED <<buckets, created, closed, writers, issued, writeMu, pc, op, name, newIdx,
                    store, failed>>
    BY <1>2 DEF vars, registry, locals
  <2>2. TypeOK' /\ RoomInv' /\ MutexInv' /\ OpInv' /\ ServedInv'
    BY <2>1 DEF IInv, TypeOK, RoomInv, Creators, MutexInv, OpInv, ServedInv
  <2>3. BuildInv' /\ MadeInv' /\ WriteInv' /\ FreshInv'
    BY <2>1, BuildKept DEF IInv, MadeInv, Dropped, WriteInv, FreshInv
  <2>4. NoLeakedCollector' /\ DefaultServed' /\ Isolated'
    BY <2>1 DEF IInv, NoLeakedCollector, Served, DefaultServed, Isolated
  <2> QED
    BY <2>2, <2>3, <2>4 DEF IInv
<1> QED
  BY <1>1, <1>2 DEF Next

\* The inductive invariant holds in every behaviour of the registry.
THEOREM RegistryInvariant == Spec => []IInv
BY InitInv, NextInv, PTL DEF Spec

\* Every state of the registry is well formed, and containers are never made beyond the
\* bound, however many requests wait for writeMu (bucket.go:41-45).
THEOREM RegistryTyped == Spec => []TypeOK
<1>1. IInv => TypeOK
  BY DEF IInv
<1> QED
  BY <1>1, RegistryInvariant, PTL

\* A collector that runs belongs to a served bucket or to a CreateBucket or DeleteBucket in
\* progress, whatever requests run concurrently (bucket.go:125-137,175-179).
THEOREM CollectorsAccounted == Spec => []NoLeakedCollector
<1>1. IInv => NoLeakedCollector
  BY DEF IInv
<1> QED
  BY <1>1, RegistryInvariant, PTL

\* No interleaving of requests takes the default bucket away (bucket.go:54,147).
THEOREM DefaultStays == Spec => []DefaultServed
<1>1. IInv => DefaultServed
  BY DEF IInv
<1> QED
  BY <1>1, RegistryInvariant, PTL

\* Data stored through one name is never found under another, though writers hold containers
\* while buckets are deleted and made again (storage_service.go:38-61).
THEOREM NamespacesIsolated == Spec => []Isolated
<1>1. IInv => Isolated
  BY DEF IInv
<1> QED
  BY <1>1, RegistryInvariant, PTL

-----------------------------------------------------------------------------
\* The front of a request neither changes the registry nor answers with a server error.
LEMMA CallsLeaveRegistry ==
  ASSUME IInv, NEW p \in Clients, HttpCall(p) \/ TcpCall(p) \/ ShutdownCall(p)
  PROVE  UNCHANGED registry /\ \A q \in Clients : q \in failed' => q \in failed
<1>1. CASE ShutdownCall(p)
  BY <1>1 DEF ShutdownCall, Begin
<1>2. CASE Started(p)
  BY <1>2 DEF Started, Refuse, Begin, Write
<1> QED
  BY <1>1, <1>2, HttpStarts, TcpStarts DEF IInv, TypeOK

\* DeleteBucket stops a collector only when the index no longer leads to its container
\* (bucket.go:175-179).
THEOREM StoppedIsDropped == Spec => StopOnlyDropped
<1>1. ASSUME IInv, [Next]_vars
      PROVE  \A c \in closed' \ closed : ShuttingDown \/ c \notin Served
  <2>1. CASE UNCHANGED closed
    BY <2>1
  <2>2. CASE closed' # closed
    <3>1. ~UNCHANGED vars
      BY <2>2 DEF vars, registry
    <3>2. PICK p \in Clients : ClientStep(p)
      BY <1>1, <3>1 DEF Next
    <3>3. ~(CreateLock(p) \/ CreatePublish(p) \/ CreateReturn(p) \/ CreateLookup(p)
            \/ DeleteLock(p) \/ DeletePublish(p))
      BY <2>2 DEF CreateLock, NewContainer, CreatePublish, CreateReturn, CreateLookup,
                  DeleteLock, DeletePublish, registry
    <3>4. ~(GetBucketLookup(p) \/ GetStore(p) \/ SetApply(p) \/ ReadApply(p) \/ ShutdownLock(p))
      BY <2>2 DEF GetBucketLookup, GetStore, SetApply, ReadApply, ShutdownLock, registry
    <3>5. ~(HttpCall(p) \/ TcpCall(p) \/ ShutdownCall(p))
      BY <1>1, <2>2, CallsLeaveRegistry DEF registry
    <3>6. CASE DeleteStop(p)
      BY <1>1, <3>6, ZenonT(30) DEF DeleteStop, IInv, BuildInv, Served
    <3>7. CASE ShutdownClose(p)
      BY <3>7 DEF ShutdownClose, ShuttingDown
    <3> QED
      BY <3>2, <3>3, <3>4, <3>5, <3>6, <3>7 DEF ClientStep
  <2> QED
    BY <2>1, <2>2
<1> QED
  BY <1>1, RegistryInvariant, PTL DEF Spec, StopOnlyDropped

(***************************************************************************)
(* A request that has neither looked a container up nor made one has none. *)
(***************************************************************************)
EarlySteps == {"idle", "createLock", "deleteLock", "getBucket", "getStore", "shutdownLock",
               "shutdownClose"}
UnboundInv == \A p \in Clients : pc[p] \in EarlySteps => store[p] = NoBucket

\* p goes to step s with container c, which an early step has none of.
Takes(p) ==
  \E s, c : /\ pc' = [pc EXCEPT ![p] = s] /\ store' = [store EXCEPT ![p] = c]
            /\ s \in EarlySteps => c = NoBucket

LEMMA UnboundStep == ASSUME TypeOK, UnboundInv, NEW p \in Clients, Takes(p) PROVE UnboundInv'
BY DEF UnboundInv, TypeOK, Takes

LEMMA UnboundNext == IInv /\ UnboundInv /\ [Next]_vars => UnboundInv'
<1> SUFFICES ASSUME TypeOK, IInv, UnboundInv, [Next]_vars
             PROVE  UnboundInv'
  BY DEF IInv
<1>1. CASE UNCHANGED <<pc, store>>
  BY <1>1 DEF UnboundInv
<1>2. ASSUME NEW p \in Clients, ClientStep(p)
      PROVE  Takes(p) \/ UNCHANGED <<pc, store>>
  <2>0. store = [store EXCEPT ![p] = store[p]]
    BY DEF TypeOK
  <2>1. ASSUME NEW status, Finish(p, status) PROVE Takes(p)
    BY <2>1 DEF Finish, Goto, Takes
  <2>2. ASSUME NEW s, NEW o, NEW n, Begin(p, s, o, n) PROVE Takes(p)
    BY <2>0, <2>2 DEF Begin, Goto, UnboundInv, EarlySteps, Takes
  <2>3. CASE HttpCall(p) \/ TcpCall(p) \/ ShutdownCall(p)
    BY <2>2, <2>3, HttpStarts, TcpStarts DEF Started, Refuse, ShutdownCall, locals, IInv, TypeOK
  <2>4. CASE CreateLock(p) \/ CreatePublish(p) \/ CreateReturn(p) \/ CreateLookup(p)
    <3>1. CASE CreateLock(p)
      BY <2>1, <3>1 DEF CreateLock, Answer, Recovered, NewContainer, Goto, EarlySteps, Takes
    <3>2. CASE CreatePublish(p)
      <4>1. pc' = [pc EXCEPT ![p] = "createReturn"] /\ store' = [store EXCEPT ![p] = store[p]]
        BY <2>0, <3>2 DEF CreatePublish, Goto, locals
      <4>2. "createReturn" \notin EarlySteps
        BY DEF EarlySteps
      <4> QED
        BY <4>1, <4>2, Zenon DEF Takes
    <3>3. CASE CreateReturn(p)
      <4>1. pc' = [pc EXCEPT ![p] = "createLookup"] /\ store' = [store EXCEPT ![p] = store[p]]
        BY <2>0, <3>3 DEF CreateReturn, Goto, locals
      <4>2. "createLookup" \notin EarlySteps
        BY DEF EarlySteps
      <4> QED
        BY <4>1, <4>2, Zenon DEF Takes
    <3>4. CASE CreateLookup(p)
      BY <2>1, <3>4 DEF CreateLookup, Answer
    <3> QED
      BY <2>4, <3>1, <3>2, <3>3, <3>4
  <2>5. CASE DeleteLock(p) \/ DeletePublish(p) \/ DeleteStop(p)
    <3>1. CASE DeleteLock(p)
      BY <2>1, <3>1 DEF DeleteLock, Answer, Goto, EarlySteps, Takes
    <3>2. CASE DeletePublish(p)
      <4>1. pc' = [pc EXCEPT ![p] = "deleteStop"] /\ store' = [store EXCEPT ![p] = store[p]]
        BY <2>0, <3>2 DEF DeletePublish, Goto, locals
      <4>2. "deleteStop" \notin EarlySteps
        BY DEF EarlySteps
      <4> QED
        BY <4>1, <4>2, Zenon DEF Takes
    <3>3. CASE DeleteStop(p)
      BY <2>1, <3>3 DEF DeleteStop, Answer
    <3> QED
      BY <2>5, <3>1, <3>2, <3>3
  <2>6. CASE GetBucketLookup(p) \/ SetApply(p) \/ ReadApply(p)
    BY <2>1, <2>6 DEF GetBucketLookup, SetApply, ReadApply, Answer, Recovered
  <2>7. CASE GetStore(p)
    BY <2>1, <2>7 DEF GetStore, Answer, Goto, EarlySteps, Takes
  <2>8. CASE ShutdownLock(p) \/ ShutdownClose(p)
    BY <2>0, <2>8 DEF ShutdownLock, ShutdownClose, Goto, locals, UnboundInv, EarlySteps, Takes
  <2> QED
    BY <1>2, <2>3, <2>4, <2>5, <2>6, <2>7, <2>8 DEF ClientStep
<1> QED
  BY <1>1, <1>2, UnboundStep DEF Next, vars, locals

LEMMA Unbound == Spec => []UnboundInv
<1>1. Init => UnboundInv
  BY DEF Init, UnboundInv
<1> QED
  BY <1>1, UnboundNext, RegistryInvariant, PTL DEF Spec

\* Who may be answered 500, and that the registry and its lock are left alone
\* (bucket_service.go:41-46, handlers.go:154-164, recovery.go:11-15).
Explained(p) ==
  /\ UNCHANGED <<buckets, created, closed, issued>> /\ writeMu' # p
  /\ \/ op[p] \in {"CreateKV", "DeleteKV"}
     \/ op[p] = "CreateBucket" /\ (store[p] = NoBucket \/ Dropped(store[p]))

(***************************************************************************)
(* An answer 500 leaves the registry and its lock alone and goes to a      *)
(* CreateKV or DeleteKV, or to a CreateBucket that leaves no bucket of its *)
(* own behind, and to nobody else (bucket_service.go:41-46,                *)
(* handlers.go:154-164, recovery.go:11-15, bucket.go:109-125).             *)
(***************************************************************************)
THEOREM ErrorsExplained == Spec => ServerErrorsExplained
<1>1. ASSUME IInv, UnboundInv, [Next]_vars, NEW p \in Clients, p \in failed' \ failed
      PROVE  Explained(p)
  <2>1. ~UNCHANGED vars
    BY <1>1 DEF vars
  <2>2. PICK q \in Clients : ClientStep(q)
    BY <1>1, <2>1 DEF Next
  <2>3. ~(HttpCall(q) \/ TcpCall(q) \/ ShutdownCall(q))
    BY <1>1, CallsLeaveRegistry
  <2>4. ~(CreatePublish(q) \/ CreateReturn(q) \/ DeletePublish(q) \/ ShutdownLock(q)
          \/ ShutdownClose(q))
    BY <1>1 DEF CreatePublish, CreateReturn, DeletePublish, ShutdownLock, ShutdownClose
  <2>5. \A e : Answer(q, e) => p = q /\ Api!Status(op[q], e) = 500
    BY <1>1 DEF Answer, Finish, Write
  <2>6. ~(DeleteLock(q) \/ DeleteStop(q) \/ GetBucketLookup(q))
    BY <1>1, <2>5, KnownErrors DEF DeleteLock, DeleteStop,
       GetBucketLookup, IInv, OpInv, CreateSteps, DeleteSteps
  <2>7. Recovered(q) => p = q /\ op[q] \in HttpOps
    BY <1>1 DEF Recovered, Finish, Write
  <2>8. ASSUME p = q, pc[q] \notin Inside, UNCHANGED writeMu PROVE writeMu' # p
    BY <1>1, <2>8, BucketAssumption DEF IInv, MutexInv
  <2>9. CASE CreateLookup(q)
    <3>1. pc[q] = "createLookup" /\ op[q] = "CreateBucket" /\ UNCHANGED <<registry, writeMu>>
      BY <1>1, <2>9 DEF CreateLookup, IInv, OpInv, CreateSteps
    <3>2. p = q /\ ~GetBucket(name[q])
      BY <2>5, <2>9, <3>1, KnownErrors DEF CreateLookup
    <3>3. Dropped(store[p])
      BY <1>1, <3>1, <3>2 DEF GetBucket, IInv, MadeInv
    <3> QED
      BY <2>8, <3>1, <3>2, <3>3 DEF Inside, Explained, registry
  <2>10. CASE CreateLock(q)
    <3>1. pc[q] = "createLock" /\ op[q] = "CreateBucket"
      BY <1>1, <2>10 DEF CreateLock, IInv, OpInv, CreateSteps
    <3>2. ~Answer(q, "ErrBucketAlreadyExists") /\ ~NewContainer(q)
      BY <1>1, <2>5, <3>1, KnownErrors DEF NewContainer
    <3>3. p = q /\ UNCHANGED <<registry, writeMu>>
      BY <2>7, <2>10, <3>2 DEF CreateLock
    <3>4. store[p] = NoBucket
      BY <1>1, <3>1, <3>3 DEF UnboundInv, EarlySteps
    <3> QED
      BY <2>8, <3>1, <3>3, <3>4 DEF Inside, Explained, registry
  <2>11. CASE GetStore(q) \/ SetApply(q) \/ ReadApply(q)
    <3>1. Writes \subseteq StorageOps
      BY DEF Writes, StorageOps, TcpOps, Api!TcpOk
    <3>2. op[q] \in StorageOps /\ (SetApply(q) => op[q] \in Writes) /\ pc[q] \notin Inside
      BY <1>1, <2>11, <3>1 DEF GetStore, SetApply, ReadApply, IInv, OpInv, Inside
    <3>3. Recovered(q) /\ op[q] \notin Reads
      BY <1>1, <2>5, <2>11, <3>2, KnownStorageErrors DEF GetStore, SetApply, ReadApply, Writes, Reads
    <3>4. p = q /\ op[p] \in {"CreateKV", "DeleteKV"}
      BY <2>7, <3>2, <3>3 DEF StorageOps, HttpOps, TcpOps, Reads, Api!Routes, Api!TcpOk
    <3>5. UNCHANGED <<buckets, created, closed, issued, writeMu>>
      BY <1>1, <2>11, <3>3 DEF GetStore, SetApply, ReadApply, registry
    <3> QED
      BY <2>8, <3>2, <3>4, <3>5 DEF Explained
  <2> QED
    BY <2>2, <2>3, <2>4, <2>6, <2>9, <2>10, <2>11 DEF ClientStep
<1>2. IInv /\ UnboundInv /\ [Next]_vars => \A p \in Clients : p \in failed' \ failed => Explained(p)
  BY <1>1
<1> QED
  BY <1>2, RegistryInvariant, Unbound, PTL DEF Spec, ServerErrorsExplained, Explained

-----------------------------------------------------------------------------
(***************************************************************************)
(* The manager implements Registry.  The proof needs the mutual exclusion  *)
(* (nobody else makes or publishes meanwhile), what the index being built  *)
(* changes, and that a container that is made is new.                      *)
(***************************************************************************)
CallOf == [q \in Clients |-> RequestOf(q)]

\* Only p moves: the abstract call of p changes to what p's new step stands for.
OnlyMoves(p) ==
  \A q \in Clients \ {p} : pc'[q] = pc[q] /\ name'[q] = name[q] /\ store'[q] = store[q]

\* Where the code is and where the abstract call is.
LEMMA Phases ==
  /\ \A s \in {"createLock", "createPublish"} : PhaseOf(s) = "create"
  /\ \A s \in {"deleteLock", "deletePublish"} : PhaseOf(s) = "drop"
  /\ PhaseOf("getStore") = "find"
  /\ \A s \in {"createReturn", "createLookup", "deleteStop", "setApply", "readApply"} :
       PhaseOf(s) = "done"
  /\ \A s \in {"idle", "getBucket", "shutdownLock", "shutdownClose"} : PhaseOf(s) = "idle"
BY DEF PhaseOf

LEMMA MoveIsTurn ==
  ASSUME NEW p \in Clients, OnlyMoves(p)
  PROVE  CallOf' = [CallOf EXCEPT ![p] = RequestOf(p)']
<1>1. \A q \in Clients \ {p} : RequestOf(q)' = RequestOf(q)
  BY DEF OnlyMoves, RequestOf
<1> QED
  BY <1>1 DEF CallOf

\* The steps of Registry, over the variables of the manager.
LEMMA TurnIs ==
  ASSUME NEW p \in Clients, NEW step, NEW n, NEW c, OnlyMoves(p),
         RequestOf(p)' = [step |-> step, name |-> n, got |-> c]
  PROVE  R!Turn(p, step, n, c)
<1>1. CallOf' = [CallOf EXCEPT ![p] = RequestOf(p)']
  BY MoveIsTurn
<1> QED
  BY <1>1 DEF R!Turn, R!Request, CallOf

LEMMA CallAt ==
  ASSUME NEW p \in Clients
  PROVE  /\ CallOf[p].step = PhaseOf(pc[p])
         /\ PhaseOf(pc[p]) # "idle" => CallOf[p].name = name[p]
<1>1. CallOf[p] = RequestOf(p)
  BY DEF CallOf
<1>2. RequestOf(p).step = PhaseOf(pc[p])
  BY DEF RequestOf
<1>3. PhaseOf(pc[p]) # "idle" => RequestOf(p).name = name[p]
  BY DEF RequestOf
<1> QED
  BY <1>1, <1>2, <1>3

\* A step that leaves the abstract state alone.
LEMMA SameCall ==
  ASSUME NEW p \in Clients, OnlyMoves(p), RequestOf(p)' = RequestOf(p),
         buckets' = buckets, Published' = Published
  PROVE  UNCHANGED R!registryVars
<1>1. CallOf' = CallOf
  BY MoveIsTurn DEF CallOf
<1> QED
  BY <1>1 DEF R!registryVars, CallOf

\* The containers being made are the same, and so are the published ones.
LEMMA SamePublished ==
  ASSUME NEW p \in Clients, OnlyMoves(p), created' = created,
         pc[p] # "createPublish", pc'[p] # "createPublish"
  PROVE  Published' = Published
<1>1. {q \in Clients : pc[q] = "createPublish"}' = {q \in Clients : pc[q] = "createPublish"}
  BY DEF OnlyMoves
<1>2. \A q \in Clients : pc[q] = "createPublish" => store'[q] = store[q]
  BY DEF OnlyMoves
<1> QED
  BY <1>1, <1>2 DEF Published

\* A request that has got its container, or none, is answered.
LEMMA FinishMoves ==
  ASSUME TypeOK, NEW p \in Clients, NEW status, Finish(p, status)
  PROVE  /\ OnlyMoves(p) /\ pc'[p] = "idle"
         /\ RequestOf(p)' = [step |-> "idle", name |-> Default, got |-> NoBucket]
<1>1. OnlyMoves(p) /\ pc'[p] = "idle"
  BY DEF Finish, Goto, OnlyMoves, TypeOK
<1> QED
  BY <1>1, Phases DEF RequestOf

LEMMA FinishReturns ==
  ASSUME TypeOK, NEW p \in Clients, NEW status, Finish(p, status), PhaseOf(pc[p]) = "done",
         buckets' = buckets, created' = created
  PROVE  R!Return(p)
<1>1. R!Turn(p, "idle", Default, NoBucket)
  BY FinishMoves, TurnIs
<1>2. Published' = Published
  BY FinishMoves, SamePublished, Phases
<1>3. RequestOf(p).step = "done"
  BY DEF RequestOf
<1> QED
  BY <1>1, <1>2, <1>3 DEF R!Return, R!Done

\* A request enters its operation: the abstract call, or a stutter for GetBucket and Shutdown.
LEMMA BeginMoves ==
  ASSUME TypeOK, NEW p \in Clients, NEW s \in QuietSteps, NEW o, NEW n \in Names, Begin(p, s, o, n)
  PROVE  /\ OnlyMoves(p) /\ pc[p] = "idle" /\ pc'[p] = s /\ name'[p] = n
         /\ buckets' = buckets /\ Published' = Published
<1>1. OnlyMoves(p) /\ pc[p] = "idle" /\ pc'[p] = s /\ name'[p] = n
  BY DEF Begin, Goto, OnlyMoves, TypeOK
<1>2. created' = created /\ buckets' = buckets
  BY DEF Begin, registry
<1> QED
  BY <1>1, <1>2, SamePublished DEF QuietSteps

LEMMA BeginCalls ==
  ASSUME TypeOK, NEW p \in Clients, NEW s \in {"createLock", "deleteLock", "getStore"},
         NEW o, NEW n \in Names, Begin(p, s, o, n), s = "deleteLock" => n # Default
  PROVE  R!Call(p)
<1>1. /\ OnlyMoves(p) /\ pc[p] = "idle" /\ pc'[p] = s /\ name'[p] = n
      /\ buckets' = buckets /\ Published' = Published
  BY BeginMoves DEF QuietSteps
<1>2. /\ PhaseOf("createLock") = "create" /\ PhaseOf("deleteLock") = "drop"
      /\ PhaseOf("getStore") = "find" /\ PhaseOf("idle") = "idle"
  BY Phases
<1>3. RequestOf(p)' = [step |-> PhaseOf(s), name |-> n, got |-> NoBucket]
  BY <1>1, <1>2 DEF RequestOf
<1>4. R!Turn(p, PhaseOf(s), n, NoBucket)
  BY <1>1, <1>3, TurnIs
<1>5. CallOf[p].step = "idle"
  BY <1>1, <1>2, CallAt
<1>6. \/ R!Turn(p, "create", n, NoBucket)
      \/ n # Default /\ R!Turn(p, "drop", n, NoBucket)
      \/ R!Turn(p, "find", n, NoBucket)
  BY <1>2, <1>4
<1> QED
  BY <1>1, <1>5, <1>6 DEF R!Call, CallOf

LEMMA BeginStutters ==
  ASSUME TypeOK, NEW p \in Clients, NEW s \in {"getBucket", "shutdownLock"},
         NEW o, NEW n \in Names, Begin(p, s, o, n)
  PROVE  UNCHANGED R!registryVars
<1>1. /\ OnlyMoves(p) /\ pc[p] = "idle" /\ pc'[p] = s
      /\ buckets' = buckets /\ Published' = Published
  BY BeginMoves DEF QuietSteps
<1>2. PhaseOf(pc[p]) = "idle" /\ PhaseOf(pc'[p]) = "idle"
  BY <1>1, Phases
<1>3. RequestOf(p)' = RequestOf(p)
  BY <1>2 DEF RequestOf
<1> QED
  BY <1>1, <1>3, SameCall

LEMMA CallIsAbstract ==
  ASSUME IInv, NEW p \in Clients, HttpCall(p) \/ TcpCall(p) \/ ShutdownCall(p)
  PROVE  R!Call(p) \/ UNCHANGED R!registryVars
<1> USE DEF IInv
<1>1. CASE ShutdownCall(p)
  BY <1>1, BeginStutters, BucketAssumption DEF ShutdownCall
<1>2. CASE Started(p)
  <2>1. ASSUME NEW status, Refuse(p, status)
        PROVE  UNCHANGED R!registryVars
    <3>1. OnlyMoves(p) /\ UNCHANGED <<buckets, created, pc, name, store>>
      BY <2>1 DEF Refuse, OnlyMoves, registry, locals
    <3>2. RequestOf(p)' = RequestOf(p) /\ Published' = Published
      BY <3>1 DEF RequestOf, Published
    <3> QED
      BY <3>1, <3>2, SameCall
  <2>2. ASSUME NEW n \in Names, Begin(p, "createLock", "CreateBucket", n)
        PROVE  R!Call(p)
    BY <2>2, BeginCalls
  <2>3. ASSUME NEW n \in Names, Begin(p, "getBucket", "GetBucket", n)
        PROVE  UNCHANGED R!registryVars
    BY <2>3, BeginStutters
  <2>4. ASSUME NEW n \in Names \ {Default}, Begin(p, "deleteLock", "DeleteBucket", n)
        PROVE  R!Call(p)
    BY <2>4, BeginCalls
  <2>5. ASSUME NEW n \in Names, NEW o \in StorageOps, Begin(p, "getStore", o, n)
        PROVE  R!Call(p)
    BY <2>5, BeginCalls
  <2> QED
    BY <1>2, <2>1, <2>2, <2>3, <2>4, <2>5 DEF Started
<1> QED
  BY <1>1, <1>2, HttpStarts, TcpStarts DEF TypeOK

\* An operation that finds its name taken, or free, fails, and so does a CreateBucket that
\* panics (bucket.go:112-114,125,161-163,93-96).
LEMMA FinishFails ==
  ASSUME TypeOK, NEW p \in Clients, NEW status, Finish(p, status), UNCHANGED registry,
         \/ pc[p] = "createLock"
         \/ pc[p] \in {"deleteLock", "getStore"} /\ buckets[name[p]] = NoBucket
  PROVE  R!Fail(p)
<1>1. R!Turn(p, "idle", Default, NoBucket)
  BY FinishMoves, TurnIs
<1>2. Published' = Published /\ buckets' = buckets
  BY FinishMoves, SamePublished DEF registry
<1>3. /\ PhaseOf("createLock") = "create" /\ PhaseOf("deleteLock") = "drop"
      /\ PhaseOf("getStore") = "find"
  BY Phases
<1>4. CallOf[p].step = PhaseOf(pc[p]) /\ CallOf[p].name = name[p]
  BY <1>3, CallAt
<1> QED
  BY <1>1, <1>2, <1>3, <1>4 DEF R!Fail, R!Done, CallOf

\* CreateBucket fails, or makes a container nobody can see yet
\* (bucket.go:109-124).
LEMMA CreateLockIsAbstract ==
  ASSUME IInv, NEW p \in Clients, CreateLock(p)
  PROVE  R!Fail(p) \/ UNCHANGED R!registryVars
<1> USE DEF IInv
<1>1. CASE /\ Answer(p, "ErrBucketAlreadyExists") \/ Recovered(p)
           /\ UNCHANGED <<registry, writeMu>>
  BY <1>1, FinishFails DEF CreateLock, Answer, Recovered
<1>2. CASE buckets[name[p]] = NoBucket /\ Lock(p) /\ NewContainer(p)
  <2>1. /\ pc[p] = "createLock" /\ writeMu = Nobody
        /\ pc' = [pc EXCEPT ![p] = "createPublish"]
        /\ created' = created + 1
        /\ store' = [store EXCEPT ![p] = created + 1]
        /\ UNCHANGED <<buckets, name>>
    BY <1>2 DEF CreateLock, NewContainer, Goto
  <2>2. OnlyMoves(p) /\ pc'[p] = "createPublish" /\ name'[p] = name[p] /\ store'[p] = created + 1
    BY <2>1 DEF OnlyMoves, TypeOK
  <2>3. PhaseOf(pc[p]) = "create" /\ PhaseOf(pc'[p]) = "create"
    BY <2>1, <2>2, Phases
  <2>4. RequestOf(p)' = RequestOf(p)
    BY <2>2, <2>3 DEF RequestOf
  <2>5. \A q \in Clients : pc[q] # "createPublish"
    BY <2>1, BucketAssumption DEF MutexInv, Inside
  <2>6. \A q \in Clients : pc'[q] = "createPublish" <=> q = p
    BY <2>2, <2>5 DEF OnlyMoves
  <2>7. Published = 1..created /\ Published' = (1..(created + 1)) \ {created + 1}
    BY <2>1, <2>2, <2>5, <2>6 DEF Published
  <2>8. Published' = Published
    BY <2>7, BucketAssumption DEF TypeOK, Containers
  <2> QED
    BY <2>1, <2>2, <2>4, <2>8, SameCall
<1> QED
  BY <1>1, <1>2 DEF CreateLock

\* The new index is stored: the name is served from now on (bucket.go:136-137).
LEMMA CreatePublishCreates ==
  ASSUME IInv, NEW p \in Clients, CreatePublish(p)
  PROVE  R!Create(p)
<1> USE DEF IInv
<1>1. /\ pc[p] = "createPublish" /\ pc' = [pc EXCEPT ![p] = "createReturn"]
      /\ buckets' = newIdx[p] /\ UNCHANGED <<created, name, store>>
  BY DEF CreatePublish, Goto, locals
<1>2. OnlyMoves(p) /\ pc'[p] = "createReturn" /\ name'[p] = name[p] /\ store'[p] = store[p]
  BY <1>1 DEF OnlyMoves, TypeOK
<1>3. \A q \in Clients : pc[q] = "createPublish" <=> q = p
  BY <1>1, Alone DEF Inside
<1>4. \A q \in Clients : pc'[q] # "createPublish"
  BY <1>2, <1>3 DEF OnlyMoves
<1>5. /\ store[p] \in 1..created /\ buckets[name[p]] = NoBucket
      /\ buckets' = [buckets EXCEPT ![name[p]] = store[p]]
  BY <1>1 DEF BuildInv
<1>6. Published = (1..created) \ {store[p]} /\ Published' = 1..created
  BY <1>1, <1>3, <1>4 DEF Published
<1>7. /\ store[p] \in Containers \ Published
      /\ Published' = Published \cup {store[p]}
  BY <1>5, <1>6, BucketAssumption DEF TypeOK, Containers
<1>8. PhaseOf(pc[p]) = "create" /\ PhaseOf(pc'[p]) = "done"
  BY <1>1, <1>2, Phases
<1>9. RequestOf(p)' = [step |-> "done", name |-> name[p], got |-> store[p]]
  BY <1>2, <1>8 DEF RequestOf
<1>10. R!Turn(p, "done", name[p], store[p])
  BY <1>2, <1>9, TurnIs
<1>11. CallOf[p].step = "create" /\ CallOf[p].name = name[p]
  BY <1>8, CallAt
<1>12. /\ CallOf[p].step = "create" /\ buckets[CallOf[p].name] = NoBucket
       /\ \E c \in Containers \ Published :
            /\ buckets' = [buckets EXCEPT ![CallOf[p].name] = c]
            /\ Published' = Published \cup {c}
            /\ R!Turn(p, "done", CallOf[p].name, c)
  BY <1>5, <1>7, <1>10, <1>11
<1> QED
  BY <1>12 DEF R!Create, CallOf

LEMMA DeleteLockIsAbstract ==
  ASSUME IInv, NEW p \in Clients, DeleteLock(p)
  PROVE  R!Fail(p) \/ UNCHANGED R!registryVars
<1> USE DEF IInv
<1>1. CASE buckets[name[p]] = NoBucket
  BY <1>1, FinishFails DEF DeleteLock, Answer
<1>2. CASE buckets[name[p]] # NoBucket
  <2>1. /\ pc[p] = "deleteLock" /\ pc' = [pc EXCEPT ![p] = "deletePublish"]
        /\ store' = [store EXCEPT ![p] = buckets[name[p]]]
        /\ UNCHANGED <<buckets, created, name>>
    BY <1>2 DEF DeleteLock, Goto, registry
  <2>2. OnlyMoves(p) /\ pc'[p] = "deletePublish" /\ name'[p] = name[p]
    BY <2>1 DEF OnlyMoves, TypeOK
  <2>3. PhaseOf(pc[p]) = "drop" /\ PhaseOf(pc'[p]) = "drop"
    BY <2>1, <2>2, Phases
  <2>4. RequestOf(p)' = RequestOf(p)
    BY <2>2, <2>3 DEF RequestOf
  <2>5. Published' = Published
    BY <2>1, <2>2, SamePublished
  <2> QED
    BY <2>1, <2>2, <2>4, <2>5, SameCall
<1> QED
  BY <1>1, <1>2

\* The index without the bucket is stored: the name is free from now on (bucket.go:175).
LEMMA DeletePublishDrops ==
  ASSUME IInv, NEW p \in Clients, DeletePublish(p)
  PROVE  R!Drop(p)
<1> USE DEF IInv
<1>1. /\ pc[p] = "deletePublish" /\ pc' = [pc EXCEPT ![p] = "deleteStop"]
      /\ buckets' = newIdx[p] /\ UNCHANGED <<created, name, store>>
  BY DEF DeletePublish, Goto, locals
<1>2. OnlyMoves(p) /\ pc'[p] = "deleteStop" /\ name'[p] = name[p] /\ store'[p] = store[p]
  BY <1>1 DEF OnlyMoves, TypeOK
<1>3. /\ store[p] = buckets[name[p]] /\ store[p] # NoBucket
      /\ buckets' = [buckets EXCEPT ![name[p]] = NoBucket]
  BY <1>1 DEF BuildInv
<1>4. Published' = Published
  BY <1>1, <1>2, SamePublished
<1>5. PhaseOf(pc[p]) = "drop" /\ PhaseOf(pc'[p]) = "done"
  BY <1>1, <1>2, Phases
<1>6. RequestOf(p)' = [step |-> "done", name |-> name[p], got |-> store[p]]
  BY <1>2, <1>5 DEF RequestOf
<1>7. R!Turn(p, "done", name[p], buckets[name[p]])
  BY <1>2, <1>3, <1>6, TurnIs
<1>8. CallOf[p].step = "drop" /\ CallOf[p].name = name[p]
  BY <1>5, CallAt
<1>9. /\ CallOf[p].step = "drop" /\ buckets[CallOf[p].name] # NoBucket
      /\ buckets' = [buckets EXCEPT ![CallOf[p].name] = NoBucket]
      /\ R!Turn(p, "done", CallOf[p].name, buckets[CallOf[p].name])
  BY <1>3, <1>7, <1>8
<1> QED
  BY <1>4, <1>9 DEF R!Drop, CallOf

LEMMA GetStoreFinds ==
  ASSUME IInv, NEW p \in Clients, GetStore(p)
  PROVE  R!Find(p) \/ R!Fail(p)
<1> USE DEF IInv
<1>1. CASE buckets[name[p]] = NoBucket
  BY <1>1, FinishFails DEF GetStore, Answer
<1>2. CASE buckets[name[p]] # NoBucket
  <2> DEFINE next == IF op[p] \in Writes THEN "setApply" ELSE "readApply"
  <2>1. /\ pc[p] = "getStore" /\ pc' = [pc EXCEPT ![p] = next]
        /\ store' = [store EXCEPT ![p] = buckets[name[p]]]
        /\ UNCHANGED <<buckets, created, name>>
    BY <1>2 DEF GetStore, Goto, registry
  <2>2. OnlyMoves(p) /\ pc'[p] = next /\ name'[p] = name[p] /\ store'[p] = buckets[name[p]]
    BY <2>1 DEF OnlyMoves, TypeOK
  <2>3. next \in {"setApply", "readApply"}
    OBVIOUS
  <2>4. PhaseOf(pc[p]) = "find" /\ PhaseOf(pc'[p]) = "done"
    BY <2>1, <2>2, <2>3, Phases
  <2>5. RequestOf(p)' = [step |-> "done", name |-> name[p], got |-> buckets[name[p]]]
    BY <2>2, <2>4 DEF RequestOf
  <2>6. R!Turn(p, "done", name[p], buckets[name[p]])
    BY <2>2, <2>5, TurnIs
  <2>7. CallOf[p].step = "find" /\ CallOf[p].name = name[p]
    BY <2>4, CallAt
  <2>8. Published' = Published
    BY <2>1, <2>2, <2>3, SamePublished
  <2>9. /\ CallOf[p].step = "find" /\ buckets[CallOf[p].name] # NoBucket
        /\ R!Turn(p, "done", CallOf[p].name, buckets[CallOf[p].name])
    BY <1>2, <2>6, <2>7
  <2> QED
    BY <2>1, <2>8, <2>9 DEF R!Find, CallOf
<1> QED
  BY <1>1, <1>2

\* Steps the abstract registry does not see.
LEMMA HiddenSteps ==
  ASSUME IInv, NEW p \in Clients,
         CreateReturn(p) \/ GetBucketLookup(p) \/ ShutdownLock(p) \/ ShutdownClose(p)
  PROVE  UNCHANGED R!registryVars
<1> USE DEF IInv
<1>1. CASE CreateReturn(p)
  <2>1. /\ pc[p] = "createReturn" /\ pc' = [pc EXCEPT ![p] = "createLookup"]
        /\ UNCHANGED <<buckets, created, name, store>>
    BY <1>1 DEF CreateReturn, Goto, locals
  <2>2. OnlyMoves(p) /\ pc'[p] = "createLookup"
    BY <2>1 DEF OnlyMoves, TypeOK
  <2>3. PhaseOf(pc[p]) = "done" /\ PhaseOf(pc'[p]) = "done"
    BY <2>1, <2>2, Phases
  <2>4. RequestOf(p)' = RequestOf(p)
    BY <2>1, <2>3 DEF RequestOf
  <2> QED
    BY <2>1, <2>2, <2>4, SamePublished, SameCall
<1>2. CASE GetBucketLookup(p)
  <2>1. pc[p] = "getBucket" /\ UNCHANGED <<buckets, created>> /\ \E status : Finish(p, status)
    BY <1>2 DEF GetBucketLookup, Answer, registry
  <2>2. /\ OnlyMoves(p) /\ pc'[p] = "idle"
        /\ RequestOf(p)' = [step |-> "idle", name |-> Default, got |-> NoBucket]
    BY <2>1, FinishMoves
  <2>3. RequestOf(p) = [step |-> "idle", name |-> Default, got |-> NoBucket]
    BY <2>1, Phases DEF RequestOf
  <2> QED
    BY <2>1, <2>2, <2>3, SamePublished, SameCall
<1>3. CASE ShutdownLock(p) \/ ShutdownClose(p)
  <2>1. /\ pc[p] \in {"shutdownLock", "shutdownClose"}
        /\ UNCHANGED <<buckets, created, name, store>>
        /\ \/ pc' = pc
           \/ pc' = [pc EXCEPT ![p] = "shutdownClose"]
           \/ pc' = [pc EXCEPT ![p] = "idle"]
    BY <1>3 DEF ShutdownLock, ShutdownClose, Goto, registry, locals
  <2>2. OnlyMoves(p) /\ pc'[p] \in {"idle", "shutdownLock", "shutdownClose"}
    BY <2>1 DEF OnlyMoves, TypeOK
  <2>3. PhaseOf(pc[p]) = "idle" /\ PhaseOf(pc'[p]) = "idle"
    BY <2>1, <2>2, Phases
  <2>4. RequestOf(p)' = RequestOf(p)
    BY <2>3 DEF RequestOf
  <2> QED
    BY <2>1, <2>2, <2>4, SamePublished, SameCall
<1> QED
  BY <1>1, <1>2, <1>3

\* The answer, whatever it is: the operation has had its effect before.
LEMMA LastSteps ==
  ASSUME IInv, NEW p \in Clients,
         CreateLookup(p) \/ DeleteStop(p) \/ SetApply(p) \/ ReadApply(p)
  PROVE  R!Return(p)
<1>1. /\ pc[p] \in {"createLookup", "deleteStop", "setApply", "readApply"}
      /\ UNCHANGED <<buckets, created>> /\ \E status : Finish(p, status)
  BY DEF CreateLookup, DeleteStop, SetApply, ReadApply, Answer, Recovered, registry
<1>2. PhaseOf(pc[p]) = "done"
  BY <1>1, Phases
<1> QED
  BY <1>1, <1>2, FinishReturns DEF IInv

\* Every step of the manager is one step of the abstract registry, or none.
LEMMA NextIsAbstract == IInv /\ [Next]_vars => [R!Next]_(R!registryVars)
<1> SUFFICES ASSUME IInv, [Next]_vars
             PROVE  R!Next \/ UNCHANGED R!registryVars
  OBVIOUS
<1>1. CASE UNCHANGED vars
  BY <1>1 DEF vars, registry, locals, R!registryVars, RequestOf, Published
<1>2. ASSUME NEW p \in Clients, ClientStep(p)
      PROVE  R!Next \/ UNCHANGED R!registryVars
  <2>1. CASE HttpCall(p) \/ TcpCall(p) \/ ShutdownCall(p)
    BY <2>1, CallIsAbstract DEF R!Next
  <2>2. CASE CreateLock(p) \/ DeleteLock(p)
    BY <2>2, CreateLockIsAbstract, DeleteLockIsAbstract DEF R!Next
  <2>3. CASE CreatePublish(p) \/ DeletePublish(p)
    BY <2>3, CreatePublishCreates, DeletePublishDrops DEF R!Next
  <2>4. CASE GetStore(p)
    BY <2>4, GetStoreFinds DEF R!Next
  <2>5. CASE CreateLookup(p) \/ DeleteStop(p) \/ SetApply(p) \/ ReadApply(p)
    BY <2>5, LastSteps DEF R!Next
  <2>6. CASE CreateReturn(p) \/ GetBucketLookup(p) \/ ShutdownLock(p) \/ ShutdownClose(p)
    BY <2>6, HiddenSteps
  <2> QED
    BY <1>2, <2>1, <2>2, <2>3, <2>4, <2>5, <2>6 DEF ClientStep
<1> QED
  BY <1>1, <1>2 DEF Next

LEMMA InitIsAbstract == Init => R!Init
<1> SUFFICES ASSUME Init
             PROVE  R!Init
  OBVIOUS
<1>1. buckets = [n \in Names |-> IF n = Default THEN 1 ELSE NoBucket]
  BY DEF Init, NoBuckets
<1>2. \A q \in Clients : pc[q] = "idle"
  BY DEF Init
<1>3. Published = {1} /\ 1 \in Containers
  <2>1. Published = 1..created
    BY <1>2 DEF Published
  <2> QED
    BY <2>1, BucketAssumption DEF Init, Containers
<1>4. \A q \in Clients : RequestOf(q) = R!Request("idle", Default, NoBucket)
  <2>1. PhaseOf("idle") = "idle"
    BY Phases
  <2> QED
    BY <1>2, <2>1 DEF RequestOf, R!Request
<1> QED
  BY <1>1, <1>3, <1>4 DEF R!Init

\* Whatever the interleaving, callers of the bucket manager see a map whose operations each
\* happen at one instant: CreateBucket and DeleteBucket when the index is stored, GetStore
\* when it is loaded (bucket.go:91-98,109-137,156-175).
THEOREM RegistryIsAtomic == Spec => AtomicRegistry
<1>1. Init => R!Init
  BY InitIsAbstract
<1>2. IInv /\ [Next]_vars => [R!Next]_(R!registryVars)
  BY NextIsAbstract
<1> QED
  BY <1>1, <1>2, RegistryInvariant, PTL DEF Spec, AtomicRegistry, R!Spec
=============================================================================
