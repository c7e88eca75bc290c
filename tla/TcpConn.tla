------------------------------ MODULE TcpConn ------------------------------
(***************************************************************************)
(* The connections of the TCP transport: handleConn of                     *)
(* internal/transport/tcp/server.go and the handler of handler.go.  A      *)
(* connection appends what it reads to a buffer, cuts frames off its front *)
(* and answers each before it looks at the next.                           *)
(*                                                                         *)
(* Buffers are slices of backing arrays: [arr, off, len] is buf, len cells *)
(* of mem[arr] from offset off.  They come from a pool and go back to it;  *)
(* append writes in place while the capacity lasts and moves to a new      *)
(* array otherwise.  The keys the store keeps are strings without a copy,  *)
(* parts of such arrays.  The rest of the store is CowStore's subject;     *)
(* here it is the set of its keys and values.                              *)
(***************************************************************************)
EXTENDS Codec, FiniteSets, SequencesExt, FiniteSetsExt

CONSTANTS
  Conns,                  \* connections peers may open
  Buckets,                \* the buckets that exist
  Requests,               \* [length, command, payload] of the frames peers send
  MaxFrames,              \* bound: frames sent on all connections
  ReadSizes,              \* bound: sizes of a Read that leaves cells behind
  readChunkSize,          \* the most one Read returns
  readerBufSize,          \* capacity of a new buffer
  MaxConnectionBuffSize   \* the most a buffer may hold

ASSUME ConnAssumption ==
  /\ \A r \in Requests : r.length \in Nat /\ r.command \in Nat /\ r.payload \in Seq(Int)
  /\ MaxFrames \in Nat
  /\ ReadSizes \subseteq Nat \ {0}
  /\ readChunkSize \in Nat \ {0}
  /\ readerBufSize \in Nat
  /\ MaxConnectionBuffSize \in Nat
  /\ MaxConnectionBuffSize >= HeaderSize + MaxPayloadSize + readChunkSize

VARIABLES
  conn,      \* connection -> "none", "accepted", "read", "parse", "write" or "closed"
  peer,      \* connection -> is its peer still there
  stream,    \* connection -> cells sent and not read yet
  buf,       \* connection -> its buffer
  reply,     \* connection -> the frame handleConn is about to write
  mem,       \* backing arrays, by number
  pool,      \* bufPool: the slices (with length 0) in it
  stored,    \* the keys in the store, each a part of an array, and their values
  wg,        \* s.wg, the goroutines Stop waits for
  panicked,  \* a panic nobody recovers, or main's log.Fatal: the process is gone
  sent,      \* history: connection -> the frames its peer sent
  handled,   \* history: connection -> the frames given to HandleFrame
  replies,   \* history: connection -> the frames written
  why        \* history: connection -> why it was closed

dataVars == <<mem, pool, stored>>
connVars == <<conn, peer, stream, buf, reply, dataVars, wg, panicked, sent, handled, replies, why>>

NoSlice == [arr |-> 0, off |-> 0, len |-> 0]
Cap(b) == Len(mem[b.arr]) - b.off
Cells(b) == SubSeq(mem[b.arr], b.off + 1, b.off + b.len)
\* The index's key and the entry's own Key, as they read now.
KeyOf(e) == Cells(e.at)
OwnKeyOf(e) == Cells(e.own)
IsOpen(c) == conn[c] \in {"read", "parse", "write"}

ConnInit ==
  /\ conn = [c \in Conns |-> "none"]
  /\ peer = [c \in Conns |-> TRUE]
  /\ stream = [c \in Conns |-> <<>>]
  /\ buf = [c \in Conns |-> NoSlice]
  /\ reply = [c \in Conns |-> <<>>]
  /\ mem = <<>>
  /\ pool = {}
  /\ stored = {}
  /\ wg = 0
  /\ panicked = FALSE
  /\ sent = [c \in Conns |-> <<>>]
  /\ handled = [c \in Conns |-> <<>>]
  /\ replies = [c \in Conns |-> <<>>]
  /\ why = [c \in Conns |-> "open"]

-----------------------------------------------------------------------------
(***************************************************************************)
(* Peers.  A frame carries its number on the connection as RequestID.      *)
(***************************************************************************)
SentFrames == SumFunction([c \in Conns |-> Len(sent[c])])

Send(c) ==
  /\ IsOpen(c) /\ peer[c]
  /\ SentFrames < MaxFrames
  /\ \E r \in Requests :
       LET id == Len(sent[c]) + 1
       IN /\ stream' = [stream EXCEPT ![c] = @ \o <<r.length, r.command, id>> \o r.payload]
          /\ sent' = [sent EXCEPT ![c] = Append(@, [command |-> r.command, id |-> id, payload |-> r.payload])]
  /\ UNCHANGED <<conn, peer, buf, reply, dataVars, wg, panicked, handled, replies, why>>

PeerGone(c) ==
  /\ IsOpen(c) /\ peer[c]
  /\ peer' = [peer EXCEPT ![c] = FALSE]
  /\ UNCHANGED <<conn, stream, buf, reply, dataVars, wg, panicked, sent, handled, replies, why>>

-----------------------------------------------------------------------------
(***************************************************************************)
(* handler.go.  Tokens are BucketManager's subject: here a bucket's token  *)
(* is spelled like the bucket.  A frame has one outcome, except that a Get *)
(* may miss an entry that expired or was read before.                      *)
(***************************************************************************)
ValidateToken(token, bucket) == token # <<>> /\ token = bucket

\* What the service answers before it touches the store (storage_service.go).
ServiceError(bucket, ttl) ==
  IF ttl < 0 THEN "ErrInvalidTTL"
  ELSE IF bucket \notin Buckets THEN "ErrBucketNotFound" ELSE "nil"

Outcome(r, s) == [reply |-> r, stored |-> s]

Found(d) == {e \in stored : e.bucket = d.bucket /\ KeyOf(e) = d.key}

\* The frame's operation gets as far as the store.
Reaches(d, ttl) ==
  d.ok /\ ValidateToken(d.token, d.bucket) /\ ServiceError(d.bucket, ttl) = "nil"

\* Decoding, the token, the service; what the store does, the set results, comes last.
Handle(id, d, ttl, results) ==
  LET err == ServiceError(d.bucket, ttl)
      refused(status) == {Outcome(NewErrorFrame(id, status), stored)}
  IN IF ~d.ok THEN refused(StatusBadRequest)
     ELSE IF ~ValidateToken(d.token, d.bucket) THEN refused(StatusUnauthorized)
     ELSE IF err # "nil" THEN refused(handleServiceError(err))
     ELSE results

\* The entry keeps the key as it lies in buf; so does the index, unless it has that key already.
handleSet(id, d, at) ==
  LET own == [arr |-> at.arr, off |-> at.off + d.keyAt, len |-> Len(d.key)]
      entry(a) == [bucket |-> d.bucket, at |-> a, own |-> own, key |-> d.key,
                   ttl |-> d.ttl, singleRead |-> d.singleRead, value |-> d.value]
      places == IF Found(d) = {} THEN {own} ELSE {e.at : e \in Found(d)}
  IN Handle(id, d, d.ttl,
            {Outcome(NewResponseFrame(id, StatusCreated, <<>>),
                     (stored \ Found(d)) \cup {entry(a) : a \in places})})

handleGet(id, d) ==
  LET miss == Outcome(NewErrorFrame(id, handleServiceError("ErrKeyNotFound")), stored)
      hit(e) == Outcome(NewResponseFrame(id, StatusOK,
                          EncodeValueResponse(OwnKeyOf(e), e.ttl, 0, 0, e.singleRead, e.value)), stored)
      mayMiss == \A e \in Found(d) : e.singleRead \/ e.ttl > 0
  IN Handle(id, d, 0, {hit(e) : e \in Found(d)} \cup (IF mayMiss THEN {miss} ELSE {}))

handleDelete(id, d) ==
  Handle(id, d, 0, {Outcome(NewResponseFrame(id, StatusNoContent, <<>>), stored \ Found(d))})

\* at is where the payload lies.
HandleFrame(f, at) ==
  IF f.command = CmdSet THEN handleSet(f.id, DecodeSetPayload(f.payload), at)
  ELSE IF f.command = CmdGet THEN handleGet(f.id, DecodeGetPayload(f.payload))
  ELSE IF f.command = CmdDelete THEN handleDelete(f.id, DecodeGetPayload(f.payload))
  ELSE {Outcome(NewErrorFrame(f.id, StatusBadRequest), stored)}

\* A Set, or a Delete that finds its key, changes the shard's timers, which are not modelled
\* here: where their positions are stale it panics (CowStore).
MayPanic(f) ==
  \/ f.command = CmdSet /\ LET d == DecodeSetPayload(f.payload) IN Reaches(d, d.ttl)
  \/ /\ f.command = CmdDelete
     /\ LET d == DecodeGetPayload(f.payload) IN Reaches(d, 0) /\ Found(d) # {}

-----------------------------------------------------------------------------
Zeros(n) == [i \in 1..n |-> 0]

\* Variant: the slice stays in the pool.
handleConn_Shared(c) ==
  /\ conn' = [conn EXCEPT ![c] = "read"]
  /\ \/ \E s \in pool :
          /\ buf' = [buf EXCEPT ![c] = s]
          /\ UNCHANGED mem
     \/ /\ mem' = Append(mem, Zeros(readerBufSize))
        /\ buf' = [buf EXCEPT ![c] = [arr |-> Len(mem) + 1, off |-> 0, len |-> 0]]
  /\ UNCHANGED <<peer, stream, reply, pool, stored, panicked, sent, handled, replies, why>>

\* The goroutine of a connection begins: bufPool.Get, a slice of the pool or a new one.
handleConn(c) ==
  /\ conn' = [conn EXCEPT ![c] = "read"]
  /\ \/ \E s \in pool :
          /\ buf' = [buf EXCEPT ![c] = s]
          /\ pool' = pool \ {s}
          /\ UNCHANGED mem
     \/ /\ mem' = Append(mem, Zeros(readerBufSize))
        /\ buf' = [buf EXCEPT ![c] = [arr |-> Len(mem) + 1, off |-> 0, len |-> 0]]
        /\ UNCHANGED pool
  /\ UNCHANGED <<peer, stream, reply, stored, panicked, sent, handled, replies, why>>

\* handleConn's deferred functions: a slice goes back to the pool, the connection is closed,
\* its goroutine is done.
Give(c, reason, slice) ==
  /\ conn' = [conn EXCEPT ![c] = "closed"]
  /\ peer' = [peer EXCEPT ![c] = FALSE]
  /\ why' = [why EXCEPT ![c] = reason]
  /\ pool' = pool \cup {slice}
  /\ buf' = [buf EXCEPT ![c] = NoSlice]
  /\ stream' = [stream EXCEPT ![c] = <<>>]
  /\ reply' = [reply EXCEPT ![c] = <<>>]
  /\ wg' = wg - 1
  /\ UNCHANGED <<mem, stored, panicked, sent, handled, replies>>

\* Variants: the slice goes back from the start of its array, or without being emptied.
Return_Rewound(c, reason) == Give(c, reason, [buf[c] EXCEPT !.off = 0, !.len = 0])
Return_NotEmptied(c, reason) == Give(c, reason, buf[c])

\* *bufPtr = buf[:0]
Return(c, reason) == Give(c, reason, [buf[c] EXCEPT !.len = 0])

\* buf = append(buf, data...)
AppendTo(c, data) ==
  LET b == buf[c]
      size == b.len + Len(data)
  IN IF size <= Cap(b)
     THEN /\ mem' = [mem EXCEPT ![b.arr] =
                       [i \in DOMAIN @ |-> IF i \in (b.off + b.len + 1)..(b.off + size)
                                           THEN data[i - b.off - b.len] ELSE @[i]]]
          /\ buf' = [buf EXCEPT ![c].len = size]
     ELSE /\ mem' = Append(mem, Cells(b) \o data \o Zeros(Max({2 * Cap(b), size}) - size))
          /\ buf' = [buf EXCEPT ![c] = [arr |-> Len(mem) + 1, off |-> 0, len |-> size]]

\* br.Read returns some of what has arrived, or all of it up to its chunk.
Arrivals(c) ==
  LET most == Min({readChunkSize, Len(stream[c])})
  IN {n \in ReadSizes \cup {most} : 0 < n /\ n <= most}

Read(c) ==
  /\ conn[c] = "read"
  /\ \E n \in Arrivals(c) :
       IF buf[c].len + n > MaxConnectionBuffSize
       THEN Return(c, "overflow")
       ELSE /\ AppendTo(c, SubSeq(stream[c], 1, n))
            /\ stream' = [stream EXCEPT ![c] = SubSeq(@, n + 1, Len(@))]
            /\ conn' = [conn EXCEPT ![c] = "parse"]
            /\ UNCHANGED <<peer, reply, pool, stored, wg, panicked, sent, handled, replies, why>>

\* End of stream, or a reset that loses what was not read.
ReadError(c) ==
  /\ conn[c] = "read"
  /\ ~peer[c]
  /\ Return(c, "read")

(***************************************************************************)
(* One turn of the inner loop up to HandleFrame.                           *)
(***************************************************************************)
FrameLen(c) == Cells(buf[c])[1]
Incomplete(c) == buf[c].len < HeaderSize \/ buf[c].len < FrameLen(c)
\* Variant: checked when the frame is complete.
Oversized_Late(c) ==
  ~Incomplete(c) /\ FrameLen(c) > HeaderSize + MaxPayloadSize
Oversized(c) == buf[c].len >= HeaderSize /\ FrameLen(c) > HeaderSize + MaxPayloadSize

NeedMore(c) ==
  /\ conn[c] = "parse"
  /\ Incomplete(c) /\ ~Oversized(c)
  /\ conn' = [conn EXCEPT ![c] = "read"]
  /\ UNCHANGED <<peer, stream, buf, reply, dataVars, wg, panicked, sent, handled, replies, why>>

DropOversized(c) ==
  /\ conn[c] = "parse"
  /\ Oversized(c)
  /\ Return(c, "oversized")

\* The frame at the front of the buffer.
FrontFrame(c) ==
  LET cells == Cells(buf[c])
  IN [command |-> cells[2], id |-> cells[3], payload |-> SubSeq(cells, HeaderSize + 1, FrameLen(c))]

\* buf[HeaderSize:frameLen] with frameLen < HeaderSize, or the store's panic: nothing recovers
\* on this goroutine.
Panic(c) ==
  /\ conn[c] = "parse"
  /\ ~Incomplete(c) /\ ~Oversized(c)
  /\ FrameLen(c) < HeaderSize \/ MayPanic(FrontFrame(c))
  /\ panicked' = TRUE
  /\ UNCHANGED <<conn, peer, stream, buf, reply, dataVars, wg, sent, handled, replies, why>>

HandleNext(c) ==
  /\ conn[c] = "parse"
  /\ ~Incomplete(c) /\ ~Oversized(c)
  /\ FrameLen(c) >= HeaderSize
  /\ LET f == FrontFrame(c)
         at == [arr |-> buf[c].arr, off |-> buf[c].off + HeaderSize]
     IN /\ \E o \in HandleFrame(f, at) :
             /\ reply' = [reply EXCEPT ![c] = o.reply]
             /\ stored' = o.stored
        /\ handled' = [handled EXCEPT ![c] = Append(@, f)]
  /\ conn' = [conn EXCEPT ![c] = "write"]
  /\ UNCHANGED <<peer, stream, buf, mem, pool, wg, panicked, sent, replies, why>>

\* Variant: the frame stays in the buffer.
Advanced_NotCut(c) == buf[c]

\* The answer is written, and buf = buf[frameLen:].
Advanced(c) ==
  [arr |-> buf[c].arr, off |-> buf[c].off + FrameLen(c), len |-> buf[c].len - FrameLen(c)]

\* Variant: one frame for each read.
Write_OneFrame(c) ==
  /\ conn[c] = "write"
  /\ replies' = [replies EXCEPT ![c] = Append(@, reply[c])]
  /\ reply' = [reply EXCEPT ![c] = <<>>]
  /\ buf' = [buf EXCEPT ![c] = Advanced(c)]
  /\ conn' = [conn EXCEPT ![c] = "read"]
  /\ UNCHANGED <<peer, stream, dataVars, wg, panicked, sent, handled, why>>

Write(c) ==
  /\ conn[c] = "write"
  /\ replies' = [replies EXCEPT ![c] = Append(@, reply[c])]
  /\ reply' = [reply EXCEPT ![c] = <<>>]
  /\ buf' = [buf EXCEPT ![c] = Advanced(c)]
  /\ conn' = [conn EXCEPT ![c] = IF Advanced(c).len = 0 THEN "read" ELSE "parse"]
  /\ UNCHANGED <<peer, stream, dataVars, wg, panicked, sent, handled, why>>

\* The frame was executed and is still at the front of buf.
WriteError(c) ==
  /\ conn[c] = "write"
  /\ ~peer[c]
  /\ Return(c, "write")

ConnStep(c) ==
  \/ Read(c) \/ ReadError(c)
  \/ NeedMore(c) \/ DropOversized(c) \/ Panic(c) \/ HandleNext(c)
  \/ Write(c) \/ WriteError(c)

-----------------------------------------------------------------------------
(***************************************************************************)
(* However the stream is cut into reads, what HandleFrame is given on a    *)
(* connection are the frames its peer sent, each once, in order and whole  *)
(* (server.go:143-174).                                                    *)
(***************************************************************************)
FramesInOrder == \A c \in Conns : IsPrefix(handled[c], sent[c])

(***************************************************************************)
(* Every answer carries the RequestID of the request it answers, in the    *)
(* order of the requests, and a request that was answered was executed     *)
(* (server.go:163-169, handler.go:39-106).                                 *)
(***************************************************************************)
AnswersCorrelate ==
  \A c \in Conns :
    /\ Len(handled[c]) - Len(replies[c]) \in {0, 1}
    /\ \A i \in DOMAIN replies[c] :
         LET f == DecodeFrame(replies[c][i])
         IN f.ok /\ f.id = handled[c][i].id /\ ParseResponsePayload(f.payload).ok

(***************************************************************************)
(* A buffer never reaches MaxConnectionBuffSize: an oversized frame is     *)
(* refused by its header, and any other is cut off before more than one    *)
(* read beyond it is buffered (server.go:139,150).                         *)
(***************************************************************************)
NeverOverflows == \A c \in Conns : why[c] # "overflow"

(***************************************************************************)
(* A backing array has one owner: no two connections, and no connection    *)
(* and the pool, hold slices of the same array (server.go:117-125).        *)
(***************************************************************************)
BuffersOwned ==
  \A c \in Conns :
    IsOpen(c) => /\ \A d \in Conns \ {c} : buf[d].arr # buf[c].arr
                 /\ \A s \in pool : s.arr # buf[c].arr

(***************************************************************************)
(* The keys in the store stay what they were when they were stored, though *)
(* they share the memory of a connection's buffer (codec.go:25,            *)
(* server.go:122,167-171).                                                 *)
(***************************************************************************)
StoredKeysStable == \A e \in stored : KeyOf(e) = e.key /\ OwnKeyOf(e) = e.key

(***************************************************************************)
(* The same as long as every answer could be written: what a connection    *)
(* has consumed is never handed out by the pool again.                     *)
(***************************************************************************)
KeysStableIfAnswered == (\A c \in Conns : why[c] # "write") => StoredKeysStable
=============================================================================
