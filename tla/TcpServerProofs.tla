-------------------------- MODULE TcpServerProofs --------------------------
(***************************************************************************)
(* TcpServer for every number of connections, every set of requests and    *)
(* all buffer sizes: what Stop waits for, who owns a buffer, and how large *)
(* a buffer gets.                                                          *)
(***************************************************************************)
EXTENDS TcpServer, FiniteSetTheorems, SequenceTheorems, TLAPS

ConnStates == {"none", "accepted", "read", "parse", "write", "closed"}
OpenStates == {"read", "parse", "write"}

OpenConns == {c \in Conns : IsOpen(c)}

\* The accept loop's own entry in the wait group.
Loops == IF acceptor \in {"run", "adding"} THEN 1 ELSE 0

ServerTypes ==
  /\ start \in {"none", "published", "done"}
  /\ acceptor \in {"off", "run", "adding", "done"}
  /\ stopper \in {"idle", "wait", "drained", "nil", "err"}
  /\ lnClosed \in BOOLEAN
  /\ conn \in [Conns -> ConnStates]

\* The accept loop begins when Start is done, and holds at most one connection whose goroutine
\* it has not started.
LoopInv ==
  /\ acceptor = "off" <=> start # "done"
  /\ \A c, d \in Conns : conn[c] = "accepted" /\ conn[d] = "accepted" => c = d
  /\ (\E c \in Conns : conn[c] = "accepted") <=> acceptor = "adding"

\* The wait group counts the goroutines of the open connections and the accept loop.
WaitInv ==
  /\ IsFiniteSet(OpenConns)
  /\ wg = Cardinality(OpenConns) + Loops

\* Once done is closed and the listener too, no connection comes any more.
DrainInv == stopper \in {"drained", "nil"} /\ lnClosed => AllGone

LifeInv == ServerTypes /\ LoopInv /\ WaitInv /\ DrainInv

-----------------------------------------------------------------------------
\* What the steps of a connection's goroutine do to its state and the wait group.
LEMMA ConnStepLife ==
  ASSUME NEW c \in Conns, conn \in [Conns -> ConnStates], ConnStep(c)
  PROVE  /\ conn[c] \in OpenStates
         /\ \/ wg' = wg /\ \E st \in OpenStates : conn' = [conn EXCEPT ![c] = st]
            \/ wg' = wg - 1 /\ conn' = [conn EXCEPT ![c] = "closed"]
<1> USE DEF OpenStates, ConnStates
<1>1. CASE Read(c)
  <2>1. PICK n \in Arrivals(c) :
          IF buf[c].len + n > MaxConnectionBuffSize
          THEN Return(c, "overflow")
          ELSE conn' = [conn EXCEPT ![c] = "parse"] /\ UNCHANGED wg
    BY <1>1 DEF Read
  <2> QED  BY <1>1, <2>1 DEF Read, Return, Give
<1>2. CASE ReadError(c)
  BY <1>2 DEF ReadError, Return, Give
<1>3. CASE NeedMore(c)
  BY <1>3 DEF NeedMore
<1>4. CASE DropOversized(c)
  BY <1>4 DEF DropOversized, Return, Give
<1>5. CASE Panic(c)
  <2>1. conn[c] = "parse" /\ conn' = conn /\ wg' = wg
    BY <1>5 DEF Panic
  <2>2. conn' = [conn EXCEPT ![c] = "parse"]
    BY <2>1
  <2> QED  BY <2>1, <2>2
<1>6. CASE HandleNext(c)
  BY <1>6 DEF HandleNext
<1>7. CASE Write(c)
  BY <1>7 DEF Write
<1>8. CASE WriteError(c)
  BY <1>8 DEF WriteError, Return, Give
<1> QED  BY <1>1, <1>2, <1>3, <1>4, <1>5, <1>6, <1>7, <1>8 DEF ConnStep

LEMMA LifeInit == Init => LifeInv
<1> SUFFICES ASSUME Init PROVE LifeInv
  OBVIOUS
<1>1. OpenConns = {} /\ Loops = 0 /\ wg = 0
  BY DEF Init, ConnInit, OpenConns, IsOpen, Loops
<1>2. WaitInv
  BY <1>1, FS_EmptySet DEF WaitInv
<1> QED
  BY <1>2 DEF Init, ConnInit, LifeInv, ServerTypes, LoopInv, DrainInv, AllGone, ConnStates

\* The steps of the server itself, which change no connection.
LEMMA LifeServer == ASSUME LifeInv, Up, ServerStep PROVE LifeInv'
<1> USE DEF LifeInv, ServerTypes, Up
<1>1. ASSUME conn' = conn, wg' - Loops' = wg - Loops, wg' \in Int PROVE WaitInv'
  <2>1. OpenConns' = OpenConns
    BY <1>1 DEF OpenConns, IsOpen
  <2>2. Cardinality(OpenConns) \in Nat
    BY FS_CardinalityType DEF WaitInv
  <2> QED  BY <1>1, <2>1, <2>2 DEF WaitInv, Loops
<1>2. Cardinality(OpenConns) \in Nat /\ wg \in Nat /\ (wg = 0 => Cardinality(OpenConns) = 0 /\ Loops = 0)
  BY FS_CardinalityType DEF WaitInv, Loops
<1>3. CASE Publish
  <2>1. conn' = conn /\ wg' = wg /\ acceptor' = acceptor
    BY <1>3 DEF Publish, connVars
  <2>2. WaitInv'
    BY <1>1, <1>2, <2>1 DEF Loops
  <2> QED  BY <1>3, <2>1, <2>2 DEF Publish, LoopInv, DrainInv, AllGone
<1>4. CASE ListenError
  <2>1. conn' = conn /\ wg' = wg /\ UNCHANGED serverVars
    BY <1>4 DEF ListenError
  <2>2. WaitInv'
    BY <1>1, <1>2, <2>1 DEF Loops, serverVars
  <2> QED  BY <2>1, <2>2 DEF serverVars, LoopInv, DrainInv, AllGone
<1>5. CASE Spawn
  <2>1. conn' = conn /\ wg' = wg + 1 /\ acceptor = "off" /\ acceptor' = "run"
    BY <1>5 DEF Spawn, LoopInv
  <2>2. WaitInv'
    BY <1>1, <1>2, <2>1 DEF Loops
  <2> QED  BY <1>5, <2>1, <2>2 DEF Spawn, LoopInv, DrainInv, AllGone
<1>6. CASE AcceptError
  <2>1. conn' = conn /\ wg' = wg - 1 /\ acceptor = "run" /\ acceptor' = "done"
    BY <1>6 DEF AcceptError
  <2>2. WaitInv'
    BY <1>1, <1>2, <2>1 DEF Loops
  <2> QED  BY <1>6, <2>1, <2>2 DEF AcceptError, LoopInv, DrainInv, AllGone
<1>7. CASE Stop
  <2>1. conn' = conn /\ wg' = wg /\ acceptor' = acceptor
    BY <1>7 DEF Stop, connVars
  <2>2. WaitInv'
    BY <1>1, <1>2, <2>1 DEF Loops
  <2> QED  BY <1>7, <2>1, <2>2 DEF Stop, LoopInv, DrainInv, AllGone
<1>8. CASE WaitDone
  <2>1. conn' = conn /\ wg' = wg /\ acceptor' = acceptor /\ wg = 0
    BY <1>8 DEF WaitDone, connVars
  <2>2. WaitInv'
    BY <1>1, <1>2, <2>1 DEF Loops
  <2>3. OpenConns = {} /\ acceptor # "adding"
    BY <1>2, <2>1, FS_EmptySet DEF WaitInv, Loops
  <2>4. \A c \in Conns : conn[c] \in {"none", "closed"}
    BY <2>3 DEF OpenConns, IsOpen, LoopInv, ConnStates
  <2> QED  BY <1>8, <2>1, <2>2, <2>4 DEF WaitDone, LoopInv, DrainInv, AllGone
<1>9. CASE StopDone \/ StopTimeout
  <2>1. conn' = conn /\ wg' = wg /\ acceptor' = acceptor
    BY <1>9 DEF StopDone, StopTimeout, connVars
  <2>2. WaitInv'
    BY <1>1, <1>2, <2>1 DEF Loops
  <2> QED  BY <1>9, <2>1, <2>2 DEF StopDone, StopTimeout, LoopInv, DrainInv, AllGone
<1> QED  BY <1>3, <1>4, <1>5, <1>6, <1>7, <1>8, <1>9 DEF ServerStep

LEMMA LifeAccept == ASSUME LifeInv, Up, NEW c \in Conns, Accept(c) PROVE LifeInv'
<1> USE DEF LifeInv, ServerTypes, Up
<1>1. /\ conn' = [conn EXCEPT ![c] = "accepted"] /\ conn[c] = "none"
      /\ acceptor = "run" /\ acceptor' = "adding" /\ ~lnClosed
      /\ wg' = wg /\ start' = start /\ lnClosed' = lnClosed /\ stopper' = stopper
  BY DEF Accept
<1>2. OpenConns' = OpenConns /\ Loops' = Loops
  BY <1>1 DEF OpenConns, IsOpen, Loops
<1>3. \A d \in Conns : conn[d] # "accepted"
  BY <1>1 DEF LoopInv
<1>4. LoopInv'
  BY <1>1, <1>3 DEF LoopInv
<1> QED  BY <1>1, <1>2, <1>4 DEF WaitInv, DrainInv, AllGone, ConnStates

LEMMA LifeServe == ASSUME LifeInv, Up, NEW c \in Conns, Serve(c) PROVE LifeInv'
<1> USE DEF LifeInv, ServerTypes, Up
<1>1. /\ conn' = [conn EXCEPT ![c] = "read"] /\ conn[c] = "accepted"
      /\ acceptor' = "run"
      /\ wg' = wg + 1 /\ start' = start /\ lnClosed' = lnClosed /\ stopper' = stopper
  BY DEF Serve, handleConn
<1>2. acceptor = "adding" /\ Loops = 1 /\ Loops' = 1
  BY <1>1 DEF LoopInv, Loops
<1>3. OpenConns' = OpenConns \cup {c} /\ c \notin OpenConns
  BY <1>1 DEF OpenConns, IsOpen
<1>4. IsFiniteSet(OpenConns') /\ Cardinality(OpenConns') = Cardinality(OpenConns) + 1
  BY <1>3, FS_AddElement DEF WaitInv
<1>5. WaitInv'
  BY <1>1, <1>2, <1>4, FS_CardinalityType DEF WaitInv
<1>6. LoopInv'
  BY <1>1, <1>2 DEF LoopInv
<1> QED  BY <1>1, <1>5, <1>6 DEF DrainInv, AllGone, ConnStates

LEMMA LifeConnStep ==
  ASSUME LifeInv, Up, NEW c \in Conns, ConnStep(c), UNCHANGED serverVars
  PROVE  LifeInv'
<1> USE DEF LifeInv, ServerTypes, Up, serverVars
<1>1. conn[c] \in OpenStates
  BY ConnStepLife
<1>2. CASE wg' = wg /\ \E st \in OpenStates : conn' = [conn EXCEPT ![c] = st]
  <2>1. OpenConns' = OpenConns /\ Loops' = Loops
    BY <1>1, <1>2 DEF OpenConns, IsOpen, OpenStates, Loops
  <2> QED  BY <1>1, <1>2, <2>1 DEF LoopInv, WaitInv, DrainInv, AllGone, OpenStates, ConnStates
<1>3. CASE wg' = wg - 1 /\ conn' = [conn EXCEPT ![c] = "closed"]
  <2>1. OpenConns' = OpenConns \ {c} /\ c \in OpenConns /\ Loops' = Loops
    BY <1>1, <1>3 DEF OpenConns, IsOpen, OpenStates, Loops
  <2>2. IsFiniteSet(OpenConns') /\ Cardinality(OpenConns') = Cardinality(OpenConns) - 1
    BY <2>1, FS_RemoveElement DEF WaitInv
  <2>3. WaitInv'
    BY <1>3, <2>1, <2>2, FS_CardinalityType DEF WaitInv, Loops
  <2>4. LoopInv'
    BY <1>1, <1>3 DEF LoopInv, OpenStates
  <2> QED  BY <1>1, <1>3, <2>3, <2>4 DEF DrainInv, AllGone, OpenStates, ConnStates
<1> QED  BY <1>2, <1>3, ConnStepLife

LEMMA LifeUnchanged == ASSUME LifeInv, UNCHANGED <<conn, wg, serverVars>> PROVE LifeInv'
BY DEF serverVars, LifeInv, ServerTypes, LoopInv, WaitInv, DrainInv, AllGone, OpenConns, IsOpen, Loops

LEMMA LifeNext == LifeInv /\ [Next]_vars => LifeInv'
<1> SUFFICES ASSUME LifeInv, [Next]_vars PROVE LifeInv'
  OBVIOUS
<1>1. CASE UNCHANGED vars
  BY <1>1, LifeUnchanged DEF vars, connVars
<1>2. CASE Up /\ ServerStep
  BY <1>2, LifeServer
<1>3. ASSUME Up, NEW c \in Conns, Accept(c) \/ Serve(c) PROVE LifeInv'
  BY <1>3, LifeAccept, LifeServe
<1>4. ASSUME Up, NEW c \in Conns, Send(c) \/ PeerGone(c), UNCHANGED serverVars PROVE LifeInv'
  BY <1>4, LifeUnchanged DEF Send, PeerGone
<1>5. ASSUME Up, NEW c \in Conns, ConnStep(c), UNCHANGED serverVars PROVE LifeInv'
  BY <1>5, LifeConnStep
<1> QED  BY <1>1, <1>2, <1>3, <1>4, <1>5 DEF Next

-----------------------------------------------------------------------------
(***************************************************************************)
(* Buffers.                                                                *)
(***************************************************************************)
Slice == [arr : Nat, off : Nat, len : Nat]

Reasons == {"open", "read", "write", "oversized", "overflow"}

BufTypes ==
  /\ mem \in Seq(Seq(Int))
  /\ buf \in [Conns -> Slice]
  /\ pool \subseteq Slice
  /\ stream \in [Conns -> Seq(Int)]
  /\ peer \in [Conns -> BOOLEAN]
  /\ panicked \in BOOLEAN
  /\ why \in [Conns -> Reasons]

\* A slice lies inside its array.
Fits(b) == b.arr \in DOMAIN mem /\ b.off + b.len <= Len(mem[b.arr])

\* Only open connections have a buffer, and no array is in the pool twice.
HoldInv ==
  /\ \A c \in Conns : IF IsOpen(c) THEN Fits(buf[c]) ELSE buf[c] = NoSlice
  /\ \A s \in pool : s.len = 0 /\ Fits(s)
  /\ \A s, t \in pool : s.arr = t.arr => s = t

\* The frame that was just handled is still at the front of the buffer.
FrontInv ==
  \A c \in Conns :
    conn[c] = "write" => /\ buf[c].len >= HeaderSize
                         /\ HeaderSize <= FrameLen(c) /\ FrameLen(c) <= buf[c].len

\* Before a read a buffer holds less than a frame of the largest size.
SizeInv == \A c \in Conns : conn[c] = "read" => buf[c].len < HeaderSize + MaxPayloadSize

BufInv == BufTypes /\ HoldInv /\ BuffersOwned /\ FrontInv /\ SizeInv /\ NeverOverflows

\* A frame as a peer sends it.
Frame == [command : Int, id : Int, payload : Seq(Int)]

SentTypes == sent \in [Conns -> Seq(Frame)]

IInv == LifeInv /\ BufInv /\ SentTypes

LEMMA MinOfTwo == \A a, b \in Int : Min({a, b}) \in Int /\ Min({a, b}) <= a /\ Min({a, b}) <= b
<1> SUFFICES ASSUME NEW a \in Int, NEW b \in Int
             PROVE  Min({a, b}) \in Int /\ Min({a, b}) <= a /\ Min({a, b}) <= b
  OBVIOUS
<1>1. \E x \in {a, b} : \A y \in {a, b} : x <= y
  OBVIOUS
<1>2. Min({a, b}) \in {a, b} /\ \A y \in {a, b} : Min({a, b}) <= y
  BY <1>1 DEF Min
<1> QED  BY <1>2

LEMMA MaxOfTwo == \A a, b \in Int : Max({a, b}) \in Int /\ Max({a, b}) >= a /\ Max({a, b}) >= b
<1> SUFFICES ASSUME NEW a \in Int, NEW b \in Int
             PROVE  Max({a, b}) \in Int /\ Max({a, b}) >= a /\ Max({a, b}) >= b
  OBVIOUS
<1>1. \E x \in {a, b} : \A y \in {a, b} : x >= y
  OBVIOUS
<1>2. Max({a, b}) \in {a, b} /\ \A y \in {a, b} : Max({a, b}) >= y
  BY <1>1 DEF Max
<1> QED  BY <1>2

\* Pure facts about sequences of cells: a part of one, one overwritten in its middle, and three
\* put together.
LEMMA PartOf ==
  ASSUME NEW a \in Seq(Int), NEW off \in Nat, NEW n \in Nat, off + n <= Len(a)
  PROVE  /\ SubSeq(a, off + 1, off + n) \in Seq(Int)
         /\ Len(SubSeq(a, off + 1, off + n)) = n
         /\ \A i \in 1..n : SubSeq(a, off + 1, off + n)[i] = a[off + i]
<1> DEFINE m == off + 1
           e == off + n
<1>1. m \in Int /\ e \in Int /\ m >= 1 /\ e <= Len(a) /\ e - m + 1 = n
  OBVIOUS
<1>2. \A i \in m..e : a[i] \in Int
  BY <1>1, ElementOfSeq
<1> HIDE DEF m, e
<1>4. /\ SubSeq(a, m, e) \in Seq(Int)
      /\ Len(SubSeq(a, m, e)) = IF m <= e THEN e - m + 1 ELSE 0
      /\ \A i \in 1..(e - m + 1) : SubSeq(a, m, e)[i] = a[m + i - 1]
  BY <1>1, <1>2, SubSeqProperties
<1>5. Len(SubSeq(a, m, e)) = n
  BY <1>1, <1>4
<1>6. ASSUME NEW i \in 1..n PROVE SubSeq(a, m, e)[i] = a[off + i]
  <2>1. SubSeq(a, m, e)[i] = a[m + i - 1]
    BY <1>1, <1>4
  <2>2. m + i - 1 = off + i
    BY DEF m
  <2> QED  BY <2>1, <2>2, Zenon
<1> QED  BY <1>4, <1>5, <1>6 DEF m, e

Overwrite(old, data, off, len) ==
  [i \in DOMAIN old |-> IF i \in (off + len + 1)..(off + (len + Len(data)))
                        THEN data[i - off - len] ELSE old[i]]

LEMMA Overwritten ==
  ASSUME NEW old \in Seq(Int), NEW data \in Seq(Int), NEW off \in Nat, NEW len \in Nat,
         off + (len + Len(data)) <= Len(old)
  PROVE  /\ Overwrite(old, data, off, len) \in Seq(Int)
         /\ Len(Overwrite(old, data, off, len)) = Len(old)
         /\ \A i \in DOMAIN old : i <= off + len => Overwrite(old, data, off, len)[i] = old[i]
         /\ \A i \in 1..Len(data) : Overwrite(old, data, off, len)[off + len + i] = data[i]
<1> DEFINE new == Overwrite(old, data, off, len)
<1> USE DEF Overwrite
<1>1. DOMAIN old = 1..Len(old) /\ Len(old) \in Nat /\ Len(data) \in Nat
  BY LenProperties
<1>2. ASSUME NEW i \in 1..Len(old) PROVE new[i] \in Int
  <2>1. CASE i \in (off + len + 1)..(off + (len + Len(data)))
    <3>1. i - off - len \in 1..Len(data)
      BY <1>1, <2>1
    <3>2. new[i] = data[i - off - len]
      BY <1>1, <2>1
    <3> QED  BY <3>1, <3>2, ElementOfSeq
  <2>2. CASE i \notin (off + len + 1)..(off + (len + Len(data)))
    BY <1>1, <2>2, ElementOfSeq
  <2> QED  BY <2>1, <2>2
<1>3. new \in [1..Len(old) -> Int]
  BY <1>1, <1>2
<1>4. new \in Seq(Int) /\ Len(new) = Len(old)
  BY <1>1, <1>3
<1>5. \A i \in DOMAIN old : i <= off + len => new[i] = old[i]
  BY <1>1
<1>6. ASSUME NEW i \in 1..Len(data) PROVE new[off + len + i] = data[i]
  <2> DEFINE j == off + len + i
  <2>1. j \in 1..Len(old) /\ j \in (off + len + 1)..(off + (len + Len(data))) /\ j - off - len = i
    BY <1>1
  <2> HIDE DEF j
  <2>2. new[j] = data[j - off - len]
    BY <1>1, <2>1
  <2> QED  BY <2>1, <2>2 DEF j
<1> QED  BY <1>4, <1>5, <1>6

LEMMA ThreeParts ==
  ASSUME NEW s \in Seq(Int), NEW t \in Seq(Int), NEW u \in Seq(Int)
  PROVE  /\ s \o t \o u \in Seq(Int)
         /\ Len(s \o t \o u) = Len(s) + Len(t) + Len(u)
         /\ \A i \in 1..Len(s) : (s \o t \o u)[i] = s[i]
         /\ \A i \in 1..Len(t) : (s \o t \o u)[Len(s) + i] = t[i]
<1> DEFINE st == s \o t
<1>1. Len(s) \in Nat /\ Len(t) \in Nat /\ Len(u) \in Nat
  OBVIOUS
<1>2. st \in Seq(Int) /\ Len(st) = Len(s) + Len(t)
  BY ConcatProperties
<1>3. \A i \in 1..Len(s) : st[i] = s[i]
  BY <1>1, ConcatProperties
<1>4. \A i \in 1..Len(t) : st[Len(s) + i] = t[i]
  BY <1>1, ConcatProperties
<1> HIDE DEF st
<1>5. st \o u \in Seq(Int) /\ Len(st \o u) = Len(st) + Len(u)
  BY <1>2, ConcatProperties
<1>6. \A i \in 1..Len(st) : (st \o u)[i] = st[i]
  BY <1>1, <1>2, ConcatProperties
<1>7. \A i \in 1..Len(s) : (st \o u)[i] = s[i]
  BY <1>1, <1>2, <1>3, <1>6
<1>8. ASSUME NEW i \in 1..Len(t) PROVE (st \o u)[Len(s) + i] = t[i]
  <2>1. Len(s) + i \in 1..Len(st)
    BY <1>1, <1>2
  <2> QED  BY <1>4, <1>6, <2>1
<1> QED  BY <1>1, <1>2, <1>5, <1>7, <1>8 DEF st

LEMMA ThreeCells ==
  \A x, y, z \in Int : /\ <<x, y, z>> \in Seq(Int) /\ Len(<<x, y, z>>) = 3
                       /\ <<x, y, z>>[1] = x /\ <<x, y, z>>[2] = y /\ <<x, y, z>>[3] = z
OBVIOUS

LEMMA ZeroCells == ASSUME NEW n \in Nat PROVE Zeros(n) \in Seq(Int) /\ Len(Zeros(n)) = n
BY DEF Zeros

\* The cells of a slice are those of its array, in any memory.
LEMMA SliceCells ==
  ASSUME NEW m \in Seq(Seq(Int)), NEW b \in Slice, b.arr \in DOMAIN m, b.off + b.len <= Len(m[b.arr])
  PROVE  /\ SubSeq(m[b.arr], b.off + 1, b.off + b.len) \in Seq(Int)
         /\ Len(SubSeq(m[b.arr], b.off + 1, b.off + b.len)) = b.len
         /\ \A i \in 1..b.len : SubSeq(m[b.arr], b.off + 1, b.off + b.len)[i] = m[b.arr][b.off + i]
<1>1. PICK arr \in Nat, off \in Nat, len \in Nat : b.arr = arr /\ b.off = off /\ b.len = len
  BY DEF Slice
<1>2. m[arr] \in Seq(Int) /\ off + len <= Len(m[arr])
  BY <1>1, ElementOfSeq
<1> QED  BY <1>1, <1>2, PartOf

LEMMA CellsOf ==
  ASSUME mem \in Seq(Seq(Int)), NEW b \in Slice, Fits(b)
  PROVE  /\ Cells(b) \in Seq(Int)
         /\ Len(Cells(b)) = b.len
         /\ \A i \in 1..b.len : Cells(b)[i] = mem[b.arr][b.off + i]
BY SliceCells DEF Cells, Fits

LEMMA CellsOfNext ==
  ASSUME mem' \in Seq(Seq(Int)), NEW c \in Conns, buf'[c] \in Slice, Fits(buf[c])'
  PROVE  /\ Cells(buf[c])' \in Seq(Int)
         /\ Len(Cells(buf[c])') = buf'[c].len
         /\ \A i \in 1..buf'[c].len : Cells(buf[c])'[i] = mem'[buf'[c].arr][buf'[c].off + i]
BY SliceCells DEF Cells, Fits

\* append keeps the cells of every array but those after the slice, and its result is the old
\* cells with the data after them, inside one array.
LEMMA AppendFacts ==
  ASSUME BufTypes, NEW c \in Conns, Fits(buf[c]), NEW data \in Seq(Int), AppendTo(c, data)
  PROVE  /\ mem' \in Seq(Seq(Int))
         /\ buf' \in [Conns -> Slice]
         /\ \A d \in Conns \ {c} : buf'[d] = buf[d]
         /\ \A a \in DOMAIN mem : a \in DOMAIN mem' /\ Len(mem'[a]) = Len(mem[a])
         /\ \A a \in DOMAIN mem : \A i \in DOMAIN mem[a] :
              (a # buf[c].arr \/ i <= buf[c].off + buf[c].len) => mem'[a][i] = mem[a][i]
         /\ Fits(buf[c])'
         /\ \/ buf'[c].arr = buf[c].arr /\ buf'[c].off = buf[c].off
            \/ buf'[c].arr = Len(mem) + 1
         /\ buf'[c].len = buf[c].len + Len(data)
         /\ \A i \in 1..buf[c].len : mem'[buf'[c].arr][buf'[c].off + i] = mem[buf[c].arr][buf[c].off + i]
         /\ \A i \in 1..Len(data) : mem'[buf'[c].arr][buf'[c].off + buf[c].len + i] = data[i]
<1>1. PICK arr \in Nat, off \in Nat, len \in Nat : buf[c] = [arr |-> arr, off |-> off, len |-> len]
  BY DEF BufTypes, Slice
<1>2. /\ arr \in 1..Len(mem) /\ mem[arr] \in Seq(Int) /\ off + len <= Len(mem[arr])
      /\ Len(mem) \in Nat /\ DOMAIN mem = 1..Len(mem) /\ mem \in Seq(Seq(Int))
      /\ Len(data) \in Nat
  BY <1>1, ElementOfSeq, LenProperties DEF BufTypes, Fits
<1>3. PICK old \in Seq(Int) : old = mem[arr]
  BY <1>2
<1>4. off + len <= Len(old) /\ Len(old) \in Nat /\ DOMAIN old = 1..Len(old)
  BY <1>2, <1>3, LenProperties
<1>5. PICK size \in Nat : size = len + Len(data)
  BY <1>2
<1>6. Cap(buf[c]) = Len(old) - off
  BY <1>1, <1>3 DEF Cap
<1>7. CASE off + size <= Len(old)
  <2>1. PICK new : new = Overwrite(old, data, off, len)
    OBVIOUS
  <2>2. mem' = [mem EXCEPT ![arr] = new] /\ buf' = [buf EXCEPT ![c].len = size]
    <3>1. size <= Cap(buf[c])
      BY <1>4, <1>6, <1>7
    <3>2. buf[c].arr = arr /\ buf[c].off = off /\ buf[c].len = len
      BY <1>1
    <3> QED  BY <1>3, <1>5, <2>1, <3>1, <3>2 DEF AppendTo, Overwrite
  <2>3. /\ new \in Seq(Int) /\ Len(new) = Len(old)
        /\ \A i \in DOMAIN old : i <= off + len => new[i] = old[i]
        /\ \A i \in 1..Len(data) : new[off + len + i] = data[i]
    <3> HIDE <1>7, <2>1
    <3>1. off + (len + Len(data)) <= Len(old)
      BY <1>5, <1>7
    <3>2. Overwrite(old, data, off, len) \in Seq(Int)
      BY <3>1, Overwritten
    <3>3. Len(Overwrite(old, data, off, len)) = Len(old)
      BY <3>1, Overwritten
    <3>4. \A i \in DOMAIN old : i <= off + len => Overwrite(old, data, off, len)[i] = old[i]
      BY <3>1, Overwritten
    <3>5. \A i \in 1..Len(data) : Overwrite(old, data, off, len)[off + len + i] = data[i]
      BY <3>1, Overwritten
    <3> QED  BY <2>1, <3>2, <3>3, <3>4, <3>5, Zenon
  <2>4. /\ mem' \in Seq(Seq(Int)) /\ Len(mem') = Len(mem)
        /\ \A a \in 1..Len(mem) : mem'[a] = IF a = arr THEN new ELSE mem[a]
    BY <1>2, <2>2, <2>3, ExceptSeq
  <2>5. DOMAIN mem' = DOMAIN mem
    BY <2>2
  <2>6. buf'[c] = [buf[c] EXCEPT !.len = size]
    BY <2>2 DEF BufTypes
  <2>7. buf'[c] = [arr |-> arr, off |-> off, len |-> size]
    BY <1>1, <2>6, SMTT(30)
  <2>8. \A d \in Conns \ {c} : buf'[d] = buf[d]
    BY <2>2 DEF BufTypes
  <2>9. buf' \in [Conns -> Slice]
    BY <2>2, <2>7 DEF BufTypes, Slice
  <2>10. mem'[arr] = new
    BY <1>2, <2>4
  <2>11. Fits(buf[c])'
    BY <1>2, <1>7, <2>3, <2>5, <2>7, <2>10 DEF Fits
  <2>12. ASSUME NEW i \in 1..len PROVE new[off + i] = old[off + i]
    <3>1. off + i \in DOMAIN old /\ off + i <= off + len
      BY <1>4
    <3> QED  BY <2>3, <3>1
  <2>13. \A a \in DOMAIN mem : a \in DOMAIN mem' /\ Len(mem'[a]) = Len(mem[a])
    BY <1>2, <1>3, <2>3, <2>4, <2>5
  <2>14. \A a \in DOMAIN mem : \A i \in DOMAIN mem[a] :
           (a # arr \/ i <= off + len) => mem'[a][i] = mem[a][i]
    BY <1>2, <1>3, <2>3, <2>4
  <2>15. buf[c].arr = arr /\ buf[c].off = off /\ buf[c].len = len
    BY <1>1
  <2>16. buf'[c].arr = arr /\ buf'[c].off = off /\ buf'[c].len = size
    BY <2>7
  <2>17. \A i \in 1..buf[c].len :
           mem'[buf'[c].arr][buf'[c].off + i] = mem[buf[c].arr][buf[c].off + i]
    BY <1>3, <2>10, <2>12, <2>15, <2>16
  <2>18. \A i \in 1..Len(data) : mem'[buf'[c].arr][buf'[c].off + buf[c].len + i] = data[i]
    BY <2>3, <2>10, <2>15, <2>16
  <2>19. \A a \in DOMAIN mem : \A i \in DOMAIN mem[a] :
           (a # buf[c].arr \/ i <= buf[c].off + buf[c].len) => mem'[a][i] = mem[a][i]
    BY <2>14, <2>15
  <2>20. buf'[c].arr = buf[c].arr /\ buf'[c].off = buf[c].off /\ buf'[c].len = buf[c].len + Len(data)
    BY <1>5, <2>15, <2>16
  <2> QED  BY <2>4, <2>8, <2>9, <2>11, <2>13, <2>17, <2>18, <2>19, <2>20
<1>8. CASE ~(off + size <= Len(old))
  <2>1. PICK pad \in Seq(Int) : pad = Zeros(Max({2 * Cap(buf[c]), size}) - size)
    <3>1. PICK cap \in Int : cap = 2 * Cap(buf[c])
      BY <1>4, <1>6
    <3>2. Max({cap, size}) \in Int /\ Max({cap, size}) >= size
      <4>1. size \in Int
        OBVIOUS
      <4> QED  BY <4>1, MaxOfTwo, Zenon
    <3>3. PICK n \in Nat : n = Max({cap, size}) - size
      BY <3>2
    <3> QED  BY <3>1, <3>3, ZeroCells
  <2>2. PICK cells : cells = Cells(buf[c])
    OBVIOUS
  <2>3. cells \in Seq(Int) /\ Len(cells) = len /\ \A i \in 1..len : cells[i] = old[off + i]
    <3>1. buf[c] \in Slice /\ buf[c].arr = arr /\ buf[c].off = off /\ buf[c].len = len
      BY <1>1 DEF Slice
    <3> QED  BY <1>2, <1>3, <2>2, <3>1, CellsOf
  <2>4. PICK new : new = cells \o data \o pad
    OBVIOUS
  <2>5. mem' = Append(mem, new) /\ buf' = [buf EXCEPT ![c] = [arr |-> Len(mem) + 1, off |-> 0, len |-> size]]
    <3>1. ~(size <= Cap(buf[c]))
      BY <1>4, <1>6, <1>8
    <3>2. buf[c].len = len
      BY <1>1
    <3> QED  BY <1>5, <2>1, <2>2, <2>4, <3>1, <3>2 DEF AppendTo
  <2>6. /\ new \in Seq(Int) /\ Len(new) = Len(cells) + Len(data) + Len(pad)
        /\ \A i \in 1..Len(cells) : new[i] = cells[i]
        /\ \A i \in 1..Len(data) : new[Len(cells) + i] = data[i]
    <3>1. cells \in Seq(Int) /\ data \in Seq(Int) /\ pad \in Seq(Int)
      BY <2>3
    <3> HIDE <2>3
    <3>2. /\ cells \o data \o pad \in Seq(Int)
          /\ Len(cells \o data \o pad) = Len(cells) + Len(data) + Len(pad)
          /\ \A i \in 1..Len(cells) : (cells \o data \o pad)[i] = cells[i]
          /\ \A i \in 1..Len(data) : (cells \o data \o pad)[Len(cells) + i] = data[i]
      BY <3>1, ThreeParts, ZenonT(30)
    <3> QED  BY <2>4, <3>2, Zenon
  <2>7. Len(pad) \in Nat
    OBVIOUS
  <2>8. /\ Len(new) = size + Len(pad) /\ Len(new) >= size
        /\ \A i \in 1..len : new[i] = old[off + i]
        /\ \A i \in 1..Len(data) : new[len + i] = data[i]
    <3>1. Len(cells) = len
      BY <2>3
    <3>2. Len(new) = len + Len(data) + Len(pad) /\ \A i \in 1..len : new[i] = cells[i]
      BY <2>6, <3>1
    <3>3. \A i \in 1..Len(data) : new[len + i] = data[i]
      BY <2>6, <3>1
    <3>4. PICK n \in Nat, d \in Nat : n = Len(pad) /\ d = Len(data)
      BY <2>7, LenProperties
    <3>5. Len(new) = size + Len(pad) /\ Len(new) >= size
      BY <1>5, <3>2, <3>4
    <3> QED  BY <2>3, <3>2, <3>3, <3>5, Zenon
  <2>9. PICK top \in Nat : top = Len(mem) + 1
    BY <1>2
  <2>10. /\ mem' \in Seq(Seq(Int)) /\ Len(mem') = top
         /\ mem'[top] = new
         /\ \A a \in 1..Len(mem) : mem'[a] = mem[a]
    BY <1>2, <2>5, <2>6, <2>9, AppendProperties
  <2>11. DOMAIN mem' = 1..top /\ top \in 1..top
    BY <1>2, <2>9, <2>10, LenProperties
  <2>12. buf'[c] = [arr |-> top, off |-> 0, len |-> size]
    BY <2>5, <2>9 DEF BufTypes
  <2>13. \A d \in Conns \ {c} : buf'[d] = buf[d]
    BY <2>5 DEF BufTypes
  <2>14. buf' \in [Conns -> Slice]
    BY <2>5, <2>9, <2>12 DEF BufTypes, Slice
  <2>15. Fits(buf[c])'
    BY <2>8, <2>10, <2>11, <2>12 DEF Fits
  <2>16. \A i \in 1..len : new[0 + i] = old[off + i]
    BY <2>8
  <2>17. \A i \in 1..Len(data) : new[0 + len + i] = data[i]
    BY <2>8
  <2>18. \A a \in DOMAIN mem : a \in DOMAIN mem' /\ mem'[a] = mem[a]
    BY <1>2, <2>9, <2>10, <2>11
  <2>19. buf[c].arr = arr /\ buf[c].off = off /\ buf[c].len = len
    BY <1>1
  <2>20. buf'[c].arr = top /\ buf'[c].off = 0 /\ buf'[c].len = size
    BY <2>12
  <2>21. \A i \in 1..buf[c].len :
           mem'[buf'[c].arr][buf'[c].off + i] = mem[buf[c].arr][buf[c].off + i]
    BY <1>3, <2>10, <2>16, <2>19, <2>20
  <2>22. \A i \in 1..Len(data) : mem'[buf'[c].arr][buf'[c].off + buf[c].len + i] = data[i]
    BY <2>10, <2>17, <2>19, <2>20
  <2>23. buf'[c].arr = Len(mem) + 1 /\ buf'[c].len = buf[c].len + Len(data)
    BY <1>5, <2>9, <2>19, <2>20
  <2>24. \A a \in DOMAIN mem : \A i \in DOMAIN mem[a] :
           (a # buf[c].arr \/ i <= buf[c].off + buf[c].len) => mem'[a][i] = mem[a][i]
    BY <2>18
  <2>25. \A a \in DOMAIN mem : a \in DOMAIN mem' /\ Len(mem'[a]) = Len(mem[a])
    BY <2>18
  <2> QED  BY <2>10, <2>13, <2>14, <2>15, <2>21, <2>22, <2>23, <2>24, <2>25
<1> QED  BY <1>7, <1>8

\* The length in the header of a buffer is a number.
LEMMA FrameLenOf ==
  ASSUME BufTypes, NEW c \in Conns, Fits(buf[c]), buf[c].len >= HeaderSize
  PROVE  FrameLen(c) \in Int /\ FrameLen(c) = mem[buf[c].arr][buf[c].off + 1]
<1>1. buf[c] \in Slice /\ mem \in Seq(Seq(Int)) /\ 1 \in 1..buf[c].len
  BY DEF BufTypes, Slice, HeaderSize
<1>2. Cells(buf[c]) \in Seq(Int) /\ 1 \in 1..Len(Cells(buf[c]))
      /\ Cells(buf[c])[1] = mem[buf[c].arr][buf[c].off + 1]
  BY <1>1, CellsOf
<1> QED  BY <1>2, ElementOfSeq DEF FrameLen

LEMMA BufInit == Init => BufInv
<1> SUFFICES ASSUME Init PROVE BufInv
  OBVIOUS
<1>1. BufTypes
  <2>1. <<>> \in Seq(Seq(Int)) /\ <<>> \in Seq(Int) /\ NoSlice \in Slice
    BY EmptySeq DEF NoSlice, Slice
  <2> QED  BY <2>1 DEF Init, ConnInit, BufTypes, Reasons
<1>2. \A c \in Conns : conn[c] = "none" /\ buf[c] = NoSlice /\ why[c] = "open"
  BY DEF Init, ConnInit
<1>3. pool = {}
  BY DEF Init, ConnInit
<1> QED
  BY <1>1, <1>2, <1>3 DEF BufInv, HoldInv, BuffersOwned, FrontInv, SizeInv, NeverOverflows, IsOpen

\* Steps that leave connections, buffers and the pool alone.
LEMMA BufQuiet ==
  ASSUME BufInv, UNCHANGED <<conn, buf, mem, pool, why>>, stream' \in [Conns -> Seq(Int)],
         peer' \in [Conns -> BOOLEAN], panicked' \in BOOLEAN
  PROVE  BufInv'
<1>1. \A c \in Conns : FrameLen(c)' = FrameLen(c)
  BY DEF FrameLen, Cells
<1>2. HoldInv' /\ BuffersOwned' /\ SizeInv' /\ NeverOverflows'
  BY DEF BufInv, HoldInv, BuffersOwned, SizeInv, NeverOverflows, IsOpen, Fits
<1>3. FrontInv'
  BY <1>1 DEF BufInv, FrontInv
<1>4. BufTypes'
  BY DEF BufInv, BufTypes
<1> QED  BY <1>2, <1>3, <1>4 DEF BufInv

\* A connection moves on with the buffer it has.
LEMMA BufMove ==
  ASSUME BufInv, NEW c \in Conns, NEW st,
         conn \in [Conns -> ConnStates], conn' = [conn EXCEPT ![c] = st],
         UNCHANGED <<buf, mem, pool, why, stream, peer, panicked>>,
         st \in OpenStates <=> conn[c] \in OpenStates,
         st = "write" => /\ buf[c].len >= HeaderSize
                         /\ HeaderSize <= FrameLen(c) /\ FrameLen(c) <= buf[c].len,
         st = "read" => buf[c].len < HeaderSize + MaxPayloadSize
  PROVE  BufInv'
<1>1. \A d \in Conns : FrameLen(d)' = FrameLen(d)
  BY DEF FrameLen, Cells
<1>2. \A d \in Conns : IsOpen(d)' <=> IsOpen(d)
  BY DEF IsOpen, OpenStates
<1>3. HoldInv' /\ BuffersOwned' /\ NeverOverflows'
  BY <1>2 DEF BufInv, HoldInv, BuffersOwned, NeverOverflows, Fits
<1>4. FrontInv' /\ SizeInv'
  BY <1>1 DEF BufInv, FrontInv, SizeInv
<1>5. BufTypes'
  BY DEF BufInv, BufTypes
<1> QED  BY <1>3, <1>4, <1>5 DEF BufInv

\* A connection ends and its slice, emptied, goes to the pool.
LEMMA BufReturn ==
  ASSUME BufInv, NEW c \in Conns, conn \in [Conns -> ConnStates], IsOpen(c),
         NEW reason \in Reasons \ {"overflow"}, Return(c, reason)
  PROVE  BufInv'
<1>1. PICK s \in Slice : s.arr = buf[c].arr /\ s.off = buf[c].off /\ s.len = 0 /\ pool' = pool \cup {s}
  <2>1. buf[c] \in Slice
    BY DEF BufInv, BufTypes
  <2>2. [buf[c] EXCEPT !.len = 0] \in Slice
    BY <2>1 DEF Slice
  <2>3. /\ [buf[c] EXCEPT !.len = 0].arr = buf[c].arr
        /\ [buf[c] EXCEPT !.len = 0].off = buf[c].off
        /\ [buf[c] EXCEPT !.len = 0].len = 0
    BY <2>1 DEF Slice
  <2> QED  BY <2>2, <2>3 DEF Return, Give
<1>2. /\ conn' = [conn EXCEPT ![c] = "closed"] /\ buf' = [buf EXCEPT ![c] = NoSlice]
      /\ peer' = [peer EXCEPT ![c] = FALSE] /\ why' = [why EXCEPT ![c] = reason]
      /\ stream' = [stream EXCEPT ![c] = <<>>] /\ mem' = mem /\ panicked' = panicked
  BY DEF Return, Give
<1>3. BufTypes'
  <2>1. <<>> \in Seq(Int) /\ NoSlice \in Slice
    BY EmptySeq DEF NoSlice, Slice
  <2> QED  BY <1>1, <1>2, <2>1 DEF BufInv, BufTypes
<1>4. /\ buf'[c] = NoSlice /\ ~IsOpen(c)'
      /\ \A d \in Conns \ {c} : buf'[d] = buf[d] /\ conn'[d] = conn[d] /\ (IsOpen(d)' <=> IsOpen(d))
  BY <1>2 DEF BufInv, BufTypes, IsOpen
<1>5. \A b : Fits(b)' <=> Fits(b)
  BY <1>2 DEF Fits
<1>6. Fits(s)
  <2>1. Fits(buf[c]) /\ buf[c].len \in Nat /\ buf[c].off \in Nat
    BY DEF BufInv, BufTypes, HoldInv, Slice
  <2>2. buf[c].arr \in DOMAIN mem /\ Len(mem[buf[c].arr]) \in Nat
    BY <2>1, ElementOfSeq, LenProperties DEF Fits, BufInv, BufTypes
  <2> QED  BY <1>1, <2>1, <2>2 DEF Fits
<1>7. \A t \in pool : t.arr # s.arr
  BY <1>1 DEF BufInv, BuffersOwned
<1>8. HoldInv'
  <2>1. \A d \in Conns : IF IsOpen(d)' THEN Fits(buf'[d]) ELSE buf'[d] = NoSlice
    BY <1>4 DEF BufInv, HoldInv
  <2>2. \A t \in pool' : t.len = 0 /\ Fits(t)
    BY <1>1, <1>6 DEF BufInv, HoldInv
  <2>3. \A t, u \in pool' : t.arr = u.arr => t = u
    BY <1>1, <1>7 DEF BufInv, HoldInv
  <2>4. \A d \in Conns : Fits(buf[d])' <=> Fits(buf'[d])
    BY <1>2 DEF Fits
  <2> QED  BY <1>5, <2>1, <2>2, <2>3, <2>4 DEF HoldInv
<1>9. BuffersOwned'
  <2> SUFFICES ASSUME NEW d \in Conns, IsOpen(d)'
               PROVE  /\ \A e \in Conns \ {d} : buf'[e].arr # buf'[d].arr
                      /\ \A t \in pool' : t.arr # buf'[d].arr
    BY DEF BuffersOwned
  <2>1. d # c /\ IsOpen(d) /\ buf'[d] = buf[d] /\ Fits(buf[d])
    BY <1>4 DEF BufInv, HoldInv
  <2>2. buf[d].arr # 0
    <3>1. mem \in Seq(Seq(Int)) /\ 0 \notin DOMAIN mem
      BY LenProperties DEF BufInv, BufTypes
    <3> QED  BY <2>1, <3>1 DEF Fits
  <2>3. NoSlice.arr = 0
    BY DEF NoSlice
  <2>4. \A e \in Conns \ {d} : buf'[e].arr # buf'[d].arr
    BY <1>4, <2>1, <2>2, <2>3 DEF BufInv, BuffersOwned
  <2>5. \A t \in pool' : t.arr # buf'[d].arr
    BY <1>1, <2>1 DEF BufInv, BuffersOwned
  <2> QED  BY <2>4, <2>5
<1>10. FrontInv' /\ SizeInv'
  <2>1. \A d \in Conns \ {c} : FrameLen(d)' = FrameLen(d)
    BY <1>2, <1>4 DEF FrameLen, Cells
  <2>2. conn'[c] = "closed"
    BY <1>2
  <2> QED  BY <1>4, <2>1, <2>2 DEF BufInv, FrontInv, SizeInv
<1>11. NeverOverflows'
  BY <1>2 DEF BufInv, BufTypes, NeverOverflows
<1> QED  BY <1>3, <1>8, <1>9, <1>10, <1>11 DEF BufInv

\* A connection begins with a slice of the pool or a new one.
LEMMA BufBegin ==
  ASSUME BufInv, NEW c \in Conns, conn \in [Conns -> ConnStates], conn[c] = "accepted", handleConn(c)
  PROVE  BufInv'
<1>1. /\ conn' = [conn EXCEPT ![c] = "read"]
      /\ UNCHANGED <<peer, stream, panicked, why>>
  BY DEF handleConn
<1>2. ~IsOpen(c) /\ IsOpen(c)'
      /\ \A d \in Conns \ {c} : conn'[d] = conn[d] /\ (IsOpen(d)' <=> IsOpen(d))
  BY <1>1 DEF IsOpen
<1>3. mem \in Seq(Seq(Int)) /\ DOMAIN mem = 1..Len(mem) /\ Len(mem) \in Nat
  BY LenProperties DEF BufInv, BufTypes
<1>4. HeaderSize + MaxPayloadSize > 0
  BY CodecAssumption DEF HeaderSize
<1>5. \A d \in Conns \ {c} : IsOpen(d) => buf[d].arr \in DOMAIN mem
  BY DEF BufInv, HoldInv, Fits
<1>6. CASE \E s \in pool :
             buf' = [buf EXCEPT ![c] = s] /\ pool' = pool \ {s} /\ UNCHANGED mem
  <2>1. PICK s \in pool : buf' = [buf EXCEPT ![c] = s] /\ pool' = pool \ {s} /\ mem' = mem
    BY <1>6
  <2>2. buf'[c] = s /\ \A d \in Conns \ {c} : buf'[d] = buf[d]
    BY <2>1 DEF BufInv, BufTypes
  <2>3. s \in Slice /\ s.len = 0 /\ Fits(s) /\ s.arr # 0
    BY <1>3 DEF BufInv, BufTypes, HoldInv, Fits
  <2>4. BufTypes'
    BY <1>1, <2>1, <2>3 DEF BufInv, BufTypes
  <2>5. \A b : Fits(b)' <=> Fits(b)
    BY <2>1 DEF Fits
  <2>6. \A d \in Conns : Fits(buf[d])' <=> Fits(buf'[d])
    BY <2>1 DEF Fits
  <2>7. HoldInv'
    BY <1>2, <2>1, <2>2, <2>3, <2>5, <2>6 DEF BufInv, HoldInv
  <2>8. \A d \in Conns \ {c} : buf[d].arr # s.arr
    <3>1. \A d \in Conns \ {c} : IsOpen(d) => buf[d].arr # s.arr
      BY <2>1 DEF BufInv, BuffersOwned
    <3>2. \A d \in Conns \ {c} : ~IsOpen(d) => buf[d].arr = 0
      BY DEF BufInv, HoldInv, NoSlice
    <3> QED  BY <2>3, <3>1, <3>2
  <2>9. \A t \in pool' : t.arr # s.arr
    BY <2>1 DEF BufInv, HoldInv
  <2>10. BuffersOwned'
    BY <1>2, <2>1, <2>2, <2>8, <2>9 DEF BufInv, BuffersOwned
  <2>11. \A d \in Conns \ {c} : FrameLen(d)' = FrameLen(d)
    BY <2>1, <2>2 DEF FrameLen, Cells
  <2>12. FrontInv' /\ SizeInv'
    BY <1>1, <1>2, <1>4, <2>2, <2>3, <2>11 DEF BufInv, FrontInv, SizeInv
  <2> QED  BY <1>1, <2>4, <2>7, <2>10, <2>12 DEF BufInv, NeverOverflows
<1>7. CASE /\ mem' = Append(mem, Zeros(readerBufSize))
           /\ buf' = [buf EXCEPT ![c] = [arr |-> Len(mem) + 1, off |-> 0, len |-> 0]]
           /\ UNCHANGED pool
  <2>1. PICK top \in Nat : top = Len(mem) + 1
    BY <1>3
  <2>2. Zeros(readerBufSize) \in Seq(Int) /\ Len(Zeros(readerBufSize)) \in Nat
    BY ZeroCells, ConnAssumption
  <2>3. /\ mem' \in Seq(Seq(Int)) /\ Len(mem') = top /\ mem'[top] = Zeros(readerBufSize)
        /\ \A a \in 1..Len(mem) : mem'[a] = mem[a]
    BY <1>3, <1>7, <2>1, <2>2, AppendProperties
  <2>4. DOMAIN mem' = 1..top
    BY <2>3, LenProperties
  <2>5. /\ buf'[c] = [arr |-> top, off |-> 0, len |-> 0]
        /\ \A d \in Conns \ {c} : buf'[d] = buf[d]
    BY <1>7, <2>1 DEF BufInv, BufTypes
  <2>6. BufTypes'
    BY <1>1, <1>7, <2>1, <2>3, <2>5 DEF BufInv, BufTypes, Slice
  <2>7. \A a \in DOMAIN mem : a \in DOMAIN mem' /\ mem'[a] = mem[a] /\ a # top
    BY <1>3, <2>1, <2>3, <2>4
  <2>8. Fits(buf[c])'
    BY <2>1, <2>2, <2>3, <2>4, <2>5 DEF Fits
  <2>9. \A d \in Conns \ {c} : Fits(buf[d]) => Fits(buf[d])'
    BY <2>5, <2>7 DEF Fits
  <2>10. \A s \in pool : Fits(s) => Fits(s)'
    BY <2>7 DEF Fits
  <2>11. HoldInv'
    BY <1>2, <1>7, <2>5, <2>8, <2>9, <2>10 DEF BufInv, HoldInv
  <2>12. \A d \in Conns \ {c} : buf[d].arr # top
    <3>1. \A d \in Conns \ {c} : ~IsOpen(d) => buf[d].arr = 0
      BY DEF BufInv, HoldInv, NoSlice
    <3>2. top # 0
      BY <1>3, <2>1
    <3> QED  BY <1>5, <2>7, <3>1, <3>2
  <2>13. \A t \in pool : t.arr # top
    BY <2>7 DEF BufInv, HoldInv, Fits
  <2>14. BuffersOwned'
    BY <1>2, <1>7, <2>5, <2>12, <2>13 DEF BufInv, BuffersOwned
  <2>15. \A d \in Conns \ {c} : IsOpen(d) => FrameLen(d)' = FrameLen(d)
    BY <1>5, <2>5, <2>7 DEF FrameLen, Cells
  <2>16. FrontInv' /\ SizeInv'
    BY <1>1, <1>2, <1>4, <2>5, <2>15 DEF BufInv, FrontInv, SizeInv, IsOpen
  <2> QED  BY <1>1, <2>6, <2>11, <2>14, <2>16 DEF BufInv, NeverOverflows
<1> QED  BY <1>6, <1>7 DEF handleConn

\* A Read returns at least one cell, and no more than its chunk or than has arrived.
LEMMA ArrivalBounds ==
  ASSUME BufTypes, NEW c \in Conns, NEW n \in Arrivals(c)
  PROVE  n \in Nat /\ 0 < n /\ n <= readChunkSize /\ n <= Len(stream[c])
<1>1. PICK arrived \in Nat : arrived = Len(stream[c])
  BY DEF BufTypes
<1>2. readChunkSize \in Int /\ arrived \in Int
  BY ConnAssumption
<1>3. PICK most : most = Min({readChunkSize, arrived})
  OBVIOUS
<1>4. most \in Int /\ most <= readChunkSize /\ most <= arrived
  <2>1. /\ Min({readChunkSize, arrived}) \in Int /\ Min({readChunkSize, arrived}) <= readChunkSize
        /\ Min({readChunkSize, arrived}) <= arrived
    BY <1>2, MinOfTwo, Zenon
  <2> QED  BY <1>3, <2>1, Zenon
<1>5. n \in ReadSizes \cup {most} /\ 0 < n /\ n <= most
  BY <1>1, <1>3 DEF Arrivals
<1>6. n \in Int
  BY <1>4, <1>5, ConnAssumption
<1> QED  BY <1>1, <1>2, <1>4, <1>5, <1>6

\* What is left of a stream after a Read, and what the Read returned.
LEMMA StreamParts ==
  ASSUME BufTypes, NEW c \in Conns, NEW n \in Nat, n <= Len(stream[c])
  PROVE  /\ SubSeq(stream[c], 1, n) \in Seq(Int)
         /\ Len(SubSeq(stream[c], 1, n)) = n
         /\ \A i \in 1..n : SubSeq(stream[c], 1, n)[i] = stream[c][i]
         /\ SubSeq(stream[c], n + 1, Len(stream[c])) \in Seq(Int)
         /\ Len(SubSeq(stream[c], n + 1, Len(stream[c]))) = Len(stream[c]) - n
         /\ \A i \in 1..(Len(stream[c]) - n) :
              SubSeq(stream[c], n + 1, Len(stream[c]))[i] = stream[c][n + i]
<1>1. PICK s \in Seq(Int) : s = stream[c]
  BY DEF BufTypes
<1>2. Len(s) \in Nat /\ n <= Len(s)
  BY <1>1
<1>3. /\ SubSeq(s, 0 + 1, 0 + n) \in Seq(Int)
      /\ Len(SubSeq(s, 0 + 1, 0 + n)) = n
      /\ \A i \in 1..n : SubSeq(s, 0 + 1, 0 + n)[i] = s[0 + i]
  BY <1>2, PartOf
<1>4. PICK r \in Nat : r = Len(s) - n
  <2>1. Len(s) - n \in Nat
    BY <1>2
  <2> QED  BY <2>1
<1>5. /\ SubSeq(s, n + 1, n + r) \in Seq(Int)
      /\ Len(SubSeq(s, n + 1, n + r)) = r
      /\ \A i \in 1..r : SubSeq(s, n + 1, n + r)[i] = s[n + i]
  BY <1>2, <1>4, PartOf
<1>6. 0 + 1 = 1 /\ 0 + n = n /\ n + r = Len(s) /\ \A i \in 1..n : 0 + i = i
  BY <1>2, <1>4
<1>7. /\ SubSeq(s, 1, n) \in Seq(Int) /\ Len(SubSeq(s, 1, n)) = n
      /\ \A i \in 1..n : SubSeq(s, 1, n)[i] = s[i]
  BY <1>3, <1>6
<1>8. /\ SubSeq(s, n + 1, Len(s)) \in Seq(Int)
      /\ Len(SubSeq(s, n + 1, Len(s))) = Len(s) - n
      /\ \A i \in 1..(Len(s) - n) : SubSeq(s, n + 1, Len(s))[i] = s[n + i]
  BY <1>4, <1>5, <1>6
<1> QED  BY <1>1, <1>7, <1>8

\* The buffer of a connection in "read" has room for whatever one Read returns, so Read appends.
LEMMA ReadAppends ==
  ASSUME BufInv, NEW c \in Conns, Read(c)
  PROVE  \E n \in Nat :
           /\ 0 < n /\ n <= Len(stream[c]) /\ n <= readChunkSize
           /\ AppendTo(c, SubSeq(stream[c], 1, n))
           /\ stream' = [stream EXCEPT ![c] = SubSeq(@, n + 1, Len(@))]
           /\ conn' = [conn EXCEPT ![c] = "parse"]
           /\ UNCHANGED <<peer, reply, pool, stored, wg, panicked, sent, handled, replies, why>>
<1>1. PICK n \in Arrivals(c) :
        IF buf[c].len + n > MaxConnectionBuffSize
        THEN Return(c, "overflow")
        ELSE /\ AppendTo(c, SubSeq(stream[c], 1, n))
             /\ stream' = [stream EXCEPT ![c] = SubSeq(@, n + 1, Len(@))]
             /\ conn' = [conn EXCEPT ![c] = "parse"]
             /\ UNCHANGED <<peer, reply, pool, stored, wg, panicked, sent, handled, replies, why>>
  BY DEF Read
<1>2. n \in Nat /\ 0 < n /\ n <= readChunkSize /\ n <= Len(stream[c])
  BY ArrivalBounds DEF BufInv
<1>3. buf[c].len \in Nat /\ buf[c].len < HeaderSize + MaxPayloadSize
  BY DEF Read, BufInv, BufTypes, Slice, SizeInv
<1>4. ~(buf[c].len + n > MaxConnectionBuffSize)
  BY <1>2, <1>3, ConnAssumption, CodecAssumption DEF HeaderSize
<1> QED  BY <1>1, <1>2, <1>4

LEMMA BufRead ==
  ASSUME BufInv, NEW c \in Conns, conn \in [Conns -> ConnStates], Read(c)
  PROVE  BufInv'
<1>1. PICK n \in Nat :
           /\ 0 < n /\ n <= Len(stream[c])
           /\ AppendTo(c, SubSeq(stream[c], 1, n))
           /\ stream' = [stream EXCEPT ![c] = SubSeq(@, n + 1, Len(@))]
           /\ conn' = [conn EXCEPT ![c] = "parse"]
           /\ UNCHANGED <<peer, pool, panicked, why>>
  BY ReadAppends
<1>2. conn[c] = "read" /\ IsOpen(c) /\ Fits(buf[c])
  BY DEF Read, IsOpen, BufInv, HoldInv
<1>3. /\ conn'[c] = "parse" /\ \A d \in Conns \ {c} : conn'[d] = conn[d]
      /\ \A d \in Conns : IsOpen(d)' <=> IsOpen(d)
  BY <1>1, <1>2 DEF IsOpen
<1>4. PICK data \in Seq(Int) : AppendTo(c, data) /\ data = SubSeq(stream[c], 1, n)
  BY <1>1, StreamParts DEF BufInv
<1>5. /\ mem' \in Seq(Seq(Int)) /\ buf' \in [Conns -> Slice]
      /\ \A d \in Conns \ {c} : buf'[d] = buf[d]
      /\ \A a \in DOMAIN mem : a \in DOMAIN mem' /\ Len(mem'[a]) = Len(mem[a])
      /\ Fits(buf[c])'
      /\ buf'[c].arr = buf[c].arr \/ buf'[c].arr = Len(mem) + 1
  BY <1>2, <1>4, AppendFacts DEF BufInv
<1>6. \A a \in DOMAIN mem : a # buf[c].arr => \A i \in DOMAIN mem[a] : mem'[a][i] = mem[a][i]
  BY <1>2, <1>4, AppendFacts DEF BufInv
<1>7. BufTypes'
  <2>1. SubSeq(stream[c], n + 1, Len(stream[c])) \in Seq(Int)
    BY <1>1, StreamParts DEF BufInv
  <2> QED  BY <1>1, <1>5, <2>1 DEF BufInv, BufTypes
<1>8. Len(mem) + 1 \notin DOMAIN mem /\ Len(mem) + 1 # 0
  BY LenProperties DEF BufInv, BufTypes
<1>9. \A d \in Conns \ {c} : Fits(buf[d]) => Fits(buf[d])'
  BY <1>5 DEF Fits
<1>10. \A s \in pool : Fits(s) => Fits(s)'
  BY <1>5 DEF Fits
<1>11. HoldInv'
  BY <1>1, <1>2, <1>3, <1>5, <1>9, <1>10 DEF BufInv, HoldInv
<1>12. BuffersOwned'
  <2>1. \A d \in Conns \ {c} : buf[d].arr # buf'[c].arr
    <3>1. \A d \in Conns \ {c} : buf[d].arr # buf[c].arr
      BY <1>2 DEF BufInv, BuffersOwned
    <3>2. \A d \in Conns \ {c} : buf[d].arr \in DOMAIN mem \/ buf[d].arr = 0
      BY DEF BufInv, HoldInv, Fits, NoSlice
    <3> QED  BY <1>5, <1>8, <3>1, <3>2
  <2>2. \A s \in pool : s.arr # buf'[c].arr
    <3>1. \A s \in pool : s.arr # buf[c].arr /\ s.arr \in DOMAIN mem
      BY <1>2 DEF BufInv, BuffersOwned, HoldInv, Fits
    <3> QED  BY <1>5, <1>8, <3>1
  <2>3. ASSUME NEW d \in Conns, IsOpen(d)', NEW e \in Conns \ {d} PROVE buf'[e].arr # buf'[d].arr
    <3>1. CASE d = c
      BY <1>5, <2>1, <3>1
    <3>2. CASE e = c
      BY <1>5, <2>1, <3>2
    <3>3. CASE d # c /\ e # c
      BY <1>3, <1>5, <2>3, <3>3 DEF BufInv, BuffersOwned
    <3> QED  BY <3>1, <3>2, <3>3
  <2>4. ASSUME NEW d \in Conns, IsOpen(d)', NEW s \in pool PROVE s.arr # buf'[d].arr
    <3>1. CASE d = c
      BY <2>2, <3>1
    <3>2. CASE d # c
      BY <1>3, <1>5, <2>4, <3>2 DEF BufInv, BuffersOwned
    <3> QED  BY <3>1, <3>2
  <2> QED  BY <1>1, <2>3, <2>4 DEF BuffersOwned
<1>13. ASSUME NEW d \in Conns, conn'[d] = "write"
       PROVE  /\ buf'[d].len >= HeaderSize
              /\ HeaderSize <= FrameLen(d)' /\ FrameLen(d)' <= buf'[d].len
  <2>1. d # c /\ conn[d] = "write" /\ buf'[d] = buf[d] /\ IsOpen(d) /\ Fits(buf[d])
    BY <1>3, <1>5, <1>13 DEF IsOpen, BufInv, HoldInv
  <2>2. buf[d].len >= HeaderSize /\ HeaderSize <= FrameLen(d) /\ FrameLen(d) <= buf[d].len
    BY <2>1 DEF BufInv, FrontInv
  <2>3. mem[buf[d].arr] = mem'[buf[d].arr]
    <3>1. buf[d].arr \in DOMAIN mem /\ buf[d].arr # buf[c].arr
      BY <1>2, <2>1 DEF Fits, BufInv, BuffersOwned
    <3>2. PICK m1 \in Seq(Int), m2 \in Seq(Int) : m1 = mem[buf[d].arr] /\ m2 = mem'[buf[d].arr]
      BY <1>5, <3>1, ElementOfSeq, LenProperties DEF BufInv, BufTypes
    <3>3. Len(m1) = Len(m2) /\ \A i \in 1..Len(m1) : m1[i] = m2[i]
      BY <1>5, <1>6, <3>1, <3>2, LenProperties, SMTT(30)
    <3> QED  BY <3>2, <3>3, SeqEqual
  <2>4. FrameLen(d)' = FrameLen(d)
    BY <2>1, <2>3 DEF FrameLen, Cells
  <2> QED  BY <2>1, <2>2, <2>4
<1>14. FrontInv'
  BY <1>13 DEF FrontInv
<1>15. SizeInv'
  BY <1>3, <1>5 DEF BufInv, SizeInv
<1> QED  BY <1>1, <1>7, <1>11, <1>12, <1>14, <1>15 DEF BufInv, NeverOverflows

\* The frame that was answered is cut off.
LEMMA BufWrite ==
  ASSUME BufInv, NEW c \in Conns, conn \in [Conns -> ConnStates], Write(c)
  PROVE  BufInv'
<1>1. PICK arr \in Nat, off \in Nat, len \in Nat : buf[c] = [arr |-> arr, off |-> off, len |-> len]
  BY DEF BufInv, BufTypes, Slice
<1>2. conn[c] = "write" /\ IsOpen(c) /\ Fits(buf[c])
  BY DEF Write, IsOpen, BufInv, HoldInv
<1>3. PICK fl \in Nat : fl = FrameLen(c) /\ HeaderSize <= fl /\ fl <= len
  <2>1. buf[c].len >= HeaderSize /\ HeaderSize <= FrameLen(c) /\ FrameLen(c) <= buf[c].len
    BY <1>2 DEF BufInv, FrontInv
  <2>2. FrameLen(c) \in Int
    BY <1>2, <2>1, FrameLenOf DEF BufInv
  <2> QED  BY <1>1, <2>1, <2>2 DEF HeaderSize
<1>4. Advanced(c) = [arr |-> arr, off |-> off + fl, len |-> len - fl]
  BY <1>1, <1>3 DEF Advanced
<1>5. /\ buf' = [buf EXCEPT ![c] = Advanced(c)]
      /\ conn' = [conn EXCEPT ![c] = IF Advanced(c).len = 0 THEN "read" ELSE "parse"]
      /\ UNCHANGED <<peer, stream, mem, pool, panicked, why>>
  BY DEF Write, dataVars
<1>6. /\ buf'[c] = [arr |-> arr, off |-> off + fl, len |-> len - fl]
      /\ \A d \in Conns \ {c} : buf'[d] = buf[d]
  BY <1>4, <1>5 DEF BufInv, BufTypes
<1>7. /\ \A d \in Conns \ {c} : conn'[d] = conn[d]
      /\ conn'[c] = IF len - fl = 0 THEN "read" ELSE "parse"
      /\ \A d \in Conns : IsOpen(d)' <=> IsOpen(d)
  BY <1>2, <1>4, <1>5 DEF IsOpen
<1>8. off + fl \in Nat /\ len - fl \in Nat
  BY <1>3
<1>9. BufTypes'
  BY <1>5, <1>6, <1>8, SMTT(30) DEF BufInv, BufTypes, Slice
<1>10. Fits(buf[c])'
  BY <1>1, <1>2, <1>3, <1>5, <1>6, SMTT(30) DEF Fits
<1>11. \A d \in Conns \ {c} : Fits(buf[d])' <=> Fits(buf[d])
  BY <1>5, <1>6 DEF Fits
<1>12. \A s \in pool : Fits(s)' <=> Fits(s)
  BY <1>5 DEF Fits
<1>13. HoldInv'
  BY <1>2, <1>5, <1>6, <1>7, <1>10, <1>11, <1>12 DEF BufInv, HoldInv
<1>14. \A d \in Conns : buf'[d].arr = buf[d].arr
  BY <1>1, <1>6
<1>15. BuffersOwned'
  BY <1>5, <1>7, <1>14 DEF BufInv, BuffersOwned
<1>16. \A d \in Conns \ {c} : FrameLen(d)' = FrameLen(d)
  BY <1>5, <1>6 DEF FrameLen, Cells
<1>17. FrontInv'
  BY <1>6, <1>7, <1>16 DEF BufInv, FrontInv
<1>18. SizeInv'
  <2>1. 0 < HeaderSize + MaxPayloadSize
    BY CodecAssumption DEF HeaderSize
  <2> QED  BY <1>6, <1>7, <2>1 DEF BufInv, SizeInv
<1> QED  BY <1>5, <1>9, <1>13, <1>15, <1>17, <1>18 DEF BufInv, NeverOverflows

LEMMA BufConnStep ==
  ASSUME IInv, NEW c \in Conns, ConnStep(c)
  PROVE  BufInv'
<1>1. BufInv /\ conn \in [Conns -> ConnStates] /\ BufTypes
  BY DEF IInv, LifeInv, ServerTypes, BufInv
<1>2. conn[c] \in OpenStates /\ IsOpen(c) /\ Fits(buf[c])
  BY <1>1, ConnStepLife DEF IsOpen, OpenStates, BufInv, HoldInv
<1>3. CASE Read(c)
  BY <1>1, <1>3, BufRead
<1>4. CASE ReadError(c)
  <2>1. Return(c, "read") /\ "read" \in Reasons \ {"overflow"}
    BY <1>4 DEF ReadError, Reasons
  <2> QED  BY <1>1, <1>2, <2>1, BufReturn
<1>5. CASE NeedMore(c)
  <2>1. /\ conn' = [conn EXCEPT ![c] = "read"] /\ UNCHANGED <<buf, mem, pool, why, stream, peer, panicked>>
        /\ Incomplete(c) /\ ~Oversized(c)
    BY <1>5 DEF NeedMore, dataVars
  <2>2. buf[c].len \in Nat
    BY <1>1 DEF BufTypes, Slice
  <2>3. buf[c].len < HeaderSize + MaxPayloadSize
    <3>1. CASE buf[c].len < HeaderSize
      BY <2>2, <3>1, CodecAssumption DEF HeaderSize
    <3>2. CASE ~(buf[c].len < HeaderSize)
      <4>1. buf[c].len >= HeaderSize
        BY <2>2, <3>2 DEF HeaderSize
      <4>2. FrameLen(c) \in Int
        BY <1>1, <1>2, <4>1, FrameLenOf
      <4> QED  BY <2>1, <2>2, <3>2, <4>1, <4>2, CodecAssumption DEF Incomplete, Oversized, HeaderSize
    <3> QED  BY <3>1, <3>2
  <2> QED  BY <1>1, <1>2, <2>1, <2>3, BufMove DEF OpenStates
<1>6. CASE DropOversized(c)
  <2>1. Return(c, "oversized") /\ "oversized" \in Reasons \ {"overflow"}
    BY <1>6 DEF DropOversized, Reasons
  <2> QED  BY <1>1, <1>2, <2>1, BufReturn
<1>7. CASE Panic(c)
  <2>1. UNCHANGED <<conn, buf, mem, pool, why, stream, peer>> /\ panicked' = TRUE
    BY <1>7 DEF Panic, dataVars
  <2> QED  BY <1>1, <2>1, BufQuiet DEF BufTypes
<1>8. CASE HandleNext(c)
  <2>1. /\ conn' = [conn EXCEPT ![c] = "write"] /\ UNCHANGED <<buf, mem, pool, why, stream, peer, panicked>>
        /\ ~Incomplete(c) /\ FrameLen(c) >= HeaderSize
    BY <1>8 DEF HandleNext
  <2>2. buf[c].len \in Nat
    BY <1>1 DEF BufTypes, Slice
  <2>3. buf[c].len >= HeaderSize
    BY <2>1, <2>2 DEF Incomplete, HeaderSize
  <2>4. FrameLen(c) \in Int
    BY <1>1, <1>2, <2>3, FrameLenOf
  <2>5. HeaderSize <= FrameLen(c) /\ FrameLen(c) <= buf[c].len
    BY <2>1, <2>2, <2>4 DEF Incomplete, HeaderSize
  <2> QED  BY <1>1, <1>2, <2>1, <2>3, <2>5, BufMove DEF OpenStates
<1>9. CASE Write(c)
  BY <1>1, <1>9, BufWrite
<1>10. CASE WriteError(c)
  <2>1. Return(c, "write") /\ "write" \in Reasons \ {"overflow"}
    BY <1>10 DEF WriteError, Reasons
  <2> QED  BY <1>1, <1>2, <2>1, BufReturn
<1> QED  BY <1>3, <1>4, <1>5, <1>6, <1>7, <1>8, <1>9, <1>10 DEF ConnStep

\* A frame on the wire is cells, and a frame sent is remembered.
LEMMA SendTypes ==
  ASSUME BufTypes, SentTypes, NEW c \in Conns, Send(c)
  PROVE  stream' \in [Conns -> Seq(Int)] /\ SentTypes'
<1>1. PICK r \in Requests :
        /\ stream' = [stream EXCEPT ![c] = @ \o <<r.length, r.command, Len(sent[c]) + 1>> \o r.payload]
        /\ sent' = [sent EXCEPT ![c] = Append(@, [command |-> r.command, id |-> Len(sent[c]) + 1,
                                                  payload |-> r.payload])]
  BY DEF Send
<1>2. r.length \in Int /\ r.command \in Int /\ r.payload \in Seq(Int)
  BY ConnAssumption
<1>3. PICK id \in Int : id = Len(sent[c]) + 1
  BY LenProperties DEF SentTypes
<1>4. PICK header \in Seq(Int) : header = <<r.length, r.command, id>>
  BY <1>2, ThreeCells
<1>5. PICK s \in Seq(Int) : s = stream[c]
  BY DEF BufTypes
<1>6. s \o header \o r.payload \in Seq(Int)
  BY <1>2, ThreeParts
<1>7. stream' = [stream EXCEPT ![c] = s \o header \o r.payload]
  BY <1>1, <1>3, <1>4, <1>5
<1>8. [command |-> r.command, id |-> id, payload |-> r.payload] \in Frame
  BY <1>2 DEF Frame
<1>9. Append(sent[c], [command |-> r.command, id |-> id, payload |-> r.payload]) \in Seq(Frame)
  BY <1>8, AppendProperties DEF SentTypes
<1>10. SentTypes'
  BY <1>1, <1>3, <1>9 DEF SentTypes
<1> QED  BY <1>6, <1>7, <1>10 DEF BufTypes

LEMMA IInvInit == Init => IInv
<1>1. Init => SentTypes
  <2>1. <<>> \in Seq(Frame)
    BY EmptySeq
  <2> QED  BY <2>1 DEF Init, ConnInit, SentTypes
<1> QED  BY <1>1, LifeInit, BufInit DEF IInv

LEMMA SentUnchanged == ASSUME SentTypes, UNCHANGED sent PROVE SentTypes'
BY DEF SentTypes

LEMMA ConnStepSent == ASSUME NEW c \in Conns, BufInv, ConnStep(c) PROVE UNCHANGED sent
<1>1. CASE Read(c)
  BY <1>1, ReadAppends
<1> QED
  BY <1>1 DEF ConnStep, ReadError, NeedMore, DropOversized, Panic, HandleNext, Write, WriteError,
              Return, Give

LEMMA IInvNext == IInv /\ [Next]_vars => IInv'
<1> SUFFICES ASSUME IInv, [Next]_vars PROVE IInv'
  OBVIOUS
<1>1. LifeInv /\ BufInv /\ BufTypes /\ SentTypes /\ conn \in [Conns -> ConnStates]
  BY DEF IInv, BufInv, LifeInv, ServerTypes
<1>2. LifeInv'
  BY <1>1, LifeNext
<1>3. CASE UNCHANGED <<conn, buf, mem, pool, why, stream, peer, panicked, sent>>
  <2>1. BufInv'
    BY <1>1, <1>3, BufQuiet DEF BufTypes
  <2> QED  BY <1>1, <1>2, <1>3, <2>1, SentUnchanged DEF IInv
<1>4. CASE ListenError
  <2>1. UNCHANGED <<conn, buf, mem, pool, why, stream, peer, sent>> /\ panicked' = TRUE
    BY <1>4 DEF ListenError, dataVars
  <2>2. BufInv'
    BY <1>1, <2>1, BufQuiet DEF BufTypes
  <2> QED  BY <1>1, <1>2, <2>1, <2>2, SentUnchanged DEF IInv
<1>5. CASE UNCHANGED vars \/ Publish \/ Spawn \/ AcceptError \/ Stop \/ WaitDone \/ StopDone
           \/ StopTimeout
  BY <1>3, <1>5 DEF vars, connVars, dataVars, Publish, Spawn, AcceptError, Stop, WaitDone, StopDone,
                    StopTimeout
<1>6. ASSUME NEW c \in Conns, Accept(c) PROVE IInv'
  <2>1. /\ conn[c] = "none" /\ conn' = [conn EXCEPT ![c] = "accepted"]
        /\ UNCHANGED <<buf, mem, pool, why, stream, peer, panicked, sent>>
    BY <1>6 DEF Accept, dataVars
  <2>2. BufInv'
    BY <1>1, <2>1, BufMove DEF OpenStates
  <2> QED  BY <1>1, <1>2, <2>1, <2>2, SentUnchanged DEF IInv
<1>7. ASSUME NEW c \in Conns, Serve(c) PROVE IInv'
  <2>1. BufInv'
    BY <1>1, <1>7, BufBegin DEF Serve
  <2>2. UNCHANGED sent
    BY <1>7 DEF Serve, handleConn
  <2> QED  BY <1>1, <1>2, <2>1, <2>2, SentUnchanged DEF IInv
<1>8. ASSUME NEW c \in Conns, Send(c) PROVE IInv'
  <2>1. UNCHANGED <<conn, buf, mem, pool, why, peer, panicked>>
    BY <1>8 DEF Send, dataVars
  <2>2. stream' \in [Conns -> Seq(Int)] /\ SentTypes'
    BY <1>1, <1>8, SendTypes
  <2>3. BufInv'
    BY <1>1, <2>1, <2>2, BufQuiet DEF BufTypes
  <2> QED  BY <1>2, <2>2, <2>3 DEF IInv
<1>9. ASSUME NEW c \in Conns, PeerGone(c) PROVE IInv'
  <2>1. UNCHANGED <<conn, buf, mem, pool, why, stream, panicked, sent>> /\ peer' = [peer EXCEPT ![c] = FALSE]
    BY <1>9 DEF PeerGone, dataVars
  <2>2. BufInv'
    BY <1>1, <2>1, BufQuiet DEF BufTypes
  <2> QED  BY <1>1, <1>2, <2>1, <2>2, SentUnchanged DEF IInv
<1>10. ASSUME NEW c \in Conns, ConnStep(c) PROVE IInv'
  BY <1>1, <1>2, <1>10, BufConnStep, ConnStepSent, SentUnchanged DEF IInv
<1> QED  BY <1>4, <1>5, <1>6, <1>7, <1>8, <1>9, <1>10 DEF Next, ServerStep

-----------------------------------------------------------------------------
(***************************************************************************)
(* The inductive invariant holds in every reachable state of the TCP       *)
(* server (server.go).                                                     *)
(***************************************************************************)
THEOREM ServerInvariant == Spec => []IInv
BY IInvInit, IInvNext, PTL DEF Spec

(***************************************************************************)
(* Whatever the accept loop and the connections do while Stop waits and    *)
(* until it returns, a Stop that has closed the listener and returns nil   *)
(* leaves no connection behind, for any number of connections              *)
(* (server.go:51-53,74-78,93-102).                                         *)
(***************************************************************************)
THEOREM StopsDrained == Spec => []StopDrains
<1>1. IInv => StopDrains
  BY DEF IInv, LifeInv, DrainInv, StopDrains
<1> QED  BY <1>1, ServerInvariant, PTL

(***************************************************************************)
(* No slice leaves its array and the pool holds only empty slices, for all *)
(* buffer and read sizes (server.go:42-125).                               *)
(***************************************************************************)
THEOREM ServerTyped == Spec => []TypeOK
<1>1. IInv => TypeOK
  <2> SUFFICES ASSUME IInv PROVE TypeOK
    OBVIOUS
  <2>1. wg \in Nat
    BY FS_CardinalityType DEF IInv, LifeInv, WaitInv, Loops
  <2>2. \A c \in Conns : conn[c] = "write" => buf[c].len >= HeaderSize
    BY DEF IInv, BufInv, FrontInv
  <2>3. \A c \in Conns : IsOpen(c) => Fits(buf[c])
    BY DEF IInv, BufInv, HoldInv
  <2>4. ASSUME NEW s \in pool PROVE s.len = 0 /\ s.arr \in DOMAIN mem /\ s.off <= Len(mem[s.arr])
    <3>1. s.len = 0 /\ Fits(s) /\ s \in Slice
      BY DEF IInv, BufInv, HoldInv, BufTypes
    <3>2. s.off \in Nat /\ s.off + 0 <= Len(mem[s.arr])
      BY <3>1 DEF Fits, Slice
    <3> QED  BY <3>1, <3>2 DEF Fits
  <2>5. /\ start \in {"none", "published", "done"} /\ acceptor \in {"off", "run", "adding", "done"}
        /\ stopper \in {"idle", "wait", "drained", "nil", "err"} /\ lnClosed \in BOOLEAN
        /\ conn \in [Conns -> {"none", "accepted", "read", "parse", "write", "closed"}]
    BY DEF IInv, LifeInv, ServerTypes, ConnStates
  <2>6. panicked \in BOOLEAN /\ peer \in [Conns -> BOOLEAN]
    BY DEF IInv, BufInv, BufTypes
  <2> QED  BY <2>1, <2>2, <2>3, <2>4, <2>5, <2>6 DEF TypeOK, Fits
<1> QED  BY <1>1, ServerInvariant, PTL

(***************************************************************************)
(* A backing array never has two owners, however connections, appends and  *)
(* the pool interleave (server.go:117-125,143).                            *)
(***************************************************************************)
THEOREM BuffersOwnedOnce == Spec => []BuffersOwned
<1>1. IInv => BuffersOwned
  BY DEF IInv, BufInv
<1> QED  BY <1>1, ServerInvariant, PTL

(***************************************************************************)
(* The overflow branch of the read loop is dead code as long as            *)
(* MaxConnectionBuffSize has room for the largest frame and one read, for  *)
(* all values of the three sizes (server.go:139,150).                      *)
(***************************************************************************)
THEOREM BuffersBounded == Spec => []NeverOverflows
<1>1. IInv => NeverOverflows
  BY DEF IInv, BufInv
<1> QED  BY <1>1, ServerInvariant, PTL
=============================================================================
