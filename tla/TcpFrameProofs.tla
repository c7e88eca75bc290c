--------------------------- MODULE TcpFrameProofs ---------------------------
(***************************************************************************)
(* What TCP connections do with the frames they are sent, for all requests *)
(* and all ways to cut a stream into reads: frames are handled in order,   *)
(* the keys they leave in the store keep their bytes, and the answers name *)
(* their requests.  Rests on the ownership of buffers that TcpServerProofs *)
(* establishes.                                                            *)
(***************************************************************************)
EXTENDS TcpServerProofs

\* A step of connection c leaves every other connection as it is, the cells of its buffer included.
Untouched(c) ==
  \A d \in Conns \ {c} :
    /\ UNCHANGED <<conn[d], stream[d], sent[d], handled[d], reply[d], replies[d]>>
    /\ IsOpen(d) => buf'[d] = buf[d] /\ mem'[buf[d].arr] = mem[buf[d].arr]

\* The histories are functions on connections.
HistTypes ==
  /\ handled \in [Conns -> Seq(Frame)]
  /\ DOMAIN replies = Conns /\ DOMAIN reply = Conns

CInv == IInv /\ HistTypes

-----------------------------------------------------------------------------
\* The frame at the front of a buffer, as its cells tell it.
LEMMA FrontFrameFacts ==
  ASSUME IInv, NEW c \in Conns, conn[c] = "parse", ~Incomplete(c), FrameLen(c) >= HeaderSize
  PROVE  /\ Cells(buf[c]) \in Seq(Int) /\ Len(Cells(buf[c])) = buf[c].len
         /\ FrameLen(c) \in HeaderSize..buf[c].len /\ FrameLen(c) = Cells(buf[c])[1]
         /\ FrontFrame(c) \in Frame
         /\ Len(FrontFrame(c).payload) = FrameLen(c) - HeaderSize
         /\ \A j \in 1..(FrameLen(c) - HeaderSize) :
              FrontFrame(c).payload[j] = Cells(buf[c])[HeaderSize + j]
<1>1. BufTypes /\ Fits(buf[c]) /\ buf[c] \in Slice /\ mem \in Seq(Seq(Int)) /\ buf[c].len \in Nat
  BY DEF IInv, BufInv, BufTypes, HoldInv, IsOpen, Slice
<1>2. Cells(buf[c]) \in Seq(Int) /\ Len(Cells(buf[c])) = buf[c].len
  BY <1>1, CellsOf
<1>3. buf[c].len >= HeaderSize
  BY <1>1 DEF Incomplete, HeaderSize
<1>4. FrameLen(c) \in Int
  BY <1>1, <1>3, FrameLenOf
<1>5. PICK cells \in Seq(Int) : cells = Cells(buf[c])
  BY <1>2
<1>6. PICK fl \in Nat : fl = FrameLen(c) /\ HeaderSize <= fl /\ fl <= Len(cells)
  BY <1>1, <1>2, <1>4, <1>5 DEF Incomplete, HeaderSize
<1>7. PICK n \in Nat : n = fl - HeaderSize
  BY <1>6 DEF HeaderSize
<1>8. /\ SubSeq(cells, HeaderSize + 1, HeaderSize + n) \in Seq(Int)
      /\ Len(SubSeq(cells, HeaderSize + 1, HeaderSize + n)) = n
      /\ \A j \in 1..n : SubSeq(cells, HeaderSize + 1, HeaderSize + n)[j] = cells[HeaderSize + j]
  <2>1. HeaderSize \in Nat /\ HeaderSize + n <= Len(cells)
    BY <1>6, <1>7 DEF HeaderSize
  <2> HIDE DEF HeaderSize
  <2> QED  BY <2>1, PartOf
<1>9. HeaderSize + n = fl
  BY <1>7 DEF HeaderSize
<1>10. /\ SubSeq(cells, HeaderSize + 1, fl) \in Seq(Int)
       /\ Len(SubSeq(cells, HeaderSize + 1, fl)) = n
       /\ \A j \in 1..n : SubSeq(cells, HeaderSize + 1, fl)[j] = cells[HeaderSize + j]
  BY <1>8, <1>9
<1>11. cells[2] \in Int /\ cells[3] \in Int
  <2>1. 2 \in 1..Len(cells) /\ 3 \in 1..Len(cells)
    BY <1>6 DEF HeaderSize
  <2> QED  BY <2>1, ElementOfSeq
<1>12. FrontFrame(c) = [command |-> cells[2], id |-> cells[3], payload |-> SubSeq(cells, HeaderSize + 1, fl)]
  BY <1>5, <1>6 DEF FrontFrame
<1>13. FrontFrame(c) \in Frame
  BY <1>10, <1>11, <1>12 DEF Frame
<1>14. FrontFrame(c).payload = SubSeq(cells, HeaderSize + 1, fl)
  BY <1>5, <1>6 DEF FrontFrame
<1>15. FrameLen(c) \in HeaderSize..buf[c].len /\ FrameLen(c) = Cells(buf[c])[1]
  BY <1>1, <1>2, <1>5, <1>6 DEF FrameLen, HeaderSize
<1> QED  BY <1>2, <1>5, <1>6, <1>7, <1>10, <1>13, <1>14, <1>15

\* A step by which only connection c's part of these variables changes.
LEMMA ConnLocal ==
  ASSUME CInv, NEW c \in Conns, ConnStep(c)
  PROVE  Untouched(c) /\ HistTypes'
<1>1. BufInv /\ BufTypes /\ conn \in [Conns -> ConnStates]
  BY DEF CInv, IInv, BufInv, LifeInv, ServerTypes
<1>2. conn[c] \in OpenStates /\ IsOpen(c) /\ Fits(buf[c])
  BY <1>1, ConnStepLife DEF IsOpen, OpenStates, BufInv, HoldInv
<1> USE DEF Untouched, HistTypes, CInv, IInv, BufTypes, SentTypes
<1>3. CASE Read(c)
  <2>1. PICK n \in Nat :
           /\ 0 < n /\ n <= Len(stream[c])
           /\ AppendTo(c, SubSeq(stream[c], 1, n))
           /\ stream' = [stream EXCEPT ![c] = SubSeq(@, n + 1, Len(@))]
           /\ conn' = [conn EXCEPT ![c] = "parse"]
           /\ UNCHANGED <<reply, sent, handled, replies>>
    BY <1>1, <1>3, ReadAppends
  <2>2. PICK data \in Seq(Int) : AppendTo(c, data)
    BY <1>1, <2>1, StreamParts
  <2>3. /\ mem' \in Seq(Seq(Int)) /\ \A d \in Conns \ {c} : buf'[d] = buf[d]
        /\ \A a \in DOMAIN mem : a \in DOMAIN mem' /\ Len(mem'[a]) = Len(mem[a])
        /\ \A a \in DOMAIN mem : a # buf[c].arr => \A i \in DOMAIN mem[a] : mem'[a][i] = mem[a][i]
    BY <1>1, <1>2, <2>2, AppendFacts
  <2>4. ASSUME NEW d \in Conns \ {c}, IsOpen(d) PROVE mem'[buf[d].arr] = mem[buf[d].arr]
    <3>1. buf[d].arr \in DOMAIN mem /\ buf[d].arr # buf[c].arr
      BY <1>1, <1>2, <2>4 DEF BufInv, HoldInv, BuffersOwned, Fits
    <3>2. PICK m1 \in Seq(Int), m2 \in Seq(Int) : m1 = mem[buf[d].arr] /\ m2 = mem'[buf[d].arr]
      BY <1>1, <2>3, <3>1, ElementOfSeq, LenProperties, SMTT(90)
    <3>3. Len(m1) = Len(m2) /\ \A i \in 1..Len(m1) : m1[i] = m2[i]
      <4>1. Len(m1) = Len(m2)
        BY <2>3, <3>1, <3>2, Zenon
      <4>2. DOMAIN m1 = 1..Len(m1)
        BY LenProperties
      <4>3. \A i \in DOMAIN m1 : m1[i] = m2[i]
        BY <2>3, <3>1, <3>2, Zenon
      <4> QED  BY <4>1, <4>2, <4>3, Zenon
    <3> QED  BY <3>2, <3>3, SeqEqual
  <2> QED  BY <1>1, <2>1, <2>3, <2>4
<1>4. ASSUME NEW reason, Return(c, reason) PROVE Untouched(c) /\ HistTypes'
  BY <1>1, <1>4 DEF Return, Give
<1>5. CASE ReadError(c) \/ DropOversized(c) \/ WriteError(c)
  BY <1>4, <1>5 DEF ReadError, DropOversized, WriteError
<1>6. CASE NeedMore(c) \/ Panic(c)
  BY <1>1, <1>6 DEF NeedMore, Panic, dataVars
<1>7. CASE HandleNext(c)
  <2>1. /\ conn[c] = "parse" /\ ~Incomplete(c) /\ FrameLen(c) >= HeaderSize
        /\ conn' = [conn EXCEPT ![c] = "write"]
        /\ handled' = [handled EXCEPT ![c] = Append(@, FrontFrame(c))]
        /\ UNCHANGED <<stream, buf, mem, sent, replies>>
    BY <1>7 DEF HandleNext, FrontFrame
  <2>2. \E r : reply' = [reply EXCEPT ![c] = r]
    BY <1>7 DEF HandleNext
  <2>3. Append(handled[c], FrontFrame(c)) \in Seq(Frame)
    BY <2>1, FrontFrameFacts, AppendProperties
  <2>4. Untouched(c)
    BY <1>1, <2>1, <2>2
  <2>5. HistTypes'
    BY <2>1, <2>2, <2>3
  <2> QED  BY <2>4, <2>5
<1>8. CASE Write(c)
  <2>1. \E b, st, x, y : /\ buf' = [buf EXCEPT ![c] = b] /\ conn' = [conn EXCEPT ![c] = st]
                         /\ replies' = [replies EXCEPT ![c] = x] /\ reply' = [reply EXCEPT ![c] = y]
                         /\ UNCHANGED <<stream, mem, sent, handled>>
    BY <1>8 DEF Write, dataVars
  <2> QED  BY <1>1, <2>1
<1> QED  BY <1>3, <1>5, <1>6, <1>7, <1>8 DEF ConnStep

LEMMA PeerLocal ==
  ASSUME CInv, NEW c \in Conns, Accept(c) \/ Serve(c) \/ Send(c) \/ PeerGone(c)
  PROVE  Untouched(c) /\ HistTypes'
<1>1. BufInv /\ BufTypes /\ conn \in [Conns -> ConnStates] /\ SentTypes
  BY DEF CInv, IInv, BufInv, LifeInv, ServerTypes
<1> USE DEF Untouched, HistTypes, CInv, BufTypes, SentTypes
<1>2. CASE Accept(c)
  BY <1>1, <1>2 DEF Accept, dataVars
<1>3. CASE Serve(c)
  <2>1. /\ conn' = [conn EXCEPT ![c] = "read"]
        /\ UNCHANGED <<stream, reply, sent, handled, replies>>
        /\ \A d \in Conns \ {c} : buf'[d] = buf[d]
        /\ mem' = mem \/ mem' = Append(mem, Zeros(readerBufSize))
    BY <1>1, <1>3 DEF Serve, handleConn
  <2>2. \A a \in DOMAIN mem : mem'[a] = mem[a]
    <3>1. Zeros(readerBufSize) \in Seq(Int)
      BY ZeroCells, ConnAssumption
    <3>2. mem \in Seq(Seq(Int)) /\ DOMAIN mem = 1..Len(mem)
      BY <1>1, LenProperties
    <3> QED  BY <2>1, <3>1, <3>2, AppendProperties
  <2>3. \A d \in Conns : IsOpen(d) => buf[d].arr \in DOMAIN mem
    BY <1>1 DEF BufInv, HoldInv, Fits
  <2> QED  BY <1>1, <2>1, <2>2, <2>3
<1>4. CASE Send(c)
  BY <1>1, <1>4 DEF Send, dataVars
<1>5. CASE PeerGone(c)
  BY <1>1, <1>5 DEF PeerGone, dataVars
<1> QED  BY <1>2, <1>3, <1>4, <1>5

\* The steps of the server itself touch no connection.
LEMMA ServerLocal ==
  ASSUME ServerStep \/ UNCHANGED vars
  PROVE  UNCHANGED <<conn, stream, buf, mem, pool, stored, reply, sent, handled, replies, why>>
BY DEF ServerStep, vars, connVars, dataVars, Publish, ListenError, Spawn, AcceptError, Stop, WaitDone,
       StopDone, StopTimeout

-----------------------------------------------------------------------------
(***************************************************************************)
(* Frames in order.  The cells a connection has not consumed, in its       *)
(* buffer and on the wire, are the frames sent and not cut off yet: pos    *)
(* says where each begins.                                                 *)
(***************************************************************************)

\* The length in every frame is true, or shorter than a header.
TruthfulOrShort ==
  \A r \in Requests : r.length = HeaderSize + Len(r.payload) \/ r.length < HeaderSize

RestOf(m, b, wire) == SubSeq(m[b.arr], b.off + 1, b.off + b.len) \o wire
Rest(c) == RestOf(mem, buf[c], stream[c])

FrameAt(cells, p, f) ==
  /\ p \in Nat
  /\ p + HeaderSize + Len(f.payload) <= Len(cells)
  /\ cells[p + 1] = HeaderSize + Len(f.payload) \/ cells[p + 1] < HeaderSize
  /\ cells[p + 2] = f.command
  /\ cells[p + 3] = f.id
  /\ \A j \in 1..Len(f.payload) : cells[p + HeaderSize + j] = f.payload[j]

\* The frames cut off the front of the buffer so far.
Cut(c) == IF conn[c] = "write" THEN Len(handled[c]) - 1 ELSE Len(handled[c])

Aligned(cells, frames, cut, pos) ==
  /\ pos[cut + 1] = 0
  /\ pos[Len(frames) + 1] = Len(cells)
  /\ \A i \in (cut + 1)..Len(frames) :
       /\ FrameAt(cells, pos[i], frames[i])
       /\ pos[i + 1] = pos[i] + HeaderSize + Len(frames[i].payload)
  /\ \A i, j \in (cut + 1)..(Len(frames) + 1) : i <= j => pos[i] <= pos[j]

FramesOk(c) ==
  /\ Len(handled[c]) <= Len(sent[c])
  /\ \A i \in 1..Len(handled[c]) : handled[c][i] = sent[c][i]
  /\ conn[c] \in {"none", "accepted"} => sent[c] = <<>> /\ handled[c] = <<>> /\ stream[c] = <<>>
  /\ conn[c] = "write" => Len(handled[c]) >= 1
  /\ IsOpen(c) => \E pos \in [Nat -> Int] : Aligned(Rest(c), sent[c], Cut(c), pos)

FramesInv == \A c \in Conns : FramesOk(c)

LEMMA FramesUntouched ==
  ASSUME CInv, NEW c \in Conns, FramesOk(c),
         UNCHANGED <<conn[c], stream[c], sent[c], handled[c]>>,
         IsOpen(c) => buf'[c] = buf[c] /\ mem'[buf[c].arr] = mem[buf[c].arr]
  PROVE  FramesOk(c)'
<1>1. IsOpen(c)' <=> IsOpen(c)
  BY DEF IsOpen
<1>2. IsOpen(c) => Rest(c)' = Rest(c)
  BY DEF Rest, RestOf
<1>3. Cut(c)' = Cut(c)
  BY DEF Cut
<1> QED  BY <1>1, <1>2, <1>3 DEF FramesOk

-----------------------------------------------------------------------------
\* Facts about two sequences of cells put together, and about the cells not consumed.
LEMMA TwoParts ==
  ASSUME NEW s \in Seq(Int), NEW t \in Seq(Int)
  PROVE  /\ s \o t \in Seq(Int) /\ Len(s \o t) = Len(s) + Len(t)
         /\ \A i \in 1..Len(s) : (s \o t)[i] = s[i]
         /\ \A i \in 1..Len(t) : (s \o t)[Len(s) + i] = t[i]
<1>1. Len(s) \in Nat /\ Len(t) \in Nat
  BY LenProperties
<1>2. /\ s \o t \in Seq(Int) /\ Len(s \o t) = Len(s) + Len(t)
      /\ \A i \in 1..(Len(s) + Len(t)) : (s \o t)[i] = IF i <= Len(s) THEN s[i] ELSE t[i - Len(s)]
  BY ConcatProperties
<1>3. \A i \in 1..Len(s) : (s \o t)[i] = s[i]
  BY <1>1, <1>2
<1>4. ASSUME NEW i \in 1..Len(t) PROVE (s \o t)[Len(s) + i] = t[i]
  <2>1. PICK j : j = Len(s) + i
    OBVIOUS
  <2>2. j \in 1..(Len(s) + Len(t)) /\ ~(j <= Len(s)) /\ j - Len(s) = i
    BY <1>1, <2>1
  <2> QED  BY <1>2, <2>1, <2>2
<1> QED  BY <1>2, <1>3, <1>4

LEMMA RestFacts ==
  ASSUME NEW m \in Seq(Seq(Int)), NEW b \in Slice, b.arr \in DOMAIN m, b.off + b.len <= Len(m[b.arr]),
         NEW wire \in Seq(Int)
  PROVE  /\ RestOf(m, b, wire) \in Seq(Int)
         /\ Len(RestOf(m, b, wire)) = b.len + Len(wire)
         /\ \A i \in 1..b.len : RestOf(m, b, wire)[i] = m[b.arr][b.off + i]
         /\ \A i \in 1..Len(wire) : RestOf(m, b, wire)[b.len + i] = wire[i]
<1>1. PICK cells \in Seq(Int) : cells = SubSeq(m[b.arr], b.off + 1, b.off + b.len)
  BY SliceCells
<1>2. Len(cells) = b.len /\ \A i \in 1..b.len : cells[i] = m[b.arr][b.off + i]
  BY <1>1, SliceCells
<1>3. RestOf(m, b, wire) = cells \o wire
  BY <1>1 DEF RestOf
<1>4. /\ cells \o wire \in Seq(Int) /\ Len(cells \o wire) = Len(cells) + Len(wire)
      /\ \A i \in 1..Len(cells) : (cells \o wire)[i] = cells[i]
      /\ \A i \in 1..Len(wire) : (cells \o wire)[Len(cells) + i] = wire[i]
  BY TwoParts
<1> QED  BY <1>2, <1>3, <1>4

\* A frame stays where it is when cells come after it.
LEMMA FrameAtLonger ==
  ASSUME NEW cells \in Seq(Int), NEW longer \in Seq(Int), Len(cells) <= Len(longer),
         \A i \in 1..Len(cells) : longer[i] = cells[i],
         NEW f \in Frame, NEW p \in Nat, FrameAt(cells, p, f)
  PROVE  FrameAt(longer, p, f)
<1>1. PICK pay \in Seq(Int) : pay = f.payload
  BY DEF Frame
<1>2. Len(pay) \in Nat /\ Len(cells) \in Nat /\ Len(longer) \in Nat /\ p \in Nat /\ p + 3 + Len(pay) <= Len(cells)
  BY <1>1, LenProperties DEF FrameAt, HeaderSize
<1>3. longer[p + 1] = cells[p + 1] /\ longer[p + 2] = cells[p + 2] /\ longer[p + 3] = cells[p + 3]
  <2>1. PICK n \in Nat, m \in Nat : n = Len(cells) /\ m = Len(pay) /\ p + 3 + m <= n
    BY <1>2
  <2>2. p + 1 \in 1..n /\ p + 2 \in 1..n /\ p + 3 \in 1..n
    BY <2>1
  <2> QED  BY <2>1, <2>2, Zenon
<1>4. ASSUME NEW j \in 1..Len(pay) PROVE longer[p + HeaderSize + j] = pay[j]
  <2>1. p + HeaderSize + j \in 1..Len(cells)
    BY <1>2 DEF HeaderSize
  <2>2. cells[p + HeaderSize + j] = pay[j]
    BY <1>1 DEF FrameAt
  <2> QED  BY <2>1, <2>2
<1>5. p + HeaderSize + Len(pay) <= Len(longer)
  BY <1>2 DEF HeaderSize
<1>6. longer[p + 1] = HeaderSize + Len(pay) \/ longer[p + 1] < HeaderSize
  BY <1>1, <1>3 DEF FrameAt
<1>7. longer[p + 2] = f.command /\ longer[p + 3] = f.id
  BY <1>3 DEF FrameAt
<1> QED  BY <1>1, <1>4, <1>5, <1>6, <1>7 DEF FrameAt

\* A frame comes in at the end.
LEMMA AlignedSend ==
  ASSUME NEW cells \in Seq(Int), NEW longer \in Seq(Int), NEW frames \in Seq(Frame), NEW f \in Frame,
         NEW cut \in Nat, cut <= Len(frames), NEW pos \in [Nat -> Int], Aligned(cells, frames, cut, pos),
         Len(longer) = Len(cells) + HeaderSize + Len(f.payload),
         \A i \in 1..Len(cells) : longer[i] = cells[i],
         FrameAt(longer, Len(cells), f)
  PROVE  \E q \in [Nat -> Int] : Aligned(longer, Append(frames, f), cut, q)
<1>1. PICK n \in Nat : n = Len(frames)
  BY LenProperties
<1>2. PICK q : q = [pos EXCEPT ![n + 2] = Len(longer)]
  OBVIOUS
<1>3. Len(cells) \in Nat /\ Len(longer) \in Nat /\ Len(f.payload) \in Nat /\ Len(cells) <= Len(longer)
  BY LenProperties DEF Frame, HeaderSize
<1>4. q \in [Nat -> Int] /\ q[n + 2] = Len(longer) /\ \A i \in Nat : i # n + 2 => q[i] = pos[i]
  BY <1>2, <1>3
<1>5. PICK more \in Seq(Frame) : more = Append(frames, f)
  BY AppendProperties
<1>6. Len(more) = n + 1 /\ more[n + 1] = f /\ \A i \in 1..n : more[i] = frames[i]
  BY <1>1, <1>5, AppendProperties
<1>7. /\ pos[cut + 1] = 0 /\ pos[n + 1] = Len(cells)
      /\ \A i \in (cut + 1)..n :
           FrameAt(cells, pos[i], frames[i]) /\ pos[i + 1] = pos[i] + HeaderSize + Len(frames[i].payload)
  BY <1>1 DEF Aligned
<1>8. q[cut + 1] = 0 /\ q[Len(more) + 1] = Len(longer)
  <2>1. cut + 1 \in Nat /\ cut + 1 # n + 2 /\ Len(more) + 1 = n + 2
    BY <1>1, <1>6, SMTT(30)
  <2> QED  BY <1>4, <1>7, <2>1
<1>9. ASSUME NEW i \in (cut + 1)..Len(more)
      PROVE  FrameAt(longer, q[i], more[i]) /\ q[i + 1] = q[i] + HeaderSize + Len(more[i].payload)
  <2>1. CASE i \in 1..n
    <3>1. i \in (cut + 1)..n /\ i \in Nat /\ i + 1 \in Nat /\ i # n + 2 /\ i + 1 # n + 2
      <4>1. cut \in Nat /\ i >= cut + 1 /\ i <= n
        BY <1>1, <1>6, <2>1
      <4> QED  BY <2>1, <4>1
    <3>2. q[i] = pos[i] /\ q[i + 1] = pos[i + 1] /\ more[i] = frames[i] /\ frames[i] \in Frame
      BY <1>1, <1>4, <1>6, <2>1, <3>1, ElementOfSeq
    <3>3. FrameAt(cells, pos[i], frames[i]) /\ pos[i + 1] = pos[i] + HeaderSize + Len(frames[i].payload)
      BY <1>7, <3>1
    <3>4. pos[i] \in Nat
      BY <3>3 DEF FrameAt
    <3>5. FrameAt(longer, pos[i], frames[i])
      BY <1>3, <3>2, <3>3, <3>4, FrameAtLonger
    <3> QED  BY <3>2, <3>3, <3>5
  <2>2. CASE i = n + 1
    <3>1. n + 1 \in Nat /\ n + 1 # n + 2 /\ i + 1 = n + 2
      BY <2>2
    <3>2. q[i] = Len(cells) /\ q[i + 1] = Len(longer) /\ more[i] = f
      BY <1>4, <1>6, <1>7, <2>2, <3>1
    <3> QED  BY <3>2
  <2>3. i \in 1..n \/ i = n + 1
    BY <1>1, <1>6, SMTT(30)
  <2> QED  BY <2>1, <2>2, <2>3
<1>10. PICK top \in Nat : top = n + 1
  OBVIOUS
<1>11. \A i, j \in (cut + 1)..top : i <= j => pos[i] <= pos[j]
  BY <1>1, <1>10 DEF Aligned
<1>12. cut + 1 <= top /\ top \in (cut + 1)..top /\ Len(more) + 1 = top + 1 /\ n + 2 = top + 1
  BY <1>1, <1>6, <1>10
<1>13. ASSUME NEW k \in (cut + 1)..top
       PROVE  k \in Nat /\ q[k] = pos[k] /\ pos[k] \in Int /\ pos[k] <= Len(cells)
  <2>1. k \in Nat /\ k <= top /\ k # n + 2
    BY <1>12
  <2>2. pos[k] <= pos[top]
    BY <1>11, <1>12, <2>1
  <2>3. pos[top] = Len(cells)
    BY <1>7, <1>10
  <2> QED  BY <1>4, <2>1, <2>2, <2>3
<1>14. ASSUME NEW i \in (cut + 1)..(top + 1), NEW j \in (cut + 1)..(top + 1), i <= j
       PROVE  q[i] <= q[j]
  <2>1. q[top + 1] = Len(longer)
    BY <1>4, <1>12
  <2>2. CASE i = top + 1
    <3>1. j = top + 1
      BY <1>14, <2>2
    <3> QED  BY <1>3, <2>1, <2>2, <3>1, SMTT(30)
  <2>3. CASE i # top + 1 /\ j = top + 1
    <3>1. i \in (cut + 1)..top
      BY <2>3
    <3>2. q[i] \in Int /\ q[i] <= Len(cells)
      BY <1>13, <3>1
    <3>3. q[i] <= Len(longer)
      BY <1>3, <3>2, SMTT(30)
    <3> QED  BY <2>1, <2>3, <3>3
  <2>4. CASE i # top + 1 /\ j # top + 1
    <3>1. i \in (cut + 1)..top /\ j \in (cut + 1)..top
      BY <2>4
    <3>2. pos[i] <= pos[j]
      BY <1>11, <1>14, <3>1
    <3> QED  BY <1>13, <3>1, <3>2
  <2> QED  BY <2>2, <2>3, <2>4
<1>15. \A i, j \in (cut + 1)..(Len(more) + 1) : i <= j => q[i] <= q[j]
  BY <1>12, <1>14
<1>16. Aligned(longer, more, cut, q)
  BY <1>8, <1>9, <1>15 DEF Aligned
<1> QED  BY <1>4, <1>5, <1>16

\* The frame at the front of the cells is the next one that was sent.
LEMMA FrontIsNext ==
  ASSUME NEW cells \in Seq(Int), NEW frames \in Seq(Frame), NEW cut \in 0..Len(frames),
         NEW pos \in [Nat -> Int], Aligned(cells, frames, cut, pos),
         Len(cells) >= HeaderSize, cells[1] >= HeaderSize
  PROVE  /\ cut + 1 <= Len(frames)
         /\ cells[1] = HeaderSize + Len(frames[cut + 1].payload)
         /\ cells[2] = frames[cut + 1].command
         /\ cells[3] = frames[cut + 1].id
         /\ \A j \in 1..Len(frames[cut + 1].payload) : cells[HeaderSize + j] = frames[cut + 1].payload[j]
<1>1. Len(frames) \in Nat /\ Len(cells) \in Nat
  BY LenProperties
<1>2. cut + 1 <= Len(frames)
  <2> SUFFICES ASSUME ~(cut + 1 <= Len(frames)) PROVE FALSE
    OBVIOUS
  <2>1. cut = Len(frames)
    BY <1>1
  <2> QED  BY <1>1, <2>1, SMTT(30) DEF Aligned, HeaderSize
<1>3. PICK f \in Frame : f = frames[cut + 1]
  <2>1. cut + 1 \in 1..Len(frames)
    BY <1>1, <1>2
  <2> QED  BY <2>1, ElementOfSeq
<1>4. FrameAt(cells, 0, f)
  <2>1. cut + 1 \in (cut + 1)..Len(frames) /\ pos[cut + 1] = 0
    BY <1>1, <1>2 DEF Aligned
  <2>2. FrameAt(cells, pos[cut + 1], frames[cut + 1])
    BY <2>1 DEF Aligned
  <2> QED  BY <1>3, <2>1, <2>2
<1>5. PICK pay \in Seq(Int) : pay = f.payload
  BY DEF Frame
<1>6. Len(pay) \in Nat /\ cells[1] \in Int
  <2>1. 1 \in 1..Len(cells)
    BY <1>1 DEF HeaderSize
  <2> QED  BY <2>1, LenProperties, ElementOfSeq
<1>7. cells[1] = HeaderSize + Len(pay) /\ cells[2] = f.command /\ cells[3] = f.id
  BY <1>4, <1>5, <1>6, SMTT(30) DEF FrameAt, HeaderSize
<1>8. ASSUME NEW j \in 1..Len(pay) PROVE cells[HeaderSize + j] = pay[j]
  <2>1. cells[0 + HeaderSize + j] = pay[j]
    BY <1>4, <1>5 DEF FrameAt
  <2>2. 0 + HeaderSize + j = HeaderSize + j
    BY DEF HeaderSize
  <2> QED  BY <2>1, <2>2
<1> QED  BY <1>2, <1>3, <1>5, <1>7, <1>8

\* The cells after the first ones.
Drops(cells, by, shorter) ==
  Len(shorter) = Len(cells) - by /\ \A i \in 1..Len(shorter) : shorter[i] = cells[by + i]

\* A frame at another place.
LEMMA FrameAtShifted ==
  ASSUME NEW cells \in Seq(Int), NEW shorter \in Seq(Int), NEW by \in Nat,
         Drops(cells, by, shorter),
         NEW f \in Frame, NEW p \in Nat, p >= by, FrameAt(cells, p, f)
  PROVE  FrameAt(shorter, p - by, f)
<1> USE DEF Drops
<1>1. PICK pay \in Seq(Int) : pay = f.payload
  BY DEF Frame
<1>2. /\ Len(pay) \in Nat /\ Len(cells) \in Nat /\ Len(shorter) \in Nat
      /\ p + 3 + Len(pay) <= Len(cells)
  BY <1>1, LenProperties DEF FrameAt, HeaderSize
<1>3. PICK o \in Nat : o = p - by
  BY <1>2
<1>4. ASSUME NEW k \in 1..(3 + Len(pay)) PROVE shorter[o + k] = cells[p + k]
  <2>1. o + k \in 1..Len(shorter) /\ by + (o + k) = p + k
    <3>1. PICK l \in Nat, c \in Nat, s \in Nat :
            l = Len(pay) /\ c = Len(cells) /\ s = Len(shorter) /\ s = c - by
      BY <1>2
    <3>2. o + k \in 1..s /\ by + (o + k) = p + k
      <4> HIDE DEF Drops
      <4> QED  BY <1>2, <1>3, <3>1
    <3> QED  BY <3>1, <3>2
  <2>2. shorter[o + k] = cells[by + (o + k)]
    BY <2>1
  <2> QED  BY <2>1, <2>2, Zenon
<1>5. shorter[o + 1] = cells[p + 1] /\ shorter[o + 2] = cells[p + 2] /\ shorter[o + 3] = cells[p + 3]
  <2>1. 1 \in 1..(3 + Len(pay)) /\ 2 \in 1..(3 + Len(pay)) /\ 3 \in 1..(3 + Len(pay))
    BY <1>2
  <2> QED  BY <1>4, <2>1
<1>6. ASSUME NEW j \in 1..Len(pay) PROVE shorter[o + HeaderSize + j] = pay[j]
  <2>1. PICK k : k = HeaderSize + j
    OBVIOUS
  <2>2. k \in 1..(3 + Len(pay)) /\ o + HeaderSize + j = o + k /\ p + HeaderSize + j = p + k
    BY <1>2, <2>1 DEF HeaderSize
  <2>3. cells[p + HeaderSize + j] = pay[j]
    BY <1>1 DEF FrameAt
  <2> QED  BY <1>4, <2>2, <2>3
<1>7. o + HeaderSize + Len(pay) <= Len(shorter)
  BY <1>2, <1>3 DEF HeaderSize
<1>8. shorter[o + 1] = HeaderSize + Len(pay) \/ shorter[o + 1] < HeaderSize
  BY <1>1, <1>5 DEF FrameAt
<1>9. shorter[o + 2] = f.command /\ shorter[o + 3] = f.id
  BY <1>5 DEF FrameAt
<1>10. FrameAt(shorter, o, f)
  BY <1>1, <1>6, <1>7, <1>8, <1>9 DEF FrameAt
<1> QED  BY <1>3, <1>10

\* The front frame is cut off: the others move to the front.
LEMMA AlignedCut ==
  ASSUME NEW cells \in Seq(Int), NEW shorter \in Seq(Int), NEW frames \in Seq(Frame),
         NEW cut \in Nat, cut + 1 <= Len(frames), NEW pos \in [Nat -> Int],
         Aligned(cells, frames, cut, pos),
         NEW by \in Nat, by = HeaderSize + Len(frames[cut + 1].payload),
         Drops(cells, by, shorter)
  PROVE  \E q \in [Nat -> Int] : Aligned(shorter, frames, cut + 1, q)
<1>1. PICK q : q = [i \in Nat |-> pos[i] - by]
  OBVIOUS
<1>2. ASSUME NEW i \in Nat PROVE q[i] = pos[i] - by /\ pos[i] \in Int /\ q[i] \in Int
  <2>1. PICK p \in Int : p = pos[i]
    OBVIOUS
  <2>2. q[i] = p - by
    BY <1>1, <2>1
  <2>3. p - by \in Int
    BY SMTT(30)
  <2> QED  BY <2>1, <2>2, <2>3
<1>3. q \in [Nat -> Int]
  BY <1>1, <1>2
<1>4. PICK n \in Nat : n = Len(frames)
  BY LenProperties
<1>5. cut + 1 <= n /\ Len(cells) \in Nat /\ Len(shorter) = Len(cells) - by
  BY <1>4, LenProperties DEF Drops
<1>6. /\ pos[cut + 1] = 0 /\ pos[n + 1] = Len(cells)
      /\ \A i \in (cut + 1)..n :
           FrameAt(cells, pos[i], frames[i]) /\ pos[i + 1] = pos[i] + HeaderSize + Len(frames[i].payload)
      /\ \A i, j \in (cut + 1)..(n + 1) : i <= j => pos[i] <= pos[j]
  BY <1>4 DEF Aligned
<1>7. PICK k \in Nat : k = cut + 1
  OBVIOUS
<1>8. pos[k + 1] = by
  <2>1. k \in (cut + 1)..n /\ pos[k] = 0
    BY <1>5, <1>6, <1>7
  <2>2. pos[k + 1] = 0 + HeaderSize + Len(frames[k].payload)
    BY <1>6, <2>1
  <2> QED  BY <1>7, <2>2 DEF HeaderSize
<1>9. q[k + 1] = 0
  <2>1. k + 1 \in Nat
    OBVIOUS
  <2>2. q[k + 1] = by - by
    BY <1>2, <1>8, <2>1
  <2> QED  BY <2>2
<1>10. q[n + 1] = Len(shorter)
  <2>1. n + 1 \in Nat
    OBVIOUS
  <2> QED  BY <1>2, <1>5, <1>6, <2>1
<1>11. ASSUME NEW i \in (k + 1)..n
       PROVE  FrameAt(shorter, q[i], frames[i]) /\ q[i + 1] = q[i] + HeaderSize + Len(frames[i].payload)
  <2>1. /\ i \in (cut + 1)..n /\ i \in (cut + 1)..(n + 1) /\ k + 1 \in (cut + 1)..(n + 1)
        /\ k + 1 <= i /\ i \in Nat /\ i + 1 \in Nat /\ i \in 1..n
    BY <1>5, <1>7
  <2>2. FrameAt(cells, pos[i], frames[i]) /\ pos[i + 1] = pos[i] + HeaderSize + Len(frames[i].payload)
    BY <1>6, <2>1
  <2>3. frames[i] \in Frame /\ pos[i] >= by
    <3>1. frames[i] \in Frame
      BY <1>4, <2>1, ElementOfSeq
    <3>2. pos[k + 1] <= pos[i]
      BY <1>6, <2>1
    <3>3. pos[i] \in Int
      BY <2>1
    <3> QED  BY <1>8, <3>1, <3>2, <3>3
  <2>4. pos[i] \in Nat
    BY <2>2 DEF FrameAt
  <2>5. FrameAt(shorter, pos[i] - by, frames[i])
    BY <2>2, <2>3, <2>4, FrameAtShifted
  <2>6. q[i] = pos[i] - by /\ q[i + 1] = pos[i + 1] - by
    BY <1>2, <2>1
  <2>7. PICK l \in Nat : l = Len(frames[i].payload)
    BY <2>3, LenProperties DEF Frame
  <2>8. q[i + 1] = q[i] + HeaderSize + l
    <3>1. PICK p \in Nat : p = pos[i]
      BY <2>4
    <3>2. q[i] = p - by /\ q[i + 1] = (p + HeaderSize + l) - by
      BY <2>2, <2>6, <2>7, <3>1
    <3>3. (p + HeaderSize + l) - by = (p - by) + HeaderSize + l
      BY DEF HeaderSize
    <3> QED  BY <3>2, <3>3
  <2> QED  BY <2>5, <2>6, <2>7, <2>8
<1>12. ASSUME NEW i \in (k + 1)..(n + 1), NEW j \in (k + 1)..(n + 1), i <= j
       PROVE  q[i] <= q[j]
  <2>1. i \in (cut + 1)..(n + 1) /\ j \in (cut + 1)..(n + 1) /\ i \in Nat /\ j \in Nat
    BY <1>5, <1>7
  <2>2. pos[i] <= pos[j] /\ pos[i] \in Int /\ pos[j] \in Int
    BY <1>6, <1>12, <2>1
  <2> QED  BY <1>2, <2>1, <2>2, SMTT(30)
<1>13. Aligned(shorter, frames, k, q)
  BY <1>4, <1>9, <1>10, <1>11, <1>12 DEF Aligned
<1> QED  BY <1>3, <1>7, <1>13

-----------------------------------------------------------------------------
(***************************************************************************)
(* The steps of a connection.                                              *)
(***************************************************************************)
LEMMA OpenRest ==
  ASSUME CInv, NEW c \in Conns, IsOpen(c)
  PROVE  /\ mem \in Seq(Seq(Int)) /\ buf[c] \in Slice /\ stream[c] \in Seq(Int) /\ Fits(buf[c])
         /\ Rest(c) \in Seq(Int) /\ Len(Rest(c)) = buf[c].len + Len(stream[c])
         /\ \A i \in 1..buf[c].len : Rest(c)[i] = mem[buf[c].arr][buf[c].off + i]
         /\ \A i \in 1..Len(stream[c]) : Rest(c)[buf[c].len + i] = stream[c][i]
<1>1. mem \in Seq(Seq(Int)) /\ buf[c] \in Slice /\ stream[c] \in Seq(Int) /\ Fits(buf[c])
  BY DEF CInv, IInv, BufInv, BufTypes, HoldInv
<1>2. buf[c].arr \in DOMAIN mem /\ buf[c].off + buf[c].len <= Len(mem[buf[c].arr])
  BY <1>1 DEF Fits
<1>3. /\ RestOf(mem, buf[c], stream[c]) \in Seq(Int)
      /\ Len(RestOf(mem, buf[c], stream[c])) = buf[c].len + Len(stream[c])
      /\ \A i \in 1..buf[c].len : RestOf(mem, buf[c], stream[c])[i] = mem[buf[c].arr][buf[c].off + i]
      /\ \A i \in 1..Len(stream[c]) : RestOf(mem, buf[c], stream[c])[buf[c].len + i] = stream[c][i]
  BY <1>1, <1>2, RestFacts
<1> QED  BY <1>1, <1>3 DEF Rest

LEMMA OpenRestNext ==
  ASSUME CInv', NEW c \in Conns, IsOpen(c)'
  PROVE  /\ mem' \in Seq(Seq(Int)) /\ buf'[c] \in Slice /\ stream'[c] \in Seq(Int) /\ Fits(buf[c])'
         /\ Rest(c)' \in Seq(Int) /\ Len(Rest(c)') = buf'[c].len + Len(stream'[c])
         /\ \A i \in 1..buf'[c].len : Rest(c)'[i] = mem'[buf'[c].arr][buf'[c].off + i]
         /\ \A i \in 1..Len(stream'[c]) : Rest(c)'[buf'[c].len + i] = stream'[c][i]
<1>1. mem' \in Seq(Seq(Int)) /\ buf'[c] \in Slice /\ stream'[c] \in Seq(Int) /\ Fits(buf[c])'
  BY DEF CInv, IInv, BufInv, BufTypes, HoldInv
<1>2. Rest(c)' = RestOf(mem', buf'[c], stream'[c])
  BY DEF Rest, RestOf
<1>3. buf'[c].arr \in DOMAIN mem' /\ buf'[c].off + buf'[c].len <= Len(mem'[buf'[c].arr])
  BY <1>1 DEF Fits
<1>4. PICK m \in Seq(Seq(Int)), b \in Slice, wire \in Seq(Int) :
        m = mem' /\ b = buf'[c] /\ wire = stream'[c]
  BY <1>1
<1>5. b.arr \in DOMAIN m /\ b.off + b.len <= Len(m[b.arr]) /\ Rest(c)' = RestOf(m, b, wire)
  BY <1>2, <1>3, <1>4
<1>6. /\ RestOf(m, b, wire) \in Seq(Int)
      /\ Len(RestOf(m, b, wire)) = b.len + Len(wire)
      /\ \A i \in 1..b.len : RestOf(m, b, wire)[i] = m[b.arr][b.off + i]
      /\ \A i \in 1..Len(wire) : RestOf(m, b, wire)[b.len + i] = wire[i]
  BY <1>5, RestFacts
<1> QED  BY <1>1, <1>4, <1>5, <1>6

\* Where a connection stands in what its peer sent.
LEMMA CutFacts ==
  ASSUME CInv, NEW c \in Conns, FramesOk(c)
  PROVE  /\ sent[c] \in Seq(Frame) /\ handled[c] \in Seq(Frame)
         /\ Cut(c) \in Nat /\ Cut(c) <= Len(sent[c]) /\ Cut(c) \in 0..Len(sent[c])
<1>1. sent[c] \in Seq(Frame) /\ handled[c] \in Seq(Frame)
  BY DEF CInv, IInv, SentTypes, HistTypes
<1>2. Len(sent[c]) \in Nat /\ Len(handled[c]) \in Nat
  BY <1>1, LenProperties
<1> QED  BY <1>1, <1>2 DEF FramesOk, Cut

LEMMA FramesBegin ==
  ASSUME CInv, CInv', NEW c \in Conns, FramesOk(c), Serve(c)
  PROVE  FramesOk(c)'
<1>1. /\ conn[c] = "accepted" /\ conn' = [conn EXCEPT ![c] = "read"]
      /\ UNCHANGED <<stream, sent, handled>>
  BY DEF Serve, handleConn
<1>2. sent[c] = <<>> /\ handled[c] = <<>> /\ stream[c] = <<>>
  BY <1>1 DEF FramesOk
<1>3. conn'[c] = "read" /\ IsOpen(c)'
  BY <1>1 DEF IsOpen, CInv, IInv, LifeInv, ServerTypes
<1>4. buf'[c].len = 0
  <2>1. buf[c] = NoSlice /\ \A s \in pool : s.len = 0
    BY <1>1 DEF CInv, IInv, BufInv, HoldInv, IsOpen
  <2>2. buf \in [Conns -> Slice]
    BY DEF CInv, IInv, BufInv, BufTypes
  <2> QED  BY <2>1, <2>2 DEF Serve, handleConn
<1>5. Rest(c)' \in Seq(Int) /\ Len(Rest(c)') = 0
  BY <1>1, <1>2, <1>3, <1>4, OpenRestNext
<1>6. PICK rest \in Seq(Int) : rest = Rest(c)' /\ Len(rest) = 0
  BY <1>5
<1>7. PICK pos : pos = [i \in Nat |-> 0]
  OBVIOUS
<1>8. pos \in [Nat -> Int] /\ pos[1] = 0
  BY <1>7
<1>9. Aligned(rest, <<>>, 0, pos)
  <2>1. Len(<<>>) = 0
    OBVIOUS
  <2>2. \A i \in 1..1 : i = 1
    OBVIOUS
  <2> QED  BY <1>6, <1>8, <2>1, <2>2 DEF Aligned
<1>10. Cut(c)' = 0
  BY <1>1, <1>2, <1>3 DEF Cut
<1>11. Len(handled'[c]) = 0 /\ sent'[c] = <<>> /\ handled'[c] = <<>>
  BY <1>1, <1>2
<1> QED  BY <1>3, <1>6, <1>8, <1>9, <1>10, <1>11 DEF FramesOk

\* The wire after a frame was sent.
Extended(wire, header, pay, wire2) == wire2 = (wire \o header) \o pay

AfterSend(wire, header, pay, wire2) ==
  /\ Len(wire2) = Len(wire) + 3 + Len(pay)
  /\ \A i \in 1..Len(wire) : wire2[i] = wire[i]
  /\ wire2[Len(wire) + 1] = header[1] /\ wire2[Len(wire) + 2] = header[2]
  /\ wire2[Len(wire) + 3] = header[3]
  /\ \A j \in 1..Len(pay) : wire2[Len(wire) + 3 + j] = pay[j]

LEMMA WireCells ==
  ASSUME NEW wire \in Seq(Int), NEW header \in Seq(Int), NEW pay \in Seq(Int), Len(header) = 3,
         NEW wire2, Extended(wire, header, pay, wire2)
  PROVE  AfterSend(wire, header, pay, wire2)
<1>1. PICK wh \in Seq(Int) : wh = wire \o header
  BY TwoParts
<1>2. PICK w \in Nat, p \in Nat : w = Len(wire) /\ p = Len(pay)
  BY LenProperties
<1>3. Len(wh) = w + 3
  <2>1. Len(wire \o header) = Len(wire) + Len(header)
    BY TwoParts
  <2> QED  BY <1>1, <1>2, <2>1
<1>4. \A i \in 1..w : wh[i] = wire[i]
  BY <1>1, <1>2, TwoParts
<1>5. \A i \in 1..3 : wh[w + i] = header[i]
  <2>1. \A i \in 1..Len(header) : (wire \o header)[Len(wire) + i] = header[i]
    BY TwoParts
  <2> QED  BY <1>1, <1>2, <2>1
<1>6. PICK x \in Seq(Int) : x = wh \o pay
  BY TwoParts
<1>7. Len(x) = Len(wh) + p
  BY <1>2, <1>6, TwoParts
<1>8. \A i \in 1..Len(wh) : x[i] = wh[i]
  BY <1>6, TwoParts
<1>9. \A j \in 1..p : x[Len(wh) + j] = pay[j]
  BY <1>2, <1>6, TwoParts
<1>10. \A i \in 1..w : x[i] = wire[i]
  <2>1. \A i \in 1..w : i \in 1..Len(wh)
    BY <1>3
  <2> QED  BY <1>4, <1>8, <2>1
<1>11. ASSUME NEW i \in 1..3 PROVE x[w + i] = header[i]
  <2>1. w + i \in 1..Len(wh)
    BY <1>3
  <2>2. x[w + i] = wh[w + i]
    BY <1>8, <2>1
  <2> QED  BY <1>5, <2>2
<1>12. x[w + 1] = header[1] /\ x[w + 2] = header[2] /\ x[w + 3] = header[3]
  <2>1. 1 \in 1..3 /\ 2 \in 1..3 /\ 3 \in 1..3
    OBVIOUS
  <2> QED  BY <1>11, <2>1
<1>13. Len(x) = w + 3 + p /\ \A j \in 1..p : x[w + 3 + j] = pay[j]
  BY <1>3, <1>7, <1>9
<1>14. AfterSend(wire, header, pay, x)
  BY <1>2, <1>10, <1>12, <1>13 DEF AfterSend
<1>15. x = wire2
  BY <1>1, <1>6 DEF Extended
<1> QED  BY <1>14, <1>15

\* A prefix stays one.
LEMMA PrefixLonger ==
  ASSUME NEW h \in Seq(Frame), NEW frames \in Seq(Frame), NEW f \in Frame,
         Len(h) <= Len(frames), \A i \in 1..Len(h) : h[i] = frames[i]
  PROVE  Len(h) <= Len(Append(frames, f)) /\ \A i \in 1..Len(h) : h[i] = Append(frames, f)[i]
<1>1. PICK k \in Nat, n \in Nat : k = Len(h) /\ n = Len(frames)
  BY LenProperties
<1>2. PICK more : more = Append(frames, f)
  OBVIOUS
<1>3. Len(more) = n + 1 /\ \A i \in 1..n : more[i] = frames[i]
  BY <1>1, <1>2, AppendProperties
<1> QED  BY <1>1, <1>2, <1>3

LEMMA FramesSend ==
  ASSUME TruthfulOrShort, CInv, CInv', NEW c \in Conns, FramesOk(c), Send(c)
  PROVE  FramesOk(c)'
<1>1. PICK r \in Requests :
        /\ stream' = [stream EXCEPT ![c] = @ \o <<r.length, r.command, Len(sent[c]) + 1>> \o r.payload]
        /\ sent' = [sent EXCEPT ![c] = Append(@, [command |-> r.command, id |-> Len(sent[c]) + 1,
                                                  payload |-> r.payload])]
  BY DEF Send
<1>2. IsOpen(c) /\ UNCHANGED <<conn, buf, mem, handled>>
  BY DEF Send, dataVars
<1>3. r.length \in Int /\ r.command \in Int /\ r.payload \in Seq(Int)
  BY ConnAssumption
<1>4. PICK id \in Int : id = Len(sent[c]) + 1
  BY LenProperties DEF CInv, IInv, SentTypes
<1>5. PICK pay \in Seq(Int) : pay = r.payload
  BY <1>3
<1>6. PICK f \in Frame : f = [command |-> r.command, id |-> id, payload |-> pay]
  BY <1>3 DEF Frame
<1>7. f.command = r.command /\ f.id = id /\ f.payload = pay
  BY <1>6
<1>8. PICK header \in Seq(Int) : header = <<r.length, r.command, id>>
  BY <1>3, ThreeCells
<1>9. Len(header) = 3 /\ header[1] = r.length /\ header[2] = r.command /\ header[3] = id
  BY <1>3, <1>8, ThreeCells
<1>10. PICK frames \in Seq(Frame) : frames = sent[c]
  BY DEF CInv, IInv, SentTypes
<1>11. sent'[c] = Append(frames, f)
  BY <1>1, <1>4, <1>5, <1>6, <1>10 DEF CInv, IInv, SentTypes
<1>12. PICK wire \in Seq(Int) : wire = stream[c]
  BY <1>2, OpenRest
<1>13. PICK wire2 \in Seq(Int) : wire2 = stream'[c]
  BY DEF CInv, IInv, BufInv, BufTypes
<1>14. wire2 = (wire \o header) \o pay
  <2>1. stream' = [stream EXCEPT ![c] = wire \o header \o pay]
    BY <1>1, <1>4, <1>5, <1>8, <1>12
  <2> QED  BY <1>13, <2>1 DEF CInv, IInv, BufInv, BufTypes
<1>15. /\ Len(wire2) = Len(wire) + 3 + Len(pay)
       /\ \A i \in 1..Len(wire) : wire2[i] = wire[i]
       /\ wire2[Len(wire) + 1] = r.length /\ wire2[Len(wire) + 2] = r.command
       /\ wire2[Len(wire) + 3] = id
       /\ \A j \in 1..Len(pay) : wire2[Len(wire) + 3 + j] = pay[j]
  <2>1. AfterSend(wire, header, pay, wire2)
    <3>1. Len(header) = 3 /\ Extended(wire, header, pay, wire2)
      BY <1>9, <1>14 DEF Extended
    <3> QED  BY <3>1, WireCells
  <2> QED  BY <1>9, <2>1 DEF AfterSend
<1>16. PICK len \in Nat : len = buf[c].len
  BY <1>2, OpenRest DEF Slice
<1>17. PICK cells \in Seq(Int) : cells = Rest(c)
  BY <1>2, OpenRest
<1>18. IsOpen(c)' /\ buf'[c] = buf[c]
  BY <1>2 DEF IsOpen
<1>19. PICK longer \in Seq(Int) : longer = Rest(c)'
  BY <1>18, OpenRestNext
<1>20. /\ Len(cells) = len + Len(wire)
       /\ \A i \in 1..len : cells[i] = mem[buf[c].arr][buf[c].off + i]
       /\ \A i \in 1..Len(wire) : cells[len + i] = wire[i]
  BY <1>2, <1>12, <1>16, <1>17, OpenRest
<1>21. /\ Len(longer) = len + Len(wire2)
       /\ \A i \in 1..len : longer[i] = mem[buf[c].arr][buf[c].off + i]
       /\ \A i \in 1..Len(wire2) : longer[len + i] = wire2[i]
  <2>1. /\ Len(longer) = buf'[c].len + Len(wire2)
        /\ \A i \in 1..buf'[c].len : longer[i] = mem'[buf'[c].arr][buf'[c].off + i]
        /\ \A i \in 1..Len(wire2) : longer[buf'[c].len + i] = wire2[i]
    BY <1>13, <1>18, <1>19, OpenRestNext
  <2> QED  BY <1>2, <1>16, <1>18, <2>1
<1>22. PICK n \in Nat, w \in Nat, p \in Nat : n = Len(cells) /\ w = Len(wire) /\ p = Len(pay)
  BY LenProperties
<1>23. n = len + w /\ Len(longer) = n + 3 + p /\ Len(wire2) = w + 3 + p
  BY <1>15, <1>20, <1>21, <1>22
<1>24. ASSUME NEW i \in 1..n PROVE longer[i] = cells[i]
  <2>1. CASE i \in 1..len
    BY <1>20, <1>21, <2>1
  <2>2. CASE i \notin 1..len
    <3>1. PICK j : j = i - len
      OBVIOUS
    <3>2. j \in 1..w /\ j \in 1..Len(wire2) /\ i = len + j
      BY <1>23, <2>2, <3>1
    <3>3. longer[len + j] = wire2[j] /\ cells[len + j] = wire[j] /\ wire2[j] = wire[j]
      BY <1>15, <1>20, <1>21, <1>22, <3>2
    <3> QED  BY <3>2, <3>3
  <2> QED  BY <2>1, <2>2
<1>25. ASSUME NEW j \in 1..(3 + p) PROVE longer[n + j] = wire2[w + j]
  <2>1. w + j \in 1..Len(wire2) /\ n + j = len + (w + j)
    BY <1>23
  <2> QED  BY <1>21, <2>1
<1>26. FrameAt(longer, n, f)
  <2>1. longer[n + 1] = r.length /\ longer[n + 2] = r.command /\ longer[n + 3] = id
    <3>1. 1 \in 1..(3 + p) /\ 2 \in 1..(3 + p) /\ 3 \in 1..(3 + p)
      OBVIOUS
    <3> QED  BY <1>15, <1>22, <1>25, <3>1
  <2>2. ASSUME NEW j \in 1..p PROVE longer[n + HeaderSize + j] = pay[j]
    <3>1. PICK k : k = 3 + j
      OBVIOUS
    <3>2. k \in 1..(3 + p) /\ n + HeaderSize + j = n + k /\ w + 3 + j = w + k
      BY <3>1 DEF HeaderSize
    <3>3. longer[n + k] = wire2[w + k] /\ wire2[w + 3 + j] = pay[j]
      BY <1>15, <1>22, <1>25, <3>2
    <3> QED  BY <3>2, <3>3
  <2>3. r.length = HeaderSize + p \/ r.length < HeaderSize
    BY <1>5, <1>22 DEF TruthfulOrShort
  <2>4. n + HeaderSize + p <= Len(longer)
    BY <1>23 DEF HeaderSize
  <2> QED  BY <1>7, <1>22, <2>1, <2>2, <2>3, <2>4 DEF FrameAt
<1>27. PICK cut \in Nat : cut = Cut(c) /\ cut <= Len(frames)
  BY <1>10, CutFacts
<1>28. PICK pos \in [Nat -> Int] : Aligned(cells, frames, cut, pos)
  BY <1>2, <1>10, <1>17, <1>27 DEF FramesOk
<1>29. \E q \in [Nat -> Int] : Aligned(longer, Append(frames, f), cut, q)
  <2>1. Len(longer) = Len(cells) + HeaderSize + Len(f.payload)
    BY <1>7, <1>22, <1>23 DEF HeaderSize
  <2>2. \A i \in 1..Len(cells) : longer[i] = cells[i]
    BY <1>22, <1>24
  <2>3. FrameAt(longer, Len(cells), f)
    BY <1>22, <1>26
  <2> QED  BY <1>27, <1>28, <2>1, <2>2, <2>3, AlignedSend
<1>30. Cut(c)' = cut
  BY <1>2, <1>27 DEF Cut
<1>31. Len(handled'[c]) <= Len(sent'[c]) /\ \A i \in 1..Len(handled'[c]) : handled'[c][i] = sent'[c][i]
  <2>1. PICK h \in Seq(Frame) : h = handled[c]
    BY CutFacts
  <2>2. Len(h) <= Len(frames) /\ \A i \in 1..Len(h) : h[i] = frames[i]
    BY <1>10, <2>1 DEF FramesOk
  <2>3. Len(h) <= Len(Append(frames, f)) /\ \A i \in 1..Len(h) : h[i] = Append(frames, f)[i]
    BY <2>2, PrefixLonger
  <2> QED  BY <1>2, <1>11, <2>1, <2>3
<1>32. IsOpen(c)' => \E q \in [Nat -> Int] : Aligned(Rest(c)', sent'[c], Cut(c)', q)
  BY <1>11, <1>19, <1>29, <1>30
<1>33. conn'[c] \notin {"none", "accepted"} /\ (conn'[c] = "write" => Len(handled'[c]) >= 1)
  BY <1>2 DEF IsOpen, FramesOk
<1> QED  BY <1>31, <1>32, <1>33 DEF FramesOk

\* A read moves cells from the wire to the buffer.
LEMMA ReadKeepsRest ==
  ASSUME CInv, CInv', NEW c \in Conns, Read(c)
  PROVE  /\ Rest(c)' = Rest(c) /\ IsOpen(c) /\ conn[c] = "read" /\ conn'[c] = "parse"
         /\ UNCHANGED <<sent, handled>>
<1>1. BufInv /\ BufTypes /\ conn \in [Conns -> ConnStates]
  BY DEF CInv, IInv, BufInv, LifeInv, ServerTypes
<1>2. PICK n \in Nat :
         /\ 0 < n /\ n <= Len(stream[c])
         /\ AppendTo(c, SubSeq(stream[c], 1, n))
         /\ stream' = [stream EXCEPT ![c] = SubSeq(@, n + 1, Len(@))]
         /\ conn' = [conn EXCEPT ![c] = "parse"]
         /\ UNCHANGED <<sent, handled>>
  BY <1>1, ReadAppends
<1>3. conn[c] = "read" /\ IsOpen(c) /\ conn'[c] = "parse" /\ IsOpen(c)'
  BY <1>1, <1>2 DEF Read, IsOpen
<1>4. PICK data \in Seq(Int) : data = SubSeq(stream[c], 1, n)
  BY <1>1, <1>2, StreamParts
<1>5. PICK wire \in Seq(Int) : wire = stream[c]
  BY <1>3, OpenRest
<1>6. PICK wire2 \in Seq(Int) : wire2 = stream'[c]
  BY <1>3, OpenRestNext
<1>7. /\ Len(data) = n /\ \A i \in 1..n : data[i] = wire[i]
      /\ Len(wire2) = Len(wire) - n /\ \A i \in 1..(Len(wire) - n) : wire2[i] = wire[n + i]
  <2>1. stream'[c] = SubSeq(stream[c], n + 1, Len(stream[c]))
    BY <1>1, <1>2 DEF BufTypes
  <2> QED  BY <1>1, <1>2, <1>4, <1>5, <1>6, <2>1, StreamParts
<1>8. PICK len \in Nat, w \in Nat : len = buf[c].len /\ w = Len(wire)
  BY <1>3, OpenRest, LenProperties DEF Slice
<1>9. /\ buf'[c].len = len + n
      /\ \A i \in 1..len : mem'[buf'[c].arr][buf'[c].off + i] = mem[buf[c].arr][buf[c].off + i]
      /\ \A i \in 1..n : mem'[buf'[c].arr][buf'[c].off + len + i] = data[i]
  <2>1. Fits(buf[c]) /\ AppendTo(c, data)
    BY <1>2, <1>3, <1>4, OpenRest
  <2>2. /\ buf'[c].len = buf[c].len + Len(data)
        /\ \A i \in 1..buf[c].len : mem'[buf'[c].arr][buf'[c].off + i] = mem[buf[c].arr][buf[c].off + i]
        /\ \A i \in 1..Len(data) : mem'[buf'[c].arr][buf'[c].off + buf[c].len + i] = data[i]
    BY <1>1, <2>1, AppendFacts
  <2> QED  BY <1>7, <1>8, <2>2
<1>10. PICK off2 \in Nat : off2 = buf'[c].off
  BY <1>3, OpenRestNext DEF Slice
<1>11. PICK cells \in Seq(Int), cells2 \in Seq(Int) : cells = Rest(c) /\ cells2 = Rest(c)'
  BY <1>3, OpenRest, OpenRestNext
<1>12. /\ Len(cells) = len + w
       /\ \A i \in 1..len : cells[i] = mem[buf[c].arr][buf[c].off + i]
       /\ \A i \in 1..w : cells[len + i] = wire[i]
  BY <1>3, <1>5, <1>8, <1>11, OpenRest
<1>13. /\ Len(cells2) = len + n + Len(wire2)
       /\ \A i \in 1..(len + n) : cells2[i] = mem'[buf'[c].arr][off2 + i]
       /\ \A i \in 1..Len(wire2) : cells2[len + n + i] = wire2[i]
  <2>1. /\ Len(cells2) = buf'[c].len + Len(wire2)
        /\ \A i \in 1..buf'[c].len : cells2[i] = mem'[buf'[c].arr][buf'[c].off + i]
        /\ \A i \in 1..Len(wire2) : cells2[buf'[c].len + i] = wire2[i]
    BY <1>3, <1>6, <1>11, OpenRestNext
  <2> QED  BY <1>9, <1>10, <2>1
<1>14. Len(wire2) = w - n /\ n <= w /\ Len(cells2) = len + w
  <2>1. n <= w /\ Len(wire2) = w - n
    BY <1>2, <1>5, <1>7, <1>8
  <2>2. Len(cells2) = len + n + (w - n)
    BY <1>13, <2>1
  <2> QED  BY <2>1, <2>2
<1>15. ASSUME NEW i \in 1..(len + w) PROVE cells2[i] = cells[i]
  <2>1. CASE i \in 1..len
    <3>1. i \in 1..(len + n)
      BY <2>1
    <3>2. cells2[i] = mem'[buf'[c].arr][off2 + i] /\ cells[i] = mem[buf[c].arr][buf[c].off + i]
      BY <1>12, <1>13, <2>1, <3>1
    <3> QED  BY <1>9, <1>10, <2>1, <3>2
  <2>2. CASE i \in (len + 1)..(len + n)
    <3>1. PICK j : j = i - len
      OBVIOUS
    <3>2. j \in 1..n /\ j \in 1..w /\ i = len + j /\ i \in 1..(len + n) /\ off2 + len + j = off2 + i
      BY <1>14, <2>2, <3>1
    <3>3. cells2[i] = mem'[buf'[c].arr][off2 + i]
      BY <1>13, <3>2
    <3>4. mem'[buf'[c].arr][off2 + len + j] = data[j]
      BY <1>9, <1>10, <3>2
    <3>5. cells[len + j] = wire[j] /\ data[j] = wire[j]
      BY <1>7, <1>12, <3>2
    <3> QED  BY <3>2, <3>3, <3>4, <3>5
  <2>3. CASE i \in (len + n + 1)..(len + w)
    <3>1. PICK j : j = i - len - n
      OBVIOUS
    <3>2. j \in 1..(w - n) /\ n + j \in 1..w /\ i = len + n + j /\ i = len + (n + j)
      BY <1>14, <2>3, <3>1
    <3>3. cells2[len + n + j] = wire2[j] /\ wire2[j] = wire[n + j]
      BY <1>7, <1>8, <1>13, <1>14, <3>2
    <3>4. cells[len + (n + j)] = wire[n + j]
      BY <1>12, <3>2
    <3> QED  BY <3>2, <3>3, <3>4
  <2> QED  BY <1>14, <2>1, <2>2, <2>3
<1>16. cells2 = cells
  BY <1>12, <1>14, <1>15, SeqEqual
<1> QED  BY <1>2, <1>3, <1>11, <1>16

LEMMA FramesHandle ==
  ASSUME CInv, CInv', NEW c \in Conns, FramesOk(c), HandleNext(c)
  PROVE  FramesOk(c)'
<1>1. /\ conn[c] = "parse" /\ ~Incomplete(c) /\ FrameLen(c) >= HeaderSize
      /\ conn' = [conn EXCEPT ![c] = "write"]
      /\ handled' = [handled EXCEPT ![c] = Append(@, FrontFrame(c))]
      /\ UNCHANGED <<stream, buf, mem, sent>>
  BY DEF HandleNext, FrontFrame
<1>2. IInv /\ IsOpen(c) /\ conn'[c] = "write" /\ IsOpen(c)'
  BY <1>1 DEF CInv, IsOpen, IInv, LifeInv, ServerTypes
<1>3. PICK front \in Seq(Int) : front = Cells(buf[c])
  BY <1>1, <1>2, FrontFrameFacts
<1>4. PICK len \in Nat, fl \in Nat : len = buf[c].len /\ fl = FrameLen(c)
  <2>1. buf[c].len \in Nat
    BY <1>2, OpenRest DEF Slice
  <2>2. FrameLen(c) \in HeaderSize..buf[c].len
    BY <1>1, <1>2, FrontFrameFacts
  <2>3. FrameLen(c) \in Nat
    BY <2>1, <2>2 DEF HeaderSize
  <2> QED  BY <2>1, <2>3
<1>5. /\ Len(front) = len /\ fl \in HeaderSize..len /\ fl = front[1]
      /\ FrontFrame(c) \in Frame /\ Len(FrontFrame(c).payload) = fl - HeaderSize
      /\ \A j \in 1..(fl - HeaderSize) : FrontFrame(c).payload[j] = front[HeaderSize + j]
  BY <1>1, <1>2, <1>3, <1>4, FrontFrameFacts
<1>6. PICK cells \in Seq(Int) : cells = Rest(c)
  BY <1>2, OpenRest
<1>6b. 3 <= fl /\ fl <= len
  BY <1>5 DEF HeaderSize
<1>7. \A i \in 1..len : cells[i] = front[i]
  <2>1. \A i \in 1..len : cells[i] = mem[buf[c].arr][buf[c].off + i]
    BY <1>2, <1>4, <1>6, OpenRest
  <2>2. \A i \in 1..len : front[i] = mem[buf[c].arr][buf[c].off + i]
    BY <1>2, <1>3, <1>4, OpenRest, CellsOf
  <2> QED  BY <2>1, <2>2
<1>8. Len(cells) \in Nat /\ Len(cells) >= len
  <2>1. PICK w \in Nat : w = Len(stream[c])
    BY <1>2, OpenRest, LenProperties
  <2> QED  BY <1>2, <1>4, <1>6, <2>1, OpenRest
<1>9. PICK frames \in Seq(Frame) : frames = sent[c]
  BY CutFacts
<1>10. PICK cut \in Nat : cut = Cut(c) /\ cut <= Len(frames) /\ cut \in 0..Len(frames)
  BY <1>9, CutFacts
<1>11. PICK pos \in [Nat -> Int] : Aligned(cells, frames, cut, pos)
  BY <1>2, <1>6, <1>9, <1>10 DEF FramesOk
<1>12. Len(cells) >= HeaderSize /\ cells[1] = fl /\ fl >= HeaderSize
  <2>1. 1 \in 1..len /\ Len(cells) >= HeaderSize /\ fl >= HeaderSize
    BY <1>8, <1>6b DEF HeaderSize
  <2> QED  BY <1>5, <1>7, <2>1
<1>13. /\ cut + 1 <= Len(frames)
       /\ cells[1] = HeaderSize + Len(frames[cut + 1].payload)
       /\ cells[2] = frames[cut + 1].command /\ cells[3] = frames[cut + 1].id
       /\ \A j \in 1..Len(frames[cut + 1].payload) : cells[HeaderSize + j] = frames[cut + 1].payload[j]
  BY <1>10, <1>11, <1>12, FrontIsNext
<1>14. PICK f \in Frame, pay \in Seq(Int) : f = frames[cut + 1] /\ pay = f.payload
  <2>1. cut + 1 \in 1..Len(frames)
    <3>1. PICK n \in Nat : n = Len(frames)
      BY LenProperties
    <3>2. cut + 1 <= n
      BY <1>13, <3>1
    <3>3. cut + 1 \in 1..n
      BY <3>2
    <3> QED  BY <3>1, <3>3
  <2>2. frames[cut + 1] \in Frame
    BY <2>1, ElementOfSeq
  <2> QED  BY <2>2 DEF Frame
<1>15. PICK g \in Frame, pay2 \in Seq(Int) : g = FrontFrame(c) /\ pay2 = g.payload
  BY <1>5 DEF Frame
<1>16. PICK p \in Nat : p = Len(pay)
  BY LenProperties
<1>17. fl = HeaderSize + p /\ fl - HeaderSize = p
  BY <1>12, <1>13, <1>14, <1>16 DEF HeaderSize
<1>18. pay2 = pay
  <2>1. Len(pay2) = p
    BY <1>5, <1>15, <1>17
  <2>2. ASSUME NEW j \in 1..p PROVE pay2[j] = pay[j]
    <3>1. HeaderSize + j \in 1..len
      BY <1>5, <1>17 DEF HeaderSize
    <3>2. pay2[j] = front[HeaderSize + j]
      BY <1>5, <1>15, <1>17
    <3>3. cells[HeaderSize + j] = pay[j]
      BY <1>13, <1>14, <1>16
    <3> QED  BY <1>7, <3>1, <3>2, <3>3
  <2> QED  BY <1>16, <2>1, <2>2, SeqEqual
<1>19. g.command = f.command /\ g.id = f.id
  <2>1. g.command = front[2] /\ g.id = front[3]
    BY <1>3, <1>15 DEF FrontFrame
  <2>2. 2 \in 1..len /\ 3 \in 1..len
    BY <1>6b
  <2> QED  BY <1>7, <1>13, <1>14, <2>1, <2>2
<1>20. g = f
  <2>1. g.payload = f.payload
    BY <1>14, <1>15, <1>18
  <2>2. /\ g = [command |-> g.command, id |-> g.id, payload |-> g.payload]
        /\ f = [command |-> f.command, id |-> f.id, payload |-> f.payload]
    BY DEF Frame
  <2> QED  BY <1>19, <2>1, <2>2
<1>21. PICK h \in Seq(Frame) : h = handled[c]
  BY CutFacts
<1>22. cut = Len(h) /\ \A i \in 1..Len(h) : h[i] = frames[i]
  BY <1>1, <1>9, <1>10, <1>21 DEF Cut, FramesOk
<1>23. handled'[c] = Append(h, f) /\ sent'[c] = frames
  BY <1>1, <1>9, <1>15, <1>20, <1>21 DEF CInv, HistTypes
<1>24. Len(Append(h, f)) = cut + 1 /\ \A i \in 1..(cut + 1) : Append(h, f)[i] = frames[i]
  <2>1. PICK more : more = Append(h, f)
    OBVIOUS
  <2>2. Len(more) = cut + 1 /\ more[cut + 1] = f /\ \A i \in 1..cut : more[i] = h[i]
    BY <1>22, <2>1, AppendProperties
  <2>3. \A i \in 1..(cut + 1) : i \in 1..cut \/ i = cut + 1
    OBVIOUS
  <2>4. \A i \in 1..(cut + 1) : more[i] = frames[i]
    BY <1>14, <1>22, <2>2, <2>3
  <2> QED  BY <2>1, <2>2, <2>4
<1>25. Cut(c)' = cut
  BY <1>2, <1>23, <1>24 DEF Cut
<1>26. Rest(c)' = cells
  BY <1>1, <1>6 DEF Rest, RestOf
<1>27. \E q \in [Nat -> Int] : Aligned(Rest(c)', sent'[c], Cut(c)', q)
  BY <1>11, <1>23, <1>25, <1>26
<1>28. Len(handled'[c]) <= Len(sent'[c]) /\ Len(handled'[c]) >= 1
  BY <1>13, <1>23, <1>24
<1>29. \A i \in 1..Len(handled'[c]) : handled'[c][i] = sent'[c][i]
  BY <1>23, <1>24
<1> QED  BY <1>2, <1>27, <1>28, <1>29 DEF FramesOk

\* The cells of a slice that moved forward.
LEMMA RestDrops ==
  ASSUME NEW m \in Seq(Seq(Int)), NEW b \in Slice, b.arr \in DOMAIN m, b.off + b.len <= Len(m[b.arr]),
         NEW wire \in Seq(Int), NEW fl \in Nat, fl <= b.len,
         NEW b2 \in Slice, b2.arr = b.arr, b2.off = b.off + fl, b2.len = b.len - fl
  PROVE  Drops(RestOf(m, b, wire), fl, RestOf(m, b2, wire))
<1>1. PICK off \in Nat, len \in Nat, w \in Nat : off = b.off /\ len = b.len /\ w = Len(wire)
  BY LenProperties DEF Slice
<1>2. PICK array \in Seq(Int) : array = m[b.arr]
  BY ElementOfSeq, LenProperties
<1>3. PICK rest \in Nat : rest = len - fl
  BY <1>1
<1>4. off + len <= Len(array) /\ Len(array) \in Nat /\ fl + rest = len
  BY <1>1, <1>2, <1>3, LenProperties, SMTT(30)
<1>5. b2.arr \in DOMAIN m /\ b2.off + b2.len <= Len(m[b2.arr])
  BY <1>1, <1>2, <1>3, <1>4, SMTT(30)
<1>6. PICK cells \in Seq(Int) : cells = RestOf(m, b, wire)
  BY RestFacts
<1>7. PICK shorter \in Seq(Int) : shorter = RestOf(m, b2, wire)
  BY <1>5, RestFacts
<1>8. /\ Len(cells) = len + w
      /\ \A i \in 1..len : cells[i] = array[off + i]
      /\ \A i \in 1..w : cells[len + i] = wire[i]
  BY <1>1, <1>2, <1>6, RestFacts, ZenonT(30)
<1>9. /\ Len(shorter) = rest + w
      /\ \A i \in 1..rest : shorter[i] = array[off + fl + i]
      /\ \A i \in 1..w : shorter[rest + i] = wire[i]
  <2>1. /\ Len(shorter) = b2.len + Len(wire)
        /\ \A i \in 1..b2.len : shorter[i] = m[b2.arr][b2.off + i]
        /\ \A i \in 1..Len(wire) : shorter[b2.len + i] = wire[i]
    BY <1>5, <1>7, RestFacts, ZenonT(90)
  <2>2. b2.len = rest /\ b2.off = off + fl /\ m[b2.arr] = array
    BY <1>1, <1>2, <1>3
  <2> QED  BY <1>1, <2>1, <2>2
<1>10. ASSUME NEW i \in 1..(rest + w) PROVE shorter[i] = cells[fl + i]
  <2>1. CASE i \in 1..rest
    <3>1. fl + i \in 1..len /\ off + fl + i = off + (fl + i)
      BY <1>4, <2>1
    <3>2. shorter[i] = array[off + fl + i] /\ cells[fl + i] = array[off + (fl + i)]
      BY <1>8, <1>9, <2>1, <3>1
    <3> QED  BY <3>1, <3>2
  <2>2. CASE i \notin 1..rest
    <3>1. PICK j : j = i - rest
      OBVIOUS
    <3>2. j \in 1..w /\ i = rest + j /\ fl + i = len + j
      BY <1>4, <2>2, <3>1
    <3>3. shorter[rest + j] = wire[j] /\ cells[len + j] = wire[j]
      BY <1>8, <1>9, <3>2
    <3> QED  BY <3>2, <3>3
  <2> QED  BY <2>1, <2>2
<1>11. Len(shorter) = Len(cells) - fl
  BY <1>4, <1>8, <1>9, SMTT(30)
<1>12. Drops(cells, fl, shorter)
  BY <1>9, <1>10, <1>11 DEF Drops
<1> QED  BY <1>6, <1>7, <1>12

LEMMA FramesWrite ==
  ASSUME CInv, CInv', NEW c \in Conns, FramesOk(c), Write(c)
  PROVE  FramesOk(c)'
<1>1. /\ conn[c] = "write" /\ buf' = [buf EXCEPT ![c] = Advanced(c)]
      /\ conn' = [conn EXCEPT ![c] = IF Advanced(c).len = 0 THEN "read" ELSE "parse"]
      /\ UNCHANGED <<stream, mem, sent, handled>>
  BY DEF Write, dataVars
<1>2. BufInv /\ BufTypes /\ IsOpen(c) /\ conn'[c] \in {"read", "parse"} /\ IsOpen(c)'
  BY <1>1 DEF CInv, IsOpen, IInv, LifeInv, ServerTypes, BufInv
<1>3. PICK b \in Slice : b = buf[c]
  BY <1>2, OpenRest
<1>4. PICK b2 \in Slice : b2 = buf'[c]
  BY <1>2, OpenRestNext
<1>5. /\ mem \in Seq(Seq(Int)) /\ b.arr \in DOMAIN mem /\ b.off + b.len <= Len(mem[b.arr])
      /\ stream[c] \in Seq(Int)
  BY <1>2, <1>3, OpenRest DEF Fits
<1>6. b.len \in Nat /\ HeaderSize <= b.len
  BY <1>1, <1>2, <1>3 DEF BufInv, FrontInv, Slice, HeaderSize
<1>7. FrameLen(c) \in Int /\ FrameLen(c) = mem[b.arr][b.off + 1]
  BY <1>2, <1>3, <1>6, OpenRest, FrameLenOf DEF HeaderSize
<1>8. PICK fl \in Nat : fl = FrameLen(c) /\ HeaderSize <= fl /\ fl <= b.len
  <2>1. HeaderSize <= FrameLen(c) /\ FrameLen(c) <= b.len
    BY <1>1, <1>2, <1>3 DEF BufInv, FrontInv
  <2> QED  BY <1>7, <2>1 DEF HeaderSize
<1>9. b2.arr = b.arr /\ b2.off = b.off + fl /\ b2.len = b.len - fl
  <2>1. b2 = [arr |-> b.arr, off |-> b.off + fl, len |-> b.len - fl]
    BY <1>1, <1>2, <1>3, <1>4, <1>8 DEF Advanced, BufTypes
  <2> QED  BY <2>1
<1>10. Rest(c) = RestOf(mem, b, stream[c]) /\ Rest(c)' = RestOf(mem, b2, stream[c])
  BY <1>1, <1>3, <1>4 DEF Rest, RestOf
<1>11. Drops(RestOf(mem, b, stream[c]), fl, RestOf(mem, b2, stream[c]))
  BY <1>5, <1>8, <1>9, RestDrops
<1>12. PICK cells \in Seq(Int), shorter \in Seq(Int) : cells = Rest(c) /\ shorter = Rest(c)'
  BY <1>2, OpenRest, OpenRestNext
<1>13. Drops(cells, fl, shorter)
  BY <1>10, <1>11, <1>12
<1>14. Len(cells) >= HeaderSize /\ cells[1] = fl
  <2>1. PICK w \in Nat : w = Len(stream[c])
    BY <1>5, LenProperties
  <2>2. Len(cells) = b.len + w
    BY <1>2, <1>3, <1>12, <2>1, OpenRest
  <2>3. 1 \in 1..b.len
    BY <1>6 DEF HeaderSize
  <2>4. cells[1] = mem[b.arr][b.off + 1]
    BY <1>2, <1>3, <1>12, <2>3, OpenRest
  <2> QED  BY <1>6, <1>7, <1>8, <2>2, <2>4 DEF HeaderSize
<1>15. PICK frames \in Seq(Frame) : frames = sent[c]
  BY CutFacts
<1>16. PICK cut \in Nat : cut = Cut(c) /\ cut \in 0..Len(frames)
  BY <1>15, CutFacts
<1>17. PICK pos \in [Nat -> Int] : Aligned(cells, frames, cut, pos)
  BY <1>2, <1>12, <1>15, <1>16 DEF FramesOk
<1>18. cut + 1 <= Len(frames) /\ cells[1] = HeaderSize + Len(frames[cut + 1].payload)
  <2>1. cells[1] >= HeaderSize
    BY <1>8, <1>14 DEF HeaderSize
  <2> QED  BY <1>14, <1>16, <1>17, <2>1, FrontIsNext
<1>19. fl = HeaderSize + Len(frames[cut + 1].payload)
  BY <1>14, <1>18
<1>20. \E q \in [Nat -> Int] : Aligned(shorter, frames, cut + 1, q)
  BY <1>13, <1>17, <1>18, <1>19, AlignedCut
<1>21. Cut(c)' = cut + 1
  <2>1. PICK k \in Nat : k = Len(handled[c])
    BY CutFacts, LenProperties
  <2>2. cut = k - 1
    BY <1>1, <1>16, <2>1 DEF Cut
  <2>3. Cut(c)' = k
    BY <1>1, <1>2, <2>1 DEF Cut
  <2> QED  BY <2>2, <2>3
<1>22. \E q \in [Nat -> Int] : Aligned(Rest(c)', sent'[c], Cut(c)', q)
  BY <1>1, <1>12, <1>15, <1>20, <1>21
<1> QED  BY <1>1, <1>2, <1>22 DEF FramesOk

LEMMA FramesConnStep ==
  ASSUME CInv, CInv', NEW c \in Conns, FramesOk(c), ConnStep(c)
  PROVE  FramesOk(c)'
<1>1. conn \in [Conns -> ConnStates] /\ BufTypes
  BY DEF CInv, IInv, BufInv, LifeInv, ServerTypes
<1>2. CASE Read(c)
  <2>1. /\ Rest(c)' = Rest(c) /\ IsOpen(c) /\ conn[c] = "read" /\ conn'[c] = "parse"
        /\ UNCHANGED <<sent, handled>>
    BY <1>2, ReadKeepsRest
  <2>2. Cut(c)' = Cut(c)
    BY <2>1 DEF Cut
  <2> QED  BY <2>1, <2>2 DEF FramesOk
<1>3. ASSUME NEW reason, Return(c, reason) PROVE FramesOk(c)'
  <2>1. conn'[c] = "closed" /\ UNCHANGED <<sent, handled>>
    BY <1>1, <1>3 DEF Return, Give
  <2> QED  BY <2>1 DEF FramesOk, IsOpen
<1>4. CASE ReadError(c) \/ DropOversized(c) \/ WriteError(c)
  BY <1>3, <1>4 DEF ReadError, DropOversized, WriteError
<1>5. CASE NeedMore(c) \/ Panic(c)
  <2>1. /\ conn[c] = "parse" /\ conn'[c] \in {"read", "parse"}
        /\ UNCHANGED <<buf, mem, stream, sent, handled>>
    BY <1>1, <1>5 DEF NeedMore, Panic, dataVars
  <2>2. IsOpen(c) /\ IsOpen(c)' /\ Rest(c)' = Rest(c) /\ Cut(c)' = Cut(c)
    BY <2>1 DEF IsOpen, Rest, RestOf, Cut
  <2> QED  BY <2>1, <2>2 DEF FramesOk
<1> QED  BY <1>2, <1>4, <1>5, FramesHandle, FramesWrite DEF ConnStep

-----------------------------------------------------------------------------
LEMMA CInvInit == Init => CInv
<1>1. <<>> \in Seq(Frame)
  BY EmptySeq
<1> QED  BY <1>1, IInvInit DEF CInv, HistTypes, Init, ConnInit

LEMMA CInvNext == CInv /\ [Next]_vars => CInv'
<1> SUFFICES ASSUME CInv, [Next]_vars PROVE CInv'
  OBVIOUS
<1>1. IInv'
  BY IInvNext DEF CInv
<1>2. HistTypes'
  <2>1. CASE ServerStep \/ UNCHANGED vars
    BY <2>1, ServerLocal DEF CInv, HistTypes
  <2> QED  BY <2>1, ConnLocal, PeerLocal DEF Next
<1> QED  BY <1>1, <1>2 DEF CInv

LEMMA FramesInit == Init => FramesInv
<1> SUFFICES ASSUME Init, NEW c \in Conns PROVE FramesOk(c)
  BY DEF FramesInv
<1>1. conn[c] = "none" /\ sent[c] = <<>> /\ handled[c] = <<>> /\ stream[c] = <<>>
  BY DEF Init, ConnInit
<1> QED  BY <1>1 DEF FramesOk, IsOpen

LEMMA FramesNext ==
  ASSUME TruthfulOrShort, CInv, FramesInv, [Next]_vars
  PROVE  FramesInv'
<1>1. CInv' /\ conn \in [Conns -> ConnStates]
  BY CInvNext DEF CInv, IInv, LifeInv, ServerTypes
<1> SUFFICES ASSUME NEW d \in Conns PROVE FramesOk(d)'
  BY DEF FramesInv
<1>2. FramesOk(d)
  BY DEF FramesInv
<1>3. CASE ServerStep \/ UNCHANGED vars
  BY <1>2, <1>3, ServerLocal, FramesUntouched
<1>4. ASSUME NEW c \in Conns, Untouched(c), c # d PROVE FramesOk(d)'
  BY <1>2, <1>4, FramesUntouched DEF Untouched
<1>5. ASSUME Accept(d) PROVE FramesOk(d)'
  <2>1. conn[d] = "none" /\ conn'[d] = "accepted" /\ UNCHANGED <<stream, sent, handled>>
    BY <1>1, <1>5 DEF Accept
  <2> QED  BY <1>2, <2>1 DEF FramesOk, IsOpen
<1>6. ASSUME PeerGone(d) PROVE FramesOk(d)'
  <2>1. UNCHANGED <<conn, stream, buf, mem, sent, handled>>
    BY <1>6 DEF PeerGone, dataVars
  <2> QED  BY <1>2, <2>1, FramesUntouched
<1>7. ASSUME NEW c \in Conns, Accept(c) \/ Serve(c) \/ Send(c) \/ PeerGone(c) \/ ConnStep(c)
      PROVE  FramesOk(d)'
  <2>1. CASE c = d
    BY <1>1, <1>2, <1>5, <1>6, <1>7, <2>1, FramesBegin, FramesSend, FramesConnStep
  <2>2. CASE c # d
    BY <1>4, <1>7, <2>2, ConnLocal, PeerLocal
  <2> QED  BY <2>1, <2>2
<1> QED  BY <1>3, <1>7 DEF Next

(***************************************************************************)
(* FramesInOrder for every number of connections, every set of requests    *)
(* whose lengths are true or too short to be a frame, and every way the    *)
(* stream may be cut into reads: HandleFrame is given the frames that      *)
(* were sent, each once, in order and whole (server.go:127-176).           *)
(***************************************************************************)
THEOREM FramesArriveInOrder == ASSUME TruthfulOrShort PROVE Spec => []FramesInOrder
<1>1. Init => CInv /\ FramesInv
  BY CInvInit, FramesInit
<1>2. CInv /\ FramesInv /\ [Next]_vars => (CInv /\ FramesInv)'
  BY CInvNext, FramesNext
<1>3. CInv /\ FramesInv => FramesInOrder
  <2> SUFFICES ASSUME CInv, FramesInv, NEW c \in Conns PROVE IsPrefix(handled[c], sent[c])
    BY DEF FramesInOrder
  <2>1. PICK h \in Seq(Frame), s \in Seq(Frame) : h = handled[c] /\ s = sent[c]
    BY DEF CInv, IInv, SentTypes, HistTypes
  <2>2. Len(h) <= Len(s) /\ \A i \in 1..Len(h) : h[i] = s[i]
    BY <2>1 DEF FramesInv, FramesOk
  <2>3. SubSeq(h, 1, Len(h)) = SubSeq(s, 1, Len(h))
    BY <2>2, LenProperties, SubSeqProperties
  <2> QED  BY <2>1, <2>2, <2>3 DEF IsPrefix
<1> QED  BY <1>1, <1>2, <1>3, PTL DEF Spec

-----------------------------------------------------------------------------
(***************************************************************************)
(* Payloads.  What a decoder returns are parts of its data.                *)
(***************************************************************************)
PartAt(data, at, part) ==
  /\ part \in Seq(Int) /\ at \in Nat
  /\ at + Len(part) <= Len(data)
  /\ \A j \in 1..Len(part) : part[j] = data[at + j]

\* The results of the decoders, by name.
IsString(data, offset, r) == r = readString(data, offset)
IsGet(data, g) == g = DecodeGetPayload(data)
IsSet(data, d) == d = DecodeSetPayload(data)

LEMMA ReadStringFacts ==
  ASSUME NEW data \in Seq(Int), NEW offset \in Nat, NEW r, IsString(data, offset, r)
  PROVE  /\ r.next \in Nat
         /\ r.ok \in BOOLEAN
         /\ r.ok => /\ r.at = offset + 1
                    /\ PartAt(data, r.at, r.str)
                    /\ r.next = r.at + Len(r.str) /\ r.next <= Len(data)
<1>1. PICK n \in Nat : n = Len(data)
  BY LenProperties
<1>2. CASE n < offset + 1 \/ data[offset + 1] \notin 0..(n - offset - 1)
  <2>1. r = [ok |-> FALSE, str |-> <<>>, at |-> offset, next |-> offset]
    BY <1>1, <1>2 DEF readString, IsString
  <2>2. r.ok = FALSE /\ r.next = offset
    BY <2>1
  <2> QED  BY <2>2
<1>3. CASE ~(n < offset + 1) /\ data[offset + 1] \in 0..(n - offset - 1)
  <2>1. PICK len \in Nat : len = data[offset + 1] /\ offset + 1 + len <= n
    BY <1>3
  <2>2. PICK at \in Nat : at = offset + 1
    OBVIOUS
  <2>3. r = [ok |-> TRUE, str |-> SubSeq(data, at + 1, at + len), at |-> at, next |-> at + len]
    <3>1. offset + 2 = at + 1 /\ offset + 1 + data[offset + 1] = at + len
      BY <2>1, <2>2
    <3> QED  BY <1>1, <1>3, <2>2, <3>1 DEF readString, IsString
  <2>4. at + len <= Len(data)
    BY <1>1, <2>1, <2>2
  <2>5. PICK str : str = SubSeq(data, at + 1, at + len)
    OBVIOUS
  <2>6. str \in Seq(Int) /\ Len(str) = len /\ \A j \in 1..len : str[j] = data[at + j]
    <3>1. /\ SubSeq(data, at + 1, at + len) \in Seq(Int)
          /\ Len(SubSeq(data, at + 1, at + len)) = len
          /\ \A i \in 1..len : SubSeq(data, at + 1, at + len)[i] = data[at + i]
      BY <2>4, PartOf
    <3> QED  BY <2>5, <3>1, Zenon
  <2>7. r.ok = TRUE /\ r.str = str /\ r.at = at /\ r.next = at + len
    BY <2>3, <2>5
  <2>8. PartAt(data, at, str)
    BY <2>4, <2>6 DEF PartAt
  <2>9. at + len \in Nat
    OBVIOUS
  <2>10. r.ok => /\ r.at = offset + 1
                 /\ PartAt(data, r.at, r.str)
                 /\ r.next = r.at + Len(r.str) /\ r.next <= Len(data)
    BY <2>2, <2>4, <2>6, <2>7, <2>8, Zenon
  <2> QED  BY <2>7, <2>9, <2>10, Zenon
<1> QED  BY <1>2, <1>3

LEMMA DecodeGetFacts ==
  ASSUME NEW data \in Seq(Int), NEW g, IsGet(data, g), g.ok
  PROVE  /\ g.token \in Seq(Int) /\ g.bucket \in Seq(Int) /\ PartAt(data, g.keyAt, g.key)
         /\ g.keyAt = 3 + Len(g.token) + Len(g.bucket)
         /\ g.next = g.keyAt + Len(g.key) /\ g.next <= Len(data) /\ g.next \in Nat
<1>1. PICK t : IsString(data, 0, t)
  BY DEF IsString
<1>2. PICK b : IsString(data, t.next, b)
  BY DEF IsString
<1>3. PICK k : IsString(data, b.next, k)
  BY DEF IsString
<1>4. g = [ok |-> t.ok /\ b.ok /\ k.ok, token |-> t.str, bucket |-> b.str, key |-> k.str,
           keyAt |-> k.at, next |-> k.next]
  BY <1>1, <1>2, <1>3, Zenon DEF DecodeGetPayload, IsGet, IsString
<1>5. g.token = t.str /\ g.bucket = b.str /\ g.key = k.str /\ g.keyAt = k.at /\ g.next = k.next
  BY <1>4
<1>6. t.ok /\ b.ok /\ k.ok
  BY <1>4, Zenon
<1>7. t.next \in Nat /\ t.at = 1 /\ PartAt(data, t.at, t.str) /\ t.next = t.at + Len(t.str)
  <2>1. 0 \in Nat /\ 0 + 1 = 1
    OBVIOUS
  <2>2. t.next \in Nat /\ t.at = 0 + 1 /\ PartAt(data, t.at, t.str) /\ t.next = t.at + Len(t.str)
    BY <1>1, <1>6, <2>1, ReadStringFacts
  <2> QED  BY <2>1, <2>2
<1>8. b.next \in Nat /\ b.at = t.next + 1 /\ PartAt(data, b.at, b.str) /\ b.next = b.at + Len(b.str)
  BY <1>2, <1>6, <1>7, ReadStringFacts
<1>9. /\ k.next \in Nat /\ k.at = b.next + 1 /\ PartAt(data, k.at, k.str) /\ k.next = k.at + Len(k.str)
      /\ k.next <= Len(data)
  BY <1>3, <1>6, <1>8, ReadStringFacts
<1>10. t.str \in Seq(Int) /\ b.str \in Seq(Int)
  BY <1>7, <1>8 DEF PartAt
<1>11. PICK lt \in Nat, lb \in Nat : lt = Len(t.str) /\ lb = Len(b.str)
  BY <1>10, LenProperties
<1>12. t.next = 1 + lt
  BY <1>7, <1>11
<1>13. b.next = 1 + lt + 1 + lb
  BY <1>8, <1>11, <1>12
<1>14. k.at = 3 + lt + lb
  BY <1>9, <1>13
<1>15. g.keyAt = 3 + Len(g.token) + Len(g.bucket)
  BY <1>5, <1>11, <1>14
<1>16. PartAt(data, g.keyAt, g.key) /\ g.next = g.keyAt + Len(g.key) /\ g.next <= Len(data) /\ g.next \in Nat
  BY <1>5, <1>9, Zenon
<1>17. g.token \in Seq(Int) /\ g.bucket \in Seq(Int)
  BY <1>5, <1>10, Zenon
<1> QED  BY <1>15, <1>16, <1>17

LEMMA DecodeSetFacts ==
  ASSUME NEW data \in Seq(Int), NEW d, IsSet(data, d), d.ok
  PROVE  /\ d.token \in Seq(Int) /\ d.bucket \in Seq(Int) /\ d.value \in Seq(Int)
         /\ PartAt(data, d.keyAt, d.key)
         /\ 6 + Len(d.token) + Len(d.bucket) + Len(d.key) + Len(d.value) <= Len(data)
         /\ d.ttl \in Int
<1>1. PICK g : IsGet(data, g)
  BY DEF IsGet
<1>2. PICK at : at = g.next
  OBVIOUS
<1>3. PICK ok \in BOOLEAN : ok <=> (g.ok /\ Len(data) >= at + 3 /\ data[at + 3] \in 0..(Len(data) - at - 3))
  OBVIOUS
<1>4. d = [ok |-> ok, token |-> g.token, bucket |-> g.bucket, key |-> g.key, keyAt |-> g.keyAt,
           ttl |-> IF ok THEN data[at + 1] ELSE 0,
           singleRead |-> ok /\ data[at + 2] = 1,
           value |-> IF ok THEN SubSeq(data, at + 4, at + 3 + data[at + 3]) ELSE <<>>]
  <2>1. ok = (g.ok /\ Len(data) >= at + 3 /\ data[at + 3] \in 0..(Len(data) - at - 3))
    BY <1>3
  <2> QED  BY <1>1, <1>2, <2>1, Zenon DEF DecodeSetPayload, IsSet, IsGet
<1>5. ok
  BY <1>4, Zenon
<1>6. d.token = g.token /\ d.bucket = g.bucket /\ d.key = g.key /\ d.keyAt = g.keyAt
  BY <1>4, Zenon
<1>7. d.ttl = data[at + 1] /\ d.value = SubSeq(data, at + 4, at + 3 + data[at + 3])
  BY <1>4, <1>5, Zenon
<1>8. g.ok /\ Len(data) >= at + 3 /\ data[at + 3] \in 0..(Len(data) - at - 3)
  BY <1>3, <1>5
<1>9. /\ g.token \in Seq(Int) /\ g.bucket \in Seq(Int) /\ PartAt(data, g.keyAt, g.key)
      /\ g.keyAt = 3 + Len(g.token) + Len(g.bucket)
      /\ g.next = g.keyAt + Len(g.key) /\ g.next \in Nat
  BY <1>1, <1>8, DecodeGetFacts
<1>10. PICK n \in Nat, a \in Nat : n = Len(data) /\ a = at
  BY <1>2, <1>9, LenProperties
<1>11. PICK len \in Nat : len = data[a + 3] /\ a + 3 + len <= n
  <2>1. n >= a + 3 /\ data[a + 3] \in 0..(n - a - 3)
    BY <1>8, <1>10
  <2>2. PICK x : x = data[a + 3]
    OBVIOUS
  <2>3. x \in 0..(n - a - 3)
    BY <2>1, <2>2
  <2>4. x \in Nat /\ a + 3 + x <= n
    BY <2>1, <2>3
  <2> QED  BY <2>2, <2>4
<1>12. PICK o \in Nat : o = a + 3
  OBVIOUS
<1>13. SubSeq(data, o + 1, o + len) \in Seq(Int) /\ Len(SubSeq(data, o + 1, o + len)) = len
  <2>1. o + len <= Len(data)
    BY <1>10, <1>11, <1>12
  <2> QED  BY <2>1, PartOf
<1>14. d.value = SubSeq(data, o + 1, o + len)
  <2>1. a + 4 = o + 1 /\ a + 3 + len = o + len
    BY <1>12
  <2> QED  BY <1>7, <1>10, <1>11, <2>1, Zenon
<1>15. d.value \in Seq(Int) /\ Len(d.value) = len
  BY <1>13, <1>14, Zenon
<1>16. d.ttl \in Int
  <2>1. a + 1 \in 1..n
    BY <1>11
  <2>2. a + 1 \in 1..Len(data)
    BY <1>10, <2>1, Zenon
  <2>3. data[a + 1] \in Int
    BY <2>2, ElementOfSeq
  <2> QED  BY <1>7, <1>10, <2>3, Zenon
<1>17. PICK lt \in Nat, lb \in Nat, lk \in Nat :
         lt = Len(g.token) /\ lb = Len(g.bucket) /\ lk = Len(g.key)
  BY <1>9, LenProperties DEF PartAt
<1>18. a = 3 + lt + lb + lk
  BY <1>2, <1>9, <1>10, <1>17
<1>19. 6 + lt + lb + lk + len <= n
  BY <1>11, <1>18
<1>20. 6 + Len(d.token) + Len(d.bucket) + Len(d.key) + Len(d.value) <= Len(data)
  BY <1>6, <1>10, <1>15, <1>17, <1>19
<1>21. d.token \in Seq(Int) /\ d.bucket \in Seq(Int) /\ PartAt(data, d.keyAt, d.key)
  BY <1>6, <1>9, Zenon
<1> QED  BY <1>15, <1>16, <1>20, <1>21

-----------------------------------------------------------------------------
(***************************************************************************)
(* Outcomes of a frame: what comes into the store, and what is answered.   *)
(***************************************************************************)
Refusal(id, o) == o.stored = stored /\ \E status \in Nat : o.reply = NewErrorFrame(id, status)

LEMMA ErrorStatus == \A err : handleServiceError(err) \in Nat
BY DEF handleServiceError, TcpErrors, StatusInvalidTTL, StatusNotFound, StatusKeyExpired,
       StatusUnauthorized, StatusInternalError

LEMMA HandleOutcome ==
  ASSUME NEW id, NEW d, NEW ttl, NEW results, NEW o \in Handle(id, d, ttl, results)
  PROVE  Refusal(id, o) \/ (d.ok /\ d.token # <<>> /\ d.token = d.bucket /\ o \in results)
<1>1. ASSUME NEW status \in Nat, o = Outcome(NewErrorFrame(id, status), stored)
      PROVE  Refusal(id, o)
  BY <1>1 DEF Outcome, Refusal
<1>2. StatusBadRequest \in Nat /\ StatusUnauthorized \in Nat
  BY DEF StatusBadRequest, StatusUnauthorized
<1>3. CASE ~d.ok
  <2>1. o = Outcome(NewErrorFrame(id, StatusBadRequest), stored)
    BY <1>3, Zenon DEF Handle
  <2> QED  BY <1>1, <1>2, <2>1
<1>4. CASE d.ok /\ ~ValidateToken(d.token, d.bucket)
  <2>1. o = Outcome(NewErrorFrame(id, StatusUnauthorized), stored)
    BY <1>4, Zenon DEF Handle
  <2> QED  BY <1>1, <1>2, <2>1
<1>5. CASE d.ok /\ ValidateToken(d.token, d.bucket) /\ ServiceError(d.bucket, ttl) # "nil"
  <2>1. o = Outcome(NewErrorFrame(id, handleServiceError(ServiceError(d.bucket, ttl))), stored)
    BY <1>5, Zenon DEF Handle
  <2> QED  BY <1>1, <2>1, ErrorStatus
<1>6. CASE d.ok /\ ValidateToken(d.token, d.bucket) /\ ServiceError(d.bucket, ttl) = "nil"
  <2>1. o \in results
    BY <1>6, Zenon DEF Handle
  <2> QED  BY <1>6, <2>1 DEF ValidateToken
<1> QED  BY <1>3, <1>4, <1>5, <1>6

\* An entry that a Set with the decoded payload d, lying at at, puts into the store.
NewEntry(e, d, at) ==
  /\ d.ok /\ d.token # <<>> /\ d.token = d.bucket
  /\ e.own = [arr |-> at.arr, off |-> at.off + d.keyAt, len |-> Len(d.key)]
  /\ e.key = d.key /\ e.value = d.value /\ e.ttl = d.ttl
  /\ e.at = e.own \/ \E x \in stored : e.at = x.at /\ KeyOf(x) = d.key

\* The answer to a Get that finds entry e.
Hit(id, e) ==
  NewResponseFrame(id, StatusOK, EncodeValueResponse(OwnKeyOf(e), e.ttl, 0, 0, e.singleRead, e.value))

LEMMA SetOutcome ==
  ASSUME NEW id, NEW d, NEW at, NEW o \in handleSet(id, d, at)
  PROVE  \/ Refusal(id, o)
         \/ /\ o.reply = NewResponseFrame(id, StatusCreated, <<>>)
            /\ \A e \in o.stored : e \in stored \/ NewEntry(e, d, at)
<1> DEFINE own == [arr |-> at.arr, off |-> at.off + d.keyAt, len |-> Len(d.key)]
           entry(a) == [bucket |-> d.bucket, at |-> a, own |-> own, key |-> d.key,
                        ttl |-> d.ttl, singleRead |-> d.singleRead, value |-> d.value]
           places == IF Found(d) = {} THEN {own} ELSE {e.at : e \in Found(d)}
           created == Outcome(NewResponseFrame(id, StatusCreated, <<>>),
                              (stored \ Found(d)) \cup {entry(a) : a \in places})
<1>1. o \in Handle(id, d, d.ttl, {created})
  BY DEF handleSet
<1>2. Refusal(id, o) \/ (d.ok /\ d.token # <<>> /\ d.token = d.bucket /\ o = created)
  <2> HIDE DEF created
  <2> QED  BY <1>1, HandleOutcome
<1>3. CASE d.ok /\ d.token # <<>> /\ d.token = d.bucket /\ o = created
  <2>1. /\ o.reply = NewResponseFrame(id, StatusCreated, <<>>)
        /\ o.stored = (stored \ Found(d)) \cup {entry(a) : a \in places}
    BY <1>3 DEF Outcome
  <2>2. \A a \in places : a = own \/ \E x \in stored : a = x.at /\ KeyOf(x) = d.key
    BY DEF Found
  <2>3. ASSUME NEW a \in places PROVE NewEntry(entry(a), d, at)
    <3>1. entry(a).own = own /\ entry(a).key = d.key /\ entry(a).value = d.value
          /\ entry(a).ttl = d.ttl /\ entry(a).at = a
      OBVIOUS
    <3>2. a = own \/ \E x \in stored : a = x.at /\ KeyOf(x) = d.key
      BY <2>2
    <3> HIDE DEF entry
    <3> QED  BY <1>3, <3>1, <3>2 DEF NewEntry
  <2> HIDE DEF entry, places
  <2> QED  BY <2>1, <2>3
<1> QED  BY <1>2, <1>3

LEMMA GetOutcome ==
  ASSUME NEW id, NEW d, NEW o \in handleGet(id, d)
  PROVE  Refusal(id, o) \/ (o.stored = stored /\ \E e \in stored : o.reply = Hit(id, e))
<1> DEFINE miss == Outcome(NewErrorFrame(id, handleServiceError("ErrKeyNotFound")), stored)
           hit(e) == Outcome(Hit(id, e), stored)
           mayMiss == \A e \in Found(d) : e.singleRead \/ e.ttl > 0
           results == {hit(e) : e \in Found(d)} \cup (IF mayMiss THEN {miss} ELSE {})
<1>1. o \in Handle(id, d, 0, results)
  BY Zenon DEF handleGet, Hit
<1>2. Refusal(id, o) \/ o \in results
  <2> HIDE DEF results
  <2> QED  BY <1>1, HandleOutcome
<1>3. CASE o = miss
  BY <1>3, ErrorStatus DEF Refusal, Outcome
<1>4. CASE \E e \in Found(d) : o = hit(e)
  BY <1>4 DEF Found, Outcome
<1>5. o \in results => o = miss \/ \E e \in Found(d) : o = hit(e)
  BY Zenon
<1> QED  BY <1>2, <1>3, <1>4, <1>5

LEMMA DeleteOutcome ==
  ASSUME NEW id, NEW d, NEW o \in handleDelete(id, d)
  PROVE  Refusal(id, o) \/ (o.stored \subseteq stored /\ o.reply = NewResponseFrame(id, StatusNoContent, <<>>))
<1>1. Refusal(id, o) \/ o = Outcome(NewResponseFrame(id, StatusNoContent, <<>>), stored \ Found(d))
  <2>1. PICK x : x = Outcome(NewResponseFrame(id, StatusNoContent, <<>>), stored \ Found(d))
    OBVIOUS
  <2>2. o \in Handle(id, d, 0, {x})
    BY <2>1 DEF handleDelete
  <2>3. Refusal(id, o) \/ o \in {x}
    BY <2>2, HandleOutcome
  <2> QED  BY <2>1, <2>3
<1>2. CASE o = Outcome(NewResponseFrame(id, StatusNoContent, <<>>), stored \ Found(d))
  BY <1>2 DEF Outcome
<1> QED  BY <1>1, <1>2

\* What a frame may put into the store.
LEMMA FrameStores ==
  ASSUME NEW f, NEW at, NEW o \in HandleFrame(f, at), NEW e \in o.stored
  PROVE  e \in stored \/ \E d : IsSet(f.payload, d) /\ NewEntry(e, d, at)
<1>1. CASE o \in handleSet(f.id, DecodeSetPayload(f.payload), at)
  BY <1>1, SetOutcome DEF IsSet, Refusal
<1>2. CASE o \in handleGet(f.id, DecodeGetPayload(f.payload))
  BY <1>2, GetOutcome DEF Refusal
<1>3. CASE o \in handleDelete(f.id, DecodeGetPayload(f.payload))
  BY <1>3, DeleteOutcome DEF Refusal
<1>4. CASE o = Outcome(NewErrorFrame(f.id, StatusBadRequest), stored)
  BY <1>4 DEF Outcome
<1> QED  BY <1>1, <1>2, <1>3, <1>4 DEF HandleFrame

\* What a frame may be answered.
LEMMA FrameAnswers ==
  ASSUME NEW f, NEW at, NEW o \in HandleFrame(f, at)
  PROVE  \/ \E status \in Nat : o.reply = NewErrorFrame(f.id, status)
         \/ \E status \in Nat : o.reply = NewResponseFrame(f.id, status, <<>>)
         \/ \E e \in stored : o.reply = Hit(f.id, e)
<1>1. CASE o \in handleSet(f.id, DecodeSetPayload(f.payload), at)
  <2>1. StatusCreated \in Nat
    BY DEF StatusCreated
  <2> QED  BY <1>1, <2>1, SetOutcome DEF Refusal
<1>2. CASE o \in handleGet(f.id, DecodeGetPayload(f.payload))
  BY <1>2, GetOutcome DEF Refusal
<1>3. CASE o \in handleDelete(f.id, DecodeGetPayload(f.payload))
  <2>1. StatusNoContent \in Nat
    BY DEF StatusNoContent
  <2> QED  BY <1>3, <2>1, DeleteOutcome DEF Refusal
<1>4. CASE o = Outcome(NewErrorFrame(f.id, StatusBadRequest), stored)
  <2>1. StatusBadRequest \in Nat
    BY DEF StatusBadRequest
  <2> QED  BY <1>4, <2>1 DEF Outcome
<1> QED  BY <1>1, <1>2, <1>3, <1>4 DEF HandleFrame

-----------------------------------------------------------------------------
(***************************************************************************)
(* Keys in the store.  A key lies in cells no buffer will be appended over *)
(* again: behind the mark of every buffer and pool slice of its array.     *)
(***************************************************************************)

\* How far connection c has used its buffer: up to the end of the frame it is executing.
Mark(c) == IF conn[c] = "write" THEN buf[c].off + FrameLen(c) ELSE buf[c].off

Behind(s) ==
  /\ \A c \in Conns : IsOpen(c) /\ buf[c].arr = s.arr => s.off + s.len <= Mark(c)
  /\ \A p \in pool : p.arr = s.arr => s.off + s.len <= p.off

Settled(s, key) == s \in Slice /\ Fits(s) /\ key \in Seq(Int) /\ Cells(s) = key /\ Behind(s)

Answered == \A c \in Conns : why[c] # "write"

\* An entry fits the payload it came in, with its token and its bucket.
EntryOk(e) ==
  /\ e.own \in Slice /\ Fits(e.own)
  /\ e.value \in Seq(Int) /\ e.ttl \in Int
  /\ 8 + e.own.len + Len(e.value) <= MaxPayloadSize

KeysInv ==
  /\ \A c \in Conns : conn[c] # "closed" => why[c] = "open"
  /\ \A e \in stored : EntryOk(e)
  /\ Answered => \A e \in stored : Settled(e.at, e.key) /\ Settled(e.own, e.key)

KInv == CInv /\ KeysInv

\* Arrays keep their sizes.
Grows ==
  /\ mem' \in Seq(Seq(Int))
  /\ \A a \in DOMAIN mem : a \in DOMAIN mem' /\ Len(mem'[a]) = Len(mem[a])

\* Steps only move marks forward, hand buffers over at their mark, and write behind no mark.
Forward ==
  /\ Grows
  /\ \A a \in DOMAIN mem : \A i \in DOMAIN mem[a] :
       mem'[a][i] = mem[a][i] \/ \E c \in Conns : IsOpen(c) /\ buf[c].arr = a /\ i > Mark(c)
  /\ \A c \in Conns : IsOpen(c)' /\ buf'[c].arr \in DOMAIN mem =>
       \/ IsOpen(c) /\ buf[c].arr = buf'[c].arr /\ Mark(c) <= Mark(c)'
       \/ \E p \in pool : p.arr = buf'[c].arr /\ p.off <= Mark(c)'
  /\ \A p \in pool' : p \in pool \/ \E c \in Conns : IsOpen(c) /\ buf[c].arr = p.arr /\ Mark(c) <= p.off

LEMMA MarkType == ASSUME CInv, NEW c \in Conns, IsOpen(c) PROVE Mark(c) \in Nat /\ buf[c].off <= Mark(c)
<1>1. BufTypes /\ buf[c] \in Slice /\ Fits(buf[c]) /\ buf[c].off \in Nat
  BY OpenRest DEF CInv, IInv, BufInv, Slice
<1>2. CASE conn[c] = "write"
  <2>1. buf[c].len >= HeaderSize /\ HeaderSize <= FrameLen(c)
    BY <1>2 DEF CInv, IInv, BufInv, FrontInv
  <2>2. FrameLen(c) \in Int
    BY <1>1, <2>1, FrameLenOf
  <2> QED  BY <1>1, <1>2, <2>1, <2>2 DEF Mark, HeaderSize
<1>3. CASE conn[c] # "write"
  BY <1>1, <1>3 DEF Mark
<1> QED  BY <1>2, <1>3

LEMMA MarkTypeNext == ASSUME CInv', NEW c \in Conns, IsOpen(c)' PROVE Mark(c)' \in Nat /\ buf'[c].off <= Mark(c)'
<1>1. BufTypes' /\ buf'[c] \in Slice /\ Fits(buf[c])' /\ buf'[c].off \in Nat
  BY OpenRestNext DEF CInv, IInv, BufInv, Slice
<1>2. CASE conn'[c] = "write"
  <2>1. buf'[c].len >= HeaderSize /\ HeaderSize <= FrameLen(c)'
    BY <1>2 DEF CInv, IInv, BufInv, FrontInv
  <2>2. FrameLen(c)' \in Int
    <3>1. mem' \in Seq(Seq(Int))
      BY <1>1 DEF BufTypes
    <3>2. PICK cells \in Seq(Int) : cells = Cells(buf[c])' /\ Len(cells) = buf'[c].len
      BY <1>1, <3>1, CellsOfNext
    <3>3. 1 \in 1..Len(cells)
      BY <1>1, <2>1, <3>2 DEF HeaderSize, Slice
    <3> QED  BY <3>2, <3>3, ElementOfSeq DEF FrameLen
  <2> QED  BY <1>1, <1>2, <2>1, <2>2 DEF Mark, HeaderSize
<1>3. CASE conn'[c] # "write"
  BY <1>1, <1>3 DEF Mark
<1> QED  BY <1>2, <1>3

\* Slices stay inside their arrays.
LEMMA FitsKept == ASSUME Grows, NEW s \in Slice, Fits(s) PROVE Fits(s)'
<1>1. s.arr \in DOMAIN mem' /\ Len(mem'[s.arr]) = Len(mem[s.arr])
  BY DEF Grows, Fits
<1> QED  BY <1>1 DEF Fits

LEMMA SettledKept ==
  ASSUME CInv, CInv', Forward, NEW s, NEW key, Settled(s, key)
  PROVE  Settled(s, key)'
<1>1. PICK arr \in Nat, off \in Nat, len \in Nat : s.arr = arr /\ s.off = off /\ s.len = len
  BY DEF Settled, Slice
<1>2. mem \in Seq(Seq(Int)) /\ mem' \in Seq(Seq(Int)) /\ s \in Slice /\ Fits(s) /\ Fits(s)'
  BY FitsKept DEF CInv, IInv, BufInv, BufTypes, Forward, Grows, Settled
<1>3. arr \in DOMAIN mem /\ arr \in DOMAIN mem' /\ Len(mem'[arr]) = Len(mem[arr]) /\ off + len <= Len(mem[arr])
  BY <1>1, <1>2 DEF Fits, Forward, Grows
<1>4. PICK a1 \in Seq(Int), a2 \in Seq(Int) : a1 = mem[arr] /\ a2 = mem'[arr]
  BY <1>2, <1>3, ElementOfSeq, LenProperties
<1>5. PICK n \in Nat : n = Len(a1) /\ Len(a2) = n /\ off + len <= n
  BY <1>3, <1>4, LenProperties
<1>6. ASSUME NEW i \in 1..(off + len) PROVE a2[i] = a1[i]
  <2>1. i \in DOMAIN mem[arr]
    <3>1. i \in 1..Len(a1)
      BY <1>5
    <3> QED  BY <1>4, <3>1, LenProperties
  <2>2. mem'[arr][i] = mem[arr][i] \/ \E c \in Conns : IsOpen(c) /\ buf[c].arr = arr /\ i > Mark(c)
    BY <1>3, <2>1 DEF Forward
  <2>3. ASSUME NEW c \in Conns, IsOpen(c), buf[c].arr = arr PROVE ~(i > Mark(c))
    <3>1. off + len <= Mark(c) /\ Mark(c) \in Nat
      BY <1>1, <2>3, MarkType DEF Settled, Behind
    <3> QED  BY <3>1
  <2> QED  BY <1>4, <2>2, <2>3
<1>7. Cells(s)' = Cells(s)
  <2>1. PICK c1 \in Seq(Int), c2 \in Seq(Int) :
           c1 = SubSeq(a1, off + 1, off + len) /\ c2 = SubSeq(a2, off + 1, off + len)
    BY <1>5, PartOf
  <2>2. Len(c1) = len /\ Len(c2) = len
    BY <1>5, <2>1, PartOf
  <2>3. ASSUME NEW i \in 1..len PROVE c1[i] = c2[i]
    <3>1. c1[i] = a1[off + i]
      <4>1. \A j \in 1..len : SubSeq(a1, off + 1, off + len)[j] = a1[off + j]
        BY <1>5, PartOf
      <4> QED  BY <2>1, <4>1, Zenon
    <3>2. c2[i] = a2[off + i]
      <4>1. \A j \in 1..len : SubSeq(a2, off + 1, off + len)[j] = a2[off + j]
        BY <1>5, PartOf
      <4> QED  BY <2>1, <4>1, Zenon
    <3>3. off + i \in 1..(off + len)
      OBVIOUS
    <3> QED  BY <1>6, <3>1, <3>2, <3>3
  <2>4. c1 = c2
    BY <2>2, <2>3, SeqEqual
  <2>5. Cells(s) = c1 /\ Cells(s)' = c2
    BY <1>1, <1>4, <2>1 DEF Cells
  <2> QED  BY <2>4, <2>5
<1>8. Behind(s)'
  <2>1. ASSUME NEW c \in Conns, IsOpen(c)', buf'[c].arr = arr PROVE off + len <= Mark(c)'
    <3>1. Mark(c)' \in Nat
      BY <2>1, MarkTypeNext
    <3>2. CASE IsOpen(c) /\ buf[c].arr = arr /\ Mark(c) <= Mark(c)'
      <4>1. off + len <= Mark(c) /\ Mark(c) \in Nat
        BY <1>1, <3>2, MarkType DEF Settled, Behind
      <4> QED  BY <3>1, <3>2, <4>1
    <3>3. ASSUME NEW p \in pool, p.arr = arr, p.off <= Mark(c)' PROVE off + len <= Mark(c)'
      <4>1. off + len <= p.off /\ p.off \in Nat
        BY <1>1, <3>3 DEF Settled, Behind, CInv, IInv, BufInv, BufTypes, Slice
      <4> QED  BY <3>1, <3>3, <4>1
    <3> QED  BY <1>3, <2>1, <3>2, <3>3 DEF Forward
  <2>2. ASSUME NEW p \in pool', p.arr = arr PROVE off + len <= p.off
    <3>1. CASE p \in pool
      BY <1>1, <2>2, <3>1 DEF Settled, Behind
    <3>2. ASSUME NEW c \in Conns, IsOpen(c), buf[c].arr = arr, Mark(c) <= p.off PROVE off + len <= p.off
      <4>1. off + len <= Mark(c) /\ Mark(c) \in Nat
        BY <1>1, <3>2, MarkType DEF Settled, Behind
      <4>2. p.off \in Nat
        BY DEF CInv, IInv, BufInv, BufTypes, Slice
      <4> QED  BY <3>2, <4>1, <4>2
    <3> QED  BY <2>2, <3>1, <3>2 DEF Forward
  <2> QED  BY <1>1, <2>1, <2>2 DEF Behind
<1> QED  BY <1>2, <1>7, <1>8 DEF Settled

LEMMA MarkSame ==
  ASSUME CInv, NEW d \in Conns, IsOpen(d), conn'[d] = conn[d], buf'[d] = buf[d],
         mem'[buf[d].arr] = mem[buf[d].arr]
  PROVE  Mark(d)' = Mark(d) /\ Mark(d) \in Nat
<1>1. Mark(d)' = Mark(d)
  BY DEF Mark, FrameLen, Cells
<1> QED  BY <1>1, MarkType

LEMMA QuietForward ==
  ASSUME CInv, UNCHANGED <<conn, buf, mem, pool>>
  PROVE  Forward
<1>1. \A c \in Conns : (IsOpen(c)' <=> IsOpen(c)) /\ Mark(c)' = Mark(c)
  BY DEF IsOpen, Mark, FrameLen, Cells
<1>2. \A c \in Conns : IsOpen(c) => Mark(c) \in Nat
  BY MarkType
<1>3. Grows
  BY DEF Grows, CInv, IInv, BufInv, BufTypes
<1>4. \A c \in Conns : IsOpen(c) => Mark(c) <= Mark(c)'
  BY <1>1, <1>2
<1> QED  BY <1>1, <1>3, <1>4 DEF Forward

\* A step of connection c that gives nothing to the pool and writes only after its mark.
LEMMA MoveForward ==
  ASSUME CInv, Grows, NEW c \in Conns, Untouched(c), pool' = pool, IsOpen(c), IsOpen(c)',
         \A a \in DOMAIN mem : \A i \in DOMAIN mem[a] :
           mem'[a][i] = mem[a][i] \/ (a = buf[c].arr /\ i > Mark(c)),
         buf'[c].arr \in DOMAIN mem => buf'[c].arr = buf[c].arr /\ Mark(c) <= Mark(c)'
  PROVE  Forward
<1>1. \A a \in DOMAIN mem : \A i \in DOMAIN mem[a] :
        mem'[a][i] = mem[a][i] \/ \E d \in Conns : IsOpen(d) /\ buf[d].arr = a /\ i > Mark(d)
  OBVIOUS
<1>2. ASSUME NEW d \in Conns, IsOpen(d)', buf'[d].arr \in DOMAIN mem
      PROVE  IsOpen(d) /\ buf[d].arr = buf'[d].arr /\ Mark(d) <= Mark(d)'
  <2>1. CASE d = c
    BY <1>2, <2>1
  <2>2. CASE d # c
    <3>1. conn'[d] = conn[d] /\ IsOpen(d)
      BY <1>2, <2>2 DEF Untouched, IsOpen
    <3>2. buf'[d] = buf[d] /\ mem'[buf[d].arr] = mem[buf[d].arr]
      BY <2>2, <3>1 DEF Untouched
    <3>3. Mark(d)' = Mark(d) /\ Mark(d) \in Nat
      BY <3>1, <3>2, MarkSame
    <3> QED  BY <3>1, <3>2, <3>3
  <2> QED  BY <2>1, <2>2
<1> QED  BY <1>1, <1>2 DEF Forward

LEMMA ReadForward ==
  ASSUME CInv, CInv', NEW c \in Conns, Read(c)
  PROVE  Forward /\ UNCHANGED <<stored, why>>
<1>1. BufInv /\ BufTypes /\ conn \in [Conns -> ConnStates] /\ Untouched(c)
  BY ConnLocal DEF CInv, IInv, BufInv, LifeInv, ServerTypes, ConnStep
<1>2. PICK n \in Nat :
         /\ 0 < n /\ n <= Len(stream[c])
         /\ AppendTo(c, SubSeq(stream[c], 1, n))
         /\ conn' = [conn EXCEPT ![c] = "parse"]
         /\ UNCHANGED <<pool, stored, why>>
  BY <1>1, ReadAppends
<1>3. conn[c] = "read" /\ IsOpen(c) /\ conn'[c] = "parse" /\ IsOpen(c)' /\ Fits(buf[c])
  BY <1>1, <1>2, OpenRest DEF Read, IsOpen
<1>4. PICK data \in Seq(Int) : AppendTo(c, data)
  BY <1>1, <1>2, StreamParts
<1>5. /\ mem' \in Seq(Seq(Int))
      /\ \A a \in DOMAIN mem : a \in DOMAIN mem' /\ Len(mem'[a]) = Len(mem[a])
      /\ \A a \in DOMAIN mem : \A i \in DOMAIN mem[a] :
           (a # buf[c].arr \/ i <= buf[c].off + buf[c].len) => mem'[a][i] = mem[a][i]
      /\ \/ buf'[c].arr = buf[c].arr /\ buf'[c].off = buf[c].off
         \/ buf'[c].arr = Len(mem) + 1
  BY <1>1, <1>3, <1>4, AppendFacts
<1>6. Grows
  BY <1>5 DEF Grows
<1>7. Mark(c) = buf[c].off /\ Mark(c)' = buf'[c].off
  BY <1>3 DEF Mark
<1>8. PICK off \in Nat, len \in Nat : off = buf[c].off /\ len = buf[c].len
  BY <1>3, OpenRest DEF Slice
<1>9. ASSUME NEW a \in DOMAIN mem, NEW i \in DOMAIN mem[a]
      PROVE  mem'[a][i] = mem[a][i] \/ (a = buf[c].arr /\ i > Mark(c))
  <2>1. i \in Nat
    <3>1. mem \in Seq(Seq(Int))
      BY <1>1 DEF BufTypes
    <3>2. mem[a] \in Seq(Int)
      BY <3>1, ElementOfSeq, LenProperties
    <3> QED  BY <3>2, LenProperties
  <2>2. CASE i <= off + len
    BY <1>5, <1>8, <2>2
  <2>3. CASE ~(i <= off + len)
    <3>1. i > off
      BY <2>1, <2>3
    <3> QED  BY <1>5, <1>7, <1>8, <3>1
  <2> QED  BY <2>2, <2>3
<1>10. buf'[c].arr \in DOMAIN mem => buf'[c].arr = buf[c].arr /\ Mark(c) <= Mark(c)'
  <2>1. Len(mem) + 1 \notin DOMAIN mem
    BY <1>1, LenProperties DEF BufTypes
  <2> QED  BY <1>5, <1>7, <1>8, <2>1
<1> QED  BY <1>1, <1>2, <1>3, <1>6, <1>9, <1>10, MoveForward

LEMMA ReturnForward ==
  ASSUME CInv, CInv', NEW c \in Conns, NEW reason, Return(c, reason), IsOpen(c), conn[c] # "write"
  PROVE  Forward
<1>1. /\ conn' = [conn EXCEPT ![c] = "closed"]
      /\ pool' = pool \cup {[buf[c] EXCEPT !.len = 0]}
      /\ buf' = [buf EXCEPT ![c] = NoSlice] /\ mem' = mem
  BY DEF Return, Give
<1>2. conn \in [Conns -> ConnStates] /\ BufTypes
  BY DEF CInv, IInv, LifeInv, ServerTypes, BufInv
<1>3. Grows
  BY <1>1, <1>2 DEF Grows, BufTypes
<1>4. ASSUME NEW d \in Conns, IsOpen(d)' PROVE IsOpen(d) /\ buf[d].arr = buf'[d].arr /\ Mark(d) <= Mark(d)'
  <2>1. d # c
    BY <1>1, <1>2, <1>4 DEF IsOpen
  <2>2. conn'[d] = conn[d] /\ buf'[d] = buf[d] /\ IsOpen(d)
    BY <1>1, <1>2, <1>4, <2>1 DEF IsOpen, BufTypes
  <2>3. Mark(d)' = Mark(d) /\ Mark(d) \in Nat
    BY <1>1, <2>2, MarkSame
  <2> QED  BY <2>2, <2>3
<1>5. ASSUME NEW p \in pool', p \notin pool
      PROVE  IsOpen(c) /\ buf[c].arr = p.arr /\ Mark(c) <= p.off
  <2>1. p = [buf[c] EXCEPT !.len = 0]
    BY <1>1, <1>5
  <2>2. p.arr = buf[c].arr /\ p.off = buf[c].off /\ buf[c].off \in Nat
    BY <1>2, <2>1 DEF BufTypes, Slice
  <2> QED  BY <2>2 DEF Mark
<1> QED  BY <1>1, <1>3, <1>4, <1>5 DEF Forward

LEMMA BeginForward ==
  ASSUME CInv, CInv', NEW c \in Conns, Serve(c)
  PROVE  Forward
<1>1. /\ conn[c] = "accepted" /\ conn' = [conn EXCEPT ![c] = "read"]
      /\ \/ \E s \in pool : /\ buf' = [buf EXCEPT ![c] = s]
                            /\ pool' = pool \ {s}
                            /\ UNCHANGED mem
         \/ /\ mem' = Append(mem, Zeros(readerBufSize))
            /\ buf' = [buf EXCEPT ![c] = [arr |-> Len(mem) + 1, off |-> 0, len |-> 0]]
            /\ UNCHANGED pool
  BY DEF Serve, handleConn
<1>2. conn \in [Conns -> ConnStates] /\ BufTypes /\ Untouched(c) /\ mem \in Seq(Seq(Int))
  BY PeerLocal DEF CInv, IInv, LifeInv, ServerTypes, BufInv, BufTypes
<1>3. Zeros(readerBufSize) \in Seq(Int)
  BY ZeroCells, ConnAssumption
<1>4. \A a \in DOMAIN mem : a \in DOMAIN mem' /\ mem'[a] = mem[a]
  <2>1. CASE mem' = mem
    BY <2>1
  <2>2. CASE mem' = Append(mem, Zeros(readerBufSize))
    <3>1. PICK m \in Seq(Seq(Int)) : m = mem'
      BY <1>2, <1>3, <2>2, AppendProperties
    <3>2. Len(m) = Len(mem) + 1 /\ \A a \in 1..Len(mem) : m[a] = mem[a]
      BY <1>2, <1>3, <2>2, <3>1, AppendProperties
    <3>3. DOMAIN mem = 1..Len(mem) /\ DOMAIN m = 1..Len(m) /\ Len(mem) \in Nat
      BY <1>2, LenProperties
    <3> QED  BY <3>1, <3>2, <3>3
  <2> QED  BY <1>1, <2>1, <2>2
<1>5. Grows
  <2>1. mem' \in Seq(Seq(Int))
    BY DEF CInv, IInv, BufInv, BufTypes
  <2> QED  BY <1>4, <2>1 DEF Grows
<1>6. conn'[c] = "read" /\ Mark(c)' = buf'[c].off /\ IsOpen(c)'
  BY <1>1, <1>2 DEF Mark, IsOpen
<1>7. buf'[c].arr \in DOMAIN mem => \E p \in pool : p.arr = buf'[c].arr /\ p.off <= Mark(c)'
  <2>1. ASSUME NEW s \in pool, buf' = [buf EXCEPT ![c] = s]
        PROVE  \E p \in pool : p.arr = buf'[c].arr /\ p.off <= Mark(c)'
    <3>1. buf'[c] = s /\ s.off \in Nat
      BY <1>2, <2>1 DEF BufTypes, Slice
    <3> QED  BY <1>6, <3>1
  <2>2. CASE buf' = [buf EXCEPT ![c] = [arr |-> Len(mem) + 1, off |-> 0, len |-> 0]]
    <3>1. buf'[c].arr = Len(mem) + 1
      BY <1>2, <2>2 DEF BufTypes
    <3> QED  BY <1>2, <3>1, LenProperties
  <2> QED  BY <1>1, <2>1, <2>2
<1>8. ASSUME NEW d \in Conns, IsOpen(d)', d # c
      PROVE  IsOpen(d) /\ buf[d].arr = buf'[d].arr /\ Mark(d) <= Mark(d)'
  <2>1. conn'[d] = conn[d] /\ IsOpen(d)
    BY <1>2, <1>8 DEF Untouched, IsOpen
  <2>2. buf'[d] = buf[d] /\ mem'[buf[d].arr] = mem[buf[d].arr]
    BY <1>2, <1>8, <2>1 DEF Untouched
  <2>3. Mark(d)' = Mark(d) /\ Mark(d) \in Nat
    BY <2>1, <2>2, MarkSame
  <2> QED  BY <2>1, <2>2, <2>3
<1>9. pool' \subseteq pool
  BY <1>1
<1> QED  BY <1>4, <1>5, <1>7, <1>8, <1>9 DEF Forward

LEMMA StayForward ==
  ASSUME CInv, NEW c \in Conns, NeedMore(c) \/ Panic(c)
  PROVE  Forward /\ UNCHANGED <<stored, why>>
<1>1. /\ conn[c] = "parse" /\ conn'[c] \in {"read", "parse"}
      /\ UNCHANGED <<buf, mem, pool, stored, why>>
  BY DEF NeedMore, Panic, dataVars, CInv, IInv, LifeInv, ServerTypes
<1>2. Untouched(c) /\ IsOpen(c) /\ IsOpen(c)'
  BY <1>1, ConnLocal DEF ConnStep, IsOpen
<1>3. Mark(c)' = Mark(c) /\ Mark(c) \in Nat
  BY <1>1, <1>2, MarkType DEF Mark
<1>4. Grows
  BY <1>1 DEF Grows, CInv, IInv, BufInv, BufTypes
<1> QED  BY <1>1, <1>2, <1>3, <1>4, MoveForward

LEMMA HandleForward ==
  ASSUME CInv, NEW c \in Conns, HandleNext(c)
  PROVE  /\ Forward /\ UNCHANGED <<mem, buf, pool, why>>
         /\ IsOpen(c) /\ conn'[c] = "write" /\ Mark(c)' = buf[c].off + FrameLen(c)
<1>1. /\ conn[c] = "parse" /\ ~Incomplete(c) /\ FrameLen(c) >= HeaderSize
      /\ conn'[c] = "write" /\ UNCHANGED <<buf, mem, pool, why>>
  BY DEF HandleNext, CInv, IInv, LifeInv, ServerTypes
<1>2. Untouched(c) /\ IsOpen(c) /\ IsOpen(c)' /\ IInv
  BY <1>1, ConnLocal DEF ConnStep, IsOpen, CInv
<1>3. FrameLen(c)' = FrameLen(c)
  BY <1>1 DEF FrameLen, Cells
<1>4. Mark(c)' = buf[c].off + FrameLen(c) /\ Mark(c) = buf[c].off
  BY <1>1, <1>3 DEF Mark
<1>5. PICK off \in Nat, fl \in Int : off = buf[c].off /\ fl = FrameLen(c) /\ fl >= HeaderSize
  <2>1. buf[c].off \in Nat /\ buf[c].len \in Nat
    BY <1>2, OpenRest DEF Slice
  <2>2. FrameLen(c) \in HeaderSize..buf[c].len
    BY <1>1, <1>2, FrontFrameFacts
  <2>3. FrameLen(c) \in Int
    BY <2>1, <2>2 DEF HeaderSize
  <2> QED  BY <1>1, <2>1, <2>3
<1>6. Mark(c) <= Mark(c)'
  BY <1>4, <1>5 DEF HeaderSize
<1>7. Grows
  BY <1>1 DEF Grows, CInv, IInv, BufInv, BufTypes
<1>8. Forward
  BY <1>1, <1>2, <1>6, <1>7, MoveForward
<1> QED  BY <1>1, <1>2, <1>4, <1>8

LEMMA WriteForward ==
  ASSUME CInv, CInv', NEW c \in Conns, Write(c)
  PROVE  Forward /\ UNCHANGED <<stored, why>>
<1>1. /\ conn[c] = "write" /\ conn'[c] \in {"read", "parse"}
      /\ buf' = [buf EXCEPT ![c] = Advanced(c)] /\ UNCHANGED <<mem, pool, stored, why>>
  BY DEF Write, dataVars, CInv, IInv, LifeInv, ServerTypes
<1>2. Untouched(c) /\ IsOpen(c) /\ IsOpen(c)'
  BY <1>1, ConnLocal DEF ConnStep, IsOpen
<1>3. buf'[c] = Advanced(c)
  BY <1>1 DEF CInv, IInv, BufInv, BufTypes
<1>4. buf'[c].arr = buf[c].arr /\ buf'[c].off = buf[c].off + FrameLen(c)
  BY <1>3 DEF Advanced
<1>5. Mark(c)' = Mark(c) /\ Mark(c) \in Nat
  BY <1>1, <1>2, <1>4, MarkType DEF Mark
<1>6. Grows
  BY <1>1 DEF Grows, CInv, IInv, BufInv, BufTypes
<1> QED  BY <1>1, <1>2, <1>4, <1>5, <1>6, MoveForward

\* The key of a Set, as it lies in the buffer.
LEMMA NewKey ==
  ASSUME KInv, CInv', NEW c \in Conns, HandleNext(c),
         NEW d, IsSet(FrontFrame(c).payload, d), NEW e,
         NewEntry(e, d, [arr |-> buf[c].arr, off |-> buf[c].off + HeaderSize])
  PROVE  /\ EntryOk(e)'
         /\ Settled(e.own, e.key)'
         /\ Answered => Settled(e.at, e.key)'
<1>1. CInv /\ IInv /\ conn[c] = "parse" /\ ~Incomplete(c) /\ ~Oversized(c) /\ FrameLen(c) >= HeaderSize
  BY DEF KInv, CInv, HandleNext
<1>2. /\ Forward /\ UNCHANGED <<mem, buf, pool, why>>
      /\ IsOpen(c) /\ conn'[c] = "write" /\ Mark(c)' = buf[c].off + FrameLen(c)
  BY <1>1, HandleForward
<1>3. PICK arr \in Nat, off \in Nat, len \in Nat : buf[c].arr = arr /\ buf[c].off = off /\ buf[c].len = len
  BY <1>1, <1>2, OpenRest DEF Slice
<1>4. PICK fl \in Nat : fl = FrameLen(c) /\ 3 <= fl /\ fl <= len
  <2>1. FrameLen(c) \in HeaderSize..len
    BY <1>1, <1>3, FrontFrameFacts
  <2>2. FrameLen(c) \in Nat /\ 3 <= FrameLen(c) /\ FrameLen(c) <= len
    BY <2>1 DEF HeaderSize
  <2> QED  BY <2>2
<1>5. fl - 3 <= MaxPayloadSize
  <2>1. ~(len >= 3 /\ fl > 3 + MaxPayloadSize) /\ MaxPayloadSize \in Nat
    BY <1>1, <1>3, <1>4, CodecAssumption DEF Oversized, HeaderSize
  <2> QED  BY <1>4, <2>1
<1>6. PICK payload \in Seq(Int) : payload = FrontFrame(c).payload
  BY <1>1, FrontFrameFacts DEF Frame
<1>7. Len(payload) = fl - 3 /\ \A j \in 1..(fl - 3) : payload[j] = mem[arr][off + 3 + j]
  <2>1. PICK cells \in Seq(Int) : cells = Cells(buf[c])
    BY <1>1, FrontFrameFacts
  <2>2. Len(payload) = fl - 3 /\ \A j \in 1..(fl - 3) : payload[j] = cells[3 + j]
    BY <1>1, <1>4, <1>6, <2>1, FrontFrameFacts DEF HeaderSize
  <2>3. \A i \in 1..len : cells[i] = mem[arr][off + i]
    BY <1>1, <1>2, <1>3, <2>1, OpenRest, CellsOf
  <2>4. ASSUME NEW j \in 1..(fl - 3) PROVE payload[j] = mem[arr][off + 3 + j]
    <3>1. 3 + j \in 1..len /\ off + (3 + j) = off + 3 + j
      BY <1>4
    <3>2. cells[3 + j] = mem[arr][off + (3 + j)]
      BY <2>3, <3>1
    <3> QED  BY <2>2, <3>1, <3>2, Zenon
  <2> QED  BY <2>2, <2>4
<1>8. d.ok /\ IsSet(payload, d)
  BY <1>6 DEF NewEntry
<1>9. /\ d.token \in Seq(Int) /\ d.bucket \in Seq(Int) /\ d.value \in Seq(Int) /\ d.ttl \in Int
      /\ PartAt(payload, d.keyAt, d.key)
      /\ 6 + Len(d.token) + Len(d.bucket) + Len(d.key) + Len(d.value) <= Len(payload)
  BY <1>8, DecodeSetFacts
<1>10. PICK key \in Seq(Int), ka \in Nat, lk \in Nat : key = d.key /\ ka = d.keyAt /\ lk = Len(key)
  BY <1>9, LenProperties DEF PartAt
<1>11. ka + lk <= fl - 3 /\ \A j \in 1..lk : key[j] = payload[ka + j]
  BY <1>7, <1>9, <1>10 DEF PartAt
<1>12. PICK at \in Nat : at = off + 3 + ka
  OBVIOUS
<1>13. PICK own \in Slice : own = [arr |-> arr, off |-> at, len |-> lk]
  BY DEF Slice
<1>14. own.arr = arr /\ own.off = at /\ own.len = lk
  BY <1>13
<1>15. e.own = own /\ e.key = key /\ e.value = d.value /\ e.ttl = d.ttl
  <2>1. e.own = [arr |-> buf[c].arr, off |-> buf[c].off + HeaderSize + d.keyAt, len |-> Len(d.key)]
    BY DEF NewEntry
  <2>2. buf[c].off + HeaderSize + d.keyAt = at
    BY <1>3, <1>10, <1>12 DEF HeaderSize
  <2>3. e.own = own
    BY <1>3, <1>10, <1>13, <2>1, <2>2
  <2> QED  BY <1>10, <2>3 DEF NewEntry
<1>16. arr \in DOMAIN mem /\ off + len <= Len(mem[arr]) /\ mem \in Seq(Seq(Int)) /\ Len(mem[arr]) \in Nat
  <2>1. arr \in DOMAIN mem /\ off + len <= Len(mem[arr]) /\ mem \in Seq(Seq(Int))
    BY <1>1, <1>2, <1>3, OpenRest DEF Fits
  <2>2. mem[arr] \in Seq(Int)
    BY <2>1, ElementOfSeq, LenProperties
  <2> QED  BY <2>1, <2>2, LenProperties
<1>17. at + lk <= off + fl /\ at + lk <= Len(mem[arr]) /\ ka + lk <= fl - 3
  <2>1. 3 <= fl /\ fl <= len /\ ka + lk <= fl - 3
    BY <1>4, <1>11
  <2>2. at + lk <= off + fl /\ off + fl <= off + len
    BY <1>12, <2>1
  <2>3. PICK n \in Nat : n = Len(mem[arr]) /\ off + len <= n
    BY <1>16
  <2> QED  BY <2>1, <2>2, <2>3
<1>18. Fits(own)
  BY <1>14, <1>16, <1>17 DEF Fits
<1>19. Cells(own) = key
  <2>1. PICK cells \in Seq(Int) : cells = Cells(own)
    BY <1>16, <1>18, CellsOf
  <2>2. Len(cells) = lk
    BY <1>14, <1>16, <1>18, <2>1, CellsOf
  <2>3. ASSUME NEW j \in 1..lk PROVE cells[j] = key[j]
    <3>1. cells[j] = mem[arr][at + j]
      <4>1. \A i \in 1..own.len : Cells(own)[i] = mem[own.arr][own.off + i]
        BY <1>16, <1>18, CellsOf
      <4> QED  BY <1>14, <2>1, <4>1, Zenon
    <3>2. PICK k \in Nat : k = ka + j
      OBVIOUS
    <3>3. k \in 1..(fl - 3) /\ off + 3 + k = at + j
      <4>1. ka + lk <= fl - 3
        BY <1>17
      <4>2. k \in 1..(fl - 3)
        BY <3>2, <4>1
      <4>3. off + 3 + k = off + 3 + ka + j
        BY <3>2
      <4> QED  BY <1>12, <4>2, <4>3
    <3>4. key[j] = payload[k]
      BY <1>11, <3>2
    <3>5. payload[k] = mem[arr][off + 3 + k]
      BY <1>7, <3>3
    <3> QED  BY <3>1, <3>3, <3>4, <3>5, Zenon
  <2> QED  BY <1>10, <2>1, <2>2, <2>3, SeqEqual
<1>20. Behind(own)'
  <2>1. ASSUME NEW b \in Conns, IsOpen(b)', buf'[b].arr = arr PROVE at + lk <= Mark(b)'
    <3>1. b = c
      BY <1>1, <1>2, <1>3, <2>1 DEF IInv, BufInv, BuffersOwned
    <3> QED  BY <1>2, <1>3, <1>4, <1>17, <3>1
  <2>2. \A p \in pool' : p.arr # arr
    BY <1>1, <1>2, <1>3 DEF IInv, BufInv, BuffersOwned
  <2> QED  BY <1>14, <2>1, <2>2 DEF Behind
<1>21. Settled(e.own, e.key)'
  <2>1. Fits(own)' /\ Cells(own)' = key
    BY <1>2, <1>18, <1>19 DEF Fits, Cells
  <2> QED  BY <1>15, <1>20, <2>1 DEF Settled
<1>22. EntryOk(e)'
  <2>1. PICK lt \in Nat, lb \in Nat, lv \in Nat : lt = Len(d.token) /\ lb = Len(d.bucket) /\ lv = Len(d.value)
    BY <1>9, LenProperties
  <2>2. 6 + lt + lb + lk + lv <= fl - 3
    BY <1>7, <1>9, <1>10, <2>1
  <2>3. lt >= 1 /\ lb = lt
    <3>1. d.token # <<>> /\ d.token = d.bucket
      BY DEF NewEntry
    <3>2. lt # 0
      BY <1>9, <2>1, <3>1, EmptySeq
    <3> QED  BY <2>1, <3>1, <3>2
  <2>4. 8 + lk + lv <= MaxPayloadSize
    BY <1>5, <2>2, <2>3, CodecAssumption
  <2>5. e.own \in Slice /\ e.own.len = lk /\ Len(e.value) = lv /\ e.value \in Seq(Int) /\ e.ttl \in Int
    BY <1>9, <1>14, <1>15, <2>1
  <2>6. Fits(e.own)'
    BY <1>2, <1>15, <1>18 DEF Fits
  <2> QED  BY <2>4, <2>5, <2>6 DEF EntryOk
<1>23. ASSUME Answered PROVE Settled(e.at, e.key)'
  <2>1. CASE e.at = e.own
    BY <1>21, <2>1
  <2>2. ASSUME NEW x \in stored, e.at = x.at, KeyOf(x) = d.key PROVE Settled(e.at, e.key)'
    <3>1. Settled(x.at, x.key)
      BY <1>23 DEF KInv, KeysInv
    <3>2. x.key = key
      BY <1>10, <2>2, <3>1 DEF Settled, KeyOf
    <3>3. Settled(x.at, x.key)'
      BY <1>1, <1>2, <3>1, SettledKept
    <3>4. Settled(e.at, key)'
      BY <2>2, <3>2, <3>3
    <3> QED  BY <1>15, <3>4
  <2> QED  BY <2>1, <2>2 DEF NewEntry
<1> QED  BY <1>21, <1>22, <1>23

\* What is stored stays as it is, and so do the reasons why connections were closed.
LEMMA KeysKept ==
  ASSUME KInv, CInv', Forward, stored' = stored, Answered' => Answered,
         (\A c \in Conns : conn[c] # "closed" => why[c] = "open")'
  PROVE  KeysInv'
<1>1. ASSUME NEW e \in stored PROVE EntryOk(e)'
  <2>1. EntryOk(e) /\ Grows
    BY DEF KInv, KeysInv, Forward
  <2>2. Fits(e.own)'
    BY <2>1, FitsKept DEF EntryOk
  <2> QED  BY <2>1, <2>2 DEF EntryOk
<1>2. ASSUME NEW e \in stored, Answered' PROVE Settled(e.at, e.key)' /\ Settled(e.own, e.key)'
  BY <1>2, SettledKept DEF KInv, KeysInv
<1> QED  BY <1>1, <1>2 DEF KeysInv

LEMMA KeysConnStep ==
  ASSUME KInv, CInv', NEW c \in Conns, ConnStep(c)
  PROVE  KeysInv'
<1>1. CInv /\ conn \in [Conns -> ConnStates] /\ why \in [Conns -> Reasons] /\ IsOpen(c)
  BY ConnStepLife DEF KInv, CInv, IInv, LifeInv, ServerTypes, BufInv, BufTypes, IsOpen, OpenStates
<1>2. \A d \in Conns : conn[d] # "closed" => why[d] = "open"
  BY DEF KInv, KeysInv
<1>3. Untouched(c)
  BY <1>1, ConnLocal
<1>4. ASSUME UNCHANGED why PROVE (\A d \in Conns : conn[d] # "closed" => why[d] = "open")'
  <2>1. ASSUME NEW d \in Conns, conn'[d] # "closed" PROVE conn[d] # "closed"
    BY <1>1, <1>3, <2>1 DEF Untouched, IsOpen
  <2> QED  BY <1>2, <1>4, <2>1
<1>5. ASSUME UNCHANGED <<stored, why>>, Forward PROVE KeysInv'
  <2>1. Answered' => Answered
    BY <1>5 DEF Answered
  <2> QED  BY <1>4, <1>5, <2>1, KeysKept
<1>6. CASE Read(c)
  BY <1>1, <1>5, <1>6, ReadForward
<1>7. CASE NeedMore(c) \/ Panic(c)
  BY <1>1, <1>5, <1>7, StayForward
<1>8. CASE Write(c)
  BY <1>1, <1>5, <1>8, WriteForward
<1>9. ASSUME NEW reason, Return(c, reason)
      PROVE  /\ (\A d \in Conns : conn[d] # "closed" => why[d] = "open")' /\ UNCHANGED <<mem, stored>>
             /\ Answered' => Answered
             /\ reason = "write" => ~Answered'
  <2>1. /\ conn' = [conn EXCEPT ![c] = "closed"] /\ why' = [why EXCEPT ![c] = reason]
        /\ UNCHANGED <<mem, stored>>
    BY <1>9 DEF Return, Give
  <2>2. why[c] = "open"
    BY <1>1, <1>2 DEF IsOpen
  <2>3. why'[c] = reason /\ conn'[c] = "closed"
        /\ \A d \in Conns \ {c} : why'[d] = why[d] /\ conn'[d] = conn[d]
    BY <1>1, <2>1
  <2> QED  BY <1>2, <2>1, <2>2, <2>3 DEF Answered
<1>10. CASE ReadError(c) \/ DropOversized(c)
  <2>1. PICK reason : Return(c, reason) /\ conn[c] # "write"
    BY <1>10 DEF ReadError, DropOversized
  <2>2. Forward
    BY <1>1, <2>1, ReturnForward
  <2> QED  BY <1>9, <2>1, <2>2, KeysKept
<1>11. CASE WriteError(c)
  <2>1. Return(c, "write")
    BY <1>11 DEF WriteError
  <2>2. ~Answered' /\ UNCHANGED <<mem, stored>>
    BY <1>9, <2>1
  <2>3. \A e \in stored : EntryOk(e)'
    BY <2>2 DEF KInv, KeysInv, EntryOk, Fits
  <2> QED  BY <1>9, <2>1, <2>2, <2>3 DEF KeysInv
<1>12. CASE HandleNext(c)
  <2>1. Forward /\ UNCHANGED <<mem, buf, pool, why>>
    BY <1>1, <1>12, HandleForward
  <2>2. PICK o \in HandleFrame(FrontFrame(c), [arr |-> buf[c].arr, off |-> buf[c].off + HeaderSize]) :
           stored' = o.stored
    BY <1>12 DEF HandleNext, FrontFrame
  <2>3. Answered' <=> Answered
    BY <2>1 DEF Answered
  <2>4. ASSUME NEW e \in stored'
        PROVE  EntryOk(e)' /\ (Answered => Settled(e.at, e.key)' /\ Settled(e.own, e.key)')
    <3>1. CASE e \in stored
      <4>1. EntryOk(e)'
        BY <2>1, <3>1 DEF KInv, KeysInv, EntryOk, Fits
      <4> QED  BY <1>1, <2>1, <3>1, <4>1, SettledKept DEF KInv, KeysInv
    <3>2. ASSUME NEW d, IsSet(FrontFrame(c).payload, d),
                 NewEntry(e, d, [arr |-> buf[c].arr, off |-> buf[c].off + HeaderSize])
          PROVE  EntryOk(e)' /\ (Answered => Settled(e.at, e.key)' /\ Settled(e.own, e.key)')
      BY <1>12, <3>2, NewKey
    <3> QED  BY <2>2, <3>1, <3>2, FrameStores
  <2> QED  BY <1>4, <2>1, <2>3, <2>4 DEF KeysInv
<1> QED  BY <1>6, <1>7, <1>8, <1>10, <1>11, <1>12 DEF ConnStep

LEMMA KInvInit == Init => KInv
BY CInvInit DEF KInv, KeysInv, Init, ConnInit

LEMMA KInvNext == KInv /\ [Next]_vars => KInv'
<1> SUFFICES ASSUME KInv, [Next]_vars PROVE KInv'
  OBVIOUS
<1>1. CInv /\ CInv' /\ conn \in [Conns -> ConnStates]
  BY CInvNext DEF KInv, CInv, IInv, LifeInv, ServerTypes
<1>2. ASSUME UNCHANGED <<stored, why>>, Forward, \A d \in Conns : conn'[d] # "closed" => conn[d] # "closed"
      PROVE  KeysInv'
  <2>1. Answered' => Answered
    BY <1>2 DEF Answered
  <2>2. (\A c \in Conns : conn[c] # "closed" => why[c] = "open")'
    BY <1>2 DEF KInv, KeysInv
  <2> QED  BY <1>1, <1>2, <2>1, <2>2, KeysKept
<1>3. ASSUME ServerStep \/ UNCHANGED vars PROVE KeysInv'
  <2>1. UNCHANGED <<conn, buf, mem, pool, stored, why>>
    BY <1>3, ServerLocal
  <2> QED  BY <1>1, <1>2, <2>1, QuietForward
<1>4. ASSUME NEW c \in Conns, Accept(c) PROVE KeysInv'
  <2>1. conn[c] = "none" /\ conn' = [conn EXCEPT ![c] = "accepted"] /\ UNCHANGED <<buf, mem, pool, stored, why>>
    BY <1>4 DEF Accept, dataVars
  <2>2. \A d \in Conns : (IsOpen(d)' <=> IsOpen(d)) /\ (IsOpen(d) => conn'[d] = conn[d])
    BY <1>1, <2>1 DEF IsOpen
  <2>3. ASSUME NEW d \in Conns, IsOpen(d) PROVE Mark(d)' = Mark(d) /\ Mark(d) \in Nat
    BY <1>1, <2>1, <2>2, <2>3, MarkSame
  <2>4. Grows
    BY <1>1, <2>1 DEF Grows, CInv, IInv, BufInv, BufTypes
  <2>5. Forward
    <3>1. ASSUME NEW d \in Conns, IsOpen(d)' PROVE IsOpen(d) /\ buf[d].arr = buf'[d].arr /\ Mark(d) <= Mark(d)'
      BY <2>1, <2>2, <2>3, <3>1
    <3> QED  BY <2>1, <2>4, <3>1 DEF Forward
  <2> QED  BY <1>1, <1>2, <2>1, <2>5
<1>5. ASSUME NEW c \in Conns, Serve(c) PROVE KeysInv'
  <2>1. conn[c] = "accepted" /\ conn' = [conn EXCEPT ![c] = "read"] /\ UNCHANGED <<stored, why>>
    BY <1>5 DEF Serve, handleConn
  <2> QED  BY <1>1, <1>2, <1>5, <2>1, BeginForward
<1>6. ASSUME NEW c \in Conns, Send(c) \/ PeerGone(c) PROVE KeysInv'
  <2>1. UNCHANGED <<conn, buf, mem, pool, stored, why>>
    BY <1>6 DEF Send, PeerGone, dataVars
  <2> QED  BY <1>1, <1>2, <2>1, QuietForward
<1>7. KeysInv'
  BY <1>1, <1>3, <1>4, <1>5, <1>6, KeysConnStep DEF Next
<1> QED  BY <1>1, <1>7 DEF KInv

(***************************************************************************)
(* KeysStableIfAnswered for every number of connections, every set of      *)
(* requests and all sizes: as long as no answer failed to be written, the  *)
(* keys in the store stay what they were, though they share the memory of  *)
(* buffers that are appended to and handed on (codec.go:25,                *)
(* server.go:117-125,167-171).                                             *)
(***************************************************************************)
THEOREM KeysStayStable == Spec => []KeysStableIfAnswered
<1>1. KInv => KeysStableIfAnswered
  BY DEF KInv, KeysInv, Answered, KeysStableIfAnswered, StoredKeysStable, Settled, KeyOf, OwnKeyOf
<1> QED  BY <1>1, KInvInit, KInvNext, PTL DEF Spec

-----------------------------------------------------------------------------
(***************************************************************************)
(* Answers.                                                                *)
(***************************************************************************)

(***************************************************************************)
(* A frame decodes to what was encoded, whatever its command, id and       *)
(* payload, as long as the payload is no larger than the protocol allows   *)
(* (protocol.go: Encode, DecodeFrame).                                     *)
(***************************************************************************)
THEOREM FrameRoundTrip ==
  ASSUME NEW command \in Int, NEW id \in Int, NEW payload \in Seq(Int), Len(payload) <= MaxPayloadSize
  PROVE  /\ Encode(command, id, payload) \in Seq(Int)
         /\ DecodeFrame(Encode(command, id, payload)) =
              [ok |-> TRUE, command |-> command, id |-> id, payload |-> payload]
<1>1. PICK n \in Nat : n = Len(payload) /\ n <= MaxPayloadSize
  BY LenProperties
<1>2. PICK size \in Nat : size = 3 + n
  OBVIOUS
<1>3. PICK header \in Seq(Int) : header = <<size, command, id>>
  <2>1. size \in Int
    OBVIOUS
  <2>2. <<size, command, id>> \in Seq(Int)
    BY <2>1, ThreeCells
  <2> QED  BY <2>2
<1>4. Len(header) = 3 /\ header[1] = size /\ header[2] = command /\ header[3] = id
  BY <1>3
<1>5. PICK data \in Seq(Int) : data = header \o payload
  BY TwoParts
<1>6. Encode(command, id, payload) = data
  <2>1. HeaderSize + Len(payload) = size
    BY <1>1, <1>2 DEF HeaderSize
  <2> QED  BY <1>3, <1>5, <2>1 DEF Encode
<1>7. /\ Len(data) = Len(header) + Len(payload)
      /\ \A i \in 1..Len(header) : data[i] = header[i]
      /\ \A i \in 1..Len(payload) : data[Len(header) + i] = payload[i]
  BY <1>5, TwoParts
<1>8. /\ Len(data) = size /\ data[1] = size /\ data[2] = command /\ data[3] = id
      /\ \A i \in 1..n : data[3 + i] = payload[i]
  <2>1. 1 \in 1..Len(header) /\ 2 \in 1..Len(header) /\ 3 \in 1..Len(header)
    BY <1>4
  <2>2. data[1] = size /\ data[2] = command /\ data[3] = id
    BY <1>4, <1>7, <2>1
  <2>3. Len(data) = size
    BY <1>1, <1>2, <1>4, <1>7
  <2>4. \A i \in 1..n : data[3 + i] = payload[i]
    BY <1>1, <1>4, <1>7
  <2> QED  BY <2>2, <2>3, <2>4
<1>9. SubSeq(data, HeaderSize + 1, data[1]) = payload
  <2>1. 3 + n <= Len(data)
    BY <1>2, <1>8
  <2>2. PICK part \in Seq(Int) : part = SubSeq(data, 3 + 1, 3 + n)
    BY <2>1, PartOf
  <2>3. Len(part) = n /\ \A i \in 1..n : part[i] = data[3 + i]
    <3>1. /\ Len(SubSeq(data, 3 + 1, 3 + n)) = n
          /\ \A i \in 1..n : SubSeq(data, 3 + 1, 3 + n)[i] = data[3 + i]
      BY <2>1, PartOf
    <3> QED  BY <2>2, <3>1, Zenon
  <2>4. part = payload
    BY <1>1, <1>8, <2>3, SeqEqual
  <2>5. HeaderSize + 1 = 3 + 1 /\ data[1] = 3 + n
    BY <1>2, <1>8 DEF HeaderSize
  <2> QED  BY <2>2, <2>4, <2>5, Zenon
<1>10. ~(Len(data) < HeaderSize \/ data[1] > MaxPayloadSize + HeaderSize \/ Len(data) < data[1])
  <2>1. Len(data) = size /\ data[1] = size
    BY <1>8
  <2>2. ~(size < 3) /\ ~(size > MaxPayloadSize + 3) /\ ~(size < size)
    BY <1>1, <1>2, CodecAssumption
  <2> QED  BY <2>1, <2>2 DEF HeaderSize
<1>11. DecodeFrame(data) = [ok |-> TRUE, command |-> command, id |-> id, payload |-> payload]
  <2>1. DecodeFrame(data) = [ok |-> TRUE, command |-> data[2], id |-> data[3],
                             payload |-> SubSeq(data, HeaderSize + 1, data[1])]
    BY <1>10, Zenon DEF DecodeFrame
  <2> QED  BY <1>8, <1>9, <2>1, Zenon
<1> QED  BY <1>6, <1>11

\* An answer a peer can decode, to the request with number id.
ReplyOk(r, id) ==
  /\ r \in Seq(Int)
  /\ DecodeFrame(r).ok /\ DecodeFrame(r).id = id
  /\ ParseResponsePayload(DecodeFrame(r).payload).ok

LEMMA EncodedOk ==
  ASSUME NEW command \in Int, NEW id \in Int, NEW payload \in Seq(Int), Len(payload) <= MaxPayloadSize,
         Len(payload) >= 1
  PROVE  ReplyOk(Encode(command, id, payload), id)
<1>1. PICK r : r = Encode(command, id, payload)
  OBVIOUS
<1>2. PICK f : f = DecodeFrame(r)
  OBVIOUS
<1>3. r \in Seq(Int) /\ f = [ok |-> TRUE, command |-> command, id |-> id, payload |-> payload]
  BY <1>1, <1>2, FrameRoundTrip
<1>4. f.ok = TRUE /\ f.id = id /\ f.payload = payload
  BY <1>3
<1>5. payload # <<>>
  BY EmptySeq
<1>6. ParseResponsePayload(payload).ok
  BY <1>5 DEF ParseResponsePayload
<1>7. ReplyOk(r, id)
  BY <1>2, <1>3, <1>4, <1>6, Zenon DEF ReplyOk
<1> QED  BY <1>1, <1>7

LEMMA ErrorOk == ASSUME NEW id \in Int, NEW status \in Nat PROVE ReplyOk(NewErrorFrame(id, status), id)
<1>1. <<status>> \in Seq(Int) /\ Len(<<status>>) = 1
  OBVIOUS
<1>2. CmdError \in Int /\ 1 <= MaxPayloadSize
  BY CodecAssumption DEF CmdError
<1>3. PICK payload \in Seq(Int) : payload = <<status>>
  BY <1>1
<1>4. Len(payload) <= MaxPayloadSize /\ Len(payload) >= 1
  BY <1>1, <1>2, <1>3
<1>5. ReplyOk(Encode(CmdError, id, payload), id)
  BY <1>2, <1>4, EncodedOk
<1> QED  BY <1>3, <1>5 DEF NewErrorFrame

LEMMA ResponseOk ==
  ASSUME NEW id \in Int, NEW status \in Nat, NEW data \in Seq(Int), 1 + Len(data) <= MaxPayloadSize
  PROVE  ReplyOk(NewResponseFrame(id, status, data), id)
<1>1. PICK first \in Seq(Int) : first = <<status>> /\ Len(first) = 1
  <2>1. <<status>> \in Seq(Int) /\ Len(<<status>>) = 1
    OBVIOUS
  <2> QED  BY <2>1, Zenon
<1>2. PICK payload \in Seq(Int) : payload = first \o data
  BY TwoParts
<1>3. Len(payload) = Len(first) + Len(data)
  BY <1>2, TwoParts
<1>4. PICK n \in Nat : n = Len(data)
  BY LenProperties
<1>5. Len(payload) <= MaxPayloadSize /\ Len(payload) >= 1
  BY <1>1, <1>3, <1>4
<1>6. CmdResponse \in Int
  BY DEF CmdResponse
<1>7. ReplyOk(Encode(CmdResponse, id, payload), id)
  BY <1>5, <1>6, EncodedOk
<1> QED  BY <1>1, <1>2, <1>7 DEF NewResponseFrame

LEMMA HitOk ==
  ASSUME CInv, NEW id \in Int, NEW e, EntryOk(e)
  PROVE  ReplyOk(Hit(id, e), id)
<1>1. e.own \in Slice /\ mem \in Seq(Seq(Int)) /\ Fits(e.own) /\ e.ttl \in Int
  BY DEF EntryOk, CInv, IInv, BufInv, BufTypes
<1>2. PICK key \in Seq(Int) : key = OwnKeyOf(e) /\ Len(key) = e.own.len
  BY <1>1, CellsOf DEF OwnKeyOf
<1>3. PICK value \in Seq(Int) : value = e.value
  BY DEF EntryOk
<1>4. PICK lk \in Nat, lv \in Nat : lk = Len(key) /\ lv = Len(value)
  BY LenProperties
<1>5. 8 + lk + lv <= MaxPayloadSize
  BY <1>2, <1>3, <1>4 DEF EntryOk
<1>6. PICK w \in Int : w = lk % StrMod
  BY CodecAssumption
<1>7. PICK first \in Seq(Int) : first = <<w>> /\ Len(first) = 1
  <2>1. <<w>> \in Seq(Int) /\ Len(<<w>>) = 1
    OBVIOUS
  <2> QED  BY <2>1, Zenon
<1>8. PICK bit \in Int : bit = Bit(e.singleRead)
  BY DEF Bit
<1>9. PICK mid \in Seq(Int) : mid = <<e.ttl, 0, 0, bit, lv>> /\ Len(mid) = 5
  <2>1. <<e.ttl, 0, 0, bit, lv>> \in Seq(Int) /\ Len(<<e.ttl, 0, 0, bit, lv>>) = 5
    BY <1>1
  <2> QED  BY <2>1, Zenon
<1>10. PICK str \in Seq(Int) : str = first \o key
  BY TwoParts
<1>11. Len(str) = Len(first) + Len(key)
  BY <1>10, TwoParts
<1>12. PICK front \in Seq(Int) : front = str \o mid
  BY TwoParts
<1>13. Len(front) = Len(str) + Len(mid)
  BY <1>12, TwoParts
<1>14. PICK data \in Seq(Int) : data = front \o value
  BY TwoParts
<1>15. Len(data) = Len(front) + Len(value)
  BY <1>14, TwoParts
<1>16. Len(data) = 6 + lk + lv
  BY <1>4, <1>7, <1>9, <1>11, <1>13, <1>15
<1>17. 1 + Len(data) <= MaxPayloadSize
  BY <1>5, <1>16, CodecAssumption
<1>18. data = EncodeValueResponse(OwnKeyOf(e), e.ttl, 0, 0, e.singleRead, e.value)
  <2>1. writeString(OwnKeyOf(e)) = str
    BY <1>2, <1>4, <1>6, <1>7, <1>10 DEF writeString
  <2>2. <<e.ttl, 0, 0, Bit(e.singleRead), Len(e.value)>> = mid
    BY <1>3, <1>4, <1>8, <1>9
  <2> QED  BY <1>3, <1>12, <1>14, <2>1, <2>2, Zenon DEF EncodeValueResponse
<1>19. StatusOK \in Nat
  BY DEF StatusOK
<1>20. ReplyOk(NewResponseFrame(id, StatusOK, data), id)
  BY <1>17, <1>19, ResponseOk
<1> QED  BY <1>18, <1>20, Zenon DEF Hit

\* Each request has its answer, the last one when it is being written.
AnsweredInOrder(c) ==
  /\ replies[c] \in Seq(Seq(Int))
  /\ \A i \in 1..Len(replies[c]) : ReplyOk(replies[c][i], handled[c][i].id)
  /\ conn[c] \in {"none", "accepted", "read", "parse"} => Len(handled[c]) = Len(replies[c])
  /\ conn[c] = "write" => /\ Len(handled[c]) = Len(replies[c]) + 1
                          /\ ReplyOk(reply[c], handled[c][Len(handled[c])].id)
  /\ Len(handled[c]) - Len(replies[c]) \in {0, 1}

AnswerInv == \A c \in Conns : AnsweredInOrder(c)

LEMMA AnswersUntouched ==
  ASSUME NEW c \in Conns, AnsweredInOrder(c), UNCHANGED <<conn[c], handled[c], reply[c], replies[c]>>
  PROVE  AnsweredInOrder(c)'
BY DEF AnsweredInOrder

\* Connection c moves on without a frame being handled or answered.
LEMMA AnswersMove ==
  ASSUME NEW c \in Conns, AnsweredInOrder(c), UNCHANGED <<handled[c], replies[c]>>,
         conn'[c] \in {"accepted", "read", "parse"},
         conn[c] \in {"none", "accepted", "read", "parse"}
  PROVE  AnsweredInOrder(c)'
BY DEF AnsweredInOrder

LEMMA AnswersHandle ==
  ASSUME KInv, NEW c \in Conns, AnsweredInOrder(c), HandleNext(c)
  PROVE  AnsweredInOrder(c)'
<1>1. /\ CInv /\ IInv /\ conn[c] = "parse" /\ ~Incomplete(c) /\ FrameLen(c) >= HeaderSize
      /\ handled' = [handled EXCEPT ![c] = Append(@, FrontFrame(c))]
      /\ replies' = replies /\ conn'[c] = "write"
  BY DEF KInv, CInv, IInv, LifeInv, ServerTypes, HandleNext, FrontFrame
<1>2. PICK o \in HandleFrame(FrontFrame(c), [arr |-> buf[c].arr, off |-> buf[c].off + HeaderSize]) :
         reply' = [reply EXCEPT ![c] = o.reply]
  BY DEF HandleNext, FrontFrame
<1>3. PICK f \in Frame : f = FrontFrame(c)
  BY <1>1, FrontFrameFacts
<1>4. PICK h \in Seq(Frame), n \in Nat : h = handled[c] /\ n = Len(h)
  BY <1>1, LenProperties DEF CInv, HistTypes
<1>5. handled'[c] = Append(h, f) /\ reply'[c] = o.reply
  BY <1>1, <1>2, <1>3, <1>4 DEF CInv, HistTypes
<1>6. PICK more \in Seq(Frame) : more = Append(h, f)
  BY AppendProperties
<1>7. Len(more) = n + 1 /\ more[n + 1] = f /\ \A i \in 1..n : more[i] = h[i]
  BY <1>4, <1>6, AppendProperties
<1>8. ReplyOk(o.reply, f.id)
  <2>1. f.id \in Int
    BY DEF Frame
  <2>2. ASSUME NEW status \in Nat, o.reply = NewErrorFrame(f.id, status) PROVE ReplyOk(o.reply, f.id)
    BY <2>1, <2>2, ErrorOk
  <2>3. ASSUME NEW status \in Nat, o.reply = NewResponseFrame(f.id, status, <<>>) PROVE ReplyOk(o.reply, f.id)
    <3>1. PICK none \in Seq(Int) : none = <<>> /\ Len(none) = 0
      BY EmptySeq
    <3>2. 1 + Len(none) <= MaxPayloadSize
      BY <3>1, CodecAssumption
    <3>3. ReplyOk(NewResponseFrame(f.id, status, none), f.id)
      BY <2>1, <3>2, ResponseOk
    <3> QED  BY <2>3, <3>1, <3>3
  <2>4. ASSUME NEW e \in stored, o.reply = Hit(f.id, e) PROVE ReplyOk(o.reply, f.id)
    <3>1. EntryOk(e)
      BY DEF KInv, KeysInv
    <3> QED  BY <1>1, <2>1, <2>4, <3>1, HitOk
  <2> QED  BY <1>2, <1>3, <2>2, <2>3, <2>4, FrameAnswers
<1>9. PICK r \in Seq(Seq(Int)) : r = replies[c]
  BY DEF AnsweredInOrder
<1>10. Len(r) = n /\ \A i \in 1..n : ReplyOk(r[i], h[i].id)
  BY <1>1, <1>4, <1>9 DEF AnsweredInOrder
<1>11. \A i \in 1..n : ReplyOk(r[i], more[i].id)
  BY <1>7, <1>10
<1>12. handled'[c] = more /\ replies'[c] = r
  BY <1>1, <1>5, <1>6, <1>9
<1>13. \A i \in 1..Len(replies'[c]) : ReplyOk(replies'[c][i], handled'[c][i].id)
  BY <1>10, <1>11, <1>12
<1>14. Len(handled'[c]) = Len(replies'[c]) + 1 /\ Len(handled'[c]) - Len(replies'[c]) \in {0, 1}
  <2>1. Len(handled'[c]) = n + 1 /\ Len(replies'[c]) = n
    BY <1>7, <1>10, <1>12
  <2> QED  BY <2>1
<1>15. ReplyOk(reply'[c], handled'[c][Len(handled'[c])].id)
  BY <1>5, <1>7, <1>8, <1>12
<1>16. replies'[c] \in Seq(Seq(Int))
  BY <1>12
<1> QED  BY <1>1, <1>13, <1>14, <1>15, <1>16 DEF AnsweredInOrder

LEMMA AnswersWrite ==
  ASSUME KInv, NEW c \in Conns, AnsweredInOrder(c), Write(c)
  PROVE  AnsweredInOrder(c)'
<1>1. /\ conn[c] = "write" /\ conn'[c] \in {"read", "parse"} /\ handled' = handled
      /\ replies' = [replies EXCEPT ![c] = Append(@, reply[c])]
  BY DEF KInv, CInv, IInv, LifeInv, ServerTypes, Write
<1>2. PICK r \in Seq(Seq(Int)), n \in Nat : r = replies[c] /\ n = Len(r)
  BY LenProperties DEF AnsweredInOrder
<1>3. PICK last \in Seq(Int) : last = reply[c] /\ ReplyOk(last, handled[c][n + 1].id) /\ Len(handled[c]) = n + 1
  <2>1. Len(handled[c]) = n + 1 /\ ReplyOk(reply[c], handled[c][Len(handled[c])].id)
    BY <1>1, <1>2 DEF AnsweredInOrder
  <2>2. reply[c] \in Seq(Int)
    BY <2>1 DEF ReplyOk
  <2> QED  BY <2>1, <2>2
<1>4. PICK more \in Seq(Seq(Int)) : more = Append(r, last)
  BY AppendProperties
<1>5. Len(more) = n + 1 /\ more[n + 1] = last /\ \A i \in 1..n : more[i] = r[i]
  BY <1>2, <1>4, AppendProperties
<1>6. replies'[c] = more
  BY <1>1, <1>2, <1>3, <1>4 DEF KInv, CInv, HistTypes
<1>7. \A i \in 1..(n + 1) : i \in 1..n \/ i = n + 1
  OBVIOUS
<1>8. \A i \in 1..n : ReplyOk(r[i], handled[c][i].id)
  BY <1>2 DEF AnsweredInOrder
<1>9. \A i \in 1..(n + 1) : ReplyOk(more[i], handled[c][i].id)
  BY <1>3, <1>5, <1>7, <1>8
<1>10. Len(handled'[c]) = Len(replies'[c]) /\ Len(handled'[c]) - Len(replies'[c]) \in {0, 1}
  <2>1. Len(handled'[c]) = n + 1 /\ Len(replies'[c]) = n + 1
    BY <1>1, <1>3, <1>5, <1>6
  <2> QED  BY <2>1
<1>11. replies'[c] \in Seq(Seq(Int)) /\ \A i \in 1..Len(replies'[c]) : ReplyOk(replies'[c][i], handled'[c][i].id)
  BY <1>1, <1>5, <1>6, <1>9
<1> QED  BY <1>1, <1>10, <1>11 DEF AnsweredInOrder

LEMMA AnswersConnStep ==
  ASSUME KInv, NEW c \in Conns, AnsweredInOrder(c), ConnStep(c)
  PROVE  AnsweredInOrder(c)'
<1>1. CInv /\ BufInv /\ conn \in [Conns -> ConnStates]
  BY DEF KInv, CInv, IInv, LifeInv, ServerTypes
<1>2. CASE Read(c)
  <2>1. conn[c] = "read" /\ conn'[c] = "parse" /\ UNCHANGED <<handled, replies>>
    BY <1>1, <1>2, ReadAppends DEF Read
  <2> QED  BY <2>1, AnswersMove
<1>3. ASSUME NEW reason, Return(c, reason) PROVE AnsweredInOrder(c)'
  <2>1. conn'[c] = "closed" /\ UNCHANGED <<handled, replies>>
    BY <1>1, <1>3 DEF Return, Give
  <2> QED  BY <2>1 DEF AnsweredInOrder
<1>4. CASE ReadError(c) \/ DropOversized(c) \/ WriteError(c)
  BY <1>3, <1>4 DEF ReadError, DropOversized, WriteError
<1>5. CASE NeedMore(c) \/ Panic(c)
  <2>1. conn[c] = "parse" /\ conn'[c] \in {"read", "parse"} /\ UNCHANGED <<handled, replies>>
    BY <1>1, <1>5 DEF NeedMore, Panic
  <2> QED  BY <2>1, AnswersMove
<1> QED  BY <1>2, <1>4, <1>5, AnswersHandle, AnswersWrite DEF ConnStep

LEMMA AnswersInit == Init => AnswerInv
<1> SUFFICES ASSUME Init, NEW c \in Conns PROVE AnsweredInOrder(c)
  BY DEF AnswerInv
<1>1. conn[c] = "none" /\ handled[c] = <<>> /\ replies[c] = <<>>
  BY DEF Init, ConnInit
<1>2. <<>> \in Seq(Seq(Int)) /\ Len(<<>>) = 0
  BY EmptySeq
<1> QED  BY <1>1, <1>2 DEF AnsweredInOrder

LEMMA AnswersNext == ASSUME KInv, AnswerInv, [Next]_vars PROVE AnswerInv'
<1>1. CInv /\ conn \in [Conns -> ConnStates]
  BY DEF KInv, CInv, IInv, LifeInv, ServerTypes
<1> SUFFICES ASSUME NEW d \in Conns PROVE AnsweredInOrder(d)'
  BY DEF AnswerInv
<1>2. AnsweredInOrder(d)
  BY DEF AnswerInv
<1>3. CASE ServerStep \/ UNCHANGED vars
  BY <1>2, <1>3, ServerLocal, AnswersUntouched
<1>4. ASSUME NEW c \in Conns, Untouched(c), c # d PROVE AnsweredInOrder(d)'
  BY <1>2, <1>4, AnswersUntouched DEF Untouched
<1>5. ASSUME Accept(d) \/ Serve(d) PROVE AnsweredInOrder(d)'
  <2>1. /\ conn[d] \in {"none", "accepted"} /\ conn'[d] \in {"accepted", "read"}
        /\ UNCHANGED <<handled, replies>>
    BY <1>1, <1>5 DEF Accept, Serve, handleConn
  <2> QED  BY <1>2, <2>1, AnswersMove
<1>6. ASSUME Send(d) \/ PeerGone(d) PROVE AnsweredInOrder(d)'
  <2>1. UNCHANGED <<conn, reply, handled, replies>>
    BY <1>6 DEF Send, PeerGone
  <2> QED  BY <1>2, <2>1, AnswersUntouched
<1>7. ASSUME NEW c \in Conns, Accept(c) \/ Serve(c) \/ Send(c) \/ PeerGone(c) \/ ConnStep(c)
      PROVE  AnsweredInOrder(d)'
  <2>1. CASE c = d
    BY <1>2, <1>5, <1>6, <1>7, <2>1, AnswersConnStep
  <2>2. CASE c # d
    BY <1>1, <1>4, <1>7, <2>2, ConnLocal, PeerLocal
  <2> QED  BY <2>1, <2>2
<1> QED  BY <1>3, <1>7 DEF Next

(***************************************************************************)
(* AnswersCorrelate for every number of connections, every set of requests *)
(* and all sizes: the answers written on a connection are those of the     *)
(* requests it executed, in their order, each with the number of its       *)
(* request and in a form the peer can decode (server.go:163-169,           *)
(* handler.go:39-106).                                                     *)
(***************************************************************************)
THEOREM AnswersMatchRequests == Spec => []AnswersCorrelate
<1>1. Init => KInv /\ AnswerInv
  BY KInvInit, AnswersInit
<1>2. KInv /\ AnswerInv /\ [Next]_vars => (KInv /\ AnswerInv)'
  BY KInvNext, AnswersNext
<1>3. KInv /\ AnswerInv => AnswersCorrelate
  <2> SUFFICES ASSUME KInv, AnswerInv, NEW c \in Conns
               PROVE  /\ Len(handled[c]) - Len(replies[c]) \in {0, 1}
                      /\ \A i \in DOMAIN replies[c] : ReplyOk(replies[c][i], handled[c][i].id)
    BY DEF AnswersCorrelate, ReplyOk
  <2>1. AnsweredInOrder(c)
    BY DEF AnswerInv
  <2>2. DOMAIN replies[c] = 1..Len(replies[c])
    BY <2>1, LenProperties DEF AnsweredInOrder
  <2> QED  BY <2>1, <2>2 DEF AnsweredInOrder
<1> QED  BY <1>1, <1>2, <1>3, PTL DEF Spec

-----------------------------------------------------------------------------
(***************************************************************************)
(* Payloads: what the encoders make decodes to itself.                     *)
(***************************************************************************)
\* A part of a part is a part.
LEMMA PartOfPart ==
  ASSUME NEW data \in Seq(Int), NEW part \in Seq(Int), NEW at, PartAt(data, at, part),
         NEW sub \in Seq(Int), NEW off, PartAt(part, off, sub)
  PROVE  PartAt(data, at + off, sub)
<1>1. PICK n \in Nat, m \in Nat, l \in Nat : n = Len(data) /\ m = Len(part) /\ l = Len(sub)
  BY LenProperties
<1>2. /\ at \in Nat /\ off \in Nat /\ at + m <= n /\ off + l <= m
      /\ \A j \in 1..m : part[j] = data[at + j]
      /\ \A j \in 1..l : sub[j] = part[off + j]
  BY <1>1 DEF PartAt
<1>3. ASSUME NEW j \in 1..l
      PROVE  sub[j] = data[(at + off) + j]
  <2>1. off + j \in 1..m /\ at + (off + j) = (at + off) + j
    BY <1>1, <1>2
  <2>2. part[off + j] = data[at + (off + j)]
    BY <1>2, <2>1
  <2> QED  BY <1>2, <2>1, <2>2
<1>4. at + off \in Nat /\ (at + off) + l <= n
  BY <1>1, <1>2
<1> QED  BY <1>1, <1>3, <1>4 DEF PartAt

\* The two parts of a concatenation.
LEMMA PartsOfTwo ==
  ASSUME NEW s \in Seq(Int), NEW t \in Seq(Int)
  PROVE  s \o t \in Seq(Int) /\ PartAt(s \o t, 0, s) /\ PartAt(s \o t, Len(s), t)
<1>1. PICK m \in Nat, l \in Nat : m = Len(s) /\ l = Len(t)
  BY LenProperties
<1>2. PICK data \in Seq(Int) : data = s \o t
  BY TwoParts
<1>3. /\ Len(data) = m + l
      /\ \A i \in 1..m : data[i] = s[i]
      /\ \A i \in 1..l : data[m + i] = t[i]
  BY <1>1, <1>2, TwoParts
<1>4. PartAt(data, 0, s)
  BY <1>1, <1>3 DEF PartAt
<1>5. PartAt(data, m, t)
  BY <1>1, <1>3 DEF PartAt
<1> QED  BY <1>1, <1>2, <1>4, <1>5

\* Both parts of a part.
LEMMA PartsOfPart ==
  ASSUME NEW data \in Seq(Int), NEW at, NEW s \in Seq(Int), NEW t \in Seq(Int), PartAt(data, at, s \o t)
  PROVE  PartAt(data, at, s) /\ PartAt(data, at + Len(s), t)
<1>1. PICK part \in Seq(Int) : part = s \o t
  BY TwoParts
<1>2. PartAt(part, 0, s) /\ PartAt(part, Len(s), t) /\ PartAt(data, at, part)
  BY <1>1, PartsOfTwo
<1>3. PartAt(data, at + 0, s) /\ PartAt(data, at + Len(s), t)
  BY <1>2, PartOfPart
<1>4. at + 0 = at
  BY DEF PartAt
<1> QED  BY <1>3, <1>4

\* A part is what SubSeq cuts out there.
LEMMA PartIsSub ==
  ASSUME NEW data \in Seq(Int), NEW at, NEW part \in Seq(Int), PartAt(data, at, part)
  PROVE  SubSeq(data, at + 1, at + Len(part)) = part
<1>1. PICK l \in Nat : l = Len(part)
  BY LenProperties
<1>2. at \in Nat /\ at + l <= Len(data) /\ \A j \in 1..l : part[j] = data[at + j]
  BY <1>1 DEF PartAt
<1>3. PICK cut \in Seq(Int) : cut = SubSeq(data, at + 1, at + l)
  BY <1>2, PartOf
<1>4. Len(cut) = l /\ \A i \in 1..l : cut[i] = data[at + i]
  <2>1. /\ Len(SubSeq(data, at + 1, at + l)) = l
        /\ \A i \in 1..l : SubSeq(data, at + 1, at + l)[i] = data[at + i]
    BY <1>2, PartOf
  <2> QED  BY <1>3, <2>1, Zenon
<1>5. cut = part
  BY <1>1, <1>2, <1>4, SeqEqual
<1> QED  BY <1>1, <1>3, <1>5

\* A number below the modulus stays what it is.
LEMMA SmallMod ==
  ASSUME NEW m \in Nat \ {0}, NEW l \in Nat, l < m
  PROVE  l % m = l
<1> DEFINE q == l \div m
           r == l % m
<1>1. q \in Nat /\ r \in Nat /\ r < m /\ l = m * q + r
  OBVIOUS
<1> HIDE DEF q, r
<1>2. q >= 1 => m * q >= m
  BY <1>1
<1>3. m * q \in Nat
  BY <1>1
<1>4. q = 0
  BY <1>1, <1>2, <1>3
<1>5. r = l
  BY <1>1, <1>4
<1> QED  BY <1>5 DEF r

\* readString gives back what writeString wrote, wherever it stands, if the string is not
\* longer than its length field can say (codec.go: writeString, readString).
LEMMA StringReadsBack ==
  ASSUME NEW data \in Seq(Int), NEW offset, NEW s \in Seq(Int), Len(s) < StrMod,
         PartAt(data, offset, writeString(s))
  PROVE  /\ PartAt(data, offset + 1, s)
         /\ readString(data, offset) =
              [ok |-> TRUE, str |-> s, at |-> offset + 1, next |-> offset + 1 + Len(s)]
<1>1. PICK n \in Nat, l \in Nat : n = Len(data) /\ l = Len(s) /\ l < StrMod
  BY LenProperties
<1>2. PICK field \in Seq(Int) : field = <<l>> /\ Len(field) = 1 /\ field[1] = l
  <2>1. <<l>> \in Seq(Int) /\ Len(<<l>>) = 1 /\ <<l>>[1] = l
    OBVIOUS
  <2> QED  BY <2>1, Zenon
<1>3. l % StrMod = l
  BY <1>1, CodecAssumption, SmallMod
<1>4. PartAt(data, offset, field \o s)
  BY <1>1, <1>2, <1>3 DEF writeString
<1>5. PartAt(data, offset, field) /\ PartAt(data, offset + 1, s)
  BY <1>2, <1>4, PartsOfPart
<1>6. /\ offset \in Nat /\ offset + 1 + l <= n /\ data[offset + 1] = l
      /\ \A j \in 1..l : s[j] = data[(offset + 1) + j]
  <2>1. offset \in Nat /\ field[1] = data[offset + 1]
    BY <1>2, <1>5 DEF PartAt
  <2>2. (offset + 1) + l <= n /\ \A j \in 1..l : s[j] = data[(offset + 1) + j]
    BY <1>1, <1>5 DEF PartAt
  <2> QED  BY <1>2, <2>1, <2>2
<1>8. SubSeq(data, offset + 2, offset + 1 + l) = s
  <2>1. SubSeq(data, (offset + 1) + 1, (offset + 1) + Len(s)) = s
    BY <1>5, PartIsSub
  <2>2. (offset + 1) + 1 = offset + 2 /\ (offset + 1) + Len(s) = offset + 1 + l
    BY <1>1, <1>6
  <2> QED  BY <2>1, <2>2
<1>9. ~(Len(data) < offset + 1 \/ data[offset + 1] \notin 0..(Len(data) - offset - 1))
  BY <1>1, <1>6
<1>10. readString(data, offset) =
         [ok |-> TRUE, str |-> SubSeq(data, offset + 2, offset + 1 + l), at |-> offset + 1,
          next |-> offset + 1 + l]
  BY <1>6, <1>9 DEF readString
<1> QED  BY <1>1, <1>5, <1>8, <1>10

\* The encoded strings are cells, and as many as the decoder will skip.
LEMMA StringCells ==
  ASSUME NEW s \in Seq(Int)
  PROVE  writeString(s) \in Seq(Int) /\ Len(writeString(s)) = 1 + Len(s)
<1>1. Len(s) % StrMod \in Int
  BY CodecAssumption, LenProperties
<1>2. <<Len(s) % StrMod>> \in Seq(Int) /\ Len(<<Len(s) % StrMod>>) = 1
  BY <1>1
<1> QED  BY <1>2, TwoParts DEF writeString

\* g has the strings, the key in its place, and the end of them.
HasStrings(data, g, token, bucket, key) ==
  /\ g.ok = TRUE /\ g.token = token /\ g.bucket = bucket /\ g.key = key
  /\ PartAt(data, g.keyAt, key)
  /\ g.next = 3 + Len(token) + Len(bucket) + Len(key)

\* Strings whose length fits its field.
Writable(s) == s \in Seq(Int) /\ Len(s) < StrMod

\* Every field of a DELETE or GET payload (codec.go: EncodeGetPayload, DecodeGetPayload),
\* also in front of the rest of a SET payload.
LEMMA StringsReadBack ==
  ASSUME NEW token, NEW bucket, NEW key, Writable(token), Writable(bucket), Writable(key),
         NEW data \in Seq(Int), PartAt(data, 0, EncodeGetPayload(token, bucket, key)),
         NEW g, IsGet(data, g)
  PROVE  HasStrings(data, g, token, bucket, key)
<1>0. /\ token \in Seq(Int) /\ bucket \in Seq(Int) /\ key \in Seq(Int)
      /\ Len(token) < StrMod /\ Len(bucket) < StrMod /\ Len(key) < StrMod
  BY DEF Writable
<1>1. PICK l \in Nat, m \in Nat, n \in Nat : l = Len(token) /\ m = Len(bucket) /\ n = Len(key)
  BY <1>0, LenProperties
<1>3. PICK a \in Seq(Int), b \in Seq(Int), c \in Seq(Int) :
        a = writeString(token) /\ b = writeString(bucket) /\ c = writeString(key)
  BY <1>0, StringCells
<1>4. Len(a) = 1 + l /\ Len(b) = 1 + m
  BY <1>1, <1>0, <1>3, StringCells
<1>5. PartAt(data, 0, (a \o b) \o c)
  BY <1>3 DEF EncodeGetPayload
<1>6. PICK ab \in Seq(Int) : ab = a \o b /\ Len(ab) = Len(a) + Len(b)
  BY TwoParts
<1>7. PartAt(data, 0, ab) /\ PartAt(data, 0 + Len(ab), c)
  BY <1>5, <1>6, PartsOfPart
<1>8. PartAt(data, 0, a) /\ PartAt(data, 0 + Len(a), b)
  BY <1>6, <1>7, PartsOfPart
<1>9. PICK x \in Nat, y \in Nat : x = 0 + 1 + l /\ y = x + 1 + m
  OBVIOUS
<1>15. PartAt(data, x, b) /\ PartAt(data, y, c)
  <2>1. 0 + Len(a) = x /\ 0 + Len(ab) = y
    BY <1>1, <1>4, <1>6, <1>9
  <2> QED  BY <1>7, <1>8, <2>1
<1>10. readString(data, 0) = [ok |-> TRUE, str |-> token, at |-> 0 + 1, next |-> x]
  BY <1>1, <1>3, <1>8, <1>9, StringReadsBack, <1>0
<1>11. readString(data, x) = [ok |-> TRUE, str |-> bucket, at |-> x + 1, next |-> y]
  <2>1. PartAt(data, x, writeString(bucket)) /\ x + 1 + Len(bucket) = y
    BY <1>1, <1>3, <1>9, <1>15
  <2>2. readString(data, x) =
          [ok |-> TRUE, str |-> bucket, at |-> x + 1, next |-> x + 1 + Len(bucket)]
    BY <2>1, StringReadsBack, <1>0
  <2> QED  BY <2>1, <2>2, Zenon
<1>12. /\ readString(data, y) = [ok |-> TRUE, str |-> key, at |-> y + 1, next |-> y + 1 + Len(key)]
       /\ PartAt(data, y + 1, key)
  <2>1. PartAt(data, y, writeString(key))
    BY <1>3, <1>15
  <2> QED  BY <2>1, StringReadsBack, <1>0
<1>13. /\ g.ok = TRUE /\ g.token = token /\ g.bucket = bucket /\ g.key = key
       /\ g.keyAt = y + 1 /\ g.next = y + 1 + Len(key)
  <2>1. PICK t, b1, k : t = readString(data, 0) /\ b1 = readString(data, x) /\ k = readString(data, y)
    OBVIOUS
  <2>2. /\ t.ok = TRUE /\ t.str = token /\ t.next = x
        /\ b1.ok = TRUE /\ b1.str = bucket /\ b1.next = y
        /\ k.ok = TRUE /\ k.str = key /\ k.at = y + 1 /\ k.next = y + 1 + Len(key)
    BY <1>10, <1>11, <1>12, <2>1
  <2>3. b1 = readString(data, t.next) /\ k = readString(data, b1.next)
    BY <2>1, <2>2
  <2>4. g = [ok |-> t.ok /\ b1.ok /\ k.ok, token |-> t.str, bucket |-> b1.str, key |-> k.str,
             keyAt |-> k.at, next |-> k.next]
    BY <2>1, <2>3, Zenon DEF IsGet, DecodeGetPayload
  <2> QED  BY <2>2, <2>4
<1>14. y + 1 + Len(key) = 3 + l + m + n
  BY <1>1, <1>9
<1> QED  BY <1>1, <1>12, <1>13, <1>14 DEF HasStrings

LEMMA GetPayloadCells ==
  ASSUME NEW token \in Seq(Int), NEW bucket \in Seq(Int), NEW key \in Seq(Int)
  PROVE  /\ EncodeGetPayload(token, bucket, key) \in Seq(Int)
         /\ Len(EncodeGetPayload(token, bucket, key)) = 3 + Len(token) + Len(bucket) + Len(key)
<1>1. PICK l \in Nat, m \in Nat, n \in Nat : l = Len(token) /\ m = Len(bucket) /\ n = Len(key)
  BY LenProperties
<1>2. PICK a \in Seq(Int), b \in Seq(Int), c \in Seq(Int) :
        /\ a = writeString(token) /\ b = writeString(bucket) /\ c = writeString(key)
        /\ Len(a) = 1 + l /\ Len(b) = 1 + m /\ Len(c) = 1 + n
  BY <1>1, StringCells
<1>3. PICK ab \in Seq(Int) : ab = a \o b /\ Len(ab) = Len(a) + Len(b)
  BY TwoParts
<1>4. ab \o c \in Seq(Int) /\ Len(ab \o c) = Len(ab) + Len(c)
  BY TwoParts
<1>5. Len(ab) + Len(c) = 3 + l + m + n
  BY <1>2, <1>3
<1>6. EncodeGetPayload(token, bucket, key) = ab \o c
  BY <1>2, <1>3 DEF EncodeGetPayload
<1> QED  BY <1>1, <1>4, <1>5, <1>6

(***************************************************************************)
(* The payload of a GET or DELETE decodes to the strings it was made of,   *)
(* and the key it names lies in the payload itself, for all strings whose  *)
(* length fits its field (codec.go: EncodeGetPayload, DecodeGetPayload).   *)
(***************************************************************************)
THEOREM GetPayloadRoundTrip ==
  ASSUME NEW token \in Seq(Int), NEW bucket \in Seq(Int), NEW key \in Seq(Int),
         Len(token) < StrMod, Len(bucket) < StrMod, Len(key) < StrMod,
         NEW data, data = EncodeGetPayload(token, bucket, key),
         NEW g, g = DecodeGetPayload(data)
  PROVE  /\ g.ok = TRUE /\ g.token = token /\ g.bucket = bucket /\ g.key = key
         /\ SubSeq(data, g.keyAt + 1, g.keyAt + Len(key)) = key
         /\ g.next = Len(data)
<1>1. data \in Seq(Int) /\ Len(data) = 3 + Len(token) + Len(bucket) + Len(key)
  BY GetPayloadCells
<1>2. PartAt(data, 0, data)
  BY <1>1, LenProperties DEF PartAt
<1>3. /\ g.ok = TRUE /\ g.token = token /\ g.bucket = bucket /\ g.key = key
      /\ PartAt(data, g.keyAt, key) /\ g.next = Len(data)
  <2>1. PartAt(data, 0, EncodeGetPayload(token, bucket, key)) /\ IsGet(data, g)
    BY <1>2 DEF IsGet
  <2>2. Writable(token) /\ Writable(bucket) /\ Writable(key)
    BY DEF Writable
  <2>3. HasStrings(data, g, token, bucket, key)
    BY <1>1, <2>1, <2>2, StringsReadBack
  <2> QED  BY <1>1, <2>3 DEF HasStrings
<1>4. SubSeq(data, g.keyAt + 1, g.keyAt + Len(key)) = key
  BY <1>1, <1>3, PartIsSub
<1> QED  BY <1>3, <1>4

(***************************************************************************)
(* The payload of a SET decodes to all it was made of, the sign of the TTL *)
(* and the empty value included, and its key lies in the payload itself    *)
(* (codec.go: EncodeSetPayload, DecodeSetPayload).                         *)
(***************************************************************************)
THEOREM SetPayloadRoundTrip ==
  ASSUME NEW token \in Seq(Int), NEW bucket \in Seq(Int), NEW key \in Seq(Int),
         Len(token) < StrMod, Len(bucket) < StrMod, Len(key) < StrMod,
         NEW ttl \in Int, NEW singleRead \in BOOLEAN, NEW value \in Seq(Int),
         NEW data, data = EncodeSetPayload(token, bucket, key, ttl, singleRead, value),
         NEW d, d = DecodeSetPayload(data)
  PROVE  /\ d.ok = TRUE /\ d.token = token /\ d.bucket = bucket /\ d.key = key
         /\ d.ttl = ttl /\ d.singleRead = singleRead /\ d.value = value
         /\ SubSeq(data, d.keyAt + 1, d.keyAt + Len(key)) = key
<1>1. PICK front \in Seq(Int) : front = EncodeGetPayload(token, bucket, key)
  BY GetPayloadCells
<1>2. Len(front) = 3 + Len(token) + Len(bucket) + Len(key)
  BY <1>1, GetPayloadCells
<1>3. PICK at \in Nat, n \in Nat, bit \in {0, 1} :
        at = Len(front) /\ n = Len(value) /\ bit = Bit(singleRead)
  BY LenProperties DEF Bit
<1>4. PICK fields \in Seq(Int) :
        /\ fields = <<ttl, bit, n>> /\ Len(fields) = 3
        /\ fields[1] = ttl /\ fields[2] = bit /\ fields[3] = n
  <2>1. bit \in Int /\ n \in Int
    BY <1>3
  <2>2. /\ <<ttl, bit, n>> \in Seq(Int) /\ Len(<<ttl, bit, n>>) = 3
        /\ <<ttl, bit, n>>[1] = ttl /\ <<ttl, bit, n>>[2] = bit /\ <<ttl, bit, n>>[3] = n
    BY <2>1, ThreeCells
  <2> QED  BY <2>2, Zenon
<1>5. PICK head \in Seq(Int) : head = front \o fields /\ Len(head) = Len(front) + Len(fields)
  BY TwoParts
<1>6. data = head \o value
  BY <1>1, <1>3, <1>4, <1>5, Zenon DEF EncodeSetPayload
<1>7. data \in Seq(Int) /\ Len(data) = at + 3 + n
  <2>1. head \o value \in Seq(Int) /\ Len(head \o value) = Len(head) + Len(value)
    BY TwoParts
  <2>2. Len(head) + Len(value) = at + 3 + n
    BY <1>3, <1>4, <1>5
  <2> QED  BY <1>6, <2>1, <2>2
<1>8. PartAt(data, 0, head) /\ PartAt(data, Len(head), value)
  BY <1>6, PartsOfTwo
<1>9. PartAt(data, 0, front) /\ PartAt(data, 0 + Len(front), fields)
  BY <1>5, <1>7, <1>8, PartsOfPart
<1>10. data[at + 1] = ttl /\ data[at + 2] = bit /\ data[at + 3] = n
  <2>1. PartAt(data, at, fields)
    BY <1>3, <1>9
  <2>2. \A j \in 1..3 : fields[j] = data[at + j]
    BY <1>4, <2>1 DEF PartAt
  <2> QED  BY <1>4, <2>2, SMTT(30)
<1>11. PICK g : g = DecodeGetPayload(data)
  OBVIOUS
<1>12. /\ g.ok = TRUE /\ g.token = token /\ g.bucket = bucket /\ g.key = key
       /\ PartAt(data, g.keyAt, key) /\ g.next = at
  <2>1. PartAt(data, 0, EncodeGetPayload(token, bucket, key)) /\ IsGet(data, g)
    BY <1>1, <1>9, <1>11 DEF IsGet
  <2>2. Writable(token) /\ Writable(bucket) /\ Writable(key)
    BY DEF Writable
  <2>3. HasStrings(data, g, token, bucket, key)
    BY <1>7, <2>1, <2>2, StringsReadBack
  <2> QED  BY <1>2, <1>3, <2>3 DEF HasStrings
<1>13. SubSeq(data, at + 4, at + 3 + n) = value
  <2>1. PartAt(data, at + 3, value)
    BY <1>3, <1>4, <1>5, <1>8
  <2>2. SubSeq(data, (at + 3) + 1, (at + 3) + Len(value)) = value
    BY <1>7, <2>1, PartIsSub
  <2>3. (at + 3) + 1 = at + 4 /\ (at + 3) + Len(value) = at + 3 + n
    BY <1>3
  <2> QED  BY <2>2, <2>3
<1>14. Len(data) >= at + 3 /\ data[at + 3] \in 0..(Len(data) - at - 3)
  BY <1>7, <1>10
<1>15. d = [ok |-> TRUE, token |-> token, bucket |-> bucket, key |-> key, keyAt |-> g.keyAt,
            ttl |-> data[at + 1], singleRead |-> data[at + 2] = 1,
            value |-> SubSeq(data, at + 4, at + 3 + data[at + 3])]
  BY <1>11, <1>12, <1>14 DEF DecodeSetPayload
<1>16. /\ d.ok = TRUE /\ d.token = token /\ d.bucket = bucket /\ d.key = key
       /\ d.keyAt = g.keyAt /\ d.ttl = ttl /\ d.singleRead = (bit = 1)
       /\ d.value = SubSeq(data, at + 4, at + 3 + n)
  BY <1>10, <1>15
<1>17. (bit = 1) = singleRead
  BY <1>3 DEF Bit
<1>18. SubSeq(data, g.keyAt + 1, g.keyAt + Len(key)) = key
  BY <1>7, <1>12, PartIsSub
<1> QED  BY <1>13, <1>16, <1>17, <1>18
=============================================================================
