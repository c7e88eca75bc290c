---------------------------- MODULE MCTcpServer ----------------------------
(***************************************************************************)
(* TcpServer for TLC.  Strings have one cell; the requests peers send are  *)
(* one of each kind the connection loop tells apart.                       *)
(***************************************************************************)
EXTENDS TcpServer

B == <<1>>        \* a bucket, and its token
K == <<5>>        \* a key

Whole(command, payload) ==
  [length |-> HeaderSize + Len(payload), command |-> command, payload |-> payload]

ASet == Whole(CmdSet, EncodeSetPayload(B, B, K, 0, FALSE, <<>>))
AGet == Whole(CmdGet, EncodeGetPayload(B, B, K))
ADelete == Whole(CmdDelete, EncodeGetPayload(B, B, K))
Truncated == Whole(CmdGet, <<1>>)
Short == [length |-> HeaderSize - 1, command |-> CmdGet, payload |-> <<>>]
Huge == Whole(CmdSet, [i \in 1..(MaxConnectionBuffSize - 1) |-> 0])

MCBuckets == {B}
MCRequests == {ASet, AGet, ADelete, Truncated, Short, Huge}

-----------------------------------------------------------------------------
(***************************************************************************)
(* The codec against its reference: what is encoded decodes to itself, and *)
(* no proper prefix of a payload or frame decodes, over all strings of up  *)
(* to two cells (codec.go, protocol.go).                                   *)
(***************************************************************************)
Strings == UNION {[1..n -> {1, 2}] : n \in 0..2}

ASSUME CodecInverts ==
  \A t, k \in Strings, ttl \in {-1, 0, 3}, single \in BOOLEAN, v \in Strings :
    LET payload == EncodeSetPayload(t, B, k, ttl, single, v)
        d == DecodeSetPayload(payload)
    IN /\ d.ok /\ d.token = t /\ d.bucket = B /\ d.key = k
       /\ d.ttl = ttl /\ d.singleRead = single /\ d.value = v
       /\ SubSeq(payload, d.keyAt + 1, d.keyAt + Len(k)) = k
       /\ \A n \in 0..(Len(payload) - 1) : ~DecodeSetPayload(SubSeq(payload, 1, n)).ok

ASSUME FramesInvert ==
  \A payload \in Strings :
    LET frame == Encode(CmdGet, 7, payload)
    IN /\ DecodeFrame(frame) = [ok |-> TRUE, command |-> CmdGet, id |-> 7, payload |-> payload]
       /\ \A n \in 0..(Len(frame) - 1) : ~DecodeFrame(SubSeq(frame, 1, n)).ok
=============================================================================
