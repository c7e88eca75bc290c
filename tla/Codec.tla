------------------------------- MODULE Codec -------------------------------
(***************************************************************************)
(* The binary protocol, internal/transport/tcp/protocol.go and codec.go:   *)
(* frames and the payloads they carry.  Data is a sequence of cells; every *)
(* fixed-width field (a length, a command, a request id, a TTL, a flag) is *)
(* one cell and every character of a string or value is one cell, so that  *)
(* lengths and offsets keep their meaning.  Offsets count from 0, as in    *)
(* the code.                                                               *)
(***************************************************************************)
EXTENDS Answers, Integers, Sequences

CONSTANTS
  MaxPayloadSize,  \* 16 MB in the code
  StrMod           \* a string's length travels modulo this (2^16 in the code)

ASSUME CodecAssumption == MaxPayloadSize \in Nat \ {0} /\ StrMod \in Nat \ {0}

\* Length, Command, RequestID.
HeaderSize == 3

CmdSet == 1
CmdGet == 2
CmdDelete == 3
CmdResponse == 240
CmdError == 255

-----------------------------------------------------------------------------
(***************************************************************************)
(* Frames.  Encode computes the length; DecodeFrame is the peers' side.    *)
(***************************************************************************)
Encode(command, id, payload) == <<HeaderSize + Len(payload), command, id>> \o payload

NewResponseFrame(id, status, data) == Encode(CmdResponse, id, <<status>> \o data)
\* Variant: the id is not filled in.
NewErrorFrame_NoId(id, status) == Encode(CmdError, 0, <<status>>)
NewErrorFrame(id, status) == Encode(CmdError, id, <<status>>)

NoFrame == [ok |-> FALSE]
DecodeFrame(data) ==
  IF \/ Len(data) < HeaderSize
     \/ data[1] > MaxPayloadSize + HeaderSize
     \/ Len(data) < data[1]
  THEN NoFrame
  ELSE [ok |-> TRUE, command |-> data[2], id |-> data[3],
        payload |-> SubSeq(data, HeaderSize + 1, data[1])]

ParseResponsePayload(payload) ==
  IF payload = <<>> THEN NoFrame ELSE [ok |-> TRUE, status |-> Head(payload), data |-> Tail(payload)]

-----------------------------------------------------------------------------
(***************************************************************************)
(* Strings and payloads.  readString makes no copy: the string it returns  *)
(* is the part of data that begins at offset at.  Lengths are unsigned:    *)
(* what is negative as a TTL is, read as a length, longer than any data.   *)
(***************************************************************************)
writeString(s) == <<Len(s) % StrMod>> \o s

readString(data, offset) ==
  IF Len(data) < offset + 1 \/ data[offset + 1] \notin 0..(Len(data) - offset - 1)
  THEN [ok |-> FALSE, str |-> <<>>, at |-> offset, next |-> offset]
  ELSE LET next == offset + 1 + data[offset + 1]
       IN [ok |-> TRUE, str |-> SubSeq(data, offset + 2, next), at |-> offset + 1, next |-> next]

EncodeGetPayload(token, bucket, key) == writeString(token) \o writeString(bucket) \o writeString(key)

DecodeGetPayload(data) ==
  LET t == readString(data, 0)
      b == readString(data, t.next)
      k == readString(data, b.next)
  IN [ok |-> t.ok /\ b.ok /\ k.ok, token |-> t.str, bucket |-> b.str, key |-> k.str,
      keyAt |-> k.at, next |-> k.next]

Bit(b) == IF b THEN 1 ELSE 0

EncodeSetPayload(token, bucket, key, ttl, singleRead, value) ==
  EncodeGetPayload(token, bucket, key) \o <<ttl, Bit(singleRead), Len(value)>> \o value

\* ttl, flag and value follow the strings; the value is copied.
DecodeSetPayload(data) ==
  LET g == DecodeGetPayload(data)
      at == g.next
      ok == g.ok /\ Len(data) >= at + 3 /\ data[at + 3] \in 0..(Len(data) - at - 3)
  IN [ok |-> ok, token |-> g.token, bucket |-> g.bucket, key |-> g.key, keyAt |-> g.keyAt,
      ttl |-> IF ok THEN data[at + 1] ELSE 0,
      singleRead |-> ok /\ data[at + 2] = 1,
      value |-> IF ok THEN SubSeq(data, at + 4, at + 3 + data[at + 3]) ELSE <<>>]

EncodeValueResponse(key, ttl, createdAt, expiresAt, singleRead, value) ==
  writeString(key) \o <<ttl, createdAt, expiresAt, Bit(singleRead), Len(value)>> \o value
=============================================================================
