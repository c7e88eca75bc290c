------------------------------- MODULE Token -------------------------------
(***************************************************************************)
(* Bucket tokens, internal/auth/token.go, as bytes: the name, a dot, the   *)
(* expiry as a big-endian number (0: never), a dot, the signature of what  *)
(* precedes.  The base64 around it is a bijection and left out.  In the    *)
(* code Base is 256, ExpiryLen 8, Dot 46 and sign is HMAC-SHA256.          *)
(***************************************************************************)
EXTENDS Integers, Sequences, SequencesExt, FiniteSetsExt

CONSTANTS Base, ExpiryLen, Dot, Secret

\* Stands for the MAC: another text or another key gives another signature.
sign(data) == <<Secret>> \o Reverse(data)

\* binary.BigEndian.PutUint64 and Uint64.
PutUint(n) == [i \in 1..ExpiryLen |-> (n \div Base ^ (ExpiryLen - i)) % Base]
Uint(bytes) == FoldLeft(LAMBDA n, byte : n * Base + byte, 0, bytes)

GenerateToken(bucketName, ttlSeconds, now) ==
  LET expiryUnix == IF ttlSeconds > 0 THEN now + ttlSeconds ELSE 0
      dataToSign == bucketName \o <<Dot>> \o PutUint(expiryUnix)
  IN dataToSign \o <<Dot>> \o sign(dataToSign)

\* The first dot after position from, 0 if there is none.
NextDot(bytes, from) ==
  LET dots == {i \in (from + 1)..Len(bytes) : bytes[i] = Dot}
  IN IF dots = {} THEN 0 ELSE Min(dots)

ValidateToken(tokenBytes, expected, now) ==
  LET firstSep == NextDot(tokenBytes, 0)
      secondSep == NextDot(tokenBytes, firstSep)
      expiryBytes == SubSeq(tokenBytes, firstSep + 1, secondSep - 1)
      expiryUnix == Uint(expiryBytes)
  IN /\ tokenBytes # <<>> /\ expected # <<>>
     /\ firstSep > 1
     /\ secondSep - firstSep = ExpiryLen + 1
     /\ SubSeq(tokenBytes, 1, firstSep - 1) = expected
     /\ ~(expiryUnix > 0 /\ now > expiryUnix)
     /\ SubSeq(tokenBytes, secondSep + 1, Len(tokenBytes)) = sign(expected \o <<Dot>> \o expiryBytes)
=============================================================================
