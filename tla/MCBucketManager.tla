-------------------------- MODULE MCBucketManager --------------------------
EXTENDS BucketManager, TLC, Sequences

CONSTANTS upper, bad

\* Names spell themselves, upper is another spelling of one of them, bad is no name.
MCNormalise == [raw \in Raw |-> CASE raw = upper -> Default
                                  [] raw = bad -> BadName
                                  [] OTHER -> raw]

\* Requests are interchangeable, and so are the buckets users create.
Symmetry == Permutations(Clients) \cup Permutations(Names \ {Default, EmptyName})

-----------------------------------------------------------------------------
(***************************************************************************)
(* The registry names a token by its bucket.  At the level of bytes, over  *)
(* names of up to two letters: a token without expiry, the only kind the   *)
(* program issues, is valid for its own bucket and for no other, at any    *)
(* time, and no prefix of it is, nor the token with a byte changed.        *)
(* A token with an expiry is valid until then, unless a byte of the expiry *)
(* happens to be a dot: then it never is (token.go:25-131).                *)
(***************************************************************************)
T == INSTANCE Token WITH Base <- 4, ExpiryLen <- 2, Dot <- 3, Secret <- 1
Letters == {1, 2}
TokenNames == UNION {[1..n -> Letters] : n \in 0..2}

ASSUME TokensNameBuckets ==
  \A n, e \in TokenNames, now \in 0..15 :
    LET token == T!GenerateToken(n, 0, 0)
    IN /\ T!ValidateToken(token, e, now) <=> (n = e /\ e # <<>>)
       /\ \A i \in 0..(Len(token) - 1) : ~T!ValidateToken(SubSeq(token, 1, i), e, now)
       /\ \A i \in DOMAIN token, byte \in 0..3 :
            byte # token[i] => ~T!ValidateToken([token EXCEPT ![i] = byte], n, now)

ASSUME TokensExpire ==
  \A n \in TokenNames \ {<<>>}, issuedAt \in 1..7, ttl \in 1..7, now \in 1..15 :
    T!ValidateToken(T!GenerateToken(n, ttl, issuedAt), n, now) <=>
      /\ now <= issuedAt + ttl
      /\ \A i \in 1..2 : T!PutUint(issuedAt + ttl)[i] # 3
=============================================================================
