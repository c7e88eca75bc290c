------------------------------ MODULE Answers ------------------------------
(***************************************************************************)
(* What requests are answered.  Services return errors by name             *)
(* (internal/errs), "nil" for none; each HTTP handler                      *)
(* (internal/transport/http/handlers.go) has a switch that makes a status  *)
(* of them, and the TCP handler one for all commands                       *)
(* (internal/transport/tcp/handler.go).                                    *)
(***************************************************************************)
EXTENDS Naturals

\* TCP status codes (protocol.go).
StatusOK == 0
StatusCreated == 1
StatusNoContent == 2
StatusBadRequest == 16
StatusUnauthorized == 17
StatusNotFound == 18
StatusInternalError == 32
StatusInvalidTTL == 33
StatusKeyExpired == 34

TcpErrors ==
  [ErrInvalidTTL |-> StatusInvalidTTL, ErrKeyNotFound |-> StatusNotFound,
   ErrKeyExpired |-> StatusKeyExpired, ErrUnauthorized |-> StatusUnauthorized]

handleServiceError(err) == IF err \in DOMAIN TcpErrors THEN TcpErrors[err] ELSE StatusInternalError

-----------------------------------------------------------------------------
(***************************************************************************)
(* HTTP handlers: does Auth come before it, does it read a JSON body, the  *)
(* status of success, and the errors its switch knows.                     *)
(***************************************************************************)
CreateKV ==
  [auth |-> TRUE, body |-> TRUE, ok |-> 201,
   errors |-> [ErrInvalidTTL |-> 400, ErrUnauthorized |-> 401, ErrBucketNotFound |-> 404]]

GetKV_Forgets ==
  [auth |-> TRUE, body |-> FALSE, ok |-> 200,
   errors |-> [ErrKeyNotFound |-> 404, ErrKeyExpired |-> 404, ErrUnauthorized |-> 401]]
GetKV ==
  [auth |-> TRUE, body |-> FALSE, ok |-> 200,
   errors |-> [ErrKeyNotFound |-> 404, ErrKeyExpired |-> 404, ErrUnauthorized |-> 401,
               ErrBucketNotFound |-> 404]]

DeleteKV ==
  [auth |-> TRUE, body |-> FALSE, ok |-> 204,
   errors |-> [ErrUnauthorized |-> 401, ErrBucketNotFound |-> 404]]

CreateBucket ==
  [auth |-> FALSE, body |-> TRUE, ok |-> 201,
   errors |-> [ErrBucketAlreadyExists |-> 409, ErrInvalidBucketName |-> 400]]

GetBucket ==
  [auth |-> TRUE, body |-> FALSE, ok |-> 200, errors |-> [ErrBucketNotFound |-> 404]]

DeleteBucket ==
  [auth |-> TRUE, body |-> TRUE, ok |-> 204,
   errors |-> [ErrBucketNotFound |-> 404, ErrUnauthorized |-> 401, ErrCannotDeleteDefault |-> 400]]

\* The service's ListBuckets never fails.
ListBuckets == [auth |-> TRUE, body |-> FALSE, ok |-> 200, errors |-> <<>>]

\* The routes (router.go); all but ListBuckets and CreateBucket have a bucket in their path.
Routes ==
  [CreateKV |-> CreateKV, GetKV |-> GetKV, DeleteKV |-> DeleteKV, CreateBucket |-> CreateBucket,
   GetBucket |-> GetBucket, DeleteBucket |-> DeleteBucket, ListBuckets |-> ListBuckets]

TcpOk == [Set |-> StatusCreated, Get |-> StatusOK, Delete |-> StatusNoContent]

\* The status of the answer to operation op when the service returned err.
Status(op, err) ==
  IF op \in DOMAIN TcpOk
  THEN IF err = "nil" THEN TcpOk[op] ELSE handleServiceError(err)
  ELSE LET h == Routes[op]
       IN IF err = "nil" THEN h.ok
          ELSE IF err \in DOMAIN h.errors THEN h.errors[err] ELSE 500
=============================================================================
