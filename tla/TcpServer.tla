----------------------------- MODULE TcpServer -----------------------------
(***************************************************************************)
(* The life of the TCP server, internal/transport/tcp/server.go, under     *)
(* main (cmd/kvstore/main.go): Start runs on a goroutine of its own, an    *)
(* accept loop hands connections to goroutines, and on a signal main calls *)
(* Stop, which waits for all of them or for its deadline; then the process *)
(* ends.  The connections are TcpConn's.                                   *)
(***************************************************************************)
EXTENDS TcpConn

VARIABLES
  start,     \* Start: "none", "published" (s.ln is set) or "done"
  acceptor,  \* the accept loop: "off", "run", "adding" (it has a connection) or "done"
  lnClosed,  \* the listener is closed
  stopper    \* Stop: "idle", "wait", "drained" (its goroutine has closed done) and what it
             \* returned, "nil" or "err"

serverVars == <<start, acceptor, lnClosed, stopper>>
vars == <<connVars, serverVars>>

\* Buffers lie inside their arrays and slices in the pool are empty, whatever connections come
\* and go (server.go:42-125).
TypeOK ==
  /\ start \in {"none", "published", "done"}
  /\ acceptor \in {"off", "run", "adding", "done"}
  /\ wg \in Nat
  /\ lnClosed \in BOOLEAN /\ panicked \in BOOLEAN
  /\ stopper \in {"idle", "wait", "drained", "nil", "err"}
  /\ conn \in [Conns -> {"none", "accepted", "read", "parse", "write", "closed"}]
  /\ peer \in [Conns -> BOOLEAN]
  /\ \A c \in Conns :
       IsOpen(c) => /\ buf[c].arr \in DOMAIN mem
                    /\ buf[c].off + buf[c].len <= Len(mem[buf[c].arr])
                    /\ conn[c] = "write" => buf[c].len >= HeaderSize
  /\ \A s \in pool : s.len = 0 /\ s.arr \in DOMAIN mem /\ s.off <= Len(mem[s.arr])

Init ==
  /\ ConnInit
  /\ start = "none"
  /\ acceptor = "off"
  /\ lnClosed = FALSE
  /\ stopper = "idle"

-----------------------------------------------------------------------------
Publish ==
  /\ start = "none"
  /\ start' = "published"
  /\ UNCHANGED <<connVars, acceptor, lnClosed, stopper>>

\* net.Listen fails, and main's log.Fatal ends the process.
ListenError ==
  /\ start = "none"
  /\ panicked' = TRUE
  /\ UNCHANGED <<conn, peer, stream, buf, reply, dataVars, wg, sent, handled, replies, why, serverVars>>

\* s.wg.Add(1) and the goroutine of the accept loop.
Spawn ==
  /\ start = "published"
  /\ start' = "done"
  /\ acceptor' = "run"
  /\ wg' = wg + 1
  /\ UNCHANGED <<conn, peer, stream, buf, reply, dataVars, panicked, sent, handled, replies, why,
                 lnClosed, stopper>>

\* Variant: the goroutine of the connection counts itself.
Accept_CountedLater(c) ==
  /\ acceptor = "run" /\ ~lnClosed
  /\ conn[c] = "none"
  /\ c = CHOOSE d \in Conns : conn[d] = "none"
  /\ conn' = [conn EXCEPT ![c] = "accepted"]
  /\ UNCHANGED <<peer, stream, buf, reply, dataVars, wg, panicked, sent, handled, replies, why,
                 serverVars>>

\* Connections are named in the order they arrive.
Accept(c) ==
  /\ acceptor = "run" /\ ~lnClosed
  /\ conn[c] = "none"
  /\ c = CHOOSE d \in Conns : conn[d] = "none"
  /\ acceptor' = "adding"
  /\ conn' = [conn EXCEPT ![c] = "accepted"]
  /\ UNCHANGED <<peer, stream, buf, reply, dataVars, wg, panicked, sent, handled, replies, why,
                 start, lnClosed, stopper>>

\* s.wg.Add(1) and the goroutine of the connection.
Serve(c) ==
  /\ conn[c] = "accepted"
  /\ wg' = wg + 1
  /\ handleConn(c)
  /\ acceptor' = "run"
  /\ UNCHANGED <<start, lnClosed, stopper>>

\* Any error that is no timeout ends the loop, whether Stop closed the listener or not.
AcceptError ==
  /\ acceptor = "run"
  /\ acceptor' = "done"
  /\ wg' = wg - 1
  /\ UNCHANGED <<conn, peer, stream, buf, reply, dataVars, panicked, sent, handled, replies, why,
                 start, lnClosed, stopper>>

-----------------------------------------------------------------------------
\* A signal arrives and main calls Stop, which closes the listener it finds.
Stop ==
  /\ stopper = "idle"
  /\ stopper' = "wait"
  /\ lnClosed' = (start \in {"published", "done"})
  /\ UNCHANGED <<connVars, start, acceptor>>

\* s.wg.Wait() returns on a goroutine of its own, and done is closed.
WaitDone ==
  /\ stopper = "wait"
  /\ wg = 0
  /\ stopper' = "drained"
  /\ UNCHANGED <<connVars, start, acceptor, lnClosed>>

\* Stop's select finds done closed, sooner or later.
StopDone ==
  /\ stopper = "drained"
  /\ stopper' = "nil"
  /\ UNCHANGED <<connVars, start, acceptor, lnClosed>>

\* Variant: no deadline.
StopTimeout_Waits ==
  /\ stopper = "drained"
  /\ stopper' = "err"
  /\ UNCHANGED <<connVars, start, acceptor, lnClosed>>

\* ctx.Done(): main gives Stop ten seconds.
StopTimeout ==
  /\ stopper \in {"wait", "drained"}
  /\ stopper' = "err"
  /\ UNCHANGED <<connVars, start, acceptor, lnClosed>>

-----------------------------------------------------------------------------
\* When Stop has returned so does main, and the process ends.
Up == ~panicked /\ stopper \in {"idle", "wait", "drained"}

ServerStep ==
  \/ Publish \/ ListenError \/ Spawn \/ AcceptError
  \/ Stop \/ WaitDone \/ StopDone \/ StopTimeout

Next ==
  /\ Up
  /\ \/ ServerStep
     \/ \E c \in Conns :
          \/ Accept(c) \/ Serve(c)
          \/ (Send(c) \/ PeerGone(c) \/ ConnStep(c)) /\ UNCHANGED serverVars

Spec == Init /\ [][Next]_vars

(***************************************************************************)
(* Fairness: goroutines that can run do run, and the deadline of main's    *)
(* context passes.  Nothing makes a peer send, leave or connect, or the    *)
(* signal arrive; a Read without data waits.  Runnable(c) is ENABLED       *)
(* ConnStep(c), spelled out.                                               *)
(***************************************************************************)
Runnable(c) ==
  \/ conn[c] = "read" /\ (stream[c] # <<>> \/ ~peer[c])
  \/ conn[c] \in {"parse", "write"}

Fairness ==
  /\ WF_vars(Up /\ (Publish \/ ListenError \/ Spawn))
  /\ WF_vars(Up /\ \E c \in Conns : Serve(c))
  /\ WF_vars(Up /\ StopTimeout)
  /\ \A c \in Conns : <>[](Up /\ Runnable(c)) => []<><<ConnStep(c)>>_vars

FairSpec == Spec /\ Fairness

-----------------------------------------------------------------------------
(***************************************************************************)
(* If Stop found the listener, it returns nil only when no connection is   *)
(* left, not even one that was accepted while Stop was closing the         *)
(* listener and is not counted yet: the process does not end on a client   *)
(* it could have waited for (server.go:51-53,74-78,93-102).                *)
(***************************************************************************)
AllGone == \A c \in Conns : conn[c] \in {"none", "closed"}
StopDrains == stopper = "nil" /\ lnClosed => AllGone

(***************************************************************************)
(* Every frame a peer has sent is answered, without another one having to  *)
(* arrive, unless the connection is closed or the process ends             *)
(* (server.go:127-176).                                                    *)
(***************************************************************************)
AllAnswered ==
  \A c \in Conns :
    Len(replies[c]) < Len(sent[c])
      ~> Len(replies[c]) = Len(sent[c]) \/ ~IsOpen(c) \/ ~Up

(***************************************************************************)
(* After the signal the process ends, though its peers keep idle           *)
(* connections open (server.go:100-105, main.go:87-95).                    *)
(***************************************************************************)
ShutdownEnds == stopper = "wait" ~> ~Up
=============================================================================
