------------------------------ MODULE TCPClient ------------------------------
(***************************************************************************)
(* A connected TCPClient (network/tcp_client.go) shared by the goroutine   *)
(* of Listen, the watcher that Listen starts, a goroutine in ReadFull,     *)
(* writers, and callers of Close. Every failed operation stores isClosed,  *)
(* and only the Close that sets isClosed itself closes the socket. The     *)
(* read deadline belongs to the socket: ReadFull sets it for everyone who  *)
(* is reading.                                                             *)
(***************************************************************************)
EXTENDS Naturals

CONSTANTS
  Closers,   \* goroutines that call Close
  Timeout,   \* c.timeout > 0
  MaxIn      \* bound: chunks the peer sends

VARIABLES
  isClosed,  \* isClosed
  sock,      \* the socket is open
  deadline,  \* a read deadline is set
  listen,    \* the goroutine of Listen
  full,      \* the goroutine that calls ReadFull
  write,     \* the goroutine that calls Write
  close,     \* per caller of Close, and the watcher: where it is
  ctxDone,   \* ctx.Done() is closed
  peer,      \* "up", "eof", "reset"
  queue,     \* chunks received by the kernel and not read
  rcvd,      \* chunks the peer has sent
  reported,  \* history: Listen called onError
  cause      \* history: what stored isClosed first

vars == <<isClosed, sock, deadline, listen, full, write, close, ctxDone, peer,
          queue, rcvd, reported, cause>>

Watcher == "watcher"

Init ==
  /\ isClosed = FALSE /\ sock = TRUE /\ deadline = FALSE
  /\ listen = "loop" /\ full = "idle" /\ write = "idle"
  /\ close = [g \in Closers \cup {Watcher} |-> "idle"]
  /\ ctxDone = FALSE /\ peer = "up" /\ queue = 0 /\ rcvd = 0
  /\ reported = FALSE /\ cause = "none"

\* isClosed.Store(true), or Swap, by an operation that ended so.
Store(why) == isClosed' = TRUE /\ cause' = IF isClosed THEN cause ELSE why

\* The outcomes of conn.Read: data, or why there is none.
CanRead == sock /\ queue > 0
CannotRead ==
  (IF ~sock THEN {"closed"} ELSE {})
    \cup (IF sock /\ queue = 0 /\ peer = "eof" THEN {"eof"} ELSE {})
    \cup (IF sock /\ peer = "reset" THEN {"reset"} ELSE {})
    \cup (IF sock /\ deadline THEN {"timeout"} ELSE {})

-----------------------------------------------------------------------------
(* The goroutine of Listen *)

ListenLoop ==
  /\ listen = "loop"
  /\ listen' = IF isClosed THEN "done" ELSE "read"
  /\ UNCHANGED <<isClosed, sock, deadline, full, write, close, ctxDone, peer,
                 queue, rcvd, reported, cause>>

ListenData ==
  /\ listen = "read" /\ CanRead
  /\ queue' = queue - 1 /\ listen' = "loop"
  /\ UNCHANGED <<isClosed, sock, deadline, full, write, close, ctxDone, peer,
                 rcvd, reported, cause>>

\* EOF ends Listen in silence. A timeout goes back to the loop, which finds
\* isClosed just stored by Read. Anything else is reported, a socket closed by
\* this client included.
ListenQuiet_Any(why) == TRUE
ListenQuiet(why) == why \in {"eof", "timeout"}

ListenFail ==
  /\ listen = "read"
  /\ \E why \in CannotRead :
       /\ Store(why)
       /\ listen' = IF why = "timeout" THEN "loop" ELSE "done"
       /\ reported' = (reported \/ ~ListenQuiet(why))
  /\ UNCHANGED <<sock, deadline, full, write, close, ctxDone, peer, queue, rcvd>>

-----------------------------------------------------------------------------
(* ReadFull: check, set the deadline, read, clear the deadline *)

FullStart ==
  /\ full = "idle" /\ ~isClosed
  /\ full' = "read" /\ deadline' = (deadline \/ Timeout)
  /\ UNCHANGED <<isClosed, sock, listen, write, close, ctxDone, peer, queue,
                 rcvd, reported, cause>>

FullData ==
  /\ full = "read" /\ CanRead
  /\ queue' = queue - 1 /\ full' = "idle"
  /\ deadline' = (deadline /\ ~Timeout)
  /\ UNCHANGED <<isClosed, sock, listen, write, close, ctxDone, peer, rcvd,
                 reported, cause>>

FullFail ==
  /\ full = "read"
  /\ \E why \in CannotRead : Store("full")
  /\ full' = "idle" /\ deadline' = (deadline /\ ~Timeout)
  /\ UNCHANGED <<sock, listen, write, close, ctxDone, peer, queue, rcvd, reported>>

-----------------------------------------------------------------------------
(* Write and Close *)

WriteStart ==
  /\ write = "idle" /\ ~isClosed
  /\ write' = "write"
  /\ UNCHANGED <<isClosed, sock, deadline, listen, full, close, ctxDone, peer,
                 queue, rcvd, reported, cause>>

\* conn.Write succeeds, or fails on a closed or reset connection, on a write
\* deadline, or because the peer no longer receives.
WriteEnd ==
  /\ write = "write" /\ write' = "idle"
  /\ \/ sock /\ peer # "reset" /\ UNCHANGED <<isClosed, cause>>
     \/ Store("write")
  /\ UNCHANGED <<sock, deadline, listen, full, close, ctxDone, peer, queue,
                 rcvd, reported>>

\* The watcher calls Close when the context is done.
CloseSwap(g) ==
  /\ close[g] = "idle" /\ (g = Watcher => ctxDone)
  /\ Store("close")
  /\ close' = [close EXCEPT ![g] = IF isClosed THEN "end" ELSE "conn"]
  /\ UNCHANGED <<sock, deadline, listen, full, write, ctxDone, peer, queue,
                 rcvd, reported>>

CloseConn_Nothing(g) ==
  /\ close[g] = "conn"
  /\ close' = [close EXCEPT ![g] = "end"]
  /\ UNCHANGED <<isClosed, sock, deadline, listen, full, write, ctxDone, peer, queue,
                 rcvd, reported, cause>>
CloseConn(g) ==
  /\ close[g] = "conn"
  /\ sock' = FALSE
  /\ close' = [close EXCEPT ![g] = "end"]
  /\ UNCHANGED <<isClosed, deadline, listen, full, write, ctxDone, peer, queue,
                 rcvd, reported, cause>>

-----------------------------------------------------------------------------
(* The peer and the owner of the context *)

PeerSends ==
  /\ peer = "up" /\ rcvd < MaxIn /\ queue' = queue + 1 /\ rcvd' = rcvd + 1
  /\ UNCHANGED <<isClosed, sock, deadline, listen, full, write, close, ctxDone,
                 peer, reported, cause>>

PeerEnds ==
  /\ peer = "up" /\ peer' \in {"eof", "reset"}
  /\ UNCHANGED <<isClosed, sock, deadline, listen, full, write, close, ctxDone,
                 queue, rcvd, reported, cause>>

Cancel ==
  /\ ~ctxDone /\ ctxDone' = TRUE
  /\ UNCHANGED <<isClosed, sock, deadline, listen, full, write, close, peer,
                 queue, rcvd, reported, cause>>

-----------------------------------------------------------------------------

Listener == ListenLoop \/ ListenData \/ ListenFail
Closing(g) == CloseSwap(g) \/ CloseConn(g)

Next ==
  \/ Listener
  \/ FullStart \/ FullData \/ FullFail \/ WriteStart \/ WriteEnd
  \/ \E g \in Closers \cup {Watcher} : Closing(g)
  \/ PeerSends \/ PeerEnds \/ Cancel

Spec == Init /\ [][Next]_vars

\* The goroutines of Listen are scheduled, and a Close that swapped isClosed
\* goes on; nobody has to call anything, and the peer may stay silent.
Fairness ==
  /\ WF_vars(Listener)
  /\ WF_vars(CloseSwap(Watcher))
  /\ \A g \in Closers \cup {Watcher} : WF_vars(CloseConn(g))
FairSpec == Spec /\ Fairness

-----------------------------------------------------------------------------
(* Properties *)

\* Listen ends without onError only when the peer closed the connection, when
\* another goroutine had stored isClosed before, or when the deadline that a
\* concurrent ReadFull set on the socket struck the Read of Listen; a broken
\* connection that Listen meets first is always reported.
SilenceExplained ==
  listen = "done" /\ ~reported =>
    cause \in {"eof", "full", "write", "close"} \/ (cause = "timeout" /\ Timeout)

\* Cancelling the context ends Listen, unless another goroutine's failed write
\* or ReadFull had stored isClosed first: then no Close reaches the socket.
CancelEndsListen == ctxDone ~> (listen = "done" \/ cause \in {"write", "full"})

=============================================================================
