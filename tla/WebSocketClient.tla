--------------------------- MODULE WebSocketClient ---------------------------
(***************************************************************************)
(* One established WebSocketClient (network/websocket_client.go) on top of *)
(* its TCPClient (network/tcp_client.go), and the goroutines that share    *)
(* it: the goroutine of Listen and the watcher it starts, the goroutine of *)
(* StartPing, callers of SendText/SendBinary/Ping, and callers of Close.   *)
(* A write is two steps (bytes handed to conn.Write, bytes accepted), so   *)
(* that only the mutex keeps frames apart.                                 *)
(***************************************************************************)
EXTENDS Naturals, Sequences, FiniteSets

CONSTANTS
  Senders,       \* goroutines that call SendText, SendBinary, SendJSON, Ping
  Closers,       \* goroutines that call Close once
  Nobody,        \* the mutex is free
  WriteTimeout,  \* conf.Timeout > 0
  ReadTimeout,   \* the effective readTimeout > 0
  PingInterval,  \* conf.PingInterval > 0
  AutoPong,      \* ~conf.DisableAutoPong
  MaxIn,         \* bound: frames the server sends
  MaxSends       \* bound: frames one sender (or the pinger) gets on the wire

Goroutines == Senders \cup Closers \cup {"listener", "watcher", "pinger"}

\* The goroutines are distinct, and Nobody is none of them.
ASSUME GoroutinesAssumption ==
  /\ Senders \cap Closers = {}
  /\ (Senders \cup Closers) \cap {"listener", "watcher", "pinger"} = {}
  /\ Nobody \notin Goroutines

ASSUME ConfigAssumption ==
  /\ WriteTimeout \in BOOLEAN /\ ReadTimeout \in BOOLEAN
  /\ PingInterval \in BOOLEAN /\ AutoPong \in BOOLEAN
  /\ MaxIn \in Nat /\ MaxSends \in Nat

VARIABLES
  closed,     \* WebSocketClient.isClosed
  tcpClosed,  \* TCPClient.isClosed
  conn,       \* the socket: "open" or "closed" by conn.Close
  mu,         \* WebSocketClient.mu: its holder or Nobody
  pc,         \* where each goroutine is
  out,        \* the frame a goroutine is writing
  wire,       \* everything handed to conn.Write, in order
  inbox,      \* frames the server sent that ReadMessage has not consumed
  rcvd,       \* number of frames the server has sent
  peer,       \* the server: "up", "stalled" (does not drain), "gone"
  ctxDone,    \* ctx.Done() is closed
  chDone,     \* Listen's done channel is closed
  late,       \* history: onMessage calls made after isClosed was set
  stored,     \* history: ReadMessage stored isClosed before any Close swapped it
  writeErr    \* history: some conn.Write has failed

vars == <<closed, tcpClosed, conn, mu, pc, out, wire, inbox, rcvd, peer,
          ctxDone, chDone, late, stored, writeErr>>

\* What the frame read next makes ReadMessage do: return a message, loop (with
\* a partial message, or a ping too large to answer), answer a ping, end on a
\* close frame, or fail (over the size limit, unexpected continuation, unknown
\* opcode).
InFrames  == {"msg", "part", "ping", "close", "bad"}
OutFrames == {"data", "ping", "pong", "close", "echo"}
Fragment  == [by : Goroutines, op : OutFrames, part : {"head", "tail"}]

Writing == {"lock", "write", "flush"}
InClose == Writing \cup {"swap", "tcp"}
PcOf(g) ==
  CASE g \in Senders   -> {"idle"} \cup Writing
    [] g \in Closers   -> {"idle", "end"} \cup InClose
    [] g = "watcher"   -> {"await", "end"} \cup InClose
    [] g = "pinger"    -> {"await", "end"} \cup InClose
    [] g = "listener"  -> {"msg", "read", "deliver", "err", "store", "exit",
                           "done", "end"} \cup InClose

Start(g) ==
  CASE g = "listener" -> "msg"
    [] g = "watcher"  -> "await"
    [] g = "pinger"   -> IF PingInterval THEN "await" ELSE "end"
    [] OTHER          -> "idle"

Init ==
  /\ closed = FALSE /\ tcpClosed = FALSE /\ conn = "open" /\ mu = Nobody
  /\ pc = [g \in Goroutines |-> Start(g)]
  /\ out = [g \in Goroutines |-> "data"]
  /\ wire = <<>> /\ inbox = <<>> /\ rcvd = 0 /\ peer = "up"
  /\ ctxDone = FALSE /\ chDone = FALSE
  /\ late = 0 /\ stored = FALSE /\ writeErr = FALSE

Goto(g, l) == pc' = [pc EXCEPT ![g] = l]

-----------------------------------------------------------------------------
(* Writing one frame: writeFrameLocked under mu, through TCPClient.WriteFull *)

\* Where a goroutine resumes when its Close call returns.
AfterClose(g) == IF g = "listener" THEN "done" ELSE "end"

\* Where a goroutine resumes when its frame write returned, ok or not.
AfterWrite_SkipTcpClose(g, ok) ==
  CASE g \in Senders     -> "idle"
    [] out[g] = "ping"   -> IF ok THEN "await" ELSE "swap"
    [] out[g] = "pong"   -> "read"
    [] out[g] = "echo"   -> "store"
    [] out[g] = "close"  -> AfterClose(g)
AfterWrite(g, ok) ==
  CASE g \in Senders     -> "idle"
    [] out[g] = "ping"   -> IF ok THEN "await" ELSE "swap"
    [] out[g] = "pong"   -> "read"
    [] out[g] = "echo"   -> "store"
    [] out[g] = "close"  -> "tcp"

\* WriteFrame looks at isClosed before it locks mu; writeCloseFrame does not.
MayWrite_NoCheck == TRUE
MayWrite == ~closed

CanLock_CloseUnlocked(g) == mu = Nobody \/ out[g] = "close"
CanLock(g) == mu = Nobody

Lock(g) ==
  /\ pc[g] = "lock" /\ CanLock(g)
  /\ mu' = g
  /\ Goto(g, "write")
  /\ UNCHANGED <<closed, tcpClosed, conn, out, wire, inbox, rcvd, peer,
                 ctxDone, chDone, late, stored, writeErr>>

\* TCPClient.Write: refused when isClosed, otherwise bytes go to the socket.
WriteStart(g) ==
  /\ pc[g] = "write"
  /\ IF tcpClosed
       THEN /\ Goto(g, AfterWrite(g, FALSE))
            /\ mu' = Nobody
            /\ UNCHANGED wire
       ELSE /\ Goto(g, "flush")
            /\ wire' = Append(wire, [by |-> g, op |-> out[g], part |-> "head"])
            /\ UNCHANGED mu
  /\ UNCHANGED <<closed, tcpClosed, conn, out, inbox, rcvd, peer,
                 ctxDone, chDone, late, stored, writeErr>>

WriteDone(g) ==
  /\ pc[g] = "flush"
  /\ conn = "open" /\ peer # "stalled"
  /\ wire' = Append(wire, [by |-> g, op |-> out[g], part |-> "tail"])
  /\ mu' = Nobody
  /\ Goto(g, AfterWrite(g, TRUE))
  /\ UNCHANGED <<closed, tcpClosed, conn, out, inbox, rcvd, peer,
                 ctxDone, chDone, late, stored, writeErr>>

\* SetWriteDeadline is called only when timeout > 0.
WriteDeadline_Missing == FALSE
WriteDeadline == WriteTimeout

\* A failed conn.Write may leave part of the frame behind. TCPClient.Write
\* then stores isClosed, and nothing closes the socket.
WriteFail(g) ==
  /\ pc[g] = "flush"
  /\ \/ conn = "closed"
     \/ peer = "gone"
     \/ peer = "stalled" /\ WriteDeadline
  /\ tcpClosed' = TRUE
  /\ writeErr' = TRUE
  /\ mu' = Nobody
  /\ Goto(g, AfterWrite(g, FALSE))
  /\ UNCHANGED <<closed, conn, out, wire, inbox, rcvd, peer, ctxDone, chDone,
                 late, stored>>

-----------------------------------------------------------------------------
(* Close: swap isClosed, write the close frame, close the TCP client *)

CloseSwap(g) ==
  /\ pc[g] = "swap"
  /\ IF closed
       THEN Goto(g, AfterClose(g)) /\ UNCHANGED <<closed, out>>
       ELSE /\ closed' = TRUE
            /\ out' = [out EXCEPT ![g] = "close"]
            /\ Goto(g, "lock")
  /\ UNCHANGED <<tcpClosed, conn, mu, wire, inbox, rcvd, peer, ctxDone, chDone,
                 late, stored, writeErr>>

\* TCPClient.Close: the socket is closed only by the call that sets isClosed.
TcpClose(g) ==
  /\ pc[g] = "tcp"
  /\ conn' = IF tcpClosed THEN conn ELSE "closed"
  /\ tcpClosed' = TRUE
  /\ Goto(g, AfterClose(g))
  /\ UNCHANGED <<closed, mu, out, wire, inbox, rcvd, peer, ctxDone, chDone,
                 late, stored, writeErr>>

-----------------------------------------------------------------------------
(* Callers *)

Frames(g) == Cardinality({i \in DOMAIN wire : wire[i].by = g /\ wire[i].part = "head"})

SendText(g) ==
  /\ g \in Senders /\ pc[g] = "idle" /\ Frames(g) < MaxSends
  /\ MayWrite
  /\ Goto(g, "lock")
  /\ UNCHANGED <<closed, tcpClosed, conn, mu, out, wire, inbox, rcvd, peer,
                 ctxDone, chDone, late, stored, writeErr>>

CallClose(g) ==
  /\ g \in Closers /\ pc[g] = "idle"
  /\ Goto(g, "swap")
  /\ UNCHANGED <<closed, tcpClosed, conn, mu, out, wire, inbox, rcvd, peer,
                 ctxDone, chDone, late, stored, writeErr>>

-----------------------------------------------------------------------------
(* The goroutine of StartPing and the watcher of Listen *)

PingTick ==
  /\ pc["pinger"] = "await"
  /\ IF MayWrite
       THEN /\ Frames("pinger") < MaxSends
            /\ out' = [out EXCEPT !["pinger"] = "ping"]
            /\ Goto("pinger", "lock")
       ELSE Goto("pinger", "end") /\ UNCHANGED out
  /\ UNCHANGED <<closed, tcpClosed, conn, mu, wire, inbox, rcvd, peer, ctxDone,
                 chDone, late, stored, writeErr>>

CtxClose(g) ==
  /\ g \in {"pinger", "watcher"} /\ pc[g] = "await" /\ ctxDone
  /\ Goto(g, "swap")
  /\ UNCHANGED <<closed, tcpClosed, conn, mu, out, wire, inbox, rcvd, peer,
                 ctxDone, chDone, late, stored, writeErr>>

WatcherDone ==
  /\ pc["watcher"] = "await" /\ chDone
  /\ Goto("watcher", "end")
  /\ UNCHANGED <<closed, tcpClosed, conn, mu, out, wire, inbox, rcvd, peer,
                 ctxDone, chDone, late, stored, writeErr>>

-----------------------------------------------------------------------------
(* The goroutine of Listen: ReadMessage in a loop, then the deferred calls *)

\* ReadMessage returns ErrTCPClientClosed at its entry when isClosed is set.
Entry_NoCheck == "read"
Entry == IF closed THEN "err" ELSE "read"

ReadEnter ==
  /\ pc["listener"] = "msg"
  /\ Goto("listener", Entry)
  /\ UNCHANGED <<closed, tcpClosed, conn, mu, out, wire, inbox, rcvd, peer,
                 ctxDone, chDone, late, stored, writeErr>>

\* One frame out of the bufio.Reader, which may hold frames of a socket that
\* is closed by now. A pong is written only past WriteFrame's check; the echo
\* of a close frame has no check.
ReadFrame ==
  /\ pc["listener"] = "read" /\ inbox # <<>>
  /\ inbox' = Tail(inbox)
  /\ LET f == Head(inbox)
         reply == IF f = "ping" THEN "pong" ELSE "echo"
         answered == f = "close" \/ (f = "ping" /\ AutoPong /\ MayWrite)
     IN  /\ out' = IF answered THEN [out EXCEPT !["listener"] = reply] ELSE out
         /\ Goto("listener", CASE answered   -> "lock"
                               [] f = "msg"  -> "deliver"
                               [] f = "bad"  -> "err"
                               [] OTHER      -> "read")
  /\ UNCHANGED <<closed, tcpClosed, conn, mu, wire, rcvd, peer, ctxDone,
                 chDone, late, stored, writeErr>>

\* A failed read stores isClosed, also when the frame announces more than
\* maxPayloadSize. io.EOF skips onError.
ReadFail ==
  /\ pc["listener"] = "read"
  /\ \/ inbox # <<>> /\ Head(inbox) = "bad" /\ Goto("listener", "err")
     \/ conn = "closed" /\ Goto("listener", "err")
     \/ peer = "gone" /\ Goto("listener", "err")
     \/ peer = "gone" /\ inbox = <<>> /\ Goto("listener", "exit")
     \/ ReadTimeout /\ inbox = <<>> /\ Goto("listener", "err")
  /\ closed' = TRUE
  /\ stored' = (stored \/ ~closed)
  /\ UNCHANGED <<tcpClosed, conn, mu, out, wire, inbox, rcvd, peer, ctxDone,
                 chDone, late, writeErr>>

\* After the echo of a close frame ReadMessage stores isClosed; Listen then
\* returns without onError.
StoreClosed ==
  /\ pc["listener"] = "store"
  /\ closed' = TRUE
  /\ stored' = (stored \/ ~closed)
  /\ Goto("listener", "exit")
  /\ UNCHANGED <<tcpClosed, conn, mu, out, wire, inbox, rcvd, peer, ctxDone,
                 chDone, late, writeErr>>

OnMessage ==
  /\ pc["listener"] = "deliver"
  /\ late' = IF closed THEN late + 1 ELSE late
  /\ Goto("listener", "msg")
  /\ UNCHANGED <<closed, tcpClosed, conn, mu, out, wire, inbox, rcvd, peer,
                 ctxDone, chDone, stored, writeErr>>

OnError ==
  /\ pc["listener"] = "err"
  /\ Goto("listener", "exit")
  /\ UNCHANGED <<closed, tcpClosed, conn, mu, out, wire, inbox, rcvd, peer,
                 ctxDone, chDone, late, stored, writeErr>>

\* The deferred close(done) runs before the deferred Close and onDone.
ListenReturn ==
  /\ pc["listener"] = "exit"
  /\ chDone' = TRUE
  /\ Goto("listener", "swap")
  /\ UNCHANGED <<closed, tcpClosed, conn, mu, out, wire, inbox, rcvd, peer,
                 ctxDone, late, stored, writeErr>>

OnDone ==
  /\ pc["listener"] = "done"
  /\ Goto("listener", "end")
  /\ UNCHANGED <<closed, tcpClosed, conn, mu, out, wire, inbox, rcvd, peer,
                 ctxDone, chDone, late, stored, writeErr>>

-----------------------------------------------------------------------------
(* The server, the network and the owner of the context *)

ServerSends ==
  /\ peer = "up" /\ conn = "open" /\ rcvd < MaxIn
  /\ \E f \in InFrames : inbox' = Append(inbox, f)
  /\ rcvd' = rcvd + 1
  /\ UNCHANGED <<closed, tcpClosed, conn, mu, pc, out, wire, peer, ctxDone,
                 chDone, late, stored, writeErr>>

PeerChange ==
  /\ \/ peer = "up" /\ peer' \in {"stalled", "gone"}
     \/ peer = "stalled" /\ peer' \in {"up", "gone"}
  /\ UNCHANGED <<closed, tcpClosed, conn, mu, pc, out, wire, inbox, rcvd,
                 ctxDone, chDone, late, stored, writeErr>>

Cancel ==
  /\ ~ctxDone /\ ctxDone' = TRUE
  /\ UNCHANGED <<closed, tcpClosed, conn, mu, pc, out, wire, inbox, rcvd, peer,
                 chDone, late, stored, writeErr>>

-----------------------------------------------------------------------------

WriteStep(g) == Lock(g) \/ WriteStart(g) \/ WriteDone(g) \/ WriteFail(g)
CloseStep(g) == CloseSwap(g) \/ TcpClose(g)
Listener == ReadEnter \/ ReadFrame \/ ReadFail \/ StoreClosed \/ OnMessage
            \/ OnError \/ ListenReturn \/ OnDone
Background == PingTick \/ WatcherDone \/ \E g \in {"pinger", "watcher"} : CtxClose(g)
Environment == ServerSends \/ PeerChange \/ Cancel

Next ==
  \/ \E g \in Goroutines : WriteStep(g) \/ CloseStep(g)
  \/ \E g \in Senders : SendText(g)
  \/ \E g \in Closers : CallClose(g)
  \/ Listener \/ Background \/ Environment

Spec == Init /\ [][Next]_vars

\* Goroutines are scheduled, the ticker ticks and deadlines expire; the mutex
\* of sync is starvation free. Callers, server and context owe nothing.
Fairness ==
  /\ \A g \in Goroutines :
       /\ SF_vars(Lock(g))
       /\ WF_vars(WriteStart(g) \/ WriteDone(g) \/ WriteFail(g) \/ CloseStep(g))
  /\ WF_vars(Listener)
  /\ WF_vars(PingTick) /\ WF_vars(WatcherDone)
  /\ \A g \in {"pinger", "watcher"} : WF_vars(CtxClose(g))

FairSpec == Spec /\ Fairness

-----------------------------------------------------------------------------
(* Properties *)

\* Every variable stays in its range; each goroutine only visits the code of
\* its own role (only the listener runs onDone, only senders return to idle).
TypeOK ==
  /\ closed \in BOOLEAN /\ tcpClosed \in BOOLEAN
  /\ conn \in {"open", "closed"} /\ mu \in Goroutines \cup {Nobody}
  /\ pc \in [Goroutines -> UNION {PcOf(g) : g \in Goroutines}]
  /\ \A g \in Goroutines : pc[g] \in PcOf(g)
  /\ out \in [Goroutines -> OutFrames]
  /\ wire \in Seq(Fragment) /\ inbox \in Seq(InFrames)
  /\ rcvd \in Nat /\ late \in Nat
  /\ peer \in {"up", "stalled", "gone"}
  /\ ctxDone \in BOOLEAN /\ chDone \in BOOLEAN
  /\ stored \in BOOLEAN /\ writeErr \in BOOLEAN

\* mu keeps the frames of concurrent writers apart: whatever follows the
\* beginning of a frame on the wire is the rest of that same frame, and a
\* frame torn by a failed write is the last thing ever written.
FramesWhole ==
  \A i \in 1..(Len(wire) - 1) :
    IF wire[i].part = "head"
      THEN wire[i + 1] = [wire[i] EXCEPT !.part = "tail"]
      ELSE wire[i + 1].part = "head"

\* WriteFrame checks isClosed before it takes mu, so a frame can still follow
\* the close frame of Close; but each sender, and the pinger, gets at most the
\* one frame it had already been admitted for.
OneFrameAfterClose ==
  \A g \in Senders \cup {"pinger"} : \A i, j, k \in DOMAIN wire :
    ~ /\ i < j /\ j < k
      /\ wire[i].op = "close"
      /\ wire[j].by = g /\ wire[j].part = "head"
      /\ wire[k].by = g /\ wire[k].part = "head"

\* However Close, a late ReadMessage and buffered frames interleave, at most
\* one message reaches onMessage after the client was closed.
OneLateMessage == late <= 1

\* A client marked closed whose socket is still open is explained: a Close is
\* on its way to tcp.Close, or ReadMessage stored isClosed first, or a failed
\* write stored TCPClient.isClosed first.
SocketAccounted ==
  closed /\ conn = "open" =>
    \/ stored \/ writeErr
    \/ \E g \in Goroutines : \/ pc[g] = "tcp"
                             \/ pc[g] \in Writing /\ out[g] = "close"

\* Cancelling the context ends the goroutines of Listen and of StartPing, even
\* when the server has stopped draining and a write is under way.
CancelEndsGoroutines ==
  ctxDone ~> \A g \in {"listener", "watcher", "pinger"} : pc[g] = "end"

\* A failed write makes Listen finish, so that its owner learns of the loss.
WriteErrorEndsListen == writeErr ~> pc["listener"] = "end"

=============================================================================
