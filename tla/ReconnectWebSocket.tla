-------------------------- MODULE ReconnectWebSocket --------------------------
(***************************************************************************)
(* ReconnectWebSocketClient.Run (network/websocket_reconnect.go), the      *)
(* connections it dials one after the other, the Listen goroutine of each  *)
(* (as WebSocketClient models it, reduced to when it closes and which      *)
(* callbacks it makes), and users that call Close from other goroutines.   *)
(* Connections are numbered by the dial attempt that made them.            *)
(***************************************************************************)
EXTENDS Integers, Sequences

CONSTANTS
  Users,           \* goroutines that call ReconnectWebSocketClient.Close
  MaxReconnects,   \* the field of that name; negative means unlimited
  ReconnectDelay,  \* the field of that name is > 0
  PingInterval,    \* Config.PingInterval > 0
  MaxDials,        \* bound: dial attempts
  MaxMessages      \* bound: messages one connection delivers

ASSUME ReconnectAssumption ==
  /\ MaxReconnects \in Int /\ MaxDials \in Nat /\ MaxMessages \in Nat
  /\ ReconnectDelay \in BOOLEAN /\ PingInterval \in BOOLEAN

Ids == 1..MaxDials
None == 0

VARIABLES
  pc,          \* where Run is
  reconnects,  \* the local counter of Run
  ws,          \* the connection Run holds, None before the first
  client,      \* the field client, None for nil
  dials,       \* history: dial attempts
  closed,      \* WebSocketClient.isClosed of each connection
  sock,        \* the socket of each connection
  stored,      \* history: ReadMessage stored isClosed, no Close had swapped it
  lis,         \* where the Listen goroutine of each connection is
  once,        \* notifyOnce of each connection has fired
  done,        \* the channel done (capacity 1) of each connection
  ctxDone,     \* ctx.Done() is closed
  held,        \* the pointer a user's Close got from Current
  user,        \* where each user's Close call is
  log          \* history: the callbacks made, in order

vars == <<pc, reconnects, ws, client, dials, closed, sock, stored, lis, once,
          done, ctxDone, held, user, log>>
link == <<closed, sock, stored>>
conns == <<link, lis, once, done>>
users == <<held, user>>

RunPc == {"top", "dial", "publish", "connect", "listen", "wait", "disconnect",
          "clear", "close", "sleep", "return"}
\* "failed": a write failed, TCPClient.isClosed is stored and the socket open.
Sock == {"none", "open", "failed", "closed"}
LisPc == {"none", "enter", "read", "message", "error", "close", "done", "end"}
Event == [cb : {"connect", "message", "error", "disconnect"}, id : Ids]
Called(c, i) == log' = Append(log, [cb |-> c, id |-> i])

Init ==
  /\ pc = "top" /\ reconnects = 0 /\ ws = None /\ client = None /\ dials = 0
  /\ closed = [i \in Ids |-> FALSE] /\ stored = [i \in Ids |-> FALSE]
  /\ sock = [i \in Ids |-> "none"] /\ lis = [i \in Ids |-> "none"]
  /\ once = [i \in Ids |-> FALSE] /\ done = [i \in Ids |-> <<>>]
  /\ ctxDone = FALSE /\ log = <<>>
  /\ held = [u \in Users |-> None] /\ user = [u \in Users |-> "idle"]

\* WebSocketClient.Close: only the first swap of isClosed does anything. It
\* writes a close frame and calls TCPClient.Close, which closes the socket
\* unless a failed write (the close frame's included) has stored its isClosed.
CloseConn(i) ==
  IF i = None \/ closed[i]
    THEN UNCHANGED link
    ELSE /\ closed' = [closed EXCEPT ![i] = TRUE]
         /\ \E s \in {"closed", "failed"} :
              sock' = [sock EXCEPT ![i] = IF @ = "open" THEN s ELSE @]
         /\ UNCHANGED stored

\* ReadMessage stores isClosed and leaves the socket to a Close that, finding
\* isClosed set, will not touch it.
StoreClosed(i) ==
  /\ closed' = [closed EXCEPT ![i] = TRUE]
  /\ stored' = [stored EXCEPT ![i] = @ \/ ~closed[i]]
  /\ UNCHANGED sock

-----------------------------------------------------------------------------
(* Run *)

\* The limit test counts every failed dial and every lost connection.
LimitReached_OffByOne == MaxReconnects >= 0 /\ reconnects > MaxReconnects + 1
LimitReached == MaxReconnects >= 0 /\ reconnects > MaxReconnects

Top ==
  /\ pc = "top"
  /\ pc' = IF ctxDone \/ LimitReached THEN "return" ELSE "dial"
  /\ IF ctxDone THEN CloseConn(client) ELSE UNCHANGED link
  /\ UNCHANGED <<reconnects, ws, client, dials, lis, once, done, ctxDone,
                 users, log>>

DialError ==
  /\ pc = "dial" /\ dials < MaxDials
  /\ dials' = dials + 1
  /\ reconnects' = reconnects + 1
  /\ Called("error", dials')
  /\ pc' = "sleep"
  /\ UNCHANGED <<ws, client, conns, ctxDone, users>>

DialOK_ListensFirst ==
  /\ pc = "dial" /\ dials < MaxDials
  /\ dials' = dials + 1
  /\ ws' = dials'
  /\ sock' = [sock EXCEPT ![ws'] = "open"]
  /\ lis' = [lis EXCEPT ![ws'] = "enter"]
  /\ pc' = "publish"
  /\ UNCHANGED <<reconnects, client, closed, stored, once, done, ctxDone, users,
                 log>>
DialOK ==
  /\ pc = "dial" /\ dials < MaxDials
  /\ dials' = dials + 1
  /\ ws' = dials'
  /\ sock' = [sock EXCEPT ![ws'] = "open"]
  /\ pc' = "publish"
  /\ UNCHANGED <<reconnects, client, closed, stored, lis, once, done, ctxDone,
                 users, log>>

Publish ==
  /\ pc = "publish"
  /\ client' = ws
  /\ pc' = "connect"
  /\ UNCHANGED <<reconnects, ws, dials, conns, ctxDone, users, log>>

OnConnect ==
  /\ pc = "connect"
  /\ Called("connect", ws)
  /\ pc' = "listen"
  /\ UNCHANGED <<reconnects, ws, client, dials, conns, ctxDone, users>>

Listen ==
  /\ pc = "listen"
  /\ lis' = [lis EXCEPT ![ws] = "enter"]
  /\ pc' = "wait"
  /\ UNCHANGED <<reconnects, ws, client, dials, link, once, done, ctxDone,
                 users, log>>

\* The two ready branches of the select race; client is left as it is.
CtxWins_NoClose == UNCHANGED link
CtxWins == CloseConn(ws)

WaitCtx ==
  /\ pc = "wait" /\ ctxDone
  /\ CtxWins
  /\ pc' = "return"
  /\ UNCHANGED <<reconnects, ws, client, dials, lis, once, done, ctxDone,
                 users, log>>

WaitDone ==
  /\ pc = "wait" /\ done[ws] # <<>>
  /\ done' = [done EXCEPT ![ws] = Tail(@)]
  /\ pc' = "disconnect"
  /\ UNCHANGED <<reconnects, ws, client, dials, link, lis, once, ctxDone,
                 users, log>>

OnDisconnect ==
  /\ pc = "disconnect"
  /\ Called("disconnect", ws)
  /\ pc' = "clear"
  /\ UNCHANGED <<reconnects, ws, client, dials, conns, ctxDone, users>>

Cleared_Kept == client
Cleared == IF client = ws THEN None ELSE client

Clear ==
  /\ pc = "clear"
  /\ client' = Cleared
  /\ pc' = "close"
  /\ UNCHANGED <<reconnects, ws, dials, conns, ctxDone, users, log>>

CloseLost ==
  /\ pc = "close"
  /\ CloseConn(ws)
  /\ reconnects' = reconnects + 1
  /\ pc' = "sleep"
  /\ UNCHANGED <<ws, client, dials, lis, once, done, ctxDone, users, log>>

\* sleepContext: without a delay it does not look at the context.
Sleep ==
  /\ pc = "sleep"
  /\ \/ pc' = "top"
     \/ ReconnectDelay /\ ctxDone /\ pc' = "return"
  /\ UNCHANGED <<reconnects, ws, client, dials, conns, ctxDone, users, log>>

Run == Top \/ DialError \/ DialOK \/ Publish \/ OnConnect \/ Listen \/ WaitCtx
       \/ WaitDone \/ OnDisconnect \/ Clear \/ CloseLost \/ Sleep

-----------------------------------------------------------------------------
(* The goroutines of one connection *)

Messages(i) == Len(SelectSeq(log, LAMBDA e : e.id = i /\ e.cb = "message"))

\* notifyDone: only the first call sends, and done has room for one value.
NotifyDone_NoOnce(i, v) ==
  /\ done[i] = <<>>
  /\ done' = [done EXCEPT ![i] = Append(@, v)]
  /\ UNCHANGED once
NotifyDone(i, v) ==
  IF once[i]
    THEN UNCHANGED <<once, done>>
    ELSE /\ done[i] = <<>>
         /\ done' = [done EXCEPT ![i] = Append(@, v)]
         /\ once' = [once EXCEPT ![i] = TRUE]

ReadEnter(i) ==
  /\ lis[i] = "enter"
  /\ lis' = [lis EXCEPT ![i] = IF closed[i] THEN "error" ELSE "read"]
  /\ UNCHANGED <<pc, reconnects, ws, client, dials, link, once, done,
                 ctxDone, users, log>>

\* A message, a failed read (isClosed stored), a protocol error (not stored),
\* or the end of the stream or a close frame (stored, no onError).
ReadReturn(i) ==
  /\ lis[i] = "read"
  /\ \/ /\ Messages(i) < MaxMessages
        /\ lis' = [lis EXCEPT ![i] = "message"] /\ UNCHANGED link
     \/ lis' = [lis EXCEPT ![i] = "error"] /\ StoreClosed(i)
     \/ lis' = [lis EXCEPT ![i] = "error"] /\ UNCHANGED link
     \/ lis' = [lis EXCEPT ![i] = "close"] /\ StoreClosed(i)
  /\ UNCHANGED <<pc, reconnects, ws, client, dials, once, done, ctxDone,
                 users, log>>

OnMessage(i) ==
  /\ lis[i] = "message"
  /\ Called("message", i)
  /\ lis' = [lis EXCEPT ![i] = "enter"]
  /\ UNCHANGED <<pc, reconnects, ws, client, dials, link, once, done,
                 ctxDone, users>>

OnListenError(i) ==
  /\ lis[i] = "error"
  /\ NotifyDone(i, "error")
  /\ lis' = [lis EXCEPT ![i] = "close"]
  /\ UNCHANGED <<pc, reconnects, ws, client, dials, link, ctxDone, users, log>>

ListenClose(i) ==
  /\ lis[i] = "close"
  /\ CloseConn(i)
  /\ lis' = [lis EXCEPT ![i] = "done"]
  /\ UNCHANGED <<pc, reconnects, ws, client, dials, once, done, ctxDone,
                 users, log>>

OnListenDone_Silent(i) ==
  /\ lis[i] = "done"
  /\ lis' = [lis EXCEPT ![i] = "end"]
  /\ UNCHANGED <<pc, reconnects, ws, client, dials, link, once, done,
                 ctxDone, users, log>>
OnListenDone(i) ==
  /\ lis[i] = "done"
  /\ NotifyDone(i, "nil")
  /\ lis' = [lis EXCEPT ![i] = "end"]
  /\ UNCHANGED <<pc, reconnects, ws, client, dials, link, ctxDone, users, log>>

\* A frame of a user, the pinger or the reader (a pong, the echo of a close
\* frame) cannot be written: TCPClient.Write stores its isClosed, nothing more.
WriteFails(i) ==
  /\ ~closed[i] /\ sock[i] = "open"
  /\ sock' = [sock EXCEPT ![i] = "failed"]
  /\ UNCHANGED <<pc, reconnects, ws, client, dials, closed, stored, lis, once,
                 done, ctxDone, users, log>>

\* The watcher of Listen on ctx.Done(); the pinger on ctx.Done() or when its
\* ping cannot be written. Both call WebSocketClient.Close.
BackgroundClose(i) ==
  /\ ~closed[i]
  /\ \/ ctxDone /\ lis[i] \in {"enter", "read", "message", "error"}
     \/ PingInterval /\ sock[i] # "none" /\ (ctxDone \/ sock[i] = "failed")
  /\ CloseConn(i)
  /\ UNCHANGED <<pc, reconnects, ws, client, dials, lis, once, done, ctxDone,
                 users, log>>

Listener(i) == ReadEnter(i) \/ ReadReturn(i) \/ OnMessage(i)
               \/ OnListenError(i) \/ ListenClose(i) \/ OnListenDone(i)

-----------------------------------------------------------------------------
(* Users: Close reads the field under its lock and closes what it got later *)

CloseCall(u) ==
  /\ user[u] = "idle"
  /\ held' = [held EXCEPT ![u] = client]
  /\ user' = [user EXCEPT ![u] = "held"]
  /\ UNCHANGED <<pc, reconnects, ws, client, dials, conns, ctxDone, log>>

CloseHeld(u) ==
  /\ user[u] = "held"
  /\ CloseConn(held[u])
  /\ user' = [user EXCEPT ![u] = "returned"]
  /\ UNCHANGED <<pc, reconnects, ws, client, dials, lis, once, done, ctxDone,
                 held, log>>

Cancel ==
  /\ ~ctxDone /\ ctxDone' = TRUE
  /\ UNCHANGED <<pc, reconnects, ws, client, dials, conns, users, log>>

Next ==
  \/ Run \/ Cancel
  \/ \E i \in Ids : Listener(i) \/ WriteFails(i) \/ BackgroundClose(i)
  \/ \E u \in Users : CloseCall(u) \/ CloseHeld(u)

Spec == Init /\ [][Next]_vars

\* The dial returns, timers fire, callbacks return, and a read on a client
\* that was closed fails (always so with a read timeout; WebSocketClient has
\* the case without). What a live connection or a user does is open.
Fairness ==
  /\ WF_vars(Run)
  /\ \A i \in Ids :
       /\ WF_vars(ReadEnter(i) \/ OnMessage(i) \/ OnListenError(i)
                  \/ ListenClose(i) \/ OnListenDone(i))
       /\ WF_vars(closed[i] /\ ReadReturn(i))
       /\ WF_vars(ctxDone /\ BackgroundClose(i))

FairSpec == Spec /\ Fairness

-----------------------------------------------------------------------------
(* Properties *)

\* Every variable stays in its range, and no done channel ever holds more
\* than its capacity of one.
TypeOK ==
  /\ pc \in RunPc /\ reconnects \in 0..MaxDials /\ dials \in 0..MaxDials
  /\ ws \in {None} \cup Ids /\ client \in {None} \cup Ids
  /\ closed \in [Ids -> BOOLEAN] /\ once \in [Ids -> BOOLEAN]
  /\ sock \in [Ids -> Sock] /\ stored \in [Ids -> BOOLEAN]
  /\ lis \in [Ids -> LisPc]
  /\ done \in [Ids -> {<<>>, <<"error">>, <<"nil">>}]
  /\ ctxDone \in BOOLEAN /\ log \in Seq(Event)
  /\ held \in [Users -> {None} \cup Ids]
  /\ user \in [Users -> {"idle", "held", "returned"}]

\* With a limit, Run dials at most MaxReconnects + 1 times over its whole life:
\* failed dials and lost connections are counted alike and never reset.
DialBound == MaxReconnects >= 0 => dials <= MaxReconnects + 1

\* Current never hands out a connection that has been replaced: between
\* connections the field is nil, and what Run leaves in it is closed.
CurrentFresh ==
  /\ client \in {None, ws}
  /\ pc \in {"top", "dial", "publish", "close", "sleep"} => client = None
  /\ pc = "return" /\ client # None => closed[client]

\* When Run returns, no connection it made is usable, and the sockets left open
\* are exactly those of the connections that were lost: where a failed read,
\* the end of the stream or a close frame set isClosed before any Close could,
\* or a write failed, no Close reaches the socket. Every other one is closed.
OnlyLostStayOpen ==
  pc = "return" => \A i \in Ids : sock[i] # "none" =>
    closed[i] /\ (sock[i] = "failed" \/ (sock[i] = "open" <=> stored[i]))

\* What the callbacks of Run see: nothing of a connection before its OnConnect
\* or after its OnDisconnect, and connections one at a time.
CallbackOrder ==
  \A j \in DOMAIN log :
    /\ log[j].cb \in {"message", "disconnect"} =>
         \E i \in 1..(j - 1) : log[i] = [cb |-> "connect", id |-> log[j].id]
    /\ log[j].cb = "connect" =>
         \A i \in 1..(j - 1) : log[i].cb = "connect" =>
           [cb |-> "disconnect", id |-> log[i].id] \in {log[k] : k \in 1..(j - 1)}
    /\ \A i \in 1..(j - 1) : log[i].cb = "disconnect" => log[j].id # log[i].id

\* Cancelling the context makes Run return and every Listen goroutine end:
\* none is left blocked on its done channel.
CancelReturns ==
  ctxDone ~> (pc = "return" /\ \A i \in Ids : lis[i] \in {"none", "end"})

\* A lost connection is noticed: Run dials again, or it returns because of the
\* context or the limit.
LossIsNoticed ==
  \A i \in Ids : (lis[i] = "end") ~> (dials > i \/ pc = "return")

\* After a user's Close of a connection has returned, Run never dials again.
ManualCloseStays ==
  [][(\E u \in Users : user[u] = "returned" /\ held[u] # None) => dials' = dials]_vars

=============================================================================
