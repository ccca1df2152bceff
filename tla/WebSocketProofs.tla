--------------------------- MODULE WebSocketProofs ---------------------------
(***************************************************************************)
(* Proofs about WebSocketClient for every set of senders and closers,      *)
(* every configuration and every bound on frames, and about what its       *)
(* ReadMessage makes of frames of any length.                              *)
(***************************************************************************)
EXTENDS WebSocketClient, Frames, TLAPS

-----------------------------------------------------------------------------
(* Where goroutines may be *)

\* The code each goroutine runs, by role.
LEMMA PcOfRoles ==
  /\ \A g \in Senders : PcOf(g) = {"idle"} \cup Writing
  /\ \A g \in Closers : PcOf(g) = {"idle", "end"} \cup InClose
  /\ \A g \in {"watcher", "pinger"} : PcOf(g) = {"await", "end"} \cup InClose
  /\ PcOf("listener") = {"msg", "read", "deliver", "err", "store", "exit", "done", "end"}
                        \cup InClose
BY GoroutinesAssumption, Zenon DEF PcOf

\* Every goroutine is somewhere in the code of its role.
PcType == /\ pc \in [Goroutines -> UNION {PcOf(g) : g \in Goroutines}]
          /\ \A g \in Goroutines : pc[g] \in PcOf(g)

\* A goroutine that moves within its role moves alone.
LEMMA GotoMoves ==
  ASSUME PcType, NEW g \in Goroutines, NEW l \in PcOf(g), Goto(g, l)
  PROVE  PcType' /\ pc'[g] = l /\ \A h \in Goroutines \ {g} : pc'[h] = pc[h]
BY Zenon DEF PcType, Goto

\* The frames a goroutine writes: senders write data, callers of Close only
\* the close frame, the pinger pings, and the listener answers.
Roles ==
  \A g \in Goroutines :
    /\ g \in Senders => out[g] = "data"
    /\ pc[g] \in Writing =>
         /\ g \in Closers \cup {"watcher"} => out[g] = "close"
         /\ g = "pinger" => out[g] \in {"ping", "close"}
         /\ g = "listener" => out[g] \in {"pong", "echo", "close"}

\* Where a goroutine goes after a frame, or after Close, is code of its role.
LEMMA AfterWriteMoves ==
  ASSUME Roles, NEW g \in Goroutines, NEW ok \in BOOLEAN, pc[g] \in Writing
  PROVE  /\ AfterWrite(g, ok) \in PcOf(g) \ Writing
         /\ out[g] = "close" => AfterWrite(g, ok) = "tcp"
<1>1. CASE g \in Senders
  BY <1>1, PcOfRoles, Zenon DEF AfterWrite, Roles, Writing
<1>2. CASE g \in Closers \cup {"watcher"}
  <2>1. AfterWrite(g, ok) = "tcp"
    BY <1>2, GoroutinesAssumption, Zenon DEF AfterWrite, Roles
  <2> QED
    BY <1>2, <2>1, PcOfRoles, Zenon DEF Writing, InClose
<1>3. CASE g = "pinger"
  <2>1. out[g] \in {"ping", "close"} /\ g \notin Senders
    BY <1>3, GoroutinesAssumption, Zenon DEF Roles
  <2>2. AfterWrite(g, ok) \in {"await", "swap", "tcp"}
        /\ (out[g] = "close" => AfterWrite(g, ok) = "tcp")
    BY <2>1, Zenon DEF AfterWrite
  <2> QED
    BY <1>3, <2>2, PcOfRoles, Zenon DEF Writing, InClose
<1>4. CASE g = "listener"
  <2>1. out[g] \in {"pong", "echo", "close"} /\ g \notin Senders
    BY <1>4, GoroutinesAssumption, Zenon DEF Roles
  <2>2. AfterWrite(g, ok) \in {"read", "store", "tcp"}
        /\ (out[g] = "close" => AfterWrite(g, ok) = "tcp")
    BY <2>1, Zenon DEF AfterWrite
  <2> QED
    BY <1>4, <2>2, PcOfRoles, Zenon DEF Writing, InClose
<1> QED
  BY <1>1, <1>2, <1>3, <1>4, Zenon DEF Goroutines

\* The same for the end of Close; no sender is ever in Close.
LEMMA AfterCloseMoves ==
  ASSUME PcType, NEW g \in Goroutines, pc[g] \in {"swap", "tcp"}
  PROVE  /\ AfterClose(g) \in PcOf(g) /\ AfterClose(g) \in {"done", "end"}
         /\ g \notin Senders /\ "lock" \in PcOf(g)
<1>1. g \notin Senders
  BY PcOfRoles, Zenon DEF PcType, Writing
<1> QED
  BY <1>1, PcOfRoles, Zenon DEF AfterClose, Goroutines, InClose, Writing

-----------------------------------------------------------------------------
(* The inductive invariant *)

Held == {"write", "flush"}
Begun(g) == [by |-> g, op |-> out[g], part |-> "head"]
Last == wire[Len(wire)]

\* mu is held exactly by the goroutine that is writing.
Mutex == \A g \in Goroutines : pc[g] \in Held <=> mu = g

\* A frame is begun on the wire exactly while its writer waits for the rest,
\* or for good once TCPClient.isClosed is set.
Flushing ==
  /\ \A g \in Goroutines : pc[g] = "flush" => wire # <<>> /\ Last = Begun(g)
  /\ wire # <<>> /\ Last.part = "head" /\ ~tcpClosed =>
       \E g \in Goroutines : pc[g] = "flush"

\* The close frame of Close is written only by a goroutine that set isClosed,
\* and TCPClient.isClosed with an open socket goes back to a failed write.
Closing ==
  /\ \A g \in Goroutines : pc[g] \in Writing /\ out[g] = "close" => closed
  /\ tcpClosed /\ conn = "open" => writeErr
  /\ \A i \in DOMAIN wire : wire[i].op = "close" => closed

\* A writer that got a frame out behind the close frame starts no other.
WroteLate(g) ==
  \E i, j \in DOMAIN wire :
    i < j /\ wire[i].op = "close" /\ wire[j].by = g /\ wire[j].part = "head"
Admitted ==
  \A g \in Senders \cup {"pinger"} : WroteLate(g) => pc[g] \notin {"lock", "write"}

\* After a late message the listener is on its way out.
LateLeaves ==
  /\ late <= 1
  /\ late = 1 => closed /\ pc["listener"] \in {"msg", "err", "exit", "swap", "done", "end"}

Inv == /\ TypeOK /\ Roles /\ Mutex /\ Flushing /\ Closing /\ Admitted /\ LateLeaves
       /\ FramesWhole /\ SocketAccounted /\ OneFrameAfterClose

-----------------------------------------------------------------------------
(* Steps that do not write *)

\* Goroutine g moves outside the mutex; nothing is written, isClosed and
\* TCPClient.isClosed are at most set, and g enters a write only when the
\* client was open, or to echo a close frame or answer a ping as the listener.
Move(g, l) ==
  /\ Goto(g, l) /\ l \in PcOf(g) \ Held /\ pc[g] \notin Writing
  /\ UNCHANGED <<mu, wire>> /\ TypeOK' /\ Roles'
  /\ closed => closed'
  /\ tcpClosed => tcpClosed'
  /\ \A h \in Goroutines \ {g} : out'[h] = out[h]
  /\ l = "lock" => g = "listener" \/ ~closed
  /\ l = "lock" /\ out'[g] = "close" => closed'

\* Such a step keeps the parts of the invariant about the wire.
LEMMA MoveKeepsWire ==
  ASSUME Inv, NEW g \in Goroutines, NEW l, Move(g, l)
  PROVE  /\ PcType' /\ pc'[g] = l /\ (\A h \in Goroutines \ {g} : pc'[h] = pc[h])
         /\ Mutex' /\ Flushing' /\ Admitted' /\ FramesWhole' /\ OneFrameAfterClose'
         /\ \A h \in Goroutines : pc'[h] \in Writing /\ out'[h] = "close" => closed'
         /\ \A i \in DOMAIN wire' : wire'[i].op = "close" => closed'
<1>0. PcType
  BY Zenon DEF Inv, TypeOK, PcType
<1>1. PcType' /\ pc'[g] = l /\ \A h \in Goroutines \ {g} : pc'[h] = pc[h]
  BY <1>0, GotoMoves, Zenon DEF Move
<1>2. l \notin Held /\ pc[g] \notin Writing
  BY Zenon DEF Move
<1>3. Mutex'
  BY <1>1, <1>2, Zenon DEF Inv, Mutex, Move, Held, Writing
<1>4. Flushing'
  <2>1. \A h \in Goroutines : pc'[h] = "flush" <=> pc[h] = "flush"
    BY <1>1, <1>2, Zenon DEF Held, Writing
  <2>2. \A h \in Goroutines : pc[h] = "flush" => Begun(h)' = Begun(h)
    BY <1>2, Zenon DEF Move, Begun, Writing
  <2> QED
    BY <2>1, <2>2, Zenon DEF Inv, Flushing, Move, Last
<1>5. FramesWhole' /\ OneFrameAfterClose'
  <2>1. wire' = wire
    BY Zenon DEF Move
  <2> QED
    BY <2>1 DEF Inv, FramesWhole, OneFrameAfterClose
<1>6. \A i \in DOMAIN wire' : wire'[i].op = "close" => closed'
  BY Zenon DEF Inv, Closing, Move
<1>7. \A h \in Goroutines : pc'[h] \in Writing /\ out'[h] = "close" => closed'
  BY <1>1, <1>2, Zenon DEF Inv, Closing, Move, Held, Writing
<1>8. Admitted'
  <2>1. ASSUME NEW h \in Senders \cup {"pinger"}, WroteLate(h)' PROVE pc'[h] \notin {"lock", "write"}
    <3>1. WroteLate(h) /\ closed /\ h \in Goroutines
      BY <2>1, Zenon DEF WroteLate, Move, Inv, Closing, Goroutines
    <3>2. pc[h] \notin {"lock", "write"}
      BY <2>1, <3>1, Zenon DEF Inv, Admitted
    <3>3. CASE h = g
      BY <1>1, <1>2, <3>1, <3>3, <2>1, GoroutinesAssumption, Zenon DEF Move, Held
    <3> QED
      BY <1>1, <3>1, <3>2, <3>3, Zenon
  <2> QED
    BY <2>1, Zenon DEF Admitted
<1> QED
  BY <1>1, <1>3, <1>4, <1>5, <1>6, <1>7, <1>8, Zenon

\* A move that leaves the socket alone keeps the invariant, provided a client it
\* marks closed is accounted for.
LEMMA MoveKeepsInv ==
  ASSUME Inv, NEW g \in Goroutines, NEW l, Move(g, l), pc[g] # "tcp",
         UNCHANGED <<tcpClosed, conn, writeErr>>, stored => stored',
         closed' => closed \/ stored' \/ (l = "lock" /\ out'[g] = "close"),
         LateLeaves'
  PROVE  Inv'
<1>1. /\ PcType' /\ pc'[g] = l /\ (\A h \in Goroutines \ {g} : pc'[h] = pc[h])
      /\ Mutex' /\ Flushing' /\ Admitted' /\ FramesWhole' /\ OneFrameAfterClose'
      /\ \A h \in Goroutines : pc'[h] \in Writing /\ out'[h] = "close" => closed'
      /\ \A i \in DOMAIN wire' : wire'[i].op = "close" => closed'
  BY MoveKeepsWire, Zenon
<1>2. Closing'
  BY <1>1, Zenon DEF Inv, Closing
<1>3. SocketAccounted'
  <2> SUFFICES ASSUME closed', conn = "open", ~stored', ~writeErr
               PROVE  \E h \in Goroutines : \/ pc'[h] = "tcp"
                                            \/ pc'[h] \in Writing /\ out'[h] = "close"
    BY Zenon DEF SocketAccounted
  <2>1. CASE l = "lock" /\ out'[g] = "close"
    BY <1>1, <2>1, Zenon DEF Writing
  <2>2. CASE closed
    <3>1. PICK h \in Goroutines : pc[h] = "tcp" \/ (pc[h] \in Writing /\ out[h] = "close")
      BY <2>2, Zenon DEF Inv, SocketAccounted
    <3>2. h # g
      BY <3>1, Zenon DEF Move
    <3> QED
      BY <1>1, <3>1, <3>2, Zenon DEF Move
  <2> QED
    BY <2>1, <2>2, Zenon
<1> QED
  BY <1>1, <1>2, <1>3, Zenon DEF Inv, Move

\* A step of another goroutine does not concern the listener's late messages.
LEMMA OthersKeepLate ==
  ASSUME Inv, pc'["listener"] = pc["listener"], late' = late, closed => closed'
  PROVE  LateLeaves'
BY Zenon DEF Inv, LateLeaves

\* A goroutine that is not in a write moves to another place that is none.
LEMMA PlainMove ==
  ASSUME Inv, NEW g \in Goroutines, NEW l \in PcOf(g) \ Writing, Goto(g, l),
         pc[g] \notin Writing, UNCHANGED <<tcpClosed, conn, mu, out, wire>>,
         inbox' \in Seq(InFrames), UNCHANGED <<rcvd, peer, ctxDone>>,
         late' \in Nat, closed' \in BOOLEAN, chDone' \in BOOLEAN, stored' \in BOOLEAN,
         writeErr' \in BOOLEAN, closed => closed'
  PROVE  Move(g, l)
<1>1. PcType' /\ pc'[g] = l /\ \A h \in Goroutines \ {g} : pc'[h] = pc[h]
  BY GotoMoves, Zenon DEF Inv, TypeOK, PcType
<1>2. TypeOK'
  BY <1>1, Zenon DEF Inv, TypeOK, PcType
<1>3. Roles'
  BY <1>1, Zenon DEF Inv, Roles
<1> QED
  BY <1>2, <1>3, Zenon DEF Move, Held, Writing

-----------------------------------------------------------------------------
(* Callers, the pinger and the watcher *)

\* SendText and a tick of the pinger enter a write only while the client is open.
LEMMA SendKeepsInv ==
  ASSUME Inv, PingTick \/ \E g \in Senders : SendText(g)
  PROVE  Inv'
<1>0. PcType /\ \A g \in Senders \cup {"pinger"} : g \in Goroutines /\ g # "listener"
  BY GoroutinesAssumption, Zenon DEF Inv, TypeOK, PcType, Goroutines
<1>1. ASSUME NEW g \in Senders, SendText(g) PROVE Inv'
  <2>1. "lock" \in PcOf(g)
    BY <1>1, PcOfRoles, Zenon DEF Writing
  <2>2. PcType' /\ pc'[g] = "lock" /\ \A h \in Goroutines \ {g} : pc'[h] = pc[h]
    BY <1>0, <1>1, <2>1, GotoMoves, Zenon DEF SendText
  <2>3. TypeOK'
    BY <1>1, <2>2, SMTT(60) DEF SendText, Inv, TypeOK, PcType
  <2>4. Roles'
    BY <1>0, <1>1, <2>2, GoroutinesAssumption, ZenonT(60) DEF SendText, Inv, Roles
  <2>5. out[g] = "data"
    BY <1>0, Zenon DEF Inv, Roles
  <2>6. Move(g, "lock")
    BY <1>1, <2>1, <2>3, <2>4, <2>5, Zenon DEF SendText, MayWrite, Move, Held, Writing
  <2>7. LateLeaves'
    BY <1>0, <1>1, <2>2, OthersKeepLate, Zenon DEF SendText, Goroutines
  <2> QED
    BY <1>0, <1>1, <2>6, <2>7, MoveKeepsInv, Zenon DEF SendText
<1>2. CASE PingTick
  <2> DEFINE g == "pinger"
  <2>0. g \in Goroutines /\ pc[g] = "await"
    BY <1>0, <1>2, Zenon DEF PingTick
  <2>1. CASE MayWrite
    <3>1. "lock" \in PcOf(g)
      BY PcOfRoles, Zenon DEF InClose, Writing
    <3>2. PcType' /\ pc'[g] = "lock" /\ \A h \in Goroutines \ {g} : pc'[h] = pc[h]
      BY <1>0, <1>2, <2>0, <2>1, <3>1, GotoMoves, Zenon DEF PingTick
    <3>3. out' \in [Goroutines -> OutFrames] /\ out'[g] = "ping"
          /\ \A h \in Goroutines \ {g} : out'[h] = out[h]
      BY <1>2, <2>0, <2>1, Zenon DEF PingTick, Inv, TypeOK, OutFrames
    <3>4. TypeOK'
      BY <1>2, <3>2, <3>3, SMTT(60) DEF PingTick, Inv, TypeOK, PcType
    <3>5. Roles'
      BY <1>0, <3>2, <3>3, GoroutinesAssumption, Zenon DEF Inv, Roles
    <3>6. Move(g, "lock")
      BY <1>2, <2>0, <2>1, <3>1, <3>3, <3>4, <3>5, Zenon DEF PingTick, MayWrite, Move, Held, Writing
    <3>7. LateLeaves'
      BY <1>0, <1>2, <3>2, OthersKeepLate, Zenon DEF PingTick, Goroutines
    <3> QED
      BY <1>2, <2>0, <3>6, <3>7, MoveKeepsInv, Zenon DEF PingTick
  <2>2. CASE ~MayWrite
    <3>1. "end" \in PcOf(g) \ Writing
      BY PcOfRoles, Zenon DEF Writing
    <3>2. Move(g, "end")
      BY <1>2, <2>0, <2>2, <3>1, PlainMove, Zenon DEF PingTick, Inv, TypeOK, Writing
    <3>3. LateLeaves'
      BY <1>0, <1>2, <2>0, <3>2, OthersKeepLate, MoveKeepsWire, ZenonT(60) DEF PingTick, Goroutines
    <3> QED
      BY <1>2, <2>0, <3>2, <3>3, MoveKeepsInv, Zenon DEF PingTick
  <2> QED
    BY <2>1, <2>2, Zenon
<1> QED
  BY <1>1, <1>2, Zenon

\* The other steps of callers, pinger and watcher only move.
LEMMA BackgroundKeepsInv ==
  ASSUME Inv, \/ \E g \in Closers : CallClose(g)
              \/ WatcherDone
              \/ \E g \in {"pinger", "watcher"} : CtxClose(g)
  PROVE  Inv'
<1>1. PICK g \in Goroutines \ {"listener"} :
        CallClose(g) \/ (g = "watcher" /\ WatcherDone) \/ CtxClose(g)
  BY GoroutinesAssumption, Zenon DEF Goroutines
<1>2. PICK l \in {"swap", "end"} : Goto(g, l) /\ l \in PcOf(g) \ Writing
  BY <1>1, PcOfRoles DEF CallClose, WatcherDone, CtxClose, InClose, Writing
<1>3. pc[g] \in {"idle", "await"}
      /\ UNCHANGED <<closed, tcpClosed, conn, mu, out, wire, inbox, rcvd, peer,
                     ctxDone, chDone, late, stored, writeErr>>
  BY <1>1, Zenon DEF CallClose, WatcherDone, CtxClose
<1>4. Move(g, l)
  BY <1>2, <1>3, PlainMove, Zenon DEF Inv, TypeOK, Writing
<1>5. LateLeaves'
  BY <1>3, <1>4, OthersKeepLate, MoveKeepsWire, ZenonT(60) DEF Goroutines
<1> QED
  BY <1>3, <1>4, <1>5, <1>2, MoveKeepsInv, Zenon

-----------------------------------------------------------------------------
(* The listener *)

\* The steps of the listener outside a write.
LEMMA ListenerKeepsInv ==
  ASSUME Inv, Listener
  PROVE  Inv'
<1> DEFINE g == "listener"
<1>0. g \in Goroutines /\ PcType /\ (closed \in BOOLEAN /\ stored \in BOOLEAN /\ late \in Nat)
      /\ inbox \in Seq(InFrames) /\ chDone \in BOOLEAN /\ writeErr \in BOOLEAN
  BY Zenon DEF Inv, TypeOK, PcType, Goroutines
<1>1. {"msg", "read", "deliver", "err", "store", "exit", "done", "end", "swap"}
        \subseteq PcOf(g) \ Writing /\ "lock" \in PcOf(g)
  BY PcOfRoles, Zenon DEF InClose, Writing
<1>2. CASE ReadEnter
  <2>1. Entry \in {"err", "read"} /\ (closed => Entry = "err") /\ pc[g] = "msg"
    BY <1>2, Zenon DEF Entry, ReadEnter
  <2>2. Move(g, Entry)
    BY <1>0, <1>1, <1>2, <2>1, PlainMove, Zenon DEF ReadEnter, Writing
  <2>3. LateLeaves'
    BY <1>0, <1>2, <2>1, <2>2, MoveKeepsWire, Zenon DEF ReadEnter, Inv, LateLeaves
  <2> QED
    BY <1>0, <1>2, <2>1, <2>2, <2>3, MoveKeepsInv, Zenon DEF ReadEnter
<1>3. CASE ReadFrame
  <2> DEFINE f == Head(inbox)
             reply == IF f = "ping" THEN "pong" ELSE "echo"
             answered == f = "close" \/ (f = "ping" /\ AutoPong /\ MayWrite)
  <2>1. pc[g] = "read" /\ inbox' \in Seq(InFrames) /\ late = 0
        /\ UNCHANGED <<closed, tcpClosed, conn, mu, wire, rcvd, peer, ctxDone, chDone,
                       late, stored, writeErr>>
    BY <1>0, <1>3 DEF ReadFrame, Inv, LateLeaves
  <2>2. CASE answered
    <3>1. Goto(g, "lock") /\ out' = [out EXCEPT ![g] = reply]
      BY <1>3, <2>2, Zenon DEF ReadFrame
    <3>2. PcType' /\ pc'[g] = "lock" /\ \A h \in Goroutines \ {g} : pc'[h] = pc[h]
      BY <1>0, <1>1, <3>1, GotoMoves, Zenon
    <3>3. out' \in [Goroutines -> OutFrames] /\ out'[g] \in {"pong", "echo"}
          /\ \A h \in Goroutines \ {g} : out'[h] = out[h]
      BY <1>0, <3>1, Zenon DEF Inv, TypeOK, OutFrames
    <3>4. TypeOK'
      BY <2>1, <3>2, <3>3, ZenonT(60) DEF Inv, TypeOK, PcType
    <3>5. Roles'
      BY <3>2, <3>3, GoroutinesAssumption, Zenon DEF Inv, Roles
    <3>6. Move(g, "lock")
      BY <1>1, <2>1, <3>1, <3>3, <3>4, <3>5, Zenon DEF Move, Held, Writing
    <3>7. LateLeaves'
      BY <2>1 DEF LateLeaves
    <3> QED
      BY <1>0, <2>1, <3>6, <3>7, MoveKeepsInv, Zenon
  <2>3. CASE ~answered
    <3>1. UNCHANGED out /\ \E l \in {"deliver", "err", "read"} : Goto(g, l)
      BY <1>3, <2>3, Zenon DEF ReadFrame
    <3>2. PICK l \in {"deliver", "err", "read"} : Goto(g, l)
      BY <3>1, Zenon
    <3>3. Move(g, l)
      BY <1>0, <1>1, <2>1, <3>1, <3>2, PlainMove, Zenon DEF Writing
    <3>4. LateLeaves'
      BY <2>1 DEF LateLeaves
    <3> QED
      BY <1>0, <2>1, <3>2, <3>3, <3>4, MoveKeepsInv, Zenon
  <2> QED
    BY <2>2, <2>3, Zenon
<1>4. CASE ReadFail \/ StoreClosed
  <2>1. PICK l \in {"err", "exit"} : Goto(g, l)
    BY <1>4, Zenon DEF ReadFail, StoreClosed
  <2>2. pc[g] \in {"read", "store"} /\ closed' = TRUE /\ stored' = (stored \/ ~closed) /\ late = 0
        /\ UNCHANGED <<tcpClosed, conn, mu, out, wire, inbox, rcvd, peer, ctxDone, chDone,
                       late, writeErr>>
    BY <1>0, <1>4 DEF ReadFail, StoreClosed, Inv, LateLeaves
  <2>3. closed' \in BOOLEAN /\ stored' \in BOOLEAN /\ (stored => stored') /\ (closed \/ stored')
    BY <1>0, <2>2, ZenonT(60)
  <2>4. Move(g, l)
    BY <1>0, <1>1, <2>1, <2>2, <2>3, PlainMove, Zenon DEF Writing
  <2>5. LateLeaves'
    BY <2>2 DEF LateLeaves
  <2> QED
    BY <1>0, <2>2, <2>3, <2>4, <2>5, MoveKeepsInv, Zenon
<1>5. CASE OnMessage
  <2>1. pc[g] = "deliver" /\ late = 0 /\ late' = (IF closed THEN 1 ELSE 0) /\ Goto(g, "msg")
        /\ UNCHANGED <<closed, tcpClosed, conn, mu, out, wire, inbox, rcvd, peer, ctxDone,
                       chDone, stored, writeErr>>
    BY <1>0, <1>5 DEF OnMessage, Inv, LateLeaves
  <2>2. Move(g, "msg")
    BY <1>0, <1>1, <2>1, PlainMove, Zenon DEF Writing
  <2>3. LateLeaves'
    BY <1>0, <2>1, <2>2, MoveKeepsWire DEF LateLeaves
  <2> QED
    BY <1>0, <2>1, <2>2, <2>3, MoveKeepsInv, Zenon
<1>6. CASE OnError \/ ListenReturn \/ OnDone
  <2>1. PICK l \in {"exit", "swap", "end"} : Goto(g, l)
    BY <1>6, Zenon DEF OnError, ListenReturn, OnDone
  <2>2. pc[g] \in {"err", "exit", "done"} /\ chDone' \in BOOLEAN
        /\ UNCHANGED <<closed, tcpClosed, conn, mu, out, wire, inbox, rcvd, peer, ctxDone,
                       late, stored, writeErr>>
    BY <1>0, <1>6, ZenonT(60) DEF OnError, ListenReturn, OnDone
  <2>3. Move(g, l)
    BY <1>0, <1>1, <2>1, <2>2, PlainMove, Zenon DEF Writing
  <2>4. LateLeaves'
    BY <1>0, <2>1, <2>2, <2>3, MoveKeepsWire, Zenon DEF Inv, LateLeaves
  <2> QED
    BY <1>0, <2>1, <2>2, <2>3, <2>4, MoveKeepsInv, Zenon
<1> QED
  BY <1>2, <1>3, <1>4, <1>5, <1>6, Zenon DEF Listener

-----------------------------------------------------------------------------
(* Close *)

\* The swap of isClosed and the close of the TCP client.
LEMMA CloseKeepsInv ==
  ASSUME Inv, NEW g \in Goroutines, CloseStep(g)
  PROVE  Inv'
<1>0. PcType /\ closed \in BOOLEAN /\ late \in Nat
  BY Zenon DEF Inv, TypeOK, PcType
<1>1. /\ AfterClose(g) \in PcOf(g) /\ AfterClose(g) \in {"done", "end"}
      /\ g \notin Senders /\ "lock" \in PcOf(g)
  BY <1>0, AfterCloseMoves, Zenon DEF CloseStep, CloseSwap, TcpClose
<1>2. CASE CloseSwap(g) /\ closed
  <2>1. Move(g, AfterClose(g))
    BY <1>1, <1>2, PlainMove, Zenon DEF CloseSwap, Inv, TypeOK, Writing
  <2>2. LateLeaves'
    BY <1>0, <1>1, <1>2, <2>1, MoveKeepsWire, Zenon DEF CloseSwap, Inv, LateLeaves, Goroutines
  <2> QED
    BY <1>1, <1>2, <2>1, <2>2, MoveKeepsInv, Zenon DEF CloseSwap
<1>3. CASE CloseSwap(g) /\ ~closed
  <2>1. Goto(g, "lock") /\ closed' = TRUE /\ out' = [out EXCEPT ![g] = "close"] /\ pc[g] = "swap"
        /\ UNCHANGED <<tcpClosed, conn, mu, wire, inbox, rcvd, peer, ctxDone, chDone,
                       late, stored, writeErr>>
    BY <1>3, Zenon DEF CloseSwap
  <2>2. PcType' /\ pc'[g] = "lock" /\ \A h \in Goroutines \ {g} : pc'[h] = pc[h]
    BY <1>0, <1>1, <2>1, GotoMoves, Zenon
  <2>3. out' \in [Goroutines -> OutFrames] /\ out'[g] = "close"
        /\ \A h \in Goroutines \ {g} : out'[h] = out[h]
    BY <2>1, Zenon DEF Inv, TypeOK, OutFrames
  <2>4. TypeOK'
    <3>1. closed' \in BOOLEAN
      BY <2>1, Zenon
    <3> QED
      BY <2>1, <2>2, <2>3, <3>1, Zenon DEF Inv, TypeOK, PcType
  <2>5. Roles'
    BY <1>1, <2>2, <2>3, Zenon DEF Inv, Roles
  <2>6. Move(g, "lock")
    BY <1>1, <1>3, <2>1, <2>3, <2>4, <2>5, Zenon DEF Move, Held, Writing
  <2>7. LateLeaves'
    BY <1>0, <1>3, <2>1, Zenon DEF Inv, LateLeaves
  <2> QED
    BY <2>1, <2>3, <2>6, <2>7, MoveKeepsInv, Zenon
<1>4. CASE TcpClose(g)
  <2>1. Goto(g, AfterClose(g)) /\ tcpClosed' = TRUE /\ pc[g] = "tcp"
        /\ conn' = (IF tcpClosed THEN conn ELSE "closed")
        /\ UNCHANGED <<closed, mu, out, wire, inbox, rcvd, peer, ctxDone, chDone,
                       late, stored, writeErr>>
    BY <1>4, Zenon DEF TcpClose
  <2>2. PcType' /\ pc'[g] = AfterClose(g) /\ \A h \in Goroutines \ {g} : pc'[h] = pc[h]
    BY <1>0, <1>1, <2>1, GotoMoves, Zenon
  <2>3. TypeOK'
    <3>1. tcpClosed' \in BOOLEAN
      BY <2>1, Zenon
    <3> QED
      BY <2>1, <2>2, <3>1, Zenon DEF Inv, TypeOK, PcType
  <2>4. Roles'
    BY <1>1, <2>1, <2>2, Zenon DEF Inv, Roles, Writing
  <2>5. Move(g, AfterClose(g))
    BY <1>1, <2>1, <2>3, <2>4, Zenon DEF Move, Held, Writing
  <2>6. conn' = "open" => writeErr'
    BY <2>1, Zenon DEF Inv, Closing
  <2>7. Closing' /\ SocketAccounted'
    BY <2>5, <2>6, MoveKeepsWire, Zenon DEF Closing, SocketAccounted
  <2>8. LateLeaves'
    BY <1>0, <2>1, <2>2, Zenon DEF Inv, LateLeaves, Goroutines
  <2> QED
    BY <2>3, <2>4, <2>5, <2>7, <2>8, MoveKeepsWire, Zenon DEF Inv
<1> QED
  BY <1>2, <1>3, <1>4, ZenonT(60) DEF CloseStep, CloseSwap

\* The server, the network and the context change nothing the client relies on.
LEMMA EnvironmentKeepsInv ==
  ASSUME Inv, Environment \/ UNCHANGED vars
  PROVE  Inv'
<1>1. UNCHANGED <<closed, tcpClosed, conn, mu, pc, out, wire, chDone, late, stored, writeErr>>
  BY Zenon DEF Environment, ServerSends, PeerChange, Cancel, vars
<1>2. inbox' \in Seq(InFrames) /\ rcvd' \in Nat /\ peer' \in {"up", "stalled", "gone"}
      /\ ctxDone' \in BOOLEAN
  <2>1. CASE ServerSends
    BY <2>1 DEF ServerSends, Inv, TypeOK
  <2>2. CASE PeerChange \/ UNCHANGED vars
    BY <2>2, Zenon DEF PeerChange, vars, Inv, TypeOK
  <2>3. CASE Cancel
    <3>1. ctxDone' \in BOOLEAN
      BY <2>3, Zenon DEF Cancel
    <3> QED
      BY <2>3, <3>1, Zenon DEF Cancel, Inv, TypeOK
  <2> QED
    BY <2>1, <2>2, <2>3, Zenon DEF Environment
<1>3. TypeOK'
  BY <1>1, <1>2, Zenon DEF Inv, TypeOK
<1>4. Roles' /\ Mutex' /\ Closing' /\ LateLeaves' /\ SocketAccounted'
  BY <1>1, Zenon DEF Inv, Roles, Mutex, Closing, LateLeaves, SocketAccounted
<1>5. Flushing' /\ Admitted'
  BY <1>1, ZenonT(60) DEF Inv, Flushing, Begun, Last, Admitted, WroteLate
<1>6. FramesWhole' /\ OneFrameAfterClose'
  BY <1>1 DEF Inv, FramesWhole, OneFrameAfterClose
<1> QED
  BY <1>3, <1>4, <1>5, <1>6, Zenon DEF Inv

-----------------------------------------------------------------------------
(* Writing *)

\* Only one goroutine is writing, and mu names it.
LEMMA SoleWriter ==
  ASSUME Inv, NEW g \in Goroutines, pc[g] \in Held
  PROVE  mu = g /\ \A h \in Goroutines \ {g} : pc[h] \notin Held
BY Zenon DEF Inv, Mutex

\* A listener inside a write has delivered no late message.
LEMMA WriterNotLate ==
  ASSUME Inv, NEW g \in Goroutines, pc[g] \in Writing, late' = late, closed' = closed,
         \A h \in Goroutines \ {g} : pc'[h] = pc[h]
  PROVE  LateLeaves'
<1>1. "listener" \in Goroutines /\ late \in Nat
  BY Zenon DEF Inv, TypeOK, Goroutines
<1> QED
  BY <1>1, Zenon DEF Inv, LateLeaves, Writing

\* A writer stays accountable for the socket until it reaches tcp.Close.
LEMMA WriterAccounts ==
  ASSUME Inv, NEW g \in Goroutines, pc[g] \in Writing,
         \A h \in Goroutines \ {g} : pc'[h] = pc[h],
         out[g] = "close" => pc'[g] \in Writing \cup {"tcp"},
         UNCHANGED <<closed, conn, out, stored>>, writeErr => writeErr'
  PROVE  SocketAccounted'
<1> SUFFICES ASSUME closed, conn = "open", ~stored, ~writeErr
             PROVE  \E h \in Goroutines : \/ pc'[h] = "tcp"
                                          \/ pc'[h] \in Writing /\ out[h] = "close"
  BY Zenon DEF SocketAccounted
<1>1. PICK h \in Goroutines : pc[h] = "tcp" \/ (pc[h] \in Writing /\ out[h] = "close")
  BY Zenon DEF Inv, SocketAccounted
<1>2. CASE h = g
  BY <1>1, <1>2, Zenon DEF Writing
<1> QED
  BY <1>1, <1>2, Zenon

\* Taking mu.
LEMMA LockKeepsInv ==
  ASSUME Inv, NEW g \in Goroutines, Lock(g)
  PROVE  Inv'
<1>0. PcType /\ pc[g] = "lock" /\ mu = Nobody /\ mu' = g /\ Goto(g, "write")
      /\ UNCHANGED <<closed, tcpClosed, conn, out, wire, inbox, rcvd, peer,
                     ctxDone, chDone, late, stored, writeErr>>
  BY Zenon DEF Lock, CanLock, Inv, TypeOK, PcType
<1>1. "write" \in PcOf(g)
  BY <1>0, PcOfRoles, Zenon DEF PcType, Goroutines, InClose, Writing
<1>2. PcType' /\ pc'[g] = "write" /\ \A h \in Goroutines \ {g} : pc'[h] = pc[h]
  BY <1>0, <1>1, GotoMoves, Zenon
<1>3. TypeOK'
  BY <1>0, <1>2, ZenonT(60) DEF Inv, TypeOK, PcType
<1>4. Roles'
  BY <1>0, <1>2, Zenon DEF Inv, Roles, Writing
<1>5. Mutex'
  BY <1>0, <1>2, GoroutinesAssumption, Zenon DEF Inv, Mutex, Held
<1>6. Flushing'
  <2>1. \A h \in Goroutines : pc'[h] = "flush" <=> pc[h] = "flush"
    BY <1>0, <1>2, Zenon
  <2> QED
    BY <1>0, <2>1, Zenon DEF Inv, Flushing, Begun, Last
<1>7. Closing'
  BY <1>0, <1>2, Zenon DEF Inv, Closing, Writing
<1>8. Admitted'
  BY <1>0, <1>2, SMTT(60) DEF Inv, Admitted, WroteLate, Goroutines
<1>9. LateLeaves' /\ SocketAccounted'
  BY <1>0, <1>2, WriterNotLate, WriterAccounts, Zenon DEF Writing
<1>10. FramesWhole' /\ OneFrameAfterClose'
  BY <1>0 DEF Inv, FramesWhole, OneFrameAfterClose
<1> QED
  BY <1>3, <1>4, <1>5, <1>6, <1>7, <1>8, <1>9, <1>10, Zenon DEF Inv

\* A write that ends without adding to the wire: refused or failed.
LEMMA WriteEndsKeepsInv ==
  ASSUME Inv, NEW g \in Goroutines, pc[g] \in Held,
         Goto(g, AfterWrite(g, FALSE)), mu' = Nobody, tcpClosed' = TRUE,
         conn = "open" => writeErr', writeErr' \in BOOLEAN, writeErr => writeErr',
         UNCHANGED <<closed, conn, out, wire, inbox, rcvd, peer, ctxDone, chDone, late, stored>>
  PROVE  Inv'
<1>0. PcType /\ pc[g] \in Writing
  BY Zenon DEF Inv, TypeOK, PcType, Held, Writing
<1>1. /\ AfterWrite(g, FALSE) \in PcOf(g) \ Writing
      /\ out[g] = "close" => AfterWrite(g, FALSE) = "tcp"
  BY <1>0, AfterWriteMoves, ZenonT(60) DEF Inv
<1>2. PcType' /\ pc'[g] = AfterWrite(g, FALSE) /\ \A h \in Goroutines \ {g} : pc'[h] = pc[h]
  BY <1>0, <1>1, GotoMoves, ZenonT(60)
<1>3. pc'[g] \notin Writing /\ \A h \in Goroutines \ {g} : pc[h] \notin Held
  BY <1>1, <1>2, SoleWriter, ZenonT(60)
<1>4. TypeOK'
  <2>1. tcpClosed' \in BOOLEAN
    BY Zenon
  <2> QED
    BY <1>2, <2>1, Zenon DEF Inv, TypeOK, PcType
<1>5. Roles'
  BY <1>2, <1>3, ZenonT(60) DEF Inv, Roles
<1>6. Mutex'
  BY <1>2, <1>3, GoroutinesAssumption, ZenonT(60) DEF Mutex, Held, Writing
<1>7. Flushing'
  BY <1>2, <1>3, ZenonT(60) DEF Flushing, Held, Writing
<1>8. Closing'
  BY <1>2, <1>3, ZenonT(60) DEF Inv, Closing
<1>9. Admitted'
  BY <1>2, <1>3, ZenonT(60) DEF Inv, Admitted, WroteLate, Goroutines, Writing
<1>10. LateLeaves' /\ SocketAccounted'
  BY <1>0, <1>1, <1>2, WriterNotLate, WriterAccounts, ZenonT(60)
<1>11. FramesWhole' /\ OneFrameAfterClose'
  BY DEF Inv, FramesWhole, OneFrameAfterClose
<1> QED
  BY <1>4, <1>5, <1>6, <1>7, <1>8, <1>9, <1>10, <1>11, Zenon DEF Inv

\* What appending to the wire does to its positions.
LEMMA WireGrows ==
  ASSUME TypeOK, NEW f \in Fragment, wire' = Append(wire, f)
  PROVE  /\ wire' \in Seq(Fragment) /\ Len(wire) \in Nat /\ Len(wire') = Len(wire) + 1
         /\ DOMAIN wire = 1..Len(wire) /\ DOMAIN wire' = 1..(Len(wire) + 1)
         /\ wire'[Len(wire) + 1] = f /\ Last' = f /\ wire' # <<>>
         /\ \A i \in DOMAIN wire : wire'[i] = wire[i]
         /\ wire # <<>> => Len(wire) \in DOMAIN wire
BY SMTT(60) DEF TypeOK, Last

\* The beginning of a frame reaches the wire.
LEMMA WriteStartKeepsInv ==
  ASSUME Inv, NEW g \in Goroutines, pc[g] = "write", ~tcpClosed, Goto(g, "flush"),
         wire' = Append(wire, Begun(g)),
         UNCHANGED <<closed, tcpClosed, conn, mu, out, inbox, rcvd, peer, ctxDone, chDone,
                     late, stored, writeErr>>
  PROVE  Inv'
<1>0. PcType /\ TypeOK /\ pc[g] \in Writing /\ pc[g] \in Held
  BY Zenon DEF Inv, TypeOK, PcType, Held, Writing
<1>1. "flush" \in PcOf(g)
  BY <1>0, PcOfRoles, ZenonT(60) DEF PcType, Goroutines, InClose, Writing
<1>2. PcType' /\ pc'[g] = "flush" /\ \A h \in Goroutines \ {g} : pc'[h] = pc[h]
  BY <1>0, <1>1, GotoMoves, Zenon
<1>3. mu = g /\ \A h \in Goroutines \ {g} : pc[h] \notin Held
  BY <1>0, SoleWriter, Zenon
<1>4. Begun(g) \in Fragment /\ Begun(g).by = g /\ Begun(g).op = out[g] /\ Begun(g).part = "head"
  BY <1>0, Zenon DEF TypeOK, Begun, Fragment
<1>5. /\ wire' \in Seq(Fragment) /\ Len(wire) \in Nat /\ Len(wire') = Len(wire) + 1
      /\ DOMAIN wire = 1..Len(wire) /\ DOMAIN wire' = 1..(Len(wire) + 1)
      /\ wire'[Len(wire) + 1] = Begun(g) /\ Last' = Begun(g) /\ wire' # <<>>
      /\ \A i \in DOMAIN wire : wire'[i] = wire[i]
      /\ wire # <<>> => Len(wire) \in DOMAIN wire
  BY <1>0, <1>4, WireGrows, Zenon
<1>6. wire # <<>> => Last.part = "tail"
  <2>1. \A h \in Goroutines : pc[h] # "flush"
    BY <1>3, Zenon DEF Held
  <2>2. wire # <<>> => Last.part # "head"
    BY <2>1, Zenon DEF Inv, Flushing
  <2>3. wire # <<>> => Last \in Fragment
    BY <1>0, <1>5 DEF TypeOK, Last
  <2> QED
    BY <2>2, <2>3, Zenon DEF Fragment
<1>7. TypeOK'
  BY <1>0, <1>2, <1>5, ZenonT(60) DEF TypeOK, PcType
<1>8. Roles'
  BY <1>0, <1>2, Zenon DEF Inv, Roles, Writing
<1>9. Mutex'
  BY <1>0, <1>2, <1>3, Zenon DEF Inv, Mutex, Held
<1>10. Flushing'
  <2>1. \A h \in Goroutines : pc'[h] = "flush" => h = g
    BY <1>2, <1>3, Zenon DEF Held
  <2>2. Begun(g)' = Begun(g)
    BY Zenon DEF Begun
  <2> QED
    BY <1>2, <1>5, <2>1, <2>2, Zenon DEF Flushing
<1>11. Closing'
  <2>1. \A i \in DOMAIN wire' : i \in DOMAIN wire \/ i = Len(wire) + 1
    BY <1>5, SMTT(60)
  <2>2. out[g] = "close" => closed
    BY <1>0, Zenon DEF Inv, Closing
  <2>3. \A i \in DOMAIN wire' : wire'[i].op = "close" => closed'
    BY <1>4, <1>5, <2>1, <2>2, Zenon DEF Inv, Closing
  <2>4. \A h \in Goroutines : pc'[h] \in Writing /\ out'[h] = "close" => closed'
    BY <1>0, <1>2, <2>2, Zenon DEF Inv, Closing
  <2> QED
    BY <2>3, <2>4, Zenon DEF Inv, Closing
<1>12. LateLeaves' /\ SocketAccounted'
  BY <1>0, <1>2, WriterNotLate, WriterAccounts, Zenon DEF Writing
<1>13. FramesWhole'
  <2> SUFFICES ASSUME NEW i \in 1..(Len(wire') - 1)
               PROVE  IF wire'[i].part = "head"
                        THEN wire'[i + 1] = [wire'[i] EXCEPT !.part = "tail"]
                        ELSE wire'[i + 1].part = "head"
    BY Zenon DEF FramesWhole
  <2>1. CASE i = Len(wire)
    <3>1. wire # <<>> /\ wire'[i] = Last /\ wire'[i + 1] = Begun(g)
      BY <1>5, <2>1 DEF Last
    <3> QED
      BY <1>4, <1>6, <3>1, Zenon
  <2>2. CASE i # Len(wire)
    <3>1. i \in 1..(Len(wire) - 1) /\ i \in 1..Len(wire) /\ i + 1 \in 1..Len(wire)
      <4>1. Len(wire) \in Nat /\ Len(wire') = Len(wire) + 1
        BY <1>5, Zenon
      <4> QED
        BY <4>1, <2>2
    <3>2. wire'[i] = wire[i] /\ wire'[i + 1] = wire[i + 1]
      BY <1>5, <3>1, Zenon
    <3> QED
      BY <3>1, <3>2, Zenon DEF Inv, FramesWhole
  <2> QED
    BY <2>1, <2>2, Zenon
<1>14. Admitted'
  <2> SUFFICES ASSUME NEW h \in Senders \cup {"pinger"}, WroteLate(h)', h # g
               PROVE  pc'[h] \notin {"lock", "write"}
    BY <1>2, Zenon DEF Admitted
  <2>1. WroteLate(h)
    BY <1>4, <1>5, SMTT(60) DEF WroteLate
  <2> QED
    BY <1>2, <2>1, Zenon DEF Inv, Admitted, Goroutines
<1>15. OneFrameAfterClose'
  <2> SUFFICES ASSUME NEW h \in Senders \cup {"pinger"}, NEW i \in DOMAIN wire',
                      NEW j \in DOMAIN wire', NEW k \in DOMAIN wire', i < j, j < k,
                      wire'[i].op = "close",
                      wire'[j].by = h /\ wire'[j].part = "head",
                      wire'[k].by = h /\ wire'[k].part = "head"
               PROVE  FALSE
    BY ZenonT(60) DEF OneFrameAfterClose
  <2>1. i \in DOMAIN wire /\ j \in DOMAIN wire
    BY <1>5
  <2>2. WroteLate(h)
    BY <1>5, <2>1, Zenon DEF WroteLate
  <2>3. CASE k \in DOMAIN wire
    BY <1>5, <2>1, <2>3, ZenonT(60) DEF Inv, OneFrameAfterClose
  <2>4. CASE k = Len(wire) + 1
    BY <1>4, <1>5, <2>2, <2>4 DEF Inv, Admitted
  <2> QED
    BY <1>5, <2>3, <2>4, SMTT(60)
<1> QED
  BY <1>7, <1>8, <1>9, <1>10, <1>11, <1>12, <1>13, <1>14, <1>15, Zenon DEF Inv

\* The rest of a frame reaches the wire and mu is released.
LEMMA WriteDoneKeepsInv ==
  ASSUME Inv, NEW g \in Goroutines, WriteDone(g)
  PROVE  Inv'
<1> DEFINE f == [by |-> g, op |-> out[g], part |-> "tail"]
<1>0. PcType /\ TypeOK /\ pc[g] \in Writing /\ pc[g] \in Held /\ pc[g] = "flush"
      /\ wire' = Append(wire, f) /\ mu' = Nobody /\ Goto(g, AfterWrite(g, TRUE))
      /\ UNCHANGED <<closed, tcpClosed, conn, out, inbox, rcvd, peer,
                     ctxDone, chDone, late, stored, writeErr>>
  BY ZenonT(60) DEF WriteDone, Inv, TypeOK, PcType, Held, Writing
<1>1. /\ AfterWrite(g, TRUE) \in PcOf(g) \ Writing
      /\ out[g] = "close" => AfterWrite(g, TRUE) = "tcp"
  BY <1>0, AfterWriteMoves, ZenonT(60) DEF Inv
<1>2. PcType' /\ pc'[g] = AfterWrite(g, TRUE) /\ \A h \in Goroutines \ {g} : pc'[h] = pc[h]
  BY <1>0, <1>1, GotoMoves, ZenonT(60)
<1>3. pc'[g] \notin Writing /\ \A h \in Goroutines \ {g} : pc[h] \notin Held
  BY <1>0, <1>1, <1>2, SoleWriter, ZenonT(60)
<1>4. f \in Fragment /\ f.by = g /\ f.op = out[g] /\ f.part = "tail"
  BY <1>0, Zenon DEF TypeOK, Fragment
<1>5. /\ wire' \in Seq(Fragment) /\ Len(wire) \in Nat /\ Len(wire') = Len(wire) + 1
      /\ DOMAIN wire = 1..Len(wire) /\ DOMAIN wire' = 1..(Len(wire) + 1)
      /\ wire'[Len(wire) + 1] = f /\ Last' = f /\ wire' # <<>>
      /\ \A i \in DOMAIN wire : wire'[i] = wire[i]
      /\ wire # <<>> => Len(wire) \in DOMAIN wire
  BY <1>0, <1>4, WireGrows, Zenon
<1>6. wire # <<>> /\ Last = Begun(g)
  BY <1>0, Zenon DEF Inv, Flushing
<1> HIDE DEF f
<1>7. TypeOK'
  BY <1>0, <1>2, <1>5, ZenonT(60) DEF TypeOK, PcType
<1>8. Roles'
  BY <1>0, <1>2, <1>3, Zenon DEF Inv, Roles
<1>9. Mutex'
  BY <1>0, <1>2, <1>3, GoroutinesAssumption, ZenonT(60) DEF Mutex, Held, Writing
<1>10. Flushing'
  BY <1>2, <1>3, <1>4, <1>5, ZenonT(60) DEF Flushing, Held, Writing
<1>11. Closing'
  <2>1. \A i \in DOMAIN wire' : i \in DOMAIN wire \/ i = Len(wire) + 1
    BY <1>5, SMTT(60)
  <2>2. out[g] = "close" => closed
    BY <1>0, Zenon DEF Inv, Closing
  <2>3. \A i \in DOMAIN wire' : wire'[i].op = "close" => closed'
    BY <1>0, <1>4, <1>5, <2>1, <2>2, ZenonT(60) DEF Inv, Closing
  <2>4. \A h \in Goroutines : pc'[h] \in Writing /\ out'[h] = "close" => closed'
    BY <1>0, <1>2, <1>3, ZenonT(60) DEF Inv, Closing
  <2> QED
    BY <1>0, <2>3, <2>4, Zenon DEF Inv, Closing
<1>12. LateLeaves' /\ SocketAccounted'
  BY <1>0, <1>1, <1>2, WriterNotLate, WriterAccounts, ZenonT(60)
<1>13. FramesWhole'
  <2> SUFFICES ASSUME NEW i \in 1..(Len(wire') - 1)
               PROVE  IF wire'[i].part = "head"
                        THEN wire'[i + 1] = [wire'[i] EXCEPT !.part = "tail"]
                        ELSE wire'[i + 1].part = "head"
    BY ZenonT(60) DEF FramesWhole
  <2>1. CASE i = Len(wire)
    <3>1. wire'[i] = Begun(g) /\ wire'[i + 1] = f
      BY <1>5, <1>6, <2>1, Zenon DEF Last
    <3> QED
      BY <3>1 DEF Begun, f
  <2>2. CASE i # Len(wire)
    <3>1. i \in 1..(Len(wire) - 1) /\ i \in 1..Len(wire) /\ i + 1 \in 1..Len(wire)
      <4>1. Len(wire) \in Nat /\ Len(wire') = Len(wire) + 1
        BY <1>5, Zenon
      <4> QED
        BY <4>1, <2>2
    <3>2. wire'[i] = wire[i] /\ wire'[i + 1] = wire[i + 1]
      BY <1>5, <3>1, Zenon
    <3> QED
      BY <3>1, <3>2, Zenon DEF Inv, FramesWhole
  <2> QED
    BY <2>1, <2>2, Zenon
<1>14. \A i \in DOMAIN wire' : wire'[i].part = "head" => i \in DOMAIN wire
  BY <1>4, <1>5
<1>15. Admitted'
  <2> SUFFICES ASSUME NEW h \in Senders \cup {"pinger"}, WroteLate(h)', h # g
               PROVE  pc'[h] \notin {"lock", "write"}
    BY <1>3, Zenon DEF Admitted, Writing
  <2>1. WroteLate(h)
    BY <1>5, <1>14 DEF WroteLate
  <2> QED
    BY <1>2, <2>1, Zenon DEF Inv, Admitted, Goroutines
<1>16. OneFrameAfterClose'
  <2> SUFFICES ASSUME NEW h \in Senders \cup {"pinger"}, NEW i \in DOMAIN wire',
                      NEW j \in DOMAIN wire', NEW k \in DOMAIN wire', i < j, j < k,
                      wire'[i].op = "close",
                      wire'[j].by = h /\ wire'[j].part = "head",
                      wire'[k].by = h /\ wire'[k].part = "head"
               PROVE  FALSE
    BY Zenon DEF OneFrameAfterClose
  <2>1. i \in DOMAIN wire /\ j \in DOMAIN wire /\ k \in DOMAIN wire
    BY <1>5, <1>14
  <2> QED
    BY <1>5, <2>1, SMTT(60) DEF Inv, OneFrameAfterClose
<1> QED
  BY <1>7, <1>8, <1>9, <1>10, <1>11, <1>12, <1>13, <1>15, <1>16, Zenon DEF Inv

\* Every step of writeFrameLocked keeps the invariant.
LEMMA WriteKeepsInv ==
  ASSUME Inv, NEW g \in Goroutines, WriteStep(g)
  PROVE  Inv'
<1>1. CASE Lock(g)
  BY <1>1, LockKeepsInv, Zenon
<1>2. CASE WriteStart(g)
  <2>1. CASE tcpClosed
    <3>1. conn = "open" => writeErr
      BY <2>1, Zenon DEF Inv, Closing
    <3>2. tcpClosed' = TRUE
      BY <1>2, <2>1, Zenon DEF WriteStart, Inv, TypeOK
    <3>3. writeErr \in BOOLEAN
      BY Zenon DEF Inv, TypeOK
    <3> QED
      BY <1>2, <2>1, <3>1, <3>2, <3>3, WriteEndsKeepsInv, ZenonT(60) DEF WriteStart, Held
  <2>2. CASE ~tcpClosed
    BY <1>2, <2>2, WriteStartKeepsInv, Zenon DEF WriteStart, Begun
  <2> QED
    BY <2>1, <2>2, Zenon
<1>3. CASE WriteDone(g)
  BY <1>3, WriteDoneKeepsInv, Zenon
<1>4. CASE WriteFail(g)
  <2>1. writeErr' \in BOOLEAN /\ writeErr'
    BY <1>4, Zenon DEF WriteFail
  <2> QED
    BY <1>4, <2>1, WriteEndsKeepsInv, ZenonT(60) DEF WriteFail, Held
<1> QED
  BY <1>1, <1>2, <1>3, <1>4, Zenon DEF WriteStep

-----------------------------------------------------------------------------
(* Theorems *)

\* The invariant holds when NewWebSocketClient has returned.
LEMMA InitInv == Init => Inv
<1> SUFFICES ASSUME Init PROVE Inv
  BY Zenon
<1>1. \A g \in Goroutines : Start(g) \in PcOf(g) \ InClose
  BY GoroutinesAssumption, PcOfRoles, ZenonT(60) DEF Start, Goroutines, InClose, Writing
<1>2. pc = [g \in Goroutines |-> Start(g)] /\ PcType
  BY <1>1, Zenon DEF Init, PcType, InClose
<1>3. \A g \in Goroutines : pc[g] \notin Writing /\ pc[g] \notin Held
  BY <1>1, <1>2, Zenon DEF InClose, Writing, Held
<1>4. /\ closed \in BOOLEAN /\ tcpClosed \in BOOLEAN /\ ctxDone \in BOOLEAN
      /\ chDone \in BOOLEAN /\ stored \in BOOLEAN /\ writeErr \in BOOLEAN
  BY Zenon DEF Init
<1>5. wire = <<>> /\ wire \in Seq(Fragment) /\ inbox \in Seq(InFrames) /\ DOMAIN wire = {}
      /\ Len(wire) = 0
  BY DEF Init
<1>6. TypeOK
  BY <1>2, <1>4, <1>5, Zenon DEF Init, TypeOK, PcType, OutFrames
<1>7. Roles
  BY <1>3, ZenonT(60) DEF Init, Roles, Goroutines
<1>8. Mutex /\ Flushing /\ Closing
  BY <1>3, <1>5, GoroutinesAssumption, Zenon DEF Init, Mutex, Flushing, Closing, Held
<1>9. Admitted /\ LateLeaves /\ SocketAccounted
  BY <1>5 DEF Init, Admitted, WroteLate, LateLeaves, SocketAccounted
<1>10. FramesWhole /\ OneFrameAfterClose
  BY <1>5 DEF FramesWhole, OneFrameAfterClose
<1> QED
  BY <1>6, <1>7, <1>8, <1>9, <1>10, Zenon DEF Inv

\* Inv is inductive: it survives every step of every goroutine sharing the
\* client, for any number of senders and closers and any configuration.
THEOREM InvHolds == Spec => []Inv
<1>1. Inv /\ [Next]_vars => Inv'
  <2> SUFFICES ASSUME Inv, [Next]_vars PROVE Inv'
    BY Zenon
  <2>1. ASSUME NEW g \in Goroutines, WriteStep(g) \/ CloseStep(g) PROVE Inv'
    BY <2>1, WriteKeepsInv, CloseKeepsInv, Zenon
  <2>2. ASSUME NEW g \in Senders, SendText(g) PROVE Inv'
    BY <2>2, SendKeepsInv, Zenon DEF Goroutines
  <2>3. ASSUME NEW g \in Closers, CallClose(g) PROVE Inv'
    BY <2>3, BackgroundKeepsInv, Zenon DEF Goroutines
  <2>4. CASE Listener
    BY <2>4, ListenerKeepsInv, Zenon
  <2>5. CASE Background
    BY <2>5, SendKeepsInv, BackgroundKeepsInv, Zenon DEF Background, Goroutines
  <2>6. CASE Environment \/ UNCHANGED vars
    BY <2>6, EnvironmentKeepsInv, Zenon
  <2> QED
    BY <2>1, <2>2, <2>3, <2>4, <2>5, <2>6, Zenon DEF Next
<1> QED
  BY InitInv, <1>1, PTL DEF Spec

\* Each goroutine of a client only ever visits the code of its role.
THEOREM TypeCorrect == Spec => []TypeOK
<1>1. Inv => TypeOK
  BY Zenon DEF Inv
<1> QED
  BY InvHolds, <1>1, PTL

\* mu keeps the frames of any number of concurrent writers apart on the wire.
THEOREM FramesWholeHolds == Spec => []FramesWhole
<1>1. Inv => FramesWhole
  BY Zenon DEF Inv
<1> QED
  BY InvHolds, <1>1, PTL

\* WriteFrame's unlocked check of isClosed lets each sender put at most one
\* frame behind the close frame.
THEOREM OneFrameAfterCloseHolds == Spec => []OneFrameAfterClose
<1>1. Inv => OneFrameAfterClose
  BY Zenon DEF Inv
<1> QED
  BY InvHolds, <1>1, PTL

\* onMessage is called at most once after isClosed was set.
THEOREM OneLateMessageHolds == Spec => []OneLateMessage
<1>1. Inv => OneLateMessage
  BY Zenon DEF Inv, LateLeaves, OneLateMessage
<1> QED
  BY InvHolds, <1>1, PTL

\* A closed client with an open socket has a Close under way, or lost the
\* race to a failed read or a failed write.
THEOREM SocketAccountedHolds == Spec => []SocketAccounted
<1>1. Inv => SocketAccounted
  BY Zenon DEF Inv
<1> QED
  BY InvHolds, <1>1, PTL

-----------------------------------------------------------------------------
(* WebSocketReader *)

Datas   == Seq(Nat)
Started   == [op : {"none", "text", "binary"}, data : Datas]
Message == [op : {"none", "text", "binary", "pong"}, data : Datas]
Frame   == [op : Reader!Opcodes \cup Reader!Replies, fin : BOOLEAN, data : Datas]
LastOp    == Reader!Opcodes \cup Reader!Replies \cup {"none"}
Cut     == {"no", "frame", "field", "inside"}

ReaderType ==
  /\ at \in {"handshake", "read", "stopped"} /\ in \in Seq(Frame)
  /\ frag \in Started /\ got \in Seq(Message) /\ sent \in Seq(Message)
  /\ server \in [msg : Started, frames : Nat, bytes : Nat, last : LastOp, cut : Cut]
  /\ broke \in BOOLEAN /\ torn \in BOOLEAN

\* Frame f takes a server that has begun message m and finished c messages to
\* one that has begun n and finished d, when s are the messages it has sent
\* and t says that a pong tore one of them.
Sends(s, t, m, f, n, c, d) ==
  \/ /\ f.op \in {"text", "binary"} /\ m.op = "none" /\ f.fin
     /\ n = Reader!NoFragment /\ d = c + 1 /\ s[d] = [op |-> f.op, data |-> f.data]
  \/ /\ f.op \in {"text", "binary"} /\ m.op = "none" /\ ~f.fin
     /\ n = [op |-> f.op, data |-> f.data] /\ d = c
  \/ /\ f.op = "cont" /\ m.op # "none" /\ f.fin
     /\ n = Reader!NoFragment /\ d = c + 1 /\ s[d] = [op |-> m.op, data |-> m.data \o f.data]
  \/ /\ f.op = "cont" /\ m.op # "none" /\ ~f.fin
     /\ n = [op |-> m.op, data |-> m.data \o f.data] /\ d = c
  \/ /\ f.op = "pong" /\ (m.op # "none" => t)
     /\ n = m /\ d = c + 1 /\ s[d] = [op |-> "pong", data |-> f.data]
  \/ /\ f.op \in {"ping", "close", "101", "refusal"}
     /\ n = m /\ d = c

\* What the server had begun, ms, and finished, cs, before each frame that is
\* unread and after the last.
Trail(ms, cs) ==
  /\ ms \in Seq(Started) /\ cs \in Seq(Nat)
  /\ Len(ms) = Len(in) + 1 /\ Len(cs) = Len(in) + 1
  /\ ms[Len(in) + 1] = server.msg /\ cs[Len(in) + 1] = Len(sent)
  /\ \A i \in 1..(Len(in) + 1) : /\ ms[i].op = "none" => ms[i] = Reader!NoFragment
                                 /\ cs[i] <= Len(sent)
  /\ \A i \in 1..Len(in) : Sends(sent, torn, ms[i], in[i], ms[i + 1], cs[i], cs[i + 1])
  /\ at # "stopped" => /\ Len(got) = cs[1]
                       /\ frag = ms[1] \/ (frag = Reader!NoFragment /\ torn)

ReaderInv ==
  /\ ReaderType
  /\ Reader!MessagesInOrder
  /\ ~broke => \E ms \in Seq(Started), cs \in Seq(Nat) : Trail(ms, cs)

\* Before the upgrade response the history is empty.
LEMMA ReaderInitInv == Reader!Init => ReaderInv
<1> SUFFICES ASSUME Reader!Init PROVE ReaderInv
  OBVIOUS
<1>0. Reader!NoFragment \in Started
  BY DEF Reader!NoFragment, Started, Datas
<1>1. ReaderType
  <2>1. server \in [msg : Started, frames : Nat, bytes : Nat, last : LastOp, cut : Cut]
    BY <1>0 DEF Reader!Init, LastOp, Cut
  <2>2. in \in Seq(Frame) /\ got \in Seq(Message) /\ sent \in Seq(Message)
    BY DEF Reader!Init
  <2> QED
    BY <1>0, <2>1, <2>2, Zenon DEF Reader!Init, ReaderType
<1>2. Reader!MessagesInOrder
  BY DEF Reader!Init, Reader!MessagesInOrder
<1>3. <<Reader!NoFragment>> \in Seq(Started) /\ <<0>> \in Seq(Nat)
  BY <1>0
<1>4. Trail(<<Reader!NoFragment>>, <<0>>)
  BY <1>0 DEF Reader!Init, Trail
<1> QED
  BY <1>1, <1>2, <1>3, <1>4, Zenon DEF ReaderInv

\* The data of a frame the server sends.
LEMMA FrameData ==
  ASSUME ReaderType, NEW n \in Lengths
  PROVE  [i \in 1..n |-> server.bytes + i] \in Datas
<1>1. n \in Nat /\ server.bytes \in Nat
  BY PayloadAssumption DEF ReaderType
<1> QED
  BY <1>1 DEF Datas

\* What the server sends is appended to what is unread.
LEMMA SendFrameKeepsInv ==
  ASSUME ReaderInv, NEW op \in Reader!Opcodes, NEW fin \in BOOLEAN, NEW n \in Lengths,
         Reader!SendFrame(op, fin, n)
  PROVE  ReaderInv'
<1> DEFINE data == [i \in 1..n |-> server.bytes + i]
           begun == IF op = "cont" THEN [server.msg EXCEPT !.data = @ \o data]
                    ELSE [op |-> op, data |-> data]
           msg == IF op \notin Reader!Data \cup {"cont"} THEN server.msg
                  ELSE IF fin THEN Reader!NoFragment ELSE begun
           f == [op |-> op, fin |-> fin, data |-> data]
<1>1. data \in Datas /\ n \in Nat
  BY FrameData, PayloadAssumption DEF ReaderInv
<1> HIDE DEF data
<1>2. /\ in' = Append(in, f)
      /\ sent' = IF fin /\ op \in Reader!Data \cup {"cont", "pong"} THEN Append(sent, begun) ELSE sent
      /\ server' = [server EXCEPT !.frames = @ + 1, !.bytes = @ + n, !.last = op, !.msg = msg]
      /\ torn' = (torn \/ (op = "pong" /\ server.msg # Reader!NoFragment))
      /\ broke' = \/ broke \/ op = "reserved"
                  \/ op \in Reader!Data /\ server.msg # Reader!NoFragment
                  \/ op = "cont" /\ server.msg = Reader!NoFragment
      /\ UNCHANGED <<at, ahead, frag, got, end>>
      /\ fin \/ op \in Reader!Data \cup {"cont"}
  BY Zenon DEF Reader!SendFrame, data
<1>3. ReaderType /\ Reader!MessagesInOrder
  BY Zenon DEF ReaderInv
<1>4. server.msg \in Started /\ server.msg.data \o data \in Datas
  BY <1>1, <1>3 DEF ReaderType, Started, Datas
<1>5. op \in Reader!Data \cup {"cont"} => begun \in Started
  BY <1>1, <1>4, Zenon DEF Started, Reader!Data
<1>6. op \in Reader!Data \cup {"cont", "pong"} => begun \in Message
  BY <1>1, <1>4, Zenon DEF Started, Message, Reader!Data
<1>7. msg \in Started
  BY <1>4, <1>5 DEF Reader!NoFragment, Started, Datas
<1>8. f \in Frame
  BY <1>1 DEF Frame
<1> HIDE DEF begun, msg, f
<1>9. sent' \in Seq(Message) /\ Len(sent') >= Len(sent) /\ \A i \in 1..Len(sent) : sent'[i] = sent[i]
  BY <1>2, <1>3, <1>6 DEF ReaderType
<1>10. ReaderType'
  <2>1. in' \in Seq(Frame)
    BY <1>2, <1>3, <1>8 DEF ReaderType
  <2>2. server' \in [msg : Started, frames : Nat, bytes : Nat, last : LastOp, cut : Cut]
    <3>1. op \in LastOp
      BY Zenon DEF LastOp
    <3>2. server.frames + 1 \in Nat /\ server.bytes + n \in Nat
      BY <1>1, <1>3 DEF ReaderType
    <3> QED
      BY <1>2, <1>3, <1>7, <3>1, <3>2, Zenon DEF ReaderType
  <2> QED
    BY <1>2, <1>3, <1>9, <2>1, <2>2 DEF ReaderType
<1>11. Reader!MessagesInOrder'
  BY <1>2, <1>3, <1>9 DEF Reader!MessagesInOrder, ReaderType
<1>12. ASSUME ~broke', NEW ms \in Seq(Started), NEW cs \in Seq(Nat), Trail(ms, cs),
              NEW nms, nms = Append(ms, msg), NEW ncs, ncs = Append(cs, Len(sent'))
       PROVE  Trail(nms, ncs)'
  <2> DEFINE N == Len(in) + 1
  <2>1. /\ Len(in) \in Nat /\ N \in Nat /\ N = Len(in) + 1 /\ Len(in') = N
        /\ in'[N] = f /\ \A i \in 1..Len(in) : in'[i] = in[i]
    BY <1>2, <1>3, <1>8 DEF ReaderType
  <2>2. Len(sent') \in Nat /\ Len(sent) \in Nat
    BY <1>3, <1>9 DEF ReaderType
  <2> HIDE DEF N
  <2>a. /\ Len(ms) = N /\ Len(cs) = N /\ ms[N] = server.msg /\ cs[N] = Len(sent)
        /\ \A i \in 1..N : (ms[i].op = "none" => ms[i] = Reader!NoFragment) /\ cs[i] <= Len(sent)
        /\ \A i \in 1..Len(in) : Sends(sent, torn, ms[i], in[i], ms[i + 1], cs[i], cs[i + 1])
    BY <1>12, <2>1, Zenon DEF Trail
  <2>3. /\ nms \in Seq(Started) /\ Len(nms) = N + 1 /\ nms[N + 1] = msg
        /\ \A i \in 1..N : nms[i] = ms[i]
    BY <1>7, <1>12, <2>1, <2>a
  <2>4. /\ ncs \in Seq(Nat) /\ Len(ncs) = N + 1 /\ ncs[N + 1] = Len(sent')
        /\ \A i \in 1..N : ncs[i] = cs[i]
    BY <1>12, <2>1, <2>2, <2>a
  <2>5. N \in 1..N /\ (server.msg.op = "none" => server.msg = Reader!NoFragment)
    <3>1. N \in 1..N
      BY <2>1
    <3> QED
      BY <2>a, <3>1, Zenon
  <2>6. msg.op = "none" => msg = Reader!NoFragment
    <3>1. begun.op = IF op = "cont" THEN server.msg.op ELSE op
      BY <1>4 DEF begun, Started
    <3>2. op = "cont" => server.msg.op # "none"
      BY <1>2, <1>12, <2>5, Zenon
    <3> QED
      BY <2>5, <3>1, <3>2, Zenon DEF msg, Reader!Data
  <2>7. Sends(sent', torn', server.msg, f, msg, Len(sent), Len(sent'))
    <3>0. sent' = Append(sent, begun) => Len(sent') = Len(sent) + 1 /\ sent'[Len(sent')] = begun
      BY <1>3 DEF ReaderType
    <3>f. f.op = op /\ f.fin = fin /\ f.data = data
      BY Zenon DEF f
    <3>1. CASE op \in Reader!Data
      <4>1. op \in {"text", "binary"} /\ server.msg.op = "none"
        BY <1>2, <1>12, <3>1 DEF Reader!Data, Reader!NoFragment
      <4>2. begun = [op |-> op, data |-> data]
        BY <4>1 DEF begun
      <4>3. CASE fin
        <5>1. msg = Reader!NoFragment /\ sent' = Append(sent, begun)
          BY <1>2, <3>1, <4>3, Zenon DEF msg
        <5> QED
          BY <3>0, <3>f, <4>1, <4>2, <4>3, <5>1, Zenon DEF Sends
      <4>4. CASE ~fin
        <5>1. msg = begun /\ sent' = sent
          BY <1>2, <3>1, <4>4, Zenon DEF msg
        <5> QED
          BY <3>f, <4>1, <4>2, <4>4, <5>1, Zenon DEF Sends
      <4> QED
        BY <4>3, <4>4, Zenon
    <3>2. CASE op = "cont"
      <4>1. server.msg.op # "none"
        BY <1>2, <1>12, <2>5, <3>2, Zenon
      <4>2. begun = [op |-> server.msg.op, data |-> server.msg.data \o data]
        BY <1>4, <3>2, Zenon DEF begun, Started
      <4>3. CASE fin
        <5>1. msg = Reader!NoFragment /\ sent' = Append(sent, begun)
          BY <1>2, <3>2, <4>3, Zenon DEF msg
        <5> QED
          BY <3>0, <3>f, <3>2, <4>1, <4>2, <4>3, <5>1, Zenon DEF Sends
      <4>4. CASE ~fin
        <5>1. msg = begun /\ sent' = sent
          BY <1>2, <3>2, <4>4, Zenon DEF msg
        <5> QED
          BY <3>f, <3>2, <4>1, <4>2, <4>4, <5>1, Zenon DEF Sends
      <4> QED
        BY <4>3, <4>4, Zenon
    <3>3. CASE op = "pong"
      <4>1. server.msg.op # "none" => torn'
        <5>1. Reader!NoFragment.op = "none"
          BY Zenon DEF Reader!NoFragment
        <5> QED
          BY <1>2, <3>3, <5>1, Zenon
      <4>2. fin /\ begun = [op |-> "pong", data |-> data] /\ msg = server.msg
        BY <1>2, <3>3 DEF msg, begun, Reader!Data
      <4>3. sent' = Append(sent, begun)
        BY <1>2, <3>3, <4>2, Zenon
      <4> QED
        BY <3>0, <3>f, <3>3, <4>1, <4>2, <4>3, Zenon DEF Sends
    <3>4. CASE op \in {"ping", "close"}
      <4>1. msg = server.msg /\ sent' = sent
        BY <1>2, <3>4 DEF msg, Reader!Data
      <4> QED
        BY <3>f, <3>4, <4>1, Zenon DEF Sends
    <3> QED
      BY <1>2, <1>12, <3>1, <3>2, <3>3, <3>4, Zenon DEF Reader!Opcodes
  <2>8. \A i \in 1..Len(in) : Sends(sent', torn', ms[i], in'[i], ms[i + 1], cs[i], cs[i + 1])
    <3> SUFFICES ASSUME NEW i \in 1..Len(in)
                 PROVE  Sends(sent', torn', ms[i], in'[i], ms[i + 1], cs[i], cs[i + 1])
      BY Zenon
    <3>0. i \in 1..N /\ i + 1 \in 1..N
      BY <2>1
    <3>1. /\ Sends(sent, torn, ms[i], in[i], ms[i + 1], cs[i], cs[i + 1])
          /\ in'[i] = in[i] /\ cs[i + 1] <= Len(sent)
      BY <2>1, <2>a, <3>0, Zenon
    <3>2. cs[i] \in Nat /\ cs[i + 1] \in Nat
      <4>1. \A j \in 1..Len(cs) : cs[j] \in Nat
        BY <1>12
      <4> QED
        BY <2>a, <3>0, <4>1, Zenon
    <3>3. cs[i + 1] = cs[i] + 1 => sent'[cs[i + 1]] = sent[cs[i + 1]]
      <4>1. PICK c \in Nat, d \in Nat, m \in Nat : c = cs[i] /\ d = cs[i + 1] /\ m = Len(sent)
        BY <2>2, <3>2, Zenon
      <4>2. d <= m
        BY <3>1, <4>1, Zenon
      <4>3. d = c + 1 => d \in 1..m
        BY <4>2
      <4> QED
        BY <1>9, <4>1, <4>3, Zenon
    <3>4. torn => torn'
      BY <1>2, Zenon
    <3> QED
      BY <3>1, <3>3, <3>4, ZenonT(60) DEF Sends
  <2>9. \A i \in 1..N : Sends(sent', torn', nms[i], in'[i], nms[i + 1], ncs[i], ncs[i + 1])
    <3> SUFFICES ASSUME NEW i \in 1..N
                 PROVE  Sends(sent', torn', nms[i], in'[i], nms[i + 1], ncs[i], ncs[i + 1])
      OBVIOUS
    <3>1. CASE i \in 1..Len(in)
      <4>0. i + 1 \in 1..N
        BY <2>1, <3>1
      <4>1. nms[i] = ms[i] /\ ncs[i] = cs[i] /\ nms[i + 1] = ms[i + 1] /\ ncs[i + 1] = cs[i + 1]
        BY <2>3, <2>4, <4>0, Zenon
      <4> QED
        BY <2>8, <3>1, <4>1, Zenon
    <3>2. CASE i = N
      BY <2>1, <2>3, <2>4, <2>5, <2>7, <2>a, <3>2, Zenon
    <3> QED
      BY <2>1, <3>1, <3>2
  <2>10. \A i \in 1..(N + 1) : /\ nms[i].op = "none" => nms[i] = Reader!NoFragment
                               /\ ncs[i] <= Len(sent')
    <3> SUFFICES ASSUME NEW i \in 1..(N + 1)
                 PROVE  /\ nms[i].op = "none" => nms[i] = Reader!NoFragment
                        /\ ncs[i] <= Len(sent')
      OBVIOUS
    <3>1. CASE i = N + 1
      BY <2>2, <2>3, <2>4, <2>6, <3>1
    <3>2. CASE i \in 1..N
      <4>1. nms[i].op = "none" => nms[i] = Reader!NoFragment
        BY <2>3, <2>a, <3>2, Zenon
      <4>2. ncs[i] = cs[i] /\ cs[i] <= Len(sent) /\ cs[i] \in Nat
        <5>1. \A j \in 1..Len(cs) : cs[j] \in Nat
          BY <1>12
        <5> QED
          BY <2>4, <2>a, <3>2, <5>1, Zenon
      <4> QED
        BY <1>9, <2>2, <4>1, <4>2
    <3> QED
      BY <2>1, <3>1, <3>2
  <2>11. at' # "stopped" => /\ Len(got') = ncs[1]
                            /\ frag' = nms[1] \/ (frag' = Reader!NoFragment /\ torn')
    <3>1. 1 \in 1..N
      BY <2>1
    <3> QED
      BY <1>2, <1>12, <2>3, <2>4, <3>1, Zenon DEF Trail
  <2>12. server'.msg = msg
    BY <1>2, <1>3 DEF ReaderType
  <2> QED
    BY <2>1, <2>3, <2>4, <2>9, <2>10, <2>11, <2>12, Zenon DEF Trail
<1>13. ~broke' => \E ms \in Seq(Started), cs \in Seq(Nat) : Trail(ms, cs)'
  <2> SUFFICES ASSUME ~broke' PROVE \E ms \in Seq(Started), cs \in Seq(Nat) : Trail(ms, cs)'
    OBVIOUS
  <2>1. ~broke
    BY <1>2, Zenon
  <2>2. PICK ms \in Seq(Started), cs \in Seq(Nat) : Trail(ms, cs)
    BY <2>1, Zenon DEF ReaderInv
  <2>3. Append(ms, msg) \in Seq(Started) /\ Append(cs, Len(sent')) \in Seq(Nat)
    BY <1>7, <1>9
  <2> QED
    BY <1>12, <2>2, <2>3, ZenonT(60)
<1> QED
  BY <1>10, <1>11, <1>13, Zenon DEF ReaderInv

\* The frame that the client reads next takes the server from m and c to n and d.
Reads(m, n, c, d) ==
  /\ Sends(sent, torn, m, Head(in), n, c, d)
  /\ m.op = "none" => m = Reader!NoFragment
  /\ d <= Len(sent) /\ Len(got) = c
  /\ frag = m \/ (frag = Reader!NoFragment /\ torn)

\* The frame that is read next is the first of the trail.
LEMMA ReaderReads ==
  ASSUME ReaderInv, ~broke, at # "stopped", in # <<>>
  PROVE  \E m, n \in Started, c, d \in Nat : Reads(m, n, c, d)
<1>1. PICK ms \in Seq(Started), cs \in Seq(Nat) : Trail(ms, cs)
  BY Zenon DEF ReaderInv
<1>2. in \in Seq(Frame) /\ Len(in) \in Nat \ {0} /\ Head(in) = in[1]
  BY DEF ReaderInv, ReaderType
<1>3. 1 \in 1..Len(in) /\ 1 \in 1..(Len(in) + 1) /\ 2 \in 1..(Len(in) + 1) /\ 1 + 1 = 2
  BY <1>2
<1>4. Len(ms) = Len(in) + 1 /\ Len(cs) = Len(in) + 1
  BY <1>1, Zenon DEF Trail
<1>5. ms[1] \in Started /\ ms[2] \in Started /\ cs[1] \in Nat /\ cs[2] \in Nat
  BY <1>1, <1>3, <1>4
<1>6. Reads(ms[1], ms[2], cs[1], cs[2])
  <2>1. Sends(sent, torn, ms[1], in[1], ms[1 + 1], cs[1], cs[1 + 1])
    BY <1>1, <1>3, Zenon DEF Trail
  <2> QED
    BY <1>1, <1>2, <1>3, <2>1, Zenon DEF Trail, Reads
<1> QED
  BY <1>5, <1>6, Zenon

\* Once the frame is consumed the rest is still in step with the client.
LEMMA TrailAdvances ==
  ASSUME ReaderInv, ~broke, at # "stopped", in # <<>>, in' = Tail(in), UNCHANGED Reader!peer,
         \A m, n \in Started, c, d \in Nat : Reads(m, n, c, d) =>
           (at' # "stopped" => Len(got') = d /\ (frag' = n \/ (frag' = Reader!NoFragment /\ torn)))
  PROVE  (~broke => \E ms \in Seq(Started), cs \in Seq(Nat) : Trail(ms, cs))'
<1>1. PICK ms \in Seq(Started), cs \in Seq(Nat) : Trail(ms, cs)
  BY Zenon DEF ReaderInv
<1>0. in \in Seq(Frame)
  BY Zenon DEF ReaderInv, ReaderType
<1>2. PICK L \in Nat : L = Len(in')
  <2>1. Tail(in) \in Seq(Frame)
    BY <1>0
  <2>2. in' \in Seq(Frame)
    BY <2>1, Zenon
  <2>3. Len(in') \in Nat
    BY <2>2
  <2> QED
    BY <2>3, Zenon
<1>3. /\ in \in Seq(Frame) /\ Len(in) = L + 1 /\ Head(in) = in[1]
      /\ \A i \in 1..L : in'[i] = in[i + 1]
  BY <1>0, <1>2
<1>4. Len(ms) = L + 1 + 1 /\ Len(cs) = L + 1 + 1
  BY <1>1, <1>3, Zenon DEF Trail
<1>5. PICK tms \in Seq(Started) : Len(tms) = L + 1 /\ \A i \in 1..(L + 1) : tms[i] = ms[i + 1]
  <2>1. Tail(ms) \in Seq(Started) /\ Len(Tail(ms)) = L + 1 /\ \A i \in 1..(L + 1) : Tail(ms)[i] = ms[i + 1]
    BY <1>4
  <2> QED
    BY <2>1, Zenon
<1>6. PICK tcs \in Seq(Nat) : Len(tcs) = L + 1 /\ \A i \in 1..(L + 1) : tcs[i] = cs[i + 1]
  <2>1. Tail(cs) \in Seq(Nat) /\ Len(Tail(cs)) = L + 1 /\ \A i \in 1..(L + 1) : Tail(cs)[i] = cs[i + 1]
    BY <1>4
  <2> QED
    BY <2>1, Zenon
<1>7. UNCHANGED <<server, sent, broke, torn>>
  BY Zenon DEF Reader!peer
<1>8. tms[L + 1] = server.msg /\ tcs[L + 1] = Len(sent)
  <2>1. L + 1 \in 1..(L + 1)
    OBVIOUS
  <2> QED
    <3>1. ms[L + 1 + 1] = server.msg /\ cs[L + 1 + 1] = Len(sent)
      BY <1>1, <1>3, Zenon DEF Trail
    <3> QED
      BY <1>5, <1>6, <2>1, <3>1, Zenon
<1>9. \A i \in 1..(L + 1) : (tms[i].op = "none" => tms[i] = Reader!NoFragment) /\ tcs[i] <= Len(sent)
  <2>1. \A i \in 1..(L + 1) : i + 1 \in 1..(Len(in) + 1)
    BY <1>3
  <2> QED
    BY <1>1, <1>5, <1>6, <2>1, ZenonT(60) DEF Trail
<1>10. \A i \in 1..L : Sends(sent, torn, tms[i], in'[i], tms[i + 1], tcs[i], tcs[i + 1])
  <2> SUFFICES ASSUME NEW i \in 1..L
               PROVE  Sends(sent, torn, tms[i], in'[i], tms[i + 1], tcs[i], tcs[i + 1])
    BY Zenon
  <2>1. i + 1 \in 1..Len(in) /\ i \in 1..(L + 1) /\ i + 1 \in 1..(L + 1)
    BY <1>3
  <2>2. Sends(sent, torn, ms[i + 1], in[i + 1], ms[i + 1 + 1], cs[i + 1], cs[i + 1 + 1])
    BY <1>1, <2>1, Zenon DEF Trail
  <2> QED
    BY <1>3, <1>5, <1>6, <2>1, <2>2, Zenon
<1>11. at' # "stopped" => /\ Len(got') = tcs[1]
                          /\ frag' = tms[1] \/ (frag' = Reader!NoFragment /\ torn)
  <2>1. 1 \in 1..(L + 1) /\ 1 \in 1..Len(in) /\ 1 \in 1..(Len(in) + 1) /\ 1 + 1 \in 1..(Len(in) + 1)
    BY <1>3
  <2>2. ms[1] \in Started /\ ms[1 + 1] \in Started /\ cs[1] \in Nat /\ cs[1 + 1] \in Nat
    BY <1>4
  <2>3. Reads(ms[1], ms[1 + 1], cs[1], cs[1 + 1])
    BY <1>1, <1>3, <2>1, Zenon DEF Trail, Reads
  <2>4. tms[1] = ms[1 + 1] /\ tcs[1] = cs[1 + 1]
    BY <1>5, <1>6, <2>1, Zenon
  <2> QED
    BY <2>2, <2>3, <2>4, Zenon
<1>12. Trail(tms, tcs)'
  BY <1>2, <1>5, <1>6, <1>7, <1>8, <1>9, <1>10, <1>11, Zenon DEF Trail
<1> QED
  BY <1>12, Zenon

-----------------------------------------------------------------------------
(* What a frame may do to the client *)

\* ReadMessage returns an error.
LEMMA StopKeepsInv ==
  ASSUME ReaderInv, at # "stopped", NEW w, Reader!Stop(w), w = "continuation" => broke \/ torn,
         in # <<>>, in' = Tail(in), UNCHANGED Reader!peer
  PROVE  ReaderInv'
<1>1. at' = "stopped" /\ end' = w /\ UNCHANGED <<got, frag, server, sent, broke, torn>>
  BY Zenon DEF Reader!Stop, Reader!peer
<1>2. ReaderType'
  <2>1. in' \in Seq(Frame)
    BY DEF ReaderInv, ReaderType
  <2> QED
    BY <1>1, <2>1, Zenon DEF ReaderInv, ReaderType
<1>3. Reader!MessagesInOrder'
  BY <1>1, Zenon DEF ReaderInv, Reader!MessagesInOrder
<1>4. (~broke => \E ms \in Seq(Started), cs \in Seq(Nat) : Trail(ms, cs))'
  <2>1. CASE broke
    BY <1>1, <2>1, Zenon
  <2>2. CASE ~broke
    BY <1>1, <2>2, TrailAdvances, Zenon
  <2> QED
    BY <2>1, <2>2, Zenon
<1> QED
  BY <1>2, <1>3, <1>4, Zenon DEF ReaderInv

\* ReadMessage returns a message: it is the next of the server's.
LEMMA DeliverKeepsInv ==
  ASSUME ReaderInv, at # "stopped", NEW op \in {"text", "binary", "pong"}, NEW data \in Datas,
         Reader!Deliver(op, data), Len(data) <= MaxPayload,
         in # <<>>, in' = Tail(in), UNCHANGED Reader!peer,
         \A m, n \in Started, c, d \in Nat : ~broke /\ Reads(m, n, c, d) =>
           /\ d = c + 1 /\ sent[d] = [op |-> op, data |-> data]
           /\ n = Reader!NoFragment \/ torn
  PROVE  ReaderInv'
<1> DEFINE msg == [op |-> op, data |-> data]
<1>1. /\ got' = Append(got, msg) /\ frag' = Reader!NoFragment
      /\ UNCHANGED <<at, end, server, sent, broke, torn>>
  BY Zenon DEF Reader!Deliver, Reader!peer
<1>2. msg \in Message /\ msg.data = data
  BY Zenon DEF Message
<1> HIDE DEF msg
<1>3. got \in Seq(Message) /\ sent \in Seq(Message) /\ in \in Seq(Frame)
  BY Zenon DEF ReaderInv, ReaderType
<1>4. /\ got' \in Seq(Message) /\ Len(got') = Len(got) + 1 /\ got'[Len(got) + 1] = msg
      /\ \A i \in 1..Len(got) : got'[i] = got[i]
  BY <1>1, <1>2, <1>3
<1>5. ReaderType'
  <2>1. in' \in Seq(Frame)
    BY <1>3
  <2>2. Reader!NoFragment \in Started
    BY DEF Reader!NoFragment, Started, Datas
  <2> QED
    BY <1>1, <1>4, <2>1, <2>2, Zenon DEF ReaderInv, ReaderType
<1>6. DOMAIN got = 1..Len(got) /\ DOMAIN got' = 1..(Len(got) + 1) /\ Len(got) \in Nat
  BY <1>3, <1>4
<1>7. \A i \in 1..(Len(got) + 1) : i \in 1..Len(got) \/ i = Len(got) + 1
  BY <1>6
<1>8. ~broke => Len(got) + 1 <= Len(sent) /\ sent[Len(got) + 1] = msg
  <2> SUFFICES ASSUME ~broke PROVE Len(got) + 1 <= Len(sent) /\ sent[Len(got) + 1] = msg
    OBVIOUS
  <2>1. PICK m, n \in Started, c, d \in Nat : Reads(m, n, c, d)
    BY ReaderReads, Zenon
  <2>2. d = c + 1 /\ sent[d] = msg
    BY <2>1, Zenon DEF msg
  <2> QED
    BY <2>1, <2>2, Zenon DEF Reads
<1>9. Reader!MessagesInOrder'
  <2>1. ~broke => Len(got') <= Len(sent) /\ \A i \in DOMAIN got' : got'[i] = sent[i]
    BY <1>4, <1>6, <1>7, <1>8, Zenon DEF ReaderInv, Reader!MessagesInOrder
  <2>2. \A i \in DOMAIN got' : Len(got'[i].data) <= MaxPayload
    BY <1>2, <1>4, <1>6, <1>7, Zenon DEF ReaderInv, Reader!MessagesInOrder
  <2>3. end = "continuation" => broke \/ torn
    BY Zenon DEF ReaderInv, Reader!MessagesInOrder
  <2> QED
    BY <1>1, <2>1, <2>2, <2>3, Zenon DEF Reader!MessagesInOrder
<1>10. (~broke => \E ms \in Seq(Started), cs \in Seq(Nat) : Trail(ms, cs))'
  <2>1. CASE broke
    BY <1>1, <2>1, Zenon
  <2>2. CASE ~broke
    <3>1. \A m, n \in Started, c, d \in Nat : Reads(m, n, c, d) =>
            Len(got') = d /\ (frag' = n \/ (frag' = Reader!NoFragment /\ torn))
      BY <1>1, <1>4, <2>2, ZenonT(60) DEF Reads
    <3> QED
      BY <2>2, <3>1, TrailAdvances, Zenon
  <2> QED
    BY <2>1, <2>2, Zenon
<1> QED
  BY <1>5, <1>9, <1>10, Zenon DEF ReaderInv

\* Nothing is delivered and the message begun becomes msg: after the first
\* fragments of a message and after a ping.
LEMMA CollectKeepsInv ==
  ASSUME ReaderInv, at # "stopped", at' # "stopped", NEW msg \in Started, frag' = msg,
         at' \in {"handshake", "read"}, UNCHANGED <<end, got>>,
         in # <<>>, in' = Tail(in), UNCHANGED Reader!peer,
         \A m, n \in Started, c, d \in Nat : ~broke /\ Reads(m, n, c, d) =>
           d = c /\ (msg = n \/ (msg = Reader!NoFragment /\ torn))
  PROVE  ReaderInv'
<1>1. UNCHANGED <<end, got, server, sent, broke, torn>>
  BY Zenon DEF Reader!peer
<1>2. ReaderType'
  <2>1. in' \in Seq(Frame)
    BY DEF ReaderInv, ReaderType
  <2> QED
    BY <1>1, <2>1, Zenon DEF ReaderInv, ReaderType
<1>3. Reader!MessagesInOrder'
  BY <1>1, Zenon DEF ReaderInv, Reader!MessagesInOrder
<1>4. (~broke => \E ms \in Seq(Started), cs \in Seq(Nat) : Trail(ms, cs))'
  <2>1. CASE broke
    BY <1>1, <2>1, Zenon
  <2>2. CASE ~broke
    <3>1. \A m, n \in Started, c, d \in Nat : Reads(m, n, c, d) =>
            Len(got') = d /\ (frag' = n \/ (frag' = Reader!NoFragment /\ torn))
      <4> SUFFICES ASSUME NEW m \in Started, NEW n \in Started, NEW c \in Nat, NEW d \in Nat,
                          Reads(m, n, c, d)
                   PROVE  Len(got') = d /\ (frag' = n \/ (frag' = Reader!NoFragment /\ torn))
        BY Zenon
      <4>0. Len(got) = c
        BY Zenon DEF Reads
      <4>1. d = c /\ (msg = n \/ (msg = Reader!NoFragment /\ torn)) /\ Len(got) = c
        BY <2>2, <4>0, Zenon
      <4> QED
        BY <1>1, <4>1, Zenon
    <3> QED
      BY <2>2, <3>1, TrailAdvances, Zenon
  <2> QED
    BY <2>1, <2>2, Zenon
<1> QED
  BY <1>2, <1>3, <1>4, Zenon DEF ReaderInv

\* What the frame tells of the server, by its opcode.
LEMMA SendsControl ==
  ASSUME NEW m, NEW f, NEW n, NEW c, NEW d, Sends(sent, torn, m, f, n, c, d),
         f.op \in {"ping", "101", "refusal"}
  PROVE  n = m /\ d = c
BY Zenon DEF Sends

\* A pong is a message of its own, and tears the one begun.
LEMMA SendsPong ==
  ASSUME NEW m, NEW f, NEW n, NEW c, NEW d, Sends(sent, torn, m, f, n, c, d),
         f.op = "pong"
  PROVE  /\ n = m /\ d = c + 1 /\ sent[d] = [op |-> "pong", data |-> f.data]
         /\ m.op # "none" => torn
BY Zenon DEF Sends

\* A data frame comes only when no message is begun.
LEMMA SendsData ==
  ASSUME NEW m, NEW f, NEW n, NEW c, NEW d, Sends(sent, torn, m, f, n, c, d),
         f.op \in {"text", "binary"}
  PROVE  m.op = "none"
BY Zenon DEF Sends

\* A final data frame is a whole message.
LEMMA SendsWhole ==
  ASSUME NEW m, NEW f, NEW n, NEW c, NEW d, Sends(sent, torn, m, f, n, c, d),
         f.op \in {"text", "binary"}, f.fin
  PROVE  n = Reader!NoFragment /\ d = c + 1 /\ sent[d] = [op |-> f.op, data |-> f.data]
BY Zenon DEF Sends

\* A data frame that is not final begins a message.
LEMMA SendsFirst ==
  ASSUME NEW m, NEW f, NEW n, NEW c, NEW d, Sends(sent, torn, m, f, n, c, d),
         f.op \in {"text", "binary"}, ~f.fin
  PROVE  n = [op |-> f.op, data |-> f.data] /\ d = c
BY Zenon DEF Sends

\* A continuation comes only when a message is begun.
LEMMA SendsContinuation ==
  ASSUME NEW m, NEW f, NEW n, NEW c, NEW d, Sends(sent, torn, m, f, n, c, d),
         f.op = "cont"
  PROVE  m.op # "none"
BY Zenon DEF Sends

\* The final continuation ends the message begun.
LEMMA SendsLast ==
  ASSUME NEW m, NEW f, NEW n, NEW c, NEW d, Sends(sent, torn, m, f, n, c, d),
         f.op = "cont", f.fin
  PROVE  /\ n = Reader!NoFragment /\ d = c + 1
         /\ sent[d] = [op |-> m.op, data |-> m.data \o f.data]
BY Zenon DEF Sends

\* Another continuation adds to the message begun.
LEMMA SendsMore ==
  ASSUME NEW m, NEW f, NEW n, NEW c, NEW d, Sends(sent, torn, m, f, n, c, d),
         f.op = "cont", ~f.fin
  PROVE  n = [op |-> m.op, data |-> m.data \o f.data] /\ d = c
BY Zenon DEF Sends

\* Every way ReadMessage takes a frame.
LEMMA ReadFrameKeepsInv == ReaderInv /\ Reader!ReadFrame => ReaderInv'
<1> SUFFICES ASSUME ReaderInv, Reader!ReadFrame PROVE ReaderInv'
  OBVIOUS
<1> DEFINE f == Head(in)
<1>1. at = "read" /\ at # "stopped" /\ in # <<>> /\ in' = Tail(in) /\ UNCHANGED Reader!peer
  BY Zenon DEF Reader!ReadFrame, Reader!Unread
<1>2. f \in Frame /\ frag \in Started
  <2>1. in \in Seq(Frame) /\ frag \in Started
    BY Zenon DEF ReaderInv, ReaderType
  <2> QED
    BY <1>1, <2>1
<1>3. /\ f.op \in Reader!Opcodes \cup Reader!Replies /\ f.fin \in BOOLEAN /\ f.data \in Datas
      /\ frag.op \in {"none", "text", "binary"} /\ frag.data \in Datas
  BY <1>2, Zenon DEF Frame, Started
<1>4. \/ Len(f.data) > MaxPayload /\ Reader!Stop("too large")
      \/ /\ Len(f.data) <= MaxPayload
         /\ \/ f.op = "ping" /\ Reader!OnPing(f)
            \/ f.op = "pong" /\ Reader!Deliver("pong", f.data)
            \/ f.op = "close" /\ Reader!Stop("closed")
            \/ f.op \in Reader!Data /\ Reader!OnData(f)
            \/ f.op = "cont" /\ Reader!OnContinuation(f)
            \/ f.op = "reserved" /\ Reader!Stop("opcode")
  BY Zenon DEF Reader!ReadFrame, Reader!Unread
<1>5. frag.data \o f.data \in Datas
  BY <1>3 DEF Datas
<1>6. ASSUME NEW w \in {"too large", "closed", "opcode"}, Reader!Stop(w) PROVE ReaderInv'
  <2>1. w # "continuation"
    BY <1>6, Zenon
  <2> QED
    BY <1>1, <1>6, <2>1, StopKeepsInv, Zenon
<1>7. CASE f.op = "ping" /\ Reader!OnPing(f)
  <2>1. \A m, n \in Started, c, d \in Nat : Reads(m, n, c, d) =>
          d = c /\ (frag = n \/ (frag = Reader!NoFragment /\ torn))
    <3> SUFFICES ASSUME NEW m \in Started, NEW n \in Started, NEW c \in Nat, NEW d \in Nat,
                        Reads(m, n, c, d)
                 PROVE  d = c /\ (frag = n \/ (frag = Reader!NoFragment /\ torn))
      BY Zenon
    <3>1. Sends(sent, torn, m, f, n, c, d) /\ f.op \in {"ping", "101", "refusal"}
      BY <1>7, Zenon DEF Reads
    <3>2. n = m /\ d = c
      BY <3>1, SendsControl, Zenon
    <3> QED
      BY <3>2, Zenon DEF Reads
  <2>2. UNCHANGED <<at, end, got, frag>>
    BY <1>7, Zenon DEF Reader!OnPing
  <2> QED
    BY <1>1, <1>2, <2>1, <2>2, CollectKeepsInv, Zenon
<1>8. CASE f.op = "pong" /\ Reader!Deliver("pong", f.data) /\ Len(f.data) <= MaxPayload
  <2>1. \A m, n \in Started, c, d \in Nat : Reads(m, n, c, d) =>
           /\ d = c + 1 /\ sent[d] = [op |-> "pong", data |-> f.data]
           /\ n = Reader!NoFragment \/ torn
    <3> SUFFICES ASSUME NEW m \in Started, NEW n \in Started, NEW c \in Nat, NEW d \in Nat,
                        Reads(m, n, c, d)
                 PROVE  /\ d = c + 1 /\ sent[d] = [op |-> "pong", data |-> f.data]
                        /\ n = Reader!NoFragment \/ torn
      BY Zenon
    <3>1. Sends(sent, torn, m, f, n, c, d) /\ (m.op = "none" => m = Reader!NoFragment)
      BY Zenon DEF Reads
    <3>2. /\ n = m /\ d = c + 1 /\ sent[d] = [op |-> "pong", data |-> f.data]
          /\ m.op # "none" => torn
      BY <1>8, <3>1, SendsPong, Zenon
    <3> QED
      BY <3>1, <3>2, Zenon
  <2> QED
    BY <1>1, <1>3, <1>8, <2>1, DeliverKeepsInv, Zenon
<1>9. CASE f.op \in Reader!Data /\ Reader!OnData(f) /\ Len(f.data) <= MaxPayload
  <2>0. f.op \in {"text", "binary"} /\ f.op # "none"
    BY <1>9 DEF Reader!Data
  <2>1. \A m, n \in Started, c, d \in Nat : Reads(m, n, c, d) =>
          /\ m.op = "none" /\ frag = Reader!NoFragment
          /\ f.fin => /\ n = Reader!NoFragment /\ d = c + 1
                      /\ sent[d] = [op |-> f.op, data |-> f.data]
          /\ ~f.fin => n = [op |-> f.op, data |-> f.data] /\ d = c
    <3> SUFFICES ASSUME NEW m \in Started, NEW n \in Started, NEW c \in Nat, NEW d \in Nat,
                        Reads(m, n, c, d)
                 PROVE  /\ m.op = "none" /\ frag = Reader!NoFragment
                        /\ f.fin => /\ n = Reader!NoFragment /\ d = c + 1
                                    /\ sent[d] = [op |-> f.op, data |-> f.data]
                        /\ ~f.fin => n = [op |-> f.op, data |-> f.data] /\ d = c
      BY Zenon
    <3>1. Sends(sent, torn, m, f, n, c, d)
      BY Zenon DEF Reads
    <3>2. m.op = "none"
      BY <2>0, <3>1, SendsData, Zenon
    <3>3. frag = Reader!NoFragment
      BY <3>2, Zenon DEF Reads
    <3> QED
      <4> HIDE DEF f
      <4>1. f.fin => /\ n = Reader!NoFragment /\ d = c + 1
                     /\ sent[d] = [op |-> f.op, data |-> f.data]
        BY <2>0, <3>1, SendsWhole
      <4>2. ~f.fin => n = [op |-> f.op, data |-> f.data] /\ d = c
        BY <2>0, <3>1, SendsFirst, Zenon
      <4> QED
        BY <3>2, <3>3, <4>1, <4>2, Zenon
  <2>2. CASE f.fin /\ Reader!Deliver(f.op, f.data)
    <3>1. \A m, n \in Started, c, d \in Nat : Reads(m, n, c, d) =>
            /\ d = c + 1 /\ sent[d] = [op |-> f.op, data |-> f.data]
            /\ n = Reader!NoFragment \/ torn
      BY <2>1, <2>2, Zenon
    <3>2. f.op \in {"text", "binary", "pong"} /\ f.data \in Datas /\ Len(f.data) <= MaxPayload
      BY <1>3, <1>9, <2>0, Zenon
    <3>3. PICK o \in {"text", "binary", "pong"}, x \in Datas : o = f.op /\ x = f.data
      BY <3>2, Zenon
    <3>4. /\ Reader!Deliver(o, x) /\ Len(x) <= MaxPayload
          /\ \A m, n \in Started, c, d \in Nat : ~broke /\ Reads(m, n, c, d) =>
                d = c + 1 /\ sent[d] = [op |-> o, data |-> x] /\ (n = Reader!NoFragment \/ torn)
      BY <2>2, <3>1, <3>2, <3>3, ZenonT(60)
    <3> QED
      BY <1>1, <3>3, <3>4, DeliverKeepsInv, ZenonT(60)
  <2>3. CASE Reader!Stop("too large")
    BY <1>6, <2>3, Zenon
  <2>4. CASE ~f.fin /\ Reader!Collect(f.op, frag.data \o f.data)
    <3> DEFINE msg == [op |-> f.op, data |-> frag.data \o f.data]
    <3>1. msg \in Started
      BY <1>5, <2>0, Zenon DEF Started
    <3>2. at' = at /\ frag' = msg /\ UNCHANGED <<end, got>>
      BY <2>4, Zenon DEF Reader!Collect
    <3>3. frag = Reader!NoFragment => frag.data \o f.data = f.data
      <4>1. frag = Reader!NoFragment => frag.data = <<>>
        BY DEF Reader!NoFragment
      <4>2. \A x \in Datas : <<>> \o x = x
        BY DEF Datas
      <4> QED
        BY <1>3, <4>1, <4>2, Zenon
    <3>4. \A m, n \in Started, c, d \in Nat : Reads(m, n, c, d) => d = c /\ msg = n
      BY <2>1, <2>4, <3>3, Zenon
    <3> HIDE DEF msg
    <3> QED
      BY <1>1, <3>1, <3>2, <3>4, CollectKeepsInv, Zenon
  <2> QED
    BY <1>9, <2>2, <2>3, <2>4, Zenon DEF Reader!OnData
<1>10. CASE f.op = "cont" /\ Reader!OnContinuation(f)
  <2>1. \A m, n \in Started, c, d \in Nat : Reads(m, n, c, d) =>
          /\ m.op # "none"
          /\ f.fin => /\ n = Reader!NoFragment /\ d = c + 1
                      /\ sent[d] = [op |-> m.op, data |-> m.data \o f.data]
          /\ ~f.fin => n = [op |-> m.op, data |-> m.data \o f.data] /\ d = c
    <3> SUFFICES ASSUME NEW m \in Started, NEW n \in Started, NEW c \in Nat, NEW d \in Nat,
                        Reads(m, n, c, d)
                 PROVE  /\ m.op # "none"
                        /\ f.fin => /\ n = Reader!NoFragment /\ d = c + 1
                                    /\ sent[d] = [op |-> m.op, data |-> m.data \o f.data]
                        /\ ~f.fin => n = [op |-> m.op, data |-> m.data \o f.data] /\ d = c
      BY Zenon
    <3>1. Sends(sent, torn, m, f, n, c, d)
      BY Zenon DEF Reads
    <3> HIDE DEF f
    <3>2. m.op # "none"
      BY <1>10, <3>1, SendsContinuation, Zenon
    <3>3. f.fin => /\ n = Reader!NoFragment /\ d = c + 1
                   /\ sent[d] = [op |-> m.op, data |-> m.data \o f.data]
      BY <1>10, <3>1, SendsLast, Zenon
    <3>4. ~f.fin => n = [op |-> m.op, data |-> m.data \o f.data] /\ d = c
      BY <1>10, <3>1, SendsMore, Zenon
    <3> QED
      BY <3>2, <3>3, <3>4, Zenon
  <2>2. CASE frag.op = "none" /\ Reader!Stop("continuation")
    <3>1. broke \/ torn
      <4>1. ~broke => \E m, n \in Started, c, d \in Nat : Reads(m, n, c, d)
        BY <1>1, ReaderReads, Zenon
      <4> QED
        BY <2>1, <2>2, <4>1, Zenon DEF Reads
    <3> QED
      BY <1>1, <2>2, <3>1, StopKeepsInv, Zenon
  <2>3. CASE Reader!Stop("too large")
    BY <1>6, <2>3, Zenon
  <2>4. ASSUME frag.op # "none"
        PROVE  \A m, n \in Started, c, d \in Nat : Reads(m, n, c, d) => frag = m
    <3>1. Reader!NoFragment.op = "none"
      BY Zenon DEF Reader!NoFragment
    <3> QED
      BY <2>4, <3>1, Zenon DEF Reads
  <2>5. CASE /\ frag.op # "none" /\ f.fin /\ ~Reader!TooLong(frag.data \o f.data)
             /\ Reader!Deliver(frag.op, frag.data \o f.data)
    <3>1. Len(frag.data \o f.data) <= MaxPayload
      <4>1. \A x \in Datas : Len(x) \in Nat
        BY DEF Datas
      <4>2. Len(frag.data \o f.data) \in Nat /\ ~(Len(frag.data \o f.data) > MaxPayload)
        BY <1>5, <2>5, <4>1, Zenon DEF Reader!TooLong
      <4>3. \A k \in Nat : ~(k > MaxPayload) => k <= MaxPayload
        BY PayloadAssumption
      <4> QED
        BY <4>2, <4>3, Zenon
    <3>2. frag.op \in {"text", "binary", "pong"}
      BY <1>3, <2>5
    <3> QED
      <4> DEFINE data == frag.data \o f.data
      <4>1. \A m, n \in Started, c, d \in Nat : Reads(m, n, c, d) =>
              /\ d = c + 1 /\ sent[d] = [op |-> frag.op, data |-> data]
              /\ n = Reader!NoFragment \/ torn
        BY <2>1, <2>4, <2>5, ZenonT(60)
      <4>2. data \in Datas /\ Len(data) <= MaxPayload /\ Reader!Deliver(frag.op, data)
        BY <1>5, <2>5, <3>1, Zenon
      <4>3. PICK o \in {"text", "binary", "pong"}, x \in Datas : o = frag.op /\ x = data
        BY <3>2, <4>2, Zenon
      <4>4. /\ Reader!Deliver(o, x) /\ Len(x) <= MaxPayload
            /\ \A m, n \in Started, c, d \in Nat : ~broke /\ Reads(m, n, c, d) =>
                  d = c + 1 /\ sent[d] = [op |-> o, data |-> x] /\ (n = Reader!NoFragment \/ torn)
        BY <4>1, <4>2, <4>3, Zenon
      <4> QED
        BY <1>1, <4>3, <4>4, DeliverKeepsInv, ZenonT(60)
  <2>6. CASE frag.op # "none" /\ ~f.fin /\ Reader!Collect(frag.op, frag.data \o f.data)
    <3> DEFINE msg == [op |-> frag.op, data |-> frag.data \o f.data]
    <3>1. msg \in Started
      BY <1>3, <1>5, Zenon DEF Started
    <3>2. at' = at /\ frag' = msg /\ UNCHANGED <<end, got>>
      BY <2>6, Zenon DEF Reader!Collect
    <3>3. \A m, n \in Started, c, d \in Nat : Reads(m, n, c, d) => d = c /\ msg = n
      BY <2>1, <2>4, <2>6, Zenon
    <3> HIDE DEF msg
    <3> QED
      BY <1>1, <3>1, <3>2, <3>3, CollectKeepsInv, Zenon
  <2> QED
    BY <1>10, <2>2, <2>3, <2>5, <2>6, Zenon DEF Reader!OnContinuation
<1> QED
  BY <1>4, <1>6, <1>7, <1>8, <1>9, <1>10, Zenon

\* The other steps of the client and the server.
LEMMA HandshakeKeepsInv == ReaderInv /\ Reader!Handshake => ReaderInv'
<1> SUFFICES ASSUME ReaderInv, Reader!Handshake PROVE ReaderInv'
  OBVIOUS
<1>1. at = "handshake" /\ at # "stopped" /\ in # <<>> /\ in' = Tail(in) /\ UNCHANGED Reader!peer
  BY Zenon DEF Reader!Handshake
<1>2. CASE Head(in).op = "101" /\ at' = "read" /\ UNCHANGED <<end, got, frag>>
  <2>1. \A m, n \in Started, c, d \in Nat : Reads(m, n, c, d) =>
          d = c /\ (frag = n \/ (frag = Reader!NoFragment /\ torn))
    <3> SUFFICES ASSUME NEW m \in Started, NEW n \in Started, NEW c \in Nat, NEW d \in Nat,
                        Reads(m, n, c, d)
                 PROVE  d = c /\ (frag = n \/ (frag = Reader!NoFragment /\ torn))
      BY Zenon
    <3>1. Sends(sent, torn, m, Head(in), n, c, d) /\ Head(in).op \in {"ping", "101", "refusal"}
      BY <1>2, Zenon DEF Reads
    <3>2. n = m /\ d = c
      BY <3>1, SendsControl, Zenon
    <3> QED
      BY <3>2, Zenon DEF Reads
  <2>2. frag \in Started /\ at' # "stopped"
    BY <1>2, Zenon DEF ReaderInv, ReaderType
  <2> QED
    BY <1>1, <1>2, <2>1, <2>2, CollectKeepsInv, Zenon
<1>3. CASE Reader!Stop("refused")
  <2>1. "refused" # "continuation"
    OBVIOUS
  <2> QED
    BY <1>1, <1>3, <2>1, StopKeepsInv, Zenon
<1> QED
  BY <1>2, <1>3, Zenon DEF Reader!Handshake

\* The connection ends under the reader.
LEMMA ReadFailKeepsInv == ReaderInv /\ Reader!ReadFail => ReaderInv'
<1> SUFFICES ASSUME ReaderInv, Reader!ReadFail PROVE ReaderInv'
  OBVIOUS
<1>1. at' = "stopped" /\ end' # "continuation" /\ UNCHANGED <<in, got, frag, server, sent, broke, torn>>
  BY Zenon DEF Reader!ReadFail, Reader!Stop, Reader!peer
<1>2. ReaderType'
  BY <1>1, Zenon DEF ReaderInv, ReaderType
<1>3. Reader!MessagesInOrder'
  BY <1>1, Zenon DEF ReaderInv, Reader!MessagesInOrder
<1>4. \A ms, cs : Trail(ms, cs) => Trail(ms, cs)'
  BY <1>1, ZenonT(60) DEF Trail
<1> QED
  BY <1>1, <1>2, <1>3, <1>4, Zenon DEF ReaderInv

\* The server hangs up.
LEMMA HangUpKeepsInv == ReaderInv /\ Reader!HangUp => ReaderInv'
<1> SUFFICES ASSUME ReaderInv, Reader!HangUp PROVE ReaderInv'
  OBVIOUS
<1>1. PICK c \in Cut : server' = [server EXCEPT !.cut = c]
  BY Zenon DEF Reader!HangUp, Cut
<1>2. UNCHANGED <<at, in, frag, got, end, sent, broke, torn>>
  BY Zenon DEF Reader!HangUp, Reader!client
<1>3. server'.msg = server.msg /\ ReaderType'
  BY <1>1, <1>2, Zenon DEF ReaderInv, ReaderType
<1>4. Reader!MessagesInOrder'
  BY <1>2, Zenon DEF ReaderInv, Reader!MessagesInOrder
<1>5. \A ms, cs : Trail(ms, cs) => Trail(ms, cs)'
  BY <1>2, <1>3, ZenonT(60) DEF Trail
<1> QED
  BY <1>2, <1>3, <1>4, <1>5, Zenon DEF ReaderInv

\* The server answers the upgrade request.
LEMMA RespondKeepsInv == ReaderInv /\ Reader!Respond => ReaderInv'
<1> SUFFICES ASSUME ReaderInv, Reader!Respond PROVE ReaderInv'
  OBVIOUS
<1>1. PICK r \in Reader!Replies :
        /\ in' = Append(in, [op |-> r, fin |-> TRUE, data |-> <<>>])
        /\ server' = [server EXCEPT !.last = r]
  BY Zenon DEF Reader!Respond
<1> DEFINE f == [op |-> r, fin |-> TRUE, data |-> <<>>]
<1>2. UNCHANGED <<at, frag, got, end, sent, broke, torn>>
  BY Zenon DEF Reader!Respond
<1>3. ReaderType
  BY Zenon DEF ReaderInv
<1>4. f \in Frame /\ f.op \in {"ping", "close", "101", "refusal"}
  <2>1. <<>> \in Datas
    BY DEF Datas
  <2> QED
    BY <1>1, <2>1, Zenon DEF Frame, Reader!Replies
<1>5. in' = Append(in, f) /\ r \in LastOp
  BY <1>1, Zenon DEF LastOp
<1> HIDE DEF f
<1>6. server'.msg = server.msg
  BY <1>1, <1>3, Zenon DEF ReaderType
<1>7. ReaderType'
  <2>1. in' \in Seq(Frame)
    BY <1>3, <1>4, <1>5 DEF ReaderType
  <2>2. server' \in [msg : Started, frames : Nat, bytes : Nat, last : LastOp, cut : Cut]
    BY <1>1, <1>3, <1>5, Zenon DEF ReaderType
  <2> QED
    BY <1>2, <1>3, <2>1, <2>2, Zenon DEF ReaderType
<1>8. Reader!MessagesInOrder'
  BY <1>2, Zenon DEF ReaderInv, Reader!MessagesInOrder
<1>9. ASSUME NEW ms \in Seq(Started), NEW cs \in Seq(Nat), Trail(ms, cs)
      PROVE  \E nms \in Seq(Started), ncs \in Seq(Nat) : Trail(nms, ncs)'
  <2>1. PICK N \in Nat : N = Len(in) + 1
    BY <1>3 DEF ReaderType
  <2>2. /\ Len(in') = N /\ N \in 1..N /\ 1 \in 1..N /\ in'[N] = f
        /\ \A i \in 1..N : i = N \/ (i \in 1..Len(in) /\ i + 1 \in 1..N /\ in'[i] = in[i])
    BY <1>3, <1>4, <1>5, <2>1 DEF ReaderType
  <2>3. /\ Len(ms) = N /\ Len(cs) = N /\ ms[N] = server.msg /\ cs[N] = Len(sent)
        /\ \A i \in 1..N : (ms[i].op = "none" => ms[i] = Reader!NoFragment) /\ cs[i] <= Len(sent)
        /\ \A i \in 1..Len(in) : Sends(sent, torn, ms[i], in[i], ms[i + 1], cs[i], cs[i + 1])
    BY <1>9, <2>1, Zenon DEF Trail
  <2>4. server.msg \in Started /\ Len(sent) \in Nat
    BY <1>3 DEF ReaderType
  <2>5. PICK nms \in Seq(Started) : /\ Len(nms) = N + 1 /\ nms[N + 1] = server.msg
                                  /\ \A i \in 1..N : nms[i] = ms[i]
    <3>1. LET x == Append(ms, server.msg)
          IN  x \in Seq(Started) /\ Len(x) = N + 1 /\ x[N + 1] = server.msg /\ \A i \in 1..N : x[i] = ms[i]
      BY <2>3, <2>4
    <3> QED
      BY <3>1, Zenon
  <2>6. PICK ncs \in Seq(Nat) : /\ Len(ncs) = N + 1 /\ ncs[N + 1] = Len(sent)
                                /\ \A i \in 1..N : ncs[i] = cs[i]
    <3>1. LET x == Append(cs, Len(sent))
          IN  x \in Seq(Nat) /\ Len(x) = N + 1 /\ x[N + 1] = Len(sent) /\ \A i \in 1..N : x[i] = cs[i]
      BY <2>3, <2>4
    <3> QED
      BY <3>1, Zenon
  <2>7. \A i \in 1..N : Sends(sent, torn, nms[i], in'[i], nms[i + 1], ncs[i], ncs[i + 1])
    <3> SUFFICES ASSUME NEW i \in 1..N
                 PROVE  Sends(sent, torn, nms[i], in'[i], nms[i + 1], ncs[i], ncs[i + 1])
      OBVIOUS
    <3>1. CASE i = N
      <4>1. nms[i] = server.msg /\ nms[i + 1] = server.msg /\ ncs[i] = Len(sent) /\ ncs[i + 1] = Len(sent)
        BY <2>2, <2>3, <2>5, <2>6, <3>1, Zenon
      <4> QED
        BY <1>4, <2>2, <3>1, <4>1, Zenon DEF Sends
    <3>2. CASE i \in 1..Len(in) /\ i + 1 \in 1..N /\ in'[i] = in[i]
      BY <2>3, <2>5, <2>6, <3>2, Zenon
    <3> QED
      BY <2>2, <3>1, <3>2, Zenon
  <2>8. \A i \in 1..(N + 1) : i \in 1..N \/ i = N + 1
    OBVIOUS
  <2>9. \A i \in 1..(N + 1) : /\ nms[i].op = "none" => nms[i] = Reader!NoFragment
                              /\ ncs[i] <= Len(sent)
    <3>1. Len(sent) <= Len(sent)
      BY <2>4
    <3> QED
      <4>1. \A i \in 1..(N + 1) : ncs[i] <= Len(sent)
        BY <2>3, <2>6, <2>8, <3>1, Zenon
      <4>2. \A i \in 1..(N + 1) : nms[i].op = "none" => nms[i] = Reader!NoFragment
        BY <2>2, <2>3, <2>5, <2>8, ZenonT(60)
      <4> QED
        BY <4>1, <4>2, Zenon
  <2>10. at' # "stopped" => /\ Len(got') = ncs[1]
                            /\ frag' = nms[1] \/ (frag' = Reader!NoFragment /\ torn)
    BY <1>2, <1>9, <2>2, <2>5, <2>6, Zenon DEF Trail
  <2>11. Trail(nms, ncs)'
    BY <1>2, <1>6, <2>2, <2>5, <2>6, <2>7, <2>9, <2>10, Zenon DEF Trail
  <2> QED
    BY <2>11, Zenon
<1> QED
  BY <1>2, <1>7, <1>8, <1>9, Zenon DEF ReaderInv

\* Every step keeps ReaderInv.
LEMMA ReaderKeepsInv == ReaderInv /\ [Reader!Next]_(Reader!vars) => ReaderInv'
<1> SUFFICES ASSUME ReaderInv, [Reader!Next]_(Reader!vars) PROVE ReaderInv'
  OBVIOUS
<1>1. CASE Reader!Client
  BY <1>1, HandshakeKeepsInv, ReadFrameKeepsInv, ReadFailKeepsInv, Zenon DEF Reader!Client
<1>2. CASE Reader!Server
  BY <1>2, RespondKeepsInv, HangUpKeepsInv, SendFrameKeepsInv, Zenon DEF Reader!Server
<1>3. CASE UNCHANGED Reader!vars
  <2>1. UNCHANGED <<at, in, frag, got, end, server, sent, broke, torn>>
    BY <1>3, Zenon DEF Reader!vars, Reader!client, Reader!peer
  <2>2. \A ms, cs : Trail(ms, cs) => Trail(ms, cs)'
    BY <2>1, ZenonT(60) DEF Trail
  <2> QED
    BY <2>1, <2>2, Zenon DEF ReaderInv, ReaderType, Reader!MessagesInOrder
<1> QED
  BY <1>1, <1>2, <1>3, Zenon DEF Reader!Next

\* Whatever the server sends and however long its messages are, ReadMessage
\* returns a prefix of the messages of a server that keeps to RFC 6455, calls a
\* continuation unexpected only for a cause, and returns nothing that exceeds
\* maxPayloadSize (websocket_client.go).
THEOREM MessagesInOrderHolds == Reader!Spec => []MessagesInOrder
<1>1. ReaderInv => MessagesInOrder
  BY Zenon DEF ReaderInv, MessagesInOrder
<1> QED
  BY <1>1, ReaderInitInv, ReaderKeepsInv, PTL DEF Reader!Spec

================================================================================
