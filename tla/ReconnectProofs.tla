--------------------------- MODULE ReconnectProofs ---------------------------
(***************************************************************************)
(* Proofs about ReconnectWebSocket for every limit, every number of users  *)
(* and every bound on dials and messages.                                  *)
(***************************************************************************)
EXTENDS ReconnectWebSocket, TLAPS

\* Run holds a connection it has dialled and not yet given up.
Busy == {"publish", "connect", "listen", "wait", "disconnect", "clear", "close"}

\* Every dial is counted when it failed or when its connection was lost, so
\* the counter lags behind the dials by the connection Run holds.
Counting ==
  /\ reconnects <= dials /\ ws <= dials
  /\ pc \in {"top", "dial", "sleep"} => reconnects = dials
  /\ pc \in Busy => ws = dials /\ ws # None /\ reconnects = dials - 1
  /\ MaxReconnects >= 0 => /\ dials <= MaxReconnects + 1
                           /\ pc = "dial" => dials <= MaxReconnects

\* Only the connection Run holds may be listening and not closed.
Listening ==
  \A i \in Ids : lis[i] # "none" =>
    /\ i <= ws
    /\ i = ws => pc \notin {"publish", "connect", "listen"}
    /\ i # ws \/ pc \in {"top", "dial", "sleep", "return"} => closed[i]

Inv == TypeOK /\ Counting /\ CurrentFresh /\ Listening

-----------------------------------------------------------------------------
(* Closing a connection *)

\* The types of what Close and ReadMessage change, and isClosed never reset.
Grows ==
  /\ closed' \in [Ids -> BOOLEAN] /\ sock' \in [Ids -> Sock] /\ stored' \in [Ids -> BOOLEAN]
  /\ \A j \in Ids : closed[j] => closed'[j]

\* Closing any connection, or none, leaves closed connections closed.
LEMMA CloseConnGrows ==
  ASSUME TypeOK, NEW i \in {None} \cup Ids, CloseConn(i)
  PROVE  Grows /\ (i \in Ids => closed'[i])
<1>1. CASE i = None \/ closed[i]
  <2>1. UNCHANGED link
    BY <1>1, Zenon DEF CloseConn
  <2>2. None \notin Ids
    BY DEF None, Ids
  <2> QED
    BY <1>1, <2>1, <2>2, Zenon DEF TypeOK, link, Grows
<1>2. CASE ~(i = None \/ closed[i])
  <2>1. i \in Ids
    BY <1>2, Zenon
  <2>2. PICK s \in {"closed", "failed"} :
          sock' = [sock EXCEPT ![i] = IF sock[i] = "open" THEN s ELSE sock[i]]
    BY <1>2, Zenon DEF CloseConn
  <2>3. (IF sock[i] = "open" THEN s ELSE sock[i]) \in Sock
    BY <2>1, Zenon DEF TypeOK, Sock
  <2>4. sock' \in [Ids -> Sock]
    BY <2>2, <2>3, Zenon DEF TypeOK
  <2> QED
    BY <1>2, <2>1, <2>4, Zenon DEF TypeOK, CloseConn, Grows
<1> QED
  BY <1>1, <1>2, Zenon

\* So does storing isClosed.
LEMMA StoreClosedGrows ==
  ASSUME TypeOK, NEW i \in Ids, StoreClosed(i)
  PROVE  Grows
BY DEF TypeOK, StoreClosed, Grows

\* And a step that leaves them alone.
LEMMA UnchangedGrows ==
  ASSUME TypeOK, UNCHANGED link
  PROVE  Grows
BY Zenon DEF TypeOK, link, Grows

\* A step that leaves Run alone, starts no Listen and opens nothing again.
Outside ==
  /\ TypeOK' /\ UNCHANGED <<pc, reconnects, ws, client, dials>>
  /\ \A j \in Ids : lis'[j] # "none" => lis[j] # "none"
  /\ \A j \in Ids : closed[j] => closed'[j]

\* Such a step keeps what Run relies on.
LEMMA OutsideKeepsInv ==
  ASSUME Inv, Outside
  PROVE  Inv'
<1> USE DEF Outside
<1>1. Counting'
  BY Zenon DEF Inv, Counting
<1>2. CurrentFresh'
  BY Zenon DEF Inv, TypeOK, CurrentFresh, None
<1>3. Listening'
  BY Zenon DEF Inv, Listening
<1> QED
  BY <1>1, <1>2, <1>3, Zenon DEF Inv

\* Appending a callback keeps the log a sequence of events.
LEMMA CalledIsEvent ==
  ASSUME TypeOK, NEW c \in {"connect", "message", "error", "disconnect"},
         NEW i \in Ids, Called(c, i)
  PROVE  log' \in Seq(Event)
BY DEF TypeOK, Called, Event

\* notifyDone fills an empty channel once and keeps its type.
LEMMA NotifyDoneType ==
  ASSUME TypeOK, NEW i \in Ids, NEW v \in {"error", "nil"}, NotifyDone(i, v)
  PROVE  /\ once' \in [Ids -> BOOLEAN]
         /\ done' \in [Ids -> {<<>>, <<"error">>, <<"nil">>}]
<1>1. CASE once[i]
  BY <1>1, Zenon DEF NotifyDone, TypeOK
<1>2. CASE ~once[i]
  <2>1. done[i] = <<>> /\ done' = [done EXCEPT ![i] = Append(done[i], v)]
    BY <1>2, Zenon DEF NotifyDone
  <2>2. Append(<<>>, v) \in {<<"error">>, <<"nil">>}
    OBVIOUS
  <2>3. done' \in [Ids -> {<<>>, <<"error">>, <<"nil">>}]
    BY <2>1, <2>2, Zenon DEF TypeOK
  <2>4. once' \in [Ids -> BOOLEAN]
    BY <1>2, ZenonT(60) DEF NotifyDone, TypeOK
  <2> QED
    BY <2>3, <2>4, Zenon
<1> QED
  BY <1>1, <1>2, Zenon

-----------------------------------------------------------------------------
(* Every step keeps the inductive invariant *)

\* The steps of Run.
LEMMA RunKeepsInv ==
  ASSUME Inv, Run
  PROVE  Inv'
<1> USE ReconnectAssumption DEF Inv, link, Grows
<1>1. CASE Top
  <2>1. Grows
    BY <1>1, CloseConnGrows, UnchangedGrows, Zenon DEF Top, TypeOK
  <2>2. TypeOK'
    BY <1>1, <2>1, Zenon DEF Top, TypeOK, RunPc, users
  <2>3. Counting'
    BY <1>1 DEF Top, TypeOK, Counting, LimitReached, Busy, Ids, None
  <2>4. CurrentFresh' /\ Listening'
    BY <1>1, <2>1, Zenon DEF Top, CurrentFresh, Listening
  <2> QED
    BY <2>2, <2>3, <2>4, Zenon
<1>2. CASE DialError
  <2>1. dials + 1 \in Ids
    BY <1>2 DEF DialError, TypeOK, Ids
  <2>2. log' \in Seq(Event)
    BY <1>2, <2>1, CalledIsEvent, Zenon DEF DialError
  <2>3. TypeOK'
    BY <1>2, <2>1, <2>2 DEF DialError, TypeOK, Counting, RunPc, users, conns, Ids
  <2>4. Counting'
    BY <1>2 DEF DialError, TypeOK, Counting, Busy, Ids, None
  <2>5. CurrentFresh' /\ Listening'
    BY <1>2, Zenon DEF DialError, CurrentFresh, Listening, conns
  <2> QED
    BY <2>3, <2>4, <2>5, Zenon
<1>3. CASE DialOK
  <2>1. dials + 1 \in Ids
    BY <1>3 DEF DialOK, TypeOK, Ids
  <2>2. TypeOK'
    <3>1. sock' \in [Ids -> Sock]
      BY <1>3, <2>1, Zenon DEF DialOK, TypeOK, Sock
    <3> QED
      BY <1>3, <2>1, <3>1 DEF DialOK, TypeOK, RunPc, users, Ids
  <2>3. Counting'
    BY <1>3 DEF DialOK, TypeOK, Counting, Busy, Ids, None
  <2>4. CurrentFresh'
    BY <1>3, Zenon DEF DialOK, CurrentFresh
  <2>5. Listening'
    BY <1>3, <2>1 DEF DialOK, Listening, Counting, conns, TypeOK, Ids, None
  <2> QED
    BY <2>2, <2>3, <2>4, <2>5, Zenon
<1>4. CASE Publish \/ OnConnect
  <2>1. log' \in Seq(Event)
    BY <1>4, CalledIsEvent, Zenon DEF Publish, OnConnect, Counting, Busy, TypeOK
  <2>2. TypeOK'
    BY <1>4, <2>1, Zenon DEF Publish, OnConnect, TypeOK, RunPc, users, conns
  <2>3. Counting'
    BY <1>4, Zenon DEF Publish, OnConnect, Counting, Busy
  <2>4. CurrentFresh' /\ Listening'
    BY <1>4, Zenon DEF Publish, OnConnect, CurrentFresh, Listening, conns
  <2> QED
    BY <2>2, <2>3, <2>4, Zenon
<1>5. CASE Listen
  <2>1. ws \in Ids
    BY <1>5, Zenon DEF Listen, Counting, Busy, TypeOK
  <2>2. TypeOK'
    BY <1>5, <2>1, Zenon DEF Listen, TypeOK, RunPc, LisPc, users
  <2>3. Counting' /\ CurrentFresh'
    BY <1>5, Zenon DEF Listen, Counting, Busy, CurrentFresh
  <2>4. Listening'
    BY <1>5, <2>1 DEF Listen, Listening, TypeOK, Ids
  <2> QED
    BY <2>2, <2>3, <2>4, Zenon
<1>6. CASE WaitCtx
  <2>1. ws \in Ids
    BY <1>6, Zenon DEF WaitCtx, Counting, Busy, TypeOK
  <2>2. Grows /\ closed'[ws]
    BY <1>6, <2>1, CloseConnGrows, Zenon DEF WaitCtx, CtxWins
  <2>3. TypeOK'
    BY <1>6, <2>2, Zenon DEF WaitCtx, TypeOK, RunPc, users
  <2>4. Counting'
    BY <1>6, Zenon DEF WaitCtx, Counting, Busy
  <2>5. CurrentFresh' /\ Listening'
    BY <1>6, <2>1, <2>2, Zenon DEF WaitCtx, CurrentFresh, Listening
  <2> QED
    BY <2>3, <2>4, <2>5, Zenon
<1>7. CASE WaitDone
  <2>1. ws \in Ids
    BY <1>7, Zenon DEF WaitDone, Counting, Busy, TypeOK
  <2>2. done[ws] \in {<<"error">>, <<"nil">>}
    BY <1>7, <2>1, Zenon DEF WaitDone, TypeOK
  <2>3. Tail(done[ws]) = <<>>
    <3>1. Tail(<<"error">>) = <<>>
      OBVIOUS
    <3>2. Tail(<<"nil">>) = <<>>
      OBVIOUS
    <3> QED
      BY <2>2, <3>1, <3>2, Zenon
  <2>4. TypeOK'
    <3>1. done' = [done EXCEPT ![ws] = <<>>]
      BY <1>7, <2>3, ZenonT(60) DEF WaitDone
    <3>2. done' \in [Ids -> {<<>>, <<"error">>, <<"nil">>}]
      BY <2>1, <3>1, Zenon DEF TypeOK
    <3> QED
      BY <1>7, <3>2, Zenon DEF WaitDone, TypeOK, RunPc, users
  <2>5. Counting' /\ CurrentFresh' /\ Listening'
    BY <1>7, Zenon DEF WaitDone, Counting, Busy, CurrentFresh, Listening
  <2> QED
    BY <2>4, <2>5, Zenon
<1>8. CASE OnDisconnect
  <2>1. log' \in Seq(Event)
    BY <1>8, CalledIsEvent, Zenon DEF OnDisconnect, Counting, Busy, TypeOK
  <2>2. TypeOK'
    BY <1>8, <2>1, Zenon DEF OnDisconnect, TypeOK, RunPc, users, conns
  <2>3. Counting' /\ CurrentFresh' /\ Listening'
    BY <1>8, Zenon DEF OnDisconnect, Counting, Busy, CurrentFresh, Listening, conns
  <2> QED
    BY <2>2, <2>3, Zenon
<1>9. CASE Clear
  <2>1. TypeOK'
    BY <1>9, Zenon DEF Clear, Cleared, TypeOK, RunPc, users, conns
  <2>2. Counting' /\ CurrentFresh' /\ Listening'
    BY <1>9, Zenon DEF Clear, Cleared, Counting, Busy, CurrentFresh, Listening, conns
  <2> QED
    BY <2>1, <2>2, Zenon
<1>10. CASE CloseLost
  <2>1. ws \in Ids
    BY <1>10, Zenon DEF CloseLost, Counting, Busy, TypeOK
  <2>2. Grows /\ closed'[ws]
    BY <1>10, <2>1, CloseConnGrows, Zenon DEF CloseLost
  <2>3. TypeOK'
    <3>1. reconnects' \in 0..MaxDials
      BY <1>10 DEF CloseLost, TypeOK, Counting, Busy, Ids
    <3> QED
      BY <1>10, <2>2, <3>1, Zenon DEF CloseLost, TypeOK, RunPc, users
  <2>4. Counting'
    BY <1>10 DEF CloseLost, Counting, Busy, TypeOK, Ids
  <2>5. CurrentFresh' /\ Listening'
    BY <1>10, <2>1, <2>2, Zenon DEF CloseLost, CurrentFresh, Listening
  <2> QED
    BY <2>3, <2>4, <2>5, Zenon
<1>11. CASE Sleep
  <2>1. TypeOK'
    BY <1>11, Zenon DEF Sleep, TypeOK, RunPc, users, conns
  <2>2. Counting' /\ CurrentFresh' /\ Listening'
    BY <1>11, Zenon DEF Sleep, Counting, Busy, CurrentFresh, Listening, conns
  <2> QED
    BY <2>1, <2>2, Zenon
<1> QED
  BY <1>1, <1>2, <1>3, <1>4, <1>5, <1>6, <1>7, <1>8, <1>9, <1>10, <1>11, Zenon DEF Run

\* The steps of the goroutines of a connection.
LEMMA ConnectionKeepsInv ==
  ASSUME Inv, NEW i \in Ids, Listener(i) \/ WriteFails(i) \/ BackgroundClose(i)
  PROVE  Inv'
<1> SUFFICES Outside
  BY OutsideKeepsInv, Zenon
<1> USE DEF Outside, link, Grows
<1>0. TypeOK
  BY Zenon DEF Inv
<1>1. CASE ReadEnter(i)
  BY <1>0, <1>1, Zenon DEF ReadEnter, TypeOK, LisPc, users
<1>2. CASE ReadReturn(i)
  <2>1. Grows
    BY <1>0, <1>2, StoreClosedGrows, UnchangedGrows, Zenon DEF ReadReturn
  <2> QED
    BY <1>0, <1>2, <2>1, Zenon DEF ReadReturn, TypeOK, LisPc, users
<1>3. CASE OnMessage(i)
  <2>1. log' \in Seq(Event)
    BY <1>0, <1>3, CalledIsEvent, Zenon DEF OnMessage
  <2> QED
    BY <1>0, <1>3, <2>1, Zenon DEF OnMessage, TypeOK, LisPc, users
<1>4. CASE OnListenError(i)
  <2>1. /\ once' \in [Ids -> BOOLEAN]
        /\ done' \in [Ids -> {<<>>, <<"error">>, <<"nil">>}]
    BY <1>0, <1>4, NotifyDoneType, Zenon DEF OnListenError
  <2> QED
    BY <1>0, <1>4, <2>1, ZenonT(60) DEF OnListenError, TypeOK, LisPc, users
<1>5. CASE ListenClose(i)
  <2>1. Grows
    BY <1>0, <1>5, CloseConnGrows, Zenon DEF ListenClose
  <2> QED
    BY <1>0, <1>5, <2>1, ZenonT(60) DEF ListenClose, TypeOK, LisPc, users
<1>6. CASE OnListenDone(i)
  <2>1. /\ once' \in [Ids -> BOOLEAN]
        /\ done' \in [Ids -> {<<>>, <<"error">>, <<"nil">>}]
    BY <1>0, <1>6, NotifyDoneType, Zenon DEF OnListenDone
  <2> QED
    BY <1>0, <1>6, <2>1, ZenonT(60) DEF OnListenDone, TypeOK, LisPc, users
<1>7. CASE BackgroundClose(i)
  <2>1. Grows
    BY <1>0, <1>7, CloseConnGrows, Zenon DEF BackgroundClose
  <2> QED
    BY <1>0, <1>7, <2>1, Zenon DEF BackgroundClose, TypeOK, users
<1>8. CASE WriteFails(i)
  BY <1>0, <1>8, Zenon DEF WriteFails, TypeOK, Sock, users
<1> QED
  BY <1>1, <1>2, <1>3, <1>4, <1>5, <1>6, <1>7, <1>8, Zenon DEF Listener

\* The steps of users and of the owner of the context.
LEMMA CallerKeepsInv ==
  ASSUME Inv, Cancel \/ \E u \in Users : CloseCall(u) \/ CloseHeld(u)
  PROVE  Inv'
<1> SUFFICES Outside
  BY OutsideKeepsInv, Zenon
<1> USE DEF Outside, link, Grows
<1>0. TypeOK
  BY Zenon DEF Inv
<1>1. CASE Cancel
  BY <1>0, <1>1, Zenon DEF Cancel, TypeOK, conns, users
<1>2. ASSUME NEW u \in Users, CloseCall(u) PROVE Outside
  BY <1>0, <1>2, Zenon DEF CloseCall, TypeOK, conns
<1>3. ASSUME NEW u \in Users, CloseHeld(u) PROVE Outside
  <2>1. Grows
    BY <1>0, <1>3, CloseConnGrows, Zenon DEF CloseHeld, TypeOK
  <2> QED
    BY <1>0, <1>3, <2>1, Zenon DEF CloseHeld, TypeOK
<1> QED
  BY <1>1, <1>2, <1>3, Zenon

\* Inv holds in every state of every behaviour.
THEOREM InvHolds == Spec => []Inv
<1>1. Init => Inv
  <2> SUFFICES ASSUME Init PROVE Inv
    BY Zenon
  <2>1. ctxDone \in BOOLEAN
    BY Zenon DEF Init
  <2>2. TypeOK
    BY <2>1, ReconnectAssumption DEF Init, TypeOK, RunPc, LisPc, Sock, None, Ids
  <2>3. Counting /\ CurrentFresh /\ Listening
    BY ReconnectAssumption DEF Init, Counting, Busy, CurrentFresh, Listening, None
  <2> QED
    BY <2>2, <2>3, Zenon DEF Inv
<1>2. Inv /\ [Next]_vars => Inv'
  <2> SUFFICES ASSUME Inv, [Next]_vars PROVE Inv'
    BY Zenon
  <2>1. CASE UNCHANGED vars
    BY <2>1, ZenonT(60) DEF vars, Inv, TypeOK, Counting, CurrentFresh, Listening
  <2>2. CASE Next
    BY <2>2, RunKeepsInv, ConnectionKeepsInv, CallerKeepsInv, Zenon DEF Next
  <2> QED
    BY <2>1, <2>2, Zenon
<1> QED
  BY <1>1, <1>2, PTL DEF Spec

\* Every variable keeps its type and no done channel exceeds its capacity.
THEOREM TypeCorrect == Spec => []TypeOK
BY InvHolds, PTL DEF Inv

\* Run dials at most MaxReconnects + 1 times.
THEOREM DialBoundHolds == Spec => []DialBound
<1>1. Inv => DialBound
  BY Zenon DEF Inv, Counting, DialBound
<1> QED
  BY <1>1, InvHolds, PTL

\* Current never hands out a connection that has been replaced.
THEOREM CurrentFreshHolds == Spec => []CurrentFresh
BY InvHolds, PTL DEF Inv

-----------------------------------------------------------------------------
(* The sockets *)

Fresh == {"publish", "connect", "listen"}

\* An open socket whose client is marked closed was marked by ReadMessage, and
\* only a Close that came first closes one.
Tame(i) ==
  /\ stored[i] => closed[i] /\ sock[i] # "closed"
  /\ sock[i] = "open" /\ closed[i] => stored[i]
  /\ sock[i] = "closed" => closed[i]

\* Which connections there are: those up to the one Run holds, each listened on
\* unless Run is just about to. Only they are handed to users or marked.
Sockets ==
  /\ \A i \in Ids : Tame(i)
  /\ \A i \in Ids : sock[i] = "none" => ~closed[i] /\ lis[i] = "none"
  /\ \A i \in Ids : sock[i] # "none" =>
       i <= ws /\ (lis[i] # "none" \/ (i = ws /\ pc \in Fresh))
  /\ ws # None => sock[ws] # "none"
  /\ \A u \in Users : held[u] # None => sock[held[u]] # "none"

\* No connection appears or disappears, none that is not there is marked.
Evolves ==
  /\ \A i \in Ids : sock'[i] = "none" <=> sock[i] = "none"
  /\ \A i \in Ids : sock[i] = "none" => (closed'[i] <=> closed[i])
  /\ \A i \in Ids : Tame(i)'

\* Close of a connection that is there, or of none, is such a change.
LEMMA CloseConnEvolves ==
  ASSUME TypeOK, Sockets, NEW i \in {None} \cup Ids, i # None => sock[i] # "none", CloseConn(i)
  PROVE  Evolves
<1>1. CASE i = None \/ closed[i]
  <2>1. UNCHANGED link
    BY <1>1, Zenon DEF CloseConn
  <2> QED
    BY <2>1, Zenon DEF link, Sockets, Tame, Evolves
<1>2. CASE ~(i = None \/ closed[i])
  <2>1. PICK s \in {"closed", "failed"} :
          sock' = [sock EXCEPT ![i] = IF sock[i] = "open" THEN s ELSE sock[i]]
    BY <1>2, Zenon DEF CloseConn
  <2>2. i \in Ids /\ ~closed[i] /\ closed' = [closed EXCEPT ![i] = TRUE] /\ stored' = stored
    BY <1>2, Zenon DEF CloseConn
  <2>3. sock'[i] = IF sock[i] = "open" THEN s ELSE sock[i]
    BY <2>1, <2>2, Zenon DEF TypeOK
  <2>4. closed'[i] /\ ~stored[i] /\ sock[i] # "none"
    BY <1>2, <2>2, Zenon DEF TypeOK, Sockets, Tame
  <2>5. \A j \in Ids \ {i} : sock'[j] = sock[j] /\ closed'[j] = closed[j]
    BY <2>1, <2>2, Zenon DEF TypeOK
  <2>6. Tame(i)' /\ sock'[i] # "none"
    BY <2>2, <2>3, <2>4 DEF Tame
  <2>7. ASSUME NEW j \in Ids \ {i} PROVE Tame(j)'
    <3>1. Tame(j) /\ sock'[j] = sock[j] /\ closed'[j] = closed[j] /\ stored'[j] = stored[j]
      BY <2>2, <2>5, Zenon DEF Sockets
    <3> QED
      BY <3>1, Zenon DEF Tame
  <2> QED
    BY <2>4, <2>5, <2>6, <2>7, Zenon DEF Evolves
<1> QED
  BY <1>1, <1>2, Zenon

\* So is ReadMessage's store of isClosed.
LEMMA StoreClosedEvolves ==
  ASSUME TypeOK, Sockets, NEW i \in Ids, sock[i] # "none", StoreClosed(i)
  PROVE  Evolves
<1>1. closed'[i] /\ (stored'[i] <=> stored[i] \/ ~closed[i]) /\ sock' = sock
  BY Zenon DEF StoreClosed, TypeOK
<1>2. \A j \in Ids \ {i} : stored'[j] = stored[j] /\ closed'[j] = closed[j]
  BY Zenon DEF StoreClosed, TypeOK
<1>3. Tame(i)'
  BY <1>1, Zenon DEF Sockets, Tame
<1>4. \A j \in Ids \ {i} : Tame(j)'
  BY <1>1, <1>2, Zenon DEF Sockets, Tame
<1> QED
  BY <1>1, <1>2, <1>3, <1>4, Zenon DEF Evolves

\* So is no change.
LEMMA UnchangedEvolves ==
  ASSUME Sockets, UNCHANGED link
  PROVE  Evolves
BY Zenon DEF link, Sockets, Tame, Evolves

\* A step that leaves Run's connection alone and lets the sockets evolve.
LEMMA EvolvesKeepsSockets ==
  ASSUME Inv, Sockets, Evolves, ws' = ws, pc \in Fresh => pc' \in Fresh \/ lis'[ws] # "none",
         \A i \in Ids : lis[i] # "none" => lis'[i] # "none",
         \A i \in Ids : lis'[i] # "none" => lis[i] # "none" \/ i = ws,
         \A u \in Users : held'[u] = held[u] \/ held'[u] = client
  PROVE  Sockets'
<1>0. TypeOK /\ CurrentFresh
  BY Zenon DEF Inv
<1>1. /\ \A i \in Ids : Tame(i)'
      /\ \A i \in Ids : sock'[i] = "none" <=> sock[i] = "none"
      /\ \A i \in Ids : sock[i] = "none" => (closed'[i] <=> closed[i])
  BY Zenon DEF Evolves
<1>2. ws # None => ws \in Ids /\ sock[ws] # "none" /\ sock'[ws] # "none"
  BY <1>0, <1>1, Zenon DEF TypeOK, Sockets
<1>3. \A i \in Ids : sock'[i] = "none" => ~closed'[i] /\ lis'[i] = "none"
  <2>1. None \notin Ids
    BY DEF None, Ids
  <2> QED
    BY <1>1, <1>2, <2>1, Zenon DEF Sockets
<1>4. \A i \in Ids : sock'[i] # "none" =>
        i <= ws' /\ (lis'[i] # "none" \/ (i = ws' /\ pc' \in Fresh))
  BY <1>1, Zenon DEF Sockets
<1>5. \A u \in Users : held[u] \in {None} \cup Ids /\ client \in {None, ws}
  BY <1>0, Zenon DEF TypeOK, CurrentFresh
<1>6. \A u \in Users : held'[u] # None => sock'[held'[u]] # "none"
  BY <1>1, <1>2, <1>5, Zenon DEF Sockets
<1> QED
  BY <1>1, <1>2, <1>3, <1>4, <1>6, Zenon DEF Sockets

\* The steps of Run keep Sockets; a dial adds the connection Run holds next.
LEMMA RunKeepsSockets ==
  ASSUME Inv, Sockets, Run
  PROVE  Sockets'
<1>0. TypeOK /\ Counting /\ CurrentFresh
  BY Zenon DEF Inv
<1>1. CASE DialOK
  <2>1. dials + 1 \in Ids /\ ws <= dials
    BY <1>0, <1>1, ReconnectAssumption DEF DialOK, TypeOK, Counting, Ids
  <2> DEFINE n == dials + 1
  <2>2. /\ sock' = [sock EXCEPT ![n] = "open"] /\ ws' = n /\ pc = "dial" /\ pc' = "publish"
        /\ UNCHANGED <<closed, stored, lis, held>>
    BY <1>1, Zenon DEF DialOK, users
  <2>3. sock[n] = "none"
    <3>1. ~(n <= ws)
      BY <1>0, <2>1 DEF TypeOK, Ids, None
    <3> QED
      BY <2>1, <3>1, Zenon DEF Sockets
  <2>4. sock'[n] = "open" /\ \A i \in Ids \ {n} : sock'[i] = sock[i]
    BY <1>0, <2>1, <2>2, Zenon DEF TypeOK
  <2>5. \A i \in Ids : Tame(i)'
    BY <2>2, <2>3, <2>4, Zenon DEF Sockets, Tame
  <2>6. \A i \in Ids : sock'[i] = "none" => ~closed'[i] /\ lis'[i] = "none"
    BY <2>2, <2>4, Zenon DEF Sockets
  <2>7. \A i \in Ids : sock'[i] # "none" =>
          i <= ws' /\ (lis'[i] # "none" \/ (i = ws' /\ pc' \in Fresh))
    <3>1. \A i \in Ids : i <= ws => i <= n
      BY <1>0, <2>1 DEF TypeOK, Ids, None
    <3>2. n <= n
      BY <2>1 DEF Ids
    <3> QED
      BY <2>2, <2>4, <3>1, <3>2, Zenon DEF Sockets, Fresh
  <2>8. \A u \in Users : held'[u] # None => sock'[held'[u]] # "none"
    BY <1>0, <2>1, <2>2, <2>4, Zenon DEF Sockets, TypeOK
  <2> QED
    BY <2>1, <2>2, <2>4, <2>5, <2>6, <2>7, <2>8, Zenon DEF Sockets
<1>2. CASE Top \/ WaitCtx \/ CloseLost
  <2>1. client \in {None} \cup Ids /\ ws \in {None} \cup Ids
        /\ (client # None => sock[client] # "none") /\ (ws # None => sock[ws] # "none")
    BY <1>0, Zenon DEF TypeOK, CurrentFresh, Sockets
  <2>2. Evolves
    BY <1>0, <1>2, <2>1, CloseConnEvolves, UnchangedEvolves, Zenon
    DEF Top, WaitCtx, CtxWins, CloseLost
  <2>3. pc \notin Fresh /\ UNCHANGED <<ws, lis, held>>
    BY <1>2, Zenon DEF Top, WaitCtx, CloseLost, users, Fresh
  <2> QED
    BY <2>2, <2>3, EvolvesKeepsSockets, Zenon
<1>3. CASE Listen
  <2>1. ws \in Ids /\ lis' = [lis EXCEPT ![ws] = "enter"] /\ UNCHANGED <<link, ws, held>>
    BY <1>0, <1>3, Zenon DEF Listen, Counting, Busy, TypeOK, users
  <2>2. lis'[ws] = "enter" /\ \A i \in Ids \ {ws} : lis'[i] = lis[i]
    BY <1>0, <2>1, Zenon DEF TypeOK
  <2>3. Evolves
    BY <2>1, UnchangedEvolves, Zenon
  <2> QED
    BY <2>1, <2>2, <2>3, EvolvesKeepsSockets, Zenon
<1>4. CASE \/ DialError \/ Publish \/ OnConnect \/ WaitDone \/ OnDisconnect
           \/ Clear \/ Sleep
  <2>1. UNCHANGED <<link, ws, lis, held>> /\ (pc \in Fresh => pc' \in Fresh)
    BY <1>4, Zenon DEF DialError, Publish, OnConnect, WaitDone, OnDisconnect, Clear, Sleep,
                       conns, users, Fresh
  <2>2. Evolves
    BY <2>1, UnchangedEvolves, Zenon
  <2> QED
    BY <2>1, <2>2, EvolvesKeepsSockets, Zenon
<1> QED
  BY <1>1, <1>2, <1>3, <1>4, Zenon DEF Run

\* So do the goroutines of a connection, which run only where there is one.
LEMMA ConnectionKeepsSockets ==
  ASSUME Inv, Sockets, NEW i \in Ids, Listener(i) \/ WriteFails(i) \/ BackgroundClose(i)
  PROVE  Sockets'
<1>0. TypeOK
  BY Zenon DEF Inv
<1>1. UNCHANGED <<pc, ws, held>>
  BY Zenon DEF Listener, ReadEnter, ReadReturn, OnMessage, OnListenError, ListenClose,
               OnListenDone, WriteFails, BackgroundClose, users
<1>2. lis[i] # "none" => sock[i] # "none"
  BY Zenon DEF Sockets
<1>3. \A j \in Ids : lis'[j] # "none" <=> lis[j] # "none"
  <2>1. CASE Listener(i)
    <3>1. /\ lis[i] # "none"
          /\ \E p \in LisPc \ {"none"} : lis' = [lis EXCEPT ![i] = p]
      BY <2>1, Zenon DEF Listener, ReadEnter, ReadReturn, OnMessage, OnListenError,
                         ListenClose, OnListenDone, LisPc
    <3> QED
      BY <1>0, <3>1, Zenon DEF TypeOK
  <2>2. CASE WriteFails(i) \/ BackgroundClose(i)
    BY <2>2, Zenon DEF WriteFails, BackgroundClose
  <2> QED
    BY <2>1, <2>2, Zenon
<1>4. Evolves
  <2>1. CASE ReadReturn(i)
    BY <1>0, <1>2, <2>1, StoreClosedEvolves, UnchangedEvolves, Zenon DEF ReadReturn
  <2>2. CASE ListenClose(i)
    BY <1>0, <1>2, <2>2, CloseConnEvolves, Zenon DEF ListenClose
  <2>3. CASE BackgroundClose(i)
    BY <1>0, <1>2, <2>3, CloseConnEvolves, Zenon DEF BackgroundClose
  <2>4. CASE ReadEnter(i) \/ OnMessage(i) \/ OnListenError(i) \/ OnListenDone(i)
    BY <2>4, UnchangedEvolves, Zenon DEF ReadEnter, OnMessage, OnListenError, OnListenDone
  <2>5. CASE WriteFails(i)
    <3>1. /\ sock[i] = "open" /\ sock'[i] = "failed" /\ ~closed[i] /\ UNCHANGED <<closed, stored>>
          /\ \A j \in Ids \ {i} : sock'[j] = sock[j]
      BY <1>0, <2>5, Zenon DEF WriteFails, TypeOK
    <3> QED
      BY <3>1, Zenon DEF Sockets, Tame, Evolves
  <2> QED
    BY <2>1, <2>2, <2>3, <2>4, <2>5, Zenon DEF Listener
<1> QED
  BY <1>1, <1>3, <1>4, EvolvesKeepsSockets, Zenon

\* So do users, who hold connections that the field client held.
LEMMA CallerKeepsSockets ==
  ASSUME Inv, Sockets, Cancel \/ \E u \in Users : CloseCall(u) \/ CloseHeld(u)
  PROVE  Sockets'
<1>0. TypeOK
  BY Zenon DEF Inv
<1>1. CASE Cancel
  <2>1. UNCHANGED <<link, pc, ws, lis, held>>
    BY <1>1, Zenon DEF Cancel, conns, users
  <2> QED
    BY <2>1, UnchangedEvolves, EvolvesKeepsSockets, Zenon
<1>2. ASSUME NEW u \in Users, CloseCall(u) PROVE Sockets'
  <2>1. UNCHANGED <<link, pc, ws, lis>> /\ held' = [held EXCEPT ![u] = client]
    BY <1>2, Zenon DEF CloseCall, conns
  <2>2. \A v \in Users : held'[v] = held[v] \/ held'[v] = client
    BY <1>0, <2>1, Zenon DEF TypeOK
  <2> QED
    BY <2>1, <2>2, UnchangedEvolves, EvolvesKeepsSockets, Zenon
<1>3. ASSUME NEW u \in Users, CloseHeld(u) PROVE Sockets'
  <2>1. UNCHANGED <<pc, ws, lis, held>> /\ CloseConn(held[u]) /\ held[u] \in {None} \cup Ids
    BY <1>0, <1>3, Zenon DEF CloseHeld, TypeOK
  <2>2. Evolves
    BY <1>0, <2>1, CloseConnEvolves, Zenon DEF Sockets
  <2> QED
    BY <2>1, <2>2, EvolvesKeepsSockets, Zenon
<1> QED
  BY <1>1, <1>2, <1>3, Zenon

\* When Run returns, no connection is usable, and the sockets left open are
\* exactly those of connections that a read or a write lost before any Close.
THEOREM OnlyLostStayOpenHolds == Spec => []OnlyLostStayOpen
<1>1. Init => Sockets
  BY DEF Init, Sockets, Tame, None
<1>2. Inv /\ Sockets /\ [Next]_vars => Sockets'
  <2> SUFFICES ASSUME Inv, Sockets, [Next]_vars PROVE Sockets'
    BY Zenon
  <2>1. CASE UNCHANGED vars
    BY <2>1, UnchangedEvolves, EvolvesKeepsSockets, Zenon DEF vars, link
  <2>2. CASE Next
    BY <2>2, RunKeepsSockets, ConnectionKeepsSockets, CallerKeepsSockets, Zenon DEF Next
  <2> QED
    BY <2>1, <2>2, Zenon
<1>3. Inv /\ Sockets => OnlyLostStayOpen
  BY Zenon DEF Inv, TypeOK, Sock, Sockets, Tame, Fresh, Listening, OnlyLostStayOpen
<1> QED
  BY <1>1, <1>2, <1>3, InvHolds, PTL DEF Spec

-----------------------------------------------------------------------------
(* The order of the callbacks *)

Callbacks == {"connect", "message", "error", "disconnect"}
Over == {"close", "done", "end"}

\* A callback was made for connection i.
Seen(c, i) == \E k \in DOMAIN log : log[k] = [cb |-> c, id |-> i]

\* What the log holds at each point of Run and of the Listen goroutines: ids
\* come from dials, a goroutine runs only after OnConnect, every connection but
\* the one Run holds had its OnDisconnect, and by then its goroutine is past
\* its last message because done was filled.
History ==
  /\ \A c \in Callbacks, i \in Ids : Seen(c, i) => i <= dials
  /\ pc \in {"publish", "connect"} => \A c \in Callbacks : ~Seen(c, ws)
  /\ \A i \in Ids : lis[i] # "none" => Seen("connect", i)
  /\ pc \in {"listen", "wait", "disconnect", "clear", "close"} => Seen("connect", ws)
  /\ \A i \in Ids : Seen("connect", i) =>
       Seen("disconnect", i) \/ (i = ws /\ pc \in {"listen", "wait", "disconnect", "return"})
  /\ \A i \in Ids : Seen("disconnect", i) =>
       /\ lis[i] \in Over
       /\ i = ws => pc \notin {"publish", "connect", "listen", "wait", "disconnect"}
  /\ \A i \in Ids : done[i] # <<>> => lis[i] \in Over
  /\ pc = "disconnect" => lis[ws] \in Over

\* A callback adds exactly itself to what was seen.
LEMMA SeenGrows ==
  ASSUME TypeOK, NEW c \in Callbacks, NEW i \in Ids, Called(c, i)
  PROVE  \A d \in Callbacks, j \in Ids : Seen(d, j)' <=> (Seen(d, j) \/ (d = c /\ j = i))
<1> DEFINE e == [cb |-> c, id |-> i]
<1>1. /\ log' = Append(log, e) /\ log \in Seq(Event) /\ e \in Event
  BY Zenon DEF Called, TypeOK, Event, Callbacks
<1>2. /\ DOMAIN log' = 1..(Len(log) + 1) /\ DOMAIN log = 1..Len(log) /\ Len(log) \in Nat
      /\ log'[Len(log) + 1] = e
      /\ \A k \in DOMAIN log : log'[k] = log[k]
  BY <1>1, SMTT(60)
<1>3. \A k \in DOMAIN log' : k \in DOMAIN log \/ k = Len(log) + 1
  BY <1>2
<1>4. DOMAIN log \subseteq DOMAIN log' /\ Len(log) + 1 \in DOMAIN log'
  BY <1>2
<1> SUFFICES ASSUME NEW d \in Callbacks, NEW j \in Ids
             PROVE  Seen(d, j)' <=> (Seen(d, j) \/ (d = c /\ j = i))
  BY Zenon
<1>5. Seen(d, j) => Seen(d, j)'
  BY <1>2, <1>4, Zenon DEF Seen
<1>6. d = c /\ j = i => Seen(d, j)'
  BY <1>2, <1>4, Zenon DEF Seen
<1>7. ASSUME Seen(d, j)' PROVE Seen(d, j) \/ (d = c /\ j = i)
  <2>1. PICK k \in DOMAIN log' : log'[k] = [cb |-> d, id |-> j]
    BY <1>7, Zenon DEF Seen
  <2>2. CASE k \in DOMAIN log
    BY <1>2, <2>1, <2>2, Zenon DEF Seen
  <2>3. CASE k = Len(log) + 1
    BY <1>2, <2>1, <2>3, SMTT(60)
  <2> QED
    BY <1>3, <2>2, <2>3, Zenon
<1> QED
  BY <1>5, <1>6, <1>7, Zenon

\* A callback may be appended when its connection was announced and not yet
\* reported lost, and a new one only when all earlier ones were reported lost.
LEMMA CalledKeepsOrder ==
  ASSUME TypeOK, CallbackOrder, NEW c \in Callbacks, NEW i \in Ids, Called(c, i),
         c \in {"message", "disconnect"} => Seen("connect", i),
         c = "connect" => \A j \in Ids : Seen("connect", j) => Seen("disconnect", j),
         ~Seen("disconnect", i)
  PROVE  CallbackOrder'
<1> DEFINE e == [cb |-> c, id |-> i]
           n == Len(log) + 1
<1>1. log' = Append(log, e) /\ log \in Seq(Event) /\ e \in Event
  BY Zenon DEF Called, TypeOK, Event, Callbacks
<1>2. /\ DOMAIN log' = 1..n /\ DOMAIN log = 1..Len(log) /\ Len(log) \in Nat
      /\ log'[n] = e
      /\ \A k \in DOMAIN log : log'[k] = log[k]
  BY <1>1
<1>3. \A k \in DOMAIN log : log[k] = [cb |-> log[k].cb, id |-> log[k].id] /\ log[k].id \in Ids
  <2>1. \A x \in Event : x = [cb |-> x.cb, id |-> x.id] /\ x.id \in Ids
    BY DEF Event
  <2>2. \A k \in DOMAIN log : log[k] \in Event
    BY <1>1, SMTT(60)
  <2> QED
    BY <2>1, <2>2, Zenon
<1> SUFFICES ASSUME NEW j \in DOMAIN log'
             PROVE  /\ log'[j].cb \in {"message", "disconnect"} =>
                         \E k \in 1..(j - 1) : log'[k] = [cb |-> "connect", id |-> log'[j].id]
                    /\ log'[j].cb = "connect" =>
                         \A k \in 1..(j - 1) : log'[k].cb = "connect" =>
                           [cb |-> "disconnect", id |-> log'[k].id] \in {log'[l] : l \in 1..(j - 1)}
                    /\ \A k \in 1..(j - 1) : log'[k].cb = "disconnect" => log'[j].id # log'[k].id
  BY Zenon DEF CallbackOrder
<1>4. CASE j \in DOMAIN log
  <2>1. log'[j] = log[j] /\ \A k \in 1..(j - 1) : log'[k] = log[k]
    BY <1>2, <1>4, SMTT(60)
  <2>2. {log'[l] : l \in 1..(j - 1)} = {log[l] : l \in 1..(j - 1)}
    BY <2>1, Zenon
  <2> QED
    BY <1>4, <2>1, <2>2, SMTT(60) DEF CallbackOrder
<1>5. CASE j = n
  <2>1. 1..(j - 1) = DOMAIN log /\ log'[j].cb = c /\ log'[j].id = i
    BY <1>2, <1>5
  <2>2. \A k \in DOMAIN log : log'[k] = log[k]
    BY <1>2, Zenon
  <2>3. c \in {"message", "disconnect"} =>
          \E k \in DOMAIN log : log'[k] = [cb |-> "connect", id |-> i]
    BY <2>2, Zenon DEF Seen
  <2>4. ASSUME c = "connect", NEW k \in DOMAIN log, log'[k].cb = "connect"
        PROVE  [cb |-> "disconnect", id |-> log'[k].id] \in {log'[l] : l \in DOMAIN log}
    <3>1. log[k] = [cb |-> "connect", id |-> log[k].id] /\ log[k].id \in Ids
      BY <1>3, <2>2, <2>4, Zenon
    <3>2. Seen("disconnect", log[k].id)
      BY <2>4, <3>1, Zenon DEF Seen
    <3> QED
      BY <2>2, <3>2, Zenon DEF Seen
  <2>5. ASSUME NEW k \in DOMAIN log, log'[k].cb = "disconnect" PROVE i # log'[k].id
    BY <1>3, <2>2, <2>5, Zenon DEF Seen
  <2> QED
    BY <2>1, <2>3, <2>4, <2>5, ZenonT(60)
<1> QED
  BY <1>2, <1>4, <1>5, SMTT(60)

\* A step that makes no callback, starts no goroutine and brings none back to
\* its read loop keeps what the log says.
LEMMA SilentKeepsHistory ==
  ASSUME Inv, History, UNCHANGED <<pc, ws, dials, log>>,
         \A i \in Ids : lis'[i] # "none" => lis[i] # "none",
         \A i \in Ids : lis[i] \in Over => lis'[i] \in Over,
         \A i \in Ids : done'[i] # <<>> => done[i] # <<>> \/ lis'[i] \in Over
  PROVE  History'
<1>1. \A c \in Callbacks, i \in Ids : Seen(c, i)' <=> Seen(c, i)
  BY Zenon DEF Seen
<1>2. pc \in Busy => ws \in Ids
  BY Zenon DEF Inv, Counting, TypeOK
<1> QED
  BY <1>1, <1>2, Zenon DEF History, Callbacks, Busy

\* The steps of Run keep the history and the order of the callbacks.
LEMMA RunKeepsOrder ==
  ASSUME Inv, History, CallbackOrder, Run
  PROVE  History' /\ CallbackOrder'
<1>0. TypeOK /\ Counting /\ (pc \in Busy => ws \in Ids)
  BY Zenon DEF Inv, Counting, TypeOK
<1>1. ASSUME UNCHANGED log
      PROVE  /\ \A c \in Callbacks, i \in Ids \cup {ws} : Seen(c, i)' <=> Seen(c, i)
             /\ CallbackOrder'
  BY <1>1, SMTT(60) DEF Seen, CallbackOrder
<1>2. CASE Top \/ WaitCtx \/ Clear \/ CloseLost \/ Sleep
  <2>1. UNCHANGED <<ws, dials, lis, done, log>> /\ pc' \in {"return", "dial", "close", "sleep", "top"}
        /\ (pc' = "close" => pc = "clear")
        /\ (pc' # "return" => pc \in {"top", "clear", "close", "sleep"})
    BY <1>2, Zenon DEF Top, WaitCtx, Clear, CloseLost, Sleep, conns
  <2> QED
    BY <1>0, <1>1, <2>1, Zenon DEF History, Callbacks, Busy
<1>3. CASE DialError
  <2>1. dials + 1 \in Ids /\ dials' = dials + 1 /\ pc = "dial" /\ pc' = "sleep"
        /\ UNCHANGED <<ws, lis, done>> /\ Called("error", dials + 1)
    BY <1>0, <1>3, ReconnectAssumption DEF DialError, TypeOK, Ids, conns
  <2>2. \A c \in Callbacks : ~Seen(c, dials + 1)
    BY <1>0, <2>1 DEF History, TypeOK, Ids
  <2>3. CallbackOrder'
    BY <1>0, <2>1, <2>2, CalledKeepsOrder, Zenon DEF Callbacks
  <2>4. \A d \in Callbacks, j \in Ids :
          Seen(d, j)' <=> (Seen(d, j) \/ (d = "error" /\ j = dials + 1))
    BY <1>0, <2>1, SeenGrows, Zenon DEF Callbacks
  <2>5. History'
    BY <1>0, <2>1, <2>4, SMTT(60) DEF History, Callbacks, TypeOK, Ids
  <2> QED
    BY <2>3, <2>5, Zenon
<1>4. CASE DialOK
  <2>1. dials + 1 \in Ids /\ dials' = dials + 1 /\ ws' = dials + 1 /\ pc = "dial"
        /\ pc' = "publish" /\ UNCHANGED <<lis, done, log>>
    BY <1>0, <1>4, ReconnectAssumption DEF DialOK, TypeOK, Ids, conns
  <2>2. \A c \in Callbacks : ~Seen(c, dials + 1)
    BY <1>0, <2>1, SMTT(60) DEF History, TypeOK, Ids
  <2>3. \A c \in Callbacks, i \in Ids : Seen(c, i)' <=> Seen(c, i)
    BY <2>1, Zenon DEF Seen
  <2>4. History'
    BY <1>0, <2>1, <2>2, <2>3, SMTT(60) DEF History, Callbacks, TypeOK, Ids
  <2> QED
    BY <1>1, <2>1, <2>4, Zenon
<1>5. CASE Publish
  <2>1. UNCHANGED <<ws, dials, lis, done, log>> /\ pc = "publish" /\ pc' = "connect"
    BY <1>5, Zenon DEF Publish, conns
  <2> QED
    BY <1>0, <1>1, <2>1, Zenon DEF History, Callbacks, Busy
<1>6. CASE OnConnect
  <2>1. pc = "connect" /\ pc' = "listen" /\ UNCHANGED <<ws, dials, lis, done>>
        /\ Called("connect", ws) /\ ws \in Ids /\ ws = dials
    BY <1>0, <1>6, Zenon DEF OnConnect, conns, Counting, Busy
  <2>2. CallbackOrder'
    BY <1>0, <2>1, CalledKeepsOrder, Zenon DEF History, Callbacks
  <2>3. \A d \in Callbacks, j \in Ids :
          Seen(d, j)' <=> (Seen(d, j) \/ (d = "connect" /\ j = ws))
    BY <1>0, <2>1, SeenGrows, SMTT(60) DEF Callbacks
  <2>4. History'
    BY <1>0, <2>1, <2>3, SMTT(60) DEF History, Callbacks, TypeOK, Ids
  <2> QED
    BY <2>2, <2>4, Zenon
<1>7. CASE Listen
  <2>1. pc = "listen" /\ pc' = "wait" /\ UNCHANGED <<ws, dials, done, log>> /\ ws \in Ids
        /\ lis' = [lis EXCEPT ![ws] = "enter"] /\ lis[ws] = "none"
    BY <1>0, <1>7, Zenon DEF Listen, Inv, Listening, Busy
  <2>2. \A i \in Ids : lis'[i] = IF i = ws THEN "enter" ELSE lis[i]
    BY <1>0, <2>1, Zenon DEF TypeOK
  <2> QED
    BY <1>0, <1>1, <2>1, <2>2, ZenonT(60) DEF History, Callbacks, Over
<1>8. CASE WaitDone
  <2>1. pc = "wait" /\ pc' = "disconnect" /\ UNCHANGED <<ws, dials, lis, log>> /\ ws \in Ids
        /\ done[ws] # <<>> /\ \A i \in Ids \ {ws} : done'[i] = done[i]
    BY <1>0, <1>8, Zenon DEF WaitDone, Busy, TypeOK
  <2> QED
    BY <1>0, <1>1, <2>1, Zenon DEF History, Callbacks
<1>9. CASE OnDisconnect
  <2>1. pc = "disconnect" /\ pc' = "clear" /\ UNCHANGED <<ws, dials, lis, done>>
        /\ Called("disconnect", ws) /\ ws \in Ids /\ ws = dials
    BY <1>0, <1>9, Zenon DEF OnDisconnect, conns, Counting, Busy
  <2>2. CallbackOrder'
    BY <1>0, <2>1, CalledKeepsOrder, Zenon DEF History, Callbacks
  <2>3. \A d \in Callbacks, j \in Ids :
          Seen(d, j)' <=> (Seen(d, j) \/ (d = "disconnect" /\ j = ws))
    BY <1>0, <2>1, SeenGrows, Zenon DEF Callbacks
  <2>4. History'
    BY <1>0, <2>1, <2>3, Zenon DEF History, Callbacks, TypeOK, Ids
  <2> QED
    BY <2>2, <2>4, Zenon
<1> QED
  BY <1>2, <1>3, <1>4, <1>5, <1>6, <1>7, <1>8, <1>9, Zenon DEF Run

\* So do the goroutines of a connection: only OnMessage makes a callback.
LEMMA ConnectionKeepsOrder ==
  ASSUME Inv, History, CallbackOrder, NEW i \in Ids,
         Listener(i) \/ WriteFails(i) \/ BackgroundClose(i)
  PROVE  History' /\ CallbackOrder'
<1>0. TypeOK
  BY Zenon DEF Inv
<1>1. CASE OnMessage(i)
  <2>1. lis[i] = "message" /\ Called("message", i) /\ UNCHANGED <<pc, ws, dials, done>>
        /\ lis' = [lis EXCEPT ![i] = "enter"]
    BY <1>1, Zenon DEF OnMessage
  <2>2. Seen("connect", i) /\ ~Seen("disconnect", i)
    BY <2>1, Zenon DEF History, Over
  <2>3. CallbackOrder'
    BY <1>0, <2>1, <2>2, CalledKeepsOrder, Zenon DEF Callbacks
  <2>4. \A d \in Callbacks, j \in Ids :
          Seen(d, j)' <=> (Seen(d, j) \/ (d = "message" /\ j = i))
    BY <1>0, <2>1, SeenGrows, Zenon DEF Callbacks
  <2>5. \A j \in Ids : lis'[j] = IF j = i THEN "enter" ELSE lis[j]
    BY <1>0, <2>1, Zenon DEF TypeOK
  <2>6. i <= dials /\ (pc \in Busy => ws \in Ids)
        /\ (i = ws => pc \notin {"publish", "connect", "listen"})
    BY <1>0, <2>1, ReconnectAssumption, SMTT(60) DEF Inv, Listening, Counting, TypeOK, Ids, None
  <2>7. History'
    BY <2>1, <2>2, <2>4, <2>5, <2>6, ZenonT(60) DEF History, Callbacks, Busy, Over
  <2> QED
    BY <2>3, <2>7, Zenon
<1>2. ASSUME UNCHANGED log PROVE CallbackOrder'
  BY <1>2, SMTT(60) DEF CallbackOrder
<1>3. CASE \/ ReadEnter(i) \/ ReadReturn(i) \/ ListenClose(i)
           \/ WriteFails(i) \/ BackgroundClose(i)
  BY <1>0, <1>2, <1>3, SilentKeepsHistory, SMTT(60)
  DEF ReadEnter, ReadReturn, ListenClose, WriteFails, BackgroundClose, TypeOK, Over
<1>4. CASE OnListenError(i) \/ OnListenDone(i)
  <2>1. UNCHANGED <<pc, ws, dials, log>> /\ lis[i] \in {"error", "done"} /\ lis'[i] \in Over
        /\ \A j \in Ids \ {i} : lis'[j] = lis[j]
    BY <1>0, <1>4, Zenon DEF OnListenError, OnListenDone, TypeOK, Over
  <2>2. \A j \in Ids \ {i} : done'[j] = done[j]
    BY <1>0, <1>4, Zenon DEF OnListenError, OnListenDone, NotifyDone, TypeOK
  <2> QED
    BY <1>2, <2>1, <2>2, SilentKeepsHistory, Zenon
<1> QED
  BY <1>1, <1>3, <1>4, Zenon DEF Listener

\* The callbacks of Run come in order: nothing of a connection before its
\* OnConnect or after its OnDisconnect, and connections one at a time.
THEOREM CallbackOrderHolds == Spec => []CallbackOrder
<1>1. Init => History /\ CallbackOrder
  BY DEF Init, History, CallbackOrder, Seen, Over
<1>2. Inv /\ History /\ CallbackOrder /\ [Next]_vars => (History /\ CallbackOrder)'
  <2> SUFFICES ASSUME Inv, History, CallbackOrder, [Next]_vars
               PROVE  History' /\ CallbackOrder'
    BY Zenon
  <2>1. CASE UNCHANGED vars
    BY <2>1, SilentKeepsHistory, SMTT(60) DEF vars, CallbackOrder
  <2>2. CASE Cancel
    BY <2>2, SilentKeepsHistory, SMTT(60) DEF Cancel, conns, CallbackOrder
  <2>3. ASSUME NEW u \in Users, CloseCall(u) \/ CloseHeld(u)
        PROVE  History' /\ CallbackOrder'
    BY <2>3, SilentKeepsHistory, SMTT(60) DEF CloseCall, CloseHeld, conns, CallbackOrder
  <2> QED
    BY <2>1, <2>2, <2>3, RunKeepsOrder, ConnectionKeepsOrder, Zenon DEF Next
<1> QED
  BY <1>1, <1>2, InvHolds, PTL DEF Spec

=============================================================================
