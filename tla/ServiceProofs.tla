----------------------------- MODULE ServiceProofs -----------------------------
(***************************************************************************)
(* Proofs about the components of Services, for any number of goroutines   *)
(* and data of any length.                                                 *)
(***************************************************************************)
EXTENDS Services, Induction

-----------------------------------------------------------------------------
(* Services runs its components: each of its steps is, for each of them,   *)
(* one of their own steps or none.                                         *)

\* A behaviour of Services is one of StreamEvents.
LEMMA EventsRuns == ServicesSpec => Events!Spec
<1>1. ServicesInit => Events!Init
  BY Zenon DEF ServicesInit
<1>2. [ServicesNext]_servicesVars => [Events!Next]_(Events!vars)
  BY Zenon DEF ServicesNext, ServicesStep, servicesVars, eventsVars, Events!vars
<1> QED
  BY <1>1, <1>2, PTL DEF ServicesSpec, Events!Spec

\* A behaviour of Services is one of NetworkStream.
LEMMA StreamRuns == ServicesSpec => Stream!Spec
<1>1. ServicesInit => Stream!Init
  BY Zenon DEF ServicesInit
<1>2. [ServicesNext]_servicesVars => [Stream!Next]_(Stream!vars)
  BY Zenon DEF ServicesNext, ServicesStep, servicesVars, streamVars, Stream!vars
<1> QED
  BY <1>1, <1>2, PTL DEF ServicesSpec, Stream!Spec

\* A behaviour of Services is one of Emitter.
LEMMA EmittingRuns == ServicesSpec => Emitting!Spec
<1>1. ServicesInit => Emitting!Init
  BY Zenon DEF ServicesInit
<1>2. [ServicesNext]_servicesVars => [Emitting!Next]_(Emitting!vars)
  BY Zenon DEF ServicesNext, ServicesStep, servicesVars, emittingVars, Emitting!vars
<1> QED
  BY <1>1, <1>2, PTL DEF ServicesSpec, Emitting!Spec

\* A behaviour of Services is one of Debouncer.
LEMMA DebounceRuns == ServicesSpec => Debounce!Spec
<1>1. ServicesInit => Debounce!Init
  BY Zenon DEF ServicesInit
<1>2. [ServicesNext]_servicesVars => [Debounce!Next]_(Debounce!vars)
  BY Zenon DEF ServicesNext, ServicesStep, servicesVars, debounceVars, Debounce!vars
<1> QED
  BY <1>1, <1>2, PTL DEF ServicesSpec, Debounce!Spec

\* A behaviour of Services is one of TCPClient.
LEMMA TcpRuns == ServicesSpec => Tcp!Spec
<1>1. ServicesInit => Tcp!Init
  BY Zenon DEF ServicesInit
<1>2. [ServicesNext]_servicesVars => [Tcp!Next]_(Tcp!vars)
  BY Zenon DEF ServicesNext, ServicesStep, servicesVars, tcpVars, Tcp!vars
<1> QED
  BY <1>1, <1>2, PTL DEF ServicesSpec, Tcp!Spec

-----------------------------------------------------------------------------
(* NetworkStream: its channels *)

\* One goroutine at most is closing the channels, and it has not closed all.
OneCloser ==
  /\ \A g \in Events!Goroutines : pc[g] = "closing" => closed /\ shut < 3
  /\ \A g, h \in Events!Goroutines : pc[g] = "closing" /\ pc[h] = "closing" => g = h
  /\ shut > 0 => closed

\* A goroutine past its check of closed when closed is set has been overtaken.
Overtaken ==
  /\ closed /\ (\E g \in Events!Senders : pc[g] = "send") => overlap
  /\ Events!PanicNeedsOverlap

EventsInv == Events!TypeOK /\ OneCloser /\ Overtaken /\ Events!ChunksInOrder

-----------------------------------------------------------------------------
(* The contents of the channel *)

\* Sending puts a chunk behind everything sent before.
LEMMA SendInOrder ==
  ASSUME NEW s \in Seq(Chunks), NEW t \in Seq(Chunks), NEW d \in Chunks
  PROVE  /\ Append(t, d) \in Seq(Chunks)
         /\ s \o Append(t, d) = Append(s \o t, d)
OBVIOUS

\* Receiving moves the oldest chunk behind everything received before.
LEMMA ReceiveInOrder ==
  ASSUME NEW s \in Seq(Chunks), NEW t \in Seq(Chunks), t # <<>>
  PROVE  Append(s, Head(t)) \o Tail(t) = s \o t
<1>1. PICK h, r : h = Head(t) /\ r = Tail(t)
  BY Zenon
<1>2. h \in Chunks /\ r \in Seq(Chunks)
  BY <1>1
<1>3. t = <<h>> \o r
  BY <1>1
<1>4. Append(s, h) = s \o <<h>>
  BY <1>2
<1>5. (s \o <<h>>) \o r = s \o (<<h>> \o r)
  BY <1>2
<1> QED
  BY <1>1, <1>3, <1>4, <1>5, Zenon

-----------------------------------------------------------------------------
(* Every step keeps the inductive invariant *)

\* Add and AddError.
LEMMA SenderKeepsInv ==
  ASSUME EventsInv, NEW g \in Events!Goroutines, Events!Add(g) \/ Events!AddError(g) \/ Events!Sending(g)
  PROVE  EventsInv'
<1> USE DEF EventsInv
<1>1. CASE Events!Add(g) \/ Events!AddError(g)
  <2>1. Events!TypeOK' /\ OneCloser'
    BY <1>1, ZenonT(60) DEF Events!Add, Events!AddError, Events!Goto, Events!TypeOK, OneCloser
  <2>2. Overtaken'
    BY <1>1 DEF Events!Add, Events!AddError, Events!Goto, Events!MaySend, Events!TypeOK, Overtaken, Events!PanicNeedsOverlap,
                Events!Senders, Events!Goroutines
  <2>3. Events!ChunksInOrder'
    BY <1>1, ZenonT(60) DEF Events!Add, Events!AddError, Events!ChunksInOrder
  <2> QED
    BY <2>1, <2>2, <2>3, Zenon
<1>2. CASE Events!SendChunk(g)
  <2>1. arg[g] \in Chunks
    BY <1>2, Zenon DEF Events!SendChunk, Events!TypeOK
  <2>2. \/ UNCHANGED <<ch, added>>
        \/ ch' = Append(ch, arg[g]) /\ added' = Append(added, arg[g])
    BY <1>2, Zenon DEF Events!SendChunk, Events!Enqueue
  <2>3. Events!TypeOK'
    <3>1. ch' \in Seq(Chunks) /\ added' \in Seq(Chunks)
      <4>1. Append(ch, arg[g]) \in Seq(Chunks) /\ Append(added, arg[g]) \in Seq(Chunks)
        BY <2>1, SendInOrder, Zenon DEF Events!TypeOK
      <4>2. ch \in Seq(Chunks) /\ added \in Seq(Chunks)
        BY Zenon DEF Events!TypeOK
      <4> QED
        BY <2>2, <4>1, <4>2, ZenonT(60)
    <3>2. pc' \in [Events!Goroutines -> {"idle", "send", "panic", "closing", "select", "end"}]
      BY <1>2, ZenonT(60) DEF Events!SendChunk, Events!Goto, Events!TypeOK
    <3> QED
      BY <1>2, <3>1, <3>2, Zenon DEF Events!SendChunk, Events!TypeOK
  <2>4. OneCloser'
    BY <1>2, Zenon DEF Events!SendChunk, Events!Goto, Events!TypeOK, OneCloser
  <2>5. Overtaken'
    BY <1>2 DEF Events!SendChunk, Events!Goto, Events!TypeOK, OneCloser, Overtaken, Events!PanicNeedsOverlap,
                Events!Senders, Events!Goroutines
  <2>6. Events!ChunksInOrder'
    <3>1. heard' = heard
      BY <1>2, Zenon DEF Events!SendChunk
    <3>2. heard \o Append(ch, arg[g]) = Append(heard \o ch, arg[g])
      BY <2>1, SendInOrder, Zenon DEF Events!TypeOK
    <3> QED
      BY <2>2, <3>1, <3>2, ZenonT(60) DEF Events!ChunksInOrder
  <2> QED
    BY <2>3, <2>4, <2>5, <2>6, Zenon
<1>3. CASE Events!SendError(g)
  <2>1. Events!TypeOK' /\ OneCloser'
    <3>1. Events!TypeOK'
      BY <1>3, SMTT(60) DEF Events!SendError, Events!Goto, Events!TypeOK
    <3>2. OneCloser'
      BY <1>3, ZenonT(60) DEF Events!SendError, Events!Goto, Events!TypeOK, OneCloser
    <3> QED
      BY <3>1, <3>2, Zenon
  <2>2. Overtaken'
    BY <1>3 DEF Events!SendError, Events!Goto, Events!TypeOK, OneCloser, Overtaken, Events!PanicNeedsOverlap,
                Events!Senders, Events!Goroutines
  <2>3. Events!ChunksInOrder'
    BY <1>3, Zenon DEF Events!SendError, Events!ChunksInOrder
  <2> QED
    BY <2>1, <2>2, <2>3, Zenon
<1> QED
  BY <1>1, <1>2, <1>3, Zenon DEF Events!Sending

\* CloseStream.
LEMMA CloserKeepsInv ==
  ASSUME EventsInv, NEW g \in Events!Goroutines, Events!Closing(g)
  PROVE  EventsInv'
<1> USE DEF EventsInv
<1>1. CASE Events!CloseSwap(g)
  <2>1. Events!TypeOK'
    BY <1>1, Zenon DEF Events!CloseSwap, Events!Goto, Events!TypeOK
  <2>2. OneCloser'
    <3>1. CASE closed
      BY <1>1, <3>1, Zenon DEF Events!CloseSwap, Events!Goto, Events!TypeOK, OneCloser
    <3>2. CASE ~closed
      BY <1>1, <3>2 DEF Events!CloseSwap, Events!Goto, Events!TypeOK, OneCloser
    <3> QED
      BY <3>1, <3>2, Zenon
  <2>3. Overtaken'
    BY <1>1, ZenonT(60)
    DEF Events!CloseSwap, Events!Goto, Events!TypeOK, Overtaken, Events!PanicNeedsOverlap, Events!Senders, Events!Goroutines
  <2>4. Events!ChunksInOrder'
    BY <1>1, Zenon DEF Events!CloseSwap, Events!ChunksInOrder
  <2> QED
    BY <2>1, <2>2, <2>3, <2>4, Zenon
<1>2. CASE Events!CloseChannel(g)
  <2>1. Events!TypeOK' /\ OneCloser'
    BY <1>2 DEF Events!CloseChannel, Events!Goto, Events!TypeOK, OneCloser
  <2>2. Overtaken' /\ Events!ChunksInOrder'
    BY <1>2, Zenon DEF Events!CloseChannel, Events!Goto, Events!TypeOK, Overtaken, Events!PanicNeedsOverlap, Events!Senders,
                Events!Goroutines, Events!ChunksInOrder
  <2> QED
    BY <2>1, <2>2, Zenon
<1> QED
  BY <1>1, <1>2, Zenon DEF Events!Closing

\* The goroutines of Listen.
LEMMA ListenerKeepsInv ==
  ASSUME EventsInv, NEW g \in Events!Goroutines, Events!Listen(g) \/ Events!Selecting(g)
  PROVE  EventsInv'
<1> USE DEF EventsInv
<1>1. CASE Events!Listen(g) \/ Events!Done(g)
  <2>1. Events!TypeOK' /\ OneCloser'
    BY <1>1, ZenonT(60) DEF Events!Listen, Events!Done, Events!Goto, Events!TypeOK, OneCloser
  <2>2. Overtaken'
    BY <1>1 DEF Events!Listen, Events!Done, Events!Goto, Events!TypeOK, Overtaken, Events!PanicNeedsOverlap, Events!Senders,
                Events!Goroutines
  <2>3. Events!ChunksInOrder'
    BY <1>1, ZenonT(60) DEF Events!Listen, Events!Done, Events!ChunksInOrder
  <2> QED
    BY <2>1, <2>2, <2>3, Zenon
<1>2. CASE Events!ReceiveChunk(g)
  <2>1. Events!TypeOK'
    BY <1>2 DEF Events!ReceiveChunk, Events!TypeOK
  <2>2. OneCloser' /\ Overtaken'
    BY <1>2, Zenon DEF Events!ReceiveChunk, OneCloser, Overtaken, Events!PanicNeedsOverlap
  <2>3. Events!ChunksInOrder'
    BY <1>2, ReceiveInOrder, ZenonT(60) DEF Events!ReceiveChunk, Events!TypeOK, Events!ChunksInOrder
  <2> QED
    BY <2>1, <2>2, <2>3, Zenon
<1>3. CASE Events!ReceiveError(g)
  BY <1>3 DEF Events!ReceiveError, Events!TypeOK, OneCloser, Overtaken, Events!PanicNeedsOverlap, Events!ChunksInOrder
<1> QED
  BY <1>1, <1>2, <1>3, Zenon DEF Events!Selecting

-----------------------------------------------------------------------------
(* Theorems *)

\* The inductive invariant.
LEMMA EventsInvHolds == Events!Spec => []EventsInv
<1>1. Events!Init => EventsInv
  <2>1. <<>> \in Seq(Chunks) /\ <<>> \o <<>> = <<>>
    OBVIOUS
  <2>2. ASSUME Events!Init PROVE Events!TypeOK /\ Events!ChunksInOrder
    <3>1. ch \in Seq(Chunks) /\ added \in Seq(Chunks) /\ heard \in Seq(Chunks)
      BY <2>1, <2>2, Zenon DEF Events!Init
    <3>2. Events!ChunksInOrder
      BY <2>1, <2>2, Zenon DEF Events!Init, Events!ChunksInOrder
    <3>3. /\ pc \in [Events!Goroutines -> {"idle", "send", "panic", "closing", "select", "end"}]
          /\ arg \in [Adders -> Chunks]
      BY <2>2, Zenon DEF Events!Init
    <3>4. closed \in BOOLEAN /\ overlap \in BOOLEAN
      BY <2>2, Zenon DEF Events!Init
    <3>5. shut = 0 /\ errCh = 0
      BY <2>2, Zenon DEF Events!Init
    <3>6. shut \in 0..3 /\ errCh \in 0..1
      BY <3>5
    <3> QED
      BY <3>1, <3>2, <3>3, <3>4, <3>6, Zenon DEF Events!TypeOK
  <2>3. Events!Init => OneCloser /\ Overtaken
    BY DEF Events!Init, OneCloser, Overtaken, Events!PanicNeedsOverlap, Events!Senders, Events!Goroutines
  <2> QED
    BY <2>2, <2>3, Zenon DEF EventsInv
<1>2. EventsInv /\ [Events!Next]_(Events!vars) => EventsInv'
  <2>1. CASE Events!Next
    BY <2>1, SenderKeepsInv, CloserKeepsInv, ListenerKeepsInv, Zenon DEF Events!Next
  <2>2. CASE UNCHANGED Events!vars
    BY <2>2, Zenon DEF Events!vars, EventsInv, Events!TypeOK, OneCloser, Overtaken, Events!PanicNeedsOverlap, Events!ChunksInOrder
  <2> QED
    BY <2>1, <2>2, Zenon
<1> QED
  BY <1>1, <1>2, PTL DEF Events!Spec

\* Of any number of concurrent calls of CloseStream, each channel is closed by
\* one of them, once.
THEOREM EventsTypeCorrect == ServicesSpec => []Events!TypeOK
<1>1. EventsInv => Events!TypeOK
  BY Zenon DEF EventsInv
<1> QED
  BY <1>1, EventsRuns, EventsInvHolds, PTL

\* For any number of senders and listeners and any capacity, what was received
\* followed by what is in the channel is what was sent.
THEOREM ChunksInOrderHolds == ServicesSpec => []ChunksInOrder
<1>1. EventsInv => ChunksInOrder
  BY Zenon DEF ChunksInOrder, EventsInv
<1> QED
  BY <1>1, EventsRuns, EventsInvHolds, PTL

\* A send on a closed channel needs a CloseStream between the check of closed
\* and the send.
THEOREM PanicNeedsOverlapHolds == ServicesSpec => []Events!PanicNeedsOverlap
<1>1. EventsInv => Events!PanicNeedsOverlap
  BY Zenon DEF EventsInv, Overtaken
<1> QED
  BY <1>1, EventsRuns, EventsInvHolds, PTL

-----------------------------------------------------------------------------
(* EventEmitter *)

\* A handler of Once that has reached Off, or has run, is no longer registered,
\* unless it was called before id was assigned.
Gone ==
  \A h \in once, e \in Emits :
    stage[e][h] \in {"off", "done"} /\ h \notin raced => h \notin handlers

\* Without a race, a handler of Once is in the hands of one call at most.
OneHolder ==
  \A h \in once \ (raced \cup overlapped), d, e \in Emits :
    stage[d][h] # "none" /\ stage[e][h] # "none" => d = e

\* The user's function has been called only by calls that are done with it.
Called ==
  \A h \in once :
    /\ calls[h] > 0 => \E e \in Emits : stage[e][h] = "done"
    /\ calls[h] > 1 => h \in raced \cup overlapped

EmitInv == Emitting!TypeOK /\ Gone /\ OneHolder /\ Called

-----------------------------------------------------------------------------

\* Registering a handler hands out an id that nothing refers to yet.
LEMMA RegisterKeepsInv ==
  ASSUME EmitInv, Emitting!On \/ Emitting!Once
  PROVE  EmitInv'
<1>1. Emitting!TypeOK'
  <2>1. /\ nextID \in Nat /\ nextID' = nextID + 1 /\ nextID' \in Emitting!Ids
        /\ 1..nextID \subseteq 1..nextID' /\ nextID' \in 1..nextID'
    BY DEF EmitInv, Emitting!TypeOK, Emitting!On, Emitting!Once, Emitting!Register
  <2>2. /\ handlers' = handlers \cup {nextID'}
        /\ once' \in {once, once \cup {nextID'}}
        /\ known' \in {known, known \cup {nextID'}}
        /\ UNCHANGED <<async, stage, calls, raced, overlapped>>
    BY <2>1, Zenon DEF Emitting!On, Emitting!Once, Emitting!Register
  <2>3. \A h \in Emitting!Ids : h > nextID' => h > nextID
    BY <2>1 DEF Emitting!Ids
  <2> QED
    BY <2>1, <2>2, <2>3 DEF EmitInv, Emitting!TypeOK
<1>2. Gone'
  BY DEF EmitInv, Emitting!TypeOK, Gone, Emitting!On, Emitting!Once, Emitting!Register
<1>3. OneHolder' /\ Called'
  BY DEF EmitInv, Emitting!TypeOK, OneHolder, Called, Emitting!On, Emitting!Once, Emitting!Register
<1> QED
  BY <1>1, <1>2, <1>3, Zenon DEF EmitInv

\* Assigning id and unregistering a handler take nothing away from it.
LEMMA OffKeepsInv ==
  ASSUME EmitInv, NEW id \in Emitting!Ids, Emitting!OnceAssign(id) \/ Emitting!Off(id)
  PROVE  EmitInv'
BY DEF EmitInv, Emitting!TypeOK, Gone, OneHolder, Called, Emitting!OnceAssign, Emitting!Off

\* A call of Emit copies registered handlers: one that another call still has
\* to begin is recorded as overlapped, one that has begun is not registered.
LEMMA EmitKeepsInv ==
  ASSUME EmitInv, NEW e \in Emits, Emitting!Emit(e)
  PROVE  EmitInv'
<1>1. /\ \A h \in Emitting!Ids : stage'[e][h] = IF h \in handlers THEN "todo" ELSE "none"
      /\ \A d \in Emits \ {e} : stage'[d] = stage[d]
      /\ \A h \in Emitting!Ids : stage[e][h] = "none"
  BY Zenon DEF EmitInv, Emitting!TypeOK, Emitting!Emit, Emitting!Fresh
<1>2. UNCHANGED <<nextID, handlers, once, known, calls, raced>>
  BY Zenon DEF Emitting!Emit
<1>3. Emitting!TypeOK'
  BY DEF EmitInv, Emitting!TypeOK, Emitting!Emit, Emitting!Waiting
<1>4. Gone'
  BY <1>1, <1>2, Zenon DEF EmitInv, Emitting!TypeOK, Gone
<1>5. OneHolder'
  <2> SUFFICES ASSUME NEW h \in once, h \notin raced, h \notin overlapped',
                      NEW c \in Emits, NEW d \in Emits,
                      stage'[c][h] # "none", stage'[d][h] # "none"
               PROVE  c = d
    BY <1>2, Zenon DEF OneHolder
  <2>1. h \in Emitting!Ids /\ h \notin overlapped
    BY Zenon DEF EmitInv, Emitting!TypeOK, Emitting!Emit
  <2>2. ASSUME NEW x \in Emits \ {e}, stage[x][h] # "none" PROVE h \notin handlers
    <3>1. CASE stage[x][h] = "todo"
      BY <3>1, Zenon DEF Emitting!Emit, Emitting!Waiting
    <3>2. CASE stage[x][h] \in {"off", "done"}
      BY <3>2, Zenon DEF EmitInv, Gone
    <3> QED
      BY <2>1, <2>2, <3>1, <3>2 DEF EmitInv, Emitting!TypeOK
  <2>3. CASE c # e /\ d # e
    BY <1>1, <2>1, <2>3 DEF EmitInv, OneHolder
  <2>4. CASE c = e /\ d # e
    BY <1>1, <2>1, <2>2, <2>4, Zenon
  <2>5. CASE c # e /\ d = e
    BY <1>1, <2>1, <2>2, <2>5, Zenon
  <2> QED
    BY <2>3, <2>4, <2>5, Zenon
<1>6. Called'
  <2>1. \A h \in once : overlapped \subseteq overlapped'
    BY Zenon DEF Emitting!Emit
  <2> QED
    BY <1>1, <1>2, <2>1 DEF EmitInv, Emitting!TypeOK, Called
<1> QED
  BY <1>3, <1>4, <1>5, <1>6, Zenon DEF EmitInv

\* The handler of Once unregisters itself, or records the race.
LEMMA CallOffKeepsInv ==
  ASSUME EmitInv, NEW e \in Emits, NEW h \in Emitting!Ids, Emitting!CallOff(e, h)
  PROVE  EmitInv'
<1>1. /\ stage[e][h] = "todo" /\ stage'[e][h] = "off" /\ h \in once
      /\ \A d \in Emits, i \in Emitting!Ids : d # e \/ i # h => stage'[d][i] = stage[d][i]
  BY Zenon DEF EmitInv, Emitting!TypeOK, Emitting!CallOff
<1>2. /\ UNCHANGED <<nextID, once, known, async, calls, overlapped>>
      /\ handlers' \subseteq handlers /\ raced \subseteq raced'
      /\ h \notin raced' => h \notin handlers'
  BY Zenon DEF Emitting!CallOff, Emitting!Removed
<1>3. Emitting!TypeOK'
  <2>1. h <= nextID
    BY <1>1 DEF EmitInv, Emitting!TypeOK
  <2> QED
    BY <1>1, <1>2, <2>1 DEF EmitInv, Emitting!TypeOK, Emitting!CallOff, Emitting!Removed
<1>4. Gone'
  BY <1>1, <1>2 DEF EmitInv, Emitting!TypeOK, Gone
<1>5. OneHolder'
  BY <1>1, <1>2 DEF EmitInv, Emitting!TypeOK, OneHolder
<1>6. Called'
  BY <1>1, <1>2 DEF EmitInv, Emitting!TypeOK, Called
<1> QED
  BY <1>3, <1>4, <1>5, <1>6, Zenon DEF EmitInv

\* The user's function runs: for a handler of Once only after Off, and then, if
\* nobody else holds it, for the first time.
LEMMA CallHandlerKeepsInv ==
  ASSUME EmitInv, NEW e \in Emits, NEW h \in Emitting!Ids, Emitting!CallHandler(e, h)
  PROVE  EmitInv'
<1>1. /\ stage[e][h] \in {"todo", "off"} /\ stage'[e][h] = "done"
      /\ h \in once => stage[e][h] = "off"
      /\ \A d \in Emits, i \in Emitting!Ids : d # e \/ i # h => stage'[d][i] = stage[d][i]
      /\ calls'[h] = calls[h] + 1
      /\ \A i \in Emitting!Ids \ {h} : calls'[i] = calls[i]
  BY Zenon DEF EmitInv, Emitting!TypeOK, Emitting!CallHandler
<1>2. UNCHANGED <<nextID, handlers, once, known, async, raced, overlapped>>
  BY Zenon DEF Emitting!CallHandler
<1>3. Emitting!TypeOK'
  BY <1>1, <1>2 DEF EmitInv, Emitting!TypeOK, Emitting!CallHandler
<1>4. Gone'
  BY <1>1, <1>2 DEF EmitInv, Emitting!TypeOK, Gone
<1>5. OneHolder'
  BY <1>1, <1>2 DEF EmitInv, Emitting!TypeOK, OneHolder
<1>6. Called'
  <2>1. h \in once /\ h \notin raced \cup overlapped => calls[h] = 0
    <3>1. SUFFICES ASSUME h \in once, h \notin raced \cup overlapped, calls[h] > 0
                   PROVE  FALSE
      BY DEF EmitInv, Emitting!TypeOK
    <3>2. PICK d \in Emits : stage[d][h] = "done"
      BY <3>1, Zenon DEF EmitInv, Called
    <3> QED
      BY <1>1, <3>1, <3>2, Zenon DEF EmitInv, OneHolder
  <2> QED
    BY <1>1, <1>2, <2>1 DEF EmitInv, Emitting!TypeOK, Called
<1> QED
  BY <1>3, <1>4, <1>5, <1>6, Zenon DEF EmitInv

-----------------------------------------------------------------------------

\* The inductive invariant.
LEMMA EmitInvHolds == Emitting!Spec => []EmitInv
<1>1. Emitting!Init => EmitInv
  BY DEF Emitting!Init, EmitInv, Emitting!TypeOK, Gone, OneHolder, Called
<1>2. EmitInv /\ [Emitting!Next]_(Emitting!vars) => EmitInv'
  <2>1. CASE Emitting!Next
    BY <2>1, RegisterKeepsInv, OffKeepsInv, EmitKeepsInv, CallOffKeepsInv,
       CallHandlerKeepsInv DEF Emitting!Next
  <2>2. CASE UNCHANGED Emitting!vars
    BY <2>2 DEF Emitting!vars, EmitInv, Emitting!TypeOK, Gone, OneHolder, Called
  <2> QED
    BY <2>1, <2>2, Zenon
<1> QED
  BY <1>1, <1>2, PTL DEF Emitting!Spec

\* On, Once, Off and Emit, in any interleaving, only refer to ids handed out.
THEOREM EmitterTypeCorrect == ServicesSpec => []Emitting!TypeOK
<1>1. EmitInv => Emitting!TypeOK
  BY Zenon DEF EmitInv
<1> QED
  BY <1>1, EmittingRuns, EmitInvHolds, PTL

\* However many calls of Emit and EmitAsync run at once, a handler of Once runs
\* a second time only through one of the two races, and stays registered only
\* through the race on id.
THEOREM OnceRunsOnceHolds == ServicesSpec => []OnceRunsOnce
<1>1. EmitInv => OnceRunsOnce
  BY Zenon DEF EmitInv, Gone, Called, OnceRunsOnce, Emitting!OnceRunsOnce
<1> QED
  BY <1>1, EmittingRuns, EmitInvHolds, PTL

-----------------------------------------------------------------------------
(* Debouncer *)

\* Only the timer of the latest call is armed; if it has expired, its delay is
\* over, and an older one that has expired escaped the next Call.
Stage == {"none", "armed", "stopped", "expired", "running", "done"}
Timed(i) ==
  /\ i < called => timer[i] # "armed"
  /\ i > called => timer[i] = "none"
  /\ timer[i] = "expired" => (i = called /\ quiet = TRUE) \/ (i # called /\ i \in missed)
DebounceInv ==
  /\ called \in Nat /\ quiet \in BOOLEAN /\ timer \in [Debounce!Timers -> Stage]
  /\ \A i \in Debounce!Timers : Timed(i)
  /\ Debounce!EarlyWasMissed

\* Every step keeps DebounceInv.
LEMMA DebounceKeepsInv == DebounceInv /\ [Debounce!Next]_(Debounce!vars) => DebounceInv'
<1> SUFFICES ASSUME DebounceInv, [Debounce!Next]_(Debounce!vars) PROVE DebounceInv'
  BY Zenon
<1>0. /\ called \in Nat /\ quiet \in BOOLEAN /\ timer \in [Debounce!Timers -> Stage]
      /\ \A i \in Debounce!Timers : Timed(i) /\ i \in Nat
      /\ early \subseteq missed
  BY DEF DebounceInv, Debounce!EarlyWasMissed, Debounce!Timers
<1>1. CASE Debounce!Call
  <2>1. called' = called + 1 /\ quiet' = FALSE /\ early' = early /\ missed \subseteq missed'
    BY <1>1, Zenon DEF Debounce!Call
  <2>2. timer' \in [Debounce!Timers -> Stage]
    <3>1. Debounce!Stopped \in [Debounce!Timers -> Stage]
      BY <1>0 DEF Debounce!Stopped, Stage
    <3>2. timer' = [Debounce!Stopped EXCEPT ![called + 1] = "armed"]
      BY <1>1, Zenon DEF Debounce!Call
    <3> QED
      BY <3>1, <3>2, Zenon DEF Stage
  <2>3. ASSUME NEW i \in Debounce!Timers PROVE Timed(i)'
    <3>1. Timed(i) /\ i \in Nat
      BY <1>0, Zenon
    <3>2. timer'[i] = IF i = called + 1 THEN "armed"
                      ELSE IF i = called /\ timer[i] = "armed" THEN "stopped" ELSE timer[i]
      BY <1>0, <1>1, Zenon DEF Debounce!Call, Debounce!Stopped
    <3>3. i = called /\ timer[i] = "expired" => i \in missed'
      BY <1>1, Zenon DEF Debounce!Call
    <3> QED
      BY <1>0, <2>1, <3>1, <3>2, <3>3 DEF Timed
  <2>4. called' \in Nat /\ quiet' \in BOOLEAN
    <3>1. called' \in Nat
      BY <1>0, <2>1
    <3>2. quiet' \in BOOLEAN
      BY <2>1, Zenon
    <3> QED
      BY <3>1, <3>2, Zenon
  <2>5. early' \subseteq missed'
    BY <1>0, <2>1, Zenon
  <2> QED
    BY <2>2, <2>3, <2>4, <2>5, Zenon DEF DebounceInv, Debounce!EarlyWasMissed
<1>2. CASE Debounce!Elapse
  <2>1. called' = called /\ quiet' = TRUE /\ timer' = timer /\ missed' = missed /\ early' = early
    BY <1>2, Zenon DEF Debounce!Elapse
  <2>2. ASSUME NEW i \in Debounce!Timers PROVE Timed(i)'
    BY <1>0, <2>1 DEF Timed
  <2> QED
    BY <1>0, <2>1, <2>2 DEF DebounceInv, Debounce!EarlyWasMissed
<1>3. ASSUME NEW j \in Debounce!Timers, NEW v \in {"expired", "running", "done"},
             timer' = [timer EXCEPT ![j] = v], timer[j] \in {"armed", "expired", "running"},
             called' = called, quiet' = quiet, missed' = missed, early' \subseteq missed,
             v = "expired" => timer[j] = "armed" /\ (j = called => quiet = TRUE)
      PROVE  DebounceInv'
  <2>1. timer' \in [Debounce!Timers -> Stage]
    BY <1>0, <1>3 DEF Stage
  <2>2. ASSUME NEW i \in Debounce!Timers PROVE Timed(i)'
    <3>1. Timed(i) /\ i \in Nat
      BY <1>0, Zenon
    <3>2. timer'[i] = IF i = j THEN v ELSE timer[i]
      BY <1>0, <1>3, Zenon
    <3> QED
      BY <1>0, <1>3, <3>1, <3>2 DEF Timed
  <2> QED
    BY <1>0, <1>3, <2>1, <2>2 DEF DebounceInv, Debounce!EarlyWasMissed
<1>4. ASSUME NEW j \in Debounce!Timers, Debounce!Expire(j) PROVE DebounceInv'
  <2>1. /\ timer' = [timer EXCEPT ![j] = "expired"] /\ timer[j] = "armed"
        /\ called' = called /\ quiet' = quiet /\ missed' = missed /\ early' = early
    BY <1>4, Zenon DEF Debounce!Expire
  <2>2. j = called => quiet = TRUE
    BY <1>0, <1>4 DEF Debounce!Expire
  <2> QED
    BY <1>0, <1>3, <2>1, <2>2, Zenon
<1>5. ASSUME NEW j \in Debounce!Timers, Debounce!Begin(j) PROVE DebounceInv'
  <2>1. /\ timer' = [timer EXCEPT ![j] = "running"] /\ timer[j] = "expired"
        /\ called' = called /\ quiet' = quiet /\ missed' = missed
    BY <1>5, Zenon DEF Debounce!Begin
  <2>2. Timed(j)
    BY <1>0, Zenon
  <2>3. quiet = FALSE => j \in missed
    BY <2>1, <2>2 DEF Timed
  <2>4. early' = early \/ (quiet = FALSE /\ early' = early \cup {j})
    BY <1>0, <1>5 DEF Debounce!Begin
  <2>5. early' \subseteq missed
    BY <1>0, <2>3, <2>4
  <2> QED
    BY <1>3, <2>1, <2>5, Zenon
<1>6. ASSUME NEW j \in Debounce!Timers, Debounce!Finish(j) PROVE DebounceInv'
  <2>1. /\ timer' = [timer EXCEPT ![j] = "done"] /\ timer[j] = "running"
        /\ called' = called /\ quiet' = quiet /\ missed' = missed /\ early' = early
    BY <1>6, Zenon DEF Debounce!Finish
  <2> QED
    BY <1>0, <1>3, <2>1, Zenon
<1>7. CASE UNCHANGED Debounce!vars
  <2>1. called' = called /\ quiet' = quiet /\ timer' = timer /\ missed' = missed /\ early' = early
    BY <1>7, Zenon DEF Debounce!vars
  <2>2. ASSUME NEW i \in Debounce!Timers PROVE Timed(i)'
    BY <1>0, <2>1 DEF Timed
  <2> QED
    BY <1>0, <2>1, <2>2 DEF DebounceInv, Debounce!EarlyWasMissed
<1> QED
  BY <1>1, <1>2, <1>4, <1>5, <1>6, <1>7, Zenon DEF Debounce!Next

\* However often Call is called, the action begins within the delay of a Call
\* only in a goroutine whose timer had expired before that Call.
THEOREM EarlyWasMissedHolds == ServicesSpec => []Debounce!EarlyWasMissed
<1>1. Debounce!Init => DebounceInv
  <2> SUFFICES ASSUME Debounce!Init PROVE DebounceInv
    BY Zenon
  <2>1. /\ called = 0 /\ quiet = TRUE /\ missed = {} /\ early = {}
        /\ timer = [i \in Debounce!Timers |-> "none"]
    BY Zenon DEF Debounce!Init
  <2>2. ASSUME NEW i \in Debounce!Timers PROVE Timed(i)
    <3>1. timer[i] = "none" /\ ~(i < called)
      BY <2>1 DEF Debounce!Timers
    <3> QED
      BY <3>1 DEF Timed
  <2>3. called \in Nat /\ quiet \in BOOLEAN /\ early \subseteq missed /\ timer \in [Debounce!Timers -> Stage]
    BY <2>1 DEF Stage
  <2> QED
    BY <2>2, <2>3, Zenon DEF DebounceInv, Debounce!EarlyWasMissed
<1>2. DebounceInv => Debounce!EarlyWasMissed
  BY Zenon DEF DebounceInv
<1> QED
  BY <1>1, <1>2, DebounceRuns, DebounceKeepsInv, PTL DEF Debounce!Spec

-----------------------------------------------------------------------------
(* TCPClient *)

\* What may have set isClosed first while Listen has reported nothing.
QuietCause ==
  cause \in {"eof", "full", "write", "close"} \/ (cause = "timeout" /\ Timeout)

TcpBooleans == {isClosed, reported, sock, deadline} \subseteq BOOLEAN
DeadlineOwned == deadline => Timeout
ShutMeansClosed == ~sock => isClosed
CloserFirst == \A g \in Closers \cup {"watcher"} : close[g] = "conn" => isClosed
EndMeansClosed == listen = "done" => isClosed
QuietSoFar == isClosed /\ ~reported => QuietCause

TcpInv ==
  /\ TcpBooleans /\ DeadlineOwned /\ ShutMeansClosed /\ CloserFirst
  /\ EndMeansClosed /\ QuietSoFar

\* Only a failed read of Listen closes a client for a reason of its own, and
\* it reports the ones that are not quiet.
LEMMA ListenKeepsTcpInv ==
  ASSUME TcpInv, Tcp!Listener
  PROVE  TcpInv'
<1> USE DEF TcpInv, Tcp!Listener, Tcp!ListenLoop, Tcp!ListenData, Tcp!ListenFail,
        Tcp!CannotRead, Tcp!ListenQuiet, Tcp!Store, QuietCause
<1>1. TcpBooleans'
  BY Zenon DEF TcpBooleans
<1>2. DeadlineOwned'
  BY Zenon DEF DeadlineOwned
<1>3. ShutMeansClosed'
  BY Zenon DEF ShutMeansClosed
<1>4. CloserFirst'
  BY DEF CloserFirst
<1>5. EndMeansClosed'
  BY Zenon DEF EndMeansClosed
<1>6. QuietSoFar'
  BY Zenon DEF QuietSoFar, ShutMeansClosed, DeadlineOwned, TcpBooleans
<1> QED
  BY <1>1, <1>2, <1>3, <1>4, <1>5, <1>6, Zenon DEF TcpInv

\* ReadFull sets a deadline only when there is a timeout.
LEMMA FullKeepsTcpInv ==
  ASSUME TcpInv, Tcp!FullStart \/ Tcp!FullData \/ Tcp!FullFail
  PROVE  TcpInv'
<1> USE DEF TcpInv, Tcp!FullStart, Tcp!FullData, Tcp!FullFail, Tcp!Store, QuietCause
<1>1. TcpBooleans'
  BY Zenon DEF TcpBooleans
<1>2. DeadlineOwned'
  BY Zenon DEF DeadlineOwned
<1>3. ShutMeansClosed'
  BY Zenon DEF ShutMeansClosed
<1>4. CloserFirst'
  BY DEF CloserFirst
<1>5. EndMeansClosed'
  BY Zenon DEF EndMeansClosed
<1>6. QuietSoFar'
  BY Zenon DEF QuietSoFar
<1> QED
  BY <1>1, <1>2, <1>3, <1>4, <1>5, <1>6, Zenon DEF TcpInv

\* Close sets isClosed before it closes the socket.
LEMMA CloseKeepsTcpInv ==
  ASSUME TcpInv, NEW g \in Closers \cup {"watcher"}, Tcp!Closing(g)
  PROVE  TcpInv'
<1> USE DEF TcpInv, Tcp!Closing, Tcp!CloseSwap, Tcp!CloseConn, Tcp!Store, QuietCause
<1>1. TcpBooleans'
  BY Zenon DEF TcpBooleans
<1>2. DeadlineOwned'
  BY Zenon DEF DeadlineOwned
<1>3. ShutMeansClosed'
  BY Zenon DEF ShutMeansClosed, CloserFirst
<1>4. CloserFirst'
  BY DEF CloserFirst
<1>5. EndMeansClosed'
  BY Zenon DEF EndMeansClosed
<1>6. QuietSoFar'
  BY Zenon DEF QuietSoFar
<1> QED
  BY <1>1, <1>2, <1>3, <1>4, <1>5, <1>6, Zenon DEF TcpInv

\* Neither a write nor the peer touches the rest.
LEMMA OthersKeepTcpInv ==
  ASSUME TcpInv, Tcp!WriteStart \/ Tcp!WriteEnd \/ Tcp!PeerSends
                 \/ Tcp!PeerEnds \/ Tcp!Cancel \/ UNCHANGED Tcp!vars
  PROVE  TcpInv'
<1> USE DEF TcpInv, Tcp!WriteStart, Tcp!WriteEnd, Tcp!PeerSends, Tcp!PeerEnds,
        Tcp!Cancel, Tcp!vars, Tcp!Store, QuietCause
<1>1. TcpBooleans'
  BY Zenon DEF TcpBooleans
<1>2. DeadlineOwned'
  BY Zenon DEF DeadlineOwned
<1>3. ShutMeansClosed'
  BY Zenon DEF ShutMeansClosed
<1>4. CloserFirst'
  BY DEF CloserFirst
<1>5. EndMeansClosed'
  BY Zenon DEF EndMeansClosed
<1>6. QuietSoFar'
  BY Zenon DEF QuietSoFar
<1> QED
  BY <1>1, <1>2, <1>3, <1>4, <1>5, <1>6, Zenon DEF TcpInv

\* The inductive invariant.
LEMMA TcpInvHolds == Tcp!Spec => []TcpInv
<1>1. Tcp!Init => TcpInv
  BY Zenon DEF Tcp!Init, Tcp!Watcher, TcpInv, TcpBooleans, DeadlineOwned, ShutMeansClosed,
               CloserFirst, EndMeansClosed, QuietSoFar
<1>2. TcpInv /\ [Tcp!Next]_(Tcp!vars) => TcpInv'
  BY ListenKeepsTcpInv, FullKeepsTcpInv, CloseKeepsTcpInv, OthersKeepTcpInv, Zenon DEF Tcp!Next, Tcp!Watcher

<1> QED
  BY <1>1, <1>2, PTL DEF Tcp!Spec

\* Whatever goroutines read, write and close beside it, Listen ends without
\* onError only at the end of the stream, after another goroutine's failure or
\* Close, or on a deadline that exists only when the client has a timeout.
THEOREM SilenceExplainedHolds == ServicesSpec => []SilenceExplained
<1>1. TcpInv => SilenceExplained
  BY Zenon DEF EndMeansClosed, QuietSoFar, TcpInv, QuietCause, SilenceExplained,
     Tcp!SilenceExplained
<1> QED
  BY <1>1, TcpRuns, TcpInvHolds, PTL

-----------------------------------------------------------------------------
(* NetworkStream: int32 *)

\* Division by the base.
LEMMA DivMod ==
  ASSUME NEW a \in Nat
  PROVE  /\ a \div Base \in Nat /\ a % Base \in 0..(Base - 1)
         /\ a = (a \div Base) * Base + (a % Base)
         /\ a < Base => a % Base = a
<1>1. Base \in Nat \ {0}
  BY StreamAssumption
<1>2. a \div Base \in Nat
  BY <1>1
<1>3. a % Base \in 0..(Base - 1)
  BY <1>1
<1>4. a = (a \div Base) * Base + (a % Base)
  BY <1>1
<1>5. a < Base => a % Base = a
  BY <1>1
<1> QED
  BY <1>2, <1>3, <1>4, <1>5, Zenon

\* The successive quotients WriteInt32 takes.
LEMMA ShiftsDef ==
  ASSUME NEW v \in Nat
  PROVE  LET q == Stream!Shifts(v)
         IN  /\ q[0] = v /\ \A i \in 1..Width : q[i] = q[i - 1] \div Base
             /\ \A i \in 0..Width : q[i] \in Nat
<1> DEFINE Eqn(q) == q = [i \in 0..Width |-> IF i = 0 THEN v ELSE q[i - 1] \div Base]
           g == [p \in (1..Width) \X Nat |-> p[2] \div Base]
           q == Stream!Shifts(v)
<1>0. Width \in Nat
  BY StreamAssumption
<1>1. g \in [(1..Width) \X Nat -> Nat]
  BY DivMod
<1>2. PICK f : f \in [0..Width -> Nat] /\ f[0] = v /\ \A i \in 1..Width : f[i] = g[<<i, f[i - 1]>>]
  <2> HIDE DEF g
  <2>1. \E f : Recurs(f, Width, Nat, v, g)
    BY <1>0, <1>1, Recursion, Zenon
  <2> QED
    BY <2>1, Zenon DEF Recurs
<1>3. \A i \in 0..Width : i # 0 => i \in 1..Width /\ i - 1 \in 0..Width
  BY <1>0
<1>4. \A i \in 1..Width : f[i] = f[i - 1] \div Base
  <2> SUFFICES ASSUME NEW i \in 1..Width PROVE f[i] = f[i - 1] \div Base
    OBVIOUS
  <2>1. f[i - 1] \in Nat
    BY <1>0, <1>2
  <2>2. <<i, f[i - 1]>> \in (1..Width) \X Nat /\ <<i, f[i - 1]>>[2] = f[i - 1]
    BY <2>1
  <2> QED
    BY <1>2, <2>2, Zenon
<1>5. Eqn(f)
  BY <1>2, <1>3, <1>4
<1>6. q = CHOOSE x : Eqn(x)
  BY Zenon DEF Stream!Shifts
<1>7. Eqn(q)
  <2> HIDE DEF Eqn, q
  <2> QED
    BY <1>5, <1>6, Zenon
<1> HIDE DEF q
<1>8. q[0] = v /\ \A i \in 1..Width : q[i] = q[i - 1] \div Base
  BY <1>0, <1>7
<1>9. \A i \in 0..Width : q[i] \in Nat
  <2> DEFINE S == {i \in Nat : q[i] \in Nat}
  <2>1. 0 \in S
    BY <1>8
  <2>0. \A i \in 1..Width : i - 1 \in S => i \in S
    <3> SUFFICES ASSUME NEW i \in 1..Width, q[i - 1] \in Nat PROVE i \in Nat /\ q[i] \in Nat
      BY Zenon
    <3>1. i \in Nat
      BY <1>0
    <3> QED
      BY <1>8, <3>1, DivMod, Zenon
  <2> HIDE DEF S
  <2>2. \A i \in 0..Width : i \in S
    BY <1>0, <2>0, <2>1, UpTo, Zenon
  <2> QED
    BY <2>2, Zenon DEF S
<1> QED
  BY <1>8, <1>9, Zenon DEF q

\* LE(v) is Width bytes.
LEMMA LEType ==
  ASSUME NEW v \in Nat
  PROVE  /\ Stream!LE(v) \in [1..Width -> Nat]
         /\ \A i \in 1..Width : Stream!LE(v)[i] = Stream!Shifts(v)[i - 1] % Base
<1>1. \A i \in 1..Width : Stream!Shifts(v)[i - 1] \in Nat
  <2>1. \A i \in 1..Width : i - 1 \in 0..Width
    BY StreamAssumption
  <2> QED
    BY <2>1, ShiftsDef, Zenon
<1>2. \A a \in Nat : a % Base \in Nat
  BY StreamAssumption
<1> QED
  BY <1>1, <1>2, Zenon DEF Stream!LE

\* The value of Width bytes: the one with the sign first, then down to the first.
LEMMA Int32Def ==
  ASSUME NEW b \in [1..Width -> Nat]
  PROVE  \E w : /\ Stream!Int32(b) = w[Width] /\ w[1] = Stream!Signed(b[Width])
                /\ \A k \in 2..Width : w[k] = w[k - 1] * Base + b[Width - k + 1]
                /\ \A k \in 1..Width : w[k] \in Int
<1> DEFINE Eqn(w) == w = [k \in 1..Width |-> IF k = 1 THEN Stream!Signed(b[Width])
                                             ELSE w[k - 1] * Base + b[Width - k + 1]]
           n == Width - 1
           g == [p \in (1..n) \X Int |-> p[2] * Base + b[Width - p[1]]]
           a == Stream!Signed(b[Width])
<1>0. n \in Nat /\ Width = n + 1 /\ Width \in Nat \ {0} /\ Base \in Nat \ {0}
  BY StreamAssumption
<1>1. a \in Int
  <2>1. b[Width] \in Nat
    BY <1>0
  <2> QED
    BY <1>0, <2>1 DEF Stream!Signed
<1>2. g \in [(1..n) \X Int -> Int]
  <2> SUFFICES ASSUME NEW p \in (1..n) \X Int PROVE p[2] * Base + b[Width - p[1]] \in Int
    BY Zenon
  <2>1. p[1] \in 1..n /\ p[2] \in Int
    OBVIOUS
  <2>2. Width - p[1] \in 1..Width
    BY <1>0, <2>1, SMTT(60)
  <2>3. b[Width - p[1]] \in Nat
    BY <2>2, Zenon
  <2>4. PICK x \in Int : x = p[2] * Base
    BY <1>0, <2>1
  <2>5. PICK y \in Nat : y = b[Width - p[1]]
    BY <2>3, Zenon
  <2>6. x + y \in Int
    OBVIOUS
  <2> QED
    BY <2>4, <2>5, <2>6, Zenon
<1>3. PICK f : f \in [0..n -> Int] /\ f[0] = a /\ \A i \in 1..n : f[i] = g[<<i, f[i - 1]>>]
  <2> HIDE DEF g, n, a
  <2>1. \E f : Recurs(f, n, Int, a, g)
    BY <1>0, <1>1, <1>2, Recursion, Zenon
  <2> QED
    BY <2>1, Zenon DEF Recurs
<1>4. \A i \in 1..n : f[i] = f[i - 1] * Base + b[Width - i]
  <2> SUFFICES ASSUME NEW i \in 1..n PROVE f[i] = f[i - 1] * Base + b[Width - i]
    OBVIOUS
  <2>1. f[i - 1] \in Int
    BY <1>0, <1>3
  <2>2. <<i, f[i - 1]>> \in (1..n) \X Int /\ <<i, f[i - 1]>>[2] = f[i - 1] /\ <<i, f[i - 1]>>[1] = i
    BY <2>1
  <2> QED
    BY <1>3, <2>2, Zenon
<1> DEFINE h == [k \in 1..Width |-> f[k - 1]]
<1>5. \A k \in 1..Width : k # 1 => k - 1 \in 1..n /\ k - 1 \in 1..Width /\ k - 1 - 1 = k - 2
                                   /\ Width - (k - 1) = Width - k + 1
  BY <1>0
<1>6. \A k \in 1..Width : h[k] = IF k = 1 THEN a ELSE h[k - 1] * Base + b[Width - k + 1]
  <2> SUFFICES ASSUME NEW k \in 1..Width PROVE h[k] = IF k = 1 THEN a ELSE h[k - 1] * Base + b[Width - k + 1]
    OBVIOUS
  <2>1. CASE k = 1
    BY <1>3, <2>1
  <2>2. CASE k # 1
    <3>1. h[k] = f[k - 1] /\ h[k - 1] = f[k - 1 - 1]
      BY <1>5, <2>2, Zenon
    <3>2. f[k - 1] = f[k - 1 - 1] * Base + b[Width - (k - 1)]
      BY <1>4, <1>5, <2>2, Zenon
    <3> QED
      BY <1>5, <2>2, <3>1, <3>2, Zenon
  <2> QED
    BY <2>1, <2>2, Zenon
<1>7. Eqn(h)
  BY <1>6, Zenon
<1> DEFINE w == CHOOSE x : Eqn(x)
<1>8. Eqn(w)
  <2> HIDE DEF Eqn, h
  <2> QED
    BY <1>7, Zenon
<1>9. Stream!Int32(b) = w[Width]
  BY Zenon DEF Stream!Int32
<1> HIDE DEF w
<1>10. w[1] = a /\ \A k \in 2..Width : w[k] = w[k - 1] * Base + b[Width - k + 1]
  <2>1. 1 \in 1..Width /\ \A k \in 2..Width : k \in 1..Width /\ k # 1
    BY <1>0
  <2> QED
    BY <1>8, <2>1, Zenon
<1>11. \A k \in 1..Width : w[k] \in Int
  <2> DEFINE S == {i \in Nat : w[i + 1] \in Int}
  <2>1. 0 \in S
    BY <1>1, <1>10
  <2>2. \A i \in 1..n : i - 1 \in S => i \in S
    <3> SUFFICES ASSUME NEW i \in 1..n, w[i - 1 + 1] \in Int PROVE i \in Nat /\ w[i + 1] \in Int
      BY Zenon
    <3>1. i \in Nat /\ i - 1 + 1 = i /\ i + 1 \in 2..Width /\ i + 1 - 1 = i /\ Width - (i + 1) + 1 \in 1..Width
      BY <1>0
    <3>2. w[i + 1] = w[i] * Base + b[Width - (i + 1) + 1] /\ b[Width - (i + 1) + 1] \in Nat /\ w[i] \in Int
      BY <1>10, <3>1
    <3>3. PICK x \in Int : x = w[i]
      BY <3>2, Zenon
    <3>4. PICK y \in Nat : y = b[Width - (i + 1) + 1]
      BY <3>2, Zenon
    <3>5. x * Base + y \in Int
      BY <1>0
    <3> QED
      BY <3>1, <3>2, <3>3, <3>4, <3>5, Zenon
  <2> HIDE DEF S, n
  <2>3. \A i \in 0..n : i \in S
    BY <1>0, <2>1, <2>2, UpTo, Zenon
  <2>4. \A k \in 1..Width : k - 1 \in 0..n /\ k - 1 + 1 = k
    BY <1>0
  <2> QED
    BY <2>3, <2>4, Zenon DEF S
<1> QED
  BY <1>9, <1>10, <1>11, Zenon

\* ReadInt32 returns an integer.
LEMMA Int32Type ==
  ASSUME NEW b \in [1..Width -> Nat]
  PROVE  Stream!Int32(b) \in Int
<1>1. Width \in 1..Width
  BY StreamAssumption
<1> QED
  BY <1>1, Int32Def, Zenon

\* ReadInt32 gives back what WriteInt32 wrote, when it fits.
LEMMA Int32OfLE ==
  ASSUME NEW v \in Nat, 2 * Stream!Shifts(v)[Width - 1] < Base
  PROVE  Stream!Int32(Stream!LE(v)) = v
<1> DEFINE q == Stream!Shifts(v)
           b == Stream!LE(v)
           n == Width - 1
<1>0. n \in Nat /\ Width = n + 1 /\ Width \in 1..Width /\ Width \in Nat \ {0} /\ Base \in Nat \ {0}
  BY StreamAssumption
<1>1. /\ q[0] = v /\ \A i \in 1..Width : q[i] = q[i - 1] \div Base
      /\ \A i \in 0..Width : q[i] \in Nat
  BY ShiftsDef, Zenon
<1>2. b \in [1..Width -> Nat] /\ \A i \in 1..Width : b[i] = q[i - 1] % Base
  BY LEType, Zenon
<1>3. PICK w : /\ Stream!Int32(b) = w[Width] /\ w[1] = Stream!Signed(b[Width])
               /\ \A k \in 2..Width : w[k] = w[k - 1] * Base + b[Width - k + 1]
  <2> HIDE DEF b
  <2> QED
    BY <1>2, Int32Def, Zenon
<1>4. 2 * q[n] < Base
  BY Zenon
<1> HIDE DEF q, b
<1>5. w[1] = q[n]
  <2>1. b[Width] = q[n] % Base /\ q[n] \in Nat
    BY <1>0, <1>1, <1>2
  <2>2. q[n] < Base
    BY <1>0, <1>4, <2>1
  <2>3. b[Width] = q[n]
    BY <2>1, <2>2, DivMod, Zenon
  <2> HIDE DEF n
  <2>4. ~(2 * q[n] >= Base)
    BY <1>0, <1>4, <2>1
  <2> QED
    BY <1>3, <2>3, <2>4, Zenon DEF Stream!Signed
<1> DEFINE S == {i \in Nat : w[i + 1] = q[n - i]}
<1>6. 0 \in S
  BY <1>0, <1>5
<1>7. \A i \in 1..n : i - 1 \in S => i \in S
  <2> SUFFICES ASSUME NEW i \in 1..n, w[i - 1 + 1] = q[n - (i - 1)] PROVE i \in Nat /\ w[i + 1] = q[n - i]
    BY Zenon
  <2>1. PICK j \in Nat : j = n - i /\ j \in 0..Width /\ j + 1 \in 1..Width /\ j + 1 - 1 = j
    BY <1>0
  <2>2. i \in Nat /\ i - 1 + 1 = i /\ n - (i - 1) = j + 1 /\ i + 1 \in 2..Width /\ i + 1 - 1 = i
        /\ Width - (i + 1) + 1 = j + 1
    BY <1>0, <2>1
  <2>3. w[i] = q[j + 1] /\ w[i + 1] = w[i] * Base + b[j + 1]
    <3>0. i + 1 \in 2..Width
      BY <2>2, Zenon
    <3>1. w[i + 1] = w[i + 1 - 1] * Base + b[Width - (i + 1) + 1]
      BY <1>3, <3>0
    <3>2. w[i + 1] = w[i] * Base + b[j + 1]
      BY <2>2, <3>1, Zenon
    <3>3. w[i] = q[j + 1]
      BY <2>2, Zenon
    <3> QED
      BY <3>2, <3>3, Zenon
  <2>4. q[j + 1] = q[j] \div Base /\ b[j + 1] = q[j] % Base /\ q[j] \in Nat
    <3>0. j + 1 \in 1..Width
      BY <2>1, Zenon
    <3>1. q[j + 1] = q[j + 1 - 1] \div Base
      BY <1>1, <3>0
    <3>2. b[j + 1] = q[j + 1 - 1] % Base
      BY <1>2, <3>0
    <3>3. q[j] \in Nat
      BY <1>1, <2>1, Zenon
    <3> QED
      BY <2>1, <3>1, <3>2, <3>3, Zenon
  <2>5. q[j] = (q[j] \div Base) * Base + (q[j] % Base)
    BY <2>4, DivMod, Zenon
  <2> QED
    BY <2>1, <2>2, <2>3, <2>4, <2>5, Zenon
<1> HIDE DEF S
<1>8. n \in S
  <2>1. \A i \in 0..n : i \in S
    BY <1>0, <1>6, <1>7, UpTo, Zenon
  <2> QED
    BY <1>0, <2>1
<1>9. w[n + 1] = q[n - n] /\ n - n = 0
  BY <1>0, <1>8 DEF S
<1> QED
  BY <1>0, <1>1, <1>3, <1>9, Zenon DEF b
-----------------------------------------------------------------------------
(* NetworkStream: the buffer *)

\* The sizes the doubling loop of ensureCapacity passes, from L on.
Doubled(L, r) == CHOOSE d : d = [k \in 0..r |-> IF k = 0 THEN L ELSE 2 * d[k - 1]]
Sizes(L, r)   == {n \in {Doubled(L, r)[k] : k \in 1..r} : n >= r}
NewSize(L, r) == CHOOSE n \in Sizes(L, r) : \A m \in Sizes(L, r) : n <= m

\* The loop ends, because L is not 0.
LEMMA DoublingEnds ==
  ASSUME NEW L \in Nat \ {0}, NEW r \in Nat \ {0}
  PROVE  NewSize(L, r) \in Nat /\ NewSize(L, r) >= r
<1> DEFINE Eqn(d) == d = [k \in 0..r |-> IF k = 0 THEN L ELSE 2 * d[k - 1]]
           g == [p \in (1..r) \X Nat |-> 2 * p[2]]
           d == Doubled(L, r)
<1>1. g \in [(1..r) \X Nat -> Nat]
  OBVIOUS
<1>2. PICK f : f \in [0..r -> Nat] /\ f[0] = L /\ \A i \in 1..r : f[i] = g[<<i, f[i - 1]>>]
  <2> HIDE DEF g
  <2>1. \E f : Recurs(f, r, Nat, L, g)
    BY <1>1, Recursion, Zenon
  <2> QED
    BY <2>1, Zenon DEF Recurs
<1>3. \A i \in 0..r : i # 0 => i \in 1..r /\ i - 1 \in 0..r
  OBVIOUS
<1>4. \A i \in 1..r : f[i] = 2 * f[i - 1]
  <2> SUFFICES ASSUME NEW i \in 1..r PROVE f[i] = 2 * f[i - 1]
    OBVIOUS
  <2>1. f[i - 1] \in Nat
    BY <1>2
  <2>2. <<i, f[i - 1]>> \in (1..r) \X Nat /\ <<i, f[i - 1]>>[2] = f[i - 1]
    BY <2>1
  <2> QED
    BY <1>2, <2>2, Zenon
<1>5. Eqn(f)
  BY <1>2, <1>3, <1>4
<1>6. Eqn(d)
  <2>1. d = CHOOSE x : Eqn(x)
    BY Zenon DEF Doubled
  <2> HIDE DEF Eqn, d
  <2> QED
    BY <1>5, <2>1, Zenon
<1> HIDE DEF d
<1>7. d[0] = L /\ \A i \in 1..r : d[i] = 2 * d[i - 1]
  BY <1>6
<1>8. \A i \in 0..r : d[i] \in Nat /\ d[i] > i
  <2> DEFINE S == {i \in Nat : d[i] \in Nat /\ d[i] > i}
  <2>1. 0 \in S
    BY <1>7
  <2>2. \A i \in 1..r : i - 1 \in S => i \in S
    BY <1>7
  <2> HIDE DEF S
  <2>3. \A i \in 0..r : i \in S
    BY <2>1, <2>2, UpTo, Zenon
  <2> QED
    BY <2>3, Zenon DEF S
<1>9. d[r] \in Sizes(L, r)
  <2>1. r \in 1..r /\ d[r] >= r
    BY <1>8
  <2> QED
    BY <2>1, Zenon DEF Sizes, d
<1>10. Sizes(L, r) \in SUBSET Nat
  <2>1. \A i \in 1..r : i \in 0..r
    OBVIOUS
  <2> QED
    BY <1>8, <2>1, Zenon DEF Sizes, d
<1>11. PICK x \in Sizes(L, r) : \A y \in Sizes(L, r) : x <= y
  BY <1>9, <1>10, LeastNat, Zenon
<1>12. NewSize(L, r) \in Sizes(L, r)
  BY <1>11, Zenon DEF NewSize
<1> QED
  BY <1>10, <1>12, Zenon DEF Sizes

Buffer == [buffer : Seq(Nat), position : Nat, length : Nat]

\* ensureCapacity makes room and moves nothing.
LEMMA CapacityEnsured ==
  ASSUME NEW s \in Buffer, NEW r \in Nat, r <= Len(s.buffer) \/ Len(s.buffer) # 0,
         NEW t, t = Stream!ensureCapacity(s, r)
  PROVE  /\ t \in Buffer /\ t.position = s.position /\ t.length = s.length
         /\ Len(t.buffer) >= r /\ Len(t.buffer) >= Len(s.buffer)
         /\ \A i \in 1..Len(s.buffer) : t.buffer[i] = s.buffer[i]
<1>1. s.buffer \in Seq(Nat) /\ s.position \in Nat /\ s.length \in Nat
  BY Zenon DEF Buffer
<1>2. Len(s.buffer) \in Nat
  BY <1>1
<1>3. CASE r <= Len(s.buffer)
  <2>1. t = s
    BY <1>3, Zenon DEF Stream!ensureCapacity
  <2> QED
    BY <1>2, <1>3, <2>1
<1>4. CASE ~(r <= Len(s.buffer))
  <2> DEFINE L == Len(s.buffer)
             N == NewSize(L, r)
             z == [i \in 1..(N - L) |-> 0]
             b == s.buffer \o z
  <2>1. t = [s EXCEPT !.buffer = b]
    BY <1>4, Zenon DEF Stream!ensureCapacity, Doubled, Sizes, NewSize
  <2>2. L \in Nat \ {0} /\ r \in Nat \ {0} /\ r > L
    BY <1>2, <1>4
  <2>3. N \in Nat /\ N >= r
    BY <2>2, DoublingEnds, Zenon
  <2> HIDE DEF N, L
  <2>4. N - L \in Nat /\ L + (N - L) = N /\ N >= L
    BY <2>2, <2>3
  <2>5. z \in Seq(Nat) /\ Len(z) = N - L
    <3>1. z \in [1..(N - L) -> Nat]
      OBVIOUS
    <3> HIDE DEF z
    <3> QED
      BY <2>4, <3>1, FcnSeq, Zenon
  <2> HIDE DEF z
  <2>6. /\ b \in Seq(Nat) /\ Len(b) = Len(s.buffer) + Len(z)
        /\ \A i \in 1..Len(s.buffer) : b[i] = s.buffer[i]
    <3>1. PICK a \in Seq(Nat), y \in Seq(Nat) : a = s.buffer /\ y = z
      BY <1>1, <2>5, Zenon
    <3>2. b = a \o y
      BY <3>1, Zenon
    <3> HIDE DEF b
    <3>3. b \in Seq(Nat) /\ Len(b) = Len(a) + Len(y) /\ \A i \in 1..Len(a) : b[i] = a[i]
      BY <3>2, Concat
    <3> QED
      BY <3>1, <3>3, Zenon
  <2> HIDE DEF b
  <2>7. t \in Buffer /\ t.buffer = b /\ t.position = s.position /\ t.length = s.length
    BY <1>1, <2>1, <2>6, Zenon DEF Buffer
  <2>8. Len(b) = N
    BY <2>4, <2>5, <2>6, Zenon DEF L
  <2> QED
    BY <2>3, <2>4, <2>6, <2>7, <2>8, Zenon DEF L
<1> QED
  BY <1>3, <1>4, Zenon

\* t is s with d put behind its first p bytes.
Pasted(s, p, d, t) ==
  /\ t \in Buffer /\ t.position = s.position /\ t.length = s.length
  /\ Len(t.buffer) = Len(s.buffer)
  /\ \A i \in 1..p : t.buffer[i] = s.buffer[i]
  /\ \A i \in 1..Len(d) : t.buffer[p + i] = d[i]

\* copy(s.buffer[at:], d), when d fits.
LEMMA Copied ==
  ASSUME NEW s \in Buffer, NEW p \in Nat, NEW d \in Seq(Nat), p + Len(d) <= Len(s.buffer),
         NEW t, t = Stream!Copy(s, p, d)
  PROVE  Pasted(s, p, d, t)
<1> DEFINE L == Len(s.buffer)
           b == [i \in 1..L |-> IF i > p /\ i <= p + Len(d) THEN d[i - p] ELSE s.buffer[i]]
<1>1. s.buffer \in Seq(Nat) /\ s.position \in Nat /\ s.length \in Nat
  BY Zenon DEF Buffer
<1>2. L \in Nat /\ Len(d) \in Nat /\ DOMAIN s.buffer = 1..L
  BY <1>1
<1>3. t = [s EXCEPT !.buffer = b]
  BY <1>2, Zenon DEF Stream!Copy
<1>4. b \in [1..L -> Nat]
  <2> SUFFICES ASSUME NEW i \in 1..L
               PROVE  (IF i > p /\ i <= p + Len(d) THEN d[i - p] ELSE s.buffer[i]) \in Nat
    BY Zenon
  <2>1. i > p /\ i <= p + Len(d) => i - p \in 1..Len(d)
    BY <1>2
  <2>2. \A j \in 1..Len(d) : d[j] \in Nat
    BY Elt, Zenon
  <2>3. s.buffer[i] \in Nat
    BY <1>1, Elt, Zenon
  <2> QED
    BY <2>1, <2>2, <2>3, Zenon
<1>5. b \in Seq(Nat) /\ Len(b) = L
  <2> HIDE DEF b, L
  <2> QED
    BY <1>2, <1>4, FcnSeq, Zenon
<1>6. \A i \in 1..p : b[i] = s.buffer[i]
  <2> SUFFICES ASSUME NEW i \in 1..p PROVE b[i] = s.buffer[i]
    BY Zenon
  <2>1. i \in 1..L /\ ~(i > p)
    BY <1>2
  <2> QED
    BY <2>1, Zenon
<1>7. \A i \in 1..Len(d) : b[p + i] = d[i]
  <2> SUFFICES ASSUME NEW i \in 1..Len(d) PROVE b[p + i] = d[i]
    BY Zenon
  <2>1. p + i \in 1..L /\ p + i > p /\ p + i <= p + Len(d) /\ p + i - p = i
    <3> HIDE DEF b
    <3>1. L \in Nat /\ Len(d) \in Nat /\ p + Len(d) <= L
      BY <1>2, Zenon
    <3> HIDE DEF L
    <3> QED
      BY <3>1
  <2>2. b[p + i] = d[p + i - p]
    BY <2>1, SMTT(60)
  <2> QED
    BY <2>1, <2>2, Zenon
<1> HIDE DEF b
<1>8. t \in Buffer /\ t.buffer = b /\ t.position = s.position /\ t.length = s.length
  BY <1>1, <1>3, <1>5, Zenon DEF Buffer
<1> QED
  BY <1>5, <1>6, <1>7, <1>8, Zenon DEF Pasted

\* t is s with d behind the data.
Grown(s, d, t) ==
  /\ t \in Buffer /\ t.position = s.position /\ t.length = s.length + Len(d)
  /\ t.length <= Len(t.buffer)
  /\ \A i \in 1..s.length : t.buffer[i] = s.buffer[i]
  /\ \A i \in 1..Len(d) : t.buffer[s.length + i] = d[i]

\* Append puts d behind the data and changes nothing before it.
LEMMA Appended ==
  ASSUME NEW s \in Buffer, s.length <= Len(s.buffer), NEW d \in Seq(Nat),
         ~Stream!Loops(s, s.length + Len(d)), NEW t, t = Stream!AppendBytes(s, d)
  PROVE  Grown(s, d, t)
<1>1. s.buffer \in Seq(Nat) /\ s.position \in Nat /\ s.length \in Nat
  BY Zenon DEF Buffer
<1>2. Len(s.buffer) \in Nat /\ Len(d) \in Nat
  BY <1>1
<1>3. PICK r \in Nat : r = s.length + Len(d)
  BY <1>1, <1>2
<1>4. r <= Len(s.buffer) \/ Len(s.buffer) # 0
  <2>1. ~(r > Len(s.buffer)) \/ Len(s.buffer) # 0
    BY <1>3, Zenon DEF Stream!Loops
  <2> QED
    BY <1>2, <1>3, <2>1
<1>5. PICK e : e = Stream!ensureCapacity(s, r)
  BY Zenon
<1>6. /\ e \in Buffer /\ e.position = s.position /\ e.length = s.length /\ Len(e.buffer) >= r
      /\ \A i \in 1..Len(s.buffer) : e.buffer[i] = s.buffer[i]
  BY <1>4, <1>5, CapacityEnsured, ZenonT(60)
<1>7. Len(e.buffer) \in Nat
  BY <1>6 DEF Buffer
<1>8. s.length + Len(d) <= Len(e.buffer)
  BY <1>1, <1>2, <1>3, <1>6, <1>7
<1>9. PICK c : c = Stream!Copy(e, s.length, d)
  BY Zenon
<1>10. /\ c \in Buffer /\ c.position = e.position /\ c.length = e.length
       /\ Len(c.buffer) = Len(e.buffer)
       /\ \A i \in 1..s.length : c.buffer[i] = e.buffer[i]
       /\ \A i \in 1..Len(d) : c.buffer[s.length + i] = d[i]
  <2>1. e \in Buffer /\ s.length \in Nat /\ s.length + Len(d) <= Len(e.buffer)
    BY <1>1, <1>6, <1>8, Zenon
  <2>2. Pasted(e, s.length, d, c)
    BY <1>9, <2>1, Copied, Zenon
  <2> QED
    BY <2>2, Zenon DEF Pasted
<1>11. t = [c EXCEPT !.length = c.length + Len(d)]
  BY <1>3, <1>5, <1>9, Zenon DEF Stream!AppendBytes
<1>12. /\ t.buffer = c.buffer /\ t.position = c.position /\ t.length = c.length + Len(d)
       /\ c.length + Len(d) \in Nat /\ c.position \in Nat /\ c.buffer \in Seq(Nat)
  BY <1>2, <1>10, <1>11, SMTT(60) DEF Buffer
<1>13. t \in Buffer
  BY <1>10, <1>11, <1>12, Zenon DEF Buffer
<1>14. \A i \in 1..s.length : t.buffer[i] = s.buffer[i]
  <2>1. \A i \in 1..s.length : i \in 1..Len(s.buffer)
    BY <1>1, <1>2
  <2> QED
    BY <1>6, <1>10, <1>12, <2>1, Zenon
<1> QED
  BY <1>6, <1>8, <1>10, <1>12, <1>13, <1>14, ZenonT(60) DEF Grown

\* t is s with d at its end, and stands behind it.
Behind(s, d, t) ==
  /\ t \in Buffer /\ t.position = t.length /\ t.length = s.length + Len(d)
  /\ t.length <= Len(t.buffer) /\ Len(t.buffer) # 0
  /\ \A i \in 1..s.length : t.buffer[i] = s.buffer[i]
  /\ \A i \in 1..Len(d) : t.buffer[s.length + i] = d[i]

\* A write at the end of the stream.
LEMMA Written ==
  ASSUME NEW s \in Buffer, s.position = s.length, s.length <= Len(s.buffer), Len(s.buffer) # 0,
         NEW d \in Seq(Nat), NEW t, t = Stream!WriteBytes(s, d)
  PROVE  Behind(s, d, t)
<1>1. s.buffer \in Seq(Nat) /\ s.position \in Nat /\ s.length \in Nat
  BY Zenon DEF Buffer
<1>2. Len(s.buffer) \in Nat /\ Len(d) \in Nat
  BY <1>1
<1>3. PICK r \in Nat : r = s.length + Len(d)
  BY <1>1, <1>2
<1>5. PICK e : e = Stream!ensureCapacity(s, r)
  BY Zenon
<1>6. /\ e \in Buffer /\ e.position = s.position /\ e.length = s.length /\ Len(e.buffer) >= r
      /\ Len(e.buffer) >= Len(s.buffer)
      /\ \A i \in 1..Len(s.buffer) : e.buffer[i] = s.buffer[i]
  BY <1>5, CapacityEnsured, ZenonT(60)
<1>7. Len(e.buffer) \in Nat
  BY <1>6 DEF Buffer
<1>8. s.length + Len(d) <= Len(e.buffer) /\ Len(e.buffer) # 0
  BY <1>1, <1>2, <1>3, <1>6, <1>7
<1>9. PICK c : c = Stream!Copy(e, s.length, d)
  BY Zenon
<1>10. /\ c \in Buffer /\ c.position = e.position /\ c.length = e.length
       /\ Len(c.buffer) = Len(e.buffer)
       /\ \A i \in 1..s.length : c.buffer[i] = e.buffer[i]
       /\ \A i \in 1..Len(d) : c.buffer[s.length + i] = d[i]
  <2>1. e \in Buffer /\ s.length \in Nat /\ s.length + Len(d) <= Len(e.buffer)
    BY <1>1, <1>6, <1>8, Zenon
  <2>2. Pasted(e, s.length, d, c)
    BY <1>9, <2>1, Copied, Zenon
  <2> QED
    BY <2>2, Zenon DEF Pasted
<1>11. t = [c EXCEPT !.position = r, !.length = IF r > c.length THEN r ELSE c.length]
  BY <1>3, <1>5, <1>9, Zenon DEF Stream!WriteBytes
<1>12. (IF r > c.length THEN r ELSE c.length) = r
  BY <1>1, <1>2, <1>3, <1>6, <1>10
<1>13. t = [c EXCEPT !.position = r, !.length = r]
  BY <1>11, <1>12, Zenon
<1>14. t.buffer = c.buffer /\ t.position = r /\ t.length = r /\ t \in Buffer
  BY <1>3, <1>10, <1>13, Zenon DEF Buffer
<1>15. \A i \in 1..s.length : t.buffer[i] = s.buffer[i]
  <2>1. \A i \in 1..s.length : i \in 1..Len(s.buffer)
    BY <1>1, <1>2
  <2> QED
    BY <1>6, <1>10, <1>14, <2>1, Zenon
<1> QED
  BY <1>3, <1>8, <1>10, <1>14, <1>15, Zenon DEF Behind

\* buf holds the string str, behind its length, after the first e bytes.
Holds(buf, e, str) ==
  /\ \A i \in 1..Width : buf[e + i] = Stream!LE(Len(str))[i]
  /\ \A i \in 1..Len(str) : buf[e + Width + i] = str[i]

\* t is s with the string str, behind its length, at its end.
Put(s, str, t) ==
  /\ t \in Buffer /\ t.position = t.length /\ t.length = s.length + Width + Len(str)
  /\ t.length <= Len(t.buffer) /\ Len(t.buffer) # 0
  /\ \A i \in 1..s.length : t.buffer[i] = s.buffer[i]
  /\ Holds(t.buffer, s.length, str)

\* WriteString puts the length and the string behind the data.
LEMMA StringWritten ==
  ASSUME NEW s \in Buffer, s.position = s.length, s.length <= Len(s.buffer), Len(s.buffer) # 0,
         NEW str \in Seq(Nat), NEW t, t = Stream!WriteString(s, str)
  PROVE  Put(s, str, t)
<1>1. Len(str) \in Nat /\ Width \in Nat /\ s.length \in Nat
  BY StreamAssumption DEF Buffer
<1>2. PICK d : d = Stream!LE(Len(str))
  BY Zenon
<1>3. d \in Seq(Nat) /\ Len(d) = Width
  <2>1. d \in [1..Width -> Nat]
    BY <1>1, <1>2, LEType, Zenon
  <2> QED
    BY <1>1, <2>1, FcnSeq, Zenon
<1>4. PICK u : u = Stream!WriteBytes(s, d)
  BY Zenon
<1>5. /\ u \in Buffer /\ u.position = u.length /\ u.length = s.length + Len(d)
      /\ u.length <= Len(u.buffer) /\ Len(u.buffer) # 0
      /\ \A i \in 1..s.length : u.buffer[i] = s.buffer[i]
      /\ \A i \in 1..Len(d) : u.buffer[s.length + i] = d[i]
  <2>1. d \in Seq(Nat)
    BY <1>3, Zenon
  <2>2. Behind(s, d, u)
    BY <1>4, <2>1, Written, Zenon
  <2> QED
    BY <2>2, Zenon DEF Behind
<1>6. t = Stream!WriteBytes(u, str)
  BY <1>2, <1>4, Zenon DEF Stream!WriteString
<1>7. /\ t \in Buffer /\ t.position = t.length /\ t.length = u.length + Len(str)
      /\ t.length <= Len(t.buffer) /\ Len(t.buffer) # 0
      /\ \A i \in 1..u.length : t.buffer[i] = u.buffer[i]
      /\ \A i \in 1..Len(str) : t.buffer[u.length + i] = str[i]
  <2>1. Behind(u, str, t)
    BY <1>5, <1>6, Written, Zenon
  <2> QED
    BY <2>1, Zenon DEF Behind
<1>8. u.length = s.length + Width /\ \A i \in 1..Width : s.length + i \in 1..u.length
  <2>1. u.length = s.length + Width
    BY <1>3, <1>5, Zenon
  <2> QED
    BY <1>1, <2>1
<1>9. \A i \in 1..s.length : i \in 1..u.length
  BY <1>1, <1>8
<1>10. \A i \in 1..Width : t.buffer[s.length + i] = d[i]
  BY <1>3, <1>5, <1>7, <1>8, Zenon
<1>11. \A i \in 1..s.length : t.buffer[i] = s.buffer[i]
  BY <1>5, <1>7, <1>9, Zenon
<1>12. Holds(t.buffer, s.length, str)
  BY <1>2, <1>7, <1>8, <1>10, Zenon DEF Holds
<1> QED
  BY <1>7, <1>8, <1>11, <1>12, Zenon DEF Put

\* The position and the length of a stream lie in its buffer, in that order.
Sound(s) == s \in Buffer /\ s.position <= s.length /\ s.length <= Len(s.buffer)

\* A stretch of a sequence, position by position.
LEMMA Sub ==
  ASSUME NEW b \in Seq(Nat), NEW p \in Nat, NEW n \in Nat, p + n <= Len(b)
  PROVE  /\ SubSeq(b, p + 1, p + n) \in Seq(Nat) /\ Len(SubSeq(b, p + 1, p + n)) = n
         /\ \A i \in 1..n : SubSeq(b, p + 1, p + n)[i] = b[p + i]
<1>1. Len(b) \in Nat /\ p + 1 \in 1..(Len(b) + 1) /\ p + n \in Nat
  OBVIOUS
<1>2. \A i \in (p + 1)..(p + n) : b[i] \in Nat
  BY <1>1
<1>3. SubSeq(b, p + 1, p + n) \in Seq(Nat) /\ Len(SubSeq(b, p + 1, p + n)) = n
  BY <1>1, <1>2
<1>4. \A i \in 1..n : SubSeq(b, p + 1, p + n)[i] = b[p + i]
  BY <1>1
<1> QED
  BY <1>3, <1>4, Zenon

\* What the next n bytes of a stream are.
LEMMA Peeked ==
  ASSUME NEW s, Sound(s), NEW n \in Nat, s.position + n <= s.length, NEW b, b = Stream!Peek(s, n)
  PROVE  /\ b \in Seq(Nat) /\ Len(b) = n /\ b \in [1..n -> Nat]
         /\ \A i \in 1..n : b[i] = s.buffer[s.position + i]
<1>1. s.buffer \in Seq(Nat) /\ s.position \in Nat /\ s.length \in Nat /\ s.length <= Len(s.buffer)
  BY Zenon DEF Sound, Buffer
<1>2. s.position + n <= Len(s.buffer)
  BY <1>1
<1>3. b = SubSeq(s.buffer, s.position + 1, s.position + n)
  BY Zenon DEF Stream!Peek
<1>4. /\ b \in Seq(Nat) /\ Len(b) = n /\ \A i \in 1..n : b[i] = s.buffer[s.position + i]
  <2>1. PICK a \in Seq(Nat), p \in Nat : a = s.buffer /\ p = s.position
    BY <1>1, Zenon
  <2>2. p + n <= Len(a) /\ b = SubSeq(a, p + 1, p + n)
    BY <1>2, <1>3, <2>1, Zenon
  <2>3. /\ SubSeq(a, p + 1, p + n) \in Seq(Nat) /\ Len(SubSeq(a, p + 1, p + n)) = n
        /\ \A i \in 1..n : SubSeq(a, p + 1, p + n)[i] = a[p + i]
    BY <2>2, Sub, Zenon
  <2> QED
    BY <2>1, <2>2, <2>3, Zenon
<1>5. b \in [1..n -> Nat]
  BY <1>4
<1> QED
  BY <1>4, <1>5, Zenon

\* What the part of s before its length shows of a string at its position.
Shows(s, str) ==
  /\ \A i \in 1..Width : s.position + i <= s.length => s.buffer[s.position + i] = Stream!LE(Len(str))[i]
  /\ \A i \in 1..Len(str) : s.position + Width + i <= s.length => s.buffer[s.position + Width + i] = str[i]

\* Skipping n bytes moves only the position.
LEMMA Moved ==
  ASSUME NEW s, Sound(s), NEW n \in Nat, s.position + n <= s.length, NEW t, t = Stream!Skip(s, n)
  PROVE  /\ Sound(t) /\ t.buffer = s.buffer /\ t.length = s.length /\ t.position = s.position + n
<1>1. s \in Buffer /\ s.position \in Nat
  BY Zenon DEF Sound, Buffer
<1>2. t = [s EXCEPT !.position = s.position + n] /\ s.position + n \in Nat
  BY <1>1 DEF Stream!Skip
<1>3. /\ t.buffer = s.buffer /\ t.length = s.length /\ t.position = s.position + n /\ t \in Buffer
  BY <1>1, <1>2, Zenon DEF Buffer
<1> QED
  BY <1>3 DEF Sound

\* ReadString returns the string that stands at the position.
LEMMA StringRead ==
  ASSUME NEW s, Sound(s), NEW r, r = Stream!ReadString(s)
  PROVE  /\ Sound(r.stream) /\ r.stream.buffer = s.buffer /\ r.stream.length = s.length
         /\ r.ok \in BOOLEAN
         /\ r.ok => r.str \in Seq(Nat) /\ s.position + Width <= s.length
         /\ \A str \in Strings :
              r.ok /\ Shows(s, str) => /\ r.str = str
                                       /\ r.stream.position = s.position + (Width + Len(str))
<1>0. s.position \in Nat /\ s.length \in Nat /\ Width \in Nat \ {0}
  BY StreamAssumption DEF Sound, Buffer
<1>1. CASE ~Stream!Readable(s, Width)
  <2>1. r = [stream |-> s, ok |-> FALSE, str |-> <<>>]
    BY <1>1, Zenon DEF Stream!ReadString
  <2>2. r.stream = s /\ r.ok = FALSE
    BY <2>1
  <2> QED
    BY <2>2, Zenon
<1>2. CASE Stream!Readable(s, Width)
  <2>1. s.position + Width <= s.length
    BY <1>2, Zenon DEF Stream!Readable
  <2>2. PICK b : b = Stream!Peek(s, Width)
    BY Zenon
  <2>3. /\ b \in [1..Width -> Nat] /\ b \in Seq(Nat) /\ Len(b) = Width
        /\ \A i \in 1..Width : b[i] = s.buffer[s.position + i]
    <3>1. Width \in Nat
      BY <1>0
    <3> QED
      BY <2>1, <2>2, <3>1, Peeked, ZenonT(60)
  <2>4. PICK n : n = Stream!Int32(b)
    BY Zenon
  <2>5. n \in Int
    BY <2>3, <2>4, Int32Type, Zenon
  <2>6. PICK t : t = Stream!Skip(s, Width)
    BY Zenon
  <2>7. Sound(t) /\ t.buffer = s.buffer /\ t.length = s.length /\ t.position = s.position + Width
    BY <1>0, <2>1, <2>6, Moved, ZenonT(60)
  <2>8. r = IF Stream!Readable(t, n)
              THEN [stream |-> Stream!Skip(t, n), ok |-> TRUE, str |-> Stream!Peek(t, n)]
              ELSE [stream |-> t, ok |-> FALSE, str |-> <<>>]
    BY <1>2, <2>2, <2>4, <2>6, Zenon DEF Stream!ReadString
  <2>9. CASE ~Stream!Readable(t, n)
    <3>1. r = [stream |-> t, ok |-> FALSE, str |-> <<>>]
      BY <2>8, <2>9, Zenon
    <3>2. r.stream = t /\ r.ok = FALSE
      BY <3>1
    <3> QED
      BY <2>7, <3>2, Zenon
  <2>10. CASE Stream!Readable(t, n)
    <3>1. n \in Nat /\ t.position + n <= t.length
      BY <2>5, <2>10 DEF Stream!Readable
    <3>2. PICK u : u = Stream!Skip(t, n)
      BY Zenon
    <3>3. Sound(u) /\ u.buffer = t.buffer /\ u.length = t.length /\ u.position = t.position + n
      BY <2>7, <3>1, <3>2, Moved, ZenonT(60)
    <3>4. PICK c : c = Stream!Peek(t, n)
      BY Zenon
    <3>5. /\ c \in Seq(Nat) /\ Len(c) = n
          /\ \A i \in 1..n : c[i] = t.buffer[t.position + i]
      BY <2>7, <3>1, <3>4, Peeked, Zenon
    <3>6. r = [stream |-> u, ok |-> TRUE, str |-> c]
      BY <2>8, <2>10, <3>2, <3>4, Zenon
    <3>7. r.stream = u /\ r.ok = TRUE /\ r.str = c
      BY <3>6
    <3>8. ASSUME NEW str \in Strings, Shows(s, str)
          PROVE  c = str /\ u.position = s.position + (Width + Len(str))
      <4>1. str \in Seq(Nat) /\ Len(str) \in Nat /\ 2 * Stream!Shifts(Len(str))[Width - 1] < Base
        <5>1. str \in Seq(0..(Base - 1)) /\ 2 * Stream!Shifts(Len(str))[Width - 1] < Base
          BY StreamAssumption, Zenon
        <5>2. str \in Seq(Nat) /\ Len(str) \in Nat
          BY <5>1, StreamAssumption
        <5> QED
          BY <5>1, <5>2, Zenon
      <4>2. \A i \in 1..Width : s.position + i <= s.length
        BY <1>0, <2>1
      <4>3. Stream!LE(Len(str)) \in [1..Width -> Nat]
        BY <4>1, LEType, Zenon
      <4>4. \A i \in 1..Width : b[i] = Stream!LE(Len(str))[i]
        BY <2>3, <3>8, <4>2, Zenon DEF Shows
      <4>5. b = Stream!LE(Len(str))
        BY <2>3, <4>3, <4>4
      <4>6. n = Len(str)
        <5>1. Stream!Int32(Stream!LE(Len(str))) = Len(str)
          BY <4>1, Int32OfLE, Zenon
        <5> QED
          BY <2>4, <4>5, <5>1, Zenon
      <4>7. \A i \in 1..n : s.position + Width + i <= s.length
        BY <1>0, <2>7, <3>1
      <4>8. \A i \in 1..n : c[i] = str[i]
        BY <2>7, <3>5, <3>8, <4>6, <4>7, Zenon DEF Shows
      <4>9. c = str
        <5>1. c \in Seq(Nat) /\ str \in Seq(Nat) /\ Len(c) = Len(str) /\ \A i \in 1..Len(c) : c[i] = str[i]
          BY <3>5, <4>1, <4>6, <4>8, Zenon
        <5> QED
          BY <5>1, SameSeq, Zenon
      <4>10. u.position = s.position + (Width + Len(str))
        <5>1. u.position = (s.position + Width) + Len(str)
          BY <2>7, <3>3, <4>6, Zenon
        <5> QED
          BY <1>0, <4>1, <5>1
      <4> QED
        BY <4>9, <4>10, Zenon
    <3> QED
      BY <2>1, <2>7, <3>3, <3>5, <3>7, <3>8, Zenon
  <2> QED
    BY <2>9, <2>10, Zenon
<1> QED
  BY <1>1, <1>2, Zenon

\* The receiver's buffer holds a stretch of the sender's.
StreamType ==
  /\ Sound(out) /\ out.position = out.length /\ Len(out.buffer) # 0
  /\ Sound(inp) /\ moved \in Nat /\ inp.length <= moved /\ moved <= out.length
  /\ wrote \in Seq(Strings) /\ strings \in Seq(Seq(Nat))
  /\ slipped \in BOOLEAN /\ stuck \in BOOLEAN
  /\ \A i \in 1..inp.length : inp.buffer[i] = out.buffer[(moved - inp.length) + i]
  /\ stuck => inp.buffer = <<>>

\* The strings w lie in the stream o one behind the other; the j-th ends at ends[j].
Layout(ends, o, w) ==
  /\ ends \in [0..Len(w) -> Nat] /\ ends[0] = 0 /\ ends[Len(w)] = o.length
  /\ \A j \in 0..Len(w) : ends[j] <= o.length
  /\ \A j \in 1..Len(w) : /\ ends[j] = ends[j - 1] + (Width + Len(w[j]))
                          /\ Holds(o.buffer, ends[j - 1], w[j])

\* A reader that returned the strings g stands behind the last of them.
InPlace(ends, s, m, w, g) ==
  /\ Len(g) <= Len(w) /\ (m - s.length) + s.position = ends[Len(g)]
  /\ \A i \in 1..Len(g) : g[i] = w[i]

StreamInv ==
  /\ StreamType
  /\ \E ends : Layout(ends, out, wrote) /\ (~slipped => InPlace(ends, inp, moved, wrote, strings))

\* The strings are sequences of bytes.
LEMMA StringLen ==
  ASSUME NEW str \in Strings
  PROVE  str \in Seq(Nat) /\ Len(str) \in Nat
<1>1. str \in Seq(0..(Base - 1)) /\ Base \in Nat \ {0}
  BY StreamAssumption, Zenon
<1> QED
  BY <1>1

\* A stream that is only written to.
AtEnd(o) == Sound(o) /\ o.position = o.length /\ Len(o.buffer) # 0

\* o has become p, and its strings w are the first of v.
Extends(o, w, ends, p, v) ==
  /\ AtEnd(p) /\ p.length >= o.length
  /\ \A i \in 1..o.length : p.buffer[i] = o.buffer[i]
  /\ v \in Seq(Strings) /\ Len(v) = Len(w) + 1 /\ \A i \in 1..Len(w) : v[i] = w[i]
  /\ \E e : Layout(e, p, v) /\ \A j \in 0..Len(w) : e[j] = ends[j]

\* A string written at the end keeps the earlier ones where they are.
LEMMA LayoutGrows ==
  ASSUME NEW o, AtEnd(o), NEW str \in Strings, NEW p, p = Stream!WriteString(o, str),
         NEW w \in Seq(Strings), NEW ends, Layout(ends, o, w),
         NEW v, v = Append(w, str)
  PROVE  Extends(o, w, ends, p, v)
<1>0. /\ o \in Buffer /\ o.length \in Nat /\ o.length <= Len(o.buffer) /\ Width \in Nat
      /\ Len(w) \in Nat /\ o.position = o.length /\ Len(o.buffer) # 0
  BY StreamAssumption DEF AtEnd, Sound, Buffer
<1>1. str \in Seq(Nat) /\ Len(str) \in Nat
  BY StringLen, Zenon
<1>2. /\ p \in Buffer /\ p.position = p.length /\ p.length = o.length + Width + Len(str)
      /\ p.length <= Len(p.buffer) /\ Len(p.buffer) # 0
      /\ \A i \in 1..o.length : p.buffer[i] = o.buffer[i]
      /\ Holds(p.buffer, o.length, str)
  <2>1. Put(o, str, p)
    BY <1>0, <1>1, StringWritten, Zenon
  <2> QED
    BY <2>1, Zenon DEF Put
<1>3. Sound(p) /\ p.length >= o.length
  BY <1>0, <1>1, <1>2, SMTT(60) DEF Sound
<1>4. /\ v \in Seq(Strings) /\ Len(v) = Len(w) + 1 /\ v[Len(w) + 1] = str
      /\ \A i \in 1..Len(w) : v[i] = w[i]
  BY <1>0
<1>5. /\ ends \in [0..Len(w) -> Nat] /\ ends[0] = 0 /\ ends[Len(w)] = o.length
      /\ \A j \in 0..Len(w) : ends[j] <= o.length
      /\ \A j \in 1..Len(w) : /\ ends[j] = ends[j - 1] + (Width + Len(w[j]))
                              /\ Holds(o.buffer, ends[j - 1], w[j])
  BY Zenon DEF Layout
<1> DEFINE e == [j \in 0..(Len(w) + 1) |-> IF j = Len(w) + 1 THEN p.length ELSE ends[j]]
<1>6. \A j \in 0..Len(w) : j \in 0..(Len(w) + 1) /\ j # Len(w) + 1
  BY <1>0
<1>7. \A j \in 0..Len(w) : e[j] = ends[j]
  BY <1>6, Zenon
<1>8. e[Len(w) + 1] = p.length
  BY <1>0
<1>9. p.length \in Nat
  BY <1>2, Zenon DEF Buffer
<1>10. \A j \in 0..(Len(w) + 1) : j = Len(w) + 1 \/ j \in 0..Len(w)
  BY <1>0
<1>11. e \in [0..Len(v) -> Nat]
  BY <1>4, <1>5, <1>9, <1>10, Zenon
<1> HIDE DEF e
<1>12. e[0] = 0
  <2>1. 0 \in 0..Len(w)
    BY <1>0
  <2> QED
    BY <1>5, <1>7, <2>1, Zenon
<1>13. \A j \in 0..Len(v) : e[j] <= p.length
  <2>1. \A j \in 0..Len(w) : ends[j] <= p.length
    <3> SUFFICES ASSUME NEW j \in 0..Len(w) PROVE ends[j] <= p.length
      BY Zenon
    <3>1. ends[j] \in Nat /\ ends[j] <= o.length
      BY <1>5, Zenon
    <3> QED
      BY <1>0, <1>3, <1>9, <3>1
  <2>2. p.length <= p.length
    BY <1>9
  <2> QED
    BY <1>4, <1>7, <1>8, <1>10, <2>1, <2>2, Zenon
<1>14. ASSUME NEW j \in 1..Len(v)
       PROVE  e[j] = e[j - 1] + (Width + Len(v[j])) /\ Holds(p.buffer, e[j - 1], v[j])
  <2>0. j - 1 \in 0..Len(w) /\ j \in Int
    BY <1>0, <1>4
  <2>1. e[j - 1] = ends[j - 1]
    BY <1>7, <2>0, Zenon
  <2>2. CASE j = Len(w) + 1
    <3>1. j - 1 = Len(w)
      BY <1>0, <2>2
    <3>2. e[j - 1] = o.length /\ e[j] = p.length /\ v[j] = str
      BY <1>4, <1>5, <1>8, <2>1, <2>2, <3>1, Zenon
    <3>3. p.length = o.length + (Width + Len(str))
      BY <1>0, <1>1, <1>2
    <3> QED
      BY <1>2, <3>2, <3>3, Zenon
  <2>3. CASE j # Len(w) + 1
    <3>1. j \in 1..Len(w) /\ j \in 0..Len(w)
      BY <1>0, <1>4, <2>3
    <3>2. e[j] = ends[j] /\ v[j] = w[j]
      BY <1>4, <1>7, <3>1, Zenon
    <3>3. ends[j] = ends[j - 1] + (Width + Len(w[j])) /\ Holds(o.buffer, ends[j - 1], w[j])
      BY <1>5, <3>1, Zenon
    <3>4. PICK a \in Nat : a = ends[j - 1]
      BY <1>5, <2>0, Zenon
    <3>5. Len(w[j]) \in Nat
      <4>1. w[j] \in Strings
        BY <3>1
      <4> QED
        BY <4>1, StringLen, Zenon
    <3>6. a + (Width + Len(w[j])) <= o.length
      BY <1>5, <3>1, <3>3, <3>4, Zenon
    <3>7. /\ \A i \in 1..Width : a + i \in 1..o.length
          /\ \A i \in 1..Len(w[j]) : a + Width + i \in 1..o.length
      <4>1. PICK l \in Nat : l = Len(w[j])
        BY <3>5, Zenon
      <4>2. PICK m \in Nat : m = o.length
        BY <1>0, Zenon
      <4>3. a + (Width + l) <= m /\ Width \in Nat
        BY <1>0, <3>6, <4>1, <4>2, Zenon
      <4>4. /\ \A i \in 1..Width : a + i \in 1..m
            /\ \A i \in 1..l : a + Width + i \in 1..m
        BY <4>3
      <4> QED
        BY <4>1, <4>2, <4>4, Zenon
    <3>8. Holds(p.buffer, a, w[j])
      BY <1>2, <3>3, <3>4, <3>7, Zenon DEF Holds
    <3> QED
      BY <2>1, <3>2, <3>3, <3>4, <3>8, Zenon
  <2> QED
    BY <2>2, <2>3, Zenon
<1>15. Layout(e, p, v)
  BY <1>4, <1>8, <1>11, <1>12, <1>13, <1>14, Zenon DEF Layout
<1> QED
  BY <1>2, <1>3, <1>4, <1>7, <1>15, Zenon DEF AtEnd, Extends

\* The empty streams.
LEMMA StreamInitInv == Stream!Init => StreamInv
<1> SUFFICES ASSUME Stream!Init PROVE StreamInv
  BY Zenon
<1>1. /\ out = Stream!Stream(1) /\ moved = 0 /\ wrote = <<>> /\ strings = <<>>
      /\ slipped = FALSE /\ stuck = FALSE
  BY Zenon DEF Stream!Init
<1>2. PICK c \in Nat : inp = Stream!Stream(c)
  BY StreamAssumption, Zenon DEF Stream!Init
<1>3. ASSUME NEW k \in Nat, NEW s, s = Stream!Stream(k)
      PROVE  Sound(s) /\ Len(s.buffer) = k /\ s.position = 0 /\ s.length = 0
  <2>1. PICK b : b = [i \in 1..k |-> 0]
    BY Zenon
  <2>2. b \in Seq(Nat) /\ Len(b) = k
    <3>1. b \in [1..k -> Nat]
      BY <2>1
    <3> QED
      BY <3>1, FcnSeq, Zenon
  <2>3. s = [buffer |-> b, position |-> 0, length |-> 0]
    BY <1>3, <2>1, Zenon DEF Stream!Stream
  <2>4. s.buffer = b /\ s.position = 0 /\ s.length = 0
    BY <2>3
  <2>5. s \in Buffer
    BY <2>2, <2>3 DEF Buffer
  <2> QED
    BY <2>2, <2>4, <2>5 DEF Sound
<1>4. Sound(out) /\ Len(out.buffer) = 1 /\ out.position = 0 /\ out.length = 0
  <2>1. 1 \in Nat
    OBVIOUS
  <2> QED
    BY <1>1, <1>3, <2>1, Zenon
<1>5. Sound(inp) /\ inp.position = 0 /\ inp.length = 0
  BY <1>2, <1>3, Zenon
<1>6. StreamType
  <2>1. \A i \in 1..inp.length : FALSE
    BY <1>5
  <2>2. /\ Len(out.buffer) # 0 /\ out.position = out.length
        /\ moved \in Nat /\ inp.length <= moved /\ moved <= out.length
    BY <1>1, <1>4, <1>5
  <2>3. wrote \in Seq(Strings)
    BY <1>1
  <2>4. strings \in Seq(Seq(Nat))
    BY <1>1
  <2> QED
    BY <1>1, <1>4, <1>5, <2>1, <2>2, <2>3, <2>4, Zenon DEF StreamType
<1> DEFINE ends == [j \in 0..0 |-> 0]
<1>7. ends \in [0..0 -> Nat] /\ ends[0] = 0
  OBVIOUS
<1> HIDE DEF ends
<1>8. Len(wrote) = 0 /\ Len(strings) = 0
  BY <1>1
<1>9. Layout(ends, out, wrote)
  <2>1. \A j \in 1..0 : FALSE
    OBVIOUS
  <2>2. \A j \in 0..0 : ends[j] <= 0
    BY <1>7
  <2> QED
    BY <1>4, <1>7, <1>8, <2>1, <2>2, Zenon DEF Layout
<1>10. InPlace(ends, inp, moved, wrote, strings)
  <2>1. \A j \in 1..0 : FALSE
    OBVIOUS
  <2>2. (moved - inp.length) + inp.position = 0
    BY <1>1, <1>5
  <2>3. Len(strings) <= Len(wrote)
    BY <1>8
  <2> QED
    BY <1>7, <1>8, <2>1, <2>2, <2>3, Zenon DEF InPlace
<1> QED
  BY <1>6, <1>9, <1>10, Zenon DEF StreamInv

\* WriteString on the sender's side.
LEMMA WriteKeepsInv ==
  ASSUME StreamInv, NEW str \in Strings, Stream!Write(str)
  PROVE  StreamInv'
<1>1. /\ Sound(out) /\ out.position = out.length /\ Len(out.buffer) # 0
      /\ Sound(inp) /\ moved \in Nat /\ inp.length <= moved /\ moved <= out.length
      /\ wrote \in Seq(Strings) /\ strings \in Seq(Seq(Nat))
      /\ \A i \in 1..inp.length : inp.buffer[i] = out.buffer[(moved - inp.length) + i]
  BY Zenon DEF StreamInv, StreamType
<1>2. /\ out' = Stream!WriteString(out, str) /\ wrote' = Append(wrote, str)
      /\ inp' = inp /\ moved' = moved /\ strings' = strings /\ slipped' = slipped /\ stuck' = stuck
  BY Zenon DEF Stream!Write
<1>3. PICK ends : Layout(ends, out, wrote) /\ (~slipped => InPlace(ends, inp, moved, wrote, strings))
  BY DEF StreamInv
<1>4. /\ AtEnd(out') /\ out'.length >= out.length
      /\ \A i \in 1..out.length : out'.buffer[i] = out.buffer[i]
      /\ wrote' \in Seq(Strings) /\ Len(wrote') = Len(wrote) + 1
      /\ \A i \in 1..Len(wrote) : wrote'[i] = wrote[i]
      /\ \E e : Layout(e, out', wrote') /\ \A j \in 0..Len(wrote) : e[j] = ends[j]
  <2>1. AtEnd(out)
    BY <1>1, Zenon DEF AtEnd
  <2>2. wrote \in Seq(Strings) /\ Layout(ends, out, wrote)
    BY <1>1, <1>3
  <2>3. Extends(out, wrote, ends, out', wrote')
    BY <1>2, <2>1, <2>2, LayoutGrows, Zenon
  <2> QED
    BY <2>3, Zenon DEF Extends
<1>5. PICK e : Layout(e, out', wrote') /\ \A j \in 0..Len(wrote) : e[j] = ends[j]
  BY <1>4, Zenon
<1>6. inp.length \in Nat /\ out.length \in Nat /\ out'.length \in Nat
  BY <1>1, <1>4, Zenon DEF AtEnd, Sound, Buffer
<1>7. \A i \in 1..inp.length : (moved - inp.length) + i \in 1..out.length
  <2>1. moved \in Nat /\ inp.length <= moved /\ moved <= out.length
    BY <1>1, Zenon
  <2> QED
    BY <1>6, <2>1
<1>8. \A i \in 1..inp.length : inp.buffer[i] = out'.buffer[(moved - inp.length) + i]
  BY <1>1, <1>4, <1>7, Zenon
<1>9. moved <= out'.length
  BY <1>1, <1>4, <1>6
<1>10. StreamType'
  <2>1. slipped' \in BOOLEAN /\ stuck' \in BOOLEAN /\ (stuck' => inp'.buffer = <<>>)
    BY <1>2 DEF StreamInv, StreamType
  <2> QED
    BY <1>1, <1>2, <1>4, <1>8, <1>9, <2>1, ZenonT(60) DEF AtEnd, StreamType
<1>11. ASSUME InPlace(ends, inp, moved, wrote, strings)
       PROVE  InPlace(e, inp, moved, wrote', strings)
  <2>1. /\ Len(strings) <= Len(wrote) /\ (moved - inp.length) + inp.position = ends[Len(strings)]
        /\ \A i \in 1..Len(strings) : strings[i] = wrote[i]
    BY <1>11, Zenon DEF InPlace
  <2>2. Len(strings) \in 0..Len(wrote) /\ Len(strings) <= Len(wrote) + 1
        /\ \A i \in 1..Len(strings) : i \in 1..Len(wrote)
    BY <1>1, <2>1
  <2> QED
    BY <1>4, <1>5, <2>1, <2>2, Zenon DEF InPlace
<1>12. ~slipped' => InPlace(e, inp', moved', wrote', strings')
  BY <1>2, <1>3, <1>11
<1> QED
  BY <1>5, <1>10, <1>12 DEF StreamInv

\* The next n bytes reach the receiver.
LEMMA ArriveKeepsInv ==
  ASSUME StreamInv, NEW n \in 1..out.length, Stream!Arrive(n)
  PROVE  StreamInv'
<1>1. /\ Sound(out) /\ out.position = out.length /\ Len(out.buffer) # 0
      /\ Sound(inp) /\ moved \in Nat /\ inp.length <= moved /\ moved <= out.length
      /\ wrote \in Seq(Strings) /\ strings \in Seq(Seq(Nat))
      /\ \A i \in 1..inp.length : inp.buffer[i] = out.buffer[(moved - inp.length) + i]
  BY Zenon DEF StreamInv, StreamType
<1>2. out' = out /\ wrote' = wrote /\ strings' = strings /\ slipped' = slipped /\ moved + n <= out.length
  BY Zenon DEF Stream!Arrive
<1>3. PICK ends : Layout(ends, out, wrote) /\ (~slipped => InPlace(ends, inp, moved, wrote, strings))
  BY DEF StreamInv
<1>4. /\ inp \in Buffer /\ inp.length \in Nat /\ inp.position \in Nat /\ out.length \in Nat /\ n \in Nat
      /\ inp.buffer \in Seq(Nat) /\ out.buffer \in Seq(Nat)
      /\ inp.position <= inp.length /\ inp.length <= Len(inp.buffer) /\ out.length <= Len(out.buffer)
  BY <1>1 DEF Sound, Buffer
<1>5. CASE Stream!Loops(inp, inp.length + n)
  <2>1. stuck' = TRUE /\ inp' = inp /\ moved' = moved
    BY <1>5, Zenon DEF Stream!Arrive
  <2>2. inp.buffer = <<>>
    <3>1. Len(inp.buffer) = 0
      BY <1>5, Zenon DEF Stream!Loops
    <3> QED
      BY <1>4, <3>1
  <2>3. StreamType'
    BY <1>1, <1>2, <2>1, <2>2, ZenonT(60) DEF StreamInv, StreamType
  <2> QED
    BY <1>2, <1>3, <2>1, <2>3 DEF StreamInv
<1>6. CASE ~Stream!Loops(inp, inp.length + n)
  <2>1. /\ inp' = Stream!AppendBytes(inp, SubSeq(Stream!Bytes(out), moved + 1, moved + n))
        /\ moved' = moved + n /\ stuck' = stuck
    BY <1>6, Zenon DEF Stream!Arrive
  <2>2. PICK y : y = Stream!Bytes(out)
    BY Zenon
  <2>3. y \in Seq(Nat) /\ Len(y) = out.length /\ \A i \in 1..out.length : y[i] = out.buffer[i]
    <3>1. y = SubSeq(out.buffer, 1, out.length)
      BY <2>2, Zenon DEF Stream!Bytes
    <3>2. PICK o, l : o = out.buffer /\ l = out.length
      BY Zenon
    <3>3. o \in Seq(Nat) /\ l \in Nat /\ l <= Len(o) /\ y = SubSeq(o, 1, l)
      BY <1>4, <3>1, <3>2, Zenon
    <3>4. y \in Seq(Nat) /\ Len(y) = l /\ \A i \in 1..l : y[i] = o[i]
      BY <3>3, Prefix, ZenonT(60)
    <3> QED
      BY <3>2, <3>4, Zenon
  <2>4. PICK d : d = SubSeq(y, moved + 1, moved + n)
    BY Zenon
  <2>5. d \in Seq(Nat) /\ Len(d) = n /\ \A i \in 1..n : d[i] = y[moved + i]
    <3>1. moved + n <= Len(y)
      BY <1>2, <2>3, Zenon
    <3> QED
      <4>1. y \in Seq(Nat) /\ moved \in Nat /\ n \in Nat
        BY <1>1, <1>4, <2>3, Zenon
      <4>2. PICK m \in Nat : m = moved
        BY <4>1, Zenon
      <4>3. m + n <= Len(y) /\ d = SubSeq(y, m + 1, m + n)
        BY <2>4, <3>1, <4>2, Zenon
      <4>4. d \in Seq(Nat) /\ Len(d) = n /\ \A i \in 1..n : d[i] = y[m + i]
        BY <4>1, <4>3, Sub, ZenonT(60)
      <4> QED
        BY <4>2, <4>4, Zenon
  <2>6. \A i \in 1..n : d[i] = out.buffer[moved + i]
    <3>1. \A i \in 1..n : moved + i \in 1..out.length
      <4>1. moved \in Nat /\ n \in Nat /\ out.length \in Nat /\ moved + n <= out.length
        BY <1>1, <1>2, <1>4, Zenon
      <4> QED
        BY <4>1
    <3> QED
      BY <2>3, <2>5, <3>1, Zenon
  <2>7. ~Stream!Loops(inp, inp.length + Len(d)) /\ inp' = Stream!AppendBytes(inp, d) /\ d \in Seq(Nat)
    BY <1>6, <2>1, <2>2, <2>4, <2>5, Zenon
  <2>8. /\ inp' \in Buffer /\ inp'.position = inp.position /\ inp'.length = inp.length + Len(d)
        /\ inp'.length <= Len(inp'.buffer)
        /\ \A i \in 1..inp.length : inp'.buffer[i] = inp.buffer[i]
        /\ \A i \in 1..Len(d) : inp'.buffer[inp.length + i] = d[i]
    <3>1. PICK s, t : s = inp /\ t = inp'
      BY Zenon
    <3>2. /\ s \in Buffer /\ s.length <= Len(s.buffer) /\ d \in Seq(Nat)
          /\ ~Stream!Loops(s, s.length + Len(d)) /\ t = Stream!AppendBytes(s, d)
      BY <1>4, <2>7, <3>1, Zenon
    <3>3. /\ t \in Buffer /\ t.position = s.position /\ t.length = s.length + Len(d)
          /\ t.length <= Len(t.buffer)
          /\ \A i \in 1..s.length : t.buffer[i] = s.buffer[i]
          /\ \A i \in 1..Len(d) : t.buffer[s.length + i] = d[i]
      <4>1. Grown(s, d, t)
        BY <3>2, Appended, Zenon
      <4> QED
        BY <4>1, Zenon DEF Grown
    <3> QED
      BY <3>1, <3>3, Zenon
  <2>9. inp'.length = inp.length + n
    BY <2>5, <2>8, Zenon
  <2>10. Sound(inp')
    BY <1>4, <2>8, <2>9 DEF Sound
  <2>11. moved' - inp'.length = moved - inp.length
    BY <1>1, <1>4, <2>1, <2>9, SMTT(60)
  <2>12. ASSUME NEW i \in 1..inp'.length
         PROVE  inp'.buffer[i] = out.buffer[(moved - inp.length) + i]
    <3>1. CASE i \in 1..inp.length
      BY <1>1, <2>8, <3>1, Zenon
    <3>2. CASE i \notin 1..inp.length
      <4>1. /\ i - inp.length \in 1..n /\ inp.length + (i - inp.length) = i
            /\ moved + (i - inp.length) = (moved - inp.length) + i
        <5>1. i \in 1..(inp.length + n)
          BY <2>9, <2>12, Zenon
        <5> QED
          <6>1. moved \in Nat /\ inp.length \in Nat /\ n \in Nat
            BY <1>1, <1>4, Zenon
          <6> QED
            BY <3>2, <5>1, <6>1
      <4> QED
        BY <2>5, <2>6, <2>8, <4>1, ZenonT(60)
    <3> QED
      BY <3>1, <3>2, Zenon
  <2>13. moved' \in Nat /\ inp'.length <= moved' /\ moved' <= out.length
    <3>1. /\ moved \in Nat /\ n \in Nat /\ inp.length \in Nat /\ inp.length <= moved
          /\ moved + n <= out.length /\ moved' = moved + n /\ inp'.length = inp.length + n
      BY <1>1, <1>2, <1>4, <2>1, <2>9, Zenon
    <3> QED
      BY <3>1
  <2>14. stuck' \in BOOLEAN /\ ~stuck /\ slipped \in BOOLEAN
    BY <2>1, ZenonT(60) DEF StreamInv, StreamType, Stream!Arrive
  <2>15. StreamType'
    BY <1>1, <1>2, <2>1, <2>10, <2>11, <2>12, <2>13, <2>14, ZenonT(60) DEF StreamType
  <2>16. ASSUME InPlace(ends, inp, moved, wrote, strings)
         PROVE  InPlace(ends, inp', moved', wrote, strings)
    BY <2>8, <2>11, <2>16, Zenon DEF InPlace
  <2> QED
    BY <1>2, <1>3, <2>15, <2>16 DEF StreamInv
<1> QED
  BY <1>5, <1>6, Zenon

\* The bytes at the position of a reader in place are those of the next string.
LEMMA NextShown ==
  ASSUME StreamType, NEW ends, Layout(ends, out, wrote), InPlace(ends, inp, moved, wrote, strings),
         inp.position + Width <= inp.length
  PROVE  /\ Len(strings) + 1 \in 1..Len(wrote)
         /\ Shows(inp, wrote[Len(strings) + 1])
         /\ ends[Len(strings) + 1] = ends[Len(strings)] + (Width + Len(wrote[Len(strings) + 1]))
<1>1. /\ Sound(inp) /\ Sound(out) /\ moved \in Nat /\ inp.length <= moved /\ moved <= out.length
      /\ wrote \in Seq(Strings) /\ strings \in Seq(Seq(Nat))
      /\ \A i \in 1..inp.length : inp.buffer[i] = out.buffer[(moved - inp.length) + i]
  BY Zenon DEF StreamType
<1>2. /\ inp.length \in Nat /\ inp.position \in Nat /\ out.length \in Nat
      /\ Len(wrote) \in Nat /\ Len(strings) \in Nat /\ Width \in Nat \ {0}
  <2>1. Len(wrote) \in Nat /\ Len(strings) \in Nat
    BY <1>1
  <2> QED
    BY <1>1, <2>1, StreamAssumption, Zenon DEF Sound, Buffer
<1>3. /\ ends \in [0..Len(wrote) -> Nat] /\ ends[Len(wrote)] = out.length
      /\ \A j \in 1..Len(wrote) : /\ ends[j] = ends[j - 1] + (Width + Len(wrote[j]))
                                  /\ Holds(out.buffer, ends[j - 1], wrote[j])
  BY Zenon DEF Layout
<1>4. Len(strings) <= Len(wrote) /\ (moved - inp.length) + inp.position = ends[Len(strings)]
  BY Zenon DEF InPlace
<1>5. ends[Len(strings)] < out.length
  <2>1. (moved - inp.length) + inp.position < out.length
    <3>1. /\ moved \in Nat /\ inp.length \in Nat /\ inp.position \in Nat /\ out.length \in Nat
          /\ Width \in Nat \ {0} /\ moved <= out.length /\ inp.position + Width <= inp.length
      BY <1>1, <1>2, Zenon
    <3> QED
      BY <3>1
  <2> QED
    BY <1>4, <2>1, Zenon
<1>6. Len(strings) # Len(wrote)
  <2>1. ~(out.length < out.length)
    BY <1>2
  <2> QED
    BY <1>3, <1>5, <2>1, Zenon
<1>7. PICK k : k = Len(strings) + 1
  BY Zenon
<1>8. k \in 1..Len(wrote) /\ k - 1 = Len(strings)
  BY <1>2, <1>4, <1>6, <1>7
<1>9. PICK a : a = ends[Len(strings)]
  BY Zenon
<1>10. a \in Nat
  <2>1. Len(strings) \in 0..Len(wrote)
    BY <1>2, <1>4
  <2> QED
    BY <1>3, <1>9, <2>1, Zenon
<1>11. ends[k] = a + (Width + Len(wrote[k])) /\ Holds(out.buffer, a, wrote[k])
  BY <1>3, <1>8, <1>9, Zenon
<1>12. a = (moved - inp.length) + inp.position
  BY <1>4, <1>9, Zenon
<1>13. ASSUME NEW i \in 1..Width, inp.position + i <= inp.length
       PROVE  inp.buffer[inp.position + i] = Stream!LE(Len(wrote[k]))[i]
  <2>1. /\ inp.position + i \in 1..inp.length
        /\ (moved - inp.length) + (inp.position + i) = ((moved - inp.length) + inp.position) + i
    <3>1. moved \in Nat /\ inp.length \in Nat /\ inp.position \in Nat /\ Width \in Nat
      BY <1>1, <1>2, Zenon
    <3> QED
      BY <1>13, <3>1
  <2>2. inp.buffer[inp.position + i] = out.buffer[a + i]
    BY <1>1, <1>12, <2>1, Zenon
  <2> QED
    BY <1>11, <2>2, Zenon DEF Holds
<1>14. ASSUME NEW i \in 1..Len(wrote[k]), inp.position + Width + i <= inp.length
       PROVE  inp.buffer[inp.position + Width + i] = wrote[k][i]
  <2>0. Len(wrote[k]) \in Nat
    <3>1. wrote[k] \in Strings
      BY <1>1, <1>8
    <3> QED
      BY <3>1, StringLen, Zenon
  <2>1. /\ inp.position + Width + i \in 1..inp.length
        /\ (moved - inp.length) + (inp.position + Width + i)
             = ((moved - inp.length) + inp.position) + Width + i
    <3>1. moved \in Nat /\ i \in Nat /\ i >= 1
      BY <1>1, <2>0
    <3>2. PICK p \in Nat, l \in Nat, m \in Nat : p = inp.position /\ l = inp.length /\ m = moved
      BY <1>2, <3>1, Zenon
    <3>3. p + Width + i <= l
      BY <1>14, <3>2, Zenon
    <3>4. p + Width + i \in 1..l /\ (m - l) + (p + Width + i) = ((m - l) + p) + Width + i
      BY <1>2, <3>1, <3>3
    <3> QED
      BY <3>2, <3>4, Zenon
  <2>2. inp.buffer[inp.position + Width + i] = out.buffer[a + Width + i]
    BY <1>1, <1>12, <2>1, Zenon
  <2> QED
    BY <1>11, <2>2, Zenon DEF Holds
<1>15. Shows(inp, wrote[k])
  BY <1>13, <1>14, Zenon DEF Shows
<1> QED
  BY <1>7, <1>8, <1>9, <1>11, <1>15, Zenon

\* ReadString, and the caller's way back, leave the bytes alone.
LEMMA SameBytes ==
  ASSUME StreamType, Sound(inp'), inp'.buffer = inp.buffer, inp'.length = inp.length,
         out' = out, moved' = moved, wrote' = wrote, stuck' = stuck,
         strings' \in Seq(Seq(Nat)), slipped' \in BOOLEAN
  PROVE  StreamType'
BY DEF StreamType

\* ReadString on the receiver's side, with or without success.
LEMMA ReadKeepsInv ==
  ASSUME StreamInv, Stream!Read
  PROVE  StreamInv'
<1>1. /\ Sound(inp) /\ wrote \in Seq(Strings) /\ strings \in Seq(Seq(Nat)) /\ moved \in Nat
      /\ StreamType /\ slipped \in BOOLEAN
  BY Zenon DEF StreamInv, StreamType
<1>2. out' = out /\ moved' = moved /\ wrote' = wrote /\ stuck' = stuck
  BY Zenon DEF Stream!Read
<1>3. PICK ends : Layout(ends, out, wrote) /\ (~slipped => InPlace(ends, inp, moved, wrote, strings))
  BY DEF StreamInv
<1>4. PICK r : r = Stream!ReadString(inp)
  BY Zenon
<1>5. /\ Sound(r.stream) /\ r.stream.buffer = inp.buffer /\ r.stream.length = inp.length
      /\ r.ok \in BOOLEAN
      /\ r.ok => r.str \in Seq(Nat) /\ inp.position + Width <= inp.length
      /\ \A str \in Strings :
           r.ok /\ Shows(inp, str) => /\ r.str = str
                                      /\ r.stream.position = inp.position + (Width + Len(str))
  BY <1>1, <1>4, StringRead
<1>6. IF r.ok
        THEN inp' = r.stream /\ strings' = Append(strings, r.str) /\ slipped' = slipped
        ELSE /\ inp' \in {r.stream, [r.stream EXCEPT !.position = inp.position]}
             /\ slipped' = (slipped \/ inp'.position # inp.position)
             /\ strings' = strings
  BY <1>4 DEF Stream!Read
<1>7. CASE r.ok
  <2>1. inp' = r.stream /\ strings' = Append(strings, r.str) /\ slipped' = slipped
    BY <1>6, <1>7
  <2>2. r.str \in Seq(Nat) /\ inp.position + Width <= inp.length
    BY <1>5, <1>7
  <2>3. /\ strings' \in Seq(Seq(Nat)) /\ Len(strings') = Len(strings) + 1
        /\ strings'[Len(strings) + 1] = r.str /\ \A i \in 1..Len(strings) : strings'[i] = strings[i]
    BY <1>1, <2>1, <2>2
  <2>4. Sound(inp') /\ inp'.buffer = inp.buffer /\ inp'.length = inp.length
    BY <1>5, <2>1, Zenon
  <2>5. StreamType'
    <3>1. slipped' \in BOOLEAN
      BY <1>1, <2>1
    <3> QED
      BY <1>1, <1>2, <2>3, <2>4, <3>1, SameBytes, Zenon
  <2>6. ASSUME InPlace(ends, inp, moved, wrote, strings)
        PROVE  InPlace(ends, inp', moved, wrote, strings')
    <3>1. /\ Len(strings) + 1 \in 1..Len(wrote)
          /\ Shows(inp, wrote[Len(strings) + 1])
          /\ ends[Len(strings) + 1] = ends[Len(strings)] + (Width + Len(wrote[Len(strings) + 1]))
      <4>1. Layout(ends, out, wrote)
        BY <1>3
      <4> QED
        BY <1>1, <2>2, <2>6, <4>1, NextShown, Zenon
    <3>2. wrote[Len(strings) + 1] \in Strings
      BY <1>1, <3>1
    <3>3. /\ r.str = wrote[Len(strings) + 1]
          /\ r.stream.position = inp.position + (Width + Len(wrote[Len(strings) + 1]))
      BY <1>5, <1>7, <3>1, <3>2
    <3>4. /\ (moved - inp.length) + inp.position = ends[Len(strings)]
          /\ \A i \in 1..Len(strings) : strings[i] = wrote[i]
      BY <2>6, Zenon DEF InPlace
    <3>5. Len(strings) \in Nat /\ Len(wrote) \in Nat /\ inp.length \in Nat /\ inp.position \in Nat
          /\ Len(wrote[Len(strings) + 1]) \in Nat /\ Width \in Nat
      <4>1. Len(wrote[Len(strings) + 1]) \in Nat
        BY <3>2, StringLen, Zenon
      <4> QED
        BY <1>1, <4>1, StreamAssumption, SMTT(60) DEF Sound, Buffer
    <3>6. (moved - inp'.length) + inp'.position = ends[Len(strings) + 1]
      <4>1. PICK c \in Nat : c = Len(wrote[Len(strings) + 1])
        BY <3>5, Zenon
      <4>2. (moved - inp.length) + (inp.position + (Width + c)) = ((moved - inp.length) + inp.position) + (Width + c)
        BY <1>1, <3>5, SMTT(60)
      <4> QED
        BY <2>1, <2>4, <3>1, <3>3, <3>4, <4>1, <4>2, Zenon
    <3>7. ASSUME NEW i \in 1..(Len(strings) + 1) PROVE strings'[i] = wrote[i]
      <4>1. i = Len(strings) + 1 \/ i \in 1..Len(strings)
        BY <3>5
      <4> QED
        BY <2>3, <3>3, <3>4, <4>1, Zenon
    <3>8. Len(strings) + 1 <= Len(wrote)
      BY <3>1, <3>5
    <3> QED
      BY <2>3, <3>6, <3>7, <3>8, Zenon DEF InPlace
  <2>7. ~slipped' => InPlace(ends, inp', moved', wrote', strings')
    BY <1>2, <1>3, <2>1, <2>6
  <2> QED
    BY <1>2, <1>3, <2>5, <2>7 DEF StreamInv
<1>8. CASE ~r.ok
  <2>1. /\ inp' \in {r.stream, [r.stream EXCEPT !.position = inp.position]}
        /\ slipped' = (slipped \/ inp'.position # inp.position)
        /\ strings' = strings
    BY <1>6, <1>8
  <2>2. Sound(inp') /\ inp'.buffer = inp.buffer /\ inp'.length = inp.length
    <3>1. CASE inp' = r.stream
      BY <1>5, <3>1, Zenon
    <3>2. CASE inp' = [r.stream EXCEPT !.position = inp.position]
      <4>1. r.stream \in Buffer
        BY <1>5, Zenon DEF Sound
      <4>2. inp'.position = inp.position /\ inp'.length = r.stream.length /\ inp'.buffer = r.stream.buffer
        BY <3>2, <4>1, Zenon DEF Buffer
      <4>3. inp' \in Buffer
        <5>1. inp.position \in Nat
          BY <1>1, Zenon DEF Sound, Buffer
        <5> QED
          BY <3>2, <4>1, <5>1, Zenon DEF Buffer
      <4> QED
        BY <1>1, <1>5, <4>2, <4>3, Zenon DEF Sound
    <3> QED
      BY <2>1, <3>1, <3>2, Zenon
  <2>3. StreamType'
    <3>1. slipped' \in BOOLEAN
      BY <2>1
    <3>2. strings' \in Seq(Seq(Nat))
      BY <1>1, <2>1, Zenon
    <3> QED
      BY <1>1, <1>2, <2>2, <3>1, <3>2, SameBytes, Zenon
  <2>4. ASSUME InPlace(ends, inp, moved, wrote, strings), inp'.position = inp.position
        PROVE  InPlace(ends, inp', moved, wrote, strings)
    BY <2>2, <2>4, Zenon DEF InPlace
  <2>5. ~slipped' => InPlace(ends, inp', moved', wrote', strings')
    <3>1. ~slipped' => ~slipped /\ inp'.position = inp.position
      BY <2>1, Zenon
    <3> QED
      BY <1>2, <1>3, <2>1, <2>4, <3>1
  <2> QED
    BY <1>2, <1>3, <2>3, <2>5 DEF StreamInv
<1> QED
  BY <1>7, <1>8

\* Reset of a receiver that has read everything.
LEMMA DrainKeepsInv ==
  ASSUME StreamInv, Stream!Drain
  PROVE  StreamInv'
<1>1. Sound(inp) /\ moved \in Nat
  BY Zenon DEF StreamInv, StreamType
<1>2. /\ inp.position = inp.length /\ inp' = Stream!Reset(inp)
      /\ out' = out /\ moved' = moved /\ wrote' = wrote /\ strings' = strings
      /\ slipped' = slipped /\ stuck' = stuck
  BY Zenon DEF Stream!Drain
<1>3. PICK ends : Layout(ends, out, wrote) /\ (~slipped => InPlace(ends, inp, moved, wrote, strings))
  BY DEF StreamInv
<1>4. inp \in Buffer /\ inp.length \in Nat /\ inp.position \in Nat /\ Len(inp.buffer) \in Nat
  BY <1>1 DEF Sound, Buffer
<1>5. /\ inp'.position = 0 /\ inp'.length = 0 /\ inp'.buffer = inp.buffer /\ inp' \in Buffer
  BY <1>2, <1>4, Zenon DEF Stream!Reset, Buffer
<1>6. Sound(inp')
  BY <1>4, <1>5 DEF Sound
<1>7. StreamType'
  <2>1. \A i \in 1..inp'.length : FALSE
    BY <1>5
  <2>2. inp'.length <= moved
    BY <1>1, <1>5
  <2> QED
    BY <1>2, <1>5, <1>6, <2>1, <2>2, ZenonT(60) DEF StreamInv, StreamType
<1>8. (moved - inp'.length) + inp'.position = (moved - inp.length) + inp.position
  BY <1>1, <1>2, <1>4, <1>5
<1>9. ASSUME InPlace(ends, inp, moved, wrote, strings)
      PROVE  InPlace(ends, inp', moved, wrote, strings)
  BY <1>8, <1>9, Zenon DEF InPlace
<1> QED
  BY <1>2, <1>3, <1>7, <1>9, ZenonT(60) DEF StreamInv

\* Every step keeps StreamInv.
LEMMA StreamKeepsInv == StreamInv /\ [Stream!Next]_(Stream!vars) => StreamInv'
<1> SUFFICES ASSUME StreamInv, [Stream!Next]_(Stream!vars) PROVE StreamInv'
  BY Zenon
<1>1. CASE \E str \in Strings : Stream!Write(str)
  BY <1>1, WriteKeepsInv, Zenon
<1>2. CASE \E n \in 1..out.length : Stream!Arrive(n)
  BY <1>2, ArriveKeepsInv, Zenon
<1>3. CASE Stream!Read
  BY <1>3, ReadKeepsInv, Zenon
<1>4. CASE Stream!Drain
  BY <1>4, DrainKeepsInv, Zenon
<1>5. CASE UNCHANGED Stream!vars
  <2>1. /\ out' = out /\ inp' = inp /\ moved' = moved /\ wrote' = wrote /\ strings' = strings
        /\ slipped' = slipped /\ stuck' = stuck
    BY <1>5, Zenon DEF Stream!vars
  <2> QED
    BY <2>1, Zenon DEF StreamInv, StreamType, Sound, Buffer
<1> QED
  BY <1>1, <1>2, <1>3, <1>4, <1>5, Zenon DEF Stream!Next

\* The invariant implies the property.
LEMMA StreamInvInOrder == StreamInv => StringsInOrder
<1> SUFFICES ASSUME StreamInv PROVE StringsInOrder
  BY Zenon
<1>1. PICK ends : ~slipped => InPlace(ends, inp, moved, wrote, strings)
  BY DEF StreamInv
<1>2. ASSUME InPlace(ends, inp, moved, wrote, strings)
      PROVE  Len(strings) <= Len(wrote) /\ \A i \in DOMAIN strings : strings[i] = wrote[i]
  <2>1. DOMAIN strings = 1..Len(strings)
    <3>1. strings \in Seq(Seq(Nat))
      BY Zenon DEF StreamInv, StreamType
    <3> QED
      BY <3>1
  <2> QED
    BY <1>2, <2>1, Zenon DEF InPlace
<1>3. \A s \in {out, inp} : 0 <= s.position /\ s.position <= s.length /\ s.length <= Len(s.buffer)
  <2>1. ASSUME NEW s, Sound(s)
        PROVE  0 <= s.position /\ s.position <= s.length /\ s.length <= Len(s.buffer)
    BY <2>1 DEF Sound, Buffer
  <2>2. Sound(out) /\ Sound(inp)
    BY Zenon DEF StreamInv, StreamType
  <2> QED
    BY <2>1, <2>2, Zenon
<1>4. stuck => inp.buffer = <<>>
  BY DEF StreamInv, StreamType
<1> QED
  BY <1>1, <1>2, <1>3, <1>4 DEF StringsInOrder, Stream!StringsInOrder

\* The strings read from a NetworkStream are the strings written, in order and
\* whole, whatever the pieces the bytes arrive in and however the buffers grow
\* or are drained, for every byte base, int32 width and frame limit and all
\* strings whose length fits an int32; no read or write leaves the buffer.
THEOREM StringsInOrderHolds == ServicesSpec => []StringsInOrder
BY StreamKeepsInv, StreamRuns, StreamInitInv, StreamInvInOrder, PTL DEF Stream!Spec

================================================================================
