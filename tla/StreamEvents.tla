----------------------------- MODULE StreamEvents -----------------------------
(***************************************************************************)
(* The event side of NetworkStream (network/network_stream.go): Add,       *)
(* AddError and CloseStream called by several goroutines, and the          *)
(* goroutines that Listen starts. Add and AddError look at closed and then *)
(* send; CloseStream sets closed and then closes the three channels one by *)
(* one. Add sends a copy of its data: what it first appends to the         *)
(* stream's buffer, without a lock, is NetworkStream's and not kept here.  *)
(***************************************************************************)
EXTENDS Naturals, Sequences

CONSTANTS
  Adders,     \* goroutines that call Add
  Reporters,  \* goroutines that call AddError
  Closers,    \* goroutines that call CloseStream
  Listeners,  \* goroutines started by Listen
  Chunks,     \* data passed to Add
  Capacity,   \* of ch (16 in the code); errCh has room for one
  MaxAdds     \* bound: no Add begins after so many sends

VARIABLES
  pc,        \* where each goroutine is
  arg,       \* the chunk an Add carries
  closed,    \* closed
  shut,      \* how many of ch, errCh, doneCh are closed, in this order
  ch, errCh, \* contents of the channels; errCh: number of errors
  sent,      \* history: chunks sent to ch, in order
  got,       \* history: chunks received by the listeners, in order
  overlap    \* history: closed was set while an Add or AddError was past its check

vars == <<pc, arg, closed, shut, ch, errCh, sent, got, overlap>>

Senders == Adders \cup Reporters
Goroutines == Senders \cup Closers \cup Listeners

Init ==
  /\ pc = [g \in Goroutines |-> "idle"] /\ arg \in [Adders -> Chunks]
  /\ closed = FALSE /\ shut = 0 /\ ch = <<>> /\ errCh = 0
  /\ sent = <<>> /\ got = <<>> /\ overlap = FALSE

Goto(g, l) == pc' = [pc EXCEPT ![g] = l]

-----------------------------------------------------------------------------
(* Add and AddError *)

\* Both return at once when the stream is closed.
MaySend == ~closed

Add(g) ==
  /\ g \in Adders /\ pc[g] = "idle" /\ Len(sent) < MaxAdds
  /\ \E d \in Chunks : arg' = [arg EXCEPT ![g] = d]
  /\ IF MaySend THEN Goto(g, "send") ELSE UNCHANGED pc
  /\ UNCHANGED <<closed, shut, ch, errCh, sent, got, overlap>>

\* The send waits while ch is full and panics once ch is closed, waiting or
\* not.
Enqueue_DropWhenFull(d) == ch' = IF Len(ch) < Capacity THEN Append(ch, d) ELSE ch
Enqueue(d) == Len(ch) < Capacity /\ ch' = Append(ch, d)

SendChunk(g) ==
  /\ g \in Adders /\ pc[g] = "send"
  /\ IF shut >= 1
       THEN Goto(g, "panic") /\ UNCHANGED <<ch, sent>>
       ELSE /\ Enqueue(arg[g]) /\ sent' = Append(sent, arg[g])
            /\ Goto(g, "idle")
  /\ UNCHANGED <<arg, closed, shut, errCh, got, overlap>>

AddError(g) ==
  /\ g \in Reporters /\ pc[g] = "idle"
  /\ IF MaySend THEN Goto(g, "send") ELSE UNCHANGED pc
  /\ UNCHANGED <<arg, closed, shut, ch, errCh, sent, got, overlap>>

SendError(g) ==
  /\ g \in Reporters /\ pc[g] = "send"
  /\ IF shut >= 2
       THEN Goto(g, "panic") /\ UNCHANGED errCh
       ELSE errCh = 0 /\ errCh' = 1 /\ Goto(g, "idle")
  /\ UNCHANGED <<arg, closed, shut, ch, sent, got, overlap>>

-----------------------------------------------------------------------------
(* CloseStream *)

\* Only the call that finds closed unset goes on to close the channels.
CloseSwap(g) ==
  /\ g \in Closers /\ pc[g] = "idle"
  /\ Goto(g, IF closed THEN "end" ELSE "closing")
  /\ closed' = TRUE
  /\ overlap' = (overlap \/ \E a \in Senders : pc[a] = "send")
  /\ UNCHANGED <<arg, shut, ch, errCh, sent, got>>

CloseChannel(g) ==
  /\ g \in Closers /\ pc[g] = "closing"
  /\ shut' = shut + 1
  /\ Goto(g, IF shut = 2 THEN "end" ELSE "closing")
  /\ UNCHANGED <<arg, closed, ch, errCh, sent, got, overlap>>

-----------------------------------------------------------------------------
(* The goroutine of Listen: any ready case of its select. The closed errCh is *)
(* always ready and receiving from it changes nothing: a stuttering step.     *)

Listen(g) ==
  /\ g \in Listeners /\ pc[g] = "idle"
  /\ Goto(g, "select")
  /\ UNCHANGED <<arg, closed, shut, ch, errCh, sent, got, overlap>>

ReceiveChunk(g) ==
  /\ g \in Listeners /\ pc[g] = "select" /\ ch # <<>>
  /\ got' = Append(got, Head(ch)) /\ ch' = Tail(ch)
  /\ UNCHANGED <<pc, arg, closed, shut, errCh, sent, overlap>>

ReceiveError(g) ==
  /\ g \in Listeners /\ pc[g] = "select" /\ errCh > 0
  /\ errCh' = errCh - 1
  /\ UNCHANGED <<pc, arg, closed, shut, ch, sent, got, overlap>>

\* onDone: ch is closed and empty, or doneCh is closed, whatever ch holds.
Finished_NoClose == FALSE
Finished == (shut >= 1 /\ ch = <<>>) \/ shut = 3

Done(g) ==
  /\ g \in Listeners /\ pc[g] = "select" /\ Finished
  /\ Goto(g, "end")
  /\ UNCHANGED <<arg, closed, shut, ch, errCh, sent, got, overlap>>

-----------------------------------------------------------------------------

Sending(g) == SendChunk(g) \/ SendError(g)
Closing(g) == CloseSwap(g) \/ CloseChannel(g)
Selecting(g) == ReceiveChunk(g) \/ ReceiveError(g) \/ Done(g)

Next == \E g \in Goroutines :
  Add(g) \/ AddError(g) \/ Sending(g) \/ Closing(g) \/ Listen(g) \/ Selecting(g)

Spec == Init /\ [][Next]_vars

\* Goroutines are scheduled, and select picks a ready case at random, so the
\* closed errCh cannot win for ever. Nobody has to call anything.
Fairness == \A g \in Goroutines :
  WF_vars(Sending(g)) /\ WF_vars(CloseChannel(g)) /\ WF_vars(Selecting(g))
FairSpec == Spec /\ Fairness

-----------------------------------------------------------------------------
(* Properties *)

\* Every variable stays in its range: of any number of calls of CloseStream one
\* closes the channels, each once, for closing one twice would panic.
TypeOK ==
  /\ pc \in [Goroutines -> {"idle", "send", "panic", "closing", "select", "end"}]
  /\ arg \in [Adders -> Chunks] /\ closed \in BOOLEAN /\ overlap \in BOOLEAN
  /\ shut \in 0..3 /\ errCh \in 0..1
  /\ ch \in Seq(Chunks) /\ sent \in Seq(Chunks) /\ got \in Seq(Chunks)

\* However Add, CloseStream and several listeners interleave, the listeners
\* receive the chunks in the order in which they were sent, each one once;
\* what they have not received is still in the channel (and stays there when
\* a listener takes doneCh first).
ChunksInOrder == got \o ch = sent

\* A send panics only when CloseStream came between the check of closed and
\* the send of some Add or AddError: on a stream closed before the call, both
\* return quietly.
PanicNeedsOverlap == (\E g \in Senders : pc[g] = "panic") => overlap

\* Once CloseStream has been called nobody stays blocked: every listener
\* reaches onDone, and no Add or AddError waits for room any longer.
CloseReleasesAll ==
  /\ \A g \in Listeners : (closed /\ pc[g] = "select") ~> pc[g] = "end"
  /\ \A g \in Senders : (closed /\ pc[g] = "send") ~> pc[g] # "send"

=============================================================================
