------------------------------ MODULE Services ------------------------------
(***************************************************************************)
(* NetworkStream, its channels and its bytes, EventEmitter, Debouncer and  *)
(* a plain TCPClient, side by side. They share no state.                   *)
(***************************************************************************)
EXTENDS Integers, Sequences

CONSTANTS
  Adders, Reporters, Listeners, Chunks, Capacity, MaxAdds,  \* StreamEvents
  Base, Width, MaxFrame, Capacities, Strings, MaxStrings,   \* NetworkStream
  MaxID, Emits,                                             \* Emitter
  MaxCalls,                                                 \* Debouncer
  Timeout, MaxIn,                                           \* TCPClient
  Closers                                  \* StreamEvents and TCPClient

VARIABLES pc, arg, closed, shut, ch, errCh, added, heard, overlap
eventsVars == <<pc, arg, closed, shut, ch, errCh, added, heard, overlap>>
Events == INSTANCE StreamEvents WITH sent <- added, got <- heard

VARIABLES out, inp, moved, wrote, strings, slipped, stuck
streamVars == <<out, inp, moved, wrote, strings, slipped, stuck>>
Stream == INSTANCE NetworkStream WITH got <- strings

\* The length of every string fits an int32.
ASSUME StreamAssumption ==
  /\ Base \in Nat \ {0} /\ Width \in Nat \ {0} /\ MaxFrame \in Nat
  /\ Capacities \subseteq Nat
  /\ \A str \in Strings : /\ str \in Seq(0..(Base - 1))
                          /\ 2 * Stream!Shifts(Len(str))[Width - 1] < Base

VARIABLES nextID, handlers, once, known, async, stage, calls, raced, overlapped
emittingVars == <<nextID, handlers, once, known, async, stage, calls, raced,
                  overlapped>>
Emitting == INSTANCE Emitter

VARIABLES called, timer, quiet, missed, early
debounceVars == <<called, timer, quiet, missed, early>>
Debounce == INSTANCE Debouncer WITH n <- called

VARIABLES isClosed, sock, deadline, listen, full, write, close, ctxDone, peer,
          queue, rcvd, reported, cause
tcpVars == <<isClosed, sock, deadline, listen, full, write, close, ctxDone,
             peer, queue, rcvd, reported, cause>>
Tcp == INSTANCE TCPClient

servicesVars == <<eventsVars, streamVars, emittingVars, debounceVars, tcpVars>>

ServicesInit ==
  Events!Init /\ Stream!Init /\ Emitting!Init /\ Debounce!Init /\ Tcp!Init

ServicesStep(p) ==
  \/ /\ p = "events" /\ Events!Next
     /\ UNCHANGED <<streamVars, emittingVars, debounceVars, tcpVars>>
  \/ /\ p = "stream" /\ Stream!Next
     /\ UNCHANGED <<eventsVars, emittingVars, debounceVars, tcpVars>>
  \/ /\ p = "emitter" /\ Emitting!Next
     /\ UNCHANGED <<eventsVars, streamVars, debounceVars, tcpVars>>
  \/ /\ p = "debouncer" /\ Debounce!Next
     /\ UNCHANGED <<eventsVars, streamVars, emittingVars, tcpVars>>
  \/ /\ p = "tcp" /\ Tcp!Next
     /\ UNCHANGED <<eventsVars, streamVars, emittingVars, debounceVars>>

ServicesNext ==
  \E p \in {"events", "stream", "emitter", "debouncer", "tcp"} : ServicesStep(p)

ServicesSpec == ServicesInit /\ [][ServicesNext]_servicesVars

-----------------------------------------------------------------------------
(* The properties of the components; each is explained in its module. *)

\* The listeners of a NetworkStream receive the chunks added, in order.
ChunksInOrder == Events!ChunksInOrder

\* NetworkStream gives back the strings written, within its buffer.
StringsInOrder == Stream!StringsInOrder

\* A handler of Once runs once, but for the two races the code has.
OnceRunsOnce == Emitting!OnceRunsOnce

\* TCPClient.Listen ends in silence only for a stated reason.
SilenceExplained == Tcp!SilenceExplained

=============================================================================
