--------------------------- MODULE WebSocketReader ---------------------------
(***************************************************************************)
(* What a WebSocketClient makes of the bytes it receives                   *)
(* (network/websocket_client.go): handshake reads the upgrade response     *)
(* through a bufio.Reader that may already swallow frames behind it, then  *)
(* ReadMessage, called in a loop by Listen, reads frames and puts          *)
(* fragmented messages together. The server is external: it may send       *)
(* control frames between fragments, exceed the limit, break the rules of  *)
(* the protocol, and hang up anywhere.                                     *)
(***************************************************************************)
EXTENDS Naturals, Sequences

CONSTANTS
  MaxPayload,  \* maxPayloadSize, in bytes
  Lengths,     \* payload lengths the server uses
  MaxFrames    \* bound: frames the server sends

VARIABLES
  at,      \* the client: "handshake", "read" (in ReadMessage), "stopped"
  in,      \* what was received and not consumed: the response, then frames
  ahead,   \* how many of these the handshake's bufio.Reader holds already
  frag,    \* fragmentedOpcode and fragmentedPayload of this ReadMessage
  got,     \* messages handed to onMessage
  end,     \* why the client stopped
  server,  \* the server: the message it has begun, the frames and bytes sent,
           \* the last opcode, and where in a frame it hung up
  sent,    \* history: messages the server has finished sending
  broke,   \* history: the server broke the framing rules of RFC 6455
  torn     \* history: it sent a pong between the fragments of a message

client == <<at, in, ahead, frag, got, end>>
peer == <<server, sent, broke, torn>>
vars == <<client, peer>>

Data    == {"text", "binary"}
Replies == {"101", "refusal"}
Opcodes == Data \cup {"cont", "ping", "pong", "close", "reserved"}

NoFragment == [op |-> "none", data |-> <<>>]

Init ==
  /\ at = "handshake" /\ in = <<>> /\ ahead = 0
  /\ frag = NoFragment /\ got = <<>> /\ end = "none"
  /\ server = [msg |-> NoFragment, frames |-> 0, bytes |-> 0, last |-> "none",
               cut |-> "no"]
  /\ sent = <<>> /\ broke = FALSE /\ torn = FALSE

-----------------------------------------------------------------------------
(* The client *)

Stop(why) == at' = "stopped" /\ end' = why /\ UNCHANGED <<got, frag>>
Deliver(op, data) ==
  /\ got' = Append(got, [op |-> op, data |-> data])
  /\ frag' = NoFragment
  /\ UNCHANGED <<at, end>>
Collect(op, data) ==
  /\ frag' = [op |-> op, data |-> data]
  /\ UNCHANGED <<at, end, got>>

\* The response is accepted only when it is a 101 with the headers expected;
\* the reader that read it stays the reader of the frames.
Handshake ==
  /\ at = "handshake" /\ in # <<>>
  /\ in' = Tail(in) /\ ahead' \in 0..(Len(in) - 1)
  /\ IF Head(in).op = "101"
       THEN at' = "read" /\ UNCHANGED <<end, got, frag>>
       ELSE Stop("refused")
  /\ UNCHANGED peer

Unread_NewReader == SubSeq(in, ahead + 1, Len(in))
Unread == in

TooLong(data) == Len(data) > MaxPayload

OnData(f) ==
  \/ f.fin /\ Deliver(f.op, f.data)
  \/ ~f.fin /\ TooLong(frag.data \o f.data) /\ Stop("too large")
  \/ ~f.fin /\ ~TooLong(frag.data \o f.data) /\ Collect(f.op, frag.data \o f.data)

OnContinuation(f) ==
  IF frag.op = "none" THEN Stop("continuation")
  ELSE \/ TooLong(frag.data \o f.data) /\ Stop("too large")
       \/ ~TooLong(frag.data \o f.data) /\ f.fin /\ Deliver(frag.op, frag.data \o f.data)
       \/ ~TooLong(frag.data \o f.data) /\ ~f.fin /\ Collect(frag.op, frag.data \o f.data)

\* A ping is answered within the same ReadMessage call, so what it has
\* collected survives; returning a pong forgets it.
OnPing(f) == UNCHANGED <<at, end, got, frag>>

\* readWebSocketFrameWithLimit and one round of ReadMessage's loop.
ReadFrame ==
  /\ at = "read" /\ Unread # <<>>
  /\ in' = Tail(Unread) /\ ahead' = 0
  /\ LET f == Head(Unread)
     IN  \/ Len(f.data) > MaxPayload /\ Stop("too large")
         \/ /\ Len(f.data) <= MaxPayload
            /\ \/ f.op = "ping" /\ OnPing(f)
               \/ f.op = "pong" /\ Deliver("pong", f.data)
               \/ f.op = "close" /\ Stop("closed")
               \/ f.op \in Data /\ OnData(f)
               \/ f.op = "cont" /\ OnContinuation(f)
               \/ f.op = "reserved" /\ Stop("opcode")
  /\ UNCHANGED peer

\* io.ReadFull reports io.EOF when not one byte of the field it reads arrived,
\* so a connection that ends between two fields of a frame looks like one that
\* ends between two frames. Listen passes io.EOF over in silence.
ReadFail ==
  /\ at # "stopped" /\ Unread = <<>>
  /\ \/ server.cut \in {"frame", "field"} /\ Stop("eof")
     \/ server.cut = "inside" /\ Stop("unexpected eof")
     \/ server.cut = "no" /\ Stop("timeout")
  /\ UNCHANGED <<in, ahead, peer>>

-----------------------------------------------------------------------------
(* The server *)

\* What it sends after the client has stopped is of no consequence.
Up == server.cut = "no" /\ server.last # "close" /\ at # "stopped"

Respond ==
  /\ Up /\ server.last = "none"
  /\ \E r \in Replies :
       /\ in' = Append(in, [op |-> r, fin |-> TRUE, data |-> <<>>])
       /\ server' = [server EXCEPT !.last = r]
  /\ UNCHANGED <<at, ahead, frag, got, end, sent, broke, torn>>

\* A frame whose payload is the next n bytes of the server. Within a
\* fragmented message only continuations and control frames are legal, and
\* nowhere else is a continuation.
SendFrame(op, fin, n) ==
  LET data  == [i \in 1..n |-> server.bytes + i]
      begun == IF op = "cont" THEN [server.msg EXCEPT !.data = @ \o data]
               ELSE [op |-> op, data |-> data]
  IN  /\ Up /\ server.last \notin {"none", "refusal"} /\ server.frames < MaxFrames
      /\ fin \/ op \in Data \cup {"cont"}
      /\ in' = Append(in, [op |-> op, fin |-> fin, data |-> data])
      /\ sent' = IF fin /\ op \in Data \cup {"cont", "pong"} THEN Append(sent, begun) ELSE sent
      /\ server' = [server EXCEPT
           !.frames = @ + 1, !.bytes = @ + n, !.last = op,
           !.msg = IF op \notin Data \cup {"cont"} THEN @
                   ELSE IF fin THEN NoFragment ELSE begun]
      /\ torn' = (torn \/ (op = "pong" /\ server.msg # NoFragment))
      /\ broke' = \/ broke \/ op = "reserved"
                  \/ op \in Data /\ server.msg # NoFragment
                  \/ op = "cont" /\ server.msg = NoFragment
      /\ UNCHANGED <<at, ahead, frag, got, end>>

HangUp ==
  /\ server.cut = "no" /\ at # "stopped"
  /\ \E c \in {"frame", "field", "inside"} : server' = [server EXCEPT !.cut = c]
  /\ UNCHANGED <<client, sent, broke, torn>>

-----------------------------------------------------------------------------

Client == Handshake \/ ReadFrame \/ ReadFail
Server ==
  \/ Respond \/ HangUp
  \/ \E op \in Opcodes, fin \in BOOLEAN, n \in Lengths : SendFrame(op, fin, n)

Next == Client \/ Server

Spec == Init /\ [][Next]_vars

-----------------------------------------------------------------------------
(* Properties *)

\* Whatever a server that keeps to the framing rules sends, and however its
\* frames and the upgrade response share TCP segments, ReadMessage returns the
\* messages sent, whole and in order: none is skipped, repeated, merged with
\* another or cut short. A continuation is called unexpected only when the
\* server sent one out of place, or when a pong came between the fragments:
\* the call that returned the pong dropped the fragments before it. With any
\* server no message exceeds maxPayloadSize.
MessagesInOrder ==
  /\ ~broke => Len(got) <= Len(sent) /\ \A i \in DOMAIN got : got[i] = sent[i]
  /\ end = "continuation" => broke \/ torn
  /\ \A i \in DOMAIN got : Len(got[i].data) <= MaxPayload

=============================================================================
