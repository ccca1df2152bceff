---------------------------- MODULE NetworkStream ----------------------------
(***************************************************************************)
(* The byte buffer of NetworkStream (network/network_stream.go) in its two *)
(* uses: one side writes length-prefixed strings into a stream, the bytes  *)
(* travel in pieces of any size, and the other side appends the pieces to  *)
(* a stream of its own and reads strings out of it. A byte is a number     *)
(* below Base and an int32 is Width bytes (256 and 4 in the code).         *)
(***************************************************************************)
EXTENDS Integers, Sequences

CONSTANTS
  Base, Width,   \* values of a byte, bytes of an int32
  MaxFrame,      \* maxFrameSize
  Capacities,    \* initial len(buffer) of the receiving stream
  Strings,       \* strings written: sequences of bytes
  MaxStrings     \* bound: strings written

VARIABLES
  out,      \* the sender's stream
  inp,      \* the receiver's stream
  moved,    \* bytes of the sender's stream that have been appended to inp
  wrote,    \* history: strings passed to WriteString
  got,      \* history: strings returned by ReadString
  slipped,  \* history: a failed ReadString kept the prefix it had consumed
  stuck     \* ensureCapacity does not return

vars == <<out, inp, moved, wrote, got, slipped, stuck>>

-----------------------------------------------------------------------------
(* The operations, as functions of a stream *)

Stream(cap) == [buffer |-> [i \in 1..cap |-> 0], position |-> 0, length |-> 0]

Bytes(s) == SubSeq(s.buffer, 1, s.length)
Reset(s) == [s EXCEPT !.position = 0, !.length = 0]

\* The doubling loop of ensureCapacity: it finds no size to stop at when it
\* starts from an empty buffer.
Loops(s, required) == required > Len(s.buffer) /\ Len(s.buffer) = 0
ensureCapacity(s, required) ==
  IF required <= Len(s.buffer) THEN s
  ELSE LET doubled[k \in 0..required] == IF k = 0 THEN Len(s.buffer) ELSE 2 * doubled[k - 1]
           sizes == {n \in {doubled[k] : k \in 1..required} : n >= required}
           size  == CHOOSE n \in sizes : \A m \in sizes : n <= m
       IN  [s EXCEPT !.buffer = @ \o [i \in 1..(size - Len(@)) |-> 0]]

\* copy(s.buffer[at:], d)
Copy(s, at, d) ==
  [s EXCEPT !.buffer = [i \in DOMAIN @ |->
     IF i > at /\ i <= at + Len(d) THEN d[i - at] ELSE @[i]]]

AppendBytes_AtPosition(s, d) ==
  [Copy(ensureCapacity(s, s.length + Len(d)), s.position, d) EXCEPT !.length = @ + Len(d)]
AppendBytes(s, d) ==
  [Copy(ensureCapacity(s, s.length + Len(d)), s.length, d) EXCEPT !.length = @ + Len(d)]

\* WriteByte, WriteInt16 ... WriteBytes: all write at position and extend the
\* length when they pass it.
WriteBytes(s, d) ==
  LET t == Copy(ensureCapacity(s, s.position + Len(d)), s.position, d)
      p == s.position + Len(d)
  IN  [t EXCEPT !.position = p, !.length = IF p > @ THEN p ELSE @]

\* Little-endian, two's complement: the byte with the sign comes last.
Shifts(v) == LET q[i \in 0..Width] == IF i = 0 THEN v ELSE q[i - 1] \div Base IN q
LE(v) == [i \in 1..Width |-> Shifts(v)[i - 1] % Base]

Signed(b) == IF 2 * b >= Base THEN b - Base ELSE b
Int32(b) ==
  LET v[k \in 1..Width] ==
        IF k = 1 THEN Signed(b[Width]) ELSE v[k - 1] * Base + b[Width - k + 1]
  IN  v[Width]

WriteString(s, str) == WriteBytes(WriteBytes(s, LE(Len(str))), str)

Readable(s, n) == n >= 0 /\ n <= MaxFrame /\ s.position + n <= s.length

\* ReadByte, ReadInt16 ... ReadBytes: what each reads at position once
\* ensureReadable allows it, and its move past that.
Peek(s, n) == SubSeq(s.buffer, s.position + 1, s.position + n)
Skip(s, n) == [s EXCEPT !.position = @ + n]

\* The stream after ReadString, and its result. The prefix stays consumed when
\* the string itself is refused.
ReadString(s) ==
  IF ~Readable(s, Width) THEN [stream |-> s, ok |-> FALSE, str |-> <<>>]
  ELSE LET n == Int32(Peek(s, Width))
           t == Skip(s, Width)
       IN  IF Readable(t, n)
             THEN [stream |-> Skip(t, n), ok |-> TRUE, str |-> Peek(t, n)]
             ELSE [stream |-> t, ok |-> FALSE, str |-> <<>>]

-----------------------------------------------------------------------------

Init ==
  /\ out = Stream(1)
  /\ \E c \in Capacities : inp = Stream(c)
  /\ moved = 0 /\ wrote = <<>> /\ got = <<>> /\ slipped = FALSE /\ stuck = FALSE

Write(str) ==
  /\ ~stuck /\ Len(wrote) < MaxStrings
  /\ out' = WriteString(out, str) /\ wrote' = Append(wrote, str)
  /\ UNCHANGED <<inp, moved, got, slipped, stuck>>

\* The next n bytes arrive.
Arrive(n) ==
  /\ ~stuck /\ moved + n <= out.length
  /\ IF Loops(inp, inp.length + n)
       THEN stuck' = TRUE /\ UNCHANGED <<inp, moved>>
       ELSE /\ inp' = AppendBytes(inp, SubSeq(Bytes(out), moved + 1, moved + n))
            /\ moved' = moved + n
            /\ UNCHANGED stuck
  /\ UNCHANGED <<out, wrote, got, slipped>>

\* A call of ReadString. After an error its caller goes back with SetPosition
\* to where the call began, or does not.
Read ==
  /\ ~stuck
  /\ LET r == ReadString(inp)
     IN  IF r.ok
           THEN inp' = r.stream /\ got' = Append(got, r.str) /\ UNCHANGED slipped
           ELSE /\ inp' \in {r.stream, [r.stream EXCEPT !.position = inp.position]}
                /\ slipped' = (slipped \/ inp'.position # inp.position)
                /\ UNCHANGED got
  /\ UNCHANGED <<out, moved, wrote, stuck>>

\* A reader that has consumed everything starts over.
Drain ==
  /\ ~stuck /\ inp.position = inp.length
  /\ inp' = Reset(inp)
  /\ UNCHANGED <<out, moved, wrote, got, slipped, stuck>>

Next ==
  \/ \E str \in Strings : Write(str)
  \/ \E n \in 1..out.length : Arrive(n)
  \/ Read \/ Drain

Spec == Init /\ [][Next]_vars

-----------------------------------------------------------------------------
(* Properties *)

\* The strings that come out of the receiving stream are the strings written,
\* in order and intact, wherever the pieces are cut and however often the
\* buffer grows or is reset, as long as the reader returns to where it was
\* after an error: ReadString itself does not. A reader that has lost its place
\* takes some bytes for a length, but never leaves the buffer; and
\* ensureCapacity hangs only on a stream made without capacity.
StringsInOrder ==
  /\ ~slipped => Len(got) <= Len(wrote) /\ \A i \in DOMAIN got : got[i] = wrote[i]
  /\ \A s \in {out, inp} : 0 <= s.position /\ s.position <= s.length
                           /\ s.length <= Len(s.buffer)
  /\ stuck => inp.buffer = <<>>

=============================================================================
