------------------------------- MODULE HTTPBody -------------------------------
(***************************************************************************)
(* How doOnce reads a response body (network/http_client.go):              *)
(* buildHTTPBodyReader picks a reader from the headers, a decompressor may *)
(* sit on top of it, and io.ReadAll reads through the MaxBodySize limit    *)
(* until io.EOF or an error. The content is the bytes 1, 2, ..., so that a *)
(* byte lost, repeated or taken from the chunk framing shows. The server   *)
(* is external: it may hang up or stall anywhere, and corrupt one token of *)
(* the chunk framing.                                                      *)
(***************************************************************************)
EXTENDS Naturals, Sequences

CONSTANTS
  MaxContent,  \* bound: length of the content
  Limits       \* values of MaxBodySize (0: no limit)

VARIABLES
  reply,   \* the response: fixed once the headers are read
  in,      \* the part of the body that arrives and is not read yet
  step,    \* what the reader expects: "size", "data", "delimiter", "trailer"
  rem,     \* currentRemaining, or what is left of Content-Length
  body,    \* what io.ReadAll has collected
  end      \* "none", "ok", "error"

vars == <<reply, in, step, rem, body, end>>

Framings == {"chunked", "length", "close"}

Byte(i) == [t |-> "byte", n |-> i]
Size(n) == [t |-> "size", n |-> n]
Mark(t) == [t |-> t, n |-> 0]

\* The bytes in the first k chunks, for each k.
Sums(c) == LET sum[k \in 0..Len(c)] == IF k = 0 THEN 0 ELSE sum[k - 1] + c[k] IN sum

\* The ways to cut n bytes into chunks.
Chunkings(n) == {c \in UNION {[1..k -> 1..n] : k \in 0..n} : Sums(c)[Len(c)] = n}

\* A chunk of n bytes, after the first s bytes of the content.
Chunk(s, n) == <<Size(n)>> \o [i \in 1..n |-> Byte(s + i)] \o <<Mark("cr"), Mark("lf")>>

Framed(framing, n, chunks) ==
  LET wire[k \in 0..Len(chunks)] ==
        IF k = 0 THEN <<>>
        ELSE wire[k - 1] \o Chunk(Sums(chunks)[k - 1], chunks[k])
  IN  IF framing = "chunked"
        THEN wire[Len(chunks)] \o <<Size(0), Mark("line"), Mark("blank")>>
        ELSE [i \in 1..n |-> Byte(i)]

Corrupt(wire, i) == IF i = 0 THEN wire ELSE [wire EXCEPT ![i] = Mark("junk")]

\* early: the connection ends before the last token; eof: it ends by EOF,
\* otherwise the read deadline expires.
Init ==
  \E framing \in Framings, n \in 0..MaxContent, gz, eof \in BOOLEAN, limit \in Limits :
  \E chunks \in (IF framing = "chunked" THEN Chunkings(n) ELSE {<<n>>}) :
    LET wire == Framed(framing, n, chunks)
    IN  \E bad \in {0} \cup {i \in DOMAIN wire : wire[i].t # "byte"}, k \in 0..Len(wire) :
          /\ reply = [framing |-> framing, length |-> n, gzip |-> gz, limit |-> limit,
                      eof |-> eof, flaw |-> bad # 0, early |-> k < Len(wire)]
          /\ in = SubSeq(Corrupt(wire, bad), 1, k)
          /\ step = IF framing = "chunked" THEN "size" ELSE "data"
          /\ rem = IF framing = "chunked" THEN 0 ELSE n
          /\ body = <<>> /\ end = "none"

-----------------------------------------------------------------------------

Fail == end' = "error" /\ UNCHANGED <<reply, in, step, rem, body>>

\* io.EOF from the body reader: to io.ReadAll the end of the body, to a
\* decompressor an unexpected end unless its stream was complete.
AtEOF ==
  /\ end' = IF reply.gzip /\ (Len(body) < reply.length \/ reply.length = 0)
              THEN "error" ELSE "ok"
  /\ UNCHANGED <<reply, in, step, rem, body>>

\* Nothing more arrives.
Exhausted == in = <<>> /\ IF reply.eof THEN AtEOF ELSE Fail

\* io.LimitReader ends the body silently at MaxBodySize.
LimitReached == reply.limit > 0 /\ Len(body) = reply.limit
ReadLimit ==
  /\ end = "none" /\ step \in {"size", "data"} /\ LimitReached
  /\ end' = "ok" /\ UNCHANGED <<reply, in, step, rem, body>>

ReadSize ==
  /\ end = "none" /\ step = "size" /\ ~LimitReached
  /\ \/ Exhausted
     \/ in # <<>> /\ Head(in).t = "junk" /\ Fail
     \/ /\ in # <<>> /\ Head(in).t = "size"
        /\ in' = Tail(in) /\ rem' = Head(in).n
        /\ step' = IF Head(in).n = 0 THEN "trailer" ELSE "data"
        /\ UNCHANGED <<reply, body, end>>

\* Trailer lines are skipped up to the empty one.
ReadTrailer ==
  /\ end = "none" /\ step = "trailer"
  /\ \/ Exhausted
     \/ in # <<>> /\ Head(in).t = "blank" /\ AtEOF
     \/ /\ in # <<>> /\ Head(in).t # "blank"
        /\ in' = Tail(in) /\ UNCHANGED <<reply, step, rem, body, end>>

\* A Read may return p bytes: the chunk, or Content-Length, and the limit allow.
Allowed_NoChunk(p) == reply.limit > 0 => Len(body) + p <= reply.limit
Allowed(p) ==
  /\ reply.framing # "close" => p <= rem
  /\ reply.limit > 0 => Len(body) + p <= reply.limit

ReadData ==
  /\ end = "none" /\ step = "data" /\ ~LimitReached
  /\ \/ reply.framing = "length" /\ rem = 0 /\ AtEOF
     \/ (reply.framing = "length" => rem > 0) /\ Exhausted
     \/ \E p \in 1..Len(in) :
          /\ Allowed(p)
          /\ body' = body \o [i \in 1..p |-> in[i].n]
          /\ in' = SubSeq(in, p + 1, Len(in))
          /\ rem' = IF reply.framing = "close" THEN rem ELSE rem - p
          /\ step' = IF reply.framing = "chunked" /\ rem = p THEN "delimiter" ELSE "data"
          /\ UNCHANGED <<reply, end>>

\* io.ReadFull reports io.EOF when nothing is left, ErrUnexpectedEOF after one
\* byte.
ReadDelimiter ==
  /\ end = "none" /\ step = "delimiter"
  /\ \/ Exhausted
     \/ Len(in) = 1 /\ Fail
     \/ Len(in) > 1 /\ <<in[1].t, in[2].t>> # <<"cr", "lf">> /\ Fail
     \/ /\ Len(in) > 1 /\ <<in[1].t, in[2].t>> = <<"cr", "lf">>
        /\ in' = SubSeq(in, 3, Len(in)) /\ step' = "size"
        /\ UNCHANGED <<reply, rem, body, end>>

Next == ReadLimit \/ ReadSize \/ ReadTrailer \/ ReadData \/ ReadDelimiter

Spec == Init /\ [][Next]_vars

-----------------------------------------------------------------------------
(* Properties *)

\* However the body is framed and however the reads fall on chunk boundaries,
\* what is collected is a prefix of the content: no byte is lost, repeated or
\* taken from the framing. It is returned as the whole body when it is whole,
\* when MaxBodySize cut it, or, the one silent truncation, when the server
\* hung up early and no decompressor noticed; corrupted chunk framing never
\* shortens it. A response that arrives complete and intact is never refused,
\* except an empty one that claims to be compressed.
BodyExplained ==
  /\ \A i \in DOMAIN body : body[i] = i
  /\ end = "ok" =>
       \/ Len(body) = reply.length
       \/ LimitReached
       \/ reply.early /\ reply.eof /\ ~reply.gzip
  /\ end = "error" =>
       \/ reply.early \/ reply.flaw
       \/ reply.framing = "close" /\ ~reply.eof
       \/ reply.gzip /\ reply.length = 0

=============================================================================
