--------------------------- MODULE TransportProofs ---------------------------
(***************************************************************************)
(* Proofs about Transport for every header limit, read size and amount of  *)
(* data: the dial implements Dial and leaves no deadline behind; what it   *)
(* returns is an open tunnel, with every byte of the payload still in it.  *)
(***************************************************************************)
EXTENDS Transport, TLAPS

\* Before the dial there is no socket and no deadline; during the handshakes
\* the socket is open; with the result the dial is over.
Inv ==
  /\ cfg \in Config /\ res \in {"pending", "ok", "error"} /\ sock \in BOOLEAN
  /\ res = "pending" <=> pc # "done"
  /\ pc = "dial" => ~sock /\ ~rd /\ ~wr
  /\ res = "pending" /\ pc # "dial" => sock
  /\ res = "ok" => sock /\ ~rd /\ ~wr

\* What a step of the dial does to its result and its socket.
Connects == sock' = TRUE /\ pc' \notin {"dial", "done"} /\ res' = res
Succeeds == sock' = TRUE /\ pc' = "done" /\ res' = "ok" /\ rd' = FALSE /\ wr' = FALSE
Fails    == sock' = FALSE /\ pc' = "done" /\ res' = "error"
Outcome  == res = "pending" /\ cfg' = cfg /\ (Connects \/ Succeeds \/ Fails)

\* Another step, of the peer or of the user of the connection.
Elsewhere == UNCHANGED <<pc, cfg, res, sock, rd, wr>>

\* Such a step keeps Inv, and is a step of Dial or a stutter.
LEMMA OutcomeStep ==
  ASSUME Inv, Outcome \/ Elsewhere
  PROVE  Inv' /\ [D!Next]_<<res, sock>>
<1>1. CASE Elsewhere
  BY <1>1, Zenon DEF Elsewhere, Inv
<1>2. CASE Outcome
  <2>1. Inv'
    BY <1>2, Zenon DEF Outcome, Connects, Succeeds, Fails, Inv
  <2>2. CASE Connects
    BY <1>2, <2>1, <2>2, Zenon DEF Outcome, Connects, Inv, D!Next, D!Connect
  <2>3. CASE Succeeds
    BY <1>2, <2>1, <2>3, Zenon DEF Outcome, Succeeds, D!Next, D!Succeed
  <2>4. CASE Fails
    BY <1>2, <2>1, <2>4, Zenon DEF Outcome, Fails, D!Next, D!Refuse
  <2> QED
    BY <1>2, <2>2, <2>3, <2>4, Zenon DEF Outcome
<1> QED
  BY <1>1, <1>2, Zenon

\* The ends of a handler: its connection is closed, or the dial goes on.
LEMMA HandlerEnds ==
  ASSUME Inv, pc \notin {"dial", "done"}, HandlerFail \/ HandlerOK
  PROVE  Outcome
BY Zenon DEF Inv, HandlerFail, HandlerOK, Established, Outcome, Connects, Succeeds, Fails

\* From one blocking call of a handshake to the next.
LEMMA HandlerGoes ==
  ASSUME Inv, pc \notin {"dial", "done"}, NEW l, l \notin {"dial", "done"}, Goto(l)
  PROVE  Outcome
BY Zenon DEF Inv, Goto, Outcome, Connects

\* Every step of the specification is one of these.
LEMMA StepOutcome ==
  ASSUME Inv, Next
  PROVE  Outcome \/ Elsewhere
<1>1. CASE Dialling
  <2>1. cfg.proxy # "none" => FirstStep[cfg.proxy] \notin {"dial", "done"}
    BY DEF Inv, Config, Proxies, FirstStep
  <2> QED
    BY <1>1, <2>1, Zenon DEF Dialling, DialOK, DialFail, Established, Inv,
                      Outcome, Connects, Succeeds, Fails
<1>2. CASE ReadHeaders
  BY <1>2, HandlerEnds, HandlerGoes, Zenon DEF ReadHeaders
<1>3. CASE Method \/ Auth
  BY <1>3, HandlerEnds, HandlerGoes, Zenon DEF Method, Auth
<1>4. CASE HeadRead \/ LengthRead
  <2>1. CASE HandlerFail
    BY <1>4, <2>1, HandlerEnds, Zenon DEF HeadRead, LengthRead
  <2>2. CASE ~HandlerFail
    BY <1>4, <2>2, Zenon DEF HeadRead, LengthRead, Inv, Outcome, Connects
  <2> QED
    BY <2>1, <2>2, Zenon
<1>5. CASE AddressRead \/ Reply4
  BY <1>5, HandlerEnds, Zenon DEF AddressRead, Reply4
<1>6. CASE Sending
  BY <1>6, Zenon DEF Sending, ConnectWrite, Greet, Login, Request5, Request4, Write, Goto,
              Inv, Outcome, Connects
<1>7. CASE Tls
  BY <1>7, HandlerEnds, Zenon DEF Tls, ProxyTlsOK, ProxyTlsFail, TlsOK, TlsFail, Inv,
              Outcome, Connects, Succeeds, Fails
<1>8. CASE BadArguments
  BY <1>8, HandlerEnds, Zenon DEF BadArguments
<1>9. CASE Expire \/ Broken
  <2>1. pc \notin {"dial", "done"} /\ Aborted
    BY <1>9, Zenon DEF Expire, Broken, Writing, Reading, Shaking
  <2> QED
    BY <2>1, HandlerEnds, Zenon DEF Aborted, TlsFail, Inv, Outcome, Fails
<1>10. CASE PeerReply \/ PeerClose \/ TargetSend \/ Read
  BY <1>10 DEF PeerReply, PeerClose, TargetSend, Read, Elsewhere
<1> QED
  BY <1>1, <1>2, <1>3, <1>4, <1>5, <1>6, <1>7, <1>8, <1>9, <1>10, Zenon DEF Next, Answered

\* Inv holds in every state of every behaviour.
THEOREM InvHolds == Spec => []Inv
<1>1. Init => Inv
  <2>1. Init => sock \in BOOLEAN
    BY Zenon DEF Init
  <2> QED
    BY <2>1, Zenon DEF Init, Inv
<1>2. Inv /\ [Next]_vars => Inv'
  <2>1. Inv /\ UNCHANGED vars => Elsewhere
    BY Zenon DEF vars, Elsewhere
  <2> QED
    BY <2>1, StepOutcome, OutcomeStep, Zenon
<1> QED
  BY <1>1, <1>2, PTL DEF Spec

\* NewTCPClientAutoTLS implements Dial: it returns once, with an open
\* connection or with an error and no socket, whichever handshake failed.
THEOREM DialKeptHolds == Spec => DialKept
<1>1. Init => D!Init
  BY Zenon DEF Init, D!Init
<1>2. Inv /\ [Next]_vars => [D!Next]_<<res, sock>>
  <2>1. Inv /\ UNCHANGED vars => Elsewhere
    BY Zenon DEF vars, Elsewhere
  <2> QED
    BY <2>1, StepOutcome, OutcomeStep, Zenon
<1> QED
  BY <1>1, <1>2, InvHolds, PTL DEF Spec, DialKept, D!Spec

\* No deadline of a handshake is left on a connection that is returned.
THEOREM DeadlinesClearedHolds == Spec => []DeadlinesCleared
<1>1. Inv => DeadlinesCleared
  BY Zenon DEF Inv, DeadlinesCleared
<1> QED
  BY <1>1, InvHolds, PTL
-----------------------------------------------------------------------------
(* Sequences of bytes *)

\* A function on 1..n is a sequence of length n.
LEMMA FcnSeq ==
  ASSUME NEW n \in Nat, NEW S, NEW f \in [1 .. n -> S]
  PROVE  f \in Seq(S) /\ Len(f) = n
OBVIOUS

\* Sequences with the same length and elements are equal.
LEMMA SameSeq ==
  ASSUME NEW s \in Seq(Nat), NEW t \in Seq(Nat), Len(s) = Len(t),
         \A i \in 1 .. Len(s) : s[i] = t[i]
  PROVE  s = t
<1>1. PICK n, m : n = Len(s) /\ m = Len(t)
  BY Zenon
<1>2. s = [i \in 1 .. n |-> s[i]]
  BY <1>1
<1>3. t = [i \in 1 .. m |-> t[i]]
  BY <1>1
<1> QED
  BY <1>1, <1>2, <1>3, Zenon

\* u is s followed by t.
Joined(u, s, t) ==
  /\ u \in Seq(Nat) /\ Len(u) = Len(s) + Len(t)
  /\ \A i \in 1 .. Len(s) : u[i] = s[i]
  /\ \A i \in 1 .. Len(t) : u[Len(s) + i] = t[i]

\* What a concatenation holds, position by position.
LEMMA Concat ==
  ASSUME NEW s \in Seq(Nat), NEW t \in Seq(Nat)
  PROVE  Joined(s \o t, s, t)
<1>1. PICK u : u = s \o t
  BY Zenon
<1>2. /\ u \in Seq(Nat) /\ Len(u) = Len(s) + Len(t)
      /\ \A i \in 1 .. Len(s) : u[i] = s[i]
      /\ \A i \in 1 .. Len(t) : u[Len(s) + i] = t[i]
  BY <1>1
<1> QED
  BY <1>1, <1>2, Zenon DEF Joined

\* What is left of a sequence cut behind position n.
LEMMA Front ==
  ASSUME NEW s \in Seq(Nat), NEW n \in 0 .. Len(s), NEW u, u = SubSeq(s, 1, n)
  PROVE  u \in Seq(Nat) /\ Len(u) = n /\ \A i \in 1 .. n : u[i] = s[i]
BY SMTT(60)

\* The end of a sequence from position n + 1 on.
LEMMA Back ==
  ASSUME NEW s \in Seq(Nat), NEW n \in 0 .. Len(s), NEW u, u = SubSeq(s, n + 1, Len(s))
  PROVE  u \in Seq(Nat) /\ Len(u) = Len(s) - n /\ \A i \in 1 .. (Len(s) - n) : u[i] = s[n + i]
BY SMTT(60)

\* What is left of a sequence behind position n.
LEMMA Rest ==
  ASSUME NEW s \in Seq(Nat), NEW n \in 0 .. Len(s), NEW u, u = From(s, n + 1)
  PROVE  u \in Seq(Nat) /\ Len(u) = Len(s) - n /\ \A i \in 1 .. (Len(s) - n) : u[i] = s[n + i]
<1>1. u = SubSeq(s, n + 1, Len(s))
  BY Zenon DEF From
<1> QED
  BY <1>1, Back, ZenonT(60)

-----------------------------------------------------------------------------
(* The replies of the peer *)

\* The filler of a reply has the length asked for.
LEMMA BytesLen ==
  ASSUME NEW n \in Nat
  PROVE  Bytes(n) \in Seq(Nat) /\ Len(Bytes(n)) = n
<1>1. Bytes(n) \in [1 .. n -> Nat]
  BY DEF Bytes
<1> QED
  BY <1>1, FcnSeq, Zenon

\* A sequence of one byte.
LEMMA One ==
  ASSUME NEW a \in Nat, NEW s, s = <<a>>
  PROVE  s \in Seq(Nat) /\ Len(s) = 1 /\ s[1] = a
OBVIOUS

\* A sequence of two bytes.
LEMMA Two ==
  ASSUME NEW a \in Nat, NEW b \in Nat, NEW s, s = <<a, b>>
  PROVE  s \in Seq(Nat) /\ Len(s) = 2 /\ s[1] = a /\ s[2] = b
OBVIOUS

\* A sequence of three bytes.
LEMMA Three ==
  ASSUME NEW a \in Nat, NEW b \in Nat, NEW c \in Nat, NEW s, s = <<a, b, c>>
  PROVE  s \in Seq(Nat) /\ Len(s) = 3 /\ s[1] = a /\ s[2] = b /\ s[3] = c
OBVIOUS

\* A sequence of four bytes.
LEMMA Four ==
  ASSUME NEW a \in Nat, NEW b \in Nat, NEW c \in Nat, NEW d \in Nat, NEW s, s = <<a, b, c, d>>
  PROVE  s \in Seq(Nat) /\ Len(s) = 4 /\ s[1] = a /\ s[2] = b /\ s[3] = c /\ s[4] = d
OBVIOUS

\* The answers to a greeting and to a login are two bytes long.
LEMMA ShortReplies ==
  ASSUME NEW q \in {"greet", "login"}, NEW r \in Replies[q]
  PROVE  r \in Seq(Nat) /\ Len(r) = 2
<1>1. \E a \in {1, 4, 5}, b \in {0, 1, 2, 255} : r = <<a, b>>
  <2>1. CASE q = "greet"
    <3>1. r \in {<<5, 0>>, <<5, 2>>, <<5, 255>>, <<4, 0>>}
      BY <2>1 DEF Replies
    <3> QED
      BY <3>1, ZenonT(60)
  <2>2. CASE q = "login"
    <3>1. r \in {<<1, 0>>, <<1, 1>>, <<5, 0>>}
      BY <2>2 DEF Replies
    <3> QED
      BY <3>1, ZenonT(60)
  <2> QED
    BY <2>1, <2>2, Zenon
<1>2. PICK a \in {1, 4, 5}, b \in {0, 1, 2, 255} : r = <<a, b>>
  BY <1>1, Zenon
<1>3. a \in Nat /\ b \in Nat
  OBVIOUS
<1> QED
  BY <1>2, <1>3, Two

\* The answer to a SOCKS4 request is eight bytes long.
LEMMA Replies4 ==
  ASSUME NEW r \in Replies["request4"]
  PROVE  r \in Seq(Nat) /\ Len(r) = 8
<1>1. Bytes(6) \in Seq(Nat) /\ Len(Bytes(6)) = 6
  <2>1. 6 \in Nat
    OBVIOUS
  <2> QED
    BY <2>1, BytesLen, Zenon
<1>2. r \in {<<0, 90>> \o Bytes(6), <<0, 91>> \o Bytes(6), <<4, 90>> \o Bytes(6)}
  <2>1. Replies["request4"] = {<<0, 90>> \o Bytes(6), <<0, 91>> \o Bytes(6), <<4, 90>> \o Bytes(6)}
    BY DEF Replies
  <2> QED
    BY <2>1, Zenon
<1>3. PICK x \in {0, 4}, y \in {90, 91} : r = <<x, y>> \o Bytes(6)
  BY <1>2, ZenonT(60)
<1>4. PICK a : a = <<x, y>>
  BY Zenon
<1>5. a \in Seq(Nat) /\ Len(a) = 2
  <2>1. x \in Nat /\ y \in Nat
    OBVIOUS
  <2> QED
    BY <1>4, <2>1, Two
<1>6. Joined(r, a, Bytes(6))
  BY <1>1, <1>3, <1>4, <1>5, Concat, Zenon
<1>7. r \in Seq(Nat) /\ Len(r) = 2 + 6
  BY <1>1, <1>5, <1>6, Zenon DEF Joined
<1> QED
  BY <1>7

\* A reply to CONNECT ends with the only empty line it has.
LEMMA ConnectReplies ==
  ASSUME NEW r \in Replies["connect"]
  PROVE  /\ r \in Seq(Nat) /\ Len(r) >= 3
         /\ \A i \in 1 .. (Len(r) - 1) : r[i] = Crlf /\ r[i + 1] = Crlf => i = Len(r) - 1
<1>1. PICK st \in {200, 407}, h \in {<<>>, <<1, Crlf>>, <<1, Crlf, 1, Crlf>>} :
        r = <<st, Crlf>> \o h \o <<Crlf>>
  BY DEF Replies
<1>2. Crlf = 13 /\ Crlf \in Nat /\ st \in Nat /\ st # 13
  BY <1>1 DEF Crlf
<1>3. PICK a, z : a = <<st, Crlf>> /\ z = <<Crlf>>
  BY ZenonT(60)
<1>4. /\ a \in Seq(Nat) /\ Len(a) = 2 /\ a[1] = st /\ a[2] = Crlf
      /\ z \in Seq(Nat) /\ Len(z) = 1 /\ z[1] = Crlf
  BY <1>2, <1>3, One, Two
<1>5. /\ h \in Seq(Nat) /\ Len(h) \in {0, 2, 4}
      /\ Len(h) # 0 => h[1] = 1 /\ h[2] = Crlf
      /\ Len(h) = 4 => h[3] = 1 /\ h[4] = Crlf
  <2>1. CASE h = <<>>
    BY <2>1
  <2>2. CASE h = <<1, Crlf>>
    <3>1. h \in Seq(Nat) /\ Len(h) = 2 /\ h[1] = 1 /\ h[2] = Crlf
      BY <1>2, <2>2, Two
    <3> QED
      BY <3>1
  <2>3. CASE h = <<1, Crlf, 1, Crlf>>
    <3>1. h \in Seq(Nat) /\ Len(h) = 4 /\ h[1] = 1 /\ h[2] = Crlf /\ h[3] = 1 /\ h[4] = Crlf
      BY <1>2, <2>3, Four
    <3> QED
      BY <3>1
  <2> QED
    BY <1>1, <2>1, <2>2, <2>3, Zenon
<1>6. PICK u : u = a \o h
  BY ZenonT(60)
<1>7. Joined(u, a, h)
  BY <1>4, <1>5, <1>6, Concat, ZenonT(60)
<1>8. /\ u \in Seq(Nat) /\ Len(u) = 2 + Len(h)
      /\ \A i \in 1 .. 2 : u[i] = a[i]
      /\ \A i \in 1 .. Len(h) : u[2 + i] = h[i]
  <2>1. Len(a) = 2
    BY <1>4, Zenon
  <2>2. /\ u \in Seq(Nat) /\ Len(u) = Len(a) + Len(h)
        /\ \A i \in 1 .. Len(a) : u[i] = a[i]
        /\ \A i \in 1 .. Len(h) : u[Len(a) + i] = h[i]
    BY <1>7, ZenonT(60) DEF Joined
  <2> QED
    BY <2>1, <2>2
<1>9. Joined(r, u, z)
  <2>1. r = u \o z
    BY <1>1, <1>3, <1>6, ZenonT(60)
  <2> QED
    BY <1>4, <1>8, <2>1, Concat, ZenonT(60)
<1>10. /\ r \in Seq(Nat) /\ Len(r) = Len(u) + 1
       /\ \A i \in 1 .. Len(u) : r[i] = u[i]
  BY <1>4, <1>9, ZenonT(60) DEF Joined
<1>11. Len(h) \in Nat /\ Len(u) \in Nat
  BY <1>5, <1>8
<1>12. Len(r) = 3 + Len(h)
  BY <1>8, <1>10, <1>11
<1>13. r[1] # Crlf
  <2>1. 1 \in 1 .. Len(u) /\ 1 \in 1 .. 2
    <3>1. Len(u) = 2 + Len(h)
      BY <1>8, Zenon
    <3> QED
      BY <1>11, <3>1
  <2>2. r[1] = u[1]
    BY <1>10, <2>1, ZenonT(60)
  <2>3. u[1] = a[1]
    BY <1>8, <2>1, ZenonT(60)
  <2>4. a[1] = st
    BY <1>4, Zenon
  <2>5. st # Crlf
    BY <1>2
  <2> QED
    BY <2>2, <2>3, <2>4, <2>5, ZenonT(60)
<1>14. Len(h) # 0 => r[3] = 1
  <2>1. Len(h) # 0 => 1 \in 1 .. Len(h) /\ 2 + 1 \in 1 .. Len(u) /\ 2 + 1 = 3
    BY <1>8, <1>11
  <2>2. \A i \in 1 .. Len(h) : u[2 + i] = h[i]
    BY <1>8, Zenon
  <2>3. \A i \in 1 .. Len(u) : r[i] = u[i]
    BY <1>10, Zenon
  <2>4. Len(h) # 0 => u[2 + 1] = h[1]
    BY <2>1, <2>2, ZenonT(60)
  <2>5. Len(h) # 0 => r[2 + 1] = u[2 + 1]
    BY <2>1, <2>3, ZenonT(60)
  <2>6. Len(h) # 0 => h[1] = 1
    BY <1>5, Zenon
  <2> QED
    BY <2>4, <2>5, <2>6
<1>15. Len(h) = 4 => r[5] = 1
  <2>1. Len(h) = 4 => 3 \in 1 .. Len(h) /\ 2 + 3 \in 1 .. Len(u) /\ 2 + 3 = 5
    BY <1>8, <1>11
  <2>2. \A i \in 1 .. Len(h) : u[2 + i] = h[i]
    BY <1>8, Zenon
  <2>3. \A i \in 1 .. Len(u) : r[i] = u[i]
    BY <1>10, Zenon
  <2>4. Len(h) = 4 => u[2 + 3] = h[3]
    BY <2>1, <2>2, ZenonT(60)
  <2>5. Len(h) = 4 => r[2 + 3] = u[2 + 3]
    BY <2>1, <2>3, ZenonT(60)
  <2>6. Len(h) = 4 => h[3] = 1
    BY <1>5, Zenon
  <2> QED
    BY <2>4, <2>5, <2>6
<1>16. ASSUME NEW i \in 1 .. (Len(r) - 1), r[i] = Crlf, r[i + 1] = Crlf
       PROVE  i = Len(r) - 1
  <2>1. i \in 1 .. (2 + Len(h)) /\ Len(h) \in {0, 2, 4}
    BY <1>5, <1>11, <1>12
  <2>2. i # 1
    BY <1>13, <1>16, ZenonT(60)
  <2>3. Len(h) # 0 => i # 2 /\ i # 3
    <3>1. 1 # Crlf /\ (i = 2 => i + 1 = 3)
      BY <1>2
    <3> QED
      BY <1>14, <1>16, <3>1, ZenonT(60)
  <2>4. Len(h) = 4 => i # 4 /\ i # 5
    <3>1. 1 # Crlf /\ (i = 4 => i + 1 = 5)
      BY <1>2
    <3> QED
      BY <1>15, <1>16, <3>1, ZenonT(60)
  <2>5. PICK n \in {0, 2, 4} : n = Len(h)
    BY <1>5, ZenonT(60)
  <2>6. i \in 1 .. (2 + n) /\ (n # 0 => i # 2 /\ i # 3) /\ (n = 4 => i # 4 /\ i # 5)
    BY <2>1, <2>3, <2>4, <2>5, ZenonT(60)
  <2>7. i = 2 + n
    BY <2>2, <2>6
  <2>8. Len(r) = 3 + n
    BY <1>12, <2>5, ZenonT(60)
  <2> QED
    BY <2>7, <2>8
<1>17. Len(r) >= 3
  BY <1>11, <1>12
<1> QED
  BY <1>10, <1>16, <1>17, ZenonT(60)

\* The address field of a reply to a SOCKS5 request: its type and length agree.
Address(a) ==
  /\ a \in Seq(Nat) /\ Len(a) >= 2
  /\ a[1] = 3 => Len(a) = 2 + a[2]
  /\ a[1] = 1 => Len(a) = 5
  /\ a[1] = 4 => Len(a) = 17

\* Every bound address has the length its type announces.
LEMMA Addresses ==
  ASSUME NEW a
  PROVE  a \in Bound => Address(a)
<1>1. ASSUME NEW t \in Nat, t \in {1, 4}, NEW n \in Nat, n = (IF t = 1 THEN 4 ELSE 16), a = <<t>> \o Bytes(n)
      PROVE  Address(a)
  <2>1. PICK p : p = <<t>>
    BY Zenon
  <2>2. p \in Seq(Nat) /\ Len(p) = 1 /\ p[1] = t
    BY <2>1, One
  <2>3. Bytes(n) \in Seq(Nat) /\ Len(Bytes(n)) = n
    BY BytesLen, Zenon
  <2>4. Joined(a, p, Bytes(n))
    BY <1>1, <2>1, <2>2, <2>3, Concat, Zenon
  <2>5. /\ a \in Seq(Nat) /\ Len(a) = Len(p) + Len(Bytes(n)) /\ \A i \in 1 .. Len(p) : a[i] = p[i]
    BY <2>4, Zenon DEF Joined
  <2>6. Len(a) = 1 + n /\ a[1] = t
    BY <2>2, <2>3, <2>5
  <2> QED
    BY <1>1, <2>5, <2>6 DEF Address
<1>2. CASE a = <<3, 0>>
  <2>1. a \in Seq(Nat) /\ Len(a) = 2 /\ a[1] = 3 /\ a[2] = 0
    BY <1>2, Two
  <2> QED
    BY <2>1 DEF Address
<1>3. CASE a = <<3, 2>> \o Bytes(2)
  <2>1. PICK p : p = <<3, 2>>
    BY Zenon
  <2>2. p \in Seq(Nat) /\ Len(p) = 2 /\ p[1] = 3 /\ p[2] = 2
    BY <2>1, Two
  <2>3. PICK b : b = Bytes(2) /\ b \in Seq(Nat) /\ Len(b) = 2
    <3>1. 2 \in Nat
      OBVIOUS
    <3> QED
      BY <3>1, BytesLen, Zenon
  <2>4. Joined(a, p, b)
    BY <1>3, <2>1, <2>2, <2>3, Concat, Zenon
  <2>5. /\ a \in Seq(Nat) /\ Len(a) = Len(p) + Len(b) /\ \A i \in 1 .. Len(p) : a[i] = p[i]
    BY <2>4, Zenon DEF Joined
  <2>6. Len(a) = 4 /\ a[1] = 3 /\ a[2] = 2
    <3>1. Len(p) = 2 /\ Len(b) = 2
      BY <2>2, <2>3, Zenon
    <3>2. Len(a) = 4 /\ 1 \in 1 .. Len(p) /\ 2 \in 1 .. Len(p)
      BY <2>5, <3>1
    <3> QED
      BY <2>2, <2>5, <3>2, Zenon
  <2>7. Len(a) >= 2 /\ Len(a) = 2 + a[2] /\ 3 # 1 /\ 3 # 4
    BY <2>6
  <2> QED
    BY <2>5, <2>6, <2>7, Zenon DEF Address
<1>4. CASE a = <<1>> \o Bytes(4)
  BY <1>1, <1>4
<1>5. CASE a = <<4>> \o Bytes(16)
  BY <1>1, <1>5
<1> QED
  BY <1>2, <1>3, <1>4, <1>5, Zenon DEF Bound

\* A reply the SOCKS5 handler accepts is as long as its head tells.
Fits(r) ==
  /\ r \in Seq(Nat) /\ Len(r) >= 6
  /\ HeadOK(r) /\ r[4] = 3 => Len(r) = 5 + (r[5] + 2)
  /\ HeadOK(r) /\ r[4] # 3 => Len(r) = 4 + (Skip(r) + 2)

\* Every answer to a SOCKS5 request that the handler accepts has the length its address announces.
LEMMA Replies5 ==
  ASSUME NEW r \in Replies["request5"]
  PROVE  Fits(r)
<1>1. \/ \E rep \in {0, 5}, a \in Bound : r = Reply5(rep, a)
      \/ r \in Malformed5
  BY DEF Replies
<1>2. ASSUME NEW rep \in {0, 5}, NEW a, Address(a), r = Reply5(rep, a)
      PROVE  Fits(r)
  <2>1. PICK p : p = <<5, rep, 0>>
    BY Zenon
  <2>2. p \in Seq(Nat) /\ Len(p) = 3
    <3>1. rep \in Nat
      BY <1>2
    <3> QED
      BY <2>1, <3>1, Three
  <2>3. PICK b : b = Bytes(2) /\ b \in Seq(Nat) /\ Len(b) = 2
    <3>1. 2 \in Nat
      OBVIOUS
    <3> QED
      BY <3>1, BytesLen, Zenon
  <2>4. a \in Seq(Nat) /\ Len(a) >= 2 /\ Len(a) \in Nat
    BY <1>2 DEF Address
  <2>5. PICK u : u = p \o a
    BY Zenon
  <2>6. Joined(u, p, a)
    BY <2>2, <2>4, <2>5, Concat, Zenon
  <2>7. /\ u \in Seq(Nat) /\ Len(u) = Len(p) + Len(a) /\ \A i \in 1 .. Len(a) : u[Len(p) + i] = a[i]
    BY <2>6, Zenon DEF Joined
  <2>8. Len(u) = 3 + Len(a) /\ u[4] = a[1] /\ u[5] = a[2]
    <3>1. Len(u) = 3 + Len(a) /\ \A i \in 1 .. Len(a) : u[3 + i] = a[i]
      BY <2>2, <2>7, Zenon
    <3>2. 1 \in 1 .. Len(a) /\ 2 \in 1 .. Len(a)
      BY <2>4
    <3>3. u[3 + 1] = a[1] /\ u[3 + 2] = a[2]
      BY <3>1, <3>2, Zenon
    <3> QED
      BY <3>1, <3>3
  <2>9. Joined(r, u, b)
    BY <1>2, <2>1, <2>3, <2>5, <2>7, Concat, Zenon DEF Reply5
  <2>10. r \in Seq(Nat) /\ Len(r) = Len(u) + Len(b) /\ \A i \in 1 .. Len(u) : r[i] = u[i]
    BY <2>9, Zenon DEF Joined
  <2>11. Len(r) = 5 + Len(a) /\ r[4] = a[1] /\ r[5] = a[2]
    <3>1. Len(u) = 3 + Len(a) /\ Len(b) = 2 /\ Len(r) = Len(u) + Len(b)
      BY <2>3, <2>8, <2>10, Zenon
    <3>2. Len(r) = 5 + Len(a) /\ 4 \in 1 .. Len(u) /\ 5 \in 1 .. Len(u)
      BY <2>4, <3>1
    <3> QED
      BY <2>8, <2>10, <3>2, Zenon
  <2>12. a[2] \in Nat
    BY <2>4
  <2>13. CASE a[1] = 3
    <3>1. Len(a) = 2 + a[2] /\ r[4] = 3
      BY <1>2, <2>11, <2>13, Zenon DEF Address
    <3>2. Len(r) = 5 + (r[5] + 2) /\ Len(r) >= 6
      BY <2>11, <2>12, <3>1, SMTT(60)
    <3> QED
      BY <2>10, <3>1, <3>2, Zenon DEF Fits
  <2>14. CASE a[1] # 3
    <3>1. HeadOK(r) => a[1] \in {1, 4}
      BY <2>11, <2>14 DEF HeadOK
    <3>2. a[1] = 1 => Len(a) = 5 /\ Skip(r) = 4
      BY <1>2, <2>11 DEF Address, Skip
    <3>3. a[1] = 4 => Len(a) = 17 /\ Skip(r) = 16
      BY <1>2, <2>11 DEF Address, Skip
    <3>4. HeadOK(r) => Len(r) = 4 + (Skip(r) + 2)
      <4>1. CASE a[1] = 1
        <5>1. Len(r) = 5 + 5 /\ Skip(r) = 4
          BY <2>11, <3>2, <4>1, Zenon
        <5> QED
          BY <5>1
      <4>2. CASE a[1] = 4
        <5>1. Len(r) = 5 + 17 /\ Skip(r) = 16
          BY <2>11, <3>3, <4>2, Zenon
        <5> QED
          BY <5>1
      <4> QED
        BY <3>1, <4>1, <4>2, Zenon
    <3>5. Len(r) >= 6 /\ r[4] # 3
      BY <2>4, <2>11, <2>14
    <3> QED
      BY <2>10, <3>4, <3>5, Zenon DEF Fits
  <2> QED
    BY <2>13, <2>14, Zenon
<1>3. ASSUME NEW x \in {0, 1}, NEW y \in {1, 9}, x = 1 \/ y = 9, NEW n \in {2, 6},
             r = <<5, 0, x, y>> \o Bytes(n)
      PROVE  Fits(r)
  <2>1. PICK p : p = <<5, 0, x, y>>
    BY Zenon
  <2>2. p \in Seq(Nat) /\ Len(p) = 4 /\ p[3] = x /\ p[4] = y
    <3>1. x \in Nat /\ y \in Nat
      BY <1>3
    <3> QED
      BY <2>1, <3>1, Four
  <2>3. Bytes(n) \in Seq(Nat) /\ Len(Bytes(n)) = n
    BY BytesLen
  <2>4. Joined(r, p, Bytes(n))
    BY <1>3, <2>1, <2>2, <2>3, Concat, Zenon
  <2>5. r \in Seq(Nat) /\ Len(r) = Len(p) + Len(Bytes(n)) /\ \A i \in 1 .. Len(p) : r[i] = p[i]
    BY <2>4, Zenon DEF Joined
  <2>6. Len(r) = 4 + n /\ r[3] = x /\ r[4] = y
    BY <2>2, <2>3, <2>5
  <2>7. ~HeadOK(r)
    BY <1>3, <2>6 DEF HeadOK
  <2> QED
    <3>1. Len(r) >= 6
      BY <1>3, <2>6
    <3> QED
      BY <2>5, <2>7, <3>1, Zenon DEF Fits
<1>4. CASE r = <<5, 0, 1, 1>> \o Bytes(6)
  BY <1>3, <1>4, Zenon
<1>5. CASE r = <<5, 0, 0, 9>> \o Bytes(2)
  BY <1>3, <1>5, Zenon
<1>6. CASE \E rep \in {0, 5}, a \in Bound : r = Reply5(rep, a)
  BY <1>2, <1>6, Addresses, Zenon
<1> QED
  BY <1>1, <1>4, <1>5, <1>6, Zenon DEF Malformed5
-----------------------------------------------------------------------------
(* The bytes between the peer and the handlers *)

\* The request a blocked read waits for the reply to.
Query ==
  [headers |-> "connect", method |-> "greet", auth |-> "login", head |-> "request5",
   length |-> "request5", address |-> "request5", reply4 |-> "request4"]

\* Grants, by request.
Opens(q, r) ==
  CASE q = "connect"  -> r[1] = 200
    [] q = "request5" -> r[2] = 0
    [] q = "request4" -> r[2] = 90
    [] OTHER          -> FALSE

\* What the peer sends: the first k bytes of its reply r, then the payload.
Line(r, k, i) == IF i <= k THEN r[i] ELSE Datum(i - k)

\* s is what is left of that after the first c bytes, when n bytes of payload
\* have been sent.
Remains(s, r, k, n, c) ==
  /\ s \in Seq(Nat) /\ c + Len(s) = k + n
  /\ \A i \in 1 .. Len(s) : s[i] = Line(r, k, c + i)

\* Bytes of the reply r that the handler has consumed.
Consumed(r) ==
  CASE pc = "headers" -> Len(buf)
    [] pc = "length"  -> 4
    [] pc = "address" -> IF r[4] = 3 THEN 5 ELSE 4
    [] OTHER          -> 0

\* The peer has not answered yet.
Waiting ==
  /\ owes = Query[pc] /\ pc \notin {"length", "address"}
  /\ in = <<>> /\ buf = <<>> /\ ~granted

\* The peer has sent the reply r, or all but its last byte before it hung up.
Partway(r, k) ==
  /\ r \in Replies[Query[pc]] /\ k \in {Len(r) - 1, Len(r)} /\ owes = "nothing"
  /\ k # Len(r) => eof /\ ~granted
  /\ k = Len(r) => (granted <=> Opens(Query[pc], r))
  /\ Remains(in, r, k, sent, Consumed(r))
  /\ pc = "headers" => buf \in Seq(Nat) /\ \A i \in 1 .. Len(buf) : buf[i] = Line(r, k, i)
  /\ pc # "headers" => buf = <<>>
  /\ pc \in {"length", "address"} => HeadOK(r)
  /\ pc = "length" => r[4] = 3
  /\ pc = "address" => skip = IF r[4] = 3 THEN r[5] ELSE Skip(r)

\* The user's bytes g, those held back p and those on their way s are the
\* first n bytes of the payload.
Whole(g, p, s, n) ==
  /\ g \in Seq(Nat) /\ p \in Seq(Nat) /\ s \in Seq(Nat) /\ (Len(g) + Len(p)) + Len(s) = n
  /\ \A i \in 1 .. Len(g) : g[i] = Datum(i)
  /\ \A i \in 1 .. Len(p) : p[i] = Datum(Len(g) + i)
  /\ \A i \in 1 .. Len(s) : s[i] = Datum((Len(g) + Len(p)) + i)

Quiet == {"dial", "proxytls", "connect", "greet", "login", "request5", "request4"}
Asking == {"headers", "method", "auth", "head", "length", "address", "reply4"}

\* What the peer has sent, part by part: before a request nothing is on its
\* way; then nothing or the reply and, once it grants the tunnel, the payload.
TunnelInv ==
  /\ sent \in Nat /\ granted \in BOOLEAN /\ eof \in BOOLEAN /\ (~granted => sent = 0)
  /\ pc \in Quiet \cup Asking => got = <<>> /\ pre = <<>>
  /\ pc \in Quiet => in = <<>> /\ buf = <<>> /\ owes = "nothing" /\ ~granted
  /\ pc \in Asking => Waiting \/ \E r, k : Partway(r, k)
  /\ pc = "tls" \/ res = "ok" => granted /\ owes = "nothing" /\ Whole(got, pre, in, sent)

\* Reading m bytes of what remains leaves the rest of it.
LEMMA RemainsRest ==
  ASSUME NEW r, NEW k \in Nat, NEW n \in Nat, NEW c \in Nat, NEW s, Remains(s, r, k, n, c),
         NEW m \in Nat, m <= Len(s), NEW t, t = From(s, m + 1)
  PROVE  Remains(t, r, k, n, c + m)
<1>1. /\ s \in Seq(Nat) /\ c + Len(s) = k + n
      /\ \A i \in 1 .. Len(s) : s[i] = Line(r, k, c + i)
  BY Zenon DEF Remains
<1>2. Len(s) \in Nat /\ m \in 0 .. Len(s)
  BY <1>1
<1>3. t \in Seq(Nat) /\ Len(t) = Len(s) - m /\ \A i \in 1 .. (Len(s) - m) : t[i] = s[m + i]
  BY <1>1, <1>2, Rest, ZenonT(60)
<1>4. (c + m) + Len(t) = k + n
  <2>1. c + Len(s) = k + n /\ Len(t) = Len(s) - m
    BY <1>1, <1>3, Zenon
  <2> QED
    BY <1>2, <2>1, SMTT(60)
<1>5. ASSUME NEW i \in 1 .. Len(t) PROVE t[i] = Line(r, k, (c + m) + i)
  <2>1. i \in 1 .. (Len(s) - m)
    BY <1>3, <1>5, Zenon
  <2>2. m + i \in 1 .. Len(s) /\ c + (m + i) = (c + m) + i
    BY <1>2, <2>1
  <2> QED
    BY <1>1, <1>3, <2>1, <2>2, Zenon
<1> QED
  BY <1>3, <1>4, <1>5, Zenon DEF Remains

\* Behind the whole reply there is only payload.
LEMMA RemainsWhole ==
  ASSUME NEW r, NEW k \in Nat, NEW n \in Nat, NEW s, Remains(s, r, k, n, k)
  PROVE  Whole(<<>>, <<>>, s, n)
<1>1. /\ s \in Seq(Nat) /\ k + Len(s) = k + n
      /\ \A i \in 1 .. Len(s) : s[i] = Line(r, k, k + i)
  BY Zenon DEF Remains
<1>2. Len(s) \in Nat
  BY <1>1
<1>3. PICK e : e = <<>> /\ e \in Seq(Nat) /\ Len(e) = 0
  <2>1. <<>> \in Seq(Nat) /\ Len(<<>>) = 0
    OBVIOUS
  <2> QED
    BY <2>1, Zenon
<1>4. \A i \in 1 .. Len(e) : FALSE
  BY <1>3
<1>5. (Len(e) + Len(e)) + Len(s) = n
  BY <1>1, <1>2, <1>3
<1>6. ASSUME NEW i \in 1 .. Len(s) PROVE s[i] = Datum((Len(e) + Len(e)) + i)
  <2>1. s[i] = Line(r, k, k + i)
    BY <1>1, Zenon
  <2>2. i \in Nat \ {0}
    BY <1>2
  <2>3. Line(r, k, k + i) = Datum((k + i) - k)
    BY <2>2 DEF Line
  <2> QED
    BY <1>3, <2>1, <2>2, <2>3
<1>7. e \in Seq(Nat) /\ s \in Seq(Nat)
  BY <1>1, <1>3, Zenon
<1>8. Whole(e, e, s, n)
  BY <1>4, <1>5, <1>6, <1>7, Zenon DEF Whole
<1> QED
  BY <1>3, <1>8, Zenon

\* The bytes of Whole, put together, are the payload.
LEMMA WholePayload ==
  ASSUME NEW g, NEW p, NEW s, NEW n \in Nat, Whole(g, p, s, n)
  PROVE  g \o p \o s = Payload(n)
<1>1. /\ g \in Seq(Nat) /\ p \in Seq(Nat) /\ s \in Seq(Nat) /\ (Len(g) + Len(p)) + Len(s) = n
      /\ \A i \in 1 .. Len(g) : g[i] = Datum(i)
      /\ \A i \in 1 .. Len(p) : p[i] = Datum(Len(g) + i)
      /\ \A i \in 1 .. Len(s) : s[i] = Datum((Len(g) + Len(p)) + i)
  BY Zenon DEF Whole
<1>2. PICK u : u = g \o p
  BY Zenon
<1>3. Joined(u, g, p)
  BY <1>1, <1>2, Concat, Zenon
<1>4. /\ u \in Seq(Nat) /\ Len(u) = Len(g) + Len(p)
      /\ \A i \in 1 .. Len(g) : u[i] = g[i]
      /\ \A i \in 1 .. Len(p) : u[Len(g) + i] = p[i]
  BY <1>3, Zenon DEF Joined
<1>5. PICK v : v = u \o s
  BY Zenon
<1>6. Joined(v, u, s)
  BY <1>1, <1>4, <1>5, Concat, Zenon
<1>7. /\ v \in Seq(Nat) /\ Len(v) = Len(u) + Len(s)
      /\ \A i \in 1 .. Len(u) : v[i] = u[i]
      /\ \A i \in 1 .. Len(s) : v[Len(u) + i] = s[i]
  BY <1>6, Zenon DEF Joined
<1>8. PICK w : w = Payload(n)
  BY Zenon
<1>9. w \in Seq(Nat) /\ Len(w) = n /\ \A i \in 1 .. n : w[i] = Datum(i)
  <2>1. \A i \in 1 .. n : Datum(i) \in Nat
    BY DEF Datum
  <2>2. w \in [1 .. n -> Nat] /\ \A i \in 1 .. n : w[i] = Datum(i)
    BY <1>8, <2>1, Zenon DEF Payload
  <2> QED
    BY <2>2, FcnSeq, Zenon
<1>10. Len(g) \in Nat /\ Len(p) \in Nat /\ Len(s) \in Nat
  BY <1>1
<1>11. Len(v) = n
  BY <1>1, <1>4, <1>7, Zenon
<1>12. ASSUME NEW i \in 1 .. n PROVE v[i] = Datum(i)
  <2>1. CASE i \in 1 .. Len(g)
    <3>1. i \in 1 .. Len(u)
      BY <1>4, <1>10, <2>1
    <3>2. v[i] = u[i]
      BY <1>7, <3>1, Zenon
    <3>3. u[i] = g[i]
      BY <1>4, <2>1, Zenon
    <3>4. g[i] = Datum(i)
      BY <1>1, <2>1, Zenon
    <3> QED
      BY <3>2, <3>3, <3>4, Zenon
  <2>2. CASE i \in (Len(g) + 1) .. (Len(g) + Len(p))
    <3>1. PICK j : j = i - Len(g)
      BY Zenon
    <3>2. j \in 1 .. Len(p) /\ Len(g) + j = i /\ i \in 1 .. Len(u)
      BY <1>4, <1>10, <2>2, <3>1
    <3>3. v[i] = u[i]
      BY <1>7, <3>2, Zenon
    <3>4. u[i] = p[j]
      BY <1>4, <3>2, Zenon
    <3>5. p[j] = Datum(Len(g) + j)
      BY <1>1, <3>2, Zenon
    <3> QED
      BY <3>2, <3>3, <3>4, <3>5, Zenon
  <2>3. CASE i \in ((Len(g) + Len(p)) + 1) .. n
    <3>1. PICK j : j = i - (Len(g) + Len(p))
      BY Zenon
    <3>2. j \in 1 .. Len(s) /\ (Len(g) + Len(p)) + j = i
      BY <1>1, <1>10, <2>3, <3>1
    <3>3. v[Len(u) + j] = s[j]
      BY <1>7, <3>2, Zenon
    <3>4. s[j] = Datum((Len(g) + Len(p)) + j)
      BY <1>1, <3>2, Zenon
    <3>5. Len(u) + j = i
      BY <1>4, <3>2, Zenon
    <3> QED
      BY <3>2, <3>3, <3>4, <3>5, Zenon
  <2> QED
    BY <1>10, <2>1, <2>2, <2>3
<1>13. v = w
  BY <1>7, <1>9, <1>11, <1>12, SameSeq
<1> QED
  BY <1>2, <1>5, <1>8, <1>13, Zenon
-----------------------------------------------------------------------------
(* The steps that leave the bytes alone *)

\* A failed dial promises nothing about the bytes.
LEMMA FailKeeps ==
  ASSUME TunnelInv, pc' = "done", res' = "error", UNCHANGED <<eof, granted, sent>>
  PROVE  TunnelInv'
<1>1. eof' = eof /\ granted' = granted /\ sent' = sent
  BY Zenon
<1>2. pc' \notin Quiet /\ pc' \notin Asking /\ pc' # "tls" /\ res' # "ok"
  BY Zenon DEF Quiet, Asking
<1> QED
  BY <1>1, <1>2 DEF TunnelInv

\* A step between two requests leaves the bytes alone.
LEMMA QuietKeeps ==
  ASSUME TunnelInv, pc \in Quiet, pc' \in Quiet, res' = "pending",
         UNCHANGED <<buf, pre, got, in, owes, eof, granted, sent>>
  PROVE  TunnelInv'
<1>1. /\ buf' = buf /\ pre' = pre /\ got' = got /\ in' = in /\ owes' = owes
      /\ eof' = eof /\ granted' = granted /\ sent' = sent
  BY Zenon
<1>2. pc' \notin Asking /\ pc' # "tls" /\ res' # "ok"
  BY Zenon DEF Quiet, Asking
<1> QED
  BY <1>1, <1>2 DEF TunnelInv

\* A request goes out.
LEMMA SendKeeps ==
  ASSUME TunnelInv, pc \in Quiet, pc' \in Asking \ {"length", "address"}, res' = "pending",
         owes' = Query[pc'], UNCHANGED <<buf, pre, got, in, eof, granted, sent>>
  PROVE  TunnelInv'
<1>1. /\ buf' = buf /\ pre' = pre /\ got' = got /\ in' = in
      /\ eof' = eof /\ granted' = granted /\ sent' = sent
  BY Zenon
<1>2. pc' \notin Quiet /\ pc' # "tls" /\ res' # "ok"
  BY Zenon DEF Quiet, Asking
<1>3. Waiting'
  BY <1>1 DEF TunnelInv, Waiting
<1> QED
  BY <1>1, <1>2, <1>3 DEF TunnelInv

\* The tunnel is up: what follows the reply is payload, read already or not.
LEMMA OpenKeeps ==
  ASSUME TunnelInv, granted, owes = "nothing", Whole(got', pre', in', sent),
         pc' \in {"tls", "done"}, UNCHANGED <<owes, eof, granted, sent>>
  PROVE  TunnelInv'
<1>1. owes' = owes /\ eof' = eof /\ granted' = granted /\ sent' = sent
  BY Zenon
<1>2. pc' \notin Quiet /\ pc' \notin Asking
  BY Zenon DEF Quiet, Asking
<1> QED
  BY <1>1, <1>2 DEF TunnelInv

\* A blocked read returns bytes only of a reply.
LEMMA ReplyThere ==
  ASSUME TunnelInv, pc \in Asking, NEW n \in Nat \ {0}, Len(in) >= n
  PROVE  \E r, k : Partway(r, k)
<1>1. ~Waiting
  <2>1. in = <<>> => Len(in) = 0
    OBVIOUS
  <2>2. in # <<>>
    BY <2>1
  <2> QED
    BY <2>2, Zenon DEF Waiting
<1> QED
  BY <1>1 DEF TunnelInv

\* The replies are sequences of bytes, and none is empty.
LEMMA ReplyBytes ==
  ASSUME pc \in Asking, NEW r \in Replies[Query[pc]]
  PROVE  r \in Seq(Nat) /\ Len(r) \in Nat /\ Len(r) >= 2
<1>1. CASE pc \in {"method", "auth"}
  <2>1. Query[pc] \in {"greet", "login"}
    BY <1>1 DEF Query
  <2>2. r \in Seq(Nat) /\ Len(r) = 2
    BY <2>1, ShortReplies, Zenon
  <2> QED
    BY <2>2
<1>2. CASE pc = "headers"
  <2>1. Query[pc] = "connect"
    BY <1>2 DEF Query
  <2>2. r \in Seq(Nat) /\ Len(r) >= 3
    BY <2>1, ConnectReplies, Zenon
  <2> QED
    BY <2>2
<1>3. CASE pc \in {"head", "length", "address"}
  <2>1. Query[pc] = "request5"
    BY <1>3 DEF Query
  <2>2. Fits(r)
    BY <2>1, Replies5, Zenon
  <2>3. r \in Seq(Nat) /\ Len(r) >= 6
    BY <2>2, Zenon DEF Fits
  <2> QED
    BY <2>3
<1>4. CASE pc = "reply4"
  <2>1. Query[pc] = "request4"
    BY <1>4 DEF Query
  <2>2. r \in Seq(Nat) /\ Len(r) = 8
    BY <2>1, Replies4, Zenon
  <2> QED
    BY <2>2
<1> QED
  BY <1>1, <1>2, <1>3, <1>4, Zenon DEF Asking
-----------------------------------------------------------------------------
(* The reads of the SOCKS handlers *)

\* io.ReadFull takes the next n bytes of the reply.
LEMMA ReadNext ==
  ASSUME TunnelInv, pc \in Asking, NEW r, NEW k, Partway(r, k), NEW c \in Nat, c = Consumed(r),
         NEW n \in Nat, ReadFull(n)
  PROVE  /\ r \in Seq(Nat) /\ Len(r) \in Nat /\ k \in Nat /\ k <= Len(r) /\ sent \in Nat
         /\ c + n <= k + sent
         /\ \A i \in 1 .. n : in[i] = Line(r, k, c + i)
         /\ Remains(in', r, k, sent, c + n)
<1>1. /\ r \in Replies[Query[pc]] /\ k \in {Len(r) - 1, Len(r)} /\ Remains(in, r, k, sent, c)
  BY DEF Partway
<1>2. r \in Seq(Nat) /\ Len(r) \in Nat /\ Len(r) >= 2
  BY <1>1, ReplyBytes, Zenon
<1>3. k \in Nat /\ k <= Len(r) /\ sent \in Nat
  BY <1>1, <1>2, SMTT(60) DEF TunnelInv
<1>4. Len(in) >= n /\ in' = From(in, n + 1)
  BY Zenon DEF ReadFull
<1>5. /\ in \in Seq(Nat) /\ c + Len(in) = k + sent
      /\ \A i \in 1 .. Len(in) : in[i] = Line(r, k, c + i)
  BY <1>1, Zenon DEF Remains
<1>6. Len(in) \in Nat
  BY <1>5
<1>7. c + n <= k + sent /\ n <= Len(in)
  <2>1. c + Len(in) = k + sent
    BY <1>5, Zenon
  <2> QED
    BY <1>3, <1>4, <1>6, <2>1
<1>8. \A i \in 1 .. n : in[i] = Line(r, k, c + i)
  <2>1. \A i \in 1 .. n : i \in 1 .. Len(in)
    BY <1>6, <1>7
  <2> QED
    BY <1>5, <2>1, Zenon
<1>9. Remains(in', r, k, sent, c + n)
  BY <1>1, <1>3, <1>4, <1>7, RemainsRest, Zenon
<1> QED
  BY <1>2, <1>3, <1>7, <1>8, <1>9, Zenon

\* Bytes up to the end of the reply are there only if the reply is whole.
LEMMA ReplyWhole ==
  ASSUME TunnelInv, NEW r, NEW k, Partway(r, k), Len(r) \in Nat, Len(r) <= k + sent
  PROVE  k = Len(r) /\ (granted <=> Opens(Query[pc], r))
<1>1. k \in {Len(r) - 1, Len(r)} /\ (k # Len(r) => ~granted) /\ sent \in Nat /\ (~granted => sent = 0)
  BY DEF Partway, TunnelInv
<1>2. k = Len(r)
  <2> SUFFICES ASSUME k # Len(r) PROVE FALSE
    BY Zenon
  <2>1. sent = 0 /\ k = Len(r) - 1
    BY <1>1
  <2> QED
    BY <2>1
<1> QED
  BY <1>2 DEF Partway

\* The method and the answer to the credentials open no tunnel.
LEMMA MethodKeeps ==
  ASSUME TunnelInv, Inv', pc \in {"method", "auth"}, ReadFull(2),
         NEW l \in {"request5", "login"}, Goto(l)
  PROVE  TunnelInv'
<1>1. pc \in Asking
  BY Zenon DEF Asking
<1>2. Len(in) >= 2 /\ 2 \in Nat \ {0}
  BY DEF ReadFull
<1>3. PICK r, k : Partway(r, k)
  BY <1>1, <1>2, ReplyThere, Zenon
<1>4. Consumed(r) = 0
  BY Zenon DEF Consumed
<1>5. /\ Len(r) \in Nat /\ k \in Nat /\ k <= Len(r) /\ sent \in Nat
      /\ 0 + 2 <= k + sent /\ Remains(in', r, k, sent, 0 + 2)
  <2>1. 0 \in Nat /\ 2 \in Nat
    OBVIOUS
  <2> QED
    BY <1>1, <1>3, <1>4, <2>1, ReadNext
<1>6. Query[pc] \in {"greet", "login"}
  BY DEF Query
<1>7. Len(r) = 2
  <2>1. r \in Replies[Query[pc]]
    BY <1>3, Zenon DEF Partway
  <2> QED
    BY <1>6, <2>1, ShortReplies, Zenon
<1>8. k = Len(r) /\ (granted <=> Opens(Query[pc], r))
  <2>1. Len(r) <= k + sent
    BY <1>5, <1>7
  <2> QED
    BY <1>3, <1>5, <2>1, ReplyWhole, Zenon
<1>9. ~granted
  BY <1>6, <1>8 DEF Opens
<1>10. in' = <<>>
  <2>1. sent = 0
    BY <1>9 DEF TunnelInv
  <2>2. in' \in Seq(Nat) /\ (0 + 2) + Len(in') = k + sent
    BY <1>5, Zenon DEF Remains
  <2>3. Len(in') = 0
    BY <1>7, <1>8, <2>1, <2>2
  <2> QED
    BY <2>2, <2>3
<1>11. /\ pc' = l /\ pre' = pre /\ got' = got /\ buf' = buf
       /\ eof' = eof /\ owes' = owes /\ granted' = granted /\ sent' = sent
  BY Zenon DEF Goto, ReadFull, peer
<1>12. owes = "nothing" /\ buf = <<>> /\ pre = <<>> /\ got = <<>>
  <2>1. owes = "nothing" /\ buf = <<>>
    BY <1>3 DEF Partway
  <2>2. pre = <<>> /\ got = <<>>
    BY <1>1 DEF TunnelInv
  <2> QED
    BY <2>1, <2>2, Zenon
<1>13. pc' \in Quiet /\ pc' \notin Asking /\ pc' # "tls" /\ pc' # "done"
  BY <1>11, Zenon DEF Quiet, Asking
<1>14. res' # "ok"
  BY <1>13, Zenon DEF Inv
<1> QED
  BY <1>9, <1>10, <1>11, <1>12, <1>13, <1>14 DEF TunnelInv

\* A part of the reply is read and the next part is awaited.
LEMMA ReplyGoesOn ==
  ASSUME TunnelInv, Inv', pc \in Asking, pc' \in Asking \ {"headers", "done"}, NEW r, NEW k, Partway(r, k),
         pc # "headers", Query[pc'] = Query[pc],
         Remains(in', r, k, sent, Consumed(r)'),
         pc' \in {"length", "address"} => HeadOK(r),
         pc' = "length" => r[4] = 3,
         pc' = "address" => skip' = IF r[4] = 3 THEN r[5] ELSE Skip(r),
         UNCHANGED <<buf, pre, got, eof, owes, granted, sent>>
  PROVE  TunnelInv'
<1>1. /\ buf' = buf /\ pre' = pre /\ got' = got /\ eof' = eof /\ owes' = owes
      /\ granted' = granted /\ sent' = sent
  BY Zenon
<1>2. pc' \notin Quiet /\ pc' # "tls" /\ pc' # "done" /\ pc' # "headers"
  BY Zenon DEF Quiet, Asking
<1>3. res' # "ok"
  BY <1>2, Zenon DEF Inv
<1>4. Partway(r, k)'
  BY <1>1, <1>2 DEF Partway
<1>5. pre' = <<>> /\ got' = <<>>
  BY <1>1 DEF TunnelInv
<1> QED
  BY <1>1, <1>2, <1>3, <1>4, <1>5 DEF TunnelInv

\* Reading the head of a SOCKS5 reply.
LEMMA HeadReadKeeps ==
  ASSUME TunnelInv, Inv', HeadRead
  PROVE  TunnelInv'
<1>1. pc = "head" /\ pc \in Asking /\ ReadFull(4)
  BY Zenon DEF HeadRead, Asking
<1>2. UNCHANGED <<buf, eof, owes, granted, sent>>
  BY <1>1, Zenon DEF ReadFull, peer
<1>3. CASE ~HeadOK(in)
  <2>1. pc' = "done" /\ res' = "error"
    BY <1>3, Zenon DEF HeadRead, HandlerFail
  <2> QED
    BY <1>2, <2>1, FailKeeps, Zenon
<1>4. CASE HeadOK(in)
  <2>1. Len(in) >= 4 /\ 4 \in Nat \ {0}
    BY <1>1 DEF ReadFull
  <2>2. PICK r, k : Partway(r, k)
    BY <1>1, <2>1, ReplyThere, Zenon
  <2>3. Consumed(r) = 0 /\ Query[pc] = "request5"
    BY <1>1 DEF Consumed, Query
  <2>4. /\ Len(r) \in Nat /\ k \in Nat /\ sent \in Nat
        /\ \A i \in 1 .. 4 : in[i] = Line(r, k, 0 + i)
        /\ Remains(in', r, k, sent, 0 + 4)
    <3>1. 0 \in Nat /\ 4 \in Nat
      OBVIOUS
    <3> QED
      BY <1>1, <2>2, <2>3, <3>1, ReadNext
  <2>5. Fits(r) /\ k \in {Len(r) - 1, Len(r)}
    BY <2>2, <2>3, Replies5, Zenon DEF Partway
  <2>6. k >= 5
    BY <2>4, <2>5 DEF Fits
  <2>7. in[1] = r[1] /\ in[2] = r[2] /\ in[3] = r[3] /\ in[4] = r[4]
    <3>1. \A i \in 1 .. 4 : Line(r, k, 0 + i) = r[i]
      BY <2>4, <2>6 DEF Line
    <3>2. \A i \in 1 .. 4 : in[i] = r[i]
      BY <2>4, <3>1, Zenon
    <3> QED
      BY <3>2
  <2>8. HeadOK(r) /\ Skip(in) = Skip(r)
    BY <1>4, <2>7 DEF HeadOK, Skip
  <2>9. /\ pc' = (IF r[4] = 3 THEN "length" ELSE "address") /\ skip' = Skip(r)
        /\ pre' = pre /\ got' = got
    BY <1>4, <2>7, <2>8, Zenon DEF HeadRead
  <2>10. Consumed(r)' = 4 /\ 0 + 4 = 4
    BY <2>9 DEF Consumed
  <2>11. Remains(in', r, k, sent, Consumed(r)')
    BY <2>4, <2>10, Zenon
  <2>12. pc' \in {"length", "address"} /\ pc' \in Asking \ {"headers", "done"} /\ Query[pc'] = "request5"
    BY <2>9 DEF Asking, Query
  <2>13. pc' = "length" => r[4] = 3
    BY <2>9
  <2>14. pc' = "address" => skip' = IF r[4] = 3 THEN r[5] ELSE Skip(r)
    BY <2>9
  <2>15. pc # "headers"
    BY <1>1, Zenon
  <2> QED
    BY <1>1, <1>2, <2>2, <2>3, <2>8, <2>9, <2>11, <2>12, <2>13, <2>14, <2>15, ReplyGoesOn, Zenon
<1> QED
  BY <1>3, <1>4, Zenon

\* Reading the length of a domain name.
LEMMA LengthReadKeeps ==
  ASSUME TunnelInv, Inv', LengthRead
  PROVE  TunnelInv'
<1>1. pc = "length" /\ pc \in Asking /\ ReadFull(1)
  BY Zenon DEF LengthRead, Asking
<1>2. UNCHANGED <<buf, eof, owes, granted, sent>>
  BY <1>1, Zenon DEF ReadFull, peer
<1>3. Len(in) >= 1 /\ 1 \in Nat \ {0}
  BY <1>1 DEF ReadFull
<1>4. PICK r, k : Partway(r, k)
  BY <1>1, <1>3, ReplyThere, Zenon
<1>5. Consumed(r) = 4 /\ Query[pc] = "request5"
  BY <1>1 DEF Consumed, Query
<1>6. /\ Len(r) \in Nat /\ k \in Nat /\ sent \in Nat
      /\ \A i \in 1 .. 1 : in[i] = Line(r, k, 4 + i)
      /\ Remains(in', r, k, sent, 4 + 1)
  <2>1. 1 \in Nat /\ 4 \in Nat
    OBVIOUS
  <2> QED
    BY <1>1, <1>4, <1>5, <2>1, ReadNext
<1>7. Fits(r) /\ k \in {Len(r) - 1, Len(r)}
  BY <1>4, <1>5, Replies5, Zenon DEF Partway
<1>8. k >= 5
  BY <1>6, <1>7 DEF Fits
<1>9. in[1] = r[5]
  <2>1. Line(r, k, 4 + 1) = r[5]
    BY <1>6, <1>8 DEF Line
  <2> QED
    BY <1>6, <2>1
<1>10. HeadOK(r) /\ r[4] = 3
  BY <1>1, <1>4 DEF Partway
<1>11. pc' = "address" /\ skip' = r[5] /\ pre' = pre /\ got' = got
  BY <1>9, Zenon DEF LengthRead
<1>12. Consumed(r)' = 5 /\ 4 + 1 = 5
  BY <1>10, <1>11 DEF Consumed
<1>13. Remains(in', r, k, sent, Consumed(r)')
  BY <1>6, <1>12, Zenon
<1>14. pc' \in Asking \ {"headers", "done"} /\ Query[pc'] = "request5" /\ pc' # "length" /\ pc # "headers"
  BY <1>1, <1>11 DEF Asking, Query
<1>15. skip' = IF r[4] = 3 THEN r[5] ELSE Skip(r)
  BY <1>10, <1>11, Zenon
<1> QED
  BY <1>1, <1>2, <1>4, <1>5, <1>10, <1>11, <1>13, <1>14, <1>15, ReplyGoesOn, Zenon

\* The last part of a SOCKS reply is read and grants the tunnel.
LEMMA LastReadKeeps ==
  ASSUME TunnelInv, pc \in Asking, NEW n \in Nat \ {0}, ReadFull(n), HandlerOK, UNCHANGED pre,
         NEW r, NEW k, Partway(r, k), NEW c \in Nat, c = Consumed(r), c + n = Len(r),
         Opens(Query[pc], r)
  PROVE  TunnelInv'
<1>1. /\ Len(r) \in Nat /\ k \in Nat /\ sent \in Nat /\ c + n <= k + sent
      /\ Remains(in', r, k, sent, c + n)
  BY ReadNext
<1>2. k = Len(r) /\ granted
  <2>1. Len(r) <= k + sent
    BY <1>1
  <2> QED
    BY <1>1, <2>1, ReplyWhole
<1>3. Whole(<<>>, <<>>, in', sent)
  <2>1. Remains(in', r, k, sent, k)
    BY <1>1, <1>2, Zenon
  <2> QED
    BY <1>1, <2>1, RemainsWhole, Zenon
<1>4. got' = <<>> /\ pre' = <<>> /\ owes = "nothing"
  <2>1. got' = got /\ pre' = pre
    BY Zenon DEF HandlerOK
  <2>2. got = <<>> /\ pre = <<>>
    BY DEF TunnelInv
  <2>3. owes = "nothing"
    BY DEF Partway
  <2> QED
    BY <2>1, <2>2, <2>3, Zenon
<1>5. pc' \in {"tls", "done"} /\ UNCHANGED <<owes, eof, granted, sent>>
  BY Zenon DEF HandlerOK, Established, ReadFull, peer
<1>6. Whole(got', pre', in', sent)
  BY <1>3, <1>4, Zenon
<1> QED
  BY <1>2, <1>4, <1>5, <1>6, OpenKeeps

\* Reading the address: what is left is the payload.
LEMMA AddressReadKeeps ==
  ASSUME TunnelInv, AddressRead
  PROVE  TunnelInv'
<1>1. pc = "address" /\ pc \in Asking /\ ReadFull(skip + 2) /\ HandlerOK /\ UNCHANGED pre
  BY Zenon DEF AddressRead, Asking
<1>2. Waiting \/ \E r, k : Partway(r, k)
  BY <1>1 DEF TunnelInv
<1>3. PICK r, k : Partway(r, k)
  BY <1>1, <1>2, Zenon DEF Waiting
<1>4. /\ r \in Replies["request5"] /\ Query[pc] = "request5" /\ HeadOK(r)
      /\ skip = IF r[4] = 3 THEN r[5] ELSE Skip(r)
  BY <1>1, <1>3 DEF Partway, Query
<1>5. Fits(r)
  BY <1>4, Replies5, Zenon
<1>6. Opens(Query[pc], r)
  BY <1>4 DEF Opens, HeadOK
<1>7. \E c \in Nat : c = Consumed(r) /\ c + (skip + 2) = Len(r) /\ skip + 2 \in Nat \ {0}
  <2>1. CASE r[4] = 3
    <3>1. Consumed(r) = 5 /\ skip = r[5] /\ Len(r) = 5 + (r[5] + 2)
      BY <1>1, <1>4, <1>5, <2>1 DEF Consumed, Fits
    <3>2. r[5] \in Nat
      <4>1. r \in Seq(Nat) /\ Len(r) >= 6
        BY <1>5, Zenon DEF Fits
      <4>2. Len(r) \in Nat /\ (\A i \in 1 .. Len(r) : r[i] \in Nat)
        BY <4>1
      <4>3. 5 \in 1 .. Len(r)
        BY <4>1, <4>2
      <4> QED
        BY <4>2, <4>3, Zenon
    <3>3. 5 \in Nat /\ 5 + (skip + 2) = Len(r) /\ skip + 2 \in Nat \ {0}
      BY <3>1, <3>2
    <3> QED
      BY <3>1, <3>3, Zenon
  <2>2. CASE r[4] # 3
    <3>1. Consumed(r) = 4 /\ skip = Skip(r) /\ Len(r) = 4 + (Skip(r) + 2)
      BY <1>1, <1>4, <1>5, <2>2 DEF Consumed, Fits
    <3>2. Skip(r) \in Nat
      BY DEF Skip
    <3>3. 4 \in Nat /\ 4 + (skip + 2) = Len(r) /\ skip + 2 \in Nat \ {0}
      BY <3>1, <3>2
    <3> QED
      BY <3>1, <3>3, Zenon
  <2> QED
    BY <2>1, <2>2, Zenon
<1> QED
  BY <1>1, <1>3, <1>6, <1>7, LastReadKeeps, Zenon

\* Reading a SOCKS4 reply: what is left is the payload.
LEMMA Reply4Keeps ==
  ASSUME TunnelInv, Reply4
  PROVE  TunnelInv'
<1>1. pc = "reply4" /\ pc \in Asking /\ ReadFull(8)
  BY Zenon DEF Reply4, Asking
<1>2. UNCHANGED <<buf, eof, owes, granted, sent>>
  BY <1>1, Zenon DEF ReadFull, peer
<1>3. CASE ~(in[1] = 0 /\ in[2] = 90)
  <2>1. pc' = "done" /\ res' = "error"
    BY <1>3 DEF Reply4, HandlerFail
  <2> QED
    BY <1>2, <2>1, FailKeeps, Zenon
<1>4. CASE in[1] = 0 /\ in[2] = 90
  <2>1. HandlerOK /\ UNCHANGED pre
    BY <1>4 DEF Reply4
  <2>2. Len(in) >= 8 /\ 8 \in Nat \ {0} /\ 8 \in Nat /\ 0 \in Nat /\ 0 + 8 = 8
    BY <1>1 DEF ReadFull
  <2>3. PICK r, k : Partway(r, k)
    BY <1>1, <2>2, ReplyThere, Zenon
  <2>4. Consumed(r) = 0 /\ Query[pc] = "request4"
    BY <1>1 DEF Consumed, Query
  <2>5. Len(r) = 8
    BY <2>3, <2>4, Replies4, Zenon DEF Partway
  <2>6. /\ k \in Nat /\ \A i \in 1 .. 8 : in[i] = Line(r, k, 0 + i)
    <3>1. PICK c, n : c = 0 /\ n = 8
      BY Zenon
    <3>2. c \in Nat /\ c = Consumed(r) /\ n \in Nat /\ ReadFull(n)
      BY <1>1, <2>2, <2>4, <3>1, Zenon
    <3>3. k \in Nat /\ \A i \in 1 .. n : in[i] = Line(r, k, c + i)
      BY <1>1, <2>3, <3>2, ReadNext, ZenonT(60)
    <3> QED
      BY <3>1, <3>3, Zenon
  <2>7. k \in {7, 8}
    BY <2>3, <2>5 DEF Partway
  <2>8. in[2] = r[2]
    <3>1. Line(r, k, 0 + 2) = r[2]
      BY <2>7 DEF Line
    <3> QED
      BY <2>6, <3>1
  <2>9. Opens(Query[pc], r)
    BY <1>4, <2>4, <2>8 DEF Opens
  <2>10. 0 + 8 = Len(r)
    BY <2>5
  <2> QED
    BY <1>1, <2>1, <2>2, <2>3, <2>4, <2>9, <2>10, LastReadKeeps, Zenon
<1> QED
  BY <1>3, <1>4, Zenon
-----------------------------------------------------------------------------
(* readHeaders *)

\* The empty line found in the buffer is the end of a whole reply.
LEMMA HeaderEndFound ==
  ASSUME NEW r \in Replies["connect"], NEW k \in {Len(r) - 1, Len(r)}, NEW b \in Seq(Nat),
         NEW n \in Nat, k # Len(r) => n = 0, Len(b) <= k + n,
         \A i \in 1 .. Len(b) : b[i] = Line(r, k, i), Ends(b) # {}
  PROVE  k = Len(r) /\ HeaderEnd(b) = Len(r) /\ Len(r) <= Len(b)
<1>1. /\ r \in Seq(Nat) /\ Len(r) >= 3
      /\ \A i \in 1 .. (Len(r) - 1) : r[i] = Crlf /\ r[i + 1] = Crlf => i = Len(r) - 1
  BY ConnectReplies, Zenon
<1>2. Len(r) \in Nat /\ Len(b) \in Nat /\ k \in Nat
  BY <1>1
<1>3. ASSUME NEW i \in Ends(b)
      PROVE  i = Len(r) - 1 /\ k = Len(r) /\ Len(r) <= Len(b)
  <2>1. i \in 1 .. (Len(b) - 1) /\ b[i] = Crlf /\ b[i + 1] = Crlf
    BY <1>3, Zenon DEF Ends
  <2>2. i \in 1 .. Len(b) /\ i + 1 \in 1 .. Len(b) /\ i \in Nat
    BY <1>2, <2>1
  <2>3. Line(r, k, i) = Crlf /\ Line(r, k, i + 1) = Crlf
    BY <2>1, <2>2, Zenon
  <2>4. i + 1 <= k
    <3> SUFFICES ASSUME ~(i + 1 <= k) PROVE FALSE
      BY Zenon
    <3>1. Line(r, k, i + 1) = Datum((i + 1) - k)
      BY Zenon DEF Line
    <3>2. (i + 1) - k \in Nat
      BY <1>2, <2>2
    <3> QED
      BY <2>3, <3>1, <3>2 DEF Datum, Crlf
  <2>5. r[i] = Crlf /\ r[i + 1] = Crlf
    <3>1. i <= k
      BY <1>2, <2>2, <2>4
    <3> QED
      BY <2>3, <2>4, <3>1, Zenon DEF Line
  <2>6. i \in 1 .. (Len(r) - 1)
    BY <1>2, <2>2, <2>4, SMTT(60)
  <2>7. i = Len(r) - 1
    BY <1>1, <2>5, <2>6, Zenon
  <2> QED
    BY <1>2, <2>2, <2>4, <2>7
<1>4. PICK e \in Ends(b) : TRUE
  BY Zenon
<1>5. k = Len(r) /\ Len(r) <= Len(b) /\ e = Len(r) - 1
  BY <1>3, <1>4, Zenon
<1>6. \A j \in Ends(b) : e <= j
  <2>1. \A j \in Ends(b) : j = e
    BY <1>3, <1>5, Zenon
  <2>2. e <= e
    BY <1>2, <1>5
  <2> QED
    BY <2>1, <2>2, Zenon
<1>7. (CHOOSE i \in Ends(b) : \A j \in Ends(b) : i <= j) = Len(r) - 1
  BY <1>3, <1>4, <1>6, Zenon
<1>8. HeaderEnd(b) = Len(r)
  <2>1. HeaderEnd(b) = 1 + (Len(r) - 1)
    BY <1>7, Zenon DEF HeaderEnd
  <2> QED
    BY <1>2, <2>1
<1> QED
  BY <1>5, <1>8, Zenon

\* What lies in the buffer behind it is the beginning of the payload.
LEMMA LeftoverWhole ==
  ASSUME NEW r \in Replies["connect"], NEW b \in Seq(Nat), NEW n \in Nat, NEW s,
         Len(r) <= Len(b), HeaderEnd(b) = Len(r),
         \A i \in 1 .. Len(b) : b[i] = Line(r, Len(r), i),
         Remains(s, r, Len(r), n, Len(b)), NEW p, p = Leftover(b)
  PROVE  Whole(<<>>, p, s, n)
<1>1. r \in Seq(Nat)
  BY ConnectReplies, Zenon
<1>2. PICK m \in Nat, l \in Nat : m = Len(r) /\ l = Len(b)
  <2>1. Len(r) \in Nat /\ Len(b) \in Nat
    BY <1>1
  <2> QED
    BY <2>1, Zenon
<1>3. m <= l /\ m \in 0 .. Len(b) /\ p = From(b, m + 1)
  <2>1. p = From(b, m + 1) /\ m <= l
    BY <1>2, Zenon DEF Leftover
  <2> QED
    BY <1>2, <2>1
<1>4. p \in Seq(Nat) /\ Len(p) = l - m /\ \A i \in 1 .. (l - m) : p[i] = b[m + i]
  <2>1. p \in Seq(Nat) /\ Len(p) = Len(b) - m /\ \A i \in 1 .. (Len(b) - m) : p[i] = b[m + i]
    BY <1>3, Rest, ZenonT(60)
  <2> QED
    BY <1>2, <2>1, Zenon
<1>5. PICK e : e = <<>> /\ e \in Seq(Nat) /\ Len(e) = 0
  <2>1. <<>> \in Seq(Nat) /\ Len(<<>>) = 0
    OBVIOUS
  <2> QED
    BY <2>1, Zenon
<1>6. \A i \in 1 .. Len(e) : FALSE
  BY <1>5
<1>7. /\ s \in Seq(Nat) /\ l + Len(s) = m + n
      /\ \A i \in 1 .. Len(s) : s[i] = Line(r, m, l + i)
  BY <1>2, Zenon DEF Remains
<1>8. Len(s) \in Nat
  BY <1>7
<1>9. (Len(e) + Len(p)) + Len(s) = n
  <2>1. Len(e) = 0 /\ Len(p) = l - m /\ l + Len(s) = m + n
    BY <1>4, <1>5, <1>7, Zenon
  <2> QED
    BY <1>8, <2>1
<1>10. ASSUME NEW i \in 1 .. Len(p) PROVE p[i] = Datum(Len(e) + i)
  <2>1. i \in 1 .. (l - m)
    BY <1>4, <1>10, Zenon
  <2>2. p[i] = b[m + i]
    BY <1>4, <2>1, Zenon
  <2>3. m + i \in 1 .. l
    BY <2>1
  <2>4. b[m + i] = Line(r, m, m + i)
    BY <1>2, <2>3, Zenon
  <2>5. ~(m + i <= m) /\ (m + i) - m = Len(e) + i
    <3>1. Len(e) = 0
      BY <1>5, Zenon
    <3> QED
      BY <2>1, <3>1
  <2> QED
    BY <2>2, <2>4, <2>5, Zenon DEF Line
<1>11. ASSUME NEW i \in 1 .. Len(s) PROVE s[i] = Datum((Len(e) + Len(p)) + i)
  <2>1. s[i] = Line(r, m, l + i)
    BY <1>7, Zenon
  <2>2. ~(l + i <= m) /\ (l + i) - m = (Len(e) + Len(p)) + i
    <3>1. Len(e) = 0 /\ Len(p) = l - m
      BY <1>4, <1>5, Zenon
    <3>2. m <= l
      BY <1>3, Zenon
    <3>3. i \in Nat /\ i >= 1
      BY <1>8
    <3>4. ~(l + i <= m) /\ (l + i) - m = (0 + (l - m)) + i
      BY <3>2, <3>3
    <3> QED
      BY <3>1, <3>4, Zenon
  <2> QED
    BY <2>1, <2>2, Zenon DEF Line
<1>12. e \in Seq(Nat) /\ p \in Seq(Nat) /\ s \in Seq(Nat)
  BY <1>4, <1>5, <1>7, Zenon
<1>13. Whole(e, p, s, n)
  BY <1>6, <1>9, <1>10, <1>11, <1>12, Zenon DEF Whole
<1> QED
  BY <1>5, <1>13, Zenon

\* Reading a piece of a CONNECT response, up to and beyond its end.
LEMMA ReadHeadersKeeps ==
  ASSUME TunnelInv, Inv, Inv', ReadHeaders
  PROVE  TunnelInv'
<1>1. pc = "headers" /\ pc \in Asking
  BY Zenon DEF ReadHeaders, Asking
<1>2. UNCHANGED <<eof, owes, granted, sent>>
  BY Zenon DEF ReadHeaders, peer
<1>3. PICK n \in 1 .. Len(in) :
        /\ in' = From(in, n + 1) /\ buf' = buf \o SubSeq(in, 1, n)
        /\ \/ HandlerFail
           \/ Goto("headers")
           \/ /\ Ends(buf') # {} /\ parseStatusCode(buf') = 200
              /\ pre' = Leftover(buf') /\ HandlerOK
  BY ZenonT(60) DEF ReadHeaders
<1>4. CASE HandlerFail
  <2>1. pc' = "done" /\ res' = "error"
    BY <1>4, Zenon DEF HandlerFail
  <2> QED
    BY <1>2, <2>1, FailKeeps, Zenon
<1>5. n \in Nat /\ n \in Nat \ {0} /\ Len(in) >= n
  <2>1. n \in Int /\ 1 <= n /\ n <= Len(in)
    OBVIOUS
  <2> QED
    BY <2>1
<1>6. PICK r, k : Partway(r, k)
  BY <1>1, <1>5, ReplyThere, Zenon
<1>7. /\ r \in Replies["connect"] /\ k \in {Len(r) - 1, Len(r)} /\ owes = "nothing"
      /\ (k # Len(r) => ~granted) /\ (k = Len(r) => (granted <=> r[1] = 200))
      /\ Remains(in, r, k, sent, Len(buf))
      /\ buf \in Seq(Nat) /\ \A i \in 1 .. Len(buf) : buf[i] = Line(r, k, i)
  BY <1>1, <1>6 DEF Partway, Query, Consumed, Opens
<1>8. /\ r \in Seq(Nat) /\ Len(r) >= 3 /\ sent \in Nat /\ (~granted => sent = 0)
  <2>1. r \in Seq(Nat) /\ Len(r) >= 3
    BY <1>7, ConnectReplies, ZenonT(60)
  <2> QED
    BY <2>1 DEF TunnelInv
<1>9. Len(r) \in Nat /\ k \in Nat /\ k >= 2 /\ Len(buf) \in Nat
  <2>1. r \in Seq(Nat) /\ buf \in Seq(Nat) /\ Len(r) >= 3 /\ k \in {Len(r) - 1, Len(r)}
    BY <1>7, <1>8, Zenon
  <2>2. PICK l \in Nat : l = Len(r)
    BY <2>1
  <2>3. l >= 3 /\ k \in {l - 1, l}
    BY <2>1, <2>2, Zenon
  <2>4. k \in Nat /\ k >= 2
    BY <2>3
  <2>5. Len(buf) \in Nat
    BY <2>1
  <2> QED
    BY <2>2, <2>4, <2>5, Zenon
<1>10. /\ in \in Seq(Nat) /\ Len(buf) + Len(in) = k + sent
       /\ \A i \in 1 .. Len(in) : in[i] = Line(r, k, Len(buf) + i)
  BY <1>7, Zenon DEF Remains
<1>11. PICK f : f = SubSeq(in, 1, n)
  BY Zenon
<1>12. f \in Seq(Nat) /\ Len(f) = n /\ \A i \in 1 .. n : f[i] = in[i]
  <2>1. PICK s \in Seq(Nat) : s = in
    BY <1>10, Zenon
  <2>2. n \in 0 .. Len(s) /\ f = SubSeq(s, 1, n)
    BY <1>5, <1>11, <2>1
  <2>3. f \in Seq(Nat) /\ Len(f) = n /\ \A i \in 1 .. n : f[i] = s[i]
    BY <2>2, Front, Zenon
  <2> QED
    BY <2>1, <2>3, Zenon
<1>13. PICK b : b = buf'
  BY Zenon
<1>14. Joined(b, buf, f)
  <2>1. b = buf \o f /\ buf \in Seq(Nat) /\ f \in Seq(Nat)
    BY <1>3, <1>7, <1>11, <1>12, <1>13
  <2> QED
    BY <2>1, Concat, Zenon
<1>15. /\ b \in Seq(Nat) /\ Len(b) = Len(buf) + Len(f)
       /\ \A i \in 1 .. Len(buf) : b[i] = buf[i]
       /\ \A i \in 1 .. Len(f) : b[Len(buf) + i] = f[i]
  BY <1>14, Zenon DEF Joined
<1>16. Len(b) = Len(buf) + n /\ Len(b) \in Nat
  BY <1>9, <1>12, <1>15
<1>17. ASSUME NEW i \in 1 .. Len(b) PROVE b[i] = Line(r, k, i)
  <2>1. CASE i \in 1 .. Len(buf)
    BY <1>7, <1>15, <2>1, ZenonT(60)
  <2>2. CASE i \notin 1 .. Len(buf)
    <3>1. PICK j : j = i - Len(buf)
      BY Zenon
    <3>2. j \in 1 .. n /\ Len(buf) + j = i
      BY <1>5, <1>9, <1>16, <2>2, <3>1
    <3>3. j \in 1 .. Len(in) /\ j \in 1 .. Len(f)
      <4>1. Len(in) \in Nat
        BY <1>10
      <4> QED
        BY <1>5, <1>12, <3>2, <4>1
    <3>4. b[Len(buf) + j] = f[j]
      BY <1>15, <3>3, Zenon
    <3>5. f[j] = in[j]
      BY <1>12, <3>2, Zenon
    <3>6. in[j] = Line(r, k, Len(buf) + j)
      BY <1>10, <3>3, Zenon
    <3> QED
      BY <3>2, <3>4, <3>5, <3>6, Zenon
  <2> QED
    BY <2>1, <2>2, Zenon
<1>18. Remains(in', r, k, sent, Len(b))
  <2>1. Remains(in', r, k, sent, Len(buf) + n)
    <3>1. n \in Nat /\ n <= Len(in)
      BY <1>5
    <3>2. in' = From(in, n + 1) /\ Remains(in, r, k, sent, Len(buf)) /\ sent \in Nat
      BY <1>3, <1>7, <1>8, Zenon
    <3> QED
      BY <1>9, <3>1, <3>2, RemainsRest, Zenon
  <2> QED
    BY <1>16, <2>1, Zenon
<1>19. CASE Goto("headers")
  <2>1. pc' = "headers" /\ pre' = pre /\ got' = got /\ res' = res
    BY <1>19, Zenon DEF Goto
  <2>2. pre' = <<>> /\ got' = <<>>
    BY <1>1, <2>1 DEF TunnelInv
  <2>3. Consumed(r)' = Len(b) /\ Query[pc'] = "connect" /\ Query[pc] = "connect"
    BY <1>1, <1>13, <2>1 DEF Consumed, Query
  <2>4. Partway(r, k)'
    BY <1>2, <1>6, <1>13, <1>15, <1>17, <1>18, <2>1, <2>3 DEF Partway
  <2>5. res' # "ok" /\ pc' # "tls" /\ pc' \notin Quiet
    BY <2>1, Zenon DEF Inv, Quiet
  <2>6. sent' = sent /\ granted' = granted /\ eof' = eof
    BY <1>2, Zenon
  <2> QED
    BY <2>1, <2>2, <2>4, <2>5, <2>6 DEF TunnelInv
<1>20. CASE Ends(buf') # {} /\ parseStatusCode(buf') = 200 /\ pre' = Leftover(buf') /\ HandlerOK
  <2>1. Ends(b) # {} /\ parseStatusCode(b) = 200 /\ pre' = Leftover(b)
    BY <1>13, <1>20, Zenon
  <2>2. k # Len(r) => sent = 0
    BY <1>7, <1>8
  <2>3. Len(b) <= k + sent
    <3>1. in' \in Seq(Nat) /\ Len(b) + Len(in') = k + sent
      BY <1>18, Zenon DEF Remains
    <3>2. Len(in') \in Nat
      BY <3>1
    <3> QED
      BY <1>16, <3>1, <3>2
  <2>4. k = Len(r) /\ HeaderEnd(b) = Len(r) /\ Len(r) <= Len(b)
    <3>1. /\ r \in Replies["connect"] /\ k \in {Len(r) - 1, Len(r)} /\ b \in Seq(Nat) /\ sent \in Nat
      BY <1>7, <1>8, <1>15
    <3>2. PICK m \in Nat : m = sent
      BY <3>1, Zenon
    <3>3. (k # Len(r) => m = 0) /\ Len(b) <= k + m
      BY <2>2, <2>3, <3>2, Zenon
    <3>4. \A i \in 1 .. Len(b) : b[i] = Line(r, k, i)
      BY <1>17, Zenon
    <3> QED
      BY <2>1, <3>1, <3>3, <3>4, HeaderEndFound, Zenon
  <2>5. granted
    <3>1. b[1] = r[1]
      <4>1. 1 \in 1 .. Len(b) /\ 1 <= k
        <5>1. Len(r) \in Nat /\ k \in Nat /\ k >= 2 /\ k = Len(r) /\ Len(r) <= Len(b) /\ Len(b) \in Nat
          BY <1>9, <1>16, <2>4, Zenon
        <5> QED
          BY <5>1
      <4> QED
        BY <1>17, <4>1, Zenon DEF Line
    <3>2. b[1] = 200
      BY <2>1, Zenon DEF parseStatusCode
    <3> QED
      BY <1>7, <2>4, <3>1, <3>2
  <2>6. Whole(<<>>, pre', in', sent)
    <3>1. /\ \A i \in 1 .. Len(b) : b[i] = Line(r, Len(r), i)
          /\ Remains(in', r, Len(r), sent, Len(b))
      BY <1>17, <1>18, <2>4, Zenon
    <3> QED
      <4>1. /\ r \in Replies["connect"] /\ b \in Seq(Nat) /\ sent \in Nat
        BY <1>7, <1>8, <1>15
      <4> QED
        BY <2>1, <2>4, <3>1, <4>1, LeftoverWhole, Zenon
  <2>7. got' = <<>> /\ pc' \in {"tls", "done"}
    <3>1. got' = got /\ pc' \in {"tls", "done"}
      BY <1>20, Zenon DEF HandlerOK, Established
    <3> QED
      BY <1>1, <3>1 DEF TunnelInv
  <2>8. Whole(got', pre', in', sent)
    BY <2>6, <2>7, Zenon
  <2> QED
    BY <1>2, <1>7, <2>5, <2>7, <2>8, OpenKeeps
<1> QED
  BY <1>3, <1>4, <1>19, <1>20, Zenon
-----------------------------------------------------------------------------
(* The peer and the user of the connection *)

\* The target sends its next byte behind the others.
LEMMA SendRemains ==
  ASSUME NEW r, NEW k \in Nat, NEW n \in Nat, NEW c \in Nat, c <= k + n, NEW s, Remains(s, r, k, n, c),
         NEW t, t = Append(s, Datum(n + 1))
  PROVE  Remains(t, r, k, n + 1, c)
<1>1. /\ s \in Seq(Nat) /\ c + Len(s) = k + n
      /\ \A i \in 1 .. Len(s) : s[i] = Line(r, k, c + i)
  BY Zenon DEF Remains
<1>2. PICK l \in Nat : l = Len(s)
  BY <1>1
<1>3. Datum(n + 1) \in Nat
  BY DEF Datum
<1>4. /\ t \in Seq(Nat) /\ Len(t) = l + 1 /\ t[l + 1] = Datum(n + 1)
      /\ \A i \in 1 .. l : t[i] = s[i]
  BY <1>1, <1>2, <1>3
<1>5. c + l = k + n
  BY <1>1, <1>2, Zenon
<1>6. c + Len(t) = k + (n + 1)
  <2>1. Len(t) = l + 1
    BY <1>4, Zenon
  <2> QED
    BY <1>5, <2>1
<1>7. ASSUME NEW i \in 1 .. Len(t) PROVE t[i] = Line(r, k, c + i)
  <2>1. i \in 1 .. (l + 1)
    BY <1>4, <1>7, Zenon
  <2>2. CASE i = l + 1
    <3>1. ~(c + i <= k) /\ (c + i) - k = n + 1
      BY <1>5, <2>2
    <3>2. Line(r, k, c + i) = Datum(n + 1)
      BY <3>1, Zenon DEF Line
    <3> QED
      BY <1>4, <2>2, <3>2, Zenon
  <2>3. CASE i # l + 1
    <3>1. i \in 1 .. l
      BY <2>1, <2>3
    <3>2. s[i] = Line(r, k, c + i)
      BY <1>1, <1>2, <3>1, Zenon
    <3>3. t[i] = s[i]
      BY <1>4, <3>1, Zenon
    <3> QED
      BY <3>2, <3>3, Zenon
  <2> QED
    BY <2>2, <2>3, Zenon
<1> QED
  BY <1>4, <1>6, <1>7, Zenon DEF Remains

\* So it does once the reply has been read.
LEMMA SendWhole ==
  ASSUME NEW g, NEW p, NEW s, NEW n \in Nat, Whole(g, p, s, n), NEW t, t = Append(s, Datum(n + 1))
  PROVE  Whole(g, p, t, n + 1)
<1>1. /\ g \in Seq(Nat) /\ p \in Seq(Nat) /\ s \in Seq(Nat) /\ (Len(g) + Len(p)) + Len(s) = n
      /\ \A i \in 1 .. Len(g) : g[i] = Datum(i)
      /\ \A i \in 1 .. Len(p) : p[i] = Datum(Len(g) + i)
      /\ \A i \in 1 .. Len(s) : s[i] = Datum((Len(g) + Len(p)) + i)
  BY Zenon DEF Whole
<1>2. PICK l \in Nat, a \in Nat : l = Len(s) /\ a = Len(g) + Len(p)
  <2>1. Len(s) \in Nat /\ Len(g) + Len(p) \in Nat
    BY <1>1
  <2> QED
    BY <2>1, Zenon
<1>3. Datum(n + 1) \in Nat
  BY DEF Datum
<1>4. /\ t \in Seq(Nat) /\ Len(t) = l + 1 /\ t[l + 1] = Datum(n + 1)
      /\ \A i \in 1 .. l : t[i] = s[i]
  <2>1. s \in Seq(Nat) /\ l = Len(s)
    BY <1>1, <1>2, Zenon
  <2> QED
    BY <1>3, <2>1
<1>5. a + l = n
  BY <1>1, <1>2, Zenon
<1>6. a + Len(t) = n + 1
  <2>1. Len(t) = l + 1
    BY <1>4, Zenon
  <2> QED
    BY <1>5, <2>1
<1>7. ASSUME NEW i \in 1 .. Len(t) PROVE t[i] = Datum(a + i)
  <2>1. i \in 1 .. (l + 1)
    BY <1>4, <1>7, Zenon
  <2>2. CASE i = l + 1
    <3>1. a + i = n + 1
      BY <1>5, <2>2
    <3> QED
      BY <1>4, <2>2, <3>1, Zenon
  <2>3. CASE i # l + 1
    <3>1. i \in 1 .. l
      BY <2>1, <2>3
    <3>2. s[i] = Datum(a + i)
      BY <1>1, <1>2, <3>1, Zenon
    <3>3. t[i] = s[i]
      BY <1>4, <3>1, Zenon
    <3> QED
      BY <3>2, <3>3, Zenon
  <2> QED
    BY <2>2, <2>3, Zenon
<1> QED
  BY <1>1, <1>2, <1>4, <1>6, <1>7, Zenon DEF Whole

\* A read of what preReadConn holds.
LEMMA ReadHeld ==
  ASSUME NEW g, NEW p, NEW s, NEW n, Whole(g, p, s, n), NEW m \in 1 .. Len(p),
         NEW h, h = g \o SubSeq(p, 1, m), NEW q, q = From(p, m + 1)
  PROVE  Whole(h, q, s, n)
<1>1. /\ g \in Seq(Nat) /\ p \in Seq(Nat) /\ s \in Seq(Nat) /\ (Len(g) + Len(p)) + Len(s) = n
      /\ \A i \in 1 .. Len(g) : g[i] = Datum(i)
      /\ \A i \in 1 .. Len(p) : p[i] = Datum(Len(g) + i)
      /\ \A i \in 1 .. Len(s) : s[i] = Datum((Len(g) + Len(p)) + i)
  BY Zenon DEF Whole
<1>2. PICK a \in Nat, b \in Nat : a = Len(g) /\ b = Len(p)
  <2>1. Len(g) \in Nat /\ Len(p) \in Nat
    BY <1>1
  <2> QED
    BY <2>1, Zenon
<1>3. m \in Nat /\ m <= b /\ m \in 0 .. Len(p) /\ m \in 1 .. b
  BY <1>2
<1>4. PICK f : f = SubSeq(p, 1, m)
  BY Zenon
<1>5. f \in Seq(Nat) /\ Len(f) = m /\ \A i \in 1 .. m : f[i] = p[i]
  BY <1>1, <1>3, <1>4, Front, ZenonT(60)
<1>6. q \in Seq(Nat) /\ Len(q) = b - m /\ \A i \in 1 .. (b - m) : q[i] = p[m + i]
  <2>1. q \in Seq(Nat) /\ Len(q) = Len(p) - m /\ \A i \in 1 .. (Len(p) - m) : q[i] = p[m + i]
    BY <1>1, <1>3, Rest, ZenonT(60)
  <2> QED
    BY <1>2, <2>1, Zenon
<1>7. Joined(h, g, f)
  BY <1>1, <1>4, <1>5, Concat, Zenon
<1>8. /\ h \in Seq(Nat) /\ Len(h) = a + m
      /\ \A i \in 1 .. a : h[i] = g[i]
      /\ \A i \in 1 .. m : h[a + i] = f[i]
  <2>1. Len(f) = m
    BY <1>5, Zenon
  <2> QED
    BY <1>2, <1>7, <2>1, Zenon DEF Joined
<1>9. Len(h) + Len(q) = a + b
  <2>1. Len(h) = a + m /\ Len(q) = b - m
    BY <1>6, <1>8, Zenon
  <2> QED
    <3>1. a + m + (b - m) = a + b
      BY <1>3
    <3> QED
      BY <2>1, <3>1, Zenon
<1>10. ASSUME NEW i \in 1 .. Len(h) PROVE h[i] = Datum(i)
  <2>1. i \in 1 .. (a + m)
    BY <1>8, <1>10, Zenon
  <2>2. CASE i \in 1 .. a
    <3>1. h[i] = g[i]
      BY <1>8, <2>2, Zenon
    <3> QED
      BY <1>1, <1>2, <2>2, <3>1, Zenon
  <2>3. CASE i \notin 1 .. a
    <3>1. PICK j : j = i - a
      BY Zenon
    <3>2. j \in 1 .. m /\ j \in 1 .. b /\ a + j = i
      BY <1>3, <2>1, <2>3, <3>1
    <3>3. h[a + j] = f[j]
      BY <1>8, <3>2, Zenon
    <3>4. f[j] = p[j]
      BY <1>5, <3>2, Zenon
    <3>5. p[j] = Datum(a + j)
      BY <1>1, <1>2, <3>2, Zenon
    <3> QED
      BY <3>2, <3>3, <3>4, <3>5, Zenon
  <2> QED
    BY <2>2, <2>3, Zenon
<1>11. ASSUME NEW i \in 1 .. Len(q) PROVE q[i] = Datum(Len(h) + i)
  <2>1. i \in 1 .. (b - m)
    BY <1>6, <1>11, Zenon
  <2>2. q[i] = p[m + i]
    BY <1>6, <2>1, Zenon
  <2>3. m + i \in 1 .. b /\ a + (m + i) = (a + m) + i
    BY <1>3, <2>1
  <2>4. p[m + i] = Datum(a + (m + i))
    BY <1>1, <1>2, <2>3, Zenon
  <2>5. Len(h) = a + m
    BY <1>8, Zenon
  <2> QED
    BY <2>2, <2>3, <2>4, <2>5, Zenon
<1>12. /\ (Len(h) + Len(q)) + Len(s) = n
       /\ \A i \in 1 .. Len(s) : s[i] = Datum((Len(h) + Len(q)) + i)
  BY <1>1, <1>2, <1>9, Zenon
<1>13. h \in Seq(Nat) /\ q \in Seq(Nat) /\ s \in Seq(Nat)
  BY <1>1, <1>6, <1>8, Zenon
<1> QED
  BY <1>10, <1>11, <1>12, <1>13, Zenon DEF Whole

\* A read of the socket, with nothing held.
LEMMA ReadSocket ==
  ASSUME NEW g, NEW s, NEW n, Whole(g, <<>>, s, n), NEW m \in 1 .. Len(s),
         NEW h, h = g \o SubSeq(s, 1, m), NEW t, t = From(s, m + 1)
  PROVE  Whole(h, <<>>, t, n)
<1>0. PICK e : e = <<>> /\ e \in Seq(Nat) /\ Len(e) = 0
  <2>1. <<>> \in Seq(Nat) /\ Len(<<>>) = 0
    OBVIOUS
  <2> QED
    BY <2>1, Zenon
<1>1. /\ g \in Seq(Nat) /\ s \in Seq(Nat) /\ (Len(g) + Len(e)) + Len(s) = n
      /\ \A i \in 1 .. Len(g) : g[i] = Datum(i)
      /\ \A i \in 1 .. Len(s) : s[i] = Datum((Len(g) + Len(e)) + i)
  BY <1>0, Zenon DEF Whole
<1>2. /\ Whole(g, s, e, n)
  <2>1. Len(g) \in Nat /\ Len(s) \in Nat /\ Len(e) = 0
    BY <1>0, <1>1
  <2>2. (Len(g) + Len(s)) + Len(e) = n /\ Len(g) + Len(e) = Len(g)
    <3>1. (Len(g) + Len(e)) + Len(s) = n
      BY <1>1, Zenon
    <3> QED
      BY <2>1, <3>1
  <2>3. \A i \in 1 .. Len(s) : s[i] = Datum(Len(g) + i)
    BY <1>1, <2>2, Zenon
  <2>4. \A i \in 1 .. Len(e) : FALSE
    BY <2>1
  <2>5. e \in Seq(Nat)
    BY <1>0, Zenon
  <2> QED
    BY <1>1, <2>2, <2>3, <2>4, <2>5, Zenon DEF Whole
<1>3. Whole(h, t, e, n)
  BY <1>2, ReadHeld, Zenon
<1>4. /\ h \in Seq(Nat) /\ t \in Seq(Nat) /\ (Len(h) + Len(t)) + Len(e) = n
      /\ \A i \in 1 .. Len(h) : h[i] = Datum(i)
      /\ \A i \in 1 .. Len(t) : t[i] = Datum(Len(h) + i)
  BY <1>3, Zenon DEF Whole
<1>5. Len(h) \in Nat /\ Len(t) \in Nat /\ Len(e) = 0
  BY <1>0, <1>4
<1>6. (Len(h) + Len(e)) + Len(t) = n /\ Len(h) + Len(e) = Len(h)
  <2>1. (Len(h) + Len(t)) + Len(e) = n
    BY <1>4, Zenon
  <2> QED
    BY <1>5, <2>1
<1>7. \A i \in 1 .. Len(t) : t[i] = Datum((Len(h) + Len(e)) + i)
  BY <1>4, <1>6, Zenon
<1>8. \A i \in 1 .. Len(e) : FALSE
  BY <1>5
<1>9. e \in Seq(Nat)
  BY <1>0, Zenon
<1>10. Whole(h, e, t, n)
  BY <1>4, <1>6, <1>7, <1>8, <1>9, Zenon DEF Whole
<1> QED
  BY <1>0, <1>10, Zenon

\* The peer answers, or hangs up one byte before the end of its answer.
LEMMA PeerReplyKeeps ==
  ASSUME TunnelInv, PeerReply
  PROVE  TunnelInv'
<1>1. /\ pc' = pc /\ res' = res /\ buf' = buf /\ pre' = pre /\ got' = got /\ skip' = skip /\ sent' = sent
      /\ owes # "nothing" /\ owes' = "nothing"
  BY Zenon DEF PeerReply
<1>2. PICK r \in Replies[owes] :
        \/ in' = in \o r /\ granted' = (granted \/ Grants(r)) /\ eof' = eof
        \/ in' = in \o SubSeq(r, 1, Len(r) - 1) /\ eof' = TRUE /\ granted' = granted
  BY DEF PeerReply
<1>3. Grants(r) <=> Opens(owes, r)
  BY Zenon DEF Grants, Opens
<1>4. granted' \in BOOLEAN /\ eof' \in BOOLEAN /\ sent' \in Nat /\ (~granted' => sent' = 0)
  BY <1>1, <1>2, Zenon DEF TunnelInv
<1>5. pc' \notin Quiet /\ pc' # "tls" /\ res' # "ok"
  BY <1>1 DEF TunnelInv
<1>6. CASE pc \notin Asking
  BY <1>1, <1>4, <1>5, <1>6 DEF TunnelInv
<1>7. CASE pc \in Asking
  <2>1. Waiting
    BY <1>1, <1>7 DEF TunnelInv, Partway
  <2>2. /\ owes = Query[pc] /\ pc \notin {"length", "address"} /\ in = <<>> /\ buf = <<>> /\ ~granted
    BY <2>1, Zenon DEF Waiting
  <2>3. sent = 0
    BY <2>2 DEF TunnelInv
  <2>4. r \in Seq(Nat) /\ Len(r) \in Nat /\ Len(r) >= 2
    BY <1>2, <1>7, <2>2, ReplyBytes, Zenon
  <2>5. Consumed(r)' = 0
    BY <1>1, <2>2 DEF Consumed
  <2>6. ASSUME NEW k \in {Len(r) - 1, Len(r)}, in' = in \o SubSeq(r, 1, k)
        PROVE  Remains(in', r, k, 0, 0)
    <3>1. k \in 0 .. Len(r) /\ k \in Nat
      BY <2>4
    <3>2. PICK f : f = SubSeq(r, 1, k)
      BY Zenon
    <3>3. f \in Seq(Nat) /\ Len(f) = k /\ \A i \in 1 .. k : f[i] = r[i]
      BY <2>4, <3>1, <3>2, Front, Zenon
    <3>4. in' = f
      <4>1. <<>> \o f = f
        BY <3>3
      <4> QED
        BY <2>2, <2>6, <3>2, <4>1, Zenon
    <3>5. \A i \in 1 .. k : i <= k /\ 0 + i = i
      BY <3>1
    <3>6. 0 + k = k + 0
      BY <3>1
    <3>7. \A i \in 1 .. k : Line(r, k, 0 + i) = f[i]
      BY <3>3, <3>5, Zenon DEF Line
    <3> QED
      BY <3>3, <3>4, <3>6, <3>7, Zenon DEF Remains
  <2>7. \E k \in {Len(r) - 1, Len(r)} :
           /\ Remains(in', r, k, 0, 0)
           /\ k # Len(r) => eof' /\ ~granted'
           /\ k = Len(r) => (granted' <=> Opens(owes, r))
    <3>1. CASE in' = in \o r /\ granted' = (granted \/ Grants(r)) /\ eof' = eof
      <4>1. SubSeq(r, 1, Len(r)) = r
        BY <2>4
      <4>2. Remains(in', r, Len(r), 0, 0)
        <5>1. Len(r) \in {Len(r) - 1, Len(r)}
          OBVIOUS
        <5> QED
          BY <2>6, <3>1, <4>1, <5>1, Zenon
      <4>3. granted' <=> Opens(owes, r)
        BY <1>3, <2>2, <3>1, Zenon
      <4> QED
        BY <4>2, <4>3
    <3>2. CASE in' = in \o SubSeq(r, 1, Len(r) - 1) /\ eof' = TRUE /\ granted' = granted
      <4>1. Remains(in', r, Len(r) - 1, 0, 0)
        BY <2>6, <3>2
      <4>2. Len(r) - 1 # Len(r) /\ eof' /\ ~granted'
        BY <2>2, <2>4, <3>2
      <4> QED
        BY <4>1, <4>2
    <3> QED
      BY <1>2, <3>1, <3>2, Zenon
  <2>8. PICK k \in {Len(r) - 1, Len(r)} :
           /\ Remains(in', r, k, 0, 0)
           /\ k # Len(r) => eof' /\ ~granted'
           /\ k = Len(r) => (granted' <=> Opens(owes, r))
    BY <2>7
  <2>9. Partway(r, k)'
    <3>1. Remains(in', r, k, sent', Consumed(r)')
      BY <1>1, <2>3, <2>5, <2>8, Zenon
    <3>2. r \in Replies[Query[pc']] /\ Query[pc'] = owes
      BY <1>1, <1>2, <2>2, Zenon
    <3>3. buf' = <<>> /\ buf' \in Seq(Nat) /\ \A i \in 1 .. Len(buf') : FALSE
      BY <1>1, <2>2
    <3>4. pc' \notin {"length", "address"}
      BY <1>1, <2>2, Zenon
    <3> QED
      BY <1>1, <2>8, <3>1, <3>2, <3>3, <3>4 DEF Partway
  <2>10. pre' = <<>> /\ got' = <<>>
    BY <1>1, <1>7 DEF TunnelInv
  <2> QED
    BY <1>1, <1>4, <1>5, <2>9, <2>10 DEF TunnelInv
<1> QED
  BY <1>6, <1>7, Zenon

\* The peer hangs up.
LEMMA PeerCloseKeeps ==
  ASSUME TunnelInv, PeerClose
  PROVE  TunnelInv'
<1>1. /\ pc' = pc /\ res' = res /\ buf' = buf /\ pre' = pre /\ got' = got /\ skip' = skip /\ sent' = sent
      /\ owes' = owes /\ granted' = granted /\ in' = in /\ eof' = TRUE
  BY Zenon DEF PeerClose
<1>2. Waiting => Waiting'
  BY <1>1 DEF Waiting
<1>3. \A r, k : Partway(r, k) => Partway(r, k)'
  <2> SUFFICES ASSUME NEW r, NEW k, Partway(r, k) PROVE Partway(r, k)'
    BY Zenon
  <2>1. Consumed(r)' = Consumed(r)
    BY <1>1, Zenon DEF Consumed
  <2> QED
    BY <1>1, <2>1 DEF Partway
<1> QED
  BY <1>1, <1>2, <1>3 DEF TunnelInv

\* The target sends one more byte of the payload.
LEMMA TargetSendKeeps ==
  ASSUME TunnelInv, TargetSend
  PROVE  TunnelInv'
<1>1. /\ pc' = pc /\ res' = res /\ buf' = buf /\ pre' = pre /\ got' = got /\ skip' = skip
      /\ owes' = owes /\ granted' = granted /\ eof' = eof /\ granted
      /\ sent' = sent + 1 /\ in' = Append(in, Datum(sent + 1))
  BY DEF TargetSend
<1>2. sent \in Nat /\ sent' \in Nat
  BY <1>1 DEF TunnelInv
<1>3. pc \notin Quiet
  BY <1>1 DEF TunnelInv
<1>4. ASSUME pc \in Asking
      PROVE  \E r, k : Partway(r, k)'
  <2>1. PICK r, k : Partway(r, k)
    BY <1>1, <1>4 DEF TunnelInv, Waiting
  <2>2. /\ r \in Replies[Query[pc]] /\ k \in {Len(r) - 1, Len(r)} /\ k = Len(r)
        /\ Remains(in, r, k, sent, Consumed(r))
    BY <1>1, <2>1 DEF Partway
  <2>3. k \in Nat
    BY <1>4, <2>2, ReplyBytes, Zenon
  <2>4. PICK c \in Nat : c = Consumed(r)
    <3>1. Consumed(r) \in Nat
      <4>1. CASE pc = "headers"
        <5>1. buf \in Seq(Nat)
          BY <2>1, <4>1 DEF Partway
        <5> QED
          BY <4>1, <5>1 DEF Consumed
      <4>2. CASE pc # "headers"
        BY <4>2 DEF Consumed
      <4> QED
        BY <4>1, <4>2, Zenon
    <3> QED
      BY <3>1, Zenon
  <2>5. c <= k + sent
    <3>1. in \in Seq(Nat) /\ c + Len(in) = k + sent
      BY <2>2, <2>4, Zenon DEF Remains
    <3>2. Len(in) \in Nat
      BY <3>1
    <3> QED
      BY <3>1, <3>2
  <2>6. Remains(in', r, k, sent', c)
    BY <1>1, <1>2, <2>2, <2>3, <2>4, <2>5, SendRemains, Zenon
  <2>7. Consumed(r)' = c
    BY <1>1, <2>4, Zenon DEF Consumed
  <2>8. Partway(r, k)'
    BY <1>1, <2>1, <2>6, <2>7 DEF Partway
  <2> QED
    BY <2>8
<1>5. ASSUME Whole(got, pre, in, sent)
      PROVE  Whole(got, pre, in', sent')
  <2>1. in' = Append(in, Datum(sent + 1)) /\ sent' = sent + 1
    BY <1>1
  <2> QED
    BY <1>2, <1>5, <2>1, SendWhole, Zenon
<1> QED
  BY <1>1, <1>2, <1>3, <1>4, <1>5 DEF TunnelInv

\* The user reads: first what the handler held back, then from the socket.
LEMMA UserReadKeeps ==
  ASSUME TunnelInv, Inv, Read
  PROVE  TunnelInv'
<1>1. /\ res = "ok" /\ pc' = pc /\ UNCHANGED <<owes, eof, granted, sent>>
  BY Zenon DEF Read, peer
<1>2. pc = "done"
  BY <1>1, Zenon DEF Inv
<1>3. granted /\ owes = "nothing" /\ Whole(got, pre, in, sent)
  BY <1>1 DEF TunnelInv
<1>4. CASE pre # <<>>
  <2>1. PICK n \in 1 .. Len(pre) : got' = got \o SubSeq(pre, 1, n) /\ pre' = From(pre, n + 1) /\ in' = in
    BY <1>4, Zenon DEF Read
  <2>2. Whole(got', pre', in, sent)
    BY <1>3, <2>1, ReadHeld, Zenon
  <2> QED
    BY <1>1, <1>2, <1>3, <2>1, <2>2, OpenKeeps
<1>5. CASE pre = <<>>
  <2>1. PICK n \in 1 .. Len(in) : got' = got \o SubSeq(in, 1, n) /\ in' = From(in, n + 1) /\ pre' = pre
    BY <1>5, Zenon DEF Read
  <2>2. Whole(got', <<>>, in', sent)
    <3>1. Whole(got, <<>>, in, sent)
      BY <1>3, <1>5
    <3> QED
      BY <2>1, <3>1, ReadSocket, Zenon
  <2>3. Whole(got', pre', in', sent)
    BY <1>5, <2>1, <2>2, Zenon
  <2> QED
    BY <1>1, <1>2, <1>3, <2>3, OpenKeeps
<1> QED
  BY <1>4, <1>5, Zenon

-----------------------------------------------------------------------------
(* The tunnel *)

\* Before the dial nothing is on its way.
LEMMA TunnelInitInv == Init => TunnelInv
<1> SUFFICES ASSUME Init PROVE TunnelInv
  BY Zenon
<1>1. /\ pc = "dial" /\ res = "pending" /\ buf = <<>> /\ pre = <<>> /\ got = <<>> /\ in = <<>>
      /\ eof = FALSE /\ owes = "nothing" /\ granted = FALSE /\ sent = 0
  BY Zenon DEF Init
<1>2. pc \in Quiet /\ pc \notin Asking /\ pc # "tls" /\ res # "ok"
  BY <1>1, Zenon DEF Quiet, Asking
<1> QED
  BY <1>1, <1>2, Zenon DEF TunnelInv

\* The direct dial.
LEMMA DialOKKeeps ==
  ASSUME TunnelInv, Inv, Inv', DialOK
  PROVE  TunnelInv'
<1>1. /\ pc = "dial" /\ buf' = buf /\ pre' = pre /\ got' = got /\ in' = in
      /\ eof' = eof /\ owes' = owes /\ sent' = sent
  BY Zenon DEF DialOK
<1>2. pc \in Quiet
  BY <1>1, Zenon DEF Quiet
<1>3. CASE cfg.proxy = "none"
  <2>1. granted' = TRUE /\ pc' \in {"tls", "done"}
    BY <1>3, Zenon DEF DialOK, Established
  <2>2. sent = 0 /\ sent \in Nat /\ got = <<>> /\ pre = <<>> /\ in = <<>> /\ owes = "nothing" /\ eof \in BOOLEAN
    BY <1>2 DEF TunnelInv
  <2>3. Whole(<<>>, <<>>, <<>>, 0)
    <3>1. PICK e : e = <<>> /\ e \in Seq(Nat) /\ Len(e) = 0
      <4>1. <<>> \in Seq(Nat) /\ Len(<<>>) = 0
        OBVIOUS
      <4> QED
        BY <4>1, Zenon
    <3>2. (Len(e) + Len(e)) + Len(e) = 0 /\ \A i \in 1 .. Len(e) : FALSE
      BY <3>1
    <3>3. e \in Seq(Nat)
      BY <3>1, Zenon
    <3>4. Whole(e, e, e, 0)
      BY <3>2, <3>3, Zenon DEF Whole
    <3> QED
      BY <3>1, <3>4, Zenon
  <2>4. Whole(got', pre', in', sent')
    BY <1>1, <2>2, <2>3, Zenon
  <2>5. pc' \notin Quiet /\ pc' \notin Asking
    BY <2>1, Zenon DEF Quiet, Asking
  <2> QED
    BY <1>1, <2>1, <2>2, <2>4, <2>5 DEF TunnelInv
<1>4. CASE cfg.proxy # "none"
  <2>1. pc' = FirstStep[cfg.proxy] /\ res' = res /\ granted' = granted
    BY <1>4, Zenon DEF DialOK
  <2>2. cfg.proxy \in {"http", "https", "socks5", "socks4"}
    BY <1>4 DEF Inv, Config, Proxies
  <2>3. pc' \in Quiet
    BY <2>1, <2>2 DEF FirstStep, Quiet
  <2>4. res' = "pending"
    BY <1>1, <2>1, Zenon DEF Inv
  <2> QED
    BY <1>1, <1>2, <2>1, <2>3, <2>4, QuietKeeps, Zenon
<1> QED
  BY <1>3, <1>4, Zenon

\* The handlers write a request only when nothing is on its way.
LEMMA SendingKeeps ==
  ASSUME TunnelInv, Inv, Sending
  PROVE  TunnelInv'
<1>1. PICK from \in {"connect", "greet", "login", "request5", "request4"},
           to \in {"headers", "method", "auth", "head", "reply4"} :
        /\ pc = from /\ pc' = to /\ owes' = from /\ Query[to] = from
        /\ res' = res /\ UNCHANGED <<buf, pre, got, in, eof, granted, sent>>
  <2>1. CASE ConnectWrite
    BY <2>1 DEF ConnectWrite, Query
  <2>2. CASE Greet
    BY <2>2 DEF Greet, Write, Goto, Query
  <2>3. CASE Login
    BY <2>3 DEF Login, Write, Goto, Query
  <2>4. CASE Request5
    BY <2>4 DEF Request5, Write, Goto, Query
  <2>5. CASE Request4
    BY <2>5 DEF Request4, Write, Goto, Query
  <2> QED
    BY <2>1, <2>2, <2>3, <2>4, <2>5, Zenon DEF Sending
<1>2. pc \in Quiet /\ pc' \in Asking \ {"length", "address"} /\ owes' = Query[pc'] /\ pc # "done"
  BY <1>1 DEF Quiet, Asking
<1>3. res' = "pending"
  BY <1>1, <1>2, Zenon DEF Inv
<1> QED
  BY <1>1, <1>2, <1>3, SendKeeps, Zenon

\* The TLS handshake with the target leaves the bytes alone.
LEMMA TlsKeeps ==
  ASSUME TunnelInv, Inv, Tls
  PROVE  TunnelInv'
<1>1. CASE TlsFail \/ ProxyTlsFail
  <2>1. pc' = "done" /\ res' = "error" /\ UNCHANGED <<eof, granted, sent>>
    BY <1>1, Zenon DEF TlsFail, ProxyTlsFail, HandlerFail, peer
  <2> QED
    BY <2>1, FailKeeps, Zenon
<1>2. CASE TlsOK
  <2>1. /\ pc = "tls" /\ pc' = "done" /\ got' = got /\ pre' = pre /\ in' = in
        /\ UNCHANGED <<owes, eof, granted, sent>>
    BY <1>2, Zenon DEF TlsOK, peer
  <2>2. granted /\ owes = "nothing" /\ Whole(got, pre, in, sent)
    BY <2>1 DEF TunnelInv
  <2> QED
    BY <2>1, <2>2, OpenKeeps
<1>3. CASE ProxyTlsOK
  <2>1. /\ pc = "proxytls" /\ pc' = "connect" /\ res' = res
        /\ UNCHANGED <<buf, pre, got, in, owes, eof, granted, sent>>
    BY <1>3, Zenon DEF ProxyTlsOK, peer
  <2>2. pc \in Quiet /\ pc' \in Quiet /\ res' = "pending"
    BY <2>1, Zenon DEF Quiet, Inv
  <2> QED
    BY <2>1, <2>2, QuietKeeps, Zenon
<1> QED
  BY <1>1, <1>2, <1>3, Zenon DEF Tls

\* Every step keeps TunnelInv.
LEMMA TunnelKeepsInv == TunnelInv /\ Inv /\ Inv' /\ [Next]_vars => TunnelInv'
<1> SUFFICES ASSUME TunnelInv, Inv, Inv', [Next]_vars PROVE TunnelInv'
  BY Zenon
<1>1. CASE DialOK
  BY <1>1, DialOKKeeps, Zenon
<1>2. CASE DialFail \/ BadArguments \/ Expire \/ Broken
  <2>1. pc' = "done" /\ res' = "error" /\ UNCHANGED <<eof, granted, sent>>
    BY <1>2, Zenon DEF DialFail, BadArguments, Expire, Broken, Aborted, TlsFail, HandlerFail, peer
  <2> QED
    BY <2>1, FailKeeps, Zenon
<1>3. CASE ReadHeaders
  BY <1>3, ReadHeadersKeeps, Zenon
<1>4. CASE Method \/ Auth
  <2>1. pc \in {"method", "auth"} /\ ReadFull(2)
    BY <1>4, Zenon DEF Method, Auth
  <2>2. HandlerFail \/ \E l \in {"request5", "login"} : Goto(l)
    BY <1>4 DEF Method, Auth
  <2>3. CASE HandlerFail
    <3>1. pc' = "done" /\ res' = "error" /\ UNCHANGED <<eof, granted, sent>>
      BY <2>1, <2>3, Zenon DEF HandlerFail, ReadFull, peer
    <3> QED
      BY <3>1, FailKeeps, Zenon
  <2>4. CASE \E l \in {"request5", "login"} : Goto(l)
    BY <2>1, <2>4, MethodKeeps, Zenon
  <2> QED
    BY <2>2, <2>3, <2>4, Zenon
<1>5. CASE HeadRead \/ LengthRead
  BY <1>5, HeadReadKeeps, LengthReadKeeps, Zenon
<1>6. CASE AddressRead \/ Reply4
  BY <1>6, AddressReadKeeps, Reply4Keeps, Zenon
<1>7. CASE Sending
  BY <1>7, SendingKeeps, Zenon
<1>8. CASE Tls
  BY <1>8, TlsKeeps, Zenon
<1>9. CASE PeerReply \/ PeerClose \/ TargetSend
  BY <1>9, PeerReplyKeeps, PeerCloseKeeps, TargetSendKeeps, Zenon
<1>10. CASE Read
  BY <1>10, UserReadKeeps, Zenon
<1>11. CASE UNCHANGED vars
  <2>1. /\ pc' = pc /\ res' = res /\ buf' = buf /\ pre' = pre /\ got' = got /\ skip' = skip /\ sent' = sent
        /\ owes' = owes /\ granted' = granted /\ in' = in /\ eof' = eof
    BY <1>11, Zenon DEF vars
  <2>2. Waiting => Waiting'
    BY <2>1 DEF Waiting
  <2>3. \A r, k : Partway(r, k) => Partway(r, k)'
    <3> SUFFICES ASSUME NEW r, NEW k, Partway(r, k) PROVE Partway(r, k)'
      BY Zenon
    <3>1. Consumed(r)' = Consumed(r)
      BY <2>1, Zenon DEF Consumed
    <3> QED
      BY <2>1, <3>1 DEF Partway
  <2> QED
    BY <2>1, <2>2, <2>3 DEF TunnelInv
<1> QED
  BY <1>1, <1>2, <1>3, <1>4, <1>5, <1>6, <1>7, <1>8, <1>9, <1>10, <1>11, Zenon
     DEF Next, Dialling, Answered

\* TunnelInv holds in every state of every behaviour.
THEOREM TunnelInvHolds == Spec => []TunnelInv
BY TunnelInitInv, TunnelKeepsInv, InvHolds, PTL DEF Spec

\* A connection is returned only after the peer has opened the tunnel: no
\* handler takes a refusal, a reply of another kind or a part of one for success.
THEOREM TunnelGrantedHolds == Spec => []TunnelGranted
<1>1. TunnelInv => TunnelGranted
  BY DEF TunnelInv, TunnelGranted
<1> QED
  BY <1>1, TunnelInvHolds, PTL

\* What the user of the connection reads is the payload from its first byte on,
\* wherever the reads of a handshake cut the reply and the payload behind it.
THEOREM NothingLostHolds == Spec => []NothingLost
<1>1. TunnelInv => NothingLost
  <2> SUFFICES ASSUME TunnelInv, res = "ok" PROVE got \o pre \o in = Payload(sent)
    BY Zenon DEF NothingLost
  <2>1. Whole(got, pre, in, sent) /\ sent \in Nat
    BY DEF TunnelInv
  <2> QED
    BY <2>1, WholePayload, Zenon
<1> QED
  BY <1>1, TunnelInvHolds, PTL

=============================================================================
