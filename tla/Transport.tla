------------------------------- MODULE Transport -------------------------------
(***************************************************************************)
(* One call of NewTCPClientAutoTLS (network/tls_client.go): dialTransport  *)
(* directly or through a proxy, the handshake of each proxy type           *)
(* (network/handler), TLS to the target, and the reads on the connection   *)
(* it returns. The peer, proxy or target, answers, stalls or hangs up as   *)
(* it likes, and the network cuts its bytes into reads of any size. Bytes  *)
(* are numbers; in the HTTP dialogue one number stands for a status line,  *)
(* a header or a CRLF.                                                     *)
(***************************************************************************)
EXTENDS Integers, Sequences, FiniteSets

CONSTANTS
  MaxHeader,   \* maxHTTPHeaderSize
  MaxRead,     \* size of the buffer readHeaders reads into
  MaxPayload   \* bound: bytes the target sends

ASSUME TransportAssumption ==
  MaxHeader \in Nat /\ MaxRead \in Nat \ {0} /\ MaxPayload \in Nat

VARIABLES
  pc,         \* the call the dial is blocked in
  cfg,        \* proxy type ("none": no proxy), credentials, TLS, timeout > 0
  sock,       \* the socket is open
  rd, wr,     \* a read, a write deadline is set on it
  buf,        \* buf of readHeaders
  pre,        \* bytes held by preReadConn
  skip,       \* skip of Socks5HandlerConn
  got,        \* history: bytes read by the user of the connection
  res,        \* "pending", "ok" or "error"
  in, eof,    \* bytes on their way to the client; the peer hung up
  owes,       \* the request the peer has not answered
  granted,    \* history: the peer opened the tunnel
  sent        \* history: bytes the target has sent

vars == <<pc, cfg, sock, rd, wr, buf, pre, skip, got, res, in, eof, owes, granted, sent>>
peer == <<eof, owes, granted, sent>>

Proxies == {"none", "http", "https", "socks5", "socks4"}
Config == [proxy : Proxies, creds : BOOLEAN, tls : BOOLEAN, timeout : BOOLEAN]

Init ==
  /\ cfg \in Config
  /\ pc = "dial" /\ res = "pending" /\ sock = FALSE /\ rd = FALSE /\ wr = FALSE
  /\ buf = <<>> /\ pre = <<>> /\ skip = 0 /\ got = <<>> /\ in = <<>>
  /\ eof = FALSE /\ owes = "nothing" /\ granted = FALSE /\ sent = 0

From(s, n) == SubSeq(s, n, Len(s))

-----------------------------------------------------------------------------
(* NewTLSClient and the end of the dial *)

\* The transport is up: with TLS its handshake follows, under the timeout.
Established ==
  IF cfg.tls
    THEN pc' = "tls" /\ rd' = cfg.timeout /\ wr' = cfg.timeout /\ UNCHANGED res
    ELSE pc' = "done" /\ rd' = FALSE /\ wr' = FALSE /\ res' = "ok"

TlsOK ==
  /\ pc = "tls" /\ pc' = "done" /\ res' = "ok"
  /\ rd' = FALSE /\ wr' = FALSE
  /\ UNCHANGED <<cfg, sock, buf, pre, skip, got, in, peer>>

TlsFail ==
  /\ pc = "tls" /\ pc' = "done" /\ res' = "error" /\ sock' = FALSE
  /\ UNCHANGED <<cfg, rd, wr, buf, pre, skip, got, in, peer>>

-----------------------------------------------------------------------------
(* dialTransport and dialViaProxy *)

FirstStep ==
  [http |-> "connect", https |-> "proxytls", socks5 |-> "greet", socks4 |-> "request4"]

\* The timeout covers both directions of the proxy handshake, and the handler
\* for HTTPS sets it once more for TLS to the proxy.
DialOK ==
  /\ pc = "dial"
  /\ sock' = TRUE
  /\ IF cfg.proxy = "none"
       THEN Established /\ granted' = TRUE
       ELSE /\ pc' = FirstStep[cfg.proxy]
            /\ rd' = cfg.timeout /\ wr' = cfg.timeout
            /\ UNCHANGED <<res, granted>>
  /\ UNCHANGED <<cfg, buf, pre, skip, got, in, eof, owes, sent>>

\* Bad arguments, no proxy available, an invalid one, or no connection.
DialFail ==
  /\ pc = "dial" /\ pc' = "done" /\ res' = "error"
  /\ UNCHANGED <<cfg, sock, rd, wr, buf, pre, skip, got, in, peer>>

\* An error of a handler: dialViaProxy closes the connection it dialled.
HandlerFail_NoClose ==
  /\ pc' = "done" /\ res' = "error"
  /\ UNCHANGED <<cfg, sock, rd, wr, pre, skip, got>>
HandlerFail ==
  /\ pc' = "done" /\ res' = "error" /\ sock' = FALSE
  /\ UNCHANGED <<cfg, rd, wr, pre, skip, got>>

\* A handler succeeded: dialViaProxy clears the deadline.
HandlerOK ==
  /\ Established
  /\ UNCHANGED <<cfg, sock, skip, got>>

Goto(l) == pc' = l /\ UNCHANGED <<cfg, sock, rd, wr, pre, skip, got, res>>

\* conn.Write of a request, and what the handler does next.
Write(from, to) ==
  /\ pc = from /\ ~eof
  /\ owes' = from
  /\ Goto(to)
  /\ UNCHANGED <<buf, in, eof, granted, sent>>

\* io.ReadFull of n bytes.
ReadFull(n) == Len(in) >= n /\ in' = From(in, n + 1) /\ UNCHANGED <<buf, peer>>

-----------------------------------------------------------------------------
(* HttpsHandlerConn and HttpHandlerConn *)

\* TLS to the proxy is up: its deadline is cleared, the write deadline set.
ProxyTlsOK ==
  /\ pc = "proxytls" /\ pc' = "connect"
  /\ rd' = FALSE /\ wr' = cfg.timeout
  /\ UNCHANGED <<cfg, sock, buf, pre, skip, got, res, in, peer>>

ProxyTlsFail == pc = "proxytls" /\ HandlerFail /\ UNCHANGED <<buf, in, peer>>

\* The request is written, the write deadline cleared, and readHeaders sets the
\* read deadline.
ConnectWrite_NoDeadline ==
  /\ pc = "connect" /\ ~eof /\ pc' = "headers" /\ owes' = "connect"
  /\ wr' = FALSE
  /\ UNCHANGED <<cfg, sock, rd, buf, pre, skip, got, res, in, eof, granted, sent>>
ConnectWrite ==
  /\ pc = "connect" /\ ~eof /\ pc' = "headers" /\ owes' = "connect"
  /\ wr' = FALSE /\ rd' = cfg.timeout
  /\ UNCHANGED <<cfg, sock, buf, pre, skip, got, res, in, eof, granted, sent>>

Crlf == 13
Ends(b) == {i \in 1 .. Len(b) - 1 : b[i] = Crlf /\ b[i+1] = Crlf}
HeaderEnd(b) == 1 + CHOOSE i \in Ends(b) : \A j \in Ends(b) : i <= j
Leftover_Dropped(b) == <<>>
Leftover(b) == From(b, HeaderEnd(b) + 1)

\* parseStatusCode of the status line.
parseStatusCode(b) == b[1]

TooLarge(b) == Len(b) > MaxHeader

\* One conn.Read of readHeaders; after the last one the status decides.
ReadHeaders ==
  /\ pc = "headers"
  /\ \E n \in 1 .. Len(in) :
       /\ n <= MaxRead
       /\ in' = From(in, n + 1)
       /\ LET b == buf \o SubSeq(in, 1, n)
          IN  /\ buf' = b
              /\ \/ TooLarge(b) /\ HandlerFail
                 \/ ~TooLarge(b) /\ Ends(b) = {} /\ Goto("headers")
                 \/ /\ ~TooLarge(b) /\ Ends(b) # {}
                    /\ IF parseStatusCode(b) = 200
                         THEN pre' = Leftover(b) /\ HandlerOK
                         ELSE HandlerFail
  /\ UNCHANGED peer

-----------------------------------------------------------------------------
(* Socks5HandlerConn *)

Greet == Write("greet", "method")

Method ==
  /\ pc = "method" /\ ReadFull(2)
  /\ CASE in[1] = 5 /\ in[2] = 0              -> Goto("request5")
       [] in[1] = 5 /\ in[2] = 2 /\ cfg.creds -> Goto("login")
       [] OTHER                               -> HandlerFail

Login == Write("login", "auth")

Auth ==
  /\ pc = "auth" /\ ReadFull(2)
  /\ IF in[1] = 1 /\ in[2] = 0 THEN Goto("request5") ELSE HandlerFail

Request5 == Write("request5", "head")

\* Version, reply, reserved byte and address type.
HeadOK_AnyReply(h) == h[1] = 5 /\ h[3] = 0 /\ h[4] \in {1, 3, 4}
HeadOK(h) == h[1] = 5 /\ h[2] = 0 /\ h[3] = 0 /\ h[4] \in {1, 3, 4}

Skip(h) == IF h[4] = 1 THEN 4 ELSE IF h[4] = 4 THEN 16 ELSE 0

HeadRead ==
  /\ pc = "head" /\ ReadFull(4)
  /\ IF HeadOK(in)
       THEN /\ pc' = IF in[4] = 3 THEN "length" ELSE "address"
            /\ skip' = Skip(in)
            /\ UNCHANGED <<cfg, sock, rd, wr, pre, got, res>>
       ELSE HandlerFail

LengthRead ==
  /\ pc = "length" /\ ReadFull(1)
  /\ pc' = "address" /\ skip' = in[1]
  /\ UNCHANGED <<cfg, sock, rd, wr, pre, got, res>>

\* The bound address and its port are thrown away.
AddressRead == pc = "address" /\ ReadFull(skip + 2) /\ HandlerOK /\ UNCHANGED pre

-----------------------------------------------------------------------------
(* Socks4HandlerConn *)

Request4 == Write("request4", "reply4")

Reply4 ==
  /\ pc = "reply4" /\ ReadFull(8)
  /\ IF in[1] = 0 /\ in[2] = 90 THEN HandlerOK /\ UNCHANGED pre ELSE HandlerFail

\* Names and credentials the SOCKS protocols cannot carry are refused before
\* anything is written.
BadArguments == pc \in {"greet", "request4"} /\ HandlerFail /\ UNCHANGED <<buf, in, peer>>

-----------------------------------------------------------------------------
(* Errors of blocked calls *)

Writing  == pc \in {"connect", "greet", "login", "request5", "request4"}
Reading  == pc \in {"headers", "method", "auth", "head", "length", "address", "reply4"}
Shaking  == pc \in {"proxytls", "tls"}

Aborted == IF pc = "tls" THEN TlsFail ELSE HandlerFail /\ UNCHANGED <<buf, in, peer>>

\* A deadline passes.
Expire ==
  /\ \/ Writing /\ wr
     \/ Reading /\ rd
     \/ Shaking /\ (rd \/ wr)
  /\ Aborted

\* The peer hung up, in the middle of a reply or before one.
Broken ==
  /\ eof
  /\ \/ Writing \/ Shaking
     \/ Reading /\ Len(in) < (CASE pc \in {"headers", "length"} -> 1
                                [] pc \in {"method", "auth"} -> 2
                                [] pc = "head" -> 4
                                [] pc = "address" -> skip + 2
                                [] pc = "reply4" -> 8)
  /\ Aborted

-----------------------------------------------------------------------------
(* The peer *)

Bytes(n) == [i \in 1 .. n |-> 7]

\* A SOCKS5 reply: the code rep, the bound address a with its type, and a port.
Bound == {<<1>> \o Bytes(4), <<4>> \o Bytes(16), <<3, 0>>, <<3, 2>> \o Bytes(2)}
Reply5(rep, a) == <<5, rep, 0>> \o a \o Bytes(2)
Malformed5 == {<<5, 0, 1, 1>> \o Bytes(6), <<5, 0, 0, 9>> \o Bytes(2)}

Replies ==
  [connect  |-> {<<st, Crlf>> \o h \o <<Crlf>> : st \in {200, 407},
                    h \in {<<>>, <<1, Crlf>>, <<1, Crlf, 1, Crlf>>}},
   greet    |-> {<<5, 0>>, <<5, 2>>, <<5, 255>>, <<4, 0>>},
   login    |-> {<<1, 0>>, <<1, 1>>, <<5, 0>>},
   request5 |-> {Reply5(rep, a) : rep \in {0, 5}, a \in Bound} \cup Malformed5,
   request4 |-> {<<0, 90>> \o Bytes(6), <<0, 91>> \o Bytes(6), <<4, 90>> \o Bytes(6)}]

Grants(r) ==
  CASE owes = "connect"  -> r[1] = 200
    [] owes = "request5" -> r[2] = 0
    [] owes = "request4" -> r[2] = 90
    [] OTHER             -> FALSE

\* A reply, or the beginning of one before the peer hangs up.
PeerReply ==
  /\ owes # "nothing" /\ ~eof
  /\ \E r \in Replies[owes] :
       \/ in' = in \o r /\ granted' = (granted \/ Grants(r)) /\ UNCHANGED eof
       \/ /\ in' = in \o SubSeq(r, 1, Len(r) - 1)
          /\ eof' = TRUE /\ UNCHANGED granted
  /\ owes' = "nothing"
  /\ UNCHANGED <<pc, cfg, sock, rd, wr, buf, pre, skip, got, res, sent>>

PeerClose ==
  /\ sock /\ ~eof /\ eof' = TRUE
  /\ UNCHANGED <<pc, cfg, sock, rd, wr, buf, pre, skip, got, res, in, owes, granted, sent>>

\* The i-th byte of the target.
Datum(i) == 1000 + i
Payload(n) == [i \in 1 .. n |-> Datum(i)]

\* The target talks as soon as the tunnel is open, whether or not the client
\* has read the proxy's reply.
TargetSend ==
  /\ granted /\ ~eof /\ sent < MaxPayload
  /\ sent' = sent + 1
  /\ in' = Append(in, Datum(sent'))
  /\ UNCHANGED <<pc, cfg, sock, rd, wr, buf, pre, skip, got, res, eof, owes, granted>>

-----------------------------------------------------------------------------
(* The user of the connection: preReadConn.Read, or the socket's *)

Read ==
  /\ res = "ok" /\ sock
  /\ IF pre # <<>>
       THEN \E n \in 1 .. Len(pre) : /\ got' = got \o SubSeq(pre, 1, n)
                                     /\ pre' = From(pre, n + 1) /\ UNCHANGED in
       ELSE \E n \in 1 .. Len(in) : /\ got' = got \o SubSeq(in, 1, n)
                                    /\ in' = From(in, n + 1) /\ UNCHANGED pre
  /\ UNCHANGED <<pc, cfg, sock, rd, wr, buf, skip, res, peer>>

Dialling == DialOK \/ DialFail
Answered == ReadHeaders \/ Method \/ Auth \/ HeadRead \/ LengthRead \/ AddressRead \/ Reply4
Sending  == ConnectWrite \/ Greet \/ Login \/ Request5 \/ Request4
Tls      == ProxyTlsOK \/ ProxyTlsFail \/ TlsOK \/ TlsFail

Next ==
  \/ Dialling \/ Answered \/ Sending \/ Tls \/ BadArguments
  \/ Expire \/ Broken
  \/ PeerReply \/ PeerClose \/ TargetSend \/ Read

Spec == Init /\ [][Next]_vars

\* Bytes that have arrived are read, deadlines pass, and net.Dialer keeps to its
\* Timeout. The peer owes nothing: without a deadline a call may block for ever.
FairSpec ==
  /\ Spec
  /\ WF_vars(Answered) /\ WF_vars(Expire) /\ WF_vars(cfg.timeout /\ Dialling)

-----------------------------------------------------------------------------
(* Properties *)

\* NewTCPClientAutoTLS keeps its promise: one result, and no socket left open
\* with an error, whichever handshake failed and how.
D == INSTANCE Dial WITH result <- res, open <- sock
DialKept == D!Spec

\* A connection is returned only if the peer opened the tunnel to the target.
TunnelGranted == res = "ok" => granted

\* No deadline of a handshake outlives it: one that did would break the
\* connection while its user reads or writes.
DeadlinesCleared == res = "ok" => ~rd /\ ~wr

\* The user of the connection reads exactly what the target sent, from the
\* first byte on, however the network glued those bytes to the proxy's reply.
NothingLost == res = "ok" => got \o pre \o in = Payload(sent)

\* With a timeout, dialling ends whatever the peer does: every blocked call of
\* every handshake has a deadline.
DialReturns == cfg.timeout => <>(pc = "done")

=============================================================================
