------------------------------ MODULE HTTPClient ------------------------------
(***************************************************************************)
(* One call of HTTPClient.Do or DoStream (network/http_client.go): the     *)
(* retry loop around the redirect loop around one exchange, each exchange  *)
(* on a TCPClient of its own. What the network and the server do at each   *)
(* step is a choice; errors are those isRetryableHTTPError accepts         *)
(* ("retry") and all others ("fatal").                                     *)
(***************************************************************************)
EXTENDS Integers, Sequences, FiniteSets, Functions

CONSTANTS
  Methods,       \* methods callers use; "GET" and "POST" among them
  Statuses,      \* status codes servers answer with
  MaxRetries, MaxRedirects,  \* the fields of those names
  RetryDelay     \* the field of that name is > 0

ASSUME HTTPAssumption ==
  /\ MaxRetries \in Int /\ MaxRedirects \in Int /\ RetryDelay \in BOOLEAN
  /\ "GET" \in Methods /\ Statuses \subseteq Nat

VARIABLES
  pc, mode,  \* where the call is; "Do" or "DoStream"
  orig,      \* the caller's request
  req,       \* currentReq of the redirect loop
  attempt,   \* loop variable of Do
  hops,      \* redirectCount
  status,    \* status code of the last response
  located,   \* that response had a Location header
  err,       \* class of the error being returned
  sock,      \* the connection of the current exchange, 0 if none
  open,      \* sockets not closed yet
  unsent,    \* history: sockets whose request could not be written
  dials,     \* history: connections made
  trail,     \* history: statuses followed in this attempt
  ctxDone, res

vars == <<pc, mode, orig, req, attempt, hops, status, located, err, sock, open,
          unsent, dials, trail, ctxDone, res>>
call == <<mode, orig, ctxDone>>
loop == <<req, attempt, hops, trail>>

Request == [method : Methods, body : BOOLEAN]
Redirects == {301, 302, 303, 307, 308}

Init ==
  /\ pc = "attempt" /\ mode \in {"Do", "DoStream"}
  /\ orig \in Request /\ req = orig
  /\ attempt = 0 /\ hops = 0 /\ status = 0 /\ located = FALSE /\ err = "none"
  /\ sock = 0 /\ open = {} /\ unsent = {} /\ dials = 0 /\ trail = <<>>
  /\ ctxDone = FALSE /\ res = "none"

-----------------------------------------------------------------------------
(* One exchange: doStreamOnce, and the rest of doOnce *)

Fail(e) == pc' = "failed" /\ err' = e

\* URL errors and everything NewTCPClientAutoTLS can fail with.
DialFail ==
  /\ pc = "dial"
  /\ \E e \in {"retry", "fatal"} : Fail(e)
  /\ UNCHANGED <<call, loop, status, located, sock, open, unsent, dials, res>>

DialOK ==
  /\ pc = "dial" /\ ~ctxDone
  /\ dials' = dials + 1
  /\ sock' = dials' /\ open' = open \cup {dials'}
  /\ pc' = "write"
  /\ UNCHANGED <<call, loop, status, located, err, unsent, res>>

WriteOK ==
  /\ pc = "write"
  /\ pc' = "head"
  /\ UNCHANGED <<call, loop, status, located, err, sock, open, unsent, dials, res>>

\* TCPClient.Write has stored isClosed, so client.Close returns at once and the
\* socket stays open.
WriteFail ==
  /\ pc = "write"
  /\ \E e \in {"retry", "fatal"} : Fail(e)
  /\ unsent' = unsent \cup {sock}
  /\ UNCHANGED <<call, loop, status, located, sock, open, dials, res>>

\* Status line, headers, body framing and decompression; reads go to the
\* net.Conn, so Close still closes the socket.
HeadOK ==
  /\ pc = "head"
  /\ status' \in Statuses /\ located' \in BOOLEAN
  /\ pc' = IF mode = "Do" THEN "body" ELSE "decide"
  /\ UNCHANGED <<call, loop, err, sock, open, unsent, dials, res>>

HeadFail_NoClose ==
  /\ pc = "head"
  /\ \E e \in {"retry", "fatal"} : Fail(e)
  /\ UNCHANGED <<call, loop, status, located, sock, open, unsent, dials, res>>
HeadFail ==
  /\ pc = "head"
  /\ \E e \in {"retry", "fatal"} : Fail(e)
  /\ open' = open \ {sock}
  /\ UNCHANGED <<call, loop, status, located, sock, unsent, dials, res>>

\* io.ReadAll of the body, then the deferred Body.Close.
BodyOK ==
  /\ pc = "body"
  /\ open' = open \ {sock}
  /\ pc' = "decide"
  /\ UNCHANGED <<call, loop, status, located, err, sock, unsent, dials, res>>

BodyFail ==
  /\ pc = "body"
  /\ \E e \in {"retry", "fatal"} : Fail(e)
  /\ open' = open \ {sock}
  /\ UNCHANGED <<call, loop, status, located, sock, unsent, dials, res>>

-----------------------------------------------------------------------------
(* doWithRedirects and doStreamWithRedirects *)

isRedirectStatus == status \in Redirects

nextRedirectRequest(r, st) ==
  IF st = 303 \/ (st \in {301, 302} /\ r.method = "POST")
    THEN [method |-> "GET", body |-> FALSE]
    ELSE r

RedirectLimit == IF MaxRedirects < 0 THEN 0 ELSE MaxRedirects

ReturnResponse ==
  /\ pc = "decide" /\ ~(isRedirectStatus /\ located)
  /\ pc' = "returned" /\ res' = "ok"
  /\ UNCHANGED <<call, loop, status, located, err, sock, open, unsent, dials>>

\* The stream variant closes the body here. Then the location is resolved,
\* which may fail (with an error that quotes the location, so of any class),
\* and the loop goes round or ends with "too many redirects".
Follow ==
  /\ pc = "decide" /\ isRedirectStatus /\ located
  /\ open' = open \ {sock}
  /\ \/ (\E e \in {"retry", "fatal"} : Fail(e)) /\ UNCHANGED loop
     \/ /\ hops < RedirectLimit
        /\ hops' = hops + 1
        /\ req' = nextRedirectRequest(req, status)
        /\ trail' = Append(trail, status)
        /\ pc' = "dial"
        /\ UNCHANGED <<attempt, err>>
  /\ UNCHANGED <<call, status, located, sock, unsent, dials, res>>

-----------------------------------------------------------------------------
(* The retry loop of Do and DoStream *)

\* Every attempt clones the caller's request again.
AttemptRequest_Redirected == req
AttemptRequest == orig

Attempt ==
  /\ pc = "attempt"
  /\ IF attempt <= MaxRetries
       THEN /\ pc' = "dial" /\ req' = AttemptRequest
            /\ hops' = 0 /\ trail' = <<>> /\ UNCHANGED res
       ELSE /\ pc' = "returned"
            /\ res' = IF err = "none" THEN "nothing" ELSE "error"
            /\ UNCHANGED <<req, hops, trail>>
  /\ UNCHANGED <<call, attempt, status, located, err, sock, open, unsent, dials>>

NextAttempt_Same == attempt
NextAttempt == attempt + 1

\* A retry waits for RetryDelay, or gives up when the context ends first.
Retry ==
  /\ pc = "failed" /\ err = "retry"
  /\ attempt' = NextAttempt
  /\ pc' = "attempt"
  /\ UNCHANGED <<call, req, hops, trail, status, located, err, sock, open,
                 unsent, dials, res>>

GiveUp ==
  /\ pc = "failed"
  /\ \/ err = "fatal"
     \/ attempt < MaxRetries /\ RetryDelay /\ ctxDone
  /\ pc' = "returned" /\ res' = "error"
  /\ UNCHANGED <<call, loop, status, located, err, sock, open, unsent, dials>>

-----------------------------------------------------------------------------
(* The caller *)

CloseBody ==
  /\ pc = "returned" /\ mode = "DoStream" /\ res = "ok" /\ sock \in open
  /\ open' = open \ {sock}
  /\ UNCHANGED <<pc, call, loop, status, located, err, sock, unsent, dials, res>>

Cancel ==
  /\ ~ctxDone /\ ctxDone' = TRUE
  /\ UNCHANGED <<pc, mode, orig, loop, status, located, err, sock, open,
                 unsent, dials, res>>

Exchange == DialFail \/ DialOK \/ WriteOK \/ WriteFail \/ HeadOK \/ HeadFail
            \/ BodyOK \/ BodyFail
Control == ReturnResponse \/ Follow \/ Attempt \/ Retry \/ GiveUp
Next == Exchange \/ Control \/ CloseBody \/ Cancel

Spec == Init /\ [][Next]_vars

\* Connecting and reading are under deadlines; writing the request is not, so
\* it is assumed that the server drains it.
FairSpec == Spec /\ WF_vars(Exchange) /\ WF_vars(Control)

-----------------------------------------------------------------------------
(* Properties *)

\* Every variable stays in its range: only connections that were made are open,
\* and a body is read only under a status line that was parsed.
TypeOK ==
  /\ pc \in {"attempt", "dial", "write", "head", "body", "decide", "failed", "returned"}
  /\ mode \in {"Do", "DoStream"} /\ orig \in Request /\ req \in Request
  /\ attempt \in Nat /\ hops \in Nat /\ dials \in Nat /\ sock \in 0..dials
  /\ status \in Statuses \cup {0} /\ located \in BOOLEAN
  /\ pc \in {"body", "decide"} => status \in Statuses
  /\ err \in {"none", "retry", "fatal"} /\ res \in {"none", "ok", "error", "nothing"}
  /\ open \subseteq 1..dials /\ unsent \subseteq 1..dials
  /\ trail \in Seq(Statuses) /\ ctxDone \in BOOLEAN

\* Retries and redirects together are bounded: each of the MaxRetries + 1
\* attempts makes at most MaxRedirects + 1 connections.
DialBound == dials <= (IF MaxRetries < 0 THEN 0 ELSE MaxRetries + 1)
                      * ((IF MaxRedirects < 0 THEN 0 ELSE MaxRedirects) + 1)

\* Apart from sockets whose request could not be written, there is never more
\* than the socket of the current exchange, and none once the call has
\* returned anything but a stream.
SocketsAccounted ==
  /\ open \ unsent \subseteq {sock}
  /\ pc \in {"attempt", "dial", "failed"} => open \subseteq unsent
  /\ pc = "returned" /\ ~(mode = "DoStream" /\ res = "ok") => open \subseteq unsent

\* The request of every exchange is determined by the caller's request and the
\* redirects followed in this attempt: once a 303, or a 301 or 302 of a POST,
\* was followed it is a GET without body, otherwise it is the caller's.
RequestFollowsTrail ==
  pc \notin {"attempt", "failed", "returned"} =>
    req = IF 303 \in Range(trail) \/ (orig.method = "POST" /\ {301, 302} \cap Range(trail) # {})
            THEN [method |-> "GET", body |-> FALSE] ELSE orig

\* Do and DoStream return whatever the network does within its deadlines.
CallReturns == <>(pc = "returned")

=============================================================================
