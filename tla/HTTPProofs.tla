------------------------------ MODULE HTTPProofs ------------------------------
(***************************************************************************)
(* Proofs about HTTPClient for all limits, methods and status codes, and   *)
(* about the bodies it reads, of any length.                               *)
(***************************************************************************)
EXTENDS HTTPClient, Bodies, Induction

\* The connections one attempt can make.
PerAttempt == RedirectLimit + 1

\* Every exchange of an attempt is one hop of its redirect loop, and every
\* attempt before this one used up its share at most.
Counting ==
  /\ hops <= RedirectLimit
  /\ pc = "attempt" => /\ attempt = 0 \/ attempt <= MaxRetries + 1
                       /\ dials <= attempt * PerAttempt
  /\ pc \notin {"attempt", "returned"} => attempt <= MaxRetries
  /\ pc = "dial" => dials <= attempt * PerAttempt + hops
  /\ pc \in {"write", "head", "body", "decide", "failed"} =>
       dials <= attempt * PerAttempt + hops + 1
  /\ DialBound

\* Do has read and closed the body before it decides; the stream variant has
\* not.
Sockets ==
  /\ SocketsAccounted
  /\ pc = "decide" /\ mode = "Do" => open \subseteq unsent

Typed == TypeOK /\ (pc = "write" => sock # 0)

Inv == Typed /\ Sockets /\ RequestFollowsTrail

-----------------------------------------------------------------------------
(* Types *)

\* A redirect leaves a well-formed request.
LEMMA RedirectRequest ==
  ASSUME NEW r \in Request, NEW st
  PROVE  nextRedirectRequest(r, st) \in Request
BY HTTPAssumption, SMTT(60) DEF nextRedirectRequest, Request

\* Every step keeps the types; a request is written to a socket.
LEMMA StepType ==
  ASSUME Typed, Next
  PROVE  Typed'
<1> USE HTTPAssumption DEF Typed, TypeOK, call, loop
<1>1. CASE DialFail
  BY <1>1, Zenon DEF DialFail, Fail
<1>2. CASE DialOK
  BY <1>2, SMTT(60) DEF DialOK
<1>3. CASE WriteOK
  BY <1>3, Zenon DEF WriteOK
<1>4. CASE WriteFail
  BY <1>4, SMTT(60) DEF WriteFail, Fail
<1>5. CASE HeadOK
  BY <1>5, Zenon DEF HeadOK
<1>6. CASE HeadFail
  BY <1>6, Zenon DEF HeadFail, Fail
<1>7. CASE BodyOK
  BY <1>7, ZenonT(60) DEF BodyOK
<1>8. CASE BodyFail
  BY <1>8, Zenon DEF BodyFail, Fail
<1>9. CASE ReturnResponse
  BY <1>9, Zenon DEF ReturnResponse
<1>10. CASE Follow
  <2>1. status \in Statuses
    BY <1>10, Zenon DEF Follow
  <2>2. nextRedirectRequest(req, status) \in Request
    BY RedirectRequest, Zenon
  <2>3. ASSUME UNCHANGED loop, pc' = "failed", err' \in {"retry", "fatal"} PROVE Typed'
    BY <1>10, <2>3, Zenon DEF Follow
  <2>4. CASE /\ hops' = hops + 1 /\ req' = nextRedirectRequest(req, status)
             /\ trail' = Append(trail, status) /\ pc' = "dial" /\ UNCHANGED <<attempt, err>>
    <3>1. hops' \in Nat /\ trail' \in Seq(Statuses)
      BY <2>1, <2>4
    <3> QED
      BY <1>10, <2>2, <2>4, <3>1, Zenon DEF Follow
  <2> QED
    BY <1>10, <2>3, <2>4, Zenon DEF Follow, Fail
<1>11. CASE Attempt
  <2>1. <<>> \in Seq(Statuses)
    OBVIOUS
  <2>2. CASE attempt <= MaxRetries
    BY <1>11, <2>1, <2>2, SMTT(60) DEF Attempt, AttemptRequest
  <2>3. CASE ~(attempt <= MaxRetries)
    BY <1>11, <2>3, Zenon DEF Attempt
  <2> QED
    BY <2>2, <2>3, Zenon
<1>12. CASE Retry
  BY <1>12, SMTT(60) DEF Retry, NextAttempt
<1>13. CASE GiveUp
  BY <1>13, Zenon DEF GiveUp
<1>14. CASE CloseBody \/ Cancel
  BY <1>14, ZenonT(60) DEF CloseBody, Cancel
<1> QED
  BY <1>1, <1>2, <1>3, <1>4, <1>5, <1>6, <1>7, <1>8, <1>9, <1>10, <1>11, <1>12, ZenonT(60),
     <1>13, <1>14 DEF Next, Exchange, Control

-----------------------------------------------------------------------------
(* Sockets *)

\* No error path of an exchange forgets its socket, except a failed write.
LEMMA StepSockets ==
  ASSUME TypeOK, Sockets, Next
  PROVE  Sockets'
<1> USE DEF TypeOK, Sockets, SocketsAccounted, call, loop
<1>1. CASE DialFail \/ DialOK
  BY <1>1, ZenonT(60) DEF DialFail, DialOK, Fail
<1>2. CASE WriteOK \/ WriteFail
  BY <1>2, ZenonT(60) DEF WriteOK, WriteFail, Fail
<1>3. CASE HeadOK \/ HeadFail
  BY <1>3, ZenonT(60) DEF HeadOK, HeadFail, Fail
<1>4. CASE BodyOK \/ BodyFail
  BY <1>4, ZenonT(60) DEF BodyOK, BodyFail, Fail
<1>5. CASE ReturnResponse
  BY <1>5, Zenon DEF ReturnResponse
<1>6. CASE Follow
  BY <1>6, Zenon DEF Follow, Fail
<1>7. CASE Attempt \/ Retry \/ GiveUp
  BY <1>7, ZenonT(60) DEF Attempt, Retry, GiveUp
<1>8. CASE CloseBody \/ Cancel
  BY <1>8, ZenonT(60) DEF CloseBody, Cancel
<1> QED
  BY <1>1, <1>2, <1>3, <1>4, <1>5, <1>6, <1>7, <1>8, Zenon DEF Next, Exchange, Control

-----------------------------------------------------------------------------
(* Redirects *)

\* The elements of a sequence with one more.
LEMMA RangeAppend ==
  ASSUME NEW S, NEW s \in Seq(S), NEW x \in S
  PROVE  Range(Append(s, x)) = Range(s) \cup {x}
<1>1. \A i \in DOMAIN s : i \in DOMAIN Append(s, x) /\ Append(s, x)[i] = s[i]
  OBVIOUS
<1>2. \A i \in DOMAIN Append(s, x) : Append(s, x)[i] = x \/ i \in DOMAIN s
  OBVIOUS
<1>3. Len(s) + 1 \in DOMAIN Append(s, x) /\ Append(s, x)[Len(s) + 1] = x
  OBVIOUS
<1> QED
  BY <1>1, <1>2, <1>3, Zenon DEF Range

\* The request stays the one the followed redirects determine.
LEMMA StepTrail ==
  ASSUME TypeOK, RequestFollowsTrail, Next
  PROVE  RequestFollowsTrail'
<1> USE DEF RequestFollowsTrail, call, loop
<1>1. CASE Follow
  <2>1. CASE pc' = "failed"
    BY <2>1, Zenon
  <2>2. CASE pc' # "failed"
    <3>1. /\ trail' = Append(trail, status) /\ req' = nextRedirectRequest(req, status)
          /\ orig' = orig /\ pc = "decide"
      BY <1>1, <2>2, Zenon DEF Follow, Fail
    <3>2. Range(trail') = Range(trail) \cup {status}
      BY <3>1, RangeAppend, SMTT(60) DEF TypeOK
    <3>3. req = IF 303 \in Range(trail) \/ (orig.method = "POST" /\ {301, 302} \cap Range(trail) # {})
                  THEN [method |-> "GET", body |-> FALSE] ELSE orig
      BY <3>1, Zenon
    <3>4. {301, 302} \cap Range(trail') # {} <=>
            {301, 302} \cap Range(trail) # {} \/ status \in {301, 302}
      BY <3>2, SMTT(60)
    <3>5. CASE 303 \in Range(trail) \/ (orig.method = "POST" /\ {301, 302} \cap Range(trail) # {})
      BY <3>1, <3>2, <3>3, <3>4, <3>5, SMTT(60) DEF nextRedirectRequest
    <3>6. CASE ~(303 \in Range(trail) \/ (orig.method = "POST" /\ {301, 302} \cap Range(trail) # {}))
      <4>1. CASE status = 303
        BY <3>1, <3>2, <3>3, <3>6, <4>1, SMTT(60) DEF nextRedirectRequest
      <4>2. CASE status # 303
        <5>1. 303 \notin Range(trail')
          BY <3>2, <3>6, <4>2, ZenonT(60)
        <5> QED
          BY <3>1, <3>3, <3>4, <3>6, <4>2, <5>1, SMTT(60) DEF nextRedirectRequest
      <4> QED
        BY <4>1, <4>2, Zenon
    <3> QED
      BY <3>5, <3>6, ZenonT(60)
  <2> QED
    BY <2>1, <2>2, Zenon
<1>2. CASE Attempt
  <2>1. Range(<<>>) = {}
    BY SMTT(60) DEF Range
  <2> QED
    BY <1>2, <2>1, SMTT(60) DEF Attempt, AttemptRequest
<1>3. CASE Exchange
  BY <1>3, SMTT(60) DEF Exchange, DialFail, DialOK, WriteOK, WriteFail, HeadOK, HeadFail,
              BodyOK, BodyFail, Fail
<1>4. CASE ReturnResponse \/ Retry \/ GiveUp
  BY <1>4, Zenon DEF ReturnResponse, Retry, GiveUp
<1>5. CASE CloseBody \/ Cancel
  BY <1>5, SMTT(60) DEF CloseBody, Cancel
<1> QED
  BY <1>1, <1>2, <1>3, <1>4, <1>5, Zenon DEF Next, Control

-----------------------------------------------------------------------------
(* Dials *)

\* One attempt more is one share more.
LEMMA ShareGrows ==
  ASSUME NEW a \in Nat, NEW k \in Nat
  PROVE  (a + 1) * k = a * k + k /\ a * k \in Nat
OBVIOUS

\* More attempts have at least as many shares.
LEMMA ShareMonotone ==
  ASSUME NEW a \in Nat, NEW b \in Nat, a <= b, NEW k \in Nat
  PROVE  a * k <= b * k
OBVIOUS

\* Every step keeps the count.
LEMMA StepCounting ==
  ASSUME TypeOK, Counting, Next
  PROVE  Counting'
<1> DEFINE used == attempt * PerAttempt
<1>1. RedirectLimit \in Nat /\ PerAttempt = RedirectLimit + 1 /\ used \in Nat
  BY HTTPAssumption, ShareGrows, SMTT(60) DEF RedirectLimit, PerAttempt, TypeOK
<1>2. attempt \in Nat /\ hops \in Nat /\ dials \in Nat
  BY Zenon DEF TypeOK
<1>3. CASE DialOK
  <2>1. attempt <= MaxRetries /\ attempt + 1 <= MaxRetries + 1 /\ MaxRetries + 1 \in Nat
    BY <1>2, <1>3, HTTPAssumption, SMTT(60) DEF DialOK, Counting
  <2>2. (attempt + 1) * PerAttempt <= (MaxRetries + 1) * PerAttempt
    BY <1>1, <1>2, <2>1, ShareMonotone, SMTT(60)
  <2>3. (attempt + 1) * PerAttempt = used + PerAttempt
    BY <1>1, <1>2, ShareGrows, SMTT(60)
  <2>4. dials' <= used + hops + 1 /\ hops <= RedirectLimit
    BY <1>1, <1>2, <1>3, SMTT(60) DEF DialOK, Counting
  <2>5. DialBound'
    <3>1. MaxRetries >= 0
      BY <1>2, <2>1, HTTPAssumption, SMTT(60)
    <3>2. dials' <= (MaxRetries + 1) * PerAttempt
      <4> HIDE DEF used
      <4>1. (MaxRetries + 1) * PerAttempt \in Nat
        BY <1>1, <2>1, ShareGrows, SMTT(60)
      <4> QED
        BY <1>1, <1>2, <1>3, <2>2, <2>3, <2>4, <4>1, SMTT(60) DEF DialOK
    <3> QED
      BY <3>1, <3>2, HTTPAssumption, SMTT(60) DEF DialBound, PerAttempt, RedirectLimit
  <2> QED
    BY <1>3, <2>1, <2>4, <2>5, Zenon DEF DialOK, Counting, loop
<1>4. CASE Retry
  <2>1. dials <= used + hops + 1 /\ hops <= RedirectLimit /\ attempt <= MaxRetries
    BY <1>4, Zenon DEF Retry, Counting
  <2>2. attempt' = attempt + 1 /\ attempt' * PerAttempt = used + PerAttempt
    BY <1>1, <1>2, <1>4, ShareGrows, SMTT(60) DEF Retry, NextAttempt
  <2>3. dials' <= attempt' * PerAttempt
    <3> HIDE DEF used
    <3> QED
      BY <1>1, <1>2, <1>4, <2>1, <2>2, SMTT(60) DEF Retry
  <2>4. attempt' <= MaxRetries + 1
    BY <1>2, <2>1, <2>2, HTTPAssumption, SMTT(60)
  <2> QED
    BY <1>4, <2>1, <2>3, <2>4, Zenon DEF Retry, Counting, DialBound
<1>5. CASE Attempt
  BY <1>1, <1>2, <1>5, HTTPAssumption, SMTT(60) DEF Attempt, Counting, DialBound
<1>6. CASE Follow
  BY <1>1, <1>2, <1>6, SMTT(60) DEF Follow, Fail, Counting, DialBound, loop
<1>7. CASE DialFail
  BY <1>1, <1>2, <1>7, SMTT(60) DEF DialFail, Fail, Counting, DialBound, loop
<1>8. CASE WriteOK \/ WriteFail \/ HeadOK \/ HeadFail \/ BodyOK \/ BodyFail
  BY <1>8, Zenon DEF WriteOK, WriteFail, HeadOK, HeadFail, BodyOK, BodyFail, Fail,
              Counting, DialBound, loop
<1>9. CASE ReturnResponse \/ GiveUp
  BY <1>9, Zenon DEF ReturnResponse, GiveUp, Counting, DialBound, loop
<1>10. CASE CloseBody \/ Cancel
  BY <1>10, Zenon DEF CloseBody, Cancel, Counting, DialBound, loop
<1> QED
  BY <1>3, <1>4, <1>5, <1>6, <1>7, <1>8, <1>9, <1>10, Zenon DEF Next, Exchange, Control

-----------------------------------------------------------------------------
(* Theorems *)

\* The inductive invariant of the types, sockets and redirects.
LEMMA InvHolds == Spec => []Inv
<1>1. Init => Inv
  <2>1. <<>> \in Seq(Statuses)
    OBVIOUS
  <2>2. ASSUME Init PROVE Typed
    <3>1. sock \in 0..dials /\ open \subseteq 1..dials /\ unsent \subseteq 1..dials
      BY <2>2 DEF Init
    <3>2. orig \in Request /\ req \in Request /\ trail \in Seq(Statuses)
      BY <2>1, <2>2, Zenon DEF Init
    <3> QED
      BY <2>2, <3>1, <3>2, ZenonT(60) DEF Init, Typed, TypeOK
  <2>3. Init => Sockets /\ RequestFollowsTrail
    BY Zenon DEF Init, Sockets, SocketsAccounted, RequestFollowsTrail
  <2> QED
    BY <2>2, <2>3, Zenon DEF Inv
<1>2. Inv /\ [Next]_vars => Inv'
  <2>1. CASE Next
    BY <2>1, StepType, StepSockets, StepTrail, Zenon DEF Inv, Typed
  <2>2. CASE UNCHANGED vars
    BY <2>2 DEF vars, Inv, Typed, TypeOK, Sockets, SocketsAccounted, RequestFollowsTrail
  <2> QED
    BY <2>1, <2>2, Zenon
<1> QED
  BY <1>1, <1>2, PTL DEF Spec

\* Do and DoStream keep every variable in its range, whatever the network does.
THEOREM TypeCorrect == Spec => []TypeOK
<1>1. Inv => TypeOK
  BY Zenon DEF Inv, Typed
<1> QED
  BY <1>1, InvHolds, PTL

\* For any number of retries and redirects, only a socket whose request could
\* not be written stays open once the call has returned an error or a body.
THEOREM SocketsAccountedHolds == Spec => []SocketsAccounted
<1>1. Inv => SocketsAccounted
  BY Zenon DEF Inv, Sockets
<1> QED
  BY <1>1, InvHolds, PTL

\* However many redirects an attempt follows, each request is the one that
\* nextRedirectRequest makes of the caller's.
THEOREM RequestFollowsTrailHolds == Spec => []RequestFollowsTrail
<1>1. Inv => RequestFollowsTrail
  BY Zenon DEF Inv
<1> QED
  BY <1>1, InvHolds, PTL

\* For any MaxRetries and MaxRedirects, negative ones included, one call makes
\* at most (MaxRetries + 1) * (MaxRedirects + 1) connections.
THEOREM DialBoundHolds == Spec => []DialBound
<1>1. Init => Counting
  <2>1. RedirectLimit \in Nat /\ PerAttempt \in Nat
    BY HTTPAssumption DEF RedirectLimit, PerAttempt
  <2>2. ASSUME Init PROVE DialBound
    <3> DEFINE a == IF MaxRetries < 0 THEN 0 ELSE MaxRetries + 1
    <3>1. a \in Nat
      BY HTTPAssumption
    <3>2. a * PerAttempt \in Nat
      BY <2>1, <3>1, ShareGrows, Zenon
    <3> QED
      BY <2>2, <3>2 DEF Init, DialBound, PerAttempt, RedirectLimit
  <2>3. 0 <= 0 * PerAttempt /\ 0 <= RedirectLimit
    BY <2>1
  <2> QED
    BY <2>2, <2>3, ZenonT(60) DEF Init, Counting
<1>2. TypeOK /\ Counting /\ [Next]_vars => Counting'
  <2>1. CASE UNCHANGED vars
    BY <2>1, Zenon DEF vars, Counting, DialBound
  <2> QED
    BY <2>1, StepCounting, Zenon
<1>3. Counting => DialBound
  BY Zenon DEF Counting
<1> QED
  BY <1>1, <1>2, <1>3, TypeCorrect, PTL DEF Spec

-----------------------------------------------------------------------------
(* HTTPBody: what a server sends *)

Token == [t : {"byte", "size", "cr", "lf", "line", "blank", "junk"}, n : Nat]

\* u is s followed by t.
Glued(u, s, t) ==
  /\ u \in Seq(Token) /\ Len(u) = Len(s) + Len(t)
  /\ \A i \in 1..Len(s) : u[i] = s[i]
  /\ \A i \in 1..Len(t) : u[Len(s) + i] = t[i]

\* Concatenation.
LEMMA Glue ==
  ASSUME NEW s \in Seq(Token), NEW t \in Seq(Token), NEW u, u = s \o t
  PROVE  Glued(u, s, t)
<1> DEFINE T == Token
<1>1. s \in Seq(T) /\ t \in Seq(T)
  OBVIOUS
<1> HIDE DEF T
<1>2. u \in Seq(T) /\ Len(u) = Len(s) + Len(t)
  BY <1>1
<1>3. \A i \in 1..Len(s) : u[i] = s[i]
  BY <1>1
<1>4. \A i \in 1..Len(t) : u[Len(s) + i] = t[i]
  BY <1>1
<1> QED
  BY <1>2, <1>3, <1>4, Zenon DEF Glued, T

\* The kinds of token.
LEMMA Tokens ==
  /\ \A i \in Nat : /\ Body!Byte(i) \in Token /\ Body!Byte(i).t = "byte" /\ Body!Byte(i).n = i
                    /\ Body!Size(i) \in Token /\ Body!Size(i).t = "size" /\ Body!Size(i).n = i
  /\ \A x \in {"cr", "lf", "line", "blank", "junk"} : Body!Mark(x) \in Token /\ Body!Mark(x).t = x
BY DEF Body!Byte, Body!Size, Body!Mark, Token

\* At position p of w is a chunk of m bytes, those after the first s.
Carries(w, p, s, m) ==
  /\ w[p] = Body!Size(m) /\ \A i \in 1..m : w[p + i] = Body!Byte(s + i)
  /\ w[p + m + 1] = Body!Mark("cr") /\ w[p + m + 2] = Body!Mark("lf")

\* One chunk.
LEMMA ChunkCarries ==
  ASSUME NEW s \in Nat, NEW m \in Nat, NEW x, x = Body!Chunk(s, m)
  PROVE  x \in Seq(Token) /\ Len(x) = m + 3 /\ Carries(x, 1, s, m)
<1>1. PICK a : a = <<Body!Size(m)>>
  BY Zenon
<1>2. PICK b : b = [i \in 1..m |-> Body!Byte(s + i)]
  BY Zenon
<1>3. PICK c : c = <<Body!Mark("cr"), Body!Mark("lf")>>
  BY Zenon
<1>4. PICK y : y = a \o b
  BY Zenon
<1>5. x = y \o c
  BY <1>1, <1>2, <1>3, <1>4, Zenon DEF Body!Chunk
<1>6. a \in Seq(Token) /\ Len(a) = 1 /\ a[1] = Body!Size(m)
  <2>1. Body!Size(m) \in Token
    BY Tokens, Zenon
  <2> QED
    BY <1>1, <2>1
<1>7. c \in Seq(Token) /\ Len(c) = 2 /\ c[1] = Body!Mark("cr") /\ c[2] = Body!Mark("lf")
  <2>1. Body!Mark("cr") \in Token /\ Body!Mark("lf") \in Token
    BY Tokens, Zenon
  <2> QED
    BY <1>3, <2>1
<1>8. b \in Seq(Token) /\ Len(b) = m /\ \A i \in 1..m : b[i] = Body!Byte(s + i)
  <2>1. \A i \in 1..m : s + i \in Nat
    OBVIOUS
  <2>2. \A i \in 1..m : Body!Byte(s + i) \in Token
    BY <2>1, Tokens, Zenon
  <2>3. b \in [1..m -> Token]
    BY <1>2, <2>2, Zenon
  <2>4. b \in Seq(Token) /\ Len(b) = m
    BY <2>3, FcnSeq, Zenon
  <2> QED
    BY <1>2, <2>4, Zenon
<1>9. Glued(y, a, b) /\ y \in Seq(Token)
  <2>1. Glued(y, a, b)
    BY <1>4, <1>6, <1>8, Glue, Zenon
  <2> QED
    BY <2>1, Zenon DEF Glued
<1>10. Glued(x, y, c)
  BY <1>5, <1>7, <1>9, Glue, Zenon
<1>11. /\ Len(y) = Len(a) + Len(b) /\ \A i \in 1..Len(a) : y[i] = a[i]
       /\ \A i \in 1..Len(b) : y[Len(a) + i] = b[i]
  BY <1>9, Zenon DEF Glued
<1>12. /\ x \in Seq(Token) /\ Len(x) = Len(y) + Len(c) /\ \A i \in 1..Len(y) : x[i] = y[i]
       /\ \A i \in 1..Len(c) : x[Len(y) + i] = c[i]
  BY <1>10, Zenon DEF Glued
<1>13. Len(y) = 1 + m /\ Len(x) = m + 3
  <2>1. Len(y) = Len(a) + Len(b) /\ Len(x) = Len(y) + Len(c) /\ Len(a) = 1 /\ Len(b) = m /\ Len(c) = 2
    BY <1>6, <1>7, <1>8, <1>11, <1>12, Zenon
  <2> QED
    BY <2>1
<1>14. /\ 1 \in 1..Len(a) /\ 1 \in 1..Len(y) /\ 1 \in 1..Len(c) /\ 2 \in 1..Len(c)
       /\ Len(y) + 1 = 1 + m + 1 /\ Len(y) + 2 = 1 + m + 2
       /\ \A i \in 1..m : Len(a) + i = 1 + i /\ 1 + i \in 1..Len(y) /\ i \in 1..Len(b)
  BY <1>6, <1>7, <1>8, <1>13
<1>15. x[1] = Body!Size(m)
  BY <1>6, <1>11, <1>12, <1>14, Zenon
<1>16. x[1 + m + 1] = Body!Mark("cr") /\ x[1 + m + 2] = Body!Mark("lf")
  BY <1>7, <1>12, <1>14, Zenon
<1>17. ASSUME NEW i \in 1..m PROVE x[1 + i] = Body!Byte(s + i)
  <2>1. Len(a) + i = 1 + i /\ 1 + i \in 1..Len(y) /\ i \in 1..Len(b)
    BY <1>14, Zenon
  <2>2. y[Len(a) + i] = b[i] /\ x[1 + i] = y[1 + i]
    BY <1>11, <1>12, <2>1, Zenon
  <2> QED
    BY <1>8, <2>1, <2>2, Zenon
<1> QED
  BY <1>12, <1>13, <1>15, <1>16, <1>17, Zenon DEF Carries

\* What has been sent before each chunk.
LEMMA SumsDef ==
  ASSUME NEW n \in Nat, NEW c \in [1..n -> Nat]
  PROVE  LET q == Body!Sums(c)
         IN  /\ q[0] = 0 /\ \A i \in 1..n : q[i] = q[i - 1] + c[i]
             /\ \A i \in 0..n : q[i] \in Nat
<1> DEFINE Eqn(q) == q = [k \in 0..Len(c) |-> IF k = 0 THEN 0 ELSE q[k - 1] + c[k]]
           g == [p \in (1..n) \X Nat |-> p[2] + c[p[1]]]
           q == Body!Sums(c)
<1>0. Len(c) = n
  BY FcnSeq, Zenon
<1>1. g \in [(1..n) \X Nat -> Nat]
  <2>1. \A p \in (1..n) \X Nat : p[2] + c[p[1]] \in Nat
    OBVIOUS
  <2> QED
    BY <2>1, Zenon
<1>2. PICK f : f \in [0..n -> Nat] /\ f[0] = 0 /\ \A i \in 1..n : f[i] = g[<<i, f[i - 1]>>]
  <2> HIDE DEF g
  <2>0. 0 \in Nat
    OBVIOUS
  <2>1. \E f : Recurs(f, n, Nat, 0, g)
    BY <1>1, <2>0, Recursion, Zenon
  <2> QED
    BY <2>1, Zenon DEF Recurs
<1>3. \A i \in 0..n : i # 0 => i \in 1..n /\ i - 1 \in 0..n
  OBVIOUS
<1>4. \A i \in 1..n : f[i] = f[i - 1] + c[i]
  <2> SUFFICES ASSUME NEW i \in 1..n PROVE f[i] = f[i - 1] + c[i]
    OBVIOUS
  <2>1. f[i - 1] \in Nat
    BY <1>2
  <2>2. <<i, f[i - 1]>> \in (1..n) \X Nat /\ <<i, f[i - 1]>>[2] = f[i - 1] /\ <<i, f[i - 1]>>[1] = i
    BY <2>1, SMTT(60)
  <2> QED
    BY <1>2, <2>2, Zenon
<1>5. Eqn(f)
  BY <1>0, <1>2, <1>3, <1>4
<1>6. q = CHOOSE x : Eqn(x)
  BY Zenon DEF Body!Sums
<1>7. Eqn(q)
  <2> HIDE DEF Eqn, q
  <2> QED
    BY <1>5, <1>6, Zenon
<1> HIDE DEF q
<1>8. q[0] = 0 /\ \A i \in 1..n : q[i] = q[i - 1] + c[i]
  BY <1>0, <1>7
<1>9. \A i \in 0..n : q[i] \in Nat
  <2> DEFINE S == {i \in Nat : q[i] \in Nat}
  <2>1. 0 \in S
    BY <1>8
  <2>0. \A i \in 1..n : i - 1 \in S => i \in S
    <3> SUFFICES ASSUME NEW i \in 1..n, q[i - 1] \in Nat PROVE i \in Nat /\ q[i] \in Nat
      BY Zenon
    <3>1. i \in Nat /\ c[i] \in Nat
      OBVIOUS
    <3> QED
      BY <1>8, <3>1
  <2> HIDE DEF S
  <2>2. \A i \in 0..n : i \in S
    BY <2>0, <2>1, UpTo, Zenon
  <2> QED
    BY <2>2, Zenon DEF S
<1> QED
  BY <1>8, <1>9, Zenon DEF q

\* They grow.
LEMMA SumsGrow ==
  ASSUME NEW n \in Nat, NEW c \in [1..n -> Nat], NEW j \in 0..n
  PROVE  Body!Sums(c)[j] <= Body!Sums(c)[n]
<1> DEFINE q == Body!Sums(c)
           S == {i \in Nat : i \in j..n => q[j] <= q[i]}
<1>1. /\ q[0] = 0 /\ \A i \in 1..n : q[i] = q[i - 1] + c[i]
      /\ \A i \in 0..n : q[i] \in Nat
  BY SumsDef, Zenon
<1> HIDE DEF q
<1>2. 0 \in S
  <2>1. 0 \in j..n => j = 0
    OBVIOUS
  <2>2. q[0] <= q[0]
    BY <1>1
  <2> QED
    BY <2>1, <2>2
<1>3. \A i \in 1..n : i - 1 \in S => i \in S
  <2> SUFFICES ASSUME NEW i \in 1..n, i - 1 \in S, i \in j..n PROVE q[j] <= q[i]
    OBVIOUS
  <2>1. q[j] \in Nat /\ q[i - 1] \in Nat /\ c[i] \in Nat /\ q[i] = q[i - 1] + c[i]
    BY <1>1
  <2>2. CASE i = j
    BY <2>1, <2>2
  <2>3. CASE i # j
    <3>1. i - 1 \in j..n
      BY <2>3
    <3>2. q[j] <= q[i - 1]
      BY <3>1
    <3> QED
      BY <2>1, <3>2, SMTT(60)
  <2> QED
    BY <2>2, <2>3
<1> HIDE DEF S
<1>4. \A i \in 0..n : i \in S
  BY <1>2, <1>3, UpTo, Zenon
<1>5. n \in S /\ n \in j..n
  BY <1>4
<1> QED
  BY <1>5, Zenon DEF S, q

\* w[k] is the first k chunks.
Wires(w, n, c) ==
  /\ \A i \in 0..n : w[i] \in Seq(Token)
  /\ w[0] = <<>>
  /\ \A i \in 1..n : w[i] = w[i - 1] \o Body!Chunk(Body!Sums(c)[i - 1], c[i])

End == <<Body!Size(0), Body!Mark("line"), Body!Mark("blank")>>

\* The chunks one after the other, and the last, empty one.
LEMMA WiresDef ==
  ASSUME NEW n \in Nat, NEW c \in [1..n -> Nat], NEW l
  PROVE  \E w : Wires(w, n, c) /\ Body!Framed("chunked", l, c) = w[n] \o End
<1> DEFINE q == Body!Sums(c)
           Ch(i) == Body!Chunk(q[i - 1], c[i])
           Eqn(w) == w = [k \in 0..Len(c) |-> IF k = 0 THEN <<>> ELSE w[k - 1] \o Ch(k)]
           g == [p \in (1..n) \X Seq(Token) |-> p[2] \o Ch(p[1])]
<1>0. Len(c) = n
  BY FcnSeq, Zenon
<1>1. \A i \in 1..n : Ch(i) \in Seq(Token)
  <2> SUFFICES ASSUME NEW i \in 1..n PROVE Ch(i) \in Seq(Token)
    BY Zenon
  <2>1. i - 1 \in 0..n /\ c[i] \in Nat
    OBVIOUS
  <2>2. q[i - 1] \in Nat
    BY <2>1, SumsDef, Zenon
  <2> QED
    BY <2>1, <2>2, ChunkCarries, Zenon
<1>6. Body!Framed("chunked", l, c) = (CHOOSE w : Eqn(w))[Len(c)] \o End
  BY Zenon DEF Body!Framed, End
<1> HIDE DEF Ch
<1>2. g \in [(1..n) \X Seq(Token) -> Seq(Token)]
  <2>1. \A p \in (1..n) \X Seq(Token) : p[2] \o Ch(p[1]) \in Seq(Token)
    <3> SUFFICES ASSUME NEW p \in (1..n) \X Seq(Token) PROVE p[2] \o Ch(p[1]) \in Seq(Token)
      BY Zenon
    <3>1. p[1] \in 1..n /\ p[2] \in Seq(Token)
      OBVIOUS
    <3>2. Ch(p[1]) \in Seq(Token)
      BY <1>1, <3>1, Zenon
    <3>3. Glued(p[2] \o Ch(p[1]), p[2], Ch(p[1]))
      BY <3>1, <3>2, Glue, Zenon
    <3> QED
      BY <3>3, Zenon DEF Glued
  <2> QED
    BY <2>1, Zenon
<1>3. <<>> \in Seq(Token)
  OBVIOUS
<1>4. PICK f : f \in [0..n -> Seq(Token)] /\ f[0] = <<>> /\ \A i \in 1..n : f[i] = g[<<i, f[i - 1]>>]
  <2> HIDE DEF g
  <2>1. \E f : Recurs(f, n, Seq(Token), <<>>, g)
    BY <1>2, <1>3, Recursion, Zenon
  <2> QED
    BY <2>1, Zenon DEF Recurs
<1>5. \A i \in 1..n : f[i] = f[i - 1] \o Ch(i)
  <2> SUFFICES ASSUME NEW i \in 1..n PROVE f[i] = f[i - 1] \o Ch(i)
    BY Zenon
  <2>0. i - 1 \in 0..n
    OBVIOUS
  <2>1. f[i - 1] \in Seq(Token)
    BY <1>4, <2>0, Zenon
  <2>2. <<i, f[i - 1]>> \in (1..n) \X Seq(Token) /\ <<i, f[i - 1]>>[2] = f[i - 1] /\ <<i, f[i - 1]>>[1] = i
    BY <2>1
  <2> QED
    BY <1>4, <2>2, Zenon
<1>7. Eqn(f)
  <2>1. f = [k \in 0..n |-> f[k]]
    BY <1>4, Zenon
  <2>2. \A i \in 0..n : i # 0 => i \in 1..n
    OBVIOUS
  <2>3. \A i \in 0..n : f[i] = IF i = 0 THEN <<>> ELSE f[i - 1] \o Ch(i)
    BY <1>4, <1>5, <2>2, Zenon
  <2> QED
    BY <1>0, <2>1, <2>3, Zenon
<1>8. PICK w : w = CHOOSE x : Eqn(x)
  BY Zenon
<1>9. Eqn(w)
  <2> HIDE DEF Eqn
  <2> QED
    BY <1>7, <1>8, Zenon
<1>10. w = [k \in 0..n |-> IF k = 0 THEN <<>> ELSE w[k - 1] \o Ch(k)]
  BY <1>0, <1>9, Zenon
<1>11. w[0] = <<>> /\ \A i \in 1..n : w[i] = w[i - 1] \o Ch(i)
  <2>1. 0 \in 0..n /\ \A i \in 1..n : i \in 0..n /\ i # 0
    OBVIOUS
  <2> QED
    BY <1>10, <2>1, Zenon
<1>12. \A i \in 0..n : w[i] \in Seq(Token)
  <2> DEFINE S == {i \in Nat : w[i] \in Seq(Token)}
  <2>1. 0 \in S
    BY <1>3, <1>11, Zenon
  <2>2. \A i \in 1..n : i - 1 \in S => i \in S
    <3> SUFFICES ASSUME NEW i \in 1..n, w[i - 1] \in Seq(Token) PROVE i \in Nat /\ w[i] \in Seq(Token)
      BY Zenon
    <3>1. i \in Nat
      OBVIOUS
    <3>2. w[i] = w[i - 1] \o Ch(i) /\ Ch(i) \in Seq(Token)
      BY <1>1, <1>11, Zenon
    <3>3. Glued(w[i], w[i - 1], Ch(i))
      BY <3>2, Glue, Zenon
    <3> QED
      BY <3>1, <3>3, Zenon DEF Glued
  <2> HIDE DEF S
  <2>3. \A i \in 0..n : i \in S
    BY <2>1, <2>2, UpTo, Zenon
  <2> QED
    BY <2>3, Zenon DEF S
<1>13. Wires(w, n, c)
  BY <1>11, <1>12, Zenon DEF Wires, Ch, q
<1> QED
  BY <1>0, <1>6, <1>8, <1>13, Zenon

\* u starts with s.
Starts(u, s) == Len(s) <= Len(u) /\ \A i \in 1..Len(s) : u[i] = s[i]

\* What is glued to a sequence starts with what it starts with.
LEMMA StartsGlued ==
  ASSUME NEW s \in Seq(Token), NEW v \in Seq(Token), NEW x \in Seq(Token), NEW u,
         Glued(u, v, x), Starts(v, s)
  PROVE  Starts(u, s)
<1>1. PICK a \in Nat, b \in Nat, d \in Nat : a = Len(s) /\ b = Len(v) /\ d = Len(x)
  OBVIOUS
<1>2. /\ Len(u) = b + d /\ a <= b
      /\ \A i \in 1..b : u[i] = v[i]
      /\ \A i \in 1..a : v[i] = s[i]
  BY <1>1, Zenon DEF Glued, Starts
<1>3. a <= Len(u) /\ \A i \in 1..a : i \in 1..b
  <2>1. Len(u) = b + d /\ a <= b
    BY <1>2, Zenon
  <2> QED
    BY <2>1
<1> QED
  BY <1>1, <1>2, <1>3, Zenon DEF Starts

\* The chunks start with every number of them.
LEMMA WiresStart ==
  ASSUME NEW n \in Nat, NEW c \in [1..n -> Nat], NEW w, Wires(w, n, c), NEW j \in 0..n
  PROVE  Starts(w[n], w[j])
<1> DEFINE S == {i \in Nat : i \in j..n => Starts(w[i], w[j])}
<1>1. \A i \in 0..n : w[i] \in Seq(Token)
  BY Zenon DEF Wires
<1>2. Starts(w[j], w[j])
  <2>1. PICK s \in Seq(Token) : s = w[j]
    BY <1>1, Zenon
  <2>2. Len(s) <= Len(s)
    OBVIOUS
  <2> QED
    BY <2>1, <2>2, Zenon DEF Starts
<1>3. 0 \in S
  <2>1. 0 \in j..n => j = 0
    OBVIOUS
  <2> QED
    BY <1>2, <2>1
<1>4. \A i \in 1..n : i - 1 \in S => i \in S
  <2> SUFFICES ASSUME NEW i \in 1..n, i - 1 \in S, i \in j..n PROVE Starts(w[i], w[j])
    OBVIOUS
  <2>1. CASE i = j
    BY <1>2, <2>1, Zenon
  <2>2. CASE i # j
    <3>1. i - 1 \in j..n /\ i - 1 \in 0..n /\ c[i] \in Nat
      BY <2>2
    <3>2. Starts(w[i - 1], w[j])
      BY <3>1, Zenon
    <3>3. PICK x : x = Body!Chunk(Body!Sums(c)[i - 1], c[i])
      BY Zenon
    <3>4. x \in Seq(Token)
      <4>1. Body!Sums(c)[i - 1] \in Nat
        BY <3>1, SumsDef, Zenon
      <4> QED
        BY <3>1, <3>3, <4>1, ChunkCarries, Zenon
    <3>5. Glued(w[i], w[i - 1], x)
      <4>1. w[i] = w[i - 1] \o x /\ w[i - 1] \in Seq(Token)
        BY <1>1, <3>1, <3>3, Zenon DEF Wires
      <4> QED
        BY <3>4, <4>1, Glue, Zenon
    <3> QED
      BY <1>1, <3>1, <3>2, <3>4, <3>5, StartsGlued, Zenon
  <2> QED
    BY <2>1, <2>2, Zenon
<1> HIDE DEF S
<1>5. \A i \in 0..n : i \in S
  BY <1>3, <1>4, UpTo, Zenon
<1>6. n \in S /\ n \in j..n
  BY <1>5
<1> QED
  BY <1>6, Zenon DEF S

\* At position p of w is the last chunk, behind all n bytes.
Closes(w, p, s, n) ==
  /\ w[p] = Body!Size(0) /\ w[p + 1] = Body!Mark("line") /\ w[p + 2] = Body!Mark("blank")
  /\ Len(w) = p + 2 /\ s = n

\* Another chunk follows the m bytes at position p.
Goes(w, B, p, s, m) ==
  m \in Nat \ {0} /\ Carries(w, p, s, m) /\ <<p + m + 3, s + m>> \in B

\* B holds where the chunks of w begin and what was sent before each.
Chunks(w, B, n) ==
  /\ w \in Seq(Token) /\ <<1, 0>> \in B
  /\ \A p, s : <<p, s>> \in B =>
       /\ p \in Nat /\ s \in Nat /\ p >= 1 /\ p <= Len(w) /\ s <= n
       /\ Closes(w, p, s, n) \/ \E m : Goes(w, B, p, s, m)

\* A chunk is where the chunks before it end.
LEMMA CarriesAt ==
  ASSUME NEW v \in Seq(Token), NEW x \in Seq(Token), NEW u, Glued(u, v, x), NEW w, Starts(w, u),
         NEW s, NEW m \in Nat, Len(x) = m + 3, Carries(x, 1, s, m)
  PROVE  Carries(w, Len(v) + 1, s, m)
<1>1. PICK a \in Nat : a = Len(v)
  OBVIOUS
<1>2. Len(u) = a + Len(x) /\ \A i \in 1..Len(x) : u[a + i] = x[i]
  BY <1>1, Zenon DEF Glued
<1>3. \A i \in 1..Len(u) : w[i] = u[i]
  BY Zenon DEF Starts
<1>4. ASSUME NEW i \in 1..(m + 3) PROVE w[a + i] = x[i]
  <2>1. i \in 1..Len(x)
    BY Zenon
  <2>2. a + i \in 1..Len(u)
    <3>1. Len(u) = a + Len(x) /\ Len(x) = m + 3
      BY <1>2, Zenon
    <3> QED
      BY <3>1
  <2> QED
    BY <1>2, <1>3, <2>1, <2>2, Zenon
<1>5. /\ x[1] = Body!Size(m) /\ x[1 + m + 1] = Body!Mark("cr") /\ x[1 + m + 2] = Body!Mark("lf")
      /\ \A i \in 1..m : x[1 + i] = Body!Byte(s + i)
  BY Zenon DEF Carries
<1>6. /\ 1 \in 1..(m + 3) /\ 1 + m + 1 \in 1..(m + 3) /\ 1 + m + 2 \in 1..(m + 3)
      /\ a + (1 + m + 1) = a + 1 + m + 1 /\ a + (1 + m + 2) = a + 1 + m + 2
      /\ \A i \in 1..m : 1 + i \in 1..(m + 3) /\ a + (1 + i) = a + 1 + i
  OBVIOUS
<1>7. /\ w[a + 1] = Body!Size(m) /\ w[a + 1 + m + 1] = Body!Mark("cr")
      /\ w[a + 1 + m + 2] = Body!Mark("lf")
  BY <1>4, <1>5, <1>6, Zenon
<1>8. ASSUME NEW i \in 1..m PROVE w[a + 1 + i] = Body!Byte(s + i)
  <2>1. 1 + i \in 1..(m + 3) /\ a + (1 + i) = a + 1 + i
    BY <1>6, Zenon
  <2>2. w[a + (1 + i)] = x[1 + i]
    BY <1>4, <2>1, Zenon
  <2> QED
    BY <1>5, <2>1, <2>2, Zenon
<1> QED
  BY <1>1, <1>7, <1>8, Zenon DEF Carries

\* The last chunk.
LEMMA ClosesAt ==
  ASSUME NEW v \in Seq(Token), NEW w, Glued(w, v, End), NEW n
  PROVE  Closes(w, Len(v) + 1, n, n)
<1>1. PICK a \in Nat : a = Len(v)
  OBVIOUS
<1>2. Len(w) = a + Len(End) /\ \A i \in 1..Len(End) : w[a + i] = End[i]
  BY <1>1, Zenon DEF Glued
<1>3. Len(End) = 3 /\ End[1] = Body!Size(0) /\ End[2] = Body!Mark("line") /\ End[3] = Body!Mark("blank")
  BY DEF End
<1>4. /\ 1 \in 1..Len(End) /\ 2 \in 1..Len(End) /\ 3 \in 1..Len(End)
      /\ a + 1 + 1 = a + 2 /\ a + 1 + 2 = a + 3 /\ a + Len(End) = a + 1 + 2
  BY <1>3
<1>5. w[a + 1] = Body!Size(0) /\ w[a + 2] = Body!Mark("line") /\ w[a + 3] = Body!Mark("blank")
  BY <1>2, <1>3, <1>4, Zenon
<1>6. w[a + 1 + 1] = Body!Mark("line") /\ w[a + 1 + 2] = Body!Mark("blank") /\ Len(w) = a + 1 + 2
  BY <1>2, <1>4, <1>5, Zenon
<1> QED
  BY <1>1, <1>5, <1>6, Zenon DEF Closes

\* A body cut into chunks.
LEMMA FramedChunks ==
  ASSUME NEW l \in Nat, NEW c \in Body!Chunkings(l), NEW w, w = Body!Framed("chunked", l, c)
  PROVE  \E B : Chunks(w, B, l)
<1>1. PICK n \in 0..l : c \in [1..n -> 1..l]
  BY DEF Body!Chunkings
<1>2. n \in Nat /\ c \in [1..n -> Nat] /\ \A i \in 1..n : c[i] \in Nat \ {0}
  BY <1>1
<1>3. Len(c) = n
  BY <1>2, FcnSeq, Zenon
<1>4. PICK v : Wires(v, n, c) /\ w = v[n] \o End
  BY <1>2, WiresDef, Zenon
<1>5. PICK q : q = Body!Sums(c)
  BY Zenon
<1>6. /\ q[0] = 0 /\ \A i \in 1..n : q[i] = q[i - 1] + c[i]
      /\ \A i \in 0..n : q[i] \in Nat
  BY <1>2, <1>5, SumsDef, Zenon
<1>7. q[n] = l
  BY <1>3, <1>5 DEF Body!Chunkings
<1>8. \A i \in 0..n : q[i] <= l
  BY <1>2, <1>5, <1>7, SumsGrow, Zenon
<1>9. \A i \in 0..n : v[i] \in Seq(Token)
  BY <1>4, Zenon DEF Wires
<1>10. n \in 0..n /\ 0 \in 0..n
  BY <1>2
<1>11. End \in Seq(Token) /\ Len(End) = 3
  <2>1. 0 \in Nat
    OBVIOUS
  <2>2. Body!Size(0) \in Token /\ Body!Mark("line") \in Token /\ Body!Mark("blank") \in Token
    BY <2>1, Tokens, Zenon
  <2> QED
    BY <2>2 DEF End
<1>12. Glued(w, v[n], End)
  BY <1>4, <1>9, <1>10, <1>11, Glue, Zenon
<1>13. \A i \in 0..n : Starts(w, v[i])
  <2>1. \A i \in 0..n : Starts(v[n], v[i])
    BY <1>2, <1>4, WiresStart, Zenon
  <2> QED
    BY <1>9, <1>10, <1>11, <1>12, <2>1, StartsGlued, Zenon
<1> DEFINE P(i) == Len(v[i]) + 1
           B == {<<P(i), q[i]>> : i \in 0..n}
<1>14. \A i \in 0..n : Len(v[i]) \in Nat
  BY <1>9
<1>15. w \in Seq(Token) /\ Len(w) = Len(v[n]) + 3
  BY <1>11, <1>12, Zenon DEF Glued
<1>16. \A i \in 0..n : P(i) \in Nat /\ P(i) >= 1 /\ P(i) <= Len(w)
  <2> SUFFICES ASSUME NEW i \in 0..n PROVE P(i) \in Nat /\ P(i) >= 1 /\ P(i) <= Len(w)
    BY Zenon
  <2>1. Starts(v[n], v[i])
    BY <1>2, <1>4, WiresStart, Zenon
  <2>2. Len(v[i]) \in Nat /\ Len(v[n]) \in Nat /\ Len(v[i]) <= Len(v[n])
    BY <1>10, <1>14, <2>1, Zenon DEF Starts
  <2>3. PICK a \in Nat, b \in Nat : a = Len(v[i]) /\ b = Len(v[n])
    BY <2>2, Zenon
  <2>4. a <= b /\ Len(w) = b + 3
    BY <1>15, <2>2, <2>3, Zenon
  <2>5. a + 1 \in Nat /\ a + 1 >= 1 /\ a + 1 <= b + 3
    BY <2>4
  <2> QED
    BY <2>3, <2>4, <2>5, Zenon
<1>17. <<1, 0>> \in B
  <2>1. v[0] = <<>>
    BY <1>4, Zenon DEF Wires
  <2>2. P(0) = 1
    BY <2>1
  <2> QED
    BY <1>6, <1>10, <2>2
<1>18. Closes(w, P(n), q[n], l)
  BY <1>7, <1>9, <1>10, <1>12, ClosesAt, Zenon
<1>19. ASSUME NEW i \in 0..n, i # n
       PROVE  Goes(w, B, P(i), q[i], c[i + 1])
  <2>0. PICK j : j = i + 1
    BY Zenon
  <2>1. j \in 1..n /\ j \in 0..n /\ j - 1 = i
    BY <1>2, <1>19, <2>0
  <2>2. PICK m : m = c[j]
    BY Zenon
  <2>3. m \in Nat \ {0} /\ m \in Nat
    BY <1>2, <2>1, <2>2
  <2>4. PICK x : x = Body!Chunk(q[i], m)
    BY Zenon
  <2>5. x \in Seq(Token) /\ Len(x) = m + 3 /\ Carries(x, 1, q[i], m)
    BY <1>6, <2>3, <2>4, ChunkCarries, Zenon
  <2>6. v[j] = v[i] \o x
    <3>1. v[j] = v[j - 1] \o Body!Chunk(q[j - 1], c[j])
      BY <1>4, <1>5, <2>1, Zenon DEF Wires
    <3> QED
      BY <2>1, <2>2, <2>4, <3>1, Zenon
  <2>7. Glued(v[j], v[i], x)
    BY <1>9, <2>5, <2>6, Glue, Zenon
  <2>8. Carries(w, P(i), q[i], m)
    BY <1>9, <1>13, <2>1, <2>3, <2>5, <2>7, CarriesAt, Zenon
  <2>9. q[j] = q[i] + m
    <3>1. q[j] = q[j - 1] + c[j]
      BY <1>6, <2>1, Zenon
    <3> QED
      BY <2>1, <2>2, <3>1, Zenon
  <2>10. P(j) = P(i) + m + 3
    <3>1. PICK a, b : a \in Nat /\ a = Len(v[i]) /\ b = Len(v[j])
      BY <1>14, Zenon
    <3>2. b = a + (m + 3)
      BY <2>5, <2>7, <3>1, Zenon DEF Glued
    <3>3. a \in Nat
      BY <3>1, Zenon
    <3>4. b + 1 = a + 1 + m + 3
      BY <2>3, <3>2, <3>3
    <3> QED
      BY <3>1, <3>4, Zenon
  <2>11. <<P(i) + m + 3, q[i] + m>> \in B
    BY <2>1, <2>9, <2>10, Zenon
  <2> QED
    BY <2>0, <2>2, <2>3, <2>8, <2>11, Zenon DEF Goes
<1> HIDE DEF P
<1>20. ASSUME NEW p, NEW s, <<p, s>> \in B
       PROVE  /\ p \in Nat /\ s \in Nat /\ p >= 1 /\ p <= Len(w) /\ s <= l
              /\ Closes(w, p, s, l) \/ \E m : Goes(w, B, p, s, m)
  <2>1. PICK i \in 0..n : <<p, s>> = <<P(i), q[i]>>
    BY <1>20, Zenon
  <2>2. p = P(i) /\ s = q[i]
    BY <2>1
  <2> HIDE DEF B
  <2> QED
    BY <1>6, <1>8, <1>16, <1>18, <1>19, <2>2, Zenon
<1> HIDE DEF B
<1> QED
  BY <1>15, <1>17, <1>20, Zenon DEF Chunks
-----------------------------------------------------------------------------
(* HTTPBody: how far the reader is *)

\* The server corrupts the token bad of w, if any, and stops after k tokens.
Cuts(w, bad, k, r) ==
  /\ w \in Seq(Token) /\ k \in Nat /\ k <= Len(w) /\ bad \in Nat
  /\ bad # 0 => w[bad].t # "byte" /\ r.flaw
  /\ k < Len(w) => r.early

Shown(w, bad, i) == IF i = bad THEN Body!Mark("junk") ELSE w[i]

\* After c tokens u is what is still to be read.
Left(u, w, bad, k, c) ==
  /\ u \in Seq(Token) /\ c \in Nat /\ c + Len(u) = k
  /\ \A i \in 1..Len(u) : u[i] = Shown(w, bad, c + i)

\* After c tokens the reader has l bytes and needs r more of a chunk.
Within(w, B, c, r, l) ==
  \E p, s, m : /\ <<p, s>> \in B /\ Goes(w, B, p, s, m)
               /\ r <= m /\ l + r = s + m /\ c + r = p + m

\* After c tokens the reader is behind the last chunk.
Trailing(w, bad, c, l, n) ==
  \E p : p \in Nat /\ Closes(w, p, l, n) /\ c >= p /\ c <= p + 2 /\ (c = p + 2 => bad = c)

\* After c tokens of w the reader is where its own state says.
InChunks(w, B, bad, c) ==
  /\ reply.framing = "chunked" /\ Chunks(w, B, reply.length)
  /\ \/ step = "size" /\ <<c + 1, Len(body)>> \in B
     \/ step = "data" /\ rem > 0 /\ Within(w, B, c, rem, Len(body))
     \/ step = "delimiter" /\ Within(w, B, c, 0, Len(body))
     \/ step = "trailer" /\ Trailing(w, bad, c, Len(body), reply.length)

InPlain(w, c) ==
  /\ reply.framing \in {"length", "close"} /\ step = "data"
  /\ Len(w) = reply.length /\ \A i \in 1..reply.length : w[i] = Body!Byte(i)
  /\ c = Len(body) /\ (reply.framing = "length" => rem + c = reply.length)

Place(w, B, bad, k, c) ==
  /\ Cuts(w, bad, k, reply) /\ Left(unread, w, bad, k, c)
  /\ InChunks(w, B, bad, c) \/ InPlain(w, c)

BodyType ==
  /\ reply.length \in Nat /\ reply.limit \in Nat /\ rem \in Nat /\ body \in Seq(Nat)
  /\ outcome \in {"none", "ok", "error"}

\* While the body is read, the reader's state agrees with its place in what
\* the server sends.
BodyInv ==
  /\ BodyType /\ Body!BodyExplained
  /\ outcome = "none" => \E w, B, bad, k, c : Place(w, B, bad, k, c)

\* The tokens after the next m.
LEMMA LeftRest ==
  ASSUME NEW u, NEW w, NEW bad, NEW k, NEW c, Left(u, w, bad, k, c), NEW m \in Nat, m <= Len(u),
         NEW t, t = SubSeq(u, m + 1, Len(u))
  PROVE  Left(t, w, bad, k, c + m)
<1>1. u \in Seq(Token) /\ c \in Nat /\ c + Len(u) = k /\ \A i \in 1..Len(u) : u[i] = Shown(w, bad, c + i)
  BY Zenon DEF Left
<1>2. PICK a \in Nat : a = Len(u)
  BY <1>1
<1>3. t \in Seq(Token) /\ Len(t) = a - m /\ \A i \in 1..(a - m) : t[i] = u[m + i]
  <2>1. m \in 0..Len(u)
    BY <1>2
  <2>2. /\ t \in Seq(Token) /\ Len(t) = Len(u) - m
        /\ \A i \in 1..(Len(u) - m) : t[i] = u[m + i]
    BY <1>1, <2>1, RestIn, ZenonT(60)
  <2> QED
    BY <1>2, <2>2, Zenon
<1>4. (c + m) + Len(t) = k /\ c + m \in Nat
  <2>1. PICK b : b = Len(t)
    BY Zenon
  <2>2. c \in Nat /\ c + a = k /\ b = a - m
    BY <1>1, <1>2, <1>3, <2>1, Zenon
  <2>3. (c + m) + b = k /\ c + m \in Nat
    BY <2>2
  <2> QED
    BY <2>1, <2>3, Zenon
<1>5. ASSUME NEW i \in 1..Len(t) PROVE t[i] = Shown(w, bad, (c + m) + i)
  <2>1. i \in 1..(a - m)
    BY <1>3, <1>5, Zenon
  <2>2. m <= a /\ c \in Nat
    BY <1>1, <1>2, Zenon
  <2>3. m + i \in 1..a /\ c + (m + i) = (c + m) + i
    BY <2>1, <2>2
  <2> QED
    BY <1>1, <1>2, <1>3, <2>1, <2>3, Zenon
<1> QED
  BY <1>3, <1>4, <1>5, Zenon DEF Left

\* A chunk that more follows is within what the server sends.
LEMMA WithinBounds ==
  ASSUME NEW w, NEW B, NEW n \in Nat, Chunks(w, B, n), NEW c \in Nat, NEW r \in Nat, NEW l \in Nat,
         Within(w, B, c, r, l)
  PROVE  l <= n /\ c + r + 3 <= Len(w)
<1>1. PICK p, s, m : /\ <<p, s>> \in B /\ Goes(w, B, p, s, m)
                     /\ r <= m /\ l + r = s + m /\ c + r = p + m
  BY Zenon DEF Within
<1>2. p \in Nat /\ s \in Nat /\ m \in Nat /\ <<p + m + 3, s + m>> \in B
  BY <1>1, Zenon DEF Chunks, Goes
<1>3. p + m + 3 <= Len(w) /\ s + m <= n
  BY <1>2, Zenon DEF Chunks
<1>4. Len(w) \in Nat
  <2>1. w \in Seq(Token)
    BY Zenon DEF Chunks
  <2> QED
    BY <2>1
<1>5. l + r = s + m /\ c + r = p + m
  BY <1>1, Zenon
<1> QED
  BY <1>2, <1>3, <1>4, <1>5

\* What a reader has that finds nothing more to read.
LEMMA Bounds ==
  ASSUME BodyType, NEW w, NEW B, NEW bad, NEW k, NEW c, Place(w, B, bad, k, c)
  PROVE  /\ Len(body) <= reply.length
         /\ unread = <<>> => /\ reply.early \/ Len(body) = reply.length
                             /\ reply.framing = "chunked" => reply.early \/ reply.flaw
                             /\ reply.framing = "length" /\ rem > 0 => reply.early
<1>1. reply.length \in Nat /\ rem \in Nat /\ Len(body) \in Nat
  BY DEF BodyType
<1>2. PICK n \in Nat, l \in Nat, a \in Nat : n = reply.length /\ l = Len(body) /\ a = Len(w)
  <2>1. w \in Seq(Token)
    BY Zenon DEF Place, Cuts
  <2>2. Len(w) \in Nat
    BY <2>1
  <2> QED
    BY <1>1, <2>2, Zenon
<1>3. k \in Nat /\ k <= a /\ c \in Nat /\ c + Len(unread) = k /\ Len(unread) \in Nat
  <2>1. unread \in Seq(Token) /\ k \in Nat /\ k <= Len(w) /\ c \in Nat /\ c + Len(unread) = k
    BY Zenon DEF Place, Cuts, Left
  <2>2. Len(unread) \in Nat
    BY <2>1
  <2> QED
    BY <1>2, <2>1, <2>2, Zenon
<1>4. c <= k /\ (unread = <<>> => c = k)
  BY <1>3
<1>5. k < a => reply.early
  BY <1>2 DEF Place, Cuts
<1>6. bad # 0 => reply.flaw
  BY DEF Place, Cuts
<1>7. CASE InChunks(w, B, bad, c)
  <2>1. Chunks(w, B, n) /\ reply.framing = "chunked"
    BY <1>2, <1>7, Zenon DEF InChunks
  <2>2. CASE step = "size" /\ <<c + 1, Len(body)>> \in B
    <3>1. c + 1 <= a /\ l <= n
      BY <1>2, <2>1, <2>2, Zenon DEF Chunks
    <3>2. unread = <<>> => k < a
      BY <1>3, <1>4, <3>1
    <3> QED
      BY <1>2, <1>5, <2>1, <3>1, <3>2
  <2>3. ASSUME NEW r \in Nat, Within(w, B, c, r, Len(body))
        PROVE  l <= n /\ (unread = <<>> => k < a)
    <3>1. l <= n /\ c + r + 3 <= a
      BY <1>2, <1>3, <2>1, <2>3, WithinBounds, Zenon
    <3>2. unread = <<>> => k < a
      BY <1>3, <1>4, <3>1
    <3> QED
      BY <3>1, <3>2, Zenon
  <2>4. CASE step = "data" /\ Within(w, B, c, rem, Len(body))
    BY <1>1, <1>2, <1>5, <2>1, <2>3, <2>4
  <2>5. CASE step = "delimiter" /\ Within(w, B, c, 0, Len(body))
    BY <1>1, <1>2, <1>5, <2>1, <2>3, <2>5
  <2>6. CASE step = "trailer" /\ Trailing(w, bad, c, Len(body), reply.length)
    <3>1. PICK p \in Nat : /\ Closes(w, p, Len(body), reply.length) /\ c >= p /\ c <= p + 2
                           /\ c = p + 2 => bad = c
      BY <2>6, Zenon DEF Trailing
    <3>2. a = p + 2 /\ l = n
      BY <1>2, <3>1, Zenon DEF Closes
    <3>3. l <= n
      BY <3>2
    <3>4. c = k => k < a \/ (bad = c /\ c # 0)
      BY <1>3, <3>1, <3>2
    <3> QED
      BY <1>2, <1>4, <1>5, <1>6, <2>1, <3>2, <3>3, <3>4
  <2> QED
    BY <1>7, <2>2, <2>4, <2>5, <2>6, Zenon DEF InChunks
<1>8. CASE InPlain(w, c)
  <2>1. a = n /\ c = l /\ reply.framing # "chunked" /\ (reply.framing = "length" => rem + c = n)
    BY <1>2, <1>8, Zenon DEF InPlain
  <2>2. l <= n /\ (c = k => k < a \/ l = n)
    BY <1>3, <1>4, <2>1
  <2>3. c = k /\ reply.framing = "length" /\ rem > 0 => k < a
    BY <1>1, <1>3, <1>4, <2>1
  <2> QED
    BY <1>2, <1>4, <1>5, <2>1, <2>2, <2>3
<1> QED
  BY <1>7, <1>8, Zenon DEF Place
-----------------------------------------------------------------------------
(* HTTPBody: its steps *)

\* io.EOF from the body reader.
LEMMA AtEOFKeeps ==
  ASSUME BodyInv, Body!AtEOF, Len(body) <= reply.length,
         Len(body) = reply.length \/ (reply.early /\ reply.eof)
  PROVE  BodyInv'
<1>1. /\ reply' = reply /\ unread' = unread /\ step' = step /\ rem' = rem /\ body' = body
      /\ outcome' = IF reply.gzip /\ (Len(body) < reply.length \/ reply.length = 0)
                      THEN "error" ELSE "ok"
  BY Zenon DEF Body!AtEOF
<1>2. BodyType' /\ outcome' \in {"ok", "error"}
  BY <1>1, Zenon DEF BodyInv, BodyType
<1>3. PICK n \in Nat, l \in Nat : n = reply.length /\ l = Len(body)
  BY DEF BodyInv, BodyType
<1>4. /\ \A i \in DOMAIN body' : body'[i] = i
  BY <1>1, Zenon DEF BodyInv, Body!BodyExplained
<1>5. outcome' = "ok" => l = n \/ (reply.early /\ reply.eof /\ ~reply.gzip)
  BY <1>1, <1>3
<1>6. outcome' = "error" => reply.early \/ (reply.gzip /\ n = 0)
  BY <1>1, <1>3
<1>7. Body!BodyExplained'
  BY <1>1, <1>3, <1>4, <1>5, <1>6, Zenon DEF Body!BodyExplained
<1> QED
  BY <1>2, <1>7 DEF BodyInv

\* An error of the body reader.
LEMMA BodyFailKeeps ==
  ASSUME BodyInv, Body!Fail,
         \/ reply.early \/ reply.flaw
         \/ reply.framing = "close" /\ ~reply.eof
  PROVE  BodyInv'
<1>1. /\ reply' = reply /\ unread' = unread /\ step' = step /\ rem' = rem /\ body' = body
      /\ outcome' = "error"
  BY Zenon DEF Body!Fail
<1>2. BodyType'
  BY <1>1, Zenon DEF BodyInv, BodyType
<1>3. \A i \in DOMAIN body' : body'[i] = i
  BY <1>1, Zenon DEF BodyInv, Body!BodyExplained
<1>4. Body!BodyExplained'
  BY <1>1, <1>3, Zenon DEF Body!BodyExplained
<1> QED
  BY <1>1, <1>2, <1>4 DEF BodyInv

\* Nothing more arrives.
LEMMA ExhaustedKeeps ==
  ASSUME BodyInv, outcome = "none", Body!Exhausted, reply.framing = "length" => rem > 0
  PROVE  BodyInv'
<1>1. PICK w, B, bad, k, c : Place(w, B, bad, k, c)
  BY Zenon DEF BodyInv
<1>2. unread = <<>>
  BY Zenon DEF Body!Exhausted
<1>3. /\ Len(body) <= reply.length
      /\ reply.early \/ Len(body) = reply.length
      /\ reply.framing = "chunked" => reply.early \/ reply.flaw
      /\ reply.framing = "length" => reply.early
  BY <1>1, <1>2, Bounds DEF BodyInv
<1>4. reply.framing \in {"chunked", "length", "close"}
  BY <1>1, Zenon DEF Place, InChunks, InPlain
<1>5. CASE reply.eof
  <2>1. Body!AtEOF
    BY <1>5, Zenon DEF Body!Exhausted
  <2> QED
    BY <1>3, <1>5, <2>1, AtEOFKeeps, Zenon
<1>6. CASE ~reply.eof
  <2>1. Body!Fail
    BY <1>6, Zenon DEF Body!Exhausted
  <2>2. reply.early \/ reply.flaw \/ (reply.framing = "close" /\ ~reply.eof)
    BY <1>3, <1>4, <1>6, Zenon
  <2> QED
    BY <2>1, <2>2, BodyFailKeeps, Zenon
<1> QED
  BY <1>5, <1>6, Zenon

\* MaxBodySize.
LEMMA ReadLimitKeeps ==
  ASSUME BodyInv, Body!ReadLimit
  PROVE  BodyInv'
<1>1. /\ reply' = reply /\ unread' = unread /\ step' = step /\ rem' = rem /\ body' = body
      /\ outcome' = "ok" /\ reply.limit > 0 /\ Len(body) = reply.limit
  BY Zenon DEF Body!ReadLimit, Body!LimitReached
<1>2. BodyType'
  BY <1>1, Zenon DEF BodyInv, BodyType
<1>3. \A i \in DOMAIN body' : body'[i] = i
  BY <1>1, Zenon DEF BodyInv, Body!BodyExplained
<1>4. Body!BodyExplained'
  BY <1>1, <1>3, Zenon DEF Body!BodyExplained, Body!LimitReached
<1> QED
  BY <1>1, <1>2, <1>4 DEF BodyInv

\* The next token.
LEMMA NextToken ==
  ASSUME NEW u, NEW w, NEW bad, NEW k, NEW c, Left(u, w, bad, k, c), u # <<>>
  PROVE  /\ Head(u) = Shown(w, bad, c + 1)
         /\ Left(Tail(u), w, bad, k, c + 1)
<1>1. u \in Seq(Token) /\ \A i \in 1..Len(u) : u[i] = Shown(w, bad, c + i)
  BY Zenon DEF Left
<1>2. Head(u) = u[1] /\ 1 \in 1..Len(u) /\ 1 <= Len(u) /\ Tail(u) = SubSeq(u, 1 + 1, Len(u))
  <2> DEFINE T == Token
  <2>1. u \in Seq(T)
    BY <1>1
  <2> HIDE DEF T
  <2>2. Len(u) \in Nat /\ Len(u) # 0
    BY <2>1
  <2>3. Head(u) = u[1] /\ Tail(u) = SubSeq(u, 2, Len(u))
    BY <2>1, <2>2
  <2> QED
    BY <2>2, <2>3
<1>3. 1 \in Nat
  OBVIOUS
<1>4. Left(Tail(u), w, bad, k, c + 1)
  BY <1>2, <1>3, LeftRest, Zenon
<1> QED
  BY <1>1, <1>2, <1>4, Zenon

\* A token is as the server has it, or the corrupted one.
Seen(x, w, bad, i) == x = w[i] \/ (i = bad /\ x.t = "junk")

\* A token that arrives is the one sent, or the corrupted one.
LEMMA ShownSeen ==
  ASSUME NEW w, NEW bad, NEW i, NEW x, x = Shown(w, bad, i)
  PROVE  Seen(x, w, bad, i)
<1>1. Body!Mark("junk").t = "junk"
  BY Tokens, Zenon
<1> QED
  BY <1>1, Zenon DEF Shown, Seen

\* The size of a chunk.
LEMMA ReadSizeKeeps ==
  ASSUME BodyInv, Body!ReadSize
  PROVE  BodyInv'
<1>1. outcome = "none" /\ step = "size"
  BY Zenon DEF Body!ReadSize
<1>2. PICK w, B, bad, k, c : Place(w, B, bad, k, c)
  BY <1>1, Zenon DEF BodyInv
<1>3. /\ reply.framing = "chunked" /\ Chunks(w, B, reply.length) /\ <<c + 1, Len(body)>> \in B
      /\ Cuts(w, bad, k, reply) /\ Left(unread, w, bad, k, c)
  BY <1>1, <1>2, Zenon DEF Place, InChunks, InPlain
<1>4. PICK p, l : p = c + 1 /\ l = Len(body)
  BY Zenon
<1>5. /\ p \in Nat /\ l \in Nat /\ p >= 1
      /\ Closes(w, p, l, reply.length) \/ \E m : Goes(w, B, p, l, m)
  BY <1>3, <1>4, Zenon DEF Chunks
<1>6. CASE Body!Exhausted
  <2>1. reply.framing = "length" => rem > 0
    BY <1>3
  <2> QED
    BY <1>1, <1>6, <2>1, ExhaustedKeeps, Zenon
<1>7. 0 \in Nat /\ c \in Nat
  BY <1>3, Zenon DEF Left
<1>8. CASE unread # <<>> /\ Head(unread).t = "junk" /\ Body!Fail
  <2>1. Head(unread) = Shown(w, bad, p)
    BY <1>3, <1>4, <1>8, NextToken, Zenon
  <2>2. w[p].t = "size"
    <3>1. \E m \in Nat : w[p] = Body!Size(m)
      BY <1>5, <1>7, Zenon DEF Closes, Goes, Carries
    <3> QED
      BY <3>1, Tokens, Zenon
  <2>3. p = bad
    <3>1. PICK x : x = Shown(w, bad, p) /\ x.t = "junk"
      BY <1>8, <2>1, Zenon
    <3>2. Seen(x, w, bad, p)
      BY <3>1, ShownSeen, Zenon
    <3> QED
      BY <2>2, <3>1, <3>2 DEF Seen
  <2>4. bad # 0
    BY <1>5, <2>3
  <2>5. reply.flaw
    BY <1>3, <2>4, Zenon DEF Cuts
  <2> QED
    BY <1>8, <2>5, BodyFailKeeps, Zenon
<1>9. CASE /\ unread # <<>> /\ Head(unread).t = "size"
           /\ unread' = Tail(unread) /\ rem' = Head(unread).n
           /\ step' = (IF Head(unread).n = 0 THEN "trailer" ELSE "data")
           /\ UNCHANGED <<reply, body, outcome>>
  <2>1. Head(unread) = Shown(w, bad, p) /\ Left(unread', w, bad, k, p)
    BY <1>3, <1>4, <1>9, NextToken, Zenon
  <2>2. Head(unread) = w[p]
    <3>1. PICK x : x = Head(unread) /\ x = Shown(w, bad, p) /\ x.t = "size"
      BY <1>9, <2>1, Zenon
    <3>2. Seen(x, w, bad, p)
      BY <3>1, ShownSeen, Zenon
    <3> QED
      BY <3>1, <3>2 DEF Seen
  <2>3. reply' = reply /\ body' = body /\ outcome' = outcome
    BY <1>9, Zenon
  <2>4. CASE Closes(w, p, l, reply.length)
    <3>1. rem' = 0 /\ step' = "trailer"
      <4>1. w[p] = Body!Size(0)
        BY <2>4, Zenon DEF Closes
      <4>2. Body!Size(0).n = 0
        BY <1>7, Tokens, Zenon
      <4>3. Head(unread).n = 0
        BY <2>2, <4>1, <4>2, Zenon
      <4> QED
        BY <1>9, <4>3, Zenon
    <3>2. p >= p /\ p <= p + 2 /\ p # p + 2
      BY <1>5
    <3>3. Trailing(w, bad, p, l, reply.length)
      BY <1>5, <2>4, <3>2, Zenon DEF Trailing
    <3>4. InChunks(w, B, bad, p)'
      BY <1>3, <1>4, <2>3, <3>1, <3>3, Zenon DEF InChunks
    <3>5. Place(w, B, bad, k, p)'
      BY <1>3, <2>1, <2>3, <3>4, Zenon DEF Place
    <3>6. BodyType'
      BY <1>7, <2>3, <3>1, Zenon DEF BodyInv, BodyType
    <3>7. Body!BodyExplained'
      BY <2>3 DEF BodyInv, Body!BodyExplained, Body!LimitReached
    <3> QED
      BY <3>5, <3>6, <3>7, Zenon DEF BodyInv
  <2>5. CASE \E m : Goes(w, B, p, l, m)
    <3>1. PICK m : Goes(w, B, p, l, m)
      BY <2>5, Zenon
    <3>2. m \in Nat \ {0} /\ w[p] = Body!Size(m)
      BY <3>1, Zenon DEF Goes, Carries
    <3>3. m \in Nat /\ m # 0 /\ m > 0 /\ m <= m
      BY <3>2
    <3>4. rem' = m /\ step' = "data"
      <4>1. Body!Size(m).n = m
        BY <3>3, Tokens, Zenon
      <4>2. Head(unread).n = m
        BY <2>2, <3>2, <4>1, Zenon
      <4> QED
        BY <1>9, <3>3, <4>2, Zenon
    <3>5. Within(w, B, p, m, l)
      BY <1>3, <1>4, <3>1, <3>3, Zenon DEF Within
    <3>6. InChunks(w, B, bad, p)'
      BY <1>3, <1>4, <2>3, <3>3, <3>4, <3>5, Zenon DEF InChunks
    <3>7. Place(w, B, bad, k, p)'
      BY <1>3, <2>1, <2>3, <3>6, Zenon DEF Place
    <3>8. BodyType'
      BY <2>3, <3>3, <3>4, Zenon DEF BodyInv, BodyType
    <3>9. Body!BodyExplained'
      BY <2>3 DEF BodyInv, Body!BodyExplained, Body!LimitReached
    <3> QED
      BY <3>7, <3>8, <3>9, Zenon DEF BodyInv
  <2> QED
    BY <1>5, <2>4, <2>5, Zenon
<1> QED
  BY <1>6, <1>8, <1>9, Zenon DEF Body!ReadSize

\* The lines behind the last chunk.
LEMMA ReadTrailerKeeps ==
  ASSUME BodyInv, Body!ReadTrailer
  PROVE  BodyInv'
<1>1. outcome = "none" /\ step = "trailer"
  BY Zenon DEF Body!ReadTrailer
<1>2. PICK w, B, bad, k, c : Place(w, B, bad, k, c)
  BY <1>1, Zenon DEF BodyInv
<1>3. /\ reply.framing = "chunked" /\ Chunks(w, B, reply.length)
      /\ Trailing(w, bad, c, Len(body), reply.length)
      /\ Cuts(w, bad, k, reply) /\ Left(unread, w, bad, k, c)
  BY <1>1, <1>2, Zenon DEF Place, InChunks, InPlain
<1>4. PICK p : /\ p \in Nat /\ Closes(w, p, Len(body), reply.length) /\ c >= p /\ c <= p + 2
               /\ (c = p + 2 => bad = c)
  BY <1>3, Zenon DEF Trailing
<1>5. w[p + 2] = Body!Mark("blank") /\ Len(w) = p + 2 /\ Len(body) = reply.length
  BY <1>4, Zenon DEF Closes
<1>6. CASE Body!Exhausted
  <2>1. reply.framing = "length" => rem > 0
    BY <1>3
  <2> QED
    BY <1>1, <1>6, <2>1, ExhaustedKeeps, Zenon
<1>7. CASE Body!AtEOF
  <2>1. Len(body) <= reply.length
    BY <1>5 DEF BodyInv, BodyType
  <2> QED
    BY <1>5, <1>7, <2>1, AtEOFKeeps, Zenon
<1>8. CASE /\ unread # <<>> /\ Head(unread).t # "blank"
           /\ unread' = Tail(unread) /\ UNCHANGED <<reply, step, rem, body, outcome>>
  <2>1. Head(unread) = Shown(w, bad, c + 1) /\ Left(unread', w, bad, k, c + 1)
    BY <1>3, <1>8, NextToken, Zenon
  <2>2. c + 1 <= p + 2 /\ c + 1 >= p /\ c \in Nat
    <3>1. k \in Nat /\ k <= p + 2 /\ c \in Nat
      BY <1>3, <1>5, Zenon DEF Cuts, Left
    <3>2. unread' \in Seq(Token) /\ (c + 1) + Len(unread') = k
      BY <2>1, Zenon DEF Left
    <3>3. PICK e \in Nat : e = Len(unread')
      BY <3>2
    <3>4. (c + 1) + e = k /\ c >= p
      BY <1>4, <3>2, <3>3, Zenon
    <3> QED
      BY <1>4, <3>1, <3>4
  <2>3. ASSUME c + 1 = p + 2 PROVE bad = c + 1
    <3>1. PICK x : x = Shown(w, bad, p + 2) /\ x.t # "blank"
      BY <1>8, <2>1, <2>3, Zenon
    <3>2. Seen(x, w, bad, p + 2)
      BY <3>1, ShownSeen, Zenon
    <3>3. w[p + 2].t = "blank"
      BY <1>5, Tokens, Zenon
    <3> QED
      BY <2>3, <3>1, <3>2, <3>3 DEF Seen
  <2>4. Trailing(w, bad, c + 1, Len(body), reply.length)
    BY <1>4, <2>2, <2>3, Zenon DEF Trailing
  <2>5. reply' = reply /\ body' = body /\ outcome' = outcome /\ step' = step /\ rem' = rem
    BY <1>8, Zenon
  <2>6. InChunks(w, B, bad, c + 1)'
    <3>1. PICK e : e = c + 1
      BY Zenon
    <3>2. InChunks(w, B, bad, e)'
      BY <1>1, <1>3, <2>4, <2>5, <3>1, Zenon DEF InChunks
    <3> QED
      BY <3>1, <3>2, Zenon
  <2>7. Place(w, B, bad, k, c + 1)'
    BY <1>3, <2>1, <2>5, <2>6, Zenon DEF Place
  <2>8. BodyType'
    BY <2>5, Zenon DEF BodyInv, BodyType
  <2>9. Body!BodyExplained'
    BY <2>5 DEF BodyInv, Body!BodyExplained, Body!LimitReached
  <2> QED
    BY <2>7, <2>8, <2>9, Zenon DEF BodyInv
<1> QED
  BY <1>6, <1>7, <1>8, Zenon DEF Body!ReadTrailer

\* The end of a chunk.
LEMMA ReadDelimiterKeeps ==
  ASSUME BodyInv, Body!ReadDelimiter
  PROVE  BodyInv'
<1>1. outcome = "none" /\ step = "delimiter"
  BY Zenon DEF Body!ReadDelimiter
<1>2. PICK w, B, bad, k, c : Place(w, B, bad, k, c)
  BY <1>1, Zenon DEF BodyInv
<1>3. /\ reply.framing = "chunked" /\ Chunks(w, B, reply.length)
      /\ Within(w, B, c, 0, Len(body))
      /\ Cuts(w, bad, k, reply) /\ Left(unread, w, bad, k, c)
  BY <1>1, <1>2, Zenon DEF Place, InChunks, InPlain
<1>4. CASE Body!Exhausted
  <2>1. reply.framing = "length" => rem > 0
    BY <1>3
  <2> QED
    BY <1>1, <1>4, <2>1, ExhaustedKeeps, Zenon
<1>5. PICK l \in Nat, n \in Nat, e \in Nat : l = Len(body) /\ n = reply.length /\ e = Len(unread)
  <2>1. Len(body) \in Nat /\ reply.length \in Nat
    BY DEF BodyInv, BodyType
  <2>2. unread \in Seq(Token)
    BY <1>3, Zenon DEF Left
  <2>3. Len(unread) \in Nat
    BY <2>2
  <2> QED
    BY <2>1, <2>3, Zenon
<1>6. /\ c \in Nat /\ k \in Nat /\ bad \in Nat /\ c + e = k
      /\ (bad # 0 => reply.flaw) /\ (k < Len(w) => reply.early)
      /\ \A i \in 1..e : unread[i] = Shown(w, bad, c + i)
  BY <1>3, <1>5, Zenon DEF Cuts, Left
<1>7. c + 0 + 3 <= Len(w) /\ Len(w) \in Nat
  <2>1. 0 \in Nat
    OBVIOUS
  <2>2. c + 0 + 3 <= Len(w)
    BY <1>3, <1>5, <1>6, <2>1, WithinBounds, Zenon
  <2>3. w \in Seq(Token)
    BY <1>3, Zenon DEF Cuts
  <2>4. Len(w) \in Nat
    BY <2>3
  <2> QED
    BY <2>2, <2>4, Zenon
<1>8. PICK p, s, m : /\ <<p, s>> \in B /\ Goes(w, B, p, s, m)
                     /\ 0 <= m /\ l + 0 = s + m /\ c + 0 = p + m
  BY <1>3, <1>5, Zenon DEF Within
<1>9. /\ p \in Nat /\ s \in Nat /\ m \in Nat /\ <<p + m + 3, s + m>> \in B
      /\ w[p + m + 1] = Body!Mark("cr") /\ w[p + m + 2] = Body!Mark("lf")
  BY <1>3, <1>8, Zenon DEF Chunks, Goes, Carries
<1>10. /\ p + m + 3 = (c + 2) + 1 /\ s + m = l /\ p + m + 1 = c + 1 /\ p + m + 2 = c + 2
  <2>1. l + 0 = s + m /\ c + 0 = p + m
    BY <1>8, Zenon
  <2> QED
    BY <1>6, <1>9, <2>1
<1>11. w[c + 1].t = "cr" /\ w[c + 2].t = "lf" /\ <<(c + 2) + 1, l>> \in B
  <2>1. Body!Mark("cr").t = "cr" /\ Body!Mark("lf").t = "lf"
    BY Tokens, Zenon
  <2> QED
    BY <1>9, <1>10, <2>1
<1>12. CASE Len(unread) = 1 /\ Body!Fail
  <2>1. c + e = k /\ e = 1
    BY <1>5, <1>6, <1>12, Zenon
  <2>2. k < Len(w)
    BY <1>6, <1>7, <2>1
  <2> QED
    BY <1>6, <1>12, <2>2, BodyFailKeeps, Zenon
<1>13. CASE Len(unread) > 1 /\ <<unread[1].t, unread[2].t>> # <<"cr", "lf">> /\ Body!Fail
  <2>1. PICK x, y : x = unread[1] /\ y = unread[2]
    BY Zenon
  <2>2. 1 \in 1..e /\ 2 \in 1..e
    BY <1>5, <1>13
  <2>3. Seen(x, w, bad, c + 1) /\ Seen(y, w, bad, c + 2)
    BY <1>6, <2>1, <2>2, ShownSeen, Zenon
  <2>4. ~(x.t = "cr" /\ y.t = "lf")
    BY <1>13, <2>1
  <2>5. bad = c + 1 \/ bad = c + 2
    BY <1>11, <2>3, <2>4, Zenon DEF Seen
  <2>6. c + 1 # 0 /\ c + 2 # 0
    BY <1>6
  <2>7. reply.flaw
    BY <1>6, <2>5, <2>6, Zenon
  <2> QED
    BY <1>13, <2>7, BodyFailKeeps, Zenon
<1>14. CASE /\ Len(unread) > 1 /\ unread' = SubSeq(unread, 3, Len(unread)) /\ step' = "size"
            /\ UNCHANGED <<reply, rem, body, outcome>>
  <2>1. 2 \in Nat /\ 2 <= Len(unread) /\ 2 + 1 = 3
    BY <1>5, <1>14
  <2>2. Left(unread', w, bad, k, c + 2)
    BY <1>3, <1>14, <2>1, LeftRest, Zenon
  <2>3. reply' = reply /\ body' = body /\ outcome' = outcome /\ step' = "size" /\ rem' = rem
    BY <1>14, Zenon
  <2>4. PICK d : d = c + 2
    BY Zenon
  <2>5. <<d + 1, Len(body)>> \in B /\ Left(unread', w, bad, k, d)
    BY <1>5, <1>11, <2>2, <2>4, Zenon
  <2>6. InChunks(w, B, bad, d)'
    BY <1>3, <2>3, <2>5, Zenon DEF InChunks
  <2>7. Place(w, B, bad, k, d)'
    BY <1>3, <2>3, <2>5, <2>6, Zenon DEF Place
  <2>8. BodyType'
    BY <2>3, Zenon DEF BodyInv, BodyType
  <2>9. Body!BodyExplained'
    BY <2>3 DEF BodyInv, Body!BodyExplained, Body!LimitReached
  <2> QED
    BY <2>7, <2>8, <2>9, Zenon DEF BodyInv
<1> QED
  BY <1>4, <1>12, <1>13, <1>14, Zenon DEF Body!ReadDelimiter

\* The content from its first byte on, and the q bytes behind the first l.
Counts(b) == \A i \in DOMAIN b : b[i] = i
Runs(u, l, q) == \A i \in 1..q : u[i].n = l + i

Follows(u, s, t) ==
  /\ u \in Seq(Nat) /\ Len(u) = Len(s) + Len(t)
  /\ \A i \in 1..Len(s) : u[i] = s[i]
  /\ \A i \in 1..Len(t) : u[Len(s) + i] = t[i]

\* Concatenation of bytes.
LEMMA ConcatFollows ==
  ASSUME NEW s \in Seq(Nat), NEW t \in Seq(Nat), NEW u, u = s \o t
  PROVE  Follows(u, s, t)
<1>1. u \in Seq(Nat) /\ Len(u) = Len(s) + Len(t)
  OBVIOUS
<1>2. \A i \in 1..Len(s) : u[i] = s[i]
  OBVIOUS
<1>3. \A i \in 1..Len(t) : u[Len(s) + i] = t[i]
  OBVIOUS
<1> QED
  BY <1>1, <1>2, <1>3, Zenon DEF Follows

\* v is b and q more bytes of the content.
Grown(v, b, q) == v \in Seq(Nat) /\ Len(v) = Len(b) + q /\ Counts(v)

\* The bytes of a read follow those collected.
LEMMA BodyGrows ==
  ASSUME NEW b \in Seq(Nat), Counts(b), NEW q \in Nat, NEW u, Runs(u, Len(b), q),
         NEW f, f = [i \in 1..q |-> u[i].n], NEW v, v = b \o f
  PROVE  Grown(v, b, q)
<1>1. PICK l \in Nat : l = Len(b)
  OBVIOUS
<1>2. f = [i \in 1..q |-> u[i].n]
  BY Zenon
<1>3. \A i \in 1..q : f[i] = l + i /\ l + i \in Nat
  <2> SUFFICES ASSUME NEW i \in 1..q PROVE f[i] = l + i /\ l + i \in Nat
    BY Zenon
  <2>1. f[i] = u[i].n /\ u[i].n = l + i
    BY <1>1, <1>2, Zenon DEF Runs
  <2>2. l + i \in Nat
    OBVIOUS
  <2> QED
    BY <2>1, <2>2, Zenon
<1>4. f \in [1..q -> Nat]
  BY <1>2, <1>3, Zenon
<1>5. f \in Seq(Nat) /\ Len(f) = q
  BY <1>4, FcnSeq, Zenon
<1>6. v = b \o f
  BY <1>2, Zenon
<1>7. /\ v \in Seq(Nat) /\ Len(v) = Len(b) + Len(f)
      /\ \A i \in 1..Len(b) : v[i] = b[i]
      /\ \A i \in 1..Len(f) : v[Len(b) + i] = f[i]
  <2>1. Follows(v, b, f)
    BY <1>5, <1>6, ConcatFollows, Zenon
  <2> QED
    BY <2>1, Zenon DEF Follows
<1>8. DOMAIN v = 1..(l + q) /\ DOMAIN b = 1..l
  <2>1. v \in Seq(Nat) /\ Len(v) = l + q
    BY <1>1, <1>5, <1>7, Zenon
  <2> QED
    BY <1>1, <2>1
<1>9. ASSUME NEW i \in 1..(l + q) PROVE v[i] = i
  <2>1. CASE i \in 1..l
    <3>1. v[i] = b[i]
      BY <1>1, <1>7, <2>1, Zenon
    <3>2. b[i] = i
      BY <1>8, <2>1, Zenon DEF Counts
    <3> QED
      BY <3>1, <3>2, Zenon
  <2>2. CASE i \notin 1..l
    <3>1. PICK j : j = i - l
      BY Zenon
    <3>2. j \in 1..q /\ l + j = i
      BY <1>9, <2>2, <3>1
    <3>3. v[l + j] = f[j]
      BY <1>1, <1>5, <1>7, <3>2, Zenon
    <3>4. f[j] = l + j
      BY <1>3, <3>2, Zenon
    <3> QED
      BY <3>2, <3>3, <3>4, Zenon
  <2> QED
    BY <2>1, <2>2, Zenon
<1> QED
  BY <1>1, <1>5, <1>7, <1>8, <1>9, Zenon DEF Counts, Grown

\* A byte arrives as it was sent.
LEMMA ByteShown ==
  ASSUME NEW w, NEW bad, NEW k, NEW r, Cuts(w, bad, k, r), NEW i \in Nat, i # 0, NEW j \in Nat,
         w[i] = Body!Byte(j)
  PROVE  Shown(w, bad, i).n = j
<1>1. w[i].t = "byte" /\ w[i].n = j
  BY Tokens, ZenonT(60)
<1>2. i # bad
  BY <1>1, Zenon DEF Cuts
<1> QED
  BY <1>1, <1>2, Zenon DEF Shown

Taken(w, B, c, r, l, q) ==
  /\ Within(w, B, c + q, r - q, l + q)
  /\ \A i \in 1..q : w[c + i] = Body!Byte(l + i)

\* A read takes q bytes of a chunk that lacks r.
LEMMA WithinReads ==
  ASSUME NEW w, NEW B, NEW n \in Nat, Chunks(w, B, n), NEW c \in Nat, NEW r \in Nat, NEW l \in Nat,
         Within(w, B, c, r, l), NEW q \in Nat, q <= r
  PROVE  Taken(w, B, c, r, l, q)
<1>1. PICK p, s, m : /\ <<p, s>> \in B /\ Goes(w, B, p, s, m)
                     /\ r <= m /\ l + r = s + m /\ c + r = p + m
  BY Zenon DEF Within
<1>2. p \in Nat /\ s \in Nat /\ m \in Nat /\ \A i \in 1..m : w[p + i] = Body!Byte(s + i)
  BY <1>1, Zenon DEF Chunks, Goes, Carries
<1>3. r <= m /\ l + r = s + m /\ c + r = p + m /\ p \in Nat /\ s \in Nat /\ m \in Nat
  BY <1>1, <1>2, Zenon
<1>4. r - q <= m /\ (l + q) + (r - q) = s + m /\ (c + q) + (r - q) = p + m
  BY <1>3
<1>5. Within(w, B, c + q, r - q, l + q)
  BY <1>1, <1>4, ZenonT(60) DEF Within
<1>6. ASSUME NEW i \in 1..q PROVE w[c + i] = Body!Byte(l + i)
  <2>1. PICK j : j = m - r + i
    BY Zenon
  <2>2. j \in 1..m /\ p + j = c + i /\ s + j = l + i
    BY <1>3, <2>1
  <2>3. w[p + j] = Body!Byte(s + j)
    BY <1>2, <2>2, Zenon
  <2> QED
    BY <2>2, <2>3, Zenon
<1> QED
  BY <1>5, <1>6, Zenon DEF Taken

\* The bytes of a chunk, of Content-Length or up to the end of the connection.
LEMMA ReadDataKeeps ==
  ASSUME BodyInv, Body!ReadData
  PROVE  BodyInv'
<1>1. outcome = "none" /\ step = "data"
  BY Zenon DEF Body!ReadData
<1>2. PICK w, B, bad, k, c : Place(w, B, bad, k, c)
  BY <1>1, Zenon DEF BodyInv
<1>3. /\ Cuts(w, bad, k, reply) /\ Left(unread, w, bad, k, c)
      /\ InChunks(w, B, bad, c) \/ InPlain(w, c)
  BY <1>2, Zenon DEF Place
<1>4. PICK l \in Nat, n \in Nat, e \in Nat : l = Len(body) /\ n = reply.length /\ e = Len(unread)
  <2>1. Len(body) \in Nat /\ reply.length \in Nat
    BY DEF BodyInv, BodyType
  <2>2. unread \in Seq(Token)
    BY <1>3, Zenon DEF Left
  <2>3. Len(unread) \in Nat
    BY <2>2
  <2> QED
    BY <2>1, <2>3, Zenon
<1>5. /\ c \in Nat /\ k \in Nat /\ c + e = k /\ k <= Len(w)
      /\ \A i \in 1..e : unread[i] = Shown(w, bad, c + i)
  BY <1>3, <1>4, Zenon DEF Cuts, Left
<1>6. rem \in Nat /\ body \in Seq(Nat) /\ Counts(body)
  BY Zenon DEF BodyInv, BodyType, Body!BodyExplained, Counts
<1>7. CASE reply.framing = "length" /\ rem = 0 /\ Body!AtEOF
  <2>1. ~InChunks(w, B, bad, c)
    BY <1>7 DEF InChunks
  <2>2. rem + c = n /\ c = l
    BY <1>3, <1>4, <1>7, <2>1, Zenon DEF InPlain
  <2>3. l = n /\ l <= n
    BY <1>7, <2>2
  <2> QED
    BY <1>4, <1>7, <2>3, AtEOFKeeps, Zenon
<1>8. CASE (reply.framing = "length" => rem > 0) /\ Body!Exhausted
  BY <1>1, <1>8, ExhaustedKeeps, Zenon
<1>9. ASSUME NEW q \in 1..Len(unread), Body!Allowed(q),
             body' = body \o [i \in 1..q |-> unread[i].n],
             unread' = SubSeq(unread, q + 1, Len(unread)),
             rem' = IF reply.framing = "close" THEN rem ELSE rem - q,
             step' = IF reply.framing = "chunked" /\ rem = q THEN "delimiter" ELSE "data",
             UNCHANGED <<reply, outcome>>
      PROVE  BodyInv'
  <2>1. q \in Nat /\ q <= e /\ q # 0 /\ q <= Len(unread)
    BY <1>4, <1>9
  <2>2. Left(unread', w, bad, k, c + q)
    BY <1>3, <1>9, <2>1, LeftRest, Zenon
  <2>3. reply.framing # "close" => q <= rem
    BY <1>9, Zenon DEF Body!Allowed
  <2>4. reply' = reply /\ outcome' = outcome
    BY <1>9, Zenon
  <2>5. ASSUME \A i \in 1..q : w[c + i] = Body!Byte(l + i)
        PROVE  body' \in Seq(Nat) /\ Len(body') = l + q /\ Counts(body')
    <3>1. Runs(unread, Len(body), q)
      <4> SUFFICES ASSUME NEW i \in 1..q PROVE unread[i].n = l + i
        BY <1>4, Zenon DEF Runs
      <4>1. i \in 1..e /\ c + i \in Nat /\ c + i # 0 /\ l + i \in Nat
        BY <1>5, <2>1
      <4>2. Shown(w, bad, c + i).n = l + i
        BY <1>3, <2>5, <4>1, ByteShown, ZenonT(60)
      <4> QED
        BY <1>5, <4>1, <4>2, Zenon
    <3>2. PICK v : v = body'
      BY Zenon
    <3>3. PICK f : f = [i \in 1..q |-> unread[i].n]
      BY Zenon
    <3>4. v = body \o f /\ q \in Nat
      BY <1>9, <2>1, <3>2, <3>3, Zenon
    <3>5. Grown(v, body, q)
      BY <1>6, <3>1, <3>3, <3>4, BodyGrows, Zenon
    <3> QED
      BY <1>4, <3>2, <3>5, Zenon DEF Grown
  <2>6. ASSUME \A i \in 1..q : w[c + i] = Body!Byte(l + i), rem' \in Nat,
               InChunks(w, B, bad, c + q)' \/ InPlain(w, c + q)'
        PROVE  BodyInv'
    <3>1. body' \in Seq(Nat) /\ Counts(body')
      BY <2>5, <2>6, Zenon
    <3>2. BodyType'
      BY <2>4, <2>6, <3>1, Zenon DEF BodyInv, BodyType
    <3>3. outcome' = "none"
      BY <1>1, <2>4, Zenon
    <3>4. Body!BodyExplained'
      BY <3>1, <3>3 DEF Body!BodyExplained, Counts
    <3>5. Place(w, B, bad, k, c + q)'
      BY <1>3, <2>2, <2>4, <2>6, Zenon DEF Place
    <3> QED
      BY <3>2, <3>4, <3>5, Zenon DEF BodyInv
  <2>7. CASE InChunks(w, B, bad, c)
    <3>1. reply.framing = "chunked" /\ Chunks(w, B, n) /\ rem > 0 /\ Within(w, B, c, rem, l)
      BY <1>1, <1>4, <2>7, Zenon DEF InChunks
    <3>2. q <= rem /\ rem' = rem - q /\ step' = IF rem = q THEN "delimiter" ELSE "data"
      BY <1>9, <2>3, <3>1
    <3>3. /\ Within(w, B, c + q, rem - q, l + q)
          /\ \A i \in 1..q : w[c + i] = Body!Byte(l + i)
      <4>1. c \in Nat /\ rem \in Nat /\ q \in Nat /\ q <= rem
        BY <1>5, <1>6, <2>1, <3>2, Zenon
      <4> QED
        <5>1. Taken(w, B, c, rem, l, q)
          BY <3>1, <4>1, WithinReads, Zenon
        <5> QED
          BY <5>1, Zenon DEF Taken
    <3>4. rem - q \in Nat /\ (rem # q => rem - q > 0) /\ (rem = q => rem - q = 0)
      BY <1>6, <2>1, <3>2
    <3>5. Len(body') = l + q
      BY <2>5, <3>3, Zenon
    <3>6. PICK d : d = c + q
      BY Zenon
    <3>7. Within(w, B, d, rem', Len(body')) /\ rem' \in Nat /\ Chunks(w, B, reply'.length)
      BY <1>4, <2>4, <3>1, <3>2, <3>3, <3>4, <3>5, <3>6, Zenon
    <3>8. (step' = "data" /\ rem' > 0) \/ (step' = "delimiter" /\ rem' = 0)
      BY <3>2, <3>4
    <3>9. InChunks(w, B, bad, d)'
      BY <2>4, <3>1, <3>7, <3>8 DEF InChunks
    <3> QED
      BY <2>6, <3>3, <3>6, <3>7, <3>9, Zenon
  <2>8. CASE InPlain(w, c)
    <3>1. /\ reply.framing \in {"length", "close"} /\ Len(w) = n /\ c = l
          /\ (reply.framing = "length" => rem + c = n) /\ \A i \in 1..n : w[i] = Body!Byte(i)
      BY <1>4, <2>8, Zenon DEF InPlain
    <3>2. \A i \in 1..q : c + i \in 1..n /\ c + i = l + i
      <4>1. c + e = k /\ k <= n /\ c = l
        BY <1>5, <3>1, Zenon
      <4> QED
        BY <1>5, <2>1, <4>1
    <3>3. \A i \in 1..q : w[c + i] = Body!Byte(l + i)
      BY <3>1, <3>2, Zenon
    <3>4. step' = "data"
      BY <1>9, <3>1
    <3>5. rem' \in Nat /\ (reply.framing = "length" => rem' + (c + q) = n)
      <4>1. CASE reply.framing = "close"
        BY <1>6, <1>9, <4>1
      <4>2. CASE reply.framing = "length"
        <5>1. rem' = rem - q /\ q <= rem /\ rem + c = n
          BY <1>9, <2>3, <3>1, <4>2
        <5> QED
          BY <1>5, <1>6, <2>1, <5>1
      <4> QED
        BY <3>1, <4>1, <4>2
    <3>6. Len(body') = l + q
      BY <2>5, <3>3, Zenon
    <3>7. PICK d : d = c + q
      BY Zenon
    <3>8. d = Len(body') /\ (reply.framing = "length" => rem' + d = n)
      BY <3>1, <3>5, <3>6, <3>7, Zenon
    <3>9. InPlain(w, d)'
      BY <1>4, <2>4, <3>1, <3>4, <3>8, Zenon DEF InPlain
    <3> QED
      BY <2>6, <3>3, <3>5, <3>7, <3>9, Zenon
  <2> QED
    BY <1>3, <2>7, <2>8, Zenon
<1> QED
  BY <1>7, <1>8, <1>9, Zenon DEF Body!ReadData

\* A body without chunks.
Plain(w, n) == w \in Seq(Token) /\ Len(w) = n /\ \A i \in 1..n : w[i] = Body!Byte(i)

\* A body that is not chunked is sent as it is.
LEMMA FramedPlain ==
  ASSUME NEW n \in Nat, NEW framing, framing # "chunked", NEW c,
         NEW w, w = Body!Framed(framing, n, c)
  PROVE  Plain(w, n)
<1>1. w = [i \in 1..n |-> Body!Byte(i)]
  BY Zenon DEF Body!Framed
<1>2. \A i \in 1..n : i \in Nat
  OBVIOUS
<1>3. \A i \in 1..n : Body!Byte(i) \in Token
  BY <1>2, Tokens, Zenon
<1>4. w \in [1..n -> Token]
  BY <1>1, <1>3, Zenon
<1>5. w \in Seq(Token) /\ Len(w) = n
  BY <1>4, FcnSeq, Zenon
<1> QED
  BY <1>1, <1>5, Zenon DEF Plain

\* The first k tokens, one of them perhaps corrupted.
LEMMA CorruptLeft ==
  ASSUME NEW w \in Seq(Token), NEW bad, bad \in {0} \cup DOMAIN w, NEW k \in 0..Len(w),
         NEW u, u = SubSeq(Body!Corrupt(w, bad), 1, k)
  PROVE  Left(u, w, bad, k, 0)
<1>1. PICK v : v = Body!Corrupt(w, bad)
  BY Zenon
<1>2. PICK a \in Nat : a = Len(w)
  OBVIOUS
<1>3. w \in [1..a -> Token] /\ DOMAIN w = 1..a
  <2> DEFINE T == Token
  <2>1. w \in Seq(T)
    OBVIOUS
  <2> HIDE DEF T
  <2>2. w \in [1..a -> T] /\ DOMAIN w = 1..a
    BY <1>2, <2>1
  <2> QED
    BY <2>2, Zenon DEF T
<1>4. Body!Mark("junk") \in Token
  BY Tokens, Zenon
<1>5. v \in [1..a -> Token] /\ \A i \in 1..a : v[i] = Shown(w, bad, i)
  <2>1. CASE bad = 0
    <3>1. v = w /\ \A i \in 1..a : i # bad
      BY <1>1, <2>1 DEF Body!Corrupt
    <3> QED
      BY <1>3, <3>1, Zenon DEF Shown
  <2>2. CASE bad # 0
    <3>1. v = [w EXCEPT ![bad] = Body!Mark("junk")]
      BY <1>1, <2>2, Zenon DEF Body!Corrupt
    <3>2. bad \in 1..a
      BY <1>3, <2>2, Zenon
    <3> QED
      BY <1>3, <1>4, <3>1, <3>2, Zenon DEF Shown
  <2> QED
    BY <2>1, <2>2, Zenon
<1>6. u \in Seq(Token) /\ Len(u) = k /\ \A i \in 1..k : u[i] = v[i]
  <2> DEFINE T == Token
  <2>1. v \in [1..a -> T] /\ u = SubSeq(v, 1, k) /\ k \in 0..a
    BY <1>1, <1>2, <1>5, Zenon
  <2> HIDE DEF T
  <2>2. v \in Seq(T) /\ Len(v) = a
    BY <2>1, FcnSeq, Zenon
  <2>3. u \in Seq(T) /\ Len(u) = k /\ \A i \in 1..k : u[i] = v[i]
    BY <2>1, <2>2
  <2> QED
    BY <2>3, Zenon DEF T
<1>7. 0 \in Nat /\ 0 + k = k /\ \A i \in 1..k : 0 + i = i /\ i \in 1..a
  BY <1>2
<1>8. ASSUME NEW i \in 1..k PROVE u[i] = Shown(w, bad, 0 + i)
  BY <1>5, <1>6, <1>7, Zenon
<1> QED
  BY <1>6, <1>7, <1>8, Zenon DEF Left

\* The headers are read.
LEMMA BodyInitInv == Body!Init => BodyInv
<1> SUFFICES ASSUME Body!Init PROVE BodyInv
  BY Zenon
<1>1. PICK framing \in Body!Framings, n \in 0..MaxContent, gz \in BOOLEAN, eof \in BOOLEAN, limit \in Limits :
      \E chunks \in (IF framing = "chunked" THEN Body!Chunkings(n) ELSE {<<n>>}) :
        LET wire == Body!Framed(framing, n, chunks)
        IN  \E bad \in {0} \cup {i \in DOMAIN wire : wire[i].t # "byte"}, k \in 0..Len(wire) :
              /\ reply = [framing |-> framing, length |-> n, gzip |-> gz, limit |-> limit,
                          eof |-> eof, flaw |-> bad # 0, early |-> k < Len(wire)]
              /\ unread = SubSeq(Body!Corrupt(wire, bad), 1, k)
              /\ step = IF framing = "chunked" THEN "size" ELSE "data"
              /\ rem = IF framing = "chunked" THEN 0 ELSE n
              /\ body = <<>> /\ outcome = "none"
  BY Zenon DEF Body!Init
<1>2. PICK chunks \in (IF framing = "chunked" THEN Body!Chunkings(n) ELSE {<<n>>}) :
        LET wire == Body!Framed(framing, n, chunks)
        IN  \E bad \in {0} \cup {i \in DOMAIN wire : wire[i].t # "byte"}, k \in 0..Len(wire) :
              /\ reply = [framing |-> framing, length |-> n, gzip |-> gz, limit |-> limit,
                          eof |-> eof, flaw |-> bad # 0, early |-> k < Len(wire)]
              /\ unread = SubSeq(Body!Corrupt(wire, bad), 1, k)
              /\ step = IF framing = "chunked" THEN "size" ELSE "data"
              /\ rem = IF framing = "chunked" THEN 0 ELSE n
              /\ body = <<>> /\ outcome = "none"
  BY <1>1, Zenon
<1>3. PICK w : w = Body!Framed(framing, n, chunks)
  BY Zenon
<1>4. PICK bad \in {0} \cup {i \in DOMAIN w : w[i].t # "byte"}, k \in 0..Len(w) :
        /\ reply = [framing |-> framing, length |-> n, gzip |-> gz, limit |-> limit,
                    eof |-> eof, flaw |-> bad # 0, early |-> k < Len(w)]
        /\ unread = SubSeq(Body!Corrupt(w, bad), 1, k)
        /\ step = IF framing = "chunked" THEN "size" ELSE "data"
        /\ rem = IF framing = "chunked" THEN 0 ELSE n
        /\ body = <<>> /\ outcome = "none"
  BY <1>2, <1>3, Zenon
<1>5. n \in Nat /\ limit \in Nat /\ 0 \in Nat
  BY ContentAssumption
<1>6. reply.framing = framing /\ reply.length = n /\ reply.limit = limit
  BY <1>4, Zenon
<1>7. (bad # 0 => reply.flaw) /\ (k < Len(w) => reply.early)
  BY <1>4, Zenon
<1>8. body = <<>> /\ body \in Seq(Nat) /\ Len(body) = 0 /\ outcome = "none"
  BY <1>4
<1>9. BodyType
  BY <1>4, <1>5, <1>6, <1>8, Zenon DEF BodyType
<1>10. Body!BodyExplained
  BY <1>8 DEF Body!BodyExplained
<1>11. ASSUME w \in Seq(Token)
       PROVE  Cuts(w, bad, k, reply) /\ Left(unread, w, bad, k, 0)
  <2>1. Len(w) \in Nat
    BY <1>11
  <2>2. k \in Nat /\ k <= Len(w)
    BY <2>1
  <2>3. bad \in Nat /\ bad \in {0} \cup DOMAIN w
    BY <1>11
  <2>4. bad # 0 => w[bad].t # "byte"
    OBVIOUS
  <2>5. Cuts(w, bad, k, reply)
    BY <1>7, <1>11, <2>2, <2>3, <2>4 DEF Cuts
  <2>6. Left(unread, w, bad, k, 0)
    BY <1>4, <1>11, <2>3, CorruptLeft, Zenon
  <2> QED
    BY <2>5, <2>6, Zenon
<1>12. CASE framing = "chunked"
  <2>1. PICK B : Chunks(w, B, n)
    BY <1>2, <1>3, <1>5, <1>12, FramedChunks, Zenon
  <2>2. w \in Seq(Token) /\ <<1, 0>> \in B
    BY <2>1, Zenon DEF Chunks
  <2>3. step = "size" /\ 0 + 1 = 1
    BY <1>4, <1>12
  <2>4. InChunks(w, B, bad, 0)
    BY <1>6, <1>8, <1>12, <2>1, <2>2, <2>3, Zenon DEF InChunks
  <2>5. Place(w, B, bad, k, 0)
    BY <1>11, <2>2, <2>4, Zenon DEF Place
  <2> QED
    BY <1>9, <1>10, <2>5, Zenon DEF BodyInv
<1>13. CASE framing # "chunked"
  <2>1. w \in Seq(Token) /\ Len(w) = n /\ \A i \in 1..n : w[i] = Body!Byte(i)
    <3>1. n \in Nat /\ framing # "chunked" /\ w = Body!Framed(framing, n, chunks)
      BY <1>3, <1>5, <1>13, Zenon
    <3>2. Plain(w, n)
      BY <3>1, FramedPlain, Zenon
    <3> QED
      BY <3>2, Zenon DEF Plain
  <2>2. step = "data" /\ rem + 0 = n
    BY <1>4, <1>5, <1>13
  <2>3. framing \in {"length", "close"}
    BY <1>13 DEF Body!Framings
  <2>4. InPlain(w, 0)
    BY <1>6, <1>8, <2>1, <2>2, <2>3, Zenon DEF InPlain
  <2>5. Place(w, {}, bad, k, 0)
    BY <1>11, <2>1, <2>4, Zenon DEF Place
  <2> QED
    BY <1>9, <1>10, <2>5, Zenon DEF BodyInv
<1> QED
  BY <1>12, <1>13, Zenon

\* Every step.
LEMMA BodyKeepsInv == BodyInv /\ [Body!Next]_(Body!vars) => BodyInv'
<1> SUFFICES ASSUME BodyInv, [Body!Next]_(Body!vars) PROVE BodyInv'
  BY Zenon
<1>1. CASE Body!Next
  BY <1>1, ReadLimitKeeps, ReadSizeKeeps, ReadTrailerKeeps, ReadDataKeeps, ReadDelimiterKeeps, Zenon
     DEF Body!Next
<1>2. CASE UNCHANGED Body!vars
  <2>1. reply' = reply /\ unread' = unread /\ step' = step /\ rem' = rem /\ body' = body /\ outcome' = outcome
    BY <1>2, Zenon DEF Body!vars
  <2>2. BodyType'
    BY <2>1, Zenon DEF BodyInv, BodyType
  <2>3. Body!BodyExplained'
    BY <2>1 DEF BodyInv, Body!BodyExplained, Body!LimitReached
  <2>4. ASSUME outcome' = "none" PROVE \E w, B, bad, k, c : Place(w, B, bad, k, c)'
    <3>1. PICK w, B, bad, k, c : Place(w, B, bad, k, c)
      BY <2>1, <2>4, Zenon DEF BodyInv
    <3>2. Place(w, B, bad, k, c)'
      BY <2>1, <3>1, Zenon DEF Place, InChunks, InPlain
    <3> QED
      BY <3>2, Zenon
  <2> QED
    BY <2>2, <2>3, <2>4, Zenon DEF BodyInv
<1> QED
  BY <1>1, <1>2, Zenon

\* The body doOnce returns is the content from its first byte on, however it is
\* framed, however the reads fall and wherever the server stops or corrupts the
\* framing; it is cut or refused only for the reasons BodyExplained lists. This
\* holds for contents of any length, every way to cut them into chunks and
\* every MaxBodySize.
THEOREM BodyExplainedHolds == Body!Spec => []BodyExplained
<1>1. BodyInv => BodyExplained
  BY Zenon DEF BodyInv, BodyExplained
<1> QED
  BY <1>1, BodyInitInv, BodyKeepsInv, PTL DEF Body!Spec

================================================================================
