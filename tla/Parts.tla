-------------------------------- MODULE Parts --------------------------------
(***************************************************************************)
(* The smaller components in one specification. As they share no state,    *)
(* one of them moves at a time: part says which one, and all the others    *)
(* rest in an initial state of theirs.                                     *)
(***************************************************************************)
EXTENDS Services, Engine, Frames, Bodies

CONSTANT Components  \* values of part

VARIABLE part

vars == <<part, servicesVars, engineVars, readerVars, bodyVars>>

\* A part that never moves starts in one fixed state.
Init ==
  /\ part \in Components
  /\ Body!Init
  /\ part # "body" => /\ unread = <<>> /\ reply.framing = "close" /\ reply.length = 0
                      /\ reply.eof /\ ~reply.gzip /\ reply.limit = (CHOOSE l \in Limits : TRUE)
  /\ Stream!Init /\ (part # "stream" => Len(inp.buffer) = (CHOOSE c \in Capacities : TRUE))
  /\ Events!Init /\ (part # "events" => arg = (CHOOSE a \in [Adders -> Chunks] : TRUE))
  /\ Db!Init /\ (part # "database" => conf = (CHOOSE c \in Configs : TRUE))
  /\ Walk!Init /\ (part # "paging" => mode = "keyset" /\ table = {})
  /\ Reader!Init /\ Emitting!Init /\ Tcp!Init /\ Debounce!Init

Next ==
  /\ UNCHANGED part
  /\ \/ ServicesStep(part) /\ UNCHANGED <<engineVars, readerVars, bodyVars>>
     \/ EngineStep(part) /\ UNCHANGED <<servicesVars, readerVars, bodyVars>>
     \/ /\ part = "reader" /\ Reader!Next
        /\ UNCHANGED <<servicesVars, engineVars, bodyVars>>
     \/ /\ part = "body" /\ Body!Next
        /\ UNCHANGED <<servicesVars, engineVars, readerVars>>

\* The Fairness of each module, for as long as its part is the one that moves.
EventsFairness == \A g \in Events!Goroutines :
  /\ WF_eventsVars(part = "events" /\ Events!Sending(g))
  /\ WF_eventsVars(part = "events" /\ Events!CloseChannel(g))
  /\ WF_eventsVars(part = "events" /\ Events!Selecting(g))
DebounceFairness ==
  /\ WF_debounceVars(part = "debouncer" /\ Debounce!Elapse)
  /\ \A i \in 1..MaxCalls :
       /\ WF_debounceVars(part = "debouncer" /\ Debounce!Expire(i))
       /\ WF_debounceVars(part = "debouncer" /\ Debounce!Begin(i))
TcpFairness ==
  /\ WF_tcpVars(part = "tcp" /\ Tcp!Listener)
  /\ WF_tcpVars(part = "tcp" /\ Tcp!CloseSwap(Tcp!Watcher))
  /\ \A g \in Closers \cup {Tcp!Watcher} :
       WF_tcpVars(part = "tcp" /\ Tcp!CloseConn(g))
DbFairness ==
  /\ \A c \in Clients : SF_dbVars(part = "database" /\ Db!Client(c))
  /\ SF_dbVars(part = "database" /\ Db!Job)

Spec == Init /\ [][Next]_vars
FairSpec == Spec /\ EventsFairness /\ DebounceFairness /\ TcpFairness /\ DbFairness

-----------------------------------------------------------------------------
(* The liveness of the parts; each property is explained in its module. *)

\* CloseStream releases every listener and every sender.
CloseReleasesAll == part = "events" => Events!CloseReleasesAll

\* Cancelling the context of TCPClient.Listen ends it.
CancelEndsListen == part = "tcp" => Tcp!CancelEndsListen

\* Save and SaveBatch return.
CallsReturn == part = "database" => Db!CallsReturn

\* Close ends the maintenance goroutine, and panics only when called twice.
MaintenanceStops == part = "database" => Db!MaintenanceStops

\* The action of a Debouncer runs for the latest Call.
LatestCallRuns == part = "debouncer" => Debounce!LatestCallRuns

=============================================================================
