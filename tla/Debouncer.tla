------------------------------ MODULE Debouncer ------------------------------
(***************************************************************************)
(* Debouncer (debouncer/debouncer.go): each Call stops the timer of the    *)
(* call before it and starts one of its own; a timer that expires runs the *)
(* action in a new goroutine, which Stop no longer reaches. Time is        *)
(* abstracted to whether the delay since the latest Call has passed.       *)
(***************************************************************************)
EXTENDS Naturals, FiniteSets

CONSTANT MaxCalls  \* bound: calls of Call

VARIABLES
  n,        \* calls so far; timer i was made by the i-th of them
  timer,    \* state of each timer
  quiet,    \* delay has passed since the latest Call
  missed,   \* history: timers that had expired when the next Call stopped them
  early     \* history: timers whose action began before quiet

vars == <<n, timer, quiet, missed, early>>

Timers == 1..MaxCalls

Init ==
  /\ n = 0 /\ timer = [i \in Timers |-> "none"] /\ quiet = TRUE
  /\ missed = {} /\ early = {}

\* The timers after d.timer.Stop().
Stopped_Never == timer
Stopped == [i \in Timers |-> IF i = n /\ timer[i] = "armed" THEN "stopped" ELSE timer[i]]

Call ==
  /\ n < MaxCalls /\ n' = n + 1
  /\ timer' = [Stopped EXCEPT ![n + 1] = "armed"]
  /\ missed' = missed \cup {i \in {n} \cap Timers : timer[i] = "expired"}
  /\ quiet' = FALSE
  /\ UNCHANGED early

\* The clock. The latest timer expires when the delay since its Call is over,
\* an older one (were it still armed) at any time.
Elapse ==
  /\ ~quiet /\ quiet' = TRUE
  /\ UNCHANGED <<n, timer, missed, early>>

Expire(i) ==
  /\ timer[i] = "armed" /\ (i = n => quiet)
  /\ timer' = [timer EXCEPT ![i] = "expired"]
  /\ UNCHANGED <<n, quiet, missed, early>>

\* The goroutine of the timer.
Begin(i) ==
  /\ timer[i] = "expired"
  /\ timer' = [timer EXCEPT ![i] = "running"]
  /\ early' = IF quiet THEN early ELSE early \cup {i}
  /\ UNCHANGED <<n, quiet, missed>>

Finish(i) ==
  /\ timer[i] = "running"
  /\ timer' = [timer EXCEPT ![i] = "done"]
  /\ UNCHANGED <<n, quiet, missed, early>>

Next == Call \/ Elapse \/ \E i \in Timers : Expire(i) \/ Begin(i) \/ Finish(i)

Spec == Init /\ [][Next]_vars

\* Time passes and goroutines are scheduled.
Fairness ==
  /\ WF_vars(Elapse)
  /\ \A i \in Timers : WF_vars(Expire(i)) /\ WF_vars(Begin(i))
FairSpec == Spec /\ Fairness

-----------------------------------------------------------------------------
(* Properties *)

\* The action begins within the delay of a Call only for a timer that had
\* expired before that Call, too late for Stop.
EarlyWasMissed == early \subseteq missed

\* The latest Call is never lost: the action begins for it, unless another
\* Call takes its place. And it begins early only as EarlyWasMissed says.
LatestCallRuns ==
  /\ \A i \in Timers : n = i ~> (n > i \/ timer[i] \in {"running", "done"})
  /\ []EarlyWasMissed

=============================================================================
