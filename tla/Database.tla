------------------------------- MODULE Database -------------------------------
(***************************************************************************)
(* A DatabaseEngine on SQLite (database/engine.go, migration.go,           *)
(* sqlite.go, scheduler.go) and the writes of BaseEngine                   *)
(* (database/base_engine.go): Open runs its PRAGMAs and, if asked to, the  *)
(* migrations; clients save rows and batches or migrate, the maintenance   *)
(* goroutine runs beside them, and Close may come at any time. The pool of *)
(* database/sql and SQLite are external: a statement takes an idle         *)
(* connection or opens one, settings and a ":memory:" database belong to a *)
(* connection, and a second writer is refused as busy.                     *)
(***************************************************************************)
EXTENDS Naturals, Sequences, FiniteSets

CONSTANTS
  Clients,     \* goroutines that call Save, SaveBatch or Migrate
  Closers,     \* goroutines that call Close
  Configs,     \* configurations of Open
  BatchLen,    \* entities of a batch, statements of a client's Migrate
  MaxExpires,  \* bound: idle connections the pool drops
  MaxTries,    \* bound: calls of one client
  MaxTicks     \* bound: ticks of the maintenance tickers

\* A configuration is a record. conns: MaxOpenConns; memory: the DSN is
\* ":memory:"; migrate: AutoMigrate, with migrations; maint: EnableMaintenance;
\* users: the clients and closers that make calls; kinds: the calls they make.

VARIABLES
  conf,      \* the configuration
  step,      \* progress of Open
  schema,    \* databases that have the tables
  alive,     \* open connections
  opened,    \* connections opened so far
  expired,   \* connections dropped by the pool so far
  settings,  \* the PRAGMAs executed on each of them
  held,      \* the connection a goroutine holds, or 0
  writers,   \* connections inside a write transaction
  rows,      \* committed rows: <<database, client, entity>>
  call,      \* each client's call
  job,       \* the maintenance goroutine
  closing,   \* each call of Close
  hot,       \* a write was announced within the cooldown
  stopped,   \* the stop channel is closed
  dbClosed,  \* db.Close has been called
  unchecked, \* history: a row was stored with its foreign keys unchecked
  missing    \* history: a call found no tables although a Migrate had made them

pool == <<alive, opened, settings, held>>
seen == <<unchecked, missing>>
vars == <<conf, step, schema, pool, expired, writers, rows, call, job, closing,
          hot, stopped, dbClosed, seen>>

Maintenance == "maintenance"
Goroutines == Clients \cup {Maintenance}

\* The steps of Open: the PRAGMAs of dialect.Init, then Migrate.
Statements_NoKeys == <<"journal_mode", "synchronous">>
Statements == <<"journal_mode", "synchronous", "foreign_keys">>
MigrateStep == Len(Statements) + 1
Ready  == Len(Statements) + 2
Failed == 0

Init ==
  /\ conf \in Configs /\ step = 1 /\ schema = {}
  /\ alive = {} /\ opened = 0 /\ expired = 0 /\ settings = <<>> /\ held = [g \in Goroutines |-> 0]
  /\ writers = {} /\ rows = {}
  /\ call = [c \in Clients |-> [at |-> "idle", kind |-> "batch", n |-> 0, tries |-> 0, res |-> "none"]]
  /\ job = [at |-> "off", left |-> 0, ticks |-> 0]
  /\ closing = [c \in Closers |-> "idle"]
  /\ hot = FALSE /\ stopped = FALSE /\ dbClosed = FALSE
  /\ unchecked = FALSE /\ missing = FALSE

\* The database a connection works on: 0 is the file.
Db(k) == IF conf.memory THEN k ELSE 0

-----------------------------------------------------------------------------
(* The pool of database/sql *)

Idle == {k \in alive : \A g \in Goroutines : held[g] # k}

\* db.Exec and db.Begin take an idle connection, or open one when there is
\* none and MaxOpenConns allows it; otherwise they wait.
Take(k) ==
  \/ k \in Idle /\ UNCHANGED <<alive, opened>>
  \/ /\ Idle = {} /\ Cardinality(alive) < conf.conns /\ k = opened + 1
     /\ alive' = alive \cup {k} /\ opened' = k
Taken(k) == IF k \in alive THEN settings ELSE Append(settings, {})
Candidates == Idle \cup {opened + 1}

\* A connection that comes back to a closed pool is closed.
Released(g) ==
  /\ held' = [held EXCEPT ![g] = 0]
  /\ alive' = IF dbClosed THEN alive \ {held[g]} ELSE alive
  /\ writers' = writers \ {held[g]}
  /\ UNCHANGED <<opened, settings>>

\* ConnMaxLifetime and MaxIdleConns end idle connections.
Expire ==
  /\ expired < MaxExpires /\ ~dbClosed
  /\ \E k \in Idle : alive' = alive \ {k}
  /\ expired' = expired + 1
  /\ UNCHANGED <<conf, step, schema, opened, settings, held, writers, rows, call,
                 job, closing, hot, stopped, dbClosed, seen>>

-----------------------------------------------------------------------------
(* Open *)

Pragma ==
  /\ step \in DOMAIN Statements
  /\ \E k \in Candidates :
       /\ Take(k)
       /\ settings' = [Taken(k) EXCEPT ![k] = @ \cup {Statements[step]}]
  /\ step' = step + 1
  /\ UNCHANGED <<conf, schema, held, writers, rows, call, job, closing, hot,
                 stopped, dbClosed, expired, seen>>

\* With AutoMigrate, Migrate, which does nothing without migrations and is one
\* transaction otherwise; then the maintenance goroutine is started.
Migrate ==
  /\ step = MigrateStep
  /\ IF conf.migrate
       THEN \E k \in Candidates :
              Take(k) /\ settings' = Taken(k) /\ schema' = schema \cup {Db(k)}
       ELSE UNCHANGED <<schema, alive, opened, settings>>
  /\ step' = Ready
  /\ job' = IF conf.maint THEN [job EXCEPT !.at = "select"] ELSE job
  /\ UNCHANGED <<conf, held, writers, rows, call, closing, hot, stopped,
                 dbClosed, expired, seen>>

\* A statement of Open fails: the pool is closed and no engine is returned.
OpenFails ==
  /\ step \in 1..MigrateStep
  /\ step' = Failed /\ dbClosed' = TRUE /\ alive' = {}
  /\ UNCHANGED <<conf, schema, opened, settings, held, writers, rows, call, job,
                 closing, hot, stopped, expired, seen>>

-----------------------------------------------------------------------------
(* Save and SaveBatch, Upsert and UpsertBatch, Migrate *)

At(c, l) == call' = [call EXCEPT ![c].at = l]
Return(c, r) == call' = [call EXCEPT ![c].at = "idle", ![c].res = r]

\* notifyWrite comes before the first statement; Migrate does not call it.
\* Upsert takes the steps of Save, UpsertBatch those of SaveBatch; they differ
\* in the text of the SQL.
Start(c) ==
  /\ step = Ready /\ c \in conf.users
  /\ call[c].at = "idle" /\ call[c].res # "ok" /\ call[c].tries < MaxTries
  /\ \E kind \in conf.kinds :
       /\ call' = [call EXCEPT ![c] = [at |-> "begin", kind |-> kind, n |-> 0,
                                       tries |-> @.tries + 1, res |-> "none"]]
       /\ hot' = (hot \/ kind # "migrate")
  /\ UNCHANGED <<conf, step, schema, pool, writers, rows, job, closing, stopped,
                 dbClosed, expired, seen>>

Begin(c) ==
  /\ call[c].at = "begin"
  /\ IF dbClosed THEN Return(c, "error") /\ UNCHANGED pool
     ELSE /\ \E k \in Candidates :
               Take(k) /\ settings' = Taken(k) /\ held' = [held EXCEPT ![c] = k]
          /\ At(c, IF call[c].kind = "migrate" THEN "exec" ELSE "prepare")
  /\ UNCHANGED <<conf, step, schema, writers, rows, job, closing, hot, stopped,
                 dbClosed, expired, seen>>

\* Rollback: what was written is forgotten and the connection goes back.
Rollback_Commits(c) ==
  /\ rows' = rows \cup {<<Db(held[c]), c, i>> : i \in 1..call[c].n}
  /\ Released(c) /\ Return(c, "error")
Rollback_Missing(c) ==
  /\ Return(c, "error") /\ UNCHANGED <<pool, writers, rows>>
Rollback(c) == Released(c) /\ Return(c, "error") /\ UNCHANGED rows

\* Preparing the statement needs the table.
Prepare(c) ==
  /\ call[c].at = "prepare"
  /\ LET k == held[c]
     IN  /\ missing' = (missing \/ (schema # {} /\ Db(k) \notin schema))
         /\ IF Db(k) \in schema THEN At(c, "exec") /\ UNCHANGED <<pool, writers, rows>>
            ELSE Rollback(c)
  /\ UNCHANGED <<conf, step, schema, job, closing, hot, stopped, dbClosed,
                 expired, unchecked>>

Busy(k) == \E w \in writers : w # k /\ Db(w) = Db(k)

\* SQLite checks references only on a connection with foreign_keys on.
Stores(c) == unchecked' = (unchecked \/ "foreign_keys" \notin settings[held[c]])

\* One entity, or one statement of Migrate. A value count that does not match, a
\* constraint, a statement that fails or a busy database end the transaction; a
\* single Save commits by itself.
Exec(c) ==
  /\ call[c].at = "exec"
  /\ \/ Rollback(c) /\ UNCHANGED unchecked
     \/ /\ ~Busy(held[c]) /\ call[c].kind = "save"
        /\ rows' = rows \cup {<<Db(held[c]), c, 0>>} /\ Stores(c)
        /\ Released(c) /\ Return(c, "ok")
     \/ /\ ~Busy(held[c]) /\ call[c].kind # "save"
        /\ writers' = writers \cup {held[c]}
        /\ call' = [call EXCEPT ![c].n = @ + 1,
                                ![c].at = IF call[c].n + 1 = BatchLen THEN "commit" ELSE "exec"]
        /\ UNCHANGED <<pool, rows, unchecked>>
  /\ UNCHANGED <<conf, step, schema, job, closing, hot, stopped, dbClosed,
                 expired, missing>>

Commit(c) ==
  /\ call[c].at = "commit"
  /\ \/ Rollback(c) /\ UNCHANGED <<schema, unchecked>>
     \/ /\ call[c].kind = "batch"
        /\ rows' = rows \cup {<<Db(held[c]), c, i>> : i \in 1..BatchLen} /\ Stores(c)
        /\ Released(c) /\ Return(c, "ok") /\ UNCHANGED schema
     \/ /\ call[c].kind = "migrate"
        /\ schema' = schema \cup {Db(held[c])}
        /\ Released(c) /\ Return(c, "ok") /\ UNCHANGED <<rows, unchecked>>
  /\ UNCHANGED <<conf, step, job, closing, hot, stopped, dbClosed, expired, missing>>

-----------------------------------------------------------------------------
(* The maintenance goroutine *)

\* A tick, perhaps one left in its channel when the ticker was stopped: nothing
\* within the cooldown of a write, otherwise a checkpoint (one statement) or
\* maybeVacuum (two questions, a checkpoint and VACUUM).
Tick ==
  /\ job.at = "select" /\ job.ticks < MaxTicks
  /\ \E n \in {1, 4} :
       job' = IF hot THEN [job EXCEPT !.ticks = @ + 1]
              ELSE [at |-> "take", left |-> n, ticks |-> job.ticks + 1]
  /\ UNCHANGED <<conf, step, schema, pool, writers, rows, call, closing, hot,
                 stopped, dbClosed, expired, seen>>

JobEnds == job' = [job EXCEPT !.at = "select", !.left = 0]

JobTake ==
  /\ job.at = "take"
  /\ IF dbClosed THEN JobEnds /\ UNCHANGED pool
     ELSE /\ \E k \in Candidates :
               Take(k) /\ settings' = Taken(k) /\ held' = [held EXCEPT ![Maintenance] = k]
          /\ job' = [job EXCEPT !.at = "run"]
  /\ UNCHANGED <<conf, step, schema, writers, rows, call, closing, hot, stopped,
                 dbClosed, expired, seen>>

\* VACUUM is refused while somebody writes. The free-page ratio may end the
\* job after its two questions; so does any error.
JobRun ==
  /\ job.at = "run"
  /\ \/ JobEnds
     \/ /\ job.left > 1 \/ ~Busy(held[Maintenance])
        /\ job' = [job EXCEPT !.left = @ - 1, !.at = IF job.left = 1 THEN "select" ELSE "take"]
  /\ Released(Maintenance)
  /\ UNCHANGED <<conf, step, schema, rows, call, closing, hot, stopped, dbClosed, expired, seen>>

JobStop ==
  /\ job.at = "select" /\ stopped
  /\ job' = [job EXCEPT !.at = "end"]
  /\ UNCHANGED <<conf, step, schema, pool, writers, rows, call, closing, hot,
                 stopped, dbClosed, expired, seen>>

Cool ==
  /\ hot /\ hot' = FALSE
  /\ UNCHANGED <<conf, step, schema, pool, writers, rows, call, job, closing,
                 stopped, dbClosed, expired, seen>>

-----------------------------------------------------------------------------
(* Close *)

\* scheduler.Stop closes the stop channel: the second time this panics.
Stops_Never == stopped
Stops == TRUE

CloseStop(g) ==
  /\ step = Ready /\ g \in conf.users /\ closing[g] = "idle"
  /\ IF ~conf.maint THEN closing' = [closing EXCEPT ![g] = "db"] /\ UNCHANGED stopped
     ELSE /\ closing' = [closing EXCEPT ![g] = IF stopped THEN "panic" ELSE "db"]
          /\ stopped' = Stops
  /\ UNCHANGED <<conf, step, schema, pool, writers, rows, call, job, hot,
                 dbClosed, expired, seen>>

\* db.Close closes the idle connections; one in use is closed on its return.
CloseDB(g) ==
  /\ closing[g] = "db"
  /\ closing' = [closing EXCEPT ![g] = "end"]
  /\ dbClosed' = TRUE /\ alive' = alive \ Idle
  /\ UNCHANGED <<conf, step, schema, opened, settings, held, writers, rows, call,
                 job, hot, stopped, expired, seen>>

-----------------------------------------------------------------------------

Client(c) == Begin(c) \/ Prepare(c) \/ Exec(c) \/ Commit(c)
Job == JobTake \/ JobRun \/ JobStop

Next ==
  \/ Pragma \/ Migrate \/ OpenFails \/ Expire
  \/ \E c \in Clients : Start(c) \/ Client(c)
  \/ Tick \/ Job \/ Cool
  \/ \E g \in Closers : CloseStop(g) \/ CloseDB(g)

Spec == Init /\ [][Next]_vars

\* Statements return, and the pool serves every goroutine that waits for a
\* connection. Nobody has to call, and a tick may always win over stop, but
\* only a bounded number of them is left once the tickers are stopped.
Fairness ==
  /\ \A c \in Clients : SF_vars(Client(c))
  /\ SF_vars(Job)
FairSpec == Spec /\ Fairness

-----------------------------------------------------------------------------
(* Properties *)

\* A batch is stored whole or not at all, whatever fails, however batches,
\* migrations, maintenance and Close interleave; SaveBatch returns nil exactly
\* when it is stored, and a returned call holds neither a connection nor the
\* write lock.
BatchAtomic ==
  \A c \in Clients :
    /\ \A k \in 0..opened :
         {i \in 1..BatchLen : <<k, c, i>> \in rows} \in {{}, 1..BatchLen}
    /\ call[c].at = "idle" =>
         /\ held[c] = 0
         /\ (call[c].res = "ok" /\ call[c].kind # "migrate") <=>
              \E r \in rows : r[2] = c

\* Open prepares one connection, so its settings last only with MaxOpenConns = 1
\* and no limit on a connection's life. Then no row is ever stored with its
\* foreign keys unchecked and no call misses tables that Open or Migrate made,
\* in memory too. On a file, tables are not missed with any pool.
SettingsStay ==
  /\ conf.conns = 1 /\ expired = 0 => ~unchecked /\ ~missing
  /\ missing => conf.memory

\* Every Save, SaveBatch and Migrate returns: no error path keeps a connection that
\* the others wait for.
CallsReturn == \A c \in Clients : call[c].at # "idle" ~> call[c].at = "idle"

\* Close ends the maintenance goroutine, although it does not wait for it and
\* a tick may be taken after the stop; Close panics only when called twice on
\* an engine with maintenance.
MaintenanceStops ==
  /\ \A g \in Closers : (closing[g] = "end" /\ conf.maint) ~> job.at = "end"
  /\ [](\A g \in Closers : closing[g] = "panic" =>
          conf.maint /\ \E h \in Closers \ {g} : closing[h] # "idle")

=============================================================================
