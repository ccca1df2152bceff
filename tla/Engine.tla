------------------------------- MODULE Engine -------------------------------
(***************************************************************************)
(* The database engine and a walk over the pages of its tables, side by    *)
(* side. They share no state.                                              *)
(***************************************************************************)
EXTENDS Integers, Sequences, FiniteSets

CONSTANTS
  Clients, DbClosers, Configs, BatchLen,       \* Database
  MaxExpires, MaxTries, MaxTicks,
  RowIDs, Limit, MaxChanges                    \* Paging

\* The name of the maintenance goroutine is nobody else's.
ASSUME ClientsAssumption == "maintenance" \notin Clients
\* SaveBatch returns at once for an empty batch.
ASSUME BatchLenAssumption == BatchLen \in Nat \ {0}
\* A client calls Save, SaveBatch or Migrate.
ASSUME ConfigsAssumption == \A f \in Configs : f.kinds \subseteq {"save", "batch", "migrate"}
\* The key of a row is positive, and a table holds finitely many rows.
ASSUME PagingAssumption ==
  RowIDs \subseteq Nat \ {0} /\ IsFiniteSet(RowIDs) /\ Limit \in Nat \ {0}

VARIABLES conf, progress, schema, alive, opened, expired, settings, held, writers,
          rows, call, job, closing, hot, stopped, dbClosed, unchecked, missing
dbVars == <<conf, progress, schema, alive, opened, expired, settings, held, writers,
            rows, call, job, closing, hot, stopped, dbClosed, unchecked, missing>>
Db == INSTANCE Database WITH step <- progress, Closers <- DbClosers

VARIABLES mode, table, cursor, read, walking, stable, changes
walkVars == <<mode, table, cursor, read, walking, stable, changes>>
Walk == INSTANCE Paging

engineVars == <<dbVars, walkVars>>

EngineInit == Db!Init /\ Walk!Init

EngineStep(p) ==
  \/ p = "database" /\ Db!Next /\ UNCHANGED walkVars
  \/ p = "paging" /\ Walk!Next /\ UNCHANGED dbVars

EngineNext == \E p \in {"database", "paging"} : EngineStep(p)

EngineSpec == EngineInit /\ [][EngineNext]_engineVars

-----------------------------------------------------------------------------
(* The properties of the components; each is explained in its module. *)

\* SaveBatch stores all of a batch or nothing, and says which.
BatchAtomic == Db!BatchAtomic

\* A pool of one connection that is never dropped keeps the settings of Open.
SettingsStay == Db!SettingsStay

\* A walk by key misses no row that stays and returns none twice.
WalkComplete == Walk!WalkComplete

=============================================================================
