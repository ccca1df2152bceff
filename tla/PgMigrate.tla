------------------------------ MODULE PgMigrate ------------------------------
(***************************************************************************)
(* postgres.Open, EnsureDatabase and Migrate (database/postgres/           *)
(* postgres.go) run by several processes or goroutines against one server. *)
(* Every statement borrows some idle connection of the caller's pgxpool;   *)
(* an advisory lock belongs to the session that took it. The server and    *)
(* the pool are external: any idle connection may be the one handed out,   *)
(* sessions may die, and a commit may succeed with its answer lost.        *)
(***************************************************************************)
EXTENDS Naturals, Sequences, Functions

CONSTANTS
  Procs,       \* calls of Open or Migrate
  Pools,       \* pgxpool instances
  MaxConns,    \* connections of the largest pool
  Versions, Checksums,
  Dirs,        \* migration directories, in directory (name) order
  Deployments, \* the ways the calls are set up
  NoRow,       \* no row of schema_migrations for a version
  NoSession

Sessions  == Pools \X (1..MaxConns)
Migration == [version : Versions, checksum : Checksums]

\* pool: the pgxpool of each call; conns: its connections; open: called by
\* Open, which closes the pool when Migrate fails; create:
\* cfg.AutoCreateDatabase; deaths: bound on the sessions or processes lost.
Deployment == [pool : [Procs -> Pools], conns : 1..MaxConns, open : BOOLEAN,
               create : BOOLEAN, deaths : Nat]

VARIABLES
  dep,      \* the deployment, chosen once
  pc,       \* where each call is
  files,    \* the embedded directory of each call
  parsed,   \* its migrations as readMigrations returned them
  idx,      \* the loop index over parsed
  sess,     \* the connection a call holds, or NoSession
  res,      \* result of the call
  owner,    \* session that holds the advisory lock
  depth,    \* how often it holds it
  exists,   \* the database exists
  rows,     \* committed rows of schema_migrations
  effects,  \* history: committed executions of each migration's SQL
  deaths    \* history: sessions or processes lost

vars == <<dep, pc, files, parsed, idx, sess, res, owner, depth, exists, rows,
          effects, deaths>>
server == <<owner, depth, exists, rows, effects, deaths>>
locals == <<dep, files, parsed, idx>>

-----------------------------------------------------------------------------
(* readMigrations *)

\* One round of the insertion sort: m moves left past every larger version, up
\* to the first that is not larger.
Insert(sorted, m) ==
  LET stops == {0} \cup {i \in DOMAIN sorted : sorted[i].version <= m.version}
      k == CHOOSE k \in stops : \A i \in stops : i <= k
  IN  SubSeq(sorted, 1, k) \o <<m>> \o SubSeq(sorted, k + 1, Len(sorted))
sortMigrations(ms) ==
  LET sorted[n \in 0..Len(ms)] == IF n = 0 THEN <<>> ELSE Insert(sorted[n - 1], ms[n])
  IN  sorted[Len(ms)]

\* The order in which Migrate takes the files of a directory.
LoopOrder_AsListed(ms) == ms
LoopOrder(ms) == sortMigrations(ms)

\* readMigrations refuses a directory; a duplicate version stands for every
\* reason it has (bad name, unreadable file).
HasDuplicate(ms) == \E i, j \in DOMAIN ms : i # j /\ ms[i].version = ms[j].version

ASSUME PgAssumption ==
  /\ MaxConns \in Nat /\ Versions \subseteq Nat /\ Deployments \subseteq Deployment
  /\ NoRow \notin Checksums /\ NoSession \notin Sessions
  /\ \A d \in Deployments : d.open =>
       \A p, q \in Procs : d.pool[p] = d.pool[q] => p = q
  /\ Dirs \subseteq Seq(Migration)

Init ==
  /\ dep \in Deployments
  /\ pc = [p \in Procs |-> IF dep.create THEN "ensure" ELSE "table"]
  /\ files \in [Procs -> Dirs]
  /\ parsed = [p \in Procs |-> <<>>] /\ idx = [p \in Procs |-> 1]
  /\ sess = [p \in Procs |-> NoSession] /\ res = [p \in Procs |-> "none"]
  /\ owner = NoSession /\ depth = 0
  /\ exists \in {~dep.create, TRUE}
  /\ rows = [v \in Versions |-> NoRow] /\ effects = [v \in Versions |-> 0]
  /\ deaths = 0

Goto(p, l) == pc' = [pc EXCEPT ![p] = l]
PoolSessions(k) == {s \in Sessions : s[1] = k /\ s[2] <= dep.conns}
Idle(p) == {s \in PoolSessions(dep.pool[p]) : \A q \in Procs : sess[q] # s}
Take(p, s) == sess' = [sess EXCEPT ![p] = s]
Release(p) == sess' = [sess EXCEPT ![p] = NoSession]
Result(p, r) == res' = [res EXCEPT ![p] = r]
This(p) == parsed[p][idx[p]]

Loop == {"check", "begin", "exec", "insert", "commit"}
Critical == {"read"} \cup Loop

\* A session that ends gives up its advisory lock.
EndSessions(S) ==
  IF owner \in S THEN owner' = NoSession /\ depth' = 0 ELSE UNCHANGED <<owner, depth>>

-----------------------------------------------------------------------------
(* EnsureDatabase, on a connection of its own *)

EnsureCheck(p) ==
  /\ pc[p] = "ensure"
  /\ Goto(p, IF exists THEN "table" ELSE "createdb")
  /\ UNCHANGED <<locals, sess, res, server>>

EnsureCreate(p) ==
  /\ pc[p] = "createdb"
  /\ IF exists
       THEN Goto(p, "done") /\ Result(p, "error") /\ UNCHANGED exists
       ELSE Goto(p, "table") /\ exists' = TRUE /\ UNCHANGED res
  /\ UNCHANGED <<locals, sess, owner, depth, rows, effects, deaths>>

-----------------------------------------------------------------------------
(* Migrate *)

CreateTable(p) ==
  /\ pc[p] = "table" /\ Idle(p) # {}
  /\ Goto(p, "lock")
  /\ UNCHANGED <<locals, sess, res, server>>

\* pg_advisory_lock on whichever connection is idle ...
LockCall(p) ==
  /\ pc[p] = "lock"
  /\ \E s \in Idle(p) : Take(p, s)
  /\ Goto(p, "waiting")
  /\ UNCHANGED <<locals, res, server>>

\* ... waits for another session's lock, nests in its own, and gives the
\* connection back to the pool with the session's lock still held.
Grantable_Ignored(p) == TRUE
Grantable(p) == owner \in {NoSession, sess[p]}

LockGranted(p) ==
  /\ pc[p] = "waiting" /\ Grantable(p)
  /\ owner' = sess[p] /\ depth' = depth + 1
  /\ Release(p)
  /\ Goto(p, "read")
  /\ UNCHANGED <<locals, res, exists, rows, effects, deaths>>

ReadMigrations(p) ==
  /\ pc[p] = "read"
  /\ IF HasDuplicate(files[p])
       THEN Goto(p, "unlock") /\ Result(p, "error") /\ UNCHANGED parsed
       ELSE /\ Goto(p, "check")
            /\ parsed' = [parsed EXCEPT ![p] = LoopOrder(files[p])]
            /\ UNCHANGED res
  /\ UNCHANGED <<dep, files, idx, sess, server>>

\* The row of the next migration: none, the same checksum, or another one.
ChecksumOK_Any(p) == TRUE
ChecksumOK(p) == rows[This(p).version] = This(p).checksum

CheckMigration(p) ==
  /\ pc[p] = "check"
  /\ IF idx[p] > Len(parsed[p])
       THEN Goto(p, "unlock") /\ Result(p, "ok") /\ UNCHANGED idx
       ELSE /\ Idle(p) # {}
            /\ \/ /\ rows[This(p).version] = NoRow
                  /\ Goto(p, "begin") /\ UNCHANGED <<idx, res>>
               \/ /\ rows[This(p).version] # NoRow /\ ChecksumOK(p)
                  /\ idx' = [idx EXCEPT ![p] = @ + 1] /\ UNCHANGED <<pc, res>>
               \/ /\ rows[This(p).version] # NoRow /\ ~ChecksumOK(p)
                  /\ Goto(p, "unlock") /\ Result(p, "error") /\ UNCHANGED idx
  /\ UNCHANGED <<dep, files, parsed, sess, server>>

\* applyMigration: one transaction on one connection.
Begin(p) ==
  /\ pc[p] = "begin"
  /\ \E s \in Idle(p) : Take(p, s)
  /\ Goto(p, "exec")
  /\ UNCHANGED <<locals, res, server>>

ExecSQL(p) ==
  /\ pc[p] = "exec"
  /\ Goto(p, "insert")
  /\ UNCHANGED <<locals, sess, res, server>>

\* The primary key: wait for an uncommitted row of the same version, refuse a
\* committed one.
Rival(p) == \E q \in Procs \ {p} : pc[q] = "commit" /\ This(q).version = This(p).version
RowFree_NoKey(p) == TRUE
RowFree(p) == rows[This(p).version] = NoRow

InsertRow(p) ==
  /\ pc[p] = "insert" /\ ~Rival(p)
  /\ IF RowFree(p)
       THEN Goto(p, "commit") /\ UNCHANGED <<res, sess>>
       ELSE Goto(p, "unlock") /\ Result(p, "error") /\ Release(p)
  /\ UNCHANGED <<locals, server>>

Committed(p) ==
  /\ rows' = [rows EXCEPT ![This(p).version] = This(p).checksum]
  /\ effects' = [effects EXCEPT ![This(p).version] = @ + 1]

Commit(p) ==
  /\ pc[p] = "commit"
  /\ Committed(p)
  /\ Release(p)
  /\ idx' = [idx EXCEPT ![p] = @ + 1]
  /\ Goto(p, "check")
  /\ UNCHANGED <<dep, files, parsed, res, owner, depth, exists, deaths>>

\* The server commits, the answer is lost.
CommitUnknown(p) ==
  /\ pc[p] = "commit"
  /\ Committed(p)
  /\ Release(p)
  /\ Goto(p, "unlock") /\ Result(p, "error")
  /\ UNCHANGED <<locals, owner, depth, exists, deaths>>

\* A statement fails (its SQL, the network, the context): the transaction is
\* rolled back and the error returned; before the lock nothing is unlocked.
\* The connection survives, or ends with what its session holds.
StatementError(p) ==
  /\ \/ pc[p] \in {"ensure", "createdb"} /\ Goto(p, "done")
     \/ pc[p] \in {"table", "lock", "waiting"} /\ Goto(p, "return")
     \/ pc[p] \in Loop /\ Goto(p, "unlock")
  /\ Result(p, "error")
  /\ Release(p)
  /\ UNCHANGED <<owner, depth>> \/ EndSessions({sess[p]})
  /\ UNCHANGED <<locals, exists, rows, effects, deaths>>

\* The deferred pg_advisory_unlock, again on whichever connection is idle: on
\* another session than the owner it only warns.
Unlocked_Never(s) == UNCHANGED <<owner, depth>>
Unlocked(s) ==
  IF owner = s
    THEN depth' = depth - 1 /\ owner' = IF depth = 1 THEN NoSession ELSE owner
    ELSE UNCHANGED <<owner, depth>>

Unlock(p) ==
  /\ pc[p] = "unlock"
  /\ \E s \in Idle(p) : Unlocked(s)
  /\ Goto(p, "return")
  /\ UNCHANGED <<locals, sess, res, exists, rows, effects, deaths>>

\* Open closes the pool when Migrate failed: its sessions end.
Return(p) ==
  /\ pc[p] = "return"
  /\ EndSessions(IF dep.open /\ res[p] = "error"
                   THEN PoolSessions(dep.pool[p]) ELSE {})
  /\ Goto(p, "done")
  /\ UNCHANGED <<locals, sess, res, exists, rows, effects, deaths>>

-----------------------------------------------------------------------------
(* Losses *)

\* An idle connection is dropped (idle timeout, health check, network).
SessionDies ==
  /\ deaths < dep.deaths /\ deaths' = deaths + 1
  /\ \E s \in Sessions : (\A p \in Procs : sess[p] # s) /\ EndSessions({s})
  /\ UNCHANGED <<pc, locals, sess, res, exists, rows, effects>>

\* The process that owns a pool crashes: all its calls and sessions end.
PoolCrash(k) ==
  /\ deaths < dep.deaths /\ deaths' = deaths + 1
  /\ LET mine == {p \in Procs : dep.pool[p] = k}
     IN  /\ pc' = [p \in Procs |-> IF p \in mine THEN "done" ELSE pc[p]]
         /\ res' = [p \in Procs |-> IF p \in mine /\ pc[p] # "done" THEN "error" ELSE res[p]]
         /\ sess' = [p \in Procs |-> IF p \in mine THEN NoSession ELSE sess[p]]
  /\ EndSessions(PoolSessions(k))
  /\ UNCHANGED <<locals, exists, rows, effects>>

Step(p) ==
  \/ EnsureCheck(p) \/ EnsureCreate(p) \/ CreateTable(p) \/ LockCall(p)
  \/ LockGranted(p) \/ ReadMigrations(p) \/ CheckMigration(p) \/ Begin(p)
  \/ ExecSQL(p) \/ InsertRow(p) \/ Commit(p) \/ Unlock(p) \/ Return(p)

Next ==
  \/ \E p \in Procs : Step(p) \/ CommitUnknown(p) \/ StatementError(p)
  \/ SessionDies \/ \E k \in Pools : PoolCrash(k)

Spec == Init /\ [][Next]_vars

\* The server answers, and a lock request is served when the lock is free for
\* it; errors and losses need not happen.
Fairness == \A p \in Procs : SF_vars(Step(p))
FairSpec == Spec /\ Fairness

-----------------------------------------------------------------------------
(* Properties *)

\* Every variable stays in its range, and the lock is held exactly when some
\* session is its owner.
TypeOK ==
  /\ pc \in [Procs -> {"ensure", "createdb", "table", "lock", "waiting",
                       "unlock", "return", "done"} \cup Critical]
  /\ dep \in Deployments
  /\ files \in [Procs -> Dirs] /\ parsed \in [Procs -> Seq(Migration)]
  /\ idx \in [Procs -> Nat \ {0}]
  /\ sess \in [Procs -> Sessions \cup {NoSession}]
  /\ res \in [Procs -> {"none", "ok", "error"}]
  /\ owner \in Sessions \cup {NoSession} /\ depth \in Nat
  /\ (owner = NoSession) <=> (depth = 0)
  /\ exists \in BOOLEAN /\ rows \in [Versions -> Checksums \cup {NoRow}]
  /\ effects \in [Versions -> Nat] /\ deaths \in Nat

\* The SQL of a migration takes effect exactly once, however calls race,
\* sessions die and commits go unanswered: it commits together with its row,
\* and the primary key refuses a second row.
AppliedOnce == \A v \in Versions : effects[v] = IF rows[v] = NoRow THEN 0 ELSE 1

\* Migrations are applied in version order: everything before a call's current
\* one is recorded, with the checksum this call embeds.
AppliedInOrder ==
  \A p \in Procs : pc[p] \in Loop =>
    \A m \in Range(files[p]) :
      idx[p] <= Len(parsed[p]) /\ m.version < This(p).version
        => rows[m.version] = m.checksum

\* A call that returns nil leaves every migration it embeds recorded with its
\* own checksum.
OkMeansApplied ==
  \A p \in Procs : res[p] = "ok" =>
    \A m \in Range(files[p]) : rows[m.version] = m.checksum

\* The advisory lock lets one call at a time work on the migrations.
MutualExclusion == \A p, q \in Procs : pc[p] \in Critical /\ pc[q] \in Critical => p = q

\* Every statement of a call runs on one and the same session.
OneSession == dep.conns = 1 /\ \A p, q \in Procs : dep.pool[p] = dep.pool[q] => p = q

\* When every call has a pool of one connection to itself, so that lock and
\* unlock meet in one session, the advisory lock does exclude until a session
\* is lost, and it is free again once the calls have returned.
OneSessionExcludes ==
  OneSession =>
    /\ deaths = 0 => MutualExclusion
    /\ (\A p \in Procs : pc[p] = "done") => owner = NoSession

\* With such pools no call is left waiting for the advisory lock: every call
\* returns.
EveryCallReturns == OneSession => \A p \in Procs : <>(pc[p] = "done")

=============================================================================
