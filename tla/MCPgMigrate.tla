----------------------------- MODULE MCPgMigrate -----------------------------
(* Model-checking instances of PgMigrate. *)
EXTENDS PgMigrate

CONSTANTS p1, p2, k1, k2

M(v, c) == [version |-> v, checksum |-> c]

\* An older and a newer release of the same migrations, not in version order.
Release1 == <<M(1, "a")>>
Release2 == <<M(3, "a"), M(1, "a"), M(2, "a")>>
\* A release that edited an applied file, and a directory with a duplicate.
Edited   == <<M(1, "b"), M(2, "a")>>
Doubled  == <<M(2, "a"), M(1, "a"), M(2, "b")>>

Releases == {Release1, Release2}
AllDirs  == {Release1, Release2, Edited, Doubled}

\* Two Migrate calls on one pool of two connections.
Shared(n) == [pool |-> [p \in Procs |-> k1], conns |-> 2, open |-> FALSE,
              create |-> FALSE, deaths |-> n]
\* Two Open calls, each with a pool of one connection.
Private(n) == [pool |-> [p \in Procs |-> IF p = p1 THEN k1 ELSE k2], conns |-> 1,
               open |-> TRUE, create |-> TRUE, deaths |-> n]

SharedOnly == {Shared(0)}
AllDeployments == {Shared(1), Private(1)}
=============================================================================
