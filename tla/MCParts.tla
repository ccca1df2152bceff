-------------------------------- MODULE MCParts --------------------------------
(* Model-checking instances of the smaller components, in one run. *)
EXTENDS Parts

CONSTANTS C1, C2, K1, K2, L1, L2, A1, R1, E1, E2  \* goroutines

MCStrings == {<<>>, <<1>>, <<3, 2>>}
MCRowIDs == 1..4

Cf(conns, memory, migrate, maint, users, kinds) ==
  [conns |-> conns, memory |-> memory, migrate |-> migrate, maint |-> maint,
   users |-> users, kinds |-> kinds]
Writes == {"save", "batch"}
Configurations == {Cf(1, FALSE, TRUE, TRUE, {C1, K1, K2}, Writes),
                   Cf(1, FALSE, TRUE, FALSE, {C1, C2, K1}, Writes),
                   Cf(1, TRUE, FALSE, FALSE, {C1, C2}, {"batch", "migrate"}),
                   Cf(2, TRUE, TRUE, FALSE, {C1, C2, K1}, Writes),
                   Cf(2, FALSE, FALSE, FALSE, {C1, C2}, {"save", "migrate"}),
                   Cf(2, FALSE, TRUE, TRUE, {C1, K1}, Writes)}
=============================================================================
