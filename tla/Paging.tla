-------------------------------- MODULE Paging --------------------------------
(***************************************************************************)
(* A reader that walks a table page by page with BaseEngine.Load           *)
(* (database/base_engine.go) while others insert and delete rows: by       *)
(* PaginationOffset (LIMIT, OFFSET, no ORDER BY) or by PaginationKeyset    *)
(* (WHERE pk > lastID ORDER BY pk LIMIT). Each Load is one query. The      *)
(* reader advances offset by the rows it got, or lastID to the last of     *)
(* them, and ends on a short page.                                         *)
(***************************************************************************)
EXTENDS Integers, Sequences, FiniteSets, Functions

CONSTANTS
  RowIDs,     \* primary keys, positive
  Limit,      \* rows of a page
  MaxChanges  \* bound: rows inserted or deleted during the walk

VARIABLES
  mode,     \* PaginationMode
  table,    \* primary keys of the rows in the table
  cursor,   \* offset or lastID of the next Load
  read,     \* rows returned so far, in order
  walking,  \* no short page yet
  stable,   \* history: rows that have been there since the walk began
  changes   \* history: number of changes

vars == <<mode, table, cursor, read, walking, stable, changes>>

Init ==
  /\ mode \in {"offset", "keyset"} /\ table \in SUBSET RowIDs
  /\ cursor = 0 /\ read = <<>> /\ walking = TRUE
  /\ stable = table /\ changes = 0

InOrder(S) ==
  CHOOSE s \in [1..Cardinality(S) -> S] : \A i, j \in DOMAIN s : i < j => s[i] < s[j]

\* The rows a query matches, in the order it returns them. Without ORDER BY
\* the order is the engine's: that of the keys in SQLite.
After_Inclusive(id) == {i \in table : i >= id}
After(id) == {i \in table : i > id}

Matches ==
  IF mode = "keyset" THEN InOrder(After(cursor))
  ELSE SubSeq(InOrder(table), cursor + 1, Cardinality(table))

Load ==
  /\ walking
  /\ LET page == SubSeq(Matches, 1, IF Len(Matches) < Limit THEN Len(Matches) ELSE Limit)
     IN  /\ read' = read \o page
         /\ walking' = (Len(page) = Limit)
         /\ cursor' = IF mode = "offset" THEN cursor + Len(page)
                      ELSE IF page = <<>> THEN cursor ELSE page[Len(page)]
  /\ UNCHANGED <<mode, table, stable, changes>>

Insert(i) ==
  /\ changes < MaxChanges /\ changes' = changes + 1
  /\ i \notin table /\ table' = table \cup {i}
  /\ UNCHANGED <<mode, cursor, read, walking, stable>>

Delete(i) ==
  /\ changes < MaxChanges /\ changes' = changes + 1
  /\ i \in table /\ table' = table \ {i} /\ stable' = stable \ {i}
  /\ UNCHANGED <<mode, cursor, read, walking>>

Next == Load \/ \E i \in RowIDs : Insert(i) \/ Delete(i)

Spec == Init /\ [][Next]_vars

-----------------------------------------------------------------------------
(* Properties *)

\* A walk by key returns rows in key order, none twice, and misses no row that
\* was in the table all along, whatever is inserted and deleted between its
\* pages. A walk by offset promises that only on a table that does not change.
WalkComplete ==
  mode = "keyset" \/ changes = 0 =>
    /\ \A i, j \in DOMAIN read : i < j => read[i] < read[j]
    /\ ~walking => stable \subseteq Range(read)

=============================================================================
