--------------------------- MODULE MCTaskWorktree ---------------------------
(***************************************************************************)
(* Small instances of TaskWorktree.                                        *)
(***************************************************************************)
EXTENDS TaskWorktree

CONSTANTS p1, p2, p3, j1, j2, j3, t1, t2

(* Two attempts of a task in two processes, a later one in the second. *)
Attempts == [j \in Jobs |-> IF j = j1 THEN p1 ELSE p2]

OneEach == [j \in Jobs |-> CASE j = j1 -> p1 [] j = j2 -> p2 [] OTHER -> p3]

OneTask == [j \in Jobs |-> t1]
=============================================================================
