-------------------------- MODULE MCTaskCollection --------------------------
(* Values for TLC: two tasks with one target, one with another, and one      *)
(* without an output.                                                        *)
EXTENDS TaskCollection
CONSTANTS d1, d2, e, v, f, g
MCTasks == {d1, d2, e, v}
MCWriters == {d1, d2, e}
MCFiles == {f, g}
MCTarget == [t \in MCWriters |-> IF t = d2 THEN g ELSE f]
MCKind == [t \in MCTasks |->
    CASE t = e -> "encrypt" [] t = v -> "detached" [] OTHER -> "decrypt"]
=============================================================================
