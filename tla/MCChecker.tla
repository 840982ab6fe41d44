----------------------------- MODULE MCChecker ------------------------------
(***************************************************************************)
(* Small instances of Checker for TLC: one slot, one monitor checked every *)
(* minute and one checked every other minute.                              *)
(***************************************************************************)
EXTENDS Checker

MCInterval == [m \in {"every", "other"} |-> IF m = "every" THEN 1 ELSE 2]

\* The server assigns the checker both monitors, one of them, or none.
Assigned == {{"every", "other"}, {"other"}, {}}
=============================================================================
