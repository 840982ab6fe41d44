----------------------------- MODULE MCDataset ------------------------------
(***************************************************************************)
(* A small instance of Dataset for TLC: two regions, one reporting in the  *)
(* first half of the day and one in the second, and a monitor that was     *)
(* removed on the first day.                                               *)
(***************************************************************************)
EXTENDS Dataset

MCSubmissions ==
    {row \in Row : /\ row.time = (IF row.region = "r1" THEN 1 ELSE 2)
                   /\ row.monitor \in RemovedMonitors => row.day = 0 /\ row.region = "r1"}
=============================================================================
