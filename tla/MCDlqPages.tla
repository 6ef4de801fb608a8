----------------------------- MODULE MCDlqPages -----------------------------
(* A small instance of DlqPages for TLC: five jobs, created in two ticks   *)
(* of the clock, with ids that do not follow the time.                     *)
EXTENDS DlqPages

FiveJobs == 11..15
TwoTicks == [j \in FiveJobs |-> IF j \in {11, 13, 14} THEN 2 ELSE 1]
=============================================================================
