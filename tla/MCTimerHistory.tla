----------------------------- MODULE MCTimerHistory -----------------------------
(***************************************************************************)
(* TimerHistory with a clock that runs into its second epoch.              *)
(***************************************************************************)
EXTENDS TimerHistory

SecondEpochEnd == [h \in Half |-> IF h = "hi" THEN 1 ELSE 3]
================================================================================
