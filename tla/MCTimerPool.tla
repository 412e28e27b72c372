------------------------------ MODULE MCTimerPool ------------------------------
(***************************************************************************)
(* TimerPromise with small constants.                                      *)
(***************************************************************************)
EXTENDS TimerPromise

\* The end of the bounded clock, inside the first epoch of its low word: every
\* deadline fits in the low word.
FirstEpochEnd == [h \in Half |-> IF h = "hi" THEN 0 ELSE 5]
================================================================================
