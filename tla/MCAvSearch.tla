------------------------------ MODULE MCAvSearch ------------------------------
(***************************************************************************)
(* A small instance of AvSearch: only what the search depends on varies.   *)
(***************************************************************************)
EXTENDS AvSearch

Base == [mode |-> 0, sc |-> 0, afe |-> 0, audio |-> "a0", tx |-> "HDMI", itc |-> 0, alt |-> 0, link |-> AV_LAST]
SearchConfigs == {Base}
SearchProfiles == {[n \in Profile |-> Empty]}
SearchLinks == {[i \in Input |-> 0]}
Signal(sync) == [sync_active |-> sync, totlines |-> 3, progressive |-> TRUE, pcnt_field |-> 5, hsync_width |-> 1]
SearchReadings == {Signal(TRUE), Signal(FALSE)}
Good1 == Signal(TRUE)
Bad1 == Signal(FALSE)
ReadBack == [t \in {0} |-> 0] \* all tables are one here
Lines == [progressive \in BOOLEAN |-> IF progressive THEN 3 ELSE 5]
YPbPr == [c \in {"AV1", "AV2", "AV3"} |-> c = "AV2"]
===============================================================================
