----------------------------- MODULE MCAvHistory -----------------------------
(***************************************************************************)
(* Small instances of AvHistory: two profiles, one of which brings its     *)
(* input along, and an input linked to the other.                          *)
(***************************************************************************)
EXTENDS AvHistory

Base == [mode |-> 0, sc |-> 0, afe |-> 0, audio |-> "a0", tx |-> "HDMI", itc |-> 0, alt |-> 0, link |-> AV_LAST]
Linked == [Base EXCEPT !.link = "AV3_RGBs"]
LinkConfigs == {Base, Linked}
LinkProfiles == {[n \in Profile |-> IF n = 0 THEN Empty ELSE Used(Linked, 0)]}
LinkLinks == {[i \in Input |-> IF i = "AV2_YPBPR" THEN 1 ELSE 0]}
Signal(sync) == [sync_active |-> sync, totlines |-> 3, progressive |-> TRUE, pcnt_field |-> 5, hsync_width |-> 1]
LinkReadings == {Signal(TRUE), Signal(FALSE)}
ReadBack == [t \in {0} |-> 0] \* all tables are one here
Lines == [progressive \in BOOLEAN |-> IF progressive THEN 3 ELSE 5]
YPbPr == [c \in {"AV1", "AV2", "AV3"} |-> c = "AV2"]
==============================================================================
