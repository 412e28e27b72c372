---------------------------- MODULE MCAvController ----------------------------
(***************************************************************************)
(* Small instances of AvController.  Line counts and widths are scaled     *)
(* down: 3 lines make a progressive picture and 5 an interlaced one.       *)
(***************************************************************************)
EXTENDS AvController

Base == [mode |-> 0, sc |-> 0, afe |-> 0, audio |-> "a0", tx |-> "HDMI", itc |-> 0, alt |-> 0, link |-> AV_LAST]
Dvi == [Base EXCEPT !.tx = "DVI", !.itc = 1, !.sc = 1]
Arcade == [Base EXCEPT !.mode = 1, !.afe = 1, !.alt = 1, !.audio = "a1"]
HwConfigs == {Base, Dvi, Arcade, [Base EXCEPT !.mode = 1], [Base EXCEPT !.itc = 1]}

Signal(sync, l, p, c, w) ==
  [sync_active |-> sync, totlines |-> l, progressive |-> p, pcnt_field |-> c, hsync_width |-> w]
P240 == Signal(TRUE, 3, TRUE, 5, 1)
P240Fast == Signal(TRUE, 3, TRUE, 8, 1)
P5 == Signal(TRUE, 5, TRUE, 5, 1)
I480 == Signal(TRUE, 5, FALSE, 6, 1)
Few == Signal(TRUE, 2, TRUE, 5, 1)
NoSync == Signal(FALSE, 3, TRUE, 5, 1)
HwReadings == {P240, P5, I480, Few, NoSync, P240Fast}
HwUnsupported == {[reading |-> I480, mode |-> 1]}

HwProfiles == {[n \in Profile |-> IF n = 0 THEN Empty ELSE Used(Arcade, 1)]}
HwLinks == [Input -> {0}]
ReadBack == [t \in {0, 1} |-> 1]
Lines == [progressive \in BOOLEAN |-> IF progressive THEN 3 ELSE 5]
YPbPr == [c \in {"AV1", "AV2", "AV3"} |-> c = "AV2"]
===============================================================================
