------------------------------- MODULE MCParts ---------------------------------
(***************************************************************************)
(* Parts of the firmware that do not meet: the SD card, the volume         *)
(* exported to it, the flash chip, the chips of the front end, the PLL,    *)
(* the menu with the presets, the choice of a mode under many settings,    *)
(* and the HDMI transmitter under each of its two users, the firmware and  *)
(* the driver's own device loop.  user says which part is explored; the    *)
(* others are at rest.                                                     *)
(***************************************************************************)
EXTENDS HdmiTx, HdmiLoop, SdCard, Fat16, NorFlash, FrontEnd, Menu, PllReconfig, TLC

VARIABLE user

Old == [mmc |-> FALSE, scr |-> "1.0", hc |-> FALSE, wide |-> FALSE, hs |-> FALSE, polls |-> 0, blocks |-> 4]
Usual == [Old EXCEPT !.scr = "2", !.wide = TRUE, !.hs = TRUE, !.polls = 1]
Large == [Usual EXCEPT !.hc = TRUE, !.polls = 0, !.blocks = 8192]
Slow == [Usual EXCEPT !.polls = 2]
Mmc == [Old EXCEPT !.mmc = TRUE]
MCCards == {Old, Usual, Large, Slow, Mmc}
MCRequests == {[start |-> 1, full |-> 3, part |-> 0], [start |-> 0, full |-> 1, part |-> 1],
               [start |-> 3, full |-> 0, part |-> 1], [start |-> 3, full |-> 2, part |-> 0]}

MCSectors == 0 .. 3

MCValues == [two |-> {0, 2}, five |-> {5, 31}]
Sdtv == [type |-> "SDTV", rate |-> 858, pixs |-> 858, refclks |-> 1716, divide |-> TRUE,
         ref |-> 30, offset |-> 0, changed |-> TRUE]
MCModes == {Sdtv, [Sdtv EXCEPT !.offset = -50, !.divide = FALSE, !.changed = FALSE],
            [Sdtv EXCEPT !.type = "HDTV", !.rate = 2200, !.pixs = 2200, !.refclks = 400, !.ref = 250, !.offset = -80],
            [Sdtv EXCEPT !.type = "PC", !.rate = 1056, !.pixs = 1056, !.refclks = 712, !.ref = -3]}

Plainest == [pm_240p |-> 0, pm_384p |-> 0, pm_480i |-> 0, pm_480p |-> 0, pm_1080i |-> 0, pt_mode |-> 0, l2_mode |-> 0,
             l3_mode |-> 0, l4_mode |-> 0, l5_mode |-> 0, l6_mode |-> 0, l5_fmt |-> 0, ar_256col |-> 0,
             s480p_mode |-> 0, s400p_mode |-> 0, upsample2x |-> 0]
MCOutputModes == {[vic |-> 0, pixr |-> FALSE], [vic |-> 6, pixr |-> TRUE]}
MCSinks == {[blocks |-> 1, cea |-> TRUE, oui |-> "hdmi", audio |-> TRUE],
            [blocks |-> 0, cea |-> FALSE, oui |-> "none", audio |-> FALSE]}

MCProfile == [Plainest EXCEPT !.pm_240p = 4, !.l5_mode = 1]
MCTable == 5 :> [video_modes_plm_default[5] EXCEPT !.h_total = @ + 1]

\* Every multiplication, way and format; the settings that do not meet are set together.
AtMost(a, max) == IF a < max THEN a ELSE max
Settings(lines, way, x2, fmt, narrow, s480) ==
  [pm_240p |-> lines, pm_384p |-> AtMost(lines, 4), pm_480i |-> AtMost(lines, 3), pm_480p |-> AtMost(lines, 2),
   pm_1080i |-> AtMost(lines, 1), pt_mode |-> way, l2_mode |-> AtMost(way, 4), l3_mode |-> way,
   l4_mode |-> AtMost(way, 4), l5_mode |-> AtMost(way, 4), l6_mode |-> AtMost(way, 4), l5_fmt |-> fmt,
   ar_256col |-> narrow, s480p_mode |-> s480, s400p_mode |-> s480 % 2, upsample2x |-> x2]
MCSettings ==
  {Settings(s[1], s[2], s[3], s[4], s[5], s[6]) :
     s \in {t \in (0 .. 5) \X (0 .. 5) \X {0, 1} \X (0 .. 2) \X {0, 1} \X (0 .. 3) :
              /\ t[4] # 0 => t[1] = 4
              /\ t[5] # 0 => t[2] >= 4
              /\ t[6] # 0 => t[2] <= 1 /\ t[3] = 0 /\ t[1] <= 2}}
Signal(v_total, v_hz_x100, interlaced, h_synclen) ==
  [v_total |-> v_total, v_hz_x100 |-> v_hz_x100, interlaced |-> interlaced, h_synclen |-> h_synclen]
NoSignal == Signal(0, 6000, 0, 0)
Console == Signal(262, 6000, 0, 20)
MCSignals ==
  {Console, Signal(263, 6010, 0, 20), Signal(312, 5000, 0, 20), Signal(375, 6000, 0, 20), Signal(423, 5500, 0, 20),
   Signal(449, 7000, 0, 20), Signal(525, 5994, 1, 20), Signal(525, 5994, 0, 40), Signal(525, 5994, 0, 90),
   Signal(567, 6000, 0, 90), Signal(625, 5000, 1, 20), Signal(625, 5000, 0, 20), Signal(627, 5994, 0, 90),
   Signal(689, 5000, 0, 20), Signal(689, 6000, 0, 20), Signal(700, 6000, 0, 20), Signal(750, 6000, 0, 20),
   Signal(750, 5000, 0, 20), Signal(880, 6000, 0, 20),
   Signal(1050, 5994, 1, 20), Signal(1125, 6000, 1, 20), Signal(1125, 5000, 1, 20), Signal(1125, 6000, 0, 20),
   Signal(1066, 6000, 0, 20), Signal(1400, 6000, 0, 20)}

otherVars == <<vars, fatVars, norVars, feVars, pllVars>>
txVars == <<tx, ossc, devloop>>

MCInit ==
  /\ user \in {"sd", "fat", "flash", "chips", "pll", "menu", "modes", "ossc", "loop"}
  /\ signal = NoSignal /\ cm = [id |-> 1, cc |-> Plainest]
  /\ Init /\ FatInit /\ NorInit /\ FeInit /\ PllInit /\ MenuInit
  /\ IF user = "loop" THEN LoopInit /\ OsscFirst /\ step = "off" ELSE OsscInit /\ LoopFirst
  /\ tc \in IF user = "modes" THEN MCSettings ELSE {Plainest}
  /\ user # "sd" => slot = Inserted(Empty)
  /\ user # "chips" => oled = "none" /\ pcm1862_active
  /\ user # "menu" => video_modes_plm = <<>>
MCNext ==
  \/ user = "sd" /\ Next /\ UNCHANGED <<fatVars, norVars, feVars, pllVars, menuVars, txVars>>
  \/ user = "fat" /\ FatNext /\ UNCHANGED <<vars, norVars, feVars, pllVars, menuVars, txVars>>
  \/ user = "flash" /\ NorNext /\ UNCHANGED <<vars, fatVars, feVars, pllVars, menuVars, txVars>>
  \/ user = "chips" /\ FeNext /\ UNCHANGED <<vars, fatVars, norVars, pllVars, menuVars, txVars>>
  \/ user = "pll" /\ PllNext /\ UNCHANGED <<vars, fatVars, norVars, feVars, menuVars, txVars>>
  \/ user = "menu" /\ MenuNext({Console}) /\ UNCHANGED <<otherVars, txVars>>
  \* One programming for each of the settings and signals.
  \/ user = "modes" /\ ModeChange(IF signal = NoSignal THEN MCSignals ELSE {}) /\ UNCHANGED <<otherVars, txVars>>
  \/ user = "ossc" /\ OsscNext /\ UNCHANGED <<otherVars, menuVars, devloop>>
  \/ user = "loop" /\ LoopNext /\ UNCHANGED <<otherVars, menuVars, ossc>>
MCSpec == MCInit /\ [][MCNext /\ UNCHANGED user]_<<otherVars, menuVars, txVars, user>>
================================================================================
