------------------------------- MODULE MCDisplay -------------------------------
(***************************************************************************)
(* Display with short times: a unit is the 150 ms of the LED, and the      *)
(* other times keep their order, the status shorter than the statistics    *)
(* page.                                                                   *)
(***************************************************************************)
EXTENDS Display

\* The switch of osd_status has no case for 3 and leaves the time 0.
OsdTimes == [i \in 0 .. 3 |-> CASE i = 0 -> 1 [] i = 1 -> 2 [] i = 2 -> 4 [] OTHER -> 0]
LcdTimes == [i \in 0 .. 3 |-> CASE i = 0 -> 0 [] i = 1 -> 1 [] i = 2 -> 3 [] OTHER -> 6]

\* TimeoutsArmed for the OLED without its exception: false once the statistics page has
\* been taken away while the main program was writing to the display.
OledGoesOff == Idle /\ has_sh1107 /\ lit /\ lcd_bl_timeout # 0 => Pending("lcd_off") # {}
===============================================================================
