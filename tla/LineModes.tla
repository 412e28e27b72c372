------------------------------- MODULE LineModes --------------------------------
(***************************************************************************)
(* The presets of fw/src/video_modes.c, and how program_mode of            *)
(* fw/av_controller.c comes from a measured signal to a preset, a          *)
(* multiplication of its lines, the clocks and the picture's place.        *)
(*                                                                         *)
(* A flag is a pair: how many lines are put out for one, and in which way. *)
(* Presets are counted from 1.                                             *)
(***************************************************************************)
EXTENDS Integers, Sequences

PT == <<1, "pt">>
L2 == <<2, "2x">>
L2_240x360 == <<2, "240x360">>
L3_GEN_16_9 == <<3, "16_9">>
L3_GEN_4_3 == <<3, "4_3">>
L3_240x360 == <<3, "240x360">>
L4_GEN_4_3 == <<4, "4_3">>
L5_GEN_4_3 == <<5, "4_3">>
L6_GEN_4_3 == <<6, "4_3">>
\* Sampled at the columns of old consoles.
Columns(k) == {<<y, k>> : y \in 2 .. 6}

P(name, group, h_active, v_active, v_hz_x100, h_total, v_total, h_backporch, v_backporch, h_synclen, v_synclen,
  interlaced, flags) ==
  [name |-> name, group |-> group, h_active |-> h_active, v_active |-> v_active, v_hz_x100 |-> v_hz_x100,
   h_total |-> h_total, h_total_adj |-> 0, v_total |-> v_total, h_backporch |-> h_backporch,
   v_backporch |-> v_backporch, h_synclen |-> h_synclen, v_synclen |-> v_synclen, interlaced |-> interlaced,
   sampler_phase |-> 16, ar_h |-> 0, ar_v |-> 0, flags |-> flags]

video_modes_plm_default == <<
  P("1600x240", "240P", 1600, 240, 6000, 2046, 262, 202, 15, 150, 3, 0, {L5_GEN_4_3}),
  P("1280x240", "240P", 1280, 240, 6000, 1560, 262, 170, 15, 72, 3, 0, {L3_GEN_16_9, L4_GEN_4_3}),
  P("960x240", "240P", 960, 240, 6000, 1170, 262, 128, 15, 54, 3, 0, {L3_GEN_4_3, L6_GEN_4_3}),
  P("512x240", "240P", 512, 240, 6000, 682, 262, 77, 14, 50, 3, 0, Columns("512")),
  P("384x240", "240P", 384, 240, 6000, 512, 262, 59, 14, 37, 3, 0, Columns("384")),
  P("320x240", "240P", 320, 240, 6000, 426, 262, 49, 14, 31, 3, 0, Columns("320")),
  P("256x240", "240P", 256, 240, 6000, 341, 262, 39, 14, 25, 3, 0, Columns("256")),
  P("240p", "240P", 720, 240, 6005, 858, 262, 57, 15, 62, 3, 0, {PT, L2}),
  P("1280x288", "288P", 1280, 288, 5000, 1560, 312, 170, 19, 72, 3, 0, {L3_GEN_16_9, L4_GEN_4_3, L6_GEN_4_3}),
  P("960x288", "288P", 960, 288, 5000, 1170, 312, 128, 19, 54, 3, 0, {L3_GEN_4_3, L5_GEN_4_3}),
  P("512x240LB", "288P", 512, 240, 5000, 682, 312, 77, 41, 50, 3, 0, Columns("512")),
  P("384x240LB", "288P", 384, 240, 5000, 512, 312, 59, 41, 37, 3, 0, Columns("384")),
  P("320x240LB", "288P", 320, 240, 5000, 426, 312, 49, 41, 31, 3, 0, Columns("320")),
  P("256x240LB", "288P", 256, 240, 5000, 341, 312, 39, 41, 25, 3, 0, Columns("256")),
  P("288p", "288P", 720, 288, 5008, 864, 312, 69, 19, 63, 3, 0, {PT, L2}),
  P("480x360", "384P", 480, 360, 6000, 600, 375, 63, 10, 38, 3, 0, {PT, L2}),
  P("240x360", "384P", 240, 360, 6000, 300, 375, 32, 10, 18, 3, 0, {L2_240x360, L3_240x360}),
  P("384p", "384P", 496, 384, 5500, 640, 423, 50, 29, 62, 3, 0, {PT, L2}),
  P("1600x400", "384P", 1600, 400, 7000, 2000, 449, 120, 34, 240, 2, 0, {L3_GEN_16_9}),
  P("720x400_70", "384P", 720, 400, 7000, 900, 449, 64, 34, 96, 2, 0, {PT, L2}),
  P("640x400_70", "384P", 640, 400, 7000, 800, 449, 48, 34, 96, 2, 0, {PT, L2}),
  P("640x384", "384P", 640, 384, 5500, 800, 492, 48, 63, 96, 2, 0, {PT, L2}),
  P("480i", "480I", 720, 240, 5994, 858, 525, 57, 15, 62, 3, 1, {PT, L2, L3_GEN_16_9, L4_GEN_4_3}),
  P("1920x480", "480P", 960, 480, 5994, 1287, 525, 150, 30, 93, 6, 0, {L3_GEN_16_9}),
  P("480p", "480P", 720, 480, 5994, 858, 525, 60, 30, 62, 6, 0, {PT, L2}),
  P("640x480_60", "480P", 640, 480, 6000, 800, 525, 48, 33, 96, 2, 0, {PT, L2}),
  P("480x272", "480P", 480, 272, 6000, 858, 525, 177, 134, 62, 6, 0, {PT, L2}),
  P("640x512", "480P", 640, 512, 6000, 800, 568, 48, 34, 96, 6, 0, {PT, L2}),
  P("576i", "576I", 720, 288, 5000, 864, 625, 69, 19, 63, 3, 1, {PT, L2, L3_GEN_16_9, L4_GEN_4_3}),
  P("1920x480LB", "576P", 960, 480, 5000, 1296, 625, 162, 87, 96, 5, 0, {L3_GEN_16_9}),
  P("576p", "576P", 720, 576, 5000, 864, 625, 68, 39, 64, 5, 0, {PT, L2}),
  P("800x600_60", "NONE", 800, 600, 6000, 1056, 628, 88, 23, 128, 4, 0, {PT}),
  P("720p_50", "720P", 1280, 720, 5000, 1980, 750, 220, 20, 40, 5, 0, {PT}),
  P("720p_60", "720P", 1280, 720, 6000, 1650, 750, 220, 20, 40, 5, 0, {PT}),
  P("1024x768", "NONE", 1024, 768, 6000, 1344, 806, 160, 29, 136, 6, 0, {PT}),
  P("1280x960", "NONE", 1280, 960, 6000, 1800, 1000, 312, 36, 112, 3, 0, {PT}),
  P("1280x1024", "NONE", 1280, 1024, 6000, 1688, 1066, 248, 38, 112, 3, 0, {PT}),
  P("640x960i", "1080I", 640, 480, 6000, 800, 1050, 48, 33, 96, 2, 1, {PT, L2}),
  P("1080i_50", "1080I", 1920, 540, 5000, 2640, 1125, 148, 15, 44, 5, 1, {PT, L2}),
  P("1080i_60", "1080I", 1920, 540, 6000, 2200, 1125, 148, 15, 44, 5, 1, {PT, L2}),
  P("1080p_50", "1080P", 1920, 1080, 5000, 2640, 1125, 148, 36, 44, 5, 0, {PT}),
  P("1080p_60", "1080P", 1920, 1080, 6000, 2200, 1125, 148, 36, 44, 5, 0, {PT}),
  P("1600x1200", "NONE", 1600, 1200, 6000, 2160, 1250, 304, 46, 192, 3, 0, {PT}) >>
VIDEO_MODE_COUNT == Len(video_modes_plm_default)

VARIABLES
  tc,               \* the settings the choice depends on
  video_modes_plm,  \* the presets that are not the default ones
  signal,           \* what is measured: [v_total, v_hz_x100, h_synclen, interlaced]
  cm,               \* the current mode: its id and the settings it was programmed for
  vmode             \* how it was programmed, or None

None == [id |-> 0]
Preset(i) == IF i \in DOMAIN video_modes_plm THEN video_modes_plm[i] ELSE video_modes_plm_default[i]
--------------------------------------------------------------------------------
(* get_pure_lm_mode: which preset. *)

Groups576 == {"384P", "480I", "576I", "480P", "576P"}
pm(cc, group) ==
  CASE group \in {"240P", "288P"} -> cc.pm_240p
    [] group = "384P" -> cc.pm_384p
    [] group \in {"480I", "576I"} -> cc.pm_480i
    [] group \in {"480P", "576P"} -> cc.pm_480p
    [] group = "1080I" -> cc.pm_1080i
    [] OTHER -> 0

\* The array is changed on the way: the presets come group by group, and from 384p on
\* some of its entries are fixed.
Ways(k) == <<"4_3", "512", "384", "320", "256">>[k + 1]
valid_lm(cc, group) ==
  LET low == group \in {"240P", "288P"}
      k == pm(cc, group)
  IN  CASE k = 0 -> {PT} \cup (IF cc.pt_mode > 0 THEN {<<5, Ways(cc.pt_mode - 1)>>} ELSE {})
        [] k = 1 -> {L2} \cup (IF cc.l2_mode > 0 THEN {<<2, Ways(cc.l2_mode)>>} ELSE {})
        [] k = 2 -> {IF low /\ cc.l3_mode > 0 THEN <<3, Ways(cc.l3_mode - 1)>> ELSE L3_GEN_16_9}
        [] k = 3 -> {IF low THEN <<4, Ways(cc.l4_mode)>> ELSE IF group = "384P" THEN L2_240x360 ELSE L4_GEN_4_3}
        [] k = 4 -> {IF low THEN <<5, Ways(cc.l5_mode)>> ELSE L3_240x360}
        [] k = 5 -> {<<6, Ways(cc.l6_mode)>>}

Excluded(cc, in, p, i) ==
  \/ /\ p.group = "384P" /\ p.v_total = 449
     /\ video_modes_plm_default[i].v_active = 400
     /\ video_modes_plm_default[i].h_active = (IF cc.s400p_mode = 0 THEN 720 ELSE 640)
  \/ p.name = "480p" /\ (cc.s480p_mode >= 2 \/ (cc.s480p_mode = 0 /\ in.h_synclen > 82))
  \/ p.name = "640x480_60" /\ cc.s480p_mode \in {1, 3}

Offered(cc, in, i) ==
  LET p == Preset(i)
  IN  /\ ~ Excluded(cc, in, p, i)
      /\ valid_lm(cc, p.group) \cap p.flags # {}
      /\ in.interlaced = p.interlaced
Apart(a, b) == IF a > b THEN a - b ELSE b - a

\* One pass over the table, left early when a good preset is followed by a worse one.
NearestSoon(best, cc, in, i) == \* mutant: left as soon as a preset is good
  LET p == Preset(i)
      lines == Apart(in.v_total, p.v_total)
  IN  IF best.done \/ ~ Offered(cc, in, i) THEN best
      ELSE IF lines < best.lines
      THEN [id |-> i, lines |-> lines, hz |-> Apart(in.v_hz_x100, p.v_hz_x100), done |-> lines <= 2]
      ELSE best
Nearest(best, cc, in, i) ==
  LET p == Preset(i)
      lines == Apart(in.v_total, p.v_total)
      hz == Apart(in.v_hz_x100, p.v_hz_x100)
  IN  IF best.done \/ ~ Offered(cc, in, i) THEN best
      ELSE IF \/ lines < best.lines
              \/ p.group \in {"720P", "1080I", "1080P"} /\ lines = best.lines /\ hz < best.hz
      THEN [id |-> i, lines |-> lines, hz |-> hz, done |-> FALSE]
      ELSE [best EXCEPT !.done = best.lines <= 2 /\ lines > best.lines]
FoundPreset(cc, in) ==
  LET best[i \in 0 .. VIDEO_MODE_COUNT] ==
        IF i = 0 THEN [id |-> 1, lines |-> 1000, hz |-> 10000, done |-> FALSE]
        ELSE Nearest(best[i - 1], cc, in, i)
      found == best[VIDEO_MODE_COUNT]
  IN  IF found.lines >= 130 THEN 0 ELSE found.id
--------------------------------------------------------------------------------
(* get_pure_lm_mode: how it is multiplied. *)

Capped(x, max) == IF x > max THEN max ELSE x
\* What the sync pulse cannot take goes to the back porch.
vmode_hv_mult(t, h, v) ==
  LET h_synclen == t.h_synclen * h
      v_synclen == t.v_synclen * v
      bob == t.interlaced = 1 /\ v % 2 = 0
  IN  [t EXCEPT !.h_synclen = Capped(h_synclen, 255),
                !.h_backporch = Capped(t.h_backporch * h + h_synclen - Capped(h_synclen, 255), 511),
                !.h_active = Capped(t.h_active * h, 2560),
                !.h_total = h * t.h_total + (h * t.h_total_adj * 5 + 50) \div 100,
                !.v_synclen = Capped(v_synclen, 15),
                !.v_backporch = Capped(t.v_backporch * v + v_synclen - Capped(v_synclen, 15), 511),
                !.v_active = Capped(t.v_active * v, 1728),
                !.v_total = IF bob THEN t.v_total * (v \div 2) ELSE t.v_total * v,
                !.interlaced = IF bob THEN 0 ELSE t.interlaced]

\* The preset's flag that was asked for; anything else passes through.
LineMode(cc, p) ==
  IF pm(cc, p.group) = 0 THEN PT ELSE CHOOSE lm \in valid_lm(cc, p.group) \cap p.flags : TRUE

\* Twice as many pixels: sampled so, or repeated.
Doubled(lm, p) ==
  \/ lm = L2 /\ (p.group \in {"384P", "480P", "576P"} \/ (p.group = "1080I" /\ p.h_total < 1200))
  \/ lm \in {L3_GEN_16_9, L4_GEN_4_3} /\ p.group \in {"480I", "576I"}
Upsampled(cc, lm, p) ==
  IF lm = PT THEN cc.pt_mode = 1 /\ p.group \in Groups576 ELSE Doubled(lm, p) /\ cc.upsample2x = 1

\* Each column is sampled h_skip more times than it is used.
Skipped(lm) ==
  CASE lm[2] = "512" -> <<1, 1, 1, 2, 1>>[lm[1] - 1]
    [] lm[2] = "384" -> <<1, 2, 2, 3, 2>>[lm[1] - 1]
    [] lm[2] = "320" -> <<1, 3, 3, 4, 2>>[lm[1] - 1]
    [] lm[2] = "256" -> <<2, 4, 4, 5, 3>>[lm[1] - 1]
    [] lm = L2_240x360 -> 4
    [] lm = L3_240x360 -> 3
    [] OTHER -> 0
\* What passes through is repeated until it has the 25 MHz that HDMI needs.
PassedThrough(cc, p, t) ==
  LET first == IF cc.pt_mode >= 2 /\ p.group \in {"240P", "288P"} THEN cc.pt_mode ELSE 0
      Clock(k) == (((t.v_hz_x100 * t.v_total) \div 100) * t.h_total * (first + 1) * 2^k) \div 2^t.interlaced
  IN  (first + 1) * 2^(CHOOSE k \in 0 .. 5 : Clock(k) >= 25000000 /\ (k > 0 => Clock(k - 1) < 25000000)) - 1

ClockMultUnskipped(lm, x_rpt, h_skip) == IF lm = L3_GEN_4_3 THEN 4 ELSE (x_rpt + 1) * lm[1] \* mutant
ClockMult(lm, x_rpt, h_skip) == IF lm = L3_GEN_4_3 THEN 4 ELSE ((x_rpt + 1) * lm[1]) \div (h_skip + 1)

\* Afterwards some columns are shown narrower than they were counted.
Narrower(cc, lm, x_rpt) ==
  CASE lm[2] = "256" /\ lm[1] \in {2, 4, 5} -> x_rpt - cc.ar_256col
    [] lm[2] = "256" /\ lm[1] \in {3, 6} -> IF cc.ar_256col = 1 THEN 2 ELSE 3
    [] lm \in {<<3, "320">>, L2_240x360, L3_240x360} -> x_rpt - 1
    [] OTHER -> x_rpt

\* The picture in the output, of which the lines times five have a format of their own.
Placed(cc, lm, p, out, in, x_rpt, x_wide) ==
  LET y_rpt == lm[1] - 1
      x_size == IF lm = L3_GEN_4_3 THEN x_wide ELSE (in.h_active - 2 * p.ar_h) * (x_rpt + 1)
      y_size == out.v_active - 2 * p.ar_v * (y_rpt + 1)
      wide == y_rpt = 4 /\ ~ (lm = L5_GEN_4_3 /\ p.group = "288P") /\ cc.l5_fmt # 1
      low == wide /\ cc.l5_fmt = 0
      y_start_lb == (out.v_active - 1080) \div 10
      o == IF ~ wide THEN out
           ELSE [out EXCEPT !.h_synclen = ((out.h_total - 1920) \div 4) % 256,
                            !.h_backporch = ((out.h_total - 1920) \div 2) % 65536, !.h_active = 1920]
      o5 == IF ~ low THEN o
            ELSE [o EXCEPT !.v_backporch = out.v_backporch + 5 * y_start_lb, !.v_active = 1080]
  IN  [out |-> o5,
       x_offset |-> ((IF wide THEN 1920 ELSE out.h_active) - x_size) \div 2, x_size |-> x_size % 65536,
       y_offset |-> (out.v_active - y_size) \div 2,
       y_size |-> IF low THEN 1080 - 2 * p.ar_v * (y_rpt + 1) ELSE y_size]

get_pure_lm_mode(cc, s, id) ==
  LET p == Preset(id)
      lm == LineMode(cc, p)
      vm_in == [p EXCEPT !.v_total = s.v_total, !.v_hz_x100 = s.v_hz_x100, !.interlaced = s.interlaced]
      in == IF Upsampled(cc, lm, p) THEN vmode_hv_mult(vm_in, 2, 1) ELSE vm_in
      h_skip == IF lm = PT THEN PassedThrough(cc, p, in) ELSE Skipped(lm)
      x_rpt == IF Doubled(lm, p) /\ cc.upsample2x = 0 THEN 1 ELSE h_skip
      third == [vm_in EXCEPT !.h_synclen = @ \div 3, !.h_backporch = @ \div 3, !.h_active = @ \div 3,
                             !.h_total = @ \div 3, !.h_total_adj = 0]
      out == IF lm = L3_GEN_4_3 THEN vmode_hv_mult(third, 4, 3)
             ELSE IF lm = PT THEN vmode_hv_mult(in, x_rpt + 1, 1)
             ELSE vmode_hv_mult(vm_in, IF Upsampled(cc, lm, p) THEN 2 ELSE x_rpt + 1, lm[1])
      shifted == IF lm # L2_240x360 THEN out
                 ELSE [out EXCEPT !.h_active = @ + 80, !.h_backporch = (@ - 40) % 65536]
  IN  [id |-> id, lm |-> lm, in |-> in, h_skip |-> h_skip,
       picture |-> Placed(cc, lm, p, shifted, in, Narrower(cc, lm, x_rpt), p.h_active - 2 * p.ar_h),
       si_pclk_mult |-> ClockMult(lm, x_rpt, h_skip), pll_h_total |-> 0, pclk_o |-> 0,
       tx_pixelrep |-> IF \/ lm = L5_GEN_4_3 /\ p.group = "288P"
                          \/ lm = L3_GEN_16_9 /\ p.group \in {"480P", "576P"}
                          \/ lm = L3_240x360 \/ lm[1] = 6 THEN 1 ELSE 0]
--------------------------------------------------------------------------------
(* program_mode *)

h_hz(s) == (s.v_hz_x100 * s.v_total) \div (100 * (1 + s.interlaced))

\* The sampling clock is doubled as long as the multiplication can be halved.
Sampling(m, s) ==
  LET once == (m.h_skip + 1) * m.in.h_total + ((m.h_skip + 1) * m.in.h_total_adj * 5 + 50) \div 100
      More(k) == h_hz(s) * once * 2^k < 25000000 /\ (m.si_pclk_mult \div 2^k) % 2 = 0
      k == CHOOSE k \in 0 .. 4 : ~ More(k) /\ \A j \in 0 .. k - 1 : More(j)
  IN  [m EXCEPT !.h_skip = (@ + 1) * 2^k - 1, !.si_pclk_mult = @ \div 2^k, !.pll_h_total = once * 2^k]
calculate_pclk(m, s) == m.si_pclk_mult * h_hz(s) * m.pll_h_total * (m.tx_pixelrep + 1)

program_mode(s, again) ==
  /\ s # signal \/ cm.cc # tc \/ again
  /\ signal' = s
  /\ LET id == FoundPreset(tc, s)
         m == Sampling(get_pure_lm_mode(tc, s, id), s)
     IN  IF id = 0 THEN cm' = [id |-> cm.id, cc |-> tc] /\ vmode' = None
         ELSE cm' = [id |-> id, cc |-> tc] /\ vmode' = [m EXCEPT !.pclk_o = calculate_pclk(m, s)]
  /\ UNCHANGED <<tc, video_modes_plm>>
--------------------------------------------------------------------------------
(* The preset that is programmed is the nearest: of those that the         *)
(* settings allow for this kind of signal, none differs in fewer lines;    *)
(* among equals it is the first, unless one of 720p or more comes later    *)
(* whose refresh rate is nearer.  None is programmed only if all differ by *)
(* 130 lines or more.  get_pure_lm_mode looks through the table once and   *)
(* stops early.                                                            *)
NearestPreset ==
  LET Lines(i) == Apart(signal.v_total, Preset(i).v_total)
      Rate(i) == Apart(signal.v_hz_x100, Preset(i).v_hz_x100)
      Nearer(i, j) == Preset(i).group \in {"720P", "1080I", "1080P"} /\ Rate(i) < Rate(j)
      Before(i, j) == \/ Lines(i) < Lines(j)
                      \/ Lines(i) = Lines(j) /\ ((i < j /\ ~ Nearer(j, i)) \/ (i > j /\ Nearer(i, j)))
      Fits(i) == Offered(cm.cc, signal, i)
  IN  IF vmode = None THEN signal.v_total > 0 => \A i \in 1 .. VIDEO_MODE_COUNT : Lines(i) < 130 => ~ Fits(i)
      ELSE Fits(vmode.id) /\ \A i \in 1 .. VIDEO_MODE_COUNT : Before(i, vmode.id) => ~ Fits(i)

(* The output is locked to the input: as many output clocks pass in a      *)
(* frame as the multiplied sampling clock gives in a frame of the input,   *)
(* however lines and columns were multiplied, repeated or skipped.         *)
(* Fractions of a sampling rate and thirds of one that is no multiple of   *)
(* three are rounded.                                                      *)
Locked ==
  LET m == vmode
      out == m.picture.out
      frame == out.h_total * out.v_total * (1 + signal.interlaced)
  IN  m.in.h_total_adj = 0 /\ (m.lm = L3_GEN_4_3 => m.in.h_total % 3 = 0)
        => frame = m.pll_h_total * m.si_pclk_mult * signal.v_total * (1 + out.interlaced)

(* The picture lies inside the active part of the output, and that with    *)
(* its porches inside the line and, if the signal has the lines of the     *)
(* preset, inside the frame.                                               *)
PictureFits ==
  LET p == vmode.picture
      o == p.out
  IN  /\ p.x_offset >= 0 /\ p.x_offset + p.x_size <= o.h_active
      /\ p.y_offset >= 0 /\ p.y_offset + p.y_size <= o.v_active
      /\ o.h_synclen + o.h_backporch + o.h_active <= o.h_total
      /\ signal.v_total >= Preset(vmode.id).v_total =>
           o.v_synclen + o.v_backporch + o.v_active <= o.v_total \div (1 + o.interlaced)

OutputFollowsInput == vmode # None => Locked /\ PictureFits
================================================================================
