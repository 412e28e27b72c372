-------------------------------- MODULE HdmiChip --------------------------------
(***************************************************************************)
(* The IT6613 HDMI transmitter as its driver sees it                       *)
(* (software/bsp/drivers/src/it6613_drv.c): what each function of the      *)
(* driver leaves in the registers.  An operator takes the registers c and  *)
(* returns them as they are when the function returns.                     *)
(*                                                                         *)
(* The registers are in two banks.  A function that needs the second one   *)
(* selects it, and the first again before it returns, so the bank is       *)
(* not part of the state between two calls.  A packet is one value; a      *)
(* clock is one of the classes the driver's tables know.                   *)
(***************************************************************************)
EXTENDS Integers

VARIABLE tx \* the transmitter's registers

\* Sample rates, as the driver codes them, and the regenerated clock's N for
\* each: the table SetNCTS uses for the two pixel clocks it treats apart
\* (74.175 and 14.835 MHz) and for all others.
Rates == {"32", "44.1", "48", "88.2", "96", "176.4", "192", "other"}
N74175 == [f \in Rates |->
  CASE f = "32" -> 11648 [] f = "44.1" -> 17836 [] f = "48" -> 11648 [] f = "88.2" -> 35672
    [] f = "96" -> 23296 [] f = "176.4" -> 71344 [] f = "192" -> 46592 [] f = "other" -> 0]
N14835 == [f \in Rates |-> IF f \in {"32", "other"} THEN N74175[f] ELSE N74175[f] \div 2]
NDefault == [f \in Rates |->
  CASE f = "32" -> 4096 [] f = "44.1" -> 6272 [] f = "48" -> 6144 [] f = "88.2" -> 12544
    [] f = "96" -> 12288 [] f = "176.4" -> 25088 [] f = "192" -> 24576 [] f = "other" -> 0]
Clocks == {"none", "74.175", "14.835", "usual"}

\* N for a clock and a rate.  A rate the driver does not know gives MCLK / 2000
\* of its code, which is nothing; without a clock it is taken for 48 kHz.
NFor(clk, f) ==
  CASE clk = "74.175" -> N74175[f]
    [] clk = "14.835" -> N14835[f]
    [] clk = "usual"  -> NDefault[f]
    [] clk = "none"   -> IF f = "other" THEN 6144 ELSE NDefault[f]

AllReset == {"aref", "vid", "aud", "hdcp"}
NoFrame == [kind |-> "none"]

\* The registers after the chip's reset pin.
PowerOn ==
  [rst |-> AllReset, afe |-> "off", xp |-> "medium",
   hdmi |-> FALSE, mute |-> FALSE, incol |-> "RGB", csc |-> "bypass",
   avi |-> NoFrame, aviOn |-> FALSE, aud |-> NoFrame, audOn |-> FALSE, gp |-> NoFrame, gpOn |-> FALSE,
   i2s |-> FALSE, n |-> 0, rate |-> "48", div |-> 1, swap |-> FALSE, pixelrep |-> "auto",
   depth |-> 0, ints |-> {}]
--------------------------------------------------------------------------------
(* Start-up and resets. *)

\* Interrupts are unmasked for hot plug, a hanging DDC bus and stable video.
Unmasked == {"hpd", "ddchang", "vidstable"}

InitIT6613(c) ==
  [c EXCEPT !.rst = AllReset, !.afe = "off", !.aviOn = FALSE, !.audOn = FALSE, !.gpOn = FALSE]

DisableIT6613(c) == [c EXCEPT !.rst = AllReset, !.afe = "off"]
DisableVideoOutput(c) == [c EXCEPT !.rst = @ \cup {"vid"}, !.afe = "off"]
DisableAudioOutput(c) == [c EXCEPT !.rst = @ \cup {"aud"}]
--------------------------------------------------------------------------------
(* Video. *)

SetAVMute(c, on) == [c EXCEPT !.mute = on]
SetOutputColorDepthPhase(c, depth) ==
  [c EXCEPT !.depth = IF depth \in {24, 30, 36} THEN depth ELSE 0]

SetInputMode(c, in) == [c EXCEPT !.incol = in]

\* Only RGB is supported at the input.  Which of the matrices is loaded, by
\* colorimetry and range, is left out.
SetCSCScale(c, in, out) ==
  [c EXCEPT !.csc = IF in = "RGB" /\ out \in {"YUV444", "YUV422"} THEN out ELSE "bypass"]

\* The analog part is set up with its driver in reset; then video leaves reset.
SetupAFE(c, level) ==
  [c EXCEPT !.afe = "setup", !.xp = IF level = "high" THEN "high" ELSE "medium",
            !.rst = @ \ {"ref", "vid"}]

FireAFE(c) == [c EXCEPT !.afe = "on"]

\* The driver waits 100 ms for stable video and goes on without it.
EnableVideoOutput(c, level, in, out, hdmi) ==
  LET held   == [c EXCEPT !.rst = AllReset]
      muted  == IF hdmi THEN SetAVMute(held, TRUE) ELSE held
      formed == [SetCSCScale(SetInputMode(muted, in), in, out) EXCEPT !.hdmi = hdmi,
                                                                      !.rst = {"aud", "aref", "hdcp"}]
  IN  FireAFE([SetupAFE(formed, level) EXCEPT !.ints = @ \ {"vidstable"}])

TX_SetPixelRepetition(c, viaInfoframe) ==
  [c EXCEPT !.pixelrep = IF viaInfoframe THEN "auto" ELSE "own"]
--------------------------------------------------------------------------------
(* Packets. *)

EnableAVIInfoFrame(c, frame) == [c EXCEPT !.avi = frame, !.aviOn = TRUE]
DISABLE_AVI_INFOFRM_PKT(c) == [c EXCEPT !.aviOn = FALSE]
EnableAudioInfoFrame(c, frame) == [c EXCEPT !.aud = frame, !.audOn = TRUE]
DISABLE_AUD_INFOFRM_PKT(c) == [c EXCEPT !.audOn = FALSE]
\* One packet of free content, which HDR and VRR share.
EnableGPInfoFrame(c, frame) == [c EXCEPT !.gp = frame, !.gpOn = TRUE]
DISABLE_NULL_PKT(c) == [c EXCEPT !.gpOn = FALSE]

HDMITX_SetAVIInfoFrame(c, vic, color, itc, pixelrep) ==
  EnableAVIInfoFrame(c, [kind |-> "AVI", vic |-> vic, color |-> color, itc |-> itc, pixelrep |-> pixelrep])
HDMITX_SetAudioInfoFrame(c) == EnableAudioInfoFrame(c, [kind |-> "audio"])
HDMITX_SetHDRInfoFrame(c, on) == EnableGPInfoFrame(c, [kind |-> "HDR", on |-> on])
HDMITX_SetVRRInfoFrame(c, on) == EnableGPInfoFrame(c, [kind |-> "VRR", on |-> on])
--------------------------------------------------------------------------------
(* Audio. *)

SetNCTS(c, clk, f) == [c EXCEPT !.n = NFor(clk, f)]

\* The OSSC's own audio set-up: 24-bit stereo, 96 kHz or, with down-sampling,
\* 48 kHz.
EnableAudioOutput4OSSC(c, dw, swapLR) ==
  [c EXCEPT !.n = IF dw THEN 6144 ELSE 12288, !.rate = IF dw THEN "48" ELSE "96",
            !.div = IF dw THEN 2 ELSE 1, !.rst = @ \ {"aud", "aref"},
            !.swap = swapLR, !.i2s = TRUE]

\* SetAudioFormat for samples of 16, 18, 20 or 24 bits.  With S/PDIF the channel
\* is enabled later, when the chip has locked to it.
SetAudioFormat(c, f, spdif) ==
  [c EXCEPT !.rst = @ \ {"aud", "aref"}, !.rate = f, !.i2s = ~ spdif]

EnableAudioOutput(c, clk, f, spdif) ==
  SetAudioFormat(IF spdif THEN [c EXCEPT !.n = 6144] ELSE SetNCTS(c, clk, f), f, spdif)
--------------------------------------------------------------------------------
(* The bus to the sink's EDID. *)

\* A hanging bus is reset with the content protection held in reset.
AbortDDC(c) == [[c EXCEPT !.rst = @ \cup {"hdcp"}] EXCEPT !.rst = c.rst]
ReadEDID(c, hangs) == IF hangs THEN AbortDDC(c) ELSE c
================================================================================
