-------------------------------- MODULE HdmiLoop --------------------------------
(***************************************************************************)
(* The driver's own application interface and device loop                  *)
(* (bsp/drivers/src/it6613_HDMI_TX.c, it6613_sys.c, it6613_edid.c): hot    *)
(* plug, the sink's EDID, the output and the audio channel.  CheckHDMITX   *)
(* reads status, interrupts and audio one after the other while sinks come *)
(* and go; the application calls the interface between two passes.         *)
(***************************************************************************)
EXTENDS HdmiChip

CONSTANTS
  Sinks,     \* what may be plugged in: [blocks, cea, oui, audio], see ParseEDID
  Timings,   \* bound: the timings the application asks for
  Colors,    \* bound: the output colours it asks for
  Freqs      \* sample rates of the audio source, in Hz

VARIABLES
  drv,       \* Instance[0]: bHPD, TMDSClock, bAudFs; bHDMIMode, bAudioEnable, bEnableAudioChannel
  cap,       \* RxCapability, without what only the queries about colours read
  want,      \* the output asked for: VIC, bOutputColorMode, pixel clock; bChangeMode
  PreHPD,    \* and TX_HDP, which is assigned with it
  sink,      \* the cable's other end; its receiver is sensed as long as it is plugged in
  pass       \* the step of the pass, and what it has read: HPD and HPDChange

devloop == <<drv, cap, want, PreHPD, sink, pass>>

NoSink == [blocks |-> 0, cea |-> FALSE, oui |-> "unplugged", audio |-> FALSE]
NoCap == [Valid |-> FALSE, ValidHDMI |-> FALSE, oui |-> "none", audio |-> FALSE]
NoPass == [step |-> "idle", HPD |-> FALSE, change |-> FALSE]

LoopFirst ==
  /\ drv = [bHPD |-> FALSE, clk |-> "none", fs |-> "48", hdmi |-> FALSE, audio |-> FALSE, chan |-> FALSE]
  /\ cap = NoCap
  /\ want = [vic |-> 0, color |-> "RGB", level |-> "medium", clk |-> "none", changed |-> FALSE]
  /\ PreHPD = FALSE
  /\ sink = NoSink
  /\ pass = NoPass
LoopInit == tx = InitIT6613(PowerOn) /\ LoopFirst
--------------------------------------------------------------------------------
(* What is asked for. *)

\* The pixel clock of a VIC, in kHz, with pixels repeated at 480i and 576i.
PixelClock(v) ==
  CASE v = 1 -> 25000 [] v \in {2, 3, 17, 18} -> 27000 [] v \in {4, 5, 19, 20} -> 74250
    [] v \in {6, 7, 21, 22} -> 13500 [] v \in {16, 31} -> 148500
KnownVIC == 1 .. 7 \cup 16 .. 22 \cup {31}
Repeats(v) == v \in {6, 7, 21, 22}

\* SetupAFE knows two levels: TMDS clocks above 80 MHz, and the others.
Level(v) == IF PixelClock(v) * (IF Repeats(v) THEN 2 ELSE 1) > 80000 THEN "high" ELSE "medium"

\* HDMITX_ChangeDisplayOption: taken note of, to take effect in the device loop.
\* An unknown timing cancels the change.
ChangeDisplayOption(v, color) ==
  want' = IF v \notin KnownVIC THEN [want EXCEPT !.vic = 0, !.changed = FALSE]
          ELSE [vic |-> v, color |-> color, level |-> Level(v), clk |-> "usual", changed |-> TRUE]

\* HDMITX_SetColorSpace, for RGB at the input, does not ask for a change.
SetColorSpace(out) == want' = [want EXCEPT !.color = out]

\* HDMITX_SetOutput: video, and in HDMI mode the frames and audio.  s are the
\* registers and the driver's variables, of which it returns the new values.
SetOutput(s) ==
  LET up  == EnableVideoOutput(s.tx, want.level, "RGB", want.color, s.drv.hdmi)
      avi == HDMITX_SetAVIInfoFrame(up, want.vic, want.color, FALSE, Repeats(want.vic))
      aud == HDMITX_SetAudioInfoFrame(EnableAudioOutput(avi, want.clk, "48", FALSE))
      sounds == s.drv.hdmi /\ s.drv.audio
  IN  [tx  |-> SetAVMute(IF sounds THEN aud ELSE IF s.drv.hdmi THEN avi ELSE up, FALSE),
       drv |-> IF sounds THEN [s.drv EXCEPT !.clk = want.clk, !.fs = "48"] ELSE s.drv]

Now == [tx |-> tx, drv |-> drv]
Gives(s) == tx' = s.tx /\ drv' = s.drv
Output(s) == Gives(SetOutput(s)) /\ want' = [want EXCEPT !.changed = FALSE]

\* The application has chosen a timing before it uses the output.
Application ==
  /\ pass.step = "idle"
  /\ \/ (\E v \in Timings, color \in Colors : ChangeDisplayOption(v, color)) /\ UNCHANGED <<tx, drv>>
     \/ (\E out \in Colors : SetColorSpace(out)) /\ UNCHANGED <<tx, drv>>
     \/ want.vic # 0 /\ Output(Now) \* HDMITX_EnableVideoOutput
     \/ tx' = DisableVideoOutput(tx) /\ UNCHANGED <<drv, want>>
     \/ \* EnableAudioOutput, which the driver's header offers for S/PDIF
        /\ want.vic # 0
        /\ tx' = EnableAudioOutput(tx, want.clk, "48", TRUE)
        /\ drv' = [drv EXCEPT !.clk = want.clk, !.fs = "48"]
        /\ UNCHANGED want
  /\ UNCHANGED <<cap, PreHPD, sink, pass>>
--------------------------------------------------------------------------------
(* The sink and the source of audio. *)

\* The plug changes, or video becomes stable; the interrupt is latched.
Raise(i) == tx' = [tx EXCEPT !.ints = @ \cup {i}]

Environment ==
  /\ \/ sink = NoSink /\ sink' \in Sinks /\ Raise("hpd")
     \/ sink # NoSink /\ sink' = NoSink /\ Raise("hpd")
     \/ "vid" \notin tx.rst /\ UNCHANGED sink /\ Raise("vidstable")
  /\ UNCHANGED <<drv, cap, want, PreHPD, pass>>

Detected == sink # NoSink
--------------------------------------------------------------------------------
(* Audio follows the clock of its source. *)

\* AutoAdjustAudio takes the rate from the counted CTS; up to 31 kHz passes for
\* 44.1 kHz, and so does everything while N is 0.
RateOf(f) ==
  CASE f > 31000 /\ f <= 38050 -> "32"
    [] ~ (f > 31000 /\ f <= 38050) /\ f < 46050 -> "44.1"
    [] f >= 46050 /\ f < 68100 -> "48"
    [] f >= 68100 /\ f < 92100 -> "88.2"
    [] f >= 92100 /\ f < 136200 -> "96"
    [] f >= 136200 /\ f < 184200 -> "176.4"
    [] f >= 184200 /\ f < 240200 -> "192"
    [] f >= 240200 -> "other"

AudioOnAsBefore(s, f, counted) == \* mutant
  [tx |-> [s.tx EXCEPT !.i2s = TRUE, !.rate = RateOf(f)], drv |-> [s.drv EXCEPT !.fs = RateOf(f), !.chan = TRUE]]
\* The channel is enabled at the rate measured; counted is FALSE if CTS reads 0.
AudioOn(s, f, counted) ==
  LET first == SetNCTS(s.tx, s.drv.clk, s.drv.fs)
      rate  == IF counted THEN RateOf(IF first.n = 0 THEN 0 ELSE f) ELSE s.drv.fs
      tuned == IF counted THEN [SetNCTS(first, s.drv.clk, rate) EXCEPT !.rate = rate] ELSE first
  IN  [tx |-> [tuned EXCEPT !.i2s = TRUE], drv |-> [s.drv EXCEPT !.fs = rate, !.chan = TRUE]]

AudioOff(s) == [tx  |-> IF s.drv.chan THEN [s.tx EXCEPT !.i2s = FALSE] ELSE s.tx,
                drv |-> [s.drv EXCEPT !.chan = FALSE]]

\* SetupAudioChannel, as the lock to the source's clock is found: on when there is a
\* lock, off when it is lost, or as before.
SetupAudioChannel(s) ==
  LET enabled == s.tx.rst \cap {"aud", "aref"} = {}
  IN  {s}
        \cup (IF enabled /\ ~ s.tx.i2s THEN {AudioOn(s, f, counted) : f \in Freqs, counted \in BOOLEAN} ELSE {})
        \cup (IF enabled /\ s.tx.i2s THEN {AudioOff(s)} ELSE {})
--------------------------------------------------------------------------------
(* A pass of the device loop: CheckHDMITX, read by read, and what follows. *)

Forget(c) == [c EXCEPT !.Valid = FALSE, !.ValidHDMI = FALSE]

Seen(d, HPD) == [d EXCEPT !.bHPD = HPD]

\* The rest of HDMITX_DevLoopProc, from the registers c on: the audio channel;
\* nothing more if a sink came back at once; a new sink or none; or the change of
\* mode asked for.
Rest(c, HPD, change) ==
  \E s \in SetupAudioChannel([tx |-> c, drv |-> Seen(drv, HPD)]) :
    IF HPD = PreHPD /\ change
    THEN pass' = NoPass /\ Gives(s) /\ UNCHANGED <<cap, want, PreHPD>>
    ELSE /\ PreHPD' = HPD
         /\ pass' = IF change /\ HPD THEN [NoPass EXCEPT !.step = "edid"] ELSE NoPass
         /\ IF ~ change /\ want.changed /\ HPD THEN Output(s) ELSE Gives(s) /\ UNCHANGED want
         /\ IF change /\ ~ HPD THEN cap' = Forget(cap) ELSE UNCHANGED cap

\* The status is read: is a sink there, and is an interrupt active?  Without one
\* the sink is compared with the last pass.
ReadStatus ==
  /\ pass.step = "idle"
  /\ LET change == Detected # drv.bHPD
         c == IF change /\ ~ Detected THEN [tx EXCEPT !.afe = "off"] ELSE tx
     IN  IF tx.ints \cap Unmasked = {} THEN Rest(c, Detected, change)
         ELSE /\ pass' = [step |-> "int1", HPD |-> Detected, change |-> FALSE]
              /\ tx' = tx
              /\ UNCHANGED <<drv, cap, want, PreHPD>>
  /\ UNCHANGED sink

\* A plug interrupt without a sink resets the chip.
ReadInt1 ==
  /\ pass.step = "int1"
  /\ LET change == "hpd" \in tx.ints
     IN  /\ pass' = [pass EXCEPT !.step = "int3", !.change = change]
         /\ tx' = IF change /\ ~ pass.HPD THEN DisableIT6613(tx) ELSE tx
  /\ UNCHANGED <<drv, cap, want, PreHPD, sink>>

\* Video that has become stable goes on the air, if it still is.
ReadInt3 ==
  /\ pass.step = "int3" /\ pass' = [pass EXCEPT !.step = "clear"]
  /\ \E stable \in BOOLEAN :
       /\ stable => "vid" \notin tx.rst
       /\ tx' = IF "vidstable" \in tx.ints /\ stable THEN FireAFE(tx) ELSE tx
  /\ UNCHANGED <<drv, cap, want, PreHPD, sink>>

\* All interrupts are cleared, those that came since included.
ClearInts ==
  /\ pass.step = "clear"
  /\ Rest([tx EXCEPT !.ints = {}], pass.HPD, pass.change)
  /\ UNCHANGED sink
--------------------------------------------------------------------------------
(* The sink's capabilities. *)

\* How reading a block of EDID ends: not at all, with a wrong sum, or well.
Reading == {"failed", "bad", "good"}

\* ParseCEAEDID: the identifier of a vendor block, if there is one, and whether the
\* sink takes audio.
ParseCEAEDID(c, good) ==
  IF ~ good THEN c
  ELSE LET oui == IF sink.oui = "none" THEN c.oui ELSE sink.oui
       IN  [c EXCEPT !.audio = sink.audio, !.oui = oui,
                     !.ValidHDMI = IF sink.oui = "none" THEN @ ELSE oui = "hdmi"]

\* ParseEDID, with one extension block at most; err keeps what the last
\* call returned, and reading and parsing disagree in what means success: an
\* extension that cannot be read makes a valid EDID, one that is not CEA does not.
ParseEDID(base, extension) ==
  LET parsed == ParseCEAEDID(cap, extension = "good")
  IN  IF base # "good" THEN [cap EXCEPT !.Valid = FALSE]
      ELSE IF sink.blocks = 0 \/ extension = "failed" THEN [cap EXCEPT !.Valid = TRUE]
      ELSE IF ~ sink.cea THEN [cap EXCEPT !.Valid = FALSE]
      ELSE IF extension = "good" THEN [parsed EXCEPT !.Valid = TRUE]
      ELSE [parsed EXCEPT !.Valid = FALSE, !.ValidHDMI = cap.oui = "hdmi"]

\* A new sink: HDMI, or DVI; without a valid EDID it is taken for HDMI.
NewSink ==
  /\ pass.step = "edid" /\ pass' = NoPass
  /\ \E base, extension \in Reading :
       /\ sink = NoSink => base = "failed"
       /\ cap' = ParseEDID(base, extension)
       /\ drv' = CASE cap'.Valid /\ cap'.ValidHDMI -> [drv EXCEPT !.hdmi = TRUE, !.audio = @ \/ cap'.audio]
                   [] ~ cap'.Valid -> [drv EXCEPT !.hdmi = TRUE, !.audio = TRUE]
                   [] cap'.Valid /\ ~ cap'.ValidHDMI -> [drv EXCEPT !.hdmi = FALSE, !.audio = FALSE]
  /\ \E hangs \in BOOLEAN : tx' = ReadEDID(tx, hangs)
  /\ UNCHANGED <<want, PreHPD, sink>>

DevLoopProc == ReadStatus \/ ReadInt1 \/ ReadInt3 \/ ClearInts \/ NewSink
LoopNext == Application \/ Environment \/ DevLoopProc

LoopSpec == LoopInit /\ [][LoopNext]_<<tx, devloop>>
--------------------------------------------------------------------------------
\* Sound that is on the air has the N of its pixel clock and its rate, whichever
\* of the output and the audio channel was set up last.
SourceClock == tx.i2s /\ tx.rst \cap {"aud", "aref"} = {} => tx.n = NFor(drv.clk, tx.rate)
================================================================================
