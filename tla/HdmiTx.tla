--------------------------------- MODULE HdmiTx ---------------------------------
(***************************************************************************)
(* The firmware's use of the HDMI transmitter (software/fw/av_controller.c)*)
(* at the level of its registers: start-up, changes of the output mode and *)
(* of the HDMI flags, of the video mode, of input and of the audio         *)
(* settings, one action for each place of the main loop that writes to the *)
(* chip.                                                                   *)
(***************************************************************************)
EXTENDS HdmiChip

CONSTANTS
  OutputModes, \* video modes put out: VIC and whether the sink is told of pixel repetition
  TxModes,     \* the output modes the user chooses from
  Flags,       \* bound: the flags the user changes
  Standby      \* bound: the device may be put into standby

ASSUME FlagsAssumption == Flags \subseteq {"itc", "hdr", "vrr", "dw", "swap"}

VARIABLES
  chosen, cc, \* the settings chosen (tc), and those in force (cm.cc)
  mode,       \* vmode_out and vm_conf: the video mode put out
  level,      \* cm.hdmitx_pclk_level
  testpat, sync, \* the test pattern is shown; the input has sync
  step        \* the place in the main loop

ossc == <<chosen, cc, mode, level, testpat, sync, step>>

Color(m) == IF m = "YCBCR444" THEN "YUV444" ELSE "RGB"
Frame(c, color, itc) == HDMITX_SetAVIInfoFrame(c, mode.vic, color, itc, mode.pixr)

\* Audio is shut down, and set up again unless the output is DVI.
SetupAudio(c, m, s) ==
  LET off == DISABLE_AUD_INFOFRM_PKT(DisableAudioOutput(c))
  IN  IF m = "DVI" THEN off ELSE HDMITX_SetAudioInfoFrame(EnableAudioOutput4OSSC(off, s.dw, s.swap))

TxEnableKeepsFrame(c, m, v, l, s) == \* mutant
  SetAVMute(SetupAudio(EnableVideoOutput(c, l, "RGB", Color(m), m # "DVI"), m, s), FALSE)
\* The whole transmitter, for output mode m and video mode v: shut down, video,
\* packets, audio, and on the air again.
TX_enable(c, m, v, l, s) ==
  LET down   == DISABLE_AVI_INFOFRM_PKT(DisableVideoOutput(SetAVMute(c, TRUE)))
      up     == EnableVideoOutput(down, l, "RGB", Color(m), m # "DVI")
      framed == HDMITX_SetAVIInfoFrame(up, v.vic, Color(m), s.itc, v.pixr)
      told   == HDMITX_SetVRRInfoFrame(HDMITX_SetHDRInfoFrame(framed, s.hdr), s.vrr)
  IN  SetAVMute(SetupAudio(IF m = "DVI" THEN up ELSE told, m, s), FALSE)

\* The flags TX_enable takes over from the settings.
Flagged(c, s, m) == IF m = "DVI" THEN c ELSE [c EXCEPT !.itc = s.itc, !.hdr = s.hdr, !.vrr = s.vrr]

TxDefaults == [txm |-> "RGB", itc |-> FALSE, hdr |-> FALSE, vrr |-> FALSE, dw |-> TRUE, swap |-> FALSE]
TestMode == CHOOSE v \in OutputModes : ~ v.pixr

OsscFirst ==
  /\ chosen = TxDefaults /\ cc = TxDefaults
  /\ mode = TestMode /\ level = "medium"
  /\ testpat = TRUE /\ sync = FALSE
OsscInit ==
  /\ tx = TX_enable(InitIT6613(PowerOn), "RGB", TestMode, "medium", TxDefaults)
  /\ OsscFirst /\ step = "user"

\* One setting of the menu, or an input, chosen by the user; standby and back.
Choose ==
  /\ step = "user" /\ step' = "tx"
  /\ \/ UNCHANGED <<tx, chosen, cc, mode, testpat, sync>>
     \/ /\ \E m \in TxModes : chosen' = [chosen EXCEPT !.txm = m]
        /\ UNCHANGED <<tx, cc, mode, testpat, sync>>
     \/ /\ \E f \in Flags : chosen' = [chosen EXCEPT ![f] = ~ @]
        /\ UNCHANGED <<tx, cc, mode, testpat, sync>>
     \/ /\ testpat' \in BOOLEAN \* the input is switched
        /\ sync' = FALSE
        /\ tx' = DisableAudioOutput(tx)
        /\ UNCHANGED <<chosen, cc, mode>>
     \/ /\ Standby \* the chip is reset and set up for the test pattern
        /\ mode' = TestMode
        /\ tx' = TX_enable(InitIT6613(PowerOn), "RGB", TestMode, level, chosen)
        /\ cc' = Flagged(cc, chosen, "RGB")
        /\ UNCHANGED <<chosen, testpat, sync>>
  /\ UNCHANGED level

\* Changes of the output mode, then of the flags, which DVI has no use for.
TxFrom == IF chosen.txm = cc.txm THEN tx
          ELSE TX_enable(Frame(tx, "RGB", FALSE), chosen.txm, mode, level, chosen)
TxSettings ==
  /\ step = "tx" /\ step' = IF testpat THEN "user" ELSE "status"
  /\ LET c == IF chosen.txm = cc.txm THEN cc ELSE [Flagged(cc, chosen, chosen.txm) EXCEPT !.txm = chosen.txm]
         i == IF chosen.itc = c.itc THEN TxFrom ELSE Frame(TxFrom, Color(chosen.txm), chosen.itc)
         h == IF chosen.hdr = c.hdr THEN i ELSE HDMITX_SetHDRInfoFrame(i, chosen.hdr)
         v == IF chosen.vrr = c.vrr THEN h ELSE HDMITX_SetVRRInfoFrame(h, chosen.vrr)
     IN  IF chosen.txm = "DVI" THEN tx' = TxFrom /\ cc' = c
                           ELSE tx' = v /\ cc' = [c EXCEPT !.itc = chosen.itc, !.hdr = chosen.hdr, !.vrr = chosen.vrr]
  /\ UNCHANGED <<chosen, mode, level, testpat, sync>>

\* program_mode: pixel repetition, and the whole transmitter if the PLL was
\* reconfigured or the pixel clock changes range; else the frame of the mode.
ProgramTx(c, v, l, full) ==
  LET repeated == TX_SetPixelRepetition(c, chosen.txm # "DVI" /\ v.pixr)
  IN  IF full \/ l # level THEN TX_enable(repeated, chosen.txm, v, l, chosen)
      ELSE IF chosen.txm = "DVI" THEN repeated
      ELSE HDMITX_SetAVIInfoFrame(repeated, v.vic, Color(chosen.txm), chosen.itc, v.pixr)

\* get_status writes audio settings that differ and makes the settings those in
\* force; the main loop then programs the mode, if there is a new one, and starts
\* audio when sync comes up.
GetStatus ==
  /\ step = "status" /\ step' = "user"
  /\ LET c == IF chosen.dw # cc.dw \/ chosen.swap # cc.swap THEN SetupAudio(tx, chosen.txm, chosen) ELSE tx
     IN  \/ tx' = c /\ sync' \in {sync, FALSE} /\ UNCHANGED <<mode, level>>
         \/ /\ sync' = TRUE
            /\ \E v \in OutputModes, l \in {"medium", "high"}, full \in BOOLEAN :
                 /\ mode' = v /\ level' = l
                 /\ tx' = IF sync THEN ProgramTx(c, v, l, full) ELSE SetupAudio(ProgramTx(c, v, l, full), chosen.txm, chosen)
  /\ cc' = chosen
  /\ UNCHANGED <<chosen, testpat>>

OsscNext == Choose \/ TxSettings \/ GetStatus
OsscSpec == OsscInit /\ [][OsscNext]_<<tx, ossc>>
--------------------------------------------------------------------------------
BetweenPasses == step = "user"

\* Between two passes what the chip puts out fits together: the AVI frame tells the
\* sink the mode, the colours and the flag in force, the colours are those the
\* converter makes, and in DVI there is neither frame nor sound. Otherwise an input
\* with sync is heard, at the rate its N is for and the channel status tells.
FramesFitOutput ==
  BetweenPasses =>
    /\ tx.hdmi = (cc.txm # "DVI") /\ ~ tx.mute /\ tx.afe = "on" /\ "vid" \notin tx.rst
    /\ IF tx.hdmi
       THEN /\ tx.aviOn /\ tx.avi.vic = mode.vic /\ tx.avi.itc = cc.itc
            /\ tx.avi.color = Color(cc.txm) /\ (tx.csc = "bypass") = (tx.avi.color = "RGB")
       ELSE ~ tx.aviOn /\ ~ tx.audOn /\ "aud" \in tx.rst
    /\ tx.hdmi /\ sync /\ ~ testpat =>
         /\ tx.audOn /\ tx.i2s /\ tx.rst \cap {"aud", "aref"} = {}
         /\ tx.n = NDefault[tx.rate] /\ tx.rate = (IF cc.dw THEN "48" ELSE "96") /\ tx.swap = cc.swap

\* "HDMI HDR flag" (menu.c): with the flag in force the frame the chip repeats is
\* the HDR frame.
HdrFlagSent == BetweenPasses /\ cc.txm # "DVI" /\ cc.hdr => tx.gp.kind = "HDR" /\ tx.gp.on
================================================================================
