------------------------------- MODULE HdmiProofs -------------------------------
(***************************************************************************)
(* Proofs about the HDMI transmitter under each of its two users: the      *)
(* firmware (HdmiTx) and the driver's own device loop (HdmiLoop).          *)
(***************************************************************************)
EXTENDS HdmiTx, HdmiLoop, TLAPS

\* The registers are those the chip has.
TxRegs == {"rst", "afe", "xp", "hdmi", "mute", "incol", "csc", "avi", "aviOn", "aud", "audOn", "gp", "gpOn",
           "i2s", "n", "rate", "div", "swap", "pixelrep", "depth", "ints"}
IsTx(c) == c = [r \in TxRegs |-> c[r]]

\* What d shares with c: the picture, the AVI frame, the sound.
SamePicture(c, d) ==
  /\ d.hdmi = c.hdmi /\ d.afe = c.afe /\ d.csc = c.csc
  /\ "vid" \in d.rst <=> "vid" \in c.rst
SameFrame(c, d) == d.avi = c.avi /\ d.aviOn = c.aviOn
SameSound(c, d) ==
  /\ d.audOn = c.audOn /\ d.i2s = c.i2s /\ d.n = c.n /\ d.rate = c.rate /\ d.swap = c.swap
  /\ "aud" \in d.rst <=> "aud" \in c.rst
  /\ "aref" \in d.rst <=> "aref" \in c.rst
--------------------------------------------------------------------------------
(* What each function of the driver keeps and changes. *)

\* The chip set up anew has I2S off and knows the rate the driver starts with.
LEMMA InitIT6613Fields ==
  LET c == InitIT6613(PowerOn) IN
    /\ IsTx(c)
    /\ ~ c.i2s /\ c.rate = "48"
<1>1. IsTx(PowerOn) /\ PowerOn.i2s = FALSE /\ PowerOn.rate = "48"
  BY DEF PowerOn, IsTx, TxRegs
<1>2. InitIT6613(PowerOn) = [PowerOn EXCEPT !.rst = AllReset, !.afe = "off",
                                            !.aviOn = FALSE, !.audOn = FALSE, !.gpOn = FALSE]
  BY DEF InitIT6613
<1> QED BY <1>1, <1>2 DEF IsTx, TxRegs

\* The analog part is set up and switched on; hdmi, colours and matrix are as asked.
LEMMA EnableVideoOutputFields ==
  ASSUME NEW c, IsTx(c), NEW l, NEW out, NEW hdmi \in BOOLEAN
  PROVE  LET v == EnableVideoOutput(c, l, "RGB", out, hdmi) IN
         /\ IsTx(v)
         /\ v.hdmi = hdmi /\ v.afe = "on" /\ "vid" \notin v.rst
         /\ v.csc = (IF out \in {"YUV444", "YUV422"} THEN out ELSE "bypass")
         /\ v.avi = c.avi /\ v.aviOn = c.aviOn /\ v.audOn = c.audOn
         /\ v.i2s = c.i2s /\ v.n = c.n /\ v.rate = c.rate /\ v.swap = c.swap
<1> DEFINE held   == [c EXCEPT !.rst = AllReset]
           muted  == IF hdmi THEN SetAVMute(held, TRUE) ELSE held
           csc    == SetCSCScale(SetInputMode(muted, "RGB"), "RGB", out)
           formed == [csc EXCEPT !.hdmi = hdmi, !.rst = {"aud", "aref", "hdcp"}]
           fired  == FireAFE([SetupAFE(formed, l) EXCEPT !.ints = @ \ {"vidstable"}])
           Others(v) ==
             /\ v.avi = c.avi /\ v.aviOn = c.aviOn /\ v.audOn = c.audOn
             /\ v.i2s = c.i2s /\ v.n = c.n /\ v.rate = c.rate /\ v.swap = c.swap
<1>1. IsTx(held) /\ Others(held)
  BY DEF IsTx, TxRegs
<1> HIDE DEF held
<1>2. IsTx(muted) /\ Others(muted)
  BY <1>1 DEF SetAVMute, IsTx, TxRegs
<1> HIDE DEF muted
<1>3. /\ IsTx(csc) /\ Others(csc)
      /\ csc.csc = (IF out \in {"YUV444", "YUV422"} THEN out ELSE "bypass")
  BY <1>2 DEF SetCSCScale, SetInputMode, IsTx, TxRegs
<1> HIDE DEF csc
<1>4. /\ IsTx(formed) /\ Others(formed)
      /\ formed.csc = csc.csc /\ formed.hdmi = hdmi /\ formed.rst = {"aud", "aref", "hdcp"}
  BY <1>3 DEF IsTx, TxRegs
<1> HIDE DEF formed
<1>5. /\ IsTx(fired) /\ Others(fired)
      /\ fired.csc = csc.csc /\ fired.hdmi = hdmi /\ "vid" \notin fired.rst /\ fired.afe = "on"
  BY <1>4 DEF FireAFE, SetupAFE, IsTx, TxRegs
<1>6. fired = EnableVideoOutput(c, l, "RGB", out, hdmi)
  BY DEF EnableVideoOutput, held, muted, csc, formed
<1> HIDE DEF fired
<1> QED BY <1>3, <1>5, <1>6
\* The mute, the frames of free content and pixel repetition leave all else alone.
LEMMA SmallWrites ==
  ASSUME NEW c, IsTx(c), NEW on
  PROVE  /\ IsTx(SetAVMute(c, on)) /\ SetAVMute(c, on).mute = on
         /\ SamePicture(c, SetAVMute(c, on)) /\ SameFrame(c, SetAVMute(c, on))
         /\ SameSound(c, SetAVMute(c, on))
         /\ \A d \in {HDMITX_SetHDRInfoFrame(c, on), HDMITX_SetVRRInfoFrame(c, on), TX_SetPixelRepetition(c, on)} :
              /\ IsTx(d) /\ d.mute = c.mute
              /\ SamePicture(c, d) /\ SameFrame(c, d) /\ SameSound(c, d)
<1>1. LET d == SetAVMute(c, on) IN
        /\ IsTx(d) /\ d.mute = on
        /\ SamePicture(c, d) /\ SameFrame(c, d) /\ SameSound(c, d)
  BY DEF SetAVMute, IsTx, TxRegs, SamePicture, SameFrame, SameSound
<1>2. LET d == HDMITX_SetHDRInfoFrame(c, on) IN
        /\ IsTx(d) /\ d.mute = c.mute
        /\ SamePicture(c, d) /\ SameFrame(c, d) /\ SameSound(c, d)
  BY DEF HDMITX_SetHDRInfoFrame, EnableGPInfoFrame, IsTx, TxRegs, SamePicture, SameFrame, SameSound
<1>3. LET d == HDMITX_SetVRRInfoFrame(c, on) IN
        /\ IsTx(d) /\ d.mute = c.mute
        /\ SamePicture(c, d) /\ SameFrame(c, d) /\ SameSound(c, d)
  BY DEF HDMITX_SetVRRInfoFrame, EnableGPInfoFrame, IsTx, TxRegs, SamePicture, SameFrame, SameSound
<1>4. LET d == TX_SetPixelRepetition(c, on) IN
        /\ IsTx(d) /\ d.mute = c.mute
        /\ SamePicture(c, d) /\ SameFrame(c, d) /\ SameSound(c, d)
  BY DEF TX_SetPixelRepetition, IsTx, TxRegs, SamePicture, SameFrame, SameSound
<1> QED BY <1>1, <1>2, <1>3, <1>4

\* A new AVI frame changes only that frame.
LEMMA AviFrameFields ==
  ASSUME NEW c, IsTx(c), NEW vic, NEW color, NEW itc, NEW pixr
  PROVE  LET d == HDMITX_SetAVIInfoFrame(c, vic, color, itc, pixr) IN
         /\ IsTx(d) /\ d.mute = c.mute
         /\ d.aviOn /\ d.avi.vic = vic /\ d.avi.color = color /\ d.avi.itc = itc
         /\ SamePicture(c, d) /\ SameSound(c, d)
BY DEF HDMITX_SetAVIInfoFrame, EnableAVIInfoFrame, IsTx, TxRegs, SamePicture, SameSound

\* Shutting down parts of the chip.
LEMMA DisableFields ==
  ASSUME NEW c, IsTx(c)
  PROVE  /\ LET d == DISABLE_AVI_INFOFRM_PKT(c) IN IsTx(d) /\ ~ d.aviOn /\ d.audOn = c.audOn
         /\ LET d == DisableVideoOutput(c) IN IsTx(d)
         /\ LET d == DisableAudioOutput(c) IN
              /\ IsTx(d) /\ d.mute = c.mute /\ SamePicture(c, d) /\ SameFrame(c, d)
              /\ "aud" \in d.rst /\ d.audOn = c.audOn /\ d.i2s = c.i2s
         /\ LET d == DISABLE_AUD_INFOFRM_PKT(c) IN
              /\ IsTx(d) /\ d.mute = c.mute /\ SamePicture(c, d) /\ SameFrame(c, d)
              /\ ~ d.audOn /\ ("aud" \in d.rst <=> "aud" \in c.rst)
<1>1. LET d == DISABLE_AVI_INFOFRM_PKT(c) IN IsTx(d) /\ ~ d.aviOn /\ d.audOn = c.audOn
  BY DEF DISABLE_AVI_INFOFRM_PKT, IsTx, TxRegs
<1>2. LET d == DisableVideoOutput(c) IN IsTx(d)
  BY DEF DisableVideoOutput, IsTx, TxRegs
<1>3. LET d == DisableAudioOutput(c) IN
        /\ IsTx(d) /\ d.mute = c.mute /\ SamePicture(c, d) /\ SameFrame(c, d)
        /\ "aud" \in d.rst /\ d.audOn = c.audOn /\ d.i2s = c.i2s
  BY DEF DisableAudioOutput, IsTx, TxRegs, SamePicture, SameFrame
<1>4. LET d == DISABLE_AUD_INFOFRM_PKT(c) IN
        /\ IsTx(d) /\ d.mute = c.mute /\ SamePicture(c, d) /\ SameFrame(c, d)
        /\ ~ d.audOn /\ ("aud" \in d.rst <=> "aud" \in c.rst)
  BY DEF DISABLE_AUD_INFOFRM_PKT, IsTx, TxRegs, SamePicture, SameFrame
<1> QED BY <1>1, <1>2, <1>3, <1>4

\* The audio frame changes only that frame.
LEMMA AudioFrameFields ==
  ASSUME NEW c, IsTx(c)
  PROVE  LET d == HDMITX_SetAudioInfoFrame(c) IN
         /\ IsTx(d) /\ d.mute = c.mute /\ SamePicture(c, d) /\ SameFrame(c, d)
         /\ d.audOn /\ (d.i2s <=> c.i2s) /\ d.rst = c.rst /\ d.swap = c.swap
         /\ d.rate = c.rate /\ d.n = c.n
BY DEF HDMITX_SetAudioInfoFrame, EnableAudioInfoFrame, IsTx, TxRegs, SamePicture, SameFrame

\* The OSSC's audio output changes only the sound: its rate, N and channels.
LEMMA AudioOutputFields ==
  ASSUME NEW c, IsTx(c), NEW dw, NEW swapLR
  PROVE  LET d == EnableAudioOutput4OSSC(c, dw, swapLR) IN
         /\ IsTx(d) /\ d.mute = c.mute /\ SamePicture(c, d) /\ SameFrame(c, d)
         /\ d.i2s /\ "aud" \notin d.rst /\ "aref" \notin d.rst /\ d.swap = swapLR
         /\ d.rate = (IF dw THEN "48" ELSE "96") /\ d.n = (IF dw THEN 6144 ELSE 12288)
<1> DEFINE d == EnableAudioOutput4OSSC(c, dw, swapLR)
<1>1. IsTx(d)
  <2> DEFINE n    == IF dw THEN 6144 ELSE 12288
             rate == IF dw THEN "48" ELSE "96"
             div  == IF dw THEN 2 ELSE 1
             rst  == c.rst \ {"aud", "aref"}
  <2>1. d = [c EXCEPT !.n = n, !.rate = rate, !.div = div, !.rst = rst, !.swap = swapLR, !.i2s = TRUE]
    BY DEF EnableAudioOutput4OSSC, IsTx, TxRegs
  <2> HIDE DEF n, rate, div, rst, d
  <2> QED BY <2>1 DEF IsTx
<1>2. d.mute = c.mute /\ SamePicture(c, d) /\ SameFrame(c, d)
  BY DEF EnableAudioOutput4OSSC, IsTx, TxRegs, SamePicture, SameFrame
<1>3. /\ d.i2s /\ "aud" \notin d.rst /\ "aref" \notin d.rst /\ d.swap = swapLR
      /\ d.rate = (IF dw THEN "48" ELSE "96") /\ d.n = (IF dw THEN 6144 ELSE 12288)
  BY DEF EnableAudioOutput4OSSC, IsTx, TxRegs
<1> QED BY <1>1, <1>2, <1>3

\* The sound of settings s is set up: it is heard, at the rate they ask for.
Heard(c, s) ==
  /\ c.audOn /\ c.i2s /\ "aud" \notin c.rst /\ "aref" \notin c.rst
  /\ c.rate = (IF s.dw THEN "48" ELSE "96") /\ c.n = NDefault[c.rate]
  /\ c.swap = s.swap

\* After the set-up of audio the settings are heard, or in DVI nothing is.
LEMMA SetupAudioFields ==
  ASSUME NEW c, IsTx(c), NEW m, NEW s
  PROVE  LET d == SetupAudio(c, m, s) IN
         /\ IsTx(d) /\ d.mute = c.mute /\ SamePicture(c, d) /\ SameFrame(c, d)
         /\ IF m = "DVI" THEN ~ d.audOn /\ "aud" \in d.rst ELSE Heard(d, s)
<1> DEFINE stopped == DisableAudioOutput(c)
           off == DISABLE_AUD_INFOFRM_PKT(stopped)
           out == EnableAudioOutput4OSSC(off, s.dw, s.swap)
           on == HDMITX_SetAudioInfoFrame(out)
<1>1. IsTx(stopped) /\ stopped.mute = c.mute /\ SamePicture(c, stopped) /\ SameFrame(c, stopped) /\ "aud" \in stopped.rst
  BY DisableFields
<1> HIDE DEF stopped
<1>2. /\ IsTx(off) /\ off.mute = c.mute /\ SamePicture(c, off) /\ SameFrame(c, off)
      /\ ~ off.audOn /\ "aud" \in off.rst
  BY <1>1, DisableFields DEF SamePicture, SameFrame
<1> HIDE DEF off
<1>3. /\ IsTx(out) /\ out.mute = off.mute /\ SamePicture(off, out) /\ SameFrame(off, out)
      /\ out.i2s /\ "aud" \notin out.rst /\ "aref" \notin out.rst /\ out.swap = s.swap
      /\ out.rate = (IF s.dw THEN "48" ELSE "96") /\ out.n = (IF s.dw THEN 6144 ELSE 12288)
  BY <1>2, AudioOutputFields
<1> HIDE DEF out
<1>4. /\ IsTx(on) /\ on.mute = out.mute /\ SamePicture(out, on) /\ SameFrame(out, on)
      /\ on.audOn /\ (on.i2s <=> out.i2s) /\ on.rst = out.rst /\ on.swap = out.swap
      /\ on.rate = out.rate /\ on.n = out.n
  BY <1>3, AudioFrameFields
<1>5. NDefault["48"] = 6144 /\ NDefault["96"] = 12288
  BY DEF NDefault, Rates
<1>6. SetupAudio(c, m, s) = IF m = "DVI" THEN off ELSE on
  BY DEF SetupAudio, stopped, off, out, on
<1> HIDE DEF on
<1>7. Heard(on, s)
  BY <1>3, <1>4, <1>5 DEF Heard
<1>8. IsTx(on) /\ on.mute = c.mute /\ SamePicture(c, on) /\ SameFrame(c, on)
  BY <1>2, <1>3, <1>4 DEF SamePicture, SameFrame
<1> QED BY <1>2, <1>6, <1>7, <1>8

\* The chip shows mode m with a frame for vic and the flag itc; in DVI there is
\* neither frame nor sound.
Shows(c, m, vic, itc) ==
  /\ c.hdmi = (m # "DVI") /\ ~ c.mute /\ c.afe = "on" /\ "vid" \notin c.rst
  /\ IF m # "DVI"
     THEN /\ c.aviOn /\ c.avi.vic = vic /\ c.avi.itc = itc /\ c.avi.color = Color(m)
          /\ (c.csc = "bypass") = (Color(m) = "RGB")
     ELSE ~ c.aviOn /\ ~ c.audOn /\ "aud" \in c.rst

\* TX_enable makes the whole transmitter what it is asked for.
LEMMA TxEnableFields ==
  ASSUME NEW c, IsTx(c), NEW m, NEW v, NEW l, NEW s
  PROVE  LET t == TX_enable(c, m, v, l, s) IN
         /\ IsTx(t) /\ Shows(t, m, v.vic, s.itc)
         /\ m # "DVI" => Heard(t, s)
<1> DEFINE silent == SetAVMute(c, TRUE)
           dark   == DisableVideoOutput(silent)
           down   == DISABLE_AVI_INFOFRM_PKT(dark)
           up     == EnableVideoOutput(down, l, "RGB", Color(m), m # "DVI")
           framed == HDMITX_SetAVIInfoFrame(up, v.vic, Color(m), s.itc, v.pixr)
           hdr    == HDMITX_SetHDRInfoFrame(framed, s.hdr)
           told   == HDMITX_SetVRRInfoFrame(hdr, s.vrr)
           video  == IF m = "DVI" THEN up ELSE told
           whole  == SetupAudio(video, m, s)
           done   == SetAVMute(whole, FALSE)
<1>1. IsTx(silent)
  BY SmallWrites
<1> HIDE DEF silent
<1>2. IsTx(dark)
  BY <1>1, DisableFields
<1> HIDE DEF dark
<1>3. IsTx(down) /\ ~ down.aviOn
  BY <1>2, DisableFields
<1> HIDE DEF down
<1>4. /\ IsTx(up) /\ up.hdmi = (m # "DVI") /\ up.afe = "on" /\ "vid" \notin up.rst
      /\ (up.csc = "bypass") = (Color(m) = "RGB")
      /\ ~ up.aviOn
  <2> DEFINE on == m # "DVI"
             on_air == EnableVideoOutput(down, l, "RGB", Color(m), on)
  <2>1. on \in BOOLEAN
    OBVIOUS
  <2>2. up = on_air
    OBVIOUS
  <2> HIDE DEF on
  <2>3. /\ IsTx(on_air) /\ on_air.hdmi = on /\ on_air.afe = "on" /\ "vid" \notin on_air.rst
        /\ on_air.csc = (IF Color(m) \in {"YUV444", "YUV422"} THEN Color(m) ELSE "bypass")
        /\ on_air.aviOn = down.aviOn
    BY ONLY <1>3, <2>1, EnableVideoOutputFields
  <2> HIDE DEF on_air, up
  <2> QED BY <1>3, <2>2, <2>3 DEF Color, on
<1> HIDE DEF up
<1>5. /\ IsTx(framed) /\ SamePicture(up, framed)
      /\ framed.aviOn /\ framed.avi.vic = v.vic /\ framed.avi.color = Color(m) /\ framed.avi.itc = s.itc
  BY <1>4, AviFrameFields
<1> HIDE DEF framed
<1>6. IsTx(hdr) /\ SamePicture(framed, hdr) /\ SameFrame(framed, hdr)
  BY <1>5, SmallWrites
<1> HIDE DEF hdr
<1>7. IsTx(told) /\ SamePicture(hdr, told) /\ SameFrame(hdr, told)
  BY <1>6, SmallWrites
<1> HIDE DEF told
<1>8. /\ IsTx(video) /\ SamePicture(up, video)
      /\ IF m = "DVI" THEN ~ video.aviOn
         ELSE video.aviOn /\ video.avi.vic = v.vic /\ video.avi.color = Color(m) /\ video.avi.itc = s.itc
  BY <1>4, <1>5, <1>6, <1>7 DEF SamePicture, SameFrame
<1> HIDE DEF video
<1>9. /\ IsTx(whole) /\ SamePicture(video, whole) /\ SameFrame(video, whole)
      /\ IF m = "DVI" THEN ~ whole.audOn /\ "aud" \in whole.rst ELSE Heard(whole, s)
  BY <1>8, SetupAudioFields
<1> HIDE DEF whole
<1>10. /\ IsTx(done) /\ done.mute = FALSE
       /\ SamePicture(whole, done) /\ SameFrame(whole, done) /\ SameSound(whole, done)
  BY <1>9, SmallWrites
<1>11. TX_enable(c, m, v, l, s) = done
  BY DEF TX_enable, done, whole, video, told, hdr, framed, up, down, dark, silent
<1> HIDE DEF done
<1>12. Shows(done, m, v.vic, s.itc)
  BY <1>4, <1>8, <1>9, <1>10 DEF Shows, SamePicture, SameFrame, SameSound
<1>13. m # "DVI" => Heard(done, s)
  BY <1>9, <1>10 DEF Heard, SameSound
<1> QED BY <1>10, <1>11, <1>12, <1>13
--------------------------------------------------------------------------------
(* The firmware's use: what the chip puts out follows the settings in force. *)

IsSettings(s) == s = [f \in {"txm", "itc", "hdr", "vrr", "dw", "swap"} |-> s[f]]

\* The settings in force are those the chip was programmed with; on the way from the
\* transmitter's settings to the status those of the video are already the chosen
\* ones, and the sound is of either.
OsscInv ==
  /\ IsTx(tx) /\ IsSettings(chosen) /\ IsSettings(cc)
  /\ step \in {"user", "tx", "status"}
  /\ step = "status" =>
       /\ ~ testpat /\ cc.txm = chosen.txm
       /\ chosen.txm # "DVI" => cc.itc = chosen.itc
OsscShows == Shows(tx, cc.txm, mode.vic, cc.itc)
OsscHeard == cc.txm # "DVI" /\ sync /\ ~ testpat => Heard(tx, cc) \/ (step = "status" /\ Heard(tx, chosen))

\* What is shown stays while picture, mute and frame do.
LEMMA ShowsStays ==
  ASSUME NEW c, NEW d, NEW m, NEW vic, NEW itc,
         Shows(c, m, vic, itc), SamePicture(c, d), d.mute = c.mute, SameFrame(c, d),
         m = "DVI" => ~ d.audOn /\ "aud" \in d.rst
  PROVE  Shows(d, m, vic, itc)
BY DEF Shows, SamePicture, SameFrame

\* What is heard stays while the sound does.
LEMMA HeardStays ==
  ASSUME NEW c, NEW d, NEW s, Heard(c, s), SameSound(c, d)
  PROVE  Heard(d, s)
BY DEF Heard, SameSound

\* A new frame tells the sink what it holds.
LEMMA ShowsFrame ==
  ASSUME NEW c, IsTx(c), NEW m, NEW vic, NEW itc, NEW vic2, NEW itc2, NEW pixr,
         Shows(c, m, vic, itc), m # "DVI"
  PROVE  LET d == HDMITX_SetAVIInfoFrame(c, vic2, Color(m), itc2, pixr) IN
         IsTx(d) /\ Shows(d, m, vic2, itc2) /\ SameSound(c, d)
BY AviFrameFields DEF Shows, SamePicture

\* init_hw shows the test pattern in RGB, with the default settings in force.
LEMMA InitOssc == OsscInit => OsscInv /\ OsscShows /\ OsscHeard
<1> SUFFICES ASSUME OsscInit PROVE OsscInv /\ OsscShows /\ OsscHeard
  OBVIOUS
<1>1. IsTx(InitIT6613(PowerOn))
  BY InitIT6613Fields
<1>2. IsTx(tx) /\ Shows(tx, "RGB", TestMode.vic, TxDefaults.itc)
  BY <1>1, TxEnableFields DEF OsscInit
<1>3. IsSettings(TxDefaults) /\ TxDefaults.txm = "RGB"
  BY DEF IsSettings, TxDefaults
<1> QED BY <1>2, <1>3 DEF OsscInit, OsscFirst, OsscInv, OsscShows, OsscHeard

\* The user changes the settings chosen, or switches the input, which mutes it.
LEMMA ChooseKeeps ==
  ASSUME Standby = FALSE, OsscInv, OsscShows, OsscHeard, Choose
  PROVE  OsscInv' /\ OsscShows' /\ OsscHeard'
<1>1. CASE UNCHANGED <<tx, chosen, cc, mode, testpat, sync>>
  BY <1>1 DEF Choose, OsscInv, OsscShows, OsscHeard
<1>2. CASE UNCHANGED <<tx, cc, mode, testpat, sync>> /\ (\E m \in TxModes : chosen' = [chosen EXCEPT !.txm = m])
  <2>1. IsSettings(chosen')
    BY <1>2 DEF OsscInv, IsSettings
  <2> QED BY <1>2, <2>1 DEF Choose, OsscInv, OsscShows, OsscHeard
<1>3. CASE UNCHANGED <<tx, cc, mode, testpat, sync>> /\ (\E f \in Flags : chosen' = [chosen EXCEPT ![f] = ~ @])
  <2>1. IsSettings(chosen')
    BY <1>3 DEF OsscInv, IsSettings
  <2> QED BY <1>3, <2>1 DEF Choose, OsscInv, OsscShows, OsscHeard
<1>4. CASE UNCHANGED <<chosen, cc, mode>> /\ sync' = FALSE /\ tx' = DisableAudioOutput(tx)
  <2>1. /\ IsTx(tx') /\ tx'.mute = tx.mute /\ SamePicture(tx, tx') /\ SameFrame(tx, tx')
        /\ "aud" \in tx'.rst /\ tx'.audOn = tx.audOn
    BY <1>4, DisableFields DEF OsscInv
  <2>2. OsscShows'
    BY <1>4, <2>1 DEF OsscShows, Shows, SamePicture, SameFrame
  <2> QED BY <1>4, <2>1, <2>2 DEF Choose, OsscInv, OsscHeard
<1> QED BY <1>1, <1>2, <1>3, <1>4 DEF Choose

\* The settings of the transmitter take effect.
LEMMA TxSettingsKeeps ==
  ASSUME OsscInv, OsscShows, OsscHeard, TxSettings
  PROVE  OsscInv' /\ OsscShows' /\ OsscHeard'
<1> DEFINE c == IF chosen.txm = cc.txm THEN cc ELSE [Flagged(cc, chosen, chosen.txm) EXCEPT !.txm = chosen.txm]
           i == IF chosen.itc = c.itc THEN TxFrom ELSE Frame(TxFrom, Color(chosen.txm), chosen.itc)
           h == IF chosen.hdr = c.hdr THEN i ELSE HDMITX_SetHDRInfoFrame(i, chosen.hdr)
           v == IF chosen.vrr = c.vrr THEN h ELSE HDMITX_SetVRRInfoFrame(h, chosen.vrr)
           Good(d, s) ==
             /\ IsTx(d) /\ Shows(d, chosen.txm, mode.vic, s.itc)
             /\ chosen.txm # "DVI" /\ sync /\ ~ testpat => Heard(d, cc) \/ Heard(d, chosen)
           flagged == [c EXCEPT !.itc = chosen.itc, !.hdr = chosen.hdr, !.vrr = chosen.vrr]
<1>1. step = "tx" /\ step' = (IF testpat THEN "user" ELSE "status") /\ UNCHANGED <<chosen, mode, level, testpat, sync>>
  BY DEF TxSettings
<1>2. IF chosen.txm = "DVI" THEN tx' = TxFrom /\ cc' = c ELSE tx' = v /\ cc' = flagged
  BY DEF TxSettings
<1>3. IsSettings(c) /\ c.txm = chosen.txm /\ c.dw = cc.dw /\ c.swap = cc.swap
  BY DEF OsscInv, IsSettings, Flagged
<1>4. Good(TxFrom, c)
  <2>1. CASE chosen.txm = cc.txm
    BY <2>1, <1>1 DEF TxFrom, OsscInv, OsscShows, OsscHeard
  <2>2. CASE chosen.txm # cc.txm
    <3> DEFINE framed == Frame(tx, "RGB", FALSE)
               full == TX_enable(framed, chosen.txm, mode, level, chosen)
    <3>1. IsTx(framed)
      BY AviFrameFields DEF Frame, OsscInv
    <3> HIDE DEF framed
    <3>2. IsTx(full) /\ Shows(full, chosen.txm, mode.vic, chosen.itc) /\ (chosen.txm # "DVI" => Heard(full, chosen))
      BY <3>1, TxEnableFields
    <3>3. TxFrom = full
      BY <2>2 DEF TxFrom, framed
    <3>4. chosen.txm # "DVI" => c.itc = chosen.itc
      BY <2>2 DEF Flagged, OsscInv, IsSettings
    <3> HIDE DEF full, c
    <3> QED BY <3>2, <3>3, <3>4 DEF Shows
  <2> QED BY <2>1, <2>2
<1>5. CASE chosen.txm = "DVI"
  <2> HIDE DEF c
  <2> QED BY <1>1, <1>2, <1>3, <1>4, <1>5 DEF OsscInv, OsscShows, OsscHeard
<1>6. CASE chosen.txm # "DVI"
  <2> HIDE DEF c
  <2>1. Good(i, chosen)
    <3>1. CASE chosen.itc = c.itc
      BY <3>1, <1>4
    <3>2. CASE chosen.itc # c.itc
      <4>1. i = HDMITX_SetAVIInfoFrame(TxFrom, mode.vic, Color(chosen.txm), chosen.itc, mode.pixr)
        BY <3>2 DEF Frame
      <4>2. IsTx(i) /\ Shows(i, chosen.txm, mode.vic, chosen.itc) /\ SameSound(TxFrom, i)
        BY <1>4, <1>6, <4>1, ShowsFrame
      <4> HIDE DEF i
      <4> QED BY <1>4, <4>2, HeardStays
    <3> QED BY <3>1, <3>2
  <2> HIDE DEF i
  <2>2. Good(h, chosen)
    <3> DEFINE d == HDMITX_SetHDRInfoFrame(i, chosen.hdr)
    <3>1. IsTx(d) /\ d.mute = i.mute /\ SamePicture(i, d) /\ SameFrame(i, d) /\ SameSound(i, d)
      BY <2>1, SmallWrites
    <3>2. h = i \/ h = d
      OBVIOUS
    <3> HIDE DEF h, d
    <3>3. Good(d, chosen)
      BY <2>1, <3>1, <1>6, ShowsStays, HeardStays
    <3> QED BY <2>1, <3>2, <3>3
  <2> HIDE DEF h
  <2>3. Good(v, chosen)
    <3> DEFINE d == HDMITX_SetVRRInfoFrame(h, chosen.vrr)
    <3>1. IsTx(d) /\ d.mute = h.mute /\ SamePicture(h, d) /\ SameFrame(h, d) /\ SameSound(h, d)
      BY <2>2, SmallWrites
    <3>2. v = h \/ v = d
      OBVIOUS
    <3> HIDE DEF v, d
    <3>3. Good(d, chosen)
      BY <2>2, <3>1, <1>6, ShowsStays, HeardStays
    <3> QED BY <2>2, <3>2, <3>3
  <2> HIDE DEF v
  <2>4. /\ IsSettings(flagged) /\ flagged.txm = chosen.txm /\ flagged.itc = chosen.itc
        /\ flagged.dw = cc.dw /\ flagged.swap = cc.swap
    BY <1>3 DEF IsSettings
  <2> HIDE DEF flagged
  <2>5. tx' = v /\ cc' = flagged
    BY <1>2, <1>6
  <2>6. Heard(v, cc) => Heard(v, flagged)
    BY <2>4 DEF Heard
  <2> QED BY <1>1, <1>6, <2>3, <2>4, <2>5, <2>6 DEF OsscInv, OsscShows, OsscHeard
<1> QED BY <1>5, <1>6

\* program_mode leaves the chip showing the mode it was called for, with the sound
\* it had or that of the settings chosen.
LEMMA ProgramFields ==
  ASSUME NEW c, IsTx(c), NEW v, NEW l, NEW full,
         Shows(c, chosen.txm, mode.vic, chosen.itc)
  PROVE  /\ IsTx(ProgramTx(c, v, l, full)) /\ Shows(ProgramTx(c, v, l, full), chosen.txm, v.vic, chosen.itc)
         /\ chosen.txm # "DVI" /\ Heard(c, chosen) => Heard(ProgramTx(c, v, l, full), chosen)
<1> DEFINE auto     == chosen.txm # "DVI" /\ v.pixr
           repeated == TX_SetPixelRepetition(c, auto)
           whole    == TX_enable(repeated, chosen.txm, v, l, chosen)
           framed   == HDMITX_SetAVIInfoFrame(repeated, v.vic, Color(chosen.txm), chosen.itc, v.pixr)
           whole_asked == full \/ l # level
<1> HIDE DEF auto
<1>1. /\ IsTx(repeated) /\ repeated.mute = c.mute
      /\ SamePicture(c, repeated) /\ SameFrame(c, repeated) /\ SameSound(c, repeated)
  BY SmallWrites
<1>2. ProgramTx(c, v, l, full) = IF whole_asked THEN whole ELSE IF chosen.txm = "DVI" THEN repeated ELSE framed
  BY DEF ProgramTx, auto
<1> HIDE DEF repeated, whole_asked
<1>3. IsTx(whole) /\ Shows(whole, chosen.txm, v.vic, chosen.itc) /\ (chosen.txm # "DVI" => Heard(whole, chosen))
  BY <1>1, TxEnableFields
<1>4. chosen.txm = "DVI" => ~ repeated.audOn /\ "aud" \in repeated.rst
  BY <1>1 DEF Shows, SameSound
<1>5. Shows(repeated, chosen.txm, mode.vic, chosen.itc) /\ (Heard(c, chosen) => Heard(repeated, chosen))
  BY <1>1, <1>4, ShowsStays, HeardStays
<1>6. chosen.txm = "DVI" => Shows(repeated, chosen.txm, v.vic, chosen.itc)
  BY <1>5 DEF Shows
<1>7. chosen.txm # "DVI" => IsTx(framed) /\ Shows(framed, chosen.txm, v.vic, chosen.itc) /\ SameSound(repeated, framed)
  BY <1>1, <1>5, ShowsFrame
<1> HIDE DEF whole, framed
<1>8. chosen.txm # "DVI" /\ Heard(c, chosen) => Heard(framed, chosen)
  BY <1>5, <1>7, HeardStays
<1> QED BY <1>1, <1>2, <1>3, <1>6, <1>7, <1>8

\* Setting up the sound anew keeps the picture, and ends as the output mode asks.
LEMMA ShowsSound ==
  ASSUME NEW c, IsTx(c), NEW m, NEW s, NEW vic, NEW itc, Shows(c, m, vic, itc)
  PROVE  LET d == SetupAudio(c, m, s) IN
         /\ IsTx(d) /\ Shows(d, m, vic, itc)
         /\ m # "DVI" => Heard(d, s)
<1> DEFINE d == SetupAudio(c, m, s)
<1>1. /\ IsTx(d) /\ d.mute = c.mute /\ SamePicture(c, d) /\ SameFrame(c, d)
      /\ IF m = "DVI" THEN ~ d.audOn /\ "aud" \in d.rst ELSE Heard(d, s)
  BY SetupAudioFields
<1> HIDE DEF d
<1>2. Shows(d, m, vic, itc)
  BY <1>1, ShowsStays
<1> QED BY <1>1, <1>2 DEF d

\* The status takes over the settings of the sound, programs a new mode and starts
\* the sound when sync comes up.
LEMMA StatusKeeps ==
  ASSUME OsscInv, OsscShows, OsscHeard, GetStatus
  PROVE  OsscInv' /\ OsscShows' /\ OsscHeard'
<1> DEFINE c == IF chosen.dw # cc.dw \/ chosen.swap # cc.swap THEN SetupAudio(tx, chosen.txm, chosen) ELSE tx
<1>1. step = "status" /\ step' = "user" /\ cc' = chosen /\ UNCHANGED <<chosen, testpat>>
  BY DEF GetStatus
<1>2. IsTx(tx) /\ ~ testpat /\ Shows(tx, chosen.txm, mode.vic, chosen.itc)
  BY <1>1 DEF OsscInv, OsscShows, Shows
<1>3. IsTx(c) /\ Shows(c, chosen.txm, mode.vic, chosen.itc) /\ (chosen.txm # "DVI" /\ sync => Heard(c, chosen))
  <2>1. CASE chosen.dw # cc.dw \/ chosen.swap # cc.swap
    BY <1>2, <2>1, ShowsSound
  <2>2. CASE ~ (chosen.dw # cc.dw \/ chosen.swap # cc.swap)
    <3>1. chosen.txm # "DVI" /\ sync => Heard(tx, chosen)
      BY <1>1, <1>2, <2>2 DEF OsscInv, OsscHeard, Heard
    <3> QED BY <1>2, <2>2, <3>1
  <2> QED BY <2>1, <2>2
<1>4. \/ tx' = c /\ sync' \in {sync, FALSE} /\ UNCHANGED <<mode, level>>
      \/ /\ sync' = TRUE
         /\ \E v \in OutputModes, l \in {"medium", "high"}, full \in BOOLEAN :
              /\ mode' = v /\ level' = l
              /\ tx' = IF sync THEN ProgramTx(c, v, l, full) ELSE SetupAudio(ProgramTx(c, v, l, full), chosen.txm, chosen)
  BY DEF GetStatus
<1> HIDE DEF c
<1>5. IsTx(tx') /\ Shows(tx', chosen.txm, mode'.vic, chosen.itc) /\ (chosen.txm # "DVI" /\ sync' => Heard(tx', chosen))
  <2>1. CASE tx' = c /\ sync' \in {sync, FALSE} /\ UNCHANGED <<mode, level>>
    <3>1. sync' => sync
      BY <2>1, Zenon
    <3> QED BY <1>3, <2>1, <3>1
  <2>2. ASSUME NEW v \in OutputModes, NEW l \in {"medium", "high"}, NEW full \in BOOLEAN, mode' = v,
               tx' = IF sync THEN ProgramTx(c, v, l, full) ELSE SetupAudio(ProgramTx(c, v, l, full), chosen.txm, chosen)
        PROVE  IsTx(tx') /\ Shows(tx', chosen.txm, mode'.vic, chosen.itc) /\ (chosen.txm # "DVI" /\ sync' => Heard(tx', chosen))
    <3> DEFINE p == ProgramTx(c, v, l, full)
               q == SetupAudio(p, chosen.txm, chosen)
    <3>1. /\ IsTx(p) /\ Shows(p, chosen.txm, v.vic, chosen.itc)
          /\ chosen.txm # "DVI" /\ Heard(c, chosen) => Heard(p, chosen)
      BY <1>3, ProgramFields
    <3>2. tx' = IF sync THEN p ELSE q
      BY <2>2
    <3> HIDE DEF p
    <3>3. /\ IsTx(q) /\ Shows(q, chosen.txm, v.vic, chosen.itc)
          /\ chosen.txm # "DVI" => Heard(q, chosen)
      BY <3>1, ShowsSound
    <3> HIDE DEF q
    <3> QED BY <1>3, <2>2, <3>1, <3>2, <3>3
  <2> QED BY <1>4, <2>1, <2>2
<1> QED BY <1>1, <1>2, <1>5 DEF OsscInv, OsscShows, OsscHeard

\* Without standby, what the chip puts out between two passes of the main loop fits
\* together and is what the settings in force say.
THEOREM FramesFit ==
  ASSUME Standby = FALSE
  PROVE  OsscSpec => []FramesFitOutput
<1> DEFINE Inv == OsscInv /\ OsscShows /\ OsscHeard
<1>1. OsscInit => Inv
  BY InitOssc
<1>2. Inv /\ [OsscNext]_<<tx, ossc>> => Inv'
  <2>1. Inv /\ OsscNext => Inv'
    BY ChooseKeeps, TxSettingsKeeps, StatusKeeps DEF OsscNext
  <2>2. Inv /\ UNCHANGED <<tx, ossc>> => Inv'
    BY DEF OsscInv, OsscShows, OsscHeard, ossc
  <2> QED BY <2>1, <2>2
<1>3. Inv => FramesFitOutput
  <2> SUFFICES ASSUME Inv, BetweenPasses PROVE FramesFitOutput
    BY DEF FramesFitOutput
  <2>1. tx.hdmi = (cc.txm # "DVI") /\ ~ tx.mute /\ tx.afe = "on" /\ "vid" \notin tx.rst
    BY DEF OsscShows, Shows
  <2>2. IF tx.hdmi
        THEN /\ tx.aviOn /\ tx.avi.vic = mode.vic /\ tx.avi.itc = cc.itc
             /\ tx.avi.color = Color(cc.txm) /\ (tx.csc = "bypass") = (tx.avi.color = "RGB")
        ELSE ~ tx.aviOn /\ ~ tx.audOn /\ "aud" \in tx.rst
    BY DEF OsscShows, Shows
  <2>3. tx.hdmi /\ sync /\ ~ testpat =>
          /\ tx.audOn /\ tx.i2s /\ tx.rst \cap {"aud", "aref"} = {}
          /\ tx.n = NDefault[tx.rate] /\ tx.rate = (IF cc.dw THEN "48" ELSE "96") /\ tx.swap = cc.swap
    <3> SUFFICES ASSUME tx.hdmi, sync, ~ testpat
                 PROVE  /\ tx.audOn /\ tx.i2s /\ tx.rst \cap {"aud", "aref"} = {}
                        /\ tx.n = NDefault[tx.rate] /\ tx.rate = (IF cc.dw THEN "48" ELSE "96") /\ tx.swap = cc.swap
      OBVIOUS
    <3>1. Heard(tx, cc)
      BY <2>1 DEF OsscHeard, BetweenPasses
    <3> QED BY <3>1 DEF Heard
  <2> QED BY <2>1, <2>2, <2>3 DEF FramesFitOutput
<1> QED BY <1>1, <1>2, <1>3, PTL DEF OsscSpec
--------------------------------------------------------------------------------
(* The driver's own device loop: the sound follows the clock. *)

IsDrv(d) == d = [f \in {"bHPD", "clk", "fs", "hdmi", "audio", "chan"} |-> d[f]] /\ d.hdmi \in BOOLEAN

\* The registers c and the driver's variables d agree: the rate is the one the
\* driver knows of, and I2S that is enabled has the N for it.
Tuned(c, d) ==
  /\ IsTx(c) /\ IsDrv(d) /\ c.rate = d.fs
  /\ c.i2s => c.n = NFor(d.clk, c.rate)

\* After start-up no sound is enabled, and the rates agree.
LEMMA InitTuned == LoopInit => Tuned(tx, drv)
<1>1. ASSUME LoopInit PROVE IsTx(tx) /\ ~ tx.i2s /\ tx.rate = "48"
  BY <1>1, InitIT6613Fields DEF LoopInit
<1>2. ASSUME LoopInit PROVE IsDrv(drv) /\ drv.fs = "48"
  BY <1>2 DEF LoopInit, LoopFirst, IsDrv
<1> QED BY <1>1, <1>2 DEF Tuned

\* The small steps of the driver leave the sound alone.
SameClock(c, d) == d.i2s = c.i2s /\ d.n = c.n /\ d.rate = c.rate

\* Sound stays tuned while clock and rate do.
LEMMA TunedStays ==
  ASSUME NEW c, NEW d, NEW dv, NEW e, Tuned(c, dv), IsTx(d), SameClock(c, d),
         IsDrv(e), e.clk = dv.clk, e.fs = dv.fs
  PROVE  Tuned(d, e)
BY DEF Tuned, SameClock

\* Each of these calls leaves the sound's clock as it is.
LEMMA LoopWrites ==
  ASSUME NEW c, IsTx(c), NEW b
  PROVE  /\ \A d \in {DisableVideoOutput(c), DisableIT6613(c), FireAFE(c),
                      [c EXCEPT !.afe = "off"], SetAVMute(c, b), ReadEDID(c, b)} :
              IsTx(d) /\ SameClock(c, d)
         /\ \A set : LET d == [c EXCEPT !.ints = set] IN IsTx(d) /\ SameClock(c, d)
<1>1. LET d == DisableVideoOutput(c) IN IsTx(d) /\ SameClock(c, d)
  BY DEF DisableVideoOutput, IsTx, TxRegs, SameClock
<1>2. LET d == DisableIT6613(c) IN IsTx(d) /\ SameClock(c, d)
  BY DEF DisableIT6613, IsTx, TxRegs, SameClock
<1>3. LET d == FireAFE(c) IN IsTx(d) /\ SameClock(c, d)
  BY DEF FireAFE, IsTx, TxRegs, SameClock
<1>4. LET d == [c EXCEPT !.afe = "off"] IN IsTx(d) /\ SameClock(c, d)
  BY DEF IsTx, TxRegs, SameClock
<1>5. LET d == SetAVMute(c, b) IN IsTx(d) /\ SameClock(c, d)
  BY DEF SetAVMute, IsTx, TxRegs, SameClock
<1>6. LET d == ReadEDID(c, b) IN IsTx(d) /\ SameClock(c, d)
  BY DEF ReadEDID, AbortDDC, IsTx, TxRegs, SameClock
<1>7. ASSUME NEW set PROVE LET d == [c EXCEPT !.ints = set] IN IsTx(d) /\ SameClock(c, d)
  BY DEF IsTx, TxRegs, SameClock
<1> QED BY <1>1, <1>2, <1>3, <1>4, <1>5, <1>6, <1>7

\* N is set for a clock and a rate.
LEMMA SetNCTSFields ==
  ASSUME NEW c, IsTx(c), NEW clk, NEW f
  PROVE  LET d == SetNCTS(c, clk, f) IN
         IsTx(d) /\ d.n = NFor(clk, f) /\ d.rate = c.rate /\ d.i2s = c.i2s
<1> DEFINE n == NFor(clk, f)
<1>1. SetNCTS(c, clk, f) = [c EXCEPT !.n = n]
  BY DEF SetNCTS
<1> HIDE DEF n
<1>2. LET d == [c EXCEPT !.n = n] IN
        IsTx(d) /\ d.n = n /\ d.rate = c.rate /\ d.i2s = c.i2s
  BY DEF IsTx, TxRegs
<1> QED BY <1>1, <1>2 DEF n

\* The audio output over I2S has its N; over S/PDIF, I2S is off until there is a lock.
LEMMA AudioOutputTuned ==
  ASSUME NEW c, IsTx(c), NEW clk, NEW f, NEW spdif \in BOOLEAN
  PROVE  LET d == EnableAudioOutput(c, clk, f, spdif) IN
         /\ IsTx(d) /\ d.rate = f
         /\ spdif => ~ d.i2s
         /\ ~ spdif => d.n = NFor(clk, f)
<1> DEFINE n == 6144
           timed == SetNCTS(c, clk, f)
           fixed == [c EXCEPT !.n = n]
           e == IF spdif THEN fixed ELSE timed
           rst == e.rst \ {"aud", "aref"}
           i2s == ~ spdif
           d == [e EXCEPT !.rst = rst, !.rate = f, !.i2s = i2s]
<1>1. EnableAudioOutput(c, clk, f, spdif) = SetAudioFormat(e, f, spdif)
  BY DEF EnableAudioOutput
<1>2. IsTx(timed) /\ timed.n = NFor(clk, f)
  BY SetNCTSFields
<1> HIDE DEF n, timed
<1>3. IsTx(fixed)
  BY DEF IsTx, TxRegs
<1> HIDE DEF fixed
<1>4. IsTx(e) /\ (~ spdif => e.n = NFor(clk, f))
  BY <1>2, <1>3
<1> HIDE DEF e
<1>5. SetAudioFormat(e, f, spdif) = d
  <2>1. e.rst = e.rst
    BY <1>4 DEF IsTx, TxRegs
  <2>2. SetAudioFormat(e, f, spdif) = [e EXCEPT !.rst = e.rst \ {"aud", "aref"}, !.rate = f, !.i2s = i2s]
    BY DEF SetAudioFormat
  <2> QED BY <2>1, <2>2
<1> HIDE DEF rst, i2s
<1>6. IsTx(d) /\ d.rate = f /\ d.n = e.n /\ d.i2s = i2s
  BY <1>4 DEF IsTx, TxRegs
<1> HIDE DEF d
<1>7. spdif => ~ d.i2s
  BY <1>6 DEF i2s
<1> QED BY <1>1, <1>4, <1>5, <1>6, <1>7

\* The output is set up, with the sound of its clock if the sink takes sound.
LEMMA SetOutputTuned ==
  ASSUME NEW s, Tuned(s.tx, s.drv)
  PROVE  LET o == SetOutput(s) IN
         Tuned(o.tx, o.drv)
<1> DEFINE up   == EnableVideoOutput(s.tx, want.level, "RGB", want.color, s.drv.hdmi)
           avi  == HDMITX_SetAVIInfoFrame(up, want.vic, want.color, FALSE, Repeats(want.vic))
           out  == EnableAudioOutput(avi, want.clk, "48", FALSE)
           aud  == HDMITX_SetAudioInfoFrame(out)
           sounds == s.drv.hdmi /\ s.drv.audio
           last == IF sounds THEN aud ELSE IF s.drv.hdmi THEN avi ELSE up
           heard == [s.drv EXCEPT !.clk = want.clk, !.fs = "48"]
           done == SetAVMute(last, FALSE)
           d    == IF sounds THEN heard ELSE s.drv
<1>1. IsTx(up) /\ SameClock(s.tx, up)
  <2> DEFINE hdmi == s.drv.hdmi
  <2>1. hdmi \in BOOLEAN /\ IsTx(s.tx)
    BY DEF Tuned, IsDrv
  <2> HIDE DEF hdmi
  <2> DEFINE v == EnableVideoOutput(s.tx, want.level, "RGB", want.color, hdmi)
  <2>2. /\ IsTx(v)
        /\ v.i2s = s.tx.i2s /\ v.n = s.tx.n /\ v.rate = s.tx.rate
    BY <2>1, EnableVideoOutputFields
  <2>3. up = v
    BY DEF hdmi
  <2> HIDE DEF v, up
  <2> QED BY <2>2, <2>3 DEF SameClock
<1> HIDE DEF up
<1>2. IsTx(avi) /\ SameClock(up, avi)
  BY <1>1 DEF HDMITX_SetAVIInfoFrame, EnableAVIInfoFrame, IsTx, TxRegs, SameClock
<1> HIDE DEF avi
<1>3. IsTx(out) /\ out.rate = "48" /\ out.n = NFor(want.clk, "48")
  <2> DEFINE f == "48"
             spdif == FALSE
             e == EnableAudioOutput(avi, want.clk, f, spdif)
  <2>1. out = e /\ spdif \in BOOLEAN /\ ~ spdif
    OBVIOUS
  <2> HIDE DEF f, spdif, out
  <2>2. IsTx(e) /\ e.rate = f /\ e.n = NFor(want.clk, f)
    BY <1>2, <2>1, AudioOutputTuned
  <2> HIDE DEF e
  <2> QED BY <2>1, <2>2 DEF f
<1> HIDE DEF out
<1>4. IsTx(aud) /\ SameClock(out, aud)
  BY <1>3 DEF HDMITX_SetAudioInfoFrame, EnableAudioInfoFrame, IsTx, TxRegs, SameClock
<1> HIDE DEF aud
<1>5. IsDrv(heard) /\ heard.clk = want.clk /\ heard.fs = "48"
  BY DEF Tuned, IsDrv
<1> HIDE DEF heard, sounds
<1>6. IsTx(last) /\ Tuned(last, d)
  <2>1. CASE sounds
    BY <2>1, <1>1, <1>2, <1>3, <1>4, <1>5 DEF Tuned, SameClock
  <2>2. CASE ~ sounds
    <3>1. IsTx(last) /\ SameClock(s.tx, last)
      BY <2>2, <1>1, <1>2 DEF SameClock
    <3> HIDE DEF last
    <3> QED BY <2>2, <3>1, TunedStays DEF Tuned
  <2> QED BY <2>1, <2>2
<1> HIDE DEF last, d
<1>7. IsTx(done) /\ SameClock(last, done)
  BY <1>6 DEF SetAVMute, IsTx, TxRegs, SameClock
<1> HIDE DEF done
<1>8. Tuned(done, d)
  BY <1>6, <1>7, TunedStays DEF Tuned
<1>9. SetOutput(s) = [tx |-> done, drv |-> d]
  BY DEF SetOutput, done, last, aud, out, avi, up, d, heard, sounds
<1>10. SetOutput(s).tx = done /\ SetOutput(s).drv = d
  BY <1>9
<1> QED BY <1>6, <1>8, <1>10

\* The audio channel comes up with the N of the rate it settles on, whether the rate
\* was measured or not.
LEMMA AudioOnTuned ==
  ASSUME NEW s, Tuned(s.tx, s.drv), NEW f, NEW counted
  PROVE  LET t == AudioOn(s, f, counted) IN
         Tuned(t.tx, t.drv)
<1> DEFINE first == SetNCTS(s.tx, s.drv.clk, s.drv.fs)
           rate  == IF counted THEN RateOf(IF first.n = 0 THEN 0 ELSE f) ELSE s.drv.fs
           again == SetNCTS(first, s.drv.clk, rate)
           timed == [again EXCEPT !.rate = rate]
           tuned == IF counted THEN timed ELSE first
           on    == [tuned EXCEPT !.i2s = TRUE]
           d     == [s.drv EXCEPT !.fs = rate, !.chan = TRUE]
<1>1. IsTx(first) /\ first.n = NFor(s.drv.clk, s.drv.fs) /\ first.rate = s.drv.fs
  BY SetNCTSFields DEF Tuned
<1>2. ~ counted => rate = s.drv.fs
  OBVIOUS
<1>3. AudioOn(s, f, counted) = [tx |-> on, drv |-> d]
  BY DEF AudioOn
<1> HIDE DEF first, rate
<1>4. IsTx(again) /\ again.n = NFor(s.drv.clk, rate)
  BY <1>1, SetNCTSFields
<1> HIDE DEF again
<1>5. IsTx(timed) /\ timed.n = again.n /\ timed.rate = rate
  BY <1>4 DEF IsTx, TxRegs
<1> HIDE DEF timed
<1>6. IsTx(tuned) /\ tuned.n = NFor(s.drv.clk, rate) /\ tuned.rate = rate
  BY <1>1, <1>2, <1>4, <1>5
<1> HIDE DEF tuned
<1>7. IsTx(on) /\ on.n = tuned.n /\ on.rate = rate
  BY <1>6 DEF IsTx, TxRegs
<1> HIDE DEF on
<1>8. IsDrv(d) /\ d.fs = rate /\ d.clk = s.drv.clk
  BY DEF Tuned, IsDrv
<1> HIDE DEF d
<1>9. AudioOn(s, f, counted).tx = on /\ AudioOn(s, f, counted).drv = d
  BY <1>3
<1> QED BY <1>6, <1>7, <1>8, <1>9 DEF Tuned

\* The audio channel goes down.
LEMMA AudioOffTuned ==
  ASSUME NEW s, Tuned(s.tx, s.drv)
  PROVE  LET t == AudioOff(s) IN
         Tuned(t.tx, t.drv)
<1> DEFINE cut == [s.tx EXCEPT !.i2s = FALSE]
           c   == IF s.drv.chan THEN cut ELSE s.tx
           d   == [s.drv EXCEPT !.chan = FALSE]
<1>1. IsDrv(d) /\ d.clk = s.drv.clk /\ d.fs = s.drv.fs
  BY DEF Tuned, IsDrv
<1>2. IsTx(cut) /\ ~ cut.i2s /\ cut.rate = s.tx.rate
  BY DEF Tuned, IsTx, TxRegs
<1>3. AudioOff(s).tx = c /\ AudioOff(s).drv = d
  BY DEF AudioOff
<1> HIDE DEF d, cut
<1>4. c = cut \/ c = s.tx
  OBVIOUS
<1> HIDE DEF c
<1> QED BY <1>1, <1>2, <1>3, <1>4 DEF Tuned

\* Whatever the lock of the audio channel does, its N stays the right one.
LEMMA AudioChannelTuned ==
  ASSUME NEW c, NEW d, Tuned(c, d), NEW t \in SetupAudioChannel([tx |-> c, drv |-> d])
  PROVE  Tuned(t.tx, t.drv)
<1> DEFINE s == [tx |-> c, drv |-> d]
<1>1. s.tx = c /\ s.drv = d /\ Tuned(s.tx, s.drv)
  OBVIOUS
<1>2. \/ t = s
      \/ \E f \in Freqs, counted \in BOOLEAN : t = AudioOn(s, f, counted)
      \/ t = AudioOff(s)
  BY DEF SetupAudioChannel
<1> HIDE DEF s
<1>3. CASE \E f \in Freqs, counted \in BOOLEAN : t = AudioOn(s, f, counted)
  BY <1>1, <1>3, AudioOnTuned
<1>4. CASE t = AudioOff(s)
  BY <1>1, <1>4, AudioOffTuned
<1> QED BY <1>1, <1>2, <1>3, <1>4

\* The rest of a pass: the audio channel, and the output if a change of it is asked for.
LEMMA RestTuned ==
  ASSUME NEW c, Tuned(c, drv), NEW HPD, NEW change, Rest(c, HPD, change)
  PROVE  Tuned(tx', drv')
<1> DEFINE d == Seen(drv, HPD)
<1>1. Tuned(c, d)
  BY DEF Seen, Tuned, IsDrv
<1>2. PICK s \in SetupAudioChannel([tx |-> c, drv |-> d]) : Gives(s) \/ Output(s)
  BY DEF Rest
<1> HIDE DEF d
<1>3. Tuned(s.tx, s.drv)
  BY <1>1, AudioChannelTuned
<1> DEFINE o == SetOutput(s)
<1>4. Tuned(o.tx, o.drv)
  BY <1>3, SetOutputTuned
<1>5. Gives(s) \/ (tx' = o.tx /\ drv' = o.drv)
  BY <1>2 DEF Output, Gives
<1> HIDE DEF o
<1> QED BY <1>3, <1>4, <1>5 DEF Gives

\* A new sink changes neither the clock nor the rate.
LEMMA NewSinkTuned == Tuned(tx, drv) /\ NewSink => Tuned(tx', drv')
<1> SUFFICES ASSUME Tuned(tx, drv), NewSink PROVE Tuned(tx', drv')
  OBVIOUS
<1>1. IsTx(tx') /\ SameClock(tx, tx')
  <2>1. PICK hangs \in BOOLEAN : tx' = ReadEDID(tx, hangs)
    BY DEF NewSink
  <2> QED BY <2>1, LoopWrites DEF Tuned
<1>2. \/ drv' = [drv EXCEPT !.hdmi = TRUE, !.audio = @ \/ cap'.audio]
      \/ drv' = [drv EXCEPT !.hdmi = TRUE, !.audio = TRUE]
      \/ drv' = [drv EXCEPT !.hdmi = FALSE, !.audio = FALSE]
  BY DEF NewSink
<1>3. ASSUME NEW h \in BOOLEAN, NEW a, drv' = [drv EXCEPT !.hdmi = h, !.audio = a]
      PROVE  IsDrv(drv') /\ drv'.clk = drv.clk /\ drv'.fs = drv.fs
  BY <1>3 DEF Tuned, IsDrv
<1>4. IsDrv(drv') /\ drv'.clk = drv.clk /\ drv'.fs = drv.fs
  <2> DEFINE or == drv.audio \/ cap'.audio
             yes == TRUE
             no == FALSE
  <2>1. \/ drv' = [drv EXCEPT !.hdmi = yes, !.audio = or]
        \/ drv' = [drv EXCEPT !.hdmi = yes, !.audio = yes]
        \/ drv' = [drv EXCEPT !.hdmi = no, !.audio = no]
    BY <1>2
  <2>2. yes \in BOOLEAN /\ no \in BOOLEAN
    OBVIOUS
  <2> HIDE DEF or, yes, no
  <2> QED BY <1>3, <2>1, <2>2
<1> QED BY <1>1, <1>4, TunedStays

\* So do the application's calls, but for a new output, whose sound has its own clock.
LEMMA ApplicationTuned == Tuned(tx, drv) /\ Application => Tuned(tx', drv')
<1> SUFFICES ASSUME Tuned(tx, drv), Application PROVE Tuned(tx', drv')
  OBVIOUS
<1>1. CASE UNCHANGED <<tx, drv>>
  BY <1>1
<1>2. CASE Output(Now)
  <2>1. tx = Now.tx /\ drv = Now.drv
    BY DEF Now
  <2>2. tx' = SetOutput(Now).tx /\ drv' = SetOutput(Now).drv
    BY <1>2 DEF Output, Gives
  <2> QED BY <2>1, <2>2, SetOutputTuned
<1>3. CASE tx' = DisableVideoOutput(tx) /\ UNCHANGED drv
  <2>1. IsTx(tx') /\ SameClock(tx, tx')
    BY <1>3, LoopWrites DEF Tuned
  <2> QED BY <1>3, <2>1, TunedStays DEF Tuned
<1>4. CASE tx' = EnableAudioOutput(tx, want.clk, "48", TRUE) /\ drv' = [drv EXCEPT !.clk = want.clk, !.fs = "48"]
  <2> DEFINE f == "48"
             spdif == TRUE
             d == EnableAudioOutput(tx, want.clk, f, spdif)
  <2>1. tx' = d /\ spdif
    BY <1>4
  <2>2. IsTx(tx') /\ tx'.rate = f /\ ~ tx'.i2s
    <3>1. IsTx(tx)
      BY DEF Tuned
    <3>2. spdif \in BOOLEAN
      OBVIOUS
    <3> HIDE DEF f, spdif
    <3>3. IsTx(d) /\ d.rate = f /\ (spdif => ~ d.i2s)
      BY ONLY <3>1, <3>2, AudioOutputTuned
    <3> HIDE DEF d
    <3> QED BY <2>1, <3>3
  <2>3. IsDrv(drv') /\ drv'.fs = f
    BY <1>4 DEF Tuned, IsDrv
  <2> HIDE DEF f
  <2> QED BY <2>2, <2>3 DEF Tuned
<1> QED BY <1>1, <1>2, <1>3, <1>4 DEF Application

\* An interrupt is latched.
LEMMA EnvironmentTuned == Tuned(tx, drv) /\ Environment => Tuned(tx', drv')
<1> SUFFICES ASSUME Tuned(tx, drv), Environment PROVE Tuned(tx', drv')
  OBVIOUS
<1>1. PICK set : tx' = [tx EXCEPT !.ints = set]
  BY DEF Environment, Raise
<1>2. IsTx(tx') /\ SameClock(tx, tx')
  BY <1>1, LoopWrites DEF Tuned
<1> QED BY <1>2, TunedStays DEF Environment, Tuned

\* The reads of a pass write to the analog part and the resets only.
LEMMA PassTuned ==
  ASSUME Tuned(tx, drv), ReadStatus \/ ReadInt1 \/ ReadInt3 \/ ClearInts
  PROVE  Tuned(tx', drv')
<1>1. \A c : IsTx(c) /\ SameClock(tx, c) => Tuned(c, drv)
  BY TunedStays DEF Tuned
<1>2. IsTx(tx) /\ SameClock(tx, tx)
  BY DEF Tuned, SameClock
<1>3. CASE ReadStatus
  <2> DEFINE change == Detected # drv.bHPD
             dark == [tx EXCEPT !.afe = "off"]
             c == IF change /\ ~ Detected THEN dark ELSE tx
  <2>1. Tuned(c, drv)
    BY <1>1, <1>2, LoopWrites
  <2>2. Rest(c, Detected, change) \/ UNCHANGED <<tx, drv>>
    BY <1>3 DEF ReadStatus
  <2> HIDE DEF c, change
  <2> QED BY <2>1, <2>2, RestTuned
<1>4. CASE ReadInt1
  <2>1. tx' = DisableIT6613(tx) \/ tx' = tx
    BY <1>4 DEF ReadInt1
  <2> QED BY <1>1, <1>2, <1>4, <2>1, LoopWrites DEF ReadInt1
<1>5. CASE ReadInt3
  <2>1. tx' = FireAFE(tx) \/ tx' = tx
    BY <1>5 DEF ReadInt3
  <2> QED BY <1>1, <1>2, <1>5, <2>1, LoopWrites DEF ReadInt3
<1>6. CASE ClearInts
  <2> DEFINE c == [tx EXCEPT !.ints = {}]
  <2>1. Tuned(c, drv)
    BY <1>1, <1>2, LoopWrites
  <2>2. Rest(c, pass.HPD, pass.change)
    BY <1>6 DEF ClearInts
  <2> HIDE DEF c
  <2> QED BY <2>1, <2>2, RestTuned
<1> QED BY <1>3, <1>4, <1>5, <1>6

\* Sound that is on the air has the N of its pixel clock and its rate.
THEOREM SoundFollowsClock == LoopSpec => []SourceClock
<1> DEFINE Inv == Tuned(tx, drv)
<1>1. Inv /\ [LoopNext]_<<tx, devloop>> => Inv'
  <2>1. Inv /\ LoopNext => Inv'
    BY ApplicationTuned, EnvironmentTuned, PassTuned, NewSinkTuned DEF LoopNext, DevLoopProc
  <2>2. Inv /\ UNCHANGED <<tx, devloop>> => Inv'
    BY DEF Tuned, IsTx, IsDrv, devloop
  <2> QED BY <2>1, <2>2
<1>2. Inv => SourceClock
  BY DEF Tuned, SourceClock
<1> QED BY InitTuned, <1>1, <1>2, PTL DEF LoopSpec
================================================================================
