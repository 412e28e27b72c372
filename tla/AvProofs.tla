-------------------------------- MODULE AvProofs --------------------------------
(***************************************************************************)
(* Proofs about AvController and AvHistory: for every set of               *)
(* configurations, presets, profiles and readings, and whatever the user   *)
(* and the signal do.                                                      *)
(***************************************************************************)
EXTENDS AvHistory, TLAPS

IsHw(h) == h = [r \in {"src", "powered", "afe", "frontend", "sc", "tx", "itc", "audio"} |-> h[r]]

IsAuto(a) ==
  /\ a = [v \in {"changed", "ctr", "current_ctr", "lost"} |-> a[v]]
  /\ a.changed \in BOOLEAN /\ a.lost \in BOOLEAN
  /\ a.ctr \in Nat /\ a.current_ctr \in 0 .. AutoCurrentMax

AvTypeOK ==
  /\ pc \in {"top", "parse", "link", "switch", "tx", "status"}
  /\ IsConfig(tc) /\ IsConfig(cc)
  /\ update_cur_vm \in BOOLEAN
  /\ IsReading(cm) /\ (cm.sync_active => cm \in Reading)
  /\ avinput \in Input /\ target_input \in Input
  /\ man \in BOOLEAN /\ menu_active \in BOOLEAN /\ in_standby \in BOOLEAN
  /\ IsAuto(auto)
  /\ profiles = [n \in Profile |-> profiles[n]] /\ \A n \in Profile : IsSlot(profiles[n])
  /\ profile_sel \in Profile
  /\ input_profiles \in [Input -> Profile]
  /\ IsHw(hw)
--------------------------------------------------------------------------------
(* What the drivers' operators keep and change. *)

\* Setting up the transmitter touches nothing else.
LEMMA TxEnableFields ==
  ASSUME NEW h, IsHw(h), NEW c, NEW tx
  PROVE  LET t == TxEnable(h, c, tx) IN
         /\ IsHw(t)
         /\ t.src = h.src /\ t.powered = h.powered /\ t.afe = h.afe
         /\ t.frontend = h.frontend /\ t.sc = h.sc
         /\ t.tx = tx /\ t.audio = Audio(c, tx)
         /\ t.itc = IF tx = "DVI" THEN h.itc ELSE c.itc
BY DEF TxEnable, IsHw

\* Nor does a change of the transmitter's settings.
LEMMA TxUpdatedFields ==
  ASSUME IsHw(hw)
  PROVE  LET h == TxUpdated(hw) IN
         /\ IsHw(h)
         /\ h.src = hw.src /\ h.powered = hw.powered /\ h.afe = hw.afe
         /\ h.frontend = hw.frontend /\ h.sc = hw.sc
         /\ h.tx = IF tc.tx # cc.tx THEN tc.tx ELSE hw.tx
         /\ h.audio = IF tc.tx # cc.tx THEN Audio(tc, tc.tx) ELSE hw.audio
         /\ tc.tx # "DVI" => h.itc = IF tc.tx # cc.tx \/ tc.itc # cc.itc THEN tc.itc ELSE hw.itc
<1> DEFINE zero == [hw EXCEPT !.itc = 0]
           on == IF tc.tx # cc.tx THEN TxEnable(zero, tc, tc.tx) ELSE hw
<1>1. /\ IsHw(zero)
      /\ zero.src = hw.src /\ zero.powered = hw.powered /\ zero.afe = hw.afe
      /\ zero.frontend = hw.frontend /\ zero.sc = hw.sc
  BY DEF IsHw
<1> HIDE DEF zero
<1>2. /\ IsHw(on)
      /\ on.src = hw.src /\ on.powered = hw.powered /\ on.afe = hw.afe
      /\ on.frontend = hw.frontend /\ on.sc = hw.sc
      /\ on.tx = IF tc.tx # cc.tx THEN tc.tx ELSE hw.tx
      /\ on.audio = IF tc.tx # cc.tx THEN Audio(tc, tc.tx) ELSE hw.audio
      /\ tc.tx # "DVI" => on.itc = IF tc.tx # cc.tx THEN tc.itc ELSE hw.itc
  BY <1>1, TxEnableFields
<1>3. TxUpdated(hw) = IF tc.tx # "DVI" /\ tc.itc # cc.itc THEN [on EXCEPT !.itc = tc.itc] ELSE on
  BY DEF TxUpdated, zero
<1> HIDE DEF on
<1> QED BY <1>2, <1>3 DEF IsHw

\* What get_status writes of the settings that differ is the front end's and the sound's, nothing else.
LEMMA AdjustedFields ==
  ASSUME IsHw(hw)
  PROVE  LET h == Adjusted(hw) IN
         /\ IsHw(h)
         /\ h.src = hw.src /\ h.powered = hw.powered /\ h.frontend = hw.frontend /\ h.sc = hw.sc
         /\ h.tx = hw.tx /\ h.itc = hw.itc
         /\ h.afe = IF tc.afe # cc.afe THEN tc.afe ELSE hw.afe
         /\ h.audio = IF tc.audio # cc.audio THEN Audio(tc, tc.tx) ELSE hw.audio
BY DEF Adjusted, IsHw

\* A mode that exists is programmed into the front end and the scan converter.
LEMMA ProgrammedFields ==
  ASSUME NEW h, IsHw(h), NEW m, NEW full \in BOOLEAN
  PROVE  LET p == Programmed(h, m, full) IN
         /\ IsHw(p)
         /\ p.src = h.src /\ p.powered = h.powered /\ p.afe = h.afe
         /\ m = NoMode \/ (p.frontend = m /\ p.sc = [vmode |-> m, post |-> tc.sc])
         /\ p.tx \in {h.tx, tc.tx} /\ p.itc \in {h.itc, tc.itc}
         /\ p.audio \in {h.audio, Audio(tc, tc.tx)}
<1> DEFINE prog == [h EXCEPT !.frontend = m, !.sc = [vmode |-> m, post |-> tc.sc],
                             !.itc = IF tc.tx = "DVI" THEN @ ELSE tc.itc]
           on == TxEnable(prog, tc, tc.tx)
<1>1. /\ IsHw(prog)
      /\ prog.src = h.src /\ prog.powered = h.powered /\ prog.afe = h.afe
      /\ prog.frontend = m /\ prog.sc = [vmode |-> m, post |-> tc.sc]
      /\ prog.tx = h.tx /\ prog.itc = (IF tc.tx = "DVI" THEN h.itc ELSE tc.itc) /\ prog.audio = h.audio
  BY DEF IsHw
<1>2. Programmed(h, m, full) = IF m = NoMode THEN h ELSE IF full THEN on ELSE prog
  BY DEF Programmed
<1> HIDE DEF prog
<1>3. /\ IsHw(on)
      /\ on.src = prog.src /\ on.powered = prog.powered /\ on.afe = prog.afe
      /\ on.frontend = prog.frontend /\ on.sc = prog.sc
      /\ on.tx = tc.tx /\ on.audio = Audio(tc, tc.tx)
      /\ on.itc = IF tc.tx = "DVI" THEN prog.itc ELSE tc.itc
  BY <1>1, TxEnableFields
<1> HIDE DEF on
<1> QED BY <1>1, <1>2, <1>3

\* When sync comes up the front end is powered and the sound started as well.
LEMMA SyncUpFields ==
  ASSUME NEW h, IsHw(h), NEW m, NEW full \in BOOLEAN
  PROVE  LET u == SyncUp(h, m, full) IN
         /\ IsHw(u)
         /\ u.src = h.src /\ u.powered /\ u.afe = h.afe
         /\ m = NoMode \/ (u.frontend = m /\ u.sc = [vmode |-> m, post |-> tc.sc])
         /\ u.tx \in {h.tx, tc.tx} /\ u.itc \in {h.itc, tc.itc}
         /\ u.audio = Audio(tc, tc.tx)
<1> DEFINE on == [h EXCEPT !.powered = TRUE]
           p == Programmed(on, m, full)
<1>1. /\ IsHw(on)
      /\ on.src = h.src /\ on.powered = TRUE /\ on.afe = h.afe
      /\ on.tx = h.tx /\ on.itc = h.itc
  BY DEF IsHw
<1> HIDE DEF on
<1>2. /\ IsHw(p)
      /\ p.src = on.src /\ p.powered = on.powered /\ p.afe = on.afe
      /\ m = NoMode \/ (p.frontend = m /\ p.sc = [vmode |-> m, post |-> tc.sc])
      /\ p.tx \in {on.tx, tc.tx} /\ p.itc \in {on.itc, tc.itc}
  BY <1>1, ProgrammedFields
<1>3. SyncUp(h, m, full) = [p EXCEPT !.audio = Audio(tc, tc.tx)]
  BY DEF SyncUp, on
<1> HIDE DEF p
<1> QED BY <1>1, <1>2, <1>3 DEF IsHw
--------------------------------------------------------------------------------
(* The invariants. *)

\* cc and cm describe the chips; where they may not, in the middle of a pass, the
\* pass is still to make them.  Between passes they are also what the user wants.
ChipsInv ==
  /\ ~ in_standby
  /\ hw.powered = cm.sync_active
  /\ avinput = "AV_TESTPAT" => ~ cm.sync_active
  /\ hw.afe = cc.afe
  /\ avinput # "AV_TESTPAT" => hw.src = Source(avinput, IF pc = "tx" THEN tc.alt ELSE cc.alt)
  /\ hw.tx = cc.tx
  /\ hw.tx # "DVI" => hw.itc = cc.itc
  /\ pc = "status" =>
       /\ avinput # "AV_TESTPAT"
       /\ cc.tx = tc.tx /\ cc.alt = tc.alt
       /\ tc.tx # "DVI" => cc.itc = tc.itc
  /\ pc = "top" /\ avinput # "AV_TESTPAT" => cc = tc /\ ~ update_cur_vm

\* With a picture, the mode last computed is that of the last reading under cc, and
\* it is programmed, unless a change of the table is still to be obeyed.
ModeInv ==
  cm.sync_active /\ ~ update_cur_vm /\ [reading |-> cm, mode |-> cc.mode] \notin Unsupported =>
    /\ vmode = [totlines |-> cm.totlines, progressive |-> cm.progressive, mode |-> cc.mode, table |-> table]
    /\ hw.frontend = vmode
    /\ hw.sc = [vmode |-> vmode, post |-> cc.sc]

\* The sound is that of cc, or already that of tc when the transmitter was set up
\* for a change of its mode.
SoundInv ==
  cm.sync_active =>
    \/ hw.audio = Audio(cc, cc.tx)
    \/ pc = "status" /\ hw.audio = Audio(tc, tc.tx)

\* How the current profile was chosen: while a chosen profile may not be the one
\* linked to the target input, there is a change that LinkProfile is still to see.
LinkInv ==
  /\ pc \in {"top", "parse", "tx", "status"} => ~ man
  /\ pc \in {"top", "parse"} /\ target_input # avinput =>
       ~ menu_active /\ ~ cm.sync_active /\ (auto.changed \/ ~ chosen)
  /\ pc \in {"tx", "status"} => target_input = avinput
  /\ held /\ (pc \in {"switch", "tx", "status"} \/ Rest) => ~ auto.changed
  /\ chosen /\ profile_link =>
       \/ profile_sel = input_profiles[target_input]
       \/ auto.changed
       \/ pc = "link" /\ man /\ target_input # avinput

\* The search stays with home as long as main's own counter says so.
HomeInv ==
  /\ tries \in Nat
  /\ home # "none" =>
       /\ tries <= AutoCurrentMax => auto.current_ctr = tries
       /\ auto_input = "current" \/ tries <= AutoCurrentMax => Connector(target_input) = home
       /\ Rest => avinput = target_input
--------------------------------------------------------------------------------
(* Types. *)

\* Only a reading with sync is good.
LEMMA GoodReadings ==
  ASSUME NEW r, IsReading(r)
  PROVE  Good(r) \in BOOLEAN /\ (Good(r) => r.sync_active)
BY DEF Good, IsReading

\* A slot that is not empty holds a configuration.
LEMMA LoadSlotTypes ==
  ASSUME AvTypeOK, NEW n \in Profile, LoadSlot(n)
  PROVE  IsConfig(tc') /\ update_cur_vm' \in BOOLEAN
BY DEF LoadSlot, AvTypeOK, IsSlot

\* init_hw leaves the chips powered down, with the defaults of tvp_init, and the
\* transmitter in HDMI mode.
LEMMA InitHwFields ==
  ASSUME NEW c, NEW cur
  PROVE  LET h == InitHw(c, cur) IN
         /\ IsHw(h)
         /\ h.powered = FALSE /\ h.afe = DefaultConfig.afe /\ h.tx = "HDMI" /\ h.itc = c.itc
<1> DEFINE reset == [src |-> NoSource, powered |-> FALSE, afe |-> DefaultConfig.afe,
                     frontend |-> TestMode, sc |-> [vmode |-> TestMode, post |-> cur.sc],
                     tx |-> "HDMI", itc |-> c.itc, audio |-> "off"]
<1>1. IsHw(reset) /\ reset.powered = FALSE /\ reset.afe = DefaultConfig.afe
  BY DEF IsHw
<1>2. InitHw(c, cur) = TxEnable(reset, c, "HDMI")
  BY DEF InitHw
<1> HIDE DEF reset
<1> QED BY <1>1, <1>2, TxEnableFields

\* Every state is well formed at the start.
LEMMA InitTypes == Init => AvTypeOK
<1> SUFFICES ASSUME Init PROVE AvTypeOK
  OBVIOUS
<1>1. input_profiles \in [Input -> Profile] /\ profile_sel \in Profile
  BY ConfigAssumption DEF Init, Input
<1>2. profiles = [n \in Profile |-> profiles[n]] /\ \A n \in Profile : IsSlot(profiles[n])
  BY ConfigAssumption DEF Init
<1>3. IsConfig(tc)
  BY <1>1, <1>2, ConfigAssumption DEF Init, IsSlot
<1>4. IsConfig(cc)
  BY ConfigAssumption DEF Init, IsConfig
<1>5. IsHw(hw)
  BY InitHwFields DEF Init
<1>6. IsReading(cm) /\ ~ cm.sync_active
  BY DEF Init, IsReading
<1>7. IsAuto(auto)
  BY SearchAssumption DEF Init, IsAuto
<1> QED BY <1>1, <1>2, <1>3, <1>4, <1>5, <1>6, <1>7, InputAssumption DEF Init, AvTypeOK, Input

\* The automatic search keeps every variable in its range.
LEMMA AutoInputTypes ==
  ASSUME AvTypeOK, AutoInput
  PROVE  AvTypeOK'
<1>1. target_input' \in Input
  <2>1. CASE Searching /\ target_input' = NextInput(avinput)
    <3>1. avinput \in Input \ {"AV_TESTPAT"} /\ target_input \in Input
      BY <2>1 DEF Searching, AvTypeOK
    <3>2. NextInput(avinput) \in Input
      BY <3>1 DEF NextInput, Input
    <3> QED BY <2>1, <3>2
  <2> QED BY <2>1 DEF AutoInput, AvTypeOK
<1>2. IsAuto(auto')
  <2>1. IsAuto(Attempted(auto))
    BY SearchAssumption DEF AvTypeOK, Attempted, IsAuto
  <2>2. IsAuto([auto EXCEPT !.lost = FALSE])
    BY DEF AvTypeOK, IsAuto
  <2> QED BY <2>1, <2>2 DEF AutoInput
<1> QED BY <1>1, <1>2 DEF AvTypeOK, AutoInput, config, ui, profileVars

\* A key keeps every variable in its range.
LEMMA ControlsParseTypes ==
  ASSUME AvTypeOK, ControlsParse
  PROVE  AvTypeOK'
<1> DEFINE keep == pc' \in {"top", "link"} /\ auto' = auto /\ avinput' = avinput
<1>0. pc' \in {"top", "link"}
  BY DEF ControlsParse
<1>1. CASE NoKey
  BY <1>0, <1>1 DEF AvTypeOK, NoKey, config, ui, profileVars
<1>2. ASSUME NEW i \in UserInput, SelectInput(i)
      PROVE  AvTypeOK'
  BY <1>0, <1>2, InputAssumption DEF AvTypeOK, SelectInput, config, ui, profileVars
<1>3. CASE MenuKey
  BY <1>0, <1>3 DEF AvTypeOK, MenuKey, config, profileVars
<1>4. ASSUME NEW c \in Config, ChangeSetting(c)
      PROVE  AvTypeOK'
  BY <1>0, <1>4, ConfigAssumption DEF AvTypeOK, ChangeSetting, profileVars
<1>5. ASSUME NEW t \in Table, TweakMode(t)
      PROVE  AvTypeOK'
  BY <1>0, <1>5 DEF AvTypeOK, TweakMode, ui, profileVars
<1>6. CASE ResetSettings
  BY <1>0, <1>6, ConfigAssumption DEF AvTypeOK, ResetSettings, ui, profileVars
<1>7. ASSUME NEW n \in Profile, LoadProfile(n)
      PROVE  AvTypeOK'
  <2>1. IsConfig(tc') /\ update_cur_vm' \in BOOLEAN
    BY <1>7, LoadSlotTypes DEF LoadProfile
  <2>2. target_input' \in Input /\ profile_sel' \in Profile
    BY <1>7, <2>1 DEF LoadProfile, AvTypeOK, IsConfig, AV_LAST
  <2>3. input_profiles' \in [Input -> Profile]
    BY <1>7 DEF LoadProfile, AvTypeOK
  <2>4. menu_active' \in BOOLEAN
    BY <1>7 DEF LoadProfile, AvTypeOK
  <2> QED BY <1>0, <1>7, <2>1, <2>2, <2>3, <2>4 DEF LoadProfile, AvTypeOK
<1>8. ASSUME NEW n \in SaveSlots, SaveProfile(n)
      PROVE  AvTypeOK'
  <2>1. n \in Profile
    BY ConfigAssumption
  <2>2. IsSlot(Used(tc, Stored[table]))
    BY DEF AvTypeOK, IsSlot, Used
  <2>3. /\ profiles' = [m \in Profile |-> profiles'[m]]
        /\ \A m \in Profile : IsSlot(profiles'[m])
    <3> DEFINE slot == Used(tc, Stored[table])
    <3>1. profiles' = [profiles EXCEPT ![n] = slot]
      BY <1>8 DEF SaveProfile
    <3> HIDE DEF slot
    <3>2. IsSlot(slot)
      BY <2>2 DEF slot
    <3> QED BY <2>1, <3>1, <3>2 DEF AvTypeOK
  <2>4. input_profiles' \in [Input -> Profile] /\ profile_sel' \in Profile
    BY <1>8, <2>1 DEF SaveProfile, AvTypeOK
  <2> QED BY <1>0, <1>8, <2>3, <2>4 DEF SaveProfile, AvTypeOK, config, ui
<1>9. CASE EnterStandby
  <2>1. IsHw(hw')
    BY <1>9 DEF EnterStandby, AvTypeOK, IsHw
  <2> QED BY <1>0, <1>9, <2>1 DEF EnterStandby, AvTypeOK, config, profileVars
<1>10. CASE ExitStandby
  <2>1. IsHw(hw')
    BY <1>10, InitHwFields DEF ExitStandby
  <2>2. IsConfig(cc')
    BY <1>10 DEF ExitStandby, AvTypeOK, IsConfig
  <2> QED BY <1>0, <1>10, <2>1, <2>2 DEF ExitStandby, AvTypeOK, profileVars
<1> QED
  BY <1>1, <1>2, <1>3, <1>4, <1>5, <1>6, <1>7, <1>8, <1>9, <1>10 DEF ControlsParse

\* So does loading the linked profile,
LEMMA LinkProfileTypes ==
  ASSUME AvTypeOK, LinkProfile
  PROVE  AvTypeOK'
<1>1. input_profiles[target_input] \in Profile
  BY DEF AvTypeOK
<1>2. IsConfig(tc') /\ update_cur_vm' \in BOOLEAN /\ profile_sel' \in Profile
  BY <1>1, LoadSlotTypes DEF LinkProfile, AvTypeOK
<1>3. IsAuto(auto')
  BY DEF LinkProfile, AvTypeOK, IsAuto
<1> QED BY <1>2, <1>3 DEF LinkProfile, AvTypeOK, ui

\* the switch of the input,
LEMMA SwitchInputTypes ==
  ASSUME AvTypeOK, SwitchInput
  PROVE  AvTypeOK'
<1>1. IsReading(cm') /\ (cm'.sync_active => cm' \in Reading)
  BY DEF SwitchInput, AvTypeOK, IsReading
<1>2. IsHw(hw')
  BY DEF SwitchInput, AvTypeOK, IsHw
<1>3. IsAuto(auto')
  BY DEF SwitchInput, AvTypeOK, IsAuto
<1> QED BY <1>1, <1>2, <1>3 DEF SwitchInput, AvTypeOK, config, ui, profileVars

\* the update of the transmitter,
LEMMA UpdateTxTypes ==
  ASSUME AvTypeOK, UpdateTx
  PROVE  AvTypeOK'
<1>1. IsConfig(cc')
  BY DEF UpdateTx, AvTypeOK, IsConfig
<1>2. IsHw(hw')
  BY TxUpdatedFields DEF UpdateTx, AvTypeOK
<1> QED BY <1>1, <1>2 DEF UpdateTx, AvTypeOK, ui, profileVars
\* What is left of the chips when sync is lost, and when the scan converter alone
\* is programmed again.
Off(h) == [h EXCEPT !.powered = FALSE]
Rescaled(h) == [h EXCEPT !.sc = [vmode |-> vmode, post |-> tc.sc]]

\* What get_status makes of a reading: sync comes up, sync is lost, the mode is
\* programmed again, or at most the scan converter is.
LEMMA GetStatusCases ==
  ASSUME AvTypeOK, NEW r \in Reading, GetStatus(r)
  PROVE  LET h == Adjusted(hw)
             m == ModeFor(r)
         IN  \/ /\ Good(r) /\ ~ cm.sync_active
                /\ vmode' = m /\ auto' = auto
                /\ \E full \in BOOLEAN : hw' = SyncUp(h, m, full)
             \/ /\ ~ Good(r) /\ cm.sync_active
                /\ vmode' = vmode /\ auto' = SyncLost(auto)
                /\ hw' = Off(h)
             \/ /\ Good(r) /\ cm.sync_active
                /\ vmode' = m /\ auto' = auto
                /\ \E full \in BOOLEAN : hw' = Programmed(h, m, full)
             \/ /\ (Good(r) <=> cm.sync_active)
                /\ Good(r) => ~ Differs(r) /\ tc.mode = cc.mode /\ ~ update_cur_vm
                /\ vmode' = vmode /\ auto' = auto
                /\ hw' = Rescaled(h) \/ (hw' = h /\ (tc.sc = cc.sc \/ ~ Good(r)))
<1>1. IsReading(r) /\ cm.sync_active \in BOOLEAN
  BY ReadingAssumption DEF AvTypeOK, IsReading
<1>2. Good(r) \in BOOLEAN
  BY <1>1, GoodReadings
<1>3. Good(r) => cm'.sync_active
  BY <1>1, GoodReadings DEF GetStatus
<1>4. CASE Status(r) = "ACTIVITY_CHANGE"
  BY <1>1, <1>2, <1>4 DEF GetStatus, Status, Off
<1>5. CASE Status(r) = "MODE_CHANGE"
  BY <1>1, <1>2, <1>5 DEF GetStatus, Status
<1>6. CASE Status(r) = "SC_CONFIG_CHANGE"
  <2>1. /\ (Good(r) <=> cm.sync_active)
        /\ Good(r) => ~ Differs(r) /\ tc.mode = cc.mode /\ ~ update_cur_vm
    BY <1>1, <1>2, <1>6 DEF Status
  <2>2. /\ hw' = IF cm'.sync_active THEN Rescaled(Adjusted(hw)) ELSE Adjusted(hw)
        /\ vmode' = vmode /\ auto' = auto
    BY <1>6 DEF GetStatus, Rescaled
  <2>3. hw' = Rescaled(Adjusted(hw)) \/ (hw' = Adjusted(hw) /\ (tc.sc = cc.sc \/ ~ Good(r)))
    BY <1>3, <2>2
  <2> QED BY <2>1, <2>2, <2>3
<1>7. CASE Status(r) = "NO_CHANGE"
  BY <1>1, <1>2, <1>7 DEF GetStatus, Status
<1> QED BY <1>4, <1>5, <1>6, <1>7 DEF Status

\* and a reading of the status.
LEMMA GetStatusTypes ==
  ASSUME AvTypeOK, NEW r \in Reading, GetStatus(r)
  PROVE  AvTypeOK'
<1> DEFINE h == Adjusted(hw)
           m == ModeFor(r)
<1>1. IsReading(r) /\ (Good(r) => r.sync_active)
  BY ReadingAssumption, GoodReadings
<1>2. IsReading(cm') /\ (cm'.sync_active => cm' \in Reading)
  BY <1>1 DEF GetStatus, AvTypeOK, IsReading
<1>3. IsHw(h)
  BY AdjustedFields DEF AvTypeOK
<1>4. IsHw(Off(h)) /\ IsHw(Rescaled(h))
  BY <1>3 DEF IsHw, Off, Rescaled
<1>5. \A full \in BOOLEAN : IsHw(SyncUp(h, m, full)) /\ IsHw(Programmed(h, m, full))
  BY <1>3, SyncUpFields, ProgrammedFields
<1>6. IsAuto(SyncLost(auto))
  <2> DEFINE a == SyncLost(auto)
  <2>1. /\ a = [v \in {"changed", "ctr", "current_ctr", "lost"} |-> a[v]]
        /\ a.changed \in BOOLEAN /\ a.lost \in BOOLEAN
        /\ a.ctr = 0 /\ a.current_ctr = 0
    BY DEF SyncLost, IsAuto, AvTypeOK
  <2> QED BY <2>1, SearchAssumption DEF IsAuto
<1> HIDE DEF h, m
<1>7. IsHw(hw') /\ IsAuto(auto')
  BY <1>3, <1>4, <1>5, <1>6, GetStatusCases DEF AvTypeOK, h, m
<1> QED BY <1>2, <1>7 DEF GetStatus, AvTypeOK, ui, profileVars

\* Every step keeps the state well formed.
LEMMA NextTypes == AvTypeOK /\ [Next]_vars => AvTypeOK'
<1>1. ASSUME AvTypeOK, UNCHANGED vars
      PROVE  AvTypeOK'
  BY <1>1 DEF AvTypeOK, vars, config, ui, profileVars
<1> QED
  BY <1>1, AutoInputTypes, ControlsParseTypes, LinkProfileTypes, SwitchInputTypes, UpdateTxTypes,
     GetStatusTypes DEF Next
--------------------------------------------------------------------------------
(* The hardware, in a session without standby on a device strapped to HDMI. *)

\* The transmitter is strapped to HDMI, and the device stays on.
PlainDevice == Standby = FALSE /\ DefaultConfig.tx = "HDMI"

Hardware == ChipsInv /\ ModeInv /\ SoundInv

\* The route of an input that has its sync from elsewhere does not depend on av3_alt_rgb.
LEMMA SourceOfOthers ==
  ASSUME NEW i \in Input \ OwnSync, NEW a, NEW b
  PROVE  Source(i, a) = Source(i, b)
BY DEF Source, Route

\* init_hw writes what main's configuration says.
LEMMA InitHardware == PlainDevice /\ Init => Hardware
<1> SUFFICES ASSUME PlainDevice, Init PROVE Hardware
  OBVIOUS
<1>1. hw.powered = FALSE /\ hw.afe = DefaultConfig.afe /\ hw.tx = "HDMI" /\ hw.itc = tc.itc
  BY InitHwFields DEF Init
<1>2. /\ cc.itc = tc.itc /\ cc.afe = DefaultConfig.afe /\ cc.tx = "HDMI"
  BY ConfigAssumption DEF Init, PlainDevice, IsConfig
<1>3. cm.sync_active = FALSE /\ pc = "top" /\ avinput = "AV_TESTPAT" /\ in_standby = FALSE
  BY DEF Init
<1> QED BY <1>1, <1>2, <1>3 DEF Hardware, ChipsInv, ModeInv, SoundInv

\* A search attempt changes no chip.
LEMMA AutoInputHardware ==
  ASSUME AvTypeOK, Hardware, AutoInput
  PROVE  Hardware'
BY DEF AutoInput, Hardware, ChipsInv, ModeInv, SoundInv, config, ui

\* Keys change only what the user wants, until the pass comes to obey it.
LEMMA ControlsParseHardware ==
  ASSUME PlainDevice, AvTypeOK, Hardware, ControlsParse
  PROVE  Hardware'
<1>1. UNCHANGED <<cc, cm, avinput, vmode, hw>> /\ pc = "parse" /\ in_standby' = in_standby
  BY DEF PlainDevice, Hardware, ChipsInv, ControlsParse, NoKey, SelectInput, MenuKey, ChangeSetting,
         TweakMode, ResetSettings, LoadProfile, SaveProfile, EnterStandby, config, ui
<1>2. pc' = "link"
  BY <1>1 DEF ControlsParse, Hardware, ChipsInv
<1>3. update_cur_vm' \/ (update_cur_vm' = update_cur_vm /\ table' = table) \/ ~ cm.sync_active
  BY DEF ControlsParse, Hardware, ChipsInv, NoKey, SelectInput, MenuKey, ChangeSetting, LoadSlot,
         TweakMode, ResetSettings, LoadProfile, SaveProfile, EnterStandby, config, ui, AvTypeOK
<1> QED BY <1>1, <1>2, <1>3 DEF Hardware, ChipsInv, ModeInv, SoundInv

\* A linked profile changes only what the user wants.
LEMMA LinkProfileHardware ==
  ASSUME AvTypeOK, Hardware, LinkProfile
  PROVE  Hardware'
<1>1. UNCHANGED <<cc, cm, avinput, vmode, hw, in_standby>> /\ pc = "link" /\ pc' = "switch"
  BY DEF LinkProfile, ui
<1>2. update_cur_vm' \/ (update_cur_vm' = update_cur_vm /\ table' = table)
  BY DEF LinkProfile, LoadSlot
<1> QED BY <1>1, <1>2 DEF Hardware, ChipsInv, ModeInv, SoundInv

\* Switching powers the front end down; it is routed to the input, with the
\* settings that are wanted.
LEMMA SwitchInputHardware ==
  ASSUME AvTypeOK, Hardware, SwitchInput
  PROVE  Hardware'
<1>1. CASE SwitchDue
  <2>1. /\ cm'.sync_active = FALSE /\ avinput' = target_input
        /\ hw'.src = Source(target_input, tc.alt) /\ hw'.powered = FALSE
        /\ hw'.afe = hw.afe /\ hw'.tx = hw.tx /\ hw'.itc = hw.itc
    BY <1>1 DEF SwitchInput, AvTypeOK, IsReading, IsHw
  <2> QED BY <2>1 DEF SwitchInput, Hardware, ChipsInv, ModeInv, SoundInv, config, ui
<1>2. CASE ~ SwitchDue
  <2>1. Source(avinput, tc.alt) = Source(avinput, cc.alt)
    BY <1>2, SourceOfOthers DEF SwitchDue, AvTypeOK
  <2> QED BY <1>2, <2>1 DEF SwitchInput, Hardware, ChipsInv, ModeInv, SoundInv, config, ui
<1> QED BY <1>1, <1>2
\* The transmitter becomes what is wanted, before the pass reads the front end.
LEMMA UpdateTxHardware ==
  ASSUME AvTypeOK, Hardware, UpdateTx
  PROVE  Hardware'
<1>1. /\ hw'.src = hw.src /\ hw'.powered = hw.powered /\ hw'.afe = hw.afe
      /\ hw'.frontend = hw.frontend /\ hw'.sc = hw.sc
      /\ hw'.tx = IF tc.tx # cc.tx THEN tc.tx ELSE hw.tx
      /\ hw'.audio = IF tc.tx # cc.tx THEN Audio(tc, tc.tx) ELSE hw.audio
      /\ tc.tx # "DVI" => hw'.itc = IF tc.tx # cc.tx \/ tc.itc # cc.itc THEN tc.itc ELSE hw.itc
  BY TxUpdatedFields DEF UpdateTx, AvTypeOK
<1>2. /\ cc'.tx = tc.tx /\ cc'.alt = tc.alt /\ (tc.tx # "DVI" => cc'.itc = tc.itc)
      /\ cc'.afe = cc.afe /\ cc'.mode = cc.mode /\ cc'.sc = cc.sc /\ cc'.audio = cc.audio
  BY DEF UpdateTx, AvTypeOK, IsConfig
<1>3. /\ pc = "tx" /\ pc' = IF avinput = "AV_TESTPAT" THEN "top" ELSE "status"
      /\ UNCHANGED <<tc, table, update_cur_vm, cm, avinput, in_standby, vmode>>
  BY DEF UpdateTx, ui
<1>4. ChipsInv'
  BY <1>1, <1>2, <1>3 DEF Hardware, ChipsInv
<1>5. ModeInv'
  BY <1>1, <1>2, <1>3 DEF Hardware, ModeInv
<1>6. SoundInv'
  BY <1>1, <1>2, <1>3 DEF Hardware, ChipsInv, SoundInv, Audio
<1> QED BY <1>4, <1>5, <1>6 DEF Hardware

\* A reading that does not differ from cm has a preset if cm has one, and the mode
\* computed for cm is the one for it.
LEMMA SameReading ==
  ASSUME NEW r \in Reading, cm \in Reading, ~ Differs(r), NEW mode
  PROVE  /\ r.totlines = cm.totlines /\ r.progressive = cm.progressive
         /\ [reading |-> cm, mode |-> mode] \in Unsupported => [reading |-> r, mode |-> mode] \in Unsupported
<1>1. r.totlines = cm.totlines /\ r.progressive = cm.progressive
  BY DEF Differs
<1>2. ASSUME [reading |-> cm, mode |-> mode] \in Unsupported
      PROVE  [reading |-> r, mode |-> mode] \in Unsupported
  BY <1>1, <1>2, ReadingAssumption
<1> QED BY <1>1, <1>2

\* get_status and the reactions to it leave the chips as cc, now tc, says, with the
\* mode of the reading programmed.
LEMMA GetStatusHardware ==
  ASSUME AvTypeOK, Hardware, NEW r \in Reading, GetStatus(r)
  PROVE  Hardware'
<1> DEFINE h == Adjusted(hw)
           m == ModeFor(r)
           off == Off(h)
           redone == Rescaled(h)
<1>1. /\ pc = "status" /\ pc' = "top" /\ cc' = tc /\ update_cur_vm' = FALSE
      /\ cm' = IF Good(r) THEN r ELSE [cm EXCEPT !.sync_active = FALSE]
      /\ UNCHANGED <<tc, table, avinput, in_standby>>
  BY DEF GetStatus, ui
<1>2. /\ avinput # "AV_TESTPAT" /\ ~ in_standby
      /\ cc.tx = tc.tx /\ cc.alt = tc.alt /\ (tc.tx # "DVI" => cc.itc = tc.itc)
  BY <1>1 DEF Hardware, ChipsInv
<1>3. /\ IsHw(h)
      /\ h.src = Source(avinput, tc.alt) /\ h.powered = cm.sync_active
      /\ h.afe = tc.afe /\ h.tx = tc.tx /\ (tc.tx # "DVI" => h.itc = tc.itc)
      /\ h.frontend = hw.frontend /\ h.sc = hw.sc
      /\ cm.sync_active => h.audio = Audio(tc, tc.tx)
  BY <1>1, <1>2, AdjustedFields DEF AvTypeOK, Hardware, ChipsInv, SoundInv, Audio
<1>4. /\ Good(r) \in BOOLEAN /\ (Good(r) => r.sync_active = TRUE)
      /\ IsReading(r) /\ cm.sync_active \in BOOLEAN
      /\ cm'.sync_active = Good(r)
  BY <1>1, ReadingAssumption, GoodReadings DEF AvTypeOK, IsReading
<1>5. /\ off.src = h.src /\ off.powered = FALSE /\ off.afe = h.afe /\ off.tx = h.tx /\ off.itc = h.itc
      /\ redone.src = h.src /\ redone.powered = h.powered /\ redone.afe = h.afe
      /\ redone.tx = h.tx /\ redone.itc = h.itc /\ redone.frontend = h.frontend /\ redone.audio = h.audio
      /\ redone.sc = [vmode |-> vmode, post |-> tc.sc]
  BY <1>3 DEF IsHw, Off, Rescaled
<1>6. m # NoMode \/ [reading |-> r, mode |-> tc.mode] \in Unsupported
  BY DEF ModeFor, NoMode
<1>7. [reading |-> r, mode |-> tc.mode] \notin Unsupported =>
        m = [totlines |-> r.totlines, progressive |-> r.progressive, mode |-> tc.mode, table |-> table]
  BY DEF ModeFor
<1> HIDE DEF h, m, off, redone
<1>8. \/ /\ Good(r) /\ ~ cm.sync_active /\ vmode' = m
         /\ \E full \in BOOLEAN : hw' = SyncUp(h, m, full)
      \/ ~ Good(r) /\ vmode' = vmode /\ hw' = off
      \/ /\ Good(r) /\ cm.sync_active /\ vmode' = m
         /\ \E full \in BOOLEAN : hw' = Programmed(h, m, full)
      \/ /\ (Good(r) <=> cm.sync_active)
         /\ Good(r) => ~ Differs(r) /\ tc.mode = cc.mode /\ ~ update_cur_vm
         /\ vmode' = vmode
         /\ hw' = redone \/ (hw' = h /\ (tc.sc = cc.sc \/ ~ Good(r)))
  BY <1>4, GetStatusCases DEF h, m, off, redone
<1>9. CASE Good(r) /\ vmode' = m /\ \E full \in BOOLEAN : hw' = SyncUp(h, m, full)
  <2>1. PICK full \in BOOLEAN : hw' = SyncUp(h, m, full)
    BY <1>9
  <2>2. /\ hw'.src = h.src /\ hw'.powered = TRUE /\ hw'.afe = h.afe
        /\ m = NoMode \/ (hw'.frontend = m /\ hw'.sc = [vmode |-> m, post |-> tc.sc])
        /\ hw'.tx \in {h.tx, tc.tx} /\ hw'.itc \in {h.itc, tc.itc} /\ hw'.audio = Audio(tc, tc.tx)
    BY <1>3, <2>1, SyncUpFields
  <2> QED BY <1>1, <1>2, <1>3, <1>4, <1>6, <1>7, <1>9, <2>2 DEF Hardware, ChipsInv, ModeInv, SoundInv
<1>10. CASE ~ Good(r) /\ vmode' = vmode /\ hw' = off
  BY <1>1, <1>2, <1>3, <1>4, <1>5, <1>10 DEF Hardware, ChipsInv, ModeInv, SoundInv
<1>11. CASE /\ Good(r) /\ cm.sync_active /\ vmode' = m
            /\ \E full \in BOOLEAN : hw' = Programmed(h, m, full)
  <2>1. PICK full \in BOOLEAN : hw' = Programmed(h, m, full)
    BY <1>11
  <2>2. /\ hw'.src = h.src /\ hw'.powered = h.powered /\ hw'.afe = h.afe
        /\ m = NoMode \/ (hw'.frontend = m /\ hw'.sc = [vmode |-> m, post |-> tc.sc])
        /\ hw'.tx \in {h.tx, tc.tx} /\ hw'.itc \in {h.itc, tc.itc}
        /\ hw'.audio \in {h.audio, Audio(tc, tc.tx)}
    BY <1>3, <2>1, ProgrammedFields
  <2> QED BY <1>1, <1>2, <1>3, <1>4, <1>6, <1>7, <1>11, <2>2 DEF Hardware, ChipsInv, ModeInv, SoundInv
<1>12. CASE /\ (Good(r) <=> cm.sync_active)
            /\ Good(r) => ~ Differs(r) /\ tc.mode = cc.mode /\ ~ update_cur_vm
            /\ vmode' = vmode
            /\ hw' = redone \/ (hw' = h /\ (tc.sc = cc.sc \/ ~ Good(r)))
  <2>1. /\ hw'.src = h.src /\ hw'.powered = cm'.sync_active /\ hw'.afe = h.afe
        /\ hw'.tx = tc.tx /\ (tc.tx # "DVI" => hw'.itc = tc.itc)
        /\ hw'.frontend = hw.frontend /\ hw'.audio = h.audio
        /\ hw'.sc = [vmode |-> vmode, post |-> tc.sc] \/ (hw'.sc = hw.sc /\ (tc.sc = cc.sc \/ ~ Good(r)))
    BY <1>3, <1>4, <1>5, <1>12
  <2>2. ChipsInv'
    BY <1>1, <1>2, <1>3, <1>4, <2>1 DEF Hardware, ChipsInv
  <2>3. SoundInv'
    BY <1>1, <1>3, <1>4, <1>12, <2>1 DEF SoundInv
  <2>4. ASSUME Good(r), [reading |-> r, mode |-> tc.mode] \notin Unsupported
        PROVE  /\ vmode' = [totlines |-> r.totlines, progressive |-> r.progressive, mode |-> tc.mode, table |-> table]
               /\ hw'.frontend = vmode' /\ hw'.sc = [vmode |-> vmode', post |-> tc.sc]
    <3>1. cm \in Reading /\ cm.sync_active /\ ~ Differs(r) /\ tc.mode = cc.mode /\ ~ update_cur_vm
      BY <1>12, <2>4 DEF AvTypeOK
    <3>2. /\ r.totlines = cm.totlines /\ r.progressive = cm.progressive
          /\ [reading |-> cm, mode |-> cc.mode] \notin Unsupported
      BY <2>4, <3>1, SameReading
    <3> QED BY <1>12, <2>1, <2>4, <3>1, <3>2 DEF Hardware, ModeInv
  <2>5. ModeInv'
    BY <1>1, <1>4, <2>4 DEF ModeInv
  <2> QED BY <2>2, <2>3, <2>5 DEF Hardware
<1> QED BY <1>8, <1>9, <1>10, <1>11, <1>12
\* Every step of the main loop keeps what is known of the chips.
LEMMA NextHardware ==
  ASSUME PlainDevice, AvTypeOK, Hardware, [Next]_vars
  PROVE  Hardware'
<1>1. CASE UNCHANGED vars
  BY <1>1 DEF vars, config, ui, profileVars, Hardware, ChipsInv, ModeInv, SoundInv
<1> QED
  BY <1>1, AutoInputHardware, ControlsParseHardware, LinkProfileHardware, SwitchInputHardware,
     UpdateTxHardware, GetStatusHardware DEF Next

\* In every reachable state the chips, the mode and the sound are as the invariants say.
LEMMA HardwareInvariant ==
  ASSUME PlainDevice
  PROVE  Spec => [](AvTypeOK /\ Hardware)
<1>1. Init => AvTypeOK /\ Hardware
  BY InitTypes, InitHardware
<1>2. AvTypeOK /\ Hardware /\ [Next]_vars => (AvTypeOK /\ Hardware)'
  BY NextTypes, NextHardware
<1> QED BY <1>1, <1>2, PTL DEF Spec

\* With a picture, the front end and the scan converter are programmed for the
\* signal read last, the presets and the post-processing in force.
THEOREM ModeProgrammed ==
  ASSUME PlainDevice
  PROVE  Spec => []OutputMatchesMode
<1>1. AvTypeOK /\ Hardware => OutputMatchesMode
  BY DEF AvTypeOK, Hardware, ChipsInv, ModeInv, OutputMatchesMode, Shown, Rest
<1> QED BY <1>1, HardwareInvariant, PTL

\* Between passes cm describes the chips, and the transmitter runs as the user wants.
THEOREM ChipsFollow ==
  ASSUME PlainDevice
  PROVE  Spec => []CurrentConfiguration
<1>1. AvTypeOK /\ Hardware => CurrentConfiguration
  BY DEF AvTypeOK, Hardware, ChipsInv, CurrentConfiguration, Rest
<1> QED BY <1>1, HardwareInvariant, PTL

\* With a picture there is sound, as the settings have it.
THEOREM SoundFollows ==
  ASSUME PlainDevice
  PROVE  Spec => []AudioRuns
<1>1. AvTypeOK /\ Hardware => AudioRuns
  BY DEF AvTypeOK, Hardware, ChipsInv, SoundInv, AudioRuns, Rest
<1> QED BY <1>1, HardwareInvariant, PTL
--------------------------------------------------------------------------------
(* The history of profiles and searches; standby and wake-up included. *)

HistoryInv == AvTypeOK /\ LinkInv /\ HomeInv

\* A history step is a step of the controller.
LEMMA HistoryTypes ==
  ASSUME AvTypeOK, [HistoryNext]_historyVars
  PROVE  AvTypeOK'
BY NextTypes DEF HistoryNext, Next, historyVars

\* After power-on nothing is shown and nothing searched.
LEMMA InitHistory == HistoryInit => HistoryInv
BY InitTypes DEF HistoryInit, HistoryInv, LinkInv, HomeInv, Init

\* A search attempt leaves a change for LinkProfile to see, and stays on the
\* connector while main's counter says so.
LEMMA AutoInputHistory ==
  ASSUME HistoryInv, AutoInput, chosen' = chosen, held' = held, home' = home,
         tries' = IF auto'.ctr # auto.ctr THEN Bounded(tries) ELSE tries
  PROVE  LinkInv' /\ HomeInv'
<1>1. /\ pc = "top" /\ pc' = "parse" /\ man' = man /\ avinput' = avinput /\ cm' = cm
      /\ menu_active' = menu_active /\ in_standby' = in_standby
      /\ profile_sel' = profile_sel /\ input_profiles' = input_profiles
  BY DEF AutoInput, ui, profileVars
<1>2. CASE /\ Searching
           /\ target_input' = NextInput(avinput)
           /\ auto' = Attempted(auto)
  <2>1. /\ auto'.changed /\ auto'.ctr = auto.ctr + 1
        /\ auto'.current_ctr = IF auto.current_ctr < AutoCurrentMax THEN auto.current_ctr + 1 ELSE auto.current_ctr
    BY <1>2 DEF Attempted
  <2>2. LinkInv'
    BY <1>1, <1>2, <2>1 DEF HistoryInv, LinkInv, Rest, Searching
  <2>3. tries' = Bounded(tries)
    BY <2>1 DEF HistoryInv, AvTypeOK, IsAuto
  <2>4. ASSUME home # "none"
        PROVE  /\ tries' <= AutoCurrentMax => auto'.current_ctr = tries'
               /\ auto_input = "current" \/ tries' <= AutoCurrentMax => Connector(target_input') = home
    <3>1. tries <= AutoCurrentMax => auto.current_ctr = tries
      BY <2>4 DEF HistoryInv, HomeInv
    <3>2. avinput = target_input
      BY <1>1, <1>2, <2>4 DEF HistoryInv, HomeInv, Rest, Searching
    <3>3. tries' <= AutoCurrentMax => tries < AutoCurrentMax /\ tries' = tries + 1
      BY <2>3, SearchAssumption DEF Bounded, HistoryInv, HomeInv
    <3>4. ASSUME auto_input = "current" \/ tries' <= AutoCurrentMax
          PROVE  Connector(target_input') = home
      <4>1. Keep /\ Connector(avinput) = home
        BY <2>4, <3>1, <3>2, <3>3, <3>4, SearchAssumption DEF Keep, HistoryInv, HomeInv
      <4>2. avinput \in Input \ {"AV_TESTPAT"}
        BY <1>2 DEF Searching, HistoryInv, AvTypeOK
      <4> QED BY <1>2, <3>2, <4>1, <4>2 DEF NextInput, Connector, Input
    <3> QED BY <2>1, <3>1, <3>3, <3>4, SearchAssumption DEF HistoryInv, HomeInv
  <2>5. HomeInv'
    BY <1>1, <2>3, <2>4, SearchAssumption DEF HistoryInv, HomeInv, Bounded, Rest
  <2> QED BY <2>2, <2>5
<1>3. CASE auto' = [auto EXCEPT !.lost = FALSE] /\ target_input' = target_input
  <2>1. auto'.changed = auto.changed /\ auto'.ctr = auto.ctr /\ auto'.current_ctr = auto.current_ctr
    BY <1>3 DEF HistoryInv, AvTypeOK, IsAuto
  <2> QED BY <1>1, <1>3, <2>1 DEF HistoryInv, LinkInv, HomeInv, Rest
<1> QED BY <1>2, <1>3 DEF AutoInput
\* A key that chooses another input or profile leaves a change for LinkProfile to
\* see, or a profile that is linked; the search then may begin anywhere.
LEMMA ControlsParseHistory ==
  ASSUME HistoryInv, ControlsParse,
         chosen' = (chosen \/ profile_sel' # profile_sel \/ input_profiles' # input_profiles),
         held' = held, home' = (IF Leave THEN "none" ELSE home), tries' = tries
  PROVE  LinkInv' /\ HomeInv'
<1>1. /\ pc = "parse" /\ (pc' = "link" \/ (pc' = "top" /\ in_standby'))
      /\ auto' = auto /\ avinput' = avinput
  BY DEF ControlsParse, NoKey, SelectInput, MenuKey, ChangeSetting, TweakMode, ResetSettings,
         LoadProfile, SaveProfile, EnterStandby, ExitStandby
<1>2. HomeInv'
  BY <1>1 DEF HistoryInv, HomeInv, Rest, Leave
<1>3. CASE pc' = "top"
  <2>1. /\ cm' = cm /\ man' = man /\ target_input' = target_input
        /\ profile_sel' = profile_sel /\ input_profiles' = input_profiles
        /\ menu_active' = menu_active
    <3>1. in_standby'
      BY <1>3 DEF ControlsParse
    <3>2. NoKey \/ EnterStandby
      BY <3>1 DEF ControlsParse, SelectInput, MenuKey, ChangeSetting, TweakMode, ResetSettings,
         LoadProfile, SaveProfile, ExitStandby, ui
    <3> QED BY <3>2 DEF NoKey, EnterStandby, ui, profileVars
  <2> QED BY <1>1, <1>2, <1>3, <2>1 DEF HistoryInv, LinkInv, Rest
<1>4. CASE pc' = "link"
  <2>1. ASSUME chosen', profile_link
        PROVE  \/ profile_sel' = input_profiles'[target_input']
               \/ auto.changed
               \/ man' /\ target_input' # avinput
    <3>1. CASE /\ target_input' = target_input /\ profile_sel' = profile_sel
               /\ input_profiles' = input_profiles
      BY <1>1, <2>1, <3>1 DEF HistoryInv, LinkInv
    <3>2. ASSUME NEW i \in UserInput, SelectInput(i)
          PROVE  \/ profile_sel' = input_profiles'[target_input']
                 \/ auto.changed
                 \/ man' /\ target_input' # avinput
      BY <1>1, <2>1, <3>2 DEF SelectInput, HistoryInv, LinkInv, profileVars
    <3>3. ASSUME NEW n \in Profile, LoadProfile(n)
          PROVE  \/ profile_sel' = input_profiles'[target_input']
                 \/ auto.changed
                 \/ man' /\ target_input' # avinput
      <4>1. CASE profiles[n] = Empty
        BY <3>1, <3>3, <4>1 DEF LoadProfile
      <4>2. CASE profiles[n] # Empty
        <5>1. target_input' \in Input
          BY <3>3, ControlsParseTypes DEF HistoryInv, AvTypeOK
        <5>2. profile_sel' = n /\ input_profiles' = [input_profiles EXCEPT ![target_input'] = n]
          BY <2>1, <3>3, <4>2 DEF LoadProfile
        <5> QED BY <5>1, <5>2 DEF HistoryInv, AvTypeOK
      <4> QED BY <4>1, <4>2
    <3>4. ASSUME NEW n \in SaveSlots, SaveProfile(n)
          PROVE  profile_sel' = input_profiles'[target_input']
      BY <1>1, <2>1, <3>4 DEF SaveProfile, HistoryInv, LinkInv, AvTypeOK
    <3> QED
      BY <3>1, <3>2, <3>3, <3>4 DEF ControlsParse, NoKey, MenuKey, ChangeSetting, TweakMode,
         ResetSettings, EnterStandby, ExitStandby, profileVars
  <2> QED BY <1>1, <1>2, <1>4, <2>1 DEF HistoryInv, LinkInv, Rest
<1> QED BY <1>1, <1>3, <1>4

\* Once LinkProfile has seen the change, the profile is the linked one.
LEMMA LinkProfileHistory ==
  ASSUME HistoryInv, LinkProfile,
         chosen' = (chosen \/ (man /\ target_input # avinput) \/ (auto.changed /\ cm.sync_active)),
         held' = cm.sync_active, home' = home, tries' = tries
  PROVE  LinkInv' /\ HomeInv'
<1>1. /\ pc = "link" /\ pc' = "switch" /\ cm' = cm /\ target_input' = target_input
      /\ input_profiles' = input_profiles
  BY DEF LinkProfile
<1>2. CASE InputSettled
  <2>1. auto'.changed = FALSE /\ auto'.current_ctr = auto.current_ctr
    BY <1>2 DEF LinkProfile, HistoryInv, AvTypeOK, IsAuto
  <2>2. profile_link => profile_sel' = input_profiles[target_input]
    BY <1>2 DEF LinkProfile
  <2> QED BY <1>1, <2>1, <2>2 DEF HistoryInv, LinkInv, HomeInv, Rest
<1>3. CASE ~ InputSettled
  <2>1. auto' = auto /\ profile_sel' = profile_sel /\ (chosen' <=> chosen)
    BY <1>3 DEF LinkProfile, InputSettled, LinkInv, HistoryInv
  <2> QED BY <1>1, <1>3, <2>1 DEF HistoryInv, LinkInv, HomeInv, Rest, InputSettled
<1> QED BY <1>2, <1>3
\* Switching makes the target the input.
LEMMA SwitchInputHistory ==
  ASSUME HistoryInv, SwitchInput, UNCHANGED history
  PROVE  LinkInv' /\ HomeInv'
<1>1. /\ pc = "switch" /\ pc' = "tx" /\ man' = FALSE /\ target_input' = target_input
      /\ profile_sel' = profile_sel /\ input_profiles' = input_profiles
      /\ UNCHANGED <<chosen, held, home, tries>>
  BY DEF SwitchInput, profileVars, history
<1>2. avinput' = target_input
  BY DEF SwitchInput, SwitchDue
<1>3. auto'.changed = auto.changed /\ auto'.current_ctr = auto.current_ctr
  BY DEF SwitchInput, HistoryInv, AvTypeOK, IsAuto
<1> QED BY <1>1, <1>2, <1>3 DEF HistoryInv, LinkInv, HomeInv, Rest

\* The update of the transmitter touches neither links nor search.
LEMMA UpdateTxHistory ==
  ASSUME HistoryInv, UpdateTx, UNCHANGED history
  PROVE  LinkInv' /\ HomeInv'
BY DEF UpdateTx, ui, profileVars, history, HistoryInv, LinkInv, HomeInv, Rest

\* Where sync is lost, the search begins.
LEMMA GetStatusHistory ==
  ASSUME HistoryInv, NEW r \in Reading, GetStatus(r), chosen' = chosen, held' = held,
         \/ cm.sync_active /\ ~ cm'.sync_active /\ home' = Connector(avinput) /\ tries' = 0
         \/ ~ cm.sync_active /\ cm'.sync_active /\ home' = "none" /\ tries' = 0
         \/ cm.sync_active = cm'.sync_active /\ home' = home /\ tries' = tries
  PROVE  LinkInv' /\ HomeInv'
<1>1. /\ pc = "status" /\ pc' = "top" /\ UNCHANGED <<avinput, target_input, man, in_standby, menu_active>>
      /\ profile_sel' = profile_sel /\ input_profiles' = input_profiles
  BY DEF GetStatus, ui, profileVars
<1>2. /\ Good(r) \in BOOLEAN /\ cm.sync_active \in BOOLEAN
      /\ cm'.sync_active = Good(r)
  BY ReadingAssumption, GoodReadings DEF GetStatus, HistoryInv, AvTypeOK, IsReading
<1>3. auto'.changed = auto.changed
  BY GetStatusCases DEF HistoryInv, AvTypeOK, SyncLost, IsAuto
<1>4. LinkInv'
  BY <1>1, <1>3 DEF HistoryInv, LinkInv, Rest
<1>5. CASE cm.sync_active /\ ~ cm'.sync_active /\ home' = Connector(avinput) /\ tries' = 0
  <2>1. auto' = SyncLost(auto)
    BY <1>2, <1>5, GetStatusCases DEF HistoryInv
  <2>2. auto'.current_ctr = 0
    BY <2>1 DEF SyncLost, HistoryInv, AvTypeOK, IsAuto
  <2> QED BY <1>1, <1>4, <1>5, <2>2 DEF HistoryInv, LinkInv, HomeInv
<1>6. CASE home' = "none" /\ tries' = 0
  BY <1>4, <1>6 DEF HomeInv
<1>7. CASE cm.sync_active = cm'.sync_active /\ home' = home /\ tries' = tries
  <2>1. auto' = auto
    BY <1>2, <1>7, GetStatusCases DEF HistoryInv
  <2> QED BY <1>1, <1>4, <1>7, <2>1 DEF HistoryInv, LinkInv, HomeInv
<1> QED BY <1>5, <1>6, <1>7

\* Every step keeps what is known of links and search.
LEMMA NextHistory ==
  ASSUME HistoryInv, [HistoryNext]_historyVars
  PROVE  HistoryInv'
<1>1. AvTypeOK'
  BY HistoryTypes DEF HistoryInv
<1>2. CASE UNCHANGED historyVars
  BY <1>1, <1>2 DEF historyVars, history, vars, config, ui, profileVars, HistoryInv, LinkInv, HomeInv, Rest
<1>3. CASE HistoryNext
  <2>1. CASE /\ AutoInput
             /\ tries' = IF auto'.ctr # auto.ctr THEN Bounded(tries) ELSE tries
             /\ UNCHANGED <<chosen, held, home>>
    BY <1>1, <2>1, AutoInputHistory DEF HistoryInv
  <2>2. CASE /\ ControlsParse
             /\ chosen' = (chosen \/ profile_sel' # profile_sel \/ input_profiles' # input_profiles)
             /\ home' = IF Leave THEN "none" ELSE home
             /\ UNCHANGED <<held, tries>>
    BY <1>1, <2>2, ControlsParseHistory DEF HistoryInv
  <2>3. CASE /\ LinkProfile
             /\ chosen' = (chosen \/ (man /\ target_input # avinput) \/ (auto.changed /\ cm.sync_active))
             /\ held' = cm.sync_active
             /\ UNCHANGED <<home, tries>>
    BY <1>1, <2>3, LinkProfileHistory DEF HistoryInv
  <2>4. CASE (SwitchInput \/ UpdateTx) /\ UNCHANGED history
    BY <1>1, <2>4, SwitchInputHistory, UpdateTxHistory DEF HistoryInv
  <2>5. ASSUME NEW r \in Reading, GetStatus(r), UNCHANGED <<chosen, held>>,
               \/ cm.sync_active /\ ~ cm'.sync_active /\ home' = Connector(avinput) /\ tries' = 0
               \/ ~ cm.sync_active /\ cm'.sync_active /\ home' = "none" /\ tries' = 0
               \/ cm.sync_active = cm'.sync_active /\ UNCHANGED <<home, tries>>
        PROVE  HistoryInv'
    BY <1>1, <2>5, GetStatusHistory DEF HistoryInv
  <2> QED BY <1>3, <2>1, <2>2, <2>3, <2>4, <2>5 DEF HistoryNext
<1> QED BY <1>2, <1>3

\* In every reachable state a profile that may not be the linked one is about to be
\* replaced, and the search is where main's counters say.
LEMMA HistoryInvariant == HistorySpec => []HistoryInv
<1>1. HistoryInv /\ [HistoryNext]_historyVars => HistoryInv'
  BY NextHistory
<1> QED BY <1>1, InitHistory, PTL DEF HistorySpec

\* An input that has shown a picture for a pass runs with the profile linked to it.
THEOREM ProfileFollowsInput == HistorySpec => []SyncedProfileIsLinked
<1>1. HistoryInv => SyncedProfileIsLinked
  <2> SUFFICES ASSUME HistoryInv, Rest, profile_link, chosen, held, cm.sync_active
               PROVE  profile_sel = input_profiles[avinput]
    BY DEF SyncedProfileIsLinked
  <2>1. pc = "top" /\ ~ auto.changed
    BY DEF HistoryInv, LinkInv, Rest
  <2>2. target_input = avinput
    BY <2>1 DEF HistoryInv, LinkInv
  <2> QED BY <2>1, <2>2 DEF HistoryInv, LinkInv
<1> QED BY <1>1, HistoryInvariant, PTL

\* The first attempts of a search stay on the connector that lost its signal.
THEOREM SearchStaysHome == HistorySpec => []KeepsConnector
<1>1. HistoryInv => KeepsConnector
  BY DEF HistoryInv, HomeInv, KeepsConnector
<1> QED BY <1>1, HistoryInvariant, PTL
================================================================================
