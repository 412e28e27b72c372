------------------------------ MODULE AvController ------------------------------
(***************************************************************************)
(* The main loop of the scan converter (software/fw/av_controller.c): one  *)
(* pass looks for a signal, obeys the remote control, loads the profile    *)
(* linked to the input, switches the analog front end, updates the HDMI    *)
(* transmitter, and compares what the front end reports and what the user  *)
(* wants with the mode that is programmed.                                 *)
(*                                                                         *)
(* The configuration (avconfig_t) is a record with one field for each      *)
(* group that is handled in its own way; afe stands for any one of the     *)
(* settings compared one by one (sync_vth .. col).  hw is what the         *)
(* registers of the chips and of the FPGA hold.                            *)
(***************************************************************************)
EXTENDS Integers

CONSTANTS
  Config,        \* configurations: [mode, sc, afe, audio, tx, itc, alt, link]
  DefaultConfig, \* avconfig_set_default
  Table,         \* contents of the preset table (video_modes_plm)
  DefaultTable,  \* vm_table_set_default
  Stored,        \* what a preset table reads back as once saved (userdata.c:169)
  Profile,       \* numbers of the profile slots
  BootProfiles,  \* contents of the slots the program may find
  BootLinks,     \* links of inputs to profiles it may find
  Reading,       \* what the front end may report
  Unsupported,   \* [reading, mode] pairs without a preset
  SaveSlots,     \* bound: slots the user saves to
  UserInput,     \* inputs the user selects
  BootInput,     \* inputs the program may start with (def_input, last_input)
  profile_link,  \* are profiles linked to inputs
  auto_input,    \* "off", "current" or "all"
  auto_ypbpr,    \* for AV1, AV2, AV3: is YPbPr tried rather than RGsB
  AutoMax,       \* AUTO_MAX_COUNT (100)
  AutoCurrentMax,\* AUTO_CURRENT_MAX_COUNT (6)
  MinLines,      \* MIN_LINES_PROGRESSIVE and MIN_LINES_INTERLACED
  PcntTolerance, \* PCNT_TOLERANCE (50)
  WidthTolerance,\* HSYNC_WIDTH_TOLERANCE (8)
  Word32,        \* 2^32: pcnt_field is unsigned
  Standby        \* bound: does the user put the device in standby

Input == {"AV_TESTPAT", "AV1_RGBs", "AV1_RGsB", "AV1_YPBPR", "AV2_YPBPR", "AV2_RGsB",
          "AV3_RGBHV", "AV3_RGBs", "AV3_RGsB", "AV3_YPBPR"}
AV_LAST == "AV_LAST"
Empty == [used |-> FALSE]
Used(c, t) == [used |-> TRUE, avc |-> c, vm |-> t]

\* What is a configuration, a slot of a profile, a reading.
IsConfig(c) ==
  /\ c = [group \in {"mode", "sc", "afe", "audio", "tx", "itc", "alt", "link"} |-> c[group]]
  /\ c.link \in Input \cup {AV_LAST}
IsSlot(p) == p # Empty => IsConfig(p.avc)
IsReading(r) ==
  /\ r = [f \in {"sync_active", "totlines", "progressive", "pcnt_field", "hsync_width"} |-> r[f]]
  /\ r.sync_active \in BOOLEAN

ASSUME ConfigAssumption ==
  /\ \A c \in Config \cup {DefaultConfig} : IsConfig(c)
  /\ \A p \in BootProfiles : p = [n \in Profile |-> p[n]] /\ \A n \in Profile : IsSlot(p[n])
  /\ BootLinks \subseteq [Input -> Profile]
  /\ SaveSlots \subseteq Profile
ASSUME InputAssumption == BootInput \cup UserInput \subseteq Input
ASSUME SearchAssumption == AutoMax \in Nat /\ AutoCurrentMax \in Nat

\* Whether there is a preset depends on the lines and the scan alone: a longer sync pulse
\* or another rate only chooses between presets (video_modes.c:233-274).
ASSUME ReadingAssumption ==
  /\ \A r \in Reading : IsReading(r)
  /\ \A u \in Unsupported, r \in Reading :
       r.totlines = u.reading.totlines /\ r.progressive = u.reading.progressive
         => [reading |-> r, mode |-> u.mode] \in Unsupported

VARIABLES
  pc,              \* what the current pass does next
  tc,              \* target configuration
  table,           \* video_modes_plm
  update_cur_vm,   \* the preset table changed under the current mode
  cc,              \* cm.cc: current configuration
  cm,              \* cm: sync_active and the last good reading of the front end
  avinput,         \* cm.avinput
  target_input,
  man,             \* man_input_change: this pass changes the input by hand
  auto,            \* main()'s auto_input_changed, _ctr, _current_ctr; lost: sync was lost in the last pass
  menu_active,
  in_standby,
  profiles,        \* the profile slots in flash
  profile_sel,
  input_profiles,
  vmode,           \* vmode_in, vmode_out, vm_conf: the mode last computed
  hw               \* the registers

config == <<tc, table, update_cur_vm, cc>>
profileVars == <<profiles, profile_sel, input_profiles>>
ui == <<menu_active, in_standby>>
vars == <<pc, config, cm, avinput, target_input, man, auto, ui, profileVars, vmode, hw>>
--------------------------------------------------------------------------------
(* The hardware, as the drivers leave it. *)

Connector(i) ==
  CASE i \in {"AV1_RGBs", "AV1_RGsB", "AV1_YPBPR"} -> "AV1"
    [] i \in {"AV2_YPBPR", "AV2_RGsB"} -> "AV2"
    [] i \in {"AV3_RGBHV", "AV3_RGBs", "AV3_RGsB", "AV3_YPBPR"} -> "AV3"
    [] OTHER -> "none"

\* Inputs whose sync comes on a pin of its own: target_tvp_sync >= TVP_HV_A.
OwnSync == {"AV3_RGBHV", "AV3_RGBs"}

\* Where the video of input i is taken from: av3_alt_rgb reroutes RGB of AV3.
Route(i, alt) ==
  IF i \in OwnSync /\ alt # 0 THEN (IF alt = 1 THEN "AV1" ELSE "AV2") ELSE Connector(i)

Source(i, alt) == [input |-> i, route |-> Route(i, alt)]
NoSource == [input |-> "AV_TESTPAT", route |-> "none"]

TestMode == [pattern |-> "480p"]
NoMode == [pattern |-> "none"]

\* SetupAudio: what the transmitter does with the audio settings.
Audio(c, tx) == IF tx = "DVI" THEN "off" ELSE c.audio

\* TX_enable(tx): the transmitter is stopped, set up and started.
TxEnable(h, c, tx) ==
  [h EXCEPT !.tx = tx, !.audio = Audio(c, tx), !.itc = IF tx = "DVI" THEN @ ELSE c.itc]

\* init_hw: chips reset, tvp_init with its defaults, the test pattern is set up
\* and the transmitter is started in HDMI mode.
InitHw(c, cur) ==
  TxEnable([src |-> NoSource, powered |-> FALSE, afe |-> DefaultConfig.afe,
            frontend |-> TestMode, sc |-> [vmode |-> TestMode, post |-> cur.sc],
            tx |-> "HDMI", itc |-> c.itc, audio |-> "off"], c, "HDMI")

Init ==
  /\ pc = "top"
  /\ profiles \in BootProfiles
  /\ input_profiles \in BootLinks
  /\ profile_sel = input_profiles["AV_TESTPAT"]
  /\ tc = IF profiles[profile_sel] = Empty THEN DefaultConfig ELSE profiles[profile_sel].avc
  /\ table = IF profiles[profile_sel] = Empty THEN DefaultTable ELSE profiles[profile_sel].vm
  /\ update_cur_vm = TRUE
  /\ cc = [DefaultConfig EXCEPT !.itc = tc.itc]
  /\ cm = [sync_active |-> FALSE, totlines |-> 0, progressive |-> FALSE,
           pcnt_field |-> 0, hsync_width |-> 0]
  /\ avinput = "AV_TESTPAT"
  /\ target_input \in BootInput
  /\ man = FALSE
  /\ auto = [changed |-> FALSE, ctr |-> 0, current_ctr |-> AutoCurrentMax, lost |-> FALSE]
  /\ menu_active = FALSE
  /\ in_standby = FALSE
  /\ vmode = TestMode
  /\ hw = InitHw(tc, DefaultConfig)
--------------------------------------------------------------------------------
(* Automatic input switching. *)

KeepOneLonger == auto_input = "current" \/ auto.current_ctr <= AutoCurrentMax \* mutant
KeepShorter == auto_input = "current" \/ auto.current_ctr + 1 < AutoCurrentMax  \* mutant

\* auto_input_keep_current: the search stays on the connector.
Keep == auto_input = "current" \/ auto.current_ctr < AutoCurrentMax

\* The input tried after input i.
NextInput(i) ==
  CASE i = "AV1_RGBs" -> IF auto_ypbpr["AV1"] THEN "AV1_YPBPR" ELSE "AV1_RGsB"
    [] i \in {"AV1_RGsB", "AV1_YPBPR"} ->
         IF Keep THEN "AV1_RGBs" ELSE IF auto_ypbpr["AV2"] THEN "AV2_YPBPR" ELSE "AV2_RGsB"
    [] i \in {"AV2_YPBPR", "AV2_RGsB"} -> IF Keep THEN target_input ELSE "AV3_RGBHV"
    [] i = "AV3_RGBHV" -> "AV3_RGBs"
    [] i = "AV3_RGBs" -> IF auto_ypbpr["AV3"] THEN "AV3_YPBPR" ELSE "AV3_RGsB"
    [] i \in {"AV3_RGsB", "AV3_YPBPR"} -> IF Keep THEN "AV3_RGBHV" ELSE "AV1_RGBs"

\* The search is on.
Searching ==
  /\ ~ in_standby
  /\ auto_input # "off" /\ avinput # "AV_TESTPAT"
  /\ ~ cm.sync_active /\ ~ menu_active
  /\ auto.ctr < AutoMax

Uncounted(a) == [a EXCEPT !.changed = TRUE, !.lost = FALSE, \* mutant
                         !.current_ctr = IF @ < AutoCurrentMax THEN @ + 1 ELSE @]

\* The search has made an attempt.
Attempted(a) == [changed |-> TRUE, ctr |-> a.ctr + 1, lost |-> FALSE,
                 current_ctr |-> IF a.current_ctr < AutoCurrentMax THEN a.current_ctr + 1 ELSE a.current_ctr]

\* One attempt of the search.  The 300 us to wait between attempts have always
\* passed, for a pass takes 10 ms; but get_status may take longer than a pass, so
\* those since sync was lost may not have.
AutoInput ==
  /\ pc = "top"
  /\ pc' = "parse"
  /\ \/ /\ Searching
        /\ target_input' = NextInput(avinput)
        /\ auto' = Attempted(auto)
     \/ /\ ~ Searching \/ auto.lost
        /\ auto' = [auto EXCEPT !.lost = FALSE]
        /\ UNCHANGED target_input
  /\ UNCHANGED <<config, cm, avinput, man, ui, profileVars, vmode, hw>>
--------------------------------------------------------------------------------
(* The remote control, the buttons and the menu: one key per pass.  A key     *)
(* that only shows something (RC_INFO) is NoKey; sampler phase, written to the *)
(* chips on the spot, is left out.                                            *)

\* userdata_load_profile: an empty slot leaves everything as it is.
LoadSlot(n) ==
  IF profiles[n] = Empty
  THEN UNCHANGED <<tc, table, update_cur_vm>>
  ELSE /\ tc' = profiles[n].avc
       /\ table' = profiles[n].vm
       /\ update_cur_vm' = TRUE

\* An input key, the next-input key or a button.
SelectInput(i) ==
  /\ target_input' = i
  /\ man' = TRUE
  /\ UNCHANGED <<config, avinput, cm, auto, ui, profileVars, vmode, hw>>

\* The menu is opened or closed.
MenuKey ==
  /\ menu_active' = ~ menu_active
  /\ UNCHANGED <<config, avinput, cm, auto, target_input, man, in_standby, profileVars, vmode, hw>>

\* The menu changes any setting, the scanline keys those of the scan converter,
\* and the line multiplier key the mode, closing the menu.
ChangeSetting(c) ==
  /\ \/ /\ menu_active \/ c = [tc EXCEPT !.sc = c.sc]
        /\ UNCHANGED menu_active
     \/ /\ c = [tc EXCEPT !.mode = c.mode]
        /\ menu_active' = FALSE
  /\ tc' = c
  /\ UNCHANGED <<table, update_cur_vm, cc, avinput, cm, auto, target_input, man, in_standby,
                 profileVars, vmode, hw>>

\* vm_tweak, on the preset in use: the timings of other presets matter only
\* once their mode is programmed.
TweakMode(t) ==
  /\ menu_active
  /\ table' = t
  /\ update_cur_vm' = (update_cur_vm \/ (cm.sync_active /\ t # table))
  /\ UNCHANGED <<tc, cc, avinput, cm, auto, target_input, man, ui, profileVars, vmode, hw>>

\* "Reset settings" (avconfig_set_default).
ResetSettings ==
  /\ menu_active
  /\ tc' = DefaultConfig
  /\ table' = DefaultTable
  /\ update_cur_vm' = TRUE
  /\ UNCHANGED <<cc, avinput, cm, auto, target_input, man, ui, profileVars, vmode, hw>>

\* load_profile, from the menu or by the hotkey, which closes the menu.
LoadProfile(n) ==
  /\ LoadSlot(n)
  /\ \/ profiles[n] = Empty /\ UNCHANGED <<profile_sel, target_input, input_profiles>>
     \/ /\ profiles[n] # Empty
        /\ profile_sel' = n
        /\ target_input' = IF tc'.link = AV_LAST THEN target_input ELSE tc'.link
        /\ input_profiles' =
             [input_profiles EXCEPT ![IF profile_link THEN target_input' ELSE "AV_TESTPAT"] = n]
  /\ menu_active' \in {FALSE, menu_active}
  /\ UNCHANGED <<cc, avinput, cm, auto, man, in_standby, profiles, vmode, hw>>

\* save_profile, from the menu.
SaveProfile(n) ==
  /\ menu_active
  /\ profiles' = [profiles EXCEPT ![n] = Used(tc, Stored[table])]
  /\ profile_sel' = n
  /\ input_profiles' = [input_profiles EXCEPT ![IF profile_link THEN avinput ELSE "AV_TESTPAT"] = n]
  /\ UNCHANGED <<config, avinput, cm, auto, target_input, man, ui, vmode, hw>>

\* The chips are held in reset.
EnterStandby ==
  /\ Standby
  /\ in_standby' = TRUE
  /\ hw' = [hw EXCEPT !.src = NoSource, !.powered = FALSE, !.frontend = NoMode, !.tx = "off", !.audio = "off"]
  /\ UNCHANGED <<config, avinput, cm, auto, target_input, man, menu_active, profileVars, vmode>>

\* init_hw resets the chips; cm and cc stay as they were, but for what
\* TX_enable writes.
ExitStandby ==
  /\ in_standby' = FALSE
  /\ vmode' = TestMode
  /\ hw' = InitHw(tc, cc)
  /\ cc' = [cc EXCEPT !.itc = tc.itc]
  /\ UNCHANGED <<tc, table, update_cur_vm, avinput, cm, auto, target_input, man, menu_active, profileVars>>

NoKey == UNCHANGED <<config, avinput, cm, auto, target_input, man, ui, profileVars, vmode, hw>>

\* controls_parse and menu_update.  In standby only waking up is possible, and
\* the rest of the pass is skipped.
ControlsParse ==
  /\ pc = "parse"
  /\ \/ NoKey
     \/ ~ in_standby /\ \/ \E i \in UserInput : SelectInput(i)
                        \/ MenuKey
                        \/ \E c \in Config : ChangeSetting(c)
                        \/ \E t \in Table : TweakMode(t)
                        \/ ResetSettings
                        \/ \E n \in Profile : LoadProfile(n)
                        \/ \E n \in SaveSlots : SaveProfile(n)
                        \/ EnterStandby
     \/ in_standby /\ ExitStandby
  /\ pc' = IF in_standby' THEN "top" ELSE "link"
--------------------------------------------------------------------------------
SettledByHand == target_input # avinput /\ man \* mutant

\* Profiles are loaded when the input is changed by hand, or once the input
\* found automatically has sync.
InputSettled ==
  \/ target_input # avinput /\ man
  \/ auto.changed /\ cm.sync_active

\* The profile linked to the input is loaded; a slot that cannot be loaded is the
\* current profile all the same.
LinkProfile ==
  /\ pc = "link"
  /\ pc' = "switch"
  /\ LET linked == input_profiles[target_input] IN
     \/ /\ InputSettled /\ profile_link /\ profile_sel # linked
        /\ profile_sel' = linked
        /\ LoadSlot(linked)
     \/ /\ ~ (InputSettled /\ profile_link /\ profile_sel # linked)
        /\ UNCHANGED <<profile_sel, tc, table, update_cur_vm>>
  /\ auto' = IF InputSettled THEN [auto EXCEPT !.changed = FALSE] ELSE auto
  /\ UNCHANGED <<cc, cm, avinput, target_input, man, ui, profiles, input_profiles, vmode, hw>>

SwitchOnInput == target_input # avinput \* mutant

\* The input changes, or the source of AV3's RGB does.
SwitchDue == target_input # avinput \/ (avinput \in OwnSync /\ tc.alt # cc.alt)

\* The analog front end is switched and powered down, and the sound with it.
SwitchInput ==
  /\ pc = "switch"
  /\ pc' = "tx"
  /\ \/ /\ SwitchDue
        /\ avinput' = target_input
        /\ cm' = [cm EXCEPT !.sync_active = FALSE]
        /\ hw' = [hw EXCEPT !.src = Source(target_input, tc.alt), !.powered = FALSE, !.audio = "off"]
        /\ auto' = IF man THEN [auto EXCEPT !.ctr = 0] ELSE auto
     \/ /\ ~ SwitchDue
        /\ UNCHANGED <<avinput, cm, hw, auto>>
  /\ man' = FALSE
  /\ UNCHANGED <<config, target_input, ui, profileVars, vmode>>

\* What is written to the transmitter because tc and cc differ.
TxUpdated(h) ==
  LET on == IF tc.tx # cc.tx THEN TxEnable([h EXCEPT !.itc = 0], tc, tc.tx) ELSE h
  IN  IF tc.tx # "DVI" /\ tc.itc # cc.itc THEN [on EXCEPT !.itc = tc.itc] ELSE on

\* The transmitter follows tx_mode and the HDMI flags whatever the input is.
UpdateTx ==
  /\ pc = "tx"
  /\ pc' = IF avinput = "AV_TESTPAT" THEN "top" ELSE "status"
  /\ hw' = TxUpdated(hw)
  /\ cc' = [cc EXCEPT !.tx = tc.tx, !.itc = IF tc.tx = "DVI" THEN @ ELSE tc.itc, !.alt = tc.alt]
  /\ UNCHANGED <<tc, table, update_cur_vm, cm, avinput, target_input, man, auto, ui, profileVars, vmode>>
--------------------------------------------------------------------------------
(* get_status and what main makes of it. *)

\* The reading is that of a video signal.
Good(r) ==
  /\ r.sync_active
  /\ r.pcnt_field > 0
  /\ r.totlines >= MinLines[r.progressive]

\* x and y differ by more than a tolerance.
Apart(x, y, tol) == x - y > tol \/ y - x > tol

DiffersUpToScan(r) == \* mutant
  \/ r.totlines # cm.totlines
  \/ Apart(r.pcnt_field, cm.pcnt_field, PcntTolerance)
  \/ Apart(r.hsync_width, cm.hsync_width, WidthTolerance)

\* pcnt_field is unsigned, so the lower limit wraps below zero.
Differs(r) ==
  \/ r.totlines # cm.totlines
  \/ r.progressive # cm.progressive
  \/ r.pcnt_field < (cm.pcnt_field - PcntTolerance) % Word32
  \/ r.pcnt_field > (cm.pcnt_field + PcntTolerance) % Word32
  \/ Apart(r.hsync_width, cm.hsync_width, WidthTolerance)

\* The most urgent change get_status reports.
Status(r) ==
  IF cm.sync_active # Good(r) THEN "ACTIVITY_CHANGE"
  ELSE IF Good(r) /\ (Differs(r) \/ tc.mode # cc.mode \/ update_cur_vm) THEN "MODE_CHANGE"
  ELSE IF tc.sc # cc.sc THEN "SC_CONFIG_CHANGE"
  ELSE "NO_CHANGE"

\* The preset get_pure_lm_mode picks, with the timings it has in the table.
ModeFor(r) ==
  IF [reading |-> r, mode |-> tc.mode] \in Unsupported THEN NoMode
  ELSE [totlines |-> r.totlines, progressive |-> r.progressive, mode |-> tc.mode, table |-> table]

\* program_mode; full is TRUE when the transmitter is set up from scratch too.
\* Without a preset nothing is programmed.
Programmed(h, m, full) ==
  IF m = NoMode THEN h
  ELSE LET prog == [h EXCEPT !.frontend = m, !.sc = [vmode |-> m, post |-> tc.sc],
                             !.itc = IF tc.tx = "DVI" THEN @ ELSE tc.itc]
       IN  IF full THEN TxEnable(prog, tc, tc.tx) ELSE prog

\* The settings written because tc and cc differ.
Adjusted(h) ==
  [h EXCEPT !.afe = IF tc.afe # cc.afe THEN tc.afe ELSE @,
            !.audio = IF tc.audio # cc.audio THEN Audio(tc, tc.tx) ELSE @]

SyncUpSilent(h, m, full) == Programmed([h EXCEPT !.powered = TRUE], m, full) \* mutant

\* "Sync up": the front end is powered up, the mode programmed and the audio
\* started.
SyncUp(h, m, full) ==
  [Programmed([h EXCEPT !.powered = TRUE], m, full) EXCEPT !.audio = Audio(tc, tc.tx)]

\* "Sync lost": a new search may begin, on the same connector first.
SyncLost(a) == [a EXCEPT !.ctr = 0, !.current_ctr = 0, !.lost = TRUE]

\* One call of get_status and the reaction to what it returns; full is TRUE when
\* program_mode sets the transmitter up from scratch, which settings and pixel
\* clock decide.
GetStatus(r) ==
  /\ pc = "status"
  /\ pc' = "top"
  /\ cm' = IF Good(r) THEN r ELSE [cm EXCEPT !.sync_active = FALSE]
  /\ cc' = tc
  /\ update_cur_vm' = FALSE
  /\ LET status == Status(r)
         h == Adjusted(hw)
         m == ModeFor(r)
     IN  \/ /\ status = "ACTIVITY_CHANGE" /\ Good(r)
            /\ vmode' = m
            /\ \E full \in BOOLEAN : hw' = SyncUp(h, m, full)
            /\ UNCHANGED auto
         \/ /\ status = "ACTIVITY_CHANGE" /\ ~ Good(r)
            /\ hw' = [h EXCEPT !.powered = FALSE]
            /\ auto' = SyncLost(auto)
            /\ UNCHANGED vmode
         \/ /\ status = "MODE_CHANGE"
            /\ vmode' = m
            /\ \E full \in BOOLEAN : hw' = Programmed(h, m, full)
            /\ UNCHANGED auto
         \/ /\ status = "SC_CONFIG_CHANGE"
            /\ hw' = IF cm'.sync_active THEN [h EXCEPT !.sc = [vmode |-> vmode, post |-> tc.sc]] ELSE h
            /\ UNCHANGED <<vmode, auto>>
         \/ /\ status = "NO_CHANGE"
            /\ hw' = h
            /\ UNCHANGED <<vmode, auto>>
  /\ UNCHANGED <<tc, table, avinput, target_input, man, ui, profileVars>>

Next ==
  \/ AutoInput \/ ControlsParse \/ LinkProfile \/ SwitchInput \/ UpdateTx
  \/ \E r \in Reading : GetStatus(r)

Spec == Init /\ [][Next]_vars
--------------------------------------------------------------------------------
(* Properties. *)

\* Between two passes, with the device on.
Rest == pc = "top" /\ ~ in_standby

\* There is a picture, from a preset that exists.
Shown ==
  /\ Rest
  /\ cm.sync_active
  /\ avinput # "AV_TESTPAT"
  /\ [reading |-> cm, mode |-> tc.mode] \notin Unsupported

\* Once there is a picture, the front end and the scan converter are programmed
\* for the signal that was read last, with the presets and the post-processing
\* in force, however signal, settings and input changed (av_controller.c:292-366,
\* av_controller.c:1098-1134).
OutputMatchesMode ==
  Shown =>
    /\ hw.frontend = [totlines |-> cm.totlines, progressive |-> cm.progressive, mode |-> tc.mode, table |-> table]
    /\ hw.sc = [vmode |-> hw.frontend, post |-> tc.sc]

\* cm is the state of the chips: the selected input is the one that is routed
\* to the digitizer, which is powered when there is sync and holds the analog
\* settings of cm.cc, "Current configuration" (av_controller.h:66,
\* av_controller.c:316-344, av_controller.c:983-1066). The transmitter runs in the
\* mode the user wants with the flag the user wants, "regardless of input"
\* (av_controller.c:1068-1092).
CurrentConfiguration ==
  /\ Rest =>
       /\ hw.afe = cc.afe
       /\ avinput # "AV_TESTPAT" => hw.src = Source(avinput, cc.alt)
       /\ hw.powered = cm.sync_active
  /\ pc = "status" =>
       /\ hw.tx = tc.tx
       /\ hw.tx # "DVI" => hw.itc = tc.itc

\* With a picture there is sound, as the settings and the transmitter mode
\* have it: switching inputs stops it and every way to a picture restarts it
\* (av_controller.c:346-360, av_controller.c:1048, av_controller.c:1109).
AudioRuns == Rest /\ cm.sync_active /\ avinput # "AV_TESTPAT" => hw.audio = Audio(tc, tc.tx)
================================================================================
