---------------------------------- MODULE Menu -----------------------------------
(***************************************************************************)
(* The menu of fw/src/menu.c, the hot keys of fw/src/controls.c that touch *)
(* the presets, and the main loop's call of program_mode.                  *)
(*                                                                         *)
(* Settings that LineModes does not know of are items of type "plain".     *)
(* The page for a preset's timings works on copies of its fields: showing  *)
(* a field of that page writes all copies to the preset (vm_tweak).        *)
(***************************************************************************)
EXTENDS LineModes

CONSTANTS
  DefaultSettings, ProfileSettings,  \* tc by default and in a saved profile
  ProfileTable,                      \* the presets that differ there
  MaxKeys                            \* bound: keys pressed

\* A profile holds presets with all their fields.
IsTable(table) ==
  \A i \in DOMAIN table : i \in 1 .. VIDEO_MODE_COUNT /\ DOMAIN table[i] = DOMAIN video_modes_plm_default[i]
ASSUME TableAssumption == IsTable(ProfileTable)

Plain(n) == [i \in 1 .. n |-> [type |-> "plain"]]
Sel(d, max) == <<[type |-> "sel", data |-> d, min |-> 0, max |-> max]>>
U16(d, min, max) == <<[type |-> "u16", data |-> d, min |-> min, max |-> max]>>
\* arg: whether LEFT and RIGHT change the argument of the item
Sub(menu, arg) == <<[type |-> "sub", menu |-> menu, arg |-> arg]>>
Fun(f, arg) == <<[type |-> "fun", f |-> f, arg |-> arg]>>

menu_advtiming ==
  U16("h_total", 300, 2800) \o U16("h_total_adj", 0, 19) \o U16("h_synclen", 10, 255) \o U16("h_backporch", 0, 511)
    \o U16("h_active", 200, 2048) \o U16("v_synclen", 1, 15) \o U16("v_backporch", 0, 511) \o U16("v_active", 160, 1728)
    \o U16("ar_h", 0, 255) \o U16("ar_v", 0, 63) \o U16("sampler_phase", 0, 31)
menu_sampling ==
  Sel("s480p_mode", 3) \o Sel("s400p_mode", 1) \o Sel("upsample2x", 1) \o Sub("advtiming", TRUE)
menu_output ==
  Sel("pm_240p", 5) \o Sel("pm_384p", 4) \o Sel("pm_480i", 3) \o Sel("pm_480p", 2) \o Sel("pm_1080i", 1)
    \o Sel("pt_mode", 5) \o Sel("l2_mode", 4) \o Sel("l3_mode", 5) \o Sel("l4_mode", 4) \o Sel("l5_mode", 4)
    \o Sel("l6_mode", 4) \o Sel("l5_fmt", 2) \o Sel("ar_256col", 1) \o Plain(4)
menu_scanlines == Plain(7) \o Sub("cust_sl", FALSE)
menu_settings ==
  Plain(11) \o Fun("load_profile", TRUE) \o Fun("save_profile", TRUE) \o Fun("set_default", FALSE)
    \o Fun("import", FALSE) \o Fun("export", FALSE) \o Fun("fw_update", FALSE)
menu_main ==
  Sub("vinputproc", FALSE) \o Sub("sampling", FALSE) \o Sub("sync", FALSE) \o Sub("output", FALSE)
    \o Sub("scanlines", FALSE) \o Sub("postproc", FALSE) \o Sub("compatibility", FALSE) \o Sub("audio", FALSE)
    \o Sub("settings", FALSE)
Menus == [main |-> menu_main, vinputproc |-> Plain(14), sampling |-> menu_sampling, advtiming |-> menu_advtiming,
          sync |-> Plain(9), output |-> menu_output, scanlines |-> menu_scanlines, cust_sl |-> Plain(14),
          postproc |-> Plain(3), compatibility |-> Plain(4), audio |-> Plain(4), settings |-> menu_settings]
Tweaked == {menu_advtiming[i].data : i \in DOMAIN menu_advtiming}

VARIABLES
  navi,            \* levels of menus, each with its menu and the position in it; "" is none yet
  navlvl,
  menu_active,
  vm_sel, vm_edit, \* the preset chosen, and the one the copies are of
  edit,            \* the copies (tc_h_samplerate and so on)
  update_cur_vm,
  replaced,        \* history: presets were replaced since the copies were made
  keys             \* how far MaxKeys is used up

lmVars == <<tc, video_modes_plm, signal, cm, vmode>>
menuVars == <<navi, navlvl, menu_active, vm_sel, vm_edit, edit, update_cur_vm, replaced, keys, lmVars>>

Here == navi[navlvl]
item == Menus[Here.m][Here.mp + 1]
Copies(p) == [f \in Tweaked |-> p[f]]
\* Changed presets, without those that are the default ones again.
Put(table, i, p) ==
  [j \in {k \in DOMAIN table \cup {i} : (IF k = i THEN p ELSE table[k]) # video_modes_plm_default[k]}
     |-> IF j = i THEN p ELSE table[j]]
--------------------------------------------------------------------------------
(* menu_render_page and menu_render_row, which both show a field if the page has one. *)

\* The preset of the copies is the one in use.
Active == signal.v_total > 0 /\ cm.id = vm_edit

\* vm_tweak: to the preset of the copies, and to the mode if that is the one in use
Tweak(e) ==
  LET old == Preset(vm_edit)
      new == [f \in DOMAIN old |-> IF f \in Tweaked THEN e[f] ELSE old[f]]
  IN  /\ video_modes_plm' = Put(video_modes_plm, vm_edit, new)
      /\ update_cur_vm' = (update_cur_vm \/ (Active /\ \E f \in Tweaked \ {"sampler_phase"} : old[f] # e[f]))
Render(menu, e) ==
  IF menu = "advtiming" THEN Tweak(e) ELSE UNCHANGED <<video_modes_plm, update_cur_vm>>

Pressed == keys < MaxKeys /\ keys' = keys + 1
Untouched == UNCHANGED <<tc, signal, cm, vmode>>
--------------------------------------------------------------------------------
(* menu_update: one action per key. *)

Move(step) ==
  LET n == Len(Menus[Here.m])
  IN  /\ menu_active /\ Pressed
      /\ navi' = [navi EXCEPT ![navlvl].mp = (@ + n + step) % n]
      /\ Render(Here.m, edit)
      /\ UNCHANGED <<navlvl, menu_active, vm_sel, vm_edit, edit, replaced>> /\ Untouched
PREV_PAGE == Move(-1)
NEXT_PAGE == Move(1)

PREV_MENU ==
  /\ menu_active /\ Pressed
  /\ navlvl' = IF navlvl > 0 THEN navlvl - 1 ELSE 0
  /\ menu_active' = (navlvl > 0)
  /\ Render(IF navlvl > 0 THEN navi[navlvl - 1].m ELSE "", edit)
  /\ UNCHANGED <<navi, vm_sel, vm_edit, edit, replaced>> /\ Untouched

EnteredAsLeft(n, menu) == [n EXCEPT !.m = menu] \* mutant: the position of another menu is kept
Entered(n, menu) == IF n.m # menu THEN [m |-> menu, mp |-> 0] ELSE n
Enter ==
  /\ menu_active /\ item.type = "sub" /\ Pressed
  /\ vm_edit' = IF item.menu = "advtiming" THEN vm_sel ELSE vm_edit
  /\ edit' = IF item.menu = "advtiming" THEN Copies(Preset(vm_sel)) ELSE edit
  /\ replaced' = (replaced /\ item.menu # "advtiming")
  /\ navi' = [navi EXCEPT ![navlvl + 1] = Entered(@, item.menu)]
  /\ navlvl' = navlvl + 1
  \* What vm_tweak writes now is what vm_select has just read.
  /\ UNCHANGED <<menu_active, vm_sel, video_modes_plm, update_cur_vm>> /\ Untouched

\* userdata_load_profile, also by hot key or for an input; avconfig_set_default.  The others end up here unchanged.
Replace(settings, table) ==
  tc' = settings /\ video_modes_plm' = table /\ update_cur_vm' = TRUE /\ replaced' = TRUE
CallFunction ==
  /\ menu_active /\ item.type = "fun" /\ Pressed
  /\ \/ item.f = "load_profile" /\ Replace(ProfileSettings, ProfileTable)
     \/ item.f = "set_default" /\ Replace(DefaultSettings, <<>>)
     \/ item.f # "set_default" /\ UNCHANGED <<tc, video_modes_plm, update_cur_vm, replaced>>
  /\ UNCHANGED <<navi, navlvl, menu_active, vm_sel, vm_edit, edit, signal, cm, vmode>>
OPT_SELECT == Enter \/ CallFunction

\* A selection wraps round; a number of 16 bits does if it starts at 0; an argument does not.
Stepped(v, up, min, max, wrap) ==
  IF up THEN (IF v < max THEN v + 1 ELSE IF wrap THEN min ELSE max)
  ELSE (IF v > min THEN v - 1 ELSE IF wrap THEN max ELSE min)
Value(up) ==
  /\ menu_active /\ Pressed
  /\ \/ /\ item.type = "sel"
        /\ tc' = [tc EXCEPT ![item.data] = Stepped(@, up, item.min, item.max, TRUE)]
        /\ UNCHANGED <<vm_sel, edit, video_modes_plm, update_cur_vm>>
     \/ /\ item.type = "u16"
        /\ edit' = [edit EXCEPT ![item.data] = Stepped(@, up, item.min, item.max, item.min = 0)]
        /\ Tweak(edit')
        /\ UNCHANGED <<tc, vm_sel>>
     \* The other arguments are numbers of profiles.
     \/ /\ item.type = "sub" /\ item.arg
        /\ vm_sel' = Stepped(vm_sel, up, 1, VIDEO_MODE_COUNT, FALSE)
        /\ UNCHANGED <<tc, edit, video_modes_plm, update_cur_vm>>
  /\ UNCHANGED <<navi, navlvl, menu_active, vm_edit, replaced, signal, cm, vmode>>
VAL_MINUS == Value(FALSE)
VAL_PLUS == Value(TRUE)
--------------------------------------------------------------------------------
(* controls_parse *)

RC_MENU ==
  /\ Pressed
  /\ menu_active' = ~ menu_active
  /\ Render(IF menu_active THEN "" ELSE Here.m, edit)
  /\ UNCHANGED <<navi, navlvl, vm_sel, vm_edit, edit, replaced>> /\ Untouched

\* With phase_hotkey_enable: the copy follows if it is of the same preset; the page is shown again.
Follow(e, phase) == IF cm.id = vm_edit THEN [e EXCEPT !.sampler_phase = phase] ELSE e
RC_PHASE ==
  /\ Pressed
  /\ \E up \in BOOLEAN :
       LET phase == Stepped(Preset(cm.id).sampler_phase, up, 0, 31, TRUE)
           table == Put(video_modes_plm, cm.id, [Preset(cm.id) EXCEPT !.sampler_phase = phase])
           page == menu_active /\ Here.m = "advtiming"
       IN  /\ edit' = Follow(edit, phase)
           /\ video_modes_plm' =
                IF ~ page THEN table
                ELSE LET p == IF vm_edit \in DOMAIN table THEN table[vm_edit] ELSE video_modes_plm_default[vm_edit]
                     IN  Put(table, vm_edit, [f \in DOMAIN p |-> IF f \in Tweaked THEN edit'[f] ELSE p[f]])
           /\ update_cur_vm' = (update_cur_vm \/ (page /\ Active
                /\ \E f \in Tweaked \ {"sampler_phase"} : Preset(vm_edit)[f] # edit[f]))
  /\ UNCHANGED <<navi, navlvl, menu_active, vm_sel, vm_edit, replaced>> /\ Untouched

\* A profile by hot key closes the menu; one linked to an input that is selected does not.
LoadProfile ==
  /\ Pressed
  /\ Replace(ProfileSettings, ProfileTable)
  /\ menu_active' \in {menu_active, FALSE}
  /\ UNCHANGED <<navi, navlvl, vm_sel, vm_edit, edit, signal, cm, vmode>>

\* The main loop, when the signal or a setting has changed.
ModeChange(signals) ==
  /\ \E s \in signals : program_mode(s, update_cur_vm)
  /\ vm_sel' = IF vmode' = None THEN vm_sel ELSE cm'.id
  /\ update_cur_vm' = FALSE
  /\ UNCHANGED <<navi, navlvl, menu_active, vm_edit, edit, replaced, keys>>

MenuInit ==
  /\ navi = [l \in 0 .. 2 |-> [m |-> IF l = 0 THEN "main" ELSE "", mp |-> 0]]
  /\ navlvl = 0 /\ menu_active = FALSE
  /\ vm_sel = 1 /\ vm_edit = 1
  /\ edit = [f \in Tweaked |-> 0] /\ replaced = TRUE
  /\ update_cur_vm = FALSE /\ keys = 0
  /\ video_modes_plm \in {<<>>, ProfileTable}
  /\ signal.v_total = 0 /\ cm.id = 1 /\ vmode = None
MenuKeys ==
  \/ PREV_PAGE \/ NEXT_PAGE \/ PREV_MENU \/ OPT_SELECT \/ VAL_MINUS \/ VAL_PLUS
  \/ RC_MENU \/ RC_PHASE \/ LoadProfile
MenuNext(signals) == MenuKeys \/ ModeChange(signals)
MenuSpec(signals) == MenuInit /\ [][MenuNext(signals)]_menuVars
--------------------------------------------------------------------------------
(* What the menu shows is what a key acts on: there is a menu at the       *)
(* current level and an item at its position, although positions are kept  *)
(* when a level is left and another menu entered there; and the page of a  *)
(* preset's timings shows the preset it writes to, although the main loop  *)
(* selects the preset of every new mode and the phase has keys of its own. *)
(* Unless a profile has replaced the presets: the copies then go into its  *)
(* table with the next key.                                                *)
ShowsWhatItEdits ==
  menu_active =>
    /\ Here.m # "" /\ Here.mp < Len(Menus[Here.m])
    /\ Here.m = "advtiming" /\ ~ replaced => edit = Copies(Preset(vm_edit))
================================================================================
