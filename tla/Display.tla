-------------------------------- MODULE Display --------------------------------
(***************************************************************************)
(* The clients of the timers: the LED that blinks for each key             *)
(* (controls.c), the on-screen display (osd.c), the character display      *)
(* (lcd.c) and the statistics page (av_controller.c), each of which arms a *)
(* one-shot timer to undo what it shows.  The timers are OneShotTimers, so *)
(* cancelling names a slot, whoever armed it.                              *)
(*                                                                         *)
(* The main program and the callback of the statistics page run through    *)
(* lists of primitive operations, todo and irq, and the timers' interrupt  *)
(* comes between any two operations of the main program, also between the  *)
(* two halves of arming a timer: finding a free one and filling it.  The   *)
(* registers of the LED and of the backlight are bits of one word,         *)
(* sys_ctrl, which the main program loads, changes and stores.             *)
(*                                                                         *)
(* The clock moves on while the main program rests or waits for a key or   *)
(* the hardware; its other operations take no time, so a timer it has      *)
(* claimed is not overdue before it is filled, but a callback that is due  *)
(* may run before any of them.                                             *)
(***************************************************************************)
EXTENDS Integers, Sequences, FiniteSets

CONSTANTS
  NSlots,          \* timers in the pool (5)
  OsdEnabled,      \* osd_enable # 0
  osd_status_timeout, \* 0 .. 3
  lcd_bl_timeout,  \* 0 .. 3
  LedTime,         \* time the LED is off for a key (150 ms)
  OsdTime,         \* what osd_status asks for each osd_status_timeout
  LcdTime,         \* what lcd_reset_timeout asks for each lcd_bl_timeout
  InfoTime,        \* time the statistics stay (10 s)
  Keys,            \* keys the user presses
  LedOverlap,      \* bound: keys in LedTime (codes repeat every 108 ms: 2)
  MaxInfo,         \* bound: statistics pages pending at a time
  MaxNow           \* bound: the clock stops here

Slot == 0 .. NSlots - 1
None == -1         \* timer_idx of a client that has armed no timer

ASSUME TimesAssumption ==
  /\ NSlots \in Nat
  /\ LedTime \in Nat /\ InfoTime \in Nat
  /\ OsdTime[osd_status_timeout] \in Nat /\ LcdTime[lcd_bl_timeout] \in Nat

Client == {"controls_reset_led", "osd_off", "lcd_off", "print_vm_stats_hide"}

VARIABLES
  now, timer, claim, called, \* OneShotTimers
  osd,                \* OSD->enable
  osd_menu_active,
  osd_idx,            \* timer_idx of osd.c
  lcd_idx,            \* timer_idx of lcd.c
  has_sh1107,         \* the character display is an OLED, else it has a backlight
  lit,                \* the display is on, or its backlight (lcd_bl_on)
  overtaken,          \* a statistics page has been taken away while the main program was busy
  led_g,
  menu_active,
  in_standby,
  word,               \* sys_ctrl as the main program loaded it
  todo,               \* operations the main program has still to do
  irq                 \* operations the interrupt's callback has still to do

timers == <<now, timer, claim, called>>
osdVars == <<osd, osd_idx>>
lcdVars == <<has_sh1107, lit, lcd_idx, overtaken>>
flags == <<osd_menu_active, menu_active, in_standby>>
Rest == <<osdVars, lcdVars, led_g, flags, word>>
vars == <<timers, Rest, todo, irq>>

T == INSTANCE OneShotTimers WITH
       Callback <- Client, Nested <- {"print_vm_stats_hide"},
       Delay <- {LedTime, OsdTime[osd_status_timeout], LcdTime[lcd_bl_timeout], InfoTime}

\* init_hw has waited for the hardware for many ticks.
Init ==
  /\ now = 1
  /\ timer = [i \in Slot |-> T!Free]
  /\ claim = T!NoClaim
  /\ called = [cb |-> T!NoCb, slot |-> 0]
  /\ osd = FALSE /\ osd_menu_active = FALSE /\ menu_active = FALSE /\ in_standby = FALSE
  /\ osd_idx = None /\ lcd_idx = None
  /\ has_sh1107 \in BOOLEAN
  /\ lit = TRUE /\ led_g = TRUE /\ overtaken = FALSE
  /\ word = [led_g |-> TRUE, lit |-> TRUE]
  /\ todo = <<"status">> /\ irq = <<>>
--------------------------------------------------------------------------------
(* The functions of the clients as lists of operations. *)

\* One bit of sys_ctrl is written.
Write(bit) == <<"load", bit>>

\* mutant: the new timeout is armed before the old one is given up
LcdRowArmsFirst ==
  (IF has_sh1107 THEN <<"oled_on">> ELSE Write("lit1"))
    \o (IF lcd_bl_timeout # 0 THEN <<"lcd_arm">> ELSE <<>>) \o <<"lcd_cancel">>

\* lcd_write_row1 and lcd_write_row2, which end in lcd_reset_timeout.
LcdRow ==
  (IF has_sh1107 THEN <<"oled_on">> ELSE Write("lit1"))
    \o <<"lcd_cancel">> \o (IF lcd_bl_timeout # 0 THEN <<"lcd_arm">> ELSE <<>>)

LcdRows == LcdRow \o LcdRow

\* mutant: the old timeout is not given up
OsdStatusKeepsTimer ==
  LcdRows \o (IF OsdEnabled THEN <<"osd_on", "osd_arm">> ELSE <<"osd_off">>)

\* osd_status once it has found the menu closed.
OsdStatus ==
  LcdRows \o
  (IF OsdEnabled
   THEN <<"osd_cancel", "osd_on">> \o (IF osd_status_timeout # 0 THEN <<"osd_arm">> ELSE <<>>)
   ELSE <<"osd_off">>)

\* mutant: the timeout of the last status keeps running under the menu
OsdOpenKeepsTimer == <<"osd_open">> \o (IF OsdEnabled THEN <<"osd_on">> ELSE <<"osd_off">>)

\* osd_set_menu_active.
OsdOpen == <<"osd_open">> \o (IF OsdEnabled THEN <<"osd_cancel", "osd_on">> ELSE <<"osd_off">>)
OsdClose == <<"osd_close">> \o LcdRows \o (IF OsdEnabled THEN <<"osd_off_if_idle">> ELSE <<"osd_off">>)

\* controls_update with a code of the remote control.
Blink == Write("led0") \o <<"led_arm">>

EnterStandby == <<"standby">> \o Write("lit0") \o Write("led0") \o Write("other")

\* exit_standby and init_hw, which resets the hardware, waits for it and
\* initialises the character display.
ExitStandby ==
  <<"wake">> \o Write("lit1") \o Write("led1") \o Write("other")
    \o <<"wait">> \o (IF has_sh1107 THEN <<"oled_off">> ELSE <<>>) \o <<"status">>
--------------------------------------------------------------------------------
(* Operations. *)

\* timer_timeout takes the first timer that is free.  The one the main program is
\* about to fill may look free or taken to a callback.
LowestFree(i) == timer[i] = T!Free /\ \A j \in 0 .. i - 1 : timer[j] # T!Free \/ j = claim.slot
PoolFull == \A i \in Slot : timer[i] # T!Free \/ i = claim.slot

\* timer_timeout, which returns idx: the main program fills the timer it claimed, a
\* callback claims and fills one at once.
Arm(idx, cb, usec) ==
  \/ irq = <<>> /\ idx = claim.slot /\ T!Fill
  \/ irq # <<>> /\ idx \in Slot /\ LowestFree(idx) /\ T!CallbackArm(idx, cb, usec)
  \/ idx = None /\ (irq = <<>> => claim = T!NoClaim) /\ PoolFull /\ UNCHANGED timers

\* timer_cancel(idx), if idx is not -1.
Drop(idx) ==
  \/ idx = None /\ UNCHANGED timers
  \/ idx # None /\ IF irq = <<>> THEN T!Cancel(idx) ELSE T!CallbackCancel(idx)

\* sys_ctrl is loaded, and stored with one bit changed.
Load == word' = [led_g |-> led_g, lit |-> lit] /\ UNCHANGED <<timers, osdVars, lcdVars, led_g, flags>>

Store(op) ==
  /\ led_g' = IF op \in {"led0", "led1"} THEN op = "led1" ELSE word.led_g
  /\ lit' = IF has_sh1107 THEN lit ELSE IF op \in {"lit0", "lit1"} THEN op = "lit1" ELSE word.lit
  /\ UNCHANGED <<timers, osdVars, has_sh1107, lcd_idx, overtaken, flags, word>>

\* OSD->enable is written.
EnableOsd(on) == osd' = on /\ UNCHANGED <<timers, osd_idx, lcdVars, led_g, flags, word>>

\* sh1107_on and sh1107_off.
EnableOled(on) ==
  lit' = on /\ UNCHANGED <<timers, osdVars, has_sh1107, lcd_idx, overtaken, led_g, flags, word>>

SetMenuActive(active) ==
  osd_menu_active' = active
    /\ UNCHANGED <<timers, osdVars, lcdVars, led_g, menu_active, in_standby, word>>

SetStandby(standby) ==
  in_standby' = standby
    /\ UNCHANGED <<timers, osdVars, lcdVars, led_g, osd_menu_active, menu_active, word>>

\* What each function arms a timer for.
Asked(op) ==
  CASE op = "osd_arm" -> [cb |-> "osd_off", usec |-> OsdTime[osd_status_timeout]]
    [] op = "lcd_arm" -> [cb |-> "lcd_off", usec |-> LcdTime[lcd_bl_timeout]]
    [] op = "led_arm" -> [cb |-> "controls_reset_led", usec |-> LedTime]
    [] op = "info_arm" -> [cb |-> "print_vm_stats_hide", usec |-> InfoTime]
Arms == {"osd_arm", "lcd_arm", "led_arm", "info_arm"}
ArmFor(idx, op) == Arm(idx, Asked(op).cb, Asked(op).usec)

OsdTimer(op) ==
  /\ \/ op = "osd_cancel" /\ Drop(osd_idx) /\ osd_idx' = None
     \/ op = "osd_arm" /\ \E idx \in Slot \union {None} : ArmFor(idx, op) /\ osd_idx' = idx
  /\ UNCHANGED <<osd, lcdVars, led_g, flags, word>>

LcdTimer(op) ==
  /\ \/ op = "lcd_cancel" /\ Drop(lcd_idx) /\ lcd_idx' = None
     \/ op = "lcd_arm" /\ \E idx \in Slot \union {None} :
                            ArmFor(idx, op) /\ lcd_idx' = idx
  /\ UNCHANGED <<osdVars, has_sh1107, lit, overtaken, led_g, flags, word>>

\* controls_update and print_vm_stats do not keep the number of their timer.
OtherTimer(op) ==
  /\ op \in {"led_arm", "info_arm"}
  /\ \E idx \in Slot \union {None} : ArmFor(idx, op)
  /\ UNCHANGED <<osdVars, lcdVars, led_g, flags, word>>

Do(op) ==
  \/ op = "load" /\ Load
  \/ op \in {"led0", "led1", "lit0", "lit1", "other"} /\ Store(op)
  \/ op \in {"osd_on", "osd_off"} /\ EnableOsd(op = "osd_on")
  \/ op = "osd_off_if_idle" /\ EnableOsd(osd /\ osd_idx # None)
  \/ op \in {"oled_on", "oled_off"} /\ EnableOled(op = "oled_on")
  \/ op \in {"osd_open", "osd_close"} /\ SetMenuActive(op = "osd_open")
  \/ op \in {"standby", "wake"} /\ SetStandby(op = "standby")
  \/ OsdTimer(op)
  \/ LcdTimer(op)
  \/ OtherTimer(op)
  \/ op \in {"status", "wait"} /\ UNCHANGED <<timers, Rest>>

\* osd_status goes on only if the menu is closed.
After(op, rest) == IF op = "status" /\ ~ osd_menu_active THEN OsdStatus \o rest ELSE rest

\* The callback of the statistics page goes on.
IrqStep ==
  /\ irq # <<>>
  /\ Do(Head(irq))
  /\ irq' = Tail(irq)
  /\ UNCHANGED todo

\* timer_timeout finds a free timer and is yet to fill it.
ClaimTimer ==
  /\ irq = <<>> /\ todo # <<>> /\ Head(todo) \in Arms
  /\ \E i \in Slot : LowestFree(i) /\ T!Claim(i, Asked(Head(todo)).cb, Asked(Head(todo)).usec)
  /\ UNCHANGED <<Rest, todo, irq>>

\* The main program goes on.
MainStep ==
  /\ irq = <<>> /\ todo # <<>>
  /\ Do(Head(todo))
  /\ todo' = After(Head(todo), Tail(todo))
  /\ UNCHANGED irq
--------------------------------------------------------------------------------
(* The interrupt: each timer that is due runs its callback. *)

\* mutant: the LED comes on whether or not the device is in standby
LedResetInStandby == TRUE

\* controls_reset_led.
LedReset == led_g \/ ~ in_standby

Fire(i) ==
  /\ irq = <<>> /\ i # claim.slot
  /\ T!Fire(i, timer[i].cb)
  /\ \/ /\ timer[i].cb = "controls_reset_led"
        /\ led_g' = LedReset
        /\ UNCHANGED <<osd, lit, irq>>
     \/ /\ timer[i].cb = "osd_off"
        /\ osd' = FALSE
        /\ UNCHANGED <<led_g, lit, irq>>
     \/ /\ timer[i].cb = "lcd_off"
        /\ lit' = FALSE
        /\ UNCHANGED <<led_g, osd, irq>>
     \/ /\ timer[i].cb = "print_vm_stats_hide"
        /\ irq' = OsdClose
        /\ UNCHANGED <<led_g, osd, lit>>
  /\ overtaken' = (overtaken \/ (timer[i].cb = "print_vm_stats_hide" /\ todo # <<>>))
  /\ UNCHANGED <<osd_idx, lcd_idx, has_sh1107, flags, word, todo>>

Tick ==
  /\ irq = <<>>
  /\ todo # <<>> => Head(todo) = "wait"
  /\ now < MaxNow
  /\ T!Tick
  /\ UNCHANGED <<Rest, todo, irq>>
--------------------------------------------------------------------------------
(* What happens to the main program. *)

Idle == irq = <<>> /\ todo = <<>>
Pending(cb) == {i \in Slot : timer[i].cb = cb}

\* A key of the remote control.
Key(ops) ==
  /\ Idle
  /\ Cardinality(Pending("controls_reset_led")) < LedOverlap
  /\ todo' = Blink \o ops
  /\ UNCHANGED <<timers, osdVars, lcdVars, led_g, osd_menu_active, in_standby, word, irq>>

\* RC_MENU, or leaving the menu.
MenuKey ==
  /\ "menu" \in Keys /\ ~ in_standby
  /\ menu_active' = ~ menu_active
  /\ Key(IF menu_active' THEN OsdOpen \o LcdRows ELSE OsdClose)

\* A key for the open menu: the line it selects or changes is shown.
NavigationKey ==
  /\ "menu" \in Keys /\ ~ in_standby /\ menu_active
  /\ Key(LcdRows)
  /\ UNCHANGED menu_active

\* A key whose effect osd_status shows if the menu is closed, or a key that does
\* nothing in standby.
StatusKey ==
  /\ "status" \in Keys
  /\ Key(IF menu_active \/ in_standby THEN <<>> ELSE <<"status">>)
  /\ UNCHANGED menu_active

\* RC_LM_MODE and RC_PROF_HOTKEY ask for another key.
PromptKey ==
  /\ "prompt" \in Keys /\ ~ in_standby
  /\ menu_active' = FALSE
  /\ Key(OsdOpen \o LcdRows \o <<"wait">> \o OsdClose)

\* RC_INFO.  With the other display print_vm_stats_hide stops the clock.
InfoKey ==
  /\ "info" \in Keys /\ ~ in_standby /\ has_sh1107
  /\ Cardinality(Pending("print_vm_stats_hide")) < MaxInfo
  /\ Key(IF menu_active THEN <<>> ELSE OsdOpen \o <<"info_arm">>)
  /\ UNCHANGED menu_active

\* RC_STANDBY.
StandbyKey ==
  /\ "standby" \in Keys
  /\ Key(IF in_standby THEN ExitStandby ELSE EnterStandby)
  /\ UNCHANGED menu_active

\* FP_BTN1 or FP_BTN2.
WakeButton ==
  /\ Idle /\ in_standby
  /\ todo' = ExitStandby
  /\ UNCHANGED <<timers, Rest, irq>>

\* The mode or the input changes, or sync is lost.
VideoChanges ==
  /\ Idle /\ ~ in_standby
  /\ todo' = <<"status">>
  /\ UNCHANGED <<timers, Rest, irq>>

\* The main program writes another bit of sys_ctrl.
OtherBit ==
  /\ Idle
  /\ todo' = Write("other")
  /\ UNCHANGED <<timers, Rest, irq>>

Next ==
  \/ Tick \/ IrqStep \/ ClaimTimer \/ MainStep
  \/ \E i \in Slot : Fire(i)
  \/ MenuKey \/ NavigationKey \/ StatusKey \/ PromptKey \/ InfoKey \/ StandbyKey \/ WakeButton
  \/ VideoChanges \/ OtherBit

Spec == Init /\ [][Next]_vars
--------------------------------------------------------------------------------
\* A display's timer can be taken back (osd.c 127-131, 151, 174-178; lcd.c 52-56, 68):
\* no osd_off is pending that osd.c has lost track of, and no lcd_off of the
\* backlight, so a status, a menu or a text that is shown next stays. The OLED is
\* written to from the interrupt as well, and there the track may be lost.
TimersKnown ==
  \A i \in Slot : /\ timer[i].cb = "osd_off" => osd_idx = i
                  /\ ~ has_sh1107 /\ timer[i].cb = "lcd_off" => lcd_idx = i

\* What is shown goes away by itself, while the main program rests.  On a board with
\* a backlight (osd.c 135-151): osd_off is pending if the on-screen display is on
\* with no menu open, unless the status time is the 0 that osd.c takes for none; of
\* the backlight nothing is said.  On a board with the OLED (lcd.c 58-68), where
\* print_vm_stats_hide writes from the interrupt: lcd_off is pending if the OLED is
\* lit and a timeout is chosen, unless that callback has armed the very timer that
\* the main program was filling: then osd.c and lcd.c may hold the same number and
\* take each other's timers from there on.  Of the on-screen display nothing is said.
TimeoutsArmed ==
  Idle => /\ ~ has_sh1107 /\ osd_status_timeout # 0 /\ osd /\ ~ osd_menu_active => Pending("osd_off") # {}
          /\ has_sh1107 /\ lit /\ lcd_bl_timeout # 0 /\ ~ overtaken => Pending("lcd_off") # {}

\* What the user has chosen outlasts the timeouts armed before. In standby
\* (av_controller.c 828-835) the green LED and the backlight are off and no callback
\* brings them back; an open menu is on the screen (osd.c 172-183), and no timeout
\* of an earlier status takes it away.
StandbyDark == in_standby => ~ led_g /\ (has_sh1107 \/ ~ lit)
MenuShown == ~ has_sh1107 /\ menu_active /\ OsdEnabled => osd /\ osd_menu_active
OutlastsTimeouts == Idle => StandbyDark /\ MenuShown
================================================================================
