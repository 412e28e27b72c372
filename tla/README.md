# A formal model of the OSSC firmware

TLA+ modules, TLC configurations and TLAPS proofs about the firmware of the Open
Source Scan Converter: the C program of `software/fw` and the drivers of
`software/bsp` that run on the RISC-V core in the FPGA.  Every definition that
stands for code is listed with its lines in `PROJECT.json` under `map`.  Operators
whose comment says *mutant* are deliberately broken variants of the definition
that follows them; `PROJECT.json` says which property each must violate.

## The system

The OSSC digitises analog video (three connectors, ten input formats), multiplies
its lines and sends it out over HDMI.  One RISC-V core runs the firmware.  There
is no operating system: `main` in `av_controller.c` is an endless loop with one pass
every 10 ms, and there is one interrupt, every 100 us, from the hardware timer.

| Component | State it keeps | Operations | Talks to |
|---|---|---|---|
| Timers (`timer.c`) | the 64-bit clock, five one-shot timers | init, deinit, timeout, cancel, usleep, timestamp, the interrupt handler | its clients by callback, in the interrupt |
| Main loop (`av_controller.c`) | `cm` (input, last reading, "current configuration"), `target_input`, counters of the search, `vmode_in/out` | search, input switching, transmitter update, `get_status`, `program_mode`, `init_hw`, standby, profiles | the chips over I2C, the FPGA by registers, everything below by calls |
| Remote control and buttons (`controls.c`) | key map, last code | `controls_update`, `controls_parse`, `controls_setup` | main loop, menu, settings |
| Menu (`menu.c`) | page, line, `menu_active`, the preset being edited | open, move, change a setting, run a function, tweak a preset | settings, preset table, displays, profiles |
| OSD, character display, LED (`osd.c`, `lcd.c`, `st7032.c`, `sh1107.c`) | enable bits, the timer each remembers | status, notification, menu, timeouts | timers, the register word `sys_ctrl` |
| Settings and profiles (`avconfig.c`, `userdata.c`) | `tc`, the profile slots and the initial settings in flash | load, save, import, export | flash, SD card |
| Mode presets (`video_modes.c`) | the preset table | find the preset for a reading, compute the output timings | main loop, menu |
| Firmware update (`firmware.c`, `updater/`) | flash image | check, copy, verify, retry | SD card, flash |
| Flash driver (`flash.c`) | the chip's write enable, protection, a write going on | protect, erase, program | settings, update |
| SD card driver (`sdcard.c`, `mmc.c`, `ocsdc.c`) | `struct mmc`: addressing, RCA, width, capacity; the card's own state | check, read, write, one command after another | settings, update |
| FAT16 export (`fat16_export.c`) | number of clusters written | boot sector, table, directory entry, sector by sector | SD card |
| Analog front end and ADC (`tvp7002.c`, `ths7353.c`, `pcm1862.c`) | chip registers, several settings in one | source, sampling, filters, levels, power, audio | I2C, byte by byte |
| HDMI transmitter driver (`it6613*.c`) | the chip's banked registers; the sink's capabilities | video, frames, audio, hot plug, EDID, the device loop | I2C; the main loop, or an application over its device loop |
| PLL reconfiguration (`pll_reconfig_top.sv`, `pll_reconfigure`) | scan registers, state machine, number of the configuration | shift, update, wait for the answer | PLL; the main loop by registers |
| Other FPGA logic (`rtl/`) | line buffers, measurement of the sync, IR receiver | one step per clock | the firmware by registers |

What is hard in this system, and hard to test:

* **The interrupt.**  Callbacks run inside the handler, between any two instructions
  of the main program.  `timer_timeout` and `timer_cancel` share their arrays with it
  without masking it; 64-bit values take two loads or stores; some callbacks call
  the timers, or the displays, themselves; `sys_ctrl` is one word whose bits both
  sides change by load and store.
* **Copies of state.**  The main loop decides what to write to the chips by comparing
  what the user wants (`tc`) with what it believes is there (`cm.cc`).  Whenever the
  chips change behind it (reset, standby), or the copy is overwritten on another
  path, a write is lost.
* **Order.**  A key, a profile linked to an input, a search step, a change of signal
  and a lost sync may meet in one pass.
* **Endings.**  The search for a signal must find one, and must stop.
* **Timers as a resource.**  Five timers for clients that do not know of each other,
  named by numbers that outlive them.
* **Persistence.**  Flash is written without checksums; a power cut, a failing card or
  a verify error in the middle leaves something that looks valid.

What makes each component correct:

* Timers: an armed timer runs once, not before its time and no later than the next
  interrupt, and only the timer of an arming call still in progress may be mixed up; no call
  through a pointer not yet set, unless the arming call is slower than the time it asks for;
  the clock never stops (it does, see TimerStuck).
* Main loop: what the chips do is what was read last and what the user wants; the copy
  agrees with the chips; there is sound whenever there is a picture; the profile of the
  input is in force; a signal is found and the search ends.
* Displays: what is shown goes away, what should stay stays, standby is dark.
* Settings: what is loaded is what was saved, in whatever order and wherever the power
  was cut, and numbers read from flash stay within the arrays they index.
* Update: the flash is touched only for an image that was checked and confirmed, the copy
  brings this image into flash, and failing reads are survived as often as there are retries.
  (That the user data survive is false, see UpdateUserData.)
* Menu and presets: what is shown is what a key changes, the preset programmed is the
  nearest one allowed, and the output keeps step with the input.
* Flash and SD drivers: when a call returns, what it was called for has been done, on
  the card that is there and at the place that was asked for; nothing fails without a
  cause in the present.
* Chips: the registers hold what was asked for last of every setting, though settings
  share registers and packets.
* PLL: it runs with the configuration asked for, whatever failed before.

The hazards, each at its line and with the properties that guard it or the reason why
none does, are listed in `PROJECT.json`.

## Modules

```
OneShotTimers          what timer.c promises
  ^ refined by         TimerPromise (TimerPool and a history variable) <- MCTimerPool
  ^ instance           Display <- MCDisplay
TimerPool <- TimerPromise, TimerHistory <- MCTimerHistory
TimerPromise, TimerHistory <- TimerPoolProofs
Display <- DisplayProofs
AvController <- MCAvController, AvHistory <- MCAvHistory, AvSearch <- MCAvSearch
AvHistory <- AvProofs
Storage <- MCStorage, StorageProofs
FirmwareUpdate <- MCFirmwareUpdate, UpdateProofs
HdmiChip <- HdmiTx, HdmiLoop
HdmiTx, HdmiLoop <- HdmiProofs
LineModes <- Menu
SdCard, Fat16, NorFlash, FrontEnd, PllReconfig, Menu, HdmiTx, HdmiLoop <- MCParts
SdCard, Fat16, NorFlash, FrontEnd, PllReconfig <- PartsProofs
Menu <- MenuProofs
```

**TimerPool** is `timer.c` with one step for each access to half of a 64-bit value.
`timer_ctr`, `timeout_ctr` and `timeout_cb` are the variables of the same names; `pc`,
`idx`, `req`, `now`, `start_ts` and `todo` are the locals of the call in progress, `todo`
the halves still to be read or written, in any order as the compiler is free to choose.
`irq` is the round of the handler's loop.  The word is a constant, so its overflow is in
the model.  `Nested` and `Sleeping` say which callbacks use the timers or wait for the
clock; durations may be 0, which `osd_status` asks for at its longest setting.  A handler that
calls a sleeping callback, or null, is `Stuck`.  Time is counted in ticks: `usleep` waits until it
has seen as many as its time has, the first of which may come at once.

**OneShotTimers** is the promise: a set of timers, each cancelled or fired in one step, and armed by the
main program in two, `Claim` and `Fill`.  In between callbacks may take or free the timer that
was claimed; `others` remembers what they stored, and `Outcomes` says what the timer may
hold then.  **TimerPromise** is the refinement: `Pending` and `Claimed` map the pool to it, with one
history variable for what handlers did to the timer being filled.

**TimerHistory** runs TimerPool across a carry into the high word, with history
variables that remember what was promised.

**AvController** is the main loop, cut at the places where one concern hands over to
the next (`pc`): search, key, linked profile, input switch, transmitter, status.  Within a
cut the code runs alone (callbacks touch none of its state), so it is one action.  `tc`,
`cc`, `cm`, `avinput`, `target_input`, `profile_sel`, `input_profiles` are the program's
variables; `auto` gathers the locals of `main`; `hw` is what the registers of the chips
and the FPGA hold after the drivers' calls.  A setting is abstracted to the group it is
handled with: `mode` (compared in the mode check), `sc` (post-processing), `afe`
(compared one by one), `audio`, `tx`, `itc`, `alt`, `link`.  A reading of the front end
keeps the values `get_status` compares.  **AvHistory** adds how the current profile was
chosen and where the search began.  **AvSearch** adds an environment in which signals and
user come to rest.

**Display** is the LED, the OSD, the character display, the statistics page, menu and
standby as clients of OneShotTimers.  Their functions are lists of primitive operations
(`todo` for the main program, `irq` for the callback of the statistics page), so that the
interrupt comes between any two, between the load and the store of `sys_ctrl`, and between the
search of `timer_timeout` for a free timer and its stores (`ClaimTimer`, then `Arm`), where the callback's own
arming may take the same timer.  `overtaken` is a history variable: the page was taken away
while the main program was busy.

**Storage** is `userdata.c` with the erase and protection commands of `flash.c`, and the
places of the main loop, `controls_setup` and the menu that call it.  `flash` maps an entry (a 64 KB
sector) to the cells programmed so far; `ram` gathers the program's globals (`tc` split
into its link and the rest, `video_modes_plm`, `input_profiles`, `target_input`,
`def_input`, `profile_sel`, `profile_link`, `cm.avinput`); a save is a job of one erase, one step
per field and the call that protects the flash again, so that the power can be cut between any two.
What lies behind the last cell reads as all ones.  `Stored` is what a preset table becomes
when it is saved one byte per word; AvController uses it for its slots, too.  Import reads
entries from a card whose reads may fail unnoticed, export writes them.  A load that finds an erased
link makes it the target, as the code does, and records the profile behind the end of
`input_profiles`; from there on (`pc = "lost"`) only the power can still be cut.  `kept` and `cut` are
history variables.

**FirmwareUpdate** is `fw_update` and `main` of the updater, with flash and card divided
into blocks, a checksum the sequence of blocks it was taken over, and NOR flash that can
only be programmed after it was erased.  The card may be changed at any moment, any read
may fail, any block of flash may not take its value, the power may be cut.
`FLASH_UPDATER_OFFSET` is where the firmware takes the updater from, `UpdaterAt` where images have
it: in run Update they agree, as in the updater's own header; in UpdateJump they differ
as in the firmware's.  The header that `fw_update` passes is lost: the updater's start-up code
(`updater/crt0_init.S`) clears a0 (line 33) and loads it with the trap vector (58) before `jal main` (62), so
`main` takes the length from bytes 18 to 21 of the vector, which are part of jump instructions and make more
than the flash is large (`VectorLen`), and the checksum from bytes 22 to 25.  `Program` therefore copies the card over the user
data to the end of the flash and behind, where a write may never return (`"hung"`), and `Verify` has
any verdict.  `confirmed` and `hurt` are history variables; `hurt` says what went wrong since the header was
read: failed reads, flash, card, power.

**SdCard** is `mmc.c` on `ocsdc.c` under `sdcard.c`: `mmc` is `struct mmc`, `pc` the command
that is sent next, and one step is a command with what the driver does about its outcome.
`slot` is the card, which follows the SD specification and keeps silent when its state does
not allow a command.  Cards are exchanged between commands; commands and answers are lost.
`told`, `same`, `clean` and `moved` are history variables.

**Fat16** is the exported volume: the constants of `fat16_export.h`, the literals of the boot
sector, `generate_fat16` as a function from the clusters written so far, and the loop of
`userdata_export` that writes it.

**NorFlash** is `flash.c` down to the commands it sends (`at`), with the chip that ignores
them while it is busy and a power that is cut in the middle; `saving` is the caller.

**FrontEnd** is what `tvp7002.c`, `ths7353.c` and `pcm1862.c` write, as sequences of accesses
(`prog`), on an I2C bus byte by byte (`byte`, `ptr`, `bus`), under the calls the main loop makes.
`oled` is the display whose timeout writes to the same bus from the interrupt.  Without an audio
converter of the expected number `pcm1862_init` gives up, and nobody calls its other functions.
`asked` is a history variable.

**HdmiChip** has an operator for each function of `it6613_drv.c`: the registers `tx` as the
function leaves them.  **HdmiTx** is the firmware's use of it, one action for each place of the
main loop that writes to the chip; **HdmiLoop** the driver's own application interface, device
loop, hot plug and EDID, which this firmware compiles in but does not call: nothing is assumed to
call it often enough, and only safety is stated of it.

**LineModes** is the table of presets and `get_pure_lm_mode` with the arithmetic of the output
timings, and the part of `program_mode` that computes clocks.  The search through the table
is a recursive function over its index.  **Menu** adds `display_menu`: `navi` and `navlvl` are
the levels, `edit` the copies the page of timings works on; the main loop, the keys for the
sampling phase and a profile that is loaded change the same presets.

**PllReconfig** is `pll_reconfigure` on `pll_reconfig_top.sv`, one step for each cycle of the
block's clock, all registers taking their new values together, with or without an access of
the firmware.  The PLL and the switch of its clock may fail to answer, or answer late.  `usleep(10)` ends with
the next tick of the timer, which may be the next cycle: `pll_reconfigure` may return in the middle of the
shift.  What is assumed instead is that two calls are further apart than a shift takes (`CallGap`): between
them the main loop waits for other chips byte by byte.

## Runs

| Run | Question | Bounds |
|---|---|---|
| TimerFirstEpoch | Does the pool keep its promise (`PromiseKept`); is a callback that is not yet stored called only for an arming call slower than its time (`NoNullCall`); does every armed timer run (`ArmedRuns`); does `usleep` see as many ticks as its time has (`SleepsItsTicks`)? | two slots, two callbacks, one of which uses the pool itself; durations 0 and 2, clock up to 5, one tick inside an arming call |
| TimerStuck | *violation*: is the handler "called every 100us" (`CalledEvery100us`)? | one slot, a callback that sleeps |
| TimerEpochs | Do timers that no tick disturbed stay exact across a carry, although callbacks arm, cancel and sleep (`UninterruptedArmsAreExact`)? | words of 4 values, durations 0 and 2, clock into the second epoch |
| AvHardware | Do chips and copies agree with the reading and the settings after every pass (`OutputMatchesMode`, `CurrentConfiguration`, `AudioRuns`)? | two connectors, six readings, five configurations, two preset tables; no standby |
| AvProfiles | Do linked profiles follow the input (`SyncedProfileIsLinked`); does the search keep to its connector (`KeepsConnector`)? | two profiles, two inputs by hand, all inputs by search, standby |
| AvSearch | Is a signal found (`AutoFindsSignal`), and does the search stop (`SearchEnds`)? | the search's own constants: 6 attempts on the connector; 18 in all |
| Display | Do clients keep track of their timers (`TimersKnown`); is the timeout of the OSD (with a backlight) or of the OLED armed (`TimeoutsArmed`); do standby and an open menu outlast the timeouts armed before (`OutlastsTimeouts`)? | all five timers, times in proportion, two keys within the LED's time, one statistics page, clock from 1 to 6 |
| Storage | Are numbers in range, and the target input, too, unless a profile that a power cut left half written was loaded (`IndicesInBounds`); is the last save in force after a restart (`BootRestores`), the flash protected (`ProtectedAtRest`), and are entries whole unless the power was cut (`HalfWrittenOnlyByCut`)? | two profiles, the test pattern and two inputs, five actions of the user, counting power cuts; an empty and a full card |
| StorageReadBack | *violation*: does a profile bring its presets back (`PresetsSurvive`)? | as Storage, three actions |
| Update | Is the flash touched only for a confirmed image (`TouchedOnlyIfConfirmed`); does the copy bring that image into flash (`ImageCopied`); does the device survive (`SurvivesRetries`); does the update end (`UpdateEnds`)? | two sectors of two blocks below one sector of user data; a good, a shorter, a corrupt and a foreign card; two changes of card, four failing reads or blocks of flash against three retries |
| Parts | Parts that do not meet, one after another (`user`): see below | |
| I2cInterrupted | *violation*: does every byte follow an address when the display's timeout comes inside a transfer (`AddressedFirst`)? | as Parts |

Run Parts explores, each with the others at rest:

* `sd`: are the blocks moved exactly those asked for, on the card that was checked
  (`TransferIsExact`), and does nothing fail without a cause (`FailsForCause`)?  Five kinds of card
  (1.0, 2.0, high capacity, slow, MMC), one exchange, one lost command or answer, three jobs,
  transfers of at most two blocks, polls that may run out.
* `fat`: can whoever reads the volume by its boot sector find the file (`VolumeReadable`)?  The real
  size of the volume.
* `flash`: is everything done when a function returns (`DoneAtReturn`)?  Four sectors, three sizes
  of erase, two power cuts.
* `chips`: do the registers hold what was asked for (`RegistersAsAsked`)?  Two calls after the
  initialisation, for two settings disturb each other in pairs; timeouts of the display between
  two transfers only; with and without an audio converter.
* `pll`: does the PLL run with what was asked for (`RunsAsAsked`)?  Three configurations, a chain of
  four bits instead of 144, twelve cycles from an update to the next call, a `usleep` that ends at any time,
  any number of calls.
* `menu`: does the page show what it edits (`ShowsWhatItEdits`)?  Six keys, a new mode and a new
  profile at any moment.
* `modes`: is the nearest preset programmed (`NearestPreset`) and the output in step with the input
  (`OutputFollowsInput`)?  The whole table; 25 signals on either side of the limits, 146 settings
  that cover every multiplication, way and format, one programming each.
* `ossc`: do frames, colours and audio fit the output after every change the main loop makes
  (`FramesFitOutput`)?  Two output modes with and without repeated pixels, three modes of the transmitter,
  the flags for content type and down-sampling.
* `loop`: is the N of the audio clock that of pixel clock and rate, whichever was set up last
  (`SourceClock`)?  The driver's device loop, one timing, colour and rate, two sinks that come and go.

Why the bounds are enough.  Two timers are the fewest with which a client can be
disturbed by another's; more slots only add copies, and the proofs hold for any number.
The clock runs long enough for the longest delay to be armed, expire and be reused; with the duration 0
one tick inside an arming call is enough to overtake it, so `NoNullCall` meets the case it
excepts.  The values of each group of settings are compared for equality only, so two values suffice;
line counts are scaled down but lie on both sides of each limit.  Six readings give each
comparison of `get_status` a pair that differs in it alone.  In Display all five timers
are there, because running out of them is the question; a second statistics page is
beyond the bound (the pool would be exhausted, see the hazards).  In Storage five actions
are enough to set a link, save a profile under it, change the input, cut the power in a save
and look at the result after the restart; its safety theorems need no bound.  In Update the
bounds on faults leave one more failing read than there are retries, and the vector's length is one
block more than the flash; the proofs hold for any
numbers.  In `sd` three jobs are a check, a transfer that breaks, and a job that meets what it left; a card
that was pulled answers nothing, without counting as lost commands.  Six keys reach the page of timings, edit a value,
leave for another level and return.

Deadlock is checked for the main loop and the update: neither ever stops, for a
dead device can still be switched off and on.  In the timer and display runs it is not, because
the bounded clock does stop there and `timer_deinit` halts, nor in Storage and Parts, whose users
have a bounded number of actions.

Six further configurations are kept that TLC finds violated; they show scenarios of the
section after the next: AvWake (`CurrentConfiguration` with standby), UpdateJump (`JumpsToUpdater` with the
firmware's own offset), UpdateUserData (`UserDataKept`), StorageLink (`AlwaysInBounds`), HdmiHdr (`HdrFlagSent`
with the VRR flag) and DisplayPage (`OledGoesOff`: `TimeoutsArmed` for the OLED without its exception).

## Fairness

`WF(Irq)`: the hardware timer interrupts as long as it runs, and the handler runs with
interrupts disabled to its end.  `SF(Continue)`: a call of the main program goes on between
two interrupts, since the handler returns well before the next tick; weak fairness
would let the handler suspend it at every moment it is enabled.  `WF(Running)` in
AvSearch: the main loop is endless and none of its steps waits for anything.  `WF(Updater)`: the updater
runs with nothing to wait for.  Nothing obliges the user or a signal to do anything, and nobody has to answer
the prompt or switch the device on again.

## What the runs show to be wrong

* **StorageReadBack.**  The preset table is saved one byte per 32-bit word, so a saved
  profile brings other presets back than it was saved with.
* **I2cInterrupted.**  The timeout of an OLED display switches it off over I2C from the
  timer's interrupt, in the middle of a transfer of the main program: the rest of that transfer
  goes nowhere, a read gives 0xff, and the read-modify-write around it stores it.
* **TimerStuck.**  On a board with an ST7032 display, the callback armed by INFO
  writes to the display from the interrupt; the driver sleeps, and `usleep` waits for the clock
  that only this interrupt advances.  The device hangs, and the handler that is "called every 100us"
  (timer.c:30) is called no more.
* **AvWake** (configuration).  Waking from standby resets the chips and sets their defaults, while
  `cm` keeps its values: routing and analog settings are not restored.  `FramesFitOutput` with
  `Standby = TRUE` is violated for the same reason.
* **UpdateJump** (configuration).  The firmware takes the updater from 0xFF000, images have it at
  0xFD000: what is called is not its entry.
* **HdmiHdr** (configuration).  HDR and VRR frames share the chip's one packet of free content, and
  `TX_enable` and the main loop write the VRR frame last (av_controller.c:142-143): with the "HDMI HDR
  flag" on, the sink is not told of it after a change of either.
* **UpdateUserData** (configuration).  The updater never gets the header: its start-up code overwrites the
  register it is passed in (crt0_init.S:33, 58).  It copies the card to the end of the flash, over the user
  data, and beyond.
* **StorageLink** (configuration).  After a power cut in the middle of a saved profile the slot passes for
  valid; loading it makes an erased link the target input and records the profile behind the end of
  `input_profiles` (av_controller.c:654-658).
* **DisplayPage** (configuration).  The callback of the statistics page writes to the character
  display and so calls `lcd_reset_timeout` from the interrupt (lcd.c:58-68).  If it does so while the
  main program is between the cancel and the arm of the same function, two `lcd_off` are pending and
  lcd.c knows of one; if it does so inside `timer_timeout`, both arm the same timer, and osd.c and lcd.c may
  hold the same number.  osd.c never forgets the number of an `osd_off` that has run (osd.c:127-129), so
  when the next `lcd_off` gets that timer, the next `osd_status` cancels it: the OLED stays lit.

Seen while modelling, and not kept as runs:

* By the same stale number `osd_status` cancels the timer of the LED, if the blink of a key got the slot
  of an `osd_off` that had run: the LED keeps what the blink left until a later key.

* On a board strapped for DVI `init_hw` starts the transmitter in HDMI mode while the copy
  says DVI, so the check "regardless of input" never sets it (`CurrentConfiguration` with
  `DefaultConfig.tx = "DVI"`).
* A change of the transmitter mode is meant to invalidate the mode ("TODO: proper
  invalidate", av_controller.c:1073) but clears a field mode detection does not compare;
  pixel repetition stays as it was.
* The status time "2s" has index 0, and a test for 0 around the switch makes it "forever"
  (osd.c:135; `TimeoutsArmed` with `osd_status_timeout = 0`).
* On a display with a backlight the interrupt may turn it off between the load and the store of
  another bit of `sys_ctrl`; the store turns it on again and its timer is spent.
* Every save of the initial configuration records the input of the moment, also one the search
  chose, though the last input is to be recorded "if it was selected manually"
  (userdata.c:97, av_controller.c:1056).
* After an import the target may be the test pattern while another input is active;
  `target_format` is then read uninitialised (av_controller.c:1003).
* A verify error (204) is positive, so the "Critical error, retry update" that tests for a negative
  code (updater/main.c:135-136) does not retry it.
* The card is read again by the updater after it has erased the flash, and since the checksum is compared with
  bytes of the trap vector nothing notices what was read: a card that was exchanged at
  the prompt leaves the device without firmware, or with another.
* At its longest setting (3, for which the switch has no case) `osd_status` arms its timer for a time of 0
  (osd.c:137-151).  A tick between the stores of that call lets the handler call through a null
  pointer (`NoNullCall` excepts an arming call that is slower than its time).
* `usleep` returns up to a tick early, and `usleep(10)` possibly at once: the first tick it waits for may come
  with the next instruction (timer.c:98-106).
* Import ignores failing reads of the data (userdata.c:345), and selects the profile of the
  target input even when profiles are not linked (userdata.c:359, against 217).
* `mmc_init` drops every error of `sd_send_op_cond` but one.  If the answer to ACMD41 is lost the
  check goes on with the addressing of the card before, and a card of high capacity is addressed
  in bytes: other blocks are read, and nothing fails (`TransferIsExact` excludes it by `told`).
* After an update of the PLL that was never answered the register block still names the
  configuration before, so a request for that one is skipped (`RunsAsAsked` excludes it by `refused`).
  If the answer comes after another request was refused it counts for that one's number (`doubt`).
  `pll_reconfigure` reports success although the clock did not switch and nothing was done, and it may
  return, and switch the clock back, in the middle of the shift.
* Division by zero without a signal (av_controller.c:280, 204; unused or harmless on RV32), ten
  custom column strengths read out of six (460), a reference of the frame rate that follows a slow
  drift (308), a mode left zeroed when no preset fits (533), a profile number set before a load that
  may fail (975), and an interval of 300 compared with microseconds (922).
* LEFT and RIGHT on a submenu or function without an argument read through a null pointer
  (menu.c:474, 485).
* A profile loaded while the page of timings is open is overwritten by the page's old copies with
  the next key (`ShowsWhatItEdits` excludes it by `replaced`).
* A back porch below 8, or a line below 1920 samples, set on that page underflows in the modes that
  shorten it (240x360 Line2x; Line5x).
* `ths_source_sel` ignores the filter it is given.
* In the transmitter's driver, which the firmware calls only in part: a sink that is exchanged between two passes
  of the device loop is not noticed and the capabilities of the one before are kept (it6613_HDMI_TX.c:237); `ParseEDID`'s result is taken the
  wrong way round; rates at or below 31 kHz pass for 44.1 kHz; N is 0 for a rate it does not know; the
  flags for colorimetry and range are dropped by `SetColorSpace`.

## What is proved

The theorems hold for every value of the constants, under the assumptions named in the modules
(`PoolAssumption` in TimerPool, `CardAssumption` and `FlashAssumption` in FirmwareUpdate,
`SettingAssumption` in FrontEnd, those of Storage, AvController, HdmiTx, SdCard, NorFlash and
PllReconfig, `TableAssumption` in Menu), which the runs of these modules evaluate.  Hypotheses that a theorem needs beyond them are in its statement
and given here.  Each property is one a run checks on a small instance.

### Timers: `TimerPoolProofs`

For every number of slots, set of callbacks, set of durations (0 included) and size of word, and with callbacks
that use the pool:

* `TypeCorrect`: `Spec => []TypeOK`.
* `NoNullCallInFirstEpoch`, from `FirstEpoch` (every deadline the bounded clock allows
  fits in the low word): the handler calls through a callback not yet stored only for an arming call that more ticks
  have hit than it asked to wait for.  The invariant `CallInv` says that high words are zero, that what the
  call read of the clock is as old as the ticks that have hit it since (`ReadingIsRecent`), and that a deadline visible
  without its callback is the one of that call (`CallbackKnown`).
* `SleepsInFirstEpoch`, from `FirstEpoch`: `usleep` meets as many ticks as its time has.  `SleepInv` says
  how old its first reading may be (no older than the ticks it has met since) and that the next
  one is not from the future, at every place where an interrupt may come between two halves.
* `PoolKeepsPromise`, from `FirstEpoch`: the pool implements OneShotTimers, a callback that takes the slot an
  arming call has found included.  The invariant `PromiseInv` joins `CallInv`, what the slot being filled may hold
  (`FillInv`: what the call has stored so far, or, if `others` used the slot, a deadline from a reading
  during the call and a callback stored during it), that the slots the handler has passed
  hold nothing overdue (`Swept`) and that it runs after a tick (`Ticked`); each step is then a step of OneShotTimers
  or a stutter.
* `UninterruptedArmsHold`, from `MaxClock["hi"] + 1 < Word` (the clock ends before 64 bits run out):
  across any number of carries, and with callbacks that arm, cancel and sleep, a timer whose arming no
  tick disturbed is exact.  `HistoryInv` compares pairs of words by their value (`ClockInv`); a timer
  is stored exactly as long as no tick has hit its arming (`ExactInv`), one being filled or cleared was
  promised to nobody (`BusyInv`), and what was promised is in the arrays, overdue only until the
  handler comes to it (`Kept`).

`FirstEpoch` is 71 minutes of uptime: across the carry a torn reading makes deadlines wrong by as much, `NoNullCall`,
`SleepsItsTicks` and the promise fail, and what remains is `UninterruptedArmsHold`.

### Main loop: `AvProofs`

For every set of inputs, modes, groups of settings and readings, and all limits of the search:

* `ModeProgrammed`, `ChipsFollow` and `SoundFollows` state `OutputMatchesMode`, `CurrentConfiguration` and
  `AudioRuns`, from `PlainDevice`: the device is strapped to HDMI and not put into standby.  Without either
  hypothesis the code does otherwise (AvWake, and the DVI strap below "Seen while modelling").  The
  properties speak of the moment between two passes; the invariants say what holds at each `pc` inside
  one: `ChipsInv` which groups of `cc` the chips have and which the rest of the pass has yet to
  compare, `ModeInv` that with a picture the mode computed is that of the last reading and is programmed,
  unless a change of the table is still to be obeyed, `SoundInv` that the sound is that of `cc`, or already
  that of `tc` once the transmitter was set up for it.
* `ProfileFollowsInput` and `SearchStaysHome` state `SyncedProfileIsLinked` and `KeepsConnector`, standby
  included.  `LinkInv`: while a chosen profile may not be the one
  linked to the target, there is a change that `LinkProfile` is still to see.  `HomeInv`: while main's own
  counter is below its limit it agrees with the attempts made, and the target is on the connector.

### Displays: `DisplayProofs`

For any size of pool, any timeouts, 0 included, either character display, and callbacks between the two
halves of every arming call, `TimersStayKnown` and
`ChoiceOutlasts` state `TimersKnown` and `OutlastsTimeouts`.  The invariant `DInv` says what lists of
primitive operations may still be to come (`ListInv`), that a timer that is claimed is claimed for the next of them,
and that meanwhile only the statistics page's callback may use it, for an `lcd_off` (`ClaimInv`), that what that
callback writes arms no timer of the OSD and touches no bit of `sys_ctrl` (`PageInv`), that in standby what is lit is
about to be cleared (`DarkInv`), and that nothing takes the open menu away that is not about to be
taken back (`MenuInv`).

`TimeoutsStayArmed` states `TimeoutsArmed`, from `TimersSuffice`: a status time other than the index 0, and more timers
than the LED's overlapping blinks and one (with as many as that TLC finds it violated).  With a backlight it is about
the OSD, with the OLED about the OLED, which is what there is to be said of each board: the OSD of a board with an
OLED shares its timer numbers with a callback, and the backlight's timeout may be lost in `sys_ctrl`.
`QuietInv` counts who can hold a timer: at most `LedOverlap` of the
LED, one about to be armed included (`LedInv`), and the one the display knows of.  What arms `osd_off`
does so after cancelling its own, so one is free.  With the backlight the OSD is on without a
menu only while `osd_off` is pending or the list of operations goes on to arm it, open the menu or hide
(`OsdInv`); the OLED's timeout is armed before any other of its list, always in timer 0 (`OledInv`), so
nobody else's number ever names it.
The statistics page is excluded on the OLED: there the property has an exception (`overtaken`), and run Display checks
it for its times.  On a backlight display the module has no page, for its callback hangs the device
(TimerStuck).

### Settings, update, flash: `StorageProofs`, `UpdateProofs`, `PartsProofs`

`StorageProofs`, for every number of inputs and profiles, whatever the user chooses and saves,
whatever the cards hold of what this program exported (`CardAssumption`), and however often the
power is cut:

* `NumbersInBounds`: what loads check stays in range by types (`StoreTypeOK`); the target input, which `load_profile`
  takes from the link without a check, by `AimInv`: it is an input unless it is an erased link, and that takes a power
  cut.  That an entry holds cells a load can read needs `JobInv`: while an entry is written it
  holds a prefix of what its caller means to write.
* `ProtectedAgain`: the flash is protected, or being written, or the power was cut in a write.
* `OnlyCutsHalve`: entries, the card's and the one being written included, are whole (`WholeInv`);
  so the link that a load brings leads to an input or nowhere, and `load_profile` never indexes
  behind its array.
* `RestartRestores`: what was recorded when a save ended is what its entry holds (`RecordInv`), by
  `JobInv` and because erasing an entry forgets its record; `LoadsRecord` follows the cells of the
  image through the load.

`UpdateProofs`, for every size of flash and sector, set of cards whose good images fit below
the user data (`CardAssumption`, which `create_fw_img` sees to), length in the vector that reaches the end of the
flash (`FlashAssumption`), number of retries, faults of card and flash,
changes of card and power cuts, whatever verdict the updater's checksum gives:

* `TouchedForConfirmed` states `TouchedOnlyIfConfirmed`.  The invariant `UpdateInv` (theorem `Invariance`) says that the
  header and the data read so far are one card's (`FromOneCard`), that from the prompt on they agree (`Agreed`), and
  what is erased: all that the erase loop has passed and all that the program loop has ahead of it below the user data
  (`Cleared`, with `SectorStep`: a multiple below the boundary is a whole sector below it).
* `CopyIsConfirmed` states `ImageCopied`, and `RetriesSuffice` `SurvivesRetries`: a device that
  does not start had its power cut, its card touched, a block of flash that failed, or more failing reads than retries.
  `SurvivalInv` (theorem `Survival`)
  says of an update whose card, flash and power were left alone that what was read is the beginning of what the
  card holds (`Reading`), that it is the card that was checked (`SameCard`), that what was copied is what it
  holds (`Copied`) and that each retry has used up a failing read (`Counted`).

`DoneWhenReturned` (flash driver), for any sectors, sizes and power cuts.  The invariant joins
`DriverInv` (the chip is idle whenever it is sent a command, was enabled for one that writes, and
while it is busy it is busy with the call in progress) and `CallerInv` (what the caller does next
rests on what its last call achieved, so nothing is erased while protected and nothing is programmed
that was not erased).

### SD card and volume: `PartsProofs`

For any cards that follow the specification (`CardsAssumption`), any requests, limits of blocks and polls,
however often cards are exchanged and commands or answers lost:

* `TransfersExact`: a transfer that reports success has moved exactly the blocks asked for, in order, on the
  card that was checked, unless the answer to its ACMD41 was lost (`told`).  `ExactInv` joins the types (`SdTypeOK`), which job goes with which
  command (`JobInv`), that the addressing is that of the card the check has learned it from (`ToldInv`),
  and that what was moved and what is left are together what was asked for (`MovedInv`).
* `FailuresHaveCauses`: with one SD card in the slot since the check and nothing lost nothing fails.
  `CauseInv` adds to `ExactInv` that without a cause the card is, at each of the driver's
  commands, in the state the command needs (`InStep`), so its silence is excluded command by command.

`ExportedVolumeReadable`, without hypothesis and whichever writes fail: the exported volume is readable
by its boot sector alone.  `FatInv` relates the number of the block written last to the clusters entered in the
tables so far (`FatDone`), what the area behind the boot sector held before (`AreaCleared`), and the
sectors of both tables, which are 129 and 161 behind their index (`Tables`), to what the loop has still to write.

### Front end: `PartsProofs`

* `RegistersKept` states `RegistersAsAsked`: for the timings of every mode, any number of calls in any order,
  and whenever the display is switched off, the registers of the three chips hold what was asked for last,
  unless the display's timeout fell into a transfer (`hit`).
* `BusAddressed`: if it never does (`~ Disturb`), every byte is moved to or from the chip that was
  addressed.  Without that hypothesis the run I2cInterrupted refutes it.

The accesses of a call are read as a relation between the registers before and after (`Leads`), one that
composes, so that each function of the drivers has a lemma of its own: whatever wish the
registers held before, they hold the wish with this setting changed afterwards (`Achieves`).  `HoldsAll` is
the one exact value of each register for a wish, all settings that share it included; what a mask keeps
is a sum of differences of remainders (`MasksKeep`).  Where a chip is in another state on the way the
sequence is followed to its end: the sync processor is not left in reset (`Asleep`), the audio converter not
on the page of its coefficients (`Mixed`).  The invariant `FeInv` says that, until a
transfer is hit, the bus is between bytes of the access it was addressed for (`BusOk`) and that the
rest of the program leads from the registers as they are to registers that hold what was asked,
whatever a poll has read (`OnTheWay`).

### Transmitter: `HdmiProofs`

* `FramesFit`, from `Standby = FALSE` (see AvWake): what is put out between two passes belongs to mode
  and settings.  `OsscInv` says how far the settings have been taken over at each place of the main loop,
  `OsscShows` and `OsscHeard` what registers show and which sound is set.
* `SoundFollowsClock` states `SourceClock`, for the driver's own interface and device loop with any sinks,
  timings and rates: the registers agree with the rate and clock the driver knows of (`Tuned`).

### PLL and menu: `PartsProofs`, `MenuProofs`

* `ConfigurationRuns`, for any length of the scan chain, unused bits and configurations, and whenever `usleep` ends, if
  the next call comes no sooner than a shift takes (`CallGapAssumption`; `pll_reconfigure` itself may be gone in
  mid-shift): once the block rests the PLL runs with what was asked for, unless this call was `refused` or an answer
  to an earlier one is in `doubt`.  The configuration taken over is the one the chain holds after the last bit, so
  `PllInv` follows every bit that is still to come.
* `MenuShowsWhatItEdits`, for any signals, settings and presets of the profile.  `MenuInv` is `NaviInv`, that
  the menus remembered are there and positions are lines of them, and `CopiesInv`, that the page's copies are
  those of the preset they are written to, unless a profile has replaced it.
* `MenuProgramsNearestPreset`, for any signals with integral readings, if the presets of the profile have the names,
  groups, line counts, rates and flags of the default ones (`Alike`).  The menu changes none of those, so `PresetInv`
  carries `Alike` along; a profile read back from flash need not satisfy it (StorageReadBack).  The
  bounded search through the table is reasoned about by the least index at which it stops, so no
  induction over a recursive definition is needed.
* `MenuLocksOutput` is the half of `OutputFollowsInput` about clocks, and holds although timings are edited:
  as many output clocks pass in a frame as the multiplied sampling clock gives in a frame of the input.
  For signals of at least 8000 lines in a second (below, the repetition of pixels outgrows its byte),
  if lines of the profile's presets are 300 or longer, which the page enforces (`AllWide`).
* `MenuOutputFollowsInput` states the whole of it, that the picture fits into line and frame, too, from
  `Expected`: settings within the limits of their items, presets as above, at least 15000 lines in a second;
  and as long as the only timing edited is a line made longer (`Unedited`).  The page limits each timing
  by itself, so others can be edited until the picture does not fit, and what is slower may be
  repeated beyond its line.  A lemma for each way a mode is put out bounds its width by the default
  preset's (`PassedFits`, `ThirdFits`, `OtherFits`), and the presets that a signal can find under the
  groups of the consoles are followed one by one (`FoundConsole`).

### Only model-checked

* All liveness (`ArmedRuns`, `AutoFindsSignal`, `SearchEnds`, `UpdateEnds`): the prover handles neither `ENABLED` nor
  fairness.
* `TimeoutsArmed` with the statistics page on an OLED, which has an exception there (DisplayPage): run
  Display checks it.
* `OutputFollowsInput` after timings are edited on the page: `MenuLocksOutput` covers its clocks; that the
  picture fits is checked by `menu` for what six keys can edit.  Signals below 15000 lines in a second are
  neither proved nor in the run: the presets begin at 15 kHz.

## Not modelled

* Drawing, texts and fonts; the bytes sent to the character displays.
* The words `update_sc_config` packs for the scan converter, the display of the sampler phase, the
  colour matrices, the contents of an EDID beyond the sink's capabilities.
* What is compiled out: HDCP, generated and embedded sync in the transmitter's driver.  What is never
  called: the MMC half of `mmc.c`, `flash_erase_4k` and `flash_erase_32k` from outside the driver,
  `estimate_dotclk`, the test pattern of `get_vmode`.
* The repeat filter of `controls_update` and the IR receiver; the measurement of the sync, the line
  buffers and the top level in `rtl/`; CRC; start-up code; the IP cores, the build and the host tools.
* In LineModes two kinds of mode are excluded from `Locked`: fractions of a sampling rate and thirds of
  one that is no multiple of three, which the code rounds.
* The banks of the transmitter's registers: a function of its driver is one operator, so an early return that leaves the
  second bank selected would not be seen.  Its device loop is modelled, but nothing is said of a sink exchanged between
  two of its passes, nor that a change takes effect: nobody calls the loop.
* The wrap of the unsigned tolerance in `get_status` (av_controller.c:295): no two readings of AvHardware differ by enough.
* What the updater does behind the end of the flash, but that it may hang; and the program once a number is out of range.
* In FrontEnd the display's interrupt comes between bytes, not inside the controller's registers.
* The runs of the main loop's hardware and of the transmitter leave standby out: with it the properties
  fail for the reason given under AvWake.

## Plan

1. An abstract store (a load sees the entry before or after a save, or none) that Storage implements
   unless the power is cut.
2. The IR receiver with the repeat filter of `controls_update`; the measurement of the sync with
   `get_status`.
3. Standby and wake-up in the runs of the hardware, once the chips are restored after a reset.
