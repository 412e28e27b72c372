-------------------------------- MODULE NorFlash ---------------------------------
(***************************************************************************)
(* The flash driver (software/fw/src/flash.c, software/updater/src/flash.c) *)
(* and the chip behind its command registers.  The chip carries out a      *)
(* command only when it is idle and, if it writes, enabled; a write takes  *)
(* time, in which it ignores everything but the reading of its status.     *)
(* The power may be cut at any time.  Callers unprotect, erase, program    *)
(* and protect, as in userdata.c, and start over after a restart.          *)
(***************************************************************************)
EXTENDS Integers, Sequences

CONSTANTS
  Sectors,   \* of 4 KiB; an erase clears those of its own size that hold its address
  Sizes,     \* sectors erased by flash_erase_4k, _32k and _64k
  MaxCuts    \* bound: power cuts
ASSUME NorAssumption == Sectors \subseteq Nat /\ Sizes \subseteq Nat \ {0}

VARIABLES
  chip,      \* [enabled, busy, protected]: WEL, WIP with the write going on, BP
  cells,     \* sector -> "old", "erased", "half" or "new"
  at,        \* the command the driver sends next
  call,      \* what it was called for: [fn, arg, size]; the last call when at rest
  saving,    \* the sector being saved, and how far the caller has got
  cuts

norVars == <<chip, cells, at, call, saving, cuts>>

Idle == [op |-> "none", arg |-> 0, size |-> 1]
NoCall == [fn |-> "none", arg |-> 0, size |-> 1]
Cleared(addr, size) == {s \in Sectors : s \div size = addr \div size}

NorInit ==
  /\ chip = [enabled |-> FALSE, busy |-> Idle, protected |-> TRUE]
  /\ cells = [s \in Sectors |-> "old"]
  /\ at = "rest" /\ call = NoCall
  /\ saving = [step |-> "idle", sector |-> 0, size |-> 1] /\ cuts = 0
--------------------------------------------------------------------------------
(* The chip. *)

Ready == chip.busy.op = "none"

\* What the chip becomes by a command.
After(op, arg, size) ==
  CASE ~ Ready -> chip
    [] op = "WRITE_ENABLE" -> [chip EXCEPT !.enabled = TRUE]
    [] op = "WRITE_DISABLE" -> [chip EXCEPT !.enabled = FALSE]
    [] op \in {"WRITE_STATUS", "ERASE"} /\ chip.enabled /\ (op = "ERASE" => ~ chip.protected) ->
         [chip EXCEPT !.busy = [op |-> op, arg |-> arg, size |-> size]]
    [] OTHER -> chip

\* A write going on comes to its end.
Complete ==
  /\ ~ Ready
  /\ chip' = [enabled |-> FALSE, busy |-> Idle,
              protected |-> IF chip.busy.op = "WRITE_STATUS" THEN chip.busy.arg = 1 ELSE chip.protected]
  /\ cells' = IF chip.busy.op = "ERASE"
              THEN [s \in Sectors |-> IF s \in Cleared(chip.busy.arg, chip.busy.size) THEN "erased" ELSE cells[s]]
              ELSE cells
  /\ UNCHANGED <<at, call, saving, cuts>>

\* The power fails and the program starts again: an erase is left half done, a status
\* register written or not.
Cut ==
  /\ cuts < MaxCuts /\ cuts' = cuts + 1
  /\ \E p \in IF chip.busy.op = "WRITE_STATUS" THEN BOOLEAN ELSE {chip.protected} :
       chip' = [enabled |-> FALSE, busy |-> Idle, protected |-> p]
  /\ cells' = [s \in Sectors |->
                 IF chip.busy.op = "ERASE" /\ s \in Cleared(chip.busy.arg, chip.busy.size) THEN "half" ELSE cells[s]]
  /\ at' = "rest" /\ call' = NoCall
  /\ saving' = [saving EXCEPT !.step = "idle"]
--------------------------------------------------------------------------------
(* The driver: the registers are set up and the command is started. *)

Issue(now, op, arg, size, next) ==
  /\ at = now
  /\ chip' = After(op, arg, size)
  /\ at' = next
  /\ UNCHANGED <<cells, call, saving, cuts>>

\* flash_write_protect, flash_erase_4k, flash_erase_32k, flash_erase_64k
WriteEnable == Issue("enable", "WRITE_ENABLE", 0, 1, IF call.fn = "protect" THEN "status" ELSE "erase")
WriteStatusRegister == Issue("status", "WRITE_STATUS", call.arg, 1, "poll")
SendErase == Issue("erase", "ERASE", call.arg, call.size, "poll")
WriteDisable == Issue("disable", "WRITE_DISABLE", 0, 1, "rest")

DoneUnread == TRUE \* mutant
Done == Ready

\* The status is read until the chip is no longer busy.
PollStatus ==
  /\ at = "poll"
  /\ at' = IF ~ Done THEN "poll" ELSE IF call.fn = "protect" THEN "disable" ELSE "rest"
  /\ UNCHANGED <<chip, cells, call, saving, cuts>>
--------------------------------------------------------------------------------
(* The callers. *)

Calls(now, fn, arg, size, next) ==
  /\ at = "rest" /\ saving.step = now
  /\ at' = "enable" /\ call' = [fn |-> fn, arg |-> arg, size |-> size]
  /\ saving' = [saving EXCEPT !.step = next]
  /\ UNCHANGED <<chip, cells, cuts>>

\* userdata_save_profile and the others
Begin ==
  /\ at = "rest" /\ saving.step = "idle"
  /\ \E s \in Sectors, size \in Sizes :
       /\ s % size = 0
       /\ saving' = [step |-> "begun", sector |-> s, size |-> size]
  /\ call' = NoCall
  /\ UNCHANGED <<chip, cells, at, cuts>>
Unprotect == Calls("begun", "protect", 0, 1, "unprotected")
Erase == Calls("unprotected", "erase", saving.sector, saving.size, "erased")
Protect == Calls("written", "protect", 1, 1, "idle")

\* Words are written through the controller, which waits for the chip by itself: they
\* come out right only in cells that are erased.
Program ==
  /\ at = "rest" /\ saving.step = "erased"
  /\ Ready
  /\ cells' = [cells EXCEPT ![saving.sector] =
                 IF chip.protected THEN @ ELSE IF @ = "erased" THEN "new" ELSE "half"]
  /\ saving' = [saving EXCEPT !.step = "written"]
  /\ call' = NoCall
  /\ UNCHANGED <<chip, at, cuts>>

NorNext ==
  \/ Complete \/ Cut
  \/ WriteEnable \/ WriteStatusRegister \/ SendErase \/ WriteDisable \/ PollStatus
  \/ Begin \/ Unprotect \/ Erase \/ Program \/ Protect
NorSpec == NorInit /\ [][NorNext]_norVars
--------------------------------------------------------------------------------
(* When a function of the driver returns, what it was called for has been  *)
(* done: the chip ignores commands while it is busy, and says nothing, so  *)
(* that one function which does not wait undoes the next one.  That is     *)
(* what the models of settings and of the update take for granted.         *)
DoneAtReturn ==
  at = "rest" =>
    CASE call.fn = "protect" -> chip = [enabled |-> FALSE, busy |-> Idle, protected |-> call.arg = 1]
      [] call.fn = "erase" -> /\ Ready /\ ~ chip.enabled
                              /\ \A s \in Cleared(call.arg, call.size) : cells[s] = "erased"
      [] OTHER -> saving.step = "written" => cells[saving.sector] = "new"
================================================================================
