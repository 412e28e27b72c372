------------------------------ MODULE PllReconfig -------------------------------
(***************************************************************************)
(* The reconfiguration of the FPGA's PLL: pll_reconfigure                  *)
(* (software/fw/av_controller.c) on the register block                     *)
(* ip/pll_reconfig/pll_reconfig_top.sv.  One step is one cycle of the      *)
(* block's clock, with or without an access of the firmware.  The block    *)
(* shifts a configuration bit by bit into the PLL, tells it to take it and *)
(* waits for the answer, which comes or does not.  Registers take their    *)
(* new values together at the end of the cycle.                            *)
(***************************************************************************)
EXTENDS Integers, Sequences

CONSTANTS
  Configs,               \* bound: numbers of pll_configs the firmware asks for
  PLL_CONFIG_DATA_BITS,  \* bits of the PLL's scan chain (144)
  UnusedBits,            \* bits of the data registers below them (16)
  CallGap                \* cycles at least from an update to the next call

\* usleep promises no time: it may end with the next tick of the timer, at once.  Between two
\* calls, however, the other chips are written byte by byte, each slower than the whole shift.
ASSUME CallGapAssumption ==
  /\ PLL_CONFIG_DATA_BITS \in Nat \ {0} /\ UnusedBits \in Nat
  /\ CallGap \in Nat /\ CallGap > PLL_CONFIG_DATA_BITS + 4

VARIABLES
  pll_config_status, config_data, \* the registers the firmware sees
  fsm,     \* the other registers of the block
  pll,     \* the PLL: its scan chain, what it runs with, whether it is working on it, scandone
  fw       \* pll_reconfigure: [pc, id, left, refused, doubt]; left is what remains of CallGap

pllVars == <<pll_config_status, config_data, fsm, pll, fw>>

\* A configuration as the data registers hold it, and the part of it that the chain takes.
Data(id) == [k \in 1 .. UnusedBits + PLL_CONFIG_DATA_BITS |-> <<id, k>>]
ScanChain(id) == SubSeq(Data(id), UnusedBits + 1, UnusedBits + PLL_CONFIG_DATA_BITS)

PllInit ==
  /\ pll_config_status = [reset |-> FALSE, update |-> FALSE, t_config_id |-> 0, c_config_id |-> 0, busy |-> FALSE]
  /\ config_data = [k \in 1 .. UnusedBits + PLL_CONFIG_DATA_BITS |-> <<0, 0>>]
  /\ fsm = [state |-> "idle", scan_shift |-> FALSE, scanclkena |-> FALSE, configupdate_pre |-> FALSE,
            configupdate |-> FALSE, areset_strobe |-> FALSE, scandone_prev |-> FALSE, shift_ctr |-> 0]
  /\ pll = [chain |-> ScanChain(0), runs |-> ScanChain(0), working |-> FALSE, scandone |-> FALSE]
  /\ fw = [pc |-> "done", id |-> 0, left |-> 0, refused |-> FALSE, doubt |-> FALSE]
--------------------------------------------------------------------------------
(* The block.  An access of the firmware writes some of the fields, or the data. *)

areset == pll_config_status.reset \/ fsm.areset_strobe

\* The main state machine; scandone and the end of the update pass through a register each.
Fsm ==
  LET f == [fsm EXCEPT !.scandone_prev = pll.scandone, !.configupdate = fsm.configupdate_pre]
  IN  CASE fsm.state = "idle" /\ pll_config_status.update ->
             [f EXCEPT !.areset_strobe = FALSE, !.scanclkena = TRUE,
                       !.shift_ctr = PLL_CONFIG_DATA_BITS, !.state = "shift"]
        [] fsm.state = "idle" /\ ~ pll_config_status.update -> [f EXCEPT !.areset_strobe = FALSE]
        [] fsm.state = "shift" /\ fsm.shift_ctr > 0 -> [f EXCEPT !.scan_shift = TRUE, !.shift_ctr = @ - 1]
        [] fsm.state = "shift" /\ fsm.shift_ctr = 0 ->
             [f EXCEPT !.scan_shift = FALSE, !.scanclkena = FALSE, !.configupdate_pre = TRUE, !.state = "waitresp"]
        [] fsm.state = "waitresp" ->
             [f EXCEPT !.configupdate_pre = FALSE,
                       !.areset_strobe = @ \/ (~ pll_config_status.reset /\ fsm.scandone_prev),
                       !.state = IF pll_config_status.reset \/ fsm.scandone_prev THEN "idle" ELSE "waitresp"]

Answered == fsm.state = "waitresp" /\ ~ pll_config_status.reset /\ fsm.scandone_prev

\* The bit that starts an update clears itself in the next cycle that writes nothing.
Status(written) ==
  [f \in DOMAIN pll_config_status |->
     CASE f \in DOMAIN written -> written[f]
       [] f = "update" /\ DOMAIN written = {} -> FALSE
       [] f = "busy" /\ fsm.state = "idle" -> pll_config_status.update
       [] f = "c_config_id" /\ Answered -> pll_config_status.t_config_id
       [] OTHER -> pll_config_status[f]]

Shifted == Append(Tail(config_data), <<0, 0>>)

\* The PLL: it takes a bit with each cycle that is enabled; told to, it takes over the
\* chain, which takes any time; it is interrupted by its reset.
Pll ==
  \E done \in BOOLEAN :
    /\ done => pll.working /\ ~ areset
    /\ pll' = [chain |-> IF fsm.scanclkena THEN Append(Tail(pll.chain), config_data[UnusedBits + 1]) ELSE pll.chain,
               runs |-> IF done THEN pll.chain ELSE IF fsm.configupdate THEN <<>> ELSE pll.runs,
               working |-> (pll.working \/ fsm.configupdate) /\ ~ areset /\ ~ done,
               scandone |-> done]

Cycle(written, data) ==
  /\ fsm' = Fsm /\ pll_config_status' = Status(written) /\ Pll
  /\ config_data' = IF fsm.scan_shift THEN Shifted ELSE data

NoFields == [f \in {} |-> FALSE]
Clock == Cycle(NoFields, config_data)
--------------------------------------------------------------------------------
(* pll_reconfigure *)

At(pc) == fw.pc = pc
Goto(pc) == fw' = [fw EXCEPT !.pc = pc]
Writes(f, v) == Cycle([g \in {f} |-> v], config_data)
Less(cycles) == IF cycles = 0 THEN 0 ELSE cycles - 1

\* No update is about to begin or under way.
Finished == fsm.state = "idle" /\ ~ pll_config_status.update

\* The parameters give the number; the reset is taken back.
Begins ==
  /\ At("done") /\ fw.left = 0
  /\ \E id \in Configs : fw' = [fw EXCEPT !.pc = "compare", !.id = id, !.refused = FALSE]
  /\ Writes("reset", FALSE)

\* Nothing to do, as it seems: the answer to the update before may still come.
SameAsAsked == fw.id = pll_config_status.t_config_id \* mutant
Same == fw.id = pll_config_status.c_config_id
Unchanged ==
  /\ At("compare") /\ Same /\ Clock
  /\ fw' = [fw EXCEPT !.pc = "done", !.refused = ~ Finished]
WriteData == At("compare") /\ ~ Same /\ Goto("target") /\ Cycle(NoFields, Data(fw.id))

\* From here on a late answer to the update before counts for the new number.
\* The PLL is switched to the fixed clock, unless it is on it for the test pattern.
WriteTarget ==
  /\ At("target") /\ Writes("t_config_id", fw.id)
  /\ \E pc \in {"switch", "switched"} :
       fw' = [fw EXCEPT !.pc = pc, !.doubt = @ \/ (~ Finished /\ pll_config_status.t_config_id # fw.id)]
SwitchFails == At("switched") /\ fw' = [fw EXCEPT !.pc = "done", !.refused = TRUE] /\ Clock
OnFixedClock == (At("switch") \/ At("switched")) /\ Goto("busy") /\ Clock

\* A block that still waits is reset for a while, of a cycle or more.
ResetIfBusy ==
  /\ At("busy") /\ Goto("release")
  /\ IF pll_config_status.busy THEN Writes("reset", TRUE) ELSE Clock
Release == At("release") /\ Writes("reset", FALSE) /\ Goto("update")
Update ==
  /\ At("update") /\ Writes("update", TRUE)
  /\ fw' = [fw EXCEPT !.pc = "wait", !.left = CallGap, !.doubt = FALSE]

\* It reports success in any case, at any time, even in the middle of the shift.
Returns == At("wait") /\ Clock /\ fw' = [fw EXCEPT !.pc = "done", !.left = Less(@)]

Elapses == Clock /\ fw' = [fw EXCEPT !.left = Less(@)]

PllNext ==
  \/ Begins \/ Unchanged \/ WriteData \/ WriteTarget \/ SwitchFails \/ OnFixedClock
  \/ ResetIfBusy \/ Release \/ Update \/ Returns \/ Elapses
PllSpec == PllInit /\ [][PllNext]_pllVars
--------------------------------------------------------------------------------
(* After pll_reconfigure, once the block rests, the PLL runs with the       *)
(* configuration asked for, all of its bits and no others, whatever was    *)
(* asked before, refused or left without an answer, and also when the call *)
(* returned in the middle of the shift: the block's number is that of what *)
(* the PLL has, a block that hangs is freed, and no update is lost.  Three *)
(* cases are left out: the clock could not be switched this time; the call *)
(* changed nothing since the update before was still without its answer    *)
(* (both refused); and such an answer came when a call that was refused    *)
(* had put another number in its place, until the next update (doubt).     *)
RunsAsAsked ==
  At("done") /\ ~ fw.refused /\ ~ fw.doubt /\ Finished => pll.runs = ScanChain(fw.id)
================================================================================
