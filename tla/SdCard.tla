--------------------------------- MODULE SdCard ---------------------------------
(***************************************************************************)
(* The SD card driver: ip/sdc_controller/src/mmc.c on the controller of    *)
(* ocsdc.c, under software/fw/src/sdcard.c.  One step is one command sent  *)
(* to the card and what the driver does with its outcome.  Between two     *)
(* commands the card may be pulled or exchanged; a command or its answer   *)
(* may be lost, and either way the controller reports -1.                  *)
(*                                                                         *)
(* The card follows the SD specification: a command that its state does    *)
(* not allow is not answered.  Addresses are in blocks for a card of high  *)
(* capacity and in bytes otherwise.  An MMC card never gets to startup:    *)
(* it is looked for after TIMEOUT only, which this controller never        *)
(* returns, so the branches of the driver for MMC cards are left out.      *)
(***************************************************************************)
EXTENDS Integers, Sequences

CONSTANTS
  Cards,       \* what may be put in: [mmc, scr, hc, wide, hs, polls, blocks]
  Requests,    \* bound: what is read or written, in blocks: [start, full, part]
  b_max,       \* blocks of one transfer (256)
  OpPolls,     \* bound for 1000 polls of the operating conditions
  StatusPolls, \* bound for 1000 polls of the status
  Retries,     \* errors tolerated while polling the status (5)
  MaxFaults, MaxSwaps, MaxJobs  \* bounds
\* A card of high capacity is one of version 2.
IsCard(c) ==
  /\ c \in [mmc : BOOLEAN, scr : {"1.0", "1.10", "2"}, hc : BOOLEAN, wide : BOOLEAN, hs : BOOLEAN, polls : Nat, blocks : Nat]
  /\ c.hc => c.scr = "2"
ASSUME CardsAssumption == \A c \in Cards : IsCard(c)
ASSUME RequestsAssumption == Requests \subseteq [start : Nat, full : Nat, part : {0, 1}]
ASSUME PollsAssumption == b_max \in Nat \ {0} /\ OpPolls \in Nat /\ StatusPolls \in Nat /\ Retries \in Nat

BlockLen == 512

VARIABLES
  slot,    \* the card in the slot and its state
  mmc,     \* struct mmc; the controller's width and clock follow bus_width and fast
  pc,      \* the command to be sent next; "ok" or "failed" at the end
  job,     \* what is being done: [kind, req, start, todo, part, timeout, retries, err]
  moved,   \* history: the blocks this job has moved, each with told
  told,    \* history: whether the last check learned a card's operating conditions, and that
           \* card is "present" or "gone" since
  same,    \* history: the card is the one the last check began with
  clean,   \* history: since then no command or answer has been lost and no polls have run out
  used     \* how far the bounds are used up: [faults, swaps, jobs]

vars == <<slot, mmc, pc, job, moved, told, same, clean, used>>

Empty == [mmc |-> FALSE, scr |-> "none", hc |-> FALSE, wide |-> FALSE, hs |-> FALSE, polls |-> 0, blocks |-> 0]
Inserted(c) == [card |-> c, state |-> IF c = Empty THEN "none" ELSE "idle", app |-> FALSE,
                rca |-> 0, width |-> 1, polls |-> c.polls]
NoRequest == [start |-> 0, full |-> 0, part |-> 0]
NoJob == [kind |-> "none", req |-> NoRequest, start |-> 0, todo |-> 0, part |-> 0,
          timeout |-> 0, retries |-> 0, err |-> FALSE]

Init ==
  /\ \E c \in Cards \cup {Empty} : slot = Inserted(c)
  /\ mmc = [version |-> "0", rca |-> 0, high_capacity |-> FALSE, bus_width |-> 1, card_caps |-> {},
            capacity |-> 0, fast |-> FALSE, has_init |-> FALSE]
  /\ pc = "none" /\ job = NoJob /\ moved = <<>>
  /\ told = "none" /\ same = FALSE /\ clean = TRUE
  /\ used = [faults |-> 0, swaps |-> 0, jobs |-> 0]
--------------------------------------------------------------------------------
(* The card: what it does with a command, a set that is empty if it keeps silent. *)

In(states) == slot.state \in states
Says(s, r) == {[slot |-> [s EXCEPT !.app = FALSE], r |-> r, lost |-> FALSE]}
Becomes(state) == Says([slot EXCEPT !.state = state], "")
Addressed(arg) == arg = slot.rca
DataPath == mmc.bus_width = slot.width

\* The blocks of one transfer.
cur == IF job.todo > b_max THEN b_max ELSE job.todo

\* The block an address names; -1 if none does.
Block(arg) ==
  LET b == IF slot.card.hc THEN arg ELSE IF arg % BlockLen = 0 THEN arg \div BlockLen ELSE -1
  IN  IF b + cur <= slot.card.blocks THEN b ELSE -1

Identified(cmd, arg) ==
  CASE cmd = "GO_IDLE_STATE" /\ ~ In({"none"}) -> Says(Inserted(slot.card), "")
    [] cmd = "SEND_IF_COND" /\ In({"idle"}) /\ slot.card.scr = "2" -> Says(slot, "0xaa")
    [] cmd = "APP_SEND_OP_COND" /\ slot.app /\ In({"idle"}) ->
         IF slot.polls = 0 /\ (slot.card.hc => arg = "HCS") THEN Says([slot EXCEPT !.state = "ready"], "done")
         ELSE Says([slot EXCEPT !.polls = IF @ = 0 THEN 0 ELSE @ - 1], "busy")
    [] cmd = "ALL_SEND_CID" /\ In({"ready"}) -> Becomes("ident")
    [] cmd = "SEND_RELATIVE_ADDR" /\ In({"ident"}) ->
         UNION {Says([slot EXCEPT !.state = "stby", !.rca = a], "") : a \in {1, 2}}
    [] cmd = "SEND_CSD" /\ In({"stby"}) /\ Addressed(arg) -> Becomes("stby")
    [] cmd = "SELECT_CARD" /\ In({"stby"}) /\ Addressed(arg) -> Becomes("tran")
    [] OTHER -> {}

Selected(cmd, arg) ==
  CASE cmd = "APP_SEND_SCR" /\ slot.app /\ In({"tran"}) /\ DataPath -> Says(slot, slot.card.scr)
    [] cmd = "SWITCH_FUNC" /\ slot.card.scr # "1.0" /\ In({"tran"}) /\ DataPath ->
         Says(slot, "") \cup Says(slot, "high-speed busy")
    [] cmd = "APP_SET_BUS_WIDTH" /\ slot.app /\ In({"tran"}) /\ slot.card.wide -> Says([slot EXCEPT !.width = 4], "")
    [] cmd = "SET_BLOCKLEN" -> IF In({"tran"}) THEN Becomes("tran") ELSE {}
    [] cmd = "read" /\ In({"tran"}) /\ DataPath /\ Block(arg) >= 0 -> Becomes(IF cur > 1 THEN "data" ELSE "tran")
    [] cmd = "write" /\ In({"tran"}) /\ DataPath /\ Block(arg) >= 0 -> Becomes(IF cur > 1 THEN "rcv" ELSE "prg")
    [] cmd = "STOP_TRANSMISSION" /\ In({"data", "rcv"}) -> Becomes(IF In({"rcv"}) THEN "prg" ELSE "tran")
    [] OTHER -> {}

Answers(cmd, arg) ==
  CASE cmd = "APP_CMD" ->
         IF ~ slot.card.mmc /\ In({"idle", "stby", "tran"}) /\ Addressed(arg)
         THEN {[slot |-> [slot EXCEPT !.app = TRUE], r |-> "", lost |-> FALSE]} ELSE {}
    [] cmd = "SEND_STATUS" ->
         IF ~ Addressed(arg) THEN {}
         ELSE IF In({"prg"}) THEN Says(slot, "prg") \cup Says([slot EXCEPT !.state = "tran"], "ready")
         ELSE IF In({"stby", "tran", "data", "rcv"}) THEN Says(slot, "ready") ELSE {}
    [] OTHER -> Identified(cmd, arg) \cup Selected(cmd, arg)

\* What comes of sending a command (ocsdc_send_cmd): an answer, or -1 if there is none,
\* or if the command or the answer is lost, the card having carried it out or not.
Outcomes(cmd, arg) ==
  LET heard == Answers(cmd, arg)
      silent == [slot |-> [slot EXCEPT !.app = FALSE], r |-> "error", lost |-> FALSE]
  IN  (IF heard = {} THEN {silent} ELSE heard)
      \cup IF used.faults = MaxFaults THEN {}
           ELSE {[slot |-> s, r |-> "error", lost |-> TRUE] : s \in {slot} \cup {a.slot : a \in heard}}

Comes(o) ==
  /\ slot' = o.slot
  /\ clean' = (clean /\ ~ o.lost /\ ~ (pc \in {"op_cond", "write_status"} /\ job.timeout = 0))
  /\ used' = [used EXCEPT !.faults = IF o.lost THEN @ + 1 ELSE @]
  /\ same' = same

\* A card is pulled, or put in, or exchanged.
Swap ==
  /\ used.swaps < MaxSwaps
  /\ used' = [used EXCEPT !.swaps = @ + 1]
  /\ \E c \in Cards \cup {Empty} : slot' = Inserted(c)
  /\ same' = FALSE
  /\ told' = IF told = "none" THEN told ELSE "gone"
  /\ UNCHANGED <<mmc, pc, job, moved, clean>>
--------------------------------------------------------------------------------
(* Finding a card: mmc_init. *)

AtRest == pc \in {"none", "ok", "failed"}
Take == AtRest /\ used.jobs < MaxJobs /\ used' = [used EXCEPT !.jobs = @ + 1]

NarrowNot(m) == [m EXCEPT !.fast = FALSE] \* mutant
Narrow(m) == [m EXCEPT !.bus_width = 1, !.fast = FALSE]

\* sdcard_check: the controller is set to one line and its lowest clock.
Check ==
  /\ Take
  /\ job' = [NoJob EXCEPT !.kind = "check", !.timeout = OpPolls]
  /\ mmc' = Narrow(mmc)
  /\ pc' = "go_idle"
  /\ moved' = <<>> /\ told' = "none" /\ same' = TRUE /\ clean' = TRUE
  /\ slot' = slot

\* mmc_init and sdcard_check give up.
Fail == pc' = "failed" /\ mmc' = [mmc EXCEPT !.has_init = FALSE]

\* Of no answer to this command the controller knows nothing.
GoIdle ==
  /\ pc = "go_idle"
  /\ \E o \in Outcomes("GO_IDLE_STATE", 0) : Comes(o)
  /\ pc' = "if_cond"
  /\ UNCHANGED <<mmc, job, moved, told>>

SendIfCond ==
  /\ pc = "if_cond"
  /\ \E o \in Outcomes("SEND_IF_COND", 0) :
       /\ Comes(o)
       /\ mmc' = IF o.r = "0xaa" THEN [mmc EXCEPT !.version = "2"] ELSE mmc
  /\ pc' = "op_app"
  /\ UNCHANGED <<job, moved, told>>

\* sd_send_op_cond: mmc_init goes on with startup when this fails.
OpApp ==
  /\ pc = "op_app"
  /\ \E o \in Outcomes("APP_CMD", 0) : Comes(o) /\ pc' = IF o.r = "error" THEN "cid" ELSE "op_cond"
  /\ UNCHANGED <<mmc, job, moved, told>>

\* A card that is ready only at the last poll is refused as well.
OpCond ==
  /\ pc = "op_cond"
  /\ \E o \in Outcomes("APP_SEND_OP_COND", IF mmc.version = "2" THEN "HCS" ELSE "") :
       /\ Comes(o)
       /\ told' = IF o.r = "done" /\ job.timeout > 0 THEN "present" ELSE "none"
       /\ mmc' = IF told' = "none" THEN mmc
                 ELSE [mmc EXCEPT !.version = IF @ = "2" THEN "2" ELSE "1.0", !.rca = 0,
                                  !.high_capacity = slot.card.hc]
       /\ job' = IF o.r = "busy" THEN [job EXCEPT !.timeout = @ - 1] ELSE job
       /\ pc' = IF o.r = "busy" /\ job.timeout > 0 THEN "op_app" ELSE "cid"
  /\ UNCHANGED moved
--------------------------------------------------------------------------------
(* mmc_startup, for SD cards. *)

IS_SD(m) == m.version # "0"

SendCid ==
  /\ pc = "cid"
  /\ \E o \in Outcomes("ALL_SEND_CID", 0) :
       /\ Comes(o)
       /\ IF o.r = "error" THEN Fail ELSE pc' = "rca" /\ mmc' = mmc
  /\ UNCHANGED <<job, moved, told>>

RelativeAddr ==
  /\ pc = "rca"
  /\ \E o \in Outcomes("SEND_RELATIVE_ADDR", 0) :
       /\ Comes(o)
       /\ IF o.r = "error" THEN Fail
          ELSE pc' = "csd" /\ mmc' = IF IS_SD(mmc) THEN [mmc EXCEPT !.rca = o.slot.rca] ELSE mmc
  /\ UNCHANGED <<job, moved, told>>

Polling(j) == [j EXCEPT !.timeout = StatusPolls, !.retries = Retries]

\* The capacity is read from other bits of the register for another kind of card.
CardData ==
  /\ pc = "csd"
  /\ \E o \in Outcomes("SEND_CSD", mmc.rca) :
       /\ Comes(o)
       /\ job' = [Polling(job) EXCEPT !.err = o.r = "error"]
       /\ IF o.r = "error" THEN mmc' = mmc
          ELSE \E n \in IF mmc.high_capacity = slot.card.hc THEN {slot.card.blocks} ELSE 0 .. 1 :
                 mmc' = [mmc EXCEPT !.capacity = n]
  /\ pc' = "csd_status"
  /\ UNCHANGED <<moved, told>>

\* mmc_send_status: a poll ends it when the card is ready, polls or patience run out.
LastPoll(r) == \/ r = "ready" \/ job.timeout = 0
               \/ r = "error" /\ job.retries = 0
Polled(r) == job' = [job EXCEPT !.timeout = @ - 1, !.retries = IF r = "error" THEN @ - 1 ELSE @]

\* What the status is after SEND_CSD makes no difference.
CsdStatus ==
  /\ pc = "csd_status"
  /\ \E o \in Outcomes("SEND_STATUS", mmc.rca) :
       /\ Comes(o)
       /\ IF ~ LastPoll(o.r) THEN Polled(o.r) /\ UNCHANGED <<pc, mmc>>
          ELSE job' = job /\ IF job.err THEN Fail ELSE pc' = "select" /\ mmc' = mmc
  /\ UNCHANGED <<moved, told>>

\* A command whose failure ends startup, and the command that follows it.
Startup(now, cmd, arg, next) ==
  /\ pc = now
  /\ \E o \in Outcomes(cmd, arg) :
       /\ Comes(o)
       /\ IF o.r = "error" THEN Fail ELSE pc' = next /\ mmc' = mmc
  /\ UNCHANGED <<moved, told>>

SelectCard == Startup("select", "SELECT_CARD", mmc.rca, "scr_app") /\ UNCHANGED job

\* sd_change_freq
ScrApp == Startup("scr_app", "APP_CMD", mmc.rca, "scr") /\ job' = [job EXCEPT !.timeout = 3]

\* At the end of startup the clock is set, and the card has been found.
Started(m) ==
  /\ mmc' = [m EXCEPT !.has_init = TRUE, !.fast = "HS" \in m.card_caps]
  /\ pc' = "ok"
WidthFor(m) == IF "4BIT" \in m.card_caps THEN mmc' = m /\ pc' = "width_app" ELSE Started(m)

\* Retried without another APP_CMD.
SendScr ==
  /\ pc = "scr"
  /\ \E o \in Outcomes("APP_SEND_SCR", 0) :
       /\ Comes(o)
       /\ LET m == [mmc EXCEPT !.version = o.r, !.card_caps = IF slot.card.wide THEN {"4BIT"} ELSE {}]
          IN  IF o.r = "error"
              THEN /\ job' = [job EXCEPT !.timeout = @ - 1]
                   /\ IF job.timeout = 0 THEN Fail ELSE UNCHANGED <<pc, mmc>>
              ELSE /\ job' = [job EXCEPT !.timeout = 3]
                   /\ IF o.r = "1.0" THEN WidthFor(m) ELSE pc' = "switch_check" /\ mmc' = m
  /\ UNCHANGED <<moved, told>>

\* Asked up to four times while the function is busy.
SwitchCheck ==
  /\ pc = "switch_check"
  /\ \E o \in Outcomes("SWITCH_FUNC", "check") :
       /\ Comes(o)
       /\ job' = [job EXCEPT !.timeout = @ - 1]
       /\ IF o.r = "error" THEN Fail
          ELSE IF o.r = "high-speed busy" /\ job.timeout > 0 THEN UNCHANGED <<pc, mmc>>
          ELSE IF slot.card.hs THEN pc' = "switch" /\ mmc' = mmc
          ELSE WidthFor(mmc)
  /\ UNCHANGED <<moved, told>>

Switch ==
  /\ pc = "switch"
  /\ \E o \in Outcomes("SWITCH_FUNC", "switch") :
       /\ Comes(o)
       /\ IF o.r = "error" THEN Fail
          ELSE WidthFor(IF o.r = "" THEN [mmc EXCEPT !.card_caps = @ \cup {"HS"}] ELSE mmc)
  /\ UNCHANGED <<job, moved, told>>

WidthApp == Startup("width_app", "APP_CMD", mmc.rca, "width") /\ UNCHANGED job

SetBusWidth ==
  /\ pc = "width"
  /\ \E o \in Outcomes("APP_SET_BUS_WIDTH", 2) :
       /\ Comes(o)
       /\ IF o.r = "error" THEN Fail ELSE Started([mmc EXCEPT !.bus_width = 4])
  /\ UNCHANGED <<job, moved, told>>
--------------------------------------------------------------------------------
(* Reading and writing. *)

\* sdcard_read reads the whole blocks and then one that is needed in part; sdcard_write
\* rounds up.  Callers give up when no card is found.
Transfer ==
  /\ Take /\ mmc.has_init
  /\ \E r \in Requests, kind \in {"read", "write"} :
       LET whole == kind = "read" /\ r.full > 0
       IN  job' = [NoJob EXCEPT !.kind = kind, !.req = r, !.start = r.start,
                     !.todo = IF whole THEN r.full ELSE r.full + r.part,
                     !.part = IF whole THEN r.part ELSE 0]
  /\ pc' = "blocklen"
  /\ moved' = <<>>
  /\ UNCHANGED <<slot, mmc, told, same, clean>>

GiveUp == pc' = "failed" /\ job' = job

\* mmc_bread, mmc_bwrite
SetBlocklen ==
  /\ pc = "blocklen"
  /\ \E o \in Outcomes("SET_BLOCKLEN", BlockLen) : Comes(o) /\ pc' = IF o.r = "error" THEN "failed" ELSE "blocks"
  /\ UNCHANGED <<mmc, job, moved, told>>

AdvanceNot(j) == [j EXCEPT !.todo = @ - cur] \* mutant
Advance(j) == [j EXCEPT !.todo = @ - cur, !.start = @ + cur]

\* One transfer is complete: the next, or the partial block, or the end.
Goes ==
  LET j == Advance(job)
  IN  IF j.todo > 0 THEN job' = j /\ pc' = "blocks"
      ELSE IF j.part > 0 THEN job' = [j EXCEPT !.todo = 1, !.part = 0] /\ pc' = "blocklen"
      ELSE job' = j /\ pc' = "ok"

\* Data has been moved; a write ends with the card's being ready again.
Moved ==
  IF job.kind = "read" THEN Goes
  ELSE job' = Polling(job) /\ pc' = "write_status"

Address == IF mmc.high_capacity THEN job.start ELSE job.start * BlockLen

\* mmc_read_blocks, mmc_write_blocks: only a write knows the card's end.
TooFar == job.kind = "write" /\ job.start + cur > mmc.capacity
Refuse == pc = "blocks" /\ TooFar /\ GiveUp /\ UNCHANGED <<slot, mmc, moved, told, same, clean, used>>

Blocks ==
  /\ pc = "blocks" /\ ~ TooFar
  /\ \E o \in Outcomes(job.kind, Address) :
       /\ Comes(o)
       /\ IF o.r = "error" THEN GiveUp /\ moved' = moved
          ELSE /\ moved' = moved \o [i \in 1 .. cur |-> <<told, Block(Address) + i - 1>>]
               /\ IF cur > 1 THEN pc' = "stop" /\ job' = job ELSE Moved
  /\ UNCHANGED <<mmc, told>>

Stop ==
  /\ pc = "stop"
  /\ \E o \in Outcomes("STOP_TRANSMISSION", 0) : Comes(o) /\ IF o.r = "error" THEN GiveUp ELSE Moved
  /\ UNCHANGED <<mmc, moved, told>>

WriteStatus ==
  /\ pc = "write_status"
  /\ \E o \in Outcomes("SEND_STATUS", mmc.rca) :
       /\ Comes(o)
       /\ IF ~ LastPoll(o.r) THEN Polled(o.r) /\ pc' = pc
          ELSE IF o.r = "ready" /\ job.timeout > 0 THEN Goes
          ELSE GiveUp
  /\ UNCHANGED <<mmc, moved, told>>

Next ==
  \/ Swap \/ Check \/ GoIdle \/ SendIfCond \/ OpApp \/ OpCond
  \/ SendCid \/ RelativeAddr \/ CardData \/ CsdStatus \/ SelectCard
  \/ ScrApp \/ SendScr \/ SwitchCheck \/ Switch \/ WidthApp \/ SetBusWidth
  \/ Transfer \/ SetBlocklen \/ Refuse \/ Blocks \/ Stop \/ WriteStatus

Spec == Init /\ [][Next]_vars
--------------------------------------------------------------------------------
(* A read or write that reports success has moved exactly the blocks asked *)
(* for, in order, on the card that was checked, whatever cards were put in *)
(* before and whatever was lost: mmc_bread and mmc_bwrite trust the        *)
(* addressing, RCA and width left behind by mmc_init.  Not promised when   *)
(* the check went on without the card's operating conditions (mmc_init     *)
(* drops the error of sd_send_op_cond).                                    *)
TransferIsExact ==
  pc = "ok" /\ job.kind \in {"read", "write"} /\ told # "none"
    => moved = [i \in 1 .. job.req.full + job.req.part |-> <<"present", job.req.start + i - 1>>]

(* Nothing fails without a cause in the present: with one SD card in the   *)
(* slot since the check, no command lost and no polls run out, the check   *)
(* finds the card and transfers within it succeed, whatever state an       *)
(* earlier card, a broken transfer or a failed check left behind.          *)
FailsForCause ==
  LET within == job.req.start + job.req.full + job.req.part <= slot.card.blocks
  IN  same /\ clean /\ slot.state # "none" /\ ~ slot.card.mmc /\ (job.kind = "check" \/ within)
        => pc # "failed"
================================================================================
