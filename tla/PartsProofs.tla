------------------------------ MODULE PartsProofs -------------------------------
(***************************************************************************)
(* Proofs about parts of the firmware that do not meet.  SdCard: for every *)
(* set of cards, every request, every limit of blocks and polls, and       *)
(* however often cards are exchanged and commands or answers lost.  Fat16: *)
(* whichever of its writes fail.  NorFlash: whatever the sectors, the      *)
(* sizes of erases and the number of power cuts, a call of the driver that *)
(* returns has done what it was called for.  PllReconfig: the PLL runs     *)
(* with the configuration that was asked for.  FrontEnd: the chips hold    *)
(* the settings that were asked for, in whatever order.                    *)
(***************************************************************************)
EXTENDS SdCard, Fat16, NorFlash, FrontEnd, PllReconfig, SequenceTheorems, WellFoundedInduction, TLAPS

--------------------------------------------------------------------------------
(* The driver of the SD card *)

\* What may be in the slot, struct mmc, and what the driver is doing.
CardsOrNone == Cards \cup {Empty}
Slots ==
  [card : CardsOrNone, state : {"none", "idle", "ready", "ident", "stby", "tran", "data", "rcv", "prg"},
   app : BOOLEAN, rca : 0 .. 2, width : {1, 4}, polls : Nat]
Caps == SUBSET {"4BIT", "HS"}
Mmcs ==
  [version : {"0", "1.0", "1.10", "2"}, rca : 0 .. 2, high_capacity : BOOLEAN, bus_width : {1, 4},
   card_caps : Caps, capacity : Nat, fast : BOOLEAN, has_init : BOOLEAN]
Jobs ==
  [kind : {"none", "check", "read", "write"}, req : Requests \cup {NoRequest}, start : Nat, todo : Nat,
   part : {0, 1}, timeout : Int, retries : Int, err : BOOLEAN]
Finding == {"go_idle", "if_cond", "op_app", "op_cond"}
Starting == {"cid", "rca", "csd", "csd_status", "select", "scr_app", "scr", "switch_check", "switch", "width_app", "width"}
Transferring == {"blocklen", "blocks", "stop", "write_status"}
Rest == {"none", "ok", "failed"}
SdTypeOK ==
  /\ slot \in Slots /\ mmc \in Mmcs /\ job \in Jobs
  /\ pc \in Rest \cup Finding \cup Starting \cup Transferring
  /\ told \in {"none", "present", "gone"} /\ same \in BOOLEAN /\ clean \in BOOLEAN
  /\ slot.state = "none" <=> slot.card = Empty

\* The job that goes with the command.
JobInv ==
  /\ pc \in Finding \cup Starting => job.kind = "check"
  /\ pc \in Transferring => job.kind \in {"read", "write"}
  /\ pc = "write_status" => job.kind = "write" /\ job.timeout >= 0
  /\ pc = "none" => job = NoJob

\* What the check has learned of the card that is still there; a card put in since was never asked to get ready.
ToldInv ==
  /\ told # "none" => pc \notin Finding
  /\ told = "present" => mmc.high_capacity = slot.card.hc
  /\ told = "gone" => slot.state \in {"none", "idle"}

\* Blocks moved so far, and how many are left.
IsTransfer == job.kind \in {"read", "write"}
BlocksDone == job.start - job.req.start + (IF pc \in {"stop", "write_status"} THEN cur ELSE 0)
Asked == job.req.full + job.req.part
Run(first, n) == [i \in 1 .. n |-> <<"present", first + i - 1>>]
MovedInv ==
  IsTransfer =>
    /\ job.req.start <= job.start
    /\ job.start + job.todo + job.part = job.req.start + Asked
    /\ pc = "ok" => job.todo = 0 /\ job.part = 0
    /\ told # "none" /\ pc # "failed" => moved = Run(job.req.start, BlocksDone)

ExactInv == SdTypeOK /\ JobInv /\ ToldInv /\ MovedInv

\* One SD card since the check, nothing lost.
Untroubled == same /\ clean /\ slot.state # "none" /\ ~ slot.card.mmc

\* The card answers one line; its address and addressing are known; so is its capacity.
Fresh == slot.width = 1 /\ mmc.bus_width = 1
Known == slot.rca = mmc.rca /\ mmc.high_capacity = slot.card.hc
Sized == Known /\ mmc.capacity = slot.card.blocks
\* At each command the card is in the state that command needs.
InStep ==
  /\ pc = "go_idle" => mmc.bus_width = 1
  /\ pc \in Finding => job.timeout >= 0
  /\ pc \in {"if_cond", "op_app", "op_cond"} => slot.state = "idle" /\ slot.rca = 0 /\ Fresh
  /\ pc \in {"op_app", "op_cond"} => (slot.card.scr = "2" => mmc.version = "2")
  /\ pc \in {"op_cond", "scr", "width"} => slot.app
  /\ pc = "cid" => slot.state = "ready" 
  /\ pc = "rca" => slot.state = "ident"
  /\ pc \in {"cid", "rca"} => IS_SD(mmc) /\ mmc.high_capacity = slot.card.hc /\ Fresh
  /\ pc = "csd" => slot.state = "stby" /\ Known /\ Fresh
  /\ pc \in {"csd_status", "select"} => slot.state = "stby" /\ Sized /\ Fresh
  /\ pc = "csd_status" => ~ job.err
  /\ pc \in {"scr_app", "scr", "switch_check", "switch", "width_app", "width"} => slot.state = "tran" /\ Sized /\ Fresh
  /\ pc \in {"switch_check", "switch"} => slot.card.scr # "1.0"
  /\ pc \in {"switch_check", "switch", "width_app", "width"} => ("4BIT" \in mmc.card_caps <=> slot.card.wide)
  /\ pc \in {"width_app", "width"} => slot.card.wide
  /\ pc \in {"ok", "failed", "blocklen", "blocks"} => slot.state = "tran"
  /\ pc = "stop" => slot.state = (IF job.kind = "read" THEN "data" ELSE "rcv")
  /\ pc = "write_status" => slot.state = "prg"
  /\ pc \in {"ok", "failed"} \cup Transferring => Sized /\ DataPath
  /\ pc # "none"
  /\ pc = "failed" => IsTransfer /\ job.req.start + Asked > slot.card.blocks

CauseInv == ExactInv /\ (Untroubled => InStep)
--------------------------------------------------------------------------------
(* The card: what its answers are and what they leave of it. *)

Commands == {"GO_IDLE_STATE", "SEND_IF_COND", "APP_CMD", "APP_SEND_OP_COND", "ALL_SEND_CID", "SEND_RELATIVE_ADDR",
  "SEND_CSD", "SEND_STATUS", "SELECT_CARD", "APP_SEND_SCR", "SWITCH_FUNC", "APP_SET_BUS_WIDTH", "SET_BLOCKLEN",
  "read", "write", "STOP_TRANSMISSION"}

(* The card with a field of its state changed. *)
SameCard(s, t) == t \in Slots /\ t.card = s.card
Steady(s, t) == SameCard(s, t) /\ t.state = s.state /\ t.rca = s.rca /\ t.width = s.width
States == {"none", "idle", "ready", "ident", "stby", "tran", "data", "rcv", "prg"}

LEMMA StateSet ==
  ASSUME NEW s \in Slots, NEW st \in States, NEW t, t = [s EXCEPT !.state = st]
  PROVE  SameCard(s, t) /\ t.state = st /\ t.rca = s.rca /\ t.width = s.width
  BY DEF Slots, States, SameCard

(* A card takes the address it publishes. *)
LEMMA AddressSet ==
  ASSUME NEW s \in Slots, NEW a \in {1, 2}, NEW t, t = [s EXCEPT !.state = "stby", !.rca = a]
  PROVE  SameCard(s, t) /\ t.state = "stby" /\ t.rca = a /\ t.width = s.width
<1>1. a \in 0 .. 2 /\ "stby" \in States
  BY DEF States
<1> QED
  BY <1>1 DEF Slots, SameCard, States

(* APP_CMD changes nothing but what the next command means, *)
LEMMA AppSet ==
  ASSUME NEW s \in Slots, NEW t, t = [s EXCEPT !.app = TRUE]
  PROVE  Steady(s, t)
  BY DEF Slots, Steady, SameCard

(* and neither does the end of it. *)
LEMMA AppCleared ==
  ASSUME NEW s \in Slots, NEW t, t = [s EXCEPT !.app = FALSE]
  PROVE  Steady(s, t)
  BY DEF Slots, Steady, SameCard

(* A card takes the width it is told. *)
LEMMA WidthSet ==
  ASSUME NEW s \in Slots, NEW t, t = [s EXCEPT !.width = 4]
  PROVE  SameCard(s, t) /\ t.state = s.state /\ t.rca = s.rca /\ t.width = 4
  BY DEF Slots, SameCard

(* A card that is busy stays what it is. *)
LEMMA PollsSet ==
  ASSUME NEW s \in Slots, NEW t, t = [s EXCEPT !.polls = IF @ = 0 THEN 0 ELSE @ - 1]
  PROVE  Steady(s, t)
<1>1. PICK p \in Nat : p = IF s.polls = 0 THEN 0 ELSE s.polls - 1
  BY DEF Slots
<1>2. t = [s EXCEPT !.polls = p]
  BY <1>1 DEF Slots
<1> QED
  BY <1>2 DEF Slots, Steady, SameCard

(* An answer leaves the card as it is described, but for APP_CMD. *)
LEMMA SaysType ==
  ASSUME NEW s \in Slots, NEW r, NEW o \in Says(s, r)
  PROVE  Steady(s, o.slot) /\ o.r = r /\ ~ o.lost
<1>1. o.slot = [s EXCEPT !.app = FALSE] /\ o.r = r /\ ~ o.lost
  BY DEF Says
<1> QED
  BY <1>1, AppCleared

(* A card that is put in, or told to go idle, has no address and one line. *)
LEMMA InsertedType ==
  ASSUME NEW c \in CardsOrNone, NEW t, t = Inserted(c)
  PROVE  t \in Slots /\ t.card = c /\ t.state = (IF c = Empty THEN "none" ELSE "idle") /\ t.rca = 0 /\ t.width = 1
<1>1. c.polls \in Nat
  BY CardsAssumption DEF IsCard, CardsOrNone, Empty
<1> QED
  BY <1>1 DEF Inserted, Slots

(* An answer comes from the card in the slot.  A card that has just been put in gets no further by any *)
(* command but the one that asks for its operating conditions. *)
Heard(cmd, o) ==
  /\ SameCard(slot, o.slot) /\ ~ o.lost /\ o.r # "error"
  /\ o.slot.state = "none" <=> o.slot.card = Empty
  /\ slot.state \in {"none", "idle"} /\ cmd # "APP_SEND_OP_COND" => o.slot.state \in {"none", "idle"}

LEMMA AnswerType ==
  ASSUME SdTypeOK, NEW cmd \in Commands, NEW arg, NEW o \in Answers(cmd, arg)
  PROVE  Heard(cmd, o)
<1>1. slot \in Slots /\ slot.card \in CardsOrNone /\ (slot.state = "none" <=> slot.card = Empty)
  BY DEF SdTypeOK, Slots
<1>2. CASE cmd = "GO_IDLE_STATE"
  <2>1. PICK t : t = Inserted(slot.card) /\ o \in Says(t, "") /\ slot.state # "none"
    BY <1>2 DEF Answers, Identified, Selected, In, Becomes, States
  <2>2. t \in Slots /\ t.card = slot.card /\ t.state = (IF slot.card = Empty THEN "none" ELSE "idle")
    BY <1>1, <2>1, InsertedType
  <2>3. Steady(t, o.slot) /\ o.r = "" /\ ~ o.lost
    BY <2>1, <2>2, SaysType
  <2> QED
    BY <1>1, <2>2, <2>3 DEF Heard, SameCard, Steady
<1>3. CASE cmd = "APP_CMD"
  <2>0. o = [slot |-> [slot EXCEPT !.app = TRUE], r |-> "", lost |-> FALSE]
    BY <1>3 DEF Answers, In
  <2>1. o.slot = [slot EXCEPT !.app = TRUE] /\ ~ o.lost /\ o.r = ""
    BY <2>0
  <2>2. Steady(slot, o.slot)
    BY <1>1, <2>1, AppSet
  <2> QED
    BY <1>1, <2>1, <2>2 DEF Heard, SameCard, Steady
<1>4. CASE cmd = "APP_SEND_OP_COND"
  <2>1. slot.state = "idle"
    BY <1>4 DEF Answers, Identified, Selected, In, Becomes, States
  <2>2. CASE o \in Says([slot EXCEPT !.state = "ready"], "done")
    <3>1. PICK t : t = [slot EXCEPT !.state = "ready"] /\ o \in Says(t, "done")
      BY <2>2
    <3> QED
      BY <1>1, <1>4, <2>1, <3>1, StateSet, SaysType DEF Heard, SameCard, Steady, States
  <2>3. CASE o \in Says([slot EXCEPT !.polls = IF @ = 0 THEN 0 ELSE @ - 1], "busy")
    <3>1. PICK t : t = [slot EXCEPT !.polls = IF @ = 0 THEN 0 ELSE @ - 1] /\ o \in Says(t, "busy")
      BY <2>3
    <3> QED
      BY <1>1, <1>4, <2>1, <3>1, PollsSet, SaysType DEF Heard, SameCard, Steady, States
  <2> QED
    BY <1>4, <2>2, <2>3 DEF Answers, Identified, Selected
<1>5. CASE cmd \in {"ALL_SEND_CID", "SEND_CSD", "SELECT_CARD", "SET_BLOCKLEN", "STOP_TRANSMISSION", "read", "write"}
  <2>1. PICK st, t : st \in States \ {"none", "idle"} /\ t = [slot EXCEPT !.state = st] /\ o \in Says(t, "")
    BY <1>5 DEF Answers, Identified, Selected, In, Becomes, States
  <2>2. slot.state \notin {"none", "idle"}
    BY <1>5 DEF Answers, Identified, Selected, In, Becomes, States
  <2>3. SameCard(slot, t) /\ t.state = st
    BY <1>1, <2>1, StateSet
  <2>4. Steady(t, o.slot) /\ o.r = "" /\ ~ o.lost
    BY <2>1, <2>3, SaysType DEF SameCard
  <2> QED
    BY <1>1, <2>1, <2>2, <2>3, <2>4 DEF Heard, SameCard, Steady
<1>6. CASE cmd = "SEND_RELATIVE_ADDR"
  <2>1. PICK a, t : /\ a \in {1, 2} /\ slot.state = "ident" /\ t = [slot EXCEPT !.state = "stby", !.rca = a]
                               /\ o \in Says(t, "")
    BY <1>6 DEF Answers, Identified, Selected, In, Becomes, States
  <2>2. SameCard(slot, t) /\ t.state = "stby"
    BY <1>1, <2>1, AddressSet
  <2>3. Steady(t, o.slot) /\ o.r = "" /\ ~ o.lost
    BY <2>1, <2>2, SaysType DEF SameCard
  <2> QED
    BY <1>1, <2>1, <2>2, <2>3 DEF Heard, SameCard, Steady
<1>7. CASE cmd = "SEND_STATUS"
  <2>1. /\ slot.state \in {"stby", "tran", "data", "rcv", "prg"}
        /\ \/ \E r \in {"prg", "ready"} : o \in Says(slot, r)
           \/ \E t : t = [slot EXCEPT !.state = "tran"] /\ o \in Says(t, "ready")
    BY <1>7 DEF Answers, Identified, Selected, In, Becomes, States
  <2> QED
    BY <1>1, <2>1, StateSet, SaysType DEF Heard, SameCard, Steady, States
<1>8. CASE cmd \in {"APP_SEND_SCR", "SWITCH_FUNC", "SEND_IF_COND"}
  <2>1. slot.card.scr # "error"
    BY <1>1, CardsAssumption DEF IsCard, CardsOrNone, Empty
  <2>2. PICK r \in {"0xaa", slot.card.scr, "", "high-speed busy"} : o \in Says(slot, r)
    BY <1>8 DEF Answers, Identified, Selected, In, Becomes, States
  <2>3. r # "error"
    BY <2>1, <2>2
  <2>4. Steady(slot, o.slot) /\ o.r = r /\ ~ o.lost
    BY <1>1, <2>2, SaysType
  <2> QED
    BY <1>1, <1>8, <2>3, <2>4 DEF Heard, SameCard, Steady
<1>9. CASE cmd = "APP_SET_BUS_WIDTH"
  <2>1. PICK t : slot.state = "tran" /\ t = [slot EXCEPT !.width = 4] /\ o \in Says(t, "")
    BY <1>9 DEF Answers, Identified, Selected, In, Becomes, States
  <2>2. SameCard(slot, t) /\ t.state = "tran"
    BY <1>1, <2>1, WidthSet
  <2>3. Steady(t, o.slot) /\ o.r = "" /\ ~ o.lost
    BY <2>1, <2>2, SaysType DEF SameCard
  <2> QED
    BY <1>1, <2>1, <2>2, <2>3 DEF Heard, SameCard, Steady
<1> QED
  BY <1>2, <1>3, <1>4, <1>5, <1>6, <1>7, <1>8, <1>9 DEF Commands

(* So does what comes of a command that is lost or not answered. *)
LEMMA OutcomeType ==
  ASSUME SdTypeOK, NEW cmd \in Commands, NEW arg, NEW o \in Outcomes(cmd, arg)
  PROVE  /\ SameCard(slot, o.slot)
         /\ o.slot.state = "none" <=> o.slot.card = Empty
         /\ slot.state \in {"none", "idle"} /\ cmd # "APP_SEND_OP_COND" => o.slot.state \in {"none", "idle"}
         /\ o.r # "error" => o \in Answers(cmd, arg)
         /\ ~ o.lost => o \in Answers(cmd, arg) \/ (Answers(cmd, arg) = {} /\ Steady(slot, o.slot))
<1> DEFINE heard == Answers(cmd, arg)
           silent == [slot |-> [slot EXCEPT !.app = FALSE], r |-> "error", lost |-> FALSE]
<1>1. slot \in Slots /\ (slot.state = "none" <=> slot.card = Empty)
  BY DEF SdTypeOK
<1>2. \/ o \in heard
      \/ heard = {} /\ o = silent
      \/ o.r = "error" /\ o.lost /\ (o.slot = slot \/ \E a \in heard : o.slot = a.slot)
  BY DEF Outcomes
<1>3. CASE o \in heard
  BY <1>3, AnswerType DEF Heard
<1>4. CASE heard = {} /\ o = silent
  <2>1. Steady(slot, o.slot) /\ ~ o.lost /\ o.r = "error"
    BY <1>1, <1>4, AppCleared
  <2> QED
    BY <1>1, <1>4, <2>1 DEF Steady, SameCard
<1>5. CASE o.r = "error" /\ o.lost /\ o.slot = slot
  BY <1>1, <1>5 DEF SameCard
<1>6. CASE o.r = "error" /\ o.lost /\ \E a \in heard : o.slot = a.slot
  <2>1. PICK a \in Answers(cmd, arg) : o.slot = a.slot
    BY <1>6
  <2>2. Heard(cmd, a)
    BY AnswerType
  <2> QED
    BY <1>6, <2>1, <2>2 DEF Heard
<1> QED
  BY <1>2, <1>3, <1>4, <1>5, <1>6

--------------------------------------------------------------------------------
(* Each step keeps ExactInv: the check, command by command. *)

(* One command has been sent in a check, and it goes on or ends. *)
LEMMA ComesType ==
  ASSUME ExactInv, NEW cmd \in Commands, NEW arg, NEW o \in Outcomes(cmd, arg), Comes(o),
         cmd = "APP_SEND_OP_COND" => pc \in Finding
  PROVE  /\ slot' \in Slots /\ slot'.card = slot.card /\ (slot'.state = "none" <=> slot'.card = Empty)
         /\ same' = same /\ clean' \in BOOLEAN
         /\ told = "gone" => slot'.state \in {"none", "idle"}
<1>1. /\ SameCard(slot, o.slot) /\ (o.slot.state = "none" <=> o.slot.card = Empty)
      /\ slot.state \in {"none", "idle"} /\ cmd # "APP_SEND_OP_COND" => o.slot.state \in {"none", "idle"}
  BY OutcomeType DEF ExactInv
<1>2. slot' = o.slot /\ same' = same /\ clean' \in BOOLEAN
  BY DEF Comes
<1>3. told = "gone" => slot.state \in {"none", "idle"} /\ pc \notin Finding
  BY DEF ExactInv, ToldInv
<1> QED
  BY <1>1, <1>2, <1>3 DEF SameCard

(* A step of the check keeps the invariant if it leaves the kind of the job and the addressing alone. *)
LEMMA CheckStep ==
  ASSUME ExactInv, NEW cmd \in Commands \ {"APP_SEND_OP_COND"}, NEW arg, NEW o \in Outcomes(cmd, arg), Comes(o),
         pc \in Finding \cup Starting, pc' \in Finding \cup Starting \cup {"ok", "failed"}, pc' \in Finding => pc \in Finding,
         mmc' \in Mmcs, mmc'.high_capacity = mmc.high_capacity, job' \in Jobs, job'.kind = job.kind, told' = told
  PROVE  ExactInv'
<1>1. /\ slot' \in Slots /\ slot'.card = slot.card /\ (slot'.state = "none" <=> slot'.card = Empty)
      /\ same' = same /\ clean' \in BOOLEAN
      /\ told = "gone" => slot'.state \in {"none", "idle"}
  BY ComesType
<1>2. job'.kind = "check"
  BY DEF ExactInv, JobInv
<1>3. SdTypeOK'
  BY <1>1 DEF ExactInv, SdTypeOK, Rest
<1>4. JobInv'
  BY <1>2 DEF JobInv, Finding, Starting, Transferring
<1>5. ToldInv'
  BY <1>1 DEF ExactInv, ToldInv
<1>6. MovedInv'
  BY <1>2 DEF MovedInv, IsTransfer
<1> QED
  BY <1>3, <1>4, <1>5, <1>6 DEF ExactInv

(* mmc with a field changed. *)
LEMMA MmcVersion ==
  ASSUME NEW m \in Mmcs, NEW v \in {"0", "1.0", "1.10", "2"}, NEW t, t = [m EXCEPT !.version = v]
  PROVE  /\ t \in Mmcs /\ t.high_capacity = m.high_capacity /\ t.version = v /\ t.rca = m.rca
         /\ t.bus_width = m.bus_width /\ t.capacity = m.capacity /\ t.card_caps = m.card_caps
  BY DEF Mmcs

(* What sd_send_op_cond learns. *)
LEMMA MmcConditions ==
  ASSUME NEW m \in Mmcs, NEW v \in {"1.0", "2"}, NEW b \in BOOLEAN,
         NEW t, t = [m EXCEPT !.version = v, !.rca = 0, !.high_capacity = b]
  PROVE  t \in Mmcs
<1>1. PICK u : u = [m EXCEPT !.version = v, !.rca = 0]
  OBVIOUS
<1>2. u \in Mmcs
  <2>1. PICK w : w = [m EXCEPT !.version = v]
    OBVIOUS
  <2>2. w \in Mmcs
    BY <2>1 DEF Mmcs
  <2>3. u = [w EXCEPT !.rca = 0]
    BY <1>1, <2>1 DEF Mmcs
  <2> QED
    BY <2>2, <2>3 DEF Mmcs
<1>3. t = [u EXCEPT !.high_capacity = b]
  BY <1>1 DEF Mmcs
<1> QED
  BY <1>2, <1>3 DEF Mmcs

(* A check that fails leaves the addressing. *)
LEMMA MmcFails ==
  ASSUME NEW m \in Mmcs, NEW t, t = [m EXCEPT !.has_init = FALSE]
  PROVE  t \in Mmcs /\ t.high_capacity = m.high_capacity
  BY DEF Mmcs

(* GO_IDLE_STATE, SEND_IF_COND and APP_CMD learn nothing of the addressing. *)
LEMMA Finds ==
  ASSUME ExactInv, GoIdle \/ SendIfCond \/ OpApp
  PROVE  ExactInv'
<1> USE DEF Finding, Starting, Commands
<1>1. mmc \in Mmcs /\ job \in Jobs
  BY DEF ExactInv, SdTypeOK
<1>2. CASE GoIdle
  <2>1. PICK o \in Outcomes("GO_IDLE_STATE", 0) : Comes(o)
    BY <1>2 DEF GoIdle
  <2>2. pc = "go_idle" /\ pc' = "if_cond" /\ mmc' = mmc /\ job' = job /\ told' = told
    BY <1>2 DEF GoIdle
  <2> QED
    BY <1>1, <2>1, <2>2, CheckStep
<1>3. CASE SendIfCond
  <2>1. PICK o \in Outcomes("SEND_IF_COND", 0) :
           Comes(o) /\ mmc' = IF o.r = "0xaa" THEN [mmc EXCEPT !.version = "2"] ELSE mmc
    BY <1>3 DEF SendIfCond
  <2>2. pc = "if_cond" /\ pc' = "op_app" /\ job' = job /\ told' = told
    BY <1>3 DEF SendIfCond
  <2>3. mmc' \in Mmcs /\ mmc'.high_capacity = mmc.high_capacity
    BY <1>1, <2>1, MmcVersion
  <2> QED
    BY <1>1, <2>1, <2>2, <2>3, CheckStep
<1>4. CASE OpApp
  <2>1. PICK o \in Outcomes("APP_CMD", 0) : Comes(o)
    BY <1>4 DEF OpApp
  <2>2. pc = "op_app" /\ pc' \in {"cid", "op_cond"} /\ mmc' = mmc /\ job' = job /\ told' = told
    BY <1>4 DEF OpApp
  <2> QED
    BY <1>1, <2>1, <2>2, CheckStep
<1> QED
  BY <1>2, <1>3, <1>4

(* job with a counter changed. *)
SameJob(j, t) ==
  /\ t \in Jobs /\ t.kind = j.kind /\ t.req = j.req /\ t.start = j.start /\ t.todo = j.todo /\ t.part = j.part

LEMMA JobCounter ==
  ASSUME NEW j \in Jobs, NEW n \in Int, NEW t, t = [j EXCEPT !.timeout = n]
  PROVE  SameJob(j, t) /\ t.timeout = n
  BY DEF Jobs, SameJob

(* One poll. *)
LEMMA JobTick ==
  ASSUME NEW j \in Jobs, NEW t, t = [j EXCEPT !.timeout = @ - 1]
  PROVE  SameJob(j, t) /\ t.timeout = j.timeout - 1
<1>1. PICK n \in Int : n = j.timeout - 1
  BY DEF Jobs
<1>2. t = [j EXCEPT !.timeout = n]
  BY <1>1 DEF Jobs
<1> QED
  BY <1>1, <1>2, JobCounter

(* Both counters. *)
LEMMA JobCounters ==
  ASSUME NEW j \in Jobs, NEW n \in Int, NEW k \in Int, NEW t, t = [j EXCEPT !.timeout = n, !.retries = k]
  PROVE  SameJob(j, t) /\ t.timeout = n
  BY DEF Jobs, SameJob

(* mmc_send_status begins. *)
LEMMA JobPolling ==
  ASSUME NEW j \in Jobs, NEW t, t = Polling(j)
  PROVE  SameJob(j, t) /\ t.timeout = StatusPolls
<1>1. StatusPolls \in Int /\ Retries \in Int
  BY PollsAssumption
<1>2. t = [j EXCEPT !.timeout = StatusPolls, !.retries = Retries]
  BY DEF Polling
<1> QED
  BY <1>1, <1>2, JobCounters

(* The error of SEND_CSD is kept while the status is polled. *)
LEMMA JobErr ==
  ASSUME NEW j \in Jobs, NEW b \in BOOLEAN, NEW t, t = [Polling(j) EXCEPT !.err = b]
  PROVE  SameJob(j, t)
<1>1. Polling(j) \in Jobs /\ SameJob(j, Polling(j))
  BY JobPolling DEF SameJob
<1> QED
  BY <1>1 DEF Jobs, SameJob

(* Every card, and none, has a capacity and a kind of addressing. *)
LEMMA HasCapacity ==
  ASSUME NEW c \in CardsOrNone
  PROVE  c.hc \in BOOLEAN /\ c.blocks \in Nat
<1>1. CASE c \in Cards
  BY <1>1, CardsAssumption DEF IsCard
<1>2. CASE c = Empty
  BY <1>2 DEF Empty
<1> QED
  BY <1>1, <1>2 DEF CardsOrNone

(* The operating conditions: now something is known of the card. *)
LEMMA Conditions ==
  ASSUME ExactInv, OpCond
  PROVE  ExactInv'
<1> DEFINE arg == IF mmc.version = "2" THEN "HCS" ELSE ""
<1>1. mmc \in Mmcs /\ job \in Jobs /\ slot \in Slots /\ slot.card \in CardsOrNone /\ pc = "op_cond" /\ job.kind = "check"
  BY DEF ExactInv, SdTypeOK, OpCond, JobInv, Finding, Slots
<1>2. PICK o \in Outcomes("APP_SEND_OP_COND", arg) :
        /\ Comes(o)
        /\ told' = IF o.r = "done" /\ job.timeout > 0 THEN "present" ELSE "none"
        /\ mmc' = IF told' = "none" THEN mmc
                  ELSE [mmc EXCEPT !.version = IF @ = "2" THEN "2" ELSE "1.0", !.rca = 0, !.high_capacity = slot.card.hc]
        /\ job' = IF o.r = "busy" THEN [job EXCEPT !.timeout = @ - 1] ELSE job
        /\ pc' = IF o.r = "busy" /\ job.timeout > 0 THEN "op_app" ELSE "cid"
  BY DEF OpCond
<1>3. /\ slot' \in Slots /\ slot'.card = slot.card /\ (slot'.state = "none" <=> slot'.card = Empty)
      /\ same' = same /\ clean' \in BOOLEAN
  BY <1>1, <1>2, ComesType DEF Commands, Finding
<1>4. job' \in Jobs /\ job'.kind = "check"
  <2>1. job' = job \/ job' = [job EXCEPT !.timeout = @ - 1]
    BY <1>2
  <2>2. CASE job' = [job EXCEPT !.timeout = @ - 1]
    BY <1>1, <2>2, JobTick DEF SameJob
  <2> QED
    BY <1>1, <2>1, <2>2
<1>5. mmc' \in Mmcs /\ (told' = "present" => mmc'.high_capacity = slot.card.hc)
  <2>1. CASE told' = "none"
    BY <1>1, <1>2, <2>1
  <2>2. CASE told' # "none"
    <3>1. PICK v \in {"1.0", "2"} : v = IF mmc.version = "2" THEN "2" ELSE "1.0"
      OBVIOUS
    <3>2. mmc' = [mmc EXCEPT !.version = v, !.rca = 0, !.high_capacity = slot.card.hc]
      BY <1>1, <1>2, <2>2, <3>1 DEF Mmcs
    <3>3. slot.card.hc \in BOOLEAN
      BY <1>1, HasCapacity
    <3>4. mmc' \in Mmcs
      BY <1>1, <3>2, <3>3, MmcConditions
    <3>5. mmc'.high_capacity = slot.card.hc
      BY <1>1, <3>2, Zenon DEF Mmcs
    <3> QED
      BY <3>4, <3>5
  <2> QED
    BY <2>1, <2>2
<1>6. pc' \in {"op_app", "cid"} /\ (told' # "none" => pc' = "cid") /\ told' \in {"none", "present"}
  <2>1. told' = (IF o.r = "done" /\ job.timeout > 0 THEN "present" ELSE "none")
    BY <1>2
  <2>2. pc' = (IF o.r = "busy" /\ job.timeout > 0 THEN "op_app" ELSE "cid")
    BY <1>2
  <2> QED
    BY ONLY <2>1, <2>2
<1>7. SdTypeOK'
  BY ONLY ExactInv, <1>3, <1>4, <1>5, <1>6 DEF ExactInv, SdTypeOK, Finding, Starting
<1>8. JobInv' /\ MovedInv'
  BY <1>4, <1>6 DEF JobInv, MovedInv, IsTransfer, Finding, Starting, Transferring
<1>9. ToldInv'
  BY <1>3, <1>5, <1>6 DEF ToldInv, Finding
<1> QED
  BY <1>7, <1>8, <1>9 DEF ExactInv

(* A command of startup keeps the invariant, whether it fails or not. *)
LEMMA FailsOr ==
  ASSUME ExactInv, NEW cmd \in Commands \ {"APP_SEND_OP_COND"}, NEW arg, NEW o \in Outcomes(cmd, arg), Comes(o),
         pc \in Starting, SameJob(job, job'), told' = told,
         Fail \/ (pc' \in Starting \cup {"ok"} /\ mmc' \in Mmcs /\ mmc'.high_capacity = mmc.high_capacity)
  PROVE  ExactInv'
<1>1. mmc \in Mmcs
  BY DEF ExactInv, SdTypeOK
<1>2. pc' \in Starting \cup {"ok", "failed"} /\ mmc' \in Mmcs /\ mmc'.high_capacity = mmc.high_capacity
  BY <1>1, MmcFails DEF Fail
<1>3. pc' \notin Finding
  BY <1>2 DEF Starting, Finding
<1> QED
  BY <1>2, <1>3, CheckStep DEF SameJob

(* The address, the capacity, the capabilities and the width, each alone. *)
LEMMA MmcAddress ==
  ASSUME NEW m \in Mmcs, NEW a \in 0 .. 2, NEW t, t = [m EXCEPT !.rca = a]
  PROVE  /\ t \in Mmcs /\ t.high_capacity = m.high_capacity /\ t.version = m.version /\ t.rca = a
         /\ t.bus_width = m.bus_width
  BY DEF Mmcs

LEMMA MmcCapacity ==
  ASSUME NEW m \in Mmcs, NEW n \in Nat, NEW t, t = [m EXCEPT !.capacity = n]
  PROVE  /\ t \in Mmcs /\ t.high_capacity = m.high_capacity /\ t.capacity = n /\ t.rca = m.rca
         /\ t.bus_width = m.bus_width
  BY DEF Mmcs

LEMMA MmcCaps ==
  ASSUME NEW m \in Mmcs, NEW c \in Caps, NEW t, t = [m EXCEPT !.card_caps = c]
  PROVE  /\ t \in Mmcs /\ t.high_capacity = m.high_capacity /\ t.capacity = m.capacity /\ t.rca = m.rca
         /\ t.bus_width = m.bus_width /\ t.version = m.version /\ t.card_caps = c
  BY DEF Mmcs

LEMMA MmcWidth ==
  ASSUME NEW m \in Mmcs, NEW t, t = [m EXCEPT !.bus_width = 4]
  PROVE  /\ t \in Mmcs /\ t.high_capacity = m.high_capacity /\ t.capacity = m.capacity /\ t.rca = m.rca
         /\ t.bus_width = 4
  BY DEF Mmcs

(* What the end of startup sets, *)
LEMMA MmcStarted ==
  ASSUME NEW m \in Mmcs, NEW b \in BOOLEAN, NEW t, t = [m EXCEPT !.has_init = TRUE, !.fast = b]
  PROVE  /\ t \in Mmcs /\ t.high_capacity = m.high_capacity /\ t.capacity = m.capacity /\ t.rca = m.rca
         /\ t.bus_width = m.bus_width
<1>1. PICK u : u = [m EXCEPT !.has_init = TRUE]
  OBVIOUS
<1>2. /\ u \in Mmcs /\ u.high_capacity = m.high_capacity /\ u.capacity = m.capacity /\ u.rca = m.rca
      /\ u.bus_width = m.bus_width
  BY <1>1 DEF Mmcs
<1>3. t = [u EXCEPT !.fast = b]
  BY <1>1 DEF Mmcs
<1>4. /\ t \in Mmcs /\ t.high_capacity = u.high_capacity /\ t.capacity = u.capacity /\ t.rca = u.rca
      /\ t.bus_width = u.bus_width
  BY <1>2, <1>3 DEF Mmcs
<1> QED
  BY <1>2, <1>4

(* the end of startup itself, *)
LEMMA StartedType ==
  ASSUME NEW m \in Mmcs, Started(m)
  PROVE  /\ mmc' \in Mmcs /\ mmc'.high_capacity = m.high_capacity /\ mmc'.capacity = m.capacity /\ mmc'.rca = m.rca
         /\ mmc'.bus_width = m.bus_width /\ pc' = "ok"
<1>1. ("HS" \in m.card_caps) \in BOOLEAN
  OBVIOUS
<1>2. \E b \in BOOLEAN : mmc' = [m EXCEPT !.has_init = TRUE, !.fast = b]
  BY <1>1, Zenon DEF Started
<1>3. pc' = "ok"
  BY Zenon DEF Started
<1> QED
  BY <1>2, <1>3, MmcStarted

(* and the choice between it and the wider bus. *)
LEMMA WidthForType ==
  ASSUME NEW m \in Mmcs, WidthFor(m)
  PROVE  /\ mmc' \in Mmcs /\ mmc'.high_capacity = m.high_capacity /\ mmc'.capacity = m.capacity /\ mmc'.rca = m.rca
         /\ mmc'.bus_width = m.bus_width /\ pc' \in {"width_app", "ok"}
<1>1. CASE "4BIT" \in m.card_caps
  BY <1>1 DEF WidthFor
<1>2. CASE ~ "4BIT" \in m.card_caps
  BY <1>2, StartedType DEF WidthFor
<1> QED
  BY <1>1, <1>2

(* One poll of the status. *)
LEMMA JobPolled ==
  ASSUME NEW j \in Jobs, NEW r, NEW t, t = [j EXCEPT !.timeout = @ - 1, !.retries = IF r = "error" THEN @ - 1 ELSE @]
  PROVE  SameJob(j, t) /\ t.timeout = j.timeout - 1
<1>1. PICK n \in Int : n = j.timeout - 1
  BY DEF Jobs
<1>2. PICK k \in Int : k = IF r = "error" THEN j.retries - 1 ELSE j.retries
  BY DEF Jobs
<1>3. t = [j EXCEPT !.timeout = n, !.retries = k]
  BY <1>1, <1>2 DEF Jobs
<1>4. SameJob(j, t) /\ t.timeout = n
  BY <1>3 DEF Jobs, SameJob
<1> QED
  BY <1>1, <1>4

(* Startup keeps the invariant, command by command. *)
LEMMA Identifies ==
  ASSUME ExactInv, SendCid \/ RelativeAddr
  PROVE  ExactInv'
<1> USE DEF Starting, Commands
<1>1. mmc \in Mmcs /\ job \in Jobs
  BY DEF ExactInv, SdTypeOK
<1>2. SameJob(job, job)
  BY <1>1 DEF SameJob
<1>3. CASE SendCid
  <2>1. PICK o \in Outcomes("ALL_SEND_CID", 0) : Comes(o) /\ IF o.r = "error" THEN Fail ELSE pc' = "rca" /\ mmc' = mmc
    BY <1>3 DEF SendCid
  <2>2. pc = "cid" /\ job' = job /\ told' = told
    BY <1>3 DEF SendCid
  <2>3. Fail \/ (pc' = "rca" /\ mmc' = mmc)
    BY <2>1
  <2> QED
    BY <1>1, <1>2, <2>1, <2>2, <2>3, FailsOr
<1>4. CASE RelativeAddr
  <2>1. PICK o \in Outcomes("SEND_RELATIVE_ADDR", 0) :
          /\ Comes(o)
          /\ IF o.r = "error" THEN Fail
             ELSE pc' = "csd" /\ mmc' = IF IS_SD(mmc) THEN [mmc EXCEPT !.rca = o.slot.rca] ELSE mmc
    BY <1>4 DEF RelativeAddr
  <2>2. pc = "rca" /\ job' = job /\ told' = told
    BY <1>4 DEF RelativeAddr
  <2>3. o.slot.rca \in 0 .. 2
    <3>1. o.slot \in Slots
      BY OutcomeType DEF ExactInv, SameCard
    <3> QED
      BY <3>1 DEF Slots
  <2>4. Fail \/ (pc' = "csd" /\ mmc' \in Mmcs /\ mmc'.high_capacity = mmc.high_capacity)
    BY <1>1, <2>1, <2>3, MmcAddress
  <2> QED
    BY <1>1, <1>2, <2>1, <2>2, <2>4, FailsOr
<1> QED
  BY <1>3, <1>4

LEMMA Reads ==
  ASSUME ExactInv, CardData
  PROVE  ExactInv'
<1>1. mmc \in Mmcs /\ job \in Jobs /\ slot.card \in CardsOrNone
  BY DEF ExactInv, SdTypeOK, Slots
<1>2. PICK o \in Outcomes("SEND_CSD", mmc.rca) :
        /\ Comes(o)
        /\ job' = [Polling(job) EXCEPT !.err = o.r = "error"]
        /\ IF o.r = "error" THEN mmc' = mmc
           ELSE \E n \in IF mmc.high_capacity = slot.card.hc THEN {slot.card.blocks} ELSE 0 .. 1 :
                  mmc' = [mmc EXCEPT !.capacity = n]
  BY DEF CardData
<1>3. pc = "csd" /\ pc' = "csd_status" /\ told' = told
  BY DEF CardData
<1>4. SameJob(job, job')
  <2>1. PICK b \in BOOLEAN : b = (o.r = "error")
    OBVIOUS
  <2>2. job' = [Polling(job) EXCEPT !.err = b]
    BY <1>2, <2>1
  <2> QED
    BY <1>1, <2>2, JobErr
<1>5. mmc' \in Mmcs /\ mmc'.high_capacity = mmc.high_capacity
  <2>1. slot.card.blocks \in Nat
    BY <1>1, HasCapacity
  <2>2. mmc' = mmc \/ \E n \in Nat : mmc' = [mmc EXCEPT !.capacity = n]
    BY <1>2, <2>1
  <2> QED
    BY <1>1, <2>2, MmcCapacity
<1> QED
  BY <1>2, <1>3, <1>4, <1>5, FailsOr DEF Starting, Commands

LEMMA Polls ==
  ASSUME ExactInv, CsdStatus
  PROVE  ExactInv'
<1>1. mmc \in Mmcs /\ job \in Jobs
  BY DEF ExactInv, SdTypeOK
<1>2. PICK o \in Outcomes("SEND_STATUS", mmc.rca) :
        /\ Comes(o)
        /\ IF ~ LastPoll(o.r) THEN Polled(o.r) /\ UNCHANGED <<pc, mmc>>
           ELSE job' = job /\ IF job.err THEN Fail ELSE pc' = "select" /\ mmc' = mmc
  BY DEF CsdStatus
<1>3. pc = "csd_status" /\ told' = told
  BY DEF CsdStatus
<1>4. SameJob(job, job')
  <2>1. job' = job \/ Polled(o.r)
    BY <1>2
  <2>2. CASE Polled(o.r)
    BY <1>1, <2>2, JobPolled DEF Polled
  <2> QED
    BY <1>1, <2>1, <2>2 DEF SameJob
<1>5. Fail \/ (pc' \in {pc, "select"} /\ mmc' = mmc)
  BY <1>2
<1> QED
  BY <1>1, <1>2, <1>3, <1>4, <1>5, FailsOr DEF Starting, Commands

LEMMA StartsUp ==
  ASSUME ExactInv, NEW now \in Starting, NEW cmd \in Commands \ {"APP_SEND_OP_COND"}, NEW arg, NEW next \in Starting,
         Startup(now, cmd, arg, next), SameJob(job, job')
  PROVE  ExactInv'
<1>1. mmc \in Mmcs
  BY DEF ExactInv, SdTypeOK
<1>2. PICK o \in Outcomes(cmd, arg) : Comes(o) /\ IF o.r = "error" THEN Fail ELSE pc' = next /\ mmc' = mmc
  BY DEF Startup
<1>3. pc \in Starting /\ told' = told
  BY DEF Startup
<1>4. Fail \/ (pc' \in Starting /\ mmc' = mmc)
  BY <1>2
<1> QED
  BY <1>1, <1>2, <1>3, <1>4, FailsOr

LEMMA Selects ==
  ASSUME ExactInv, SelectCard \/ ScrApp \/ WidthApp
  PROVE  ExactInv'
<1> USE DEF Starting, Commands
<1>1. job \in Jobs
  BY DEF ExactInv, SdTypeOK
<1>2. SameJob(job, job)
  BY <1>1 DEF SameJob
<1>3. CASE SelectCard
  BY <1>2, <1>3, StartsUp DEF SelectCard
<1>4. CASE ScrApp
  <2>1. SameJob(job, job')
    BY <1>1, <1>4, JobCounter DEF ScrApp
  <2> QED
    BY <1>4, <2>1, StartsUp DEF ScrApp
<1>5. CASE WidthApp
  BY <1>2, <1>5, StartsUp DEF WidthApp
<1> QED
  BY <1>3, <1>4, <1>5

(* What is read from the SCR is the version of a card. *)
LEMMA Scr ==
  ASSUME SdTypeOK, NEW o \in Answers("APP_SEND_SCR", 0)
  PROVE  o \in Says(slot, slot.card.scr) /\ slot.state = "tran" /\ o.r = slot.card.scr /\ o.r \in {"1.0", "1.10", "2"}
<1>1. slot.state = "tran" /\ o \in Says(slot, slot.card.scr)
  BY DEF Answers, Identified, Selected, In, Becomes
<1>2. slot \in Slots /\ slot.card \in CardsOrNone /\ slot.card # Empty
  BY <1>1 DEF SdTypeOK, Slots
<1>3. slot.card \in Cards
  BY <1>2 DEF CardsOrNone
<1>4. slot.card.scr \in {"1.0", "1.10", "2"}
  BY <1>3, CardsAssumption DEF IsCard
<1> QED
  BY <1>1, <1>2, <1>4, SaysType

LEMMA Capabilities ==
  ASSUME ExactInv, SendScr \/ SwitchCheck \/ Switch
  PROVE  ExactInv'
<1> USE DEF Starting, Commands
<1>1. mmc \in Mmcs /\ job \in Jobs
  BY DEF ExactInv, SdTypeOK
<1>2. \A t : t = [job EXCEPT !.timeout = @ - 1] \/ t = [job EXCEPT !.timeout = 3] \/ t = job => SameJob(job, t)
  BY <1>1, JobTick, JobCounter DEF SameJob
<1>3. CASE SendScr
  <2>1. PICK o \in Outcomes("APP_SEND_SCR", 0) :
       /\ Comes(o)
       /\ LET m == [mmc EXCEPT !.version = o.r, !.card_caps = IF slot.card.wide THEN {"4BIT"} ELSE {}]
          IN  IF o.r = "error"
              THEN /\ job' = [job EXCEPT !.timeout = @ - 1]
                   /\ IF job.timeout = 0 THEN Fail ELSE UNCHANGED <<pc, mmc>>
              ELSE /\ job' = [job EXCEPT !.timeout = 3]
                   /\ IF o.r = "1.0" THEN WidthFor(m) ELSE pc' = "switch_check" /\ mmc' = m
    BY <1>3 DEF SendScr
  <2>2. pc = "scr" /\ told' = told
    BY <1>3 DEF SendScr
  <2>3. SameJob(job, job')
    <3>1. job' = [job EXCEPT !.timeout = @ - 1] \/ job' = [job EXCEPT !.timeout = 3]
      BY <2>1
    <3> QED
      BY <1>2, <3>1
  <2>4. CASE o.r = "error"
    <3>1. Fail \/ (pc' = pc /\ mmc' = mmc)
      BY <2>1, <2>4
    <3> QED
      BY <1>1, <2>1, <2>2, <2>3, <3>1, FailsOr
  <2>5. CASE o.r # "error"
    <3>1. PICK c \in Caps : c = IF slot.card.wide THEN {"4BIT"} ELSE {}
      BY DEF Caps
    <3>2. PICK m : m = [mmc EXCEPT !.version = o.r, !.card_caps = c]
      OBVIOUS
    <3>3. WidthFor(m) \/ (pc' = "switch_check" /\ mmc' = m)
      BY <2>1, <2>5, <3>1, <3>2
    <3>4. o.r \in {"1.0", "1.10", "2"}
      BY <2>1, <2>5, OutcomeType, Scr DEF ExactInv
    <3>5. m \in Mmcs /\ m.high_capacity = mmc.high_capacity
      <4>1. PICK u : u = [mmc EXCEPT !.version = o.r]
        OBVIOUS
      <4>2. m = [u EXCEPT !.card_caps = c]
        BY <1>1, <3>2, <4>1 DEF Mmcs
      <4>3. u \in Mmcs /\ u.high_capacity = mmc.high_capacity
        BY <1>1, <3>4, <4>1, MmcVersion
      <4>4. m \in Mmcs /\ m.high_capacity = u.high_capacity
        BY <4>2, <4>3, MmcCaps
      <4> QED
        BY <4>3, <4>4
    <3>6. pc' \in {"width_app", "ok", "switch_check"} /\ mmc' \in Mmcs /\ mmc'.high_capacity = mmc.high_capacity
      BY <3>3, <3>5, WidthForType
    <3> QED
      BY <2>1, <2>2, <2>3, <3>6, FailsOr
  <2> QED
    BY <2>4, <2>5
<1>4. CASE SwitchCheck
  <2>1. PICK o \in Outcomes("SWITCH_FUNC", "check") :
       /\ Comes(o)
       /\ job' = [job EXCEPT !.timeout = @ - 1]
       /\ IF o.r = "error" THEN Fail
          ELSE IF o.r = "high-speed busy" /\ job.timeout > 0 THEN UNCHANGED <<pc, mmc>>
          ELSE IF slot.card.hs THEN pc' = "switch" /\ mmc' = mmc
          ELSE WidthFor(mmc)
    BY <1>4 DEF SwitchCheck
  <2>2. pc = "switch_check" /\ told' = told
    BY <1>4 DEF SwitchCheck
  <2>3. Fail \/ (pc' \in {pc, "switch"} /\ mmc' = mmc) \/ WidthFor(mmc)
    BY <2>1
  <2>4. Fail \/ (pc' \in {"switch_check", "switch", "width_app", "ok"} /\ mmc' \in Mmcs /\ mmc'.high_capacity = mmc.high_capacity)
    BY <1>1, <2>2, <2>3, WidthForType
  <2>5. SameJob(job, job')
    BY <1>2, <2>1
  <2> QED
    BY <2>1, <2>2, <2>4, <2>5, FailsOr
<1>5. CASE Switch
  <2>1. PICK o \in Outcomes("SWITCH_FUNC", "switch") :
       /\ Comes(o)
       /\ IF o.r = "error" THEN Fail
          ELSE WidthFor(IF o.r = "" THEN [mmc EXCEPT !.card_caps = @ \cup {"HS"}] ELSE mmc)
    BY <1>5 DEF Switch
  <2>2. pc = "switch" /\ told' = told /\ job' = job
    BY <1>5 DEF Switch
  <2>3. PICK c \in Caps : c = mmc.card_caps \cup {"HS"}
    BY <1>1 DEF Mmcs, Caps
  <2>4. PICK m : m = [mmc EXCEPT !.card_caps = c]
    OBVIOUS
  <2>5. m = [mmc EXCEPT !.card_caps = @ \cup {"HS"}]
    BY <1>1, <2>3, <2>4 DEF Mmcs
  <2>6. Fail \/ WidthFor(m) \/ WidthFor(mmc)
    BY <2>1, <2>5
  <2>7. m \in Mmcs /\ m.high_capacity = mmc.high_capacity
    BY <1>1, <2>4, MmcCaps
  <2>8. Fail \/ (pc' \in {"width_app", "ok"} /\ mmc' \in Mmcs /\ mmc'.high_capacity = mmc.high_capacity)
    BY <1>1, <2>6, <2>7, WidthForType
  <2>9. SameJob(job, job')
    BY <1>2, <2>2
  <2> QED
    BY <2>1, <2>2, <2>8, <2>9, FailsOr
<1> QED
  BY <1>3, <1>4, <1>5

LEMMA Widens ==
  ASSUME ExactInv, SetBusWidth
  PROVE  ExactInv'
<1>1. mmc \in Mmcs /\ job \in Jobs
  BY DEF ExactInv, SdTypeOK
<1>2. PICK o \in Outcomes("APP_SET_BUS_WIDTH", 2) :
        Comes(o) /\ IF o.r = "error" THEN Fail ELSE Started([mmc EXCEPT !.bus_width = 4])
  BY DEF SetBusWidth
<1>3. pc = "width" /\ told' = told /\ job' = job
  BY DEF SetBusWidth
<1>4. PICK m : m = [mmc EXCEPT !.bus_width = 4]
  OBVIOUS
<1>5. m \in Mmcs /\ m.high_capacity = mmc.high_capacity
  BY <1>1, <1>4, MmcWidth
<1>6. Fail \/ Started(m)
  BY <1>2, <1>4
<1>7. Fail \/ (pc' = "ok" /\ mmc' \in Mmcs /\ mmc'.high_capacity = mmc.high_capacity)
  BY <1>5, <1>6, StartedType
<1>8. SameJob(job, job')
  BY <1>1, <1>3 DEF SameJob
<1> QED
  BY <1>2, <1>3, <1>7, <1>8, FailsOr DEF Starting, Commands

(* The check begins with one line. *)
LEMMA MmcNarrow ==
  ASSUME NEW m \in Mmcs, NEW t, t = Narrow(m)
  PROVE  t \in Mmcs /\ t.bus_width = 1 /\ t.high_capacity = m.high_capacity
<1>1. PICK u : u = [m EXCEPT !.bus_width = 1]
  OBVIOUS
<1>2. u \in Mmcs /\ u.bus_width = 1 /\ u.high_capacity = m.high_capacity
  BY <1>1 DEF Mmcs
<1>3. t = [u EXCEPT !.fast = FALSE]
  BY <1>1 DEF Mmcs, Narrow
<1>4. t \in Mmcs /\ t.bus_width = u.bus_width /\ t.high_capacity = u.high_capacity
  BY <1>2, <1>3 DEF Mmcs
<1> QED
  BY <1>2, <1>4

(* A check begins, and nothing is known of any card. *)
LEMMA JobBegins ==
  ASSUME ExactInv, Check
  PROVE  ExactInv'
<1>1. mmc \in Mmcs /\ slot \in Slots /\ (slot.state = "none" <=> slot.card = Empty)
  BY DEF ExactInv, SdTypeOK
<1>2. /\ mmc' = Narrow(mmc) /\ pc' = "go_idle" /\ told' = "none" /\ slot' = slot
      /\ job' = [NoJob EXCEPT !.kind = "check", !.timeout = OpPolls]
  BY DEF Check
<1>3. same' \in BOOLEAN /\ clean' \in BOOLEAN
  BY Zenon DEF Check
<1>4. mmc' \in Mmcs
  BY <1>1, <1>2, MmcNarrow
<1>5. job' \in Jobs /\ job'.kind = "check"
  <2>1. OpPolls \in Int
    BY PollsAssumption
  <2>2. job' = [kind |-> "check", req |-> NoRequest, start |-> 0, todo |-> 0, part |-> 0,
                timeout |-> OpPolls, retries |-> 0, err |-> FALSE]
    BY <1>2 DEF NoJob
  <2> QED
    BY <2>1, <2>2 DEF Jobs
<1>6. SdTypeOK'
  BY <1>1, <1>2, <1>3, <1>4, <1>5 DEF SdTypeOK, Finding
<1> QED
  BY <1>2, <1>5, <1>6 DEF ExactInv, JobInv, ToldInv, MovedInv, IsTransfer, Finding, Transferring

(* A card is exchanged: what was learned is of a card that is gone. *)
LEMMA Exchanges ==
  ASSUME ExactInv, Swap
  PROVE  ExactInv'
<1>1. PICK c \in CardsOrNone : slot' = Inserted(c)
  BY DEF Swap, CardsOrNone
<1>2. slot' \in Slots /\ slot'.card = c /\ slot'.state = (IF c = Empty THEN "none" ELSE "idle")
  BY <1>1, InsertedType
<1>3. /\ mmc' = mmc /\ pc' = pc /\ job' = job /\ moved' = moved
      /\ told' = IF told = "none" THEN told ELSE "gone"
  BY DEF Swap
<1>4. same' \in BOOLEAN /\ clean' \in BOOLEAN
  BY Zenon DEF Swap, ExactInv, SdTypeOK
<1>5. SdTypeOK'
  BY <1>2, <1>3, <1>4 DEF ExactInv, SdTypeOK
<1>6. JobInv' /\ MovedInv'
  BY <1>3 DEF ExactInv, JobInv, MovedInv, IsTransfer, BlocksDone, Asked, cur
<1>7. ToldInv'
  BY <1>2, <1>3 DEF ExactInv, ToldInv, SdTypeOK
<1> QED
  BY <1>5, <1>6, <1>7 DEF ExactInv

--------------------------------------------------------------------------------
(* Each step keeps ExactInv: the transfers. *)

(* The blocks of a job. *)
LEMMA NoneMoved == ASSUME NEW s PROVE <<>> = Run(s, 0)
  BY DEF Run

(* Blocks read on from where the last ones ended are one run of blocks. *)
LEMMA RunsOn ==
  ASSUME NEW s \in Nat, NEW d \in Nat, NEW n \in Nat
  PROVE  Run(s, d) \o [i \in 1 .. n |-> <<"present", s + d + i - 1>>] = Run(s, d + n)
<1> DEFINE Both == {"present"} \X Nat
           p == Run(s, d)
           q == [i \in 1 .. n |-> <<"present", s + d + i - 1>>]
           r == Run(s, d + n)
<1>1. /\ p \in Seq(Both) /\ Len(p) = d
      /\ q \in Seq(Both) /\ Len(q) = n
      /\ r \in Seq(Both) /\ Len(r) = d + n
  BY DEF Run
<1>2. /\ \A i \in 1 .. d : p[i] = <<"present", s + i - 1>>
      /\ \A i \in 1 .. n : q[i] = <<"present", s + d + i - 1>>
      /\ \A i \in 1 .. d + n : r[i] = <<"present", s + i - 1>>
  BY DEF Run
<1> HIDE DEF p, q, r, Both
<1>3. PICK c : c = p \o q
  OBVIOUS
<1>4. /\ c \in Seq(Both) /\ Len(c) = d + n
      /\ \A i \in 1 .. d + n : c[i] = IF i <= d THEN p[i] ELSE q[i - d]
  BY <1>1, <1>3, ConcatProperties
<1>5. ASSUME NEW i \in 1 .. d + n
      PROVE  c[i] = r[i]
  <2>1. i \in Nat /\ r[i] = <<"present", s + i - 1>>
    BY <1>2
  <2>2. CASE i <= d
    <3>1. i \in 1 .. d
      BY <2>1, <2>2
    <3>2. c[i] = p[i]
      BY <1>4, <2>2
    <3>3. p[i] = <<"present", s + i - 1>>
      BY <1>2, <3>1
    <3> QED
      BY <2>1, <3>2, <3>3
  <2>3. CASE i > d
    <3>1. PICK k \in 1 .. n : k = i - d
      BY <2>1, <2>3
    <3>2. c[i] = q[k]
      BY <1>4, <2>3, <3>1
    <3>3. q[k] = <<"present", s + d + k - 1>>
      BY <1>2
    <3>4. s + d + k - 1 = s + i - 1
      BY <2>1, <3>1
    <3> QED
      BY <2>1, <3>2, <3>3, <3>4
  <2> QED
    BY <2>1, <2>2, <2>3
<1>6. c = r
  BY <1>1, <1>4, <1>5, SeqEqual
<1> QED
  BY <1>3, <1>6 DEF p, q, r

(* The numbers of a job. *)
LEMMA RequestType ==
  ASSUME NEW j \in Jobs
  PROVE  /\ j.req.start \in Nat /\ j.req.full \in Nat /\ j.req.part \in {0, 1}
         /\ j.start \in Nat /\ j.todo \in Nat /\ j.part \in {0, 1} /\ j.timeout \in Int
  BY RequestsAssumption DEF Jobs, NoRequest

(* A transfer begins with nothing moved. *)
LEMMA Asks ==
  ASSUME ExactInv, Transfer
  PROVE  ExactInv'
<1>1. PICK r \in Requests, kind \in {"read", "write"} :
        job' = [NoJob EXCEPT !.kind = kind, !.req = r, !.start = r.start,
                  !.todo = IF kind = "read" /\ r.full > 0 THEN r.full ELSE r.full + r.part,
                  !.part = IF kind = "read" /\ r.full > 0 THEN r.part ELSE 0]
  BY DEF Transfer
<1>2. pc' = "blocklen" /\ moved' = <<>> /\ UNCHANGED <<slot, mmc, told, same, clean>> /\ AtRest
  BY DEF Transfer, Take
<1>3. r.start \in Nat /\ r.full \in Nat /\ r.part \in {0, 1}
  BY RequestsAssumption
<1>4. PICK n \in Nat, p \in {0, 1} :
        /\ n = IF kind = "read" /\ r.full > 0 THEN r.full ELSE r.full + r.part
        /\ p = IF kind = "read" /\ r.full > 0 THEN r.part ELSE 0
  BY <1>3
<1>5. job' = [kind |-> kind, req |-> r, start |-> r.start, todo |-> n, part |-> p, timeout |-> 0, retries |-> 0, err |-> FALSE]
  BY <1>1, <1>4 DEF NoJob
<1>6. job' \in Jobs
  BY <1>3, <1>5 DEF Jobs
<1>7. n + p = r.full + r.part
  BY <1>3, <1>4
<1>8. SdTypeOK'
  BY <1>2, <1>6 DEF ExactInv, SdTypeOK, Transferring
<1>9. JobInv'
  BY <1>2, <1>5 DEF JobInv, Finding, Starting, Transferring
<1>10. ToldInv'
  BY <1>2 DEF ExactInv, ToldInv, Finding
<1>11. MovedInv'
  <2>1. BlocksDone' = 0
    BY <1>2, <1>3, <1>5 DEF BlocksDone
  <2>2. moved' = Run(job'.req.start, BlocksDone')
    BY <1>2, <2>1, NoneMoved
  <2>3. job'.start + job'.todo + job'.part = job'.req.start + Asked'
    BY <1>3, <1>5, <1>7 DEF Asked
  <2>4. job'.req.start <= job'.start
    BY <1>3, <1>5
  <2> QED
    BY <1>2, <2>2, <2>3, <2>4 DEF MovedInv
<1> QED
  BY <1>8, <1>9, <1>10, <1>11 DEF ExactInv

(* One command of a transfer. *)
LEMMA TransferStep ==
  ASSUME ExactInv, NEW cmd \in Commands \ {"APP_SEND_OP_COND"}, NEW arg, NEW o \in Outcomes(cmd, arg), Comes(o),
         pc \in Transferring, pc' \in Transferring \cup {"ok", "failed"}, mmc' = mmc, told' = told,
         job' \in Jobs, job'.kind = job.kind, pc' = "write_status" => job.kind = "write" /\ job'.timeout >= 0,
         MovedInv'
  PROVE  ExactInv'
<1>1. /\ slot' \in Slots /\ slot'.card = slot.card /\ (slot'.state = "none" <=> slot'.card = Empty)
      /\ same' = same /\ clean' \in BOOLEAN
      /\ told = "gone" => slot'.state \in {"none", "idle"}
  BY ComesType
<1>2. SdTypeOK'
  BY <1>1 DEF ExactInv, SdTypeOK, Rest
<1>3. JobInv'
  BY DEF ExactInv, JobInv, Transferring, Finding, Starting
<1>4. ToldInv'
  BY <1>1 DEF ExactInv, ToldInv, Transferring, Finding
<1> QED
  BY <1>2, <1>3, <1>4 DEF ExactInv

(* The first facts of a transfer: the job's numbers. *)
LEMMA Numbers ==
  ASSUME ExactInv, pc \in Transferring
  PROVE  /\ job \in Jobs /\ IsTransfer /\ cur \in Nat /\ cur <= job.todo /\ job.req.start <= job.start
         /\ job.start + job.todo + job.part = job.req.start + Asked
         /\ Asked \in Nat /\ (pc \in {"blocklen", "blocks"} => BlocksDone = job.start - job.req.start)
         /\ (pc \in {"stop", "write_status"} => BlocksDone = job.start - job.req.start + cur)
         /\ (told # "none" => moved = Run(job.req.start, BlocksDone))
<1>1. job \in Jobs
  BY DEF ExactInv, SdTypeOK
<1>2. /\ job.req.start \in Nat /\ job.req.full \in Nat /\ job.req.part \in {0, 1}
      /\ job.start \in Nat /\ job.todo \in Nat /\ job.part \in {0, 1}
  BY <1>1, RequestType
<1>3. cur \in Nat /\ cur <= job.todo
  BY <1>2, PollsAssumption DEF cur
<1>4. IsTransfer
  BY DEF ExactInv, JobInv, IsTransfer
<1>5. /\ job.req.start <= job.start
      /\ job.start + job.todo + job.part = job.req.start + Asked
      /\ told # "none" => moved = Run(job.req.start, BlocksDone)
  BY <1>4 DEF ExactInv, MovedInv, Transferring
<1>6. Asked \in Nat
  BY <1>2 DEF Asked
<1>7. /\ (pc \in {"blocklen", "blocks"} => BlocksDone = job.start - job.req.start)
      /\ (pc \in {"stop", "write_status"} => BlocksDone = job.start - job.req.start + cur)
  BY <1>2 DEF BlocksDone
<1> QED
  BY <1>1, <1>3, <1>4, <1>5, <1>6, <1>7

(* The length of blocks is set, or the transfer refused. *)
LEMMA Prepares ==
  ASSUME ExactInv, SetBlocklen \/ Refuse
  PROVE  ExactInv'
<1>1. CASE SetBlocklen
  <2>1. PICK o \in Outcomes("SET_BLOCKLEN", BlockLen) : Comes(o) /\ pc' = IF o.r = "error" THEN "failed" ELSE "blocks"
    BY <1>1 DEF SetBlocklen
  <2>2. pc = "blocklen" /\ pc' \in {"failed", "blocks"} /\ mmc' = mmc /\ job' = job /\ moved' = moved /\ told' = told
    BY <1>1, <2>1 DEF SetBlocklen
  <2>3. /\ job \in Jobs /\ job.req.start <= job.start /\ job.start + job.todo + job.part = job.req.start + Asked
        /\ BlocksDone = job.start - job.req.start /\ (told # "none" => moved = Run(job.req.start, BlocksDone))
    BY <2>2, Numbers DEF Transferring
  <2>4. MovedInv'
    BY <2>2, <2>3 DEF MovedInv, BlocksDone, Asked
  <2> QED
    BY <2>1, <2>2, <2>3, <2>4, TransferStep DEF Transferring, Commands
<1>2. CASE Refuse
  <2>1. pc = "blocks" /\ pc' = "failed" /\ job' = job /\ UNCHANGED <<slot, mmc, moved, told, same, clean>>
    BY <1>2 DEF Refuse, GiveUp
  <2>2. /\ job.req.start <= job.start /\ job.start + job.todo + job.part = job.req.start + Asked
    BY <2>1, Numbers DEF Transferring
  <2>3. MovedInv'
    BY <2>1, <2>2 DEF MovedInv, Asked
  <2>4. SdTypeOK'
    BY <2>1 DEF ExactInv, SdTypeOK, Rest
  <2>5. JobInv' /\ ToldInv'
    BY <2>1 DEF ExactInv, JobInv, ToldInv, Finding, Starting, Transferring
  <2> QED
    BY <2>3, <2>4, <2>5 DEF ExactInv
<1> QED
  BY <1>1, <1>2

(* One transfer has been completed. *)
LEMMA GoesOn ==
  ASSUME ExactInv, pc \in Transferring, Goes, told' = told,
         told # "none" => moved' = Run(job.req.start, job.start - job.req.start + cur)
  PROVE  job' \in Jobs /\ job'.kind = job.kind /\ pc' \in {"blocks", "blocklen", "ok"} /\ MovedInv'
<1>1. /\ job \in Jobs /\ cur \in Nat /\ cur <= job.todo /\ job.req.start <= job.start
      /\ job.start + job.todo + job.part = job.req.start + Asked
  BY Numbers
<1>2. /\ job.req.start \in Nat /\ job.req.full \in Nat /\ job.req.part \in {0, 1}
      /\ job.start \in Nat /\ job.todo \in Nat /\ job.part \in {0, 1}
  BY <1>1, RequestType
<1>3. PICK n \in Nat, s \in Nat : n = job.todo - cur /\ s = job.start + cur
  BY <1>1, <1>2
<1>4. PICK j : j = [job EXCEPT !.todo = n, !.start = s]
  OBVIOUS
<1>5. j \in Jobs /\ j.kind = job.kind /\ j.req = job.req /\ j.start = s /\ j.todo = n /\ j.part = job.part
  BY <1>1, <1>4 DEF Jobs
<1>6. j = Advance(job)
  BY <1>1, <1>3, <1>4 DEF Advance, Jobs
<1>7. \/ n > 0 /\ job' = j /\ pc' = "blocks"
      \/ n = 0 /\ job.part > 0 /\ job' = [j EXCEPT !.todo = 1, !.part = 0] /\ pc' = "blocklen"
      \/ n = 0 /\ ~ job.part > 0 /\ job' = j /\ pc' = "ok"
  BY <1>5, <1>6 DEF Goes
<1>8. /\ job' \in Jobs /\ job'.kind = job.kind /\ job'.req = job.req /\ job'.start = s
      /\ job'.todo + job'.part = n + job.part /\ (pc' = "ok" => job'.todo = 0 /\ job'.part = 0)
  <2>1. CASE job' = j /\ n > 0 /\ pc' = "blocks"
    BY <1>5, <2>1
  <2>2. CASE n = 0 /\ job.part > 0 /\ job' = [j EXCEPT !.todo = 1, !.part = 0] /\ pc' = "blocklen"
    <3>1. job' \in Jobs /\ job'.kind = j.kind /\ job'.req = j.req /\ job'.start = j.start /\ job'.todo = 1 /\ job'.part = 0
      BY <1>5, <2>2 DEF Jobs
    <3> QED
      BY <1>2, <1>5, <2>2, <3>1
  <2>3. CASE n = 0 /\ ~ job.part > 0 /\ job' = j /\ pc' = "ok"
    BY <1>2, <1>5, <2>3
  <2> QED
    BY <1>7, <2>1, <2>2, <2>3
<1>9. pc' \in {"blocks", "blocklen", "ok"}
  BY <1>7
<1>10. MovedInv'
  <2>1. BlocksDone' = s - job.req.start
    BY <1>2, <1>8, <1>9 DEF BlocksDone
  <2>2. s - job.req.start = job.start - job.req.start + cur
    BY <1>1, <1>2, <1>3
  <2>3. Asked' = Asked
    BY <1>8 DEF Asked
  <2>4. job'.req.start <= job'.start
    BY <1>1, <1>2, <1>3, <1>8
  <2>5. job'.todo \in Nat /\ job'.part \in Nat
    BY <1>8, RequestType
  <2>6. job'.start + job'.todo + job'.part = job'.req.start + Asked'
    BY <1>1, <1>2, <1>3, <1>8, <2>3, <2>5
  <2> QED
    BY <1>8, <2>1, <2>2, <2>4, <2>6 DEF MovedInv
<1> QED
  BY <1>8, <1>9, <1>10

(* Data has been moved, and the job goes on. *)
LEMMA MovesOn ==
  ASSUME ExactInv, pc \in Transferring, Moved, told' = told,
         told # "none" => moved' = Run(job.req.start, job.start - job.req.start + cur)
  PROVE  /\ job' \in Jobs /\ job'.kind = job.kind /\ pc' \in Transferring \cup {"ok"} /\ MovedInv'
         /\ pc' = "write_status" => job.kind = "write" /\ job'.timeout >= 0
<1>1. /\ job \in Jobs /\ IsTransfer /\ cur \in Nat /\ job.req.start <= job.start
      /\ job.start + job.todo + job.part = job.req.start + Asked
  BY Numbers
<1>2. CASE job.kind = "read"
  BY <1>2, GoesOn DEF Moved, Transferring
<1>3. CASE job.kind = "write"
  <2>1. job' = Polling(job) /\ pc' = "write_status"
    BY <1>3 DEF Moved
  <2>2. SameJob(job, job') /\ job'.timeout >= 0
    BY <1>1, <2>1, JobPolling, PollsAssumption
  <2>3. MovedInv'
    BY <1>1, <2>1, <2>2 DEF MovedInv, SameJob, Asked, BlocksDone, cur
  <2> QED
    BY <1>3, <2>1, <2>2, <2>3 DEF SameJob, Transferring
<1> QED
  BY <1>1, <1>2, <1>3 DEF IsTransfer

(* A card that moves blocks is the one that was checked, and its blocks are those the driver means. *)
LEMMA AddressedBlock ==
  ASSUME ExactInv, pc = "blocks", job.kind \in {"read", "write"}, NEW o \in Answers(job.kind, Address)
  PROVE  /\ slot.state = "tran" /\ Block(Address) >= 0
         /\ told # "none" => told = "present" /\ Block(Address) = job.start
<1>1. slot.state = "tran" /\ Block(Address) >= 0
  BY DEF Answers, Identified, Selected, In, Becomes
<1>2. job \in Jobs /\ told \in {"none", "present", "gone"} /\ slot \in Slots /\ mmc \in Mmcs
  BY DEF ExactInv, SdTypeOK
<1>3. job.start \in Nat
  BY <1>2, RequestType
<1>4. ASSUME told # "none" PROVE told = "present" /\ Block(Address) = job.start
  <2>1. told = "present"
    BY <1>1, <1>2, <1>4 DEF ExactInv, ToldInv
  <2>2. mmc.high_capacity = slot.card.hc
    BY <2>1 DEF ExactInv, ToldInv
  <2>3. slot.card.hc \in BOOLEAN
    BY <1>2, HasCapacity DEF Slots
  <2>4. CASE slot.card.hc
    <3>1. Address = job.start
      BY <2>2, <2>4, Zenon DEF Address
    <3>2. Block(Address) \in {Address, -1}
      BY <2>4 DEF Block
    <3> QED
      BY <1>1, <2>1, <3>1, <3>2
  <2>5. CASE ~ slot.card.hc
    <3>1. Address = job.start * BlockLen
      BY <2>2, <2>5, Zenon DEF Address
    <3>2. (job.start * 512) % 512 = 0 /\ (job.start * 512) \div 512 = job.start
      BY <1>3
    <3>3. Block(Address) \in {job.start, -1}
      BY <2>5, <3>1, <3>2 DEF Block, BlockLen
    <3> QED
      BY <1>1, <2>1, <3>3
  <2> QED
    BY <2>1, <2>4, <2>5
<1> QED
  BY <1>1, <1>4

(* Blocks are moved: on the card that was checked, and the next ones. *)
LEMMA MovesBlocks ==
  ASSUME ExactInv, Blocks
  PROVE  ExactInv'
<1>1. PICK o \in Outcomes(job.kind, Address) :
       /\ Comes(o)
       /\ IF o.r = "error" THEN GiveUp /\ moved' = moved
          ELSE /\ moved' = moved \o [i \in 1 .. cur |-> <<told, Block(Address) + i - 1>>]
               /\ IF cur > 1 THEN pc' = "stop" /\ job' = job ELSE Moved
  BY DEF Blocks
<1>2. pc = "blocks" /\ mmc' = mmc /\ told' = told
  BY DEF Blocks
<1>3. pc \in Transferring
  BY <1>2 DEF Transferring
<1>4. /\ job \in Jobs /\ IsTransfer /\ cur \in Nat /\ cur <= job.todo /\ job.req.start <= job.start
      /\ job.start + job.todo + job.part = job.req.start + Asked
      /\ BlocksDone = job.start - job.req.start
      /\ (told # "none" => moved = Run(job.req.start, BlocksDone))
  BY <1>2, <1>3, Numbers
<1>5. job.req.start \in Nat /\ job.start \in Nat
  BY <1>4, RequestType
<1>6. job.kind \in Commands \ {"APP_SEND_OP_COND"}
  BY <1>4 DEF IsTransfer, Commands
<1>7. CASE o.r = "error"
  <2>1. pc' = "failed" /\ job' = job
    BY <1>1, <1>7 DEF GiveUp
  <2>2. MovedInv'
    BY <1>4, <2>1 DEF MovedInv, Asked
  <2> QED
    BY <1>1, <1>2, <1>3, <1>4, <1>6, <2>1, <2>2, TransferStep
<1>8. CASE o.r # "error"
  <2>1. o \in Answers(job.kind, Address)
    BY <1>6, <1>8, OutcomeType DEF ExactInv
  <2>2. moved' = moved \o [i \in 1 .. cur |-> <<told, Block(Address) + i - 1>>]
    BY <1>1, <1>8
  <2>3. told # "none" => moved' = Run(job.req.start, job.start - job.req.start + cur)
    <3> HAVE told # "none"
    <3>1. told = "present" /\ Block(Address) = job.start
      BY <1>2, <1>4, <2>1, AddressedBlock DEF IsTransfer
    <3>2. PICK d \in Nat : d = job.start - job.req.start
      BY <1>4, <1>5
    <3>3. job.start = job.req.start + d
      BY <1>5, <3>2
    <3>4. moved' = Run(job.req.start, d) \o [i \in 1 .. cur |-> <<"present", job.req.start + d + i - 1>>]
      BY <1>4, <2>2, <3>1, <3>2, <3>3
    <3> QED
      BY <1>4, <1>5, <3>2, <3>4, RunsOn
  <2>4. CASE cur > 1
    <3>1. pc' = "stop" /\ job' = job
      BY <1>1, <1>8, <2>4
    <3>2. MovedInv'
      BY <1>2, <1>4, <2>3, <3>1 DEF MovedInv, Asked, BlocksDone, cur
    <3> QED
      BY <1>1, <1>2, <1>3, <1>4, <1>6, <3>1, <3>2, TransferStep DEF Transferring
  <2>5. CASE ~ cur > 1
    <3>1. Moved
      BY <1>1, <1>8, <2>5
    <3>2. /\ job' \in Jobs /\ job'.kind = job.kind /\ pc' \in Transferring \cup {"ok"} /\ MovedInv'
          /\ pc' = "write_status" => job.kind = "write" /\ job'.timeout >= 0
      BY <1>2, <1>3, <2>3, <3>1, MovesOn
    <3> QED
      BY <1>1, <1>2, <1>3, <1>6, <3>2, TransferStep
  <2> QED
    BY <2>4, <2>5
<1> QED
  BY <1>7, <1>8

(* The transfer is stopped. *)
LEMMA Stops ==
  ASSUME ExactInv, Stop
  PROVE  ExactInv'
<1>1. PICK o \in Outcomes("STOP_TRANSMISSION", 0) : Comes(o) /\ IF o.r = "error" THEN GiveUp ELSE Moved
  BY DEF Stop
<1>2. pc = "stop" /\ mmc' = mmc /\ moved' = moved /\ told' = told /\ pc \in Transferring
  BY DEF Stop, Transferring
<1>3. /\ job \in Jobs /\ job.req.start <= job.start /\ job.start + job.todo + job.part = job.req.start + Asked
      /\ BlocksDone = job.start - job.req.start + cur /\ (told # "none" => moved = Run(job.req.start, BlocksDone))
  BY <1>2, Numbers
<1>4. CASE GiveUp
  <2>1. pc' = "failed" /\ job' = job
    BY <1>4 DEF GiveUp
  <2>2. MovedInv'
    BY <1>3, <2>1 DEF MovedInv, Asked
  <2> QED
    BY <1>1, <1>2, <1>3, <2>1, <2>2, TransferStep DEF Commands
<1>5. CASE Moved
  <2>1. /\ job' \in Jobs /\ job'.kind = job.kind /\ pc' \in Transferring \cup {"ok"} /\ MovedInv'
        /\ pc' = "write_status" => job.kind = "write" /\ job'.timeout >= 0
    BY <1>2, <1>3, <1>5, MovesOn
  <2> QED
    BY <1>1, <1>2, <2>1, TransferStep DEF Commands
<1> QED
  BY <1>1, <1>4, <1>5

(* The end of a write is awaited. *)
LEMMA Waits ==
  ASSUME ExactInv, WriteStatus
  PROVE  ExactInv'
<1>1. PICK o \in Outcomes("SEND_STATUS", mmc.rca) :
       /\ Comes(o)
       /\ IF ~ LastPoll(o.r) THEN Polled(o.r) /\ pc' = pc
          ELSE IF o.r = "ready" /\ job.timeout > 0 THEN Goes
          ELSE GiveUp
  BY DEF WriteStatus
<1>2. pc = "write_status" /\ mmc' = mmc /\ moved' = moved /\ told' = told /\ pc \in Transferring
  BY DEF WriteStatus, Transferring
<1>3. /\ job \in Jobs /\ job.req.start <= job.start /\ job.start + job.todo + job.part = job.req.start + Asked
      /\ BlocksDone = job.start - job.req.start + cur /\ (told # "none" => moved = Run(job.req.start, BlocksDone))
  BY <1>2, Numbers
<1>4. job.kind = "write" /\ job.timeout >= 0 /\ job.timeout \in Int
  BY <1>2, <1>3, RequestType DEF ExactInv, JobInv
<1>5. CASE GiveUp
  <2>1. pc' = "failed" /\ job' = job
    BY <1>5 DEF GiveUp
  <2>2. MovedInv'
    BY <1>3, <2>1 DEF MovedInv, Asked
  <2> QED
    BY <1>1, <1>2, <1>3, <2>1, <2>2, TransferStep DEF Commands
<1>6. CASE Goes
  <2>1. job' \in Jobs /\ job'.kind = job.kind /\ pc' \in {"blocks", "blocklen", "ok"} /\ MovedInv'
    BY <1>2, <1>3, <1>6, GoesOn
  <2> QED
    BY <1>1, <1>2, <2>1, TransferStep DEF Commands, Transferring
<1>7. CASE ~ LastPoll(o.r) /\ Polled(o.r) /\ pc' = pc
  <2>1. SameJob(job, job') /\ job'.timeout = job.timeout - 1
    BY <1>3, <1>7, JobPolled DEF Polled
  <2>2. job'.timeout >= 0
    BY <1>4, <1>7, <2>1 DEF LastPoll
  <2>3. MovedInv'
    BY <1>2, <1>3, <1>7, <2>1 DEF MovedInv, SameJob, Asked, BlocksDone, cur
  <2> QED
    BY <1>1, <1>2, <1>4, <1>7, <2>1, <2>2, <2>3, TransferStep DEF Commands, SameJob
<1> QED
  BY <1>1, <1>5, <1>6, <1>7

(* The first state, *)
LEMMA ExactStart == Init => ExactInv
<1> SUFFICES ASSUME Init PROVE ExactInv
  OBVIOUS
<1>1. PICK c \in CardsOrNone : slot = Inserted(c)
  BY DEF Init, CardsOrNone
<1>2. slot \in Slots /\ (slot.state = "none" <=> slot.card = Empty)
  BY <1>1, InsertedType
<1>3. mmc \in Mmcs
  BY DEF Init, Mmcs, Caps
<1>4. job \in Jobs /\ job.kind = "none"
  BY DEF Init, NoJob, Jobs
<1>5. pc = "none" /\ told = "none" /\ same = FALSE /\ clean = TRUE /\ job = NoJob
  BY DEF Init
<1>6. SdTypeOK
  BY <1>2, <1>3, <1>4, <1>5 DEF SdTypeOK, Rest
<1> QED
  BY <1>4, <1>5, <1>6 DEF ExactInv, JobInv, ToldInv, MovedInv, IsTransfer, Finding, Starting, Transferring

(* and every step. *)
LEMMA ExactKept == ExactInv /\ [Next]_vars => ExactInv'
<1> SUFFICES ASSUME ExactInv, [Next]_vars PROVE ExactInv'
  OBVIOUS
<1>1. CASE UNCHANGED vars
  BY <1>1 DEF vars, ExactInv, SdTypeOK, JobInv, ToldInv, MovedInv, IsTransfer, BlocksDone, Asked, cur
<1> QED
  BY <1>1, Exchanges, JobBegins, Finds, Conditions, Identifies, Reads, Polls, Selects, Capabilities, Widens, Asks,
     Prepares, MovesBlocks, Stops, Waits DEF Next

(* A read or write of blocks that reports success has moved exactly the    *)
(* blocks asked for, in order, on the card that was checked: for any cards *)
(* and requests, whatever was exchanged or lost (mmc_bread, mmc_bwrite).   *)
THEOREM TransfersExact == Spec => []TransferIsExact
<1>1. ExactInv => TransferIsExact
  <2> SUFFICES ASSUME ExactInv, pc = "ok", job.kind \in {"read", "write"}, told # "none"
               PROVE  moved = [i \in 1 .. job.req.full + job.req.part |-> <<"present", job.req.start + i - 1>>]
    BY DEF TransferIsExact
  <2>1. /\ job.todo = 0 /\ job.part = 0 /\ job.start + job.todo + job.part = job.req.start + Asked
        /\ moved = Run(job.req.start, BlocksDone)
    BY DEF ExactInv, MovedInv, IsTransfer
  <2>2. job \in Jobs
    BY DEF ExactInv, SdTypeOK
  <2>3. BlocksDone = Asked
    BY <2>1, <2>2, RequestType DEF BlocksDone, Asked
  <2> QED
    BY <2>1, <2>3 DEF Run, Asked
<1> QED
  BY <1>1, ExactStart, ExactKept, PTL DEF Spec

--------------------------------------------------------------------------------
(* Each step keeps CauseInv: the driver and the card stay in step. *)

(* Nothing has been lost since the check: what comes of a command is an answer, if there is one. *)
LEMMA QuietSlot ==
  ASSUME CauseInv, NEW cmd \in Commands, NEW arg, NEW o \in Outcomes(cmd, arg), Comes(o), Untroubled'
  PROVE  /\ Untroubled /\ InStep /\ slot' = o.slot
         /\ slot \in Slots /\ slot.card \in Cards /\ slot.state # "none" /\ slot'.card = slot.card
         /\ mmc \in Mmcs /\ job \in Jobs
         /\ Answers(cmd, arg) # {} => o \in Answers(cmd, arg) /\ o.r # "error"
         /\ Answers(cmd, arg) = {} => Steady(slot, o.slot) /\ o.r = "error"
         /\ pc \in {"op_cond", "write_status"} => job.timeout # 0
<1>1. SdTypeOK /\ slot \in Slots /\ mmc \in Mmcs /\ job \in Jobs
  BY DEF CauseInv, ExactInv, SdTypeOK
<1>2. /\ SameCard(slot, o.slot) /\ (o.slot.state = "none" <=> o.slot.card = Empty)
      /\ o.r # "error" => o \in Answers(cmd, arg)
      /\ ~ o.lost => o \in Answers(cmd, arg) \/ (Answers(cmd, arg) = {} /\ Steady(slot, o.slot))
  BY <1>1, OutcomeType
<1>3. slot' = o.slot /\ same' = same
  BY DEF Comes
<1>4. clean' /\ same' /\ slot'.state # "none" /\ ~ slot'.card.mmc
  BY DEF Untroubled
<1>5. clean /\ ~ o.lost /\ ~ (pc \in {"op_cond", "write_status"} /\ job.timeout = 0)
  BY <1>4, Zenon DEF Comes
<1>6. slot'.card = slot.card
  BY <1>2, <1>3 DEF SameCard
<1>7. slot.state # "none" /\ slot.card # Empty /\ slot.card \in Cards
  BY <1>1, <1>2, <1>3, <1>4, <1>6 DEF SdTypeOK, Slots, CardsOrNone
<1>8. same
  BY <1>3, <1>4
<1>9. ~ slot.card.mmc
  BY <1>4, <1>6
<1>10. Untroubled
  BY <1>5, <1>7, <1>8, <1>9 DEF Untroubled
<1>11. InStep
  BY <1>10 DEF CauseInv
<1>12. Answers(cmd, arg) # {} => o \in Answers(cmd, arg) /\ o.r # "error"
  BY <1>1, <1>2, <1>5, AnswerType DEF Heard
<1>13. Answers(cmd, arg) = {} => Steady(slot, o.slot) /\ o.r = "error"
  BY <1>2, <1>5
<1> QED
  BY <1>1, <1>3, <1>5, <1>6, <1>7, <1>10, <1>11, <1>12, <1>13

(* There is an answer. *)
LEMMA SaysOne == ASSUME NEW s, NEW r PROVE Says(s, r) # {}
  BY DEF Says

(* What the card answers, command by command. *)
LEMMA ToGoIdle ==
  ASSUME slot.state \in States \ {"none"}
  PROVE  Answers("GO_IDLE_STATE", 0) = Says(Inserted(slot.card), "")
  BY DEF Answers, Identified, Selected, In, States

LEMMA ToIfCond ==
  ASSUME slot.state = "idle", slot.card.scr = "2"
  PROVE  Answers("SEND_IF_COND", 0) = Says(slot, "0xaa")
  BY DEF Answers, Identified, Selected, In

LEMMA ToAppCmd ==
  ASSUME slot.state \in {"idle", "stby", "tran"}, ~ slot.card.mmc, NEW arg, arg = slot.rca
  PROVE  Answers("APP_CMD", arg) = {[slot |-> [slot EXCEPT !.app = TRUE], r |-> "", lost |-> FALSE]}
  BY Zenon DEF Answers, In, Addressed

LEMMA ToCommand ==
  ASSUME NEW arg
  PROVE  /\ slot.state = "ready" => Answers("ALL_SEND_CID", arg) = Becomes("ident")
         /\ slot.state = "ident" =>
              Answers("SEND_RELATIVE_ADDR", arg) =
                UNION {Says([slot EXCEPT !.state = "stby", !.rca = a], "") : a \in {1, 2}}
         /\ slot.state = "stby" /\ arg = slot.rca => Answers("SEND_CSD", arg) = Becomes("stby")
         /\ slot.state = "stby" /\ arg = slot.rca => Answers("SELECT_CARD", arg) = Becomes("tran")
         /\ slot.state = "tran" => Answers("SET_BLOCKLEN", arg) = Becomes("tran")
         /\ slot.state = "data" => Answers("STOP_TRANSMISSION", arg) = Becomes("tran")
         /\ slot.state = "rcv" => Answers("STOP_TRANSMISSION", arg) = Becomes("prg")
         /\ slot.state = "stby" /\ arg = slot.rca => Answers("SEND_STATUS", arg) = Says(slot, "ready")
         /\ slot.state = "prg" /\ arg = slot.rca =>
              Answers("SEND_STATUS", arg) = Says(slot, "prg") \cup Says([slot EXCEPT !.state = "tran"], "ready")
<1>1. slot.state = "ready" => Answers("ALL_SEND_CID", arg) = Becomes("ident")
  BY DEF Answers, Identified, Selected, In
<1>2. slot.state = "ident" =>
              Answers("SEND_RELATIVE_ADDR", arg) =
                UNION {Says([slot EXCEPT !.state = "stby", !.rca = a], "") : a \in {1, 2}}
  BY DEF Answers, Identified, Selected, In
<1>3. slot.state = "stby" /\ arg = slot.rca => Answers("SEND_CSD", arg) = Becomes("stby")
  BY DEF Answers, Identified, Selected, In, Addressed
<1>4. slot.state = "stby" /\ arg = slot.rca => Answers("SELECT_CARD", arg) = Becomes("tran")
  BY DEF Answers, Identified, Selected, In, Addressed
<1>5. slot.state = "tran" => Answers("SET_BLOCKLEN", arg) = Becomes("tran")
  BY DEF Answers, Identified, Selected, In
<1>6. slot.state = "data" => Answers("STOP_TRANSMISSION", arg) = Becomes("tran")
  BY DEF Answers, Identified, Selected, In
<1>7. slot.state = "rcv" => Answers("STOP_TRANSMISSION", arg) = Becomes("prg")
  BY DEF Answers, Identified, Selected, In
<1>8. slot.state = "stby" /\ arg = slot.rca => Answers("SEND_STATUS", arg) = Says(slot, "ready")
  BY DEF Answers, In, Addressed
<1>9. slot.state = "prg" /\ arg = slot.rca =>
              Answers("SEND_STATUS", arg) = Says(slot, "prg") \cup Says([slot EXCEPT !.state = "tran"], "ready")
  BY DEF Answers, In, Addressed
<1> QED
  BY <1>1, <1>2, <1>3, <1>4, <1>5, <1>6, <1>7, <1>8, <1>9

LEMMA ToScr ==
  ASSUME slot.state = "tran", slot.app, DataPath
  PROVE  Answers("APP_SEND_SCR", 0) = Says(slot, slot.card.scr)
  BY DEF Answers, Identified, Selected, In

LEMMA ToSwitch ==
  ASSUME slot.state = "tran", slot.card.scr # "1.0", DataPath, NEW arg
  PROVE  Answers("SWITCH_FUNC", arg) = Says(slot, "") \cup Says(slot, "high-speed busy")
  BY DEF Answers, Identified, Selected, In

LEMMA ToBusWidth ==
  ASSUME slot.state = "tran", slot.app, slot.card.wide
  PROVE  Answers("APP_SET_BUS_WIDTH", 2) = Says([slot EXCEPT !.width = 4], "")
  BY DEF Answers, Identified, Selected, In

LEMMA ToTransfer ==
  ASSUME slot.state = "tran", DataPath, NEW arg
  PROVE  /\ Block(arg) >= 0 =>
              /\ Answers("read", arg) = Becomes(IF cur > 1 THEN "data" ELSE "tran")
              /\ Answers("write", arg) = Becomes(IF cur > 1 THEN "rcv" ELSE "prg")
         /\ ~ Block(arg) >= 0 => Answers("read", arg) = {} /\ Answers("write", arg) = {}
<1>1. CASE Block(arg) >= 0
  <2>1. Answers("read", arg) = Becomes(IF cur > 1 THEN "data" ELSE "tran")
    BY <1>1 DEF Answers, Identified, Selected, In
  <2>2. Answers("write", arg) = Becomes(IF cur > 1 THEN "rcv" ELSE "prg")
    BY <1>1 DEF Answers, Identified, Selected, In
  <2> QED
    BY <1>1, <2>1, <2>2
<1>2. CASE ~ Block(arg) >= 0
  <2>1. Answers("read", arg) = {}
    BY <1>2 DEF Answers, Identified, Selected, In
  <2>2. Answers("write", arg) = {}
    BY <1>2 DEF Answers, Identified, Selected, In
  <2> QED
    BY <1>2, <2>1, <2>2
<1> QED
  BY <1>1, <1>2

(* A command that changes the state of the card changes nothing else. *)
LEMMA BecomesType ==
  ASSUME slot \in Slots, NEW st \in States, NEW o \in Becomes(st)
  PROVE  /\ o.slot.state = st /\ o.slot.rca = slot.rca /\ o.slot.width = slot.width
         /\ o.slot.card = slot.card /\ o.r = ""
<1>1. PICK t : t = [slot EXCEPT !.state = st] /\ o \in Says(t, "")
  BY DEF Becomes
<1>2. SameCard(slot, t) /\ t.state = st /\ t.rca = slot.rca /\ t.width = slot.width
  BY <1>1, StateSet
<1>3. Steady(t, o.slot) /\ o.r = ""
  BY <1>1, <1>2, SaysType DEF SameCard
<1> QED
  BY <1>2, <1>3 DEF Steady, SameCard

(* There is an answer. *)
LEMMA BecomesOne == ASSUME NEW st PROVE Becomes(st) # {}
  BY SaysOne DEF Becomes

(* Finding the card. *)
LEMMA StepGoIdle ==
  ASSUME CauseInv, GoIdle, Untroubled'
  PROVE  InStep'
<1>1. PICK o \in Outcomes("GO_IDLE_STATE", 0) : Comes(o)
  BY DEF GoIdle
<1>2. pc = "go_idle" /\ pc' = "if_cond" /\ mmc' = mmc /\ job' = job
  BY DEF GoIdle
<1>3. /\ InStep /\ slot' = o.slot /\ slot \in Slots /\ slot.card \in Cards /\ slot.state # "none"
      /\ slot'.card = slot.card
      /\ Answers("GO_IDLE_STATE", 0) # {} => o \in Answers("GO_IDLE_STATE", 0)
  BY <1>1, QuietSlot DEF Commands
<1>4. slot.state \in States \ {"none"}
  BY <1>3 DEF Slots, States
<1>5. PICK t : t = Inserted(slot.card) /\ o \in Says(t, "")
  BY <1>3, <1>4, ToGoIdle, SaysOne
<1>6. slot.card # Empty
  BY <1>3 DEF CauseInv, ExactInv, SdTypeOK
<1>7. t \in Slots /\ t.state = "idle" /\ t.rca = 0 /\ t.width = 1
  BY <1>3, <1>5, <1>6, InsertedType DEF CardsOrNone
<1>8. slot'.state = "idle" /\ slot'.rca = 0 /\ slot'.width = 1
  <2>1. Steady(t, o.slot) /\ slot' = o.slot
    BY <1>3, <1>5, <1>7, SaysType
  <2> QED
    BY <1>7, <2>1 DEF Steady
<1>9. mmc.bus_width = 1 /\ job.timeout >= 0
  BY <1>2, <1>3 DEF InStep, Finding
<1> QED
  BY <1>2, <1>8, <1>9 DEF InStep, Fresh, Finding, Transferring

LEMMA StepIfCond ==
  ASSUME CauseInv, SendIfCond, Untroubled'
  PROVE  InStep'
<1>1. PICK o \in Outcomes("SEND_IF_COND", 0) :
         Comes(o) /\ mmc' = IF o.r = "0xaa" THEN [mmc EXCEPT !.version = "2"] ELSE mmc
  BY DEF SendIfCond
<1>2. pc = "if_cond" /\ pc' = "op_app" /\ job' = job
  BY DEF SendIfCond
<1>3. /\ InStep /\ slot' = o.slot /\ slot \in Slots /\ slot.card \in Cards /\ mmc \in Mmcs
      /\ slot'.card = slot.card
      /\ Answers("SEND_IF_COND", 0) # {} => o \in Answers("SEND_IF_COND", 0)
      /\ Answers("SEND_IF_COND", 0) = {} => Steady(slot, o.slot)
  BY <1>1, QuietSlot DEF Commands
<1>4. slot.state = "idle" /\ slot.rca = 0 /\ slot.width = 1 /\ mmc.bus_width = 1 /\ job.timeout >= 0
  BY <1>2, <1>3 DEF InStep, Fresh, Finding
<1>5. Steady(slot, o.slot) /\ (slot.card.scr = "2" => o.r = "0xaa")
  <2>1. CASE slot.card.scr = "2"
    <3>1. o \in Says(slot, "0xaa")
      BY <1>3, <1>4, <2>1, ToIfCond, SaysOne
    <3> QED
      BY <1>3, <3>1, SaysType
  <2>2. CASE slot.card.scr # "2"
    <3>1. Answers("SEND_IF_COND", 0) = {}
      BY <2>2 DEF Answers, Identified, Selected
    <3> QED
      BY <1>3, <2>2, <3>1
  <2> QED
    BY <2>1, <2>2
<1>6. mmc'.bus_width = 1 /\ (slot.card.scr = "2" => mmc'.version = "2")
  BY <1>1, <1>3, <1>4, <1>5, MmcVersion
<1>7. slot'.state = "idle" /\ slot'.rca = 0 /\ slot'.width = 1
  BY <1>3, <1>4, <1>5 DEF Steady, SameCard
<1> QED
  BY <1>2, <1>3, <1>4, <1>6, <1>7 DEF InStep, Fresh, Finding, Transferring

(* APP_CMD is answered, and the next command is an application command. *)
LEMMA AppGiven ==
  ASSUME CauseInv, NEW arg, NEW o \in Outcomes("APP_CMD", arg), Comes(o), Untroubled',
         slot.state \in {"idle", "stby", "tran"}, arg = slot.rca
  PROVE  slot'.app /\ Steady(slot, slot') /\ o.r = "" /\ InStep
<1>1. /\ InStep /\ slot' = o.slot /\ slot \in Slots /\ Untroubled
      /\ Answers("APP_CMD", arg) # {} => o \in Answers("APP_CMD", arg)
  BY QuietSlot DEF Commands
<1>2. ~ slot.card.mmc
  BY <1>1 DEF Untroubled
<1>3. Answers("APP_CMD", arg) = {[slot |-> [slot EXCEPT !.app = TRUE], r |-> "", lost |-> FALSE]}
  BY <1>2, ToAppCmd
<1>4. o = [slot |-> [slot EXCEPT !.app = TRUE], r |-> "", lost |-> FALSE]
  BY <1>1, <1>3
<1>5. slot' = [slot EXCEPT !.app = TRUE] /\ o.r = ""
  BY <1>1, <1>4
<1>6. slot'.app
  BY <1>1, <1>5 DEF Slots
<1> QED
  BY <1>1, <1>5, <1>6, AppSet

LEMMA StepOpApp ==
  ASSUME CauseInv, OpApp, Untroubled'
  PROVE  InStep'
<1>1. PICK o \in Outcomes("APP_CMD", 0) : Comes(o) /\ pc' = IF o.r = "error" THEN "cid" ELSE "op_cond"
  BY DEF OpApp
<1>2. pc = "op_app" /\ mmc' = mmc /\ job' = job
  BY DEF OpApp
<1>3. InStep
  BY <1>1, QuietSlot DEF Commands
<1>4. /\ slot.state = "idle" /\ slot.rca = 0 /\ slot.width = 1 /\ mmc.bus_width = 1 /\ job.timeout >= 0
      /\ slot.card.scr = "2" => mmc.version = "2"
  BY <1>2, <1>3 DEF InStep, Fresh, Finding
<1>5. slot'.app /\ Steady(slot, slot') /\ o.r = ""
  BY <1>1, <1>4, AppGiven
<1>6. slot'.state = "idle" /\ slot'.rca = 0 /\ slot'.width = 1 /\ slot'.card = slot.card
  BY <1>4, <1>5 DEF Steady, SameCard
<1>7. pc' = "op_cond"
  BY <1>1, <1>5
<1> QED
  BY <1>2, <1>4, <1>5, <1>6, <1>7 DEF InStep, Fresh, Finding, Transferring

LEMMA StepOpCond ==
  ASSUME CauseInv, OpCond, Untroubled'
  PROVE  InStep'
<1> DEFINE arg == IF mmc.version = "2" THEN "HCS" ELSE ""
<1>1. PICK o \in Outcomes("APP_SEND_OP_COND", arg) :
       /\ Comes(o)
       /\ told' = IF o.r = "done" /\ job.timeout > 0 THEN "present" ELSE "none"
       /\ mmc' = IF told' = "none" THEN mmc
                 ELSE [mmc EXCEPT !.version = IF @ = "2" THEN "2" ELSE "1.0", !.rca = 0,
                                  !.high_capacity = slot.card.hc]
       /\ job' = IF o.r = "busy" THEN [job EXCEPT !.timeout = @ - 1] ELSE job
       /\ pc' = IF o.r = "busy" /\ job.timeout > 0 THEN "op_app" ELSE "cid"
  BY DEF OpCond
<1>2. pc = "op_cond"
  BY DEF OpCond
<1> HIDE DEF arg
<1>3. /\ InStep /\ slot' = o.slot /\ slot \in Slots /\ slot.card \in Cards /\ mmc \in Mmcs /\ job \in Jobs
      /\ slot'.card = slot.card /\ job.timeout # 0
      /\ Answers("APP_SEND_OP_COND", arg) # {} => o \in Answers("APP_SEND_OP_COND", arg)
  BY <1>1, <1>2, QuietSlot DEF Commands, Finding
<1>4. /\ slot.state = "idle" /\ slot.rca = 0 /\ slot.width = 1 /\ mmc.bus_width = 1 /\ job.timeout >= 0
      /\ slot.card.scr = "2" => mmc.version = "2"
  BY <1>2, <1>3 DEF InStep, Fresh, Finding
<1>5. slot.app
  BY <1>2, <1>3 DEF InStep
<1>6. job.timeout \in Int /\ job.timeout > 0
  BY <1>3, <1>4 DEF Jobs
<1>7. \/ o \in Says([slot EXCEPT !.state = "ready"], "done")
      \/ o \in Says([slot EXCEPT !.polls = IF @ = 0 THEN 0 ELSE @ - 1], "busy")
  <2>1. \/ Answers("APP_SEND_OP_COND", arg) = Says([slot EXCEPT !.state = "ready"], "done")
        \/ Answers("APP_SEND_OP_COND", arg) = Says([slot EXCEPT !.polls = IF @ = 0 THEN 0 ELSE @ - 1], "busy")
    BY <1>4, <1>5 DEF Answers, Identified, Selected, In
  <2> QED
    BY <1>3, <2>1, SaysOne
<1>8. CASE o \in Says([slot EXCEPT !.state = "ready"], "done")
  <2>1. PICK t : t = [slot EXCEPT !.state = "ready"] /\ o \in Says(t, "done")
    BY <1>8
  <2>2. t \in Slots /\ t.state = "ready" /\ t.rca = slot.rca /\ t.width = slot.width
    BY <1>3, <2>1, StateSet DEF States, SameCard
  <2>3. slot'.state = "ready" /\ slot'.width = 1 /\ o.r = "done"
    <3>1. Steady(t, o.slot) /\ slot' = o.slot /\ o.r = "done"
      BY <1>3, <2>1, <2>2, SaysType
    <3> QED
      BY <1>4, <2>2, <3>1 DEF Steady
  <2>4. mmc' = [mmc EXCEPT !.version = IF @ = "2" THEN "2" ELSE "1.0", !.rca = 0, !.high_capacity = slot.card.hc]
    BY <1>1, <1>6, <2>3
  <2>5. pc' = "cid"
    BY <1>1, <2>3
  <2>6. mmc'.version \in {"1.0", "2"} /\ mmc'.bus_width = 1
    BY <1>3, <1>4, <2>4 DEF Mmcs
  <2>7. mmc'.high_capacity = slot.card.hc
    BY <1>3, <2>4, Zenon DEF Mmcs
  <2>8. mmc'.high_capacity = slot'.card.hc
    BY <1>3, <2>7
  <2> QED
    BY <2>3, <2>5, <2>6, <2>8 DEF InStep, Fresh, IS_SD, Finding, Transferring
<1>9. CASE o \in Says([slot EXCEPT !.polls = IF @ = 0 THEN 0 ELSE @ - 1], "busy")
  <2>1. PICK t : t = [slot EXCEPT !.polls = IF @ = 0 THEN 0 ELSE @ - 1] /\ o \in Says(t, "busy")
    BY <1>9
  <2>2. t \in Slots /\ t.state = "idle" /\ t.rca = 0 /\ t.width = 1
    BY <1>3, <1>4, <2>1, PollsSet DEF Steady, SameCard
  <2>3. slot'.state = "idle" /\ slot'.width = 1 /\ slot'.rca = 0 /\ o.r = "busy"
    <3>1. Steady(t, o.slot) /\ slot' = o.slot /\ o.r = "busy"
      BY <1>3, <2>1, <2>2, SaysType
    <3> QED
      BY <2>2, <3>1 DEF Steady
  <2>4. mmc' = mmc /\ pc' = "op_app" /\ job' = [job EXCEPT !.timeout = @ - 1]
    BY <1>1, <1>6, <2>3
  <2>5. job'.timeout >= 0
    BY <1>3, <1>6, <2>4, JobTick
  <2> QED
    BY <1>3, <1>4, <2>3, <2>4, <2>5 DEF InStep, Fresh, Finding, Transferring
<1> QED
  BY <1>7, <1>8, <1>9

(* Starting it up. *)
LEMMA StepSendCid ==
  ASSUME CauseInv, SendCid, Untroubled'
  PROVE  InStep'
<1>1. PICK o \in Outcomes("ALL_SEND_CID", 0) : Comes(o) /\ IF o.r = "error" THEN Fail ELSE pc' = "rca" /\ mmc' = mmc
  BY DEF SendCid
<1>2. pc = "cid" /\ job' = job
  BY DEF SendCid
<1>3. /\ InStep /\ slot' = o.slot /\ slot \in Slots
      /\ Answers("ALL_SEND_CID", 0) # {} => o \in Answers("ALL_SEND_CID", 0)
  BY <1>1, QuietSlot DEF Commands
<1>4. slot.state = "ready" /\ IS_SD(mmc) /\ mmc.high_capacity = slot.card.hc /\ Fresh
  BY <1>2, <1>3 DEF InStep
<1>5. o \in Becomes("ident")
  BY <1>3, <1>4, ToCommand, BecomesOne
<1>6. slot'.state = "ident" /\ slot'.width = slot.width /\ slot'.card = slot.card /\ o.r = ""
  BY <1>3, <1>5, BecomesType DEF States
<1>7. pc' = "rca" /\ mmc' = mmc
  BY <1>1, <1>6
<1>8. IS_SD(mmc') /\ mmc'.high_capacity = slot'.card.hc /\ Fresh'
  BY <1>4, <1>6, <1>7 DEF Fresh
<1> QED
  BY <1>6, <1>7, <1>8 DEF InStep, Finding, Transferring, IS_SD

LEMMA StepRelativeAddr ==
  ASSUME CauseInv, RelativeAddr, Untroubled'
  PROVE  InStep'
<1>1. PICK o \in Outcomes("SEND_RELATIVE_ADDR", 0) :
        /\ Comes(o)
        /\ IF o.r = "error" THEN Fail
           ELSE pc' = "csd" /\ mmc' = IF IS_SD(mmc) THEN [mmc EXCEPT !.rca = o.slot.rca] ELSE mmc
  BY DEF RelativeAddr
<1>2. pc = "rca" /\ job' = job
  BY DEF RelativeAddr
<1>3. /\ InStep /\ slot' = o.slot /\ slot \in Slots /\ mmc \in Mmcs
      /\ Answers("SEND_RELATIVE_ADDR", 0) # {} => o \in Answers("SEND_RELATIVE_ADDR", 0)
  BY <1>1, QuietSlot DEF Commands
<1>4. slot.state = "ident" /\ IS_SD(mmc) /\ mmc.high_capacity = slot.card.hc /\ Fresh
  BY <1>2, <1>3 DEF InStep
<1>5. PICK a, t : a \in {1, 2} /\ t = [slot EXCEPT !.state = "stby", !.rca = a] /\ o \in Says(t, "")
  <2>1. Answers("SEND_RELATIVE_ADDR", 0) = UNION {Says([slot EXCEPT !.state = "stby", !.rca = a], "") : a \in {1, 2}}
    BY <1>4, ToCommand
  <2>2. UNION {Says([slot EXCEPT !.state = "stby", !.rca = a], "") : a \in {1, 2}} # {}
    <3>1. PICK t : t = [slot EXCEPT !.state = "stby", !.rca = 1]
      OBVIOUS
    <3>2. PICK x : x \in Says(t, "")
      BY SaysOne
    <3>3. x \in UNION {Says([slot EXCEPT !.state = "stby", !.rca = a], "") : a \in {1, 2}}
      BY <3>1, <3>2
    <3> QED
      BY <3>3
  <2>3. o \in UNION {Says([slot EXCEPT !.state = "stby", !.rca = a], "") : a \in {1, 2}}
    BY <1>3, <2>1, <2>2
  <2> QED
    BY <2>3
<1>6. SameCard(slot, t) /\ t.state = "stby" /\ t.rca = a /\ t.width = slot.width
  BY <1>3, <1>5, AddressSet
<1>7. Steady(t, o.slot) /\ o.r = ""
  BY <1>5, <1>6, SaysType DEF SameCard
<1>8. slot'.state = "stby" /\ slot'.rca = a /\ slot'.width = slot.width /\ slot'.card = slot.card
  BY <1>3, <1>6, <1>7 DEF Steady, SameCard
<1>9. pc' = "csd" /\ mmc' = [mmc EXCEPT !.rca = a]
  BY <1>1, <1>3, <1>4, <1>7, <1>8
<1>10. mmc'.rca = a /\ mmc'.high_capacity = mmc.high_capacity /\ mmc'.bus_width = mmc.bus_width
  BY <1>3, <1>9, MmcAddress
<1>11. Known' /\ Fresh'
  BY <1>4, <1>8, <1>10 DEF Known, Fresh
<1> QED
  BY <1>8, <1>9, <1>11 DEF InStep, Finding, Transferring

LEMMA StepCardData ==
  ASSUME CauseInv, CardData, Untroubled'
  PROVE  InStep'
<1>1. PICK o \in Outcomes("SEND_CSD", mmc.rca) :
        /\ Comes(o)
        /\ job' = [Polling(job) EXCEPT !.err = o.r = "error"]
        /\ IF o.r = "error" THEN mmc' = mmc
           ELSE \E n \in IF mmc.high_capacity = slot.card.hc THEN {slot.card.blocks} ELSE 0 .. 1 :
                  mmc' = [mmc EXCEPT !.capacity = n]
  BY DEF CardData
<1>2. pc = "csd" /\ pc' = "csd_status"
  BY DEF CardData
<1>3. /\ InStep /\ slot' = o.slot /\ slot \in Slots /\ slot.card \in Cards /\ mmc \in Mmcs /\ job \in Jobs
      /\ Answers("SEND_CSD", mmc.rca) # {} => o \in Answers("SEND_CSD", mmc.rca)
  BY <1>1, QuietSlot DEF Commands
<1>4. slot.state = "stby" /\ Known /\ Fresh
  BY <1>2, <1>3 DEF InStep
<1>5. slot.rca = mmc.rca /\ mmc.high_capacity = slot.card.hc
  BY <1>4 DEF Known
<1>6. o \in Becomes("stby")
  BY <1>3, <1>4, <1>5, ToCommand, BecomesOne
<1>7. slot'.state = "stby" /\ slot'.width = slot.width /\ slot'.rca = slot.rca /\ slot'.card = slot.card /\ o.r = ""
  BY <1>3, <1>6, BecomesType DEF States
<1>8. mmc' = [mmc EXCEPT !.capacity = slot.card.blocks]
  BY <1>1, <1>5, <1>7
<1>9. slot.card.blocks \in Nat
  BY <1>3, HasCapacity DEF CardsOrNone
<1>10. /\ mmc'.capacity = slot.card.blocks /\ mmc'.high_capacity = mmc.high_capacity
       /\ mmc'.rca = mmc.rca /\ mmc'.bus_width = mmc.bus_width
  BY <1>3, <1>8, <1>9, MmcCapacity
<1>11. Sized' /\ Fresh'
  BY <1>4, <1>5, <1>7, <1>10 DEF Sized, Known, Fresh
<1>12. ~ job'.err
  <2>1. Polling(job) \in Jobs
    BY <1>3, JobPolling DEF SameJob
  <2>2. job' = [Polling(job) EXCEPT !.err = FALSE]
    BY <1>1, <1>7
  <2> QED
    BY <2>1, <2>2 DEF Jobs
<1> QED
  BY <1>2, <1>7, <1>11, <1>12 DEF InStep, Finding, Transferring

LEMMA StepCsdStatus ==
  ASSUME CauseInv, CsdStatus, Untroubled'
  PROVE  InStep'
<1>1. PICK o \in Outcomes("SEND_STATUS", mmc.rca) :
        /\ Comes(o)
        /\ IF ~ LastPoll(o.r) THEN Polled(o.r) /\ UNCHANGED <<pc, mmc>>
           ELSE job' = job /\ IF job.err THEN Fail ELSE pc' = "select" /\ mmc' = mmc
  BY DEF CsdStatus
<1>2. pc = "csd_status"
  BY DEF CsdStatus
<1>3. /\ InStep /\ slot' = o.slot /\ slot \in Slots
      /\ Answers("SEND_STATUS", mmc.rca) # {} => o \in Answers("SEND_STATUS", mmc.rca)
  BY <1>1, QuietSlot DEF Commands
<1>4. slot.state = "stby" /\ Sized /\ Fresh /\ ~ job.err
  BY <1>2, <1>3 DEF InStep
<1>5. slot.rca = mmc.rca
  BY <1>4 DEF Sized, Known
<1>6. o \in Says(slot, "ready")
  BY <1>3, <1>4, <1>5, ToCommand, SaysOne
<1>7. Steady(slot, slot') /\ o.r = "ready"
  BY <1>3, <1>6, SaysType
<1>8. pc' = "select" /\ mmc' = mmc
  BY <1>1, <1>4, <1>7 DEF LastPoll
<1>9. slot'.state = "stby" /\ Sized' /\ Fresh'
  BY <1>4, <1>7, <1>8 DEF Sized, Known, Fresh, Steady, SameCard
<1> QED
  BY <1>8, <1>9 DEF InStep, Finding, Transferring

LEMMA StepSelect ==
  ASSUME CauseInv, SelectCard, Untroubled'
  PROVE  InStep'
<1>1. PICK o \in Outcomes("SELECT_CARD", mmc.rca) :
        Comes(o) /\ IF o.r = "error" THEN Fail ELSE pc' = "scr_app" /\ mmc' = mmc
  BY DEF SelectCard, Startup
<1>2. pc = "select"
  BY DEF SelectCard, Startup
<1>3. /\ InStep /\ slot' = o.slot /\ slot \in Slots
      /\ Answers("SELECT_CARD", mmc.rca) # {} => o \in Answers("SELECT_CARD", mmc.rca)
  BY <1>1, QuietSlot DEF Commands
<1>4. slot.state = "stby" /\ Sized /\ Fresh
  BY <1>2, <1>3 DEF InStep
<1>5. slot.rca = mmc.rca
  BY <1>4 DEF Sized, Known
<1>6. o \in Becomes("tran")
  BY <1>3, <1>4, <1>5, ToCommand, BecomesOne
<1>7. slot'.state = "tran" /\ slot'.width = slot.width /\ slot'.rca = slot.rca /\ slot'.card = slot.card /\ o.r = ""
  BY <1>3, <1>6, BecomesType DEF States
<1>8. pc' = "scr_app" /\ mmc' = mmc
  BY <1>1, <1>7
<1>9. Sized' /\ Fresh'
  BY <1>4, <1>7, <1>8 DEF Sized, Known, Fresh
<1> QED
  BY <1>7, <1>8, <1>9 DEF InStep, Finding, Transferring

LEMMA StepScrApp ==
  ASSUME CauseInv, ScrApp, Untroubled'
  PROVE  InStep'
<1>1. PICK o \in Outcomes("APP_CMD", mmc.rca) :
        Comes(o) /\ IF o.r = "error" THEN Fail ELSE pc' = "scr" /\ mmc' = mmc
  BY DEF ScrApp, Startup
<1>2. pc = "scr_app"
  BY DEF ScrApp, Startup
<1>3. InStep
  BY <1>1, QuietSlot DEF Commands
<1>4. slot.state = "tran" /\ Sized /\ Fresh /\ mmc.rca = slot.rca
  BY <1>2, <1>3 DEF InStep, Sized, Known
<1>5. slot'.app /\ Steady(slot, slot') /\ o.r = ""
  BY <1>1, <1>4, AppGiven
<1>6. pc' = "scr" /\ mmc' = mmc
  BY <1>1, <1>5
<1>7. slot'.state = "tran" /\ Sized' /\ Fresh'
  BY <1>4, <1>5, <1>6 DEF Sized, Known, Fresh, Steady, SameCard
<1> QED
  BY <1>5, <1>6, <1>7 DEF InStep, Finding, Transferring

(* The end of startup, or its last part. *)
LEMMA StepWidthFor ==
  ASSUME NEW m \in Mmcs, WidthFor(m), slot'.state = "tran", slot'.card = slot.card, slot'.rca = slot.rca,
         slot'.width = slot.width, Sized, Fresh,
         m.rca = mmc.rca, m.high_capacity = mmc.high_capacity, m.capacity = mmc.capacity, m.bus_width = mmc.bus_width,
         "4BIT" \in m.card_caps <=> slot'.card.wide
  PROVE  InStep'
<1>1. /\ mmc' \in Mmcs /\ mmc'.high_capacity = m.high_capacity /\ mmc'.capacity = m.capacity /\ mmc'.rca = m.rca
      /\ mmc'.bus_width = m.bus_width /\ pc' \in {"width_app", "ok"}
  BY WidthForType
<1>2. Sized' /\ Fresh' /\ DataPath'
  BY <1>1 DEF Sized, Known, Fresh, DataPath
<1>3. CASE pc' = "ok"
  BY <1>2, <1>3 DEF InStep, Finding, Transferring
<1>4. CASE pc' = "width_app"
  <2>1. mmc' = m /\ "4BIT" \in m.card_caps
    BY <1>4 DEF WidthFor, Started
  <2>2. slot'.card.wide /\ "4BIT" \in mmc'.card_caps
    BY <2>1
  <2> QED
    BY <1>2, <1>4, <2>2 DEF InStep, Finding, Transferring
<1> QED
  BY <1>1, <1>3, <1>4

LEMMA StepSendScr ==
  ASSUME CauseInv, SendScr, Untroubled'
  PROVE  InStep'
<1>1. PICK o \in Outcomes("APP_SEND_SCR", 0) :
       /\ Comes(o)
       /\ LET m == [mmc EXCEPT !.version = o.r, !.card_caps = IF slot.card.wide THEN {"4BIT"} ELSE {}]
          IN  IF o.r = "error"
              THEN /\ job' = [job EXCEPT !.timeout = @ - 1]
                   /\ IF job.timeout = 0 THEN Fail ELSE UNCHANGED <<pc, mmc>>
              ELSE /\ job' = [job EXCEPT !.timeout = 3]
                   /\ IF o.r = "1.0" THEN WidthFor(m) ELSE pc' = "switch_check" /\ mmc' = m
  BY DEF SendScr
<1>2. pc = "scr"
  BY DEF SendScr
<1>3. /\ InStep /\ slot' = o.slot /\ slot \in Slots /\ mmc \in Mmcs /\ SdTypeOK
      /\ Answers("APP_SEND_SCR", 0) # {} => o \in Answers("APP_SEND_SCR", 0)
  BY <1>1, QuietSlot DEF Commands, CauseInv, ExactInv
<1>4. slot.state = "tran" /\ Sized /\ Fresh /\ DataPath
  BY <1>2, <1>3 DEF InStep, Fresh, DataPath
<1>5. slot.app
  BY <1>2, <1>3 DEF InStep
<1>6. o \in Answers("APP_SEND_SCR", 0)
  BY <1>3, <1>4, <1>5, ToScr, SaysOne
<1>7. o \in Says(slot, slot.card.scr) /\ o.r = slot.card.scr /\ o.r \in {"1.0", "1.10", "2"}
  BY <1>3, <1>6, Scr
<1>8. Steady(slot, slot')
  BY <1>3, <1>7, SaysType
<1>9. PICK c \in Caps : c = IF slot.card.wide THEN {"4BIT"} ELSE {}
  BY DEF Caps
<1>10. PICK m : m = [mmc EXCEPT !.version = o.r, !.card_caps = c]
  OBVIOUS
<1>11. /\ m \in Mmcs /\ m.high_capacity = mmc.high_capacity /\ m.rca = mmc.rca /\ m.capacity = mmc.capacity
       /\ m.bus_width = mmc.bus_width /\ m.card_caps = c
  <2>1. PICK u : u = [mmc EXCEPT !.version = o.r]
    OBVIOUS
  <2>2. m = [u EXCEPT !.card_caps = c]
    BY <1>3, <1>10, <2>1 DEF Mmcs
  <2>3. /\ u \in Mmcs /\ u.high_capacity = mmc.high_capacity /\ u.rca = mmc.rca /\ u.capacity = mmc.capacity
        /\ u.bus_width = mmc.bus_width
    BY <1>3, <1>7, <2>1, MmcVersion
  <2>4. /\ m \in Mmcs /\ m.high_capacity = u.high_capacity /\ m.rca = u.rca /\ m.capacity = u.capacity
        /\ m.bus_width = u.bus_width /\ m.card_caps = c
    BY <2>2, <2>3, MmcCaps
  <2> QED
    BY <2>3, <2>4
<1>12. slot'.state = "tran" /\ slot'.card = slot.card /\ slot'.rca = slot.rca /\ slot'.width = slot.width
  BY <1>4, <1>8 DEF Steady, SameCard
<1>13. "4BIT" \in m.card_caps <=> slot'.card.wide
  BY <1>9, <1>11, <1>12
<1>14. CASE o.r = "1.0"
  <2>1. WidthFor(m)
    BY <1>1, <1>9, <1>10, <1>14
  <2> QED
    BY <1>4, <1>11, <1>12, <1>13, <2>1, StepWidthFor
<1>15. CASE o.r # "1.0"
  <2>1. pc' = "switch_check" /\ mmc' = m
    BY <1>1, <1>7, <1>9, <1>10, <1>15
  <2>2. Sized' /\ Fresh'
    BY <1>4, <1>11, <1>12, <2>1 DEF Sized, Known, Fresh
  <2>3. slot'.card.scr # "1.0"
    BY <1>7, <1>12, <1>15
  <2>4. "4BIT" \in mmc'.card_caps <=> slot'.card.wide
    BY <1>13, <2>1
  <2> QED
    BY <1>12, <2>1, <2>2, <2>3, <2>4 DEF InStep, Finding, Transferring
<1> QED
  BY <1>14, <1>15

(* SWITCH_FUNC is answered, though the function may be busy. *)
LEMMA SwitchAnswer ==
  ASSUME CauseInv, pc \in {"switch_check", "switch"}, NEW arg, NEW o \in Outcomes("SWITCH_FUNC", arg), Comes(o), Untroubled'
  PROVE  /\ InStep /\ mmc \in Mmcs /\ Sized /\ Fresh /\ o.r \in {"", "high-speed busy"}
         /\ slot'.state = "tran" /\ slot'.card = slot.card /\ slot'.rca = slot.rca /\ slot'.width = slot.width
         /\ slot'.card.scr # "1.0"
<1>1. /\ InStep /\ slot' = o.slot /\ slot \in Slots /\ mmc \in Mmcs
      /\ Answers("SWITCH_FUNC", arg) # {} => o \in Answers("SWITCH_FUNC", arg)
  BY QuietSlot DEF Commands
<1>2. slot.state = "tran" /\ Sized /\ Fresh /\ DataPath /\ slot.card.scr # "1.0"
  BY <1>1 DEF InStep, Fresh, DataPath
<1>3. \E r \in {"", "high-speed busy"} : o \in Says(slot, r)
  <2>1. Answers("SWITCH_FUNC", arg) = Says(slot, "") \cup Says(slot, "high-speed busy")
    BY <1>2, ToSwitch
  <2>2. Says(slot, "") # {}
    BY SaysOne
  <2> QED
    BY <1>1, <2>1, <2>2
<1>4. Steady(slot, slot') /\ o.r \in {"", "high-speed busy"}
  BY <1>1, <1>3, SaysType
<1> QED
  BY <1>1, <1>2, <1>4 DEF Steady, SameCard

LEMMA StepSwitchCheck ==
  ASSUME CauseInv, SwitchCheck, Untroubled'
  PROVE  InStep'
<1>1. PICK o \in Outcomes("SWITCH_FUNC", "check") :
       /\ Comes(o)
       /\ IF o.r = "error" THEN Fail
          ELSE IF o.r = "high-speed busy" /\ job.timeout > 0 THEN UNCHANGED <<pc, mmc>>
          ELSE IF slot.card.hs THEN pc' = "switch" /\ mmc' = mmc
          ELSE WidthFor(mmc)
  BY DEF SwitchCheck
<1>2. pc = "switch_check"
  BY DEF SwitchCheck
<1>3. /\ InStep /\ mmc \in Mmcs /\ Sized /\ Fresh /\ o.r \in {"", "high-speed busy"}
      /\ slot'.state = "tran" /\ slot'.card = slot.card /\ slot'.rca = slot.rca /\ slot'.width = slot.width
      /\ slot'.card.scr # "1.0"
  BY <1>1, <1>2, SwitchAnswer
<1>4. "4BIT" \in mmc.card_caps <=> slot'.card.wide
  BY <1>2, <1>3 DEF InStep
<1>5. (pc' \in {"switch_check", "switch"} /\ mmc' = mmc) \/ WidthFor(mmc)
  BY <1>1, <1>2, <1>3
<1>6. CASE WidthFor(mmc)
  BY <1>3, <1>4, <1>6, StepWidthFor
<1>7. CASE pc' \in {"switch_check", "switch"} /\ mmc' = mmc
  <2>1. Sized' /\ Fresh'
    BY <1>3, <1>7 DEF Sized, Known, Fresh
  <2>2. "4BIT" \in mmc'.card_caps <=> slot'.card.wide
    BY <1>4, <1>7
  <2> QED
    BY <1>3, <1>7, <2>1, <2>2 DEF InStep, Finding, Transferring
<1> QED
  BY <1>5, <1>6, <1>7

LEMMA StepSwitch ==
  ASSUME CauseInv, Switch, Untroubled'
  PROVE  InStep'
<1>1. PICK o \in Outcomes("SWITCH_FUNC", "switch") :
       /\ Comes(o)
       /\ IF o.r = "error" THEN Fail
          ELSE WidthFor(IF o.r = "" THEN [mmc EXCEPT !.card_caps = @ \cup {"HS"}] ELSE mmc)
  BY DEF Switch
<1>2. pc = "switch"
  BY DEF Switch
<1>3. /\ InStep /\ mmc \in Mmcs /\ Sized /\ Fresh /\ o.r \in {"", "high-speed busy"}
      /\ slot'.state = "tran" /\ slot'.card = slot.card /\ slot'.rca = slot.rca /\ slot'.width = slot.width
  BY <1>1, <1>2, SwitchAnswer
<1>4. "4BIT" \in mmc.card_caps <=> slot'.card.wide
  BY <1>2, <1>3 DEF InStep
<1>5. PICK c \in Caps : c = mmc.card_caps \cup {"HS"}
  BY <1>3 DEF Mmcs, Caps
<1>6. PICK m : m = [mmc EXCEPT !.card_caps = c]
  OBVIOUS
<1>7. m = [mmc EXCEPT !.card_caps = @ \cup {"HS"}]
  BY <1>3, <1>5, <1>6 DEF Mmcs
<1>8. WidthFor(m) \/ WidthFor(mmc)
  BY <1>1, <1>3, <1>7
<1>9. /\ m \in Mmcs /\ m.high_capacity = mmc.high_capacity /\ m.rca = mmc.rca /\ m.capacity = mmc.capacity
      /\ m.bus_width = mmc.bus_width /\ m.card_caps = c
  <2>1. mmc \in Mmcs
    BY <1>3
  <2> QED
    BY <1>6, <2>1, MmcCaps
<1>10. "4BIT" \in m.card_caps <=> slot'.card.wide
  BY <1>4, <1>5, <1>9
<1>11. CASE WidthFor(m)
  BY <1>3, <1>9, <1>10, <1>11, StepWidthFor
<1>12. CASE WidthFor(mmc)
  BY <1>3, <1>4, <1>12, StepWidthFor
<1> QED
  BY <1>8, <1>11, <1>12

LEMMA StepWidthApp ==
  ASSUME CauseInv, WidthApp, Untroubled'
  PROVE  InStep'
<1>1. PICK o \in Outcomes("APP_CMD", mmc.rca) :
        Comes(o) /\ IF o.r = "error" THEN Fail ELSE pc' = "width" /\ mmc' = mmc
  BY DEF WidthApp, Startup
<1>2. pc = "width_app"
  BY DEF WidthApp, Startup
<1>3. InStep
  BY <1>1, QuietSlot DEF Commands
<1>4. slot.state = "tran" /\ Sized /\ Fresh /\ mmc.rca = slot.rca
  BY <1>2, <1>3 DEF InStep, Sized, Known
<1>5. slot.card.wide /\ "4BIT" \in mmc.card_caps
  BY <1>2, <1>3 DEF InStep
<1>6. slot'.app /\ Steady(slot, slot') /\ o.r = ""
  BY <1>1, <1>4, AppGiven
<1>7. pc' = "width" /\ mmc' = mmc
  BY <1>1, <1>6
<1>8. slot'.state = "tran" /\ slot'.card = slot.card /\ Sized' /\ Fresh'
  BY <1>4, <1>6, <1>7 DEF Sized, Known, Fresh, Steady, SameCard
<1>9. slot'.card.wide /\ "4BIT" \in mmc'.card_caps
  BY <1>5, <1>7, <1>8
<1> QED
  BY <1>6, <1>7, <1>8, <1>9 DEF InStep, Finding, Transferring

LEMMA StepSetBusWidth ==
  ASSUME CauseInv, SetBusWidth, Untroubled'
  PROVE  InStep'
<1>1. PICK o \in Outcomes("APP_SET_BUS_WIDTH", 2) :
        Comes(o) /\ IF o.r = "error" THEN Fail ELSE Started([mmc EXCEPT !.bus_width = 4])
  BY DEF SetBusWidth
<1>2. pc = "width"
  BY DEF SetBusWidth
<1>3. /\ InStep /\ slot' = o.slot /\ slot \in Slots /\ mmc \in Mmcs
      /\ Answers("APP_SET_BUS_WIDTH", 2) # {} => o \in Answers("APP_SET_BUS_WIDTH", 2)
  BY <1>1, QuietSlot DEF Commands
<1>4. slot.state = "tran" /\ Sized
  BY <1>2, <1>3 DEF InStep
<1>5. slot.app /\ slot.card.wide
  BY <1>2, <1>3 DEF InStep
<1>6. PICK t : t = [slot EXCEPT !.width = 4] /\ o \in Says(t, "")
  BY <1>3, <1>4, <1>5, ToBusWidth, SaysOne
<1>7. SameCard(slot, t) /\ t.state = slot.state /\ t.rca = slot.rca /\ t.width = 4
  BY <1>3, <1>6, WidthSet
<1>8. Steady(t, o.slot) /\ o.r = ""
  BY <1>6, <1>7, SaysType DEF SameCard
<1>9. slot'.state = "tran" /\ slot'.rca = slot.rca /\ slot'.width = 4 /\ slot'.card = slot.card
  BY <1>3, <1>4, <1>7, <1>8 DEF Steady, SameCard
<1>10. PICK m : m = [mmc EXCEPT !.bus_width = 4]
  OBVIOUS
<1>11. /\ m \in Mmcs /\ m.high_capacity = mmc.high_capacity /\ m.rca = mmc.rca /\ m.capacity = mmc.capacity
       /\ m.bus_width = 4
  BY <1>3, <1>10, MmcWidth
<1>12. Started(m)
  BY <1>1, <1>8, <1>10
<1>13. /\ mmc'.high_capacity = mmc.high_capacity /\ mmc'.capacity = mmc.capacity /\ mmc'.rca = mmc.rca
       /\ mmc'.bus_width = 4 /\ pc' = "ok"
  BY <1>11, <1>12, StartedType
<1>14. Sized' /\ DataPath'
  BY <1>4, <1>9, <1>13 DEF Sized, Known, DataPath
<1> QED
  BY <1>9, <1>13, <1>14 DEF InStep, Finding, Transferring

(* Transfers, which leave the card as the check found it. *)
LEMMA StepCheck ==
  ASSUME CauseInv, Check, Untroubled'
  PROVE  InStep'
<1>1. mmc \in Mmcs
  BY DEF CauseInv, ExactInv, SdTypeOK
<1>2. mmc' = Narrow(mmc) /\ pc' = "go_idle" /\ job' = [NoJob EXCEPT !.kind = "check", !.timeout = OpPolls]
  BY DEF Check
<1>3. mmc'.bus_width = 1
  BY <1>1, <1>2, MmcNarrow
<1>4. job'.timeout = OpPolls
  BY <1>2 DEF NoJob
<1> QED
  BY <1>2, <1>3, <1>4, PollsAssumption DEF InStep, Finding, Transferring

LEMMA StepTransfer ==
  ASSUME CauseInv, Transfer, Untroubled'
  PROVE  InStep'
<1>1. pc' = "blocklen" /\ UNCHANGED <<slot, mmc, told, same, clean>> /\ pc \in {"none", "ok", "failed"}
  BY DEF Transfer, Take, AtRest
<1>2. Untroubled
  BY <1>1 DEF Untroubled
<1>3. slot.state = "tran" /\ Sized /\ DataPath
  BY <1>1, <1>2 DEF CauseInv, InStep
<1>4. slot'.state = "tran" /\ Sized' /\ DataPath'
  BY <1>1, <1>3 DEF Sized, Known, DataPath
<1> QED
  BY <1>1, <1>4 DEF InStep, Finding, Transferring

LEMMA StepBlocklen ==
  ASSUME CauseInv, SetBlocklen, Untroubled'
  PROVE  InStep'
<1>1. PICK o \in Outcomes("SET_BLOCKLEN", BlockLen) : Comes(o) /\ pc' = IF o.r = "error" THEN "failed" ELSE "blocks"
  BY DEF SetBlocklen
<1>2. pc = "blocklen" /\ mmc' = mmc
  BY DEF SetBlocklen
<1>3. /\ InStep /\ slot' = o.slot /\ slot \in Slots
      /\ Answers("SET_BLOCKLEN", BlockLen) # {} => o \in Answers("SET_BLOCKLEN", BlockLen)
  BY <1>1, QuietSlot DEF Commands
<1>4. slot.state = "tran" /\ Sized /\ DataPath
  BY <1>2, <1>3 DEF InStep, Transferring
<1>5. o \in Becomes("tran")
  BY <1>3, <1>4, ToCommand, BecomesOne
<1>6. slot'.state = "tran" /\ slot'.width = slot.width /\ slot'.rca = slot.rca /\ slot'.card = slot.card /\ o.r = ""
  BY <1>3, <1>5, BecomesType DEF States
<1>7. pc' = "blocks"
  BY <1>1, <1>6
<1>8. Sized' /\ DataPath'
  BY <1>2, <1>4, <1>6 DEF Sized, Known, DataPath
<1> QED
  BY <1>6, <1>7, <1>8 DEF InStep, Finding, Transferring

LEMMA StepRefuse ==
  ASSUME CauseInv, Refuse, Untroubled'
  PROVE  InStep'
<1>1. /\ pc = "blocks" /\ TooFar /\ pc' = "failed" /\ job' = job
      /\ UNCHANGED <<slot, mmc, moved, told, same, clean>>
  BY DEF Refuse, GiveUp
<1>2. Untroubled
  BY <1>1 DEF Untroubled
<1>3. slot.state = "tran" /\ Sized /\ DataPath
  BY <1>1, <1>2 DEF CauseInv, InStep, Transferring
<1>4. slot'.state = "tran" /\ Sized' /\ DataPath'
  BY <1>1, <1>3 DEF Sized, Known, DataPath
<1>5. /\ job \in Jobs /\ IsTransfer /\ cur \in Nat /\ cur <= job.todo
      /\ job.start + job.todo + job.part = job.req.start + Asked
  BY <1>1, Numbers DEF CauseInv, Transferring
<1>6. slot.card.blocks \in Nat
  BY HasCapacity DEF CauseInv, ExactInv, SdTypeOK, Slots
<1>7. job.start + cur > slot.card.blocks
  BY <1>1, <1>3 DEF TooFar, Sized
<1>8. job.req.start + Asked > slot.card.blocks
  BY <1>5, <1>6, <1>7, RequestType
<1>9. IsTransfer' /\ job'.req.start + Asked' > slot'.card.blocks
  BY <1>1, <1>5, <1>8 DEF IsTransfer, Asked
<1> QED
  BY <1>1, <1>4, <1>9 DEF InStep, Finding, Transferring

(* The card is back where it was: the job goes on. *)
LEMMA StepGoes ==
  ASSUME Goes, slot'.state = "tran", Sized', DataPath'
  PROVE  InStep'
<1>1. pc' \in {"blocks", "blocklen", "ok"}
  BY DEF Goes
<1> QED
  BY <1>1 DEF InStep, Finding, Transferring

(* Or a write waits for the card. *)
LEMMA StepMoved ==
  ASSUME Moved, job.kind = "read" => slot'.state = "tran", job.kind # "read" => slot'.state = "prg", Sized', DataPath'
  PROVE  InStep'
<1>1. CASE job.kind = "read"
  BY <1>1, StepGoes DEF Moved
<1>2. CASE job.kind # "read"
  <2>1. pc' = "write_status"
    BY <1>2 DEF Moved
  <2> QED
    BY <1>2, <2>1 DEF InStep, Finding, Transferring
<1> QED
  BY <1>1, <1>2

LEMMA StepBlocks ==
  ASSUME CauseInv, Blocks, Untroubled'
  PROVE  InStep'
<1>1. PICK o \in Outcomes(job.kind, Address) :
       /\ Comes(o)
       /\ IF o.r = "error" THEN GiveUp /\ moved' = moved
          ELSE /\ moved' = moved \o [i \in 1 .. cur |-> <<told, Block(Address) + i - 1>>]
               /\ IF cur > 1 THEN pc' = "stop" /\ job' = job ELSE Moved
  BY DEF Blocks
<1>2. pc = "blocks" /\ mmc' = mmc
  BY DEF Blocks
<1>3. /\ job \in Jobs /\ IsTransfer /\ cur \in Nat /\ cur <= job.todo
      /\ job.start + job.todo + job.part = job.req.start + Asked
  BY <1>2, Numbers DEF CauseInv, Transferring
<1>4. job.kind \in {"read", "write"} /\ job.kind \in Commands \ {"APP_SEND_OP_COND"}
  BY <1>3 DEF IsTransfer, Commands
<1>5. /\ InStep /\ slot' = o.slot /\ slot \in Slots /\ slot.card \in Cards /\ slot'.card = slot.card /\ mmc \in Mmcs
      /\ Answers(job.kind, Address) # {} => o \in Answers(job.kind, Address)
      /\ Answers(job.kind, Address) = {} => Steady(slot, o.slot) /\ o.r = "error"
  BY <1>1, <1>4, QuietSlot
<1>6. slot.state = "tran" /\ Sized /\ DataPath
  BY <1>2, <1>5 DEF InStep, Transferring
<1>7. CASE Block(Address) >= 0
  <2>1. PICK st \in {"data", "tran", "rcv", "prg"} :
          /\ st = IF cur > 1 THEN IF job.kind = "read" THEN "data" ELSE "rcv" ELSE IF job.kind = "read" THEN "tran" ELSE "prg"
          /\ Answers(job.kind, Address) = Becomes(st)
    BY <1>4, <1>6, <1>7, ToTransfer
  <2>2. o \in Becomes(st)
    BY <1>5, <2>1, BecomesOne
  <2>3. slot'.state = st /\ slot'.width = slot.width /\ slot'.rca = slot.rca /\ o.r = ""
    <3>1. st \in States
      BY DEF States
    <3> QED
      BY <1>5, <2>2, <3>1, BecomesType
  <2>4. Sized' /\ DataPath'
    BY <1>2, <1>5, <1>6, <2>3 DEF Sized, Known, DataPath
  <2>5. CASE cur > 1
    <3>1. pc' = "stop" /\ job' = job
      BY <1>1, <2>3, <2>5
    <3>2. slot'.state = IF job'.kind = "read" THEN "data" ELSE "rcv"
      BY <2>1, <2>3, <2>5, <3>1
    <3> QED
      BY <2>4, <3>1, <3>2 DEF InStep, Finding, Transferring
  <2>6. CASE ~ cur > 1
    <3>1. Moved
      BY <1>1, <2>3, <2>6
    <3>2. (job.kind = "read" => slot'.state = "tran") /\ (job.kind # "read" => slot'.state = "prg")
      BY <2>1, <2>3, <2>6
    <3> QED
      BY <2>4, <3>1, <3>2, StepMoved
  <2> QED
    BY <2>5, <2>6
<1>8. CASE ~ Block(Address) >= 0
  <2>1. Steady(slot, slot') /\ o.r = "error"
    BY <1>4, <1>5, <1>6, <1>8, ToTransfer
  <2>2. pc' = "failed" /\ job' = job
    BY <1>1, <2>1 DEF GiveUp
  <2>3. job.start + cur > slot.card.blocks
    <3>1. mmc.high_capacity = slot.card.hc /\ slot.card.hc \in BOOLEAN /\ slot.card.blocks \in Nat /\ job.start \in Nat
      BY <1>3, <1>5, <1>6, HasCapacity, RequestType DEF Sized, Known, CardsOrNone
    <3>2. CASE slot.card.hc
      <4>1. Address = job.start
        BY <3>1, <3>2, Zenon DEF Address
      <4>2. job.start + cur <= slot.card.blocks => Block(Address) = Address
        BY <3>2, <4>1 DEF Block
      <4> QED
        BY <1>3, <1>8, <3>1, <4>1, <4>2
    <3>3. CASE ~ slot.card.hc
      <4>1. Address = job.start * BlockLen
        BY <3>1, <3>3, Zenon DEF Address
      <4>2. (job.start * 512) % 512 = 0 /\ (job.start * 512) \div 512 = job.start
        BY <3>1
      <4>3. job.start + cur <= slot.card.blocks => Block(Address) = job.start
        BY <3>3, <4>1, <4>2 DEF Block, BlockLen
      <4> QED
        BY <1>3, <1>8, <3>1, <4>3
    <3> QED
      BY <3>1, <3>2, <3>3
  <2>4. job.req.start + Asked > slot.card.blocks
    <3>1. slot.card.blocks \in Nat
      BY <1>5, HasCapacity DEF CardsOrNone
    <3> QED
      BY <1>3, <2>3, <3>1, RequestType
  <2>5. IsTransfer' /\ job'.req.start + Asked' > slot'.card.blocks
    BY <1>3, <1>5, <2>2, <2>4 DEF IsTransfer, Asked
  <2>6. slot'.state = "tran" /\ Sized' /\ DataPath'
    BY <1>2, <1>5, <1>6, <2>1 DEF Sized, Known, DataPath, Steady
  <2> QED
    BY <2>2, <2>5, <2>6 DEF InStep, Finding, Transferring
<1> QED
  BY <1>7, <1>8

LEMMA StepStop ==
  ASSUME CauseInv, Stop, Untroubled'
  PROVE  InStep'
<1>1. PICK o \in Outcomes("STOP_TRANSMISSION", 0) : Comes(o) /\ IF o.r = "error" THEN GiveUp ELSE Moved
  BY DEF Stop
<1>2. pc = "stop" /\ mmc' = mmc
  BY DEF Stop
<1>3. /\ InStep /\ slot' = o.slot /\ slot \in Slots
      /\ Answers("STOP_TRANSMISSION", 0) # {} => o \in Answers("STOP_TRANSMISSION", 0)
  BY <1>1, QuietSlot DEF Commands
<1>4. slot.state = (IF job.kind = "read" THEN "data" ELSE "rcv") /\ Sized /\ DataPath
  BY <1>2, <1>3 DEF InStep, Transferring
<1>5. PICK st \in {"tran", "prg"} :
        st = (IF job.kind = "read" THEN "tran" ELSE "prg") /\ Answers("STOP_TRANSMISSION", 0) = Becomes(st)
  BY <1>4, ToCommand
<1>6. o \in Becomes(st)
  BY <1>3, <1>5, BecomesOne
<1>7. slot'.state = st /\ slot'.width = slot.width /\ slot'.rca = slot.rca /\ slot'.card = slot.card /\ o.r = ""
  <2>1. st \in States
    BY DEF States
  <2> QED
    BY <1>3, <1>6, <2>1, BecomesType
<1>8. Moved
  BY <1>1, <1>7
<1>9. Sized' /\ DataPath'
  BY <1>2, <1>4, <1>7 DEF Sized, Known, DataPath
<1> QED
  BY <1>5, <1>7, <1>8, <1>9, StepMoved

LEMMA StepWriteStatus ==
  ASSUME CauseInv, WriteStatus, Untroubled'
  PROVE  InStep'
<1>1. PICK o \in Outcomes("SEND_STATUS", mmc.rca) :
       /\ Comes(o)
       /\ IF ~ LastPoll(o.r) THEN Polled(o.r) /\ pc' = pc
          ELSE IF o.r = "ready" /\ job.timeout > 0 THEN Goes
          ELSE GiveUp
  BY DEF WriteStatus
<1>2. pc = "write_status" /\ mmc' = mmc
  BY DEF WriteStatus
<1>3. /\ InStep /\ slot' = o.slot /\ slot \in Slots /\ job \in Jobs /\ job.timeout # 0
      /\ Answers("SEND_STATUS", mmc.rca) # {} => o \in Answers("SEND_STATUS", mmc.rca)
  BY <1>1, <1>2, QuietSlot DEF Commands
<1>4. slot.state = "prg" /\ Sized /\ DataPath /\ slot.rca = mmc.rca
  BY <1>2, <1>3 DEF InStep, Transferring, Sized, Known
<1>5. job.timeout \in Int /\ job.timeout > 0
  BY <1>2, <1>3, RequestType DEF CauseInv, ExactInv, JobInv
<1>6. o \in Says(slot, "prg") \cup Says([slot EXCEPT !.state = "tran"], "ready")
  <2>1. Answers("SEND_STATUS", mmc.rca) = Says(slot, "prg") \cup Says([slot EXCEPT !.state = "tran"], "ready")
    BY <1>4, ToCommand
  <2>2. Says(slot, "prg") # {}
    BY SaysOne
  <2> QED
    BY <1>3, <2>1, <2>2
<1>7. CASE o \in Says(slot, "prg")
  <2>1. Steady(slot, slot') /\ o.r = "prg"
    BY <1>3, <1>7, SaysType
  <2>2. pc' = "write_status"
    BY <1>1, <1>2, <1>5, <2>1 DEF LastPoll
  <2>3. slot'.state = "prg" /\ Sized' /\ DataPath'
    BY <1>2, <1>4, <2>1 DEF Sized, Known, DataPath, Steady, SameCard
  <2> QED
    BY <2>2, <2>3 DEF InStep, Finding, Transferring
<1>8. CASE o \in Says([slot EXCEPT !.state = "tran"], "ready")
  <2>1. PICK t : t = [slot EXCEPT !.state = "tran"] /\ o \in Says(t, "ready")
    BY <1>8
  <2>2. SameCard(slot, t) /\ t.state = "tran" /\ t.rca = slot.rca /\ t.width = slot.width
    BY <1>3, <2>1, StateSet DEF States
  <2>3. Steady(t, o.slot) /\ o.r = "ready"
    BY <2>1, <2>2, SaysType DEF SameCard
  <2>4. slot'.state = "tran" /\ slot'.rca = slot.rca /\ slot'.width = slot.width /\ slot'.card = slot.card
    BY <1>3, <2>2, <2>3 DEF Steady, SameCard
  <2>5. Goes
    BY <1>1, <1>5, <2>3 DEF LastPoll
  <2>6. Sized' /\ DataPath'
    BY <1>2, <1>4, <2>4 DEF Sized, Known, DataPath
  <2> QED
    BY <2>4, <2>5, <2>6, StepGoes
<1> QED
  BY <1>6, <1>7, <1>8

(* The first state, *)
LEMMA CauseStart == Init => CauseInv
<1> SUFFICES ASSUME Init PROVE CauseInv
  OBVIOUS
<1>1. same = FALSE
  BY DEF Init
<1>2. ~ Untroubled
  BY <1>1 DEF Untroubled
<1> QED
  BY <1>2, ExactStart DEF CauseInv

(* and every step. *)
LEMMA CauseKept == CauseInv /\ [Next]_vars => CauseInv'
<1> SUFFICES ASSUME CauseInv, [Next]_vars PROVE CauseInv'
  OBVIOUS
<1>1. ExactInv'
  BY ExactKept DEF CauseInv
<1>2. ASSUME Untroubled' PROVE InStep'
  <2>1. CASE UNCHANGED vars
    <3>1. Untroubled
      BY <1>2, <2>1 DEF Untroubled, vars
    <3>2. InStep
      BY <3>1 DEF CauseInv
    <3> QED
      BY <2>1, <3>2 DEF vars, InStep, Fresh, Known, Sized, DataPath, IsTransfer, Asked
  <2>2. CASE Swap
    <3>1. same' = FALSE
      BY <2>2 DEF Swap
    <3> QED
      BY <1>2, <3>1 DEF Untroubled
  <2> QED
    BY <1>2, <2>1, <2>2, StepCheck, StepGoIdle, StepIfCond, StepOpApp, StepOpCond, StepSendCid, StepRelativeAddr,
       StepCardData, StepCsdStatus, StepSelect, StepScrApp, StepSendScr, StepSwitchCheck, StepSwitch, StepWidthApp,
       StepSetBusWidth, StepTransfer, StepBlocklen, StepRefuse, StepBlocks, StepStop, StepWriteStatus DEF Next
<1> QED
  BY <1>1, <1>2 DEF CauseInv

(* With one SD card in the slot since the check and nothing lost, the      *)
(* check finds it and transfers within it succeed (mmc_init, mmc_startup,  *)
(* mmc_bread, mmc_bwrite): in every state the driver and the card are in   *)
(* step with each other.                                                   *)
THEOREM FailuresHaveCauses == Spec => []FailsForCause
<1>1. CauseInv => FailsForCause
  <2> DEFINE within == job.req.start + job.req.full + job.req.part <= slot.card.blocks
  <2> SUFFICES ASSUME CauseInv, same, clean, slot.state # "none", ~ slot.card.mmc, job.kind = "check" \/ within, pc = "failed"
               PROVE  FALSE
    BY DEF FailsForCause
  <2>1. InStep
    BY DEF CauseInv, Untroubled
  <2>2. IsTransfer /\ job.req.start + Asked > slot.card.blocks
    BY <2>1 DEF InStep
  <2>3. within
    BY <2>2 DEF IsTransfer
  <2>4. job \in Jobs /\ slot.card.blocks \in Nat
    BY HasCapacity DEF CauseInv, ExactInv, SdTypeOK, Slots
  <2> QED
    BY <2>2, <2>3, <2>4, RequestType DEF Asked
<1> QED
  BY <1>1, CauseStart, CauseKept, PTL DEF Spec

--------------------------------------------------------------------------------
(* The volume of an export *)

\* How many clusters of the file are in the tables after b of their sectors: two
\* entries of the first are taken, and the last sector holds what is left.
WrittenAfter(b) == IF b = 0 THEN 0 ELSE IF b = 3 THEN 513 ELSE 256 * b - 2

\* What the tables must say of a cluster of the file: the next, or that it is the last.
Link(c) == IF c = 514 THEN 65535 ELSE c + 1

\* The export is after block sd_blk_idx of both tables; those before it are in place.
FatDone ==
  /\ sd_blk_idx \in 0 .. 3 /\ clusters_written = WrittenAfter(sd_blk_idx)
  /\ phase \in {"zero", "boot", "fat1", "fat2"} => sd_blk_idx < 3
  /\ phase \in {"zero", "boot"} => sd_blk_idx = 0
  /\ phase \in {"dirent", "done"} => sd_blk_idx = 3
AreaCleared == DOMAIN sectors = 1 .. 320
Tables ==
  /\ \A b \in 0 .. 2 : b < sd_blk_idx =>
       sectors[129 + b] = FatSector(WrittenAfter(b)) /\ sectors[161 + b] = FatSector(WrittenAfter(b))
  /\ phase = "fat2" => sectors[129 + sd_blk_idx] = FatSector(WrittenAfter(sd_blk_idx))
FatInv ==
  /\ phase \in {"zero", "boot", "fat1", "fat2", "dirent", "done", "failed"}
  /\ phase # "failed" => FatDone
  /\ phase \notin {"zero", "failed"} => AreaCleared /\ Tables
  /\ phase \in {"fat1", "fat2", "dirent", "done"} => sectors[1] = BootSector
  /\ phase = "done" => sectors[193] = DirEntry

\* The file has 513 clusters, the last one in part.
LEMMA ClusterCount == PROF_16_CLUSTER_COUNT = 513 /\ PROF_16_DATA_SIZE \div FAT16_CLUSTER_SIZE = 512
BY DEF PROF_16_CLUSTER_COUNT, PROF_16_DATA_SIZE, FAT16_CLUSTER_SIZE

\* generate_fat16 goes from sector to sector.
LEMMA NextSector ==
  ASSUME NEW b \in 0 .. 2
  PROVE  EndOfSector(WrittenAfter(b)) = WrittenAfter(b + 1)
BY ClusterCount DEF EndOfSector, WrittenAfter, FAT16_ENTRIES_PER_SECTOR, FAT16_SECTOR_SIZE

\* Every entry of a cluster of the file names the next one or ends the chain.
LEMMA SectorLinks ==
  ASSUME NEW b \in 0 .. 2, NEW c \in 2 .. 514, b = c \div 256
  PROVE  FatSector(WrittenAfter(b))[1 + (c % 256)] = Link(c)
<1> DEFINE w == WrittenAfter(b)
           i == 1 + (c % 256)
           preamble == IF w = 0 THEN <<65528, 65535>> ELSE <<>>
           n == EndOfSector(w) - w
           F(k) == IF w + 2 + k = 515 THEN 65535 ELSE w + 2 + k
           chain == [k \in 1 .. n |-> F(k)]
           entries == preamble \o chain
<1>1. i \in 1 .. 256 /\ c = 256 * b + i - 1
  <2>1. c % 256 \in 0 .. 255 /\ c = 256 * (c \div 256) + (c % 256)
    OBVIOUS
  <2> HIDE DEF F, n, w
  <2> QED BY <2>1
<1>2. FatSector(w)[i] = IF i <= Len(entries) THEN entries[i] ELSE 0
  <2>1. FatSector(w) = [k \in 1 .. 256 |-> IF k <= Len(entries) THEN entries[k] ELSE 0]
    BY ClusterCount, SMT DEF FatSector, FAT16_ENTRIES_PER_SECTOR, FAT16_SECTOR_SIZE
  <2>2. i \in 1 .. 256
    BY <1>1
  <2> DEFINE G(k) == IF k <= Len(entries) THEN entries[k] ELSE 0
  <2>3. FatSector(w) = [k \in 1 .. 256 |-> G(k)]
    <3> HIDE DEF entries, w
    <3> QED BY <2>1, Zenon
  <2>4. FatSector(w)[i] = G(i)
    <3> HIDE DEF entries, i, w, G
    <3> QED BY <2>2, <2>3, SMT
  <2> HIDE DEF entries, i, w
  <2> QED BY <2>4, Zenon
<1>3. n = (IF b = 0 THEN 254 ELSE IF b = 1 THEN 256 ELSE 3)
  BY NextSector DEF WrittenAfter
<1>4. w = (IF b = 0 THEN 0 ELSE 256 * b - 2)
  BY DEF WrittenAfter
<1>5. preamble \in Seq(Int) /\ Len(preamble) = (IF b = 0 THEN 2 ELSE 0)
  BY <1>4
<1>6. chain \in Seq(Int) /\ Len(chain) = n /\ \A k \in 1 .. n : chain[k] = F(k)
  <2>1. n \in Nat /\ w \in Int
    BY <1>3, <1>4
  <2>2. chain \in [1 .. n -> Int]
    BY <2>1
  <2>3. DOMAIN chain = 1 .. n
    OBVIOUS
  <2>4. Len(chain) = n
    <3> HIDE DEF chain, n
    <3> QED BY <2>1, <2>2, <2>3
  <2>5. ASSUME NEW k \in 1 .. n PROVE chain[k] = F(k)
    OBVIOUS
  <2>6. chain \in Seq(Int)
    <3> HIDE DEF chain, n
    <3> QED BY <2>1, <2>2
  <2> HIDE DEF chain, n, F
  <2> QED BY <2>4, <2>5, <2>6
<1>7. Len(entries) = Len(preamble) + n
  <2>1. Len(preamble) + Len(chain) = Len(entries)
    <3>1. preamble \in Seq(Int) /\ chain \in Seq(Int)
      BY <1>5, <1>6
    <3> HIDE DEF chain, preamble
    <3> QED BY <3>1, SMT
  <2> HIDE DEF chain, preamble, n, entries
  <2> QED BY <1>6, <2>1, SMT
<1>range. c >= 2 /\ c =< 514
  OBVIOUS
<1>8. i <= Len(entries) /\ i > Len(preamble)
  <2> HIDE DEF entries, chain, preamble, n, F, w, i
  <2> QED BY <1>1, <1>3, <1>5, <1>7, <1>range
<1>9. entries[i] = F(i - Len(preamble))
  <2>1. entries[i] = chain[i - Len(preamble)]
    <3> HIDE DEF chain, preamble, n, i
    <3> QED BY <1>1, <1>5, <1>6, <1>7, <1>8, ConcatProperties, SMT
  <2>2. i - Len(preamble) \in 1 .. n
    <3> HIDE DEF entries, chain, preamble, n, F, i
    <3> QED BY <1>1, <1>3, <1>5, <1>7, <1>8, SMT
  <2> HIDE DEF entries, chain, preamble, n, F, i
  <2> QED BY <1>6, <2>1, <2>2, SMT
<1>10. w + 2 + (i - Len(preamble)) = c + 1
  <2> HIDE DEF w, i, preamble
  <2> QED BY <1>1, <1>4, <1>5, SMT
<1>11. F(i - Len(preamble)) = Link(c)
  <2>1. F(i - Len(preamble)) = IF c + 1 = 515 THEN 65535 ELSE c + 1
    BY <1>10, SMT
  <2> HIDE DEF F, w, i, preamble
  <2> QED BY <2>1, SMT DEF Link
<1>12. FatSector(w)[i] = Link(c)
  <2> HIDE DEF w, i, entries, preamble, F
  <2> QED BY <1>2, <1>8, <1>9, <1>11, SMT
<1> QED BY <1>12

\* Nothing is written yet.
LEMMA FatStart == FatInit => FatInv
BY DEF FatInit, FatInv, FatDone, WrittenAfter

\* sdcard_write changes its own sector, or the export has failed.
LEMMA FatStep == FatInv /\ [FatNext]_fatVars => FatInv'
<1> SUFFICES ASSUME FatInv, [FatNext]_fatVars PROVE FatInv'
  OBVIOUS
<1> SUFFICES ASSUME phase' # "failed" PROVE FatInv'
  BY DEF FatInv
<1>1. CASE Zero
  <2>1. phase = "zero" /\ phase' = "boot" /\ AreaCleared' /\ UNCHANGED <<clusters_written, sd_blk_idx>>
    BY <1>1 DEF Zero, Failed, AreaCleared, FAT16_ROOT_DIR_FIRST_SECTOR, FAT16_ROOT_DIR_SECTORS
  <2> QED BY <2>1 DEF FatInv, FatDone, Tables
<1>2. CASE Boot
  <2>1. Write(0, BootSector, "fat1") /\ phase = "boot" /\ UNCHANGED <<clusters_written, sd_blk_idx>>
    BY <1>2 DEF Boot
  <2>2. phase' = "fat1" /\ AreaCleared' /\ sectors'[1] = BootSector
    <3>1. 1 = 1 + 0 \div FAT16_SECTOR_SIZE
      BY DEF FAT16_SECTOR_SIZE
    <3>2. AreaCleared
      BY <2>1 DEF FatInv
    <3> HIDE DEF FatInv
    <3> QED BY <2>1, <3>1, <3>2, SMT DEF Write, Failed, AreaCleared
  <2> QED BY <2>1, <2>2 DEF FatInv, FatDone, Tables
<1>3. CASE Fat1
  <2> DEFINE ofs == FAT16_1_OFS + sd_blk_idx * FAT16_SECTOR_SIZE
             s == 129 + sd_blk_idx
  <2>1. phase = "fat1" /\ Write(ofs, FatSector(clusters_written), "fat2") /\ UNCHANGED <<clusters_written, sd_blk_idx>>
    BY <1>3 DEF Fat1
  <2>2. sd_blk_idx \in 0 .. 2 /\ clusters_written = WrittenAfter(sd_blk_idx) /\ AreaCleared
    BY <2>1 DEF FatInv, FatDone
  <2>3. s = 1 + ofs \div FAT16_SECTOR_SIZE /\ s \in 129 .. 131
    BY <2>2 DEF FAT16_SECTOR_SIZE, FAT16_1_OFS
  <2>4. phase' = "fat2" /\ AreaCleared' /\ sectors'[s] = FatSector(clusters_written)
          /\ \A u \in 1 .. 320 : u # s => sectors'[u] = sectors[u]
    <3> HIDE DEF ofs, s
    <3> QED BY <2>1, <2>2, <2>3, SMT DEF Write, Failed, AreaCleared
  <2>5. Tables'
    <3>1. ASSUME NEW b \in 0 .. 2, b < sd_blk_idx'
          PROVE  sectors'[129 + b] = FatSector(WrittenAfter(b)) /\ sectors'[161 + b] = FatSector(WrittenAfter(b))
      <4>1. b < sd_blk_idx
        BY <2>1, <3>1
      <4>2. sectors[129 + b] = FatSector(WrittenAfter(b)) /\ sectors[161 + b] = FatSector(WrittenAfter(b))
        BY <2>1, <4>1 DEF FatInv, Tables
      <4> QED BY <2>2, <2>4, <4>1, <4>2
    <3> QED BY <2>1, <2>2, <2>4, <3>1 DEF Tables
  <2> QED BY <2>1, <2>2, <2>4, <2>5 DEF FatInv, FatDone
<1>4. CASE Fat2
  <2> DEFINE ofs == FAT16_2_OFS + sd_blk_idx * FAT16_SECTOR_SIZE
             s == 161 + sd_blk_idx
             next == IF clusters_written' < PROF_16_DATA_SIZE \div FAT16_CLUSTER_SIZE THEN "fat1" ELSE "dirent"
  <2>1. /\ phase = "fat2" /\ clusters_written' = EndOfSector(clusters_written) /\ sd_blk_idx' = sd_blk_idx + 1
        /\ Write(ofs, FatSector(clusters_written), next)
    BY <1>4 DEF Fat2
  <2>2. sd_blk_idx \in 0 .. 2 /\ clusters_written = WrittenAfter(sd_blk_idx) /\ AreaCleared
    BY <2>1 DEF FatInv, FatDone
  <2>3. s = 1 + ofs \div FAT16_SECTOR_SIZE /\ s \in 161 .. 163
    BY <2>2 DEF FAT16_SECTOR_SIZE, FAT16_2_OFS
  <2>4. phase' = next /\ AreaCleared' /\ sectors'[s] = FatSector(clusters_written)
          /\ \A u \in 1 .. 320 : u # s => sectors'[u] = sectors[u]
    <3> HIDE DEF ofs, s, next
    <3> QED BY <2>1, <2>2, <2>3, SMT DEF Write, Failed, AreaCleared
  <2>5. clusters_written' = WrittenAfter(sd_blk_idx')
    BY <2>1, <2>2, NextSector
  <2>6. phase' = (IF sd_blk_idx' = 3 THEN "dirent" ELSE "fat1")
    BY <2>1, <2>2, <2>4, <2>5, ClusterCount DEF WrittenAfter
  <2>7. Tables'
    <3>1. ASSUME NEW b \in 0 .. 2, b < sd_blk_idx'
          PROVE  sectors'[129 + b] = FatSector(WrittenAfter(b)) /\ sectors'[161 + b] = FatSector(WrittenAfter(b))
      <4>1. CASE b < sd_blk_idx
        <5>1. sectors[129 + b] = FatSector(WrittenAfter(b)) /\ sectors[161 + b] = FatSector(WrittenAfter(b))
          BY <2>1, <4>1 DEF FatInv, Tables
        <5> QED BY <2>2, <2>4, <4>1, <5>1
      <4>2. CASE b = sd_blk_idx
        <5>1. sectors[129 + b] = FatSector(WrittenAfter(b))
          BY <2>1, <4>2 DEF FatInv, Tables
        <5> QED BY <2>2, <2>3, <2>4, <4>2, <5>1
      <4> QED BY <2>1, <2>2, <3>1, <4>1, <4>2
    <3> QED BY <2>6, <3>1 DEF Tables
  <2>8. sectors'[1] = BootSector
    BY <2>1, <2>3, <2>4 DEF FatInv
  <2> QED BY <2>1, <2>2, <2>4, <2>5, <2>6, <2>7, <2>8 DEF FatInv, FatDone
<1>5. CASE Dirent
  <2>1. phase = "dirent" /\ Write(PROF_DIRENT_16_OFS, DirEntry, "done") /\ UNCHANGED <<clusters_written, sd_blk_idx>>
    BY <1>5 DEF Dirent
  <2>2. 193 = 1 + PROF_DIRENT_16_OFS \div FAT16_SECTOR_SIZE
    BY DEF FAT16_SECTOR_SIZE, PROF_DIRENT_16_OFS
  <2>3. sd_blk_idx = 3 /\ AreaCleared /\ sectors[1] = BootSector /\ Tables
    BY <2>1 DEF FatInv, FatDone
  <2>4. phase' = "done" /\ AreaCleared' /\ sectors'[193] = DirEntry /\ \A u \in 1 .. 320 : u # 193 => sectors'[u] = sectors[u]
    BY <2>1, <2>2, <2>3, SMT DEF Write, Failed, AreaCleared
  <2>5. Tables'
    BY <2>1, <2>3, <2>4 DEF Tables
  <2> QED BY <2>1, <2>3, <2>4, <2>5 DEF FatInv, FatDone
<1>6. CASE UNCHANGED fatVars
  BY <1>6 DEF FatInv, FatDone, Tables, AreaCleared, fatVars
<1> QED BY <1>1, <1>2, <1>3, <1>4, <1>5, <1>6 DEF FatNext

\* What a driver reads in table t for cluster c of the file.
LEMMA TableEntry ==
  ASSUME FatInv, phase = "done", NEW t \in {0, 1}, NEW c \in 2 .. 514
  PROVE  TableAt(BootSector, t, c) = Link(c)
<1>1. c \div 256 \in 0 .. 2
  OBVIOUS
<1>2. sd_blk_idx = 3 /\ Tables
  BY DEF FatInv, FatDone
<1>3. sectors[129 + t * 32 + c \div 256] = FatSector(WrittenAfter(c \div 256))
  <2> DEFINE b == c \div 256
  <2>1. sectors[129 + b] = FatSector(WrittenAfter(b)) /\ sectors[161 + b] = FatSector(WrittenAfter(b))
    <3> HIDE DEF b
    <3> QED BY <1>1, <1>2 DEF Tables, b
  <2>2. 129 + t * 32 + b = 129 + b \/ 129 + t * 32 + b = 161 + b
    <3> HIDE DEF b
    <3> QED BY <1>1 DEF b
  <2> QED BY <2>1, <2>2
<1>4. sectors[129 + t * 32 + c \div 256][1 + (c % 256)] = Link(c)
  BY <1>1, <1>3, SectorLinks
<1>5. 1 + BootSector.reserved + t * BootSector.perFat = 129 + t * 32 /\ FAT16_ENTRIES_PER_SECTOR = 256
  BY SMT DEF BootSector, FAT16_ENTRIES_PER_SECTOR, FAT16_SECTOR_SIZE
<1>6. 1 + BootSector.reserved + t * BootSector.perFat + c \div FAT16_ENTRIES_PER_SECTOR = 129 + t * 32 + c \div 256
  BY <1>5, SMT
<1> QED BY <1>4, <1>5, <1>6, Zenon DEF TableAt

\* The file has 513 clusters, from 2 on, and its data are where the export puts them.
LEMMA FileLayout ==
  /\ RootDir(BootSector) = 192
  /\ BootSector.fats - 1 = 1
  /\ ClustersOf(BootSector, DirEntry) - 1 = 512
  /\ DirEntry.cluster = 2
  /\ \A k \in 0 .. 512 : OffsetOf(BootSector, 2 + k) = PROF_16_DATA_OFS + k * FAT16_CLUSTER_SIZE
<1>1. RootDir(BootSector) = 192
  BY SMT DEF RootDir, BootSector
<1>2. ASSUME NEW k \in 0 .. 512
      PROVE  OffsetOf(BootSector, 2 + k) = PROF_16_DATA_OFS + k * FAT16_CLUSTER_SIZE
  BY <1>1, SMT DEF OffsetOf, BootSector, PROF_16_DATA_OFS, FAT16_CLUSTER_SIZE
<1>3. BootSector.fats - 1 = 1 /\ ClustersOf(BootSector, DirEntry) - 1 = 512 /\ DirEntry.cluster = 2
  BY SMT DEF ClustersOf, BootSector, DirEntry
<1> QED BY <1>1, <1>2, <1>3

\* Each cluster of the file reads as it should, in either table.
LEMMA ClusterReads ==
  ASSUME FatInv, phase = "done", NEW t \in {0, 1}, NEW k \in 0 .. 512
  PROVE  ClusterReadable(BootSector, DirEntry, t, k)
<1>1. 2 + k \in 2 .. 514
  BY SMT
<1>2. TableAt(BootSector, t, 2 + k) = Link(2 + k)
  <2> DEFINE c == 2 + k
  <2>1. c \in 2 .. 514
    BY <1>1, Zenon
  <2>2. TableAt(BootSector, t, c) = Link(c)
    <3> HIDE DEF c
    <3> QED BY <2>1, TableEntry, Zenon
  <2> QED BY <2>2, Zenon
<1>3. Link(2 + k) = IF k = 512 THEN 65535 ELSE 2 + k + 1
  BY SMT DEF Link
<1> QED BY <1>2, <1>3, FileLayout, SMT DEF ClusterReadable

\* What VolumeReadable asks follows by the arithmetic of the boot sector.
LEMMA FatReadable == FatInv => VolumeReadable
<1> SUFFICES ASSUME FatInv, phase = "done",
                    NEW copy \in 0 .. sectors[1].fats - 1,
                    NEW k \in 0 .. ClustersOf(sectors[1], sectors[1 + RootDir(sectors[1])]) - 1
             PROVE  ClusterReadable(sectors[1], sectors[1 + RootDir(sectors[1])], copy, k)
  BY Zenon DEF VolumeReadable
<1>1. sectors[1] = BootSector /\ sectors[193] = DirEntry
  BY SMT DEF FatInv
<1>2. 1 + RootDir(BootSector) = 193
  BY FileLayout, SMT
<1>3. sectors[1 + RootDir(sectors[1])] = DirEntry
  BY <1>1, <1>2, Zenon
<1>4. copy \in 0 .. BootSector.fats - 1 /\ k \in 0 .. ClustersOf(BootSector, DirEntry) - 1
  BY <1>1, <1>3, Zenon
<1>5. copy \in {0, 1} /\ k \in 0 .. 512
  BY <1>4, FileLayout, SMT
<1> QED BY <1>1, <1>3, <1>5, ClusterReads, Zenon

\* Whoever reads the finished volume finds the file, cluster by cluster, in either table
\* (generate_fat16 and the literals of fat16_export.c), whichever writes fail.
THEOREM ExportedVolumeReadable == FatInit /\ [][FatNext]_fatVars => []VolumeReadable
<1> QED BY FatStart, FatStep, FatReadable, PTL

--------------------------------------------------------------------------------
(* The flash driver *)

Busy == [op : {"none", "WRITE_STATUS", "ERASE"}, arg : Int, size : Int]
NorTypeOK ==
  /\ chip \in [enabled : BOOLEAN, busy : Busy, protected : BOOLEAN]
  /\ Ready => chip.busy = Idle
  /\ cells \in [Sectors -> {"old", "erased", "half", "new"}]
  /\ at \in {"rest", "enable", "status", "erase", "poll", "disable"}
  /\ call \in [fn : {"none", "protect", "erase"}, arg : Int, size : Int]
  /\ saving \in [step : {"idle", "begun", "unprotected", "erased", "written"}, sector : Int, size : Int]
  /\ saving.step # "idle" => saving.sector \in Sectors

\* The effect of the call on the chip has been achieved.
Achieved ==
  /\ chip.busy = Idle /\ ~ chip.enabled
  /\ call.fn = "protect" => chip.protected = (call.arg = 1)
  /\ call.fn = "erase" => ~ chip.protected /\ \A s \in Cleared(call.arg, call.size) : cells[s] = "erased"

\* Or it is being achieved: the chip is busy with just this call.
UnderWay ==
  /\ call.fn = "protect" => chip.busy.op = "WRITE_STATUS" /\ chip.busy.arg = call.arg
  /\ call.fn = "erase" => chip.busy = [op |-> "ERASE", arg |-> call.arg, size |-> call.size] /\ ~ chip.protected

\* The driver: the chip is idle whenever it is sent a command, and enabled when it needs to be.
DriverInv ==
  /\ at # "poll" => chip.busy = Idle
  /\ at # "rest" => call.fn # "none"
  /\ at = "status" => call.fn = "protect" /\ chip.enabled
  /\ at = "erase" => call.fn = "erase" /\ chip.enabled
  /\ at \in {"enable", "erase"} /\ call.fn = "erase" => ~ chip.protected
  /\ at = "poll" => Achieved \/ UnderWay
  /\ at = "disable" => call.fn = "protect"
  /\ at \in {"rest", "disable"} => Achieved

\* The caller: what it does next rests on what its last call has achieved.
CallerInv ==
  /\ saving.step = "idle" /\ at # "rest" => call.fn = "protect"
  /\ saving.step \in {"begun", "written"} => at = "rest" /\ call.fn = "none"
  /\ saving.step = "unprotected" => call.fn = "protect" /\ call.arg = 0
  /\ saving.step = "erased" => call.fn = "erase" /\ call.arg = saving.sector /\ call.size = saving.size
  /\ saving.step = "written" => cells[saving.sector] = "new"

NorInv == NorTypeOK /\ DriverInv /\ CallerInv
--------------------------------------------------------------------------------
\* At the start nothing has been called.
LEMMA NorInitially == NorInit => NorInv
BY DEF NorInit, NorInv, NorTypeOK, DriverInv, CallerInv, Achieved, UnderWay, Idle, NoCall, Busy, Ready

\* What a command makes of the chip keeps its types, and does nothing to what it is busy with.
LEMMA AfterTyped ==
  ASSUME NorTypeOK, NEW op, NEW arg \in Int, NEW size \in Int
  PROVE  /\ After(op, arg, size) \in [enabled : BOOLEAN, busy : Busy, protected : BOOLEAN]
         /\ After(op, arg, size).protected = chip.protected
         /\ After(op, arg, size).busy.op = "none" => After(op, arg, size).busy = Idle
BY DEF After, NorTypeOK, Ready, Idle, Busy

\* The chip finishes: what was under way has been achieved.
LEMMA CompleteKeeps == NorInv /\ Complete => NorInv'
<1> SUFFICES ASSUME NorInv, Complete PROVE NorInv'
  OBVIOUS
<1>1. at = "poll" /\ UnderWay /\ UNCHANGED <<at, call, saving>>
  BY DEF Complete, NorInv, DriverInv, Ready, Idle, Achieved
<1>2. NorTypeOK'
  <2>1. chip' \in [enabled : BOOLEAN, busy : Busy, protected : BOOLEAN] /\ chip'.busy = Idle
    <3>1. (chip.busy.arg = 1) \in BOOLEAN /\ chip.protected \in BOOLEAN
      BY DEF NorInv, NorTypeOK
    <3>2. PICK p \in BOOLEAN : chip' = [enabled |-> FALSE, busy |-> Idle, protected |-> p]
      BY <3>1 DEF Complete
    <3> QED BY <3>2 DEF Idle, Busy
  <2>2. cells' \in [Sectors -> {"old", "erased", "half", "new"}]
    BY DEF Complete, NorInv, NorTypeOK
  <2> QED BY <1>1, <2>1, <2>2 DEF NorInv, NorTypeOK
<1>3. Achieved'
  <2>1. CASE call.fn = "protect"
    BY <1>1, <2>1 DEF UnderWay, Achieved, Complete, Idle
  <2>2. CASE call.fn = "erase"
    BY <1>1, <2>2 DEF UnderWay, Achieved, Complete, Idle, Cleared, NorInv, NorTypeOK
  <2> QED BY <1>1, <2>1, <2>2 DEF NorInv, NorTypeOK, DriverInv
<1>4. DriverInv'
  BY <1>1, <1>3 DEF NorInv, DriverInv
<1>5. CallerInv'
  BY <1>1 DEF NorInv, CallerInv
<1> QED BY <1>2, <1>4, <1>5 DEF NorInv

\* After a power cut nothing has been called.
LEMMA CutKeeps == NorInv /\ Cut => NorInv'
<1> SUFFICES ASSUME NorInv, Cut PROVE NorInv'
  OBVIOUS
<1>1. PICK p \in IF chip.busy.op = "WRITE_STATUS" THEN BOOLEAN ELSE {chip.protected} :
        chip' = [enabled |-> FALSE, busy |-> Idle, protected |-> p]
  BY DEF Cut
<1>2. p \in BOOLEAN
  BY <1>1 DEF NorInv, NorTypeOK
<1>3. NorTypeOK'
  BY <1>1, <1>2 DEF Cut, NorInv, NorTypeOK, Idle, Busy, Ready, NoCall
<1>4. DriverInv' /\ CallerInv'
  BY <1>1 DEF Cut, NorInv, NorTypeOK, DriverInv, CallerInv, Achieved, UnderWay, Idle, NoCall
<1> QED BY <1>3, <1>4 DEF NorInv
--------------------------------------------------------------------------------
(* The driver's steps: each command finds the chip as it must be. *)

LEMMA IssueTyped ==
  ASSUME NorTypeOK, NEW now, NEW op, NEW arg \in Int, NEW size \in Int,
         NEW next \in {"rest", "enable", "status", "erase", "poll", "disable"}, Issue(now, op, arg, size, next)
  PROVE  NorTypeOK'
BY AfterTyped DEF Issue, NorTypeOK, Ready

LEMMA DriverKeeps ==
  NorInv /\ (WriteEnable \/ WriteStatusRegister \/ SendErase \/ WriteDisable \/ PollStatus) => NorInv'
<1> SUFFICES ASSUME NorInv,
                    WriteEnable \/ WriteStatusRegister \/ SendErase \/ WriteDisable \/ PollStatus
             PROVE  NorInv'
  OBVIOUS
<1> USE DEF NorInv
<1>1. call.arg \in Int /\ call.size \in Int /\ call.fn \in {"none", "protect", "erase"}
  BY DEF NorTypeOK
<1>2. CASE WriteEnable
  <2>1. NorTypeOK'
    BY <1>1, <1>2, IssueTyped DEF WriteEnable
  <2>2. chip' = [chip EXCEPT !.enabled = TRUE] /\ chip.busy = Idle
    BY <1>2 DEF WriteEnable, Issue, After, Ready, DriverInv, Idle
  <2>3. DriverInv' /\ CallerInv'
    BY <1>1, <1>2, <2>2 DEF WriteEnable, Issue, DriverInv, CallerInv, NorTypeOK, Idle
  <2> QED BY <2>1, <2>3
<1>3. CASE WriteStatusRegister
  <2>1. NorTypeOK'
    BY <1>1, <1>3, IssueTyped DEF WriteStatusRegister
  <2>2. chip' = [chip EXCEPT !.busy = [op |-> "WRITE_STATUS", arg |-> call.arg, size |-> 1]] /\ call.fn = "protect"
    BY <1>3 DEF WriteStatusRegister, Issue, After, Ready, DriverInv, Idle
  <2>3. DriverInv' /\ CallerInv'
    BY <1>1, <1>3, <2>2 DEF WriteStatusRegister, Issue, DriverInv, CallerInv, NorTypeOK, UnderWay
  <2> QED BY <2>1, <2>3
<1>4. CASE SendErase
  <2>1. NorTypeOK'
    BY <1>1, <1>4, IssueTyped DEF SendErase
  <2>2. chip' = [chip EXCEPT !.busy = [op |-> "ERASE", arg |-> call.arg, size |-> call.size]]
        /\ call.fn = "erase" /\ ~ chip.protected
    BY <1>4 DEF SendErase, Issue, After, Ready, DriverInv, Idle
  <2>3. DriverInv' /\ CallerInv'
    BY <1>1, <1>4, <2>2 DEF SendErase, Issue, DriverInv, CallerInv, NorTypeOK, UnderWay
  <2> QED BY <2>1, <2>3
<1>5. CASE WriteDisable
  <2>1. NorTypeOK'
    BY <1>1, <1>5, IssueTyped DEF WriteDisable
  <2>2. chip' = [chip EXCEPT !.enabled = FALSE] /\ Achieved /\ call.fn = "protect"
    BY <1>5 DEF WriteDisable, Issue, After, Ready, DriverInv, Idle
  <2>3. DriverInv' /\ CallerInv'
    BY <1>1, <1>5, <2>2 DEF WriteDisable, Issue, DriverInv, CallerInv, NorTypeOK, Achieved
  <2> QED BY <2>1, <2>3
<1>6. CASE PollStatus
  <2>1. NorTypeOK'
    BY <1>6 DEF PollStatus, NorTypeOK, Ready
  <2>2. Done => Achieved
    BY <1>1, <1>6 DEF PollStatus, Done, Ready, DriverInv, UnderWay
  <2>3. DriverInv'
    BY <1>1, <1>6, <2>2 DEF PollStatus, DriverInv, Achieved, UnderWay
  <2>4. CallerInv'
    BY <1>1, <1>6 DEF PollStatus, DriverInv, CallerInv
  <2> QED BY <2>1, <2>3, <2>4
<1> QED BY <1>2, <1>3, <1>4, <1>5, <1>6
--------------------------------------------------------------------------------
(* The callers' steps: each call rests on what the one before has achieved. *)

LEMMA CallersKeep == NorInv /\ (Begin \/ Unprotect \/ Erase \/ Program \/ Protect) => NorInv'
<1> SUFFICES ASSUME NorInv, Begin \/ Unprotect \/ Erase \/ Program \/ Protect PROVE NorInv'
  OBVIOUS
<1> USE DEF NorInv
<1>1. CASE Begin
  <2>1. PICK s \in Sectors, size \in Sizes : saving' = [step |-> "begun", sector |-> s, size |-> size]
    BY <1>1 DEF Begin
  <2>2. s \in Int /\ size \in Int
    BY NorAssumption
  <2>3. NorTypeOK'
    BY <1>1, <2>1, <2>2 DEF Begin, NorTypeOK, Ready, NoCall
  <2>4. DriverInv' /\ CallerInv'
    BY <1>1, <2>1 DEF Begin, DriverInv, CallerInv, Achieved, NoCall
  <2> QED BY <2>3, <2>4
<1>2. CASE Unprotect
  <2>1. NorTypeOK'
    BY <1>2 DEF Unprotect, Calls, NorTypeOK, Ready
  <2>2. DriverInv' /\ CallerInv'
    BY <1>2 DEF Unprotect, Calls, DriverInv, CallerInv, NorTypeOK
  <2> QED BY <2>1, <2>2
<1>3. CASE Erase
  <2>1. NorTypeOK'
    BY <1>3 DEF Erase, Calls, NorTypeOK, Ready
  <2>2. ~ chip.protected
    <3>1. Achieved /\ call.fn = "protect" /\ call.arg = 0
      BY <1>3 DEF Erase, Calls, DriverInv, CallerInv
    <3> QED BY <3>1 DEF Achieved, NorTypeOK
  <2>3. DriverInv' /\ CallerInv'
    BY <1>3, <2>2 DEF Erase, Calls, DriverInv, CallerInv, NorTypeOK
  <2> QED BY <2>1, <2>3
<1>4. CASE Program
  <2>1. ~ chip.protected /\ cells[saving.sector] = "erased" /\ saving.sector \in Sectors
    BY <1>4 DEF Program, DriverInv, CallerInv, Achieved, Cleared, NorTypeOK
  <2>2. cells' = [cells EXCEPT ![saving.sector] = "new"]
    BY <1>4, <2>1 DEF Program, NorTypeOK
  <2>3. NorTypeOK'
    BY <1>4, <2>2 DEF Program, NorTypeOK, Ready, NoCall
  <2>4. DriverInv' /\ CallerInv'
    BY <1>4, <2>1, <2>2 DEF Program, DriverInv, CallerInv, NorTypeOK, Achieved, NoCall
  <2> QED BY <2>3, <2>4
<1>5. CASE Protect
  <2>1. NorTypeOK'
    BY <1>5 DEF Protect, Calls, NorTypeOK, Ready
  <2>2. DriverInv' /\ CallerInv'
    BY <1>5 DEF Protect, Calls, DriverInv, CallerInv, NorTypeOK
  <2> QED BY <2>1, <2>2
<1> QED BY <1>1, <1>2, <1>3, <1>4, <1>5
--------------------------------------------------------------------------------
\* A call of the driver that has returned has done what it was called for, with any
\* number of sectors, any sizes of erase and however often the power is cut (flash.c:
\* no command is sent while the chip is busy, and each write is enabled first).
THEOREM DoneWhenReturned == NorSpec => []DoneAtReturn
<1>1. NorInv /\ [NorNext]_norVars => NorInv'
  <2> SUFFICES ASSUME NorInv, [NorNext]_norVars PROVE NorInv'
    OBVIOUS
  <2>1. CASE UNCHANGED norVars
    BY <2>1 DEF norVars, NorInv, NorTypeOK, DriverInv, CallerInv, Achieved, UnderWay, Ready, Cleared
  <2> QED BY <2>1, CompleteKeeps, CutKeeps, DriverKeeps, CallersKeep DEF NorNext
<1>2. NorInv => DoneAtReturn
  <2> SUFFICES ASSUME NorInv, at = "rest" PROVE DoneAtReturn
    BY DEF DoneAtReturn
  <2>1. Achieved /\ NorTypeOK /\ CallerInv
    BY DEF NorInv, DriverInv
  <2>2. CASE call.fn = "protect"
    BY <2>1, <2>2 DEF DoneAtReturn, Achieved, NorTypeOK, Idle
  <2>3. CASE call.fn = "erase"
    BY <2>1, <2>3 DEF DoneAtReturn, Achieved, Ready, Idle
  <2>4. CASE call.fn = "none"
    BY <2>1, <2>4 DEF DoneAtReturn, CallerInv
  <2> QED BY <2>1, <2>2, <2>3, <2>4 DEF NorTypeOK
<1> QED BY NorInitially, <1>1, <1>2, PTL DEF NorSpec

--------------------------------------------------------------------------------
(* The reconfiguration of the PLL *)

\* The data registers, their bits, and the types of the state.
Size == UnusedBits + PLL_CONFIG_DATA_BITS
Number == Configs \union {0}
LoadedBit == Number \X Nat

Fields == {"reset", "update", "t_config_id", "c_config_id", "busy"}
Statuses == [reset : BOOLEAN, update : BOOLEAN, t_config_id : Number, c_config_id : Number, busy : BOOLEAN]
FsmStates ==
  [state : {"idle", "shift", "waitresp"}, scan_shift : BOOLEAN, scanclkena : BOOLEAN,
   configupdate_pre : BOOLEAN, configupdate : BOOLEAN, areset_strobe : BOOLEAN,
   scandone_prev : BOOLEAN, shift_ctr : 0 .. PLL_CONFIG_DATA_BITS]
FirmwareStates ==
  [pc : {"done", "compare", "target", "switch", "switched", "busy", "release", "update", "wait"},
   id : Number, left : 0 .. CallGap, refused : BOOLEAN, doubt : BOOLEAN]
PllTypeOK ==
  /\ pll_config_status \in Statuses
  /\ config_data \in Seq(LoadedBit) /\ Len(config_data) = Size
  /\ fsm \in FsmStates
  /\ pll.chain \in Seq(LoadedBit) /\ Len(pll.chain) = PLL_CONFIG_DATA_BITS
  /\ pll.working \in BOOLEAN /\ pll.scandone \in BOOLEAN
  /\ fw \in FirmwareStates

\* The PLL works on an update, or its answer is on its way to the state machine.
InFlight == pll.working \/ pll.scandone \/ fsm.scandone_prev
\* The PLL is about to be told.
ToldToUpdate == fsm.configupdate_pre \/ fsm.configupdate

(* What the block's registers say of each other: it shifts, is enabled and  *)
(* tells the PLL in its states only, and one update at a time is under way.  *)
BlockInv ==
  /\ fsm.state = "idle" =>
       /\ ~ fsm.scan_shift /\ ~ fsm.scanclkena /\ ~ ToldToUpdate
       /\ ~ pll.working /\ ~ pll.scandone
  /\ fsm.state = "shift" =>
       /\ fsm.scanclkena /\ (fsm.scan_shift <=> fsm.shift_ctr < PLL_CONFIG_DATA_BITS)
       /\ ~ ToldToUpdate /\ ~ InFlight
  /\ fsm.state = "waitresp" => ~ fsm.scan_shift /\ ~ fsm.scanclkena
  /\ fsm.state # "idle" => pll_config_status.busy /\ ~ fsm.areset_strobe
  /\ ToldToUpdate => ~ InFlight
  /\ fsm.configupdate_pre => ~ fsm.configupdate
  /\ pll.scandone => ~ pll.working /\ ~ fsm.scandone_prev
  /\ fsm.scandone_prev => ~ pll.working

(* Where the firmware is in its call and what the registers hold by then:    *)
(* the data and the number asked for, and a block at rest before an update,  *)
(* since a reset ends one that was waiting.                                  *)
CallInv ==
  /\ fw.left > 0 => fw.pc \in {"wait", "done"}
  /\ pll_config_status.reset => fw.pc = "release"
  /\ fw.pc \in {"target", "switch", "switched", "busy", "release", "update"} => config_data = Data(fw.id)
  /\ fw.pc \in {"switch", "switched", "busy", "release", "update", "wait"} =>
       pll_config_status.t_config_id = fw.id
  /\ fw.pc = "release" /\ ~ pll_config_status.reset => fsm.state = "idle"
  /\ fw.pc = "update" => fsm.state = "idle"

\* How many bits have been shifted so far.
Shifts == IF fsm.shift_ctr = PLL_CONFIG_DATA_BITS THEN 0 ELSE PLL_CONFIG_DATA_BITS - fsm.shift_ctr - 1

\* Cycles that have passed since the update, up to the gap, and where the block is by then.
Spent == CallGap - fw.left
Target == pll_config_status.t_config_id
AboutToShift == fsm.state = "idle" /\ pll_config_status.update /\ config_data = Data(Target) /\ ~ fw.doubt
Shifting ==
  /\ fsm.state = "shift" /\ Spent = 1 + PLL_CONFIG_DATA_BITS - fsm.shift_ctr /\ ~ fw.doubt
  /\ \A j \in 1 .. Size - Shifts : config_data[j] = Data(Target)[j + Shifts]
  /\ \A j \in 1 .. Shifts : pll.chain[PLL_CONFIG_DATA_BITS - Shifts + j] = Data(Target)[UnusedBits + j]
AwaitingAnswer ==
  /\ fsm.state = "waitresp" /\ Spent >= PLL_CONFIG_DATA_BITS + 2
  /\ ~ fw.doubt => pll.chain = ScanChain(Target)
  /\ fsm.configupdate_pre <=> Spent = PLL_CONFIG_DATA_BITS + 2
  /\ fsm.configupdate <=> Spent = PLL_CONFIG_DATA_BITS + 3
  /\ pll.scandone \/ fsm.scandone_prev => pll.runs = pll.chain
\* Between two updates the number of the block is that of what the PLL runs with.
Rests ==
  /\ fsm.state = "idle" /\ Spent >= PLL_CONFIG_DATA_BITS + 4
  /\ ~ fw.doubt /\ fw.pc \notin {"release", "update"} => pll.runs = ScanChain(pll_config_status.c_config_id)

\* The gap between the calls is long enough for the whole of the shift.
UpdateInv ==
  IF Spent = 0 THEN AboutToShift
  ELSE ~ pll_config_status.update /\ (Shifting \/ AwaitingAnswer \/ Rests)

\* What has been asked for is the number of the update under way or else the block's number.
AskedInv ==
  fw.pc \in {"wait", "done"} /\ ~ fw.refused /\ ~ fw.doubt =>
    fw.id = IF Finished THEN pll_config_status.c_config_id ELSE Target

(* The inductive invariant.  RunsAsAsked alone is not: the configuration     *)
(* that the PLL takes over is the one the chain holds after the last bit, so *)
(* each bit that is still to come has to be followed.                        *)
PllInv == PllTypeOK /\ BlockInv /\ CallInv /\ UpdateInv /\ AskedInv
--------------------------------------------------------------------------------
(* A status with fields of the right types is one. *)
LEMMA StatusType ==
  ASSUME NEW s, DOMAIN s = Fields, s = [f \in Fields |-> s[f]],
         s["reset"] \in BOOLEAN, s["update"] \in BOOLEAN, s["busy"] \in BOOLEAN,
         s["t_config_id"] \in Number, s["c_config_id"] \in Number
  PROVE  s \in Statuses
  BY SMT DEF Statuses, Fields

(* A cycle in which the firmware writes no status. *)
LEMMA StatusStays ==
  ASSUME PllTypeOK, pll_config_status' = Status(NoFields)
  PROVE  /\ pll_config_status' \in Statuses
         /\ pll_config_status'.reset <=> pll_config_status.reset
         /\ ~ pll_config_status'.update
         /\ pll_config_status'.t_config_id = pll_config_status.t_config_id
         /\ pll_config_status'.c_config_id =
              IF Answered THEN pll_config_status.t_config_id ELSE pll_config_status.c_config_id
         /\ pll_config_status'.busy <=>
              IF fsm.state = "idle" THEN pll_config_status.update ELSE pll_config_status.busy
<1> DEFINE old == pll_config_status
           new == pll_config_status'
<1>1. DOMAIN old = Fields /\ DOMAIN NoFields = {}
  BY DEF PllTypeOK, Statuses, Fields, NoFields
<1>2. new = [f \in Fields |->
               CASE f = "update" -> FALSE
                 [] f = "busy" /\ fsm.state = "idle" -> old.update
                 [] f = "c_config_id" /\ Answered -> old.t_config_id
                 [] OTHER -> old[f]]
  BY <1>1 DEF Status
<1>3. /\ DOMAIN new = Fields /\ new = [f \in Fields |-> new[f]]
      /\ new["reset"] = old.reset /\ new["update"] = FALSE /\ new["t_config_id"] = old.t_config_id
      /\ new["c_config_id"] = IF Answered THEN old.t_config_id ELSE old.c_config_id
      /\ new["busy"] = IF fsm.state = "idle" THEN old.update ELSE old.busy
  BY <1>2 DEF Fields
<1>4. /\ old.reset \in BOOLEAN /\ old.update \in BOOLEAN /\ old.busy \in BOOLEAN
      /\ old.t_config_id \in Number /\ old.c_config_id \in Number
  BY DEF PllTypeOK, Statuses
<1> HIDE DEF old, new
<1>5. new \in Statuses
  BY <1>3, <1>4, StatusType
<1> QED
  BY <1>3, <1>5 DEF old, new

(* A cycle in which the firmware writes one field of it. *)
LEMMA StatusWritten ==
  ASSUME PllTypeOK, NEW w, NEW v,
         \/ w \in {"reset", "update"} /\ v \in BOOLEAN
         \/ w = "t_config_id" /\ v \in Number,
         pll_config_status' = Status([g \in {w} |-> v])
  PROVE  /\ pll_config_status' \in Statuses
         /\ pll_config_status'[w] = v
         /\ w # "reset" => (pll_config_status'.reset <=> pll_config_status.reset)
         /\ w # "update" => (pll_config_status'.update <=> pll_config_status.update)
         /\ w # "t_config_id" => pll_config_status'.t_config_id = pll_config_status.t_config_id
         /\ pll_config_status'.c_config_id =
              IF Answered THEN pll_config_status.t_config_id ELSE pll_config_status.c_config_id
         /\ pll_config_status'.busy <=>
              IF fsm.state = "idle" THEN pll_config_status.update ELSE pll_config_status.busy
<1> DEFINE old == pll_config_status
           new == pll_config_status'
           written == [g \in {w} |-> v]
<1>1. DOMAIN old = Fields /\ DOMAIN written = {w} /\ written[w] = v /\ w \in Fields
  BY DEF PllTypeOK, Statuses, Fields
<1> HIDE DEF written
<1>2. new = [f \in Fields |->
               CASE f = w -> v
                 [] f = "busy" /\ fsm.state = "idle" -> old.update
                 [] f = "c_config_id" /\ Answered -> old.t_config_id
                 [] OTHER -> old[f]]
  <2>1. new = [f \in Fields |->
               CASE f \in {w} -> written[f]
                 [] f = "update" /\ {w} = {} -> FALSE
                 [] f = "busy" /\ fsm.state = "idle" -> old.update
                 [] f = "c_config_id" /\ Answered -> old.t_config_id
                 [] OTHER -> old[f]]
    BY <1>1 DEF Status, written
  <2> HIDE DEF new, old
  <2> QED
    BY <1>1, <2>1
<1>3. /\ DOMAIN new = Fields /\ new = [f \in Fields |-> new[f]] /\ new[w] = v
      /\ w # "reset" => new["reset"] = old.reset
      /\ w # "update" => new["update"] = old.update
      /\ w # "t_config_id" => new["t_config_id"] = old.t_config_id
      /\ new["c_config_id"] = IF Answered THEN old.t_config_id ELSE old.c_config_id
      /\ new["busy"] = IF fsm.state = "idle" THEN old.update ELSE old.busy
  BY <1>1, <1>2 DEF Fields
<1>4. /\ old.reset \in BOOLEAN /\ old.update \in BOOLEAN /\ old.busy \in BOOLEAN
      /\ old.t_config_id \in Number /\ old.c_config_id \in Number
  BY DEF PllTypeOK, Statuses
<1> HIDE DEF old, new
<1>5. new \in Statuses
  <2>1. new["reset"] \in BOOLEAN /\ new["update"] \in BOOLEAN
    BY <1>3, <1>4
  <2>2. new["t_config_id"] \in Number /\ new["c_config_id"] \in Number
    BY <1>3, <1>4
  <2>3. new["busy"] \in BOOLEAN
    BY <1>3, <1>4
  <2> QED
    BY <1>3, <2>1, <2>2, <2>3, StatusType
<1> QED
  BY <1>3, <1>5 DEF old, new

(* A cycle of the state machine. *)
LEMMA FsmStep ==
  ASSUME PllTypeOK, fsm' = Fsm
  PROVE  /\ fsm' \in FsmStates
         /\ fsm'.scandone_prev <=> pll.scandone
         /\ fsm'.configupdate <=> fsm.configupdate_pre
         /\ fsm.state = "idle" =>
              /\ fsm'.state = IF pll_config_status.update THEN "shift" ELSE "idle"
              /\ fsm'.scan_shift <=> fsm.scan_shift
              /\ fsm'.scanclkena <=> fsm.scanclkena \/ pll_config_status.update
              /\ fsm'.configupdate_pre <=> fsm.configupdate_pre
              /\ ~ fsm'.areset_strobe
              /\ pll_config_status.update => fsm'.shift_ctr = PLL_CONFIG_DATA_BITS
         /\ fsm.state = "shift" /\ fsm.shift_ctr > 0 =>
              /\ fsm'.state = "shift" /\ fsm'.scan_shift /\ fsm'.shift_ctr = fsm.shift_ctr - 1
              /\ fsm'.scanclkena <=> fsm.scanclkena
              /\ fsm'.configupdate_pre <=> fsm.configupdate_pre
              /\ fsm'.areset_strobe <=> fsm.areset_strobe
         /\ fsm.state = "shift" /\ fsm.shift_ctr = 0 =>
              /\ fsm'.state = "waitresp" /\ ~ fsm'.scan_shift /\ ~ fsm'.scanclkena
              /\ fsm'.configupdate_pre
              /\ fsm'.areset_strobe <=> fsm.areset_strobe
         /\ fsm.state = "waitresp" =>
              /\ fsm'.state = IF pll_config_status.reset \/ fsm.scandone_prev THEN "idle" ELSE "waitresp"
              /\ fsm'.scan_shift <=> fsm.scan_shift
              /\ fsm'.scanclkena <=> fsm.scanclkena
              /\ ~ fsm'.configupdate_pre
              /\ fsm'.areset_strobe <=>
                   fsm.areset_strobe \/ (~ pll_config_status.reset /\ fsm.scandone_prev)
<1>1. /\ fsm \in FsmStates /\ pll.scandone \in BOOLEAN
      /\ pll_config_status.reset \in BOOLEAN /\ pll_config_status.update \in BOOLEAN
  BY DEF PllTypeOK, Statuses
<1> DEFINE f == [fsm EXCEPT !.scandone_prev = pll.scandone, !.configupdate = fsm.configupdate_pre]
<1>2. CASE fsm.state = "idle" /\ pll_config_status.update
  <2>1. fsm' = [f EXCEPT !.areset_strobe = FALSE, !.scanclkena = TRUE,
                         !.shift_ctr = PLL_CONFIG_DATA_BITS, !.state = "shift"]
    BY <1>2 DEF Fsm
  <2>2. PLL_CONFIG_DATA_BITS \in 0 .. PLL_CONFIG_DATA_BITS
    BY CallGapAssumption
  <2> QED
    BY <1>1, <1>2, <2>1, <2>2 DEF FsmStates
<1>3. CASE fsm.state = "idle" /\ ~ pll_config_status.update
  <2>1. fsm' = [f EXCEPT !.areset_strobe = FALSE]
    BY <1>3 DEF Fsm
  <2> QED
    BY <1>1, <1>3, <2>1 DEF FsmStates
<1>4. CASE fsm.state = "shift" /\ fsm.shift_ctr > 0
  <2>1. fsm' = [f EXCEPT !.scan_shift = TRUE, !.shift_ctr = fsm.shift_ctr - 1]
    BY <1>1, <1>4 DEF Fsm, FsmStates
  <2>2. fsm.shift_ctr - 1 \in 0 .. PLL_CONFIG_DATA_BITS
    BY <1>1, <1>4, CallGapAssumption DEF FsmStates
  <2>3. fsm' \in FsmStates
    BY <1>1, <2>1, <2>2 DEF FsmStates
  <2>4. /\ fsm'.scandone_prev = pll.scandone /\ fsm'.configupdate = fsm.configupdate_pre
        /\ fsm'.state = "shift" /\ fsm'.scan_shift = TRUE /\ fsm'.shift_ctr = fsm.shift_ctr - 1
        /\ fsm'.scanclkena = fsm.scanclkena /\ fsm'.configupdate_pre = fsm.configupdate_pre
        /\ fsm'.areset_strobe = fsm.areset_strobe
    BY <1>1, <1>4, <2>1 DEF FsmStates
  <2>5. ~ (fsm.shift_ctr = 0)
    BY <1>4
  <2> QED
    BY <1>4, <2>3, <2>4, <2>5
<1>5. CASE fsm.state = "shift" /\ fsm.shift_ctr = 0
  <2>1. fsm' = [f EXCEPT !.scan_shift = FALSE, !.scanclkena = FALSE, !.configupdate_pre = TRUE,
                         !.state = "waitresp"]
    BY <1>1, <1>5 DEF Fsm, FsmStates
  <2>2. fsm' \in FsmStates
    BY <1>1, <2>1 DEF FsmStates
  <2>3. /\ fsm'.scandone_prev = pll.scandone /\ fsm'.configupdate = fsm.configupdate_pre
        /\ fsm'.state = "waitresp" /\ fsm'.scan_shift = FALSE /\ fsm'.scanclkena = FALSE
        /\ fsm'.configupdate_pre = TRUE /\ fsm'.areset_strobe = fsm.areset_strobe
    BY <1>1, <1>5, <2>1 DEF FsmStates
  <2>4. ~ (fsm.shift_ctr > 0)
    BY <1>5
  <2> QED
    BY <1>5, <2>2, <2>3, <2>4
<1>6. CASE fsm.state = "waitresp"
  <2>1. fsm' = [f EXCEPT !.configupdate_pre = FALSE,
                         !.areset_strobe = @ \/ (~ pll_config_status.reset /\ fsm.scandone_prev),
                         !.state = IF pll_config_status.reset \/ fsm.scandone_prev THEN "idle" ELSE "waitresp"]
    BY <1>1, <1>6 DEF Fsm, FsmStates
  <2> QED
    BY <1>1, <1>6, <2>1 DEF FsmStates
<1> QED
  <2>1. fsm.state \in {"idle", "shift", "waitresp"} /\ fsm.shift_ctr \in 0 .. PLL_CONFIG_DATA_BITS
    BY <1>1 DEF FsmStates
  <2> QED
    BY <1>2, <1>3, <1>4, <1>5, <1>6, <2>1, CallGapAssumption

(* A register that shifts keeps its length and loses its first bit. *)
LEMMA Rotate ==
  ASSUME NEW S, NEW s \in Seq(S), NEW n \in Nat \ {0}, Len(s) = n, NEW x \in S
  PROVE  /\ Append(Tail(s), x) \in Seq(S) /\ Len(Append(Tail(s), x)) = n
         /\ \A j \in 1 .. n - 1 : Append(Tail(s), x)[j] = s[j + 1]
         /\ Append(Tail(s), x)[n] = x
<1>1. s # <<>> /\ Tail(s) \in Seq(S) /\ Len(Tail(s)) = n - 1
  OBVIOUS
<1>2. \A j \in 1 .. n - 1 : Tail(s)[j] = s[j + 1]
  OBVIOUS
<1> QED
  BY <1>1, <1>2

(* A cycle of the PLL. *)
LEMMA PllStep ==
  ASSUME PllTypeOK, Pll
  PROVE  /\ pll'.chain \in Seq(LoadedBit) /\ Len(pll'.chain) = PLL_CONFIG_DATA_BITS
         /\ pll'.working \in BOOLEAN /\ pll'.scandone \in BOOLEAN
         /\ pll'.chain = IF fsm.scanclkena THEN Append(Tail(pll.chain), config_data[UnusedBits + 1])
                         ELSE pll.chain
         /\ pll'.scandone => pll.working /\ ~ areset /\ pll'.runs = pll.chain
         /\ ~ pll'.scandone => pll'.runs = IF fsm.configupdate THEN <<>> ELSE pll.runs
         /\ pll'.working <=> (pll.working \/ fsm.configupdate) /\ ~ areset /\ ~ pll'.scandone
<1>1. PICK done \in BOOLEAN :
        /\ done => pll.working /\ ~ areset
        /\ pll' = [chain |-> IF fsm.scanclkena THEN Append(Tail(pll.chain), config_data[UnusedBits + 1])
                             ELSE pll.chain,
                   runs |-> IF done THEN pll.chain ELSE IF fsm.configupdate THEN <<>> ELSE pll.runs,
                   working |-> (pll.working \/ fsm.configupdate) /\ ~ areset /\ ~ done,
                   scandone |-> done]
  BY DEF Pll
<1>2. pll'.chain \in Seq(LoadedBit) /\ Len(pll'.chain) = PLL_CONFIG_DATA_BITS
  <2>1. config_data[UnusedBits + 1] \in LoadedBit
    BY CallGapAssumption DEF PllTypeOK, Size
  <2> QED
    BY <1>1, <2>1, Rotate, CallGapAssumption DEF PllTypeOK
<1>3. /\ (pll'.working <=> (pll.working \/ fsm.configupdate) /\ ~ areset /\ ~ done) /\ pll'.scandone = done
      /\ pll'.working \in BOOLEAN
      /\ pll'.runs = IF done THEN pll.chain ELSE IF fsm.configupdate THEN <<>> ELSE pll.runs
      /\ pll'.chain = IF fsm.scanclkena THEN Append(Tail(pll.chain), config_data[UnusedBits + 1])
                         ELSE pll.chain
  BY <1>1
<1> QED
  BY <1>1, <1>2, <1>3

(* What the block's registers say of each other is kept while a reset is not given to a PLL being told. *)
LEMMA BlockStep ==
  ASSUME PllTypeOK, BlockInv, pll_config_status.reset => ~ ToldToUpdate, fsm' = Fsm, Pll,
         pll_config_status'.busy <=>
              IF fsm.state = "idle" THEN pll_config_status.update ELSE pll_config_status.busy
  PROVE  BlockInv'
<1> USE FsmStep, PllStep DEF BlockInv, ToldToUpdate, InFlight, areset
<1>0. fsm.state \in {"idle", "shift", "waitresp"} /\ fsm.shift_ctr \in 0 .. PLL_CONFIG_DATA_BITS
  BY DEF PllTypeOK, FsmStates
<1>1. CASE fsm.state = "idle"
  BY <1>1
<1>2. CASE fsm.state = "shift" /\ fsm.shift_ctr > 0
  BY <1>0, <1>2, CallGapAssumption
<1>3. CASE fsm.state = "shift" /\ fsm.shift_ctr = 0
  BY <1>3
<1>4. CASE fsm.state = "waitresp"
  BY <1>4
<1> QED
  BY <1>0, <1>1, <1>2, <1>3, <1>4, CallGapAssumption

(* A configuration fills the registers, and its part of them the chain. *)
LEMMA DataType ==
  ASSUME NEW id \in Number
  PROVE  /\ Data(id) \in Seq(LoadedBit) /\ Len(Data(id)) = Size
         /\ ScanChain(id) \in Seq(LoadedBit) /\ Len(ScanChain(id)) = PLL_CONFIG_DATA_BITS
         /\ \A j \in 1 .. PLL_CONFIG_DATA_BITS : ScanChain(id)[j] = Data(id)[UnusedBits + j]
<1>1. Size \in Nat /\ UnusedBits \in Nat /\ PLL_CONFIG_DATA_BITS \in Nat \ {0}
  BY CallGapAssumption DEF Size
<1>2. Data(id) = [k \in 1 .. Size |-> <<id, k>>]
  BY DEF Data, Size
<1>3. Data(id) \in Seq(LoadedBit) /\ Len(Data(id)) = Size
  <2>1. \A k \in 1 .. Size : <<id, k>> \in LoadedBit
    BY <1>1 DEF LoadedBit
  <2> QED
    BY <1>1, <1>2, <2>1
<1> DEFINE d == Data(id)
<1>4. ScanChain(id) = SubSeq(d, UnusedBits + 1, Size)
  BY DEF ScanChain, Size
<1> HIDE DEF d
<1>5. d \in Seq(LoadedBit) /\ Len(d) = Size
  BY <1>3 DEF d
<1>6. UnusedBits + 1 \in 1 .. Size /\ Size \in 1 .. Size /\ Size - (UnusedBits + 1) + 1 = PLL_CONFIG_DATA_BITS
  BY <1>1 DEF Size
<1>7. SubSeq(d, UnusedBits + 1, Size) = [j \in 1 .. PLL_CONFIG_DATA_BITS |-> d[UnusedBits + j]]
  BY <1>1, <1>5, <1>6
<1>8. \A j \in 1 .. PLL_CONFIG_DATA_BITS : d[UnusedBits + j] \in LoadedBit
  BY <1>1, <1>5 DEF Size
<1>9. /\ ScanChain(id) \in Seq(LoadedBit) /\ Len(ScanChain(id)) = PLL_CONFIG_DATA_BITS
      /\ \A j \in 1 .. PLL_CONFIG_DATA_BITS : ScanChain(id)[j] = d[UnusedBits + j]
  <2> DEFINE c == ScanChain(id)
  <2>1. c = [j \in 1 .. PLL_CONFIG_DATA_BITS |-> d[UnusedBits + j]]
    BY <1>4, <1>7
  <2> HIDE DEF c
  <2>2. c \in Seq(LoadedBit) /\ Len(c) = PLL_CONFIG_DATA_BITS
        /\ \A j \in 1 .. PLL_CONFIG_DATA_BITS : c[j] = d[UnusedBits + j]
    BY <1>1, <1>8, <2>1
  <2> QED
    BY <2>2 DEF c
<1> QED
  BY <1>3, <1>9 DEF d

\* What a cycle does, whatever the firmware writes to the status.
CycleNext(data) ==
  /\ fsm' = Fsm /\ Pll
  /\ config_data' = IF fsm.scan_shift THEN Shifted ELSE data
  /\ pll_config_status' \in Statuses
  /\ pll_config_status'.c_config_id =
       IF Answered THEN pll_config_status.t_config_id ELSE pll_config_status.c_config_id
  /\ pll_config_status'.busy <=>
       IF fsm.state = "idle" THEN pll_config_status.update ELSE pll_config_status.busy

(* The cycles of the firmware's steps, without an access to the status and with one. *)
LEMMA ClockCycle ==
  ASSUME PllTypeOK, NEW data, Cycle(NoFields, data)
  PROVE  /\ CycleNext(data)
         /\ pll_config_status'.reset <=> pll_config_status.reset
         /\ ~ pll_config_status'.update
         /\ pll_config_status'.t_config_id = pll_config_status.t_config_id
  BY StatusStays DEF Cycle, CycleNext

(* The one with an access. *)
LEMMA WriteCycle ==
  ASSUME PllTypeOK, NEW w, NEW v,
         \/ w \in {"reset", "update"} /\ v \in BOOLEAN
         \/ w = "t_config_id" /\ v \in Number,
         Writes(w, v)
  PROVE  /\ CycleNext(config_data)
         /\ pll_config_status'[w] = v
         /\ w # "reset" => (pll_config_status'.reset <=> pll_config_status.reset)
         /\ w # "update" => (pll_config_status'.update <=> pll_config_status.update)
         /\ w # "t_config_id" => pll_config_status'.t_config_id = pll_config_status.t_config_id
  BY StatusWritten DEF Writes, Cycle, CycleNext

(* Every cycle keeps the types. *)
LEMMA CycleType ==
  ASSUME PllTypeOK, NEW data \in Seq(LoadedBit), Len(data) = Size, CycleNext(data),
         fw' \in FirmwareStates
  PROVE  PllTypeOK'
<1>1. config_data' \in Seq(LoadedBit) /\ Len(config_data') = Size
  <2>1. Size \in Nat \ {0} /\ 0 \in Nat
    BY CallGapAssumption DEF Size
  <2>2. <<0, 0>> \in LoadedBit
    BY DEF LoadedBit, Number
  <2>3. Shifted \in Seq(LoadedBit) /\ Len(Shifted) = Size
    BY <2>1, <2>2, Rotate DEF Shifted, PllTypeOK
  <2> QED
    BY <2>3 DEF CycleNext
<1> QED
  BY <1>1, FsmStep, PllStep DEF CycleNext, PllTypeOK

(* What the firmware asked for stays what the block does while no other number is written. *)
LEMMA AskedStays ==
  ASSUME PllTypeOK, AskedInv, NEW data, CycleNext(data),
         ~ pll_config_status.reset, ~ pll_config_status'.update, Target' = Target,
         fw.pc \in {"wait", "done"},
         fw'.id = fw.id, fw'.refused <=> fw.refused, fw'.doubt <=> fw.doubt
  PROVE  AskedInv'
<1>1. fsm.state \in {"idle", "shift", "waitresp"} /\ fsm.shift_ctr \in 0 .. PLL_CONFIG_DATA_BITS
  BY DEF PllTypeOK, FsmStates
<1>2. CASE fsm.state = "idle" /\ ~ pll_config_status.update
  <2>1. fsm'.state = "idle"
    BY <1>2, FsmStep DEF CycleNext
  <2>2. pll_config_status'.c_config_id = pll_config_status.c_config_id
    BY <1>2 DEF CycleNext, Answered
  <2> QED
    BY <1>2, <2>1, <2>2 DEF AskedInv, Finished
<1>3. CASE fsm.state = "idle" /\ pll_config_status.update
  <2>1. fsm'.state = "shift"
    BY <1>3, FsmStep DEF CycleNext
  <2> QED
    BY <1>3, <2>1 DEF AskedInv, Finished
<1>4. CASE fsm.state = "shift"
  <2>1. fsm.shift_ctr > 0 \/ fsm.shift_ctr = 0
    BY <1>1
  <2>2. fsm'.state # "idle"
    BY <1>4, <2>1, FsmStep DEF CycleNext
  <2> QED
    BY <1>4, <2>2 DEF AskedInv, Finished
<1>5. CASE fsm.state = "waitresp"
  <2>1. fsm'.state = IF fsm.scandone_prev THEN "idle" ELSE "waitresp"
    BY <1>5, FsmStep DEF CycleNext
  <2>2. fsm.scandone_prev => pll_config_status'.c_config_id = Target
    BY <1>5 DEF CycleNext, Answered, Target
  <2> QED
    BY <1>5, <2>1, <2>2 DEF AskedInv, Finished
<1> QED
  BY <1>1, <1>2, <1>3, <1>4, <1>5

(* No update is about to begin once the gap is over. *)
LEMMA NotUpdating == ASSUME PllInv, fw.left = 0 PROVE ~ pll_config_status.update
  BY CallGapAssumption DEF PllInv, UpdateInv, Spent

(* From one gap to the next update a block at rest stays so, one that waits    *)
(* is answered, ended by a reset or goes on, and the chain is left alone.      *)
LEMMA Resting ==
  ASSUME PllInv, fw.left = 0, NEW data \in Seq(LoadedBit), Len(data) = Size, CycleNext(data),
         fw' \in FirmwareStates, fw'.left = 0, ~ pll_config_status'.update,
         fw.doubt => fw'.doubt,
         Target' = Target \/ fw'.doubt \/ fsm.state = "idle",
         fw.pc \in {"release", "update"} => fw'.pc \in {"release", "update"}
  PROVE  /\ PllTypeOK' /\ BlockInv' /\ UpdateInv'
         /\ config_data' = data
         /\ fsm.state = "idle" =>
              fsm'.state = "idle" /\ pll_config_status'.c_config_id = pll_config_status.c_config_id
         /\ pll_config_status.reset => fsm'.state = "idle"
<1> DEFINE n == PLL_CONFIG_DATA_BITS
<1>1. /\ PllTypeOK /\ BlockInv /\ n \in Nat /\ CallGap \in Nat /\ CallGap > n + 4
      /\ Spent = CallGap /\ Spent' = CallGap
  BY CallGapAssumption DEF PllInv, Spent
<1>2. /\ ~ pll_config_status.update /\ (AwaitingAnswer \/ Rests)
      /\ fsm.state \in {"idle", "waitresp"} /\ ~ ToldToUpdate
  <2>1. ~ Shifting
    BY <1>1 DEF Shifting, PllTypeOK, FsmStates
  <2>2. ~ pll_config_status.update /\ (AwaitingAnswer \/ Rests)
    BY <1>1, <2>1 DEF PllInv, UpdateInv
  <2> QED
    BY <1>1, <2>2 DEF AwaitingAnswer, Rests, BlockInv, ToldToUpdate
<1>3. PllTypeOK'
  BY <1>1, CycleType
<1>4. BlockInv'
  BY <1>1, <1>2, BlockStep DEF CycleNext
<1>5. config_data' = data
  BY <1>1, <1>2 DEF CycleNext, BlockInv
<1>6. ~ ToldToUpdate'
  BY <1>1, <1>2, FsmStep DEF CycleNext, ToldToUpdate
<1>7. fsm.state = "idle" =>
        fsm'.state = "idle" /\ pll_config_status'.c_config_id = pll_config_status.c_config_id
  BY <1>1, <1>2, FsmStep DEF CycleNext, Answered
<1>8. pll_config_status.reset => fsm'.state = "idle"
  BY <1>1, <1>2, FsmStep DEF CycleNext
<1>9. /\ pll'.scandone => pll.working /\ pll'.runs = pll.chain
      /\ ~ pll'.scandone => pll'.runs = pll.runs
      /\ ~ fsm.scanclkena /\ pll'.chain = pll.chain
      /\ fsm'.scandone_prev <=> pll.scandone
  BY <1>1, <1>2, PllStep, FsmStep DEF CycleNext, ToldToUpdate, BlockInv
<1>10. AwaitingAnswer' \/ Rests'
  <2>1. CASE fsm.state = "idle"
    <3>1. pll'.runs = pll.runs
      BY <1>1, <1>9, <2>1 DEF BlockInv
    <3>2. Rests
      BY <1>2, <2>1 DEF AwaitingAnswer
    <3> QED
      BY <1>1, <1>7, <2>1, <3>1, <3>2 DEF Rests
  <2>2. CASE fsm.state = "waitresp" /\ pll_config_status.reset
    <3>1. fw'.pc \in {"release", "update"}
      BY <2>2 DEF PllInv, CallInv
    <3> QED
      BY <1>1, <1>8, <2>2, <3>1 DEF Rests
  <2>3. CASE fsm.state = "waitresp" /\ ~ pll_config_status.reset /\ fsm.scandone_prev
    <3>1. AwaitingAnswer /\ pll.runs = pll.chain /\ ~ pll.working
      BY <1>1, <1>2, <2>3 DEF AwaitingAnswer, Rests, BlockInv
    <3>2. fsm'.state = "idle" /\ pll_config_status'.c_config_id = Target
      BY <1>1, <2>3, FsmStep DEF CycleNext, Answered, Target
    <3>3. pll'.runs = pll.chain
      BY <1>9, <3>1
    <3> QED
      BY <1>1, <3>1, <3>2, <3>3 DEF Rests, AwaitingAnswer
  <2>4. CASE fsm.state = "waitresp" /\ ~ pll_config_status.reset /\ ~ fsm.scandone_prev
    <3>1. AwaitingAnswer
      BY <1>2, <2>4 DEF Rests
    <3>2. fsm'.state = "waitresp"
      BY <1>1, <2>4, FsmStep DEF CycleNext
    <3>3. pll'.scandone \/ fsm'.scandone_prev => pll'.runs = pll'.chain
      BY <1>9, <3>1 DEF AwaitingAnswer
    <3>4. ~ fw'.doubt => pll'.chain = ScanChain(Target')
      BY <1>9, <2>4, <3>1 DEF AwaitingAnswer
    <3>5. ~ fsm'.configupdate_pre /\ ~ fsm'.configupdate
      BY <1>6 DEF ToldToUpdate
    <3> QED
      BY <1>1, <3>2, <3>3, <3>4, <3>5 DEF AwaitingAnswer
  <2> QED
    BY <1>2, <2>1, <2>2, <2>3, <2>4
<1>11. UpdateInv'
  BY <1>1, <1>10 DEF UpdateInv
<1> QED
  BY <1>3, <1>4, <1>5, <1>7, <1>8, <1>11

(* The firmware goes on without an access. *)
LEMMA QuietStep ==
  ASSUME PllInv, Clock, fw' \in FirmwareStates, fw.left = 0, fw'.left = 0,
         fw'.doubt <=> fw.doubt, fw'.id = fw.id,
         \/ fw.pc \notin {"release", "update"} /\ fw'.pc = "done" /\ (fw'.refused \/ (Same /\ Finished))
         \/ fw'.pc = fw.pc /\ (fw'.refused <=> fw.refused)
         \/ fw.pc = "wait" /\ fw'.pc = "done" /\ (fw'.refused <=> fw.refused)
         \/ fw.pc \in {"switch", "switched"} /\ fw'.pc = "busy"
         \/ fw.pc = "busy" /\ fw'.pc = "release" /\ ~ pll_config_status.busy
  PROVE  PllInv'
<1>1. /\ CycleNext(config_data)
      /\ pll_config_status'.reset <=> pll_config_status.reset
      /\ ~ pll_config_status'.update
      /\ pll_config_status'.t_config_id = pll_config_status.t_config_id
  BY ClockCycle DEF PllInv, Clock
<1>2. config_data \in Seq(LoadedBit) /\ Len(config_data) = Size
  BY DEF PllInv, PllTypeOK
<1>3. fw.pc \in {"release", "update"} => fw'.pc \in {"release", "update"}
  OBVIOUS
<1>4. /\ PllTypeOK' /\ BlockInv' /\ UpdateInv' /\ config_data' = config_data
      /\ fsm.state = "idle" =>
           fsm'.state = "idle" /\ pll_config_status'.c_config_id = pll_config_status.c_config_id
      /\ pll_config_status.reset => fsm'.state = "idle"
  BY <1>1, <1>2, <1>3, Resting DEF Target
<1>5. ~ pll_config_status.busy => fsm.state = "idle"
  BY DEF PllInv, BlockInv, PllTypeOK, FsmStates
<1>6. CallInv'
  BY <1>1, <1>4, <1>5 DEF PllInv, CallInv
<1>7. AskedInv'
  <2>1. CASE fw'.pc \notin {"wait", "done"} \/ fw'.refused
    BY <2>1 DEF AskedInv
  <2>2. CASE fw'.pc = "done" /\ Same /\ Finished
    BY <1>1, <1>4, <2>2 DEF AskedInv, Finished, Same
  <2>3. CASE fw.pc \in {"wait", "done"} /\ (fw'.refused <=> fw.refused)
    <3>1. ~ pll_config_status.reset
      BY <2>3 DEF PllInv, CallInv
    <3> QED
      BY <1>1, <2>3, <3>1, AskedStays DEF PllInv, Target
  <2> QED
    BY <2>1, <2>2, <2>3
<1> QED
  BY <1>4, <1>6, <1>7 DEF PllInv

(* Every step before the update. *)
LEMMA CallsStep ==
  ASSUME PllInv,
         Begins \/ Unchanged \/ WriteData \/ WriteTarget \/ SwitchFails \/ OnFixedClock
           \/ ResetIfBusy \/ Release
  PROVE  PllInv'
<1>1. fw \in FirmwareStates /\ PllTypeOK /\ (fw.pc \notin {"wait", "done"} => fw.left = 0)
  BY DEF PllInv, PllTypeOK, CallInv, FirmwareStates
<1>2. config_data \in Seq(LoadedBit) /\ Len(config_data) = Size
  BY DEF PllInv, PllTypeOK
<1>3. CASE Begins
  <2>1. PICK id \in Configs : fw' = [fw EXCEPT !.pc = "compare", !.id = id, !.refused = FALSE]
    BY <1>3 DEF Begins
  <2>2. /\ fw' \in FirmwareStates /\ fw.pc = "done" /\ fw'.pc = "compare" /\ (fw'.doubt <=> fw.doubt)
        /\ fw.left = 0 /\ fw'.left = 0
    BY <1>1, <1>3, <2>1 DEF Begins, At, FirmwareStates, Number
  <2>3. /\ CycleNext(config_data)
        /\ ~ pll_config_status'.reset
        /\ pll_config_status'.update <=> pll_config_status.update
        /\ pll_config_status'.t_config_id = pll_config_status.t_config_id
    <3>1. Writes("reset", FALSE) /\ "reset" # "t_config_id" /\ "reset" # "update"
          /\ FALSE \in BOOLEAN /\ "reset" \in {"reset", "update"}
      BY <1>3, Zenon DEF Begins
    <3>2. /\ CycleNext(config_data)
          /\ pll_config_status'["reset"] = FALSE
          /\ pll_config_status'.update <=> pll_config_status.update
          /\ pll_config_status'.t_config_id = pll_config_status.t_config_id
      BY ONLY <1>1, <3>1, WriteCycle
    <3> QED
      BY <3>2
  <2>4. ~ pll_config_status.update
    BY <2>2, NotUpdating
  <2>5. /\ PllTypeOK' /\ BlockInv' /\ UpdateInv'
    BY <1>2, <2>2, <2>3, <2>4, Resting DEF Target
  <2>6. CallInv' /\ AskedInv'
    BY <2>2, <2>3 DEF CallInv, AskedInv
  <2> QED
    BY <2>5, <2>6 DEF PllInv
<1>4. CASE Unchanged
  <2>1. fw' = [fw EXCEPT !.pc = "done", !.refused = ~ Finished] /\ fw.pc = "compare" /\ Same /\ Clock
    BY <1>4 DEF Unchanged, At
  <2>2. /\ fw' \in FirmwareStates /\ fw'.pc = "done" /\ (fw'.doubt <=> fw.doubt) /\ fw'.id = fw.id
        /\ fw.left = 0 /\ fw'.left = 0 /\ fw'.refused = (~ Finished)
    <3>1. (~ Finished) \in BOOLEAN
      BY DEF Finished
    <3> QED
      BY <1>1, <2>1, <3>1 DEF FirmwareStates
  <2> QED
    BY <2>1, <2>2, QuietStep
<1>5. CASE WriteData
  <2>1. fw' = [fw EXCEPT !.pc = "target"] /\ fw.pc = "compare" /\ Cycle(NoFields, Data(fw.id))
    BY <1>5 DEF WriteData, At, Goto
  <2>2. /\ fw' \in FirmwareStates /\ fw'.pc = "target" /\ (fw'.doubt <=> fw.doubt) /\ fw'.id = fw.id
        /\ fw.left = 0 /\ fw'.left = 0
    BY <1>1, <2>1 DEF FirmwareStates
  <2>3. /\ CycleNext(Data(fw.id))
        /\ pll_config_status'.reset <=> pll_config_status.reset
        /\ ~ pll_config_status'.update
        /\ pll_config_status'.t_config_id = pll_config_status.t_config_id
    BY <1>1, <2>1, ClockCycle
  <2>4. Data(fw.id) \in Seq(LoadedBit) /\ Len(Data(fw.id)) = Size
    BY <1>1, DataType DEF FirmwareStates
  <2>5. /\ PllTypeOK' /\ BlockInv' /\ UpdateInv' /\ config_data' = Data(fw.id)
    BY <2>1, <2>2, <2>3, <2>4, Resting DEF Target
  <2>6. CallInv' /\ AskedInv'
    BY <2>1, <2>2, <2>3, <2>5 DEF PllInv, CallInv, AskedInv
  <2> QED
    BY <2>5, <2>6 DEF PllInv
<1>6. CASE WriteTarget
  <2> DEFINE doubt == fw.doubt \/ (~ Finished /\ pll_config_status.t_config_id # fw.id)
  <2>1. PICK next \in {"switch", "switched"} :
           fw' = [fw EXCEPT !.pc = next, !.doubt = doubt] /\ fw.pc = "target" /\ Writes("t_config_id", fw.id)
    BY <1>6 DEF WriteTarget, At
  <2> HIDE DEF doubt
  <2>2. doubt \in BOOLEAN
    BY <1>1 DEF doubt, FirmwareStates
  <2>3. /\ fw' \in FirmwareStates /\ fw'.pc \in {"switch", "switched"}
        /\ fw'.id = fw.id /\ fw.left = 0 /\ fw'.left = 0 /\ fw'.doubt = doubt
    BY <1>1, <2>1, <2>2 DEF FirmwareStates
  <2>4. /\ CycleNext(config_data)
        /\ pll_config_status'.reset <=> pll_config_status.reset
        /\ pll_config_status'.update <=> pll_config_status.update
        /\ pll_config_status'.t_config_id = fw.id
    <3>1. fw.id \in Number
      BY <1>1 DEF FirmwareStates
    <3> QED
      BY <1>1, <2>1, <3>1, WriteCycle
  <2>5. ~ pll_config_status.update
    BY <2>3, NotUpdating
  <2>6. /\ fw.doubt => fw'.doubt
        /\ Target' = Target \/ fw'.doubt \/ fsm.state = "idle"
    BY <2>3, <2>4, <2>5 DEF doubt, Finished, Target
  <2>7. /\ PllTypeOK' /\ BlockInv' /\ UpdateInv' /\ config_data' = config_data
    BY <1>2, <2>1, <2>3, <2>4, <2>5, <2>6, Resting
  <2>8. CallInv' /\ AskedInv'
    BY <2>1, <2>3, <2>4, <2>7 DEF PllInv, CallInv, AskedInv
  <2> QED
    BY <2>7, <2>8 DEF PllInv
<1>7. CASE SwitchFails
  <2>1. fw' = [fw EXCEPT !.pc = "done", !.refused = TRUE] /\ fw.pc = "switched" /\ Clock
    BY <1>7 DEF SwitchFails, At
  <2>2. /\ fw' \in FirmwareStates /\ fw'.pc = "done" /\ (fw'.doubt <=> fw.doubt) /\ fw'.id = fw.id
        /\ fw'.refused /\ fw.left = 0 /\ fw'.left = 0
    BY <1>1, <2>1 DEF FirmwareStates
  <2> QED
    BY <2>1, <2>2, QuietStep
<1>8. CASE OnFixedClock
  <2>1. fw' = [fw EXCEPT !.pc = "busy"] /\ fw.pc \in {"switch", "switched"} /\ Clock
    BY <1>8 DEF OnFixedClock, At, Goto
  <2>2. /\ fw' \in FirmwareStates /\ fw'.pc = "busy" /\ (fw'.doubt <=> fw.doubt) /\ fw'.id = fw.id
        /\ fw.left = 0 /\ fw'.left = 0
    BY <1>1, <2>1 DEF FirmwareStates
  <2> QED
    BY <2>1, <2>2, QuietStep
<1>9. CASE ResetIfBusy
  <2>1. fw' = [fw EXCEPT !.pc = "release"] /\ fw.pc = "busy"
    BY <1>9 DEF ResetIfBusy, At, Goto
  <2>2. /\ fw' \in FirmwareStates /\ fw'.pc = "release" /\ (fw'.doubt <=> fw.doubt) /\ fw'.id = fw.id
        /\ fw.left = 0 /\ fw'.left = 0
    BY <1>1, <2>1 DEF FirmwareStates
  <2>3. CASE ~ pll_config_status.busy
    <3>1. Clock
      BY <1>9, <2>3 DEF ResetIfBusy
    <3> QED
      BY <2>1, <2>2, <2>3, <3>1, QuietStep
  <2>4. CASE pll_config_status.busy
    <3>1. Writes("reset", TRUE)
      BY <1>9, <2>4 DEF ResetIfBusy
    <3>2. /\ CycleNext(config_data)
          /\ pll_config_status'.reset
          /\ pll_config_status'.update <=> pll_config_status.update
          /\ pll_config_status'.t_config_id = pll_config_status.t_config_id
      BY <1>1, <3>1, WriteCycle
    <3>3. ~ pll_config_status.update
      BY <2>2, NotUpdating
    <3>4. /\ PllTypeOK' /\ BlockInv' /\ UpdateInv' /\ config_data' = config_data
      BY <1>2, <2>1, <2>2, <3>2, <3>3, Resting DEF Target
    <3>5. CallInv' /\ AskedInv'
      BY <2>1, <2>2, <3>2, <3>4 DEF PllInv, CallInv, AskedInv
    <3> QED
      BY <3>4, <3>5 DEF PllInv
  <2> QED
    BY <2>3, <2>4
<1>10. CASE Release
  <2>1. fw' = [fw EXCEPT !.pc = "update"] /\ fw.pc = "release" /\ Writes("reset", FALSE)
    BY <1>10 DEF Release, At, Goto
  <2>2. /\ fw' \in FirmwareStates /\ fw'.pc = "update" /\ (fw'.doubt <=> fw.doubt) /\ fw'.id = fw.id
        /\ fw.left = 0 /\ fw'.left = 0
    BY <1>1, <2>1 DEF FirmwareStates
  <2>3. /\ CycleNext(config_data)
        /\ ~ pll_config_status'.reset
        /\ pll_config_status'.update <=> pll_config_status.update
        /\ pll_config_status'.t_config_id = pll_config_status.t_config_id
    <3>1. CycleNext(config_data) /\ pll_config_status'["reset"] = FALSE
      BY <1>1, <2>1, WriteCycle
    <3>2. pll_config_status'.t_config_id = pll_config_status.t_config_id
      <4>1. Writes("reset", FALSE) /\ "reset" # "t_config_id" /\ FALSE \in BOOLEAN /\ "reset" \in {"reset", "update"}
        BY <2>1
      <4> QED
        BY ONLY <1>1, <4>1, WriteCycle
    <3>3. pll_config_status'.update <=> pll_config_status.update
      BY <1>1, <2>1, WriteCycle
    <3>4. ~ pll_config_status'.reset
      BY <3>1
    <3> QED
      BY <3>1, <3>2, <3>3, <3>4, Zenon
  <2>4. ~ pll_config_status.update
    BY <2>2, NotUpdating
  <2>5. /\ PllTypeOK' /\ BlockInv' /\ UpdateInv' /\ config_data' = config_data
        /\ fsm.state = "idle" => fsm'.state = "idle"
        /\ pll_config_status.reset => fsm'.state = "idle"
    BY <1>2, <2>1, <2>2, <2>3, <2>4, Resting DEF Target
  <2>6. fsm'.state = "idle"
    BY <2>1, <2>5 DEF PllInv, CallInv
  <2>7. CallInv' /\ AskedInv'
    BY <2>1, <2>2, <2>3, <2>5, <2>6 DEF PllInv, CallInv, AskedInv
  <2> QED
    BY <2>5, <2>7 DEF PllInv
<1> QED
  BY <1>3, <1>4, <1>5, <1>6, <1>7, <1>8, <1>9, <1>10

(* The update is under way. *)
LEMMA UpdateStep ==
  ASSUME PllInv, Update PROVE PllInv'
<1>1. PllTypeOK /\ fw \in FirmwareStates /\ CallGap \in 0 .. CallGap /\ CallGap \in Nat
  BY CallGapAssumption DEF PllInv, PllTypeOK
<1>2. fw' = [fw EXCEPT !.pc = "wait", !.left = CallGap, !.doubt = FALSE] /\ fw.pc = "update" /\ Writes("update", TRUE)
  BY DEF Update, At
<1>3. fw' \in FirmwareStates /\ fw'.pc = "wait" /\ fw'.left = CallGap /\ fw'.id = fw.id /\ ~ fw'.doubt
  BY <1>1, <1>2 DEF FirmwareStates
<1>4. /\ CycleNext(config_data)
      /\ pll_config_status'.reset <=> pll_config_status.reset
      /\ pll_config_status'.update
      /\ pll_config_status'.t_config_id = pll_config_status.t_config_id
  BY <1>1, <1>2, WriteCycle
<1>5. /\ ~ pll_config_status.reset /\ fsm.state = "idle"
      /\ config_data = Data(fw.id) /\ pll_config_status.t_config_id = fw.id /\ fw.left = 0
      /\ BlockInv
  BY <1>1, <1>2 DEF PllInv, CallInv, FirmwareStates
<1>6. config_data \in Seq(LoadedBit) /\ Len(config_data) = Size
  BY DEF PllInv, PllTypeOK
<1>7. ~ pll_config_status.update
  BY <1>5, NotUpdating
<1>8. PllTypeOK'
  BY <1>1, <1>3, <1>4, <1>6, CycleType
<1>9. BlockInv'
  BY <1>1, <1>4, <1>5, BlockStep DEF CycleNext
<1>10. CallInv'
  BY <1>3, <1>4, <1>5 DEF CallInv
<1>11. UpdateInv'
  <2>1. fsm'.state = "idle"
    BY <1>1, <1>4, <1>5, <1>7, FsmStep DEF CycleNext
  <2>2. config_data' = config_data
    BY <1>4, <1>5 DEF CycleNext, BlockInv
  <2>3. Spent' = 0
    BY <1>1, <1>3 DEF Spent
  <2> QED
    BY <1>3, <1>4, <1>5, <2>1, <2>2, <2>3 DEF UpdateInv, AboutToShift, Target
<1>12. AskedInv'
  BY <1>3, <1>4, <1>5 DEF AskedInv, Finished, Target
<1> QED
  BY <1>8, <1>9, <1>10, <1>11, <1>12 DEF PllInv

(* A bit more of the configuration has been shifted into the chain. *)
LEMMA ShiftOne ==
  ASSUME PllTypeOK, NEW d, NEW m \in 0 .. PLL_CONFIG_DATA_BITS - 1,
         \A j \in 1 .. Size - m : config_data[j] = d[j + m],
         \A j \in 1 .. m : pll.chain[PLL_CONFIG_DATA_BITS - m + j] = d[UnusedBits + j]
  PROVE  /\ \A j \in 1 .. Size - (m + 1) : Shifted[j] = d[j + (m + 1)]
         /\ \A j \in 1 .. m + 1 :
              Append(Tail(pll.chain), config_data[UnusedBits + 1])[PLL_CONFIG_DATA_BITS - (m + 1) + j]
                = d[UnusedBits + j]
<1> DEFINE n == PLL_CONFIG_DATA_BITS
           newData == Shifted
           newChain == Append(Tail(pll.chain), config_data[UnusedBits + 1])
<1>1. n \in Nat \ {0} /\ UnusedBits \in Nat /\ Size = UnusedBits + n /\ Size \in Nat \ {0}
  BY CallGapAssumption DEF Size
<1>2. config_data[UnusedBits + 1] \in LoadedBit /\ UnusedBits + 1 \in 1 .. Size - m
  BY <1>1 DEF PllTypeOK
<1>3. \A j \in 1 .. Size - 1 : newData[j] = config_data[j + 1]
  <2>1. <<0, 0>> \in LoadedBit
    BY DEF LoadedBit, Number
  <2> QED
    BY <1>1, <2>1, Rotate DEF PllTypeOK, Shifted
<1>4. (\A j \in 1 .. n - 1 : newChain[j] = pll.chain[j + 1]) /\ newChain[n] = config_data[UnusedBits + 1]
  BY <1>1, <1>2, Rotate DEF PllTypeOK
<1> HIDE DEF newData, newChain
<1>5. ASSUME NEW j \in 1 .. Size - (m + 1) PROVE newData[j] = d[j + (m + 1)]
  <2>1. j \in 1 .. Size - 1 /\ j + 1 \in 1 .. Size - m /\ (j + 1) + m = j + (m + 1)
    BY <1>1
  <2> QED
    BY <1>3, <2>1
<1>6. ASSUME NEW j \in 1 .. m + 1 PROVE newChain[n - (m + 1) + j] = d[UnusedBits + j]
  <2>1. CASE j = m + 1
    <3>1. n - (m + 1) + j = n /\ (UnusedBits + 1) + m = UnusedBits + j
      BY <1>1, <2>1
    <3> QED
      BY <1>2, <1>4, <3>1
  <2>2. CASE j # m + 1
    <3>1. /\ j \in 1 .. m /\ n - (m + 1) + j \in 1 .. n - 1
          /\ (n - (m + 1) + j) + 1 = n - m + j
      BY <1>1, <2>2
    <3> QED
      BY <1>4, <3>1
  <2> QED
    BY <2>1, <2>2
<1> QED
  BY <1>5, <1>6 DEF newData, newChain

(* A cycle of the gap. *)
GapCycle ==
  /\ CycleNext(config_data)
  /\ pll_config_status'.reset <=> pll_config_status.reset
  /\ ~ pll_config_status'.update
  /\ Target' = Target
  /\ fw.left > 0 /\ Spent' = Spent + 1
  /\ fw'.doubt <=> fw.doubt
  /\ fw.pc \in {"wait", "done"} /\ fw'.pc \in {"wait", "done"}

(* The cycles of the gap count from none to all. *)
LEMMA SpentType ==
  ASSUME PllTypeOK
  PROVE  /\ Spent \in 0 .. CallGap
         /\ fw.left = 0 <=> Spent = CallGap
  BY CallGapAssumption DEF PllTypeOK, FirmwareStates, Spent

(* The update begins. *)
LEMMA BeginsToShift ==
  ASSUME PllInv, Spent = 0, GapCycle
  PROVE  Shifting'
<1>1. AboutToShift /\ PllTypeOK /\ BlockInv
  BY DEF PllInv, UpdateInv
<1>2. Spent' = 1
  BY <1>1, SpentType, CallGapAssumption DEF GapCycle
<1>3. fsm'.state = "shift" /\ fsm'.shift_ctr = PLL_CONFIG_DATA_BITS /\ config_data' = Data(Target)
  BY <1>1, FsmStep DEF GapCycle, CycleNext, AboutToShift, BlockInv
<1>4. Shifts' = 0 /\ Size \in Nat
  BY <1>3, CallGapAssumption DEF Shifts, Size
<1>5. Target' = Target /\ Spent' = 1 + PLL_CONFIG_DATA_BITS - fsm'.shift_ctr /\ ~ fw'.doubt
  BY <1>1, <1>2, <1>3, CallGapAssumption DEF GapCycle, AboutToShift
<1>6. \A j \in 1 .. Size - Shifts' : config_data'[j] = Data(Target')[j + Shifts']
  BY <1>3, <1>4, <1>5
<1>7. \A j \in 1 .. Shifts' :
        pll'.chain[PLL_CONFIG_DATA_BITS - Shifts' + j] = Data(Target')[UnusedBits + j]
  BY <1>4
<1> QED
  BY <1>3, <1>5, <1>6, <1>7 DEF Shifting

(* The shift goes on. *)
LEMMA GoesOnShifting ==
  ASSUME PllInv, Shifting, fsm.shift_ctr > 0, GapCycle
  PROVE  Shifting'
<1> DEFINE n == PLL_CONFIG_DATA_BITS
           c == fsm.shift_ctr
           d == Data(Target)
<1>1. PllTypeOK /\ BlockInv
  BY DEF PllInv
<1>2. n \in Nat \ {0} /\ c \in 1 .. n /\ UnusedBits \in Nat
  BY <1>1, CallGapAssumption DEF PllTypeOK, FsmStates
<1>3. /\ fsm'.state = "shift" /\ fsm'.shift_ctr = c - 1 /\ Target' = Target /\ ~ fw'.doubt
      /\ fsm.scanclkena /\ (fsm.scan_shift <=> c < n)
  BY <1>1, <1>2, FsmStep DEF GapCycle, CycleNext, Shifting, BlockInv
<1>4. Spent' = 1 + n - (c - 1)
  BY <1>1, <1>2, SpentType, CallGapAssumption DEF GapCycle, Shifting
<1>5. /\ config_data' = IF c < n THEN Shifted ELSE config_data
      /\ pll'.chain = Append(Tail(pll.chain), config_data[UnusedBits + 1])
  BY <1>1, <1>3, PllStep DEF GapCycle, CycleNext
<1>6. Shifts' = n - c /\ Shifts' \in 0 .. n - 1 /\ Shifts = IF c = n THEN 0 ELSE n - c - 1
  BY <1>2, <1>3 DEF Shifts
<1>7. /\ \A j \in 1 .. Size - Shifts : config_data[j] = d[j + Shifts]
      /\ \A j \in 1 .. Shifts : pll.chain[n - Shifts + j] = d[UnusedBits + j]
  BY DEF Shifting
<1>8. /\ \A j \in 1 .. Size - Shifts' : config_data'[j] = d[j + Shifts']
      /\ \A j \in 1 .. Shifts' : pll'.chain[n - Shifts' + j] = d[UnusedBits + j]
  <2>1. CASE c = n
    <3>1. Shifts = 0 /\ Shifts' = 0 /\ config_data' = config_data
      BY <1>2, <1>5, <1>6, <2>1
    <3> QED
      BY <1>7, <3>1
  <2>2. CASE c # n
    <3> DEFINE m == Shifts
    <3>1. m \in 0 .. n - 1 /\ Shifts' = m + 1 /\ c < n
      BY <1>2, <1>6, <2>2
    <3>4. config_data' = Shifted
      BY <1>5, <3>1
    <3> HIDE DEF d, m
    <3>5. /\ \A j \in 1 .. Size - m : config_data[j] = d[j + m]
          /\ \A j \in 1 .. m : pll.chain[n - m + j] = d[UnusedBits + j]
      BY <1>7 DEF m
    <3>6. /\ \A j \in 1 .. Size - (m + 1) : Shifted[j] = d[j + (m + 1)]
          /\ \A j \in 1 .. m + 1 :
               Append(Tail(pll.chain), config_data[UnusedBits + 1])[n - (m + 1) + j] = d[UnusedBits + j]
      BY ONLY <1>1, <3>1, <3>5, ShiftOne
    <3> QED
      BY <1>5, <3>1, <3>4, <3>6
  <2> QED
    BY <2>1, <2>2
<1> QED
  BY <1>3, <1>4, <1>8 DEF Shifting

(* The last bit: the chain holds the configuration. *)
LEMMA HasShifted ==
  ASSUME PllInv, Shifting, fsm.shift_ctr = 0, GapCycle
  PROVE  AwaitingAnswer'
<1> DEFINE n == PLL_CONFIG_DATA_BITS
           d == Data(Target)
           s == ScanChain(Target)
<1>1. PllTypeOK /\ BlockInv
  BY DEF PllInv
<1>2. n \in Nat \ {0} /\ UnusedBits \in Nat /\ Target \in Number
  BY <1>1, CallGapAssumption DEF PllTypeOK, Statuses, Target
<1>3. /\ fsm'.state = "waitresp" /\ Target' = Target /\ fsm'.configupdate_pre /\ ~ fsm'.configupdate
      /\ ~ fsm'.scandone_prev /\ ~ pll'.scandone /\ fsm.scanclkena
  BY <1>1, FsmStep, PllStep DEF GapCycle, CycleNext, Shifting, BlockInv, InFlight, ToldToUpdate
<1>4. Spent' = n + 2
  BY <1>1, <1>2, SpentType, CallGapAssumption DEF GapCycle, Shifting
<1>5. pll'.chain = Append(Tail(pll.chain), config_data[UnusedBits + 1])
  BY <1>1, <1>3, PllStep DEF GapCycle, CycleNext
<1>6. Shifts = n - 1
  BY <1>2 DEF Shifts
<1>7. /\ \A j \in 1 .. Size - (n - 1) : config_data[j] = d[j + (n - 1)]
      /\ \A j \in 1 .. n - 1 : pll.chain[n - (n - 1) + j] = d[UnusedBits + j]
  BY <1>6 DEF Shifting
<1>8. n - 1 \in 0 .. n - 1
  BY <1>2
<1>9. /\ s \in Seq(LoadedBit) /\ Len(s) = n
       /\ \A j \in 1 .. n : s[j] = d[UnusedBits + j]
  BY <1>2, DataType
<1> HIDE DEF d, s
<1>10. \A j \in 1 .. (n - 1) + 1 :
         Append(Tail(pll.chain), config_data[UnusedBits + 1])[n - ((n - 1) + 1) + j] = d[UnusedBits + j]
  BY ONLY <1>1, <1>7, <1>8, ShiftOne
<1>11. \A j \in 1 .. n : pll'.chain[j] = s[j]
  <2> TAKE j \in 1 .. n
  <2>1. j \in 1 .. (n - 1) + 1 /\ n - ((n - 1) + 1) + j = j
    BY <1>2
  <2> QED
    BY <1>5, <1>9, <1>10, <2>1
<1>12. pll'.chain = s
  <2>1. pll'.chain \in Seq(LoadedBit) /\ Len(pll'.chain) = n
    BY <1>1, PllStep DEF GapCycle, CycleNext
  <2> QED
    BY <1>9, <1>11, <2>1
<1>13. pll'.chain = ScanChain(Target')
  BY <1>3, <1>12 DEF s
<1> QED
  BY <1>2, <1>3, <1>4, <1>13 DEF AwaitingAnswer

(* The block waits for the answer, which comes or does not. *)
LEMMA Awaits ==
  ASSUME PllInv, AwaitingAnswer, GapCycle
  PROVE  AwaitingAnswer' \/ Rests'
<1> DEFINE n == PLL_CONFIG_DATA_BITS
           s == ScanChain(Target)
<1>1. PllTypeOK /\ BlockInv /\ ~ pll_config_status.reset /\ ~ areset
  BY DEF PllInv, CallInv, AwaitingAnswer, BlockInv, areset, GapCycle
<1>2. /\ n \in Nat /\ Spent \in 0 .. CallGap /\ CallGap \in Nat /\ CallGap > n + 4
      /\ Spent' = Spent + 1 /\ Spent >= n + 2 /\ Target' = Target /\ fsm.state = "waitresp"
      /\ fw'.doubt <=> fw.doubt
  BY <1>1, SpentType, CallGapAssumption DEF GapCycle, AwaitingAnswer
<1>3. /\ fsm'.state = IF fsm.scandone_prev THEN "idle" ELSE "waitresp"
      /\ ~ fsm'.configupdate_pre /\ (fsm'.configupdate <=> fsm.configupdate_pre)
      /\ fsm'.scandone_prev <=> pll.scandone
      /\ ~ fsm.scanclkena
  BY <1>1, <1>2, FsmStep DEF GapCycle, CycleNext, BlockInv
<1>4. /\ pll'.chain = pll.chain
      /\ pll'.scandone => pll.working /\ pll'.runs = pll.chain
      /\ ~ pll'.scandone => pll'.runs = IF fsm.configupdate THEN <<>> ELSE pll.runs
  BY <1>1, <1>2, <1>3, PllStep DEF GapCycle, CycleNext
<1>5. CASE fsm.scandone_prev
  <2>1. ~ ToldToUpdate /\ ~ pll.working /\ ~ pll.scandone
    BY <1>1, <1>5 DEF BlockInv, InFlight
  <2>2. Spent' >= n + 4
    BY <1>2, <2>1 DEF AwaitingAnswer, ToldToUpdate
  <2>3. pll'.runs = pll.chain
    BY <1>4, <1>5, <2>1 DEF AwaitingAnswer, ToldToUpdate
  <2>4. pll_config_status'.c_config_id = Target
    BY <1>1, <1>2, <1>5 DEF GapCycle, CycleNext, Answered, Target
  <2>5. ~ fw'.doubt => pll'.runs = ScanChain(pll_config_status'.c_config_id)
    BY <1>2, <2>3, <2>4 DEF AwaitingAnswer
  <2> QED
    BY <1>3, <1>5, <2>2, <2>5 DEF Rests
<1>6. CASE ~ fsm.scandone_prev
  <2>1. /\ fsm.configupdate_pre <=> Spent = n + 2
        /\ fsm.configupdate <=> Spent = n + 3
    BY DEF AwaitingAnswer
  <2>2. fsm'.configupdate_pre <=> Spent' = n + 2
    BY <1>2, <1>3
  <2>3. fsm'.configupdate <=> Spent' = n + 3
    BY <1>2, <1>3, <2>1
  <2>4. pll'.scandone \/ fsm'.scandone_prev => pll'.runs = pll'.chain
    <3>1. CASE pll'.scandone
      BY <1>4, <3>1
    <3>2. CASE ~ pll'.scandone /\ fsm'.scandone_prev
      <4>1. pll.scandone /\ ~ fsm.configupdate
        BY <1>1, <1>3, <3>2 DEF BlockInv, InFlight, ToldToUpdate
      <4> QED
        BY <1>4, <3>2, <4>1 DEF AwaitingAnswer
    <3> QED
      BY <3>1, <3>2
  <2>5. Spent' >= n + 2
    BY <1>2
  <2>6. ~ fw'.doubt => pll'.chain = ScanChain(Target')
    BY <1>2, <1>4 DEF AwaitingAnswer
  <2> QED
    BY <1>3, <1>6, <2>2, <2>3, <2>4, <2>5, <2>6 DEF AwaitingAnswer
<1> QED
  BY <1>5, <1>6

(* Once answered it rests. *)
LEMMA StaysAtRest ==
  ASSUME PllInv, Rests, ~ pll_config_status.update, GapCycle
  PROVE  Rests'
<1>1. PllTypeOK /\ BlockInv
  BY DEF PllInv
<1>2. fsm.state = "idle" /\ ~ pll.working /\ ~ pll.scandone /\ ~ fsm.configupdate
  BY <1>1 DEF Rests, BlockInv, ToldToUpdate
<1>3. fsm'.state = "idle"
  BY <1>1, <1>2, FsmStep DEF GapCycle, CycleNext
<1>4. pll'.runs = pll.runs
  BY <1>1, <1>2, PllStep DEF GapCycle, CycleNext
<1>5. pll_config_status'.c_config_id = pll_config_status.c_config_id
  BY <1>2 DEF GapCycle, CycleNext, Answered
<1>6. Spent' >= PLL_CONFIG_DATA_BITS + 4
  BY <1>1, SpentType, CallGapAssumption DEF Rests, GapCycle
<1>7. fw.pc \notin {"release", "update"} /\ (fw'.doubt <=> fw.doubt)
  BY DEF GapCycle
<1> QED
  BY <1>3, <1>4, <1>5, <1>6, <1>7 DEF Rests

(* Time passes, or the call returns, within the gap and after it. *)
LEMMA TimeStep ==
  ASSUME PllInv, Returns \/ Elapses PROVE PllInv'
<1>1. PllTypeOK /\ BlockInv /\ CallInv /\ fw \in FirmwareStates /\ CallGap \in Nat
  BY CallGapAssumption DEF PllInv, PllTypeOK
<1>2. PICK next \in {fw.pc, "done"} :
        /\ fw' = [fw EXCEPT !.pc = next, !.left = Less(fw.left)] /\ Clock
        /\ next = fw.pc \/ fw.pc = "wait"
  BY <1>1 DEF Returns, Elapses, At, FirmwareStates
<1>3. Less(fw.left) \in 0 .. CallGap
  BY <1>1 DEF FirmwareStates, Less
<1>4. /\ fw' \in FirmwareStates /\ fw'.id = fw.id /\ fw'.pc = next
      /\ (fw'.doubt <=> fw.doubt) /\ (fw'.refused <=> fw.refused)
      /\ fw'.left = IF fw.left = 0 THEN 0 ELSE fw.left - 1
  BY <1>1, <1>2, <1>3 DEF FirmwareStates, Less
<1>5. CASE fw.left = 0
  BY <1>2, <1>4, <1>5, QuietStep
<1>6. CASE fw.left # 0
  <2>1. fw.pc \in {"wait", "done"} /\ fw'.pc \in {"wait", "done"} /\ ~ pll_config_status.reset
    BY <1>1, <1>2, <1>4, <1>6 DEF CallInv, FirmwareStates
  <2>2. GapCycle
    <3>1. /\ CycleNext(config_data)
          /\ pll_config_status'.reset <=> pll_config_status.reset
          /\ ~ pll_config_status'.update
          /\ pll_config_status'.t_config_id = pll_config_status.t_config_id
      BY <1>1, <1>2, ClockCycle DEF Clock
    <3>2. fw.left > 0 /\ Spent' = Spent + 1
      BY <1>1, <1>4, <1>6 DEF Spent, FirmwareStates
    <3> QED
      BY <1>4, <2>1, <3>1, <3>2 DEF GapCycle, Target
  <2>3. PllTypeOK'
    <3>1. config_data \in Seq(LoadedBit) /\ Len(config_data) = Size
      BY <1>1 DEF PllTypeOK
    <3> QED
      BY <1>1, <1>4, <2>2, <3>1, CycleType DEF GapCycle
  <2>4. BlockInv'
    BY <1>1, <2>1, <2>2, BlockStep DEF GapCycle, CycleNext
  <2>5. CallInv'
    BY <1>1, <1>4, <2>1, <2>2 DEF GapCycle, CallInv, Target
  <2>6. UpdateInv'
    <3>1. Shifting' \/ AwaitingAnswer' \/ Rests'
      <4>1. CASE Spent = 0
        BY <2>2, <4>1, BeginsToShift
      <4>2. CASE Spent # 0
        <5>1. ~ pll_config_status.update /\ (Shifting \/ AwaitingAnswer \/ Rests)
          BY <4>2 DEF PllInv, UpdateInv
        <5>2. fsm.shift_ctr > 0 \/ fsm.shift_ctr = 0
          BY <1>1 DEF PllTypeOK, FsmStates
        <5> QED
          BY <2>2, <5>1, <5>2, GoesOnShifting, HasShifted, Awaits, StaysAtRest
      <4> QED
        BY <4>1, <4>2
    <3>2. Spent' # 0
      BY <1>1, <2>2, SpentType DEF GapCycle
    <3> QED
      BY <2>2, <3>1, <3>2 DEF UpdateInv, GapCycle
  <2>7. AskedInv'
    BY <1>1, <1>4, <2>1, <2>2, AskedStays DEF PllInv, GapCycle
  <2> QED
    BY <2>3, <2>4, <2>5, <2>6, <2>7 DEF PllInv
<1> QED
  BY <1>5, <1>6

(* Every step keeps the invariant. *)
LEMMA PllInvStep == PllInv /\ [PllNext]_pllVars => PllInv'
<1> SUFFICES ASSUME PllInv, [PllNext]_pllVars PROVE PllInv'
  OBVIOUS
<1>1. CASE UNCHANGED pllVars
  BY <1>1 DEF pllVars, PllInv, PllTypeOK, BlockInv, CallInv, UpdateInv, AskedInv, ToldToUpdate, InFlight,
    AboutToShift, Shifting, AwaitingAnswer, Rests, Spent, Shifts, Target, Finished
<1>2. CASE PllNext
  BY <1>2, CallsStep, UpdateStep, TimeStep DEF PllNext
<1> QED
  BY <1>1, <1>2

(* It holds at the start. *)
LEMMA PllInvInit == PllInit => PllInv
<1> SUFFICES ASSUME PllInit PROVE PllInv
  OBVIOUS
<1>1. Size \in Nat \ {0} /\ PLL_CONFIG_DATA_BITS \in Nat \ {0} /\ 0 \in 0 .. PLL_CONFIG_DATA_BITS /\ 0 \in 0 .. CallGap
  BY CallGapAssumption DEF Size
<1>2. config_data \in Seq(LoadedBit) /\ Len(config_data) = Size
  <2>1. <<0, 0>> \in LoadedBit /\ config_data = [k \in 1 .. Size |-> <<0, 0>>]
    BY DEF LoadedBit, Number, PllInit, Size
  <2> QED
    BY <1>1, <2>1
<1>3. pll_config_status \in Statuses /\ fsm \in FsmStates /\ fw \in FirmwareStates
  BY <1>1 DEF PllInit, Statuses, FsmStates, FirmwareStates, Number
<1>4. pll.chain \in Seq(LoadedBit) /\ Len(pll.chain) = PLL_CONFIG_DATA_BITS
  <2>1. 0 \in Number
    BY DEF Number
  <2> QED
    BY <2>1, DataType DEF PllInit
<1>5. PllTypeOK
  BY <1>2, <1>3, <1>4 DEF PllTypeOK, PllInit
<1>6. BlockInv /\ CallInv
  BY DEF PllInit, BlockInv, CallInv, ToldToUpdate, InFlight
<1>7. UpdateInv /\ AskedInv
  <2>1. Spent = CallGap /\ CallGap > PLL_CONFIG_DATA_BITS + 4 /\ CallGap \in Nat /\ CallGap # 0
    BY CallGapAssumption DEF PllInit, Spent
  <2>2. Rests
    BY <2>1, <1>1 DEF PllInit, Rests
  <2> QED
    BY <2>1, <2>2 DEF PllInit, UpdateInv, AskedInv, Finished
<1> QED
  BY <1>5, <1>6, <1>7 DEF PllInv

(* After pll_reconfigure, once the block rests, the PLL runs with the        *)
(* configuration asked for, in all the cases RunsAsAsked names: for any      *)
(* chain and configurations, at whatever time usleep ends, if the next call  *)
(* comes no sooner than the shift takes.                                     *)
THEOREM ConfigurationRuns == PllSpec => []RunsAsAsked
<1>1. PllInv => RunsAsAsked
  <2> SUFFICES ASSUME PllInv, At("done"), ~ fw.refused, ~ fw.doubt, Finished
               PROVE  pll.runs = ScanChain(fw.id)
    BY DEF RunsAsAsked
  <2>1. Rests
    BY DEF PllInv, UpdateInv, AboutToShift, Shifting, AwaitingAnswer, Finished
  <2>2. fw.id = pll_config_status.c_config_id
    BY DEF PllInv, AskedInv, At
  <2> QED
    BY <2>1, <2>2 DEF Rests, At
<1> QED
  BY <1>1, PllInvInit, PllInvStep, PTL DEF PllSpec

--------------------------------------------------------------------------------
(* The chips of the front end: what a call's accesses make of registers, as *)
(* a relation that composes; for each function of the drivers, that from    *)
(* registers which hold what has been asked for it leads to registers which *)
(* hold the new wish too; and the bus, byte by byte, which does the accesses.*)

(* Bits *)

\* The powers of two of a byte.
LEMMA BytePowers == /\ 2^0 = 1 /\ 2^1 = 2 /\ 2^2 = 4 /\ 2^3 = 8 /\ 2^4 = 16 /\ 2^5 = 32 /\ 2^6 = 64 /\ 2^7 = 128
OBVIOUS

Byte == 0 .. 255

\* A bit, in its place, is the difference of two remainders.
LEMMA BitsInPlace ==
  ASSUME NEW v \in Byte
  PROVE  /\ Bit(v, 0) = v % 2
         /\ Bit(v, 1) = (v % 4) - (v % 2)
         /\ Bit(v, 2) = (v % 8) - (v % 4)
         /\ Bit(v, 3) = (v % 16) - (v % 8)
         /\ Bit(v, 4) = (v % 32) - (v % 16)
         /\ Bit(v, 5) = (v % 64) - (v % 32)
         /\ Bit(v, 6) = (v % 128) - (v % 64)
         /\ Bit(v, 7) = v - (v % 128)
<1>1. Bit(v, 0) = v % 2
  <2>1. Bit(v, 0) = ((v \div 1) % 2) * 1
    BY BytePowers, Zenon DEF Bit
  <2> QED BY <2>1, SMT DEF Byte
<1>2. Bit(v, 1) = (v % 4) - (v % 2)
  <2>1. Bit(v, 1) = ((v \div 2) % 2) * 2
    BY BytePowers, Zenon DEF Bit
  <2> QED BY <2>1, SMT DEF Byte
<1>3. Bit(v, 2) = (v % 8) - (v % 4)
  <2>1. Bit(v, 2) = ((v \div 4) % 2) * 4
    BY BytePowers, Zenon DEF Bit
  <2> QED BY <2>1, SMT DEF Byte
<1>4. Bit(v, 3) = (v % 16) - (v % 8)
  <2>1. Bit(v, 3) = ((v \div 8) % 2) * 8
    BY BytePowers, Zenon DEF Bit
  <2> QED BY <2>1, SMT DEF Byte
<1>5. Bit(v, 4) = (v % 32) - (v % 16)
  <2>1. Bit(v, 4) = ((v \div 16) % 2) * 16
    BY BytePowers, Zenon DEF Bit
  <2> QED BY <2>1, SMT DEF Byte
<1>6. Bit(v, 5) = (v % 64) - (v % 32)
  <2>1. Bit(v, 5) = ((v \div 32) % 2) * 32
    BY BytePowers, Zenon DEF Bit
  <2> QED BY <2>1, SMT DEF Byte
<1>7. Bit(v, 6) = (v % 128) - (v % 64)
  <2>1. Bit(v, 6) = ((v \div 64) % 2) * 64
    BY BytePowers, Zenon DEF Bit
  <2> QED BY <2>1, SMT DEF Byte
<1>8. Bit(v, 7) = v - (v % 128)
  <2>1. Bit(v, 7) = ((v \div 128) % 2) * 128
    BY BytePowers, Zenon DEF Bit
  <2> QED BY <2>1, SMT DEF Byte
<1> QED BY <1>1, <1>2, <1>3, <1>4, <1>5, <1>6, <1>7, <1>8

\* What is kept, for the masks that the drivers use.
LEMMA MasksKeep ==
  ASSUME NEW v \in Byte
  PROVE  /\ Kept(v, {0, 2, 4, 5, 6, 7}) = v - (v % 16) + (v % 8) - (v % 4) + (v % 2)
         /\ Kept(v, 0 .. 5) = v % 64
         /\ Kept(v, {0, 1, 2, 3, 6, 7}) = v - (v % 64) + (v % 16)
         /\ Kept(v, 4 .. 7) = v - (v % 16)
         /\ Kept(v, 0 .. 2) = v % 8
         /\ Kept(v, 3 .. 7) = v - (v % 8)
         /\ Kept(v, 0 .. 6) = v % 128
         /\ Kept(v, 0 .. 7 \ {3, 4}) = v - (v % 32) + (v % 8)
         /\ Kept(v, {3, 4, 6, 7}) = v - (v % 64) + (v % 32) - (v % 8)
<1>1. /\ Bit(v, 0) \in Int /\ Bit(v, 1) \in Int /\ Bit(v, 2) \in Int /\ Bit(v, 3) \in Int
      /\ Bit(v, 4) \in Int /\ Bit(v, 5) \in Int /\ Bit(v, 6) \in Int /\ Bit(v, 7) \in Int
  BY BitsInPlace, SMT DEF Byte
<1>2. Kept(v, {0, 2, 4, 5, 6, 7}) = Bit(v, 0) + Bit(v, 2) + Bit(v, 4) + Bit(v, 5) + Bit(v, 6) + Bit(v, 7)
  BY <1>1, SMT DEF Kept
<1>3. Kept(v, 0 .. 5) = Bit(v, 0) + Bit(v, 1) + Bit(v, 2) + Bit(v, 3) + Bit(v, 4) + Bit(v, 5)
  BY <1>1, SMT DEF Kept
<1>4. Kept(v, {0, 1, 2, 3, 6, 7}) = Bit(v, 0) + Bit(v, 1) + Bit(v, 2) + Bit(v, 3) + Bit(v, 6) + Bit(v, 7)
  BY <1>1, SMT DEF Kept
<1>5. Kept(v, 4 .. 7) = Bit(v, 4) + Bit(v, 5) + Bit(v, 6) + Bit(v, 7)
  BY <1>1, SMT DEF Kept
<1>6. Kept(v, 0 .. 2) = Bit(v, 0) + Bit(v, 1) + Bit(v, 2)
  BY <1>1, SMT DEF Kept
<1>7. Kept(v, 3 .. 7) = Bit(v, 3) + Bit(v, 4) + Bit(v, 5) + Bit(v, 6) + Bit(v, 7)
  BY <1>1, SMT DEF Kept
<1>8. Kept(v, 0 .. 6) = Bit(v, 0) + Bit(v, 1) + Bit(v, 2) + Bit(v, 3) + Bit(v, 4) + Bit(v, 5) + Bit(v, 6)
  BY <1>1, SMT DEF Kept
<1>9. Kept(v, 0 .. 7 \ {3, 4}) = Bit(v, 0) + Bit(v, 1) + Bit(v, 2) + Bit(v, 5) + Bit(v, 6) + Bit(v, 7)
  BY <1>1, SMT DEF Kept
<1>10. Kept(v, {3, 4, 6, 7}) = Bit(v, 3) + Bit(v, 4) + Bit(v, 6) + Bit(v, 7)
  BY <1>1, SMT DEF Kept
<1>11. Kept(v, {0, 2, 4, 5, 6, 7}) = v - (v % 16) + (v % 8) - (v % 4) + (v % 2)
  BY <1>2, BitsInPlace, SMT DEF Byte
<1>12. Kept(v, 0 .. 5) = v % 64
  BY <1>3, BitsInPlace, SMT DEF Byte
<1>13. Kept(v, {0, 1, 2, 3, 6, 7}) = v - (v % 64) + (v % 16)
  BY <1>4, BitsInPlace, SMT DEF Byte
<1>14. Kept(v, 4 .. 7) = v - (v % 16)
  BY <1>5, BitsInPlace, SMT DEF Byte
<1>15. Kept(v, 0 .. 2) = v % 8
  BY <1>6, BitsInPlace, SMT DEF Byte
<1>16. Kept(v, 3 .. 7) = v - (v % 8)
  BY <1>7, BitsInPlace, SMT DEF Byte
<1>17. Kept(v, 0 .. 6) = v % 128
  BY <1>8, BitsInPlace, SMT DEF Byte
<1>18. Kept(v, 0 .. 7 \ {3, 4}) = v - (v % 32) + (v % 8)
  BY <1>9, BitsInPlace, SMT DEF Byte
<1>19. Kept(v, {3, 4, 6, 7}) = v - (v % 64) + (v % 32) - (v % 8)
  BY <1>10, BitsInPlace, SMT DEF Byte
<1> QED BY <1>11, <1>12, <1>13, <1>14, <1>15, <1>16, <1>17, <1>18, <1>19

(* What a program of accesses makes of the registers *)

Registers == TVP \cup THS \cup PCM
Access == [rw : {"read", "poll", "write"}, reg : Registers, keep : SUBSET Int, put : Int]

ReachedIn(r, reg) == reg \in PCM \ {"PAGESEL"} => (r["PAGESEL"] = 1) = (reg \in Page1)

\* An access, once all of its bytes have been moved: e.r are the registers, e.s is what was read last.
Effect(a, e) ==
  CASE a.rw = "read" -> [r |-> e.r, s |-> e.r[a.reg]]
    [] a.rw = "poll" -> [r |-> e.r, s |-> 0]
    [] OTHER -> [r |-> IF ReachedIn(e.r, a.reg) THEN [e.r EXCEPT ![a.reg] = Kept(e.s, a.keep) + a.put] ELSE e.r,
                 s |-> e.s]

\* The accesses of p lead from e to f.
Follows(p, run, e, f) ==
  /\ run[0] = e /\ run[Len(p)] = f
  /\ \A i \in 1 .. Len(p) : run[i] = Effect(p[i], run[i - 1])
Leads(p, e, f) == \E run : Follows(p, run, e, f)

\* No access, one, or one program after another; and what is left of a program after its first access.
LEMMA LeadsNowhere == ASSUME NEW e PROVE Leads(<<>>, e, e)
<1> DEFINE run == [i \in {0} |-> e]
<1>1. Follows(<<>>, run, e, e)
  BY SMT DEF Follows
<1> QED BY <1>1, Zenon DEF Leads

LEMMA LeadsBack == ASSUME NEW e, NEW f, Leads(<<>>, e, f) PROVE e = f
<1>1. PICK run : Follows(<<>>, run, e, f)
  BY Zenon DEF Leads
<1> QED BY <1>1, SMT DEF Follows

LEMMA LeadsOnce == ASSUME NEW a, NEW e PROVE Leads(<<a>>, e, Effect(a, e))
<1> DEFINE run == [i \in 0 .. 1 |-> IF i = 0 THEN e ELSE Effect(a, e)]
<1>1. run[0] = e /\ run[1] = Effect(a, e)
  BY SMT
<1>2. Follows(<<a>>, run, e, Effect(a, e))
  <2> HIDE DEF run
  <2> QED BY <1>1, SMT DEF Follows
<1> QED BY <1>2, Zenon DEF Leads

LEMMA LeadsOn ==
  ASSUME NEW p \in Seq(Access), NEW q \in Seq(Access), NEW e, NEW f, NEW g, Leads(p, e, f), Leads(q, f, g)
  PROVE  Leads(p \o q, e, g)
<1>1. PICK one : Follows(p, one, e, f)
  BY Zenon DEF Leads
<1>2. PICK two : Follows(q, two, f, g)
  BY Zenon DEF Leads
<1> DEFINE n == Len(p)
           m == Len(q)
           run == [i \in 0 .. n + m |-> IF i <= n THEN one[i] ELSE two[i - n]]
<1>3. n \in Nat /\ m \in Nat /\ Len(p \o q) = n + m
  BY ConcatProperties
<1>4. ASSUME NEW i \in 0 .. n PROVE run[i] = one[i]
  BY <1>3, SMT
<1>5. ASSUME NEW i \in n .. n + m PROVE run[i] = two[i - n]
  <2>1. CASE i > n
    BY <1>3, <2>1, SMT
  <2>2. CASE i = n
    <3>1. one[n] = f /\ two[0] = f
      BY <1>1, <1>2 DEF Follows
    <3>2. run[n] = one[n]
      BY <1>3, <1>4, SMT
    <3> HIDE DEF run, n
    <3> QED BY <1>3, <2>2, <3>1, <3>2, SMT
  <2> HIDE DEF run, n, m
  <2> QED BY <1>3, <2>1, <2>2, SMT
<1>6. ASSUME NEW i \in 1 .. n + m PROVE run[i] = Effect((p \o q)[i], run[i - 1])
  <2>1. CASE i <= n
    <3>1. i \in 1 .. n /\ i \in 0 .. n /\ i - 1 \in 0 .. n
      BY <1>3, <2>1, SMT
    <3>2. (p \o q)[i] = p[i]
      BY <3>1, ConcatProperties
    <3>3. one[i] = Effect(p[i], one[i - 1])
      BY <1>1, <3>1 DEF Follows
    <3>4. run[i] = one[i] /\ run[i - 1] = one[i - 1]
      <4> HIDE DEF run
      <4> QED BY <1>4, <3>1, Zenon
    <3> QED BY <3>2, <3>3, <3>4, Zenon
  <2>2. CASE i > n
    <3>1. i - n \in 1 .. m /\ i \in n .. n + m /\ i - 1 \in n .. n + m /\ (i - 1) - n = (i - n) - 1
      BY <1>3, <2>2, SMT
    <3>2. (p \o q)[i] = q[i - n]
      <4>1. i \in 1 .. Len(p) + Len(q) /\ ~ i <= Len(p)
        BY <1>3, <2>2, SMT
      <4> QED BY <4>1, ConcatProperties
    <3>3. two[i - n] = Effect(q[i - n], two[(i - n) - 1])
      BY <1>2, <3>1 DEF Follows
    <3>4. run[i] = two[i - n] /\ run[i - 1] = two[(i - n) - 1]
      <4> HIDE DEF run
      <4>1. run[i] = two[i - n] /\ run[i - 1] = two[(i - 1) - n]
        BY <1>5, <3>1, Zenon
      <4> QED BY <3>1, <4>1, Zenon
    <3> QED BY <3>2, <3>3, <3>4, Zenon
  <2> QED BY <1>3, <2>1, <2>2, SMT
<1>7. run[0] = e /\ run[n + m] = g
  <2>1. run[0] = one[0] /\ run[n + m] = two[(n + m) - n] /\ (n + m) - n = m
    <3>1. 0 \in 0 .. n /\ n + m \in n .. n + m /\ (n + m) - n = m
      BY <1>3, SMT
    <3> HIDE DEF run
    <3> QED BY <1>4, <1>5, <3>1, Zenon
  <2> QED BY <1>1, <1>2, <2>1, Zenon DEF Follows
<1>8. Follows(p \o q, run, e, g)
  <2> HIDE DEF run, n, m
  <2> QED BY <1>3, <1>6, <1>7, Zenon DEF Follows
<1> QED BY <1>8, Zenon DEF Leads

LEMMA LeadsAfter ==
  ASSUME NEW p \in Seq(Access), p # <<>>, NEW e, NEW g, Leads(p, e, g)
  PROVE  Leads(Tail(p), Effect(Head(p), e), g)
<1>1. PICK old : Follows(p, old, e, g)
  BY Zenon DEF Leads
<1> DEFINE n == Len(p) - 1
           run == [i \in 0 .. n |-> old[i + 1]]
<1>2. n \in Nat /\ Len(Tail(p)) = n /\ Len(p) = n + 1 /\ Head(p) = p[1]
  BY EmptySeq, HeadTailProperties, SMT
<1>3. run[0] = Effect(Head(p), e) /\ run[n] = g
  <2>1. old[1] = Effect(p[1], old[1 - 1]) /\ old[0] = e /\ old[n + 1] = g
    BY <1>1, <1>2, SMT DEF Follows
  <2>2. run[0] = old[0 + 1] /\ run[n] = old[n + 1]
    BY <1>2, SMT
  <2> HIDE DEF run, n
  <2> QED BY <1>2, <2>1, <2>2, SMT
<1>4. ASSUME NEW i \in 1 .. n PROVE run[i] = Effect(Tail(p)[i], run[i - 1])
  <2>1. i + 1 \in 1 .. Len(p) /\ i \in 0 .. n /\ i - 1 \in 0 .. n /\ (i - 1) + 1 = (i + 1) - 1
    BY <1>2, SMT
  <2>2. Tail(p)[i] = p[i + 1]
    BY <1>2, HeadTailProperties, SMT
  <2>3. old[i + 1] = Effect(p[i + 1], old[(i + 1) - 1])
    BY <1>1, <2>1 DEF Follows
  <2>4. run[i] = old[i + 1] /\ run[i - 1] = old[(i - 1) + 1]
    BY <2>1
  <2> QED BY <2>1, <2>2, <2>3, <2>4, Zenon
<1>5. Follows(Tail(p), run, Effect(Head(p), e), g)
  <2> HIDE DEF run, n
  <2> QED BY <1>2, <1>3, <1>4, Zenon DEF Follows
<1> QED BY <1>5, Zenon DEF Leads

\* Whatever was read before, p makes q of the registers r.
Sets(p, r, q) ==
  /\ p \in Seq(Access)
  /\ \A s : \E t : Leads(p, [r |-> r, s |-> s], [r |-> q, s |-> t])

LEMMA SetsNothing == ASSUME NEW r PROVE Sets(<<>>, r, r)
BY LeadsNowhere, EmptySeq, Zenon DEF Sets

\* Programs one after another.
LEMMA SetsOn ==
  ASSUME NEW p, NEW o, NEW r, NEW q, NEW u, Sets(p, r, q), Sets(o, q, u)
  PROVE  Sets(p \o o, r, u)
<1>1. p \in Seq(Access) /\ o \in Seq(Access) /\ p \o o \in Seq(Access)
  BY ConcatProperties DEF Sets
<1>2. ASSUME NEW s PROVE \E t : Leads(p \o o, [r |-> r, s |-> s], [r |-> u, s |-> t])
  <2>1. PICK t : Leads(p, [r |-> r, s |-> s], [r |-> q, s |-> t])
    BY Zenon DEF Sets
  <2>2. PICK z : Leads(o, [r |-> q, s |-> t], [r |-> u, s |-> z])
    BY Zenon DEF Sets
  <2> QED BY <1>1, <2>1, <2>2, LeadsOn, Zenon
<1> QED BY <1>1, <1>2, Zenon DEF Sets

\* One access, if what it makes of the registers does not depend on what was read.
LEMMA OneAccess ==
  ASSUME NEW a \in Access, NEW r, NEW q, \A s : \E t : Effect(a, [r |-> r, s |-> s]) = [r |-> q, s |-> t]
  PROVE  Sets(<<a>>, r, q)
<1>1. <<a>> \in Seq(Access)
  OBVIOUS
<1>2. ASSUME NEW s PROVE \E t : Leads(<<a>>, [r |-> r, s |-> s], [r |-> q, s |-> t])
  <2>1. PICK t : Effect(a, [r |-> r, s |-> s]) = [r |-> q, s |-> t]
    OBVIOUS
  <2>2. Leads(<<a>>, [r |-> r, s |-> s], Effect(a, [r |-> r, s |-> s]))
    BY LeadsOnce, Zenon
  <2> QED BY <2>1, <2>2, Zenon
<1> QED BY <1>1, <1>2, Zenon DEF Sets

\* Nothing is kept of a register that is written whole.
LEMMA KeptNothing == ASSUME NEW v PROVE Kept(v, {}) = 0
BY SMT DEF Kept

LEMMA WholeWrite ==
  ASSUME NEW reg \in Registers, NEW v \in Int, NEW r, ReachedIn(r, reg)
  PROVE  Sets(<<[rw |-> "write", reg |-> reg, keep |-> {}, put |-> v]>>, r, [r EXCEPT ![reg] = v])
<1> DEFINE a == [rw |-> "write", reg |-> reg, keep |-> {}, put |-> v]
<1>1. a \in Access
  BY SMT DEF Access
<1>2. a.rw = "write" /\ a.reg = reg /\ a.keep = {} /\ a.put = v
  OBVIOUS
<1>3. ASSUME NEW s PROVE Effect(a, [r |-> r, s |-> s]) = [r |-> [r EXCEPT ![reg] = v], s |-> s]
  <2>1. Kept(s, {}) + v = v
    BY KeptNothing, SMT
  <2> HIDE DEF a
  <2> QED BY <1>2, <2>1, SMT DEF Effect
<1>4. \A s : \E t : Effect(a, [r |-> r, s |-> s]) = [r |-> [r EXCEPT ![reg] = v], s |-> t]
  <2> HIDE DEF a
  <2> QED BY <1>3, Zenon
<1>5. Sets(<<a>>, r, [r EXCEPT ![reg] = v])
  <2> HIDE DEF a
  <2> QED BY <1>1, <1>4, OneAccess, Zenon
<1> QED BY <1>5, Zenon

LEMMA WrSets ==
  ASSUME NEW reg \in Registers, NEW v \in Int, NEW r, ReachedIn(r, reg)
  PROVE  Sets(Wr(reg, v), r, [r EXCEPT ![reg] = v % 256])
<1> DEFINE w == v % 256
<1>1. w \in Int
  OBVIOUS
<1>2. Sets(<<[rw |-> "write", reg |-> reg, keep |-> {}, put |-> w]>>, r, [r EXCEPT ![reg] = w])
  <2> HIDE DEF w
  <2> QED BY <1>1, WholeWrite, Zenon
<1> QED BY <1>2, Zenon DEF Wr

\* Reading changes no register.
LEMMA RdSets == ASSUME NEW reg \in Registers, NEW r PROVE Sets(Rd(reg), r, r)
<1> DEFINE a == [rw |-> "read", reg |-> reg, keep |-> {}, put |-> 0]
<1>1. a \in Access
  BY SMT DEF Access
<1>2. ASSUME NEW s PROVE Effect(a, [r |-> r, s |-> s]) = [r |-> r, s |-> r[reg]]
  BY SMT DEF Effect
<1>3. \A s : \E t : Effect(a, [r |-> r, s |-> s]) = [r |-> r, s |-> t]
  <2> HIDE DEF a
  <2> QED BY <1>2, Zenon
<1>4. Sets(<<a>>, r, r)
  <2> HIDE DEF a
  <2> QED BY <1>1, <1>3, OneAccess, Zenon
<1> QED BY <1>4, Zenon DEF Rd

LEMMA PollSets == ASSUME NEW reg \in Registers, NEW r PROVE Sets(Poll(reg), r, r)
<1> DEFINE a == [rw |-> "poll", reg |-> reg, keep |-> {}, put |-> 0]
<1>1. a \in Access
  BY SMT DEF Access
<1>2. ASSUME NEW s PROVE Effect(a, [r |-> r, s |-> s]) = [r |-> r, s |-> 0]
  BY SMT DEF Effect
<1>3. \A s : \E t : Effect(a, [r |-> r, s |-> s]) = [r |-> r, s |-> t]
  <2> HIDE DEF a
  <2> QED BY <1>2, Zenon
<1>4. Sets(<<a>>, r, r)
  <2> HIDE DEF a
  <2> QED BY <1>1, <1>3, OneAccess, Zenon
<1> QED BY <1>4, Zenon DEF Poll

\* What is kept is what the register held when it was read.
LEMMA ChangeSets ==
  ASSUME NEW reg \in Registers, NEW keep \in SUBSET Int, NEW v \in Int, NEW r, ReachedIn(r, reg)
  PROVE  Sets(Change(reg, keep, v), r, [r EXCEPT ![reg] = Kept(r[reg], keep) + (v % 256)])
<1> DEFINE w == v % 256
           a == [rw |-> "read", reg |-> reg, keep |-> {}, put |-> 0]
           b == [rw |-> "write", reg |-> reg, keep |-> keep, put |-> w]
           q == [r EXCEPT ![reg] = Kept(r[reg], keep) + w]
<1>1. w \in Int
  OBVIOUS
<1>2. a \in Access /\ b \in Access
  <2> HIDE DEF w
  <2> QED BY <1>1, SMT DEF Access
<1>3. <<a>> \in Seq(Access) /\ <<b>> \in Seq(Access)
  <2> HIDE DEF a, b
  <2> QED BY <1>2
<1>4. ASSUME NEW s PROVE Effect(a, [r |-> r, s |-> s]) = [r |-> r, s |-> r[reg]]
  BY SMT DEF Effect
<1>5. Effect(b, [r |-> r, s |-> r[reg]]) = [r |-> q, s |-> r[reg]]
  <2>1. b.rw = "write" /\ b.reg = reg /\ b.keep = keep /\ b.put = w
    OBVIOUS
  <2> HIDE DEF w, b
  <2> QED BY <2>1, SMT DEF Effect
<1>6. ASSUME NEW s PROVE \E t : Leads(<<a>> \o <<b>>, [r |-> r, s |-> s], [r |-> q, s |-> t])
  <2>1. Leads(<<a>>, [r |-> r, s |-> s], [r |-> r, s |-> r[reg]])
    <3> HIDE DEF a
    <3> QED BY <1>4, LeadsOnce, Zenon
  <2>2. Leads(<<b>>, [r |-> r, s |-> r[reg]], [r |-> q, s |-> r[reg]])
    <3> HIDE DEF b, q
    <3> QED BY <1>5, LeadsOnce, Zenon
  <2> HIDE DEF a, b, q
  <2> QED BY <1>3, <2>1, <2>2, LeadsOn, Zenon
<1>7. <<a>> \o <<b>> \in Seq(Access)
  <2> HIDE DEF a, b
  <2> QED BY <1>3, ConcatProperties
<1>8. Sets(<<a>> \o <<b>>, r, q)
  <2> HIDE DEF a, b, q
  <2> QED BY <1>6, <1>7, Zenon DEF Sets
<1>9. Change(reg, keep, v) = <<a>> \o <<b>>
  BY DEF Change, Rd
<1>10. q = [r EXCEPT ![reg] = Kept(r[reg], keep) + (v % 256)]
  OBVIOUS
<1> HIDE DEF a, b, q
<1> QED BY <1>8, <1>9, <1>10, Zenon

(* What the registers must hold of what was asked for *)

Settings == {"sync_lpf", "clp_lpf", "lpf", "phase", "thold", "fmt", "ths", "rate", "pc", "power", "ths_lpf", "mono", "gain"}
Rates == 0 .. 4095
Wish(a) ==
  /\ DOMAIN a = Settings
  /\ a.sync_lpf \in 0 .. 3 /\ a.clp_lpf \in 0 .. 3 /\ a.lpf \in 0 .. 15 /\ a.phase \in 0 .. 31 /\ a.thold \in 0 .. 31
  /\ a.ths \in {0, 1, 4, 36} /\ a.rate \in Rates /\ a.ths_lpf \in 0 .. 3 /\ a.mono \in {0, 1} /\ a.gain \in {0, 10}
Dsp == {"DSP_0", "DSP_1", "DSP_6", "DSP_7"}

\* The sampling rate is doubled if the divider is set.
Times(v, p) == IF v = 8 * p + 1 THEN 2 ELSE 1

\* As HoldsAll, on a page of the audio converter and with some of its coefficients still to be written.
Holds(r, a, page, dsp) ==
  /\ DOMAIN r = Registers /\ Wish(a)
  /\ r["INPMUX2"] = 64 * a.sync_lpf + 16 * a.clp_lpf + 10
  /\ r["VIDEOBWLIM"] = a.lpf
  /\ r["HPLLPHASE"] \in {8 * a.phase, 8 * a.phase + 1}
  /\ r["HPLLDIV"] = a.rate * Times(r["HPLLPHASE"], a.phase)
  /\ r["SOGTHOLD"] = 8 * a.thold + (IF a.fmt = "YPbPr" THEN 5 ELSE 0)
  /\ (a.pc = TRUE => r["MISCCTRL4"] = 13) /\ (a.pc = FALSE => r["MISCCTRL4"] = 9)
  /\ (a.power = TRUE => r["MISCCTRL1"] = 17) /\ (a.power = FALSE => r["MISCCTRL1"] = 19)
  /\ \A ch \in THS : r[ch] = 8 * a.ths_lpf + a.ths
  /\ r["PAGESEL"] = page /\ r["PGA1"] = 2 * a.gain
  /\ \A ch \in dsp : r[ch] = a.mono
  /\ r["ALCEN"] # 0 => r["ALCPLACE"] > r["CLAMPSTART"] + r["CLAMPWIDTH"]
HoldsAll(r, a) == Holds(r, a, 0, Dsp)

\* From registers that hold a, p makes such that hold b.
Achieves(p, a, b) == \A r : HoldsAll(r, a) => \E q : Sets(p, r, q) /\ HoldsAll(q, b)

\* Programs one after another.
LEMMA AchievesOn ==
  ASSUME NEW p, NEW o, NEW a, NEW b, NEW c, Achieves(p, a, b), Achieves(o, b, c)
  PROVE  Achieves(p \o o, a, c)
<1>1. ASSUME NEW r, HoldsAll(r, a) PROVE \E q : Sets(p \o o, r, q) /\ HoldsAll(q, c)
  <2>1. PICK q : Sets(p, r, q) /\ HoldsAll(q, b)
    BY <1>1, Zenon DEF Achieves
  <2>2. PICK u : Sets(o, q, u) /\ HoldsAll(u, c)
    BY <2>1, Zenon DEF Achieves
  <2> QED BY <2>1, <2>2, SetsOn, Zenon
<1> QED BY <1>1, Zenon DEF Achieves

\* The registers and the chips they are in.
LEMMA RegisterNames ==
  /\ \A g \in TVP \cup THS : g \in Registers /\ g \notin PCM
  /\ \A g \in PCM : g \in Registers
  /\ {"INPMUX2", "VIDEOBWLIM", "HPLLPHASE", "HPLLDIV", "SOGTHOLD", "MISCCTRL4", "MISCCTRL1", "ALCEN", "ALCPLACE",
      "CLAMPSTART", "CLAMPWIDTH", "INPMUX1", "SYNCCTRL1", "SYNCSTAT", "MISCCTRL3", "HPLLCTRL", "CSC", "COAST"} \subseteq TVP
  /\ {"PAGESEL", "PGA1", "ADC1L", "ADC1R", "ID", "POWER", "DSP2_CFG"} \cup Dsp \subseteq PCM
BY SMT DEF Registers, TVP, THS, PCM, Dsp

\* One register, or one wish, is x, the others are as they were.
Differs(q, r, reg, x) == DOMAIN q = Registers /\ q[reg] = x /\ \A y \in Registers : y # reg => q[y] = r[y]
Renews(b, a, f, v) == DOMAIN b = Settings /\ b[f] = v /\ \A g \in Settings : g # f => b[g] = a[g]

LEMMA Written ==
  ASSUME NEW r, DOMAIN r = Registers, NEW reg \in Registers, NEW x
  PROVE  Differs([r EXCEPT ![reg] = x], r, reg, x)
BY DEF Differs

LEMMA Renewed ==
  ASSUME NEW a, Wish(a), NEW f \in Settings, NEW v
  PROVE  Renews([a EXCEPT ![f] = v], a, f, v)
BY DEF Renews, Wish

\* Registers of the first two chips are on no page.
LEMMA OffPages == ASSUME NEW r, NEW reg \in TVP \cup THS PROVE ReachedIn(r, reg) /\ reg \in Registers
BY RegisterNames DEF ReachedIn

\* A register changed, written whole, or read: what has to be shown of it.
LEMMA ChangeAchieves ==
  ASSUME NEW reg \in TVP \cup THS, NEW keep \in SUBSET Int, NEW v \in Int, NEW a, NEW b,
         \A r, x, q : HoldsAll(r, a) /\ x = Kept(r[reg], keep) + (v % 256) /\ Differs(q, r, reg, x) => HoldsAll(q, b)
  PROVE  Achieves(Change(reg, keep, v), a, b)
<1>1. ASSUME NEW r, HoldsAll(r, a) PROVE \E q : Sets(Change(reg, keep, v), r, q) /\ HoldsAll(q, b)
  <2> DEFINE x == Kept(r[reg], keep) + (v % 256)
             q == [r EXCEPT ![reg] = x]
  <2>1. ReachedIn(r, reg) /\ reg \in Registers /\ DOMAIN r = Registers
    BY <1>1, OffPages, Zenon DEF HoldsAll, Holds
  <2>2. Sets(Change(reg, keep, v), r, q)
    BY <2>1, ChangeSets, ZenonT(60)
  <2>3. Differs(q, r, reg, x)
    <3> HIDE DEF x
    <3> QED BY <2>1, Written, Zenon
  <2>4. HoldsAll(q, b)
    <3> HIDE DEF q
    <3> QED BY <1>1, <2>3, Zenon
  <2> HIDE DEF q
  <2> QED BY <2>2, <2>4, Zenon
<1> QED BY <1>1, Zenon DEF Achieves

LEMMA WrAchieves ==
  ASSUME NEW reg \in Registers, NEW v \in Int, NEW a, NEW b, reg \notin Page1,
         \A r, q : HoldsAll(r, a) /\ Differs(q, r, reg, v % 256) => HoldsAll(q, b)
  PROVE  Achieves(Wr(reg, v), a, b)
<1>1. ASSUME NEW r, HoldsAll(r, a) PROVE \E q : Sets(Wr(reg, v), r, q) /\ HoldsAll(q, b)
  <2> DEFINE q == [r EXCEPT ![reg] = v % 256]
  <2>1. ReachedIn(r, reg) /\ DOMAIN r = Registers
    BY <1>1 DEF HoldsAll, Holds, ReachedIn
  <2>2. Sets(Wr(reg, v), r, q)
    BY <2>1, WrSets, Zenon
  <2>3. Differs(q, r, reg, v % 256)
    BY <2>1, Written, Zenon
  <2>4. HoldsAll(q, b)
    <3> HIDE DEF q
    <3> QED BY <1>1, <2>3, Zenon
  <2> HIDE DEF q
  <2> QED BY <2>2, <2>4, Zenon
<1> QED BY <1>1, Zenon DEF Achieves

LEMMA RdAchieves == ASSUME NEW reg \in Registers, NEW a PROVE Achieves(Rd(reg), a, a)
BY RdSets, Zenon DEF Achieves
--------------------------------------------------------------------------------
(* The setters *)

\* The filters and their bits: each finds its neighbours' in place and leaves them there.
LEMMA SyncFilter ==
  ASSUME NEW a, Wish(a), NEW v \in 0 .. 3
  PROVE  Achieves(tvp_set_sync_lpf(v), a, [a EXCEPT !.sync_lpf = v])
<1> SUFFICES ASSUME NEW b, Renews(b, a, "sync_lpf", v) PROVE Achieves(tvp_set_sync_lpf(v), a, b)
  BY Renewed, Zenon DEF Settings
<1>1. ASSUME NEW r, NEW x, NEW q, HoldsAll(r, a), x = Kept(r["INPMUX2"], 0 .. 5) + ((v * 64) % 256),
             Differs(q, r, "INPMUX2", x)
      PROVE  HoldsAll(q, b)
  <2>1. r["INPMUX2"] = 64 * a.sync_lpf + 16 * a.clp_lpf + 10
    BY <1>1 DEF HoldsAll, Holds
  <2>2. a.sync_lpf \in 0 .. 3 /\ a.clp_lpf \in 0 .. 3
    BY DEF Wish
  <2>3. r["INPMUX2"] \in Byte
    BY <2>1, <2>2, SMT DEF Byte
  <2>4. x = 64 * v + 16 * a.clp_lpf + 10
    BY <1>1, <2>1, <2>2, <2>3, MasksKeep, SMT
  <2>5. Wish(b)
    BY SMT DEF Wish, Settings, Renews
  <2> QED BY <1>1, <2>4, <2>5, RegisterNames, SMT DEF HoldsAll, Holds, THS, Dsp, Settings, Differs, Renews
<1> QED BY <1>1, ChangeAchieves, RegisterNames, SMT DEF tvp_set_sync_lpf

LEMMA ClampFilter ==
  ASSUME NEW a, Wish(a), NEW v \in 0 .. 3
  PROVE  Achieves(tvp_set_clp_lpf(v), a, [a EXCEPT !.clp_lpf = v])
<1> SUFFICES ASSUME NEW b, Renews(b, a, "clp_lpf", v) PROVE Achieves(tvp_set_clp_lpf(v), a, b)
  BY Renewed, Zenon DEF Settings
<1>1. ASSUME NEW r, NEW x, NEW q, HoldsAll(r, a), x = Kept(r["INPMUX2"], {0, 1, 2, 3, 6, 7}) + ((v * 16) % 256),
             Differs(q, r, "INPMUX2", x)
      PROVE  HoldsAll(q, b)
  <2>1. r["INPMUX2"] = 64 * a.sync_lpf + 16 * a.clp_lpf + 10
    BY <1>1 DEF HoldsAll, Holds
  <2>2. a.sync_lpf \in 0 .. 3 /\ a.clp_lpf \in 0 .. 3
    BY DEF Wish
  <2>3. r["INPMUX2"] \in Byte
    BY <2>1, <2>2, SMT DEF Byte
  <2>4. x = 64 * a.sync_lpf + 16 * v + 10
    BY <1>1, <2>1, <2>2, <2>3, MasksKeep, SMT
  <2>5. Wish(b)
    BY SMT DEF Wish, Settings, Renews
  <2> QED BY <1>1, <2>4, <2>5, RegisterNames, SMT DEF HoldsAll, Holds, THS, Dsp, Settings, Differs, Renews
<1> QED BY <1>1, ChangeAchieves, RegisterNames, SMT DEF tvp_set_clp_lpf

LEMMA VideoFilter ==
  ASSUME NEW a, Wish(a), NEW v \in 0 .. 15
  PROVE  Achieves(tvp_set_lpf(v), a, [a EXCEPT !.lpf = v])
<1> SUFFICES ASSUME NEW b, Renews(b, a, "lpf", v) PROVE Achieves(tvp_set_lpf(v), a, b)
  BY Renewed, Zenon DEF Settings
<1>1. ASSUME NEW r, NEW x, NEW q, HoldsAll(r, a), x = Kept(r["VIDEOBWLIM"], 4 .. 7) + ((v) % 256),
             Differs(q, r, "VIDEOBWLIM", x)
      PROVE  HoldsAll(q, b)
  <2>1. r["VIDEOBWLIM"] = a.lpf
    BY <1>1 DEF HoldsAll, Holds
  <2>2. a.lpf \in 0 .. 15
    BY DEF Wish
  <2>3. r["VIDEOBWLIM"] \in Byte
    BY <2>1, <2>2, SMT DEF Byte
  <2>4. x = v
    BY <1>1, <2>1, <2>2, <2>3, MasksKeep, SMT
  <2>5. Wish(b)
    BY SMT DEF Wish, Settings, Renews
  <2> QED BY <1>1, <2>4, <2>5, RegisterNames, SMT DEF HoldsAll, Holds, THS, Dsp, Settings, Differs, Renews
<1> QED BY <1>1, ChangeAchieves, RegisterNames, SMT DEF tvp_set_lpf

\* The phase beside the divider, the threshold beside the type of the clamp.
LEMMA SamplerPhase ==
  ASSUME NEW a, Wish(a), NEW v \in 0 .. 31
  PROVE  Achieves(tvp_set_hpll_phase(v), a, [a EXCEPT !.phase = v])
<1> SUFFICES ASSUME NEW b, Renews(b, a, "phase", v) PROVE Achieves(tvp_set_hpll_phase(v), a, b)
  BY Renewed, Zenon DEF Settings
<1>1. ASSUME NEW r, NEW x, NEW q, HoldsAll(r, a), x = Kept(r["HPLLPHASE"], 0 .. 2) + ((v * 8) % 256),
             Differs(q, r, "HPLLPHASE", x)
      PROVE  HoldsAll(q, b)
  <2>1. PICK u \in {0, 1} : r["HPLLPHASE"] = 8 * a.phase + u
    BY <1>1, SMT DEF HoldsAll, Holds, Wish
  <2>2. a.phase \in 0 .. 31
    BY DEF Wish
  <2>3. r["HPLLPHASE"] \in Byte
    BY <2>1, <2>2, SMT DEF Byte
  <2>6. x = 8 * v + u
    <3>1. r["HPLLPHASE"] % 8 = u
      BY <2>1, <2>2, SMT
    <3>2. Kept(r["HPLLPHASE"], 0 .. 2) = u
      BY <2>3, <3>1, MasksKeep, Zenon
    <3> QED BY <1>1, <3>2, SMT
  <2>4. x \in {8 * v, 8 * v + 1} /\ Times(x, v) = Times(r["HPLLPHASE"], a.phase)
    BY <2>1, <2>2, <2>6, SMT DEF Times
  <2>5. Wish(b)
    BY SMT DEF Wish, Settings, Renews
  <2> QED BY <1>1, <2>4, <2>5, RegisterNames, SMT DEF HoldsAll, Holds, THS, Dsp, Settings, Differs, Renews
<1> QED BY <1>1, ChangeAchieves, RegisterNames, SMT DEF tvp_set_hpll_phase

LEMMA SyncThreshold ==
  ASSUME NEW a, Wish(a), NEW v \in 0 .. 31
  PROVE  Achieves(tvp_set_sog_thold(v), a, [a EXCEPT !.thold = v])
<1> SUFFICES ASSUME NEW b, Renews(b, a, "thold", v) PROVE Achieves(tvp_set_sog_thold(v), a, b)
  BY Renewed, Zenon DEF Settings
<1>1. ASSUME NEW r, NEW x, NEW q, HoldsAll(r, a), x = Kept(r["SOGTHOLD"], 0 .. 2) + ((v * 8) % 256),
             Differs(q, r, "SOGTHOLD", x)
      PROVE  HoldsAll(q, b)
  <2>1. r["SOGTHOLD"] = 8 * a.thold + (IF a.fmt = "YPbPr" THEN 5 ELSE 0)
    BY <1>1 DEF HoldsAll, Holds
  <2>2. a.thold \in 0 .. 31
    BY DEF Wish
  <2>3. r["SOGTHOLD"] \in Byte
    BY <2>1, <2>2, SMT DEF Byte
  <2>4. x = 8 * v + (IF a.fmt = "YPbPr" THEN 5 ELSE 0)
    BY <1>1, <2>1, <2>2, <2>3, MasksKeep, SMT
  <2>5. Wish(b)
    BY SMT DEF Wish, Settings, Renews
  <2> QED BY <1>1, <2>4, <2>5, RegisterNames, SMT DEF HoldsAll, Holds, THS, Dsp, Settings, Differs, Renews
<1> QED BY <1>1, ChangeAchieves, RegisterNames, SMT DEF tvp_set_sog_thold

LEMMA ClampType ==
  ASSUME NEW a, Wish(a), NEW fmt
  PROVE  Achieves(tvp_set_clamp_type(fmt), a, [a EXCEPT !.fmt = fmt])
<1> SUFFICES ASSUME NEW b, Renews(b, a, "fmt", fmt) PROVE Achieves(tvp_set_clamp_type(fmt), a, b)
  BY Renewed, Zenon DEF Settings
<1>1. ASSUME NEW r, NEW x, NEW q, HoldsAll(r, a), x = Kept(r["SOGTHOLD"], 3 .. 7) + ((IF fmt = "YPbPr" THEN 5 ELSE 0) % 256),
             Differs(q, r, "SOGTHOLD", x)
      PROVE  HoldsAll(q, b)
  <2>1. r["SOGTHOLD"] = 8 * a.thold + (IF a.fmt = "YPbPr" THEN 5 ELSE 0)
    BY <1>1 DEF HoldsAll, Holds
  <2>2. a.thold \in 0 .. 31
    BY DEF Wish
  <2>3. r["SOGTHOLD"] \in Byte
    BY <2>1, <2>2, SMT DEF Byte
  <2>4. x = 8 * a.thold + (IF fmt = "YPbPr" THEN 5 ELSE 0)
    BY <1>1, <2>1, <2>2, <2>3, MasksKeep, SMT
  <2>5. Wish(b)
    BY SMT DEF Wish, Settings, Renews
  <2> QED BY <1>1, <2>4, <2>5, RegisterNames, SMT DEF HoldsAll, Holds, THS, Dsp, Settings, Differs, Renews
<1> QED BY <1>1, ChangeAchieves, RegisterNames, SMT DEF tvp_set_clamp_type

\* The converter wakes; the gain of the audio converter.
LEMMA Woken ==
  ASSUME NEW a, Wish(a)
  PROVE  Achieves(tvp_powerup, a, [a EXCEPT !.power = TRUE])
<1> SUFFICES ASSUME NEW b, Renews(b, a, "power", TRUE) PROVE Achieves(tvp_powerup, a, b)
  BY Renewed, Zenon DEF Settings
<1>1. ASSUME NEW r, NEW q, HoldsAll(r, a), Differs(q, r, "MISCCTRL1", (17) % 256)
      PROVE  HoldsAll(q, b)
  <2>1. Wish(b)
    BY SMT DEF Wish, Settings, Renews
  <2> QED BY <1>1, <2>1, RegisterNames, SMT DEF HoldsAll, Holds, THS, Dsp, Settings, Differs, Renews
<1> QED BY <1>1, WrAchieves, RegisterNames, SMT DEF tvp_powerup, Page1

LEMMA Gain ==
  ASSUME NEW a, Wish(a), NEW v \in {0, 10}
  PROVE  Achieves(pcm_set_gain(v), a, [a EXCEPT !.gain = v])
<1> SUFFICES ASSUME NEW b, Renews(b, a, "gain", v) PROVE Achieves(pcm_set_gain(v), a, b)
  BY Renewed, Zenon DEF Settings
<1>1. ASSUME NEW r, NEW q, HoldsAll(r, a), Differs(q, r, "PGA1", (2 * v) % 256)
      PROVE  HoldsAll(q, b)
  <2>1. Wish(b)
    BY SMT DEF Wish, Settings, Renews
  <2> QED BY <1>1, <2>1, RegisterNames, SMT DEF HoldsAll, Holds, THS, Dsp, Settings, Differs, Renews
<1> QED BY <1>1, WrAchieves, RegisterNames, SMT DEF pcm_set_gain, Page1

\* Nothing is asked of the others.
LEMMA FreeRegister ==
  ASSUME NEW a, NEW v \in Int,
         NEW reg \in {"INPMUX1", "SYNCCTRL1", "MISCCTRL3", "HPLLCTRL", "CSC", "COAST", "ADC1L", "ADC1R", "POWER"}
  PROVE  Achieves(Wr(reg, v), a, a)
<1>1. ASSUME NEW r, NEW q, HoldsAll(r, a), Differs(q, r, reg, v % 256)
      PROVE  HoldsAll(q, a)
  BY <1>1, RegisterNames, SMT DEF HoldsAll, Holds, THS, Dsp, Differs
<1>2. reg \in Registers /\ reg \notin Page1
  BY RegisterNames, SMT DEF Page1
<1> QED BY <1>1, <1>2, WrAchieves, Zenon

(* Programs that write more than one register *)

\* A register of the first two chips, written with what was read.
LEMMA WriteLeads ==
  ASSUME NEW reg \in TVP \cup THS, NEW keep \in SUBSET Int, NEW v \in Int, NEW r, NEW s
  PROVE  LET a == [rw |-> "write", reg |-> reg, keep |-> keep, put |-> v]
         IN  /\ a \in Access
             /\ Effect(a, [r |-> r, s |-> s]) = [r |-> [r EXCEPT ![reg] = Kept(s, keep) + v], s |-> s]
<1> DEFINE a == [rw |-> "write", reg |-> reg, keep |-> keep, put |-> v]
<1>1. ReachedIn(r, reg) /\ reg \in Registers
  BY OffPages, Zenon
<1>2. a \in Access
  BY <1>1, SMT DEF Access
<1>3. a.rw = "write" /\ a.reg = reg /\ a.keep = keep /\ a.put = v
  OBVIOUS
<1>4. Effect(a, [r |-> r, s |-> s]) = [r |-> [r EXCEPT ![reg] = Kept(s, keep) + v], s |-> s]
  <2> HIDE DEF a
  <2> QED BY <1>1, <1>3, SMT DEF Effect
<1> QED BY <1>2, <1>4

LEMMA ReadLeads ==
  ASSUME NEW reg \in Registers, NEW r, NEW s
  PROVE  Rd(reg) \in Seq(Access) /\ Leads(Rd(reg), [r |-> r, s |-> s], [r |-> r, s |-> r[reg]])
<1> DEFINE a == [rw |-> "read", reg |-> reg, keep |-> {}, put |-> 0]
<1>1. a \in Access
  BY SMT DEF Access
<1>2. Effect(a, [r |-> r, s |-> s]) = [r |-> r, s |-> r[reg]]
  BY SMT DEF Effect
<1>3. <<a>> \in Seq(Access) /\ Leads(<<a>>, [r |-> r, s |-> s], [r |-> r, s |-> r[reg]])
  <2> HIDE DEF a
  <2>1. Leads(<<a>>, [r |-> r, s |-> s], Effect(a, [r |-> r, s |-> s]))
    BY LeadsOnce, Zenon
  <2>2. <<a>> \in Seq(Access)
    BY <1>1
  <2> QED BY <1>2, <2>1, <2>2, Zenon
<1> QED BY <1>3, Zenon DEF Rd

\* Three writes lead where the last leads.
LEMMA ThreeLead ==
  ASSUME NEW w1, NEW w2, NEW w3, NEW e0, NEW e1, NEW e2, NEW e3,
         e1 = Effect(w1, e0), e2 = Effect(w2, e1), e3 = Effect(w3, e2), NEW p, p \in Seq(Access),
         Len(p) = 3, p[1] = w1, p[2] = w2, p[3] = w3
  PROVE  Leads(p, e0, e3)
<1> DEFINE run == [i \in 0 .. 3 |-> IF i = 0 THEN e0 ELSE IF i = 1 THEN e1 ELSE IF i = 2 THEN e2 ELSE e3]
<1>1. run[0] = e0 /\ run[1] = e1 /\ run[2] = e2 /\ run[3] = e3
  OBVIOUS
<1>2. ASSUME NEW i \in 1 .. 3 PROVE run[i] = Effect(p[i], run[i - 1])
  <2> HIDE DEF run
  <2>1. i = 1 \/ i = 2 \/ i = 3
    BY SMT
  <2>2. CASE i = 1
    BY <1>1, <2>2, SMT
  <2>3. CASE i = 2
    BY <1>1, <2>3, SMT
  <2>4. CASE i = 3
    BY <1>1, <2>4, SMT
  <2> QED BY <2>1, <2>2, <2>3, <2>4
<1>3. Follows(p, run, e0, e3)
  <2> HIDE DEF run
  <2> QED BY <1>1, <1>2, Zenon DEF Follows
<1> QED BY <1>3, Zenon DEF Leads

\* All channels get what is made of the first.
ChannelsAre(q, r, keep, v) ==
  /\ DOMAIN q = Registers /\ \A ch \in THS : q[ch] = Kept(r["CH1"], keep) + v
  /\ \A y \in Registers \ THS : q[y] = r[y]

LEMMA ChannelsSet ==
  ASSUME NEW keep \in SUBSET Int, NEW v \in Int, NEW r, DOMAIN r = Registers
  PROVE  \E q : Sets(AllChannels(keep, v), r, q) /\ ChannelsAre(q, r, keep, v)
<1> DEFINE w(ch) == [rw |-> "write", reg |-> ch, keep |-> keep, put |-> v]
           x == Kept(r["CH1"], keep) + v
           q1 == [r EXCEPT !["CH1"] = x]
           q2 == [q1 EXCEPT !["CH2"] = x]
           q3 == [q2 EXCEPT !["CH3"] = x]
           p == [i \in 1 .. 3 |-> [rw |-> "write", reg |-> <<"CH1", "CH2", "CH3">>[i], keep |-> keep, put |-> v]]
<1>1. "CH1" \in THS /\ "CH2" \in THS /\ "CH3" \in THS /\ THS = {"CH1", "CH2", "CH3"}
  BY DEF THS
<1>2. w("CH1") \in Access /\ w("CH2") \in Access /\ w("CH3") \in Access
  BY <1>1, WriteLeads
<1>3. /\ Effect(w("CH1"), [r |-> r, s |-> r["CH1"]]) = [r |-> q1, s |-> r["CH1"]]
      /\ Effect(w("CH2"), [r |-> q1, s |-> r["CH1"]]) = [r |-> q2, s |-> r["CH1"]]
      /\ Effect(w("CH3"), [r |-> q2, s |-> r["CH1"]]) = [r |-> q3, s |-> r["CH1"]]
  BY <1>1, WriteLeads
<1>4. p \in Seq(Access) /\ Len(p) = 3 /\ p[1] = w("CH1") /\ p[2] = w("CH2") /\ p[3] = w("CH3")
  <2>1. p[1] = w("CH1") /\ p[2] = w("CH2") /\ p[3] = w("CH3")
    OBVIOUS
  <2>2. \A i \in 1 .. 3 : p[i] \in Access
    <3>1. \A i \in 1 .. 3 : i = 1 \/ i = 2 \/ i = 3
      BY SMT
    <3> HIDE DEF p, w
    <3> QED BY <1>2, <2>1, <3>1, Zenon
  <2>3. p = [i \in 1 .. 3 |-> p[i]]
    BY Zenon
  <2>4. p \in Seq(Access) /\ Len(p) = 3
    <3> HIDE DEF p
    <3> QED BY <2>2, <2>3, SMT
  <2> QED BY <2>1, <2>4
<1>5. Leads(p, [r |-> r, s |-> r["CH1"]], [r |-> q3, s |-> r["CH1"]])
  <2> HIDE DEF p, w, q1, q2, q3
  <2> QED BY <1>3, <1>4, ThreeLead
<1>6. ASSUME NEW s PROVE Leads(Rd("CH1") \o p, [r |-> r, s |-> s], [r |-> q3, s |-> r["CH1"]])
  <2>1. Rd("CH1") \in Seq(Access) /\ Leads(Rd("CH1"), [r |-> r, s |-> s], [r |-> r, s |-> r["CH1"]])
    BY <1>1, RegisterNames, ReadLeads, Zenon
  <2> HIDE DEF p, q3
  <2> QED BY <1>4, <1>5, <2>1, LeadsOn, Zenon
<1>7. Rd("CH1") \o p \in Seq(Access)
  <2>1. Rd("CH1") \in Seq(Access)
    BY <1>1, RegisterNames, ReadLeads, Zenon
  <2> HIDE DEF p
  <2> QED BY <1>4, <2>1, ConcatProperties
<1>8. Sets(AllChannels(keep, v), r, q3)
  <2>1. AllChannels(keep, v) = Rd("CH1") \o p
    BY DEF AllChannels
  <2>2. Sets(Rd("CH1") \o p, r, q3)
    <3> HIDE DEF p, q3
    <3> QED BY <1>6, <1>7, Zenon DEF Sets
  <2> HIDE DEF p, q3
  <2> QED BY <2>1, <2>2, Zenon
<1>9. /\ DOMAIN q3 = Registers /\ q3["CH1"] = x /\ q3["CH2"] = x /\ q3["CH3"] = x
      /\ \A y \in Registers \ THS : q3[y] = r[y]
  <2> HIDE DEF x
  <2> QED BY <1>1, RegisterNames, SMT
<1>10. ChannelsAre(q3, r, keep, v)
  <2> HIDE DEF q3
  <2> QED BY <1>1, <1>9 DEF ChannelsAre
<1> HIDE DEF p, w, q1, q2, q3
<1> QED BY <1>8, <1>10, Zenon

\* The three channels hold the filter and the source together.
LEMMA Channels ==
  ASSUME NEW keep \in SUBSET Int, NEW v \in Int, NEW a, NEW b, Wish(a), Wish(b),
         b.ths_lpf * 8 + b.ths = Kept(a.ths_lpf * 8 + a.ths, keep) + v,
         \A f \in Settings \ {"ths", "ths_lpf"} : b[f] = a[f]
  PROVE  Achieves(AllChannels(keep, v), a, b)
<1>1. ASSUME NEW r, HoldsAll(r, a) PROVE \E q : Sets(AllChannels(keep, v), r, q) /\ HoldsAll(q, b)
  <2>1. PICK q : Sets(AllChannels(keep, v), r, q) /\ ChannelsAre(q, r, keep, v)
    <3>1. DOMAIN r = Registers
      BY <1>1 DEF HoldsAll, Holds
    <3> QED BY <3>1, ChannelsSet, Zenon
  <2>2. r["CH1"] = 8 * a.ths_lpf + a.ths
    BY <1>1, SMT DEF HoldsAll, Holds, THS
  <2>3. \A ch \in THS : q[ch] = 8 * b.ths_lpf + b.ths
    BY <2>1, <2>2, SMT DEF Wish, ChannelsAre
  <2>4. \A y \in {"INPMUX2", "VIDEOBWLIM", "HPLLPHASE", "HPLLDIV", "SOGTHOLD", "MISCCTRL4", "MISCCTRL1", "ALCEN",
                  "ALCPLACE", "CLAMPSTART", "CLAMPWIDTH", "PAGESEL", "PGA1"} \cup Dsp : q[y] = r[y]
    BY <2>1, RegisterNames, SMT DEF THS, Dsp, ChannelsAre
  <2>5. /\ b.sync_lpf = a.sync_lpf /\ b.clp_lpf = a.clp_lpf /\ b.lpf = a.lpf /\ b.phase = a.phase /\ b.thold = a.thold
        /\ b.fmt = a.fmt /\ b.rate = a.rate /\ b.pc = a.pc /\ b.power = a.power /\ b.mono = a.mono /\ b.gain = a.gain
    BY SMT DEF Settings
  <2>6. HoldsAll(q, b)
    BY <1>1, <2>1, <2>3, <2>4, <2>5, SMT DEF HoldsAll, Holds, Dsp, ChannelsAre
  <2> QED BY <2>1, <2>6, Zenon
<1> QED BY <1>1, Zenon DEF Achieves

LEMMA ThsFilter ==
  ASSUME NEW a, Wish(a), NEW v \in 0 .. 3
  PROVE  Achieves(ths_set_lpf(v), a, [a EXCEPT !.ths_lpf = v])
<1> SUFFICES ASSUME NEW b, Renews(b, a, "ths_lpf", v) PROVE Achieves(ths_set_lpf(v), a, b)
  BY Renewed, Zenon DEF Settings
<1>1. Wish(b)
  BY SMT DEF Wish, Settings, Renews
<1>2. Kept(a.ths_lpf * 8 + a.ths, 0 .. 7 \ {3, 4}) = a.ths
  <2> DEFINE y == a.ths_lpf * 8 + a.ths
  <2>1. y \in Byte /\ y - (y % 32) + (y % 8) = a.ths
    BY SMT DEF Wish, Byte
  <2> HIDE DEF y
  <2> QED BY <2>1, MasksKeep, Zenon DEF y
<1>3. b.ths_lpf = v /\ b.ths = a.ths /\ \A f \in Settings \ {"ths", "ths_lpf"} : b[f] = a[f]
  BY SMT DEF Renews, Settings
<1>4. b.ths_lpf * 8 + b.ths = Kept(a.ths_lpf * 8 + a.ths, 0 .. 7 \ {3, 4}) + v * 8
  BY <1>2, <1>3, SMT DEF Wish
<1>5. (0 .. 7) \ {3, 4} \in SUBSET Int /\ v * 8 \in Int
  BY SMT
<1> QED BY <1>1, <1>3, <1>4, <1>5, Channels, Zenon DEF ths_set_lpf

LEMMA ThsInput ==
  ASSUME NEW a, Wish(a), NEW input \in 0 .. 2
  PROVE  Achieves(ths_source_sel(input), a, [a EXCEPT !.ths = ThsSource(input)])
<1> SUFFICES ASSUME NEW b, Renews(b, a, "ths", ThsSource(input)) PROVE Achieves(ths_source_sel(input), a, b)
  BY Renewed, Zenon DEF Settings
<1>1. ThsSource(input) \in {1, 4, 36}
  BY SMT DEF ThsSource
<1>2. Wish(b)
  BY <1>1, SMT DEF Wish, Settings, Renews
<1>3. Kept(a.ths_lpf * 8 + a.ths, {3, 4, 6, 7}) = a.ths_lpf * 8
  <2> DEFINE y == a.ths_lpf * 8 + a.ths
  <2>1. y \in Byte /\ y - (y % 64) + (y % 32) - (y % 8) = a.ths_lpf * 8
    BY SMT DEF Wish, Byte
  <2> HIDE DEF y
  <2> QED BY <2>1, MasksKeep, Zenon DEF y
<1>4. b.ths_lpf = a.ths_lpf /\ b.ths = ThsSource(input) /\ \A f \in Settings \ {"ths", "ths_lpf"} : b[f] = a[f]
  BY SMT DEF Renews, Settings
<1>5. b.ths_lpf * 8 + b.ths = Kept(a.ths_lpf * 8 + a.ths, {3, 4, 6, 7}) + ThsSource(input)
  BY <1>1, <1>3, <1>4, SMT DEF Wish
<1>6. {3, 4, 6, 7} \in SUBSET Int /\ ThsSource(input) \in Int
  BY <1>1, SMT
<1> QED BY <1>2, <1>4, <1>5, <1>6, Channels, Zenon DEF ths_source_sel

\* A register written twice holds what was written last.
LEMMA WrittenAgain ==
  ASSUME NEW r, NEW reg, NEW x, NEW y
  PROVE  [[r EXCEPT ![reg] = x] EXCEPT ![reg] = y] = [r EXCEPT ![reg] = y]
OBVIOUS

\* A register that is read, then written twice with what was read.
LEMMA ChangeTwice ==
  ASSUME NEW reg \in TVP \cup THS, NEW keep \in SUBSET Int, NEW v \in Int, NEW o \in Int, NEW r, DOMAIN r = Registers
  PROVE  Sets(Change(reg, keep, v) \o <<[rw |-> "write", reg |-> reg, keep |-> keep, put |-> o]>>,
              r, [r EXCEPT ![reg] = Kept(r[reg], keep) + o])
<1> DEFINE w == v % 256
           s == r[reg]
           a == [rw |-> "write", reg |-> reg, keep |-> keep, put |-> w]
           b == [rw |-> "write", reg |-> reg, keep |-> keep, put |-> o]
           q1 == [r EXCEPT ![reg] = Kept(s, keep) + w]
           q2 == [q1 EXCEPT ![reg] = Kept(s, keep) + o]
<1>1. w \in Int
  OBVIOUS
<1>2. reg \in Registers
  BY OffPages
<1>3. a \in Access /\ Effect(a, [r |-> r, s |-> s]) = [r |-> q1, s |-> s]
  <2> HIDE DEF w, s
  <2> QED BY <1>1, WriteLeads
<1>4. b \in Access /\ Effect(b, [r |-> q1, s |-> s]) = [r |-> q2, s |-> s]
  <2> HIDE DEF w, s, q1
  <2> QED BY WriteLeads
<1>5. <<a>> \in Seq(Access) /\ <<b>> \in Seq(Access) /\ Rd(reg) \in Seq(Access)
  <2>1. Rd(reg) \in Seq(Access)
    BY <1>2, ReadLeads, Zenon
  <2> HIDE DEF a, b
  <2> QED BY <1>3, <1>4, <2>1
<1>6. Rd(reg) \o <<a>> \in Seq(Access) /\ (Rd(reg) \o <<a>>) \o <<b>> \in Seq(Access)
  <2> HIDE DEF a, b
  <2> QED BY <1>5, ConcatProperties
<1>7. ASSUME NEW z PROVE Leads((Rd(reg) \o <<a>>) \o <<b>>, [r |-> r, s |-> z], [r |-> q2, s |-> s])
  <2>1. Leads(Rd(reg), [r |-> r, s |-> z], [r |-> r, s |-> s])
    BY <1>2, ReadLeads, Zenon
  <2>2. Leads(<<a>>, [r |-> r, s |-> s], [r |-> q1, s |-> s])
    <3> HIDE DEF a, s, q1
    <3> QED BY <1>3, LeadsOnce, Zenon
  <2>3. Leads(<<b>>, [r |-> q1, s |-> s], [r |-> q2, s |-> s])
    <3> HIDE DEF b, s, q1, q2
    <3> QED BY <1>4, LeadsOnce, Zenon
  <2> HIDE DEF a, b, s, q1, q2
  <2>4. Leads(Rd(reg) \o <<a>>, [r |-> r, s |-> z], [r |-> q1, s |-> s])
    BY <1>5, <2>1, <2>2, LeadsOn, Zenon
  <2> QED BY <1>5, <1>6, <2>3, <2>4, LeadsOn, Zenon
<1>8. Sets((Rd(reg) \o <<a>>) \o <<b>>, r, q2)
  <2> HIDE DEF a, b, q1, q2, s
  <2> QED BY <1>6, <1>7, Zenon DEF Sets
<1>9. q2 = [r EXCEPT ![reg] = Kept(s, keep) + o]
  BY WrittenAgain, Zenon
<1>10. Change(reg, keep, v) = Rd(reg) \o <<a>>
  BY DEF Change
<1> HIDE DEF a, q1, q2
<1> QED BY <1>8, <1>9, <1>10, Zenon

\* The sync processor is reset, not left in reset.
LEMMA Asleep ==
  ASSUME NEW a, Wish(a), a.pc \in BOOLEAN
  PROVE  Achieves(tvp_powerdown, a, [a EXCEPT !.power = FALSE])
<1> SUFFICES ASSUME NEW b, Renews(b, a, "power", FALSE) PROVE Achieves(tvp_powerdown, a, b)
  BY Renewed, Zenon DEF Settings
<1>1. Wish(b)
  BY SMT DEF Wish, Settings, Renews
<1>2. ASSUME NEW r, HoldsAll(r, a) PROVE \E q : Sets(tvp_powerdown, r, q) /\ HoldsAll(q, b)
  <2> DEFINE p == Change("MISCCTRL4", 0 .. 6, 128) \o <<[rw |-> "write", reg |-> "MISCCTRL4", keep |-> 0 .. 6, put |-> 0]>>
             x == Kept(r["MISCCTRL4"], 0 .. 6) + 0
             q == [r EXCEPT !["MISCCTRL4"] = x]
             u == [q EXCEPT !["MISCCTRL1"] = 19 % 256]
  <2>1. "MISCCTRL4" \in TVP \cup THS /\ "MISCCTRL1" \in TVP \cup THS /\ 0 .. 6 \in SUBSET Int /\ DOMAIN r = Registers
    BY <1>2, RegisterNames, SMT DEF HoldsAll, Holds
  <2>2. Sets(p, r, q)
    <3>1. 128 \in Int /\ 0 \in Int
      BY SMT
    <3> QED BY <2>1, <3>1, ChangeTwice, Zenon
  <2>3. Sets(Wr("MISCCTRL1", 19), q, u)
    <3> HIDE DEF q
    <3> QED BY <2>1, OffPages, WrSets, SMT
  <2>4. Sets(tvp_powerdown, r, u)
    <3>1. tvp_powerdown = p \o Wr("MISCCTRL1", 19)
      BY DEF tvp_powerdown
    <3>2. Sets(p \o Wr("MISCCTRL1", 19), r, u)
      <4> HIDE DEF p, q, u
      <4> QED BY <2>2, <2>3, SetsOn, Zenon
    <3> HIDE DEF p, u
    <3> QED BY <3>1, <3>2, Zenon
  <2>5. x = r["MISCCTRL4"]
    <3>1. r["MISCCTRL4"] \in {9, 13}
      BY <1>2 DEF HoldsAll, Holds
    <3>2. r["MISCCTRL4"] \in Byte /\ r["MISCCTRL4"] % 128 = r["MISCCTRL4"]
      BY <3>1, SMT DEF Byte
    <3>3. Kept(r["MISCCTRL4"], 0 .. 6) = r["MISCCTRL4"]
      BY <3>2, MasksKeep, Zenon
    <3> QED BY <3>1, <3>3, SMT
  <2>6. Differs(q, r, "MISCCTRL4", r["MISCCTRL4"])
    <3> HIDE DEF x
    <3> QED BY <2>1, <2>5, OffPages, Written, Zenon
  <2>7. Differs(u, q, "MISCCTRL1", 19)
    <3>1. Differs(u, q, "MISCCTRL1", 19 % 256) /\ 19 % 256 = 19
      <4> HIDE DEF q
      <4> QED BY <2>1, <2>6, OffPages, Written, SMT DEF Differs
    <3> HIDE DEF u
    <3> QED BY <3>1
  <2>8. HoldsAll(u, b)
    <3>1. Differs(u, r, "MISCCTRL1", 19)
      <4> HIDE DEF q, u
      <4> QED BY <2>1, <2>6, <2>7, SMT DEF Differs
    <3> HIDE DEF q, u
    <3> QED BY <1>1, <1>2, <3>1, RegisterNames, SMT DEF HoldsAll, Holds, THS, Dsp, Settings, Differs, Renews
  <2> HIDE DEF u
  <2> QED BY <2>4, <2>8, Zenon
<1> QED BY <1>2, Zenon DEF Achieves

\* The clamp and behind it the level control are within the line.
LEMMA ClampPlaced ==
  ASSUME NEW a, NEW m \in Modes
  PROVE  Achieves(tvp_set_clamp_alc(m), a, a)
<1> DEFINE w == IF m.type = "HDTV" THEN 32 ELSE 16
           alc == IF m.type = "HDTV" THEN 8 ELSE 2
           pos == Clamp(m, w, alc)
<1>1. w \in Nat /\ alc \in {2, 8} /\ w + alc <= 40
  BY SMT
<1>2. pos \in 0 .. 255 /\ pos + w + alc \in 0 .. 255
  <2>1. m.ref \in Int /\ m.offset \in Int
    BY SettingAssumption
  <2>2. (m.ref % 256) + m.offset + (IF m.type = "HDTV" THEN 50 ELSE 6) \in Int
    BY <2>1, SMT
  <2> HIDE DEF w, alc
  <2> QED BY <1>1, <2>2, SMT DEF Clamp
<1>3. ASSUME NEW r, HoldsAll(r, a) PROVE \E q : Sets(tvp_set_clamp_alc(m), r, q) /\ HoldsAll(q, a)
  <2> DEFINE q1 == [r EXCEPT !["CLAMPSTART"] = pos % 256]
             q2 == [q1 EXCEPT !["CLAMPWIDTH"] = w % 256]
             q3 == [q2 EXCEPT !["ALCEN"] = 128 % 256]
             q4 == [q3 EXCEPT !["ALCPLACE"] = (pos + w + alc) % 256]
  <2>1. /\ "CLAMPSTART" \in TVP \cup THS /\ "CLAMPWIDTH" \in TVP \cup THS /\ "ALCEN" \in TVP \cup THS
        /\ "ALCPLACE" \in TVP \cup THS /\ DOMAIN r = Registers
    BY <1>3, RegisterNames, SMT DEF HoldsAll, Holds
  <2>2. Sets(Wr("CLAMPSTART", pos), r, q1) /\ Sets(Wr("CLAMPWIDTH", w), q1, q2)
        /\ Sets(Wr("ALCEN", 128), q2, q3) /\ Sets(Wr("ALCPLACE", pos + w + alc), q3, q4)
    <3>1. pos \in Int /\ w \in Int /\ 128 \in Int /\ pos + w + alc \in Int
      <4> HIDE DEF pos, w, alc
      <4> QED BY <1>1, <1>2, SMT
    <3>2. \A g \in {"CLAMPSTART", "CLAMPWIDTH", "ALCEN", "ALCPLACE"} : \A q : ReachedIn(q, g) /\ g \in Registers
      BY <2>1, OffPages
    <3> HIDE DEF pos, w, alc
    <3>3. Sets(Wr("CLAMPSTART", pos), r, q1)
      BY <3>1, <3>2, WrSets, Zenon
    <3>4. Sets(Wr("CLAMPWIDTH", w), q1, q2)
      <4> HIDE DEF q1
      <4> QED BY <3>1, <3>2, WrSets, Zenon
    <3>5. Sets(Wr("ALCEN", 128), q2, q3)
      <4> HIDE DEF q2
      <4> QED BY <3>1, <3>2, WrSets, Zenon
    <3>6. Sets(Wr("ALCPLACE", pos + w + alc), q3, q4)
      <4> HIDE DEF q3
      <4> QED BY <3>1, <3>2, WrSets, Zenon
    <3> HIDE DEF q1, q2, q3, q4
    <3> QED BY <3>3, <3>4, <3>5, <3>6
  <2>3. Sets(tvp_set_clamp_alc(m), r, q4)
    <3>1. tvp_set_clamp_alc(m) = Wr("CLAMPSTART", pos) \o Wr("CLAMPWIDTH", w) \o Wr("ALCEN", 128) \o Wr("ALCPLACE", pos + w + alc)
      BY Zenon DEF tvp_set_clamp_alc
    <3>2. Sets(Wr("CLAMPSTART", pos) \o Wr("CLAMPWIDTH", w) \o Wr("ALCEN", 128) \o Wr("ALCPLACE", pos + w + alc), r, q4)
      <4> HIDE DEF pos, w, alc, q1, q2, q3, q4
      <4>1. Sets(Wr("CLAMPSTART", pos) \o Wr("CLAMPWIDTH", w), r, q2)
        BY <2>2, SetsOn, Zenon
      <4>2. Sets(Wr("CLAMPSTART", pos) \o Wr("CLAMPWIDTH", w) \o Wr("ALCEN", 128), r, q3)
        BY <2>2, <4>1, SetsOn, Zenon
      <4> QED BY <2>2, <4>2, SetsOn, Zenon
    <3> HIDE DEF pos, w, alc, q1, q2, q3, q4
    <3> QED BY <3>1, <3>2, Zenon
  <2>4. /\ DOMAIN q4 = Registers /\ q4["CLAMPSTART"] = pos /\ q4["CLAMPWIDTH"] = w /\ q4["ALCPLACE"] = pos + w + alc
        /\ \A y \in Registers : y \notin {"CLAMPSTART", "CLAMPWIDTH", "ALCEN", "ALCPLACE"} => q4[y] = r[y]
    <3>1. pos % 256 = pos /\ w % 256 = w /\ (pos + w + alc) % 256 = pos + w + alc
      <4> HIDE DEF pos, w, alc
      <4> QED BY <1>1, <1>2, SMT
    <3> HIDE DEF pos, w, alc
    <3> QED BY <2>1, <3>1, RegisterNames, SMT
  <2>5. HoldsAll(q4, a)
    <3>1. q4["ALCPLACE"] > q4["CLAMPSTART"] + q4["CLAMPWIDTH"]
      <4> HIDE DEF pos, w, alc, q4
      <4> QED BY <1>1, <1>2, <2>4, SMT
    <3> HIDE DEF pos, w, alc, q4
    <3> QED BY <1>3, <2>4, <3>1, RegisterNames, SMT DEF HoldsAll, Holds, THS, Dsp
  <2> HIDE DEF q4
  <2> QED BY <2>3, <2>5, Zenon
<1> QED BY <1>3, Zenon DEF Achieves

\* A wish that is neither of two asks nothing.
Neither == CHOOSE x : x \notin BOOLEAN
LEMMA NeitherWish == Neither # TRUE /\ Neither # FALSE
<1>1. \E x : x \notin BOOLEAN
  BY NoSetContainsEverything, Zenon
<1>2. Neither \notin BOOLEAN
  BY <1>1, Zenon DEF Neither
<1> QED BY <1>2, Zenon

\* Nothing is asked of the sync processor while it is reset.
LEMMA Reset ==
  ASSUME NEW a, Wish(a)
  PROVE  Achieves(Change("MISCCTRL4", 0 .. 6, 128), a, [a EXCEPT !.pc = Neither])
<1> SUFFICES ASSUME NEW b, Renews(b, a, "pc", Neither) PROVE Achieves(Change("MISCCTRL4", 0 .. 6, 128), a, b)
  BY Renewed, Zenon DEF Settings
<1>1. ASSUME NEW r, NEW x, NEW q, HoldsAll(r, a), x = Kept(r["MISCCTRL4"], 0 .. 6) + (128 % 256),
             Differs(q, r, "MISCCTRL4", x)
      PROVE  HoldsAll(q, b)
  <2>1. Wish(b)
    BY SMT DEF Wish, Settings, Renews
  <2>2. b.pc # TRUE /\ b.pc # FALSE
    BY NeitherWish, Zenon DEF Renews
  <2>3. (b.pc = TRUE => q["MISCCTRL4"] = 13) /\ (b.pc = FALSE => q["MISCCTRL4"] = 9)
    BY <2>2, Zenon
  <2> QED BY <1>1, <2>1, <2>3, RegisterNames, SMT DEF HoldsAll, Holds, THS, Dsp, Settings, Differs, Renews
<1> QED BY <1>1, ChangeAchieves, RegisterNames, SMT

\* The polarity of the clamp's pulse, which ends a reset.
LEMMA Polarity ==
  ASSUME NEW a, Wish(a), NEW polarity \in BOOLEAN
  PROVE  Achieves(Wr("MISCCTRL4", IF polarity THEN 13 ELSE 9), a, [a EXCEPT !.pc = polarity])
<1> DEFINE v == IF polarity THEN 13 ELSE 9
<1> SUFFICES ASSUME NEW b, Renews(b, a, "pc", polarity) PROVE Achieves(Wr("MISCCTRL4", v), a, b)
  BY Renewed, Zenon DEF Settings
<1>1. v \in Int /\ v % 256 = v /\ (polarity = TRUE => v = 13) /\ (polarity = FALSE => v = 9)
  BY SMT
<1>2. ASSUME NEW r, NEW q, HoldsAll(r, a), Differs(q, r, "MISCCTRL4", v % 256)
      PROVE  HoldsAll(q, b)
  <2>1. Wish(b)
    BY SMT DEF Wish, Settings, Renews
  <2>2. b.pc = polarity
    BY Zenon DEF Renews
  <2> HIDE DEF v
  <2>3. (b.pc = TRUE => q["MISCCTRL4"] = 13) /\ (b.pc = FALSE => q["MISCCTRL4"] = 9)
    BY <1>1, <1>2, <2>2, Zenon DEF Differs
  <2> QED BY <1>2, <2>1, <2>3, RegisterNames, SMT DEF HoldsAll, Holds, THS, Dsp, Settings, Differs, Renews
<1> HIDE DEF v
<1> QED BY <1>1, <1>2, WrAchieves, RegisterNames, SMT DEF Page1

LEMMA RateWish == ASSUME NEW a, Wish(a), NEW v \in Rates, NEW b, Renews(b, a, "rate", v) PROVE Wish(b)
<1>1. /\ DOMAIN b = Settings /\ b.rate = v /\ b.sync_lpf = a.sync_lpf /\ b.clp_lpf = a.clp_lpf /\ b.lpf = a.lpf
       /\ b.phase = a.phase
      /\ b.thold = a.thold /\ b.ths = a.ths /\ b.ths_lpf = a.ths_lpf /\ b.mono = a.mono /\ b.gain = a.gain
  BY DEF Renews, Settings
<1> QED BY <1>1, Zenon DEF Wish

\* The divider doubles what the rate is programmed to.
LEMMA HpllSet ==
  ASSUME NEW a, Wish(a), NEW rate \in Rates, NEW pixs \in Nat \ {0}, NEW refclks \in Nat \ {0}, NEW divide \in BOOLEAN
  PROVE  Achieves(tvp_setup_hpll(rate, pixs, refclks, divide), a, [a EXCEPT !.rate = rate])
<1> SUFFICES ASSUME NEW b, Renews(b, a, "rate", rate) PROVE Achieves(tvp_setup_hpll(rate, pixs, refclks, divide), a, b)
  BY Renewed, Zenon DEF Settings
<1>5. Wish(b)
  BY RateWish, Zenon
<1> DEFINE twice == divide /\ rate < 2048
           d == IF twice THEN 1 ELSE 0
           h == IF twice THEN 2 * rate ELSE rate
           pclk == (h * (27000000 \div refclks)) \div 1000
           range == IF pclk < 36000 THEN 0 ELSE IF pclk < 70000 THEN 1 ELSE IF pclk < 135000 THEN 2 ELSE 3
           cp == (40 * Kvco[range + 1] + pixs \div 2) \div pixs
           current == IF cp > 6 THEN 6 ELSE IF cp = 0 THEN 1 ELSE cp
           c == range * 64 + current * 8
           one == Change("HPLLPHASE", 3 .. 7, d)
           two == <<[rw |-> "write", reg |-> "HPLLDIV", keep |-> {}, put |-> h]>>
           three == Wr("HPLLCTRL", c)
<1>1. d \in {0, 1} /\ h = rate * (1 + d) /\ h \in Int
  BY SMT DEF Rates
<1>2. c \in Int
  <2>1. range \in 0 .. 3
    <3> HIDE DEF pclk
    <3> QED BY SMT
  <2>2. Kvco[range + 1] \in Int
    <3> HIDE DEF range
    <3>1. range = 0 \/ range = 1 \/ range = 2 \/ range = 3
      BY <2>1, SMT
    <3> QED BY <3>1, SMT DEF Kvco
  <2>3. cp \in Int
    <3> DEFINE k == Kvco[range + 1]
    <3> HIDE DEF k
    <3>1. (40 * k + pixs \div 2) \div pixs \in Int
      BY <2>2, SMT DEF k
    <3> QED BY <3>1 DEF k
  <2>4. current \in Int
    <3> HIDE DEF cp
    <3> QED BY <2>3, SMT
  <2> HIDE DEF range, current
  <2> QED BY <2>1, <2>4, SMT
<1>3. tvp_setup_hpll(rate, pixs, refclks, divide) = (one \o two) \o three
  BY SMT DEF tvp_setup_hpll
<1>4. ASSUME NEW r, HoldsAll(r, a) PROVE \E q : Sets((one \o two) \o three, r, q) /\ HoldsAll(q, b)
  <2> HIDE DEF d, h, c
  <2> DEFINE x == Kept(r["HPLLPHASE"], 3 .. 7) + (d % 256)
             q1 == [r EXCEPT !["HPLLPHASE"] = x]
             q2 == [q1 EXCEPT !["HPLLDIV"] = h]
             q3 == [q2 EXCEPT !["HPLLCTRL"] = c % 256]
  <2>1. \A g \in {"HPLLPHASE", "HPLLDIV", "HPLLCTRL"} : g \in Registers /\ \A q : ReachedIn(q, g)
    BY RegisterNames, OffPages
  <2>2. DOMAIN r = Registers
    BY <1>4 DEF HoldsAll, Holds
  <2>3. Sets(one, r, q1)
    <3>1. d \in Int /\ 3 .. 7 \in SUBSET Int
      BY <1>1, SMT
    <3> QED BY <2>1, <3>1, ChangeSets, Zenon
  <2>4. Sets(two, q1, q2)
    <3> HIDE DEF q1
    <3> QED BY <1>1, <2>1, WholeWrite, Zenon
  <2>5. Sets(three, q2, q3)
    <3> HIDE DEF q2
    <3> QED BY <1>2, <2>1, WrSets, Zenon
  <2>6. Sets((one \o two) \o three, r, q3)
    <3> HIDE DEF one, two, three, q1, q2, q3
    <3> QED BY <2>3, <2>4, <2>5, SetsOn, Zenon
  <2>7. x = 8 * a.phase + d
    <3>1. r["HPLLPHASE"] \in {8 * a.phase, 8 * a.phase + 1} /\ a.phase \in 0 .. 31
      BY <1>4, SMT DEF HoldsAll, Holds, Wish
    <3>2. r["HPLLPHASE"] \in Byte /\ r["HPLLPHASE"] - (r["HPLLPHASE"] % 8) = 8 * a.phase
      BY <3>1, SMT DEF Byte
    <3>3. Kept(r["HPLLPHASE"], 3 .. 7) = 8 * a.phase
      BY <3>2, MasksKeep, Zenon
    <3>4. d % 256 = d /\ d \in Int
      BY <1>1, SMT
    <3> QED BY <3>3, <3>4, Zenon
  <2>8. DOMAIN q3 = Registers /\ q3["HPLLPHASE"] = x /\ q3["HPLLDIV"] = h
        /\ \A y \in Registers : y \notin {"HPLLPHASE", "HPLLDIV", "HPLLCTRL"} => q3[y] = r[y]
    <3> HIDE DEF x
    <3> QED BY <2>1, <2>2, SMT
  <2>9. HoldsAll(q3, b)
    <3>2. Times(x, a.phase) = 1 + d
      <4> HIDE DEF x
      <4> QED BY <1>1, <1>4, <2>7, SMT DEF Times, HoldsAll, Holds, Wish, Rates
    <3>3. q3["HPLLDIV"] = rate * Times(x, a.phase) /\ x \in {8 * a.phase, 8 * a.phase + 1}
      <4> HIDE DEF x, q3
      <4>1. q3["HPLLDIV"] = rate * (1 + d)
        BY <1>1, <2>8, Zenon
      <4>2. x = 8 * a.phase \/ x = 8 * a.phase + 1
        <5>1. a.phase \in Nat
          BY SMT DEF Wish
        <5> QED BY <1>1, <2>7, <5>1, SMT
      <4> QED BY <3>2, <4>1, <4>2, Zenon
    <3> HIDE DEF x, q3
    <3> QED BY <1>4, <1>5, <2>8, <3>3, RegisterNames, SMT DEF HoldsAll, Holds, THS, Dsp, Settings, Renews, Rates
  <2> HIDE DEF q3, one, two, three
  <2> QED BY <2>6, <2>9, Zenon
<1> HIDE DEF one, two, three
<1> QED BY <1>3, <1>4, Zenon DEF Achieves

LEMMA PolarityLast ==
  ASSUME NEW z, NEW u, NEW v
  PROVE [[z EXCEPT !.pc = u] EXCEPT !.rate = v] = [z EXCEPT !.rate = v, !.pc = u]
BY Zenon

\* A source is set up: sampling rate, clamp, and the sync processor, which is reset meanwhile if the line has changed.
LEMMA SourceSetUp ==
  ASSUME NEW a, Wish(a), a.pc \in BOOLEAN, NEW m \in Modes
  PROVE  Achieves(tvp_source_setup(m), a, [a EXCEPT !.rate = m.rate, !.pc = m.type = "PC"])
<1> DEFINE polarity == m.type = "PC"
           one == IF m.changed THEN Change("MISCCTRL4", 0 .. 6, 128) ELSE <<>>
           two == tvp_set_clamp_alc(m)
           three == Wr("MISCCTRL4", IF m.type = "PC" THEN 13 ELSE 9)
           four == tvp_setup_hpll(m.rate, m.pixs, m.refclks, m.divide)
           b == IF m.changed THEN [a EXCEPT !.pc = Neither] ELSE a
           c == [b EXCEPT !.pc = polarity]
           d == [c EXCEPT !.rate = m.rate]
<1>1. tvp_source_setup(m) = one \o two \o three \o four
  BY Zenon DEF tvp_source_setup
<1>2. polarity \in BOOLEAN /\ m.rate \in Rates /\ m.pixs \in Nat \ {0} /\ m.refclks \in Nat \ {0}
       /\ m.divide \in BOOLEAN
  BY SettingAssumption DEF Rates
<1>3. Achieves(one, a, b) /\ Wish(b)
  <2>1. CASE m.changed
    <3>1. Renews([a EXCEPT !.pc = Neither], a, "pc", Neither)
      BY Renewed, Zenon DEF Settings
    <3>2. Wish([a EXCEPT !.pc = Neither])
      <4> SUFFICES ASSUME NEW z, Renews(z, a, "pc", Neither) PROVE Wish(z)
        BY <3>1, Zenon
      <4> QED BY SMT DEF Wish, Settings, Renews
    <3> QED BY <2>1, <3>2, Reset
  <2>2. CASE ~ m.changed
    <3>1. Achieves(<<>>, a, a)
      BY SetsNothing, Zenon DEF Achieves
    <3> QED BY <2>2, <3>1, Zenon
  <2> QED BY <2>1, <2>2
<1>4. Achieves(two, b, b)
  BY ClampPlaced, Zenon
<1>5. Achieves(three, b, c) /\ Wish(c)
  <2> HIDE DEF b
  <2>1. Achieves(Wr("MISCCTRL4", IF polarity THEN 13 ELSE 9), b, c)
    <3> HIDE DEF polarity
    <3> QED BY <1>2, <1>3, Polarity, Zenon
  <2>2. Renews(c, b, "pc", polarity)
    <3> HIDE DEF polarity
    <3> QED BY <1>3, Renewed, Zenon DEF Settings
  <2>3. Wish(c)
    <3> HIDE DEF c, polarity
    <3> QED BY <1>3, <2>2, SMT DEF Wish, Settings, Renews
  <2> QED BY <2>1, <2>3
<1>6. Achieves(four, c, d)
  <2> HIDE DEF c
  <2> QED BY <1>2, <1>5, HpllSet, Zenon
<1>7. Achieves(one \o two \o three \o four, a, d)
  <2> HIDE DEF one, two, three, four, b, c, d
  <2>1. Achieves(one \o two, a, b)
    BY <1>3, <1>4, AchievesOn, Zenon
  <2>2. Achieves(one \o two \o three, a, c)
    BY <1>5, <2>1, AchievesOn, Zenon
  <2> QED BY <1>6, <2>2, AchievesOn, Zenon
<1>8. d = [a EXCEPT !.rate = m.rate, !.pc = m.type = "PC"]
  <2>1. c = [a EXCEPT !.pc = polarity]
    <3> HIDE DEF polarity
    <3>1. [[a EXCEPT !.pc = Neither] EXCEPT !.pc = polarity] = [a EXCEPT !.pc = polarity]
      OBVIOUS
    <3> QED BY <3>1
  <2> HIDE DEF c
  <2>2. [[a EXCEPT !.pc = polarity] EXCEPT !.rate = m.rate] = [a EXCEPT !.rate = m.rate, !.pc = polarity]
    <3> HIDE DEF polarity
    <3> QED BY PolarityLast, Zenon
  <2> QED BY <2>1, <2>2
<1> HIDE DEF one, two, three, four, d
<1> QED BY <1>1, <1>7, <1>8, Zenon

\* The input, the clamp for it and the sync.
LEMMA SyncSelected ==
  ASSUME NEW a, Wish(a), NEW input \in Int, NEW sync \in Int, NEW fmt
  PROVE  Achieves(tvp_source_sel(input, sync, fmt), a, [a EXCEPT !.fmt = fmt])
<1> DEFINE v1 == (IF sync <= 2 THEN sync ELSE 0) * 64 + input * 16 + input * 4 + input
           v2 == IF sync <= 2 THEN 91 ELSE IF sync < 5 THEN 82 ELSE 83
           v3 == IF fmt = "YPbPr" THEN 16 ELSE 0
           b == [a EXCEPT !.fmt = fmt]
           one == Wr("INPMUX1", v1)
           two == tvp_set_clamp_type(fmt)
           three == Wr("SYNCCTRL1", v2)
           four == Rd("SYNCSTAT")
           five == Wr("MISCCTRL3", v3)
<1>1. tvp_source_sel(input, sync, fmt) = one \o two \o three \o four \o five
  BY Zenon DEF tvp_source_sel
<1>2. v1 \in Int /\ v2 \in Int /\ v3 \in Int
  BY SMT
<1>3. Achieves(one, a, a)
  <2> HIDE DEF v1
  <2> QED BY <1>2, FreeRegister
<1>4. Achieves(two, a, b)
  BY ClampType, Zenon
<1>5. Achieves(three, b, b)
  <2> HIDE DEF v2, b
  <2> QED BY <1>2, FreeRegister
<1>6. Achieves(four, b, b)
  <2> HIDE DEF b
  <2> QED BY RegisterNames, RdAchieves, SMT
<1>7. Achieves(five, b, b)
  <2> HIDE DEF v3, b
  <2> QED BY <1>2, FreeRegister
<1>8. Achieves(one \o two \o three \o four \o five, a, b)
  <2> HIDE DEF one, two, three, four, five, b
  <2>1. Achieves(one \o two, a, b)
    BY <1>3, <1>4, AchievesOn, Zenon
  <2>2. Achieves(one \o two \o three, a, b)
    BY <1>5, <2>1, AchievesOn, Zenon
  <2>3. Achieves(one \o two \o three \o four, a, b)
    BY <1>6, <2>2, AchievesOn, Zenon
  <2> QED BY <1>7, <2>3, AchievesOn, Zenon
<1> HIDE DEF one, two, three, four, five
<1> QED BY <1>1, <1>8, Zenon

LEMMA InOrder ==
  ASSUME NEW z, NEW u, NEW v
  PROVE [[z EXCEPT !.power = u] EXCEPT !.fmt = v] = [z EXCEPT !.fmt = v, !.power = u]
BY Zenon

\* A source is selected in all three chips, or in two if there is no audio converter.
Selecting(s) ==
  ths_source_sel(s.ths) \o tvp_powerdown \o (IF pcm1862_active THEN pcm_source_sel(s.pcm) ELSE <<>>)
    \o tvp_source_sel(s.tvp, s.sync, s.fmt)
LEMMA SourceSelected ==
  ASSUME NEW a, Wish(a), a.pc \in BOOLEAN, NEW s \in Sources
  PROVE  Achieves(Selecting(s), a, [a EXCEPT !.ths = ThsSource(s.ths), !.fmt = s.fmt, !.power = FALSE])
<1> DEFINE x == ThsSource(s.ths)
           b == [a EXCEPT !.ths = x]
           c == [b EXCEPT !.power = FALSE]
           d == [c EXCEPT !.fmt = s.fmt]
           g == 64 + 2^s.pcm
           one == ths_source_sel(s.ths)
           two == tvp_powerdown
           left == Wr("ADC1L", g)
           right == Wr("ADC1R", g)
           three == IF pcm1862_active THEN pcm_source_sel(s.pcm) ELSE <<>>
           four == tvp_source_sel(s.tvp, s.sync, s.fmt)
<1>1. s.ths \in 0 .. 2 /\ s.pcm \in {1, 2, 3} /\ s.tvp \in Int /\ s.sync \in Int
  BY SMT DEF Sources
<1>2. g \in Int
  <2>1. 2^s.pcm \in {2, 4, 8}
    BY <1>1, BytePowers, Zenon
  <2> QED BY <2>1, SMT
<1>3. x \in {1, 4, 36}
  BY <1>1, SMT DEF ThsSource
<1>4. Wish(b) /\ b.pc \in BOOLEAN
  <2> HIDE DEF x
  <2>1. Renews(b, a, "ths", x)
    BY Renewed, Zenon DEF Settings
  <2> HIDE DEF b
  <2> QED BY <1>3, <2>1, SMT DEF Wish, Settings, Renews
<1>5. Wish(c)
  <2> HIDE DEF b
  <2>1. Renews(c, b, "power", FALSE)
    BY <1>4, Renewed, Zenon DEF Settings
  <2> HIDE DEF c
  <2> QED BY <1>4, <2>1, SMT DEF Wish, Settings, Renews
<1>6. Achieves(one, a, b)
  BY <1>1, ThsInput, Zenon
<1>7. Achieves(two, b, c)
  <2> HIDE DEF b
  <2> QED BY <1>4, Asleep, Zenon
<1>8. Achieves(left, c, c) /\ Achieves(right, c, c)
  <2> HIDE DEF c, g
  <2> QED BY <1>2, FreeRegister
<1>9. Achieves(four, c, d)
  <2> HIDE DEF c
  <2> QED BY <1>1, <1>5, SyncSelected, Zenon
<1>10. Achieves(three, c, c)
  <2>1. pcm_source_sel(s.pcm) = left \o right
    BY Zenon DEF pcm_source_sel
  <2> HIDE DEF left, right, c
  <2>2. Achieves(pcm_source_sel(s.pcm), c, c)
    BY <1>8, <2>1, AchievesOn, Zenon
  <2>3. Achieves(<<>>, c, c)
    BY SetsNothing, Zenon DEF Achieves
  <2> QED BY <2>2, <2>3, Zenon
<1>11. Achieves(one \o two \o three \o four, a, d)
  <2> HIDE DEF one, two, three, four, b, c, d
  <2>1. Achieves(one \o two, a, c)
    BY <1>6, <1>7, AchievesOn, Zenon
  <2>2. Achieves(one \o two \o three, a, c)
    BY <1>10, <2>1, AchievesOn, Zenon
  <2> QED BY <1>9, <2>2, AchievesOn, Zenon
<1>12. d = [a EXCEPT !.ths = x, !.fmt = s.fmt, !.power = FALSE]
  <2>1. d = [b EXCEPT !.fmt = s.fmt, !.power = FALSE]
    <3> HIDE DEF b
    <3> QED BY InOrder, Zenon
  <2> HIDE DEF d, x
  <2> QED BY <2>1
<1>13. Selecting(s) = one \o two \o three \o four
  BY Zenon DEF Selecting
<1>14. Achieves(one \o two \o three \o four, a, [a EXCEPT !.ths = x, !.fmt = s.fmt, !.power = FALSE])
  <2> HIDE DEF one, two, three, four, d
  <2> QED BY <1>11, <1>12, Zenon
<1> QED
  <2> HIDE DEF one, two, three, four
  <2> QED BY <1>13, <1>14, Zenon

\* One coefficient of the audio converter's mixer, on the second page.
Mixes(ch, mono) == Wr(ch, mono) \o Wr("DSP2_CFG", 1) \o Poll("DSP2_CFG")
LEMMA CoefficientSet ==
  ASSUME NEW ch \in Dsp, NEW b, b.mono \in {0, 1}, NEW dsp \in SUBSET Dsp, NEW r, Holds(r, b, 1, dsp)
  PROVE  \E q : Sets(Mixes(ch, b.mono), r, q) /\ Holds(q, b, 1, dsp \cup {ch})
<1> DEFINE mono == b.mono
           q1 == [r EXCEPT ![ch] = mono % 256]
           q2 == [q1 EXCEPT !["DSP2_CFG"] = 1 % 256]
<1>1. ch \in Registers /\ "DSP2_CFG" \in Registers /\ DOMAIN r = Registers /\ r["PAGESEL"] = 1
      /\ "PAGESEL" \in Registers /\ ch # "PAGESEL" /\ ch # "DSP2_CFG" /\ ch \in Page1 /\ "DSP2_CFG" \in Page1
  BY RegisterNames, SMT DEF Holds, Dsp, Page1
<1>2. Differs(q1, r, ch, mono % 256)
  BY <1>1, Written, Zenon
<1>3. Differs(q2, q1, "DSP2_CFG", 1 % 256)
  <2>1. DOMAIN q1 = Registers
    BY <1>2 DEF Differs
  <2> HIDE DEF q1
  <2> QED BY <1>1, <2>1, Written, Zenon
<1>4. mono \in Int /\ 1 \in Int /\ mono % 256 = mono
  BY SMT
<1>5. Sets(Wr(ch, mono), r, q1)
  <2>1. ReachedIn(r, ch)
    BY <1>1 DEF ReachedIn
  <2> HIDE DEF mono
  <2> QED BY <1>1, <1>4, <2>1, WrSets, Zenon
<1>6. Sets(Wr("DSP2_CFG", 1), q1, q2)
  <2>1. q1["PAGESEL"] = 1
    <3> HIDE DEF q1
    <3> QED BY <1>1, <1>2 DEF Differs
  <2>2. ReachedIn(q1, "DSP2_CFG")
    <3> HIDE DEF q1
    <3> QED BY <1>1, <2>1 DEF ReachedIn
  <2> HIDE DEF q1
  <2> QED BY <1>1, <1>4, <2>2, WrSets, Zenon
<1>7. Sets(Poll("DSP2_CFG"), q2, q2)
  <2> HIDE DEF q2
  <2> QED BY <1>1, PollSets, Zenon
<1>8. Sets(Mixes(ch, mono), r, q2)
  <2> HIDE DEF q1, q2, mono
  <2>1. Sets(Wr(ch, mono) \o Wr("DSP2_CFG", 1), r, q2)
    BY <1>5, <1>6, SetsOn, Zenon
  <2>2. Sets(Wr(ch, mono) \o Wr("DSP2_CFG", 1) \o Poll("DSP2_CFG"), r, q2)
    BY <1>7, <2>1, SetsOn, Zenon
  <2> QED BY <2>2, Zenon DEF Mixes
<1>9. Holds(q2, b, 1, dsp \cup {ch})
  <2>1. DOMAIN q2 = Registers /\ q2[ch] = mono /\ \A y \in Registers : y # ch /\ y # "DSP2_CFG" => q2[y] = r[y]
    <3> HIDE DEF q1, q2
    <3> QED BY <1>1, <1>2, <1>3, <1>4, Zenon DEF Differs
  <2>2. \A c \in dsp \cup {ch} : q2[c] = b.mono
    <3> SUFFICES ASSUME NEW c \in dsp \cup {ch}, c # ch PROVE q2[c] = b.mono
      <4> HIDE DEF q2
      <4> QED BY <2>1, Zenon
    <3>1. c \in dsp /\ c \in Registers /\ c # "DSP2_CFG"
      BY RegisterNames, SMT DEF Dsp
    <3>2. r[c] = b.mono
      BY <3>1, Zenon DEF Holds
    <3> HIDE DEF q2
    <3> QED BY <2>1, <3>1, <3>2, Zenon
  <2> HIDE DEF q2
  <2>3. \A y \in {"INPMUX2", "VIDEOBWLIM", "HPLLPHASE", "HPLLDIV", "SOGTHOLD", "MISCCTRL4", "MISCCTRL1", "ALCEN",
                  "ALCPLACE", "CLAMPSTART", "CLAMPWIDTH", "PAGESEL", "PGA1", "CH1", "CH2", "CH3"} : q2[y] = r[y]
    BY <1>1, <2>1, RegisterNames, SMT DEF THS, Dsp
  <2> QED BY <2>1, <2>2, <2>3, SMT DEF Holds, THS
<1> HIDE DEF q2
<1> QED BY <1>8, <1>9, Zenon

\* Turning a page changes nothing else.
LEMMA PageTurned ==
  ASSUME NEW b, NEW dsp \in SUBSET Dsp, NEW r, NEW old, NEW page \in {0, 1}, Holds(r, b, old, dsp)
  PROVE  \E q : Sets(Wr("PAGESEL", page), r, q) /\ Holds(q, b, page, dsp)
<1> DEFINE q == [r EXCEPT !["PAGESEL"] = page % 256]
<1>1. "PAGESEL" \in Registers /\ DOMAIN r = Registers /\ ReachedIn(r, "PAGESEL") /\ page \in Int /\ page % 256 = page
  BY RegisterNames, SMT DEF Holds, ReachedIn
<1>2. Sets(Wr("PAGESEL", page), r, q)
  BY <1>1, WrSets, Zenon
<1>3. Differs(q, r, "PAGESEL", page)
  <2>1. Differs(q, r, "PAGESEL", page % 256)
    BY <1>1, Written, Zenon
  <2> HIDE DEF q
  <2> QED BY <1>1, <2>1, Zenon
<1>4. Holds(q, b, page, dsp)
  <2> HIDE DEF q
  <2>1. \A c \in dsp : q[c] = b.mono
    <3> SUFFICES ASSUME NEW c \in dsp PROVE q[c] = b.mono
      OBVIOUS
    <3>1. c \in Registers /\ c # "PAGESEL" /\ r[c] = b.mono
      BY RegisterNames, SMT DEF Dsp, Holds
    <3> QED BY <1>3, <3>1, Zenon DEF Differs
  <2>2. \A y \in {"INPMUX2", "VIDEOBWLIM", "HPLLPHASE", "HPLLDIV", "SOGTHOLD", "MISCCTRL4", "MISCCTRL1", "ALCEN",
                  "ALCPLACE", "CLAMPSTART", "CLAMPWIDTH", "PGA1", "CH1", "CH2", "CH3"} : q[y] = r[y]
    BY <1>3, RegisterNames, SMT DEF THS, Differs
  <2> QED BY <1>3, <2>1, <2>2, SMT DEF Holds, THS, Differs
<1> HIDE DEF q
<1> QED BY <1>2, <1>4, Zenon

LEMMA CoefficientOn ==
  ASSUME NEW ch \in Dsp, NEW b, NEW mono \in {0, 1}, b.mono = mono, NEW dsp \in SUBSET Dsp, NEW all, all = dsp \cup {ch},
         NEW r, Holds(r, b, 1, dsp)
  PROVE  \E q : Sets(Mixes(ch, mono), r, q) /\ Holds(q, b, 1, all)
BY CoefficientSet

\* Stereo or mono: four coefficients on the second page, and back to the first.
LEMMA Mixed ==
  ASSUME NEW a, Wish(a), NEW mono \in {0, 1}
  PROVE  Achieves(pcm_set_stereo_mode(mono), a, [a EXCEPT !.mono = mono])
<1> SUFFICES ASSUME NEW b, Renews(b, a, "mono", mono) PROVE Achieves(pcm_set_stereo_mode(mono), a, b)
  BY Renewed, Zenon DEF Settings
<1>1. Wish(b) /\ b.mono = mono
  BY SMT DEF Wish, Settings, Renews
<1>2. ASSUME NEW r, HoldsAll(r, a) PROVE \E q : Sets(pcm_set_stereo_mode(mono), r, q) /\ HoldsAll(q, b)
  <2>1. Holds(r, b, 0, {})
    BY <1>1, <1>2, SMT DEF HoldsAll, Holds, Settings, Renews
  <2>2. \A ch \in {"DSP_0", "DSP_1", "DSP_6", "DSP_7"} : ch \in Dsp
    BY DEF Dsp
  <2>3. PICK q1 : Sets(Wr("PAGESEL", 1), r, q1) /\ Holds(q1, b, 1, {})
    <3>1. {} \in SUBSET Dsp /\ 1 \in {0, 1}
      OBVIOUS
    <3> QED BY <2>1, <3>1, PageTurned, Zenon
  <2>4. PICK q2 : Sets(Mixes("DSP_0", mono), q1, q2) /\ Holds(q2, b, 1, {"DSP_0"})
    <3>1. {} \in SUBSET Dsp /\ {"DSP_0"} = {} \cup {"DSP_0"}
      OBVIOUS
    <3> QED BY <1>1, <2>2, <2>3, <3>1, CoefficientOn, Zenon
  <2>5. PICK q3 : Sets(Mixes("DSP_1", mono), q2, q3) /\ Holds(q3, b, 1, {"DSP_0", "DSP_1"})
    <3>1. {"DSP_0"} \in SUBSET Dsp /\ {"DSP_0", "DSP_1"} = {"DSP_0"} \cup {"DSP_1"}
      BY DEF Dsp
    <3> QED BY <1>1, <2>2, <2>4, <3>1, CoefficientOn, Zenon
  <2>6. PICK q4 : Sets(Mixes("DSP_6", mono), q3, q4) /\ Holds(q4, b, 1, {"DSP_0", "DSP_1", "DSP_6"})
    <3>1. {"DSP_0", "DSP_1"} \in SUBSET Dsp /\ {"DSP_0", "DSP_1", "DSP_6"} = {"DSP_0", "DSP_1"} \cup {"DSP_6"}
      BY DEF Dsp
    <3> QED BY <1>1, <2>2, <2>5, <3>1, CoefficientOn, Zenon
  <2>7. PICK q5 : Sets(Mixes("DSP_7", mono), q4, q5) /\ Holds(q5, b, 1, Dsp)
    <3>1. {"DSP_0", "DSP_1", "DSP_6"} \in SUBSET Dsp /\ Dsp = {"DSP_0", "DSP_1", "DSP_6"} \cup {"DSP_7"}
      BY DEF Dsp
    <3> QED BY <1>1, <2>2, <2>6, <3>1, CoefficientOn, Zenon
  <2>8. PICK q6 : Sets(Wr("PAGESEL", 0), q5, q6) /\ Holds(q6, b, 0, Dsp)
    <3>1. Dsp \in SUBSET Dsp /\ 0 \in {0, 1}
      OBVIOUS
    <3> QED BY <2>7, <3>1, PageTurned, Zenon
  <2> DEFINE p == Wr("PAGESEL", 1) \o Mixes("DSP_0", mono) \o Mixes("DSP_1", mono) \o Mixes("DSP_6", mono)
                    \o Mixes("DSP_7", mono) \o Wr("PAGESEL", 0)
  <2>9. Sets(p, r, q6)
    <3>1. Sets(Wr("PAGESEL", 1) \o Mixes("DSP_0", mono), r, q2)
      BY <2>3, <2>4, SetsOn, Zenon
    <3>2. Sets(Wr("PAGESEL", 1) \o Mixes("DSP_0", mono) \o Mixes("DSP_1", mono), r, q3)
      BY <2>5, <3>1, SetsOn, Zenon
    <3>3. Sets(Wr("PAGESEL", 1) \o Mixes("DSP_0", mono) \o Mixes("DSP_1", mono) \o Mixes("DSP_6", mono), r, q4)
      BY <2>6, <3>2, SetsOn, Zenon
    <3>4. Sets(Wr("PAGESEL", 1) \o Mixes("DSP_0", mono) \o Mixes("DSP_1", mono) \o Mixes("DSP_6", mono)
                 \o Mixes("DSP_7", mono), r, q5)
      BY <2>7, <3>3, SetsOn, Zenon
    <3> QED BY <2>8, <3>4, SetsOn, Zenon
  <2>10. pcm_set_stereo_mode(mono) = p
    BY Zenon DEF pcm_set_stereo_mode, Mixes
  <2>11. HoldsAll(q6, b)
    BY <2>8, Zenon DEF HoldsAll
  <2> HIDE DEF p
  <2> QED BY <2>9, <2>10, <2>11, Zenon
<1> QED BY <1>2, Zenon DEF Achieves
--------------------------------------------------------------------------------
(* The initialisation *)

AtReset(id) ==
  [r \in Registers |-> IF r = "SOGTHOLD" THEN 93 ELSE IF r = "HPLLPHASE" THEN 128 ELSE IF r = "ID" THEN id ELSE 0]
WithPower(on) == [sync_lpf |-> 0, clp_lpf |-> 0, lpf |-> 0, phase |-> 16, thold |-> 11, fmt |-> "YPbPr", ths |-> 0,
              rate |-> 0, pc |-> FALSE, power |-> on, ths_lpf |-> 3, mono |-> 0, gain |-> 0]
FirstWish == WithPower(FALSE)

\* The first registers to be written: from then on the setters find what they expect.
LEMMA FirstWrites ==
  ASSUME NEW id
  PROVE
  \E q : /\ Sets(ths_init, AtReset(id), q)
         /\ \E u : /\ Sets(tvp_sel_clk(FALSE, FALSE) \o Wr("MISCCTRL4", 9), q, u)
                   /\ HoldsAll(u, WithPower(Neither))
<1> DEFINE q1 == [AtReset(id) EXCEPT !["CH1"] = 24 % 256]
           q2 == [q1 EXCEPT !["CH2"] = 24 % 256]
           q3 == [q2 EXCEPT !["CH3"] = 24 % 256]
           x == Kept(q3["INPMUX2"], {0, 2, 4, 5, 6, 7}) + (10 % 256)
           q4 == [q3 EXCEPT !["INPMUX2"] = x]
           q5 == [q4 EXCEPT !["MISCCTRL4"] = 9 % 256]
<1>1. \A g \in {"CH1", "CH2", "CH3", "INPMUX2", "MISCCTRL4"} : g \in Registers /\ \A q : ReachedIn(q, g)
  BY RegisterNames, OffPages, SMT DEF THS
<1>2. Sets(Wr("CH1", 24), AtReset(id), q1)
  BY <1>1, WrSets, SMT
<1>3. Sets(Wr("CH2", 24), q1, q2)
  <2> HIDE DEF q1
  <2> QED BY <1>1, WrSets, SMT
<1>4. Sets(Wr("CH3", 24), q2, q3)
  <2> HIDE DEF q2
  <2> QED BY <1>1, WrSets, SMT
<1>5. Sets(Rd("CH1"), q3, q3)
  <2> HIDE DEF q3
  <2> QED BY <1>1, RdSets, Zenon
<1>6. Sets(ths_init, AtReset(id), q3)
  <2> HIDE DEF q1, q2, q3
  <2>1. Sets(Wr("CH1", 24) \o Wr("CH2", 24), AtReset(id), q2)
    BY <1>2, <1>3, SetsOn, Zenon
  <2>2. Sets(Wr("CH1", 24) \o Wr("CH2", 24) \o Wr("CH3", 24), AtReset(id), q3)
    BY <1>4, <2>1, SetsOn, Zenon
  <2>3. Sets(Wr("CH1", 24) \o Wr("CH2", 24) \o Wr("CH3", 24) \o Rd("CH1"), AtReset(id), q3)
    BY <1>5, <2>2, SetsOn, Zenon
  <2> QED BY <2>3, Zenon DEF ths_init
<1>7. Sets(tvp_sel_clk(FALSE, FALSE), q3, q4)
  <2>1. tvp_sel_clk(FALSE, FALSE) = Change("INPMUX2", {0, 2, 4, 5, 6, 7}, 10)
    BY DEF tvp_sel_clk
  <2>2. {0, 2, 4, 5, 6, 7} \in SUBSET Int /\ 10 \in Int
    BY SMT
  <2>3. Sets(Change("INPMUX2", {0, 2, 4, 5, 6, 7}, 10), q3, q4)
    <3> HIDE DEF q3
    <3> QED BY <1>1, <2>2, ChangeSets, SMT
  <2> HIDE DEF q3, q4
  <2> QED BY <2>1, <2>3, Zenon
<1>8. Sets(Wr("MISCCTRL4", 9), q4, q5)
  <2> HIDE DEF q4
  <2> QED BY <1>1, WrSets, SMT
<1>9. Sets(tvp_sel_clk(FALSE, FALSE) \o Wr("MISCCTRL4", 9), q3, q5)
  <2> HIDE DEF q3, q4, q5
  <2> QED BY <1>7, <1>8, SetsOn, Zenon
<1> DEFINE Others == Registers \ {"CH1", "CH2", "CH3", "INPMUX2", "MISCCTRL4", "SOGTHOLD", "HPLLPHASE", "ID"}
<1>10. /\ DOMAIN q3 = Registers /\ q3["CH1"] = 24 /\ q3["CH2"] = 24 /\ q3["CH3"] = 24 /\ q3["INPMUX2"] = 0
       /\ q3["SOGTHOLD"] = 93 /\ q3["HPLLPHASE"] = 128
       /\ \A y \in Others : q3[y] = 0
  <2>1. /\ DOMAIN AtReset(id) = Registers /\ AtReset(id)["SOGTHOLD"] = 93 /\ AtReset(id)["HPLLPHASE"] = 128
       /\ AtReset(id)["INPMUX2"] = 0
        /\ \A y \in Others : AtReset(id)[y] = 0
    BY <1>1, RegisterNames, SMT DEF AtReset
  <2>2. Differs(q1, AtReset(id), "CH1", 24)
    BY <1>1, <2>1, SMT DEF Differs
  <2>3. Differs(q2, q1, "CH2", 24)
    <3> HIDE DEF q1
    <3> QED BY <1>1, <2>2, SMT DEF Differs
  <2>4. Differs(q3, q2, "CH3", 24)
    <3> HIDE DEF q2
    <3> QED BY <1>1, <2>3, SMT DEF Differs
  <2> HIDE DEF q1, q2, q3
  <2> QED BY <1>1, <2>1, <2>2, <2>3, <2>4, RegisterNames, SMT DEF Differs
<1>13. x = 10
  <2>1. Kept(0, {0, 2, 4, 5, 6, 7}) = 0
    <3>1. 0 \in Byte /\ 0 - (0 % 16) + (0 % 8) - (0 % 4) + (0 % 2) = 0
      BY SMT DEF Byte
    <3> QED BY <3>1, MasksKeep, Zenon
  <2> HIDE DEF q3
  <2> QED BY <1>10, <2>1, SMT
<1>11. /\ DOMAIN q5 = Registers /\ q5["CH1"] = 24 /\ q5["CH2"] = 24 /\ q5["CH3"] = 24 /\ q5["INPMUX2"] = 10
       /\ q5["MISCCTRL4"] = 9 /\ q5["SOGTHOLD"] = 93 /\ q5["HPLLPHASE"] = 128
       /\ \A y \in Others : q5[y] = 0
  <2>1. Differs(q4, q3, "INPMUX2", 10)
    <3> HIDE DEF x, q3
    <3> QED BY <1>1, <1>10, <1>13, SMT DEF Differs
  <2>2. Differs(q5, q4, "MISCCTRL4", 9)
    <3> HIDE DEF q4
    <3> QED BY <1>1, <2>1, SMT DEF Differs
  <2> HIDE DEF q3, q4, q5
  <2> QED BY <1>1, <1>10, <2>1, <2>2, RegisterNames, SMT DEF Differs
<1>12. HoldsAll(q5, WithPower(Neither))
  <2> DEFINE b == WithPower(Neither)
  <2>1. /\ DOMAIN b = Settings /\ b.sync_lpf = 0 /\ b.clp_lpf = 0 /\ b.lpf = 0 /\ b.phase = 16 /\ b.thold = 11
        /\ b.fmt = "YPbPr" /\ b.ths = 0 /\ b.rate = 0 /\ b.pc = FALSE /\ b.power = Neither /\ b.ths_lpf = 3
        /\ b.mono = 0 /\ b.gain = 0
    BY SMT DEF WithPower, Settings
  <2> HIDE DEF b
  <2>2. Wish(b)
    BY <2>1, SMT DEF Wish, Rates
  <2> HIDE DEF q5
  <2>3. \A y \in {"VIDEOBWLIM", "HPLLDIV", "MISCCTRL1", "ALCEN", "PAGESEL", "PGA1"} \cup Dsp : q5[y] = 0
    BY <1>11, RegisterNames, SMT DEF Dsp
  <2>4. b.power # TRUE /\ b.power # FALSE
    BY <2>1, NeitherWish, Zenon
  <2>5. (b.power = TRUE => q5["MISCCTRL1"] = 17) /\ (b.power = FALSE => q5["MISCCTRL1"] = 19)
    BY <2>4, Zenon
  <2> HIDE DEF Others
  <2> QED BY <1>11, <2>1, <2>2, <2>3, <2>5, SMT DEF HoldsAll, Holds, THS, Dsp, Times
<1> HIDE DEF q3, q5
<1> QED BY <1>6, <1>9, <1>12, Zenon

\* It is the fields that count.
LEMMA SameWish ==
  ASSUME NEW r, NEW a, NEW b, HoldsAll(r, a), DOMAIN b = Settings, \A f \in Settings : b[f] = a[f]
  PROVE  HoldsAll(r, b)
<1>1. Wish(b)
  BY SMT DEF HoldsAll, Holds, Wish, Settings
<1> QED BY <1>1, SMT DEF HoldsAll, Holds, Settings

\* The initialisation leaves the registers as the first wish has them.
LEMMA Initialised ==
  ASSUME NEW id
  PROVE  \E q : Sets(ths_init \o tvp_init \o pcm1862_init(id), AtReset(id), q) /\ HoldsAll(q, FirstWish)
<1> DEFINE b == WithPower(Neither)
           c == [b EXCEPT !.sync_lpf = 0]
           d == [c EXCEPT !.power = FALSE]
           one == tvp_sel_clk(FALSE, FALSE) \o Wr("MISCCTRL4", 9)
<1>1. /\ DOMAIN b = Settings /\ DOMAIN FirstWish = Settings /\ b.pc = FALSE
      /\ b.sync_lpf = 0 /\ FirstWish.power = FALSE /\ \A f \in Settings \ {"power"} : FirstWish[f] = b[f]
  <2>1. DOMAIN b = Settings /\ DOMAIN FirstWish = Settings
    BY DEF FirstWish, WithPower, Settings
  <2>2. b.pc = FALSE /\ b.sync_lpf = 0 /\ FirstWish.power = FALSE
    BY DEF FirstWish, WithPower
  <2>3. /\ FirstWish.sync_lpf = b.sync_lpf /\ FirstWish.clp_lpf = b.clp_lpf /\ FirstWish.lpf = b.lpf
       /\ FirstWish.phase = b.phase
        /\ FirstWish.thold = b.thold /\ FirstWish.fmt = b.fmt /\ FirstWish.ths = b.ths /\ FirstWish.rate = b.rate
        /\ FirstWish.pc = b.pc /\ FirstWish.ths_lpf = b.ths_lpf /\ FirstWish.mono = b.mono /\ FirstWish.gain = b.gain
    BY DEF FirstWish, WithPower
  <2> HIDE DEF b
  <2> QED BY <2>1, <2>2, <2>3, SMT DEF Settings
<1> HIDE DEF b
<1>2. PICK q, u : Sets(ths_init, AtReset(id), q) /\ Sets(one, q, u) /\ HoldsAll(u, b)
  BY FirstWrites DEF b
<1>3. Wish(b)
  BY <1>2, Zenon DEF HoldsAll, Holds
<1>16. Renews(c, b, "sync_lpf", 0)
  BY <1>3, Renewed, Zenon DEF Settings
<1>17. Wish(c) /\ c.pc \in BOOLEAN
  <2> HIDE DEF c
  <2>1. Wish(c)
    BY <1>3, <1>16, SMT DEF Wish, Settings, Renews
  <2>2. "pc" \in Settings /\ "pc" # "sync_lpf"
    BY DEF Settings
  <2>3. c.pc = FALSE
    BY <1>1, <1>16, <2>2, Zenon DEF Renews
  <2> QED BY <2>1, <2>3, Zenon
<1>18. Renews(d, c, "power", FALSE)
  <2> HIDE DEF c
  <2> QED BY <1>17, Renewed, Zenon DEF Settings
<1>19. \A f \in Settings : FirstWish[f] = d[f]
  <2> HIDE DEF c, d
  <2> SUFFICES ASSUME NEW f \in Settings PROVE FirstWish[f] = d[f]
    OBVIOUS
  <2>1. CASE f = "power"
    BY <1>1, <1>18, <2>1, Zenon DEF Renews
  <2>2. CASE f = "sync_lpf"
    <3>1. d[f] = c[f] /\ c[f] = 0 /\ f \in Settings \ {"power"}
      BY <1>16, <1>18, <2>2, SMT DEF Renews
    <3> QED BY <1>1, <2>2, <3>1, Zenon
  <2>3. CASE f # "power" /\ f # "sync_lpf"
    <3>1. d[f] = c[f] /\ c[f] = b[f] /\ f \in Settings \ {"power"}
      BY <1>16, <1>18, <2>3, SMT DEF Renews
    <3> QED BY <1>1, <3>1, Zenon
  <2> QED BY <2>1, <2>2, <2>3
<1> HIDE DEF one
<1>4. Achieves(tvp_sel_csc(0), b, b)
  BY FreeRegister, SMT DEF tvp_sel_csc
<1>5. Achieves(tvp_set_sync_lpf(0), b, c)
  <2>1. 0 \in 0 .. 3
    BY SMT
  <2> QED BY <1>3, <2>1, SyncFilter, Zenon
<1>6. Achieves(tvp_set_hpllcoast(1), c, c)
  <2> HIDE DEF c
  <2> QED BY FreeRegister, SMT DEF tvp_set_hpllcoast
<1>7. Achieves(tvp_powerdown, c, d)
  <2> HIDE DEF c
  <2> QED BY <1>17, Asleep, Zenon
<1> HIDE DEF c, d
<1>8. PICK w1 : Sets(tvp_sel_csc(0), u, w1) /\ HoldsAll(w1, b)
  BY <1>2, <1>4, Zenon DEF Achieves
<1>9. PICK w2 : Sets(tvp_set_sync_lpf(0), w1, w2) /\ HoldsAll(w2, c)
  BY <1>5, <1>8, Zenon DEF Achieves
<1>10. PICK w3 : Sets(tvp_set_hpllcoast(1), w2, w3) /\ HoldsAll(w3, c)
  BY <1>6, <1>9, Zenon DEF Achieves
<1>11. PICK w4 : Sets(tvp_powerdown, w3, w4) /\ HoldsAll(w4, FirstWish)
  <2>1. PICK z : Sets(tvp_powerdown, w3, z) /\ HoldsAll(z, d)
    BY <1>7, <1>10, Zenon DEF Achieves
  <2>2. HoldsAll(z, FirstWish)
    BY <1>1, <1>19, <2>1, SameWish, Zenon
  <2> QED BY <2>1, <2>2, Zenon
<1>12. Sets(tvp_init, q, w4)
  <2>1. Sets(one \o tvp_sel_csc(0), q, w1)
    BY <1>2, <1>8, SetsOn, Zenon
  <2>2. Sets(one \o tvp_sel_csc(0) \o tvp_set_sync_lpf(0), q, w2)
    BY <1>9, <2>1, SetsOn, Zenon
  <2>3. Sets(one \o tvp_sel_csc(0) \o tvp_set_sync_lpf(0) \o tvp_set_hpllcoast(1), q, w3)
    BY <1>10, <2>2, SetsOn, Zenon
  <2>4. Sets(one \o tvp_sel_csc(0) \o tvp_set_sync_lpf(0) \o tvp_set_hpllcoast(1) \o tvp_powerdown, q, w4)
    BY <1>11, <2>3, SetsOn, Zenon
  <2> QED BY <2>4, Zenon DEF tvp_init, one
<1>13. Achieves(pcm1862_init(id), FirstWish, FirstWish)
  <2>1. Achieves(Rd("ID"), FirstWish, FirstWish)
    BY RegisterNames, RdAchieves, SMT
  <2>2. Achieves(Wr("POWER", 117), FirstWish, FirstWish) /\ Achieves(Wr("POWER", 112), FirstWish, FirstWish)
    BY FreeRegister, SMT
  <2> DEFINE rest == IF id = 134 THEN Wr("POWER", 117) \o Wr("POWER", 112) ELSE <<>>
  <2>3. Achieves(rest, FirstWish, FirstWish)
    <3>1. Achieves(Wr("POWER", 117) \o Wr("POWER", 112), FirstWish, FirstWish)
      BY <2>2, AchievesOn, Zenon
    <3>2. Achieves(<<>>, FirstWish, FirstWish)
      BY SetsNothing, Zenon DEF Achieves
    <3> QED BY <3>1, <3>2, Zenon
  <2> HIDE DEF rest
  <2>4. Achieves(Rd("ID") \o rest, FirstWish, FirstWish)
    BY <2>1, <2>3, AchievesOn, Zenon
  <2> QED BY <2>4, Zenon DEF pcm1862_init, rest
<1>14. PICK w5 : Sets(pcm1862_init(id), w4, w5) /\ HoldsAll(w5, FirstWish)
  BY <1>11, <1>13, Zenon DEF Achieves
<1>15. Sets(ths_init \o tvp_init, AtReset(id), w4)
  BY <1>2, <1>12, SetsOn, Zenon
<1>20. Sets(ths_init \o tvp_init \o pcm1862_init(id), AtReset(id), w5)
  BY <1>14, <1>15, SetsOn, Zenon
<1> QED BY <1>14, <1>20, Zenon

(* The bus *)

\* A byte moves to or from the chip that was addressed, in the register it was told.
BusOk(b, u, p, pointers) ==
  /\ p \in Seq(Access) /\ b \in 0 .. 3 /\ DOMAIN pointers = {"tvp", "ths", "pcm"}
  /\ p = <<>> => b = 0
  /\ b = 0 => u = "free"
  /\ b = 1 => u = Chip(Head(p).reg)
  /\ b = 2 => pointers[Chip(Head(p).reg)] = Head(p).reg /\ (Head(p).rw = "write" => u = Chip(Head(p).reg))
  /\ b = 3 => pointers[Chip(Head(p).reg)] = Head(p).reg /\ Head(p).rw # "write" /\ u = Chip(Head(p).reg)

\* What is left of a call leads to registers that hold what is asked for, whatever a poll has read so far.
Route(p, r, s, a, x, q, t) ==
  /\ x = s \/ (p # <<>> /\ Head(p).rw = "poll")
  /\ Leads(p, [r |-> r, s |-> x], [r |-> q, s |-> t])
  /\ HoldsAll(q, a)
OnTheWay(p, r, s, a) == \E x, q, t : Route(p, r, s, a, x, q, t)
Wanted(a) == Wish(a) /\ a.pc \in BOOLEAN /\ a.power \in BOOLEAN

Undisturbed ==
  BusOk(byte, bus, prog, ptr) /\ Wanted(asked) /\ OnTheWay(prog, regs, status, asked)
FeInv == hit \in BOOLEAN /\ (~ hit => Undisturbed)

LEMMA ChipOf == \A reg : Chip(reg) \in {"tvp", "ths", "pcm"} /\ Chip(reg) # "free"
BY DEF Chip

\* The invariant holds at the start,
LEMMA FeInitially == FeInit => FeInv
<1> SUFFICES ASSUME FeInit PROVE FeInv
  OBVIOUS
<1>0. PICK id \in {0, 134} : regs = AtReset(id) /\ prog = ths_init \o tvp_init \o pcm1862_init(id)
  BY DEF FeInit, AtReset, Registers
<1>1. PICK q : Sets(ths_init \o tvp_init \o pcm1862_init(id), AtReset(id), q) /\ HoldsAll(q, FirstWish)
  BY Initialised, Zenon
<1>2. regs = AtReset(id) /\ asked = FirstWish /\ prog = ths_init \o tvp_init \o pcm1862_init(id)
  BY <1>0 DEF FeInit, FirstWish, WithPower
<1>3. prog \in Seq(Access) /\ \E t : Leads(prog, [r |-> regs, s |-> status], [r |-> q, s |-> t])
  BY <1>1, <1>2, Zenon DEF Sets
<1>4. OnTheWay(prog, regs, status, asked)
  BY <1>1, <1>2, <1>3, Zenon DEF OnTheWay, Route
<1>5. Wanted(asked)
  <2>1. Wish(asked)
    BY <1>1, <1>2, Zenon DEF HoldsAll, Holds
  <2>2. asked.pc = FALSE /\ asked.power = FALSE
    BY <1>2 DEF FirstWish, WithPower
  <2> QED BY <2>1, <2>2, Zenon DEF Wanted
<1>6. byte = 0 /\ bus = "free" /\ hit = FALSE /\ DOMAIN ptr = {"tvp", "ths", "pcm"}
  BY DEF FeInit
<1>7. BusOk(byte, bus, prog, ptr)
  BY <1>3, <1>6, SMT DEF BusOk
<1> QED BY <1>4, <1>5, <1>6, <1>7, Zenon DEF FeInv, Undisturbed

\* A call whose program achieves what it asks for.
LEMMA CallKeeps ==
  ASSUME NEW code, NEW wish, FeInv, Call(code, wish), ~ hit, Achieves(code, asked, wish),
         wish.pc \in BOOLEAN, wish.power \in BOOLEAN
  PROVE  Undisturbed'
<1>1. /\ prog = <<>> /\ prog' = code /\ asked' = wish
      /\ regs' = regs /\ ptr' = ptr /\ bus' = bus /\ byte' = byte /\ status' = status
  BY DEF Call
<1>2. PICK x, q, t : Route(<<>>, regs, status, asked, x, q, t)
  BY <1>1, Zenon DEF FeInv, Undisturbed, OnTheWay
<1>3. HoldsAll(regs, asked)
  <2>1. Leads(<<>>, [r |-> regs, s |-> x], [r |-> q, s |-> t])
    BY <1>2, Zenon DEF Route
  <2>2. [r |-> regs, s |-> x] = [r |-> q, s |-> t]
    BY <2>1, LeadsBack, Zenon
  <2>3. regs = q
    BY <2>2
  <2> QED BY <1>2, <2>3, Zenon DEF Route
<1>4. PICK u : Sets(code, regs, u) /\ HoldsAll(u, wish)
  BY <1>3, Zenon DEF Achieves
<1>5. PICK z : Leads(code, [r |-> regs, s |-> status], [r |-> u, s |-> z])
  BY <1>4, Zenon DEF Sets
<1>6. OnTheWay(code, regs, status, wish)
  BY <1>4, <1>5, Zenon DEF OnTheWay, Route
<1>7. Wanted(wish)
  BY <1>4, Zenon DEF Wanted, HoldsAll, Holds
<1>8. BusOk(byte, bus, code, ptr)
  <2>1. code \in Seq(Access)
    BY <1>4, Zenon DEF Sets
  <2>2. byte = 0 /\ bus = "free" /\ DOMAIN ptr = {"tvp", "ths", "pcm"}
    BY <1>1, Zenon DEF FeInv, Undisturbed, BusOk
  <2> QED BY <2>1, <2>2, SMT DEF BusOk
<1> QED BY <1>1, <1>6, <1>7, <1>8, Zenon DEF Undisturbed

\* The settings that are neither polarity nor power.
LEMMA FlagsKept ==
  ASSUME NEW a, Wanted(a), NEW f \in Settings \ {"pc", "power"}, NEW v
  PROVE  [a EXCEPT ![f] = v].pc \in BOOLEAN /\ [a EXCEPT ![f] = v].power \in BOOLEAN
<1>1. Renews([a EXCEPT ![f] = v], a, f, v)
  BY Renewed, Zenon DEF Wanted
<1>2. "pc" \in Settings /\ "power" \in Settings /\ f # "pc" /\ f # "power"
  BY DEF Settings
<1>3. [a EXCEPT ![f] = v]["pc"] = a["pc"] /\ [a EXCEPT ![f] = v]["power"] = a["power"]
  BY <1>1, <1>2, Zenon DEF Renews
<1> QED BY <1>3 DEF Wanted

\* Each call keeps the invariant.
LEMMA FiltersKeep == ASSUME FeInv, ~ hit, SetFilters PROVE Undisturbed'
<1>1. Wish(asked) /\ Wanted(asked)
  BY Zenon DEF FeInv, Undisturbed, Wanted
<1>2. PICK v \in Values.two :
        \/ Call(tvp_set_sync_lpf(v), [asked EXCEPT !.sync_lpf = v])
        \/ Call(tvp_set_clp_lpf(v), [asked EXCEPT !.clp_lpf = v])
        \/ Call(tvp_set_lpf(5 * v), [asked EXCEPT !.lpf = 5 * v])
        \/ Call(ths_set_lpf(v), [asked EXCEPT !.ths_lpf = v])
  BY Zenon DEF SetFilters
<1>3. v \in 0 .. 3 /\ 5 * v \in 0 .. 15
  BY SettingAssumption, SMT
<1>4. /\ "sync_lpf" \in Settings \ {"pc", "power"} /\ "clp_lpf" \in Settings \ {"pc", "power"}
      /\ "lpf" \in Settings \ {"pc", "power"} /\ "ths_lpf" \in Settings \ {"pc", "power"}
  BY DEF Settings
<1>5. CASE Call(tvp_set_sync_lpf(v), [asked EXCEPT !.sync_lpf = v])
  BY <1>1, <1>3, <1>4, <1>5, FlagsKept, SyncFilter, CallKeeps, Zenon
<1>6. CASE Call(tvp_set_clp_lpf(v), [asked EXCEPT !.clp_lpf = v])
  BY <1>1, <1>3, <1>4, <1>6, FlagsKept, ClampFilter, CallKeeps, Zenon
<1>7. CASE Call(tvp_set_lpf(5 * v), [asked EXCEPT !.lpf = 5 * v])
  BY <1>1, <1>3, <1>4, <1>7, FlagsKept, VideoFilter, CallKeeps, Zenon
<1>8. CASE Call(ths_set_lpf(v), [asked EXCEPT !.ths_lpf = v])
  BY <1>1, <1>3, <1>4, <1>8, FlagsKept, ThsFilter, CallKeeps, Zenon
<1> QED BY <1>2, <1>5, <1>6, <1>7, <1>8, Zenon

LEMMA LevelsKeep == ASSUME FeInv, ~ hit, SetLevels PROVE Undisturbed'
<1>1. Wish(asked) /\ Wanted(asked)
  BY Zenon DEF FeInv, Undisturbed, Wanted
<1>2. PICK v \in Values.five :
        \/ Call(tvp_set_hpll_phase(v), [asked EXCEPT !.phase = v])
        \/ Call(tvp_set_sog_thold(v), [asked EXCEPT !.thold = v])
  BY Zenon DEF SetLevels
<1>3. v \in 0 .. 31
  BY SettingAssumption, SMT
<1>4. "phase" \in Settings \ {"pc", "power"} /\ "thold" \in Settings \ {"pc", "power"}
  BY DEF Settings
<1>5. CASE Call(tvp_set_hpll_phase(v), [asked EXCEPT !.phase = v])
  BY <1>1, <1>3, <1>4, <1>5, FlagsKept, SamplerPhase, CallKeeps, Zenon
<1>6. CASE Call(tvp_set_sog_thold(v), [asked EXCEPT !.thold = v])
  BY <1>1, <1>3, <1>4, <1>6, FlagsKept, SyncThreshold, CallKeeps, Zenon
<1> QED BY <1>2, <1>5, <1>6, Zenon

LEMMA SelectKeeps == ASSUME FeInv, ~ hit, SelectSource PROVE Undisturbed'
<1>1. Wish(asked) /\ asked.pc \in BOOLEAN
  BY Zenon DEF FeInv, Undisturbed, Wanted
<1>2. PICK s \in Sources :
        Call(Selecting(s), [asked EXCEPT !.ths = ThsSource(s.ths), !.fmt = s.fmt, !.power = FALSE])
  BY Zenon DEF SelectSource, Selecting
<1> DEFINE w == [asked EXCEPT !.ths = ThsSource(s.ths), !.fmt = s.fmt, !.power = FALSE]
<1>3. w.pc = asked.pc /\ w.power = FALSE
  <2>1. DOMAIN asked = Settings /\ "pc" \in Settings /\ "power" \in Settings
    BY <1>1 DEF Wish, Settings
  <2> DEFINE x == ThsSource(s.ths)
             y == s.fmt
  <2>2. [asked EXCEPT !.ths = x, !.fmt = y, !.power = FALSE].pc = asked.pc
        /\ [asked EXCEPT !.ths = x, !.fmt = y, !.power = FALSE].power = FALSE
    <3> HIDE DEF x, y
    <3> QED BY <2>1
  <2> QED BY <2>2
<1>4. Achieves(Selecting(s), asked, w)
  BY <1>1, SourceSelected, Zenon
<1>5. w.pc \in BOOLEAN /\ w.power \in BOOLEAN
  <2> HIDE DEF w
  <2> QED BY <1>1, <1>3
<1>6. Call(Selecting(s), w)
  BY <1>2
<1> HIDE DEF w
<1> QED BY <1>4, <1>5, <1>6, CallKeeps, Zenon

LEMMA ProgramKeeps == ASSUME FeInv, ~ hit, ProgramMode PROVE Undisturbed'
<1>1. Wish(asked) /\ asked.pc \in BOOLEAN /\ asked.power \in BOOLEAN
  BY Zenon DEF FeInv, Undisturbed, Wanted
<1>2. PICK m \in Modes : Call(tvp_source_setup(m), [asked EXCEPT !.rate = m.rate, !.pc = m.type = "PC"])
  BY Zenon DEF ProgramMode
<1> DEFINE w == [asked EXCEPT !.rate = m.rate, !.pc = m.type = "PC"]
<1>3. w.pc = (m.type = "PC") /\ w.power = asked.power
  <2>1. DOMAIN asked = Settings /\ "pc" \in Settings /\ "power" \in Settings
    BY <1>1 DEF Wish, Settings
  <2> DEFINE x == m.rate
             y == m.type = "PC"
  <2>2. [asked EXCEPT !.rate = x, !.pc = y].pc = y /\ [asked EXCEPT !.rate = x, !.pc = y].power = asked.power
    <3> HIDE DEF x, y
    <3> QED BY <2>1
  <2> QED BY <2>2
<1>4. Achieves(tvp_source_setup(m), asked, w)
  BY <1>1, SourceSetUp, Zenon
<1>5. w.pc \in BOOLEAN /\ w.power \in BOOLEAN
  <2> HIDE DEF w
  <2> QED BY <1>1, <1>3
<1>6. Call(tvp_source_setup(m), w)
  BY <1>2
<1> HIDE DEF w
<1> QED BY <1>4, <1>5, <1>6, CallKeeps, Zenon

LEMMA PowerKeeps == ASSUME FeInv, ~ hit, PowerUp \/ PowerDown PROVE Undisturbed'
<1>1. Wish(asked) /\ asked.pc \in BOOLEAN /\ asked.power \in BOOLEAN
  BY Zenon DEF FeInv, Undisturbed, Wanted
<1>2. ASSUME NEW v \in BOOLEAN PROVE [asked EXCEPT !.power = v].pc \in BOOLEAN /\ [asked EXCEPT !.power = v].power \in BOOLEAN
  <2>1. Renews([asked EXCEPT !.power = v], asked, "power", v)
    BY <1>1, Renewed, Zenon DEF Settings
  <2>2. "pc" \in Settings /\ "pc" # "power"
    BY DEF Settings
  <2>3. [asked EXCEPT !.power = v]["pc"] = asked["pc"] /\ [asked EXCEPT !.power = v]["power"] = v
    BY <2>1, <2>2, Zenon DEF Renews
  <2> QED BY <1>1, <2>3
<1>3. CASE PowerUp
  BY <1>1, <1>2, <1>3, Woken, CallKeeps, Zenon DEF PowerUp
<1>4. CASE PowerDown
  BY <1>1, <1>2, <1>4, Asleep, CallKeeps, Zenon DEF PowerDown
<1> QED BY <1>3, <1>4

LEMMA AudioKeeps == ASSUME FeInv, ~ hit, SetAudio PROVE Undisturbed'
<1>1. Wish(asked) /\ Wanted(asked)
  BY Zenon DEF FeInv, Undisturbed, Wanted
<1>2. "mono" \in Settings \ {"pc", "power"} /\ "gain" \in Settings \ {"pc", "power"}
  BY DEF Settings
<1>3. CASE \E v \in {0, 1} : Call(pcm_set_stereo_mode(v), [asked EXCEPT !.mono = v])
  BY <1>1, <1>2, <1>3, FlagsKept, Mixed, CallKeeps, Zenon
<1>4. CASE \E v \in {0, 10} : Call(pcm_set_gain(v), [asked EXCEPT !.gain = v])
  BY <1>1, <1>2, <1>4, FlagsKept, Gain, CallKeeps, Zenon
<1> QED BY <1>3, <1>4, Zenon DEF SetAudio

LEMMA CheckKeeps == ASSUME FeInv, ~ hit, CheckSync PROVE Undisturbed'
<1>1. asked.pc \in BOOLEAN /\ asked.power \in BOOLEAN
  BY Zenon DEF FeInv, Undisturbed, Wanted
<1>2. "SYNCSTAT" \in Registers
  BY RegisterNames, SMT
<1>3. Achieves(tvp_check_sync, asked, asked)
  BY <1>2, RdAchieves, Zenon DEF tvp_check_sync
<1> QED BY <1>1, <1>3, CallKeeps, Zenon DEF CheckSync

\* Each byte keeps it: an access is done when its last byte has been moved.
LEMMA StartKeeps == ASSUME FeInv, ~ hit, Start PROVE Undisturbed'
<1>1. BusOk(byte, bus, prog, ptr) /\ Wanted(asked) /\ OnTheWay(prog, regs, status, asked)
  BY Zenon DEF FeInv, Undisturbed
<1>2. /\ prog # <<>> /\ byte' = 1 /\ bus' = Chip(Head(prog).reg)
      /\ prog' = prog /\ ptr' = ptr /\ regs' = regs /\ status' = status /\ asked' = asked
  BY DEF Start, Step, target, access, Quiet
<1>3. BusOk(1, Chip(Head(prog).reg), prog, ptr)
  BY <1>1, <1>2, SMT DEF BusOk
<1> QED BY <1>1, <1>2, <1>3, Zenon DEF Undisturbed

LEMMA SendRegisterKeeps == ASSUME FeInv, ~ hit, SendRegister PROVE Undisturbed'
<1>1. BusOk(byte, bus, prog, ptr) /\ Wanted(asked) /\ OnTheWay(prog, regs, status, asked)
  BY Zenon DEF FeInv, Undisturbed
<1>2. /\ prog # <<>> /\ byte = 1 /\ byte' = 2
      /\ ptr' = IF bus = target THEN [ptr EXCEPT ![target] = access.reg] ELSE ptr
      /\ bus' = IF access.rw # "write" /\ target # "pcm" THEN "free" ELSE bus
      /\ prog' = prog /\ regs' = regs /\ status' = status /\ asked' = asked
  BY DEF SendRegister, Step, Quiet
<1>3. bus = target /\ target \in DOMAIN ptr /\ DOMAIN ptr = {"tvp", "ths", "pcm"} /\ prog \in Seq(Access)
  BY <1>1, <1>2, ChipOf, SMT DEF BusOk, target, access
<1>4. DOMAIN ptr' = {"tvp", "ths", "pcm"} /\ ptr'[target] = access.reg
  BY <1>2, <1>3
<1>5. access.rw = "write" => bus' = target
  BY <1>2, <1>3
<1>6. BusOk(2, bus', prog, ptr')
  BY <1>2, <1>3, <1>4, <1>5, SMT DEF BusOk, target, access
<1> QED BY <1>1, <1>2, <1>6, Zenon DEF Undisturbed

LEMMA RestartKeeps == ASSUME FeInv, ~ hit, Restart PROVE Undisturbed'
<1>1. BusOk(byte, bus, prog, ptr) /\ Wanted(asked) /\ OnTheWay(prog, regs, status, asked)
  BY Zenon DEF FeInv, Undisturbed
<1>2. /\ prog # <<>> /\ byte = 2 /\ byte' = 3 /\ bus' = Chip(Head(prog).reg) /\ Head(prog).rw # "write"
      /\ prog' = prog /\ ptr' = ptr /\ regs' = regs /\ status' = status /\ asked' = asked
  BY DEF Restart, Step, target, access, Quiet
<1>3. BusOk(3, Chip(Head(prog).reg), prog, ptr)
  BY <1>1, <1>2, SMT DEF BusOk
<1> QED BY <1>1, <1>2, <1>3, Zenon DEF Undisturbed

\* Once the first access is done, the rest leads on.
LEMMA WayOn ==
  ASSUME NEW p \in Seq(Access), p # <<>>, NEW r, NEW s, NEW a, OnTheWay(p, r, s, a), NEW u, NEW z,
         \A x : x = s \/ Head(p).rw = "poll" => Effect(Head(p), [r |-> r, s |-> x]) = [r |-> u, s |-> z]
  PROVE  OnTheWay(Tail(p), u, z, a)
<1>1. PICK x, q, t : Route(p, r, s, a, x, q, t)
  BY Zenon DEF OnTheWay
<1>2. Leads(Tail(p), Effect(Head(p), [r |-> r, s |-> x]), [r |-> q, s |-> t])
  BY <1>1, LeadsAfter, Zenon DEF Route
<1>3. Effect(Head(p), [r |-> r, s |-> x]) = [r |-> u, s |-> z]
  BY <1>1, Zenon DEF Route
<1>4. Route(Tail(p), u, z, a, z, q, t)
  BY <1>1, <1>2, <1>3, Zenon DEF Route
<1> QED BY <1>4, Zenon DEF OnTheWay

LEMMA BusFreed ==
  ASSUME NEW p \in Seq(Access), NEW pointers, DOMAIN pointers = {"tvp", "ths", "pcm"}
  PROVE  BusOk(0, "free", p, pointers)
BY SMT DEF BusOk

LEMMA SendDataKeeps == ASSUME FeInv, ~ hit, SendData PROVE Undisturbed'
<1>1. BusOk(byte, bus, prog, ptr) /\ Wanted(asked) /\ OnTheWay(prog, regs, status, asked)
  BY Zenon DEF FeInv, Undisturbed
<1>2. /\ prog # <<>> /\ byte = 2 /\ byte' = 0 /\ bus' = "free" /\ access.rw = "write"
      /\ regs' = IF bus = target /\ Reached(ptr[target])
                 THEN [regs EXCEPT ![ptr[target]] = Kept(status, access.keep) + access.put] ELSE regs
      /\ prog' = Tail(prog) /\ ptr' = ptr /\ status' = status /\ asked' = asked
  BY DEF SendData, Step, Ends, Quiet
<1>3. bus = target /\ ptr[target] = access.reg /\ prog \in Seq(Access) /\ DOMAIN ptr = {"tvp", "ths", "pcm"}
  BY <1>1, <1>2, SMT DEF BusOk, target, access
<1>4. Effect(access, [r |-> regs, s |-> status]) = [r |-> regs', s |-> status]
  <2>1. Reached(access.reg) = ReachedIn(regs, access.reg)
    BY DEF Reached, ReachedIn
  <2>2. regs' = IF ReachedIn(regs, access.reg) THEN [regs EXCEPT ![access.reg] = Kept(status, access.keep) + access.put] ELSE regs
    BY <1>2, <1>3, <2>1, Zenon
  <2> DEFINE a == access
             new == regs'
  <2>3. a.rw = "write" /\ new = IF ReachedIn(regs, a.reg) THEN [regs EXCEPT ![a.reg] = Kept(status, a.keep) + a.put] ELSE regs
    BY <1>2, <2>2
  <2> HIDE DEF a, new
  <2>4. Effect(a, [r |-> regs, s |-> status]) = [r |-> new, s |-> status]
    BY <2>3, SMT DEF Effect
  <2> QED BY <2>4 DEF a, new
<1>5. OnTheWay(Tail(prog), regs', status, asked)
  <2>1. \A x : x = status \/ Head(prog).rw = "poll" =>
          Effect(Head(prog), [r |-> regs, s |-> x]) = [r |-> regs', s |-> status]
    <3>1. Head(prog).rw # "poll"
      BY <1>2 DEF access
    <3> QED BY <1>4, <3>1, Zenon DEF access
  <2> QED BY <1>1, <1>2, <1>3, <2>1, WayOn, Zenon
<1>6. BusOk(0, "free", Tail(prog), ptr)
  <2>1. Tail(prog) \in Seq(Access)
    BY <1>2, <1>3, EmptySeq, HeadTailProperties
  <2> QED BY <1>3, <2>1, BusFreed, Zenon
<1> QED BY <1>1, <1>2, <1>5, <1>6, Zenon DEF Undisturbed

LEMMA ReceiveKeeps == ASSUME FeInv, ~ hit, Receive PROVE Undisturbed'
<1>1. BusOk(byte, bus, prog, ptr) /\ Wanted(asked) /\ OnTheWay(prog, regs, status, asked)
  BY Zenon DEF FeInv, Undisturbed
<1>2. /\ prog # <<>> /\ byte = 3 /\ byte' = 0 /\ bus' = "free"
      /\ regs' = regs /\ ptr' = ptr /\ asked' = asked
  BY DEF Receive, Step, Ends, Quiet
<1>3. bus = target /\ ptr[target] = access.reg /\ prog \in Seq(Access) /\ DOMAIN ptr = {"tvp", "ths", "pcm"}
      /\ access.rw # "write"
  BY <1>1, <1>2, SMT DEF BusOk, target, access
<1>4. \E v \in IF access.rw = "poll" THEN {0, 1} ELSE {regs[access.reg]} :
        status' = v /\ prog' = IF access.rw = "poll" /\ v # 0 THEN prog ELSE Tail(prog)
  BY <1>3 DEF Receive
<1>5. Head(prog) \in Access /\ Tail(prog) \in Seq(Access)
  BY <1>2, <1>3, EmptySeq, HeadTailProperties
<1>6. CASE access.rw = "poll" /\ status' # 0
  <2>1. prog' = prog
    BY <1>4, <1>6
  <2>2. PICK x, q, t : Route(prog, regs, status, asked, x, q, t)
    BY <1>1, Zenon DEF OnTheWay
  <2>3. Route(prog, regs, status', asked, x, q, t)
    BY <1>2, <1>6, <2>2, Zenon DEF Route, access
  <2>4. OnTheWay(prog, regs, status', asked)
    BY <2>3, Zenon DEF OnTheWay
  <2>5. BusOk(0, "free", prog, ptr)
    BY <1>3, BusFreed, Zenon
  <2> QED BY <1>1, <1>2, <2>1, <2>4, <2>5, Zenon DEF Undisturbed
<1>7. CASE ~ (access.rw = "poll" /\ status' # 0)
  <2>1. prog' = Tail(prog)
    BY <1>4, <1>7
  <2>2. \A x : Effect(Head(prog), [r |-> regs, s |-> x]) = [r |-> regs, s |-> status']
    <3> SUFFICES ASSUME NEW x PROVE Effect(Head(prog), [r |-> regs, s |-> x]) = [r |-> regs, s |-> status']
      OBVIOUS
    <3> DEFINE a == Head(prog)
               v == status'
    <3>1. (a.rw = "poll" /\ v = 0) \/ (a.rw = "read" /\ v = regs[a.reg])
      <4>1. a.rw = "poll" \/ a.rw = "read"
        <5>1. a.rw \in {"read", "poll", "write"}
          BY <1>5 DEF Access
        <5> QED BY <1>3, <5>1 DEF access
      <4>2. CASE a.rw = "poll"
        BY <1>7, <4>2 DEF access
      <4>3. CASE a.rw = "read"
        BY <1>4, <4>3 DEF access
      <4> QED BY <4>1, <4>2, <4>3
    <3> HIDE DEF a, v
    <3>2. Effect(a, [r |-> regs, s |-> x]) = [r |-> regs, s |-> v]
      BY <3>1, SMT DEF Effect
    <3> QED BY <3>2 DEF a, v
  <2>3. OnTheWay(Tail(prog), regs, status', asked)
    BY <1>1, <1>2, <1>3, <2>2, WayOn, Zenon
  <2>4. BusOk(0, "free", Tail(prog), ptr)
    BY <1>3, <1>5, BusFreed, Zenon
  <2> QED BY <1>1, <1>2, <2>1, <2>3, <2>4, Zenon DEF Undisturbed
<1> QED BY <1>6, <1>7
--------------------------------------------------------------------------------
\* and every step keeps it, those of the display too: off comes between two transfers or is a hit.
LEMMA FeStep == FeInv /\ [FeNext]_feVars => FeInv'
<1> SUFFICES ASSUME FeInv, [FeNext]_feVars PROVE FeInv'
  OBVIOUS
<1>1. CASE OledOff
  <2>1. hit' = (hit \/ bus # "free") /\ bus' = "free" /\ prog' = prog /\ byte' = byte /\ ptr' = ptr
        /\ regs' = regs /\ status' = status /\ asked' = asked
    BY <1>1 DEF OledOff
  <2>2. hit' \in BOOLEAN
    BY <2>1
  <2>3. ASSUME ~ hit' PROVE Undisturbed'
    <3>1. ~ hit /\ bus = "free"
      BY <2>1, <2>3, Zenon
    <3> QED BY <2>1, <3>1, Zenon DEF FeInv, Undisturbed
  <2> QED BY <2>2, <2>3, Zenon DEF FeInv
<1>2. CASE OledOn \/ UNCHANGED feVars
  <2>1. hit' = hit /\ bus' = bus /\ prog' = prog /\ byte' = byte /\ ptr' = ptr
        /\ regs' = regs /\ status' = status /\ asked' = asked
    BY <1>2 DEF OledOn, feVars
  <2> QED BY <2>1, Zenon DEF FeInv, Undisturbed
<1>3. CASE SetFilters \/ SetLevels \/ SelectSource \/ ProgramMode \/ PowerUp \/ PowerDown \/ SetAudio \/ CheckSync
  <2>1. hit' = hit
    BY <1>3, Zenon DEF SetFilters, SetLevels, SelectSource, ProgramMode, PowerUp, PowerDown, SetAudio, CheckSync, Call
  <2>2. ASSUME ~ hit PROVE Undisturbed'
    BY <1>3, <2>2, FiltersKeep, LevelsKeep, SelectKeeps, ProgramKeeps, PowerKeeps, AudioKeeps, CheckKeeps, Zenon
  <2> QED BY <2>1, <2>2, Zenon DEF FeInv
<1>4. CASE Start \/ SendRegister \/ SendData \/ Restart \/ Receive
  <2>1. hit' = hit
    BY <1>4, Zenon DEF Start, SendRegister, SendData, Restart, Receive, Quiet
  <2>2. ASSUME ~ hit PROVE Undisturbed'
    BY <1>4, <2>2, StartKeeps, SendRegisterKeeps, SendDataKeeps, RestartKeeps, ReceiveKeeps, Zenon
  <2> QED BY <2>1, <2>2, Zenon DEF FeInv
<1> QED BY <1>1, <1>2, <1>3, <1>4, Zenon DEF FeNext

\* What the registers hold is what RegistersAsAsked says, bit by bit.
LEMMA HeldIsAsked == FeInv => RegistersAsAsked
<1> SUFFICES ASSUME FeInv, prog = <<>>, ~ hit PROVE RegistersAsAsked
  BY Zenon DEF RegistersAsAsked
<1>1. Wanted(asked) /\ HoldsAll(regs, asked)
  <2>1. PICK x, q, t : Route(<<>>, regs, status, asked, x, q, t)
    BY Zenon DEF FeInv, Undisturbed, OnTheWay
  <2>2. [r |-> regs, s |-> x] = [r |-> q, s |-> t]
    BY <2>1, LeadsBack, Zenon DEF Route
  <2>3. regs = q
    BY <2>2
  <2> QED BY <2>1, <2>3, Zenon DEF Route, FeInv, Undisturbed
<1>2. /\ asked.sync_lpf \in 0 .. 3 /\ asked.clp_lpf \in 0 .. 3 /\ asked.lpf \in 0 .. 15 /\ asked.phase \in 0 .. 31
      /\ asked.thold \in 0 .. 31 /\ asked.ths_lpf \in 0 .. 3 /\ asked.ths \in {0, 1, 4, 36}
  BY <1>1, SMT DEF Wanted, Wish
<1>3. /\ regs["INPMUX2"] = 64 * asked.sync_lpf + 16 * asked.clp_lpf + 10
      /\ regs["VIDEOBWLIM"] = asked.lpf
      /\ regs["HPLLPHASE"] \in {8 * asked.phase, 8 * asked.phase + 1}
      /\ regs["HPLLDIV"] = asked.rate * Times(regs["HPLLPHASE"], asked.phase)
  BY <1>1, Zenon DEF HoldsAll, Holds
<1>4. \A v \in Int : /\ Bits(v, 6, 2) = (v \div 64) % 4 /\ Bits(v, 4, 2) = (v \div 16) % 4 /\ Bits(v, 0, 4) = (v \div 1) % 16
                     /\ Bits(v, 3, 5) = (v \div 8) % 32 /\ Bits(v, 0, 3) = (v \div 1) % 8
  BY BytePowers, Zenon DEF Bits
<1>5. /\ Bits(regs["INPMUX2"], 6, 2) = asked.sync_lpf
      /\ Bits(regs["INPMUX2"], 4, 2) = asked.clp_lpf
      /\ Bits(regs["INPMUX2"], 0, 4) = 10
  <2> DEFINE v == regs["INPMUX2"]
  <2>1. v \in Int /\ (v \div 64) % 4 = asked.sync_lpf /\ (v \div 16) % 4 = asked.clp_lpf /\ (v \div 1) % 16 = 10
    BY <1>2, <1>3, SMT
  <2> HIDE DEF v
  <2>2. Bits(v, 6, 2) = (v \div 64) % 4 /\ Bits(v, 4, 2) = (v \div 16) % 4 /\ Bits(v, 0, 4) = (v \div 1) % 16
    BY <1>4, <2>1, Zenon
  <2> QED BY <2>1, <2>2, Zenon DEF v
<1>6. Bits(regs["VIDEOBWLIM"], 0, 4) = asked.lpf
  <2>1. (asked.lpf \div 1) % 16 = asked.lpf /\ asked.lpf \in Int
    BY <1>2, SMT
  <2> QED BY <1>3, <1>4, <2>1, Zenon
<1>7. /\ Bits(regs["HPLLPHASE"], 3, 5) = asked.phase
      /\ regs["HPLLDIV"] = asked.rate * (IF Bits(regs["HPLLPHASE"], 0, 3) = 1 THEN 2 ELSE 1)
  <2> DEFINE v == regs["HPLLPHASE"]
  <2>1. v \in Int /\ (v \div 8) % 32 = asked.phase /\ (((v \div 1) % 8 = 1) <=> (v = 8 * asked.phase + 1))
    <3> DEFINE k == asked.phase
    <3>1. k \in 0 .. 31 /\ v \in {8 * k, 8 * k + 1}
      BY <1>2, <1>3, Zenon
    <3> HIDE DEF k, v
    <3>2. v \in Int /\ (v \div 8) % 32 = k /\ (((v \div 1) % 8 = 1) <=> (v = 8 * k + 1))
      BY <3>1, SMT
    <3> QED BY <3>2 DEF k
  <2> HIDE DEF v
  <2>2. Bits(v, 3, 5) = asked.phase /\ (Bits(v, 0, 3) = 1 <=> v = 8 * asked.phase + 1)
    <3>1. Bits(v, 3, 5) = (v \div 8) % 32 /\ Bits(v, 0, 3) = (v \div 1) % 8
      BY <1>4, <2>1, Zenon
    <3> QED BY <2>1, <3>1, Zenon
  <2>3. Times(v, asked.phase) = IF Bits(v, 0, 3) = 1 THEN 2 ELSE 1
    BY <2>2, Zenon DEF Times
  <2> QED BY <1>3, <2>2, <2>3, Zenon DEF v
<1>8. regs["SOGTHOLD"] = asked.thold * 8 + (IF asked.fmt = "YPbPr" THEN 5 ELSE 0)
  <2>1. regs["SOGTHOLD"] = 8 * asked.thold + (IF asked.fmt = "YPbPr" THEN 5 ELSE 0)
    BY <1>1, Zenon DEF HoldsAll, Holds
  <2>2. 8 * asked.thold = asked.thold * 8
    <3> DEFINE k == asked.thold
    <3>1. k \in 0 .. 31
      BY <1>2, Zenon
    <3> HIDE DEF k
    <3>2. 8 * k = k * 8
      BY <3>1, SMT
    <3> QED BY <3>2 DEF k
  <2> QED BY <2>1, <2>2, Zenon
<1>9. /\ regs["MISCCTRL4"] = IF asked.pc THEN 13 ELSE 9
      /\ regs["MISCCTRL1"] = IF asked.power THEN 17 ELSE 19
  BY <1>1, Zenon DEF HoldsAll, Holds, Wanted
<1>10. \A ch \in THS : regs[ch] = asked.ths_lpf * 8 + asked.ths
  BY <1>1, <1>2, SMT DEF HoldsAll, Holds
<1>11. /\ regs["PAGESEL"] = 0 /\ regs["PGA1"] = 2 * asked.gain
       /\ \A ch \in {"DSP_0", "DSP_1", "DSP_6", "DSP_7"} : regs[ch] = asked.mono
       /\ regs["ALCEN"] # 0 => regs["ALCPLACE"] > regs["CLAMPSTART"] + regs["CLAMPWIDTH"]
  BY <1>1, Zenon DEF HoldsAll, Holds, Dsp
<1> QED BY <1>5, <1>6, <1>7, <1>8, <1>9, <1>10, <1>11, Zenon DEF RegistersAsAsked

(* Between calls the registers of the three chips hold what was asked for  *)
(* last of each setting, unless the display's timeout fell into a transfer *)
(* (tvp7002.c, ths7353.c, pcm1862.c): for every mode's timings, every      *)
(* number of calls in any order, and whenever the display is switched off. *)
THEOREM RegistersKept == FeSpec => []RegistersAsAsked
<1>1. FeInit => FeInv
  BY FeInitially
<1>2. FeInv /\ [FeNext]_feVars => FeInv'
  BY FeStep
<1>3. FeInv => RegistersAsAsked
  BY HeldIsAsked
<1> QED BY <1>1, <1>2, <1>3, PTL DEF FeSpec

(* A byte is moved to or from the chip that the access has addressed, if   *)
(* the display's timeout never falls into a transfer: "any addressing and  *)
(* start has already been done" (i2c_opencores.c).                         *)
THEOREM BusAddressed == ASSUME ~ Disturb PROVE FeSpec => []AddressedFirst
<1>1. FeInit => FeInv /\ ~ hit
  BY FeInitially DEF FeInit
<1>2. FeInv /\ ~ hit /\ [FeNext]_feVars => FeInv' /\ ~ hit'
  <2> SUFFICES ASSUME FeInv, ~ hit, [FeNext]_feVars PROVE ~ hit'
    BY FeStep
  <2>1. CASE OledOff
    BY <2>1, Zenon DEF OledOff
  <2>2. CASE SetFilters \/ SetLevels \/ SelectSource \/ ProgramMode \/ PowerUp \/ PowerDown \/ SetAudio \/ CheckSync
    BY <2>2, Zenon DEF SetFilters, SetLevels, SelectSource, ProgramMode, PowerUp, PowerDown, SetAudio, CheckSync, Call
  <2>3. CASE Start \/ SendRegister \/ SendData \/ Restart \/ Receive
    BY <2>3, Zenon DEF Start, SendRegister, SendData, Restart, Receive, Quiet
  <2>4. CASE OledOn \/ UNCHANGED feVars
    BY <2>4, Zenon DEF OledOn, feVars
  <2> QED BY <2>1, <2>2, <2>3, <2>4, Zenon DEF FeNext
<1>3. FeInv /\ ~ hit => AddressedFirst
  <2> SUFFICES ASSUME FeInv, ~ hit, prog # <<>>, byte \in {1, 3} \/ (byte = 2 /\ access.rw = "write") PROVE bus = target
    BY Zenon DEF AddressedFirst
  <2>1. BusOk(byte, bus, prog, ptr)
    BY Zenon DEF FeInv, Undisturbed
  <2> QED BY <2>1, SMT DEF BusOk, target, access
<1> QED BY <1>1, <1>2, <1>3, PTL DEF FeSpec
================================================================================
