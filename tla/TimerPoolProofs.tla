---------------------------- MODULE TimerPoolProofs ----------------------------
(***************************************************************************)
(* Theorems about TimerPool, TimerPromise and TimerHistory, for every      *)
(* number of timers, callback, delay and word size.                        *)
(***************************************************************************)
EXTENDS TimerHistory, TimerPromise, TLAPS

(* The 64-bit sum of a clock value and a duration is a 64-bit value. *)
LEMMA PlusType ==
  ASSUME NEW t \in Wide, NEW d \in 0 .. Word - 1
  PROVE  Plus(t, d) \in Wide
<1>1. t["lo"] \in 0 .. Word - 1 /\ t["hi"] \in 0 .. Word - 1
  BY DEF Wide, Half
<1>2. CASE t["lo"] + d < Word
  BY <1>1, <1>2, PoolAssumption DEF Plus, Wide, Half
<1>3. CASE ~ (t["lo"] + d < Word)
  <2>1. t["lo"] + d - Word \in 0 .. Word - 1
    BY <1>1, <1>3, PoolAssumption
  <2>2. (IF t["hi"] + 1 < Word THEN t["hi"] + 1 ELSE 0) \in 0 .. Word - 1
    BY <1>1, PoolAssumption
  <2>3. Plus(t, d) = [t EXCEPT !["lo"] = t["lo"] + d - Word,
                               !["hi"] = IF t["hi"] + 1 < Word THEN t["hi"] + 1 ELSE 0]
    BY <1>3 DEF Plus, Wide, Half
  <2> QED
    BY <2>1, <2>2, <2>3 DEF Wide, Half
<1> QED
  BY <1>2, <1>3

LEMMA ZeroType == Zero \in Wide
  BY PoolAssumption DEF Zero, Wide

(* What a callback of Nested leaves in the pool has the right types. *)
LEMMA NestType ==
  ASSUME TypeOK, NEW ctr \in [Slot -> Wide], Nest(ctr)
  PROVE  timeout_ctr' \in [Slot -> Wide] /\ timeout_cb' \in [Slot -> Callback \union {NoCb}]
<1>1. PICK h \in Slot \union {Outside} :
        LET left == [i \in Slot |-> IF i = h THEN Zero ELSE ctr[i]]
        IN  \/ /\ timeout_ctr' = left
               /\ UNCHANGED timeout_cb
            \/ \E i \in Slot, cb \in Callback, usec \in Delay :
                 /\ timeout_ctr' = [left EXCEPT ![i] = Plus(timer_ctr, usec)]
                 /\ timeout_cb' = [timeout_cb EXCEPT ![i] = cb]
  BY DEF Nest
<1> DEFINE left == [i \in Slot |-> IF i = h THEN Zero ELSE ctr[i]]
<1>2. left \in [Slot -> Wide]
  BY ZeroType
<1>3. \A usec \in Delay : Plus(timer_ctr, usec) \in Wide
  BY PlusType, PoolAssumption DEF TypeOK
<1> HIDE DEF left
<1>4. CASE timeout_ctr' = left /\ UNCHANGED timeout_cb
  BY <1>2, <1>4 DEF TypeOK
<1>5. CASE \E i \in Slot, cb \in Callback, usec \in Delay :
             /\ timeout_ctr' = [left EXCEPT ![i] = Plus(timer_ctr, usec)]
             /\ timeout_cb' = [timeout_cb EXCEPT ![i] = cb]
  BY <1>2, <1>3, <1>5 DEF TypeOK
<1> QED
  BY <1>1, <1>4, <1>5 DEF left

(* Every variable of the pool keeps its type, whatever the interleaving of   *)
(* the program, the interrupt and the callbacks.                             *)
LEMMA TypeStep == TypeOK /\ [Next]_vars => TypeOK'
<1> SUFFICES ASSUME TypeOK, [Next]_vars PROVE TypeOK'
  OBVIOUS
<1> USE PoolAssumption
<1>1. CASE IrqEnter
  <2>1. Plus(timer_ctr, 1) \in Wide
    BY PlusType DEF TypeOK
  <2> QED
    BY <1>1, <2>1 DEF IrqEnter, TypeOK, foreground, Outside, Stuck, Slot
<1>2. CASE IrqSlot
  <2>1. CASE Expired(irq)
    <3> DEFINE ctr == [timeout_ctr EXCEPT ![irq] = Zero]
    <3>1. ctr \in [Slot -> Wide]
      BY ZeroType DEF TypeOK
    <3>2. called' = [cb |-> timeout_cb[irq], slot |-> irq] /\ RunCallback(timeout_cb[irq], ctr)
      BY <1>2, <2>1 DEF IrqSlot
    <3> HIDE DEF ctr
    <3>3. called' \in [cb : Callback \union {NoCb}, slot : Slot]
      BY <1>2, <3>2 DEF IrqSlot, TypeOK
    <3>4. timeout_ctr' \in [Slot -> Wide] /\ timeout_cb' \in [Slot -> Callback \union {NoCb}]
      BY <3>1, <3>2, NestType DEF RunCallback, TypeOK
    <3>5. irq' \in 0 .. Stuck
      BY <1>2, <3>2 DEF RunCallback, IrqSlot, Slot, Stuck
    <3> QED
      BY <1>2, <3>3, <3>4, <3>5 DEF IrqSlot, TypeOK, foreground
  <2>2. CASE ~ Expired(irq)
    BY <1>2, <2>2 DEF IrqSlot, TypeOK, foreground, Slot, Stuck
  <2> QED
    BY <2>1, <2>2
<1>3. CASE TimerInit \/ TimerDeinit
  BY <1>3 DEF TimerInit, TimerDeinit, TypeOK, shared
<1>4. ASSUME NEW cb \in Callback, NEW usec \in Delay, Timeout(cb, usec)
      PROVE  TypeOK'
  BY <1>4 DEF Timeout, TypeOK, shared
<1>5. ASSUME NEW usec \in Delay, Usleep(usec)
      PROVE  TypeOK'
  BY <1>5 DEF Usleep, TypeOK, shared
<1>6. ASSUME NEW i \in Slot, Cancel(i)
      PROVE  TypeOK'
  BY <1>6 DEF Cancel, TypeOK, shared, Slot
<1>7. CASE Scan
  BY <1>7, ZeroType DEF Scan, Free, Return, NoReq, TypeOK, shared
<1>8. ASSUME NEW h \in Half, LoadHalf(h)
      PROVE  TypeOK'
  <2> DEFINE t == [now EXCEPT ![h] = timer_ctr[h]]
  <2>1. t \in Wide
    BY <1>8 DEF TypeOK, Wide
  <2>2. \/ /\ now' = t
           /\ todo' = todo \ {h}
           /\ UNCHANGED <<pc, idx, req, start_ts, hits>>
        \/ AfterLoad(t)
    BY <1>8 DEF LoadHalf
  <2> HIDE DEF t
  <2>3. now' \in Wide /\ start_ts' \in Wide
    BY <2>1, <2>2, ZeroType DEF AfterLoad, Elapsed, Stores, Return, TypeOK
  <2>4. /\ pc' \in {"boot", "idle", "scan", "load", "store", "start", "poll", "clear", "halt"}
        /\ idx' \in 0 .. NSlots
        /\ req' \in [cb : Callback \union {NoCb}, usec : Delay \union {0}]
        /\ todo' \in SUBSET (Half \union {"cb"})
        /\ hits' \in Nat
    BY <2>2 DEF AfterLoad, Elapsed, Stores, Return, NoReq, TypeOK
  <2> QED
    BY <1>8, <2>3, <2>4 DEF LoadHalf, shared, TypeOK
<1>9. ASSUME NEW h \in Half, Clear(h)
      PROVE  TypeOK'
  <2>1. \A i \in Slot : [timeout_ctr[i] EXCEPT ![h] = 0] \in Wide
    BY DEF TypeOK, Wide
  <2>2. timeout_ctr' = [timeout_ctr EXCEPT ![idx] = [timeout_ctr[idx] EXCEPT ![h] = 0]]
    BY <1>9 DEF Clear
  <2>3. timeout_ctr' \in [Slot -> Wide]
    BY <2>1, <2>2 DEF TypeOK
  <2> QED
    BY <1>9, <2>3, ZeroType DEF Clear, Return, NoReq, TypeOK
<1>10. ASSUME NEW w \in Half \union {"cb"}, Store(w)
       PROVE  TypeOK'
  <2>1. timeout_ctr' \in [Slot -> Wide]
    <3>1. CASE w = "cb"
      BY <1>10, <3>1 DEF Store, TypeOK, Half
    <3>2. CASE w \in Half
      <4>0. req.usec \in Delay \union {0}
        BY DEF TypeOK
      <4>1. Plus(now, req.usec) \in Wide
        BY <4>0, PlusType, 0 \in 0 .. Word - 1, Delay \subseteq 0 .. Word - 1 DEF TypeOK
      <4> QED
        BY <1>10, <3>2, <4>1 DEF Store, TypeOK, Wide, Half
    <3> QED
      BY <3>1, <3>2
  <2>2. timeout_cb' \in [Slot -> Callback \union {NoCb}]
    BY <1>10 DEF Store, TypeOK
  <2> QED
    BY <1>10, <2>1, <2>2, ZeroType DEF Store, Return, NoReq, TypeOK
<1>11. CASE UNCHANGED vars
  BY <1>11 DEF vars, foreground, TypeOK
<1> QED
  BY <1>1, <1>2, <1>3, <1>4, <1>5, <1>6, <1>7, <1>8, <1>9, <1>10, <1>11
  DEF Next, Irq, Calls, Continue

LEMMA TypeInit == Init => TypeOK
  BY PoolAssumption, ZeroType DEF Init, TypeOK, Slot, NoReq, Outside, Stuck

(* Type correctness: timer.c keeps every variable of the pool in its type.   *)
THEOREM TypeCorrect == Spec => []TypeOK
  BY TypeInit, TypeStep, PTL DEF Spec
--------------------------------------------------------------------------------
(* The clock and every deadline fit in the low word: the first 71 minutes. *)
FirstEpoch ==
  /\ MaxClock["hi"] = 0
  /\ \A d \in Delay : MaxClock["lo"] + d < Word

\* No high word is ever anything but zero.
LowWordsOnly ==
  /\ timer_ctr["hi"] = 0 /\ timer_ctr["lo"] <= MaxClock["lo"]
  /\ now["hi"] = 0
  /\ \A i \in Slot : timeout_ctr[i]["hi"] = 0

\* An arming call has a client's request and a slot, and has met few ticks.
ArmingOK ==
  /\ pc \in {"scan", "load", "store"} => req.cb \in Callback /\ req.usec \in Delay
  /\ pc \in {"boot", "idle", "scan"} => hits = 0
  /\ pc \in {"load", "store"} => idx \in Slot /\ hits <= OpTicks

\* The clock as the arming call read it is at most hits ticks old.
ReadingIsRecent ==
  (pc = "load" /\ "lo" \notin todo) \/ pc = "store" =>
    /\ now["lo"] <= timer_ctr["lo"]
    /\ timer_ctr["lo"] <= now["lo"] + hits

\* Only the slot being filled has a deadline without a callback.
CallbackKnown ==
  /\ \A i \in Slot :
       timeout_ctr[i] # Zero /\ timeout_cb[i] \notin Callback =>
         /\ pc = "store" /\ i = idx /\ "cb" \in todo
         /\ timeout_ctr[i]["lo"] = now["lo"] + req.usec
  /\ pc = "store" /\ "cb" \notin todo => timeout_cb[idx] \in Callback

CallInv == TypeOK /\ LowWordsOnly /\ ArmingOK /\ ReadingIsRecent /\ CallbackKnown

LEMMA PlusInFirstEpoch ==
  ASSUME NEW t \in Wide, t["hi"] = 0, NEW d \in Nat, t["lo"] + d < Word
  PROVE  Plus(t, d)["hi"] = 0 /\ Plus(t, d)["lo"] = t["lo"] + d
  BY DEF Plus, Wide, Half

LEMMA DeadlineInFirstEpoch ==
  ASSUME FirstEpoch, NEW t \in Wide, t["hi"] = 0, t["lo"] <= MaxClock["lo"], NEW d \in Delay
  PROVE  Plus(t, d)["hi"] = 0 /\ Plus(t, d)["lo"] = t["lo"] + d
<1>1. t["lo"] \in Nat /\ MaxClock["lo"] \in Nat /\ d \in Nat /\ Word \in Nat
  BY PoolAssumption DEF Wide, Half
<1>2. t["lo"] + d < Word
  BY <1>1 DEF FirstEpoch
<1> QED
  BY <1>1, <1>2, PlusInFirstEpoch

\* Halves are numbers, and a value whose halves are zero is Zero.
LEMMA Halves ==
  ASSUME NEW t \in Wide
  PROVE  /\ t["lo"] \in Nat /\ t["hi"] \in Nat
         /\ t = Zero <=> t["lo"] = 0 /\ t["hi"] = 0
  BY PoolAssumption DEF Wide, Half, Zero

(* A due slot whose callback is unknown is being filled by a call that is     *)
(* slower than the time it asks for.                                         *)
LEMMA CallInvIsEnough ==
  ASSUME CallInv, NEW i \in Slot, Expired(i), timeout_cb[i] \notin Callback
  PROVE  pc = "store" /\ idx = i /\ "cb" \in todo /\ req.usec < hits
<1>1. timeout_ctr[i]["lo"] < timer_ctr["lo"]
  BY DEF CallInv, LowWordsOnly, Expired, Less
<1>2. /\ pc = "store" /\ idx = i /\ "cb" \in todo
      /\ timeout_ctr[i]["lo"] = now["lo"] + req.usec
  BY DEF CallInv, CallbackKnown, Expired
<1>3. timer_ctr["lo"] <= now["lo"] + hits /\ req.usec \in Delay
  BY <1>2 DEF CallInv, ReadingIsRecent, ArmingOK
<1>4. req.usec \in Nat /\ hits \in Nat
  <2>1. \A d \in Delay : d \in Nat
    BY PoolAssumption
  <2> QED
    BY <1>3, <2>1 DEF CallInv, TypeOK
<1>5. now["lo"] \in Nat /\ timer_ctr["lo"] \in Nat
  BY Halves DEF CallInv, TypeOK
<1> QED
  BY <1>1, <1>2, <1>3, <1>4, <1>5

(* What a callback of Nested does keeps the deadlines in the first epoch and *)
(* every deadline it leaves behind has a callback or had none before.        *)
LEMMA NestKeeps ==
  ASSUME FirstEpoch, TypeOK, LowWordsOnly, NEW ctr \in [Slot -> Wide], Nest(ctr),
         \A i \in Slot : ctr[i]["hi"] = 0
  PROVE  \A i \in Slot :
           /\ timeout_ctr'[i]["hi"] = 0
           /\ \/ timeout_cb'[i] \in Callback
              \/ timeout_cb'[i] = timeout_cb[i] /\ timeout_ctr'[i] \in {Zero, ctr[i]}
<1>1. PICK h \in Slot \union {Outside} :
        LET left == [i \in Slot |-> IF i = h THEN Zero ELSE ctr[i]]
        IN  \/ /\ timeout_ctr' = left
               /\ UNCHANGED timeout_cb
            \/ \E i \in Slot, cb \in Callback, usec \in Delay :
                 /\ timeout_ctr' = [left EXCEPT ![i] = Plus(timer_ctr, usec)]
                 /\ timeout_cb' = [timeout_cb EXCEPT ![i] = cb]
  BY DEF Nest
<1> DEFINE left == [i \in Slot |-> IF i = h THEN Zero ELSE ctr[i]]
<1>2. left \in [Slot -> Wide] /\ \A i \in Slot : left[i]["hi"] = 0 /\ left[i] \in {Zero, ctr[i]}
  BY ZeroType DEF Zero, Half
<1>3. \A usec \in Delay : Plus(timer_ctr, usec)["hi"] = 0
  BY DeadlineInFirstEpoch DEF TypeOK, LowWordsOnly
<1> HIDE DEF left
<1>4. CASE timeout_ctr' = left /\ UNCHANGED timeout_cb
  BY <1>2, <1>4 DEF TypeOK
<1>5. ASSUME NEW i \in Slot, NEW cb \in Callback, NEW usec \in Delay,
             timeout_ctr' = [left EXCEPT ![i] = Plus(timer_ctr, usec)],
             timeout_cb' = [timeout_cb EXCEPT ![i] = cb]
      PROVE  \A j \in Slot :
               /\ timeout_ctr'[j]["hi"] = 0
               /\ \/ timeout_cb'[j] \in Callback
                  \/ timeout_cb'[j] = timeout_cb[j] /\ timeout_ctr'[j] \in {Zero, ctr[j]}
  BY <1>2, <1>3, <1>5 DEF TypeOK
<1> QED
  BY <1>1, <1>4, <1>5 DEF left

(* The clock moves on within the first epoch; an arming call counts it. *)
LEMMA CallInvIrqEnter == ASSUME FirstEpoch, CallInv, IrqEnter PROVE CallInv'
<1>1. TypeOK'
  BY TypeStep DEF CallInv, Next, Irq
<1>2. timer_ctr["lo"] < MaxClock["lo"]
  BY DEF IrqEnter, Less, FirstEpoch, CallInv, LowWordsOnly
<1>3. /\ timer_ctr["lo"] \in Nat /\ MaxClock["lo"] \in 0 .. Word - 1 /\ Word \in Nat
      /\ now["lo"] \in Nat /\ hits \in Nat
  BY Halves, PoolAssumption DEF CallInv, TypeOK, Wide, Half
<1>4. timer_ctr'["hi"] = 0 /\ timer_ctr'["lo"] = timer_ctr["lo"] + 1
  <2>1. timer_ctr["lo"] + 1 < Word
    BY <1>2, <1>3
  <2> QED
    BY <2>1, PlusInFirstEpoch, 1 \in Nat DEF IrqEnter, CallInv, TypeOK, LowWordsOnly
<1>5. LowWordsOnly'
  BY <1>2, <1>3, <1>4 DEF CallInv, LowWordsOnly, IrqEnter, foreground
<1>6. ArmingOK'
  BY <1>3, PoolAssumption DEF CallInv, ArmingOK, IrqEnter, foreground
<1>7. ReadingIsRecent'
  BY <1>3, <1>4 DEF CallInv, ReadingIsRecent, IrqEnter, foreground
<1>8. CallbackKnown'
  BY DEF CallInv, CallbackKnown, IrqEnter, foreground
<1> QED
  BY <1>1, <1>5, <1>6, <1>7, <1>8 DEF CallInv

(* A round of the handler leaves every deadline with the callback it had, or *)
(* with one a nested arming stored.                                          *)
LEMMA CallInvIrqSlot == ASSUME FirstEpoch, CallInv, IrqSlot PROVE CallInv'
<1>1. TypeOK'
  BY TypeStep DEF CallInv, Next, Irq
<1>2. UNCHANGED <<timer_ctr, foreground, hits>>
  BY DEF IrqSlot
<1>3. \A i \in Slot :
        /\ timeout_ctr'[i]["hi"] = 0
        /\ \/ timeout_cb'[i] \in Callback
           \/ timeout_cb'[i] = timeout_cb[i] /\ timeout_ctr'[i] \in {Zero, timeout_ctr[i]}
  <2>1. CASE ~ Expired(irq)
    BY <2>1 DEF IrqSlot, CallInv, LowWordsOnly
  <2>2. CASE Expired(irq)
    <3> DEFINE ctr == [timeout_ctr EXCEPT ![irq] = Zero]
    <3>1. /\ ctr \in [Slot -> Wide]
          /\ \A i \in Slot : ctr[i]["hi"] = 0 /\ ctr[i] \in {Zero, timeout_ctr[i]}
      BY ZeroType DEF CallInv, TypeOK, LowWordsOnly, Zero, Half
    <3>2. RunCallback(timeout_cb[irq], ctr)
      BY <2>2 DEF IrqSlot
    <3> HIDE DEF ctr
    <3>3. CASE timeout_ctr' = ctr /\ UNCHANGED timeout_cb
      BY <3>1, <3>3
    <3>4. CASE Nest(ctr)
      BY <3>1, <3>4, NestKeeps DEF CallInv
    <3> QED
      BY <3>2, <3>3, <3>4 DEF RunCallback
  <2> QED
    BY <2>1, <2>2
<1>4. LowWordsOnly'
  BY <1>2, <1>3 DEF CallInv, LowWordsOnly, foreground
<1>5. ArmingOK' /\ ReadingIsRecent'
  BY <1>2 DEF CallInv, ArmingOK, ReadingIsRecent, foreground
<1>6. CallbackKnown'
  BY <1>2, <1>3 DEF CallInv, CallbackKnown, ArmingOK, foreground
<1> QED
  BY <1>1, <1>4, <1>5, <1>6 DEF CallInv

(* The calls of the program and the search for a free timer store nothing in *)
(* the pool.                                                                 *)
LEMMA CallInvCalls ==
  ASSUME FirstEpoch, CallInv, TimerInit \/ TimerDeinit \/ Calls \/ Scan
  PROVE  CallInv'
<1>1. TypeOK'
  BY TypeStep DEF CallInv, Next, Continue
<1>2. UNCHANGED <<timer_ctr, timeout_ctr, timeout_cb>>
  BY DEF TimerInit, TimerDeinit, Calls, Timeout, Usleep, Cancel, Scan, Free, shared
<1>3. pc # "store" /\ pc' # "store"
  BY DEF TimerInit, TimerDeinit, Calls, Timeout, Usleep, Cancel, Scan, Free, Return
<1>4. now' \in {now, Zero} /\ Zero["hi"] = 0
  BY DEF TimerInit, TimerDeinit, Calls, Timeout, Usleep, Cancel, Scan, Free, Return, Zero, Half
<1>5. LowWordsOnly'
  BY <1>2, <1>4 DEF CallInv, LowWordsOnly
<1>6. CallbackKnown'
  BY <1>2, <1>3 DEF CallInv, CallbackKnown
<1>7. ArmingOK' /\ ReadingIsRecent'
  <2>1. CASE TimerInit \/ TimerDeinit
    BY <2>1 DEF TimerInit, TimerDeinit, CallInv, ArmingOK, ReadingIsRecent
  <2>2. CASE \E cb \in Callback, usec \in Delay : Timeout(cb, usec)
    BY <2>2 DEF Timeout, CallInv, ArmingOK, ReadingIsRecent
  <2>3. CASE \E usec \in Delay : Usleep(usec)
    BY <2>3 DEF Usleep, CallInv, ArmingOK, ReadingIsRecent
  <2>4. CASE \E i \in Slot : Cancel(i)
    BY <2>4 DEF Cancel, CallInv, ArmingOK, ReadingIsRecent
  <2>5. CASE Scan
    BY <2>5, PoolAssumption DEF Scan, Free, Return, Half, Slot, CallInv, TypeOK, ArmingOK, ReadingIsRecent
  <2> QED
    BY <2>1, <2>2, <2>3, <2>4, <2>5 DEF Calls
<1> QED
  BY <1>1, <1>5, <1>6, <1>7 DEF CallInv

(* Loading the clock half by half.                                           *)
LEMMA CallInvLoad == ASSUME FirstEpoch, CallInv, NEW h \in Half, LoadHalf(h) PROVE CallInv'
<1>1. TypeOK'
  BY TypeStep DEF CallInv, Next, Continue
<1> DEFINE t == [now EXCEPT ![h] = timer_ctr[h]]
<1>2. /\ UNCHANGED <<timer_ctr, timeout_ctr, timeout_cb>>
      /\ pc \in {"load", "start", "poll"}
      /\ \/ todo # {h} /\ now' = t /\ todo' = todo \ {h}
            /\ UNCHANGED <<pc, idx, req, start_ts, hits>>
         \/ todo = {h} /\ AfterLoad(t)
  BY DEF LoadHalf, shared
<1>3. /\ t["hi"] = 0
      /\ h = "lo" => t["lo"] = timer_ctr["lo"]
      /\ h = "hi" => t["lo"] = now["lo"]
  BY DEF CallInv, TypeOK, LowWordsOnly, Wide, Half
<1>4. timer_ctr["lo"] \in Nat /\ hits \in Nat
  BY Halves DEF CallInv, TypeOK
<1> HIDE DEF t
<1>5. LowWordsOnly'
  BY <1>2, <1>3 DEF CallInv, LowWordsOnly, AfterLoad, Elapsed, Stores, Return, Zero, Half
<1>6. ArmingOK'
  BY <1>2 DEF CallInv, ArmingOK, AfterLoad, Elapsed, Stores, Return
<1>7. ReadingIsRecent'
  <2>1. CASE pc = "load"
    <3>1. now' = t /\ UNCHANGED <<timer_ctr, hits>>
      BY <1>2, <2>1 DEF AfterLoad, Elapsed, Stores
    <3>2. h = "hi" /\ "lo" \in todo => pc' = "load" /\ "lo" \in todo'
      BY <1>2, <2>1
    <3> QED
      BY <1>3, <1>4, <2>1, <3>1, <3>2 DEF CallInv, ReadingIsRecent, Half
  <2>2. CASE pc # "load"
    BY <1>2, <2>2 DEF AfterLoad, Elapsed, Stores, Return, ReadingIsRecent
  <2> QED
    BY <2>1, <2>2
<1>8. CallbackKnown'
  <2>1. pc # "store" /\ (pc' = "store" => todo' = Half \union {"cb"})
    BY <1>2 DEF AfterLoad, Elapsed, Stores, Return
  <2> QED
    BY <1>2, <2>1 DEF CallInv, CallbackKnown
<1> QED
  BY <1>1, <1>5, <1>6, <1>7, <1>8 DEF CallInv

(* Zeroing a deadline half by half.                                          *)
LEMMA CallInvClear == ASSUME FirstEpoch, CallInv, NEW h \in Half, Clear(h) PROVE CallInv'
<1>1. TypeOK'
  BY TypeStep DEF CallInv, Next, Continue
<1>2. /\ UNCHANGED <<timer_ctr, timeout_cb>>
      /\ pc = "clear" /\ pc' \in {"clear", "idle"}
      /\ pc' = "idle" => hits' = 0
      /\ now' \in {now, Zero} /\ Zero["hi"] = 0
  BY DEF Clear, Return, Zero, Half
<1>3. \A i \in Slot :
        /\ timeout_ctr'[i]["hi"] = 0
        /\ timeout_ctr[i] = Zero => timeout_ctr'[i] = Zero
  <2>1. \A i \in Slot :
          /\ timeout_ctr'[i]["hi"] \in {0, timeout_ctr[i]["hi"]}
          /\ timeout_ctr'[i]["lo"] \in {0, timeout_ctr[i]["lo"]}
    BY DEF Clear, CallInv, TypeOK, Wide, Half
  <2> QED
    BY <1>1, <2>1, Halves DEF CallInv, TypeOK, LowWordsOnly
<1>4. LowWordsOnly'
  BY <1>2, <1>3 DEF CallInv, LowWordsOnly
<1>5. ArmingOK' /\ ReadingIsRecent'
  BY <1>2 DEF ArmingOK, ReadingIsRecent
<1>6. CallbackKnown'
  BY <1>2, <1>3 DEF CallInv, CallbackKnown
<1> QED
  BY <1>1, <1>4, <1>5, <1>6 DEF CallInv

(* Storing a deadline and its callback in any order.                         *)
LEMMA CallInvStore ==
  ASSUME FirstEpoch, CallInv, NEW w \in Half \union {"cb"}, Store(w)
  PROVE  CallInv'
<1>1. TypeOK'
  BY TypeStep DEF CallInv, Next, Continue
<1>2. /\ timer_ctr' = timer_ctr /\ pc = "store" /\ w \in todo
      /\ \/ pc' = "idle" /\ hits' = 0 /\ now' = Zero /\ todo = {w}
         \/ /\ pc' = "store" /\ todo' = todo \ {w} /\ todo # {w}
            /\ UNCHANGED <<idx, req, now, hits>>
  BY DEF Store, Return
<1>3. /\ idx \in Slot /\ req.cb \in Callback /\ req.usec \in Delay
      /\ now \in Wide /\ now["hi"] = 0 /\ now["lo"] <= MaxClock["lo"]
  <2>1. /\ now["lo"] <= timer_ctr["lo"] /\ timer_ctr["lo"] <= MaxClock["lo"]
    BY <1>2 DEF CallInv, LowWordsOnly, ReadingIsRecent
  <2>2. now["lo"] \in Nat /\ timer_ctr["lo"] \in Nat /\ MaxClock["lo"] \in Nat
    BY Halves, PoolAssumption DEF CallInv, TypeOK
  <2> QED
    BY <1>2, <2>1, <2>2 DEF CallInv, ArmingOK, LowWordsOnly, TypeOK
<1>4. Plus(now, req.usec)["hi"] = 0 /\ Plus(now, req.usec)["lo"] = now["lo"] + req.usec
  BY <1>3, DeadlineInFirstEpoch
<1>5. \A i \in Slot :
        /\ timeout_ctr'[i]["hi"] = 0
        /\ i # idx \/ w = "cb" => timeout_ctr'[i] = timeout_ctr[i]
        /\ i # idx \/ w # "cb" => timeout_cb'[i] = timeout_cb[i]
  <2>1. CASE w = "cb"
    BY <2>1 DEF Store, CallInv, LowWordsOnly, TypeOK, Half
  <2>2. CASE w \in Half
    BY <1>3, <1>4, <2>2 DEF Store, CallInv, LowWordsOnly, TypeOK, Wide, Half
  <2> QED
    BY <2>1, <2>2
<1>6. w = "cb" => timeout_cb'[idx] \in Callback
  BY <1>3 DEF Store, CallInv, TypeOK, Half
<1>7. w = "lo" => timeout_ctr'[idx]["lo"] = now["lo"] + req.usec
  BY <1>3, <1>4 DEF Store, CallInv, TypeOK, Wide, Half
<1>8. w = "hi" => timeout_ctr'[idx] = timeout_ctr[idx]
  <2>1. w = "hi" => timeout_ctr' = [timeout_ctr EXCEPT ![idx] = [timeout_ctr[idx] EXCEPT !["hi"] = 0]]
    BY <1>4 DEF Store
  <2>2. timeout_ctr[idx] = [timeout_ctr[idx] EXCEPT !["hi"] = 0]
    BY <1>3 DEF CallInv, LowWordsOnly, TypeOK, Wide, Half
  <2> QED
    BY <1>3, <2>1, <2>2 DEF CallInv, TypeOK
<1>9. LowWordsOnly'
  BY <1>2, <1>5 DEF CallInv, LowWordsOnly, Zero, Half
<1>10. ArmingOK' /\ ReadingIsRecent'
  BY <1>2 DEF CallInv, ArmingOK, ReadingIsRecent
<1>11. CallbackKnown'
  <2>1. CASE pc' = "store"
    <3>1. ASSUME NEW i \in Slot, timeout_ctr'[i] # Zero, timeout_cb'[i] \notin Callback
          PROVE  /\ i = idx /\ "cb" \in todo'
                 /\ timeout_ctr'[i]["lo"] = now["lo"] + req.usec
      BY <1>2, <1>5, <1>6, <1>7, <1>8, <2>1, <3>1 DEF CallInv, CallbackKnown, Half
    <3>2. "cb" \notin todo' => timeout_cb'[idx] \in Callback
      BY <1>2, <1>3, <1>5, <1>6, <2>1 DEF CallInv, CallbackKnown
    <3> QED
      BY <1>2, <2>1, <3>1, <3>2 DEF CallbackKnown
  <2>2. CASE pc' = "idle"
    BY <1>2, <1>3, <1>5, <1>6, <2>2 DEF CallInv, CallbackKnown, Half
  <2> QED
    BY <1>2, <2>1, <2>2
<1> QED
  BY <1>1, <1>9, <1>10, <1>11 DEF CallInv

LEMMA CallInvStep == ASSUME FirstEpoch PROVE CallInv /\ [Next]_vars => CallInv'
<1> SUFFICES ASSUME CallInv, [Next]_vars PROVE CallInv'
  OBVIOUS
<1>1. CASE UNCHANGED vars
  <2>1. TypeOK'
    BY TypeStep DEF CallInv
  <2> QED
    BY <1>1, <2>1
    DEF vars, foreground, CallInv, LowWordsOnly, ArmingOK, ReadingIsRecent, CallbackKnown
<1> QED
  BY <1>1, CallInvIrqEnter, CallInvIrqSlot, CallInvCalls, CallInvLoad, CallInvClear, CallInvStore
  DEF Next, Irq, Continue

LEMMA CallInvInit == ASSUME FirstEpoch PROVE Init => CallInv
<1> SUFFICES ASSUME Init PROVE CallInv
  OBVIOUS
<1>1. MaxClock["lo"] \in Nat
  BY Halves, PoolAssumption
<1> QED
  BY <1>1, TypeInit
  DEF Init, Zero, Half, Slot, CallInv, LowWordsOnly, ArmingOK, ReadingIsRecent, CallbackKnown

(* During the first 71 minutes the handler calls a null pointer only for an   *)
(* arming call that has met more ticks than it asked to wait for, even if    *)
(* callbacks arm and cancel timers under the main program's feet.            *)
THEOREM NoNullCallInFirstEpoch == ASSUME FirstEpoch PROVE Spec => []NoNullCall
<1>1. CallInv => NoNullCall
  BY CallInvIsEnough DEF NoNullCall, CallInv
<1> QED
  BY <1>1, CallInvInit, CallInvStep, PTL DEF Spec
--------------------------------------------------------------------------------
(* usleep, while the high words are zero. *)

\* What usleep has read of the clock: its first reading is as old as the ticks it has met, the next no later than now.
SleepInv ==
  /\ start_ts["hi"] = 0
  /\ pc \in {"start", "poll"} => req.usec \in Delay
  /\ pc = "start" /\ "lo" \notin todo => now["lo"] <= timer_ctr["lo"] /\ timer_ctr["lo"] <= now["lo"] + hits
  /\ pc = "poll" => start_ts["lo"] <= timer_ctr["lo"] /\ timer_ctr["lo"] <= start_ts["lo"] + hits
  /\ pc = "poll" /\ "lo" \notin todo => now["lo"] <= timer_ctr["lo"]

\* A complete reading of the clock.
Reading(t, h) == todo = {h} /\ t = [now EXCEPT ![h] = timer_ctr[h]]

\* What a reading is worth in the first epoch: no later than now, and no older than the ticks usleep has met.
LEMMA ReadingInFirstEpoch ==
  ASSUME CallInv, SleepInv, pc \in {"start", "poll"}, NEW h \in Half, NEW t, Reading(t, h)
  PROVE  /\ t \in Wide /\ t["hi"] = 0 /\ t["lo"] <= timer_ctr["lo"]
         /\ pc = "start" => timer_ctr["lo"] <= t["lo"] + hits
<1>1. now \in Wide /\ timer_ctr \in Wide /\ hits \in Nat
  BY DEF CallInv, TypeOK
<1>2. timer_ctr["lo"] \in Nat /\ timer_ctr["hi"] = 0 /\ now["hi"] = 0 /\ now["lo"] \in Nat
  BY <1>1, Halves DEF CallInv, LowWordsOnly
<1>3. t \in Wide
  BY <1>1 DEF Reading, Wide, Half
<1>4. CASE h = "lo"
  <2>1. t["lo"] = timer_ctr["lo"] /\ t["hi"] = now["hi"]
    BY <1>1, <1>4 DEF Reading, Wide, Half
  <2> QED BY <1>1, <1>2, <1>3, <2>1
<1>5. CASE h = "hi"
  <2>1. t["lo"] = now["lo"] /\ t["hi"] = timer_ctr["hi"]
    BY <1>1, <1>5 DEF Reading, Wide, Half
  <2>2. "lo" \notin todo
    BY <1>5 DEF Reading
  <2> QED BY <1>2, <1>3, <2>1, <2>2 DEF SleepInv
<1> QED BY <1>4, <1>5 DEF Half

\* usleep returns only after as many ticks as it was asked to wait for.
LEMMA WakesInFirstEpoch ==
  ASSUME FirstEpoch, CallInv, SleepInv, pc = "poll", NEW h \in Half, NEW t, Reading(t, h), Elapsed(t)
  PROVE  hits >= req.usec
<1>1. t \in Wide /\ t["hi"] = 0 /\ t["lo"] <= timer_ctr["lo"]
  BY ReadingInFirstEpoch
<1>2. start_ts \in Wide /\ start_ts["hi"] = 0 /\ start_ts["lo"] <= timer_ctr["lo"] /\ timer_ctr["lo"] <= start_ts["lo"] + hits
      /\ req.usec \in Delay
  BY DEF SleepInv, CallInv, TypeOK
<1>3. start_ts["lo"] \in Nat /\ t["lo"] \in Nat /\ timer_ctr["lo"] \in Nat /\ MaxClock["lo"] \in Nat /\ hits \in Nat
  BY <1>1, <1>2, Halves, PoolAssumption DEF CallInv, TypeOK
<1>4. start_ts["lo"] <= MaxClock["lo"]
  BY <1>2, <1>3 DEF CallInv, LowWordsOnly
<1>5. Plus(start_ts, req.usec)["hi"] = 0 /\ Plus(start_ts, req.usec)["lo"] = start_ts["lo"] + req.usec
  BY <1>2, <1>4, DeadlineInFirstEpoch
<1>6. ~ (t["lo"] < start_ts["lo"] + req.usec)
  BY <1>1, <1>5 DEF Elapsed, Less
<1>7. \A d \in Delay : d \in Nat
  BY PoolAssumption
<1>8. req.usec \in Nat
  BY <1>2, <1>7
<1> QED BY <1>1, <1>2, <1>3, <1>6, <1>8

\* Every step keeps the invariant, and none ends usleep early.
LEMMA SleepStep ==
  ASSUME FirstEpoch, CallInv, SleepInv, [Next]_vars
  PROVE  SleepInv' /\ (pc = "poll" /\ pc' = "idle" => hits >= req.usec)
<1>0. timer_ctr \in Wide /\ timer_ctr["lo"] \in Nat /\ timer_ctr["hi"] = 0 /\ hits \in Nat /\ now["lo"] \in Nat /\ start_ts["lo"] \in Nat
  BY Halves DEF CallInv, TypeOK, LowWordsOnly
<1>1. CASE IrqEnter
  <2>1. timer_ctr' = Plus(timer_ctr, 1) /\ Less(timer_ctr, MaxClock) /\ pc' = pc /\ todo' = todo /\ req' = req
        /\ now' = now /\ start_ts' = start_ts
    BY <1>1 DEF IrqEnter, foreground
  <2>2. timer_ctr["lo"] + 1 < Word
    <3>1. timer_ctr["lo"] < MaxClock["lo"] /\ MaxClock["lo"] \in 0 .. Word - 1
      BY <1>0, <2>1, PoolAssumption DEF Less, FirstEpoch, Wide, Half
    <3> QED BY <1>0, <3>1, PoolAssumption
  <2>3. timer_ctr'["lo"] = timer_ctr["lo"] + 1
    BY <1>0, <2>1, <2>2, PlusInFirstEpoch
  <2>4. pc \in {"start", "poll"} => hits' = hits + 1
    BY <1>1 DEF IrqEnter
  <2> QED BY <1>0, <2>1, <2>3, <2>4 DEF SleepInv
<1>2. CASE IrqSlot
  BY <1>2 DEF IrqSlot, foreground, SleepInv
<1>3. CASE TimerInit
  BY <1>3 DEF TimerInit, shared, SleepInv
<1>4. CASE TimerDeinit
  BY <1>4 DEF TimerDeinit, shared, SleepInv
<1>5. CASE Calls
  <2>1. CASE \E cb \in Callback, usec \in Delay : Timeout(cb, usec)
    BY <2>1 DEF Timeout, shared, SleepInv
  <2>2. CASE \E usec \in Delay : Usleep(usec)
    BY <2>2 DEF Usleep, shared, SleepInv, Half
  <2>3. CASE \E i \in Slot : Cancel(i)
    BY <2>3 DEF Cancel, shared, SleepInv
  <2> QED BY <1>5, <2>1, <2>2, <2>3 DEF Calls
<1>6. CASE Scan
  BY <1>6 DEF Scan, Return, shared, SleepInv, Zero, Half
<1>7. ASSUME NEW h \in Half, LoadHalf(h) PROVE SleepInv' /\ (pc = "poll" /\ pc' = "idle" => hits >= req.usec)
  <2> DEFINE t == [now EXCEPT ![h] = timer_ctr[h]]
  <2>1. timer_ctr' = timer_ctr /\ h \in todo /\ pc \in {"load", "start", "poll"}
    BY <1>7 DEF LoadHalf, shared
  <2>2. CASE todo # {h} /\ now' = t /\ todo' = todo \ {h} /\ UNCHANGED <<pc, idx, req, start_ts, hits>>
    <3>1. h = "lo" => now'["lo"] = timer_ctr["lo"]
      BY <2>2 DEF CallInv, TypeOK, Wide, Half
    <3>2. h = "hi" => now'["lo"] = now["lo"]
      BY <2>2 DEF CallInv, TypeOK, Wide, Half
    <3> HIDE DEF t
    <3> QED BY <1>0, <2>1, <2>2, <3>1, <3>2 DEF SleepInv, Half
  <2>3. CASE todo = {h} /\ AfterLoad(t)
    <3>1. Reading(t, h)
      BY <2>3 DEF Reading
    <3> HIDE DEF t
    <3>2. CASE pc = "load"
      BY <2>3, <3>2 DEF AfterLoad, SleepInv
    <3>3. CASE pc = "start"
      <4>1. t \in Wide /\ t["hi"] = 0 /\ t["lo"] <= timer_ctr["lo"] /\ timer_ctr["lo"] <= t["lo"] + hits
        BY <3>1, <3>3, ReadingInFirstEpoch
      <4>2. pc' = "poll" /\ start_ts' = t /\ todo' = Half /\ req' = req /\ hits' = hits
        BY <2>3, <3>3 DEF AfterLoad
      <4> QED BY <2>1, <3>3, <4>1, <4>2 DEF SleepInv, Half
    <3>4. CASE pc = "poll" /\ ~ Elapsed(t)
      <4>1. todo' = Half /\ UNCHANGED <<pc, req, start_ts, hits>>
        BY <2>3, <3>4 DEF AfterLoad
      <4> QED BY <2>1, <3>4, <4>1 DEF SleepInv, Half
    <3>5. CASE pc = "poll" /\ Elapsed(t)
      <4>1. hits >= req.usec
        BY <3>1, <3>5, WakesInFirstEpoch
      <4>2. pc' = "idle" /\ start_ts' = Zero
        BY <2>3, <3>5 DEF AfterLoad, Return
      <4> QED BY <4>1, <4>2 DEF SleepInv, Zero, Half
    <3> QED BY <2>1, <3>2, <3>3, <3>4, <3>5
  <2> QED BY <1>7, <2>2, <2>3 DEF LoadHalf
<1>8. ASSUME NEW h \in Half, Clear(h) PROVE SleepInv' /\ pc # "poll"
  BY <1>8 DEF Clear, Return, SleepInv, Zero, Half
<1>9. ASSUME NEW w \in Half \union {"cb"}, Store(w) PROVE SleepInv' /\ pc # "poll"
  BY <1>9 DEF Store, Return, SleepInv, Zero, Half
<1>10. CASE UNCHANGED vars
  BY <1>10 DEF vars, foreground, SleepInv
<1> QED
  BY <1>1, <1>2, <1>3, <1>4, <1>5, <1>6, <1>7, <1>8, <1>9, <1>10 DEF Next, Irq, Continue

(* usleep waits for as many ticks as its time takes, rounded up              *)
(* (timer.c:98-106), although ticks come between the halves of its readings: *)
(* for the first 71 minutes.                                                 *)
THEOREM SleepsInFirstEpoch == ASSUME FirstEpoch PROVE Spec => SleepsItsTicks
<1>1. Init => CallInv /\ SleepInv
  <2>1. Init => SleepInv
    BY DEF Init, SleepInv, Zero, Half
  <2> QED BY <2>1, CallInvInit
<1>2. CallInv /\ SleepInv /\ [Next]_vars => CallInv' /\ SleepInv'
  BY CallInvStep, SleepStep
<1>3. CallInv /\ SleepInv /\ [Next]_vars => [pc = "poll" /\ pc' = "idle" => hits >= req.usec]_vars
  BY SleepStep
<1> QED
  BY <1>1, <1>2, <1>3, PTL DEF Spec, SleepsItsTicks
--------------------------------------------------------------------------------
(* The pool keeps the promise of OneShotTimers. *)

Since == timer_ctr["lo"] - hits

\* What the slot being filled holds: as long as nobody else used it, what was stored so far and nothing else;
\* otherwise a deadline from a reading of the clock during the call, and a callback somebody stored during it.
FillInv ==
  /\ others \subseteq Callback \union {NoCb}
  /\ ~ Arming => others = {}
  /\ Arming => hits <= timer_ctr["lo"]
  /\ pc = "load" /\ others = {} => timeout_ctr[idx] = Zero
  /\ pc = "store" /\ others = {} =>
       /\ timeout_ctr[idx]["lo"] = IF "lo" \in todo THEN 0 ELSE now["lo"] + req.usec
       /\ "cb" \notin todo => timeout_cb[idx] = req.cb
  /\ Arming /\ others # {} /\ timeout_ctr[idx] # Zero =>
       \E read \in Since .. timer_ctr["lo"], usec \in Delay : timeout_ctr[idx]["lo"] = read + usec
  /\ pc = "store" /\ "cb" \notin todo => timeout_cb[idx] \in (others \ {NoCb}) \union {req.cb}

\* The handler leaves no timer overdue behind it.
Swept == \A i \in Slot : irq \in Slot /\ i < irq => ~ Expired(i)

\* The handler runs only after timer_init and a tick.
Ticked == irq # Outside => pc # "boot" /\ timer_ctr["lo"] # 0

PromiseInv == CallInv /\ FillInv /\ Swept /\ Ticked

\* A step of the program or of the interrupt from a state of the invariant.
PromiseStep == FirstEpoch /\ PromiseInv /\ PromiseNext

(* The numbers of an arming call.                                            *)
LEMMA ArmingNumbers ==
  ASSUME PromiseInv
  PROVE  /\ timer_ctr["lo"] \in Nat /\ hits \in Nat /\ now["lo"] \in Nat
         /\ \A d \in Delay : d \in Nat
         /\ Arming => idx \in Slot /\ req.cb \in Callback /\ req.usec \in Delay /\ Since \in Nat
         /\ pc = "store" => now["lo"] \in Since .. timer_ctr["lo"]
<1>1. timer_ctr["lo"] \in Nat /\ hits \in Nat /\ now["lo"] \in Nat
  BY Halves DEF PromiseInv, CallInv, TypeOK
<1>2. \A d \in Delay : d \in Nat
  BY PoolAssumption
<1>3. Arming => idx \in Slot /\ req.cb \in Callback /\ req.usec \in Delay
  BY DEF Arming, PromiseInv, CallInv, ArmingOK
<1>4. Arming => Since \in Nat
  BY <1>1 DEF PromiseInv, FillInv, Since
<1>5. pc = "store" => now["lo"] \in Since .. timer_ctr["lo"]
  BY <1>1 DEF PromiseInv, CallInv, ReadingIsRecent, Since
<1> QED
  BY <1>1, <1>2, <1>3, <1>4, <1>5

(* Whatever the slot being filled holds was read from the clock during the   *)
(* call.                                                                     *)
LEMMA FillingIsRecent ==
  ASSUME PromiseInv, Arming, timeout_ctr[idx] # Zero
  PROVE  \E read \in Since .. timer_ctr["lo"], usec \in Delay : timeout_ctr[idx]["lo"] = read + usec
<1>1. CASE others # {}
  BY <1>1 DEF PromiseInv, FillInv
<1>2. CASE others = {}
  <2>1. pc = "store"
    BY <1>2 DEF Arming, PromiseInv, FillInv
  <2>2. timeout_ctr[idx] \in Wide /\ timeout_ctr[idx]["hi"] = 0
    BY ArmingNumbers DEF PromiseInv, CallInv, TypeOK, LowWordsOnly
  <2>3. timeout_ctr[idx]["lo"] # 0
    BY <2>2, Halves
  <2>4. timeout_ctr[idx]["lo"] = now["lo"] + req.usec
    BY <1>2, <2>1, <2>3 DEF PromiseInv, FillInv
  <2> QED
    BY <2>1, <2>4, ArmingNumbers
<1> QED
  BY <1>1, <1>2

\* An overdue slot that is being filled: the call is late, or somebody else used the slot.
LEMMA LateFilling ==
  ASSUME PromiseInv, Arming, Expired(idx), others = {}
  PROVE  Since + req.usec < timer_ctr["lo"]
<1>1. timeout_ctr[idx] \in Wide /\ timeout_ctr[idx] # Zero
      /\ timeout_ctr[idx]["lo"] # 0 /\ timeout_ctr[idx]["lo"] < timer_ctr["lo"]
  <2>1. timeout_ctr[idx] \in Wide /\ timeout_ctr[idx]["hi"] = 0 /\ timer_ctr["hi"] = 0
    BY ArmingNumbers DEF PromiseInv, CallInv, TypeOK, LowWordsOnly
  <2> QED
    BY <2>1, Halves DEF Expired, Less
<1>2. pc = "store" /\ timeout_ctr[idx]["lo"] = now["lo"] + req.usec
  BY <1>1 DEF Arming, PromiseInv, FillInv
<1> QED
  BY <1>1, <1>2, ArmingNumbers

(* Zero is the timer that is free.                                           *)
LEMMA FreeIsFree == Promise!Free = [cb |-> NoCb, due |-> 0] /\ Promise!NoCb = NoCb /\ Promise!None = -1
  BY DEF Promise!Free, Promise!Armed, Promise!NoCb, Promise!None, NoCb

\* The tick up to which a deadline counts as not yet due.
Seen == IF irq = Outside THEN timer_ctr["lo"] ELSE timer_ctr["lo"] - 1

LEMMA PendingIs ==
  ASSUME NEW i \in Slot
  PROVE  Pending[i] = IF timeout_ctr[i] = Zero \/ (Arming /\ idx = i) THEN Promise!Free
                      ELSE [cb |-> timeout_cb[i],
                            due |-> IF timeout_ctr[i]["lo"] < Seen THEN Seen ELSE timeout_ctr[i]["lo"]]
  BY FreeIsFree DEF Pending, Seen

LEMMA PendingType == DOMAIN Pending = Slot /\ Pending = [i \in Slot |-> Pending[i]]
  BY DEF Pending

\* What the claim is, in words of the pool.
LEMMA ClaimedIs ==
  /\ Arming => Claimed = [slot |-> idx, cb |-> req.cb, usec |-> req.usec, since |-> Since, others |-> others]
  /\ ~ Arming => Claimed = Promise!NoClaim
  BY FreeIsFree DEF Claimed, Since, Promise!NoClaim

LEMMA PromiseCallStep ==
  ASSUME PromiseStep
  PROVE  CallInv' /\ [Next]_vars
  BY CallInvStep DEF PromiseStep, PromiseInv, PromiseNext

(* A tick finds no timer overdue, and leaves all pending ones pending. *)
LEMMA TickStep == ASSUME PromiseStep, IrqEnter
                  PROVE  FillInv' /\ Swept' /\ Ticked' /\ Promise!Next
<1>0. FirstEpoch /\ PromiseInv /\ PromiseNext
  BY DEF PromiseStep
<1>1. UNCHANGED <<timeout_ctr, timeout_cb, pc, idx, req, now, todo, called>> /\ irq' = 0 /\ irq = Outside
  BY DEF IrqEnter, foreground
<1>2. irq \notin Slot /\ Arming' = Arming
  BY <1>1, PoolAssumption DEF Slot, Outside, Arming
<1>3. others' = others
  BY <1>0, <1>2 DEF PromiseNext, PromiseInv, FillInv
<1>4. timer_ctr'["lo"] = timer_ctr["lo"] + 1
  <2>1. timer_ctr["lo"] < MaxClock["lo"]
    BY <1>0 DEF IrqEnter, Less, FirstEpoch, PromiseInv, CallInv, LowWordsOnly
  <2>2. timer_ctr["lo"] \in Nat /\ MaxClock["lo"] \in 0 .. Word - 1 /\ Word \in Nat
    BY <1>0, Halves, PoolAssumption DEF PromiseInv, CallInv, TypeOK, Wide, Half
  <2>3. timer_ctr["lo"] + 1 < Word
    BY <2>1, <2>2
  <2> QED
    BY <1>0, <2>3, PlusInFirstEpoch, 1 \in Nat DEF IrqEnter, PromiseInv, CallInv, TypeOK, LowWordsOnly
<1>5. Arming => hits' = hits + 1 /\ Since' = Since
  <2>1. Arming => hits' = hits + 1
    BY DEF IrqEnter, Arming
  <2> QED
    BY <1>0, <1>4, <2>1, ArmingNumbers DEF Since
<1>6. FillInv'
  <2>1. \A k \in Since .. timer_ctr["lo"] : k \in Since .. timer_ctr'["lo"]
    BY <1>0, <1>4, ArmingNumbers DEF Since
  <2>2. Arming => hits' <= timer_ctr'["lo"]
    BY <1>0, <1>4, <1>5, ArmingNumbers DEF PromiseInv, FillInv
  <2> QED
    BY <1>0, <1>1, <1>2, <1>3, <1>5, <2>1, <2>2 DEF PromiseInv, FillInv
<1>7. Swept'
  BY <1>1, PoolAssumption DEF Swept, Slot
<1>8. Seen' = Seen
  BY <1>0, <1>1, <1>4, ArmingNumbers, PoolAssumption DEF Seen, Outside
<1>9. Pending' = Pending
  <2>1. \A i \in Slot : Pending'[i] = Pending[i]
    BY <1>1, <1>2, <1>8, FreeIsFree DEF Pending, Seen
  <2>2. DOMAIN Pending = Slot /\ DOMAIN Pending' = Slot
    BY DEF Pending
  <2> QED
    BY <2>1 DEF Pending
<1>10. Claimed' = Claimed
  BY <1>1, <1>2, <1>3, <1>5 DEF Claimed, Since
<1>11. ASSUME NEW i \in Slot, Pending[i] # Promise!Free
       PROVE  timer_ctr["lo"] <= Pending[i].due
  <2>1. Pending[i].due = IF timeout_ctr[i]["lo"] < Seen THEN Seen ELSE timeout_ctr[i]["lo"]
    <3> DEFINE due == IF timeout_ctr[i]["lo"] < Seen THEN Seen ELSE timeout_ctr[i]["lo"]
    <3>1. Pending[i] = [cb |-> timeout_cb[i], due |-> due]
      BY <1>11, PendingIs
    <3> HIDE DEF due
    <3>2. Pending[i].due = due
      BY <3>1
    <3> QED
      BY <3>2 DEF due
  <2>2. Seen = timer_ctr["lo"] /\ timeout_ctr[i]["lo"] \in Nat
    BY <1>0, <1>1, Halves DEF Seen, PromiseInv, CallInv, TypeOK
  <2> QED
    BY <1>0, <2>1, <2>2, ArmingNumbers
<1>12. Ticked'
  BY <1>0, <1>1, <1>4, ArmingNumbers DEF Ticked, IrqEnter
<1>13. Promise!Tick
  BY <1>1, <1>4, <1>9, <1>10, <1>11 DEF Promise!Tick
<1> QED
  BY <1>6, <1>7, <1>12, <1>13 DEF Promise!Next


(* What a round of the handler leaves as it is.                              *)
LEMMA RoundKeeps ==
  ASSUME PromiseStep, IrqSlot
  PROVE  /\ UNCHANGED <<timer_ctr, foreground, hits>> /\ irq \in Slot /\ irq # Outside
         /\ irq' \in {irq + 1, Stuck}
         /\ irq' = Outside => irq + 1 = NSlots
         /\ Arming' = Arming /\ Since' = Since
         /\ others' = IF Arming THEN others \union Stored ELSE {}
<1>1. UNCHANGED <<timer_ctr, foreground, hits>> /\ irq \in Slot /\ irq' \in {irq + 1, Stuck}
  BY DEF IrqSlot, RunCallback
<1>2. irq # Outside /\ (irq' = Outside => irq + 1 = NSlots)
  BY <1>1, PoolAssumption DEF Slot, Outside, Stuck
<1>3. Arming' = Arming /\ Since' = Since
  BY <1>1 DEF Arming, Since, foreground
<1>4. others' = IF Arming THEN others \union Stored ELSE {}
  BY <1>1, <1>3 DEF PromiseStep, PromiseNext
<1> QED
  BY <1>1, <1>2, <1>3, <1>4

(* A timer that a round of the handler leaves alone is pending as before.    *)
LEMMA RoundLeaves ==
  ASSUME PromiseStep, IrqSlot, NEW i \in Slot,
         timeout_ctr'[i] = timeout_ctr[i], timeout_cb'[i] = timeout_cb[i],
         i = irq => ~ Expired(i)
  PROVE  Pending'[i] = Pending[i]
<1>0. FirstEpoch /\ PromiseInv /\ PromiseNext
  BY DEF PromiseStep
<1>1. /\ UNCHANGED <<timer_ctr, foreground, hits>> /\ irq \in Slot /\ irq # Outside
      /\ irq' = Outside => irq + 1 = NSlots
      /\ Arming' = Arming /\ idx' = idx
  BY RoundKeeps DEF foreground
<1>2. timer_ctr["lo"] \in Nat /\ timeout_ctr[i]["lo"] \in Nat
  BY <1>0, Halves DEF PromiseInv, CallInv, TypeOK
<1>3. CASE irq' # Outside
  <2>1. Seen' = Seen
    BY <1>1, <1>3 DEF Seen
  <2> QED
    BY <1>1, <2>1, FreeIsFree DEF Pending, Seen
<1>4. CASE timeout_ctr[i] = Zero
  BY <1>1, <1>4 DEF Pending
<1>5. CASE irq' = Outside /\ timeout_ctr[i] # Zero
  <2>1. i <= irq
    BY <1>1, <1>5, PoolAssumption DEF Slot
  <2>2. ~ Expired(i)
    <3>1. CASE i = irq
      BY <3>1
    <3>2. CASE i # irq
      <4>1. i < irq
        BY <1>1, <2>1, <3>2, PoolAssumption DEF Slot
      <4> QED
        BY <1>0, <1>1, <4>1 DEF PromiseInv, Swept
    <3> QED
      BY <3>1, <3>2
  <2>3. ~ (timeout_ctr[i]["lo"] < timer_ctr["lo"])
    BY <1>0, <1>5, <2>2 DEF Expired, Less, PromiseInv, CallInv, LowWordsOnly
  <2>4. /\ ~ (timeout_ctr[i]["lo"] < timer_ctr["lo"] - 1)
        /\ ~ (timeout_ctr'[i]["lo"] < timer_ctr'["lo"])
    BY <1>1, <1>2, <2>3
  <2> QED
    BY <1>1, <1>5, <2>4 DEF Pending
<1> QED
  BY <1>3, <1>4, <1>5

\* What the slot being filled holds after a round of the handler, when what is left in it was there or is new.
LEMMA RoundFills ==
  ASSUME PromiseStep, IrqSlot,
         \A i \in Slot :
           \/ timeout_ctr'[i] = timeout_ctr[i] /\ timeout_cb'[i] = timeout_cb[i]
           \/ timeout_ctr'[i] = Zero /\ timeout_cb'[i] = timeout_cb[i]
           \/ \E usec \in Delay :
                /\ timeout_ctr'[i]["lo"] = timer_ctr["lo"] + usec
                /\ timeout_ctr'[i] # Zero
                /\ timeout_cb'[i] \in Callback
  PROVE  FillInv'
<1>0. FirstEpoch /\ PromiseInv /\ PromiseNext
  BY DEF PromiseStep
<1>1. /\ UNCHANGED <<timer_ctr, pc, idx, req, now, todo, hits>>
      /\ Arming' = Arming /\ Since' = Since
      /\ others' = IF Arming THEN others \union Stored ELSE {}
  BY RoundKeeps DEF foreground
<1>2. CASE ~ Arming
  BY <1>1, <1>2 DEF FillInv, Arming
<1>3. CASE Arming
  <2>1. /\ idx \in Slot /\ req.cb \in Callback /\ req.usec \in Delay /\ Since \in Nat
        /\ timer_ctr["lo"] \in Nat /\ hits \in Nat
    BY <1>0, <1>3, ArmingNumbers
  <2>2. timer_ctr["lo"] \in Since .. timer_ctr["lo"]
    BY <2>1 DEF Since
  <2> DEFINE same == timeout_ctr'[idx] = timeout_ctr[idx] /\ timeout_cb'[idx] = timeout_cb[idx]
  <2>3. CASE same
    <3>1. others \subseteq others' /\ others' \subseteq Callback \union {NoCb}
      BY <1>0, <1>1, <1>3, <2>3 DEF Stored, PromiseInv, FillInv
    <3>2. others' # {} /\ timeout_ctr'[idx'] # Zero =>
            \E read \in Since .. timer_ctr["lo"], usec \in Delay : timeout_ctr[idx]["lo"] = read + usec
      BY <1>0, <1>1, <1>3, <2>3, FillingIsRecent
    <3>3. others' = {} => others = {}
      BY <3>1
    <3>4. pc' = "load" /\ others' = {} => timeout_ctr'[idx'] = Zero
      BY <1>0, <1>1, <2>3, <3>3 DEF PromiseInv, FillInv
    <3>5. pc' = "store" /\ others' = {} =>
            /\ timeout_ctr'[idx']["lo"] = IF "lo" \in todo' THEN 0 ELSE now'["lo"] + req'.usec
            /\ "cb" \notin todo' => timeout_cb'[idx'] = req'.cb
      BY <1>0, <1>1, <2>3, <3>3 DEF PromiseInv, FillInv
    <3>6. pc' = "store" /\ "cb" \notin todo' => timeout_cb'[idx'] \in (others' \ {NoCb}) \union {req'.cb}
      <4>1. pc = "store" /\ "cb" \notin todo => timeout_cb[idx] \in (others \ {NoCb}) \union {req.cb}
        BY <1>0 DEF PromiseInv, FillInv
      <4> QED
        BY <1>1, <2>3, <3>1, <4>1
    <3>7. Arming' => hits' <= timer_ctr'["lo"]
      BY <1>0, <1>1 DEF PromiseInv, FillInv
    <3> QED
      BY <1>1, <1>3, <2>3, <3>1, <3>2, <3>4, <3>5, <3>6, <3>7 DEF FillInv
  <2>4. CASE ~ same
    <3> DEFINE what == IF timeout_ctr'[idx] = Zero THEN NoCb ELSE timeout_cb'[idx]
    <3>1. what \in others' /\ others' \subseteq others \union {NoCb, what}
      BY <1>1, <1>3, <2>4 DEF Stored
    <3>2. \/ timeout_ctr'[idx] = Zero /\ timeout_cb'[idx] = timeout_cb[idx] /\ what = NoCb
          \/ /\ \E usec \in Delay : timeout_ctr'[idx]["lo"] = timer_ctr["lo"] + usec
             /\ timeout_ctr'[idx] # Zero
             /\ timeout_cb'[idx] \in Callback
             /\ what = timeout_cb'[idx]
      BY <2>1, <2>4
    <3> HIDE DEF what
    <3>3. others \subseteq others' /\ others' # {} /\ others' \subseteq Callback \union {NoCb}
      BY <1>0, <1>1, <1>3, <3>1, <3>2 DEF PromiseInv, FillInv
    <3>4. timeout_ctr'[idx'] # Zero =>
            \E read \in Since .. timer_ctr["lo"], usec \in Delay : timeout_ctr'[idx]["lo"] = read + usec
      BY <1>1, <2>2, <3>2
    <3>5. pc' = "store" /\ "cb" \notin todo' => timeout_cb'[idx'] \in (others' \ {NoCb}) \union {req'.cb}
      <4>1. pc = "store" /\ "cb" \notin todo => timeout_cb[idx] \in (others \ {NoCb}) \union {req.cb}
        BY <1>0 DEF PromiseInv, FillInv
      <4>2. NoCb \notin Callback
        BY PoolAssumption
      <4> QED
        BY <1>1, <3>1, <3>2, <3>3, <4>1, <4>2
    <3>6. Arming' => hits' <= timer_ctr'["lo"]
      BY <1>0, <1>1 DEF PromiseInv, FillInv
    <3> QED
      BY <1>1, <1>3, <3>3, <3>4, <3>5, <3>6 DEF FillInv
  <2> QED
    BY <2>3, <2>4
<1> QED
  BY <1>2, <1>3

\* A round after which no timer up to the one it examined is overdue.
LEMMA RoundSweeps ==
  ASSUME PromiseStep, IrqSlot,
         \A i \in Slot :
           \/ timeout_ctr'[i] = timeout_ctr[i] /\ (i = irq => ~ Expired(i))
           \/ timeout_ctr'[i] = Zero
           \/ timeout_ctr'[i]["lo"] >= timer_ctr["lo"]
  PROVE  Swept'
<1>0. FirstEpoch /\ PromiseInv /\ PromiseNext
  BY DEF PromiseStep
<1>1. timer_ctr' = timer_ctr /\ irq \in Slot /\ irq' \in {irq + 1, Stuck}
  BY RoundKeeps
<1> SUFFICES ASSUME NEW i \in Slot, irq' \in Slot, i < irq' PROVE ~ Expired(i)'
  BY DEF Swept
<1>2. i <= irq
  BY <1>1, PoolAssumption DEF Slot, Stuck
<1>3. CASE timeout_ctr'[i] = timeout_ctr[i] /\ (i = irq => ~ Expired(i))
  <2>1. i < irq \/ i = irq
    BY <1>1, <1>2, PoolAssumption DEF Slot
  <2>2. ~ Expired(i)
    BY <1>0, <1>1, <1>3, <2>1 DEF PromiseInv, Swept
  <2> QED
    BY <1>1, <1>3, <2>2 DEF Expired
<1>4. CASE timeout_ctr'[i] = Zero
  BY <1>4 DEF Expired
<1>5. CASE timeout_ctr'[i]["lo"] >= timer_ctr["lo"]
  <2>1. CallInv'
    BY PromiseCallStep
  <2>2. timeout_ctr'[i]["lo"] \in Nat /\ timer_ctr["lo"] \in Nat
    BY <1>0, <2>1, Halves DEF PromiseInv, CallInv, TypeOK
  <2> QED
    BY <1>0, <1>1, <1>5, <2>1, <2>2 DEF Expired, Less, PromiseInv, CallInv, LowWordsOnly
<1> QED
  BY <1>3, <1>4, <1>5

(* The pool as Promise sees it, others being what callbacks did to the slot   *)
(* being filled.                                                              *)
ClaimWith(o) ==
  IF Arming
  THEN [slot |-> idx, cb |-> req.cb, usec |-> req.usec, since |-> Since, others |-> o]
  ELSE Promise!NoClaim
Pool(tm, o) == [timer |-> tm, claim |-> ClaimWith(o)]

LEMMA PoolIs == Promise!pool = Pool(Pending, others)
  BY ClaimedIs DEF Promise!pool, Pool, ClaimWith

\* Using the slot being filled is remembered.
LEMMA UseOfClaimed ==
  ASSUME NEW tm, NEW o, NEW cb, NEW due, Arming
  PROVE  Promise!Use(Pool(tm, o), idx, Promise!Armed(cb, due)) = Pool(tm, o \union {cb})
<1> DEFINE p == Pool(tm, o)
           e == Promise!Armed(cb, due)
<1>1. e.cb = cb
  BY DEF Promise!Armed
<1>2. p.timer = tm /\ p.claim = ClaimWith(o)
  BY DEF Pool
<1>3. ClaimWith(o) = [slot |-> idx, cb |-> req.cb, usec |-> req.usec, since |-> Since, others |-> o]
  BY DEF ClaimWith
<1>4. p.claim.slot = idx
  BY <1>2, <1>3
<1>5. [p.claim EXCEPT !.others = @ \union {cb}] = ClaimWith(o \union {cb})
  BY <1>2, <1>3 DEF ClaimWith
<1> HIDE DEF e, p
<1>6. Promise!Use(p, idx, e) = Pool(tm, o \union {cb})
  BY <1>1, <1>2, <1>4, <1>5 DEF Promise!Use, Pool
<1> QED
  BY <1>6 DEF e, p

\* Using any other timer changes it.
LEMMA UseOfOther ==
  ASSUME NEW tm, NEW o, NEW i \in Slot, NEW e, ~ (Arming /\ i = idx)
  PROVE  Promise!Use(Pool(tm, o), i, e) = Pool([tm EXCEPT ![i] = e], o)
<1> DEFINE p == Pool(tm, o)
<1>1. p.timer = tm /\ p.claim = ClaimWith(o)
  BY DEF Pool
<1>2. p.claim.slot # i
  <2>1. CASE Arming
    <3>1. ClaimWith(o) = [slot |-> idx, cb |-> req.cb, usec |-> req.usec, since |-> Since, others |-> o]
      BY <2>1 DEF ClaimWith
    <3> HIDE DEF p
    <3> QED
      BY <1>1, <2>1, <3>1
  <2>2. CASE ~ Arming
    <3>1. ClaimWith(o).slot = -1
      BY <2>2, FreeIsFree DEF ClaimWith, Promise!NoClaim
    <3>2. i # -1
      BY PoolAssumption DEF Slot
    <3> HIDE DEF p
    <3> QED
      BY <1>1, <3>1, <3>2
  <2> QED
    BY <2>1, <2>2
<1> HIDE DEF p
<1>3. Promise!Use(p, i, e) = Pool([tm EXCEPT ![i] = e], o)
  BY <1>1, <1>2 DEF Promise!Use, Pool
<1> QED
  BY <1>3 DEF p

\* What is pending once the timers irq and h were given up.
Left(h) ==
  [i \in Slot |-> IF i = irq \/ i = h \/ timeout_ctr[i] = Zero \/ (Arming /\ idx = i)
                  THEN Promise!Free ELSE Pending[i]]

LEMMA FreedIs ==
  ASSUME NEW tm, NEW o, NEW g \in Slot \union {Promise!None}
  PROVE  Promise!Freed(Pool(tm, o), g) =
           IF g = Promise!None THEN Pool(tm, o)
           ELSE IF Arming /\ g = idx THEN Pool(tm, o \union {NoCb})
           ELSE Pool([tm EXCEPT ![g] = Promise!Free], o)
<1>1. Promise!NoCb = NoCb
  BY FreeIsFree
<1>2. CASE g = Promise!None
  BY <1>2 DEF Promise!Freed
<1>3. CASE g # Promise!None
  <2>1. g \in Slot
    BY <1>3
  <2>2. CASE Arming /\ g = idx
    <3>1. Promise!Use(Pool(tm, o), g, Promise!Free) = Pool(tm, o \union {NoCb})
      BY <1>1, <2>2, UseOfClaimed DEF Promise!Free
    <3> QED
      BY <1>3, <2>2, <3>1 DEF Promise!Freed
  <2>3. CASE ~ (Arming /\ g = idx)
    <3>1. Promise!Use(Pool(tm, o), g, Promise!Free) = Pool([tm EXCEPT ![g] = Promise!Free], o)
      BY <2>1, <2>3, UseOfOther
    <3> QED
      BY <1>3, <2>3, <3>1 DEF Promise!Freed
  <2> QED
    BY <2>2, <2>3
<1> QED
  BY <1>2, <1>3

\* Giving up the timer that runs and, if g is not None, the timer g.
LEMMA LeftIs ==
  ASSUME irq \in Slot, NEW h \in Slot \union {Outside}, NEW g \in Slot \union {Promise!None},
         h \in Slot => g = h \/ (g = Promise!None /\ Arming /\ h = idx),
         h = Outside => g = Promise!None, Arming => idx \in Slot
  PROVE  Promise!Freed(Promise!Freed(Promise!pool, irq), g) =
           Pool(Left(h), IF Arming /\ idx \in {irq, g} THEN others \union {NoCb} ELSE others)
<1>0. Promise!None = -1 /\ -1 \notin Slot /\ Outside \notin Slot
  BY PoolAssumption, FreeIsFree DEF Slot, Outside
<1> DEFINE tm == IF Arming /\ irq = idx THEN Pending ELSE [Pending EXCEPT ![irq] = Promise!Free]
           o == IF Arming /\ irq = idx THEN others \union {NoCb} ELSE others
           tm2 == IF g = Promise!None \/ (Arming /\ g = idx) THEN tm ELSE [tm EXCEPT ![g] = Promise!Free]
           o2 == IF g # Promise!None /\ Arming /\ g = idx THEN o \union {NoCb} ELSE o
<1>1. Promise!Freed(Promise!pool, irq) = Pool(tm, o)
  BY <1>0, PoolIs, FreedIs
<1>2. Promise!Freed(Pool(tm, o), g) = Pool(tm2, o2)
  <2> HIDE DEF tm, o
  <2> QED
    BY FreedIs
<1>3. o2 = IF Arming /\ idx \in {irq, g} THEN others \union {NoCb} ELSE others
  <2>1. CASE Arming /\ idx = irq
    <3>1. o = others \union {NoCb}
      BY <2>1
    <3> HIDE DEF o
    <3> QED
      BY <2>1, <3>1
  <2>2. CASE ~ (Arming /\ idx = irq)
    <3>1. o = others
      BY <2>2
    <3>2. Arming => idx # Promise!None
      BY <1>0
    <3> HIDE DEF o
    <3> QED
      BY <2>2, <3>1, <3>2
  <2> QED
    BY <2>1, <2>2
<1>4. tm2 = Left(h)
  <2>1. DOMAIN Pending = Slot /\ Pending = [i \in Slot |-> Pending[i]]
    BY PendingType
  <2>2. tm = [i \in Slot |-> IF i = irq /\ ~ (Arming /\ irq = idx) THEN Promise!Free ELSE Pending[i]]
    BY <2>1
  <2>3. tm2 = [i \in Slot |-> IF i = g /\ ~ (Arming /\ g = idx) THEN Promise!Free ELSE tm[i]]
    <3> HIDE DEF tm
    <3> QED
      BY <1>0, <2>2
  <2>4. \A i \in Slot : timeout_ctr[i] = Zero \/ (Arming /\ idx = i) => Pending[i] = Promise!Free
    BY PendingIs
  <2>5. ASSUME NEW i \in Slot
        PROVE  tm2[i] = Left(h)[i]
    <3>1. tm2[i] = IF i = g /\ ~ (Arming /\ g = idx) THEN Promise!Free
                   ELSE IF i = irq /\ ~ (Arming /\ irq = idx) THEN Promise!Free ELSE Pending[i]
      <4> HIDE DEF tm2, tm
      <4> QED
        BY <2>2, <2>3
    <3> HIDE DEF tm2, tm
    <3> QED
      BY <1>0, <2>4, <3>1 DEF Left
  <2>6. tm2 = [i \in Slot |-> tm2[i]]
    <3> HIDE DEF tm
    <3> QED
      BY <2>3
  <2> HIDE DEF tm2
  <2> QED
    BY <2>5, <2>6 DEF Left
<1> HIDE DEF tm, o, tm2, o2
<1> QED
  BY <1>1, <1>2, <1>3, <1>4

\* What a round leaves pending of the timers it did not arm, when it gave up timer h.
LEMMA RoundLeft ==
  ASSUME PromiseStep, IrqSlot, Expired(irq), NEW h, NEW i \in Slot,
         timeout_ctr'[i] = IF i = irq \/ i = h THEN Zero ELSE timeout_ctr[i],
         timeout_cb'[i] = timeout_cb[i]
  PROVE  Pending'[i] = Left(h)[i]
<1>1. Arming' = Arming /\ idx' = idx
  BY RoundKeeps DEF foreground
<1>2. CASE i = irq \/ i = h
  <2>1. Left(h)[i] = Promise!Free
    BY <1>2 DEF Left
  <2>2. timeout_ctr'[i] = Zero
    BY <1>2
  <2> QED
    BY <2>1, <2>2, FreeIsFree DEF Pending
<1>3. CASE ~ (i = irq \/ i = h)
  <2>1. Pending'[i] = Pending[i]
    BY <1>3, RoundLeaves
  <2>2. timeout_ctr[i] = Zero \/ (Arming /\ idx = i) => Pending[i] = Promise!Free
    BY PendingIs
  <2> QED
    BY <1>3, <2>1, <2>2 DEF Left
<1> QED
  BY <1>2, <1>3

\* The claim after a round.
LEMMA RoundClaim ==
  ASSUME PromiseStep, IrqSlot
  PROVE  Claimed' = ClaimWith(IF Arming THEN others \union Stored ELSE {})
<1>1. /\ UNCHANGED <<timer_ctr, pc, idx, req, hits>>
      /\ Arming' = Arming /\ Since' = Since
      /\ others' = IF Arming THEN others \union Stored ELSE {}
  BY RoundKeeps DEF foreground
<1>2. CASE Arming
  BY <1>1, <1>2 DEF Claimed, ClaimWith, Since
<1>3. CASE ~ Arming
  BY <1>1, <1>3, FreeIsFree DEF Claimed, ClaimWith, Promise!NoClaim
<1> QED
  BY <1>2, <1>3

\* What a round that ends in the pool tm, and for the slot being filled in o, amounts to.
LEMMA RoundBecomes ==
  ASSUME PromiseStep, IrqSlot, NEW tm, NEW o, tm = [i \in Slot |-> tm[i]],
         \A i \in Slot : Pending'[i] = tm[i],
         Arming => others \union Stored = o
  PROVE  Promise!Becomes(Pool(tm, o))
<1>1. Pending' = tm
  <2>1. Pending' = [i \in Slot |-> Pending'[i]]
    BY DEF Pending
  <2> QED
    BY <2>1
<1>2. Claimed' = ClaimWith(o)
  <2>1. CASE Arming
    BY <2>1, RoundClaim
  <2>2. CASE ~ Arming
    BY <2>2, RoundClaim DEF ClaimWith
  <2> QED
    BY <2>1, <2>2
<1> QED
  BY <1>1, <1>2 DEF Promise!Becomes, Pool

\* The callback that runs is that of an overdue timer.
LEMMA RoundRuns ==
  ASSUME PromiseStep, IrqSlot, Expired(irq)
  PROVE  Promise!Runs(irq, timeout_cb[irq])
<1>0. FirstEpoch /\ PromiseInv
  BY DEF PromiseStep
<1>1. called' = [cb |-> timeout_cb[irq], slot |-> irq] /\ timer_ctr' = timer_ctr /\ irq \in Slot /\ irq # Outside
  BY RoundKeeps DEF IrqSlot
<1>2. /\ timeout_ctr[irq] # Zero /\ timeout_ctr[irq]["lo"] < timer_ctr["lo"]
      /\ timeout_ctr[irq]["lo"] \in Nat /\ timer_ctr["lo"] \in Nat
  BY <1>0, <1>1, Halves DEF Expired, Less, PromiseInv, CallInv, TypeOK, LowWordsOnly
<1>3. CASE Arming /\ idx = irq
  <2>1. Claimed = [slot |-> idx, cb |-> req.cb, usec |-> req.usec, since |-> Since, others |-> others]
    BY <1>3, ClaimedIs
  <2>2. others # {} \/ Since + req.usec < timer_ctr["lo"]
    BY <1>0, <1>3, LateFilling
  <2>3. /\ Claimed.slot = irq /\ Claimed.others = others
        /\ Claimed.since = Since /\ Claimed.usec = req.usec
    BY <1>3, <2>1
  <2> QED
    BY <1>1, <2>2, <2>3 DEF Promise!Runs, Promise!Overdue
<1>4. CASE ~ (Arming /\ idx = irq)
  <2>1. Claimed.slot # irq
    <3>1. CASE Arming
      BY <1>4, <3>1, ClaimedIs
    <3>2. CASE ~ Arming
      <4>1. Claimed.slot = -1
        BY <3>2, FreeIsFree, ClaimedIs DEF Promise!NoClaim
      <4> QED
        BY <1>1, <4>1, PoolAssumption DEF Slot
    <3> QED
      BY <3>1, <3>2
  <2> DEFINE due == IF timeout_ctr[irq]["lo"] < Seen THEN Seen ELSE timeout_ctr[irq]["lo"]
  <2>2. Pending[irq] = [cb |-> timeout_cb[irq], due |-> due]
    BY <1>1, <1>2, <1>4, PendingIs
  <2>3. due < timer_ctr["lo"]
    BY <1>1, <1>2 DEF Seen
  <2>4. Pending[irq] # Promise!Free
    <3>1. timeout_ctr[irq]["lo"] # 0
      BY <1>0, <1>1, <1>2, Halves DEF PromiseInv, CallInv, TypeOK, LowWordsOnly
    <3>2. due # 0
      BY <1>1, <1>2, <3>1 DEF Seen
    <3> HIDE DEF due
    <3> QED
      BY <2>2, <3>2, FreeIsFree
  <2> HIDE DEF due
  <2>5. Pending[irq].due < timer_ctr["lo"] /\ Pending[irq].cb = timeout_cb[irq]
    BY <2>2, <2>3
  <2> QED
    BY <1>1, <2>1, <2>4, <2>5 DEF Promise!Runs, Promise!Overdue
<1> QED
  BY <1>3, <1>4

\* A deadline that a callback stores.
LEMMA NewDeadline ==
  ASSUME PromiseStep, IrqSlot, NEW usec \in Delay
  PROVE  /\ Plus(timer_ctr, usec)["lo"] = timer_ctr["lo"] + usec
         /\ Plus(timer_ctr, usec) # Zero /\ usec \in Nat /\ timer_ctr["lo"] \in Nat
<1>0. FirstEpoch /\ PromiseInv /\ irq # Outside
  BY RoundKeeps DEF PromiseStep
<1>1. timer_ctr["lo"] \in Nat /\ usec \in Nat /\ timer_ctr["lo"] # 0
  BY <1>0, ArmingNumbers DEF PromiseInv, Ticked
<1>2. Plus(timer_ctr, usec)["lo"] = timer_ctr["lo"] + usec
  BY <1>0, DeadlineInFirstEpoch DEF PromiseInv, CallInv, TypeOK, LowWordsOnly
<1>3. Zero["lo"] = 0
  BY DEF Zero, Half
<1> QED
  BY <1>1, <1>2, <1>3

\* What callbacks did to the slot being filled in a round that armed no timer in it.
LEMMA StoredIs ==
  ASSUME Arming, IrqSlot, Expired(irq), NEW h,
         timeout_cb'[idx] = timeout_cb[idx],
         timeout_ctr'[idx] = IF idx = irq \/ idx = h THEN Zero ELSE timeout_ctr[idx]
  PROVE  others \union Stored =
           IF idx = irq \/ (idx = h /\ timeout_ctr[idx] # Zero) THEN others \union {NoCb} ELSE others
<1>1. timeout_ctr[irq] # Zero
  BY DEF Expired
<1>2. CASE idx = irq
  <2>1. Stored = {NoCb}
    BY <1>1, <1>2 DEF Stored
  <2> QED
    BY <1>2, <2>1
<1>3. CASE idx # irq /\ idx = h /\ timeout_ctr[idx] # Zero
  <2>1. Stored = {NoCb}
    BY <1>3 DEF Stored
  <2> QED
    BY <1>3, <2>1
<1>4. CASE idx # irq /\ ~ (idx = h /\ timeout_ctr[idx] # Zero)
  <2>1. timeout_ctr'[idx] = timeout_ctr[idx]
    BY <1>4
  <2>2. Stored = {}
    BY <1>4, <2>1 DEF Stored
  <2> QED
    BY <1>4, <2>2
<1> QED
  BY <1>2, <1>3, <1>4

\* A round that finds the timer not due is none of the promise's steps.
LEMMA QuietRound ==
  ASSUME PromiseStep, IrqSlot, ~ Expired(irq)
  PROVE  FillInv' /\ Swept' /\ UNCHANGED Promise!timerVars
<1>1. UNCHANGED <<timeout_ctr, timeout_cb, called, timer_ctr>>
  BY DEF IrqSlot
<1>2. FillInv'
  BY <1>1, RoundFills
<1>3. Swept'
  BY <1>1, RoundSweeps
<1>4. Pending' = Pending
  <2>1. \A i \in Slot : Pending'[i] = Pending[i]
    BY <1>1, RoundLeaves
  <2>2. Pending = [i \in Slot |-> Pending[i]] /\ Pending' = [i \in Slot |-> Pending'[i]]
    BY DEF Pending
  <2> QED
    BY <2>1, <2>2
<1>5. Claimed' = Claimed
  <2>1. Stored = {}
    BY <1>1 DEF Stored
  <2>2. Claimed' = ClaimWith(others)
    <3>1. (IF Arming THEN others \union Stored ELSE {}) = IF Arming THEN others ELSE {}
      BY <2>1
    <3> QED
      BY <3>1, RoundClaim DEF ClaimWith
  <2>3. Claimed = ClaimWith(others)
    BY ClaimedIs DEF ClaimWith
  <2> QED
    BY <2>2, <2>3
<1> QED
  BY <1>1, <1>2, <1>3, <1>4, <1>5 DEF Promise!timerVars

\* A callback that leaves the pool alone.
LEMMA PlainRound ==
  ASSUME PromiseStep, IrqSlot, Expired(irq),
         timeout_ctr' = [timeout_ctr EXCEPT ![irq] = Zero], UNCHANGED timeout_cb
  PROVE  FillInv' /\ Swept' /\ Promise!Next
<1>0. PromiseInv /\ irq \in Slot /\ TypeOK /\ (Arming => idx \in Slot)
  BY RoundKeeps, ArmingNumbers DEF PromiseStep, PromiseInv, CallInv
<1>1. \A i \in Slot : /\ timeout_ctr'[i] = IF i = irq \/ i = Outside THEN Zero ELSE timeout_ctr[i]
                      /\ timeout_cb'[i] = timeout_cb[i]
  <2>1. Outside \notin Slot
    BY PoolAssumption DEF Slot, Outside
  <2> QED
    BY <1>0, <2>1 DEF TypeOK
<1>2. FillInv'
  BY <1>1, RoundFills
<1>3. Swept'
  BY <1>1, RoundSweeps
<1> DEFINE o == IF Arming /\ idx \in {irq, Promise!None} THEN others \union {NoCb} ELSE others
<1>4. Promise!Freed(Promise!Freed(Promise!pool, irq), Promise!None) = Pool(Left(Outside), o)
  <2>1. Outside \notin Slot
    BY PoolAssumption DEF Slot, Outside
  <2> QED
    BY <1>0, <2>1, LeftIs
<1>5. Promise!Freed(Promise!pool, irq) = Pool(Left(Outside), o)
  BY <1>4 DEF Promise!Freed
<1>6. Arming => others \union Stored = o
  <2>1. ASSUME Arming PROVE others \union Stored = o
    <3>1. idx # Promise!None /\ idx # Outside
      BY <1>0, <2>1, FreeIsFree, PoolAssumption DEF Slot, Outside
    <3>2. others \union Stored =
           IF idx = irq \/ (idx = Outside /\ timeout_ctr[idx] # Zero) THEN others \union {NoCb} ELSE others
      BY <1>0, <1>1, <2>1, StoredIs
    <3> QED
      BY <2>1, <3>1, <3>2
  <2> QED
    BY <2>1
<1>7. \A i \in Slot : Pending'[i] = Left(Outside)[i]
  BY <1>1, RoundLeft
<1>8. Left(Outside) = [i \in Slot |-> Left(Outside)[i]]
  BY DEF Left
<1> HIDE DEF o
<1>9. Promise!Becomes(Pool(Left(Outside), o))
  BY <1>6, <1>7, <1>8, RoundBecomes
<1>10. Promise!Fire(irq, timeout_cb[irq])
  BY <1>5, <1>9, RoundRuns DEF Promise!Fire
<1>11. timeout_cb[irq] \in Callback \union {Promise!NoCb}
  BY <1>0, FreeIsFree DEF TypeOK
<1> QED
  BY <1>0, <1>2, <1>3, <1>10, <1>11 DEF Promise!Next

\* A callback that gives up timer h, or none, and arms none.
LEMMA GivingRound ==
  ASSUME PromiseStep, IrqSlot, Expired(irq), timeout_cb[irq] \in Nested, NEW h \in Slot \union {Outside},
         UNCHANGED timeout_cb,
         timeout_ctr' = [i \in Slot |-> IF i = irq \/ i = h THEN Zero ELSE timeout_ctr[i]]
  PROVE  FillInv' /\ Swept' /\ Promise!Next
<1>0. irq \in Slot /\ (Arming => idx \in Slot) /\ Outside \notin Slot /\ Promise!None \notin Slot
  BY RoundKeeps, ArmingNumbers, FreeIsFree, PoolAssumption DEF PromiseStep, Slot, Outside
<1>1. \A i \in Slot : /\ timeout_ctr'[i] = IF i = irq \/ i = h THEN Zero ELSE timeout_ctr[i]
                      /\ timeout_cb'[i] = timeout_cb[i]
  OBVIOUS
<1>2. FillInv'
  BY <1>1, RoundFills
<1>3. Swept'
  BY <1>1, RoundSweeps
<1> DEFINE g == IF h = Outside \/ (Arming /\ h = idx /\ timeout_ctr[idx] = Zero) THEN Promise!None ELSE h
           o == IF Arming /\ idx \in {irq, g} THEN others \union {NoCb} ELSE others
<1>4. /\ g \in Slot \union {Promise!None}
      /\ h \in Slot => g = h \/ (g = Promise!None /\ Arming /\ h = idx)
      /\ h = Outside => g = Promise!None
      /\ Arming => (idx = g <=> idx = h /\ timeout_ctr[idx] # Zero)
  BY <1>0
<1>5. Promise!Freed(Promise!Freed(Promise!pool, irq), g) = Pool(Left(h), o)
  <2> HIDE DEF g
  <2> QED
    BY <1>0, <1>4, LeftIs
<1>6. Arming => others \union Stored = o
  <2>1. ASSUME Arming PROVE others \union Stored = o
    <3>1. others \union Stored =
           IF idx = irq \/ (idx = h /\ timeout_ctr[idx] # Zero) THEN others \union {NoCb} ELSE others
      BY <1>0, <1>1, <2>1, StoredIs
    <3> HIDE DEF g
    <3> QED
      BY <1>4, <2>1, <3>1
  <2> QED
    BY <2>1
<1>7. \A i \in Slot : Pending'[i] = Left(h)[i]
  BY <1>1, RoundLeft
<1>8. Left(h) = [i \in Slot |-> Left(h)[i]]
  BY DEF Left
<1> HIDE DEF g, o
<1>9. Promise!Becomes(Pool(Left(h), o))
  BY <1>6, <1>7, <1>8, RoundBecomes
<1>10. Promise!FireNested(irq, timeout_cb[irq])
  BY <1>4, <1>5, <1>9, RoundRuns DEF Promise!FireNested
<1> QED
  BY <1>0, <1>2, <1>3, <1>10 DEF Promise!Next

\* A round whose callback gives up timer h, or none, and arms timer new keeps the invariants.
LEMMA ArmingRoundKeeps ==
  ASSUME PromiseStep, IrqSlot, Expired(irq), NEW h, NEW new \in Slot, NEW cb \in Callback, NEW usec \in Delay,
         \A i \in Slot : i # new => /\ timeout_ctr'[i] = IF i = irq \/ i = h THEN Zero ELSE timeout_ctr[i]
                                    /\ timeout_cb'[i] = timeout_cb[i],
         timeout_cb'[new] = cb,
         timeout_ctr'[new]["lo"] = timer_ctr["lo"] + usec, timeout_ctr'[new] # Zero
  PROVE  FillInv' /\ Swept'
<1>1. timer_ctr["lo"] + usec >= timer_ctr["lo"]
  BY NewDeadline
<1>2. \A i \in Slot : \/ timeout_ctr'[i] = timeout_ctr[i] /\ timeout_cb'[i] = timeout_cb[i]
                      \/ timeout_ctr'[i] = Zero /\ timeout_cb'[i] = timeout_cb[i]
                      \/ \E d \in Delay : /\ timeout_ctr'[i]["lo"] = timer_ctr["lo"] + d
                                          /\ timeout_ctr'[i] # Zero
                                          /\ timeout_cb'[i] \in Callback
  OBVIOUS
<1>3. \A i \in Slot : \/ timeout_ctr'[i] = timeout_ctr[i] /\ (i = irq => ~ Expired(i))
                      \/ timeout_ctr'[i] = Zero
                      \/ timeout_ctr'[i]["lo"] >= timer_ctr["lo"]
  BY <1>1
<1> QED
  BY <1>2, <1>3, RoundFills, RoundSweeps

\* A callback that arms a timer nobody is filling.
LEMMA ArmingRound ==
  ASSUME PromiseStep, IrqSlot, Expired(irq), timeout_cb[irq] \in Nested, NEW h \in Slot \union {Outside},
         NEW new \in Slot, NEW cb \in Callback, NEW usec \in Delay,
         new = irq \/ new = h \/ timeout_ctr[new] = Zero,
         ~ (Arming /\ new = idx),
         \A i \in Slot : i # new => /\ timeout_ctr'[i] = IF i = irq \/ i = h THEN Zero ELSE timeout_ctr[i]
                                    /\ timeout_cb'[i] = timeout_cb[i],
         timeout_cb'[new] = cb,
         timeout_ctr'[new]["lo"] = timer_ctr["lo"] + usec, timeout_ctr'[new] # Zero
  PROVE  Promise!Next
<1>0. /\ irq \in Slot /\ (Arming => idx \in Slot) /\ Outside \notin Slot /\ Promise!None \notin Slot
      /\ UNCHANGED <<timer_ctr, idx>> /\ Arming' = Arming
  BY RoundKeeps, ArmingNumbers, FreeIsFree, PoolAssumption DEF PromiseStep, Slot, Outside, foreground
<1> DEFINE g == IF h = Outside \/ (Arming /\ h = idx /\ timeout_ctr[idx] = Zero) THEN Promise!None ELSE h
           o == IF Arming /\ idx \in {irq, g} THEN others \union {NoCb} ELSE others
           entry == Promise!Armed(cb, timer_ctr["lo"] + usec)
           tm == [Left(h) EXCEPT ![new] = entry]
<1>1. /\ g \in Slot \union {Promise!None}
      /\ h \in Slot => g = h \/ (g = Promise!None /\ Arming /\ h = idx)
      /\ h = Outside => g = Promise!None
      /\ Arming => (idx = g <=> idx = h /\ timeout_ctr[idx] # Zero)
  BY <1>0
<1>2. Promise!Freed(Promise!Freed(Promise!pool, irq), g) = Pool(Left(h), o)
  <2> HIDE DEF g
  <2> QED
    BY <1>0, <1>1, LeftIs
<1>3. Promise!Use(Pool(Left(h), o), new, entry) = Pool(tm, o)
  <2> DEFINE left == Left(h)
           due == timer_ctr["lo"] + usec
  <2> HIDE DEF o, left, due
  <2>2. Promise!Use(Pool(left, o), new, Promise!Armed(cb, due)) =
           Pool([left EXCEPT ![new] = Promise!Armed(cb, due)], o)
    BY UseOfOther
  <2>3. Promise!Use(Pool(left, o), new, entry) = Pool(tm, o)
    BY <2>2 DEF due, left
  <2> QED
    BY <2>3 DEF left
<1>4. Arming => others \union Stored = o
  <2>1. ASSUME Arming PROVE others \union Stored = o
    <3>1. others \union Stored =
           IF idx = irq \/ (idx = h /\ timeout_ctr[idx] # Zero) THEN others \union {NoCb} ELSE others
      BY <1>0, <2>1, StoredIs
    <3> HIDE DEF g
    <3> QED
      BY <1>1, <2>1, <3>1
  <2> QED
    BY <2>1
<1>5. Left(h)[new] = Promise!Free
  BY DEF Left
<1>6. tm = [i \in Slot |-> tm[i]] /\ tm[new] = entry /\ \A i \in Slot : i # new => tm[i] = Left(h)[i]
  <2>1. Left(h) = [i \in Slot |-> Left(h)[i]]
    BY DEF Left
  <2> HIDE DEF entry
  <2> QED
    BY <2>1
<1>7. Pending'[new] = entry
  <2> DEFINE due == timer_ctr["lo"] + usec
  <2>1. due \in Nat /\ due >= timer_ctr["lo"] /\ timer_ctr["lo"] \in Nat
    BY NewDeadline
  <2>2. Pending'[new] = [cb |-> cb, due |-> IF due < Seen' THEN Seen' ELSE due]
    <3>1. ~ (timeout_ctr'[new] = Zero \/ (Arming' /\ idx' = new))
      BY <1>0
    <3> QED
      BY <3>1 DEF Pending, Seen
  <2>3. ~ (due < Seen')
    BY <1>0, <2>1 DEF Seen
  <2> HIDE DEF due
  <2>4. Pending'[new] = [cb |-> cb, due |-> due]
    BY <2>2, <2>3
  <2> QED
    BY <2>4 DEF due, Promise!Armed
<1>8. \A i \in Slot : Pending'[i] = tm[i]
  <2> HIDE DEF tm, entry
  <2> QED
    BY <1>6, <1>7, RoundLeft
<1>9. Promise!Becomes(Pool(tm, o))
  <2> HIDE DEF tm, o
  <2> QED
    BY <1>4, <1>6, <1>8, RoundBecomes
<1>10. Pool(Left(h), o).timer[new] = Promise!Free
  BY <1>5 DEF Pool
<1> HIDE DEF g, o, tm
<1>11. Promise!FireNested(irq, timeout_cb[irq])
  BY <1>1, <1>2, <1>3, <1>9, <1>10, RoundRuns DEF Promise!FireNested
<1> QED
  BY <1>0, <1>11 DEF Promise!Next

\* A callback that arms the timer that is being filled.
LEMMA TakingRound ==
  ASSUME PromiseStep, IrqSlot, Expired(irq), timeout_cb[irq] \in Nested, NEW h \in Slot \union {Outside},
         NEW cb \in Callback, NEW usec \in Delay, Arming,
         \A i \in Slot : i # idx => /\ timeout_ctr'[i] = IF i = irq \/ i = h THEN Zero ELSE timeout_ctr[i]
                                    /\ timeout_cb'[i] = timeout_cb[i],
         timeout_cb'[idx] = cb,
         timeout_ctr'[idx]["lo"] = timer_ctr["lo"] + usec, timeout_ctr'[idx] # Zero
  PROVE  Promise!Next
<1>0. /\ irq \in Slot /\ idx \in Slot /\ Outside \notin Slot /\ Promise!None \notin Slot
      /\ UNCHANGED <<timer_ctr, idx>> /\ Arming' = Arming
  BY RoundKeeps, ArmingNumbers, FreeIsFree, PoolAssumption DEF PromiseStep, Slot, Outside, foreground
<1> DEFINE g == IF h = Outside \/ h = idx THEN Promise!None ELSE h
           o == IF idx = irq THEN others \union {NoCb} ELSE others
           entry == Promise!Armed(cb, timer_ctr["lo"] + usec)
<1>1. /\ g \in Slot \union {Promise!None}
      /\ h \in Slot => g = h \/ (g = Promise!None /\ Arming /\ h = idx)
      /\ h = Outside => g = Promise!None
      /\ idx # g
  BY <1>0
<1>2. Promise!Freed(Promise!Freed(Promise!pool, irq), g) = Pool(Left(h), o)
  <2>1. o = IF Arming /\ idx \in {irq, g} THEN others \union {NoCb} ELSE others
    BY <1>1
  <2> HIDE DEF g, o
  <2> QED
    BY <1>0, <1>1, <2>1, LeftIs
<1>3. Promise!Use(Pool(Left(h), o), idx, entry) = Pool(Left(h), o \union {cb})
  <2> DEFINE left == Left(h)
             due == timer_ctr["lo"] + usec
  <2> HIDE DEF o, left, due
  <2>1. Promise!Use(Pool(left, o), idx, Promise!Armed(cb, due)) = Pool(left, o \union {cb})
    BY UseOfClaimed
  <2> QED
    BY <2>1 DEF left, due
<1>4. Left(h)[idx] = Promise!Free /\ Left(h) = [i \in Slot |-> Left(h)[i]]
  BY <1>0 DEF Left
<1>5. \A i \in Slot : Pending'[i] = Left(h)[i]
  <2>1. Pending'[idx] = Promise!Free
    BY <1>0, FreeIsFree DEF Pending
  <2> QED
    BY <1>4, <2>1, RoundLeft
<1>6. Pool(Left(h), o).timer[idx] = Promise!Free
  BY <1>4 DEF Pool
<1> DEFINE same == timeout_ctr'[idx] = timeout_ctr[idx] /\ timeout_cb'[idx] = timeout_cb[idx]
<1>7. CASE same
  <2>1. idx # irq
    <3>1. timeout_ctr'[irq] = timeout_ctr[irq] => ~ (timeout_ctr'[irq]["lo"] < timer_ctr["lo"])
             \/ timeout_ctr'[irq]["lo"] # timer_ctr["lo"] + usec
      BY NewDeadline
    <3>2. timeout_ctr[irq]["lo"] < timer_ctr["lo"]
      BY <1>0 DEF Expired, Less, PromiseStep, PromiseInv, CallInv, LowWordsOnly
    <3> QED
      BY <1>7, <3>1, <3>2
  <2>2. others \union Stored = o
    <3>1. Stored = {}
      BY <1>7, <2>1 DEF Stored
    <3> QED
      BY <2>1, <3>1
  <2> HIDE DEF o, g
  <2>3. Promise!Becomes(Pool(Left(h), o))
    BY <1>4, <1>5, <2>2, RoundBecomes
  <2>4. Promise!FireNested(irq, timeout_cb[irq])
    BY <1>1, <1>2, <2>3, RoundRuns DEF Promise!FireNested
  <2> QED
    BY <1>0, <2>4 DEF Promise!Next
<1>8. CASE ~ same
  <2>1. others \union Stored = o \union {cb}
    <3>1. Stored = (IF idx = irq THEN {NoCb} ELSE {}) \union {cb}
      BY <1>8 DEF Stored
    <3> QED
      BY <3>1
  <2> HIDE DEF o, g
  <2>2. Promise!Becomes(Pool(Left(h), o \union {cb}))
    BY <1>4, <1>5, <2>1, RoundBecomes
  <2>3. Promise!FireNested(irq, timeout_cb[irq])
    BY <1>0, <1>1, <1>2, <1>3, <1>6, <2>2, RoundRuns DEF Promise!FireNested
  <2> QED
    BY <1>0, <2>3 DEF Promise!Next
<1> QED
  BY <1>7, <1>8

LEMMA NestPicks ==
  ASSUME NEW ctr \in [Slot -> Wide], Nest(ctr)
  PROVE  \E h \in Slot \union {Outside} :
           LET left == [i \in Slot |-> IF i = h THEN Zero ELSE ctr[i]]
           IN  \/ /\ timeout_ctr' = left
                  /\ UNCHANGED timeout_cb
               \/ \E i \in Slot, cb \in Callback, usec \in Delay :
                    /\ i = h \/ ctr[i] = Zero
                    /\ timeout_ctr' = [left EXCEPT ![i] = Plus(timer_ctr, usec)]
                    /\ timeout_cb' = [timeout_cb EXCEPT ![i] = cb]
  BY DEF Nest

\* A callback that gives up timer h, or none, and arms timer new.
LEMMA NestedArm ==
  ASSUME PromiseStep, IrqSlot, Expired(irq), timeout_cb[irq] \in Nested, NEW h \in Slot \union {Outside},
         NEW new \in Slot, NEW cb \in Callback, NEW usec \in Delay,
         new = irq \/ new = h \/ timeout_ctr[new] = Zero,
         NEW left \in [Slot -> Wide],
         \A i \in Slot : left[i] = IF i = irq \/ i = h THEN Zero ELSE timeout_ctr[i],
         timeout_ctr' = [left EXCEPT ![new] = Plus(timer_ctr, usec)],
         timeout_cb' = [timeout_cb EXCEPT ![new] = cb]
  PROVE  FillInv' /\ Swept' /\ Promise!Next
<1>0. timeout_cb \in [Slot -> Callback \union {NoCb}]
  BY DEF PromiseStep, PromiseInv, CallInv, TypeOK
<1>1. \A i \in Slot : i # new => /\ timeout_ctr'[i] = IF i = irq \/ i = h THEN Zero ELSE timeout_ctr[i]
                                 /\ timeout_cb'[i] = timeout_cb[i]
  BY <1>0
<1>2. timeout_cb'[new] = cb /\ timeout_ctr'[new] = Plus(timer_ctr, usec)
  BY <1>0
<1>3. timeout_ctr'[new]["lo"] = timer_ctr["lo"] + usec /\ timeout_ctr'[new] # Zero
  BY <1>2, NewDeadline
<1>4. FillInv' /\ Swept'
  BY <1>1, <1>2, <1>3, ArmingRoundKeeps
<1>5. CASE ~ (Arming /\ new = idx)
  <2>1. Promise!Next
    BY <1>1, <1>2, <1>3, <1>5, ArmingRound
  <2> QED
    BY <1>4, <2>1
<1>6. CASE Arming /\ new = idx
  <2>1. Promise!Next
    BY <1>1, <1>2, <1>3, <1>6, TakingRound
  <2> QED
    BY <1>4, <2>1
<1> QED
  BY <1>5, <1>6

\* A round of the handler is a step of the promise.
LEMMA RoundStep ==
  ASSUME PromiseStep, IrqSlot
  PROVE  FillInv' /\ Swept' /\ (Promise!Next \/ UNCHANGED Promise!timerVars)
<1> DEFINE ctr == [timeout_ctr EXCEPT ![irq] = Zero]
<1>1. CASE ~ Expired(irq)
  BY <1>1, QuietRound
<1>2. CASE Expired(irq) /\ timeout_ctr' = ctr /\ UNCHANGED timeout_cb
  BY <1>2, PlainRound
<1>3. CASE Expired(irq) /\ timeout_cb[irq] \in Nested /\ Nest(ctr)
  <2>0. /\ ctr \in [Slot -> Wide]
        /\ \A i \in Slot : ctr[i] = IF i = irq THEN Zero ELSE timeout_ctr[i]
    BY RoundKeeps, ZeroType DEF PromiseStep, PromiseInv, CallInv, TypeOK
  <2> HIDE DEF ctr
  <2>1. PICK h \in Slot \union {Outside} :
          LET left == [i \in Slot |-> IF i = h THEN Zero ELSE ctr[i]]
          IN  \/ /\ timeout_ctr' = left
                 /\ UNCHANGED timeout_cb
              \/ \E i \in Slot, cb \in Callback, usec \in Delay :
                   /\ i = h \/ ctr[i] = Zero
                   /\ timeout_ctr' = [left EXCEPT ![i] = Plus(timer_ctr, usec)]
                   /\ timeout_cb' = [timeout_cb EXCEPT ![i] = cb]
    BY <1>3, <2>0, NestPicks
  <2> DEFINE left == [i \in Slot |-> IF i = h THEN Zero ELSE ctr[i]]
  <2>2. /\ left \in [Slot -> Wide]
        /\ \A i \in Slot : left[i] = IF i = irq \/ i = h THEN Zero ELSE timeout_ctr[i]
        /\ left = [i \in Slot |-> IF i = irq \/ i = h THEN Zero ELSE timeout_ctr[i]]
    BY <2>0, ZeroType
  <2>3. CASE timeout_ctr' = left /\ UNCHANGED timeout_cb
    <3> HIDE DEF left
    <3> QED
      BY <1>3, <2>2, <2>3, GivingRound
  <2>4. ASSUME NEW new \in Slot, NEW cb \in Callback, NEW usec \in Delay,
               new = h \/ ctr[new] = Zero,
               timeout_ctr' = [left EXCEPT ![new] = Plus(timer_ctr, usec)],
               timeout_cb' = [timeout_cb EXCEPT ![new] = cb]
        PROVE  FillInv' /\ Swept' /\ Promise!Next
    <3>1. new = irq \/ new = h \/ timeout_ctr[new] = Zero
      BY <2>0, <2>4
    <3> HIDE DEF left
    <3> QED
      BY <1>3, <2>2, <2>4, <3>1, NestedArm
  <2>5. \/ timeout_ctr' = left /\ UNCHANGED timeout_cb
        \/ \E new \in Slot, cb \in Callback, usec \in Delay :
             /\ new = h \/ ctr[new] = Zero
             /\ timeout_ctr' = [left EXCEPT ![new] = Plus(timer_ctr, usec)]
             /\ timeout_cb' = [timeout_cb EXCEPT ![new] = cb]
    BY <2>1
  <2> HIDE DEF left
  <2> QED
    BY <2>3, <2>4, <2>5
<1> QED
  <2>1. Expired(irq) => RunCallback(timeout_cb[irq], ctr)
    BY DEF IrqSlot
  <2>2. Expired(irq) => \/ timeout_ctr' = ctr /\ UNCHANGED timeout_cb
                        \/ timeout_cb[irq] \in Nested /\ Nest(ctr)
    <3> HIDE DEF ctr
    <3> QED
      BY <2>1 DEF RunCallback
  <2> QED
    BY <1>1, <1>2, <1>3, <2>2


(* The steps of the main program, while the handler does not run.             *)
LEMMA PendingAt ==
  ASSUME \A i \in Slot : Pending'[i] = Pending[i]
  PROVE  Pending' = Pending
<1>1. Pending = [i \in Slot |-> Pending[i]] /\ Pending' = [i \in Slot |-> Pending'[i]]
  BY DEF Pending
<1> QED
  BY <1>1

\* A timer that the program leaves alone is pending as before.
LEMMA ProgramLeaves ==
  ASSUME irq = Outside, irq' = Outside, timer_ctr' = timer_ctr, NEW i \in Slot,
         timeout_ctr'[i] = timeout_ctr[i], timeout_cb'[i] = timeout_cb[i],
         (Arming /\ idx = i) = (Arming /\ idx = i)'
  PROVE  Pending'[i] = Pending[i]
  BY DEF Pending

LEMMA ProgramOthers ==
  ASSUME PromiseStep, irq = Outside, irq' = Outside
  PROVE  /\ others' = IF Arming' THEN others ELSE {}
         /\ Swept' /\ Ticked'
<1>1. Outside \notin Slot
  BY PoolAssumption DEF Slot, Outside
<1> QED
  BY <1>1 DEF PromiseStep, PromiseNext, Swept, Ticked

\* A step that neither stores in the pool nor belongs to an arming call.
LEMMA UnseenStep ==
  ASSUME PromiseStep, irq = Outside, UNCHANGED shared, ~ Arming, ~ Arming'
  PROVE  FillInv' /\ UNCHANGED Promise!timerVars
<1>1. UNCHANGED <<timer_ctr, timeout_ctr, timeout_cb, irq, called>> /\ irq' = Outside
  BY DEF shared
<1>2. FillInv'
  <2>1. others' = {}
    BY <1>1, ProgramOthers
  <2> QED
    BY <2>1 DEF FillInv, Arming
<1>3. Pending' = Pending
  BY <1>1, ProgramLeaves, PendingAt
<1>4. Claimed' = Claimed
  BY DEF Claimed
<1> QED
  BY <1>1, <1>2, <1>3, <1>4 DEF Promise!timerVars

\* The search finds a free timer.
LEMMA ClaimingStep ==
  ASSUME PromiseStep, Scan, Arming'
  PROVE  FillInv' /\ Promise!Next
<1>0. PromiseInv /\ TypeOK /\ ArmingOK
  BY DEF PromiseStep, PromiseInv, CallInv
<1>1. /\ pc = "scan" /\ pc' = "load" /\ irq = Outside /\ irq' = Outside
      /\ timeout_ctr[idx] = Zero
      /\ UNCHANGED <<timer_ctr, timeout_ctr, timeout_cb, called, idx, req, hits>>
  BY DEF Scan, Return, Arming, Free, shared
<1>2. idx \in Slot
  <2>1. idx < NSlots
    BY DEF Scan, Return, Arming
  <2> QED
    BY <1>0, <2>1, PoolAssumption DEF TypeOK, Slot
<1>3. ~ Arming /\ hits = 0 /\ req.cb \in Callback /\ req.usec \in Delay
  BY <1>0, <1>1 DEF ArmingOK, Arming
<1>4. others = {} /\ others' = {}
  BY <1>0, <1>1, <1>3, ProgramOthers DEF PromiseInv, FillInv
<1>5. timer_ctr["lo"] \in Nat
  BY <1>0, ArmingNumbers
<1>6. FillInv'
  BY <1>1, <1>3, <1>4, <1>5 DEF FillInv
<1>7. Pending' = Pending
  <2>1. Pending[idx] = Promise!Free
    BY <1>1, <1>2, PendingIs
  <2>2. Pending'[idx] = Promise!Free
    BY <1>1, <1>2, FreeIsFree DEF Pending
  <2>3. \A i \in Slot : i # idx => Pending'[i] = Pending[i]
    BY <1>1, <1>3, ProgramLeaves
  <2> QED
    BY <2>1, <2>2, <2>3, PendingAt
<1>8. Claimed = Promise!NoClaim
  BY <1>3, ClaimedIs
<1>9. Claimed' = [slot |-> idx, cb |-> req.cb, usec |-> req.usec, since |-> timer_ctr["lo"], others |-> {}]
  BY <1>1, <1>3, <1>4, <1>5 DEF Claimed
<1>10. Pending[idx] = Promise!Free
  BY <1>1, <1>2, PendingIs
<1>11. Promise!Claim(idx, req.cb, req.usec)
  BY <1>1, <1>7, <1>8, <1>9, <1>10 DEF Promise!Claim
<1> QED
  BY <1>2, <1>3, <1>6, <1>11 DEF Promise!Next

\* An arming call that has not finished stores nothing but in the slot it found.
LEMMA ArmingGoesOn ==
  ASSUME PromiseStep, irq = Outside, irq' = Outside, Arming, Arming',
         UNCHANGED <<timer_ctr, called, idx, req, hits>>,
         \A i \in Slot : i # idx => timeout_ctr'[i] = timeout_ctr[i] /\ timeout_cb'[i] = timeout_cb[i]
  PROVE  UNCHANGED Promise!timerVars /\ others' = others
<1>1. others' = others
  BY ProgramOthers
<1>2. Pending' = Pending
  <2>1. \A i \in Slot : i # idx => Pending'[i] = Pending[i]
    BY ProgramLeaves
  <2>2. idx \in Slot => Pending[idx] = Promise!Free /\ Pending'[idx] = Promise!Free
    BY FreeIsFree DEF Pending
  <2> QED
    BY <2>1, <2>2, PendingAt
<1>3. Claimed' = Claimed
  BY <1>1 DEF Claimed
<1> QED
  BY <1>1, <1>2, <1>3 DEF Promise!timerVars

\* The clock is loaded.
LEMMA LoadingStep ==
  ASSUME PromiseStep, NEW h \in Half, LoadHalf(h)
  PROVE  FillInv' /\ UNCHANGED Promise!timerVars
<1>0. PromiseInv
  BY DEF PromiseStep
<1>1. CASE pc # "load"
  <2>1. ~ Arming /\ ~ Arming' /\ UNCHANGED shared /\ irq = Outside
    BY <1>1 DEF LoadHalf, AfterLoad, Elapsed, Return, Arming
  <2> QED
    BY <2>1, UnseenStep
<1>2. CASE pc = "load"
  <2>1. /\ irq = Outside /\ irq' = Outside /\ Arming /\ Arming'
        /\ UNCHANGED <<timer_ctr, timeout_ctr, timeout_cb, called, idx, req, hits>>
        /\ pc' = "store" => todo' = Half \union {"cb"}
        /\ pc' \in {"load", "store"}
    BY <1>2 DEF LoadHalf, AfterLoad, Elapsed, Stores, Arming, shared
  <2>2. UNCHANGED Promise!timerVars /\ others' = others
    BY <2>1, ArmingGoesOn
  <2>3. others = {} => timeout_ctr[idx] = Zero /\ timeout_ctr[idx]["lo"] = 0
    BY <1>0, <1>2 DEF PromiseInv, FillInv, Zero, Half
  <2>4. Since' = Since
    BY <2>1 DEF Since
  <2>5. FillInv'
    <3>1. others' \subseteq Callback \union {NoCb} /\ hits' <= timer_ctr'["lo"]
      BY <1>0, <2>1, <2>2 DEF PromiseInv, FillInv
    <3>2. others' = {} => timeout_ctr'[idx'] = Zero /\ timeout_ctr'[idx']["lo"] = 0
      BY <2>1, <2>2, <2>3
    <3>3. others' # {} /\ timeout_ctr'[idx'] # Zero =>
            \E read \in Since' .. timer_ctr'["lo"], usec \in Delay : timeout_ctr'[idx']["lo"] = read + usec
      BY <1>0, <2>1, <2>2, <2>4 DEF PromiseInv, FillInv
    <3>4. pc' = "store" => "lo" \in todo' /\ "cb" \in todo'
      BY <2>1 DEF Half
    <3> QED
      BY <2>1, <3>1, <3>2, <3>3, <3>4 DEF FillInv
  <2> QED
    BY <2>2, <2>5
<1> QED
  BY <1>1, <1>2

\* What is stored, half by half and with its callback.
LEMMA StoredBy ==
  ASSUME PromiseStep, NEW w \in Half \union {"cb"}, Store(w)
  PROVE  /\ pc = "store" /\ Arming /\ irq = Outside /\ irq' = Outside /\ w \in todo
         /\ UNCHANGED <<timer_ctr, called>>
         /\ \/ pc' = "idle" /\ todo = {w}
            \/ pc' = "store" /\ todo' = todo \ {w} /\ UNCHANGED <<idx, req, now, hits>>
         /\ \A i \in Slot : i # idx => timeout_ctr'[i] = timeout_ctr[i] /\ timeout_cb'[i] = timeout_cb[i]
         /\ timeout_ctr'[idx]["hi"] = 0
         /\ timeout_ctr'[idx] \in Wide
         /\ w = "lo" => timeout_ctr'[idx]["lo"] = now["lo"] + req.usec /\ timeout_cb'[idx] = timeout_cb[idx]
         /\ w = "hi" => timeout_ctr'[idx] = timeout_ctr[idx] /\ timeout_cb'[idx] = timeout_cb[idx]
         /\ w = "cb" => timeout_ctr'[idx] = timeout_ctr[idx] /\ timeout_cb'[idx] = req.cb
<1>0. FirstEpoch /\ PromiseInv /\ CallInv
  BY DEF PromiseStep, PromiseInv
<1>1. /\ pc = "store" /\ Arming /\ irq = Outside /\ irq' = Outside /\ w \in todo
      /\ UNCHANGED <<timer_ctr, called>>
      /\ \/ pc' = "idle" /\ todo = {w}
         \/ pc' = "store" /\ todo' = todo \ {w} /\ UNCHANGED <<idx, req, now, hits>>
  BY DEF Store, Return, Arming
<1>2. /\ idx \in Slot /\ req.cb \in Callback /\ req.usec \in Delay
      /\ now \in Wide /\ now["hi"] = 0 /\ now["lo"] <= MaxClock["lo"]
  <2>1. /\ now["lo"] <= timer_ctr["lo"] /\ timer_ctr["lo"] <= MaxClock["lo"]
    BY <1>0, <1>1 DEF CallInv, LowWordsOnly, ReadingIsRecent
  <2>2. now["lo"] \in Nat /\ timer_ctr["lo"] \in Nat /\ MaxClock["lo"] \in Nat
    BY <1>0, Halves, PoolAssumption DEF CallInv, TypeOK
  <2> QED
    BY <1>0, <1>1, <2>1, <2>2 DEF CallInv, ArmingOK, LowWordsOnly, TypeOK
<1>3. Plus(now, req.usec)["hi"] = 0 /\ Plus(now, req.usec)["lo"] = now["lo"] + req.usec
  BY <1>0, <1>2, DeadlineInFirstEpoch
<1>4. /\ timeout_ctr \in [Slot -> Wide] /\ timeout_ctr[idx]["hi"] = 0
      /\ timeout_cb \in [Slot -> Callback \union {NoCb}]
  BY <1>0, <1>2 DEF CallInv, LowWordsOnly, TypeOK
<1>5. CASE w = "cb"
  <2>1. timeout_ctr' = timeout_ctr /\ timeout_cb' = [timeout_cb EXCEPT ![idx] = req.cb]
    BY <1>5 DEF Store, Half
  <2> QED
    BY <1>1, <1>2, <1>4, <1>5, <2>1
<1>6. CASE w = "lo"
  <2>1. timeout_cb' = timeout_cb /\ timeout_ctr' = [timeout_ctr EXCEPT ![idx]["lo"] = now["lo"] + req.usec]
    BY <1>3, <1>6 DEF Store, Half
  <2>2. timeout_ctr'[idx]["lo"] = now["lo"] + req.usec /\ timeout_ctr'[idx]["hi"] = 0
    BY <1>2, <1>4, <2>1 DEF Wide, Half
  <2>3. \A i \in Slot : i # idx => timeout_ctr'[i] = timeout_ctr[i]
    BY <1>4, <2>1
  <2>4. timeout_ctr' \in [Slot -> Wide]
    BY <1>0, PromiseCallStep DEF CallInv, TypeOK
  <2> QED
    BY <1>1, <1>2, <1>6, <2>1, <2>2, <2>3, <2>4
<1>7. CASE w = "hi"
  <2>1. timeout_cb' = timeout_cb /\ timeout_ctr' = [timeout_ctr EXCEPT ![idx] = [timeout_ctr[idx] EXCEPT !["hi"] = 0]]
    BY <1>3, <1>7 DEF Store, Half
  <2>2. timeout_ctr[idx] = [timeout_ctr[idx] EXCEPT !["hi"] = 0]
    BY <1>2, <1>4 DEF Wide, Half
  <2>3. timeout_ctr' = timeout_ctr
    BY <1>2, <1>4, <2>1, <2>2
  <2> QED
    BY <1>1, <1>2, <1>4, <1>7, <2>1, <2>3
<1> QED
  BY <1>5, <1>6, <1>7 DEF Half

\* An arming call stores, but not for the last time.
LEMMA StoringStep ==
  ASSUME PromiseStep, NEW w \in Half \union {"cb"}, Store(w), pc' = "store"
  PROVE  FillInv' /\ UNCHANGED Promise!timerVars
<1>0. PromiseInv /\ FillInv
  BY DEF PromiseStep, PromiseInv
<1>1. /\ pc = "store" /\ Arming /\ Arming' /\ irq = Outside /\ irq' = Outside /\ w \in todo
      /\ UNCHANGED <<timer_ctr, called, idx, req, now, hits>> /\ todo' = todo \ {w}
  BY StoredBy DEF Arming
<1>2. UNCHANGED Promise!timerVars /\ others' = others
  BY <1>1, StoredBy, ArmingGoesOn
<1>3. Since' = Since
  BY <1>1 DEF Since
<1>4. others' = {} =>
        /\ timeout_ctr'[idx]["lo"] = IF "lo" \in todo' THEN 0 ELSE now["lo"] + req.usec
        /\ "cb" \notin todo' => timeout_cb'[idx] = req.cb
  BY <1>0, <1>1, <1>2, StoredBy DEF FillInv, Half
<1>5. others' # {} /\ timeout_ctr'[idx] # Zero =>
        \E read \in Since .. timer_ctr["lo"], usec \in Delay : timeout_ctr'[idx]["lo"] = read + usec
  <2>1. CASE w = "lo"
    BY <1>0, <1>1, <2>1, StoredBy, ArmingNumbers
  <2>2. CASE w # "lo"
    BY <1>0, <1>1, <1>2, <2>2, StoredBy DEF FillInv, Half
  <2> QED
    BY <2>1, <2>2
<1>6. "cb" \notin todo' => timeout_cb'[idx] \in (others' \ {NoCb}) \union {req.cb}
  BY <1>0, <1>1, <1>2, StoredBy DEF FillInv, Half
<1>7. others' \subseteq Callback \union {NoCb} /\ hits' <= timer_ctr'["lo"]
  BY <1>0, <1>1, <1>2 DEF FillInv
<1>8. FillInv'
  BY <1>1, <1>3, <1>4, <1>5, <1>6, <1>7 DEF FillInv
<1> QED
  BY <1>2, <1>8
\* What the slot holds when the arming call returns.
LEMMA FinallyStored ==
  ASSUME PromiseStep, NEW w \in Half \union {"cb"}, Store(w), pc' = "idle"
  PROVE  LET due == timeout_ctr'[idx]["lo"]
         IN  /\ due \in Nat
             /\ timeout_ctr'[idx] = Zero <=> due = 0
             /\ others = {} =>
                  /\ timeout_cb'[idx] = req.cb
                  /\ \E read \in Since .. timer_ctr["lo"] : due = read + req.usec
             /\ others # {} /\ due # 0 =>
                  /\ timeout_cb'[idx] \in (others \union {req.cb}) \ {NoCb}
                  /\ \E read \in Since .. timer_ctr["lo"], usec \in Delay : due = read + usec
<1> DEFINE due == timeout_ctr'[idx]["lo"]
<1>0. PromiseInv /\ FillInv /\ pc = "store" /\ todo = {w}
  BY StoredBy DEF PromiseStep, PromiseInv
<1>1. due \in Nat /\ (timeout_ctr'[idx] = Zero <=> due = 0)
  BY StoredBy, Halves
<1>2. /\ now["lo"] \in Since .. timer_ctr["lo"] /\ req.usec \in Delay /\ req.cb \in Callback
      /\ NoCb \notin Callback
  BY <1>0, ArmingNumbers, PoolAssumption DEF Arming
<1>3. ASSUME others = {} PROVE timeout_cb'[idx] = req.cb /\ due = now["lo"] + req.usec
  BY <1>0, <1>3, StoredBy DEF FillInv, Half
<1>4. timeout_cb'[idx] \in (others \ {NoCb}) \union {req.cb}
  BY <1>0, StoredBy DEF FillInv, Half
<1>5. ASSUME others # {}, due # 0
      PROVE  \E read \in Since .. timer_ctr["lo"], usec \in Delay : due = read + usec
  <2>1. CASE w = "lo"
    BY <1>2, <2>1, StoredBy
  <2>2. CASE w # "lo"
    BY <1>0, <1>1, <1>5, <2>2, StoredBy DEF FillInv, Half, Arming
  <2> QED
    BY <2>1, <2>2
<1> QED
  BY <1>1, <1>2, <1>3, <1>4, <1>5

\* An arming call stores for the last time: its timer is armed.
LEMMA FillingStep ==
  ASSUME PromiseStep, NEW w \in Half \union {"cb"}, Store(w), pc' = "idle"
  PROVE  FillInv' /\ Promise!Next
<1> DEFINE due == timeout_ctr'[idx]["lo"]
           cb == timeout_cb'[idx]
           entry == IF due = 0 THEN Promise!Free ELSE Promise!Armed(cb, Promise!Later(timer_ctr["lo"], due))
<1>0. /\ PromiseInv /\ Arming /\ ~ Arming' /\ irq = Outside /\ irq' = Outside
      /\ UNCHANGED <<timer_ctr, called>> /\ others' = {}
  BY StoredBy, ProgramOthers DEF PromiseStep, Arming
<1>1. idx \in Slot /\ timer_ctr["lo"] \in Nat
  BY <1>0, ArmingNumbers
<1>2. FillInv'
  BY <1>0 DEF FillInv, Arming
<1>3. Claimed = [slot |-> idx, cb |-> req.cb, usec |-> req.usec, since |-> Since, others |-> others]
  BY <1>0, ClaimedIs
<1>4. Claimed' = Promise!NoClaim
  BY <1>0, FreeIsFree DEF Claimed, Promise!NoClaim
<1>5. Claimed # Promise!NoClaim /\ Claimed.slot = idx
  <2>1. Claimed.slot = idx
    BY <1>3
  <2>2. Promise!NoClaim.slot = -1 /\ idx # -1
    BY <1>1, FreeIsFree, PoolAssumption DEF Promise!NoClaim, Slot
  <2> QED
    BY <2>1, <2>2
<1>6. Pending' = [Pending EXCEPT ![idx] = entry]
  <2>1. \A i \in Slot : i # idx => Pending'[i] = Pending[i]
    BY <1>0, StoredBy, ProgramLeaves
  <2>2. Pending'[idx] = IF timeout_ctr'[idx] = Zero THEN Promise!Free
                        ELSE [cb |-> cb, due |-> IF due < timer_ctr["lo"] THEN timer_ctr["lo"] ELSE due]
    BY <1>0, <1>1, FreeIsFree DEF Pending
  <2>3. due \in Nat /\ (timeout_ctr'[idx] = Zero <=> due = 0)
    BY FinallyStored
  <2>4. Promise!Later(timer_ctr["lo"], due) = IF due < timer_ctr["lo"] THEN timer_ctr["lo"] ELSE due
    BY <1>1, <2>3 DEF Promise!Later
  <2> HIDE DEF due, cb
  <2>5. Pending'[idx] = entry
    BY <2>2, <2>3, <2>4 DEF Promise!Armed
  <2> HIDE DEF entry
  <2>6. Pending = [i \in Slot |-> Pending[i]] /\ Pending' = [i \in Slot |-> Pending'[i]]
    BY DEF Pending
  <2> QED
    BY <2>1, <2>5, <2>6
<1>7. \E new \in Promise!Outcomes :
        entry = IF new.due = 0 THEN Promise!Free ELSE Promise!Armed(new.cb, Promise!Later(timer_ctr["lo"], new.due))
  <2> DEFINE new == Promise!Armed(cb, due)
             Asked(usec) == {read + usec : read \in Since .. timer_ctr["lo"]}
  <2>0. new.cb = cb /\ new.due = due
    BY DEF Promise!Armed
  <2>1. Promise!Outcomes =
          IF others = {}
          THEN {Promise!Armed(req.cb, d) : d \in Asked(req.usec)}
          ELSE {Promise!Free} \union {Promise!Armed(c, d) : c \in (others \union {req.cb}) \ {NoCb},
                                                           d \in UNION {Asked(usec) : usec \in Delay}}
    <3>1. /\ Claimed.cb = req.cb /\ Claimed.usec = req.usec
          /\ Claimed.since = Since /\ Claimed.others = others
      BY <1>3
    <3> QED
      BY <3>1, FreeIsFree DEF Promise!Outcomes
  <2>2. CASE others = {}
    <3>1. cb = req.cb /\ due \in Asked(req.usec)
      BY <2>2, FinallyStored
    <3> HIDE DEF due, cb, Asked
    <3>2. new \in Promise!Outcomes
      BY <2>1, <2>2, <3>1
    <3> HIDE DEF new
    <3> QED
      BY <2>0, <3>2
  <2>3. CASE others # {} /\ due = 0
    <3>1. Promise!Free \in Promise!Outcomes
      BY <2>1, <2>3
    <3>2. Promise!Free.due = 0
      BY FreeIsFree
    <3> QED
      BY <2>3, <3>1, <3>2
  <2>4. CASE others # {} /\ due # 0
    <3>1. cb \in (others \union {req.cb}) \ {NoCb} /\ due \in UNION {Asked(usec) : usec \in Delay}
      BY <2>4, FinallyStored
    <3> HIDE DEF due, cb, Asked
    <3>2. new \in Promise!Outcomes
      BY <2>1, <2>4, <3>1
    <3> HIDE DEF new
    <3> QED
      BY <2>0, <3>2
  <2> QED
    BY <2>2, <2>3, <2>4
<1> HIDE DEF entry
<1>8. Promise!Fill
  BY <1>0, <1>4, <1>5, <1>6, <1>7 DEF Promise!Fill
<1> QED
  BY <1>2, <1>8 DEF Promise!Next

\* Half of a deadline is zeroed: the low half is what gives the timer up.
LEMMA ClearingStep ==
  ASSUME PromiseStep, NEW h \in Half, Clear(h)
  PROVE  FillInv' /\ (Promise!Next \/ UNCHANGED Promise!timerVars)
<1>0. FirstEpoch /\ PromiseInv /\ CallInv
  BY DEF PromiseStep, PromiseInv
<1>1. /\ pc = "clear" /\ ~ Arming /\ ~ Arming' /\ irq = Outside /\ irq' = Outside
      /\ UNCHANGED <<timer_ctr, timeout_cb, called>>
      /\ timeout_ctr' = [timeout_ctr EXCEPT ![idx][h] = 0]
  BY DEF Clear, Return, Arming
<1>2. FillInv'
  <2>1. others' = {}
    BY <1>1, ProgramOthers
  <2> QED
    BY <1>1, <2>1 DEF FillInv, Arming
<1>3. Claimed = Promise!NoClaim /\ Claimed' = Promise!NoClaim
  BY <1>1, FreeIsFree, ClaimedIs DEF Claimed, Promise!NoClaim
<1>4. \A i \in Slot : i # idx => Pending'[i] = Pending[i]
  <2>1. \A i \in Slot : i # idx => timeout_ctr'[i] = timeout_ctr[i]
    BY <1>0, <1>1 DEF CallInv, TypeOK
  <2> QED
    BY <1>1, <2>1, ProgramLeaves
<1>5. CASE idx \notin Slot \/ h = "hi"
  <2>1. idx \in Slot => Pending'[idx] = Pending[idx]
    <3>1. ASSUME idx \in Slot PROVE timeout_ctr'[idx] = timeout_ctr[idx]
      <4>1. timeout_ctr' = [timeout_ctr EXCEPT ![idx] = [timeout_ctr[idx] EXCEPT !["hi"] = 0]]
        BY <1>1, <1>5, <3>1
      <4>2. timeout_ctr[idx] = [timeout_ctr[idx] EXCEPT !["hi"] = 0]
        BY <1>0, <3>1 DEF CallInv, LowWordsOnly, TypeOK, Wide, Half
      <4> QED
        BY <1>0, <3>1, <4>1, <4>2 DEF CallInv, TypeOK
    <3> QED
      BY <1>1, <3>1, ProgramLeaves
  <2>2. Pending' = Pending
    BY <1>4, <2>1, PendingAt
  <2> QED
    BY <1>1, <1>2, <1>3, <2>2 DEF Promise!timerVars
<1>6. CASE idx \in Slot /\ h = "lo"
  <2>1. timeout_ctr'[idx]["lo"] = 0 /\ timeout_ctr'[idx]["hi"] = 0
    BY <1>0, <1>1, <1>6 DEF CallInv, LowWordsOnly, TypeOK, Wide, Half
  <2>2. timeout_ctr'[idx] = Zero
    <3>1. timeout_ctr'[idx] \in Wide
      BY <1>0, <1>6, PromiseCallStep DEF CallInv, TypeOK
    <3> QED
      BY <2>1, <3>1, Halves
  <2>3. Pending'[idx] = Promise!Free
    BY <1>6, <2>2, FreeIsFree DEF Pending
  <2>4. Pending' = [Pending EXCEPT ![idx] = Promise!Free]
    <3>1. Pending = [i \in Slot |-> Pending[i]] /\ Pending' = [i \in Slot |-> Pending'[i]]
      BY DEF Pending
    <3> QED
      BY <1>4, <2>3, <3>1
  <2>5. Promise!Cancel(idx)
    BY <1>1, <1>3, <2>4 DEF Promise!Cancel
  <2> QED
    BY <1>2, <1>6, <2>5 DEF Promise!Next
<1> QED
  BY <1>5, <1>6 DEF Half

\* Every step of the program.
LEMMA ProgramStep ==
  ASSUME PromiseStep, TimerInit \/ TimerDeinit \/ Calls \/ Continue
  PROVE  FillInv' /\ Swept' /\ Ticked' /\ (Promise!Next \/ UNCHANGED Promise!timerVars)
<1>1. irq = Outside /\ irq' = Outside
  <2>1. CASE TimerInit
    BY <2>1 DEF PromiseStep, PromiseInv, Ticked, TimerInit, shared
  <2>2. CASE TimerDeinit \/ Calls
    BY <2>2 DEF TimerDeinit, Calls, Timeout, Usleep, Cancel, shared
  <2>3. CASE Continue
    BY <2>3 DEF Continue, Scan, LoadHalf, Clear, Store, shared
  <2> QED
    BY <2>1, <2>2, <2>3
<1>2. Swept' /\ Ticked'
  BY <1>1, ProgramOthers
<1>3. CASE TimerInit \/ TimerDeinit \/ Calls
  <2>1. ~ Arming /\ ~ Arming' /\ UNCHANGED shared
    BY <1>3 DEF TimerInit, TimerDeinit, Calls, Timeout, Usleep, Cancel, Arming
  <2> QED
    BY <1>1, <1>2, <2>1, UnseenStep
<1>4. CASE Scan
  <2>1. ~ Arming /\ UNCHANGED shared
    BY <1>4 DEF Scan, Arming
  <2> QED
    BY <1>1, <1>2, <1>4, <2>1, ClaimingStep, UnseenStep
<1>5. ASSUME NEW h \in Half, LoadHalf(h)
      PROVE  FillInv' /\ UNCHANGED Promise!timerVars
  BY <1>5, LoadingStep
<1>6. ASSUME NEW h \in Half, Clear(h)
      PROVE  FillInv' /\ (Promise!Next \/ UNCHANGED Promise!timerVars)
  BY <1>6, ClearingStep
<1>7. ASSUME NEW w \in Half \union {"cb"}, Store(w)
      PROVE  FillInv' /\ (Promise!Next \/ UNCHANGED Promise!timerVars)
  <2>1. pc' \in {"idle", "store"}
    BY <1>7, StoredBy
  <2> QED
    BY <1>7, <2>1, StoringStep, FillingStep
<1> QED
  BY <1>2, <1>3, <1>4, <1>5, <1>6, <1>7 DEF Continue

\* Every step keeps the invariant, and is one of the promise's steps or none.
LEMMA PromiseInvStep ==
  ASSUME FirstEpoch, PromiseInv, [PromiseNext]_promiseVars
  PROVE  PromiseInv' /\ [Promise!Next]_(Promise!timerVars)
<1>1. CASE PromiseNext
  <2>1. PromiseStep /\ CallInv' /\ Next
    BY <1>1, CallInvStep DEF PromiseStep, PromiseInv, PromiseNext
  <2>2. CASE IrqEnter
    BY <2>1, <2>2, TickStep DEF PromiseInv
  <2>3. CASE IrqSlot
    <3>1. Ticked'
      BY <2>1, <2>3, RoundKeeps DEF PromiseStep, PromiseInv, Ticked, foreground
    <3> QED
      BY <2>1, <2>3, <3>1, RoundStep DEF PromiseInv
  <2>4. CASE TimerInit \/ TimerDeinit \/ Calls \/ Continue
    BY <2>1, <2>4, ProgramStep DEF PromiseInv
  <2> QED
    BY <2>1, <2>2, <2>3, <2>4 DEF Next, Irq
<1>2. CASE UNCHANGED promiseVars
  <2>1. CallInv'
    BY <1>2, CallInvStep DEF PromiseInv, promiseVars
  <2>2. /\ UNCHANGED <<timer_ctr, timeout_ctr, timeout_cb, pc, idx, req, now, todo, hits, irq, called, others>>
    BY <1>2 DEF promiseVars, vars, foreground
  <2>3. Arming' = Arming /\ Since' = Since
    BY <2>2 DEF Arming, Since
  <2>4. FillInv' /\ Swept' /\ Ticked'
    BY <2>2, <2>3 DEF PromiseInv, FillInv, Swept, Ticked, Expired
  <2>5. UNCHANGED Promise!timerVars
    BY <2>2, <2>3 DEF Promise!timerVars, Pending, Claimed
  <2> QED
    BY <2>1, <2>4, <2>5 DEF PromiseInv
<1> QED
  BY <1>1, <1>2

LEMMA PromiseInvInit ==
  ASSUME FirstEpoch, PromiseInit
  PROVE  PromiseInv /\ Promise!Init
<1>1. CallInv
  BY CallInvInit DEF PromiseInit
<1>2. /\ pc = "boot" /\ irq = Outside /\ others = {} /\ hits = 0 /\ ~ Arming /\ timer_ctr["lo"] = 0
      /\ \A i \in Slot : timeout_ctr[i] = Zero
      /\ called = [cb |-> NoCb, slot |-> 0]
  BY DEF PromiseInit, Init, Arming, Zero, Half
<1>3. FillInv /\ Ticked
  BY <1>2 DEF FillInv, Ticked
<1>4. Swept
  BY <1>2 DEF Swept, Expired
<1>5. Pending = [i \in Slot |-> Promise!Free]
  BY <1>2, FreeIsFree DEF Pending
<1>6. Claimed = Promise!NoClaim
  BY <1>2, ClaimedIs
<1> QED
  BY <1>1, <1>2, <1>3, <1>4, <1>5, <1>6, FreeIsFree DEF PromiseInv, Promise!Init

(* timer.c keeps its clients' promise in the first epoch of the clock, at     *)
(* whatever instruction the interrupt comes and whatever its callbacks arm    *)
(* and cancel: every step of the program, the handler and the callbacks is    *)
(* one of OneShotTimers or none.                                              *)
THEOREM PoolKeepsPromise == ASSUME FirstEpoch PROVE PromiseSpec => PromiseKept
<1>1. PromiseInit => PromiseInv /\ Promise!Init
  BY PromiseInvInit
<1>2. PromiseInv /\ [PromiseNext]_promiseVars => PromiseInv' /\ [Promise!Next]_(Promise!timerVars)
  BY PromiseInvStep
<1> QED
  BY <1>1, <1>2, PTL DEF PromiseSpec, PromiseKept, Promise!Spec


--------------------------------------------------------------------------------
(* Promises across epochs: 64-bit values as numbers, and the promises kept.    *)

(* A clock value is above every one with a smaller high word.                  *)
LEMMA HighWordDecides ==
  ASSUME NEW s \in Wide, NEW t \in Wide, s["hi"] < t["hi"]
  PROVE  Value(s) < Value(t)
<1>1. /\ s["hi"] \in Nat /\ t["hi"] \in Nat /\ Word \in Nat
      /\ s["lo"] \in Nat /\ s["lo"] < Word /\ t["lo"] \in Nat
  BY PoolAssumption DEF Wide, Half
<1>2. PICK e \in Nat : t["hi"] = s["hi"] + 1 + e
  BY <1>1, t["hi"] - s["hi"] - 1 \in Nat
<1>3. t["hi"] * Word = s["hi"] * Word + Word + e * Word /\ e * Word >= 0
  BY <1>1, <1>2
<1> DEFINE low == s["hi"] * Word
           high == t["hi"] * Word
           rest == e * Word
<1>4. /\ low \in Nat /\ high \in Nat /\ rest \in Nat /\ high = low + Word + rest
      /\ Value(s) = low + s["lo"] /\ Value(t) = high + t["lo"]
  BY <1>1, <1>3 DEF Value
<1> HIDE DEF low, high, rest
<1> QED
  BY <1>1, <1>4

(* Comparing two halves compares the numbers.                                  *)
LEMMA LessIsLess ==
  ASSUME NEW s \in Wide, NEW t \in Wide
  PROVE  /\ Value(s) \in Nat /\ Value(t) \in Nat
         /\ Less(s, t) <=> Value(s) < Value(t)
<1>1. /\ s["hi"] \in Nat /\ t["hi"] \in Nat /\ Word \in Nat
      /\ s["lo"] \in Nat /\ t["lo"] \in Nat
  BY PoolAssumption DEF Wide, Half
<1>2. s["hi"] * Word \in Nat /\ t["hi"] * Word \in Nat
  BY <1>1
<1>3. Value(s) \in Nat /\ Value(t) \in Nat
  BY <1>1, <1>2 DEF Value
<1>4. CASE s["hi"] = t["hi"]
  <2> DEFINE high == s["hi"] * Word
  <2>1. high \in Nat /\ Value(s) = high + s["lo"] /\ Value(t) = high + t["lo"]
    BY <1>2, <1>4 DEF Value
  <2>2. Less(s, t) <=> s["lo"] < t["lo"]
    BY <1>1, <1>4 DEF Less
  <2> HIDE DEF high
  <2> QED
    BY <1>1, <1>3, <2>1, <2>2
<1>5. CASE s["hi"] < t["hi"]
  BY <1>3, <1>5, HighWordDecides DEF Less
<1>6. CASE t["hi"] < s["hi"]
  <2>1. Value(t) < Value(s)
    BY <1>6, HighWordDecides
  <2>2. ~ Less(s, t)
    BY <1>1, <1>6 DEF Less
  <2> QED
    BY <1>3, <2>1, <2>2
<1> QED
  BY <1>1, <1>3, <1>4, <1>5, <1>6

(* Adding with the carry adds the numbers, below the end of the clock.         *)
LEMMA PlusAdds ==
  ASSUME NEW t \in Wide, t["hi"] + 1 < Word, NEW d \in 0 .. Word - 1
  PROVE  Plus(t, d) \in Wide /\ Value(Plus(t, d)) = Value(t) + d
<1>1. Plus(t, d) \in Wide
  BY PlusType
<1>2. t["hi"] \in Nat /\ t["lo"] \in Nat /\ d \in Nat /\ Word \in Nat
  BY PoolAssumption DEF Wide, Half
<1>3. t["hi"] * Word \in Nat
  BY <1>2
<1>4. CASE t["lo"] + d < Word
  <2>1. Plus(t, d)["hi"] = t["hi"] /\ Plus(t, d)["lo"] = t["lo"] + d
    BY <1>4 DEF Plus, Wide, Half
  <2> QED
    BY <1>1, <1>2, <1>3, <2>1 DEF Value
<1>5. CASE ~ (t["lo"] + d < Word)
  <2>1. Plus(t, d)["hi"] = t["hi"] + 1 /\ Plus(t, d)["lo"] = t["lo"] + d - Word
    BY <1>2, <1>5 DEF Plus, Wide, Half
  <2>2. (t["hi"] + 1) * Word = t["hi"] * Word + Word
    BY <1>2
  <2> QED
    BY <1>1, <1>2, <1>3, <2>1, <2>2 DEF Value
<1> QED
  BY <1>4, <1>5

(* A free timer's deadline is the number zero.                                 *)
LEMMA ValueOfZero == Value(Zero) = 0
  BY PoolAssumption DEF Value, Zero, Half

(* The clock counts the ticks and stays within its bound.                      *)
ClockInv ==
  /\ ticks = Value(timer_ctr)
  /\ timer_ctr["hi"] <= MaxClock["hi"]

(* An arming call that no tick has hit holds the clock as it is, has stored    *)
(* what it should, and no handler has run since.                               *)
ExactInv ==
  /\ pc \notin {"load", "store", "start", "poll"} => hits = 0
  /\ pc \in {"scan", "load", "store"} => req.usec \in Delay
  /\ pc \in {"load", "store"} /\ hits = 0 => irq = Outside
  /\ pc \in {"load", "start", "poll"} => todo \subseteq Half
  /\ pc = "load" /\ hits = 0 => \A h \in Half \ todo : now[h] = timer_ctr[h]
  /\ pc = "store" /\ hits = 0 =>
       /\ now = timer_ctr
       /\ \A h \in Half \ todo : timeout_ctr[idx][h] = Plus(now, req.usec)[h]
       /\ "cb" \notin todo => timeout_cb[idx] = req.cb

(* The timer being filled or cleared is promised to nobody.                    *)
BusyInv ==
  /\ honoured \in [Slot -> [cb : Callback \union {NoCb}, due : Nat]]
  /\ pc \in {"load", "store"} => idx \in Slot
  /\ pc \in {"load", "store", "clear"} /\ idx \in Slot => honoured[idx] = Nothing

(* A promised timer is as it was promised, and overdue only by the tick the    *)
(* handler is working on, and only while the handler has not come to it.       *)
Kept(i) ==
  honoured[i] # Nothing =>
    /\ honoured[i].due > 0
    /\ timeout_cb[i] = honoured[i].cb
    /\ Value(timeout_ctr[i]) = honoured[i].due
    /\ irq = Outside \/ (irq \in Slot /\ i < irq) => ticks <= honoured[i].due
    /\ irq \in Slot => ticks <= honoured[i].due + 1

HistoryInv ==
  /\ TypeOK
  /\ ClockInv
  /\ ExactInv
  /\ BusyInv
  /\ \A i \in Slot : Kept(i)

(* A step from a state of the invariant.                                       *)
HistoryStep == HistoryInv /\ HistoryNext

(* A promised timer is not free.                                               *)
LEMMA PromisedNotZero ==
  ASSUME HistoryInv, NEW i \in Slot, honoured[i] # Nothing
  PROVE  timeout_ctr[i] # Zero
<1>1. Kept(i)
  BY DEF HistoryInv
<1>2. Value(timeout_ctr[i]) # 0
  BY <1>1 DEF HistoryInv, BusyInv, Kept
<1> QED
  BY <1>2, ValueOfZero

(* A tick: the clock advances and every promise may be one tick overdue.       *)
LEMMA HistoryTick ==
  ASSUME MaxClock["hi"] + 1 < Word, HistoryStep, IrqEnter
  PROVE  HistoryInv'
<1> USE DEF HistoryStep
<1>1. TypeOK'
  BY TypeStep DEF HistoryInv, HistoryNext
<1>2. /\ UNCHANGED <<timeout_ctr, timeout_cb, pc, idx, req, now, start_ts, todo>>
      /\ irq = Outside /\ irq' = 0 /\ Outside \notin Slot /\ 0 \in Slot /\ 0 # Outside
  BY PoolAssumption DEF IrqEnter, foreground, Slot, Outside
<1>3. ticks' = ticks + 1 /\ honoured' = honoured
  <2>1. ~ Fired /\ ~ Cancelled /\ ~ Armed
    BY <1>2 DEF Fired, Cancelled, Armed
  <2> QED
    BY <1>2, <2>1 DEF HistoryNext, Promised
<1>4. ClockInv'
  <2>1. timer_ctr \in Wide /\ MaxClock \in Wide /\ timer_ctr' \in Wide
    BY <1>1, PoolAssumption DEF HistoryInv, TypeOK
  <2>2. Value(timer_ctr') = Value(timer_ctr) + 1
    <3>1. timer_ctr["hi"] + 1 < Word
      BY <2>1, PoolAssumption DEF HistoryInv, ClockInv, Wide, Half
    <3>2. 1 \in 0 .. Word - 1
      BY PoolAssumption
    <3> QED
      BY <2>1, <3>1, <3>2, PlusAdds DEF IrqEnter
  <2>3. ticks' = Value(timer_ctr')
    BY <1>3, <2>2 DEF HistoryInv, ClockInv
  <2>4. Value(timer_ctr') <= Value(MaxClock)
    BY <2>1, <2>2, LessIsLess DEF IrqEnter
  <2>5. ~ Less(MaxClock, timer_ctr')
    BY <2>1, <2>4, LessIsLess
  <2>6. timer_ctr'["hi"] <= MaxClock["hi"]
    BY <2>1, <2>5, Halves DEF Less
  <2> QED
    BY <2>3, <2>6 DEF ClockInv
<1>5. ExactInv'
  <2>1. IF pc \in {"load", "store", "start", "poll"} THEN hits' = hits + 1 ELSE hits' = hits
    BY DEF IrqEnter
  <2>2. hits' = 0 => pc \notin {"load", "store", "start", "poll"}
    BY <2>1 DEF HistoryInv, TypeOK
  <2> QED
    BY <1>2, <2>1, <2>2 DEF HistoryInv, ExactInv
<1>6. BusyInv'
  BY <1>2, <1>3 DEF HistoryInv, BusyInv
<1>7. ASSUME NEW i \in Slot PROVE Kept(i)'
  <2>1. Kept(i)
    BY DEF HistoryInv
  <2>2. ticks \in Nat
    BY LessIsLess DEF HistoryInv, TypeOK, ClockInv
  <2>3. ~ i < 0
    BY DEF Slot
  <2>4. honoured[i] # Nothing => honoured[i].due \in Nat
    BY DEF HistoryInv, BusyInv
  <2> QED
    BY <1>2, <1>3, <2>1, <2>2, <2>3, <2>4 DEF Kept
<1> QED
  BY <1>1, <1>4, <1>5, <1>6, <1>7 DEF HistoryInv

(* The handler zeroes the deadline of the timer it fires, and a callback that  *)
(* arms the timer again gives it a later one.                                  *)
LEMMA FiredIsTouched ==
  ASSUME MaxClock["hi"] + 1 < Word, TypeOK, ClockInv, IrqSlot, Expired(irq), irq' # Stuck
  PROVE  timeout_ctr'[irq] # timeout_ctr[irq]
<1> DEFINE ctr == [timeout_ctr EXCEPT ![irq] = Zero]
<1>1. irq \in Slot /\ timeout_ctr[irq] # Zero /\ Less(timeout_ctr[irq], timer_ctr)
  BY DEF IrqSlot, Expired
<1>2. timeout_ctr[irq] \in Wide /\ timer_ctr \in Wide /\ ctr[irq] = Zero
  BY <1>1 DEF TypeOK
<1>3. ctr \in [Slot -> Wide]
  BY ZeroType DEF TypeOK
<1>4. timeout_ctr' = ctr \/ Nest(ctr)
  BY <1>1 DEF IrqSlot, RunCallback
<1> HIDE DEF ctr
<1>5. CASE timeout_ctr' = ctr
  BY <1>1, <1>2, <1>5
<1>6. CASE Nest(ctr)
  <2>1. PICK h \in Slot \union {Outside} :
          LET left == [i \in Slot |-> IF i = h THEN Zero ELSE ctr[i]]
          IN  \/ /\ timeout_ctr' = left
                 /\ UNCHANGED timeout_cb
              \/ \E i \in Slot, cb \in Callback, usec \in Delay :
                   /\ left[i] = Zero
                   /\ \A j \in 0 .. i - 1 : left[j] # Zero
                   /\ timeout_ctr' = [left EXCEPT ![i] = Plus(timer_ctr, usec)]
                   /\ timeout_cb' = [timeout_cb EXCEPT ![i] = cb]
    BY <1>6 DEF Nest
  <2> DEFINE left == [i \in Slot |-> IF i = h THEN Zero ELSE ctr[i]]
  <2>2. left[irq] = Zero /\ DOMAIN left = Slot
    BY <1>1, <1>2
  <2>3. \/ timeout_ctr' = left
        \/ \E i \in Slot, usec \in Delay : timeout_ctr' = [left EXCEPT ![i] = Plus(timer_ctr, usec)]
    BY <2>1
  <2> HIDE DEF left
  <2>4. CASE timeout_ctr' = left
    BY <1>1, <2>2, <2>4
  <2>5. CASE \E i \in Slot, usec \in Delay : timeout_ctr' = [left EXCEPT ![i] = Plus(timer_ctr, usec)]
    <3>1. PICK i \in Slot, usec \in Delay : timeout_ctr' = [left EXCEPT ![i] = Plus(timer_ctr, usec)]
      BY <2>5
    <3>2. timeout_ctr'[irq] = Zero \/ timeout_ctr'[irq] = Plus(timer_ctr, usec)
      BY <1>1, <2>2, <3>1
    <3>3. Value(Plus(timer_ctr, usec)) >= Value(timer_ctr)
      <4>1. usec \in 0 .. Word - 1 /\ usec \in Nat
        BY PoolAssumption
      <4>2. timer_ctr["hi"] + 1 < Word
        BY <1>2, PoolAssumption DEF ClockInv, Wide, Half
      <4> QED
        BY <1>2, <4>1, <4>2, PlusAdds, LessIsLess
    <3>4. Value(timeout_ctr[irq]) < Value(timer_ctr)
      BY <1>1, <1>2, LessIsLess
    <3>5. timeout_ctr[irq] # Plus(timer_ctr, usec)
      BY <1>2, <3>3, <3>4, LessIsLess, PlusAdds
    <3> QED
      BY <1>1, <3>2, <3>5
  <2> QED
    BY <2>3, <2>4, <2>5
<1> QED
  BY <1>4, <1>5, <1>6

(* A round of the handler fires no promise: the callbacks it runs may end some *)
(* but change none, and the timer it passes is not overdue.                    *)
LEMMA HistoryRound ==
  ASSUME MaxClock["hi"] + 1 < Word, HistoryStep, IrqSlot
  PROVE  HistoryInv'
<1> USE DEF HistoryStep
<1>1. TypeOK'
  BY TypeStep DEF HistoryInv, HistoryNext
<1>2. /\ UNCHANGED <<timer_ctr, pc, idx, req, now, start_ts, todo, hits>>
      /\ irq \in Slot /\ irq # Outside /\ irq' \in {irq + 1, Stuck} /\ irq' # irq
  BY PoolAssumption DEF IrqSlot, RunCallback, foreground, Slot, Outside, Stuck
<1>3. ticks' = ticks /\ ticks \in Nat
  BY <1>2, LessIsLess DEF HistoryNext, HistoryInv, TypeOK, ClockInv
<1>4. IF Fired THEN honoured' = [i \in Slot |-> IF Untouched(i) THEN honoured[i] ELSE Nothing]
      ELSE honoured' = honoured /\ UNCHANGED <<timeout_ctr, timeout_cb>>
  <2>1. ~ Cancelled /\ ~ Armed
    BY <1>2 DEF Cancelled, Armed
  <2>2. honoured' = Promised
    BY DEF HistoryNext
  <2>3. CASE Fired
    BY <2>1, <2>2, <2>3 DEF Promised
  <2>4. CASE ~ Fired
    <3>1. UNCHANGED <<timeout_ctr, timeout_cb>>
      BY <1>2, <2>4 DEF IrqSlot, Fired
    <3> QED
      BY <2>1, <2>2, <2>4, <3>1 DEF Promised
  <2> QED
    BY <2>3, <2>4
<1>5. ASSUME NEW i \in Slot, honoured'[i] # Nothing
      PROVE  honoured'[i] = honoured[i] /\ Untouched(i)
  BY <1>5, <1>4 DEF Untouched
<1>6. ClockInv'
  BY <1>2, <1>3 DEF HistoryInv, ClockInv
<1>7. ExactInv'
  BY <1>2 DEF HistoryInv, ExactInv
<1>8. BusyInv'
  <2>1. honoured' \in [Slot -> [cb : Callback \union {NoCb}, due : Nat]]
    <3>1. Nothing \in [cb : Callback \union {NoCb}, due : Nat]
      BY DEF Nothing
    <3> QED
      BY <1>4, <3>1 DEF HistoryInv, BusyInv
  <2> QED
    BY <1>2, <1>5, <2>1 DEF HistoryInv, BusyInv
<1>9. ASSUME NEW i \in Slot PROVE Kept(i)'
  <2> SUFFICES ASSUME honoured'[i] # Nothing PROVE Kept(i)'
    BY DEF Kept
  <2>1. Kept(i) /\ honoured'[i] = honoured[i] /\ Untouched(i)
    BY <1>5 DEF HistoryInv
  <2>2. honoured[i].due \in Nat
    BY DEF HistoryInv, BusyInv
  <2>3. irq' # Stuck /\ i = irq => ticks <= honoured[i].due
    <3> SUFFICES ASSUME irq' # Stuck, i = irq PROVE ticks <= honoured[i].due
      OBVIOUS
    <3>1. ~ Expired(irq)
      BY <2>1, FiredIsTouched DEF HistoryInv, Untouched
    <3>2. timeout_ctr[i] # Zero
      BY <2>1, PromisedNotZero
    <3>3. ~ (Value(timeout_ctr[i]) < Value(timer_ctr))
      BY <3>1, <3>2, LessIsLess DEF Expired, HistoryInv, TypeOK
    <3> QED
      BY <1>3, <2>1, <2>2, <3>3 DEF Kept, HistoryInv, ClockInv
  <2>4. irq' = Outside \/ (irq' \in Slot /\ i < irq') => irq' # Stuck /\ (i < irq \/ i = irq)
    BY <1>2, PoolAssumption DEF Slot, Outside, Stuck
  <2>5. irq' \in Slot => irq' # Stuck
    BY PoolAssumption DEF Slot, Stuck
  <2> QED
    BY <1>2, <1>3, <2>1, <2>2, <2>3, <2>4, <2>5 DEF Kept, Untouched
<1> QED
  BY <1>1, <1>6, <1>7, <1>8, <1>9 DEF HistoryInv

(* Between ticks the promises stand, unless a call cancels one or makes one.   *)
LEMMA HistoryStands ==
  ASSUME HistoryStep, ~ Cancelled, ~ Armed,
         UNCHANGED <<timer_ctr, timeout_ctr, timeout_cb, irq>>
  PROVE  honoured' = honoured /\ ClockInv' /\ \A i \in Slot : Kept(i)'
<1> USE DEF HistoryStep
<1>1. honoured' = honoured
  <2>1. honoured' = Promised /\ honoured \in [Slot -> [cb : Callback \union {NoCb}, due : Nat]]
    BY DEF HistoryNext, HistoryInv, BusyInv
  <2>2. CASE Fired
    <3>1. honoured' = [i \in Slot |-> honoured[i]]
      BY <2>1, <2>2 DEF Promised, Untouched
    <3> QED
      BY <2>1, <3>1
  <2>3. CASE ~ Fired
    BY <2>1, <2>3 DEF Promised
  <2> QED
    BY <2>2, <2>3
<1>2. ticks' = ticks
  BY PoolAssumption DEF HistoryNext, Outside
<1> QED
  BY <1>1, <1>2 DEF HistoryInv, ClockInv, Kept

(* Calls that begin, and the search, promise nothing.                          *)
LEMMA HistoryBegin ==
  ASSUME HistoryStep,
         \/ TimerInit \/ TimerDeinit \/ Scan
         \/ \E cb \in Callback, usec \in Delay : Timeout(cb, usec)
         \/ \E usec \in Delay : Usleep(usec)
  PROVE  HistoryInv'
<1> USE DEF HistoryStep
<1>1. TypeOK'
  BY TypeStep DEF HistoryInv, HistoryNext
<1>2. /\ UNCHANGED <<timer_ctr, timeout_ctr, timeout_cb, irq>>
      /\ pc \in {"boot", "idle", "scan"} /\ pc' \in {"idle", "halt", "scan", "start", "load"}
      /\ hits' = 0
  BY DEF TimerInit, TimerDeinit, Scan, Timeout, Usleep, shared, Return, HistoryInv, ExactInv
<1>3. honoured' = honoured /\ ClockInv' /\ \A i \in Slot : Kept(i)'
  BY <1>2, HistoryStands DEF Cancelled, Armed
<1>4. pc' \in {"scan", "load"} => req'.usec \in Delay
  BY <1>2 DEF TimerInit, TimerDeinit, Scan, Timeout, Usleep, Return, HistoryInv, ExactInv
<1>5. pc' \in {"load", "start"} => todo' = Half
  BY DEF TimerInit, TimerDeinit, Scan, Timeout, Usleep, Return
<1>6. pc' = "load" => irq' = Outside /\ idx' \in Slot /\ honoured[idx'] = Nothing
  <2> SUFFICES ASSUME pc' = "load" PROVE irq' = Outside /\ idx' \in Slot /\ honoured[idx'] = Nothing
    OBVIOUS
  <2>1. irq' = Outside /\ idx' = idx /\ idx < NSlots /\ Free(idx)
    BY <1>2 DEF TimerInit, TimerDeinit, Scan, Timeout, Usleep, Return
  <2>2. idx \in Slot
    BY <2>1, PoolAssumption DEF HistoryInv, TypeOK, Slot
  <2> QED
    BY <2>1, <2>2, PromisedNotZero DEF Free
<1>7. ExactInv'
  BY <1>2, <1>4, <1>5, <1>6 DEF ExactInv
<1>8. BusyInv'
  BY <1>2, <1>3, <1>6 DEF HistoryInv, BusyInv
<1> QED
  BY <1>1, <1>3, <1>7, <1>8 DEF HistoryInv

(* A reading of the clock that no tick has hit is the clock.                   *)
LEMMA HistoryLoad ==
  ASSUME HistoryStep, NEW h \in Half, LoadHalf(h)
  PROVE  HistoryInv'
<1> USE DEF HistoryStep
<1> DEFINE t == [now EXCEPT ![h] = timer_ctr[h]]
<1>1. TypeOK'
  BY TypeStep DEF HistoryInv, HistoryNext
<1>2. /\ UNCHANGED <<timer_ctr, timeout_ctr, timeout_cb, irq>> /\ irq = Outside
      /\ pc \in {"load", "start", "poll"} /\ pc' # "clear" /\ h \in todo /\ todo \subseteq Half
  BY DEF LoadHalf, AfterLoad, shared, Return, HistoryInv, ExactInv
<1>3. honoured' = honoured /\ ClockInv' /\ \A i \in Slot : Kept(i)'
  BY <1>2, HistoryStands DEF Cancelled, Armed
<1>4. now \in [Half -> 0 .. Word - 1] /\ timer_ctr \in [Half -> 0 .. Word - 1]
  BY DEF HistoryInv, TypeOK, Wide
<1>5. t[h] = timer_ctr[h] /\ \A g \in Half \ {h} : t[g] = now[g]
  BY <1>4
<1>6. CASE todo # {h}
  <2>1. UNCHANGED <<pc, idx, req, start_ts, hits>> /\ now' = t /\ todo' = todo \ {h}
    BY <1>6 DEF LoadHalf
  <2> HIDE DEF t
  <2>2. pc' = "load" /\ hits' = 0 => \A g \in Half \ todo' : now'[g] = timer_ctr'[g]
    <3> SUFFICES ASSUME pc' = "load", hits' = 0, NEW g \in Half \ todo'
                 PROVE  now'[g] = timer_ctr'[g]
      OBVIOUS
    <3>1. CASE g = h
      BY <1>2, <1>5, <2>1, <3>1
    <3>2. CASE g # h
      BY <1>2, <1>5, <2>1, <3>2 DEF HistoryInv, ExactInv
    <3> QED
      BY <3>1, <3>2
  <2>3. ExactInv'
    BY <1>2, <2>1, <2>2 DEF HistoryInv, ExactInv
  <2>4. BusyInv'
    BY <1>2, <1>3, <2>1 DEF HistoryInv, BusyInv
  <2> QED
    BY <1>1, <1>3, <2>3, <2>4 DEF HistoryInv
<1>7. CASE todo = {h}
  <2>1. AfterLoad(t)
    BY <1>7 DEF LoadHalf
  <2>2. CASE pc = "load"
    <3>1. /\ pc' = "store" /\ now' = t /\ todo' = Half \union {"cb"}
          /\ UNCHANGED <<idx, req, start_ts, hits>>
      BY <2>1, <2>2 DEF AfterLoad, Stores
    <3>2. hits' = 0 => now' = timer_ctr'
      <4> SUFFICES ASSUME hits = 0 PROVE t = timer_ctr
        BY <1>2, <3>1
      <4>1. \A g \in Half \ {h} : now[g] = timer_ctr[g]
        BY <1>7, <2>2 DEF HistoryInv, ExactInv
      <4>2. \A g \in Half : t[g] = timer_ctr[g]
        BY <1>5, <4>1
      <4>3. t \in [Half -> 0 .. Word - 1]
        BY <1>4
      <4> HIDE DEF t
      <4> QED
        BY <1>4, <4>2, <4>3
    <3>3. ExactInv'
      BY <1>2, <2>2, <3>1, <3>2 DEF HistoryInv, ExactInv
    <3>4. BusyInv'
      BY <1>2, <1>3, <2>2, <3>1 DEF HistoryInv, BusyInv
    <3> QED
      BY <1>1, <1>3, <3>3, <3>4 DEF HistoryInv
  <2>3. CASE pc # "load"
    <3>1. \/ pc' = "poll" /\ todo' = Half
          \/ pc' = "idle" /\ hits' = 0
      BY <1>2, <2>1, <2>3 DEF AfterLoad, Return
    <3>2. ExactInv'
      BY <3>1 DEF ExactInv
    <3>3. BusyInv'
      BY <1>3, <3>1 DEF HistoryInv, BusyInv
    <3> QED
      BY <1>1, <1>3, <3>2, <3>3 DEF HistoryInv
  <2> QED
    BY <2>2, <2>3
<1> QED
  BY <1>6, <1>7

(* timer_cancel ends the promise made of its timer, and no other.              *)
LEMMA HistoryCancel ==
  ASSUME HistoryStep, NEW j \in Slot, Cancel(j)
  PROVE  HistoryInv'
<1> USE DEF HistoryStep
<1>1. TypeOK'
  BY TypeStep DEF HistoryInv, HistoryNext
<1>2. /\ UNCHANGED <<timer_ctr, timeout_ctr, timeout_cb, irq>> /\ irq = Outside
      /\ pc = "idle" /\ pc' = "clear" /\ idx' = j /\ hits' = hits /\ hits = 0
  BY DEF Cancel, shared, HistoryInv, ExactInv
<1>3. ticks' = ticks
  BY <1>2, PoolAssumption DEF HistoryNext, Outside
<1>4. honoured' = [honoured EXCEPT ![j] = Nothing]
  <2>1. ~ Fired /\ Cancelled /\ ~ Armed
    BY <1>2, PoolAssumption DEF Fired, Cancelled, Armed, Slot, Outside
  <2> QED
    BY <1>2, <2>1 DEF HistoryNext, Promised
<1>5. ClockInv'
  BY <1>2, <1>3 DEF HistoryInv, ClockInv
<1>6. ExactInv'
  BY <1>2 DEF ExactInv
<1>7. BusyInv'
  <2>1. Nothing \in [cb : Callback \union {NoCb}, due : Nat]
    BY DEF Nothing
  <2> QED
    BY <1>2, <1>4, <2>1 DEF HistoryInv, BusyInv
<1>8. ASSUME NEW i \in Slot PROVE Kept(i)'
  <2>1. honoured'[i] = Nothing \/ honoured'[i] = honoured[i]
    BY <1>4 DEF HistoryInv, BusyInv
  <2> QED
    BY <1>2, <1>3, <2>1 DEF HistoryInv, Kept
<1> QED
  BY <1>1, <1>5, <1>6, <1>7, <1>8 DEF HistoryInv

(* Zeroing a half of a cancelled timer disturbs nobody else's.                 *)
LEMMA HistoryClear ==
  ASSUME HistoryStep, NEW h \in Half, Clear(h)
  PROVE  HistoryInv'
<1> USE DEF HistoryStep
<1>1. TypeOK'
  BY TypeStep DEF HistoryInv, HistoryNext
<1>2. /\ UNCHANGED <<timer_ctr, timeout_cb, irq>> /\ irq = Outside
      /\ pc = "clear" /\ pc' \in {"clear", "idle"} /\ hits' = 0
      /\ pc' = "clear" => idx' = idx
  BY DEF Clear, Return, HistoryInv, ExactInv
<1>3. ticks' = ticks
  BY <1>2, PoolAssumption DEF HistoryNext, Outside
<1>4. honoured' = honoured
  <2>1. ~ Fired /\ ~ Cancelled /\ ~ Armed
    BY <1>2, PoolAssumption DEF Fired, Cancelled, Armed, Slot, Outside
  <2> QED
    BY <2>1 DEF HistoryNext, Promised
<1>5. ClockInv'
  BY <1>2, <1>3 DEF HistoryInv, ClockInv
<1>6. ExactInv'
  BY <1>2 DEF ExactInv
<1>7. BusyInv'
  BY <1>2, <1>4 DEF HistoryInv, BusyInv
<1>8. ASSUME NEW i \in Slot PROVE Kept(i)'
  <2>1. honoured[i] # Nothing => timeout_ctr'[i] = timeout_ctr[i]
    <3>1. PICK v : timeout_ctr' = [timeout_ctr EXCEPT ![idx] = v]
      BY DEF Clear
    <3> QED
      BY <1>2, <3>1 DEF HistoryInv, BusyInv, TypeOK
  <2> QED
    BY <1>2, <1>3, <1>4, <2>1 DEF HistoryInv, Kept
<1> QED
  BY <1>1, <1>5, <1>6, <1>7, <1>8 DEF HistoryInv

(* The last store of an arming call that no tick hit makes a promise of what   *)
(* the call was asked for; the others touch a timer promised to nobody.        *)
LEMMA HistoryStore ==
  ASSUME MaxClock["hi"] + 1 < Word, HistoryStep, NEW w \in Half \union {"cb"}, Store(w)
  PROVE  HistoryInv'
<1> USE DEF HistoryStep
<1>1. TypeOK'
  BY TypeStep DEF HistoryInv, HistoryNext
<1>2. /\ UNCHANGED <<timer_ctr, irq>> /\ irq = Outside /\ Outside \notin Slot
      /\ pc = "store" /\ w \in todo /\ idx \in Slot /\ honoured[idx] = Nothing /\ req.usec \in Delay
  BY PoolAssumption DEF Store, HistoryInv, ExactInv, BusyInv, Slot, Outside
<1>3. ticks' = ticks
  BY <1>2, PoolAssumption DEF HistoryNext, Outside
<1>4. ClockInv'
  BY <1>2, <1>3 DEF HistoryInv, ClockInv
<1>5. ~ Fired /\ ~ Cancelled
  BY <1>2 DEF Fired, Cancelled
<1>6. \A i \in Slot \ {idx} : timeout_ctr'[i] = timeout_ctr[i] /\ timeout_cb'[i] = timeout_cb[i]
  <2>1. CASE w = "cb"
    BY <2>1 DEF Store, HistoryInv, TypeOK, Half
  <2>2. CASE w \in Half
    <3>1. timeout_cb' = timeout_cb /\ \E v : timeout_ctr' = [timeout_ctr EXCEPT ![idx] = v]
      BY <2>2 DEF Store, Half
    <3> QED
      BY <3>1 DEF HistoryInv, TypeOK
  <2> QED
    BY <2>1, <2>2
<1>7. ASSUME hits = 0
      PROVE  /\ now = timer_ctr
             /\ \A g \in Half \ (todo \ {w}) : timeout_ctr'[idx][g] = Plus(now, req.usec)[g]
             /\ "cb" \notin todo \ {w} => timeout_cb'[idx] = req.cb
  <2>1. /\ now = timer_ctr
        /\ \A g \in Half \ todo : timeout_ctr[idx][g] = Plus(now, req.usec)[g]
        /\ "cb" \notin todo => timeout_cb[idx] = req.cb
    BY <1>2, <1>7 DEF HistoryInv, ExactInv
  <2>2. CASE w = "cb"
    <3>1. timeout_ctr' = timeout_ctr /\ timeout_cb' = [timeout_cb EXCEPT ![idx] = req.cb]
      BY <2>2 DEF Store, Half
    <3>2. timeout_cb'[idx] = req.cb
      BY <1>2, <3>1 DEF HistoryInv, TypeOK
    <3> QED
      BY <2>1, <2>2, <3>1, <3>2 DEF Half
  <2>3. CASE w \in Half
    <3> DEFINE v == Plus(now, req.usec)
    <3>1. /\ timeout_cb' = timeout_cb
          /\ timeout_ctr' = [timeout_ctr EXCEPT ![idx] = [timeout_ctr[idx] EXCEPT ![w] = v[w]]]
      BY <2>3 DEF Store, Half
    <3> HIDE DEF v
    <3>2. timeout_ctr[idx] \in [Half -> 0 .. Word - 1]
      BY <1>2 DEF HistoryInv, TypeOK, Wide
    <3>3. timeout_ctr'[idx] = [timeout_ctr[idx] EXCEPT ![w] = v[w]]
      BY <1>2, <3>1 DEF HistoryInv, TypeOK
    <3>4. timeout_ctr'[idx][w] = v[w] /\ \A g \in Half \ {w} : timeout_ctr'[idx][g] = timeout_ctr[idx][g]
      BY <2>3, <3>2, <3>3
    <3>5. \A g \in Half \ todo : timeout_ctr[idx][g] = v[g]
      BY <2>1 DEF v
    <3>6. \A g \in Half \ (todo \ {w}) : timeout_ctr'[idx][g] = v[g]
      BY <3>4, <3>5
    <3>7. "cb" # w
      BY <2>3 DEF Half
    <3> QED
      BY <2>1, <3>1, <3>6, <3>7 DEF v
  <2> QED
    BY <2>2, <2>3
<1>8. CASE todo # {w}
  <2>1. pc' = "store" /\ todo' = todo \ {w} /\ UNCHANGED <<idx, req, now, hits>>
    BY <1>2, <1>8 DEF Store
  <2>2. honoured' = honoured
    BY <1>5, <2>1 DEF HistoryNext, Promised, Armed
  <2>3. ExactInv'
    BY <1>2, <1>7, <2>1 DEF HistoryInv, ExactInv
  <2>4. BusyInv'
    BY <1>2, <2>1, <2>2 DEF HistoryInv, BusyInv
  <2>5. ASSUME NEW i \in Slot PROVE Kept(i)'
    BY <1>2, <1>3, <1>6, <2>2 DEF HistoryInv, Kept
  <2> QED
    BY <1>1, <1>4, <2>3, <2>4, <2>5 DEF HistoryInv
<1>9. CASE todo = {w}
  <2> DEFINE new == IF hits = 0 /\ ticks + req.usec # 0
                    THEN [cb |-> req.cb, due |-> ticks + req.usec] ELSE Nothing
  <2>1. pc' = "idle" /\ hits' = 0
    BY <1>9 DEF Store, Return
  <2>2. honoured' = [honoured EXCEPT ![idx] = new]
    BY <1>2, <1>5, <2>1 DEF HistoryNext, Promised, Armed
  <2>3. ticks \in Nat /\ req.usec \in Nat /\ req.usec \in 0 .. Word - 1
    <3>1. ticks \in Nat
      BY LessIsLess DEF HistoryInv, ClockInv, TypeOK
    <3>2. req.usec \in 0 .. Word - 1
      BY <1>2, PoolAssumption
    <3> QED
      BY <3>1, <3>2, PoolAssumption
  <2>4. new \in [cb : Callback \union {NoCb}, due : Nat]
    BY <2>3 DEF HistoryInv, TypeOK, Nothing
  <2>5. hits = 0 => timeout_cb'[idx] = req.cb /\ Value(timeout_ctr'[idx]) = ticks + req.usec
    <3> SUFFICES ASSUME hits = 0
                 PROVE  timeout_cb'[idx] = req.cb /\ Value(timeout_ctr'[idx]) = ticks + req.usec
      OBVIOUS
    <3>1. /\ now = timer_ctr /\ timeout_cb'[idx] = req.cb
          /\ \A g \in Half : timeout_ctr'[idx][g] = Plus(now, req.usec)[g]
      BY <1>7, <1>9
    <3>2. timer_ctr \in Wide /\ timer_ctr["hi"] + 1 < Word
      BY PoolAssumption DEF HistoryInv, TypeOK, ClockInv, Wide, Half
    <3>3. Value(Plus(now, req.usec)) = ticks + req.usec
      BY <2>3, <3>1, <3>2, PlusAdds DEF HistoryInv, ClockInv
    <3> QED
      BY <3>1, <3>3 DEF Value, Half
  <2> HIDE DEF new
  <2>6. honoured'[idx] = new /\ \A i \in Slot \ {idx} : honoured'[i] = honoured[i]
    BY <1>2, <2>2 DEF HistoryInv, BusyInv
  <2>7. ExactInv'
    BY <2>1 DEF ExactInv
  <2>8. BusyInv'
    BY <2>1, <2>2, <2>4 DEF HistoryInv, BusyInv
  <2>9. ASSUME NEW i \in Slot PROVE Kept(i)'
    <3>1. CASE i # idx
      BY <1>2, <1>3, <1>6, <2>6, <3>1 DEF HistoryInv, Kept
    <3>2. CASE i = idx
      <4>1. new # Nothing =>
              hits = 0 /\ new.cb = req.cb /\ new.due = ticks + req.usec /\ new.due # 0
        BY DEF new
      <4> QED
        BY <1>2, <1>3, <2>3, <2>5, <2>6, <3>2, <4>1 DEF Kept
    <3> QED
      BY <3>1, <3>2
  <2> QED
    BY <1>1, <1>4, <2>7, <2>8, <2>9 DEF HistoryInv
<1> QED
  BY <1>8, <1>9

(* Every step of timer.c and of its clients keeps every promise.               *)
LEMMA HistoryInvStep ==
  ASSUME MaxClock["hi"] + 1 < Word
  PROVE  HistoryInv /\ [HistoryNext]_historyVars => HistoryInv'
<1> SUFFICES ASSUME HistoryInv, [HistoryNext]_historyVars PROVE HistoryInv'
  OBVIOUS
<1>1. CASE UNCHANGED historyVars
  BY <1>1 DEF historyVars, vars, foreground, HistoryInv, TypeOK, ClockInv, ExactInv, BusyInv, Kept
<1>2. CASE HistoryNext
  <2>1. HistoryStep
    BY <1>2 DEF HistoryStep
  <2> QED
    BY <1>2, <2>1, HistoryTick, HistoryRound, HistoryBegin, HistoryLoad, HistoryCancel,
       HistoryClear, HistoryStore
    DEF HistoryNext, Next, Irq, Calls, Continue
<1> QED
  BY <1>1, <1>2

(* At boot nothing is promised yet.                                            *)
LEMMA HistoryInvInit == HistoryInit => HistoryInv
<1> SUFFICES ASSUME HistoryInit PROVE HistoryInv
  OBVIOUS
<1>1. TypeOK
  BY TypeInit DEF HistoryInit
<1>2. ClockInv
  BY ValueOfZero, Halves, ZeroType, PoolAssumption DEF HistoryInit, Init, ClockInv, Zero, Half
<1>3. Nothing \in [cb : Callback \union {NoCb}, due : Nat]
  BY DEF Nothing
<1> QED
  BY <1>1, <1>2, <1>3 DEF HistoryInit, Init, HistoryInv, ExactInv, BusyInv, Kept

(* In whichever epoch, whatever callbacks do and whoever else arms and cancels *)
(* timers: what an arming call that no tick hit was asked for is what the pool *)
(* does, for a clock that ends before 64 bits do.                              *)
THEOREM UninterruptedArmsHold ==
  ASSUME MaxClock["hi"] + 1 < Word PROVE HistorySpec => []UninterruptedArmsAreExact
<1>1. HistoryInv => UninterruptedArmsAreExact
  BY DEF HistoryInv, Kept, UninterruptedArmsAreExact
<1> QED
  BY <1>1, HistoryInvInit, HistoryInvStep, PTL DEF HistorySpec
================================================================================
