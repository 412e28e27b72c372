------------------------------ MODULE TimerPromise -----------------------------
(***************************************************************************)
(* The timers of TimerPool as its clients see them: OneShotTimers, in the  *)
(* first epoch of the clock, while no high word is in use.  A history      *)
(* variable says what callbacks did to the timer that an arming call of    *)
(* the main program has found free and has not finished filling.           *)
(***************************************************************************)
EXTENDS TimerPool, Integers

VARIABLE others

promiseVars == <<vars, others>>

PromiseInit == Init /\ others = {}

\* An arming call between its search and its return.
Arming == pc \in {"load", "store"}

\* What this round of the handler stored in the timer being filled.
Stored ==
  (IF Expired(irq) /\ irq = idx THEN {NoCb} ELSE {}) \union
  (IF timeout_ctr'[idx] = timeout_ctr[idx] /\ timeout_cb'[idx] = timeout_cb[idx] THEN {}
   ELSE {IF timeout_ctr'[idx] = Zero THEN NoCb ELSE timeout_cb'[idx]})

PromiseNext ==
  /\ Next
  /\ others' = CASE ~ Arming' -> {}
                 [] Arming' /\ irq \in Slot -> others \union Stored
                 [] OTHER -> others

PromiseSpec == PromiseInit /\ [][PromiseNext]_promiseVars

\* The hardware timer keeps interrupting, and a call that has begun goes on
\* although handlers keep suspending it (each returns long before the next
\* tick).  Nothing obliges the program to make a call.
FairSpec == PromiseSpec /\ WF_vars(Irq) /\ SF_vars(Continue)

\* A timer is armed when timer_timeout has returned, and free from the first half
\* timer_cancel zeroes.  A deadline that an arming call stored late counts as the
\* last tick before the handler looks.
Pending ==
  [i \in Slot |->
     IF timeout_ctr[i] = Zero \/ (Arming /\ idx = i)
     THEN [cb |-> NoCb, due |-> 0]
     ELSE LET tick == IF irq = Outside THEN timer_ctr["lo"] ELSE timer_ctr["lo"] - 1
          IN  [cb |-> timeout_cb[i],
               due |-> IF timeout_ctr[i]["lo"] < tick THEN tick ELSE timeout_ctr[i]["lo"]]]

Claimed ==
  IF Arming
  THEN [slot |-> idx, cb |-> req.cb, usec |-> req.usec, since |-> timer_ctr["lo"] - hits,
        others |-> others]
  ELSE [slot |-> -1, cb |-> NoCb, usec |-> 0, since |-> 0, others |-> {}]

Promise == INSTANCE OneShotTimers WITH now <- timer_ctr["lo"], timer <- Pending, claim <- Claimed

\* Every step of the program, the interrupt and the callbacks is one of the
\* steps its clients count on (timer.c:31-96), in the first epoch: the timer of
\* an arming call that is slower than the time it asks for, or that a callback
\* takes from under it, may be mixed up, and no other.
PromiseKept == Promise!Spec
================================================================================
