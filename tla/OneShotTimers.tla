----------------------------- MODULE OneShotTimers -----------------------------
(***************************************************************************)
(* What timer.c promises its clients: a fixed number of one-shot timers.   *)
(* A timer that is armed runs its callback once, after the requested time  *)
(* and before the clock moves on, unless it is cancelled first; cancelling *)
(* names the timer by its number, whoever armed it.                        *)
(*                                                                         *)
(* The main program arms in two steps: it claims a free timer and later    *)
(* fills it.  In between, the handler may run the timer it claimed if the  *)
(* requested time has gone by, and a callback may arm or cancel it, as if  *)
(* nobody had claimed it; then what the filling leaves is a mix of both.   *)
(* Every other timer is as exact as before.                                *)
(*                                                                         *)
(* Times are ticks of the 100 us interrupt.  A deadline of zero is none.   *)
(***************************************************************************)
EXTENDS Integers

CONSTANTS
  Slot,      \* the numbers of the timers
  Callback,  \* the functions that can be armed
  Nested,    \* those that use the timers themselves
  Delay      \* the durations clients ask for, in ticks

VARIABLES
  now,     \* ticks since boot
  timer,   \* what each timer has pending
  claim,   \* the arming call of the main program in progress
  called   \* the last callback that ran, and its timer

timerVars == <<now, timer, claim, called>>

NoCb == "none"
None == -1
Later(s, t) == IF s < t THEN t ELSE s
Armed(cb, due) == [cb |-> cb, due |-> due]
Free == Armed(NoCb, 0)

\* others: what callbacks stored in the claimed timer, NoCb when they freed it.
NoClaim == [slot |-> None, cb |-> NoCb, usec |-> 0, since |-> 0, others |-> {}]

Init ==
  /\ now = 0
  /\ timer = [i \in Slot |-> Free]
  /\ claim = NoClaim
  /\ called = [cb |-> NoCb, slot |-> 0]

\* The main program begins to arm timer i, which nobody is waiting for.
Claim(i, cb, usec) ==
  /\ claim = NoClaim
  /\ timer[i] = Free
  /\ claim' = [slot |-> i, cb |-> cb, usec |-> usec, since |-> now, others |-> {}]
  /\ UNCHANGED <<now, timer, called>>

\* What may have been stored in the claimed timer in the end: what was asked for,
\* from a reading of the clock during the call; or, if callbacks used the timer
\* or the handler ran it meanwhile, nothing or any mix of what was stored.
Outcomes ==
  LET Asked(usec) == {read + usec : read \in claim.since .. now}
  IN  IF claim.others = {}
      THEN {Armed(claim.cb, due) : due \in Asked(claim.usec)}
      ELSE {Free} \union {Armed(cb, due) : cb \in (claim.others \union {claim.cb}) \ {NoCb},
                                          due \in UNION {Asked(usec) : usec \in Delay}}

\* The main program has armed the timer it claimed.  A deadline that is past by
\* then is as good as now.
Fill ==
  /\ claim # NoClaim
  /\ \E new \in Outcomes :
       timer' = [timer EXCEPT ![claim.slot] =
                   IF new.due = 0 THEN Free ELSE Armed(new.cb, Later(now, new.due))]
  /\ claim' = NoClaim
  /\ UNCHANGED <<now, called>>

\* The main program gives up whatever timer i has pending.
Cancel(i) ==
  /\ claim = NoClaim
  /\ timer' = [timer EXCEPT ![i] = Free]
  /\ UNCHANGED <<now, claim, called>>

\* What the pool p is once the handler or a callback has freed timer i, or a
\* callback has armed it.
pool == [timer |-> timer, claim |-> claim]
Use(p, i, entry) ==
  IF i = p.claim.slot
  THEN [timer |-> p.timer, claim |-> [p.claim EXCEPT !.others = @ \union {entry.cb}]]
  ELSE [timer |-> [p.timer EXCEPT ![i] = entry], claim |-> p.claim]
Freed(p, i) == IF i = None THEN p ELSE Use(p, i, Free)

Becomes(p) == timer' = p.timer /\ claim' = p.claim

\* A callback gives up timer i, or arms it, which nobody is waiting for.
CallbackCancel(i) == Becomes(Freed(pool, i)) /\ UNCHANGED <<now, called>>

CallbackArm(i, cb, usec) ==
  /\ timer[i] = Free
  /\ Becomes(Use(pool, i, Armed(cb, now + usec)))
  /\ UNCHANGED <<now, called>>

\* Timer i is overdue.  A claimed timer may be, too: when the time it was claimed
\* for has gone by, or when a callback has used it.
Overdue(i) ==
  IF i = claim.slot
  THEN claim.others # {} \/ claim.since + claim.usec < now
  ELSE timer[i] # Free /\ timer[i].due < now

\* The callback cb of timer i runs, once.
Runs(i, cb) ==
  /\ Overdue(i)
  /\ i = claim.slot \/ cb = timer[i].cb
  /\ called' = [cb |-> cb, slot |-> i]
  /\ UNCHANGED now

Fire(i, cb) == Runs(i, cb) /\ Becomes(Freed(pool, i))

\* A callback that uses the timers may give one up and may arm one.
FireNested(i, cb) ==
  /\ Runs(i, cb)
  /\ \E gone \in Slot \union {None} :
       LET left == Freed(Freed(pool, i), gone)
       IN  \/ Becomes(left)
           \/ \E new \in Slot, armed \in Callback, usec \in Delay :
                /\ left.timer[new] = Free
                /\ Becomes(Use(left, new, Armed(armed, now + usec)))

\* The clock moves on only when no timer is left overdue.
Tick ==
  /\ \A i \in Slot : timer[i] # Free => now <= timer[i].due
  /\ now' = now + 1
  /\ UNCHANGED <<timer, claim, called>>

Next ==
  \/ Tick
  \/ \E i \in Slot, cb \in Callback, usec \in Delay : Claim(i, cb, usec)
  \/ Fill
  \/ \E i \in Slot : Cancel(i)
  \/ \E i \in Slot, cb \in Callback \union {NoCb} : Fire(i, cb)
  \/ \E i \in Slot, cb \in Nested : FireNested(i, cb)

Spec == Init /\ [][Next]_timerVars
================================================================================
