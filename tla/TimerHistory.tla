------------------------------ MODULE TimerHistory ------------------------------
(***************************************************************************)
(* TimerPool across a carry from the low to the high word of the clock     *)
(* (every 71 minutes), where a load or a store that a tick interrupts may  *)
(* be torn.  Two history variables say what was promised to whom: a true   *)
(* count of the ticks, and for each timer the callback and the deadline of *)
(* its arming call, when no tick hit that call between its loads of the    *)
(* clock and its return.                                                   *)
(***************************************************************************)
EXTENDS TimerPool

VARIABLES ticks, honoured

historyVars == <<vars, ticks, honoured>>

Nothing == [cb |-> NoCb, due |-> 0]

HistoryInit ==
  /\ Init
  /\ ticks = 0
  /\ honoured = [i \in Slot |-> Nothing]

\* The steps that end a promise or make one.  What the callback of a timer that
\* has fired does to others is its own affair; a deadline of zero is none.
Fired == irq \in Slot /\ Expired(irq)
Untouched(i) == timeout_ctr'[i] = timeout_ctr[i] /\ timeout_cb'[i] = timeout_cb[i]
Cancelled == pc = "idle" /\ pc' = "clear"
Armed == pc = "store" /\ pc' = "idle"

Promised ==
  CASE Fired -> [i \in Slot |-> IF Untouched(i) THEN honoured[i] ELSE Nothing]
    [] Cancelled -> [honoured EXCEPT ![idx'] = Nothing]
    [] Armed -> [honoured EXCEPT ![idx] =
                   IF hits = 0 /\ ticks + req.usec # 0
                   THEN [cb |-> req.cb, due |-> ticks + req.usec]
                   ELSE Nothing]
    [] OTHER -> honoured

HistoryNext ==
  /\ Next
  /\ ticks' = IF irq = Outside /\ irq' = 0 THEN ticks + 1 ELSE ticks
  /\ honoured' = Promised

HistorySpec == HistoryInit /\ [][HistoryNext]_historyVars

Value(t) == t["hi"] * Word + t["lo"]

\* A timer of the main program whose arming call no tick hit keeps its callback
\* and its exact deadline, whatever other calls do to the pool and in whichever
\* epoch, and is not left overdue by a completed handler (timer.c:38-48,
\* timer.c:71-96), until it is cancelled, by the main program or a callback.
UninterruptedArmsAreExact ==
  \A i \in Slot : honoured[i] # Nothing =>
    /\ timeout_cb[i] = honoured[i].cb
    /\ Value(timeout_ctr[i]) = honoured[i].due
    /\ irq = Outside => ticks <= honoured[i].due
================================================================================
