------------------------------- MODULE TimerPool -------------------------------
(***************************************************************************)
(* The firmware's timers (bsp/drivers/src/timer.c): a 64-bit microsecond   *)
(* clock advanced by a 100 us interrupt, and a pool of one-shot timers     *)
(* armed and cancelled by the main program with no locking at all.         *)
(*                                                                         *)
(* The CPU is a 32-bit RV32, so every access the main program makes to a   *)
(* 64-bit value is two loads or two stores, and the interrupt may come     *)
(* between any two of them.  timeout_ctr and timeout_cb are not volatile:  *)
(* the order of the stores of timer_timeout is whatever the compiler       *)
(* picked, so here it is any order.  The handler itself runs with          *)
(* interrupts disabled and is never interrupted.                           *)
(*                                                                         *)
(* One unit of time is one tick (100 us), in which the clock of the code   *)
(* advances.  A deadline between two ticks acts like the tick before it, a *)
(* wait of usleep that ends between two like the tick after it.  A half of *)
(* a 64-bit value has Word values (2^32 in the firmware).                  *)
(***************************************************************************)
EXTENDS Naturals

CONSTANTS
  NSlots,    \* timers in the pool (5)
  Callback,  \* the functions clients arm
  Nested,    \* callbacks that use the pool themselves (print_vm_stats_hide)
  Sleeping,  \* callbacks that call usleep (print_vm_stats_hide on an ST7032)
  Delay,     \* the durations clients ask for
  Word,      \* number of values of a half of a 64-bit integer
  OpTicks,   \* bound: ticks that hit one arming call after it read the clock
  MaxClock   \* bound: the clock stops here, [hi, lo]

Half == {"hi", "lo"}
Slot == 0 .. NSlots - 1
Outside == NSlots      \* irq: the handler is not running
Stuck == NSlots + 1    \* irq: the handler will never return
Wide == [Half -> 0 .. Word - 1]
NoCb == "none"

ASSUME PoolAssumption ==
  /\ NSlots \in Nat \ {0}
  /\ Word \in Nat \ {0, 1}
  /\ OpTicks \in Nat
  /\ Delay \subseteq 0 .. Word - 1
  /\ NoCb \notin Callback
  /\ MaxClock \in Wide
  /\ Nested \subseteq Callback
  /\ Sleeping \subseteq Callback

VARIABLES
  timer_ctr,    \* the clock
  timeout_ctr,  \* deadline of each timer, zero when it is free
  timeout_cb,   \* callback of each timer
  pc,           \* where the main program is in timer.c
  idx,          \* timer being examined or written by the main program
  req,          \* callback and duration of the call in progress
  now,          \* the clock as the main program loaded it
  start_ts,     \* usleep's first reading of the clock
  todo,         \* loads or stores the current statement still has to do
  hits,         \* ticks since the call in progress began to load the clock
  irq,          \* timer the handler is examining, Outside or Stuck
  called        \* the last callback the handler ran, and its timer

foreground == <<pc, idx, req, now, start_ts, todo>>
vars == <<timer_ctr, timeout_ctr, timeout_cb, foreground, hits, irq, called>>

Zero == [h \in Half |-> 0]
NoReq == [cb |-> NoCb, usec |-> 0]

PlusNoCarry(t, d) == [t EXCEPT !["lo"] = (@ + d) % Word] \* mutant

\* 64-bit addition of a duration, with the carry between the halves.
Plus(t, d) ==
  IF t["lo"] + d < Word
  THEN [t EXCEPT !["lo"] = @ + d]
  ELSE [t EXCEPT !["lo"] = @ + d - Word,
                 !["hi"] = IF @ + 1 < Word THEN @ + 1 ELSE 0]

Less(s, t) ==
  \/ s["hi"] < t["hi"]
  \/ s["hi"] = t["hi"] /\ s["lo"] < t["lo"]

Init ==
  /\ timer_ctr = Zero
  /\ timeout_ctr = [i \in Slot |-> Zero]
  /\ timeout_cb = [i \in Slot |-> NoCb]
  /\ pc = "boot"
  /\ idx = 0
  /\ req = NoReq
  /\ now = Zero
  /\ start_ts = Zero
  /\ todo = {}
  /\ hits = 0
  /\ irq = Outside
  /\ called = [cb |-> NoCb, slot |-> 0]
--------------------------------------------------------------------------------
(* The interrupt handler. *)

\* The tick is taken between two instructions of the main program.
IrqEnter ==
  /\ irq = Outside
  /\ pc \notin {"boot", "halt"}
  /\ Less(timer_ctr, MaxClock)
  /\ pc \in {"load", "store"} => hits < OpTicks
  /\ timer_ctr' = Plus(timer_ctr, 1)
  /\ irq' = 0
  /\ hits' = IF pc \in {"load", "store", "start", "poll"} THEN hits + 1 ELSE hits
  /\ UNCHANGED <<timeout_ctr, timeout_cb, foreground, called>>

ExpiredButLast(i) == i + 1 < NSlots /\ timeout_ctr[i] # Zero /\ Less(timeout_ctr[i], timer_ctr) \* mutant

\* The handler's test of timer i.
Expired(i) == timeout_ctr[i] # Zero /\ Less(timeout_ctr[i], timer_ctr)

\* What a callback of Nested does to the pool, deadlines being ctr: it cancels
\* the timer its client remembers (lcd.c's timer_idx), if any, and may arm one.
Nest(ctr) ==
  \E h \in Slot \union {Outside} :
    LET left == [i \in Slot |-> IF i = h THEN Zero ELSE ctr[i]]
    IN  \/ /\ timeout_ctr' = left
           /\ UNCHANGED timeout_cb
        \/ \E i \in Slot, cb \in Callback, usec \in Delay :
             /\ left[i] = Zero
             /\ \A j \in 0 .. i - 1 : left[j] # Zero
             /\ timeout_ctr' = [left EXCEPT ![i] = Plus(timer_ctr, usec)]
             /\ timeout_cb' = [timeout_cb EXCEPT ![i] = cb]

CallbackRepeats(cb, ctr) == irq' = irq + 1 /\ UNCHANGED <<timeout_ctr, timeout_cb>> \* mutant

\* The callback of timer irq, whose deadline the handler has just zeroed.
\* usleep waits for timer_ctr, which only this handler advances; a call of null
\* is not expected back either.
RunCallback(cb, ctr) ==
  \/ /\ cb \in Sleeping \union {NoCb}
     /\ irq' = Stuck
     /\ timeout_ctr' = ctr
     /\ UNCHANGED timeout_cb
  \/ /\ cb \in Nested \ Sleeping
     /\ irq' = irq + 1
     /\ Nest(ctr)
  \/ /\ cb \notin Nested \union Sleeping \union {NoCb}
     /\ irq' = irq + 1
     /\ timeout_ctr' = ctr
     /\ UNCHANGED timeout_cb

\* One round of the handler's loop.
IrqSlot ==
  /\ irq \in Slot
  /\ \/ /\ Expired(irq)
        /\ called' = [cb |-> timeout_cb[irq], slot |-> irq]
        /\ RunCallback(timeout_cb[irq], [timeout_ctr EXCEPT ![irq] = Zero])
     \/ /\ ~ Expired(irq)
        /\ irq' = irq + 1
        /\ UNCHANGED <<timeout_ctr, timeout_cb, called>>
  /\ UNCHANGED <<timer_ctr, foreground, hits>>
--------------------------------------------------------------------------------
(* The main program, which runs while the handler does not. *)

shared == <<timer_ctr, timeout_ctr, timeout_cb, irq, called>>

\* The function in progress returns and its locals go out of scope.
Return ==
  /\ pc' = "idle"
  /\ idx' = 0 /\ req' = NoReq /\ now' = Zero /\ start_ts' = Zero
  /\ todo' = {} /\ hits' = 0

TimerInit ==
  /\ pc = "boot"
  /\ pc' = "idle"
  /\ UNCHANGED <<shared, idx, req, now, start_ts, todo, hits>>

TimerDeinit ==
  /\ pc = "idle" /\ irq = Outside
  /\ pc' = "halt"
  /\ UNCHANGED <<shared, idx, req, now, start_ts, todo, hits>>

\* timer_timeout(usec, cb) is called.
Timeout(cb, usec) ==
  /\ pc = "idle" /\ irq = Outside
  /\ pc' = "scan"
  /\ req' = [cb |-> cb, usec |-> usec]
  /\ UNCHANGED <<shared, idx, now, start_ts, todo, hits>>

\* timer_timeout's test of timer i.
Free(i) == timeout_ctr[i] = Zero

\* One round of the search for a free timer; with none free timer_timeout
\* returns -1.  Testing both halves of a deadline at once loses no outcome: a
\* handler between the two loads does what it could do just after them.
Scan ==
  /\ pc = "scan" /\ irq = Outside
  /\ \/ /\ idx < NSlots /\ Free(idx)
        /\ pc' = "load"
        /\ todo' = Half
        /\ UNCHANGED <<idx, req, now, start_ts, hits>>
     \/ /\ idx < NSlots /\ ~ Free(idx)
        /\ idx' = idx + 1
        /\ UNCHANGED <<pc, req, now, start_ts, todo, hits>>
     \/ idx = NSlots /\ Return
  /\ UNCHANGED shared

\* usleep is called, for a time that ends with its usec-th tick or between it
\* and the one before.
Usleep(usec) ==
  /\ pc = "idle" /\ irq = Outside
  /\ pc' = "start"
  /\ req' = [cb |-> NoCb, usec |-> usec]
  /\ todo' = Half
  /\ UNCHANGED <<shared, idx, now, start_ts, hits>>

ElapsedEarly(t) == ~ Less(t, Plus(start_ts, req.usec - 1)) \* mutant
StoresDeadline == Half                                     \* mutant

\* usleep's test of the clock.
Elapsed(t) == ~ Less(t, Plus(start_ts, req.usec))

\* What timer_timeout stores.
Stores == Half \union {"cb"}

\* What follows a complete reading t of the clock.
AfterLoad(t) ==
  \/ /\ pc = "load"
     /\ pc' = "store"
     /\ now' = t
     /\ todo' = Stores
     /\ UNCHANGED <<idx, req, start_ts, hits>>
  \/ /\ pc = "start"
     /\ pc' = "poll"
     /\ start_ts' = t
     /\ now' = Zero
     /\ todo' = Half
     /\ UNCHANGED <<idx, req, hits>>
  \/ /\ pc = "poll" /\ ~ Elapsed(t)
     /\ now' = Zero
     /\ todo' = Half
     /\ UNCHANGED <<pc, idx, req, start_ts, hits>>
  \/ /\ pc = "poll" /\ Elapsed(t)
     /\ Return

\* timer_ctr is loaded one half at a time.
LoadHalf(h) ==
  /\ pc \in {"load", "start", "poll"} /\ irq = Outside
  /\ h \in todo
  /\ LET t == [now EXCEPT ![h] = timer_ctr[h]]
     IN  \/ /\ todo # {h}
            /\ now' = t
            /\ todo' = todo \ {h}
            /\ UNCHANGED <<pc, idx, req, start_ts, hits>>
         \/ todo = {h} /\ AfterLoad(t)
  /\ UNCHANGED shared

\* timer_timeout stores the deadline and the callback, and returns.
Store(w) ==
  /\ pc = "store" /\ irq = Outside
  /\ w \in todo
  /\ \/ /\ w = "cb"
        /\ timeout_cb' = [timeout_cb EXCEPT ![idx] = req.cb]
        /\ UNCHANGED timeout_ctr
     \/ /\ w \in Half
        /\ timeout_ctr' = [timeout_ctr EXCEPT ![idx][w] = Plus(now, req.usec)[w]]
        /\ UNCHANGED timeout_cb
  /\ \/ todo = {w} /\ Return
     \/ /\ todo # {w}
        /\ todo' = todo \ {w}
        /\ UNCHANGED <<pc, idx, req, now, start_ts, hits>>
  /\ UNCHANGED <<timer_ctr, irq, called>>

\* timer_cancel(i) is called, for any timer number a client may hold.
Cancel(i) ==
  /\ pc = "idle" /\ irq = Outside
  /\ pc' = "clear"
  /\ idx' = i
  /\ todo' = Half
  /\ UNCHANGED <<shared, req, now, start_ts, hits>>

Clear(h) ==
  /\ pc = "clear" /\ irq = Outside
  /\ h \in todo
  /\ timeout_ctr' = [timeout_ctr EXCEPT ![idx][h] = 0]
  /\ \/ todo = {h} /\ Return
     \/ /\ todo # {h}
        /\ todo' = todo \ {h}
        /\ UNCHANGED <<pc, idx, req, now, start_ts, hits>>
  /\ UNCHANGED <<timer_ctr, timeout_cb, irq, called>>
--------------------------------------------------------------------------------
Calls ==
  \/ \E cb \in Callback, usec \in Delay : Timeout(cb, usec)
  \/ \E usec \in Delay : Usleep(usec)
  \/ \E i \in Slot : Cancel(i)

Continue ==
  \/ Scan
  \/ \E h \in Half : LoadHalf(h) \/ Clear(h)
  \/ \E w \in Half \union {"cb"} : Store(w)

Irq == IrqEnter \/ IrqSlot

Next == Irq \/ TimerInit \/ TimerDeinit \/ Calls \/ Continue

Spec == Init /\ [][Next]_vars
--------------------------------------------------------------------------------
(* What the pool guarantees. *)

TypeOK ==
  /\ timer_ctr \in Wide /\ now \in Wide /\ start_ts \in Wide
  /\ timeout_ctr \in [Slot -> Wide]
  /\ timeout_cb \in [Slot -> Callback \union {NoCb}]
  /\ pc \in {"boot", "idle", "scan", "load", "store", "start", "poll", "clear", "halt"}
  /\ idx \in 0 .. NSlots
  /\ req \in [cb : Callback \union {NoCb}, usec : Delay \union {0}]
  /\ todo \in SUBSET (Half \union {"cb"})
  /\ hits \in Nat
  /\ irq \in 0 .. Stuck
  /\ called \in [cb : Callback \union {NoCb}, slot : Slot]

\* timer_timeout publishes the deadline and the callback in separate stores the
\* handler may come between (timer.c:45, timer.c:85-86).  In the first epoch
\* the handler calls through a callback pointer nobody stored only in such an
\* arming call, and only when more ticks have hit the call than it was asked to
\* wait for: one is enough for the time 0 osd.c:137-151 asks for.
NoNullCall ==
  irq \in Slot /\ Expired(irq) /\ timeout_cb[irq] \notin Callback =>
    pc = "store" /\ idx = irq /\ "cb" \in todo /\ req.usec < hits

\* An armed timer runs, or is cancelled: it never stays behind in the pool
\* (timer.c:38-48), unless a handler does not return.  Deadlines and ticks beyond
\* the bounded clock are left out.
ToRun(i) == timeout_ctr[i] # Zero /\ Less(timeout_ctr[i], MaxClock)

ArmedRuns ==
  \A i \in Slot :
    (pc = "idle" /\ ToRun(i) /\ Less(timer_ctr, MaxClock))
      ~> (~ ToRun(i) \/ pc = "halt" \/ irq = Stuck)

\* usleep lets as many ticks pass as its time takes, rounded up to whole ticks,
\* although it compares two readings of the clock that ticks may interrupt
\* (timer.c:98-106): in the first epoch.  The first of them may come at once, so
\* the time that has passed may be up to a tick shorter.
SleepsItsTicks == [][pc = "poll" /\ pc' = "idle" => hits >= req.usec]_vars

\* "called every 100us" (timer.c:30): while the timer is enabled the clock goes
\* on, here until its bound.
CalledEvery100us == (pc = "idle") ~> (timer_ctr = MaxClock \/ pc = "halt")
================================================================================
