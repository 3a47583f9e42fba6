------------------------------- MODULE Clock --------------------------------
(***************************************************************************)
(* Time: the timer interrupt of trap.c and sys_sleep of sysproc.c, both    *)
(* under tickslock.  ticks is an unsigned integer that wraps at TWRAP      *)
(* (2^32 in the code); sys_sleep compares its distance from ticks0 with n  *)
(* as unsigned integers, so a negative n is one of the largest.            *)
(***************************************************************************)
EXTENDS Integers

CONSTANTS
  Sleepers,  \* processes that call sleep
  TWRAP      \* where ticks wraps

ASSUME ClockAssumption == TWRAP \in Nat \ {0}

VARIABLES
  ticks,    \* ticks
  tpc,      \* "out", "asleep" on &ticks, or "run": woken, or killed
  ticks0,   \* sys_sleep's ticks0
  dur,      \* sys_sleep's n
  tkilled,  \* proc->killed
  slept     \* ticks that really went by since the call

clockVars == <<ticks, tpc, ticks0, dur, tkilled, slept>>

ClockInit ==
  /\ ticks \in 0 .. TWRAP - 1
  /\ tpc = [p \in Sleepers |-> "out"]
  /\ ticks0 = [p \in Sleepers |-> 0]
  /\ dur = [p \in Sleepers |-> 0]
  /\ tkilled = [p \in Sleepers |-> FALSE]
  /\ slept = [p \in Sleepers |-> 0]

\* Mutant: the call waits for ticks to pass ticks0 + n.
NotYetDeadline(p) == ticks < (ticks0[p] + dur[p]) % TWRAP

\* ticks - ticks0 < n
NotYet(p) == (ticks - ticks0[p]) % TWRAP < dur[p]

SleepCall(p, n) ==
  /\ tpc[p] = "out" /\ ~tkilled[p]
  /\ tpc' = [tpc EXCEPT ![p] = "run"]
  /\ ticks0' = [ticks0 EXCEPT ![p] = ticks]
  /\ dur' = [dur EXCEPT ![p] = n]
  /\ slept' = [slept EXCEPT ![p] = 0]
  /\ UNCHANGED <<ticks, tkilled>>

\* The loop, from the call or a wakeup to the next sleep or the return.
SleepLoop(p) ==
  /\ tpc[p] = "run"
  /\ tpc' = [tpc EXCEPT ![p] = IF NotYet(p) /\ ~tkilled[p] THEN "asleep" ELSE "out"]
  /\ UNCHANGED <<ticks, ticks0, dur, tkilled, slept>>

\* Bound: a process that was woken runs again before ticks has come round to
\* its ticks0 (2^32 ticks, over a year).
NoLap == \A p \in Sleepers : tpc[p] = "run" => slept[p] < TWRAP - 1

\* The timer interrupt on CPU 0: ticks++; wakeup(&ticks).
Tick ==
  /\ NoLap
  /\ ticks' = (ticks + 1) % TWRAP
  /\ tpc' = [p \in Sleepers |-> IF tpc[p] = "asleep" THEN "run" ELSE tpc[p]]
  /\ slept' = [p \in Sleepers |-> IF tpc[p] = "out" THEN 0 ELSE slept[p] + 1]
  /\ UNCHANGED <<ticks0, dur, tkilled>>

KillSleeper(p) ==
  /\ ~tkilled[p] /\ tpc[p] # "out"
  /\ tkilled' = [tkilled EXCEPT ![p] = TRUE]
  /\ tpc' = [tpc EXCEPT ![p] = "run"]
  /\ UNCHANGED <<ticks, ticks0, dur, slept>>

ClockNext ==
  \/ Tick
  \/ \E p \in Sleepers :
       \/ \E n \in 0 .. TWRAP - 1 : SleepCall(p, n)
       \/ SleepLoop(p) \/ KillSleeper(p)

-----------------------------------------------------------------------------
(* Properties *)

\* No process is left asleep once its time is up: every tick wakes it, and it
\* sleeps again only if it has to.
NoOversleep == \A p \in Sleepers : tpc[p] = "asleep" => slept[p] < dur[p]

\* sleep(n) returns only after n ticks have really gone by, or because the
\* process was killed, also when ticks wraps in between; and it does not sleep
\* on after that.
SleepLasts ==
  /\ [][\A p \in Sleepers :
          tpc[p] = "run" /\ tpc'[p] = "out" => slept[p] >= dur[p] \/ tkilled[p]]_clockVars
  /\ []NoOversleep

\* A sleeper that is killed comes back from sys_sleep, ticks or no ticks.
KilledSleepReturns == []<>(\A p \in Sleepers : tkilled[p] => tpc[p] = "out")
=============================================================================
