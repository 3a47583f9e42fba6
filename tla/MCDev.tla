------------------------------- MODULE MCDev --------------------------------
(***************************************************************************)
(* Five parts of the kernel in which processes and interrupt handlers meet *)
(* on a lock and a sleep channel: the log, the spin locks themselves, the  *)
(* keyboard, the console and the clock.  They share no state, so every     *)
(* behaviour is one of one part, chosen at the start.                      *)
(***************************************************************************)
EXTENDS Log, Spin, Kbd, Console, Clock

VARIABLE part

devVars == <<vars, spinVars, kbdVars, consVars, clockVars, part>>

\* The keys: both CTL keys, a SHIFT key, the SHIFT code that extended keys send
\* with theirs, one ALT, CAPSLOCK and a letter.
MCKeys ==
  {<<"ctl", 0>>, <<"ctl", 1>>, <<"lshift", 0>>, <<"lshift", 1>>,
   <<"alt", 1>>, <<"caps", 0>>, <<"a", 0>>}

DevInit ==
  /\ part \in {"log", "spin", "kbd", "console", "clock"}
  /\ Init /\ SpinInit /\ KbdInit /\ ConsoleInit /\ ClockInit
  /\ part # "kbd" => down = {}
  /\ part # "clock" => ticks = 0

LogDo(A) ==
  /\ part = "log" /\ A
  /\ UNCHANGED <<spinVars, kbdVars, consVars, clockVars, part>>

ConsoleDo(A) ==
  /\ part = "console" /\ A
  /\ UNCHANGED <<vars, spinVars, kbdVars, clockVars, part>>

ClockDo(A) ==
  /\ part = "clock" /\ A
  /\ UNCHANGED <<vars, spinVars, kbdVars, consVars, part>>

DevNext ==
  \/ LogDo(Next) \/ ConsoleDo(ConsoleNext) \/ ClockDo(ClockNext)
  \/ /\ part = "spin" /\ SpinNext
     /\ UNCHANGED <<vars, kbdVars, consVars, clockVars, part>>
  \/ /\ part = "kbd" /\ KbdNext
     /\ UNCHANGED <<vars, spinVars, consVars, clockVars, part>>

\* A started step of a process, of commit() or of recovery is eventually
\* taken: the scheduler runs every RUNNABLE process, and iderw returns.  An
\* operation ends: it writes finitely often.  Nobody has to start one, to type
\* or to wait for the clock to tick.
Fairness ==
  /\ WF_devVars(LogDo(CommitStep)) /\ WF_devVars(LogDo(ReadHead))
  /\ \A p \in Procs :
       /\ SF_devVars(LogDo(EndOp(p))) /\ WF_devVars(LogDo(EndCommit(p)))
       /\ WF_devVars(LogDo(LogWriteEnter(p) \/ LogWriteScan(p) \/ LogWriteStore(p)
                           \/ LogWriteCheck(p) \/ LogWriteLoad(p) \/ LogWriteInc(p)
                           \/ LogWritePin(p)))
  /\ \A p \in ConReaders : WF_devVars(ConsoleDo(Read(p)))
  /\ \A p \in Sleepers : WF_devVars(ClockDo(SleepLoop(p)))

DevSpec == DevInit /\ [][DevNext]_devVars /\ Fairness

\* Every process asleep in begin_op is eventually woken, and goes on.
SleepersWake == \A p \in Procs : pc[p] = "sleep" ~> pc[p] # "sleep"

\* Nobody waits in vain: not in begin_op, and not in consoleread or sys_sleep
\* once killed, though nobody types and no clock ticks.
WaitersReturn == SleepersWake /\ KilledReadReturns /\ KilledSleepReturns
=============================================================================
