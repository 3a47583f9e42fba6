-------------------------------- MODULE Proc --------------------------------
(***************************************************************************)
(* The process table and the per-CPU scheduler of proc.c: fork, exit,      *)
(* wait, kill, sleep, wakeup, yield, and the exit checks of trap().        *)
(*                                                                         *)
(* ptable.lock is a variable, held by a CPU and handed over by swtch: the  *)
(* code between acquire and the swtch of sched() is one step, the swtch    *)
(* another, what the resumed process does up to its release a third.       *)
(* Code that runs without the lock (the rest of allocproc and fork) is     *)
(* split where it changes the table.                                       *)
(*                                                                         *)
(* One event stands for what drivers and file-system code wait for: a      *)
(* condition under a lock lk, awaited with "while(!cond) sleep(chan, lk)"  *)
(* and raised by an interrupt handler.                                     *)
(***************************************************************************)
EXTENDS Integers

CONSTANTS
  Cpus,      \* processors
  NoCpu,     \* nobody holds the lock
  NPROC,     \* param.h: size of ptable.proc
  MaxPid,    \* bound: no fork once nextpid exceeds it
  KillPids,  \* arguments that kill() is called with
  Sleepers   \* slots whose processes wait for the event

ASSUME ProcAssumption ==
  /\ NoCpu \notin Cpus
  /\ NPROC \in Nat \ {0} /\ MaxPid \in Nat \ {0}
  /\ KillPids \subseteq Nat /\ Sleepers \subseteq 0 .. NPROC - 1

VARIABLES
  state, pid, parent, killed, chan,  \* struct proc, per slot
  kstack,    \* slots that own a kernel stack
  nextpid,
  lock,      \* the CPU that holds ptable.lock
  proc,      \* per CPU: the process whose kernel stack it is on
  pos,       \* per CPU: p of the scheduler's loop
  pc,        \* per slot: where the process is
  ctx,       \* per slot: what swtch returns into
  child,     \* per slot: fork's np
  lk, cond,  \* the event: its lock and its condition
  irq        \* per CPU: 1 while in the handler that raises the event

table == <<state, pid, parent, killed, chan, kstack, nextpid>>
cpuvars == <<proc, pos, irq>>
event == <<lk, cond>>
vars == <<table, lock, cpuvars, pc, ctx, child, event>>

Slots == 0 .. NPROC - 1
Nil == NPROC           \* a null struct proc pointer, a null chan
EvChan == NPROC + 1    \* the channel of the event
initproc == 0

Init ==  \* after userinit() and the start of the other CPUs
  /\ state = [s \in Slots |-> IF s = initproc THEN "RUNNABLE" ELSE "UNUSED"]
  /\ pid = [s \in Slots |-> IF s = initproc THEN 1 ELSE 0]
  /\ parent = [s \in Slots |-> Nil]
  /\ killed = [s \in Slots |-> 0]
  /\ chan = [s \in Slots |-> Nil]
  /\ kstack = {initproc}
  /\ nextpid = 2
  /\ lock = NoCpu
  /\ proc = [c \in Cpus |-> Nil]
  /\ pos = [c \in Cpus |-> 0]
  /\ pc = [s \in Slots |-> "user"]
  /\ ctx = [s \in Slots |-> IF s = initproc THEN "forkret" ELSE "none"]
  /\ child = [s \in Slots |-> Nil]
  /\ lk = NoCpu /\ cond = 0
  /\ irq = [c \in Cpus |-> 0]

\* Process p executes at l on CPU c, outside ptable.lock.
At(c, p, l) ==
  proc[c] = p /\ irq[c] = 0 /\ lock # c /\ pc[p] = l
goto(p, l) == pc' = [pc EXCEPT ![p] = l]

\* A system call starts: trap() lets a killed process exit instead.
Syscall(c, p) == At(c, p, "user") /\ killed[p] = 0

\* What a loop over the table finds first.
First(S) == {s \in S : \A q \in S : s <= q}

\* wakeup1: the new states when chan ch is woken.
wakeup1(st, ch) ==
  [s \in Slots |-> IF st[s] = "SLEEPING" /\ chan[s] = ch THEN "RUNNABLE" ELSE st[s]]

-----------------------------------------------------------------------------
(* fork *)

\* The locked half of allocproc; a full table returns -1 and changes nothing.
AllocProc(c, p) ==
  /\ Syscall(c, p) /\ lock = NoCpu
  /\ nextpid <= MaxPid
  /\ \E np \in First({s \in Slots : state[s] = "UNUSED"}) :
       /\ state' = [state EXCEPT ![np] = "EMBRYO"]
       /\ pid' = [pid EXCEPT ![np] = nextpid]
       /\ child' = [child EXCEPT ![p] = np]
  /\ nextpid' = nextpid + 1
  /\ goto(p, "kalloc")
  /\ UNCHANGED <<parent, killed, chan, kstack, lock, cpuvars, ctx, event>>

\* The rest of allocproc: kalloc of the kernel stack, which may fail.
AllocStack(c, p) ==
  /\ At(c, p, "kalloc")
  /\ LET np == child[p]
     IN  \/ /\ state' = [state EXCEPT ![np] = "UNUSED"]
            /\ goto(p, "user")
            /\ child' = [child EXCEPT ![p] = Nil]
            /\ UNCHANGED <<kstack, ctx>>
         \/ /\ kstack' = kstack \cup {np}
            /\ ctx' = [ctx EXCEPT ![np] = "forkret"]
            /\ goto(p, "copyuvm")
            /\ UNCHANGED <<state, child>>
  /\ UNCHANGED <<pid, parent, killed, chan, nextpid, lock, cpuvars, event>>

\* copyuvm may fail too; else the child gets its parent, files and cwd.
CopyUvm(c, p) ==
  /\ At(c, p, "copyuvm")
  /\ LET np == child[p]
     IN  \/ /\ kstack' = kstack \ {np}
            /\ state' = [state EXCEPT ![np] = "UNUSED"]
            /\ goto(p, "user")
            /\ child' = [child EXCEPT ![p] = Nil]
            /\ UNCHANGED parent
         \/ /\ parent' = [parent EXCEPT ![np] = p]
            /\ goto(p, "forked")
            /\ UNCHANGED <<kstack, state, child>>
  /\ UNCHANGED <<pid, killed, chan, nextpid, lock, cpuvars, ctx, event>>

ForkRunnable(c, p) ==
  /\ At(c, p, "forked") /\ lock = NoCpu
  /\ state' = [state EXCEPT ![child[p]] = "RUNNABLE"]
  /\ pc' = [pc EXCEPT ![p] = "user", ![child[p]] = "user"]
  /\ child' = [child EXCEPT ![p] = Nil]
  /\ UNCHANGED <<pid, parent, killed, chan, kstack, nextpid, lock, cpuvars, ctx, event>>

-----------------------------------------------------------------------------
(* exit, wait, kill *)

\* exit(), called by the process or by trap() for a killed one, closes its
\* files and puts its cwd, with nothing but its own fields changed.
Exit(c, p) ==
  /\ At(c, p, "user") /\ p # initproc
  /\ goto(p, "exit")
  /\ UNCHANGED <<table, lock, cpuvars, ctx, child, event>>

\* Mutants: the children keep their parent; nobody is woken.
ExitKeepsKids(c, p) ==
  /\ At(c, p, "exit") /\ lock = NoCpu
  /\ lock' = c
  /\ state' = [wakeup1(state, parent[p]) EXCEPT ![p] = "ZOMBIE"]
  /\ UNCHANGED <<pid, parent, killed, chan, kstack, nextpid, cpuvars, pc, ctx, child, event>>
ExitUnnoticed(c, p) ==
  /\ At(c, p, "exit") /\ lock = NoCpu
  /\ lock' = c
  /\ state' = [state EXCEPT ![p] = "ZOMBIE"]
  /\ parent' = [s \in Slots |-> IF parent[s] = p THEN initproc ELSE parent[s]]
  /\ UNCHANGED <<pid, killed, chan, kstack, nextpid, cpuvars, pc, ctx, child, event>>

\* The locked half of exit().
ExitLocked(c, p) ==
  /\ At(c, p, "exit") /\ lock = NoCpu
  /\ lock' = c
  /\ LET kids == {s \in Slots : parent[s] = p}
         st1 == wakeup1(state, parent[p])
         st2 == IF \E s \in kids : state[s] = "ZOMBIE" THEN wakeup1(st1, initproc) ELSE st1
     IN  /\ state' = [st2 EXCEPT ![p] = "ZOMBIE"]
         /\ parent' = [s \in Slots |-> IF s \in kids THEN initproc ELSE parent[s]]
  /\ UNCHANGED <<pid, killed, chan, kstack, nextpid, cpuvars, pc, ctx, child, event>>

\* One pass of wait()'s loop, entered or resumed from its sleep.
Wait(c, p) ==
  /\ \/ Syscall(c, p) /\ lock = NoCpu
     \/ proc[c] = p /\ lock = c /\ state[p] = "RUNNING" /\ pc[p] = "wait"
  /\ LET kids == {s \in Slots : parent[s] = p}
         zombies == {s \in kids : state[s] = "ZOMBIE"}
     IN  \/ \E z \in First(zombies) :
              /\ kstack' = kstack \ {z}
              /\ state' = [state EXCEPT ![z] = "UNUSED"]
              /\ pid' = [pid EXCEPT ![z] = 0]
              /\ parent' = [parent EXCEPT ![z] = Nil]
              /\ killed' = [killed EXCEPT ![z] = 0]
              /\ pc' = [pc EXCEPT ![z] = "user", ![p] = "user"]
              /\ ctx' = [ctx EXCEPT ![z] = "none", ![p] = "none"]
              /\ chan' = [chan EXCEPT ![p] = Nil]
              /\ lock' = NoCpu
         \/ /\ zombies = {} /\ (kids = {} \/ killed[p] = 1)
            /\ goto(p, "user")
            /\ ctx' = [ctx EXCEPT ![p] = "none"]
            /\ chan' = [chan EXCEPT ![p] = Nil]
            /\ lock' = NoCpu
            /\ UNCHANGED <<kstack, state, pid, parent, killed>>
         \/ /\ zombies = {} /\ kids # {} /\ killed[p] = 0
            /\ chan' = [chan EXCEPT ![p] = p]
            /\ state' = [state EXCEPT ![p] = "SLEEPING"]
            /\ goto(p, "wait")
            /\ ctx' = [ctx EXCEPT ![p] = "sleep"]
            /\ lock' = c
            /\ UNCHANGED <<kstack, pid, parent, killed>>
  /\ UNCHANGED <<nextpid, cpuvars, child, event>>

\* kill(i): the first slot with that pid, whatever its state.
Kill(c, p, i) ==
  /\ Syscall(c, p) /\ lock = NoCpu
  /\ \E s \in First({q \in Slots : pid[q] = i}) :
       /\ killed' = [killed EXCEPT ![s] = 1]
       /\ state' = [state EXCEPT ![s] = IF @ = "SLEEPING" THEN "RUNNABLE" ELSE @]
  /\ UNCHANGED <<pid, parent, chan, kstack, nextpid, lock, cpuvars, pc, ctx, child, event>>

\* trap(): an unexpected trap from user space kills the process.
Fault(c, p) ==
  /\ At(c, p, "user") /\ p # initproc
  /\ killed' = [killed EXCEPT ![p] = 1]
  /\ UNCHANGED <<state, pid, parent, chan, kstack, nextpid, lock, cpuvars, pc, ctx,
                 child, event>>

-----------------------------------------------------------------------------
(* sleep and wakeup, for the event *)

\* Mutant: the caller gives lk up before it calls sleep.
AwaitUnlocked(c, p) ==
  /\ (Syscall(c, p) /\ p \in Sleepers) \/ At(c, p, "await")
  /\ lk = NoCpu
  /\ IF cond = 1 THEN cond' = 0 /\ goto(p, "user")
                 ELSE goto(p, "sleep") /\ UNCHANGED cond
  /\ UNCHANGED <<table, lock, cpuvars, ctx, child, lk>>

\* acquire(&lk); while(!cond) sleep(chan, &lk); cond = 0; release(&lk).
Await(c, p) ==
  /\ (Syscall(c, p) /\ p \in Sleepers) \/ At(c, p, "await")
  /\ lk = NoCpu
  /\ IF cond = 1
     THEN cond' = 0 /\ goto(p, "user") /\ UNCHANGED lk
     ELSE lk' = c /\ goto(p, "sleep") /\ UNCHANGED cond
  /\ UNCHANGED <<table, lock, cpuvars, ctx, child>>

\* sleep(): acquire(&ptable.lock) first, only then release(&lk).
SleepAcquire(c, p) ==
  /\ At(c, p, "sleep") /\ lock = NoCpu
  /\ lock' = c
  /\ UNCHANGED <<table, cpuvars, pc, ctx, child, event>>

SleepRelease(c, p) ==
  /\ proc[c] = p /\ irq[c] = 0 /\ pc[p] = "sleep" /\ lock = c
  /\ lk' = NoCpu
  /\ chan' = [chan EXCEPT ![p] = EvChan]
  /\ state' = [state EXCEPT ![p] = "SLEEPING"]
  /\ ctx' = [ctx EXCEPT ![p] = "sleep"]
  /\ goto(p, "await")
  /\ UNCHANGED <<pid, parent, killed, kstack, nextpid, lock, cpuvars, child, cond>>

\* The handler: acquire(&lk); cond = 1; ... Interrupts are off while the CPU
\* holds a lock; the device raises one event for each one consumed.
Interrupt(c) ==
  /\ cond = 0
  /\ irq[c] = 0 /\ lock # c /\ lk = NoCpu
  /\ irq' = [irq EXCEPT ![c] = 1]
  /\ lk' = c /\ cond' = 1
  /\ UNCHANGED <<table, lock, proc, pos, pc, ctx, child>>

\* ... wakeup(chan); release(&lk).
InterruptWakeup(c) ==
  /\ irq[c] = 1 /\ lock = NoCpu
  /\ irq' = [irq EXCEPT ![c] = 0]
  /\ state' = wakeup1(state, EvChan)
  /\ lk' = NoCpu
  /\ UNCHANGED <<pid, parent, killed, chan, kstack, nextpid, lock, proc, pos, pc, ctx,
                 child, cond>>

-----------------------------------------------------------------------------
(* yield, sched, scheduler *)

\* Mutant: ptable.lock is released before sched().
YieldUnlocked(c, p) ==
  /\ proc[c] = p /\ irq[c] = 0 /\ lk # c /\ lock = NoCpu
  /\ state' = [state EXCEPT ![p] = "RUNNABLE"]
  /\ ctx' = [ctx EXCEPT ![p] = "yield"]
  /\ UNCHANGED <<pid, parent, killed, chan, kstack, nextpid, lock, cpuvars, pc, child, event>>

\* A clock tick, when the CPU holds no lock.
Yield(c, p) ==
  /\ proc[c] = p /\ irq[c] = 0 /\ lk # c /\ lock = NoCpu
  /\ lock' = c
  /\ state' = [state EXCEPT ![p] = "RUNNABLE"]
  /\ ctx' = [ctx EXCEPT ![p] = "yield"]
  /\ UNCHANGED <<pid, parent, killed, chan, kstack, nextpid, cpuvars, pc, child, event>>

\* sched(): swtch to the scheduler, which keeps the lock.
Sched(c, p) ==
  /\ proc[c] = p /\ lock = c /\ state[p] # "RUNNING"
  /\ proc' = [proc EXCEPT ![c] = Nil]
  /\ UNCHANGED <<table, lock, pos, irq, pc, ctx, child, event>>

SchedAcquire(c) ==
  /\ proc[c] = Nil /\ irq[c] = 0 /\ lock = NoCpu
  /\ lock' = c
  /\ pos' = [pos EXCEPT ![c] = 0]
  /\ UNCHANGED <<table, proc, irq, pc, ctx, child, event>>

Runnable(c) == {s \in Slots : s >= pos[c] /\ state[s] = "RUNNABLE"}

\* Mutant: the loop starts over after each process.
SchedRunFirst(c) ==
  /\ proc[c] = Nil /\ lock = c
  /\ \E p \in First(Runnable(c)) :
       /\ proc' = [proc EXCEPT ![c] = p]
       /\ state' = [state EXCEPT ![p] = "RUNNING"]
  /\ UNCHANGED <<pid, parent, killed, chan, kstack, nextpid, lock, pos, irq, pc, ctx,
                 child, event>>

SchedRun(c) ==
  /\ proc[c] = Nil /\ lock = c
  /\ \E p \in First(Runnable(c)) :
       /\ proc' = [proc EXCEPT ![c] = p]
       /\ state' = [state EXCEPT ![p] = "RUNNING"]
       /\ pos' = [pos EXCEPT ![c] = p + 1]
  /\ UNCHANGED <<pid, parent, killed, chan, kstack, nextpid, lock, irq, pc, ctx, child, event>>

SchedRelease(c) ==
  /\ proc[c] = Nil /\ lock = c
  /\ Runnable(c) = {}
  /\ lock' = NoCpu
  /\ pos' = [pos EXCEPT ![c] = 0]
  /\ UNCHANGED <<table, proc, irq, pc, ctx, child, event>>

\* What swtch returns into: forkret, the end of yield, the end of sleep.
Resume(c, p) ==
  /\ proc[c] = p /\ lock = c /\ state[p] = "RUNNING"
  /\ ctx[p] # "none" /\ pc[p] # "wait"
  /\ lock' = NoCpu
  /\ chan' = IF ctx[p] = "sleep" THEN [chan EXCEPT ![p] = Nil] ELSE chan
  /\ ctx' = [ctx EXCEPT ![p] = "none"]
  /\ UNCHANGED <<state, pid, parent, killed, kstack, nextpid, cpuvars, pc, child, event>>

-----------------------------------------------------------------------------
KernelStep(c, p) ==
  \/ AllocStack(c, p) \/ CopyUvm(c, p) \/ ForkRunnable(c, p)
  \/ ExitLocked(c, p)
  \/ SleepAcquire(c, p) \/ SleepRelease(c, p)
  \/ Sched(c, p) \/ Resume(c, p)

UserStep(c, p) ==
  \/ AllocProc(c, p) \/ Exit(c, p) \/ Fault(c, p)
  \/ \E i \in KillPids : Kill(c, p, i)

Scheduler(c) == SchedAcquire(c) \/ SchedRun(c) \/ SchedRelease(c)

Next ==
  \E c \in Cpus :
    \/ \E p \in Slots : \/ KernelStep(c, p) \/ UserStep(c, p) \/ Wait(c, p)
                        \/ Await(c, p) \/ Yield(c, p)
    \/ Scheduler(c)
    \/ Interrupt(c) \/ InterruptWakeup(c)

Spec == Init /\ [][Next]_vars

-----------------------------------------------------------------------------
(* Properties. *)

\* Every variable has its type.
TypeOK ==
  /\ state \in [Slots -> {"UNUSED", "EMBRYO", "SLEEPING", "RUNNABLE", "RUNNING", "ZOMBIE"}]
  /\ pid \in [Slots -> Nat] /\ nextpid \in Nat
  /\ parent \in [Slots -> Slots \cup {Nil}]
  /\ killed \in [Slots -> {0, 1}]
  /\ chan \in [Slots -> Slots \cup {Nil, EvChan}]
  /\ kstack \in SUBSET Slots
  /\ lock \in Cpus \cup {NoCpu}
  /\ proc \in [Cpus -> Slots \cup {Nil}]
  /\ pos \in [Cpus -> 0 .. NPROC]
  /\ pc \in [Slots -> {"user", "kalloc", "copyuvm", "forked", "exit", "wait", "await", "sleep"}]
  /\ ctx \in [Slots -> {"none", "forkret", "yield", "sleep"}]
  /\ child \in [Slots -> Slots \cup {Nil}]
  /\ lk \in Cpus \cup {NoCpu} /\ cond \in {0, 1}
  /\ irq \in [Cpus -> {0, 1}]

\* A process is on one CPU at most; outside ptable.lock the process a CPU is
\* on is RUNNING, and a RUNNING process is on a CPU (proc.c:267-318).
OneCpu ==
  /\ \A c, d \in Cpus : proc[c] = proc[d] /\ proc[c] # Nil => c = d
  /\ \A c \in Cpus : proc[c] # Nil /\ lock # c => state[proc[c]] = "RUNNING"
  /\ \A s \in Slots : state[s] = "RUNNING" => \E c \in Cpus : proc[c] = s

\* No CPU is ever on a kernel stack that wait(), or a failing fork, has
\* freed: exit() keeps ptable.lock until the scheduler has left the stack.
StackInUse ==
  /\ \A c \in Cpus : proc[c] # Nil => proc[c] \in kstack
  /\ \A s \in Slots : state[s] \in {"SLEEPING", "RUNNABLE", "ZOMBIE"} => s \in kstack

\* exit() abandons nobody: the parent of every process but init is a live
\* process, so some wait() can find it (proc.c:201-208); a free slot has no
\* parent and no stack.
ParentAlive ==
  \A s \in Slots :
    /\ state[s] \notin {"UNUSED", "EMBRYO"} /\ s # initproc =>
         /\ parent[s] \in Slots
         /\ state[parent[s]] \in {"SLEEPING", "RUNNABLE", "RUNNING"}
    /\ state[s] = "UNUSED" => parent[s] = Nil /\ s \notin kstack

\* No parent sleeps in wait() while it has a zombie child, its own or handed
\* to it by exit(): the wakeup is never lost.
ZombieNoticed ==
  \A s \in Slots : state[s] = "ZOMBIE" =>
    LET q == parent[s] IN ~(state[q] = "SLEEPING" /\ chan[q] = q)

\* "Once we hold ptable.lock, we can be guaranteed that we won't miss any
\* wakeup" (proc.c:361-364): nobody sleeps on an event that has happened,
\* unless the handler that raised it has its wakeup still to do.
EventNotMissed ==
  cond = 1 /\ (\E s \in Slots : state[s] = "SLEEPING" /\ chan[s] = EvChan)
    => \E c \in Cpus : irq[c] = 1

\* sched()'s checks: a process leaves the CPU holding ptable.lock and no
\* other lock, and not RUNNING ("sched locks", proc.c:307-314).
SchedLocks ==
  \A c \in Cpus : proc[c] # Nil /\ state[proc[c]] # "RUNNING" => lock = c /\ lk # c

\* Processes and CPUs: one CPU for a process, no freed stack under one, and
\* sched() entered as it demands.
CpuSound == TypeOK /\ OneCpu /\ StackInUse /\ SchedLocks
=============================================================================
