----------------------------- MODULE ProcProofs -----------------------------
(***************************************************************************)
(* Proofs about Proc.tla: CpuSound, ParentAlive, ZombieNoticed and         *)
(* EventNotMissed for any number of CPUs, slots and processes.             *)
(***************************************************************************)
EXTENDS Proc, TLAPS

USE SMTT(30), Z3T(30), Zenon

States == {"UNUSED", "EMBRYO", "SLEEPING", "RUNNABLE", "RUNNING", "ZOMBIE"}
Live == {"SLEEPING", "RUNNABLE", "RUNNING"}  \* a process that can still run
Free == {"UNUSED", "EMBRYO"}                 \* no process yet, or no more
Pcs == {"user", "kalloc", "copyuvm", "forked", "exit", "wait", "await", "sleep"}
Forking == {"kalloc", "copyuvm", "forked"}

-----------------------------------------------------------------------------
(* The inductive invariant. *)

\* CPUs and processes: a process is on one CPU; what a CPU is on is a process,
\* and RUNNING unless the CPU is about to leave it; sched() is entered as it
\* demands.
OnOne == \A c, d \in Cpus : proc[c] = proc[d] /\ proc[c] # Nil => c = d
RunningOn == \A s \in Slots : state[s] = "RUNNING" => \E c \in Cpus : proc[c] = s
OnProcess == \A c \in Cpus : proc[c] # Nil => state[proc[c]] \notin Free
CpuInv == OnOne /\ RunningOn /\ OnProcess /\ SchedLocks

\* Who holds lk: the handler, or a process between its test of the condition
\* and the end of sleep(), which stays on its CPU all that time.
HandlerHolds == \A c \in Cpus : irq[c] = 1 => lk = c /\ lock # c
LkHolder ==
  \A c \in Cpus : lk = c => irq[c] = 1 \/ (proc[c] # Nil /\ pc[proc[c]] = "sleep")
SleeperHolds ==
  \A p \in Slots : pc[p] = "sleep" =>
    /\ cond = 0 /\ state[p] = "RUNNING"
    /\ \E c \in Cpus : proc[c] = p /\ lk = c /\ irq[c] = 0
LkInv == HandlerHolds /\ LkHolder /\ SleeperHolds

\* The table: a process has a stack and a live parent, which is not itself;
\* init never exits; a free slot is at the start of a process, and a zombie
\* in exit().
HasStack == \A s \in Slots : state[s] \notin Free => s \in kstack
NotOwnParent == \A s \in Slots : parent[s] # s
InitLives == parent[initproc] = Nil /\ state[initproc] \in Live /\ pc[initproc] # "exit"
PcOfState ==
  \A s \in Slots : /\ state[s] \in Free => pc[s] = "user"
                   /\ state[s] = "ZOMBIE" => pc[s] = "exit"
TableInv == HasStack /\ ParentAlive /\ NotOwnParent /\ InitLives /\ PcOfState

\* A fork under way: the slot it fills is EMBRYO and its own, with a stack
\* once allocproc is done and a parent once it may run.
ForkPc == \A p \in Slots : child[p] # Nil <=> pc[p] \in Forking
ForkChild ==
  \A p \in Slots : child[p] # Nil =>
    /\ state[child[p]] = "EMBRYO"
    /\ parent[child[p]] = IF pc[p] = "forked" THEN p ELSE Nil
    /\ child[p] \in kstack <=> pc[p] # "kalloc"
ForkOwn == \A p, q \in Slots : child[p] = child[q] /\ child[p] # Nil => p = q
ForkInv == ForkPc /\ ForkChild /\ ForkOwn

WakeInv == ZombieNoticed /\ EventNotMissed

ProcInv == TypeOK /\ CpuInv /\ LkInv /\ TableInv /\ ForkInv /\ WakeInv

-----------------------------------------------------------------------------
(* What most steps leave alone, one formula for each part of the invariant. *)

\* No CPU changes its process, nobody starts to run or loses its slot, and
\* who is not RUNNING is about to leave its CPU as sched() demands.
SameCpu ==
  /\ proc' = proc
  /\ \A s \in Slots : /\ state'[s] = "RUNNING" => state[s] = "RUNNING"
                      /\ state[s] \notin Free => state'[s] \notin Free
  /\ \A c \in Cpus : proc[c] # Nil /\ state'[proc[c]] # "RUNNING" => lock' = c /\ lk' # c

SameLk ==
  /\ UNCHANGED <<proc, lk, irq, cond>>
  /\ \A c \in Cpus : irq[c] = 1 => lock' # c
  /\ \A s \in Slots : /\ pc'[s] = "sleep" <=> pc[s] = "sleep"
                      /\ pc[s] = "sleep" => state'[s] = "RUNNING"

SameTable ==
  /\ UNCHANGED <<parent, kstack, child>>
  /\ \A s \in Slots : /\ state'[s] = state[s] \/ (state[s] \in Live /\ state'[s] \in Live)
                      /\ \/ pc'[s] = pc[s]
                         \/ /\ state[s] \in Live
                            /\ pc[s] \notin Forking \cup {"exit"}
                            /\ pc'[s] \notin Forking \cup {"exit"}

SameWake ==
  /\ UNCHANGED <<cond, irq>>
  /\ \A s \in Slots : /\ state'[s] = "ZOMBIE" => state[s] = "ZOMBIE" /\ parent'[s] = parent[s]
                      /\ state'[s] = "SLEEPING" => state[s] = "SLEEPING"
                      /\ chan'[s] \in {chan[s], Nil}

\* The slots, the null pointer and the channel of the event are all
\* different, and no CPU is NoCpu.
LEMMA Distinct ==
  /\ Nil \notin Slots /\ EvChan \notin Slots /\ Nil # EvChan
  /\ initproc \in Slots /\ Slots \subseteq Nat
  /\ 0 \in 0 .. NPROC /\ \A s \in Slots : s + 1 \in 0 .. NPROC
  /\ NoCpu \notin Cpus
BY ProcAssumption DEF Slots, Nil, EvChan, initproc

\* The types that the other parts of the invariant rely on.
LEMMA Types ==
  ASSUME ProcInv
  PROVE  /\ state \in [Slots -> States] /\ pc \in [Slots -> Pcs]
         /\ parent \in [Slots -> Slots \cup {Nil}]
         /\ child \in [Slots -> Slots \cup {Nil}]
         /\ chan \in [Slots -> Slots \cup {Nil, EvChan}]
         /\ proc \in [Cpus -> Slots \cup {Nil}]
         /\ irq \in [Cpus -> {0, 1}] /\ cond \in {0, 1}
BY DEF ProcInv, TypeOK, States, Pcs

\* A step that leaves the CPUs alone keeps CpuInv.
LEMMA CpuFrame ==
  ASSUME ProcInv, SameCpu
  PROVE  CpuInv'
<1>1. proc \in [Cpus -> Slots \cup {Nil}]
  BY Types
<1>2. CpuInv
  BY DEF ProcInv
<1>3. OnOne' /\ RunningOn'
  BY <1>2 DEF CpuInv, OnOne, RunningOn, SameCpu
<1>4. OnProcess' /\ SchedLocks'
  BY <1>1, <1>2 DEF CpuInv, OnProcess, SchedLocks, SameCpu
<1> QED
  BY <1>3, <1>4 DEF CpuInv

\* A step that leaves lk, the event and the handlers alone keeps LkInv.
LEMMA LkFrame ==
  ASSUME ProcInv, SameLk
  PROVE  LkInv'
<1>1. proc \in [Cpus -> Slots \cup {Nil}]
  BY Types
<1>2. LkInv
  BY DEF ProcInv
<1>3. HandlerHolds'
  BY <1>2 DEF LkInv, HandlerHolds, SameLk
<1>4. LkHolder'
  BY <1>1, <1>2 DEF LkInv, LkHolder, SameLk
<1>5. SleeperHolds'
  BY <1>2 DEF LkInv, SleeperHolds, SameLk
<1> QED
  BY <1>3, <1>4, <1>5 DEF LkInv

\* A step that moves processes only between the live states keeps TableInv
\* and ForkInv.
LEMMA TableFrame ==
  ASSUME ProcInv, SameTable
  PROVE  TableInv' /\ ForkInv'
<1>1. TableInv /\ ForkInv
  BY DEF ProcInv
<1>2. child \in [Slots -> Slots \cup {Nil}]
  BY Types
<1>3. UNCHANGED <<parent, kstack, child>>
  BY DEF SameTable
<1>4. \A s \in Slots : /\ state'[s] \in Free \/ state'[s] = "ZOMBIE" => state'[s] = state[s]
                       /\ state[s] \in Free \/ state[s] = "ZOMBIE" => state'[s] = state[s]
                       /\ state[s] \in Live => state'[s] \in Live
  BY DEF SameTable, Free, Live
<1>5. \A s \in Slots : /\ pc'[s] # pc[s] => state[s] \in Live
                       /\ pc'[s] \in Forking \cup {"exit"} => pc'[s] = pc[s]
                       /\ pc[s] \in Forking \cup {"exit"} => pc'[s] = pc[s]
  BY DEF SameTable
<1>6. HasStack' /\ NotOwnParent'
  BY <1>1, <1>3, <1>4 DEF TableInv, HasStack, NotOwnParent
<1>7. ParentAlive'
  BY <1>1, <1>3, <1>4 DEF TableInv, ParentAlive, Free, Live
<1>8. InitLives'
  BY <1>1, <1>3, <1>4, <1>5, Distinct DEF TableInv, InitLives
<1>9. PcOfState'
  BY <1>1, <1>4, <1>5 DEF TableInv, PcOfState, Free, Live
<1>10. ForkPc' /\ ForkOwn'
  BY <1>1, <1>3, <1>5 DEF ForkInv, ForkPc, ForkOwn
<1>11. ForkChild'
  <2> SUFFICES ASSUME NEW r \in Slots, child[r] # Nil
               PROVE  /\ state'[child[r]] = "EMBRYO"
                      /\ parent[child[r]] = IF pc'[r] = "forked" THEN r ELSE Nil
                      /\ child[r] \in kstack <=> pc'[r] # "kalloc"
    BY <1>3 DEF ForkChild
  <2>1. child[r] \in Slots /\ state[child[r]] = "EMBRYO" /\ pc'[r] = pc[r]
    BY <1>1, <1>2, <1>5 DEF ForkInv, ForkPc, ForkChild
  <2>2. state'[child[r]] = "EMBRYO"
    BY <1>4, <2>1 DEF Free
  <2> QED
    BY <1>1, <2>1, <2>2 DEF ForkInv, ForkChild
<1> QED
  BY <1>6, <1>7, <1>8, <1>9, <1>10, <1>11 DEF TableInv, ForkInv

\* A step after which nobody newly sleeps or is a zombie keeps WakeInv.
LEMMA WakeFrame ==
  ASSUME ProcInv, SameWake
  PROVE  WakeInv'
<1>1. ZombieNoticed /\ EventNotMissed
  BY DEF ProcInv, WakeInv
<1>2. \A s \in Slots : state[s] = "ZOMBIE" => parent[s] \in Slots
  BY DEF ProcInv, TableInv, ParentAlive, InitLives, Live
<1>3. ZombieNoticed'
  <2> SUFFICES ASSUME NEW s \in Slots, state'[s] = "ZOMBIE",
                      state'[parent'[s]] = "SLEEPING", chan'[parent'[s]] = parent'[s]
               PROVE  FALSE
    BY DEF ZombieNoticed
  <2>1. state[s] = "ZOMBIE" /\ parent'[s] = parent[s] /\ parent[s] \in Slots
    BY <1>2 DEF SameWake
  <2>2. state[parent[s]] = "SLEEPING" /\ chan[parent[s]] = parent[s]
    BY Zenon, <2>1, Distinct DEF SameWake
  <2> QED
    BY <1>1, <2>1, <2>2 DEF ZombieNoticed
<1>4. EventNotMissed'
  BY <1>1, Distinct DEF EventNotMissed, SameWake
<1> QED
  BY <1>3, <1>4 DEF WakeInv

\* A process that executes outside ptable.lock is RUNNING.
LEMMA AtRunning ==
  ASSUME ProcInv, NEW c \in Cpus, NEW p \in Slots, NEW l, At(c, p, l)
  PROVE  /\ proc[c] = p /\ state[p] = "RUNNING" /\ pc[p] = l
         /\ irq[c] = 0 /\ lock # c
BY Distinct DEF At, ProcInv, CpuInv, SchedLocks

\* Where a CPU without the lock is, a process is RUNNING.
LEMMA OutsideRunning ==
  ASSUME ProcInv, NEW c \in Cpus, proc[c] # Nil, lock # c
  PROVE  state[proc[c]] = "RUNNING"
BY DEF ProcInv, CpuInv, SchedLocks


\* allocproc takes a free slot, which is not the caller's.
LEMMA AllocProcTakes ==
  ASSUME ProcInv, NEW c \in Cpus, NEW p \in Slots, AllocProc(c, p)
  PROVE  \E np \in Slots :
           /\ state[np] = "UNUSED" /\ np # p
           /\ state' = [state EXCEPT ![np] = "EMBRYO"]
           /\ pid' = [pid EXCEPT ![np] = nextpid]
           /\ child' = [child EXCEPT ![p] = np]
<1>1. state[p] = "RUNNING"
  BY AtRunning DEF AllocProc, Syscall
<1> QED
  BY Zenon, <1>1 DEF AllocProc, First

\* wait() reaps a zombie child of the caller, or changes the caller only.
LEMMA WaitReaps ==
  ASSUME ProcInv, NEW c \in Cpus, NEW p \in Slots, Wait(c, p)
  PROVE  /\ proc[c] = p /\ state[p] = "RUNNING" /\ pc[p] \in {"user", "wait"}
         /\ lock \in {NoCpu, c} /\ irq[c] = 0 /\ lk # c
         /\ UNCHANGED <<nextpid, cpuvars, child, event>>
         /\ \/ \E z \in Slots :
                 /\ state[z] = "ZOMBIE" /\ parent[z] = p /\ z # p
                 /\ kstack' = kstack \ {z}
                 /\ state' = [state EXCEPT ![z] = "UNUSED"]
                 /\ pid' = [pid EXCEPT ![z] = 0]
                 /\ parent' = [parent EXCEPT ![z] = Nil]
                 /\ killed' = [killed EXCEPT ![z] = 0]
                 /\ pc' = [pc EXCEPT ![z] = "user", ![p] = "user"]
                 /\ ctx' = [ctx EXCEPT ![z] = "none", ![p] = "none"]
                 /\ chan' = [chan EXCEPT ![p] = Nil]
                 /\ lock' = NoCpu
            \/ /\ pc' = [pc EXCEPT ![p] = "user"]
               /\ ctx' = [ctx EXCEPT ![p] = "none"]
               /\ chan' = [chan EXCEPT ![p] = Nil]
               /\ lock' = NoCpu
               /\ UNCHANGED <<kstack, state, pid, parent, killed>>
            \/ /\ \A s \in Slots : parent[s] = p => state[s] # "ZOMBIE"
               /\ chan' = [chan EXCEPT ![p] = p]
               /\ state' = [state EXCEPT ![p] = "SLEEPING"]
               /\ pc' = [pc EXCEPT ![p] = "wait"]
               /\ ctx' = [ctx EXCEPT ![p] = "sleep"]
               /\ lock' = c
               /\ UNCHANGED <<kstack, pid, parent, killed>>
<1>1. proc[c] = p /\ state[p] = "RUNNING" /\ pc[p] \in {"user", "wait"} /\ lock \in {NoCpu, c}
  <2>1. CASE Syscall(c, p) /\ lock = NoCpu
    BY <2>1, AtRunning DEF Syscall
  <2>2. CASE proc[c] = p /\ lock = c /\ state[p] = "RUNNING" /\ pc[p] = "wait"
    BY <2>2
  <2> QED
    BY <2>1, <2>2 DEF Wait
<1>2. irq[c] = 0 /\ lk # c
  <2>1. CASE Syscall(c, p) /\ lock = NoCpu
    <3>1. irq[c] = 0
      BY <2>1 DEF Syscall, At
    <3> QED
      BY <3>1, <1>1 DEF ProcInv, LkInv, LkHolder
  <2>2. CASE lock = c
    <3>1. irq[c] = 0
      BY <2>2, Types DEF ProcInv, LkInv, HandlerHolds
    <3> QED
      BY <3>1, <1>1 DEF ProcInv, LkInv, LkHolder
  <2> QED
    BY <2>1, <2>2 DEF Wait
<1>3. UNCHANGED <<nextpid, cpuvars, child, event>>
  BY DEF Wait
<1>4. \/ \E z \in First({s \in {t \in Slots : parent[t] = p} : state[s] = "ZOMBIE"}) :
           /\ kstack' = kstack \ {z}
           /\ state' = [state EXCEPT ![z] = "UNUSED"]
           /\ pid' = [pid EXCEPT ![z] = 0]
           /\ parent' = [parent EXCEPT ![z] = Nil]
           /\ killed' = [killed EXCEPT ![z] = 0]
           /\ pc' = [pc EXCEPT ![z] = "user", ![p] = "user"]
           /\ ctx' = [ctx EXCEPT ![z] = "none", ![p] = "none"]
           /\ chan' = [chan EXCEPT ![p] = Nil]
           /\ lock' = NoCpu
      \/ /\ pc' = [pc EXCEPT ![p] = "user"]
         /\ ctx' = [ctx EXCEPT ![p] = "none"]
         /\ chan' = [chan EXCEPT ![p] = Nil]
         /\ lock' = NoCpu
         /\ UNCHANGED <<kstack, state, pid, parent, killed>>
      \/ /\ {s \in {t \in Slots : parent[t] = p} : state[s] = "ZOMBIE"} = {}
         /\ chan' = [chan EXCEPT ![p] = p]
         /\ state' = [state EXCEPT ![p] = "SLEEPING"]
         /\ pc' = [pc EXCEPT ![p] = "wait"]
         /\ ctx' = [ctx EXCEPT ![p] = "sleep"]
         /\ lock' = c
         /\ UNCHANGED <<kstack, pid, parent, killed>>
  BY Zenon DEF Wait, goto
<1>5. \A z \in First({s \in {t \in Slots : parent[t] = p} : state[s] = "ZOMBIE"}) :
        z \in Slots /\ state[z] = "ZOMBIE" /\ parent[z] = p /\ z # p
  BY <1>1 DEF First
<1>6. {s \in {t \in Slots : parent[t] = p} : state[s] = "ZOMBIE"} = {} =>
        \A s \in Slots : parent[s] = p => state[s] # "ZOMBIE"
  OBVIOUS
<1> QED
  BY Zenon, <1>1, <1>2, <1>3, <1>4, <1>5, <1>6

\* kill() marks one slot, and makes it RUNNABLE if it sleeps.
LEMMA KillMarks ==
  ASSUME ProcInv, NEW c \in Cpus, NEW p \in Slots, NEW i, Kill(c, p, i)
  PROVE  \E s \in Slots :
           /\ killed' = [killed EXCEPT ![s] = 1]
           /\ state' = [state EXCEPT ![s] = IF @ = "SLEEPING" THEN "RUNNABLE" ELSE @]
BY Zenon DEF Kill, First

\* The scheduler picks a RUNNABLE process, which is on no CPU.
LEMMA SchedRunPicks ==
  ASSUME ProcInv, NEW c \in Cpus, SchedRun(c)
  PROVE  \E p \in Slots :
           /\ state[p] = "RUNNABLE" /\ \A d \in Cpus : proc[d] # p
           /\ proc' = [proc EXCEPT ![c] = p]
           /\ state' = [state EXCEPT ![p] = "RUNNING"]
           /\ pos' = [pos EXCEPT ![c] = p + 1]
<1>1. PICK p \in First(Runnable(c)) :
        /\ proc' = [proc EXCEPT ![c] = p]
        /\ state' = [state EXCEPT ![p] = "RUNNING"]
        /\ pos' = [pos EXCEPT ![c] = p + 1]
  BY Zenon DEF SchedRun
<1>2. p \in Slots /\ state[p] = "RUNNABLE"
  BY DEF First, Runnable
<1>3. ASSUME NEW d \in Cpus PROVE proc[d] # p
  BY <1>2, Distinct, OutsideRunning DEF SchedRun
<1> QED
  BY Zenon, <1>1, <1>2, <1>3

-----------------------------------------------------------------------------
(* One lemma for each action. *)

\* The invariant survives the locked half of allocproc.
LEMMA AllocProcKeeps ==
  ASSUME ProcInv, NEW c \in Cpus, NEW p \in Slots, AllocProc(c, p)
  PROVE  ProcInv'
<1>0. /\ state \in [Slots -> States] /\ pc \in [Slots -> Pcs]
      /\ parent \in [Slots -> Slots \cup {Nil}] /\ child \in [Slots -> Slots \cup {Nil}]
      /\ chan \in [Slots -> Slots \cup {Nil, EvChan}] /\ proc \in [Cpus -> Slots \cup {Nil}]
      /\ irq \in [Cpus -> {0, 1}] /\ cond \in {0, 1}
  BY Types
<1>1. proc[c] = p /\ state[p] = "RUNNING" /\ pc[p] = "user" /\ irq[c] = 0 /\ lock # c
  BY AtRunning, Zenon DEF AllocProc, Syscall
<1>2. PICK np \in Slots :
        /\ state[np] = "UNUSED" /\ np # p
        /\ state' = [state EXCEPT ![np] = "EMBRYO"]
        /\ pid' = [pid EXCEPT ![np] = nextpid]
        /\ child' = [child EXCEPT ![p] = np]
  BY AllocProcTakes
<1>3. parent[np] = Nil /\ np \notin kstack /\ pc[np] = "user" /\ np # initproc
  BY <1>2 DEF ProcInv, TableInv, ParentAlive, PcOfState, InitLives, Live, Free
<1>4. /\ state' = [state EXCEPT ![np] = "EMBRYO"]
      /\ child' = [child EXCEPT ![p] = np]
      /\ pc' = [pc EXCEPT ![p] = "kalloc"]
      /\ UNCHANGED <<lock, lk, irq, proc, parent, kstack, chan, cond>>
  BY <1>2, Zenon DEF AllocProc, goto, cpuvars, event
<1>5. /\ pid' = [pid EXCEPT ![np] = nextpid]
      /\ nextpid' = nextpid + 1
      /\ UNCHANGED <<killed, pos, ctx>>
  BY <1>2, Zenon DEF AllocProc, goto, cpuvars, event
<1>6. TypeOK'
  BY <1>1, <1>2, <1>3, <1>4, <1>5, Distinct DEF ProcInv, TypeOK
<1>7. SameCpu
  BY <1>1, <1>2, <1>3, <1>4, <1>0, Distinct DEF SameCpu, ProcInv, CpuInv, SchedLocks,
     OnOne, Free
<1>8. SameLk
  BY <1>1, <1>2, <1>3, <1>4, <1>0, Distinct DEF SameLk, ProcInv, LkInv, HandlerHolds,
     SleeperHolds
<1>9. TableInv' /\ ForkInv'
  <2>1. HasStack' /\ NotOwnParent' /\ InitLives'
    BY <1>1, <1>2, <1>3, <1>4, <1>0
    DEF ProcInv, TableInv, HasStack, NotOwnParent, InitLives, Free, Live
  <2>2. ParentAlive'
    BY <1>2, <1>4, <1>0 DEF ProcInv, TableInv, ParentAlive, States
  <2>3. PcOfState'
    BY <1>1, <1>2, <1>3, <1>4, <1>0 DEF ProcInv, TableInv, PcOfState, Free
  <2>4. ForkPc'
    BY <1>1, <1>2, <1>4, <1>0, Distinct DEF ProcInv, ForkInv, ForkPc, Forking
  <2>5. ForkChild'
    BY <1>1, <1>2, <1>3, <1>4, <1>0, Distinct DEF ProcInv, ForkInv, ForkChild, ForkPc, Forking
  <2>6. ForkOwn'
    BY <1>2, <1>4, <1>0 DEF ProcInv, ForkInv, ForkOwn, ForkChild
  <2> QED
    BY <2>1, <2>2, <2>3, <2>4, <2>5, <2>6 DEF TableInv, ForkInv
<1>10. SameWake
  BY <1>1, <1>2, <1>3, <1>4, <1>0, Distinct DEF SameWake
<1> QED
  BY <1>6, <1>7, <1>8, <1>9, <1>10, CpuFrame, LkFrame, WakeFrame, Zenon DEF ProcInv

\* The invariant survives the rest of allocproc.
LEMMA AllocStackKeeps ==
  ASSUME ProcInv, NEW c \in Cpus, NEW p \in Slots, AllocStack(c, p)
  PROVE  ProcInv'
<1>0. /\ state \in [Slots -> States] /\ pc \in [Slots -> Pcs]
      /\ parent \in [Slots -> Slots \cup {Nil}] /\ child \in [Slots -> Slots \cup {Nil}]
      /\ chan \in [Slots -> Slots \cup {Nil, EvChan}] /\ proc \in [Cpus -> Slots \cup {Nil}]
      /\ irq \in [Cpus -> {0, 1}] /\ cond \in {0, 1}
  BY Types
<1>1. proc[c] = p /\ state[p] = "RUNNING" /\ pc[p] = "kalloc" /\ irq[c] = 0 /\ lock # c
  BY AtRunning, Zenon DEF AllocStack
<1>2. /\ child[p] \in Slots /\ child[p] # p /\ state[child[p]] = "EMBRYO"
      /\ parent[child[p]] = Nil /\ child[p] \notin kstack
  BY <1>1, <1>0, Distinct DEF ProcInv, ForkInv, ForkPc, ForkChild, Forking
<1>3. pc[child[p]] = "user" /\ child[p] # initproc /\ child[child[p]] = Nil
  BY <1>2 DEF ProcInv, TableInv, PcOfState, InitLives, Live, Free, ForkInv, ForkPc, Forking
<1>4. \A q \in Slots : q # p => child[q] # child[p]
  BY <1>2, Distinct DEF ProcInv, ForkInv, ForkOwn
<1>5. CASE /\ state' = [state EXCEPT ![child[p]] = "UNUSED"]
           /\ pc' = [pc EXCEPT ![p] = "user"]
           /\ child' = [child EXCEPT ![p] = Nil]
           /\ UNCHANGED <<lock, lk, irq, proc, parent, kstack, chan, cond, pid, killed, nextpid, pos, ctx>>
  <2>1. /\ state' = [state EXCEPT ![child[p]] = "UNUSED"]
        /\ pc' = [pc EXCEPT ![p] = "user"]
        /\ child' = [child EXCEPT ![p] = Nil]
        /\ UNCHANGED <<lock, lk, irq, proc, parent, kstack, chan, cond>>
    BY <1>5
  <2>2. /\ UNCHANGED <<pid, killed, nextpid, pos, ctx>>
    BY <1>5
  <2>3. TypeOK'
    BY <1>1, <1>2, <1>3, <2>1, <2>2, Distinct DEF ProcInv, TypeOK
  <2>4. SameCpu
    BY <1>1, <1>2, <1>3, <2>1, <1>0, Distinct DEF SameCpu, ProcInv, CpuInv, SchedLocks,
       OnOne, Free
  <2>5. SameLk
    BY <1>1, <1>2, <1>3, <2>1, <1>0, Distinct DEF SameLk, ProcInv, LkInv, HandlerHolds,
       SleeperHolds
  <2>6. TableInv' /\ ForkInv'
    <3>1. HasStack' /\ NotOwnParent' /\ InitLives'
      BY <1>1, <1>2, <1>3, <2>1, <1>0, Distinct
      DEF ProcInv, TableInv, HasStack, NotOwnParent, InitLives, Free, Live
    <3>2. ParentAlive'
      BY <1>1, <1>2, <2>1, <1>0, Distinct DEF ProcInv, TableInv, ParentAlive
    <3>3. PcOfState'
      BY <1>1, <1>2, <1>3, <2>1, <1>0 DEF ProcInv, TableInv, PcOfState, Free
    <3>4. ForkPc' /\ ForkOwn'
      BY <1>1, <1>2, <1>3, <2>1, <1>0, Distinct DEF ProcInv, ForkInv, ForkPc, ForkOwn, Forking
    <3>5. ForkChild'
      BY <1>1, <1>2, <1>3, <1>4, <2>1, <1>0, Distinct DEF ProcInv, ForkInv, ForkPc, ForkChild, Forking
    <3> QED
      BY <3>1, <3>2, <3>3, <3>4, <3>5 DEF TableInv, ForkInv
  <2>7. SameWake
    BY <1>1, <1>2, <1>3, <2>1, <1>0, Distinct DEF SameWake
  <2> QED
    BY <2>3, <2>4, <2>5, <2>6, <2>7, CpuFrame, LkFrame, WakeFrame, Zenon DEF ProcInv
<1>6. CASE /\ kstack' = kstack \cup {child[p]}
           /\ pc' = [pc EXCEPT ![p] = "copyuvm"]
           /\ ctx' = [ctx EXCEPT ![child[p]] = "forkret"]
           /\ UNCHANGED <<state, lock, lk, irq, proc, parent, child, chan, cond, pid, killed, nextpid, pos>>
  <2>1. /\ kstack' = kstack \cup {child[p]}
        /\ pc' = [pc EXCEPT ![p] = "copyuvm"]
        /\ UNCHANGED <<state, lock, lk, irq, proc, parent, child, chan, cond>>
    BY <1>6
  <2>2. /\ ctx' = [ctx EXCEPT ![child[p]] = "forkret"]
        /\ UNCHANGED <<pid, killed, nextpid, pos>>
    BY <1>6
  <2>3. TypeOK'
    BY Zenon, <1>1, <1>2, <1>3, <2>1, <2>2, Distinct DEF ProcInv, TypeOK
  <2>4. SameCpu
    BY <1>1, <1>2, <1>3, <2>1, <1>0, Distinct DEF SameCpu, ProcInv, CpuInv, SchedLocks,
       OnOne, Free
  <2>5. SameLk
    BY <1>1, <1>2, <1>3, <2>1, <1>0, Distinct DEF SameLk, ProcInv, LkInv, HandlerHolds,
       SleeperHolds
  <2>6. TableInv' /\ ForkInv'
    <3>1. HasStack' /\ NotOwnParent' /\ InitLives'
      BY <1>1, <1>2, <1>3, <2>1, <1>0, Distinct
      DEF ProcInv, TableInv, HasStack, NotOwnParent, InitLives, Free, Live
    <3>2. ParentAlive'
      BY <1>1, <1>2, <2>1, <1>0, Distinct DEF ProcInv, TableInv, ParentAlive
    <3>3. PcOfState'
      BY <1>1, <1>2, <1>3, <2>1, <1>0 DEF ProcInv, TableInv, PcOfState, Free
    <3>4. ForkPc' /\ ForkOwn'
      BY <1>1, <1>2, <1>3, <2>1, <1>0, Distinct DEF ProcInv, ForkInv, ForkPc, ForkOwn, Forking
    <3>5. ForkChild'
      BY <1>1, <1>2, <1>3, <1>4, <2>1, <1>0, Distinct DEF ProcInv, ForkInv, ForkPc, ForkChild, Forking
    <3> QED
      BY <3>1, <3>2, <3>3, <3>4, <3>5 DEF TableInv, ForkInv
  <2>7. SameWake
    BY <1>1, <1>2, <1>3, <2>1, <1>0, Distinct DEF SameWake
  <2> QED
    BY <2>3, <2>4, <2>5, <2>6, <2>7, CpuFrame, LkFrame, WakeFrame, Zenon DEF ProcInv
<1> QED
  BY <1>5, <1>6 DEF AllocStack, goto, cpuvars, event

\* The invariant survives copyuvm in fork.
LEMMA CopyUvmKeeps ==
  ASSUME ProcInv, NEW c \in Cpus, NEW p \in Slots, CopyUvm(c, p)
  PROVE  ProcInv'
<1>0. /\ state \in [Slots -> States] /\ pc \in [Slots -> Pcs]
      /\ parent \in [Slots -> Slots \cup {Nil}] /\ child \in [Slots -> Slots \cup {Nil}]
      /\ chan \in [Slots -> Slots \cup {Nil, EvChan}] /\ proc \in [Cpus -> Slots \cup {Nil}]
      /\ irq \in [Cpus -> {0, 1}] /\ cond \in {0, 1}
  BY Types
<1>1. proc[c] = p /\ state[p] = "RUNNING" /\ pc[p] = "copyuvm" /\ irq[c] = 0 /\ lock # c
  BY AtRunning, Zenon DEF CopyUvm
<1>2. /\ child[p] \in Slots /\ child[p] # p /\ state[child[p]] = "EMBRYO"
      /\ parent[child[p]] = Nil /\ child[p] \in kstack
  BY <1>1, <1>0, Distinct DEF ProcInv, ForkInv, ForkPc, ForkChild, Forking
<1>3. pc[child[p]] = "user" /\ child[p] # initproc /\ child[child[p]] = Nil
  BY <1>2 DEF ProcInv, TableInv, PcOfState, InitLives, Live, Free, ForkInv, ForkPc, Forking
<1>4. \A q \in Slots : q # p => child[q] # child[p]
  BY <1>2, Distinct DEF ProcInv, ForkInv, ForkOwn
<1>5. CASE /\ kstack' = kstack \ {child[p]}
           /\ state' = [state EXCEPT ![child[p]] = "UNUSED"]
           /\ pc' = [pc EXCEPT ![p] = "user"]
           /\ child' = [child EXCEPT ![p] = Nil]
           /\ UNCHANGED <<lock, lk, irq, proc, parent, chan, cond, pid, killed, nextpid, pos, ctx>>
  <2>1. /\ kstack' = kstack \ {child[p]}
        /\ state' = [state EXCEPT ![child[p]] = "UNUSED"]
        /\ pc' = [pc EXCEPT ![p] = "user"]
        /\ child' = [child EXCEPT ![p] = Nil]
        /\ UNCHANGED <<lock, lk, irq, proc, parent, chan, cond>>
    BY <1>5
  <2>2. /\ UNCHANGED <<pid, killed, nextpid, pos, ctx>>
    BY <1>5
  <2>3. TypeOK'
    BY Zenon, <1>1, <1>2, <1>3, <2>1, <2>2, Distinct DEF ProcInv, TypeOK
  <2>4. SameCpu
    BY <1>1, <1>2, <1>3, <2>1, <1>0, Distinct DEF SameCpu, ProcInv, CpuInv, SchedLocks,
       OnOne, Free
  <2>5. SameLk
    BY <1>1, <1>2, <1>3, <2>1, <1>0, Distinct DEF SameLk, ProcInv, LkInv, HandlerHolds,
       SleeperHolds
  <2>6. TableInv' /\ ForkInv'
    <3>1. HasStack' /\ NotOwnParent' /\ InitLives'
      BY <1>1, <1>2, <1>3, <2>1, <1>0, Distinct
      DEF ProcInv, TableInv, HasStack, NotOwnParent, InitLives, Free, Live
    <3>2. ParentAlive'
      BY <1>1, <1>2, <2>1, <1>0, Distinct DEF ProcInv, TableInv, ParentAlive
    <3>3. PcOfState'
      BY <1>1, <1>2, <1>3, <2>1, <1>0 DEF ProcInv, TableInv, PcOfState, Free
    <3>4. ForkPc' /\ ForkOwn'
      BY <1>1, <1>2, <1>3, <2>1, <1>0, Distinct DEF ProcInv, ForkInv, ForkPc, ForkOwn, Forking
    <3>5. ForkChild'
      BY <1>1, <1>2, <1>3, <1>4, <2>1, <1>0, Distinct DEF ProcInv, ForkInv, ForkPc, ForkChild, Forking
    <3> QED
      BY <3>1, <3>2, <3>3, <3>4, <3>5 DEF TableInv, ForkInv
  <2>7. SameWake
    BY <1>1, <1>2, <1>3, <2>1, <1>0, Distinct DEF SameWake
  <2> QED
    BY <2>3, <2>4, <2>5, <2>6, <2>7, CpuFrame, LkFrame, WakeFrame, Zenon DEF ProcInv
<1>6. CASE /\ parent' = [parent EXCEPT ![child[p]] = p]
           /\ pc' = [pc EXCEPT ![p] = "forked"]
           /\ UNCHANGED <<state, lock, lk, irq, proc, kstack, child, chan, cond, pid, killed, nextpid, pos, ctx>>
  <2>1. /\ parent' = [parent EXCEPT ![child[p]] = p]
        /\ pc' = [pc EXCEPT ![p] = "forked"]
        /\ UNCHANGED <<state, lock, lk, irq, proc, kstack, child, chan, cond>>
    BY <1>6
  <2>2. /\ UNCHANGED <<pid, killed, nextpid, pos, ctx>>
    BY <1>6
  <2>3. TypeOK'
    BY <1>1, <1>2, <1>3, <2>1, <2>2, Distinct DEF ProcInv, TypeOK
  <2>4. SameCpu
    BY <1>1, <1>2, <1>3, <2>1, <1>0, Distinct DEF SameCpu, ProcInv, CpuInv, SchedLocks,
       OnOne, Free
  <2>5. SameLk
    BY <1>1, <1>2, <1>3, <2>1, <1>0, Distinct DEF SameLk, ProcInv, LkInv, HandlerHolds,
       SleeperHolds
  <2>6. TableInv' /\ ForkInv'
    <3>1. HasStack' /\ NotOwnParent' /\ InitLives'
      BY <1>1, <1>2, <1>3, <2>1, <1>0, Distinct
      DEF ProcInv, TableInv, HasStack, NotOwnParent, InitLives, Free, Live
    <3>2. ParentAlive'
      BY <1>1, <1>2, <2>1, <1>0, Distinct DEF ProcInv, TableInv, ParentAlive
    <3>3. PcOfState'
      BY <1>1, <1>2, <1>3, <2>1, <1>0 DEF ProcInv, TableInv, PcOfState, Free
    <3>4. ForkPc' /\ ForkOwn'
      BY <1>1, <1>2, <1>3, <2>1, <1>0, Distinct DEF ProcInv, ForkInv, ForkPc, ForkOwn, Forking
    <3>5. ForkChild'
      BY <1>1, <1>2, <1>3, <1>4, <2>1, <1>0, Distinct DEF ProcInv, ForkInv, ForkPc, ForkChild, Forking
    <3> QED
      BY <3>1, <3>2, <3>3, <3>4, <3>5 DEF TableInv, ForkInv
  <2>7. SameWake
    BY <1>1, <1>2, <1>3, <2>1, <1>0, Distinct DEF SameWake
  <2> QED
    BY <2>3, <2>4, <2>5, <2>6, <2>7, CpuFrame, LkFrame, WakeFrame, Zenon DEF ProcInv
<1> QED
  BY <1>5, <1>6 DEF CopyUvm, goto, cpuvars, event

\* The invariant survives the end of fork.
LEMMA ForkRunnableKeeps ==
  ASSUME ProcInv, NEW c \in Cpus, NEW p \in Slots, ForkRunnable(c, p)
  PROVE  ProcInv'
<1>0. /\ state \in [Slots -> States] /\ pc \in [Slots -> Pcs]
      /\ parent \in [Slots -> Slots \cup {Nil}] /\ child \in [Slots -> Slots \cup {Nil}]
      /\ chan \in [Slots -> Slots \cup {Nil, EvChan}] /\ proc \in [Cpus -> Slots \cup {Nil}]
      /\ irq \in [Cpus -> {0, 1}] /\ cond \in {0, 1}
  BY Types
<1>1. proc[c] = p /\ state[p] = "RUNNING" /\ pc[p] = "forked" /\ irq[c] = 0 /\ lock # c
  BY AtRunning, Zenon DEF ForkRunnable
<1>2. /\ child[p] \in Slots /\ child[p] # p /\ state[child[p]] = "EMBRYO"
      /\ parent[child[p]] = p /\ child[p] \in kstack
  BY <1>1, <1>0, Distinct DEF ProcInv, ForkInv, ForkPc, ForkChild, Forking
<1>3. pc[child[p]] = "user" /\ child[p] # initproc /\ child[child[p]] = Nil
  BY <1>2 DEF ProcInv, TableInv, PcOfState, InitLives, Live, Free, ForkInv, ForkPc, Forking
<1>4. \A q \in Slots : q # p => child[q] # child[p]
  BY <1>2, Distinct DEF ProcInv, ForkInv, ForkOwn
<1>5. /\ state' = [state EXCEPT ![child[p]] = "RUNNABLE"]
      /\ pc' = [pc EXCEPT ![p] = "user", ![child[p]] = "user"]
      /\ child' = [child EXCEPT ![p] = Nil]
      /\ UNCHANGED <<lock, lk, irq, proc, parent, kstack, chan, cond>>
  BY DEF ForkRunnable, cpuvars, event
<1>6. /\ UNCHANGED <<pid, killed, nextpid, pos, ctx>>
  BY DEF ForkRunnable, cpuvars, event
<1>7. TypeOK'
  BY <1>1, <1>2, <1>3, <1>5, <1>6, Distinct DEF ProcInv, TypeOK
<1>8. SameCpu
  BY <1>1, <1>2, <1>3, <1>5, <1>0, Distinct DEF SameCpu, ProcInv, CpuInv, SchedLocks,
     OnOne, Free
<1>9. SameLk
  BY <1>1, <1>2, <1>3, <1>5, <1>0, Distinct DEF SameLk, ProcInv, LkInv, HandlerHolds,
     SleeperHolds
<1>10. TableInv' /\ ForkInv'
  <2>1. HasStack' /\ NotOwnParent' /\ InitLives'
    BY <1>1, <1>2, <1>3, <1>5, <1>0, Distinct
    DEF ProcInv, TableInv, HasStack, NotOwnParent, InitLives, Free, Live
  <2>2. ParentAlive'
    BY <1>1, <1>2, <1>5, <1>0, Distinct DEF ProcInv, TableInv, ParentAlive
  <2>3. PcOfState'
    BY <1>1, <1>2, <1>3, <1>5, <1>0 DEF ProcInv, TableInv, PcOfState, Free
  <2>4. ForkPc' /\ ForkOwn'
    BY <1>1, <1>2, <1>3, <1>5, <1>0, Distinct DEF ProcInv, ForkInv, ForkPc, ForkOwn, Forking
  <2>5. ForkChild'
    BY <1>1, <1>2, <1>3, <1>4, <1>5, <1>0, Distinct DEF ProcInv, ForkInv, ForkPc, ForkChild, Forking
  <2> QED
    BY <2>1, <2>2, <2>3, <2>4, <2>5 DEF TableInv, ForkInv
<1>11. SameWake
  BY <1>1, <1>2, <1>3, <1>5, <1>0, Distinct DEF SameWake
<1> QED
  BY <1>7, <1>8, <1>9, <1>10, <1>11, CpuFrame, LkFrame, WakeFrame, Zenon DEF ProcInv

\* The invariant survives the locked half of exit.
LEMMA ExitLockedKeeps ==
  ASSUME ProcInv, NEW c \in Cpus, NEW p \in Slots, ExitLocked(c, p)
  PROVE  ProcInv'
<1>0. /\ state \in [Slots -> States] /\ pc \in [Slots -> Pcs]
      /\ parent \in [Slots -> Slots \cup {Nil}] /\ child \in [Slots -> Slots \cup {Nil}]
      /\ chan \in [Slots -> Slots \cup {Nil, EvChan}] /\ proc \in [Cpus -> Slots \cup {Nil}]
      /\ irq \in [Cpus -> {0, 1}] /\ cond \in {0, 1}
  BY Types
<1>1. proc[c] = p /\ state[p] = "RUNNING" /\ pc[p] = "exit" /\ irq[c] = 0 /\ lock # c /\ lock = NoCpu
  BY AtRunning, Zenon DEF ExitLocked
<1>2. p # initproc /\ parent[p] \in Slots /\ parent[p] # p /\ lk # c
  BY <1>1, Distinct
  DEF ProcInv, TableInv, InitLives, ParentAlive, NotOwnParent, LkInv, LkHolder
<1>3. PICK W \in SUBSET Slots :
        /\ \A s \in W : state[s] = "SLEEPING"
        /\ \A s \in Slots : state[s] = "SLEEPING" /\ chan[s] = parent[p] => s \in W
        /\ (\E s \in Slots : parent[s] = p /\ state[s] = "ZOMBIE") =>
             \A s \in Slots : state[s] = "SLEEPING" /\ chan[s] = initproc => s \in W
        /\ state' = [s \in Slots |-> IF s = p THEN "ZOMBIE"
                                     ELSE IF s \in W THEN "RUNNABLE" ELSE state[s]]
  <2> DEFINE hand == \E s \in Slots : parent[s] = p /\ state[s] = "ZOMBIE"
             W == {s \in Slots : /\ state[s] = "SLEEPING"
                                 /\ chan[s] = parent[p] \/ (hand /\ chan[s] = initproc)}
  <2>1. state' = [s \in Slots |-> IF s = p THEN "ZOMBIE"
                                  ELSE IF s \in W THEN "RUNNABLE" ELSE state[s]]
    BY Zenon DEF ExitLocked, wakeup1
  <2> QED
    BY Zenon, <2>1
<1>4. /\ state'[p] = "ZOMBIE"
      /\ \A s \in Slots : s # p /\ state[s] # "SLEEPING" => state'[s] = state[s]
      /\ \A s \in Slots : s # p /\ state[s] = "SLEEPING" => state'[s] \in {"SLEEPING", "RUNNABLE"}
  BY <1>3
<1>5. /\ \A s \in Slots : state'[s] = "SLEEPING" => state[s] = "SLEEPING" /\ chan[s] # parent[p]
      /\ (\E s \in Slots : parent[s] = p /\ state[s] = "ZOMBIE") =>
           ~(state'[initproc] = "SLEEPING" /\ chan[initproc] = initproc)
  BY <1>3, Distinct
<1>6. /\ lock' = c
      /\ parent' = [s \in Slots |-> IF parent[s] = p THEN initproc ELSE parent[s]]
      /\ UNCHANGED <<pc, lk, irq, proc, kstack, child, chan, cond>>
  BY DEF ExitLocked, cpuvars, event
<1>7. /\ UNCHANGED <<pid, killed, nextpid, pos, ctx>>
  BY DEF ExitLocked, cpuvars, event
<1>8. TypeOK'
  BY <1>3, <1>6, <1>7, Distinct DEF ProcInv, TypeOK
<1>9. SameCpu
  BY Zenon, <1>1, <1>2, <1>4, <1>6, <1>0, Distinct DEF SameCpu, ProcInv, CpuInv, SchedLocks,
     OnOne, Free
<1>10. SameLk
  BY <1>1, <1>2, <1>4, <1>6, <1>0, Distinct DEF SameLk, ProcInv, LkInv, HandlerHolds,
     SleeperHolds
<1>11. TableInv' /\ ForkInv'
  <2>1. HasStack' /\ NotOwnParent' /\ InitLives'
    BY <1>1, <1>2, <1>4, <1>6, <1>0, Distinct
    DEF ProcInv, TableInv, HasStack, NotOwnParent, InitLives, Free, Live
  <2>2. ParentAlive'
    <3> SUFFICES ASSUME NEW s \in Slots
                 PROVE  /\ state'[s] \notin {"UNUSED", "EMBRYO"} /\ s # initproc =>
                             parent'[s] \in Slots /\ state'[parent'[s]] \in Live
                        /\ state'[s] = "UNUSED" => parent'[s] = Nil /\ s \notin kstack'
      BY DEF ParentAlive, Live
    <3>1. \A q \in Slots : q # p /\ state[q] \in Live => state'[q] \in Live
      BY <1>4 DEF Live
    <3>2. initproc \in Slots /\ initproc # p /\ state[initproc] \in Live
      BY <1>2, Distinct DEF ProcInv, TableInv, InitLives
    <3>3. ASSUME state'[s] \notin {"UNUSED", "EMBRYO"}, s # initproc
          PROVE  parent'[s] \in Slots /\ state'[parent'[s]] \in Live
      <4>1. state[s] \notin {"UNUSED", "EMBRYO"}
        BY <1>1, <1>4, <3>3
      <4>2. parent[s] \in Slots /\ state[parent[s]] \in Live
        BY <3>3, <4>1 DEF ProcInv, TableInv, ParentAlive, Live
      <4> QED
        BY <1>6, <3>1, <3>2, <4>2
    <3>4. ASSUME state'[s] = "UNUSED"
          PROVE  parent'[s] = Nil /\ s \notin kstack'
      <4>1. state[s] = "UNUSED"
        BY <1>4, <3>4, <1>0 DEF States
      <4> QED
        BY <1>6, <4>1, Distinct DEF ProcInv, TableInv, ParentAlive
    <3> QED
      BY <3>3, <3>4
  <2>3. PcOfState'
    BY <1>1, <1>4, <1>6, <1>0 DEF ProcInv, TableInv, PcOfState, Free, States
  <2>4. ForkPc' /\ ForkOwn'
    BY <1>6 DEF ProcInv, ForkInv, ForkPc, ForkOwn
  <2>5. ForkChild'
    <3> SUFFICES ASSUME NEW r \in Slots, child[r] # Nil
                 PROVE  /\ state'[child[r]] = "EMBRYO"
                        /\ parent'[child[r]] = IF pc[r] = "forked" THEN r ELSE Nil
                        /\ child[r] \in kstack <=> pc[r] # "kalloc"
      BY <1>6, Zenon DEF ForkChild
    <3>1. /\ child[r] \in Slots /\ r # p
          /\ state[child[r]] = "EMBRYO"
          /\ parent[child[r]] = IF pc[r] = "forked" THEN r ELSE Nil
          /\ child[r] \in kstack <=> pc[r] # "kalloc"
      BY <1>1, <1>0 DEF ProcInv, ForkInv, ForkPc, ForkChild, Forking
    <3>2. child[r] # p
      BY <1>1, <3>1
    <3>3. state'[child[r]] = "EMBRYO"
      BY <1>4, <3>1, <3>2
    <3>4. parent'[child[r]] = parent[child[r]]
      BY <1>6, <3>1, Distinct
    <3> QED
      BY <3>1, <3>3, <3>4
  <2> QED
    BY <2>1, <2>2, <2>3, <2>4, <2>5 DEF TableInv, ForkInv
<1>12. WakeInv'
  <2>1. ZombieNoticed'
    <3> SUFFICES ASSUME NEW s \in Slots, state'[s] = "ZOMBIE",
                        state'[parent'[s]] = "SLEEPING", chan[parent'[s]] = parent'[s]
                 PROVE  FALSE
      BY <1>6 DEF ZombieNoticed
    <3>1. CASE s = p
      BY <1>2, <1>5, <1>6, <3>1
    <3>2. CASE s # p
      <4>1. state[s] = "ZOMBIE"
        BY <1>4, <3>2, <1>0 DEF States
      <4>2. s # initproc
        BY <4>1 DEF ProcInv, TableInv, InitLives, Live
      <4>3. parent[s] \in Slots /\ ~(state[parent[s]] = "SLEEPING" /\ chan[parent[s]] = parent[s])
        BY <4>1, <4>2 DEF ProcInv, TableInv, ParentAlive, WakeInv, ZombieNoticed
      <4> QED
        BY <1>5, <1>6, <4>1, <4>3
    <3> QED
      BY <3>1, <3>2
  <2>2. EventNotMissed'
    BY <1>5, <1>6 DEF ProcInv, WakeInv, EventNotMissed
  <2> QED
    BY <2>1, <2>2 DEF WakeInv
<1> QED
  BY <1>8, <1>9, <1>10, <1>11, <1>12, CpuFrame, LkFrame, Zenon DEF ProcInv

\* The invariant survives the start of exit.
LEMMA ExitKeeps ==
  ASSUME ProcInv, NEW c \in Cpus, NEW p \in Slots, Exit(c, p)
  PROVE  ProcInv'
<1>0. /\ state \in [Slots -> States] /\ pc \in [Slots -> Pcs]
      /\ parent \in [Slots -> Slots \cup {Nil}] /\ child \in [Slots -> Slots \cup {Nil}]
      /\ chan \in [Slots -> Slots \cup {Nil, EvChan}] /\ proc \in [Cpus -> Slots \cup {Nil}]
      /\ irq \in [Cpus -> {0, 1}] /\ cond \in {0, 1}
  BY Types
<1>1. proc[c] = p /\ state[p] = "RUNNING" /\ pc[p] = "user" /\ irq[c] = 0 /\ lock # c
  BY AtRunning, Zenon DEF Exit
<1>2. p # initproc
  BY DEF Exit
<1>3. /\ pc' = [pc EXCEPT ![p] = "exit"]
      /\ UNCHANGED <<state, lock, lk, irq, proc, parent, kstack, child, chan, cond>>
  BY DEF Exit, goto, table, cpuvars, event
<1>4. /\ UNCHANGED <<pid, killed, nextpid, pos, ctx>>
  BY DEF Exit, goto, table, cpuvars, event
<1>5. TypeOK'
  BY <1>1, <1>2, <1>3, <1>4, Distinct DEF ProcInv, TypeOK
<1>6. SameCpu
  BY <1>1, <1>2, <1>3, <1>0, Distinct DEF SameCpu, ProcInv, CpuInv, SchedLocks, OnOne, Free
<1>7. SameLk
  BY <1>1, <1>2, <1>3, <1>0, Distinct DEF SameLk, ProcInv, LkInv, HandlerHolds,
     SleeperHolds
<1>8. TableInv' /\ ForkInv'
  <2>1. TableInv'
    BY <1>1, <1>2, <1>3, <1>0
    DEF ProcInv, TableInv, HasStack, ParentAlive, NotOwnParent, InitLives, PcOfState, Free
  <2>2. ForkInv'
    BY <1>1, <1>3, <1>0 DEF ProcInv, ForkInv, ForkPc, ForkChild, ForkOwn, Forking
  <2> QED
    BY <2>1, <2>2
<1>9. SameWake
  BY <1>1, <1>2, <1>3, <1>0, Distinct DEF SameWake
<1> QED
  BY <1>5, <1>6, <1>7, <1>8, <1>9, CpuFrame, LkFrame, WakeFrame, Zenon DEF ProcInv

\* The invariant survives a fault.
LEMMA FaultKeeps ==
  ASSUME ProcInv, NEW c \in Cpus, NEW p \in Slots, Fault(c, p)
  PROVE  ProcInv'
<1>0. /\ state \in [Slots -> States] /\ pc \in [Slots -> Pcs]
      /\ parent \in [Slots -> Slots \cup {Nil}] /\ child \in [Slots -> Slots \cup {Nil}]
      /\ chan \in [Slots -> Slots \cup {Nil, EvChan}] /\ proc \in [Cpus -> Slots \cup {Nil}]
      /\ irq \in [Cpus -> {0, 1}] /\ cond \in {0, 1}
  BY Types
<1>1. /\ UNCHANGED <<state, pc, lock, lk, irq, proc, parent, kstack, child, chan, cond>>
  BY DEF Fault, cpuvars, event
<1>2. /\ killed' = [killed EXCEPT ![p] = 1]
      /\ UNCHANGED <<pid, nextpid, pos, ctx>>
  BY DEF Fault, cpuvars, event
<1>3. TypeOK'
  BY <1>1, <1>2, Distinct DEF ProcInv, TypeOK
<1>4. SameCpu
  BY <1>1, <1>0, Distinct DEF SameCpu, ProcInv, CpuInv, SchedLocks, OnOne, Free
<1>5. SameLk
  BY <1>1, <1>0, Distinct DEF SameLk, ProcInv, LkInv, HandlerHolds, SleeperHolds
<1>6. SameTable
  BY <1>1, <1>0, Distinct DEF SameTable, Live, Forking
<1>7. SameWake
  BY <1>1, <1>0, Distinct DEF SameWake
<1> QED
  BY <1>3, <1>4, <1>5, <1>6, <1>7, CpuFrame, LkFrame, TableFrame, WakeFrame, Zenon DEF
     ProcInv

\* The invariant survives kill.
LEMMA KillKeeps ==
  ASSUME ProcInv, NEW c \in Cpus, NEW p \in Slots, NEW i, Kill(c, p, i)
  PROVE  ProcInv'
<1>0. /\ state \in [Slots -> States] /\ pc \in [Slots -> Pcs]
      /\ parent \in [Slots -> Slots \cup {Nil}] /\ child \in [Slots -> Slots \cup {Nil}]
      /\ chan \in [Slots -> Slots \cup {Nil, EvChan}] /\ proc \in [Cpus -> Slots \cup {Nil}]
      /\ irq \in [Cpus -> {0, 1}] /\ cond \in {0, 1}
  BY Types
<1>1. PICK s \in Slots :
        /\ killed' = [killed EXCEPT ![s] = 1]
        /\ state' = [state EXCEPT ![s] = IF @ = "SLEEPING" THEN "RUNNABLE" ELSE @]
  BY KillMarks
<1>2. /\ state' = [state EXCEPT ![s] = IF @ = "SLEEPING" THEN "RUNNABLE" ELSE @]
      /\ UNCHANGED <<pc, lock, lk, irq, proc, parent, kstack, child, chan, cond>>
  BY <1>1, Zenon DEF Kill, cpuvars, event
<1>3. /\ killed' = [killed EXCEPT ![s] = 1]
      /\ UNCHANGED <<pid, nextpid, pos, ctx>>
  BY <1>1, Zenon DEF Kill, cpuvars, event
<1>4. TypeOK'
  BY <1>2, <1>3, Distinct DEF ProcInv, TypeOK
<1>5. SameCpu
  BY <1>2, <1>0, Distinct DEF SameCpu, ProcInv, CpuInv, SchedLocks, OnOne, Free
<1>6. SameLk
  BY <1>2, <1>0, Distinct DEF SameLk, ProcInv, LkInv, HandlerHolds, SleeperHolds
<1>7. SameTable
  BY <1>2, <1>0, Distinct DEF SameTable, Live, Forking
<1>8. SameWake
  BY <1>2, <1>0, Distinct DEF SameWake
<1> QED
  BY <1>4, <1>5, <1>6, <1>7, <1>8, CpuFrame, LkFrame, TableFrame, WakeFrame, Zenon DEF
     ProcInv

\* The invariant survives a pass of wait.
LEMMA WaitKeeps ==
  ASSUME ProcInv, NEW c \in Cpus, NEW p \in Slots, Wait(c, p)
  PROVE  ProcInv'
<1>0. /\ state \in [Slots -> States] /\ pc \in [Slots -> Pcs]
      /\ parent \in [Slots -> Slots \cup {Nil}] /\ child \in [Slots -> Slots \cup {Nil}]
      /\ chan \in [Slots -> Slots \cup {Nil, EvChan}] /\ proc \in [Cpus -> Slots \cup {Nil}]
      /\ irq \in [Cpus -> {0, 1}] /\ cond \in {0, 1}
  BY Types
<1>1. /\ proc[c] = p /\ state[p] = "RUNNING" /\ pc[p] \in {"user", "wait"}
      /\ lock \in {NoCpu, c} /\ irq[c] = 0 /\ lk # c
  BY WaitReaps
<1>2. UNCHANGED <<nextpid, proc, pos, irq, child, lk, cond>>
  BY WaitReaps DEF cpuvars, event
<1>3. CASE \E z \in Slots :
           /\ state[z] = "ZOMBIE" /\ parent[z] = p /\ z # p
           /\ state' = [state EXCEPT ![z] = "UNUSED"]
           /\ kstack' = kstack \ {z}
           /\ parent' = [parent EXCEPT ![z] = Nil]
           /\ pc' = [pc EXCEPT ![z] = "user", ![p] = "user"]
           /\ chan' = [chan EXCEPT ![p] = Nil]
           /\ lock' = NoCpu
           /\ pid' = [pid EXCEPT ![z] = 0]
           /\ killed' = [killed EXCEPT ![z] = 0]
           /\ ctx' = [ctx EXCEPT ![z] = "none", ![p] = "none"]
  <2>1. PICK z \in Slots :
          /\ state[z] = "ZOMBIE" /\ parent[z] = p /\ z # p
          /\ state' = [state EXCEPT ![z] = "UNUSED"]
          /\ kstack' = kstack \ {z}
          /\ parent' = [parent EXCEPT ![z] = Nil]
          /\ pc' = [pc EXCEPT ![z] = "user", ![p] = "user"]
          /\ chan' = [chan EXCEPT ![p] = Nil]
          /\ lock' = NoCpu
          /\ pid' = [pid EXCEPT ![z] = 0]
          /\ killed' = [killed EXCEPT ![z] = 0]
          /\ ctx' = [ctx EXCEPT ![z] = "none", ![p] = "none"]
    BY Zenon, <1>3
  <2>2. pc[z] = "exit" /\ z # initproc /\ \A d \in Cpus : proc[d] # z
    BY <1>1, <2>1, OutsideRunning, Distinct DEF ProcInv, TableInv, PcOfState, InitLives, Live
  <2>3. \A s \in Slots : state[s] \notin Free => parent[s] # z
    BY <2>1, <2>2, Distinct DEF ProcInv, TableInv, ParentAlive, InitLives, Free
  <2>4. \A s \in Slots : pc'[s] = IF s \in {p, z} THEN "user" ELSE pc[s]
    BY <2>1, <1>0
  <2>5. /\ state' = [state EXCEPT ![z] = "UNUSED"]
        /\ kstack' = kstack \ {z}
        /\ parent' = [parent EXCEPT ![z] = Nil]
        /\ pc' = [pc EXCEPT ![z] = "user", ![p] = "user"]
        /\ chan' = [chan EXCEPT ![p] = Nil]
        /\ lock' = NoCpu
        /\ UNCHANGED <<lk, irq, proc, child, cond>>
    BY <1>2, <2>1
  <2>6. /\ pid' = [pid EXCEPT ![z] = 0]
        /\ killed' = [killed EXCEPT ![z] = 0]
        /\ ctx' = [ctx EXCEPT ![z] = "none", ![p] = "none"]
        /\ UNCHANGED <<nextpid, pos>>
    BY <1>2, <2>1
  <2>7. TypeOK'
    BY <1>1, <2>1, <2>2, <2>5, <2>6, Distinct DEF ProcInv, TypeOK
  <2>8. CpuInv'
  <3>1. OnOne' /\ RunningOn'
      BY <2>1, <2>5, <1>0 DEF ProcInv, CpuInv, OnOne, RunningOn
    <3>2. OnProcess'
      BY <2>1, <2>2, <2>5, <1>0 DEF ProcInv, CpuInv, OnProcess
    <3>3. SchedLocks'
      BY <1>1, <2>1, <2>2, <2>5, <1>0, OutsideRunning, Distinct DEF ProcInv, CpuInv, SchedLocks, OnOne
    <3> QED
      BY <3>1, <3>2, <3>3 DEF CpuInv
  <2>9. SameLk
    BY <1>1, <1>2, <2>1, <2>2, <2>4, <1>0, Distinct
    DEF SameLk, ProcInv, LkInv, HandlerHolds, SleeperHolds
  <2>10. TableInv' /\ ForkInv'
  <3>1. HasStack' /\ NotOwnParent' /\ InitLives'
      BY <1>1, <2>1, <2>2, <2>5, <1>0, Distinct
      DEF ProcInv, TableInv, HasStack, NotOwnParent, InitLives, Free, Live
    <3>2. ParentAlive'
      <4> SUFFICES ASSUME NEW s \in Slots
                   PROVE  /\ state'[s] \notin Free /\ s # initproc =>
                               parent'[s] \in Slots /\ state'[parent'[s]] \in Live
                          /\ state'[s] = "UNUSED" => parent'[s] = Nil /\ s \notin kstack'
        BY DEF ParentAlive, Live, Free
      <4>1. CASE s = z
        BY <2>1, <4>1, <1>0 DEF Free
      <4>2. CASE s # z
        <5>1. state'[s] = state[s] /\ parent'[s] = parent[s] /\ (s \in kstack' <=> s \in kstack)
          BY <2>1, <4>2, <1>0
        <5>2. state[s] = "UNUSED" => parent[s] = Nil /\ s \notin kstack
          BY DEF ProcInv, TableInv, ParentAlive
        <5>3. state[s] \notin Free /\ s # initproc => parent[s] \in Slots /\ state[parent[s]] \in Live
          BY DEF ProcInv, TableInv, ParentAlive, Free, Live
        <5>4. \A q \in Slots : q # z => state'[q] = state[q]
          BY <2>1, <1>0
        <5> QED
          BY <2>3, <5>1, <5>2, <5>3, <5>4
      <4> QED
        BY <4>1, <4>2, Zenon
    <3>3. PcOfState'
      BY <1>1, <2>1, <2>5, <1>0 DEF ProcInv, TableInv, PcOfState, Free
    <3>4. ForkPc' /\ ForkOwn'
      BY <1>1, <2>1, <2>2, <2>5, <1>0 DEF ProcInv, ForkInv, ForkPc, ForkOwn, Forking
    <3>5. ForkChild'
      <4> SUFFICES ASSUME NEW r \in Slots, child[r] # Nil
                   PROVE  /\ state'[child[r]] = "EMBRYO"
                          /\ parent'[child[r]] = IF pc'[r] = "forked" THEN r ELSE Nil
                          /\ child[r] \in kstack' <=> pc'[r] # "kalloc"
        BY <1>2, Zenon DEF ForkChild
      <4>1. child[r] \in Slots /\ state[child[r]] = "EMBRYO" /\ pc[r] \in Forking
        BY <1>0 DEF ProcInv, ForkInv, ForkPc, ForkChild
      <4>2. child[r] # z /\ r # z /\ r # p
        BY <1>1, <2>1, <2>2, <4>1 DEF Forking
      <4> QED
        BY <4>1, <4>2, <2>5, <1>0 DEF ProcInv, ForkInv, ForkChild
    <3> QED
      BY <3>1, <3>2, <3>3, <3>4, <3>5 DEF TableInv, ForkInv
  <2>11. SameWake
    BY <1>1, <2>1, <2>2, <2>5, <1>0, Distinct DEF SameWake
  <2> QED
    BY <2>7, <2>8, <2>9, <2>10, <2>11, LkFrame, WakeFrame, Zenon DEF ProcInv
<1>4. CASE /\ pc' = [pc EXCEPT ![p] = "user"]
           /\ chan' = [chan EXCEPT ![p] = Nil]
           /\ lock' = NoCpu
           /\ ctx' = [ctx EXCEPT ![p] = "none"]
           /\ UNCHANGED <<kstack, state, pid, parent, killed>>
  <2>1. /\ pc' = [pc EXCEPT ![p] = "user"]
        /\ chan' = [chan EXCEPT ![p] = Nil]
        /\ lock' = NoCpu
        /\ UNCHANGED <<state, lk, irq, proc, parent, kstack, child, cond>>
    BY <1>2, <1>4
  <2>2. /\ ctx' = [ctx EXCEPT ![p] = "none"]
        /\ UNCHANGED <<pid, killed, nextpid, pos>>
    BY <1>2, <1>4
  <2>3. TypeOK'
    BY <1>1, <2>1, <2>2, Distinct DEF ProcInv, TypeOK
  <2>4. SameCpu
    BY <1>1, <2>1, <1>0, Distinct DEF SameCpu, ProcInv, CpuInv, SchedLocks, OnOne, Free
  <2>5. SameLk
    BY <1>1, <2>1, <1>0, Distinct DEF SameLk, ProcInv, LkInv, HandlerHolds, SleeperHolds
  <2>6. SameTable
    BY <1>1, <2>1, <1>0, Distinct DEF SameTable, Live, Forking
  <2>7. SameWake
    BY <1>1, <2>1, <1>0, Distinct DEF SameWake
  <2> QED
    BY <2>3, <2>4, <2>5, <2>6, <2>7, CpuFrame, LkFrame, TableFrame, WakeFrame, Zenon DEF
       ProcInv
<1>5. CASE /\ (\A s \in Slots : parent[s] = p => state[s] # "ZOMBIE")
           /\ state' = [state EXCEPT ![p] = "SLEEPING"]
           /\ pc' = [pc EXCEPT ![p] = "wait"]
           /\ chan' = [chan EXCEPT ![p] = p]
           /\ lock' = c
           /\ ctx' = [ctx EXCEPT ![p] = "sleep"]
           /\ UNCHANGED <<kstack, pid, parent, killed>>
  <2>1. /\ state' = [state EXCEPT ![p] = "SLEEPING"]
        /\ pc' = [pc EXCEPT ![p] = "wait"]
        /\ chan' = [chan EXCEPT ![p] = p]
        /\ lock' = c
        /\ UNCHANGED <<lk, irq, proc, parent, kstack, child, cond>>
    BY <1>2, <1>5
  <2>2. /\ ctx' = [ctx EXCEPT ![p] = "sleep"]
        /\ UNCHANGED <<pid, killed, nextpid, pos>>
    BY <1>2, <1>5
  <2>3. TypeOK'
    BY <1>1, <2>1, <2>2, Distinct DEF ProcInv, TypeOK
  <2>4. SameCpu
    BY <1>1, <2>1, <1>0, Distinct DEF SameCpu, ProcInv, CpuInv, SchedLocks, OnOne, Free
  <2>5. SameLk
    BY <1>1, <2>1, <1>0, Distinct DEF SameLk, ProcInv, LkInv, HandlerHolds, SleeperHolds
  <2>6. SameTable
    BY <1>1, <2>1, <1>0, Distinct DEF SameTable, Live, Forking
  <2>7. WakeInv'
  <3>1. ZombieNoticed'
      BY <1>1, <1>5, <2>1, <1>0 DEF ProcInv, WakeInv, ZombieNoticed
    <3>2. EventNotMissed'
      BY <1>1, <2>1, <1>0, Distinct DEF ProcInv, WakeInv, EventNotMissed
    <3> QED
      BY <3>1, <3>2 DEF WakeInv
  <2> QED
    BY <2>3, <2>4, <2>5, <2>6, <2>7, CpuFrame, LkFrame, TableFrame, Zenon DEF ProcInv
<1> QED
  BY <1>3, <1>4, <1>5, WaitReaps

\* The invariant survives the test of the condition.
LEMMA AwaitKeeps ==
  ASSUME ProcInv, NEW c \in Cpus, NEW p \in Slots, Await(c, p)
  PROVE  ProcInv'
<1>0. /\ state \in [Slots -> States] /\ pc \in [Slots -> Pcs]
      /\ parent \in [Slots -> Slots \cup {Nil}] /\ child \in [Slots -> Slots \cup {Nil}]
      /\ chan \in [Slots -> Slots \cup {Nil, EvChan}] /\ proc \in [Cpus -> Slots \cup {Nil}]
      /\ irq \in [Cpus -> {0, 1}] /\ cond \in {0, 1}
  BY Types
<1>1. proc[c] = p /\ state[p] = "RUNNING" /\ pc[p] \in {"user", "await"} /\ irq[c] = 0
  BY AtRunning, Zenon DEF Await, Syscall
<1>2. lk = NoCpu
  BY DEF Await
<1>3. CASE /\ cond' = 0
           /\ pc' = [pc EXCEPT ![p] = "user"]
           /\ UNCHANGED <<state, lock, lk, irq, proc, parent, kstack, child, chan, pid, killed, nextpid, pos, ctx>>
  <2>1. /\ cond' = 0
        /\ pc' = [pc EXCEPT ![p] = "user"]
        /\ UNCHANGED <<state, lock, lk, irq, proc, parent, kstack, child, chan>>
    BY <1>3
  <2>2. /\ UNCHANGED <<pid, killed, nextpid, pos, ctx>>
    BY <1>3
  <2>3. TypeOK'
    BY <1>1, <2>1, <2>2, Distinct DEF ProcInv, TypeOK
  <2>4. SameCpu
    BY <1>1, <2>1, <1>0, Distinct DEF SameCpu, ProcInv, CpuInv, SchedLocks, OnOne, Free
  <2>5. LkInv'
  <3>1. HandlerHolds' /\ LkHolder' /\ SleeperHolds'
      BY <1>1, <1>2, <2>1, <1>0, Distinct DEF ProcInv, LkInv, HandlerHolds, LkHolder, SleeperHolds
    <3> QED
      BY <3>1 DEF LkInv
  <2>6. SameTable
    BY <1>1, <2>1, <1>0, Distinct DEF SameTable, Live, Forking
  <2>7. WakeInv'
  <3>1. ZombieNoticed' /\ EventNotMissed'
      BY <2>1 DEF ProcInv, WakeInv, ZombieNoticed, EventNotMissed
    <3> QED
      BY <3>1 DEF WakeInv
  <2> QED
    BY <2>3, <2>4, <2>5, <2>6, <2>7, CpuFrame, TableFrame, Zenon DEF ProcInv
<1>4. CASE /\ cond # 1
           /\ lk' = c
           /\ pc' = [pc EXCEPT ![p] = "sleep"]
           /\ UNCHANGED <<state, lock, irq, proc, parent, kstack, child, chan, cond, pid, killed, nextpid, pos, ctx>>
  <2>1. /\ lk' = c
        /\ pc' = [pc EXCEPT ![p] = "sleep"]
        /\ UNCHANGED <<state, lock, irq, proc, parent, kstack, child, chan, cond>>
    BY <1>4
  <2>2. /\ UNCHANGED <<pid, killed, nextpid, pos, ctx>>
    BY <1>4
  <2>3. TypeOK'
    BY <1>1, <1>2, <2>1, <2>2, Distinct DEF ProcInv, TypeOK
  <2>4. SameCpu
    BY <1>1, <1>2, <2>1, <1>0, Distinct DEF SameCpu, ProcInv, CpuInv, SchedLocks, OnOne,
       Free
  <2>5. LkInv'
  <3>1. HandlerHolds'
      BY <1>2, <2>1, <1>0, Distinct DEF ProcInv, LkInv, HandlerHolds
    <3>2. LkHolder'
      BY <1>1, <2>1, <1>0, Distinct DEF LkHolder
    <3>3. SleeperHolds'
      BY <1>1, <1>2, <1>4, <2>1, <1>0, Distinct DEF ProcInv, LkInv, SleeperHolds
    <3> QED
      BY <3>1, <3>2, <3>3 DEF LkInv
  <2>6. SameTable
    BY <1>1, <1>2, <2>1, <1>0, Distinct DEF SameTable, Live, Forking
  <2>7. SameWake
    BY <1>1, <1>2, <2>1, <1>0, Distinct DEF SameWake
  <2> QED
    BY <2>3, <2>4, <2>5, <2>6, <2>7, CpuFrame, TableFrame, WakeFrame, Zenon DEF ProcInv
<1> QED
  BY <1>3, <1>4 DEF Await, goto, table, cpuvars

\* The invariant survives sleep's acquire.
LEMMA SleepAcquireKeeps ==
  ASSUME ProcInv, NEW c \in Cpus, NEW p \in Slots, SleepAcquire(c, p)
  PROVE  ProcInv'
<1>0. /\ state \in [Slots -> States] /\ pc \in [Slots -> Pcs]
      /\ parent \in [Slots -> Slots \cup {Nil}] /\ child \in [Slots -> Slots \cup {Nil}]
      /\ chan \in [Slots -> Slots \cup {Nil, EvChan}] /\ proc \in [Cpus -> Slots \cup {Nil}]
      /\ irq \in [Cpus -> {0, 1}] /\ cond \in {0, 1}
  BY Types
<1>1. proc[c] = p /\ state[p] = "RUNNING" /\ pc[p] = "sleep" /\ irq[c] = 0 /\ lock # c /\ lock = NoCpu
  BY AtRunning, Zenon DEF SleepAcquire
<1>2. /\ lock' = c
      /\ UNCHANGED <<state, pc, lk, irq, proc, parent, kstack, child, chan, cond>>
  BY DEF SleepAcquire, table, cpuvars, event
<1>3. /\ UNCHANGED <<pid, killed, nextpid, pos, ctx>>
  BY DEF SleepAcquire, table, cpuvars, event
<1>4. TypeOK'
  BY <1>1, <1>2, <1>3, Distinct DEF ProcInv, TypeOK
<1>5. SameCpu
  BY <1>1, <1>2, <1>0, Distinct DEF SameCpu, ProcInv, CpuInv, SchedLocks, OnOne, Free
<1>6. SameLk
  BY <1>1, <1>2, <1>0, Distinct DEF SameLk, ProcInv, LkInv, HandlerHolds, SleeperHolds
<1>7. SameTable
  BY <1>1, <1>2, <1>0, Distinct DEF SameTable, Live, Forking
<1>8. SameWake
  BY <1>1, <1>2, <1>0, Distinct DEF SameWake
<1> QED
  BY <1>4, <1>5, <1>6, <1>7, <1>8, CpuFrame, LkFrame, TableFrame, WakeFrame, Zenon DEF
     ProcInv

\* The invariant survives sleep's release.
LEMMA SleepReleaseKeeps ==
  ASSUME ProcInv, NEW c \in Cpus, NEW p \in Slots, SleepRelease(c, p)
  PROVE  ProcInv'
<1>0. /\ state \in [Slots -> States] /\ pc \in [Slots -> Pcs]
      /\ parent \in [Slots -> Slots \cup {Nil}] /\ child \in [Slots -> Slots \cup {Nil}]
      /\ chan \in [Slots -> Slots \cup {Nil, EvChan}] /\ proc \in [Cpus -> Slots \cup {Nil}]
      /\ irq \in [Cpus -> {0, 1}] /\ cond \in {0, 1}
  BY Types
<1>1. proc[c] = p /\ irq[c] = 0 /\ pc[p] = "sleep" /\ lock = c
  BY DEF SleepRelease
<1>2. state[p] = "RUNNING" /\ cond = 0 /\ lk = c
  BY <1>1, Distinct DEF ProcInv, LkInv, SleeperHolds, CpuInv, OnOne
<1>3. /\ lk' = NoCpu
      /\ chan' = [chan EXCEPT ![p] = EvChan]
      /\ state' = [state EXCEPT ![p] = "SLEEPING"]
      /\ pc' = [pc EXCEPT ![p] = "await"]
      /\ UNCHANGED <<lock, irq, proc, parent, kstack, child, cond>>
  BY DEF SleepRelease, goto, cpuvars
<1>4. /\ ctx' = [ctx EXCEPT ![p] = "sleep"]
      /\ UNCHANGED <<pid, killed, nextpid, pos>>
  BY DEF SleepRelease, goto, cpuvars
<1>5. TypeOK'
  BY <1>1, <1>2, <1>3, <1>4, Distinct DEF ProcInv, TypeOK
<1>6. SameCpu
  BY <1>1, <1>2, <1>3, <1>0, Distinct DEF SameCpu, ProcInv, CpuInv, SchedLocks, OnOne, Free
<1>7. LkInv'
  <2>1. HandlerHolds' /\ LkHolder'
    BY <1>1, <1>2, <1>3, <1>0, Distinct DEF ProcInv, LkInv, HandlerHolds, LkHolder
  <2>2. SleeperHolds'
    BY <1>1, <1>2, <1>3, <1>0, Distinct DEF ProcInv, LkInv, SleeperHolds
  <2> QED
    BY <2>1, <2>2 DEF LkInv
<1>8. SameTable
  BY <1>1, <1>2, <1>3, <1>0, Distinct DEF SameTable, Live, Forking
<1>9. WakeInv'
  <2>1. ZombieNoticed'
    BY <1>2, <1>3, <1>0, Distinct
    DEF ProcInv, WakeInv, ZombieNoticed, TableInv, ParentAlive, InitLives, Live
  <2>2. EventNotMissed'
    BY <1>2, <1>3 DEF EventNotMissed
  <2> QED
    BY <2>1, <2>2 DEF WakeInv
<1> QED
  BY <1>5, <1>6, <1>7, <1>8, <1>9, CpuFrame, TableFrame, Zenon DEF ProcInv

\* The invariant survives the start of the handler.
LEMMA InterruptKeeps ==
  ASSUME ProcInv, NEW c \in Cpus, Interrupt(c)
  PROVE  ProcInv'
<1>0. /\ state \in [Slots -> States] /\ pc \in [Slots -> Pcs]
      /\ parent \in [Slots -> Slots \cup {Nil}] /\ child \in [Slots -> Slots \cup {Nil}]
      /\ chan \in [Slots -> Slots \cup {Nil, EvChan}] /\ proc \in [Cpus -> Slots \cup {Nil}]
      /\ irq \in [Cpus -> {0, 1}] /\ cond \in {0, 1}
  BY Types
<1>1. cond = 0 /\ irq[c] = 0 /\ lock # c /\ lk = NoCpu
  BY DEF Interrupt
<1>2. /\ irq' = [irq EXCEPT ![c] = 1]
      /\ lk' = c
      /\ cond' = 1
      /\ UNCHANGED <<state, pc, lock, proc, parent, kstack, child, chan>>
  BY DEF Interrupt, table
<1>3. /\ UNCHANGED <<pid, killed, nextpid, pos, ctx>>
  BY DEF Interrupt, table
<1>4. TypeOK'
  BY <1>1, <1>2, <1>3, Distinct DEF ProcInv, TypeOK
<1>5. SameCpu
  BY <1>1, <1>2, <1>0, Distinct DEF SameCpu, ProcInv, CpuInv, SchedLocks, OnOne, Free
<1>6. LkInv'
  <2>1. HandlerHolds' /\ LkHolder'
    BY <1>1, <1>2, <1>0, Distinct DEF ProcInv, LkInv, HandlerHolds, LkHolder
  <2>2. SleeperHolds'
    BY <1>1, <1>2, Distinct DEF ProcInv, LkInv, SleeperHolds
  <2> QED
    BY <2>1, <2>2 DEF LkInv
<1>7. SameTable
  BY <1>1, <1>2, <1>0, Distinct DEF SameTable, Live, Forking
<1>8. WakeInv'
  <2>1. ZombieNoticed'
    BY <1>2 DEF ProcInv, WakeInv, ZombieNoticed
  <2>2. EventNotMissed'
    BY <1>2, <1>0 DEF EventNotMissed
  <2> QED
    BY <2>1, <2>2 DEF WakeInv
<1> QED
  BY <1>4, <1>5, <1>6, <1>7, <1>8, CpuFrame, TableFrame, Zenon DEF ProcInv

\* The invariant survives the handler's wakeup.
LEMMA InterruptWakeupKeeps ==
  ASSUME ProcInv, NEW c \in Cpus, InterruptWakeup(c)
  PROVE  ProcInv'
<1>0. /\ state \in [Slots -> States] /\ pc \in [Slots -> Pcs]
      /\ parent \in [Slots -> Slots \cup {Nil}] /\ child \in [Slots -> Slots \cup {Nil}]
      /\ chan \in [Slots -> Slots \cup {Nil, EvChan}] /\ proc \in [Cpus -> Slots \cup {Nil}]
      /\ irq \in [Cpus -> {0, 1}] /\ cond \in {0, 1}
  BY Types
<1>1. irq[c] = 1 /\ lock = NoCpu /\ lk = c
  BY DEF InterruptWakeup, ProcInv, LkInv, HandlerHolds
<1>2. /\ state' = [s \in Slots |->
                  IF state[s] = "SLEEPING" /\ chan[s] = EvChan THEN "RUNNABLE" ELSE state[s]]
      /\ irq' = [irq EXCEPT ![c] = 0]
      /\ lk' = NoCpu
      /\ UNCHANGED <<pc, lock, proc, parent, kstack, child, chan, cond>>
  BY DEF InterruptWakeup, wakeup1
<1>3. /\ UNCHANGED <<pid, killed, nextpid, pos, ctx>>
  BY DEF InterruptWakeup, wakeup1
<1>4. TypeOK'
  BY <1>1, <1>2, <1>3, Distinct DEF ProcInv, TypeOK
<1>5. SameCpu
  BY <1>1, <1>2, <1>0, Distinct DEF SameCpu, ProcInv, CpuInv, SchedLocks, OnOne, Free
<1>6. LkInv'
  <2>1. HandlerHolds' /\ LkHolder'
    BY <1>1, <1>2, <1>0, Distinct DEF ProcInv, LkInv, HandlerHolds, LkHolder
  <2>2. SleeperHolds'
    BY <1>1, <1>2, <1>0 DEF ProcInv, LkInv, SleeperHolds
  <2> QED
    BY <2>1, <2>2 DEF LkInv
<1>7. SameTable
  BY <1>1, <1>2, <1>0, Distinct DEF SameTable, Live, Forking
<1>8. WakeInv'
  <2>1. ZombieNoticed'
    BY <1>2, <1>0
    DEF ProcInv, WakeInv, ZombieNoticed, TableInv, ParentAlive, InitLives, Live
  <2>2. EventNotMissed'
    BY Zenon, <1>2 DEF EventNotMissed
  <2> QED
    BY <2>1, <2>2 DEF WakeInv
<1> QED
  BY <1>4, <1>5, <1>6, <1>7, <1>8, CpuFrame, TableFrame, Zenon DEF ProcInv

\* The invariant survives yield.
LEMMA YieldKeeps ==
  ASSUME ProcInv, NEW c \in Cpus, NEW p \in Slots, Yield(c, p)
  PROVE  ProcInv'
<1>0. /\ state \in [Slots -> States] /\ pc \in [Slots -> Pcs]
      /\ parent \in [Slots -> Slots \cup {Nil}] /\ child \in [Slots -> Slots \cup {Nil}]
      /\ chan \in [Slots -> Slots \cup {Nil, EvChan}] /\ proc \in [Cpus -> Slots \cup {Nil}]
      /\ irq \in [Cpus -> {0, 1}] /\ cond \in {0, 1}
  BY Types
<1>1. proc[c] = p /\ irq[c] = 0 /\ lk # c /\ lock = NoCpu
  BY DEF Yield
<1>2. state[p] = "RUNNING" /\ pc[p] # "sleep"
  BY <1>1, OutsideRunning, Distinct DEF ProcInv, LkInv, SleeperHolds, CpuInv, OnOne
<1>3. /\ lock' = c
      /\ state' = [state EXCEPT ![p] = "RUNNABLE"]
      /\ UNCHANGED <<pc, lk, irq, proc, parent, kstack, child, chan, cond>>
  BY DEF Yield, cpuvars, event
<1>4. /\ ctx' = [ctx EXCEPT ![p] = "yield"]
      /\ UNCHANGED <<pid, killed, nextpid, pos>>
  BY DEF Yield, cpuvars, event
<1>5. TypeOK'
  BY <1>1, <1>2, <1>3, <1>4, Distinct DEF ProcInv, TypeOK
<1>6. SameCpu
  BY <1>1, <1>2, <1>3, <1>0, Distinct DEF SameCpu, ProcInv, CpuInv, SchedLocks, OnOne, Free
<1>7. SameLk
  BY <1>1, <1>2, <1>3, <1>0, Distinct DEF SameLk, ProcInv, LkInv, HandlerHolds,
     SleeperHolds
<1>8. SameTable
  BY <1>1, <1>2, <1>3, <1>0, Distinct DEF SameTable, Live, Forking
<1>9. SameWake
  BY <1>1, <1>2, <1>3, <1>0, Distinct DEF SameWake
<1> QED
  BY <1>5, <1>6, <1>7, <1>8, <1>9, CpuFrame, LkFrame, TableFrame, WakeFrame, Zenon DEF
     ProcInv

\* The invariant survives sched.
LEMMA SchedKeeps ==
  ASSUME ProcInv, NEW c \in Cpus, NEW p \in Slots, Sched(c, p)
  PROVE  ProcInv'
<1>0. /\ state \in [Slots -> States] /\ pc \in [Slots -> Pcs]
      /\ parent \in [Slots -> Slots \cup {Nil}] /\ child \in [Slots -> Slots \cup {Nil}]
      /\ chan \in [Slots -> Slots \cup {Nil, EvChan}] /\ proc \in [Cpus -> Slots \cup {Nil}]
      /\ irq \in [Cpus -> {0, 1}] /\ cond \in {0, 1}
  BY Types
<1>1. proc[c] = p /\ lock = c /\ state[p] # "RUNNING"
  BY DEF Sched
<1>2. lk # c /\ pc[p] # "sleep"
  BY <1>1, Distinct DEF ProcInv, CpuInv, SchedLocks, LkInv, SleeperHolds
<1>3. /\ proc' = [proc EXCEPT ![c] = Nil]
      /\ UNCHANGED <<state, pc, lock, lk, irq, parent, kstack, child, chan, cond>>
  BY DEF Sched, table, event
<1>4. /\ UNCHANGED <<pid, killed, nextpid, pos, ctx>>
  BY DEF Sched, table, event
<1>5. TypeOK'
  BY <1>1, <1>2, <1>3, <1>4, Distinct DEF ProcInv, TypeOK
<1>6. CpuInv'
  <2>1. OnOne' /\ OnProcess' /\ SchedLocks'
    BY <1>3, <1>0 DEF ProcInv, CpuInv, OnOne, OnProcess, SchedLocks
  <2>2. RunningOn'
    BY <1>1, <1>3, <1>0 DEF ProcInv, CpuInv, RunningOn
  <2> QED
    BY <2>1, <2>2 DEF CpuInv
<1>7. LkInv'
  <2>1. HandlerHolds' /\ LkHolder'
    BY <1>2, <1>3, <1>0 DEF ProcInv, LkInv, HandlerHolds, LkHolder
  <2>2. SleeperHolds'
    BY <1>2, <1>3, <1>0 DEF ProcInv, LkInv, SleeperHolds
  <2> QED
    BY <2>1, <2>2 DEF LkInv
<1>8. SameTable
  BY <1>1, <1>2, <1>3, <1>0, Distinct DEF SameTable, Live, Forking
<1>9. SameWake
  BY <1>1, <1>2, <1>3, <1>0, Distinct DEF SameWake
<1> QED
  BY <1>5, <1>6, <1>7, <1>8, <1>9, TableFrame, WakeFrame, Zenon DEF ProcInv

\* The invariant survives the scheduler's acquire.
LEMMA SchedAcquireKeeps ==
  ASSUME ProcInv, NEW c \in Cpus, SchedAcquire(c)
  PROVE  ProcInv'
<1>0. /\ state \in [Slots -> States] /\ pc \in [Slots -> Pcs]
      /\ parent \in [Slots -> Slots \cup {Nil}] /\ child \in [Slots -> Slots \cup {Nil}]
      /\ chan \in [Slots -> Slots \cup {Nil, EvChan}] /\ proc \in [Cpus -> Slots \cup {Nil}]
      /\ irq \in [Cpus -> {0, 1}] /\ cond \in {0, 1}
  BY Types
<1>1. proc[c] = Nil /\ irq[c] = 0 /\ lock = NoCpu
  BY DEF SchedAcquire
<1>2. /\ lock' = c
      /\ UNCHANGED <<state, pc, lk, irq, proc, parent, kstack, child, chan, cond>>
  BY DEF SchedAcquire, table, event
<1>3. /\ pos' = [pos EXCEPT ![c] = 0]
      /\ UNCHANGED <<pid, killed, nextpid, ctx>>
  BY DEF SchedAcquire, table, event
<1>4. TypeOK'
  BY <1>1, <1>2, <1>3, Distinct DEF ProcInv, TypeOK
<1>5. SameCpu
  BY <1>1, <1>2, <1>0, Distinct DEF SameCpu, ProcInv, CpuInv, SchedLocks, OnOne, Free
<1>6. SameLk
  BY <1>1, <1>2, <1>0, Distinct DEF SameLk, ProcInv, LkInv, HandlerHolds, SleeperHolds
<1>7. SameTable
  BY <1>1, <1>2, <1>0, Distinct DEF SameTable, Live, Forking
<1>8. SameWake
  BY <1>1, <1>2, <1>0, Distinct DEF SameWake
<1> QED
  BY <1>4, <1>5, <1>6, <1>7, <1>8, CpuFrame, LkFrame, TableFrame, WakeFrame, Zenon DEF
     ProcInv

\* The invariant survives the scheduler's choice.
LEMMA SchedRunKeeps ==
  ASSUME ProcInv, NEW c \in Cpus, SchedRun(c)
  PROVE  ProcInv'
<1>0. /\ state \in [Slots -> States] /\ pc \in [Slots -> Pcs]
      /\ parent \in [Slots -> Slots \cup {Nil}] /\ child \in [Slots -> Slots \cup {Nil}]
      /\ chan \in [Slots -> Slots \cup {Nil, EvChan}] /\ proc \in [Cpus -> Slots \cup {Nil}]
      /\ irq \in [Cpus -> {0, 1}] /\ cond \in {0, 1}
  BY Types
<1>1. proc[c] = Nil /\ lock = c
  BY DEF SchedRun
<1>2. PICK p \in Slots :
        /\ state[p] = "RUNNABLE" /\ \A d \in Cpus : proc[d] # p
        /\ proc' = [proc EXCEPT ![c] = p]
        /\ state' = [state EXCEPT ![p] = "RUNNING"]
        /\ pos' = [pos EXCEPT ![c] = p + 1]
  BY SchedRunPicks
<1>3. /\ proc' = [proc EXCEPT ![c] = p]
      /\ state' = [state EXCEPT ![p] = "RUNNING"]
      /\ UNCHANGED <<pc, lock, lk, irq, parent, kstack, child, chan, cond>>
  BY <1>2, Zenon DEF SchedRun, event
<1>4. /\ pos' = [pos EXCEPT ![c] = p + 1]
      /\ UNCHANGED <<pid, killed, nextpid, ctx>>
  BY <1>2, Zenon DEF SchedRun, event
<1>5. TypeOK'
  BY <1>1, <1>2, <1>3, <1>4, Distinct DEF ProcInv, TypeOK
<1>6. CpuInv'
  <2>1. OnOne' /\ RunningOn'
    BY <1>1, <1>2, <1>3, <1>0, Distinct DEF ProcInv, CpuInv, OnOne, RunningOn
  <2>2. OnProcess' /\ SchedLocks'
    BY <1>1, <1>2, <1>3, <1>0, Distinct DEF ProcInv, CpuInv, OnProcess, SchedLocks, Free
  <2> QED
    BY <2>1, <2>2 DEF CpuInv
<1>7. LkInv'
  <2>1. HandlerHolds'
    BY <1>3 DEF ProcInv, LkInv, HandlerHolds
  <2>2. LkHolder'
    BY <1>1, <1>3, <1>0, Distinct DEF ProcInv, LkInv, LkHolder
  <2>3. SleeperHolds'
    BY <1>1, <1>2, <1>3, <1>0, Distinct DEF ProcInv, LkInv, SleeperHolds
  <2> QED
    BY <2>1, <2>2, <2>3 DEF LkInv
<1>8. SameTable
  BY <1>1, <1>2, <1>3, <1>0, Distinct DEF SameTable, Live, Forking
<1>9. SameWake
  BY <1>1, <1>2, <1>3, <1>0, Distinct DEF SameWake
<1> QED
  BY <1>5, <1>6, <1>7, <1>8, <1>9, TableFrame, WakeFrame, Zenon DEF ProcInv

\* The invariant survives the scheduler's release.
LEMMA SchedReleaseKeeps ==
  ASSUME ProcInv, NEW c \in Cpus, SchedRelease(c)
  PROVE  ProcInv'
<1>0. /\ state \in [Slots -> States] /\ pc \in [Slots -> Pcs]
      /\ parent \in [Slots -> Slots \cup {Nil}] /\ child \in [Slots -> Slots \cup {Nil}]
      /\ chan \in [Slots -> Slots \cup {Nil, EvChan}] /\ proc \in [Cpus -> Slots \cup {Nil}]
      /\ irq \in [Cpus -> {0, 1}] /\ cond \in {0, 1}
  BY Types
<1>1. proc[c] = Nil /\ lock = c
  BY DEF SchedRelease
<1>2. /\ lock' = NoCpu
      /\ UNCHANGED <<state, pc, lk, irq, proc, parent, kstack, child, chan, cond>>
  BY DEF SchedRelease, table, event
<1>3. /\ pos' = [pos EXCEPT ![c] = 0]
      /\ UNCHANGED <<pid, killed, nextpid, ctx>>
  BY DEF SchedRelease, table, event
<1>4. TypeOK'
  BY <1>1, <1>2, <1>3, Distinct DEF ProcInv, TypeOK
<1>5. SameCpu
  BY <1>1, <1>2, <1>0, Distinct DEF SameCpu, ProcInv, CpuInv, SchedLocks, OnOne, Free
<1>6. SameLk
  BY <1>1, <1>2, <1>0, Distinct DEF SameLk, ProcInv, LkInv, HandlerHolds, SleeperHolds
<1>7. SameTable
  BY <1>1, <1>2, <1>0, Distinct DEF SameTable, Live, Forking
<1>8. SameWake
  BY <1>1, <1>2, <1>0, Distinct DEF SameWake
<1> QED
  BY <1>4, <1>5, <1>6, <1>7, <1>8, CpuFrame, LkFrame, TableFrame, WakeFrame, Zenon DEF
     ProcInv

\* The invariant survives the return of swtch.
LEMMA ResumeKeeps ==
  ASSUME ProcInv, NEW c \in Cpus, NEW p \in Slots, Resume(c, p)
  PROVE  ProcInv'
<1>0. /\ state \in [Slots -> States] /\ pc \in [Slots -> Pcs]
      /\ parent \in [Slots -> Slots \cup {Nil}] /\ child \in [Slots -> Slots \cup {Nil}]
      /\ chan \in [Slots -> Slots \cup {Nil, EvChan}] /\ proc \in [Cpus -> Slots \cup {Nil}]
      /\ irq \in [Cpus -> {0, 1}] /\ cond \in {0, 1}
  BY Types
<1>1. proc[c] = p /\ lock = c /\ state[p] = "RUNNING"
  BY DEF Resume
<1>2. chan' = [chan EXCEPT ![p] = Nil] \/ chan' = chan
  BY DEF Resume
<1>3. /\ lock' = NoCpu
      /\ UNCHANGED <<state, pc, lk, irq, proc, parent, kstack, child, cond>>
  BY DEF Resume, cpuvars, event
<1>4. /\ ctx' = [ctx EXCEPT ![p] = "none"]
      /\ UNCHANGED <<pid, killed, nextpid, pos>>
  BY DEF Resume, cpuvars, event
<1>5. TypeOK'
  BY <1>1, <1>2, <1>3, <1>4, Distinct DEF ProcInv, TypeOK
<1>6. SameCpu
  BY <1>1, <1>2, <1>3, <1>0, Distinct DEF SameCpu, ProcInv, CpuInv, SchedLocks, OnOne, Free
<1>7. SameLk
  BY <1>1, <1>2, <1>3, <1>0, Distinct DEF SameLk, ProcInv, LkInv, HandlerHolds,
     SleeperHolds
<1>8. SameTable
  BY <1>1, <1>2, <1>3, <1>0, Distinct DEF SameTable, Live, Forking
<1>9. SameWake
  BY <1>1, <1>2, <1>3, <1>0, Distinct DEF SameWake
<1> QED
  BY <1>5, <1>6, <1>7, <1>8, <1>9, CpuFrame, LkFrame, TableFrame, WakeFrame, Zenon DEF
     ProcInv

-----------------------------------------------------------------------------
\* ProcInv is inductive.
THEOREM ProcInductive == Spec => []ProcInv
<1>1. Init => ProcInv
  <2> SUFFICES ASSUME Init PROVE ProcInv
    OBVIOUS
  <2>1. TypeOK
    BY Distinct, ProcAssumption DEF Init, TypeOK
  <2>2. CpuInv
    BY Distinct DEF Init, CpuInv, OnOne, RunningOn, OnProcess, SchedLocks
  <2>3. LkInv
    BY Distinct DEF Init, LkInv, HandlerHolds, LkHolder, SleeperHolds
  <2>4. TableInv
    BY Distinct
    DEF Init, TableInv, HasStack, ParentAlive, NotOwnParent, InitLives, PcOfState, Live, Free
  <2>5. ForkInv
    BY Distinct DEF Init, ForkInv, ForkPc, ForkChild, ForkOwn, Forking
  <2>6. WakeInv
    BY DEF Init, WakeInv, ZombieNoticed, EventNotMissed
  <2> QED
    BY <2>1, <2>2, <2>3, <2>4, <2>5, <2>6 DEF ProcInv
<1>2. ProcInv /\ [Next]_vars => ProcInv'
  <2> SUFFICES ASSUME ProcInv, [Next]_vars PROVE ProcInv'
    OBVIOUS
  <2>1. CASE UNCHANGED vars
    <3>1. UNCHANGED <<state, pid, parent, killed, chan, kstack, nextpid>>
      BY <2>1 DEF vars, table
    <3>2. UNCHANGED <<lock, proc, pos, irq, pc, ctx, child, lk, cond>>
      BY <2>1 DEF vars, cpuvars, event
    <3>3. TypeOK'
      BY <3>1, <3>2 DEF ProcInv, TypeOK
    <3>4. SameCpu
      BY <3>1, <3>2, Zenon DEF SameCpu, ProcInv, CpuInv, SchedLocks
    <3>5. SameLk
      BY Zenon, <3>1, <3>2 DEF SameLk, ProcInv, LkInv, HandlerHolds, SleeperHolds
    <3>6. SameTable
      BY <3>1, <3>2 DEF SameTable
    <3>7. SameWake
      BY <3>1, <3>2 DEF SameWake
    <3> QED
      BY <3>3, <3>4, <3>5, <3>6, <3>7, CpuFrame, LkFrame, TableFrame, WakeFrame DEF ProcInv
  <2>2. ASSUME NEW c \in Cpus, NEW p \in Slots,
               KernelStep(c, p) \/ UserStep(c, p) \/ Wait(c, p) \/ Await(c, p) \/ Yield(c, p)
        PROVE  ProcInv'
    <3>1. CASE KernelStep(c, p)
      BY <3>1, AllocStackKeeps, CopyUvmKeeps, ForkRunnableKeeps, ExitLockedKeeps,
         SleepAcquireKeeps, SleepReleaseKeeps, SchedKeeps, ResumeKeeps DEF KernelStep
    <3>2. CASE UserStep(c, p)
      BY <3>2, AllocProcKeeps, ExitKeeps, FaultKeeps, KillKeeps DEF UserStep
    <3> QED
      BY <2>2, <3>1, <3>2, WaitKeeps, AwaitKeeps, YieldKeeps
  <2>3. ASSUME NEW c \in Cpus, Scheduler(c) \/ Interrupt(c) \/ InterruptWakeup(c)
        PROVE  ProcInv'
    BY <2>3, SchedAcquireKeeps, SchedRunKeeps, SchedReleaseKeeps, InterruptKeeps,
       InterruptWakeupKeeps DEF Scheduler
  <2> QED
    BY <2>1, <2>2, <2>3 DEF Next
<1> QED
  BY <1>1, <1>2, PTL DEF Spec

\* The invariant says all that the runs check.
LEMMA ProcInvImplies ==
  ProcInv => CpuSound /\ ParentAlive /\ ZombieNoticed /\ EventNotMissed
<1> SUFFICES ASSUME ProcInv PROVE CpuSound /\ ParentAlive /\ ZombieNoticed /\ EventNotMissed
  OBVIOUS
<1>1. CpuInv /\ TableInv /\ WakeInv /\ TypeOK
  BY DEF ProcInv
<1>2. StackInUse
  BY <1>1, Types DEF CpuInv, OnProcess, TableInv, HasStack, StackInUse, Free
<1>3. OneCpu
  BY <1>1, OutsideRunning DEF CpuInv, OnOne, RunningOn, OneCpu
<1> QED
  BY <1>1, <1>2, <1>3 DEF CpuSound, CpuInv, TableInv, WakeInv

\* One CPU for a process; no CPU on a kernel stack that was freed; and sched()
\* entered holding ptable.lock and no other lock (proc.c:267-318).
THEOREM CpuSafety == Spec => []CpuSound
BY ProcInductive, ProcInvImplies, PTL

\* exit() leaves no process without a live parent (proc.c:201-208).
THEOREM ParentSafety == Spec => []ParentAlive
BY ProcInductive, ProcInvImplies, PTL

\* wait() is never asleep while a child of the caller is a zombie.
THEOREM ZombieSafety == Spec => []ZombieNoticed
BY ProcInductive, ProcInvImplies, PTL

\* sleep() misses no wakeup (proc.c:361-364).
THEOREM EventSafety == Spec => []EventNotMissed
BY ProcInductive, ProcInvImplies, PTL
=============================================================================
