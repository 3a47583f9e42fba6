-------------------------------- MODULE Spin --------------------------------
(***************************************************************************)
(* Spin locks and interrupt masking: spinlock.c, with the interrupts of    *)
(* trap.c that come on top of the code that holds them.                    *)
(*                                                                         *)
(* A context is the code a CPU runs: level 0 is a kernel thread, level 1   *)
(* the handler of an interrupt taken on top of it.  Every read and write   *)
(* that acquire, release, pushcli and popcli make of shared or per-CPU     *)
(* state is a step.  The clients take locks in ascending order, which is   *)
(* how the kernel nests them (a driver's lock, then ptable.lock), and      *)
(* release them in any order.                                              *)
(***************************************************************************)
EXTENDS Integers, FiniteSets

CONSTANTS
  CPUs,    \* the CPUs
  NLOCK    \* the locks are 1 .. NLOCK, ranked by number

ASSUME SpinAssumption == NLOCK \in Nat /\ 0 \notin CPUs

Locks == 1 .. NLOCK
Ctx == CPUs \X {0, 1}

VARIABLES
  locked,  \* lk->locked
  owner,   \* lk->cpu, 0 for none
  ncli,    \* cpu->ncli
  intena,  \* cpu->intena
  ien,     \* FL_IF of the CPU
  level,   \* which context of the CPU runs
  spc,     \* where each context is
  lk,      \* the lock it is acquiring or releasing, 0 when in neither
  eflags,  \* pushcli's local, 0 once it is used
  held     \* locks whose xchg it has won

spinVars == <<locked, owner, ncli, intena, ien, level, spc, lk, eflags, held>>
cpuVars == <<ncli, intena, ien>>

SpinInit ==
  /\ locked = [l \in Locks |-> 0] /\ owner = [l \in Locks |-> 0]
  /\ ncli = [c \in CPUs |-> 0] /\ intena = [c \in CPUs |-> 0]
  /\ ien = [c \in CPUs |-> 1]
  /\ level = [c \in CPUs |-> 0]
  /\ spc = [x \in Ctx |-> "run"]
  /\ lk = [x \in Ctx |-> 0]
  /\ eflags = [x \in Ctx |-> 0]
  /\ held = [x \in Ctx |-> {}]

\* Context x is the one its CPU is running, and is at s.
At(x, s) == level[x[1]] = x[2] /\ spc[x] = s
Goto(x, s) == spc' = [spc EXCEPT ![x] = s]

-----------------------------------------------------------------------------
(* acquire(lk) *)

Acquire(x, l) ==
  /\ At(x, "run")
  /\ \A m \in held[x] : m < l
  /\ lk' = [lk EXCEPT ![x] = l]
  /\ Goto(x, "push")
  /\ UNCHANGED <<locked, owner, cpuVars, level, eflags, held>>

\* eflags = readeflags();
PushRead(x) ==
  /\ At(x, "push")
  /\ eflags' = [eflags EXCEPT ![x] = ien[x[1]]]
  /\ Goto(x, "cli")
  /\ UNCHANGED <<locked, owner, cpuVars, level, lk, held>>

\* cli();
PushCli(x) ==
  /\ At(x, "cli")
  /\ ien' = [ien EXCEPT ![x[1]] = 0]
  /\ Goto(x, "count")
  /\ UNCHANGED <<locked, owner, ncli, intena, level, lk, eflags, held>>

\* Mutant: intena is set by every pushcli, not by the outermost one.
PushCountAlways(x) ==
  /\ At(x, "count")
  /\ ncli' = [ncli EXCEPT ![x[1]] = @ + 1]
  /\ intena' = [intena EXCEPT ![x[1]] = eflags[x]]
  /\ eflags' = [eflags EXCEPT ![x] = 0]
  /\ Goto(x, "test")
  /\ UNCHANGED <<locked, owner, ien, level, lk, held>>

\* if(cpu->ncli++ == 0) cpu->intena = eflags & FL_IF;
PushCount(x) ==
  /\ At(x, "count")
  /\ ncli' = [ncli EXCEPT ![x[1]] = @ + 1]
  /\ intena' = IF ncli[x[1]] = 0 THEN [intena EXCEPT ![x[1]] = eflags[x]] ELSE intena
  /\ eflags' = [eflags EXCEPT ![x] = 0]
  /\ Goto(x, "test")
  /\ UNCHANGED <<locked, owner, ien, level, lk, held>>

\* holding(lk) reads lk->locked, and lk->cpu only if that is set.
HoldLocked(x) ==
  /\ At(x, "test")
  /\ Goto(x, IF locked[lk[x]] = 1 THEN "testcpu" ELSE "xchg")
  /\ UNCHANGED <<locked, owner, cpuVars, level, lk, eflags, held>>

HoldCpu(x) ==
  /\ At(x, "testcpu")
  /\ Goto(x, IF owner[lk[x]] = x[1] THEN "panic" ELSE "xchg")
  /\ UNCHANGED <<locked, owner, cpuVars, level, lk, eflags, held>>

\* while(xchg(&lk->locked, 1) != 0) ;  A failed exchange changes nothing.
Xchg(x) ==
  /\ At(x, "xchg")
  /\ locked[lk[x]] = 0
  /\ locked' = [locked EXCEPT ![lk[x]] = 1]
  /\ held' = [held EXCEPT ![x] = @ \cup {lk[x]}]
  /\ Goto(x, "own")
  /\ UNCHANGED <<owner, cpuVars, level, lk, eflags>>

\* lk->cpu = cpu;
SetOwner(x) ==
  /\ At(x, "own")
  /\ owner' = [owner EXCEPT ![lk[x]] = x[1]]
  /\ lk' = [lk EXCEPT ![x] = 0]
  /\ Goto(x, "run")
  /\ UNCHANGED <<locked, cpuVars, level, eflags, held>>

-----------------------------------------------------------------------------
(* release(lk) *)

\* The holding() test included: nobody else writes either field now.
Release(x, l) ==
  /\ At(x, "run")
  /\ l \in held[x]
  /\ lk' = [lk EXCEPT ![x] = l]
  /\ Goto(x, IF locked[l] = 1 /\ owner[l] = x[1] THEN "disown" ELSE "panic")
  /\ UNCHANGED <<locked, owner, cpuVars, level, eflags, held>>

\* Mutant: lk->cpu is left as it is.
DisownNone(x) ==
  /\ At(x, "disown")
  /\ Goto(x, "unlock")
  /\ UNCHANGED <<locked, owner, cpuVars, level, lk, eflags, held>>

\* lk->cpu = 0;
Disown(x) ==
  /\ At(x, "disown")
  /\ owner' = [owner EXCEPT ![lk[x]] = 0]
  /\ Goto(x, "unlock")
  /\ UNCHANGED <<locked, cpuVars, level, lk, eflags, held>>

\* xchg(&lk->locked, 0);
Unlock(x) ==
  /\ At(x, "unlock")
  /\ locked' = [locked EXCEPT ![lk[x]] = 0]
  /\ held' = [held EXCEPT ![x] = @ \ {lk[x]}]
  /\ Goto(x, "pop")
  /\ UNCHANGED <<owner, cpuVars, level, lk, eflags>>

PopCli(x) ==
  LET c == x[1] n == ncli[c] - 1 IN
  /\ At(x, "pop")
  /\ ncli' = [ncli EXCEPT ![c] = n]
  /\ ien' = [ien EXCEPT ![c] = IF n = 0 /\ intena[c] = 1 THEN 1 ELSE @]
  /\ Goto(x, IF ien[c] = 1 \/ n < 0 THEN "panic" ELSE "run")
  /\ lk' = [lk EXCEPT ![x] = 0]
  /\ UNCHANGED <<locked, owner, intena, level, eflags, held>>

-----------------------------------------------------------------------------
(* Interrupts: the gates of tvinit clear FL_IF, iret restores it. *)

Interrupt(c) ==
  /\ ien[c] = 1 /\ level[c] = 0
  /\ level' = [level EXCEPT ![c] = 1]
  /\ ien' = [ien EXCEPT ![c] = 0]
  /\ UNCHANGED <<locked, owner, ncli, intena, spc, lk, eflags, held>>

Iret(c) ==
  /\ At(<<c, 1>>, "run") /\ held[<<c, 1>>] = {}
  /\ level' = [level EXCEPT ![c] = 0]
  /\ ien' = [ien EXCEPT ![c] = 1]
  /\ UNCHANGED <<locked, owner, ncli, intena, spc, lk, eflags, held>>

LockStep(x) ==
  \/ \E l \in Locks : Acquire(x, l) \/ Release(x, l)
  \/ PushRead(x) \/ PushCli(x) \/ PushCount(x) \/ HoldLocked(x) \/ HoldCpu(x)
  \/ Xchg(x) \/ SetOwner(x) \/ Disown(x) \/ Unlock(x) \/ PopCli(x)

SpinNext ==
  \/ \E x \in Ctx : LockStep(x)
  \/ \E c \in CPUs : Interrupt(c) \/ Iret(c)

SpinSpec == SpinInit /\ [][SpinNext]_spinVars

-----------------------------------------------------------------------------
(* Properties *)

PushPcs == {"test", "testcpu", "xchg"}
SpinPcs == {"run", "push", "cli", "count", "own", "disown", "unlock", "pop", "panic"}
             \cup PushPcs

\* Every variable keeps its type.
SpinTypeOK ==
  /\ locked \in [Locks -> {0, 1}] /\ owner \in [Locks -> CPUs \cup {0}]
  /\ ncli \in [CPUs -> Nat] /\ intena \in [CPUs -> {0, 1}]
  /\ ien \in [CPUs -> {0, 1}] /\ level \in [CPUs -> {0, 1}]
  /\ spc \in [Ctx -> SpinPcs] /\ lk \in [Ctx -> Locks \cup {0}]
  /\ eflags \in [Ctx -> {0, 1}] /\ held \in [Ctx -> SUBSET Locks]

\* A lock is held by one context at a time, thread or handler, and is marked
\* locked exactly while it is held (acquire's exchange, release's exchange).
MutualExclusion ==
  /\ \A l \in Locks : locked[l] = 1 <=> \E x \in Ctx : l \in held[x]
  /\ \A x, y \in Ctx : held[x] \cap held[y] # {} => x = y

\* "pushcli and popcli are matched": code that holds a lock, or is between its
\* pushcli and its popcli, cannot be interrupted; a thread that is done with all
\* its locks can, and a handler that is done with its own still cannot.
IntrMasked ==
  \A c \in CPUs :
    /\ (\E k \in {0, 1} : held[<<c, k>>] # {}) => ien[c] = 0
    /\ spc[<<c, 0>>] = "run" /\ held[<<c, 0>>] = {} /\ level[c] = 0 => ien[c] = 1
    /\ level[c] = 1 => ien[c] = 0

\* No CPU waits for a lock that it holds itself, be it in the thread or in the
\* handler on top of it ("disable interrupts to avoid deadlock").
NoSelfWait ==
  \A c \in CPUs, k, j \in {0, 1} :
    spc[<<c, k>>] \in PushPcs => lk[<<c, k>>] \notin held[<<c, j>>]

\* None of the panics of acquire, release and popcli is met: holding() reads
\* two fields without the lock and must not mistake another CPU's moment
\* between the exchange and lk->cpu for its own.
SpinNoPanic == \A x \in Ctx : spc[x] # "panic"

\* Locks are safe: typed, exclusive, never waited for by their holder, and none
\* of the panics of acquire, release and popcli is met.
SpinSafe == SpinTypeOK /\ MutualExclusion /\ NoSelfWait /\ SpinNoPanic
=============================================================================
