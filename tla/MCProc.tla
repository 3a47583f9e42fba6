------------------------------- MODULE MCProc -------------------------------
(***************************************************************************)
(* Proc.tla on small instances, with the fairness its liveness needs.      *)
(***************************************************************************)
EXTENDS Proc, TLC

Symm == Permutations(Cpus)

\* Kernel code on CPU c, and its scheduler: what it does without being asked.
CpuStep(c) ==
  \/ Scheduler(c) \/ InterruptWakeup(c)
  \/ \E p \in Slots : KernelStep(c, p) \/ (pc[p] = "wait" /\ Wait(c, p))

\* init forks at will, and then waits: "for(;;) wait()" in init.c.
InitStep(c) ==
  Wait(c, initproc) \/ AllocStack(c, initproc) \/ CopyUvm(c, initproc)
    \/ ForkRunnable(c, initproc)

\* A CPU that spins for ptable.lock gets it if the lock is free again and
\* again; the clock ticks on every CPU; init's own code is not preempted
\* for ever.
Fairness ==
  /\ \A c \in Cpus : SF_vars(CpuStep(c)) /\ SF_vars(\E p \in Slots : Yield(c, p))
  /\ SF_vars(\E c \in Cpus : InitStep(c))

FairSpec == Spec /\ Fairness

\* The scheduler starves nobody: a RUNNABLE process runs (proc.c:267-298).
RunnableRuns ==
  \A s \in Slots : state[s] = "RUNNABLE" ~> state[s] = "RUNNING"

\* Every zombie handed to init, or born its child, is reaped.
OrphanReaped ==
  \A s \in Slots : (state[s] = "ZOMBIE" /\ parent[s] = initproc) ~> state[s] = "UNUSED"
=============================================================================
