----------------------------- MODULE SpinProofs -----------------------------
(***************************************************************************)
(* Proofs about Spin, for any set of CPUs and any number of locks.  The    *)
(* inductive invariant says which locks a context has while it is inside   *)
(* acquire or release, whose number lk->cpu is, and that a CPU's ncli      *)
(* counts the locks of the one context that runs on it.                    *)
(***************************************************************************)
EXTENDS Spin, FiniteSetTheorems, TLAPS

USE SMTT(30), Z3T(30), Zenon

\* As SpinTypeOK, but that ncli is no less than 0 is a result.
SpinTyped ==
  /\ locked \in [Locks -> {0, 1}] /\ owner \in [Locks -> CPUs \cup {0}]
  /\ ncli \in [CPUs -> Int] /\ intena \in [CPUs -> {0, 1}]
  /\ ien \in [CPUs -> {0, 1}] /\ level \in [CPUs -> {0, 1}]
  /\ spc \in [Ctx -> SpinPcs] /\ lk \in [Ctx -> Locks \cup {0}]
  /\ eflags \in [Ctx -> {0, 1}] /\ held \in [Ctx -> SUBSET Locks]

Before == {"run", "push", "cli"}             \* cli() is still to come
Wanting == {"push", "cli", "count"} \cup PushPcs

\* Which lock the context is about, and whether it has it.
LkHeld ==
  \A x \in Ctx :
    /\ spc[x] \in Wanting => lk[x] \in Locks /\ lk[x] \notin held[x]
    /\ spc[x] \in {"own", "disown", "unlock"} => lk[x] \in held[x]

Excludes ==
  /\ \A l \in Locks : locked[l] = 1 => \E x \in Ctx : l \in held[x]
  /\ \A x \in Ctx, l \in Locks : l \in held[x] => locked[l] = 1
  /\ \A x, y \in Ctx, l \in Locks : l \in held[x] /\ l \in held[y] => x = y

\* lk->cpu is the CPU of the holder, but for the moments after the exchange
\* and before it.
OwnerSet ==
  /\ \A x \in Ctx, l \in Locks :
       l \in held[x] => owner[l] = x[1] \/ (spc[x] \in {"own", "unlock"} /\ lk[x] = l)
  /\ \A l \in Locks : owner[l] # 0 => \E x \in Ctx : l \in held[x] /\ owner[l] = x[1]
  /\ \A x \in Ctx : spc[x] = "unlock" => owner[lk[x]] = 0

\* The context that does not run is outside acquire and release and has no
\* lock; the thread below a handler may be in front of cli().
OneRuns ==
  \A x \in Ctx :
    level[x[1]] # x[2] =>
      /\ held[x] = {}
      /\ spc[x] \in Before /\ (x[2] = 1 => spc[x] = "run")

\* FL_IF is set exactly in a thread with no lock and no pushcli.
Masked ==
  \A x \in Ctx :
    level[x[1]] = x[2] =>
      (ien[x[1]] = 1 <=> x[2] = 0 /\ held[x] = {} /\ spc[x] \in Before)

Pending(x) == IF spc[x] \in PushPcs \cup {"pop"} THEN 1 ELSE 0

Counted ==
  \A x \in Ctx :
    level[x[1]] = x[2] => ncli[x[1]] = Cardinality(held[x]) + Pending(x)

\* What the outermost pushcli saved: enabled in a thread, not in a handler.
Saved ==
  /\ \A c \in CPUs : ncli[c] > 0 => intena[c] = 1 - level[c]
  /\ \A x \in Ctx : spc[x] \in {"cli", "count"} /\ held[x] = {} => eflags[x] = 1 - x[2]

SpinInv ==
  /\ SpinTyped /\ LkHeld /\ Excludes /\ OwnerSet
  /\ OneRuns /\ Masked /\ Counted /\ Saved
  /\ SpinNoPanic

-----------------------------------------------------------------------------
(* What the steps below use of a context and of its locks *)

\* A context is its CPU and its level.
LEMMA CtxPair ==
  ASSUME NEW x \in Ctx
  PROVE  x[1] \in CPUs /\ x[2] \in {0, 1} /\ x = <<x[1], x[2]>>
BY DEF Ctx

\* A CPU has a thread and a handler.
LEMMA PairCtx ==
  ASSUME NEW c \in CPUs
  PROVE  <<c, 0>> \in Ctx /\ <<c, 1>> \in Ctx
BY DEF Ctx

\* How many locks a context has is a number, 0 when it has none, and one more
\* or one less with a lock more or less.
LEMMA HeldCounts ==
  ASSUME NEW S \in SUBSET Locks, NEW l \in Locks
  PROVE  /\ Cardinality(S) \in Nat
         /\ Cardinality(S) = 0 <=> S = {}
         /\ l \notin S => Cardinality(S \cup {l}) = Cardinality(S) + 1
         /\ l \in S => Cardinality(S \ {l}) = Cardinality(S) - 1
<1>1. IsFiniteSet(Locks)
  BY SpinAssumption, FS_Interval DEF Locks
<1>2. IsFiniteSet(S)
  BY <1>1, FS_Subset
<1> QED
  BY Zenon, <1>2, FS_CardinalityType, FS_EmptySet, FS_AddElement, FS_RemoveElement

\* A running context that has passed its cli() runs masked.
LEMMA PastCli ==
  ASSUME SpinInv, NEW x \in Ctx, level[x[1]] = x[2], spc[x] \notin Before
  PROVE  ien[x[1]] = 0
BY CtxPair DEF SpinInv, Masked, SpinTyped

\* The count of a running context, in numbers.
LEMMA CountIs ==
  ASSUME SpinInv, NEW x \in Ctx, level[x[1]] = x[2]
  PROVE  /\ Cardinality(held[x]) \in Nat
         /\ Cardinality(held[x]) = 0 <=> held[x] = {}
         /\ ncli[x[1]] = Cardinality(held[x]) + Pending(x)
<1>1. held[x] \in SUBSET Locks /\ IsFiniteSet(Locks)
  BY SpinAssumption, FS_Interval DEF SpinInv, SpinTyped, Locks
<1>2. IsFiniteSet(held[x])
  BY <1>1, FS_Subset
<1> QED
  BY <1>2, FS_CardinalityType, FS_EmptySet DEF SpinInv, Counted

\* The lock a context is about is a lock.
LEMMA LkIsLock ==
  ASSUME SpinInv, NEW x \in Ctx, spc[x] \in Wanting \cup {"own", "disown", "unlock"}
  PROVE  /\ lk[x] \in Locks
         /\ lk[x] \in held[x] <=> spc[x] \notin Wanting
BY DEF SpinInv, SpinTyped, LkHeld, Wanting, PushPcs

\* A lock that a running context wants has not its CPU's number: the other
\* context of the CPU has no lock.
LEMMA NotOwner ==
  ASSUME SpinInv, NEW x \in Ctx, level[x[1]] = x[2], spc[x] \in Wanting
  PROVE  owner[lk[x]] # x[1]
<1> SUFFICES ASSUME owner[lk[x]] = x[1] PROVE FALSE
  OBVIOUS
<1>1. lk[x] \in Locks /\ lk[x] \notin held[x] /\ x[1] # 0
  BY LkIsLock, CtxPair, SpinAssumption
<1>2. PICK y \in Ctx : lk[x] \in held[y] /\ y[1] = x[1]
  BY <1>1 DEF SpinInv, OwnerSet
<1>3. y[2] # x[2]
  BY <1>1, <1>2, CtxPair
<1> QED
  BY <1>2, <1>3 DEF SpinInv, OneRuns

-----------------------------------------------------------------------------
(* acquire *)

\* The call of acquire, for a lock above those the context has.
LEMMA AcquireStep ==
  ASSUME SpinInv, NEW x \in Ctx, NEW l \in Locks, Acquire(x, l)
  PROVE  SpinInv'
<1> USE DEF Acquire, At, Goto, cpuVars
<1>1. SpinTyped'
  BY DEF SpinInv, SpinTyped, SpinPcs
<1>2. LkHeld'
  BY DEF SpinInv, SpinTyped, LkHeld, Wanting, PushPcs, Locks
<1>3. Excludes'
  BY DEF SpinInv, Excludes
<1>4. OwnerSet'
  BY DEF SpinInv, SpinTyped, OwnerSet
<1>5. OneRuns'
  BY CtxPair, PairCtx DEF SpinInv, SpinTyped, OneRuns, Before
<1>6. Masked'
  BY CtxPair, PairCtx DEF SpinInv, SpinTyped, Masked, Before
<1>7. Counted'
  BY DEF SpinInv, SpinTyped, Counted, Pending, PushPcs
<1>8. Saved'
  BY DEF SpinInv, SpinTyped, Saved
<1>9. SpinNoPanic'
  BY DEF SpinInv, SpinTyped, SpinNoPanic
<1> QED
  BY <1>1, <1>2, <1>3, <1>4, <1>5, <1>6, <1>7, <1>8, <1>9 DEF SpinInv

\* The flags are read: set in a thread that has no lock, clear in a handler.
LEMMA PushReadStep ==
  ASSUME SpinInv, NEW x \in Ctx, PushRead(x)
  PROVE  SpinInv'
<1> USE DEF PushRead, At, Goto, cpuVars
<1>1. SpinTyped'
  BY CtxPair DEF SpinInv, SpinTyped, SpinPcs
<1>2. LkHeld'
  BY DEF SpinInv, SpinTyped, LkHeld, Wanting, PushPcs, Locks
<1>3. Excludes'
  BY DEF SpinInv, SpinTyped, Excludes
<1>4. OwnerSet'
  BY DEF SpinInv, SpinTyped, OwnerSet
<1>5. OneRuns'
  BY CtxPair DEF SpinInv, SpinTyped, OneRuns, Before
<1>6. Masked'
  BY CtxPair DEF SpinInv, SpinTyped, Masked, Before
<1>7. Counted'
  BY CtxPair DEF SpinInv, SpinTyped, Counted, Pending, PushPcs
<1>8. Saved'
  BY CtxPair DEF SpinInv, SpinTyped, Saved, Masked, Before
<1>9. SpinNoPanic'
  BY DEF SpinInv, SpinTyped, SpinNoPanic
<1> QED
  BY <1>1, <1>2, <1>3, <1>4, <1>5, <1>6, <1>7, <1>8, <1>9 DEF SpinInv

\* Interrupts are masked.
LEMMA PushCliStep ==
  ASSUME SpinInv, NEW x \in Ctx, PushCli(x)
  PROVE  SpinInv'
<1> USE DEF PushCli, At, Goto, cpuVars
<1>1. SpinTyped'
  BY Zenon DEF SpinInv, SpinTyped, SpinPcs
<1>2. LkHeld'
  BY DEF SpinInv, SpinTyped, LkHeld, Wanting, PushPcs, Locks
<1>3. Excludes'
  BY DEF SpinInv, SpinTyped, Excludes
<1>4. OwnerSet'
  BY DEF SpinInv, SpinTyped, OwnerSet
<1>5. OneRuns'
  BY CtxPair DEF SpinInv, SpinTyped, OneRuns, Before
<1>6. Masked'
  BY CtxPair DEF SpinInv, SpinTyped, Masked, Before
<1>7. Counted'
  BY CtxPair DEF SpinInv, SpinTyped, Counted, Pending, PushPcs
<1>8. Saved'
  BY CtxPair DEF SpinInv, SpinTyped, Saved
<1>9. SpinNoPanic'
  BY DEF SpinInv, SpinTyped, SpinNoPanic
<1> QED
  BY <1>1, <1>2, <1>3, <1>4, <1>5, <1>6, <1>7, <1>8, <1>9 DEF SpinInv

\* The count goes up by one, and the outermost pushcli saves the flags.
LEMMA PushCountStep ==
  ASSUME SpinInv, NEW x \in Ctx, PushCount(x)
  PROVE  SpinInv'
<1> USE DEF PushCount, At, Goto, cpuVars
<1>1. SpinTyped'
  BY CtxPair DEF SpinInv, SpinTyped, SpinPcs, PushPcs
<1>2. LkHeld'
  BY DEF SpinInv, SpinTyped, LkHeld, Wanting, PushPcs, Locks
<1>3. Excludes'
  BY DEF SpinInv, SpinTyped, Excludes
<1>4. OwnerSet'
  BY DEF SpinInv, SpinTyped, OwnerSet
<1>5. OneRuns'
  BY CtxPair DEF SpinInv, SpinTyped, OneRuns, Before
<1>6. Masked'
  BY CtxPair DEF SpinInv, SpinTyped, Masked, Before
<1>7. Counted'
  BY CtxPair, CountIs DEF SpinInv, SpinTyped, Counted, Pending, PushPcs
<1>8. Saved'
  BY CtxPair, CountIs DEF SpinInv, SpinTyped, Saved, Pending, PushPcs
<1>9. SpinNoPanic'
  BY DEF SpinInv, SpinTyped, SpinNoPanic
<1> QED
  BY <1>1, <1>2, <1>3, <1>4, <1>5, <1>6, <1>7, <1>8, <1>9 DEF SpinInv

\* holding() reads lk->locked.
LEMMA HoldLockedStep ==
  ASSUME SpinInv, NEW x \in Ctx, HoldLocked(x)
  PROVE  SpinInv'
<1> USE DEF HoldLocked, At, Goto, cpuVars
<1>1. SpinTyped'
  BY DEF SpinInv, SpinTyped, SpinPcs, PushPcs
<1>2. LkHeld'
  BY DEF SpinInv, SpinTyped, LkHeld, Wanting, PushPcs, Locks
<1>3. Excludes'
  BY DEF SpinInv, SpinTyped, Excludes
<1>4. OwnerSet'
  BY DEF SpinInv, SpinTyped, OwnerSet
<1>5. OneRuns'
  BY CtxPair DEF SpinInv, SpinTyped, OneRuns, Before
<1>6. Masked'
  BY CtxPair DEF SpinInv, SpinTyped, Masked, Before
<1>7. Counted'
  BY CtxPair DEF SpinInv, SpinTyped, Counted, Pending, PushPcs
<1>8. Saved'
  BY CtxPair DEF SpinInv, SpinTyped, Saved
<1>9. SpinNoPanic'
  BY DEF SpinInv, SpinTyped, SpinNoPanic
<1> QED
  BY <1>1, <1>2, <1>3, <1>4, <1>5, <1>6, <1>7, <1>8, <1>9 DEF SpinInv

\* holding() reads lk->cpu: it is not this CPU's number, for the other context
\* of the CPU has no lock.
LEMMA HoldCpuStep ==
  ASSUME SpinInv, NEW x \in Ctx, HoldCpu(x)
  PROVE  SpinInv'
<1> USE DEF HoldCpu, At, Goto, cpuVars
<1>1. SpinTyped'
  BY DEF SpinInv, SpinTyped, SpinPcs, PushPcs
<1>2. LkHeld'
  BY DEF SpinInv, SpinTyped, LkHeld, Wanting, PushPcs, Locks
<1>3. Excludes'
  BY DEF SpinInv, SpinTyped, Excludes
<1>4. OwnerSet'
  BY DEF SpinInv, SpinTyped, OwnerSet
<1>5. OneRuns'
  BY CtxPair DEF SpinInv, SpinTyped, OneRuns, Before
<1>6. Masked'
  BY CtxPair DEF SpinInv, SpinTyped, Masked, Before
<1>7. Counted'
  BY CtxPair, NotOwner DEF SpinInv, SpinTyped, Counted, Pending, Wanting, PushPcs
<1>8. Saved'
  BY CtxPair DEF SpinInv, SpinTyped, Saved
<1>9. SpinNoPanic'
  BY NotOwner DEF SpinInv, SpinTyped, SpinNoPanic, Wanting, PushPcs
<1> QED
  BY <1>1, <1>2, <1>3, <1>4, <1>5, <1>6, <1>7, <1>8, <1>9 DEF SpinInv

\* The exchange that finds 0: nobody had the lock.
LEMMA XchgStep ==
  ASSUME SpinInv, NEW x \in Ctx, Xchg(x)
  PROVE  SpinInv'
<1> USE DEF Xchg, At, Goto, cpuVars
<1>1. SpinTyped'
  BY LkIsLock DEF SpinInv, SpinTyped, SpinPcs, Wanting, PushPcs
<1>2. LkHeld'
  BY DEF SpinInv, SpinTyped, LkHeld, Wanting, PushPcs, Locks
<1>3. Excludes'
  BY DEF SpinInv, SpinTyped, Excludes
<1>4. OwnerSet'
  BY DEF SpinInv, SpinTyped, OwnerSet
<1>5. OneRuns'
  BY CtxPair DEF SpinInv, SpinTyped, OneRuns, Before
<1>6. Masked'
  BY CtxPair DEF SpinInv, SpinTyped, Masked, Before
<1>7. Counted'
  <2>1. Cardinality(held'[x]) = Cardinality(held[x]) + 1
    BY LkIsLock, HeldCounts DEF SpinInv, SpinTyped, Wanting, PushPcs
  <2> QED
    BY <2>1, CtxPair, CountIs DEF SpinInv, SpinTyped, Counted, Pending, PushPcs
<1>8. Saved'
  BY CtxPair DEF SpinInv, SpinTyped, Saved
<1>9. SpinNoPanic'
  BY DEF SpinInv, SpinTyped, SpinNoPanic
<1> QED
  BY <1>1, <1>2, <1>3, <1>4, <1>5, <1>6, <1>7, <1>8, <1>9 DEF SpinInv

\* lk->cpu is set.
LEMMA SetOwnerStep ==
  ASSUME SpinInv, NEW x \in Ctx, SetOwner(x)
  PROVE  SpinInv'
<1> USE DEF SetOwner, At, Goto, cpuVars
<1>1. SpinTyped'
  BY Zenon, CtxPair DEF SpinInv, SpinTyped, SpinPcs
<1>2. LkHeld'
  BY DEF SpinInv, SpinTyped, LkHeld, Wanting, PushPcs, Locks
<1>3. Excludes'
  BY DEF SpinInv, SpinTyped, Excludes
<1>4. OwnerSet'
  <2>1. lk[x] \in Locks /\ lk[x] \in held[x]
    BY LkIsLock DEF Wanting, PushPcs
  <2>2. \A y \in Ctx : spc[y] = "unlock" => lk[y] # lk[x]
    BY <2>1 DEF SpinInv, SpinTyped, LkHeld, Excludes
  <2> QED
    BY <2>1, <2>2, CtxPair DEF SpinInv, SpinTyped, OwnerSet, Excludes
<1>5. OneRuns'
  BY CtxPair DEF SpinInv, SpinTyped, OneRuns, Before
<1>6. Masked'
  BY CtxPair, LkIsLock DEF SpinInv, SpinTyped, Masked, Before, Wanting, PushPcs
<1>7. Counted'
  BY CtxPair DEF SpinInv, SpinTyped, Counted, Pending, PushPcs
<1>8. Saved'
  BY CtxPair DEF SpinInv, SpinTyped, Saved
<1>9. SpinNoPanic'
  BY DEF SpinInv, SpinTyped, SpinNoPanic
<1> QED
  BY <1>1, <1>2, <1>3, <1>4, <1>5, <1>6, <1>7, <1>8, <1>9 DEF SpinInv

-----------------------------------------------------------------------------
(* release *)

\* release finds the lock its own.
LEMMA ReleaseStep ==
  ASSUME SpinInv, NEW x \in Ctx, NEW l \in Locks, Release(x, l)
  PROVE  SpinInv'
<1> USE DEF Release, At, Goto, cpuVars
<1>1. SpinTyped'
  BY DEF SpinInv, SpinTyped, SpinPcs
<1>2. LkHeld'
  BY DEF SpinInv, SpinTyped, LkHeld, Wanting, PushPcs, Locks
<1>3. Excludes'
  BY DEF SpinInv, SpinTyped, Excludes
<1>4. OwnerSet'
  BY DEF SpinInv, SpinTyped, OwnerSet
<1>5. OneRuns'
  BY CtxPair DEF SpinInv, SpinTyped, OneRuns, Before
<1>6. Masked'
  BY CtxPair DEF SpinInv, SpinTyped, Masked, Before
<1>7. Counted'
  BY CtxPair DEF SpinInv, SpinTyped, Counted, Pending, PushPcs
<1>8. Saved'
  BY CtxPair DEF SpinInv, SpinTyped, Saved
<1>9. SpinNoPanic'
  BY DEF SpinInv, SpinTyped, SpinNoPanic, Excludes, OwnerSet
<1> QED
  BY <1>1, <1>2, <1>3, <1>4, <1>5, <1>6, <1>7, <1>8, <1>9 DEF SpinInv

\* lk->cpu is cleared.
LEMMA DisownStep ==
  ASSUME SpinInv, NEW x \in Ctx, Disown(x)
  PROVE  SpinInv'
<1> USE DEF Disown, At, Goto, cpuVars
<1>1. SpinTyped'
  BY Zenon DEF SpinInv, SpinTyped, SpinPcs
<1>2. LkHeld'
  BY DEF SpinInv, SpinTyped, LkHeld, Wanting, PushPcs, Locks
<1>3. Excludes'
  BY DEF SpinInv, SpinTyped, Excludes
<1>4. OwnerSet'
  <2>1. lk[x] \in Locks /\ lk[x] \in held[x]
    BY LkIsLock DEF Wanting, PushPcs
  <2> QED
    BY <2>1, CtxPair DEF SpinInv, SpinTyped, OwnerSet, Excludes
<1>5. OneRuns'
  BY CtxPair DEF SpinInv, SpinTyped, OneRuns, Before
<1>6. Masked'
  BY CtxPair DEF SpinInv, SpinTyped, Masked, Before
<1>7. Counted'
  BY CtxPair DEF SpinInv, SpinTyped, Counted, Pending, PushPcs
<1>8. Saved'
  BY CtxPair DEF SpinInv, SpinTyped, Saved
<1>9. SpinNoPanic'
  BY DEF SpinInv, SpinTyped, SpinNoPanic
<1> QED
  BY <1>1, <1>2, <1>3, <1>4, <1>5, <1>6, <1>7, <1>8, <1>9 DEF SpinInv

\* The lock is given up.
LEMMA UnlockStep ==
  ASSUME SpinInv, NEW x \in Ctx, Unlock(x)
  PROVE  SpinInv'
<1> USE DEF Unlock, At, Goto, cpuVars
<1>1. SpinTyped'
  BY Zenon DEF SpinInv, SpinTyped, SpinPcs
<1>2. LkHeld'
  BY DEF SpinInv, SpinTyped, LkHeld, Wanting, PushPcs, Locks
<1>3. Excludes'
  <2>1. lk[x] \in Locks /\ lk[x] \in held[x]
    BY LkIsLock DEF Wanting, PushPcs
  <2>2. \A y \in Ctx : held'[y] = held[y] \ {lk[x]}
    BY <2>1 DEF SpinInv, SpinTyped, Excludes
  <2> QED
    BY <2>1, <2>2 DEF SpinInv, SpinTyped, Excludes
<1>4. OwnerSet'
  BY DEF SpinInv, SpinTyped, OwnerSet
<1>5. OneRuns'
  BY CtxPair DEF SpinInv, SpinTyped, OneRuns, Before
<1>6. Masked'
  BY CtxPair DEF SpinInv, SpinTyped, Masked, Before
<1>7. Counted'
  <2>1. Cardinality(held'[x]) = Cardinality(held[x]) - 1
    BY LkIsLock, HeldCounts DEF SpinInv, SpinTyped, Wanting, PushPcs
  <2> QED
    BY <2>1, CtxPair, CountIs DEF SpinInv, SpinTyped, Counted, Pending, PushPcs
<1>8. Saved'
  BY CtxPair DEF SpinInv, SpinTyped, Saved
<1>9. SpinNoPanic'
  BY DEF SpinInv, SpinTyped, SpinNoPanic
<1> QED
  BY <1>1, <1>2, <1>3, <1>4, <1>5, <1>6, <1>7, <1>8, <1>9 DEF SpinInv

\* The count goes down by one; the flags come back with the outermost popcli.
LEMMA PopCliStep ==
  ASSUME SpinInv, NEW x \in Ctx, PopCli(x)
  PROVE  SpinInv'
<1> USE DEF PopCli, At, Goto, cpuVars
<1>0. /\ ien[x[1]] = 0 /\ x[1] \in CPUs /\ x[2] \in {0, 1}
      /\ Cardinality(held[x]) \in Nat
      /\ Cardinality(held[x]) = 0 <=> held[x] = {}
      /\ ncli[x[1]] - 1 = Cardinality(held[x]) /\ ncli[x[1]] \in Int
      /\ intena[x[1]] = 1 - x[2]
  BY CtxPair, PastCli, CountIs DEF SpinInv, SpinTyped, Saved, Before, Pending
<1>1. SpinTyped'
  BY <1>0 DEF SpinInv, SpinTyped, SpinPcs
<1>2. LkHeld'
  BY DEF SpinInv, SpinTyped, LkHeld, Wanting, PushPcs, Locks
<1>3. Excludes'
  BY DEF SpinInv, SpinTyped, Excludes
<1>4. OwnerSet'
  BY DEF SpinInv, SpinTyped, OwnerSet
<1>5. OneRuns'
  BY CtxPair DEF SpinInv, SpinTyped, OneRuns, Before
<1>6. Masked'
  BY <1>0, CtxPair DEF SpinInv, SpinTyped, Masked, Before
<1>7. Counted'
  <2>1. ~(ien[x[1]] = 1 \/ ncli[x[1]] - 1 < 0)
    BY <1>0
  <2>2. spc' = [spc EXCEPT ![x] = "run"] /\ ncli' = [ncli EXCEPT ![x[1]] = Cardinality(held[x])]
    BY Zenon, <1>0, <2>1
  <2> QED
    BY <1>0, <2>2, CtxPair DEF SpinInv, SpinTyped, Counted, Pending, PushPcs
<1>8. Saved'
  BY <1>0, CtxPair DEF SpinInv, SpinTyped, Saved
<1>9. SpinNoPanic'
  BY <1>0 DEF SpinInv, SpinTyped, SpinNoPanic
<1> QED
  BY <1>1, <1>2, <1>3, <1>4, <1>5, <1>6, <1>7, <1>8, <1>9 DEF SpinInv

-----------------------------------------------------------------------------
(* Interrupts *)

\* An interrupt finds a thread that has no lock and no pushcli.
LEMMA InterruptStep ==
  ASSUME SpinInv, NEW c \in CPUs, Interrupt(c)
  PROVE  SpinInv'
<1> USE DEF Interrupt, At, Goto, cpuVars
<1>0. /\ <<c, 0>> \in Ctx /\ held[<<c, 0>>] = {} /\ spc[<<c, 0>>] \in Before
      /\ <<c, 1>> \in Ctx /\ held[<<c, 1>>] = {} /\ spc[<<c, 1>>] = "run"
      /\ ncli[c] = 0 /\ Cardinality({}) = 0
  BY PairCtx, CountIs, FS_EmptySet DEF SpinInv, Masked, OneRuns, Pending, PushPcs, Before
<1>1. SpinTyped'
  BY DEF SpinInv, SpinTyped, SpinPcs
<1>2. LkHeld'
  BY DEF SpinInv, SpinTyped, LkHeld, Wanting, PushPcs, Locks
<1>3. Excludes'
  BY DEF SpinInv, SpinTyped, Excludes
<1>4. OwnerSet'
  BY DEF SpinInv, SpinTyped, OwnerSet
<1>5. OneRuns'
  <2> SUFFICES ASSUME NEW y \in Ctx, level'[y[1]] # y[2]
               PROVE  held[y] = {} /\ spc[y] \in Before /\ (y[2] = 1 => spc[y] = "run")
    BY DEF OneRuns
  <2>1. CASE y[1] = c
    <3>1. y = <<c, 0>>
      BY <2>1, CtxPair DEF SpinInv, SpinTyped
    <3> QED
      BY <1>0, <3>1 DEF Before
  <2>2. CASE y[1] # c
    BY <2>2, CtxPair DEF SpinInv, SpinTyped, OneRuns
  <2> QED
    BY <2>1, <2>2
<1>6. Masked'
  BY <1>0, CtxPair DEF SpinInv, SpinTyped, Masked, Before
<1>7. Counted'
  <2> SUFFICES ASSUME NEW y \in Ctx, level'[y[1]] = y[2]
               PROVE  (ncli[y[1]] = Cardinality(held[y]) + Pending(y))'
    BY DEF Counted
  <2>1. CASE y[1] = c
    <3>1. y = <<c, 1>>
      BY <2>1, CtxPair DEF SpinInv, SpinTyped
    <3>2. held'[y] = {} /\ ncli'[c] = 0 /\ Pending(y)' = 0
      BY <1>0, <3>1 DEF Pending, PushPcs, Before
    <3> QED
      BY <1>0, <2>1, <3>2
  <2>2. CASE y[1] # c
    BY <2>2, CtxPair DEF SpinInv, SpinTyped, Counted, Pending, PushPcs, Before
  <2> QED
    BY <2>1, <2>2
<1>8. Saved'
  BY <1>0, CtxPair DEF SpinInv, SpinTyped, Saved
<1>9. SpinNoPanic'
  BY DEF SpinInv, SpinTyped, SpinNoPanic
<1> QED
  BY <1>1, <1>2, <1>3, <1>4, <1>5, <1>6, <1>7, <1>8, <1>9 DEF SpinInv

\* The handler has given its locks back.
LEMMA IretStep ==
  ASSUME SpinInv, NEW c \in CPUs, Iret(c)
  PROVE  SpinInv'
<1> USE DEF Iret, At, Goto, cpuVars
<1>0. /\ <<c, 0>> \in Ctx /\ held[<<c, 0>>] = {} /\ spc[<<c, 0>>] \in Before
      /\ <<c, 1>> \in Ctx /\ held[<<c, 1>>] = {} /\ spc[<<c, 1>>] = "run"
      /\ ncli[c] = 0 /\ Cardinality({}) = 0
  BY PairCtx, CountIs, FS_EmptySet DEF SpinInv, OneRuns, Pending, PushPcs
<1>1. SpinTyped'
  BY DEF SpinInv, SpinTyped, SpinPcs
<1>2. LkHeld'
  BY DEF SpinInv, SpinTyped, LkHeld, Wanting, PushPcs, Locks
<1>3. Excludes'
  BY DEF SpinInv, SpinTyped, Excludes
<1>4. OwnerSet'
  BY DEF SpinInv, SpinTyped, OwnerSet
<1>5. OneRuns'
  <2> SUFFICES ASSUME NEW y \in Ctx, level'[y[1]] # y[2]
               PROVE  held[y] = {} /\ spc[y] \in Before /\ (y[2] = 1 => spc[y] = "run")
    BY DEF OneRuns
  <2>1. CASE y[1] = c
    <3>1. y = <<c, 1>>
      BY <2>1, CtxPair DEF SpinInv, SpinTyped
    <3> QED
      BY <1>0, <3>1 DEF Before
  <2>2. CASE y[1] # c
    BY <2>2, CtxPair DEF SpinInv, SpinTyped, OneRuns
  <2> QED
    BY <2>1, <2>2
<1>6. Masked'
  <2> SUFFICES ASSUME NEW y \in Ctx, level'[y[1]] = y[2]
               PROVE  (ien[y[1]] = 1 <=> y[2] = 0 /\ held[y] = {} /\ spc[y] \in Before)'
    BY DEF Masked
  <2>1. CASE y[1] = c
    <3>1. y = <<c, 0>>
      BY <2>1, CtxPair DEF SpinInv, SpinTyped
    <3> QED
      BY <1>0, <3>1 DEF SpinInv, SpinTyped, Before
  <2>2. CASE y[1] # c
    BY <2>2, CtxPair DEF SpinInv, SpinTyped, Masked, Before
  <2> QED
    BY <2>1, <2>2
<1>7. Counted'
  <2> SUFFICES ASSUME NEW y \in Ctx, level'[y[1]] = y[2]
               PROVE  (ncli[y[1]] = Cardinality(held[y]) + Pending(y))'
    BY DEF Counted
  <2>1. CASE y[1] = c
    <3>1. y = <<c, 0>>
      BY <2>1, CtxPair DEF SpinInv, SpinTyped
    <3>2. held'[y] = {} /\ ncli'[c] = 0 /\ Pending(y)' = 0
      BY <1>0, <3>1 DEF Pending, PushPcs, Before
    <3> QED
      BY <1>0, <2>1, <3>2
  <2>2. CASE y[1] # c
    BY <2>2, CtxPair DEF SpinInv, SpinTyped, Counted, Pending, PushPcs, Before
  <2> QED
    BY <2>1, <2>2
<1>8. Saved'
  BY <1>0, CtxPair DEF SpinInv, SpinTyped, Saved
<1>9. SpinNoPanic'
  BY DEF SpinInv, SpinTyped, SpinNoPanic
<1> QED
  BY <1>1, <1>2, <1>3, <1>4, <1>5, <1>6, <1>7, <1>8, <1>9 DEF SpinInv

-----------------------------------------------------------------------------
(* The results *)

\* The invariant holds at first and is preserved by every step.
THEOREM SpinInvariant == SpinSpec => []SpinInv
<1>1. SpinInit => SpinInv
  BY SpinAssumption, CtxPair, FS_EmptySet
     DEF SpinInit, SpinInv, SpinTyped, SpinPcs, PushPcs, LkHeld, Wanting, Excludes, OwnerSet,
         OneRuns, Masked, Before, Counted, Pending, Saved, SpinNoPanic
<1>2. SpinInv /\ [SpinNext]_spinVars => SpinInv'
  <2> SUFFICES ASSUME SpinInv, [SpinNext]_spinVars PROVE SpinInv'
    OBVIOUS
  <2>1. ASSUME NEW x \in Ctx, LockStep(x) PROVE SpinInv'
    BY <2>1, AcquireStep, PushReadStep, PushCliStep, PushCountStep, HoldLockedStep,
       HoldCpuStep, XchgStep, SetOwnerStep, ReleaseStep, DisownStep, UnlockStep, PopCliStep
       DEF LockStep
  <2>2. ASSUME NEW c \in CPUs, Interrupt(c) \/ Iret(c) PROVE SpinInv'
    BY <2>2, InterruptStep, IretStep
  <2>3. CASE UNCHANGED spinVars
    BY <2>3 DEF spinVars, SpinInv, SpinTyped, LkHeld, Excludes, OwnerSet, OneRuns, Masked,
                Counted, Pending, Saved, SpinNoPanic
  <2> QED
    BY <2>1, <2>2, <2>3 DEF SpinNext
<1> QED
  BY <1>1, <1>2, PTL DEF SpinSpec

\* Every variable keeps its type; in particular popcli never takes ncli below 0.
THEOREM SpinTypes == SpinSpec => []SpinTypeOK
<1>1. ASSUME SpinInv, NEW c \in CPUs PROVE ncli[c] \in Nat
  <2>1. PICK k \in {0, 1} : level[c] = k
    BY <1>1 DEF SpinInv, SpinTyped
  <2>2. <<c, k>> \in Ctx /\ <<c, k>>[1] = c /\ <<c, k>>[2] = k
    BY <2>1 DEF Ctx
  <2> QED
    BY <1>1, <2>1, <2>2, CountIs DEF Pending
<1>2. SpinInv => SpinTypeOK
  BY <1>1 DEF SpinInv, SpinTyped, SpinTypeOK
<1> QED
  BY <1>2, SpinInvariant, PTL

\* A lock is held by one context at a time, and is marked locked exactly while
\* it is held (acquire, release).
THEOREM Exclusion == SpinSpec => []MutualExclusion
<1>1. SpinInv => MutualExclusion
  BY DEF SpinInv, SpinTyped, Excludes, MutualExclusion
<1> QED
  BY <1>1, SpinInvariant, PTL

\* Code that holds a lock is not interrupted; a thread without locks can be,
\* a handler cannot (pushcli, popcli).
THEOREM Masking == SpinSpec => []IntrMasked
<1>1. ASSUME SpinInv, NEW c \in CPUs, NEW k \in {0, 1}, held[<<c, k>>] # {}
      PROVE  ien[c] = 0
  BY Zenon, <1>1, PairCtx DEF SpinInv, SpinTyped, OneRuns, Masked
<1>2. ASSUME SpinInv, NEW c \in CPUs, spc[<<c, 0>>] = "run", held[<<c, 0>>] = {}, level[c] = 0
      PROVE  ien[c] = 1
  BY Zenon, <1>2, PairCtx DEF SpinInv, Masked, Before
<1>3. ASSUME SpinInv, NEW c \in CPUs, level[c] = 1
      PROVE  ien[c] = 0
  <2>1. <<c, 1>> \in Ctx /\ <<c, 1>>[1] = c /\ <<c, 1>>[2] = 1
    BY Zenon, PairCtx
  <2>2. ien[c] # 1
    BY <1>3, <2>1 DEF SpinInv, Masked
  <2> QED
    BY <1>3, <2>2 DEF SpinInv, SpinTyped
<1>4. SpinInv => IntrMasked
  BY Zenon, <1>1, <1>2, <1>3 DEF IntrMasked
<1> QED
  BY <1>4, SpinInvariant, PTL

\* No CPU waits for a lock that it holds itself, in the thread or in the handler
\* (acquire's pushcli).
THEOREM NoSelfWaiting == SpinSpec => []NoSelfWait
<1>1. ASSUME SpinInv, NEW c \in CPUs, NEW k \in {0, 1}, NEW j \in {0, 1},
             spc[<<c, k>>] \in PushPcs
      PROVE  lk[<<c, k>>] \notin held[<<c, j>>]
  BY Zenon, <1>1, PairCtx, LkIsLock DEF SpinInv, OneRuns, Wanting, PushPcs, Before
<1>2. SpinInv => NoSelfWait
  BY Zenon, <1>1 DEF NoSelfWait
<1> QED
  BY <1>2, SpinInvariant, PTL

\* The panics of acquire, release and popcli are not met.
THEOREM NeverPanics == SpinSpec => []SpinNoPanic
BY SpinInvariant, PTL DEF SpinInv

\* Spin locks are safe for any number of CPUs and locks: the four facts together
\* (acquire, release, holding, pushcli, popcli).
THEOREM SpinSafety == SpinSpec => []SpinSafe
<1>1. SpinTypeOK /\ MutualExclusion /\ NoSelfWait /\ SpinNoPanic => SpinSafe
  BY DEF SpinSafe
<1> QED
  BY <1>1, SpinTypes, Exclusion, NoSelfWaiting, NeverPanics, PTL
=============================================================================
