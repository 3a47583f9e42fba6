------------------------------ MODULE Console -------------------------------
(***************************************************************************)
(* The console's input: the ring of console.c that consoleintr fills and   *)
(* consoleread empties.  The indices r, w and e are unsigned integers that *)
(* wrap at IWRAP (2^32 in the code), a multiple of the ring's size.        *)
(*                                                                         *)
(* consoleintr handles all the characters that are waiting under           *)
(* input.lock; a step of the model handles one, which reaches the same     *)
(* states because the loop carries nothing from a character to the next.   *)
(* consoleread runs under the same lock from a call or a wakeup to its     *)
(* next sleep or its return: that is one step.                             *)
(***************************************************************************)
EXTENDS Integers, Sequences

CONSTANTS
  ConReaders,  \* processes that read the console
  INPUT_BUF,   \* size of the ring
  IWRAP,       \* where unsigned integers wrap
  MAXREAD      \* largest n a reader asks for

ASSUME ConsoleAssumption ==
  /\ INPUT_BUF \in Nat \ {0} /\ IWRAP \in Nat \ {0}
  /\ IWRAP % INPUT_BUF = 0 /\ IWRAP > INPUT_BUF
  /\ MAXREAD \in Nat

NL == "nl"
CR == "cr"
EOT == "^D"                         \* C('D')
Chars == {"x", NL, EOT}             \* what the ring can hold
Typed == Chars \cup {CR, "nul", "^H", "^U"}

VARIABLES
  buf,      \* input.buf
  r, w, e,  \* input.r, input.w, input.e
  rpc,      \* where each reader is: "out", "asleep", "run"
  rleft,    \* consoleread's n
  target,   \* consoleread's target
  dst,      \* the characters copied out by this call: its result, or lost if
            \* the reader is killed and the call returns -1
  rkilled   \* proc->killed

ringVars == <<buf, r, w, e>>
readVars == <<rpc, rleft, target, dst, rkilled>>
consVars == <<ringVars, readVars>>

Sub(a, b) == (a - b) % IWRAP        \* unsigned subtraction
Add(a, b) == (a + b) % IWRAP

ConsoleInit ==
  /\ buf = [i \in 0 .. INPUT_BUF - 1 |-> "nul"]
  /\ r = 0 /\ w = 0 /\ e = 0
  /\ rpc = [p \in ConReaders |-> "out"]
  /\ rleft = [p \in ConReaders |-> 0]
  /\ target = [p \in ConReaders |-> 0]
  /\ dst = [p \in ConReaders |-> <<>>]
  /\ rkilled = [p \in ConReaders |-> FALSE]

-----------------------------------------------------------------------------
(* consoleintr *)

\* Mutant: nobody is woken.
WakeNobody == UNCHANGED rpc

\* wakeup(&input.r)
WakeReaders == rpc' = [p \in ConReaders |-> IF rpc[p] = "asleep" THEN "run" ELSE rpc[p]]

\* C('U'): back to w, or to just after the last '\n' above it.
KillLine ==
  LET kept == {i \in 0 .. Sub(e, w) :
                 i = 0 \/ buf[Add(w, i - 1) % INPUT_BUF] = NL} IN
  /\ \E m \in kept : (\A i \in kept : i <= m) /\ e' = Add(w, m)
  /\ UNCHANGED <<buf, r, w, readVars>>

\* C('H') and '\x7f'
Backspace ==
  /\ e' = IF e # w THEN Sub(e, 1) ELSE e
  /\ UNCHANGED <<buf, r, w, readVars>>

\* input.e-input.r < INPUT_BUF
HasRoom == Sub(e, r) < INPUT_BUF

\* c == '\n' || c == C('D') || input.e == input.r+INPUT_BUF, after the e++
Commits(c) == c \in {NL, EOT} \/ Add(e, 1) = Add(r, INPUT_BUF)

\* The default case: a character is stored if it is not '\0' and there is room.
Store(c) ==
  LET ch == IF c = CR THEN NL ELSE c IN
  /\ c # "nul" /\ HasRoom
  /\ buf' = [buf EXCEPT ![e % INPUT_BUF] = ch]
  /\ e' = Add(e, 1)
  /\ \/ Commits(ch) /\ w' = Add(e, 1) /\ WakeReaders
     \/ ~Commits(ch) /\ UNCHANGED <<w, rpc>>
  /\ UNCHANGED <<r, rleft, target, dst, rkilled>>

Drop(c) ==
  /\ c = "nul" \/ ~HasRoom
  /\ UNCHANGED consVars

ConsoleIntr(c) ==
  \/ c = "^U" /\ KillLine
  \/ c = "^H" /\ Backspace
  \/ c \notin {"^U", "^H"} /\ (Store(c) \/ Drop(c))

-----------------------------------------------------------------------------
(* consoleread *)

ReadCall(p, n) ==
  /\ rpc[p] = "out" /\ ~rkilled[p]
  /\ rpc' = [rpc EXCEPT ![p] = "run"]
  /\ rleft' = [rleft EXCEPT ![p] = n]
  /\ target' = [target EXCEPT ![p] = n]
  /\ dst' = [dst EXCEPT ![p] = <<>>]
  /\ UNCHANGED <<ringVars, rkilled>>

\* The characters from r up to w, and whether a reader that wants n takes k of
\* them: it stops when it has n, after a '\n', before a ^D, or at w.
Ready == [i \in 1 .. Sub(w, r) |-> buf[Add(r, i - 1) % INPUT_BUF]]
AtEot(n, k) == k < n /\ k < Sub(w, r) /\ Ready[k + 1] = EOT
AtLine(k) == k > 0 /\ Ready[k] = NL
Takes(n, k) ==
  /\ \A i \in 1 .. k : Ready[i] # EOT /\ (Ready[i] = NL => i = k)
  /\ k = n \/ k = Sub(w, r) \/ AtLine(k) \/ AtEot(n, k)

\* Mutant: the ^D that ends a read is always consumed.
EatsEotAlways(n, tgt) == 1

\* if(n < target) input.r--;  a ^D that follows characters is kept.
EatsEot(n, tgt) == IF n < tgt THEN 0 ELSE 1

\* Mutant: killed is not looked at before sleeping.
SeesKillNever(p) == FALSE

SeesKill(p) == rkilled[p]

\* From a call or a wakeup to the next sleep or the return, with k characters.
ReadSome(p, k) ==
  LET n == rleft[p] - k
      eot == AtEot(rleft[p], k)
      done == n = 0 \/ AtLine(k) \/ eot
  IN /\ rpc[p] = "run"
     /\ k <= rleft[p] /\ Takes(rleft[p], k)
     /\ r' = Add(r, k + (IF eot THEN EatsEot(n, target[p]) ELSE 0))
     /\ dst' = [dst EXCEPT ![p] = @ \o SubSeq(Ready, 1, k)]
     /\ \/ /\ done \/ SeesKill(p)                \* return target - n, or -1
           /\ rpc' = [rpc EXCEPT ![p] = "out"]
           /\ rleft' = [rleft EXCEPT ![p] = 0]
           /\ target' = [target EXCEPT ![p] = 0]
        \/ /\ ~(done \/ SeesKill(p))             \* sleep(&input.r, &input.lock)
           /\ rpc' = [rpc EXCEPT ![p] = "asleep"]
           /\ rleft' = [rleft EXCEPT ![p] = n]
           /\ UNCHANGED target
     /\ UNCHANGED <<buf, w, e, rkilled>>

Read(p) == \E k \in 0 .. Sub(w, r) : ReadSome(p, k)

\* kill(p), for a reader
KillReader(p) ==
  /\ ~rkilled[p] /\ rpc[p] # "out"
  /\ rkilled' = [rkilled EXCEPT ![p] = TRUE]
  /\ rpc' = [rpc EXCEPT ![p] = "run"]
  /\ UNCHANGED <<ringVars, rleft, target, dst>>

ConsoleNext ==
  \/ \E c \in Typed : ConsoleIntr(c)
  \/ \E p \in ConReaders :
       \/ \E n \in 0 .. MAXREAD : ReadCall(p, n)
       \/ Read(p) \/ KillReader(p)

ConsoleSpec == ConsoleInit /\ [][ConsoleNext]_consVars

-----------------------------------------------------------------------------
(* Properties *)

\* Every variable keeps its type.
ConsoleTypeOK ==
  /\ buf \in [0 .. INPUT_BUF - 1 -> Chars \cup {"nul"}]
  /\ {r, w, e} \subseteq 0 .. IWRAP - 1
  /\ rpc \in [ConReaders -> {"out", "run", "asleep"}]
  /\ {rleft, target} \subseteq [ConReaders -> 0 .. MAXREAD]
  /\ rkilled \in [ConReaders -> BOOLEAN]

\* r, w and e follow each other around the ring, at most INPUT_BUF apart, and
\* stay so when they wrap: no character is overwritten before it is read, and
\* none is read before it is committed.
IndexOrder == Sub(w, r) <= Sub(e, r) /\ Sub(e, r) <= INPUT_BUF

\* Typing never locks up: a full ring holds something that a reader can take.
\* (Only what is below w is read, only what is above w is erased.)
FullIsCommitted == Sub(e, r) = INPUT_BUF => r # w

\* No reader sleeps through a commit: whoever is asleep on &input.r has nothing
\* to read.
SleeperHasNothing == \A p \in ConReaders : rpc[p] = "asleep" => r = w

\* The ring is safe between any two steps of consoleintr and consoleread.
RingSafe == ConsoleTypeOK /\ IndexOrder /\ FullIsCommitted /\ SleeperHasNothing

\* A reader that is killed comes back from consoleread, typing or no typing
\* (killed stays set, so that being back now and then is being back for good).
KilledReadReturns == []<>(\A p \in ConReaders : rkilled[p] => rpc[p] = "out")

\* The abstract console: a queue of committed characters and a line being
\* edited.
Edit == [i \in 1 .. Sub(e, w) |-> buf[Add(w, i - 1) % INPUT_BUF]]
Lines == INSTANCE ConsoleLines WITH ready <- Ready, edit <- Edit
ImplementsLines == Lines!LinesSpec
=============================================================================
