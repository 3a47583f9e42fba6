---------------------------- MODULE ConsoleLines ----------------------------
(***************************************************************************)
(* What the console promises its readers: the characters typed are a line  *)
(* being edited and a queue of committed ones; a read takes from the front *)
(* of the queue, at most to the end of a line, and a ^D gives exactly one  *)
(* read of nothing.                                                        *)
(***************************************************************************)
EXTENDS Integers, Sequences

CONSTANTS ConReaders, INPUT_BUF

VARIABLES ready, edit, dst

LinesInit == ready = <<>> /\ edit = <<>> /\ dst = [p \in ConReaders |-> <<>>]

Type(c) ==
  /\ Len(ready) + Len(edit) < INPUT_BUF
  /\ \/ /\ c \in {"nl", "^D"} \/ Len(ready) + Len(edit) + 1 = INPUT_BUF
        /\ ready' = ready \o Append(edit, c)
        /\ edit' = <<>>
     \/ /\ c \notin {"nl", "^D"}
        /\ edit' = Append(edit, c)
        /\ UNCHANGED ready
  /\ UNCHANGED dst

Erase ==
  /\ edit # <<>>
  /\ edit' = SubSeq(edit, 1, Len(edit) - 1)
  /\ UNCHANGED <<ready, dst>>

EraseLine ==
  /\ edit' = <<>>
  /\ UNCHANGED <<ready, dst>>

Begin(p) ==
  /\ dst' = [dst EXCEPT ![p] = <<>>]
  /\ UNCHANGED <<ready, edit>>

\* k characters of one line, then the ^D after them if the read has nothing.
Take(p, k) ==
  /\ k <= Len(ready)
  /\ \A i \in 1 .. k : ready[i] # "^D" /\ (ready[i] = "nl" => i = k)
  /\ \A i \in 1 .. Len(dst[p]) : dst[p][i] # "nl"
  /\ dst' = [dst EXCEPT ![p] = @ \o SubSeq(ready, 1, k)]
  /\ \/ ready' = SubSeq(ready, k + 1, Len(ready))
     \/ /\ dst'[p] = <<>> /\ ready # <<>> /\ ready[1] = "^D"
        /\ ready' = Tail(ready)
  /\ UNCHANGED edit

LinesNext ==
  \/ \E c \in {"x", "nl", "^D"} : Type(c)
  \/ Erase \/ EraseLine
  \/ \E p \in ConReaders : Begin(p) \/ \E k \in 0 .. INPUT_BUF : Take(p, k)

LinesSpec == LinesInit /\ [][LinesNext]_<<ready, edit, dst>>
=============================================================================
