------------------------------- MODULE MCUser -------------------------------
(***************************************************************************)
(* The parts of the system that need no other part to be checked: pipes,   *)
(* the exokernel's memory calls, the text screen, mkfs, the allocator of   *)
(* the user programs, the shell and its parser, and the library routines.  *)
(* They share no state, so every behaviour is one of one part, chosen at   *)
(* the start; a parser or library part is a single state, its input.       *)
(***************************************************************************)
EXTENDS Pipe, ExMem, Cga, Mkfs, Umalloc, Sh, Lib

VARIABLE part

userVars == <<vars, exVars, cgaVars, mkfsVars, mallocVars, shVars, lines, call, part>>

Symm == Permutations(Readers) \cup Permutations(Writers) \cup Permutations(Bytes)

\* Sequences over S of length up to n.
UpTo(S, n) == UNION {[1 .. k -> S] : k \in 0 .. n}

-----------------------------------------------------------------------------
(* Inputs *)

\* The lines parsed.
MCLines ==
  UpTo({"a", " ", "<", ">", "|", "&", ";", "(", ")"}, 4)
  \cup UpTo({"a", "|", "(", ")", "&"}, 5) \cup UpTo({"a", ">", " ", "<"}, 6)

\* The lines typed.  In none does "g" write to a reader that waits for its end.
MCTyped ==
  {<<"l", "|", "c">>, <<"c", "<", "a", "|", "l">>, <<"(", "l", ";", "c", ")", "|", "c">>,
   <<"l", "|", "c", "&">>, <<"g", "|", "l">>, <<"l", "&", ";", "c">>,
   <<"c", "d", " ", "a">>, <<"|", ")">>}

\* The calls of the library.
MCCalls ==
  {[fn |-> "memmove", m |-> [a \in 1 .. 6 |-> a], dst |-> d, src |-> s, n |-> n] :
     d \in 1 .. 3, s \in 1 .. 3, n \in 0 .. 4}
  \cup {[fn |-> "name", m |-> <<"z", "z", "z", "z">>, t |-> t, p |-> p, n |-> n] :
          t \in UpTo({"a", "b"}, 4), p \in UpTo({"a", "b"}, 4), n \in 1 .. 3}
  \cup {[fn |-> "printint", xx |-> x, base |-> b, sgn |-> s] :
          x \in -(2^(WIDTH - 1)) .. 2^(WIDTH - 1) - 1, b \in {10, 16}, s \in BOOLEAN}
  \cup {[fn |-> "printf", t |-> t] : t \in UpTo({"%", "d", "c", "a"}, 5)}
  \cup {[fn |-> "gets", t |-> t, n |-> n] : t \in UpTo({"a", "n"}, 6), n \in 2 .. 4}
  \cup {[fn |-> "wc", t |-> x[1], n |-> x[2]] :
          x \in {y \in UpTo({"a", "n", " "}, 5) \X (0 .. 5) : y[2] <= Len(y[1])}}
  \cup {[fn |-> "match", p |-> p, t |-> t] :
          p \in UpTo({"a", "*", "^", "$", "."}, 4), t \in UpTo({"a", "*"}, 3)}

-----------------------------------------------------------------------------

UserInit ==
  /\ part \in {"pipe", "exmem", "cga", "mkfs", "malloc", "sh", "lib", "parse"}
  /\ Init /\ ExInit /\ CgaInit /\ UmallocInit /\ ShInit
  /\ part # "pipe" => \A c, d \in Cells : data[c] = data[d]
  /\ IF part = "mkfs" THEN MkfsInit ELSE img = <<>> /\ bits = {} /\ mkpc = "idle"
  /\ call \in IF part = "lib" THEN MCCalls ELSE {[fn |-> "none"]}
  /\ lines \in IF part = "parse" THEN {{l} : l \in MCLines} ELSE {{}}

UserNext ==
  \/ /\ part = "pipe" /\ Next
     /\ UNCHANGED <<exVars, cgaVars, mkfsVars, mallocVars, shVars, lines, call, part>>
  \/ /\ part = "exmem" /\ ExMemNext
     /\ UNCHANGED <<vars, cgaVars, mkfsVars, mallocVars, shVars, lines, call, part>>
  \/ /\ part = "cga" /\ CgaNext
     /\ UNCHANGED <<vars, exVars, mkfsVars, mallocVars, shVars, lines, call, part>>
  \/ /\ part = "mkfs" /\ MkfsNext
     /\ UNCHANGED <<vars, exVars, cgaVars, mallocVars, shVars, lines, call, part>>
  \/ /\ part = "malloc" /\ UmallocNext
     /\ UNCHANGED <<vars, exVars, cgaVars, mkfsVars, shVars, lines, call, part>>
  \/ /\ part = "sh" /\ ShNext
     /\ UNCHANGED <<vars, exVars, cgaVars, mkfsVars, mallocVars, lines, call, part>>

UserSpec == UserInit /\ [][UserNext]_userVars
=============================================================================
