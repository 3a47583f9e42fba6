-------------------------------- MODULE Kbd ---------------------------------
(***************************************************************************)
(* The keyboard driver: kbdgetc of kbd.c, with the tables of kbd.h, and    *)
(* the keyboard it reads (external): a key sends its make code when it     *)
(* goes down and its break code when it comes up, an extended key after an *)
(* E0 byte.  A key is a code and whether it is extended; keys may be down  *)
(* already when the kernel starts to read.                                 *)
(***************************************************************************)
EXTENDS Integers, Sequences

CONSTANT PhysKeys   \* the keys of the keyboard: <<code, extended>>

VARIABLES
  down,    \* keys that are held down
  kbuf,    \* bytes the controller has for the driver
  shift,   \* kbdgetc's static shift, as a set of flags
  code     \* what the last kbdgetc returned

kbdVars == <<down, kbuf, shift, code>>

\* shiftcode and togglecode, indexed by code and by the 0x80 bit.
shiftcode(k, hi) ==
  CASE k = "ctl" -> {"CTL"}
    [] k \in {"lshift", "rshift"} /\ hi = 0 -> {"SHIFT"}
    [] k = "alt" -> {"ALT"}
    [] OTHER -> {}

togglecode(k, hi) == IF k = "caps" /\ hi = 0 THEN {"CAPSLOCK"} ELSE {}

\* charcode[shift & (CTL|SHIFT)], for the one letter the model has.
charcode(k, hi, s) ==
  IF k # "a" \/ hi = 1 THEN "NO"
  ELSE IF "CTL" \in s THEN "^A"
  ELSE IF "SHIFT" \in s THEN "A" ELSE "a"

\* c += 'A' - 'a', or back, under CAPSLOCK.
SwapCase(c) == IF c = "a" THEN "A" ELSE IF c = "A" THEN "a" ELSE c

KbdInit ==
  /\ down \in SUBSET PhysKeys
  /\ kbuf = <<>> /\ shift = {} /\ code = "NO"

-----------------------------------------------------------------------------
(* The keyboard: the bytes of one event are read before the next is sent. *)

Bytes(k, up) ==
  (IF k[2] = 1 THEN <<[esc |-> 1, key |-> "none", up |-> 0]>> ELSE <<>>)
    \o <<[esc |-> 0, key |-> k[1], up |-> up]>>

Press(k) ==
  /\ kbuf = <<>> /\ k \notin down
  /\ down' = down \cup {k}
  /\ kbuf' = Bytes(k, 0)
  /\ UNCHANGED <<shift, code>>

Lift(k) ==
  /\ kbuf = <<>> /\ k \in down
  /\ down' = down \ {k}
  /\ kbuf' = Bytes(k, 1)
  /\ UNCHANGED <<shift, code>>

-----------------------------------------------------------------------------
(* kbdgetc(): one byte *)

\* Mutant: the break code of a key leaves its flag set.
GetBreakKeeps(d) ==
  /\ shift' = shift \ {"E0ESC"}
  /\ code' = "NO"

GetBreak(d) ==
  LET hi == IF "E0ESC" \in shift THEN 1 ELSE 0 IN
  /\ shift' = shift \ (shiftcode(d.key, hi) \cup {"E0ESC"})
  /\ code' = "NO"

GetMake(d) ==
  LET hi == IF "E0ESC" \in shift THEN 1 ELSE 0
      s1 == (shift \ {"E0ESC"}) \cup shiftcode(d.key, hi)
      s2 == (s1 \ togglecode(d.key, hi)) \cup (togglecode(d.key, hi) \ s1)
      c == charcode(d.key, hi, s2)
  IN /\ shift' = s2
     /\ code' = IF "CAPSLOCK" \in s2 THEN SwapCase(c) ELSE c

KbdGetc ==
  /\ kbuf # <<>>
  /\ kbuf' = Tail(kbuf)
  /\ LET d == Head(kbuf) IN
       \/ d.esc = 1 /\ shift' = shift \cup {"E0ESC"} /\ code' = "NO"
       \/ d.esc = 0 /\ d.up = 1 /\ GetBreak(d)
       \/ d.esc = 0 /\ d.up = 0 /\ GetMake(d)
  /\ UNCHANGED down

KbdNext == KbdGetc \/ \E k \in PhysKeys : Press(k) \/ Lift(k)

-----------------------------------------------------------------------------
(* Properties *)

\* Keys of the keyboard that set flag f of shift.
KeysOf(f) == {k \in PhysKeys : f \in shiftcode(k[1], k[2])}

\* Once the driver has read what the keyboard sent, a modifier is in force only
\* while one of its keys is down, and no E0 waits for a byte that is not coming:
\* no order of presses and releases, left and right keys and keys held at boot
\* included, leaves CTL, SHIFT or ALT stuck in kbdgetc's static.
NoStuckModifier ==
  kbuf = <<>> =>
    /\ \A f \in shift \cap {"CTL", "SHIFT", "ALT"} : KeysOf(f) \cap down # {}
    /\ "E0ESC" \notin shift

\* A letter comes out as a control character, or in the case that SHIFT and
\* CAPSLOCK ask for, only because of keys that are down.
LetterHasCause ==
  kbuf = <<>> =>
    /\ code = "^A" => KeysOf("CTL") \cap down # {}
    /\ code = "A" /\ "CAPSLOCK" \notin shift => KeysOf("SHIFT") \cap down # {}
    /\ code = "a" /\ "CAPSLOCK" \in shift => KeysOf("SHIFT") \cap down # {}

\* What kbdgetc returns, and the modifiers it keeps, have their cause in the keys.
KeysHaveCause == NoStuckModifier /\ LetterHasCause
=============================================================================
