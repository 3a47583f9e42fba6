-------------------------------- MODULE Lib ---------------------------------
(***************************************************************************)
(* The string routines of the kernel (string.c) and of the user programs   *)
(* (ulib.c), printf (printf.c) and cprintf (console.c), the matcher of     *)
(* grep.c and the counter of wc.c, each as the function its loop computes, *)
(* against a definition of what it is for.  Memory is a function from      *)
(* addresses to bytes, a string a sequence of characters without its '\0'. *)
(* The variable call is a call of one of them.                             *)
(***************************************************************************)
EXTENDS Integers, FiniteSetsExt, SequencesExt

CONSTANTS
  WIDTH      \* bits of an int

ASSUME LibAssumption == WIDTH \in Nat \ {0}

VARIABLE call

Upto(n) == [i \in 1 .. n |-> i]

-----------------------------------------------------------------------------
(* Memory *)

\* The bytes are copied one by one, in the order of the sequence.
CopyInOrder(m, dst, src, order) ==
  FoldLeft(LAMBDA mem, i : [mem EXCEPT ![dst + i - 1] = mem[src + i - 1]], m, order)

\* string.c's: backwards when the destination overlaps the source from above.
memmove(m, dst, src, n) ==
  CopyInOrder(m, dst, src, IF src < dst /\ src + n > dst THEN Reverse(Upto(n)) ELSE Upto(n))

\* ulib.c's: always forwards.
umemmove(m, dst, src, n) == CopyInOrder(m, dst, src, Upto(n))

IsCopy(m, mem, dst, src, n) ==
  mem = [a \in DOMAIN m |-> IF a \in dst .. dst + n - 1 THEN m[src + a - dst] ELSE m[a]]

\* memmove copies what was there before the call, overlap or not, and touches
\* nothing else; the user library's does when it moves down, as grep has it do,
\* or does not overlap.
MemmoveCopies ==
  call.fn = "memmove" =>
    LET d == call.dst
        s == call.src
        n == call.n
    IN /\ IsCopy(call.m, memmove(call.m, d, s, n), d, s, n)
       /\ d <= s \/ s + n <= d => IsCopy(call.m, umemmove(call.m, d, s, n), d, s, n)

-----------------------------------------------------------------------------
(* Strings *)

Byte(t, i) == IF i > Len(t) THEN "0" ELSE t[i]

\* The cells of s after strncpy(s, t, n): the first loop stops after n bytes or
\* a '\0', the second fills up.
strncpy(s, t, n) == [i \in DOMAIN s |-> IF i > n THEN s[i] ELSE Byte(t, i)]

\* safestrcpy from cell i on, with n as "while(--n > 0 && (*s++ = *t++) != 0)"
\* finds it; the last '\0' goes behind one that the loop has copied.
RECURSIVE SafeFrom(_, _, _, _)
SafeFrom(s, t, i, n) ==
  IF n - 1 <= 0 THEN [s EXCEPT ![i] = "0"]
  ELSE IF Byte(t, i) = "0" THEN [s EXCEPT ![i] = "0", ![i + 1] = "0"]
  ELSE SafeFrom([s EXCEPT ![i] = t[i]], t, i + 1, n - 1)

safestrcpy(s, t, n) == IF n <= 0 THEN s ELSE SafeFrom(s, t, 1, n)

\* strncmp's loop: the bytes passed over; strcmp is the case without a bound.
Passed(p, q, n) == CHOOSE k \in 0 .. n :
  /\ k = n \/ Byte(p, k + 1) = "0" \/ Byte(p, k + 1) # Byte(q, k + 1)
  /\ \A i \in 1 .. k : Byte(p, i) # "0" /\ Byte(p, i) = Byte(q, i)
strncmpIsZero(p, q, n) ==
  LET k == Passed(p, q, n) IN k = n \/ Byte(p, k + 1) = Byte(q, k + 1)

\* A file name stored in a field of n bytes (dirlink's strncpy) is found there
\* (namecmp's strncmp) by the names that agree with it in the first n bytes and
\* by no other; a process name (safestrcpy) ends within its field; neither
\* writes past the field.
NamesRoundTrip ==
  call.fn = "name" =>
    LET de == strncpy(call.m, call.t, call.n)
        pn == safestrcpy(call.m, call.t, call.n)
        Cut(t) == SubSeq(t, 1, Min({Len(t), call.n}))
    IN /\ strncmpIsZero(call.p, de, call.n) <=> Cut(call.p) = Cut(call.t)
       /\ \A i \in call.n + 1 .. Len(call.m) : de[i] = call.m[i] /\ pn[i] = call.m[i]
       /\ \E k \in 1 .. call.n :
            /\ pn[k] = "0"
            /\ \A i \in 1 .. k - 1 : pn[i] = call.t[i]
            /\ k < call.n => k = Len(call.t) + 1

-----------------------------------------------------------------------------
(* Numbers *)

\* printint's do loop: the digits of x, the last one first.
RECURSIVE Digits(_, _)
Digits(x, base) ==
  <<x % base>> \o IF x \div base = 0 THEN <<>> ELSE Digits(x \div base, base)

\* xx is an int; x, an uint, takes -xx or xx modulo 2^WIDTH.
printint(xx, base, sgn) ==
  LET neg == sgn /\ xx < 0
      x == (IF neg THEN -xx ELSE xx) % 2^WIDTH
  IN [neg |-> neg, digits |-> Reverse(Digits(x, base))]

ValueOf(digits, base) == FoldLeft(LAMBDA n, d : n * base + d, 0, digits)

\* What printint prints reads as the number it was given, INT_MIN included, in
\* at most WIDTH digits and without leading zeros; an unsigned one reads as its
\* value modulo 2^WIDTH.
PrintintReads ==
  call.fn = "printint" =>
    LET out == printint(call.xx, call.base, call.sgn)
        val == ValueOf(out.digits, call.base)
    IN /\ out.digits # <<>> /\ Len(out.digits) <= WIDTH
       /\ Len(out.digits) > 1 => out.digits[1] # 0
       /\ (IF out.neg THEN -val ELSE val) = IF call.sgn THEN call.xx ELSE call.xx % 2^WIDTH

-----------------------------------------------------------------------------
(* Formats.  What is printed is a sequence of pairs <<k, c>>: the k-th     *)
(* argument as the directive c says, or for k = 0 the character c.         *)

\* An unknown sequence is printed as it stands.
Unknown(c) == <<<<0, "%">>, <<0, c>>>>

\* The body of printf's loop.
PrintfStep(acc, c) ==
  CASE acc.state = "0" /\ c = "%" -> [acc EXCEPT !.state = "%"]
    [] acc.state = "0" /\ c # "%" -> [acc EXCEPT !.out = Append(@, <<0, c>>)]
    [] acc.state = "%" /\ c \in {"d", "x", "p", "s", "c"} ->
         [state |-> "0", ap |-> acc.ap + 1, out |-> Append(acc.out, <<acc.ap, c>>)]
    [] acc.state = "%" /\ c = "%" -> [acc EXCEPT !.state = "0", !.out = Append(@, <<0, c>>)]
    [] OTHER -> [acc EXCEPT !.state = "0", !.out = @ \o Unknown(c)]

printf(fmt) == FoldLeft(PrintfStep, [state |-> "0", ap |-> 1, out |-> <<>>], fmt).out

\* cprintf from fmt[i] on: it looks at the character behind a '%'.
RECURSIVE CprintfFrom(_, _, _)
CprintfFrom(fmt, i, argp) ==
  LET c == Byte(fmt, i + 1) IN
  CASE i > Len(fmt) -> <<>>
    [] i <= Len(fmt) /\ fmt[i] # "%" -> <<<<0, fmt[i]>>>> \o CprintfFrom(fmt, i + 1, argp)
    [] OTHER ->
         CASE c = "0" -> <<>>
           [] c \in {"d", "x", "p", "s"} -> <<<<argp, c>>>> \o CprintfFrom(fmt, i + 2, argp + 1)
           [] c = "%" -> <<<<0, "%">>>> \o CprintfFrom(fmt, i + 2, argp)
           [] OTHER -> Unknown(c) \o CprintfFrom(fmt, i + 2, argp)
cprintf(fmt) == CprintfFrom(fmt, 1, 1)

\* The reading of a format by positions: the character at i is the second of a
\* '%' pair when the run of '%' that ends just before it has odd length.
InPair(fmt, i) ==
  LET Runs == {n \in 0 .. i - 1 : \A j \in i - n .. i - 1 : fmt[j] = "%"}
  IN Max(Runs) % 2 = 1
Reading(fmt, kinds) ==
  FlattenSeq([i \in 1 .. Len(fmt) |->
    LET args == {j \in 1 .. i : InPair(fmt, j) /\ fmt[j] \in kinds} IN
    IF ~InPair(fmt, i) THEN IF fmt[i] = "%" THEN <<>> ELSE <<<<0, fmt[i]>>>>
    ELSE IF fmt[i] \in kinds THEN <<<<Cardinality(args), fmt[i]>>>>
    ELSE IF fmt[i] = "%" THEN <<<<0, "%">>>> ELSE Unknown(fmt[i])])

\* printf's state machine and cprintf's look-ahead read a format alike, except
\* that only printf has %c: each directive takes the next argument and nothing
\* else takes one.
FormatsRead ==
  call.fn = "printf" =>
    /\ printf(call.t) = Reading(call.t, {"d", "x", "p", "s", "c"})
    /\ cprintf(call.t) = Reading(call.t, {"d", "x", "p", "s"})

-----------------------------------------------------------------------------
(* Input *)

\* gets: how many characters of the input it takes, up to a newline ("n"), the
\* end of the input or room for max with the '\0'.
gets(in, max) ==
  CHOOSE i \in 0 .. Min({max - 1, Len(in)}) :
    /\ i = max - 1 \/ i = Len(in) \/ (i > 0 /\ in[i] = "n")
    /\ \A j \in 1 .. i - 1 : in[j] # "n"

\* What getcmd's calls make of the input, until one finds nothing.
RECURSIVE GetsAll(_, _)
GetsAll(in, max) ==
  LET i == gets(in, max) IN
  IF i = 0 THEN <<>>
  ELSE <<SubSeq(in, 1, i)>> \o GetsAll(SubSeq(in, i + 1, Len(in)), max)

\* Successive calls lose nothing of the input, cut it after newlines and where
\* the buffer is full, and keep to the buffer.
GetsSplits ==
  call.fn = "gets" =>
    LET bufs == GetsAll(call.t, call.n) IN
    /\ FlattenSeq(bufs) = call.t
    /\ \A k \in 1 .. Len(bufs) :
         LET b == bufs[k] IN
         /\ Len(b) + 1 <= call.n
         /\ \A j \in 1 .. Len(b) - 1 : b[j] # "n"
         /\ k < Len(bufs) => b[Len(b)] = "n" \/ Len(b) + 1 = call.n

\* wc: the body of its loop over the characters read; inword is kept from one
\* read to the next.
WcChar(acc, ch) ==
  LET blank == ch \in {" ", "n"} IN
  [l |-> acc.l + IF ch = "n" THEN 1 ELSE 0,
   w |-> acc.w + IF ~blank /\ ~acc.inword THEN 1 ELSE 0,
   c |-> acc.c + 1,
   inword |-> ~blank]
WcStart == [l |-> 0, w |-> 0, c |-> 0, inword |-> FALSE]

wc(chunks) == FoldLeft(LAMBDA acc, b : FoldLeft(WcChar, acc, b), WcStart, chunks)

\* However read() cuts the file, wc counts the newlines, the characters and the
\* places where a word begins.
CountsWords ==
  call.fn = "wc" =>
    LET t == call.t
        r == wc([k \in 1 .. 2 |-> IF k = 1 THEN SubSeq(t, 1, call.n)
                                  ELSE SubSeq(t, call.n + 1, Len(t))])
    IN /\ r.c = Len(t)
       /\ r.l = Cardinality({i \in 1 .. Len(t) : t[i] = "n"})
       /\ r.w = Cardinality({i \in 1 .. Len(t) :
                 t[i] \notin {" ", "n"} /\ (i = 1 \/ t[i - 1] \in {" ", "n"})})

-----------------------------------------------------------------------------
(* grep's matcher; a rest of the pattern or of the text is the position it *)
(* starts at.                                                              *)

RECURSIVE matchhere(_, _, _, _)

\* Mutant: at least one instance.
RECURSIVE matchstarSome(_, _, _, _, _)
matchstarSome(c, re, r, text, x) ==
  /\ x <= Len(text) /\ (text[x] = c \/ c = ".")
  /\ matchhere(re, r, text, x + 1) \/ matchstarSome(c, re, r, text, x + 1)

RECURSIVE matchstar(_, _, _, _, _)
matchstar(c, re, r, text, x) ==
  \/ matchhere(re, r, text, x)
  \/ x <= Len(text) /\ (text[x] = c \/ c = ".") /\ matchstar(c, re, r, text, x + 1)

matchhere(re, r, text, x) ==
  IF r > Len(re) THEN TRUE
  ELSE IF Byte(re, r + 1) = "*" THEN matchstar(re[r], re, r + 2, text, x)
  ELSE IF re[r] = "$" /\ r = Len(re) THEN x > Len(text)
  ELSE /\ x <= Len(text) /\ (re[r] = "." \/ re[r] = text[x])
       /\ matchhere(re, r + 1, text, x + 1)

match(re, text) ==
  IF Byte(re, 1) = "^" THEN matchhere(re, 2, text, 1)
  ELSE \E x \in 1 .. Len(text) + 1 : matchhere(re, 1, text, x)

\* The pattern as items: a character or any, once or repeated, or the end.
RECURSIVE Items(_)
Items(re) ==
  IF re = <<>> THEN <<>>
  ELSE IF Byte(re, 2) = "*" THEN <<<<re[1], "many">>>> \o Items(SubSeq(re, 3, Len(re)))
  ELSE IF re = <<"$">> THEN <<<<"$", "end">>>>
  ELSE <<<<re[1], "one">>>> \o Items(Tail(re))

Fits1(c, text, i) == c = "." \/ text[i] = c

\* The places of the text an item can lead to from the places P.
Reach(P, item, text) ==
  CASE item[2] = "end" -> P \cap {Len(text) + 1}
    [] item[2] = "one" -> {x + 1 : x \in {y \in P : y <= Len(text) /\ Fits1(item[1], text, y)}}
    [] OTHER -> {y \in 1 .. Len(text) + 1 :
                   \E x \in P : x <= y /\ \A i \in x .. y - 1 : Fits1(item[1], text, i)}

\* The backtracking matcher finds a match exactly when there is one.
MatchesRegexp ==
  call.fn = "match" =>
    LET re == call.p
        anchored == Byte(re, 1) = "^"
        items == Items(IF anchored THEN Tail(re) ELSE re)
        start == IF anchored THEN {1} ELSE 1 .. Len(call.t) + 1
    IN match(re, call.t) <=>
         FoldLeft(LAMBDA P, item : Reach(P, item, call.t), start, items) # {}

\* Every routine of string.c, ulib.c and printf.c, the matcher of grep.c and the
\* counter of wc.c compute what they are for.
LibCorrect ==
  /\ MemmoveCopies /\ NamesRoundTrip /\ PrintintReads /\ FormatsRead
  /\ GetsSplits /\ CountsWords /\ MatchesRegexp
=============================================================================
