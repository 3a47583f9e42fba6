------------------------------ MODULE ShParse -------------------------------
(***************************************************************************)
(* The shell's parser (sh.c): from a line, a sequence of characters, to a  *)
(* tree of commands.  A character is one of the shell's symbols, a blank   *)
(* or a letter; a word is a pair <<q, eq>> of positions in the line, as in *)
(* the code, and position Len(b) + 1 is the line's '\0'.  A function of    *)
(* the parser takes where it starts in the line and returns where it ends  *)
(* and the command; panic() is the command Bad.                            *)
(***************************************************************************)
EXTENDS Integers, SequencesExt

CONSTANT MAXARGS

ASSUME ShAssumption == MAXARGS \in Nat \ {0}

whitespace == {" "}
symbols == {"<", "|", ">", "&", ";", "(", ")"}
NUL == "0"

Bad == [type |-> "BAD"]
execcmd(argv) == [type |-> "EXEC", argv |-> argv]
redircmd(cmd, file, fd) == [type |-> "REDIR", cmd |-> cmd, file |-> file, fd |-> fd]
pipecmd(l, r) == [type |-> "PIPE", left |-> l, right |-> r]
listcmd(l, r) == [type |-> "LIST", left |-> l, right |-> r]
backcmd(cmd) == [type |-> "BACK", cmd |-> cmd]

At0(b, s) == IF s > Len(b) THEN NUL ELSE b[s]

\* The first position from s on where the character is not in S.
Past(b, s, S) == CHOOSE i \in s .. Len(b) + 1 :
  /\ i = Len(b) + 1 \/ b[i] \notin S
  /\ \A j \in s .. i - 1 : b[j] \in S

Blanks(b, s) == Past(b, s, whitespace)

\* The end of the token that starts at s.
TokenEnd(b, s) ==
  CASE s > Len(b) -> s
    [] At0(b, s) = ">" /\ At0(b, s + 1) = ">" -> s + 2
    [] At0(b, s) \in symbols -> s + 1
    [] OTHER -> CHOOSE i \in s + 1 .. Len(b) + 1 :
                  /\ i = Len(b) + 1 \/ b[i] \in whitespace \cup symbols
                  /\ \A j \in s .. i - 1 : b[j] \notin whitespace \cup symbols

gettoken(b, s0) ==
  LET s == Blanks(b, s0)
      t == TokenEnd(b, s)
  IN [tok |-> IF s > Len(b) THEN NUL
              ELSE IF t = s + 2 /\ b[s] = ">" THEN "+"
              ELSE IF b[s] \in symbols THEN b[s] ELSE "a",
      word |-> <<s, t>>,
      s |-> Blanks(b, t)]

peek(b, s, toks) == At0(b, Blanks(b, s)) \in toks

\* redircmd's fd: standard input for '<', standard output for '>' and '>>'.
RedirFd(tok) == IF tok = "<" THEN 0 ELSE 1

\* The redirections that follow s, as [s, ok, list]; not ok is a panic.
RECURSIVE parseredirs(_, _, _)
AfterRedir(b, s, fd, f, list) ==
  IF f.tok # "a" THEN [s |-> s, ok |-> FALSE, list |-> list]
  ELSE parseredirs(b, f.s, Append(list, <<f.word, fd>>))
RedirAt(b, t, list) == AfterRedir(b, t.s, RedirFd(t.tok), gettoken(b, t.s), list)
parseredirs(b, s, list) ==
  IF peek(b, s, {"<", ">"}) THEN RedirAt(b, gettoken(b, s), list)
  ELSE [s |-> s, ok |-> TRUE, list |-> list]

\* Each redirection is wrapped around what was there before.
Wrap(cmd, list) == FoldLeft(LAMBDA c, r : redircmd(c, r[1], r[2]), cmd, list)

Done(s, cmd) == [s |-> s, cmd |-> cmd]

\* parseexec's loop: the words and redirections of a simple command.
RECURSIVE parseargs(_, _, _, _)
AfterArg(b, argv, r) ==
  IF r.ok THEN parseargs(b, r.s, argv, r.list) ELSE Done(r.s, Bad)
ArgAt(b, s, t, argv, list) ==
  IF t.tok = NUL THEN Done(s, Wrap(execcmd(argv), list))
  ELSE IF t.tok # "a" \/ Len(argv) + 1 >= MAXARGS THEN Done(s, Bad)
  ELSE AfterArg(b, Append(argv, t.word), parseredirs(b, t.s, list))
parseargs(b, s, argv, list) ==
  IF peek(b, s, {"|", ")", "&", ";"}) THEN Done(s, Wrap(execcmd(argv), list))
  ELSE ArgAt(b, s, gettoken(b, s), argv, list)

RECURSIVE parseline(_, _)
RECURSIVE parsepipe(_, _)

BlockRedirs(cmd, r) == IF r.ok THEN Done(r.s, Wrap(cmd, r.list)) ELSE Done(r.s, Bad)
BlockEnd(b, l) ==
  IF l.cmd = Bad \/ ~peek(b, l.s, {")"}) THEN Done(l.s, Bad)
  ELSE BlockRedirs(l.cmd, parseredirs(b, gettoken(b, l.s).s, <<>>))
parseblock(b, s) == BlockEnd(b, parseline(b, gettoken(b, s).s))

ExecArgs(b, r) == IF r.ok THEN parseargs(b, r.s, <<>>, r.list) ELSE Done(r.s, Bad)
parseexec(b, s) ==
  IF peek(b, s, {"("}) THEN parseblock(b, s) ELSE ExecArgs(b, parseredirs(b, s, <<>>))

\* l, and the rest r of the line after a '|' or a ';'.
Joined(l, r, Make(_, _)) == IF r.cmd = Bad THEN r ELSE Done(r.s, Make(l.cmd, r.cmd))

PipeRest(b, l) ==
  IF l.cmd = Bad \/ ~peek(b, l.s, {"|"}) THEN l
  ELSE Joined(l, parsepipe(b, gettoken(b, l.s).s), pipecmd)
parsepipe(b, s) == PipeRest(b, parseexec(b, s))

\* "while(peek(ps, es, "&"))"
RECURSIVE Backed(_, _)
Backed(b, l) ==
  IF l.cmd = Bad \/ ~peek(b, l.s, {"&"}) THEN l
  ELSE Backed(b, Done(gettoken(b, l.s).s, backcmd(l.cmd)))

LineRest(b, l) ==
  IF l.cmd = Bad \/ ~peek(b, l.s, {";"}) THEN l
  ELSE Joined(l, parseline(b, gettoken(b, l.s).s), listcmd)

\* Mutant: '&' puts the whole of what was read into the background.
parselineLate(b, s) == Backed(b, LineRest(b, parsepipe(b, s)))

parseline(b, s) == LineRest(b, Backed(b, parsepipe(b, s)))

\* parsecmd, before nulterminate: what is left over is an error.
WholeLine(b, l) == IF l.cmd = Bad \/ Blanks(b, l.s) <= Len(b) THEN Bad ELSE l.cmd
parsecmd(b) == WholeLine(b, parseline(b, 1))

\* The words of a command: the argv of its EXEC nodes, the files of its REDIRs.
RECURSIVE Words(_)
Words(cmd) ==
  CASE cmd.type = "EXEC" -> ToSet(cmd.argv)
    [] cmd.type = "REDIR" -> Words(cmd.cmd) \cup {cmd.file}
    [] cmd.type \in {"PIPE", "LIST"} -> Words(cmd.left) \cup Words(cmd.right)
    [] OTHER -> Words(cmd.cmd)

\* nulterminate: the line with a '\0' at the end of every word.
nulterminate(b, cmd) ==
  [i \in 1 .. Len(b) |-> IF \E x \in Words(cmd) : x[2] = i THEN NUL ELSE b[i]]

-----------------------------------------------------------------------------
(* The grammar, as the set of trees that a sequence of tokens can have:    *)
(*   line = back | back ; line       back = pipe | back &                  *)
(*   pipe = exec | exec '|' pipe     exec = ( line ) redir* | {word, redir}*)
(* with fewer than MAXARGS words to a simple command.                      *)

RECURSIVE TokensFrom(_, _)
TokensFrom(b, s) ==
  LET t == gettoken(b, s) IN
  IF t.tok = NUL THEN <<>> ELSE <<[tok |-> t.tok, word |-> t.word]>> \o TokensFrom(b, t.s)

Redirs == {"<", ">", "+"}
Places(T, tok) == {k \in 1 .. Len(T) : T[k].tok = tok}
Before(T, k) == SubSeq(T, 1, k - 1)
Behind(T, k) == SubSeq(T, k + 1, Len(T))

\* T is words and redirections; those places of T that are redirections, and
\* those that are arguments.
IsSimple(T) ==
  /\ \A k \in 1 .. Len(T) : T[k].tok \in Redirs \cup {"a"}
  /\ \A k \in 1 .. Len(T) :
       T[k].tok \in Redirs => k < Len(T) /\ T[k + 1].tok = "a"
RedirsOf(T) == [k \in 1 .. Len(T) |->
  IF T[k].tok \in Redirs THEN <<<<T[k + 1].word, RedirFd(T[k].tok)>>>> ELSE <<>>]
ArgsOf(T) == [k \in 1 .. Len(T) |->
  IF T[k].tok = "a" /\ (k = 1 \/ T[k - 1].tok \notin Redirs) THEN <<T[k].word>> ELSE <<>>]

RECURSIVE LineTrees(_)
ExecTrees(T) ==
  LET args == FlattenSeq(ArgsOf(T)) IN
  (IF IsSimple(T) /\ Len(args) < MAXARGS
   THEN {Wrap(execcmd(args), FlattenSeq(RedirsOf(T)))} ELSE {})
  \cup
  UNION {{Wrap(t, FlattenSeq(RedirsOf(Behind(T, k)))) : t \in LineTrees(SubSeq(T, 2, k - 1))} :
         k \in {j \in Places(T, ")") :
                  /\ T[1].tok = "(" /\ IsSimple(Behind(T, j))
                  /\ FlattenSeq(ArgsOf(Behind(T, j))) = <<>>}}

RECURSIVE PipeTrees(_)
PipeTrees(T) ==
  ExecTrees(T) \cup
    UNION {{pipecmd(l, r) : l \in ExecTrees(Before(T, k)), r \in PipeTrees(Behind(T, k))} :
           k \in Places(T, "|")}

RECURSIVE BackTrees(_)
BackTrees(T) ==
  PipeTrees(T) \cup
    (IF T # <<>> /\ T[Len(T)].tok = "&" THEN {backcmd(t) : t \in BackTrees(Before(T, Len(T)))}
     ELSE {})

LineTrees(T) ==
  BackTrees(T) \cup
    UNION {{listcmd(l, r) : l \in BackTrees(Before(T, k)), r \in LineTrees(Behind(T, k))} :
           k \in Places(T, ";")}

-----------------------------------------------------------------------------
(* Properties of a line *)

VARIABLE lines    \* lines given to parsecmd

\* The parser accepts the lines of the grammar and no others, builds the one
\* tree a line has, and leaves nothing of the line unread.
ParsesGrammar ==
  \A b \in lines :
    LET cmd == parsecmd(b) IN
    LineTrees(TokensFrom(b, 1)) = IF cmd = Bad THEN {} ELSE {cmd}

\* nulterminate's '\0's end every word and cut none: read from its start, each
\* word of a parsed line is what was typed.
WordsIntact ==
  \A b \in lines :
    LET cmd == parsecmd(b)
        buf == nulterminate(b, cmd)
    IN cmd # Bad =>
         \A x \in Words(cmd) :
           /\ x[1] < x[2] /\ At0(buf, x[2]) = NUL
           /\ \A i \in x[1] .. x[2] - 1 : buf[i] = b[i] /\ buf[i] # NUL

\* parsecmd gives the tree of the line, with its words intact.
ParsesRight == ParsesGrammar /\ WordsIntact
=============================================================================
