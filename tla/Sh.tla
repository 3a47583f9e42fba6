--------------------------------- MODULE Sh ---------------------------------
(***************************************************************************)
(* The shell (sh.c): main's loop, and runcmd as the tree of processes it   *)
(* forks, with the descriptors they inherit, move and close.  Processes,   *)
(* descriptors and pipes are the kernel's: fork copies the descriptors, a  *)
(* new descriptor is the lowest free one, the children of a process that   *)
(* exits go to init, which reaps them and starts a shell that has gone.    *)
(*                                                                         *)
(* The programs: "l" exits when it likes, "c" when its input ends, "g"     *)
(* when nobody reads what it writes.                                       *)
(***************************************************************************)
EXTENDS ShParse, FiniteSetsExt, Functions

CONSTANTS
  NSH,       \* bound: processes, the shell included, are 1 .. NSH
  NLINES,    \* bound: lines typed
  Typed      \* the lines that may be typed

Shell == 1
Slot == 1 .. NSH
FDs == 0 .. 4       \* bound: no process of the shell has more descriptors
Tty == <<"tty", 0>>
File == <<"file", 0>>

VARIABLES
  sproc,   \* per slot: the process
  ntyped,  \* lines typed so far
  failed   \* whether a fork or a pipe has failed

shVars == <<sproc, ntyped, failed>>

\* A process: where it is, its buf and command, the files of its open
\* descriptors, its parent (0: init), runcmd's p, and whether a
\* BACK has put it in the background.
NoProcess == [at |-> "free", buf |-> <<>>, cmd |-> Bad, fd |-> <<>>,
              parent |-> 0, p |-> <<0, 0>>, back |-> FALSE]

\* The shell at its prompt: "console" is opened until 0, 1 and 2 are open.
NewShell == [NoProcess EXCEPT !.at = "prompt", !.fd = [f \in 0 .. 2 |-> Tty]]

ShInit ==
  /\ ntyped = 0 /\ failed = FALSE
  /\ sproc = [s \in Slot |-> IF s = Shell THEN NewShell ELSE NoProcess]

-----------------------------------------------------------------------------
(* The kernel's part *)

Alive(s) == sproc[s].at \notin {"free", "zombie"}
LowestFd(fd) == Min(FDs \ DOMAIN fd)
PutFd(fd, o) == [f \in DOMAIN fd \cup {LowestFd(fd)} |-> IF f \in DOMAIN fd THEN fd[f] ELSE o]
ShutFd(fd, f) == Restrict(fd, DOMAIN fd \ {f})
IsOpen(o) == \E s \in Slot : o \in Range(sproc[s].fd)
NewPipe == Min({k \in Slot : ~IsOpen(<<"r", k>>) /\ ~IsOpen(<<"w", k>>)})
FreeSlots == {s \in Slot \ {Shell} : sproc[s].at = "free"}

\* s exits.
ExitCall(s) ==
  sproc' = [t \in Slot |->
    CASE t = s /\ sproc[s].parent = 0 -> NoProcess
      [] t = s /\ sproc[s].parent # 0 ->
           [NoProcess EXCEPT !.at = "zombie", !.parent = sproc[s].parent]
      [] t # s /\ sproc[t].at = "zombie" /\ sproc[t].parent = s -> NoProcess
      [] t # s /\ Alive(t) /\ sproc[t].parent = s -> [sproc[t] EXCEPT !.parent = 0]
      [] OTHER -> sproc[t]]

\* fork or pipe fails, the table being full or once for want of memory: panic.
Panics(s) ==
  /\ ~failed \/ FreeSlots = {}
  /\ failed' = TRUE
  /\ ExitCall(s)

\* s forks a child and goes on at next.
Forks(s, next, child) ==
  /\ FreeSlots # {}
  /\ sproc' = [sproc EXCEPT ![s].at = next, ![Min(FreeSlots)] = [child EXCEPT !.parent = s]]
  /\ UNCHANGED failed

fork1(s, next, child) == Forks(s, next, child) \/ Panics(s)

\* wait(): a zombie child goes, and s goes on as self.
Waits(s, self) ==
  \E t \in Slot :
    /\ sproc[t].at = "zombie" /\ sproc[t].parent = s
    /\ sproc' = [sproc EXCEPT ![t] = NoProcess, ![s] = self]
    /\ UNCHANGED failed

-----------------------------------------------------------------------------
(* main *)

\* A line is read, and a child runs it; "cd " is the shell's own affair.
GetCmd ==
  \E l \in Typed :
    /\ sproc[Shell].at = "prompt" /\ ntyped < NLINES
    /\ ntyped' = ntyped + 1
    /\ IF <<At0(l, 1), At0(l, 2), At0(l, 3)>> = <<"c", "d", " ">>
       THEN UNCHANGED <<sproc, failed>>
       ELSE fork1(Shell, "wait", [sproc[Shell] EXCEPT !.at = "line", !.buf = l])

\* End of file: the loop ends.
GetEof ==
  /\ sproc[Shell].at = "prompt" /\ ntyped < NLINES
  /\ ntyped' = ntyped + 1
  /\ ExitCall(Shell)
  /\ UNCHANGED failed

MainWait ==
  /\ sproc[Shell].at = "wait"
  /\ Waits(Shell, [sproc[Shell] EXCEPT !.at = "prompt"])
  /\ UNCHANGED ntyped

\* init, which has reaped the shell, starts another.
InitRestarts ==
  /\ sproc[Shell].at = "free"
  /\ sproc' = [sproc EXCEPT ![Shell] = NewShell]
  /\ UNCHANGED <<ntyped, failed>>

-----------------------------------------------------------------------------
(* runcmd *)

Runs(s, type) == sproc[s].at = "run" /\ sproc[s].cmd.type = type
Running(s, cmd) == [sproc[s] EXCEPT !.at = "run", !.cmd = cmd]

\* runcmd(parsecmd(buf))
RunLine(s) ==
  LET cmd == parsecmd(sproc[s].buf) IN
  /\ sproc[s].at = "line"
  /\ IF cmd = Bad THEN ExitCall(s) ELSE sproc' = [sproc EXCEPT ![s] = Running(s, cmd)]
  /\ UNCHANGED <<ntyped, failed>>

\* An empty command exits; exec runs the program, or fails.
RunExec(s) ==
  LET argv == sproc[s].cmd.argv IN
  /\ Runs(s, "EXEC")
  /\ \/ ExitCall(s)
     \/ /\ argv # <<>>
        /\ sproc' = [sproc EXCEPT ![s] =
             [@ EXCEPT !.at = "prog", !.cmd = sproc[s].buf[argv[1][1]], !.buf = <<>>]]
  /\ UNCHANGED <<ntyped, failed>>

\* close(fd); open(file)
RunRedir(s) ==
  LET cmd == sproc[s].cmd IN
  /\ Runs(s, "REDIR")
  /\ \/ ExitCall(s)
     \/ sproc' = [sproc EXCEPT ![s] =
          [Running(s, cmd.cmd) EXCEPT !.fd = PutFd(ShutFd(@, cmd.fd), File)]]
  /\ UNCHANGED <<ntyped, failed>>

RunList(s) ==
  /\ Runs(s, "LIST")
  /\ fork1(s, "list", Running(s, sproc[s].cmd.left))
  /\ UNCHANGED ntyped

ListWait(s) ==
  /\ sproc[s].at = "list"
  /\ Waits(s, Running(s, sproc[s].cmd.right))
  /\ UNCHANGED ntyped

\* pipe(p)
RunPipe(s) ==
  LET fd == PutFd(sproc[s].fd, <<"r", NewPipe>>) IN
  /\ Runs(s, "PIPE")
  /\ \/ /\ sproc' = [sproc EXCEPT ![s].at = "pipe", ![s].fd = PutFd(fd, <<"w", NewPipe>>),
                                  ![s].p = <<LowestFd(sproc[s].fd), LowestFd(fd)>>]
        /\ UNCHANGED failed
     \/ Panics(s)
  /\ UNCHANGED ntyped

\* The fork of the left side, then that of the right side.
PipeFork(s) ==
  LET p == sproc[s] IN
  /\ \/ /\ p.at = "pipe"
        /\ fork1(s, "pipe1", [p EXCEPT !.at = "left", !.cmd = p.cmd.left])
     \/ /\ p.at = "pipe1"
        /\ fork1(s, "pipe2", [p EXCEPT !.at = "right", !.cmd = p.cmd.right])
  /\ UNCHANGED ntyped

\* close(std); dup(p[k]); close(p[0]); close(p[1])
Moved(s, std, k) ==
  LET p == sproc[s].p
      fd == PutFd(ShutFd(sproc[s].fd, std), sproc[s].fd[p[k]])
  IN [Running(s, sproc[s].cmd) EXCEPT !.fd = ShutFd(ShutFd(fd, p[1]), p[2]), !.p = <<0, 0>>]

\* Mutant: close(p[1]) is forgotten.
MovedKeeps(s, std, k) ==
  LET p == sproc[s].p
      fd == PutFd(ShutFd(sproc[s].fd, std), sproc[s].fd[p[k]])
  IN [Running(s, sproc[s].cmd) EXCEPT !.fd = ShutFd(fd, p[1]), !.p = <<0, 0>>]

PipeLeft(s) ==
  /\ sproc[s].at = "left"
  /\ sproc' = [sproc EXCEPT ![s] = Moved(s, 1, 2)]
  /\ UNCHANGED <<ntyped, failed>>

\* Mutant: the right side keeps the write end.
PipeRightKeeps(s) ==
  /\ sproc[s].at = "right"
  /\ sproc' = [sproc EXCEPT ![s] = MovedKeeps(s, 0, 1)]
  /\ UNCHANGED <<ntyped, failed>>

PipeRight(s) ==
  /\ sproc[s].at = "right"
  /\ sproc' = [sproc EXCEPT ![s] = Moved(s, 0, 1)]
  /\ UNCHANGED <<ntyped, failed>>

\* Mutant: the parent keeps the write end.
PipeShutHalf(s) ==
  /\ sproc[s].at = "pipe2"
  /\ sproc' = [sproc EXCEPT ![s].at = "wait2", ![s].fd = ShutFd(@, sproc[s].p[1])]
  /\ UNCHANGED <<ntyped, failed>>

\* close(p[0]); close(p[1])
PipeShut(s) ==
  LET p == sproc[s].p IN
  /\ sproc[s].at = "pipe2"
  /\ sproc' = [sproc EXCEPT ![s].at = "wait2", ![s].fd = ShutFd(ShutFd(@, p[1]), p[2])]
  /\ UNCHANGED <<ntyped, failed>>

\* wait(); wait()
PipeWait(s) ==
  /\ \/ sproc[s].at = "wait2" /\ Waits(s, [sproc[s] EXCEPT !.at = "wait1"])
     \/ sproc[s].at = "wait1" /\ Waits(s, [sproc[s] EXCEPT !.at = "done"])
  /\ UNCHANGED ntyped

RunBack(s) ==
  /\ Runs(s, "BACK")
  /\ fork1(s, "done", [Running(s, sproc[s].cmd.cmd) EXCEPT !.back = TRUE])
  /\ UNCHANGED ntyped

RunDone(s) ==
  /\ sproc[s].at = "done"
  /\ ExitCall(s)
  /\ UNCHANGED <<ntyped, failed>>

-----------------------------------------------------------------------------
(* The programs *)

\* A pipe gives end of file when no process has its write end open, and fails
\* a write when none has its read end; the other files end by themselves.
CanEnd(s) ==
  LET in == sproc[s].fd[0]
      out == sproc[s].fd[1]
  IN \/ sproc[s].cmd = "l"
     \/ sproc[s].cmd = "c" /\ (in[1] = "r" => ~IsOpen(<<"w", in[2]>>))
     \/ sproc[s].cmd = "g" /\ (out[1] = "w" => ~IsOpen(<<"r", out[2]>>))

ProgramEnds(s) ==
  /\ sproc[s].at = "prog" /\ CanEnd(s)
  /\ ExitCall(s)
  /\ UNCHANGED <<ntyped, failed>>

RunCmd(s) ==
  \/ RunLine(s) \/ RunExec(s) \/ RunRedir(s) \/ RunList(s) \/ ListWait(s)
  \/ RunPipe(s) \/ PipeFork(s) \/ PipeLeft(s) \/ PipeRight(s) \/ PipeShut(s)
  \/ PipeWait(s) \/ RunBack(s) \/ RunDone(s)

ShNext ==
  \/ GetCmd \/ GetEof \/ MainWait \/ InitRestarts
  \/ \E s \in Slot : RunCmd(s) \/ ProgramEnds(s)

-----------------------------------------------------------------------------
(* Properties *)

Waiting(s) ==
  /\ sproc[s].at \in {"wait", "list", "wait2", "wait1"}
  /\ ~\E t \in Slot : sproc[t].at = "zombie" /\ sproc[t].parent = s

\* What runcmd does with descriptors leaves none behind: a program starts with
\* its standard descriptors, whatever pipes and redirections it is under, and
\* nothing else.
ProgramFds ==
  \A s \in Slot : sproc[s].at = "prog" =>
    /\ DOMAIN sproc[s].fd = 0 .. 2
    /\ sproc[s].fd[0][1] # "w" /\ sproc[s].fd[1][1] # "r" /\ sproc[s].fd[2] = Tty

\* When the prompt returns, the line's commands are over: what still lives was
\* started under an '&', unless a fork or a pipe has failed.
ForegroundDone ==
  sproc[Shell].at = "prompt" /\ ~failed =>
    \A s \in Slot \ {Shell} : Alive(s) => sproc[s].back

\* No line hangs: of the processes that live, one can go on or is the shell at
\* its prompt; a pipe's ends are all closed in time, whoever fails on the way.
NoHang ==
  \E s \in Slot :
    \/ s = Shell /\ sproc[s].at \in {"free", "prompt"}
    \/ Alive(s) /\ ~Waiting(s) /\ (sproc[s].at = "prog" => CanEnd(s))

\* runcmd serves a line: programs get their descriptors and no others, and the
\* prompt returns when they are done.
LineServed == ProgramFds /\ ForegroundDone
=============================================================================
