--------------------------------- MODULE Fs ---------------------------------
(***************************************************************************)
(* Names, inodes and open files: fs.c, file.c and sysfile.c, over a block  *)
(* layer and a log that work (Bio, Log).                                   *)
(*                                                                         *)
(* A call is cut where it may wait for an inode: the code from one ilock   *)
(* to the next is one step, guarded by I_BUSY being clear.  Only unlink    *)
(* keeps a lock (its directory's) while it waits for another.  An in-core  *)
(* inode is named by its number: iget keeps one cache entry per number.    *)
(* On-disk inodes are seen through the buffer cache.  Directory contents   *)
(* are functions from names; file contents are the blocks that hold them.  *)
(* Directory blocks, devices, "." and open modes are left out: a directory *)
(* is opened to read, any file to read and write.                          *)
(***************************************************************************)
EXTENDS Integers, SequencesExt, Relation

CONSTANTS
  Procs, NoProc,
  NINODES,        \* inodes on disk; 1 is the root
  NINODE,         \* entries of icache
  Names, DotDot,  \* path elements
  Paths,          \* path arguments of calls, as sequences of elements
  NBLOCKS,        \* data blocks on disk
  MAXFILE,        \* blocks of the largest file
  NFILE, NOFILE

ASSUME FsAssumption ==
  /\ NoProc \notin Procs /\ DotDot \notin Names
  /\ Paths \subseteq Seq(Names \cup {DotDot})
  /\ {NINODES, NINODE, NBLOCKS, MAXFILE, NFILE, NOFILE} \subseteq Nat \ {0}

Inums == 1 .. NINODES
Root == 1
Files == 1 .. NFILE
FDs == 1 .. NOFILE

VARIABLES
  fs,     \* dinodes (type, nlink, dents, dotdot, addrs), bitmap (used) and
          \* icache (ref, busy: I_BUSY's owner, valid: the set of I_VALID)
  file,   \* ftable: ref, ip, off
  ofile,  \* per process: fd -> file, 0 if free
  cwd,    \* per process, 0 if it does not exist
  pc, cont, path, cur, ip  \* per process: its call

calls == <<pc, cont, path, cur, ip>>
vars == <<fs, file, ofile, cwd, calls>>

NoEntries == [x \in Names |-> 0]

Init ==  \* the disk mkfs makes, init (always in the root) and one process
  /\ fs = [type |-> [i \in Inums |-> IF i = Root THEN "dir" ELSE "free"],
           nlink |-> [i \in Inums |-> IF i = Root THEN 1 ELSE 0],
           dents |-> [i \in Inums |-> NoEntries],
           dotdot |-> [i \in Inums |-> IF i = Root THEN Root ELSE 0],
           addrs |-> [i \in Inums |-> <<>>],
           used |-> {},
           ref |-> [i \in Inums |-> IF i = Root THEN 2 ELSE 0],
           busy |-> [i \in Inums |-> NoProc],
           valid |-> {}]
  /\ file = [f \in Files |-> [ref |-> 0, ip |-> 0, off |-> 0]]
  /\ ofile = [p \in Procs |-> [d \in FDs |-> 0]]
  /\ \E p \in Procs : cwd = [q \in Procs |-> IF q = p THEN Root ELSE 0]
  /\ pc = [p \in Procs |-> "user"] /\ cont = [p \in Procs |-> ""]
  /\ path = [p \in Procs |-> <<>>]
  /\ cur = [p \in Procs |-> 0] /\ ip = [p \in Procs |-> 0]

-----------------------------------------------------------------------------
(* The inode layer.                                                        *)

\* iget and idup: one more pointer; a recycled entry has no flags.
iget(s, i) ==
  [s EXCEPT !.ref[i] = @ + 1, !.valid = IF s.ref[i] = 0 THEN @ \ {i} ELSE @]

CacheFull(i) == fs.ref[i] = 0 /\ Cardinality({j \in Inums : fs.ref[j] > 0}) = NINODE

Unlocked(i) == fs.busy[i] = NoProc

ilock(s, i) == [s EXCEPT !.valid = @ \cup {i}]

iunlock(s, i) == [s EXCEPT !.busy[i] = NoProc, !.valid = @ \ {i}]

\* itrunc, and the dinode marked free.
ifree(s, i) ==
  [s EXCEPT !.type[i] = "free", !.dents[i] = NoEntries, !.dotdot[i] = 0,
            !.used = @ \ Range(s.addrs[i]), !.addrs[i] = <<>>,
            !.valid = @ \ {i}, !.ref[i] = 0]

iput(s, i) ==
  IF s.ref[i] = 1 /\ i \in s.valid /\ s.nlink[i] = 0
  THEN ifree(s, i) ELSE [s EXCEPT !.ref[i] = @ - 1]

iunlockput(s, i) == iput(iunlock(s, i), i)

\* dirlink, for a name that is not taken.
dirlink(s, dp, x, i) == [s EXCEPT !.dents[dp][x] = i]
dirlookup(s, i, x) == IF x = DotDot THEN s.dotdot[i] ELSE s.dents[i][x]

-----------------------------------------------------------------------------
(* Path names.                                                             *)

Return(p, where) == pc' = [pc EXCEPT ![p] = where]
\* The call ends (end_op); its pointers are dead.
Done(p) ==
  /\ Return(p, "user")
  /\ cur' = [cur EXCEPT ![p] = 0] /\ ip' = [ip EXCEPT ![p] = 0]
  /\ path' = [path EXCEPT ![p] = <<>>]
  /\ cont' = [cont EXCEPT ![p] = ""]

ParentOps == {"linkdir", "unlink", "create", "mkdir"}
\* Where namex is at inode i with these elements left.  namei returns when
\* there are none; nameiparent when one is left and i is a directory.  (It
\* locks i to see that.  The type of an inode one has a pointer to does not
\* change, and the caller's next step is to lock i again.)
Walking(rest, to, i) ==
  IF \/ to \notin ParentOps /\ rest = <<>>
     \/ to \in ParentOps /\ Len(rest) = 1 /\ fs.type[i] = "dir"
  THEN to ELSE "walk"

\* begin_op, and the start of namex: from the root or from the cwd.
Walk(p, rest, to) ==
  /\ pc[p] = "user" /\ cwd[p] # 0
  /\ \E start \in {Root, cwd[p]} :
       /\ fs' = iget(fs, start)
       /\ cur' = [cur EXCEPT ![p] = start]
       /\ Return(p, Walking(rest, to, start))
  /\ path' = [path EXCEPT ![p] = rest]
  /\ cont' = [cont EXCEPT ![p] = to]

\* One iteration of namex's loop, from ilock(ip) to iunlockput(ip).
NamexStep(p) ==
  LET i == cur[p]
  IN  /\ pc[p] = "walk" /\ Unlocked(i) /\ path[p] # <<>>
      /\ fs.type[i] = "dir"
      /\ LET x == dirlookup(fs, i, path[p][1])
         IN  /\ x # 0
             /\ IF CacheFull(x) THEN Return(p, "panic") /\ UNCHANGED <<fs, cur, path>>
                ELSE /\ fs' = iunlockput(iget(ilock(fs, i), x), i)
                     /\ cur' = [cur EXCEPT ![p] = x]
                     /\ path' = [path EXCEPT ![p] = Tail(@)]
                     /\ Return(p, Walking(Tail(path[p]), cont[p], x))
      /\ UNCHANGED <<file, ofile, cwd, cont, ip>>

\* link goes to "bad:" with only the inode and its count left.
LinkFails(p) ==
  /\ cur' = [cur EXCEPT ![p] = 0] /\ path' = [path EXCEPT ![p] = <<>>]
  /\ UNCHANGED <<cont, ip>>

\* namex returns 0: not a directory, no such name, or no parent to return.
NamexFails(p) ==
  LET i == cur[p]
      locked == iunlockput(ilock(fs, i), i)
  IN  /\ pc[p] = "walk"
      /\ \/ path[p] = <<>> /\ fs' = iput(fs, i)
         \/ path[p] # <<>> /\ Unlocked(i) /\ fs.type[i] # "dir" /\ fs' = locked
         \/ /\ path[p] # <<>> /\ Unlocked(i) /\ fs.type[i] = "dir"
            /\ dirlookup(fs, i, path[p][1]) = 0
            /\ fs' = locked
      /\ IF cont[p] # "linkdir" THEN Done(p)
         ELSE Return(p, "linkbad") /\ LinkFails(p)
      /\ UNCHANGED <<file, ofile, cwd>>

-----------------------------------------------------------------------------
(* System calls.                                                           *)

SysOpen(p, r) == Walk(p, r, "open") /\ UNCHANGED <<file, ofile, cwd, ip>>
SysCreate(p, r) == Walk(p, r, "create") /\ UNCHANGED <<file, ofile, cwd, ip>>
SysMkdir(p, r) == Walk(p, r, "mkdir") /\ UNCHANGED <<file, ofile, cwd, ip>>
SysUnlink(p, r) == Walk(p, r, "unlink") /\ UNCHANGED <<file, ofile, cwd, ip>>
SysChdir(p, r) == Walk(p, r, "chdir") /\ UNCHANGED <<file, ofile, cwd, ip>>
SysLink(p, old) == Walk(p, old, "linkinc") /\ UNCHANGED <<file, ofile, cwd, ip>>

\* filealloc and fdalloc for inode i; FALSE when a table is full.
CanOpen(p) == (\E f \in Files : file[f].ref = 0) /\ (\E d \in FDs : ofile[p][d] = 0)
OpenFile(p, i) ==
  LET f == Min({g \in Files : file[g].ref = 0})
      d == Min({e \in FDs : ofile[p][e] = 0})
  IN  /\ file' = [file EXCEPT ![f] = [ref |-> 1, ip |-> i, off |-> 0]]
      /\ ofile' = [ofile EXCEPT ![p][d] = f]

\* open of an existing file, from ilock(ip) on; a directory opens read-only.
OpenLocked(p) ==
  LET i == cur[p]
  IN  /\ pc[p] \in {"open", "found"} /\ Unlocked(i)
      /\ \/ /\ pc[p] = "open" \/ fs.type[i] = "file"
            /\ CanOpen(p) /\ OpenFile(p, i)
            /\ fs' = iunlock(ilock(fs, i), i)
         \/ /\ pc[p] = "open" \/ fs.type[i] # "file" \/ ~CanOpen(p)
            /\ pc[p] = "open" => fs.type[i] = "dir" \/ ~CanOpen(p)
            /\ fs' = iunlockput(ilock(fs, i), i)
            /\ UNCHANGED <<file, ofile>>
      /\ Done(p)
      /\ UNCHANGED cwd

\* create() found the name taken: dp is put, then the inode is looked at.
CreateFinds(p) ==
  LET dp == cur[p]  x == dirlookup(fs, dp, path[p][1])
  IN  /\ pc[p] \in {"create", "mkdir"} /\ Unlocked(dp) /\ x # 0
      /\ IF CacheFull(x) THEN Return(p, "panic") /\ UNCHANGED <<fs, cur, path>>
         ELSE /\ fs' = iunlockput(iget(ilock(fs, dp), x), dp)
              /\ cur' = [cur EXCEPT ![p] = x] /\ path' = [path EXCEPT ![p] = <<>>]
              /\ Return(p, IF pc[p] = "create" THEN "found" ELSE "exists")
      /\ UNCHANGED <<file, ofile, cwd, cont, ip>>

MkdirExists(p) ==
  /\ pc[p] = "exists" /\ Unlocked(cur[p])
  /\ fs' = iunlockput(ilock(fs, cur[p]), cur[p])
  /\ Done(p)
  /\ UNCHANGED <<file, ofile, cwd>>

\* ialloc and the rest of create(), and what open or mkdir do with the inode.
FreeInums == {i \in Inums : fs.type[i] = "free"}
Created(s, dp, x, i, t) ==
  [iget(dirlink(s, dp, x, i), i) EXCEPT
     !.type[i] = t, !.nlink[i] = 1,
     !.dotdot[i] = IF t = "dir" THEN dp ELSE 0,
     !.nlink[dp] = IF t = "dir" THEN @ + 1 ELSE @]
CreateNew(p) ==
  LET dp == cur[p]  x == path[p][1]  i == Min(FreeInums)
  IN  /\ pc[p] \in {"create", "mkdir"} /\ Unlocked(dp) /\ dirlookup(fs, dp, x) = 0
      /\ IF FreeInums = {} \/ CacheFull(i)
         THEN Return(p, "panic") /\ UNCHANGED <<fs, file, ofile, cont, path, cur, ip>>
         ELSE /\ LET t == IF pc[p] = "mkdir" THEN "dir" ELSE "file"
                     s == ilock(iunlockput(Created(ilock(fs, dp), dp, x, i, t), dp), i)
                 IN  IF pc[p] = "create" /\ CanOpen(p)
                     THEN fs' = iunlock(s, i) /\ OpenFile(p, i)
                     ELSE fs' = iunlockput(s, i) /\ UNCHANGED <<file, ofile>>
              /\ Done(p)
      /\ UNCHANGED cwd

\* link: the count goes up before the entry is made.  The second path is an
\* argument of the call; it is chosen here, where it is first used.
LinkInc(p) ==
  LET i == cur[p]
  IN  /\ pc[p] = "linkinc" /\ Unlocked(i)
      /\ IF fs.type[i] = "dir" THEN fs' = iunlockput(ilock(fs, i), i) /\ Done(p)
         ELSE \E start \in {Root, cwd[p]}, r \in Paths :
                /\ fs' = iget(iunlock([ilock(fs, i) EXCEPT !.nlink[i] = @ + 1], i), start)
                /\ ip' = [ip EXCEPT ![p] = i] /\ cur' = [cur EXCEPT ![p] = start]
                /\ path' = [path EXCEPT ![p] = r]
                /\ cont' = [cont EXCEPT ![p] = "linkdir"]
                /\ Return(p, Walking(r, "linkdir", start))
      /\ UNCHANGED <<file, ofile, cwd>>

\* link, from ilock(dp) on.  dirlink gets and puts the inode of a taken name.
LinkDir(p) ==
  LET dp == cur[p]  x == path[p][1]  i == dirlookup(fs, dp, x)
  IN  /\ pc[p] = "linkdir" /\ Unlocked(dp)
      /\ IF i # 0 /\ CacheFull(i)
         THEN Return(p, "panic") /\ UNCHANGED <<fs, cont, path, cur, ip>>
         ELSE IF i # 0
         THEN /\ fs' = iunlockput(ilock(fs, dp), dp)
              /\ Return(p, "linkbad") /\ LinkFails(p)
         ELSE /\ fs' = iput(iunlockput(dirlink(ilock(fs, dp), dp, x, ip[p]), dp), ip[p])
              /\ Done(p)
      /\ UNCHANGED <<file, ofile, cwd>>

\* Mutant: the count is not taken back.
LinkBadKeeps(p) ==
  /\ pc[p] = "linkbad" /\ Unlocked(ip[p])
  /\ fs' = iunlockput(ilock(fs, ip[p]), ip[p])
  /\ Done(p)
  /\ UNCHANGED <<file, ofile, cwd>>
\* link's "bad:": the count is taken back.
LinkBad(p) ==
  LET i == ip[p]
  IN  /\ pc[p] = "linkbad" /\ Unlocked(i)
      /\ fs' = iunlockput([ilock(fs, i) EXCEPT !.nlink[i] = @ - 1], i)
      /\ Done(p)
      /\ UNCHANGED <<file, ofile, cwd>>

\* Mutant: ".." may be unlinked.
UnlinkDots(p) ==
  LET dp == cur[p]  i == dirlookup(fs, dp, path[p][1])
  IN  /\ pc[p] = "unlink" /\ Unlocked(dp)
      /\ IF i = 0 THEN fs' = iunlockput(ilock(fs, dp), dp) /\ Done(p)
         ELSE /\ fs' = [iget(ilock(fs, dp), i) EXCEPT !.busy[dp] = p]
              /\ ip' = [ip EXCEPT ![p] = i]
              /\ Return(p, "unlinkip")
              /\ UNCHANGED <<cont, path, cur>>
      /\ UNCHANGED <<file, ofile, cwd>>
\* unlink: find the entry, and keep dp locked while waiting for the inode.
UnlinkDir(p) ==
  LET dp == cur[p]  x == path[p][1]  i == dirlookup(fs, dp, x)
  IN  /\ pc[p] = "unlink" /\ Unlocked(dp)
      /\ IF x = DotDot \/ i = 0 THEN fs' = iunlockput(ilock(fs, dp), dp) /\ Done(p)
         ELSE IF CacheFull(i)
         THEN Return(p, "panic") /\ UNCHANGED <<fs, cont, path, cur, ip>>
         ELSE /\ fs' = [iget(ilock(fs, dp), i) EXCEPT !.busy[dp] = p]
              /\ ip' = [ip EXCEPT ![p] = i]
              /\ Return(p, "unlinkip")
              /\ UNCHANGED <<cont, path, cur>>
      /\ UNCHANGED <<file, ofile, cwd>>

\* Mutant: a directory need not be empty.
UnlinkFull(p) ==
  LET dp == cur[p]  i == ip[p]  x == path[p][1]
      s1 == [ilock(fs, i) EXCEPT !.dents[dp][x] = 0,
                                 !.nlink[dp] = IF fs.type[i] = "dir" THEN @ - 1 ELSE @]
      s2 == [iunlockput(s1, dp) EXCEPT !.nlink[i] = @ - 1]
  IN  /\ pc[p] = "unlinkip" /\ Unlocked(i)
      /\ fs' = iunlockput(s2, i) /\ Done(p)
      /\ UNCHANGED <<file, ofile, cwd>>
\* unlink, from ilock(ip) on.
UnlinkIp(p) ==
  LET dp == cur[p]  i == ip[p]  x == path[p][1]
      dir == fs.type[i] = "dir"
      s1 == [ilock(fs, i) EXCEPT !.dents[dp][x] = 0,
                                 !.nlink[dp] = IF dir THEN @ - 1 ELSE @]
      s2 == [iunlockput(s1, dp) EXCEPT !.nlink[i] = @ - 1]
  IN  /\ pc[p] = "unlinkip" /\ Unlocked(i)
      /\ IF fs.nlink[i] < 1
         THEN Return(p, "panic") /\ UNCHANGED <<fs, cont, path, cur, ip>>
         ELSE IF dir /\ fs.dents[i] # NoEntries
         THEN fs' = iunlockput(iunlockput(ilock(fs, i), i), dp) /\ Done(p)
         ELSE fs' = iunlockput(s2, i) /\ Done(p)
      /\ UNCHANGED <<file, ofile, cwd>>

\* Mutant: the old directory is not put.
ChdirKeeps(p) ==
  LET i == cur[p]
  IN  /\ pc[p] = "chdir" /\ Unlocked(i)
      /\ IF fs.type[i] # "dir" THEN fs' = iunlockput(ilock(fs, i), i) /\ UNCHANGED cwd
         ELSE fs' = iunlock(ilock(fs, i), i) /\ cwd' = [cwd EXCEPT ![p] = i]
      /\ Done(p)
      /\ UNCHANGED <<file, ofile>>
\* chdir, from ilock(ip) on: the old directory is put.
ChdirLocked(p) ==
  LET i == cur[p]
  IN  /\ pc[p] = "chdir" /\ Unlocked(i)
      /\ IF fs.type[i] # "dir" THEN fs' = iunlockput(ilock(fs, i), i) /\ UNCHANGED cwd
         ELSE fs' = iput(iunlock(ilock(fs, i), i), cwd[p]) /\ cwd' = [cwd EXCEPT ![p] = i]
      /\ Done(p)
      /\ UNCHANGED <<file, ofile>>

\* The open file of a descriptor, 0 if there is none.
argfd(p, d) == ofile[p][d]

SysDup(p, d) ==
  LET f == argfd(p, d)
  IN  /\ pc[p] = "user" /\ f # 0 /\ \E e \in FDs : ofile[p][e] = 0
      /\ ofile' = [ofile EXCEPT ![p][Min({e \in FDs : ofile[p][e] = 0})] = f]
      /\ file' = [file EXCEPT ![f].ref = @ + 1]
      /\ UNCHANGED <<fs, cwd, calls>>

\* fileclose on f, in file table t and inode layer s.
Closed(t, f) ==
  [t EXCEPT ![f] = IF @.ref > 1 THEN [@ EXCEPT !.ref = @ - 1]
                   ELSE [ref |-> 0, ip |-> 0, off |-> 0]]
Unreferred(s, t, f) == IF t[f].ref > 1 THEN s ELSE iput(s, t[f].ip)

SysClose(p, d) ==
  LET f == argfd(p, d)
  IN  /\ pc[p] = "user" /\ f # 0
      /\ ofile' = [ofile EXCEPT ![p][d] = 0]
      /\ file' = Closed(file, f)
      /\ fs' = Unreferred(fs, file, f)
      /\ UNCHANGED <<cwd, calls>>

\* The part of fork() that copies descriptors and cwd.
Fork(p, q) ==
  LET fds(f) == Cardinality({d \in FDs : ofile[p][d] = f})
  IN  /\ pc[p] = "user" /\ cwd[p] # 0 /\ cwd[q] = 0
      /\ ofile' = [ofile EXCEPT ![q] = ofile[p]]
      /\ file' = [f \in Files |-> [file[f] EXCEPT !.ref = @ + fds(f)]]
      /\ fs' = iget(fs, cwd[p])
      /\ cwd' = [cwd EXCEPT ![q] = cwd[p]]
      /\ UNCHANGED calls

\* init runs a shell again when the last one is gone.
InitForks(q) ==
  /\ \A p \in Procs : cwd[p] = 0
  /\ fs' = iget(fs, Root)
  /\ cwd' = [cwd EXCEPT ![q] = Root]
  /\ UNCHANGED <<file, ofile, calls>>

\* The part of exit() that closes the descriptors and puts the cwd.
Exit(p) ==
  LET fds(f) == Cardinality({d \in FDs : ofile[p][d] = f})
      last == {f \in Files : file[f].ref > 0 /\ file[f].ref = fds(f)}
      closed == FoldSet(LAMBDA f, s : iput(s, file[f].ip), fs, last)
  IN  /\ pc[p] = "user" /\ cwd[p] # 0
      /\ ofile' = [ofile EXCEPT ![p] = [d \in FDs |-> 0]]
      /\ file' = [f \in Files |-> IF f \in last THEN [ref |-> 0, ip |-> 0, off |-> 0]
                                  ELSE [file[f] EXCEPT !.ref = @ - fds(f)]]
      /\ fs' = iput(closed, cwd[p])
      /\ cwd' = [cwd EXCEPT ![p] = 0]
      /\ UNCHANGED calls

\* balloc: the first free block.
balloc(s) == Min((1 .. NBLOCKS) \ s.used)
\* bmap: block bn of inode i is there, or is allocated (at the end: no holes).
bmap(s, i, bn) ==
  IF bn < Len(s.addrs[i]) THEN s
  ELSE [s EXCEPT !.addrs[i] = Append(@, balloc(s)), !.used = @ \cup {balloc(s)}]
\* What readi and writei admit at a block offset.
readi(i, off) == off < Len(fs.addrs[i])
writei(i, off) == fs.type[i] = "file" /\ off < MAXFILE

\* One transaction of filewrite: a block at f->off, appended or rewritten.
FileWrite(p, d) ==
  LET f == argfd(p, d)  i == file[f].ip
  IN  /\ pc[p] = "user" /\ f # 0 /\ Unlocked(i) /\ writei(i, file[f].off)
      /\ IF file[f].off = Len(fs.addrs[i]) /\ fs.used = 1 .. NBLOCKS
         THEN Return(p, "panic") /\ UNCHANGED <<fs, file>>
         ELSE /\ fs' = bmap(fs, i, file[f].off)
              /\ file' = [file EXCEPT ![f].off = @ + 1]
              /\ UNCHANGED pc
      /\ UNCHANGED <<ofile, cwd, cont, path, cur, ip>>

\* fileread: a block at f->off, up to the end of the file.
FileRead(p, d) ==
  LET f == argfd(p, d)
  IN  /\ pc[p] = "user" /\ f # 0 /\ Unlocked(file[f].ip) /\ readi(file[f].ip, file[f].off)
      /\ file' = [file EXCEPT ![f].off = @ + 1]
      /\ UNCHANGED <<fs, ofile, cwd, calls>>

\* panic() spins for ever, and freezes the other CPU.
Running == \A p \in Procs : pc[p] # "panic"
Halted == ~Running /\ UNCHANGED vars

PathCall(p) ==
  \E r \in Paths : \/ SysOpen(p, r) \/ SysCreate(p, r) \/ SysMkdir(p, r)
                   \/ SysUnlink(p, r) \/ SysChdir(p, r)
                   \/ SysLink(p, r)

FdCall(p) ==
  \/ \E d \in FDs : SysDup(p, d) \/ SysClose(p, d) \/ FileWrite(p, d) \/ FileRead(p, d)
  \/ \E q \in Procs : Fork(p, q)
  \/ Exit(p)

InCall(p) ==
  \/ NamexStep(p) \/ NamexFails(p)
  \/ OpenLocked(p) \/ CreateFinds(p) \/ MkdirExists(p) \/ CreateNew(p)
  \/ LinkInc(p) \/ LinkDir(p) \/ LinkBad(p)
  \/ UnlinkDir(p) \/ UnlinkIp(p) \/ ChdirLocked(p)

Next ==
  \/ Running /\ \E p \in Procs : PathCall(p) \/ FdCall(p) \/ InCall(p) \/ InitForks(p)
  \/ Halted

Spec == Init /\ [][Next]_vars

-----------------------------------------------------------------------------
(* Properties.                                                             *)

\* Every variable has its type.
FsTypeOK ==
  /\ fs.type \in [Inums -> {"free", "dir", "file"}]
  /\ fs.nlink \in [Inums -> Nat] /\ fs.ref \in [Inums -> Nat]
  /\ fs.dents \in [Inums -> [Names -> 0 .. NINODES]]
  /\ fs.dotdot \in [Inums -> 0 .. NINODES]
  /\ \A i \in Inums : Range(fs.addrs[i]) \subseteq 1 .. NBLOCKS /\ Len(fs.addrs[i]) <= MAXFILE
  /\ fs.used \subseteq 1 .. NBLOCKS
  /\ fs.busy \in [Inums -> Procs \cup {NoProc}] /\ fs.valid \subseteq Inums
  /\ file \in [Files -> [ref : Nat, ip : 0 .. NINODES, off : 0 .. MAXFILE]]
  /\ ofile \in [Procs -> [FDs -> 0 .. NFILE]]
  /\ {cwd, cur, ip} \subseteq [Procs -> 0 .. NINODES]

Dirs == {i \in Inums : fs.type[i] = "dir"}
EntriesOf(i) == {e \in Dirs \X Names : fs.dents[e[1]][e[2]] = i}
SubDirs(i) == {j \in Dirs \ {Root} : fs.dotdot[j] = i /\ j \in Range(fs.dents[i])}
Linking(i) == {p \in Procs : ip[p] = i /\ (pc[p] \in {"linkdir", "linkbad"} \/ cont[p] = "linkdir")}

\* The link count of an inode in use is the number of names it has: the
\* entries for it, the ".." of each linked subdirectory, and one for each
\* sys_link that has counted the entry it has yet to make or to give up.
\* The root has one more, from mkfs.
LinkCount ==
  \A i \in Inums : fs.type[i] # "free" =>
    fs.nlink[i] = Cardinality(EntriesOf(i)) + Cardinality(SubDirs(i))
                  + Cardinality(Linking(i)) + (IF i = Root THEN 1 ELSE 0)

\* The reference count of an icache entry is the number of C pointers to it
\* (iget, idup and iput balance on every path, the failing ones included), and
\* that of an open file the number of descriptors.  The root has init's cwd.
RefCount ==
  /\ \A i \in Inums :
       fs.ref[i] = Cardinality({p \in Procs : cwd[p] = i}) + Cardinality({p \in Procs : cur[p] = i})
                   + Cardinality({p \in Procs : ip[p] = i})
                   + Cardinality({f \in Files : file[f].ref > 0 /\ file[f].ip = i})
                   + (IF i = Root THEN 1 ELSE 0)
  /\ \A f \in Files : file[f].ref = Cardinality({e \in Procs \X FDs : ofile[e[1]][e[2]] = f})

\* No directory entry and no pointer of a process names a free inode: ilock
\* never meets "ilock: no type".
NoDangling ==
  \A i \in Inums : fs.type[i] = "free" => fs.ref[i] = 0 /\ EntriesOf(i) = {}

\* The bitmap marks exactly the blocks that inodes hold, and each has one owner.
BlocksOwned ==
  /\ fs.used = UNION {Range(fs.addrs[i]) : i \in Inums}
  /\ Cardinality(fs.used) = SumFunctionOnSet([i \in Inums |-> Len(fs.addrs[i])], Inums)

\* Directories form a tree: the root has no name, and another directory has
\* at most one, in the directory its ".." names.
DirTree ==
  /\ EntriesOf(Root) = {}
  /\ \A i \in Dirs : \A e \in EntriesOf(i) : e[1] = fs.dotdot[i] /\ EntriesOf(i) = {e}

\* Unlinks never wait for each other in a cycle, though each holds its
\* directory while it waits for the inode.
NoLockCycle ==
  LET Waits == [p, q \in Procs |-> pc[p] = "unlinkip" /\ fs.busy[ip[p]] = q]
  IN  \A p \in Procs : pc[p] = "unlinkip" => ~TransitiveClosure(Waits, Procs)[p, p]

\* A step that takes a directory's last name leaves it empty (isdirempty is
\* still true when the entry is removed), whatever others did meanwhile.
RemovedEmpty ==
  [][fs'.dents # fs.dents =>
       \A i \in Dirs : EntriesOf(i) # {} /\ EntriesOf(i)' = {} => fs'.dents[i] = NoEntries]_vars

\* "iput() frees if the link count has fallen to zero" (fs.c): an inode with
\* no links and no pointers to it is free.
FreedWhenUnused ==
  \A i \in Inums : fs.nlink[i] = 0 /\ fs.ref[i] = 0 => fs.type[i] = "free"

\* The names agree with the inodes: counted, naming nothing that is free, and
\* a tree, whatever calls are under way and on every path by which they fail.
NamesAgree == FsTypeOK /\ LinkCount /\ NoDangling /\ DirTree

\* What is held is counted: references by pointers and descriptors, blocks by
\* inodes, each block by one.
HoldersCounted == RefCount /\ BlocksOwned
=============================================================================
