-------------------------------- MODULE Mkfs --------------------------------
(***************************************************************************)
(* mkfs (mkfs.c): the file system image the kernel boots from, built file  *)
(* by file.  A block holds BSIZE units: a unit is <<f, k>>, the k-th unit  *)
(* of the file with inode f, or <<0, i>>, a directory entry for inode i;   *)
(* <<0, 0>> is what the zeroed image holds.                                *)
(***************************************************************************)
EXTENDS Integers, FiniteSets, Sequences

CONSTANTS
  NDIRECT, NINDIRECT, BSIZE, IPB, ninodes, BITBLOCKS,
  NFILES,     \* bound: files on mkfs's command line
  MaxUnits    \* bound: units of a file

ASSUME MkfsAssumption ==
  /\ {NDIRECT, NINDIRECT, BSIZE, IPB, BITBLOCKS} \subseteq Nat \ {0}
  /\ NFILES + 1 < ninodes

ROOTINO == 1
MAXFILE == NDIRECT + NINDIRECT
Inums == 1 .. NFILES + 1
MetaBlocks == ninodes \div IPB + 3 + BITBLOCKS
bitmapBlock == ninodes \div IPB + 3
i2b(inum) == inum \div IPB + 2
Blocks == 0 .. MetaBlocks + (NFILES + 1) * (MAXFILE + 1)   \* bound: the image
Hole == <<0, 0>>

VARIABLES
  img,     \* the image: per inode its size and addresses, the blocks of data
           \* and of addresses, and the counters freeblock, usedblocks, freeinode
  bits,    \* the bitmap, as the set of blocks it marks
  mkpc     \* "files", "done" or "assert"

mkfsVars == <<img, bits, mkpc>>

-----------------------------------------------------------------------------
(* iappend *)

Failed(m) == [m EXCEPT !.ok = FALSE]

\* freeblock++; usedblocks++
Alloc(m) == [m EXCEPT !.freeblock = @ + 1, !.usedblocks = @ + 1]

\* Mutant: the indirect block itself is not counted.
WithIndirectUncounted(m, inum) ==
  IF m.addrs[inum][NDIRECT] # 0 THEN m
  ELSE [m EXCEPT !.addrs[inum][NDIRECT] = m.freeblock, !.freeblock = @ + 1]

\* The inode has its indirect block.
WithIndirect(m, inum) ==
  IF m.addrs[inum][NDIRECT] # 0 THEN m
  ELSE Alloc([m EXCEPT !.addrs[inum][NDIRECT] = m.freeblock])

\* The inode has its block fbn.
WithBlock(m, inum, fbn) ==
  IF fbn < NDIRECT
  THEN IF m.addrs[inum][fbn] # 0 THEN m
       ELSE Alloc([m EXCEPT !.addrs[inum][fbn] = m.freeblock])
  ELSE LET n == WithIndirect(m, inum)
           ib == n.addrs[inum][NDIRECT]
       IN IF n.indirect[ib][fbn - NDIRECT] # 0 THEN n
          ELSE Alloc([n EXCEPT !.indirect[ib][fbn - NDIRECT] = n.freeblock])

BlockOf(m, inum, fbn) ==
  IF fbn < NDIRECT THEN m.addrs[inum][fbn]
  ELSE m.indirect[m.addrs[inum][NDIRECT]][fbn - NDIRECT]

\* The piece of p, n1 units, that goes into block fbn at offset off.
Piece(m, inum, fbn, off, p, n1) ==
  LET at == off - fbn * BSIZE IN
  [m EXCEPT !.data[BlockOf(m, inum, fbn)] = [j \in 0 .. BSIZE - 1 |->
      IF j \in at .. at + n1 - 1 THEN p[j - at + 1] ELSE @[j]],
    !.size[inum] = off + n1]

RECURSIVE iappend(_, _, _)
iappend(m, inum, p) ==
  LET off == m.size[inum]
      fbn == off \div BSIZE
      left == (fbn + 1) * BSIZE - off
      n1 == IF Len(p) < left THEN Len(p) ELSE left
  IN IF p = <<>> \/ ~m.ok THEN m
     ELSE IF fbn >= MAXFILE THEN Failed(m)
     ELSE iappend(Piece(WithBlock(m, inum, fbn), inum, fbn, off, p, n1),
                  inum, SubSeq(p, n1 + 1, Len(p)))

-----------------------------------------------------------------------------
(* main *)

Entry(inum) == <<<<0, inum>>>>

\* The zeroed image, with the root directory and its "." and "..".
Zeroed ==
  [size |-> [i \in Inums |-> 0], addrs |-> [i \in Inums |-> [k \in 0 .. NDIRECT |-> 0]],
   data |-> [b \in Blocks |-> [j \in 0 .. BSIZE - 1 |-> Hole]],
   indirect |-> [b \in Blocks |-> [k \in 0 .. NINDIRECT - 1 |-> 0]],
   freeblock |-> MetaBlocks, usedblocks |-> MetaBlocks, freeinode |-> ROOTINO + 1, ok |-> TRUE]

MkfsInit ==
  /\ img = iappend(iappend(Zeroed, ROOTINO, Entry(ROOTINO)), ROOTINO, Entry(ROOTINO))
  /\ bits = {}
  /\ mkpc = "files"

Go(m) == img' = m /\ mkpc' = IF m.ok THEN "files" ELSE "assert"

\* The next file: ialloc(T_FILE), and its entry in the root directory.
MkfsFile ==
  LET inum == img.freeinode IN
  /\ mkpc = "files" /\ inum <= NFILES + 1
  /\ Go(iappend([img EXCEPT !.freeinode = @ + 1], ROOTINO, Entry(inum)))
  /\ UNCHANGED bits

\* A read of the file gives cc units, which are appended.
MkfsRead(cc) ==
  LET inum == img.freeinode - 1
      off == img.size[inum]
  IN /\ mkpc = "files" /\ inum # ROOTINO /\ off + cc <= MaxUnits
     /\ Go(iappend(img, inum, [k \in 1 .. cc |-> <<inum, off + k - 1>>]))
     /\ UNCHANGED bits

\* The size of the root directory is rounded, and the bitmap written.
MkfsFinish ==
  /\ mkpc = "files"
  /\ img' = [img EXCEPT !.size[ROOTINO] = (@ \div BSIZE + 1) * BSIZE]
  /\ bits' = 0 .. img.usedblocks - 1
  /\ mkpc' = "done"

MkfsNext == MkfsFile \/ (\E cc \in 1 .. BSIZE : MkfsRead(cc)) \/ MkfsFinish

-----------------------------------------------------------------------------
(* Properties *)

\* The places of the image that name block b: <<"inode", i, k>> is address k of
\* inode i, <<"indirect", ib, k>> address k in the indirect block ib.
Holders(b) ==
  {<<"inode", i, k>> : <<i, k>> \in {x \in Inums \X (0 .. NDIRECT) : img.addrs[x[1]][x[2]] = b}}
  \cup
  {<<"indirect", ib, k>> :
     <<ib, k>> \in {x \in Blocks \X (0 .. NINDIRECT - 1) : img.indirect[x[1]][x[2]] = b}}

Unit(inum, k) == img.data[BlockOf(img, inum, k \div BSIZE)][k % BSIZE]

Entries == img.freeinode    \* ".", ".." and the files

\* The bitmap of a finished image marks the blocks of the layout and those that
\* an inode or an indirect block names, and no others; no block is named twice,
\* and no inode lies in the bitmap.
ImageConsistent ==
  mkpc = "done" =>
    /\ \A b \in Blocks \ {0} :
         /\ b \in bits <=> b < MetaBlocks \/ Holders(b) # {}
         /\ Cardinality(Holders(b)) <= 1
         /\ Holders(b) # {} => b >= MetaBlocks
    /\ \A i \in Inums : i2b(i) \in 2 .. bitmapBlock - 1

\* What a kernel reads from a finished image is what was put there: each file
\* unit by unit, one entry of the root directory for each file, and free entries
\* up to the directory's size.  When the entries fill their last block the size
\* mkfs stores is a block more than the directory has.
ImageReads ==
  mkpc = "done" =>
    /\ \A f \in 2 .. img.freeinode - 1 :
         /\ \A k \in 0 .. img.size[f] - 1 : Unit(f, k) = <<f, k>>
         /\ Cardinality({k \in 0 .. Entries - 1 : Unit(ROOTINO, k) = <<0, f>>}) = 1
    /\ Entries % BSIZE # 0 =>
         \A k \in Entries .. img.size[ROOTINO] - 1 :
           BlockOf(img, ROOTINO, k \div BSIZE) # 0 /\ Unit(ROOTINO, k) = Hole

\* The image is sound: its bitmap is exact and its files read back.
ImageSound == ImageConsistent /\ ImageReads
=============================================================================
