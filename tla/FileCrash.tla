------------------------------ MODULE FileCrash ------------------------------
(***************************************************************************)
(* fs_write of main.c against the image.  Each iteration of its loops      *)
(* changes the globals and its own copies of a table and a block (FsFile)  *)
(* and writes them back one pwrite at a time, in the order of the code.    *)
(* The process may be killed between any two writes; fs_init then loads    *)
(* the bitmap and the inodes again.  As in FsCrash, writes reach the image *)
(* in order and are not torn.                                              *)
(*                                                                         *)
(* Files only grow here: a block that is taken was never used, and so is   *)
(* zero on the image.                                                      *)
(***************************************************************************)
EXTENDS FsFile

ASSUME FilesOnlyGrow == Calls \subseteq {"overwrite"}

VARIABLES disk,     \* the image: block bitmap, inodes and blocks
          pending,  \* the writes the iteration has not done yet
          chunk     \* the block of a file that it fills

memory    == vars
crashVars == <<memory, disk, pending, chunk>>

InMemory == [block_map |-> block_map, inodes |-> inodes, blocks |-> blocks]

BlockMap   == <<"block_map", 0>>
InodeTable == <<"inodes", 0>>
Block(b)   == <<"block", b>>
NoChunk    == <<-1, -1>>

CrashTypeOK ==
    /\ TypeOK
    /\ disk.block_map \subseteq Blocks
    /\ disk.blocks \in [Blocks -> [Words -> Nat]]
    /\ pending \in Seq({BlockMap, InodeTable} \cup {Block(b) : b \in Blocks})

CrashInit == Init /\ disk = InMemory /\ pending = <<>> /\ chunk = NoChunk

-----------------------------------------------------------------------------
(* What an iteration writes, and in what order, where the pointer it       *)
(* follows is ptr: a block that is taken is marked on the image before     *)
(* anything leads to it.                                                   *)
Marked(ptr) == IF ptr = 0 THEN <<BlockMap>> ELSE <<>>

(* Mutants of DirectWrites: the bitmap is written last; the inode is not   *)
(* written.                                                                *)
mut_direct_map_last(ptr) == <<InodeTable, Block(Target(ptr))>> \o Marked(ptr)
mut_direct_no_inode(ptr) == Marked(ptr) \o <<Block(Target(ptr))>>

DirectWrites(ptr) == Marked(ptr) \o <<InodeTable, Block(Target(ptr))>>

(* A new table: the inode leads to it before it is zeroed.                 *)
TableWrites(ptr) ==
    IF ptr = 0 THEN <<BlockMap, InodeTable, Block(Target(ptr))>> ELSE <<>>

(* Mutant of Level1Writes: the table is not written.                       *)
mut_level1_no_table(table, ptr) ==
    Marked(ptr) \o <<InodeTable, Block(Target(ptr))>>

Level1Writes(table, ptr) ==
    Marked(ptr) \o <<InodeTable, Block(table), Block(Target(ptr))>>

OuterWrites(table, ptr) == IF ptr = 0 THEN <<BlockMap, Block(table)>> ELSE <<>>

InnerWrites(table, ptr) ==
    Marked(ptr) \o <<InodeTable, Block(Target(ptr)), Block(table)>>

(* The writes of an iteration, and the block of the file it fills; it does *)
(* neither when it finds no block to work on.                              *)
Iteration(ptr, writes, k) ==
    /\ pending' = IF Usable(ptr) THEN writes ELSE <<>>
    /\ chunk' = IF k >= 0 THEN <<wr.f, k>> ELSE NoChunk

Begin ==
    LET inode == inodes[wr.f]
        outer == blocks[inode.indir_2][wr.i]
    IN  \/ /\ write_direct
           /\ Iteration(inode.direct[wr.i], DirectWrites(inode.direct[wr.i]), wr.i)
        \/ write_table1 /\ Iteration(inode.indir_1, TableWrites(inode.indir_1), -1)
        \/ /\ write_level1
           /\ LET ptr == blocks[inode.indir_1][wr.i]
              IN  Iteration(ptr, Level1Writes(inode.indir_1, ptr), N_DIRECT + wr.i)
        \/ write_table2 /\ Iteration(inode.indir_2, TableWrites(inode.indir_2), -1)
        \/ write_outer /\ Iteration(outer, OuterWrites(inode.indir_2, outer), -1)
        \/ /\ write_inner
           /\ LET ptr == blocks[outer][wr.j]
              IN  Iteration(ptr, InnerWrites(outer, ptr),
                            INDIRECT_BOUND + wr.i * ADDR_PER_BLOCK + wr.j)
        \/ write_return /\ pending' = <<>> /\ chunk' = NoChunk

Step == pending = <<>> /\ Begin /\ UNCHANGED disk

Call == pending = <<>> /\ Write /\ UNCHANGED <<disk, pending, chunk>>

(* The next write of the iteration.                                        *)
Written(w) ==
    CASE w = BlockMap   -> [disk EXCEPT !.block_map = block_map]
      [] w = InodeTable -> [disk EXCEPT !.inodes = inodes]
      [] OTHER          -> [disk EXCEPT !.blocks[w[2]] = blocks[w[2]]]

WriteBack ==
    /\ pending # <<>>
    /\ disk' = Written(Head(pending))
    /\ pending' = Tail(pending)
    /\ UNCHANGED <<memory, chunk>>

(* The process ends, in the middle of fs_write or between two calls, and   *)
(* fs_init loads the image; the blocks are read from it by every handler.  *)
fs_init ==
    /\ block_map' = disk.block_map /\ inodes' = disk.inodes /\ blocks' = disk.blocks
    /\ wr' = Idle /\ pending' = <<>> /\ chunk' = NoChunk
    /\ UNCHANGED <<files, disk>>

CrashNext == Call \/ Step \/ WriteBack \/ fs_init

CrashSpec == CrashInit /\ [][CrashNext]_crashVars

-----------------------------------------------------------------------------
(* Correctness.  The image, which is what a crash leaves behind.           *)
Image == INSTANCE FsFile WITH block_map <- disk.block_map, inodes <- disk.inodes,
                              blocks <- disk.blocks

(* Wherever fs_write is interrupted, and however often, the blocks that    *)
(* files lead to on the image are marked there and are in one place: the   *)
(* next allocation after the restart takes no block from a file.           *)
CrashKeepsBlocks == Image!MappedAllocated /\ Image!NoSharing

(* The word at a position of a file on the image and in memory, and        *)
(* whether the file has it: a crash may leave the end of a file without a  *)
(* block.                                                                  *)
OnDisk(f, pos) ==
    Image!WordOf(Image!BlockOf(disk.inodes[f], pos \div ADDR_PER_BLOCK), pos % ADDR_PER_BLOCK)
InFile(f, pos) ==
    WordOf(BlockOf(inodes[f], pos \div ADDR_PER_BLOCK), pos % ADDR_PER_BLOCK)
Stored(f, pos) ==
    LET way == Way(inodes[f], pos \div ADDR_PER_BLOCK) IN \A n \in DOMAIN way : way[n] # 0

(* A crash costs at most the block that the interrupted iteration fills:   *)
(* every other word of every file is on the image, whose size of the file  *)
(* is at most a block behind, and only that of the file that is written.   *)
(* Tables that are added, or written again, lose nothing.                  *)
LosesOneBlock ==
    \A f \in files :
        /\ inodes[f].size - disk.inodes[f].size
              \in 0 .. (IF chunk[1] = f THEN ADDR_PER_BLOCK ELSE 0)
        /\ \A pos \in 0 .. inodes[f].size - 1 :
              Stored(f, pos) /\ <<f, pos \div ADDR_PER_BLOCK>> # chunk
                 => OnDisk(f, pos) = InFile(f, pos)

(* When no write is left the image has all that is in memory: a call that  *)
(* returned is not forgotten.                                              *)
WriteThrough == pending = <<>> => disk = InMemory

=============================================================================
