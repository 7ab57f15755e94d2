------------------------------- MODULE FsFile -------------------------------
(***************************************************************************)
(* The file-data half of main.c: fs_write, fs_read, fs_truncate and the    *)
(* truncation in fs_unlink, over direct, indirect and double indirect      *)
(* blocks.  fs_write is one action per iteration of its loops, each of     *)
(* which writes the inode and the block back; the other handlers are one   *)
(* action each.  Handlers run one at a time, on files named directly (path *)
(* translation is in FsNames).                                             *)
(*                                                                         *)
(* The unit of data is the 4-byte word, so that a block holds              *)
(* ADDR_PER_BLOCK words whether it is read as data or as block numbers.    *)
(* Data is text: a word of it, read as a number, is no block of the image. *)
(***************************************************************************)
EXTENDS FsAlloc, Sequences

CONSTANTS N_DIRECT,         \* direct pointers of an inode: 6
          ADDR_PER_BLOCK,   \* words in a block: 256
          Files,            \* the files, numbered from 0
          Calls,            \* what clients do besides appending to files
          MaxLen,           \* bound on the words a client writes at a time
          MaxSize           \* bound on the size of a file, in words

ASSUME FileAssumption ==
    /\ N_DIRECT \in Nat \ {0} /\ ADDR_PER_BLOCK \in Nat \ {0}
    /\ Files \subseteq Nat /\ MaxLen \in Nat /\ MaxSize \in Nat
    /\ Calls \subseteq {"overwrite", "truncate", "truncate_direct", "unlink"}

VARIABLES block_map,    \* allocated blocks
          inodes,       \* the pointers and the size in each file's inode
          blocks,       \* the words of every block of the image
          files,        \* the files that exist
          wr            \* the fs_write under way: its local variables

vars == <<block_map, inodes, blocks, files, wr>>

INDIRECT_BOUND       == N_DIRECT + ADDR_PER_BLOCK
SIZE_DOUBLE_INDIRECT == INDIRECT_BOUND + ADDR_PER_BLOCK * ADDR_PER_BLOCK

Words      == 0 .. ADDR_PER_BLOCK - 1
ZeroBlock  == [w \in Words |-> 0]
ZeroInode  == [direct |-> [k \in 0 .. N_DIRECT - 1 |-> 0], indir_1 |-> 0,
               indir_2 |-> 0, size |-> 0]

(* The word at position pos of file f; no block has this number.           *)
Data(f, pos) == max_num_blocks + 1 + f * MaxSize + pos

(* Block 0, read as block numbers: the magic number and the number of      *)
(* blocks are no block of the image, the sizes in between are small ones.  *)
Superblock == [w \in Words |-> CASE w \in {0, 4}       -> max_num_blocks
                                 [] w \in {1, 2, 3, 5} -> 1
                                 [] OTHER              -> 0]

(* f, len, offset, i, j: the arguments and loop counters of fs_write;      *)
(* total: total_bytes_written; pos: the position the call was given.       *)
Idle == [stage |-> "idle", f |-> 0, len |-> 0, offset |-> 0, i |-> 0, j |-> 0,
         total |-> 0, pos |-> 0]

Stages == {"idle", "direct", "table1", "level1", "table2", "outer", "inner",
           "cleanup", "abort"}

Inode     == [direct  : [0 .. N_DIRECT - 1 -> Blocks],
              indir_1 : Blocks, indir_2 : Blocks, size : 0 .. MaxSize]
WriteCall == [stage : Stages, f : Nat, len : 0 .. MaxLen, offset : 0 .. MaxSize,
              i : 0 .. ADDR_PER_BLOCK + N_DIRECT, j : Words,
              total : {-ENOSPC} \cup 0 .. MaxLen, pos : 0 .. MaxSize]

TypeOK ==
    /\ block_map \subseteq Blocks /\ Metadata \subseteq block_map
    /\ inodes \in [Files -> Inode]
    /\ blocks \in [Blocks -> [Words -> Nat]]
    /\ files \subseteq Files
    /\ wr \in WriteCall

Init ==
    /\ block_map = Metadata \cup {start_block}
    /\ inodes = [f \in Files |-> ZeroInode]
    /\ blocks = [b \in Blocks |-> IF b = 0 THEN Superblock ELSE ZeroBlock]
    /\ files = Files
    /\ wr = Idle

-----------------------------------------------------------------------------
(* One step of a loop of fs_write, at the block a pointer leads to: a new  *)
(* and zeroed one when the pointer is 0, which is then filled from its     *)
(* start, or else the old one, from the offset within it.                  *)

Target(ptr) == IF ptr = 0 THEN get_free_block(block_map) ELSE ptr

(* Mutant of Start: an old block is filled from its start too.             *)
mut_start(ptr) == 0

Start(ptr)  == IF ptr = 0 THEN 0 ELSE wr.offset % ADDR_PER_BLOCK
Chunk(ptr)  == Min({wr.len, ADDR_PER_BLOCK - Start(ptr)})

Filled(ptr) ==
    [w \in Words |->
        IF Start(ptr) <= w /\ w < Start(ptr) + Chunk(ptr)
        THEN Data(wr.f, wr.pos + wr.total + w - Start(ptr))
        ELSE IF ptr = 0 THEN 0 ELSE blocks[ptr][w]]

(* Mutant of Alloc: get_free_block does not mark the block.                *)
mut_alloc(ptr) == block_map

Alloc(ptr) == IF ptr = 0 THEN block_map \cup {get_free_block(block_map)} ELSE block_map

(* The image layer asserts that every block read or written is in range.   *)
Abort(ptr) ==
    /\ ptr \notin Blocks
    /\ wr' = [wr EXCEPT !.stage = "abort"]
    /\ UNCHANGED <<block_map, inodes, blocks, files>>

(* Mutant of NoSpace: the call waits for space.                            *)
mut_nospace(ptr) ==
    ptr = 0 /\ get_free_block(block_map) = -ENOSPC /\ UNCHANGED vars

NoSpace(ptr) ==
    /\ ptr = 0 /\ get_free_block(block_map) = -ENOSPC
    /\ wr' = [wr EXCEPT !.stage = "cleanup", !.total = -ENOSPC]
    /\ UNCHANGED <<block_map, inodes, blocks, files>>

Usable(ptr) == ptr \in Blocks /\ (ptr = 0 => get_free_block(block_map) # -ENOSPC)

(* Mutant of Filling: len does not count down.                             *)
mut_filling(ptr) == [wr EXCEPT !.total = @ + Chunk(ptr)]

(* The locals after the block is filled, and where the loop goes next: to  *)
(* `next` when data is left.  The first two loops forget the offset once   *)
(* they filled a block from its start, the third does not.                 *)
Filling(ptr) == [wr EXCEPT !.len = @ - Chunk(ptr), !.total = @ + Chunk(ptr)]
Onward(ptr, next) ==
    IF Filling(ptr).len = 0 THEN [Filling(ptr) EXCEPT !.stage = "cleanup"] ELSE next
Reset(w, ptr) == IF Start(ptr) = 0 THEN [w EXCEPT !.offset = 0] ELSE w

(* Falling through from one loop into the next.                            *)
ToLevel1(w) == [w EXCEPT !.stage = "table1", !.i = 0, !.offset = 0]
ToLevel2(w) == [w EXCEPT !.stage = "table2", !.i = 0, !.j = 0, !.offset = 0]

-----------------------------------------------------------------------------
(* The entry of fs_write chooses a loop by the block of the offset; past   *)
(* the last block it falls into the first loop, which at once ends.        *)
fs_write(f, len, offset) ==
    LET n == offset \div ADDR_PER_BLOCK
        m == n - INDIRECT_BOUND
        w == [Idle EXCEPT !.f = f, !.len = len, !.offset = offset, !.pos = offset]
    IN  /\ wr.stage = "idle" /\ f \in files
        /\ offset <= inodes[f].size
        /\ wr' = CASE n < N_DIRECT -> [w EXCEPT !.stage = "direct", !.i = n]
                   [] n \in N_DIRECT .. INDIRECT_BOUND - 1
                        -> [w EXCEPT !.stage = "table1", !.i = n - N_DIRECT]
                   [] n \in INDIRECT_BOUND .. SIZE_DOUBLE_INDIRECT - 1
                        -> [w EXCEPT !.stage = "table2", !.i = m \div ADDR_PER_BLOCK,
                                                         !.j = m % ADDR_PER_BLOCK]
                   [] OTHER -> ToLevel1(w)
        /\ UNCHANGED <<block_map, inodes, blocks, files>>

write_direct ==
    LET f    == wr.f
        ptr  == inodes[f].direct[wr.i]
        next == Reset(Filling(ptr), ptr)
    IN  /\ wr.stage = "direct"
        /\ \/ NoSpace(ptr)
           \/ /\ Usable(ptr)
              /\ block_map' = Alloc(ptr)
              /\ inodes' = [inodes EXCEPT ![f].direct[wr.i] = Target(ptr),
                                          ![f].size = @ + Chunk(ptr)]
              /\ blocks' = [blocks EXCEPT ![Target(ptr)] = Filled(ptr)]
              /\ wr' = Onward(ptr, IF wr.i + 1 < N_DIRECT THEN [next EXCEPT !.i = @ + 1]
                                   ELSE ToLevel1(next))
              /\ UNCHANGED files

(* Mutants of write_table1: the inode is not written back; the new table   *)
(* is not zeroed.                                                          *)
mut_table1_lost ==
    LET ptr == inodes[wr.f].indir_1
    IN  /\ wr.stage = "table1"
        /\ \/ NoSpace(ptr)
           \/ /\ Usable(ptr)
              /\ block_map' = Alloc(ptr)
              /\ wr' = [wr EXCEPT !.stage = "level1"]
              /\ UNCHANGED <<inodes, blocks, files>>
mut_table1_dirty ==
    LET ptr == inodes[wr.f].indir_1
    IN  /\ wr.stage = "table1"
        /\ \/ NoSpace(ptr)
           \/ /\ Usable(ptr)
              /\ block_map' = Alloc(ptr)
              /\ inodes' = [inodes EXCEPT ![wr.f].indir_1 = Target(ptr)]
              /\ wr' = [wr EXCEPT !.stage = "level1"]
              /\ UNCHANGED <<blocks, files>>

(* The table of the first level is allocated, and zeroed, on first use.    *)
write_table1 ==
    LET ptr == inodes[wr.f].indir_1
    IN  /\ wr.stage = "table1"
        /\ \/ NoSpace(ptr)
           \/ /\ Usable(ptr)
              /\ block_map' = Alloc(ptr)
              /\ inodes' = [inodes EXCEPT ![wr.f].indir_1 = Target(ptr)]
              /\ blocks' = IF ptr = 0 THEN [blocks EXCEPT ![Target(ptr)] = ZeroBlock]
                                      ELSE blocks
              /\ wr' = [wr EXCEPT !.stage = "level1"]
              /\ UNCHANGED files

(* The table is written back before the block it now points to.  The loop  *)
(* works on a copy of the table, which is the one on disk as long as no    *)
(* block is in two places (NoSharing).                                     *)
write_level1 ==
    LET f     == wr.f
        table == inodes[f].indir_1
        ptr   == blocks[table][wr.i]
        next  == Reset(Filling(ptr), ptr)
    IN  /\ wr.stage = "level1"
        /\ \/ NoSpace(ptr)
           \/ Abort(ptr)
           \/ /\ Usable(ptr)
              /\ block_map' = Alloc(ptr)
              /\ inodes' = [inodes EXCEPT ![f].size = @ + Chunk(ptr)]
              /\ blocks' = [blocks EXCEPT ![table][wr.i] = Target(ptr),
                                          ![Target(ptr)] = Filled(ptr)]
              /\ wr' = Onward(ptr, IF wr.i + 1 < ADDR_PER_BLOCK THEN [next EXCEPT !.i = @ + 1]
                                   ELSE ToLevel2(next))
              /\ UNCHANGED files

write_table2 ==
    LET ptr == inodes[wr.f].indir_2
    IN  /\ wr.stage = "table2"
        /\ \/ NoSpace(ptr)
           \/ /\ Usable(ptr)
              /\ block_map' = Alloc(ptr)
              /\ inodes' = [inodes EXCEPT ![wr.f].indir_2 = Target(ptr)]
              /\ blocks' = IF ptr = 0 THEN [blocks EXCEPT ![Target(ptr)] = ZeroBlock]
                                      ELSE blocks
              /\ wr' = [wr EXCEPT !.stage = "outer"]
              /\ UNCHANGED files

(* An inner table is allocated on first use; the zeros stay in memory, so  *)
(* that what the block held before is then read as block numbers.          *)
write_outer ==
    LET table == inodes[wr.f].indir_2
        ptr   == blocks[table][wr.i]
    IN  /\ wr.stage = "outer"
        /\ \/ NoSpace(ptr)
           \/ Abort(ptr)
           \/ /\ Usable(ptr)
              /\ block_map' = Alloc(ptr)
              /\ blocks' = [blocks EXCEPT ![table][wr.i] = Target(ptr)]
              /\ wr' = [wr EXCEPT !.stage = "inner"]
              /\ UNCHANGED <<inodes, files>>

(* The block is written before the inner table that points to it.  After   *)
(* the last entry of the last table the call ends with data left.          *)
write_inner ==
    LET f     == wr.f
        table == blocks[inodes[f].indir_2][wr.i]
        ptr   == blocks[table][wr.j]
        next  == Filling(ptr)
    IN  /\ wr.stage = "inner"
        /\ \/ NoSpace(ptr)
           \/ Abort(ptr)
           \/ /\ Usable(ptr)
              /\ block_map' = Alloc(ptr)
              /\ inodes' = [inodes EXCEPT ![f].size = @ + Chunk(ptr)]
              /\ blocks' = [blocks EXCEPT ![Target(ptr)] = Filled(ptr),
                                          ![table] = [blocks[table] EXCEPT ![wr.j] = Target(ptr)]]
              /\ wr' = Onward(ptr, IF wr.j + 1 < ADDR_PER_BLOCK THEN [next EXCEPT !.j = @ + 1]
                                   ELSE IF wr.i + 1 < ADDR_PER_BLOCK
                                   THEN [next EXCEPT !.stage = "outer", !.i = @ + 1, !.j = 0]
                                   ELSE [next EXCEPT !.stage = "cleanup"])
              /\ UNCHANGED files

(* cleanup: the call returns wr.total.                                     *)
write_return ==
    /\ wr.stage = "cleanup"
    /\ wr' = Idle
    /\ UNCHANGED <<block_map, inodes, blocks, files>>

WriteStep == \/ write_direct \/ write_table1 \/ write_level1 \/ write_table2
             \/ write_outer \/ write_inner \/ write_return

-----------------------------------------------------------------------------
(* fs_truncate.  A table is followed up to its first 0, the table of inner *)
(* tables up to its first entry outside the data region.                   *)
Prefix(t, least) == {t[k] : k \in {m \in DOMAIN t : \A l \in 0 .. m : t[l] >= least}}
Table(b) == IF b >= start_block THEN blocks[b] ELSE ZeroBlock

(* What it frees: the blocks both levels of tables point to and the inner  *)
(* tables.  The tables the inode points to are not freed, and a direct     *)
(* pointer is cleared before free_a_block is called with it.               *)
Freed(inode) ==
    LET outer == Prefix(Table(inode.indir_2), start_block) \cap Blocks
    IN  {0} \cup outer \cup UNION {Prefix(Table(b), 1) : b \in {inode.indir_1} \cup outer}

(* The direct pointers up to the first 0 are cleared, and the size; the    *)
(* pointers to tables stay.                                                *)
Truncated(inode) ==
    [inode EXCEPT !.size = 0,
                  !.direct = [k \in DOMAIN @ |-> IF \A l \in 0 .. k : @[l] # 0 THEN 0 ELSE @[k]]]

truncate(f) ==
    /\ wr.stage = "idle" /\ f \in files
    /\ block_map' = {b \in block_map :
                       \A c \in Freed(inodes[f]) : b \in free_a_block(block_map, c)}
    /\ inodes' = [inodes EXCEPT ![f] = Truncated(@)]
    /\ UNCHANGED <<blocks, wr>>

fs_truncate(f) == truncate(f) /\ UNCHANGED files
fs_unlink(f)   == truncate(f) /\ files' = files \ {f}

(* The files clients truncate: any, or only those without tables.          *)
Truncatable ==
    {f \in Files : \/ "truncate" \in Calls
                   \/ "truncate_direct" \in Calls /\ inodes[f].indir_1 = 0}

(* The files clients remove and create again.                              *)
Removable == {f \in Files : "unlink" \in Calls}

(* Mutant of fs_mknod: the pointers in the inode stay.                     *)
mut_mknod(f) ==
    /\ wr.stage = "idle" /\ f \in Files \ files
    /\ files' = files \cup {f}
    /\ UNCHANGED <<block_map, inodes, blocks, wr>>

(* fs_mknod zeroes the pointers of the inode it takes.                     *)
fs_mknod(f) ==
    /\ wr.stage = "idle" /\ f \in Files \ files
    /\ files' = files \cup {f}
    /\ inodes' = [inodes EXCEPT ![f] = ZeroInode]
    /\ UNCHANGED <<block_map, blocks, wr>>

(* Clients append to files, and overwrite them if they do.                 *)
Write ==
    \E f \in files, len \in 1 .. MaxLen :
        /\ inodes[f].size + len <= MaxSize
        /\ \/ fs_write(f, len, inodes[f].size)
           \/ /\ "overwrite" \in Calls
              /\ \E offset \in 0 .. inodes[f].size - 1 : fs_write(f, len, offset)

Next ==
    \/ Write
    \/ WriteStep
    \/ \E f \in Truncatable : fs_truncate(f)
    \/ \E f \in Removable : fs_unlink(f) \/ fs_mknod(f)

(* A handler that was entered runs on: its loops wait for nothing.         *)
Spec == Init /\ [][Next]_vars /\ WF_vars(WriteStep)

-----------------------------------------------------------------------------
(* fs_read.  The pointers on the way to block k of a file, the last of     *)
(* which is the block; a pointer of 0 leads to block 0.                    *)
WordOf(b, w) == IF b \in Blocks THEN blocks[b][w] ELSE 0

Way(inode, k) ==
    LET m     == k - INDIRECT_BOUND
        inner == WordOf(inode.indir_2, m \div ADDR_PER_BLOCK)
    IN  CASE k < N_DIRECT -> <<inode.direct[k]>>
          [] k \in N_DIRECT .. INDIRECT_BOUND - 1
               -> <<inode.indir_1, WordOf(inode.indir_1, k - N_DIRECT)>>
          [] OTHER -> <<inode.indir_2, inner, WordOf(inner, m % ADDR_PER_BLOCK)>>

BlockOf(inode, k) == LET way == Way(inode, k) IN way[Len(way)]

(* Mutants of ReadEnd: the read goes to the end of the file; the size of   *)
(* the file is not looked at.                                              *)
mut_read_end(f, len, offset) ==
    IF offset < inodes[f].size THEN inodes[f].size ELSE offset
mut_read_size(f, len, offset) == offset + len

(* Where a read of len words at offset ends.  The copy loop notices the    *)
(* end when it is at the next word, so that a read that ends with a block  *)
(* goes on to the block after it.                                          *)
ReadEnd(f, len, offset) ==
    IF offset < inodes[f].size THEN Min({inodes[f].size, offset + len}) ELSE offset

(* The blocks of the file it goes through.                                 *)
ReadBlocks(f, len, offset) ==
    {k \in 0 .. SIZE_DOUBLE_INDIRECT - 1 :
        /\ offset \div ADDR_PER_BLOCK <= k
        /\ k <= ReadEnd(f, len, offset) \div ADDR_PER_BLOCK}

read_aborts(f, len, offset) ==
    \E k \in ReadBlocks(f, len, offset) :
        LET way == Way(inodes[f], k) IN \E n \in DOMAIN way : way[n] \notin Blocks

fs_read(f, len, offset) ==
    [n \in 1 .. ReadEnd(f, len, offset) - offset |->
        LET pos == offset + n - 1
        IN  WordOf(BlockOf(inodes[f], pos \div ADDR_PER_BLOCK), pos % ADDR_PER_BLOCK)]

-----------------------------------------------------------------------------
(* Correctness.  Every use a file makes of a block: through which pointer, *)
(* and which block it is.                                                  *)
Uses ==
    UNION {LET inode == inodes[f]
               outer == {k \in Words : inode.indir_2 # 0 /\ blocks[inode.indir_2][k] # 0}
           IN  {u \in {<<f, "direct", k, 0, inode.direct[k]>> : k \in 0 .. N_DIRECT - 1}
                      \cup {<<f, "indir_1", 0, 0, inode.indir_1>>,
                            <<f, "indir_2", 0, 0, inode.indir_2>>}
                      \cup {<<f, "level1", k, 0, blocks[inode.indir_1][k]>> :
                               k \in {w \in Words : inode.indir_1 # 0}}
                      \cup {<<f, "outer", k, 0, blocks[inode.indir_2][k]>> : k \in outer}
                      \cup {<<f, "inner", k, l, WordOf(blocks[inode.indir_2][k], l)>> :
                               k \in outer, l \in Words} : u[5] # 0}
           : f \in files}

(* No block is in two places: no two pointers of any files, tables         *)
(* included, lead to the same block.                                       *)
NoSharing == \A u, v \in Uses : u[5] = v[5] => u = v

(* Every block a file points to is a marked block of the data region other *)
(* than the root directory's, so that no later allocation returns it:      *)
(* where it fails read-img prints "block %d marked free".                  *)
MappedAllocated == \A u \in Uses : u[5] \in (DataBlocks \cap block_map) \ {start_block}

(* A write loses nothing either, even when it runs out of space between    *)
(* two blocks: the marked blocks that no file uses, such as those that     *)
(* truncation forgets, are the same after each of its steps.               *)
Lost   == block_map \ {u[5] : u \in Uses}
NoLeak == [][wr.stage # "idle" => Lost' = Lost]_vars

(* The contents of the files, as the pointers lead to them.                *)
Contents == [f \in Files |->
                IF f \in files THEN fs_read(f, inodes[f].size, 0) ELSE <<>>]

Store == INSTANCE FileStore WITH MaxWrite <- ADDR_PER_BLOCK, Word <- Data,
                                 content <- Contents

(* Each iteration of fs_write stores the next words of the call at their   *)
(* place in the file and disturbs no word of it or of another file;        *)
(* truncation empties one file.                                            *)
ImplementsStore == Store!Spec

(* The sizes of file at which the next block would need a new table.       *)
TableEdges ==
    {N_DIRECT * ADDR_PER_BLOCK}
    \cup {(INDIRECT_BOUND + k * ADDR_PER_BLOCK) * ADDR_PER_BLOCK : k \in Words}

(* fs_read returns what was written at the positions it is asked for, up   *)
(* to the end of the file, unless the file ends where a table would begin  *)
(* and the read reaches that end.                                          *)
ReadsBack ==
    wr.stage = "idle" =>
        \A f \in files : \A offset \in 0 .. inodes[f].size - 1, len \in 1 .. MaxLen :
            LET end == Min({offset + len, inodes[f].size})
            IN  ~(end = inodes[f].size /\ end \in TableEdges) =>
                   /\ ~read_aborts(f, len, offset)
                   /\ fs_read(f, len, offset) =
                         [n \in 1 .. end - offset |-> Data(f, offset + n - 1)]

(* A write never addresses a block outside the image, whatever the blocks  *)
(* it takes for tables held before.                                        *)
NoAbort == wr.stage # "abort"

(* The steps that the fs_write under way may still take: three for each    *)
(* word that is left, since no loop goes more than two steps to a next     *)
(* block without filling one, and those from where it is to a return.      *)
Rank(stage) ==
    CASE stage \in {"idle", "abort"}              -> 0
      [] stage = "cleanup"                        -> 1
      [] stage \in {"direct", "level1", "inner"}  -> 2
      [] stage \in {"table1", "outer"}            -> 3
      [] stage = "table2"                         -> 4

StepsLeft == 3 * wr.len + Rank(wr.stage)

(* Every step of fs_write brings it closer to its return, whatever the     *)
(* tables hold, however full the disk is and wherever the levels end.      *)
StepsRunOut == [][wr.stage # "idle" => StepsLeft' \in 0 .. StepsLeft - 1]_vars

(* Every fs_write returns.                                                 *)
WriteReturns == wr.stage # "idle" ~> wr.stage = "idle"

-----------------------------------------------------------------------------
(* What comments and assertions say and the code does not do.              *)

(* "return exactly the number of bytes requested": the image layer's       *)
(* assertion on block numbers holds for every read inside a file.          *)
ReadInRange ==
    wr.stage = "idle" =>
        \A f \in files : \A offset \in 0 .. inodes[f].size - 1, len \in 1 .. MaxLen :
            ~read_aborts(f, len, offset)

(* "creation of files with holes in them, but we don't": every position    *)
(* below a file's size is backed by a block.                               *)
NoHoles ==
    \A f \in files : \A pos \in 0 .. inodes[f].size - 1 :
        BlockOf(inodes[f], pos \div ADDR_PER_BLOCK) # 0

(* "you have to delete (i.e. truncate) all the data": when every file is   *)
(* unlinked the data region is free again.                                 *)
UnlinkFreesAll == files = {} => block_map = Metadata \cup {start_block}

(* "truncate file to exactly 'len' bytes": a file truncated and written    *)
(* again reads back as written.                                            *)
TruncateRewrite == ReadsBack

=============================================================================
