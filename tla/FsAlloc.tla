------------------------------ MODULE FsAlloc ------------------------------
(***************************************************************************)
(* The block bitmap of fsx600 and its allocator (main.c), shared by the    *)
(* directory module FsNames and the file-data module FsFile.  A bitmap is  *)
(* the set of its set bits.  Return codes are the C ones: an operation     *)
(* returns 0, a count or number, or a negated errno.                       *)
(***************************************************************************)
EXTENDS Integers, FiniteSetsExt

CONSTANTS start_block,     \* first block after the inode region: the root
                           \* directory, block 19 in a 1 MB image
          max_num_blocks   \* blocks in the image

(* Metadata (superblock, bitmaps, inodes) fills at least the four blocks   *)
(* that precede the data region, and mkfs puts the root directory in it:   *)
(* theorem MkfsLayout in AllocProofs.                                      *)
ASSUME LayoutAssumption ==
    /\ start_block \in Nat /\ max_num_blocks \in Nat
    /\ 4 <= start_block /\ start_block < max_num_blocks

Blocks     == 0 .. max_num_blocks - 1
DataBlocks == start_block .. max_num_blocks - 1
Metadata   == 0 .. start_block - 1

ENOENT    == 2
EEXIST    == 17
ENOTDIR   == 20
EISDIR    == 21
EINVAL    == 22
ENOSPC    == 28
ENOTEMPTY == 39

(* Mutants of get_free_block: the scan goes one block too far; the scan    *)
(* does not look at the bitmap.                                            *)
mut_free_block_bound(map) ==
    LET free == (start_block .. max_num_blocks) \ map
    IN  IF free = {} THEN -ENOSPC ELSE Min(free)
mut_free_block_blind(map) == start_block + 1

(* First free block of the data region.  The C function also sets its bit; *)
(* the callers here add the result to the map.                             *)
get_free_block(map) ==
    LET free == DataBlocks \ map
    IN  IF free = {} THEN -ENOSPC ELSE Min(free)

(* Metadata blocks, and the 0 of an unused pointer, are never freed.       *)
free_a_block(map, bit) == IF bit >= start_block THEN map \ {bit} ELSE map

=============================================================================
