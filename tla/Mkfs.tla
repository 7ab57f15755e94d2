-------------------------------- MODULE Mkfs --------------------------------
(***************************************************************************)
(* The layout that mkfs-x6.c gives an image of n blocks and fs_init        *)
(* (main.c) reads back, and what it says of the assumptions that the other *)
(* modules make about an image: LayoutAssumption holds of every image that *)
(* mkfs makes, InodeScan <= NumInodes only of those with 196 blocks or     *)
(* more.                                                                   *)
(***************************************************************************)
EXTENDS Integers

FS_BLOCK_SIZE == 1024
BITS          == 8 * FS_BLOCK_SIZE      \* bits in a block of a bitmap
INODE_SIZE    == 64                     \* sizeof(struct fs_inode)
MAX_SCAN      == 64                     \* inodes that get_free_inode looks at

DIV_ROUND_UP(n, m) == (n + m - 1) \div m

(* The regions, in blocks.                                                 *)
n_map_blks(n)     == DIV_ROUND_UP(n, BITS)
n_inos(n)         == n \div 4
n_ino_map_blks(n) == DIV_ROUND_UP(n_inos(n), BITS)
n_ino_blks(n)     == DIV_ROUND_UP(n_inos(n) * INODE_SIZE, FS_BLOCK_SIZE)

(* Where they start; the root directory is the first block after them.     *)
inode_map_base    == 1
block_map_base(n) == inode_map_base + n_ino_map_blks(n)
inode_base(n)     == block_map_base(n) + n_map_blks(n)
rootdir_base(n)   == inode_base(n) + n_ino_blks(n)

(* The start_block that fs_init computes from the superblock.              *)
superblock(n)   == [inode_map_sz |-> n_ino_map_blks(n), block_map_sz |-> n_map_blks(n),
                    inode_region_sz |-> n_ino_blks(n), num_blocks |-> n]
fs_init_start(sb) == 1 + sb.inode_map_sz + sb.block_map_sz + sb.inode_region_sz

(* The inodes that the inode region has room for.                          *)
RoomForInodes(n) == n_ino_blks(n) * (FS_BLOCK_SIZE \div INODE_SIZE)

-----------------------------------------------------------------------------
(* What a layout has to be for the handlers.                               *)
LayoutGood(n) ==
    /\ fs_init_start(superblock(n)) = rootdir_base(n)
    /\ 4 <= rootdir_base(n) /\ rootdir_base(n) < n
MapsFit(n) ==
    /\ n <= n_map_blks(n) * BITS
    /\ n_inos(n) <= n_ino_map_blks(n) * BITS /\ n_inos(n) <= RoomForInodes(n)
ScanFits(n) == MAX_SCAN <= RoomForInodes(n)

=============================================================================
