------------------------------- MODULE MkTest -------------------------------
(***************************************************************************)
(* The image that mktest.c writes, as a second initial state for the       *)
(* handlers of FsNames.  Unlike an image of mkfs-x6 it holds an invalid    *)
(* entry that bears the inode number of a valid one.  Of its entries those *)
(* of file.A, dir1 and dir1/file.0 and that invalid one are kept, in the   *)
(* order of their slots.  Left out are the gaps between them, three more   *)
(* files, an invalid entry whose number no inode has, and the blocks of    *)
(* files, which FileData adds anywhere.                                    *)
(***************************************************************************)
EXTENDS ReadImg

CONSTANTS file_A, dir1, file_0      \* names

ASSUME TestAssumption ==
    /\ {file_A, dir1, file_0} \subseteq Seq(Nat)
    /\ 5 <= NumInodes /\ 3 <= MaxEntries /\ start_block + 1 < max_num_blocks

f1_inode == 2
d1_inode == 3
f3_inode == 4
root_blk == start_block
d1_blk   == start_block + 1

TestInodes ==
    [i \in Inums |-> CASE i = ROOT     -> [mode |-> "dir", direct0 |-> root_blk]
                       [] i = d1_inode -> [mode |-> "dir", direct0 |-> d1_blk]
                       [] i \in {f1_inode, f3_inode} -> [mode |-> "reg", direct0 |-> 0]
                       [] OTHER        -> ZeroInode]

(* Slot 1 is invalid and bears the number of file.A and the name of dir1.  *)
root_de ==
    [j \in Slots |->
        CASE j = 0 -> [valid |-> TRUE, isDir |-> FALSE, inode |-> f1_inode, name |-> file_A]
          [] j = 1 -> [valid |-> FALSE, isDir |-> TRUE, inode |-> f1_inode, name |-> dir1]
          [] j = 2 -> [valid |-> TRUE, isDir |-> TRUE, inode |-> d1_inode, name |-> dir1]
          [] OTHER -> ZeroDirent]

d1_de ==
    [j \in Slots |->
        IF j = 1 THEN [valid |-> TRUE, isDir |-> FALSE, inode |-> f3_inode, name |-> file_0]
        ELSE ZeroDirent]

TestInit ==
    /\ inode_map = {0, ROOT, f1_inode, d1_inode, f3_inode}
    /\ block_map = Metadata \cup {root_blk, d1_blk}
    /\ inodes = TestInodes
    /\ dirents = [b \in DataBlocks |-> CASE b = root_blk -> root_de
                                         [] b = d1_blk   -> d1_de
                                         [] OTHER        -> ZeroBlock]

(* The handlers on an image of either program.                             *)
ImageSpec == (Init \/ TestInit) /\ [][Next]_vars

=============================================================================
