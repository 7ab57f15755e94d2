------------------------------ MODULE FsCrash ------------------------------
(***************************************************************************)
(* The directory handlers of main.c against the image: each changes the    *)
(* globals (FsNames) and then writes regions of the image back, one pwrite *)
(* at a time and in the order of the code.  The process may be killed      *)
(* between any two writes; fs_init then loads bitmaps and inode table      *)
(* again.  A single pwrite is not torn and writes reach the image in       *)
(* order: what is modelled is a crash of the program, as by the assertions *)
(* of image.c, not of the machine.                                         *)
(*                                                                         *)
(* No handler changes a region again after it has written it for the last  *)
(* time, so that what a write takes to the image is what the handler       *)
(* leaves in memory (FsNames's next state).  `dirents` has no copy between *)
(* handlers: every handler reads its directory block from the image.       *)
(***************************************************************************)
EXTENDS FsNames

CONSTANT CrashCalls     \* the handlers that a crash may interrupt

Calls == {"mknod", "mkdir", "unlink", "rmdir", "rename", "write"}
ASSUME CrashAssumption == CrashCalls \subseteq Calls

VARIABLES disk,         \* the image: what FsNames's variables are on it
          pending,      \* the writes that the handler has not done yet
          call          \* the handler that runs, or ran last

memory    == vars
crashVars == <<memory, disk, pending, call>>

(* The memory copies, as the image would hold them.                        *)
InMemory == [inode_map |-> inode_map, block_map |-> block_map,
             inodes |-> inodes, dirents |-> dirents]

(* The regions that are written: as a whole, or one directory block.       *)
InodeMap    == <<"inode_map", 0>>
BlockMap    == <<"block_map", 0>>
InodeTable  == <<"inodes", 0>>
DirBlock(b) == <<"dirents", b>>
ParentBlock(dirs) == DirBlock(inodes[get_parent_inum(dirs)].direct0)

Regions == {InodeMap, BlockMap, InodeTable} \cup {DirBlock(b) : b \in DataBlocks}

CrashTypeOK ==
    /\ TypeOK
    /\ disk.inode_map \subseteq Inums /\ disk.block_map \subseteq Blocks
    /\ disk.inodes \in [Inums -> Inode]
    /\ disk.dirents \in [DataBlocks -> [Slots -> Dirent]]
    /\ pending \in Seq(Regions) /\ call \in Calls

CrashInit == Init /\ disk = InMemory /\ pending = <<>> /\ call = "mknod"

-----------------------------------------------------------------------------
(* What each handler writes, and in what order.                            *)

(* Mutants of MknodWrites: the parent is written before the bitmap; the    *)
(* inode bitmap is not written; the new block is not zeroed on the image.  *)
mut_mknod_parent_first(dirs, mode) == <<ParentBlock(dirs), InodeMap, InodeTable>>
mut_mknod_no_map(dirs, mode)       == <<InodeTable, ParentBlock(dirs)>>

(* A directory's block is marked and zeroed before its inode exists, and   *)
(* the inode exists before an entry leads to it.                           *)
MknodWrites(dirs, mode) ==
    (IF mode = "dir" THEN <<BlockMap, DirBlock(get_free_block(block_map))>> ELSE <<>>)
    \o <<InodeMap, InodeTable, ParentBlock(dirs)>>

(* Mutants of UnlinkWrites: the inode is freed before the entry is gone;   *)
(* the parent is not written.                                              *)
mut_unlink_no_parent(dirs, name) == <<BlockMap, InodeTable, InodeMap>>
mut_unlink_map_first(dirs, name) ==
    <<BlockMap, InodeTable, InodeMap, ParentBlock(dirs), InodeTable>>

(* The truncation writes bitmap and inodes.  The call ends there when no   *)
(* entry of a file is found.                                               *)
UnlinkWrites(dirs, name) ==
    LET p == get_parent_inum(dirs)
        found == UnlinkSlots(p, name)
    IN  <<BlockMap, InodeTable>>
        \o (IF found = {} \/ Entries(p)[Min(found)].isDir THEN <<>>
            ELSE <<ParentBlock(dirs), InodeTable, InodeMap>>)

RmdirWrites(dirs, name) ==
    <<BlockMap>>
    \o (IF SlotsOfInode(get_parent_inum(dirs), translate_path_to_inum(dirs, name)) = {}
        THEN <<>> ELSE <<InodeMap>>)
    \o <<ParentBlock(dirs), InodeTable>>

RenameWrites(dirs) == <<InodeTable, ParentBlock(dirs)>>

(* fs_write writes the block bitmap for each block it takes; fs_truncate   *)
(* once.                                                                   *)
DataWrites == <<BlockMap>>

-----------------------------------------------------------------------------
(* A handler changes memory and starts to write.                           *)
Begin(c, writes) ==
    /\ pending = <<>>
    /\ pending' = writes /\ call' = c /\ UNCHANGED disk

mknod(dirs, name) ==
    \E mode \in NodeModes :
        fs_mknod(dirs, name, mode) /\ Begin("mknod", MknodWrites(dirs, mode))
mkdir(dirs, name)  == fs_mkdir(dirs, name) /\ Begin("mkdir", MknodWrites(dirs, "dir"))
unlink(dirs, name) == fs_unlink(dirs, name) /\ Begin("unlink", UnlinkWrites(dirs, name))
rmdir(dirs, name)  == fs_rmdir(dirs, name) /\ Begin("rmdir", RmdirWrites(dirs, name))
rename(dirs, name, dstName) ==
    fs_rename(dirs, name, dirs, dstName) /\ Begin("rename", RenameWrites(dirs))
write == FileData /\ Begin("write", DataWrites)

(* The next write of the handler.                                          *)
Written(w) ==
    CASE w = InodeMap   -> [disk EXCEPT !.inode_map = inode_map]
      [] w = BlockMap   -> [disk EXCEPT !.block_map = block_map]
      [] w = InodeTable -> [disk EXCEPT !.inodes = inodes]
      [] OTHER          -> [disk EXCEPT !.dirents[w[2]] = dirents[w[2]]]

WriteBack ==
    /\ pending # <<>>
    /\ disk' = Written(Head(pending))
    /\ pending' = Tail(pending)
    /\ UNCHANGED <<memory, call>>

MayEnd == pending = <<>> \/ call \in CrashCalls

(* The process ends, in the middle of a handler or between two, and        *)
(* fs_init loads the image.                                                *)
fs_init ==
    /\ MayEnd
    /\ inode_map' = disk.inode_map /\ block_map' = disk.block_map
    /\ inodes' = disk.inodes /\ dirents' = disk.dirents
    /\ pending' = <<>>
    /\ UNCHANGED <<disk, call>>

CrashNext ==
    \/ \E dirs \in PathDirs, name \in PathNames :
          \/ mknod(dirs, name) \/ mkdir(dirs, name)
          \/ unlink(dirs, name) \/ rmdir(dirs, name)
          \/ \E dstName \in PathNames : rename(dirs, name, dstName)
    \/ write
    \/ WriteBack
    \/ fs_init

CrashSpec == CrashInit /\ [][CrashNext]_crashVars

-----------------------------------------------------------------------------
(* Correctness.  The image, which is what a crash leaves behind.           *)
Image == INSTANCE ReadImg WITH inode_map <- disk.inode_map, block_map <- disk.block_map,
                               inodes <- disk.inodes, dirents <- disk.dirents

(* The image is consistent wherever the process may end, up to inodes and  *)
(* blocks that are lost: entries lead to allocated inodes, one entry to    *)
(* each, directories own their blocks and are within reach of the root if  *)
(* they hold anything.  So it is after any number of crashes, in handlers  *)
(* other than rmdir.                                                       *)
ImageSound ==
    MayEnd =>
    /\ Image!RefsLive /\ Image!RefsUnique
    /\ Image!DirBlocksOwned /\ Image!StaleAfterValid /\ Image!Attached

(* read-img, run on the image a crash left, prints no "***ERROR***".       *)
ReadImgSilent == MayEnd => Image!Errors = {}

(* Each handler takes effect on the image in a single write, that of the   *)
(* parent directory: crashed or not, the links on the image change as in   *)
(* the tree of links, by one link per call.                                *)
CrashAtomic == Image!ImplementsTree

(* Between calls the image has everything that is in memory, so that a     *)
(* restart that interrupts no handler forgets nothing.                     *)
WriteThrough == pending = <<>> => disk = InMemory

=============================================================================
