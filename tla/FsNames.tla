------------------------------ MODULE FsNames ------------------------------
(***************************************************************************)
(* The directory half of main.c: path translation, the inode bitmap, and   *)
(* fs_mknod, fs_mkdir, fs_unlink, fs_rmdir and fs_rename, each handler one *)
(* action.  Handlers run one at a time here (the -cmdline front end, or    *)
(* FUSE with -s).  Op_errno is what the handler for Op returns before it   *)
(* changes anything; the action is enabled when that is 0, and a call that *)
(* returns an error is a stuttering step.                                  *)
(*                                                                         *)
(* A directory is one block of MaxEntries entries.  Permissions, owners    *)
(* and times are left out; `mode` keeps the file-type bits.  What the      *)
(* files hold is abstracted to its effect on the block bitmap (FileData,   *)
(* fs_unlink): file data may come and go in any block of the data region   *)
(* that no directory uses.  The code keeps to that for files of up to      *)
(* 6 + 256 blocks that are not truncated while they use an indirect block, *)
(* other than by fs_unlink; FsFile shows how it comes to free and          *)
(* overwrite blocks of others when they are.                               *)
(***************************************************************************)
EXTENDS FsAlloc, Sequences

CONSTANTS NumInodes,    \* inodes in the inode region
          InodeScan,    \* how many of them get_free_inode looks at: 64
          MaxEntries,   \* MAX_ENTRIES_DIR, entries in a directory block: 32
          PathNames,    \* the names that occur in paths, as sequences of
                        \* character codes
          PathDirs,     \* the directory parts of the paths: sequences of names
          NodeModes     \* the file types mknod is called with

ASSUME NamesAssumption ==
    /\ NumInodes \in Nat /\ InodeScan \in Nat /\ MaxEntries \in Nat
    /\ 2 <= InodeScan /\ InodeScan <= NumInodes
    /\ PathNames \subseteq Seq(Nat) \ {<<>>}
    /\ PathDirs \subseteq Seq(PathNames)
    /\ NodeModes \subseteq {"reg", "other"}

VARIABLES inode_map,    \* allocated inodes
          block_map,    \* allocated blocks
          inodes,       \* the inode table: file type, and direct[0] of a
                        \* directory (0 for other inodes)
          dirents       \* directory entries in each block of the data region

vars == <<inode_map, block_map, inodes, dirents>>

Inums == 0 .. NumInodes - 1
Slots == 0 .. MaxEntries - 1
ROOT  == 1

Modes  == {"none", "dir", "reg", "other"}
Inode  == [mode : Modes, direct0 : Blocks]
Dirent == [valid : BOOLEAN, isDir : BOOLEAN, inode : Inums, name : Seq(Nat)]

(* An all-zero inode, entry and directory block.                           *)
ZeroInode  == [mode |-> "none", direct0 |-> 0]
ZeroDirent == [valid |-> FALSE, isDir |-> FALSE, inode |-> 0, name |-> <<>>]
ZeroBlock  == [j \in Slots |-> ZeroDirent]

TypeOK ==
    /\ inode_map \subseteq Inums
    /\ block_map \subseteq Blocks
    /\ inodes \in [Inums -> Inode]
    /\ dirents \in [DataBlocks -> [Slots -> Dirent]]

-----------------------------------------------------------------------------
(* The image mkfs-x6 writes: inodes 0 and 1 taken, an empty root directory *)
(* in the first block of the data region.                                  *)
Init ==
    /\ inode_map = {0, ROOT}
    /\ block_map = Metadata \cup {start_block}
    /\ inodes = [i \in Inums |-> IF i = ROOT
                                 THEN [mode |-> "dir", direct0 |-> start_block]
                                 ELSE ZeroInode]
    /\ dirents = [b \in DataBlocks |-> ZeroBlock]

-----------------------------------------------------------------------------
(* Path translation.  A path is its directory part `dirs` and its last     *)
(* component `name`; the empty path "/" is no operation's argument.        *)

Entries(i) == dirents[inodes[i].direct0]

(* The entry a name leads to is the first valid one that bears it.         *)
Matches(i, name) == {j \in Slots : Entries(i)[j].valid /\ Entries(i)[j].name = name}
Found(i, name)   == Matches(i, name) # {}
Entry(i, name)   == Entries(i)[Min(Matches(i, name))]

(* The walk down the components of dirs.  It stops with ENOENT at one that *)
(* is missing and with ENOTDIR at one that is no directory, going by the   *)
(* isDir bit of its entry.                                                 *)
WalkStep(p, name) ==
    IF p < 0 THEN p
    ELSE IF ~Found(p, name) THEN -ENOENT
    ELSE IF ~Entry(p, name).isDir THEN -ENOTDIR
    ELSE Entry(p, name).inode

get_parent_inum(dirs) ==
    LET walk[k \in 0 .. Len(dirs)] ==
            IF k = 0 THEN ROOT ELSE WalkStep(walk[k-1], dirs[k])
    IN  walk[Len(dirs)]

translate_path_to_inum(dirs, name) ==
    LET p == get_parent_inum(dirs)
    IN  IF p < 0 THEN p
        ELSE IF Found(p, name) THEN Entry(p, name).inode ELSE -ENOENT

(* What fs_getattr and fs_readdir give a caller: the inode number and type *)
(* of each valid entry under its name.                                     *)
attrs(i) == [st_ino |-> i, st_mode |-> inodes[i].mode]

fs_getattr(dirs, name) == attrs(translate_path_to_inum(dirs, name))

fs_readdir(dirs) ==
    LET d == get_parent_inum(dirs)
    IN  {[name |-> Entries(d)[j].name, st |-> attrs(Entries(d)[j].inode)] :
            j \in {k \in Slots : Entries(d)[k].valid}}

-----------------------------------------------------------------------------
(* Mutants of get_free_inode: the scan goes one inode too far; the scan    *)
(* does not look at the bitmap.                                            *)
mut_free_inode_bound ==
    LET free == (0 .. InodeScan) \ inode_map
    IN  IF free = {} THEN -ENOSPC ELSE Min(free)
mut_free_inode_blind == ROOT + 1

(* The lowest inode that is not in the bitmap; the C function also sets    *)
(* its bit.                                                                *)
get_free_inode ==
    LET free == (0 .. InodeScan - 1) \ inode_map
    IN  IF free = {} THEN -ENOSPC ELSE Min(free)

FreeSlots(p) == {j \in Slots : ~Entries(p)[j].valid}

(* Mutant of FirstFree: new entries go into the last free slot.            *)
mut_last_free(p) == Max(FreeSlots(p))

FirstFree(p) == Min(FreeSlots(p))

(* Mutant of mknod_errno: no check for EEXIST.                             *)
mut_mknod_duplicate(dirs, name, mode) ==
    LET p == get_parent_inum(dirs)
    IN  IF p < 0 THEN p
        ELSE IF inodes[p].mode # "dir" THEN -ENOTDIR
        ELSE IF \/ get_free_inode = -ENOSPC
                \/ FreeSlots(p) = {}
                \/ mode = "dir" /\ get_free_block(block_map) = -ENOSPC
        THEN -ENOSPC ELSE 0

(* fs_mknod takes its inode before it looks for a slot and a block, and    *)
(* clears the bit again when one of them is missing.                       *)
mknod_errno(dirs, name, mode) ==
    LET p == get_parent_inum(dirs)
    IN  IF p < 0 THEN p
        ELSE IF inodes[p].mode # "dir" THEN -ENOTDIR
        ELSE IF translate_path_to_inum(dirs, name) > 0 THEN -EEXIST
        ELSE IF \/ get_free_inode = -ENOSPC
                \/ FreeSlots(p) = {}
                \/ mode = "dir" /\ get_free_block(block_map) = -ENOSPC
        THEN -ENOSPC ELSE 0

(* A new entry goes into the first invalid slot of the parent; a directory *)
(* gets a zeroed block, a file gets none.                                  *)
fs_mknod(dirs, name, mode) ==
    LET p   == get_parent_inum(dirs)
        i   == get_free_inode
        b   == IF mode = "dir" THEN get_free_block(block_map) ELSE 0
        new == [valid |-> TRUE, isDir |-> mode = "dir", inode |-> i, name |-> name]
    IN  /\ mknod_errno(dirs, name, mode) = 0
        /\ inode_map' = inode_map \cup {i}
        /\ block_map' = IF mode = "dir" THEN block_map \cup {b} ELSE block_map
        /\ inodes' = [inodes EXCEPT ![i] = [mode |-> mode, direct0 |-> b]]
        /\ dirents' = [x \in DataBlocks |->
                         IF x = inodes[p].direct0
                         THEN [dirents[x] EXCEPT ![FirstFree(p)] = new]
                         ELSE IF x = b THEN ZeroBlock ELSE dirents[x]]

fs_mkdir(dirs, name) == fs_mknod(dirs, name, "dir")

-----------------------------------------------------------------------------
(* The directories of the tree and the blocks they occupy.                 *)
LiveDirs  == {i \in inode_map : inodes[i].mode = "dir"}
DirBlocks == {inodes[i].direct0 : i \in LiveDirs}

(* File data may occupy the blocks that hold neither metadata nor a        *)
(* directory; a block map is what is fixed and some of these.              *)
FileSpace   == DataBlocks \ DirBlocks
MapWith(fs) == (block_map \ FileSpace) \cup fs

(* fs_write and fs_truncate: files gain or lose data blocks.               *)
FileData ==
    /\ \E i \in inode_map : inodes[i].mode \in {"reg", "other"}
    /\ \E fs \in SUBSET FileSpace : block_map' = MapWith(fs)
    /\ UNCHANGED <<inode_map, inodes, dirents>>

-----------------------------------------------------------------------------
unlink_errno(dirs, name) ==
    LET i == translate_path_to_inum(dirs, name)
    IN  IF i < 0 THEN i
        ELSE IF inodes[i].mode = "dir" THEN -EISDIR ELSE 0

(* fs_unlink truncates the file, which frees some blocks of files, and     *)
(* then clears the first valid entry of that name whose inode is           *)
(* allocated; a directory entry met on the way ends the search.  Only the  *)
(* valid bit is cleared: name and inode number stay in the slot.           *)
UnlinkSlots(p, name) ==
    {j \in Matches(p, name) : Entries(p)[j].isDir \/ Entries(p)[j].inode \in inode_map}

(* Mutant of fs_unlink: the entry keeps its valid bit.                     *)
mut_unlink_keeps_entry(dirs, name) ==
    LET p == get_parent_inum(dirs)
        s == Min(UnlinkSlots(p, name))
    IN  /\ unlink_errno(dirs, name) = 0
        /\ inode_map' = IF UnlinkSlots(p, name) = {} \/ Entries(p)[s].isDir
                        THEN inode_map ELSE inode_map \ {Entries(p)[s].inode}
        /\ UNCHANGED <<block_map, inodes, dirents>>

fs_unlink(dirs, name) ==
    LET p == get_parent_inum(dirs)
        s == Min(UnlinkSlots(p, name))
    IN  /\ unlink_errno(dirs, name) = 0
        /\ \E fs \in SUBSET (FileSpace \cap block_map) : block_map' = MapWith(fs)
        /\ IF UnlinkSlots(p, name) = {} \/ Entries(p)[s].isDir
           THEN UNCHANGED <<inode_map, dirents>>
           ELSE /\ inode_map' = inode_map \ {Entries(p)[s].inode}
                /\ dirents' = [dirents EXCEPT ![inodes[p].direct0][s].valid = FALSE]
        /\ UNCHANGED inodes

-----------------------------------------------------------------------------
(* The slots whose inode number is i, valid or not.                        *)
SlotsOfInode(p, i) == {j \in Slots : Entries(p)[j].inode = i}

(* Mutant of rmdir_errno: no check for ENOTEMPTY.                          *)
mut_rmdir_nonempty(dirs, name) ==
    LET i == translate_path_to_inum(dirs, name)
    IN  IF i < 0 THEN i ELSE IF inodes[i].mode # "dir" THEN -ENOTDIR ELSE 0

rmdir_errno(dirs, name) ==
    LET i == translate_path_to_inum(dirs, name)
    IN  IF i < 0 THEN i
        ELSE IF inodes[i].mode # "dir" THEN -ENOTDIR
        ELSE IF \E j \in Slots : Entries(i)[j].valid THEN -ENOTEMPTY ELSE 0

(* fs_rmdir looks its entry up by inode number among all the slots of the  *)
(* parent and zeroes the first it meets.                                   *)
fs_rmdir(dirs, name) ==
    LET p == get_parent_inum(dirs)
        i == translate_path_to_inum(dirs, name)
        s == Min(SlotsOfInode(p, i))
    IN  /\ rmdir_errno(dirs, name) = 0
        /\ block_map' = free_a_block(block_map, inodes[i].direct0)
        /\ inodes' = [inodes EXCEPT ![i] = ZeroInode]
        /\ IF SlotsOfInode(p, i) = {}
           THEN UNCHANGED <<inode_map, dirents>>
           ELSE /\ inode_map' = inode_map \ {i}
                /\ dirents' = [dirents EXCEPT ![inodes[p].direct0][s] = ZeroDirent]

-----------------------------------------------------------------------------
(* fs_rename refuses a name that any slot of the directory bears, valid or *)
(* not.                                                                    *)
rename_errno(srcDirs, srcName, dstDirs, dstName) ==
    LET p == get_parent_inum(srcDirs)
        i == translate_path_to_inum(srcDirs, srcName)
    IN  IF i < 0 THEN i
        ELSE IF p # get_parent_inum(dstDirs) THEN -EINVAL
        ELSE IF \E j \in Slots : Entries(p)[j].name = dstName THEN -EEXIST ELSE 0

(* strncpy(entry->name, new, strlen(new)) copies no terminator: the tail   *)
(* of a longer old name stays.                                             *)
Overwrite(old, new) == new \o SubSeq(old, Len(new) + 1, Len(old))

(* The slot it renames is the first with the inode number of the source.   *)
fs_rename(srcDirs, srcName, dstDirs, dstName) ==
    LET p == get_parent_inum(srcDirs)
        i == translate_path_to_inum(srcDirs, srcName)
        s == Min(SlotsOfInode(p, i))
    IN  /\ rename_errno(srcDirs, srcName, dstDirs, dstName) = 0
        /\ SlotsOfInode(p, i) # {}
        /\ dirents' = [dirents EXCEPT ![inodes[p].direct0][s].name =
                                         Overwrite(@, dstName)]
        /\ UNCHANGED <<inode_map, block_map, inodes>>

-----------------------------------------------------------------------------
Next ==
    \/ \E dirs \in PathDirs, name \in PathNames :
          \/ \E mode \in NodeModes : fs_mknod(dirs, name, mode)
          \/ fs_mkdir(dirs, name)
          \/ fs_unlink(dirs, name)
          \/ fs_rmdir(dirs, name)
          \/ \E dstDirs \in PathDirs, dstName \in PathNames :
                fs_rename(dirs, name, dstDirs, dstName)
    \/ FileData

Spec == Init /\ [][Next]_vars

-----------------------------------------------------------------------------
(* Correctness.  LinkSlots are the valid entries of the directories of the *)
(* tree, as pairs <<directory, slot>>.                                     *)
LinkSlots == {x \in LiveDirs \X Slots : Entries(x[1])[x[2]].valid}
At(x)     == Entries(x[1])[x[2]]

(* Every entry of the tree leads to an allocated inode, never to inode 0   *)
(* or back to the root, and its isDir bit agrees with the inode's mode:    *)
(* what read-img reports as "inode marked free" and "not a directory".     *)
RefsLive ==
    \A x \in LinkSlots :
        /\ At(x).inode \in inode_map \ {0, ROOT}
        /\ At(x).isDir <=> inodes[At(x).inode].mode = "dir"

(* No inode is in two places of the tree (read-img's "loop found"), so     *)
(* that removing one entry never frees what another entry still names.     *)
RefsUnique == \A x, y \in LinkSlots : At(x).inode = At(y).inode => x = y

(* No inode is lost: what the bitmap holds, apart from inode 0 and the     *)
(* root, some directory entry leads to (read-img's "unreachable inodes").  *)
NoOrphans ==
    \A i \in inode_map \ {0, ROOT} : \E x \in LinkSlots : At(x).inode = i

(* What readdir lists, getattr finds: each listed name is one entry, and   *)
(* the path to it leads to the inode it is listed with.                    *)
ListingResolves ==
    \A dirs \in PathDirs : get_parent_inum(dirs) > 0 =>
        \A e, f \in fs_readdir(dirs) :
            /\ translate_path_to_inum(dirs, e.name) > 0
            /\ fs_getattr(dirs, e.name) = e.st
            /\ e.name = f.name => e = f

(* Every directory has a block of its own, in the data region and marked   *)
(* in the block bitmap, whatever mkdir, rmdir and file data do to the map. *)
DirBlocksOwned ==
    /\ \A d \in LiveDirs : inodes[d].direct0 \in DataBlocks \cap block_map
    /\ \A d, e \in LiveDirs : inodes[d].direct0 = inodes[e].direct0 => d = e

(* Slots that fs_unlink cleared keep their inode number, and fs_rmdir and  *)
(* fs_rename search by number without looking at the valid bit.  That they *)
(* find the right slot rests on this: a stale slot that bears the number   *)
(* of a valid entry comes after it.                                        *)
StaleAfterValid ==
    \A d \in LiveDirs : \A j, k \in Slots :
        j < k /\ Entries(d)[k].valid => Entries(d)[j].inode # Entries(d)[k].inode

(* Directories of the tree within n steps of the root.                     *)
Level[n \in 0 .. NumInodes] ==
    IF n = 0 THEN {ROOT}
    ELSE LET near == Level[n-1]
         IN  near \cup {At(x).inode : x \in {y \in LinkSlots : y[1] \in near}}

(* Every allocated inode is reached from the root: no operation detaches a *)
(* subtree or closes a cycle.                                              *)
AllReachable == Level[NumInodes] = inode_map \ {0}

(* No entry is in a detached directory: every one is within reach of the   *)
(* root.                                                                   *)
Attached == \A x \in LinkSlots : x[1] \in Level[NumInodes]

(* Only the entry the path leads to is changed by a removal or a renaming, *)
(* though rmdir and rename look it up again by inode number: every other   *)
(* slot of every directory stays as it was.                                *)
NamedEntryOnly ==
    [][\A dirs \in PathDirs, name \in PathNames :
          /\ \/ fs_unlink(dirs, name) \/ fs_rmdir(dirs, name)
             \/ \E dstName \in PathNames : fs_rename(dirs, name, dirs, dstName)
          /\ dirents' # dirents
          => LET p == get_parent_inum(dirs)
                 s == Min(Matches(p, name))
             IN  /\ dirents'[inodes[p].direct0][s] # Entries(p)[s]
                 /\ \A b \in DataBlocks, j \in Slots :
                       <<b, j>> # <<inodes[p].direct0, s>>
                          => dirents'[b][j] = dirents[b][j]]_vars

(* The links of NameTree that the valid entries stand for.                 *)
Links == {[dir |-> x[1], name |-> At(x).name, node |-> At(x).inode,
           isDir |-> At(x).isDir] : x \in LinkSlots}

Tree == INSTANCE NameTree WITH Nodes <- Inums, Names <- PathNames,
                               Root <- ROOT, links <- Links

(* The handlers implement the tree of links: each is a Create, a Remove or *)
(* a Rename of one link, or changes no link, as long as no name is longer  *)
(* than the one that replaces it.                                          *)
ImplementsTree == Tree!Spec

-----------------------------------------------------------------------------
(* What comments of main.c say and the code does not do.                   *)

(* "rename - rename a file or directory": after fs_rename succeeds the     *)
(* destination path leads to the inode the source path led to.             *)
RenameGivesName ==
    [][\A dirs \in PathDirs, name, dstName \in PathNames :
          fs_rename(dirs, name, dirs, dstName)
          => translate_path_to_inum(dirs, dstName)' = translate_path_to_inum(dirs, name)]_vars

(* "EEXIST - destination already exists": fs_rename fails with EEXIST only *)
(* when the destination path leads somewhere.                              *)
EexistMeansPresent ==
    \A srcDirs, dstDirs \in PathDirs, srcName, dstName \in PathNames :
        rename_errno(srcDirs, srcName, dstDirs, dstName) = -EEXIST
        => translate_path_to_inum(dstDirs, dstName) > 0

=============================================================================
