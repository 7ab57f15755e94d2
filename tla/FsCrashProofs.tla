---------------------------- MODULE FsCrashProofs ----------------------------
(***************************************************************************)
(* Proofs about the directory handlers and the image: wherever a handler   *)
(* other than rmdir is interrupted, the image is one from which the file   *)
(* system runs on soundly, on which read-img reports no error, and which   *)
(* changes by one link per call.                                           *)
(***************************************************************************)
EXTENDS FsCrash, FsTreeProofs, SequenceTheorems

-----------------------------------------------------------------------------
(* An image that fs_init may load, given by its bitmaps, inode table and   *)
(* directory blocks: what IInv says of the memory, and two things more.    *)
(* Its tree is rooted, and no free inode is a directory, because a handler *)
(* writes the inode bitmap before the inode.                               *)
Typed(im, bm, ino, dir) ==
    /\ im \subseteq Inums /\ bm \subseteq Blocks
    /\ ino \in [Inums -> Inode] /\ dir \in [DataBlocks -> [Slots -> Dirent]]

RootIn(im, ino) == 0 \in im /\ ino[0].mode # "dir" /\ ROOT \in DirsIn(im, ino)

LiveRefs(im, ino, dir) ==
    \A x \in SlotsIn(im, ino, dir) :
        /\ AtIn(ino, dir, x).inode \in im \ {0, ROOT}
        /\ AtIn(ino, dir, x).isDir <=> ino[AtIn(ino, dir, x).inode].mode = "dir"

UniqueRefs(im, ino, dir) ==
    \A x, y \in SlotsIn(im, ino, dir) : AtIn(ino, dir, x).inode = AtIn(ino, dir, y).inode => x = y

OwnBlocks(im, bm, ino) ==
    /\ \A d \in DirsIn(im, ino) : ino[d].direct0 \in DataBlocks \cap bm
    /\ \A d, e \in DirsIn(im, ino) : ino[d].direct0 = ino[e].direct0 => d = e

StaleLater(im, ino, dir) ==
    \A d \in DirsIn(im, ino) : \A j, k \in Slots :
        j < k /\ EntriesIn(ino, dir, d)[k].valid
        => EntriesIn(ino, dir, d)[j].inode # EntriesIn(ino, dir, d)[k].inode

RootedIn(im, ino, dir) ==
    \A S \in SUBSET Inums :
        ClosedIn(im, ino, dir, S) => \A x \in SlotsIn(im, ino, dir) : x[1] \in S

NoFreeDir(im, ino) == \A i \in Inums \ im : ino[i].mode # "dir"

Fit(im, bm, ino, dir) ==
    /\ Typed(im, bm, ino, dir) /\ RootIn(im, ino)
    /\ LiveRefs(im, ino, dir) /\ UniqueRefs(im, ino, dir)
    /\ OwnBlocks(im, bm, ino) /\ StaleLater(im, ino, dir)
    /\ RootedIn(im, ino, dir) /\ NoFreeDir(im, ino)

FitImage(img) == Fit(img.inode_map, img.block_map, img.inodes, img.dirents)

FreeNotDir == \A i \in Inums \ inode_map : inodes[i].mode # "dir"

(* The memory is such an image when it satisfies the invariant.            *)
LEMMA MemoryFit ==
  Fit(inode_map, block_map, inodes, dirents) <=> IInv /\ Rooted /\ FreeNotDir
<1>1. Typed(inode_map, block_map, inodes, dirents) <=> TypeOK
  BY DEF Typed, TypeOK
<1>2. RootIn(inode_map, inodes) <=> RootFixed
  BY MemoryImage DEF RootIn, RootFixed
<1>3. /\ LiveRefs(inode_map, inodes, dirents) <=> RefsLive
      /\ UniqueRefs(inode_map, inodes, dirents) <=> RefsUnique
  BY MemoryImage DEF LiveRefs, UniqueRefs, RefsLive, RefsUnique
<1>4. OwnBlocks(inode_map, block_map, inodes) <=> DirBlocksOwned
  BY MemoryImage DEF OwnBlocks, DirBlocksOwned
<1>5. StaleLater(inode_map, inodes, dirents) <=> StaleAfterValid
  BY MemoryImage DEF StaleLater, StaleAfterValid
<1>6. RootedIn(inode_map, inodes, dirents) <=> Rooted
  BY MemoryImage DEF RootedIn, Rooted, Closed, ClosedIn
<1>7. NoFreeDir(inode_map, inodes) <=> FreeNotDir
  BY DEF NoFreeDir, FreeNotDir
<1> QED BY <1>1, <1>2, <1>3, <1>4, <1>5, <1>6, <1>7 DEF Fit, IInv

(* An image that has more than another: inodes that are lost, among them   *)
(* empty directories with a block of their own, and blocks that are lost.  *)
Grown(im, bm, ino, dir, im2, bm2, ino2, dir2) ==
    /\ Typed(im2, bm2, ino2, dir2) /\ im \subseteq im2
    /\ \A i \in im : ino2[i] = ino[i]
    /\ NoFreeDir(im2, ino2) /\ OwnBlocks(im2, bm2, ino2)
    /\ \A d \in DirsIn(im, ino) : EntriesIn(ino2, dir2, d) = EntriesIn(ino, dir, d)
    /\ \A d \in DirsIn(im2, ino2) \ im : \A j \in Slots : ~EntriesIn(ino2, dir2, d)[j].valid

(* It has the same links, and fs_init may load it, too.                    *)
LEMMA GrownSlots ==
  ASSUME NEW im, NEW bm, NEW ino, NEW dir, NEW im2, NEW bm2, NEW ino2, NEW dir2,
         Grown(im, bm, ino, dir, im2, bm2, ino2, dir2)
  PROVE  /\ DirsIn(im, ino) = DirsIn(im2, ino2) \cap im
         /\ SlotsIn(im2, ino2, dir2) = SlotsIn(im, ino, dir)
         /\ \A x \in SlotsIn(im, ino, dir) : AtIn(ino2, dir2, x) = AtIn(ino, dir, x)
<1>1. DirsIn(im, ino) = DirsIn(im2, ino2) \cap im
  BY DEF Grown, DirsIn
<1>2. ASSUME NEW x
      PROVE  x \in SlotsIn(im2, ino2, dir2) <=> x \in SlotsIn(im, ino, dir)
  <2>1. ASSUME x \in SlotsIn(im2, ino2, dir2) PROVE x \in SlotsIn(im, ino, dir)
    <3>1. PICK d \in DirsIn(im2, ino2), j \in Slots :
                  x = <<d, j>> /\ EntriesIn(ino2, dir2, d)[j].valid
      BY <2>1 DEF SlotsIn
    <3>2. d \in DirsIn(im, ino) /\ EntriesIn(ino2, dir2, d) = EntriesIn(ino, dir, d)
      BY <1>1, <3>1 DEF Grown
    <3> QED BY <3>1, <3>2 DEF SlotsIn
  <2>2. ASSUME x \in SlotsIn(im, ino, dir) PROVE x \in SlotsIn(im2, ino2, dir2)
    <3>1. PICK d \in DirsIn(im, ino), j \in Slots :
                  x = <<d, j>> /\ EntriesIn(ino, dir, d)[j].valid
      BY <2>2 DEF SlotsIn
    <3>2. d \in DirsIn(im2, ino2) /\ EntriesIn(ino2, dir2, d) = EntriesIn(ino, dir, d)
      BY <1>1, <3>1 DEF Grown
    <3> QED BY <3>1, <3>2 DEF SlotsIn
  <2> QED BY <2>1, <2>2
<1>3. ASSUME NEW x \in SlotsIn(im, ino, dir) PROVE AtIn(ino2, dir2, x) = AtIn(ino, dir, x)
  BY DEF SlotsIn, AtIn, Grown
<1> QED BY <1>1, <1>2, <1>3

LEMMA GrownFit ==
  ASSUME NEW im, NEW bm, NEW ino, NEW dir, NEW im2, NEW bm2, NEW ino2, NEW dir2,
         Fit(im, bm, ino, dir), Grown(im, bm, ino, dir, im2, bm2, ino2, dir2)
  PROVE  Fit(im2, bm2, ino2, dir2)
<1>1. /\ DirsIn(im, ino) = DirsIn(im2, ino2) \cap im
      /\ SlotsIn(im2, ino2, dir2) = SlotsIn(im, ino, dir)
      /\ \A x \in SlotsIn(im, ino, dir) : AtIn(ino2, dir2, x) = AtIn(ino, dir, x)
  BY GrownSlots
<1>2. /\ Typed(im2, bm2, ino2, dir2) /\ im \subseteq im2
      /\ \A i \in im : ino2[i] = ino[i]
      /\ NoFreeDir(im2, ino2) /\ OwnBlocks(im2, bm2, ino2)
  BY DEF Grown
<1>3. RootIn(im2, ino2)
  BY <1>1, <1>2 DEF Fit, RootIn
<1>4. LiveRefs(im2, ino2, dir2)
  BY <1>1, <1>2 DEF Fit, LiveRefs
<1>5. UniqueRefs(im2, ino2, dir2)
  BY <1>1 DEF Fit, UniqueRefs
<1>6. StaleLater(im2, ino2, dir2)
  BY <1>1 DEF Fit, StaleLater, Grown
<1>7. RootedIn(im2, ino2, dir2)
  BY <1>1 DEF Fit, RootedIn, ClosedIn
<1> QED BY <1>2, <1>3, <1>4, <1>5, <1>6, <1>7 DEF Fit

-----------------------------------------------------------------------------
(* No handler frees a directory that is still one: rmdir zeroes its inode. *)
LEMMA NextFreeNotDir == IInv /\ FreeNotDir /\ [Next]_vars => FreeNotDir'
<1> SUFFICES ASSUME IInv, FreeNotDir, [Next]_vars PROVE FreeNotDir'
  OBVIOUS
<1>0. inodes \in [Inums -> Inode] /\ inode_map \subseteq Inums
  BY DEF IInv, TypeOK
<1>1. ASSUME NEW dirs \in PathDirs
      PROVE  dirs \in Seq(PathNames)
  BY NamesAssumption
<1>2. ASSUME NEW dirs \in PathDirs, NEW name \in PathNames, NEW mode \in Modes,
             fs_mknod(dirs, name, mode)
      PROVE  FreeNotDir'
  <2>1. PICK i : i = get_free_inode
    OBVIOUS
  <2>2. inode_map' = inode_map \cup {i}
    BY <1>2, <2>1 DEF fs_mknod
  <2>3. \A j \in Inums : j # i => inodes'[j] = inodes[j]
    BY <1>0, <1>2, <2>1 DEF fs_mknod
  <2> QED BY <2>2, <2>3 DEF FreeNotDir
<1>3. CASE UNCHANGED <<inode_map, inodes, dirents>>
  BY <1>3 DEF FreeNotDir
<1>4. ASSUME NEW dirs \in PathDirs, NEW name \in PathNames, fs_unlink(dirs, name)
      PROVE  FreeNotDir'
  <2>1. ASSUME NEW i, inodes[i].mode # "dir", inode_map' = inode_map \ {i}, inodes' = inodes
        PROVE  FreeNotDir'
    BY <2>1 DEF FreeNotDir
  <2> QED BY <1>1, <1>3, <1>4, <2>1, UnlinkLinks
<1>5. ASSUME NEW dirs \in PathDirs, NEW name \in PathNames, fs_rmdir(dirs, name)
      PROVE  FreeNotDir'
  <2>1. PICK p, i, s : /\ p = get_parent_inum(dirs)
                       /\ i = translate_path_to_inum(dirs, name)
                       /\ s = Min(Matches(p, name))
    OBVIOUS
  <2>2. dirs \in Seq(PathNames)
    BY <1>1
  <2>3. /\ <<p, s>> \in LinkSlots /\ At(<<p, s>>).inode = i
        /\ inode_map' = inode_map \ {i}
    BY <1>5, <2>1, <2>2, RmdirLinks
  <2>4. \A j \in Inums : inodes'[j] = IF j = i THEN ZeroInode ELSE inodes[j]
    BY <1>0, <1>5, <2>1 DEF fs_rmdir
  <2>5. ZeroInode.mode # "dir"
    BY DEF ZeroInode
  <2> QED BY <2>3, <2>4, <2>5 DEF FreeNotDir
<1>6. ASSUME NEW dirs \in PathDirs, NEW name \in PathNames, NEW dstDirs, NEW dstName,
             fs_rename(dirs, name, dstDirs, dstName)
      PROVE  FreeNotDir'
  BY <1>6 DEF fs_rename, FreeNotDir
<1>7. CASE FileData \/ UNCHANGED vars
  BY <1>3, <1>7 DEF FileData, vars
<1>8. NodeModes \subseteq Modes /\ "dir" \in Modes
  BY NamesAssumption DEF Modes
<1> QED BY <1>2, <1>4, <1>5, <1>6, <1>7, <1>8 DEF Next, fs_mkdir

-----------------------------------------------------------------------------
(* The image as it is when the writes in D are done too, each of which     *)
(* takes the memory's value; and the first n pending writes.               *)
View(D) ==
    [inode_map |-> IF InodeMap \in D THEN inode_map ELSE disk.inode_map,
     block_map |-> IF BlockMap \in D THEN block_map ELSE disk.block_map,
     inodes    |-> IF InodeTable \in D THEN inodes ELSE disk.inodes,
     dirents   |-> [b \in DataBlocks |-> IF DirBlock(b) \in D THEN dirents[b]
                                         ELSE disk.dirents[b]]]

Done(n) == {pending[k] : k \in 1 .. n}

Images == [inode_map : SUBSET Inums, block_map : SUBSET Blocks,
           inodes : [Inums -> Inode], dirents : [DataBlocks -> [Slots -> Dirent]]]

(* The inductive invariant: the image is fit at every point of the writes  *)
(* that are left, unless they are those of rmdir, and is the memory's at   *)
(* their end.                                                              *)
CrashInv ==
    /\ IInv /\ Rooted /\ FreeNotDir
    /\ disk \in Images /\ pending \in Seq(Regions) /\ call \in Calls
    /\ call # "rmdir" => \A n \in 0 .. Len(pending) : FitImage(View(Done(n)))
    /\ View(Done(Len(pending))) = InMemory

(* The regions are distinct.                                               *)
LEMMA RegionsDiffer ==
  /\ InodeMap # BlockMap /\ InodeMap # InodeTable /\ BlockMap # InodeTable
  /\ \A b : DirBlock(b) # InodeMap /\ DirBlock(b) # BlockMap /\ DirBlock(b) # InodeTable
  /\ \A b, c : DirBlock(b) = DirBlock(c) => b = c
BY DEF InodeMap, BlockMap, InodeTable, DirBlock

LEMMA MemoryTyped ==
  ASSUME IInv
  PROVE  /\ inode_map \in SUBSET Inums /\ block_map \in SUBSET Blocks
         /\ inodes \in [Inums -> Inode] /\ dirents \in [DataBlocks -> [Slots -> Dirent]]
BY DEF IInv, TypeOK

(* When no writes are left the image is the memory's.                      *)
LEMMA Settled ==
  ASSUME CrashInv, pending = <<>>
  PROVE  disk = InMemory /\ View({}) = disk
<1>1. disk \in Images
  BY DEF CrashInv
<1>2. View({}) = disk
  BY <1>1 DEF View, Images
<1>3. Done(Len(pending)) = {}
  <2>1. Len(pending) = 0 /\ 1 .. 0 = {}
    OBVIOUS
  <2> QED BY <2>1 DEF Done
<1> QED BY <1>2, <1>3 DEF CrashInv

(* The image itself is the first of the views.                             *)
LEMMA FirstView ==
  ASSUME disk \in Images
  PROVE  Done(0) = {} /\ View(Done(0)) = disk
<1>1. 1 .. 0 = {}
  OBVIOUS
<1>2. Done(0) = {}
  BY <1>1 DEF Done
<1>3. View({}) = disk
  BY DEF View, Images
<1> QED BY <1>2, <1>3

(* A write makes the image what the view said it would be.                 *)
LEMMA Shifted ==
  ASSUME IInv, disk \in Images, pending \in Seq(Regions), WriteBack
  PROVE  /\ disk' \in Images /\ pending' \in Seq(Regions)
         /\ Len(pending') \in Nat /\ Len(pending) = Len(pending') + 1
         /\ \A n \in 0 .. Len(pending') : View(Done(n))' = View(Done(n + 1))
<1>1. /\ pending # <<>>
      /\ disk' = Written(Head(pending)) /\ pending' = Tail(pending)
      /\ UNCHANGED <<inode_map, block_map, inodes, dirents>>
  BY DEF WriteBack, memory, vars
<1>3. /\ inode_map \in SUBSET Inums /\ block_map \in SUBSET Blocks
      /\ inodes \in [Inums -> Inode] /\ dirents \in [DataBlocks -> [Slots -> Dirent]]
  BY MemoryTyped
<1> DEFINE w == Head(pending)
<1>4. w \in Regions /\ pending' \in Seq(Regions) /\ Len(pending') \in Nat
      /\ Len(pending) = Len(pending') + 1
      /\ pending[1] = w
      /\ \A k \in 1 .. Len(pending') : pending'[k] = pending[k + 1]
  BY <1>1, HeadTailProperties
<1> HIDE DEF w
<1>5. \/ w = InodeMap /\ disk' = [disk EXCEPT !.inode_map = inode_map]
      \/ w = BlockMap /\ disk' = [disk EXCEPT !.block_map = block_map]
      \/ w = InodeTable /\ disk' = [disk EXCEPT !.inodes = inodes]
      \/ \E b \in DataBlocks : w = DirBlock(b) /\ disk' = [disk EXCEPT !.dirents[b] = dirents[b]]
  <2>1. disk' = Written(w)
    BY <1>1 DEF w
  <2>2. CASE w = InodeMap
    BY <2>1, <2>2, RegionsDiffer DEF Written
  <2>3. CASE w = BlockMap
    BY <2>1, <2>3, RegionsDiffer DEF Written
  <2>4. CASE w = InodeTable
    BY <2>1, <2>4, RegionsDiffer DEF Written
  <2>5. ASSUME NEW b \in DataBlocks, w = DirBlock(b)
        PROVE  disk' = [disk EXCEPT !.dirents[b] = dirents[b]]
    <3>1. w[2] = b /\ w # InodeMap /\ w # BlockMap /\ w # InodeTable
      BY <2>5, RegionsDiffer DEF DirBlock
    <3> QED BY <2>1, <3>1 DEF Written
  <2> QED BY <1>4, <2>2, <2>3, <2>4, <2>5 DEF Regions
<1>6. disk' \in Images
  <2>1. CASE disk' = [disk EXCEPT !.inode_map = inode_map]
    BY <1>3, <2>1 DEF Images
  <2>2. CASE disk' = [disk EXCEPT !.block_map = block_map]
    BY <1>3, <2>2 DEF Images
  <2>3. CASE disk' = [disk EXCEPT !.inodes = inodes]
    BY <1>3, <2>3 DEF Images
  <2>4. ASSUME NEW b \in DataBlocks, disk' = [disk EXCEPT !.dirents[b] = dirents[b]]
        PROVE  disk' \in Images
    <3>1. [disk.dirents EXCEPT ![b] = dirents[b]] \in [DataBlocks -> [Slots -> Dirent]]
      BY <1>3 DEF Images
    <3>2. disk' = [disk EXCEPT !.dirents = [disk.dirents EXCEPT ![b] = dirents[b]]]
      BY <2>4
    <3> QED BY <3>1, <3>2 DEF Images
  <2> QED BY <1>5, <2>1, <2>2, <2>3, <2>4
<1>7. ASSUME NEW n \in 0 .. Len(pending')
      PROVE  View(Done(n))' = View(Done(n + 1))
  <2> DEFINE D == {pending'[k] : k \in 1 .. n}
             E == {pending[k] : k \in 1 .. n + 1}
  <2>1. E = D \cup {w}
    <3>0. n \in Nat /\ \A k \in 1 .. n : k \in 1 .. Len(pending')
      BY <1>4
    <3>1. \A k \in 1 .. n : pending'[k] = pending[k + 1] /\ k + 1 \in 1 .. n + 1
      BY <1>4, <3>0
    <3>2. ASSUME NEW x \in E PROVE x \in D \cup {w}
      <4>1. PICK k \in 1 .. n + 1 : x = pending[k]
        OBVIOUS
      <4>2. CASE k = 1
        BY <1>4, <4>1, <4>2
      <4>3. CASE k # 1
        <5>1. k - 1 \in 1 .. n /\ k = (k - 1) + 1
          BY <3>0, <4>3
        <5>2. x = pending'[k - 1]
          BY <3>1, <4>1, <5>1
        <5> QED BY <5>1, <5>2
      <4> QED BY <4>2, <4>3
    <3>3. D \subseteq E
      BY <3>1
    <3>4. w \in E
      <4>1. 1 \in 1 .. n + 1
        BY <3>0
      <4> QED BY <1>4, <4>1
    <3> QED BY <3>2, <3>3, <3>4
  <2>2. View(Done(n))' =
            [inode_map |-> IF InodeMap \in D THEN inode_map ELSE disk'.inode_map,
             block_map |-> IF BlockMap \in D THEN block_map ELSE disk'.block_map,
             inodes    |-> IF InodeTable \in D THEN inodes ELSE disk'.inodes,
             dirents   |-> [b \in DataBlocks |-> IF DirBlock(b) \in D THEN dirents[b]
                                                 ELSE disk'.dirents[b]]]
    BY <1>1 DEF View, Done
  <2>3. View(Done(n + 1)) =
            [inode_map |-> IF InodeMap \in E THEN inode_map ELSE disk.inode_map,
             block_map |-> IF BlockMap \in E THEN block_map ELSE disk.block_map,
             inodes    |-> IF InodeTable \in E THEN inodes ELSE disk.inodes,
             dirents   |-> [b \in DataBlocks |-> IF DirBlock(b) \in E THEN dirents[b]
                                                 ELSE disk.dirents[b]]]
    BY DEF View, Done
  <2> HIDE DEF D, E
  <2>4. (IF InodeMap \in D THEN inode_map ELSE disk'.inode_map)
           = IF InodeMap \in E THEN inode_map ELSE disk.inode_map
    BY <1>5, <2>1, RegionsDiffer DEF Images
  <2>5. (IF BlockMap \in D THEN block_map ELSE disk'.block_map)
           = IF BlockMap \in E THEN block_map ELSE disk.block_map
    BY <1>5, <2>1, RegionsDiffer DEF Images
  <2>6. (IF InodeTable \in D THEN inodes ELSE disk'.inodes)
           = IF InodeTable \in E THEN inodes ELSE disk.inodes
    BY <1>5, <2>1, RegionsDiffer DEF Images
  <2>7. ASSUME NEW b \in DataBlocks
        PROVE  (IF DirBlock(b) \in D THEN dirents[b] ELSE disk'.dirents[b])
                  = IF DirBlock(b) \in E THEN dirents[b] ELSE disk.dirents[b]
    BY <1>5, <2>1, RegionsDiffer DEF Images
  <2> QED BY <2>2, <2>3, <2>4, <2>5, <2>6, <2>7
<1> QED BY <1>4, <1>6, <1>7

(* The views of a state depend on nothing else in it.                      *)
LEMMA ViewOf ==
  ASSUME NEW n \in Nat, n = Len(pending')
  PROVE  View(Done(Len(pending)))' = View(Done(n))'
<1>1. Done(Len(pending))' = Done(n)'
  BY DEF Done
<1> QED BY <1>1 DEF View

LEMMA WriteBackCrash ==
  ASSUME CrashInv, WriteBack
  PROVE  CrashInv'
<1>1. /\ IInv /\ Rooted /\ FreeNotDir /\ disk \in Images /\ pending \in Seq(Regions)
      /\ call \in Calls /\ call' = call /\ UNCHANGED vars
      /\ UNCHANGED <<inode_map, block_map, inodes, dirents>>
  BY DEF CrashInv, WriteBack, memory, vars
<1>2. IInv' /\ Rooted' /\ FreeNotDir'
  BY <1>1, NextIInv, NextRooted, NextFreeNotDir
<1>3. /\ disk' \in Images /\ pending' \in Seq(Regions)
      /\ Len(pending') \in Nat /\ Len(pending) = Len(pending') + 1
      /\ \A n \in 0 .. Len(pending') : View(Done(n))' = View(Done(n + 1))
  BY <1>1, Shifted
<1>4. call' # "rmdir" => \A n \in 0 .. Len(pending') : FitImage(View(Done(n)))'
  <2> SUFFICES ASSUME call' # "rmdir", NEW n \in 0 .. Len(pending')
               PROVE  FitImage(View(Done(n)))'
    OBVIOUS
  <2>1. FitImage(View(Done(n + 1))) /\ View(Done(n))' = View(Done(n + 1))
    <3>1. n + 1 \in 0 .. Len(pending)
      BY <1>3
    <3> QED BY <1>1, <1>3, <3>1 DEF CrashInv
  <2>2. FitImage(View(Done(n)))' <=> FitImage(View(Done(n))')
    BY DEF FitImage, Fit
  <2> QED BY <2>1, <2>2
<1>5. View(Done(Len(pending)))' = InMemory'
  <2>1. PICK n \in 0 .. Len(pending') : n = Len(pending')
    BY <1>3
  <2>2. View(Done(Len(pending)))' = View(Done(n))'
    BY <2>1, ViewOf
  <2>3. View(Done(n))' = View(Done(n + 1))
    BY <1>3
  <2>4. View(Done(n + 1)) = InMemory
    BY <1>3, <2>1 DEF CrashInv
  <2> QED BY <1>1, <2>2, <2>3, <2>4 DEF InMemory
<1> QED BY <1>1, <1>2, <1>3, <1>4, <1>5 DEF CrashInv

(* When the image is the memory's and nothing is left to write.            *)
LEMMA QuietCrash ==
  IInv /\ Rooted /\ FreeNotDir /\ disk = InMemory /\ pending = <<>> /\ call \in Calls => CrashInv
<1> SUFFICES ASSUME IInv, Rooted, FreeNotDir, disk = InMemory, pending = <<>>, call \in Calls
             PROVE  CrashInv
  OBVIOUS
<1>1. Fit(inode_map, block_map, inodes, dirents)
  BY MemoryFit
<1>2. disk \in Images /\ FitImage(disk)
  BY <1>1, MemoryTyped DEF Images, InMemory, FitImage
<1>3. View(Done(0)) = disk /\ Done(0) = {}
  BY <1>2, FirstView
<1>4. pending \in Seq(Regions) /\ Len(pending) = 0 /\ (\A n \in 0 .. 0 : n = 0) /\ 1 .. 0 = {}
  OBVIOUS
<1>5. Done(Len(pending)) = {}
  BY <1>4 DEF Done
<1>6. \A n \in 0 .. Len(pending) : FitImage(View(Done(n)))
  BY <1>2, <1>3, <1>4
<1> QED BY <1>2, <1>3, <1>4, <1>5, <1>6 DEF CrashInv

LEMMA StartCrash == CrashInit => CrashInv
<1> SUFFICES ASSUME CrashInit PROVE CrashInv
  OBVIOUS
<1>1. IInv /\ Rooted /\ disk = InMemory /\ pending = <<>> /\ call \in Calls
  BY InitIInv, InitLinks DEF CrashInit, Calls
<1>2. FreeNotDir
  BY NamesAssumption DEF CrashInit, Init, FreeNotDir, ZeroInode
<1> QED BY <1>1, <1>2, QuietCrash

(* Handlers that may be killed.                                            *)
NoRmdirCrash == "rmdir" \notin CrashCalls

(* What the process leaves behind is fit for fs_init.                      *)
LEMMA EndFit ==
  ASSUME CrashInv, NoRmdirCrash, MayEnd
  PROVE  FitImage(disk)
<1>1. CASE pending = <<>>
  <2>1. disk = InMemory
    BY <1>1, Settled
  <2>2. Fit(inode_map, block_map, inodes, dirents)
    BY MemoryFit DEF CrashInv
  <2> QED BY <2>1, <2>2 DEF FitImage, InMemory
<1>2. CASE call # "rmdir"
  <2>1. 0 \in 0 .. Len(pending)
    BY DEF CrashInv
  <2>2. View(Done(0)) = disk
    BY FirstView DEF CrashInv
  <2> QED BY <1>2, <2>1, <2>2 DEF CrashInv
<1> QED BY <1>1, <1>2 DEF MayEnd, NoRmdirCrash

LEMMA RestartCrash ==
  ASSUME CrashInv, NoRmdirCrash, fs_init
  PROVE  CrashInv'
<1>1. /\ MayEnd /\ disk \in Images /\ disk' = disk /\ pending' = <<>> /\ call' = call
      /\ call \in Calls
      /\ inode_map' = disk.inode_map /\ block_map' = disk.block_map
      /\ inodes' = disk.inodes /\ dirents' = disk.dirents
  BY DEF CrashInv, fs_init
<1>2. disk' = InMemory' /\ call' \in Calls
  BY <1>1 DEF InMemory, Images
<1>3. Fit(inode_map', block_map', inodes', dirents')
  BY <1>1, EndFit DEF FitImage
<1>4. IInv' /\ Rooted' /\ FreeNotDir'
  <2>1. (Fit(inode_map, block_map, inodes, dirents) <=> IInv /\ Rooted /\ FreeNotDir)'
    BY MemoryFit, PTL
  <2>2. Fit(inode_map, block_map, inodes, dirents)' <=> Fit(inode_map', block_map', inodes', dirents')
    BY DEF Fit
  <2> QED BY <1>3, <2>1, <2>2
<1>5. (IInv /\ Rooted /\ FreeNotDir /\ disk = InMemory /\ pending = <<>> /\ call \in Calls => CrashInv)'
  BY QuietCrash, PTL
<1> QED BY <1>1, <1>2, <1>4, <1>5

-----------------------------------------------------------------------------
(* The links of an image.                                                  *)
LinksIn(im, ino, dir) ==
    {[dir |-> x[1], name |-> AtIn(ino, dir, x).name, node |-> AtIn(ino, dir, x).inode,
      isDir |-> AtIn(ino, dir, x).isDir] : x \in SlotsIn(im, ino, dir)}
LinksOf(img) == LinksIn(img.inode_map, img.inodes, img.dirents)

LEMMA MemoryLinks == Links = LinksIn(inode_map, inodes, dirents)
BY MemoryImage DEF Links, LinksIn

(* Directories that only one of two images has do not matter if they are   *)
(* empty.                                                                  *)
LEMMA SameLinks ==
  ASSUME NEW im, NEW ino, NEW dir, NEW im2, NEW ino2, NEW dir2,
         \A d \in DirsIn(im, ino) \cap DirsIn(im2, ino2) :
            EntriesIn(ino2, dir2, d) = EntriesIn(ino, dir, d),
         \A d \in DirsIn(im, ino) \ DirsIn(im2, ino2), j \in Slots :
            ~EntriesIn(ino, dir, d)[j].valid,
         \A d \in DirsIn(im2, ino2) \ DirsIn(im, ino), j \in Slots :
            ~EntriesIn(ino2, dir2, d)[j].valid
  PROVE  LinksIn(im2, ino2, dir2) = LinksIn(im, ino, dir)
<1>1. ASSUME NEW x
      PROVE  x \in SlotsIn(im2, ino2, dir2) <=> x \in SlotsIn(im, ino, dir)
  <2>1. ASSUME x \in SlotsIn(im2, ino2, dir2) PROVE x \in SlotsIn(im, ino, dir)
    <3>1. PICK d \in DirsIn(im2, ino2), j \in Slots :
                  x = <<d, j>> /\ EntriesIn(ino2, dir2, d)[j].valid
      BY <2>1 DEF SlotsIn
    <3>2. d \in DirsIn(im, ino) /\ EntriesIn(ino2, dir2, d) = EntriesIn(ino, dir, d)
      BY <3>1
    <3> QED BY <3>1, <3>2 DEF SlotsIn
  <2>2. ASSUME x \in SlotsIn(im, ino, dir) PROVE x \in SlotsIn(im2, ino2, dir2)
    <3>1. PICK d \in DirsIn(im, ino), j \in Slots :
                  x = <<d, j>> /\ EntriesIn(ino, dir, d)[j].valid
      BY <2>2 DEF SlotsIn
    <3>2. d \in DirsIn(im2, ino2) /\ EntriesIn(ino2, dir2, d) = EntriesIn(ino, dir, d)
      BY <3>1
    <3> QED BY <3>1, <3>2 DEF SlotsIn
  <2> QED BY <2>1, <2>2
<1>2. SlotsIn(im2, ino2, dir2) = SlotsIn(im, ino, dir)
  BY <1>1
<1>3. ASSUME NEW x \in SlotsIn(im, ino, dir) PROVE AtIn(ino2, dir2, x) = AtIn(ino, dir, x)
  <2>1. x[1] \in DirsIn(im, ino) /\ x[1] \in DirsIn(im2, ino2)
    BY <1>2 DEF SlotsIn
  <2> QED BY <2>1 DEF AtIn
<1> QED BY <1>2, <1>3 DEF LinksIn

(* An image that fs_init may load is still one, with the same links, when  *)
(* it has more.                                                            *)
LEMMA GrownLinks ==
  ASSUME NEW im, NEW bm, NEW ino, NEW dir, NEW im2, NEW bm2, NEW ino2, NEW dir2,
         Grown(im, bm, ino, dir, im2, bm2, ino2, dir2)
  PROVE  LinksIn(im2, ino2, dir2) = LinksIn(im, ino, dir)
<1>1. /\ SlotsIn(im2, ino2, dir2) = SlotsIn(im, ino, dir)
      /\ \A x \in SlotsIn(im, ino, dir) : AtIn(ino2, dir2, x) = AtIn(ino, dir, x)
  BY GrownSlots
<1> QED BY <1>1 DEF LinksIn

-----------------------------------------------------------------------------
(* The image after the writes in D of the handler that has just begun.     *)
MapV(D) == IF InodeMap \in D THEN inode_map' ELSE inode_map
BlkV(D) == IF BlockMap \in D THEN block_map' ELSE block_map
InoV(D) == IF InodeTable \in D THEN inodes' ELSE inodes
DirV(D) == [b \in DataBlocks |-> IF DirBlock(b) \in D THEN dirents'[b] ELSE dirents[b]]

ViewNext(D) == [inode_map |-> MapV(D), block_map |-> BlkV(D),
                inodes |-> InoV(D), dirents |-> DirV(D)]

FitNext(D)   == Fit(MapV(D), BlkV(D), InoV(D), DirV(D))
LinksNext(D) == LinksIn(MapV(D), InoV(D), DirV(D))

Fits == IInv /\ Rooted /\ FreeNotDir

LEMMA ViewTyped ==
  ASSUME IInv, IInv', NEW D
  PROVE  Typed(MapV(D), BlkV(D), InoV(D), DirV(D))
<1>1. /\ inode_map \in SUBSET Inums /\ block_map \in SUBSET Blocks
      /\ inodes \in [Inums -> Inode] /\ dirents \in [DataBlocks -> [Slots -> Dirent]]
  BY MemoryTyped
<1>2. /\ inode_map' \in SUBSET Inums /\ block_map' \in SUBSET Blocks
      /\ inodes' \in [Inums -> Inode] /\ dirents' \in [DataBlocks -> [Slots -> Dirent]]
  BY DEF IInv, TypeOK
<1> QED BY <1>1, <1>2 DEF Typed, MapV, BlkV, InoV, DirV

(* An image that has all of the old memory, or all of the new, and more.   *)
LEMMA OldSide ==
  ASSUME Fits, NEW D,
         Grown(inode_map, block_map, inodes, dirents, MapV(D), BlkV(D), InoV(D), DirV(D))
  PROVE  FitNext(D) /\ LinksNext(D) = Links
<1>1. Fit(inode_map, block_map, inodes, dirents)
  BY MemoryFit DEF Fits
<1> QED BY <1>1, GrownFit, GrownLinks, MemoryLinks DEF FitNext, LinksNext

LEMMA NewSide ==
  ASSUME Fits', NEW D,
         Grown(inode_map', block_map', inodes', dirents', MapV(D), BlkV(D), InoV(D), DirV(D))
  PROVE  FitNext(D) /\ LinksNext(D) = Links'
<1>1. Fit(inode_map', block_map', inodes', dirents')
  <2>1. (Fit(inode_map, block_map, inodes, dirents) <=> IInv /\ Rooted /\ FreeNotDir)'
    BY MemoryFit, PTL
  <2> QED BY <2>1 DEF Fits, Fit
<1>2. Links' = LinksIn(inode_map', inodes', dirents')
  <2>1. (Links = LinksIn(inode_map, inodes, dirents))'
    BY MemoryLinks, PTL
  <2> QED BY <2>1 DEF LinksIn
<1> QED BY <1>1, <1>2, GrownFit, GrownLinks DEF FitNext, LinksNext

(* All writes done.                                                        *)
LEMMA Whole ==
  ASSUME Fits', NEW D, MapV(D) = inode_map', BlkV(D) = block_map',
         InoV(D) = inodes', DirV(D) = dirents'
  PROVE  FitNext(D) /\ LinksNext(D) = Links' /\ ViewNext(D) = InMemory'
<1>1. Fit(inode_map', block_map', inodes', dirents')
  <2>1. (Fit(inode_map, block_map, inodes, dirents) <=> IInv /\ Rooted /\ FreeNotDir)'
    BY MemoryFit, PTL
  <2> QED BY <2>1 DEF Fits, Fit
<1>2. Links' = LinksIn(inode_map', inodes', dirents')
  <2>1. (Links = LinksIn(inode_map, inodes, dirents))'
    BY MemoryLinks, PTL
  <2> QED BY <2>1 DEF LinksIn
<1> QED BY <1>1, <1>2 DEF FitNext, LinksNext, ViewNext, InMemory

(* Only the block bitmap differs, and by blocks of files.                  *)
LEMMA MapOnly ==
  ASSUME Fits, IInv', NEW D, MapV(D) = inode_map, InoV(D) = inodes, DirV(D) = dirents,
         \/ BlkV(D) = block_map
         \/ BlkV(D) = block_map' /\ \A d \in LiveDirs : inodes[d].direct0 \in block_map'
  PROVE  FitNext(D) /\ LinksNext(D) = Links
<1>1. Typed(MapV(D), BlkV(D), InoV(D), DirV(D))
  BY ViewTyped DEF Fits
<1>2. OwnBlocks(inode_map, BlkV(D), inodes)
  <2>1. \A d \in LiveDirs : inodes[d].direct0 \in DataBlocks \cap BlkV(D)
    BY DEF Fits, IInv, DirBlocksOwned
  <2>2. \A d, e \in LiveDirs : inodes[d].direct0 = inodes[e].direct0 => d = e
    BY DEF Fits, IInv, DirBlocksOwned
  <2> QED BY <2>1, <2>2, MemoryImage DEF OwnBlocks
<1>3. NoFreeDir(inode_map, inodes)
  BY DEF Fits, FreeNotDir, NoFreeDir
<1>4. DirsIn(inode_map, inodes) \ inode_map = {}
  BY DEF DirsIn
<1>5. Grown(inode_map, block_map, inodes, dirents, MapV(D), BlkV(D), InoV(D), DirV(D))
  BY <1>1, <1>2, <1>3, <1>4 DEF Grown
<1> QED BY <1>5, OldSide

-----------------------------------------------------------------------------
(* mknod and mkdir.  Until the parent is written the image has the old     *)
(* links and, at most, one more inode, which nothing leads to.             *)
LEMMA MknodViews ==
  ASSUME Fits, Fits', NEW dirs \in Seq(PathNames), NEW name, NEW mode \in Modes,
         fs_mknod(dirs, name, mode), NEW DB, DB = DirBlock(get_free_block(block_map)),
         NEW D, ParentBlock(dirs) \notin D,
         \A x \in DataBlocks : DirBlock(x) \in D => mode = "dir" /\ DirBlock(x) = DB,
         InodeTable \in D => InodeMap \in D,
         InodeTable \in D /\ mode = "dir" => BlockMap \in D /\ DB \in D
  PROVE  FitNext(D) /\ LinksNext(D) = Links
<1>1. PICK p, i, s, b : /\ p = get_parent_inum(dirs) /\ i = get_free_inode
                        /\ s = FirstFree(p)
                        /\ b = IF mode = "dir" THEN get_free_block(block_map) ELSE 0
  OBVIOUS
<1>2. /\ p \in LiveDirs /\ i \in Inums \ inode_map
      /\ s \in Slots /\ ~Entries(p)[s].valid
      /\ b \in Blocks
      /\ mode = "dir" => b \in DataBlocks \ block_map
      /\ mode # "dir" => b \notin DataBlocks
      /\ mode = "dir" => Entries(i)' = ZeroBlock
      /\ LiveDirs' = IF mode = "dir" THEN LiveDirs \cup {i} ELSE LiveDirs
  BY <1>1, MknodEffect DEF Fits
<1>3. /\ inode_map' = inode_map \cup {i}
      /\ block_map' = IF mode = "dir" THEN block_map \cup {b} ELSE block_map
      /\ inodes' = [inodes EXCEPT ![i] = [mode |-> mode, direct0 |-> b]]
  BY <1>1 DEF fs_mknod
<1>4. Typed(MapV(D), BlkV(D), InoV(D), DirV(D)) /\ inodes \in [Inums -> Inode]
  BY ViewTyped, MemoryTyped DEF Fits
<1>5. \A j \in inode_map : InoV(D)[j] = inodes[j]
  BY <1>2, <1>3, <1>4 DEF InoV
<1>6. inode_map \subseteq MapV(D) /\ block_map \subseteq BlkV(D)
  BY <1>3 DEF MapV, BlkV
<1>7. NoFreeDir(MapV(D), InoV(D))
  <2>1. CASE InodeTable \in D
    <3>1. MapV(D) = inode_map' /\ InoV(D) = inodes'
      BY <2>1 DEF MapV, InoV
    <3> QED BY <3>1 DEF NoFreeDir, Fits, FreeNotDir
  <2>2. CASE InodeTable \notin D
    <3>1. InoV(D) = inodes
      BY <2>2 DEF InoV
    <3> QED BY <1>6, <3>1 DEF NoFreeDir, Fits, FreeNotDir
  <2> QED BY <2>1, <2>2
<1>8. \/ /\ InodeTable \in D /\ mode = "dir" /\ InoV(D) = inodes' /\ BlkV(D) = block_map'
         /\ DirsIn(MapV(D), InoV(D)) = LiveDirs'
      \/ /\ DirsIn(MapV(D), InoV(D)) = LiveDirs
         /\ \A d \in LiveDirs : InoV(D)[d] = inodes[d]
  <2>1. CASE InodeTable \in D
    <3>1. MapV(D) = inode_map' /\ InoV(D) = inodes'
      BY <2>1 DEF MapV, InoV
    <3>2. DirsIn(MapV(D), InoV(D)) = LiveDirs'
      BY <3>1 DEF DirsIn, LiveDirs
    <3>3. mode = "dir" => BlkV(D) = block_map'
      BY <2>1 DEF BlkV
    <3>4. \A d \in LiveDirs : InoV(D)[d] = inodes[d]
      BY <1>5 DEF LiveDirs
    <3> QED BY <1>2, <2>1, <3>1, <3>2, <3>3, <3>4
  <2>2. CASE InodeTable \notin D
    <3>1. InoV(D) = inodes
      BY <2>2 DEF InoV
    <3>2. \A d \in Inums : inodes[d].mode = "dir" => d \in inode_map
      BY DEF Fits, FreeNotDir
    <3>3. MapV(D) \subseteq Inums
      BY <1>4 DEF Typed
    <3>4. DirsIn(MapV(D), InoV(D)) = LiveDirs
      BY <1>6, <3>1, <3>2, <3>3 DEF DirsIn, LiveDirs
    <3> QED BY <3>1, <3>4
  <2> QED BY <2>1, <2>2
<1>9. OwnBlocks(MapV(D), BlkV(D), InoV(D))
  <2>1. CASE DirsIn(MapV(D), InoV(D)) = LiveDirs /\ \A d \in LiveDirs : InoV(D)[d] = inodes[d]
    BY <1>6, <2>1 DEF OwnBlocks, Fits, IInv, DirBlocksOwned
  <2>2. CASE /\ InoV(D) = inodes' /\ BlkV(D) = block_map'
             /\ DirsIn(MapV(D), InoV(D)) = LiveDirs'
    BY <2>2 DEF OwnBlocks, Fits, IInv, DirBlocksOwned
  <2> QED BY <1>8, <2>1, <2>2
<1>10. \A d \in DirsIn(inode_map, inodes) :
          EntriesIn(InoV(D), DirV(D), d) = EntriesIn(inodes, dirents, d)
  <2> SUFFICES ASSUME NEW d \in LiveDirs
               PROVE  EntriesIn(InoV(D), DirV(D), d) = EntriesIn(inodes, dirents, d)
    BY MemoryImage
  <2>1. InoV(D)[d].direct0 = inodes[d].direct0
    BY <1>5 DEF LiveDirs
  <2>2. PICK x \in DataBlocks : x = inodes[d].direct0 /\ x \in block_map
    BY DEF Fits, IInv, DirBlocksOwned
  <2>3. DirBlock(x) \notin D
    <3>1. SUFFICES ASSUME DirBlock(x) \in D PROVE FALSE
      OBVIOUS
    <3>2. mode = "dir" /\ x = get_free_block(block_map)
      BY <3>1, RegionsDiffer
    <3> QED BY <1>1, <1>2, <2>2, <3>2
  <2>4. DirV(D)[x] = dirents[x]
    BY <2>3 DEF DirV
  <2> QED BY <2>1, <2>2, <2>4 DEF EntriesIn
<1>11. \A d \in DirsIn(MapV(D), InoV(D)) \ inode_map : \A j \in Slots :
          ~EntriesIn(InoV(D), DirV(D), d)[j].valid
  <2>1. CASE DirsIn(MapV(D), InoV(D)) = LiveDirs
    BY <2>1 DEF LiveDirs
  <2>2. CASE /\ InodeTable \in D /\ mode = "dir" /\ InoV(D) = inodes'
             /\ DirsIn(MapV(D), InoV(D)) = LiveDirs'
    <3>1. SUFFICES ASSUME NEW j \in Slots PROVE ~EntriesIn(InoV(D), DirV(D), i)[j].valid
      BY <1>2, <2>2 DEF LiveDirs
    <3>2. InoV(D)[i].direct0 = b /\ b \in DataBlocks
      BY <1>2, <1>3, <1>4, <2>2
    <3>3. DirV(D)[b] = dirents'[b]
      <4>1. DirBlock(b) \in D
        BY <1>1, <2>2
      <4> QED BY <3>2, <4>1 DEF DirV
    <3>4. inodes'[i].direct0 = b
      BY <2>2, <3>2
    <3>5. dirents'[b] = ZeroBlock
      BY <1>2, <2>2, <3>4 DEF Entries
    <3>6. ~ZeroBlock[j].valid
      BY DEF ZeroBlock, ZeroDirent
    <3> QED BY <3>2, <3>3, <3>5, <3>6 DEF EntriesIn
  <2> QED BY <1>8, <2>1, <2>2
<1>12. Grown(inode_map, block_map, inodes, dirents, MapV(D), BlkV(D), InoV(D), DirV(D))
  BY <1>4, <1>5, <1>6, <1>7, <1>9, <1>10, <1>11 DEF Grown
<1> QED BY <1>12, OldSide

(* When all is written.                                                    *)
LEMMA MknodWhole ==
  ASSUME Fits, Fits', NEW dirs \in Seq(PathNames), NEW name, NEW mode \in Modes,
         fs_mknod(dirs, name, mode),
         NEW D, {InodeMap, InodeTable, ParentBlock(dirs)} \subseteq D,
         mode = "dir" => {BlockMap, DirBlock(get_free_block(block_map))} \subseteq D
  PROVE  FitNext(D) /\ LinksNext(D) = Links' /\ ViewNext(D) = InMemory'
<1>1. PICK p, b : /\ p = get_parent_inum(dirs)
                  /\ b = IF mode = "dir" THEN get_free_block(block_map) ELSE 0
  OBVIOUS
<1>2. MapV(D) = inode_map' /\ InoV(D) = inodes'
  BY DEF MapV, InoV
<1>3. BlkV(D) = block_map'
  BY DEF BlkV, fs_mknod
<1>4. mode # "dir" => b \notin DataBlocks
  BY <1>1, LayoutAssumption DEF DataBlocks
<1>5. ASSUME NEW x \in DataBlocks PROVE DirV(D)[x] = dirents'[x]
  <2>1. CASE x = inodes[p].direct0 \/ (x = b /\ mode = "dir")
    <3>1. DirBlock(x) \in D
      BY <1>1, <2>1 DEF ParentBlock
    <3> QED BY <3>1 DEF DirV
  <2>2. CASE ~(x = inodes[p].direct0 \/ (x = b /\ mode = "dir"))
    <3>1. x # inodes[p].direct0 /\ x # b
      BY <1>4, <2>2
    <3>2. dirents'[x] = dirents[x]
      BY <1>1, <3>1 DEF fs_mknod
    <3> QED BY <3>2 DEF DirV
  <2> QED BY <2>1, <2>2
<1>6. DirV(D) = dirents'
  <2>1. dirents' \in [DataBlocks -> [Slots -> Dirent]]
    BY DEF Fits, IInv, TypeOK
  <2> QED BY <1>5, <2>1 DEF DirV
<1> QED BY <1>2, <1>3, <1>6, Whole

-----------------------------------------------------------------------------
(* unlink.  Until the parent is written the image has the old links; from  *)
(* then on the new, and the inode that is to be freed as a lost one.       *)
LEMMA UnlinkFacts ==
  ASSUME IInv, NEW dirs \in Seq(PathNames), NEW name, fs_unlink(dirs, name)
  PROVE  /\ inode_map' \subseteq inode_map /\ inodes' = inodes /\ LiveDirs' = LiveDirs
         /\ \A j \in inode_map \ inode_map' : inodes[j].mode # "dir"
         /\ \A x \in DataBlocks : x # inodes[get_parent_inum(dirs)].direct0
               => dirents'[x] = dirents[x]
<1>1. /\ inodes' = inodes
      /\ \A x \in DataBlocks : x # inodes[get_parent_inum(dirs)].direct0
            => dirents'[x] = dirents[x]
  <2>1. dirents \in [DataBlocks -> [Slots -> Dirent]]
    BY MemoryTyped
  <2> QED BY <2>1 DEF fs_unlink
<1>2. CASE UNCHANGED <<inode_map, inodes, dirents>>
  BY <1>1, <1>2 DEF LiveDirs
<1>3. ASSUME NEW i, inodes[i].mode # "dir", inode_map' = inode_map \ {i}, LiveDirs' = LiveDirs
      PROVE  /\ inode_map' \subseteq inode_map /\ LiveDirs' = LiveDirs
             /\ \A j \in inode_map \ inode_map' : inodes[j].mode # "dir"
  BY <1>3
<1>4. /\ inode_map' \subseteq inode_map /\ LiveDirs' = LiveDirs
      /\ \A j \in inode_map \ inode_map' : inodes[j].mode # "dir"
  BY <1>2, <1>3, UnlinkLinks
<1> QED BY <1>1, <1>4

LEMMA UnlinkBefore ==
  ASSUME Fits, Fits', NEW dirs \in Seq(PathNames), NEW name, fs_unlink(dirs, name),
         NEW D, InodeMap \notin D, D \subseteq {BlockMap, InodeTable}
  PROVE  FitNext(D) /\ LinksNext(D) = Links
<1>1. LiveDirs' = LiveDirs /\ inodes' = inodes
  BY UnlinkFacts DEF Fits
<1>2. MapV(D) = inode_map /\ InoV(D) = inodes
  BY <1>1 DEF MapV, InoV
<1>3. DirV(D) = dirents
  <2>1. \A x \in DataBlocks : DirBlock(x) \notin D
    BY RegionsDiffer
  <2>2. dirents \in [DataBlocks -> [Slots -> Dirent]]
    BY MemoryTyped DEF Fits
  <2> QED BY <2>1, <2>2 DEF DirV
<1>4. \A d \in LiveDirs : inodes[d].direct0 \in block_map'
  BY <1>1 DEF Fits, IInv, DirBlocksOwned
<1>5. IInv'
  BY DEF Fits
<1> QED BY <1>2, <1>3, <1>4, <1>5, MapOnly DEF BlkV

LEMMA UnlinkAfter ==
  ASSUME Fits, Fits', NEW dirs \in Seq(PathNames), NEW name, fs_unlink(dirs, name),
         NEW D, {BlockMap, ParentBlock(dirs)} \subseteq D
  PROVE  /\ FitNext(D) /\ LinksNext(D) = Links'
         /\ InodeMap \in D \/ inode_map' = inode_map => ViewNext(D) = InMemory'
<1>1. /\ inode_map' \subseteq inode_map /\ inodes' = inodes /\ LiveDirs' = LiveDirs
      /\ \A j \in inode_map \ inode_map' : inodes[j].mode # "dir"
      /\ \A x \in DataBlocks : x # inodes[get_parent_inum(dirs)].direct0
            => dirents'[x] = dirents[x]
  BY UnlinkFacts DEF Fits
<1>2. BlkV(D) = block_map' /\ InoV(D) = inodes'
  BY <1>1 DEF BlkV, InoV
<1>3. DirV(D) = dirents'
  <2>1. ASSUME NEW x \in DataBlocks, DirBlock(x) \notin D PROVE dirents'[x] = dirents[x]
    BY <1>1, <2>1 DEF ParentBlock
  <2>2. dirents' \in [DataBlocks -> [Slots -> Dirent]]
    BY DEF Fits, IInv, TypeOK
  <2> QED BY <2>1, <2>2 DEF DirV
<1>4. Typed(MapV(D), BlkV(D), InoV(D), DirV(D))
  BY ViewTyped DEF Fits
<1>5. MapV(D) \in {inode_map, inode_map'}
  BY DEF MapV
<1>6. DirsIn(MapV(D), inodes) = LiveDirs' /\ NoFreeDir(MapV(D), inodes)
  <2>1. \A j \in Inums \ inode_map : inodes[j].mode # "dir"
    BY DEF Fits, FreeNotDir
  <2>2. DirsIn(MapV(D), inodes) = LiveDirs
    BY <1>1, <1>5 DEF DirsIn, LiveDirs
  <2>3. \A j \in Inums \ MapV(D) : inodes[j].mode # "dir"
    BY <1>1, <1>5, <2>1
  <2> QED BY <1>1, <2>2, <2>3 DEF NoFreeDir
<1>7. OwnBlocks(MapV(D), block_map', inodes')
  BY <1>1, <1>6 DEF OwnBlocks, Fits, IInv, DirBlocksOwned
<1>8. DirsIn(MapV(D), inodes') \ inode_map' = {}
  BY <1>1, <1>6 DEF LiveDirs
<1>9. Grown(inode_map', block_map', inodes', dirents', MapV(D), BlkV(D), InoV(D), DirV(D))
  BY <1>1, <1>2, <1>3, <1>4, <1>5, <1>6, <1>7, <1>8 DEF Grown
<1>10. FitNext(D) /\ LinksNext(D) = Links'
  BY <1>9, NewSide
<1>11. ASSUME InodeMap \in D \/ inode_map' = inode_map PROVE ViewNext(D) = InMemory'
  <2>1. MapV(D) = inode_map'
    BY <1>11 DEF MapV
  <2> QED BY <1>2, <1>3, <2>1 DEF ViewNext, InMemory
<1> QED BY <1>10, <1>11

-----------------------------------------------------------------------------
(* rmdir.  Its directory is empty, so that the links are the old ones      *)
(* until the parent is written, and then the new.                          *)
LEMMA RmdirBefore ==
  ASSUME Fits, NEW dirs \in Seq(PathNames), NEW name, fs_rmdir(dirs, name),
         NEW D, D \subseteq {BlockMap, InodeMap}
  PROVE  LinksNext(D) = Links
<1>1. PICK p, i, s : /\ p = get_parent_inum(dirs)
                     /\ i = translate_path_to_inum(dirs, name)
                     /\ s = Min(Matches(p, name))
  OBVIOUS
<1>2. /\ <<p, s>> \in LinkSlots /\ At(<<p, s>>).inode = i
      /\ LinkSlots' = LinkSlots \ {<<p, s>>}
      /\ i \in LiveDirs /\ inode_map' = inode_map \ {i}
      /\ \A j \in Slots : ~Entries(i)[j].valid
  BY <1>1, RmdirLinks DEF Fits
<1>3. InoV(D) = inodes /\ DirV(D) = dirents
  <2>1. InodeTable \notin D /\ \A x : DirBlock(x) \notin D
    BY RegionsDiffer
  <2>2. dirents \in [DataBlocks -> [Slots -> Dirent]]
    BY MemoryTyped DEF Fits
  <2> QED BY <2>1, <2>2 DEF InoV, DirV
<1>4. MapV(D) = inode_map \/ MapV(D) = inode_map \ {i}
  BY <1>2 DEF MapV
<1>5. DirsIn(MapV(D), inodes) = LiveDirs \/ DirsIn(MapV(D), inodes) = LiveDirs \ {i}
  BY <1>4 DEF DirsIn, LiveDirs
<1>6. LinksIn(MapV(D), inodes, dirents) = LinksIn(inode_map, inodes, dirents)
  BY <1>2, <1>5, MemoryImage, SameLinks
<1> QED BY <1>3, <1>6, MemoryLinks DEF LinksNext

LEMMA RmdirAfter ==
  ASSUME Fits, Fits', NEW dirs \in Seq(PathNames), NEW name, fs_rmdir(dirs, name),
         NEW D, {BlockMap, InodeMap, ParentBlock(dirs)} \subseteq D
  PROVE  /\ LinksNext(D) = Links'
         /\ InodeTable \in D => ViewNext(D) = InMemory'
<1>1. PICK p, i, s : /\ p = get_parent_inum(dirs)
                     /\ i = translate_path_to_inum(dirs, name)
                     /\ s = Min(Matches(p, name))
  OBVIOUS
<1>2. /\ <<p, s>> \in LinkSlots /\ At(<<p, s>>).inode = i
      /\ LinkSlots' = LinkSlots \ {<<p, s>>}
      /\ i \in LiveDirs /\ inode_map' = inode_map \ {i}
      /\ LiveDirs' = LiveDirs \ {i}
  BY <1>1, RmdirLinks DEF Fits
<1>3. MapV(D) = inode_map' /\ BlkV(D) = block_map'
  BY DEF MapV, BlkV
<1>4. DirV(D) = dirents'
  <2>1. dirents \in [DataBlocks -> [Slots -> Dirent]]
    BY MemoryTyped DEF Fits
  <2>2. ASSUME NEW x \in DataBlocks, DirBlock(x) \notin D PROVE dirents'[x] = dirents[x]
    BY <2>1, <2>2 DEF ParentBlock, fs_rmdir
  <2>3. dirents' \in [DataBlocks -> [Slots -> Dirent]]
    BY DEF Fits, IInv, TypeOK
  <2> QED BY <2>2, <2>3 DEF DirV
<1>5. \A j \in inode_map' : InoV(D)[j] = inodes'[j]
  <2>1. inodes \in [Inums -> Inode] /\ inode_map \subseteq Inums
    BY MemoryTyped DEF Fits
  <2>2. inodes' = [inodes EXCEPT ![i] = ZeroInode]
    BY <1>1 DEF fs_rmdir
  <2> QED BY <1>2, <2>1, <2>2 DEF InoV
<1>6. LinksIn(inode_map', InoV(D), dirents') = LinksIn(inode_map', inodes', dirents')
  <2>1. DirsIn(inode_map', InoV(D)) = DirsIn(inode_map', inodes')
    BY <1>5 DEF DirsIn
  <2>2. \A d \in DirsIn(inode_map', inodes') :
           EntriesIn(InoV(D), dirents', d) = EntriesIn(inodes', dirents', d)
    BY <1>5 DEF DirsIn, EntriesIn
  <2> QED BY <2>1, <2>2, SameLinks
<1>7. Links' = LinksIn(inode_map', inodes', dirents')
  <2>1. (Links = LinksIn(inode_map, inodes, dirents))'
    BY MemoryLinks, PTL
  <2> QED BY <2>1 DEF LinksIn
<1>8. InodeTable \in D => ViewNext(D) = InMemory'
  BY <1>3, <1>4 DEF ViewNext, InMemory, InoV
<1> QED BY <1>3, <1>4, <1>6, <1>7, <1>8 DEF LinksNext

-----------------------------------------------------------------------------
(* The writes of a handler, in its order.  The links change at most once,  *)
(* with the m-th write, and the image is the memory's after the last.      *)
Pre(n) == {pending'[k] : k \in 1 .. n}

Orderly ==
    /\ pending' \in Seq(Regions)
    /\ call' # "rmdir" => \A n \in 0 .. Len(pending') : FitNext(Pre(n))
    /\ \E m \in Nat : \A n \in 0 .. Len(pending') :
          LinksNext(Pre(n)) = IF n < m THEN Links ELSE Links'
    /\ ViewNext(Pre(Len(pending'))) = InMemory'

(* The region of a parent directory.                                       *)
LEMMA ParentRegion ==
  ASSUME IInv, NEW dirs, get_parent_inum(dirs) \in LiveDirs
  PROVE  /\ ParentBlock(dirs) \in Regions /\ {InodeMap, BlockMap, InodeTable} \subseteq Regions
         /\ ParentBlock(dirs) \notin {InodeMap, BlockMap, InodeTable}
<1>1. inodes[get_parent_inum(dirs)].direct0 \in DataBlocks
  BY DEF IInv, DirBlocksOwned
<1> QED BY <1>1, RegionsDiffer DEF ParentBlock, Regions

(* Two lists of writes, one after the other.                               *)
LEMMA Joined ==
  ASSUME NEW S, NEW s \in Seq(S), NEW t \in Seq(S)
  PROVE  /\ s \o t \in Seq(S) /\ Len(s \o t) = Len(s) + Len(t)
         /\ \A k \in 1 .. Len(s) : (s \o t)[k] = s[k]
         /\ \A k \in 1 .. Len(t) : (s \o t)[Len(s) + k] = t[k]
OBVIOUS

LEMMA MknodOrderly ==
  ASSUME Fits, Fits', NEW dirs \in Seq(PathNames), NEW name, NEW mode \in Modes,
         fs_mknod(dirs, name, mode), pending' = MknodWrites(dirs, mode)
  PROVE  Orderly
<1> DEFINE DB == DirBlock(get_free_block(block_map))
           PB == ParentBlock(dirs)
           N == IF mode = "dir" THEN 5 ELSE 3
<1>1. PICK p, i, s, b : /\ p = get_parent_inum(dirs) /\ i = get_free_inode
                        /\ s = FirstFree(p)
                        /\ b = IF mode = "dir" THEN get_free_block(block_map) ELSE 0
  OBVIOUS
<1>2. /\ p \in LiveDirs /\ i \in Inums \ inode_map /\ s \in Slots /\ b \in Blocks
      /\ mode = "dir" => b \in DataBlocks \ block_map
  BY <1>1, MknodEffect DEF Fits
<1>3. /\ PB \in Regions /\ {InodeMap, BlockMap, InodeTable} \subseteq Regions
      /\ PB \notin {InodeMap, BlockMap, InodeTable}
  BY <1>1, <1>2, ParentRegion DEF Fits
<1>4. mode = "dir" => DB \in Regions /\ PB # DB
  <2>1. inodes[p].direct0 \in block_map
    BY <1>2 DEF Fits, IInv, DirBlocksOwned
  <2> QED BY <1>1, <1>2, <2>1, RegionsDiffer DEF ParentBlock, Regions
<1>5. DB \notin {InodeMap, BlockMap, InodeTable}
  BY RegionsDiffer
<1>6. \A x : DirBlock(x) \notin {InodeMap, BlockMap, InodeTable}
  BY RegionsDiffer
<1>7. pending' = (IF mode = "dir" THEN <<BlockMap, DB>> ELSE <<>>) \o <<InodeMap, InodeTable, PB>>
  BY DEF MknodWrites
<1> HIDE DEF DB, PB
<1>8. /\ pending' \in Seq(Regions) /\ Len(pending') = N
      /\ mode = "dir" => /\ pending'[1] = BlockMap /\ pending'[2] = DB /\ pending'[3] = InodeMap
                         /\ pending'[4] = InodeTable /\ pending'[5] = PB
      /\ mode # "dir" => /\ pending'[1] = InodeMap /\ pending'[2] = InodeTable
                         /\ pending'[3] = PB
  <2>1. <<InodeMap, InodeTable, PB>> \in Seq(Regions)
    BY <1>3
  <2>2. CASE mode = "dir"
    <3>1. <<BlockMap, DB>> \in Seq(Regions)
      BY <1>3, <1>4, <2>2
    <3>2. pending' = <<BlockMap, DB>> \o <<InodeMap, InodeTable, PB>>
      BY <1>7, <2>2
    <3>3. PICK u, v : u = <<BlockMap, DB>> /\ v = <<InodeMap, InodeTable, PB>>
      OBVIOUS
    <3>4. /\ u \in Seq(Regions) /\ v \in Seq(Regions) /\ Len(u) = 2 /\ Len(v) = 3
          /\ u[1] = BlockMap /\ u[2] = DB
          /\ v[1] = InodeMap /\ v[2] = InodeTable /\ v[3] = PB
      BY <2>1, <3>1, <3>3
    <3>5. /\ pending' \in Seq(Regions) /\ Len(pending') = 5
          /\ \A k \in 1 .. 2 : pending'[k] = u[k]
          /\ \A k \in 1 .. 3 : pending'[2 + k] = v[k]
      BY <3>2, <3>3, <3>4, Joined
    <3>6. /\ pending'[2 + 1] = v[1] /\ pending'[2 + 2] = v[2] /\ pending'[2 + 3] = v[3]
          /\ pending'[1] = u[1] /\ pending'[2] = u[2]
      BY <3>5
    <3> QED BY <2>2, <3>4, <3>5, <3>6
  <2>3. CASE mode # "dir"
    <3>1. pending' = <<InodeMap, InodeTable, PB>>
      BY <1>7, <2>1, <2>3
    <3> QED BY <2>1, <2>3, <3>1
  <2> QED BY <2>2, <2>3
<1>9. ASSUME NEW n \in 0 .. N - 1
      PROVE  FitNext(Pre(n)) /\ LinksNext(Pre(n)) = Links
  <2>1. /\ PB \notin Pre(n)
        /\ \A x \in DataBlocks : DirBlock(x) \in Pre(n) => mode = "dir" /\ DirBlock(x) = DB
    BY <1>3, <1>4, <1>5, <1>6, <1>8 DEF Pre
  <2>2. InodeTable \in Pre(n) => InodeMap \in Pre(n)
    <3>1. CASE mode = "dir"
      <4>1. InodeTable \in Pre(n) => n = 4
        BY <1>3, <1>5, <1>8, <3>1, RegionsDiffer DEF Pre
      <4> QED BY <1>8, <3>1, <4>1 DEF Pre
    <3>2. CASE mode # "dir"
      <4>1. InodeTable \in Pre(n) => n = 2
        BY <1>3, <1>5, <1>8, <3>2, RegionsDiffer DEF Pre
      <4> QED BY <1>8, <3>2, <4>1 DEF Pre
    <3> QED BY <3>1, <3>2
  <2>3. InodeTable \in Pre(n) /\ mode = "dir" => BlockMap \in Pre(n) /\ DB \in Pre(n)
    <3>1. InodeTable \in Pre(n) /\ mode = "dir" => n = 4
      BY <1>3, <1>5, <1>8, RegionsDiffer DEF Pre
    <3> QED BY <1>8, <3>1 DEF Pre
  <2> QED BY <2>1, <2>2, <2>3, MknodViews DEF PB, DB
<1>10. FitNext(Pre(N)) /\ LinksNext(Pre(N)) = Links' /\ ViewNext(Pre(N)) = InMemory'
  <2>1. {InodeMap, InodeTable, PB} \subseteq Pre(N)
    BY <1>8 DEF Pre
  <2>2. mode = "dir" => {BlockMap, DB} \subseteq Pre(N)
    BY <1>8 DEF Pre
  <2> QED BY <2>1, <2>2, MknodWhole DEF PB, DB
<1>11. \A n \in 0 .. N : n = N \/ n \in 0 .. N - 1
  OBVIOUS
<1>12. \A n \in 0 .. Len(pending') : FitNext(Pre(n))
  BY <1>8, <1>9, <1>10, <1>11
<1>13. \A n \in 0 .. Len(pending') : LinksNext(Pre(n)) = IF n < N THEN Links ELSE Links'
  BY <1>8, <1>9, <1>10, <1>11
<1>14. \E m \in Nat : \A n \in 0 .. Len(pending') :
          LinksNext(Pre(n)) = IF n < m THEN Links ELSE Links'
  <2>1. N \in Nat
    OBVIOUS
  <2> QED BY <1>13, <2>1
<1> QED BY <1>8, <1>10, <1>12, <1>14 DEF Orderly

LEMMA UnlinkOrderly ==
  ASSUME Fits, Fits', NEW dirs \in Seq(PathNames), NEW name, fs_unlink(dirs, name),
         pending' = UnlinkWrites(dirs, name)
  PROVE  Orderly
<1> DEFINE PB == ParentBlock(dirs)
           short == \/ UnlinkSlots(get_parent_inum(dirs), name) = {}
                    \/ Entries(get_parent_inum(dirs))[Min(UnlinkSlots(get_parent_inum(dirs), name))].isDir
           N == IF short THEN 2 ELSE 5
<1>1. get_parent_inum(dirs) \in LiveDirs
  <2>1. ~(translate_path_to_inum(dirs, name) < 0)
    BY DEF fs_unlink, unlink_errno
  <2> QED BY <2>1, Translated DEF Fits
<1>2. /\ PB \in Regions /\ {InodeMap, BlockMap, InodeTable} \subseteq Regions
      /\ PB \notin {InodeMap, BlockMap, InodeTable}
  BY <1>1, ParentRegion DEF Fits
<1>3. pending' = <<BlockMap, InodeTable>>
                 \o (IF short THEN <<>> ELSE <<PB, InodeTable, InodeMap>>)
  BY DEF UnlinkWrites
<1>4. short => UNCHANGED <<inode_map, dirents>>
  BY DEF fs_unlink
<1>5. inodes' = inodes /\ LiveDirs' = LiveDirs
  BY UnlinkFacts DEF Fits
<1> HIDE DEF PB, short
<1>6. /\ pending' \in Seq(Regions) /\ Len(pending') = N
      /\ pending'[1] = BlockMap /\ pending'[2] = InodeTable
      /\ ~short => pending'[3] = PB /\ pending'[4] = InodeTable /\ pending'[5] = InodeMap
  <2>1. <<BlockMap, InodeTable>> \in Seq(Regions)
    BY <1>2
  <2>2. CASE short
    <3>1. pending' = <<BlockMap, InodeTable>>
      BY <1>3, <2>1, <2>2
    <3> QED BY <2>1, <2>2, <3>1
  <2>3. CASE ~short
    <3>1. <<PB, InodeTable, InodeMap>> \in Seq(Regions)
      BY <1>2
    <3>2. pending' = <<BlockMap, InodeTable>> \o <<PB, InodeTable, InodeMap>>
      BY <1>3, <2>3
    <3> QED BY <2>1, <2>3, <3>1, <3>2
  <2> QED BY <2>2, <2>3
<1>7. ASSUME NEW n \in 0 .. 2
      PROVE  FitNext(Pre(n)) /\ LinksNext(Pre(n)) = Links
  <2>1. Pre(n) \subseteq {BlockMap, InodeTable} /\ InodeMap \notin Pre(n)
    BY <1>6, RegionsDiffer DEF Pre
  <2> QED BY <2>1, UnlinkBefore
<1>8. CASE ~short
  <2>1. ASSUME NEW n \in 3 .. 5
        PROVE  /\ FitNext(Pre(n)) /\ LinksNext(Pre(n)) = Links'
               /\ n = 5 => ViewNext(Pre(n)) = InMemory'
    <3>1. {BlockMap, PB} \subseteq Pre(n) /\ (n = 5 => InodeMap \in Pre(n))
      BY <1>6, <1>8 DEF Pre
    <3> QED BY <3>1, UnlinkAfter DEF PB
  <2>2. \A n \in 0 .. 5 : n \in 0 .. 2 \/ n \in 3 .. 5
    OBVIOUS
  <2>3. \A n \in 0 .. Len(pending') : FitNext(Pre(n))
    BY <1>6, <1>7, <1>8, <2>1, <2>2
  <2>4. \A n \in 0 .. Len(pending') : LinksNext(Pre(n)) = IF n < 3 THEN Links ELSE Links'
    BY <1>6, <1>7, <1>8, <2>1, <2>2
  <2>5. \E m \in Nat : \A n \in 0 .. Len(pending') :
           LinksNext(Pre(n)) = IF n < m THEN Links ELSE Links'
    <3>1. 3 \in Nat
      OBVIOUS
    <3> QED BY <2>4, <3>1
  <2>6. ViewNext(Pre(Len(pending'))) = InMemory'
    BY <1>6, <1>8, <2>1
  <2> QED BY <1>6, <2>3, <2>5, <2>6 DEF Orderly
<1>9. CASE short
  <2>1. \A n \in 0 .. Len(pending') : FitNext(Pre(n))
    BY <1>6, <1>7, <1>9
  <2>2. \A n \in 0 .. Len(pending') : LinksNext(Pre(n)) = IF n < 3 THEN Links ELSE Links'
    BY <1>6, <1>7, <1>9
  <2>3. \E m \in Nat : \A n \in 0 .. Len(pending') :
           LinksNext(Pre(n)) = IF n < m THEN Links ELSE Links'
    <3>1. 3 \in Nat
      OBVIOUS
    <3> QED BY <2>2, <3>1
  <2>4. ViewNext(Pre(Len(pending'))) = InMemory'
    <3>1. Pre(Len(pending')) = {BlockMap, InodeTable}
      BY <1>6, <1>9 DEF Pre
    <3>2. \A x \in DataBlocks : DirBlock(x) \notin {BlockMap, InodeTable}
      BY RegionsDiffer
    <3>3. DirV({BlockMap, InodeTable}) = dirents
      <4>1. dirents \in [DataBlocks -> [Slots -> Dirent]]
        BY MemoryTyped DEF Fits
      <4> QED BY <3>2, <4>1 DEF DirV
    <3>4. MapV({BlockMap, InodeTable}) = inode_map
      BY RegionsDiffer DEF MapV
    <3> QED BY <1>4, <1>9, <3>1, <3>3, <3>4 DEF ViewNext, InMemory, BlkV, InoV
  <2> QED BY <1>6, <2>1, <2>3, <2>4 DEF Orderly
<1> QED BY <1>8, <1>9

LEMMA RmdirOrderly ==
  ASSUME Fits, Fits', NEW dirs \in Seq(PathNames), NEW name, fs_rmdir(dirs, name),
         pending' = RmdirWrites(dirs, name), call' = "rmdir"
  PROVE  Orderly
<1> DEFINE PB == ParentBlock(dirs)
<1>1. /\ get_parent_inum(dirs) \in LiveDirs
      /\ SlotsOfInode(get_parent_inum(dirs), translate_path_to_inum(dirs, name)) # {}
  <2>1. PICK p, i : p = get_parent_inum(dirs) /\ i = translate_path_to_inum(dirs, name)
    OBVIOUS
  <2>2. ~(translate_path_to_inum(dirs, name) < 0)
    BY DEF fs_rmdir, rmdir_errno
  <2>3. p \in LiveDirs /\ Found(p, name) /\ i = Entry(p, name).inode
    BY <2>1, <2>2, Translated DEF Fits
  <2>4. SlotsOfInode(p, Entry(p, name).inode) # {}
    BY <2>3, SlotByInode DEF Fits
  <2> QED BY <2>1, <2>3, <2>4
<1>2. /\ PB \in Regions /\ {InodeMap, BlockMap, InodeTable} \subseteq Regions
      /\ PB \notin {InodeMap, BlockMap, InodeTable}
  BY <1>1, ParentRegion DEF Fits
<1>3. pending' = <<BlockMap>> \o <<InodeMap>> \o <<PB, InodeTable>>
  BY <1>1 DEF RmdirWrites
<1> HIDE DEF PB
<1>4. /\ pending' \in Seq(Regions) /\ Len(pending') = 4
      /\ pending'[1] = BlockMap /\ pending'[2] = InodeMap
      /\ pending'[3] = PB /\ pending'[4] = InodeTable
  <2>1. PICK a \in Regions, b \in Regions, c \in Regions, d \in Regions :
            a = BlockMap /\ b = InodeMap /\ c = PB /\ d = InodeTable
    BY <1>2
  <2>2. PICK s : s = pending'
    OBVIOUS
  <2>3. s = <<a>> \o <<b>> \o <<c, d>>
    BY <1>3, <2>1, <2>2
  <2>4. s \in Seq(Regions) /\ Len(s) = 4 /\ s[1] = a /\ s[2] = b /\ s[3] = c /\ s[4] = d
    BY <2>3
  <2> QED BY <2>1, <2>2, <2>4
<1>5. ASSUME NEW n \in 0 .. 2
      PROVE  LinksNext(Pre(n)) = Links
  <2>1. Pre(n) \subseteq {BlockMap, InodeMap}
    BY <1>4 DEF Pre
  <2> QED BY <2>1, RmdirBefore
<1>6. ASSUME NEW n \in 3 .. 4
      PROVE  LinksNext(Pre(n)) = Links' /\ (n = 4 => ViewNext(Pre(n)) = InMemory')
  <2>1. {BlockMap, InodeMap, PB} \subseteq Pre(n) /\ (n = 4 => InodeTable \in Pre(n))
    BY <1>4 DEF Pre
  <2> QED BY <2>1, RmdirAfter DEF PB
<1>7. \A n \in 0 .. 4 : n \in 0 .. 2 \/ n \in 3 .. 4
  OBVIOUS
<1>8. \A n \in 0 .. Len(pending') : LinksNext(Pre(n)) = IF n < 3 THEN Links ELSE Links'
  BY <1>4, <1>5, <1>6, <1>7
<1>9. \E m \in Nat : \A n \in 0 .. Len(pending') :
         LinksNext(Pre(n)) = IF n < m THEN Links ELSE Links'
  <2>1. 3 \in Nat
    OBVIOUS
  <2> QED BY <1>8, <2>1
<1>10. ViewNext(Pre(Len(pending'))) = InMemory'
  <2>1. 4 \in 3 .. 4 /\ Len(pending') = 4
    BY <1>4
  <2> QED BY <1>6, <2>1
<1>11. Len(pending') > 1 /\ call' = "rmdir"
  BY <1>4
<1> QED BY <1>4, <1>9, <1>10, <1>11 DEF Orderly

(* rename writes the inode table, which it does not change, and then the   *)
(* directory.                                                              *)
LEMMA RenameOrderly ==
  ASSUME Fits, Fits', NEW dirs \in Seq(PathNames), NEW name, NEW dstDirs, NEW dstName,
         fs_rename(dirs, name, dstDirs, dstName), pending' = RenameWrites(dirs)
  PROVE  Orderly
<1> DEFINE PB == ParentBlock(dirs)
<1>1. get_parent_inum(dirs) \in LiveDirs
  <2>1. ~(translate_path_to_inum(dirs, name) < 0)
    BY DEF fs_rename, rename_errno
  <2> QED BY <2>1, Translated DEF Fits
<1>2. /\ PB \in Regions /\ {InodeMap, BlockMap, InodeTable} \subseteq Regions
      /\ PB \notin {InodeMap, BlockMap, InodeTable}
  BY <1>1, ParentRegion DEF Fits
<1>3. UNCHANGED <<inode_map, block_map, inodes>>
  BY DEF fs_rename
<1>4. dirents \in [DataBlocks -> [Slots -> Dirent]] /\ dirents' \in [DataBlocks -> [Slots -> Dirent]]
  BY DEF Fits, IInv, TypeOK
<1>5. \A x \in DataBlocks : DirBlock(x) # PB => dirents'[x] = dirents[x]
  BY <1>4 DEF fs_rename, ParentBlock
<1>6. pending' = <<InodeTable, PB>>
  BY DEF RenameWrites
<1> HIDE DEF PB
<1>7. pending' \in Seq(Regions) /\ Len(pending') = 2
      /\ pending'[1] = InodeTable /\ pending'[2] = PB
  BY <1>2, <1>6
<1>8. ASSUME NEW n \in 0 .. 1
      PROVE  FitNext(Pre(n)) /\ LinksNext(Pre(n)) = Links
  <2>1. Pre(n) \subseteq {InodeTable}
    BY <1>7 DEF Pre
  <2>2. DirV(Pre(n)) = dirents
    <3>1. \A x : DirBlock(x) \notin Pre(n)
      BY <2>1, RegionsDiffer
    <3> QED BY <1>4, <3>1 DEF DirV
  <2>3. MapV(Pre(n)) = inode_map /\ InoV(Pre(n)) = inodes /\ BlkV(Pre(n)) = block_map
    BY <1>3 DEF MapV, InoV, BlkV
  <2>4. IInv'
    BY DEF Fits
  <2> QED BY <2>2, <2>3, <2>4, MapOnly
<1>9. FitNext(Pre(2)) /\ LinksNext(Pre(2)) = Links' /\ ViewNext(Pre(2)) = InMemory'
  <2>1. PB \in Pre(2)
    BY <1>7 DEF Pre
  <2>2. DirV(Pre(2)) = dirents'
    BY <1>4, <1>5, <2>1 DEF DirV
  <2>3. MapV(Pre(2)) = inode_map' /\ InoV(Pre(2)) = inodes' /\ BlkV(Pre(2)) = block_map'
    BY <1>3 DEF MapV, InoV, BlkV
  <2> QED BY <2>2, <2>3, Whole
<1>10. \A n \in 0 .. 2 : n = 2 \/ n \in 0 .. 1
  OBVIOUS
<1>11. \A n \in 0 .. Len(pending') : FitNext(Pre(n))
  BY <1>7, <1>8, <1>9, <1>10
<1>12. \A n \in 0 .. Len(pending') : LinksNext(Pre(n)) = IF n < 2 THEN Links ELSE Links'
  BY <1>7, <1>8, <1>9, <1>10
<1>13. \E m \in Nat : \A n \in 0 .. Len(pending') :
          LinksNext(Pre(n)) = IF n < m THEN Links ELSE Links'
  <2>1. 2 \in Nat
    OBVIOUS
  <2> QED BY <1>12, <2>1
<1> QED BY <1>7, <1>9, <1>11, <1>13 DEF Orderly

LEMMA DataOrderly ==
  ASSUME Fits, Fits', FileData, pending' = DataWrites
  PROVE  Orderly
<1>1. UNCHANGED <<inode_map, inodes, dirents>>
  BY DEF FileData
<1>2. dirents \in [DataBlocks -> [Slots -> Dirent]]
  BY DEF Fits, IInv, TypeOK
<1>3. pending' \in Seq(Regions) /\ Len(pending') = 1 /\ pending'[1] = BlockMap
  BY DEF DataWrites, Regions
<1>4. Links' = Links
  BY <1>1 DEF Links, LinkSlots, LiveDirs, At, Entries
<1>5. ASSUME NEW n \in 0 .. 1
      PROVE  /\ FitNext(Pre(n)) /\ LinksNext(Pre(n)) = Links
             /\ n = 1 => ViewNext(Pre(n)) = InMemory'
  <2>1. DirV(Pre(n)) = dirents
    BY <1>1, <1>2 DEF DirV
  <2>2. MapV(Pre(n)) = inode_map /\ InoV(Pre(n)) = inodes
    BY <1>1 DEF MapV, InoV
  <2>3. BlkV(Pre(n)) = block_map \/ BlkV(Pre(n)) = block_map'
    BY DEF BlkV
  <2>4. \A d \in LiveDirs : inodes[d].direct0 \in block_map'
    <3>1. LiveDirs' = LiveDirs
      BY <1>1 DEF LiveDirs
    <3> QED BY <1>1, <3>1 DEF Fits, IInv, DirBlocksOwned
  <2>5. IInv'
    BY DEF Fits
  <2>6. n = 1 => BlkV(Pre(n)) = block_map'
    BY <1>3 DEF BlkV, Pre
  <2>7. FitNext(Pre(n)) /\ LinksNext(Pre(n)) = Links
    BY <2>1, <2>2, <2>3, <2>4, <2>5, MapOnly
  <2> QED BY <1>1, <2>1, <2>2, <2>6, <2>7 DEF ViewNext, InMemory
<1>6. \A n \in 0 .. Len(pending') : FitNext(Pre(n))
  BY <1>3, <1>5
<1>7. \A n \in 0 .. Len(pending') : LinksNext(Pre(n)) = IF n < 1 THEN Links ELSE Links'
  BY <1>3, <1>4, <1>5
<1>8. \E m \in Nat : \A n \in 0 .. Len(pending') :
         LinksNext(Pre(n)) = IF n < m THEN Links ELSE Links'
  <2>1. 1 \in Nat
    OBVIOUS
  <2> QED BY <1>7, <2>1
<1>9. ViewNext(Pre(Len(pending'))) = InMemory'
  BY <1>3, <1>5
<1> QED BY <1>3, <1>6, <1>8, <1>9 DEF Orderly

(* The two ways to write an image in the middle of the writes of a call.   *)
LEMMA ViewAhead ==
  ASSUME disk = InMemory, disk' = disk, NEW n
  PROVE  View(Done(n))' = ViewNext(Pre(n))
<1>1. Done(n)' = Pre(n)
  BY DEF Done, Pre
<1>2. /\ disk'.inode_map = inode_map /\ disk'.block_map = block_map
      /\ disk'.inodes = inodes /\ disk'.dirents = dirents
  BY DEF InMemory
<1> QED BY <1>1, <1>2 DEF View, ViewNext, MapV, BlkV, InoV, DirV

(* A call that starts on an image as the memory has it.                    *)
LEMMA BeginCrash ==
  ASSUME CrashInv, Fits', pending = <<>>, disk' = disk, call' \in Calls, Orderly
  PROVE  CrashInv'
<1>1. disk = InMemory
  BY Settled
<1>2. IInv' /\ Rooted' /\ FreeNotDir'
  BY DEF Fits
<1>3. disk' \in Images /\ pending' \in Seq(Regions)
  BY DEF CrashInv, Orderly
<1>4. call' # "rmdir" => \A n \in 0 .. Len(pending') : FitImage(View(Done(n)))'
  <2> SUFFICES ASSUME call' # "rmdir", NEW n \in 0 .. Len(pending')
               PROVE  FitImage(View(Done(n)))'
    OBVIOUS
  <2>1. FitNext(Pre(n))
    BY DEF Orderly
  <2>2. View(Done(n))' = ViewNext(Pre(n))
    BY <1>1, ViewAhead
  <2>3. FitImage(View(Done(n)))' <=> FitImage(View(Done(n))')
    BY DEF FitImage, Fit
  <2>4. FitImage(ViewNext(Pre(n))) <=> FitNext(Pre(n))
    BY DEF FitImage, FitNext, ViewNext
  <2> QED BY <2>1, <2>2, <2>3, <2>4
<1>5. View(Done(Len(pending)))' = InMemory'
  <2>1. PICK n \in Nat : n = Len(pending')
    BY <1>3
  <2>2. View(Done(Len(pending)))' = View(Done(n))'
    BY <2>1, ViewOf
  <2>3. View(Done(n))' = ViewNext(Pre(n))
    BY <1>1, ViewAhead
  <2> QED BY <2>1, <2>2, <2>3 DEF Orderly
<1> QED BY <1>2, <1>3, <1>4, <1>5 DEF CrashInv

-----------------------------------------------------------------------------
(* The calls, all together.                                                *)
Handler ==
    \/ \E dirs \in PathDirs, name \in PathNames :
          \/ mknod(dirs, name) \/ mkdir(dirs, name)
          \/ unlink(dirs, name) \/ rmdir(dirs, name)
          \/ \E dstName \in PathNames : rename(dirs, name, dstName)
    \/ write

LEMMA HandlerNext ==
  ASSUME Handler
  PROVE  Next /\ pending = <<>> /\ disk' = disk /\ call' \in Calls
<1>1. ASSUME NEW dirs \in PathDirs, NEW name \in PathNames,
             mknod(dirs, name) \/ mkdir(dirs, name)
      PROVE  Next /\ pending = <<>> /\ disk' = disk /\ call' \in Calls
  BY <1>1 DEF mknod, mkdir, Begin, Next, Calls
<1>2. ASSUME NEW dirs \in PathDirs, NEW name \in PathNames,
             unlink(dirs, name) \/ rmdir(dirs, name)
      PROVE  Next /\ pending = <<>> /\ disk' = disk /\ call' \in Calls
  BY <1>2 DEF unlink, rmdir, Begin, Next, Calls
<1>3. ASSUME NEW dirs \in PathDirs, NEW name \in PathNames, NEW dstName \in PathNames,
             rename(dirs, name, dstName)
      PROVE  Next /\ pending = <<>> /\ disk' = disk /\ call' \in Calls
  BY <1>3 DEF rename, Begin, Next, Calls
<1>4. ASSUME write
      PROVE  Next /\ pending = <<>> /\ disk' = disk /\ call' \in Calls
  BY <1>4 DEF write, Begin, Next, Calls
<1> QED BY <1>1, <1>2, <1>3, <1>4 DEF Handler

LEMMA HandlerOrderly ==
  ASSUME Fits, Fits', Handler
  PROVE  Orderly
<1>1. ASSUME NEW dirs \in Seq(PathNames), NEW name, mknod(dirs, name) \/ mkdir(dirs, name)
      PROVE  Orderly
  <2>1. PICK mode \in Modes : fs_mknod(dirs, name, mode) /\ pending' = MknodWrites(dirs, mode)
    BY <1>1, NamesAssumption DEF mknod, mkdir, fs_mkdir, Begin, Modes
  <2> QED BY <2>1, MknodOrderly
<1>2. ASSUME NEW dirs \in Seq(PathNames), NEW name, unlink(dirs, name)
      PROVE  Orderly
  <2>1. fs_unlink(dirs, name) /\ pending' = UnlinkWrites(dirs, name)
    BY <1>2 DEF unlink, Begin
  <2> QED BY <2>1, UnlinkOrderly
<1>3. ASSUME NEW dirs \in Seq(PathNames), NEW name, rmdir(dirs, name)
      PROVE  Orderly
  <2>1. fs_rmdir(dirs, name) /\ pending' = RmdirWrites(dirs, name) /\ call' = "rmdir"
    BY <1>3 DEF rmdir, Begin
  <2> QED BY <2>1, RmdirOrderly
<1>4. ASSUME NEW dirs \in Seq(PathNames), NEW name, NEW dstName, rename(dirs, name, dstName)
      PROVE  Orderly
  <2>1. fs_rename(dirs, name, dirs, dstName) /\ pending' = RenameWrites(dirs)
    BY <1>4 DEF rename, Begin
  <2> QED BY <2>1, RenameOrderly
<1>5. ASSUME write
      PROVE  Orderly
  <2>1. FileData /\ pending' = DataWrites
    BY <1>5 DEF write, Begin
  <2> QED BY <2>1, DataOrderly
<1>6. PathDirs \subseteq Seq(PathNames)
  BY NamesAssumption
<1> QED BY <1>1, <1>2, <1>3, <1>4, <1>5, <1>6 DEF Handler

LEMMA NextCrash == NoRmdirCrash /\ CrashInv /\ [CrashNext]_crashVars => CrashInv'
<1> SUFFICES ASSUME NoRmdirCrash, CrashInv, [CrashNext]_crashVars
             PROVE  CrashInv'
  OBVIOUS
<1>1. CASE Handler
  <2>1. Next /\ pending = <<>> /\ disk' = disk /\ call' \in Calls
    BY <1>1, HandlerNext
  <2>2. Fits /\ Fits'
    BY <2>1, NextIInv, NextRooted, NextFreeNotDir DEF Fits, CrashInv
  <2>3. Orderly
    BY <1>1, <2>2, HandlerOrderly
  <2> QED BY <2>1, <2>2, <2>3, BeginCrash
<1>2. CASE WriteBack
  BY <1>2, WriteBackCrash
<1>3. CASE fs_init
  BY <1>3, RestartCrash
<1>4. CASE UNCHANGED crashVars
  <2>1. /\ UNCHANGED <<inode_map, block_map, inodes, dirents, disk, pending, call>>
        /\ UNCHANGED vars
    BY <1>4 DEF crashVars, memory, vars
  <2>2. IInv' /\ Rooted' /\ FreeNotDir'
    BY <2>1, NextIInv, NextRooted, NextFreeNotDir DEF CrashInv
  <2>3. \A n : View(Done(n))' = View(Done(n))
    BY <2>1 DEF View, Done
  <2>4. \A n : FitImage(View(Done(n)))' <=> FitImage(View(Done(n)))
    BY <2>3 DEF FitImage, Fit
  <2>5. View(Done(Len(pending)))' = View(Done(Len(pending))) /\ InMemory' = InMemory
    BY <2>1 DEF View, Done, InMemory
  <2> QED BY <2>1, <2>2, <2>4, <2>5 DEF CrashInv
<1> QED BY <1>1, <1>2, <1>3, <1>4 DEF CrashNext, Handler

LEMMA AlwaysCrashInv ==
  ASSUME NoRmdirCrash
  PROVE  CrashSpec => []CrashInv
<1> QED BY StartCrash, NextCrash, PTL DEF CrashSpec

-----------------------------------------------------------------------------
(* The properties.                                                         *)

(* The memory, the image, the writes that are left and the running handler *)
(* have their types, whatever was interrupted by a crash.                  *)
THEOREM CrashTypeCorrect ==
  ASSUME NoRmdirCrash
  PROVE  CrashSpec => []CrashTypeOK
<1>1. CrashInv => CrashTypeOK
  BY DEF CrashInv, CrashTypeOK, IInv, Images
<1> QED BY <1>1, AlwaysCrashInv, PTL

(* Each handler ends with everything that it changed on the image: the     *)
(* regions that it writes, in any case, cover what it changes.  A restart  *)
(* between two calls forgets nothing.                                      *)
THEOREM HandlersWriteThrough ==
  ASSUME NoRmdirCrash
  PROVE  CrashSpec => []WriteThrough
<1>1. CrashInv => WriteThrough
  BY Settled DEF WriteThrough
<1> QED BY <1>1, AlwaysCrashInv, PTL

(* The operators of FsNames on the image.                                  *)
LEMMA ImageParts ==
  /\ Image!LiveDirs = DirsIn(disk.inode_map, disk.inodes)
  /\ Image!LinkSlots = SlotsIn(disk.inode_map, disk.inodes, disk.dirents)
  /\ \A d : Image!Entries(d) = EntriesIn(disk.inodes, disk.dirents, d)
  /\ \A x : Image!At(x) = AtIn(disk.inodes, disk.dirents, x)
BY DEF Image!LiveDirs, DirsIn, Image!LinkSlots, SlotsIn, Image!Entries, EntriesIn, Image!At,
       AtIn, Image!Slots, Slots

LEMMA ImageAttached ==
  ASSUME FitImage(disk)
  PROVE  Image!Attached
<1> DEFINE S == Image!Level[NumInodes]
<1>1. Image!Level = LevelIn(disk.inode_map, disk.inodes, disk.dirents)
  BY DEF Image!Level, LevelIn, NearIn, Image!LinkSlots, SlotsIn, Image!LiveDirs, DirsIn,
         Image!Entries, EntriesIn, Image!At, AtIn, Image!Slots, Slots, Image!ROOT, ROOT
<1>2. LiveIn(disk.inode_map, disk.inodes, disk.dirents)
  BY DEF FitImage, Fit, Typed, RootIn, LiveRefs, LiveIn, DirsIn
<1>3. /\ S \subseteq disk.inode_map \ {0}
      /\ ClosedIn(disk.inode_map, disk.inodes, disk.dirents, S)
  BY <1>1, <1>2, LastLevelClosed
<1>4. S \in SUBSET Inums
  BY <1>3 DEF FitImage, Fit, Typed
<1> HIDE DEF S
<1>5. \A x \in Image!LinkSlots : x[1] \in S
  BY <1>3, <1>4, ImageParts DEF FitImage, Fit, RootedIn
<1> QED BY <1>5 DEF Image!Attached, S

(* Wherever a handler other than rmdir is interrupted, and after any       *)
(* number of restarts, the image is consistent up to lost inodes and       *)
(* blocks: the order of the writes never lets an entry lead to an inode or *)
(* a directory to a block that is not there.                               *)
THEOREM ImageStaysSound ==
  ASSUME NoRmdirCrash
  PROVE  CrashSpec => []ImageSound
<1>1. CrashInv => ImageSound
  <2> SUFFICES ASSUME CrashInv, MayEnd
               PROVE  /\ Image!RefsLive /\ Image!RefsUnique
                      /\ Image!DirBlocksOwned /\ Image!StaleAfterValid /\ Image!Attached
    BY DEF ImageSound
  <2>1. FitImage(disk)
    BY EndFit
  <2>2. Image!RefsLive /\ Image!RefsUnique
    BY <2>1, ImageParts DEF Image!RefsLive, Image!RefsUnique, FitImage, Fit, LiveRefs, UniqueRefs,
       Image!ROOT, ROOT
  <2>3. Image!DirBlocksOwned /\ Image!StaleAfterValid
    BY <2>1, ImageParts DEF Image!DirBlocksOwned, Image!StaleAfterValid, FitImage, Fit, OwnBlocks,
       StaleLater, Image!Slots, Slots, Image!DataBlocks, DataBlocks
  <2> QED BY <2>1, <2>2, <2>3, ImageAttached
<1> QED BY <1>1, AlwaysCrashInv, PTL

LEMMA FitReadable ==
  ASSUME NEW im, NEW bm, NEW ino, NEW dir, Fit(im, bm, ino, dir)
  PROVE  Readable(im, bm, ino, dir)
<1>1. im \subseteq Inums /\ ROOT \in DirsIn(im, ino)
  BY DEF Fit, Typed, RootIn
<1>2. ASSUME NEW x \in SlotsIn(im, ino, dir)
      PROVE  /\ AtIn(ino, dir, x).isDir \in BOOLEAN
             /\ AtIn(ino, dir, x).inode \in im \ {0, ROOT}
             /\ AtIn(ino, dir, x).isDir <=> ino[AtIn(ino, dir, x).inode].mode = "dir"
  <2>1. x[1] \in DirsIn(im, ino) /\ x[2] \in Slots
    BY DEF SlotsIn
  <2>2. ino[x[1]].direct0 \in DataBlocks
    BY <2>1 DEF Fit, OwnBlocks
  <2>3. AtIn(ino, dir, x) \in Dirent
    BY <2>1, <2>2 DEF Fit, Typed, AtIn, EntriesIn
  <2> QED BY <2>3 DEF Fit, LiveRefs, Dirent
<1>3. \A x, y \in SlotsIn(im, ino, dir) :
         AtIn(ino, dir, x).inode = AtIn(ino, dir, y).inode => x = y
  BY DEF Fit, UniqueRefs
<1>4. \A d \in DirsIn(im, ino) : ino[d].direct0 \in bm
  BY DEF Fit, OwnBlocks
<1> QED BY <1>1, <1>2, <1>3, <1>4 DEF Readable

(* The traversal of read-img on the image.                                 *)
LEMMA ImageListing ==
  ASSUME NEW t, NEW d
  PROVE  Image!ListDirectory(t, d) = UptoIn(disk.inode_map, disk.inodes, disk.dirents, t, d)[MaxEntries]
BY DEF Image!ListDirectory, UptoIn, SlotStepIn, Image!ListEntry, ListEntryIn, Image!Entries,
       EntriesIn

LEMMA ImageVisit ==
  ASSUME NEW t
  PROVE  Image!Visit(t)
            = VisitIn(disk.inode_map, disk.block_map, disk.inodes, disk.dirents, t)
BY ImageListing DEF Image!Visit, VisitIn, OpenIn

LEMMA ImageTraversal ==
  Image!Traversal
     = VisitsIn(disk.inode_map, disk.block_map, disk.inodes, disk.dirents)[NumInodes]
BY ImageVisit DEF Image!Traversal, VisitsIn, Image!Start, Start, Image!ROOT, ROOT

(* read-img reports no error on an image that a handler other than rmdir   *)
(* was interrupted on, or that restarts have gone on from: what such a     *)
(* crash loses is only unreachable.                                        *)
THEOREM ReadImgStaysSilent ==
  ASSUME NoRmdirCrash
  PROVE  CrashSpec => []ReadImgSilent
<1>1. CrashInv => ReadImgSilent
  <2> SUFFICES ASSUME CrashInv, MayEnd
               PROVE  Image!Errors = {}
    BY DEF ReadImgSilent
  <2>1. Fit(disk.inode_map, disk.block_map, disk.inodes, disk.dirents)
    BY EndFit DEF FitImage
  <2>2. Readable(disk.inode_map, disk.block_map, disk.inodes, disk.dirents)
    BY <2>1, FitReadable
  <2>3. PICK t : t = Image!Traversal
    OBVIOUS
  <2>4. t.errors = {}
    BY <2>2, <2>3, ImageTraversal, TraversalMet
  <2> QED BY <2>3, <2>4 DEF Image!Errors
<1> QED BY <1>1, AlwaysCrashInv, PTL

-----------------------------------------------------------------------------
(* The links on the image.  A step of the tree of links, from one set of   *)
(* links to another.                                                       *)
TreeNext(L, M) ==
    \/ \E d, n \in Inums, name \in PathNames, isDir \in BOOLEAN :
          /\ d = ROOT \/ \E l \in L : l.node = d /\ l.isDir
          /\ ~ \E l \in L : l.dir = d /\ l.name = name
          /\ ~ (n = ROOT \/ \E l \in L : l.node = n)
          /\ M = L \cup {[dir |-> d, name |-> name, node |-> n, isDir |-> isDir]}
    \/ \E l \in L :
          /\ ~ \E k \in L : k.dir = l.node
          /\ M = L \ {l}
    \/ \E l \in L, name \in PathNames :
          /\ ~ \E k \in L : k.dir = l.dir /\ k.name = name
          /\ M = (L \ {l}) \cup {[l EXCEPT !.name = name]}

TreeStep(L, M) == M = L \/ TreeNext(L, M)

LinkNames(L) ==
    /\ \A l \in L : l.name \in PathNames
    /\ \A l, k \in L : l.dir = k.dir /\ l.name = k.name => l = k

(* The links at every point of the writes that are left.                   *)
LinksAfter(n) == LinksOf(View(Done(n)))

AtomInv ==
    /\ \A n \in 0 .. Len(pending) : LinkNames(LinksAfter(n))
    /\ \A n \in 0 .. Len(pending) : n + 1 <= Len(pending) => TreeStep(LinksAfter(n), LinksAfter(n + 1))

LEMMA MemoryStep == Tree!Next => TreeNext(Links, Links')
BY DEF Tree!Next, TreeNext, Tree!Create, Tree!Remove, Tree!Rename, Tree!IsDirectory, Tree!Taken,
       Tree!InUse, Tree!HasChildren

LEMMA ImageLinks == Image!Links = LinksOf(disk)
BY ImageParts DEF Image!Links, LinksOf, LinksIn

LEMMA ImageStep ==
  ASSUME TreeStep(LinksOf(disk), LinksOf(disk'))
  PROVE  [Image!Tree!Next]_(Image!Links)
<1>1. Image!Links = LinksOf(disk) /\ Image!Links' = LinksOf(disk')
  <2>1. (Image!Links = LinksOf(disk))'
    BY ImageLinks, PTL
  <2> QED BY <2>1, ImageLinks DEF LinksOf
<1> QED BY <1>1 DEF TreeStep, TreeNext, Image!Tree!Next, Image!Tree!Create, Image!Tree!Remove,
        Image!Tree!Rename, Image!Tree!IsDirectory, Image!Tree!Taken, Image!Tree!InUse,
        Image!Tree!HasChildren, Image!Inums, Inums, Image!ROOT, ROOT

(* Names are known and unique in the memory when they are among its links. *)
LEMMA NamesOfLinks == IInv => (NamesInv <=> LinkNames(Links))
<1> SUFFICES ASSUME IInv PROVE NamesInv <=> LinkNames(Links)
  OBVIOUS
<1>1. Links = {LinkAt(x) : x \in LinkSlots}
  BY DEF Links, LinkAt
<1>2. \A x \in LinkSlots : LinkAt(x).dir = x[1] /\ LinkAt(x).name = At(x).name
  BY DEF LinkAt
<1>3. \A x, y \in LinkSlots : LinkAt(x) = LinkAt(y) => x = y
  BY LinkInjective
<1> HIDE DEF LinkAt
<1> QED BY <1>1, <1>2, <1>3 DEF NamesInv, NamesKnown, NamesUnique, LinkNames

(* What the memory has at the end of the writes.                           *)
LEMMA MemoryNames ==
  ASSUME CrashInv, AtomInv
  PROVE  NamesInv
<1>1. LinksAfter(Len(pending)) = LinksOf(InMemory)
  BY DEF CrashInv, LinksAfter
<1>2. LinksOf(InMemory) = Links
  BY MemoryLinks DEF LinksOf, InMemory
<1>3. LinkNames(LinksAfter(Len(pending)))
  BY DEF AtomInv, CrashInv
<1> QED BY <1>1, <1>2, <1>3, NamesOfLinks DEF CrashInv

(* A call that starts: before some write the links are the old ones, and   *)
(* from there on the new ones.                                             *)
LEMMA BeginAtom ==
  ASSUME SameLength, CrashInv, AtomInv, Handler
  PROVE  AtomInv'
<1>1. Next /\ pending = <<>> /\ disk' = disk
  BY HandlerNext
<1>2. Fits /\ Fits' /\ IInv /\ IInv'
  BY <1>1, NextIInv, NextRooted, NextFreeNotDir DEF Fits, CrashInv
<1>3. Orderly
  BY <1>2, HandlerOrderly
<1>4. NamesInv /\ NamesInv'
  BY <1>1, <1>2, MemoryNames, NextNames
<1>5. LinkNames(Links) /\ LinkNames(Links')
  <2>1. (IInv => (NamesInv <=> LinkNames(Links)))'
    BY NamesOfLinks, PTL
  <2>2. LinkNames(Links)' <=> LinkNames(Links')
    BY DEF LinkNames
  <2> QED BY <1>2, <1>4, <2>1, <2>2, NamesOfLinks
<1>6. TreeStep(Links, Links')
  BY <1>1, <1>2, <1>4, NextTree, MemoryStep DEF TreeStep
<1>7. PICK m \in Nat : \A n \in 0 .. Len(pending') :
         LinksNext(Pre(n)) = IF n < m THEN Links ELSE Links'
  BY <1>3 DEF Orderly
<1>8. ASSUME NEW n \in 0 .. Len(pending')
      PROVE  LinksAfter(n)' = IF n < m THEN Links ELSE Links'
  <2>1. disk = InMemory
    BY <1>1, Settled
  <2>2. View(Done(n))' = ViewNext(Pre(n))
    BY <1>1, <2>1, ViewAhead
  <2>3. LinksAfter(n)' = LinksOf(View(Done(n))')
    BY DEF LinksAfter, LinksOf
  <2>4. LinksOf(ViewNext(Pre(n))) = LinksNext(Pre(n))
    BY DEF LinksOf, ViewNext, LinksNext
  <2> QED BY <1>7, <2>2, <2>3, <2>4
<1>9. ASSUME NEW n \in 0 .. Len(pending')
      PROVE  /\ LinkNames(LinksAfter(n)')
             /\ n + 1 <= Len(pending') => TreeStep(LinksAfter(n)', LinksAfter(n + 1)')
  <2>1. LinkNames(LinksAfter(n)')
    BY <1>5, <1>8
  <2>2. ASSUME n + 1 <= Len(pending')
        PROVE  TreeStep(LinksAfter(n)', LinksAfter(n + 1)')
    <3>1. n + 1 \in 0 .. Len(pending')
      BY <2>2
    <3>2. LinksAfter(n + 1)' = IF n + 1 < m THEN Links ELSE Links'
      BY <1>8, <3>1
    <3>3. \/ LinksAfter(n + 1)' = LinksAfter(n)'
          \/ LinksAfter(n)' = Links /\ LinksAfter(n + 1)' = Links'
      BY <1>8, <3>2
    <3> QED BY <1>6, <3>3 DEF TreeStep
  <2> QED BY <2>1, <2>2
<1>10. \A n : /\ LinkNames(LinksAfter(n))' <=> LinkNames(LinksAfter(n)')
              /\ TreeStep(LinksAfter(n), LinksAfter(n + 1))'
                   <=> TreeStep(LinksAfter(n)', LinksAfter(n + 1)')
  BY DEF LinkNames, TreeStep, TreeNext
<1> QED BY <1>9, <1>10 DEF AtomInv

LEMMA WriteBackAtom ==
  ASSUME CrashInv, AtomInv, WriteBack
  PROVE  AtomInv' /\ TreeStep(LinksOf(disk), LinksOf(disk'))
<1>1. /\ Len(pending') \in Nat /\ Len(pending) = Len(pending') + 1
      /\ \A n \in 0 .. Len(pending') : View(Done(n))' = View(Done(n + 1))
      /\ disk' \in Images
  BY Shifted DEF CrashInv
<1>2. \A n \in 0 .. Len(pending') : LinksAfter(n)' = LinksAfter(n + 1)
  <2>1. \A n : LinksAfter(n)' = LinksOf(View(Done(n))')
    BY DEF LinksAfter, LinksOf
  <2> QED BY <1>1, <2>1 DEF LinksAfter
<1>3. ASSUME NEW n \in 0 .. Len(pending')
      PROVE  /\ LinkNames(LinksAfter(n)')
             /\ n + 1 <= Len(pending') => TreeStep(LinksAfter(n)', LinksAfter(n + 1)')
  <2>1. n + 1 \in 0 .. Len(pending)
    BY <1>1
  <2>2. LinkNames(LinksAfter(n)')
    BY <1>2, <2>1 DEF AtomInv
  <2>3. ASSUME n + 1 <= Len(pending')
        PROVE  TreeStep(LinksAfter(n)', LinksAfter(n + 1)')
    <3>1. n + 1 \in 0 .. Len(pending') /\ (n + 1) + 1 <= Len(pending)
      BY <1>1, <2>3
    <3>2. TreeStep(LinksAfter(n + 1), LinksAfter((n + 1) + 1))
      BY <2>1, <3>1 DEF AtomInv
    <3> QED BY <1>2, <3>1, <3>2
  <2> QED BY <2>2, <2>3
<1>4. \A n : /\ LinkNames(LinksAfter(n))' <=> LinkNames(LinksAfter(n)')
             /\ TreeStep(LinksAfter(n), LinksAfter(n + 1))'
                  <=> TreeStep(LinksAfter(n)', LinksAfter(n + 1)')
  BY DEF LinkNames, TreeStep, TreeNext
<1>5. AtomInv'
  BY <1>3, <1>4 DEF AtomInv
<1>6. TreeStep(LinksAfter(0), LinksAfter(0 + 1))
  <2>1. 0 \in 0 .. Len(pending) /\ 0 + 1 <= Len(pending)
    BY <1>1
  <2> QED BY <2>1 DEF AtomInv
<1>7. LinksAfter(0) = LinksOf(disk)
  BY FirstView DEF LinksAfter, CrashInv
<1>8. LinksAfter(0 + 1) = LinksOf(disk')
  <2>1. (disk \in Images => View(Done(0)) = disk)'
    <3>1. disk \in Images => View(Done(0)) = disk
      BY FirstView
    <3> QED BY FirstView, PTL
  <2>2. View(Done(0))' = View(Done(0 + 1))
    BY <1>1
  <2> QED BY <1>1, <2>1, <2>2 DEF LinksAfter
<1> QED BY <1>5, <1>6, <1>7, <1>8

LEMMA RestartAtom ==
  ASSUME CrashInv, AtomInv, fs_init
  PROVE  AtomInv'
<1>1. disk' = disk /\ disk \in Images /\ pending' = <<>> /\ Len(pending') = 0
  BY DEF fs_init, CrashInv
<1>2. LinksAfter(0)' = LinksOf(disk)
  <2>1. (disk \in Images => View(Done(0)) = disk)'
    BY FirstView, PTL
  <2>2. View(Done(0))' = disk
    BY <1>1, <2>1
  <2> QED BY <2>2 DEF LinksAfter, LinksOf
<1>3. LinkNames(LinksOf(disk))
  <2>1. 0 \in 0 .. Len(pending)
    BY DEF CrashInv
  <2>2. LinksAfter(0) = LinksOf(disk)
    BY FirstView DEF LinksAfter, CrashInv
  <2> QED BY <2>1, <2>2 DEF AtomInv
<1>4. LinkNames(LinksAfter(0))'
  <2>1. LinkNames(LinksAfter(0))' <=> LinkNames(LinksAfter(0)')
    BY DEF LinkNames
  <2> QED BY <1>2, <1>3, <2>1
<1>5. \A n \in 0 .. Len(pending') : n = 0 /\ ~(n + 1 <= Len(pending'))
  BY <1>1
<1> QED BY <1>4, <1>5 DEF AtomInv

LEMMA NextAtom ==
  /\ NoRmdirCrash /\ SameLength
  /\ CrashInv /\ AtomInv /\ [CrashNext]_crashVars
  => AtomInv' /\ [Image!Tree!Next]_(Image!Links)
<1> SUFFICES ASSUME NoRmdirCrash, SameLength, CrashInv, AtomInv, [CrashNext]_crashVars
             PROVE  AtomInv' /\ TreeStep(LinksOf(disk), LinksOf(disk'))
  BY ImageStep
<1>1. CASE Handler
  <2>1. disk' = disk
    BY <1>1, HandlerNext
  <2> QED BY <1>1, <2>1, BeginAtom DEF TreeStep
<1>2. CASE WriteBack
  BY <1>2, WriteBackAtom
<1>3. CASE fs_init
  <2>1. disk' = disk
    BY <1>3 DEF fs_init
  <2> QED BY <1>3, <2>1, RestartAtom DEF TreeStep
<1>4. CASE UNCHANGED crashVars
  <2>1. UNCHANGED <<inode_map, block_map, inodes, dirents, disk, pending, call>>
    BY <1>4 DEF crashVars, memory, vars
  <2>2. \A n : LinksAfter(n)' = LinksAfter(n)
    BY <2>1 DEF LinksAfter, LinksOf, View, Done
  <2>3. \A n : /\ LinkNames(LinksAfter(n))' <=> LinkNames(LinksAfter(n)')
               /\ TreeStep(LinksAfter(n), LinksAfter(n + 1))'
                    <=> TreeStep(LinksAfter(n)', LinksAfter(n + 1)')
    BY DEF LinkNames, TreeStep, TreeNext
  <2> QED BY <2>1, <2>2, <2>3 DEF AtomInv, TreeStep
<1> QED BY <1>1, <1>2, <1>3, <1>4 DEF CrashNext, Handler

LEMMA StartAtom ==
  ASSUME CrashInit
  PROVE  AtomInv /\ Image!Tree!Init
<1>1. CrashInv /\ pending = <<>> /\ Init /\ Len(pending) = 0
  BY StartCrash DEF CrashInit
<1>2. Links = {} /\ LinksOf(disk) = Links
  <2>1. disk = InMemory
    BY <1>1, Settled
  <2> QED BY <1>1, <2>1, InitLinks, MemoryLinks DEF Links, LinksOf, InMemory
<1>3. LinkNames(LinksAfter(0))
  <2>1. LinksAfter(0) = LinksOf(disk)
    BY <1>1, FirstView DEF LinksAfter, CrashInv
  <2> QED BY <1>2, <2>1 DEF LinkNames
<1>4. \A n \in 0 .. Len(pending) : n = 0 /\ ~(n + 1 <= Len(pending))
  BY <1>1
<1>5. Image!Tree!Init
  BY <1>2, ImageLinks DEF Image!Tree!Init
<1> QED BY <1>3, <1>4, <1>5 DEF AtomInv

(* Crashed or not, each handler but rmdir takes effect in a single write,  *)
(* that of the parent directory, so that the image implements the tree of  *)
(* links as the memory does, for names of one length.                      *)
THEOREM CrashesAreAtomic ==
  ASSUME NoRmdirCrash, SameLength
  PROVE  CrashSpec => CrashAtomic
<1>1. CrashInit => AtomInv /\ Image!Tree!Init
  BY StartAtom
<1>2. CrashInv /\ AtomInv /\ [CrashNext]_crashVars
      => AtomInv' /\ [Image!Tree!Next]_(Image!Links)
  BY NextAtom
<1> QED BY <1>1, <1>2, AlwaysCrashInv, PTL
        DEF CrashSpec, CrashAtomic, Image!ImplementsTree, Image!Tree!Spec

=============================================================================
