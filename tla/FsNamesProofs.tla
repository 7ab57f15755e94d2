--------------------------- MODULE FsNamesProofs ---------------------------
(***************************************************************************)
(* Proofs about the directory operations, for every size of the image and  *)
(* every set of paths.                                                     *)
(***************************************************************************)
EXTENDS FsNames, WellFoundedInduction, TLAPS

USE DEF ENOENT, EEXIST, ENOTDIR, EISDIR, EINVAL, ENOSPC, ENOTEMPTY, ROOT

-----------------------------------------------------------------------------
(* Induction over the naturals for sets.                                   *)

LessThan == {ss \in Nat \X Nat : ss[1] < ss[2]}

(* The order of the naturals is well founded.                              *)
LEMMA LessThanWF == IsWellFoundedOn(LessThan, Nat)
  BY NatLessThanWellFounded, Zenon DEF OpToRel, LessThan

(* A non-empty set of naturals has a least element.                        *)
LEMMA LeastNat ==
  ASSUME NEW T, T \subseteq Nat, T # {}
  PROVE  \E m \in T : \A n \in T : m <= n
<1>1. PICK m \in T : \A n \in T : <<n, m>> \notin LessThan
  BY LessThanWF, WFMin
<1>2. ASSUME NEW n \in T PROVE m <= n
  <2>1. <<n, m>> \notin LessThan /\ n \in Nat /\ m \in Nat
    BY <1>1
  <2>2. ~(n < m)
    BY <2>1 DEF LessThan
  <2> QED BY <2>1, <2>2
<1> QED BY <1>2

(* Min picks that element.                                                 *)
LEMMA MinNat ==
  ASSUME NEW T, T \subseteq Nat, T # {}
  PROVE  Min(T) \in T /\ \A n \in T : Min(T) <= n
BY LeastNat DEF Min

(* A set that holds 0 and is closed under successor holds every natural.   *)
LEMMA SetInduction ==
  ASSUME NEW S, 0 \in S, \A n \in Nat : n \in S => n+1 \in S
  PROVE  Nat \subseteq S
<1>1. SUFFICES ASSUME {n \in Nat : n \notin S} # {} PROVE FALSE
  OBVIOUS
<1>2. PICK m \in {n \in Nat : n \notin S} : \A n \in {k \in Nat : k \notin S} : m <= n
  BY <1>1, LeastNat
<1>3. m # 0 /\ m-1 \in Nat /\ m-1 \in S
  BY <1>2
<1> QED BY <1>2, <1>3

-----------------------------------------------------------------------------
(* The inductive invariant.                                                *)

RootFixed ==
    /\ 0 \in inode_map /\ inodes[0].mode # "dir"
    /\ ROOT \in LiveDirs

IInv == /\ TypeOK /\ RootFixed /\ RefsLive /\ RefsUnique
        /\ DirBlocksOwned /\ StaleAfterValid

(* The initial image satisfies it.                                         *)
LEMMA InitIInv == Init => IInv
<1> SUFFICES ASSUME Init PROVE IInv
  OBVIOUS
<1> USE LayoutAssumption, NamesAssumption DEF Init
<1>1. TypeOK
  BY DEF TypeOK, Inums, Blocks, DataBlocks, Metadata, Slots, Inode, Modes, Dirent,
         ZeroInode, ZeroBlock, ZeroDirent
<1>2. LiveDirs = {ROOT} /\ RootFixed
  BY DEF LiveDirs, RootFixed, ZeroInode, Inums
<1>3. Entries(ROOT) = ZeroBlock
  BY DEF Entries, DataBlocks, Inums
<1>4. LinkSlots = {}
  BY <1>2, <1>3 DEF LinkSlots, ZeroBlock, ZeroDirent
<1>5. RefsLive /\ RefsUnique
  BY <1>4 DEF RefsLive, RefsUnique
<1>6. DirBlocksOwned
  BY <1>2 DEF DirBlocksOwned, DataBlocks, Inums
<1>7. StaleAfterValid
  BY <1>2, <1>3 DEF StaleAfterValid, ZeroBlock, ZeroDirent
<1> QED BY <1>1, <1>2, <1>5, <1>6, <1>7 DEF IInv

-----------------------------------------------------------------------------
(* Lookup.                                                                 *)

Good == LiveDirs \cup {-ENOENT, -ENOTDIR}

(* A directory of the tree has a block, and its entries are entries.       *)
LEMMA DirEntries ==
  ASSUME IInv, NEW d \in LiveDirs
  PROVE  /\ d \in Inums /\ d \in inode_map /\ d # 0
         /\ inodes[d].direct0 \in DataBlocks
         /\ Entries(d) \in [Slots -> Dirent]
         /\ Slots \subseteq Nat
<1>1. d \in Inums /\ d \in inode_map /\ d # 0
  BY DEF IInv, TypeOK, RootFixed, LiveDirs
<1>2. inodes[d].direct0 \in DataBlocks
  BY DEF IInv, DirBlocksOwned
<1>3. Entries(d) \in [Slots -> Dirent]
  BY <1>2 DEF IInv, TypeOK, Entries
<1> QED BY <1>1, <1>2, <1>3, NamesAssumption DEF Slots

(* The slot a found name leads to holds a link of the tree.                *)
Leads(d, name, s) ==
    /\ s \in Slots /\ s \in Matches(d, name)
    /\ Entries(d)[s].valid /\ Entries(d)[s].name = name
    /\ <<d, s>> \in LinkSlots
    /\ Entry(d, name) = Entries(d)[s] /\ Entry(d, name) = At(<<d, s>>)

LEMMA LookupSlot ==
  ASSUME IInv, NEW d \in LiveDirs, NEW name, Found(d, name),
         NEW s, s = Min(Matches(d, name))
  PROVE  Leads(d, name, s)
<1>1. Matches(d, name) \subseteq Nat /\ Matches(d, name) # {}
  BY DirEntries DEF Matches, Found
<1>2. s \in Matches(d, name)
  BY <1>1, MinNat
<1>3. s \in Slots /\ Entries(d)[s].valid /\ Entries(d)[s].name = name
  BY <1>2 DEF Matches
<1>4. <<d, s>> \in LinkSlots
  BY <1>3 DEF LinkSlots
<1>5. Entry(d, name) = At(<<d, s>>) /\ Entry(d, name) = Entries(d)[s]
  BY DEF Entry, At
<1> QED BY <1>2, <1>3, <1>4, <1>5 DEF Leads

LEMMA LookupInode ==
  ASSUME IInv, NEW d \in LiveDirs, NEW name, Found(d, name)
  PROVE  /\ Entry(d, name).inode \in inode_map \ {0, ROOT}
         /\ Entry(d, name).isDir <=> inodes[Entry(d, name).inode].mode = "dir"
<1>1. PICK s : s = Min(Matches(d, name))
  OBVIOUS
<1>2. Leads(d, name, s)
  BY <1>1, LookupSlot
<1>3. RefsLive
  BY DEF IInv
<1> QED BY <1>2, <1>3 DEF RefsLive, Leads

(* One step of the walk ends in a directory of the tree or in an error.    *)
LEMMA WalkStepGood ==
  ASSUME IInv, NEW p \in Good, NEW name
  PROVE  WalkStep(p, name) \in Good
<1>1. CASE p \in LiveDirs /\ Found(p, name) /\ Entry(p, name).isDir
  <2>1. /\ Entry(p, name).inode \in inode_map
        /\ inodes[Entry(p, name).inode].mode = "dir"
    BY <1>1, LookupInode
  <2>2. Entry(p, name).inode \in LiveDirs
    BY <2>1 DEF LiveDirs
  <2>3. p \in Inums
    BY <1>1, DirEntries
  <2>4. ~(p < 0)
    BY <2>3, NamesAssumption DEF Inums
  <2> QED BY <1>1, <2>2, <2>4 DEF WalkStep, Good
<1>2. CASE p \in LiveDirs /\ ~(Found(p, name) /\ Entry(p, name).isDir)
  <2>1. p \in Inums
    BY <1>2, DirEntries
  <2>2. ~(p < 0)
    BY <2>1, NamesAssumption DEF Inums
  <2> QED BY <1>2, <2>2 DEF WalkStep, Good
<1>3. CASE p \notin LiveDirs
  BY <1>3 DEF WalkStep, Good
<1> QED BY <1>1, <1>2, <1>3

(* What holds of the root and survives a step of the walk holds of what    *)
(* the walk leads to: its recursive definition defines a function.         *)
LEMMA WalkStays ==
  ASSUME NEW dirs, Len(dirs) \in Nat, NEW G, ROOT \in G,
         \A q \in G : \A k \in 1 .. Len(dirs) : WalkStep(q, dirs[k]) \in G
  PROVE  get_parent_inum(dirs) \in G
<1> DEFINE n == Len(dirs)
           Eqn(f, m) == f = [k \in 0 .. m |-> IF k = 0 THEN ROOT
                                             ELSE WalkStep(f[k-1], dirs[k])]
           S == {m \in Nat : \E f : Eqn(f, m)}
           w == CHOOSE f : Eqn(f, n)
           T == {m \in Nat : m <= n => w[m] \in G}
<1>1. n \in Nat
  OBVIOUS
<1>2. 0 \in S
  <2>1. Eqn([k \in 0 .. 0 |-> ROOT], 0)
    OBVIOUS
  <2> QED BY <2>1
<1>3. ASSUME NEW m \in Nat, m \in S PROVE m+1 \in S
  <2>1. PICK f : Eqn(f, m)
    BY <1>3
  <2> DEFINE g == [k \in 0 .. m+1 |-> IF k = 0 THEN ROOT
                                      ELSE WalkStep(f[k-1], dirs[k])]
  <2>2. \A k \in 0 .. m : g[k] = f[k]
    BY <2>1
  <2>3. \A k \in 0 .. m+1 : k # 0 => k-1 \in 0 .. m
    OBVIOUS
  <2>4. Eqn(g, m+1)
    BY <2>2, <2>3
  <2>5. \E h : Eqn(h, m+1)
    <3> HIDE DEF g, Eqn
    <3> QED BY <2>4
  <2> QED BY <2>5
<1>4. n \in S
  <2> HIDE DEF S
  <2> QED BY <1>1, <1>2, <1>3, SetInduction
<1>5. Eqn(w, n)
  <2> SUFFICES \E f : Eqn(f, n)
    BY Zenon
  <2> QED BY <1>4
<1>6. 0 \in T
  <2>1. w[0] = ROOT
    <3> HIDE DEF w
    <3> QED BY <1>1, <1>5
  <2> HIDE DEF w
  <2> QED BY <2>1
<1>7. ASSUME NEW m \in Nat, m \in T PROVE m+1 \in T
  <2>1. SUFFICES ASSUME m+1 <= n PROVE w[m+1] \in G
    OBVIOUS
  <2>2. w[m] \in G /\ m+1 \in 1 .. n
    BY <1>1, <1>7, <2>1
  <2>3. w[m+1] = WalkStep(w[m], dirs[m+1])
    <3> HIDE DEF w
    <3> QED BY <1>1, <1>5, <2>1
  <2> HIDE DEF w
  <2> QED BY <2>2, <2>3
<1>8. w[n] \in G
  <2>1. n \in T
    <3> HIDE DEF T
    <3> QED BY <1>1, <1>6, <1>7, SetInduction
  <2> QED BY <1>1, <2>1
<1>9. get_parent_inum(dirs) = w[n]
  BY DEF get_parent_inum
<1> QED BY <1>8, <1>9

(* The directory part of a path leads to a directory of the tree or to an  *)
(* error.                                                                  *)
LEMMA ParentGood ==
  ASSUME IInv, NEW dirs \in Seq(PathNames)
  PROVE  get_parent_inum(dirs) \in Good
<1>1. ROOT \in Good
  BY DEF Good, IInv, RootFixed
<1>2. \A q \in Good : \A k \in 1 .. Len(dirs) : WalkStep(q, dirs[k]) \in Good
  BY WalkStepGood
<1> HIDE DEF Good
<1> QED BY <1>1, <1>2, WalkStays

-----------------------------------------------------------------------------
(* Allocation.                                                             *)

(* get_free_inode finds an inode that is not allocated.                    *)
LEMMA FreeInode ==
  ASSUME get_free_inode # -ENOSPC
  PROVE  get_free_inode \in Inums \ inode_map
<1> DEFINE free == (0 .. InodeScan - 1) \ inode_map
<1>1. free \subseteq Nat /\ free \subseteq Inums
  BY NamesAssumption DEF Inums
<1>2. free # {} /\ get_free_inode = Min(free)
  BY DEF get_free_inode
<1>3. Min(free) \in free
  BY <1>1, <1>2, MinNat
<1> QED BY <1>1, <1>2, <1>3

(* get_free_block finds a block of the data region that is not allocated.  *)
LEMMA FreeBlock ==
  ASSUME get_free_block(block_map) # -ENOSPC
  PROVE  get_free_block(block_map) \in DataBlocks \ block_map
<1> DEFINE free == DataBlocks \ block_map
<1>1. free \subseteq Nat
  BY LayoutAssumption DEF DataBlocks
<1>2. free # {} /\ get_free_block(block_map) = Min(free)
  BY DEF get_free_block
<1> QED BY <1>1, <1>2, MinNat

(* A path that translates to an inode leads, through a directory of the    *)
(* tree, to a link of it.                                                  *)
LEMMA Translated ==
  ASSUME IInv, NEW dirs \in Seq(PathNames), NEW name,
         ~(translate_path_to_inum(dirs, name) < 0)
  PROVE  LET p == get_parent_inum(dirs)
             i == translate_path_to_inum(dirs, name)
         IN  /\ p \in LiveDirs /\ Found(p, name)
             /\ i = Entry(p, name).inode /\ i \in inode_map \ {0, ROOT}
<1> DEFINE p == get_parent_inum(dirs)
<1>1. p \in Good
  BY ParentGood
<1>2. ~(p < 0)
  BY <1>1 DEF translate_path_to_inum
<1>3. p \in LiveDirs
  BY <1>1, <1>2 DEF Good
<1>4. Found(p, name) /\ translate_path_to_inum(dirs, name) = Entry(p, name).inode
  BY <1>2 DEF translate_path_to_inum
<1>5. Entry(p, name).inode \in inode_map \ {0, ROOT}
  <2> HIDE DEF p
  <2> QED BY <1>3, <1>4, LookupInode
<1> QED BY <1>3, <1>4, <1>5

(* Searching the parent by inode number, as rmdir and rename do, finds the *)
(* slot the name led to.                                                   *)
LEMMA SlotByInode ==
  ASSUME IInv, NEW p \in LiveDirs, NEW name, Found(p, name)
  PROVE  LET i == Entry(p, name).inode
         IN  /\ SlotsOfInode(p, i) # {}
             /\ Min(SlotsOfInode(p, i)) = Min(Matches(p, name))
<1> DEFINE q == Min(Matches(p, name))
           i == Entry(p, name).inode
           s == Min(SlotsOfInode(p, i))
<1>1. /\ q \in Slots /\ Entries(p)[q].valid /\ Entries(p)[q].inode = i
  <2>1. PICK r : r = Min(Matches(p, name))
    OBVIOUS
  <2>2. Leads(p, name, r)
    BY <2>1, LookupSlot
  <2> QED BY <2>1, <2>2 DEF Leads
<1>2. SlotsOfInode(p, i) \subseteq Nat /\ q \in SlotsOfInode(p, i)
  BY <1>1, DirEntries DEF SlotsOfInode
<1>3. s \in SlotsOfInode(p, i) /\ s <= q
  BY <1>2, MinNat
<1>4. s \in Slots /\ Entries(p)[s].inode = i
  BY <1>3 DEF SlotsOfInode
<1>5. ~(s < q)
  BY <1>1, <1>4 DEF IInv, StaleAfterValid
<1>6. s \in Nat /\ q \in Nat
  BY <1>1, <1>4, DirEntries
<1> QED BY <1>2, <1>3, <1>5, <1>6

-----------------------------------------------------------------------------
(* mknod and mkdir.                                                        *)

(* A successful mknod adds one link, in a free slot of a directory, to an  *)
(* inode that was not allocated.                                           *)
LEMMA MknodEffect ==
  ASSUME IInv, NEW dirs \in Seq(PathNames), NEW name, NEW mode \in Modes,
         fs_mknod(dirs, name, mode),
         NEW p, p = get_parent_inum(dirs), NEW i, i = get_free_inode,
         NEW s, s = FirstFree(p),
         NEW b, b = IF mode = "dir" THEN get_free_block(block_map) ELSE 0
  PROVE  LET new == [valid |-> TRUE, isDir |-> mode = "dir", inode |-> i, name |-> name]
         IN  /\ p \in LiveDirs /\ i \in Inums \ inode_map
             /\ s \in Slots /\ ~Entries(p)[s].valid
             /\ \A j \in Slots : j < s => Entries(p)[j].valid
             /\ b \in Blocks
             /\ mode = "dir" => b \in DataBlocks \ block_map
             /\ mode # "dir" => b \notin DataBlocks
             /\ Entries(p)' = [Entries(p) EXCEPT ![s] = new]
             /\ \A d \in LiveDirs : d # p => Entries(d)' = Entries(d)
             /\ mode = "dir" => Entries(i)' = ZeroBlock
             /\ LiveDirs' = IF mode = "dir" THEN LiveDirs \cup {i} ELSE LiveDirs
<1> DEFINE new == [valid |-> TRUE, isDir |-> mode = "dir", inode |-> i, name |-> name]
<1>0. mknod_errno(dirs, name, mode) = 0
  BY DEF fs_mknod
<1>1. /\ ~(p < 0) /\ get_free_inode # -ENOSPC /\ FreeSlots(p) # {}
      /\ mode = "dir" => get_free_block(block_map) # -ENOSPC
  BY <1>0 DEF mknod_errno
<1>2. p \in LiveDirs
  BY <1>1, ParentGood DEF Good
<1>3. i \in Inums \ inode_map
  BY <1>1, FreeInode
<1>4. /\ s \in Slots /\ ~Entries(p)[s].valid
      /\ \A j \in Slots : j < s => Entries(p)[j].valid
  <2>1. FreeSlots(p) \subseteq Nat
    BY <1>2, DirEntries DEF FreeSlots
  <2>2. s \in FreeSlots(p) /\ \A j \in FreeSlots(p) : s <= j
    BY <1>1, <2>1, MinNat DEF FirstFree
  <2>3. Slots \subseteq Nat
    BY <1>2, DirEntries
  <2> QED BY <2>2, <2>3 DEF FreeSlots
<1>5. /\ b \in Blocks
      /\ mode = "dir" => b \in DataBlocks \ block_map
      /\ mode # "dir" => b \notin DataBlocks
  BY <1>1, FreeBlock, LayoutAssumption DEF Blocks, DataBlocks
<1>6. /\ inode_map' = inode_map \cup {i}
      /\ inodes' = [inodes EXCEPT ![i] = [mode |-> mode, direct0 |-> b]]
      /\ dirents' = [x \in DataBlocks |->
                       IF x = inodes[p].direct0
                       THEN [dirents[x] EXCEPT ![s] = new]
                       ELSE IF x = b THEN ZeroBlock ELSE dirents[x]]
  BY DEF fs_mknod
<1>7. \A d \in LiveDirs : /\ d # i /\ inodes[d].direct0 \in DataBlocks \cap block_map
                          /\ d # p => inodes[d].direct0 # inodes[p].direct0
  BY <1>2, <1>3 DEF IInv, DirBlocksOwned, LiveDirs
<1>8. \A d \in LiveDirs : inodes'[d] = inodes[d]
  BY <1>6, <1>7, DirEntries DEF IInv, TypeOK
<1>9. inodes'[i] = [mode |-> mode, direct0 |-> b]
  BY <1>3, <1>6 DEF IInv, TypeOK
<1>10. Entries(p)' = [Entries(p) EXCEPT ![s] = new]
  BY <1>2, <1>6, <1>7, <1>8 DEF Entries
<1>11. \A d \in LiveDirs : d # p => Entries(d)' = Entries(d)
  BY <1>5, <1>6, <1>7, <1>8 DEF Entries
<1>12. mode = "dir" => Entries(i)' = ZeroBlock
  BY <1>2, <1>5, <1>6, <1>7, <1>9 DEF Entries
<1>13. LiveDirs' = IF mode = "dir" THEN LiveDirs \cup {i} ELSE LiveDirs
  <2>1. \A d \in inode_map : inodes'[d] = inodes[d]
    BY <1>3, <1>6 DEF IInv, TypeOK
  <2> QED BY <2>1, <1>3, <1>6, <1>9 DEF LiveDirs
<1> QED BY <1>2, <1>3, <1>4, <1>5, <1>10, <1>11, <1>12, <1>13

(* The links then: all the old ones and the new one.                       *)
LEMMA MknodLinks ==
  ASSUME IInv, NEW dirs \in Seq(PathNames), NEW name, NEW mode \in Modes,
         fs_mknod(dirs, name, mode),
         NEW p, p = get_parent_inum(dirs), NEW i, i = get_free_inode,
         NEW s, s = FirstFree(p)
  PROVE  LET new == [valid |-> TRUE, isDir |-> mode = "dir", inode |-> i, name |-> name]
         IN  /\ <<p, s>> \notin LinkSlots
             /\ LinkSlots' = LinkSlots \cup {<<p, s>>}
             /\ At(<<p, s>>)' = new
             /\ \A x \in LinkSlots : At(x)' = At(x)
<1> DEFINE new == [valid |-> TRUE, isDir |-> mode = "dir", inode |-> i, name |-> name]
<1>1. /\ p \in LiveDirs /\ i \in Inums \ inode_map
      /\ s \in Slots /\ ~Entries(p)[s].valid
      /\ Entries(p)' = [Entries(p) EXCEPT ![s] = new]
      /\ \A d \in LiveDirs : d # p => Entries(d)' = Entries(d)
      /\ mode = "dir" => Entries(i)' = ZeroBlock
      /\ LiveDirs' = IF mode = "dir" THEN LiveDirs \cup {i} ELSE LiveDirs
  BY MknodEffect
<1>2. \A l \in Slots : Entries(p)'[l] = IF l = s THEN new ELSE Entries(p)[l]
  <2>1. Entries(p) \in [Slots -> Dirent]
    BY <1>1, DirEntries
  <2> HIDE DEF new
  <2> QED BY <1>1, <2>1
<1>3. /\ <<p, s>> \notin LinkSlots
      /\ LinkSlots' = LinkSlots \cup {<<p, s>>}
  <2>1. \A d \in LiveDirs, j \in Slots :
           Entries(d)'[j] = IF d = p /\ j = s THEN new ELSE Entries(d)[j]
    BY <1>1, <1>2
  <2>2. mode = "dir" => \A j \in Slots : ~Entries(i)'[j].valid
    BY <1>1 DEF ZeroBlock, ZeroDirent
  <2>3. LinkSlots' = {x \in LiveDirs' \X Slots : Entries(x[1])'[x[2]].valid}
    BY DEF LinkSlots
  <2>4. new.valid
    OBVIOUS
  <2>5. i \notin LiveDirs
    BY <1>1 DEF LiveDirs
  <2> HIDE DEF new
  <2> QED BY <1>1, <2>1, <2>2, <2>3, <2>4, <2>5 DEF LinkSlots
<1>4. At(<<p, s>>)' = new
  BY <1>1, DirEntries DEF At
<1>5. ASSUME NEW x \in LinkSlots PROVE At(x)' = At(x)
  <2>1. x[1] \in LiveDirs /\ x[2] \in Slots /\ ~(x[1] = p /\ x[2] = s)
    BY <1>1 DEF LinkSlots
  <2> QED BY <1>1, <2>1, DirEntries DEF At
<1> QED BY <1>3, <1>4, <1>5

(* mknod preserves the inductive invariant.                                *)
LEMMA MknodIInv ==
  ASSUME IInv, NEW dirs \in Seq(PathNames), NEW name \in Seq(Nat), NEW mode \in Modes,
         fs_mknod(dirs, name, mode)
  PROVE  IInv'
<1>a. PICK p, i, s, b : /\ p = get_parent_inum(dirs) /\ i = get_free_inode
                        /\ s = FirstFree(p)
                        /\ b = IF mode = "dir" THEN get_free_block(block_map) ELSE 0
  OBVIOUS
<1> DEFINE new == [valid |-> TRUE, isDir |-> mode = "dir", inode |-> i, name |-> name]
<1>1. /\ p \in LiveDirs /\ i \in Inums \ inode_map
      /\ s \in Slots /\ ~Entries(p)[s].valid
      /\ \A j \in Slots : j < s => Entries(p)[j].valid
      /\ b \in Blocks
      /\ mode = "dir" => b \in DataBlocks \ block_map
      /\ mode # "dir" => b \notin DataBlocks
      /\ Entries(p)' = [Entries(p) EXCEPT ![s] = new]
      /\ \A d \in LiveDirs : d # p => Entries(d)' = Entries(d)
      /\ mode = "dir" => Entries(i)' = ZeroBlock
      /\ LiveDirs' = IF mode = "dir" THEN LiveDirs \cup {i} ELSE LiveDirs
  BY <1>a, MknodEffect
<1>2. /\ inode_map' = inode_map \cup {i}
      /\ block_map' = IF mode = "dir" THEN block_map \cup {b} ELSE block_map
      /\ inodes' = [inodes EXCEPT ![i] = [mode |-> mode, direct0 |-> b]]
      /\ dirents' = [x \in DataBlocks |->
                       IF x = inodes[p].direct0
                       THEN [dirents[x] EXCEPT ![s] = new]
                       ELSE IF x = b THEN ZeroBlock ELSE dirents[x]]
  BY <1>a DEF fs_mknod
<1>2a. \A l \in Slots : Entries(p)'[l] = IF l = s THEN new ELSE Entries(p)[l]
  <2>1. Entries(p) \in [Slots -> Dirent]
    BY <1>1, DirEntries
  <2> HIDE DEF new
  <2> QED BY <1>1, <2>1
<1>2b. \A d \in LiveDirs, l \in Slots : Entries(d)[l].valid => Entries(d)[l].inode \in inode_map
  <2>1. SUFFICES ASSUME NEW d \in LiveDirs, NEW l \in Slots, Entries(d)[l].valid
                 PROVE  Entries(d)[l].inode \in inode_map
    OBVIOUS
  <2>2. <<d, l>> \in LinkSlots
    BY <2>1 DEF LinkSlots
  <2> QED BY <2>2 DEF IInv, RefsLive, At
<1>3. new \in Dirent /\ ZeroBlock \in [Slots -> Dirent]
  BY <1>1, NamesAssumption DEF Dirent, ZeroBlock, ZeroDirent, Inums
<1>4. TypeOK'
  <2>1. inode_map' \subseteq Inums /\ inodes' \in [Inums -> Inode]
    BY <1>1, <1>2 DEF IInv, TypeOK, Inode
  <2>2. block_map' \subseteq Blocks
    BY <1>1, <1>2 DEF IInv, TypeOK
  <2>3. \A x \in DataBlocks : [dirents[x] EXCEPT ![s] = new] \in [Slots -> Dirent]
    BY <1>3 DEF IInv, TypeOK
  <2>4. dirents' \in [DataBlocks -> [Slots -> Dirent]]
    BY <1>2, <1>3, <2>3 DEF IInv, TypeOK
  <2> QED BY <2>1, <2>2, <2>4 DEF TypeOK
<1>5. \A d \in inode_map : inodes'[d] = inodes[d]
  BY <1>1, <1>2 DEF IInv, TypeOK
<1>6. inodes'[i] = [mode |-> mode, direct0 |-> b]
  BY <1>1, <1>2 DEF IInv, TypeOK
<1>7. RootFixed'
  BY <1>1, <1>2, <1>5 DEF IInv, RootFixed
<1>8. /\ <<p, s>> \notin LinkSlots
      /\ LinkSlots' = LinkSlots \cup {<<p, s>>}
  BY <1>a, MknodLinks, ZenonT(40)
<1>9. At(<<p, s>>)' = new /\ \A x \in LinkSlots : At(x)' = At(x)
  BY <1>a, MknodLinks
<1>10. RefsLive'
  <2>1. 0 \in inode_map /\ ROOT \in inode_map
    BY DEF IInv, RootFixed, LiveDirs
  <2>2. ASSUME NEW x \in LinkSlots'
        PROVE  /\ At(x)'.inode \in inode_map' \ {0, ROOT}
               /\ At(x)'.isDir <=> inodes'[At(x)'.inode].mode = "dir"
    <3>1. CASE x = <<p, s>>
      <4>1. At(x)'.inode = i /\ (At(x)'.isDir <=> mode = "dir")
        <5>1. At(x)' = new
          BY <1>9, <3>1, Zenon
        <5>2. new.inode = i /\ (new.isDir <=> mode = "dir")
          BY Zenon
        <5> HIDE DEF new
        <5> QED BY <5>1, <5>2
      <4> QED BY <1>1, <1>2, <1>6, <2>1, <4>1
    <3>2. CASE x \in LinkSlots
      <4>1. /\ At(x).inode \in inode_map \ {0, ROOT}
            /\ At(x).isDir <=> inodes[At(x).inode].mode = "dir"
        BY <3>2 DEF IInv, RefsLive
      <4> QED BY <1>2, <1>5, <1>9, <3>2, <4>1
    <3> QED BY <1>8, <3>1, <3>2
  <2> QED BY <2>2 DEF RefsLive
<1>11. RefsUnique'
  <2>1. \A x \in LinkSlots : At(x)'.inode # i
    BY <1>1, <1>9 DEF IInv, RefsLive
  <2>2. At(<<p, s>>)'.inode = i
    BY <1>9
  <2> QED BY <1>8, <1>9, <2>1, <2>2 DEF IInv, RefsUnique
<1>13. DirBlocksOwned'
  <2>1. \A d \in LiveDirs : inodes'[d].direct0 \in DataBlocks \cap block_map
    BY <1>5 DEF IInv, DirBlocksOwned, LiveDirs
  <2>2. \A d, e \in LiveDirs : inodes'[d].direct0 = inodes'[e].direct0 => d = e
    BY <1>5 DEF IInv, DirBlocksOwned, LiveDirs
  <2> QED BY <1>1, <1>2, <1>6, <2>1, <2>2 DEF DirBlocksOwned
<1>14. StaleAfterValid'
  <2>1. SUFFICES ASSUME NEW d \in LiveDirs', NEW j \in Slots, NEW k \in Slots,
                        j < k, Entries(d)'[k].valid
                 PROVE  Entries(d)'[j].inode # Entries(d)'[k].inode
    BY DEF StaleAfterValid
  <2>2. CASE d \in LiveDirs /\ d # p
    BY <1>1, <2>1, <2>2 DEF IInv, StaleAfterValid
  <2>3. CASE d = i /\ mode = "dir"
    BY <1>1, <2>1, <2>3 DEF ZeroBlock, ZeroDirent
  <2>4. CASE d = p
    <3>1. \A l \in Slots : Entries(p)'[l] = IF l = s THEN new ELSE Entries(p)[l]
      BY <1>2a
    <3>2. \A l \in Slots : Entries(p)[l].valid => Entries(p)[l].inode # i
      BY <1>1, <1>2b
    <3>3. j # k
      BY <1>1, <2>1, DirEntries
    <3>4. CASE k = s
      <4>1. Entries(p)[j].valid /\ Entries(p)[j].inode # i
        BY <1>1, <2>1, <3>2, <3>4
      <4> QED BY <2>4, <3>1, <3>3, <3>4, <4>1
    <3>5. CASE k # s
      <4>1. Entries(p)[k].valid /\ Entries(p)[k].inode # i
        BY <2>1, <2>4, <3>1, <3>2, <3>5
      <4>2. Entries(p)[j].inode # Entries(p)[k].inode
        BY <1>1, <2>1, <4>1 DEF IInv, StaleAfterValid
      <4> QED BY <2>4, <3>1, <3>5, <4>1, <4>2
    <3> QED BY <3>4, <3>5
  <2> QED BY <1>1, <2>2, <2>3, <2>4
<1> QED BY <1>4, <1>7, <1>10, <1>11, <1>13, <1>14 DEF IInv

-----------------------------------------------------------------------------
(* unlink and rmdir.                                                       *)

(* Every link's inode is allocated.                                        *)
LEMMA LinkInode ==
  ASSUME IInv, NEW d \in LiveDirs, NEW l \in Slots, Entries(d)[l].valid
  PROVE  /\ <<d, l>> \in LinkSlots /\ At(<<d, l>>) = Entries(d)[l]
         /\ Entries(d)[l].inode \in inode_map \ {0, ROOT}
         /\ Entries(d)[l].isDir <=> inodes[Entries(d)[l].inode].mode = "dir"
<1>1. <<d, l>> \in LinkSlots
  BY DEF LinkSlots
<1>2. At(<<d, l>>) = Entries(d)[l]
  BY DEF At
<1> QED BY <1>1, <1>2 DEF IInv, RefsLive

(* Taking the one link to an inode away together with its bit keeps the    *)
(* links and the inode bitmap in step.                                     *)
LEMMA RemoveLink ==
  ASSUME IInv, NEW x \in LinkSlots, NEW i, At(x).inode = i,
         LinkSlots' = LinkSlots \ {x}, inode_map' = inode_map \ {i},
         \A y \in LinkSlots' : At(y)' = At(y),
         \A j \in inode_map' : inodes'[j] = inodes[j]
  PROVE  RefsLive' /\ RefsUnique'
<1>1. \A y \in LinkSlots' : /\ At(y).inode \in inode_map' \ {0, ROOT}
                            /\ At(y).isDir <=> inodes[At(y).inode].mode = "dir"
  BY DEF IInv, RefsLive, RefsUnique
<1>2. RefsLive'
  BY <1>1 DEF RefsLive
<1>3. RefsUnique'
  BY DEF IInv, RefsUnique
<1> QED BY <1>2, <1>3

(* A block map that keeps every block outside FileSpace keeps those of the *)
(* directories.                                                            *)
LEMMA FileSpaceKeeps ==
  ASSUME IInv, NEW fs \in SUBSET FileSpace
  PROVE  /\ MapWith(fs) \subseteq Blocks
         /\ \A d \in LiveDirs : inodes[d].direct0 \in DataBlocks \cap MapWith(fs)
<1>1. DataBlocks \subseteq Blocks
  BY LayoutAssumption DEF DataBlocks, Blocks
<1>2. MapWith(fs) \subseteq Blocks
  BY <1>1 DEF IInv, TypeOK, MapWith, FileSpace
<1>3. \A d \in LiveDirs : inodes[d].direct0 \in DataBlocks \cap MapWith(fs)
  BY DEF IInv, DirBlocksOwned, MapWith, FileSpace, DirBlocks
<1> QED BY <1>2, <1>3

(* Changing only the block map, as file data does, preserves the           *)
(* inductive invariant.                                                    *)
LEMMA FileDataIInv ==
  ASSUME IInv, NEW fs \in SUBSET FileSpace, block_map' = MapWith(fs),
         UNCHANGED <<inode_map, inodes, dirents>>
  PROVE  IInv'
<1>1. TypeOK' /\ LiveDirs' = LiveDirs /\ LinkSlots' = LinkSlots
      /\ \A x \in LinkSlots : At(x)' = At(x)
  BY FileSpaceKeeps DEF IInv, TypeOK, LiveDirs, LinkSlots, Entries, At
<1>2. DirBlocksOwned'
  <2>1. \A d \in LiveDirs : inodes[d].direct0 \in DataBlocks \cap MapWith(fs)
    BY FileSpaceKeeps
  <2> QED BY <1>1, <2>1 DEF IInv, DirBlocksOwned
<1>3. RootFixed' /\ RefsLive' /\ RefsUnique'
  BY <1>1 DEF IInv, RootFixed, RefsLive, RefsUnique
<1>4. StaleAfterValid'
  BY <1>1 DEF IInv, StaleAfterValid, Entries
<1> QED BY <1>1, <1>2, <1>3, <1>4 DEF IInv

(* unlink removes the link to one allocated inode that is no directory,    *)
(* together with its bit, or no link at all.                               *)
LEMMA UnlinkLinks ==
  ASSUME IInv, NEW dirs \in Seq(PathNames), NEW name, fs_unlink(dirs, name)
  PROVE  \/ UNCHANGED <<inode_map, inodes, dirents>>
         \/ \E p \in LiveDirs, s \in Slots, i \in inode_map \ {0, ROOT} :
               /\ <<p, s>> \in LinkSlots /\ At(<<p, s>>).inode = i
               /\ inodes[i].mode # "dir"
               /\ inode_map' = inode_map \ {i} /\ inodes' = inodes
               /\ dirents' = [dirents EXCEPT ![inodes[p].direct0][s].valid = FALSE]
               /\ LiveDirs' = LiveDirs
               /\ LinkSlots' = LinkSlots \ {<<p, s>>}
               /\ \A x \in LinkSlots' : At(x)' = At(x)
               /\ \A d \in LiveDirs, l \in Slots :
                     /\ Entries(d)'[l].inode = Entries(d)[l].inode
                     /\ Entries(d)'[l].valid <=> Entries(d)[l].valid /\ ~(d = p /\ l = s)
<1>1. PICK p, s, i : /\ p = get_parent_inum(dirs) /\ s = Min(UnlinkSlots(p, name))
                     /\ i = Entries(p)[s].inode
  OBVIOUS
<1>3. p \in LiveDirs
  <2>1. ~(translate_path_to_inum(dirs, name) < 0)
    BY DEF fs_unlink, unlink_errno
  <2> QED BY <1>1, <2>1, Translated
<1>5. CASE UnlinkSlots(p, name) = {} \/ Entries(p)[s].isDir
  BY <1>1, <1>5 DEF fs_unlink
<1>6. CASE ~(UnlinkSlots(p, name) = {} \/ Entries(p)[s].isDir)
  <2>1. /\ inode_map' = inode_map \ {i}
        /\ dirents' = [dirents EXCEPT ![inodes[p].direct0][s].valid = FALSE]
        /\ inodes' = inodes
    BY <1>1, <1>6 DEF fs_unlink
  <2>2. s \in Slots /\ Entries(p)[s].valid
    <3>1. UnlinkSlots(p, name) \subseteq Nat
      BY <1>3, DirEntries DEF UnlinkSlots, Matches
    <3>2. s \in UnlinkSlots(p, name)
      BY <1>1, <1>6, <3>1, MinNat
    <3> QED BY <3>2 DEF UnlinkSlots, Matches
  <2>3. /\ <<p, s>> \in LinkSlots /\ At(<<p, s>>).inode = i
        /\ i \in inode_map \ {0, ROOT} /\ inodes[i].mode # "dir"
    BY <1>1, <1>3, <1>6, <2>2, LinkInode
  <2>4. LiveDirs' = LiveDirs
    BY <2>1, <2>3 DEF LiveDirs
  <2>5. \A d \in LiveDirs : d # p => inodes[d].direct0 # inodes[p].direct0
    BY <1>3 DEF IInv, DirBlocksOwned
  <2>6. \A d \in LiveDirs : Entries(d)' =
           IF d = p THEN [Entries(p) EXCEPT ![s].valid = FALSE] ELSE Entries(d)
    BY <1>3, <2>1, <2>5, DirEntries DEF Entries, IInv, TypeOK
  <2>7. \A d \in LiveDirs, l \in Slots :
           /\ ~(d = p /\ l = s) => Entries(d)'[l] = Entries(d)[l]
           /\ Entries(d)'[l].inode = Entries(d)[l].inode
           /\ Entries(d)'[l].valid <=> Entries(d)[l].valid /\ ~(d = p /\ l = s)
    <3>1. SUFFICES ASSUME NEW d \in LiveDirs, NEW l \in Slots
          PROVE  /\ ~(d = p /\ l = s) => Entries(d)'[l] = Entries(d)[l]
                 /\ Entries(d)'[l].inode = Entries(d)[l].inode
                 /\ Entries(d)'[l].valid <=> Entries(d)[l].valid /\ ~(d = p /\ l = s)
      OBVIOUS
    <3>2. Entries(d) \in [Slots -> Dirent] /\ Entries(p) \in [Slots -> Dirent]
      BY <1>3, DirEntries
    <3>3. Entries(d)[l] \in Dirent
      BY <3>2
    <3>4. CASE ~(d = p /\ l = s)
      BY <2>6, <3>2, <3>4
    <3>5. CASE d = p /\ l = s
      BY <2>2, <2>6, <3>2, <3>3, <3>5 DEF Dirent
    <3> QED BY <3>4, <3>5
  <2>8. LinkSlots' = LinkSlots \ {<<p, s>>}
    <3>1. LinkSlots' = {x \in LiveDirs' \X Slots : Entries(x[1])'[x[2]].valid}
      BY DEF LinkSlots
    <3> QED BY <2>4, <2>7, <3>1 DEF LinkSlots
  <2>9. \A x \in LinkSlots' : At(x)' = At(x)
    BY <2>7, <2>8 DEF At, LinkSlots
  <2> QED BY <1>3, <2>1, <2>2, <2>3, <2>4, <2>7, <2>8, <2>9
<1> QED BY <1>5, <1>6

(* unlink preserves the inductive invariant.                               *)
LEMMA UnlinkIInv ==
  ASSUME IInv, NEW dirs \in Seq(PathNames), NEW name, fs_unlink(dirs, name)
  PROVE  IInv'
<1>1. PICK fs \in SUBSET FileSpace : block_map' = MapWith(fs)
  BY DEF fs_unlink
<1>2. CASE UNCHANGED <<inode_map, inodes, dirents>>
  BY <1>1, <1>2, FileDataIInv
<1>3. ASSUME NEW p \in LiveDirs, NEW s \in Slots, NEW i \in inode_map \ {0, ROOT},
             <<p, s>> \in LinkSlots, At(<<p, s>>).inode = i, inodes[i].mode # "dir",
             inode_map' = inode_map \ {i}, inodes' = inodes,
             dirents' = [dirents EXCEPT ![inodes[p].direct0][s].valid = FALSE],
             LiveDirs' = LiveDirs, LinkSlots' = LinkSlots \ {<<p, s>>},
             \A x \in LinkSlots' : At(x)' = At(x),
             \A d \in LiveDirs, l \in Slots :
                /\ Entries(d)'[l].inode = Entries(d)[l].inode
                /\ Entries(d)'[l].valid <=> Entries(d)[l].valid /\ ~(d = p /\ l = s)
      PROVE  IInv'
  <2>1. RefsLive' /\ RefsUnique'
    BY <1>3, RemoveLink
  <2>2. DirBlocksOwned'
    <3>1. \A d \in LiveDirs : inodes[d].direct0 \in DataBlocks \cap MapWith(fs)
      BY FileSpaceKeeps
    <3> QED BY <1>1, <1>3, <3>1 DEF IInv, DirBlocksOwned
  <2>3. StaleAfterValid'
    BY <1>3 DEF IInv, StaleAfterValid
  <2>4. TypeOK'
    <3>1. block_map' \subseteq Blocks
      BY <1>1, FileSpaceKeeps
    <3>2. dirents' \in [DataBlocks -> [Slots -> Dirent]]
      <4>1. Entries(p) \in [Slots -> Dirent] /\ inodes[p].direct0 \in DataBlocks
        BY DirEntries
      <4>2. [Entries(p)[s] EXCEPT !.valid = FALSE] \in Dirent
        BY <4>1 DEF Dirent
      <4>3. dirents' = [dirents EXCEPT ![inodes[p].direct0] =
                          [Entries(p) EXCEPT ![s] = [Entries(p)[s] EXCEPT !.valid = FALSE]]]
        BY <1>3 DEF Entries
      <4>4. PICK e \in Dirent : e = [Entries(p)[s] EXCEPT !.valid = FALSE]
        BY <4>2
      <4>5. [Entries(p) EXCEPT ![s] = e] \in [Slots -> Dirent]
        BY <4>1, <4>4
      <4>6. dirents' = [dirents EXCEPT ![inodes[p].direct0] = [Entries(p) EXCEPT ![s] = e]]
        BY <4>3, <4>4
      <4> QED BY <4>5, <4>6 DEF IInv, TypeOK
    <3> QED BY <1>3, <3>1, <3>2 DEF IInv, TypeOK
  <2>5. RootFixed'
    BY <1>3 DEF IInv, RootFixed
  <2> QED BY <2>1, <2>2, <2>3, <2>4, <2>5 DEF IInv
<1> QED BY <1>2, <1>3, UnlinkLinks, ZenonT(40)

(* A successful rmdir zeroes the entry the path led to and frees the inode *)
(* it named, which is an empty directory other than its parent.            *)
LEMMA RmdirEffect ==
  ASSUME IInv, NEW dirs \in Seq(PathNames), NEW name, fs_rmdir(dirs, name),
         NEW p, p = get_parent_inum(dirs), NEW i, i = translate_path_to_inum(dirs, name),
         NEW s, s = Min(Matches(p, name))
  PROVE  /\ p \in LiveDirs /\ i \in LiveDirs \ {0, ROOT} /\ p # i
         /\ s \in Slots /\ Entries(p)[s].valid /\ Entries(p)[s].inode = i
         /\ \A j \in Slots : ~Entries(i)[j].valid
         /\ inode_map' = inode_map \ {i}
         /\ block_map' = block_map \ {inodes[i].direct0}
         /\ inodes' = [inodes EXCEPT ![i] = ZeroInode]
         /\ dirents' = [dirents EXCEPT ![inodes[p].direct0][s] = ZeroDirent]
<1>1. rmdir_errno(dirs, name) = 0
  BY DEF fs_rmdir
<1>2. ~(i < 0)
  BY <1>1 DEF rmdir_errno
<1>3. /\ p \in LiveDirs /\ Found(p, name) /\ i = Entry(p, name).inode
      /\ i \in inode_map \ {0, ROOT}
  BY <1>2, Translated
<1>4. inodes[i].mode = "dir" /\ \A j \in Slots : ~Entries(i)[j].valid
  BY <1>1, <1>2 DEF rmdir_errno
<1>5. i \in LiveDirs
  BY <1>3, <1>4 DEF LiveDirs
<1>6. s \in Slots /\ Entries(p)[s].valid /\ Entries(p)[s].inode = i
  <2>1. Leads(p, name, s)
    BY <1>3, LookupSlot
  <2> QED BY <1>3, <2>1 DEF Leads
<1>7. p # i
  BY <1>4, <1>6
<1>8. SlotsOfInode(p, i) # {} /\ Min(SlotsOfInode(p, i)) = s
  BY <1>3, SlotByInode
<1>9. inodes[i].direct0 \in DataBlocks
  BY <1>5, DirEntries
<1>10. free_a_block(block_map, inodes[i].direct0) = block_map \ {inodes[i].direct0}
  BY <1>9, LayoutAssumption DEF free_a_block, DataBlocks
<1> QED BY <1>3, <1>4, <1>5, <1>6, <1>7, <1>8, <1>10 DEF fs_rmdir

(* It removes that one link.                                               *)
LEMMA RmdirLinks ==
  ASSUME IInv, NEW dirs \in Seq(PathNames), NEW name, fs_rmdir(dirs, name),
         NEW p, p = get_parent_inum(dirs), NEW i, i = translate_path_to_inum(dirs, name),
         NEW s, s = Min(Matches(p, name))
  PROVE  /\ LiveDirs' = LiveDirs \ {i}
         /\ \A d \in LiveDirs', l \in Slots :
               Entries(d)'[l] = IF d = p /\ l = s THEN ZeroDirent ELSE Entries(d)[l]
         /\ <<p, s>> \in LinkSlots /\ At(<<p, s>>).inode = i
         /\ LinkSlots' = LinkSlots \ {<<p, s>>}
         /\ \A x \in LinkSlots' : At(x)' = At(x)
         /\ i \in LiveDirs /\ inode_map' = inode_map \ {i}
         /\ \A j \in Slots : ~Entries(i)[j].valid
<1>2. /\ p \in LiveDirs /\ i \in LiveDirs \ {0, ROOT} /\ p # i
      /\ s \in Slots /\ Entries(p)[s].valid /\ Entries(p)[s].inode = i
      /\ \A j \in Slots : ~Entries(i)[j].valid
      /\ inode_map' = inode_map \ {i}
      /\ inodes' = [inodes EXCEPT ![i] = ZeroInode]
      /\ dirents' = [dirents EXCEPT ![inodes[p].direct0][s] = ZeroDirent]
  BY RmdirEffect
<1>3. \A d \in inode_map' : inodes'[d] = inodes[d]
  BY <1>2 DEF IInv, TypeOK
<1>4. LiveDirs' = LiveDirs \ {i}
  BY <1>2, <1>3 DEF LiveDirs
<1>5. \A d, e \in LiveDirs : inodes[d].direct0 = inodes[e].direct0 => d = e
  BY DEF IInv, DirBlocksOwned
<1>6. \A d \in LiveDirs' : Entries(d)' =
         IF d = p THEN [Entries(p) EXCEPT ![s] = ZeroDirent] ELSE Entries(d)
  <2>1. \A d \in LiveDirs' : inodes'[d] = inodes[d]
    BY <1>3 DEF LiveDirs
  <2>2. inodes[p].direct0 \in DataBlocks
    BY <1>2, DirEntries
  <2> QED BY <1>2, <1>4, <1>5, <2>1, <2>2 DEF Entries, IInv, TypeOK
<1>7. \A d \in LiveDirs', l \in Slots :
         Entries(d)'[l] = IF d = p /\ l = s THEN ZeroDirent ELSE Entries(d)[l]
  <2>1. Entries(p) \in [Slots -> Dirent]
    BY <1>2, DirEntries
  <2> QED BY <1>6, <2>1
<1>8. <<p, s>> \in LinkSlots /\ At(<<p, s>>).inode = i
  BY <1>2, LinkInode
<1>9. LinkSlots' = LinkSlots \ {<<p, s>>}
  <2>1. LinkSlots' = {x \in LiveDirs' \X Slots : Entries(x[1])'[x[2]].valid}
    BY DEF LinkSlots
  <2>2. ~ZeroDirent.valid
    BY DEF ZeroDirent
  <2> QED BY <1>2, <1>4, <1>7, <2>1, <2>2 DEF LinkSlots
<1>10. \A x \in LinkSlots' : At(x)' = At(x)
  <2>1. \A x \in LinkSlots' : x[1] \in LiveDirs' /\ x[2] \in Slots /\ ~(x[1] = p /\ x[2] = s)
    BY <1>9 DEF LinkSlots
  <2> QED BY <1>7, <2>1 DEF At
<1> QED BY <1>2, <1>4, <1>7, <1>8, <1>9, <1>10

(* rmdir preserves the inductive invariant.                                *)
LEMMA RmdirIInv ==
  ASSUME IInv, NEW dirs \in Seq(PathNames), NEW name, fs_rmdir(dirs, name)
  PROVE  IInv'
<1>1. PICK p, i, s : /\ p = get_parent_inum(dirs) /\ i = translate_path_to_inum(dirs, name)
                     /\ s = Min(Matches(p, name))
  OBVIOUS
<1>2. /\ p \in LiveDirs /\ i \in LiveDirs \ {0, ROOT} /\ p # i
      /\ s \in Slots /\ Entries(p)[s].valid /\ Entries(p)[s].inode = i
      /\ \A j \in Slots : ~Entries(i)[j].valid
      /\ inode_map' = inode_map \ {i}
      /\ block_map' = block_map \ {inodes[i].direct0}
      /\ inodes' = [inodes EXCEPT ![i] = ZeroInode]
      /\ dirents' = [dirents EXCEPT ![inodes[p].direct0][s] = ZeroDirent]
  BY <1>1, RmdirEffect
<1>3. \A d \in inode_map' : inodes'[d] = inodes[d]
  BY <1>2 DEF IInv, TypeOK
<1>4. /\ LiveDirs' = LiveDirs \ {i}
      /\ \A d \in LiveDirs', l \in Slots :
            Entries(d)'[l] = IF d = p /\ l = s THEN ZeroDirent ELSE Entries(d)[l]
      /\ <<p, s>> \in LinkSlots /\ At(<<p, s>>).inode = i
      /\ LinkSlots' = LinkSlots \ {<<p, s>>}
      /\ \A x \in LinkSlots' : At(x)' = At(x)
  BY <1>1, RmdirLinks
<1>5. \A d, e \in LiveDirs : inodes[d].direct0 = inodes[e].direct0 => d = e
  BY DEF IInv, DirBlocksOwned
<1>11. RefsLive' /\ RefsUnique'
  BY <1>2, <1>3, <1>4, RemoveLink
<1>12. DirBlocksOwned'
  <2>1. \A d \in LiveDirs' : inodes'[d].direct0 = inodes[d].direct0
    BY <1>3 DEF LiveDirs
  <2> QED BY <1>2, <1>4, <1>5, <2>1 DEF IInv, DirBlocksOwned
<1>13. StaleAfterValid'
  <2>1. SUFFICES ASSUME NEW d \in LiveDirs', NEW j \in Slots, NEW k \in Slots,
                        j < k, Entries(d)'[k].valid
                 PROVE  Entries(d)'[j].inode # Entries(d)'[k].inode
    BY DEF StaleAfterValid
  <2>2. Entries(d)'[k] = Entries(d)[k] /\ Entries(d)[k].valid
    BY <1>4, <2>1 DEF ZeroDirent
  <2>3. d \in LiveDirs
    BY <1>4
  <2>4. Entries(d)[k].inode # 0
    BY <2>2, <2>3, LinkInode
  <2>5. CASE d = p /\ j = s
    BY <1>4, <2>2, <2>4, <2>5 DEF ZeroDirent
  <2>6. CASE ~(d = p /\ j = s)
    BY <1>4, <2>1, <2>2, <2>3, <2>6 DEF IInv, StaleAfterValid
  <2> QED BY <2>5, <2>6
<1>14. TypeOK'
  <2>1. ZeroDirent \in Dirent /\ ZeroInode \in Inode
    BY NamesAssumption, LayoutAssumption
       DEF Dirent, ZeroDirent, Inums, Inode, ZeroInode, Modes, Blocks
  <2>2. dirents' \in [DataBlocks -> [Slots -> Dirent]]
    BY <1>2, <2>1 DEF IInv, TypeOK
  <2> QED BY <1>2, <2>1, <2>2 DEF IInv, TypeOK
<1>15. RootFixed'
  BY <1>2, <1>3, <1>4 DEF IInv, RootFixed
<1> QED BY <1>11, <1>12, <1>13, <1>14, <1>15 DEF IInv

-----------------------------------------------------------------------------
(* rename.                                                                 *)

(* The name rename leaves in the entry is a sequence of characters.        *)
LEMMA OverwriteType ==
  ASSUME NEW old \in Seq(Nat), NEW new \in Seq(Nat)
  PROVE  Overwrite(old, new) \in Seq(Nat)
BY DEF Overwrite

(* A successful rename changes the name in the entry the source path led   *)
(* to, and nothing else.                                                   *)
LEMMA RenameEffect ==
  ASSUME IInv, NEW dirs \in Seq(PathNames), NEW name,
         NEW dstDirs, NEW dstName, fs_rename(dirs, name, dstDirs, dstName),
         NEW p, p = get_parent_inum(dirs), NEW s, s = Min(Matches(p, name))
  PROVE  /\ p \in LiveDirs /\ s \in Slots /\ Entries(p)[s].valid
         /\ dirents' = [dirents EXCEPT ![inodes[p].direct0][s].name = Overwrite(@, dstName)]
         /\ UNCHANGED <<inode_map, block_map, inodes>>
<1>1. PICK i : i = translate_path_to_inum(dirs, name)
  OBVIOUS
<1>2. ~(i < 0)
  BY <1>1 DEF fs_rename, rename_errno
<1>3. p \in LiveDirs /\ Found(p, name) /\ i = Entry(p, name).inode
  BY <1>1, <1>2, Translated
<1>4. s \in Slots /\ Entries(p)[s].valid
  BY <1>3, LookupSlot DEF Leads
<1>5. Min(SlotsOfInode(p, i)) = s
  BY <1>3, SlotByInode
<1> QED BY <1>1, <1>3, <1>4, <1>5 DEF fs_rename

(* It keeps every link, with its inode, and the name it leaves there is    *)
(* the new one written over the old one.                                   *)
LEMMA RenameLinks ==
  ASSUME IInv, NEW dirs \in Seq(PathNames), NEW name,
         NEW dstDirs, NEW dstName \in Seq(Nat), fs_rename(dirs, name, dstDirs, dstName),
         NEW p, p = get_parent_inum(dirs), NEW s, s = Min(Matches(p, name))
  PROVE  /\ dirents' \in [DataBlocks -> [Slots -> Dirent]]
         /\ LiveDirs' = LiveDirs
         /\ \A d \in LiveDirs, l \in Slots :
               /\ Entries(d)'[l].valid = Entries(d)[l].valid
               /\ Entries(d)'[l].inode = Entries(d)[l].inode
               /\ Entries(d)'[l].isDir = Entries(d)[l].isDir
         /\ LinkSlots' = LinkSlots /\ <<p, s>> \in LinkSlots
         /\ \A x \in LinkSlots : At(x)'.inode = At(x).inode /\ At(x)'.isDir = At(x).isDir
         /\ \A x \in LinkSlots : x # <<p, s>> => At(x)'.name = At(x).name
         /\ At(<<p, s>>)'.name = Overwrite(At(<<p, s>>).name, dstName)
<1>2. /\ p \in LiveDirs /\ s \in Slots /\ Entries(p)[s].valid
      /\ dirents' = [dirents EXCEPT ![inodes[p].direct0][s].name = Overwrite(@, dstName)]
      /\ UNCHANGED <<inode_map, block_map, inodes>>
  BY RenameEffect
<1>3. PICK e : e = [Entries(p)[s] EXCEPT !.name = Overwrite(@, dstName)]
  OBVIOUS
<1>4. /\ Entries(p) \in [Slots -> Dirent] /\ inodes[p].direct0 \in DataBlocks
      /\ Entries(p)[s] \in Dirent
  BY <1>2, DirEntries
<1>5. /\ e \in Dirent /\ e.valid = Entries(p)[s].valid
      /\ e.inode = Entries(p)[s].inode /\ e.isDir = Entries(p)[s].isDir
  <2>1. Overwrite(Entries(p)[s].name, dstName) \in Seq(Nat)
    BY <1>4, OverwriteType DEF Dirent
  <2> QED BY <1>3, <1>4, <2>1 DEF Dirent
<1>6. dirents' = [dirents EXCEPT ![inodes[p].direct0] = [Entries(p) EXCEPT ![s] = e]]
  BY <1>2, <1>3 DEF Entries
<1>7. dirents' \in [DataBlocks -> [Slots -> Dirent]]
  <2>1. [Entries(p) EXCEPT ![s] = e] \in [Slots -> Dirent]
    BY <1>4, <1>5
  <2> QED BY <1>6, <2>1 DEF IInv, TypeOK
<1>8. LiveDirs' = LiveDirs
  BY <1>2 DEF LiveDirs
<1>9. \A d \in LiveDirs : Entries(d)' =
         IF d = p THEN [Entries(p) EXCEPT ![s] = e] ELSE Entries(d)
  BY <1>2, <1>4, <1>6 DEF Entries, IInv, TypeOK, DirBlocksOwned
<1>10. \A d \in LiveDirs, l \in Slots :
          /\ Entries(d)'[l].valid = Entries(d)[l].valid
          /\ Entries(d)'[l].inode = Entries(d)[l].inode
          /\ Entries(d)'[l].isDir = Entries(d)[l].isDir
  BY <1>2, <1>4, <1>5, <1>9
<1>11. LinkSlots' = LinkSlots
  <2>1. LinkSlots' = {x \in LiveDirs' \X Slots : Entries(x[1])'[x[2]].valid}
    BY DEF LinkSlots
  <2> QED BY <1>8, <1>10, <2>1 DEF LinkSlots
<1>12. \A x \in LinkSlots : At(x)'.inode = At(x).inode /\ At(x)'.isDir = At(x).isDir
  BY <1>10 DEF At, LinkSlots
<1>13. <<p, s>> \in LinkSlots
  BY <1>2 DEF LinkSlots
<1>14. ASSUME NEW x \in LinkSlots, x # <<p, s>> PROVE At(x)'.name = At(x).name
  <2>1. x[1] \in LiveDirs /\ x[2] \in Slots /\ ~(x[1] = p /\ x[2] = s)
    BY <1>14 DEF LinkSlots
  <2> QED BY <1>4, <1>9, <2>1 DEF At
<1>15. At(<<p, s>>)'.name = Overwrite(At(<<p, s>>).name, dstName)
  <2>1. Entries(p)'[s] = e
    BY <1>2, <1>4, <1>9
  <2>2. e.name = Overwrite(Entries(p)[s].name, dstName)
    BY <1>3, <1>4 DEF Dirent
  <2> QED BY <2>1, <2>2 DEF At
<1> QED BY <1>7, <1>8, <1>10, <1>11, <1>12, <1>13, <1>14, <1>15

(* rename preserves the inductive invariant.                               *)
LEMMA RenameIInv ==
  ASSUME IInv, NEW dirs \in Seq(PathNames), NEW name,
         NEW dstDirs, NEW dstName \in Seq(Nat), fs_rename(dirs, name, dstDirs, dstName)
  PROVE  IInv'
<1>1. PICK p, s : p = get_parent_inum(dirs) /\ s = Min(Matches(p, name))
  OBVIOUS
<1>2. UNCHANGED <<inode_map, block_map, inodes>>
  BY <1>1, RenameEffect
<1>7. TypeOK'
  BY <1>1, <1>2, RenameLinks DEF IInv, TypeOK
<1>8. /\ LiveDirs' = LiveDirs
      /\ \A d \in LiveDirs, l \in Slots :
            /\ Entries(d)'[l].valid = Entries(d)[l].valid
            /\ Entries(d)'[l].inode = Entries(d)[l].inode
            /\ Entries(d)'[l].isDir = Entries(d)[l].isDir
      /\ LinkSlots' = LinkSlots
      /\ \A x \in LinkSlots : At(x)'.inode = At(x).inode /\ At(x)'.isDir = At(x).isDir
  BY <1>1, RenameLinks
<1>13. RefsLive' /\ RefsUnique'
  <2>1. RefsLive'
    BY <1>2, <1>8 DEF IInv, RefsLive
  <2>2. RefsUnique'
    BY <1>8 DEF IInv, RefsUnique
  <2> QED BY <2>1, <2>2
<1>14. RootFixed' /\ DirBlocksOwned'
  BY <1>2, <1>8 DEF IInv, RootFixed, DirBlocksOwned
<1>15. StaleAfterValid'
  BY <1>8 DEF IInv, StaleAfterValid
<1> QED BY <1>7, <1>13, <1>14, <1>15 DEF IInv

-----------------------------------------------------------------------------
(* The theorems.                                                           *)

(* Every step preserves the inductive invariant.                           *)
LEMMA NextIInv == IInv /\ [Next]_vars => IInv'
<1> SUFFICES ASSUME IInv, [Next]_vars PROVE IInv'
  OBVIOUS
<1> USE NamesAssumption
<1>1. ASSUME NEW dirs \in PathDirs, NEW name \in PathNames
      PROVE  dirs \in Seq(PathNames) /\ name \in Seq(Nat)
  BY <1>1
<1>2. ASSUME NEW dirs \in PathDirs, NEW name \in PathNames, NEW mode \in NodeModes,
             fs_mknod(dirs, name, mode)
      PROVE  IInv'
  BY <1>1, <1>2, MknodIInv DEF Modes
<1>3. ASSUME NEW dirs \in PathDirs, NEW name \in PathNames, fs_mkdir(dirs, name)
      PROVE  IInv'
  BY <1>1, <1>3, MknodIInv DEF Modes, fs_mkdir
<1>4. ASSUME NEW dirs \in PathDirs, NEW name \in PathNames, fs_unlink(dirs, name)
      PROVE  IInv'
  BY <1>1, <1>4, UnlinkIInv
<1>5. ASSUME NEW dirs \in PathDirs, NEW name \in PathNames, fs_rmdir(dirs, name)
      PROVE  IInv'
  BY <1>1, <1>5, RmdirIInv
<1>6. ASSUME NEW dirs \in PathDirs, NEW name \in PathNames, NEW dstDirs \in PathDirs,
             NEW dstName \in PathNames, fs_rename(dirs, name, dstDirs, dstName)
      PROVE  IInv'
  BY <1>1, <1>6, RenameIInv
<1>7. CASE FileData
  BY <1>7, FileDataIInv DEF FileData
<1>8. CASE UNCHANGED vars
  <2>1. block_map = MapWith(FileSpace \cap block_map)
    BY DEF MapWith
  <2>2. UNCHANGED <<inode_map, block_map, inodes, dirents>>
    BY <1>8 DEF vars
  <2> QED BY <2>1, <2>2, FileDataIInv
<1> QED BY <1>2, <1>3, <1>4, <1>5, <1>6, <1>7, <1>8 DEF Next

(* The inductive invariant holds in every reachable state.                 *)
LEMMA AlwaysIInv == Spec => []IInv
BY InitIInv, NextIInv, PTL DEF Spec

(* Type correctness of the bitmaps, the inode table and the directories.   *)
THEOREM TypeCorrect == Spec => []TypeOK
<1>1. IInv => TypeOK
  BY DEF IInv
<1> QED BY <1>1, AlwaysIInv, PTL

(* For every image size and every set of paths, the links of the tree and  *)
(* the inode bitmap agree: each link leads to an allocated inode of its    *)
(* kind, and no inode has two links.                                       *)
THEOREM LinksMatchInodes == Spec => [](RefsLive /\ RefsUnique)
<1>1. IInv => RefsLive /\ RefsUnique
  BY DEF IInv
<1> QED BY <1>1, AlwaysIInv, PTL

(* Every directory keeps an allocated block of its own.                    *)
THEOREM DirectoryBlocks == Spec => []DirBlocksOwned
<1>1. IInv => DirBlocksOwned
  BY DEF IInv
<1> QED BY <1>1, AlwaysIInv, PTL

(* The searches by inode number in fs_rmdir and fs_rename, which ignore    *)
(* the valid bit, meet the valid entry before any stale one.               *)
THEOREM StaleSlotsLater == Spec => []StaleAfterValid
<1>1. IInv => StaleAfterValid
  BY DEF IInv
<1> QED BY <1>1, AlwaysIInv, PTL

-----------------------------------------------------------------------------
(* Removals and renamings touch the named entry only.                      *)

(* Assigning one slot of one directory block.                              *)
LEMMA OneSlot ==
  ASSUME TypeOK, NEW b \in DataBlocks, NEW s \in Slots, NEW e,
         dirents' = [dirents EXCEPT ![b] = [dirents[b] EXCEPT ![s] = e]],
         dirents' # dirents
  PROVE  /\ dirents'[b][s] # dirents[b][s]
         /\ \A c \in DataBlocks, j \in Slots :
               <<c, j>> # <<b, s>> => dirents'[c][j] = dirents[c][j]
<1>1. dirents'[b][s] = e
  BY DEF TypeOK
<1>2. e # dirents[b][s]
  <2>1. SUFFICES ASSUME e = dirents[b][s] PROVE dirents' = dirents
    OBVIOUS
  <2>2. [dirents[b] EXCEPT ![s] = e] = dirents[b]
    BY <2>1 DEF TypeOK
  <2> QED BY <2>2 DEF TypeOK
<1>3. ASSUME NEW c \in DataBlocks, NEW j \in Slots, <<c, j>> # <<b, s>>
      PROVE  dirents'[c][j] = dirents[c][j]
  <2>1. CASE c # b
    BY <2>1 DEF TypeOK
  <2>2. CASE c = b /\ j # s
    BY <2>2 DEF TypeOK
  <2> QED BY <1>3, <2>1, <2>2
<1> QED BY <1>1, <1>2, <1>3

(* The first match of a name is what unlink clears, when it clears one.    *)
LEMMA UnlinkNamed ==
  ASSUME IInv, NEW dirs \in Seq(PathNames), NEW name, fs_unlink(dirs, name),
         NEW p, p = get_parent_inum(dirs), NEW s, s = Min(Matches(p, name)),
         dirents' # dirents
  PROVE  /\ p \in LiveDirs /\ s \in Slots
         /\ dirents' = [dirents EXCEPT ![inodes[p].direct0][s].valid = FALSE]
<1>1. p \in LiveDirs /\ Found(p, name)
  <2>1. ~(translate_path_to_inum(dirs, name) < 0)
    BY DEF fs_unlink, unlink_errno
  <2> QED BY <2>1, Translated
<1>2. UnlinkSlots(p, name) = Matches(p, name)
  BY <1>1, LinkInode DEF UnlinkSlots, Matches
<1>3. s \in Slots
  BY <1>1, LookupSlot DEF Leads
<1> QED BY <1>1, <1>2, <1>3 DEF fs_unlink

(* As long as the invariant holds, they change the entry that the path     *)
(* leads to.                                                               *)
LEMMA NamedByIInv == []IInv => NamedEntryOnly
<1> DEFINE Named(dirs, name) ==
             LET p == get_parent_inum(dirs)
                 s == Min(Matches(p, name))
             IN  /\ dirents'[inodes[p].direct0][s] # Entries(p)[s]
                 /\ \A b \in DataBlocks, j \in Slots :
                       <<b, j>> # <<inodes[p].direct0, s>>
                          => dirents'[b][j] = dirents[b][j]
           Step == \A dirs \in PathDirs, name \in PathNames :
                      /\ \/ fs_unlink(dirs, name) \/ fs_rmdir(dirs, name)
                         \/ \E dstName \in PathNames : fs_rename(dirs, name, dirs, dstName)
                      /\ dirents' # dirents
                      => Named(dirs, name)
<1>1. ASSUME IInv PROVE Step
  <2>1. SUFFICES ASSUME NEW dirs \in PathDirs, NEW name \in PathNames,
                        \/ fs_unlink(dirs, name) \/ fs_rmdir(dirs, name)
                        \/ \E dstName \in PathNames : fs_rename(dirs, name, dirs, dstName),
                        dirents' # dirents
                 PROVE  Named(dirs, name)
    OBVIOUS
  <2>2. PICK p, s : p = get_parent_inum(dirs) /\ s = Min(Matches(p, name))
    OBVIOUS
  <2>3. dirs \in Seq(PathNames)
    BY NamesAssumption
  <2>4. /\ p \in LiveDirs /\ s \in Slots
        /\ \E e : dirents' = [dirents EXCEPT ![inodes[p].direct0] =
                                [dirents[inodes[p].direct0] EXCEPT ![s] = e]]
    <3>1. CASE fs_unlink(dirs, name)
      <4>1. /\ p \in LiveDirs /\ s \in Slots
            /\ dirents' = [dirents EXCEPT ![inodes[p].direct0][s].valid = FALSE]
        BY <1>1, <2>1, <2>2, <2>3, <3>1, UnlinkNamed
      <4>2. PICK e : e = [dirents[inodes[p].direct0][s] EXCEPT !.valid = FALSE]
        OBVIOUS
      <4> QED BY <4>1, <4>2
    <3>2. CASE fs_rmdir(dirs, name)
      <4>1. PICK i : i = translate_path_to_inum(dirs, name)
        OBVIOUS
      <4>2. /\ p \in LiveDirs /\ s \in Slots
            /\ dirents' = [dirents EXCEPT ![inodes[p].direct0][s] = ZeroDirent]
        BY <1>1, <2>2, <2>3, <3>2, <4>1, RmdirEffect
      <4> QED BY <4>2
    <3>3. ASSUME NEW dstName \in PathNames, fs_rename(dirs, name, dirs, dstName)
          PROVE  /\ p \in LiveDirs /\ s \in Slots
                 /\ \E e : dirents' = [dirents EXCEPT ![inodes[p].direct0] =
                                         [dirents[inodes[p].direct0] EXCEPT ![s] = e]]
      <4>1. /\ p \in LiveDirs /\ s \in Slots
            /\ dirents' = [dirents EXCEPT ![inodes[p].direct0][s].name = Overwrite(@, dstName)]
        BY <1>1, <2>2, <2>3, <3>3, RenameEffect
      <4>2. PICK e : e = [dirents[inodes[p].direct0][s] EXCEPT !.name = Overwrite(@, dstName)]
        OBVIOUS
      <4> QED BY <4>1, <4>2
    <3> QED BY <2>1, <3>1, <3>2, <3>3
  <2>5. TypeOK /\ inodes[p].direct0 \in DataBlocks
    BY <1>1, <2>4, DirEntries DEF IInv
  <2>6. PICK b : b = inodes[p].direct0 /\ b \in DataBlocks
    BY <2>5
  <2>7. PICK e : dirents' = [dirents EXCEPT ![b] = [dirents[b] EXCEPT ![s] = e]]
    BY <2>4, <2>6
  <2>8. /\ dirents'[b][s] # dirents[b][s]
        /\ \A c \in DataBlocks, j \in Slots :
              <<c, j>> # <<b, s>> => dirents'[c][j] = dirents[c][j]
    <3>1. s \in Slots /\ b \in DataBlocks /\ TypeOK /\ dirents' # dirents
      BY <2>1, <2>4, <2>5, <2>6
    <3> QED BY <2>7, <3>1, OneSlot, Zenon
  <2> QED BY <2>2, <2>6, <2>8 DEF Entries
<1>2. []IInv => [][Step]_vars
  <2> HIDE DEF Step
  <2> QED BY <1>1, PTL
<1> QED BY <1>2 DEF NamedEntryOnly

(* For every image and every path, unlink, rmdir and rename change the     *)
(* entry the path leads to and no other, although two of them look it up   *)
(* again by inode number.                                                  *)
THEOREM OnlyNamedEntry == Spec => NamedEntryOnly
BY AlwaysIInv, NamedByIInv, PTL

=============================================================================
