---------------------------- MODULE FsTreeProofs ----------------------------
(***************************************************************************)
(* Proofs about the tree the directory operations build: it stays          *)
(* connected, whatever the size of the image and the paths, the handlers   *)
(* implement the tree of links, and read-img finds nothing wrong with it.  *)
(***************************************************************************)
EXTENDS ReadImg, FsNamesProofs, FiniteSetTheorems

USE DEF ENOENT, EEXIST, ENOTDIR, EISDIR, EINVAL, ENOSPC, ENOTEMPTY, ROOT

-----------------------------------------------------------------------------
(* The operators of FsNames on any image, given by its inode bitmap, inode *)
(* table and directory blocks.                                             *)

DirsIn(im, ino)         == {i \in im : ino[i].mode = "dir"}
EntriesIn(ino, dir, d)  == dir[ino[d].direct0]
SlotsIn(im, ino, dir)   == {x \in DirsIn(im, ino) \X Slots : EntriesIn(ino, dir, x[1])[x[2]].valid}
AtIn(ino, dir, x)       == EntriesIn(ino, dir, x[1])[x[2]]
NearIn(im, ino, dir, S) ==
    S \cup {AtIn(ino, dir, x).inode : x \in {y \in SlotsIn(im, ino, dir) : y[1] \in S}}
LevelIn(im, ino, dir)   ==
    CHOOSE lv : lv = [n \in 0 .. NumInodes |->
                        IF n = 0 THEN {ROOT} ELSE NearIn(im, ino, dir, lv[n-1])]

(* A set of inodes is closed when it holds the root and whatever a         *)
(* directory in it leads to.                                               *)
ClosedIn(im, ino, dir, S) ==
    ROOT \in S /\ \A x \in SlotsIn(im, ino, dir) : x[1] \in S => AtIn(ino, dir, x).inode \in S

LiveIn(im, ino, dir) ==
    /\ im \in SUBSET Inums /\ ROOT \in im
    /\ \A x \in SlotsIn(im, ino, dir) : AtIn(ino, dir, x).inode \in im \ {0}

(* The recursive definition of Level defines a function.                   *)
LEMMA LevelSteps ==
  ASSUME NEW im, NEW ino, NEW dir, NEW lv, lv = LevelIn(im, ino, dir)
  PROVE  /\ lv[0] = {ROOT}
         /\ \A n \in Nat : n + 1 <= NumInodes => lv[n+1] = NearIn(im, ino, dir, lv[n])
<1> DEFINE Nearer(T) == NearIn(im, ino, dir, T)
           Eqn(f, m) == f = [n \in 0 .. m |-> IF n = 0 THEN {ROOT} ELSE Nearer(f[n-1])]
           S == {m \in Nat : \E f : Eqn(f, m)}
<1>1. 0 \in S
  <2>1. Eqn([n \in 0 .. 0 |-> {ROOT}], 0)
    OBVIOUS
  <2> QED BY <2>1
<1>2. ASSUME NEW m \in Nat, m \in S PROVE m+1 \in S
  <2> HIDE DEF Nearer
  <2>1. PICK f : Eqn(f, m)
    BY <1>2
  <2> DEFINE g == [n \in 0 .. m+1 |-> IF n = 0 THEN {ROOT} ELSE Nearer(f[n-1])]
  <2>2. ASSUME NEW n \in 0 .. m PROVE g[n] = f[n]
    <3>1. n \in 0 .. m+1
      OBVIOUS
    <3>2. f[n] = IF n = 0 THEN {ROOT} ELSE Nearer(f[n-1])
      BY <2>1
    <3> QED BY <3>1, <3>2
  <2>3. \A n \in 0 .. m+1 : n # 0 => n-1 \in 0 .. m
    OBVIOUS
  <2>4. Eqn(g, m+1)
    BY <2>2, <2>3
  <2>5. \E h : Eqn(h, m+1)
    <3> HIDE DEF g, Eqn
    <3> QED BY <2>4
  <2> QED BY <2>5
<1>3. NumInodes \in S
  <2> HIDE DEF S
  <2> QED BY <1>1, <1>2, SetInduction, NamesAssumption
<1>4. lv = CHOOSE f : Eqn(f, NumInodes)
  BY DEF LevelIn
<1> HIDE DEF Nearer
<1>5. Eqn(lv, NumInodes)
  <2>1. \E f : Eqn(f, NumInodes)
    BY <1>3
  <2> HIDE DEF Eqn
  <2> QED BY <1>4, <2>1
<1>6. lv[0] = {ROOT}
  BY <1>5, NamesAssumption
<1>7. ASSUME NEW n \in Nat, n + 1 <= NumInodes PROVE lv[n+1] = Nearer(lv[n])
  <2>1. n + 1 \in 0 .. NumInodes /\ n + 1 # 0 /\ (n + 1) - 1 = n
    BY <1>7, NamesAssumption
  <2> QED BY <1>5, <2>1
<1> QED BY <1>6, <1>7 DEF Nearer

(* A level that is not closed is smaller than the next one, and there are  *)
(* too few inodes for that to go on for NumInodes levels.                  *)
LEMMA LastLevelClosed ==
  ASSUME NEW im, NEW ino, NEW dir, LiveIn(im, ino, dir),
         NEW lv, lv = LevelIn(im, ino, dir)
  PROVE  lv[NumInodes] \subseteq im \ {0} /\ ClosedIn(im, ino, dir, lv[NumInodes])
<1> DEFINE Nearer(T) == NearIn(im, ino, dir, T)
           Closed(T) == ClosedIn(im, ino, dir, T)
           Inside(T) == ROOT \in T /\ T \subseteq im \ {0}
           Far(n) == Cardinality(lv[n]) >= n + 1
           S == {n \in Nat : n <= NumInodes =>
                     Inside(lv[n]) /\ (Closed(lv[n]) \/ Far(n))}
<1>1. ASSUME NEW L, Inside(L) PROVE IsFiniteSet(L) /\ Cardinality(L) \in Nat /\ Cardinality(L) <= NumInodes
  <2>1. IsFiniteSet(Inums) /\ Cardinality(Inums) = NumInodes
    BY FS_Interval, NamesAssumption DEF Inums
  <2>2. L \in SUBSET Inums
    BY <1>1 DEF LiveIn
  <2> QED BY <2>1, <2>2, FS_Subset, FS_CardinalityType
<1>2. ASSUME NEW L, Inside(L) PROVE Inside(Nearer(L))
  BY <1>2 DEF NearIn, LiveIn
<1>3. ASSUME NEW L, Closed(L) PROVE Nearer(L) = L
  BY <1>3 DEF NearIn, ClosedIn
<1>4. ASSUME NEW L, Inside(L), ~Closed(L)
      PROVE  Cardinality(Nearer(L)) >= Cardinality(L) + 1
  <2>1. PICK x \in SlotsIn(im, ino, dir) : x[1] \in L /\ AtIn(ino, dir, x).inode \notin L
    BY <1>4 DEF ClosedIn
  <2>2. L \cup {AtIn(ino, dir, x).inode} \in SUBSET Nearer(L)
    BY <2>1 DEF NearIn
  <2>3. Cardinality(L \cup {AtIn(ino, dir, x).inode}) = Cardinality(L) + 1
    BY <1>1, <1>4, <2>1, FS_AddElement
  <2>4. IsFiniteSet(Nearer(L))
    BY <1>1, <1>2, <1>4
  <2> QED BY <2>2, <2>3, <2>4, FS_Subset
<1> HIDE DEF Nearer, Closed
<1>5. 0 \in S
  <2>1. lv[0] = {ROOT}
    BY LevelSteps
  <2>2. Inside(lv[0])
    BY <2>1 DEF LiveIn
  <2>3. Cardinality(lv[0]) = 1
    BY <2>1, FS_Singleton
  <2> QED BY <2>2, <2>3
<1>6. ASSUME NEW n \in Nat, n \in S PROVE n + 1 \in S
  <2>1. SUFFICES ASSUME n + 1 <= NumInodes
                 PROVE  Inside(lv[n+1]) /\ (Closed(lv[n+1]) \/ Far(n+1))
    OBVIOUS
  <2>2. Inside(lv[n]) /\ (Closed(lv[n]) \/ Far(n))
    BY <1>6, <2>1, NamesAssumption
  <2>3. lv[n+1] = Nearer(lv[n])
    BY <2>1, LevelSteps DEF Nearer
  <2>4. Inside(lv[n+1])
    <3> HIDE DEF Inside
    <3> QED BY <1>2, <2>2, <2>3
  <2>5. CASE Closed(lv[n])
    BY <1>3, <2>3, <2>4, <2>5
  <2>6. CASE ~Closed(lv[n])
    <3>1. Cardinality(lv[n]) \in Nat /\ Cardinality(lv[n+1]) \in Nat
      <4> HIDE DEF Inside
      <4> QED BY <1>1, <2>2, <2>4
    <3>2. Cardinality(lv[n+1]) >= Cardinality(lv[n]) + 1
      <4> HIDE DEF Inside
      <4> QED BY <1>4, <2>2, <2>3, <2>6
    <3> QED BY <2>2, <2>4, <2>6, <3>1, <3>2
  <2> QED BY <2>5, <2>6
<1>7. NumInodes \in S
  <2> HIDE DEF S
  <2> QED BY <1>5, <1>6, SetInduction, NamesAssumption
<1>8. ~Far(NumInodes)
  <2>1. Inside(lv[NumInodes])
    BY <1>7, NamesAssumption
  <2> HIDE DEF Inside
  <2>2. Cardinality(lv[NumInodes]) \in Nat /\ Cardinality(lv[NumInodes]) <= NumInodes
    BY <1>1, <2>1
  <2> QED BY <2>2, NamesAssumption
<1> QED BY <1>7, <1>8, NamesAssumption DEF Closed

-----------------------------------------------------------------------------
(* Reachability.  That every directory with entries is in every closed set *)
(* is inductive, where AllReachable, which counts steps, is not.           *)

Closed(S) == ROOT \in S /\ \A x \in LinkSlots : x[1] \in S => At(x).inode \in S

Rooted == \A S \in SUBSET Inums : Closed(S) => \A x \in LinkSlots : x[1] \in S

(* The operators on the memory.                                            *)
LEMMA MemoryImage ==
  /\ LiveDirs = DirsIn(inode_map, inodes)
  /\ LinkSlots = SlotsIn(inode_map, inodes, dirents)
  /\ \A d : Entries(d) = EntriesIn(inodes, dirents, d)
  /\ \A x : At(x) = AtIn(inodes, dirents, x)
BY DEF LiveDirs, DirsIn, LinkSlots, SlotsIn, Entries, EntriesIn, At, AtIn

LEMMA LastLevel ==
  ASSUME IInv
  PROVE  Level[NumInodes] \subseteq inode_map \ {0} /\ Closed(Level[NumInodes])
<1>1. Level = LevelIn(inode_map, inodes, dirents)
  BY DEF Level, LevelIn, NearIn, LinkSlots, SlotsIn, LiveDirs, DirsIn, Entries, EntriesIn, At, AtIn
<1>2. LiveIn(inode_map, inodes, dirents)
  <2>1. \A x \in LinkSlots : At(x).inode \in inode_map \ {0}
    BY DEF IInv, RefsLive
  <2>2. inode_map \in SUBSET Inums /\ ROOT \in inode_map
    BY DEF IInv, TypeOK, RootFixed, LiveDirs
  <2> QED BY <2>1, <2>2, MemoryImage DEF LiveIn
<1>3. \A S : Closed(S) <=> ClosedIn(inode_map, inodes, dirents, S)
  BY MemoryImage DEF Closed, ClosedIn
<1>4. /\ Level[NumInodes] \subseteq inode_map \ {0}
      /\ ClosedIn(inode_map, inodes, dirents, Level[NumInodes])
  BY <1>1, <1>2, LastLevelClosed
<1> QED BY <1>3, <1>4

(* The walk along a path stays in every closed set.                        *)
LEMMA ParentClosed ==
  ASSUME IInv, NEW dirs \in Seq(PathNames), NEW S, Closed(S),
         NEW p \in LiveDirs, p = get_parent_inum(dirs)
  PROVE  p \in S
<1> DEFINE G == {q \in Good : q \in LiveDirs => q \in S}
<1>1. ROOT \in G
  BY DEF Good, IInv, RootFixed, Closed
<1>2. ASSUME NEW q \in G, NEW k \in 1 .. Len(dirs)
      PROVE  WalkStep(q, dirs[k]) \in G
  <2>1. WalkStep(q, dirs[k]) \in Good
    BY WalkStepGood
  <2>2. ASSUME WalkStep(q, dirs[k]) \in LiveDirs PROVE WalkStep(q, dirs[k]) \in S
    <3>1. ASSUME NEW r \in LiveDirs PROVE r \in Nat /\ ~(r < 0)
      BY DirEntries, NamesAssumption DEF Inums
    <3>2. q \notin {-ENOENT, -ENOTDIR}
      <4>1. -ENOENT < 0 /\ -ENOTDIR < 0
        OBVIOUS
      <4> QED BY <2>2, <3>1, <4>1 DEF WalkStep
    <3>3. q \in LiveDirs /\ q \in S
      BY <3>2 DEF Good
    <3>4. Found(q, dirs[k]) /\ WalkStep(q, dirs[k]) = Entry(q, dirs[k]).inode
      <4>1. -ENOENT < 0 /\ -ENOTDIR < 0
        OBVIOUS
      <4> QED BY <2>2, <3>1, <3>3, <4>1 DEF WalkStep
    <3>5. PICK s : s = Min(Matches(q, dirs[k]))
      OBVIOUS
    <3>6. <<q, s>> \in LinkSlots /\ Entry(q, dirs[k]) = At(<<q, s>>)
      BY <3>3, <3>4, <3>5, LookupSlot DEF Leads
    <3> QED BY <3>3, <3>4, <3>6 DEF Closed
  <2> QED BY <2>1, <2>2
<1>3. Len(dirs) \in Nat
  OBVIOUS
<1>4. p \in G
  <2> HIDE DEF G
  <2> QED BY <1>1, <1>2, <1>3, WalkStays
<1> QED BY <1>4

(* A new link from a directory the walk leads to.                          *)
LEMMA MknodRooted ==
  ASSUME IInv, Rooted, NEW dirs \in Seq(PathNames), NEW name, NEW mode \in Modes,
         fs_mknod(dirs, name, mode)
  PROVE  Rooted'
<1>1. PICK p, i, s : /\ p = get_parent_inum(dirs) /\ i = get_free_inode
                     /\ s = FirstFree(p)
  OBVIOUS
<1>2. p \in LiveDirs
  BY <1>1, MknodEffect
<1>3. /\ LinkSlots' = LinkSlots \cup {<<p, s>>}
      /\ \A x \in LinkSlots : At(x)' = At(x)
  BY <1>1, MknodLinks, ZenonT(40)
<1>4. SUFFICES ASSUME NEW S \in SUBSET Inums, Closed(S)'
               PROVE  \A x \in LinkSlots' : x[1] \in S
  BY DEF Rooted, Inums
<1>5. Closed(S)
  BY <1>3, <1>4 DEF Closed
<1>6. p \in S /\ \A x \in LinkSlots : x[1] \in S
  BY <1>1, <1>2, <1>5, ParentClosed DEF Rooted
<1> QED BY <1>3, <1>6

(* Removing the link to an inode from which no link starts.                *)
LEMMA RemoveRooted ==
  ASSUME IInv, Rooted, NEW x \in LinkSlots, NEW i \in Inums, At(x).inode = i,
         \A y \in LinkSlots : y[1] # i,
         LinkSlots' = LinkSlots \ {x}, \A y \in LinkSlots' : At(y)' = At(y)
  PROVE  Rooted'
<1>1. SUFFICES ASSUME NEW S \in SUBSET Inums, Closed(S)'
               PROVE  \A y \in LinkSlots' : y[1] \in S
  BY DEF Rooted, Inums
<1>2. ROOT \in S /\ \A y \in LinkSlots' : y[1] \in S => At(y)'.inode \in S
  BY <1>1 DEF Closed
<1>3. Closed(S \cup {i})
  BY <1>2 DEF Closed
<1>4. \A y \in LinkSlots : y[1] \in S \cup {i}
  BY <1>3 DEF Rooted
<1> QED BY <1>4

(* A handler removes the last link of an inode that holds no link itself   *)
(* and frees it, or leaves every link at its inode.                        *)
DropsLink(i, x) ==
    /\ x \in LinkSlots /\ At(x).inode = i /\ i \in Inums
    /\ \A y \in LinkSlots : y[1] # i
    /\ inode_map' = inode_map \ {i}
    /\ LinkSlots' = LinkSlots \ {x} /\ \A y \in LinkSlots' : At(y)' = At(y)
KeepsLinks ==
    /\ inode_map' = inode_map
    /\ LinkSlots' = LinkSlots /\ \A y \in LinkSlots : At(y)'.inode = At(y).inode

(* unlink, rmdir and the others do one of these.                           *)
LEMMA LinkChanges ==
  ASSUME IInv, [Next]_vars
  PROVE  \/ \E dirs \in Seq(PathNames), name \in PathNames, mode \in Modes :
               fs_mknod(dirs, name, mode)
         \/ \E i, x : DropsLink(i, x)
         \/ KeepsLinks
<1>1. ASSUME NEW dirs \in PathDirs
      PROVE  dirs \in Seq(PathNames)
  BY NamesAssumption
<1>2. CASE UNCHANGED <<inode_map, inodes, dirents>>
  BY <1>2 DEF KeepsLinks, LinkSlots, LiveDirs, At, Entries
<1>3. ASSUME NEW dirs \in PathDirs, NEW name \in PathNames, fs_unlink(dirs, name)
      PROVE  KeepsLinks \/ \E i, x : DropsLink(i, x)
  <2>1. ASSUME NEW x \in LinkSlots, NEW i \in inode_map \ {0, ROOT}, At(x).inode = i,
               inodes[i].mode # "dir", inode_map' = inode_map \ {i},
               LinkSlots' = LinkSlots \ {x}, \A y \in LinkSlots' : At(y)' = At(y)
        PROVE  \E j, y : DropsLink(j, y)
    <3>1. i \in Inums
      BY DEF IInv, TypeOK
    <3>2. \A y \in LinkSlots : y[1] # i
      BY <2>1 DEF LinkSlots, LiveDirs
    <3>3. DropsLink(i, x)
      BY <2>1, <3>1, <3>2 DEF DropsLink
    <3> QED BY <3>3
  <2>2. \/ UNCHANGED <<inode_map, inodes, dirents>>
        \/ \E x \in LinkSlots, i \in inode_map \ {0, ROOT} :
              /\ At(x).inode = i /\ inodes[i].mode # "dir" /\ inode_map' = inode_map \ {i}
              /\ LinkSlots' = LinkSlots \ {x} /\ \A y \in LinkSlots' : At(y)' = At(y)
    BY <1>1, <1>3, UnlinkLinks
  <2>3. CASE UNCHANGED <<inode_map, inodes, dirents>>
    <3>1. KeepsLinks
      BY <2>3 DEF KeepsLinks, LinkSlots, LiveDirs, At, Entries
    <3> QED BY <3>1
  <2> QED BY <2>1, <2>2, <2>3
<1>4. ASSUME NEW dirs \in PathDirs, NEW name \in PathNames, fs_rmdir(dirs, name)
      PROVE  \E i, x : DropsLink(i, x)
  <2>1. PICK p, i, s : /\ p = get_parent_inum(dirs)
                       /\ i = translate_path_to_inum(dirs, name)
                       /\ s = Min(Matches(p, name))
    OBVIOUS
  <2>2. dirs \in Seq(PathNames)
    BY <1>1
  <2>3. /\ <<p, s>> \in LinkSlots /\ At(<<p, s>>).inode = i
        /\ LinkSlots' = LinkSlots \ {<<p, s>>}
        /\ \A x \in LinkSlots' : At(x)' = At(x)
        /\ i \in LiveDirs /\ inode_map' = inode_map \ {i}
        /\ \A j \in Slots : ~Entries(i)[j].valid
    BY <1>4, <2>1, <2>2, RmdirLinks
  <2>4. \A y \in LinkSlots : y[1] # i
    BY <2>3 DEF LinkSlots
  <2>5. i \in Inums
    BY <2>3, DirEntries
  <2>6. DropsLink(i, <<p, s>>)
    BY <2>3, <2>4, <2>5 DEF DropsLink
  <2> QED BY <2>6
<1>5. ASSUME NEW dirs \in PathDirs, NEW name \in PathNames, NEW dstDirs \in PathDirs,
             NEW dstName \in PathNames, fs_rename(dirs, name, dstDirs, dstName)
      PROVE  KeepsLinks
  <2>1. PICK p, s : p = get_parent_inum(dirs) /\ s = Min(Matches(p, name))
    OBVIOUS
  <2>2. dstName \in Seq(Nat)
    BY NamesAssumption
  <2>3. LinkSlots' = LinkSlots /\ \A x \in LinkSlots : At(x)'.inode = At(x).inode
    BY <1>1, <1>5, <2>1, <2>2, RenameLinks
  <2>4. inode_map' = inode_map
    BY <1>5 DEF fs_rename
  <2> QED BY <2>3, <2>4 DEF KeepsLinks
<1>6. CASE FileData \/ UNCHANGED vars
  BY <1>2, <1>6 DEF FileData, vars
<1>7. NodeModes \subseteq Modes /\ "dir" \in Modes
  BY NamesAssumption DEF Modes
<1> QED BY <1>1, <1>3, <1>4, <1>5, <1>6, <1>7 DEF Next, fs_mkdir

(* Every step of a handler keeps the tree rooted.                          *)
LEMMA NextRooted == IInv /\ Rooted /\ [Next]_vars => Rooted'
<1> SUFFICES ASSUME IInv, Rooted, [Next]_vars PROVE Rooted'
  OBVIOUS
<1>1. CASE \E i, x : DropsLink(i, x)
  BY <1>1, RemoveRooted DEF DropsLink
<1>2. CASE KeepsLinks
  BY <1>2 DEF KeepsLinks, Rooted, Closed
<1> QED BY <1>1, <1>2, LinkChanges, MknodRooted

(* No handler loses an inode: what it removes the last link of it frees.   *)
LEMMA NextOrphans == IInv /\ NoOrphans /\ [Next]_vars => NoOrphans'
<1> SUFFICES ASSUME IInv, NoOrphans, [Next]_vars PROVE NoOrphans'
  OBVIOUS
<1>1. ASSUME NEW dirs \in Seq(PathNames), NEW name \in PathNames, NEW mode \in Modes,
             fs_mknod(dirs, name, mode)
      PROVE  NoOrphans'
  <2>1. PICK p, i, s : /\ p = get_parent_inum(dirs) /\ i = get_free_inode
                       /\ s = FirstFree(p)
    OBVIOUS
  <2>2. /\ LinkSlots' = LinkSlots \cup {<<p, s>>}
        /\ At(<<p, s>>)' = [valid |-> TRUE, isDir |-> mode = "dir", inode |-> i, name |-> name]
        /\ \A x \in LinkSlots : At(x)' = At(x)
    BY <1>1, <2>1, MknodLinks
  <2>3. inode_map' = inode_map \cup {i}
    BY <1>1, <2>1 DEF fs_mknod
  <2> QED BY <2>2, <2>3 DEF NoOrphans
<1>2. ASSUME NEW i, NEW x, DropsLink(i, x) PROVE NoOrphans'
  BY <1>2 DEF DropsLink, NoOrphans
<1>3. CASE KeepsLinks
  BY <1>3 DEF KeepsLinks, NoOrphans
<1> QED BY <1>1, <1>2, <1>3, LinkChanges

(* At first there are no links and no inodes to lead to.                   *)
LEMMA InitLinks == Init => LinkSlots = {} /\ Rooted /\ NoOrphans
<1> SUFFICES ASSUME Init PROVE LinkSlots = {} /\ Rooted /\ NoOrphans
  OBVIOUS
<1> USE LayoutAssumption, NamesAssumption DEF Init
<1>1. LiveDirs = {ROOT}
  BY DEF LiveDirs, ZeroInode, Inums
<1>2. Entries(ROOT) = ZeroBlock
  BY DEF Entries, DataBlocks, Inums
<1>3. LinkSlots = {}
  BY <1>1, <1>2 DEF LinkSlots, ZeroBlock, ZeroDirent
<1> QED BY <1>3 DEF Rooted, NoOrphans

(* In every reachable state the tree is rooted and no inode is lost.       *)
TreeInv == IInv /\ Rooted /\ NoOrphans

LEMMA NextTreeInv == TreeInv /\ [Next]_vars => TreeInv'
BY NextIInv, NextRooted, NextOrphans DEF TreeInv

LEMMA AlwaysTreeInv == Spec => []TreeInv
<1>1. Init => TreeInv
  BY InitIInv, InitLinks DEF TreeInv
<1> QED BY <1>1, NextTreeInv, PTL DEF Spec

(* What is rooted and has no orphans is within reach.                      *)
LEMMA TreeReachable == TreeInv => AllReachable
<1> SUFFICES ASSUME TreeInv PROVE AllReachable
  OBVIOUS
<1> DEFINE S == Level[NumInodes]
<1>1. IInv /\ Rooted /\ NoOrphans
  BY DEF TreeInv
<1>2. S \subseteq inode_map \ {0} /\ Closed(S)
  BY <1>1, LastLevel
<1> HIDE DEF S
<1>3. S \in SUBSET Inums
  BY <1>1, <1>2 DEF IInv, TypeOK
<1>4. \A x \in LinkSlots : At(x).inode \in S
  BY <1>1, <1>2, <1>3 DEF Rooted, Closed
<1>5. inode_map \ {0} \subseteq S
  BY <1>1, <1>2, <1>4 DEF NoOrphans, Closed
<1> QED BY <1>2, <1>5 DEF AllReachable, S

(* No sequence of calls detaches a directory or closes a cycle, whatever   *)
(* the size of the image: every allocated inode is within reach of the     *)
(* root, and nothing else is.                                              *)
THEOREM TreeConnected == Spec => []AllReachable
BY AlwaysTreeInv, TreeReachable, PTL

(* No call loses an inode: mknod gives back what it took when it fails,    *)
(* and unlink and rmdir free an inode with its only entry.                 *)
THEOREM NoInodeLost == Spec => []NoOrphans
<1>1. TreeInv => NoOrphans
  BY DEF TreeInv
<1> QED BY <1>1, AlwaysTreeInv, PTL

-----------------------------------------------------------------------------
(* Names.  fs_rename copies a name without its terminator, so that what    *)
(* follows is for names of one length; NamesKnown fails with others.       *)

SameLength == \A a, b \in PathNames : Len(a) = Len(b)

NamesKnown  == \A x \in LinkSlots : At(x).name \in PathNames
NamesUnique == \A x, y \in LinkSlots : x[1] = y[1] /\ At(x).name = At(y).name => x = y

NamesInv == NamesKnown /\ NamesUnique

(* A new link has a name that nothing in its directory has.                *)
LEMMA MknodFresh ==
  ASSUME IInv, NEW dirs \in Seq(PathNames), NEW name, NEW mode \in Modes,
         fs_mknod(dirs, name, mode), NEW p, p = get_parent_inum(dirs)
  PROVE  \A x \in LinkSlots : x[1] = p => At(x).name # name
<1>1. mknod_errno(dirs, name, mode) = 0
  BY DEF fs_mknod
<1>2. ~(p < 0) /\ ~(translate_path_to_inum(dirs, name) > 0)
  BY <1>1 DEF mknod_errno
<1>3. p \in LiveDirs
  BY <1>2, ParentGood DEF Good
<1>4. ~Found(p, name)
  <2>1. SUFFICES ASSUME Found(p, name) PROVE FALSE
    OBVIOUS
  <2>2. translate_path_to_inum(dirs, name) = Entry(p, name).inode
    BY <1>2, <2>1 DEF translate_path_to_inum
  <2>3. Entry(p, name).inode \in inode_map \ {0, ROOT}
    BY <1>3, <2>1, LookupInode
  <2>4. Entry(p, name).inode \in Nat /\ Entry(p, name).inode # 0
    <3>1. inode_map \subseteq Nat
      BY NamesAssumption DEF IInv, TypeOK, Inums
    <3> QED BY <2>3, <3>1
  <2> QED BY <1>2, <2>2, <2>4
<1> QED BY <1>4 DEF Found, Matches, LinkSlots, At

(* A new name that no slot of the directory bears replaces the old one     *)
(* letter by letter.                                                       *)
LEMMA RenameFresh ==
  ASSUME IInv, SameLength, NamesKnown, NEW dirs \in Seq(PathNames), NEW name,
         NEW dstDirs, NEW dstName \in PathNames, fs_rename(dirs, name, dstDirs, dstName),
         NEW p, p = get_parent_inum(dirs), NEW s, s = Min(Matches(p, name))
  PROVE  /\ <<p, s>> \in LinkSlots
         /\ \A x \in LinkSlots : x[1] = p => At(x).name # dstName
         /\ At(<<p, s>>)'.name = dstName
<1>1. dstName \in Seq(Nat) /\ PathNames \subseteq Seq(Nat)
  BY NamesAssumption
<1>2. <<p, s>> \in LinkSlots /\ At(<<p, s>>)'.name = Overwrite(At(<<p, s>>).name, dstName)
  BY <1>1, RenameLinks
<1>3. \A x \in LinkSlots : x[1] = p => At(x).name # dstName
  <2>1. rename_errno(dirs, name, dstDirs, dstName) = 0
    BY DEF fs_rename
  <2>2. \A j \in Slots : Entries(p)[j].name # dstName
    BY <2>1 DEF rename_errno
  <2> QED BY <2>2 DEF LinkSlots, At
<1>4. ASSUME NEW old \in PathNames PROVE Overwrite(old, dstName) = dstName
  <2>1. Len(old) = Len(dstName) /\ old \in Seq(Nat) /\ Len(old) \in Nat
    BY <1>1 DEF SameLength
  <2>2. SubSeq(old, Len(dstName) + 1, Len(old)) = << >>
    BY <2>1
  <2>3. dstName \o << >> = dstName
    BY <1>1
  <2> QED BY <2>2, <2>3 DEF Overwrite
<1> QED BY <1>2, <1>3, <1>4 DEF NamesKnown

(* The handlers keep names known and unique.                               *)
LEMMA NextNames == SameLength /\ IInv /\ NamesInv /\ [Next]_vars => NamesInv'
<1> SUFFICES ASSUME SameLength, IInv, NamesInv, [Next]_vars PROVE NamesInv'
  OBVIOUS
<1> USE DEF NamesInv
<1>1. ASSUME NEW dirs \in PathDirs
      PROVE  dirs \in Seq(PathNames)
  BY NamesAssumption
<1>2. ASSUME NEW dirs \in PathDirs, NEW name \in PathNames, NEW mode \in Modes,
             fs_mknod(dirs, name, mode)
      PROVE  NamesInv'
  <2>1. PICK p, i, s : /\ p = get_parent_inum(dirs) /\ i = get_free_inode
                       /\ s = FirstFree(p)
    OBVIOUS
  <2>2. /\ LinkSlots' = LinkSlots \cup {<<p, s>>}
        /\ At(<<p, s>>)' = [valid |-> TRUE, isDir |-> mode = "dir", inode |-> i, name |-> name]
        /\ \A x \in LinkSlots : At(x)' = At(x)
    BY <1>1, <1>2, <2>1, MknodLinks
  <2>3. \A x \in LinkSlots : x[1] = p => At(x).name # name
    BY <1>1, <1>2, <2>1, MknodFresh
  <2>4. At(<<p, s>>)'.name = name
    BY <2>2
  <2> QED BY <2>2, <2>3, <2>4 DEF NamesKnown, NamesUnique
<1>3. ASSUME NEW x \in LinkSlots, LinkSlots' = LinkSlots \ {x},
             \A y \in LinkSlots' : At(y)' = At(y)
      PROVE  NamesInv'
  BY <1>3 DEF NamesKnown, NamesUnique
<1>4. CASE UNCHANGED <<inode_map, inodes, dirents>>
  BY <1>4 DEF NamesKnown, NamesUnique, LinkSlots, LiveDirs, At, Entries
<1>5. ASSUME NEW dirs \in PathDirs, NEW name \in PathNames, fs_unlink(dirs, name)
      PROVE  NamesInv'
  BY <1>1, <1>3, <1>4, <1>5, UnlinkLinks
<1>6. ASSUME NEW dirs \in PathDirs, NEW name \in PathNames, fs_rmdir(dirs, name)
      PROVE  NamesInv'
  <2>1. PICK p, i, s : /\ p = get_parent_inum(dirs)
                       /\ i = translate_path_to_inum(dirs, name)
                       /\ s = Min(Matches(p, name))
    OBVIOUS
  <2>2. /\ <<p, s>> \in LinkSlots /\ LinkSlots' = LinkSlots \ {<<p, s>>}
        /\ \A x \in LinkSlots' : At(x)' = At(x)
    BY <1>1, <1>6, <2>1, RmdirLinks
  <2> QED BY <1>3, <2>2
<1>7. ASSUME NEW dirs \in PathDirs, NEW name \in PathNames, NEW dstDirs \in PathDirs,
             NEW dstName \in PathNames, fs_rename(dirs, name, dstDirs, dstName)
      PROVE  NamesInv'
  <2>1. PICK p, s : p = get_parent_inum(dirs) /\ s = Min(Matches(p, name))
    OBVIOUS
  <2>2. dstName \in Seq(Nat)
    BY NamesAssumption
  <2>3. /\ LinkSlots' = LinkSlots /\ <<p, s>> \in LinkSlots
        /\ \A x \in LinkSlots : x # <<p, s>> => At(x)'.name = At(x).name
    BY <1>1, <1>7, <2>1, <2>2, RenameLinks
  <2>4. /\ <<p, s>> \in LinkSlots
        /\ \A x \in LinkSlots : x[1] = p => At(x).name # dstName
        /\ At(<<p, s>>)'.name = dstName
    BY <1>1, <1>7, <2>1, RenameFresh
  <2> QED BY <2>3, <2>4 DEF NamesKnown, NamesUnique
<1>8. CASE FileData \/ UNCHANGED vars
  BY <1>4, <1>8 DEF FileData, vars
<1>9. NodeModes \subseteq Modes /\ "dir" \in Modes
  BY NamesAssumption DEF Modes
<1> QED BY <1>2, <1>5, <1>6, <1>7, <1>8, <1>9 DEF Next, fs_mkdir

(* Names are known and unique in every reachable state.                    *)
LEMMA AlwaysNames ==
  ASSUME SameLength
  PROVE  Spec => [](IInv /\ NamesInv)
<1>1. Init => NamesInv
  BY InitLinks DEF NamesInv, NamesKnown, NamesUnique
<1>2. IInv /\ NamesInv /\ [Next]_vars => NamesInv'
  BY NextNames
<1> QED BY <1>1, <1>2, InitIInv, NextIInv, PTL DEF Spec

(* With unique names the first match of a listed name is the entry listed. *)
LEMMA ListingsFromNames ==
  ASSUME IInv, NamesInv
  PROVE  ListingResolves
<1>1. SUFFICES ASSUME NEW dirs \in PathDirs, get_parent_inum(dirs) > 0,
                      NEW e \in fs_readdir(dirs), NEW f \in fs_readdir(dirs)
               PROVE  /\ translate_path_to_inum(dirs, e.name) > 0
                      /\ fs_getattr(dirs, e.name) = e.st
                      /\ e.name = f.name => e = f
  BY DEF ListingResolves
<1>2. PICK d : d = get_parent_inum(dirs)
  OBVIOUS
<1>3. d \in LiveDirs /\ ~(d < 0)
  <2>1. d \in Good
    BY <1>2, ParentGood, NamesAssumption
  <2>2. d \in LiveDirs
    BY <1>1, <1>2, <2>1 DEF Good
  <2>3. d \in Nat
    BY <2>2, DirEntries, NamesAssumption DEF Inums
  <2> QED BY <2>2, <2>3
<1>4. PICK j \in Slots : Entries(d)[j].valid
                        /\ e = [name |-> Entries(d)[j].name, st |-> attrs(Entries(d)[j].inode)]
  BY <1>2 DEF fs_readdir
<1>5. PICK k \in Slots : Entries(d)[k].valid
                        /\ f = [name |-> Entries(d)[k].name, st |-> attrs(Entries(d)[k].inode)]
  BY <1>2 DEF fs_readdir
<1>6. Matches(d, e.name) # {} /\ Found(d, e.name)
  BY <1>4 DEF Found, Matches
<1>7. PICK s : s = Min(Matches(d, e.name))
  OBVIOUS
<1>8. /\ s \in Slots /\ Entries(d)[s].name = e.name /\ <<d, s>> \in LinkSlots
      /\ Entry(d, e.name) = Entries(d)[s]
      /\ Entry(d, e.name).inode \in inode_map \ {0, ROOT}
  BY <1>3, <1>6, <1>7, LookupSlot, LookupInode DEF Leads
<1>9. ASSUME NEW l \in Slots, NEW m \in Slots, Entries(d)[l].valid, Entries(d)[m].valid,
             Entries(d)[l].name = Entries(d)[m].name
      PROVE  l = m
  <2>1. /\ <<d, l>> \in LinkSlots /\ <<d, m>> \in LinkSlots
        /\ At(<<d, l>>) = Entries(d)[l] /\ At(<<d, m>>) = Entries(d)[m]
    BY <1>3, <1>9, LinkInode
  <2> QED BY <1>9, <2>1 DEF NamesInv, NamesUnique
<1>10. s = j
  <2>1. Entries(d)[s].valid
    BY <1>8 DEF LinkSlots
  <2>2. Entries(d)[j].name = e.name
    BY <1>4
  <2> QED BY <1>4, <1>8, <1>9, <2>1, <2>2
<1>11. translate_path_to_inum(dirs, e.name) = Entries(d)[j].inode
  BY <1>2, <1>3, <1>6, <1>8, <1>10 DEF translate_path_to_inum
<1>12. Entries(d)[j].inode > 0
  <2>1. inode_map \subseteq Nat
    BY NamesAssumption DEF IInv, TypeOK, Inums
  <2>2. Entries(d)[j].inode \in inode_map \ {0, ROOT}
    BY <1>8, <1>10
  <2>3. Entries(d)[j].inode \in Nat /\ Entries(d)[j].inode # 0
    BY <2>1, <2>2
  <2>4. ASSUME NEW n \in Nat, n # 0 PROVE n > 0
    BY <2>4
  <2> QED BY <2>3, <2>4
<1>13. fs_getattr(dirs, e.name) = e.st
  BY <1>4, <1>11 DEF fs_getattr
<1>14. e.name = f.name => e = f
  BY <1>4, <1>5, <1>9
<1> QED BY <1>11, <1>12, <1>13, <1>14

(* Every name that readdir lists leads, by way of the walk of getattr, to  *)
(* the inode it is listed with, and is listed once.                        *)
THEOREM ListingsResolve ==
  ASSUME SameLength
  PROVE  Spec => []ListingResolves
<1>1. IInv /\ NamesInv => ListingResolves
  BY ListingsFromNames
<1> QED BY <1>1, AlwaysNames, PTL

-----------------------------------------------------------------------------
(* The tree of links.                                                      *)

LinkAt(x) == [dir |-> x[1], name |-> At(x).name, node |-> At(x).inode, isDir |-> At(x).isDir]

(* The link in a slot.                                                     *)
LEMMA LinkFields ==
  ASSUME IInv, NEW x \in LinkSlots
  PROVE  /\ LinkAt(x) \in Links
         /\ x[1] \in LiveDirs /\ LinkAt(x).dir = x[1]
         /\ LinkAt(x).name = At(x).name /\ LinkAt(x).node = At(x).inode
         /\ LinkAt(x).isDir = At(x).isDir
         /\ At(x).inode \in inode_map \ {0, ROOT}
<1>1. x[1] \in LiveDirs
  BY DEF LinkSlots
<1>2. At(x).inode \in inode_map \ {0, ROOT}
  BY DEF IInv, RefsLive
<1>3. LinkAt(x) \in Links
  BY DEF Links, LinkAt
<1> QED BY <1>1, <1>2, <1>3 DEF LinkAt

(* Two slots hold two links.                                               *)
LEMMA LinkInjective ==
  ASSUME IInv, NEW x \in LinkSlots, NEW y \in LinkSlots, LinkAt(x) = LinkAt(y)
  PROVE  x = y
<1>1. At(x).inode = At(y).inode
  BY DEF LinkAt
<1> QED BY <1>1 DEF IInv, RefsUnique

(* A directory that a path leads to is one of the tree of links.           *)
LEMMA TreeDirectory ==
  ASSUME IInv, NEW dirs \in Seq(PathNames), NEW p \in LiveDirs, p = get_parent_inum(dirs)
  PROVE  Tree!IsDirectory(p)
<1> DEFINE S == {ROOT} \cup {At(x).inode : x \in LinkSlots}
<1>1. Closed(S)
  BY DEF Closed
<1>2. p \in S
  <2> HIDE DEF S
  <2> QED BY <1>1, ParentClosed
<1>3. CASE p = ROOT
  BY <1>3 DEF Tree!IsDirectory
<1>4. CASE p # ROOT
  <2>1. PICK x \in LinkSlots : At(x).inode = p
    BY <1>2, <1>4
  <2>2. At(x).isDir
    BY <2>1 DEF IInv, RefsLive, LiveDirs
  <2>3. LinkAt(x) \in Links /\ LinkAt(x).node = p /\ LinkAt(x).isDir
    BY <2>1, <2>2, LinkFields
  <2> QED BY <2>3 DEF Tree!IsDirectory
<1> QED BY <1>3, <1>4

(* mknod and mkdir create a link.                                          *)
LEMMA MknodCreates ==
  ASSUME IInv, NEW dirs \in Seq(PathNames), NEW name \in PathNames, NEW mode \in Modes,
         fs_mknod(dirs, name, mode)
  PROVE  Tree!Next
<1>1. PICK p, i, s : /\ p = get_parent_inum(dirs) /\ i = get_free_inode
                     /\ s = FirstFree(p)
  OBVIOUS
<1>2. p \in LiveDirs /\ i \in Inums \ inode_map
  BY <1>1, MknodEffect
<1>3. /\ LinkSlots' = LinkSlots \cup {<<p, s>>}
      /\ At(<<p, s>>)' = [valid |-> TRUE, isDir |-> mode = "dir", inode |-> i, name |-> name]
      /\ \A x \in LinkSlots : At(x)' = At(x)
  BY <1>1, MknodLinks
<1>4. \A x \in LinkSlots : x[1] = p => At(x).name # name
  BY <1>1, MknodFresh
<1>5. PICK b \in BOOLEAN : b = (mode = "dir")
  OBVIOUS
<1>6. Tree!IsDirectory(p) /\ p \in Inums
  BY <1>1, <1>2, TreeDirectory, DirEntries
<1>7. ~Tree!Taken(p, name)
  BY <1>4 DEF Tree!Taken, Links
<1>8. ~Tree!InUse(i)
  <2>1. ROOT \in inode_map /\ \A x \in LinkSlots : At(x).inode \in inode_map
    BY DEF IInv, RootFixed, LiveDirs, RefsLive
  <2> QED BY <1>2, <2>1 DEF Tree!InUse, Links
<1>9. Links' = Links \cup {[dir |-> p, name |-> name, node |-> i, isDir |-> b]}
  <2>1. Links' = {LinkAt(x)' : x \in LinkSlots'}
    BY DEF Links, LinkAt
  <2>2. LinkAt(<<p, s>>)' = [dir |-> p, name |-> name, node |-> i, isDir |-> b]
    BY <1>3, <1>5 DEF LinkAt
  <2>3. \A x \in LinkSlots : LinkAt(x)' = LinkAt(x)
    BY <1>3 DEF LinkAt
  <2>4. Links = {LinkAt(x) : x \in LinkSlots}
    BY DEF Links, LinkAt
  <2> QED BY <1>3, <2>1, <2>2, <2>3, <2>4
<1>10. Tree!Create(p, name, i, b)
  BY <1>6, <1>7, <1>8, <1>9 DEF Tree!Create
<1> QED BY <1>2, <1>6, <1>10 DEF Tree!Next

(* Taking away the slot of an inode without entries removes a link.        *)
LEMMA SlotRemoves ==
  ASSUME IInv, NEW x \in LinkSlots, NEW i, At(x).inode = i,
         \A y \in LinkSlots : y[1] # i,
         LinkSlots' = LinkSlots \ {x}, \A y \in LinkSlots' : At(y)' = At(y)
  PROVE  Tree!Next
<1>1. Links' = Links \ {LinkAt(x)}
  <2>1. Links' = {LinkAt(y)' : y \in LinkSlots'}
    BY DEF Links, LinkAt
  <2>2. \A y \in LinkSlots' : LinkAt(y)' = LinkAt(y)
    BY DEF LinkAt
  <2>3. Links = {LinkAt(y) : y \in LinkSlots}
    BY DEF Links, LinkAt
  <2> QED BY <2>1, <2>2, <2>3, LinkInjective
<1>2. LinkAt(x) \in Links /\ LinkAt(x).node = i
  BY LinkFields
<1>3. ~Tree!HasChildren(i)
  BY DEF Tree!HasChildren, Links
<1>4. Tree!Remove(LinkAt(x))
  BY <1>1, <1>2, <1>3 DEF Tree!Remove
<1> QED BY <1>2, <1>4 DEF Tree!Next

(* rename renames one link, in place.                                      *)
LEMMA RenameRenames ==
  ASSUME IInv, SameLength, NamesInv, NEW dirs \in Seq(PathNames), NEW name,
         NEW dstDirs, NEW dstName \in PathNames, fs_rename(dirs, name, dstDirs, dstName)
  PROVE  Tree!Next
<1>1. PICK p, s : p = get_parent_inum(dirs) /\ s = Min(Matches(p, name))
  OBVIOUS
<1>2. PICK x : x = <<p, s>>
  OBVIOUS
<1>3. dstName \in Seq(Nat)
  BY NamesAssumption
<1>4. /\ LinkSlots' = LinkSlots /\ <<p, s>> \in LinkSlots
      /\ \A y \in LinkSlots : At(y)'.inode = At(y).inode /\ At(y)'.isDir = At(y).isDir
      /\ \A y \in LinkSlots : y # <<p, s>> => At(y)'.name = At(y).name
  BY <1>1, <1>3, RenameLinks
<1>5. /\ <<p, s>> \in LinkSlots
      /\ \A y \in LinkSlots : y[1] = p => At(y).name # dstName
      /\ At(<<p, s>>)'.name = dstName
  BY <1>1, RenameFresh DEF NamesInv
<1>6. LinkAt(x) \in Links /\ LinkAt(x).dir = p
  BY <1>2, <1>5, LinkFields
<1>7. ~Tree!Taken(p, dstName)
  BY <1>5 DEF Tree!Taken, Links
<1>8. Links' = (Links \ {LinkAt(x)}) \cup {[LinkAt(x) EXCEPT !.name = dstName]}
  <2>1. Links' = {LinkAt(y)' : y \in LinkSlots}
    BY <1>4 DEF Links, LinkAt
  <2>2. \A y \in LinkSlots : y # x => LinkAt(y)' = LinkAt(y)
    BY <1>2, <1>4 DEF LinkAt
  <2>3. LinkAt(x)' = [LinkAt(x) EXCEPT !.name = dstName]
    BY <1>2, <1>4, <1>5 DEF LinkAt
  <2>4. Links = {LinkAt(y) : y \in LinkSlots}
    BY DEF Links, LinkAt
  <2> QED BY <1>2, <1>4, <2>1, <2>2, <2>3, <2>4, LinkInjective
<1>9. Tree!Rename(LinkAt(x), dstName)
  BY <1>6, <1>7, <1>8 DEF Tree!Rename
<1> QED BY <1>6, <1>9 DEF Tree!Next

(* Every step of the handlers is a step of the tree of links or changes no *)
(* link.                                                                   *)
LEMMA NextTree == SameLength /\ IInv /\ NamesInv /\ [Next]_vars => [Tree!Next]_Links
<1> SUFFICES ASSUME SameLength, IInv, NamesInv, [Next]_vars
             PROVE  Tree!Next \/ Links' = Links
  OBVIOUS
<1>1. ASSUME NEW dirs \in PathDirs
      PROVE  dirs \in Seq(PathNames)
  BY NamesAssumption
<1>2. ASSUME NEW dirs \in PathDirs, NEW name \in PathNames, NEW mode \in Modes,
             fs_mknod(dirs, name, mode)
      PROVE  Tree!Next
  BY <1>1, <1>2, MknodCreates
<1>3. CASE UNCHANGED <<inode_map, inodes, dirents>>
  BY <1>3 DEF Links, LinkSlots, LiveDirs, At, Entries
<1>4. ASSUME NEW dirs \in PathDirs, NEW name \in PathNames, fs_unlink(dirs, name)
      PROVE  Tree!Next \/ Links' = Links
  <2>1. ASSUME NEW x \in LinkSlots, NEW i \in inode_map \ {0, ROOT}, At(x).inode = i,
               inodes[i].mode # "dir",
               LinkSlots' = LinkSlots \ {x}, \A y \in LinkSlots' : At(y)' = At(y)
        PROVE  Tree!Next
    <3>1. \A y \in LinkSlots : y[1] # i
      BY <2>1 DEF LinkSlots, LiveDirs
    <3> QED BY <2>1, <3>1, SlotRemoves
  <2> QED BY <1>1, <1>3, <1>4, <2>1, UnlinkLinks
<1>5. ASSUME NEW dirs \in PathDirs, NEW name \in PathNames, fs_rmdir(dirs, name)
      PROVE  Tree!Next
  <2>1. PICK p, i, s : /\ p = get_parent_inum(dirs)
                       /\ i = translate_path_to_inum(dirs, name)
                       /\ s = Min(Matches(p, name))
    OBVIOUS
  <2>2. dirs \in Seq(PathNames)
    BY <1>1
  <2>3. /\ <<p, s>> \in LinkSlots /\ At(<<p, s>>).inode = i
        /\ LinkSlots' = LinkSlots \ {<<p, s>>}
        /\ \A x \in LinkSlots' : At(x)' = At(x)
        /\ i \in LiveDirs /\ inode_map' = inode_map \ {i}
        /\ \A j \in Slots : ~Entries(i)[j].valid
    BY <1>5, <2>1, <2>2, RmdirLinks
  <2>4. \A y \in LinkSlots : y[1] # i
    BY <2>3 DEF LinkSlots
  <2> QED BY <2>3, <2>4, SlotRemoves
<1>6. ASSUME NEW dirs \in PathDirs, NEW name \in PathNames, NEW dstDirs \in PathDirs,
             NEW dstName \in PathNames, fs_rename(dirs, name, dstDirs, dstName)
      PROVE  Tree!Next
  BY <1>1, <1>6, RenameRenames
<1>7. CASE FileData \/ UNCHANGED vars
  BY <1>3, <1>7 DEF FileData, vars
<1>8. NodeModes \subseteq Modes /\ "dir" \in Modes
  BY NamesAssumption DEF Modes
<1> QED BY <1>2, <1>4, <1>5, <1>6, <1>7, <1>8 DEF Next, fs_mkdir

LEMMA InitTree == Init => Tree!Init
<1>1. Init => Links = {}
  BY InitLinks DEF Links
<1> QED BY <1>1 DEF Tree!Init

(* The handlers implement the tree of links, for names of one length and   *)
(* every size of image, directory and path: each call that succeeds adds,  *)
(* removes or renames one link, under the conditions of NameTree.          *)
THEOREM HandlersImplementTree ==
  ASSUME SameLength
  PROVE  Spec => ImplementsTree
<1>1. IInv /\ NamesInv /\ [Next]_vars => [Tree!Next]_Links
  BY NextTree
<1> QED BY <1>1, InitTree, AlwaysNames, PTL DEF Spec, ImplementsTree, Tree!Spec

-----------------------------------------------------------------------------
(* The traversal of read-img, on any image.                                *)
ListEntryIn(im, t, e) ==
    IF t.fail THEN t
    ELSE IF e.inode \in t.imap
    THEN [t EXCEPT !.errors = @ \cup {"loop found"}, !.fail = TRUE]
    ELSE [t EXCEPT !.imap = @ \cup {e.inode},
                   !.errors = IF e.inode \in im THEN @
                              ELSE @ \cup {"inode marked free"},
                   !.list = Append(@, [dir |-> e.isDir, inum |-> e.inode])]

SlotStepIn(im, t, e) == IF e.valid THEN ListEntryIn(im, t, e) ELSE t

UptoIn(im, ino, dir, t, d) ==
    CHOOSE upto : upto = [j \in 0 .. MaxEntries |->
        IF j = 0 THEN t ELSE SlotStepIn(im, upto[j-1], EntriesIn(ino, dir, d)[j-1])]

OpenIn(bm, ino, t, d) ==
    [t EXCEPT !.tail = @ + 1,
              !.errors = IF ino[d].direct0 \in bm THEN @ ELSE @ \cup {"block marked free"}]

VisitIn(im, bm, ino, dir, t) ==
    LET e == t.list[t.tail]
    IN  IF t.fail \/ t.tail > Len(t.list) THEN t
        ELSE IF ~e.dir THEN [t EXCEPT !.tail = @ + 1]
        ELSE IF ino[e.inum].mode # "dir"
        THEN [t EXCEPT !.tail = @ + 1, !.errors = @ \cup {"not a directory"}]
        ELSE UptoIn(im, ino, dir, OpenIn(bm, ino, t, e.inum), e.inum)[MaxEntries]

VisitsIn(im, bm, ino, dir) ==
    CHOOSE visits : visits = [n \in 0 .. NumInodes |->
        IF n = 0 THEN Start ELSE VisitIn(im, bm, ino, dir, visits[n-1])]

LEMMA Upto ==
  ASSUME NEW t, NEW d
  PROVE  ListDirectory(t, d) = UptoIn(inode_map, inodes, dirents, t, d)[MaxEntries]
BY DEF ListDirectory, UptoIn, SlotStepIn, ListEntry, ListEntryIn, Entries, EntriesIn

LEMMA MemoryVisit ==
  ASSUME NEW t
  PROVE Visit(t) = VisitIn(inode_map, block_map, inodes, dirents, t)
BY Upto DEF Visit, VisitIn, OpenIn

LEMMA MemoryTraversal == Traversal = VisitsIn(inode_map, block_map, inodes, dirents)[NumInodes]
BY MemoryVisit DEF Traversal, VisitsIn

(* What the traversal goes by: the root is a directory, an entry leads to  *)
(* an allocated inode and says whether that is a directory, no two entries *)
(* lead to one inode, and the block of a directory is marked.              *)
Readable(im, bm, ino, dir) ==
    /\ im \subseteq Inums /\ ROOT \in DirsIn(im, ino)
    /\ \A x \in SlotsIn(im, ino, dir) :
          /\ AtIn(ino, dir, x).isDir \in BOOLEAN
          /\ AtIn(ino, dir, x).inode \in im \ {0, ROOT}
          /\ AtIn(ino, dir, x).isDir <=> ino[AtIn(ino, dir, x).inode].mode = "dir"
    /\ \A x, y \in SlotsIn(im, ino, dir) :
          AtIn(ino, dir, x).inode = AtIn(ino, dir, y).inode => x = y
    /\ \A d \in DirsIn(im, ino) : ino[d].direct0 \in bm

(* A traversal that has met the entries in X and no error: every inode met *)
(* is listed once.                                                         *)
Unfailed(im) == [list : Seq([dir : BOOLEAN, inum : im]), tail : Nat, imap : SUBSET im,
                 errors : {{}}, fail : {FALSE}]

Listed(ino, L, M) ==
    /\ \A k \in 1 .. Len(L) :
          /\ L[k].inum \in M
          /\ L[k].dir <=> ino[L[k].inum].mode = "dir"
    /\ \A i \in M : \E k \in 1 .. Len(L) : L[k].inum = i
    /\ \A k, l \in 1 .. Len(L) : L[k].inum = L[l].inum => k = l

Counted(L, M) == IsFiniteSet(M) /\ Cardinality(M) = Len(L)

InodesOf(ino, dir, X) == {ROOT} \cup {AtIn(ino, dir, x).inode : x \in X}

Met(im, ino, dir, t, X) ==
    /\ t \in Unfailed(im) /\ Listed(ino, t.list, t.imap) /\ Counted(t.list, t.imap)
    /\ t.imap = InodesOf(ino, dir, X)

(* What comes later in a traversal has the list so far, and the same tail. *)
Longer(t, u) ==
    /\ u.tail = t.tail /\ Len(u.list) >= Len(t.list)
    /\ \A k \in 1 .. Len(t.list) : u.list[k] = t.list[k]

(* One valid entry that has not been met.                                  *)
LEMMA EntryMet ==
  ASSUME NEW im, NEW bm, NEW ino, NEW dir, Readable(im, bm, ino, dir),
         NEW t, NEW X \in SUBSET SlotsIn(im, ino, dir), Met(im, ino, dir, t, X),
         NEW y \in SlotsIn(im, ino, dir), y \notin X,
         NEW u, u = ListEntryIn(im, t, AtIn(ino, dir, y))
  PROVE  Met(im, ino, dir, u, X \cup {y}) /\ Longer(t, u)
<1> DEFINE N == [dir |-> AtIn(ino, dir, y).isDir, inum |-> AtIn(ino, dir, y).inode]
<1>1. PICK e : e = AtIn(ino, dir, y)
  OBVIOUS
<1>2. /\ e.isDir \in BOOLEAN /\ e.inode \in im \ {0, ROOT}
      /\ e.isDir <=> ino[e.inode].mode = "dir"
  BY <1>1 DEF Readable
<1>3. e.inode \notin t.imap
  <2>1. t.imap = {ROOT} \cup {AtIn(ino, dir, x).inode : x \in X}
    BY DEF Met, InodesOf
  <2>2. \A x \in X : AtIn(ino, dir, x).inode # e.inode
    BY <1>1 DEF Readable
  <2> QED BY <1>2, <2>1, <2>2
<1>4. PICK L, M : L = t.list /\ M = t.imap
  OBVIOUS
<1>5. /\ t \in Unfailed(im) /\ Listed(ino, L, M) /\ Counted(L, M) /\ M = InodesOf(ino, dir, X)
      /\ L \in Seq([dir : BOOLEAN, inum : im]) /\ M \in SUBSET im /\ t.tail \in Nat
  BY <1>4 DEF Met, Unfailed
<1>6. N \in [dir : BOOLEAN, inum : im] /\ N.inum = e.inode /\ N.dir = e.isDir
  BY <1>1, <1>2
<1>7. u = [list |-> Append(L, N), tail |-> t.tail, imap |-> M \cup {e.inode},
           errors |-> {}, fail |-> FALSE]
  BY <1>1, <1>2, <1>3, <1>4, <1>5 DEF ListEntryIn, Unfailed
<1> HIDE DEF N
<1>8. PICK A : A = Append(L, N)
  OBVIOUS
<1>9. /\ A \in Seq([dir : BOOLEAN, inum : im]) /\ Len(A) = Len(L) + 1 /\ Len(L) \in Nat
      /\ \A k \in 1 .. Len(L) : A[k] = L[k]
      /\ A[Len(L) + 1] = N
  BY <1>5, <1>6, <1>8
<1>10. u.list = A /\ u.tail = t.tail /\ u.imap = M \cup {e.inode} /\ u \in Unfailed(im)
  <2>1. M \cup {e.inode} \in SUBSET im
    BY <1>2, <1>5
  <2> QED BY <1>5, <1>7, <1>8, <1>9, <2>1 DEF Unfailed
<1>11. Counted(A, M \cup {e.inode})
  <2>1. IsFiniteSet(M) /\ Cardinality(M) = Len(L) /\ e.inode \notin M
    BY <1>3, <1>4, <1>5 DEF Counted
  <2>2. IsFiniteSet(M \cup {e.inode}) /\ Cardinality(M \cup {e.inode}) = Cardinality(M) + 1
    BY <2>1, FS_AddElement
  <2> QED BY <1>9, <2>1, <2>2 DEF Counted
<1>12. \A k \in 1 .. Len(A) : k \in 1 .. Len(L) \/ k = Len(L) + 1
  BY <1>9
<1>13. Listed(ino, A, M \cup {e.inode})
  <2>1. \A k \in 1 .. Len(A) :
            /\ A[k].inum \in M \cup {e.inode}
            /\ A[k].dir <=> ino[A[k].inum].mode = "dir"
    BY <1>2, <1>5, <1>6, <1>9, <1>12 DEF Listed
  <2>2. \A i \in M \cup {e.inode} : \E k \in 1 .. Len(A) : A[k].inum = i
    <3>1. \A i \in M : \E k \in 1 .. Len(L) : L[k].inum = i
      BY <1>5 DEF Listed
    <3>2. \A k \in 1 .. Len(L) : k \in 1 .. Len(A)
      BY <1>9
    <3>3. Len(L) + 1 \in 1 .. Len(A) /\ A[Len(L) + 1].inum = e.inode
      BY <1>6, <1>9
    <3> QED BY <1>9, <3>1, <3>2, <3>3
  <2>3. \A k \in 1 .. Len(L) : L[k].inum # e.inode
    BY <1>3, <1>4, <1>5 DEF Listed
  <2>4. ASSUME NEW k \in 1 .. Len(A), NEW l \in 1 .. Len(A), A[k].inum = A[l].inum
        PROVE  k = l
    <3>1. CASE k \in 1 .. Len(L) /\ l \in 1 .. Len(L)
      BY <1>5, <1>9, <2>4, <3>1 DEF Listed
    <3>2. CASE k \in 1 .. Len(L) /\ l = Len(L) + 1
      BY <1>6, <1>9, <2>3, <2>4, <3>2
    <3>3. CASE k = Len(L) + 1 /\ l \in 1 .. Len(L)
      BY <1>6, <1>9, <2>3, <2>4, <3>3
    <3> QED BY <1>12, <3>1, <3>2, <3>3
  <2> QED BY <2>1, <2>2, <2>4 DEF Listed
<1>14. M \cup {e.inode} = InodesOf(ino, dir, X \cup {y})
  BY <1>1, <1>5 DEF InodesOf
<1>15. Met(im, ino, dir, u, X \cup {y})
  BY <1>10, <1>11, <1>13, <1>14 DEF Met
<1> QED BY <1>4, <1>9, <1>10, <1>15 DEF Longer

(* The recursive definition of the entries of a directory.                 *)
LEMMA UptoSteps ==
  ASSUME NEW im, NEW ino, NEW dir, NEW t, NEW d, NEW up, up = UptoIn(im, ino, dir, t, d)
  PROVE  /\ up[0] = t
         /\ \A j \in Nat : j + 1 <= MaxEntries =>
               up[j+1] = SlotStepIn(im, up[j], EntriesIn(ino, dir, d)[j])
<1> DEFINE Step(v, j) == SlotStepIn(im, v, EntriesIn(ino, dir, d)[j])
           Eqn(f, m) == f = [j \in 0 .. m |-> IF j = 0 THEN t ELSE Step(f[j-1], j-1)]
           S == {m \in Nat : \E f : Eqn(f, m)}
<1>1. 0 \in S
  <2>1. Eqn([j \in 0 .. 0 |-> t], 0)
    OBVIOUS
  <2> QED BY <2>1
<1>2. ASSUME NEW m \in Nat, m \in S PROVE m+1 \in S
  <2> HIDE DEF Step
  <2>1. PICK f : Eqn(f, m)
    BY <1>2
  <2> DEFINE g == [j \in 0 .. m+1 |-> IF j = 0 THEN t ELSE Step(f[j-1], j-1)]
  <2>2. ASSUME NEW j \in 0 .. m PROVE g[j] = f[j]
    <3>1. j \in 0 .. m+1
      OBVIOUS
    <3>2. f[j] = IF j = 0 THEN t ELSE Step(f[j-1], j-1)
      BY <2>1
    <3> QED BY <3>1, <3>2
  <2>3. \A j \in 0 .. m+1 : j # 0 => j-1 \in 0 .. m
    OBVIOUS
  <2>4. Eqn(g, m+1)
    BY <2>2, <2>3
  <2>5. \E h : Eqn(h, m+1)
    <3> HIDE DEF g, Eqn
    <3> QED BY <2>4
  <2> QED BY <2>5
<1>3. MaxEntries \in S
  <2> HIDE DEF S
  <2> QED BY <1>1, <1>2, SetInduction, NamesAssumption
<1>4. up = CHOOSE f : Eqn(f, MaxEntries)
  BY DEF UptoIn
<1> HIDE DEF Step
<1>5. Eqn(up, MaxEntries)
  <2>1. \E f : Eqn(f, MaxEntries)
    BY <1>3
  <2> HIDE DEF Eqn
  <2> QED BY <1>4, <2>1
<1>6. up[0] = t
  BY <1>5, NamesAssumption
<1>7. ASSUME NEW j \in Nat, j + 1 <= MaxEntries PROVE up[j+1] = Step(up[j], j)
  <2>1. j + 1 \in 0 .. MaxEntries /\ j + 1 # 0 /\ (j + 1) - 1 = j
    BY <1>7, NamesAssumption
  <2> QED BY <1>5, <2>1
<1> QED BY <1>6, <1>7 DEF Step

(* And that of the visits.                                                 *)
LEMMA VisitsSteps ==
  ASSUME NEW im, NEW bm, NEW ino, NEW dir, NEW vs, vs = VisitsIn(im, bm, ino, dir)
  PROVE  /\ vs[0] = Start
         /\ \A n \in Nat : n + 1 <= NumInodes => vs[n+1] = VisitIn(im, bm, ino, dir, vs[n])
<1> DEFINE Step(v) == VisitIn(im, bm, ino, dir, v)
           Eqn(f, m) == f = [n \in 0 .. m |-> IF n = 0 THEN Start ELSE Step(f[n-1])]
           S == {m \in Nat : \E f : Eqn(f, m)}
<1>1. 0 \in S
  <2>1. Eqn([n \in 0 .. 0 |-> Start], 0)
    OBVIOUS
  <2> QED BY <2>1
<1>2. ASSUME NEW m \in Nat, m \in S PROVE m+1 \in S
  <2> HIDE DEF Step
  <2>1. PICK f : Eqn(f, m)
    BY <1>2
  <2> DEFINE g == [n \in 0 .. m+1 |-> IF n = 0 THEN Start ELSE Step(f[n-1])]
  <2>2. ASSUME NEW n \in 0 .. m PROVE g[n] = f[n]
    <3>1. n \in 0 .. m+1
      OBVIOUS
    <3>2. f[n] = IF n = 0 THEN Start ELSE Step(f[n-1])
      BY <2>1
    <3> QED BY <3>1, <3>2
  <2>3. \A n \in 0 .. m+1 : n # 0 => n-1 \in 0 .. m
    OBVIOUS
  <2>4. Eqn(g, m+1)
    BY <2>2, <2>3
  <2>5. \E h : Eqn(h, m+1)
    <3> HIDE DEF g, Eqn
    <3> QED BY <2>4
  <2> QED BY <2>5
<1>3. NumInodes \in S
  <2> HIDE DEF S
  <2> QED BY <1>1, <1>2, SetInduction, NamesAssumption
<1>4. vs = CHOOSE f : Eqn(f, NumInodes)
  BY DEF VisitsIn
<1> HIDE DEF Step
<1>5. Eqn(vs, NumInodes)
  <2>1. \E f : Eqn(f, NumInodes)
    BY <1>3
  <2> HIDE DEF Eqn
  <2> QED BY <1>4, <2>1
<1>6. vs[0] = Start
  BY <1>5, NamesAssumption
<1>7. ASSUME NEW n \in Nat, n + 1 <= NumInodes PROVE vs[n+1] = Step(vs[n])
  <2>1. n + 1 \in 0 .. NumInodes /\ n + 1 # 0 /\ (n + 1) - 1 = n
    BY <1>7, NamesAssumption
  <2> QED BY <1>5, <2>1
<1> QED BY <1>6, <1>7 DEF Step

(* A directory that has not been visited: its entries are met, all of them *)
(* and without an error.                                                   *)
LEMMA DirectoryMet ==
  ASSUME NEW im, NEW bm, NEW ino, NEW dir, Readable(im, bm, ino, dir),
         NEW t, NEW X \in SUBSET SlotsIn(im, ino, dir), Met(im, ino, dir, t, X),
         NEW d \in DirsIn(im, ino), \A x \in X : x[1] # d,
         NEW u, u = UptoIn(im, ino, dir, t, d)[MaxEntries]
  PROVE  /\ Met(im, ino, dir, u, X \cup {x \in SlotsIn(im, ino, dir) : x[1] = d})
         /\ Longer(t, u)
<1> DEFINE Below(j) == {x \in SlotsIn(im, ino, dir) : x[1] = d /\ x[2] < j}
           P(v, j) == Met(im, ino, dir, v, X \cup Below(j)) /\ Longer(t, v)
<1>1. PICK up : up = UptoIn(im, ino, dir, t, d)
  OBVIOUS
<1> DEFINE S == {j \in Nat : j <= MaxEntries => P(up[j], j)}
<1>2. /\ up[0] = t
      /\ \A j \in Nat : j + 1 <= MaxEntries =>
            up[j+1] = SlotStepIn(im, up[j], EntriesIn(ino, dir, d)[j])
  BY <1>1, UptoSteps
<1>3. 0 \in S
  <2>1. Below(0) = {}
    BY NamesAssumption DEF SlotsIn, Slots
  <2>2. X \cup Below(0) = X
    BY <2>1
  <2>3. Longer(t, t)
    BY DEF Longer, Met, Unfailed
  <2> QED BY <1>2, <2>2, <2>3
<1>4. ASSUME NEW j \in Nat, j \in S PROVE j+1 \in S
  <2> HIDE DEF P
  <2> SUFFICES ASSUME j + 1 <= MaxEntries PROVE P(up[j+1], j+1)
    OBVIOUS
  <2> USE DEF P
  <2>1. PICK v, w, e : v = up[j] /\ w = up[j+1] /\ e = EntriesIn(ino, dir, d)[j]
    OBVIOUS
  <2>2. P(v, j) /\ w = SlotStepIn(im, v, e)
    BY <1>2, <1>4, <2>1, NamesAssumption
  <2>3. j \in Slots
    BY NamesAssumption DEF Slots
  <2>4. \A x \in SlotsIn(im, ino, dir) :
           x[1] = d /\ x[2] < j + 1 <=> (x[1] = d /\ x[2] < j) \/ x = <<d, j>>
    BY NamesAssumption DEF SlotsIn, Slots
  <2>5. CASE e.valid
    <3>1. PICK y : y = <<d, j>>
      OBVIOUS
    <3>2. y \in SlotsIn(im, ino, dir) /\ AtIn(ino, dir, y) = e
      BY <2>1, <2>3, <2>5, <3>1 DEF SlotsIn, AtIn
    <3>3. y \notin X \cup Below(j) /\ X \cup Below(j) \in SUBSET SlotsIn(im, ino, dir)
      BY <3>1
    <3>4. X \cup Below(j+1) = (X \cup Below(j)) \cup {y}
      BY <2>4, <3>1, <3>2
    <3>5. w = ListEntryIn(im, v, AtIn(ino, dir, y))
      BY <2>2, <2>5, <3>2 DEF SlotStepIn
    <3>6. PICK Y : Y = X \cup Below(j)
      OBVIOUS
    <3> HIDE DEF Below
    <3>7. Met(im, ino, dir, w, Y \cup {y}) /\ Longer(v, w)
      <4>1. Met(im, ino, dir, v, Y) /\ Y \in SUBSET SlotsIn(im, ino, dir) /\ y \notin Y
        BY <2>2, <3>3, <3>6
      <4> QED BY <3>2, <3>5, <4>1, EntryMet
    <3>8. Len(t.list) \in Nat /\ Len(v.list) \in Nat /\ Len(w.list) \in Nat
      BY <2>2, <3>7 DEF Met, Unfailed
    <3>9. Longer(t, w)
      BY <2>2, <3>7, <3>8 DEF Longer
    <3> QED BY <2>1, <3>4, <3>6, <3>7, <3>9
  <2>6. CASE ~e.valid
    <3>1. <<d, j>> \notin SlotsIn(im, ino, dir)
      BY <2>1, <2>6 DEF SlotsIn
    <3>2. Below(j+1) = Below(j)
      BY <2>4, <3>1
    <3>3. w = v
      BY <2>2, <2>6 DEF SlotStepIn
    <3> QED BY <2>1, <2>2, <3>2, <3>3
  <2> QED BY <2>5, <2>6
<1>5. MaxEntries \in S
  <2> HIDE DEF S
  <2> QED BY <1>3, <1>4, SetInduction, NamesAssumption
<1>6. P(u, MaxEntries)
  BY <1>1, <1>5, NamesAssumption
<1>7. Below(MaxEntries) = {x \in SlotsIn(im, ino, dir) : x[1] = d}
  BY NamesAssumption DEF SlotsIn, Slots
<1> QED BY <1>6, <1>7

(* The entries of the inodes that have been visited.                       *)
VisitedIn(im, ino, dir, t) ==
    {x \in SlotsIn(im, ino, dir) : \E k \in 1 .. t.tail - 1 : t.list[k].inum = x[1]}

Going(im, ino, dir, t) ==
    /\ Met(im, ino, dir, t, VisitedIn(im, ino, dir, t))
    /\ t.tail \in 1 .. Len(t.list) + 1

Parts(im, t) ==
    /\ t.list \in Seq([dir : BOOLEAN, inum : im]) /\ Len(t.list) \in Nat
    /\ t.tail \in Nat /\ t.imap \in SUBSET im /\ t.errors = {} /\ t.fail = FALSE
    /\ t = [list |-> t.list, tail |-> t.tail, imap |-> t.imap, errors |-> {}, fail |-> FALSE]

LEMMA UnfailedParts ==
  ASSUME NEW im, NEW t, t \in Unfailed(im)
  PROVE  Parts(im, t)
<1>1. /\ t.list \in Seq([dir : BOOLEAN, inum : im]) /\ t.tail \in Nat /\ t.imap \in SUBSET im
      /\ t.errors = {} /\ t.fail = FALSE
  BY DEF Unfailed
<1>2. t = [list |-> t.list, tail |-> t.tail, imap |-> t.imap, errors |-> t.errors,
           fail |-> t.fail]
  BY DEF Unfailed
<1>3. Len(t.list) \in Nat
  BY <1>1
<1> QED BY <1>1, <1>2, <1>3 DEF Parts

(* One visit.                                                              *)
LEMMA VisitMet ==
  ASSUME NEW im, NEW bm, NEW ino, NEW dir, Readable(im, bm, ino, dir),
         NEW t, Going(im, ino, dir, t), NEW u, u = VisitIn(im, bm, ino, dir, t)
  PROVE  /\ Going(im, ino, dir, u)
         /\ u.tail = t.tail + 1 \/ u.tail > Len(u.list)
<1> DEFINE X == VisitedIn(im, ino, dir, t)
<1>1. /\ Met(im, ino, dir, t, X) /\ t.tail \in 1 .. Len(t.list) + 1
      /\ t \in Unfailed(im) /\ Len(t.list) \in Nat /\ t.tail \in Nat
      /\ t.list \in Seq([dir : BOOLEAN, inum : im])
      /\ Listed(ino, t.list, t.imap)
  <2>1. /\ Met(im, ino, dir, t, X) /\ t.tail \in 1 .. Len(t.list) + 1
    BY DEF Going
  <2>2. t \in Unfailed(im) /\ Listed(ino, t.list, t.imap)
    BY <2>1 DEF Met
  <2>3. Parts(im, t)
    BY <2>2, UnfailedParts
  <2> QED BY <2>1, <2>2, <2>3 DEF Parts
<1>2. CASE t.tail > Len(t.list)
  <2>1. u = t
    BY <1>2 DEF VisitIn
  <2> QED BY <1>2, <2>1
<1>3. ASSUME t.tail <= Len(t.list)
      PROVE  Going(im, ino, dir, u) /\ u.tail = t.tail + 1
  <2>1. t.tail \in 1 .. Len(t.list)
    BY <1>1, <1>3
  <2>2. PICK e : e = t.list[t.tail]
    OBVIOUS
  <2>3. e.dir \in BOOLEAN /\ e.inum \in im /\ (e.dir <=> ino[e.inum].mode = "dir")
    <3>1. e \in [dir : BOOLEAN, inum : im]
      <4>1. PICK L, R : L = t.list /\ R = [dir : BOOLEAN, inum : im]
        OBVIOUS
      <4>2. L \in Seq(R) /\ t.tail \in 1 .. Len(L) /\ e = L[t.tail]
        BY <1>1, <2>1, <2>2, <4>1
      <4>3. e \in R
        BY <4>2
      <4> QED BY <4>1, <4>3
    <3>2. e.dir <=> ino[e.inum].mode = "dir"
      BY <1>1, <2>1, <2>2 DEF Listed
    <3> QED BY <3>1, <3>2
  <2>4. \A k \in 1 .. t.tail - 1 : k \in 1 .. Len(t.list) /\ t.list[k].inum # e.inum
    BY <1>1, <2>1, <2>2 DEF Listed
  <2>5. t.fail = FALSE /\ t.errors = {}
    BY <1>1 DEF Unfailed
  <2>6. PICK v : v = [t EXCEPT !.tail = @ + 1]
    OBVIOUS
  <2>7. /\ v \in Unfailed(im) /\ v.tail = t.tail + 1 /\ v.list = t.list /\ v.imap = t.imap
        /\ v.errors = {}
    <3>0. Parts(im, t)
      BY <1>1, UnfailedParts
    <3>1. v = [list |-> t.list, tail |-> t.tail + 1, imap |-> t.imap, errors |-> {},
               fail |-> FALSE]
      BY <2>6, <3>0 DEF Parts
    <3>2. t.imap \in SUBSET im /\ t.tail + 1 \in Nat
      BY <1>1, <3>0 DEF Parts
    <3> QED BY <1>1, <3>1, <3>2 DEF Unfailed
  <2>8. Met(im, ino, dir, v, X)
    BY <1>1, <2>7 DEF Met
  <2>9. CASE ~e.dir
    <3>1. u = v
      BY <1>1, <1>3, <2>2, <2>5, <2>6, <2>9 DEF VisitIn
    <3>2. VisitedIn(im, ino, dir, v) = X
      <4>1. e.inum \notin DirsIn(im, ino)
        BY <2>3, <2>9 DEF DirsIn
      <4>2. \A x \in SlotsIn(im, ino, dir) : x[1] # e.inum
        BY <4>1 DEF SlotsIn
      <4>3. \A k \in 1 .. v.tail - 1 : k \in 1 .. t.tail - 1 \/ k = t.tail
        BY <1>1, <2>7
      <4>4. \A k \in 1 .. t.tail - 1 : k \in 1 .. v.tail - 1
        BY <1>1, <2>7
      <4> QED BY <2>2, <2>7, <4>2, <4>3, <4>4 DEF VisitedIn
    <3>3. v.tail \in 1 .. Len(v.list) + 1
      BY <1>1, <1>3, <2>7
    <3> QED BY <2>7, <2>8, <3>1, <3>2, <3>3 DEF Going
  <2>10. CASE e.dir
    <3>1. e.inum \in DirsIn(im, ino) /\ ino[e.inum].direct0 \in bm
      BY <2>3, <2>10 DEF DirsIn, Readable
    <3>2. OpenIn(bm, ino, t, e.inum) = v
      BY <1>1, <2>6, <2>7, <3>1 DEF OpenIn, Unfailed
    <3>3. u = UptoIn(im, ino, dir, v, e.inum)[MaxEntries]
      BY <1>1, <1>3, <2>2, <2>3, <2>5, <2>10, <3>2 DEF VisitIn
    <3>4. X \in SUBSET SlotsIn(im, ino, dir) /\ \A x \in X : x[1] # e.inum
      BY <2>4 DEF VisitedIn
    <3> DEFINE New == {x \in SlotsIn(im, ino, dir) : x[1] = e.inum}
    <3>5. Met(im, ino, dir, u, X \cup New) /\ Longer(v, u)
      <4>1. PICK Y, d : Y = X /\ d = e.inum
        OBVIOUS
      <4>2. /\ Y \in SUBSET SlotsIn(im, ino, dir) /\ Met(im, ino, dir, v, Y)
            /\ d \in DirsIn(im, ino) /\ \A x \in Y : x[1] # d
        BY <2>8, <3>1, <3>4, <4>1
      <4>3. u = UptoIn(im, ino, dir, v, d)[MaxEntries]
        BY <3>3, <4>1
      <4>4. /\ Met(im, ino, dir, u, Y \cup {x \in SlotsIn(im, ino, dir) : x[1] = d})
            /\ Longer(v, u)
        BY <4>2, <4>3, DirectoryMet
      <4> QED BY <4>1, <4>4
    <3>6. u.tail = t.tail + 1 /\ Len(u.list) \in Nat /\ u.tail \in 1 .. Len(u.list) + 1
      BY <1>1, <1>3, <2>7, <3>5 DEF Longer, Met, Unfailed
    <3>7. VisitedIn(im, ino, dir, u) = X \cup New
      <4>1. \A k \in 1 .. u.tail - 1 : k \in 1 .. t.tail - 1 \/ k = t.tail
        BY <1>1, <3>6
      <4>2. \A k \in 1 .. t.tail - 1 : k \in 1 .. u.tail - 1
        BY <1>1, <3>6
      <4>3. t.tail \in 1 .. u.tail - 1
        BY <1>1, <3>6
      <4>4. \A k \in 1 .. Len(t.list) : u.list[k] = t.list[k]
        BY <2>7, <3>5 DEF Longer
      <4>5. u.list[t.tail].inum = e.inum
        BY <2>1, <2>2, <4>4
      <4>6. \A k \in 1 .. t.tail - 1 : u.list[k].inum = t.list[k].inum
        BY <2>4, <4>4
      <4> QED BY <4>1, <4>2, <4>3, <4>5, <4>6 DEF VisitedIn
    <3> QED BY <3>5, <3>6, <3>7 DEF Going
  <2> QED BY <2>3, <2>9, <2>10
<1> QED BY <1>1, <1>2, <1>3

(* The traversal meets no error, and what it lists is closed: there are    *)
(* enough visits to empty the list.                                        *)
LEMMA TraversalMet ==
  ASSUME NEW im, NEW bm, NEW ino, NEW dir, Readable(im, bm, ino, dir),
         NEW t, t = VisitsIn(im, bm, ino, dir)[NumInodes]
  PROVE  t.errors = {} /\ t.imap \subseteq im /\ ClosedIn(im, ino, dir, t.imap)
<1> DEFINE G(v, n) == Going(im, ino, dir, v) /\ (v.tail = n + 1 \/ v.tail > Len(v.list))
<1>1. PICK vs : vs = VisitsIn(im, bm, ino, dir)
  OBVIOUS
<1> DEFINE S == {n \in Nat : n <= NumInodes => G(vs[n], n)}
<1>2. /\ vs[0] = Start
      /\ \A n \in Nat : n + 1 <= NumInodes => vs[n+1] = VisitIn(im, bm, ino, dir, vs[n])
  BY <1>1, VisitsSteps
<1>3. 0 \in S
  <2>1. PICK v : v = Start
    OBVIOUS
  <2>2. PICK L : L = <<[dir |-> TRUE, inum |-> ROOT]>>
    OBVIOUS
  <2>3. /\ v.list = L /\ v.tail = 1 /\ v.imap = {ROOT} /\ v.errors = {} /\ v.fail = FALSE
        /\ v = [list |-> L, tail |-> 1, imap |-> {ROOT}, errors |-> {}, fail |-> FALSE]
    BY <2>1, <2>2 DEF Start
  <2>4. ROOT \in im /\ ino[ROOT].mode = "dir"
    BY DEF Readable, DirsIn
  <2>5. /\ L \in Seq([dir : BOOLEAN, inum : im]) /\ Len(L) = 1
        /\ L[1].dir = TRUE /\ L[1].inum = ROOT
    BY <2>2, <2>4
  <2>6. v \in Unfailed(im)
    BY <2>3, <2>4, <2>5 DEF Unfailed
  <2>7. Listed(ino, L, {ROOT})
    BY <2>4, <2>5 DEF Listed
  <2>8. Counted(L, {ROOT})
    BY <2>5, FS_Singleton DEF Counted
  <2>9. VisitedIn(im, ino, dir, v) = {}
    BY <2>3 DEF VisitedIn
  <2>10. InodesOf(ino, dir, {}) = {ROOT}
    BY DEF InodesOf
  <2>11. Going(im, ino, dir, v)
    <3>1. Met(im, ino, dir, v, {})
      BY <2>3, <2>6, <2>7, <2>8, <2>10 DEF Met
    <3>2. v.tail \in 1 .. Len(v.list) + 1
      BY <2>3, <2>5
    <3> QED BY <2>9, <3>1, <3>2 DEF Going
  <2> QED BY <1>2, <2>1, <2>3, <2>11
<1>4. ASSUME NEW n \in Nat, n \in S PROVE n+1 \in S
  <2> HIDE DEF G
  <2> SUFFICES ASSUME n + 1 <= NumInodes PROVE G(vs[n+1], n+1)
    OBVIOUS
  <2> USE DEF G
  <2>1. PICK v, u : v = vs[n] /\ u = vs[n+1]
    OBVIOUS
  <2>2. G(v, n) /\ u = VisitIn(im, bm, ino, dir, v)
    BY <1>2, <1>4, <2>1, NamesAssumption
  <2>3. Going(im, ino, dir, u) /\ (u.tail = v.tail + 1 \/ u.tail > Len(u.list))
    BY <2>2, VisitMet
  <2>4. CASE v.tail = n + 1
    BY <2>1, <2>3, <2>4
  <2>5. CASE v.tail > Len(v.list)
    <3>1. u = v
      BY <2>2, <2>5 DEF VisitIn
    <3> QED BY <2>1, <2>3, <2>5, <3>1
  <2> QED BY <2>2, <2>4, <2>5
<1>5. NumInodes \in S
  <2> HIDE DEF S
  <2> QED BY <1>3, <1>4, SetInduction, NamesAssumption
<1>6. G(t, NumInodes)
  BY <1>1, <1>5, NamesAssumption
<1>7. /\ t \in Unfailed(im) /\ Listed(ino, t.list, t.imap) /\ Counted(t.list, t.imap)
      /\ t.imap = InodesOf(ino, dir, VisitedIn(im, ino, dir, t))
      /\ t.tail \in 1 .. Len(t.list) + 1
      /\ Len(t.list) \in Nat /\ t.imap \in SUBSET im /\ t.errors = {}
  <2>1. /\ Met(im, ino, dir, t, VisitedIn(im, ino, dir, t))
        /\ t.tail \in 1 .. Len(t.list) + 1
    BY <1>6 DEF Going
  <2>2. /\ t \in Unfailed(im) /\ Listed(ino, t.list, t.imap) /\ Counted(t.list, t.imap)
        /\ t.imap = InodesOf(ino, dir, VisitedIn(im, ino, dir, t))
    BY <2>1 DEF Met
  <2>3. Parts(im, t)
    BY <2>2, UnfailedParts
  <2> QED BY <2>1, <2>2, <2>3 DEF Parts
<1>8. t.tail = Len(t.list) + 1
  <2>1. IsFiniteSet(Inums) /\ Cardinality(Inums) = NumInodes
    BY FS_Interval, NamesAssumption DEF Inums
  <2>2. t.imap \in SUBSET Inums
    BY <1>7 DEF Readable
  <2>3. Len(t.list) <= NumInodes
    <3>1. Cardinality(t.imap) <= Cardinality(Inums)
      BY <2>1, <2>2, FS_Subset
    <3> QED BY <1>7, <2>1, <3>1 DEF Counted
  <2> QED BY <1>6, <1>7, <2>3, NamesAssumption
<1>9. \A i \in t.imap : \E k \in 1 .. t.tail - 1 : t.list[k].inum = i
  BY <1>7, <1>8 DEF Listed
<1>10. ClosedIn(im, ino, dir, t.imap)
  <2>1. ROOT \in t.imap
    BY <1>7 DEF InodesOf
  <2>2. ASSUME NEW x \in SlotsIn(im, ino, dir), x[1] \in t.imap
        PROVE  AtIn(ino, dir, x).inode \in t.imap
    <3>1. x \in VisitedIn(im, ino, dir, t)
      BY <1>9, <2>2 DEF VisitedIn
    <3> QED BY <1>7, <3>1 DEF InodesOf
  <2> QED BY <2>1, <2>2 DEF ClosedIn
<1> QED BY <1>7, <1>10

(* The memory can be traversed when it satisfies the invariant.            *)
LEMMA MemoryReadable == IInv => Readable(inode_map, block_map, inodes, dirents)
<1> SUFFICES ASSUME IInv PROVE Readable(inode_map, block_map, inodes, dirents)
  OBVIOUS
<1>1. inode_map \subseteq Inums /\ ROOT \in DirsIn(inode_map, inodes)
  BY MemoryImage DEF IInv, TypeOK, RootFixed
<1>2. ASSUME NEW x \in SlotsIn(inode_map, inodes, dirents)
      PROVE  /\ AtIn(inodes, dirents, x).isDir \in BOOLEAN
             /\ AtIn(inodes, dirents, x).inode \in inode_map \ {0, ROOT}
             /\ AtIn(inodes, dirents, x).isDir
                   <=> inodes[AtIn(inodes, dirents, x).inode].mode = "dir"
  <2>1. x \in LinkSlots /\ At(x) = AtIn(inodes, dirents, x)
    BY MemoryImage
  <2>2. At(x) \in Dirent
    BY <2>1, DirEntries DEF LinkSlots, At, IInv
  <2> QED BY <2>1, <2>2 DEF IInv, RefsLive, Dirent
<1>3. \A x, y \in SlotsIn(inode_map, inodes, dirents) :
         AtIn(inodes, dirents, x).inode = AtIn(inodes, dirents, y).inode => x = y
  BY MemoryImage DEF IInv, RefsUnique
<1>4. \A d \in DirsIn(inode_map, inodes) : inodes[d].direct0 \in block_map
  BY MemoryImage DEF IInv, DirBlocksOwned
<1> QED BY <1>1, <1>2, <1>3, <1>4 DEF Readable

LEMMA TreeClean == TreeInv => ReadImgClean
<1> SUFFICES ASSUME TreeInv PROVE ReadImgClean
  OBVIOUS
<1>1. IInv /\ Rooted /\ NoOrphans
  BY DEF TreeInv
<1>2. PICK t : t = Traversal
  OBVIOUS
<1>3. /\ t.errors = {} /\ t.imap \subseteq inode_map
      /\ ClosedIn(inode_map, inodes, dirents, t.imap)
  <2>1. t = VisitsIn(inode_map, block_map, inodes, dirents)[NumInodes]
    BY <1>2, MemoryTraversal
  <2> QED BY <1>1, <2>1, MemoryReadable, TraversalMet
<1>4. Closed(t.imap) /\ t.imap \in SUBSET Inums
  BY <1>1, <1>3, MemoryImage DEF Closed, ClosedIn, IInv, TypeOK
<1>5. \A x \in LinkSlots : At(x).inode \in t.imap
  BY <1>1, <1>4 DEF Rooted, Closed
<1>6. inode_map \ {0} \subseteq t.imap
  BY <1>1, <1>4, <1>5 DEF NoOrphans, Closed
<1> QED BY <1>2, <1>3, <1>6 DEF ReadImgClean, Errors, UnreachableInodes

(* read-img, run on any image the handlers leave behind, prints no         *)
(* "***ERROR***" and lists every allocated inode as reachable: its         *)
(* traversal ends, within a visit per inode, with nothing left out.        *)
THEOREM ReadImgFindsNothing == Spec => []ReadImgClean
BY AlwaysTreeInv, TreeClean, PTL

=============================================================================
