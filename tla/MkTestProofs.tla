---------------------------- MODULE MkTestProofs ----------------------------
(***************************************************************************)
(* The inductive invariants of the handlers hold of the image that mktest  *)
(* writes, too, so that what FsNamesProofs and FsTreeProofs show of images *)
(* that mkfs-x6 made holds of that one.                                    *)
(***************************************************************************)
EXTENDS MkTest, FsTreeProofs

USE DEF ROOT

(* The image has the five inodes and two directories it names.             *)
LEMMA TestLayout ==
  ASSUME TestInit
  PROVE  /\ TypeOK /\ RootFixed
         /\ LiveDirs = {ROOT, d1_inode}
         /\ Entries(ROOT) = root_de /\ Entries(d1_inode) = d1_de
<1> USE DEF f1_inode, d1_inode, f3_inode, root_blk, d1_blk
<1>1. /\ 0 \in Inums /\ {0, ROOT, f1_inode, d1_inode, f3_inode} \subseteq Inums
  BY NamesAssumption, TestAssumption DEF Inums
<1>2. /\ root_blk \in DataBlocks /\ d1_blk \in DataBlocks /\ root_blk # d1_blk
  BY LayoutAssumption, TestAssumption DEF DataBlocks
<1>3. /\ DataBlocks \subseteq Blocks /\ 0 \in Blocks /\ Metadata \subseteq Blocks
  BY LayoutAssumption DEF DataBlocks, Blocks, Metadata
<1> USE TestAssumption DEF TestInit
<1>4. TestInodes \in [Inums -> Inode]
  BY <1>1, <1>2, <1>3 DEF TestInodes, Inode, Modes, ZeroInode
<1>5. <<>> \in Seq(Nat) /\ file_A \in Seq(Nat) /\ dir1 \in Seq(Nat) /\ file_0 \in Seq(Nat)
  OBVIOUS
<1>6. ZeroDirent \in Dirent /\ ZeroBlock \in [Slots -> Dirent]
  BY <1>1, <1>2, <1>3, <1>5 DEF ZeroDirent, ZeroBlock, Dirent
<1>7. root_de \in [Slots -> Dirent] /\ d1_de \in [Slots -> Dirent]
  BY <1>1, <1>2, <1>3, <1>5, <1>6 DEF root_de, d1_de, Dirent
<1>8. dirents \in [DataBlocks -> [Slots -> Dirent]]
  BY <1>6, <1>7
<1>9. TypeOK
  BY <1>1, <1>2, <1>3, <1>4, <1>8 DEF TypeOK
<1>10. /\ inodes[ROOT] = [mode |-> "dir", direct0 |-> root_blk]
      /\ inodes[d1_inode] = [mode |-> "dir", direct0 |-> d1_blk]
      /\ inodes[f1_inode].mode = "reg" /\ inodes[f3_inode].mode = "reg"
      /\ inodes[0].mode = "none"
  BY <1>1, <1>2, <1>3 DEF TestInodes, ZeroInode
<1>11. LiveDirs = {ROOT, d1_inode}
  BY <1>10 DEF LiveDirs
<1>12. RootFixed
  BY <1>10, <1>11 DEF RootFixed
<1>13. Entries(ROOT) = root_de /\ Entries(d1_inode) = d1_de
  BY <1>1, <1>2, <1>3, <1>10 DEF Entries
<1> QED BY <1>9, <1>11, <1>12, <1>13

(* Its valid entries: file.A and dir1 in the root, file.0 in dir1.         *)
LEMMA TestLinks ==
  ASSUME TestInit
  PROVE  /\ LinkSlots = {<<ROOT, 0>>, <<ROOT, 2>>, <<d1_inode, 1>>}
         /\ At(<<ROOT, 0>>).inode = f1_inode /\ ~At(<<ROOT, 0>>).isDir
         /\ At(<<ROOT, 2>>).inode = d1_inode /\ At(<<ROOT, 2>>).isDir
         /\ At(<<d1_inode, 1>>).inode = f3_inode /\ ~At(<<d1_inode, 1>>).isDir
<1>1. /\ LiveDirs = {ROOT, d1_inode} /\ ROOT # d1_inode
      /\ Entries(ROOT) = root_de /\ Entries(d1_inode) = d1_de
  BY TestLayout DEF d1_inode
<1>2. 0 \in Slots /\ 1 \in Slots /\ 2 \in Slots /\ Slots \subseteq Nat
  BY NamesAssumption, TestAssumption DEF Slots
<1>3. ASSUME NEW j \in Slots
      PROVE  /\ root_de[j].valid <=> j \in {0, 2}
             /\ d1_de[j].valid <=> j = 1
  BY <1>2 DEF root_de, d1_de, ZeroDirent
<1>4. ASSUME NEW x
      PROVE  x \in LinkSlots <=> x \in {<<ROOT, 0>>, <<ROOT, 2>>, <<d1_inode, 1>>}
  <2>1. ASSUME x \in LinkSlots PROVE x \in {<<ROOT, 0>>, <<ROOT, 2>>, <<d1_inode, 1>>}
    <3>1. PICK d \in {ROOT, d1_inode}, j \in Slots : x = <<d, j>> /\ Entries(d)[j].valid
      BY <1>1, <2>1 DEF LinkSlots
    <3> QED BY <1>1, <1>3, <3>1
  <2>2. ASSUME x \in {<<ROOT, 0>>, <<ROOT, 2>>, <<d1_inode, 1>>} PROVE x \in LinkSlots
    <3>1. PICK d \in {ROOT, d1_inode}, j \in Slots : x = <<d, j>> /\ Entries(d)[j].valid
      BY <1>1, <1>2, <1>3, <2>2
    <3> QED BY <1>1, <3>1 DEF LinkSlots
  <2> QED BY <2>1, <2>2
<1>5. LinkSlots = {<<ROOT, 0>>, <<ROOT, 2>>, <<d1_inode, 1>>}
  BY <1>4
<1>6. /\ At(<<ROOT, 0>>) = root_de[0] /\ At(<<ROOT, 2>>) = root_de[2]
      /\ At(<<d1_inode, 1>>) = d1_de[1]
  BY <1>1 DEF At
<1>7. /\ root_de[0].inode = f1_inode /\ ~root_de[0].isDir
      /\ root_de[2].inode = d1_inode /\ root_de[2].isDir
      /\ d1_de[1].inode = f3_inode /\ ~d1_de[1].isDir
  BY <1>2 DEF root_de, d1_de
<1> QED BY <1>5, <1>6, <1>7

(* The image satisfies the invariant.                                      *)
LEMMA TestIInv == TestInit => IInv
<1> SUFFICES ASSUME TestInit PROVE IInv
  OBVIOUS
<1>1. inode_map = {0, ROOT, f1_inode, d1_inode, f3_inode}
  BY DEF TestInit
<1>2. /\ 0 \in Inums /\ ROOT \in Inums /\ f1_inode \in Inums /\ d1_inode \in Inums
      /\ f3_inode \in Inums
  BY NamesAssumption, TestAssumption DEF Inums, f1_inode, d1_inode, f3_inode
<1>3. /\ inodes[ROOT].direct0 = root_blk /\ inodes[d1_inode].direct0 = d1_blk
      /\ inodes[d1_inode].mode = "dir"
      /\ inodes[f1_inode].mode = "reg" /\ inodes[f3_inode].mode = "reg"
  BY <1>2 DEF TestInit, TestInodes, f1_inode, d1_inode, f3_inode
<1>4. RefsLive
  BY <1>1, <1>3, TestLinks DEF RefsLive, f1_inode, d1_inode, f3_inode
<1>5. RefsUnique
  BY TestLinks DEF RefsUnique, f1_inode, d1_inode, f3_inode
<1>6. DirBlocksOwned
  <2>1. /\ root_blk \in DataBlocks \cap block_map /\ d1_blk \in DataBlocks \cap block_map
        /\ root_blk # d1_blk
    BY LayoutAssumption, TestAssumption DEF DataBlocks, root_blk, d1_blk, TestInit
  <2> QED BY <1>3, <2>1, TestLayout DEF DirBlocksOwned
<1>7. StaleAfterValid
  <2>1. LiveDirs = {ROOT, d1_inode} /\ Entries(ROOT) = root_de /\ Entries(d1_inode) = d1_de
    BY TestLayout
  <2>2. ASSUME NEW j \in Slots, NEW k \in Slots, j < k
        PROVE  /\ root_de[k].valid => root_de[j].inode # root_de[k].inode
               /\ d1_de[k].valid => d1_de[j].inode # d1_de[k].inode
    BY <2>2, NamesAssumption DEF Slots, root_de, d1_de, ZeroDirent, f1_inode, d1_inode, f3_inode
  <2> QED BY <2>1, <2>2 DEF StaleAfterValid
<1> QED BY <1>4, <1>5, <1>6, <1>7, TestLayout DEF IInv

(* Its tree is rooted: the root leads to dir1.  Its links lead to all its  *)
(* inodes.                                                                 *)
LEMMA TestTreeInv == TestInit => TreeInv
<1> SUFFICES ASSUME TestInit PROVE TreeInv
  OBVIOUS
<1>1. /\ LinkSlots = {<<ROOT, 0>>, <<ROOT, 2>>, <<d1_inode, 1>>}
      /\ At(<<ROOT, 0>>).inode = f1_inode
      /\ At(<<ROOT, 2>>).inode = d1_inode
      /\ At(<<d1_inode, 1>>).inode = f3_inode
  BY TestLinks
<1>2. Rooted
  <2>1. ASSUME NEW S, Closed(S) PROVE ROOT \in S /\ d1_inode \in S
    <3>1. <<ROOT, 2>> \in LinkSlots /\ <<ROOT, 2>>[1] = ROOT
      BY <1>1
    <3> QED BY <1>1, <2>1, <3>1 DEF Closed
  <2>2. \A x \in LinkSlots : x[1] \in {ROOT, d1_inode}
    BY <1>1
  <2> QED BY <2>1, <2>2 DEF Rooted
<1>3. inode_map = {0, ROOT, f1_inode, d1_inode, f3_inode}
  BY DEF TestInit
<1>4. NoOrphans
  BY <1>1, <1>3 DEF NoOrphans
<1> QED BY <1>2, <1>4, TestIInv DEF TreeInv

LEMMA ImagesTreeInv == ImageSpec => []TreeInv
<1>1. Init \/ TestInit => TreeInv
  BY InitIInv, InitLinks, TestTreeInv DEF TreeInv
<1> QED BY <1>1, NextTreeInv, PTL DEF ImageSpec

(* On an image of mkfs-x6 as on that of mktest, whatever calls follow:     *)
(* entries, inodes and blocks of directories agree, stale entries come     *)
(* after the valid ones whose number they bear, no inode is lost and all   *)
(* are within reach of the root.                                           *)
THEOREM ImagesSound ==
  ImageSpec => [](/\ TypeOK /\ RefsLive /\ RefsUnique /\ NoOrphans
                  /\ DirBlocksOwned /\ StaleAfterValid /\ AllReachable)
<1>1. TreeInv => /\ TypeOK /\ RefsLive /\ RefsUnique /\ NoOrphans
                 /\ DirBlocksOwned /\ StaleAfterValid
  BY DEF IInv, TreeInv
<1> QED BY <1>1, ImagesTreeInv, TreeReachable, PTL

(* read-img finds nothing wrong with the image of mktest, nor with what    *)
(* the handlers make of it.                                                *)
THEOREM ImagesClean == ImageSpec => []ReadImgClean
BY ImagesTreeInv, TreeClean, PTL

(* On both images unlink, rmdir and rename change the entry that the path  *)
(* leads to and no other.                                                  *)
THEOREM ImagesNamed == ImageSpec => NamedEntryOnly
<1>1. TreeInv => IInv
  BY DEF TreeInv
<1> QED BY <1>1, ImagesTreeInv, NamedByIInv, PTL

-----------------------------------------------------------------------------
(* Names, with the names of the image among those of paths.                *)

TestNames == {file_A, dir1, file_0} \subseteq PathNames /\ file_A # dir1

LEMMA TestNamesInv == TestNames /\ TestInit => NamesInv
<1> SUFFICES ASSUME TestNames, TestInit PROVE NamesInv
  OBVIOUS
<1>1. LinkSlots = {<<ROOT, 0>>, <<ROOT, 2>>, <<d1_inode, 1>>} /\ ROOT # d1_inode
  BY TestLinks DEF d1_inode
<1>2. /\ At(<<ROOT, 0>>) = root_de[0] /\ At(<<ROOT, 2>>) = root_de[2]
      /\ At(<<d1_inode, 1>>) = d1_de[1]
  BY TestLayout DEF At
<1>3. 0 \in Slots /\ 1 \in Slots /\ 2 \in Slots
  BY NamesAssumption, TestAssumption DEF Slots
<1>4. root_de[0].name = file_A /\ root_de[2].name = dir1 /\ d1_de[1].name = file_0
  BY <1>3 DEF root_de, d1_de
<1> QED BY <1>1, <1>2, <1>4 DEF NamesInv, NamesKnown, NamesUnique, TestNames

LEMMA ImagesNames ==
  ASSUME SameLength, TestNames
  PROVE  ImageSpec => [](TreeInv /\ NamesInv)
<1>1. Init \/ TestInit => NamesInv
  BY InitLinks, TestNamesInv DEF NamesInv, NamesKnown, NamesUnique
<1>2. TreeInv /\ NamesInv /\ [Next]_vars => NamesInv'
  BY NextNames DEF TreeInv
<1> QED BY <1>1, <1>2, ImagesTreeInv, PTL DEF ImageSpec

(* On both images every name that readdir lists leads to the inode it is   *)
(* listed with, and is listed once.                                        *)
THEOREM ImagesListed ==
  ASSUME SameLength, TestNames
  PROVE  ImageSpec => []ListingResolves
<1>1. TreeInv /\ NamesInv => ListingResolves
  BY ListingsFromNames DEF TreeInv
<1> QED BY <1>1, ImagesNames, PTL

(* On both images the handlers implement the tree of links.                *)
THEOREM ImagesTree ==
  ASSUME SameLength, TestNames
  PROVE  ImageSpec => ImplementsTree
<1>1. TestInit => Tree!Init
  <2> SUFFICES ASSUME TestInit PROVE Tree!Init
    OBVIOUS
  <2>1. IInv /\ NamesInv
    BY TestIInv, TestNamesInv
  <2>2. ASSUME NEW x \in LinkSlots PROVE Tree!IsDirectory(x[1])
    <3>1. x[1] \in {ROOT, d1_inode}
      BY TestLinks
    <3>2. <<ROOT, 2>> \in LinkSlots
      BY TestLinks
    <3>3. LinkAt(<<ROOT, 2>>) \in Links /\ LinkAt(<<ROOT, 2>>).node = d1_inode
          /\ LinkAt(<<ROOT, 2>>).isDir
      BY <2>1, <3>2, LinkFields, TestLinks
    <3> QED BY <3>1, <3>3 DEF Tree!IsDirectory
  <2>3. ASSUME NEW l \in Links
        PROVE  \E x \in LinkSlots : l = LinkAt(x)
    BY DEF Links, LinkAt
  <2>4. ASSUME NEW l \in Links PROVE Tree!IsDirectory(l.dir) /\ l.node # ROOT
    <3>1. PICK x \in LinkSlots : l = LinkAt(x)
      BY <2>3
    <3> QED BY <2>1, <2>2, <3>1, LinkFields
  <2>5. ASSUME NEW l \in Links, NEW m \in Links,
               l.node = m.node \/ (l.dir = m.dir /\ l.name = m.name)
        PROVE  l = m
    <3>1. PICK x \in LinkSlots : l = LinkAt(x)
      BY <2>3
    <3>2. PICK y \in LinkSlots : m = LinkAt(y)
      BY <2>3
    <3>3. \/ At(x).inode = At(y).inode
          \/ x[1] = y[1] /\ At(x).name = At(y).name
      BY <2>1, <2>5, <3>1, <3>2, LinkFields
    <3>4. x = y
      BY <2>1, <3>3 DEF IInv, RefsUnique, NamesInv, NamesUnique
    <3> QED BY <3>1, <3>2, <3>4
  <2> QED BY <2>4, <2>5 DEF Tree!Init
<1>2. Init => Tree!Init
  BY InitTree
<1>3. TreeInv /\ NamesInv /\ [Next]_vars => [Tree!Next]_Links
  BY NextTree DEF TreeInv
<1> QED BY <1>1, <1>2, <1>3, ImagesNames, PTL DEF ImageSpec, ImplementsTree, Tree!Spec

=============================================================================
