--------------------------- MODULE FileCrashProofs ---------------------------
(***************************************************************************)
(* Proofs about fs_write and the image: wherever it is interrupted, the    *)
(* image is one from which the file system runs on soundly.                *)
(***************************************************************************)
EXTENDS FileCrash, FsFileProofs, SequenceTheorems

-----------------------------------------------------------------------------
(* The image as it is when the writes in D are done too, each of which     *)
(* takes the memory's value; and the first n pending writes.               *)
View(D) ==
    [block_map |-> IF BlockMap \in D THEN block_map ELSE disk.block_map,
     inodes    |-> IF InodeTable \in D THEN inodes ELSE disk.inodes,
     blocks    |-> [b \in Blocks |-> IF Block(b) \in D THEN blocks[b] ELSE disk.blocks[b]]]

Done(n) == {pending[k] : k \in 1 .. n}

Regions == {BlockMap, InodeTable} \cup {Block(b) : b \in Blocks}
Images  == [block_map : SUBSET Blocks, inodes : [Files -> Inode],
            blocks : [Blocks -> [Words -> Nat]]]

(* An image that fs_init may load: pointers are sound, and free blocks are *)
(* as mkfs left them.                                                      *)
Safe(map, ino, blk) ==
    /\ map \subseteq Blocks /\ Metadata \subseteq map
    /\ Shape(ino, blk, files) /\ Sound(map, ino, blk, files)
    /\ \A b \in DataBlocks \ map : blk[b] = ZeroBlock
SafeImage(img) == Safe(img.block_map, img.inodes, img.blocks)

(* The inductive invariant: the image is safe at every point of the writes *)
(* that are left, and is the memory's at their end.                        *)
CrashInv ==
    /\ Inv
    /\ disk \in Images /\ pending \in Seq(Regions)
    /\ \A n \in 0 .. Len(pending) : SafeImage(View(Done(n)))
    /\ View(Done(Len(pending))) = InMemory

-----------------------------------------------------------------------------
(* What an iteration passes through.                                       *)

(* Files are only written here, and so memory itself is always safe.       *)
LEMMA WrittenOnly == OnlyWritten
BY FilesOnlyGrow DEF OnlyWritten

LEMMA MemorySafe ==
  ASSUME Inv
  PROVE  /\ Safe(block_map, inodes, blocks)
         /\ Typed /\ MapSound /\ Linked /\ Clean /\ Shape(inodes, blocks, files)
<1>1. Typed /\ MapSound /\ Linked /\ Clean
  BY WrittenOnly DEF Inv
<1>2. Shape(inodes, blocks, files)
  BY <1>1 DEF Typed, TypeOK, Shape
<1> QED BY <1>1, <1>2 DEF Safe, Typed, TypeOK, MapSound, Clean

(* Between old and new: no pointer is moved, or the one at p is.           *)
MovesOnly(p, ino, blk) ==
    \/ Same(inodes, blocks, ino, blk, files)
    \/ Changed(inodes, blocks, ino, blk, files, p, Target(Ptr(inodes, blocks, p)))

Between(ino, blk) ==
    /\ ino \in {inodes, inodes'} /\ blk \in [Blocks -> [Words -> Nat]]
    /\ \A b \in Blocks : blk[b] \in {blocks[b], blocks'[b]}

Midway(p, img) == MovesOnly(p, img.inodes, img.blocks) /\ Between(img.inodes, img.blocks)

(* Once the block is marked, what is between old and new is safe.          *)
LEMMA BetweenSafe ==
  ASSUME Inv, Inv', NEW p, Takes(p), NEW ino, NEW blk, Between(ino, blk), MovesOnly(p, ino, blk)
  PROVE  Safe(block_map', ino, blk)
<1> DEFINE ptr == Ptr(inodes, blocks, p)
           t   == Target(ptr)
<1>0. MapSound /\ Clean /\ Shape(inodes, blocks, files) /\ Metadata \subseteq block_map
  BY MemorySafe DEF Safe
<1>1. p \in Places(files) /\ Usable(ptr) /\ block_map' = Alloc(ptr) /\ files' = files
  BY DEF Takes
<1>2. /\ ptr = 0 => t \in DataBlocks \ block_map /\ Alloc(ptr) = block_map \cup {t}
      /\ ptr # 0 => t = ptr /\ Alloc(ptr) = block_map
  <2> HIDE DEF ptr
  <2> QED BY <1>0, <1>1, TargetFree DEF ptr
<1>3. Sound(block_map', ino, blk, files)
  <2> HIDE DEF t
  <2>1. CASE ptr = 0
    <3>1. /\ Unused(inodes, blocks, files, t)
          /\ Sound(block_map', inodes, blocks, files) /\ t \in Mappable(block_map')
      BY <1>0, <1>1, <1>2, <2>1, MarkSound DEF MapSound
    <3>2. \/ Same(inodes, blocks, ino, blk, files)
          \/ Changed(inodes, blocks, ino, blk, files, p, t)
      BY DEF MovesOnly, t
    <3> QED BY <3>1, <3>2, ChangeSound, SameSound
  <2>2. CASE ptr # 0
    <3>1. Same(inodes, blocks, ino, blk, files)
      BY <1>2, <2>2 DEF MovesOnly, Changed, Same, t
    <3> QED BY <1>0, <1>1, <1>2, <2>2, <3>1, SameSound DEF MapSound
  <2> QED BY <2>1, <2>2
<1>4. block_map \subseteq block_map' /\ block_map' \subseteq Blocks /\ inodes' \in [Files -> Inode]
  <2>1. TypeOK'
    BY DEF Inv, Typed
  <2> QED BY <1>1, <1>2, <2>1 DEF TypeOK
<1>5. Clean'
  <2>1. OnlyWritten'
    BY WrittenOnly DEF OnlyWritten
  <2> QED BY <2>1 DEF Inv
<1>6. ASSUME NEW b \in DataBlocks \ block_map' PROVE blk[b] = ZeroBlock
  <2>1. b \in Blocks /\ blocks[b] = ZeroBlock /\ blocks'[b] = ZeroBlock
    BY <1>0, <1>4, <1>5, Constants DEF Clean
  <2> QED BY <2>1 DEF Between
<1>7. Shape(ino, blk, files)
  BY <1>0, <1>4 DEF Shape, Between
<1> QED BY <1>0, <1>3, <1>4, <1>6, <1>7 DEF Safe

(* The blocks when one of them has been written.                           *)
Mid(b) == [blocks EXCEPT ![b] = blocks'[b]]

(* An iteration that works on the place p and writes the inodes, the block *)
(* `first` and the block `second`.                                         *)
Iterates(p, first, second) ==
    /\ Takes(p) /\ first \in Blocks /\ second \in Blocks
    /\ MovesOnly(p, inodes', blocks) /\ MovesOnly(p, inodes', Mid(first))
    /\ \A b \in Blocks \ {first, second} : blocks'[b] = blocks[b]

LEMMA UsableSpace ==
  ASSUME NEW ptr, Usable(ptr)
  PROVE  ~NoSpace(ptr) /\ ~Abort(ptr)
BY DEF Usable, NoSpace, Abort

LEMMA DirectIterates ==
  ASSUME Inv, write_direct, NEW ptr, ptr = inodes[wr.f].direct[wr.i], Usable(ptr)
  PROVE  /\ Iterates(<<wr.f, "direct", wr.i, 0>>, Target(ptr), Target(ptr))
         /\ ptr = Ptr(inodes, blocks, <<wr.f, "direct", wr.i, 0>>)
<1> DEFINE p == <<wr.f, "direct", wr.i, 0>>
           t == Target(ptr)
<1>0. Typed /\ MapSound /\ Shape(inodes, blocks, files)
  BY MemorySafe
<1>1. Takes(p) /\ ptr = Ptr(inodes, blocks, p)
  BY <1>0, UsableSpace, DirectTakes DEF Ptr
<1>2. t \in Blocks
  <2> HIDE DEF p
  <2>1. p \in Places(files)
    BY <1>1 DEF Takes
  <2> QED BY <1>0, <1>1, <2>1, TargetFree, Constants
<1>3. wr.f \in files /\ wr.i \in 0 .. N_DIRECT - 1
  <2>1. wr.stage = "direct" /\ wr.stage \in Active
    BY Zenon DEF write_direct, Active, Stages
  <2> QED BY <1>0, <2>1, InCall
<1>4. /\ \E n : inodes' = [inodes EXCEPT ![wr.f].direct[wr.i] = t, ![wr.f].size = n]
      /\ blocks' = [blocks EXCEPT ![t] = Filled(ptr)]
  <2>1. ~NoSpace(ptr)
    BY UsableSpace
  <2> QED BY <2>1, Zenon DEF write_direct
<1> HIDE DEF t
<1>5. MovesOnly(p, inodes', blocks)
  <2>1. Changed(inodes, blocks, inodes', blocks, files, p, t)
    BY <1>0, <1>3, <1>4, SetDirect
  <2> QED BY <1>1, <2>1 DEF MovesOnly, t
<1>6. blocks' = Mid(t) /\ \A b \in Blocks \ {t} : blocks'[b] = blocks[b]
  BY <1>0, <1>2, <1>4 DEF Mid, Shape
<1>7. MovesOnly(p, inodes', Mid(t))
  BY <1>1, <1>6 DEF MovesOnly, Takes
<1> QED BY <1>1, <1>2, <1>5, <1>6, <1>7 DEF Iterates, t

(* A new table is zero already.                                            *)
LEMMA TableIterates ==
  ASSUME Inv, write_table1, NEW ptr, ptr = inodes[wr.f].indir_1, Usable(ptr)
  PROVE  /\ Iterates(<<wr.f, "indir_1", 0, 0>>, Target(ptr), Target(ptr))
         /\ ptr = Ptr(inodes, blocks, <<wr.f, "indir_1", 0, 0>>)
         /\ ptr # 0 => UNCHANGED <<block_map, inodes, blocks, files>>
<1> DEFINE p == <<wr.f, "indir_1", 0, 0>>
           t == Target(ptr)
<1>0. Typed /\ MapSound /\ Clean /\ Shape(inodes, blocks, files) /\ inodes \in [Files -> Inode]
  BY MemorySafe DEF Shape
<1>1. Takes(p) /\ ptr = Ptr(inodes, blocks, p)
  BY <1>0, UsableSpace, Table1Takes DEF Ptr
<1>2. /\ t \in Blocks
      /\ ptr = 0 => t \in DataBlocks \ block_map
      /\ ptr # 0 => t = ptr /\ Alloc(ptr) = block_map
  <2> HIDE DEF p
  <2>1. p \in Places(files)
    BY <1>1 DEF Takes
  <2> QED BY <1>0, <1>1, <2>1, TargetFree, Constants
<1>3. wr.f \in files /\ wr.f \in Files
  <2>1. wr.stage = "table1" /\ wr.stage \in Active
    BY DEF write_table1, Active, Stages
  <2> QED BY <1>0, <2>1, InCall
<1>4. /\ inodes' = [inodes EXCEPT ![wr.f].indir_1 = t]
      /\ blocks' = IF ptr = 0 THEN [blocks EXCEPT ![t] = ZeroBlock] ELSE blocks
      /\ block_map' = Alloc(ptr) /\ files' = files
  <2>1. ~NoSpace(ptr)
    BY UsableSpace
  <2> QED BY <2>1 DEF write_table1
<1> HIDE DEF t
<1>5. ptr # 0 => UNCHANGED <<block_map, inodes, blocks, files>>
  BY <1>0, <1>2, <1>3, <1>4 DEF Inode
<1>6. MovesOnly(p, inodes', blocks)
  <2>1. CASE ptr # 0
    BY <1>5, <2>1 DEF MovesOnly, Same
  <2>2. CASE ptr = 0
    <3>1. blocks[t] = ZeroBlock /\ inodes[wr.f].indir_1 = 0
      BY <1>0, <1>2, <2>2 DEF Clean
    <3>2. Changed(inodes, blocks, inodes', blocks, files, p, t)
      BY <1>0, <1>2, <1>3, <1>4, <3>1, SetTable1
    <3> QED BY <1>1, <3>2 DEF MovesOnly, t
  <2> QED BY <2>1, <2>2
<1>7. blocks' = Mid(t) /\ \A b \in Blocks \ {t} : blocks'[b] = blocks[b]
  BY <1>0, <1>2, <1>4 DEF Mid, Shape
<1>8. MovesOnly(p, inodes', Mid(t))
  BY <1>1, <1>7 DEF MovesOnly, Takes
<1> QED BY <1>1, <1>2, <1>5, <1>6, <1>7, <1>8 DEF Iterates, t

LEMMA Table2Iterates ==
  ASSUME Inv, write_table2, NEW ptr, ptr = inodes[wr.f].indir_2, Usable(ptr)
  PROVE  /\ Iterates(<<wr.f, "indir_2", 0, 0>>, Target(ptr), Target(ptr))
         /\ ptr = Ptr(inodes, blocks, <<wr.f, "indir_2", 0, 0>>)
         /\ ptr # 0 => UNCHANGED <<block_map, inodes, blocks, files>>
<1> DEFINE p == <<wr.f, "indir_2", 0, 0>>
           t == Target(ptr)
<1>0. Typed /\ MapSound /\ Clean /\ Shape(inodes, blocks, files) /\ inodes \in [Files -> Inode]
  BY MemorySafe DEF Shape
<1>1. Takes(p) /\ ptr = Ptr(inodes, blocks, p)
  BY <1>0, UsableSpace, Table2Takes DEF Ptr
<1>2. /\ t \in Blocks
      /\ ptr = 0 => t \in DataBlocks \ block_map
      /\ ptr # 0 => t = ptr /\ Alloc(ptr) = block_map
  <2> HIDE DEF p
  <2>1. p \in Places(files)
    BY <1>1 DEF Takes
  <2> QED BY <1>0, <1>1, <2>1, TargetFree, Constants
<1>3. wr.f \in files /\ wr.f \in Files
  <2>1. wr.stage = "table2" /\ wr.stage \in Active
    BY DEF write_table2, Active, Stages
  <2> QED BY <1>0, <2>1, InCall
<1>4. /\ inodes' = [inodes EXCEPT ![wr.f].indir_2 = t]
      /\ blocks' = IF ptr = 0 THEN [blocks EXCEPT ![t] = ZeroBlock] ELSE blocks
      /\ block_map' = Alloc(ptr) /\ files' = files
  <2>1. ~NoSpace(ptr)
    BY UsableSpace
  <2> QED BY <2>1 DEF write_table2
<1> HIDE DEF t
<1>5. ptr # 0 => UNCHANGED <<block_map, inodes, blocks, files>>
  BY <1>0, <1>2, <1>3, <1>4 DEF Inode
<1>6. MovesOnly(p, inodes', blocks)
  <2>1. CASE ptr # 0
    BY <1>5, <2>1 DEF MovesOnly, Same
  <2>2. CASE ptr = 0
    <3>1. blocks[t] = ZeroBlock /\ inodes[wr.f].indir_2 = 0
      BY <1>0, <1>2, <2>2 DEF Clean
    <3>2. Changed(inodes, blocks, inodes', blocks, files, p, t)
      BY <1>0, <1>2, <1>3, <1>4, <3>1, SetTable2
    <3> QED BY <1>1, <3>2 DEF MovesOnly, t
  <2> QED BY <2>1, <2>2
<1>7. blocks' = Mid(t) /\ \A b \in Blocks \ {t} : blocks'[b] = blocks[b]
  BY <1>0, <1>2, <1>4 DEF Mid, Shape
<1>8. MovesOnly(p, inodes', Mid(t))
  BY <1>1, <1>7 DEF MovesOnly, Takes
<1> QED BY <1>1, <1>2, <1>5, <1>6, <1>7, <1>8 DEF Iterates, t

(* The table first, and then the block its entry leads to.                 *)
LEMMA Level1Iterates ==
  ASSUME Inv, write_level1, NEW table, table = inodes[wr.f].indir_1,
         NEW ptr, ptr = blocks[table][wr.i], Usable(ptr)
  PROVE  /\ Iterates(<<wr.f, "level1", wr.i, 0>>, table, Target(ptr))
         /\ ptr = Ptr(inodes, blocks, <<wr.f, "level1", wr.i, 0>>)
         /\ table # Target(ptr)
<1> DEFINE p == <<wr.f, "level1", wr.i, 0>>
           t == Target(ptr)
<1>0. /\ Typed /\ MapSound /\ Linked /\ Shape(inodes, blocks, files)
      /\ blocks \in [Blocks -> [Words -> Nat]]
  BY MemorySafe DEF Shape
<1>1. wr.stage = "level1" /\ wr.stage \in Active
  BY Zenon DEF write_level1, Active, Stages
<1>2. wr.f \in files /\ wr.i \in Words /\ table \in Blocks
  BY <1>0, <1>1, InCall
<1>3. table # 0 /\ ptr = Ptr(inodes, blocks, p) /\ p[2] = "level1"
  <2>1. table # 0
    BY <1>0, <1>1 DEF Linked, Ptr
  <2>2. ptr = At(blocks, table, wr.i)
    BY <1>2, <2>1 DEF At
  <2> QED BY <2>1, <2>2 DEF Ptr
<1>4. /\ ~NoSpace(ptr) /\ ~Abort(ptr)
      /\ \E n : inodes' = [inodes EXCEPT ![wr.f].size = n]
      /\ blocks' = [blocks EXCEPT ![table][wr.i] = t, ![t] = Filled(ptr)]
  <2>1. ~NoSpace(ptr) /\ ~Abort(ptr)
    BY UsableSpace
  <2> QED BY <2>1, Zenon DEF write_level1
<1>5. Takes(p)
  BY <1>0, <1>4, Level1Takes
<1>6. t \in Blocks /\ t \in Nat /\ NotTable(inodes, blocks, files, t)
  <2>1. p \in Places(files)
    BY <1>5 DEF Takes
  <2>2. Filled(ptr) \in [Words -> Nat]
    BY <1>0, <1>1, FillTypes
  <2> HIDE DEF p
  <2> QED BY <1>0, <1>3, <2>1, <2>2, FillData, TargetFree, Constants
<1>7. t # table
  BY <1>2, <1>6 DEF NotTable
<1> HIDE DEF t
<1>8. /\ Mid(table) = [blocks EXCEPT ![table][wr.i] = t]
      /\ \A b \in Blocks \ {table, t} : blocks'[b] = blocks[b]
  BY <1>0, <1>2, <1>4, <1>6, <1>7, Zenon DEF Mid
<1>9. MovesOnly(p, inodes', blocks)
  BY <1>0, <1>2, <1>4, SetSize DEF MovesOnly
<1>10. MovesOnly(p, inodes', Mid(table))
  <2> DEFINE blk == Mid(table)
  <2>1. blk = [blocks EXCEPT ![table][wr.i] = t]
    BY <1>8
  <2> HIDE DEF blk
  <2>2. Shape(inodes, blk, files)
    BY <1>0, <1>2, <1>6, <2>1 DEF Shape
  <2>3. Changed(inodes, blocks, inodes, blk, files, <<wr.f, "level1", wr.i, 0>>, t)
    BY <1>0, <1>2, <1>3, <2>1, SetLevel1 DEF MapSound
  <2>4. Same(inodes, blk, inodes', blk, files)
    BY <1>2, <1>4, <2>2, SetSize
  <2>5. Changed(inodes, blocks, inodes', blk, files, p, t)
    BY <2>3, <2>4 DEF Same, Changed
  <2> QED BY <1>3, <2>5 DEF MovesOnly, blk, t
<1> QED BY <1>2, <1>3, <1>5, <1>6, <1>7, <1>8, <1>9, <1>10 DEF Iterates, t

(* The zeros of a new inner table are on the image already.                *)
LEMMA OuterIterates ==
  ASSUME Inv, write_outer, NEW table, table = inodes[wr.f].indir_2,
         NEW ptr, ptr = blocks[table][wr.i], Usable(ptr)
  PROVE  /\ Iterates(<<wr.f, "outer", wr.i, 0>>, table, table)
         /\ ptr = Ptr(inodes, blocks, <<wr.f, "outer", wr.i, 0>>)
         /\ inodes' = inodes
         /\ ptr # 0 => UNCHANGED <<block_map, inodes, blocks, files>>
<1> DEFINE p == <<wr.f, "outer", wr.i, 0>>
           t == Target(ptr)
<1>0. /\ Typed /\ MapSound /\ Linked /\ Clean /\ Shape(inodes, blocks, files)
      /\ blocks \in [Blocks -> [Words -> Nat]]
  BY MemorySafe DEF Shape
<1>1. wr.stage = "outer" /\ wr.stage \in Active
  BY DEF write_outer, Active, Stages
<1>2. wr.f \in files /\ wr.i \in Words /\ table \in Blocks
  BY <1>0, <1>1, InCall
<1>3. ptr = Ptr(inodes, blocks, p)
  <2>1. table # 0
    BY <1>0, <1>1 DEF Linked, Ptr
  <2>2. ptr = At(blocks, table, wr.i)
    BY <1>2, <2>1 DEF At
  <2> QED BY <2>1, <2>2 DEF Ptr
<1>4. /\ ~NoSpace(ptr) /\ ~Abort(ptr)
      /\ inodes' = inodes /\ block_map' = Alloc(ptr) /\ files' = files
      /\ blocks' = [blocks EXCEPT ![table][wr.i] = t]
  <2>1. ~NoSpace(ptr) /\ ~Abort(ptr)
    BY UsableSpace
  <2> QED BY <2>1 DEF write_outer
<1>5. Takes(p)
  BY <1>0, <1>4, OuterTakes
<1>6. ptr # 0 => t = ptr /\ Alloc(ptr) = block_map
  BY DEF Target, Alloc
<1> HIDE DEF t
<1>7. /\ blocks' = Mid(table)
      /\ \A b \in Blocks \ {table} : blocks'[b] = blocks[b]
      /\ t = blocks[table][wr.i] => blocks' = blocks
  BY <1>0, <1>2, <1>4, Zenon DEF Mid
<1>8. MovesOnly(p, inodes', blocks)
  BY <1>4 DEF MovesOnly, Same
<1>9. MovesOnly(p, inodes', Mid(table))
  BY <1>5, <1>7 DEF MovesOnly, Takes
<1> QED BY <1>2, <1>3, <1>4, <1>5, <1>6, <1>7, <1>8, <1>9 DEF Iterates

(* The block first, and then the inner table whose entry leads to it.      *)
LEMMA InnerIterates ==
  ASSUME Inv, write_inner, NEW table, table = blocks[inodes[wr.f].indir_2][wr.i],
         NEW ptr, ptr = blocks[table][wr.j], Usable(ptr)
  PROVE  /\ Iterates(<<wr.f, "inner", wr.i, wr.j>>, Target(ptr), table)
         /\ ptr = Ptr(inodes, blocks, <<wr.f, "inner", wr.i, wr.j>>)
         /\ table # Target(ptr)
<1> DEFINE p == <<wr.f, "inner", wr.i, wr.j>>
           outer == inodes[wr.f].indir_2
           t == Target(ptr)
<1>0. /\ Typed /\ MapSound /\ Linked /\ Shape(inodes, blocks, files)
      /\ blocks \in [Blocks -> [Words -> Nat]]
  BY MemorySafe, Zenon DEF Shape
<1>1. wr.stage = "inner" /\ wr.stage \in Active
  BY Zenon DEF write_inner, Active, Stages
<1>2. wr.f \in files /\ wr.i \in Words /\ wr.j \in Words /\ outer \in Blocks
  BY <1>0, <1>1, InCall, Zenon
<1>3. /\ table = At(blocks, outer, wr.i) /\ table \in Blocks
      /\ ptr = Ptr(inodes, blocks, p) /\ p[2] = "inner"
  <2>1. <<wr.f, "outer", wr.i, 0>> \in Places(files)
    BY <1>2, PlaceMembers, Zenon
  <2>2. /\ outer # 0 /\ At(blocks, outer, wr.i) # 0
        /\ At(blocks, outer, wr.i) = Ptr(inodes, blocks, <<wr.f, "outer", wr.i, 0>>)
    BY <1>0, <1>1, Zenon DEF Linked, Ptr
  <2>3. table = At(blocks, outer, wr.i)
    BY <1>2, <2>2, Zenon DEF At
  <2>4. table \in Blocks
    <3> HIDE DEF outer
    <3> QED BY <1>0, <2>1, <2>2, <2>3, EntryInRange
  <2>5. ptr = At(blocks, table, wr.j)
    BY <2>2, <2>3, <2>4, Zenon DEF At
  <2> QED BY <2>3, <2>4, <2>5 DEF Ptr
<1>4. /\ ~NoSpace(ptr) /\ ~Abort(ptr)
      /\ \E n : inodes' = [inodes EXCEPT ![wr.f].size = n]
      /\ blocks' = [blocks EXCEPT ![t] = Filled(ptr), ![table] = [blocks[table] EXCEPT ![wr.j] = t]]
  <2>1. ~NoSpace(ptr) /\ ~Abort(ptr)
    BY UsableSpace, Zenon
  <2> QED BY <2>1, Zenon DEF write_inner
<1>5. Takes(p)
  BY <1>0, <1>4, InnerTakes, Zenon
<1>6. /\ t \in Blocks /\ NotTable(inodes, blocks, files, t) /\ Filled(ptr) \in [Words -> Nat]
      /\ Same(inodes, blocks, inodes, [blocks EXCEPT ![t] = Filled(ptr)], files)
  <2>1. p \in Places(files)
    BY <1>5, Zenon DEF Takes
  <2>2. Filled(ptr) \in [Words -> Nat]
    BY <1>0, <1>1, FillTypes, Zenon
  <2> HIDE DEF p
  <2> QED BY <1>0, <1>3, <2>1, <2>2, FillData, TargetFree, Constants, Zenon
<1>7. t # table
  <2> HIDE DEF t, outer
  <2> QED BY <1>2, <1>3, <1>6, Zenon DEF NotTable, outer
<1> HIDE DEF t
<1>8. /\ Mid(t) = [blocks EXCEPT ![t] = Filled(ptr)]
      /\ \A b \in Blocks \ {table, t} : blocks'[b] = blocks[b]
  BY <1>0, <1>3, <1>4, <1>6, <1>7, Zenon DEF Mid
<1>9. MovesOnly(p, inodes', blocks)
  BY <1>0, <1>2, <1>4, SetSize, Zenon DEF MovesOnly
<1>10. MovesOnly(p, inodes', Mid(t))
  <2> DEFINE blk == Mid(t)
  <2>1. blk = [blocks EXCEPT ![t] = Filled(ptr)]
    BY <1>8, Zenon
  <2> HIDE DEF blk
  <2>2. Shape(inodes, blk, files) /\ Same(inodes, blocks, inodes, blk, files)
    BY <1>0, <1>6, <2>1, Zenon DEF Shape
  <2>3. Same(inodes, blk, inodes', blk, files)
    BY <1>2, <1>4, <2>2, SetSize, Zenon
  <2>4. Same(inodes, blocks, inodes', blk, files)
    BY <2>2, <2>3, Zenon DEF Same
  <2> QED BY <2>4, Zenon DEF MovesOnly, blk
<1> QED BY <1>3, <1>5, <1>6, <1>7, <1>8, <1>9, <1>10, Zenon DEF Iterates, t

-----------------------------------------------------------------------------
(* The writes of an iteration.                                             *)

(* What the first writes of a sequence are.                                *)
LEMMA Prefixes ==
  ASSUME NEW a, NEW b, NEW c, NEW d
  PROVE  /\ \A n \in 0 .. 2 : {<<a, b>>[k] : k \in 1 .. n} =
               IF n = 0 THEN {} ELSE IF n = 1 THEN {a} ELSE {a, b}
         /\ \A n \in 0 .. 3 : {<<a, b, c>>[k] : k \in 1 .. n} =
               IF n = 0 THEN {} ELSE IF n = 1 THEN {a} ELSE IF n = 2 THEN {a, b} ELSE {a, b, c}
         /\ \A n \in 0 .. 4 : {<<a, b, c, d>>[k] : k \in 1 .. n} =
               IF n = 0 THEN {} ELSE IF n = 1 THEN {a} ELSE IF n = 2 THEN {a, b}
               ELSE IF n = 3 THEN {a, b, c} ELSE {a, b, c, d}
OBVIOUS

(* The image after the writes in D of the iteration that is under way.     *)
ViewNext(D) ==
    [block_map |-> IF BlockMap \in D THEN block_map' ELSE block_map,
     inodes    |-> IF InodeTable \in D THEN inodes' ELSE inodes,
     blocks    |-> [b \in Blocks |-> IF Block(b) \in D THEN blocks'[b] ELSE blocks[b]]]

(* The image is safe when a set D of the writes is done that has the block *)
(* bitmap, if it is written, the inodes before any block, and the second   *)
(* block only with the first.                                              *)
LEMMA ViewSafe ==
  ASSUME Inv, Inv', NEW p, NEW first, NEW second, Iterates(p, first, second),
         NEW D, D \subseteq {BlockMap, InodeTable, Block(first), Block(second)},
         \/ D = {}
         \/ BlockMap \in D
         \/ block_map' = block_map,
         InodeTable \in D \/ inodes' = inodes \/ (Block(first) \notin D /\ Block(second) \notin D),
         Block(second) \in D => Block(first) \in D
  PROVE  /\ SafeImage(ViewNext(D)) /\ Midway(p, ViewNext(D))
         /\ /\ BlockMap \in D \/ block_map' = block_map
            /\ InodeTable \in D \/ inodes' = inodes
            /\ Block(second) \in D
            => ViewNext(D) = InMemory'
<1> DEFINE map == IF BlockMap \in D THEN block_map' ELSE block_map
           ino == IF InodeTable \in D THEN inodes' ELSE inodes
           blk == [b \in Blocks |-> IF Block(b) \in D THEN blocks'[b] ELSE blocks[b]]
<1>0. /\ Safe(block_map, inodes, blocks) /\ blocks \in [Blocks -> [Words -> Nat]]
      /\ inodes' \in [Files -> Inode] /\ blocks' \in [Blocks -> [Words -> Nat]]
  BY MemorySafe DEF Shape, Inv, Typed, TypeOK
<1>1. /\ Takes(p) /\ files' = files /\ first \in Blocks /\ second \in Blocks
      /\ MovesOnly(p, inodes', blocks) /\ MovesOnly(p, inodes', Mid(first))
      /\ \A b \in Blocks \ {first, second} : blocks'[b] = blocks[b]
  BY DEF Iterates, Takes
<1>2. ViewNext(D) = [block_map |-> map, inodes |-> ino, blocks |-> blk]
  BY DEF ViewNext
<1>3. \A b \in Blocks : Block(b) \in D <=> \/ b = first /\ Block(first) \in D
                                           \/ b = second /\ Block(second) \in D
  BY DEF Block, BlockMap, InodeTable
<1>4. /\ Block(first) \notin D => blk = blocks
      /\ Block(first) \in D /\ Block(second) \notin D => blk = Mid(first)
      /\ Block(second) \in D => blk = blocks'
  BY <1>0, <1>1, <1>3 DEF Mid
<1>5. MovesOnly(p, inodes, blocks) /\ MovesOnly(p, inodes', blocks')
  BY <1>1 DEF MovesOnly, Same, Takes
<1> HIDE DEF blk
<1>6. Safe(map, ino, blk) /\ MovesOnly(p, ino, blk) /\ Between(ino, blk)
  <2>1. MovesOnly(p, ino, blk)
    BY <1>1, <1>4, <1>5
  <2>2. Between(ino, blk)
    BY <1>0, <1>1, <1>4 DEF Between, Mid
  <2>3. CASE D = {}
    BY <1>0, <1>4, <2>1, <2>2, <2>3
  <2>4. CASE map = block_map'
    BY <1>1, <2>1, <2>2, <2>4, BetweenSafe
  <2> QED BY <2>3, <2>4
<1>7. SafeImage(ViewNext(D)) /\ Midway(p, ViewNext(D))
  BY <1>2, <1>6 DEF SafeImage, Midway
<1> QED BY <1>2, <1>4, <1>7 DEF InMemory

(* A block that is taken is marked first.                                  *)
LEMMA Prepended ==
  ASSUME NEW a, NEW b, NEW c, NEW d
  PROVE  /\ <<d>> \o <<a, b>> = <<d, a, b>> /\ <<d>> \o <<a, b, c>> = <<d, a, b, c>>
         /\ <<>> \o <<a, b>> = <<a, b>> /\ <<>> \o <<a, b, c>> = <<a, b, c>>
<1> DEFINE S == {a, b, c, d}
<1>0. a \in S /\ b \in S /\ c \in S /\ d \in S
  OBVIOUS
<1> HIDE DEF S
<1>1. <<d>> \o <<a, b>> = <<d, a, b>>
  <2> DEFINE s == <<d>> \o <<a, b>>
             u == <<d, a, b>>
  <2>1. <<d>> \in Seq(S) /\ <<a, b>> \in Seq(S) /\ u \in Seq(S) /\ Len(u) = 3
    BY <1>0
  <2>2. s \in Seq(S) /\ Len(s) = 3 /\ \A k \in 1 .. 3 : s[k] = u[k]
    BY <2>1
  <2> HIDE DEF s, u
  <2>3. s = u
    BY <2>1, <2>2, SeqEqual
  <2> QED BY <2>3 DEF s, u
<1>2. <<d>> \o <<a, b, c>> = <<d, a, b, c>>
  <2> DEFINE s == <<d>> \o <<a, b, c>>
             u == <<d, a, b, c>>
  <2>1. <<d>> \in Seq(S) /\ <<a, b, c>> \in Seq(S) /\ u \in Seq(S) /\ Len(u) = 4
    BY <1>0
  <2>2. s \in Seq(S) /\ Len(s) = 4 /\ \A k \in 1 .. 4 : s[k] = u[k]
    BY <2>1
  <2> HIDE DEF s, u
  <2>3. s = u
    BY <2>1, <2>2, SeqEqual
  <2> QED BY <2>3 DEF s, u
<1>3. <<>> \o <<a, b>> = <<a, b>> /\ <<>> \o <<a, b, c>> = <<a, b, c>>
  BY <1>0
<1> QED BY <1>1, <1>2, <1>3

LEMMA MarkedTwo ==
  ASSUME NEW ptr, NEW a, NEW b
  PROVE  Marked(ptr) \o <<a, b>> = IF ptr = 0 THEN <<BlockMap, a, b>> ELSE <<a, b>>
<1>1. /\ <<BlockMap>> \o <<a, b>> = <<BlockMap, a, b>> /\ <<>> \o <<a, b>> = <<a, b>>
      /\ <<BlockMap>> \o <<a, b, b>> = <<BlockMap, a, b, b>>
  BY Prepended
<1>2. Marked(ptr) = IF ptr = 0 THEN <<BlockMap>> ELSE <<>>
  BY DEF Marked
<1> QED BY <1>1, <1>2

LEMMA MarkedThree ==
  ASSUME NEW ptr, NEW a, NEW b, NEW c
  PROVE  /\ ptr = 0 => Marked(ptr) \o <<a, b, c>> = <<BlockMap, a, b, c>>
         /\ ptr # 0 => Marked(ptr) \o <<a, b, c>> = <<a, b, c>>
<1>1. /\ <<BlockMap>> \o <<a, b, c>> = <<BlockMap, a, b, c>>
      /\ <<BlockMap>> \o <<a, b>> = <<BlockMap, a, b>>
      /\ <<>> \o <<a, b, c>> = <<a, b, c>> /\ <<>> \o <<a, b>> = <<a, b>>
  BY Prepended
<1>2. Marked(ptr) = IF ptr = 0 THEN <<BlockMap>> ELSE <<>>
  BY DEF Marked
<1> QED BY <1>1, <1>2

(* The orders in which an iteration writes.                                *)
Ordered(ptr, first, second) ==
    \/ pending' = Marked(ptr) \o <<InodeTable, Block(first), Block(second)>>
    \/ first = second /\ pending' = Marked(ptr) \o <<InodeTable, Block(first)>>
    \/ /\ first = second /\ inodes' = inodes /\ ptr = 0
       /\ pending' = <<BlockMap, Block(first)>>

LEMMA OrderedSafe ==
  ASSUME Inv, Inv', disk = InMemory, disk' = disk,
         NEW p, NEW first, NEW second, Iterates(p, first, second),
         NEW ptr, ptr = Ptr(inodes, blocks, p), Ordered(ptr, first, second)
  PROVE  /\ pending' \in Seq(Regions)
         /\ \A n \in 0 .. Len(pending') :
               SafeImage(View(Done(n)))' /\ Midway(p, View(Done(n))')
         /\ View(Done(Len(pending)))' = InMemory'
<1> DEFINE BM == BlockMap
           IT == InodeTable
           B1 == Block(first)
           B2 == Block(second)
           Good(D) == SafeImage(ViewNext(D)) /\ Midway(p, ViewNext(D))
           Fin(D) == ViewNext(D) = InMemory'
<1>1. /\ first \in Blocks /\ second \in Blocks /\ files' = files
      /\ ptr # 0 => block_map' = block_map
  BY DEF Iterates, Takes, Alloc
<1>2. /\ IT # BM /\ B1 # BM /\ B2 # BM /\ B1 # IT /\ B2 # IT
      /\ {BM, IT, B1, B2} \subseteq Regions
  BY <1>1 DEF Block, BlockMap, InodeTable, Regions
<1>3. ASSUME NEW D, D \subseteq {BM, IT, B1, B2}, D = {} \/ BM \in D \/ ptr # 0,
             IT \in D \/ inodes' = inodes \/ (B1 \notin D /\ B2 \notin D), B2 \in D => B1 \in D
      PROVE  /\ Good(D)
             /\ (BM \in D \/ ptr # 0) /\ (IT \in D \/ inodes' = inodes) /\ B2 \in D => Fin(D)
  <2>1. D = {} \/ BlockMap \in D \/ block_map' = block_map
    BY <1>1, <1>3
  <2>2. /\ SafeImage(ViewNext(D)) /\ Midway(p, ViewNext(D))
        /\ /\ BlockMap \in D \/ block_map' = block_map
           /\ InodeTable \in D \/ inodes' = inodes
           /\ Block(second) \in D
           => ViewNext(D) = InMemory'
    BY <1>3, <2>1, ViewSafe
  <2> QED BY <1>1, <2>2
<1>4. \/ ptr = 0 /\ pending' = <<BM, IT, B1, B2>>
      \/ ptr = 0 /\ first = second /\ pending' = <<BM, IT, B1>>
      \/ ptr = 0 /\ first = second /\ inodes' = inodes /\ pending' = <<BM, B1>>
      \/ ptr # 0 /\ pending' = <<IT, B1, B2>>
      \/ ptr # 0 /\ first = second /\ pending' = <<IT, B1>>
  <2>1. Marked(ptr) \o <<IT, B1>> = IF ptr = 0 THEN <<BM, IT, B1>> ELSE <<IT, B1>>
    <3> HIDE DEF IT, B1
    <3> QED BY MarkedTwo
  <2>2. /\ ptr = 0 => Marked(ptr) \o <<IT, B1, B2>> = <<BM, IT, B1, B2>>
        /\ ptr # 0 => Marked(ptr) \o <<IT, B1, B2>> = <<IT, B1, B2>>
    <3> HIDE DEF IT, B1, B2
    <3> QED BY MarkedThree
  <2> QED BY <2>1, <2>2 DEF Ordered
<1>e. first = second => B1 = B2
  OBVIOUS
<1> HIDE DEF BM, IT, B1, B2, Good, Fin
<1> DEFINE Pre(n) == {pending'[k] : k \in 1 .. n}
<1>5. /\ pending' \in Seq(Regions) /\ Len(pending') \in Nat
      /\ \A n \in 0 .. Len(pending') : Good(Pre(n))
      /\ Fin(Pre(Len(pending')))
  <2>1. CASE ptr = 0 /\ pending' = <<BM, IT, B1, B2>>
    <3>1. /\ Pre(0) = {}
          /\ Pre(1) = {BM}
          /\ Pre(2) = {BM, IT}
          /\ Pre(3) = {BM, IT, B1}
          /\ Pre(4) = {BM, IT, B1, B2}
      BY <2>1, Prefixes
    <3>2. Good({})
      BY <1>2, <1>3, <2>1
    <3>3. Good({BM})
      BY <1>2, <1>3, <2>1
    <3>4. Good({BM, IT})
      BY <1>2, <1>3, <2>1
    <3>5. Good({BM, IT, B1})
      BY <1>2, <1>3, <2>1
    <3>6. Good({BM, IT, B1, B2}) /\ Fin({BM, IT, B1, B2})
      BY <1>2, <1>3, <2>1
    <3>10. Len(pending') = 4 /\ pending' \in Seq(Regions)
      BY <1>2, <2>1
    <3> HIDE DEF Pre
    <3>11. ASSUME NEW n \in 0 .. 4 PROVE Good(Pre(n))
      <4>1. n = 0 \/ n = 1 \/ n = 2 \/ n = 3 \/ n = 4
        OBVIOUS
      <4> QED BY <4>1, <3>1, <3>2, <3>3, <3>4, <3>5, <3>6
    <3>12. \A n \in 0 .. Len(pending') : Good(Pre(n))
      <4> HIDE DEF Good
      <4> QED BY <3>10, <3>11
    <3>13. Fin(Pre(Len(pending')))
      BY <3>1, <3>6, <3>10
    <3> QED BY <3>10, <3>12, <3>13
  <2>2. CASE ptr = 0 /\ first = second /\ pending' = <<BM, IT, B1>>
    <3>1. /\ Pre(0) = {}
          /\ Pre(1) = {BM}
          /\ Pre(2) = {BM, IT}
          /\ Pre(3) = {BM, IT, B1}
      BY <2>2, Prefixes
    <3>2. Good({})
      BY <1>2, <1>3, <2>2, <1>e
    <3>3. Good({BM})
      BY <1>2, <1>3, <2>2, <1>e
    <3>4. Good({BM, IT})
      BY <1>2, <1>3, <2>2, <1>e
    <3>5. Good({BM, IT, B1}) /\ Fin({BM, IT, B1})
      BY <1>2, <1>3, <2>2, <1>e
    <3>10. Len(pending') = 3 /\ pending' \in Seq(Regions)
      BY <1>2, <2>2
    <3> HIDE DEF Pre
    <3>11. ASSUME NEW n \in 0 .. 3 PROVE Good(Pre(n))
      <4>1. n = 0 \/ n = 1 \/ n = 2 \/ n = 3
        OBVIOUS
      <4> QED BY <4>1, <3>1, <3>2, <3>3, <3>4, <3>5
    <3>12. \A n \in 0 .. Len(pending') : Good(Pre(n))
      <4> HIDE DEF Good
      <4> QED BY <3>10, <3>11
    <3>13. Fin(Pre(Len(pending')))
      BY <3>1, <3>5, <3>10
    <3> QED BY <3>10, <3>12, <3>13
  <2>3. CASE ptr = 0 /\ first = second /\ inodes' = inodes /\ pending' = <<BM, B1>>
    <3>1. /\ Pre(0) = {}
          /\ Pre(1) = {BM}
          /\ Pre(2) = {BM, B1}
      BY <2>3, Prefixes
    <3>2. Good({})
      BY <1>2, <1>3, <2>3, <1>e
    <3>3. Good({BM})
      BY <1>2, <1>3, <2>3, <1>e
    <3>4. Good({BM, B1}) /\ Fin({BM, B1})
      BY <1>2, <1>3, <2>3, <1>e
    <3>10. Len(pending') = 2 /\ pending' \in Seq(Regions)
      BY <1>2, <2>3
    <3> HIDE DEF Pre
    <3>11. ASSUME NEW n \in 0 .. 2 PROVE Good(Pre(n))
      <4>1. n = 0 \/ n = 1 \/ n = 2
        OBVIOUS
      <4> QED BY <4>1, <3>1, <3>2, <3>3, <3>4
    <3>12. \A n \in 0 .. Len(pending') : Good(Pre(n))
      <4> HIDE DEF Good
      <4> QED BY <3>10, <3>11
    <3>13. Fin(Pre(Len(pending')))
      BY <3>1, <3>4, <3>10
    <3> QED BY <3>10, <3>12, <3>13
  <2>4. CASE ptr # 0 /\ pending' = <<IT, B1, B2>>
    <3>1. /\ Pre(0) = {}
          /\ Pre(1) = {IT}
          /\ Pre(2) = {IT, B1}
          /\ Pre(3) = {IT, B1, B2}
      BY <2>4, Prefixes
    <3>2. Good({})
      BY <1>2, <1>3, <2>4
    <3>3. Good({IT})
      BY <1>2, <1>3, <2>4
    <3>4. Good({IT, B1})
      BY <1>2, <1>3, <2>4
    <3>5. Good({IT, B1, B2}) /\ Fin({IT, B1, B2})
      BY <1>2, <1>3, <2>4
    <3>10. Len(pending') = 3 /\ pending' \in Seq(Regions)
      BY <1>2, <2>4
    <3> HIDE DEF Pre
    <3>11. ASSUME NEW n \in 0 .. 3 PROVE Good(Pre(n))
      <4>1. n = 0 \/ n = 1 \/ n = 2 \/ n = 3
        OBVIOUS
      <4> QED BY <4>1, <3>1, <3>2, <3>3, <3>4, <3>5
    <3>12. \A n \in 0 .. Len(pending') : Good(Pre(n))
      <4> HIDE DEF Good
      <4> QED BY <3>10, <3>11
    <3>13. Fin(Pre(Len(pending')))
      BY <3>1, <3>5, <3>10
    <3> QED BY <3>10, <3>12, <3>13
  <2>5. CASE ptr # 0 /\ first = second /\ pending' = <<IT, B1>>
    <3>1. /\ Pre(0) = {}
          /\ Pre(1) = {IT}
          /\ Pre(2) = {IT, B1}
      BY <2>5, Prefixes
    <3>2. Good({})
      BY <1>2, <1>3, <2>5, <1>e
    <3>3. Good({IT})
      BY <1>2, <1>3, <2>5, <1>e
    <3>4. Good({IT, B1}) /\ Fin({IT, B1})
      BY <1>2, <1>3, <2>5, <1>e
    <3>10. Len(pending') = 2 /\ pending' \in Seq(Regions)
      BY <1>2, <2>5
    <3> HIDE DEF Pre
    <3>11. ASSUME NEW n \in 0 .. 2 PROVE Good(Pre(n))
      <4>1. n = 0 \/ n = 1 \/ n = 2
        OBVIOUS
      <4> QED BY <4>1, <3>1, <3>2, <3>3, <3>4
    <3>12. \A n \in 0 .. Len(pending') : Good(Pre(n))
      <4> HIDE DEF Good
      <4> QED BY <3>10, <3>11
    <3>13. Fin(Pre(Len(pending')))
      BY <3>1, <3>4, <3>10
    <3> QED BY <3>10, <3>12, <3>13
  <2> QED BY <1>4, <2>1, <2>2, <2>3, <2>4, <2>5
<1>6. \A n : View(Done(n))' = ViewNext(Pre(n))
  BY DEF View, ViewNext, Done, InMemory
<1>7. \A n \in 0 .. Len(pending') : SafeImage(View(Done(n)))' /\ Midway(p, View(Done(n))')
  <2> HIDE DEF Pre
  <2>1. ASSUME NEW n PROVE SafeImage(View(Done(n)))' <=> SafeImage(View(Done(n))')
    BY <1>1 DEF SafeImage, Safe
  <2> QED BY <1>5, <1>6, <2>1 DEF Good
<1>8. View(Done(Len(pending)))' = InMemory'
  <2>1. View(Done(Len(pending)))' = ViewNext(Pre(Len(pending')))
    BY DEF View, ViewNext, Done, InMemory
  <2> HIDE DEF Pre
  <2> QED BY <1>5, <2>1 DEF Fin
<1> QED BY <1>5, <1>7, <1>8

-----------------------------------------------------------------------------
(* Between two iterations the image is the memory's.                       *)
LEMMA Settled ==
  ASSUME CrashInv, pending = <<>>
  PROVE  disk = InMemory /\ View({}) = disk
<1>1. disk \in Images
  BY DEF CrashInv
<1>2. View({}) = disk
  BY <1>1 DEF View, Images
<1>3. Done(Len(pending)) = {}
  <2>1. Len(pending) = 0
    OBVIOUS
  <2>2. 1 .. 0 = {}
    OBVIOUS
  <2> QED BY <2>1, <2>2 DEF Done
<1> QED BY <1>2, <1>3 DEF CrashInv

(* A step that writes nothing, and changes nothing that is written.        *)
LEMMA NoWrites ==
  ASSUME CrashInv, Inv', pending = <<>>, pending' = <<>>, disk' = disk,
         UNCHANGED <<block_map, inodes, blocks>>
  PROVE  CrashInv'
<1>1. disk = InMemory /\ disk \in Images
  BY Settled DEF CrashInv
<1>2. disk' = InMemory' /\ disk' \in Images
  BY <1>1 DEF InMemory
<1>3. SafeImage(disk)'
  <2>1. Safe(block_map, inodes, blocks)'
    BY MemorySafe, PTL
  <2> QED BY <1>2, <2>1 DEF SafeImage, InMemory
<1>4. View({})' = disk'
  BY <1>2 DEF View, Images
<1>5. Len(pending') = 0 /\ (\A n \in 0 .. 0 : n = 0) /\ pending' \in Seq(Regions)
  OBVIOUS
<1>6. Done(0)' = {} /\ Done(Len(pending))' = {}
  BY <1>5 DEF Done
<1>7. View(Done(Len(pending)))' = InMemory' /\ View(Done(0))' = disk'
  BY <1>2, <1>4, <1>6 DEF View
<1>8. \A n \in 0 .. Len(pending') : SafeImage(View(Done(n)))'
  BY <1>3, <1>5, <1>7
<1> QED BY <1>2, <1>5, <1>7, <1>8 DEF CrashInv

(* An iteration that works on a place.                                     *)
LEMMA IterationCrash ==
  ASSUME CrashInv, Inv', pending = <<>>, disk' = disk,
         NEW p, NEW first, NEW second, Iterates(p, first, second),
         NEW ptr, ptr = Ptr(inodes, blocks, p), Ordered(ptr, first, second)
  PROVE  CrashInv' /\ \A n \in 0 .. Len(pending') : Midway(p, View(Done(n))')
<1>1. Inv /\ disk = InMemory /\ disk' \in Images
  BY Settled DEF CrashInv
<1> QED BY <1>1, OrderedSafe DEF CrashInv

(* An iteration that finds no block to work on.                            *)
LEMMA NoIteration ==
  ASSUME NEW ptr, NoSpace(ptr) \/ Abort(ptr)
  PROVE  UNCHANGED <<block_map, inodes, blocks>>
BY DEF NoSpace, Abort

(* An iteration writes nothing, or it works on a place, leaves the data at *)
(* all others and says which block of which file it fills.                 *)
Idles == pending' = <<>> /\ UNCHANGED <<block_map, inodes, blocks>>

Works(p, first, second) ==
    /\ Iterates(p, first, second) /\ Ordered(Ptr(inodes, blocks, p), first, second)
    /\ Keeps(p) /\ (p \in DataPlaces(files) => chunk' = <<p[1], Number(p)>>)
    /\ \A f \in files :
          inodes'[f].size - inodes[f].size
             \in 0 .. (IF chunk'[1] = f THEN ADDR_PER_BLOCK ELSE 0)

LEMMA FillWorks ==
  ASSUME Inv, wr.stage \in Active, NEW p, NEW first, NEW second, Iterates(p, first, second),
         Ordered(Ptr(inodes, blocks, p), first, second), Fills(p),
         p[1] = wr.f, chunk' = <<wr.f, Number(p)>>
  PROVE  Works(p, first, second)
<1> DEFINE ptr == Ptr(inodes, blocks, p)
           c   == Chunk(ptr)
<1>1. Typed /\ Keeps(p) /\ Grows(ptr)
  BY DEF Inv, Fills
<1>2. c \in Nat /\ c <= ADDR_PER_BLOCK
  <2>1. Start(ptr) \in Words /\ Chunk(ptr) \in 1 .. wr.len /\ Start(ptr) + Chunk(ptr) <= ADDR_PER_BLOCK
    BY <1>1, FillBounds
  <2>2. wr.len \in Nat
    BY <1>1 DEF Typed, TypeOK, WriteCall
  <2> HIDE DEF ptr
  <2>3. Chunk(ptr) \in 1 .. ADDR_PER_BLOCK
    BY <2>1, <2>2, Constants DEF Words
  <2> QED BY <2>3
<1>3. ASSUME NEW f \in files
      PROVE  inodes'[f].size - inodes[f].size
                \in 0 .. (IF chunk'[1] = f THEN ADDR_PER_BLOCK ELSE 0)
  <2>1. inodes'[f].size = IF f = wr.f THEN inodes[f].size + c ELSE inodes[f].size
    BY <1>1 DEF Grows
  <2>2. inodes[f].size \in Nat
    BY <1>1 DEF Typed, TypeOK, Inode
  <2> HIDE DEF c
  <2> QED BY <1>2, <2>1, <2>2
<1> QED BY <1>1, <1>3 DEF Works

LEMMA OpenWorks ==
  ASSUME Inv, NEW p, NEW first, NEW second, Iterates(p, first, second),
         Ordered(Ptr(inodes, blocks, p), first, second), Keeps(p), p \notin DataPlaces(files),
         \A f \in files : inodes'[f].size = inodes[f].size
  PROVE  Works(p, first, second)
<1>1. ASSUME NEW f \in files
      PROVE  inodes'[f].size - inodes[f].size
                \in 0 .. (IF chunk'[1] = f THEN ADDR_PER_BLOCK ELSE 0)
  <2>1. inodes[f].size \in Nat
    BY DEF Inv, Typed, TypeOK, Inode
  <2> QED BY <2>1, Constants
<1> QED BY <1>1 DEF Works

LEMMA BeginWorks ==
  ASSUME Inv, Begin
  PROVE  Idles \/ \E p, first, second : Works(p, first, second)
<1>0. Inv /\ Typed /\ MapSound /\ Linked
  BY MemorySafe DEF Inv
<1> DEFINE inode == inodes[wr.f]
           outer == blocks[inode.indir_2][wr.i]
           below == blocks[inode.indir_1][wr.i]
           last  == blocks[outer][wr.j]
<1>1. CASE write_direct /\ Iteration(inode.direct[wr.i], DirectWrites(inode.direct[wr.i]), wr.i)
  <2> DEFINE ptr == inode.direct[wr.i]
             p   == <<wr.f, "direct", wr.i, 0>>
  <2>1. CASE ~Usable(ptr)
    BY <1>1, <2>1, NoIteration DEF Iteration, write_direct, Idles
  <2>2. CASE Usable(ptr)
    <3>1. Iterates(p, Target(ptr), Target(ptr)) /\ ptr = Ptr(inodes, blocks, p)
      BY <1>0, <1>1, <2>2, DirectIterates
    <3>2. Fills(p)
      BY <1>0, <1>1, <2>2, UsableSpace, DirectFills
    <3>3. wr.stage \in Active /\ wr.i \in Nat
      BY <1>0, <1>1, Constants DEF write_direct, Active, Stages, Typed, TypeOK, WriteCall
    <3>4. /\ pending' = DirectWrites(ptr) /\ chunk' = <<wr.f, Number(p)>>
          /\ p[1] = wr.f
      BY <1>1, <2>2, <3>3 DEF Iteration, Number
    <3>5. Ordered(ptr, Target(ptr), Target(ptr))
      BY <3>4 DEF Ordered, DirectWrites
    <3> HIDE DEF p, ptr
    <3> QED BY <1>0, <3>1, <3>2, <3>3, <3>4, <3>5, FillWorks
  <2> QED BY <2>1, <2>2
<1>2. CASE write_table1 /\ Iteration(inodes[wr.f].indir_1, TableWrites(inodes[wr.f].indir_1), -1)
  <2> DEFINE ptr == inodes[wr.f].indir_1
             p   == <<wr.f, "indir_1", 0, 0>>
  <2>1. CASE ~Usable(ptr)
    BY <1>2, <2>1, NoIteration DEF Iteration, write_table1, Idles
  <2>2. CASE Usable(ptr)
    <3>1. /\ Iterates(p, Target(ptr), Target(ptr)) /\ ptr = Ptr(inodes, blocks, p)
          /\ ptr # 0 => UNCHANGED <<block_map, inodes, blocks>>
      BY <1>0, <1>2, <2>2, TableIterates
    <3>2. Keeps(p) /\ \A f \in files : inodes'[f].size = inodes[f].size
      BY <1>0, <1>2, <2>2, UsableSpace, Table1Opens
    <3>3. pending' = TableWrites(ptr) /\ p \notin DataPlaces(files)
      BY <1>2, <2>2 DEF Iteration, DataPlaces
    <3> HIDE DEF p, ptr
    <3>4. CASE ptr = 0
      <4>1. Marked(ptr) \o <<InodeTable, Block(Target(ptr))>> =
               <<BlockMap, InodeTable, Block(Target(ptr))>>
        BY <3>4, MarkedTwo
      <4>2. Ordered(ptr, Target(ptr), Target(ptr))
        BY <3>3, <3>4, <4>1 DEF Ordered, TableWrites
      <4> QED BY <1>0, <3>1, <3>2, <3>3, <4>2, OpenWorks
    <3>5. CASE ptr # 0
      BY <3>1, <3>3, <3>5 DEF TableWrites, Idles
    <3> QED BY <3>4, <3>5
  <2> QED BY <2>1, <2>2
<1>3. CASE write_level1 /\ Iteration(below, Level1Writes(inode.indir_1, below), N_DIRECT + wr.i)
  <2> DEFINE p == <<wr.f, "level1", wr.i, 0>>
             table == inode.indir_1
  <2>1. CASE ~Usable(below)
    BY <1>3, <2>1, NoIteration, Zenon DEF Iteration, write_level1, Idles
  <2>2. CASE Usable(below)
    <3>1. Iterates(p, table, Target(below)) /\ below = Ptr(inodes, blocks, p)
      BY <1>0, <1>3, <2>2, Level1Iterates
    <3>2. Fills(p)
      BY <1>0, <1>3, <2>2, UsableSpace, Level1Fills
    <3>3. wr.stage \in Active /\ N_DIRECT + wr.i \in Nat
      <4>1. wr.stage = "level1" /\ wr.stage \in Active
        BY <1>3, Zenon DEF write_level1, Active, Stages
      <4>2. wr.i \in Words
        BY <1>0, <4>1, InCall
      <4>3. wr.i \in Nat /\ N_DIRECT \in Nat
        BY <4>2, Constants
      <4>4. N_DIRECT + wr.i \in Nat
        BY <4>3
      <4> QED BY <4>1, <4>4
    <3>4. /\ pending' = Level1Writes(table, below) /\ chunk' = <<wr.f, Number(p)>>
          /\ p[1] = wr.f
      BY <1>3, <2>2, <3>3 DEF Iteration, Number
    <3> HIDE DEF table, p, below
    <3>5. Ordered(below, table, Target(below))
      BY <3>4 DEF Ordered, Level1Writes
    <3> QED BY <1>0, <3>1, <3>2, <3>3, <3>4, <3>5, FillWorks
  <2> QED BY <2>1, <2>2
<1>4. CASE write_table2 /\ Iteration(inodes[wr.f].indir_2, TableWrites(inodes[wr.f].indir_2), -1)
  <2> DEFINE ptr == inodes[wr.f].indir_2
             p   == <<wr.f, "indir_2", 0, 0>>
  <2>1. CASE ~Usable(ptr)
    BY <1>4, <2>1, NoIteration DEF Iteration, write_table2, Idles
  <2>2. CASE Usable(ptr)
    <3>1. /\ Iterates(p, Target(ptr), Target(ptr)) /\ ptr = Ptr(inodes, blocks, p)
          /\ ptr # 0 => UNCHANGED <<block_map, inodes, blocks>>
      BY <1>0, <1>4, <2>2, Table2Iterates
    <3>2. Keeps(p) /\ \A f \in files : inodes'[f].size = inodes[f].size
      BY <1>0, <1>4, <2>2, UsableSpace, Table2Opens
    <3>3. pending' = TableWrites(ptr) /\ p \notin DataPlaces(files)
      BY <1>4, <2>2 DEF Iteration, DataPlaces
    <3> HIDE DEF p, ptr
    <3>4. CASE ptr = 0
      <4>1. Marked(ptr) \o <<InodeTable, Block(Target(ptr))>> =
               <<BlockMap, InodeTable, Block(Target(ptr))>>
        BY <3>4, MarkedTwo
      <4>2. Ordered(ptr, Target(ptr), Target(ptr))
        BY <3>3, <3>4, <4>1 DEF Ordered, TableWrites
      <4> QED BY <1>0, <3>1, <3>2, <3>3, <4>2, OpenWorks
    <3>5. CASE ptr # 0
      BY <3>1, <3>3, <3>5 DEF TableWrites, Idles
    <3> QED BY <3>4, <3>5
  <2> QED BY <2>1, <2>2
<1>5. CASE write_outer /\ Iteration(outer, OuterWrites(inode.indir_2, outer), -1)
  <2> DEFINE p == <<wr.f, "outer", wr.i, 0>>
             table == inode.indir_2
  <2>1. CASE ~Usable(outer)
    BY <1>5, <2>1, NoIteration DEF Iteration, write_outer, Idles
  <2>2. CASE Usable(outer)
    <3>1. /\ Iterates(p, table, table) /\ outer = Ptr(inodes, blocks, p)
          /\ inodes' = inodes
          /\ outer # 0 => UNCHANGED <<block_map, inodes, blocks>>
      BY <1>0, <1>5, <2>2, OuterIterates
    <3>2. Keeps(p) /\ \A f \in files : inodes'[f].size = inodes[f].size
      BY <1>0, <1>5, <2>2, UsableSpace, OuterOpens
    <3>3. pending' = OuterWrites(table, outer) /\ p \notin DataPlaces(files)
      BY <1>5, <2>2 DEF Iteration, DataPlaces
    <3> HIDE DEF p, table, outer
    <3>4. CASE outer = 0
      <4>1. Ordered(outer, table, table)
        BY <3>1, <3>3, <3>4 DEF Ordered, OuterWrites
      <4> QED BY <1>0, <3>1, <3>2, <3>3, <4>1, OpenWorks
    <3>5. CASE outer # 0
      BY <3>1, <3>3, <3>5 DEF OuterWrites, Idles
    <3> QED BY <3>4, <3>5
  <2> QED BY <2>1, <2>2
<1>6. CASE /\ write_inner
           /\ Iteration(last, InnerWrites(outer, last),
                        INDIRECT_BOUND + wr.i * ADDR_PER_BLOCK + wr.j)
  <2> DEFINE p == <<wr.f, "inner", wr.i, wr.j>>
             q == last
  <2>1. CASE ~Usable(last)
    BY <1>6, <2>1, NoIteration, Zenon DEF Iteration, write_inner, Idles
  <2>2. CASE Usable(last)
    <3>0. /\ write_inner /\ outer = blocks[inodes[wr.f].indir_2][wr.i]
          /\ q = blocks[outer][wr.j] /\ Usable(q)
      BY <1>6, <2>2, Zenon
    <3>1. Iterates(p, Target(q), outer) /\ q = Ptr(inodes, blocks, p)
      <4> HIDE DEF outer, q
      <4> QED BY <1>0, <3>0, InnerIterates, Zenon
    <3>2. Fills(p)
      BY <1>0, <1>6, <2>2, UsableSpace, InnerFills, Zenon
    <3>3. wr.stage \in Active /\ INDIRECT_BOUND + wr.i * ADDR_PER_BLOCK + wr.j \in Nat
      <4>1. wr.stage = "inner" /\ wr.stage \in Active
        BY <1>6, Zenon DEF write_inner, Active, Stages
      <4>2. wr.i \in Words /\ wr.j \in Words
        BY <1>0, <4>1, InCall
      <4> QED BY <4>1, <4>2, InnerNumbers
    <3>4. /\ pending' = InnerWrites(outer, q) /\ chunk' = <<wr.f, Number(p)>>
          /\ p[1] = wr.f
      <4>1. Number(p) = INDIRECT_BOUND + wr.i * ADDR_PER_BLOCK + wr.j
        BY DEF Number
      <4>2. PICK n \in Nat : n = INDIRECT_BOUND + wr.i * ADDR_PER_BLOCK + wr.j
        BY <3>3
      <4>3. Iteration(last, InnerWrites(outer, last), n)
        BY <1>6, <4>2, Zenon
      <4>4. n >= 0
        OBVIOUS
      <4>5. pending' = InnerWrites(outer, q)
        BY <2>2, <4>3, Zenon DEF Iteration
      <4>6. chunk' = <<wr.f, n>>
        BY <4>3, <4>4, Zenon DEF Iteration
      <4> QED BY <4>1, <4>2, <4>5, <4>6
    <3> HIDE DEF outer, p, q
    <3>5. Ordered(q, Target(q), outer)
      BY <3>4 DEF Ordered, InnerWrites
    <3> QED BY <1>0, <3>1, <3>2, <3>3, <3>4, <3>5, FillWorks
  <2> QED BY <2>1, <2>2
<1>7. CASE write_return /\ pending' = <<>> /\ chunk' = NoChunk
  BY <1>7 DEF write_return, Idles
<1> QED BY <1>1, <1>2, <1>3, <1>4, <1>5, <1>6, <1>7 DEF Begin

LEMMA BeginCrash ==
  ASSUME CrashInv, Inv', pending = <<>>, Begin, disk' = disk
  PROVE  CrashInv'
<1>1. Inv
  BY DEF CrashInv
<1>2. CASE Idles
  BY <1>2, NoWrites DEF Idles
<1>3. ASSUME NEW p, NEW first, NEW second, Works(p, first, second)
      PROVE  CrashInv'
  <2>1. Iterates(p, first, second) /\ Ordered(Ptr(inodes, blocks, p), first, second)
    BY <1>3 DEF Works
  <2> QED BY <2>1, IterationCrash
<1> QED BY <1>1, <1>2, <1>3, BeginWorks

(* The entry of fs_write changes its locals alone.                         *)
LEMMA EntryKeeps ==
  ASSUME Write
  PROVE  UNCHANGED <<block_map, inodes, blocks, files>>
<1>1. ASSUME NEW f, NEW len, NEW offset, fs_write(f, len, offset)
      PROVE  UNCHANGED <<block_map, inodes, blocks, files>>
  BY <1>1 DEF fs_write
<1>2. PICK f, len, offset : fs_write(f, len, offset)
  <2> HIDE DEF fs_write
  <2> QED BY DEF Write
<1> QED BY <1>1, <1>2

LEMMA StepCrash ==
  ASSUME CrashInv, Step
  PROVE  CrashInv'
<1>1. Inv /\ Begin /\ pending = <<>> /\ disk' = disk
  BY DEF CrashInv, Step
<1>2. WriteStep
  BY <1>1 DEF Begin, WriteStep
<1>3. Inv'
  BY <1>1, <1>2, WrittenOnly, NextInv DEF Next
<1> QED BY <1>1, <1>3, BeginCrash

LEMMA CallCrash ==
  ASSUME CrashInv, Call
  PROVE  CrashInv'
<1>1. Inv /\ Write /\ pending = <<>> /\ pending' = <<>> /\ disk' = disk
  BY DEF CrashInv, Call
<1>2. Inv'
  BY <1>1, WrittenOnly, NextInv DEF Next
<1> QED BY <1>1, <1>2, EntryKeeps, NoWrites

(* A write makes the image what it was said to be after that write.        *)
LEMMA WriteBackViews ==
  ASSUME CrashInv, WriteBack
  PROVE  /\ UNCHANGED <<block_map, inodes, blocks, files, wr, chunk>>
         /\ disk' \in Images /\ pending' \in Seq(Regions)
         /\ Len(pending') \in Nat /\ Len(pending) = Len(pending') + 1
         /\ \A n \in 0 .. Len(pending') :
               View(Done(n))' = View(Done(n + 1)) /\ n + 1 \in 0 .. Len(pending)
<1>1. /\ Inv /\ disk \in Images /\ pending \in Seq(Regions) /\ pending # <<>>
      /\ disk' = Written(Head(pending)) /\ pending' = Tail(pending)
      /\ UNCHANGED <<block_map, inodes, blocks, files, wr, chunk>>
  BY DEF CrashInv, WriteBack, memory, vars
<1>3. /\ inodes \in [Files -> Inode] /\ blocks \in [Blocks -> [Words -> Nat]]
      /\ block_map \subseteq Blocks
  BY <1>1, MemorySafe DEF Safe, Shape
<1> DEFINE w == Head(pending)
<1>4. w \in Regions /\ pending' \in Seq(Regions) /\ Len(pending') \in Nat
      /\ Len(pending) = Len(pending') + 1
      /\ pending[1] = w
      /\ \A k \in 1 .. Len(pending') : pending'[k] = pending[k + 1]
  BY <1>1, HeadTailProperties
<1> HIDE DEF w
<1>5. \/ w = BlockMap /\ disk' = [disk EXCEPT !.block_map = block_map]
      \/ w = InodeTable /\ disk' = [disk EXCEPT !.inodes = inodes]
      \/ \E b \in Blocks : w = Block(b) /\ disk' = [disk EXCEPT !.blocks[b] = blocks[b]]
  <2>1. disk' = Written(w) /\ BlockMap # InodeTable
    BY <1>1 DEF w, BlockMap, InodeTable
  <2>2. CASE w = BlockMap
    BY <2>1, <2>2 DEF Written
  <2>3. CASE w = InodeTable
    BY <2>1, <2>3 DEF Written
  <2>4. ASSUME NEW b \in Blocks, w = Block(b)
        PROVE  disk' = [disk EXCEPT !.blocks[b] = blocks[b]]
    <3>1. w[2] = b /\ w # BlockMap /\ w # InodeTable
      BY <2>4 DEF Block, BlockMap, InodeTable
    <3> QED BY <2>1, <3>1 DEF Written
  <2> QED BY <1>4, <2>2, <2>3, <2>4 DEF Regions
<1>6. disk' \in Images
  <2>1. CASE disk' = [disk EXCEPT !.block_map = block_map]
    BY <1>1, <1>3, <2>1 DEF Images
  <2>2. CASE disk' = [disk EXCEPT !.inodes = inodes]
    BY <1>1, <1>3, <2>2 DEF Images
  <2>3. ASSUME NEW b \in Blocks, disk' = [disk EXCEPT !.blocks[b] = blocks[b]]
        PROVE  disk' \in Images
    <3>1. [disk.blocks EXCEPT ![b] = blocks[b]] \in [Blocks -> [Words -> Nat]]
      BY <1>1, <1>3 DEF Images
    <3>2. disk' = [disk EXCEPT !.blocks = [disk.blocks EXCEPT ![b] = blocks[b]]]
      BY <2>3
    <3> QED BY <1>1, <3>1, <3>2 DEF Images
  <2> QED BY <1>5, <2>1, <2>2, <2>3
<1>7. ASSUME NEW n \in 0 .. Len(pending')
      PROVE  /\ View(Done(n))' = View(Done(n + 1))
             /\ n + 1 \in 0 .. Len(pending)
  <2> DEFINE D == {pending'[k] : k \in 1 .. n}
             E == {pending[k] : k \in 1 .. n + 1}
  <2>1. E = D \cup {w}
    <3>0. n \in Nat /\ \A k \in 1 .. n : k \in 1 .. Len(pending')
      BY <1>4
    <3>1. \A k \in 1 .. n : pending'[k] = pending[k + 1] /\ k + 1 \in 1 .. n + 1
      BY <1>4, <3>0
    <3>2. ASSUME NEW x \in E PROVE x \in D \cup {w}
      <4>1. PICK k \in 1 .. n + 1 : x = pending[k]
        OBVIOUS
      <4>2. CASE k = 1
        BY <1>4, <4>1, <4>2
      <4>3. CASE k # 1
        <5>1. k - 1 \in 1 .. n /\ k = (k - 1) + 1
          BY <3>0, <4>3
        <5>2. x = pending'[k - 1]
          BY <3>1, <4>1, <5>1
        <5> QED BY <5>1, <5>2
      <4> QED BY <4>2, <4>3
    <3>3. D \subseteq E
      BY <3>1
    <3>4. w \in E
      <4>1. 1 \in 1 .. n + 1
        BY <3>0
      <4> QED BY <1>4, <4>1
    <3> QED BY <3>2, <3>3, <3>4
  <2>2. View(Done(n))' = [block_map |-> IF BlockMap \in D THEN block_map ELSE disk'.block_map,
                          inodes    |-> IF InodeTable \in D THEN inodes ELSE disk'.inodes,
                          blocks    |-> [b \in Blocks |-> IF Block(b) \in D THEN blocks[b]
                                                          ELSE disk'.blocks[b]]]
    BY <1>1 DEF View, Done
  <2>3. View(Done(n + 1)) =
            [block_map |-> IF BlockMap \in E THEN block_map ELSE disk.block_map,
             inodes    |-> IF InodeTable \in E THEN inodes ELSE disk.inodes,
             blocks    |-> [b \in Blocks |-> IF Block(b) \in E THEN blocks[b] ELSE disk.blocks[b]]]
    BY DEF View, Done
  <2> HIDE DEF D, E
  <2>4. /\ BlockMap # InodeTable
        /\ \A b \in Blocks : Block(b) # BlockMap /\ Block(b) # InodeTable
        /\ \A b, c \in Blocks : Block(b) = Block(c) => b = c
    BY DEF Block, BlockMap, InodeTable
  <2>5. (IF BlockMap \in D THEN block_map ELSE disk'.block_map)
           = IF BlockMap \in E THEN block_map ELSE disk.block_map
    BY <1>1, <1>5, <2>1, <2>4 DEF Images
  <2>6. (IF InodeTable \in D THEN inodes ELSE disk'.inodes)
           = IF InodeTable \in E THEN inodes ELSE disk.inodes
    BY <1>1, <1>5, <2>1, <2>4 DEF Images
  <2>7. ASSUME NEW b \in Blocks
        PROVE  (IF Block(b) \in D THEN blocks[b] ELSE disk'.blocks[b])
                  = IF Block(b) \in E THEN blocks[b] ELSE disk.blocks[b]
    BY <1>1, <1>5, <2>1, <2>4, ZenonT(30) DEF Images
  <2>8. n + 1 \in 0 .. Len(pending)
    BY <1>4
  <2> QED BY <2>2, <2>3, <2>5, <2>6, <2>7, <2>8
<1> QED BY <1>1, <1>4, <1>6, <1>7

LEMMA WriteBackCrash ==
  ASSUME CrashInv, WriteBack
  PROVE  CrashInv'
<1>1. Inv /\ UNCHANGED <<block_map, inodes, blocks, files, wr>>
  BY WriteBackViews DEF CrashInv
<1>2. Inv'
  <2>1. UNCHANGED vars
    BY <1>1 DEF vars
  <2> QED BY <1>1, <2>1, WrittenOnly, NextInv
<1>4. disk' \in Images /\ pending' \in Seq(Regions) /\ Len(pending') \in Nat
      /\ Len(pending) = Len(pending') + 1
  BY WriteBackViews
<1>7. \A n \in 0 .. Len(pending') :
         View(Done(n))' = View(Done(n + 1)) /\ n + 1 \in 0 .. Len(pending)
  BY WriteBackViews
<1>8. \A n \in 0 .. Len(pending') : SafeImage(View(Done(n)))'
  <2> SUFFICES ASSUME NEW n \in 0 .. Len(pending') PROVE SafeImage(View(Done(n)))'
    OBVIOUS
  <2>1. SafeImage(View(Done(n + 1))) /\ View(Done(n))' = View(Done(n + 1))
    BY <1>7 DEF CrashInv
  <2>2. SafeImage(View(Done(n)))' <=> SafeImage(View(Done(n))')
    BY <1>1 DEF SafeImage, Safe
  <2> QED BY <2>1, <2>2
<1>9. View(Done(Len(pending)))' = InMemory'
  <2>1. Len(pending') \in 0 .. Len(pending')
    BY <1>4
  <2>2. View(Done(Len(pending)))' = View(Done(Len(pending') + 1))
    <3>1. View(Done(Len(pending)))' =
             [block_map |-> IF BlockMap \in Done(Len(pending))' THEN block_map' ELSE disk'.block_map,
              inodes    |-> IF InodeTable \in Done(Len(pending))' THEN inodes' ELSE disk'.inodes,
              blocks    |-> [b \in Blocks |-> IF Block(b) \in Done(Len(pending))' THEN blocks'[b]
                                              ELSE disk'.blocks[b]]]
      BY DEF View
    <3>2. PICK n \in 0 .. Len(pending') : n = Len(pending')
      BY <2>1
    <3>3. Done(Len(pending))' = Done(n)'
      BY <3>2 DEF Done
    <3>4. View(Done(Len(pending)))' = View(Done(n))'
      BY <3>1, <3>3 DEF View
    <3>5. View(Done(n))' = View(Done(n + 1))
      BY <1>7
    <3> QED BY <3>2, <3>4, <3>5
  <2>3. View(Done(Len(pending') + 1)) = InMemory
    BY <1>4 DEF CrashInv
  <2> QED BY <1>1, <2>2, <2>3 DEF InMemory
<1> QED BY <1>2, <1>4, <1>8, <1>9 DEF CrashInv

(* fs_init takes a safe image for the memory.                              *)
LEMMA RestartCrash ==
  ASSUME CrashInv, fs_init
  PROVE  CrashInv'
<1>1. /\ Inv /\ disk \in Images /\ disk' = disk /\ pending' = <<>> /\ files' = files
      /\ block_map' = disk.block_map /\ inodes' = disk.inodes /\ blocks' = disk.blocks
      /\ wr' = Idle
  BY DEF CrashInv, fs_init
<1>2. disk' = InMemory' /\ disk' \in Images
  BY <1>1 DEF InMemory, Images
<1>3. Safe(disk.block_map, disk.inodes, disk.blocks)
  <2>1. 0 \in 0 .. Len(pending) /\ Done(0) = {}
    BY DEF CrashInv, Done
  <2>2. View({}) = disk
    BY <1>1 DEF View, Images
  <2>3. SafeImage(View(Done(0)))
    BY <2>1 DEF CrashInv
  <2> QED BY <2>1, <2>2, <2>3 DEF SafeImage
<1>4. Inv'
  <2>1. TypeOK'
    BY <1>1, <1>3, IdleCall DEF Safe, Shape, TypeOK
  <2>2. WriteBounds' /\ Linked'
    BY <1>1, IdleCall DEF WriteBounds, Active, Linked
  <2>3. MapSound' /\ Clean'
    BY <1>1, <1>3 DEF Safe, MapSound, Clean
  <2> QED BY <2>1, <2>2, <2>3, WrittenOnly DEF Inv, Typed, OnlyWritten, OneLevel
<1>5. View(Done(Len(pending)))' = InMemory' /\ View(Done(0))' = disk'
  <2>1. Len(pending') = 0 /\ 1 .. 0 = {}
    BY <1>1
  <2>2. Done(Len(pending))' = {} /\ Done(0)' = {}
    BY <2>1 DEF Done
  <2>3. View({})' = disk'
    BY <1>2 DEF View, Images
  <2> QED BY <1>2, <2>2, <2>3 DEF View
<1>6. SafeImage(disk)'
  BY <1>1, <1>3 DEF SafeImage, Safe
<1>7. pending' \in Seq(Regions) /\ Len(pending') = 0 /\ \A n \in 0 .. 0 : n = 0
  BY <1>1
<1>8. \A n \in 0 .. Len(pending') : SafeImage(View(Done(n)))'
  BY <1>5, <1>6, <1>7
<1> QED BY <1>2, <1>4, <1>5, <1>7, <1>8 DEF CrashInv

LEMMA StartCrash == CrashInit => CrashInv
<1> SUFFICES ASSUME CrashInit PROVE CrashInv
  OBVIOUS
<1>1. Inv /\ disk = InMemory /\ pending = <<>>
  BY InitInv DEF CrashInit
<1>2. Safe(block_map, inodes, blocks)
  BY <1>1, MemorySafe
<1>3. disk \in Images /\ SafeImage(disk)
  BY <1>1, <1>2 DEF Images, InMemory, SafeImage, Safe, Shape
<1>4. View({}) = disk
  BY <1>3 DEF View, Images
<1>5. pending \in Seq(Regions) /\ Len(pending) = 0 /\ (\A n \in 0 .. 0 : n = 0) /\ 1 .. 0 = {}
  BY <1>1
<1>6. Done(Len(pending)) = {} /\ Done(0) = {}
  BY <1>5 DEF Done
<1>7. \A n \in 0 .. Len(pending) : SafeImage(View(Done(n)))
  BY <1>3, <1>4, <1>5, <1>6
<1> QED BY <1>1, <1>3, <1>4, <1>5, <1>6, <1>7 DEF CrashInv

LEMMA NextCrash == CrashInv /\ [CrashNext]_crashVars => CrashInv'
<1> SUFFICES ASSUME CrashInv, [CrashNext]_crashVars PROVE CrashInv'
  OBVIOUS
<1>1. CASE UNCHANGED crashVars
  <2>1. UNCHANGED vars /\ disk' = disk /\ pending' = pending
    BY <1>1 DEF crashVars, memory
  <2>2. Inv'
    BY <2>1, WrittenOnly, NextInv DEF CrashInv
  <2>3. /\ block_map' = block_map /\ inodes' = inodes /\ blocks' = blocks /\ files' = files
        /\ disk' = disk /\ pending' = pending
    BY <2>1 DEF vars
  <2>4. ASSUME NEW n PROVE View(Done(n))' = View(Done(n))
    BY <2>3 DEF View, Done
  <2>5. ASSUME NEW n \in 0 .. Len(pending') PROVE SafeImage(View(Done(n)))'
    <3>1. SafeImage(View(Done(n)))
      BY <2>3, <2>5 DEF CrashInv
    <3> QED BY <2>3, <2>4, <3>1 DEF SafeImage, Safe
  <2>6. View(Done(Len(pending)))' = InMemory'
    BY <2>3 DEF CrashInv, View, Done, InMemory
  <2> QED BY <2>2, <2>3, <2>5, <2>6 DEF CrashInv
<1> QED BY <1>1, CallCrash, StepCrash, WriteBackCrash, RestartCrash DEF CrashNext

LEMMA AlwaysCrashInv == CrashSpec => []CrashInv
BY StartCrash, NextCrash, PTL DEF CrashSpec

-----------------------------------------------------------------------------
(* What a crash leaves behind.                                             *)
LEMMA ImageUses == Image!Uses = UsesIn(disk.inodes, disk.blocks, files)
BY DEF Image!Uses, Image!WordOf, UsesIn, UsesOf, WordIn, Words, Blocks, Image!Words, Image!Blocks

LEMMA ImageKept ==
  ASSUME CrashInv
  PROVE  CrashKeepsBlocks /\ CrashTypeOK /\ WriteThrough
<1>1. /\ Inv /\ disk \in Images /\ pending \in Seq(Regions)
  BY DEF CrashInv
<1>2. Safe(disk.block_map, disk.inodes, disk.blocks)
  <2>1. 0 \in 0 .. Len(pending) /\ Done(0) = {}
    BY DEF CrashInv, Done
  <2>2. View({}) = disk
    BY <1>1 DEF View, Images
  <2>3. SafeImage(View(Done(0)))
    BY <2>1 DEF CrashInv
  <2> QED BY <2>1, <2>2, <2>3 DEF SafeImage
<1>3. /\ \A u, v \in Image!Uses : u[5] = v[5] => u = v
      /\ \A u \in Image!Uses : u[5] \in Mappable(disk.block_map)
  BY <1>2, ImageUses, SoundUses DEF Safe
<1>4. CrashKeepsBlocks
  BY <1>3 DEF CrashKeepsBlocks, Image!NoSharing, Image!MappedAllocated, Mappable,
              DataBlocks, Image!DataBlocks
<1>5. CrashTypeOK
  BY <1>1 DEF CrashTypeOK, Inv, Typed, Images, Regions
<1>6. WriteThrough
  BY Settled DEF WriteThrough
<1> QED BY <1>4, <1>5, <1>6

-----------------------------------------------------------------------------
(* What a crash loses.  The way to a block of a file in any image, as      *)
(* fs_read takes it.                                                       *)
WayIn(blk, inode, k) ==
    LET m     == k - INDIRECT_BOUND
        inner == WordIn(blk, inode.indir_2, m \div ADDR_PER_BLOCK)
    IN  CASE k < N_DIRECT -> <<inode.direct[k]>>
          [] k \in N_DIRECT .. INDIRECT_BOUND - 1
               -> <<inode.indir_1, WordIn(blk, inode.indir_1, k - N_DIRECT)>>
          [] OTHER -> <<inode.indir_2, inner, WordIn(blk, inner, m % ADDR_PER_BLOCK)>>

BlockIn(blk, inode, k) == LET way == WayIn(blk, inode, k) IN way[Len(way)]

LEMMA Ways ==
  ASSUME NEW inode, NEW k
  PROVE  /\ Way(inode, k) = WayIn(blocks, inode, k)
         /\ BlockOf(inode, k) = BlockIn(blocks, inode, k)
         /\ Image!BlockOf(inode, k) = BlockIn(disk.blocks, inode, k)
BY DEF Way, WayIn, WordOf, WordIn, BlockOf, BlockIn, INDIRECT_BOUND,
       Image!Way, Image!WordOf, Image!BlockOf, Image!INDIRECT_BOUND, Blocks, Image!Blocks

(* It ends at the pointer that is kept for the block, when the tables are  *)
(* there.                                                                  *)
LEMMA WayPtr ==
  ASSUME NEW ino, NEW blk, NEW fs, Shape(ino, blk, fs), NEW f \in fs,
         NEW k \in 0 .. SIZE_DOUBLE_INDIRECT - 1
  PROVE  /\ (\A n \in DOMAIN WayIn(blk, ino[f], k) : WayIn(blk, ino[f], k)[n] # 0)
               => Ptr(ino, blk, PlaceOf(f, k)) # 0
         /\ Ptr(ino, blk, PlaceOf(f, k)) # 0
               => BlockIn(blk, ino[f], k) = Ptr(ino, blk, PlaceOf(f, k))
<1> DEFINE inode == ino[f]
           way   == WayIn(blk, inode, k)
           x     == PlaceOf(f, k)
<1>1. inode.indir_1 \in Blocks /\ inode.indir_2 \in Blocks
  BY DEF Shape, Inode
<1>2. k \in Nat /\ N_DIRECT \in Nat /\ INDIRECT_BOUND \in Nat /\ N_DIRECT <= INDIRECT_BOUND
  <2>1. INDIRECT_BOUND = N_DIRECT + ADDR_PER_BLOCK /\ k \in Nat
    BY BlockNumbers
  <2> QED BY <2>1, Constants
<1>3. CASE k < N_DIRECT
  <2>1. way = <<inode.direct[k]>>
    <3>1. ~(k \in N_DIRECT .. INDIRECT_BOUND - 1)
      BY <1>2, <1>3
    <3> QED BY <1>3, <3>1 DEF WayIn
  <2>2. Ptr(ino, blk, x) = inode.direct[k]
    BY <1>3 DEF PlaceOf, Ptr
  <2>3. BlockIn(blk, inode, k) = inode.direct[k]
    BY <2>1 DEF BlockIn
  <2> HIDE DEF way
  <2>4. 1 \in DOMAIN way /\ way[1] = inode.direct[k]
    BY <2>1
  <2> QED BY <2>2, <2>3, <2>4 DEF way
<1>4. CASE ~(k < N_DIRECT) /\ k < INDIRECT_BOUND
  <2> DEFINE e == WordIn(blk, inode.indir_1, k - N_DIRECT)
  <2>1. way = <<inode.indir_1, e>>
    <3>1. k \in N_DIRECT .. INDIRECT_BOUND - 1
      BY <1>2, <1>4
    <3> QED BY <1>4, <3>1 DEF WayIn
  <2>2. Ptr(ino, blk, x) = At(blk, inode.indir_1, k - N_DIRECT)
    BY <1>4 DEF PlaceOf, Ptr
  <2> HIDE DEF way, e
  <2>3. way[1] = inode.indir_1 /\ way[2] = e /\ DOMAIN way = {1, 2} /\ way[Len(way)] = e
    BY <2>1
  <2>4. inode.indir_1 # 0 => At(blk, inode.indir_1, k - N_DIRECT) = e
    BY <1>1 DEF At, WordIn, e
  <2>5. At(blk, inode.indir_1, k - N_DIRECT) # 0 => inode.indir_1 # 0
    BY DEF At
  <2>6. BlockIn(blk, inode, k) = e
    BY <2>3 DEF BlockIn, way
  <2> QED BY <2>2, <2>3, <2>4, <2>5, <2>6 DEF way
<1>5. CASE ~(k < N_DIRECT) /\ ~(k < INDIRECT_BOUND)
  <2> DEFINE a == (k - INDIRECT_BOUND) \div ADDR_PER_BLOCK
             b == (k - INDIRECT_BOUND) % ADDR_PER_BLOCK
             t == WordIn(blk, inode.indir_2, a)
             e == WordIn(blk, t, b)
  <2>1. way = <<inode.indir_2, t, e>>
    <3>1. ~(k \in N_DIRECT .. INDIRECT_BOUND - 1)
      BY <1>2, <1>5
    <3> QED BY <1>5, <3>1 DEF WayIn
  <2>2. Ptr(ino, blk, x) = At(blk, At(blk, inode.indir_2, a), b)
    BY <1>5 DEF PlaceOf, Ptr
  <2> HIDE DEF way, e, t, a, b
  <2>3. /\ way[1] = inode.indir_2 /\ way[2] = t /\ way[3] = e
        /\ DOMAIN way = {1, 2, 3} /\ way[Len(way)] = e
    BY <2>1
  <2>4. inode.indir_2 # 0 => At(blk, inode.indir_2, a) = t
    BY <1>1 DEF At, WordIn, t
  <2>5. t # 0 /\ e # 0 => At(blk, t, b) = e
    BY DEF At, WordIn, e
  <2>6. At(blk, inode.indir_2, a) # 0 => inode.indir_2 # 0
    BY DEF At
  <2>7. At(blk, t, b) # 0 => t # 0 /\ At(blk, t, b) = e
    BY DEF At, WordIn, e
  <2>8. At(blk, At(blk, inode.indir_2, a), b) # 0 => At(blk, inode.indir_2, a) # 0
    BY DEF At
  <2>9. BlockIn(blk, inode, k) = e
    BY <2>3 DEF BlockIn, way
  <2> QED BY <2>2, <2>3, <2>4, <2>5, <2>6, <2>7, <2>8, <2>9 DEF way
<1> QED BY <1>3, <1>4, <1>5

(* An image is behind memory at one place: at the others it has the        *)
(* pointers, and the data that they lead to.  `part` is what may be        *)
(* missing of the size of each file.                                       *)
Part(f) == IF chunk[1] = f THEN ADDR_PER_BLOCK ELSE 0

Behind(img, mem, p) ==
    /\ \A x \in Places(files) : x # p =>
          Ptr(img.inodes, img.blocks, x) = Ptr(mem.inodes, mem.blocks, x)
    /\ \A x \in DataPlaces(files) :
          x # p /\ Ptr(mem.inodes, mem.blocks, x) # 0 =>
             img.blocks[Ptr(mem.inodes, mem.blocks, x)]
                = mem.blocks[Ptr(mem.inodes, mem.blocks, x)]

Short(img, mem) ==
    \A f \in files : mem.inodes[f].size - img.inodes[f].size \in 0 .. Part(f)

(* The image is, at every point of the writes that are left, behind at the *)
(* place that the iteration works on.                                      *)
LossInv ==
    /\ \A n \in 0 .. Len(pending) : Short(View(Done(n)), InMemory)
    /\ \E p : /\ p \in DataPlaces(files) => chunk = <<p[1], Number(p)>>
              /\ \A n \in 0 .. Len(pending) : Behind(View(Done(n)), InMemory, p)

LEMMA SettledLoss == CrashInv /\ pending = <<>> => LossInv
<1> SUFFICES ASSUME CrashInv, pending = <<>> PROVE LossInv
  OBVIOUS
<1>1. \A n \in 0 .. Len(pending) : View(Done(n)) = InMemory
  <2>1. Len(pending) = 0 /\ \A n \in 0 .. 0 : n = 0
    OBVIOUS
  <2>2. View(Done(Len(pending))) = InMemory
    BY DEF CrashInv
  <2> QED BY <2>1, <2>2
<1>2. files \subseteq Nat /\ \A f \in files : inodes[f].size \in Nat
  BY Constants, FileAssumption DEF CrashInv, Inv, Typed, TypeOK, Inode
<1>3. Short(InMemory, InMemory)
  <2>1. \A f \in files : Part(f) \in Nat
    BY Constants DEF Part
  <2> QED BY <1>2, <2>1 DEF Short, InMemory
<1>4. NoChunk \notin DataPlaces(files)
  <2>1. NoChunk[1] = -1 /\ -1 \notin files
    BY <1>2 DEF NoChunk
  <2> QED BY <2>1, DataPlaceKinds
<1>5. Behind(InMemory, InMemory, NoChunk)
  BY DEF Behind
<1> QED BY <1>1, <1>3, <1>4, <1>5 DEF LossInv

LEMMA WorksLoss ==
  ASSUME Inv, Inv', NEW p, NEW first, NEW second, Works(p, first, second),
         NEW img, Midway(p, img)
  PROVE  /\ files' = files /\ Behind(img, InMemory', p)
         /\ \A f \in files : inodes'[f].size - img.inodes[f].size \in 0 .. Part(f)'
<1>1. /\ Takes(p) /\ files' = files /\ Typed /\ MapSound
      /\ MovesOnly(p, img.inodes, img.blocks) /\ Between(img.inodes, img.blocks)
  BY MemorySafe DEF Works, Iterates, Takes, Midway
<1>2. \A x \in Places(files) : x # p =>
         /\ Ptr(img.inodes, img.blocks, x) = Ptr(inodes, blocks, x)
         /\ Ptr(inodes', blocks', x) = Ptr(inodes, blocks, x)
  BY <1>1 DEF Takes, MovesOnly, Same, Changed
<1>3. ASSUME NEW x \in DataPlaces(files), x # p, Ptr(inodes', blocks', x) # 0
      PROVE  img.blocks[Ptr(inodes', blocks', x)] = blocks'[Ptr(inodes', blocks', x)]
  <2>1. x \in Places(files)
    BY DEF DataPlaces
  <2>2. Ptr(inodes', blocks', x) = Ptr(inodes, blocks, x) /\ Ptr(inodes, blocks, x) \in Blocks
    BY <1>1, <1>2, <1>3, <2>1, EntryInRange
  <2>3. blocks'[Ptr(inodes, blocks, x)] = blocks[Ptr(inodes, blocks, x)]
    BY <1>3, <2>2 DEF Works, Keeps
  <2> QED BY <1>1, <2>2, <2>3 DEF Between
<1>4. Behind(img, InMemory', p)
  BY <1>2, <1>3 DEF Behind, InMemory
<1>5. ASSUME NEW f \in files
      PROVE  inodes'[f].size - img.inodes[f].size \in 0 .. Part(f)'
  <2>1. /\ inodes'[f].size - inodes[f].size \in 0 .. Part(f)'
        /\ img.inodes \in {inodes, inodes'}
    BY <1>1 DEF Works, Part, Between
  <2>2. Part(f)' \in Nat
    BY Constants DEF Part
  <2>3. inodes'[f].size \in Nat
    BY <1>1 DEF Inv, Typed, TypeOK, Inode
  <2> QED BY <2>1, <2>2, <2>3
<1> QED BY <1>1, <1>4, <1>5

(* An iteration begins: the image falls behind at its place.               *)
LEMMA BeginLoss ==
  ASSUME CrashInv, CrashInv', pending = <<>>, Begin, disk' = disk
  PROVE  LossInv'
<1>1. Inv /\ Inv'
  BY DEF CrashInv
<1>2. CASE Idles
  <2>1. CrashInv' /\ pending' = <<>>
    BY <1>2 DEF Idles
  <2>2. (CrashInv /\ pending = <<>> => LossInv)'
    BY SettledLoss, PTL
  <2> QED BY <2>1, <2>2
<1>3. ASSUME NEW p, NEW first, NEW second, Works(p, first, second)
      PROVE  LossInv'
  <2>1. Iterates(p, first, second) /\ Ordered(Ptr(inodes, blocks, p), first, second)
    BY <1>3 DEF Works
  <2>2. \A n \in 0 .. Len(pending') : Midway(p, View(Done(n))')
    BY <1>1, <2>1, IterationCrash
  <2>3. ASSUME NEW n \in 0 .. Len(pending')
        PROVE  /\ files' = files /\ Behind(View(Done(n))', InMemory', p)
               /\ \A f \in files : inodes'[f].size - View(Done(n))'.inodes[f].size \in 0 .. Part(f)'
    <3>1. \A img : Midway(p, img) =>
            /\ files' = files /\ Behind(img, InMemory', p)
            /\ \A f \in files : inodes'[f].size - img.inodes[f].size \in 0 .. Part(f)'
      BY <1>1, <1>3, WorksLoss
    <3> QED BY <2>2, <3>1
  <2>4. files' = files
    BY <2>1 DEF Iterates, Takes
  <2>5. \A img : Behind(img, InMemory, p)' <=> Behind(img', InMemory', p)
    BY <2>4 DEF Behind, Places, DataPlaces
  <2>6. \A n \in 0 .. Len(pending') : Short(View(Done(n)), InMemory)'
    BY <2>3, <2>4 DEF Short, InMemory
  <2>7. \A n \in 0 .. Len(pending') : Behind(View(Done(n)), InMemory, p)'
    BY <2>3, <2>4 DEF Behind, Places, DataPlaces
  <2>8. p \in DataPlaces(files)' => chunk' = <<p[1], Number(p)>>
    BY <1>3, <2>4 DEF Works, DataPlaces, Places
  <2> QED BY <2>6, <2>7, <2>8 DEF LossInv
<1> QED BY <1>1, <1>2, <1>3, BeginWorks

(* The writes of the iteration make up for it.                             *)
LEMMA WriteBackLoss ==
  ASSUME CrashInv, LossInv, WriteBack
  PROVE  LossInv'
<1>1. UNCHANGED <<block_map, inodes, blocks, files, chunk>>
  BY WriteBackViews
<1>2. \A n \in 0 .. Len(pending') :
         View(Done(n))' = View(Done(n + 1)) /\ n + 1 \in 0 .. Len(pending)
  BY WriteBackViews
<1>3. InMemory' = InMemory
  BY <1>1 DEF InMemory
<1>4. \A n \in 0 .. Len(pending') : Short(View(Done(n)), InMemory)'
  <2> SUFFICES ASSUME NEW n \in 0 .. Len(pending') PROVE Short(View(Done(n)), InMemory)'
    OBVIOUS
  <2>1. Short(View(Done(n + 1)), InMemory)
    BY <1>2 DEF LossInv
  <2>2. Short(View(Done(n))', InMemory)
    BY <1>2, <2>1
  <2> QED BY <1>1, <1>3, <2>2 DEF Short, Part
<1>5. PICK p : /\ p \in DataPlaces(files) => chunk = <<p[1], Number(p)>>
               /\ \A n \in 0 .. Len(pending) : Behind(View(Done(n)), InMemory, p)
  BY DEF LossInv
<1>6. \A n \in 0 .. Len(pending') : Behind(View(Done(n)), InMemory, p)'
  <2> SUFFICES ASSUME NEW n \in 0 .. Len(pending') PROVE Behind(View(Done(n)), InMemory, p)'
    OBVIOUS
  <2>1. Behind(View(Done(n + 1)), InMemory, p)
    BY <1>2, <1>5
  <2>2. Behind(View(Done(n))', InMemory, p)
    BY <1>2, <2>1
  <2> QED BY <1>1, <1>3, <2>2 DEF Behind, Places, DataPlaces
<1>7. p \in DataPlaces(files)' => chunk' = <<p[1], Number(p)>>
  BY <1>1, <1>5 DEF DataPlaces, Places
<1> QED BY <1>4, <1>6, <1>7 DEF LossInv

LEMMA NextLoss == CrashInv /\ LossInv /\ CrashInv' /\ [CrashNext]_crashVars => LossInv'
<1> SUFFICES ASSUME CrashInv, LossInv, CrashInv', [CrashNext]_crashVars PROVE LossInv'
  OBVIOUS
<1>1. CASE pending' = <<>>
  <2>1. (CrashInv /\ pending = <<>> => LossInv)'
    BY SettledLoss, PTL
  <2> QED BY <1>1, <2>1
<1>2. CASE Step
  <2>1. pending = <<>> /\ Begin /\ disk' = disk
    BY <1>2 DEF Step
  <2> QED BY <2>1, BeginLoss
<1>3. CASE WriteBack
  BY <1>3, WriteBackLoss
<1>4. CASE Call \/ fs_init
  BY <1>1, <1>4 DEF Call, fs_init
<1>5. CASE UNCHANGED crashVars
  <2>1. UNCHANGED <<block_map, inodes, blocks, files, disk, pending, chunk>>
    BY <1>5 DEF crashVars, memory, vars
  <2>2. InMemory' = InMemory /\ \A n : View(Done(n))' = View(Done(n))
    BY <2>1 DEF InMemory, View, Done
  <2>3. PICK p : /\ p \in DataPlaces(files) => chunk = <<p[1], Number(p)>>
                 /\ \A n \in 0 .. Len(pending) : Behind(View(Done(n)), InMemory, p)
    BY DEF LossInv
  <2>4. \A n \in 0 .. Len(pending') : Behind(View(Done(n)), InMemory, p)'
    BY <2>1, <2>2, <2>3 DEF Behind, Places, DataPlaces
  <2>5. \A n \in 0 .. Len(pending') : Short(View(Done(n)), InMemory)'
    BY <2>1, <2>2 DEF LossInv, Short, Part
  <2>6. p \in DataPlaces(files)' => chunk' = <<p[1], Number(p)>>
    BY <2>1, <2>3 DEF DataPlaces, Places
  <2> QED BY <2>4, <2>5, <2>6 DEF LossInv
<1> QED BY <1>2, <1>3, <1>4, <1>5 DEF CrashNext

LEMMA AlwaysLossInv == CrashSpec => [](CrashInv /\ LossInv)
<1>1. CrashInit => LossInv
  BY StartCrash, SettledLoss DEF CrashInit
<1> QED BY <1>1, NextLoss, AlwaysCrashInv, PTL DEF CrashSpec

(* The word at a position, where memory has it and it is not in the block  *)
(* being filled.                                                           *)
LEMMA WordKept ==
  ASSUME CrashInv, MaxSize <= SIZE_DOUBLE_INDIRECT * ADDR_PER_BLOCK,
         NEW p, p \in DataPlaces(files) => chunk = <<p[1], Number(p)>>,
         Behind(disk, InMemory, p),
         NEW f \in files, NEW pos \in 0 .. inodes[f].size - 1,
         Stored(f, pos), <<f, pos \div ADDR_PER_BLOCK>> # chunk
  PROVE  OnDisk(f, pos) = InFile(f, pos)
<1> DEFINE k == pos \div ADDR_PER_BLOCK
           w == pos % ADDR_PER_BLOCK
           x == PlaceOf(f, k)
           b == Ptr(inodes, blocks, x)
<1>1. /\ Typed /\ MapSound /\ Shape(inodes, blocks, files) /\ disk \in Images
      /\ Shape(disk.inodes, disk.blocks, files)
  <2>1. Typed /\ MapSound /\ Shape(inodes, blocks, files) /\ disk \in Images
    BY MemorySafe DEF CrashInv
  <2> QED BY <2>1 DEF Images, Shape
<1>2. k \in Nat /\ k * ADDR_PER_BLOCK < MaxSize
  <2>1. pos \in Nat /\ pos < MaxSize
    <3>1. inodes[f].size \in 0 .. MaxSize
      BY <1>1 DEF Typed, TypeOK, Inode
    <3> QED BY <3>1, Constants
  <2>2. k \in Nat /\ k * ADDR_PER_BLOCK <= pos /\ k * ADDR_PER_BLOCK \in Nat
    BY <2>1, Constants
  <2> HIDE DEF k
  <2> QED BY <2>1, <2>2, Constants
<1> HIDE DEF k, w
<1>3. k \in 0 .. SIZE_DOUBLE_INDIRECT - 1
  BY <1>2, InLevels
<1>4. x \in DataPlaces(files) /\ x \in Places(files) /\ x # p
  <2>1. x \in DataPlaces(files) /\ x[1] = f /\ Number(x) = k
    BY <1>3, PlaceOfBlock
  <2> HIDE DEF x
  <2> QED BY <2>1 DEF DataPlaces, k
<1>5. b # 0 /\ BlockOf(inodes[f], k) = b /\ b \in Blocks
  <2>1. \A n \in DOMAIN WayIn(blocks, inodes[f], k) : WayIn(blocks, inodes[f], k)[n] # 0
    BY Ways DEF Stored, k
  <2>2. b # 0 /\ BlockIn(blocks, inodes[f], k) = b
    BY <1>1, <1>3, <2>1, WayPtr
  <2>3. b \in Blocks
    BY <1>1, <1>4, EntryInRange
  <2>4. BlockOf(inodes[f], k) = BlockIn(blocks, inodes[f], k)
    BY Ways
  <2> QED BY <2>2, <2>3, <2>4
<1>6. Ptr(disk.inodes, disk.blocks, x) = b /\ disk.blocks[b] = blocks[b]
  <2> HIDE DEF x
  <2> QED BY <1>4, <1>5 DEF Behind, InMemory
<1>7. Image!BlockOf(disk.inodes[f], k) = b
  <2>1. BlockIn(disk.blocks, disk.inodes[f], k) = b
    BY <1>1, <1>3, <1>5, <1>6, WayPtr
  <2>2. Image!BlockOf(disk.inodes[f], k) = BlockIn(disk.blocks, disk.inodes[f], k)
    BY Ways
  <2> QED BY <2>1, <2>2
<1> HIDE DEF x, b
<1>8. OnDisk(f, pos) = disk.blocks[b][w]
  BY <1>5, <1>7 DEF OnDisk, Image!WordOf, Image!Blocks, Blocks, k, w
<1>9. InFile(f, pos) = blocks[b][w]
  BY <1>5 DEF InFile, WordOf, k, w
<1> QED BY <1>6, <1>8, <1>9

-----------------------------------------------------------------------------
(* The image always holds a bitmap and blocks, and what is left to write   *)
(* are regions of it: no crash, restart or write leaves the types.         *)
THEOREM CrashTypes == CrashSpec => []CrashTypeOK
<1>1. CrashInv => CrashTypeOK
  BY ImageKept
<1> QED BY <1>1, AlwaysCrashInv, PTL

(* Wherever fs_write is killed, as often as that happens, the blocks the   *)
(* files lead to on the image are marked there and are not shared, so that *)
(* no allocation after the restart takes a block from a file.              *)
THEOREM KillsKeepBlocks == CrashSpec => []CrashKeepsBlocks
<1>1. CrashInv => CrashKeepsBlocks
  BY ImageKept
<1> QED BY <1>1, AlwaysCrashInv, PTL

(* Between two iterations, and after the call, the image is the memory's:  *)
(* every region that an iteration changes is written before the next.      *)
THEOREM IterationsWriteThrough == CrashSpec => []WriteThrough
<1>1. CrashInv => WriteThrough
  BY ImageKept
<1> QED BY <1>1, AlwaysCrashInv, PTL

(* Wherever fs_write is killed, what is lost is in the block it was        *)
(* filling: every other word of every file is on the image as it is in     *)
(* memory, and the sizes but for a part of that block.  The three levels   *)
(* have room for the files.                                                *)
THEOREM KillsLoseOneBlock ==
  ASSUME MaxSize <= SIZE_DOUBLE_INDIRECT * ADDR_PER_BLOCK
  PROVE  CrashSpec => []LosesOneBlock
<1>1. CrashInv /\ LossInv => LosesOneBlock
  <2> SUFFICES ASSUME CrashInv, LossInv PROVE LosesOneBlock
    OBVIOUS
  <2>1. 0 \in 0 .. Len(pending) /\ View(Done(0)) = disk
    <3>1. 0 \in 0 .. Len(pending) /\ Done(0) = {} /\ disk \in Images
      BY DEF CrashInv, Done
    <3>2. View({}) = disk
      BY <3>1 DEF View, Images
    <3> QED BY <3>1, <3>2
  <2>2. PICK p : /\ p \in DataPlaces(files) => chunk = <<p[1], Number(p)>>
                 /\ Behind(disk, InMemory, p)
    BY <2>1 DEF LossInv
  <2>3. Short(disk, InMemory)
    BY <2>1 DEF LossInv
  <2>4. \A f \in files :
           inodes[f].size - disk.inodes[f].size
              \in 0 .. (IF chunk[1] = f THEN ADDR_PER_BLOCK ELSE 0)
    BY <2>3 DEF Short, Part, InMemory
  <2>5. ASSUME NEW f \in files, NEW pos \in 0 .. inodes[f].size - 1,
               Stored(f, pos), <<f, pos \div ADDR_PER_BLOCK>> # chunk
        PROVE  OnDisk(f, pos) = InFile(f, pos)
    BY <2>2, <2>5, WordKept
  <2> QED BY <2>4, <2>5 DEF LosesOneBlock
<1> QED BY <1>1, AlwaysLossInv, PTL

=============================================================================
