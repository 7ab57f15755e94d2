---------------------------- MODULE FsFileProofs ----------------------------
(***************************************************************************)
(* Proofs about file data, for every size of the image, of a block and of  *)
(* an inode, and for every set of files.                                   *)
(***************************************************************************)
EXTENDS FsFile, WellFoundedInduction, TLAPS

USE DEF ENOSPC

-----------------------------------------------------------------------------
(* Minima.                                                                 *)

LessThan == {ss \in Nat \X Nat : ss[1] < ss[2]}

(* A non-empty set of naturals has a least element, which Min picks.       *)
LEMMA MinNat ==
  ASSUME NEW T, T \subseteq Nat, T # {}
  PROVE  Min(T) \in T /\ \A n \in T : Min(T) <= n
<1>1. IsWellFoundedOn(LessThan, Nat)
  BY NatLessThanWellFounded, Zenon DEF OpToRel, LessThan
<1>2. PICK m \in T : \A n \in T : <<n, m>> \notin LessThan
  BY <1>1, WFMin
<1>3. ASSUME NEW n \in T PROVE m <= n
  <2>1. <<n, m>> \notin LessThan /\ n \in Nat /\ m \in Nat
    BY <1>2
  <2>2. ~(n < m)
    BY <2>1 DEF LessThan
  <2> QED BY <2>1, <2>2
<1> QED BY <1>2, <1>3 DEF Min

(* get_free_block finds an unmarked block of the data region, or says that *)
(* there is none.                                                          *)
LEMMA FreeBlock ==
  ASSUME NEW map
  PROVE  get_free_block(map) \in (DataBlocks \ map) \cup {-ENOSPC}
<1>1. DataBlocks \subseteq Nat
  BY LayoutAssumption DEF DataBlocks
<1>2. CASE DataBlocks \ map = {}
  BY <1>2 DEF get_free_block
<1>3. CASE DataBlocks \ map # {}
  <2>1. DataBlocks \ map \subseteq Nat
    BY <1>1
  <2>2. Min(DataBlocks \ map) \in DataBlocks \ map
    BY <1>3, <2>1, MinNat
  <2> QED BY <1>3, <2>2 DEF get_free_block
<1> QED BY <1>2, <1>3

-----------------------------------------------------------------------------
(* Types.                                                                  *)

Active == Stages \ {"idle", "cleanup", "abort"}

(* A call that is in its loops has data left and room for it, and is at a  *)
(* pointer of the inode or an entry of a table.                            *)
WriteBounds ==
    wr.stage \in Active =>
        /\ wr.f \in files /\ wr.len > 0
        /\ wr.total >= 0 /\ wr.total + wr.len <= MaxLen
        /\ inodes[wr.f].size + wr.len <= MaxSize
        /\ IF wr.stage = "direct" THEN wr.i < N_DIRECT ELSE wr.i < ADDR_PER_BLOCK

Typed == TypeOK /\ WriteBounds

(* What the assumptions on the constants give.                             *)
LEMMA Constants ==
  /\ Blocks \subseteq Nat /\ 0 \in Blocks /\ DataBlocks \subseteq Blocks
  /\ 0 \notin DataBlocks /\ -ENOSPC \notin Blocks /\ start_block \in DataBlocks
  /\ Words \subseteq Nat /\ 0 \in Words
  /\ ADDR_PER_BLOCK \in Nat /\ ADDR_PER_BLOCK > 0 /\ N_DIRECT \in Nat /\ N_DIRECT > 0
  /\ MaxLen \in Nat /\ MaxSize \in Nat
<1>1. /\ Blocks \subseteq Nat /\ 0 \in Blocks /\ DataBlocks \subseteq Blocks
      /\ 0 \notin DataBlocks /\ -ENOSPC \notin Blocks /\ start_block \in DataBlocks
  BY LayoutAssumption DEF Blocks, DataBlocks
<1>2. /\ Words \subseteq Nat /\ 0 \in Words
      /\ ADDR_PER_BLOCK \in Nat /\ ADDR_PER_BLOCK > 0 /\ N_DIRECT \in Nat /\ N_DIRECT > 0
      /\ MaxLen \in Nat /\ MaxSize \in Nat
  BY FileAssumption DEF Words
<1> QED BY <1>1, <1>2

(* The word at a position of a file is a number.                           *)
LEMMA DataNat ==
  ASSUME NEW f \in Nat, NEW pos \in Nat
  PROVE  Data(f, pos) \in Nat
<1>1. MaxSize \in Nat /\ max_num_blocks \in Nat
  BY LayoutAssumption, FileAssumption
<1>2. f * MaxSize \in Nat
  BY <1>1
<1> QED BY <1>1, <1>2 DEF Data

(* A step of a loop fills part of one block, with some of the data left.   *)
LEMMA FillBounds ==
  ASSUME Typed, wr.stage \in Active, NEW ptr
  PROVE  /\ Start(ptr) \in Words
         /\ Chunk(ptr) \in 1 .. wr.len /\ Start(ptr) + Chunk(ptr) <= ADDR_PER_BLOCK
<1>0. /\ inodes \in [Files -> Inode] /\ wr \in WriteCall /\ files \subseteq Files
      /\ blocks \in [Blocks -> [Words -> Nat]]
      /\ block_map \subseteq Blocks /\ Metadata \subseteq block_map
  BY DEF Typed, TypeOK
<1> USE <1>0, Constants
<1>1. wr.offset \in Nat /\ wr.len \in Nat /\ wr.len > 0
  BY DEF WriteCall, Typed, WriteBounds
<1>2. Start(ptr) \in Words
  BY <1>1 DEF Start, Words
<1>3. {wr.len, ADDR_PER_BLOCK - Start(ptr)} \subseteq Nat \ {0}
  BY <1>1, <1>2 DEF Words
<1>4. /\ Chunk(ptr) \in {wr.len, ADDR_PER_BLOCK - Start(ptr)}
      /\ Chunk(ptr) <= wr.len /\ Chunk(ptr) <= ADDR_PER_BLOCK - Start(ptr)
  <2>1. {wr.len, ADDR_PER_BLOCK - Start(ptr)} \subseteq Nat
    BY <1>3
  <2> QED BY <2>1, MinNat DEF Chunk
<1> QED BY <1>1, <1>2, <1>3, <1>4 DEF Words

(* What the call under way works on.                                       *)
LEMMA InCall ==
  ASSUME Typed, wr.stage \in Active
  PROVE  /\ wr.f \in files /\ wr.f \in Files /\ inodes[wr.f] \in Inode
         /\ inodes[wr.f].indir_1 \in Blocks /\ inodes[wr.f].indir_2 \in Blocks
         /\ wr.j \in Words
         /\ IF wr.stage = "direct" THEN wr.i \in 0 .. N_DIRECT - 1 ELSE wr.i \in Words
<1>1. wr \in WriteCall /\ wr.f \in files /\ wr.f \in Files /\ inodes[wr.f] \in Inode
  BY DEF Typed, TypeOK, WriteBounds
<1>2. inodes[wr.f].indir_1 \in Blocks /\ inodes[wr.f].indir_2 \in Blocks
  BY <1>1 DEF Inode
<1>3. /\ wr.j \in Words /\ wr.i \in 0 .. ADDR_PER_BLOCK + N_DIRECT
      /\ IF wr.stage = "direct" THEN wr.i < N_DIRECT ELSE wr.i < ADDR_PER_BLOCK
  BY <1>1 DEF WriteCall, Typed, WriteBounds
<1> QED BY <1>1, <1>2, <1>3, Constants DEF Words

LEMMA FillTypes ==
  ASSUME Typed, wr.stage \in Active, NEW ptr, Usable(ptr)
  PROVE  /\ Target(ptr) \in Blocks
         /\ Filled(ptr) \in [Words -> Nat]
         /\ Alloc(ptr) = block_map \/ Alloc(ptr) = block_map \cup {Target(ptr)}
<1>0. /\ inodes \in [Files -> Inode] /\ wr \in WriteCall /\ files \subseteq Files
      /\ blocks \in [Blocks -> [Words -> Nat]]
      /\ block_map \subseteq Blocks /\ Metadata \subseteq block_map
  BY DEF Typed, TypeOK
<1> USE <1>0, Constants
<1>1. Target(ptr) \in Blocks
  BY FreeBlock DEF Target, Usable
<1>2. Alloc(ptr) = block_map \/ Alloc(ptr) = block_map \cup {Target(ptr)}
  BY DEF Alloc, Target
<1>3. Filled(ptr) \in [Words -> Nat]
  <2>1. wr.f \in Nat /\ wr.pos \in Nat /\ wr.total \in Nat
    BY DEF WriteCall, Typed, WriteBounds
  <2>2. Start(ptr) \in Nat
    BY FillBounds
  <2>3. ASSUME NEW w \in Words, Start(ptr) <= w
        PROVE  Data(wr.f, wr.pos + wr.total + w - Start(ptr)) \in Nat
    <3>1. wr.pos + wr.total + w - Start(ptr) \in Nat
      BY <2>1, <2>2, <2>3
    <3> QED BY <2>1, <3>1, DataNat
  <2>4. ptr # 0 => blocks[ptr] \in [Words -> Nat]
    BY DEF Usable
  <2> QED BY <2>3, <2>4 DEF Filled
<1> QED BY <1>1, <1>2, <1>3

(* The locals of the call after the step.                                  *)
LEMMA FillingBounds ==
  ASSUME Typed, wr.stage \in Active, NEW ptr
  PROVE  /\ Filling(ptr) \in WriteCall
         /\ Filling(ptr).len = wr.len - Chunk(ptr) /\ Filling(ptr).total = wr.total + Chunk(ptr)
         /\ Filling(ptr).stage = wr.stage /\ Filling(ptr).f = wr.f
         /\ Filling(ptr).i = wr.i /\ Filling(ptr).j = wr.j
         /\ Filling(ptr).offset = wr.offset /\ Filling(ptr).pos = wr.pos
         /\ wr.len - Chunk(ptr) \in 0 .. MaxLen
         /\ wr.total + Chunk(ptr) \in 0 .. MaxLen
         /\ inodes[wr.f].size + Chunk(ptr) \in 0 .. MaxSize
<1>0. /\ inodes \in [Files -> Inode] /\ wr \in WriteCall /\ files \subseteq Files
      /\ blocks \in [Blocks -> [Words -> Nat]]
      /\ block_map \subseteq Blocks /\ Metadata \subseteq block_map
  BY DEF Typed, TypeOK
<1> USE <1>0, Constants
<1>1. /\ wr.len \in Nat /\ wr.total \in Nat /\ wr.total + wr.len <= MaxLen
      /\ inodes[wr.f].size \in Nat /\ inodes[wr.f].size + wr.len <= MaxSize
      /\ wr.f \in files
  BY DEF WriteCall, Typed, WriteBounds, Inode
<1>2. Chunk(ptr) \in 1 .. wr.len
  BY FillBounds
<1>3. /\ wr.len - Chunk(ptr) \in 0 .. MaxLen
      /\ wr.total + Chunk(ptr) \in 0 .. MaxLen
      /\ inodes[wr.f].size + Chunk(ptr) \in 0 .. MaxSize
  BY <1>1, <1>2
<1>4. Filling(ptr) = [wr EXCEPT !.len = wr.len - Chunk(ptr), !.total = wr.total + Chunk(ptr)]
  BY DEF Filling
<1>5. Filling(ptr) \in WriteCall
  BY <1>3, <1>4 DEF WriteCall
<1>6. /\ Filling(ptr).len = wr.len - Chunk(ptr) /\ Filling(ptr).total = wr.total + Chunk(ptr)
      /\ Filling(ptr).stage = wr.stage /\ Filling(ptr).f = wr.f
      /\ Filling(ptr).i = wr.i /\ Filling(ptr).j = wr.j
      /\ Filling(ptr).offset = wr.offset /\ Filling(ptr).pos = wr.pos
  BY <1>4 DEF WriteCall
<1> QED BY <1>3, <1>5, <1>6

(* How the locals change between two steps of the loops.                   *)
SameData(w, v) == w.f = v.f /\ w.len = v.len /\ w.total = v.total /\ w.pos = v.pos

Moved(w, s, i, j) == [w EXCEPT !.stage = s, !.i = i, !.j = j]

LEMMA LevelLocals ==
  ASSUME NEW w \in WriteCall
  PROVE  /\ ToLevel1(w) \in WriteCall /\ SameData(ToLevel1(w), w)
         /\ ToLevel1(w).stage = "table1" /\ ToLevel1(w).i = 0
         /\ ToLevel2(w) \in WriteCall /\ SameData(ToLevel2(w), w)
         /\ ToLevel2(w).stage = "table2" /\ ToLevel2(w).i = 0
<1>1. /\ 0 \in 0 .. MaxSize /\ 0 \in 0 .. ADDR_PER_BLOCK + N_DIRECT /\ 0 \in Words
      /\ {"table1", "table2"} \subseteq Stages
  BY Constants DEF Stages
<1>2. ToLevel1(w) \in WriteCall
  BY <1>1 DEF ToLevel1, WriteCall
<1>3. SameData(ToLevel1(w), w)
  BY DEF ToLevel1, WriteCall, SameData
<1>4. ToLevel1(w).stage = "table1" /\ ToLevel1(w).i = 0
  BY DEF ToLevel1, WriteCall
<1>5. ToLevel2(w) \in WriteCall
  BY <1>1 DEF ToLevel2, WriteCall
<1>6. SameData(ToLevel2(w), w)
  BY DEF ToLevel2, WriteCall, SameData
<1>7. ToLevel2(w).stage = "table2" /\ ToLevel2(w).i = 0
  BY DEF ToLevel2, WriteCall
<1> QED BY <1>2, <1>3, <1>4, <1>5, <1>6, <1>7

LEMMA ResetLocals ==
  ASSUME NEW w \in WriteCall, NEW ptr
  PROVE  /\ Reset(w, ptr) \in WriteCall /\ SameData(Reset(w, ptr), w)
         /\ Reset(w, ptr).stage = w.stage /\ Reset(w, ptr).i = w.i /\ Reset(w, ptr).j = w.j
BY Constants DEF Reset, WriteCall, SameData

LEMMA MovedLocals ==
  ASSUME NEW w \in WriteCall, NEW s \in Stages,
         NEW i \in 0 .. ADDR_PER_BLOCK + N_DIRECT, NEW j \in Words
  PROVE  /\ Moved(w, s, i, j) \in WriteCall /\ SameData(Moved(w, s, i, j), w)
         /\ Moved(w, s, i, j).stage = s
         /\ Moved(w, s, i, j).i = i /\ Moved(w, s, i, j).j = j
<1>1. Moved(w, s, i, j) \in WriteCall
  BY DEF Moved, WriteCall
<1>2. SameData(Moved(w, s, i, j), w)
  BY DEF Moved, WriteCall, SameData
<1> QED BY <1>1, <1>2 DEF Moved, WriteCall

(* The call goes on in bounds after a block is filled, if the next loop is *)
(* entered in bounds.                                                      *)
LEMMA OnwardTyped ==
  ASSUME Typed, wr.stage \in Active, NEW ptr, NEW next \in WriteCall,
         SameData(next, Filling(ptr)),
         next.stage \in Active =>
            IF next.stage = "direct" THEN next.i < N_DIRECT ELSE next.i < ADDR_PER_BLOCK,
         wr' = Onward(ptr, next), files' = files,
         inodes' \in [Files -> Inode], inodes'[wr.f].size = inodes[wr.f].size + Chunk(ptr)
  PROVE  wr' \in WriteCall /\ WriteBounds'
<1>0. /\ inodes \in [Files -> Inode] /\ wr \in WriteCall /\ files \subseteq Files
      /\ blocks \in [Blocks -> [Words -> Nat]]
      /\ block_map \subseteq Blocks /\ Metadata \subseteq block_map
  BY DEF Typed, TypeOK
<1> USE <1>0, Constants
<1>1. /\ wr.len \in Nat /\ wr.total \in Nat /\ wr.total + wr.len <= MaxLen
      /\ inodes[wr.f].size \in Nat /\ inodes[wr.f].size + wr.len <= MaxSize
      /\ wr.f \in files
  BY DEF WriteCall, Typed, WriteBounds, Inode
<1>2. Chunk(ptr) \in 1 .. wr.len
  BY FillBounds
<1>3. /\ Filling(ptr) \in WriteCall
      /\ Filling(ptr).len = wr.len - Chunk(ptr) /\ Filling(ptr).total = wr.total + Chunk(ptr)
      /\ Filling(ptr).f = wr.f
  BY FillingBounds
<1>4. CASE Filling(ptr).len = 0
  <2>1. wr' = [Filling(ptr) EXCEPT !.stage = "cleanup"]
    BY <1>4 DEF Onward
  <2>2. wr' \in WriteCall /\ wr'.stage = "cleanup"
    BY <1>3, <2>1 DEF WriteCall, Stages
  <2> QED BY <2>2 DEF WriteBounds, Active
<1>5. CASE Filling(ptr).len # 0
  <2>1. wr' = next
    BY <1>5 DEF Onward
  <2>2. next.len > 0 /\ next.total >= 0 /\ next.total + next.len <= MaxLen
        /\ inodes'[next.f].size + next.len <= MaxSize
    BY <1>1, <1>2, <1>3, <1>5 DEF SameData
  <2> QED BY <1>1, <1>3, <2>1, <2>2 DEF WriteBounds, SameData
<1> QED BY <1>4, <1>5

(* A step that takes a table, or none, and goes on to the next loop.       *)
LEMMA SameDataTyped ==
  ASSUME Typed, wr.stage \in Active \ {"direct"}, NEW s \in Active \ {"direct"},
         wr' = [wr EXCEPT !.stage = s], files' = files,
         inodes'[wr.f].size = inodes[wr.f].size
  PROVE  wr' \in WriteCall /\ WriteBounds'
<1>1. wr \in WriteCall
  BY DEF Typed, TypeOK
<1>2. wr' \in WriteCall /\ wr'.stage = s
  BY <1>1 DEF WriteCall, Active
<1>3. /\ wr'.f = wr.f /\ wr'.len = wr.len /\ wr'.total = wr.total /\ wr'.i = wr.i
  BY <1>1 DEF WriteCall
<1> QED BY <1>2, <1>3 DEF Typed, WriteBounds, Active

(* A step that ends the loops.                                             *)
LEMMA LeaveTyped ==
  ASSUME Typed, NEW s \in {"cleanup", "abort"}, NEW t \in {-ENOSPC, wr.total},
         wr' = [wr EXCEPT !.stage = s, !.total = t],
         UNCHANGED <<block_map, inodes, blocks, files>>
  PROVE  Typed'
<1>1. wr \in WriteCall
  BY DEF Typed, TypeOK
<1>2. wr' \in WriteCall /\ wr'.stage = s
  BY <1>1 DEF WriteCall, Stages
<1> QED BY <1>2 DEF Typed, TypeOK, WriteCall, WriteBounds, Active

LEMMA NoBlockTyped ==
  ASSUME Typed, NEW ptr, NoSpace(ptr) \/ Abort(ptr)
  PROVE  Typed'
<1>1. wr \in WriteCall
  BY DEF Typed, TypeOK
<1>2. CASE NoSpace(ptr)
  BY <1>2, LeaveTyped DEF NoSpace
<1>3. CASE Abort(ptr)
  <2>1. wr' = [wr EXCEPT !.stage = "abort", !.total = wr.total]
    BY <1>1, <1>3, Zenon DEF Abort, WriteCall
  <2> QED BY <1>3, <2>1, LeaveTyped DEF Abort
<1> QED BY <1>2, <1>3

(* The parts of the type invariant after a step.                           *)
LEMMA TypedParts ==
  ASSUME block_map' \subseteq Blocks, Metadata \subseteq block_map',
         inodes' \in [Files -> Inode], blocks' \in [Blocks -> [Words -> Nat]],
         files' \subseteq Files, wr' \in WriteCall, WriteBounds'
  PROVE  Typed'
BY DEF Typed, TypeOK, Inode, WriteCall

LEMMA DirectTyped ==
  ASSUME Typed, write_direct
  PROVE  Typed'
<1>0. /\ inodes \in [Files -> Inode] /\ wr \in WriteCall /\ files \subseteq Files
      /\ blocks \in [Blocks -> [Words -> Nat]]
      /\ block_map \subseteq Blocks /\ Metadata \subseteq block_map
  BY DEF Typed, TypeOK
<1> USE <1>0, Constants
<1> DEFINE ptr  == inodes[wr.f].direct[wr.i]
           next == Reset(Filling(ptr), ptr)
           on   == IF wr.i + 1 < N_DIRECT THEN [next EXCEPT !.i = @ + 1] ELSE ToLevel1(next)
<1>1. wr.stage = "direct" /\ wr.stage \in Active
  BY Zenon DEF write_direct, Active, Stages
<1>2. CASE NoSpace(ptr)
  BY <1>2, NoBlockTyped
<1>3. CASE ~NoSpace(ptr)
  <2>1. /\ Usable(ptr)
        /\ block_map' = Alloc(ptr)
        /\ inodes' = [inodes EXCEPT ![wr.f].direct[wr.i] = Target(ptr),
                                    ![wr.f].size = @ + Chunk(ptr)]
        /\ blocks' = [blocks EXCEPT ![Target(ptr)] = Filled(ptr)]
        /\ wr' = Onward(ptr, on) /\ files' = files
    BY <1>3, Zenon DEF write_direct
  <2>2. /\ wr.f \in Files /\ inodes[wr.f] \in Inode /\ wr.i \in 0 .. N_DIRECT - 1
    BY <1>1, InCall
  <2>3. inodes' \in [Files -> Inode] /\ inodes'[wr.f].size = inodes[wr.f].size + Chunk(ptr)
    <3>1. Target(ptr) \in Blocks /\ inodes[wr.f].size + Chunk(ptr) \in 0 .. MaxSize
      BY <1>1, <2>1, FillTypes, FillingBounds, Zenon
    <3> HIDE DEF ptr
    <3> QED BY <2>1, <2>2, <3>1 DEF Inode
  <2>4. /\ Filling(ptr) \in WriteCall /\ Filling(ptr).f = wr.f
        /\ Filling(ptr).i = wr.i /\ Filling(ptr).stage = wr.stage
    BY <1>1, FillingBounds
  <2>5. /\ on \in WriteCall /\ SameData(on, Filling(ptr))
        /\ IF on.stage = "direct" THEN on.i < N_DIRECT ELSE on.i < ADDR_PER_BLOCK
    <3>1. /\ next \in WriteCall /\ SameData(next, Filling(ptr))
          /\ next.i = wr.i /\ next.stage = "direct"
      <4> HIDE DEF ptr
      <4> QED BY <1>1, <2>4, ResetLocals
    <3> HIDE DEF next
    <3>2. CASE wr.i + 1 < N_DIRECT
      <4>1. on = Moved(next, "direct", wr.i + 1, next.j)
        BY <3>1, <3>2 DEF WriteCall, Moved
      <4>2. /\ wr.i + 1 \in 0 .. ADDR_PER_BLOCK + N_DIRECT /\ next.j \in Words
            /\ "direct" \in Stages
        BY <2>2, <3>1, <3>2 DEF WriteCall, Stages
      <4>4. /\ Moved(next, "direct", wr.i + 1, next.j) \in WriteCall
            /\ SameData(Moved(next, "direct", wr.i + 1, next.j), next)
            /\ Moved(next, "direct", wr.i + 1, next.j).stage = "direct"
            /\ Moved(next, "direct", wr.i + 1, next.j).i = wr.i + 1
        BY <3>1, <4>2 DEF Moved, WriteCall, SameData
      <4>3. on \in WriteCall /\ SameData(on, next) /\ on.stage = "direct" /\ on.i = wr.i + 1
        <5> HIDE DEF on
        <5> QED BY <4>1, <4>4
      <4> QED BY <3>1, <3>2, <4>3 DEF SameData
    <3>3. CASE ~(wr.i + 1 < N_DIRECT)
      <4>1. on = ToLevel1(next)
        BY <3>3
      <4>2. on \in WriteCall /\ SameData(on, next) /\ on.stage = "table1" /\ on.i = 0
        <5> HIDE DEF on
        <5> QED BY <3>1, <4>1, LevelLocals
      <4> QED BY <3>1, <4>2 DEF SameData
    <3> QED BY <3>2, <3>3
  <2>6. wr' \in WriteCall /\ WriteBounds'
    <3> HIDE DEF on, ptr
    <3> QED BY <1>1, <2>1, <2>3, <2>5, OnwardTyped
  <2>7. block_map' \subseteq Blocks /\ Metadata \subseteq block_map'
        /\ blocks' \in [Blocks -> [Words -> Nat]]
    <3> HIDE DEF ptr
    <3> QED BY <1>1, <2>1, FillTypes
  <2> QED BY <2>1, <2>3, <2>6, <2>7, TypedParts, Zenon
<1> QED BY <1>2, <1>3

LEMMA Table1Typed ==
  ASSUME Typed, write_table1
  PROVE  Typed'
<1>0. /\ inodes \in [Files -> Inode] /\ wr \in WriteCall /\ files \subseteq Files
      /\ blocks \in [Blocks -> [Words -> Nat]]
      /\ block_map \subseteq Blocks /\ Metadata \subseteq block_map
  BY DEF Typed, TypeOK
<1> DEFINE ptr == inodes[wr.f].indir_1
<1>1. wr.stage = "table1" /\ wr.stage \in Active
  BY DEF write_table1, Active, Stages
<1>2. CASE NoSpace(ptr)
  BY <1>2, NoBlockTyped
<1>3. CASE ~NoSpace(ptr)
  <2>1. /\ Usable(ptr)
        /\ block_map' = Alloc(ptr)
        /\ inodes' = [inodes EXCEPT ![wr.f].indir_1 = Target(ptr)]
        /\ blocks' = IF ptr = 0 THEN [blocks EXCEPT ![Target(ptr)] = ZeroBlock] ELSE blocks
        /\ wr' = [wr EXCEPT !.stage = "level1"] /\ files' = files
    BY <1>3 DEF write_table1
  <2> HIDE DEF ptr
  <2>2. wr.f \in Files /\ Target(ptr) \in Blocks
    BY <1>0, <1>1, <2>1, FillTypes DEF Typed, WriteBounds
  <2>3. inodes' \in [Files -> Inode] /\ inodes'[wr.f].size = inodes[wr.f].size
    BY <1>0, <2>1, <2>2 DEF Inode
  <2>4. wr' \in WriteCall /\ WriteBounds'
    <3>1. "level1" \in Active \ {"direct"}
      BY DEF Active, Stages
    <3> QED BY <1>1, <2>1, <2>3, <3>1, SameDataTyped
  <2>5. block_map' \subseteq Blocks /\ Metadata \subseteq block_map'
    BY <1>0, <1>1, <2>1, FillTypes
  <2>6. blocks' \in [Blocks -> [Words -> Nat]]
    BY <1>0, <2>1, <2>2 DEF ZeroBlock
  <2> QED BY <1>0, <2>1, <2>3, <2>4, <2>5, <2>6, TypedParts
<1> QED BY <1>2, <1>3

LEMMA Level1Typed ==
  ASSUME Typed, write_level1
  PROVE  Typed'
<1>0. /\ inodes \in [Files -> Inode] /\ wr \in WriteCall /\ files \subseteq Files
      /\ blocks \in [Blocks -> [Words -> Nat]]
      /\ block_map \subseteq Blocks /\ Metadata \subseteq block_map
  BY DEF Typed, TypeOK
<1> DEFINE table == inodes[wr.f].indir_1
           ptr   == blocks[table][wr.i]
           next  == Reset(Filling(ptr), ptr)
           on    == IF wr.i + 1 < ADDR_PER_BLOCK THEN [next EXCEPT !.i = @ + 1]
                    ELSE ToLevel2(next)
<1>1. wr.stage = "level1" /\ wr.stage \in Active
  BY Zenon DEF write_level1, Active, Stages
<1>2. CASE NoSpace(ptr) \/ Abort(ptr)
  BY <1>2, NoBlockTyped
<1>3. CASE ~(NoSpace(ptr) \/ Abort(ptr))
  <2>1. /\ Usable(ptr)
        /\ block_map' = Alloc(ptr)
        /\ inodes' = [inodes EXCEPT ![wr.f].size = @ + Chunk(ptr)]
        /\ blocks' = [blocks EXCEPT ![table][wr.i] = Target(ptr),
                                    ![Target(ptr)] = Filled(ptr)]
        /\ wr' = Onward(ptr, on) /\ files' = files
    BY <1>3, Zenon DEF write_level1
  <2>2. wr.f \in Files /\ inodes[wr.f] \in Inode /\ wr.i \in Words /\ table \in Blocks
    BY <1>1, InCall
  <2> HIDE DEF ptr, table
  <2>3. /\ Target(ptr) \in Blocks /\ Target(ptr) \in Nat /\ Filled(ptr) \in [Words -> Nat]
        /\ inodes[wr.f].size + Chunk(ptr) \in 0 .. MaxSize
    BY <1>1, <2>1, FillTypes, FillingBounds, Constants
  <2>4. inodes' \in [Files -> Inode] /\ inodes'[wr.f].size = inodes[wr.f].size + Chunk(ptr)
    BY <1>0, <2>1, <2>2, <2>3 DEF Inode
  <2>5. /\ next \in WriteCall /\ SameData(next, Filling(ptr))
        /\ next.i = wr.i /\ next.stage = "level1"
    BY <1>1, FillingBounds, ResetLocals
  <2>6. /\ on \in WriteCall /\ SameData(on, Filling(ptr))
        /\ on.stage # "direct" /\ on.i < ADDR_PER_BLOCK
    <3> HIDE DEF next
    <3>1. CASE wr.i + 1 < ADDR_PER_BLOCK
      <4>1. on = Moved(next, "level1", wr.i + 1, next.j)
        BY <2>5, <3>1 DEF WriteCall, Moved
      <4>2. /\ wr.i + 1 \in 0 .. ADDR_PER_BLOCK + N_DIRECT /\ next.j \in Words
            /\ "level1" \in Stages
        BY <2>2, <2>5, <3>1, Constants DEF WriteCall, Stages, Words
      <4>4. /\ Moved(next, "level1", wr.i + 1, next.j) \in WriteCall
            /\ SameData(Moved(next, "level1", wr.i + 1, next.j), next)
            /\ Moved(next, "level1", wr.i + 1, next.j).stage = "level1"
            /\ Moved(next, "level1", wr.i + 1, next.j).i = wr.i + 1
        BY <2>5, <4>2, MovedLocals
      <4>3. on \in WriteCall /\ SameData(on, next) /\ on.stage = "level1" /\ on.i = wr.i + 1
        <5> HIDE DEF on
        <5> QED BY <4>1, <4>4
      <4> QED BY <2>5, <3>1, <4>3 DEF SameData
    <3>2. CASE ~(wr.i + 1 < ADDR_PER_BLOCK)
      <4>1. on = ToLevel2(next)
        BY <3>2
      <4>2. on \in WriteCall /\ SameData(on, next) /\ on.stage = "table2" /\ on.i = 0
        <5> HIDE DEF on
        <5> QED BY <2>5, <4>1, LevelLocals
      <4> QED BY <2>5, <4>2, Constants DEF SameData
    <3> QED BY <3>1, <3>2
  <2>7. wr' \in WriteCall /\ WriteBounds'
    <3> HIDE DEF on
    <3> QED BY <1>1, <2>1, <2>4, <2>6, OnwardTyped
  <2>8. block_map' \subseteq Blocks /\ Metadata \subseteq block_map'
    BY <1>0, <1>1, <2>1, FillTypes
  <2>9. blocks' \in [Blocks -> [Words -> Nat]]
    BY <1>0, <2>1, <2>2, <2>3
  <2> QED BY <1>0, <2>1, <2>4, <2>7, <2>8, <2>9, TypedParts, Zenon
<1> QED BY <1>2, <1>3

LEMMA Table2Typed ==
  ASSUME Typed, write_table2
  PROVE  Typed'
<1>0. /\ inodes \in [Files -> Inode] /\ wr \in WriteCall /\ files \subseteq Files
      /\ blocks \in [Blocks -> [Words -> Nat]]
      /\ block_map \subseteq Blocks /\ Metadata \subseteq block_map
  BY DEF Typed, TypeOK
<1> DEFINE ptr == inodes[wr.f].indir_2
<1>1. wr.stage = "table2" /\ wr.stage \in Active
  BY DEF write_table2, Active, Stages
<1>2. CASE NoSpace(ptr)
  BY <1>2, NoBlockTyped
<1>3. CASE ~NoSpace(ptr)
  <2>1. /\ Usable(ptr)
        /\ block_map' = Alloc(ptr)
        /\ inodes' = [inodes EXCEPT ![wr.f].indir_2 = Target(ptr)]
        /\ blocks' = IF ptr = 0 THEN [blocks EXCEPT ![Target(ptr)] = ZeroBlock] ELSE blocks
        /\ wr' = [wr EXCEPT !.stage = "outer"] /\ files' = files
    BY <1>3 DEF write_table2
  <2> HIDE DEF ptr
  <2>2. wr.f \in Files /\ Target(ptr) \in Blocks
    BY <1>0, <1>1, <2>1, FillTypes DEF Typed, WriteBounds
  <2>3. inodes' \in [Files -> Inode] /\ inodes'[wr.f].size = inodes[wr.f].size
    BY <1>0, <2>1, <2>2 DEF Inode
  <2>4. wr' \in WriteCall /\ WriteBounds'
    <3>1. "outer" \in Active \ {"direct"}
      BY DEF Active, Stages
    <3> QED BY <1>1, <2>1, <2>3, <3>1, SameDataTyped
  <2>5. block_map' \subseteq Blocks /\ Metadata \subseteq block_map'
    BY <1>0, <1>1, <2>1, FillTypes
  <2>6. blocks' \in [Blocks -> [Words -> Nat]]
    BY <1>0, <2>1, <2>2 DEF ZeroBlock
  <2> QED BY <1>0, <2>1, <2>3, <2>4, <2>5, <2>6, TypedParts
<1> QED BY <1>2, <1>3

LEMMA OuterTyped ==
  ASSUME Typed, write_outer
  PROVE  Typed'
<1>0. /\ inodes \in [Files -> Inode] /\ wr \in WriteCall /\ files \subseteq Files
      /\ blocks \in [Blocks -> [Words -> Nat]]
      /\ block_map \subseteq Blocks /\ Metadata \subseteq block_map
  BY DEF Typed, TypeOK
<1> DEFINE table == inodes[wr.f].indir_2
           ptr   == blocks[table][wr.i]
<1>1. wr.stage = "outer" /\ wr.stage \in Active
  BY DEF write_outer, Active, Stages
<1>2. CASE NoSpace(ptr) \/ Abort(ptr)
  BY <1>2, NoBlockTyped
<1>3. CASE ~(NoSpace(ptr) \/ Abort(ptr))
  <2>1. /\ Usable(ptr)
        /\ block_map' = Alloc(ptr)
        /\ blocks' = [blocks EXCEPT ![table][wr.i] = Target(ptr)]
        /\ wr' = [wr EXCEPT !.stage = "inner"] /\ inodes' = inodes /\ files' = files
    BY <1>3 DEF write_outer
  <2>2. wr.f \in Files /\ inodes[wr.f] \in Inode /\ wr.i \in Words /\ table \in Blocks
    BY <1>1, InCall
  <2> HIDE DEF ptr, table
  <2>3. Target(ptr) \in Nat
    BY <1>1, <2>1, FillTypes, Constants
  <2>4. wr' \in WriteCall /\ WriteBounds'
    <3>1. "inner" \in Active \ {"direct"}
      BY DEF Active, Stages
    <3> QED BY <1>1, <2>1, <3>1, SameDataTyped
  <2>5. block_map' \subseteq Blocks /\ Metadata \subseteq block_map'
    BY <1>0, <1>1, <2>1, FillTypes
  <2>6. blocks' \in [Blocks -> [Words -> Nat]]
    BY <1>0, <2>1, <2>2, <2>3
  <2> QED BY <1>0, <2>1, <2>4, <2>5, <2>6, TypedParts
<1> QED BY <1>2, <1>3

LEMMA InnerTyped ==
  ASSUME Typed, write_inner
  PROVE  Typed'
<1>0. /\ inodes \in [Files -> Inode] /\ wr \in WriteCall /\ files \subseteq Files
      /\ blocks \in [Blocks -> [Words -> Nat]]
      /\ block_map \subseteq Blocks /\ Metadata \subseteq block_map
  BY DEF Typed, TypeOK
<1> DEFINE table == blocks[inodes[wr.f].indir_2][wr.i]
           ptr   == blocks[table][wr.j]
           next  == Filling(ptr)
           on    == IF wr.j + 1 < ADDR_PER_BLOCK THEN [next EXCEPT !.j = @ + 1]
                    ELSE IF wr.i + 1 < ADDR_PER_BLOCK
                    THEN [next EXCEPT !.stage = "outer", !.i = @ + 1, !.j = 0]
                    ELSE [next EXCEPT !.stage = "cleanup"]
<1>1. wr.stage = "inner" /\ wr.stage \in Active
  BY Zenon DEF write_inner, Active, Stages
<1>2. CASE NoSpace(ptr) \/ Abort(ptr)
  BY <1>2, NoBlockTyped
<1>3. CASE ~(NoSpace(ptr) \/ Abort(ptr))
  <2>1. /\ Usable(ptr)
        /\ block_map' = Alloc(ptr)
        /\ inodes' = [inodes EXCEPT ![wr.f].size = @ + Chunk(ptr)]
        /\ blocks' = [blocks EXCEPT ![Target(ptr)] = Filled(ptr),
                                    ![table] = [blocks[table] EXCEPT ![wr.j] = Target(ptr)]]
        /\ wr' = Onward(ptr, on) /\ files' = files
    BY <1>3, Zenon DEF write_inner
  <2>2. wr.f \in Files /\ inodes[wr.f] \in Inode /\ wr.i \in Words /\ wr.j \in Words
    BY <1>1, InCall
  <2> HIDE DEF ptr, table
  <2>3. /\ Target(ptr) \in Blocks /\ Target(ptr) \in Nat /\ Filled(ptr) \in [Words -> Nat]
        /\ inodes[wr.f].size + Chunk(ptr) \in 0 .. MaxSize
    BY <1>1, <2>1, FillTypes, FillingBounds, Constants
  <2>4. inodes' \in [Files -> Inode] /\ inodes'[wr.f].size = inodes[wr.f].size + Chunk(ptr)
    BY <1>0, <2>1, <2>2, <2>3 DEF Inode
  <2>5. /\ next \in WriteCall /\ SameData(next, Filling(ptr))
        /\ next.i = wr.i /\ next.j = wr.j /\ next.stage = "inner"
    BY <1>1, FillingBounds DEF SameData
  <2>6. /\ on \in WriteCall /\ SameData(on, Filling(ptr))
        /\ on.stage # "direct" /\ on.i < ADDR_PER_BLOCK
    <3> HIDE DEF next
    <3>0. /\ wr.i \in 0 .. ADDR_PER_BLOCK + N_DIRECT /\ wr.i < ADDR_PER_BLOCK
          /\ wr.i + 1 \in 0 .. ADDR_PER_BLOCK + N_DIRECT /\ 0 \in Words
          /\ {"inner", "outer", "cleanup"} \subseteq Stages
      BY <2>2, Constants DEF Stages, Words
    <3>1. CASE wr.j + 1 < ADDR_PER_BLOCK
      <4>1. on = Moved(next, "inner", wr.i, wr.j + 1)
        BY <2>5, <3>1 DEF WriteCall, Moved
      <4>2. wr.j + 1 \in Words
        BY <2>2, <3>1, Constants DEF Words
      <4>4. /\ Moved(next, "inner", wr.i, wr.j + 1) \in WriteCall
            /\ SameData(Moved(next, "inner", wr.i, wr.j + 1), next)
            /\ Moved(next, "inner", wr.i, wr.j + 1).stage = "inner"
            /\ Moved(next, "inner", wr.i, wr.j + 1).i = wr.i
        BY <2>5, <3>0, <4>2, MovedLocals
      <4>3. on \in WriteCall /\ SameData(on, next) /\ on.stage = "inner" /\ on.i = wr.i
        <5> HIDE DEF on
        <5> QED BY <4>1, <4>4
      <4> QED BY <2>5, <3>0, <4>3 DEF SameData
    <3>2. CASE ~(wr.j + 1 < ADDR_PER_BLOCK) /\ wr.i + 1 < ADDR_PER_BLOCK
      <4>1. on = Moved(next, "outer", wr.i + 1, 0)
        BY <2>5, <3>2 DEF WriteCall, Moved
      <4>4. /\ Moved(next, "outer", wr.i + 1, 0) \in WriteCall
            /\ SameData(Moved(next, "outer", wr.i + 1, 0), next)
            /\ Moved(next, "outer", wr.i + 1, 0).stage = "outer"
            /\ Moved(next, "outer", wr.i + 1, 0).i = wr.i + 1
        BY <2>5, <3>0, MovedLocals
      <4>3. on \in WriteCall /\ SameData(on, next) /\ on.stage = "outer" /\ on.i = wr.i + 1
        <5> HIDE DEF on
        <5> QED BY <4>1, <4>4
      <4> QED BY <2>5, <3>2, <4>3 DEF SameData
    <3>3. CASE ~(wr.j + 1 < ADDR_PER_BLOCK) /\ ~(wr.i + 1 < ADDR_PER_BLOCK)
      <4>1. on = Moved(next, "cleanup", wr.i, wr.j)
        BY <2>5, <3>3 DEF WriteCall, Moved
      <4>4. /\ Moved(next, "cleanup", wr.i, wr.j) \in WriteCall
            /\ SameData(Moved(next, "cleanup", wr.i, wr.j), next)
            /\ Moved(next, "cleanup", wr.i, wr.j).stage = "cleanup"
            /\ Moved(next, "cleanup", wr.i, wr.j).i = wr.i
        BY <2>2, <2>5, <3>0 DEF Moved, WriteCall, SameData
      <4>3. on \in WriteCall /\ SameData(on, next) /\ on.stage = "cleanup" /\ on.i = wr.i
        <5> HIDE DEF on
        <5> QED BY <4>1, <4>4
      <4> QED BY <2>5, <3>0, <4>3 DEF SameData
    <3> QED BY <3>1, <3>2, <3>3
  <2>7. wr' \in WriteCall /\ WriteBounds'
    <3> HIDE DEF on
    <3> QED BY <1>1, <2>1, <2>4, <2>6, OnwardTyped
  <2>8. block_map' \subseteq Blocks /\ Metadata \subseteq block_map'
    BY <1>0, <1>1, <2>1, FillTypes
  <2>9. blocks' \in [Blocks -> [Words -> Nat]]
    BY <1>0, <2>1, <2>2, <2>3
  <2> QED BY <1>0, <2>1, <2>4, <2>7, <2>8, <2>9, TypedParts
<1> QED BY <1>2, <1>3

(* No write is under way.                                                  *)
LEMMA IdleCall == Idle \in WriteCall /\ Idle.stage = "idle"
<1>1. /\ "idle" \in Stages /\ 0 \in 0 .. ADDR_PER_BLOCK + N_DIRECT /\ 0 \in Words
      /\ 0 \in {-ENOSPC} \cup 0 .. MaxLen /\ 0 \in 0 .. MaxLen /\ 0 \in 0 .. MaxSize
  BY Constants DEF Stages
<1> QED BY <1>1 DEF Idle, WriteCall

(* The call of the whole write, before its first step.                     *)
Called(f, len, offset) ==
    [Idle EXCEPT !.f = f, !.len = len, !.offset = offset, !.pos = offset]

LEMMA EntryTyped ==
  ASSUME Typed, NEW f \in files, NEW len \in 1 .. MaxLen, NEW offset,
         offset \in 0 .. inodes[f].size, inodes[f].size + len <= MaxSize,
         fs_write(f, len, offset)
  PROVE  Typed'
<1> DEFINE n == offset \div ADDR_PER_BLOCK
           m == n - INDIRECT_BOUND
           w == Called(f, len, offset)
<1>1. /\ f \in Files /\ f \in Nat /\ inodes[f].size \in 0 .. MaxSize
      /\ offset \in 0 .. MaxSize /\ len \in 0 .. MaxLen /\ len > 0
  <2>1. inodes[f] \in Inode /\ f \in Files /\ f \in Nat
    BY FileAssumption DEF Typed, TypeOK
  <2>2. inodes[f].size \in 0 .. MaxSize
    BY <2>1 DEF Inode
  <2> QED BY <2>1, <2>2, Constants
<1>2. n \in Nat
  BY <1>1, Constants
<1>3. INDIRECT_BOUND \in Nat /\ INDIRECT_BOUND = N_DIRECT + ADDR_PER_BLOCK
      /\ SIZE_DOUBLE_INDIRECT = INDIRECT_BOUND + ADDR_PER_BLOCK * ADDR_PER_BLOCK
  BY Constants DEF INDIRECT_BOUND, SIZE_DOUBLE_INDIRECT
<1>4. w \in WriteCall /\ w.f = f /\ w.len = len /\ w.total = 0 /\ w.j = 0
  <2>1. w \in WriteCall
    BY <1>1, IdleCall DEF Called, WriteCall
  <2>2. w.f = f /\ w.len = len
    BY IdleCall DEF Called, WriteCall
  <2>3. Idle.total = 0 /\ Idle.j = 0
    BY DEF Idle
  <2>4. w.total = 0 /\ w.j = 0
    BY <2>3, IdleCall DEF Called, WriteCall
  <2> QED BY <2>1, <2>2, <2>4
<1>5. /\ UNCHANGED <<block_map, inodes, blocks, files>>
      /\ wr' = CASE n < N_DIRECT -> [w EXCEPT !.stage = "direct", !.i = n]
                 [] n \in N_DIRECT .. INDIRECT_BOUND - 1
                      -> [w EXCEPT !.stage = "table1", !.i = n - N_DIRECT]
                 [] n \in INDIRECT_BOUND .. SIZE_DOUBLE_INDIRECT - 1
                      -> [w EXCEPT !.stage = "table2", !.i = m \div ADDR_PER_BLOCK,
                                   !.j = m % ADDR_PER_BLOCK]
                 [] OTHER -> ToLevel1(w)
  BY DEF fs_write, Called
<1>6. ASSUME NEW v \in WriteCall, SameData(v, w), wr' = v,
             \/ v.stage = "direct" /\ v.i < N_DIRECT
             \/ v.stage \in {"table1", "table2"} /\ v.i < ADDR_PER_BLOCK
      PROVE  Typed'
  <2>1. WriteBounds'
    <3> HIDE DEF w
    <3>1. /\ files' = files /\ inodes' = inodes
          /\ wr'.f = f /\ wr'.len = len /\ wr'.total = 0
          /\ IF wr'.stage = "direct" THEN wr'.i < N_DIRECT ELSE wr'.i < ADDR_PER_BLOCK
      BY <1>4, <1>5, <1>6 DEF SameData
    <3> QED BY <1>1, <3>1, Constants DEF WriteBounds
  <2> QED BY <1>5, <1>6, <2>1 DEF Typed, TypeOK
<1> HIDE DEF w
<1>7. CASE n < N_DIRECT
  <2>0. wr' = [w EXCEPT !.stage = "direct", !.i = n]
    <3> HIDE DEF n, m
    <3>1. /\ n \notin N_DIRECT .. INDIRECT_BOUND - 1
          /\ n \notin INDIRECT_BOUND .. SIZE_DOUBLE_INDIRECT - 1
      BY <1>2, <1>3, <1>7, Constants
    <3> QED BY <1>5, <1>7, <3>1
  <2>1. wr' = Moved(w, "direct", n, 0)
    BY <1>4, <2>0 DEF Moved, WriteCall
  <2>2. "direct" \in Stages /\ n \in 0 .. ADDR_PER_BLOCK + N_DIRECT /\ 0 \in Words
    BY <1>2, <1>7, Constants DEF Stages
  <2> HIDE DEF n
  <2>3. /\ Moved(w, "direct", n, 0) \in WriteCall /\ SameData(Moved(w, "direct", n, 0), w)
        /\ Moved(w, "direct", n, 0).stage = "direct" /\ Moved(w, "direct", n, 0).i = n
    BY <1>4, <2>2, MovedLocals
  <2> QED BY <1>6, <1>7, <2>1, <2>3
<1>8. CASE n \in N_DIRECT .. INDIRECT_BOUND - 1
  <2>0. ~(n < N_DIRECT)
    BY <1>2, <1>8, Constants
  <2>5. wr' = [w EXCEPT !.stage = "table1", !.i = n - N_DIRECT]
    <3> HIDE DEF n, m
    <3>1. n \notin INDIRECT_BOUND .. SIZE_DOUBLE_INDIRECT - 1
      BY <1>2, <1>3, <1>8, Constants
    <3> QED BY <1>5, <1>8, <2>0, <3>1
  <2>1. wr' = Moved(w, "table1", n - N_DIRECT, 0)
    BY <1>4, <2>5 DEF Moved, WriteCall
  <2>2. /\ "table1" \in Stages /\ n - N_DIRECT \in 0 .. ADDR_PER_BLOCK + N_DIRECT
        /\ 0 \in Words /\ n - N_DIRECT < ADDR_PER_BLOCK
    BY <1>2, <1>3, <1>8, Constants DEF Stages
  <2> HIDE DEF n
  <2> DEFINE k == n - N_DIRECT
  <2>3. wr' = Moved(w, "table1", k, 0) /\ k \in 0 .. ADDR_PER_BLOCK + N_DIRECT
        /\ k < ADDR_PER_BLOCK
    BY <2>1, <2>2
  <2> HIDE DEF k
  <2>4. /\ Moved(w, "table1", k, 0) \in WriteCall /\ SameData(Moved(w, "table1", k, 0), w)
        /\ Moved(w, "table1", k, 0).stage = "table1" /\ Moved(w, "table1", k, 0).i = k
    BY <1>4, <2>2, <2>3, MovedLocals
  <2> QED BY <1>6, <2>3, <2>4
<1>9. CASE n \in INDIRECT_BOUND .. SIZE_DOUBLE_INDIRECT - 1
  <2>0. ~(n < N_DIRECT) /\ n \notin N_DIRECT .. INDIRECT_BOUND - 1
    BY <1>2, <1>3, <1>9, Constants
  <2>1. m \in Nat /\ m < ADDR_PER_BLOCK * ADDR_PER_BLOCK
    BY <1>2, <1>3, <1>9, Constants
  <2> DEFINE a == m \div ADDR_PER_BLOCK
             b == m % ADDR_PER_BLOCK
  <2>2. a \in Nat /\ a < ADDR_PER_BLOCK /\ b \in Words
    <3> HIDE DEF m
    <3> QED BY <2>1, Constants DEF Words
  <2>3. /\ a \in 0 .. ADDR_PER_BLOCK + N_DIRECT /\ "table2" \in Stages
    BY <2>2, Constants DEF Stages
  <2>4. wr' = Moved(w, "table2", a, b)
    BY <1>4, <1>5, <1>9, <2>0 DEF Moved, WriteCall
  <2> HIDE DEF a, b
  <2>5. /\ Moved(w, "table2", a, b) \in WriteCall /\ SameData(Moved(w, "table2", a, b), w)
        /\ Moved(w, "table2", a, b).stage = "table2" /\ Moved(w, "table2", a, b).i = a
    BY <1>4, <2>2, <2>3, MovedLocals
  <2> QED BY <1>6, <2>2, <2>4, <2>5
<1>10. CASE /\ ~(n < N_DIRECT) /\ n \notin N_DIRECT .. INDIRECT_BOUND - 1
            /\ n \notin INDIRECT_BOUND .. SIZE_DOUBLE_INDIRECT - 1
  <2>1. wr' = ToLevel1(w)
    BY <1>5, <1>10
  <2>2. /\ ToLevel1(w) \in WriteCall /\ SameData(ToLevel1(w), w)
        /\ ToLevel1(w).stage = "table1" /\ ToLevel1(w).i = 0
    BY <1>4, LevelLocals
  <2> QED BY <1>6, <2>1, <2>2, Constants
<1> QED BY <1>7, <1>8, <1>9, <1>10

(* The other handlers run while no write does.                             *)
LEMMA IdleTyped ==
  ASSUME block_map' \subseteq Blocks, Metadata \subseteq block_map',
         inodes' \in [Files -> Inode], blocks' \in [Blocks -> [Words -> Nat]],
         files' \subseteq Files, wr' \in WriteCall, wr'.stage = "idle"
  PROVE  Typed'
BY DEF Typed, TypeOK, WriteBounds, Active

(* A truncated inode is an inode.                                          *)
LEMMA TruncatedInode ==
  ASSUME NEW inode \in Inode
  PROVE  /\ Truncated(inode) \in Inode
         /\ Truncated(inode).indir_1 = inode.indir_1 /\ Truncated(inode).indir_2 = inode.indir_2
         /\ Truncated(inode).size = 0
         /\ \A k \in 0 .. N_DIRECT - 1 : Truncated(inode).direct[k] \in {0, inode.direct[k]}
<1> DEFINE d == [k \in DOMAIN inode.direct |->
                   IF \A l \in 0 .. k : inode.direct[l] # 0 THEN 0 ELSE inode.direct[k]]
<1>1. inode.direct \in [0 .. N_DIRECT - 1 -> Blocks]
  BY DEF Inode
<1>2. d \in [0 .. N_DIRECT - 1 -> Blocks] /\ \A k \in 0 .. N_DIRECT - 1 : d[k] \in {0, inode.direct[k]}
  BY <1>1, Constants
<1>3. Truncated(inode) = [inode EXCEPT !.size = 0, !.direct = d]
  BY DEF Truncated, Inode
<1> HIDE DEF d
<1>4. 0 \in 0 .. MaxSize
  BY Constants
<1>5. Truncated(inode) \in Inode
  BY <1>2, <1>3, <1>4 DEF Inode
<1> QED BY <1>2, <1>3, <1>5 DEF Inode

LEMMA TruncateTyped ==
  ASSUME Typed, NEW f \in Files, truncate(f), files' \subseteq files
  PROVE  Typed'
<1>0. /\ inodes \in [Files -> Inode] /\ wr \in WriteCall /\ files \subseteq Files
      /\ blocks \in [Blocks -> [Words -> Nat]]
      /\ block_map \subseteq Blocks /\ Metadata \subseteq block_map
  BY DEF Typed, TypeOK
<1>1. block_map' \subseteq Blocks
  BY <1>0 DEF truncate
<1>2. Metadata \subseteq block_map'
  <2> SUFFICES ASSUME NEW b \in Metadata, NEW c
               PROVE  b \in free_a_block(block_map, c)
    BY <1>0 DEF truncate
  <2> QED BY <1>0, LayoutAssumption DEF free_a_block, Metadata
<1>3. inodes' \in [Files -> Inode]
  BY <1>0, TruncatedInode DEF truncate
<1> QED BY <1>0, <1>1, <1>2, <1>3, IdleTyped DEF truncate

LEMMA ZeroInodeType == ZeroInode \in Inode
<1>1. 0 \in 0 .. MaxSize /\ 0 \in Blocks
  BY Constants
<1> QED BY <1>1 DEF ZeroInode, Inode

LEMMA InitTyped == Init => Typed
<1> SUFFICES ASSUME Init PROVE Typed
  OBVIOUS
<1>1. block_map \subseteq Blocks /\ Metadata \subseteq block_map
  BY LayoutAssumption DEF Init, Metadata, Blocks
<1>2. blocks \in [Blocks -> [Words -> Nat]]
  <2>1. ZeroBlock \in [Words -> Nat]
    BY DEF ZeroBlock
  <2>2. Superblock \in [Words -> Nat]
    BY LayoutAssumption DEF Superblock
  <2> QED BY <2>1, <2>2 DEF Init
<1>3. inodes \in [Files -> Inode]
  BY ZeroInodeType DEF Init
<1>4. wr \in WriteCall /\ wr.stage = "idle"
  BY IdleCall DEF Init
<1> QED BY <1>1, <1>2, <1>3, <1>4 DEF Init, Typed, TypeOK, WriteBounds, Active

(* Every step of every handler keeps the types.                            *)
LEMMA WriteStepTyped ==
  ASSUME Typed, WriteStep
  PROVE  Typed'
<1>1. CASE write_return
  BY <1>1, IdleCall, IdleTyped DEF write_return, Typed, TypeOK
<1> QED BY <1>1, DirectTyped, Table1Typed, Level1Typed, Table2Typed, OuterTyped, InnerTyped
        DEF WriteStep

LEMMA NextTyped == Typed /\ [Next]_vars => Typed'
<1> SUFFICES ASSUME Typed, [Next]_vars PROVE Typed'
  OBVIOUS
<1>1. CASE Write
  <2>1. PICK f \in files, len \in 1 .. MaxLen :
          /\ inodes[f].size + len <= MaxSize
          /\ \E offset \in 0 .. inodes[f].size : fs_write(f, len, offset)
    <3>1. \A f \in files : inodes[f].size \in Nat
      BY DEF Typed, TypeOK, Inode
    <3> QED BY <1>1, <3>1 DEF Write
  <2> QED BY <2>1, EntryTyped
<1>2. CASE WriteStep
  BY <1>2, WriteStepTyped
<1>3. ASSUME NEW f \in Files, fs_truncate(f) PROVE Typed'
  BY <1>3, TruncateTyped DEF fs_truncate
<1>4. ASSUME NEW f \in Files, fs_unlink(f) PROVE Typed'
  BY <1>4, TruncateTyped DEF fs_unlink
<1>5. ASSUME NEW f \in Files, fs_mknod(f) PROVE Typed'
  BY <1>5, ZeroInodeType, IdleTyped DEF fs_mknod, Typed, TypeOK
<1>6. CASE UNCHANGED vars
  BY <1>6 DEF vars, Typed, TypeOK, WriteBounds
<1> QED BY <1>1, <1>2, <1>3, <1>4, <1>5, <1>6 DEF Next, Truncatable, Removable

LEMMA AlwaysTyped == Spec => []Typed
BY InitTyped, NextTyped, PTL DEF Spec

(* Whatever clients do, and however space runs out, the handlers keep the  *)
(* bitmap, inodes and blocks well typed, and the loops of fs_write within  *)
(* the arrays they walk through.                                           *)
THEOREM FileTypes == Spec => []TypeOK
<1>1. Typed => TypeOK
  BY DEF Typed
<1> QED BY <1>1, AlwaysTyped, PTL

-----------------------------------------------------------------------------
(* Termination.  A step that fills a part of a block leaves less data, one *)
(* that takes a table is closer to the block.                              *)
Closer == StepsLeft' \in 0 .. StepsLeft - 1

LEMMA Ranks ==
  /\ Rank("idle") = 0 /\ Rank("abort") = 0 /\ Rank("cleanup") = 1
  /\ Rank("direct") = 2 /\ Rank("level1") = 2 /\ Rank("inner") = 2
  /\ Rank("table1") = 3 /\ Rank("outer") = 3 /\ Rank("table2") = 4
  /\ \A s \in Stages : Rank(s) \in 0 .. 4
  /\ \A s \in Active : Rank(s) \in 2 .. 4
<1>1. /\ Rank("idle") = 0 /\ Rank("abort") = 0 /\ Rank("cleanup") = 1
      /\ Rank("direct") = 2 /\ Rank("level1") = 2 /\ Rank("inner") = 2
      /\ Rank("table1") = 3 /\ Rank("outer") = 3 /\ Rank("table2") = 4
  BY DEF Rank
<1> QED BY <1>1 DEF Stages, Active

(* The call goes on to stage s with the same data, or with less.           *)
LEMMA GoesOn ==
  ASSUME NEW s \in Stages, wr.len \in Nat, wr.stage \in Stages, wr'.stage = s,
         \/ wr'.len = wr.len /\ Rank(s) < Rank(wr.stage)
         \/ wr'.len \in 0 .. wr.len - 1 /\ Rank(s) < Rank(wr.stage) + 3
  PROVE  Closer
<1>1. Rank(s) \in Nat /\ Rank(wr.stage) \in Nat
  BY Ranks
<1>2. PICK a \in Nat : a = Rank(s)
  BY <1>1
<1>3. PICK b \in Nat : b = Rank(wr.stage)
  BY <1>1
<1>4. StepsLeft = 3 * wr.len + b /\ StepsLeft' = 3 * wr'.len + a
  BY <1>2, <1>3 DEF StepsLeft, Rank
<1> QED BY <1>2, <1>3, <1>4 DEF Closer

(* There is no block for the step, or one outside the image.               *)
LEMMA NoBlockCloser ==
  ASSUME Typed, wr.stage \in Active, NEW ptr, NoSpace(ptr) \/ Abort(ptr)
  PROVE  Closer
<1>1. wr \in WriteCall /\ wr.stage \in Stages /\ {"cleanup", "abort"} \subseteq Stages
  BY DEF Typed, TypeOK, Active, Stages
<1>2. wr'.len = wr.len /\ wr'.stage \in {"cleanup", "abort"}
  BY <1>1 DEF NoSpace, Abort, WriteCall
<1>3. wr.len \in Nat
  BY <1>1 DEF WriteCall
<1>4. Rank(wr'.stage) < Rank(wr.stage)
  BY <1>2, Ranks
<1> QED BY <1>1, <1>2, <1>3, <1>4, GoesOn

(* A table is there, or was taken.                                         *)
LEMMA TableCloser ==
  ASSUME Typed, wr.stage \in Active, NEW s \in Active, Rank(s) < Rank(wr.stage),
         wr' = [wr EXCEPT !.stage = s]
  PROVE  Closer
<1>1. wr \in WriteCall /\ wr.stage \in Stages /\ s \in Stages
  BY DEF Typed, TypeOK, Active
<1>2. wr'.len = wr.len /\ wr'.stage = s /\ wr.len \in Nat
  BY <1>1 DEF WriteCall
<1> QED BY <1>1, <1>2, GoesOn

(* A part of a block was filled.                                           *)
LEMMA FillCloser ==
  ASSUME Typed, wr.stage \in {"direct", "level1", "inner"}, NEW ptr, NEW next \in WriteCall,
         next.len = Filling(ptr).len, wr' = Onward(ptr, next)
  PROVE  Closer
<1>1. wr.stage \in Active /\ wr.stage \in Stages /\ "cleanup" \in Stages
  BY DEF Active, Stages
<1>2. Chunk(ptr) \in 1 .. wr.len /\ wr.len \in Nat
  BY <1>1, FillBounds DEF Typed, TypeOK, WriteCall
<1>3. Filling(ptr) \in WriteCall /\ Filling(ptr).len = wr.len - Chunk(ptr)
  BY <1>1, FillingBounds
<1>4. wr'.len = wr.len - Chunk(ptr) /\ wr'.stage \in Stages
  <2>1. CASE Filling(ptr).len = 0
    <3>1. wr' = [Filling(ptr) EXCEPT !.stage = "cleanup"]
      BY <2>1 DEF Onward
    <3> QED BY <1>1, <1>3, <3>1 DEF WriteCall
  <2>2. CASE Filling(ptr).len # 0
    <3>1. wr' = next
      BY <2>2 DEF Onward
    <3> QED BY <1>3, <3>1 DEF WriteCall
  <2> QED BY <2>1, <2>2
<1>5. wr'.len \in 0 .. wr.len - 1
  BY <1>2, <1>4
<1>6. Rank(wr'.stage) < Rank(wr.stage) + 3
  BY <1>4, Ranks
<1> QED BY <1>1, <1>2, <1>4, <1>5, <1>6, GoesOn

LEMMA StepCloser ==
  ASSUME Typed, WriteStep
  PROVE  Closer
<1>0. wr \in WriteCall
  BY DEF Typed, TypeOK
<1>1. CASE write_direct
  <2> DEFINE ptr  == inodes[wr.f].direct[wr.i]
             next == Reset(Filling(ptr), ptr)
             on   == IF wr.i + 1 < N_DIRECT THEN [next EXCEPT !.i = @ + 1] ELSE ToLevel1(next)
  <2>1. wr.stage = "direct" /\ wr.stage \in Active
    BY <1>1, Zenon DEF write_direct, Active, Stages
  <2>2. CASE NoSpace(ptr)
    BY <2>1, <2>2, NoBlockCloser
  <2>3. CASE ~NoSpace(ptr)
    <3>1. wr' = Onward(ptr, on)
      BY <1>1, <2>3, Zenon DEF write_direct
    <3>2. /\ on \in WriteCall /\ on.len = Filling(ptr).len
      <4>1. next \in WriteCall /\ next.len = Filling(ptr).len /\ next.i = wr.i
        <5>1. Filling(ptr) \in WriteCall /\ Filling(ptr).i = wr.i
          BY <2>1, FillingBounds
        <5> HIDE DEF ptr
        <5> QED BY <5>1, ResetLocals DEF SameData
      <4>2. wr.i \in 0 .. N_DIRECT - 1
        BY <2>1, InCall
      <4> HIDE DEF next
      <4>3. ToLevel1(next) \in WriteCall /\ ToLevel1(next).len = next.len
        BY <4>1, LevelLocals DEF SameData
      <4>4. ASSUME wr.i + 1 < N_DIRECT
            PROVE  [next EXCEPT !.i = @ + 1] \in WriteCall /\ [next EXCEPT !.i = @ + 1].len = next.len
        <5>1. next.i + 1 \in 0 .. ADDR_PER_BLOCK + N_DIRECT
          BY <4>1, <4>2, <4>4, Constants
        <5> QED BY <4>1, <5>1 DEF WriteCall
      <4> QED BY <4>1, <4>3, <4>4
    <3> HIDE DEF on, ptr
    <3> QED BY <2>1, <3>1, <3>2, FillCloser
  <2> QED BY <2>2, <2>3
<1>2. CASE write_table1
  <2> DEFINE ptr == inodes[wr.f].indir_1
  <2>1. wr.stage = "table1" /\ "table1" \in Active /\ "level1" \in Active
    BY <1>2 DEF write_table1, Active, Stages
  <2>2. NoSpace(ptr) \/ wr' = [wr EXCEPT !.stage = "level1"]
    BY <1>2, Zenon DEF write_table1
  <2> HIDE DEF ptr
  <2> QED BY <2>1, <2>2, NoBlockCloser, TableCloser, Ranks
<1>3. CASE write_level1
  <2> DEFINE ptr  == blocks[inodes[wr.f].indir_1][wr.i]
             next == Reset(Filling(ptr), ptr)
             on   == IF wr.i + 1 < ADDR_PER_BLOCK THEN [next EXCEPT !.i = @ + 1]
                     ELSE ToLevel2(next)
  <2>1. wr.stage = "level1" /\ wr.stage \in Active
    BY <1>3, Zenon DEF write_level1, Active, Stages
  <2>2. CASE NoSpace(ptr) \/ Abort(ptr)
    BY <2>1, <2>2, NoBlockCloser
  <2>3. CASE ~(NoSpace(ptr) \/ Abort(ptr))
    <3>1. wr' = Onward(ptr, on)
      BY <1>3, <2>3, Zenon DEF write_level1
    <3>2. on \in WriteCall /\ on.len = Filling(ptr).len
      <4>1. next \in WriteCall /\ next.len = Filling(ptr).len /\ next.i = wr.i
        <5>1. Filling(ptr) \in WriteCall /\ Filling(ptr).i = wr.i
          BY <2>1, FillingBounds
        <5> HIDE DEF ptr
        <5> QED BY <5>1, ResetLocals DEF SameData
      <4>2. wr.i \in Words
        BY <2>1, InCall
      <4> HIDE DEF next
      <4>3. ToLevel2(next) \in WriteCall /\ ToLevel2(next).len = next.len
        BY <4>1, LevelLocals DEF SameData
      <4>4. ASSUME wr.i + 1 < ADDR_PER_BLOCK
            PROVE  [next EXCEPT !.i = @ + 1] \in WriteCall /\ [next EXCEPT !.i = @ + 1].len = next.len
        <5>0. next.i = wr.i /\ wr.i \in Nat
          BY <4>1, <4>2, Constants
        <5>1. next.i + 1 \in 0 .. ADDR_PER_BLOCK + N_DIRECT
          BY <4>4, <5>0, Constants
        <5> QED BY <4>1, <5>1 DEF WriteCall
      <4> QED BY <4>1, <4>3, <4>4
    <3> HIDE DEF on, ptr
    <3> QED BY <2>1, <3>1, <3>2, FillCloser
  <2> QED BY <2>2, <2>3
<1>4. CASE write_table2
  <2> DEFINE ptr == inodes[wr.f].indir_2
  <2>1. wr.stage = "table2" /\ "table2" \in Active /\ "outer" \in Active
    BY <1>4 DEF write_table2, Active, Stages
  <2>2. NoSpace(ptr) \/ wr' = [wr EXCEPT !.stage = "outer"]
    BY <1>4, Zenon DEF write_table2
  <2> HIDE DEF ptr
  <2> QED BY <2>1, <2>2, NoBlockCloser, TableCloser, Ranks
<1>5. CASE write_outer
  <2> DEFINE ptr == blocks[inodes[wr.f].indir_2][wr.i]
  <2>1. wr.stage = "outer" /\ "outer" \in Active /\ "inner" \in Active
    BY <1>5, Zenon DEF write_outer, Active, Stages
  <2>2. NoSpace(ptr) \/ Abort(ptr) \/ wr' = [wr EXCEPT !.stage = "inner"]
    BY <1>5, Zenon DEF write_outer
  <2> HIDE DEF ptr
  <2> QED BY <2>1, <2>2, NoBlockCloser, TableCloser, Ranks
<1>6. CASE write_inner
  <2> DEFINE ptr  == blocks[blocks[inodes[wr.f].indir_2][wr.i]][wr.j]
             next == Filling(ptr)
             on   == IF wr.j + 1 < ADDR_PER_BLOCK THEN [next EXCEPT !.j = @ + 1]
                     ELSE IF wr.i + 1 < ADDR_PER_BLOCK
                     THEN [next EXCEPT !.stage = "outer", !.i = @ + 1, !.j = 0]
                     ELSE [next EXCEPT !.stage = "cleanup"]
  <2>1. wr.stage = "inner" /\ wr.stage \in Active
    BY <1>6, Zenon DEF write_inner, Active, Stages
  <2>2. CASE NoSpace(ptr) \/ Abort(ptr)
    BY <2>1, <2>2, NoBlockCloser
  <2>3. CASE ~(NoSpace(ptr) \/ Abort(ptr))
    <3>1. wr' = Onward(ptr, on)
      BY <1>6, <2>3, Zenon DEF write_inner
    <3>2. on \in WriteCall /\ on.len = next.len
      <4>1. next \in WriteCall /\ next.i = wr.i /\ next.j = wr.j
        BY <2>1, FillingBounds
      <4>2. wr.i \in Words /\ wr.j \in Words
        BY <2>1, InCall
      <4> HIDE DEF next
      <4>3. ASSUME wr.j + 1 < ADDR_PER_BLOCK
            PROVE  [next EXCEPT !.j = @ + 1] \in WriteCall /\ [next EXCEPT !.j = @ + 1].len = next.len
        <5>1. next.j + 1 \in Words
          BY <4>1, <4>2, <4>3, Constants DEF Words
        <5> QED BY <4>1, <5>1 DEF WriteCall
      <4>4. ASSUME wr.i + 1 < ADDR_PER_BLOCK, NEW w, w = [next EXCEPT !.stage = "outer", !.i = @ + 1, !.j = 0]
            PROVE  w \in WriteCall /\ w.len = next.len
        <5>1. next.i + 1 \in 0 .. ADDR_PER_BLOCK + N_DIRECT /\ 0 \in Words /\ "outer" \in Stages
          BY <4>1, <4>2, <4>4, Constants DEF Words, Stages
        <5> QED BY <4>1, <4>4, <5>1 DEF WriteCall
      <4>5. [next EXCEPT !.stage = "cleanup"] \in WriteCall /\ [next EXCEPT !.stage = "cleanup"].len = next.len
        BY <4>1 DEF WriteCall, Stages
      <4> QED BY <4>3, <4>4, <4>5
    <3> HIDE DEF on, ptr
    <3> QED BY <2>1, <3>1, <3>2, FillCloser
  <2> QED BY <2>2, <2>3
<1>7. CASE write_return
  <2>1. wr.stage = "cleanup" /\ wr' = Idle
    BY <1>7 DEF write_return
  <2>2. StepsLeft' = 0 /\ StepsLeft = 3 * wr.len + 1 /\ wr.len \in Nat
    BY <1>0, <2>1, Ranks DEF StepsLeft, Rank, Idle, WriteCall
  <2> QED BY <2>2 DEF Closer
<1> QED BY <1>1, <1>2, <1>3, <1>4, <1>5, <1>6, <1>7 DEF WriteStep

(* fs_write returns after a bounded number of steps, three for each word   *)
(* and four more at most, whatever the tables hold and however full the    *)
(* disk is.  (That it takes these steps is the fairness of its caller.)    *)
THEOREM WritesRunOut == Spec => StepsRunOut
<1>1. ASSUME Typed, [Next]_vars PROVE [wr.stage # "idle" => Closer]_vars
  <2> SUFFICES ASSUME Next, wr.stage # "idle" PROVE Closer
    BY <1>1
  <2>1. WriteStep
    <3>1. \A f, len, offset : fs_write(f, len, offset) => wr.stage = "idle"
      BY DEF fs_write
    <3> QED BY <3>1 DEF Next, Write, fs_truncate, fs_unlink, fs_mknod, truncate
  <2> QED BY <1>1, <2>1, StepCloser
<1> QED BY <1>1, AlwaysTyped, PTL DEF Spec, StepsRunOut, Closer

-----------------------------------------------------------------------------
(* Pointers.  The places where files fs keep pointers, and what is at a    *)
(* place where ino are the inodes and blk the blocks, in memory or on the  *)
(* image: 0 as well where the table is missing.                            *)

Places(fs) ==
    {<<f, "direct", k, 0>> : f \in fs, k \in 0 .. N_DIRECT - 1}
    \cup {<<f, kind, 0, 0>> : f \in fs, kind \in {"indir_1", "indir_2"}}
    \cup {<<f, kind, k, 0>> : f \in fs, kind \in {"level1", "outer"}, k \in Words}
    \cup {<<f, "inner", k, l>> : f \in fs, k \in Words, l \in Words}

At(blk, b, k) == IF b = 0 \/ b \notin Blocks THEN 0 ELSE blk[b][k]

Ptr(ino, blk, x) ==
    IF x[2] = "direct"  THEN ino[x[1]].direct[x[3]]
    ELSE IF x[2] = "indir_1" THEN ino[x[1]].indir_1
    ELSE IF x[2] = "indir_2" THEN ino[x[1]].indir_2
    ELSE IF x[2] = "level1"  THEN At(blk, ino[x[1]].indir_1, x[3])
    ELSE IF x[2] = "outer"   THEN At(blk, ino[x[1]].indir_2, x[3])
    ELSE At(blk, At(blk, ino[x[1]].indir_2, x[3]), x[4])

Shape(ino, blk, fs) ==
    /\ ino \in [Files -> Inode] /\ blk \in [Blocks -> [Words -> Nat]] /\ fs \subseteq Files

Mappable(map) == (DataBlocks \cap map) \ {start_block}

(* What pointers lead to is marked, and no two lead to one block.          *)
Sound(map, ino, blk, fs) ==
    /\ start_block \in map
    /\ \A x \in Places(fs) : Ptr(ino, blk, x) # 0 => Ptr(ino, blk, x) \in Mappable(map)
    /\ \A x, y \in Places(fs) :
          Ptr(ino, blk, x) # 0 /\ Ptr(ino, blk, x) = Ptr(ino, blk, y) => x = y

(* A block no pointer leads to; the change of one pointer, or none.        *)
Unused(ino, blk, fs, b) == \A x \in Places(fs) : Ptr(ino, blk, x) # b
Same(ino, blk, ino2, blk2, fs) ==
    \A x \in Places(fs) : Ptr(ino2, blk2, x) = Ptr(ino, blk, x)
Changed(ino, blk, ino2, blk2, fs, p, b) ==
    /\ p \in Places(fs)
    /\ \A x \in Places(fs) : Ptr(ino2, blk2, x) = IF x = p THEN b ELSE Ptr(ino, blk, x)

(* The kinds of places, and what is at each.                               *)
LEMMA PlaceKinds ==
  ASSUME NEW fs, NEW x \in Places(fs)
  PROVE  /\ x[1] \in fs
         /\ \/ x[2] = "direct" /\ x[3] \in 0 .. N_DIRECT - 1 /\ x[4] = 0
            \/ x[2] \in {"indir_1", "indir_2"} /\ x[3] = 0 /\ x[4] = 0
            \/ x[2] \in {"level1", "outer"} /\ x[3] \in Words /\ x[4] = 0
            \/ x[2] = "inner" /\ x[3] \in Words /\ x[4] \in Words
         /\ x = <<x[1], x[2], x[3], x[4]>>
BY DEF Places

LEMMA PlaceMembers ==
  ASSUME NEW fs, NEW f \in fs
  PROVE  /\ \A k \in 0 .. N_DIRECT - 1 : <<f, "direct", k, 0>> \in Places(fs)
         /\ <<f, "indir_1", 0, 0>> \in Places(fs) /\ <<f, "indir_2", 0, 0>> \in Places(fs)
         /\ \A k \in Words : <<f, "level1", k, 0>> \in Places(fs)
         /\ \A k \in Words : <<f, "outer", k, 0>> \in Places(fs)
         /\ \A k, l \in Words : <<f, "inner", k, l>> \in Places(fs)
BY DEF Places

(* The change of a pointer to a marked block that nothing else leads to    *)
(* keeps pointers sound.                                                   *)
LEMMA ChangeSound ==
  ASSUME NEW map, NEW ino, NEW blk, NEW ino2, NEW blk2, NEW fs, NEW p, NEW b,
         Sound(map, ino, blk, fs), Changed(ino, blk, ino2, blk2, fs, p, b),
         b \in Mappable(map), Unused(ino, blk, fs, b)
  PROVE  Sound(map, ino2, blk2, fs)
BY DEF Sound, Changed, Unused

LEMMA SameSound ==
  ASSUME NEW map, NEW ino, NEW blk, NEW ino2, NEW blk2, NEW fs,
         Sound(map, ino, blk, fs), Same(ino, blk, ino2, blk2, fs)
  PROVE  Sound(map, ino2, blk2, fs)
BY DEF Sound, Same

(* A free block is unused, and remains so when it is marked.               *)
LEMMA MarkSound ==
  ASSUME NEW map, NEW ino, NEW blk, NEW fs, NEW b,
         Sound(map, ino, blk, fs), b \in DataBlocks \ map
  PROVE  /\ Unused(ino, blk, fs, b)
         /\ Sound(map \cup {b}, ino, blk, fs) /\ b \in Mappable(map \cup {b})
<1>1. b # 0 /\ b # start_block
  BY Constants DEF Sound
<1> QED BY <1>1 DEF Sound, Unused, Mappable

(* A block no table pointer leads to.                                      *)
NotTable(ino, blk, fs, b) ==
    \A f \in fs : /\ ino[f].indir_1 # b /\ ino[f].indir_2 # b
                  /\ \A k \in Words : At(blk, ino[f].indir_2, k) # b

LEMMA UnusedNotTable ==
  ASSUME NEW ino, NEW blk, NEW fs, NEW b, Unused(ino, blk, fs, b)
  PROVE  NotTable(ino, blk, fs, b)
<1> SUFFICES ASSUME NEW f \in fs
             PROVE  /\ ino[f].indir_1 # b /\ ino[f].indir_2 # b
                    /\ \A k \in Words : At(blk, ino[f].indir_2, k) # b
  BY DEF NotTable
<1>1. ino[f].indir_1 # b
  <2>1. <<f, "indir_1", 0, 0>> \in Places(fs)
    BY PlaceMembers
  <2> QED BY <2>1 DEF Unused, Ptr
<1>2. ino[f].indir_2 # b
  <2>1. <<f, "indir_2", 0, 0>> \in Places(fs)
    BY PlaceMembers
  <2> QED BY <2>1 DEF Unused, Ptr
<1>3. ASSUME NEW k \in Words PROVE At(blk, ino[f].indir_2, k) # b
  <2>1. <<f, "outer", k, 0>> \in Places(fs)
    BY PlaceMembers
  <2> QED BY <2>1 DEF Unused, Ptr
<1> QED BY <1>1, <1>2, <1>3

(* The table pointers that lead to a block are at the place that does.     *)
LEMMA TablesApart ==
  ASSUME NEW map, NEW ino, NEW blk, NEW fs, Sound(map, ino, blk, fs),
         NEW x \in Places(fs), NEW t, t = Ptr(ino, blk, x), t # 0, NEW f \in fs
  PROVE  /\ ino[f].indir_1 = t => x = <<f, "indir_1", 0, 0>>
         /\ ino[f].indir_2 = t => x = <<f, "indir_2", 0, 0>>
         /\ \A k \in Words : At(blk, ino[f].indir_2, k) = t => x = <<f, "outer", k, 0>>
<1>1. ASSUME NEW y \in Places(fs), Ptr(ino, blk, y) = t
      PROVE  x = y
  BY <1>1 DEF Sound
<1>2. ino[f].indir_1 = t => x = <<f, "indir_1", 0, 0>>
  <2>1. /\ <<f, "indir_1", 0, 0>> \in Places(fs)
        /\ Ptr(ino, blk, <<f, "indir_1", 0, 0>>) = ino[f].indir_1
    BY PlaceMembers DEF Ptr
  <2> QED BY <1>1, <2>1
<1>3. ino[f].indir_2 = t => x = <<f, "indir_2", 0, 0>>
  <2>1. /\ <<f, "indir_2", 0, 0>> \in Places(fs)
        /\ Ptr(ino, blk, <<f, "indir_2", 0, 0>>) = ino[f].indir_2
    BY PlaceMembers DEF Ptr
  <2> QED BY <1>1, <2>1
<1>4. ASSUME NEW k \in Words PROVE At(blk, ino[f].indir_2, k) = t => x = <<f, "outer", k, 0>>
  <2>1. /\ <<f, "outer", k, 0>> \in Places(fs)
        /\ Ptr(ino, blk, <<f, "outer", k, 0>>) = At(blk, ino[f].indir_2, k)
    BY PlaceMembers DEF Ptr
  <2> QED BY <1>1, <2>1
<1> QED BY <1>2, <1>3, <1>4

(* A block of data is no table.                                            *)
LEMMA DataNotTable ==
  ASSUME NEW map, NEW ino, NEW blk, NEW fs, Sound(map, ino, blk, fs),
         NEW x \in Places(fs), x[2] \in {"direct", "level1", "inner"},
         NEW t, t = Ptr(ino, blk, x), t # 0
  PROVE  NotTable(ino, blk, fs, t)
<1> SUFFICES ASSUME NEW f \in fs
             PROVE  /\ ino[f].indir_1 # t /\ ino[f].indir_2 # t
                    /\ \A k \in Words : At(blk, ino[f].indir_2, k) # t
  BY DEF NotTable
<1>1. /\ ino[f].indir_1 = t => x = <<f, "indir_1", 0, 0>>
      /\ ino[f].indir_2 = t => x = <<f, "indir_2", 0, 0>>
      /\ \A k \in Words : At(blk, ino[f].indir_2, k) = t => x = <<f, "outer", k, 0>>
  BY TablesApart
<1> QED BY <1>1

(* Writing it moves no pointer.                                            *)
LEMMA SetData ==
  ASSUME NEW ino, NEW blk, NEW fs, Shape(ino, blk, fs), NEW b, NotTable(ino, blk, fs, b),
         NEW v, NEW blk2, blk2 = [blk EXCEPT ![b] = v]
  PROVE  Same(ino, blk, ino, blk2, fs)
<1> SUFFICES ASSUME NEW x \in Places(fs) PROVE Ptr(ino, blk2, x) = Ptr(ino, blk, x)
  BY DEF Same
<1>1. \A c, k : c # b => At(blk2, c, k) = At(blk, c, k)
  BY DEF Shape, At
<1>2. /\ ino[x[1]].indir_1 # b /\ ino[x[1]].indir_2 # b
      /\ \A k \in Words : At(blk, ino[x[1]].indir_2, k) # b
  BY PlaceKinds DEF NotTable
<1>3. CASE x[2] \in {"direct", "indir_1", "indir_2", "level1", "outer"}
  BY <1>1, <1>2, <1>3 DEF Ptr
<1>4. CASE x[2] = "inner"
  <2>1. x[3] \in Words
    BY <1>4, PlaceKinds
  <2>2. /\ At(blk2, ino[x[1]].indir_2, x[3]) = At(blk, ino[x[1]].indir_2, x[3])
        /\ At(blk, ino[x[1]].indir_2, x[3]) # b
    BY <1>1, <1>2, <2>1
  <2> QED BY <1>1, <1>4, <2>2 DEF Ptr
<1> QED BY <1>3, <1>4, PlaceKinds

(* Setting the size of a file moves no pointer.                            *)
LEMMA SetSize ==
  ASSUME NEW ino, NEW blk, NEW fs, Shape(ino, blk, fs), NEW f \in fs,
         NEW n, NEW ino2, ino2 = [ino EXCEPT ![f].size = n]
  PROVE  Same(ino, blk, ino2, blk, fs)
<1> SUFFICES ASSUME NEW x \in Places(fs) PROVE Ptr(ino2, blk, x) = Ptr(ino, blk, x)
  BY DEF Same
<1>1. x[1] \in fs /\ x[1] \in Files /\ f \in Files
  BY PlaceKinds DEF Shape
<1>2. /\ ino2[x[1]].direct = ino[x[1]].direct /\ ino2[x[1]].indir_1 = ino[x[1]].indir_1
      /\ ino2[x[1]].indir_2 = ino[x[1]].indir_2
  BY <1>1 DEF Shape, Inode
<1> QED BY <1>2 DEF Ptr

(* Setting a direct pointer, and the size with it.                         *)
LEMMA SetDirect ==
  ASSUME NEW ino, NEW blk, NEW fs, Shape(ino, blk, fs), NEW f \in fs,
         NEW i \in 0 .. N_DIRECT - 1, NEW b, NEW n,
         NEW ino2, ino2 = [ino EXCEPT ![f].direct[i] = b, ![f].size = n]
  PROVE  Changed(ino, blk, ino2, blk, fs, <<f, "direct", i, 0>>, b)
<1> DEFINE p == <<f, "direct", i, 0>>
<1>1. p \in Places(fs)
  BY PlaceMembers
<1>2. ASSUME NEW x \in Places(fs) PROVE Ptr(ino2, blk, x) = IF x = p THEN b ELSE Ptr(ino, blk, x)
  <2>1. x[1] \in fs /\ x[1] \in Files /\ f \in Files
    BY PlaceKinds DEF Shape
  <2>2. /\ ino2[x[1]].indir_1 = ino[x[1]].indir_1
        /\ ino2[x[1]].indir_2 = ino[x[1]].indir_2
        /\ \A k \in 0 .. N_DIRECT - 1 :
              ino2[x[1]].direct[k] = IF x[1] = f /\ k = i THEN b ELSE ino[x[1]].direct[k]
    BY <2>1 DEF Shape, Inode
  <2>3. CASE x[2] = "direct"
    <3>1. x[3] \in 0 .. N_DIRECT - 1 /\ x[4] = 0 /\ x = <<x[1], x[2], x[3], x[4]>>
      BY <2>3, PlaceKinds
    <3>2. x = p <=> x[1] = f /\ x[3] = i
      BY <2>3, <3>1
    <3> QED BY <2>2, <2>3, <3>1, <3>2 DEF Ptr
  <2>4. CASE x[2] # "direct"
    <3>1. x # p
      BY <2>4
    <3> QED BY <2>2, <2>4, <3>1 DEF Ptr
  <2> QED BY <2>3, <2>4
<1> QED BY <1>1, <1>2 DEF Changed

(* Taking a zeroed table.                                                  *)
LEMMA SetTable1 ==
  ASSUME NEW ino, NEW blk, NEW fs, Shape(ino, blk, fs), NEW f \in fs, ino[f].indir_1 = 0,
         NEW b \in Blocks, blk[b] = ZeroBlock,
         NEW ino2, ino2 = [ino EXCEPT ![f].indir_1 = b]
  PROVE  Changed(ino, blk, ino2, blk, fs, <<f, "indir_1", 0, 0>>, b)
<1> DEFINE p == <<f, "indir_1", 0, 0>>
<1>1. p \in Places(fs)
  BY PlaceMembers
<1>2. \A k \in Words : At(blk, b, k) = 0 /\ At(blk, 0, k) = 0
  BY DEF At, ZeroBlock
<1>3. ASSUME NEW x \in Places(fs) PROVE Ptr(ino2, blk, x) = IF x = p THEN b ELSE Ptr(ino, blk, x)
  <2>1. x[1] \in fs /\ x[1] \in Files /\ f \in Files
    BY PlaceKinds DEF Shape
  <2>2. /\ ino2[x[1]].indir_1 = IF x[1] = f THEN b ELSE ino[x[1]].indir_1
        /\ ino2[x[1]].indir_2 = ino[x[1]].indir_2
        /\ ino2[x[1]].direct = ino[x[1]].direct
    BY <2>1 DEF Shape, Inode
  <2>3. CASE x[2] = "indir_1"
    <3>1. x[3] = 0 /\ x[4] = 0 /\ x = <<x[1], x[2], x[3], x[4]>>
      BY <2>3, PlaceKinds
    <3> QED BY <2>2, <2>3, <3>1 DEF Ptr
  <2>4. CASE x[2] = "level1"
    <3>1. x[3] \in Words /\ x # p
      BY <2>4, PlaceKinds
    <3> QED BY <1>2, <2>2, <2>4, <3>1 DEF Ptr
  <2>5. CASE x[2] \notin {"indir_1", "level1"}
    <3>1. x # p
      BY <2>5
    <3> QED BY <2>2, <2>5, <3>1 DEF Ptr
  <2> QED BY <2>3, <2>4, <2>5
<1> QED BY <1>1, <1>3 DEF Changed

LEMMA SetTable2 ==
  ASSUME NEW ino, NEW blk, NEW fs, Shape(ino, blk, fs), NEW f \in fs, ino[f].indir_2 = 0,
         NEW b \in Blocks, blk[b] = ZeroBlock,
         NEW ino2, ino2 = [ino EXCEPT ![f].indir_2 = b]
  PROVE  Changed(ino, blk, ino2, blk, fs, <<f, "indir_2", 0, 0>>, b)
<1> DEFINE p == <<f, "indir_2", 0, 0>>
<1>1. p \in Places(fs)
  BY PlaceMembers
<1>2. \A k \in Words : At(blk, b, k) = 0 /\ At(blk, 0, k) = 0
  BY DEF At, ZeroBlock
<1>3. ASSUME NEW x \in Places(fs) PROVE Ptr(ino2, blk, x) = IF x = p THEN b ELSE Ptr(ino, blk, x)
  <2>1. x[1] \in fs /\ x[1] \in Files /\ f \in Files
    BY PlaceKinds DEF Shape
  <2>2. /\ ino2[x[1]].indir_2 = IF x[1] = f THEN b ELSE ino[x[1]].indir_2
        /\ ino2[x[1]].indir_1 = ino[x[1]].indir_1
        /\ ino2[x[1]].direct = ino[x[1]].direct
    BY <2>1 DEF Shape, Inode
  <2>3. CASE x[2] = "indir_2"
    <3>1. x[3] = 0 /\ x[4] = 0 /\ x = <<x[1], x[2], x[3], x[4]>>
      BY <2>3, PlaceKinds
    <3> QED BY <2>2, <2>3, <3>1 DEF Ptr
  <2>4. CASE x[2] = "outer"
    <3>1. x[3] \in Words /\ x # p
      BY <2>4, PlaceKinds
    <3> QED BY <1>2, <2>2, <2>4, <3>1 DEF Ptr
  <2>5. CASE x[2] = "inner"
    <3>1. x[3] \in Words /\ x[4] \in Words /\ x # p
      BY <2>5, PlaceKinds
    <3> QED BY <1>2, <2>2, <2>5, <3>1 DEF Ptr
  <2>6. CASE x[2] \in {"direct", "indir_1", "level1"}
    <3>1. x # p
      BY <2>6
    <3> QED BY <2>2, <2>6, <3>1 DEF Ptr
  <2> QED BY <2>3, <2>4, <2>5, <2>6, PlaceKinds
<1> QED BY <1>1, <1>3 DEF Changed

(* Setting an entry of a table of the first level.                         *)
LEMMA SetLevel1 ==
  ASSUME NEW map, NEW ino, NEW blk, NEW fs, Shape(ino, blk, fs), Sound(map, ino, blk, fs),
         NEW f \in fs, NEW i \in Words, NEW b,
         NEW t \in Blocks, t = ino[f].indir_1, t # 0,
         NEW blk2, blk2 = [blk EXCEPT ![t][i] = b]
  PROVE  Changed(ino, blk, ino, blk2, fs, <<f, "level1", i, 0>>, b)
<1> DEFINE p == <<f, "level1", i, 0>>
<1>1. p \in Places(fs) /\ <<f, "indir_1", 0, 0>> \in Places(fs)
  BY PlaceMembers
<1>2. /\ \A c, k : c # t => At(blk2, c, k) = At(blk, c, k)
      /\ \A k \in Words : At(blk2, t, k) = IF k = i THEN b ELSE At(blk, t, k)
  BY DEF Shape, At
<1>3. ASSUME NEW g \in fs
      PROVE  /\ ino[g].indir_1 = t => g = f
             /\ ino[g].indir_2 # t /\ \A k \in Words : At(blk, ino[g].indir_2, k) # t
  <2>1. t = Ptr(ino, blk, <<f, "indir_1", 0, 0>>)
    BY DEF Ptr
  <2>2. /\ ino[g].indir_1 = t => <<f, "indir_1", 0, 0>> = <<g, "indir_1", 0, 0>>
        /\ ino[g].indir_2 = t => <<f, "indir_1", 0, 0>> = <<g, "indir_2", 0, 0>>
        /\ \A k \in Words : At(blk, ino[g].indir_2, k) = t
                             => <<f, "indir_1", 0, 0>> = <<g, "outer", k, 0>>
    BY <1>1, <2>1, TablesApart
  <2> QED BY <2>2
<1>4. ASSUME NEW x \in Places(fs) PROVE Ptr(ino, blk2, x) = IF x = p THEN b ELSE Ptr(ino, blk, x)
  <2>5. x[1] \in fs
    BY PlaceKinds
  <2>0. /\ ino[x[1]].indir_1 = t => x[1] = f
        /\ ino[x[1]].indir_2 # t /\ \A k \in Words : At(blk, ino[x[1]].indir_2, k) # t
    BY <1>3, <2>5
  <2>1. CASE x[2] \in {"direct", "indir_1", "indir_2"}
    <3>1. x # p
      BY <2>1
    <3> QED BY <2>1, <3>1 DEF Ptr
  <2>2. CASE x[2] = "level1"
    <3>1. x[3] \in Words /\ x[4] = 0 /\ x = <<x[1], x[2], x[3], x[4]>>
      BY <2>2, PlaceKinds
    <3>2. x = p <=> x[1] = f /\ x[3] = i
      BY <2>2, <3>1
    <3>3. Ptr(ino, blk2, x) = At(blk2, ino[x[1]].indir_1, x[3])
          /\ Ptr(ino, blk, x) = At(blk, ino[x[1]].indir_1, x[3])
      BY <2>2 DEF Ptr
    <3> HIDE DEF p
    <3>4. ino[f].indir_1 = t
      OBVIOUS
    <3> QED BY <1>2, <2>0, <3>1, <3>2, <3>3, <3>4
  <2>3. CASE x[2] = "outer"
    <3>1. x # p
      BY <2>3
    <3>2. At(blk2, ino[x[1]].indir_2, x[3]) = At(blk, ino[x[1]].indir_2, x[3])
      BY <1>2, <2>0
    <3> QED BY <2>3, <3>1, <3>2 DEF Ptr
  <2>4. CASE x[2] = "inner"
    <3>1. x[3] \in Words
      BY <2>4, PlaceKinds
    <3>2. x # p
      BY <2>4
    <3>3. /\ At(blk2, ino[x[1]].indir_2, x[3]) = At(blk, ino[x[1]].indir_2, x[3])
          /\ At(blk, ino[x[1]].indir_2, x[3]) # t
      BY <1>2, <2>0, <3>1
    <3>4. /\ Ptr(ino, blk2, x) = At(blk2, At(blk2, ino[x[1]].indir_2, x[3]), x[4])
          /\ Ptr(ino, blk, x) = At(blk, At(blk, ino[x[1]].indir_2, x[3]), x[4])
      BY <2>4 DEF Ptr
    <3> DEFINE c == At(blk, ino[x[1]].indir_2, x[3])
    <3>5. c # t
      BY <3>3
    <3> HIDE DEF c
    <3>6. At(blk2, c, x[4]) = At(blk, c, x[4])
      BY <3>5 DEF Shape, At
    <3> QED BY <3>2, <3>3, <3>4, <3>6 DEF c
  <2> QED BY <2>1, <2>2, <2>3, <2>4, PlaceKinds
<1> QED BY <1>1, <1>4 DEF Changed

(* Taking a zeroed inner table.                                            *)
LEMMA SetOuter ==
  ASSUME NEW map, NEW ino, NEW blk, NEW fs, Shape(ino, blk, fs), Sound(map, ino, blk, fs),
         NEW f \in fs, NEW i \in Words,
         NEW t \in Blocks, t = ino[f].indir_2, t # 0, At(blk, t, i) = 0,
         NEW b \in Blocks, b # t, blk[b] = ZeroBlock,
         NEW blk2, blk2 = [blk EXCEPT ![t][i] = b]
  PROVE  Changed(ino, blk, ino, blk2, fs, <<f, "outer", i, 0>>, b)
<1> DEFINE p == <<f, "outer", i, 0>>
<1>1. p \in Places(fs) /\ <<f, "indir_2", 0, 0>> \in Places(fs)
  BY PlaceMembers
<1>2. /\ \A c, k : c # t => At(blk2, c, k) = At(blk, c, k)
      /\ \A k \in Words : At(blk2, t, k) = IF k = i THEN b ELSE At(blk, t, k)
      /\ \A k \in Words : At(blk, b, k) = 0 /\ At(blk, 0, k) = 0
  BY DEF Shape, At, ZeroBlock
<1>3. ASSUME NEW g \in fs
      PROVE  /\ ino[g].indir_2 = t => g = f
             /\ ino[g].indir_1 # t /\ \A k \in Words : At(blk, ino[g].indir_2, k) # t
  <2>1. t = Ptr(ino, blk, <<f, "indir_2", 0, 0>>)
    BY DEF Ptr
  <2>2. /\ ino[g].indir_1 = t => <<f, "indir_2", 0, 0>> = <<g, "indir_1", 0, 0>>
        /\ ino[g].indir_2 = t => <<f, "indir_2", 0, 0>> = <<g, "indir_2", 0, 0>>
        /\ \A k \in Words : At(blk, ino[g].indir_2, k) = t
                             => <<f, "indir_2", 0, 0>> = <<g, "outer", k, 0>>
    BY <1>1, <2>1, TablesApart
  <2> QED BY <2>2
<1>4. ASSUME NEW x \in Places(fs) PROVE Ptr(ino, blk2, x) = IF x = p THEN b ELSE Ptr(ino, blk, x)
  <2>5. x[1] \in fs
    BY PlaceKinds
  <2>0. /\ ino[x[1]].indir_2 = t => x[1] = f
        /\ ino[x[1]].indir_1 # t /\ \A k \in Words : At(blk, ino[x[1]].indir_2, k) # t
    BY <1>3, <2>5
  <2>6. ino[f].indir_2 = t
    OBVIOUS
  <2>1. CASE x[2] \in {"direct", "indir_1", "indir_2"}
    <3>1. x # p
      BY <2>1
    <3> QED BY <2>1, <3>1 DEF Ptr
  <2>2. CASE x[2] = "level1"
    <3>1. x # p
      BY <2>2
    <3>3. ino[x[1]].indir_1 # t
      BY <2>0
    <3>2. At(blk2, ino[x[1]].indir_1, x[3]) = At(blk, ino[x[1]].indir_1, x[3])
      BY <3>3 DEF Shape, At
    <3> QED BY <2>2, <3>1, <3>2 DEF Ptr
  <2>3. CASE x[2] = "outer"
    <3>1. x[3] \in Words /\ x[4] = 0 /\ x = <<x[1], x[2], x[3], x[4]>>
      BY <2>3, PlaceKinds
    <3>2. x = p <=> x[1] = f /\ x[3] = i
      BY <2>3, <3>1
    <3>3. Ptr(ino, blk2, x) = At(blk2, ino[x[1]].indir_2, x[3])
          /\ Ptr(ino, blk, x) = At(blk, ino[x[1]].indir_2, x[3])
      BY <2>3 DEF Ptr
    <3> HIDE DEF p
    <3> QED BY <1>2, <2>0, <2>6, <3>1, <3>2, <3>3, ZenonT(30)
  <2>4. CASE x[2] = "inner"
    <3>1. x[3] \in Words /\ x[4] \in Words
      BY <2>4, PlaceKinds
    <3>2. x # p
      BY <2>4
    <3> HIDE DEF p
    <3>3. /\ Ptr(ino, blk2, x) = At(blk2, At(blk2, ino[x[1]].indir_2, x[3]), x[4])
          /\ Ptr(ino, blk, x) = At(blk, At(blk, ino[x[1]].indir_2, x[3]), x[4])
      BY <2>4 DEF Ptr
    <3>4. CASE x[1] = f /\ x[3] = i
      <4>1. At(blk2, ino[x[1]].indir_2, x[3]) = b /\ At(blk, ino[x[1]].indir_2, x[3]) = 0
        BY <1>2, <2>6, <3>1, <3>4
      <4>2. b # t /\ At(blk2, b, x[4]) = At(blk, b, x[4])
        BY DEF Shape, At
      <4>3. Ptr(ino, blk2, x) = Ptr(ino, blk, x)
        BY <1>2, <3>1, <3>3, <4>1, <4>2
      <4> QED BY <3>2, <4>3
    <3>5. CASE ~(x[1] = f /\ x[3] = i)
      <4>0. At(blk2, ino[x[1]].indir_2, x[3]) = At(blk, ino[x[1]].indir_2, x[3])
        <5>1. CASE ino[x[1]].indir_2 = t
          BY <1>2, <2>0, <3>1, <3>5, <5>1
        <5>2. CASE ino[x[1]].indir_2 # t
          BY <5>2 DEF Shape, At
        <5> QED BY <5>1, <5>2
      <4>1. At(blk, ino[x[1]].indir_2, x[3]) # t
        BY <2>0, <3>1
      <4> DEFINE c == At(blk, ino[x[1]].indir_2, x[3])
      <4>2. c # t
        BY <4>1
      <4> HIDE DEF c
      <4>3. At(blk2, c, x[4]) = At(blk, c, x[4])
        BY <4>2 DEF Shape, At
      <4> QED BY <3>2, <3>3, <4>0, <4>3 DEF c
    <3> QED BY <3>4, <3>5
  <2> QED BY <2>1, <2>2, <2>3, <2>4, PlaceKinds
<1> QED BY <1>1, <1>4 DEF Changed

(* Setting an entry of an inner table.                                     *)
LEMMA SetInner ==
  ASSUME NEW map, NEW ino, NEW blk, NEW fs, Shape(ino, blk, fs), Sound(map, ino, blk, fs),
         NEW f \in fs, NEW i \in Words, NEW j \in Words, NEW b,
         NEW t \in Blocks, t = At(blk, ino[f].indir_2, i), t # 0,
         NEW blk2, blk2 = [blk EXCEPT ![t] = [blk[t] EXCEPT ![j] = b]]
  PROVE  Changed(ino, blk, ino, blk2, fs, <<f, "inner", i, j>>, b)
<1> DEFINE p == <<f, "inner", i, j>>
<1>1. p \in Places(fs) /\ <<f, "outer", i, 0>> \in Places(fs)
  BY PlaceMembers
<1>2. /\ \A c, k : c # t => At(blk2, c, k) = At(blk, c, k)
      /\ \A k \in Words : At(blk2, t, k) = IF k = j THEN b ELSE At(blk, t, k)
  BY DEF Shape, At
<1>3. ASSUME NEW g \in fs
      PROVE  /\ ino[g].indir_1 # t /\ ino[g].indir_2 # t
             /\ \A k \in Words : At(blk, ino[g].indir_2, k) = t => g = f /\ k = i
  <2>1. t = Ptr(ino, blk, <<f, "outer", i, 0>>)
    BY DEF Ptr
  <2>2. /\ ino[g].indir_1 = t => <<f, "outer", i, 0>> = <<g, "indir_1", 0, 0>>
        /\ ino[g].indir_2 = t => <<f, "outer", i, 0>> = <<g, "indir_2", 0, 0>>
        /\ \A k \in Words : At(blk, ino[g].indir_2, k) = t
                             => <<f, "outer", i, 0>> = <<g, "outer", k, 0>>
    BY <1>1, <2>1, TablesApart
  <2> QED BY <2>2
<1>4. ASSUME NEW x \in Places(fs) PROVE Ptr(ino, blk2, x) = IF x = p THEN b ELSE Ptr(ino, blk, x)
  <2>5. x[1] \in fs
    BY PlaceKinds
  <2>0. /\ ino[x[1]].indir_1 # t /\ ino[x[1]].indir_2 # t
        /\ \A k \in Words : At(blk, ino[x[1]].indir_2, k) = t => x[1] = f /\ k = i
    BY <1>3, <2>5
  <2>6. At(blk, ino[f].indir_2, i) = t
    OBVIOUS
  <2>1. CASE x[2] \in {"direct", "indir_1", "indir_2"}
    <3>1. x # p
      BY <2>1
    <3> QED BY <2>1, <3>1 DEF Ptr
  <2>2. CASE x[2] = "level1"
    <3>1. x # p
      BY <2>2
    <3>2. At(blk2, ino[x[1]].indir_1, x[3]) = At(blk, ino[x[1]].indir_1, x[3])
      BY <1>2, <2>0
    <3> QED BY <2>2, <3>1, <3>2 DEF Ptr
  <2>3. CASE x[2] = "outer"
    <3>1. x # p
      BY <2>3
    <3>2. At(blk2, ino[x[1]].indir_2, x[3]) = At(blk, ino[x[1]].indir_2, x[3])
      BY <1>2, <2>0
    <3> QED BY <2>3, <3>1, <3>2 DEF Ptr
  <2>4. CASE x[2] = "inner"
    <3>1. x[3] \in Words /\ x[4] \in Words /\ x = <<x[1], x[2], x[3], x[4]>>
      BY <2>4, PlaceKinds
    <3>2. x = p <=> x[1] = f /\ x[3] = i /\ x[4] = j
      BY <2>4, <3>1
    <3>3. /\ Ptr(ino, blk2, x) = At(blk2, At(blk2, ino[x[1]].indir_2, x[3]), x[4])
          /\ Ptr(ino, blk, x) = At(blk, At(blk, ino[x[1]].indir_2, x[3]), x[4])
      BY <2>4 DEF Ptr
    <3>4. At(blk2, ino[x[1]].indir_2, x[3]) = At(blk, ino[x[1]].indir_2, x[3])
      BY <1>2, <2>0
    <3>5. At(blk, ino[x[1]].indir_2, x[3]) = t <=> x[1] = f /\ x[3] = i
      BY <2>0, <2>6, <3>1
    <3> HIDE DEF p
    <3>6. CASE x = p
      <4>1. Ptr(ino, blk2, x) = At(blk2, t, j)
        BY <3>2, <3>3, <3>4, <3>5, <3>6
      <4>2. At(blk2, t, j) = b
        BY <1>2
      <4> QED BY <3>6, <4>1, <4>2
    <3>7. CASE x # p
      <4>1. At(blk2, At(blk, ino[x[1]].indir_2, x[3]), x[4]) = At(blk, At(blk, ino[x[1]].indir_2, x[3]), x[4])
        <5>1. CASE At(blk, ino[x[1]].indir_2, x[3]) = t
          BY <1>2, <3>1, <3>2, <3>5, <3>7, <5>1
        <5>2. CASE At(blk, ino[x[1]].indir_2, x[3]) # t
          BY <1>2, <5>2
        <5> QED BY <5>1, <5>2
      <4> QED BY <3>3, <3>4, <3>7, <4>1
    <3> QED BY <3>6, <3>7
  <2> QED BY <2>1, <2>2, <2>3, <2>4, PlaceKinds
<1> QED BY <1>1, <1>4 DEF Changed

-----------------------------------------------------------------------------
(* Steps of fs_write.  A step takes the place p when it leaves there what  *)
(* was there, or a block that was free and that it marks, and writes to no *)
(* block that stays free.                                                  *)
Takes(p) ==
    LET ptr == Ptr(inodes, blocks, p)
    IN  /\ p \in Places(files) /\ Usable(ptr)
        /\ block_map' = Alloc(ptr) /\ files' = files
        /\ Changed(inodes, blocks, inodes', blocks', files, p, Target(ptr))
        /\ \A b \in DataBlocks \ Alloc(ptr) : blocks'[b] = blocks[b]

MapSound == Sound(block_map, inodes, blocks, files)

(* The two ways of using the file system that keep its pointers sound      *)
(* (the findings say what happens otherwise): files are written only, or   *)
(* they are truncated while they have no table and removed, and have no    *)
(* second level of tables.                                                 *)
OnlyWritten == Calls \subseteq {"overwrite"}
OneLevel    == /\ ~OnlyWritten
               /\ Calls \subseteq {"truncate_direct", "unlink"}
               /\ MaxSize <= INDIRECT_BOUND * ADDR_PER_BLOCK

(* The loops walk through tables that are there.                           *)
Linked ==
    /\ wr.stage = "level1" => Ptr(inodes, blocks, <<wr.f, "indir_1", 0, 0>>) # 0
    /\ wr.stage \in {"outer", "inner"} => Ptr(inodes, blocks, <<wr.f, "indir_2", 0, 0>>) # 0
    /\ wr.stage = "inner" => Ptr(inodes, blocks, <<wr.f, "outer", wr.i, 0>>) # 0

(* Free blocks still are as mkfs left them, so that an inner table needs   *)
(* no zeroing.                                                             *)
Clean == \A b \in DataBlocks \ block_map : blocks[b] = ZeroBlock

(* No second level of tables.                                              *)
Shallow ==
    /\ wr.stage \notin {"table2", "outer", "inner"}
    /\ \A f \in files : inodes[f].indir_2 = 0

(* The pointer to block k of a file is set when the file reaches into it.  *)
BlockPlace(f, k) ==
    IF k < N_DIRECT THEN <<f, "direct", k, 0>> ELSE <<f, "level1", k - N_DIRECT, 0>>
Backed ==
    \A f \in files, k \in 0 .. INDIRECT_BOUND - 1 :
        Ptr(inodes, blocks, BlockPlace(f, k)) # 0 <=> k * ADDR_PER_BLOCK < inodes[f].size

(* A call that appends is at the block where its file ends, and knows how  *)
(* far the block is filled.                                                *)
BlockAt == IF wr.stage = "direct" THEN wr.i ELSE N_DIRECT + wr.i
Appending ==
    wr.stage \in {"direct", "table1", "level1"} =>
        LET n == inodes[wr.f].size - BlockAt * ADDR_PER_BLOCK
        IN  n \in Words /\ (n # 0 => wr.offset % ADDR_PER_BLOCK = n)

(* The inductive invariant.                                                *)
Inv == /\ Typed /\ MapSound /\ Linked
       /\ OnlyWritten => Clean
       /\ OneLevel => Shallow /\ Backed /\ Appending

(* What a usable pointer leads to, or is made to lead to.                  *)
LEMMA TargetFree ==
  ASSUME MapSound, NEW p \in Places(files), NEW ptr, ptr = Ptr(inodes, blocks, p), Usable(ptr)
  PROVE  /\ ptr = 0 => /\ Target(ptr) \in DataBlocks \ block_map
                       /\ Alloc(ptr) = block_map \cup {Target(ptr)}
         /\ ptr # 0 => /\ Target(ptr) = ptr /\ Alloc(ptr) = block_map
         /\ Target(ptr) \in DataBlocks /\ Target(ptr) # 0
         /\ Target(ptr) \in Mappable(Alloc(ptr))
<1>1. ASSUME ptr = 0
      PROVE  /\ Target(ptr) \in DataBlocks \ block_map
             /\ Alloc(ptr) = block_map \cup {Target(ptr)}
  BY <1>1, FreeBlock DEF Target, Alloc, Usable
<1>2. ASSUME ptr # 0
      PROVE  /\ Target(ptr) = ptr /\ Alloc(ptr) = block_map /\ ptr \in Mappable(block_map)
  BY <1>2 DEF Target, Alloc, MapSound, Sound
<1>3. start_block \in block_map
  BY DEF MapSound, Sound
<1> QED BY <1>1, <1>2, <1>3, Constants DEF Mappable

LEMMA TakesSound ==
  ASSUME MapSound, NEW p, Takes(p)
  PROVE  MapSound'
<1> DEFINE ptr == Ptr(inodes, blocks, p)
           t   == Target(ptr)
<1>1. /\ p \in Places(files) /\ Usable(ptr)
      /\ block_map' = Alloc(ptr) /\ files' = files
      /\ Changed(inodes, blocks, inodes', blocks', files, p, t)
  BY DEF Takes
<1>2. /\ ptr = 0 => t \in DataBlocks \ block_map /\ Alloc(ptr) = block_map \cup {t}
      /\ ptr # 0 => t = ptr /\ Alloc(ptr) = block_map
  <2> HIDE DEF ptr
  <2> QED BY <1>1, TargetFree DEF ptr
<1> HIDE DEF t
<1>3. CASE ptr = 0
  <2>1. /\ Unused(inodes, blocks, files, t)
        /\ Sound(block_map', inodes, blocks, files) /\ t \in Mappable(block_map')
    BY <1>1, <1>2, <1>3, MarkSound DEF MapSound
  <2>2. Sound(block_map', inodes', blocks', files)
    BY <1>1, <2>1, ChangeSound
  <2> QED BY <1>1, <2>2 DEF MapSound
<1>4. CASE ptr # 0
  <2>1. Same(inodes, blocks, inodes', blocks', files)
    BY <1>1, <1>2, <1>4 DEF Changed, Same
  <2>2. Sound(block_map, inodes', blocks', files)
    BY <2>1, SameSound DEF MapSound
  <2> QED BY <1>1, <1>2, <1>4, <2>2 DEF MapSound
<1> QED BY <1>3, <1>4

(* The pointers after the step.                                            *)
LEMMA TakesKeeps ==
  ASSUME MapSound, NEW p, Takes(p)
  PROVE  /\ Ptr(inodes', blocks', p) # 0
         /\ \A x \in Places(files) :
               /\ x # p => Ptr(inodes', blocks', x) = Ptr(inodes, blocks, x)
               /\ Ptr(inodes, blocks, x) # 0 => Ptr(inodes', blocks', x) # 0
<1> DEFINE ptr == Ptr(inodes, blocks, p)
<1>1. /\ p \in Places(files) /\ Usable(ptr)
      /\ Changed(inodes, blocks, inodes', blocks', files, p, Target(ptr))
  BY DEF Takes
<1>2. Target(ptr) # 0
  <2> HIDE DEF ptr
  <2> QED BY <1>1, TargetFree DEF ptr
<1> QED BY <1>1, <1>2 DEF Changed

(* Writing the block of data that a usable pointer leads to, or would lead *)
(* to, moves no pointer.                                                   *)
LEMMA FillData ==
  ASSUME Typed, MapSound, NEW p \in Places(files), p[2] \in {"direct", "level1", "inner"},
         NEW ptr, ptr = Ptr(inodes, blocks, p), Usable(ptr), NEW v \in [Words -> Nat],
         NEW blk, blk = [blocks EXCEPT ![Target(ptr)] = v]
  PROVE  /\ NotTable(inodes, blocks, files, Target(ptr))
         /\ Same(inodes, blocks, inodes, blk, files)
         /\ Shape(inodes, blk, files) /\ Sound(block_map, inodes, blk, files)
<1>1. Shape(inodes, blocks, files)
  BY DEF Shape, Typed, TypeOK
<1>2. /\ ptr = 0 => Target(ptr) \in DataBlocks \ block_map
      /\ ptr # 0 => Target(ptr) = ptr
      /\ Target(ptr) \in DataBlocks
  BY TargetFree
<1> DEFINE t == Target(ptr)
<1>3. NotTable(inodes, blocks, files, t)
  <2>1. CASE ptr = 0
    <3> HIDE DEF t
    <3>1. Unused(inodes, blocks, files, t)
      BY <1>2, <2>1, MarkSound DEF MapSound, t
    <3> QED BY <3>1, UnusedNotTable
  <2>2. CASE ptr # 0
    <3>1. NotTable(inodes, blocks, files, ptr)
      BY <2>2, DataNotTable DEF MapSound
    <3> QED BY <1>2, <2>2, <3>1
  <2> QED BY <2>1, <2>2
<1> HIDE DEF t
<1>4. blk = [blocks EXCEPT ![t] = v]
  BY DEF t
<1>5. Same(inodes, blocks, inodes, blk, files)
  BY <1>1, <1>3, <1>4, SetData
<1>6. Shape(inodes, blk, files)
  BY <1>1, <1>4 DEF Shape
<1>7. Sound(block_map, inodes, blk, files)
  BY <1>5, SameSound DEF MapSound
<1> QED BY <1>3, <1>5, <1>6, <1>7 DEF t

(* The block that is filled, and every block in use, is marked then.       *)
LEMMA TakenMarked ==
  ASSUME MapSound, NEW p \in Places(files), NEW ptr, ptr = Ptr(inodes, blocks, p), Usable(ptr)
  PROVE  /\ Target(ptr) \in Alloc(ptr)
         /\ \A x \in Places(files) :
               Ptr(inodes, blocks, x) # 0 => Ptr(inodes, blocks, x) \in Alloc(ptr)
<1>1. /\ ptr = 0 => Alloc(ptr) = block_map \cup {Target(ptr)}
      /\ ptr # 0 => Alloc(ptr) = block_map
      /\ Target(ptr) \in Mappable(Alloc(ptr))
  BY TargetFree
<1> QED BY <1>1 DEF MapSound, Sound, Mappable

(* Moving no pointer, then one, then none, moves one.                      *)
LEMMA SameChangedSame ==
  ASSUME NEW ino, NEW blk, NEW blk2, NEW ino3, NEW blk3, NEW ino4, NEW fs, NEW p, NEW b,
         Same(ino, blk, ino, blk2, fs), Changed(ino, blk2, ino3, blk3, fs, p, b),
         Same(ino3, blk3, ino4, blk3, fs)
  PROVE  Changed(ino, blk, ino4, blk3, fs, p, b)
BY DEF Same, Changed

LEMMA DirectTakes ==
  ASSUME Typed, MapSound, write_direct
  PROVE  NoSpace(inodes[wr.f].direct[wr.i]) \/ Takes(<<wr.f, "direct", wr.i, 0>>)
<1> DEFINE p   == <<wr.f, "direct", wr.i, 0>>
           ptr == inodes[wr.f].direct[wr.i]
           t   == Target(ptr)
           blk == [blocks EXCEPT ![t] = Filled(ptr)]
<1> SUFFICES ASSUME ~NoSpace(ptr) PROVE Takes(p)
  OBVIOUS
<1>1. wr.stage = "direct" /\ wr.stage \in Active
  BY Zenon DEF write_direct, Active, Stages
<1>2. /\ Usable(ptr)
      /\ block_map' = Alloc(ptr) /\ files' = files
      /\ inodes' = [inodes EXCEPT ![wr.f].direct[wr.i] = t, ![wr.f].size = @ + Chunk(ptr)]
      /\ blocks' = blk
  BY Zenon DEF write_direct
<1>3. wr.f \in files /\ wr.i \in 0 .. N_DIRECT - 1
  BY <1>1, InCall
<1>4. p \in Places(files) /\ ptr = Ptr(inodes, blocks, p) /\ p[2] = "direct"
  BY <1>3, PlaceMembers DEF Ptr
<1>5. Same(inodes, blocks, inodes, blocks', files) /\ Shape(inodes, blocks', files)
  <2>1. Filled(ptr) \in [Words -> Nat]
    BY <1>1, <1>2, FillTypes
  <2> HIDE DEF ptr, p
  <2> QED BY <1>2, <1>4, <2>1, FillData
<1>8. \A b \in DataBlocks \ Alloc(ptr) : blocks'[b] = blocks[b]
  <2> HIDE DEF ptr, p
  <2>1. t \in Alloc(ptr)
    BY <1>2, <1>4, TakenMarked
  <2> HIDE DEF t
  <2> QED BY <1>2, <2>1, Constants DEF Typed, TypeOK
<1> HIDE DEF ptr, t
<1>6. Changed(inodes, blocks', inodes', blocks', files, p, t)
  <2>1. \E n : inodes' = [inodes EXCEPT ![wr.f].direct[wr.i] = t, ![wr.f].size = n]
    BY <1>2
  <2> QED BY <1>3, <1>5, <2>1, SetDirect
<1>7. Changed(inodes, blocks, inodes', blocks', files, p, t)
  BY <1>5, <1>6 DEF Same, Changed
<1> QED BY <1>2, <1>4, <1>7, <1>8 DEF Takes, t

LEMMA Table1Takes ==
  ASSUME Typed, MapSound, write_table1
  PROVE  NoSpace(inodes[wr.f].indir_1) \/ Takes(<<wr.f, "indir_1", 0, 0>>)
<1> DEFINE p   == <<wr.f, "indir_1", 0, 0>>
           ptr == inodes[wr.f].indir_1
           t   == Target(ptr)
<1> SUFFICES ASSUME ~NoSpace(ptr) PROVE Takes(p)
  OBVIOUS
<1>0. Shape(inodes, blocks, files) /\ inodes \in [Files -> Inode]
      /\ blocks \in [Blocks -> [Words -> Nat]]
  BY DEF Shape, Typed, TypeOK
<1>1. wr.stage = "table1" /\ wr.stage \in Active
  BY DEF write_table1, Active, Stages
<1>2. /\ Usable(ptr)
      /\ block_map' = Alloc(ptr) /\ files' = files
      /\ inodes' = [inodes EXCEPT ![wr.f].indir_1 = t]
      /\ blocks' = IF ptr = 0 THEN [blocks EXCEPT ![t] = ZeroBlock] ELSE blocks
  BY DEF write_table1
<1>3. wr.f \in files /\ wr.f \in Files
  BY <1>1, InCall
<1>4. p \in Places(files) /\ ptr = Ptr(inodes, blocks, p)
  BY <1>3, PlaceMembers DEF Ptr
<1>5. /\ ptr = 0 => t \in DataBlocks \ block_map
      /\ ptr # 0 => t = ptr
      /\ t \in Blocks
  <2> HIDE DEF ptr, p
  <2> QED BY <1>2, <1>4, TargetFree, Constants
<1>8. \A b \in DataBlocks \ Alloc(ptr) : blocks'[b] = blocks[b]
  <2> HIDE DEF ptr, p
  <2>1. t \in Alloc(ptr)
    BY <1>2, <1>4, TakenMarked
  <2> HIDE DEF t
  <2> QED BY <1>0, <1>2, <2>1, Constants
<1> HIDE DEF t
<1>6. CASE ptr = 0
  <2>1. blocks' = [blocks EXCEPT ![t] = ZeroBlock]
    BY <1>2, <1>6
  <2>2. NotTable(inodes, blocks, files, t)
    BY <1>5, <1>6, MarkSound, UnusedNotTable DEF MapSound
  <2>3. Same(inodes, blocks, inodes, blocks', files)
    BY <1>0, <2>1, <2>2, SetData
  <2>4. Shape(inodes, blocks', files) /\ blocks'[t] = ZeroBlock
    BY <1>0, <1>5, <2>1 DEF Shape, ZeroBlock
  <2>5. Changed(inodes, blocks', inodes', blocks', files, p, t)
    BY <1>2, <1>3, <1>5, <1>6, <2>4, SetTable1
  <2>6. Changed(inodes, blocks, inodes', blocks', files, p, t)
    BY <2>3, <2>5 DEF Same, Changed
  <2> QED BY <1>2, <1>4, <1>8, <2>6 DEF Takes, t
<1>7. CASE ptr # 0
  <2>1. inodes' = inodes /\ blocks' = blocks
    BY <1>0, <1>2, <1>3, <1>5, <1>7 DEF Inode
  <2>2. Changed(inodes, blocks, inodes', blocks', files, p, t)
    BY <1>4, <1>5, <1>7, <2>1 DEF Changed
  <2> QED BY <1>2, <1>4, <1>8, <2>2 DEF Takes, t
<1> QED BY <1>6, <1>7

LEMMA Table2Takes ==
  ASSUME Typed, MapSound, write_table2
  PROVE  NoSpace(inodes[wr.f].indir_2) \/ Takes(<<wr.f, "indir_2", 0, 0>>)
<1> DEFINE p   == <<wr.f, "indir_2", 0, 0>>
           ptr == inodes[wr.f].indir_2
           t   == Target(ptr)
<1> SUFFICES ASSUME ~NoSpace(ptr) PROVE Takes(p)
  OBVIOUS
<1>0. Shape(inodes, blocks, files) /\ inodes \in [Files -> Inode]
      /\ blocks \in [Blocks -> [Words -> Nat]]
  BY DEF Shape, Typed, TypeOK
<1>1. wr.stage = "table2" /\ wr.stage \in Active
  BY DEF write_table2, Active, Stages
<1>2. /\ Usable(ptr)
      /\ block_map' = Alloc(ptr) /\ files' = files
      /\ inodes' = [inodes EXCEPT ![wr.f].indir_2 = t]
      /\ blocks' = IF ptr = 0 THEN [blocks EXCEPT ![t] = ZeroBlock] ELSE blocks
  BY DEF write_table2
<1>3. wr.f \in files /\ wr.f \in Files
  BY <1>1, InCall
<1>4. p \in Places(files) /\ ptr = Ptr(inodes, blocks, p)
  BY <1>3, PlaceMembers DEF Ptr
<1>5. /\ ptr = 0 => t \in DataBlocks \ block_map
      /\ ptr # 0 => t = ptr
      /\ t \in Blocks
  <2> HIDE DEF ptr, p
  <2> QED BY <1>2, <1>4, TargetFree, Constants
<1>8. \A b \in DataBlocks \ Alloc(ptr) : blocks'[b] = blocks[b]
  <2> HIDE DEF ptr, p
  <2>1. t \in Alloc(ptr)
    BY <1>2, <1>4, TakenMarked
  <2> HIDE DEF t
  <2> QED BY <1>0, <1>2, <2>1, Constants
<1> HIDE DEF t
<1>6. CASE ptr = 0
  <2>1. blocks' = [blocks EXCEPT ![t] = ZeroBlock]
    BY <1>2, <1>6
  <2>2. NotTable(inodes, blocks, files, t)
    BY <1>5, <1>6, MarkSound, UnusedNotTable DEF MapSound
  <2>3. Same(inodes, blocks, inodes, blocks', files)
    BY <1>0, <2>1, <2>2, SetData
  <2>4. Shape(inodes, blocks', files) /\ blocks'[t] = ZeroBlock
    BY <1>0, <1>5, <2>1 DEF Shape, ZeroBlock
  <2>5. Changed(inodes, blocks', inodes', blocks', files, p, t)
    BY <1>2, <1>3, <1>5, <1>6, <2>4, SetTable2
  <2>6. Changed(inodes, blocks, inodes', blocks', files, p, t)
    BY <2>3, <2>5 DEF Same, Changed
  <2> QED BY <1>2, <1>4, <1>8, <2>6 DEF Takes, t
<1>7. CASE ptr # 0
  <2>1. inodes' = inodes /\ blocks' = blocks
    BY <1>0, <1>2, <1>3, <1>5, <1>7 DEF Inode
  <2>2. Changed(inodes, blocks, inodes', blocks', files, p, t)
    BY <1>4, <1>5, <1>7, <2>1 DEF Changed
  <2> QED BY <1>2, <1>4, <1>8, <2>2 DEF Takes, t
<1> QED BY <1>6, <1>7

(* The entry the loop is at, read from the table: no block outside the     *)
(* image.                                                                  *)
LEMMA EntryInRange ==
  ASSUME Typed, MapSound, NEW p \in Places(files)
  PROVE  Ptr(inodes, blocks, p) \in Blocks
BY Constants DEF MapSound, Sound, Mappable

LEMMA Level1Takes ==
  ASSUME Typed, MapSound, Linked, write_level1
  PROVE  \/ NoSpace(blocks[inodes[wr.f].indir_1][wr.i])
         \/ Takes(<<wr.f, "level1", wr.i, 0>>) /\ ~Abort(blocks[inodes[wr.f].indir_1][wr.i])
<1> DEFINE p     == <<wr.f, "level1", wr.i, 0>>
           table == inodes[wr.f].indir_1
           ptr   == blocks[table][wr.i]
           t     == Target(ptr)
           blk   == [blocks EXCEPT ![t] = Filled(ptr)]
<1> SUFFICES ASSUME ~NoSpace(ptr) PROVE Takes(p) /\ ~Abort(ptr)
  OBVIOUS
<1>0. Shape(inodes, blocks, files) /\ inodes \in [Files -> Inode]
      /\ blocks \in [Blocks -> [Words -> Nat]]
  BY DEF Shape, Typed, TypeOK
<1>1. wr.stage = "level1" /\ wr.stage \in Active
  BY Zenon DEF write_level1, Active, Stages
<1>3. wr.f \in files /\ wr.f \in Files /\ wr.i \in Words /\ table \in Blocks
  BY <1>1, InCall
<1>4. /\ p \in Places(files) /\ p[2] = "level1" /\ table # 0
      /\ ptr = At(blocks, table, wr.i) /\ ptr = Ptr(inodes, blocks, p)
  <2>1. p \in Places(files) /\ p[2] = "level1"
    BY <1>3, PlaceMembers
  <2>2. table # 0
    BY <1>1 DEF Linked, Ptr
  <2>3. ptr = At(blocks, table, wr.i)
    BY <1>3, <2>2 DEF At
  <2> QED BY <2>1, <2>2, <2>3 DEF Ptr
<1>2. /\ Usable(ptr) /\ ~Abort(ptr)
      /\ block_map' = Alloc(ptr) /\ files' = files
      /\ inodes' = [inodes EXCEPT ![wr.f].size = @ + Chunk(ptr)]
      /\ blocks' = [blocks EXCEPT ![table][wr.i] = t, ![t] = Filled(ptr)]
  <2>1. ptr \in Blocks
    <3> HIDE DEF p, ptr
    <3> QED BY <1>4, EntryInRange
  <2>2. ~Abort(ptr)
    BY <2>1 DEF Abort
  <2> QED BY <2>2, Zenon DEF write_level1
<1>5. /\ Same(inodes, blocks, inodes, blk, files) /\ Shape(inodes, blk, files)
      /\ Sound(block_map, inodes, blk, files) /\ NotTable(inodes, blocks, files, t)
  <2>1. Filled(ptr) \in [Words -> Nat]
    BY <1>1, <1>2, FillTypes, Zenon
  <2> HIDE DEF ptr, p
  <2> QED BY <1>2, <1>4, <2>1, FillData
<1>6. t # table
  BY <1>3, <1>5, Zenon DEF NotTable
<1>11. \A b \in DataBlocks \ Alloc(ptr) : blocks'[b] = blocks[b]
  <2>1. <<wr.f, "indir_1", 0, 0>> \in Places(files)
        /\ table = Ptr(inodes, blocks, <<wr.f, "indir_1", 0, 0>>)
    BY <1>3, PlaceMembers DEF Ptr
  <2> HIDE DEF ptr, p, table
  <2>2. t \in Alloc(ptr) /\ table \in Alloc(ptr)
    BY <1>2, <1>4, <2>1, TakenMarked
  <2> HIDE DEF t
  <2> QED BY <1>0, <1>2, <1>3, <1>6, <2>2, Constants
<1>7. blocks' = [blk EXCEPT ![table][wr.i] = t]
  <2> HIDE DEF t, ptr, table
  <2> QED BY <1>0, <1>2, <1>3, <1>6
<1> HIDE DEF ptr, t, blk, table
<1>8. Changed(inodes, blk, inodes, blocks', files, p, t)
  BY <1>3, <1>4, <1>5, <1>7, SetLevel1 DEF table
<1>9. Same(inodes, blocks', inodes', blocks', files)
  <2>1. \E n : inodes' = [inodes EXCEPT ![wr.f].size = n]
    BY <1>2
  <2>2. Shape(inodes, blocks', files)
    <3>1. t \in Nat
      <4> HIDE DEF p
      <4> QED BY <1>2, <1>4, TargetFree, Constants DEF t
    <3> QED BY <1>3, <1>5, <1>7, <3>1 DEF Shape
  <2> QED BY <1>3, <2>1, <2>2, SetSize
<1>10. Changed(inodes, blocks, inodes', blocks', files, p, t)
  BY <1>5, <1>8, <1>9, SameChangedSame
<1> QED BY <1>2, <1>4, <1>10, <1>11 DEF Takes, t

LEMMA OuterTakes ==
  ASSUME Typed, MapSound, Linked, Clean, write_outer
  PROVE  \/ NoSpace(blocks[inodes[wr.f].indir_2][wr.i])
         \/ Takes(<<wr.f, "outer", wr.i, 0>>) /\ ~Abort(blocks[inodes[wr.f].indir_2][wr.i])
<1> DEFINE p     == <<wr.f, "outer", wr.i, 0>>
           table == inodes[wr.f].indir_2
           ptr   == blocks[table][wr.i]
           t     == Target(ptr)
<1> SUFFICES ASSUME ~NoSpace(ptr) PROVE Takes(p) /\ ~Abort(ptr)
  OBVIOUS
<1>0. Shape(inodes, blocks, files) /\ blocks \in [Blocks -> [Words -> Nat]]
  BY DEF Shape, Typed, TypeOK
<1>1. wr.stage = "outer" /\ wr.stage \in Active
  BY DEF write_outer, Active, Stages
<1>3. wr.f \in files /\ wr.f \in Files /\ wr.i \in Words /\ table \in Blocks
  BY <1>1, InCall
<1>4. /\ p \in Places(files) /\ table # 0
      /\ ptr = At(blocks, table, wr.i) /\ ptr = Ptr(inodes, blocks, p)
  <2>1. p \in Places(files)
    BY <1>3, PlaceMembers
  <2>2. table # 0
    BY <1>1 DEF Linked, Ptr
  <2>3. ptr = At(blocks, table, wr.i)
    BY <1>3, <2>2 DEF At
  <2> QED BY <2>1, <2>2, <2>3 DEF Ptr
<1>2. /\ Usable(ptr) /\ ~Abort(ptr)
      /\ block_map' = Alloc(ptr) /\ files' = files /\ inodes' = inodes
      /\ blocks' = [blocks EXCEPT ![table][wr.i] = t]
  <2>1. ptr \in Blocks
    <3> HIDE DEF p, ptr
    <3> QED BY <1>4, EntryInRange
  <2>2. ~Abort(ptr)
    BY <2>1 DEF Abort
  <2> QED BY <2>2 DEF write_outer
<1>5. /\ ptr = 0 => t \in DataBlocks \ block_map
      /\ ptr # 0 => t = ptr
      /\ t \in Blocks
  <2> HIDE DEF ptr, p
  <2> QED BY <1>2, <1>4, TargetFree, Constants
<1>8. \A b \in DataBlocks \ Alloc(ptr) : blocks'[b] = blocks[b]
  <2>1. <<wr.f, "indir_2", 0, 0>> \in Places(files)
        /\ table = Ptr(inodes, blocks, <<wr.f, "indir_2", 0, 0>>)
    BY <1>3, PlaceMembers DEF Ptr
  <2> HIDE DEF ptr, p, table
  <2>2. table \in Alloc(ptr)
    BY <1>2, <1>4, <2>1, TakenMarked
  <2> HIDE DEF t
  <2> QED BY <1>0, <1>2, <1>3, <2>2, Constants
<1>6. CASE ptr = 0
  <2> HIDE DEF t
  <2>1. t # table
    <3>1. Unused(inodes, blocks, files, t)
      BY <1>5, <1>6, MarkSound DEF MapSound
    <3> QED BY <1>3, <3>1, UnusedNotTable DEF NotTable
  <2>2. blocks[t] = ZeroBlock
    BY <1>5, <1>6 DEF Clean
  <2> HIDE DEF ptr, table, p
  <2>3. At(blocks, table, wr.i) = 0
    BY <1>4, <1>6
  <2>4. Changed(inodes, blocks, inodes, blocks', files, <<wr.f, "outer", wr.i, 0>>, t)
    BY <1>0, <1>2, <1>3, <1>4, <1>5, <2>1, <2>2, <2>3, SetOuter DEF MapSound, table
  <2> QED BY <1>2, <1>4, <1>8, <2>4 DEF Takes, t, p
<1>7. CASE ptr # 0
  <2>1. blocks' = blocks
    BY <1>0, <1>2, <1>3, <1>5, <1>7, Zenon
  <2>2. Changed(inodes, blocks, inodes', blocks', files, p, t)
    BY <1>2, <1>4, <1>5, <1>7, <2>1 DEF Changed
  <2> QED BY <1>2, <1>4, <1>8, <2>2 DEF Takes, t
<1> QED BY <1>6, <1>7

LEMMA InnerTakes ==
  ASSUME Typed, MapSound, Linked, write_inner
  PROVE  \/ NoSpace(blocks[blocks[inodes[wr.f].indir_2][wr.i]][wr.j])
         \/ Takes(<<wr.f, "inner", wr.i, wr.j>>) /\ ~Abort(blocks[blocks[inodes[wr.f].indir_2][wr.i]][wr.j])
<1> DEFINE p     == <<wr.f, "inner", wr.i, wr.j>>
           outer == inodes[wr.f].indir_2
           table == blocks[outer][wr.i]
           ptr   == blocks[table][wr.j]
           t     == Target(ptr)
           blk   == [blocks EXCEPT ![t] = Filled(ptr)]
<1> SUFFICES ASSUME ~NoSpace(ptr) PROVE Takes(p) /\ ~Abort(ptr)
  OBVIOUS
<1>0. Shape(inodes, blocks, files) /\ inodes \in [Files -> Inode]
      /\ blocks \in [Blocks -> [Words -> Nat]]
  BY DEF Shape, Typed, TypeOK
<1>1. wr.stage = "inner" /\ wr.stage \in Active
  BY Zenon DEF write_inner, Active, Stages
<1>3. wr.f \in files /\ wr.f \in Files /\ wr.i \in Words /\ wr.j \in Words /\ outer \in Blocks
  BY <1>1, InCall
<1>4. /\ p \in Places(files) /\ p[2] = "inner"
      /\ outer # 0 /\ table = At(blocks, outer, wr.i) /\ table # 0 /\ table \in Blocks
      /\ ptr = At(blocks, table, wr.j) /\ ptr = Ptr(inodes, blocks, p)
  <2>1. /\ p \in Places(files) /\ p[2] = "inner" /\ <<wr.f, "outer", wr.i, 0>> \in Places(files)
    BY <1>3, PlaceMembers
  <2>2. /\ outer # 0 /\ At(blocks, outer, wr.i) # 0
        /\ At(blocks, outer, wr.i) = Ptr(inodes, blocks, <<wr.f, "outer", wr.i, 0>>)
    BY <1>1 DEF Linked, Ptr
  <2>3. table = At(blocks, outer, wr.i)
    BY <1>3, <2>2 DEF At
  <2>4. table \in Blocks
    <3> HIDE DEF table, outer
    <3> QED BY <2>1, <2>2, <2>3, EntryInRange
  <2>5. ptr = At(blocks, table, wr.j)
    BY <2>2, <2>3, <2>4 DEF At
  <2>6. ptr = Ptr(inodes, blocks, p)
    <3> HIDE DEF table
    <3> QED BY <2>3, <2>5 DEF Ptr
  <2> QED BY <2>1, <2>2, <2>3, <2>4, <2>5, <2>6
<1>2. /\ Usable(ptr) /\ ~Abort(ptr)
      /\ block_map' = Alloc(ptr) /\ files' = files
      /\ inodes' = [inodes EXCEPT ![wr.f].size = @ + Chunk(ptr)]
      /\ blocks' = [blocks EXCEPT ![t] = Filled(ptr), ![table] = [blocks[table] EXCEPT ![wr.j] = t]]
  <2>1. ptr \in Blocks
    <3> HIDE DEF p, ptr
    <3> QED BY <1>4, EntryInRange
  <2>2. ~Abort(ptr)
    BY <2>1 DEF Abort
  <2> QED BY <2>2, Zenon DEF write_inner
<1>5. /\ Same(inodes, blocks, inodes, blk, files) /\ Shape(inodes, blk, files)
      /\ Sound(block_map, inodes, blk, files) /\ NotTable(inodes, blocks, files, t)
      /\ t \in Blocks
  <2>1. Filled(ptr) \in [Words -> Nat]
    BY <1>1, <1>2, FillTypes, Zenon
  <2> HIDE DEF ptr, p
  <2> QED BY <1>2, <1>4, <2>1, FillData, TargetFree, Constants, Zenon
<1>6. t # table /\ t # outer
  <2> HIDE DEF t, table
  <2> QED BY <1>3, <1>4, <1>5 DEF NotTable
<1>12. \A b \in DataBlocks \ Alloc(ptr) : blocks'[b] = blocks[b]
  <2>1. <<wr.f, "outer", wr.i, 0>> \in Places(files)
        /\ At(blocks, outer, wr.i) = Ptr(inodes, blocks, <<wr.f, "outer", wr.i, 0>>)
    BY <1>3, PlaceMembers DEF Ptr
  <2> HIDE DEF ptr, p, table
  <2>2. t \in Alloc(ptr) /\ table \in Alloc(ptr)
    BY <1>2, <1>4, <2>1, TakenMarked
  <2> HIDE DEF t
  <2> QED BY <1>0, <1>2, <1>4, <1>6, <2>2, Constants
<1>7. blocks' = [blk EXCEPT ![table] = [blk[table] EXCEPT ![wr.j] = t]]
  <2> HIDE DEF t, ptr, table
  <2> QED BY <1>0, <1>2, <1>4, <1>5, <1>6
<1>8. table = At(blk, outer, wr.i)
  <2> HIDE DEF t, ptr, table
  <2> QED BY <1>0, <1>3, <1>4, <1>5, <1>6, Zenon DEF At
<1> HIDE DEF ptr, t, blk, table
<1>9. Changed(inodes, blk, inodes, blocks', files, <<wr.f, "inner", wr.i, wr.j>>, t)
  BY <1>3, <1>4, <1>5, <1>7, <1>8, SetInner
<1>10. Same(inodes, blocks', inodes', blocks', files)
  <2>1. \E n : inodes' = [inodes EXCEPT ![wr.f].size = n]
    BY <1>2
  <2>2. Shape(inodes, blocks', files)
    BY <1>4, <1>5, <1>7, Constants DEF Shape
  <2> QED BY <1>3, <2>1, <2>2, SetSize
<1>11. Changed(inodes, blocks, inodes', blocks', files, p, t)
  BY <1>5, <1>9, <1>10, SameChangedSame
<1> QED BY <1>2, <1>4, <1>11, <1>12 DEF Takes, t

(* Where the loops go.  After a block, the call ends, or there is data     *)
(* left and the block is full.                                             *)
LEMMA OnwardCases ==
  ASSUME Typed, wr.stage \in Active, NEW ptr, NEW next, wr' = Onward(ptr, next)
  PROVE  \/ wr'.stage = "cleanup"
         \/ wr' = next /\ Chunk(ptr) = ADDR_PER_BLOCK - Start(ptr) /\ Chunk(ptr) # wr.len
<1>1. Filling(ptr) \in WriteCall /\ Filling(ptr).len = wr.len - Chunk(ptr)
  BY FillingBounds
<1>2. wr.len \in Nat /\ Start(ptr) \in Nat /\ ADDR_PER_BLOCK \in Nat /\ Chunk(ptr) \in Nat
  <2>1. wr.len \in Nat
    BY Constants DEF Typed, TypeOK, WriteCall
  <2>2. Start(ptr) \in Words /\ Chunk(ptr) \in 1 .. wr.len
    BY FillBounds
  <2>3. \A n \in 1 .. wr.len : n \in Nat
    BY <2>1
  <2> QED BY <2>1, <2>2, <2>3, Constants
<1>3. CASE Filling(ptr).len = 0
  BY <1>1, <1>3 DEF Onward, WriteCall
<1>4. CASE Filling(ptr).len # 0
  <2>1. wr' = next /\ Chunk(ptr) # wr.len
    BY <1>1, <1>2, <1>4 DEF Onward
  <2>2. Chunk(ptr) \in {wr.len, ADDR_PER_BLOCK - Start(ptr)}
    <3>1. Start(ptr) < ADDR_PER_BLOCK /\ wr.len > 0
      BY FillBounds, Constants DEF Words, Typed, WriteBounds
    <3>2. {wr.len, ADDR_PER_BLOCK - Start(ptr)} \subseteq Nat
      BY <1>2, <3>1
    <3> QED BY <3>2, MinNat DEF Chunk
  <2> QED BY <2>1, <2>2
<1> QED BY <1>3, <1>4

LEMMA DirectLocals ==
  ASSUME Typed, write_direct, NEW ptr, ptr = inodes[wr.f].direct[wr.i], ~NoSpace(ptr)
  PROVE  /\ wr.stage = "direct"
         /\ inodes' = [inodes EXCEPT ![wr.f].direct[wr.i] = Target(ptr),
                                     ![wr.f].size = inodes[wr.f].size + Chunk(ptr)]
         /\ \/ wr'.stage = "cleanup"
            \/ /\ wr'.f = wr.f
               /\ Chunk(ptr) = ADDR_PER_BLOCK - Start(ptr) /\ Chunk(ptr) # wr.len
               /\ IF wr.i + 1 < N_DIRECT THEN wr'.stage = "direct" /\ wr'.i = wr.i + 1
                                         ELSE wr'.stage = "table1" /\ wr'.i = 0
<1> DEFINE next == Reset(Filling(ptr), ptr)
           on   == IF wr.i + 1 < N_DIRECT THEN [next EXCEPT !.i = @ + 1] ELSE ToLevel1(next)
<1>1. wr.stage = "direct" /\ wr.stage \in Active
  BY Zenon DEF write_direct, Active, Stages
<1>2. /\ wr' = Onward(ptr, on)
      /\ inodes' = [inodes EXCEPT ![wr.f].direct[wr.i] = Target(ptr),
                                  ![wr.f].size = inodes[wr.f].size + Chunk(ptr)]
  <2>1. inodes \in [Files -> Inode] /\ wr.f \in Files /\ wr.i \in 0 .. N_DIRECT - 1
    BY <1>1, InCall DEF Typed, TypeOK
  <2> QED BY <2>1, Zenon DEF write_direct, Inode
<1>3. \/ wr'.stage = "cleanup"
      \/ wr' = on /\ Chunk(ptr) = ADDR_PER_BLOCK - Start(ptr) /\ Chunk(ptr) # wr.len
  BY <1>1, <1>2, OnwardCases, Zenon
<1>4. /\ next \in WriteCall /\ next.f = wr.f /\ next.i = wr.i /\ next.stage = "direct"
  BY <1>1, FillingBounds, ResetLocals DEF SameData
<1> HIDE DEF next
<1>5. /\ on.f = wr.f
      /\ IF wr.i + 1 < N_DIRECT THEN on.stage = "direct" /\ on.i = wr.i + 1
                                ELSE on.stage = "table1" /\ on.i = 0
  <2>1. CASE wr.i + 1 < N_DIRECT
    BY <1>4, <2>1 DEF WriteCall
  <2>2. CASE ~(wr.i + 1 < N_DIRECT)
    BY <1>4, <2>2, LevelLocals DEF SameData
  <2> QED BY <2>1, <2>2
<1> HIDE DEF on
<1> QED BY <1>1, <1>2, <1>3, <1>5

LEMMA Level1Locals ==
  ASSUME Typed, write_level1, NEW ptr, ptr = blocks[inodes[wr.f].indir_1][wr.i],
         ~NoSpace(ptr), ~Abort(ptr)
  PROVE  /\ wr.stage = "level1"
         /\ inodes' = [inodes EXCEPT ![wr.f].size = inodes[wr.f].size + Chunk(ptr)]
         /\ \/ wr'.stage = "cleanup"
            \/ /\ wr'.f = wr.f
               /\ Chunk(ptr) = ADDR_PER_BLOCK - Start(ptr) /\ Chunk(ptr) # wr.len
               /\ IF wr.i + 1 < ADDR_PER_BLOCK THEN wr'.stage = "level1" /\ wr'.i = wr.i + 1
                                               ELSE wr'.stage = "table2"
<1> DEFINE next == Reset(Filling(ptr), ptr)
           on   == IF wr.i + 1 < ADDR_PER_BLOCK THEN [next EXCEPT !.i = @ + 1]
                   ELSE ToLevel2(next)
<1>1. wr.stage = "level1" /\ wr.stage \in Active
  BY Zenon DEF write_level1, Active, Stages
<1>2. /\ wr' = Onward(ptr, on)
      /\ inodes' = [inodes EXCEPT ![wr.f].size = inodes[wr.f].size + Chunk(ptr)]
  <2>1. inodes \in [Files -> Inode] /\ wr.f \in Files
    BY <1>1, InCall DEF Typed, TypeOK
  <2> QED BY <2>1, Zenon DEF write_level1, Inode
<1>3. \/ wr'.stage = "cleanup"
      \/ wr' = on /\ Chunk(ptr) = ADDR_PER_BLOCK - Start(ptr) /\ Chunk(ptr) # wr.len
  BY <1>1, <1>2, OnwardCases, Zenon
<1>4. /\ next \in WriteCall /\ next.f = wr.f /\ next.i = wr.i /\ next.stage = "level1"
  BY <1>1, FillingBounds, ResetLocals DEF SameData
<1> HIDE DEF next
<1>5. /\ on.f = wr.f
      /\ IF wr.i + 1 < ADDR_PER_BLOCK THEN on.stage = "level1" /\ on.i = wr.i + 1
                                      ELSE on.stage = "table2"
  <2>1. CASE wr.i + 1 < ADDR_PER_BLOCK
    BY <1>4, <2>1 DEF WriteCall
  <2>2. CASE ~(wr.i + 1 < ADDR_PER_BLOCK)
    BY <1>4, <2>2, LevelLocals DEF SameData
  <2> QED BY <2>1, <2>2
<1> HIDE DEF on
<1> QED BY <1>1, <1>2, <1>3, <1>5, Zenon

LEMMA InnerLocals ==
  ASSUME Typed, write_inner, NEW ptr,
         ptr = blocks[blocks[inodes[wr.f].indir_2][wr.i]][wr.j], ~NoSpace(ptr), ~Abort(ptr)
  PROVE  /\ wr.stage = "inner"
         /\ \/ wr'.stage = "cleanup"
            \/ wr'.f = wr.f /\ (wr'.stage = "outer" \/ (wr'.stage = "inner" /\ wr'.i = wr.i))
<1> DEFINE next == Filling(ptr)
           on   == IF wr.j + 1 < ADDR_PER_BLOCK THEN [next EXCEPT !.j = @ + 1]
                   ELSE IF wr.i + 1 < ADDR_PER_BLOCK
                   THEN [next EXCEPT !.stage = "outer", !.i = @ + 1, !.j = 0]
                   ELSE [next EXCEPT !.stage = "cleanup"]
<1>1. wr.stage = "inner" /\ wr.stage \in Active
  BY Zenon DEF write_inner, Active, Stages
<1>2. wr' = Onward(ptr, on)
  BY Zenon DEF write_inner
<1>3. wr'.stage = "cleanup" \/ wr' = on
  BY <1>1, <1>2, OnwardCases, Zenon
<1>4. /\ next \in WriteCall /\ next.f = wr.f /\ next.i = wr.i /\ next.stage = "inner"
  BY <1>1, FillingBounds, Zenon
<1> HIDE DEF next
<1>5. \/ on.stage = "cleanup"
      \/ on.f = wr.f /\ (on.stage = "outer" \/ (on.stage = "inner" /\ on.i = wr.i))
  <2>1. CASE wr.j + 1 < ADDR_PER_BLOCK
    <3>1. on = [next EXCEPT !.j = next.j + 1]
      BY <2>1
    <3> HIDE DEF on
    <3> QED BY <1>4, <3>1 DEF WriteCall
  <2>2. CASE ~(wr.j + 1 < ADDR_PER_BLOCK) /\ wr.i + 1 < ADDR_PER_BLOCK
    <3>1. on = [next EXCEPT !.stage = "outer", !.i = next.i + 1, !.j = 0]
      BY <2>2
    <3> HIDE DEF on
    <3>2. on.stage = "outer" /\ on.f = next.f
      BY <1>4, <3>1 DEF WriteCall
    <3> QED BY <1>4, <3>2
  <2>3. CASE ~(wr.j + 1 < ADDR_PER_BLOCK) /\ ~(wr.i + 1 < ADDR_PER_BLOCK)
    <3>1. on = [next EXCEPT !.stage = "cleanup"]
      BY <2>3
    <3> HIDE DEF on
    <3> QED BY <1>4, <3>1 DEF WriteCall
  <2> QED BY <2>1, <2>2, <2>3
<1> HIDE DEF on
<1> QED BY <1>1, <1>3, <1>5

(* The steps of fs_write on sound pointers: one that ends the loops leaves *)
(* the files alone, and every other takes the place it is at.              *)
Quiet ==
    wr'.stage \in {"cleanup", "idle"} /\ UNCHANGED <<block_map, inodes, blocks, files>>

Onwards ==
    \/ /\ wr.stage = "direct" /\ Takes(<<wr.f, "direct", wr.i, 0>>)
       /\ wr'.stage \in {"cleanup", "direct", "table1"}
    \/ /\ wr.stage = "table1" /\ Takes(<<wr.f, "indir_1", 0, 0>>)
       /\ wr'.stage = "level1" /\ wr'.f = wr.f
    \/ /\ wr.stage = "level1" /\ Takes(<<wr.f, "level1", wr.i, 0>>)
       /\ wr'.stage \in {"cleanup", "level1", "table2"} /\ (wr'.stage = "level1" => wr'.f = wr.f)
    \/ /\ wr.stage = "table2" /\ Takes(<<wr.f, "indir_2", 0, 0>>)
       /\ wr'.stage = "outer" /\ wr'.f = wr.f
    \/ /\ wr.stage = "outer" /\ Takes(<<wr.f, "outer", wr.i, 0>>)
       /\ wr'.stage = "inner" /\ wr'.f = wr.f /\ wr'.i = wr.i
    \/ /\ wr.stage = "inner" /\ Takes(<<wr.f, "inner", wr.i, wr.j>>)
       /\ wr'.stage \in {"cleanup", "outer", "inner"}
       /\ wr'.stage # "cleanup" => wr'.f = wr.f
       /\ wr'.stage = "inner" => wr'.i = wr.i

LEMMA NoSpaceQuiet ==
  ASSUME Typed, NEW ptr, NoSpace(ptr)
  PROVE  Quiet
BY DEF NoSpace, Quiet, Typed, TypeOK, WriteCall

LEMMA StepCases ==
  ASSUME Inv, OnlyWritten \/ OneLevel, WriteStep
  PROVE  Quiet \/ Onwards
<1>0. Typed /\ MapSound /\ Linked /\ wr \in WriteCall
  BY DEF Inv, Typed, TypeOK
<1>1. CASE write_direct
  <2> DEFINE ptr == inodes[wr.f].direct[wr.i]
  <2>1. CASE NoSpace(ptr)
    BY <1>0, <2>1, NoSpaceQuiet
  <2>2. CASE ~NoSpace(ptr)
    <3>1. Takes(<<wr.f, "direct", wr.i, 0>>)
      BY <1>0, <1>1, <2>2, DirectTakes
    <3>2. wr.stage = "direct" /\ wr'.stage \in {"cleanup", "direct", "table1"}
      BY <1>0, <1>1, <2>2, DirectLocals
    <3> QED BY <3>1, <3>2 DEF Onwards
  <2> QED BY <2>1, <2>2
<1>2. CASE write_table1
  <2> DEFINE ptr == inodes[wr.f].indir_1
  <2>1. CASE NoSpace(ptr)
    BY <1>0, <2>1, NoSpaceQuiet
  <2>2. CASE ~NoSpace(ptr)
    <3>1. Takes(<<wr.f, "indir_1", 0, 0>>)
      BY <1>0, <1>2, <2>2, Table1Takes
    <3>2. wr.stage = "table1" /\ wr'.stage = "level1" /\ wr'.f = wr.f
      BY <1>0, <1>2, <2>2 DEF write_table1, WriteCall
    <3> QED BY <3>1, <3>2 DEF Onwards
  <2> QED BY <2>1, <2>2
<1>3. CASE write_level1
  <2> DEFINE ptr == blocks[inodes[wr.f].indir_1][wr.i]
  <2>1. CASE NoSpace(ptr)
    BY <1>0, <2>1, NoSpaceQuiet
  <2>2. CASE ~NoSpace(ptr)
    <3>1. Takes(<<wr.f, "level1", wr.i, 0>>) /\ ~Abort(ptr)
      BY <1>0, <1>3, <2>2, Level1Takes
    <3>2. /\ wr.stage = "level1" /\ wr'.stage \in {"cleanup", "level1", "table2"}
          /\ wr'.stage = "level1" => wr'.f = wr.f
      BY <1>0, <1>3, <2>2, <3>1, Level1Locals
    <3> QED BY <3>1, <3>2 DEF Onwards
  <2> QED BY <2>1, <2>2
<1>4. CASE write_table2
  <2> DEFINE ptr == inodes[wr.f].indir_2
  <2>1. CASE NoSpace(ptr)
    BY <1>0, <2>1, NoSpaceQuiet
  <2>2. CASE ~NoSpace(ptr)
    <3>1. Takes(<<wr.f, "indir_2", 0, 0>>)
      BY <1>0, <1>4, <2>2, Table2Takes
    <3>2. wr.stage = "table2" /\ wr'.stage = "outer" /\ wr'.f = wr.f
      BY <1>0, <1>4, <2>2 DEF write_table2, WriteCall
    <3> QED BY <3>1, <3>2 DEF Onwards
  <2> QED BY <2>1, <2>2
<1>5. CASE write_outer
  <2> DEFINE ptr == blocks[inodes[wr.f].indir_2][wr.i]
  <2>0. Clean
    <3>1. ~Shallow
      BY <1>5 DEF write_outer, Shallow
    <3> QED BY <3>1 DEF Inv
  <2>1. CASE NoSpace(ptr)
    BY <1>0, <2>1, NoSpaceQuiet
  <2>2. CASE ~NoSpace(ptr)
    <3>1. Takes(<<wr.f, "outer", wr.i, 0>>) /\ ~Abort(ptr)
      BY <1>0, <1>5, <2>0, <2>2, OuterTakes
    <3>2. wr.stage = "outer" /\ wr'.stage = "inner" /\ wr'.f = wr.f /\ wr'.i = wr.i
      BY <1>0, <1>5, <2>2, <3>1 DEF write_outer, WriteCall
    <3> QED BY <3>1, <3>2 DEF Onwards
  <2> QED BY <2>1, <2>2
<1>6. CASE write_inner
  <2> DEFINE ptr == blocks[blocks[inodes[wr.f].indir_2][wr.i]][wr.j]
  <2>1. CASE NoSpace(ptr)
    BY <1>0, <2>1, NoSpaceQuiet
  <2>2. CASE ~NoSpace(ptr)
    <3>1. Takes(<<wr.f, "inner", wr.i, wr.j>>) /\ ~Abort(ptr)
      BY <1>0, <1>6, <2>2, InnerTakes
    <3>2. /\ wr.stage = "inner" /\ wr'.stage \in {"cleanup", "outer", "inner"}
          /\ wr'.stage # "cleanup" => wr'.f = wr.f
          /\ wr'.stage = "inner" => wr'.i = wr.i
      BY <1>0, <1>6, <2>2, <3>1, InnerLocals, Zenon
    <3> QED BY <3>1, <3>2 DEF Onwards
  <2> QED BY <2>1, <2>2
<1>7. CASE write_return
  BY <1>7, IdleCall DEF write_return, Quiet
<1> QED BY <1>1, <1>2, <1>3, <1>4, <1>5, <1>6, <1>7 DEF WriteStep

(* What a step of fs_write keeps.                                          *)
LEMMA StepSound ==
  ASSUME Inv, OnlyWritten \/ OneLevel, WriteStep
  PROVE  MapSound'
<1>0. MapSound
  BY DEF Inv
<1>1. CASE Quiet
  <2>1. UNCHANGED <<block_map, inodes, blocks, files>>
    BY <1>1 DEF Quiet
  <2> QED BY <1>0, <2>1 DEF MapSound
<1>2. CASE Onwards
  <2>1. PICK p : Takes(p)
    BY <1>2 DEF Onwards
  <2> QED BY <1>0, <2>1, TakesSound
<1> QED BY <1>1, <1>2, StepCases

LEMMA StepLinked ==
  ASSUME Inv, OnlyWritten \/ OneLevel, WriteStep
  PROVE  Linked'
<1>0. Typed /\ MapSound /\ Linked
  BY DEF Inv
<1>1. CASE Quiet
  BY <1>1 DEF Quiet, Linked
<1>2. CASE Onwards
  <2>0. wr.stage \in Active => wr.f \in files /\ (wr.stage # "direct" => wr.i \in Words)
    BY <1>0, InCall
  <2>1. \A p : Takes(p) =>
           /\ Ptr(inodes', blocks', p) # 0
           /\ \A x \in Places(files) : Ptr(inodes, blocks, x) # 0 => Ptr(inodes', blocks', x) # 0
    BY <1>0, TakesKeeps
  <2>2. CASE wr.stage = "direct"
    BY <1>2, <2>2 DEF Onwards, Linked
  <2>3. CASE wr.stage = "table1"
    <3>1. /\ Takes(<<wr.f, "indir_1", 0, 0>>) /\ wr'.stage = "level1" /\ wr'.f = wr.f
      BY <1>2, <2>3 DEF Onwards
    <3> QED BY <2>1, <3>1 DEF Linked
  <2>4. CASE wr.stage = "level1"
    <3>1. /\ Takes(<<wr.f, "level1", wr.i, 0>>)
          /\ wr'.stage \in {"cleanup", "level1", "table2"} /\ (wr'.stage = "level1" => wr'.f = wr.f)
      BY <1>2, <2>4 DEF Onwards
    <3>2. /\ <<wr.f, "indir_1", 0, 0>> \in Places(files)
          /\ Ptr(inodes, blocks, <<wr.f, "indir_1", 0, 0>>) # 0
      BY <1>0, <2>0, <2>4, PlaceMembers DEF Linked, Active, Stages
    <3> QED BY <2>1, <3>1, <3>2 DEF Linked
  <2>5. CASE wr.stage = "table2"
    <3>1. /\ Takes(<<wr.f, "indir_2", 0, 0>>) /\ wr'.stage = "outer" /\ wr'.f = wr.f
      BY <1>2, <2>5 DEF Onwards
    <3> QED BY <2>1, <3>1 DEF Linked
  <2>6. CASE wr.stage = "outer"
    <3>1. /\ Takes(<<wr.f, "outer", wr.i, 0>>)
          /\ wr'.stage = "inner" /\ wr'.f = wr.f /\ wr'.i = wr.i
      BY <1>2, <2>6 DEF Onwards
    <3>2. /\ <<wr.f, "indir_2", 0, 0>> \in Places(files)
          /\ Ptr(inodes, blocks, <<wr.f, "indir_2", 0, 0>>) # 0
      BY <1>0, <2>0, <2>6, PlaceMembers DEF Linked, Active, Stages
    <3> QED BY <2>1, <3>1, <3>2 DEF Linked
  <2>7. CASE wr.stage = "inner"
    <3>1. /\ Takes(<<wr.f, "inner", wr.i, wr.j>>)
          /\ wr'.stage \in {"cleanup", "outer", "inner"}
          /\ wr'.stage # "cleanup" => wr'.f = wr.f
          /\ wr'.stage = "inner" => wr'.i = wr.i
      BY <1>2, <2>7 DEF Onwards
    <3>2. /\ <<wr.f, "indir_2", 0, 0>> \in Places(files)
          /\ Ptr(inodes, blocks, <<wr.f, "indir_2", 0, 0>>) # 0
          /\ <<wr.f, "outer", wr.i, 0>> \in Places(files)
          /\ Ptr(inodes, blocks, <<wr.f, "outer", wr.i, 0>>) # 0
      BY <1>0, <2>0, <2>7, PlaceMembers DEF Linked, Active, Stages
    <3> QED BY <2>1, <3>1, <3>2 DEF Linked
  <2> QED BY <1>2, <2>2, <2>3, <2>4, <2>5, <2>6, <2>7 DEF Onwards
<1> QED BY <1>1, <1>2, StepCases

(* Blocks that stay free are not written to.                               *)
LEMMA StepClean ==
  ASSUME Inv, OnlyWritten, WriteStep
  PROVE  Clean'
<1>0. MapSound /\ Clean
  BY DEF Inv
<1>1. CASE Quiet
  BY <1>0, <1>1 DEF Quiet, Clean
<1>2. CASE Onwards
  <2>1. PICK p : Takes(p)
    BY <1>2 DEF Onwards
  <2> DEFINE ptr == Ptr(inodes, blocks, p)
  <2>2. /\ Usable(ptr) /\ block_map' = Alloc(ptr) /\ p \in Places(files)
        /\ \A b \in DataBlocks \ block_map' : blocks'[b] = blocks[b]
    BY <2>1 DEF Takes
  <2> HIDE DEF ptr
  <2>3. block_map \subseteq block_map'
    BY <2>2 DEF Alloc
  <2> QED BY <1>0, <2>2, <2>3 DEF Clean
<1> QED BY <1>1, <1>2, StepCases

-----------------------------------------------------------------------------
(* Files with one level of tables: which pointers are set, and where a     *)
(* call that appends is.                                                   *)
LEMMA Multiples ==
  ASSUME NEW a \in Nat, NEW k \in Nat, NEW l \in Nat, k < l
  PROVE  k * a \in Nat /\ l * a \in Nat /\ k * a + a <= l * a
<1>1. PICK d \in Nat : l = k + 1 + d
  <2>1. l - k - 1 \in Nat /\ l = k + 1 + (l - k - 1)
    OBVIOUS
  <2> QED BY <2>1
<1>2. l * a = k * a + a + d * a
  BY <1>1
<1>3. d * a \in Nat /\ k * a \in Nat
  OBVIOUS
<1> QED BY <1>2, <1>3

LEMMA BlockPlaces ==
  ASSUME NEW fs, NEW f \in fs, NEW k \in 0 .. INDIRECT_BOUND - 1
  PROVE  /\ BlockPlace(f, k) \in Places(fs)
         /\ BlockPlace(f, k)[1] = f
         /\ \A l \in 0 .. INDIRECT_BOUND - 1 : BlockPlace(f, k) = BlockPlace(f, l) => k = l
<1>1. /\ N_DIRECT \in Nat /\ ADDR_PER_BLOCK \in Nat
      /\ INDIRECT_BOUND = N_DIRECT + ADDR_PER_BLOCK
  BY Constants DEF INDIRECT_BOUND
<1>2. k < N_DIRECT => k \in 0 .. N_DIRECT - 1
  BY <1>1
<1>3. ~(k < N_DIRECT) => k - N_DIRECT \in Words
  BY <1>1 DEF Words
<1>4. BlockPlace(f, k) \in Places(fs)
  BY <1>2, <1>3, PlaceMembers DEF BlockPlace
<1>5. BlockPlace(f, k)[1] = f
  BY DEF BlockPlace
<1>6. ASSUME NEW l \in 0 .. INDIRECT_BOUND - 1, BlockPlace(f, k) = BlockPlace(f, l)
      PROVE  k = l
  <2>1. /\ BlockPlace(f, k)[2] = IF k < N_DIRECT THEN "direct" ELSE "level1"
        /\ BlockPlace(f, k)[3] = IF k < N_DIRECT THEN k ELSE k - N_DIRECT
        /\ BlockPlace(f, l)[2] = IF l < N_DIRECT THEN "direct" ELSE "level1"
        /\ BlockPlace(f, l)[3] = IF l < N_DIRECT THEN l ELSE l - N_DIRECT
    BY DEF BlockPlace
  <2> QED BY <1>1, <1>6, <2>1
<1> QED BY <1>4, <1>5, <1>6

(* An append that fills its block up to the end of the block, or to the    *)
(* end of the data, leaves the pointers as the new size says.              *)
LEMMA FillBacked ==
  ASSUME Typed, MapSound, Backed, wr.stage \in {"direct", "level1"}, Appending,
         NEW ptr, ptr = Ptr(inodes, blocks, BlockPlace(wr.f, BlockAt)),
         Takes(BlockPlace(wr.f, BlockAt)), inodes' \in [Files -> Inode],
         \A f \in files :
             inodes'[f].size = IF f = wr.f THEN inodes[f].size + Chunk(ptr) ELSE inodes[f].size
  PROVE  /\ Backed'
         /\ Chunk(ptr) = ADDR_PER_BLOCK - Start(ptr) =>
               inodes'[wr.f].size = (BlockAt + 1) * ADDR_PER_BLOCK
<1> DEFINE k    == BlockAt
           size == inodes[wr.f].size
           n    == size - k * ADDR_PER_BLOCK
<1>0. wr.stage \in Active
  BY DEF Active, Stages
<1>1. /\ wr.f \in files /\ k \in 0 .. INDIRECT_BOUND - 1 /\ size \in Nat
      /\ ADDR_PER_BLOCK \in Nat /\ ADDR_PER_BLOCK > 0 /\ files' = files
  <2>1. /\ wr.f \in files /\ inodes[wr.f] \in Inode
        /\ IF wr.stage = "direct" THEN wr.i \in 0 .. N_DIRECT - 1 ELSE wr.i \in Words
    BY <1>0, InCall
  <2>2. k \in 0 .. INDIRECT_BOUND - 1
    BY <2>1, Constants DEF BlockAt, INDIRECT_BOUND, Words
  <2>3. size \in Nat
    BY <2>1 DEF Inode
  <2> QED BY <2>1, <2>2, <2>3, Constants DEF Takes
<1>2. n \in Words /\ (n # 0 => wr.offset % ADDR_PER_BLOCK = n)
  BY DEF Appending
<1>3. ptr # 0 <=> k * ADDR_PER_BLOCK < size
  BY <1>1 DEF Backed
<1> HIDE DEF k, size
<1>4. k * ADDR_PER_BLOCK \in Nat
  BY <1>1
<1>5. Start(ptr) = n
  <2>1. CASE n = 0
    <3>1. ptr = 0
      BY <1>1, <1>3, <1>4, <2>1
    <3> QED BY <2>1, <3>1 DEF Start
  <2>2. CASE n # 0
    <3>1. k * ADDR_PER_BLOCK < size
      BY <1>1, <1>2, <1>4, <2>2 DEF Words
    <3>2. ptr # 0
      BY <1>3, <3>1
    <3> QED BY <1>2, <2>2, <3>2 DEF Start
  <2> QED BY <2>1, <2>2
<1>6. /\ Chunk(ptr) \in Nat /\ Chunk(ptr) > 0 /\ Start(ptr) + Chunk(ptr) <= ADDR_PER_BLOCK
  <2>1. wr.len \in Nat
    BY Constants DEF Typed, TypeOK, WriteCall
  <2>2. Chunk(ptr) \in 1 .. wr.len /\ Start(ptr) + Chunk(ptr) <= ADDR_PER_BLOCK
    BY <1>0, FillBounds
  <2> QED BY <2>1, <2>2
<1> DEFINE size2 == size + Chunk(ptr)
<1>7. /\ k * ADDR_PER_BLOCK < size2 /\ size2 <= k * ADDR_PER_BLOCK + ADDR_PER_BLOCK
      /\ k * ADDR_PER_BLOCK <= size
  BY <1>1, <1>2, <1>4, <1>5, <1>6 DEF Words
<1>8. Chunk(ptr) = ADDR_PER_BLOCK - Start(ptr) => size2 = (k + 1) * ADDR_PER_BLOCK
  <2>1. (k + 1) * ADDR_PER_BLOCK = k * ADDR_PER_BLOCK + ADDR_PER_BLOCK
    BY <1>1
  <2> QED BY <1>1, <1>4, <1>5, <1>6, <2>1
<1>9. ASSUME NEW f \in files, NEW l \in 0 .. INDIRECT_BOUND - 1
      PROVE  Ptr(inodes', blocks', BlockPlace(f, l)) # 0
                <=> l * ADDR_PER_BLOCK < inodes'[f].size
  <2>0. BlockPlace(f, l) \in Places(files) /\ BlockPlace(f, l)[1] = f
    BY BlockPlaces
  <2>1. CASE f # wr.f
    <3>1. BlockPlace(f, l) # BlockPlace(wr.f, BlockAt)
      BY <1>1, <2>0, <2>1, BlockPlaces DEF k
    <3>2. Ptr(inodes', blocks', BlockPlace(f, l)) = Ptr(inodes, blocks, BlockPlace(f, l))
      BY <2>0, <3>1, TakesKeeps
    <3>3. inodes'[f].size = inodes[f].size
      BY <2>1
    <3> QED BY <3>2, <3>3 DEF Backed
  <2>2. CASE f = wr.f /\ l = k
    <3>1. Ptr(inodes', blocks', BlockPlace(f, l)) # 0
      BY <2>2, TakesKeeps DEF k
    <3>2. inodes'[f].size = size2
      BY <2>2 DEF size
    <3> QED BY <1>7, <2>2, <3>1, <3>2
  <2>3. CASE f = wr.f /\ l # k
    <3>1. BlockPlace(f, l) # BlockPlace(wr.f, BlockAt)
      BY <1>1, <2>3, BlockPlaces DEF k
    <3>2. Ptr(inodes', blocks', BlockPlace(f, l)) = Ptr(inodes, blocks, BlockPlace(f, l))
      BY <2>0, <3>1, TakesKeeps
    <3>3. inodes'[f].size = size2
      BY <2>3 DEF size
    <3>4. Ptr(inodes, blocks, BlockPlace(f, l)) # 0 <=> l * ADDR_PER_BLOCK < size
      BY <2>3 DEF Backed, size
    <3>5. l \in Nat /\ k \in Nat /\ l * ADDR_PER_BLOCK \in Nat
      BY <1>1
    <3>6. CASE l < k
      <4>1. l * ADDR_PER_BLOCK + ADDR_PER_BLOCK <= k * ADDR_PER_BLOCK
        BY <1>1, <3>5, <3>6, Multiples
      <4> QED BY <1>1, <1>4, <1>6, <1>7, <3>2, <3>3, <3>4, <3>5, <4>1
    <3>7. CASE k < l
      <4>1. k * ADDR_PER_BLOCK + ADDR_PER_BLOCK <= l * ADDR_PER_BLOCK
        BY <1>1, <3>5, <3>7, Multiples
      <4> QED BY <1>1, <1>4, <1>6, <1>7, <3>2, <3>3, <3>4, <3>5, <4>1
    <3> QED BY <2>3, <3>5, <3>6, <3>7
  <2> QED BY <2>1, <2>2, <2>3
<1>10. Backed'
  BY <1>1, <1>9 DEF Backed
<1> QED BY <1>1, <1>8, <1>10 DEF k, size

(* A file no longer than the first level of tables reaches keeps to it.    *)
LEMMA StepOneLevel ==
  ASSUME Inv, OneLevel, WriteStep, Typed'
  PROVE  (Shallow /\ Backed /\ Appending)'
<1>0. Typed /\ MapSound /\ Linked /\ Shallow /\ Backed /\ Appending
  BY DEF Inv
<1>1. /\ inodes \in [Files -> Inode] /\ inodes' \in [Files -> Inode]
      /\ wr \in WriteCall /\ files \subseteq Files
  BY <1>0 DEF Typed, TypeOK, Inode
<1> USE <1>1
<1>2. CASE Quiet
  <2>1. (Shallow /\ Backed)'
    BY <1>0, <1>2 DEF Quiet, Shallow, Backed
  <2>2. Appending'
    BY <1>2 DEF Quiet, Appending
  <2> QED BY <2>1, <2>2
<1>3. CASE wr.stage \in {"direct", "level1"} /\ Onwards
  <2> DEFINE ptr == Ptr(inodes, blocks, BlockPlace(wr.f, BlockAt))
  <2>0. wr.stage \in Active
    BY <1>3 DEF Active, Stages
  <2>1. /\ wr.f \in files /\ wr.f \in Files /\ inodes[wr.f] \in Inode
        /\ IF wr.stage = "direct" THEN wr.i \in 0 .. N_DIRECT - 1 ELSE wr.i \in Words
        /\ wr.len \in Nat /\ wr.len > 0 /\ inodes[wr.f].size \in Nat
        /\ inodes[wr.f].size + wr.len <= MaxSize /\ wr.i \in Nat
    <3>1. wr.len \in Nat /\ inodes[wr.f].size \in Nat
      BY <1>0, <2>0, InCall, Constants DEF WriteCall, Inode
    <3>2. wr.i \in Nat
      BY Constants DEF WriteCall
    <3> QED BY <1>0, <2>0, <3>1, <3>2, InCall DEF Typed, WriteBounds
  <2>2. /\ BlockPlace(wr.f, BlockAt) = IF wr.stage = "direct" THEN <<wr.f, "direct", wr.i, 0>>
                                       ELSE <<wr.f, "level1", wr.i, 0>>
    BY <1>3, <2>1, Constants DEF BlockPlace, BlockAt, Words
  <2>3. Takes(BlockPlace(wr.f, BlockAt))
    BY <1>3, <2>2 DEF Onwards
  <2>4. Usable(ptr) /\ ~NoSpace(ptr) /\ ~Abort(ptr) /\ files' = files
    BY <2>3 DEF Takes, Usable, NoSpace, Abort
  <2>5. /\ \A f \in files :
              /\ inodes'[f].size = IF f = wr.f THEN inodes[f].size + Chunk(ptr)
                                   ELSE inodes[f].size
              /\ inodes'[f].indir_2 = inodes[f].indir_2
        /\ \/ wr'.stage = "cleanup"
           \/ /\ wr'.f = wr.f
              /\ Chunk(ptr) = ADDR_PER_BLOCK - Start(ptr) /\ Chunk(ptr) # wr.len
              /\ \/ wr'.stage = "table2" /\ wr.stage = "level1" /\ wr.i + 1 = ADDR_PER_BLOCK
                 \/ /\ wr'.stage \in {"direct", "table1", "level1"}
                    /\ BlockAt' = BlockAt + 1
    <3>1. CASE wr.stage = "direct"
      <4>1. ptr = inodes[wr.f].direct[wr.i]
        BY <2>2, <3>1 DEF Ptr
      <4>2. write_direct
        BY <3>1, Zenon DEF WriteStep, write_direct, write_table1, write_level1, write_table2,
                    write_outer, write_inner, write_return
      <4> HIDE DEF ptr
      <4>3. /\ inodes' = [inodes EXCEPT ![wr.f].direct[wr.i] = Target(ptr),
                                        ![wr.f].size = inodes[wr.f].size + Chunk(ptr)]
            /\ \/ wr'.stage = "cleanup"
               \/ /\ wr'.f = wr.f
                  /\ Chunk(ptr) = ADDR_PER_BLOCK - Start(ptr) /\ Chunk(ptr) # wr.len
                  /\ IF wr.i + 1 < N_DIRECT THEN wr'.stage = "direct" /\ wr'.i = wr.i + 1
                                            ELSE wr'.stage = "table1" /\ wr'.i = 0
        BY <1>0, <2>4, <4>1, <4>2, DirectLocals
      <4>4. \A f \in files :
              /\ inodes'[f].size = IF f = wr.f THEN inodes[f].size + Chunk(ptr)
                                   ELSE inodes[f].size
              /\ inodes'[f].indir_2 = inodes[f].indir_2
        BY <2>1, <4>3 DEF Inode
      <4>5. (wr'.stage = "direct" /\ wr'.i = wr.i + 1) \/
            (wr.i + 1 = N_DIRECT /\ wr'.stage = "table1" /\ wr'.i = 0)
               => BlockAt' = BlockAt + 1 /\ wr'.stage \in {"direct", "table1", "level1"}
        BY <2>1, <3>1, Constants DEF BlockAt
      <4>6. ~(wr.i + 1 < N_DIRECT) => wr.i + 1 = N_DIRECT
        BY <2>1, <3>1, Constants
      <4> QED BY <4>3, <4>4, <4>5, <4>6
    <3>2. CASE wr.stage = "level1"
      <4>1. ptr = blocks[inodes[wr.f].indir_1][wr.i]
        <5>1. inodes[wr.f].indir_1 \in Blocks /\ inodes[wr.f].indir_1 # 0
          BY <1>0, <2>1, <3>2 DEF Linked, Ptr, Inode
        <5> QED BY <2>2, <3>2, <5>1 DEF Ptr, At
      <4>2. write_level1
        BY <3>2, Zenon DEF WriteStep, write_direct, write_table1, write_level1, write_table2,
                    write_outer, write_inner, write_return
      <4> HIDE DEF ptr
      <4>3. /\ inodes' = [inodes EXCEPT ![wr.f].size = inodes[wr.f].size + Chunk(ptr)]
            /\ \/ wr'.stage = "cleanup"
               \/ /\ wr'.f = wr.f
                  /\ Chunk(ptr) = ADDR_PER_BLOCK - Start(ptr) /\ Chunk(ptr) # wr.len
                  /\ IF wr.i + 1 < ADDR_PER_BLOCK THEN wr'.stage = "level1" /\ wr'.i = wr.i + 1
                                                  ELSE wr'.stage = "table2"
        BY <1>0, <2>4, <4>1, <4>2, Level1Locals
      <4>4. \A f \in files :
              /\ inodes'[f].size = IF f = wr.f THEN inodes[f].size + Chunk(ptr)
                                   ELSE inodes[f].size
              /\ inodes'[f].indir_2 = inodes[f].indir_2
        BY <2>1, <4>3 DEF Inode
      <4>5. wr'.stage = "level1" /\ wr'.i = wr.i + 1
               => BlockAt' = BlockAt + 1 /\ wr'.stage \in {"direct", "table1", "level1"}
        BY <2>1, <3>2, Constants DEF BlockAt
      <4>6. ~(wr.i + 1 < ADDR_PER_BLOCK) => wr.i + 1 = ADDR_PER_BLOCK
        BY <2>1, <3>2, Constants DEF Words
      <4> QED BY <3>2, <4>3, <4>4, <4>5, <4>6
    <3> QED BY <1>3, <3>1, <3>2
  <2>6. /\ Backed'
        /\ Chunk(ptr) = ADDR_PER_BLOCK - Start(ptr) =>
               inodes'[wr.f].size = (BlockAt + 1) * ADDR_PER_BLOCK
    <3>1. wr.stage \in {"direct", "level1"}
      BY <1>3
    <3> HIDE DEF ptr
    <3> QED BY <1>0, <2>3, <2>5, <3>1, FillBacked DEF ptr
  <2> HIDE DEF ptr
  <2>7. Chunk(ptr) \in 1 .. wr.len
    BY <1>0, <2>0, FillBounds
  <2>8. wr'.stage # "table2"
    <3> SUFFICES ASSUME wr'.stage = "table2" PROVE FALSE
      OBVIOUS
    <3>1. /\ inodes'[wr.f].size = (BlockAt + 1) * ADDR_PER_BLOCK
          /\ wr.stage = "level1" /\ wr.i + 1 = ADDR_PER_BLOCK /\ Chunk(ptr) # wr.len
      BY <2>5, <2>6
    <3>2. BlockAt + 1 = INDIRECT_BOUND
      BY <2>1, <3>1, Constants DEF BlockAt, INDIRECT_BOUND
    <3>3. inodes[wr.f].size + Chunk(ptr) = INDIRECT_BOUND * ADDR_PER_BLOCK
      BY <2>1, <2>5, <3>1, <3>2
    <3>4. INDIRECT_BOUND * ADDR_PER_BLOCK \in Nat
      BY Constants DEF INDIRECT_BOUND
    <3>5. MaxSize <= INDIRECT_BOUND * ADDR_PER_BLOCK
      BY DEF OneLevel
    <3> HIDE DEF INDIRECT_BOUND
    <3> QED BY <2>1, <2>7, <3>1, <3>3, <3>4, <3>5, Constants
  <2>9. Shallow'
    <3>1. wr'.stage \notin {"table2", "outer", "inner"}
      BY <2>5, <2>8
    <3> QED BY <1>0, <2>4, <2>5, <3>1 DEF Shallow
  <2>10. Appending'
    <3> SUFFICES ASSUME wr'.stage \in {"direct", "table1", "level1"}
                 PROVE  inodes'[wr'.f].size - BlockAt' * ADDR_PER_BLOCK = 0
      BY Constants DEF Appending
    <3>1. /\ inodes'[wr'.f].size = (BlockAt + 1) * ADDR_PER_BLOCK /\ BlockAt' = BlockAt + 1
      BY <2>5, <2>6
    <3>2. (BlockAt + 1) * ADDR_PER_BLOCK \in Nat
      BY <2>1, Constants DEF BlockAt
    <3> QED BY <3>1, <3>2
  <2> QED BY <2>6, <2>9, <2>10
<1>4. CASE wr.stage = "table1" /\ Onwards
  <2> DEFINE p == <<wr.f, "indir_1", 0, 0>>
  <2>1. /\ Takes(p) /\ wr'.stage = "level1" /\ wr'.f = wr.f /\ files' = files
    BY <1>4 DEF Onwards, Takes
  <2>2. wr.f \in files /\ wr.f \in Files
    BY <1>0, <1>4, InCall DEF Active, Stages
  <2>3. write_table1
    BY <1>4 DEF WriteStep, write_direct, write_table1, write_level1, write_table2,
                write_outer, write_inner, write_return
  <2>4. ~NoSpace(inodes[wr.f].indir_1)
    BY <2>1 DEF NoSpace, WriteCall
  <2>5. /\ \A f \in files : /\ inodes'[f].size = inodes[f].size
                            /\ inodes'[f].indir_2 = inodes[f].indir_2
        /\ wr'.i = wr.i /\ wr'.offset = wr.offset
    <3>1. /\ inodes' = [inodes EXCEPT ![wr.f].indir_1 = Target(inodes[wr.f].indir_1)]
          /\ wr' = [wr EXCEPT !.stage = "level1"]
      BY <2>3, <2>4 DEF write_table1
    <3>2. \A f \in files : /\ inodes'[f].size = inodes[f].size
                          /\ inodes'[f].indir_2 = inodes[f].indir_2
      BY <2>2, <3>1 DEF Inode
    <3> QED BY <3>1, <3>2 DEF WriteCall
  <2>6. Backed'
    <3> SUFFICES ASSUME NEW f \in files, NEW k \in 0 .. INDIRECT_BOUND - 1
                 PROVE  Ptr(inodes', blocks', BlockPlace(f, k)) # 0
                           <=> k * ADDR_PER_BLOCK < inodes'[f].size
      BY <2>1 DEF Backed
    <3>1. BlockPlace(f, k) \in Places(files) /\ BlockPlace(f, k) # p
      <4>1. BlockPlace(f, k)[2] # p[2]
        BY DEF BlockPlace
      <4>2. BlockPlace(f, k) # p
        BY <4>1
      <4> QED BY <4>2, BlockPlaces
    <3>2. Ptr(inodes', blocks', BlockPlace(f, k)) = Ptr(inodes, blocks, BlockPlace(f, k))
      BY <1>0, <2>1, <3>1, TakesKeeps
    <3> QED BY <1>0, <2>5, <3>2 DEF Backed
  <2>7. Shallow'
    BY <1>0, <2>1, <2>5 DEF Shallow
  <2>8. Appending'
    BY <1>0, <1>4, <2>1, <2>2, <2>5 DEF Appending, BlockAt
  <2> QED BY <2>6, <2>7, <2>8
<1> QED BY <1>0, <1>2, <1>3, <1>4, StepCases DEF Onwards, Shallow

-----------------------------------------------------------------------------
(* The other steps, and the invariant.                                     *)

(* A call enters the loops before anything it walks through.               *)
LEMMA EntryStage ==
  ASSUME NEW f, NEW len, NEW offset, fs_write(f, len, offset),
         Called(f, len, offset) \in WriteCall
  PROVE  wr'.stage \in {"direct", "table1", "table2"}
<1> DEFINE n == offset \div ADDR_PER_BLOCK
           m == n - INDIRECT_BOUND
           w == Called(f, len, offset)
<1>1. wr' = CASE n < N_DIRECT -> [w EXCEPT !.stage = "direct", !.i = n]
              [] n \in N_DIRECT .. INDIRECT_BOUND - 1
                   -> [w EXCEPT !.stage = "table1", !.i = n - N_DIRECT]
              [] n \in INDIRECT_BOUND .. SIZE_DOUBLE_INDIRECT - 1
                   -> [w EXCEPT !.stage = "table2", !.i = m \div ADDR_PER_BLOCK,
                                !.j = m % ADDR_PER_BLOCK]
              [] OTHER -> ToLevel1(w)
  BY DEF fs_write, Called
<1> HIDE DEF w, m
<1>2. /\ \A i : [w EXCEPT !.stage = "direct", !.i = i].stage = "direct"
      /\ \A i : [w EXCEPT !.stage = "table1", !.i = i].stage = "table1"
      /\ \A i, j : [w EXCEPT !.stage = "table2", !.i = i, !.j = j].stage = "table2"
  BY DEF WriteCall, w
<1>3. ToLevel1(w).stage = "table1"
  BY LevelLocals DEF w
<1> HIDE DEF n
<1> QED BY <1>1, <1>2, <1>3

(* A call that appends enters at the block where its file ends.            *)
LEMMA EntryAppends ==
  ASSUME Typed, NEW f \in files, NEW len \in 1 .. MaxLen, inodes[f].size + len <= MaxSize,
         fs_write(f, len, inodes[f].size), MaxSize <= INDIRECT_BOUND * ADDR_PER_BLOCK
  PROVE  wr'.stage \in {"direct", "table1"} /\ Appending'
<1> DEFINE size == inodes[f].size
           n    == size \div ADDR_PER_BLOCK
           w    == Called(f, len, size)
<1>1. /\ f \in Files /\ f \in Nat /\ size \in 0 .. MaxSize /\ size \in Nat
      /\ len \in 0 .. MaxLen /\ len > 0
  <2>1. inodes[f] \in Inode /\ f \in Files /\ f \in Nat
    BY FileAssumption DEF Typed, TypeOK
  <2>2. size \in 0 .. MaxSize
    BY <2>1 DEF Inode
  <2> QED BY <2>1, <2>2, Constants
<1>2. w \in WriteCall /\ w.f = f /\ w.offset = size
  BY <1>1, IdleCall DEF Called, WriteCall
<1>3. /\ INDIRECT_BOUND \in Nat /\ INDIRECT_BOUND = N_DIRECT + ADDR_PER_BLOCK
      /\ size < INDIRECT_BOUND * ADDR_PER_BLOCK
  <2>1. INDIRECT_BOUND \in Nat /\ INDIRECT_BOUND = N_DIRECT + ADDR_PER_BLOCK
    BY Constants DEF INDIRECT_BOUND
  <2>2. INDIRECT_BOUND * ADDR_PER_BLOCK \in Nat
    BY <2>1, Constants
  <2> HIDE DEF INDIRECT_BOUND
  <2> QED BY <1>1, <2>1, <2>2, Constants
<1>4. /\ UNCHANGED <<block_map, inodes, blocks, files>>
      /\ wr' = CASE n < N_DIRECT -> [w EXCEPT !.stage = "direct", !.i = n]
                 [] n \in N_DIRECT .. INDIRECT_BOUND - 1
                      -> [w EXCEPT !.stage = "table1", !.i = n - N_DIRECT]
                 [] n \in INDIRECT_BOUND .. SIZE_DOUBLE_INDIRECT - 1
                      -> [w EXCEPT !.stage = "table2",
                                   !.i = (n - INDIRECT_BOUND) \div ADDR_PER_BLOCK,
                                   !.j = (n - INDIRECT_BOUND) % ADDR_PER_BLOCK]
                 [] OTHER -> ToLevel1(w)
  BY DEF fs_write, Called
<1> HIDE DEF w, size
<1>5. /\ n \in Nat /\ size = n * ADDR_PER_BLOCK + (size % ADDR_PER_BLOCK)
      /\ size % ADDR_PER_BLOCK \in Words /\ n * ADDR_PER_BLOCK \in Nat
  BY <1>1, Constants DEF Words
<1> HIDE DEF n
<1>6. n < INDIRECT_BOUND
  <2> SUFFICES ASSUME INDIRECT_BOUND <= n PROVE FALSE
    BY <1>3, <1>5
  <2>1. CASE n = INDIRECT_BOUND
    BY <1>1, <1>3, <1>5, <2>1, Constants DEF Words
  <2>2. CASE INDIRECT_BOUND < n
    <3>1. INDIRECT_BOUND * ADDR_PER_BLOCK + ADDR_PER_BLOCK <= n * ADDR_PER_BLOCK
          /\ INDIRECT_BOUND * ADDR_PER_BLOCK \in Nat
      BY <1>3, <1>5, <2>2, Multiples, Constants
    <3> HIDE DEF INDIRECT_BOUND
    <3> QED BY <1>1, <1>3, <1>5, <3>1, Constants DEF Words
  <2> QED BY <1>3, <1>5, <2>1, <2>2
<1>7. /\ wr'.stage \in {"direct", "table1"} /\ wr'.f = f /\ wr'.offset = size
      /\ BlockAt' = n
  <2>1. CASE n < N_DIRECT
    <3>1. wr' = [w EXCEPT !.stage = "direct", !.i = n]
      <4>1. /\ n \notin N_DIRECT .. INDIRECT_BOUND - 1
            /\ n \notin INDIRECT_BOUND .. SIZE_DOUBLE_INDIRECT - 1
        BY <1>3, <1>5, <1>6, <2>1, Constants DEF SIZE_DOUBLE_INDIRECT
      <4> QED BY <1>4, <2>1, <4>1
    <3> QED BY <1>2, <3>1 DEF WriteCall, BlockAt
  <2>2. CASE ~(n < N_DIRECT)
    <3>1. wr' = [w EXCEPT !.stage = "table1", !.i = n - N_DIRECT]
      <4>1. /\ n \in N_DIRECT .. INDIRECT_BOUND - 1
            /\ n \notin INDIRECT_BOUND .. SIZE_DOUBLE_INDIRECT - 1
        BY <1>3, <1>5, <1>6, <2>2, Constants DEF SIZE_DOUBLE_INDIRECT
      <4> QED BY <1>4, <2>2, <4>1
    <3>2. N_DIRECT + (n - N_DIRECT) = n
      BY <1>5, Constants
    <3> QED BY <1>2, <3>1, <3>2 DEF WriteCall, BlockAt
  <2> QED BY <2>1, <2>2
<1>8. Appending'
  <2>1. inodes'[wr'.f].size = size
    BY <1>4, <1>7 DEF size
  <2>2. size - n * ADDR_PER_BLOCK = size % ADDR_PER_BLOCK
    BY <1>1, <1>5, Constants DEF Words
  <2> QED BY <1>5, <1>7, <2>1, <2>2 DEF Appending
<1> QED BY <1>7, <1>8

LEMMA EntryInv ==
  ASSUME Inv, Write, Typed'
  PROVE  Inv'
<1>0. Typed /\ MapSound
  BY DEF Inv
<1>1. PICK f \in files, len \in 1 .. MaxLen :
        /\ inodes[f].size + len <= MaxSize
        /\ \/ fs_write(f, len, inodes[f].size)
           \/ /\ "overwrite" \in Calls
              /\ \E offset \in 0 .. inodes[f].size - 1 : fs_write(f, len, offset)
  BY DEF Write
<1>2. PICK offset : fs_write(f, len, offset) /\ offset \in 0 .. inodes[f].size
  <2>1. inodes[f].size \in Nat
    BY <1>0 DEF Typed, TypeOK, Inode
  <2> QED BY <1>1, <2>1
<1>3. /\ UNCHANGED <<block_map, inodes, blocks, files>>
      /\ wr'.stage \in {"direct", "table1", "table2"}
  <2>1. UNCHANGED <<block_map, inodes, blocks, files>>
    BY <1>2 DEF fs_write
  <2>2. Called(f, len, offset) \in WriteCall
    <3>1. f \in Nat /\ offset \in 0 .. MaxSize /\ len \in 0 .. MaxLen
      <4>1. inodes[f] \in Inode /\ f \in Nat
        BY <1>0, FileAssumption DEF Typed, TypeOK
      <4>2. inodes[f].size \in 0 .. MaxSize
        BY <4>1 DEF Inode
      <4> QED BY <1>2, <4>1, <4>2, Constants
    <3> QED BY <3>1, IdleCall DEF Called, WriteCall
  <2> QED BY <1>2, <2>1, <2>2, EntryStage
<1>4. MapSound' /\ Linked' /\ (OnlyWritten => Clean')
  BY <1>3 DEF Inv, MapSound, Linked, Clean
<1>5. ASSUME OneLevel PROVE (Shallow /\ Backed /\ Appending)'
  <2>1. fs_write(f, len, inodes[f].size)
    BY <1>1, <1>5 DEF OneLevel
  <2>2. wr'.stage \in {"direct", "table1"} /\ Appending'
    BY <1>0, <1>1, <1>5, <2>1, EntryAppends DEF OneLevel
  <2> QED BY <1>3, <1>5, <2>2 DEF Inv, Shallow, Backed
<1> QED BY <1>4, <1>5 DEF Inv, OnlyWritten, OneLevel

(* Handlers that only clear pointers.                                      *)
LEMMA ShrinkSound ==
  ASSUME NEW map, NEW ino, NEW blk, NEW fs, Sound(map, ino, blk, fs),
         NEW map2, NEW ino2, NEW fs2, start_block \in map2,
         \A x \in Places(fs2) :
            Ptr(ino2, blk, x) # 0 =>
               /\ x \in Places(fs) /\ Ptr(ino2, blk, x) = Ptr(ino, blk, x)
               /\ Ptr(ino, blk, x) \in map2
  PROVE  Sound(map2, ino2, blk, fs2)
<1>1. \A x \in Places(fs2) : Ptr(ino2, blk, x) # 0 => Ptr(ino2, blk, x) \in Mappable(map2)
  BY DEF Sound, Mappable
<1>2. \A x, y \in Places(fs2) :
         Ptr(ino2, blk, x) # 0 /\ Ptr(ino2, blk, x) = Ptr(ino2, blk, y) => x = y
  BY DEF Sound
<1> QED BY <1>1, <1>2 DEF Sound

(* What truncation frees: nothing in use by any other file, for a file     *)
(* with one level of tables; nothing at all for a file with none.          *)
LEMMA FreedOwned ==
  ASSUME Typed, NEW f \in Files, inodes[f].indir_2 = 0, NEW c \in Freed(inodes[f]), c # 0
  PROVE  /\ inodes[f].indir_1 # 0
         /\ \E k \in Words : c = Ptr(inodes, blocks, <<f, "level1", k, 0>>)
<1> DEFINE ino   == inodes[f]
           outer == Prefix(Table(ino.indir_2), start_block) \cap Blocks
<1>0. /\ ino \in Inode /\ ino.indir_1 \in Blocks /\ start_block \in Nat /\ start_block > 0
      /\ blocks \in [Blocks -> [Words -> Nat]] /\ 0 \in Words
  BY LayoutAssumption, Constants DEF Typed, TypeOK, Inode
<1>1. ASSUME NEW least \in Nat \ {0} PROVE Prefix(ZeroBlock, least) = {}
  <2>1. DOMAIN ZeroBlock = Words /\ \A k \in Words : k \in 0 .. k /\ ZeroBlock[k] = 0
    BY Constants DEF ZeroBlock, Words
  <2>2. ~(0 >= least)
    OBVIOUS
  <2> QED BY <2>1, <2>2 DEF Prefix
<1>2. Table(0) = ZeroBlock
  BY <1>0 DEF Table
<1>3. outer = {}
  BY <1>0, <1>1, <1>2
<1>4. Freed(inodes[f]) = {0} \cup outer
                         \cup UNION {Prefix(Table(b), 1) : b \in {ino.indir_1} \cup outer}
  BY DEF Freed
<1> HIDE DEF outer
<1> HIDE DEF ino
<1>5. c \in Prefix(Table(ino.indir_1), 1)
  BY <1>3, <1>4
<1>6. Table(ino.indir_1) # ZeroBlock
  BY <1>1, <1>5
<1>7. Table(ino.indir_1) = blocks[ino.indir_1] /\ ino.indir_1 >= start_block
  BY <1>6 DEF Table
<1>8. ino.indir_1 # 0
  BY <1>0, <1>7
<1>9. PICK k \in Words : c = blocks[ino.indir_1][k]
  BY <1>0, <1>5, <1>7 DEF Prefix
<1>10. c = Ptr(inodes, blocks, <<f, "level1", k, 0>>)
  BY <1>0, <1>8, <1>9 DEF Ptr, At, ino
<1> QED BY <1>8, <1>10 DEF ino

(* Truncation keeps every block marked that it does not free.              *)
LEMMA TruncateMap ==
  ASSUME NEW f, truncate(f), NEW b \in block_map, b \notin Freed(inodes[f])
  PROVE  b \in block_map'
BY DEF truncate, free_a_block

LEMMA TruncatedFile ==
  ASSUME Typed, NEW f \in Files, truncate(f)
  PROVE  /\ \A g \in Files : g # f => inodes'[g] = inodes[g]
         /\ inodes'[f].indir_1 = inodes[f].indir_1 /\ inodes'[f].indir_2 = inodes[f].indir_2
         /\ inodes'[f].size = 0
         /\ \A k \in 0 .. N_DIRECT - 1 :
               inodes'[f].direct[k] = IF \A l \in 0 .. k : inodes[f].direct[l] # 0 THEN 0
                                      ELSE inodes[f].direct[k]
<1>1. inodes \in [Files -> Inode] /\ inodes' = [inodes EXCEPT ![f] = Truncated(inodes[f])]
  BY DEF Typed, TypeOK, truncate
<1>2. inodes'[f] = Truncated(inodes[f]) /\ \A g \in Files : g # f => inodes'[g] = inodes[g]
  BY <1>1
<1>3. inodes[f] \in Inode
  BY <1>1
<1>4. Truncated(inodes[f]) =
        [inodes[f] EXCEPT !.size = 0,
                          !.direct = [k \in 0 .. N_DIRECT - 1 |->
                             IF \A l \in 0 .. k : inodes[f].direct[l] # 0 THEN 0
                             ELSE inodes[f].direct[k]]]
  BY <1>3 DEF Truncated, Inode
<1> DEFINE d == [k \in 0 .. N_DIRECT - 1 |->
                    IF \A l \in 0 .. k : inodes[f].direct[l] # 0 THEN 0
                    ELSE inodes[f].direct[k]]
<1>5. /\ Truncated(inodes[f]).indir_1 = inodes[f].indir_1
      /\ Truncated(inodes[f]).indir_2 = inodes[f].indir_2
      /\ Truncated(inodes[f]).size = 0 /\ Truncated(inodes[f]).direct = d
  <2>1. Truncated(inodes[f]) = [inodes[f] EXCEPT !.size = 0, !.direct = d]
    BY <1>4
  <2> HIDE DEF d
  <2> QED BY <1>3, <2>1 DEF Inode
<1> QED BY <1>2, <1>5

(* Removing a file, or truncating one without tables, with one level of    *)
(* tables at most.                                                         *)
LEMMA TruncateInv ==
  ASSUME Inv, OneLevel, ~OnlyWritten, Typed', NEW f \in Files, truncate(f),
         \/ files' = files \ {f}
         \/ files' = files /\ inodes[f].indir_1 = 0
  PROVE  Inv'
<1>0. /\ Typed /\ MapSound /\ Shallow /\ Backed
      /\ f \in files /\ wr.stage = "idle" /\ UNCHANGED <<blocks, wr>>
      /\ files \subseteq Files /\ inodes \in [Files -> Inode]
  BY DEF Inv, truncate, Typed, TypeOK
<1>1. /\ \A g \in Files : g # f => inodes'[g] = inodes[g]
      /\ inodes'[f].indir_1 = inodes[f].indir_1 /\ inodes'[f].indir_2 = inodes[f].indir_2
      /\ inodes'[f].size = 0
      /\ \A k \in 0 .. N_DIRECT - 1 :
            inodes'[f].direct[k] = IF \A l \in 0 .. k : inodes[f].direct[l] # 0 THEN 0
                                   ELSE inodes[f].direct[k]
  BY <1>0, TruncatedFile
<1>2. ASSUME NEW c \in Freed(inodes[f]), c # 0
      PROVE  /\ files' = files \ {f}
             /\ \E y \in Places(files) : y[1] = f /\ c = Ptr(inodes, blocks, y)
  <2>1. inodes[f].indir_2 = 0
    BY <1>0 DEF Shallow
  <2>2. /\ inodes[f].indir_1 # 0
        /\ \E k \in Words : c = Ptr(inodes, blocks, <<f, "level1", k, 0>>)
    BY <1>0, <1>2, <2>1, FreedOwned
  <2> QED BY <1>0, <2>2, PlaceMembers
<1>3. ASSUME NEW x \in Places(files')
      PROVE  x \in Places(files) /\ Ptr(inodes', blocks', x) \in {0, Ptr(inodes, blocks, x)}
  <2>1. x[1] \in files' /\ files' \subseteq files
    BY PlaceKinds
  <2>2. x \in Places(files)
    BY <2>1 DEF Places
  <2>3. CASE x[1] # f
    <3>1. inodes'[x[1]] = inodes[x[1]] /\ blocks' = blocks
      BY <1>0, <1>1, <2>1, <2>3
    <3>2. Ptr(inodes', blocks', x) = Ptr(inodes, blocks, x)
      BY <3>1 DEF Ptr
    <3> QED BY <2>2, <3>2
  <2>4. CASE x[1] = f /\ x[2] = "direct"
    <3>1. x[3] \in 0 .. N_DIRECT - 1
      BY <2>4, PlaceKinds
    <3>2. inodes'[f].direct[x[3]] \in {0, inodes[f].direct[x[3]]}
      BY <1>1, <3>1
    <3> QED BY <2>2, <2>4, <3>2 DEF Ptr
  <2>5. CASE x[1] = f /\ x[2] # "direct"
    BY <1>0, <1>1, <2>2, <2>5 DEF Ptr
  <2> QED BY <2>2, <2>3, <2>4, <2>5
<1>4. MapSound'
  <2>1. start_block \in block_map'
    <3>1. start_block \in block_map /\ start_block # 0
      BY <1>0, LayoutAssumption DEF MapSound, Sound
    <3>2. start_block \notin Freed(inodes[f])
      BY <1>0, <1>2, <3>1 DEF MapSound, Sound, Mappable
    <3> QED BY <3>1, <3>2, TruncateMap
  <2>2. ASSUME NEW x \in Places(files'), Ptr(inodes', blocks, x) # 0
        PROVE  /\ x \in Places(files) /\ Ptr(inodes', blocks, x) = Ptr(inodes, blocks, x)
               /\ Ptr(inodes, blocks, x) \in block_map'
    <3>1. x \in Places(files) /\ Ptr(inodes', blocks, x) = Ptr(inodes, blocks, x)
      BY <1>0, <1>3, <2>2
    <3>2. Ptr(inodes, blocks, x) \in block_map /\ Ptr(inodes, blocks, x) # 0
      BY <1>0, <2>2, <3>1 DEF MapSound, Sound, Mappable
    <3>3. Ptr(inodes, blocks, x) \notin Freed(inodes[f])
      <4> SUFFICES ASSUME Ptr(inodes, blocks, x) \in Freed(inodes[f]) PROVE FALSE
        OBVIOUS
      <4>1. /\ files' = files \ {f}
            /\ \E y \in Places(files) : y[1] = f /\ Ptr(inodes, blocks, x) = Ptr(inodes, blocks, y)
        BY <1>2, <3>2
      <4>2. x[1] = f
        BY <1>0, <3>1, <3>2, <4>1 DEF MapSound, Sound
      <4>3. x[1] \in files'
        BY PlaceKinds
      <4> QED BY <4>1, <4>2, <4>3
    <3> QED BY <3>1, <3>2, <3>3, TruncateMap
  <2>3. Sound(block_map', inodes', blocks, files')
    BY <1>0, <2>1, <2>2, ShrinkSound DEF MapSound
  <2> QED BY <1>0, <2>3 DEF MapSound
<1>5. Linked' /\ Appending'
  BY <1>0 DEF Linked, Appending
<1>6. Shallow'
  BY <1>0, <1>1 DEF Shallow
<1>7. Backed'
  <2> SUFFICES ASSUME NEW g \in files', NEW k \in 0 .. INDIRECT_BOUND - 1
               PROVE  Ptr(inodes', blocks', BlockPlace(g, k)) # 0
                         <=> k * ADDR_PER_BLOCK < inodes'[g].size
    BY DEF Backed
  <2>0. g \in files /\ BlockPlace(g, k)[1] = g
    BY BlockPlaces
  <2>1. CASE g # f
    <3>1. inodes'[g] = inodes[g]
      BY <1>0, <1>1, <2>0, <2>1
    <3>2. Ptr(inodes', blocks', BlockPlace(g, k)) = Ptr(inodes, blocks, BlockPlace(g, k))
      BY <1>0, <2>0, <3>1 DEF Ptr
    <3> QED BY <1>0, <2>0, <3>1, <3>2 DEF Backed
  <2>2. CASE g = f
    <3>0. inodes[f].indir_1 = 0 /\ inodes[f].size \in Nat
      BY <1>0, <2>2 DEF Inode
    <3>1. ~(k * ADDR_PER_BLOCK < inodes'[g].size)
      <4>1. k * ADDR_PER_BLOCK \in Nat
        BY Constants DEF INDIRECT_BOUND
      <4> QED BY <1>1, <2>2, <4>1
    <3>2. Ptr(inodes', blocks', BlockPlace(g, k)) = 0
      <4>1. CASE k < N_DIRECT
        <5>0. k \in 0 .. N_DIRECT - 1 /\ N_DIRECT \in Nat
          BY <4>1, Constants
        <5>1. \A l \in 0 .. k : inodes[f].direct[l] # 0 <=> l * ADDR_PER_BLOCK < inodes[f].size
          <6> SUFFICES ASSUME NEW l \in 0 .. k
                       PROVE  inodes[f].direct[l] # 0 <=> l * ADDR_PER_BLOCK < inodes[f].size
            OBVIOUS
          <6>1. l \in 0 .. INDIRECT_BOUND - 1 /\ l < N_DIRECT
            BY <5>0, Constants DEF INDIRECT_BOUND
          <6>2. Ptr(inodes, blocks, BlockPlace(f, l)) # 0 <=> l * ADDR_PER_BLOCK < inodes[f].size
            BY <1>0, <6>1 DEF Backed
          <6>3. Ptr(inodes, blocks, BlockPlace(f, l)) = inodes[f].direct[l]
            BY <6>1 DEF BlockPlace, Ptr
          <6> QED BY <6>2, <6>3
        <5>2. inodes[f].direct[k] # 0 => \A l \in 0 .. k : inodes[f].direct[l] # 0
          <6> SUFFICES ASSUME inodes[f].direct[k] # 0, NEW l \in 0 .. k
                       PROVE  l * ADDR_PER_BLOCK < inodes[f].size
            BY <5>1
          <6>1. k * ADDR_PER_BLOCK < inodes[f].size
            BY <5>0, <5>1
          <6>2. CASE l = k
            BY <6>1, <6>2
          <6>3. CASE l < k
            <7>1. /\ l * ADDR_PER_BLOCK + ADDR_PER_BLOCK <= k * ADDR_PER_BLOCK
                  /\ l * ADDR_PER_BLOCK \in Nat /\ k * ADDR_PER_BLOCK \in Nat
              BY <5>0, <6>3, Multiples, Constants
            <7> QED BY <3>0, <6>1, <7>1, Constants
          <6> QED BY <5>0, <6>2, <6>3
        <5>3. inodes'[f].direct[k] = 0
          BY <1>1, <5>0, <5>2
        <5> QED BY <2>2, <4>1, <5>3 DEF BlockPlace, Ptr
      <4>2. CASE ~(k < N_DIRECT)
        BY <1>1, <2>2, <3>0, <4>2 DEF BlockPlace, Ptr, At
      <4> QED BY <4>1, <4>2
    <3> QED BY <3>1, <3>2
  <2> QED BY <2>1, <2>2
<1> QED BY <1>4, <1>5, <1>6, <1>7 DEF Inv, OnlyWritten, OneLevel

(* A new file points to nothing.                                           *)
LEMMA ZeroPtr ==
  ASSUME NEW ino, NEW blk, NEW fs, NEW x \in Places(fs), ino[x[1]] = ZeroInode
  PROVE  Ptr(ino, blk, x) = 0
<1>1. /\ x[2] = "direct" => x[3] \in 0 .. N_DIRECT - 1
      /\ \A k \in 0 .. N_DIRECT - 1 : ZeroInode.direct[k] = 0
      /\ ZeroInode.indir_1 = 0 /\ ZeroInode.indir_2 = 0
  BY PlaceKinds DEF ZeroInode
<1> QED BY <1>1 DEF Ptr, At

LEMMA MknodInv ==
  ASSUME Inv, ~OnlyWritten, Typed', NEW f \in Files, fs_mknod(f)
  PROVE  Inv'
<1>0. /\ Typed /\ MapSound
      /\ wr.stage = "idle" /\ UNCHANGED <<block_map, blocks, wr>>
      /\ files' = files \cup {f} /\ f \notin files
      /\ inodes' = [inodes EXCEPT ![f] = ZeroInode]
      /\ files \subseteq Files /\ inodes \in [Files -> Inode]
  BY DEF Inv, fs_mknod, Typed, TypeOK
<1>1. inodes'[f] = ZeroInode /\ \A g \in files : inodes'[g] = inodes[g]
  BY <1>0
<1>2. ASSUME NEW x \in Places(files'), Ptr(inodes', blocks, x) # 0
      PROVE  x \in Places(files) /\ Ptr(inodes', blocks, x) = Ptr(inodes, blocks, x)
  <2>1. x[1] \in files' /\ x[1] # f
    BY <1>1, <1>2, PlaceKinds, ZeroPtr
  <2>2. x[1] \in files
    BY <1>0, <2>1
  <2>3. x \in Places(files)
    BY <2>2 DEF Places
  <2> QED BY <1>1, <2>2, <2>3 DEF Ptr
<1>3. MapSound'
  <2>1. \A x \in Places(files) : Ptr(inodes, blocks, x) # 0 => Ptr(inodes, blocks, x) \in block_map
    BY <1>0 DEF MapSound, Sound, Mappable
  <2>2. Sound(block_map, inodes', blocks, files')
    <3>1. start_block \in block_map
      BY <1>0 DEF MapSound, Sound
    <3>2. Sound(block_map, inodes, blocks, files)
      BY <1>0 DEF MapSound
    <3>3. \A x \in Places(files') : Ptr(inodes', blocks, x) # 0 =>
              /\ x \in Places(files) /\ Ptr(inodes', blocks, x) = Ptr(inodes, blocks, x)
              /\ Ptr(inodes, blocks, x) \in block_map
      BY <1>2, <2>1
    <3> QED BY <3>1, <3>2, <3>3, ShrinkSound
  <2> QED BY <1>0, <2>2 DEF MapSound
<1>4. Linked' /\ Appending'
  BY <1>0 DEF Linked, Appending
<1>5. ASSUME OneLevel PROVE (Shallow /\ Backed)'
  <2>0. Shallow /\ Backed
    BY <1>5 DEF Inv
  <2>1. Shallow'
    BY <1>0, <1>1, <2>0 DEF Shallow, ZeroInode
  <2>2. ASSUME NEW g \in files', NEW k \in 0 .. INDIRECT_BOUND - 1
        PROVE  Ptr(inodes', blocks', BlockPlace(g, k)) # 0
                  <=> k * ADDR_PER_BLOCK < inodes'[g].size
    <3>0. BlockPlace(g, k) \in Places(files') /\ BlockPlace(g, k)[1] = g
      BY BlockPlaces
    <3>1. CASE g = f
      <4>1. Ptr(inodes', blocks', BlockPlace(g, k)) = 0
        BY <1>1, <3>0, <3>1, ZeroPtr
      <4>2. inodes'[g].size = 0
        BY <1>1, <3>1 DEF ZeroInode
      <4>3. k * ADDR_PER_BLOCK \in Nat
        BY Constants DEF INDIRECT_BOUND
      <4> QED BY <4>1, <4>2, <4>3
    <3>2. CASE g \in files
      <4>1. inodes'[g] = inodes[g] /\ blocks' = blocks
        BY <1>0, <1>1, <3>2
      <4>2. Ptr(inodes', blocks', BlockPlace(g, k)) = Ptr(inodes, blocks, BlockPlace(g, k))
        BY <3>0, <4>1 DEF Ptr
      <4> QED BY <2>0, <3>2, <4>1, <4>2 DEF Backed
    <3> QED BY <1>0, <3>1, <3>2
  <2>3. Backed'
    BY <2>2 DEF Backed
  <2> QED BY <2>1, <2>3
<1> QED BY <1>3, <1>4, <1>5 DEF Inv, OnlyWritten, OneLevel

LEMMA InitInv == Init => Inv
<1> SUFFICES ASSUME Init PROVE Inv
  OBVIOUS
<1>1. Typed
  BY InitTyped
<1>2. /\ \A f \in Files : inodes[f] = ZeroInode
      /\ files = Files /\ wr = Idle /\ start_block \in block_map
      /\ \A b \in Blocks \ {0} : blocks[b] = ZeroBlock
  BY DEF Init
<1>3. \A x \in Places(files) : Ptr(inodes, blocks, x) = 0
  BY <1>2, PlaceKinds, ZeroPtr
<1>4. MapSound
  BY <1>2, <1>3 DEF MapSound, Sound
<1>5. Linked /\ Appending
  BY <1>2, IdleCall DEF Linked, Appending
<1>6. Clean
  BY <1>2, Constants DEF Clean
<1>7. Shallow
  BY <1>2, IdleCall DEF Shallow, ZeroInode
<1>8. Backed
  <2> SUFFICES ASSUME NEW f \in files, NEW k \in 0 .. INDIRECT_BOUND - 1
               PROVE  Ptr(inodes, blocks, BlockPlace(f, k)) # 0
                         <=> k * ADDR_PER_BLOCK < inodes[f].size
    BY DEF Backed
  <2>1. Ptr(inodes, blocks, BlockPlace(f, k)) = 0
    BY <1>3, BlockPlaces
  <2>2. inodes[f].size = 0
    BY <1>2 DEF ZeroInode
  <2>3. k * ADDR_PER_BLOCK \in Nat
    BY Constants DEF INDIRECT_BOUND
  <2> QED BY <2>1, <2>2, <2>3
<1> QED BY <1>1, <1>4, <1>5, <1>6, <1>7, <1>8 DEF Inv

LEMMA NextInv ==
  ASSUME Inv, OnlyWritten \/ OneLevel, [Next]_vars
  PROVE  Inv'
<1>0. Typed /\ Typed'
  BY NextTyped DEF Inv
<1>1. CASE Write
  BY <1>0, <1>1, EntryInv
<1>2. CASE WriteStep
  <2>1. MapSound' /\ Linked'
    BY <1>2, StepSound, StepLinked
  <2>2. OnlyWritten => Clean'
    BY <1>2, StepClean
  <2>3. OneLevel => (Shallow /\ Backed /\ Appending)'
    BY <1>0, <1>2, StepOneLevel
  <2> QED BY <1>0, <2>1, <2>2, <2>3 DEF Inv, OnlyWritten, OneLevel
<1>3. ASSUME NEW f \in Truncatable, fs_truncate(f) PROVE Inv'
  <2>1. f \in Files /\ truncate(f) /\ files' = files /\ ~OnlyWritten
    BY <1>3 DEF Truncatable, fs_truncate, OnlyWritten
  <2>2. OneLevel
    BY <2>1
  <2>3. inodes[f].indir_1 = 0
    BY <1>3, <2>2 DEF Truncatable, OneLevel
  <2> QED BY <1>0, <2>1, <2>2, <2>3, TruncateInv
<1>4. ASSUME NEW f \in Removable, fs_unlink(f) PROVE Inv'
  <2>1. f \in Files /\ truncate(f) /\ files' = files \ {f} /\ ~OnlyWritten
    BY <1>4 DEF Removable, fs_unlink, OnlyWritten
  <2>2. OneLevel
    BY <2>1
  <2> QED BY <1>0, <2>1, <2>2, TruncateInv
<1>5. ASSUME NEW f \in Removable, fs_mknod(f) PROVE Inv'
  <2>1. f \in Files /\ ~OnlyWritten
    BY <1>5 DEF Removable, OnlyWritten
  <2> QED BY <1>0, <1>5, <2>1, MknodInv
<1>6. CASE UNCHANGED vars
  BY <1>0, <1>6 DEF vars, Inv, MapSound, Linked, Clean, OnlyWritten, OneLevel,
                    Shallow, Backed, Appending, BlockAt
<1> QED BY <1>1, <1>2, <1>3, <1>4, <1>5, <1>6 DEF Next

(* The uses that files make of blocks, of memory or of an image, are the   *)
(* pointers that are not 0.                                                *)
WordIn(blk, b, w) == IF b \in Blocks THEN blk[b][w] ELSE 0

UsesOf(ino, blk, f) ==
    LET inode == ino[f]
        outer == {k \in Words : inode.indir_2 # 0 /\ blk[inode.indir_2][k] # 0}
    IN  {u \in {<<f, "direct", k, 0, inode.direct[k]>> : k \in 0 .. N_DIRECT - 1}
               \cup {<<f, "indir_1", 0, 0, inode.indir_1>>,
                     <<f, "indir_2", 0, 0, inode.indir_2>>}
               \cup {<<f, "level1", k, 0, blk[inode.indir_1][k]>> :
                        k \in {w \in Words : inode.indir_1 # 0}}
               \cup {<<f, "outer", k, 0, blk[inode.indir_2][k]>> : k \in outer}
               \cup {<<f, "inner", k, l, WordIn(blk, blk[inode.indir_2][k], l)>> :
                        k \in outer, l \in Words} : u[5] # 0}

UsesIn(ino, blk, fs) == UNION {UsesOf(ino, blk, f) : f \in fs}

LEMMA UsesArePointers ==
  ASSUME NEW ino, NEW blk, NEW fs, Shape(ino, blk, fs)
  PROVE  UsesIn(ino, blk, fs) =
            {<<x[1], x[2], x[3], x[4], Ptr(ino, blk, x)>> :
                x \in {y \in Places(fs) : Ptr(ino, blk, y) # 0}}
<1>0. /\ fs \subseteq Files /\ ino \in [Files -> Inode]
      /\ blk \in [Blocks -> [Words -> Nat]]
  BY DEF Shape
<1>1. UsesIn(ino, blk, fs) = UNION {UsesOf(ino, blk, f) : f \in fs}
  BY DEF UsesIn
<1>2. ASSUME NEW f \in fs, NEW u \in UsesOf(ino, blk, f)
      PROVE  \E x \in Places(fs) : /\ Ptr(ino, blk, x) # 0
                                      /\ u = <<x[1], x[2], x[3], x[4], Ptr(ino, blk, x)>>
  <2> DEFINE i1 == ino[f].indir_1
             i2 == ino[f].indir_2
  <2>1. i1 \in Blocks /\ i2 \in Blocks /\ u[5] # 0
    BY <1>0 DEF Inode, UsesOf
  <2>2. \A k, l \in Words : i2 # 0 /\ blk[i2][k] # 0 =>
           Ptr(ino, blk, <<f, "inner", k, l>>) = WordIn(blk, blk[i2][k], l)
    BY <2>1 DEF Ptr, At, WordIn
  <2>3. /\ \A k \in 0 .. N_DIRECT - 1 : Ptr(ino, blk, <<f, "direct", k, 0>>) = ino[f].direct[k]
        /\ Ptr(ino, blk, <<f, "indir_1", 0, 0>>) = i1
        /\ Ptr(ino, blk, <<f, "indir_2", 0, 0>>) = i2
        /\ \A k \in Words : i1 # 0 => Ptr(ino, blk, <<f, "level1", k, 0>>) = blk[i1][k]
        /\ \A k \in Words : i2 # 0 => Ptr(ino, blk, <<f, "outer", k, 0>>) = blk[i2][k]
    BY <2>1 DEF Ptr, At
  <2>4. \/ \E k \in 0 .. N_DIRECT - 1 : u = <<f, "direct", k, 0, ino[f].direct[k]>>
        \/ u = <<f, "indir_1", 0, 0, i1>>
        \/ u = <<f, "indir_2", 0, 0, i2>>
        \/ i1 # 0 /\ \E k \in Words : u = <<f, "level1", k, 0, blk[i1][k]>>
        \/ i2 # 0 /\ \E k \in Words : u = <<f, "outer", k, 0, blk[i2][k]>>
        \/ i2 # 0 /\ \E k, l \in Words : /\ blk[i2][k] # 0
                                         /\ u = <<f, "inner", k, l, WordIn(blk, blk[i2][k], l)>>
    BY DEF UsesOf
  <2> HIDE DEF i1, i2
  <2> DEFINE Found == \E x \in Places(fs) :
                         /\ Ptr(ino, blk, x) # 0
                         /\ u = <<x[1], x[2], x[3], x[4], Ptr(ino, blk, x)>>
  <2>5. ASSUME NEW x \in Places(fs),
               u = <<x[1], x[2], x[3], x[4], Ptr(ino, blk, x)>>
        PROVE  Found
    BY <2>1, <2>5
  <2> SUFFICES Found
    OBVIOUS
  <2> HIDE DEF Found
  <2>6. CASE \E k \in 0 .. N_DIRECT - 1 : u = <<f, "direct", k, 0, ino[f].direct[k]>>
    <3>1. PICK k \in 0 .. N_DIRECT - 1 : u = <<f, "direct", k, 0, ino[f].direct[k]>>
      BY <2>6
    <3> DEFINE x == <<f, "direct", k, 0>>
    <3>2. x \in Places(fs) /\ x = <<x[1], x[2], x[3], x[4]>>
      BY <3>1, PlaceMembers
    <3>3. Ptr(ino, blk, x) = ino[f].direct[k]
      BY <2>6, <3>1, <2>3
    <3>4. u = <<x[1], x[2], x[3], x[4], ino[f].direct[k]>>
      BY <3>1
    <3>5. u = <<x[1], x[2], x[3], x[4], Ptr(ino, blk, x)>>
      BY <3>3, <3>4
    <3> HIDE DEF x
    <3> QED BY <2>5, <3>2, <3>5
  <2>7. CASE u = <<f, "indir_1", 0, 0, i1>>
    <3> DEFINE x == <<f, "indir_1", 0, 0>>
    <3>2. x \in Places(fs) /\ x = <<x[1], x[2], x[3], x[4]>>
      BY PlaceMembers
    <3>3. Ptr(ino, blk, x) = i1
      BY <2>7, <2>3
    <3>4. u = <<x[1], x[2], x[3], x[4], i1>>
      BY <2>7
    <3>5. u = <<x[1], x[2], x[3], x[4], Ptr(ino, blk, x)>>
      BY <3>3, <3>4
    <3> HIDE DEF x
    <3> QED BY <2>5, <3>2, <3>5
  <2>8. CASE u = <<f, "indir_2", 0, 0, i2>>
    <3> DEFINE x == <<f, "indir_2", 0, 0>>
    <3>2. x \in Places(fs) /\ x = <<x[1], x[2], x[3], x[4]>>
      BY PlaceMembers
    <3>3. Ptr(ino, blk, x) = i2
      BY <2>8, <2>3
    <3>4. u = <<x[1], x[2], x[3], x[4], i2>>
      BY <2>8
    <3>5. u = <<x[1], x[2], x[3], x[4], Ptr(ino, blk, x)>>
      BY <3>3, <3>4
    <3> HIDE DEF x
    <3> QED BY <2>5, <3>2, <3>5
  <2>9. CASE i1 # 0 /\ \E k \in Words : u = <<f, "level1", k, 0, blk[i1][k]>>
    <3>1. PICK k \in Words : u = <<f, "level1", k, 0, blk[i1][k]>>
      BY <2>9
    <3> DEFINE x == <<f, "level1", k, 0>>
    <3>2. x \in Places(fs) /\ x = <<x[1], x[2], x[3], x[4]>>
      BY <3>1, PlaceMembers
    <3>3. Ptr(ino, blk, x) = blk[i1][k]
      BY <2>9, <3>1, <2>3
    <3>4. u = <<x[1], x[2], x[3], x[4], blk[i1][k]>>
      BY <3>1
    <3>5. u = <<x[1], x[2], x[3], x[4], Ptr(ino, blk, x)>>
      BY <3>3, <3>4
    <3> HIDE DEF x
    <3> QED BY <2>5, <3>2, <3>5
  <2>10. CASE i2 # 0 /\ \E k \in Words : u = <<f, "outer", k, 0, blk[i2][k]>>
    <3>1. PICK k \in Words : u = <<f, "outer", k, 0, blk[i2][k]>>
      BY <2>10
    <3> DEFINE x == <<f, "outer", k, 0>>
    <3>2. x \in Places(fs) /\ x = <<x[1], x[2], x[3], x[4]>>
      BY <3>1, PlaceMembers
    <3>3. Ptr(ino, blk, x) = blk[i2][k]
      BY <2>10, <3>1, <2>3
    <3>4. u = <<x[1], x[2], x[3], x[4], blk[i2][k]>>
      BY <3>1
    <3>5. u = <<x[1], x[2], x[3], x[4], Ptr(ino, blk, x)>>
      BY <3>3, <3>4
    <3> HIDE DEF x
    <3> QED BY <2>5, <3>2, <3>5
  <2>11. CASE i2 # 0 /\ \E k, l \in Words : /\ blk[i2][k] # 0
                                            /\ u = <<f, "inner", k, l, WordIn(blk, blk[i2][k], l)>>
    <3>1. PICK k \in Words, l \in Words : /\ blk[i2][k] # 0
                                        /\ u = <<f, "inner", k, l, WordIn(blk, blk[i2][k], l)>>
      BY <2>11
    <3> DEFINE x == <<f, "inner", k, l>>
    <3>2. x \in Places(fs) /\ x = <<x[1], x[2], x[3], x[4]>>
      BY <3>1, PlaceMembers
    <3>3. Ptr(ino, blk, x) = WordIn(blk, blk[i2][k], l)
      BY <2>11, <3>1, <2>2
    <3>4. u = <<x[1], x[2], x[3], x[4], WordIn(blk, blk[i2][k], l)>>
      BY <3>1
    <3>5. u = <<x[1], x[2], x[3], x[4], Ptr(ino, blk, x)>>
      BY <3>3, <3>4
    <3> HIDE DEF x
    <3> QED BY <2>5, <3>2, <3>5
  <2> QED BY <2>4, <2>6, <2>7, <2>8, <2>9, <2>10, <2>11
<1>3. ASSUME NEW x \in Places(fs), Ptr(ino, blk, x) # 0, NEW u,
             u = <<x[1], x[2], x[3], x[4], Ptr(ino, blk, x)>>
      PROVE  u \in UsesOf(ino, blk, x[1])
  <2> DEFINE f  == x[1]
             i1 == ino[f].indir_1
             i2 == ino[f].indir_2
  <2>1. f \in fs /\ i1 \in Blocks /\ i2 \in Blocks
    BY <1>0, PlaceKinds DEF Inode
  <2>2. u[5] = Ptr(ino, blk, x) /\ u[5] # 0
    BY <1>3
  <2>3. CASE x[2] = "direct"
    <3>1. x[3] \in 0 .. N_DIRECT - 1 /\ x[4] = 0
      BY <2>3, PlaceKinds
    <3>2. u = <<f, "direct", x[3], 0, ino[f].direct[x[3]]>>
      BY <1>3, <2>3, <3>1 DEF Ptr
    <3> QED BY <2>2, <3>1, <3>2 DEF UsesOf
  <2>4. CASE x[2] = "indir_1"
    <3>1. x[3] = 0 /\ x[4] = 0
      BY <2>4, PlaceKinds
    <3>2. u = <<f, "indir_1", 0, 0, i1>>
      BY <1>3, <2>4, <3>1 DEF Ptr
    <3> QED BY <2>2, <3>2 DEF UsesOf
  <2>5. CASE x[2] = "indir_2"
    <3>1. x[3] = 0 /\ x[4] = 0
      BY <2>5, PlaceKinds
    <3>2. u = <<f, "indir_2", 0, 0, i2>>
      BY <1>3, <2>5, <3>1 DEF Ptr
    <3> QED BY <2>2, <3>2 DEF UsesOf
  <2>6. CASE x[2] = "level1"
    <3>1. x[3] \in Words /\ x[4] = 0
      BY <2>6, PlaceKinds
    <3>2. u = <<f, "level1", x[3], 0, blk[i1][x[3]]>> /\ i1 # 0
      BY <1>3, <2>6, <3>1 DEF Ptr, At
    <3> QED BY <2>2, <3>1, <3>2 DEF UsesOf
  <2>7. CASE x[2] = "outer"
    <3>1. x[3] \in Words /\ x[4] = 0
      BY <2>7, PlaceKinds
    <3>2. u = <<f, "outer", x[3], 0, blk[i2][x[3]]>> /\ i2 # 0 /\ blk[i2][x[3]] # 0
      BY <1>3, <2>7, <3>1 DEF Ptr, At
    <3> QED BY <2>2, <3>1, <3>2 DEF UsesOf
  <2>8. CASE x[2] = "inner"
    <3>1. x[3] \in Words /\ x[4] \in Words
      BY <2>8, PlaceKinds
    <3>2. /\ u = <<f, "inner", x[3], x[4], WordIn(blk, blk[i2][x[3]], x[4])>>
          /\ i2 # 0 /\ blk[i2][x[3]] # 0
      BY <1>3, <2>8, <3>1, Zenon DEF Ptr, At, WordIn
    <3> QED BY <2>2, <3>1, <3>2 DEF UsesOf
  <2> QED BY <2>3, <2>4, <2>5, <2>6, <2>7, <2>8, PlaceKinds
<1>4. \A x \in Places(fs) : x[1] \in fs
  BY PlaceKinds
<1> QED BY <1>1, <1>2, <1>3, <1>4

(* Sound pointers share no block and lead to marked blocks of the data     *)
(* region.                                                                 *)
LEMMA SoundUses ==
  ASSUME NEW map, NEW ino, NEW blk, NEW fs, Shape(ino, blk, fs), Sound(map, ino, blk, fs)
  PROVE  /\ \A u, v \in UsesIn(ino, blk, fs) : u[5] = v[5] => u = v
         /\ \A u \in UsesIn(ino, blk, fs) : u[5] \in Mappable(map)
         /\ {u[5] : u \in UsesIn(ino, blk, fs)} =
               {Ptr(ino, blk, x) : x \in {y \in Places(fs) : Ptr(ino, blk, y) # 0}}
<1> DEFINE U == UsesIn(ino, blk, fs)
<1>1. U = {<<x[1], x[2], x[3], x[4], Ptr(ino, blk, x)>> :
              x \in {y \in Places(fs) : Ptr(ino, blk, y) # 0}}
  BY UsesArePointers
<1> HIDE DEF U
<1>2. \A u \in U : \E x \in Places(fs) :
         /\ Ptr(ino, blk, x) # 0
         /\ u = <<x[1], x[2], x[3], x[4], Ptr(ino, blk, x)>>
         /\ u[5] = Ptr(ino, blk, x)
  BY <1>1
<1>3. ASSUME NEW u \in U, NEW v \in U, u[5] = v[5] PROVE u = v
  <2>1. PICK x \in Places(fs) :
           /\ Ptr(ino, blk, x) # 0 /\ u[5] = Ptr(ino, blk, x)
           /\ u = <<x[1], x[2], x[3], x[4], Ptr(ino, blk, x)>>
    BY <1>2
  <2>2. PICK y \in Places(fs) :
           /\ Ptr(ino, blk, y) # 0 /\ v[5] = Ptr(ino, blk, y)
           /\ v = <<y[1], y[2], y[3], y[4], Ptr(ino, blk, y)>>
    BY <1>2
  <2>3. x = y
    BY <1>3, <2>1, <2>2 DEF Sound
  <2> QED BY <2>1, <2>2, <2>3
<1>4. \A u \in U : u[5] \in Mappable(map)
  BY <1>2 DEF Sound
<1>5. {u[5] : u \in U} = {Ptr(ino, blk, x) :
                             x \in {y \in Places(fs) : Ptr(ino, blk, y) # 0}}
  <2>1. ASSUME NEW x \in Places(fs), Ptr(ino, blk, x) # 0
        PROVE  \E u \in U : u[5] = Ptr(ino, blk, x)
    <3> DEFINE u == <<x[1], x[2], x[3], x[4], Ptr(ino, blk, x)>>
    <3>1. u \in U
      BY <1>1, <2>1
    <3>2. u[5] = Ptr(ino, blk, x)
      OBVIOUS
    <3> HIDE DEF u
    <3> QED BY <3>1, <3>2
  <2> QED BY <1>2, <2>1
<1> QED BY <1>3, <1>4, <1>5 DEF U

LEMMA InvPlain ==
  ASSUME Inv
  PROVE  /\ NoSharing /\ MappedAllocated
         /\ Lost = {b \in block_map : \A x \in Places(files) :
                       Ptr(inodes, blocks, x) # 0 => b # Ptr(inodes, blocks, x)}
<1>0. Typed /\ MapSound
  BY DEF Inv
<1>1. Shape(inodes, blocks, files)
  BY <1>0 DEF Typed, TypeOK, Shape
<1>2. Uses = UsesIn(inodes, blocks, files)
  BY DEF Uses, UsesIn, UsesOf, WordOf, WordIn
<1>3. /\ \A u, v \in Uses : u[5] = v[5] => u = v
      /\ \A u \in Uses : u[5] \in Mappable(block_map)
      /\ {u[5] : u \in Uses} =
            {Ptr(inodes, blocks, x) :
                x \in {y \in Places(files) : Ptr(inodes, blocks, y) # 0}}
  BY <1>0, <1>1, <1>2, SoundUses DEF MapSound
<1>4. NoSharing /\ MappedAllocated
  BY <1>3 DEF NoSharing, MappedAllocated, Mappable
<1>5. Lost = {b \in block_map : \A x \in Places(files) :
                 Ptr(inodes, blocks, x) # 0 => b # Ptr(inodes, blocks, x)}
  BY <1>3 DEF Lost
<1> QED BY <1>4, <1>5

(* The blocks that are lost, by the pointers of the files.                 *)
LostPlain ==
    Lost = {b \in block_map : \A x \in Places(files) :
               Ptr(inodes, blocks, x) # 0 => b # Ptr(inodes, blocks, x)}

LEMMA InvLost == Inv => LostPlain
BY InvPlain DEF LostPlain

(* A step of fs_write marks the block it puts in use, and no other.        *)
LEMMA TakesLosesNone ==
  ASSUME Inv, Inv', NEW p, Takes(p)
  PROVE  Lost' = Lost
<1> DEFINE ptr == Ptr(inodes, blocks, p)
           t   == Target(ptr)
<1>0. MapSound
  BY DEF Inv
<1>1. /\ p \in Places(files) /\ Usable(ptr) /\ block_map' = Alloc(ptr) /\ files' = files
      /\ \A x \in Places(files) :
            Ptr(inodes', blocks', x) = IF x = p THEN t ELSE Ptr(inodes, blocks, x)
  BY DEF Takes, Changed
<1>2. /\ ptr = 0 => t \in DataBlocks \ block_map /\ Alloc(ptr) = block_map \cup {t}
      /\ ptr # 0 => t = ptr /\ Alloc(ptr) = block_map
      /\ t # 0
  <2> HIDE DEF ptr
  <2> QED BY <1>0, <1>1, TargetFree DEF ptr
<1>3. Lost = {b \in block_map : \A x \in Places(files) :
                 Ptr(inodes, blocks, x) # 0 => b # Ptr(inodes, blocks, x)}
  BY InvPlain
<1>4. Lost' = {b \in block_map' : \A x \in Places(files) :
                  Ptr(inodes', blocks', x) # 0 => b # Ptr(inodes', blocks', x)}
  <2>1. LostPlain'
    BY InvLost, PTL
  <2>2. Lost' = {b \in block_map' : \A x \in Places(files') :
                    Ptr(inodes', blocks', x) # 0 => b # Ptr(inodes', blocks', x)}
    BY <2>1 DEF LostPlain
  <2> QED BY <1>1, <2>2
<1> HIDE DEF t
<1>5. CASE ptr # 0
  BY <1>1, <1>2, <1>3, <1>4, <1>5
<1>6. CASE ptr = 0
  <2>1. \A x \in Places(files) : Ptr(inodes, blocks, x) # t
    BY <1>0, <1>2, <1>6, MarkSound DEF MapSound, Unused
  <2> HIDE DEF ptr
  <2>2. block_map' = block_map \cup {t} /\ Ptr(inodes, blocks, p) = 0
    BY <1>1, <1>2, <1>6 DEF ptr
  <2>3. ASSUME NEW b
        PROVE  b \in Lost' <=> b \in Lost
    <3>1. CASE b = t
      BY <1>1, <1>2, <1>3, <1>4, <1>6, <3>1
    <3>2. CASE b # t
      BY <1>1, <1>3, <1>4, <2>2, <3>2
    <3> QED BY <3>1, <3>2
  <2>4. Lost' \subseteq block_map' /\ Lost \subseteq block_map
    BY <1>3, <1>4
  <2> QED BY <2>3, <2>4
<1> QED BY <1>5, <1>6

LEMMA AlwaysInv ==
  ASSUME OnlyWritten \/ OneLevel
  PROVE  Spec => []Inv
<1>1. Init => Inv
  BY InitInv
<1>2. Inv /\ [Next]_vars => Inv'
  BY NextInv
<1> QED BY <1>1, <1>2, PTL DEF Spec

(* Files that are only written, or that have one level of tables and are   *)
(* truncated and removed as well, never share a block: the allocator, the  *)
(* tables of fs_write and the zeroing of fs_mknod see to it, on an image   *)
(* of any size and when it runs out of space between any two steps.        *)
THEOREM BlocksUnshared ==
  ASSUME OnlyWritten \/ OneLevel
  PROVE  Spec => []NoSharing
<1>1. Inv => NoSharing
  BY InvPlain
<1> QED BY <1>1, AlwaysInv, PTL

(* Every block they point to is marked and in the data region, so that     *)
(* get_free_block gives it to no other file.                               *)
THEOREM BlocksMarked ==
  ASSUME OnlyWritten \/ OneLevel
  PROVE  Spec => []MappedAllocated
<1>1. Inv => MappedAllocated
  BY InvPlain
<1> QED BY <1>1, AlwaysInv, PTL

(* No entry of a table that fs_write follows leads outside the image.      *)
THEOREM WritesInRange ==
  ASSUME OnlyWritten \/ OneLevel
  PROVE  Spec => []NoAbort
<1>1. Init => NoAbort
  BY IdleCall DEF Init, NoAbort
<1>2. ASSUME Inv, NoAbort, [Next]_vars PROVE NoAbort'
  <2>0. Typed
    BY <1>2 DEF Inv
  <2>1. CASE Write
    <3>1. PICK f \in files, len \in 1 .. MaxLen, offset \in Nat :
             /\ offset \in 0 .. inodes[f].size
             /\ fs_write(f, len, offset)
      <4>1. \A f \in files : inodes[f].size \in Nat
        BY <2>0 DEF Typed, TypeOK, Inode
      <4> QED BY <2>1, <4>1 DEF Write
    <3>2. Called(f, len, offset) \in WriteCall
      <4>1. f \in Nat /\ offset \in 0 .. MaxSize /\ len \in 0 .. MaxLen
        <5>1. inodes[f] \in Inode /\ f \in Nat
          BY <2>0, FileAssumption DEF Typed, TypeOK
        <5>2. inodes[f].size \in 0 .. MaxSize
          BY <5>1 DEF Inode
        <5> QED BY <3>1, <5>1, <5>2, Constants
      <4> QED BY <4>1, IdleCall DEF Called, WriteCall
    <3> QED BY <3>1, <3>2, EntryStage DEF NoAbort
  <2>2. CASE WriteStep
    <3>1. Quiet \/ Onwards
      BY <1>2, <2>2, StepCases
    <3> QED BY <3>1 DEF NoAbort, Quiet, Onwards
  <2>3. CASE \E f : fs_truncate(f) \/ fs_unlink(f) \/ fs_mknod(f)
    BY <1>2, <2>3 DEF fs_truncate, fs_unlink, fs_mknod, truncate, NoAbort
  <2>4. CASE UNCHANGED vars
    BY <1>2, <2>4 DEF vars, NoAbort
  <2> QED BY <1>2, <2>1, <2>2, <2>3, <2>4 DEF Next
<1> QED BY <1>1, <1>2, AlwaysInv, PTL DEF Spec

(* A call that starts changes nothing but where fs_write is.               *)
LEMMA WriteStarts ==
  ASSUME Write
  PROVE  wr.stage = "idle" /\ UNCHANGED <<block_map, inodes, blocks, files>>
<1>1. \A f, len, offset : fs_write(f, len, offset) =>
         wr.stage = "idle" /\ UNCHANGED <<block_map, inodes, blocks, files>>
  BY DEF fs_write
<1> QED BY <1>1 DEF Write

(* Every block that a step of fs_write marks is in a file after the step,  *)
(* and none that was in a file drops out of it.                            *)
THEOREM WritesLoseNoBlock ==
  ASSUME OnlyWritten \/ OneLevel
  PROVE  Spec => NoLeak
<1>1. ASSUME Inv, Inv', [Next]_vars
      PROVE  [wr.stage # "idle" => Lost' = Lost]_vars
  <2> SUFFICES ASSUME wr.stage # "idle", Next PROVE Lost' = Lost
    BY <1>1
  <2>1. WriteStep
    BY WriteStarts DEF Next, fs_truncate, fs_unlink, fs_mknod, truncate
  <2>2. CASE Quiet
    BY <2>2 DEF Quiet, Lost, Uses, WordOf
  <2>3. CASE Onwards
    <3>1. PICK p : Takes(p)
      BY <2>3 DEF Onwards
    <3> QED BY <1>1, <3>1, TakesLosesNone
  <2> QED BY <1>1, <2>1, <2>2, <2>3, StepCases
<1> QED BY <1>1, AlwaysInv, PTL DEF Spec, NoLeak

-----------------------------------------------------------------------------
(* What files contain.  The places of the pointers to data, the number of  *)
(* the block of its file that each leads to, and the first position in it. *)
DataPlaces(fs) == {x \in Places(fs) : x[2] \in {"direct", "level1", "inner"}}

Number(x) ==
    IF x[2] = "direct" THEN x[3]
    ELSE IF x[2] = "level1" THEN N_DIRECT + x[3]
    ELSE INDIRECT_BOUND + x[3] * ADDR_PER_BLOCK + x[4]

From(x) == Number(x) * ADDR_PER_BLOCK

(* Files only grow, and the three levels have room for them; at the end of *)
(* the last block fs_write starts over at the first level of tables.       *)
Growing == Calls = {} /\ MaxSize <= SIZE_DOUBLE_INDIRECT * ADDR_PER_BLOCK

(* A file has the blocks it reaches into, on all levels.                   *)
Reached ==
    \A x \in DataPlaces(files) :
        Ptr(inodes, blocks, x) # 0 <=> From(x) < inodes[x[1]].size

(* What is in them is what was written there.                              *)
AsWritten ==
    \A x \in DataPlaces(files), w \in Words :
        From(x) + w < inodes[x[1]].size =>
            blocks[Ptr(inodes, blocks, x)][w] = Data(x[1], From(x) + w)

(* The block that a call is at, or comes to when its table is there.       *)
Here(w) ==
    IF w.stage = "direct" THEN <<w.f, "direct", w.i, 0>>
    ELSE IF w.stage \in {"table1", "level1"} THEN <<w.f, "level1", w.i, 0>>
    ELSE <<w.f, "inner", w.i, w.j>>

(* It is the block where the file ends, and what the call counted as       *)
(* written is how far the file has grown since.                            *)
Continues ==
    wr.stage \in Active =>
        LET size == inodes[wr.f].size
            n    == size - From(Here(wr))
        IN  /\ n \in Words /\ (n # 0 => wr.offset % ADDR_PER_BLOCK = n)
            /\ wr.pos + wr.total = size

(* The numbers of the blocks of the second level.                          *)
LEMMA InnerNumbers ==
  ASSUME NEW k \in Words, NEW l \in Words
  PROVE  /\ k * ADDR_PER_BLOCK \in Nat /\ INDIRECT_BOUND \in Nat
         /\ INDIRECT_BOUND + k * ADDR_PER_BLOCK + l \in Nat
         /\ INDIRECT_BOUND <= INDIRECT_BOUND + k * ADDR_PER_BLOCK + l
<1>1. k \in Nat /\ l \in Nat /\ ADDR_PER_BLOCK \in Nat /\ INDIRECT_BOUND \in Nat
  BY Constants DEF INDIRECT_BOUND
<1>2. PICK m \in Nat : m = k * ADDR_PER_BLOCK
  BY <1>1
<1> QED BY <1>1, <1>2

LEMMA DataPlaceKinds ==
  ASSUME NEW fs, NEW x \in DataPlaces(fs)
  PROVE  /\ x \in Places(fs) /\ x[1] \in fs
         /\ \/ /\ x[2] = "direct" /\ x[3] \in 0 .. N_DIRECT - 1 /\ x[4] = 0
               /\ Number(x) = x[3]
            \/ /\ x[2] = "level1" /\ x[3] \in Words /\ x[4] = 0
               /\ Number(x) = N_DIRECT + x[3] /\ Number(x) < INDIRECT_BOUND
            \/ /\ x[2] = "inner" /\ x[3] \in Words /\ x[4] \in Words
               /\ Number(x) = INDIRECT_BOUND + x[3] * ADDR_PER_BLOCK + x[4]
               /\ INDIRECT_BOUND <= Number(x)
         /\ Number(x) \in Nat /\ From(x) \in Nat
<1>1. /\ x \in Places(fs) /\ x[1] \in fs
      /\ \/ x[2] = "direct" /\ x[3] \in 0 .. N_DIRECT - 1 /\ x[4] = 0
         \/ x[2] = "level1" /\ x[3] \in Words /\ x[4] = 0
         \/ x[2] = "inner" /\ x[3] \in Words /\ x[4] \in Words
  BY PlaceKinds DEF DataPlaces
<1>2. CASE x[2] = "direct"
  <2>1. Number(x) = x[3] /\ x[3] \in 0 .. N_DIRECT - 1 /\ Number(x) \in Nat
    BY <1>1, <1>2, Constants DEF Number
  <2>2. From(x) \in Nat
    BY <2>1, Constants DEF From
  <2> QED BY <1>1, <1>2, <2>1, <2>2
<1>3. CASE x[2] = "level1"
  <2>1. Number(x) = N_DIRECT + x[3] /\ x[3] \in Words
    BY <1>1, <1>3 DEF Number
  <2>2. Number(x) \in Nat /\ Number(x) < INDIRECT_BOUND
    BY <2>1, Constants DEF Words, INDIRECT_BOUND
  <2>3. From(x) \in Nat
    BY <2>2, Constants DEF From
  <2> QED BY <1>1, <1>3, <2>1, <2>2, <2>3
<1>4. CASE x[2] = "inner"
  <2>1. /\ Number(x) = INDIRECT_BOUND + x[3] * ADDR_PER_BLOCK + x[4]
        /\ x[3] \in Words /\ x[4] \in Words
    BY <1>1, <1>4 DEF Number
  <2>2. Number(x) \in Nat /\ INDIRECT_BOUND <= Number(x)
    BY <2>1, InnerNumbers
  <2>3. From(x) \in Nat
    BY <2>2, Constants DEF From
  <2> QED BY <1>1, <1>4, <2>1, <2>2, <2>3
<1> QED BY <1>1, <1>2, <1>3, <1>4

(* No two pointers of a file lead to a block of one number.                *)
LEMMA InnerApart ==
  ASSUME NEW i \in Words, NEW j \in Words, NEW k \in Words, NEW l \in Words,
         INDIRECT_BOUND + i * ADDR_PER_BLOCK + j = INDIRECT_BOUND + k * ADDR_PER_BLOCK + l
  PROVE  i = k /\ j = l
<1>1. /\ INDIRECT_BOUND \in Nat /\ ADDR_PER_BLOCK \in Nat
      /\ i \in Nat /\ j \in Nat /\ k \in Nat /\ l \in Nat /\ j < ADDR_PER_BLOCK /\ l < ADDR_PER_BLOCK
  BY Constants DEF INDIRECT_BOUND, Words
<1>2. PICK m \in Nat, n \in Nat : m = i * ADDR_PER_BLOCK /\ n = k * ADDR_PER_BLOCK
  BY <1>1
<1>3. m + j = n + l
  <2>1. INDIRECT_BOUND + m + j = INDIRECT_BOUND + n + l
    BY <1>2
  <2> QED BY <1>1, <1>2, <2>1
<1>4. i < k => m + ADDR_PER_BLOCK <= n
  BY <1>1, <1>2, Multiples
<1>5. k < i => n + ADDR_PER_BLOCK <= m
  BY <1>1, <1>2, Multiples
<1>6. i = k
  <2>1. ~(i < k) /\ ~(k < i)
    BY <1>1, <1>3, <1>4, <1>5
  <2> QED BY <1>1, <2>1
<1> QED BY <1>1, <1>2, <1>3, <1>6

LEMMA NumberApart ==
  ASSUME NEW fs, NEW x \in DataPlaces(fs), NEW y \in DataPlaces(fs),
         x[1] = y[1], Number(x) = Number(y)
  PROVE  x = y
<1>1. x = <<x[1], x[2], x[3], x[4]>> /\ y = <<y[1], y[2], y[3], y[4]>>
  BY DataPlaceKinds, PlaceKinds
<1>2. /\ INDIRECT_BOUND \in Nat /\ Number(x) \in Nat
      /\ \/ x[2] = "direct" /\ Number(x) = x[3] /\ Number(x) < N_DIRECT /\ x[4] = 0
         \/ /\ x[2] = "level1" /\ Number(x) = N_DIRECT + x[3] /\ x[3] \in Nat
            /\ x[4] = 0 /\ Number(x) < INDIRECT_BOUND
         \/ x[2] = "inner" /\ INDIRECT_BOUND <= Number(x)
  <2>1. INDIRECT_BOUND \in Nat /\ \A k \in Words : k \in Nat
    BY Constants DEF INDIRECT_BOUND
  <2>2. \A k \in 0 .. N_DIRECT - 1 : k < N_DIRECT
    BY Constants
  <2> QED BY <2>1, <2>2, DataPlaceKinds
<1>3. /\ \/ y[2] = "direct" /\ Number(y) = y[3] /\ Number(y) < N_DIRECT /\ y[4] = 0
         \/ /\ y[2] = "level1" /\ Number(y) = N_DIRECT + y[3] /\ y[3] \in Nat
            /\ y[4] = 0 /\ Number(y) < INDIRECT_BOUND
         \/ y[2] = "inner" /\ INDIRECT_BOUND <= Number(y)
  <2>1. \A k \in Words : k \in Nat
    BY Constants
  <2>2. \A k \in 0 .. N_DIRECT - 1 : k < N_DIRECT
    BY Constants
  <2> QED BY <2>1, <2>2, DataPlaceKinds
<1>4. CASE x[2] = "inner" /\ y[2] = "inner"
  <2>1. /\ x[3] \in Words /\ x[4] \in Words /\ y[3] \in Words /\ y[4] \in Words
        /\ INDIRECT_BOUND + x[3] * ADDR_PER_BLOCK + x[4]
             = INDIRECT_BOUND + y[3] * ADDR_PER_BLOCK + y[4]
    <3>1. /\ x[3] \in Words /\ x[4] \in Words
          /\ Number(x) = INDIRECT_BOUND + x[3] * ADDR_PER_BLOCK + x[4]
      BY <1>4, DataPlaceKinds
    <3>2. /\ y[3] \in Words /\ y[4] \in Words
          /\ Number(y) = INDIRECT_BOUND + y[3] * ADDR_PER_BLOCK + y[4]
      BY <1>4, DataPlaceKinds
    <3> QED BY <3>1, <3>2
  <2>2. x[3] = y[3] /\ x[4] = y[4]
    BY <2>1, InnerApart
  <2> QED BY <1>1, <1>4, <2>2
<1>5. CASE ~(x[2] = "inner" /\ y[2] = "inner")
  <2>1. x[2] = y[2] /\ x[3] = y[3] /\ x[4] = y[4]
    BY <1>2, <1>3, <1>5, Constants DEF INDIRECT_BOUND
  <2> QED BY <1>1, <2>1
<1> QED BY <1>4, <1>5

(* The blocks of a file do not overlap.                                    *)
LEMMA BlocksApart ==
  ASSUME NEW fs, NEW x \in DataPlaces(fs), NEW y \in DataPlaces(fs), x[1] = y[1], x # y
  PROVE  From(x) + ADDR_PER_BLOCK <= From(y) \/ From(y) + ADDR_PER_BLOCK <= From(x)
<1>1. Number(x) \in Nat /\ Number(y) \in Nat /\ Number(x) # Number(y)
  BY DataPlaceKinds, NumberApart
<1>2. ADDR_PER_BLOCK \in Nat
  BY Constants
<1> DEFINE k == Number(x)
           l == Number(y)
<1>3. k \in Nat /\ l \in Nat /\ (k < l \/ l < k)
  BY <1>1
<1> HIDE DEF k, l
<1>4. k < l => k * ADDR_PER_BLOCK + ADDR_PER_BLOCK <= l * ADDR_PER_BLOCK
  BY <1>2, <1>3, Multiples
<1>5. l < k => l * ADDR_PER_BLOCK + ADDR_PER_BLOCK <= k * ADDR_PER_BLOCK
  BY <1>2, <1>3, Multiples
<1>6. From(x) = k * ADDR_PER_BLOCK /\ From(y) = l * ADDR_PER_BLOCK
  BY DEF From, k, l
<1> QED BY <1>3, <1>4, <1>5, <1>6

-----------------------------------------------------------------------------
(* One block more.  What a loop does to the sizes and to its own variables *)
(* when it fills the block at ptr, and to the blocks.                      *)
Grows(ptr) ==
    /\ \A f \in files :
          inodes'[f].size = IF f = wr.f THEN inodes[f].size + Chunk(ptr) ELSE inodes[f].size
    /\ wr'.stage \in Active =>
          /\ wr'.f = wr.f /\ wr'.pos = wr.pos /\ wr'.total = wr.total + Chunk(ptr)
          /\ Chunk(ptr) = ADDR_PER_BLOCK - Start(ptr)
          /\ Number(Here(wr')) = Number(Here(wr)) + 1

Keeps(p) ==
    \A x \in DataPlaces(files) :
        x # p /\ Ptr(inodes, blocks, x) # 0 =>
            blocks'[Ptr(inodes, blocks, x)] = blocks[Ptr(inodes, blocks, x)]

LEMMA HerePlace ==
  ASSUME Typed, wr.stage \in Active
  PROVE  Here(wr) \in DataPlaces(files) /\ Here(wr)[1] = wr.f
<1>1. /\ wr.f \in files /\ wr.j \in Words
      /\ IF wr.stage = "direct" THEN wr.i \in 0 .. N_DIRECT - 1 ELSE wr.i \in Words
  BY InCall
<1>2. CASE wr.stage = "direct"
  BY <1>1, <1>2, PlaceMembers DEF Here, DataPlaces
<1>3. CASE wr.stage \in {"table1", "level1"}
  BY <1>1, <1>3, PlaceMembers DEF Here, DataPlaces
<1>4. CASE wr.stage \notin {"direct", "table1", "level1"}
  BY <1>1, <1>4, PlaceMembers DEF Here, DataPlaces
<1> QED BY <1>2, <1>3, <1>4

(* The positions the other blocks hold are in the file as before.          *)
LEMMA FillPlaces ==
  ASSUME Typed, NEW p \in DataPlaces(files), p[1] = wr.f, NEW c \in Nat,
         From(p) <= inodes[wr.f].size, inodes[wr.f].size + c <= From(p) + ADDR_PER_BLOCK,
         \A f \in files :
             inodes'[f].size = IF f = wr.f THEN inodes[f].size + c ELSE inodes[f].size,
         NEW x \in DataPlaces(files), x # p, NEW w \in Words
  PROVE  From(x) + w < inodes'[x[1]].size <=> From(x) + w < inodes[x[1]].size
<1>1. /\ x[1] \in files /\ From(x) \in Nat /\ From(p) \in Nat /\ wr.f \in files
      /\ ADDR_PER_BLOCK \in Nat /\ w \in Nat /\ w < ADDR_PER_BLOCK
  BY DataPlaceKinds, Constants DEF Words
<1>2. \A f \in files : inodes[f].size \in Nat
  BY DEF Typed, TypeOK, Inode
<1>3. CASE x[1] # wr.f
  BY <1>1, <1>3
<1>4. CASE x[1] = wr.f
  <2>1. From(x) + ADDR_PER_BLOCK <= From(p) \/ From(p) + ADDR_PER_BLOCK <= From(x)
    BY <1>4, BlocksApart
  <2>2. /\ inodes'[x[1]].size = inodes[wr.f].size + c /\ inodes[x[1]].size = inodes[wr.f].size
        /\ inodes[wr.f].size \in Nat
    BY <1>1, <1>2, <1>4
  <2> HIDE DEF From
  <2> QED BY <1>1, <2>1, <2>2
<1> QED BY <1>3, <1>4

LEMMA FillContent ==
  ASSUME Typed, MapSound, Reached, AsWritten, Continues, wr.stage \in Active,
         NEW p, p = Here(wr), NEW ptr, ptr = Ptr(inodes, blocks, p), Takes(p),
         Grows(ptr), Keeps(p), blocks'[Target(ptr)] = Filled(ptr)
  PROVE  (Reached /\ AsWritten /\ Continues)'
<1> DEFINE size == inodes[wr.f].size
           c    == Chunk(ptr)
           n    == size - From(p)
<1>1. /\ p \in DataPlaces(files) /\ p[1] = wr.f /\ wr.f \in files /\ files' = files
      /\ From(p) \in Nat /\ Number(p) \in Nat
      /\ size \in Nat /\ ADDR_PER_BLOCK \in Nat /\ ADDR_PER_BLOCK > 0
      /\ wr.total \in Nat /\ wr.pos \in Nat /\ wr.f \in Nat
  <2>1. p \in DataPlaces(files) /\ p[1] = wr.f /\ wr.f \in files
    BY HerePlace, InCall
  <2>2. size \in Nat /\ wr.total \in Nat /\ wr.pos \in Nat /\ wr.f \in Nat
    BY <2>1, Constants DEF Typed, TypeOK, Inode, WriteCall, WriteBounds
  <2> QED BY <2>1, <2>2, DataPlaceKinds, Constants DEF Takes
<1>2. n \in Words /\ (n # 0 => wr.offset % ADDR_PER_BLOCK = n) /\ wr.pos + wr.total = size
  BY DEF Continues
<1>3. ptr # 0 <=> From(p) < size
  BY <1>1 DEF Reached
<1> HIDE DEF size
<1>4. Start(ptr) = n
  <2>1. CASE n = 0
    <3>1. ptr = 0
      BY <1>1, <1>3, <2>1
    <3> QED BY <2>1, <3>1 DEF Start
  <2>2. CASE n # 0
    <3>1. ptr # 0
      BY <1>1, <1>2, <1>3, <2>2 DEF Words
    <3> QED BY <1>2, <2>2, <3>1 DEF Start
  <2> QED BY <2>1, <2>2
<1>5. /\ c \in Nat /\ c > 0 /\ n + c <= ADDR_PER_BLOCK /\ n \in Nat
  <2>1. wr.len \in Nat
    BY Constants DEF Typed, TypeOK, WriteCall
  <2>2. c \in 1 .. wr.len /\ Start(ptr) + c <= ADDR_PER_BLOCK
    BY FillBounds
  <2>3. n \in Nat
    <3> HIDE DEF n
    <3> QED BY <1>2, Constants DEF Words
  <2>4. c \in Nat /\ c > 0
    <3> HIDE DEF c
    <3> QED BY <2>1, <2>2
  <2>5. n + c <= ADDR_PER_BLOCK
    BY <1>4, <2>2
  <2> QED BY <2>3, <2>4, <2>5
<1>6. /\ From(p) <= size /\ size + c <= From(p) + ADDR_PER_BLOCK /\ size = From(p) + n
  BY <1>1, <1>2, <1>5 DEF Words
<1>7. ASSUME NEW x \in DataPlaces(files), x # p, NEW w \in Words
      PROVE  From(x) + w < inodes'[x[1]].size <=> From(x) + w < inodes[x[1]].size
  <2>1. \A f \in files :
             inodes'[f].size = IF f = wr.f THEN inodes[f].size + c ELSE inodes[f].size
    BY DEF Grows
  <2>2. /\ From(p) <= inodes[wr.f].size /\ inodes[wr.f].size + c <= From(p) + ADDR_PER_BLOCK
    BY <1>6 DEF size
  <2> HIDE DEF c
  <2> QED BY <1>1, <1>5, <1>7, <2>1, <2>2, FillPlaces
<1>8. /\ \A x \in DataPlaces(files) : x # p =>
            Ptr(inodes', blocks', x) = Ptr(inodes, blocks, x)
      /\ Ptr(inodes', blocks', p) = Target(ptr) /\ Target(ptr) # 0
      /\ inodes'[wr.f].size = size + c
  <2>1. \A x \in DataPlaces(files) : x \in Places(files)
    BY DEF DataPlaces
  <2>2. Ptr(inodes', blocks', p) = Target(ptr)
    BY <1>1, <2>1 DEF Takes, Changed
  <2>3. inodes'[wr.f].size = size + c
    BY <1>1 DEF Grows, size
  <2> QED BY <2>1, <2>2, <2>3, TakesKeeps
<1> HIDE DEF c, n
<1>9. Reached'
  <2> SUFFICES ASSUME NEW x \in DataPlaces(files)
               PROVE  Ptr(inodes', blocks', x) # 0 <=> From(x) < inodes'[x[1]].size
    BY <1>1 DEF Reached
  <2>1. CASE x = p
    BY <1>1, <1>5, <1>6, <1>8, <2>1
  <2>2. CASE x # p
    <3>1. From(x) + 0 < inodes'[x[1]].size <=> From(x) + 0 < inodes[x[1]].size
      BY <1>7, <2>2, Constants
    <3>2. From(x) + 0 = From(x)
      BY DataPlaceKinds
    <3> QED BY <1>8, <2>2, <3>1, <3>2 DEF Reached
  <2> QED BY <2>1, <2>2
<1>10. AsWritten'
  <2> SUFFICES ASSUME NEW x \in DataPlaces(files), NEW w \in Words,
                      From(x) + w < inodes'[x[1]].size
               PROVE  blocks'[Ptr(inodes', blocks', x)][w] = Data(x[1], From(x) + w)
    BY <1>1 DEF AsWritten
  <2>0. w \in Nat
    BY Constants
  <2>1. CASE x # p
    <3>1. From(x) + w < inodes[x[1]].size
      BY <1>7, <2>1
    <3>2. Ptr(inodes, blocks, x) # 0
      <4>1. From(x) < inodes[x[1]].size
        <5>1. From(x) \in Nat /\ inodes[x[1]].size \in Nat
          BY DataPlaceKinds DEF Typed, TypeOK, Inode
        <5> QED BY <2>0, <3>1, <5>1
      <4> QED BY <4>1 DEF Reached
    <3>3. blocks'[Ptr(inodes, blocks, x)] = blocks[Ptr(inodes, blocks, x)]
      BY <2>1, <3>2 DEF Keeps
    <3> QED BY <1>8, <2>1, <3>1, <3>3 DEF AsWritten
  <2>2. CASE x = p
    <3>1. blocks'[Ptr(inodes', blocks', x)] = Filled(ptr) /\ x[1] = wr.f
      BY <1>1, <1>8, <2>2
    <3>2. w < n + c
      BY <1>1, <1>5, <1>6, <1>8, <2>0, <2>2
    <3>3. CASE w < n
      <4>1. From(p) + w < size /\ ptr # 0
        BY <1>1, <1>3, <1>5, <1>6, <2>0, <3>3
      <4>2. blocks[ptr][w] = Data(wr.f, From(p) + w)
        BY <1>1, <4>1 DEF AsWritten, size
      <4>3. Filled(ptr)[w] = blocks[ptr][w]
        <5>1. ~(Start(ptr) <= w)
          BY <1>4, <1>5, <2>0, <3>3
        <5> QED BY <4>1, <5>1 DEF Filled
      <4> QED BY <2>2, <3>1, <4>2, <4>3
    <3>4. CASE ~(w < n)
      <4>1. Start(ptr) <= w /\ w < Start(ptr) + Chunk(ptr)
        BY <1>4, <1>5, <2>0, <3>2, <3>4 DEF c
      <4>2. Filled(ptr)[w] = Data(wr.f, wr.pos + wr.total + w - Start(ptr))
        BY <4>1 DEF Filled
      <4>3. wr.pos + wr.total + w - Start(ptr) = From(p) + w
        BY <1>1, <1>2, <1>4, <1>5, <1>6, <2>0
      <4> QED BY <2>2, <3>1, <4>2, <4>3
    <3> QED BY <3>3, <3>4
  <2> QED BY <2>1, <2>2
<1>11. Continues'
  <2> SUFFICES ASSUME wr'.stage \in Active
               PROVE  /\ inodes'[wr'.f].size - From(Here(wr')) = 0
                      /\ wr'.pos + wr'.total = inodes'[wr'.f].size
    BY Constants DEF Continues
  <2>1. /\ wr'.f = wr.f /\ wr'.pos = wr.pos /\ wr'.total = wr.total + c
        /\ c = ADDR_PER_BLOCK - Start(ptr)
        /\ Number(Here(wr')) = Number(p) + 1
    BY DEF Grows, c
  <2>2. From(Here(wr')) = From(p) + ADDR_PER_BLOCK
    <3>1. (Number(p) + 1) * ADDR_PER_BLOCK = Number(p) * ADDR_PER_BLOCK + ADDR_PER_BLOCK
      BY <1>1
    <3> QED BY <2>1, <3>1 DEF From
  <2>3. inodes'[wr'.f].size = From(p) + ADDR_PER_BLOCK
    BY <1>1, <1>4, <1>5, <1>6, <1>8, <2>1
  <2> QED BY <1>1, <1>2, <1>5, <1>8, <2>1, <2>2, <2>3
<1> QED BY <1>9, <1>10, <1>11

(* The block at a pointer is not the one at another.                       *)
LEMMA TargetApart ==
  ASSUME MapSound, NEW p \in Places(files), NEW ptr, ptr = Ptr(inodes, blocks, p), Usable(ptr),
         NEW x \in Places(files), x # p, Ptr(inodes, blocks, x) # 0
  PROVE  Ptr(inodes, blocks, x) # Target(ptr)
<1>1. CASE ptr = 0
  <2>1. Target(ptr) \in DataBlocks \ block_map
    BY <1>1, TargetFree
  <2> QED BY <2>1 DEF MapSound, Sound, Mappable
<1>2. CASE ptr # 0
  <2>1. Target(ptr) = ptr
    BY <1>2 DEF Target
  <2> QED BY <1>2, <2>1 DEF MapSound, Sound
<1> QED BY <1>1, <1>2

(* Besides that block, steps write tables only.                            *)
TablesOnly(b) ==
    \A c \in Blocks : c # b /\ blocks'[c] # blocks[c] =>
        \E t \in Places(files) \ DataPlaces(files) : Ptr(inodes, blocks, t) = c

LEMMA KeepsData ==
  ASSUME Typed, MapSound, NEW p \in Places(files), NEW ptr, ptr = Ptr(inodes, blocks, p),
         Usable(ptr), TablesOnly(Target(ptr))
  PROVE  Keeps(p)
<1> SUFFICES ASSUME NEW x \in DataPlaces(files), x # p, Ptr(inodes, blocks, x) # 0,
                    blocks'[Ptr(inodes, blocks, x)] # blocks[Ptr(inodes, blocks, x)]
             PROVE  FALSE
  BY DEF Keeps
<1>1. x \in Places(files)
  BY DEF DataPlaces
<1>2. Ptr(inodes, blocks, x) # Target(ptr) /\ Ptr(inodes, blocks, x) \in Blocks
  BY <1>1, TargetApart, EntryInRange
<1>3. PICK t \in Places(files) \ DataPlaces(files) :
         Ptr(inodes, blocks, t) = Ptr(inodes, blocks, x)
  BY <1>2 DEF TablesOnly
<1>4. t = x
  BY <1>1, <1>3 DEF MapSound, Sound
<1> QED BY <1>3, <1>4

(* A table more, or none: the data is as it was.                           *)
LEMMA OpenContent ==
  ASSUME Typed, MapSound, Reached, AsWritten, Continues, wr.stage \in Active,
         NEW p, Takes(p), p \notin DataPlaces(files), Keeps(p),
         \A f \in files : inodes'[f].size = inodes[f].size,
         SameData(wr', wr), wr'.offset = wr.offset, Here(wr') = Here(wr)
  PROVE  (Reached /\ AsWritten /\ Continues)'
<1>1. /\ files' = files
      /\ \A x \in DataPlaces(files) :
            /\ Ptr(inodes', blocks', x) = Ptr(inodes, blocks, x)
            /\ x[1] \in files /\ inodes'[x[1]].size = inodes[x[1]].size
            /\ inodes[x[1]].size \in Nat /\ From(x) \in Nat
  <2>1. files' = files
    BY DEF Takes
  <2>2. \A x \in DataPlaces(files) : /\ x # p /\ x \in Places(files)
                                     /\ x[1] \in files /\ From(x) \in Nat
    BY DataPlaceKinds
  <2>3. \A f \in files : inodes[f].size \in Nat
    BY DEF Typed, TypeOK, Inode
  <2> QED BY <2>1, <2>2, <2>3, TakesKeeps
<1>2. Reached'
  BY <1>1 DEF Reached
<1>3. AsWritten'
  <2> SUFFICES ASSUME NEW x \in DataPlaces(files), NEW w \in Words,
                      From(x) + w < inodes[x[1]].size
               PROVE  blocks'[Ptr(inodes, blocks, x)][w] = Data(x[1], From(x) + w)
    BY <1>1 DEF AsWritten
  <2>1. Ptr(inodes, blocks, x) # 0
    <3>1. From(x) < inodes[x[1]].size
      BY <1>1, Constants
    <3> QED BY <3>1 DEF Reached
  <2>2. blocks'[Ptr(inodes, blocks, x)] = blocks[Ptr(inodes, blocks, x)]
    <3>1. x # p
      OBVIOUS
    <3> QED BY <2>1, <3>1 DEF Keeps
  <2> QED BY <2>2 DEF AsWritten
<1>4. Continues'
  <2>1. wr.f \in files
    BY InCall
  <2> QED BY <2>1 DEF Continues, SameData
<1> QED BY <1>2, <1>3, <1>4

-----------------------------------------------------------------------------
(* The steps of fs_write.                                                  *)
Fills(p) ==
    LET ptr == Ptr(inodes, blocks, p)
    IN  Grows(ptr) /\ Keeps(p) /\ blocks'[Target(ptr)] = Filled(ptr)

LEMMA FillGrows ==
  ASSUME Typed, wr.stage \in Active, NEW ptr, NEW next \in WriteCall,
         SameData(next, Filling(ptr)), wr' = Onward(ptr, next),
         next.stage \in Active => Number(Here(next)) = Number(Here(wr)) + 1,
         \A f \in files :
            inodes'[f].size = IF f = wr.f THEN inodes[f].size + Chunk(ptr) ELSE inodes[f].size
  PROVE  Grows(ptr)
<1>1. CASE wr'.stage = "cleanup"
  BY <1>1 DEF Grows, Active
<1>2. CASE wr'.stage # "cleanup"
  <2>1. wr' = next /\ Chunk(ptr) = ADDR_PER_BLOCK - Start(ptr)
    BY <1>2, OnwardCases
  <2>2. /\ Filling(ptr).f = wr.f /\ Filling(ptr).pos = wr.pos
        /\ Filling(ptr).total = wr.total + Chunk(ptr)
    BY FillingBounds
  <2> QED BY <2>1, <2>2 DEF Grows, SameData
<1> QED BY <1>1, <1>2

LEMMA DirectFills ==
  ASSUME Typed, MapSound, write_direct, ~NoSpace(inodes[wr.f].direct[wr.i]),
         NEW p, p = <<wr.f, "direct", wr.i, 0>>
  PROVE  Fills(p)
<1> DEFINE ptr  == inodes[wr.f].direct[wr.i]
           next == Reset(Filling(ptr), ptr)
           on   == IF wr.i + 1 < N_DIRECT THEN [next EXCEPT !.i = @ + 1] ELSE ToLevel1(next)
<1>0. /\ inodes \in [Files -> Inode] /\ files \subseteq Files
      /\ blocks \in [Blocks -> [Words -> Nat]]
  BY DEF Typed, TypeOK
<1>1. wr.stage = "direct" /\ wr.stage \in Active
  BY Zenon DEF write_direct, Active, Stages
<1>2. /\ wr' = Onward(ptr, on) /\ Usable(ptr) /\ wr.f \in files /\ wr.f \in Files
      /\ wr.i \in 0 .. N_DIRECT - 1
      /\ inodes' = [inodes EXCEPT ![wr.f].direct[wr.i] = Target(ptr), ![wr.f].size = @ + Chunk(ptr)]
      /\ blocks' = [blocks EXCEPT ![Target(ptr)] = Filled(ptr)]
  BY <1>1, InCall, Zenon DEF write_direct
<1>3. p \in Places(files) /\ ptr = Ptr(inodes, blocks, p)
  BY <1>2, PlaceMembers, Zenon DEF Ptr
<1>4. \A f \in files :
        inodes'[f].size = IF f = wr.f THEN inodes[f].size + Chunk(ptr) ELSE inodes[f].size
  <2> HIDE DEF ptr, on
  <2> QED BY <1>0, <1>2 DEF Inode
<1>5. /\ next \in WriteCall /\ SameData(next, Filling(ptr))
      /\ next.stage = "direct" /\ next.i = wr.i /\ next.f = wr.f
  BY <1>1, FillingBounds, ResetLocals DEF SameData
<1> HIDE DEF next
<1>6. /\ on \in WriteCall /\ SameData(on, Filling(ptr))
      /\ Number(Here(on)) = Number(Here(wr)) + 1
  <2>0. /\ Here(wr) = <<wr.f, "direct", wr.i, 0>> /\ Number(Here(wr)) = wr.i
        /\ wr.i \in Nat
    BY <1>1, <1>2, Constants DEF Here, Number
  <2>1. CASE wr.i + 1 < N_DIRECT
    <3>1. on = [next EXCEPT !.i = wr.i + 1]
      BY <1>5, <2>1
    <3>2. wr.i + 1 \in 0 .. ADDR_PER_BLOCK + N_DIRECT
      BY <1>2, <2>1, Constants
    <3> HIDE DEF on
    <3>3. /\ on \in WriteCall /\ on.stage = "direct" /\ SameData(on, next) /\ on.i = wr.i + 1
      BY <1>5, <3>1, <3>2 DEF WriteCall, SameData
    <3>4. Number(Here(on)) = wr.i + 1
      BY <3>3 DEF Here, Number
    <3> QED BY <1>5, <2>0, <3>3, <3>4 DEF SameData
  <2>2. CASE ~(wr.i + 1 < N_DIRECT)
    <3>1. on = ToLevel1(next)
      BY <2>2
    <3> HIDE DEF on
    <3>2. on \in WriteCall /\ on.stage = "table1" /\ SameData(on, next) /\ on.i = 0
      BY <1>5, <3>1, LevelLocals
    <3>3. Number(Here(on)) = N_DIRECT + 0
      BY <3>2 DEF Here, Number
    <3>4. N_DIRECT + 0 = wr.i + 1
      BY <1>2, <2>2, Constants
    <3> QED BY <1>5, <2>0, <3>2, <3>3, <3>4 DEF SameData
  <2> QED BY <2>1, <2>2
<1>7. Grows(ptr)
  <2> HIDE DEF ptr, on
  <2> QED BY <1>1, <1>2, <1>4, <1>6, FillGrows
<1>8. Target(ptr) \in Blocks
  <2> HIDE DEF ptr
  <2> QED BY <1>2, <1>3, TargetFree, Constants
<1>9. blocks'[Target(ptr)] = Filled(ptr) /\ TablesOnly(Target(ptr))
  <2> HIDE DEF ptr
  <2> QED BY <1>0, <1>2, <1>8 DEF TablesOnly
<1> HIDE DEF ptr
<1> QED BY <1>2, <1>3, <1>7, <1>9, KeepsData DEF Fills

LEMMA Level1Fills ==
  ASSUME Typed, MapSound, Linked, write_level1,
         ~NoSpace(blocks[inodes[wr.f].indir_1][wr.i]), ~Abort(blocks[inodes[wr.f].indir_1][wr.i]),
         NEW p, p = <<wr.f, "level1", wr.i, 0>>
  PROVE  Fills(p)
<1> DEFINE table == inodes[wr.f].indir_1
           ptr   == blocks[table][wr.i]
           next  == Reset(Filling(ptr), ptr)
           on    == IF wr.i + 1 < ADDR_PER_BLOCK THEN [next EXCEPT !.i = @ + 1]
                    ELSE ToLevel2(next)
           q     == <<wr.f, "indir_1", 0, 0>>
<1>0. /\ inodes \in [Files -> Inode] /\ files \subseteq Files
      /\ blocks \in [Blocks -> [Words -> Nat]] /\ wr \in WriteCall
  BY DEF Typed, TypeOK
<1>1. wr.stage = "level1" /\ wr.stage \in Active
  BY Zenon DEF write_level1, Active, Stages
<1>2. /\ wr' = Onward(ptr, on) /\ Usable(ptr) /\ wr.f \in files /\ wr.f \in Files
      /\ wr.i \in Words /\ table \in Blocks
      /\ inodes' = [inodes EXCEPT ![wr.f].size = @ + Chunk(ptr)]
      /\ blocks' = [blocks EXCEPT ![table][wr.i] = Target(ptr), ![Target(ptr)] = Filled(ptr)]
  BY <1>1, InCall, Zenon DEF write_level1
<1>3. /\ p \in Places(files) /\ ptr = Ptr(inodes, blocks, p)
      /\ q \in Places(files) /\ table = Ptr(inodes, blocks, q) /\ table # 0
      /\ q \notin DataPlaces(files) /\ q # p
  <2>1. p \in Places(files) /\ q \in Places(files)
    BY <1>2, PlaceMembers, Zenon
  <2>2. table = Ptr(inodes, blocks, q) /\ table # 0
    BY <1>1 DEF Linked, Ptr
  <2>3. ptr = Ptr(inodes, blocks, p)
    BY <1>2, <2>2, Zenon DEF Ptr, At
  <2> QED BY <2>1, <2>2, <2>3 DEF DataPlaces
<1>4. \A f \in files :
        inodes'[f].size = IF f = wr.f THEN inodes[f].size + Chunk(ptr) ELSE inodes[f].size
  <2> HIDE DEF ptr, on
  <2> QED BY <1>0, <1>2 DEF Inode
<1> HIDE DEF ptr
<1>5. /\ next \in WriteCall /\ SameData(next, Filling(ptr))
      /\ next.stage = "level1" /\ next.i = wr.i /\ next.f = wr.f
  <2>1. /\ Filling(ptr) \in WriteCall /\ Filling(ptr).stage = "level1"
        /\ Filling(ptr).i = wr.i /\ Filling(ptr).f = wr.f
    BY <1>1, FillingBounds
  <2> QED BY <2>1, ResetLocals DEF SameData
<1> HIDE DEF next
<1>6. /\ on \in WriteCall /\ SameData(on, Filling(ptr))
      /\ Number(Here(on)) = Number(Here(wr)) + 1
  <2>0. /\ Here(wr) = <<wr.f, "level1", wr.i, 0>> /\ Number(Here(wr)) = N_DIRECT + wr.i
        /\ wr.i \in Nat /\ wr.i < ADDR_PER_BLOCK /\ N_DIRECT \in Nat
    <3>1. wr.i \in Words
      BY <1>2
    <3> QED BY <1>1, <3>1, Constants DEF Here, Number, Words
  <2>1. CASE wr.i + 1 < ADDR_PER_BLOCK
    <3>1. on = [next EXCEPT !.i = wr.i + 1]
      BY <1>5, <2>1
    <3>2. wr.i + 1 \in 0 .. ADDR_PER_BLOCK + N_DIRECT
      BY <2>0, <2>1, Constants
    <3> HIDE DEF on
    <3>3. on \in WriteCall /\ on.stage = "level1" /\ SameData(on, next) /\ on.i = wr.i + 1
      BY <1>5, <3>1, <3>2 DEF WriteCall, SameData
    <3>4. Number(Here(on)) = N_DIRECT + (wr.i + 1)
      BY <3>3 DEF Here, Number
    <3>5. N_DIRECT + (wr.i + 1) = N_DIRECT + wr.i + 1
      BY <2>0
    <3> QED BY <1>5, <2>0, <3>3, <3>4, <3>5 DEF SameData
  <2>2. CASE ~(wr.i + 1 < ADDR_PER_BLOCK)
    <3>1. on = ToLevel2(next)
      BY <2>2
    <3> HIDE DEF on
    <3>2. on \in WriteCall /\ on.stage = "table2" /\ SameData(on, next) /\ on.i = 0 /\ on.j = 0
      <4>1. ToLevel2(next).j = 0
        BY <1>5 DEF ToLevel2, WriteCall
      <4> QED BY <1>5, <3>1, <4>1, LevelLocals
    <3>3. Number(Here(on)) = INDIRECT_BOUND + 0 * ADDR_PER_BLOCK + 0
      BY <3>2 DEF Here, Number
    <3>4. INDIRECT_BOUND + 0 * ADDR_PER_BLOCK + 0 = N_DIRECT + wr.i + 1
      BY <2>0, <2>2, Constants DEF INDIRECT_BOUND
    <3> QED BY <1>5, <2>0, <3>2, <3>3, <3>4 DEF SameData
  <2> QED BY <2>1, <2>2
<1>7. Grows(ptr)
  <2> HIDE DEF ptr, on
  <2> QED BY <1>1, <1>2, <1>4, <1>6, FillGrows
<1> HIDE DEF ptr, on, q, table
<1>8. Target(ptr) \in Blocks /\ Target(ptr) # table
  BY <1>2, <1>3, TargetFree, TargetApart, Constants
<1>9. blocks'[Target(ptr)] = Filled(ptr) /\ TablesOnly(Target(ptr))
  <2>1. blocks'[Target(ptr)] = Filled(ptr)
        /\ \A c \in Blocks : c # Target(ptr) /\ c # table => blocks'[c] = blocks[c]
    BY <1>0, <1>2, <1>8
  <2> QED BY <1>3, <2>1 DEF TablesOnly
<1> QED BY <1>2, <1>3, <1>7, <1>9, KeepsData DEF Fills

LEMMA InnerFills ==
  ASSUME Typed, MapSound, Linked, write_inner,
         ~NoSpace(blocks[blocks[inodes[wr.f].indir_2][wr.i]][wr.j]),
         ~Abort(blocks[blocks[inodes[wr.f].indir_2][wr.i]][wr.j]),
         NEW p, p = <<wr.f, "inner", wr.i, wr.j>>
  PROVE  Fills(p)
<1> DEFINE outer == inodes[wr.f].indir_2
           table == blocks[outer][wr.i]
           ptr   == blocks[table][wr.j]
           next  == Filling(ptr)
           on    == IF wr.j + 1 < ADDR_PER_BLOCK THEN [next EXCEPT !.j = @ + 1]
                    ELSE IF wr.i + 1 < ADDR_PER_BLOCK
                    THEN [next EXCEPT !.stage = "outer", !.i = @ + 1, !.j = 0]
                    ELSE [next EXCEPT !.stage = "cleanup"]
           q     == <<wr.f, "outer", wr.i, 0>>
<1>0. /\ inodes \in [Files -> Inode] /\ files \subseteq Files
      /\ blocks \in [Blocks -> [Words -> Nat]] /\ wr \in WriteCall
  BY DEF Typed, TypeOK
<1>1. wr.stage = "inner" /\ wr.stage \in Active
  BY Zenon DEF write_inner, Active, Stages
<1>2. /\ wr' = Onward(ptr, on) /\ Usable(ptr) /\ wr.f \in files /\ wr.f \in Files
      /\ wr.i \in Words /\ wr.j \in Words /\ outer \in Blocks
      /\ inodes' = [inodes EXCEPT ![wr.f].size = @ + Chunk(ptr)]
      /\ blocks' = [blocks EXCEPT ![Target(ptr)] = Filled(ptr),
                                  ![table] = [blocks[table] EXCEPT ![wr.j] = Target(ptr)]]
  BY <1>1, InCall, Zenon DEF write_inner
<1>3. /\ p \in Places(files) /\ ptr = Ptr(inodes, blocks, p)
      /\ q \in Places(files) /\ table = Ptr(inodes, blocks, q) /\ table # 0 /\ table \in Blocks
      /\ q \notin DataPlaces(files) /\ q # p
  <2>1. p \in Places(files) /\ q \in Places(files)
    BY <1>2, PlaceMembers, Zenon
  <2>2. /\ outer # 0 /\ At(blocks, outer, wr.i) # 0
        /\ At(blocks, outer, wr.i) = Ptr(inodes, blocks, q)
    BY <1>1 DEF Linked, Ptr
  <2>3. table = At(blocks, outer, wr.i)
    BY <1>2, <2>2, Zenon DEF At
  <2>4. table \in Blocks
    <3> HIDE DEF table, q
    <3> QED BY <2>1, <2>2, <2>3, EntryInRange
  <2>5. ptr = Ptr(inodes, blocks, p)
    <3>1. ptr = At(blocks, table, wr.j)
      BY <2>2, <2>3, <2>4 DEF At
    <3> HIDE DEF table
    <3> QED BY <2>3, <3>1 DEF Ptr
  <2> QED BY <2>1, <2>2, <2>3, <2>4, <2>5 DEF DataPlaces
<1>4. \A f \in files :
        inodes'[f].size = IF f = wr.f THEN inodes[f].size + Chunk(ptr) ELSE inodes[f].size
  <2> HIDE DEF ptr, on
  <2> QED BY <1>0, <1>2, Zenon DEF Inode
<1>5. /\ next \in WriteCall
      /\ next.stage = "inner" /\ next.i = wr.i /\ next.j = wr.j /\ next.f = wr.f
  BY <1>1, FillingBounds, Zenon
<1> HIDE DEF next
<1>6. /\ on \in WriteCall /\ SameData(on, next)
      /\ on.stage \in Active => Number(Here(on)) = Number(Here(wr)) + 1
  <2>0. /\ Here(wr) = <<wr.f, "inner", wr.i, wr.j>>
        /\ Number(Here(wr)) = INDIRECT_BOUND + wr.i * ADDR_PER_BLOCK + wr.j
        /\ wr.i \in Nat /\ wr.j \in Nat /\ INDIRECT_BOUND \in Nat /\ ADDR_PER_BLOCK \in Nat
        /\ wr.i * ADDR_PER_BLOCK \in Nat
    <3>1. wr.i * ADDR_PER_BLOCK \in Nat /\ INDIRECT_BOUND \in Nat
      BY <1>2, InnerNumbers, Zenon
    <3> QED BY <1>1, <1>2, <3>1, Constants, Zenon DEF Here, Number
  <2>1. CASE wr.j + 1 < ADDR_PER_BLOCK
    <3>1. on = [next EXCEPT !.j = wr.j + 1]
      BY <1>5, <2>1
    <3>2. wr.j + 1 \in Words
      BY <2>0, <2>1 DEF Words
    <3> HIDE DEF on
    <3>3. /\ on \in WriteCall /\ on.stage = "inner" /\ SameData(on, next)
          /\ on.i = wr.i /\ on.j = wr.j + 1
      BY <1>5, <3>1, <3>2 DEF WriteCall, SameData
    <3>4. Number(Here(on)) = INDIRECT_BOUND + wr.i * ADDR_PER_BLOCK + (wr.j + 1)
      BY <3>3 DEF Here, Number
    <3>5. Number(Here(on)) = Number(Here(wr)) + 1
      <4>1. PICK m \in Nat : m = wr.i * ADDR_PER_BLOCK
        BY <2>0
      <4>2. INDIRECT_BOUND + m + (wr.j + 1) = INDIRECT_BOUND + m + wr.j + 1
        BY <2>0
      <4> QED BY <2>0, <3>4, <4>1, <4>2
    <3> QED BY <3>3, <3>5
  <2>2. CASE ~(wr.j + 1 < ADDR_PER_BLOCK) /\ wr.i + 1 < ADDR_PER_BLOCK
    <3>1. on = [next EXCEPT !.stage = "outer", !.i = wr.i + 1, !.j = 0]
      BY <1>5, <2>2
    <3>2. wr.i + 1 \in 0 .. ADDR_PER_BLOCK + N_DIRECT /\ 0 \in Words /\ "outer" \in Stages
      BY <2>0, <2>2, Constants DEF Stages
    <3> HIDE DEF on
    <3>3. /\ on \in WriteCall /\ on.stage = "outer" /\ SameData(on, next)
          /\ on.i = wr.i + 1 /\ on.j = 0
      BY <1>5, <3>1, <3>2 DEF WriteCall, SameData
    <3>4. Number(Here(on)) = INDIRECT_BOUND + (wr.i + 1) * ADDR_PER_BLOCK + 0
      BY <3>3 DEF Here, Number
    <3>5. (wr.i + 1) * ADDR_PER_BLOCK = wr.i * ADDR_PER_BLOCK + ADDR_PER_BLOCK
      BY <2>0
    <3>6. ADDR_PER_BLOCK = wr.j + 1
      <4>1. wr.j < ADDR_PER_BLOCK
        <5>1. wr.j \in Words
          BY <1>2, Zenon
        <5> QED BY <2>0, <5>1 DEF Words
      <4> QED BY <2>0, <2>2, <4>1
    <3>7. Number(Here(on)) = INDIRECT_BOUND + (wr.i * ADDR_PER_BLOCK + (wr.j + 1)) + 0
      BY <3>4, <3>5, <3>6
    <3>8. Number(Here(on)) = Number(Here(wr)) + 1
      <4> HIDE DEF next
      <4>1. PICK m \in Nat : m = wr.i * ADDR_PER_BLOCK
        BY <2>0
      <4>2. INDIRECT_BOUND + (m + (wr.j + 1)) + 0 = INDIRECT_BOUND + m + wr.j + 1
        BY <2>0
      <4> QED BY <2>0, <3>7, <4>1, <4>2
    <3> QED BY <3>3, <3>8
  <2>3. CASE ~(wr.j + 1 < ADDR_PER_BLOCK) /\ ~(wr.i + 1 < ADDR_PER_BLOCK)
    <3>1. on = [next EXCEPT !.stage = "cleanup"]
      BY <2>3
    <3> HIDE DEF on
    <3> QED BY <1>5, <3>1 DEF WriteCall, SameData, Active, Stages
  <2> QED BY <2>1, <2>2, <2>3
<1>7. Grows(ptr)
  <2>1. next = Filling(ptr)
    BY DEF next
  <2> HIDE DEF ptr, on
  <2> QED BY <1>1, <1>2, <1>4, <1>6, <2>1, FillGrows, Zenon
<1> HIDE DEF ptr, on, q, table
<1>8. Target(ptr) \in Blocks /\ Target(ptr) # table
  BY <1>2, <1>3, TargetFree, TargetApart, Constants
<1>9. blocks'[Target(ptr)] = Filled(ptr) /\ TablesOnly(Target(ptr))
  <2>1. blocks'[Target(ptr)] = Filled(ptr)
        /\ \A c \in Blocks : c # Target(ptr) /\ c # table => blocks'[c] = blocks[c]
    BY <1>0, <1>2, <1>3, <1>8
  <2> QED BY <1>3, <2>1 DEF TablesOnly
<1> QED BY <1>2, <1>3, <1>7, <1>9, KeepsData, Zenon DEF Fills

LEMMA Table1Opens ==
  ASSUME Typed, MapSound, write_table1, ~NoSpace(inodes[wr.f].indir_1)
  PROVE  /\ Keeps(<<wr.f, "indir_1", 0, 0>>)
         /\ \A f \in files : inodes'[f].size = inodes[f].size
<1> DEFINE p   == <<wr.f, "indir_1", 0, 0>>
           ptr == inodes[wr.f].indir_1
<1>0. /\ inodes \in [Files -> Inode] /\ files \subseteq Files
      /\ blocks \in [Blocks -> [Words -> Nat]]
  BY DEF Typed, TypeOK
<1>1. /\ Usable(ptr) /\ wr.stage \in Active
      /\ inodes' = [inodes EXCEPT ![wr.f].indir_1 = Target(ptr)]
      /\ blocks' = IF ptr = 0 THEN [blocks EXCEPT ![Target(ptr)] = ZeroBlock] ELSE blocks
  BY DEF write_table1, Active, Stages
<1>2. p \in Places(files) /\ ptr = Ptr(inodes, blocks, p)
  BY <1>1, InCall, PlaceMembers DEF Ptr
<1> HIDE DEF ptr, p
<1>3. TablesOnly(Target(ptr))
  BY <1>0, <1>1 DEF TablesOnly
<1>4. \A f \in files : inodes'[f].size = inodes[f].size
  BY <1>0, <1>1 DEF Inode
<1>5. Keeps(p)
  BY <1>1, <1>2, <1>3, KeepsData
<1> QED BY <1>4, <1>5 DEF p

LEMMA Table2Opens ==
  ASSUME Typed, MapSound, write_table2, ~NoSpace(inodes[wr.f].indir_2)
  PROVE  /\ Keeps(<<wr.f, "indir_2", 0, 0>>)
         /\ \A f \in files : inodes'[f].size = inodes[f].size
<1> DEFINE p   == <<wr.f, "indir_2", 0, 0>>
           ptr == inodes[wr.f].indir_2
<1>0. /\ inodes \in [Files -> Inode] /\ files \subseteq Files
      /\ blocks \in [Blocks -> [Words -> Nat]]
  BY DEF Typed, TypeOK
<1>1. /\ Usable(ptr) /\ wr.stage \in Active
      /\ inodes' = [inodes EXCEPT ![wr.f].indir_2 = Target(ptr)]
      /\ blocks' = IF ptr = 0 THEN [blocks EXCEPT ![Target(ptr)] = ZeroBlock] ELSE blocks
  BY DEF write_table2, Active, Stages
<1>2. p \in Places(files) /\ ptr = Ptr(inodes, blocks, p)
  BY <1>1, InCall, PlaceMembers DEF Ptr
<1> HIDE DEF ptr, p
<1>3. TablesOnly(Target(ptr))
  BY <1>0, <1>1 DEF TablesOnly
<1>4. \A f \in files : inodes'[f].size = inodes[f].size
  BY <1>0, <1>1 DEF Inode
<1>5. Keeps(p)
  BY <1>1, <1>2, <1>3, KeepsData
<1> QED BY <1>4, <1>5 DEF p

LEMMA OuterOpens ==
  ASSUME Typed, MapSound, Linked, write_outer,
         ~NoSpace(blocks[inodes[wr.f].indir_2][wr.i]), ~Abort(blocks[inodes[wr.f].indir_2][wr.i])
  PROVE  /\ Keeps(<<wr.f, "outer", wr.i, 0>>)
         /\ \A f \in files : inodes'[f].size = inodes[f].size
<1> DEFINE p     == <<wr.f, "outer", wr.i, 0>>
           q     == <<wr.f, "indir_2", 0, 0>>
           table == inodes[wr.f].indir_2
           ptr   == blocks[table][wr.i]
<1>0. blocks \in [Blocks -> [Words -> Nat]] /\ wr \in WriteCall
  BY DEF Typed, TypeOK
<1>1. /\ Usable(ptr) /\ wr.stage = "outer" /\ wr.stage \in Active /\ inodes' = inodes
      /\ blocks' = [blocks EXCEPT ![table][wr.i] = Target(ptr)]
  BY DEF write_outer, Active, Stages
<1>2. /\ p \in Places(files) /\ ptr = Ptr(inodes, blocks, p)
      /\ q \in Places(files) /\ q \notin DataPlaces(files) /\ table = Ptr(inodes, blocks, q)
  <2>1. wr.f \in files /\ wr.i \in Words /\ table \in Blocks
    BY <1>1, InCall
  <2>2. table = Ptr(inodes, blocks, q) /\ table # 0
    BY <1>1 DEF Linked, Ptr
  <2>3. p \in Places(files) /\ q \in Places(files) /\ ptr = Ptr(inodes, blocks, p)
    BY <2>1, <2>2, PlaceMembers DEF Ptr, At
  <2> QED BY <2>2, <2>3 DEF DataPlaces
<1> HIDE DEF ptr, p, q, table
<1>3. TablesOnly(Target(ptr))
  BY <1>0, <1>1, <1>2 DEF TablesOnly
<1>4. Keeps(p)
  BY <1>1, <1>2, <1>3, KeepsData
<1> QED BY <1>1, <1>4 DEF p

LEMMA StepContent ==
  ASSUME Inv, OnlyWritten \/ OneLevel, Reached, AsWritten, Continues, WriteStep
  PROVE  (Reached /\ AsWritten /\ Continues)'
<1>0. /\ Typed /\ MapSound /\ Linked /\ wr \in WriteCall
  BY DEF Inv, Typed, TypeOK
<1>1. CASE Quiet
  BY <1>1 DEF Quiet, Reached, AsWritten, Continues, Active
<1>2. CASE ~Quiet
  <2>1. Onwards /\ (\A ptr : ~NoSpace(ptr)) /\ \A ptr : ~Abort(ptr)
    <3>1. Onwards /\ wr'.stage # "abort" /\ \A ptr : ~NoSpace(ptr)
      BY <1>0, <1>2, StepCases, NoSpaceQuiet DEF Onwards
    <3>2. \A ptr : ~Abort(ptr)
      BY <1>0, <3>1 DEF Abort, WriteCall
    <3> QED BY <3>1, <3>2
  <2>2. ASSUME NEW p, p = Here(wr), wr.stage \in Active, Takes(p), Fills(p)
        PROVE  (Reached /\ AsWritten /\ Continues)'
    BY <1>0, <2>2, FillContent DEF Fills
  <2>3. ASSUME NEW s, s \in Stages, wr' = [wr EXCEPT !.stage = s]
        PROVE  SameData(wr', wr) /\ wr'.offset = wr.offset /\ wr'.stage = s
               /\ wr'.i = wr.i /\ wr'.j = wr.j
    BY <1>0, <2>3 DEF WriteCall, SameData
  <2>4. CASE wr.stage = "direct"
    <3>1. write_direct /\ Takes(<<wr.f, "direct", wr.i, 0>>) /\ wr.stage \in Active
      BY <2>1, <2>4 DEF Onwards, WriteStep, write_table1, write_level1, write_table2,
         write_outer, write_inner, write_return, Active, Stages
    <3>2. Fills(<<wr.f, "direct", wr.i, 0>>)
      BY <1>0, <2>1, <3>1, DirectFills
    <3> QED BY <2>2, <2>4, <3>1, <3>2 DEF Here
  <2>5. CASE wr.stage = "level1"
    <3>1. write_level1 /\ Takes(<<wr.f, "level1", wr.i, 0>>) /\ wr.stage \in Active
      BY <2>1, <2>5 DEF Onwards, WriteStep, write_direct, write_table1, write_table2,
         write_outer, write_inner, write_return, Active, Stages
    <3>2. Fills(<<wr.f, "level1", wr.i, 0>>)
      BY <1>0, <2>1, <3>1, Level1Fills
    <3> QED BY <2>2, <2>5, <3>1, <3>2 DEF Here
  <2>6. CASE wr.stage = "inner"
    <3>1. write_inner /\ Takes(<<wr.f, "inner", wr.i, wr.j>>) /\ wr.stage \in Active
      BY <2>1, <2>6 DEF Onwards, WriteStep, write_direct, write_table1, write_level1,
         write_table2, write_outer, write_return, Active, Stages
    <3>2. Fills(<<wr.f, "inner", wr.i, wr.j>>)
      BY <1>0, <2>1, <3>1, InnerFills
    <3> QED BY <2>2, <2>6, <3>1, <3>2 DEF Here
  <2>7. CASE wr.stage = "table1"
    <3> DEFINE p == <<wr.f, "indir_1", 0, 0>>
    <3>1. write_table1 /\ Takes(p) /\ wr.stage \in Active /\ p \notin DataPlaces(files)
      BY <2>1, <2>7 DEF Onwards, WriteStep, write_direct, write_level1, write_table2,
         write_outer, write_inner, write_return, Active, Stages, DataPlaces
    <3>2. Keeps(p) /\ \A f \in files : inodes'[f].size = inodes[f].size
      BY <1>0, <2>1, <3>1, Table1Opens
    <3> HIDE DEF p
    <3>3. wr' = [wr EXCEPT !.stage = "level1"] /\ "level1" \in Stages
      BY <2>1, <3>1 DEF write_table1, Stages
    <3>4. SameData(wr', wr) /\ wr'.offset = wr.offset /\ Here(wr') = Here(wr)
      BY <2>3, <2>7, <3>3 DEF Here, SameData
    <3> QED BY <1>0, <3>1, <3>2, <3>4, OpenContent
  <2>8. CASE wr.stage = "table2"
    <3> DEFINE p == <<wr.f, "indir_2", 0, 0>>
    <3>1. write_table2 /\ Takes(p) /\ wr.stage \in Active /\ p \notin DataPlaces(files)
      BY <2>1, <2>8 DEF Onwards, WriteStep, write_direct, write_table1, write_level1,
         write_outer, write_inner, write_return, Active, Stages, DataPlaces
    <3>2. Keeps(p) /\ \A f \in files : inodes'[f].size = inodes[f].size
      BY <1>0, <2>1, <3>1, Table2Opens
    <3> HIDE DEF p
    <3>3. wr' = [wr EXCEPT !.stage = "outer"] /\ "outer" \in Stages
      BY <2>1, <3>1 DEF write_table2, Stages
    <3>4. SameData(wr', wr) /\ wr'.offset = wr.offset /\ Here(wr') = Here(wr)
      BY <2>3, <2>8, <3>3 DEF Here, SameData
    <3> QED BY <1>0, <3>1, <3>2, <3>4, OpenContent
  <2>9. CASE wr.stage = "outer"
    <3> DEFINE p == <<wr.f, "outer", wr.i, 0>>
    <3>1. write_outer /\ Takes(p) /\ wr.stage \in Active /\ p \notin DataPlaces(files)
      BY <2>1, <2>9 DEF Onwards, WriteStep, write_direct, write_table1, write_level1,
         write_table2, write_inner, write_return, Active, Stages, DataPlaces
    <3>2. Keeps(p) /\ \A f \in files : inodes'[f].size = inodes[f].size
      BY <1>0, <2>1, <3>1, OuterOpens
    <3> HIDE DEF p
    <3>3. wr' = [wr EXCEPT !.stage = "inner"] /\ "inner" \in Stages
      BY <2>1, <3>1 DEF write_outer, Stages
    <3>4. SameData(wr', wr) /\ wr'.offset = wr.offset /\ Here(wr') = Here(wr)
      BY <2>3, <2>9, <3>3 DEF Here, SameData
    <3> QED BY <1>0, <3>1, <3>2, <3>4, OpenContent
  <2> QED BY <2>1, <2>4, <2>5, <2>6, <2>7, <2>8, <2>9 DEF Onwards
<1> QED BY <1>1, <1>2

(* A call that appends enters at the block where its file ends.            *)
LEMMA EntryContinues ==
  ASSUME Typed, NEW f \in files, NEW len \in 1 .. MaxLen, inodes[f].size + len <= MaxSize,
         fs_write(f, len, inodes[f].size), MaxSize <= SIZE_DOUBLE_INDIRECT * ADDR_PER_BLOCK
  PROVE  Continues'
<1> DEFINE size == inodes[f].size
           n    == size \div ADDR_PER_BLOCK
           m    == n - INDIRECT_BOUND
           w    == Called(f, len, size)
<1>1. /\ f \in Files /\ f \in Nat /\ size \in 0 .. MaxSize /\ size \in Nat
      /\ len \in 0 .. MaxLen /\ len > 0
  <2>1. inodes[f] \in Inode /\ f \in Files /\ f \in Nat
    BY FileAssumption DEF Typed, TypeOK
  <2>2. size \in 0 .. MaxSize
    BY <2>1 DEF Inode
  <2> QED BY <2>1, <2>2, Constants
<1>2. w \in WriteCall /\ w.f = f /\ w.offset = size /\ w.pos = size /\ w.total = 0
  <2>1. w \in WriteCall
    BY <1>1, IdleCall DEF Called, WriteCall
  <2> QED BY <2>1 DEF Called, Idle
<1>3. /\ INDIRECT_BOUND \in Nat /\ INDIRECT_BOUND = N_DIRECT + ADDR_PER_BLOCK
      /\ SIZE_DOUBLE_INDIRECT \in Nat /\ INDIRECT_BOUND <= SIZE_DOUBLE_INDIRECT
      /\ SIZE_DOUBLE_INDIRECT = INDIRECT_BOUND + ADDR_PER_BLOCK * ADDR_PER_BLOCK
      /\ size < SIZE_DOUBLE_INDIRECT * ADDR_PER_BLOCK
  <2>1. INDIRECT_BOUND \in Nat /\ INDIRECT_BOUND = N_DIRECT + ADDR_PER_BLOCK
    BY Constants DEF INDIRECT_BOUND
  <2>2. ADDR_PER_BLOCK * ADDR_PER_BLOCK \in Nat
    BY Constants
  <2>3. /\ SIZE_DOUBLE_INDIRECT = INDIRECT_BOUND + ADDR_PER_BLOCK * ADDR_PER_BLOCK
        /\ SIZE_DOUBLE_INDIRECT \in Nat /\ INDIRECT_BOUND <= SIZE_DOUBLE_INDIRECT
    BY <2>1, <2>2 DEF SIZE_DOUBLE_INDIRECT
  <2>4. SIZE_DOUBLE_INDIRECT * ADDR_PER_BLOCK \in Nat
    BY <2>3, Constants
  <2> HIDE DEF INDIRECT_BOUND, SIZE_DOUBLE_INDIRECT
  <2> QED BY <1>1, <2>1, <2>3, <2>4, Constants
<1>4. /\ UNCHANGED <<block_map, inodes, blocks, files>>
      /\ wr' = CASE n < N_DIRECT -> [w EXCEPT !.stage = "direct", !.i = n]
                 [] n \in N_DIRECT .. INDIRECT_BOUND - 1
                      -> [w EXCEPT !.stage = "table1", !.i = n - N_DIRECT]
                 [] n \in INDIRECT_BOUND .. SIZE_DOUBLE_INDIRECT - 1
                      -> [w EXCEPT !.stage = "table2", !.i = m \div ADDR_PER_BLOCK,
                                   !.j = m % ADDR_PER_BLOCK]
                 [] OTHER -> ToLevel1(w)
  BY DEF fs_write, Called
<1> HIDE DEF w, size
<1>5. /\ n \in Nat /\ size = n * ADDR_PER_BLOCK + (size % ADDR_PER_BLOCK)
      /\ size % ADDR_PER_BLOCK \in Words /\ n * ADDR_PER_BLOCK \in Nat
  BY <1>1, Constants DEF Words
<1> HIDE DEF n
<1>6. n < SIZE_DOUBLE_INDIRECT
  <2> SUFFICES ASSUME SIZE_DOUBLE_INDIRECT <= n PROVE FALSE
    BY <1>3, <1>5
  <2>1. CASE n = SIZE_DOUBLE_INDIRECT
    BY <1>1, <1>3, <1>5, <2>1, Constants DEF Words
  <2>2. CASE SIZE_DOUBLE_INDIRECT < n
    <3>1. SIZE_DOUBLE_INDIRECT * ADDR_PER_BLOCK + ADDR_PER_BLOCK <= n * ADDR_PER_BLOCK
          /\ SIZE_DOUBLE_INDIRECT * ADDR_PER_BLOCK \in Nat
      BY <1>3, <1>5, <2>2, Multiples, Constants
    <3> QED BY <1>1, <1>3, <1>5, <3>1, Constants DEF Words
  <2> QED BY <1>3, <1>5, <2>1, <2>2
<1>7. /\ wr'.f = f /\ wr'.offset = size /\ wr'.pos = size /\ wr'.total = 0
      /\ Number(Here(wr')) = n
  <2>1. CASE n < N_DIRECT
    <3>1. wr' = [w EXCEPT !.stage = "direct", !.i = n]
      <4>1. /\ n \notin N_DIRECT .. INDIRECT_BOUND - 1
            /\ n \notin INDIRECT_BOUND .. SIZE_DOUBLE_INDIRECT - 1
        BY <1>3, <1>5, <2>1, Constants
      <4> HIDE DEF m
      <4> QED BY <1>4, <2>1, <4>1
    <3>2. wr'.stage = "direct" /\ wr'.i = n /\ SameData(wr', w) /\ wr'.offset = w.offset
      BY <1>2, <3>1 DEF WriteCall, SameData
    <3> QED BY <1>2, <3>2 DEF Here, Number, SameData
  <2>2. CASE n \in N_DIRECT .. INDIRECT_BOUND - 1
    <3>1. wr' = [w EXCEPT !.stage = "table1", !.i = n - N_DIRECT]
      <4>1. /\ ~(n < N_DIRECT) /\ n \notin INDIRECT_BOUND .. SIZE_DOUBLE_INDIRECT - 1
        BY <1>3, <1>5, <2>2, Constants
      <4> HIDE DEF m
      <4> QED BY <1>4, <2>2, <4>1
    <3>2. /\ wr'.stage = "table1" /\ wr'.i = n - N_DIRECT
          /\ SameData(wr', w) /\ wr'.offset = w.offset
      BY <1>2, <3>1 DEF WriteCall, SameData
    <3>3. N_DIRECT + (n - N_DIRECT) = n
      BY <1>5, Constants
    <3> QED BY <1>2, <3>2, <3>3 DEF Here, Number, SameData
  <2>3. CASE n \in INDIRECT_BOUND .. SIZE_DOUBLE_INDIRECT - 1
    <3> DEFINE a == m \div ADDR_PER_BLOCK
               b == m % ADDR_PER_BLOCK
    <3>1. wr' = [w EXCEPT !.stage = "table2", !.i = a, !.j = b]
      <4>1. ~(n < N_DIRECT) /\ n \notin N_DIRECT .. INDIRECT_BOUND - 1
        BY <1>3, <1>5, <2>3, Constants
      <4> QED BY <1>4, <2>3, <4>1
    <3>2. INDIRECT_BOUND + a * ADDR_PER_BLOCK + b = n
      <4>1. m \in Nat /\ INDIRECT_BOUND + m = n
        BY <1>3, <1>5, <2>3
      <4> HIDE DEF m
      <4>2. m = a * ADDR_PER_BLOCK + b /\ a * ADDR_PER_BLOCK \in Nat /\ b \in Nat
        BY <4>1, Constants
      <4> HIDE DEF a, b
      <4>3. PICK k \in Nat : k = a * ADDR_PER_BLOCK
        BY <4>2
      <4> QED BY <1>3, <4>1, <4>2, <4>3
    <3> HIDE DEF a, b
    <3>3. /\ wr'.stage = "table2" /\ wr'.i = a /\ wr'.j = b
          /\ SameData(wr', w) /\ wr'.offset = w.offset
      BY <1>2, <3>1 DEF WriteCall, SameData
    <3> QED BY <1>2, <3>2, <3>3 DEF Here, Number, SameData
  <2> QED BY <1>3, <1>5, <1>6, <2>1, <2>2, <2>3, Constants
<1>8. inodes'[wr'.f].size = size /\ From(Here(wr')) = n * ADDR_PER_BLOCK
  BY <1>4, <1>7 DEF size, From
<1>9. size - n * ADDR_PER_BLOCK = size % ADDR_PER_BLOCK /\ size + 0 = size
  BY <1>1, <1>5, Constants DEF Words
<1> QED BY <1>5, <1>7, <1>8, <1>9 DEF Continues

(* Files that only grow, with room for them on the three levels, or that   *)
(* are truncated and removed and have one level of tables.                 *)
Roomy == Growing \/ OneLevel

LEMMA RoomySizes ==
  ASSUME Roomy
  PROVE  /\ OnlyWritten \/ OneLevel
         /\ "overwrite" \notin Calls
         /\ MaxSize <= SIZE_DOUBLE_INDIRECT * ADDR_PER_BLOCK
<1>1. CASE Growing
  BY <1>1 DEF Growing, OnlyWritten
<1>2. CASE OneLevel
  <2>1. INDIRECT_BOUND \in Nat /\ ADDR_PER_BLOCK * ADDR_PER_BLOCK \in Nat
    BY Constants DEF INDIRECT_BOUND
  <2>2. MaxSize <= INDIRECT_BOUND * ADDR_PER_BLOCK /\ "overwrite" \notin Calls
    BY <1>2 DEF OneLevel
  <2>3. PICK k \in Nat : k = ADDR_PER_BLOCK * ADDR_PER_BLOCK
    BY <2>1
  <2>4. SIZE_DOUBLE_INDIRECT = INDIRECT_BOUND + k
    BY <2>3 DEF SIZE_DOUBLE_INDIRECT
  <2> HIDE DEF INDIRECT_BOUND, SIZE_DOUBLE_INDIRECT
  <2>5. /\ (INDIRECT_BOUND + k) * ADDR_PER_BLOCK
             = INDIRECT_BOUND * ADDR_PER_BLOCK + k * ADDR_PER_BLOCK
        /\ INDIRECT_BOUND * ADDR_PER_BLOCK \in Nat /\ k * ADDR_PER_BLOCK \in Nat
    BY <2>1, Constants
  <2>6. MaxSize <= SIZE_DOUBLE_INDIRECT * ADDR_PER_BLOCK
    BY <2>2, <2>4, <2>5, Constants
  <2> QED BY <1>2, <2>2, <2>6
<1> QED BY <1>1, <1>2 DEF Roomy

LEMMA ShallowReached ==
  ASSUME Inv, OneLevel
  PROVE  Reached
<1>0. Typed /\ Shallow /\ Backed /\ MaxSize <= INDIRECT_BOUND * ADDR_PER_BLOCK
  BY DEF Inv, OneLevel
<1> SUFFICES ASSUME NEW x \in DataPlaces(files)
             PROVE  Ptr(inodes, blocks, x) # 0 <=> From(x) < inodes[x[1]].size
  BY DEF Reached
<1>1. x[1] \in files /\ x = <<x[1], x[2], x[3], x[4]>>
  BY DataPlaceKinds, PlaceKinds
<1>2. CASE x[2] # "inner"
  <2>1. /\ Number(x) \in 0 .. INDIRECT_BOUND - 1
        /\ x = BlockPlace(x[1], Number(x))
    <3>1. CASE x[2] = "direct"
      <4>1. x[3] \in 0 .. N_DIRECT - 1 /\ x[4] = 0 /\ Number(x) = x[3]
        BY <3>1, DataPlaceKinds
      <4>2. Number(x) < N_DIRECT /\ Number(x) \in 0 .. INDIRECT_BOUND - 1
        BY <4>1, Constants DEF INDIRECT_BOUND
      <4> QED BY <1>1, <3>1, <4>1, <4>2 DEF BlockPlace
    <3>2. CASE x[2] = "level1"
      <4>1. /\ x[3] \in Nat /\ x[4] = 0 /\ Number(x) = N_DIRECT + x[3]
            /\ Number(x) < INDIRECT_BOUND /\ Number(x) \in Nat
        BY <3>2, DataPlaceKinds, Constants
      <4>2. ~(Number(x) < N_DIRECT) /\ Number(x) - N_DIRECT = x[3]
            /\ Number(x) \in 0 .. INDIRECT_BOUND - 1
        BY <4>1, Constants DEF INDIRECT_BOUND
      <4> QED BY <1>1, <3>2, <4>1, <4>2 DEF BlockPlace
    <3> QED BY <1>2, <3>1, <3>2, DataPlaceKinds
  <2> QED BY <1>0, <1>1, <2>1 DEF Backed, From
<1>3. CASE x[2] = "inner"
  <2>1. Ptr(inodes, blocks, x) = 0
    <3>1. inodes[x[1]].indir_2 = 0
      BY <1>0, <1>1 DEF Shallow
    <3> QED BY <1>3, <3>1 DEF Ptr, At
  <2>2. ~(From(x) < inodes[x[1]].size)
    <3>1. INDIRECT_BOUND <= Number(x) /\ Number(x) \in Nat /\ INDIRECT_BOUND \in Nat
      BY <1>3, DataPlaceKinds, Constants DEF INDIRECT_BOUND
    <3>2. inodes[x[1]].size \in 0 .. MaxSize
      BY <1>0, <1>1 DEF Typed, TypeOK, Inode
    <3> DEFINE k == Number(x)
    <3>3. From(x) = k * ADDR_PER_BLOCK
      BY DEF From
    <3> HIDE DEF k, INDIRECT_BOUND
    <3>4. /\ INDIRECT_BOUND * ADDR_PER_BLOCK \in Nat /\ k * ADDR_PER_BLOCK \in Nat
          /\ INDIRECT_BOUND * ADDR_PER_BLOCK <= k * ADDR_PER_BLOCK
      <4>1. CASE INDIRECT_BOUND = k
        BY <3>1, <4>1, Constants
      <4>2. CASE INDIRECT_BOUND # k
        <5>1. INDIRECT_BOUND < k /\ k \in Nat
          BY <3>1, <4>2 DEF k
        <5> QED BY <3>1, <5>1, Multiples, Constants
      <4> QED BY <4>1, <4>2
    <3> QED BY <1>0, <3>2, <3>3, <3>4, Constants
  <2> QED BY <2>1, <2>2
<1> QED BY <1>2, <1>3

LEMMA ReachedOneLevel == Inv /\ OneLevel => Reached
BY ShallowReached

(* The handlers that empty a file leave the others' data alone.            *)
LEMMA EmptiedAsWritten ==
  ASSUME Typed, AsWritten, NEW f \in Files, UNCHANGED blocks,
         \A g \in files : g # f => inodes'[g] = inodes[g],
         inodes'[f].size = 0, files' \subseteq files \cup {f}
  PROVE  AsWritten'
<1> SUFFICES ASSUME NEW x \in DataPlaces(files'), NEW w \in Words,
                    From(x) + w < inodes'[x[1]].size
             PROVE  blocks'[Ptr(inodes', blocks', x)][w] = Data(x[1], From(x) + w)
  BY DEF AsWritten
<1>1. x[1] \in files' /\ From(x) \in Nat /\ w \in Nat /\ x \in Places(files')
  BY DataPlaceKinds, Constants
<1>2. x[1] # f
  BY <1>1
<1>3. x[1] \in files /\ inodes'[x[1]] = inodes[x[1]]
  BY <1>1, <1>2
<1>4. x \in DataPlaces(files)
  BY <1>3 DEF DataPlaces, Places
<1>5. Ptr(inodes', blocks', x) = Ptr(inodes, blocks, x)
  BY <1>3 DEF Ptr
<1> QED BY <1>3, <1>4, <1>5 DEF AsWritten

Content == Reached /\ AsWritten /\ Continues

LEMMA InitContent == Init => Content
<1> SUFFICES ASSUME Init PROVE Content
  OBVIOUS
<1>1. /\ \A f \in Files : inodes[f] = ZeroInode
      /\ files = Files /\ wr = Idle
  BY DEF Init
<1>2. \A x \in DataPlaces(files) :
         /\ Ptr(inodes, blocks, x) = 0 /\ From(x) \in Nat
         /\ inodes[x[1]].size = 0
  <2>1. \A x \in DataPlaces(files) : x \in Places(files) /\ x[1] \in files /\ From(x) \in Nat
    BY DataPlaceKinds
  <2>2. ZeroInode.size = 0
    BY DEF ZeroInode
  <2> QED BY <1>1, <2>1, <2>2, ZeroPtr
<1>3. Reached /\ AsWritten
  BY <1>2, Constants DEF Reached, AsWritten
<1>4. Continues
  BY <1>1, IdleCall DEF Continues, Active
<1> QED BY <1>3, <1>4 DEF Content

LEMMA NextContent ==
  ASSUME Roomy, Inv, Inv', Content, [Next]_vars
  PROVE  Content'
<1>0. /\ Typed /\ Reached /\ AsWritten /\ Continues
      /\ files \subseteq Files /\ inodes \in [Files -> Inode]
  BY DEF Inv, Typed, TypeOK, Content
<1>1. CASE Write
  <2>1. PICK f \in files, len \in 1 .. MaxLen :
           inodes[f].size + len <= MaxSize /\ fs_write(f, len, inodes[f].size)
    BY <1>1, RoomySizes DEF Write
  <2>2. Continues'
    BY <1>0, <2>1, RoomySizes, EntryContinues
  <2>3. UNCHANGED <<inodes, blocks, files>>
    BY <2>1 DEF fs_write
  <2> QED BY <1>0, <2>2, <2>3 DEF Content, Reached, AsWritten
<1>2. CASE WriteStep
  <2>1. OnlyWritten \/ OneLevel
    BY RoomySizes
  <2> QED BY <1>0, <1>2, <2>1, StepContent DEF Content
<1>3. ASSUME NEW f \in Files, OneLevel, UNCHANGED <<blocks, wr>>, wr.stage = "idle",
             \A g \in files : g # f => inodes'[g] = inodes[g],
             inodes'[f].size = 0, files' \subseteq files \cup {f}
      PROVE  Content'
  <2>1. AsWritten'
    BY <1>0, <1>3, EmptiedAsWritten
  <2>2. Reached'
    <3>1. (Inv /\ OneLevel => Reached)'
      BY ReachedOneLevel, PTL
    <3> QED BY <1>3, <3>1 DEF OneLevel, OnlyWritten
  <2>3. Continues'
    BY <1>3 DEF Continues, Active
  <2> QED BY <2>1, <2>2, <2>3 DEF Content
<1>4. ASSUME NEW f \in Files, truncate(f), OneLevel, files' \subseteq files
      PROVE  Content'
  <2>1. \A g \in Files : g # f => inodes'[g] = inodes[g]
    BY <1>0, <1>4, TruncatedFile
  <2>2. inodes'[f].size = 0
    BY <1>0, <1>4, TruncatedFile
  <2>3. UNCHANGED <<blocks, wr>> /\ wr.stage = "idle"
    BY <1>4 DEF truncate
  <2> QED BY <1>0, <1>3, <1>4, <2>1, <2>2, <2>3
<1>5. ASSUME NEW f \in Truncatable, fs_truncate(f) PROVE Content'
  <2>1. f \in Files /\ truncate(f) /\ files' = files /\ OneLevel
    BY <1>5 DEF Truncatable, fs_truncate, Roomy, Growing
  <2> QED BY <1>4, <2>1
<1>6. ASSUME NEW f \in Removable, fs_unlink(f) PROVE Content'
  <2>1. f \in Files /\ truncate(f) /\ files' \subseteq files /\ OneLevel
    BY <1>6 DEF Removable, fs_unlink, Roomy, Growing
  <2> QED BY <1>4, <2>1
<1>7. ASSUME NEW f \in Removable, fs_mknod(f) PROVE Content'
  <2>1. /\ f \in Files /\ f \notin files /\ files' = files \cup {f} /\ OneLevel
        /\ wr.stage = "idle" /\ UNCHANGED <<blocks, wr>>
        /\ inodes' = [inodes EXCEPT ![f] = ZeroInode]
    BY <1>7 DEF Removable, fs_mknod, Roomy, Growing
  <2>2. /\ \A g \in files : g # f => inodes'[g] = inodes[g]
        /\ inodes'[f].size = 0
    BY <1>0, <2>1 DEF ZeroInode
  <2> QED BY <1>3, <2>1, <2>2
<1>8. CASE UNCHANGED vars
  BY <1>8 DEF vars, Content, Reached, AsWritten, Continues
<1> QED BY <1>1, <1>2, <1>5, <1>6, <1>7, <1>8 DEF Next

LEMMA AlwaysContent ==
  ASSUME Roomy
  PROVE  Spec => [](Inv /\ Content)
<1>1. Init => Inv /\ Content
  BY InitInv, InitContent
<1>2. Inv /\ Content /\ [Next]_vars => (Inv /\ Content)'
  <2> SUFFICES ASSUME Inv, Content, [Next]_vars PROVE (Inv /\ Content)'
    OBVIOUS
  <2>1. Inv'
    BY RoomySizes, NextInv
  <2> QED BY <2>1, NextContent
<1> QED BY <1>1, <1>2, PTL DEF Spec

-----------------------------------------------------------------------------
(* Reading.  The place of the pointer to a block of a file.                *)
PlaceOf(f, k) ==
    IF k < N_DIRECT THEN <<f, "direct", k, 0>>
    ELSE IF k < INDIRECT_BOUND THEN <<f, "level1", k - N_DIRECT, 0>>
    ELSE <<f, "inner", (k - INDIRECT_BOUND) \div ADDR_PER_BLOCK,
                       (k - INDIRECT_BOUND) % ADDR_PER_BLOCK>>

LEMMA BlockNumbers ==
  ASSUME NEW k \in 0 .. SIZE_DOUBLE_INDIRECT - 1
  PROVE  /\ k \in Nat /\ INDIRECT_BOUND \in Nat /\ INDIRECT_BOUND = N_DIRECT + ADDR_PER_BLOCK
         /\ k < INDIRECT_BOUND /\ ~(k < N_DIRECT) => k - N_DIRECT \in Words
         /\ ~(k < INDIRECT_BOUND) =>
               /\ (k - INDIRECT_BOUND) \div ADDR_PER_BLOCK \in Words
               /\ (k - INDIRECT_BOUND) % ADDR_PER_BLOCK \in Words
               /\ INDIRECT_BOUND + ((k - INDIRECT_BOUND) \div ADDR_PER_BLOCK) * ADDR_PER_BLOCK
                     + ((k - INDIRECT_BOUND) % ADDR_PER_BLOCK) = k
<1>1. /\ INDIRECT_BOUND \in Nat /\ INDIRECT_BOUND = N_DIRECT + ADDR_PER_BLOCK
      /\ ADDR_PER_BLOCK * ADDR_PER_BLOCK \in Nat
      /\ SIZE_DOUBLE_INDIRECT = INDIRECT_BOUND + ADDR_PER_BLOCK * ADDR_PER_BLOCK
  BY Constants DEF INDIRECT_BOUND, SIZE_DOUBLE_INDIRECT
<1>2. k \in Nat /\ k < SIZE_DOUBLE_INDIRECT
  BY <1>1
<1>3. k < INDIRECT_BOUND /\ ~(k < N_DIRECT) => k - N_DIRECT \in Words
  BY <1>1, <1>2, Constants DEF Words
<1>4. ASSUME ~(k < INDIRECT_BOUND)
      PROVE  /\ (k - INDIRECT_BOUND) \div ADDR_PER_BLOCK \in Words
             /\ (k - INDIRECT_BOUND) % ADDR_PER_BLOCK \in Words
             /\ INDIRECT_BOUND + ((k - INDIRECT_BOUND) \div ADDR_PER_BLOCK) * ADDR_PER_BLOCK
                   + ((k - INDIRECT_BOUND) % ADDR_PER_BLOCK) = k
  <2> DEFINE m == k - INDIRECT_BOUND
             a == m \div ADDR_PER_BLOCK
             b == m % ADDR_PER_BLOCK
  <2>1. m \in Nat /\ m < ADDR_PER_BLOCK * ADDR_PER_BLOCK /\ INDIRECT_BOUND + m = k
    BY <1>1, <1>2, <1>4
  <2> HIDE DEF m
  <2>2. a \in Nat /\ a < ADDR_PER_BLOCK /\ b \in Nat /\ b < ADDR_PER_BLOCK
    BY <2>1, Constants
  <2>3. a \in Words /\ b \in Words
    <3> HIDE DEF a, b
    <3> QED BY <2>2, Constants DEF Words
  <2>4. m = a * ADDR_PER_BLOCK + b /\ a * ADDR_PER_BLOCK \in Nat
    BY <2>1, Constants
  <2> HIDE DEF a, b
  <2>5. INDIRECT_BOUND + a * ADDR_PER_BLOCK + b = k
    <3>1. PICK n \in Nat : n = a * ADDR_PER_BLOCK
      BY <2>4
    <3> QED BY <1>1, <2>1, <2>2, <2>4, <3>1
  <2> QED BY <2>3, <2>5 DEF a, b, m
<1> QED BY <1>1, <1>2, <1>3, <1>4

LEMMA DataPlaceMembers ==
  ASSUME NEW fs, NEW f \in fs
  PROVE  /\ \A k \in 0 .. N_DIRECT - 1 : /\ <<f, "direct", k, 0>> \in DataPlaces(fs)
                                        /\ Number(<<f, "direct", k, 0>>) = k
         /\ \A k \in Words : /\ <<f, "level1", k, 0>> \in DataPlaces(fs)
                             /\ Number(<<f, "level1", k, 0>>) = N_DIRECT + k
         /\ \A k, l \in Words :
               /\ <<f, "inner", k, l>> \in DataPlaces(fs)
               /\ Number(<<f, "inner", k, l>>) = INDIRECT_BOUND + k * ADDR_PER_BLOCK + l
<1>1. \A x \in Places(fs) : x[2] \in {"direct", "level1", "inner"} => x \in DataPlaces(fs)
  BY DEF DataPlaces
<1>2. /\ \A k \in 0 .. N_DIRECT - 1 : <<f, "direct", k, 0>> \in DataPlaces(fs)
      /\ \A k \in Words : <<f, "level1", k, 0>> \in DataPlaces(fs)
      /\ \A k, l \in Words : <<f, "inner", k, l>> \in DataPlaces(fs)
  BY <1>1, PlaceMembers
<1>3. /\ \A k : Number(<<f, "direct", k, 0>>) = k
      /\ \A k : Number(<<f, "level1", k, 0>>) = N_DIRECT + k
      /\ \A k, l : Number(<<f, "inner", k, l>>) = INDIRECT_BOUND + k * ADDR_PER_BLOCK + l
  BY DEF Number
<1> QED BY <1>2, <1>3

LEMMA PlaceOfBlock ==
  ASSUME NEW fs, NEW f \in fs, NEW k \in 0 .. SIZE_DOUBLE_INDIRECT - 1
  PROVE  /\ PlaceOf(f, k) \in DataPlaces(fs) /\ PlaceOf(f, k)[1] = f
         /\ Number(PlaceOf(f, k)) = k /\ From(PlaceOf(f, k)) = k * ADDR_PER_BLOCK
<1>1. PlaceOf(f, k)[1] = f
  BY DEF PlaceOf
<1>2. PlaceOf(f, k) \in DataPlaces(fs) /\ Number(PlaceOf(f, k)) = k
  <2>1. CASE k < N_DIRECT
    <3>1. k \in 0 .. N_DIRECT - 1
      BY <2>1, BlockNumbers, Constants
    <3> QED BY <2>1, <3>1, DataPlaceMembers DEF PlaceOf
  <2>2. CASE ~(k < N_DIRECT) /\ k < INDIRECT_BOUND
    <3>1. k - N_DIRECT \in Words /\ N_DIRECT + (k - N_DIRECT) = k
      BY <2>2, BlockNumbers, Constants
    <3> QED BY <2>2, <3>1, DataPlaceMembers DEF PlaceOf
  <2>3. CASE ~(k < N_DIRECT) /\ ~(k < INDIRECT_BOUND)
    <3> DEFINE a == (k - INDIRECT_BOUND) \div ADDR_PER_BLOCK
               b == (k - INDIRECT_BOUND) % ADDR_PER_BLOCK
    <3>1. a \in Words /\ b \in Words /\ INDIRECT_BOUND + a * ADDR_PER_BLOCK + b = k
      BY <2>3, BlockNumbers
    <3>2. PlaceOf(f, k) = <<f, "inner", a, b>>
      BY <2>3 DEF PlaceOf
    <3> HIDE DEF a, b
    <3> QED BY <3>1, <3>2, DataPlaceMembers
  <2> QED BY <2>1, <2>2, <2>3
<1> QED BY <1>1, <1>2 DEF From

(* The tables on the way to a block that a file reaches into, or to the    *)
(* block at its end, when that is not the first of a table, are there.     *)
LEMMA TableThere ==
  ASSUME Typed, Reached, NEW x \in DataPlaces(files),
         From(x) <= inodes[x[1]].size,
         From(x) = inodes[x[1]].size => inodes[x[1]].size \notin TableEdges
  PROVE  /\ x[2] = "level1" => inodes[x[1]].indir_1 # 0
         /\ x[2] = "inner" => At(blocks, inodes[x[1]].indir_2, x[3]) # 0
<1> DEFINE f    == x[1]
           size == inodes[f].size
<1>0. f \in files /\ size \in Nat /\ From(x) \in Nat
  BY DataPlaceKinds DEF Typed, TypeOK, Inode
<1>1. ASSUME NEW y \in DataPlaces(files), y[1] = f, y[2] = x[2], y[3] = x[3] \/ x[2] = "level1",
             From(y) < size, x[2] \in {"level1", "inner"}
      PROVE  /\ x[2] = "level1" => inodes[f].indir_1 # 0
             /\ x[2] = "inner" => At(blocks, inodes[f].indir_2, x[3]) # 0
  <2>1. Ptr(inodes, blocks, y) # 0
    BY <1>1 DEF Reached
  <2> QED BY <1>1, <2>1 DEF Ptr, At
<1>2. ASSUME NEW y \in DataPlaces(files), Number(y) + 1 = Number(x)
      PROVE  From(y) < size
  <2>1. Number(y) \in Nat /\ Number(x) \in Nat
    BY DataPlaceKinds
  <2> DEFINE k == Number(y)
             l == Number(x)
  <2>2. From(y) = k * ADDR_PER_BLOCK /\ From(x) = l * ADDR_PER_BLOCK /\ k + 1 = l
        /\ k \in Nat /\ l \in Nat
    BY <1>2, <2>1 DEF From
  <2> HIDE DEF k, l, size
  <2>3. k < l
    BY <2>2
  <2>4. k * ADDR_PER_BLOCK + ADDR_PER_BLOCK <= l * ADDR_PER_BLOCK /\ k * ADDR_PER_BLOCK \in Nat
    BY <2>2, <2>3, Multiples, Constants
  <2>5. From(x) <= size
    BY DEF size
  <2> QED BY <1>0, <2>2, <2>4, <2>5, Constants
<1>3. CASE From(x) < size
  BY <1>1, <1>3, DataPlaceKinds
<1>4. CASE ~(From(x) < size)
  <2>1. size = From(x) /\ size \notin TableEdges
    <3>1. From(x) <= size
      OBVIOUS
    <3>2. From(x) = size
      <4> HIDE DEF size
      <4> QED BY <1>0, <1>4, <3>1
    <3> QED BY <3>2
  <2> HIDE DEF size
  <2>2. CASE x[2] = "level1"
    <3>1. x[3] \in Words /\ Number(x) = N_DIRECT + x[3]
      BY <2>2, DataPlaceKinds
    <3>2. x[3] # 0
      <4> SUFFICES ASSUME x[3] = 0 PROVE FALSE
        OBVIOUS
      <4>1. From(x) = N_DIRECT * ADDR_PER_BLOCK
        BY <3>1, Constants DEF From
      <4> QED BY <2>1, <4>1 DEF TableEdges
    <3> DEFINE y == <<f, "level1", x[3] - 1, 0>>
    <3>3. x[3] - 1 \in Words
      BY <3>1, <3>2, Constants DEF Words
    <3>4. y \in DataPlaces(files)
      BY <1>0, <3>3, PlaceMembers DEF DataPlaces
    <3>5. Number(y) + 1 = Number(x)
      <4>1. Number(y) = N_DIRECT + (x[3] - 1)
        BY DEF Number
      <4> QED BY <3>1, <4>1, Constants DEF Words
    <3>6. From(y) < size
      <4> HIDE DEF y
      <4> QED BY <1>2, <3>4, <3>5
    <3> QED BY <1>1, <2>2, <3>4, <3>6
  <2>3. CASE x[2] = "inner"
    <3>1. /\ x[3] \in Words /\ x[4] \in Words
          /\ Number(x) = INDIRECT_BOUND + x[3] * ADDR_PER_BLOCK + x[4]
          /\ x[3] * ADDR_PER_BLOCK \in Nat /\ INDIRECT_BOUND \in Nat
      BY <2>3, DataPlaceKinds, InnerNumbers
    <3>2. x[4] # 0
      <4> SUFFICES ASSUME x[4] = 0 PROVE FALSE
        OBVIOUS
      <4>1. Number(x) = INDIRECT_BOUND + x[3] * ADDR_PER_BLOCK
        BY <3>1
      <4>2. From(x) = (INDIRECT_BOUND + x[3] * ADDR_PER_BLOCK) * ADDR_PER_BLOCK
        BY <4>1 DEF From
      <4> QED BY <2>1, <3>1, <4>2 DEF TableEdges
    <3> DEFINE y == <<f, "inner", x[3], x[4] - 1>>
    <3>3. x[4] - 1 \in Words
      BY <3>1, <3>2, Constants DEF Words
    <3>4. y \in DataPlaces(files)
      BY <1>0, <3>1, <3>3, PlaceMembers DEF DataPlaces
    <3>5. Number(y) + 1 = Number(x)
      <4>1. Number(y) = INDIRECT_BOUND + x[3] * ADDR_PER_BLOCK + (x[4] - 1)
        BY DEF Number
      <4>2. PICK m \in Nat : m = x[3] * ADDR_PER_BLOCK
        BY <3>1
      <4>3. x[4] \in Nat
        BY <3>1, Constants
      <4> QED BY <3>1, <4>1, <4>2, <4>3
    <3>6. From(y) < size
      <4> HIDE DEF y
      <4> QED BY <1>2, <3>4, <3>5
    <3> QED BY <1>1, <2>3, <3>4, <3>6
  <2> QED BY <2>2, <2>3
<1> QED BY <1>3, <1>4

(* fs_read goes through these tables to that block, all in the image.      *)
LEMMA ReadWay ==
  ASSUME Typed, MapSound, Reached, NEW f \in files, NEW k \in 0 .. SIZE_DOUBLE_INDIRECT - 1,
         k * ADDR_PER_BLOCK <= inodes[f].size,
         k * ADDR_PER_BLOCK = inodes[f].size => inodes[f].size \notin TableEdges
  PROVE  /\ \A n \in DOMAIN Way(inodes[f], k) : Way(inodes[f], k)[n] \in Blocks
         /\ BlockOf(inodes[f], k) = Ptr(inodes, blocks, PlaceOf(f, k))
         /\ BlockOf(inodes[f], k) \in Blocks
<1> DEFINE x   == PlaceOf(f, k)
           i1  == inodes[f].indir_1
           i2  == inodes[f].indir_2
           way == Way(inodes[f], k)
<1>1. /\ x \in DataPlaces(files) /\ x \in Places(files) /\ x[1] = f
      /\ From(x) = k * ADDR_PER_BLOCK
  BY PlaceOfBlock DEF DataPlaces
<1>2. /\ x[2] = "level1" => i1 # 0
      /\ x[2] = "inner" => At(blocks, i2, x[3]) # 0
  <2> HIDE DEF x
  <2> QED BY <1>1, TableThere
<1>3. /\ Ptr(inodes, blocks, x) \in Blocks /\ i1 \in Blocks /\ i2 \in Blocks
  <2>1. inodes[f] \in Inode
    BY DEF Typed, TypeOK
  <2>2. Ptr(inodes, blocks, x) \in Blocks
    <3> HIDE DEF x
    <3> QED BY <1>1, EntryInRange
  <2> QED BY <2>1, <2>2 DEF Inode
<1> SUFFICES /\ \A n \in DOMAIN way : way[n] \in Blocks
             /\ way[Len(way)] = Ptr(inodes, blocks, x)
  BY <1>3 DEF BlockOf
<1>4. CASE k < N_DIRECT
  <2>1. way = <<inodes[f].direct[k]>>
    <3>1. k \notin N_DIRECT .. INDIRECT_BOUND - 1
      BY <1>4, BlockNumbers, Constants
    <3> QED BY <1>4, <3>1 DEF Way
  <2>2. x = <<f, "direct", k, 0>>
    BY <1>4 DEF PlaceOf
  <2>3. Ptr(inodes, blocks, x) = inodes[f].direct[k]
    BY <2>2 DEF Ptr
  <2> HIDE DEF way, x
  <2> QED BY <1>3, <2>1, <2>3
<1>5. CASE ~(k < N_DIRECT) /\ k < INDIRECT_BOUND
  <2> DEFINE w == WordOf(i1, k - N_DIRECT)
  <2>1. way = <<i1, w>>
    <3>1. k \in N_DIRECT .. INDIRECT_BOUND - 1
      BY <1>5, BlockNumbers, Constants
    <3> QED BY <1>5, <3>1 DEF Way
  <2>2. x = <<f, "level1", k - N_DIRECT, 0>>
    BY <1>5 DEF PlaceOf
  <2>3. i1 # 0
    BY <1>2, <2>2
  <2>4. w = Ptr(inodes, blocks, x)
    BY <1>3, <2>2, <2>3 DEF WordOf, Ptr, At
  <2> HIDE DEF way, x, w, i1
  <2> QED BY <1>3, <2>1, <2>4
<1>6. CASE ~(k < N_DIRECT) /\ ~(k < INDIRECT_BOUND)
  <2> DEFINE a == (k - INDIRECT_BOUND) \div ADDR_PER_BLOCK
             b == (k - INDIRECT_BOUND) % ADDR_PER_BLOCK
             t == WordOf(i2, a)
             w == WordOf(t, b)
  <2>1. way = <<i2, t, w>>
    <3>1. k \notin N_DIRECT .. INDIRECT_BOUND - 1
      BY <1>6, BlockNumbers, Constants
    <3> QED BY <1>6, <3>1 DEF Way
  <2>2. x = <<f, "inner", a, b>> /\ a \in Words
    BY <1>6, BlockNumbers DEF PlaceOf
  <2> HIDE DEF a, b
  <2>3. At(blocks, i2, a) # 0
    BY <1>2, <2>2
  <2>4. t = At(blocks, i2, a)
    BY <1>3, <2>3 DEF WordOf, At
  <2>5. t \in Blocks
    <3>1. <<f, "outer", a, 0>> \in Places(files)
      BY <2>2, PlaceMembers
    <3>2. Ptr(inodes, blocks, <<f, "outer", a, 0>>) = At(blocks, i2, a)
      BY DEF Ptr
    <3> HIDE DEF t, i2
    <3> QED BY <2>4, <3>1, <3>2, EntryInRange
  <2>6. w = Ptr(inodes, blocks, x)
    <3> HIDE DEF t
    <3> QED BY <2>2, <2>3, <2>4, <2>5 DEF WordOf, Ptr, At
  <2> HIDE DEF way, x, w, t, i2
  <2> QED BY <1>3, <2>1, <2>5, <2>6
<1> QED BY <1>4, <1>5, <1>6

(* The word it finds at a position in the file.                            *)
ReadsWord(f, pos) ==
    WordOf(BlockOf(inodes[f], pos \div ADDR_PER_BLOCK), pos % ADDR_PER_BLOCK)

(* The blocks of a file that the three levels have room for are on them.   *)
LEMMA InLevels ==
  ASSUME MaxSize <= SIZE_DOUBLE_INDIRECT * ADDR_PER_BLOCK,
         NEW k \in Nat, k * ADDR_PER_BLOCK < MaxSize
  PROVE  k \in 0 .. SIZE_DOUBLE_INDIRECT - 1
<1>1. SIZE_DOUBLE_INDIRECT \in Nat
  <2>1. ADDR_PER_BLOCK * ADDR_PER_BLOCK \in Nat /\ INDIRECT_BOUND \in Nat
    BY Constants DEF INDIRECT_BOUND
  <2> QED BY <2>1 DEF SIZE_DOUBLE_INDIRECT
<1>2. /\ SIZE_DOUBLE_INDIRECT * ADDR_PER_BLOCK \in Nat /\ k * ADDR_PER_BLOCK \in Nat
      /\ MaxSize \in Nat /\ ADDR_PER_BLOCK \in Nat
  BY <1>1, Constants
<1>3. CASE SIZE_DOUBLE_INDIRECT = k
  BY <1>2, <1>3
<1>4. CASE SIZE_DOUBLE_INDIRECT < k
  <2>1. SIZE_DOUBLE_INDIRECT * ADDR_PER_BLOCK + ADDR_PER_BLOCK <= k * ADDR_PER_BLOCK
    BY <1>1, <1>2, <1>4, Multiples
  <2>2. PICK a \in Nat : a = SIZE_DOUBLE_INDIRECT * ADDR_PER_BLOCK
    BY <1>2
  <2>3. PICK b \in Nat : b = k * ADDR_PER_BLOCK
    BY <1>2
  <2> QED BY <1>2, <2>1, <2>2, <2>3
<1> QED BY <1>1, <1>3, <1>4

LEMMA ReadWord ==
  ASSUME Roomy, Inv, Content, NEW f \in files, NEW pos \in Nat, pos < inodes[f].size
  PROVE  ReadsWord(f, pos) = Data(f, pos)
<1> DEFINE k == pos \div ADDR_PER_BLOCK
           w == pos % ADDR_PER_BLOCK
           x == PlaceOf(f, k)
<1>0. /\ Typed /\ MapSound /\ Reached /\ AsWritten /\ inodes[f].size \in 0 .. MaxSize
  <2>1. Typed /\ MapSound /\ Reached /\ AsWritten
    BY DEF Inv, Content
  <2> QED BY <2>1 DEF Typed, TypeOK, Inode
<1>1. /\ k \in Nat /\ w \in Words /\ w \in Nat
      /\ pos = k * ADDR_PER_BLOCK + w /\ k * ADDR_PER_BLOCK \in Nat
  BY Constants DEF Words
<1> HIDE DEF k, w
<1>2. k * ADDR_PER_BLOCK < inodes[f].size
  BY <1>0, <1>1, Constants
<1>3. k \in 0 .. SIZE_DOUBLE_INDIRECT - 1
  <2>1. k * ADDR_PER_BLOCK < MaxSize
    BY <1>0, <1>1, <1>2, Constants
  <2> QED BY <1>1, <2>1, RoomySizes, InLevels
<1>4. /\ BlockOf(inodes[f], k) = Ptr(inodes, blocks, x)
      /\ BlockOf(inodes[f], k) \in Blocks
  <2>1. k * ADDR_PER_BLOCK <= inodes[f].size /\ k * ADDR_PER_BLOCK # inodes[f].size
    BY <1>0, <1>1, <1>2, Constants
  <2> QED BY <1>0, <1>3, <2>1, ReadWay
<1>5. x \in DataPlaces(files) /\ x[1] = f /\ From(x) = k * ADDR_PER_BLOCK
  BY <1>3, PlaceOfBlock
<1> HIDE DEF x
<1>6. blocks[Ptr(inodes, blocks, x)][w] = Data(f, pos)
  <2>1. From(x) + w = pos
    BY <1>1, <1>5
  <2> QED BY <1>0, <1>1, <1>5, <2>1 DEF AsWritten
<1> QED BY <1>4, <1>6 DEF ReadsWord, WordOf, k, w

(* What fs_read returns, and that it stays in the image.                   *)
LEMMA ReadEnds ==
  ASSUME NEW f, NEW len \in Nat, NEW offset \in Nat, inodes[f].size \in Nat,
         offset <= inodes[f].size
  PROVE  /\ ReadEnd(f, len, offset) \in Nat
         /\ offset <= ReadEnd(f, len, offset)
         /\ ReadEnd(f, len, offset) <= inodes[f].size
         /\ ReadEnd(f, len, offset) = Min({inodes[f].size, offset + len})
<1> DEFINE size == inodes[f].size
<1>1. {size, offset + len} \subseteq Nat
  OBVIOUS
<1>2. /\ Min({size, offset + len}) \in {size, offset + len}
      /\ Min({size, offset + len}) <= size /\ Min({size, offset + len}) <= offset + len
  BY <1>1, MinNat
<1>3. CASE offset < size
  BY <1>2, <1>3 DEF ReadEnd
<1>4. CASE ~(offset < size)
  BY <1>2, <1>4 DEF ReadEnd
<1> QED BY <1>3, <1>4

LEMMA ReadStays ==
  ASSUME Inv, Reached, NEW f \in files, NEW len \in Nat, NEW offset \in Nat,
         offset <= inodes[f].size,
         ReadEnd(f, len, offset) = inodes[f].size => inodes[f].size \notin TableEdges
  PROVE  ~read_aborts(f, len, offset)
<1>0. Typed /\ MapSound /\ inodes[f].size \in Nat
  BY DEF Inv, Typed, TypeOK, Inode
<1> DEFINE end  == ReadEnd(f, len, offset)
           size == inodes[f].size
<1>1. end \in Nat /\ end <= size
  BY <1>0, ReadEnds
<1> SUFFICES ASSUME NEW k \in 0 .. SIZE_DOUBLE_INDIRECT - 1, k <= end \div ADDR_PER_BLOCK
             PROVE  \A n \in DOMAIN Way(inodes[f], k) : Way(inodes[f], k)[n] \in Blocks
  BY DEF read_aborts, ReadBlocks
<1>2. k \in Nat
  BY BlockNumbers
<1>3. k * ADDR_PER_BLOCK <= end /\ k * ADDR_PER_BLOCK \in Nat
  <2> HIDE DEF end
  <2> DEFINE m == end \div ADDR_PER_BLOCK
  <2>1. m \in Nat /\ m * ADDR_PER_BLOCK <= end /\ m * ADDR_PER_BLOCK \in Nat
    BY <1>1, Constants
  <2>2. k <= m
    OBVIOUS
  <2> HIDE DEF m
  <2>3. CASE k = m
    BY <2>1, <2>3
  <2>4. CASE k # m
    <3>1. k < m
      BY <1>2, <2>1, <2>2, <2>4
    <3>2. k * ADDR_PER_BLOCK + ADDR_PER_BLOCK <= m * ADDR_PER_BLOCK /\ k * ADDR_PER_BLOCK \in Nat
      BY <1>2, <2>1, <3>1, Multiples, Constants
    <3> QED BY <1>1, <2>1, <3>2, Constants
  <2> QED BY <2>3, <2>4
<1>4. /\ k * ADDR_PER_BLOCK <= size
      /\ k * ADDR_PER_BLOCK = size => size \notin TableEdges
  <2>1. end = size => size \notin TableEdges
    OBVIOUS
  <2> HIDE DEF end, size
  <2> QED BY <1>0, <1>1, <1>3, <2>1 DEF size
<1> QED BY <1>0, <1>4, ReadWay

LEMMA Reads ==
  ASSUME Roomy, Inv, Content, NEW f \in files, NEW len \in Nat, NEW offset \in Nat,
         offset <= inodes[f].size
  PROVE  fs_read(f, len, offset)
            = [n \in 1 .. ReadEnd(f, len, offset) - offset |-> Data(f, offset + n - 1)]
<1> DEFINE end == ReadEnd(f, len, offset)
<1>1. inodes[f].size \in Nat
  BY DEF Inv, Typed, TypeOK, Inode
<1>2. end \in Nat /\ end <= inodes[f].size
  BY <1>1, ReadEnds
<1>3. ASSUME NEW n \in 1 .. end - offset
      PROVE  ReadsWord(f, offset + n - 1) = Data(f, offset + n - 1)
  <2>1. offset + n - 1 \in Nat /\ offset + n - 1 < inodes[f].size
    <3> HIDE DEF end
    <3> QED BY <1>1, <1>2
  <2> QED BY <2>1, ReadWord
<1>4. fs_read(f, len, offset) = [n \in 1 .. end - offset |-> ReadsWord(f, offset + n - 1)]
  BY DEF fs_read, ReadsWord
<1> HIDE DEF end
<1> QED BY <1>3, <1>4 DEF end

(* fs_read returns what was written, in files that only grow or that are   *)
(* truncated and removed and have one level of tables, unless the file     *)
(* ends where a table would begin and the read reaches that end.           *)
THEOREM ReadsAsWritten ==
  ASSUME Roomy
  PROVE  Spec => []ReadsBack
<1>1. Inv /\ Content => ReadsBack
  <2> SUFFICES ASSUME Inv, Content, NEW f \in files, NEW offset \in 0 .. inodes[f].size - 1,
                      NEW len \in 1 .. MaxLen
               PROVE  LET end == Min({offset + len, inodes[f].size})
                      IN ~(end = inodes[f].size /\ end \in TableEdges) =>
                            /\ ~read_aborts(f, len, offset)
                            /\ fs_read(f, len, offset) =
                                  [n \in 1 .. end - offset |-> Data(f, offset + n - 1)]
    BY DEF ReadsBack
  <2> DEFINE end == Min({offset + len, inodes[f].size})
  <2> SUFFICES ASSUME ~(end = inodes[f].size /\ end \in TableEdges)
               PROVE  /\ ~read_aborts(f, len, offset)
                      /\ fs_read(f, len, offset) =
                            [n \in 1 .. end - offset |-> Data(f, offset + n - 1)]
    OBVIOUS
  <2>1. /\ inodes[f].size \in Nat /\ len \in Nat /\ offset \in Nat
        /\ offset <= inodes[f].size /\ Reached
    <3>1. inodes[f].size \in Nat /\ Reached
      BY DEF Inv, Typed, TypeOK, Inode, Content
    <3> QED BY <3>1, Constants
  <2>2. end = ReadEnd(f, len, offset)
    <3>1. {offset + len, inodes[f].size} = {inodes[f].size, offset + len}
      OBVIOUS
    <3> QED BY <2>1, <3>1, ReadEnds
  <2> HIDE DEF end
  <2>3. ~read_aborts(f, len, offset)
    BY <2>1, <2>2, ReadStays
  <2>4. fs_read(f, len, offset) =
            [n \in 1 .. ReadEnd(f, len, offset) - offset |-> Data(f, offset + n - 1)]
    BY <2>1, Reads
  <2> QED BY <2>2, <2>3, <2>4
<1> QED BY <1>1, AlwaysContent, PTL

-----------------------------------------------------------------------------
(* The refinement of FileStore.  A step of fs_write makes its file longer  *)
(* by a part of one block, or leaves all sizes as they are.                *)
SameSizes == \A f \in files : inodes'[f].size = inodes[f].size

Extends(f, n) ==
    \A g \in files : inodes'[g].size = IF g = f THEN inodes[g].size + n ELSE inodes[g].size

LEMMA StepSizes ==
  ASSUME Typed, WriteStep
  PROVE  /\ files' = files
         /\ SameSizes \/ \E f \in files, n \in 1 .. ADDR_PER_BLOCK : Extends(f, n)
<1>1. inodes \in [Files -> Inode] /\ files \subseteq Files
  BY DEF Typed, TypeOK
<1>2. ASSUME NEW ptr, wr.stage \in Active, Extends(wr.f, Chunk(ptr))
      PROVE  \E f \in files, n \in 1 .. ADDR_PER_BLOCK : Extends(f, n)
  <2>1. Start(ptr) \in Words /\ Chunk(ptr) \in 1 .. wr.len /\ Start(ptr) + Chunk(ptr) <= ADDR_PER_BLOCK
    BY <1>2, FillBounds
  <2>2. wr.len \in Nat
    BY DEF Typed, TypeOK, WriteCall
  <2>3. Chunk(ptr) \in 1 .. ADDR_PER_BLOCK
    BY <2>1, <2>2, Constants DEF Words
  <2>4. wr.f \in files
    BY <1>2, InCall
  <2> QED BY <1>2, <2>3, <2>4
<1>3. ASSUME NEW ptr, NoSpace(ptr) \/ Abort(ptr)
      PROVE  files' = files /\ SameSizes
  BY <1>3 DEF NoSpace, Abort, SameSizes
<1>4. CASE write_direct
  <2> DEFINE ptr == inodes[wr.f].direct[wr.i]
  <2>1. CASE NoSpace(ptr)
    BY <1>3, <2>1
  <2>2. CASE ~NoSpace(ptr)
    <3>1. /\ wr.stage \in Active /\ files' = files
          /\ inodes' = [inodes EXCEPT ![wr.f].direct[wr.i] = Target(ptr),
                                      ![wr.f].size = @ + Chunk(ptr)]
      BY <1>4, <2>2 DEF write_direct, Active, Stages
    <3> HIDE DEF ptr
    <3>2. Extends(wr.f, Chunk(ptr))
      BY <1>1, <3>1 DEF Extends, Inode
    <3> QED BY <1>2, <3>1, <3>2
  <2> QED BY <2>1, <2>2
<1>5. CASE write_table1
  <2> DEFINE ptr == inodes[wr.f].indir_1
  <2>1. CASE NoSpace(ptr)
    BY <1>3, <2>1
  <2>2. CASE ~NoSpace(ptr)
    <3>1. files' = files /\ inodes' = [inodes EXCEPT ![wr.f].indir_1 = Target(ptr)]
      BY <1>5, <2>2 DEF write_table1
    <3> QED BY <1>1, <3>1 DEF SameSizes, Inode
  <2> QED BY <2>1, <2>2
<1>6. CASE write_level1
  <2> DEFINE ptr == blocks[inodes[wr.f].indir_1][wr.i]
  <2>1. CASE NoSpace(ptr) \/ Abort(ptr)
    BY <1>3, <2>1
  <2>2. CASE ~(NoSpace(ptr) \/ Abort(ptr))
    <3>1. /\ wr.stage \in Active /\ files' = files
          /\ inodes' = [inodes EXCEPT ![wr.f].size = @ + Chunk(ptr)]
      BY <1>6, <2>2, Zenon DEF write_level1, Active, Stages
    <3> HIDE DEF ptr
    <3>2. Extends(wr.f, Chunk(ptr))
      BY <1>1, <3>1 DEF Extends, Inode
    <3> QED BY <1>2, <3>1, <3>2
  <2> QED BY <2>1, <2>2
<1>7. CASE write_table2
  <2> DEFINE ptr == inodes[wr.f].indir_2
  <2>1. CASE NoSpace(ptr)
    BY <1>3, <2>1
  <2>2. CASE ~NoSpace(ptr)
    <3>1. files' = files /\ inodes' = [inodes EXCEPT ![wr.f].indir_2 = Target(ptr)]
      BY <1>7, <2>2 DEF write_table2
    <3> QED BY <1>1, <3>1 DEF SameSizes, Inode
  <2> QED BY <2>1, <2>2
<1>8. CASE write_outer
  <2> DEFINE ptr == blocks[inodes[wr.f].indir_2][wr.i]
  <2>1. CASE NoSpace(ptr) \/ Abort(ptr)
    BY <1>3, <2>1
  <2>2. CASE ~(NoSpace(ptr) \/ Abort(ptr))
    <3>1. files' = files /\ inodes' = inodes
      BY <1>8, <2>2 DEF write_outer
    <3> QED BY <3>1 DEF SameSizes
  <2> QED BY <2>1, <2>2
<1>9. CASE write_inner
  <2> DEFINE ptr == blocks[blocks[inodes[wr.f].indir_2][wr.i]][wr.j]
  <2>1. CASE NoSpace(ptr) \/ Abort(ptr)
    BY <1>3, <2>1
  <2>2. CASE ~(NoSpace(ptr) \/ Abort(ptr))
    <3>1. /\ wr.stage \in Active /\ files' = files
          /\ inodes' = [inodes EXCEPT ![wr.f].size = @ + Chunk(ptr)]
      BY <1>9, <2>2, Zenon DEF write_inner, Active, Stages
    <3> HIDE DEF ptr
    <3>2. Extends(wr.f, Chunk(ptr))
      BY <1>1, <3>1 DEF Extends, Inode
    <3> QED BY <1>2, <3>1, <3>2
  <2> QED BY <2>1, <2>2
<1>10. CASE write_return
  BY <1>10 DEF write_return, SameSizes
<1> QED BY <1>4, <1>5, <1>6, <1>7, <1>8, <1>9, <1>10 DEF WriteStep

(* The words a file of a size holds, and the contents of all files.        *)
Holds(f, size) == [k \in 1 .. size |-> Data(f, k - 1)]
Held == [f \in Files |-> IF f \in files THEN Holds(f, inodes[f].size) ELSE <<>>]

LEMMA ContentsHeld == Roomy /\ Inv /\ Content => Contents = Held
<1> SUFFICES ASSUME Roomy, Inv, Content, NEW f \in Files, f \in files
             PROVE  fs_read(f, inodes[f].size, 0) = Holds(f, inodes[f].size)
  BY DEF Contents, Held
<1> DEFINE size == inodes[f].size
<1>1. size \in Nat
  BY DEF Inv, Typed, TypeOK, Inode
<1>2. ReadEnd(f, size, 0) = size
  <2>1. ReadEnd(f, size, 0) = Min({size, 0 + size})
    BY <1>1, ReadEnds
  <2>2. {size, 0 + size} = {size}
    BY <1>1
  <2>3. {size} \subseteq Nat /\ {size} # {}
    BY <1>1
  <2>4. Min({size}) \in {size}
    <3> HIDE DEF size
    <3> QED BY <2>3, MinNat
  <2> QED BY <2>1, <2>2, <2>4
<1>3. fs_read(f, size, 0) = [n \in 1 .. ReadEnd(f, size, 0) - 0 |-> Data(f, 0 + n - 1)]
  <2>1. f \in files /\ 0 \in Nat /\ 0 <= size
    BY <1>1
  <2> HIDE DEF size
  <2>2. \A g \in files, len \in Nat, offset \in Nat :
           offset <= inodes[g].size =>
              fs_read(g, len, offset) =
                 [n \in 1 .. ReadEnd(g, len, offset) - offset |-> Data(g, offset + n - 1)]
    BY Reads
  <2>3. 0 <= inodes[f].size
    BY <2>1 DEF size
  <2> QED BY <1>1, <2>1, <2>2, <2>3
<1>4. ReadEnd(f, size, 0) - 0 = size
  BY <1>1, <1>2
<1>5. \A n \in 1 .. size : 0 + n - 1 = n - 1
  BY <1>1
<1> HIDE DEF size
<1>6. fs_read(f, size, 0) = [n \in 1 .. size |-> Data(f, n - 1)]
  BY <1>3, <1>4, <1>5
<1> QED BY <1>6 DEF Holds, size

LEMMA NothingHeld == ASSUME NEW f PROVE Holds(f, 0) = <<>>
BY DEF Holds

(* Extending a file is a write of the store at the end of the file.        *)
LEMMA ExtendsWrites ==
  ASSUME Typed, NEW f \in files, NEW n \in 1 .. ADDR_PER_BLOCK, Extends(f, n), files' = files,
         Contents = Held, Contents' = Held'
  PROVE  Store!Next
<1> DEFINE s == inodes[f].size
<1>1. /\ f \in Files /\ s \in Nat /\ n \in Nat /\ n > 0 /\ files \subseteq Files
  BY Constants DEF Typed, TypeOK, Inode
<1>2. Contents[f] = Holds(f, s) /\ Len(Contents[f]) = s
  <2>1. Contents[f] = Holds(f, s)
    BY <1>1 DEF Held
  <2> HIDE DEF s
  <2> QED BY <1>1, <2>1 DEF Holds
<1>3. Held' = [Held EXCEPT ![f] = Holds(f, s + n)]
  <2>1. \A g \in files : inodes'[g].size = IF g = f THEN s + n ELSE inodes[g].size
    BY DEF Extends
  <2> HIDE DEF s
  <2> QED BY <1>1, <2>1 DEF Held
<1>4. Holds(f, s + n) = [k \in 1 .. s + n |-> IF s < k /\ k <= s + n THEN Data(f, k - 1)
                                              ELSE Holds(f, s)[k]]
  <2> HIDE DEF s
  <2>1. ASSUME NEW k \in 1 .. s + n, ~(s < k /\ k <= s + n)
        PROVE  Holds(f, s)[k] = Data(f, k - 1)
    <3>1. k \in 1 .. s
      BY <1>1, <2>1
    <3> QED BY <3>1 DEF Holds
  <2> QED BY <2>1 DEF Holds
<1>5. Store!Write(f, s, n)
  <2>1. s + n > s /\ s <= s
    BY <1>1
  <2> HIDE DEF s
  <2> QED BY <1>2, <1>3, <1>4, <2>1 DEF Store!Write
<1>6. s \in 0 .. Len(Contents[f])
  BY <1>1, <1>2
<1> HIDE DEF s
<1> QED BY <1>1, <1>5, <1>6 DEF Store!Next

LEMMA StoreInit == Roomy /\ Init /\ Inv /\ Content => Store!Init
<1> SUFFICES ASSUME Roomy, Init, Inv, Content PROVE Contents = [f \in Files |-> <<>>]
  BY DEF Store!Init
<1>1. Contents = Held
  BY ContentsHeld
<1>2. \A f \in Files : inodes[f].size = 0 /\ f \in files
  BY DEF Init, ZeroInode
<1> QED BY <1>1, <1>2, NothingHeld DEF Held

LEMMA StoreNext ==
  Roomy /\ Inv /\ Content /\ (Inv /\ Content)' /\ [Next]_vars => [Store!Next]_Contents
<1> SUFFICES ASSUME Roomy, Inv, Content, (Inv /\ Content)', [Next]_vars
             PROVE  Store!Next \/ UNCHANGED Contents
  OBVIOUS
<1>0. Typed /\ files \subseteq Files /\ inodes \in [Files -> Inode]
  BY DEF Inv, Typed, TypeOK
<1>1. Contents = Held
  BY ContentsHeld
<1>2. Contents' = Held'
  <2>1. (Roomy /\ Inv /\ Content => Contents = Held)'
    BY ContentsHeld, PTL
  <2> QED BY <2>1 DEF Roomy, Growing, OneLevel, OnlyWritten
<1>3. ASSUME files' = files, SameSizes PROVE UNCHANGED Contents
  BY <1>0, <1>1, <1>2, <1>3 DEF Held, SameSizes
<1>4. ASSUME NEW f \in Files, \A g \in files : g # f => inodes'[g] = inodes[g],
             inodes'[f].size = 0, files' \in {files, files \ {f}, files \cup {f}}
      PROVE  Store!Next
  <2>1. Held' = [Held EXCEPT ![f] = <<>>]
    BY <1>0, <1>4, NothingHeld DEF Held
  <2> QED BY <1>1, <1>2, <2>1 DEF Store!Next, Store!Empty
<1>5. CASE Write
  <2>1. UNCHANGED <<inodes, files>>
    BY <1>5, WriteStarts
  <2>2. SameSizes
    BY <2>1 DEF SameSizes
  <2> QED BY <1>3, <2>1, <2>2
<1>6. CASE WriteStep
  <2>1. files' = files /\ (SameSizes \/ \E f \in files, n \in 1 .. ADDR_PER_BLOCK : Extends(f, n))
    BY <1>0, <1>6, StepSizes
  <2> QED BY <1>0, <1>1, <1>2, <1>3, <2>1, ExtendsWrites
<1>7. ASSUME NEW f \in Files, truncate(f)
      PROVE  inodes'[f].size = 0 /\ \A g \in files : g # f => inodes'[g] = inodes[g]
  BY <1>0, <1>7, TruncatedFile
<1>8. ASSUME NEW f \in Truncatable, fs_truncate(f) PROVE Store!Next
  <2>1. f \in Files /\ truncate(f) /\ files' = files
    BY <1>8 DEF Truncatable, fs_truncate
  <2> QED BY <1>4, <1>7, <2>1
<1>9. ASSUME NEW f \in Removable, fs_unlink(f) PROVE Store!Next
  <2>1. f \in Files /\ truncate(f) /\ files' = files \ {f}
    BY <1>9 DEF Removable, fs_unlink
  <2> QED BY <1>4, <1>7, <2>1
<1>10. ASSUME NEW f \in Removable, fs_mknod(f) PROVE Store!Next
  <2>1. /\ f \in Files /\ f \notin files /\ files' = files \cup {f}
        /\ inodes' = [inodes EXCEPT ![f] = ZeroInode]
    BY <1>10 DEF Removable, fs_mknod
  <2>2. inodes'[f].size = 0 /\ \A g \in files : g # f => inodes'[g] = inodes[g]
    BY <1>0, <2>1 DEF ZeroInode
  <2> QED BY <1>4, <2>1, <2>2
<1>11. CASE UNCHANGED vars
  BY <1>3, <1>11 DEF vars, SameSizes
<1> QED BY <1>5, <1>6, <1>8, <1>9, <1>10, <1>11 DEF Next

(* Files that only grow, or that are truncated and removed and have one    *)
(* level of tables, behave like sequences of words without holes that each *)
(* step of a write extends by what it stores and that truncate and unlink  *)
(* empty, as fs_read finds them.                                           *)
THEOREM FilesAreSequences ==
  ASSUME Roomy
  PROVE  Spec => ImplementsStore
<1>1. Spec => [](Inv /\ Content)
  BY AlwaysContent
<1>2. Init /\ Inv /\ Content => Store!Init
  BY StoreInit
<1>3. Inv /\ Content /\ (Inv /\ Content)' /\ [Next]_vars => [Store!Next]_Contents
  BY StoreNext
<1> QED BY <1>1, <1>2, <1>3, PTL DEF Spec, ImplementsStore, Store!Spec

=============================================================================
