----------------------------- MODULE AllocProofs -----------------------------
(***************************************************************************)
(* Proofs about the allocator: what mkfs makes of an image is what it      *)
(* assumes, and the loop of get_free_block (FsThreads) does what the       *)
(* operator does that the other modules call (FsAlloc), as long as nothing *)
(* interrupts it.                                                          *)
(***************************************************************************)
EXTENDS FsThreads, Mkfs, TLAPS

(* Layout.                                                                 *)

(* mkfs-x6.c 66-93 and fs_init: of 5 blocks on, the data region of an      *)
(* image starts at its root directory, after at least four blocks and      *)
(* within the image, which is LayoutAssumption of FsAlloc.                 *)
THEOREM MkfsLayout == ASSUME NEW n \in Nat, 5 <= n PROVE LayoutGood(n)
<1>1. /\ n_map_blks(n) \in Int /\ 1 <= n_map_blks(n)
      /\ 8192 * n_map_blks(n) <= n + 8191
  BY DEF n_map_blks, DIV_ROUND_UP, BITS, FS_BLOCK_SIZE
<1>2. n_inos(n) \in Int /\ 1 <= n_inos(n) /\ 4 * n_inos(n) <= n
  BY DEF n_inos
<1>3. /\ n_ino_map_blks(n) \in Int /\ 1 <= n_ino_map_blks(n)
      /\ 8192 * n_ino_map_blks(n) <= n_inos(n) + 8191
  BY <1>2 DEF n_ino_map_blks, DIV_ROUND_UP, BITS, FS_BLOCK_SIZE
<1>4. /\ n_ino_blks(n) \in Int /\ 1 <= n_ino_blks(n)
      /\ 1024 * n_ino_blks(n) <= n_inos(n) * 64 + 1023
  BY <1>2 DEF n_ino_blks, DIV_ROUND_UP, FS_BLOCK_SIZE, INODE_SIZE
<1>5. rootdir_base(n) = 1 + n_ino_map_blks(n) + n_map_blks(n) + n_ino_blks(n)
  BY <1>1, <1>3, <1>4 DEF rootdir_base, inode_base, block_map_base, inode_map_base
<1>6. fs_init_start(superblock(n)) = rootdir_base(n)
  BY <1>1, <1>3, <1>4, <1>5 DEF fs_init_start, superblock
<1>7. 4 <= rootdir_base(n) /\ rootdir_base(n) < n
  BY <1>1, <1>2, <1>3, <1>4, <1>5
<1>8. QED
  BY <1>6, <1>7 DEF LayoutGood

(* Bitmaps and inode region have room for all blocks and inodes.           *)
THEOREM MkfsMapsFit == ASSUME NEW n \in Nat PROVE MapsFit(n)
<1>1. n_inos(n) \in Nat
  BY DEF n_inos
<1>2. n <= n_map_blks(n) * BITS
  BY DEF n_map_blks, DIV_ROUND_UP, BITS, FS_BLOCK_SIZE
<1>3. n_inos(n) <= n_ino_map_blks(n) * BITS
  BY <1>1 DEF n_ino_map_blks, DIV_ROUND_UP, BITS, FS_BLOCK_SIZE
<1>4. n_inos(n) <= RoomForInodes(n)
  BY <1>1 DEF RoomForInodes, n_ino_blks, DIV_ROUND_UP, FS_BLOCK_SIZE, INODE_SIZE
<1>5. QED
  BY <1>2, <1>3, <1>4 DEF MapsFit

(* get_free_inode (main.c 370-380) looks at 64 inodes whatever the image   *)
(* has: the inode region has them exactly when the image has 196 blocks.   *)
THEOREM MkfsScanFits == ASSUME NEW n \in Nat PROVE ScanFits(n) <=> 196 <= n
<1>1. n_inos(n) \in Nat /\ (49 <= n_inos(n) <=> 196 <= n)
  BY DEF n_inos
<1>2. n_ino_blks(n) \in Nat /\ (4 <= n_ino_blks(n) <=> 49 <= n_inos(n))
  BY <1>1 DEF n_ino_blks, DIV_ROUND_UP, FS_BLOCK_SIZE, INODE_SIZE
<1>3. RoomForInodes(n) = n_ino_blks(n) * 16
  BY DEF RoomForInodes, FS_BLOCK_SIZE, INODE_SIZE
<1>4. QED
  BY <1>1, <1>2, <1>3 DEF ScanFits, MAX_SCAN

-----------------------------------------------------------------------------
(* The allocator, one handler after the other.                             *)

Bit == start_block .. max_num_blocks

LEMMA Layout ==
  /\ start_block \in Nat /\ max_num_blocks \in Nat
  /\ 4 <= start_block /\ start_block < max_num_blocks
BY LayoutAssumption

(* The first block whose bit is not set, where a scan found one or none.   *)
LEMMA ScanFinds ==
  ASSUME NEW map, NEW b \in DataBlocks \ map, start_block .. b - 1 \subseteq map
  PROVE  get_free_block(map) = b
<1> DEFINE unset == DataBlocks \ map
<1>1. b \in unset /\ \A c \in unset : b <= c
  <2>1. ASSUME NEW c \in unset, ~(b <= c) PROVE FALSE
    <3>1. c \in start_block .. b - 1
      BY <2>1, Layout DEF DataBlocks
    <3> QED BY <3>1
  <2> QED BY <2>1
<1>2. \A c \in unset : c \in Nat
  BY Layout DEF DataBlocks
<1>3. Min(unset) = b
  <2> HIDE DEF unset
  <2>1. \E c \in unset : \A d \in unset : c <= d
    BY <1>1
  <2>2. Min(unset) \in unset /\ \A d \in unset : Min(unset) <= d
    BY <2>1 DEF Min
  <2> QED BY <1>1, <1>2, <2>2
<1>4. unset # {}
  BY <1>1
<1> QED BY <1>3, <1>4 DEF get_free_block

LEMMA ScanFails ==
  ASSUME NEW map, start_block .. max_num_blocks - 1 \subseteq map
  PROVE  get_free_block(map) = -ENOSPC
BY DEF get_free_block, DataBlocks

(* Where a thread in the allocator is with its scan, and what it is about  *)
(* to store.                                                               *)
Scanning(t) ==
    /\ pc[t] \in {"test", "set", "store"} => start_block .. i[t] - 1 \subseteq block_map
    /\ pc[t] \in {"set", "store"} => i[t] \in DataBlocks \ block_map
    /\ pc[t] = "store" => word[t] = block_map \cup {i[t]}
    /\ pc[t] = "clear" => word[t] = free_a_block(block_map, i[t])

InUse == Metadata \cup {start_block} \cup {i[t] : t \in Holding}

(* The inductive invariant.                                                *)
SerialInv ==
    /\ TypeOK
    /\ \A t, u \in Threads : Inside(t) /\ Inside(u) => t = u
    /\ \A t \in Threads : Scanning(t)
    /\ \A t \in Holding : i[t] \in DataBlocks \ {start_block}
    /\ \A t, u \in Holding : i[t] = i[u] => t = u
    /\ block_map = InUse

LEMMA SerialInit == Init => SerialInv
<1> SUFFICES ASSUME Init PROVE SerialInv
  OBVIOUS
<1>1. /\ block_map = Metadata \cup {start_block} /\ pc = [t \in Threads |-> "idle"]
      /\ i = [t \in Threads |-> start_block] /\ word = [t \in Threads |-> {}]
  BY DEF Init
<1>2. block_map \subseteq Blocks /\ start_block \in start_block .. max_num_blocks
  BY <1>1, Layout DEF Metadata, Blocks
<1>3. TypeOK
  BY <1>1, <1>2 DEF TypeOK
<1>4. Holding = {}
  BY <1>1 DEF Holding
<1> QED BY <1>1, <1>3, <1>4 DEF SerialInv, Inside, Scanning, InUse

(* A thread moves on and changes nothing that others see.                  *)
LEMMA MovesOn ==
  ASSUME SerialInv, NEW t \in Threads, \A u \in Threads \ {t} : ~Inside(u),
         NEW to \in {"idle", "test", "set", "store", "clear"},
         pc' = [pc EXCEPT ![t] = to], block_map' = block_map,
         t \in Holding <=> to = "clear",
         TypeOK', \A u \in Threads \ {t} : i'[u] = i[u] /\ word'[u] = word[u],
         to = "clear" => i'[t] = i[t],
         Scanning(t)'
  PROVE  SerialInv' /\ Holding' = Holding
<1>1. pc'[t] = to /\ \A u \in Threads \ {t} : pc'[u] = pc[u] /\ pc[u] \in {"idle", "holds"}
  BY DEF SerialInv, TypeOK, Inside
<1>2. Holding' = Holding
  BY <1>1 DEF Holding
<1>3. \A u \in Holding : i'[u] = i[u]
  BY DEF Holding
<1>4. \A u \in Threads : Scanning(u)'
  <2>1. ASSUME NEW u \in Threads \ {t} PROVE Scanning(u)'
    BY <1>1 DEF Scanning
  <2> QED BY <2>1
<1>5. \A u, v \in Threads : Inside(u)' /\ Inside(v)' => u = v
  BY <1>1 DEF Inside
<1>6. InUse' = InUse
  BY <1>2, <1>3 DEF InUse
<1> QED BY <1>2, <1>3, <1>4, <1>5, <1>6 DEF SerialInv

(* What a step of one thread does while it is alone.                       *)
Quiet == block_map' = block_map /\ Holding' = Holding /\ \A t \in Holding : i'[t] = i[t]

Takes(t) ==
    /\ t \notin Holding /\ get_free_block(block_map) = i[t] /\ i[t] \in DataBlocks
    /\ block_map' = block_map \cup {i[t]} /\ i' = i /\ Holding' = Holding \cup {t}

Returns(t) ==
    /\ t \in Holding /\ block_map' = free_a_block(block_map, i[t])
    /\ i' = i /\ Holding' = Holding \ {t}

LEMMA SerialStep ==
  ASSUME SerialInv, NEW t \in Threads, \A u \in Threads \ {t} : ~Inside(u), Step(t)
  PROVE  SerialInv' /\ (Quiet \/ Takes(t) \/ Returns(t))
<1>0. /\ block_map \subseteq Blocks /\ word \in [Threads -> SUBSET Blocks]
      /\ pc \in [Threads -> {"idle", "test", "set", "store", "holds", "clear"}]
      /\ i \in [Threads -> Bit] /\ Scanning(t) /\ block_map = InUse
  BY DEF SerialInv, TypeOK, Bit
<1>1. CASE call(t)
  <2>1. /\ pc[t] = "idle" /\ pc' = [pc EXCEPT ![t] = "test"]
        /\ i' = [i EXCEPT ![t] = start_block] /\ block_map' = block_map /\ word' = word
    BY <1>1 DEF call, Goto
  <2>2. i'[t] = start_block /\ start_block .. i'[t] - 1 = {} /\ start_block \in Bit
    BY <1>0, <2>1, Layout DEF Bit
  <2>3. TypeOK'
    BY <1>0, <2>1, <2>2 DEF TypeOK, Bit
  <2>4. Scanning(t)'
    BY <1>0, <2>1, <2>2 DEF Scanning
  <2>5. SerialInv' /\ Holding' = Holding
    BY <1>0, <2>1, <2>3, <2>4, MovesOn DEF Holding
  <2> QED BY <1>0, <2>1, <2>5 DEF Quiet, Holding
<1>2. CASE test(t)
  <2>1. /\ pc[t] = "test" /\ i[t] < max_num_blocks /\ block_map' = block_map /\ word' = word
    BY <1>2 DEF test, Goto
  <2>2. i[t] \in DataBlocks /\ i[t] \in Nat /\ i[t] + 1 \in Bit
    BY <1>0, <2>1, Layout DEF Bit, DataBlocks
  <2>3. CASE i[t] \in block_map
    <3>1. pc' = [pc EXCEPT ![t] = "test"] /\ i' = [i EXCEPT ![t] = i[t] + 1]
      BY <1>2, <2>3 DEF test, Goto
    <3>2. TypeOK'
      BY <1>0, <2>1, <2>2, <3>1 DEF TypeOK, Bit
    <3>3. Scanning(t)'
      <4>1. start_block .. i[t] - 1 \subseteq block_map /\ i'[t] = i[t] + 1
        BY <1>0, <2>1, <3>1 DEF Scanning
      <4>2. start_block .. (i[t] + 1) - 1 \subseteq block_map
        BY <2>2, <2>3, <4>1, Layout
      <4> QED BY <1>0, <2>1, <3>1, <4>1, <4>2 DEF Scanning
    <3>4. SerialInv' /\ Holding' = Holding
      BY <1>0, <2>1, <3>1, <3>2, <3>3, MovesOn DEF Holding
    <3> QED BY <1>0, <2>1, <3>1, <3>4 DEF Quiet, Holding
  <2>4. CASE i[t] \notin block_map
    <3>1. pc' = [pc EXCEPT ![t] = "set"] /\ i' = i
      BY <1>2, <2>4 DEF test, Goto
    <3>2. TypeOK'
      BY <1>0, <2>1, <3>1 DEF TypeOK, Bit
    <3>3. Scanning(t)'
      BY <1>0, <2>1, <2>2, <2>4, <3>1 DEF Scanning
    <3>4. SerialInv' /\ Holding' = Holding
      BY <1>0, <2>1, <3>1, <3>2, <3>3, MovesOn DEF Holding
    <3> QED BY <2>1, <3>1, <3>4 DEF Quiet
  <2> QED BY <2>3, <2>4
<1>3. CASE no_space(t)
  <2>1. /\ pc[t] = "test" /\ pc' = [pc EXCEPT ![t] = "idle"]
        /\ UNCHANGED <<block_map, i, word>>
    BY <1>3 DEF no_space, Goto
  <2>2. TypeOK' /\ Scanning(t)'
    BY <1>0, <2>1 DEF TypeOK, Bit, Scanning
  <2>3. SerialInv' /\ Holding' = Holding
    BY <1>0, <2>1, <2>2, MovesOn DEF Holding
  <2> QED BY <2>1, <2>3 DEF Quiet
<1>4. CASE set(t)
  <2>1. /\ pc[t] = "set" /\ pc' = [pc EXCEPT ![t] = "store"]
        /\ word' = [word EXCEPT ![t] = block_map \cup {i[t]}]
        /\ UNCHANGED <<block_map, i>>
    BY <1>4 DEF set, Goto
  <2>2. i[t] \in Blocks
    BY <1>0, <2>1, Layout DEF Scanning, DataBlocks, Blocks
  <2>3. TypeOK' /\ Scanning(t)'
    BY <1>0, <2>1, <2>2 DEF TypeOK, Bit, Scanning
  <2>4. SerialInv' /\ Holding' = Holding
    BY <1>0, <2>1, <2>3, MovesOn DEF Holding
  <2> QED BY <2>1, <2>4 DEF Quiet
<1>5. CASE store(t)
  <2>1. /\ pc[t] = "store" /\ pc' = [pc EXCEPT ![t] = "holds"]
        /\ block_map' = word[t] /\ UNCHANGED <<i, word>>
    BY <1>5 DEF store, Goto
  <2>2. /\ i[t] \in DataBlocks \ block_map /\ word[t] = block_map \cup {i[t]}
        /\ start_block .. i[t] - 1 \subseteq block_map
    BY <1>0, <2>1 DEF Scanning
  <2>3. pc'[t] = "holds" /\ \A u \in Threads \ {t} : pc'[u] = pc[u] /\ pc[u] \in {"idle", "holds"}
    BY <1>0, <2>1 DEF Inside
  <2>4. t \notin Holding /\ Holding' = Holding \cup {t}
    BY <2>1, <2>3 DEF Holding
  <2>5. Takes(t)
    BY <2>1, <2>2, <2>4, ScanFinds DEF Takes
  <2>6. TypeOK'
    BY <1>0, <2>1 DEF TypeOK, Bit
  <2>7. /\ \A u \in Threads : Scanning(u)'
        /\ \A u, v \in Threads : Inside(u)' /\ Inside(v)' => u = v
    BY <2>3 DEF Scanning, Inside
  <2>8. start_block \in block_map /\ \A u \in Holding : i[u] \in block_map
    BY <1>0 DEF InUse
  <2>9. /\ \A u \in Holding' : i'[u] \in DataBlocks \ {start_block}
        /\ \A u, v \in Holding' : i'[u] = i'[v] => u = v
    BY <2>1, <2>2, <2>4, <2>8 DEF SerialInv
  <2>10. block_map' = InUse'
    BY <1>0, <2>1, <2>2, <2>4 DEF InUse
  <2> QED BY <2>5, <2>6, <2>7, <2>9, <2>10 DEF SerialInv
<1>6. CASE free(t)
  <2>1. /\ pc[t] = "holds" /\ pc' = [pc EXCEPT ![t] = "clear"]
        /\ word' = [word EXCEPT ![t] = free_a_block(block_map, i[t])]
        /\ UNCHANGED <<block_map, i>>
    BY <1>6 DEF free, Goto
  <2>2. free_a_block(block_map, i[t]) \subseteq Blocks
    BY <1>0 DEF free_a_block
  <2>3. TypeOK' /\ Scanning(t)'
    BY <1>0, <2>1, <2>2 DEF TypeOK, Bit, Scanning
  <2>4. SerialInv' /\ Holding' = Holding
    BY <1>0, <2>1, <2>3, MovesOn DEF Holding
  <2> QED BY <2>1, <2>4 DEF Quiet
<1>7. CASE cleared(t)
  <2>1. /\ pc[t] = "clear" /\ pc' = [pc EXCEPT ![t] = "idle"]
        /\ block_map' = word[t] /\ UNCHANGED <<i, word>>
    BY <1>7 DEF cleared, Goto
  <2>2. word[t] = free_a_block(block_map, i[t]) /\ t \in Holding
    BY <1>0, <2>1 DEF Scanning, Holding
  <2>3. pc'[t] = "idle" /\ \A u \in Threads \ {t} : pc'[u] = pc[u] /\ pc[u] \in {"idle", "holds"}
    BY <1>0, <2>1 DEF Inside
  <2>4. Holding' = Holding \ {t}
    BY <2>3 DEF Holding
  <2>5. Returns(t)
    BY <2>1, <2>2, <2>4 DEF Returns
  <2>6. TypeOK'
    BY <1>0, <2>1 DEF TypeOK, Bit
  <2>7. /\ \A u \in Threads : Scanning(u)'
        /\ \A u, v \in Threads : Inside(u)' /\ Inside(v)' => u = v
    BY <2>3 DEF Scanning, Inside
  <2>8. /\ \A u \in Holding' : i'[u] \in DataBlocks \ {start_block}
        /\ \A u, v \in Holding' : i'[u] = i'[v] => u = v
    BY <2>1, <2>4 DEF SerialInv
  <2>9. block_map' = block_map \ {i[t]}
    <3>1. i[t] >= start_block
      BY <2>2, Layout DEF SerialInv, DataBlocks
    <3> QED BY <2>1, <2>2, <3>1 DEF free_a_block
  <2>10. block_map' = InUse'
    <3>1. /\ i[t] \notin Metadata \cup {start_block}
      BY <2>2, Layout DEF SerialInv, DataBlocks, Metadata
    <3>2. \A u \in Holding \ {t} : i[u] # i[t]
      BY <2>2 DEF SerialInv
    <3> QED BY <1>0, <2>1, <2>2, <2>4, <2>9, <3>1, <3>2 DEF InUse
  <2> QED BY <2>5, <2>6, <2>7, <2>8, <2>10 DEF SerialInv
<1> QED BY <1>1, <1>2, <1>3, <1>4, <1>5, <1>6, <1>7 DEF Step

LEMMA SerialNextInv ==
  ASSUME SerialInv, [SerialNext]_vars
  PROVE  SerialInv'
<1>1. CASE SerialNext
  BY <1>1, SerialStep DEF SerialNext
<1>2. CASE UNCHANGED vars
  BY <1>2 DEF vars, SerialInv, TypeOK, Inside, Scanning, Holding, InUse
<1> QED BY <1>1, <1>2

LEMMA AlwaysSerial == SerialSpec => []SerialInv
<1>1. SerialInv /\ [SerialNext]_vars => SerialInv'
  BY SerialNextInv
<1> QED BY <1>1, SerialInit, PTL DEF SerialSpec

(* One handler after the other, no block is given twice, and between calls *)
(* the bitmap is exact.  So it is the threads of fuse_main alone that      *)
(* break "find and return a free block".                                   *)
THEOREM SerialAllocator == SerialSpec => [](GivenOnce /\ MapExact)
<1>1. SerialInv => GivenOnce
  BY DEF SerialInv, GivenOnce, Holding
<1>2. SerialInv => MapExact
  BY DEF SerialInv, MapExact, InUse
<1> QED BY <1>1, <1>2, AlwaysSerial, PTL

(* The loops of get_free_block and free_a_block implement the operators    *)
(* that the modules of the handlers use for them.                          *)
THEOREM LoopIsOperator == SerialSpec => AllocatesAtOnce
<1>1. ASSUME SerialInv, SerialNext
      PROVE  \/ \E t \in Threads : TakesFirstFree(t) \/ GivesBack(t)
             \/ UNCHANGED <<block_map, Held>>
  <2>1. PICK t \in Threads : Quiet \/ Takes(t) \/ Returns(t)
    BY <1>1, SerialStep DEF SerialNext
  <2>2. CASE Quiet
    BY <2>2 DEF Quiet, Held
  <2>3. CASE Takes(t)
    <3>1. Held[t] = 0
      BY <2>3 DEF Takes, Held
    <3>2. Held' = [Held EXCEPT ![t] = i[t]]
      BY <2>3 DEF Takes, Held
    <3> QED BY <2>3, <3>1, <3>2 DEF Takes, TakesFirstFree
  <2>4. CASE Returns(t)
    <3>1. Held[t] = i[t] /\ i[t] # 0
      BY <1>1, <2>4, Layout DEF Returns, Held, SerialInv, DataBlocks
    <3>2. Held' = [Held EXCEPT ![t] = 0]
      BY <2>4 DEF Returns, Held
    <3> QED BY <2>4, <3>1, <3>2 DEF Returns, GivesBack
  <2> QED BY <2>1, <2>2, <2>3, <2>4
<1>2. UNCHANGED vars => UNCHANGED <<block_map, Held>>
  BY DEF vars, Held, Holding
<1>3. SerialInv /\ [SerialNext]_vars
        => [\E t \in Threads : TakesFirstFree(t) \/ GivesBack(t)]_<<block_map, Held>>
  BY <1>1, <1>2
<1> QED BY <1>3, AlwaysSerial, PTL DEF SerialSpec, AllocatesAtOnce

(* get_free_block fails only when no block is free.                        *)
THEOREM LoopFailsWhenFull == SerialSpec => FailsWhenFull
<1>1. ASSUME SerialInv, NEW t \in Threads, no_space(t)
      PROVE  get_free_block(block_map) = -ENOSPC
  <2>1. pc[t] = "test" /\ i[t] = max_num_blocks
    BY <1>1 DEF no_space, Goto
  <2>2. start_block .. max_num_blocks - 1 \subseteq block_map
    BY <1>1, <2>1 DEF SerialInv, Scanning
  <2> QED BY <2>2, ScanFails
<1>2. SerialInv /\ [SerialNext]_vars
        => [\A t \in Threads : no_space(t) => get_free_block(block_map) = -ENOSPC]_vars
  BY <1>1
<1> QED BY <1>2, AlwaysSerial, PTL DEF SerialSpec, FailsWhenFull

=============================================================================
