----------------------------- MODULE ShellProofs -----------------------------
(***************************************************************************)
(* Proofs about the commands of the shell: they use the file handlers as   *)
(* the clients of FsFile do, and put tells whether it stored the file.     *)
(***************************************************************************)
EXTENDS Shell, FsFileProofs, SequenceTheorems

USE DEF ENOSPC

(* Files have one level of tables and are removed as well, and a piece is  *)
(* no more than a client writes at a time.                                 *)
OneLevelShell ==
    /\ OneLevel /\ "unlink" \in Calls
    /\ BlkSizes \subseteq 1 .. MaxLen

Command == [cmd : {"prompt", "put", "get", "got", "abort"}, f : Nat, n : 0 .. MaxSize,
            offset : 0 .. MaxSize, out : Seq(Nat)]

(* put has stored what it read so far, and in the call under way what      *)
(* fs_write counted; the call returns all of the piece, or an error.       *)
Putting ==
    sh.cmd = "put" =>
        /\ sh.f \in files /\ sh.offset <= sh.n
        /\ wr.stage # "abort"
        /\ wr.stage = "idle" => inodes[sh.f].size = sh.offset
        /\ wr.stage \in Active =>
              /\ wr.f = sh.f /\ wr.len + wr.total = Piece
              /\ inodes[sh.f].size = sh.offset + wr.total
        /\ wr.stage = "cleanup" =>
              \/ wr.total < 0
              \/ wr.total = Piece /\ inodes[sh.f].size = sh.offset + Piece

(* Only put writes, and the other commands are about files that exist.     *)
Elsewhere ==
    /\ sh.cmd # "put" => wr.stage = "idle"
    /\ sh.cmd \in {"get", "got", "abort"} => sh.f \in files

(* The inductive invariant.                                                *)
ShellInv ==
    /\ Inv
    /\ sh \in Command /\ blksiz \in BlkSizes
    /\ kept \in [Files -> {None} \cup 0 .. MaxSize]
    /\ Putting /\ Elsewhere /\ PutReportsLoss

-----------------------------------------------------------------------------
(* What a step of fs_write adds to its file is what it adds to the words   *)
(* written, until space runs out.                                          *)
Grown ==
    /\ wr'.f = wr.f /\ wr'.len + wr'.total = wr.len + wr.total
    /\ \A f \in files :
          inodes'[f].size = IF f = wr.f THEN inodes[f].size + (wr'.total - wr.total)
                                        ELSE inodes[f].size
    /\ wr'.stage = "cleanup" => wr'.len = 0
    /\ wr'.stage \notin {"idle", "abort"}

NoRoom == wr'.stage = "cleanup" /\ wr'.total < 0 /\ inodes' = inodes

LEMMA OnwardGrows ==
  ASSUME Typed, wr.stage \in Active, NEW ptr, NEW next \in WriteCall,
         SameData(next, Filling(ptr)), next.stage \in Active,
         wr' = Onward(ptr, next),
         \A f \in files :
            inodes'[f].size = IF f = wr.f THEN inodes[f].size + Chunk(ptr) ELSE inodes[f].size
  PROVE  Grown
<1>1. /\ wr.len \in Nat /\ wr.total \in Nat /\ Chunk(ptr) \in Nat
  <2>1. wr.len \in Nat /\ wr.total \in Nat
    <3>1. wr \in WriteCall /\ wr.total >= 0
      BY DEF Typed, TypeOK, WriteBounds
    <3> QED BY <3>1, Constants DEF WriteCall
  <2> QED BY <2>1, FillBounds
<1>2. /\ Filling(ptr) \in WriteCall
      /\ Filling(ptr).len = wr.len - Chunk(ptr) /\ Filling(ptr).total = wr.total + Chunk(ptr)
      /\ Filling(ptr).f = wr.f
  BY FillingBounds
<1>3. wr'.f = wr.f /\ wr'.len = wr.len - Chunk(ptr) /\ wr'.total = wr.total + Chunk(ptr)
      /\ (wr'.stage = "cleanup" => wr'.len = 0) /\ wr'.stage \notin {"idle", "abort"}
  <2>1. CASE Filling(ptr).len = 0
    <3>1. wr' = [Filling(ptr) EXCEPT !.stage = "cleanup"]
      BY <2>1 DEF Onward
    <3>2. /\ wr'.stage = "cleanup" /\ wr'.f = Filling(ptr).f
          /\ wr'.len = Filling(ptr).len /\ wr'.total = Filling(ptr).total
      BY <1>2, <3>1 DEF WriteCall
    <3> QED BY <1>2, <2>1, <3>2
  <2>2. CASE Filling(ptr).len # 0
    <3>1. wr' = next
      BY <2>2 DEF Onward
    <3> QED BY <1>2, <3>1 DEF SameData, Active
  <2> QED BY <2>1, <2>2
<1>4. wr'.total - wr.total = Chunk(ptr) /\ wr'.len + wr'.total = wr.len + wr.total
  BY <1>1, <1>3
<1> QED BY <1>3, <1>4 DEF Grown

LEMMA NoSpaceNoRoom ==
  ASSUME Typed, NEW ptr, NoSpace(ptr)
  PROVE  NoRoom
<1>1. wr \in WriteCall
  BY DEF Typed, TypeOK
<1>2. wr'.stage = "cleanup" /\ wr'.total = -ENOSPC /\ inodes' = inodes
  BY <1>1 DEF NoSpace, WriteCall
<1> QED BY <1>2 DEF NoRoom, ENOSPC

LEMMA DirectGrows ==
  ASSUME Typed, write_direct
  PROVE  Grown \/ NoRoom
<1> DEFINE ptr  == inodes[wr.f].direct[wr.i]
           next == Reset(Filling(ptr), ptr)
           on   == IF wr.i + 1 < N_DIRECT THEN [next EXCEPT !.i = @ + 1] ELSE ToLevel1(next)
<1>1. wr.stage = "direct" /\ wr.stage \in Active
  BY DEF write_direct, Active, Stages
<1>2. CASE NoSpace(ptr)
  BY <1>2, NoSpaceNoRoom
<1>3. CASE ~NoSpace(ptr)
  <2>1. wr' = Onward(ptr, on)
    BY <1>3 DEF write_direct
  <2>2. inodes' = [inodes EXCEPT ![wr.f].direct[wr.i] = Target(ptr),
                                 ![wr.f].size = inodes[wr.f].size + Chunk(ptr)]
    <3> HIDE DEF ptr
    <3>1. ptr = inodes[wr.f].direct[wr.i]
      BY DEF ptr
    <3> QED BY <1>3, <3>1, DirectLocals
  <2>3. /\ next \in WriteCall /\ SameData(next, Filling(ptr))
        /\ next.stage = "direct" /\ next.i = wr.i
    BY <1>1, FillingBounds, ResetLocals
  <2> HIDE DEF next
  <2>4. on \in WriteCall /\ SameData(on, Filling(ptr)) /\ on.stage \in Active
    <3>1. CASE wr.i + 1 < N_DIRECT
      <4>1. on = [next EXCEPT !.i = wr.i + 1]
        BY <2>3, <3>1
      <4>2. wr.i + 1 \in 0 .. ADDR_PER_BLOCK + N_DIRECT
        BY <1>1, <3>1, InCall, Constants DEF Words
      <4> HIDE DEF on
      <4>3. on \in WriteCall /\ on.stage = next.stage /\ SameData(on, next)
        BY <2>3, <4>1, <4>2 DEF WriteCall, SameData
      <4> QED BY <1>1, <2>3, <4>3 DEF SameData
    <3>2. CASE ~(wr.i + 1 < N_DIRECT)
      <4>1. on = ToLevel1(next)
        BY <3>2
      <4> HIDE DEF on
      <4>2. on \in WriteCall /\ on.stage = "table1" /\ SameData(on, next)
        BY <2>3, <4>1, LevelLocals
      <4> QED BY <2>3, <4>2 DEF SameData, Active, Stages
    <3> QED BY <3>1, <3>2
  <2>5. \A f \in files :
          inodes'[f].size = IF f = wr.f THEN inodes[f].size + Chunk(ptr) ELSE inodes[f].size
    <3>1. inodes \in [Files -> Inode] /\ files \subseteq Files
      BY DEF Typed, TypeOK
    <3> HIDE DEF ptr
    <3> QED BY <2>2, <3>1 DEF Inode
  <2> HIDE DEF on, ptr
  <2> QED BY <1>1, <2>1, <2>4, <2>5, OnwardGrows
<1> QED BY <1>2, <1>3

LEMMA Level1Grows ==
  ASSUME Typed, write_level1, wr'.stage # "abort"
  PROVE  Grown \/ NoRoom
<1> DEFINE ptr  == blocks[inodes[wr.f].indir_1][wr.i]
           next == Reset(Filling(ptr), ptr)
           on   == IF wr.i + 1 < ADDR_PER_BLOCK THEN [next EXCEPT !.i = @ + 1]
                   ELSE ToLevel2(next)
<1>0. wr \in WriteCall
  BY DEF Typed, TypeOK
<1>1. wr.stage = "level1" /\ wr.stage \in Active
  BY DEF write_level1, Active, Stages
<1>2. CASE NoSpace(ptr)
  BY <1>2, NoSpaceNoRoom
<1>3. CASE ~NoSpace(ptr)
  <2>0. ~Abort(ptr)
    BY <1>0 DEF Abort, WriteCall
  <2>1. wr' = Onward(ptr, on)
    BY <1>3, <2>0 DEF write_level1
  <2>2. inodes' = [inodes EXCEPT ![wr.f].size = inodes[wr.f].size + Chunk(ptr)]
    <3> HIDE DEF ptr
    <3>1. ptr = blocks[inodes[wr.f].indir_1][wr.i]
      BY DEF ptr
    <3> QED BY <1>3, <2>0, <3>1, Level1Locals
  <2>3. /\ next \in WriteCall /\ SameData(next, Filling(ptr))
        /\ next.stage = "level1" /\ next.i = wr.i
    BY <1>1, FillingBounds, ResetLocals
  <2> HIDE DEF next
  <2>4. on \in WriteCall /\ SameData(on, Filling(ptr)) /\ on.stage \in Active
    <3>1. CASE wr.i + 1 < ADDR_PER_BLOCK
      <4>1. on = [next EXCEPT !.i = wr.i + 1]
        BY <2>3, <3>1
      <4>2. wr.i + 1 \in 0 .. ADDR_PER_BLOCK + N_DIRECT
        BY <1>1, <3>1, InCall, Constants DEF Words
      <4> HIDE DEF on
      <4>3. on \in WriteCall /\ on.stage = next.stage /\ SameData(on, next)
        BY <2>3, <4>1, <4>2 DEF WriteCall, SameData
      <4> QED BY <1>1, <2>3, <4>3 DEF SameData
    <3>2. CASE ~(wr.i + 1 < ADDR_PER_BLOCK)
      <4>1. on = ToLevel2(next)
        BY <3>2
      <4> HIDE DEF on
      <4>2. on \in WriteCall /\ on.stage = "table2" /\ SameData(on, next)
        BY <2>3, <4>1, LevelLocals
      <4> QED BY <2>3, <4>2 DEF SameData, Active, Stages
    <3> QED BY <3>1, <3>2
  <2>5. \A f \in files :
          inodes'[f].size = IF f = wr.f THEN inodes[f].size + Chunk(ptr) ELSE inodes[f].size
    <3>1. inodes \in [Files -> Inode] /\ files \subseteq Files
      BY DEF Typed, TypeOK
    <3> HIDE DEF ptr
    <3> QED BY <2>2, <3>1 DEF Inode
  <2> HIDE DEF on, ptr
  <2> QED BY <1>1, <2>1, <2>4, <2>5, OnwardGrows
<1> QED BY <1>2, <1>3

LEMMA Table1Grows ==
  ASSUME Typed, write_table1
  PROVE  Grown \/ NoRoom
<1> DEFINE ptr == inodes[wr.f].indir_1
<1>0. /\ wr \in WriteCall /\ inodes \in [Files -> Inode] /\ files \subseteq Files
      /\ wr.stage = "table1" /\ wr.stage \in Active
  BY DEF Typed, TypeOK, write_table1, Active, Stages
<1>1. CASE NoSpace(ptr)
  BY <1>1, NoSpaceNoRoom
<1>2. CASE ~NoSpace(ptr)
  <2>1. /\ inodes' = [inodes EXCEPT ![wr.f].indir_1 = Target(ptr)]
        /\ wr' = [wr EXCEPT !.stage = "level1"]
    BY <1>2 DEF write_table1
  <2>2. \A f \in files : inodes'[f].size = inodes[f].size /\ inodes[f].size \in Nat
    BY <1>0, <2>1, Constants DEF Inode
  <2>3. wr'.f = wr.f /\ wr'.len = wr.len /\ wr'.total = wr.total /\ wr'.stage = "level1"
    BY <1>0, <2>1 DEF WriteCall
  <2>4. wr.total \in Int
    BY <1>0, Constants DEF WriteCall
  <2> QED BY <2>2, <2>3, <2>4 DEF Grown
<1> QED BY <1>1, <1>2

(* Every step but the return of a call in a file with one level of tables. *)
LEMMA StepGrows ==
  ASSUME Inv, OneLevel, WriteStep, ~write_return
  PROVE  (Grown \/ NoRoom) /\ files' = files
<1>0. Typed /\ wr.stage \notin {"table2", "outer", "inner"}
  BY DEF Inv, Shallow
<1>1. write_direct \/ write_table1 \/ write_level1
  BY <1>0 DEF WriteStep, write_table2, write_outer, write_inner
<1>2. wr'.stage # "abort" /\ files' = files
  <2>1. Quiet \/ Onwards
    BY StepCases
  <2> QED BY <2>1 DEF Quiet, Onwards, Takes
<1> QED BY <1>0, <1>1, <1>2, DirectGrows, Table1Grows, Level1Grows

-----------------------------------------------------------------------------
(* Steps of the commands.                                                  *)

LEMMA InvParts ==
  ASSUME ShellInv
  PROVE  /\ wr \in WriteCall /\ inodes \in [Files -> Inode] /\ files \subseteq Files
         /\ Files \subseteq Nat
         /\ \A f \in files : inodes[f].size \in 0 .. MaxSize /\ inodes[f].size \in Nat
         /\ sh \in Command /\ sh.n \in Nat /\ sh.offset \in Nat /\ sh.n <= MaxSize
         /\ blksiz \in Nat /\ blksiz > 0 /\ MaxSize \in Nat
<1>1. /\ wr \in WriteCall /\ inodes \in [Files -> Inode] /\ files \subseteq Files
      /\ Files \subseteq Nat
  BY FileAssumption DEF ShellInv, Inv, Typed, TypeOK
<1>2. \A f \in files : inodes[f].size \in 0 .. MaxSize
  BY <1>1 DEF Inode
<1>3. /\ sh \in Command /\ sh.n \in 0 .. MaxSize /\ sh.offset \in 0 .. MaxSize
      /\ blksiz \in BlkSizes
  BY DEF ShellInv, Command
<1> QED BY <1>1, <1>2, <1>3, ShellAssumption, Constants

(* The next piece: empty at the end of the file only.                      *)
LEMMA PieceBounds ==
  ASSUME ShellInv, sh.cmd = "put"
  PROVE  /\ Piece \in Nat /\ Piece <= blksiz /\ sh.offset + Piece <= sh.n
         /\ Piece = 0 => sh.offset = sh.n
<1>1. /\ sh.n \in Nat /\ sh.offset \in Nat /\ sh.offset <= sh.n
      /\ blksiz \in Nat /\ blksiz > 0
  BY InvParts DEF ShellInv, Putting
<1>2. {blksiz, sh.n - sh.offset} \subseteq Nat
  BY <1>1
<1>3. /\ Piece \in {blksiz, sh.n - sh.offset}
      /\ Piece <= blksiz /\ Piece <= sh.n - sh.offset
  BY <1>2, MinNat DEF Piece
<1> QED BY <1>1, <1>3

LEMMA Prompts == Prompt \in Command /\ Prompt.cmd = "prompt"
<1>1. 0 \in 0 .. MaxSize /\ <<>> \in Seq(Nat)
  BY Constants
<1> QED BY <1>1 DEF Prompt, Command

(* What the commands do to the files, clients of FsFile do.                *)
LEMMA ShellClient ==
  ASSUME OneLevelShell, ShellInv, [ShellNext]_shellVars
  PROVE  [Next]_vars
<1>1. ASSUME NEW f \in Files, NEW n, do_put(f, n) PROVE Next
  BY <1>1 DEF do_put, OneLevelShell, Removable, Next
<1>2. CASE put_write
  <2>1. /\ sh.cmd = "put" /\ Piece > 0 /\ fs_write(sh.f, Piece, sh.offset)
        /\ wr.stage = "idle"
    BY <1>2 DEF put_write, fs_write
  <2>2. sh.f \in files /\ inodes[sh.f].size = sh.offset
    BY <2>1 DEF ShellInv, Putting
  <2>3. Piece \in 1 .. MaxLen /\ inodes[sh.f].size + Piece <= MaxSize
    <3>1. blksiz \in 1 .. MaxLen
      BY DEF ShellInv, OneLevelShell
    <3> QED BY <2>1, <2>2, <3>1, PieceBounds, InvParts, Constants
  <2>4. fs_write(sh.f, Piece, inodes[sh.f].size)
    BY <2>1, <2>2
  <2> QED BY <2>2, <2>3, <2>4 DEF Next, Write
<1>3. CASE write_step
  BY <1>3 DEF write_step, Next
<1>4. CASE put_return
  BY <1>4 DEF put_return, WriteStep, Next
<1>5. CASE put_end \/ get_read \/ get_abort \/ get_end
  BY <1>5 DEF put_end, get_read, get_abort, get_end, files_vars
<1>6. ASSUME NEW f, do_get(f) PROVE UNCHANGED vars
  BY <1>6 DEF do_get, files_vars
<1>7. ASSUME NEW f \in Files, do_rm(f) PROVE Next
  BY <1>7 DEF do_rm, OneLevelShell, Removable, Next
<1>8. ASSUME NEW f, do_truncate(f) PROVE Next
  BY <1>8 DEF do_truncate, Next
<1>9. ASSUME NEW size, do_blksiz(size) PROVE UNCHANGED vars
  BY <1>9 DEF do_blksiz, files_vars
<1>10. CASE main
  BY <1>10 DEF main, files_vars
<1>11. CASE UNCHANGED shellVars
  BY <1>11 DEF shellVars, files_vars
<1> QED BY <1>1, <1>2, <1>3, <1>4, <1>5, <1>6, <1>7, <1>8, <1>9, <1>10, <1>11
        DEF ShellNext, CommandStep

(* put: the piece is given to fs_write, which stores it step by step.      *)
LEMMA PutWriteInv ==
  ASSUME OneLevelShell, ShellInv, put_write, Inv'
  PROVE  ShellInv'
<1>1. /\ sh.cmd = "put" /\ Piece > 0 /\ fs_write(sh.f, Piece, sh.offset)
      /\ UNCHANGED <<sh, blksiz, kept, inodes, files>> /\ wr.stage = "idle"
  BY DEF put_write, fs_write
<1>2. sh.f \in files /\ sh.offset <= sh.n /\ inodes[sh.f].size = sh.offset
  BY <1>1 DEF ShellInv, Putting
<1>3. Called(sh.f, Piece, sh.offset) \in WriteCall
  <2>1. sh.f \in Nat /\ Piece \in 0 .. MaxLen /\ sh.offset \in 0 .. MaxSize
    <3>1. blksiz \in 1 .. MaxLen
      BY DEF ShellInv, OneLevelShell
    <3>2. sh.f \in Nat /\ sh.offset \in 0 .. MaxSize
      BY DEF ShellInv, Command
    <3> QED BY <1>1, <3>1, <3>2, PieceBounds, Constants
  <2> QED BY <2>1, IdleCall DEF Called, WriteCall
<1>4. wr'.stage \in {"direct", "table1", "table2"}
  BY <1>1, <1>3, EntryStage
<1>5. wr'.f = sh.f /\ wr'.len = Piece /\ wr'.total = 0
  <2> DEFINE w == Called(sh.f, Piece, sh.offset)
             m == (sh.offset \div ADDR_PER_BLOCK) - INDIRECT_BOUND
  <2>1. w.f = sh.f /\ w.len = Piece /\ w.total = 0
    BY DEF Called, Idle
  <2>2. \/ \E i : wr' = [w EXCEPT !.stage = "direct", !.i = i]
        \/ \E i : wr' = [w EXCEPT !.stage = "table1", !.i = i]
        \/ \E i, j : wr' = [w EXCEPT !.stage = "table2", !.i = i, !.j = j]
        \/ wr' = ToLevel1(w)
    <3>1. \/ wr' = [w EXCEPT !.stage = "direct", !.i = sh.offset \div ADDR_PER_BLOCK]
          \/ wr' = [w EXCEPT !.stage = "table1", !.i = (sh.offset \div ADDR_PER_BLOCK) - N_DIRECT]
          \/ wr' = [w EXCEPT !.stage = "table2", !.i = m \div ADDR_PER_BLOCK,
                                                 !.j = m % ADDR_PER_BLOCK]
          \/ wr' = ToLevel1(w)
      BY <1>1 DEF fs_write, Called
    <3> HIDE DEF w, m
    <3> QED BY <3>1
  <2>3. w \in WriteCall
    BY <1>3
  <2> HIDE DEF w
  <2> QED BY <2>1, <2>2, <2>3 DEF WriteCall, ToLevel1
<1>6. Putting'
  <2>1. Piece' = Piece /\ Piece \in Nat
    BY <1>1, PieceBounds DEF Piece
  <2>2. sh.offset \in Nat
    BY InvParts
  <2> QED BY <1>1, <1>2, <1>4, <1>5, <2>1, <2>2 DEF Putting
<1> QED BY <1>1, <1>6 DEF ShellInv, Elsewhere, PutReportsLoss

LEMMA WriteStepInv ==
  ASSUME OneLevelShell, ShellInv, write_step, Inv'
  PROVE  ShellInv'
<1>1. WriteStep /\ ~write_return /\ UNCHANGED <<sh, blksiz, kept>> /\ OneLevel
  BY DEF write_step, OneLevelShell
<1>2. (Grown \/ NoRoom) /\ files' = files
  BY <1>1, StepGrows DEF ShellInv
<1>3. wr.stage \in Active /\ wr.stage \in Stages
  BY <1>1, InvParts DEF WriteStep, write_direct, write_table1, write_level1, write_table2,
         write_outer, write_inner, Active, Stages, WriteCall
<1>4. sh.cmd = "put"
  BY <1>3 DEF ShellInv, Elsewhere, Active
<1>5. /\ sh.f \in files /\ sh.offset <= sh.n /\ wr.f = sh.f
      /\ wr.len + wr.total = Piece /\ inodes[sh.f].size = sh.offset + wr.total
  BY <1>3, <1>4 DEF ShellInv, Putting
<1>6. Piece' = Piece
  BY <1>1 DEF Piece
<1>7. /\ wr.total \in Nat /\ wr.len \in Nat /\ sh.offset \in Nat
      /\ wr'.total \in Int /\ wr'.len \in Int
  BY <1>3, InvParts, Constants DEF ShellInv, Inv, Typed, TypeOK, WriteBounds, WriteCall, ENOSPC
<1>8. CASE Grown
  <2>1. wr'.f = sh.f /\ wr'.len + wr'.total = Piece
        /\ inodes'[sh.f].size = sh.offset + wr'.total
    BY <1>5, <1>7, <1>8 DEF Grown
  <2>2. Putting'
    BY <1>1, <1>2, <1>5, <1>6, <1>7, <1>8, <2>1 DEF Putting, Grown
  <2>3. \A f \in files : f # sh.f => inodes'[f].size = inodes[f].size
    BY <1>5, <1>8 DEF Grown
  <2>4. PutReportsLoss'
    BY <1>1, <1>2, <1>4, <2>3 DEF ShellInv, PutReportsLoss
  <2> QED BY <1>1, <1>2, <1>4, <2>2, <2>4 DEF ShellInv, Elsewhere
<1>9. CASE NoRoom
  <2>1. Putting'
    BY <1>1, <1>2, <1>5, <1>9 DEF Putting, NoRoom, Active
  <2>2. PutReportsLoss'
    BY <1>1, <1>2, <1>9 DEF ShellInv, PutReportsLoss, NoRoom
  <2> QED BY <1>1, <1>2, <1>4, <2>1, <2>2 DEF ShellInv, Elsewhere
<1> QED BY <1>2, <1>8, <1>9

(* The call returns all of the piece, and put goes on, or an error, which  *)
(* put returns.                                                            *)
LEMMA PutReturnInv ==
  ASSUME OneLevelShell, ShellInv, put_return, Inv'
  PROVE  ShellInv'
<1>1. /\ sh.cmd = "put" /\ wr.stage = "cleanup"
      /\ wr' = Idle /\ UNCHANGED <<inodes, files, blksiz>>
  BY DEF put_return, write_return
<1>2. /\ sh.f \in files /\ sh.offset <= sh.n
      /\ \/ wr.total < 0
         \/ wr.total = Piece /\ inodes[sh.f].size = sh.offset + Piece
  BY <1>1 DEF ShellInv, Putting
<1>3. /\ Piece \in Nat /\ sh.offset + Piece <= sh.n
      /\ sh.offset \in Nat /\ sh.n \in Nat /\ sh \in Command /\ sh.n <= MaxSize /\ MaxSize \in Nat
  BY <1>1, PieceBounds, InvParts
<1>4. wr'.stage = "idle"
  BY <1>1, IdleCall
<1>5. CASE wr.total = Piece
  <2>1. sh' = [sh EXCEPT !.offset = sh.offset + Piece] /\ kept' = kept
    BY <1>5 DEF put_return
  <2>2. inodes[sh.f].size = sh.offset + Piece
    BY <1>2, <1>3, <1>5
  <2>3. /\ sh' \in Command /\ sh'.cmd = "put" /\ sh'.f = sh.f /\ sh'.n = sh.n
        /\ sh'.offset = sh.offset + Piece
    <3>1. sh.offset + Piece \in 0 .. MaxSize
      BY <1>3
    <3> QED BY <1>1, <1>3, <2>1, <3>1 DEF Command
  <2>4. Putting'
    BY <1>1, <1>2, <1>3, <1>4, <2>2, <2>3 DEF Putting, Active
  <2>5. PutReportsLoss'
    BY <1>1, <2>1, <2>3 DEF ShellInv, PutReportsLoss
  <2> QED BY <1>1, <2>1, <2>3, <2>4, <2>5 DEF ShellInv, Elsewhere
<1>6. CASE wr.total # Piece
  <2>1. sh' = Prompt
        /\ kept' = [kept EXCEPT ![sh.f] = IF PutResult(wr.total) = 0 THEN sh.n ELSE None]
    BY <1>6 DEF put_return
  <2>2. wr.total < 0 /\ wr.total \in Int
    BY <1>2, <1>6, InvParts DEF WriteCall, ENOSPC
  <2>3. PutResult(wr.total) # 0
    BY <2>2 DEF PutResult
  <2>4. kept' = [kept EXCEPT ![sh.f] = None]
    BY <2>1, <2>3
  <2>5. kept \in [Files -> {None} \cup 0 .. MaxSize] /\ kept' \in [Files -> {None} \cup 0 .. MaxSize]
    BY <2>4 DEF ShellInv
  <2>6. sh' \in Command /\ sh'.cmd = "prompt"
    BY <2>1, Prompts
  <2>7. PutReportsLoss'
    BY <1>1, <2>4, <2>5, <2>6, InvParts DEF ShellInv, PutReportsLoss
  <2> QED BY <1>1, <1>4, <2>5, <2>6, <2>7 DEF ShellInv, Putting, Elsewhere
<1> QED BY <1>5, <1>6

LEMMA PutEndInv ==
  ASSUME OneLevelShell, ShellInv, put_end, Inv'
  PROVE  ShellInv'
<1>1. /\ sh.cmd = "put" /\ wr.stage = "idle" /\ Piece = 0
      /\ sh' = Prompt /\ kept' = [kept EXCEPT ![sh.f] = sh.n]
      /\ UNCHANGED <<inodes, files, blksiz, wr>>
  BY DEF put_end, files_vars, vars
<1>2. sh.f \in files /\ inodes[sh.f].size = sh.n
  BY <1>1, PieceBounds DEF ShellInv, Putting
<1>3. kept \in [Files -> {None} \cup 0 .. MaxSize] /\ kept' \in [Files -> {None} \cup 0 .. MaxSize]
  BY <1>1 DEF ShellInv, Command
<1>4. sh' \in Command /\ sh'.cmd = "prompt"
  BY <1>1, Prompts
<1>5. PutReportsLoss'
  BY <1>1, <1>2, <1>3, <1>4, InvParts DEF ShellInv, PutReportsLoss
<1> QED BY <1>1, <1>3, <1>4, <1>5 DEF ShellInv, Putting, Elsewhere

(* get changes nothing but its own variables.                              *)
LEMMA ReadLength ==
  ASSUME NEW f, NEW len \in Nat, NEW offset \in 0 .. MaxSize, inodes[f].size \in 0 .. MaxSize,
         blocks \in [Blocks -> [Words -> Nat]]
  PROVE  /\ fs_read(f, len, offset) \in Seq(Nat)
         /\ offset + Len(fs_read(f, len, offset)) \in 0 .. MaxSize
<1> DEFINE end == ReadEnd(f, len, offset)
<1>0. MaxSize \in Nat
  BY Constants
<1>1. end \in 0 .. MaxSize /\ offset <= end
  <2>1. CASE offset < inodes[f].size
    <3>1. {inodes[f].size, offset + len} \subseteq Nat
      BY <1>0
    <3>2. /\ end \in {inodes[f].size, offset + len}
          /\ end <= inodes[f].size /\ end <= offset + len
      BY <2>1, <3>1, MinNat DEF ReadEnd
    <3> QED BY <1>0, <2>1, <3>2
  <2>2. CASE ~(offset < inodes[f].size)
    BY <1>0, <2>2 DEF ReadEnd
  <2> QED BY <2>1, <2>2
<1> HIDE DEF end
<1>2. ASSUME NEW n \in 1 .. end - offset
      PROVE  LET pos == offset + n - 1
             IN  WordOf(BlockOf(inodes[f], pos \div ADDR_PER_BLOCK), pos % ADDR_PER_BLOCK) \in Nat
  <2> DEFINE pos == offset + n - 1
  <2>1. pos % ADDR_PER_BLOCK \in Words
    <3>1. pos \in Nat
      BY <1>0, <1>1
    <3> HIDE DEF pos
    <3> QED BY <3>1, Constants DEF Words
  <2> HIDE DEF pos
  <2>2. \A b : WordOf(b, pos % ADDR_PER_BLOCK) \in Nat
    BY <2>1 DEF WordOf
  <2> USE DEF pos
  <2> QED BY <2>2
<1>3. fs_read(f, len, offset) \in [1 .. end - offset -> Nat]
  BY <1>2 DEF fs_read, end
<1>4. end - offset \in Nat
  BY <1>0, <1>1
<1>5. fs_read(f, len, offset) \in Seq(Nat) /\ Len(fs_read(f, len, offset)) = end - offset
  <2>1. PICK s : s = fs_read(f, len, offset)
    OBVIOUS
  <2>2. PICK m \in Nat : m = end - offset
    BY <1>4
  <2> QED BY <1>3, <2>1, <2>2
<1> QED BY <1>0, <1>1, <1>5

LEMMA GetInv ==
  ASSUME ShellInv, sh' \in Command, sh'.cmd # "put", sh.cmd # "put",
         sh'.cmd = "prompt" \/ sh'.f \in files,
         UNCHANGED vars, blksiz' \in BlkSizes, kept' = kept
  PROVE  ShellInv'
<1>1. UNCHANGED <<block_map, inodes, blocks, files, wr>>
  BY DEF vars
<1>2. Inv'
  BY <1>1 DEF ShellInv, Inv, Typed, TypeOK, WriteBounds, MapSound, Linked, Clean, OnlyWritten, OneLevel,
              Shallow, Backed, Appending, BlockAt
<1> QED BY <1>1, <1>2 DEF ShellInv, Putting, Elsewhere, PutReportsLoss

LEMMA GetsInv ==
  ASSUME ShellInv, sh.cmd # "put",
         \/ get_read \/ get_abort \/ get_end \/ main
         \/ \E f \in Files : do_get(f)
         \/ \E size \in BlkSizes : do_blksiz(size)
  PROVE  ShellInv'
<1>0. sh \in Command /\ blksiz \in BlkSizes
  BY DEF ShellInv
<1>1. CASE get_read
  <2> DEFINE words == fs_read(sh.f, blksiz, sh.offset)
  <2>1. /\ sh.cmd = "get" /\ UNCHANGED vars /\ blksiz' = blksiz /\ kept' = kept
        /\ sh' = [sh EXCEPT !.cmd = IF words = <<>> THEN "got" ELSE "get",
                            !.offset = sh.offset + Len(words), !.out = sh.out \o words]
    BY <1>1 DEF get_read, files_vars
  <2>2. words \in Seq(Nat) /\ sh.offset + Len(words) \in 0 .. MaxSize
    <3>1. sh.f \in files
      BY <2>1 DEF ShellInv, Elsewhere
    <3>2. blksiz \in Nat /\ sh.offset \in 0 .. MaxSize /\ inodes[sh.f].size \in 0 .. MaxSize
      BY <1>0, <3>1, InvParts DEF Command
    <3>3. blocks \in [Blocks -> [Words -> Nat]]
      BY DEF ShellInv, Inv, Typed, TypeOK
    <3> QED BY <3>2, <3>3, ReadLength
  <2> HIDE DEF words
  <2>3. sh.out \o words \in Seq(Nat)
    BY <1>0, <2>2 DEF Command
  <2>4. sh' \in Command /\ sh'.cmd \in {"got", "get"} /\ sh'.f = sh.f
    BY <1>0, <2>1, <2>2, <2>3 DEF Command
  <2> QED BY <1>0, <2>1, <2>4, GetInv DEF ShellInv, Elsewhere
<1>2. CASE get_abort
  <2>1. /\ sh.cmd = "get" /\ UNCHANGED vars /\ blksiz' = blksiz /\ kept' = kept
        /\ sh' = [sh EXCEPT !.cmd = "abort"]
    BY <1>2 DEF get_abort, files_vars
  <2>2. sh' \in Command /\ sh'.cmd = "abort" /\ sh'.f = sh.f
    BY <1>0, <2>1 DEF Command
  <2> QED BY <1>0, <2>1, <2>2, GetInv DEF ShellInv, Elsewhere
<1>3. CASE get_end \/ main
  <2>1. UNCHANGED vars /\ blksiz' \in BlkSizes /\ kept' = kept /\ sh' = Prompt
    BY <1>0, <1>3 DEF get_end, main, files_vars
  <2> QED BY <2>1, Prompts, GetInv
<1>4. ASSUME NEW f \in Files, do_get(f) PROVE ShellInv'
  <2>1. /\ f \in files /\ UNCHANGED vars /\ blksiz' = blksiz /\ kept' = kept
        /\ sh' = [Prompt EXCEPT !.cmd = "get", !.f = f]
    BY <1>4 DEF do_get, files_vars
  <2>2. sh' \in Command /\ sh'.cmd = "get" /\ sh'.f = f
    <3>1. f \in Nat /\ 0 \in 0 .. MaxSize /\ <<>> \in Seq(Nat)
      BY FileAssumption, Constants
    <3> QED BY <2>1, <3>1 DEF Prompt, Command
  <2> QED BY <1>0, <2>1, <2>2, GetInv
<1>5. ASSUME NEW size \in BlkSizes, do_blksiz(size) PROVE ShellInv'
  <2>1. UNCHANGED vars /\ blksiz' = size /\ kept' = kept /\ sh' = sh /\ sh.cmd = "prompt"
    BY <1>5 DEF do_blksiz, files_vars
  <2> QED BY <1>0, <2>1, GetInv
<1> QED BY <1>1, <1>2, <1>3, <1>4, <1>5

(* The commands that create, empty or remove a file.                       *)
LEMMA DoPutInv ==
  ASSUME ShellInv, NEW f \in Files, NEW n \in 0 .. MaxSize, do_put(f, n), Inv'
  PROVE  ShellInv'
<1>1. /\ sh.cmd = "prompt" /\ wr.stage = "idle" /\ wr' = wr
      /\ files' = files \cup {f} /\ f \notin files
      /\ inodes' = [inodes EXCEPT ![f] = ZeroInode]
      /\ sh' = [Prompt EXCEPT !.cmd = "put", !.f = f, !.n = n]
      /\ blksiz' = blksiz /\ kept' = kept
  BY DEF do_put, fs_mknod
<1>2. /\ sh' \in Command /\ sh'.cmd = "put" /\ sh'.f = f /\ sh'.n = n /\ sh'.offset = 0
  <2>1. f \in Nat /\ 0 \in 0 .. MaxSize /\ <<>> \in Seq(Nat)
    BY FileAssumption, Constants
  <2> QED BY <1>1, <2>1 DEF Prompt, Command
<1>3. inodes'[f].size = 0 /\ \A g \in files : inodes'[g] = inodes[g]
  BY <1>1, InvParts DEF ZeroInode
<1>4. Putting'
  BY <1>1, <1>2, <1>3 DEF Putting, Active
<1>5. PutReportsLoss'
  BY <1>1, <1>2, <1>3 DEF ShellInv, PutReportsLoss
<1> QED BY <1>1, <1>2, <1>4, <1>5 DEF ShellInv, Elsewhere

LEMMA RemovalInv ==
  ASSUME ShellInv, NEW f \in Files, do_rm(f) \/ do_truncate(f), Inv'
  PROVE  ShellInv'
<1>1. /\ sh.cmd = "prompt" /\ wr.stage = "idle" /\ wr' = wr /\ f \in files
      /\ inodes' = [inodes EXCEPT ![f] = Truncated(inodes[f])]
      /\ sh' = sh /\ blksiz' = blksiz
      /\ \/ files' = files \ {f} /\ kept' = [kept EXCEPT ![f] = None]
         \/ files' = files /\ kept' = [kept EXCEPT ![f] = 0]
  BY DEF do_rm, do_truncate, fs_unlink, fs_truncate, truncate
<1>2. kept \in [Files -> {None} \cup 0 .. MaxSize] /\ kept' \in [Files -> {None} \cup 0 .. MaxSize]
  <2>1. 0 \in 0 .. MaxSize
    BY Constants
  <2> QED BY <1>1, <2>1 DEF ShellInv
<1>3. inodes'[f].size = 0 /\ \A g \in files \ {f} : inodes'[g] = inodes[g]
  <2>1. inodes \in [Files -> Inode] /\ inodes[f] \in Inode
    BY InvParts
  <2>2. Truncated(inodes[f]).size = 0
    BY <2>1 DEF Truncated, Inode
  <2> QED BY <1>1, <2>1, <2>2, InvParts
<1>4. PutReportsLoss'
  BY <1>1, <1>2, <1>3, InvParts DEF ShellInv, PutReportsLoss
<1> QED BY <1>1, <1>2, <1>4 DEF ShellInv, Putting, Elsewhere

-----------------------------------------------------------------------------
LEMMA ShellInitInv == ShellInit => ShellInv
<1> SUFFICES ASSUME ShellInit PROVE ShellInv
  OBVIOUS
<1>1. Inv
  BY InitInv DEF ShellInit
<1>2. /\ sh = Prompt /\ wr = Idle /\ kept = [f \in Files |-> 0] /\ blksiz \in BlkSizes
      /\ inodes = [f \in Files |-> ZeroInode] /\ files = Files
  BY DEF ShellInit, Init
<1>3. kept \in [Files -> {None} \cup 0 .. MaxSize]
  BY <1>2, Constants
<1>4. PutReportsLoss
  BY <1>2 DEF PutReportsLoss, ZeroInode
<1> QED BY <1>1, <1>2, <1>3, <1>4, Prompts, IdleCall DEF ShellInv, Putting, Elsewhere

LEMMA ShellNextInv ==
  ASSUME OneLevelShell, ShellInv, [ShellNext]_shellVars
  PROVE  ShellInv'
<1>1. Inv'
  BY ShellClient, NextInv DEF ShellInv, OneLevelShell
<1>2. CASE put_write \/ write_step \/ put_return \/ put_end
  BY <1>1, <1>2, PutWriteInv, WriteStepInv, PutReturnInv, PutEndInv
<1>3. CASE \/ get_read \/ get_abort \/ get_end \/ main
           \/ \E f \in Files : do_get(f)
           \/ \E size \in BlkSizes : do_blksiz(size)
  <2>1. sh.cmd # "put"
    BY <1>3 DEF get_read, get_abort, get_end, main, do_get, do_blksiz
  <2> QED BY <1>3, <2>1, GetsInv
<1>4. ASSUME NEW f \in Files,
             do_rm(f) \/ do_truncate(f) \/ \E n \in 0 .. MaxSize : do_put(f, n)
      PROVE  ShellInv'
  BY <1>1, <1>4, DoPutInv, RemovalInv
<1>5. CASE UNCHANGED shellVars
  BY <1>1, <1>5 DEF shellVars, files_vars, vars, ShellInv, Putting, Elsewhere, PutReportsLoss,
                    Piece
<1> QED BY <1>2, <1>3, <1>4, <1>5 DEF ShellNext, CommandStep

LEMMA AlwaysShellInv ==
  ASSUME OneLevelShell
  PROVE  ShellSpec => []ShellInv
<1>1. ShellInit => ShellInv
  BY ShellInitInv
<1>2. ShellInv /\ [ShellNext]_shellVars => ShellInv'
  BY ShellNextInv
<1> QED BY <1>1, <1>2, PTL DEF ShellSpec

(* The commands of the shell use the file handlers as the clients of       *)
(* FsFile do: do_put appends each piece where the file ends.  So what is   *)
(* proved of the steps of those clients holds under the shell.             *)
THEOREM CommandsAreClients ==
  ASSUME OneLevelShell
  PROVE  ShellSpec => Init /\ [][Next]_vars
<1>1. ShellInit => Init
  BY DEF ShellInit
<1>2. ShellInv /\ [ShellNext]_shellVars => [Next]_vars
  BY ShellClient
<1> QED BY <1>1, <1>2, AlwaysShellInv, PTL DEF ShellSpec

(* The local variables of the commands stay in their ranges.               *)
THEOREM ShellTypes ==
  ASSUME OneLevelShell
  PROVE  ShellSpec => []ShellTypeOK
<1>1. ShellInv => ShellTypeOK
  BY DEF ShellInv, Command, ShellTypeOK, Inv, Typed
<1> QED BY <1>1, AlwaysShellInv, PTL

(* A put that reports no error has stored the whole local file, whatever   *)
(* the size of its pieces, however space ran out, and it stays stored.     *)
THEOREM PutsReport ==
  ASSUME OneLevelShell
  PROVE  ShellSpec => []PutReportsLoss
<1>1. ShellInv => PutReportsLoss
  BY DEF ShellInv
<1> QED BY <1>1, AlwaysShellInv, PTL

(* Under commands, too, every block of a file is marked, and no step of a  *)
(* put addresses a block outside the image.                                *)
THEOREM CommandsKeepBlocks ==
  ASSUME OneLevelShell
  PROVE  ShellSpec => [](MappedAllocated /\ NoAbort)
<1>1. ShellInv => MappedAllocated
  BY InvPlain DEF ShellInv
<1>2. ShellInv => NoAbort
  BY DEF ShellInv, Putting, Elsewhere, NoAbort
<1> QED BY <1>1, <1>2, AlwaysShellInv, PTL

-----------------------------------------------------------------------------
(* get.  It has copied the file as far as its offset; it ends at the end   *)
(* of the file, or at a table that is not there.                           *)
Copying ==
    /\ sh.cmd \in {"get", "got"} =>
          sh.offset <= inodes[sh.f].size /\ sh.out = Holds(sh.f, sh.offset)
    /\ sh.cmd = "got" => sh.offset = inodes[sh.f].size
    /\ GetAbortsAtEdge

(* What one more call of fs_read adds to what was copied.                  *)
LEMMA Appended ==
  ASSUME NEW f \in Nat, NEW m \in Nat, NEW n \in Nat, m <= n
  PROVE  Holds(f, m) \o [k \in 1 .. n - m |-> Data(f, m + k - 1)] = Holds(f, n)
<1> DEFINE s == Holds(f, m)
           t == [k \in 1 .. n - m |-> Data(f, m + k - 1)]
<1>1. PICK d \in Nat : d = n - m
  OBVIOUS
<1>2. s \in Seq(Nat) /\ t \in Seq(Nat) /\ Len(s) = m /\ Len(t) = d
  <2>1. \A k \in 1 .. m : Data(f, k - 1) \in Nat
    <3>1. \A k \in 1 .. m : k - 1 \in Nat
      OBVIOUS
    <3> QED BY <3>1, DataNat
  <2>2. \A k \in 1 .. d : Data(f, m + k - 1) \in Nat
    <3>1. \A k \in 1 .. d : m + k - 1 \in Nat
      OBVIOUS
    <3> QED BY <3>1, DataNat
  <2>3. s = [k \in 1 .. m |-> Data(f, k - 1)] /\ t = [k \in 1 .. d |-> Data(f, m + k - 1)]
    BY <1>1 DEF Holds
  <2> HIDE DEF s, t
  <2> QED BY <2>1, <2>2, <2>3
<1>3. s \o t = [k \in 1 .. m + d |-> IF k <= m THEN s[k] ELSE t[k - m]]
  <2> HIDE DEF s, t
  <2>1. /\ s \o t \in Seq(Nat) /\ Len(s \o t) = Len(s) + Len(t)
        /\ \A k \in 1 .. Len(s) + Len(t) :
              (s \o t)[k] = IF k <= Len(s) THEN s[k] ELSE t[k - Len(s)]
    BY <1>2, ConcatProperties
  <2>2. s \o t \in [1 .. Len(s \o t) -> Nat]
    BY <2>1, LenProperties
  <2>3. s \o t = [k \in 1 .. m + d |-> (s \o t)[k]]
    <3>1. Len(s \o t) = m + d
      BY <1>2, <2>1
    <3> QED BY <2>2, <3>1, Zenon
  <2> QED BY <1>2, <2>1, <2>3
<1>4. ASSUME NEW k \in 1 .. n
      PROVE  (IF k <= m THEN s[k] ELSE t[k - m]) = Data(f, k - 1)
  <2>1. CASE k <= m
    <3>1. k \in 1 .. m
      BY <2>1
    <3> QED BY <2>1, <3>1 DEF Holds
  <2>2. CASE ~(k <= m)
    <3>1. k - m \in 1 .. n - m /\ m + (k - m) - 1 = k - 1
      BY <2>2
    <3> QED BY <2>2, <3>1
  <2> QED BY <2>1, <2>2
<1>5. m + d = n
  BY <1>1
<1> HIDE DEF s, t
<1> QED BY <1>3, <1>4, <1>5 DEF Holds, s, t

(* A call of fs_read that get makes: how far it goes, and that a call that *)
(* returns nothing is at the end of the file.                              *)
LEMMA GetReads ==
  ASSUME OneLevelShell, ShellInv, Content, sh.cmd = "get", Copying,
         NEW words, words = fs_read(sh.f, blksiz, sh.offset)
  PROVE  /\ words \in Seq(Nat) /\ sh.offset + Len(words) \in Nat
         /\ sh.offset + Len(words) <= inodes[sh.f].size
         /\ sh.out \o words = Holds(sh.f, sh.offset + Len(words))
         /\ words = <<>> => sh.offset = inodes[sh.f].size
<1> DEFINE f      == sh.f
           size   == inodes[f].size
           offset == sh.offset
           end    == ReadEnd(f, blksiz, offset)
<1>1. /\ f \in files /\ size \in Nat /\ offset \in Nat /\ offset <= size
      /\ blksiz \in Nat /\ blksiz > 0 /\ sh.out = Holds(f, offset)
  <2>1. f \in files
    BY DEF ShellInv, Elsewhere
  <2> QED BY <2>1, InvParts DEF Copying
<1>2. /\ end \in Nat /\ offset <= end /\ end <= size
      /\ end = Min({size, offset + blksiz})
  BY <1>1, ReadEnds
<1>3. words = [n \in 1 .. end - offset |-> Data(f, offset + n - 1)]
  <2>1. \A g \in files, len \in Nat, at \in Nat :
           at <= inodes[g].size =>
              fs_read(g, len, at) =
                 [n \in 1 .. ReadEnd(g, len, at) - at |-> Data(g, at + n - 1)]
    BY Reads DEF ShellInv, OneLevelShell, Roomy
  <2> HIDE DEF f, offset
  <2>2. fs_read(f, blksiz, offset) =
           [n \in 1 .. end - offset |-> Data(f, offset + n - 1)]
    BY <1>1, <2>1
  <2> QED BY <2>2 DEF f, offset
<1>4. end = offset => offset = size
  <2>1. {size, offset + blksiz} \subseteq Nat
    BY <1>1
  <2>2. end \in {size, offset + blksiz}
    BY <1>2, <2>1, MinNat
  <2> HIDE DEF end
  <2> QED BY <1>1, <2>2
<1> HIDE DEF f, size, offset, end
<1>5. PICK d \in Nat : d = end - offset
  BY <1>1, <1>2
<1>0. f \in Nat
  <2>1. f \in Files /\ Files \subseteq Nat
    BY <1>1, InvParts
  <2> QED BY <2>1
<1>6. words \in Seq(Nat) /\ Len(words) = d
  <2>2. \A n \in 1 .. d : Data(f, offset + n - 1) \in Nat
    <3>1. \A n \in 1 .. d : offset + n - 1 \in Nat
      BY <1>1
    <3> QED BY <1>0, <3>1, DataNat
  <2>3. words = [n \in 1 .. d |-> Data(f, offset + n - 1)]
    BY <1>3, <1>5
  <2> QED BY <2>2, <2>3
<1>7. offset + Len(words) = end
  BY <1>1, <1>2, <1>5, <1>6
<1>8. sh.out \o words = Holds(f, end)
  <2>1. \A m, n \in Nat :
           m <= n => Holds(f, m) \o [k \in 1 .. n - m |-> Data(f, m + k - 1)] = Holds(f, n)
    BY <1>0, Appended
  <2>2. Holds(f, offset) \o [k \in 1 .. end - offset |-> Data(f, offset + k - 1)] = Holds(f, end)
    BY <1>1, <1>2, <2>1
  <2> QED BY <1>1, <1>3, <2>2
<1>9. words = <<>> => offset = size
  BY <1>1, <1>2, <1>4, <1>7
<1> QED BY <1>2, <1>6, <1>7, <1>8, <1>9 DEF f, size, offset

LEMMA CopyingKept ==
  ASSUME OneLevelShell, ShellInv, Content, Copying, [ShellNext]_shellVars
  PROVE  Copying'
<1>0. sh \in Command
  BY DEF ShellInv
<1>1. CASE get_read
  <2> DEFINE words == fs_read(sh.f, blksiz, sh.offset)
  <2>1. /\ sh.cmd = "get" /\ UNCHANGED <<inodes, blocks>>
        /\ sh' = [sh EXCEPT !.cmd = IF words = <<>> THEN "got" ELSE "get",
                            !.offset = sh.offset + Len(words), !.out = sh.out \o words]
    BY <1>1 DEF get_read, files_vars, vars
  <2>2. /\ sh.offset + Len(words) \in Nat
        /\ sh.offset + Len(words) <= inodes[sh.f].size
        /\ sh.out \o words = Holds(sh.f, sh.offset + Len(words))
        /\ words = <<>> => sh.offset = inodes[sh.f].size
    BY <2>1, GetReads
  <2>3. words = <<>> => sh.offset + Len(words) = sh.offset
    BY <1>0, Constants DEF Command
  <2> HIDE DEF words
  <2>4. /\ sh'.cmd = IF words = <<>> THEN "got" ELSE "get"
        /\ sh'.f = sh.f /\ sh'.offset = sh.offset + Len(words) /\ sh'.out = sh.out \o words
    BY <1>0, <2>1 DEF Command
  <2> QED BY <2>1, <2>2, <2>3, <2>4 DEF Copying, GetAbortsAtEdge, Holds, Data
<1>2. CASE get_abort
  <2>1. /\ sh.cmd = "get" /\ UNCHANGED inodes
        /\ read_aborts(sh.f, blksiz, sh.offset) /\ sh' = [sh EXCEPT !.cmd = "abort"]
    BY <1>2 DEF get_abort, files_vars, vars
  <2>2. /\ sh.f \in files /\ blksiz \in Nat /\ sh.offset \in Nat
        /\ sh.offset <= inodes[sh.f].size
    BY <2>1, InvParts DEF ShellInv, Elsewhere, Copying
  <2>3. inodes[sh.f].size \in TableEdges
    BY <2>1, <2>2, ReadStays DEF ShellInv, Content
  <2>4. sh'.cmd = "abort" /\ sh'.f = sh.f
    BY <1>0, <2>1 DEF Command
  <2> QED BY <2>1, <2>3, <2>4 DEF Copying, GetAbortsAtEdge
<1>3. ASSUME sh'.cmd \in {"prompt", "put"} PROVE Copying'
  BY <1>3 DEF Copying, GetAbortsAtEdge
<1>4. CASE get_end \/ main
  BY <1>3, <1>4, Prompts DEF get_end, main
<1>5. ASSUME NEW f \in Files, do_get(f) PROVE Copying'
  <2>1. f \in files /\ UNCHANGED inodes /\ sh' = [Prompt EXCEPT !.cmd = "get", !.f = f]
    BY <1>5 DEF do_get, files_vars, vars
  <2>2. sh'.cmd = "get" /\ sh'.f = f /\ sh'.offset = 0 /\ sh'.out = <<>>
    BY <2>1 DEF Prompt
  <2>3. inodes[f].size \in Nat /\ 0 <= inodes[f].size
    BY <2>1, InvParts
  <2> QED BY <2>1, <2>2, <2>3, NothingHeld DEF Copying, GetAbortsAtEdge
<1>6. ASSUME sh' = sh, sh.cmd \in {"prompt", "put"} PROVE Copying'
  BY <1>3, <1>6
<1>7. CASE put_write \/ write_step
  <2>1. sh' = sh
    BY <1>7 DEF put_write, write_step
  <2>2. sh.cmd = "put"
    <3>1. CASE put_write
      BY <3>1 DEF put_write
    <3>2. CASE write_step
      <4>1. wr.stage # "idle"
        BY <3>2 DEF write_step, WriteStep, write_direct, write_table1, write_level1, write_table2,
                    write_outer, write_inner, write_return
      <4> QED BY <4>1 DEF ShellInv, Elsewhere
    <3> QED BY <1>7, <3>1, <3>2
  <2> QED BY <1>6, <2>1, <2>2
<1>8. CASE put_return
  <2>1. sh.cmd = "put" /\ (sh' = [sh EXCEPT !.offset = sh.offset + Piece] \/ sh' = Prompt)
    BY <1>8 DEF put_return
  <2>2. sh'.cmd \in {"put", "prompt"}
    BY <1>0, <2>1, Prompts DEF Command
  <2> QED BY <1>3, <2>2
<1>9. CASE put_end
  BY <1>3, <1>9, Prompts DEF put_end
<1>10. ASSUME NEW f \in Files, NEW n, do_put(f, n) PROVE Copying'
  <2>1. sh' = [Prompt EXCEPT !.cmd = "put", !.f = f, !.n = n]
    BY <1>10 DEF do_put
  <2>2. sh'.cmd = "put"
    BY <2>1 DEF Prompt
  <2> QED BY <1>3, <2>2
<1>11. ASSUME NEW f, do_rm(f) \/ do_truncate(f) PROVE Copying'
  BY <1>6, <1>11 DEF do_rm, do_truncate
<1>12. ASSUME NEW size, do_blksiz(size) PROVE Copying'
  BY <1>6, <1>12 DEF do_blksiz
<1>13. CASE UNCHANGED shellVars
  BY <1>13 DEF shellVars, files_vars, vars, Copying, GetAbortsAtEdge, Holds
<1> QED BY <1>1, <1>2, <1>4, <1>5, <1>7, <1>8, <1>9, <1>10, <1>11, <1>12, <1>13
        DEF ShellNext, CommandStep

LEMMA AlwaysCopying ==
  ASSUME OneLevelShell
  PROVE  ShellSpec => [](ShellInv /\ Content /\ Copying)
<1>1. ShellInit => Content /\ Copying
  <2> SUFFICES ASSUME ShellInit PROVE Content /\ Copying
    OBVIOUS
  <2>1. Content
    BY InitContent DEF ShellInit
  <2>2. sh.cmd = "prompt"
    BY Prompts DEF ShellInit
  <2> QED BY <2>1, <2>2 DEF Copying, GetAbortsAtEdge
<1>2. ShellInv /\ ShellInv' /\ Content /\ Copying /\ [ShellNext]_shellVars
        => (Content /\ Copying)'
  <2> SUFFICES ASSUME ShellInv, ShellInv', Content, Copying, [ShellNext]_shellVars
               PROVE  (Content /\ Copying)'
    OBVIOUS
  <2>1. Roomy
    BY DEF OneLevelShell, Roomy
  <2>2. [Next]_vars
    BY ShellClient
  <2>3. Content'
    BY <2>1, <2>2, NextContent DEF ShellInv
  <2>4. Copying'
    BY CopyingKept
  <2> QED BY <2>3, <2>4
<1> QED BY <1>1, <1>2, AlwaysShellInv, PTL DEF ShellSpec

(* A get that comes to its end has copied the file, whatever piece size it *)
(* was put with and is read with, and whatever do_rm and do_truncate did   *)
(* before.                                                                 *)
THEOREM GetsCopy ==
  ASSUME OneLevelShell
  PROVE  ShellSpec => []GetReturnsFile
<1>1. Copying => GetReturnsFile
  BY DEF Copying, GetReturnsFile, Holds
<1> QED BY <1>1, AlwaysCopying, PTL

(* The image layer's assertion ends a get only where the file ends at the  *)
(* last block before a table.                                              *)
THEOREM GetsAbortAtEdge ==
  ASSUME OneLevelShell
  PROVE  ShellSpec => []GetAbortsAtEdge
<1>1. Copying => GetAbortsAtEdge
  BY DEF Copying
<1> QED BY <1>1, AlwaysCopying, PTL

(* The files the commands keep are sequences of words without holes.       *)
THEOREM CommandsKeepFiles ==
  ASSUME OneLevelShell
  PROVE  ShellSpec => ImplementsStore
<1>1. ShellInit => Store!Init
  <2>1. Init /\ Inv /\ Content => Store!Init
    BY StoreInit DEF OneLevelShell, Roomy
  <2> QED BY <2>1, InitInv, InitContent DEF ShellInit
<1>2. ShellInv /\ Content /\ (ShellInv /\ Content)' /\ [ShellNext]_shellVars
        => [Store!Next]_Contents
  <2>1. ShellInv /\ [ShellNext]_shellVars => [Next]_vars
    BY ShellClient
  <2>2. Inv /\ Content /\ (Inv /\ Content)' /\ [Next]_vars => [Store!Next]_Contents
    BY StoreNext DEF OneLevelShell, Roomy
  <2> QED BY <2>1, <2>2 DEF ShellInv
<1> QED BY <1>1, <1>2, AlwaysCopying, PTL DEF ShellSpec, ImplementsStore, Store!Spec

-----------------------------------------------------------------------------
(* Termination.                                                            *)
Nearer == CommandLeft' \in 0 .. CommandLeft - 1

(* How far a put is from its end: all of the words left, and the steps of  *)
(* the fs_write under way.                                                 *)
LEMMA PutLeft ==
  ASSUME ShellInv, sh.cmd = "put"
  PROVE  /\ Piece \in Nat /\ sh.n - sh.offset \in Nat /\ Piece <= sh.n - sh.offset
         /\ StepsLeft \in Nat
         /\ wr.stage = "idle" => CommandLeft = 8 * (sh.n - sh.offset) + 1 + StepsLeft
         /\ wr.stage # "idle" =>
              CommandLeft = 8 * (sh.n - sh.offset - Piece) + 1 + StepsLeft
<1>1. /\ sh.n \in Nat /\ sh.offset \in Nat /\ Piece \in Nat /\ sh.offset + Piece <= sh.n
  BY PieceBounds, InvParts
<1>2. StepsLeft \in Nat
  <2>1. wr.len \in Nat /\ wr.stage \in Stages
    BY InvParts, Constants DEF WriteCall
  <2>2. Rank(wr.stage) \in 0 .. 4
    BY <2>1, Ranks
  <2> QED BY <2>1, <2>2 DEF StepsLeft
<1>3. CommandLeft = 8 * (sh.n - sh.offset - Given) + 1 + StepsLeft
  BY DEF CommandLeft
<1>4. CASE wr.stage = "idle"
  BY <1>1, <1>2, <1>3, <1>4 DEF Given
<1>5. CASE wr.stage # "idle"
  BY <1>1, <1>2, <1>3, <1>5 DEF Given
<1> QED BY <1>1, <1>2, <1>4, <1>5

LEMMA PutNearer ==
  ASSUME OneLevelShell, ShellInv, ShellInv',
         put_write \/ write_step \/ put_return \/ put_end
  PROVE  Nearer
<1>1. sh.cmd = "put"
  <2>1. CASE write_step
    <3>1. wr.stage # "idle"
      BY <2>1, Zenon DEF write_step, WriteStep, write_direct, write_table1, write_level1,
                         write_table2, write_outer, write_inner, write_return
    <3> QED BY <3>1 DEF ShellInv, Elsewhere
  <2> QED BY <2>1 DEF put_write, put_return, put_end
<1>2. PICK r \in Nat, p \in Nat, s \in Nat :
         /\ r = sh.n - sh.offset /\ p = Piece /\ s = StepsLeft /\ p <= r
  BY <1>1, PutLeft
<1>3. /\ wr.stage = "idle" => CommandLeft = 8 * r + 1 + s
      /\ wr.stage # "idle" => CommandLeft = 8 * (r - p) + 1 + s
  BY <1>1, <1>2, PutLeft
<1>4. ASSUME sh'.cmd = "prompt" PROVE Nearer
  <2>1. CommandLeft' = 0
    BY <1>4 DEF CommandLeft
  <2>2. CommandLeft \in Nat /\ CommandLeft > 0
    BY <1>2, <1>3
  <2> QED BY <2>1, <2>2 DEF Nearer
<1>5. CASE put_write
  <2>1. /\ p > 0 /\ wr.stage = "idle" /\ sh' = sh /\ blksiz' = blksiz
        /\ fs_write(sh.f, Piece, sh.offset)
    BY <1>2, <1>5 DEF put_write, fs_write
  <2>2. wr'.stage \in Active /\ wr'.stage # "idle" /\ Piece' = Piece
    <3>1. Called(sh.f, Piece, sh.offset) \in WriteCall
      <4>1. sh.f \in Nat /\ Piece \in 0 .. MaxLen /\ sh.offset \in 0 .. MaxSize
        <5>1. blksiz \in 1 .. MaxLen
          BY DEF ShellInv, OneLevelShell
        <5>2. sh.f \in Nat /\ sh.offset \in 0 .. MaxSize
          BY DEF ShellInv, Command
        <5> QED BY <1>1, <5>1, <5>2, PieceBounds, Constants
      <4> QED BY <4>1, IdleCall DEF Called, WriteCall
    <3>2. wr'.stage \in {"direct", "table1", "table2"}
      BY <2>1, <3>1, EntryStage
    <3> QED BY <2>1, <3>2 DEF Active, Stages, Piece
  <2>3. wr'.len \in Nat /\ wr'.len <= p /\ Rank(wr'.stage) \in 0 .. 4
    <3>1. wr'.len + wr'.total = Piece
      BY <1>1, <2>1, <2>2 DEF ShellInv, Putting
    <3>2. wr' \in WriteCall /\ wr'.total >= 0
      BY <2>2 DEF ShellInv, Inv, Typed, TypeOK, WriteBounds
    <3>3. wr'.len \in Nat /\ wr'.total \in Nat
      BY <3>2, Constants DEF WriteCall
    <3>4. wr'.stage \in Stages
      BY <3>2 DEF WriteCall
    <3> QED BY <1>2, <3>1, <3>3, <3>4, Ranks
  <2>4. StepsLeft' \in Nat /\ StepsLeft' <= 3 * p + 4
    <3>1. StepsLeft' = 3 * wr'.len + Rank(wr'.stage)
      BY DEF StepsLeft, Rank
    <3>2. PICK a \in 0 .. 4 : a = Rank(wr'.stage)
      BY <2>3
    <3> QED BY <2>3, <3>1, <3>2
  <2>5. CommandLeft' = 8 * (r - p) + 1 + StepsLeft'
    <3>1. (Given = Piece)'
      BY <2>2 DEF Given, Piece
    <3>2. CommandLeft' = 8 * (sh.n - sh.offset - Piece) + 1 + StepsLeft'
      BY <1>1, <2>1, <2>2, <3>1 DEF CommandLeft
    <3> QED BY <1>2, <3>2
  <2> QED BY <1>2, <1>3, <2>1, <2>4, <2>5 DEF Nearer
<1>6. CASE write_step
  <2>1. /\ WriteStep /\ ~write_return /\ sh' = sh /\ blksiz' = blksiz
        /\ wr.stage # "idle"
    BY <1>6, Zenon DEF write_step, WriteStep, write_direct, write_table1, write_level1,
                       write_table2, write_outer, write_inner, write_return
  <2>2. wr'.stage # "idle"
    BY <2>1, StepGrows DEF ShellInv, OneLevelShell, Grown, NoRoom
  <2>3. StepsLeft' \in 0 .. s - 1
    BY <1>2, <2>1, StepCloser DEF ShellInv, Inv, Closer
  <2>4. CommandLeft' = 8 * (r - p) + 1 + StepsLeft'
    <3>1. (Given = Piece)' /\ Piece' = Piece
      BY <2>1, <2>2 DEF Given, Piece
    <3>2. CommandLeft' = 8 * (sh.n - sh.offset - Piece) + 1 + StepsLeft'
      BY <1>1, <2>1, <3>1 DEF CommandLeft
    <3> QED BY <1>2, <3>2
  <2> QED BY <1>2, <1>3, <2>1, <2>3, <2>4 DEF Nearer
<1>7. CASE put_return
  <2>1. wr.stage = "cleanup" /\ wr' = Idle /\ blksiz' = blksiz
    BY <1>7 DEF put_return, write_return
  <2>2. s >= 1
    <3>1. wr.len \in Nat
      BY InvParts, Constants DEF WriteCall
    <3>2. StepsLeft = 3 * wr.len + 1
      BY <2>1, Ranks DEF StepsLeft
    <3> QED BY <1>2, <3>1, <3>2
  <2>3. CASE sh' = [sh EXCEPT !.offset = sh.offset + Piece]
    <3>1. sh'.cmd = "put" /\ sh'.n = sh.n /\ sh'.offset = sh.offset + Piece
      BY <1>1, <2>3, InvParts DEF Command
    <3>2. StepsLeft' = 0 /\ wr'.stage = "idle"
      BY <2>1, Ranks DEF StepsLeft, Rank, Idle
    <3>3. CommandLeft' = 8 * (r - p) + 1
      <4>1. Given' = 0
        BY <3>2 DEF Given
      <4>2. CommandLeft' = 8 * (sh.n - (sh.offset + Piece) - 0) + 1 + 0
        BY <3>1, <3>2, <4>1 DEF CommandLeft
      <4>3. sh.n \in Nat /\ sh.offset \in Nat /\ Piece \in Nat
        BY <1>1, PutLeft, InvParts
      <4> QED BY <1>2, <4>2, <4>3
    <3> QED BY <1>2, <1>3, <2>1, <2>2, <3>3 DEF Nearer
  <2>4. CASE sh' = Prompt
    BY <1>4, <2>4, Prompts
  <2> QED BY <1>7, <2>3, <2>4 DEF put_return
<1>8. CASE put_end
  BY <1>4, <1>8, Prompts DEF put_end
<1> QED BY <1>5, <1>6, <1>7, <1>8

LEMMA GetNearer ==
  ASSUME OneLevelShell, ShellInv, Content, Copying, get_read \/ get_abort \/ get_end
  PROVE  Nearer
<1>0. sh \in Command
  BY DEF ShellInv
<1>1. ASSUME sh.cmd = "get"
      PROVE  /\ sh.offset \in Nat /\ inodes[sh.f].size \in Nat
             /\ sh.offset <= inodes[sh.f].size
             /\ CommandLeft = inodes[sh.f].size - sh.offset + 2
  BY <1>1, InvParts DEF ShellInv, Elsewhere, Copying, CommandLeft
<1>2. CASE get_read
  <2> DEFINE words == fs_read(sh.f, blksiz, sh.offset)
  <2>1. /\ sh.cmd = "get" /\ UNCHANGED inodes
        /\ sh' = [sh EXCEPT !.cmd = IF words = <<>> THEN "got" ELSE "get",
                            !.offset = sh.offset + Len(words), !.out = sh.out \o words]
    BY <1>2 DEF get_read, files_vars, vars
  <2>2. /\ words \in Seq(Nat)
        /\ sh.offset + Len(words) <= inodes[sh.f].size
        /\ words = <<>> => sh.offset = inodes[sh.f].size
    BY <2>1, GetReads
  <2> HIDE DEF words
  <2>3. /\ sh'.cmd = IF words = <<>> THEN "got" ELSE "get"
        /\ sh'.f = sh.f /\ sh'.offset = sh.offset + Len(words)
    BY <1>0, <2>1 DEF Command
  <2>4. CASE words = <<>>
    <3>1. CommandLeft' = 1
      BY <2>3, <2>4 DEF CommandLeft
    <3> QED BY <1>1, <2>1, <2>2, <2>4, <3>1 DEF Nearer
  <2>5. CASE words # <<>>
    <3>1. Len(words) \in Nat /\ Len(words) >= 1
      BY <2>2, <2>5
    <3>2. CommandLeft' = inodes[sh.f].size - (sh.offset + Len(words)) + 2
      BY <2>1, <2>3, <2>5 DEF CommandLeft
    <3> QED BY <1>1, <2>1, <2>2, <3>1, <3>2 DEF Nearer
  <2> QED BY <2>4, <2>5
<1>3. CASE get_abort
  <2>1. sh.cmd = "get" /\ sh'.cmd = "abort"
    BY <1>0, <1>3 DEF get_abort, Command
  <2>2. CommandLeft' = 0
    BY <2>1 DEF CommandLeft
  <2> QED BY <1>1, <2>1, <2>2 DEF Nearer
<1>4. CASE get_end
  <2>1. sh.cmd = "got" /\ sh'.cmd = "prompt"
    BY <1>4, Prompts DEF get_end
  <2>2. CommandLeft = 1 /\ CommandLeft' = 0
    BY <2>1 DEF CommandLeft
  <2> QED BY <2>2 DEF Nearer
<1> QED BY <1>2, <1>3, <1>4

(* Every command is back at the prompt, or at the assertion, after a       *)
(* bounded number of steps: a put of n words after 8 * n + 1 at most, a    *)
(* get of a file of n words after n + 2.                                   *)
THEOREM CommandsEndSoon ==
  ASSUME OneLevelShell
  PROVE  ShellSpec => CommandsRunOut
<1>1. ShellInv /\ ShellInv' /\ Content /\ Copying /\ [ShellNext]_shellVars
        => [sh.cmd \notin {"prompt", "abort"} => Nearer]_shellVars
  <2> SUFFICES ASSUME ShellInv, ShellInv', Content, Copying, ShellNext,
                      sh.cmd \notin {"prompt", "abort"}
               PROVE  Nearer
    OBVIOUS
  <2>1. CommandStep
    BY Zenon DEF ShellNext, do_put, do_get, do_rm, do_truncate, do_blksiz, main
  <2> QED BY <2>1, PutNearer, GetNearer DEF CommandStep
<1> QED BY <1>1, AlwaysCopying, PTL DEF ShellSpec, CommandsRunOut, Nearer

=============================================================================
