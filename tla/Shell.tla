-------------------------------- MODULE Shell --------------------------------
(***************************************************************************)
(* The commands of misc.c that move file data: put, get (show is the same  *)
(* loop), rm, truncate and blksiz, composed with the handlers they call    *)
(* (FsFile).  put and get call fs_write and fs_read once per piece of      *)
(* blksiz words; an fs_write that put called runs step by step.            *)
(***************************************************************************)
EXTENDS FsFile

CONSTANT BlkSizes       \* the sizes given to the blksiz command

ASSUME ShellAssumption == BlkSizes \subseteq Nat \ {0} /\ BlkSizes # {}

VARIABLES sh,           \* the command under way: its local variables
          blksiz,       \* words per call
          kept          \* words that a successful put said it stored in a file

files_vars == vars
shellVars  == <<files_vars, sh, blksiz, kept>>

(* f: the file; n: the words in the local file; offset: as in do_put and   *)
(* do_get; out: what get has copied to the local file.                     *)
Prompt == [cmd |-> "prompt", f |-> 0, n |-> 0, offset |-> 0, out |-> <<>>]

None == -1      \* no successful put for the file

ShellTypeOK ==
    /\ TypeOK
    /\ sh.cmd \in {"prompt", "put", "get", "got", "abort"}
    /\ sh.f \in Nat /\ sh.n \in 0 .. MaxSize /\ sh.offset \in 0 .. MaxSize
    /\ sh.out \in Seq(Nat)
    /\ blksiz \in BlkSizes
    /\ kept \in [Files -> {None} \cup 0 .. MaxSize]

ShellInit ==
    /\ Init
    /\ sh = Prompt /\ blksiz \in BlkSizes
    /\ kept = [f \in Files |-> 0]

-----------------------------------------------------------------------------
(* do_put copies a local file of n words to a new file f.                  *)
do_put(f, n) ==
    /\ sh.cmd = "prompt"
    /\ fs_mknod(f)
    /\ sh' = [Prompt EXCEPT !.cmd = "put", !.f = f, !.n = n]
    /\ UNCHANGED <<blksiz, kept>>

(* The words it reads next, for the next call.                             *)
Piece == Min({blksiz, sh.n - sh.offset})

put_write ==
    /\ sh.cmd = "put" /\ Piece > 0
    /\ fs_write(sh.f, Piece, sh.offset)
    /\ UNCHANGED <<sh, blksiz, kept>>

write_step == WriteStep /\ ~write_return /\ UNCHANGED <<sh, blksiz, kept>>

(* Mutant of PutResult: an error of fs_write is not reported.              *)
mut_put_result(val) == 0

(* What do_put returns, where the last fs_write returned val.              *)
PutResult(val) == IF val >= 0 THEN 0 ELSE val

(* fs_write returned wr.total: do_put goes on if that was all it gave.     *)
put_return ==
    /\ sh.cmd = "put"
    /\ write_return
    /\ IF wr.total = Piece
       THEN sh' = [sh EXCEPT !.offset = @ + Piece] /\ UNCHANGED kept
       ELSE /\ sh' = Prompt
            /\ kept' = [kept EXCEPT ![sh.f] = IF PutResult(wr.total) = 0 THEN sh.n ELSE None]
    /\ UNCHANGED blksiz

(* The local file is at its end.                                           *)
put_end ==
    /\ sh.cmd = "put" /\ wr.stage = "idle" /\ Piece = 0
    /\ sh' = Prompt
    /\ kept' = [kept EXCEPT ![sh.f] = sh.n]
    /\ UNCHANGED <<files_vars, blksiz>>

-----------------------------------------------------------------------------
(* do_get copies a file to a local one, until fs_read returns no word.     *)
do_get(f) ==
    /\ sh.cmd = "prompt" /\ f \in files
    /\ sh' = [Prompt EXCEPT !.cmd = "get", !.f = f]
    /\ UNCHANGED <<files_vars, blksiz, kept>>

get_read ==
    LET words == fs_read(sh.f, blksiz, sh.offset)
    IN  /\ sh.cmd = "get"
        /\ ~read_aborts(sh.f, blksiz, sh.offset)
        /\ sh' = [sh EXCEPT !.cmd = IF words = <<>> THEN "got" ELSE "get",
                            !.offset = @ + Len(words), !.out = @ \o words]
        /\ UNCHANGED <<files_vars, blksiz, kept>>

(* The image layer's assertion ends the program.                           *)
get_abort ==
    /\ sh.cmd = "get"
    /\ read_aborts(sh.f, blksiz, sh.offset)
    /\ sh' = [sh EXCEPT !.cmd = "abort"]
    /\ UNCHANGED <<files_vars, blksiz, kept>>

get_end ==
    /\ sh.cmd = "got"
    /\ sh' = Prompt
    /\ UNCHANGED <<files_vars, blksiz, kept>>

-----------------------------------------------------------------------------
do_rm(f) ==
    /\ sh.cmd = "prompt" /\ f \in files
    /\ fs_unlink(f)
    /\ kept' = [kept EXCEPT ![f] = None]
    /\ UNCHANGED <<sh, blksiz>>

do_truncate(f) ==
    /\ sh.cmd = "prompt" /\ f \in Truncatable
    /\ fs_truncate(f)
    /\ kept' = [kept EXCEPT ![f] = 0]
    /\ UNCHANGED <<sh, blksiz>>

do_blksiz(size) ==
    /\ sh.cmd = "prompt"
    /\ blksiz' = size
    /\ UNCHANGED <<files_vars, sh, kept>>

(* The program is started again, on the image it left.                     *)
main ==
    /\ sh.cmd = "abort"
    /\ sh' = Prompt
    /\ \E size \in BlkSizes : blksiz' = size
    /\ UNCHANGED <<files_vars, kept>>

(* What a command does until the next prompt.                              *)
CommandStep ==
    \/ put_write \/ write_step \/ put_return \/ put_end
    \/ get_read \/ get_abort \/ get_end

ShellNext ==
    \/ CommandStep
    \/ \E f \in Files :
          \/ \E n \in 0 .. MaxSize : do_put(f, n)
          \/ do_get(f) \/ do_rm(f) \/ do_truncate(f)
    \/ \E size \in BlkSizes : do_blksiz(size)
    \/ main

(* The loops of a command run on: nothing in them waits.                   *)
ShellSpec == ShellInit /\ [][ShellNext]_shellVars /\ WF_shellVars(CommandStep)

-----------------------------------------------------------------------------
(* Correctness.                                                            *)

(* A get that comes to its end has copied the file, whatever piece size    *)
(* it was put with and is read with now, and whatever was stored and       *)
(* removed before it.                                                      *)
GetReturnsFile ==
    sh.cmd = "got" => sh.out = [k \in 1 .. inodes[sh.f].size |-> Data(sh.f, k-1)]

(* A put that reports no error stored the whole local file, also when      *)
(* space ran out while it ran, before it or since.                         *)
PutReportsLoss ==
    \A f \in files :
        kept[f] # None /\ ~(sh.cmd = "put" /\ sh.f = f) => inodes[f].size = kept[f]

(* A get ends in the assertion of the image layer only for a file that     *)
(* ends where the next block would need a new table.                       *)
GetAbortsAtEdge == sh.cmd = "abort" => inodes[sh.f].size \in TableEdges

(* Every command comes back to the prompt, or to the assertion.            *)
CommandEnds == sh.cmd # "prompt" ~> sh.cmd \in {"prompt", "abort"}

(* The steps that a command may still take.  A put takes eight at most for *)
(* each word it has not given to fs_write, besides those of the fs_write   *)
(* under way; a get at most one for each word, one to find the end and one *)
(* to return.                                                              *)
Given == IF wr.stage = "idle" THEN 0 ELSE Piece

CommandLeft ==
    CASE sh.cmd = "put" -> 8 * (sh.n - sh.offset - Given) + 1 + StepsLeft
      [] sh.cmd = "get" -> inodes[sh.f].size - sh.offset + 2
      [] sh.cmd = "got" -> 1
      [] OTHER          -> 0

(* Every step of a command brings it closer to the prompt: its loops go on *)
(* only as long as fs_read and fs_write move them along the file.          *)
CommandsRunOut ==
    [][sh.cmd \notin {"prompt", "abort"} => CommandLeft' \in 0 .. CommandLeft - 1]_shellVars

=============================================================================
