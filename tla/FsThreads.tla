------------------------------ MODULE FsThreads ------------------------------
(***************************************************************************)
(* get_free_block and free_a_block of main.c under the threads of          *)
(* fuse_main (misc.c), which runs every request on a thread of its own     *)
(* unless it is given -s.  Nothing locks the bitmap: get_free_block tests  *)
(* a bit and sets it later, and FD_SET and FD_CLR load and store the word  *)
(* that holds the bit (one word here).  get_free_inode is the same loop    *)
(* over the inode bitmap.                                                  *)
(***************************************************************************)
EXTENDS FsAlloc

CONSTANT Threads

VARIABLES block_map,    \* the bitmap that all threads share
          pc,           \* where each thread is
          i,            \* its loop counter, then the block it was given
          word          \* the word that its FD_SET or FD_CLR has loaded

vars == <<block_map, pc, i, word>>

TypeOK ==
    /\ block_map \subseteq Blocks
    /\ pc \in [Threads -> {"idle", "test", "set", "store", "holds", "clear"}]
    /\ i \in [Threads -> start_block .. max_num_blocks]
    /\ word \in [Threads -> SUBSET Blocks]

Init ==
    /\ block_map = Metadata \cup {start_block}
    /\ pc = [t \in Threads |-> "idle"]
    /\ i = [t \in Threads |-> start_block]
    /\ word = [t \in Threads |-> {}]

Goto(t, from, to) == pc[t] = from /\ pc' = [pc EXCEPT ![t] = to]

(* A handler calls get_free_block.                                         *)
call(t) ==
    /\ Goto(t, "idle", "test")
    /\ i' = [i EXCEPT ![t] = start_block]
    /\ UNCHANGED <<block_map, word>>

(* FD_ISSET, one bit of the scan.                                          *)
test(t) ==
    /\ i[t] < max_num_blocks
    /\ IF i[t] \in block_map
       THEN Goto(t, "test", "test") /\ i' = [i EXCEPT ![t] = @ + 1]
       ELSE Goto(t, "test", "set") /\ UNCHANGED i
    /\ UNCHANGED <<block_map, word>>

(* -ENOSPC: the handler fails.                                             *)
no_space(t) ==
    /\ i[t] = max_num_blocks
    /\ Goto(t, "test", "idle")
    /\ UNCHANGED <<block_map, i, word>>

(* FD_SET, in two steps; get_free_block returns i, which the handler puts  *)
(* into an inode, a table or a new directory.                              *)
set(t) ==
    /\ Goto(t, "set", "store")
    /\ word' = [word EXCEPT ![t] = block_map \cup {i[t]}]
    /\ UNCHANGED <<block_map, i>>

store(t) ==
    /\ Goto(t, "store", "holds")
    /\ block_map' = word[t]
    /\ UNCHANGED <<i, word>>

(* A handler gives the block back: free_a_block.                           *)
free(t) ==
    /\ Goto(t, "holds", "clear")
    /\ word' = [word EXCEPT ![t] = free_a_block(block_map, i[t])]
    /\ UNCHANGED <<block_map, i>>

cleared(t) ==
    /\ Goto(t, "clear", "idle")
    /\ block_map' = word[t]
    /\ UNCHANGED <<i, word>>

Step(t) ==
    \/ call(t) \/ test(t) \/ no_space(t) \/ set(t) \/ store(t)
    \/ free(t) \/ cleared(t)

Next == \E t \in Threads : Step(t)

Spec == Init /\ [][Next]_vars

(* One handler after the other, as cmdloop (misc.c) calls them, and        *)
(* fuse_main when it is given -s: a thread is in the allocator alone.      *)
Inside(t) == pc[t] \notin {"idle", "holds"}

SerialNext == \E t \in Threads : (\A u \in Threads \ {t} : ~Inside(u)) /\ Step(t)

SerialSpec == Init /\ [][SerialNext]_vars

-----------------------------------------------------------------------------
(* "find and return a free block" (comment on get_free_block): what it     *)
(* returns was free, so that no two handlers hold the same block.          *)
GivenOnce ==
    \A t, u \in Threads :
        t # u /\ pc[t] = "holds" /\ pc[u] = "holds" => i[t] # i[u]

(* Between calls the bitmap tells of every block whether it is in use: no  *)
(* block that was given back is lost, none is given twice.                 *)
Holding == {t \in Threads : pc[t] \in {"holds", "clear"}}

MapExact ==
    (\A t \in Threads : ~Inside(t)) =>
        block_map = Metadata \cup {start_block} \cup {i[t] : t \in Holding}

(* The loop of get_free_block and the accesses of FD_SET and FD_CLR come   *)
(* to what the operators of FsAlloc do at once, which the other modules    *)
(* call; and get_free_block fails only when that operator does.            *)
Held == [t \in Threads |-> IF t \in Holding THEN i[t] ELSE 0]

TakesFirstFree(t) ==
    LET block == get_free_block(block_map)
    IN  /\ Held[t] = 0 /\ block \in DataBlocks
        /\ block_map' = block_map \cup {block}
        /\ Held' = [Held EXCEPT ![t] = block]

GivesBack(t) ==
    /\ Held[t] # 0
    /\ block_map' = free_a_block(block_map, Held[t])
    /\ Held' = [Held EXCEPT ![t] = 0]

AllocatesAtOnce ==
    [][\E t \in Threads : TakesFirstFree(t) \/ GivesBack(t)]_<<block_map, Held>>

FailsWhenFull ==
    [][\A t \in Threads : no_space(t) => get_free_block(block_map) = -ENOSPC]_vars

=============================================================================
