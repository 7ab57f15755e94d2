------------------------------ MODULE ReadImg ------------------------------
(***************************************************************************)
(* The check of read-img on an image: its traversal of the directories,    *)
(* with the errors it prints and the list of unreachable inodes it ends    *)
(* with.  The state is the image, FsNames's variables.  What it says of    *)
(* the blocks of a file is FsFile's MappedAllocated.                       *)
(***************************************************************************)
EXTENDS FsNames

(* The traversal: the list of inodes to visit with its tail, the inodes    *)
(* listed so far (imap), the errors, and whether it has jumped to `fail`.  *)
Start == [list |-> <<[dir |-> TRUE, inum |-> ROOT]>>, tail |-> 1, imap |-> {ROOT},
          errors |-> {}, fail |-> FALSE]

(* One valid entry of a directory.                                         *)
ListEntry(t, e) ==
    IF t.fail THEN t
    ELSE IF e.inode \in t.imap
    THEN [t EXCEPT !.errors = @ \cup {"loop found"}, !.fail = TRUE]
    ELSE [t EXCEPT !.imap = @ \cup {e.inode},
                   !.errors = IF e.inode \in inode_map THEN @
                              ELSE @ \cup {"inode marked free"},
                   !.list = Append(@, [dir |-> e.isDir, inum |-> e.inode])]

(* The entries of directory d up to slot j, and all of them.               *)
ListDirectory(t, d) ==
    LET upto[j \in 0 .. MaxEntries] ==
            IF j = 0 THEN t
            ELSE IF Entries(d)[j-1].valid THEN ListEntry(upto[j-1], Entries(d)[j-1])
            ELSE upto[j-1]
    IN  upto[MaxEntries]

(* One inode of the list.                                                  *)
Visit(t) ==
    LET e    == t.list[t.tail]
        next == [t EXCEPT !.tail = @ + 1]
    IN  IF t.fail \/ t.tail > Len(t.list) THEN t
        ELSE IF ~e.dir THEN next
        ELSE IF inodes[e.inum].mode # "dir"
        THEN [next EXCEPT !.errors = @ \cup {"not a directory"}]
        ELSE ListDirectory([next EXCEPT !.errors =
                               IF inodes[e.inum].direct0 \in block_map THEN @
                               ELSE @ \cup {"block marked free"}], e.inum)

(* An inode is listed once, so that this many visits empty the list.       *)
Traversal ==
    LET visits[n \in 0 .. NumInodes] == IF n = 0 THEN Start ELSE Visit(visits[n-1])
    IN  visits[NumInodes]

Errors            == Traversal.errors
UnreachableInodes == (inode_map \ {0}) \ Traversal.imap

-----------------------------------------------------------------------------
(* Every image the handlers leave behind passes read-img: it prints no     *)
(* "***ERROR***" and lists no unreachable inode.                           *)
ReadImgClean == Errors = {} /\ UnreachableInodes = {}

=============================================================================
