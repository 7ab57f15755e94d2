----------------------------- MODULE FileStore -----------------------------
(***************************************************************************)
(* What reading and writing files promise: a file is a sequence of words   *)
(* without holes.  A write replaces some of them, starting inside the file *)
(* or at its end; removing or truncating a file empties it.                *)
(***************************************************************************)
EXTENDS Integers, Sequences

CONSTANTS Files,
          MaxWrite,     \* words one step of a write stores
          Word(_, _)    \* the word to store at a position of a file

VARIABLE content

Init == content = [f \in Files |-> <<>>]

Write(f, pos, n) ==
    LET old == content[f]
        len == IF pos + n > Len(old) THEN pos + n ELSE Len(old)
    IN  /\ pos <= Len(old)
        /\ content' = [content EXCEPT ![f] =
              [k \in 1 .. len |-> IF pos < k /\ k <= pos + n THEN Word(f, k-1) ELSE old[k]]]

Empty(f) == content' = [content EXCEPT ![f] = <<>>]

Next ==
    \E f \in Files :
        \/ Empty(f)
        \/ \E pos \in 0 .. Len(content[f]), n \in 1 .. MaxWrite : Write(f, pos, n)

Spec == Init /\ [][Next]_content

=============================================================================
