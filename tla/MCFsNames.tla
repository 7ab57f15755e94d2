----------------------------- MODULE MCFsNames -----------------------------
(* Instances of FsNames for TLC.  Characters are numbers, names short.     *)
EXTENDS FsNames

(* Names of one length, and names of two lengths.                          *)
OneLength  == {<<1>>, <<2>>}
TwoLengths == {<<1>>, <<2, 2>>}

TopLevel  == {<<>>}

=============================================================================
