------------------------------ MODULE MCFsFile ------------------------------
(* Instances of FsFile for TLC: one or two direct blocks and two words in  *)
(* a block, so that a table has two entries and an inner table as well.    *)
EXTENDS FsFile

=============================================================================
