----------------------------- MODULE MCFsThreads -----------------------------
(* Instances of FsThreads for TLC.                                         *)
EXTENDS FsThreads

=============================================================================
