----------------------------- MODULE MCFileCrash -----------------------------
(* Instances of FileCrash for TLC.                                         *)
EXTENDS FileCrash

=============================================================================
