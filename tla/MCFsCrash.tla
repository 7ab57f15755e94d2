----------------------------- MODULE MCFsCrash -----------------------------
(* Instances of FsCrash for TLC.                                           *)
EXTENDS FsCrash

OneLength == {<<1>>, <<2>>}
OneDir    == {<<>>, <<<<1>>>>}

=============================================================================
