------------------------------ MODULE MCMkTest ------------------------------
(* Instances of MkTest for TLC.  Characters are numbers, names short.      *)
EXTENDS MkTest

OneLength == {<<1>>, <<2>>}
Name1 == <<1>>
Name2 == <<2>>
TwoLevels == {<<>>, <<<<1>>>>, <<<<2>>>>}

(* The layout theorems of Mkfs, on images of up to 300 blocks.             *)
Layout == INSTANCE Mkfs
ASSUME MkfsOnSmallImages ==
    \A n \in 0 .. 300 :
        /\ 5 <= n => Layout!LayoutGood(n)
        /\ Layout!MapsFit(n)
        /\ Layout!ScanFits(n) <=> 196 <= n

=============================================================================
