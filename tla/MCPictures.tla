------------------------------ MODULE MCPictures ------------------------------
(* One more picture than there are askers, so that one may outlive its task. *)
EXTENDS PicturesInv, TLC

CONSTANTS m1, m2, v1

ManualTwo   == {m1, m2}
PeriodicOne == {v1}
AllThreads  == {m1, m2, v1, Loop}
OneOfTwo    == Permutations(ManualTwo)

ManualOne  == {m1}
ThreeThreads == {m1, v1, Loop}
===============================================================================
