--------------------------- MODULE MCGuardedSync ---------------------------
(* Instances of GuardedSync for TLC.                                       *)
EXTENDS GuardedSync, TLC

CONSTANTS f1, f2, f3
MCFile3 == {f1, f2, f3}
Symmetry == Permutations(File)
=============================================================================
