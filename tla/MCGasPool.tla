----------------------------- MODULE MCGasPool -----------------------------
(* An instance of GasPool for TLC.                                         *)
EXTENDS GasPool, TLC

CONSTANTS t1, t2, t3

Symmetry == Permutations(Threads)

=============================================================================
