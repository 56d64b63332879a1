----------------------------- MODULE MCVerifier -----------------------------
(* Instances of Verifier for TLC.                                          *)
EXTENDS Verifier, TLC

CONSTANTS a, b

Symmetry == Permutations(Senders)

=============================================================================
