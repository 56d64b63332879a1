----------------------------- MODULE MCTransfer -----------------------------
(* An instance of Transfer for TLC.                                        *)
EXTENDS Transfer

CONSTANTS t1, t2, t3, a, b, c

(* Every transfer between two different accounts.                          *)
Distinct == {p \in Accounts \X Accounts : p[1] # p[2]}

=============================================================================
