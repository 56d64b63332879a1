----------------------------- MODULE MCStateDB -----------------------------
(* An instance of StateDB for TLC.                                         *)
EXTENDS StateDB

CONSTANTS c, rip, h0, h1

MCMaxEntries == [accounts |-> 3, logs |-> 4]
MCMaxRevisions == [accounts |-> 1, logs |-> 2]

=============================================================================
