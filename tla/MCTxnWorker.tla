---------------------------- MODULE MCTxnWorker ----------------------------
(* Instances of TxnWorker for TLC: small transaction pools.                *)
EXTENDS TxnWorker, TLC

CONSTANTS t1, t2, a, b

Plain == [price |-> 1, gas |-> 2, protected |-> FALSE, creation |-> FALSE]

(* Two accounts, of two transactions and of one.                           *)
TwoAccounts == (a :> <<Plain, Plain>>) @@ (b :> <<Plain>>)

(* An account of a protected transaction next to a plain one.              *)
ProtectedAccount ==
    (a :> <<[Plain EXCEPT !.protected = TRUE], Plain>>) @@ (b :> <<Plain>>)

ThreadSymmetry == Permutations(Threads)

=============================================================================
