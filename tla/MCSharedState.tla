--------------------------- MODULE MCSharedState ---------------------------
(* Instances of SharedState for TLC.                                       *)
EXTENDS SharedState, TLC

CONSTANTS t1, t2, s1, s2, x, y, z, cb

Tx(from, to, value, price) ==
    [from |-> from, to |-> to, value |-> value, price |-> price, writes |-> FALSE]

(* Batches where the given accounts have the given transactions.           *)
Batch(f) == f @@ [u \in Accounts |-> << >>]

(* Senders without a common account, of which one pays one fee and may     *)
(* call a contract that writes, and one cannot buy its gas.                *)
Independent ==
    {Batch(s1 :> <<Tx(s1, x, v, 0), Tx(s1, x, w, 0)>> @@ s2 :> <<[Tx(s2, y, v, p) EXCEPT !.writes = (w = 1)]>>
             @@ z :> <<Tx(z, z, 0, Funds + 1)>>) : v, w \in 0..2, p \in 0..1}

(* Two senders with one transaction each that pays a fee.                  *)
Fees == {Batch(s1 :> <<Tx(s1, x, 1, 1)>> @@ s2 :> <<Tx(s2, y, 1, 1)>>)}

=============================================================================
