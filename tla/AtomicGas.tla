----------------------------- MODULE AtomicGas -----------------------------
(* What a gas pool promises the threads that share it: a request for gas   *)
(* is answered in one step, refused only when the pool holds less at that  *)
(* moment, and gas is given back in one step.                              *)
EXTENDS Integers

CONSTANTS Threads, Amounts, GasLimit

VARIABLES
    pool,
    want,     \* per thread: the gas of the transaction at hand
    status    \* per thread: "idle", "asked", "refused", "holds"

avars == <<pool, want, status>>

Init ==
    /\ pool = GasLimit
    /\ want = [t \in Threads |-> 0]
    /\ status = [t \in Threads |-> "idle"]

Turn(t, s, u) == status[t] = s /\ status' = [status EXCEPT ![t] = u]

Ask(t) ==
    /\ Turn(t, "idle", "asked")
    /\ \E a \in Amounts : want' = [want EXCEPT ![t] = a]
    /\ UNCHANGED pool

Take(t) ==
    /\ Turn(t, "asked", "holds")
    /\ want[t] <= pool
    /\ pool' = pool - want[t]
    /\ UNCHANGED want

Refuse(t) ==
    /\ Turn(t, "asked", "refused")
    /\ want[t] > pool
    /\ UNCHANGED <<pool, want>>

Drop(t) ==
    /\ Turn(t, "refused", "idle")
    /\ UNCHANGED <<pool, want>>

(* The transaction is over and a part of its gas goes back.                *)
GiveBack(t) ==
    /\ Turn(t, "holds", "idle")
    /\ \E rest \in 0..want[t] : pool' = pool + rest
    /\ UNCHANGED want

Next == \E t \in Threads : Ask(t) \/ Take(t) \/ Refuse(t) \/ Drop(t) \/ GiveBack(t)

Spec == Init /\ [][Next]_avars

=============================================================================
