------------------------------ MODULE GasPool ------------------------------
(***************************************************************************)
(* GasPool (core/gaspool.go), the gas left in the block under construction *)
(* as the executing threads share it: SubGas is a loop of a load and a     *)
(* compare-and-swap, AddGas a check against overflow and an atomic add.    *)
(* A thread runs transactions: buyGas takes the gas of one, refundGas      *)
(* gives back what it did not use, and an error in between gives nothing   *)
(* back.  MaxUint64 stands for the greatest number of 64 bits.             *)
(***************************************************************************)
EXTENDS Integers, FiniteSets, Functions

CONSTANTS
    Threads,
    Amounts,    \* gas limits of transactions
    GasLimit,   \* of the block
    MaxUint64,
    MaxTxs      \* bound: transactions per thread

ASSUME GasPoolAssumption ==
    /\ IsFiniteSet(Threads)
    /\ MaxUint64 \in Nat
    /\ GasLimit \in 0..MaxUint64
    /\ Amounts \subseteq 1..MaxUint64
    /\ MaxTxs \in Nat

VARIABLES
    gp,       \* the pool
    pc,       \* per thread: the next step
    amount,   \* per thread: the argument of SubGas
    gaspool,  \* per thread: what SubGas loaded
    rest,     \* per thread: the argument of AddGas
    spent,    \* the gas that will not come back to the pool
    left      \* per thread: transactions still to run

gasVars == <<gp, pc, amount, gaspool, rest, spent, left>>

GasInit ==
    /\ gp = GasLimit
    /\ pc = [t \in Threads |-> "idle"]
    /\ amount = [t \in Threads |-> 0]
    /\ gaspool = [t \in Threads |-> 0]
    /\ rest = [t \in Threads |-> 0]
    /\ spent = 0
    /\ left = [t \in Threads |-> MaxTxs]

Goto(t, l) == pc' = [pc EXCEPT ![t] = l]

(* buyGas calls SubGas(msg.Gas()).                                         *)
CallSubGas(t) ==
    /\ pc[t] = "idle"
    /\ left[t] > 0
    /\ \E a \in Amounts : amount' = [amount EXCEPT ![t] = a]
    /\ left' = [left EXCEPT ![t] = @ - 1]
    /\ Goto(t, "load")
    /\ UNCHANGED <<gp, gaspool, rest, spent>>

(* Mutant: an amount that would empty the pool is refused.                 *)
SubGasLoadOffByOne(t) ==
    /\ pc[t] = "load"
    /\ gaspool' = [gaspool EXCEPT ![t] = gp]
    /\ Goto(t, IF gp <= amount[t] THEN "refused" ELSE "cas")
    /\ UNCHANGED <<gp, amount, rest, spent, left>>

SubGasLoad(t) ==
    /\ pc[t] = "load"
    /\ gaspool' = [gaspool EXCEPT ![t] = gp]
    /\ Goto(t, IF gp < amount[t] THEN "refused" ELSE "cas")
    /\ UNCHANGED <<gp, amount, rest, spent, left>>

(* Mutant: a store in place of the compare-and-swap.                       *)
SubGasStore(t) ==
    /\ pc[t] = "cas"
    /\ gp' = gaspool[t] - amount[t]
    /\ Goto(t, "execute")
    /\ UNCHANGED <<amount, gaspool, rest, spent, left>>

(* Mutant: a failed compare-and-swap is tried again without a new load.    *)
SubGasNoReload(t) ==
    /\ pc[t] = "cas"
    /\ gp = gaspool[t]
    /\ gp' = gaspool[t] - amount[t]
    /\ Goto(t, "execute")
    /\ UNCHANGED <<amount, gaspool, rest, spent, left>>

SubGasCas(t) ==
    /\ pc[t] = "cas"
    /\ IF gp = gaspool[t]
         THEN gp' = gaspool[t] - amount[t] /\ Goto(t, "execute")
         ELSE Goto(t, "load") /\ UNCHANGED gp
    /\ UNCHANGED <<amount, gaspool, rest, spent, left>>

(* ErrGasLimitReached: the transaction does not run.                       *)
Refused(t) ==
    /\ pc[t] = "refused"
    /\ Goto(t, "idle")
    /\ UNCHANGED <<gp, amount, gaspool, rest, spent, left>>

(* TransitionDb after buyGas: an error leaves the gas out of the pool, an  *)
(* execution calls refundGas with what it did not use.                     *)
Execute(t) ==
    /\ pc[t] = "execute"
    /\ \/ /\ spent' = spent + amount[t]
          /\ Goto(t, "idle")
          /\ UNCHANGED rest
       \/ /\ \E r \in 0..amount[t] : rest' = [rest EXCEPT ![t] = r]
          /\ Goto(t, "check")
          /\ UNCHANGED spent
    /\ UNCHANGED <<gp, amount, gaspool, left>>

(* The overflow check of AddGas.                                           *)
AddGasCheck(t) ==
    /\ pc[t] = "check"
    /\ Goto(t, IF gp > MaxUint64 - rest[t] THEN "panic" ELSE "add")
    /\ UNCHANGED <<gp, amount, gaspool, rest, spent, left>>

AddGasAdd(t) ==
    /\ pc[t] = "add"
    /\ gp' = (gp + rest[t]) % (MaxUint64 + 1)
    /\ spent' = spent + (amount[t] - rest[t])
    /\ Goto(t, "idle")
    /\ UNCHANGED <<amount, gaspool, rest, left>>

SubGas(t) == SubGasLoad(t) \/ SubGasCas(t)
AddGas(t) == AddGasCheck(t) \/ AddGasAdd(t)

Step(t) == CallSubGas(t) \/ SubGas(t) \/ Refused(t) \/ Execute(t) \/ AddGas(t)

Finished == \A t \in Threads : pc[t] = "idle" /\ left[t] = 0

GasNext == (\E t \in Threads : Step(t)) \/ (Finished /\ UNCHANGED gasVars)

GasSpec == GasInit /\ [][GasNext]_gasVars

(* Goroutines are scheduled fairly.                                        *)
FairGasSpec == GasSpec /\ \A t \in Threads : WF_gasVars(Step(t))

-----------------------------------------------------------------------------
Held(t) == IF pc[t] \in {"execute", "check", "add"} THEN amount[t] ELSE 0

(* No gas is lost or made by racing SubGas and AddGas: what is in the      *)
(* pool, what transactions hold and what they spent is the block's limit,  *)
(* so that AddGas never meets the overflow it checks for.                  *)
GasConserved ==
    /\ gp + SumFunction([t \in Threads |-> Held(t)]) + spent = GasLimit
    /\ \A t \in Threads : pc[t] # "panic"

(* The loop of SubGas implements an atomic pool: a request is answered at  *)
(* its last load (a refusal) or at its successful compare-and-swap.        *)
Atomic == INSTANCE AtomicGas WITH
    pool <- gp, want <- amount,
    status <- [t \in Threads |->
                 CASE pc[t] = "idle" -> "idle"
                   [] pc[t] \in {"load", "cas"} -> "asked"
                   [] pc[t] = "refused" -> "refused"
                   [] OTHER -> "holds"]
ActsAtomically == Atomic!Spec

(* Every thread gets through its transactions: a compare-and-swap cannot   *)
(* go on failing when the others have come to an end.                      *)
AllFinish == <>Finished

=============================================================================
