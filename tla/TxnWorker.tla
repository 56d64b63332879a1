----------------------------- MODULE TxnWorker -----------------------------
(***************************************************************************)
(* One batch of the miner (miner/worker.go): commitTransactions starts the *)
(* txnWorker goroutines on a shared transaction set, waits for them and    *)
(* reports.  A txnWorker takes a transaction, executes it, appends it to   *)
(* the block under construction and tells the set what became of it.  The  *)
(* environment is newWorkLoop, which may raise the interrupt of the batch  *)
(* and drains resubmitAdjustCh while it is not blocked.                    *)
(***************************************************************************)
EXTENDS TxSet, Functions

CONSTANTS
    GasLimit,   \* header.GasLimit
    TxGas,      \* params.TxGas, the least a transaction needs
    GasUses,    \* the amounts of gas an execution may use
    AdjustCap   \* resubmitAdjustChanSize

ASSUME GasAssumption == GasLimit \in Nat /\ TxGas \in Nat /\ GasUses \subseteq Nat
ASSUME AdjustAssumption == AdjustCap \in Nat

VARIABLES
    loopStatus,   \* "OK", "BREAK", "RETURN"
    interrupt,    \* "nil" pointer, or the value it points to
    returnValue,
    adjustCh,     \* number of messages in resubmitAdjustCh
    batch,        \* commitTransactions: "wait", "send" (line 802), "end"
    result,       \* what commitTransactions returned
    gasPool,
    usedGas,      \* header.GasUsed
    blockTxs,     \* current.txs
    receipts,     \* current.receipts: transaction and cumulative gas
    logged,       \* what LockFreeAddTxn has recorded for the verifier
    err,          \* per thread: outcome of the iteration, or why it ended
    gasUsed,      \* per thread: gas used by the execution at hand
    receiptGas    \* per thread: CumulativeGasUsed of the receipt at hand

ctlVars == <<loopStatus, interrupt, returnValue, adjustCh, batch, result>>
blockVars == <<gasPool, usedGas, blockTxs, receipts, logged>>
execVars == <<err, gasUsed, receiptGas>>
vars == <<setVars, locals, ctlVars, blockVars, execVars>>

Init ==
    /\ SetInit
    /\ loopStatus = "OK"
    /\ interrupt \in {"nil", "none"}
    /\ returnValue = FALSE
    /\ adjustCh = 0
    /\ batch = "wait"
    /\ result = FALSE
    /\ gasPool = GasLimit
    /\ usedGas = 0
    /\ blockTxs = << >>
    /\ receipts = << >>
    /\ logged = << >>
    /\ err = [t \in Threads |-> "nil"]
    /\ gasUsed = [t \in Threads |-> 0]
    /\ receiptGas = [t \in Threads |-> 0]

Fail(t, e) == err' = [err EXCEPT ![t] = e]

-----------------------------------------------------------------------------
(* The head of the loop of txnWorker: reasons to stop.                     *)

CheckLoopStatus(t) ==
    /\ pc[t] = "loop"
    /\ Goto(t, IF loopStatus = "OK" THEN "interrupt" ELSE "done")
    /\ UNCHANGED <<setVars, caller, start, pos, from, tx, tempHead,
                   ctlVars, blockVars, execVars>>

CheckInterrupt(t) ==
    /\ pc[t] = "interrupt"
    /\ Goto(t, CASE interrupt = "resubmit" -> "adjust"
                 [] interrupt = "newHead" -> "return"
                 [] OTHER -> "gas")
    /\ UNCHANGED <<setVars, caller, start, pos, from, tx, tempHead,
                   ctlVars, blockVars, execVars>>

(* The send of the increase blocks while the channel is full.              *)
SendIncrease(t) ==
    /\ pc[t] = "adjust"
    /\ adjustCh < AdjustCap
    /\ adjustCh' = adjustCh + 1
    /\ Goto(t, "return")
    /\ UNCHANGED <<setVars, caller, start, pos, from, tx, tempHead,
                   loopStatus, interrupt, returnValue, batch, result,
                   blockVars, execVars>>

(* Mutant: every interrupt discards the block.                             *)
StoreReturnTrue(t) ==
    /\ pc[t] = "return"
    /\ loopStatus' = "RETURN"
    /\ returnValue' = TRUE
    /\ Goto(t, "done")
    /\ UNCHANGED <<setVars, caller, start, pos, from, tx, tempHead,
                   interrupt, adjustCh, batch, result, blockVars, execVars>>

StoreReturn(t) ==
    /\ pc[t] = "return"
    /\ loopStatus' = "RETURN"
    /\ returnValue' = (interrupt = "newHead")
    /\ Goto(t, "done")
    /\ UNCHANGED <<setVars, caller, start, pos, from, tx, tempHead,
                   interrupt, adjustCh, batch, result, blockVars, execVars>>

CheckGas(t) ==
    /\ pc[t] = "gas"
    /\ IF gasPool < TxGas
         THEN Goto(t, "break") /\ Fail(t, "lowGas")
         ELSE Goto(t, "peek") /\ UNCHANGED err
    /\ UNCHANGED <<setVars, caller, start, pos, from, tx, tempHead,
                   ctlVars, blockVars, gasUsed, receiptGas>>

(* Mutant: a thread that gets no transaction stops all of them.            *)
NoTransactionBreaks(t) ==
    /\ pc[t] = "peekNil"
    /\ Goto(t, "break")
    /\ Fail(t, "noTx")
    /\ UNCHANGED <<setVars, caller, start, pos, from, tx, tempHead,
                   ctlVars, blockVars, gasUsed, receiptGas>>

(* Peek returned nil: the thread ends, and tells the others to only when   *)
(* no account is left.                                                     *)
NoTransaction(t) ==
    /\ pc[t] = "peekNil"
    /\ Goto(t, IF NumSenders = 0 THEN "break" ELSE "done")
    /\ Fail(t, "noTx")
    /\ UNCHANGED <<setVars, caller, start, pos, from, tx, tempHead,
                   ctlVars, blockVars, gasUsed, receiptGas>>

(* Mutant: a store in place of the compare-and-swap.                       *)
StoreBreak(t) ==
    /\ pc[t] = "break"
    /\ loopStatus' = "BREAK"
    /\ Goto(t, "done")
    /\ UNCHANGED <<setVars, caller, start, pos, from, tx, tempHead,
                   interrupt, returnValue, adjustCh, batch, result,
                   blockVars, execVars>>

(* CompareAndSwapInt32(loopStatus, OK, BREAK).                             *)
CasBreak(t) ==
    /\ pc[t] = "break"
    /\ loopStatus' = IF loopStatus = "OK" THEN "BREAK" ELSE loopStatus
    /\ Goto(t, "done")
    /\ UNCHANGED <<setVars, caller, start, pos, from, tx, tempHead,
                   interrupt, returnValue, adjustCh, batch, result,
                   blockVars, execVars>>

-----------------------------------------------------------------------------
(* The body: execute the transaction that Peek returned.                   *)

CheckProtected(t) ==
    /\ pc[t] = "got"
    /\ IF Data(tx[t]).protected
         THEN CallFind(t, "Remove") /\ Fail(t, "protected")
         ELSE Goto(t, "buyGas") /\ UNCHANGED <<caller, pos, err>>
    /\ UNCHANGED <<setVars, start, from, tx, tempHead,
                   ctlVars, blockVars, gasUsed, receiptGas>>

(* preCheck goes straight to buyGas, without a look at the nonce: either   *)
(* the sender cannot pay, or the pool is short (SubGas), or the gas of the *)
(* transaction is taken out of the pool.                                   *)
BuyGas(t) ==
    /\ pc[t] = "buyGas"
    /\ LET gas == Data(tx[t]).gas IN
         \/ /\ CallFind(t, "Shift")
            /\ Fail(t, "other")
            /\ UNCHANGED gasPool
         \/ /\ gasPool < gas
            /\ CallFind(t, "Remove")
            /\ Fail(t, "gasLimit")
            /\ UNCHANGED gasPool
         \/ /\ gasPool >= gas
            /\ gasPool' = gasPool - gas
            /\ Goto(t, "execute")
            /\ UNCHANGED <<caller, pos, err>>
    /\ UNCHANGED <<setVars, start, from, tx, tempHead, ctlVars,
                   usedGas, blockTxs, receipts, logged, gasUsed, receiptGas>>

(* TransitionDb after preCheck: an error (intrinsic gas, balance too low   *)
(* for the transfer) keeps the gas out of the pool; otherwise refundGas    *)
(* returns what the execution did not use.                                 *)
Execute(t) ==
    /\ pc[t] = "execute"
    /\ \/ /\ CallFind(t, "Shift")
          /\ Fail(t, "other")
          /\ UNCHANGED <<gasPool, gasUsed>>
       \/ \E used \in GasUses :
            /\ used <= Data(tx[t]).gas
            /\ gasPool' = gasPool + (Data(tx[t]).gas - used)
            /\ gasUsed' = [gasUsed EXCEPT ![t] = used]
            /\ Goto(t, "usedGas")
            /\ UNCHANGED <<caller, pos, err>>
    /\ UNCHANGED <<setVars, start, from, tx, tempHead, ctlVars,
                   usedGas, blockTxs, receipts, logged, receiptGas>>

(* Mutant: the gas of the block is overwritten.                            *)
SetUsedGas(t) ==
    /\ pc[t] = "usedGas"
    /\ usedGas' = gasUsed[t]
    /\ Goto(t, "receipt")
    /\ UNCHANGED <<setVars, caller, start, pos, from, tx, tempHead, ctlVars,
                   gasPool, blockTxs, receipts, logged, execVars>>

(* Mutant: what the transaction asked for is added, not what it used.      *)
AddGasLimit(t) ==
    /\ pc[t] = "usedGas"
    /\ usedGas' = usedGas + Data(tx[t]).gas
    /\ Goto(t, "receipt")
    /\ UNCHANGED <<setVars, caller, start, pos, from, tx, tempHead, ctlVars,
                   gasPool, blockTxs, receipts, logged, execVars>>

AddUsedGas(t) ==
    /\ pc[t] = "usedGas"
    /\ usedGas' = usedGas + gasUsed[t]
    /\ Goto(t, "receipt")
    /\ UNCHANGED <<setVars, caller, start, pos, from, tx, tempHead, ctlVars,
                   gasPool, blockTxs, receipts, logged, execVars>>

NewReceipt(t) ==
    /\ pc[t] = "receipt"
    /\ receiptGas' = [receiptGas EXCEPT ![t] = usedGas]
    /\ Goto(t, "appendTx")
    /\ UNCHANGED <<setVars, caller, start, pos, from, tx, tempHead, ctlVars,
                   blockVars, err, gasUsed>>

AppendTx(t) ==
    /\ pc[t] = "appendTx"
    /\ blockTxs' = Append(blockTxs, tx[t])
    /\ Goto(t, "appendReceipt")
    /\ UNCHANGED <<setVars, caller, start, pos, from, tx, tempHead, ctlVars,
                   gasPool, usedGas, receipts, logged, execVars>>

(* tcount and the coalesced logs are appended to right after and follow    *)
(* the receipts one to one; then the set is told with Shift.               *)
AppendReceipt(t) ==
    /\ pc[t] = "appendReceipt"
    /\ receipts' = Append(receipts, [tx |-> tx[t], gasUsed |-> gasUsed[t],
                                     cumulative |-> receiptGas[t]])
    /\ CallFind(t, "Shift")
    /\ Fail(t, "nil")
    /\ UNCHANGED <<setVars, start, from, tx, tempHead, ctlVars,
                   gasPool, usedGas, blockTxs, logged, gasUsed, receiptGas>>

(* After Shift or Remove.  A committed transaction is recorded for the     *)
(* verifier, with tx.To().String(), which dereferences a nil To.  A        *)
(* protected transaction ends the thread.                                  *)
Returned(t) ==
    /\ pc[t] = "returned"
    /\ IF err[t] = "nil" /\ ~Data(tx[t]).creation
         THEN logged' = Append(logged, tx[t])
         ELSE UNCHANGED logged
    /\ Goto(t, CASE err[t] = "nil" /\ Data(tx[t]).creation -> "panicTo"
                 [] err[t] = "protected" -> "done"
                 [] OTHER -> "loop")
    /\ from' = [from EXCEPT ![t] = nil]
    /\ tx' = [tx EXCEPT ![t] = nil]
    /\ start' = [start EXCEPT ![t] = 0]
    /\ pos' = [pos EXCEPT ![t] = 0]
    /\ gasUsed' = [gasUsed EXCEPT ![t] = 0]
    /\ receiptGas' = [receiptGas EXCEPT ![t] = 0]
    /\ UNCHANGED <<setVars, caller, tempHead, ctlVars,
                   gasPool, usedGas, blockTxs, receipts, err>>

WorkerStep(t) ==
    \/ CheckLoopStatus(t)
    \/ CheckInterrupt(t)
    \/ SendIncrease(t)
    \/ StoreReturn(t)
    \/ CheckGas(t)
    \/ NoTransaction(t)
    \/ CasBreak(t)
    \/ CheckProtected(t)
    \/ BuyGas(t)
    \/ Execute(t)
    \/ AddUsedGas(t)
    \/ NewReceipt(t)
    \/ AppendTx(t)
    \/ AppendReceipt(t)
    \/ Returned(t)

(* txnWorker: one step of a thread, in the worker or inside the set.       *)
txnWorker(t) ==
    \/ WorkerStep(t)
    \/ SetStep(t) /\ UNCHANGED <<ctlVars, blockVars, execVars>>

-----------------------------------------------------------------------------
(* commitTransactions after workerGroup.Wait().                            *)

AllDone == \A t \in Threads : pc[t] = "done"

Panicked == \E t \in Threads : pc[t] \in {"panicPeek", "panicFind", "panicTo"}

Join ==
    /\ AllDone
    /\ batch = "wait"
    /\ batch' = IF loopStatus # "RETURN" /\ interrupt # "nil" THEN "send" ELSE "end"
    /\ result' = (loopStatus = "RETURN" /\ returnValue)
    /\ UNCHANGED <<setVars, locals, loopStatus, interrupt, returnValue, adjustCh,
                   blockVars, execVars>>

SendDecrease ==
    /\ batch = "send"
    /\ adjustCh < AdjustCap
    /\ adjustCh' = adjustCh + 1
    /\ batch' = "end"
    /\ UNCHANGED <<setVars, locals, loopStatus, interrupt, returnValue, result,
                   blockVars, execVars>>

commitTransactions == Join \/ SendDecrease

(* newWorkLoop: commit stores the signal in the interrupt of the batch and *)
(* then blocks on newWorkCh until the batch is over; until then the loop   *)
(* receives from resubmitAdjustCh.                                         *)
Interrupt ==
    /\ batch # "end"
    /\ interrupt = "none"
    /\ interrupt' \in {"newHead", "resubmit"}
    /\ UNCHANGED <<setVars, locals, loopStatus, returnValue, adjustCh, batch, result,
                   blockVars, execVars>>

ReceiveAdjust ==
    /\ interrupt \in {"nil", "none"}
    /\ adjustCh > 0
    /\ adjustCh' = adjustCh - 1
    /\ UNCHANGED <<setVars, locals, loopStatus, interrupt, returnValue, batch, result,
                   blockVars, execVars>>

newWorkLoop == Interrupt \/ ReceiveAdjust

(* The batch is over, or a panic has ended the process.                    *)
Terminated == (batch = "end" \/ Panicked) /\ UNCHANGED vars

Next ==
    \/ ~Panicked /\ (commitTransactions \/ newWorkLoop \/ \E t \in Threads : txnWorker(t))
    \/ Terminated

Spec == Init /\ [][Next]_vars

(* Goroutines are scheduled fairly.  newWorkLoop owes the batch nothing.   *)
FairSpec ==
    /\ Spec
    /\ \A t \in Threads : WF_vars(~Panicked /\ txnWorker(t))
    /\ WF_vars(commitTransactions)

-----------------------------------------------------------------------------
Labels == {"loop", "interrupt", "adjust", "return", "gas", "break", "done",
           "peek", "peekFlag", "peekSender", "peekLoad", "peekStore", "peekNil",
           "panicPeek", "panicFind", "panicTo", "returned"}

(* The labels between LoadOrStore in Peek and the end of Shift or Remove:  *)
(* the thread works for the account from[t].                               *)
HoldingLabels == {"peekTake", "got", "buyGas", "execute", "usedGas", "receipt",
                  "appendTx", "appendReceipt", "findHead", "findFlag", "Shift",
                  "unlock", "Remove", "removeHead"}

(* Type correctness: of the set, of the registers of the threads, of the   *)
(* control of the batch and of the block.                                  *)
SetTypeOK ==
    /\ heads \in [Slots -> Transaction \cup {nil}]
    /\ headsAvailable \in [Slots -> {AVAILABLE, NOT_AVAILABLE}]
    /\ accountLock \subseteq Senders
    /\ txs \in [Senders -> Nat \ {0}]
    /\ index \in Nat

LocalsTypeOK ==
    /\ pc \in [Threads -> Labels \cup HoldingLabels]
    /\ caller \in [Threads -> {"Shift", "Remove"}]
    /\ start \in [Threads -> Nat]
    /\ pos \in [Threads -> Nat]
    /\ from \in [Threads -> Senders \cup {nil}]
    /\ tx \in [Threads -> Transaction \cup {nil}]
    /\ tempHead \in [Threads -> Transaction \cup {nil}]
    /\ err \in [Threads -> {"nil", "other", "gasLimit", "protected", "lowGas", "noTx"}]

CtlTypeOK ==
    /\ loopStatus \in {"OK", "BREAK", "RETURN"}
    /\ interrupt \in {"nil", "none", "newHead", "resubmit"}
    /\ adjustCh \in 0..AdjustCap
    /\ batch \in {"wait", "send", "end"}

FlagsTypeOK == returnValue \in BOOLEAN /\ result \in BOOLEAN

BlockTypeOK ==
    /\ gasPool \in Nat
    /\ usedGas \in Nat
    /\ blockTxs \in Seq(Transaction)
    /\ receipts \in Seq([tx : Transaction, gasUsed : Nat, cumulative : Nat])
    /\ logged \in Seq(Transaction)
    /\ gasUsed \in [Threads -> Nat]
    /\ receiptGas \in [Threads -> Nat]

TypeOK == SetTypeOK /\ LocalsTypeOK /\ CtlTypeOK /\ FlagsTypeOK /\ BlockTypeOK

Holding(t) == pc[t] \in HoldingLabels

(* No two threads ever work for the same account at once, from the         *)
(* LoadOrStore of Peek to the end of Shift or Remove.                      *)
ExclusiveSender ==
    \A t, u \in Threads : t # u /\ Holding(t) /\ Holding(u) => from[t] # from[u]

(* The block takes the transactions of an account in nonce order and none  *)
(* of them twice, however the threads interleave.                          *)
NonceOrder ==
    \A i, j \in DOMAIN blockTxs :
        i < j /\ blockTxs[i].from = blockTxs[j].from
            => blockTxs[i].nonce < blockTxs[j].nonce

(* While a thread executes a transaction that Peek returned, it is still   *)
(* the head of an available slot: no other thread shifts or removes it.    *)
ExecutesLiveHead ==
    \A t \in Threads :
        pc[t] \in {"got", "buyGas", "execute", "usedGas", "receipt",
                   "appendTx", "appendReceipt"} =>
            \E p \in Slots : headsAvailable[p] = AVAILABLE /\ heads[p] = tx[t]

(* find, called by Shift and Remove for the account of the thread, finds   *)
(* it and never meets a nil head, whatever other threads remove meanwhile. *)
FindNeverPanics == \A t \in Threads : pc[t] # "panicFind"

(* A batch that ran out of threads without an interrupt, a shortage of gas *)
(* or a protected transaction has left no account with a transaction, even *)
(* though a thread that sees only locked accounts ends at once.            *)
NoStranding ==
    /\ batch = "end"
    /\ loopStatus # "RETURN"
    /\ \A t \in Threads : err[t] \notin {"lowGas", "protected"}
    => NumSenders = 0

(* The gas of the block and the gas that executions hold never exceed the  *)
(* block's gas limit, and the pool never promises more than is left.       *)
GasHeld(t) ==
    CASE pc[t] = "execute" -> Data(tx[t]).gas
      [] pc[t] = "usedGas" -> gasUsed[t]
      [] OTHER -> 0
GasBound ==
    gasPool + usedGas + SumFunction([t \in Threads |-> GasHeld(t)]) <= GasLimit

(* When the threads have ended, header.GasUsed is the gas of the receipts  *)
(* and there is one receipt for every transaction of the block.            *)
UsedGasIsReceiptGas ==
    AllDone =>
        /\ Len(receipts) = Len(blockTxs)
        /\ usedGas = SumFunction([i \in DOMAIN receipts |-> receipts[i].gasUsed])

(* commitTransactions tells its caller to discard the block only for a new *)
(* head, and a raised resubmit never discards it, whichever thread was the *)
(* last to write returnValue.                                              *)
DiscardOnlyOnNewHead ==
    /\ result => interrupt = "newHead"
    /\ loopStatus = "RETURN" => (returnValue <=> interrupt = "newHead")

(* A removed account never comes back: its slot stays unavailable and its  *)
(* head is not replaced by a transaction, and RETURN is never downgraded.  *)
Removal ==
    /\ \A p \in Slots : headsAvailable[p] = NOT_AVAILABLE =>
          headsAvailable'[p] = NOT_AVAILABLE /\ heads'[p] \in {heads[p], nil}
    /\ loopStatus = "RETURN" => loopStatus' = "RETURN"
RemovedForever == [][Removal]_vars

(* The threads of a batch all end and commitTransactions returns.          *)
BatchEnds == <>(batch = "end" \/ Panicked)

=============================================================================
