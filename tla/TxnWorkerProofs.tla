-------------------------- MODULE TxnWorkerProofs --------------------------
(***************************************************************************)
(* The last layers of the inductive invariant of a batch, the nonces, the  *)
(* block and its gas, and the theorems about them: they hold for every     *)
(* number of threads, every pool and every gas limit.                      *)
(***************************************************************************)
EXTENDS TxnWorkerOwnership, SumTheorems

(* The rest of an account's list starts right after its head.              *)
RestInv ==
    \A p \in Slots : headsAvailable[p] = AVAILABLE =>
        txs[heads[p].from] = heads[p].nonce + 1

(* Every transaction of s in the block comes before the head of s.         *)
Behind(s) ==
    \A i \in DOMAIN blockTxs : blockTxs[i].from = s => blockTxs[i].nonce + 1 < txs[s]

(* At these labels the head of the account is not in the block yet.        *)
FreshLabels == BeforeAppend \cup {"peekTake", "unlock"}

NonceInv ==
    /\ RestInv
    /\ \A i \in DOMAIN blockTxs : blockTxs[i].nonce < txs[blockTxs[i].from]
    /\ \A s \in Senders : s \notin accountLock => Behind(s)
    /\ \A t \in Threads : pc[t] \in FreshLabels => Behind(from[t])
    /\ NonceOrder

IInv == TypeInv /\ OwnerInv /\ BlockTypeOK /\ NonceInv

-----------------------------------------------------------------------------
(* The gas of a transaction of the pool is a number.                       *)
LEMMA PooledGas ==
  ASSUME NEW x, Pooled(x)
  PROVE  x \in Transaction /\ Data(x).gas \in Nat
  <1>1. x \in Transaction /\ x.from \in Senders /\ x.nonce \in Nat \ {0}
    BY Zenon DEF Pooled, Transaction
  <1>2. Pending[x.from] \in Seq(TxData) /\ x.nonce \in 1..Len(Pending[x.from])
    BY <1>1, PendingAssumption DEF Pooled
  <1>3. Data(x) \in TxData
    BY <1>2 DEF Data
  <1> QED
    BY <1>1, <1>3, Zenon DEF TxData

(* Every step keeps the types of the block: a thread that executes or      *)
(* appends has a transaction of the pool at hand.                          *)
LEMMA BlockTypeNext ==
  TypeInv /\ OwnerInv /\ BlockTypeOK /\ [Next]_vars => BlockTypeOK'
  <1> SUFFICES ASSUME TypeInv, OwnerInv, BlockTypeOK, [Next]_vars PROVE BlockTypeOK'
    OBVIOUS
  <1>1. ASSUME UNCHANGED <<blockVars, execVars>> PROVE BlockTypeOK'
    BY <1>1, Zenon DEF BlockTypeOK, blockVars, execVars
  <1>2. ASSUME NEW t \in Threads, WorkerStep(t) PROVE BlockTypeOK'
    <2>1. pc[t] \in (HoldingLabels \ {"peekTake"}) \cup {"returned"} =>
            tx[t] \in Transaction /\ Data(tx[t]).gas \in Nat
      BY PooledGas, Zenon DEF OwnerInv, ThreadInv, TxAt
    <2> DEFINE gas == Data(tx[t]).gas
    <2>2. CASE CheckLoopStatus(t) \/ CheckInterrupt(t) \/ SendIncrease(t) \/ StoreReturn(t)
               \/ CasBreak(t)
      BY <1>1, <2>2, Zenon DEF CheckLoopStatus, CheckInterrupt, SendIncrease, StoreReturn, CasBreak
    <2>3. CASE CheckGas(t) \/ NoTransaction(t) \/ CheckProtected(t)
      BY <2>3, Zenon DEF BlockTypeOK, CheckGas, NoTransaction, CheckProtected, blockVars
    <2>4. CASE BuyGas(t)
      <3>1. gas \in Nat
        BY <2>1, <2>4, Zenon DEF BuyGas, HoldingLabels
      <3>2. gasPool' \in Nat
        BY <2>4, <3>1 DEF BuyGas, BlockTypeOK
      <3> QED
        BY <2>4, <3>2, Zenon DEF BuyGas, BlockTypeOK
    <2>5. CASE Execute(t)
      <3>1. gas \in Nat
        BY <2>1, <2>5, Zenon DEF Execute, HoldingLabels
      <3> HIDE DEF gas
      <3>2. CASE UNCHANGED <<gasPool, gasUsed>>
        BY <2>5, <3>2, Zenon DEF Execute, BlockTypeOK
      <3>3. CASE \E used \in GasUses : /\ used <= gas
                                       /\ gasPool' = gasPool + (gas - used)
                                       /\ gasUsed' = [gasUsed EXCEPT ![t] = used]
        <4>1. PICK used \in GasUses : /\ used <= gas
                                      /\ gasPool' = gasPool + (gas - used)
                                      /\ gasUsed' = [gasUsed EXCEPT ![t] = used]
          BY <3>3, Zenon
        <4>2. used \in Nat /\ gasPool' \in Nat
          BY <3>1, <4>1, GasAssumption DEF BlockTypeOK
        <4>3. gasUsed' \in [Threads -> Nat]
          BY <4>1, <4>2, Zenon DEF BlockTypeOK
        <4> QED
          BY <2>5, <4>2, <4>3, Zenon DEF Execute, BlockTypeOK
      <3> QED
        BY <2>5, <3>2, <3>3, Zenon DEF Execute, gas
    <2>6. CASE AddUsedGas(t)
      BY <2>6 DEF AddUsedGas, BlockTypeOK, execVars
    <2>7. CASE NewReceipt(t)
      BY <2>7, Zenon DEF NewReceipt, BlockTypeOK, blockVars
    <2>8. CASE AppendTx(t)
      <3>1. tx[t] \in Transaction
        BY <2>1, <2>8, Zenon DEF AppendTx, HoldingLabels
      <3> QED
        BY <2>8, <3>1 DEF AppendTx, BlockTypeOK, execVars
    <2>9. CASE AppendReceipt(t)
      <3> DEFINE r == [tx |-> tx[t], gasUsed |-> gasUsed[t], cumulative |-> receiptGas[t]]
      <3>1. tx[t] \in Transaction
        BY <2>1, <2>9, Zenon DEF AppendReceipt, HoldingLabels
      <3>2. r \in [tx : Transaction, gasUsed : Nat, cumulative : Nat]
        BY <3>1, Zenon DEF BlockTypeOK
      <3>3. receipts' = Append(receipts, r)
        BY <2>9, Zenon DEF AppendReceipt
      <3> HIDE DEF r
      <3>4. receipts' \in Seq([tx : Transaction, gasUsed : Nat, cumulative : Nat])
        BY <3>2, <3>3 DEF BlockTypeOK
      <3> QED
        BY <2>9, <3>4, Zenon DEF AppendReceipt, BlockTypeOK
    <2>10. CASE Returned(t)
      <3>1. tx[t] \in Transaction
        BY <2>1, <2>10, Zenon DEF Returned
      <3>2. logged' \in Seq(Transaction)
        <4>1. logged' = Append(logged, tx[t]) \/ logged' = logged
          BY <2>10, Zenon DEF Returned
        <4>2. logged \in Seq(Transaction)
          BY Zenon DEF BlockTypeOK
        <4>3. Append(logged, tx[t]) \in Seq(Transaction)
          BY <3>1, <4>2
        <4> QED
          BY <4>1, <4>2, <4>3, Zenon
      <3>3. gasUsed' \in [Threads -> Nat] /\ receiptGas' \in [Threads -> Nat]
        BY <2>10, Zenon DEF Returned, BlockTypeOK
      <3> QED
        BY <2>10, <3>2, <3>3, Zenon DEF Returned, BlockTypeOK
    <2> QED
      BY <1>2, <2>2, <2>3, <2>4, <2>5, <2>6, <2>7, <2>8, <2>9, <2>10, Zenon DEF WorkerStep
  <1>3. ASSUME NEW t \in Threads, txnWorker(t) PROVE BlockTypeOK'
    BY <1>1, <1>2, <1>3, Zenon DEF txnWorker
  <1>4. ASSUME commitTransactions \/ newWorkLoop \/ UNCHANGED vars PROVE BlockTypeOK'
    BY <1>1, <1>4, Zenon DEF commitTransactions, Join, SendDecrease, newWorkLoop, Interrupt,
       ReceiveAdjust, vars
  <1> QED
    BY <1>3, <1>4, Zenon DEF Next, Terminated

-----------------------------------------------------------------------------
(* A thread that works for an account has it locked.                       *)
LEMMA HoldingAt ==
  ASSUME TypeInv, OwnerInv
  PROVE  \A t \in Threads : Holding(t) => from[t] \in Senders /\ from[t] \in accountLock
  BY Zenon DEF TypeInv, PosInv, OwnerInv, ThreadInv, LockAt, Holding

(* What is known of the nonces when the step neither touches the set nor   *)
(* the block and no thread comes by a fresh head.                          *)
LEMMA NonceFrame ==
  ASSUME NonceInv, UNCHANGED <<heads, headsAvailable, accountLock, txs, blockTxs>>,
         \A u \in Threads : pc'[u] \in FreshLabels => pc[u] \in FreshLabels /\ from'[u] = from[u]
  PROVE  NonceInv'
  <1>1. (RestInv /\ NonceOrder)' /\ \A s : Behind(s)' <=> Behind(s)
    BY Zenon DEF NonceInv, RestInv, NonceOrder, Behind
  <1> QED
    BY <1>1, Zenon DEF NonceInv

(* One thread moves, to a label from which no fresh head is claimed or     *)
(* from one where it was already.                                          *)
LEMMA NonceStep ==
  ASSUME TypeInv, NonceInv, UNCHANGED <<heads, headsAvailable, accountLock, txs, blockTxs>>,
         NEW t \in Threads, NEW l, pc' = [pc EXCEPT ![t] = l],
         l \in FreshLabels => pc[t] \in FreshLabels /\ from'[t] = from[t],
         \A u \in Threads \ {t} : from'[u] = from[u]
  PROVE  NonceInv'
  <1>1. pc'[t] = l /\ \A u \in Threads \ {t} : pc'[u] = pc[u]
    BY Zenon DEF TypeInv, LocalsTypeOK
  <1> QED
    BY <1>1, NonceFrame, Zenon

(* LoadOrStore: nothing of a free account's head is in the block.          *)
LEMMA NonceLoadOrStore ==
  ASSUME TypeInv, NonceInv, NEW t \in Threads, pc[t] = "peekStore",
         from[t] \notin accountLock, accountLock' = accountLock \cup {from[t]},
         pc' = [pc EXCEPT ![t] = "peekTake"],
         UNCHANGED <<heads, headsAvailable, txs, from, blockTxs>>
  PROVE  NonceInv'
  <1>1. pc'[t] = "peekTake" /\ \A u \in Threads \ {t} : pc'[u] = pc[u]
    BY Zenon DEF TypeInv, LocalsTypeOK
  <1>2. from[t] \in Senders
    BY Zenon DEF TypeInv, PosInv
  <1>3. (RestInv /\ NonceOrder)' /\ \A s : Behind(s)' <=> Behind(s)
    BY Zenon DEF NonceInv, RestInv, NonceOrder, Behind
  <1> QED
    BY <1>1, <1>2, <1>3, Zenon DEF NonceInv

(* The append: the transaction is the account's next, and the account is   *)
(* locked by this thread.                                                  *)
LEMMA NonceAppend ==
  ASSUME TypeInv, OwnerInv, BlockTypeOK, NonceInv, NEW t \in Threads, pc[t] = "appendTx",
         blockTxs' = Append(blockTxs, tx[t]), pc' = [pc EXCEPT ![t] = "appendReceipt"],
         UNCHANGED <<heads, headsAvailable, accountLock, txs, from>>
  PROVE  NonceInv'
  <1> DEFINE n == Len(blockTxs)
  <1>1. pc'[t] = "appendReceipt" /\ \A u \in Threads \ {t} : pc'[u] = pc[u]
    BY Zenon DEF TypeInv, LocalsTypeOK
  <1>2. PICK p \in Slots : Avail(p, from[t]) /\ heads[p] = tx[t]
    BY Zenon DEF OwnerInv, ThreadInv, TxAt, BeforeAppend
  <1>3. tx[t] \in Transaction
    BY PooledGas, Zenon DEF OwnerInv, ThreadInv, TxAt, HoldingLabels
  <1>4. /\ from[t] \in Senders /\ from[t] \in accountLock
        /\ tx[t].from = from[t] /\ txs[from[t]] = tx[t].nonce + 1
        /\ tx[t].nonce \in Nat
    BY <1>2, <1>3, HoldingAt, Zenon DEF Avail, NonceInv, RestInv, Transaction, Holding, HoldingLabels
  <1>5. Behind(from[t])
    BY Zenon DEF NonceInv, FreshLabels, BeforeAppend
  <1>6. /\ n \in Nat /\ DOMAIN blockTxs = 1..n /\ DOMAIN blockTxs' = 1..(n + 1)
        /\ \A i \in 1..n : blockTxs'[i] = blockTxs[i] /\ blockTxs[i] \in Transaction
        /\ blockTxs'[n + 1] = tx[t]
    BY <1>3 DEF BlockTypeOK
  <1>7. \A i \in 1..n : blockTxs[i].from \in Senders /\ blockTxs[i].nonce \in Nat
    BY <1>6, Zenon DEF Transaction
  <1> HIDE DEF n
  <1>8. RestInv'
    BY Zenon DEF NonceInv, RestInv
  <1>9. \A i \in DOMAIN blockTxs' : blockTxs'[i].nonce < txs[blockTxs'[i].from]
    BY <1>4, <1>6 DEF NonceInv
  <1>10. ASSUME NEW s, s # from[t], Behind(s) PROVE Behind(s)'
    BY <1>4, <1>6, <1>10 DEF Behind
  <1>11. \A s \in Senders : s \notin accountLock => Behind(s)'
    BY <1>4, <1>10, Zenon DEF NonceInv
  <1>12. ASSUME NEW u \in Threads, pc'[u] \in FreshLabels PROVE Behind(from[u])'
    <2>1. u # t /\ pc[u] \in FreshLabels
      BY <1>1, <1>12, Zenon DEF FreshLabels, BeforeAppend
    <2>2. from[u] # from[t]
      BY <2>1, Zenon DEF OwnerInv, ExclusiveSender, Holding, HoldingLabels, FreshLabels, BeforeAppend
    <2> QED
      BY <1>10, <2>1, <2>2, Zenon DEF NonceInv
  <1>13. NonceOrder'
    <2> SUFFICES ASSUME NEW i \in 1..(n + 1), NEW j \in 1..(n + 1), i < j,
                        blockTxs'[i].from = blockTxs'[j].from
                 PROVE  blockTxs'[i].nonce < blockTxs'[j].nonce
      BY <1>6, Zenon DEF NonceOrder
    <2>1. CASE j = n + 1
      <3>1. i \in 1..n /\ blockTxs[i].from = from[t]
        BY SMTT(30), <1>4, <1>6, <2>1
      <3>2. blockTxs[i].nonce + 1 < txs[from[t]]
        BY <1>5, <1>6, <3>1, Zenon DEF Behind
      <3> QED
        BY <1>4, <1>6, <1>7, <2>1, <3>1, <3>2, SMTT(60)
    <2>2. CASE j # n + 1
      <3>1. i \in 1..n /\ j \in 1..n
        BY <1>6, <2>2
      <3> QED
        BY <1>6, <3>1, Zenon DEF NonceInv, NonceOrder
    <2> QED
      BY <2>1, <2>2, Zenon
  <1> QED
    BY <1>8, <1>9, <1>11, <1>12, <1>13, Zenon DEF NonceInv

(* Shift: the head moves on past everything the block has of the account.  *)
LEMMA NonceShift ==
  ASSUME TypeInv, OwnerInv, BlockTypeOK, NonceInv, NEW t \in Threads, pc[t] = "Shift",
         heads' = [heads EXCEPT ![pos[t]] = [from |-> from[t], nonce |-> txs[from[t]]]],
         txs' = [txs EXCEPT ![from[t]] = @ + 1],
         pc' = [pc EXCEPT ![t] = "unlock"],
         UNCHANGED <<headsAvailable, accountLock, from, blockTxs>>
  PROVE  NonceInv'
  <1>1. pc'[t] = "unlock" /\ \A u \in Threads \ {t} : pc'[u] = pc[u]
    BY Zenon DEF TypeInv, LocalsTypeOK
  <1>2. pos[t] \in Slots /\ from[t] \in Senders /\ Avail(pos[t], from[t])
    BY CountersInSlots, Zenon DEF HoldingLabels, TypeInv, PosInv, OwnerInv, ThreadInv, FoundAt
  <1>3. /\ heads'[pos[t]] = [from |-> from[t], nonce |-> txs[from[t]]]
        /\ \A p \in Slots \ {pos[t]} : heads'[p] = heads[p]
    BY <1>2, Zenon DEF TypeInv, SetTypeOK
  <1>4. /\ txs[from[t]] \in Nat /\ txs'[from[t]] = txs[from[t]] + 1
        /\ \A s \in Senders : s # from[t] => txs'[s] = txs[s]
    BY <1>2, Zenon DEF TypeInv, SetTypeOK
  <1>5. \A p \in Slots \ {pos[t]} : headsAvailable[p] = AVAILABLE =>
          heads[p] # nil /\ heads[p].from # from[t] /\ heads[p].from \in Senders
    BY <1>2, Zenon DEF OwnerInv, SlotInv, HeadInv, Pooled, Transaction, Avail
  <1>6. RestInv'
    BY <1>2, <1>3, <1>4, <1>5, SMTT(60) DEF NonceInv, RestInv
  <1>7. \A i \in DOMAIN blockTxs : blockTxs[i].from \in Senders /\ blockTxs[i].nonce \in Nat
    <2>1. blockTxs \in Seq(Transaction)
      BY Zenon DEF BlockTypeOK
    <2>2. \A i \in DOMAIN blockTxs : blockTxs[i] \in Transaction
      BY <2>1
    <2> QED
      BY <2>2, Zenon DEF Transaction
  <1>8. \A s \in Senders : txs[s] \in Nat /\ txs'[s] \in Nat /\ txs[s] <= txs'[s]
    BY <1>4, SMTT(60) DEF TypeInv, SetTypeOK
  <1>9. \A i \in DOMAIN blockTxs : blockTxs[i].nonce < txs'[blockTxs[i].from]
    BY <1>7, <1>8, SMTT(60) DEF NonceInv
  <1>10. ASSUME NEW s \in Senders, Behind(s) PROVE Behind(s)'
    BY <1>7, <1>8, <1>10, SMTT(60) DEF Behind
  <1>11. Behind(from[t])'
    BY <1>2, <1>4, <1>7, SMTT(60) DEF Behind, NonceInv
  <1>12. ASSUME NEW u \in Threads, pc'[u] \in FreshLabels PROVE Behind(from[u])'
    <2>1. CASE u = t
      BY <1>11, <2>1, Zenon
    <2>2. CASE u # t
      <3>1. Behind(from[u])
        BY <1>1, <1>12, <2>2, Zenon DEF NonceInv
      <3>2. from[u] \in Senders
        BY <1>1, <1>12, <2>2, Zenon DEF TypeInv, PosInv, HoldingLabels, FreshLabels, BeforeAppend
      <3> QED
        BY <1>10, <3>1, <3>2, Zenon
    <2> QED
      BY <2>1, <2>2, Zenon
  <1>13. NonceOrder'
    BY Zenon DEF NonceInv, NonceOrder
  <1>14. \A s \in Senders : s \notin accountLock' => Behind(s)'
    BY <1>10, Zenon DEF NonceInv
  <1> QED
    BY <1>6, <1>9, <1>12, <1>13, <1>14, Zenon DEF NonceInv

(* Shift releases an account whose head is not in the block.               *)
LEMMA NonceUnlock ==
  ASSUME TypeInv, NonceInv, NEW t \in Threads, pc[t] = "unlock",
         accountLock' = accountLock \ {from[t]}, pc' = [pc EXCEPT ![t] = "returned"],
         UNCHANGED <<heads, headsAvailable, txs, from, blockTxs>>
  PROVE  NonceInv'
  <1>1. pc'[t] = "returned" /\ \A u \in Threads \ {t} : pc'[u] = pc[u]
    BY Zenon DEF TypeInv, LocalsTypeOK
  <1>2. (RestInv /\ NonceOrder)' /\ \A s : Behind(s)' <=> Behind(s)
    BY Zenon DEF NonceInv, RestInv, NonceOrder, Behind
  <1>3. Behind(from[t])
    BY Zenon DEF NonceInv, FreshLabels
  <1> QED
    BY <1>1, <1>2, <1>3, Zenon DEF NonceInv, FreshLabels, BeforeAppend

(* Remove touches only a slot that no longer counts.                       *)
LEMMA NonceRemove ==
  ASSUME TypeInv, NonceInv, NEW t \in Threads, NEW l \in {"removeHead", "returned"},
         pc' = [pc EXCEPT ![t] = l],
         \A p \in Slots : headsAvailable'[p] = AVAILABLE =>
            headsAvailable[p] = AVAILABLE /\ heads'[p] = heads[p],
         UNCHANGED <<accountLock, txs, from, blockTxs>>
  PROVE  NonceInv'
  <1>1. pc'[t] = l /\ \A u \in Threads \ {t} : pc'[u] = pc[u]
    BY Zenon DEF TypeInv, LocalsTypeOK
  <1>2. RestInv'
    BY Zenon DEF NonceInv, RestInv
  <1>3. NonceOrder' /\ \A s : Behind(s)' <=> Behind(s)
    BY Zenon DEF NonceInv, NonceOrder, Behind
  <1> QED
    BY <1>1, <1>2, <1>3, Zenon DEF NonceInv, FreshLabels, BeforeAppend

(* Every step of a thread inside the set keeps the nonces.                 *)
LEMMA NonceSetStep ==
  ASSUME TypeInv, OwnerInv, BlockTypeOK, NonceInv, NEW t \in Threads, SetStep(t), blockTxs' = blockTxs
  PROVE  NonceInv'
  <1>1. ASSUME NEW l, l \notin FreshLabels, pc' = [pc EXCEPT ![t] = l],
               UNCHANGED <<heads, headsAvailable, accountLock, txs>>,
               \A u \in Threads \ {t} : from'[u] = from[u]
        PROVE  NonceInv'
    BY <1>1, NonceStep, Zenon
  <1>2. ASSUME PeekContinue(t), UNCHANGED <<heads, headsAvailable, accountLock, txs>>
        PROVE  NonceInv'
    <2>1. \A u \in Threads \ {t} : from'[u] = from[u]
      BY <1>2, Zenon DEF PeekContinue, TypeInv, LocalsTypeOK
    <2>2. pc' = [pc EXCEPT ![t] = "peekFlag"] \/ pc' = [pc EXCEPT ![t] = "peekNil"]
      BY <1>2, Zenon DEF PeekContinue, Goto
    <2> QED
      BY <1>1, <1>2, <2>1, <2>2, Zenon DEF FreshLabels, BeforeAppend
  <1>3. CASE PeekIndex(t)
    <2>1. /\ pc' = [pc EXCEPT ![t] = "peekFlag"] \/ pc' = [pc EXCEPT ![t] = "peekNil"]
          /\ UNCHANGED <<heads, headsAvailable, accountLock, txs, from>>
      BY <1>3, Zenon DEF PeekIndex, Goto, setVars
    <2> QED
      BY <1>1, <2>1, Zenon DEF FreshLabels, BeforeAppend
  <1>4. CASE PeekFlag(t)
    <2>1. CASE headsAvailable[PeekSlot(t)] = NOT_AVAILABLE
      BY <1>2, <1>4, <2>1, Zenon DEF PeekFlag, setVars
    <2>2. CASE headsAvailable[PeekSlot(t)] # NOT_AVAILABLE
      <3>1. /\ pc' = [pc EXCEPT ![t] = "peekSender"]
            /\ UNCHANGED <<heads, headsAvailable, accountLock, txs, from>>
        BY <1>4, <2>2, Zenon DEF PeekFlag, Goto, setVars
      <3> QED
        BY <1>1, <3>1, Zenon DEF FreshLabels, BeforeAppend
    <2> QED
      BY <2>1, <2>2, Zenon
  <1>5. CASE PeekSender(t)
    <2>1. /\ pc' = [pc EXCEPT ![t] = "panicPeek"] \/ pc' = [pc EXCEPT ![t] = "peekLoad"]
          /\ UNCHANGED <<heads, headsAvailable, accountLock, txs>>
      BY <1>5, Zenon DEF PeekSender, Goto, setVars
    <2>2. \A u \in Threads \ {t} : from'[u] = from[u]
      BY <1>5, Zenon DEF PeekSender, TypeInv, LocalsTypeOK
    <2> QED
      BY <1>1, <2>1, <2>2, Zenon DEF FreshLabels, BeforeAppend
  <1>6. CASE PeekLoad(t)
    <2>1. CASE from[t] \in accountLock
      BY <1>2, <1>6, <2>1, Zenon DEF PeekLoad, setVars
    <2>2. CASE from[t] \notin accountLock
      <3>1. /\ pc' = [pc EXCEPT ![t] = "peekStore"]
            /\ UNCHANGED <<heads, headsAvailable, accountLock, txs, from>>
        BY <1>6, <2>2, Zenon DEF PeekLoad, Goto, setVars
      <3> QED
        BY <1>1, <3>1, Zenon DEF FreshLabels, BeforeAppend
    <2> QED
      BY <2>1, <2>2, Zenon
  <1>7. CASE PeekLoadOrStore(t)
    <2>1. CASE from[t] \in accountLock
      BY <1>2, <1>7, <2>1, Zenon DEF PeekLoadOrStore
    <2>2. CASE from[t] \notin accountLock
      BY <1>7, <2>2, NonceLoadOrStore, Zenon DEF PeekLoadOrStore, Goto
    <2> QED
      BY <2>1, <2>2, Zenon
  <1>8. CASE PeekTake(t)
    <2>1. /\ pc[t] = "peekTake" /\ pc' = [pc EXCEPT ![t] = "got"]
          /\ UNCHANGED <<heads, headsAvailable, accountLock, txs, from>>
      BY <1>8, Zenon DEF PeekTake, Goto
    <2> QED
      BY <2>1, NonceStep, Zenon DEF FreshLabels, BeforeAppend
  <1>9. CASE FindHead(t)
    <2>1. /\ pc' = [pc EXCEPT ![t] = "findFlag"]
          /\ UNCHANGED <<heads, headsAvailable, accountLock, txs, from>>
      BY <1>9, Zenon DEF FindHead, Goto, setVars
    <2> QED
      BY <1>1, <2>1, Zenon DEF FreshLabels, BeforeAppend
  <1>10. CASE FindFlag(t)
    <2>1. caller[t] \in {"Shift", "Remove"}
      BY Zenon DEF TypeInv, LocalsTypeOK
    <2>2. \E l \in {"findHead", "panicFind", "Shift", "Remove"} : pc' = [pc EXCEPT ![t] = l]
      BY <1>10, <2>1, Zenon DEF FindFlag, FindContinue, Goto
    <2>3. UNCHANGED <<heads, headsAvailable, accountLock, txs, from>>
      BY <1>10, Zenon DEF FindFlag, setVars
    <2> QED
      BY <1>1, <2>2, <2>3, Zenon DEF FreshLabels, BeforeAppend
  <1>11. CASE ShiftHead(t)
    <2>1. CASE txs[from[t]] <= Len(Pending[from[t]])
      BY <1>11, <2>1, NonceShift, Zenon DEF ShiftHead, Goto
    <2>2. CASE ~(txs[from[t]] <= Len(Pending[from[t]]))
      <3>1. /\ pc' = [pc EXCEPT ![t] = "findHead"]
            /\ UNCHANGED <<heads, headsAvailable, accountLock, txs, from>>
        BY <1>11, <2>2, Zenon DEF ShiftHead, CallFind, Goto
      <3> QED
        BY <1>1, <3>1, Zenon DEF FreshLabels, BeforeAppend
    <2> QED
      BY <2>1, <2>2, Zenon
  <1>12. CASE ShiftUnlock(t)
    BY <1>12, NonceUnlock, Zenon DEF ShiftUnlock, Goto
  <1>13. CASE RemoveFlag(t)
    <2>1. pos[t] \in Slots
      BY <1>13, CountersInSlots, Zenon DEF RemoveFlag, HoldingLabels
    <2>2. \A p \in Slots : headsAvailable'[p] = AVAILABLE =>
            headsAvailable[p] = AVAILABLE /\ heads'[p] = heads[p]
      BY <1>13, <2>1, Zenon DEF RemoveFlag, TypeInv, SetTypeOK, AVAILABLE, NOT_AVAILABLE
    <2>3. /\ \E l \in {"removeHead", "returned"} : pc' = [pc EXCEPT ![t] = l]
          /\ UNCHANGED <<accountLock, txs, from>>
      BY <1>13, Zenon DEF RemoveFlag, Goto
    <2> QED
      BY <2>2, <2>3, NonceRemove, Zenon
  <1>14. CASE RemoveHead(t)
    <2>1. pos[t] \in Slots /\ headsAvailable[pos[t]] = NOT_AVAILABLE
      BY <1>14, CountersInSlots, Zenon DEF RemoveHead, HoldingLabels, OwnerInv, ThreadInv, FoundAt
    <2>2. \A p \in Slots : headsAvailable'[p] = AVAILABLE =>
            headsAvailable[p] = AVAILABLE /\ heads'[p] = heads[p]
      BY <1>14, <2>1 DEF RemoveHead, TypeInv, SetTypeOK, AVAILABLE, NOT_AVAILABLE
    <2>3. pc' = [pc EXCEPT ![t] = "returned"] /\ UNCHANGED <<accountLock, txs, from>>
      BY <1>14, Zenon DEF RemoveHead, Goto
    <2> QED
      BY <2>2, <2>3, NonceRemove, Zenon
  <1> QED
    BY <1>3, <1>4, <1>5, <1>6, <1>7, <1>8, <1>9, <1>10, <1>11, <1>12, <1>13, <1>14, ZenonT(60)
       DEF SetStep, Peek, find, Shift, Remove

(* Every step of a thread outside the set keeps the nonces: it goes on     *)
(* with the execution of a fresh head, or claims none.                     *)
LEMMA NonceWorkerStep ==
  ASSUME TypeInv, OwnerInv, BlockTypeOK, NonceInv, NEW t \in Threads, WorkerStep(t)
  PROVE  NonceInv'
  <1>1. CASE AppendTx(t)
    BY <1>1, NonceAppend, Zenon DEF AppendTx, Goto, setVars
  <1>2. CASE Returned(t)
    <2>1. \E l \in {"panicTo", "done", "loop"} : pc' = [pc EXCEPT ![t] = l]
      BY <1>2, Zenon DEF Returned, Goto
    <2>2. UNCHANGED <<heads, headsAvailable, accountLock, txs, blockTxs>>
      BY <1>2, Zenon DEF Returned, setVars
    <2>3. \A u \in Threads \ {t} : from'[u] = from[u]
      BY <1>2, Zenon DEF Returned, TypeInv, LocalsTypeOK
    <2> QED
      BY <2>1, <2>2, <2>3, NonceStep, Zenon DEF FreshLabels, BeforeAppend
  <1>3. CASE \/ CheckLoopStatus(t) \/ CheckInterrupt(t) \/ SendIncrease(t) \/ StoreReturn(t)
             \/ CheckGas(t) \/ NoTransaction(t) \/ CasBreak(t)
    <2> USE DEF CheckLoopStatus, CheckInterrupt, SendIncrease, StoreReturn, CheckGas,
            NoTransaction, CasBreak
    <2>1. \E l \in {"interrupt", "done", "adjust", "return", "gas", "break", "peek"} :
            pc' = [pc EXCEPT ![t] = l]
      BY <1>3, Zenon DEF Goto
    <2>2. UNCHANGED <<heads, headsAvailable, accountLock, txs, blockTxs, from>>
      BY <1>3, Zenon DEF setVars, blockVars
    <2> QED
      BY <2>1, <2>2, NonceStep, Zenon DEF FreshLabels, BeforeAppend
  <1>4. CASE \/ CheckProtected(t) \/ BuyGas(t) \/ Execute(t) \/ AddUsedGas(t) \/ NewReceipt(t)
             \/ AppendReceipt(t)
    <2> USE DEF CheckProtected, BuyGas, Execute, AddUsedGas, NewReceipt, AppendReceipt
    <2>1. \/ pc' = [pc EXCEPT ![t] = "findHead"]
          \/ /\ pc[t] \in BeforeAppend
             /\ \E l \in BeforeAppend : pc' = [pc EXCEPT ![t] = l]
      BY <1>4, Zenon DEF Goto, CallFind, BeforeAppend
    <2>2. UNCHANGED <<heads, headsAvailable, accountLock, txs, blockTxs, from>>
      BY <1>4, Zenon DEF setVars, blockVars
    <2> HIDE DEF CheckProtected, BuyGas, Execute, AddUsedGas, NewReceipt, AppendReceipt
    <2>3. CASE pc' = [pc EXCEPT ![t] = "findHead"]
      BY <2>2, <2>3, NonceStep, Zenon DEF FreshLabels, BeforeAppend
    <2>4. CASE /\ pc[t] \in BeforeAppend
               /\ \E l \in BeforeAppend : pc' = [pc EXCEPT ![t] = l]
      BY <2>2, <2>4, NonceStep, Zenon DEF FreshLabels
    <2> QED
      BY <2>1, <2>3, <2>4, Zenon
  <1> QED
    BY <1>1, <1>2, <1>3, <1>4, Zenon DEF WorkerStep

(* Every step keeps the nonces.                                            *)
LEMMA NonceNext ==
  TypeInv /\ OwnerInv /\ BlockTypeOK /\ NonceInv /\ [Next]_vars => NonceInv'
  <1> SUFFICES ASSUME TypeInv, OwnerInv, BlockTypeOK, NonceInv, [Next]_vars PROVE NonceInv'
    OBVIOUS
  <1>1. ASSUME UNCHANGED <<setVars, locals, blockVars>> PROVE NonceInv'
    BY <1>1, NonceFrame, Zenon DEF setVars, locals, blockVars
  <1>2. ASSUME commitTransactions \/ newWorkLoop \/ UNCHANGED vars PROVE NonceInv'
    BY <1>1, <1>2, Zenon DEF commitTransactions, Join, SendDecrease, newWorkLoop, Interrupt,
       ReceiveAdjust, vars
  <1>3. ASSUME NEW t \in Threads, txnWorker(t) PROVE NonceInv'
    BY <1>3, NonceSetStep, NonceWorkerStep, Zenon DEF txnWorker, blockVars
  <1> QED
    BY <1>2, <1>3, Zenon DEF Next, Terminated

(* The last layer holds initially.                                        *)
LEMMA BlockInit == Init => BlockTypeOK /\ NonceInv
  <1> SUFFICES ASSUME Init PROVE BlockTypeOK /\ NonceInv
    OBVIOUS
  <1>1. BlockTypeOK
    BY GasAssumption DEF Init, BlockTypeOK
  <1>2. blockTxs = << >> /\ DOMAIN blockTxs = {}
    BY DEF Init
  <1>3. PICK o \in [Slots -> Senders] : heads = [p \in Slots |-> [from |-> o[p], nonce |-> 1]]
    BY Zenon DEF Init, SetInit, NewTransactionsByPriceAndNonce
  <1>4. \A s \in Senders : txs[s] = 2
    BY Zenon DEF Init, SetInit, NewTransactionsByPriceAndNonce
  <1>5. \A p \in Slots : heads[p].from \in Senders /\ heads[p].nonce = 1
    BY <1>3, Zenon
  <1>6. RestInv
    BY <1>4, <1>5 DEF RestInv
  <1> QED
    BY <1>1, <1>2, <1>6, Zenon DEF NonceInv, Behind, NonceOrder

-----------------------------------------------------------------------------
(* The inductive invariant holds in every state of a batch.                *)
THEOREM Invariance == Spec => []IInv
  BY TypeInit, TypeNext, OwnerInit, OwnerNext, BlockInit, BlockTypeNext, NonceNext, PTL
     DEF Spec, IInv

(* Type correctness of a batch, for every number of threads.               *)
THEOREM TypeCorrect == Spec => []TypeOK
  <1>1. IInv => TypeOK
    BY Zenon DEF IInv, TypeInv, TypeOK
  <1> QED
    BY <1>1, Invariance, PTL

(* No two threads work for one account at once: the LoadOrStore of Peek    *)
(* keeps the others out until Shift deletes the entry.                     *)
THEOREM MutualExclusion == Spec => []ExclusiveSender
  <1>1. IInv => ExclusiveSender
    BY Zenon DEF IInv, OwnerInv
  <1> QED
    BY <1>1, Invariance, PTL

(* The block under construction has the transactions of every account in   *)
(* nonce order, none of them twice.                                        *)
THEOREM NonceOrdered == Spec => []NonceOrder
  <1>1. IInv => NonceOrder
    BY Zenon DEF IInv, NonceInv
  <1> QED
    BY <1>1, Invariance, PTL

(* What a thread executes is still the head of an available slot.          *)
THEOREM LiveHead == Spec => []ExecutesLiveHead
  <1>1. IInv => ExecutesLiveHead
    BY Zenon DEF IInv, OwnerInv, ThreadInv, TxAt, BeforeAppend, Avail, ExecutesLiveHead
  <1> QED
    BY <1>1, Invariance, PTL

(* find, called by Shift and Remove, never panics.                         *)
THEOREM FindSafe == Spec => []FindNeverPanics
  <1>1. IInv => FindNeverPanics
    BY Zenon DEF IInv, OwnerInv
  <1> QED
    BY <1>1, Invariance, PTL

-----------------------------------------------------------------------------
(* A removed account never comes back and RETURN is never downgraded:      *)
(* Shift only writes the head of a slot whose flag is up.                  *)
LEMMA RemovalStep == IInv /\ [Next]_vars => [Removal]_vars
  <1> SUFFICES ASSUME TypeInv, OwnerInv, [Next]_vars, vars' # vars PROVE Removal
    BY Zenon DEF IInv
  <1> DEFINE Slot == \A p \in Slots : headsAvailable[p] = NOT_AVAILABLE =>
                        headsAvailable'[p] = NOT_AVAILABLE /\ heads'[p] \in {heads[p], nil}
             Status == loopStatus = "RETURN" => loopStatus' = "RETURN"
  <1>1. ASSUME NEW t \in Threads, SetStep(t) PROVE Slot
    <2>1. CASE ShiftHead(t)
      <3>1. pos[t] \in Slots /\ headsAvailable[pos[t]] = AVAILABLE
        BY <2>1, CountersInSlots, Zenon DEF ShiftHead, HoldingLabels, OwnerInv, ThreadInv, FoundAt, Avail
      <3> QED
        BY <2>1, <3>1, SMTT(60) DEF ShiftHead, TypeInv, SetTypeOK, AVAILABLE, NOT_AVAILABLE
    <2>2. CASE RemoveFlag(t)
      BY <2>2, Zenon DEF RemoveFlag, TypeInv, SetTypeOK
    <2>3. CASE RemoveHead(t)
      BY <2>3, Zenon DEF RemoveHead, TypeInv, SetTypeOK
    <2>4. CASE Peek(t) \/ find(t) \/ ShiftUnlock(t)
      <3>1. UNCHANGED <<heads, headsAvailable>>
        BY <2>4, Zenon DEF Peek, PeekIndex, PeekFlag, PeekSender, PeekLoad, PeekLoadOrStore,
           PeekTake, find, FindHead, FindFlag, ShiftUnlock, setVars
      <3> QED
        BY <3>1, Zenon
    <2> QED
      BY <1>1, <2>1, <2>2, <2>3, <2>4, ZenonT(60) DEF SetStep, Shift, Remove
  <1>2. ASSUME NEW t \in Threads, WorkerStep(t) PROVE Slot /\ Status
    <2> USE DEF WorkerStep, CheckLoopStatus, CheckInterrupt, SendIncrease, StoreReturn, CheckGas,
            NoTransaction, CasBreak, CheckProtected, BuyGas, Execute, AddUsedGas, NewReceipt,
            AppendTx, AppendReceipt, Returned
    <2>1. UNCHANGED <<heads, headsAvailable>>
      BY <1>2, Zenon DEF setVars
    <2>2. Status
      BY <1>2, Zenon DEF ctlVars
    <2> QED
      BY <2>1, <2>2, ZenonT(60)
  <1>3. ASSUME commitTransactions \/ newWorkLoop PROVE Slot /\ Status
    <2>1. UNCHANGED <<heads, headsAvailable, loopStatus>>
      BY <1>3, Zenon DEF commitTransactions, Join, SendDecrease, newWorkLoop, Interrupt,
         ReceiveAdjust, setVars
    <2> QED
      BY <2>1, Zenon
  <1>4. ASSUME NEW t \in Threads, SetStep(t), UNCHANGED ctlVars PROVE Slot /\ Status
    BY <1>1, <1>4, Zenon DEF ctlVars
  <1> HIDE DEF Slot, Status
  <1>5. Slot /\ Status
    BY <1>2, <1>3, <1>4, Zenon DEF Next, Terminated, txnWorker
  <1> QED
    BY <1>5, Zenon DEF Slot, Status, Removal

(* No step undoes a removal or a RETURN.                                   *)
THEOREM RemovalIsFinal == Spec => RemovedForever
  BY Invariance, RemovalStep, PTL DEF Spec, RemovedForever

(* A thread that is about to return has seen the interrupt raised, and     *)
(* commit raises it only once: the value does not change any more.         *)
RaisedInv ==
    /\ \A t \in Threads : pc[t] \in {"adjust", "return"} => interrupt \in {"newHead", "resubmit"}
    /\ loopStatus = "RETURN" => interrupt \in {"newHead", "resubmit"}

(* The interrupt and the return value agree in every step.                 *)
LEMMA DiscardNext ==
  TypeInv /\ RaisedInv /\ DiscardOnlyOnNewHead /\ [Next]_vars => (RaisedInv /\ DiscardOnlyOnNewHead)'
  <1> SUFFICES ASSUME TypeInv, RaisedInv, DiscardOnlyOnNewHead, [Next]_vars
               PROVE  (RaisedInv /\ DiscardOnlyOnNewHead)'
    OBVIOUS
  <1>1. ASSUME UNCHANGED <<loopStatus, interrupt, returnValue, result>>,
               \A u \in Threads : pc'[u] \in {"adjust", "return"} =>
                  pc[u] \in {"adjust", "return"} \/ interrupt \in {"newHead", "resubmit"}
        PROVE  (RaisedInv /\ DiscardOnlyOnNewHead)'
    BY <1>1, Zenon DEF RaisedInv, DiscardOnlyOnNewHead
  <1>2. ASSUME NEW t \in Threads, NEW l, pc' = [pc EXCEPT ![t] = l],
               UNCHANGED <<loopStatus, interrupt, returnValue, result>>,
               l \in {"adjust", "return"} =>
                  pc[t] \in {"adjust", "return"} \/ interrupt \in {"newHead", "resubmit"}
        PROVE  (RaisedInv /\ DiscardOnlyOnNewHead)'
    <2>1. pc'[t] = l /\ \A u \in Threads \ {t} : pc'[u] = pc[u]
      BY <1>2, Zenon DEF TypeInv, LocalsTypeOK
    <2> QED
      BY <1>1, <1>2, <2>1, Zenon
  <1>3. ASSUME NEW t \in Threads, SetStep(t), UNCHANGED ctlVars
        PROVE  (RaisedInv /\ DiscardOnlyOnNewHead)'
    <2>1. caller[t] \in {"Shift", "Remove"}
      BY Zenon DEF TypeInv, LocalsTypeOK
    <2>2. \E l : pc' = [pc EXCEPT ![t] = l] /\ l \notin {"adjust", "return"}
      <3>1. CASE Peek(t)
        <4>1. \E l \in {"peekFlag", "peekNil", "peekSender", "panicPeek", "peekLoad", "peekStore",
                        "peekTake", "got"} : pc' = [pc EXCEPT ![t] = l]
          BY <3>1, Zenon DEF Peek, PeekIndex, PeekFlag, PeekSender, PeekLoad, PeekLoadOrStore,
             PeekTake, PeekContinue, Goto
        <4> QED
          BY <4>1, Zenon
      <3>2. CASE find(t)
        BY <2>1, <3>2, ZenonT(60) DEF find, FindHead, FindFlag, FindContinue, Goto
      <3>3. CASE Shift(t) \/ Remove(t)
        BY <3>3, ZenonT(60) DEF Shift, ShiftHead, ShiftUnlock, Remove, RemoveFlag, RemoveHead,
           CallFind, Goto
      <3> QED
        BY <1>3, <3>1, <3>2, <3>3, Zenon DEF SetStep
    <2> QED
      BY <1>2, <1>3, <2>2, Zenon DEF ctlVars
  <1>4. ASSUME NEW t \in Threads, StoreReturn(t) PROVE (RaisedInv /\ DiscardOnlyOnNewHead)'
    <2>1. pc[t] = "return" /\ pc'[t] = "done" /\ \A u \in Threads \ {t} : pc'[u] = pc[u]
      BY <1>4, Zenon DEF StoreReturn, Goto, TypeInv, LocalsTypeOK
    <2>2. RaisedInv'
      BY <1>4, <2>1, Zenon DEF StoreReturn, RaisedInv
    <2>3. DiscardOnlyOnNewHead'
      BY <1>4, Zenon DEF StoreReturn, DiscardOnlyOnNewHead
    <2> QED
      BY <2>2, <2>3, ZenonT(60)
  <1>5. ASSUME NEW t \in Threads, CasBreak(t) PROVE (RaisedInv /\ DiscardOnlyOnNewHead)'
    <2>1. pc'[t] = "done" /\ \A u \in Threads \ {t} : pc'[u] = pc[u]
      BY <1>5, Zenon DEF CasBreak, Goto, TypeInv, LocalsTypeOK
    <2>2. loopStatus' = "RETURN" => loopStatus = "RETURN"
      BY <1>5, Zenon DEF CasBreak
    <2>3. UNCHANGED <<interrupt, returnValue, result>>
      BY <1>5, Zenon DEF CasBreak
    <2> QED
      BY <2>1, <2>2, <2>3, ZenonT(60) DEF RaisedInv, DiscardOnlyOnNewHead
  <1>6. ASSUME NEW t \in Threads, CheckInterrupt(t) PROVE (RaisedInv /\ DiscardOnlyOnNewHead)'
    <2>1. \E l \in {"adjust", "return", "gas"} :
            /\ pc' = [pc EXCEPT ![t] = l]
            /\ l # "gas" => interrupt \in {"newHead", "resubmit"}
      BY <1>6, Zenon DEF CheckInterrupt, Goto
    <2>2. UNCHANGED <<loopStatus, interrupt, returnValue, result>>
      BY <1>6, Zenon DEF CheckInterrupt, ctlVars
    <2> QED
      BY <1>2, <2>1, <2>2, ZenonT(60)
  <1>7. ASSUME NEW t \in Threads, SendIncrease(t) PROVE (RaisedInv /\ DiscardOnlyOnNewHead)'
    BY <1>2, <1>7, Zenon DEF SendIncrease, Goto
  <1>8. ASSUME NEW t \in Threads, WorkerStep(t), ~StoreReturn(t), ~CasBreak(t),
               ~CheckInterrupt(t), ~SendIncrease(t)
        PROVE  (RaisedInv /\ DiscardOnlyOnNewHead)'
    <2> USE DEF WorkerStep, CheckLoopStatus, CheckGas, NoTransaction, CheckProtected, BuyGas,
            Execute, AddUsedGas, NewReceipt, AppendTx, AppendReceipt, Returned
    <2>1. \E l \in {"interrupt", "done", "break", "peek", "findHead", "buyGas", "execute",
                    "usedGas", "receipt", "appendTx", "appendReceipt", "panicTo", "loop"} :
            pc' = [pc EXCEPT ![t] = l]
      BY <1>8, ZenonT(60) DEF Goto, CallFind
    <2>2. UNCHANGED <<loopStatus, interrupt, returnValue, result>>
      BY <1>8, ZenonT(60) DEF ctlVars
    <2> QED
      BY <1>2, <2>1, <2>2, ZenonT(60)
  <1>9. ASSUME commitTransactions PROVE (RaisedInv /\ DiscardOnlyOnNewHead)'
    <2>1. UNCHANGED <<pc, loopStatus, interrupt, returnValue>>
      BY <1>9, Zenon DEF commitTransactions, Join, SendDecrease, locals
    <2>2. result' => result \/ (loopStatus = "RETURN" /\ returnValue)
      BY <1>9, Zenon DEF commitTransactions, Join, SendDecrease
    <2> QED
      BY <2>1, <2>2, Zenon DEF RaisedInv, DiscardOnlyOnNewHead
  <1>10. ASSUME newWorkLoop PROVE (RaisedInv /\ DiscardOnlyOnNewHead)'
    <2>1. UNCHANGED <<pc, loopStatus, returnValue, result>>
      BY <1>10, Zenon DEF newWorkLoop, Interrupt, ReceiveAdjust, locals
    <2>2. interrupt' = interrupt \/ interrupt = "none"
      BY <1>10, Zenon DEF newWorkLoop, Interrupt, ReceiveAdjust
    <2>3. CASE interrupt' = interrupt
      BY <1>1, <2>1, <2>3, Zenon
    <2>4. CASE interrupt = "none" /\ interrupt' \in {"newHead", "resubmit"}
      BY <2>1, <2>4, Zenon DEF RaisedInv, DiscardOnlyOnNewHead
    <2> QED
      BY <1>10, <2>3, <2>4, ZenonT(60) DEF newWorkLoop, Interrupt, ReceiveAdjust
  <1>11. ASSUME UNCHANGED vars PROVE (RaisedInv /\ DiscardOnlyOnNewHead)'
    BY <1>1, <1>11, Zenon DEF vars, locals, ctlVars
  <1> QED
    BY <1>3, <1>4, <1>5, <1>6, <1>7, <1>8, <1>9, <1>10, <1>11, ZenonT(60) DEF Next, Terminated, txnWorker

(* Whichever thread writes returnValue last, commitTransactions discards   *)
(* the block exactly for a new head.                                       *)
THEOREM DiscardSafe == Spec => []DiscardOnlyOnNewHead
  <1>1. Init => RaisedInv /\ DiscardOnlyOnNewHead
    BY Zenon DEF Init, SetInit, RaisedInv, DiscardOnlyOnNewHead
  <1> QED
    BY <1>1, TypeInit, TypeNext, DiscardNext, PTL DEF Spec

-----------------------------------------------------------------------------
(* Gas.                                                                    *)

(* From buyGas to the append of the receipt a thread has part of the gas   *)
(* of the block at hand.                                                   *)
GasLabels == {"execute", "usedGas", "receipt", "appendTx", "appendReceipt"}

(* The gas of a thread that header.GasUsed has and no receipt has yet, and *)
(* the receipt that the block owes for an appended transaction.            *)
GasOwed(t) == IF pc[t] \in {"receipt", "appendTx", "appendReceipt"} THEN gasUsed[t] ELSE 0
ReceiptOwed(t) == IF pc[t] = "appendReceipt" THEN 1 ELSE 0

gasHeld == [t \in Threads |-> GasHeld(t)]
gasOwed == [t \in Threads |-> GasOwed(t)]
receiptOwed == [t \in Threads |-> ReceiptOwed(t)]
gasOfReceipts == [i \in DOMAIN receipts |-> receipts[i].gasUsed]

(* The receipts of the block.                                              *)
Receipt == [tx : Transaction, gasUsed : Nat, cumulative : Nat]

(* The pool, the block and the threads share the gas limit; the block owes *)
(* the receipts of the threads between two appends, and their gas.         *)
GasInv ==
    /\ gasPool + usedGas + SumFunction(gasHeld) <= GasLimit
    /\ usedGas = SumFunction(gasOfReceipts) + SumFunction(gasOwed)
    /\ Len(blockTxs) = Len(receipts) + SumFunction(receiptOwed)

(* The parts of the sums are numbers.                                      *)
GasTypeOK ==
    /\ gasHeld \in [Threads -> Nat] /\ gasOwed \in [Threads -> Nat]
    /\ receiptOwed \in [Threads -> Nat]
    /\ SumFunction(gasOfReceipts) \in Nat

(* A sum over the threads, of which one thread changes its part.           *)
LEMMA ThreadSum ==
  ASSUME NEW f \in [Threads -> Nat], NEW g \in [Threads -> Nat], NEW t \in Threads,
         \A u \in Threads \ {t} : g[u] = f[u]
  PROVE  /\ SumFunction(f) \in Nat /\ SumFunction(g) \in Nat
         /\ SumFunction(g) = SumFunction(f) + (g[t] - f[t])
  <1>1. DOMAIN f = Threads /\ DOMAIN g = Threads /\ IsFiniteSet(Threads)
    BY ThreadsAssumption, Zenon
  <1>2. \A x \in Threads : f[x] \in Nat /\ g[x] \in Nat /\ f[x] \in Int /\ g[x] \in Int
    OBVIOUS
  <1>3. SumFunction(f) \in Nat /\ SumFunction(g) \in Nat
    BY <1>1, <1>2, SumFunctionNat, Zenon
  <1>4. SumFunction(g) = SumFunction(f) + (g[t] - f[t])
    BY <1>1, <1>2, SumFunctionUpdate, Zenon
  <1> QED
    BY <1>3, <1>4, Zenon

(* What threads hold and owe is a number.                                  *)
LEMMA HeldTypes ==
  ASSUME OwnerInv, BlockTypeOK
  PROVE  /\ gasHeld \in [Threads -> Nat] /\ gasOwed \in [Threads -> Nat]
         /\ receiptOwed \in [Threads -> Nat]
  <1>1. ASSUME NEW t \in Threads PROVE GasHeld(t) \in Nat
    <2>1. pc[t] = "execute" => Data(tx[t]).gas \in Nat
      BY PooledGas, Zenon DEF OwnerInv, ThreadInv, TxAt, HoldingLabels
    <2>2. gasUsed[t] \in Nat /\ 0 \in Nat
      BY DEF BlockTypeOK
    <2> QED
      BY <2>1, <2>2, Zenon DEF GasHeld
  <1>2. ASSUME NEW t \in Threads PROVE GasOwed(t) \in Nat /\ ReceiptOwed(t) \in Nat
    BY DEF GasOwed, ReceiptOwed, BlockTypeOK
  <1> QED
    BY <1>1, <1>2, Zenon DEF gasHeld, gasOwed, receiptOwed

(* The gas of the receipts is a number.                                    *)
LEMMA ReceiptsSum ==
  ASSUME BlockTypeOK
  PROVE  SumFunction(gasOfReceipts) \in Nat
  <1>1. receipts \in Seq(Receipt)
    BY Zenon DEF BlockTypeOK, Receipt
  <1>2. DOMAIN receipts = 1..Len(receipts) /\ Len(receipts) \in Nat
    BY <1>1
  <1>3. \A i \in DOMAIN receipts : receipts[i] \in Receipt
    BY <1>1
  <1>4. \A i \in DOMAIN receipts : receipts[i].gasUsed \in Nat
    BY <1>3, Zenon DEF Receipt
  <1>5. DOMAIN gasOfReceipts = DOMAIN receipts
    BY Zenon DEF gasOfReceipts
  <1>6. IsFiniteSet(DOMAIN gasOfReceipts)
    BY <1>2, <1>5, FS_Interval
  <1>7. \A i \in DOMAIN gasOfReceipts : gasOfReceipts[i] \in Nat
    BY <1>4, Zenon DEF gasOfReceipts
  <1> QED
    BY <1>6, <1>7, SumFunctionNat, Zenon

(* What the sums are made of, from the invariants of the batch.            *)
LEMMA GasTypes == OwnerInv /\ BlockTypeOK => GasTypeOK
  BY HeldTypes, ReceiptsSum, Zenon DEF GasTypeOK

(* The append of a receipt adds its gas.                                   *)
LEMMA ReceiptsAppend ==
  ASSUME BlockTypeOK, NEW r \in Receipt,
         receipts' = Append(receipts, r)
  PROVE  /\ SumFunction(gasOfReceipts') = SumFunction(gasOfReceipts) + r.gasUsed
         /\ Len(receipts') = Len(receipts) + 1
  <1> DEFINE n == Len(receipts)
  <1>1. receipts \in Seq(Receipt)
    BY Zenon DEF BlockTypeOK, Receipt
  <1>2. /\ n \in Nat /\ DOMAIN receipts = 1..n /\ DOMAIN (receipts') = 1..(n + 1)
        /\ \A i \in 1..n : receipts'[i] = receipts[i]
        /\ receipts'[n + 1] = r /\ Len(receipts') = n + 1
    BY <1>1
  <1>3. \A i \in 1..n : receipts[i] \in Receipt
    BY <1>1
  <1> HIDE DEF n
  <1>4. \A i \in 1..n : receipts[i].gasUsed \in Int
    <2>1. \A i \in 1..n : receipts[i].gasUsed \in Nat
      BY <1>3, Zenon DEF Receipt
    <2> QED
      BY <2>1
  <1>5. r.gasUsed \in Int
    <2>1. r.gasUsed \in Nat
      BY Zenon DEF Receipt
    <2> QED
      BY <2>1
  <1>6. n + 1 \notin 1..n /\ 1..(n + 1) = 1..n \cup {n + 1} /\ n + 1 \in 1..(n + 1)
    BY <1>2
  <1>7. /\ DOMAIN gasOfReceipts = 1..n
        /\ \A i \in 1..n : gasOfReceipts[i] = receipts[i].gasUsed
    BY <1>2, Zenon DEF gasOfReceipts
  <1>8. /\ DOMAIN (gasOfReceipts') = 1..(n + 1)
        /\ \A i \in 1..(n + 1) : gasOfReceipts'[i] = receipts'[i].gasUsed
    BY <1>2, Zenon DEF gasOfReceipts
  <1>9. IsFiniteSet(1..n)
    <2>1. 1 \in Int /\ n \in Int
      BY <1>2
    <2> QED
      BY <2>1, FS_Interval, Zenon
  <1>10. \A i \in 1..n : i \in 1..(n + 1)
    BY <1>2
  <1>11. \A i \in 1..n : gasOfReceipts[i] \in Int /\ gasOfReceipts'[i] = gasOfReceipts[i]
    BY <1>2, <1>4, <1>7, <1>8, <1>10, Zenon
  <1>12. gasOfReceipts'[n + 1] = r.gasUsed
    BY <1>2, <1>6, <1>8, Zenon
  <1>13. SumFunction(gasOfReceipts') = SumFunction(gasOfReceipts) + gasOfReceipts'[n + 1]
    <2>1. IsFiniteSet(DOMAIN gasOfReceipts) /\ n + 1 \notin DOMAIN gasOfReceipts
      BY <1>6, <1>7, <1>9, Zenon
    <2>2. DOMAIN (gasOfReceipts') = DOMAIN gasOfReceipts \cup {n + 1}
      BY <1>6, <1>7, <1>8, Zenon
    <2>3. \A i \in DOMAIN gasOfReceipts :
            gasOfReceipts[i] \in Int /\ gasOfReceipts'[i] = gasOfReceipts[i]
      BY <1>7, <1>11, Zenon
    <2>4. gasOfReceipts'[n + 1] \in Int
      BY <1>5, <1>12, Zenon
    <2> QED
      BY SMTT(30), <2>1, <2>2, <2>3, <2>4, SumFunctionExtend
  <1> QED
    BY <1>2, <1>12, <1>13, Zenon DEF n

-----------------------------------------------------------------------------
(* The part of one thread: what it holds and owes before and after a step, *)
(* in the balance of the block.                                            *)
Balanced(t) ==
    /\ gasPool' + usedGas' + GasHeld(t)' <= gasPool + usedGas + GasHeld(t)
    /\ usedGas' + SumFunction(gasOfReceipts) + GasOwed(t)
         = usedGas + SumFunction(gasOfReceipts') + GasOwed(t)'
    /\ Len(blockTxs') + Len(receipts) + ReceiptOwed(t)
         = Len(blockTxs) + Len(receipts') + ReceiptOwed(t)'

(* The arithmetic of a balance of which one part changes with its sum.     *)
LEMMA BoundCarries ==
  ASSUME NEW p \in Nat, NEW u \in Nat, NEW s \in Nat, NEW h \in Nat, NEW bound \in Nat,
         NEW p2 \in Nat, NEW u2 \in Nat, NEW s2 \in Nat, NEW h2 \in Nat,
         p + u + s <= bound, p2 + u2 + h2 <= p + u + h, s2 = s + (h2 - h)
  PROVE  p2 + u2 + s2 <= bound
  OBVIOUS

(* The same for an equation.                                               *)
LEMMA BalanceCarries ==
  ASSUME NEW u \in Nat, NEW r \in Nat, NEW s \in Nat, NEW o \in Nat,
         NEW u2 \in Nat, NEW r2 \in Nat, NEW s2 \in Nat, NEW o2 \in Nat,
         u = r + s, u2 + r + o = u + r2 + o2, s2 = s + (o2 - o)
  PROVE  u2 = r2 + s2
  OBVIOUS

(* A thread that keeps the balance keeps the invariant.                    *)
LEMMA GasBalance ==
  ASSUME BlockTypeOK, GasTypeOK, BlockTypeOK', GasTypeOK', GasInv,
         NEW t \in Threads, Balanced(t),
         \A u \in Threads \ {t} : UNCHANGED <<pc[u], tx[u], gasUsed[u]>>
  PROVE  GasInv'
  <1>1. /\ gasHeld \in [Threads -> Nat] /\ gasOwed \in [Threads -> Nat]
        /\ receiptOwed \in [Threads -> Nat]
    BY Zenon DEF GasTypeOK
  <1>2. /\ gasHeld' \in [Threads -> Nat] /\ gasOwed' \in [Threads -> Nat]
        /\ receiptOwed' \in [Threads -> Nat]
    BY Zenon DEF GasTypeOK
  <1>3. \A u \in Threads \ {t} :
          /\ GasHeld(u)' = GasHeld(u) /\ GasOwed(u)' = GasOwed(u)
          /\ ReceiptOwed(u)' = ReceiptOwed(u)
    BY Zenon DEF GasHeld, GasOwed, ReceiptOwed, Data
  <1>4. /\ gasHeld[t] = GasHeld(t) /\ gasOwed[t] = GasOwed(t) /\ receiptOwed[t] = ReceiptOwed(t)
        /\ gasHeld'[t] = GasHeld(t)' /\ gasOwed'[t] = GasOwed(t)'
        /\ receiptOwed'[t] = ReceiptOwed(t)'
    BY Zenon DEF gasHeld, gasOwed, receiptOwed
  <1>5. \A u \in Threads \ {t} :
          /\ gasHeld'[u] = gasHeld[u] /\ gasOwed'[u] = gasOwed[u]
          /\ receiptOwed'[u] = receiptOwed[u]
    BY <1>3, Zenon DEF gasHeld, gasOwed, receiptOwed
  <1>6. /\ SumFunction(gasHeld) \in Nat /\ SumFunction(gasHeld') \in Nat
        /\ SumFunction(gasHeld') = SumFunction(gasHeld) + (GasHeld(t)' - GasHeld(t))
    BY SMTT(30), <1>1, <1>2, <1>4, <1>5, ThreadSum
  <1>7. /\ SumFunction(gasOwed) \in Nat /\ SumFunction(gasOwed') \in Nat
        /\ SumFunction(gasOwed') = SumFunction(gasOwed) + (GasOwed(t)' - GasOwed(t))
    BY SMTT(30), <1>1, <1>2, <1>4, <1>5, ThreadSum
  <1>8. /\ SumFunction(receiptOwed) \in Nat /\ SumFunction(receiptOwed') \in Nat
        /\ SumFunction(receiptOwed')
             = SumFunction(receiptOwed) + (ReceiptOwed(t)' - ReceiptOwed(t))
    BY SMTT(30), <1>1, <1>2, <1>4, <1>5, ThreadSum
  <1>9. /\ GasHeld(t) \in Nat /\ GasOwed(t) \in Nat /\ ReceiptOwed(t) \in Nat
        /\ GasHeld(t)' \in Nat /\ GasOwed(t)' \in Nat /\ ReceiptOwed(t)' \in Nat
    BY <1>1, <1>2, <1>4, Zenon
  <1>10. SumFunction(gasOfReceipts) \in Nat /\ SumFunction(gasOfReceipts') \in Nat
    BY DEF GasTypeOK
  <1>11. /\ gasPool \in Nat /\ usedGas \in Nat /\ gasPool' \in Nat /\ usedGas' \in Nat
         /\ Len(receipts) \in Nat /\ Len(blockTxs) \in Nat
         /\ Len(receipts') \in Nat /\ Len(blockTxs') \in Nat
    BY SMTT(30) DEF BlockTypeOK
  <1>12. GasLimit \in Nat
    BY GasAssumption
  <1>13. gasPool' + usedGas' + SumFunction(gasHeld') <= GasLimit
    <2> DEFINE p == gasPool
               p2 == gasPool'
               u == usedGas
               u2 == usedGas'
               h == GasHeld(t)
               h2 == GasHeld(t)'
               s == SumFunction(gasHeld)
               s2 == SumFunction(gasHeld')
    <2>1. p2 + u2 + h2 <= p + u + h
      BY Zenon DEF Balanced
    <2>2. p + u + s <= GasLimit
      BY Zenon DEF GasInv
    <2>3. h \in Nat /\ h2 \in Nat /\ s \in Nat /\ s2 \in Nat /\ s2 = s + (h2 - h)
      BY <1>6, <1>9, Zenon
    <2>4. p \in Nat /\ p2 \in Nat /\ u \in Nat /\ u2 \in Nat
      BY <1>11, Zenon
    <2> HIDE DEF p, p2, u, u2, h, h2, s, s2
    <2>5. p2 + u2 + s2 <= GasLimit
      BY SMTT(30), <1>12, <2>1, <2>2, <2>3, <2>4, BoundCarries
    <2> QED
      BY <2>5, Zenon DEF p2, u2, s2
  <1>14. usedGas' = SumFunction(gasOfReceipts') + SumFunction(gasOwed')
    <2> DEFINE u == usedGas
               u2 == usedGas'
               o == GasOwed(t)
               o2 == GasOwed(t)'
               s == SumFunction(gasOwed)
               s2 == SumFunction(gasOwed')
               r == SumFunction(gasOfReceipts)
               r2 == SumFunction(gasOfReceipts')
    <2>1. u2 + r + o = u + r2 + o2
      BY Zenon DEF Balanced
    <2>2. u = r + s
      BY Zenon DEF GasInv
    <2>3. o \in Nat /\ o2 \in Nat /\ s \in Nat /\ s2 \in Nat /\ s2 = s + (o2 - o)
      BY <1>7, <1>9, Zenon
    <2>4. r \in Nat /\ r2 \in Nat /\ u \in Nat /\ u2 \in Nat
      BY <1>10, <1>11, Zenon
    <2> HIDE DEF u, u2, o, o2, s, s2, r, r2
    <2>5. u2 = r2 + s2
      BY SMTT(30), <2>1, <2>2, <2>3, <2>4, BalanceCarries
    <2> QED
      BY <2>5, Zenon DEF u2, r2, s2
  <1>15. Len(blockTxs') = Len(receipts') + SumFunction(receiptOwed')
    <2> DEFINE o == ReceiptOwed(t)
               o2 == ReceiptOwed(t)'
               s == SumFunction(receiptOwed)
               s2 == SumFunction(receiptOwed')
    <2>1. Len(blockTxs') + Len(receipts) + o = Len(blockTxs) + Len(receipts') + o2
      BY Zenon DEF Balanced
    <2>2. Len(blockTxs) = Len(receipts) + s
      BY Zenon DEF GasInv
    <2>3. o \in Nat /\ o2 \in Nat /\ s \in Nat /\ s2 \in Nat /\ s2 = s + (o2 - o)
      BY <1>8, <1>9, Zenon
    <2> HIDE DEF o, o2, s, s2
    <2>4. Len(blockTxs') = Len(receipts') + s2
      BY SMTT(30), <1>11, <2>1, <2>2, <2>3, BalanceCarries
    <2> QED
      BY <2>4, Zenon DEF s2
  <1> QED
    BY Zenon, <1>13, <1>14, <1>15 DEF GasInv

(* A thread outside the stretch from buyGas to the receipt that stays      *)
(* outside holds and owes nothing.                                         *)
LEMMA GasQuiet ==
  ASSUME BlockTypeOK, NEW t \in Threads, pc[t] \notin GasLabels, pc'[t] \notin GasLabels,
         UNCHANGED <<gasPool, usedGas, blockTxs, receipts>>
  PROVE  Balanced(t)
  <1>1. /\ GasHeld(t) = 0 /\ GasOwed(t) = 0 /\ ReceiptOwed(t) = 0
        /\ GasHeld(t)' = 0 /\ GasOwed(t)' = 0 /\ ReceiptOwed(t)' = 0
    BY Zenon DEF GasHeld, GasOwed, ReceiptOwed, GasLabels
  <1>2. gasOfReceipts' = gasOfReceipts
    BY Zenon DEF gasOfReceipts
  <1>3. /\ gasPool \in Nat /\ usedGas \in Nat /\ Len(receipts) \in Nat /\ Len(blockTxs) \in Nat
    BY DEF BlockTypeOK
  <1>4. SumFunction(gasOfReceipts) \in Nat
    BY ReceiptsSum
  <1> QED
    BY SMTT(30), <1>1, <1>2, <1>3, <1>4 DEF Balanced

(* Every step of a worker keeps the balance.                               *)
LEMMA GasWorkerStep ==
  ASSUME TypeInv, OwnerInv, BlockTypeOK, GasTypeOK, NEW t \in Threads, WorkerStep(t)
  PROVE  Balanced(t)
  <1> DEFINE gas == Data(tx[t]).gas
             sum == SumFunction(gasOfReceipts)
  <1>1. pc[t] \in {"buyGas", "execute"} => gas \in Nat
    BY PooledGas, Zenon DEF OwnerInv, ThreadInv, TxAt, HoldingLabels
  <1>2. /\ gasPool \in Nat /\ usedGas \in Nat /\ Len(receipts) \in Nat /\ Len(blockTxs) \in Nat
        /\ gasUsed[t] \in Nat
    BY DEF BlockTypeOK
  <1>3. sum \in Nat
    BY Zenon DEF GasTypeOK
  <1>4. ASSUME NEW l, pc' = [pc EXCEPT ![t] = l] PROVE pc'[t] = l
    BY <1>4, Zenon DEF TypeInv, LocalsTypeOK
  <1>5. ASSUME UNCHANGED receipts PROVE gasOfReceipts' = gasOfReceipts
    BY <1>5, Zenon DEF gasOfReceipts
  <1>6. CASE \/ CheckLoopStatus(t) \/ CheckInterrupt(t) \/ SendIncrease(t) \/ StoreReturn(t)
             \/ CheckGas(t) \/ NoTransaction(t) \/ CasBreak(t) \/ CheckProtected(t)
             \/ Returned(t)
    <2>1. UNCHANGED <<gasPool, usedGas, blockTxs, receipts>>
      BY <1>6, Zenon DEF CheckLoopStatus, CheckInterrupt, SendIncrease, StoreReturn,
         CheckGas, NoTransaction, CasBreak, CheckProtected, Returned, blockVars
    <2>2. pc[t] \notin GasLabels
      BY <1>6, Zenon DEF CheckLoopStatus, CheckInterrupt, SendIncrease, StoreReturn,
         CheckGas, NoTransaction, CasBreak, CheckProtected, Returned, GasLabels
    <2>3. \E l \in {"interrupt", "done", "adjust", "return", "gas", "break", "peek",
                    "findHead", "buyGas", "panicTo", "loop"} : pc' = [pc EXCEPT ![t] = l]
      BY <1>6, Zenon DEF CheckLoopStatus, CheckInterrupt, SendIncrease, StoreReturn,
         CheckGas, NoTransaction, CasBreak, CheckProtected, Returned, Goto, CallFind
    <2>4. pc'[t] \notin GasLabels
      BY <1>4, <2>3, Zenon DEF GasLabels
    <2> QED
      BY Zenon, <2>1, <2>2, <2>4, GasQuiet
  <1>7. CASE BuyGas(t)
    <2>1. CASE pc' = [pc EXCEPT ![t] = "findHead"] /\ UNCHANGED gasPool
      <3>1. pc[t] \notin GasLabels /\ pc'[t] \notin GasLabels
        BY <1>4, <1>7, <2>1, Zenon DEF BuyGas, GasLabels
      <3>2. UNCHANGED <<gasPool, usedGas, blockTxs, receipts>>
        BY <1>7, <2>1, Zenon DEF BuyGas
      <3> QED
        BY Zenon, <3>1, <3>2, GasQuiet
    <2>2. CASE pc' = [pc EXCEPT ![t] = "execute"] /\ gasPool' = gasPool - gas
      <3>1. pc[t] = "buyGas" /\ pc'[t] = "execute"
        BY <1>4, <1>7, <2>2, Zenon DEF BuyGas
      <3>2. UNCHANGED <<usedGas, blockTxs, receipts, tx>>
        BY <1>7, Zenon DEF BuyGas
      <3>3. /\ GasHeld(t) = 0 /\ GasOwed(t) = 0 /\ ReceiptOwed(t) = 0
            /\ GasHeld(t)' = gas /\ GasOwed(t)' = 0 /\ ReceiptOwed(t)' = 0
        BY Zenon, <3>1, <3>2 DEF GasHeld, GasOwed, ReceiptOwed, Data
      <3>4. gas \in Nat /\ SumFunction(gasOfReceipts') = sum
        BY Zenon, <1>1, <1>5, <3>1, <3>2
      <3> HIDE DEF gas, sum
      <3>5. gasPool' + usedGas' + GasHeld(t)' <= gasPool + usedGas + GasHeld(t)
        BY SMTT(30), <1>2, <2>2, <3>2, <3>3, <3>4
      <3> QED
        BY Zenon, <1>2, <1>3, <3>2, <3>3, <3>4, <3>5 DEF Balanced, sum
    <2> QED
      BY <1>7, <2>1, <2>2, Zenon DEF BuyGas, CallFind, Goto
  <1>8. CASE Execute(t)
    <2>0. pc[t] = "execute" /\ gas \in Nat /\ UNCHANGED <<usedGas, blockTxs, receipts, tx>>
      BY <1>1, <1>8, Zenon DEF Execute
    <2>1. GasHeld(t) = gas /\ GasOwed(t) = 0 /\ ReceiptOwed(t) = 0
      BY <2>0, Zenon DEF GasHeld, GasOwed, ReceiptOwed
    <2>2. SumFunction(gasOfReceipts') = sum
      BY Zenon, <1>5, <2>0
    <2>3. CASE pc' = [pc EXCEPT ![t] = "findHead"] /\ UNCHANGED gasPool
      <3>1. pc'[t] = "findHead"
        BY Zenon, <1>4, <2>3
      <3>2. GasHeld(t)' = 0 /\ GasOwed(t)' = 0 /\ ReceiptOwed(t)' = 0
        BY <3>1, Zenon DEF GasHeld, GasOwed, ReceiptOwed
      <3> HIDE DEF gas, sum
      <3>3. gasPool' + usedGas' + GasHeld(t)' <= gasPool + usedGas + GasHeld(t)
        BY SMTT(30), <1>2, <2>0, <2>1, <2>3, <3>2
      <3> QED
        BY Zenon, <1>2, <1>3, <2>0, <2>1, <2>2, <3>2, <3>3 DEF Balanced, sum
    <2>4. ASSUME NEW used \in GasUses, used <= gas, gasPool' = gasPool + (gas - used),
                 gasUsed' = [gasUsed EXCEPT ![t] = used], pc' = [pc EXCEPT ![t] = "usedGas"]
          PROVE  Balanced(t)
      <3>1. pc'[t] = "usedGas"
        BY Zenon, <1>4, <2>4
      <3>2. gasUsed'[t] = used /\ used \in Nat
        BY Zenon, <2>4, GasAssumption DEF BlockTypeOK
      <3>3. GasHeld(t)' = used /\ GasOwed(t)' = 0 /\ ReceiptOwed(t)' = 0
        BY <3>1, <3>2, Zenon DEF GasHeld, GasOwed, ReceiptOwed
      <3> HIDE DEF gas, sum
      <3>4. gasPool' + usedGas' + GasHeld(t)' <= gasPool + usedGas + GasHeld(t)
        BY SMTT(30), <1>2, <2>0, <2>1, <2>4, <3>2, <3>3
      <3> QED
        BY Zenon, <1>2, <1>3, <2>0, <2>1, <2>2, <3>3, <3>4 DEF Balanced, sum
    <2> QED
      BY <1>8, <2>3, <2>4, Zenon DEF Execute, CallFind, Goto
  <1>9. CASE AddUsedGas(t)
    <2>1. /\ pc[t] = "usedGas" /\ pc'[t] = "receipt" /\ usedGas' = usedGas + gasUsed[t]
          /\ UNCHANGED <<gasPool, blockTxs, receipts, gasUsed>>
      BY <1>4, <1>9, Zenon DEF AddUsedGas, Goto, execVars
    <2>2. /\ GasHeld(t) = gasUsed[t] /\ GasOwed(t) = 0 /\ ReceiptOwed(t) = 0
          /\ GasHeld(t)' = 0 /\ GasOwed(t)' = gasUsed[t] /\ ReceiptOwed(t)' = 0
      BY <2>1, Zenon DEF GasHeld, GasOwed, ReceiptOwed
    <2>3. SumFunction(gasOfReceipts') = sum
      BY Zenon, <1>5, <2>1
    <2> HIDE DEF gas, sum
    <2>4. gasPool' + usedGas' + GasHeld(t)' <= gasPool + usedGas + GasHeld(t)
      BY SMTT(30), <1>2, <2>1, <2>2
    <2> QED
      BY SMTT(30), <1>2, <1>3, <2>1, <2>2, <2>3, <2>4 DEF Balanced, sum
  <1>10. CASE NewReceipt(t)
    <2>1. /\ pc[t] = "receipt" /\ pc'[t] = "appendTx"
          /\ UNCHANGED <<gasPool, usedGas, blockTxs, receipts, gasUsed>>
      BY <1>4, <1>10, Zenon DEF NewReceipt, Goto, blockVars
    <2>2. /\ GasHeld(t) = 0 /\ GasOwed(t) = gasUsed[t] /\ ReceiptOwed(t) = 0
          /\ GasHeld(t)' = 0 /\ GasOwed(t)' = gasUsed[t] /\ ReceiptOwed(t)' = 0
      BY <2>1, Zenon DEF GasHeld, GasOwed, ReceiptOwed
    <2>3. SumFunction(gasOfReceipts') = sum
      BY Zenon, <1>5, <2>1
    <2> HIDE DEF gas, sum
    <2> QED
      BY SMTT(30), <1>2, <1>3, <2>1, <2>2, <2>3 DEF Balanced, sum
  <1>11. CASE AppendTx(t)
    <2>1. /\ pc[t] = "appendTx" /\ pc'[t] = "appendReceipt"
          /\ blockTxs' = Append(blockTxs, tx[t])
          /\ UNCHANGED <<gasPool, usedGas, receipts, gasUsed>>
      BY <1>4, <1>11, Zenon DEF AppendTx, Goto, execVars
    <2>2. /\ GasHeld(t) = 0 /\ GasOwed(t) = gasUsed[t] /\ ReceiptOwed(t) = 0
          /\ GasHeld(t)' = 0 /\ GasOwed(t)' = gasUsed[t] /\ ReceiptOwed(t)' = 1
      BY <2>1, Zenon DEF GasHeld, GasOwed, ReceiptOwed
    <2>3. SumFunction(gasOfReceipts') = sum
      BY Zenon, <1>5, <2>1
    <2>4. Len(blockTxs') = Len(blockTxs) + 1
      BY SMTT(30), <2>1 DEF BlockTypeOK
    <2> HIDE DEF gas, sum
    <2> QED
      BY SMTT(30), <1>2, <1>3, <2>1, <2>2, <2>3, <2>4 DEF Balanced, sum
  <1>12. CASE AppendReceipt(t)
    <2> DEFINE r == [tx |-> tx[t], gasUsed |-> gasUsed[t], cumulative |-> receiptGas[t]]
    <2>1. /\ pc[t] = "appendReceipt" /\ pc'[t] = "findHead"
          /\ receipts' = Append(receipts, r)
          /\ UNCHANGED <<gasPool, usedGas, blockTxs, gasUsed>>
      BY <1>4, <1>12, Zenon DEF AppendReceipt, CallFind, Goto
    <2>2. /\ GasHeld(t) = 0 /\ GasOwed(t) = gasUsed[t] /\ ReceiptOwed(t) = 1
          /\ GasHeld(t)' = 0 /\ GasOwed(t)' = 0 /\ ReceiptOwed(t)' = 0
      BY <2>1, Zenon DEF GasHeld, GasOwed, ReceiptOwed
    <2>3. tx[t] \in Transaction /\ gasUsed[t] \in Nat /\ receiptGas[t] \in Nat
      BY <2>1, PooledGas, Zenon DEF OwnerInv, ThreadInv, TxAt, HoldingLabels, BlockTypeOK
    <2>4. r \in Receipt /\ r.gasUsed = gasUsed[t]
      BY <2>3, Zenon DEF Receipt
    <2> HIDE DEF gas, sum, r
    <2>5. /\ SumFunction(gasOfReceipts') = sum + gasUsed[t]
          /\ Len(receipts') = Len(receipts) + 1
      BY <2>1, <2>4, ReceiptsAppend, Zenon DEF sum
    <2> QED
      BY SMTT(30), <1>2, <1>3, <2>1, <2>2, <2>5 DEF Balanced, sum
  <1> QED
    BY <1>6, <1>7, <1>8, <1>9, <1>10, <1>11, <1>12, ZenonT(40) DEF WorkerStep

(* A step inside the set does not touch gas.                               *)
LEMMA GasSetStep ==
  ASSUME TypeInv, BlockTypeOK, NEW t \in Threads, SetStep(t), UNCHANGED blockVars
  PROVE  Balanced(t)
  <1>1. pc[t] \notin GasLabels
    BY Zenon DEF SetStep, Peek, find, Shift, Remove, PeekIndex, PeekFlag, PeekSender, PeekLoad,
       PeekLoadOrStore, PeekTake, FindHead, FindFlag, ShiftHead, ShiftUnlock, RemoveFlag,
       RemoveHead, GasLabels
  <1>2. caller[t] \in {"Shift", "Remove"}
    BY Zenon DEF TypeInv, LocalsTypeOK
  <1>3. \E l \in {"peekFlag", "peekNil", "peekSender", "panicPeek", "peekLoad", "peekStore",
                  "peekTake", "got", "findFlag", "findHead", "panicFind", "Shift", "Remove",
                  "unlock", "returned", "removeHead"} : pc' = [pc EXCEPT ![t] = l]
    <2>1. CASE Peek(t)
      BY <2>1, Zenon DEF Peek, PeekIndex, PeekFlag, PeekSender, PeekLoad, PeekLoadOrStore,
         PeekTake, PeekContinue, Goto
    <2>2. CASE find(t)
      BY <1>2, <2>2, Zenon DEF find, FindHead, FindFlag, FindContinue, Goto
    <2>3. CASE Shift(t) \/ Remove(t)
      BY <2>3, Zenon DEF Shift, Remove, ShiftHead, ShiftUnlock, RemoveFlag, RemoveHead,
         CallFind, Goto
    <2> QED
      BY <2>1, <2>2, <2>3, Zenon DEF SetStep
  <1>4. pc'[t] \notin GasLabels
    BY <1>3, Zenon DEF TypeInv, LocalsTypeOK, GasLabels
  <1> QED
    BY Zenon, <1>1, <1>4, GasQuiet DEF blockVars

(* A step of one thread leaves the registers of the others alone.          *)
LEMMA OthersKeep ==
  ASSUME TypeInv, BlockTypeOK, NEW t \in Threads, txnWorker(t), NEW u \in Threads \ {t}
  PROVE  UNCHANGED <<pc[u], tx[u], gasUsed[u]>>
  <1>1. /\ \E l : pc' = [pc EXCEPT ![t] = l]
        /\ \E x : tx' = [tx EXCEPT ![t] = x] \/ tx' = tx
        /\ \E g : gasUsed' = [gasUsed EXCEPT ![t] = g] \/ gasUsed' = gasUsed
    <2>1. CASE WorkerStep(t)
      BY <2>1, ZenonT(40) DEF WorkerStep, CheckLoopStatus, CheckInterrupt, SendIncrease, StoreReturn,
         CheckGas, NoTransaction, CasBreak, CheckProtected, BuyGas, Execute, AddUsedGas,
         NewReceipt, AppendTx, AppendReceipt, Returned, Goto, CallFind, execVars
    <2>2. CASE SetStep(t) /\ UNCHANGED execVars
      BY <2>2, ZenonT(40) DEF SetStep, Peek, find, Shift, Remove, PeekIndex, PeekFlag, PeekSender,
         PeekLoad, PeekLoadOrStore, PeekTake, PeekContinue, FindHead, FindFlag, FindContinue,
         ShiftHead, ShiftUnlock, RemoveFlag, RemoveHead, CallFind, Goto, execVars
    <2> QED
      BY <2>1, <2>2, Zenon DEF txnWorker
  <1> QED
    BY <1>1, Zenon DEF TypeInv, LocalsTypeOK, BlockTypeOK

(* Gas is conserved by every step.                                         *)
LEMMA GasNext ==
  /\ TypeInv /\ OwnerInv /\ BlockTypeOK /\ GasTypeOK
  /\ BlockTypeOK' /\ GasTypeOK'
  /\ GasInv /\ [Next]_vars
  => GasInv'
  <1> SUFFICES ASSUME TypeInv, OwnerInv, BlockTypeOK, GasTypeOK, BlockTypeOK', GasTypeOK',
                      GasInv, [Next]_vars
               PROVE  GasInv'
    OBVIOUS
  <1>1. ASSUME NEW t \in Threads, txnWorker(t) PROVE GasInv'
    <2>1. Balanced(t)
      BY <1>1, GasWorkerStep, GasSetStep, ZenonT(40) DEF txnWorker
    <2>2. \A u \in Threads \ {t} : UNCHANGED <<pc[u], tx[u], gasUsed[u]>>
      BY Zenon, <1>1, OthersKeep
    <2> QED
      BY Zenon, <2>1, <2>2, GasBalance
  <1>2. ASSUME commitTransactions \/ newWorkLoop \/ UNCHANGED vars PROVE GasInv'
    <2>1. UNCHANGED <<pc, tx, gasPool, usedGas, blockTxs, receipts, gasUsed>>
      BY <1>2, Zenon DEF commitTransactions, Join, SendDecrease, newWorkLoop, Interrupt,
         ReceiveAdjust, vars, locals, blockVars, execVars
    <2>2. /\ gasHeld' = gasHeld /\ gasOwed' = gasOwed /\ receiptOwed' = receiptOwed
          /\ gasOfReceipts' = gasOfReceipts
      BY <2>1, Zenon DEF gasHeld, gasOwed, receiptOwed, gasOfReceipts, GasHeld, GasOwed,
         ReceiptOwed, Data
    <2> QED
      BY Zenon, <2>1, <2>2 DEF GasInv
  <1> QED
    BY <1>1, <1>2, Zenon DEF Next, Terminated

(* Initially nothing is held or owed.                                      *)
LEMMA GasInit == Init /\ GasTypeOK => GasInv
  <1> SUFFICES ASSUME Init, GasTypeOK PROVE GasInv
    OBVIOUS
  <1>1. \A t \in Threads : pc[t] = "loop"
    BY Zenon DEF Init, SetInit
  <1>2. /\ \A t \in DOMAIN gasHeld : gasHeld[t] = 0
        /\ \A t \in DOMAIN gasOwed : gasOwed[t] = 0
        /\ \A t \in DOMAIN receiptOwed : receiptOwed[t] = 0
    BY <1>1, Zenon DEF gasHeld, gasOwed, receiptOwed, GasHeld, GasOwed, ReceiptOwed
  <1>3. DOMAIN gasHeld = Threads /\ DOMAIN gasOwed = Threads /\ DOMAIN receiptOwed = Threads
    BY Zenon DEF gasHeld, gasOwed, receiptOwed
  <1>4. /\ SumFunction(gasHeld) = 0 /\ SumFunction(gasOwed) = 0
        /\ SumFunction(receiptOwed) = 0
    BY <1>2, <1>3, ThreadsAssumption, SumFunctionZero, Zenon
  <1>5. receipts = << >> /\ blockTxs = << >> /\ gasPool = GasLimit /\ usedGas = 0
    BY Zenon DEF Init
  <1>6. DOMAIN gasOfReceipts = {} /\ Len(receipts) = 0 /\ Len(blockTxs) = 0
    BY <1>5 DEF gasOfReceipts
  <1>7. SumFunction(gasOfReceipts) = 0
    BY Zenon, <1>6, FS_EmptySet, SumFunctionZero
  <1> QED
    BY SMTT(30), <1>4, <1>5, <1>6, <1>7, GasAssumption DEF GasInv

(* The invariants of gas.                                                  *)
LEMMA GasInvariance == Spec => [](IInv /\ GasTypeOK /\ GasInv)
  <1>1. IInv => TypeInv /\ OwnerInv /\ BlockTypeOK /\ GasTypeOK
    BY GasTypes, Zenon DEF IInv
  <1> QED
    BY <1>1, Invariance, GasInit, GasNext, PTL DEF Spec

(* The pool, the gas of the block and the gas that executions hold never   *)
(* exceed the gas limit, however buyGas, refundGas and the add to          *)
(* header.GasUsed of the threads interleave.                               *)
THEOREM GasBounded == Spec => []GasBound
  <1>1. GasInv => GasBound
    BY DEF GasInv, GasBound, gasHeld
  <1> QED
    BY <1>1, GasInvariance, PTL

(* When the threads have ended, every transaction of the block has its     *)
(* receipt and header.GasUsed is the gas of the receipts.                  *)
THEOREM GasAccounted == Spec => []UsedGasIsReceiptGas
  <1>1. IInv /\ GasTypeOK /\ GasInv => UsedGasIsReceiptGas
    <2> SUFFICES ASSUME IInv, GasTypeOK, GasInv, AllDone
                 PROVE  /\ Len(receipts) = Len(blockTxs)
                        /\ usedGas = SumFunction(gasOfReceipts)
      BY DEF UsedGasIsReceiptGas, gasOfReceipts
    <2>1. /\ \A t \in DOMAIN gasOwed : gasOwed[t] = 0
          /\ \A t \in DOMAIN receiptOwed : receiptOwed[t] = 0
      BY Zenon DEF AllDone, gasOwed, receiptOwed, GasOwed, ReceiptOwed
    <2>2. DOMAIN gasOwed = Threads /\ DOMAIN receiptOwed = Threads
      BY Zenon DEF gasOwed, receiptOwed
    <2>3. SumFunction(gasOwed) = 0 /\ SumFunction(receiptOwed) = 0
      BY <2>1, <2>2, ThreadsAssumption, SumFunctionZero, ZenonT(40)
    <2>4. Len(receipts) \in Nat /\ SumFunction(gasOfReceipts) \in Nat
      BY DEF IInv, BlockTypeOK, GasTypeOK
    <2> QED
      BY SMTT(30), <2>3, <2>4 DEF GasInv
  <1> QED
    BY <1>1, GasInvariance, PTL

=============================================================================
