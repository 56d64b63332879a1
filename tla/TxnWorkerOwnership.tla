------------------------- MODULE TxnWorkerOwnership -------------------------
(***************************************************************************)
(* Three layers of the inductive invariant of a batch.  The first:         *)
(* the types of the set, of the registers of the threads and of the        *)
(* control of the batch, and that the loop counters of Peek and find stay  *)
(* inside the slots.  The second: who owns an account and its slot.  A     *)
(* thread that works for an account has locked it, is alone with it, and   *)
(* finds its slot where it was.  The third: every account that is left has *)
(* a thread that will come to it.                                          *)
(***************************************************************************)
EXTENDS TxnWorker, FiniteSetTheorems, TLAPS

ScanLabels == {"peekFlag", "peekSender", "peekLoad", "peekStore"}

(* The counters of Peek and find stay inside the slots, and where the      *)
(* account matters it is one.                                              *)
PosInv ==
    \A t \in Threads :
        /\ pc[t] \in HoldingLabels \cup ScanLabels => pos[t] < NumHeads
        /\ pc[t] \in HoldingLabels \cup {"peekLoad", "peekStore"} => from[t] \in Senders

TypeInv == SetTypeOK /\ LocalsTypeOK /\ CtlTypeOK /\ FlagsTypeOK /\ PosInv

-----------------------------------------------------------------------------
(* There is a natural number of slots.                                     *)
LEMMA NumHeadsNat == NumHeads \in Nat
  BY SendersAssumption, FS_CardinalityType, Zenon DEF NumHeads

(* The slot that Peek looks at is a slot.                                  *)
LEMMA ModSlot ==
  ASSUME NEW k \in Nat, NumHeads > 0
  PROVE  k % NumHeads \in Slots
  BY NumHeadsNat, SMT DEF Slots

(* Types and counters: the first layer holds initially.                    *)
LEMMA TypeInit == Init => TypeInv
  <1> SUFFICES ASSUME Init PROVE TypeInv
    OBVIOUS
  <1> USE DEF Init, SetInit, NewTransactionsByPriceAndNonce
  <1>1. PICK o \in [Slots -> Senders] : heads = [p \in Slots |-> [from |-> o[p], nonce |-> 1]]
    OBVIOUS
  <1>2. heads \in [Slots -> Transaction \cup {nil}]
    BY <1>1 DEF Transaction
  <1>3. PosInv
    BY Zenon DEF PosInv, HoldingLabels, ScanLabels
  <1>4. SetTypeOK
    BY <1>2 DEF SetTypeOK, AVAILABLE, NOT_AVAILABLE
  <1>5. LocalsTypeOK
    BY Zenon DEF LocalsTypeOK, Labels
  <1>6. CtlTypeOK
    BY AdjustAssumption DEF CtlTypeOK
  <1>7. FlagsTypeOK
    BY Zenon DEF FlagsTypeOK
  <1> QED
    BY <1>3, <1>4, <1>5, <1>6, <1>7, Zenon DEF TypeInv


(* The counters point at slots.                                            *)
LEMMA CountersInSlots ==
  ASSUME TypeInv, NEW t \in Threads, pc[t] \in HoldingLabels \cup ScanLabels
  PROVE  pos[t] \in Slots /\ PeekSlot(t) \in Slots
  <1>1. pos[t] \in Nat /\ start[t] \in Nat /\ pos[t] < NumHeads
    BY Zenon DEF TypeInv, LocalsTypeOK, PosInv
  <1> QED
    BY <1>1, NumHeadsNat, ModSlot DEF PeekSlot, Slots

(* Peek on its way to the next slot keeps the first layer.                 *)
LEMMA PeekContinueType ==
  ASSUME TypeInv, NEW t \in Threads, pc[t] \in ScanLabels, PeekContinue(t),
         UNCHANGED <<setVars, caller, start, tx, tempHead, err>>
  PROVE  SetTypeOK' /\ LocalsTypeOK' /\ PosInv'
  <1> USE NumHeadsNat DEF TypeInv
  <1>1. SetTypeOK'
    BY Zenon DEF SetTypeOK, setVars
  <1>2. /\ pos' = [pos EXCEPT ![t] = pos[t] + 1]
        /\ from' = [from EXCEPT ![t] = nil]
        /\ pc' = [pc EXCEPT ![t] = IF pos[t] + 1 < NumHeads THEN "peekFlag" ELSE "peekNil"]
    BY Zenon DEF PeekContinue, Goto
  <1>3. LocalsTypeOK'
    BY <1>2 DEF LocalsTypeOK, Labels
  <1>4. PosInv'
    BY <1>2, Zenon DEF LocalsTypeOK, PosInv, HoldingLabels, ScanLabels
  <1> QED
    BY <1>1, <1>3, <1>4, Zenon

(* Every step keeps the first layer.                                       *)
LEMMA TypeNext == TypeInv /\ [Next]_vars => TypeInv'
  <1> SUFFICES ASSUME TypeInv, [Next]_vars PROVE TypeInv'
    OBVIOUS
  <1> USE DEF TypeInv
  <1>1. ASSUME NEW t \in Threads, SetStep(t), UNCHANGED <<ctlVars, blockVars, execVars>>
        PROVE  TypeInv'
    <2> USE <1>1, NumHeadsNat, NilAssumption DEF SetTypeOK, LocalsTypeOK, PosInv, Labels, HoldingLabels, ScanLabels,
         Goto, Transaction, AVAILABLE, NOT_AVAILABLE, setVars, execVars
    <2>1. CtlTypeOK'
      BY Zenon DEF CtlTypeOK, ctlVars
    <2>2. FlagsTypeOK'
      BY Zenon DEF FlagsTypeOK, ctlVars
    <2>3. pc[t] \in HoldingLabels \cup ScanLabels => pos[t] \in Slots /\ PeekSlot(t) \in Slots
      BY CountersInSlots, Zenon
    <2>4. CASE PeekIndex(t)
      <3>1. SetTypeOK' /\ LocalsTypeOK' /\ PosInv'
        BY <2>4, <2>3, ZenonT(60) DEF PeekIndex
      <3> QED
        BY <2>1, <2>2, <3>1, Zenon
    <2>5. CASE PeekFlag(t)
      <3>1. SetTypeOK' /\ LocalsTypeOK' /\ PosInv'
        <4>1. CASE headsAvailable[PeekSlot(t)] = NOT_AVAILABLE
          BY <2>5, <4>1, PeekContinueType, ZenonT(60) DEF PeekFlag
        <4>2. CASE ~(headsAvailable[PeekSlot(t)] = NOT_AVAILABLE)
          BY SMTT(30), <2>5, <2>3, <4>2 DEF PeekFlag
        <4> QED
          BY <4>1, <4>2, Zenon
      <3> QED
        BY <2>1, <2>2, <3>1, Zenon
    <2>6. CASE PeekSender(t)
      <3>1. SetTypeOK' /\ LocalsTypeOK' /\ PosInv'
        <4>1. CASE heads[PeekSlot(t)] = nil
          BY <2>6, <2>3, <4>1, SMTT(60) DEF PeekSender
        <4>2. CASE heads[PeekSlot(t)] # nil
          <5>1. /\ from' = [from EXCEPT ![t] = heads[PeekSlot(t)].from]
                /\ pc' = [pc EXCEPT ![t] = "peekLoad"]
                /\ UNCHANGED <<setVars, caller, start, pos, tx, tempHead>>
            BY Zenon, <2>6, <4>2 DEF PeekSender
          <5>2. heads[PeekSlot(t)].from \in Senders
            BY <2>6, <2>3, <4>2 DEF PeekSender
          <5>3. pc[t] = "peekSender"
            BY <2>6 DEF PeekSender
          <5> QED
            BY Zenon, <5>1, <5>2, <5>3, SMTT(60)
        <4> QED
          BY <4>1, <4>2
      <3> QED
        BY <2>1, <2>2, <3>1, ZenonT(60)
    <2>7. CASE PeekLoad(t)
      <3>1. SetTypeOK' /\ LocalsTypeOK' /\ PosInv'
        <4>1. CASE from[t] \in accountLock
          BY <2>7, <4>1, PeekContinueType, Zenon DEF PeekLoad
        <4>2. CASE ~(from[t] \in accountLock)
          BY <2>7, <2>3, <4>2, ZenonT(40) DEF PeekLoad
        <4> QED
          BY <4>1, <4>2, Zenon
      <3> QED
        BY <2>1, <2>2, <3>1, Zenon
    <2>8. CASE PeekLoadOrStore(t)
      <3>1. SetTypeOK' /\ LocalsTypeOK' /\ PosInv'
        <4>1. CASE from[t] \in accountLock
          BY <2>8, <4>1, PeekContinueType, Zenon DEF PeekLoadOrStore
        <4>2. CASE ~(from[t] \in accountLock)
          BY SMTT(30), <2>8, <2>3, <4>2 DEF PeekLoadOrStore
        <4> QED
          BY <4>1, <4>2, Zenon
      <3> QED
        BY <2>1, <2>2, <3>1, Zenon
    <2>9. CASE PeekTake(t)
      <3>1. SetTypeOK' /\ LocalsTypeOK' /\ PosInv'
        BY <2>9, <2>3, IndexAssumption DEF PeekTake
      <3> QED
        BY <2>1, <2>2, <3>1, Zenon
    <2>10. CASE FindHead(t)
      <3>1. SetTypeOK' /\ LocalsTypeOK' /\ PosInv'
        BY <2>10, <2>3, ZenonT(60) DEF FindHead
      <3> QED
        BY <2>1, <2>2, <3>1, Zenon
    <2>11. CASE FindFlag(t)
      <3>1. SetTypeOK' /\ LocalsTypeOK' /\ PosInv'
        BY <2>11, <2>3, SMTT(60) DEF FindFlag, FindContinue
      <3> QED
        BY <2>1, <2>2, <3>1, Zenon
    <2>12. CASE ShiftHead(t)
      <3> DEFINE next == [from |-> from[t], nonce |-> txs[from[t]]]
      <3>a. /\ from[t] \in Senders /\ pos[t] \in Slots
            /\ txs[from[t]] + 1 \in Nat \ {0}
            /\ next \in Transaction
        BY <2>12, <2>3, SMTT(60) DEF ShiftHead
      <3>b. CASE txs[from[t]] <= Len(Pending[from[t]])
        <4> HIDE DEF next
        <4>1. /\ heads' = [heads EXCEPT ![pos[t]] = next]
              /\ txs' = [txs EXCEPT ![from[t]] = @ + 1]
              /\ pc' = [pc EXCEPT ![t] = "unlock"]
          BY <2>12, <3>b, Zenon DEF ShiftHead, next
        <4> QED
          BY <2>1, <2>2, <2>12, <3>a, <4>1, SMTT(60) DEF ShiftHead
      <3>c. CASE ~(txs[from[t]] <= Len(Pending[from[t]]))
        <4>1. /\ UNCHANGED <<heads, txs>>
              /\ caller' = [caller EXCEPT ![t] = "Remove"]
              /\ pos' = [pos EXCEPT ![t] = 0]
              /\ pc' = [pc EXCEPT ![t] = "findHead"]
          BY <2>12, <3>c, Zenon DEF ShiftHead, CallFind
        <4>2. 0 < NumHeads
          BY <3>a DEF Slots
        <4> QED
          BY <2>1, <2>2, <2>12, <3>a, <4>1, <4>2, ZenonT(60) DEF ShiftHead
      <3> QED
        BY <3>b, <3>c, Zenon
    <2>13. CASE ShiftUnlock(t)
      <3>1. SetTypeOK' /\ LocalsTypeOK' /\ PosInv'
        BY <2>13, <2>3, ZenonT(60) DEF ShiftUnlock
      <3> QED
        BY <2>1, <2>2, <3>1, Zenon
    <2>14. CASE RemoveFlag(t)
      <3>1. SetTypeOK' /\ LocalsTypeOK' /\ PosInv'
        BY <2>14, <2>3 DEF RemoveFlag
      <3> QED
        BY <2>1, <2>2, <3>1, Zenon
    <2>15. CASE RemoveHead(t)
      <3>1. SetTypeOK' /\ LocalsTypeOK' /\ PosInv'
        BY <2>15, <2>3, ZenonT(60) DEF RemoveHead
      <3> QED
        BY <2>1, <2>2, <3>1, Zenon
    <2> QED
      BY <2>4, <2>5, <2>6, <2>7, <2>8, <2>9, <2>10, <2>11, <2>12, <2>13, <2>14, <2>15,
         ZenonT(60) DEF SetStep, Peek, find, Shift, Remove
  <1>2. ASSUME NEW t \in Threads, WorkerStep(t)
        PROVE  TypeInv'
    <2> USE <1>2, NumHeadsNat, NilAssumption
    <2>1. SetTypeOK'
      BY Zenon DEF SetTypeOK, WorkerStep, setVars, CheckLoopStatus, CheckInterrupt,
         SendIncrease, StoreReturn, CheckGas, NoTransaction, CasBreak, CheckProtected,
         BuyGas, Execute, AddUsedGas, NewReceipt, AppendTx, AppendReceipt, Returned
    <2>2. FlagsTypeOK'
      BY Zenon DEF FlagsTypeOK, WorkerStep, ctlVars, CheckLoopStatus, CheckInterrupt,
         SendIncrease, StoreReturn, CheckGas, NoTransaction, CasBreak, CheckProtected,
         BuyGas, Execute, AddUsedGas, NewReceipt, AppendTx, AppendReceipt, Returned
    <2>3. CASE CheckLoopStatus(t)
      BY <2>1, <2>2, <2>3, Zenon DEF CheckLoopStatus, LocalsTypeOK, CtlTypeOK, PosInv,
         Labels, HoldingLabels, ScanLabels, Goto, Transaction,
         locals, ctlVars, execVars
    <2>4. CASE CheckInterrupt(t)
      BY <2>1, <2>2, <2>4, ZenonT(60) DEF CheckInterrupt, LocalsTypeOK, CtlTypeOK, PosInv,
         Labels, HoldingLabels, ScanLabels, Goto, Transaction,
         locals, ctlVars, execVars
    <2>5. CASE SendIncrease(t)
      BY <2>1, <2>2, <2>5, AdjustAssumption DEF SendIncrease, LocalsTypeOK, CtlTypeOK,
         PosInv,
         Labels, HoldingLabels, ScanLabels, Goto, Transaction,
         locals, ctlVars, execVars
    <2>6. CASE StoreReturn(t)
      BY <2>1, <2>2, <2>6, Zenon DEF StoreReturn, LocalsTypeOK, CtlTypeOK, PosInv,
         Labels, HoldingLabels, ScanLabels, Goto, Transaction,
         locals, ctlVars, execVars
    <2>7. CASE CheckGas(t)
      BY <2>1, <2>2, <2>7 DEF CheckGas, Fail, LocalsTypeOK, CtlTypeOK, PosInv,
         Labels, HoldingLabels, ScanLabels, Goto, Transaction,
         locals, ctlVars, execVars
    <2>8. CASE NoTransaction(t)
      BY <2>1, <2>2, <2>8, Zenon DEF NoTransaction, Fail, LocalsTypeOK, CtlTypeOK, PosInv,
         Labels, HoldingLabels, ScanLabels, Goto, Transaction,
         locals, ctlVars, execVars
    <2>9. CASE CasBreak(t)
      BY <2>1, <2>2, <2>9, ZenonT(60) DEF CasBreak, LocalsTypeOK, CtlTypeOK, PosInv,
         Labels, HoldingLabels, ScanLabels, Goto, Transaction,
         locals, ctlVars, execVars
    <2>10. CASE CheckProtected(t)
      BY <2>1, <2>2, <2>10, SMTT(60) DEF CheckProtected, CallFind, Fail, LocalsTypeOK, CtlTypeOK,
         PosInv,
         Labels, HoldingLabels, ScanLabels, Goto, Transaction,
         locals, ctlVars, execVars
    <2>11. CASE BuyGas(t)
      BY <2>1, <2>2, <2>11, SMTT(60) DEF BuyGas, CallFind, Fail, LocalsTypeOK, CtlTypeOK, PosInv,
         Labels, HoldingLabels, ScanLabels, Goto, Transaction,
         locals, ctlVars, execVars
    <2>12. CASE Execute(t)
      BY <2>1, <2>2, <2>12 DEF Execute, CallFind, Fail, LocalsTypeOK, CtlTypeOK, PosInv,
         Labels, HoldingLabels, ScanLabels, Goto, Transaction,
         locals, ctlVars, execVars
    <2>13. CASE AddUsedGas(t)
      BY <2>1, <2>2, <2>13, Zenon DEF AddUsedGas, LocalsTypeOK, CtlTypeOK, PosInv,
         Labels, HoldingLabels, ScanLabels, Goto, Transaction,
         locals, ctlVars, execVars
    <2>14. CASE NewReceipt(t)
      BY <2>1, <2>2, <2>14, ZenonT(60) DEF NewReceipt, LocalsTypeOK, CtlTypeOK, PosInv,
         Labels, HoldingLabels, ScanLabels, Goto, Transaction,
         locals, ctlVars, execVars
    <2>15. CASE AppendTx(t)
      BY <2>1, <2>2, <2>15, ZenonT(60) DEF AppendTx, LocalsTypeOK, CtlTypeOK, PosInv,
         Labels, HoldingLabels, ScanLabels, Goto, Transaction,
         locals, ctlVars, execVars
    <2>16. CASE AppendReceipt(t)
      BY <2>1, <2>2, <2>16, SMTT(60) DEF AppendReceipt, CallFind, Fail, LocalsTypeOK, CtlTypeOK,
         PosInv,
         Labels, HoldingLabels, ScanLabels, Goto, Transaction,
         locals, ctlVars, execVars
    <2>17. CASE Returned(t)
      BY <2>1, <2>2, <2>17 DEF Returned, LocalsTypeOK, CtlTypeOK, PosInv,
         Labels, HoldingLabels, ScanLabels, Goto, Transaction,
         locals, ctlVars, execVars
    <2> QED
      BY <2>3, <2>4, <2>5, <2>6, <2>7, <2>8, <2>9, <2>10, <2>11, <2>12, <2>13, <2>14,
         <2>15, <2>16, <2>17, Zenon DEF WorkerStep
  <1>3. ASSUME commitTransactions \/ newWorkLoop PROVE TypeInv'
    <2> USE <1>3 DEF commitTransactions, Join, SendDecrease, newWorkLoop, Interrupt, ReceiveAdjust
    <2>1. SetTypeOK' /\ LocalsTypeOK' /\ PosInv'
      BY Zenon DEF SetTypeOK, LocalsTypeOK, PosInv, setVars, locals, execVars
    <2>2. CtlTypeOK'
      BY AdjustAssumption DEF CtlTypeOK
    <2>3. FlagsTypeOK'
      BY Zenon DEF FlagsTypeOK
    <2> QED
      BY <2>1, <2>2, <2>3, Zenon
  <1>4. CASE UNCHANGED vars
    BY <1>4, ZenonT(40) DEF SetTypeOK, LocalsTypeOK, CtlTypeOK, FlagsTypeOK, PosInv,
       vars, setVars, locals, ctlVars, execVars
  <1> QED
    BY <1>1, <1>2, <1>3, <1>4, Zenon DEF Next, txnWorker, Terminated

(* The first layer is an invariant.                                        *)
THEOREM TypesAndCounters == Spec => []TypeInv
  BY TypeInit, TypeNext, PTL DEF Spec

-----------------------------------------------------------------------------
(* The second layer: who owns an account.                                  *)

(* Slot p is available and holds a transaction of s.                       *)
Avail(p, s) == headsAvailable[p] = AVAILABLE /\ heads[p] # nil /\ heads[p].from = s

(* x is in the pool.                                                       *)
Pooled(x) == x \in Transaction /\ x.nonce <= Len(Pending[x.from])

(* An available slot has a head, and heads are from the pool.              *)
HeadInv ==
    \A p \in Slots :
        /\ headsAvailable[p] = AVAILABLE => heads[p] # nil
        /\ heads[p] # nil => Pooled(heads[p])

(* An account has one slot.                                                *)
SlotInv ==
    \A p, q \in Slots :
        heads[p] # nil /\ heads[q] # nil /\ heads[p].from = heads[q].from => p = q

(* An account that is not locked is available: Remove keeps the lock.      *)
FreeInv == \A s \in Senders : s \notin accountLock => \E p \in Slots : Avail(p, s)

(* A thread that works for an account has locked it, and until it clears   *)
(* the flag the account is available.                                      *)
LockAt(t) == Holding(t) =>
    /\ from[t] \in accountLock
    /\ pc[t] # "removeHead" => \E p \in Slots : Avail(p, from[t])

(* find has not passed the slot it looks for, and what it copied is the    *)
(* head as it was: nil only if the flag is down.                           *)
FindAt(t) ==
    /\ pc[t] \in {"findHead", "findFlag"} =>
         \A p \in Slots : Avail(p, from[t]) => pos[t] <= p
    /\ pc[t] = "findFlag" =>
         /\ tempHead[t] = nil => headsAvailable[pos[t]] = NOT_AVAILABLE
         /\ tempHead[t] # nil /\ heads[pos[t]] # nil =>
              heads[pos[t]].from = tempHead[t].from

(* What find returned is the slot of the account.                          *)
FoundAt(t) ==
    /\ pc[t] \in {"Shift", "Remove"} => Avail(pos[t], from[t])
    /\ pc[t] = "removeHead" =>
         /\ headsAvailable[pos[t]] = NOT_AVAILABLE
         /\ heads[pos[t]] # nil
         /\ heads[pos[t]].from = from[t]

(* The account that Peek read off a slot has no other slot, so the head it *)
(* takes under the lock is a transaction of the account it locked.         *)
PeekAt(t) ==
    /\ pc[t] \in {"peekLoad", "peekStore"} =>
         \A p \in Slots : heads[p] # nil /\ heads[p].from = from[t] => p = PeekSlot(t)
    /\ pc[t] = "peekTake" => Avail(PeekSlot(t), from[t])

BeforeAppend == {"got", "buyGas", "execute", "usedGas", "receipt", "appendTx"}

(* A transaction in execution is the head of its account, and until the    *)
(* iteration ends the thread has a transaction of the pool at hand.        *)
TxAt(t) ==
    /\ pc[t] \in BeforeAppend \cup {"appendReceipt"} =>
         \E p \in Slots : Avail(p, from[t]) /\ heads[p] = tx[t]
    /\ pc[t] \in (HoldingLabels \ {"peekTake"}) \cup {"returned"} => Pooled(tx[t])

ThreadInv(t) == LockAt(t) /\ FindAt(t) /\ FoundAt(t) /\ PeekAt(t) /\ TxAt(t)

OwnerInv ==
    /\ HeadInv
    /\ SlotInv
    /\ FreeInv
    /\ \A t \in Threads : ThreadInv(t)
    /\ ExclusiveSender
    /\ FindNeverPanics

-----------------------------------------------------------------------------
(* The registers of u and the set are as they were: so is what is known of *)
(* u.                                                                      *)
LEMMA ThreadInvFrame ==
  ASSUME NEW u \in Threads, ThreadInv(u), UNCHANGED <<heads, headsAvailable, accountLock>>,
         UNCHANGED <<pc[u], from[u], pos[u], start[u], tx[u], tempHead[u]>>
  PROVE  ThreadInv(u)'
  BY DEF ThreadInv, LockAt, FindAt, FoundAt, PeekAt, TxAt, Holding, Avail, PeekSlot,
     Pooled

(* What is said of the slots alone.                                        *)
LEMMA SlotsFrame ==
  ASSUME HeadInv, SlotInv, FreeInv, UNCHANGED <<heads, headsAvailable, accountLock>>
  PROVE  HeadInv' /\ SlotInv' /\ FreeInv'
  BY Zenon DEF HeadInv, Pooled, SlotInv, FreeInv, Avail

(* Labels at which a thread neither holds an account nor relies on what it *)
(* has read of the set.                                                    *)
QuietLabels == {"loop", "interrupt", "adjust", "return", "gas", "break", "done",
                "peek", "peekFlag", "peekSender", "peekNil", "panicPeek", "panicTo"}

(* A thread goes to such a label without touching the set.                 *)
LEMMA OwnerQuiet ==
  ASSUME TypeInv, OwnerInv, UNCHANGED <<heads, headsAvailable, accountLock>>, NEW t \in Threads,
         NEW l \in QuietLabels, pc' = [pc EXCEPT ![t] = l],
         \A u \in Threads \ {t} :
            UNCHANGED <<from[u], pos[u], start[u], tx[u], tempHead[u]>>
  PROVE  OwnerInv'
  <1> USE DEF TypeInv, OwnerInv
  <1>1. pc'[t] = l /\ \A u \in Threads \ {t} : pc'[u] = pc[u]
    BY Zenon DEF LocalsTypeOK
  <1>2. ThreadInv(t)'
    BY <1>1, Zenon DEF ThreadInv, LockAt, FindAt, FoundAt, PeekAt, TxAt, Holding,
       HoldingLabels, BeforeAppend, QuietLabels
  <1>3. ASSUME NEW u \in Threads PROVE ThreadInv(u)'
    BY <1>1, <1>2, ThreadInvFrame, Zenon
  <1>4. ExclusiveSender'
    BY <1>1 DEF ExclusiveSender, Holding, HoldingLabels, QuietLabels
  <1>5. FindNeverPanics'
    BY <1>1, ZenonT(60) DEF FindNeverPanics, QuietLabels
  <1> QED
    BY <1>3, <1>4, <1>5, SlotsFrame, Zenon

(* A thread goes on with the execution of its transaction.                 *)
LEMMA OwnerExecute ==
  ASSUME TypeInv, OwnerInv, UNCHANGED <<heads, headsAvailable, accountLock>>, NEW t \in Threads,
         pc[t] \in BeforeAppend, NEW l \in BeforeAppend \cup {"appendReceipt"},
         pc' = [pc EXCEPT ![t] = l],
         UNCHANGED <<start, pos, from, tx, tempHead>>
  PROVE  OwnerInv'
  <1> USE DEF TypeInv, OwnerInv
  <1>1. pc'[t] = l /\ \A u \in Threads \ {t} : pc'[u] = pc[u]
    BY Zenon DEF LocalsTypeOK
  <1>2. ThreadInv(t)'
    BY <1>1, ZenonT(60) DEF ThreadInv, LockAt, FindAt, FoundAt, PeekAt, TxAt, Holding,
       HoldingLabels, BeforeAppend, Avail, Pooled
  <1>3. ASSUME NEW u \in Threads PROVE ThreadInv(u)'
    BY <1>1, <1>2, ThreadInvFrame, Zenon
  <1>4. ExclusiveSender'
    BY <1>1 DEF ExclusiveSender, Holding, HoldingLabels, BeforeAppend
  <1>5. FindNeverPanics'
    BY <1>1, Zenon DEF FindNeverPanics, BeforeAppend
  <1> QED
    BY <1>3, <1>4, <1>5, SlotsFrame, Zenon

(* A thread that holds an account enters find.                             *)
LEMMA OwnerCallFind ==
  ASSUME TypeInv, OwnerInv, UNCHANGED <<heads, headsAvailable, accountLock>>, NEW t \in Threads,
         pc[t] \in BeforeAppend \cup {"appendReceipt", "Shift"},
         pos' = [pos EXCEPT ![t] = 0], pc' = [pc EXCEPT ![t] = "findHead"],
         UNCHANGED <<start, from, tx, tempHead>>
  PROVE  OwnerInv'
  <1> USE DEF TypeInv, OwnerInv
  <1>1. /\ pc'[t] = "findHead" /\ pos'[t] = 0
        /\ \A u \in Threads \ {t} : pc'[u] = pc[u] /\ pos'[u] = pos[u]
    BY ZenonT(60) DEF LocalsTypeOK
  <1>2. ThreadInv(t)'
    BY <1>1, NumHeadsNat DEF ThreadInv, LockAt, FindAt, FoundAt, PeekAt, TxAt, Holding,
       HoldingLabels, BeforeAppend, Avail, Pooled, Slots
  <1>3. ASSUME NEW u \in Threads PROVE ThreadInv(u)'
    BY <1>1, <1>2, ThreadInvFrame, Zenon
  <1>4. ExclusiveSender'
    BY <1>1 DEF ExclusiveSender, Holding, HoldingLabels, BeforeAppend
  <1>5. FindNeverPanics'
    BY <1>1, Zenon DEF FindNeverPanics
  <1> QED
    BY <1>3, <1>4, <1>5, SlotsFrame, Zenon

(* Peek reads an account off a head.                                       *)
LEMMA OwnerPeekSender ==
  ASSUME TypeInv, OwnerInv, NEW t \in Threads, pc[t] = "peekSender",
         heads[PeekSlot(t)] # nil,
         from' = [from EXCEPT ![t] = heads[PeekSlot(t)].from],
         pc' = [pc EXCEPT ![t] = "peekLoad"],
         UNCHANGED <<heads, headsAvailable, accountLock, start, pos, tx, tempHead>>
  PROVE  OwnerInv'
  <1> USE DEF TypeInv, OwnerInv
  <1>1. /\ pc'[t] = "peekLoad" /\ from'[t] = heads[PeekSlot(t)].from
        /\ \A u \in Threads \ {t} : pc'[u] = pc[u] /\ from'[u] = from[u]
    BY Zenon DEF LocalsTypeOK
  <1>2. PeekSlot(t) \in Slots /\ PeekSlot(t)' = PeekSlot(t)
    BY CountersInSlots, ZenonT(60) DEF ScanLabels, PeekSlot
  <1>3. ThreadInv(t)'
    BY SMTT(30), <1>1, <1>2 DEF ThreadInv, LockAt, FindAt, FoundAt, PeekAt, TxAt, Holding,
       HoldingLabels, BeforeAppend, Avail, Pooled, SlotInv
  <1>4. ASSUME NEW u \in Threads PROVE ThreadInv(u)'
    BY <1>1, <1>3, ThreadInvFrame, Zenon
  <1>5. ExclusiveSender'
    BY <1>1 DEF ExclusiveSender, Holding, HoldingLabels
  <1>6. FindNeverPanics'
    BY <1>1, Zenon DEF FindNeverPanics
  <1> QED
    BY <1>4, <1>5, <1>6, SlotsFrame, Zenon

(* Peek finds the account unlocked.                                        *)
LEMMA OwnerPeekLoad ==
  ASSUME TypeInv, OwnerInv, NEW t \in Threads, pc[t] = "peekLoad",
         pc' = [pc EXCEPT ![t] = "peekStore"],
         UNCHANGED <<heads, headsAvailable, accountLock, start, pos, from, tx, tempHead>>
  PROVE  OwnerInv'
  <1> USE DEF TypeInv, OwnerInv
  <1>1. /\ pc'[t] = "peekStore"
        /\ \A u \in Threads \ {t} : pc'[u] = pc[u]
    BY Zenon DEF LocalsTypeOK
  <1>2. ThreadInv(t)'
    BY <1>1, ZenonT(60) DEF ThreadInv, LockAt, FindAt, FoundAt, PeekAt, TxAt, Holding,
       HoldingLabels, BeforeAppend, Avail, Pooled, PeekSlot
  <1>3. ASSUME NEW u \in Threads PROVE ThreadInv(u)'
    BY <1>1, <1>2, ThreadInvFrame, Zenon
  <1>4. ExclusiveSender'
    BY <1>1 DEF ExclusiveSender, Holding, HoldingLabels
  <1>5. FindNeverPanics'
    BY <1>1, Zenon DEF FindNeverPanics
  <1> QED
    BY <1>3, <1>4, <1>5, SlotsFrame, Zenon

(* Peek locks the account: it is available, and at the slot Peek looks at. *)
LEMMA OwnerLoadOrStore ==
  ASSUME TypeInv, OwnerInv, NEW t \in Threads, pc[t] = "peekStore",
         from[t] \notin accountLock,
         accountLock' = accountLock \cup {from[t]},
         pc' = [pc EXCEPT ![t] = "peekTake"],
         UNCHANGED <<heads, headsAvailable, start, pos, from, tx, tempHead>>
  PROVE  OwnerInv'
  <1> USE DEF TypeInv, OwnerInv
  <1>1. /\ pc'[t] = "peekTake"
        /\ \A u \in Threads \ {t} : pc'[u] = pc[u]
    BY Zenon DEF LocalsTypeOK
  <1>2. HeadInv' /\ SlotInv' /\ FreeInv'
    BY Zenon DEF HeadInv, Pooled, SlotInv, FreeInv, Avail
  <1>3. from[t] \in Senders
    BY Zenon DEF PosInv
  <1>4. Avail(PeekSlot(t), from[t])
    BY <1>3 DEF FreeInv, ThreadInv, PeekAt, Avail
  <1>5. PeekSlot(t) \in Slots
    BY CountersInSlots, Zenon DEF ScanLabels
  <1>6. ThreadInv(t)'
    BY <1>1, <1>4, <1>5, ZenonT(60) DEF ThreadInv, LockAt, FindAt, FoundAt, PeekAt, TxAt,
       Holding,
       HoldingLabels, BeforeAppend, Avail, Pooled, PeekSlot
  <1>7. ASSUME NEW u \in Threads \ {t} PROVE ThreadInv(u)'
    <2>1. LockAt(u)'
      BY <1>1, Zenon DEF ThreadInv, LockAt, Holding, Avail
    <2>2. FindAt(u)' /\ FoundAt(u)'
      BY <1>1, ZenonT(40) DEF ThreadInv, FindAt, FoundAt, Avail
    <2>3. PeekAt(u)'
      BY <1>1, Zenon DEF ThreadInv, PeekAt, PeekSlot, Avail
    <2>4. TxAt(u)'
      BY <1>1, Zenon DEF ThreadInv, TxAt, Avail, Pooled
    <2> QED
      BY <2>1, <2>2, <2>3, <2>4, Zenon DEF ThreadInv
  <1>8. ExclusiveSender'
    BY <1>1 DEF ExclusiveSender, ThreadInv, LockAt, Holding, HoldingLabels
  <1>9. FindNeverPanics'
    BY <1>1, Zenon DEF FindNeverPanics
  <1> QED
    BY <1>2, <1>6, <1>7, <1>8, <1>9, Zenon

(* Peek returns the head of the account it locked.                         *)
LEMMA OwnerPeekTake ==
  ASSUME TypeInv, OwnerInv, NEW t \in Threads, pc[t] = "peekTake",
         tx' = [tx EXCEPT ![t] = heads[PeekSlot(t)]],
         pc' = [pc EXCEPT ![t] = "got"],
         UNCHANGED <<heads, headsAvailable, accountLock, start, pos, from, tempHead>>
  PROVE  OwnerInv'
  <1> USE DEF TypeInv, OwnerInv
  <1>1. /\ pc'[t] = "got" /\ tx'[t] = heads[PeekSlot(t)]
        /\ \A u \in Threads \ {t} : pc'[u] = pc[u] /\ tx'[u] = tx[u]
    BY Zenon DEF LocalsTypeOK
  <1>2. PeekSlot(t) \in Slots
    BY CountersInSlots, Zenon DEF HoldingLabels
  <1>3. ThreadInv(t)'
    BY <1>1, <1>2, ZenonT(60) DEF ThreadInv, LockAt, FindAt, FoundAt, PeekAt, TxAt, Holding,
       HoldingLabels, BeforeAppend, Avail, Pooled, HeadInv
  <1>4. ASSUME NEW u \in Threads PROVE ThreadInv(u)'
    BY <1>1, <1>3, ThreadInvFrame, Zenon
  <1>5. ExclusiveSender'
    BY <1>1 DEF ExclusiveSender, Holding, HoldingLabels
  <1>6. FindNeverPanics'
    BY <1>1, Zenon DEF FindNeverPanics
  <1> QED
    BY <1>4, <1>5, <1>6, SlotsFrame, Zenon

(* find copies a head: a nil one has its flag down already.                *)
LEMMA OwnerFindHead ==
  ASSUME TypeInv, OwnerInv, NEW t \in Threads, pc[t] = "findHead",
         tempHead' = [tempHead EXCEPT ![t] = heads[pos[t]]],
         pc' = [pc EXCEPT ![t] = "findFlag"],
         UNCHANGED <<heads, headsAvailable, accountLock, start, pos, from, tx>>
  PROVE  OwnerInv'
  <1> USE DEF TypeInv, OwnerInv
  <1>1. /\ pc'[t] = "findFlag" /\ tempHead'[t] = heads[pos[t]]
        /\ \A u \in Threads \ {t} : pc'[u] = pc[u] /\ tempHead'[u] = tempHead[u]
    BY ZenonT(40) DEF LocalsTypeOK
  <1>2. pos[t] \in Slots
    BY CountersInSlots, ZenonT(60) DEF HoldingLabels
  <1>3. ThreadInv(t)'
    BY SMTT(30), <1>1, <1>2 DEF ThreadInv, LockAt, FindAt, FoundAt, PeekAt, TxAt, Holding,
       HoldingLabels, BeforeAppend, Avail, Pooled, HeadInv, SetTypeOK
  <1>4. ASSUME NEW u \in Threads PROVE ThreadInv(u)'
    BY <1>1, <1>3, ThreadInvFrame, ZenonT(60)
  <1>5. ExclusiveSender'
    BY <1>1 DEF ExclusiveSender, Holding, HoldingLabels
  <1>6. FindNeverPanics'
    BY <1>1, Zenon DEF FindNeverPanics
  <1> QED
    BY <1>4, <1>5, <1>6, SlotsFrame, Zenon

(* find looks at the flag: it goes on when the slot is not the account's,  *)
(* which leaves a later one, and returns when it is.                       *)
LEMMA OwnerFindFlag ==
  ASSUME TypeInv, OwnerInv, NEW t \in Threads, FindFlag(t)
  PROVE  OwnerInv'
  <1> USE DEF TypeInv, OwnerInv
  <1>1. /\ pc[t] = "findFlag"
        /\ UNCHANGED <<heads, headsAvailable, accountLock, caller, start, from, tx>>
        /\ tempHead' = [tempHead EXCEPT ![t] = nil]
    BY Zenon DEF FindFlag, setVars
  <1>2. pos[t] \in Slots
    BY <1>1, CountersInSlots, Zenon DEF HoldingLabels
  <1>3. ASSUME FindContinue(t), ~Avail(pos[t], from[t]) PROVE OwnerInv'
    <2>1. PICK p \in Slots : Avail(p, from[t])
      BY <1>1, Zenon DEF ThreadInv, LockAt, Holding, HoldingLabels
    <2>2. pos[t] < p
      BY <1>1, <1>2, <1>3, <2>1, NumHeadsNat DEF ThreadInv, FindAt, Slots
    <2>3. pos' = [pos EXCEPT ![t] = pos[t] + 1] /\ pc' = [pc EXCEPT ![t] = "findHead"]
      <3>1. pos[t] + 1 < NumHeads
        BY <1>2, <2>1, <2>2, NumHeadsNat DEF Slots
      <3> QED
        BY <1>3, <3>1, Zenon DEF FindContinue, Goto
    <2>4. /\ pc'[t] = "findHead" /\ pos'[t] = pos[t] + 1
          /\ \A u \in Threads \ {t} :
                UNCHANGED <<pc[u], pos[u], tempHead[u]>>
      BY <1>1, <2>3, Zenon DEF LocalsTypeOK
    <2>5. \A q \in Slots : Avail(q, from[t]) => pos[t] + 1 <= q
      BY <1>1, <1>2, <1>3, NumHeadsNat DEF ThreadInv, FindAt, Slots
    <2>6. ThreadInv(t)'
      BY <1>1, <2>4, <2>5, ZenonT(60) DEF ThreadInv, LockAt, FindAt, FoundAt, PeekAt, TxAt,
         Holding,
       HoldingLabels, BeforeAppend, Avail, Pooled
    <2>7. ASSUME NEW u \in Threads PROVE ThreadInv(u)'
      BY <1>1, <2>4, <2>6, ThreadInvFrame, Zenon
    <2>8. ExclusiveSender'
      BY <1>1, <2>4 DEF ExclusiveSender, Holding, HoldingLabels
    <2>9. FindNeverPanics'
      BY <1>1, <2>4, Zenon DEF FindNeverPanics
    <2> QED
      BY <1>1, <2>7, <2>8, <2>9, SlotsFrame, Zenon
  <1>4. ASSUME pos' = pos, pc' = [pc EXCEPT ![t] = caller[t]], Avail(pos[t], from[t])
        PROVE  OwnerInv'
    <2>1. /\ pc'[t] \in {"Shift", "Remove"}
          /\ \A u \in Threads \ {t} : UNCHANGED <<pc[u], tempHead[u]>>
      BY <1>1, <1>4, Zenon DEF LocalsTypeOK
    <2>2. ThreadInv(t)'
      BY <1>1, <1>4, <2>1, ZenonT(60) DEF ThreadInv, LockAt, FindAt, FoundAt, PeekAt, TxAt,
         Holding,
       HoldingLabels, BeforeAppend, Avail, Pooled
    <2>3. ASSUME NEW u \in Threads PROVE ThreadInv(u)'
      BY <1>1, <1>4, <2>1, <2>2, ThreadInvFrame, Zenon
    <2>4. ExclusiveSender'
      BY <1>1, <2>1 DEF ExclusiveSender, Holding, HoldingLabels
    <2>5. FindNeverPanics'
      BY <1>1, <2>1, Zenon DEF FindNeverPanics
    <2> QED
      BY <1>1, <2>3, <2>4, <2>5, SlotsFrame, Zenon
  <1>5. FindAt(t) /\ (headsAvailable[pos[t]] = AVAILABLE => heads[pos[t]] # nil)
    BY <1>2, Zenon DEF ThreadInv, HeadInv
  <1>6. headsAvailable[pos[t]] \in {AVAILABLE, NOT_AVAILABLE}
    BY <1>2, ZenonT(40) DEF SetTypeOK
  <1>7. CASE headsAvailable[pos[t]] = NOT_AVAILABLE
    <2>1. FindContinue(t)
      BY <1>7, Zenon DEF FindFlag
    <2> QED
      BY <1>3, <1>7, <2>1 DEF Avail, AVAILABLE, NOT_AVAILABLE
  <1>8. CASE headsAvailable[pos[t]] # NOT_AVAILABLE
    <2>1. tempHead[t] # nil /\ heads[pos[t]] # nil /\ heads[pos[t]].from = tempHead[t].from
      BY <1>1, <1>5, <1>6, <1>8, Zenon DEF FindAt
    <2>2. IF tempHead[t].from # from[t]
            THEN FindContinue(t)
            ELSE Goto(t, caller[t]) /\ UNCHANGED pos
      BY <1>8, <2>1, Zenon DEF FindFlag
    <2>3. CASE tempHead[t].from # from[t]
      BY <1>3, <2>1, <2>2, <2>3, Zenon DEF Avail
    <2>4. CASE tempHead[t].from = from[t]
      BY <1>4, <1>6, <1>8, <2>1, <2>2, <2>4, Zenon DEF Avail, Goto
    <2> QED
      BY <2>3, <2>4, Zenon
  <1> QED
    BY <1>7, <1>8, Zenon

(* Shift brings in the next transaction of the account.                    *)
LEMMA OwnerShiftHead ==
  ASSUME TypeInv, OwnerInv, NEW t \in Threads, pc[t] = "Shift",
         txs[from[t]] <= Len(Pending[from[t]]),
         heads' = [heads EXCEPT ![pos[t]] = [from |-> from[t], nonce |-> txs[from[t]]]],
         pc' = [pc EXCEPT ![t] = "unlock"],
         UNCHANGED <<headsAvailable, accountLock, start, pos, from, tx, tempHead>>
  PROVE  OwnerInv'
  <1> USE DEF TypeInv, OwnerInv
  <1> DEFINE next == [from |-> from[t], nonce |-> txs[from[t]]]
  <1>1. /\ pc'[t] = "unlock"
        /\ \A u \in Threads \ {t} : pc'[u] = pc[u]
    BY Zenon DEF LocalsTypeOK
  <1>2. pos[t] \in Slots /\ from[t] \in Senders /\ Avail(pos[t], from[t])
    BY CountersInSlots, ZenonT(60) DEF HoldingLabels, PosInv, ThreadInv, FoundAt
  <1>3. Pooled(next) /\ next # nil /\ next.from = from[t]
    BY <1>2, NilAssumption DEF Pooled, Transaction, SetTypeOK
  <1>4. heads'[pos[t]] = next /\ \A p \in Slots \ {pos[t]} : heads'[p] = heads[p]
    BY <1>2, Zenon DEF SetTypeOK
  <1> HIDE DEF next
  <1>5. \A p \in Slots :
          /\ heads'[p] # nil <=> heads[p] # nil
          /\ heads[p] # nil => heads'[p].from = heads[p].from
    BY <1>2, <1>3, <1>4, Zenon DEF Avail
  <1>a. \A p \in Slots : \A s : Avail(p, s)' <=> Avail(p, s)
    BY <1>5, Zenon DEF Avail
  <1>6. HeadInv' /\ SlotInv' /\ FreeInv'
    <2>1. HeadInv'
      BY <1>3, <1>4, <1>5, ZenonT(60) DEF HeadInv, Pooled
    <2>2. SlotInv'
      BY <1>5 DEF SlotInv
    <2>3. FreeInv'
      BY <1>a, Zenon DEF FreeInv
    <2> QED
      BY <2>1, <2>2, <2>3, Zenon
  <1>7. ThreadInv(t)'
    <2>1. LockAt(t)'
      BY <1>1, <1>2, <1>a, ZenonT(60) DEF ThreadInv, LockAt, Holding, HoldingLabels
    <2>2. (FindAt(t) /\ FoundAt(t) /\ PeekAt(t))'
      BY <1>1, Zenon DEF FindAt, FoundAt, PeekAt
    <2>3. TxAt(t)'
      BY <1>1, Zenon DEF ThreadInv, TxAt, HoldingLabels, BeforeAppend, Pooled
    <2> QED
      BY <2>1, <2>2, <2>3, Zenon DEF ThreadInv
  <1>8. ASSUME NEW u \in Threads \ {t} PROVE ThreadInv(u)'
    <2>1. Holding(u) => from[u] # from[t]
      BY Zenon DEF ExclusiveSender, Holding, HoldingLabels
    <2>2. pc[u] \in HoldingLabels \cup ScanLabels => pos[u] \in Slots /\ PeekSlot(u) \in Slots
      BY CountersInSlots, Zenon
    <2>3. PeekSlot(u)' = PeekSlot(u)
      BY Zenon DEF PeekSlot
    <2>4. (LockAt(u) /\ FindAt(u) /\ FoundAt(u))'
      <3>1. LockAt(u)'
        BY <1>1, <1>a, Zenon DEF ThreadInv, LockAt, Holding
      <3>2. (pc[u] \in {"findHead", "findFlag"} =>
               \A p \in Slots : Avail(p, from[u]) => pos[u] <= p)'
        BY <1>1, <1>a, Zenon DEF ThreadInv, FindAt
      <3>3. FindAt(u)'
        BY <1>1, <1>5, <2>2, <3>2, ZenonT(60) DEF ThreadInv, FindAt, HoldingLabels
      <3>4. FoundAt(u)'
        BY <1>1, <1>5, <1>a, <2>2, ZenonT(60) DEF ThreadInv, FoundAt, HoldingLabels
      <3> QED
        BY <3>1, <3>3, <3>4, Zenon
    <2>5. PeekAt(u)'
      <3>1. ASSUME pc[u] \in {"peekLoad", "peekStore"}, NEW p \in Slots, heads'[p] # nil,
                   heads'[p].from = from[u]
            PROVE  p = PeekSlot(u)
        <4>1. heads[p] # nil /\ heads[p].from = from[u]
          BY <1>5, <3>1, Zenon
        <4> QED
          BY <3>1, <4>1, Zenon DEF ThreadInv, PeekAt
      <3>2. pc[u] = "peekTake" => Avail(PeekSlot(u), from[u])'
        BY <1>a, <2>2, <2>3, Zenon DEF ThreadInv, PeekAt, HoldingLabels
      <3>3. from' = from
        OBVIOUS
      <3> QED
        BY <1>1, <2>3, <3>1, <3>2, <3>3, Zenon DEF PeekAt, Avail
    <2>6. TxAt(u)'
      <3>1. CASE pc[u] \in BeforeAppend \cup {"appendReceipt"}
        <4>1. PICK p \in Slots : Avail(p, from[u]) /\ heads[p] = tx[u]
          BY <3>1, Zenon DEF ThreadInv, TxAt
        <4>2. from[u] # from[t]
          BY <2>1, <3>1, Zenon DEF Holding, HoldingLabels, BeforeAppend
        <4>3. p # pos[t]
          BY <1>2, <4>1, <4>2, Zenon DEF Avail
        <4>4. heads'[p] = heads[p] /\ Avail(p, from[u])'
          BY <1>4, <1>a, <4>1, <4>3, Zenon
        <4> QED
          BY <1>1, <4>1, <4>4, Zenon DEF ThreadInv, TxAt, Pooled
      <3>2. CASE pc[u] \notin BeforeAppend \cup {"appendReceipt"}
        BY <1>1, <3>2, Zenon DEF ThreadInv, TxAt, Pooled
      <3> QED
        BY <3>1, <3>2, Zenon
    <2> QED
      BY <2>4, <2>5, <2>6, Zenon DEF ThreadInv
  <1>9. ExclusiveSender' /\ FindNeverPanics'
    BY <1>1 DEF ExclusiveSender, FindNeverPanics, Holding, HoldingLabels
  <1> QED
    BY <1>6, <1>7, <1>8, <1>9, Zenon

(* Shift releases the account, which is available.                         *)
LEMMA OwnerShiftUnlock ==
  ASSUME TypeInv, OwnerInv, NEW t \in Threads, pc[t] = "unlock",
         accountLock' = accountLock \ {from[t]},
         pc' = [pc EXCEPT ![t] = "returned"],
         UNCHANGED <<heads, headsAvailable, start, pos, from, tx, tempHead>>
  PROVE  OwnerInv'
  <1> USE DEF TypeInv, OwnerInv
  <1>1. /\ pc'[t] = "returned"
        /\ \A u \in Threads \ {t} : pc'[u] = pc[u]
    BY ZenonT(60) DEF LocalsTypeOK
  <1>2. HeadInv' /\ SlotInv' /\ FreeInv'
    BY DEF HeadInv, Pooled, SlotInv, FreeInv, Avail, ThreadInv, LockAt, Holding,
       HoldingLabels
  <1>3. ThreadInv(t)'
    BY <1>1, ZenonT(60) DEF ThreadInv, LockAt, FindAt, FoundAt, PeekAt, TxAt, Holding,
       HoldingLabels, BeforeAppend, Avail, Pooled
  <1>4. ASSUME NEW u \in Threads \ {t} PROVE ThreadInv(u)'
    <2>1. Holding(u) => from[u] # from[t]
      BY Zenon DEF ExclusiveSender, Holding, HoldingLabels
    <2>2. LockAt(u)'
      BY <1>1, <2>1, Zenon DEF ThreadInv, LockAt, Holding, Avail
    <2>3. PeekSlot(u)' = PeekSlot(u)
      BY Zenon DEF PeekSlot
    <2>4. FindAt(u)' /\ FoundAt(u)'
      BY <1>1, Zenon DEF ThreadInv, FindAt, FoundAt, Avail
    <2>5. PeekAt(u)'
      BY <1>1, <2>3, Zenon DEF ThreadInv, PeekAt, Avail
    <2>6. TxAt(u)'
      BY <1>1, Zenon DEF ThreadInv, TxAt, Avail, Pooled
    <2> QED
      BY <2>2, <2>4, <2>5, <2>6, Zenon DEF ThreadInv
  <1>5. ExclusiveSender' /\ FindNeverPanics'
    BY <1>1 DEF ExclusiveSender, FindNeverPanics, Holding, HoldingLabels
  <1> QED
    BY <1>2, <1>3, <1>4, <1>5, Zenon

(* Remove takes the flag of its own slot down.                             *)
LEMMA OwnerRemoveFlag ==
  ASSUME TypeInv, OwnerInv, NEW t \in Threads, pc[t] = "Remove",
         headsAvailable' = [headsAvailable EXCEPT ![pos[t]] = NOT_AVAILABLE],
         pc' = [pc EXCEPT ![t] = "removeHead"],
         UNCHANGED <<heads, accountLock, start, pos, from, tx, tempHead>>
  PROVE  OwnerInv'
  <1> USE DEF TypeInv, OwnerInv
  <1>1. /\ pc'[t] = "removeHead"
        /\ \A u \in Threads \ {t} : pc'[u] = pc[u]
    BY Zenon DEF LocalsTypeOK
  <1>2. /\ pos[t] \in Slots
        /\ from[t] \in accountLock
        /\ heads[pos[t]] # nil
        /\ heads[pos[t]].from = from[t]
    BY CountersInSlots, Zenon DEF HoldingLabels, ThreadInv, LockAt, Holding, FoundAt,
       Avail
  <1>3. /\ headsAvailable'[pos[t]] = NOT_AVAILABLE
        /\ \A p \in Slots \ {pos[t]} : headsAvailable'[p] = headsAvailable[p]
    BY <1>2, Zenon DEF SetTypeOK
  <1>4. \A p \in Slots, s \in Senders : s # from[t] /\ Avail(p, s) => Avail(p, s)'
    BY <1>2, <1>3, Zenon DEF Avail
  <1>5. \A p \in Slots : headsAvailable'[p] = AVAILABLE => headsAvailable[p] = AVAILABLE
    BY <1>3 DEF AVAILABLE, NOT_AVAILABLE
  <1>6. HeadInv' /\ SlotInv' /\ FreeInv'
    BY <1>2, <1>4, <1>5, Zenon DEF HeadInv, Pooled, SlotInv, FreeInv
  <1>7. ThreadInv(t)'
    BY <1>1, <1>2, <1>3, Zenon DEF ThreadInv, LockAt, FindAt, FoundAt, PeekAt, TxAt,
       Holding,
       HoldingLabels, BeforeAppend, Avail, Pooled
  <1>8. ASSUME NEW u \in Threads \ {t} PROVE ThreadInv(u)'
    <2>1. Holding(u) => from[u] # from[t] /\ from[u] \in Senders
      BY Zenon DEF ExclusiveSender, Holding, HoldingLabels, PosInv
    <2>2. pc[u] \in HoldingLabels \cup ScanLabels => pos[u] \in Slots /\ PeekSlot(u) \in Slots
      BY CountersInSlots, Zenon
    <2>3. PeekSlot(u)' = PeekSlot(u)
      BY Zenon DEF PeekSlot
    <2>4. LockAt(u)'
      BY <1>1, <1>4, <2>1, ZenonT(60) DEF ThreadInv, LockAt, Holding
    <2>5. FindAt(u)'
      BY <1>1, <1>3, <1>5, <2>2 DEF ThreadInv, FindAt, HoldingLabels, Avail
    <2>6. FoundAt(u)'
      BY <1>1, <1>3, <1>4, <2>1, <2>2, ZenonT(60) DEF ThreadInv, FoundAt, Holding,
         HoldingLabels
    <2>7. PeekAt(u)'
      BY <1>1, <1>4, <2>1, <2>2, <2>3, Zenon DEF ThreadInv, PeekAt, Holding, HoldingLabels
    <2>8. TxAt(u)'
      BY <1>1, <1>4, <2>1, ZenonT(60) DEF ThreadInv, TxAt, Holding, HoldingLabels,
         BeforeAppend, Pooled
    <2> QED
      BY <2>4, <2>5, <2>6, <2>7, <2>8, Zenon DEF ThreadInv
  <1>9. ExclusiveSender' /\ FindNeverPanics'
    BY SMTT(30), <1>1 DEF ExclusiveSender, FindNeverPanics, Holding, HoldingLabels
  <1> QED
    BY <1>6, <1>7, <1>8, <1>9, Zenon

(* Remove drops the head of a slot whose flag is down.                     *)
LEMMA OwnerRemoveHead ==
  ASSUME TypeInv, OwnerInv, NEW t \in Threads, pc[t] = "removeHead",
         heads' = [heads EXCEPT ![pos[t]] = nil],
         pc' = [pc EXCEPT ![t] = "returned"],
         UNCHANGED <<headsAvailable, accountLock, start, pos, from, tx, tempHead>>
  PROVE  OwnerInv'
  <1> USE DEF TypeInv, OwnerInv
  <1>1. /\ pc'[t] = "returned"
        /\ \A u \in Threads \ {t} : pc'[u] = pc[u]
    BY Zenon DEF LocalsTypeOK
  <1>2. /\ pos[t] \in Slots
        /\ headsAvailable[pos[t]] = NOT_AVAILABLE
        /\ heads[pos[t]].from = from[t]
    BY CountersInSlots, Zenon DEF HoldingLabels, ThreadInv, FoundAt
  <1>3. heads'[pos[t]] = nil /\ \A p \in Slots \ {pos[t]} : heads'[p] = heads[p]
    BY <1>2, ZenonT(60) DEF SetTypeOK
  <1>4. \A p \in Slots : headsAvailable[p] = AVAILABLE => heads'[p] = heads[p]
    <2>1. AVAILABLE # NOT_AVAILABLE
      BY SMTT(30) DEF AVAILABLE, NOT_AVAILABLE
    <2> QED
      BY <1>2, <1>3, <2>1, Zenon
  <1>a. \A p \in Slots : \A s : Avail(p, s)' <=> Avail(p, s)
    BY <1>4, Zenon DEF Avail
  <1>5. HeadInv' /\ SlotInv' /\ FreeInv'
    BY <1>3, <1>4 DEF HeadInv, Pooled, SlotInv, FreeInv, Avail
  <1>6. ThreadInv(t)'
    BY <1>1, Zenon DEF ThreadInv, LockAt, FindAt, FoundAt, PeekAt, TxAt, Holding,
       HoldingLabels, BeforeAppend, Avail, Pooled
  <1>7. ASSUME NEW u \in Threads \ {t} PROVE ThreadInv(u)'
    <2>1. Holding(u) => from[u] # from[t]
      BY Zenon DEF ExclusiveSender, Holding, HoldingLabels
    <2>2. pc[u] \in HoldingLabels \cup ScanLabels => pos[u] \in Slots /\ PeekSlot(u) \in Slots
      BY CountersInSlots, Zenon
    <2>3. PeekSlot(u)' = PeekSlot(u)
      BY Zenon DEF PeekSlot
    <2>4. LockAt(u)'
      BY <1>1, <1>a, Zenon DEF ThreadInv, LockAt, Holding
    <2>5. FindAt(u)'
      <3>2. (pc[u] \in {"findHead", "findFlag"} =>
               \A p \in Slots : Avail(p, from[u]) => pos[u] <= p)'
        BY <1>1, <1>a, Zenon DEF ThreadInv, FindAt
      <3>3. pc[u] = "findFlag" => heads'[pos[u]] = nil \/ heads'[pos[u]] = heads[pos[u]]
        BY <1>3, <2>2, ZenonT(60) DEF HoldingLabels
      <3> QED
        BY SMTT(30), <1>1, <3>2, <3>3 DEF ThreadInv, FindAt
    <2>6. FoundAt(u)'
      <3>1. CASE pc[u] \in {"Shift", "Remove"}
        <4>1. Avail(pos[u], from[u]) /\ pos[u] \in Slots
          BY <2>2, <3>1, Zenon DEF ThreadInv, FoundAt, HoldingLabels
        <4> QED
          BY <1>1, <1>4, <3>1, <4>1, Zenon DEF FoundAt, Avail
      <3>2. CASE pc[u] = "removeHead"
        <4>1. /\ headsAvailable[pos[u]] = NOT_AVAILABLE /\ heads[pos[u]] # nil
              /\ heads[pos[u]].from = from[u] /\ pos[u] \in Slots /\ from[u] # from[t]
          BY <2>1, <2>2, <3>2, Zenon DEF ThreadInv, FoundAt, Holding, HoldingLabels
        <4>2. heads'[pos[u]] = heads[pos[u]]
          BY <1>2, <1>3, <4>1, ZenonT(40)
        <4> QED
          BY <1>1, <3>2, <4>1, <4>2, Zenon DEF FoundAt
      <3> QED
        BY <1>1, <3>1, <3>2, Zenon DEF FoundAt
    <2>7. PeekAt(u)'
      <3>1. \A p \in Slots : heads'[p] # nil => heads'[p] = heads[p]
        BY <1>2, <1>3, Zenon
      <3>2. pc[u] = "peekTake" => Avail(PeekSlot(u), from[u])'
        BY <1>a, <2>2, <2>3, Zenon DEF ThreadInv, PeekAt, HoldingLabels
      <3>3. pc[u] \in {"peekLoad", "peekStore"} =>
              \A p \in Slots : heads'[p] # nil /\ heads'[p].from = from[u] => p = PeekSlot(u)
        BY <3>1, Zenon DEF ThreadInv, PeekAt
      <3> QED
        BY <1>1, <2>3, <3>2, <3>3, Zenon DEF PeekAt, Avail
    <2>8. TxAt(u)'
      <3>1. CASE pc[u] \in BeforeAppend \cup {"appendReceipt"}
        <4>1. PICK p \in Slots : Avail(p, from[u]) /\ heads[p] = tx[u]
          BY <3>1, Zenon DEF ThreadInv, TxAt
        <4>2. heads'[p] = heads[p] /\ Avail(p, from[u])'
          BY <1>4, <1>a, <4>1, Zenon DEF Avail
        <4> QED
          BY <1>1, <4>1, <4>2, Zenon DEF ThreadInv, TxAt, Pooled
      <3>2. CASE pc[u] \notin BeforeAppend \cup {"appendReceipt"}
        BY <1>1, <3>2, ZenonT(40) DEF ThreadInv, TxAt, Pooled
      <3> QED
        BY <3>1, <3>2, Zenon
    <2> QED
      BY <2>4, <2>5, <2>6, <2>7, <2>8, Zenon DEF ThreadInv
  <1>8. ExclusiveSender' /\ FindNeverPanics'
    BY <1>1 DEF ExclusiveSender, FindNeverPanics, Holding, HoldingLabels
  <1> QED
    BY <1>5, <1>6, <1>7, <1>8, Zenon

-----------------------------------------------------------------------------
(* The second layer holds initially and is kept by every step.             *)

(* The second layer holds initially.                                       *)
LEMMA OwnerInit == Init => OwnerInv
  <1> SUFFICES ASSUME Init PROVE OwnerInv
    OBVIOUS
  <1>1. PICK o \in [Slots -> Senders] :
          /\ HeapOrdered(o)
          /\ \A s \in Senders : \E p \in Slots : o[p] = s
          /\ heads = [p \in Slots |-> [from |-> o[p], nonce |-> 1]]
    BY Zenon DEF Init, SetInit, NewTransactionsByPriceAndNonce
  <1>2. \A t \in Threads : pc[t] = "loop"
    BY Zenon DEF Init, SetInit
  <1>3. \A p \in Slots :
          /\ headsAvailable[p] = AVAILABLE
          /\ heads[p] = [from |-> o[p], nonce |-> 1]
          /\ heads[p] \in Transaction
          /\ Len(Pending[o[p]]) > 0
    BY <1>1, PendingAssumption DEF Init, SetInit, NewTransactionsByPriceAndNonce,
       Transaction
  <1>4. ASSUME NEW p \in Slots
        PROVE  heads[p] # nil /\ heads[p].from = o[p] /\ heads[p].nonce = 1
    <2>1. heads[p] # nil
      BY <1>3, NilAssumption, Zenon
    <2>2. heads[p] = [from |-> o[p], nonce |-> 1]
      BY <1>3, Zenon
    <2> QED
      BY <2>1, <2>2
  <1>5. HeadInv
    <2>1. ASSUME NEW p \in Slots PROVE Pooled(heads[p])
      <3>1. Len(Pending[o[p]]) \in Nat /\ Len(Pending[o[p]]) > 0
        BY <1>1, PendingAssumption
      <3>2. 1 <= Len(Pending[heads[p].from])
        BY <1>4, <3>1
      <3> QED
        BY <1>3, <1>4, <3>2, Zenon DEF Pooled
    <2> QED
      BY <1>4, <2>1, Zenon DEF HeadInv
  <1>6. SlotInv
    BY <1>1, <1>4, Zenon DEF SlotInv, HeapOrdered
  <1>7. FreeInv
    BY <1>1, <1>3, <1>4, Zenon DEF FreeInv, Avail
  <1>8. \A t \in Threads : ThreadInv(t)
    BY <1>2, Zenon DEF ThreadInv, LockAt, FindAt, FoundAt, PeekAt, TxAt, Holding,
       HoldingLabels, BeforeAppend
  <1>9. ExclusiveSender /\ FindNeverPanics
    BY <1>2, Zenon DEF ExclusiveSender, FindNeverPanics, Holding, HoldingLabels
  <1> QED
    BY <1>5, <1>6, <1>7, <1>8, <1>9, Zenon DEF OwnerInv

(* Peek on its way to the next slot.                                       *)
LEMMA OwnerPeekContinue ==
  ASSUME TypeInv, OwnerInv, NEW t \in Threads, PeekContinue(t),
         UNCHANGED <<heads, headsAvailable, accountLock, start, tx, tempHead>>
  PROVE  OwnerInv'
  <1>1. \A u \in Threads \ {t} : UNCHANGED <<from[u], pos[u], start[u], tx[u], tempHead[u]>>
    BY Zenon DEF PeekContinue, TypeInv, LocalsTypeOK
  <1>2. CASE pos[t] + 1 < NumHeads
    <2>1. pc' = [pc EXCEPT ![t] = "peekFlag"]
      BY <1>2, Zenon DEF PeekContinue, Goto
    <2> QED
      BY <1>1, <2>1, OwnerQuiet, Zenon DEF QuietLabels
  <1>3. CASE ~(pos[t] + 1 < NumHeads)
    <2>1. pc' = [pc EXCEPT ![t] = "peekNil"]
      BY <1>3, Zenon DEF PeekContinue, Goto
    <2> QED
      BY <1>1, <2>1, OwnerQuiet, Zenon DEF QuietLabels
  <1> QED
    BY <1>2, <1>3, Zenon

(* Every step of a thread inside the set keeps the second layer.           *)
LEMMA OwnerSetStep ==
  ASSUME TypeInv, OwnerInv, NEW t \in Threads, SetStep(t)
  PROVE  OwnerInv'
  <1>1. CASE PeekIndex(t)
    <2>1. /\ UNCHANGED <<heads, headsAvailable, accountLock>>
          /\ \A u \in Threads \ {t} :
               UNCHANGED <<from[u], pos[u], start[u], tx[u], tempHead[u]>>
      BY <1>1, Zenon DEF PeekIndex, setVars, TypeInv, LocalsTypeOK
    <2>2. CASE NumHeads > 0
      <3>1. pc' = [pc EXCEPT ![t] = "peekFlag"]
        BY <1>1, <2>2, Zenon DEF PeekIndex, Goto
      <3> QED
        BY <2>1, <3>1, OwnerQuiet, Zenon DEF QuietLabels
    <2>3. CASE ~(NumHeads > 0)
      <3>1. pc' = [pc EXCEPT ![t] = "peekNil"]
        BY <1>1, <2>3, Zenon DEF PeekIndex, Goto
      <3> QED
        BY <2>1, <3>1, OwnerQuiet, Zenon DEF QuietLabels
    <2> QED
      BY <2>2, <2>3, ZenonT(40)
  <1>2. CASE PeekFlag(t)
    <2>1. CASE headsAvailable[PeekSlot(t)] = NOT_AVAILABLE
      BY <1>2, <2>1, OwnerPeekContinue, Zenon DEF PeekFlag, setVars
    <2>2. CASE headsAvailable[PeekSlot(t)] # NOT_AVAILABLE
      <3>1. /\ pc' = [pc EXCEPT ![t] = "peekSender"]
            /\ UNCHANGED <<heads, headsAvailable, accountLock, from, pos, start, tx, tempHead>>
        BY <1>2, <2>2, Zenon DEF PeekFlag, Goto, setVars
      <3> QED
        BY <3>1, OwnerQuiet, Zenon DEF QuietLabels
    <2> QED
      BY <2>1, <2>2, Zenon
  <1>3. CASE PeekSender(t)
    <2>1. CASE heads[PeekSlot(t)] = nil
      <3>1. /\ pc' = [pc EXCEPT ![t] = "panicPeek"]
            /\ UNCHANGED <<heads, headsAvailable, accountLock, from, pos, start, tx, tempHead>>
        BY <1>3, <2>1, Zenon DEF PeekSender, Goto, setVars
      <3> QED
        BY <3>1, OwnerQuiet, Zenon DEF QuietLabels
    <2>2. CASE heads[PeekSlot(t)] # nil
      BY <1>3, <2>2, OwnerPeekSender, Zenon DEF PeekSender, Goto, setVars
    <2> QED
      BY <2>1, <2>2, Zenon
  <1>4. CASE PeekLoad(t)
    <2>1. CASE from[t] \in accountLock
      BY <1>4, <2>1, OwnerPeekContinue, Zenon DEF PeekLoad, setVars
    <2>2. CASE from[t] \notin accountLock
      BY <1>4, <2>2, OwnerPeekLoad, Zenon DEF PeekLoad, Goto, setVars
    <2> QED
      BY <2>1, <2>2, Zenon
  <1>5. CASE PeekLoadOrStore(t)
    <2>1. CASE from[t] \in accountLock
      BY <1>5, <2>1, OwnerPeekContinue, Zenon DEF PeekLoadOrStore
    <2>2. CASE from[t] \notin accountLock
      BY <1>5, <2>2, OwnerLoadOrStore, Zenon DEF PeekLoadOrStore, Goto
    <2> QED
      BY <2>1, <2>2, Zenon
  <1>6. CASE PeekTake(t)
    BY <1>6, OwnerPeekTake, Zenon DEF PeekTake, Goto
  <1>7. CASE FindHead(t)
    BY <1>7, OwnerFindHead, Zenon DEF FindHead, Goto, setVars
  <1>8. CASE FindFlag(t)
    BY <1>8, OwnerFindFlag, Zenon
  <1>9. CASE ShiftHead(t)
    <2>1. CASE txs[from[t]] <= Len(Pending[from[t]])
      BY <1>9, <2>1, OwnerShiftHead, Zenon DEF ShiftHead, Goto
    <2>2. CASE ~(txs[from[t]] <= Len(Pending[from[t]]))
      BY <1>9, <2>2, OwnerCallFind, Zenon DEF ShiftHead, CallFind, Goto
    <2> QED
      BY <2>1, <2>2, Zenon
  <1>10. CASE ShiftUnlock(t)
    BY <1>10, OwnerShiftUnlock, Zenon DEF ShiftUnlock, Goto
  <1>11. CASE RemoveFlag(t)
    <2>1. headsAvailable[pos[t]] = AVAILABLE
      BY <1>11, Zenon DEF RemoveFlag, OwnerInv, ThreadInv, FoundAt, Avail
    <2> QED
      BY <1>11, <2>1, OwnerRemoveFlag, Zenon DEF RemoveFlag, Goto
  <1>12. CASE RemoveHead(t)
    BY <1>12, OwnerRemoveHead, Zenon DEF RemoveHead, Goto
  <1> QED
    BY <1>1, <1>2, <1>3, <1>4, <1>5, <1>6, <1>7, <1>8, <1>9, <1>10, <1>11, <1>12, ZenonT(60)
       DEF SetStep, Peek, find, Shift, Remove

(* Every step of a thread outside the set keeps the second layer.          *)
LEMMA OwnerWorkerStep ==
  ASSUME TypeInv, OwnerInv, NEW t \in Threads, WorkerStep(t)
  PROVE  OwnerInv'
  <1>1. CASE CheckLoopStatus(t)
    <2>1. /\ UNCHANGED <<heads, headsAvailable, accountLock>>
          /\ \A u \in Threads \ {t} :
               UNCHANGED <<from[u], pos[u], start[u], tx[u], tempHead[u]>>
      BY <1>1, Zenon DEF CheckLoopStatus, setVars, TypeInv, LocalsTypeOK
    <2>2. CASE loopStatus = "OK"
      <3>1. pc' = [pc EXCEPT ![t] = "interrupt"]
        BY <1>1, <2>2, Zenon DEF CheckLoopStatus, Goto
      <3> QED
        BY <2>1, <3>1, OwnerQuiet, Zenon DEF QuietLabels
    <2>3. CASE loopStatus # "OK"
      <3>1. pc' = [pc EXCEPT ![t] = "done"]
        BY <1>1, <2>3, Zenon DEF CheckLoopStatus, Goto
      <3> QED
        BY <2>1, <3>1, OwnerQuiet, Zenon DEF QuietLabels
    <2> QED
      BY <2>2, <2>3, Zenon
  <1>2. CASE CheckInterrupt(t)
    <2>1. /\ UNCHANGED <<heads, headsAvailable, accountLock>>
          /\ \A u \in Threads \ {t} :
               UNCHANGED <<from[u], pos[u], start[u], tx[u], tempHead[u]>>
      BY <1>2, Zenon DEF CheckInterrupt, setVars, TypeInv, LocalsTypeOK
    <2>2. CASE interrupt = "resubmit"
      <3>1. pc' = [pc EXCEPT ![t] = "adjust"]
        BY <1>2, <2>2, Zenon DEF CheckInterrupt, Goto
      <3> QED
        BY <2>1, <3>1, OwnerQuiet, Zenon DEF QuietLabels
    <2>3. CASE interrupt = "newHead"
      <3>1. pc' = [pc EXCEPT ![t] = "return"]
        BY <1>2, <2>3, Zenon DEF CheckInterrupt, Goto
      <3> QED
        BY <2>1, <3>1, OwnerQuiet, Zenon DEF QuietLabels
    <2>4. CASE interrupt # "resubmit" /\ interrupt # "newHead"
      <3>1. pc' = [pc EXCEPT ![t] = "gas"]
        BY <1>2, <2>4, Zenon DEF CheckInterrupt, Goto
      <3> QED
        BY <2>1, <3>1, OwnerQuiet, Zenon DEF QuietLabels
    <2> QED
      BY <2>2, <2>3, <2>4, Zenon DEF TypeInv, CtlTypeOK
  <1>3. CASE SendIncrease(t)
    <2>1. /\ UNCHANGED <<heads, headsAvailable, accountLock>>
          /\ \A u \in Threads \ {t} :
               UNCHANGED <<from[u], pos[u], start[u], tx[u], tempHead[u]>>
      BY <1>3, Zenon DEF SendIncrease, setVars, TypeInv, LocalsTypeOK
    <2>2. pc' = [pc EXCEPT ![t] = "return"]
      BY <1>3, Zenon DEF SendIncrease, Goto
    <2> QED
      BY <2>1, <2>2, OwnerQuiet, Zenon DEF QuietLabels
  <1>4. CASE StoreReturn(t)
    <2>1. /\ UNCHANGED <<heads, headsAvailable, accountLock>>
          /\ \A u \in Threads \ {t} :
               UNCHANGED <<from[u], pos[u], start[u], tx[u], tempHead[u]>>
      BY <1>4, Zenon DEF StoreReturn, setVars, TypeInv, LocalsTypeOK
    <2>2. pc' = [pc EXCEPT ![t] = "done"]
      BY <1>4, Zenon DEF StoreReturn, Goto
    <2> QED
      BY <2>1, <2>2, OwnerQuiet, Zenon DEF QuietLabels
  <1>5. CASE CheckGas(t)
    <2>1. /\ UNCHANGED <<heads, headsAvailable, accountLock>>
          /\ \A u \in Threads \ {t} :
               UNCHANGED <<from[u], pos[u], start[u], tx[u], tempHead[u]>>
      BY <1>5, Zenon DEF CheckGas, setVars, TypeInv, LocalsTypeOK
    <2>2. CASE gasPool < TxGas
      <3>1. pc' = [pc EXCEPT ![t] = "break"]
        BY <1>5, <2>2, ZenonT(40) DEF CheckGas, Goto
      <3> QED
        BY <2>1, <3>1, OwnerQuiet, Zenon DEF QuietLabels
    <2>3. CASE ~(gasPool < TxGas)
      <3>1. pc' = [pc EXCEPT ![t] = "peek"]
        BY <1>5, <2>3, Zenon DEF CheckGas, Goto
      <3> QED
        BY <2>1, <3>1, OwnerQuiet, Zenon DEF QuietLabels
    <2> QED
      BY <2>2, <2>3, Zenon
  <1>6. CASE NoTransaction(t)
    <2>1. /\ UNCHANGED <<heads, headsAvailable, accountLock>>
          /\ \A u \in Threads \ {t} :
               UNCHANGED <<from[u], pos[u], start[u], tx[u], tempHead[u]>>
      BY <1>6, Zenon DEF NoTransaction, setVars, TypeInv, LocalsTypeOK
    <2>2. CASE NumSenders = 0
      <3>1. pc' = [pc EXCEPT ![t] = "break"]
        BY <1>6, <2>2, Zenon DEF NoTransaction, Goto
      <3> QED
        BY <2>1, <3>1, OwnerQuiet, Zenon DEF QuietLabels
    <2>3. CASE NumSenders # 0
      <3>1. pc' = [pc EXCEPT ![t] = "done"]
        BY <1>6, <2>3, Zenon DEF NoTransaction, Goto
      <3> QED
        BY <2>1, <3>1, OwnerQuiet, Zenon DEF QuietLabels
    <2> QED
      BY <2>2, <2>3, Zenon
  <1>7. CASE CasBreak(t)
    <2>1. /\ UNCHANGED <<heads, headsAvailable, accountLock>>
          /\ \A u \in Threads \ {t} :
               UNCHANGED <<from[u], pos[u], start[u], tx[u], tempHead[u]>>
      BY <1>7, Zenon DEF CasBreak, setVars, TypeInv, LocalsTypeOK
    <2>2. pc' = [pc EXCEPT ![t] = "done"]
      BY <1>7, Zenon DEF CasBreak, Goto
    <2> QED
      BY <2>1, <2>2, OwnerQuiet, Zenon DEF QuietLabels
  <1>8. CASE CheckProtected(t)
    <2>1. CASE Data(tx[t]).protected
      BY <1>8, <2>1, OwnerCallFind, Zenon DEF CheckProtected, CallFind, Goto, setVars,
         BeforeAppend
    <2>2. CASE ~Data(tx[t]).protected
      <3>1. /\ pc' = [pc EXCEPT ![t] = "buyGas"] /\ pc[t] = "got"
            /\ UNCHANGED <<heads, headsAvailable, accountLock, start, pos, from, tx, tempHead>>
        BY <1>8, <2>2, Zenon DEF CheckProtected, Goto, setVars
      <3> QED
        BY <3>1, OwnerExecute, Zenon DEF BeforeAppend
    <2> QED
      BY <2>1, <2>2, Zenon
  <1>9. CASE BuyGas(t)
    <2>1. CASE pc' = [pc EXCEPT ![t] = "execute"] /\ pos' = pos
      <3>1. /\ pc[t] = "buyGas"
            /\ UNCHANGED <<heads, headsAvailable, accountLock, start, from, tx, tempHead>>
        BY <1>9, Zenon DEF BuyGas, setVars
      <3> QED
        BY <2>1, <3>1, OwnerExecute, Zenon DEF BeforeAppend
    <2>2. CASE \E m \in {"Shift", "Remove"} : CallFind(t, m)
      BY <1>9, <2>2, OwnerCallFind, Zenon DEF BuyGas, CallFind, Goto, setVars,
         BeforeAppend
    <2> QED
      BY <1>9, <2>1, <2>2, Zenon DEF BuyGas, Goto
  <1>10. CASE Execute(t)
    <2>1. CASE pc' = [pc EXCEPT ![t] = "usedGas"] /\ pos' = pos
      <3>1. /\ pc[t] = "execute"
            /\ UNCHANGED <<heads, headsAvailable, accountLock, start, from, tx, tempHead>>
        BY <1>10, Zenon DEF Execute, setVars
      <3> QED
        BY <2>1, <3>1, OwnerExecute, Zenon DEF BeforeAppend
    <2>2. CASE CallFind(t, "Shift")
      BY <1>10, <2>2, OwnerCallFind, Zenon DEF Execute, CallFind, Goto, setVars,
         BeforeAppend
    <2> QED
      BY <1>10, <2>1, <2>2, Zenon DEF Execute, Goto
  <1>11. CASE AddUsedGas(t)
    <2>1. /\ pc[t] = "usedGas" /\ pc' = [pc EXCEPT ![t] = "receipt"]
          /\ UNCHANGED <<heads, headsAvailable, accountLock, start, pos, from, tx, tempHead>>
      BY <1>11, Zenon DEF AddUsedGas, Goto, setVars
    <2> QED
      BY <2>1, OwnerExecute, Zenon DEF BeforeAppend
  <1>12. CASE NewReceipt(t)
    <2>1. /\ pc[t] = "receipt" /\ pc' = [pc EXCEPT ![t] = "appendTx"]
          /\ UNCHANGED <<heads, headsAvailable, accountLock, start, pos, from, tx, tempHead>>
      BY <1>12, Zenon DEF NewReceipt, Goto, setVars
    <2> QED
      BY <2>1, OwnerExecute, Zenon DEF BeforeAppend
  <1>13. CASE AppendTx(t)
    <2>1. /\ pc[t] = "appendTx" /\ pc' = [pc EXCEPT ![t] = "appendReceipt"]
          /\ UNCHANGED <<heads, headsAvailable, accountLock, start, pos, from, tx, tempHead>>
      BY <1>13, Zenon DEF AppendTx, Goto, setVars
    <2> QED
      BY <2>1, OwnerExecute, Zenon DEF BeforeAppend
  <1>14. CASE AppendReceipt(t)
    BY <1>14, OwnerCallFind, Zenon DEF AppendReceipt, CallFind, Goto, setVars
  <1>15. CASE Returned(t)
    <2>1. /\ UNCHANGED <<heads, headsAvailable, accountLock>>
          /\ \A u \in Threads \ {t} :
               UNCHANGED <<from[u], pos[u], start[u], tx[u], tempHead[u]>>
      BY <1>15, ZenonT(60) DEF Returned, setVars, TypeInv, LocalsTypeOK
    <2>2. CASE err[t] = "nil" /\ Data(tx[t]).creation
      <3>1. pc' = [pc EXCEPT ![t] = "panicTo"]
        BY <1>15, <2>2, Zenon DEF Returned, Goto
      <3> QED
        BY <2>1, <3>1, OwnerQuiet, Zenon DEF QuietLabels
    <2>3. CASE err[t] = "protected"
      <3>1. pc' = [pc EXCEPT ![t] = "done"]
        BY <1>15, <2>3, Zenon DEF Returned, Goto
      <3> QED
        BY <2>1, <3>1, OwnerQuiet, Zenon DEF QuietLabels
    <2>4. CASE ~(err[t] = "nil" /\ Data(tx[t]).creation) /\ err[t] # "protected"
      <3>1. pc' = [pc EXCEPT ![t] = "loop"]
        BY <1>15, <2>4, Zenon DEF Returned, Goto
      <3> QED
        BY <2>1, <3>1, OwnerQuiet, Zenon DEF QuietLabels
    <2> QED
      BY <2>2, <2>3, <2>4, Zenon
  <1> QED
    BY <1>1, <1>2, <1>3, <1>4, <1>5, <1>6, <1>7, <1>8, <1>9, <1>10, <1>11, <1>12, <1>13,
       <1>14, <1>15, ZenonT(40) DEF WorkerStep

(* Every step keeps the second layer.                                      *)
LEMMA OwnerNext == TypeInv /\ OwnerInv /\ [Next]_vars => OwnerInv'
  <1> SUFFICES ASSUME TypeInv, OwnerInv, [Next]_vars PROVE OwnerInv'
    OBVIOUS
  <1>1. ASSUME UNCHANGED <<setVars, locals>> PROVE OwnerInv'
    <2>1. /\ UNCHANGED <<heads, headsAvailable, accountLock>>
          /\ UNCHANGED <<pc, start, pos, from, tx, tempHead>>
      BY <1>1, Zenon DEF setVars, locals
    <2>2. ASSUME NEW u \in Threads PROVE ThreadInv(u)'
      BY <2>1, ThreadInvFrame, Zenon DEF OwnerInv
    <2>3. ExclusiveSender' /\ FindNeverPanics'
      BY <2>1, Zenon DEF OwnerInv, ExclusiveSender, FindNeverPanics, Holding
    <2> QED
      BY <2>1, <2>2, <2>3, SlotsFrame, Zenon DEF OwnerInv
  <1>2. ASSUME commitTransactions \/ newWorkLoop \/ UNCHANGED vars PROVE OwnerInv'
    BY <1>1, <1>2, Zenon DEF commitTransactions, Join, SendDecrease, newWorkLoop,
       Interrupt,
       ReceiveAdjust, vars
  <1>3. ASSUME NEW t \in Threads, txnWorker(t) PROVE OwnerInv'
    BY <1>3, OwnerSetStep, OwnerWorkerStep, Zenon DEF txnWorker
  <1> QED
    BY <1>2, <1>3, Zenon DEF Next, Terminated

(* No two threads work for the same account at once, for every number of   *)
(* threads and every pool: the LoadOrStore of Peek keeps the others out    *)
(* until Shift deletes the entry, and Remove never does.                   *)
THEOREM Ownership == Spec => [](TypeInv /\ OwnerInv)
  BY TypeInit, TypeNext, OwnerInit, OwnerNext, PTL DEF Spec

-----------------------------------------------------------------------------
(* The third layer: every account that still has a transaction is looked   *)
(* after by some thread.                                                   *)

(* There is a reason to end the batch early: an interrupt that a thread    *)
(* has seen, a shortage of gas, a protected transaction.                   *)
Excused ==
    \/ loopStatus = "RETURN"
    \/ \E u \in Threads : pc[u] \in {"adjust", "return"} \/ err[u] \in {"lowGas", "protected"}

(* A thread that found one of the last two is about to end.                *)
ErrAt(t) ==
    /\ err[t] = "lowGas" => pc[t] \in {"break", "done"}
    /\ err[t] = "protected" => pc[t] \in {"findHead", "findFlag", "Shift", "unlock", "Remove",
                                          "removeHead", "returned", "panicFind", "done"}

(* The account that Peek read off an available slot is still its account.  *)
PeekedAt(t) ==
    pc[t] \in {"peekLoad", "peekStore"} /\ headsAvailable[PeekSlot(t)] = AVAILABLE
        => heads[PeekSlot(t)].from = from[t]

(* No account is left.                                                     *)
Emptied == \A p \in Slots : headsAvailable[p] # AVAILABLE

(* Slot p is ahead of the scan of t.                                       *)
Ahead(t, p) == \E i \in pos[t]..(NumHeads - 1) : (start[t] + i) % NumHeads = p

(* Thread t goes on, and if it is in a scan, slot p is ahead of it.        *)
EndLabels == {"adjust", "return", "break", "peekNil", "done"}
Looks(t, p) == pc[t] \notin EndLabels /\ (pc[t] \in ScanLabels => Ahead(t, p))

(* Threads are told to break only when there is a reason or nothing left;  *)
(* an available account that is locked has a thread working for it; and    *)
(* unless there is a reason to end, some thread will come to every account *)
(* that is available.                                                      *)
BreakInv ==
    loopStatus = "BREAK" \/ (\E t \in Threads : pc[t] = "break") => Excused \/ Emptied
LockedInv ==
    \A p \in Slots :
        headsAvailable[p] = AVAILABLE /\ heads[p].from \in accountLock =>
            \E u \in Threads : Holding(u) /\ from[u] = heads[p].from
LookInv ==
    Excused \/ \A p \in Slots :
        headsAvailable[p] = AVAILABLE => \E u \in Threads : Looks(u, p)

CoverInv ==
    /\ \A t \in Threads : ErrAt(t) /\ PeekedAt(t)
    /\ BreakInv
    /\ LockedInv
    /\ LookInv
    /\ batch # "wait" => AllDone

(* What a step of thread t owes to the others: accounts only ever go, and  *)
(* t leaves an account only to a thread that looks after it.               *)
FlagsDown ==
    \A p \in Slots : headsAvailable'[p] = AVAILABLE =>
        headsAvailable[p] = AVAILABLE /\ heads'[p].from = heads[p].from
Releases(t) ==
    \A p \in Slots : headsAvailable'[p] = AVAILABLE /\ heads'[p].from \in accountLock' =>
        \/ Holding(t)' /\ from'[t] = heads'[p].from
        \/ heads[p].from \in accountLock /\ ~(Holding(t) /\ from[t] = heads[p].from)
Leaves(t) ==
    Excused' \/ \A p \in Slots : headsAvailable'[p] = AVAILABLE /\ Looks(t, p) =>
        Looks(t, p)' \/ \E u \in Threads \ {t} : Looks(u, p)
Covers(t) ==
    /\ FlagsDown
    /\ ErrAt(t)' /\ PeekedAt(t)'
    /\ Excused => Excused'
    /\ loopStatus' = "BREAK" \/ pc'[t] = "break" =>
          loopStatus = "BREAK" \/ pc[t] = "break" \/ Excused' \/ Emptied
    /\ Releases(t)
    /\ Leaves(t)
    /\ pc[t] # "done" /\ batch' = batch

-----------------------------------------------------------------------------
(* A multiple of n strictly between -n and n is zero.                      *)
LEMMA Multiple ==
  ASSUME NEW n \in Nat \ {0}, NEW k \in Int, n * k < n, n * k > 0 - n
  PROVE  k = 0
  OBVIOUS

(* The remainder is unique.                                                *)
LEMMA ModUnique ==
  ASSUME NEW n \in Nat \ {0}, NEW x \in Nat, NEW q \in Int, NEW p \in 0..(n - 1), x = n * q + p
  PROVE  x % n = p
  <1>1. x % n \in 0..(n - 1) /\ x \div n \in Int /\ x = n * (x \div n) + (x % n)
    OBVIOUS
  <1>2. n * (q - (x \div n)) = (x % n) - p
    BY <1>1
  <1>3. q - (x \div n) = 0
    BY SMTT(30), <1>1, <1>2, Multiple
  <1> QED
    BY <1>1, <1>2, <1>3

(* Starting anywhere, n consecutive numbers reach every remainder.         *)
LEMMA SlotAhead ==
  ASSUME NEW n \in Nat \ {0}, NEW s \in Nat, NEW p \in 0..(n - 1)
  PROVE  \E i \in 0..(n - 1) : (s + i) % n = p
  <1> DEFINE r == s % n
             q == s \div n
  <1>1. r \in 0..(n - 1) /\ q \in Int /\ s = n * q + r
    OBVIOUS
  <1> HIDE DEF r, q
  <1>2. CASE p >= r
    <2>1. p - r \in 0..(n - 1) /\ s + (p - r) \in Nat
      BY <1>1, <1>2
    <2>2. s + (p - r) = n * q + p
      BY <1>1
    <2>3. (s + (p - r)) % n = p
      BY <1>1, <2>1, <2>2, ModUnique
    <2> QED
      BY Zenon, <2>1, <2>3
  <1>3. CASE p < r
    <2>1. (p - r) + n \in 0..(n - 1) /\ s + ((p - r) + n) \in Nat
      BY <1>1, <1>3
    <2>2. n * (q + 1) = n * q + n /\ n * q \in Int
      BY <1>1
    <2>3. s + ((p - r) + n) = n * (q + 1) + p
      BY <1>1, <2>2
    <2>4. (s + ((p - r) + n)) % n = p
      BY <1>1, <2>1, <2>3, ModUnique
    <2> QED
      BY Zenon, <2>1, <2>4
  <1> QED
    BY SMTT(30), <1>1, <1>2, <1>3

(* NumSenders counts the accounts that are left.                           *)
LEMMA NoSenders == NumSenders = 0 <=> Emptied
  <1> DEFINE S == {p \in Slots : headsAvailable[p] = AVAILABLE}
  <1>1. IsFiniteSet(Slots)
    <2>1. 0 \in Int /\ NumHeads - 1 \in Int
      BY NumHeadsNat
    <2> QED
      BY <2>1, FS_Interval, Zenon DEF Slots
  <1>2. S \subseteq Slots
    OBVIOUS
  <1>3. IsFiniteSet(S)
    BY <1>1, <1>2, FS_Subset, Zenon
  <1>4. Cardinality(S) = 0 <=> S = {}
    BY <1>3, FS_EmptySet, Zenon
  <1> QED
    BY <1>4, Zenon DEF NumSenders, Emptied

(* A step that does so keeps the layer.                                    *)
LEMMA CoverStep ==
  ASSUME TypeInv, CoverInv, NEW t \in Threads, Covers(t),
         \A u \in Threads \ {t} :
            UNCHANGED <<pc[u], from[u], pos[u], start[u], err[u]>>
  PROVE  CoverInv'
  <1>1. \A u \in Threads : ErrAt(u)'
    BY Zenon DEF Covers, CoverInv, ErrAt
  <1>2. \A u \in Threads \ {t} : pc[u] \in {"peekLoad", "peekStore"} => PeekSlot(u) \in Slots
    BY CountersInSlots DEF ScanLabels
  <1>3. \A u \in Threads : PeekedAt(u)'
    <2>1. ASSUME NEW u \in Threads \ {t}, pc[u] \in {"peekLoad", "peekStore"},
                 headsAvailable'[PeekSlot(u)] = AVAILABLE
          PROVE  heads'[PeekSlot(u)].from = from[u]
      BY <1>2, <2>1, Zenon DEF Covers, FlagsDown, CoverInv, PeekedAt
    <2>2. ASSUME NEW u \in Threads \ {t} PROVE PeekSlot(u)' = PeekSlot(u)
      BY Zenon DEF PeekSlot
    <2>3. ASSUME NEW u \in Threads \ {t} PROVE PeekedAt(u)'
      BY <2>1, <2>2, Zenon DEF PeekedAt
    <2> QED
      BY <2>3, Zenon DEF Covers
  <1>4. Emptied => Emptied'
    BY Zenon DEF Covers, FlagsDown, Emptied
  <1>5. BreakInv'
    <2>1. ASSUME loopStatus' = "BREAK" \/ pc'[t] = "break" PROVE Excused' \/ Emptied'
      BY <1>4, <2>1, Zenon DEF Covers, CoverInv, BreakInv
    <2>2. ASSUME NEW u \in Threads \ {t}, pc'[u] = "break" PROVE Excused' \/ Emptied'
      BY <1>4, <2>2, Zenon DEF Covers, CoverInv, BreakInv
    <2> QED
      BY <2>1, <2>2, Zenon DEF BreakInv
  <1>6. LockedInv'
    <2> SUFFICES ASSUME NEW p \in Slots, headsAvailable'[p] = AVAILABLE,
                        heads'[p].from \in accountLock'
                 PROVE  \E u \in Threads : Holding(u)' /\ from'[u] = heads'[p].from
      BY Zenon DEF LockedInv
    <2>1. headsAvailable[p] = AVAILABLE /\ heads'[p].from = heads[p].from
      BY Zenon DEF Covers, FlagsDown
    <2>2. CASE heads[p].from \in accountLock /\ ~(Holding(t) /\ from[t] = heads[p].from)
      <3>1. PICK u \in Threads : Holding(u) /\ from[u] = heads[p].from
        BY <2>1, <2>2, Zenon DEF CoverInv, LockedInv
      <3>2. u # t
        BY <2>2, <3>1, Zenon
      <3> QED
        BY <2>1, <3>1, <3>2, Zenon DEF Holding
    <2> QED
      BY <2>2, Zenon DEF Covers, Releases
  <1>7. LookInv'
    <2> SUFFICES ASSUME ~Excused', NEW p \in Slots, headsAvailable'[p] = AVAILABLE
                 PROVE  \E u \in Threads : Looks(u, p)'
      BY Zenon DEF LookInv
    <2>1. headsAvailable[p] = AVAILABLE /\ ~Excused
      BY Zenon DEF Covers, FlagsDown
    <2>2. PICK u \in Threads : Looks(u, p)
      <3>1. LookInv
        BY Zenon DEF CoverInv
      <3> QED
        BY <2>1, <3>1, Zenon DEF LookInv
    <2>3. ASSUME NEW v \in Threads \ {t}, Looks(v, p) PROVE Looks(v, p)'
      BY <2>3, Zenon DEF Looks, Ahead
    <2> QED
      BY <2>2, <2>3, Zenon DEF Covers, Leaves
  <1>8. batch' # "wait" => AllDone'
    BY Zenon DEF Covers, CoverInv, AllDone
  <1> QED
    BY <1>1, <1>3, <1>5, <1>6, <1>7, <1>8, Zenon DEF CoverInv

(* A thread works in its own registers.                                    *)
LEMMA OwnRegisters ==
  ASSUME TypeInv, NEW t \in Threads, txnWorker(t)
  PROVE  \A u \in Threads \ {t} :
            UNCHANGED <<pc[u], from[u], pos[u], start[u], err[u]>>
  <1>1. /\ \E x : pc' = [pc EXCEPT ![t] = x]
        /\ \E x : from' = [from EXCEPT ![t] = x] \/ from' = from
        /\ \E x : pos' = [pos EXCEPT ![t] = x] \/ pos' = pos
        /\ \E x : start' = [start EXCEPT ![t] = x] \/ start' = start
        /\ \E x : err' = [err EXCEPT ![t] = x] \/ err' = err
    <2>1. CASE WorkerStep(t)
      BY <2>1, ZenonT(60) DEF WorkerStep, CheckLoopStatus, CheckInterrupt, SendIncrease,
         StoreReturn, CheckGas, NoTransaction, CasBreak, CheckProtected, BuyGas, Execute,
         AddUsedGas, NewReceipt, AppendTx, AppendReceipt, Returned, Goto, CallFind, Fail, execVars
    <2>2. CASE SetStep(t) /\ UNCHANGED execVars
      BY <2>2, ZenonT(60) DEF SetStep, Peek, find, Shift, Remove, PeekIndex, PeekFlag, PeekSender,
         PeekLoad, PeekLoadOrStore, PeekTake, PeekContinue, FindHead, FindFlag, FindContinue,
         ShiftHead, ShiftUnlock, RemoveFlag, RemoveHead, CallFind, Goto, execVars
    <2> QED
      BY <2>1, <2>2, Zenon DEF txnWorker
  <1> QED
    BY <1>1, Zenon DEF TypeInv, LocalsTypeOK

(* A reason to end stays one, whichever thread found it.                   *)
LEMMA ExcusedStays ==
  ASSUME TypeInv, CoverInv, NEW t \in Threads, txnWorker(t)
  PROVE  Excused => Excused'
  <1>1. CASE loopStatus = "RETURN"
    <2>1. loopStatus' = "RETURN"
      <3>1. CASE WorkerStep(t)
        BY <1>1, <3>1, Zenon DEF WorkerStep, CheckLoopStatus, CheckInterrupt, SendIncrease,
           StoreReturn, CheckGas, NoTransaction, CasBreak, CheckProtected, BuyGas, Execute,
           AddUsedGas, NewReceipt, AppendTx, AppendReceipt, Returned, ctlVars
      <3>2. CASE UNCHANGED ctlVars
        BY <1>1, <3>2, Zenon DEF ctlVars
      <3> QED
        BY <3>1, <3>2, Zenon DEF txnWorker
    <2> QED
      BY <2>1, Zenon DEF Excused
  <1>2. ASSUME NEW u \in Threads \ {t},
               pc[u] \in {"adjust", "return"} \/ err[u] \in {"lowGas", "protected"}
        PROVE  Excused'
    BY <1>2, OwnRegisters, Zenon DEF Excused
  <1>3. CASE pc[t] = "adjust"
    <2>1. SendIncrease(t)
      BY <1>3, Zenon DEF txnWorker, WorkerStep, CheckLoopStatus, CheckInterrupt,
         StoreReturn, CheckGas, NoTransaction, CasBreak, CheckProtected, BuyGas, Execute,
         AddUsedGas, NewReceipt, AppendTx, AppendReceipt, Returned, SetStep, Peek, find, Shift,
         Remove, PeekIndex, PeekFlag, PeekSender, PeekLoad, PeekLoadOrStore, PeekTake,
         FindHead, FindFlag, ShiftHead, ShiftUnlock, RemoveFlag, RemoveHead
    <2>2. pc'[t] = "return"
      BY <2>1, Zenon DEF SendIncrease, Goto, TypeInv, LocalsTypeOK
    <2> QED
      BY <2>2, Zenon DEF Excused
  <1>4. CASE pc[t] = "return"
    <2>1. StoreReturn(t)
      BY <1>4, Zenon DEF txnWorker, WorkerStep, CheckLoopStatus, CheckInterrupt,
         SendIncrease, CheckGas, NoTransaction, CasBreak, CheckProtected, BuyGas, Execute,
         AddUsedGas, NewReceipt, AppendTx, AppendReceipt, Returned, SetStep, Peek, find, Shift,
         Remove, PeekIndex, PeekFlag, PeekSender, PeekLoad, PeekLoadOrStore, PeekTake,
         FindHead, FindFlag, ShiftHead, ShiftUnlock, RemoveFlag, RemoveHead
    <2> QED
      BY <2>1, Zenon DEF StoreReturn, Excused
  <1>5. CASE err[t] \in {"lowGas", "protected"}
    <2>1. pc[t] \in {"break", "done", "findHead", "findFlag", "Shift", "unlock", "Remove",
                     "removeHead", "returned", "panicFind"}
      BY <1>5, Zenon DEF CoverInv, ErrAt
    <2>2. err' = err
      <3>1. CASE WorkerStep(t)
        BY <2>1, <3>1, Zenon DEF WorkerStep, CheckLoopStatus, CheckInterrupt, SendIncrease,
           StoreReturn, CheckGas, NoTransaction, CasBreak, CheckProtected, BuyGas, Execute,
           AddUsedGas, NewReceipt, AppendTx, AppendReceipt, Returned, execVars
      <3>2. CASE UNCHANGED execVars
        BY <3>2, Zenon DEF execVars
      <3> QED
        BY <3>1, <3>2, Zenon DEF txnWorker
    <2> QED
      BY <1>5, <2>2, Zenon DEF Excused
  <1> QED
    BY <1>1, <1>2, <1>3, <1>4, <1>5, Zenon DEF Excused

(* What a thread has found ends it, step by step.                          *)
LEMMA ErrStays ==
  ASSUME TypeInv, CoverInv, NEW t \in Threads, txnWorker(t)
  PROVE  ErrAt(t)'
  <1>1. ErrAt(t) /\ caller[t] \in {"Shift", "Remove"}
    BY Zenon DEF CoverInv, TypeInv, LocalsTypeOK
  <1>2. pc \in [Threads -> Labels \cup HoldingLabels] /\ DOMAIN err = Threads
    BY Zenon DEF TypeInv, LocalsTypeOK
  <1>3. CASE WorkerStep(t)
    <2>1. CASE \/ CheckLoopStatus(t) \/ CheckInterrupt(t) \/ SendIncrease(t) \/ StoreReturn(t)
               \/ CasBreak(t) \/ AddUsedGas(t) \/ NewReceipt(t) \/ AppendTx(t) \/ Returned(t)
      BY <1>1, <1>2, <2>1, ZenonT(40) DEF CheckLoopStatus, CheckInterrupt, SendIncrease,
         StoreReturn, CasBreak, AddUsedGas, NewReceipt, AppendTx, Returned, Goto, execVars, ErrAt
    <2>2. CASE CheckGas(t) \/ NoTransaction(t) \/ CheckProtected(t) \/ BuyGas(t) \/ Execute(t)
               \/ AppendReceipt(t)
      BY <1>1, <1>2, <2>2, ZenonT(40) DEF CheckGas, NoTransaction, CheckProtected, BuyGas,
         Execute, AppendReceipt, CallFind, Goto, Fail, ErrAt
    <2> QED
      BY <1>3, <2>1, <2>2, Zenon DEF WorkerStep
  <1>4. CASE SetStep(t) /\ UNCHANGED execVars
    <2>1. err' = err
      BY <1>4, Zenon DEF execVars
    <2>2. CASE Peek(t)
      BY <1>1, <1>2, <2>1, <2>2, Zenon DEF Peek, PeekIndex, PeekFlag, PeekSender, PeekLoad,
         PeekLoadOrStore, PeekTake, PeekContinue, Goto, ErrAt
    <2>3. CASE find(t)
      BY <1>1, <1>2, <2>1, <2>3, Zenon DEF find, FindHead, FindFlag, FindContinue, Goto, ErrAt
    <2>4. CASE Shift(t) \/ Remove(t)
      BY <1>1, <1>2, <2>1, <2>4, Zenon DEF Shift, Remove, ShiftHead, ShiftUnlock, RemoveFlag,
         RemoveHead, CallFind, Goto, ErrAt
    <2> QED
      BY <1>4, <2>2, <2>3, <2>4, Zenon DEF SetStep
  <1> QED
    BY <1>3, <1>4, Zenon DEF txnWorker

(* A thread that works for an account looks after every account.           *)
LEMMA HolderLooks ==
  ASSUME NEW u \in Threads, Holding(u), NEW p \in Slots
  PROVE  Looks(u, p)
  BY Zenon DEF Holding, HoldingLabels, Looks, EndLabels, ScanLabels

(* A step that leaves the set alone, keeps the account of the thread and   *)
(* does not end it, or ends it with a reason.                              *)
LEMMA CoverQuiet ==
  ASSUME TypeInv, CoverInv, NEW t \in Threads, txnWorker(t), pc[t] # "done", batch' = batch,
         UNCHANGED <<heads, headsAvailable, accountLock>>,
         NEW l, pc'[t] = l, l \notin {"peekLoad", "peekStore"},
         Holding(t) => l \in HoldingLabels /\ from'[t] = from[t],
         loopStatus' = "BREAK" \/ l = "break" =>
            loopStatus = "BREAK" \/ pc[t] = "break" \/ Excused' \/ Emptied,
         pc[t] \in EndLabels \/ l \notin EndLabels \cup ScanLabels \/ Excused' \/ Emptied
  PROVE  Covers(t)
  <1>1. FlagsDown
    BY Zenon DEF FlagsDown
  <1>2. ErrAt(t)' /\ (Excused => Excused')
    BY ErrStays, ExcusedStays, Zenon
  <1>3. PeekedAt(t)'
    BY Zenon DEF PeekedAt
  <1>4. Releases(t)
    BY Zenon DEF Releases, Holding
  <1>5. Leaves(t)
    BY Zenon DEF Leaves, Looks, Emptied
  <1> QED
    BY <1>1, <1>2, <1>3, <1>4, <1>5, Zenon DEF Covers

(* The steps of the worker.                                                *)
LEMMA CoverWorkerStep ==
  ASSUME TypeInv, CoverInv, NEW t \in Threads, WorkerStep(t)
  PROVE  Covers(t)
  <1>1. txnWorker(t)
    BY Zenon DEF txnWorker
  <1>2. UNCHANGED <<heads, headsAvailable, accountLock, batch>> /\ pc[t] # "done"
    BY ZenonT(40) DEF WorkerStep, CheckLoopStatus, CheckInterrupt, SendIncrease,
       StoreReturn, CheckGas, NoTransaction, CasBreak, CheckProtected, BuyGas, Execute,
       AddUsedGas, NewReceipt, AppendTx, AppendReceipt, Returned, setVars, ctlVars
  <1>3. /\ DOMAIN pc = Threads /\ DOMAIN err = Threads /\ loopStatus \in {"OK", "BREAK", "RETURN"}
        /\ Excused => Excused'
    BY <1>1, ExcusedStays, Zenon DEF TypeInv, LocalsTypeOK, CtlTypeOK
  <1>4. CASE CheckLoopStatus(t)
    <2>1. CASE loopStatus = "OK"
      <3>1. pc'[t] = "interrupt" /\ loopStatus' = loopStatus /\ pc[t] = "loop"
        BY <1>3, <1>4, <2>1, Zenon DEF CheckLoopStatus, Goto, ctlVars
      <3> QED
        BY <1>1, <1>2, <2>1, <3>1, CoverQuiet, Zenon DEF Holding, HoldingLabels, EndLabels,
           ScanLabels
    <2>2. CASE loopStatus # "OK"
      <3>1. pc'[t] = "done" /\ loopStatus' = loopStatus /\ pc[t] = "loop"
        BY <1>3, <1>4, <2>2, Zenon DEF CheckLoopStatus, Goto, ctlVars
      <3>2. Excused' \/ Emptied
        BY <1>3, <2>2, Zenon DEF CoverInv, BreakInv, Excused
      <3> QED
        BY <1>1, <1>2, <3>1, <3>2, CoverQuiet, Zenon DEF Holding, HoldingLabels
    <2> QED
      BY <2>1, <2>2, Zenon
  <1>5. CASE CheckInterrupt(t) \/ SendIncrease(t)
    <2>1. /\ pc[t] \in {"interrupt", "adjust"} /\ loopStatus' = loopStatus
          /\ pc'[t] \in {"adjust", "return", "gas"} /\ (pc[t] = "adjust" => pc'[t] = "return")
      BY <1>3, <1>5, Zenon DEF CheckInterrupt, SendIncrease, Goto, ctlVars
    <2>2. pc'[t] \in {"adjust", "return"} => Excused'
      BY Zenon DEF Excused
    <2> QED
      BY <1>1, <1>2, <2>1, <2>2, CoverQuiet, Zenon DEF Holding, HoldingLabels, EndLabels, ScanLabels
  <1>6. CASE StoreReturn(t)
    <2>1. pc[t] = "return" /\ pc'[t] = "done" /\ loopStatus' = "RETURN"
      BY <1>3, <1>6, Zenon DEF StoreReturn, Goto
    <2> QED
      BY <1>1, <1>2, <2>1, CoverQuiet, Zenon DEF Holding, HoldingLabels, EndLabels
  <1>7. CASE CheckGas(t)
    <2>1. /\ pc[t] = "gas" /\ loopStatus' = loopStatus
          /\ \/ pc'[t] = "peek"
             \/ pc'[t] = "break" /\ err'[t] = "lowGas"
      BY <1>3, <1>7, Zenon DEF CheckGas, Goto, Fail, ctlVars
    <2>2. err'[t] = "lowGas" => Excused'
      BY Zenon DEF Excused
    <2> QED
      BY <1>1, <1>2, <2>1, <2>2, CoverQuiet, Zenon DEF Holding, HoldingLabels, EndLabels, ScanLabels
  <1>8. CASE NoTransaction(t)
    <2>1. /\ pc[t] = "peekNil" /\ loopStatus' = loopStatus
          /\ pc'[t] \in {"break", "done"} /\ (pc'[t] = "break" => NumSenders = 0)
      BY <1>3, <1>8, Zenon DEF NoTransaction, Goto, ctlVars
    <2>2. NumSenders = 0 => Emptied
      BY NoSenders
    <2> QED
      BY <1>1, <1>2, <2>1, <2>2, CoverQuiet, Zenon DEF Holding, HoldingLabels, EndLabels
  <1>9. CASE CasBreak(t)
    <2>1. pc[t] = "break" /\ pc'[t] = "done"
      BY <1>3, <1>9, Zenon DEF CasBreak, Goto
    <2> QED
      BY <1>1, <1>2, <2>1, CoverQuiet, Zenon DEF Holding, HoldingLabels, EndLabels
  <1>10. CASE \/ CheckProtected(t) \/ BuyGas(t) \/ Execute(t) \/ AddUsedGas(t) \/ NewReceipt(t)
              \/ AppendTx(t) \/ AppendReceipt(t)
    <2>1. /\ pc'[t] \in {"findHead", "buyGas", "execute", "usedGas", "receipt", "appendTx",
                         "appendReceipt"}
          /\ from' = from /\ loopStatus' = loopStatus
      BY <1>3, <1>10, ZenonT(40) DEF CheckProtected, BuyGas, Execute, AddUsedGas, NewReceipt,
         AppendTx, AppendReceipt, CallFind, Goto, ctlVars
    <2> QED
      BY <1>1, <1>2, <2>1, CoverQuiet, Zenon DEF Holding, HoldingLabels, EndLabels, ScanLabels
  <1>11. CASE Returned(t)
    <2>1. /\ pc[t] = "returned" /\ loopStatus' = loopStatus /\ err' = err
          /\ pc'[t] \in {"panicTo", "done", "loop"} /\ (pc'[t] = "done" => err[t] = "protected")
      BY <1>3, <1>11, Zenon DEF Returned, Goto, ctlVars
    <2>2. err'[t] = "protected" => Excused'
      BY Zenon DEF Excused
    <2> QED
      BY <1>1, <1>2, <2>1, <2>2, CoverQuiet, Zenon DEF Holding, HoldingLabels, EndLabels, ScanLabels
  <1> QED
    BY <1>4, <1>5, <1>6, <1>7, <1>8, <1>9, <1>10, <1>11, ZenonT(40) DEF WorkerStep

(* A step inside the set, which has no part in the control of the batch.   *)
LEMMA CoverInside ==
  ASSUME TypeInv, CoverInv, NEW t \in Threads, txnWorker(t), pc[t] # "done",
         UNCHANGED ctlVars, pc'[t] # "break",
         FlagsDown, PeekedAt(t)', Releases(t), Leaves(t)
  PROVE  Covers(t)
  BY ErrStays, ExcusedStays, Zenon DEF Covers, ctlVars

(* Peek goes on to the next slot, because the account of this one is gone  *)
(* or has a thread working for it: that thread looks after the slot.       *)
LEMMA CoverPeekContinue ==
  ASSUME TypeInv, CoverInv, NEW t \in Threads, txnWorker(t), UNCHANGED ctlVars,
         pc[t] \in ScanLabels, PeekContinue(t),
         UNCHANGED <<heads, headsAvailable, accountLock, start>>,
         headsAvailable[PeekSlot(t)] = AVAILABLE => heads[PeekSlot(t)].from \in accountLock
  PROVE  Covers(t)
  <1>1. ~Holding(t) /\ pc[t] # "done"
    BY Zenon DEF Holding, HoldingLabels, ScanLabels
  <1>2. pos[t] \in Nat /\ NumHeads \in Nat /\ PeekSlot(t) \in Slots
    BY CountersInSlots, NumHeadsNat DEF TypeInv, LocalsTypeOK
  <1>3. /\ pos'[t] = pos[t] + 1
        /\ pc'[t] = IF pos[t] + 1 < NumHeads THEN "peekFlag" ELSE "peekNil"
    BY Zenon DEF PeekContinue, Goto, TypeInv, LocalsTypeOK
  <1>4. pc'[t] \in {"peekFlag", "peekNil"}
    BY <1>3, Zenon
  <1>5. FlagsDown /\ Releases(t) /\ PeekedAt(t)'
    BY <1>1, <1>4, Zenon DEF FlagsDown, Releases, PeekedAt
  <1>6. Leaves(t)
    <2> SUFFICES ASSUME NEW p \in Slots, headsAvailable'[p] = AVAILABLE, Looks(t, p)
                 PROVE  Looks(t, p)' \/ \E u \in Threads \ {t} : Looks(u, p)
      BY Zenon DEF Leaves
    <2>1. PICK i \in pos[t]..(NumHeads - 1) : (start[t] + i) % NumHeads = p
      BY Zenon DEF Looks, Ahead
    <2>2. CASE i = pos[t]
      <3>1. p = PeekSlot(t)
        BY <2>1, <2>2, Zenon DEF PeekSlot
      <3>2. PICK u \in Threads : Holding(u) /\ from[u] = heads[p].from
        BY <3>1, Zenon DEF CoverInv, LockedInv
      <3> QED
        BY <1>1, <3>2, HolderLooks, Zenon
    <2>3. CASE i # pos[t]
      <3>1. i \in (pos[t] + 1)..(NumHeads - 1) /\ pos[t] + 1 < NumHeads
        BY <1>2, <2>1, <2>3
      <3>2. i \in pos'[t]..(NumHeads - 1) /\ pc'[t] = "peekFlag"
        BY <1>3, <3>1, Zenon
      <3>3. Ahead(t, p)'
        BY <2>1, <3>2, Zenon DEF Ahead
      <3> QED
        BY <3>2, <3>3, ZenonT(40) DEF Looks, EndLabels
    <2> QED
      BY <2>2, <2>3, Zenon
  <1> QED
    BY <1>1, <1>4, <1>5, <1>6, CoverInside, Zenon

(* The steps of Peek.                                                      *)
LEMMA CoverPeek ==
  ASSUME TypeInv, CoverInv, NEW t \in Threads, Peek(t), txnWorker(t), UNCHANGED ctlVars
  PROVE  Covers(t)
  <1>1. DOMAIN pc = Threads /\ DOMAIN from = Threads /\ DOMAIN pos = Threads /\ DOMAIN start = Threads
    BY Zenon DEF TypeInv, LocalsTypeOK
  <1>2. pc[t] # "done"
    BY Zenon DEF Peek, PeekIndex, PeekFlag, PeekSender, PeekLoad, PeekLoadOrStore, PeekTake
  <1>3. loopStatus' = loopStatus /\ batch' = batch
    BY Zenon DEF ctlVars
  <1>4. CASE PeekIndex(t)
    <2>1. /\ pc[t] = "peek" /\ pc'[t] = (IF NumHeads > 0 THEN "peekFlag" ELSE "peekNil")
          /\ start'[t] = index /\ pos'[t] = 0
          /\ UNCHANGED <<heads, headsAvailable, accountLock>>
      BY <1>1, <1>4, Zenon DEF PeekIndex, Goto, setVars
    <2>2. pc'[t] \in {"peekFlag", "peekNil"}
      BY <2>1, Zenon
    <2>3. FlagsDown /\ Releases(t) /\ PeekedAt(t)'
      BY <2>1, <2>2, Zenon DEF FlagsDown, Releases, PeekedAt, Holding, HoldingLabels
    <2>4. ASSUME NEW p \in Slots PROVE Looks(t, p)'
      <3>1. NumHeads \in Nat \ {0} /\ p \in 0..(NumHeads - 1)
        BY NumHeadsNat DEF Slots
      <3>2. index \in Nat
        BY Zenon DEF TypeInv, SetTypeOK
      <3>3. \E i \in 0..(NumHeads - 1) : (index + i) % NumHeads = p
        BY <3>1, <3>2, SlotAhead, Zenon
      <3>4. Ahead(t, p)'
        BY <2>1, <3>3, ZenonT(40) DEF Ahead
      <3>5. NumHeads > 0
        BY <3>1
      <3>6. pc'[t] = "peekFlag"
        BY <2>1, <3>5, Zenon
      <3> QED
        BY <3>4, <3>6, Zenon DEF Looks, EndLabels
    <2>5. Leaves(t)
      BY <2>4, Zenon DEF Leaves
    <2> QED
      BY <1>2, <2>2, <2>3, <2>5, CoverInside, Zenon
  <1>5. CASE PeekFlag(t)
    <2>1. pc[t] = "peekFlag" /\ UNCHANGED <<heads, headsAvailable, accountLock, start>>
      BY <1>5, Zenon DEF PeekFlag, setVars
    <2>2. CASE headsAvailable[PeekSlot(t)] = NOT_AVAILABLE
      <3>1. PeekContinue(t)
        BY <1>5, <2>2, Zenon DEF PeekFlag
      <3>2. headsAvailable[PeekSlot(t)] # AVAILABLE
        BY <2>2 DEF AVAILABLE, NOT_AVAILABLE
      <3> QED
        BY <2>1, <3>1, <3>2, CoverPeekContinue, Zenon DEF ScanLabels
    <2>3. CASE headsAvailable[PeekSlot(t)] # NOT_AVAILABLE
      <3>1. pc'[t] = "peekSender" /\ pos' = pos
        BY <1>1, <1>5, <2>3, Zenon DEF PeekFlag, Goto
      <3>2. FlagsDown /\ Releases(t) /\ PeekedAt(t)'
        BY <2>1, <3>1, Zenon DEF FlagsDown, Releases, PeekedAt, Holding, HoldingLabels
      <3>3. Leaves(t)
        BY <2>1, <3>1, Zenon DEF Leaves, Looks, Ahead, EndLabels, ScanLabels
      <3> QED
        BY <1>2, <3>1, <3>2, <3>3, CoverInside, Zenon
    <2> QED
      BY <2>2, <2>3, Zenon
  <1>6. CASE PeekSender(t)
    <2>1. /\ pc[t] = "peekSender" /\ UNCHANGED <<heads, headsAvailable, accountLock, start, pos>>
          /\ pc'[t] \in {"panicPeek", "peekLoad"}
          /\ pc'[t] = "peekLoad" => from'[t] = heads[PeekSlot(t)].from
      BY <1>1, <1>6, Zenon DEF PeekSender, Goto, setVars
    <2>2. PeekSlot(t)' = PeekSlot(t)
      BY <2>1, Zenon DEF PeekSlot
    <2>3. FlagsDown /\ Releases(t) /\ PeekedAt(t)'
      BY <2>1, <2>2, Zenon DEF FlagsDown, Releases, PeekedAt, Holding, HoldingLabels
    <2>4. Leaves(t)
      BY <2>1, Zenon DEF Leaves, Looks, Ahead, EndLabels, ScanLabels
    <2> QED
      BY <1>2, <2>1, <2>3, <2>4, CoverInside, Zenon
  <1>7. ASSUME pc[t] \in {"peekLoad", "peekStore"}, from[t] \in accountLock, PeekContinue(t),
               UNCHANGED <<heads, headsAvailable, accountLock, start>>
        PROVE  Covers(t)
    <2>1. headsAvailable[PeekSlot(t)] = AVAILABLE => heads[PeekSlot(t)].from \in accountLock
      BY <1>7, Zenon DEF CoverInv, PeekedAt
    <2> QED
      BY <1>7, <2>1, CoverPeekContinue, Zenon DEF ScanLabels
  <1>8. CASE PeekLoad(t)
    <2>1. pc[t] = "peekLoad" /\ UNCHANGED <<heads, headsAvailable, accountLock, start>>
      BY <1>8, Zenon DEF PeekLoad, setVars
    <2>2. CASE from[t] \in accountLock
      BY <1>7, <1>8, <2>1, <2>2, Zenon DEF PeekLoad
    <2>3. CASE from[t] \notin accountLock
      <3>1. pc'[t] = "peekStore" /\ pos' = pos /\ from' = from
        BY <1>1, <1>8, <2>3, Zenon DEF PeekLoad, Goto
      <3>2. PeekSlot(t)' = PeekSlot(t)
        BY <2>1, <3>1, Zenon DEF PeekSlot
      <3>3. FlagsDown /\ Releases(t) /\ PeekedAt(t)'
        BY <2>1, <3>1, <3>2, Zenon DEF FlagsDown, Releases, PeekedAt, Holding, HoldingLabels, CoverInv
      <3>4. Leaves(t)
        BY <2>1, <3>1, Zenon DEF Leaves, Looks, Ahead, EndLabels, ScanLabels
      <3> QED
        BY <1>2, <3>1, <3>3, <3>4, CoverInside, Zenon
    <2> QED
      BY <2>2, <2>3, Zenon
  <1>9. CASE PeekLoadOrStore(t)
    <2>1. pc[t] = "peekStore" /\ UNCHANGED <<heads, headsAvailable, start>>
      BY <1>9, Zenon DEF PeekLoadOrStore
    <2>2. CASE from[t] \in accountLock
      BY <1>7, <1>9, <2>1, <2>2, Zenon DEF PeekLoadOrStore
    <2>3. CASE from[t] \notin accountLock
      <3>1. /\ pc'[t] = "peekTake" /\ pos' = pos /\ from' = from
            /\ accountLock' = accountLock \cup {from[t]}
        BY <1>1, <1>9, <2>3, Zenon DEF PeekLoadOrStore, Goto
      <3>2. FlagsDown /\ Releases(t) /\ PeekedAt(t)'
        BY <2>1, <3>1, Zenon DEF FlagsDown, Releases, PeekedAt, Holding, HoldingLabels
      <3>3. Leaves(t)
        BY <3>1, Zenon DEF Leaves, Looks, EndLabels, ScanLabels
      <3> QED
        BY <1>2, <3>1, <3>2, <3>3, CoverInside, Zenon
    <2> QED
      BY <2>2, <2>3, Zenon
  <1>10. CASE PeekTake(t)
    <2>1. /\ pc[t] = "peekTake" /\ pc'[t] = "got" /\ from' = from
          /\ UNCHANGED <<heads, headsAvailable, accountLock>>
      BY <1>1, <1>10, Zenon DEF PeekTake, Goto
    <2> QED
      BY <1>3, <2>1, CoverQuiet, Zenon DEF HoldingLabels, EndLabels, ScanLabels
  <1> QED
    BY <1>4, <1>5, <1>6, <1>8, <1>9, <1>10, Zenon DEF Peek

(* The steps of find: the thread goes on with its account.                 *)
LEMMA CoverFind ==
  ASSUME TypeInv, CoverInv, NEW t \in Threads, find(t), txnWorker(t), UNCHANGED ctlVars,
         FindNeverPanics'
  PROVE  Covers(t)
  <1>1. DOMAIN pc = Threads /\ caller[t] \in {"Shift", "Remove"}
    BY Zenon DEF TypeInv, LocalsTypeOK
  <1>2. /\ pc[t] # "done" /\ from' = from /\ UNCHANGED <<heads, headsAvailable, accountLock>>
    BY Zenon DEF find, FindHead, FindFlag, setVars
  <1>3. pc'[t] \in {"findHead", "findFlag", "Shift", "Remove", "panicFind"}
    BY <1>1, Zenon DEF find, FindHead, FindFlag, FindContinue, Goto
  <1>4. loopStatus' = loopStatus /\ batch' = batch /\ pc'[t] # "panicFind"
    BY Zenon DEF ctlVars, FindNeverPanics
  <1> QED
    BY <1>2, <1>3, <1>4, CoverQuiet, Zenon DEF HoldingLabels, EndLabels, ScanLabels

(* The steps of Shift and Remove: the flag goes down before the head, and  *)
(* the lock is released with the account in its slot, or not at all.       *)
LEMMA CoverShiftRemove ==
  ASSUME TypeInv, OwnerInv, CoverInv, NEW t \in Threads, Shift(t) \/ Remove(t), txnWorker(t),
         UNCHANGED ctlVars
  PROVE  Covers(t)
  <1>1. DOMAIN pc = Threads /\ DOMAIN heads = Slots /\ DOMAIN headsAvailable = Slots
    BY Zenon DEF TypeInv, LocalsTypeOK, SetTypeOK
  <1>2. /\ pc[t] \in {"Shift", "unlock", "Remove", "removeHead"} /\ from' = from
        /\ pc'[t] \in {"unlock", "findHead", "returned", "removeHead"}
    BY <1>1, Zenon DEF Shift, Remove, ShiftHead, ShiftUnlock, RemoveFlag, RemoveHead,
       CallFind, Goto
  <1>3. PeekedAt(t)' /\ Leaves(t) /\ pc[t] # "done" /\ pc'[t] # "break"
    BY <1>2, Zenon DEF PeekedAt, Leaves, Looks, EndLabels, ScanLabels
  <1>4. FoundAt(t) /\ pos[t] \in Slots
    BY <1>2, CountersInSlots, Zenon DEF OwnerInv, ThreadInv, HoldingLabels
  <1>5. AVAILABLE # NOT_AVAILABLE
    BY DEF AVAILABLE, NOT_AVAILABLE
  <1>6. CASE ShiftHead(t)
    <2>1. /\ pc[t] = "Shift" /\ UNCHANGED <<headsAvailable, accountLock>>
          /\ pc'[t] \in {"unlock", "findHead"}
          /\ \/ heads' = heads
             \/ \E n : heads' = [heads EXCEPT ![pos[t]] = [from |-> from[t], nonce |-> n]]
      BY <1>1, <1>6, Zenon DEF ShiftHead, CallFind, Goto
    <2>2. heads[pos[t]].from = from[t]
      BY <1>4, <2>1, Zenon DEF FoundAt, Avail
    <2>3. \A p \in Slots : heads'[p].from = heads[p].from
      <3>1. ASSUME NEW n, heads' = [heads EXCEPT ![pos[t]] = [from |-> from[t], nonce |-> n]],
                   NEW p \in Slots
            PROVE  heads'[p].from = heads[p].from
        <4>1. p # pos[t] => heads'[p] = heads[p]
          BY <1>1, <3>1, Zenon
        <4>2. heads'[pos[t]] = [from |-> from[t], nonce |-> n]
          BY <1>1, <1>4, <3>1, ZenonT(40)
        <4>3. heads'[pos[t]].from = from[t]
          BY <4>2
        <4> QED
          BY <2>2, <4>1, <4>3, Zenon
      <3> QED
        BY <2>1, <3>1, Zenon
    <2>4. FlagsDown /\ Releases(t)
      BY <1>2, <2>1, <2>3, Zenon DEF FlagsDown, Releases, Holding, HoldingLabels
    <2> QED
      BY <1>3, <2>4, CoverInside, Zenon
  <1>7. CASE ShiftUnlock(t)
    <2>1. UNCHANGED <<heads, headsAvailable>> /\ accountLock' = accountLock \ {from[t]}
      BY <1>7, Zenon DEF ShiftUnlock
    <2>2. FlagsDown /\ Releases(t)
      BY <2>1, Zenon DEF FlagsDown, Releases
    <2> QED
      BY <1>3, <2>2, CoverInside, Zenon
  <1>8. CASE RemoveFlag(t)
    <2>1. /\ pc[t] = "Remove" /\ UNCHANGED <<heads, accountLock>>
          /\ headsAvailable[pos[t]] = AVAILABLE
      BY <1>4, <1>8, Zenon DEF RemoveFlag, FoundAt, Avail
    <2>2. /\ headsAvailable' = [headsAvailable EXCEPT ![pos[t]] = NOT_AVAILABLE]
          /\ pc'[t] = "removeHead"
      BY <1>1, <1>8, <2>1, Zenon DEF RemoveFlag, Goto
    <2>3. \A p \in Slots : headsAvailable'[p] = AVAILABLE => headsAvailable[p] = AVAILABLE
      BY <1>1, <1>4, <1>5, <2>2, Zenon
    <2>4. FlagsDown /\ Releases(t)
      BY <1>2, <2>1, <2>2, <2>3, Zenon DEF FlagsDown, Releases, Holding, HoldingLabels
    <2> QED
      BY <1>3, <2>4, CoverInside, Zenon
  <1>9. CASE RemoveHead(t)
    <2>1. /\ pc[t] = "removeHead" /\ UNCHANGED <<headsAvailable, accountLock>>
          /\ heads' = [heads EXCEPT ![pos[t]] = nil]
      BY <1>9, Zenon DEF RemoveHead
    <2>2. /\ headsAvailable[pos[t]] = NOT_AVAILABLE
          /\ heads[pos[t]] # nil /\ heads[pos[t]].from = from[t]
      BY <1>4, <2>1, Zenon DEF FoundAt
    <2>3. ASSUME NEW p \in Slots, headsAvailable[p] = AVAILABLE
          PROVE  heads'[p].from = heads[p].from /\ heads[p].from # from[t]
      <3>1. p # pos[t] /\ heads[p] # nil
        BY <1>5, <2>2, <2>3, Zenon DEF OwnerInv, HeadInv
      <3>2. heads'[p] = heads[p]
        BY <1>1, <2>1, <3>1, Zenon
      <3> QED
        BY <1>4, <2>2, <3>1, <3>2, Zenon DEF OwnerInv, SlotInv
    <2>4. UNCHANGED <<headsAvailable, accountLock>>
      BY <2>1, Zenon
    <2>5. FlagsDown /\ Releases(t)
      BY <2>3, <2>4, Zenon DEF FlagsDown, Releases
    <2> QED
      BY <1>3, <2>5, CoverInside, Zenon
  <1> QED
    BY <1>6, <1>7, <1>8, <1>9, Zenon DEF Shift, Remove

(* The third layer holds initially: every thread is about to look.         *)
LEMMA CoverInit == Init => CoverInv
  <1> SUFFICES ASSUME Init PROVE CoverInv
    OBVIOUS
  <1>1. \A t \in Threads : pc[t] = "loop" /\ err[t] = "nil"
    BY Zenon DEF Init, SetInit
  <1>2. loopStatus = "OK" /\ accountLock = {} /\ batch = "wait"
    BY Zenon DEF Init, SetInit, NewTransactionsByPriceAndNonce
  <1>3. PICK t \in Threads : TRUE
    BY ThreadsAssumption, Zenon
  <1>4. LookInv
    BY <1>1, <1>3, Zenon DEF LookInv, Looks, EndLabels, ScanLabels
  <1>5. BreakInv
    BY <1>1, <1>2, Zenon DEF BreakInv
  <1>6. LockedInv
    BY <1>2, Zenon DEF LockedInv
  <1>7. \A u \in Threads : ErrAt(u) /\ PeekedAt(u)
    BY <1>1, Zenon DEF ErrAt, PeekedAt
  <1> QED
    BY <1>2, <1>4, <1>5, <1>6, <1>7, Zenon DEF CoverInv

(* The third layer is inductive.                                           *)
LEMMA CoverNext == TypeInv /\ OwnerInv /\ OwnerInv' /\ CoverInv /\ [Next]_vars => CoverInv'
  <1> SUFFICES ASSUME TypeInv, OwnerInv, OwnerInv', CoverInv, [Next]_vars PROVE CoverInv'
    OBVIOUS
  <1>1. ASSUME NEW t \in Threads, txnWorker(t) PROVE CoverInv'
    <2>1. CASE WorkerStep(t)
      BY <1>1, <2>1, CoverWorkerStep, OwnRegisters, CoverStep, Zenon
    <2>2. CASE SetStep(t) /\ UNCHANGED ctlVars
      <3>1. FindNeverPanics'
        BY Zenon DEF OwnerInv
      <3>2. Covers(t)
        BY <1>1, <2>2, <3>1, CoverPeek, CoverFind, CoverShiftRemove, Zenon DEF SetStep
      <3> QED
        BY <1>1, <3>2, OwnRegisters, CoverStep, Zenon
    <2> QED
      BY <1>1, <2>1, <2>2, Zenon DEF txnWorker
  <1>2. ASSUME commitTransactions \/ newWorkLoop \/ UNCHANGED vars PROVE CoverInv'
    <2>1. /\ UNCHANGED <<heads, headsAvailable, accountLock, pc, from, pos, start, err, loopStatus>>
          /\ batch' # "wait" => batch # "wait" \/ AllDone
      BY <1>2, Zenon DEF commitTransactions, Join, SendDecrease, newWorkLoop, Interrupt,
         ReceiveAdjust, vars, setVars, locals, ctlVars, execVars
    <2>2. /\ (\A t \in Threads : ErrAt(t) /\ PeekedAt(t))' /\ BreakInv' /\ LockedInv'
      BY <2>1, Zenon DEF CoverInv, ErrAt, PeekedAt, PeekSlot, BreakInv, LockedInv, Excused,
         Emptied, Holding
    <2>3. LookInv'
      BY <2>1, Zenon DEF CoverInv, LookInv, Excused, Looks, Ahead
    <2>4. batch' # "wait" => AllDone'
      BY <2>1, Zenon DEF CoverInv, AllDone
    <2> QED
      BY <2>2, <2>3, <2>4, Zenon DEF CoverInv
  <1> QED
    BY <1>1, <1>2, Zenon DEF Next, Terminated

(* A batch that ends without an interrupt, a shortage of gas or a          *)
(* protected transaction has left no account: a thread that finds all      *)
(* remaining accounts locked may end at once, because each of them has a   *)
(* thread working for it that comes back for another look.                 *)
THEOREM NothingStranded == Spec => []NoStranding
  <1>1. CoverInv => NoStranding
    <2> SUFFICES ASSUME CoverInv, batch = "end", loopStatus # "RETURN",
                        \A t \in Threads : err[t] \notin {"lowGas", "protected"}
                 PROVE  NumSenders = 0
      BY Zenon DEF NoStranding
    <2>1. \A t \in Threads : pc[t] = "done"
      BY Zenon DEF CoverInv, AllDone
    <2>2. ~Excused
      BY <2>1, Zenon DEF Excused
    <2>3. Emptied
      BY <2>1, <2>2, Zenon DEF CoverInv, LookInv, Looks, EndLabels, Emptied
    <2> QED
      BY <2>3, NoSenders, Zenon
  <1> QED
    BY <1>1, Ownership, CoverInit, CoverNext, PTL DEF Spec

=============================================================================
