------------------------------- MODULE TxSet -------------------------------
(***************************************************************************)
(* TransactionsByPriceAndNonce (core/types/transaction.go): the set of     *)
(* pending transactions that the mining threads share.  Every account has  *)
(* one slot of heads, a flag in headsAvailable and, while a thread works   *)
(* for it, an entry of accountLock.  There is no lock around the set: its  *)
(* methods are sequences of single loads, stores, compare-and-swaps and    *)
(* sync.Map calls, and each of those is one action here.  A label of pc is *)
(* a point between two of them.  Threads interleave sequentially           *)
(* consistently.                                                           *)
(***************************************************************************)
EXTENDS Integers, FiniteSets, Sequences

CONSTANTS
    Threads,     \* the txnWorker goroutines
    Senders,     \* the accounts that have pending transactions
    Pending,     \* per account the nonce-sorted list of its transactions
    IndexRange,  \* 2^32: index is a uint32
    nil          \* the nil *Transaction

(* What the model knows of a transaction besides its sender and its place  *)
(* in the sender's list: gas price, gas limit, whether it is replay        *)
(* protected on a chain before EIP155, whether it creates a contract.      *)
TxData == [price : Nat, gas : Nat, protected : BOOLEAN, creation : BOOLEAN]

ASSUME SendersAssumption == IsFiniteSet(Senders)
ASSUME ThreadsAssumption == IsFiniteSet(Threads) /\ Threads # {}
ASSUME PendingAssumption ==
    /\ Pending \in [Senders -> Seq(TxData)]
    /\ \A s \in Senders : Len(Pending[s]) > 0
ASSUME IndexAssumption == IndexRange \in Nat \ {0}

(* A transaction is named by its account and its place in that account's   *)
(* list: the pool hands out lists of consecutive nonces.                   *)
Transaction == [from : Senders, nonce : Nat \ {0}]
ASSUME NilAssumption == nil \notin Transaction /\ nil \notin Senders

Data(x) == Pending[x.from][x.nonce]

NumHeads == Cardinality(Senders)
Slots == 0..(NumHeads - 1)

AVAILABLE == 1
NOT_AVAILABLE == 0

VARIABLES
    heads,           \* slot -> the account's next transaction, or nil
    headsAvailable,  \* slot -> AVAILABLE or NOT_AVAILABLE
    accountLock,     \* the keys of the sync.Map
    txs,             \* account -> first place of the list not yet shifted in
    index,           \* where the next Peek starts
    pc,              \* per thread: the next step
    caller,          \* per thread: which method called find
    start, pos,      \* per thread: Peek's index, the loop counter of Peek or find
    from,            \* per thread: the account at hand
    tx,              \* per thread: what Peek returned
    tempHead         \* per thread: find's copy of heads[pos]

setVars == <<heads, headsAvailable, accountLock, txs, index>>
locals == <<pc, caller, start, pos, from, tx, tempHead>>

(* heap.Init on the heads leaves them in heap order.  The heads are        *)
(* gathered in the random order of a map iteration, so every heap-ordered  *)
(* arrangement can come out.                                               *)
HeapOrdered(o) ==
    /\ \A p, q \in Slots : o[p] = o[q] => p = q
    /\ \A p \in Slots \ {0} :
          Pending[o[(p - 1) \div 2]][1].price >= Pending[o[p]][1].price

NewTransactionsByPriceAndNonce ==
    /\ \E o \in [Slots -> Senders] :
          /\ HeapOrdered(o)
          /\ \A s \in Senders : \E p \in Slots : o[p] = s
          /\ heads = [p \in Slots |-> [from |-> o[p], nonce |-> 1]]
    /\ headsAvailable = [p \in Slots |-> AVAILABLE]
    /\ accountLock = {}
    /\ txs = [s \in Senders |-> 2]
    /\ index = 0

SetInit ==
    /\ NewTransactionsByPriceAndNonce
    /\ pc = [t \in Threads |-> "loop"]
    /\ caller = [t \in Threads |-> "Shift"]
    /\ start = [t \in Threads |-> 0]
    /\ pos = [t \in Threads |-> 0]
    /\ from = [t \in Threads |-> nil]
    /\ tx = [t \in Threads |-> nil]
    /\ tempHead = [t \in Threads |-> nil]

Goto(t, l) == pc' = [pc EXCEPT ![t] = l]

-----------------------------------------------------------------------------
(* Peek: scan the slots from index on for an available head whose account  *)
(* no other thread works for, and lock that account.                       *)

PeekSlot(t) == (start[t] + pos[t]) % NumHeads

(* The loop of Peek goes to its next slot, or falls out with result nil.   *)
PeekContinue(t) ==
    /\ pos' = [pos EXCEPT ![t] = @ + 1]
    /\ from' = [from EXCEPT ![t] = nil]
    /\ Goto(t, IF pos[t] + 1 < NumHeads THEN "peekFlag" ELSE "peekNil")

PeekIndex(t) ==
    /\ pc[t] = "peek"
    /\ start' = [start EXCEPT ![t] = index]
    /\ pos' = [pos EXCEPT ![t] = 0]
    /\ Goto(t, IF NumHeads > 0 THEN "peekFlag" ELSE "peekNil")
    /\ UNCHANGED <<setVars, caller, from, tx, tempHead>>

PeekFlag(t) ==
    /\ pc[t] = "peekFlag"
    /\ IF headsAvailable[PeekSlot(t)] = NOT_AVAILABLE
         THEN PeekContinue(t)
         ELSE Goto(t, "peekSender") /\ UNCHANGED <<pos, from>>
    /\ UNCHANGED <<setVars, caller, start, tx, tempHead>>

(* Sender(t.signer, t.heads[...]) dereferences the head.                   *)
PeekSender(t) ==
    /\ pc[t] = "peekSender"
    /\ LET head == heads[PeekSlot(t)] IN
         IF head = nil
           THEN Goto(t, "panicPeek") /\ UNCHANGED from
           ELSE /\ from' = [from EXCEPT ![t] = head.from]
                /\ Goto(t, "peekLoad")
    /\ UNCHANGED <<setVars, caller, start, pos, tx, tempHead>>

PeekLoad(t) ==
    /\ pc[t] = "peekLoad"
    /\ IF from[t] \in accountLock
         THEN PeekContinue(t)
         ELSE Goto(t, "peekStore") /\ UNCHANGED <<pos, from>>
    /\ UNCHANGED <<setVars, caller, start, tx, tempHead>>

(* Mutant: the result of LoadOrStore is not looked at.                     *)
PeekStore(t) ==
    /\ pc[t] = "peekStore"
    /\ accountLock' = accountLock \cup {from[t]}
    /\ Goto(t, "peekTake")
    /\ UNCHANGED <<heads, headsAvailable, txs, index,
                   caller, start, pos, from, tx, tempHead>>

PeekLoadOrStore(t) ==
    /\ pc[t] = "peekStore"
    /\ IF from[t] \in accountLock
         THEN PeekContinue(t) /\ UNCHANGED accountLock
         ELSE /\ accountLock' = accountLock \cup {from[t]}
              /\ Goto(t, "peekTake")
              /\ UNCHANGED <<pos, from>>
    /\ UNCHANGED <<heads, headsAvailable, txs, index,
                   caller, start, tx, tempHead>>

(* Mutant: the slot is computed from t.index again, after the add to it.   *)
PeekTakeRereadsIndex(t) ==
    /\ pc[t] = "peekTake"
    /\ index' = (index + 1) % IndexRange
    /\ tx' = [tx EXCEPT ![t] = heads[(index' + pos[t]) % NumHeads]]
    /\ Goto(t, "got")
    /\ UNCHANGED <<heads, headsAvailable, accountLock, txs,
                   caller, start, pos, from, tempHead>>

(* The head is read again under the account lock, under which only this    *)
(* thread writes it: the add to index and that read are one step.          *)
PeekTake(t) ==
    /\ pc[t] = "peekTake"
    /\ index' = (index + 1) % IndexRange
    /\ tx' = [tx EXCEPT ![t] = heads[PeekSlot(t)]]
    /\ Goto(t, "got")
    /\ UNCHANGED <<heads, headsAvailable, accountLock, txs,
                   caller, start, pos, from, tempHead>>

Peek(t) ==
    \/ PeekIndex(t)
    \/ PeekFlag(t)
    \/ PeekSender(t)
    \/ PeekLoad(t)
    \/ PeekLoadOrStore(t)
    \/ PeekTake(t)

-----------------------------------------------------------------------------
(* find: the slot of the account.  It copies the head before it looks at   *)
(* the flag.  A result of -1 indexes a slice in both callers, a panic.     *)

CallFind(t, method) ==
    /\ caller' = [caller EXCEPT ![t] = method]
    /\ pos' = [pos EXCEPT ![t] = 0]
    /\ Goto(t, "findHead")

FindHead(t) ==
    /\ pc[t] = "findHead"
    /\ tempHead' = [tempHead EXCEPT ![t] = heads[pos[t]]]
    /\ Goto(t, "findFlag")
    /\ UNCHANGED <<setVars, caller, start, pos, from, tx>>

FindContinue(t) ==
    /\ pos' = [pos EXCEPT ![t] = @ + 1]
    /\ Goto(t, IF pos[t] + 1 < NumHeads THEN "findHead" ELSE "panicFind")

FindFlag(t) ==
    /\ pc[t] = "findFlag"
    /\ CASE headsAvailable[pos[t]] = NOT_AVAILABLE -> FindContinue(t)
         [] headsAvailable[pos[t]] # NOT_AVAILABLE /\ tempHead[t] = nil ->
              Goto(t, "panicFind") /\ UNCHANGED pos
         [] OTHER ->
              IF tempHead[t].from # from[t]
                THEN FindContinue(t)
                ELSE Goto(t, caller[t]) /\ UNCHANGED pos
    /\ tempHead' = [tempHead EXCEPT ![t] = nil]
    /\ UNCHANGED <<setVars, caller, start, from, tx>>

find(t) == FindHead(t) \/ FindFlag(t)

-----------------------------------------------------------------------------
(* Shift: bring in the account's next transaction and release the account, *)
(* or remove the account when it has none.  heads[pos] and txs[from] are   *)
(* written under the account lock: one step.                               *)

(* Mutant: the rest of the account's list is not stored back.              *)
ShiftHeadKeepsList(t) ==
    /\ pc[t] = "Shift"
    /\ LET s == from[t] IN
         IF txs[s] <= Len(Pending[s])
           THEN /\ heads' = [heads EXCEPT ![pos[t]] =
                                [from |-> s, nonce |-> txs[s]]]
                /\ Goto(t, "unlock")
                /\ UNCHANGED <<caller, pos>>
           ELSE CallFind(t, "Remove") /\ UNCHANGED heads
    /\ UNCHANGED <<headsAvailable, accountLock, txs, index, start, from, tx, tempHead>>

(* Mutant: an account without further transactions is released, not        *)
(* removed.                                                                *)
ShiftHeadReleases(t) ==
    /\ pc[t] = "Shift"
    /\ LET s == from[t] IN
         IF txs[s] <= Len(Pending[s])
           THEN /\ heads' = [heads EXCEPT ![pos[t]] =
                                [from |-> s, nonce |-> txs[s]]]
                /\ txs' = [txs EXCEPT ![s] = @ + 1]
           ELSE UNCHANGED <<heads, txs>>
    /\ Goto(t, "unlock")
    /\ UNCHANGED <<headsAvailable, accountLock, index, caller, start, pos, from, tx, tempHead>>

ShiftHead(t) ==
    /\ pc[t] = "Shift"
    /\ LET s == from[t] IN
         IF txs[s] <= Len(Pending[s])
           THEN /\ heads' = [heads EXCEPT ![pos[t]] =
                                [from |-> s, nonce |-> txs[s]]]
                /\ txs' = [txs EXCEPT ![s] = @ + 1]
                /\ Goto(t, "unlock")
                /\ UNCHANGED <<caller, pos>>
           ELSE CallFind(t, "Remove") /\ UNCHANGED <<heads, txs>>
    /\ UNCHANGED <<headsAvailable, accountLock, index, start, from, tx, tempHead>>

ShiftUnlock(t) ==
    /\ pc[t] = "unlock"
    /\ accountLock' = accountLock \ {from[t]}
    /\ Goto(t, "returned")
    /\ UNCHANGED <<heads, headsAvailable, txs, index,
                   caller, start, pos, from, tx, tempHead>>

Shift(t) == ShiftHead(t) \/ ShiftUnlock(t)

(* Remove: the account is finished.  Its entry of accountLock stays.       *)

(* Mutant: the head is cleared before the flag.                            *)
RemoveHeadFirst(t) ==
    /\ pc[t] = "Remove"
    /\ heads' = [heads EXCEPT ![pos[t]] = nil]
    /\ Goto(t, "removeHead")
    /\ UNCHANGED <<headsAvailable, accountLock, txs, index,
                   caller, start, pos, from, tx, tempHead>>

RemoveFlag(t) ==
    /\ pc[t] = "Remove"
    /\ IF headsAvailable[pos[t]] = AVAILABLE
         THEN /\ headsAvailable' = [headsAvailable EXCEPT ![pos[t]] = NOT_AVAILABLE]
              /\ Goto(t, "removeHead")
         ELSE Goto(t, "returned") /\ UNCHANGED headsAvailable
    /\ UNCHANGED <<heads, accountLock, txs, index,
                   caller, start, pos, from, tx, tempHead>>

RemoveHead(t) ==
    /\ pc[t] = "removeHead"
    /\ heads' = [heads EXCEPT ![pos[t]] = nil]
    /\ Goto(t, "returned")
    /\ UNCHANGED <<headsAvailable, accountLock, txs, index,
                   caller, start, pos, from, tx, tempHead>>

Remove(t) == RemoveFlag(t) \/ RemoveHead(t)

(* NumSenders counts the available slots without a lock.  Flags only ever  *)
(* go down, so what matters of the count, whether it is zero, is what it   *)
(* was at the last read (zero) or at the first (not zero): one step.       *)
NumSenders == Cardinality({p \in Slots : headsAvailable[p] = AVAILABLE})

SetStep(t) == Peek(t) \/ find(t) \/ Shift(t) \/ Remove(t)

=============================================================================
