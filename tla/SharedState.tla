---------------------------- MODULE SharedState ----------------------------
(***************************************************************************)
(* The states that the threads of commitTransactions execute on.  Each     *)
(* thread has a StateDB of its own (CopySharedTrie): its own live objects  *)
(* and journal, over the account trie of w.current.state, which all share. *)
(* Snapshots are taken of w.current.state itself.                          *)
(*                                                                         *)
(* A transaction uses one unit of gas and all of it; the account that it   *)
(* calls may write to its storage.  That no two threads execute for one    *)
(* sender at a time is what TxnWorker shows.                               *)
(***************************************************************************)
EXTENDS Integers, Sequences

CONSTANTS
    Threads,
    Accounts,
    coinbase,
    Funds,      \* the balance of every account at first
    Batches     \* the pending transactions: account -> sequence of transactions

Transactions == [from : Accounts, to : Accounts, value : Nat, price : Nat, writes : BOOLEAN]

ASSUME BatchesAssumption ==
    /\ coinbase \in Accounts /\ Funds \in Nat
    /\ \A p \in Batches :
          /\ p \in [Accounts -> Seq(Transactions)]
          /\ \A a \in Accounts : \A i \in DOMAIN p[a] : p[a][i].from = a

VARIABLES
    trie,           \* the shared trie: account -> [nonce, balance, root]
    stateObjects,   \* per thread: its live objects
    dirties,        \* per thread: the dirty accounts in its journal
    validRevisions, nextRevisionId,   \* of w.current.state
    snap,           \* per thread: the snapshot it took
    pending, tx, pc,
    txs             \* w.current.txs

threadVars == <<stateObjects, dirties>>
revisionVars == <<validRevisions, nextRevisionId, snap>>
vars == <<trie, threadVars, revisionVars, pending, tx, pc, txs>>

Genesis == [a \in Accounts |-> [nonce |-> 0, balance |-> Funds, root |-> 0]]
NoTx == [from |-> coinbase, to |-> coinbase, value |-> 0, price |-> 0, writes |-> FALSE]

(* txnWorker starts with CopySharedTrie: no live objects, an empty journal *)
(* and the trie of w.current.state, which has no dirty objects.            *)
Init ==
    /\ trie = Genesis
    /\ stateObjects = [t \in Threads |-> << >>]
    /\ dirties = [t \in Threads |-> {}]
    /\ validRevisions = << >> /\ nextRevisionId = 0
    /\ snap = [t \in Threads |-> 0]
    /\ pending \in Batches
    /\ tx = [t \in Threads |-> NoTx]
    /\ pc = [t \in Threads |-> "idle"]
    /\ txs = << >>

Goto(t, l) == pc' = [pc EXCEPT ![t] = l]

(* getStateObject: the live object, else the trie.                         *)
getStateObject(t, a) == IF a \in DOMAIN stateObjects[t] THEN stateObjects[t][a] ELSE trie[a]

(* setStateObject, of the objects f.                                       *)
With(o, f) == [z \in DOMAIN f \cup DOMAIN o |-> IF z \in DOMAIN f THEN f[z] ELSE o[z]]

(* The objects of f become live, and those of changed dirty.               *)
Set(t, f, changed) ==
    /\ stateObjects' = [stateObjects EXCEPT ![t] = With(@, f)]
    /\ dirties' = [dirties EXCEPT ![t] = @ \cup changed]

-----------------------------------------------------------------------------
(* Peek.                                                                   *)
Peek(t) ==
    /\ pc[t] = "idle"
    /\ \E a \in Accounts :
          /\ pending[a] # << >>
          /\ \A u \in Threads : pc[u] # "idle" => tx[u].from # a
          /\ tx' = [tx EXCEPT ![t] = Head(pending[a])]
    /\ Goto(t, "snapshot")
    /\ UNCHANGED <<trie, threadVars, revisionVars, pending, txs>>

(* w.current.state.Snapshot().                                             *)
Snapshot(t) ==
    /\ pc[t] = "snapshot"
    /\ snap' = [snap EXCEPT ![t] = nextRevisionId]
    /\ validRevisions' = Append(validRevisions, nextRevisionId)
    /\ nextRevisionId' = nextRevisionId + 1
    /\ Goto(t, "buy")
    /\ UNCHANGED <<trie, threadVars, pending, tx, txs>>

(* buyGas: the sender is read for the first time, and pays.                *)
buyGas(t) ==
    LET a == tx[t].from
        o == getStateObject(t, a)
    IN  /\ pc[t] = "buy"
        /\ IF o.balance < tx[t].price
             THEN Set(t, [z \in {a} |-> o], {}) /\ Goto(t, "revert")
             ELSE /\ Set(t, [z \in {a} |-> [o EXCEPT !.balance = @ - tx[t].price]],
                        {z \in {a} : tx[t].price > 0})
                  /\ Goto(t, "call")
        /\ UNCHANGED <<trie, revisionVars, pending, tx, txs>>

(* SetNonce and evm.Call, which fails when the value is not there any more *)
(* and otherwise transfers it and runs the code of the recipient.  A value *)
(* of zero leaves the recipient clean.                                     *)
Call(t) ==
    LET a == tx[t].from
        b == tx[t].to
        sender == [getStateObject(t, a) EXCEPT !.nonce = @ + 1]
        recipient == IF a = b THEN sender
                     ELSE [getStateObject(t, b) EXCEPT !.balance = @ + tx[t].value]
    IN  /\ pc[t] = "call"
        /\ IF sender.balance < tx[t].value
             THEN Set(t, [z \in {a} |-> sender], {a}) /\ Goto(t, "revert")
             ELSE /\ Set(t, [z \in {a, b} |->
                               IF z = b THEN [recipient EXCEPT !.root = IF tx[t].writes THEN @ + 1 ELSE @]
                               ELSE [sender EXCEPT !.balance = @ - tx[t].value]],
                        {a} \cup {z \in {b} : tx[t].value > 0 \/ tx[t].writes})
                  /\ Goto(t, "fee")
        /\ UNCHANGED <<trie, revisionVars, pending, tx, txs>>

(* The fee goes to the coinbase, which a price of zero leaves clean.       *)
AddFee(t) ==
    LET o == getStateObject(t, coinbase)
    IN  /\ pc[t] = "fee"
        /\ Set(t, [z \in {coinbase} |-> [o EXCEPT !.balance = @ + tx[t].price]],
               {z \in {coinbase} : tx[t].price > 0})
        /\ Goto(t, "finalise")
        /\ UNCHANGED <<trie, revisionVars, pending, tx, txs>>

(* Mutant: Finalise ends with the first object.                            *)
FinaliseOne(t) ==
    /\ pc[t] = "finalise"
    /\ \E a \in dirties[t] : trie' = [trie EXCEPT ![a] = stateObjects[t][a]]
    /\ dirties' = [dirties EXCEPT ![t] = {}]
    /\ Goto(t, "append")
    /\ UNCHANGED <<stateObjects, revisionVars, pending, tx, txs>>

(* Finalise writes the dirty objects to the trie one by one, in any order. *)
Finalise(t) ==
    /\ pc[t] = "finalise"
    /\ \E a \in dirties[t] :
          /\ trie' = [trie EXCEPT ![a] = stateObjects[t][a]]
          /\ dirties' = [dirties EXCEPT ![t] = @ \ {a}]
    /\ Goto(t, IF dirties'[t] = {} THEN "append" ELSE "finalise")
    /\ UNCHANGED <<stateObjects, revisionVars, pending, tx, txs>>

(* The transaction is in the block; Shift.                                 *)
AppendTx(t) ==
    /\ pc[t] = "append"
    /\ txs' = Append(txs, tx[t])
    /\ pending' = [pending EXCEPT ![tx[t].from] = Tail(@)]
    /\ Goto(t, "idle")
    /\ UNCHANGED <<trie, threadVars, revisionVars, tx>>

(* w.current.state.RevertToSnapshot(snap), and Shift.  What the thread has *)
(* done to its own state stays.                                            *)
RevertToSnapshot(t) ==
    /\ pc[t] = "revert"
    /\ IF \E i \in DOMAIN validRevisions : validRevisions[i] = snap[t]
         THEN /\ validRevisions' = SelectSeq(validRevisions, LAMBDA id : id < snap[t])
              /\ pending' = [pending EXCEPT ![tx[t].from] = Tail(@)]
              /\ Goto(t, "idle")
         ELSE Goto(t, "panic") /\ UNCHANGED <<validRevisions, pending>>
    /\ UNCHANGED <<trie, threadVars, nextRevisionId, snap, tx, txs>>

commitTransaction(t) ==
    \/ Snapshot(t) \/ buyGas(t) \/ Call(t) \/ AddFee(t) \/ Finalise(t) \/ AppendTx(t)
    \/ RevertToSnapshot(t)

Panicked == \E t \in Threads : pc[t] = "panic"

(* No thread is in a transaction: an interrupt or the gas limit may end    *)
(* the batch here, and the lack of transactions does.                      *)
Done == \A t \in Threads : pc[t] = "idle"

Next ==
    \/ ~Panicked /\ \E t \in Threads : Peek(t) \/ commitTransaction(t)
    \/ (Done \/ Panicked) /\ UNCHANGED vars

Spec == Init /\ [][Next]_vars

-----------------------------------------------------------------------------
(* The reference: StateProcessor.Process executes the transactions of the  *)
(* block one after the other on one state, and fails with any of them.     *)
ApplyTransaction(s, x) ==
    LET paid == s.trie[x.from].balance - x.price
        bought == [s.trie EXCEPT ![x.from].nonce = @ + 1,
                                 ![x.from].balance = paid - x.value]
        called == [bought EXCEPT ![x.to].balance = @ + x.value,
                                 ![x.to].root = IF x.writes THEN @ + 1 ELSE @]
    IN  [ok |-> s.ok /\ paid >= x.value,
         trie |-> [called EXCEPT ![coinbase].balance = @ + x.price]]

Process(block) ==
    LET state[n \in 0..Len(block)] ==
            IF n = 0 THEN [ok |-> TRUE, trie |-> Genesis] ELSE ApplyTransaction(state[n - 1], block[n])
    IN  state[Len(block)]

(* The block that was mined is valid: the trie that the threads have left  *)
(* behind, and whose root the header gets, is the one that every other     *)
(* node computes from the transactions of the block in their order.        *)
MinedBlockIsValid == Done => Process(txs) = [ok |-> TRUE, trie |-> trie]

=============================================================================
