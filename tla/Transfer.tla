------------------------------ MODULE Transfer ------------------------------
(***************************************************************************)
(* Transfer (core/evm.go): the threads that execute transactions move      *)
(* value between accounts under two entries of the global sync.Map         *)
(* InUseAccounts, taken one after the other and given back with a random   *)
(* pause when the second is not free.  A thread performs one transfer      *)
(* after another, of any pair in Pairs.                                    *)
(***************************************************************************)
EXTENDS Naturals

CONSTANTS
    Workers,
    Accounts,
    Pairs       \* the <<sender, recipient>> that transfers may have

ASSUME PairsAssumption == Pairs \subseteq Accounts \X Accounts

VARIABLES
    InUseAccounts,  \* the keys of the map
    tpc,            \* per thread: the next step
    pair            \* per thread: the transfer at hand

transferVars == <<InUseAccounts, tpc, pair>>

sender(t) == pair[t][1]
recipient(t) == pair[t][2]
sameAccount(t) == sender(t) = recipient(t)

TransferInit ==
    /\ InUseAccounts = {}
    /\ tpc = [t \in Workers |-> "idle"]
    /\ pair \in [Workers -> Pairs]

Jump(t, l) == tpc' = [tpc EXCEPT ![t] = l]

(* The EVM calls Transfer.                                                 *)
Call(t) ==
    /\ tpc[t] = "idle"
    /\ pair' \in {[pair EXCEPT ![t] = p] : p \in Pairs}
    /\ Jump(t, "sender")
    /\ UNCHANGED InUseAccounts

LoadOrStoreSender(t) ==
    /\ tpc[t] = "sender"
    /\ Jump(t, IF sender(t) \in InUseAccounts THEN "backoff" ELSE "recipient")
    /\ InUseAccounts' = InUseAccounts \cup {sender(t)}
    /\ UNCHANGED pair

(* Mutant: the answer for the recipient is not looked at.                  *)
StoreRecipient(t) ==
    /\ tpc[t] = "recipient"
    /\ Jump(t, "sub")
    /\ InUseAccounts' = InUseAccounts \cup {recipient(t)}
    /\ UNCHANGED pair

LoadOrStoreRecipient(t) ==
    /\ tpc[t] = "recipient"
    /\ Jump(t, IF recipient(t) \in InUseAccounts /\ ~sameAccount(t) THEN "undo" ELSE "sub")
    /\ InUseAccounts' = InUseAccounts \cup {recipient(t)}
    /\ UNCHANGED pair

SubBalance(t) ==
    /\ tpc[t] = "sub"
    /\ Jump(t, "add")
    /\ UNCHANGED <<InUseAccounts, pair>>

AddBalance(t) ==
    /\ tpc[t] = "add"
    /\ Jump(t, "deleteSender")
    /\ UNCHANGED <<InUseAccounts, pair>>

DeleteSender(t) ==
    /\ tpc[t] = "deleteSender"
    /\ InUseAccounts' = InUseAccounts \ {sender(t)}
    /\ Jump(t, "deleteRecipient")
    /\ UNCHANGED pair

DeleteRecipient(t) ==
    /\ tpc[t] = "deleteRecipient"
    /\ InUseAccounts' = InUseAccounts \ {recipient(t)}
    /\ Jump(t, "idle")
    /\ UNCHANGED pair

(* Mutant: the sender is not given back when the recipient is in use.      *)
KeepSender(t) ==
    /\ tpc[t] = "undo"
    /\ Jump(t, "backoff")
    /\ UNCHANGED <<InUseAccounts, pair>>

UndoSender(t) ==
    /\ tpc[t] = "undo"
    /\ InUseAccounts' = InUseAccounts \ {sender(t)}
    /\ Jump(t, "backoff")
    /\ UNCHANGED pair

Backoff(t) ==
    /\ tpc[t] = "backoff"
    /\ Jump(t, "sender")
    /\ UNCHANGED <<InUseAccounts, pair>>

TransferStep(t) ==
    \/ Call(t)
    \/ LoadOrStoreSender(t)
    \/ LoadOrStoreRecipient(t)
    \/ SubBalance(t)
    \/ AddBalance(t)
    \/ DeleteSender(t)
    \/ DeleteRecipient(t)
    \/ UndoSender(t)
    \/ Backoff(t)

TransferNext == \E t \in Workers : TransferStep(t)

TransferSpec == TransferInit /\ [][TransferNext]_transferVars

(* Goroutines are scheduled fairly; nobody has to call Transfer.           *)
FairTransferSpec == TransferSpec /\ \A t \in Workers : WF_transferVars(tpc[t] # "idle" /\ TransferStep(t))

-----------------------------------------------------------------------------
Labels == {"idle", "sender", "recipient", "sub", "add",
           "deleteSender", "deleteRecipient", "undo", "backoff"}

(* Type correctness: of the map and of the registers of the threads.       *)
TransferTypeOK ==
    /\ InUseAccounts \subseteq Accounts
    /\ tpc \in [Workers -> Labels]
    /\ pair \in [Workers -> Pairs]

(* The accounts whose entry thread t has stored and not yet deleted.       *)
Locked(t) ==
    CASE tpc[t] \in {"recipient", "undo"} -> {sender(t)}
      [] tpc[t] \in {"sub", "add", "deleteSender"} -> {sender(t), recipient(t)}
      [] tpc[t] = "deleteRecipient" -> {recipient(t)}
      [] OTHER -> {}

(* While a thread moves value between two accounts, no other thread has    *)
(* either of them: from LoadOrStore to Delete the accounts are its own.    *)
ExclusiveAccounts ==
    \A t, u \in Workers : t # u => Locked(t) \cap Locked(u) = {}

(* Every entry of InUseAccounts is that of a transfer under way: failed    *)
(* attempts leave none behind, which would block the account for good.     *)
NoLeakedEntry == InUseAccounts = UNION {Locked(t) : t \in Workers}

(* A thread that the others no longer disturb completes its transfer,      *)
(* however many attempts of it and of theirs have failed before.           *)
ObstructionFree ==
    \A t \in Workers :
        <>[](\A u \in Workers \ {t} : tpc[u] = "idle") => []<>(tpc[t] = "idle")

=============================================================================
