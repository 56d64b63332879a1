------------------------------ MODULE StateDB ------------------------------
(***************************************************************************)
(* The state of one thread of execution (core/state): live objects over an *)
(* account trie, a journal of changes with snapshots, Finalise at the end  *)
(* of a transaction, Commit at the end of a block, Copy.                   *)
(*                                                                         *)
(* Accounts have one storage slot and a code; 0 is the empty value of      *)
(* both.  Code and storage tries are stored by content, so the database is *)
(* the set of the codes and the set of the slot contents that were stored. *)
(***************************************************************************)
EXTENDS Integers, Sequences

CONSTANTS
    Accounts,
    Contracts,            \* accounts that may have code and storage
    ripemd,               \* the precompile with a special case
    Hashes,               \* of transactions, with the zero hash
    ZeroHash,
    Preimages,            \* hashes with a preimage
    deleteEmptyObjects,   \* the rules of EIP 158
    ReadsFail,            \* reads of the storage trie may fail
    MaxValue,             \* bound: nonces, balances, codes, slots
    MaxRefund,            \* bound: refunds
    MaxEntries,           \* bounds, by subject: entries of the journal,
    MaxRevisions,         \* and snapshots at a time
    MaxLogs               \* bound: logs

ASSUME StateAssumption == MaxValue \in Nat /\ ZeroHash \in Hashes

VARIABLES
    subject,            \* what the transactions change: "accounts" or "logs"
    trie,               \* the account trie: account -> data
    stateObjects, stateObjectsDirty,
    refund, thash, logs, logSize, preimages,
    entries, dirties,   \* the journal
    validRevisions,     \* journal indices of the valid snapshots, by rising id
    codes, roots,       \* the database
    err,                \* the last Commit returned an error
    panic,              \* "none", or where the program panicked
    saved               \* auxiliary: what could be read at each valid snapshot

objectVars == <<stateObjects, stateObjectsDirty>>
logVars == <<thash, logs, logSize, preimages>>
journalVars == <<entries, dirties, validRevisions, saved>>
dbVars == <<trie, codes, roots, err>>
vars == <<subject, objectVars, refund, logVars, journalVars, dbVars, panic>>

Values == 0..MaxValue
NoValue == -1

-----------------------------------------------------------------------------
(* Objects.  slot is the content of dirtyStorage, or NoValue.              *)

EmptyAccount == [nonce |-> 0, balance |-> 0, code |-> 0, root |-> 0]

newObject(data) ==
    [data |-> data, slot |-> NoValue, dirtyCode |-> FALSE, dbErr |-> FALSE,
     suicided |-> FALSE, deleted |-> FALSE]

empty(o) == o.data.nonce = 0 /\ o.data.balance = 0 /\ o.data.code = 0

GetState(o) == IF o.slot # NoValue THEN o.slot ELSE o.data.root

(* The setters that make no entry.                                         *)
setBalance(o, amount) == [o EXCEPT !.data.balance = amount]
setNonce(o, nonce) == [o EXCEPT !.data.nonce = nonce]
setCode(o, code) == [o EXCEPT !.data.code = code, !.dirtyCode = TRUE]
setState(o, value) == [o EXCEPT !.slot = value]
markSuicided(o, mark) == [o EXCEPT !.suicided = mark]

(* The storage trie takes over the dirty slot.                             *)
updateRoot(o) == [o EXCEPT !.data.root = GetState(o), !.slot = NoValue]

(* A map after Store and after Delete of a key, and after the entries f.   *)
Put(f, a, x) == [b \in DOMAIN f \cup {a} |-> IF b = a THEN x ELSE f[b]]
Without(f, a) == [b \in DOMAIN f \ {a} |-> f[b]]
Over(f, g) == [a \in DOMAIN f \cup DOMAIN g |-> IF a \in DOMAIN f THEN f[a] ELSE g[a]]

(* getStateObject: the live object, else the one of the trie.              *)
Found(objects, a) ==
    IF a \in DOMAIN objects THEN ~objects[a].deleted ELSE a \in DOMAIN trie

getStateObject(objects, a) ==
    IF a \in DOMAIN objects THEN objects[a] ELSE newObject(trie[a])

Exist(a) == Found(stateObjects, a)

GetOrNewStateObject(a) ==
    IF Exist(a) THEN getStateObject(stateObjects, a) ELSE newObject(EmptyAccount)

(* What the getters return for an account.                                 *)
Getters(o, exist) ==
    [exist |-> exist, suicided |-> o.suicided, nonce |-> o.data.nonce,
     balance |-> o.data.balance, code |-> o.data.code, slot |-> GetState(o)]

Read(objects, a) ==
    IF Found(objects, a)
      THEN Getters(getStateObject(objects, a), "yes")
      ELSE Getters(newObject(EmptyAccount), "no")

View == [accounts |-> [a \in Accounts |-> Read(stateObjects, a)], refund |-> refund,
         logs |-> logs, logSize |-> logSize, preimages |-> preimages]

-----------------------------------------------------------------------------
(* The journal.                                                            *)

(* Mutant: a change of code makes nothing dirty.                           *)
DirtyingNoCode == {"create", "suicide", "touch", "balance", "nonce", "storage"}

Dirtying == {"create", "suicide", "touch", "balance", "nonce", "code", "storage"}

(* What an entry counts for account a: dirtied() names the account.        *)
dirtied(e, a) == IF e.change \in Dirtying /\ e.account = a THEN 1 ELSE 0

(* touch() makes ripemd dirty a second time.                               *)
dirty(e, a) == IF e.change = "touch" /\ e.account = a /\ a = ripemd THEN 1 ELSE 0

(* journal.append, for one entry after the other, of which there are at    *)
(* most two.                                                               *)
append(es) ==
    /\ Len(entries) + Len(es) <= MaxEntries[subject]
    /\ entries' = entries \o es
    /\ dirties' = [a \in Accounts |-> dirties[a]
           + (IF Len(es) > 0 THEN dirtied(es[1], a) + dirty(es[1], a) ELSE 0)
           + (IF Len(es) > 1 THEN dirtied(es[2], a) + dirty(es[2], a) ELSE 0)]
    /\ UNCHANGED <<validRevisions, saved>>

(* The entry of GetOrNewStateObject, if it creates the object.             *)
Created(a) == IF Exist(a) THEN << >> ELSE <<[change |-> "create", account |-> a]>>

(* A setter: the object of a becomes o, with the entries es.               *)
Set(a, o, es) ==
    /\ append(Created(a) \o es)
    /\ stateObjects' = Put(stateObjects, a, o)
    /\ UNCHANGED <<stateObjectsDirty, refund, logVars, dbVars, panic>>

(* A list without its last element.                                        *)
Shortened(list) == SubSeq(list, 1, Len(list) - 1)

(* In the state s of a revert: the object of a becomes x, or is gone.      *)
Stored(s, a, x) == [s EXCEPT !.objects = Put(s.objects, a, x)]
Removed(s, a) == [s EXCEPT !.objects = Without(s.objects, a), !.dirty = s.dirty \ {a}]

(* revert of one entry; ok is lost when a nil object would be used.        *)
revert(s, e) ==
    LET a == e.account
        found == Found(s.objects, a)
        o == getStateObject(s.objects, a)
        set(x) == IF found THEN Stored(s, a, x) ELSE [s EXCEPT !.ok = FALSE]
    IN  CASE e.change = "create" -> Removed(s, a)
          [] e.change = "reset" -> Stored(s, a, e.object)
          [] e.change = "suicide" ->
               IF found THEN Stored(s, a, setBalance(markSuicided(o, e.prev), e.balance)) ELSE s
          [] e.change = "touch" -> s
          [] e.change = "balance" -> set(setBalance(o, e.prev))
          [] e.change = "nonce" -> set(setNonce(o, e.prev))
          [] e.change = "code" -> set(setCode(o, e.prev))
          [] e.change = "storage" -> set(setState(o, e.prev))
          [] e.change = "refund" -> [s EXCEPT !.refund = e.prev]
          [] e.change = "log" -> [s EXCEPT !.logs = [s.logs EXCEPT ![e.hash] = Shortened(s.logs[e.hash])],
                                           !.logSize = s.logSize - 1]
          [] e.change = "preimage" -> [s EXCEPT !.preimages = s.preimages \ {e.hash}]

(* One round of journal.revert, which counts down what is dirty.           *)
Undo(s, e) ==
    [revert(s, e) EXCEPT !.dirties = [a \in Accounts |-> s.dirties[a] - dirtied(e, a)]]

Now == [objects |-> stateObjects, dirty |-> stateObjectsDirty, dirties |-> dirties,
        refund |-> refund, logs |-> logs, logSize |-> logSize, preimages |-> preimages, ok |-> TRUE]

(* journal.revert: the entries from number n + 1 on, the last one first.   *)
Reverted(n) ==
    LET after[i \in n..Len(entries)] ==
          IF i = Len(entries) THEN Now ELSE Undo(after[i + 1], entries[i + 1])
    IN  after[n]

clearJournalAndRefund ==
    /\ entries' = << >>
    /\ dirties' = [a \in Accounts |-> 0]
    /\ validRevisions' = << >>
    /\ saved' = << >>
    /\ refund' = 0

Init ==
    /\ subject \in {"accounts", "logs"}
    /\ trie = << >>
    /\ stateObjects = << >> /\ stateObjectsDirty = {}
    /\ refund = 0
    /\ thash = ZeroHash
    /\ logs = [h \in Hashes |-> << >>] /\ logSize = 0
    /\ preimages = {}
    /\ entries = << >> /\ dirties = [a \in Accounts |-> 0]
    /\ validRevisions = << >> /\ saved = << >>
    /\ codes = {0} /\ roots = {0} /\ err = FALSE
    /\ panic = "none"

-----------------------------------------------------------------------------
(* Changes of accounts.                                                    *)

AddBalance(a, amount) ==
    LET o == GetOrNewStateObject(a)
    IN  /\ o.data.balance + amount <= MaxValue
        /\ IF amount = 0
             THEN Set(a, o, IF empty(o) THEN <<[change |-> "touch", account |-> a]>> ELSE << >>)
             ELSE Set(a, setBalance(o, o.data.balance + amount),
                      <<[change |-> "balance", account |-> a, prev |-> o.data.balance]>>)

(* The EVM and buyGas take no more than there is.                          *)
SubBalance(a, amount) ==
    LET o == GetOrNewStateObject(a)
    IN  /\ o.data.balance >= amount
        /\ IF amount = 0
             THEN Set(a, o, << >>)
             ELSE Set(a, setBalance(o, o.data.balance - amount),
                      <<[change |-> "balance", account |-> a, prev |-> o.data.balance]>>)

SetNonce(a) ==
    LET o == GetOrNewStateObject(a)
    IN  /\ o.data.nonce < MaxValue
        /\ Set(a, setNonce(o, o.data.nonce + 1),
               <<[change |-> "nonce", account |-> a, prev |-> o.data.nonce]>>)

SetCode(a, code) ==
    LET o == GetOrNewStateObject(a)
    IN  Set(a, setCode(o, code),
            <<[change |-> "code", account |-> a, prev |-> o.data.code]>>)

(* A failed read of the storage trie is remembered, and reads as zero.     *)
SetState(a, value) ==
    LET o == GetOrNewStateObject(a)
    IN  \E fails \in {FALSE, ReadsFail /\ o.slot = NoValue} :
          LET prev == IF fails THEN 0 ELSE GetState(o)
              read == [o EXCEPT !.dbErr = @ \/ fails]
          IN  IF prev = value
                THEN Set(a, read, << >>)
                ELSE Set(a, setState(read, value),
                         <<[change |-> "storage", account |-> a, prev |-> prev]>>)

(* Mutant: the balance is cleared before it is put into the journal.       *)
SuicideNoBalance(a) ==
    LET o == getStateObject(stateObjects, a)
    IN  /\ Exist(a)
        /\ Set(a, setBalance(markSuicided(o, TRUE), 0),
               <<[change |-> "suicide", account |-> a, prev |-> o.suicided, balance |-> 0]>>)

Suicide(a) ==
    LET o == getStateObject(stateObjects, a)
    IN  /\ Exist(a)
        /\ Set(a, setBalance(markSuicided(o, TRUE), 0),
               <<[change |-> "suicide", account |-> a, prev |-> o.suicided,
                  balance |-> o.data.balance]>>)

(* The EVM creates an account that does not exist, or one without nonce    *)
(* and code, which has no storage then.  The balance is carried over.      *)
CreateAccount(a) ==
    LET prev == GetOrNewStateObject(a)
        new == setBalance(newObject(EmptyAccount), prev.data.balance)
    IN  /\ prev.data.nonce = 0 /\ prev.data.code = 0 /\ GetState(prev) = 0
        /\ Set(a, new,
               IF Exist(a) THEN <<[change |-> "reset", account |-> a, object |-> prev]>> ELSE << >>)

Change(a) ==
    \/ \E amount \in 0..1 : AddBalance(a, amount) \/ SubBalance(a, amount)
    \/ SetNonce(a)
    \/ CreateAccount(a)
    \/ a \in Contracts /\ \/ \E x \in Values : SetCode(a, x) \/ SetState(a, x)
                          \/ Suicide(a)

-----------------------------------------------------------------------------
(* Changes of the other parts.                                             *)

AddRefund(gas) ==
    /\ refund + gas <= MaxRefund
    /\ append(<<[change |-> "refund", prev |-> refund]>>)
    /\ refund' = refund + gas
    /\ UNCHANGED <<objectVars, logVars, dbVars, panic>>

SubRefund(gas) ==
    /\ gas <= refund
    /\ append(<<[change |-> "refund", prev |-> refund]>>)
    /\ refund' = refund - gas
    /\ UNCHANGED <<objectVars, logVars, dbVars, panic>>

(* A log is its index.                                                     *)
AddLog ==
    /\ logSize < MaxLogs
    /\ append(<<[change |-> "log", hash |-> thash]>>)
    /\ logs' = [logs EXCEPT ![thash] = Append(@, logSize)]
    /\ logSize' = logSize + 1
    /\ UNCHANGED <<objectVars, refund, thash, preimages, dbVars, panic>>

AddPreimage(h) ==
    /\ h \notin preimages
    /\ append(<<[change |-> "preimage", hash |-> h]>>)
    /\ preimages' = preimages \cup {h}
    /\ UNCHANGED <<objectVars, refund, thash, logs, logSize, dbVars, panic>>

Prepare(h) ==
    /\ thash' = h
    /\ UNCHANGED <<objectVars, refund, logs, logSize, preimages, journalVars, dbVars, panic>>

-----------------------------------------------------------------------------
(* Snapshots.                                                              *)

Snapshot ==
    /\ Len(validRevisions) < MaxRevisions[subject]
    /\ validRevisions' = Append(validRevisions, Len(entries))
    /\ saved' = Append(saved, View)
    /\ UNCHANGED <<objectVars, refund, logVars, entries, dirties, dbVars, panic>>

RevertToSnapshot(idx) ==
    LET n == validRevisions[idx]
        s == Reverted(n)
    IN  /\ validRevisions' = SubSeq(validRevisions, 1, idx - 1)
        /\ saved' = SubSeq(saved, 1, idx - 1)
        /\ stateObjects' = s.objects /\ stateObjectsDirty' = s.dirty
        /\ refund' = s.refund
        /\ logs' = s.logs /\ logSize' = s.logSize /\ preimages' = s.preimages
        /\ entries' = SubSeq(entries, 1, n) /\ dirties' = s.dirties
        /\ panic' = IF s.ok THEN panic ELSE "revert"
        /\ UNCHANGED <<thash, dbVars>>

-----------------------------------------------------------------------------
(* The end of a transaction and of a block.                                *)

Dirty == {a \in Accounts : dirties[a] > 0}

Dead(o) == o.suicided \/ (deleteEmptyObjects /\ empty(o))

deleteStateObject(o) == [o EXCEPT !.deleted = TRUE]

(* The objects f written to the trie, or removed from it.                  *)
Written(f) ==
    [a \in {x \in DOMAIN f : ~f[x].deleted} \cup (DOMAIN trie \ DOMAIN f) |->
       IF a \in DOMAIN f THEN f[a].data ELSE trie[a]]

(* Mutant: what Finalise wrote to the trie is not kept for Commit.         *)
FinaliseForgets ==
    /\ Dirty \subseteq DOMAIN stateObjects
    /\ LET done == [a \in Dirty |-> IF Dead(stateObjects[a])
                                      THEN deleteStateObject(stateObjects[a])
                                      ELSE updateRoot(stateObjects[a])]
       IN  /\ stateObjects' = Over(done, stateObjects)
           /\ trie' = Written(done)
           /\ clearJournalAndRefund
           /\ UNCHANGED <<stateObjectsDirty, logVars, codes, roots, err, panic>>

(* Finalise converts the object of every dirty account; there may be none. *)
Finalise ==
    IF Dirty \subseteq DOMAIN stateObjects
      THEN LET done == [a \in Dirty |-> IF Dead(stateObjects[a])
                                          THEN deleteStateObject(stateObjects[a])
                                          ELSE updateRoot(stateObjects[a])]
           IN  /\ stateObjects' = Over(done, stateObjects)
               /\ trie' = Written(done)
               /\ stateObjectsDirty' = stateObjectsDirty \cup Dirty
               /\ clearJournalAndRefund
               /\ UNCHANGED <<logVars, codes, roots, err, panic>>
      ELSE /\ panic' = "finalise"
           /\ UNCHANGED <<objectVars, refund, logVars, journalVars, dbVars>>

(* Commit visits the live objects in any order, up to the first whose      *)
(* storage trie has an error; the error itself is lost.                    *)
Commit ==
    LET isDirty == stateObjectsDirty \cup Dirty
        live == DOMAIN stateObjects
        deletes == {a \in live : stateObjects[a].suicided
                                    \/ (a \in isDirty /\ Dead(stateObjects[a]))}
        writes == (live \cap isDirty) \ deletes
        failing == {a \in writes : stateObjects[a].dbErr}
    IN  \E visited \in IF failing = {} THEN {live} ELSE SUBSET (live \ failing) :
          LET done == [a \in visited \cap (deletes \cup writes) |->
                         IF a \in deletes
                           THEN deleteStateObject(stateObjects[a])
                           ELSE [updateRoot(stateObjects[a]) EXCEPT !.dirtyCode = FALSE]]
              kept == visited \cap writes
          IN  /\ clearJournalAndRefund
              /\ stateObjects' = Over(done, stateObjects)
              /\ stateObjectsDirty' = isDirty \ visited
              /\ codes' = codes \cup {stateObjects[a].data.code :
                                        a \in {x \in kept : stateObjects[x].dirtyCode}}
              /\ roots' = roots \cup {GetState(stateObjects[a]) : a \in kept}
              /\ trie' = Written(done)
              /\ err' = FALSE
              /\ UNCHANGED <<logVars, panic>>

(* Reset, to the empty root.                                               *)
Reset ==
    /\ trie' = << >>
    /\ stateObjects' = << >> /\ stateObjectsDirty' = {}
    /\ thash' = ZeroHash
    /\ logs' = [h \in Hashes |-> << >>] /\ logSize' = 0
    /\ preimages' = {}
    /\ clearJournalAndRefund
    /\ UNCHANGED <<codes, roots, err, panic>>

(* Entries for accounts and other entries undo disjoint parts of the       *)
(* state; a behaviour has the one or the other.                            *)
ChangeAccounts == subject = "accounts" /\ \E a \in Accounts : Change(a)

ChangeLogs ==
    /\ subject = "logs"
    /\ \/ AddRefund(1) \/ SubRefund(1) \/ AddLog
       \/ \E h \in Preimages : AddPreimage(h)
       \/ \E h \in Hashes : entries = << >> /\ Prepare(h)

(* A panic is the end.                                                     *)
Next ==
    /\ panic = "none"
    /\ \/ ChangeAccounts \/ ChangeLogs
       \/ Snapshot
       \/ \E idx \in DOMAIN validRevisions : RevertToSnapshot(idx)
       \/ Finalise \/ Commit \/ Reset
    /\ UNCHANGED subject

Spec == Init /\ [][Next]_vars

-----------------------------------------------------------------------------
(* RevertToSnapshot finds every object it is to restore, and restores all  *)
(* that can be read of the state, with the logs and their count, as it was *)
(* at the Snapshot: over creations, resets, self-destructions and nested   *)
(* snapshots, also of accounts that earlier transactions deleted.          *)
RevertRestores ==
    [][\A idx \in DOMAIN validRevisions :
          RevertToSnapshot(idx) => panic' = "none" /\ View' = saved[idx]]_vars

(* What differs from the trie is dirty: Finalise visits dirty accounts     *)
(* only, and would leave any other change out of the state root.           *)
ChangesAreDirty ==
    \A a \in DOMAIN stateObjects :
        LET o == stateObjects[a]
            unwritten == \/ o.suicided
                         \/ a \notin DOMAIN trie
                         \/ trie[a] # updateRoot(o).data
        IN  ~o.deleted /\ unwritten => a \in Dirty

(* After a Commit nothing in the account trie refers to a code or a        *)
(* storage trie that is not in the database, whatever transactions were    *)
(* finalised and reverted before.                                          *)
CommitIsComplete ==
    [][Commit => \A a \in DOMAIN trie' : trie'[a].code \in codes' /\ trie'[a].root \in roots']_vars

-----------------------------------------------------------------------------
(* Mutant: the objects in the journal are not copied.                      *)
NothingCopied == << >>

(* Copy: the objects in the journal are copied, and of those that earlier  *)
(* transactions made dirty the ones that do not exist (nil for each).      *)
Copied == [a \in Dirty \cap DOMAIN stateObjects |-> stateObjects[a]]

CopyPanics == stateObjectsDirty \ DOMAIN stateObjects # {}

(* A reader of the copy, which has the trie and the database besides:      *)
(* what the database lacks is read as empty.                               *)
ReadCopy(a) ==
    LET o == getStateObject(Copied, a)
        fromTrie == a \notin DOMAIN Copied
    IN  IF Found(Copied, a)
          THEN [balance |-> o.data.balance, nonce |-> o.data.nonce,
                code |-> IF fromTrie /\ o.data.code \notin codes THEN 0 ELSE o.data.code,
                slot |-> IF fromTrie /\ o.data.root \notin roots THEN 0 ELSE GetState(o)]
          ELSE [balance |-> 0, nonce |-> 0, code |-> 0, slot |-> 0]

(* Until a transaction has been finalised after a Commit, the getters      *)
(* return the same for a Copy, in the midst of a transaction and after     *)
(* reverts as well: what the journal does not name is in the trie and the  *)
(* database as it is in the live objects.                                  *)
CopyOfCommitted ==
    stateObjectsDirty = {} =>
        /\ ~CopyPanics
        /\ \A a \in Accounts :
              LET r == Read(stateObjects, a)
              IN  ReadCopy(a) = [balance |-> r.balance, nonce |-> r.nonce, code |-> r.code, slot |-> r.slot]

=============================================================================
