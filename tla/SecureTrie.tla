----------------------------- MODULE SecureTrie -----------------------------
(***************************************************************************)
(* trie.SecureTrie under concurrent callers, such as the threads of the    *)
(* miner that share the account trie: writers hold the global              *)
(* secureTrieLock, TryGet and Hash hold nothing, and all of them hash      *)
(* their key into the one hashKeyBuf of the trie, which the trie below     *)
(* reads.  A hashed key is represented by the key.                         *)
(***************************************************************************)
EXTENDS ConcurrentTrie

CONSTANTS SecureOps, NoClient

ASSUME SecureAssumption ==
    /\ SecureOps \subseteq {"get", "update", "delete", "Delete", "hash", "commit"}
    /\ NoClient \notin Clients

VARIABLES
    secureTrieLock,
    want,           \* the times that a client has still to lock
    hashKeyBuf,     \* trie -> the key last hashed
    secKeyCache,    \* trie -> pairs of a hashed key and its preimage
    preimages       \* the pairs in the database

secureVars == <<secureTrieLock, want, hashKeyBuf, secKeyCache, preimages>>
allVars == <<vars, secureVars>>

SecureInit ==
    /\ Init
    /\ secureTrieLock = NoClient
    /\ want = [c \in Clients |-> 0]
    /\ hashKeyBuf \in [Tries -> {CHOOSE k \in Keys : TRUE}]
    /\ secKeyCache = [tr \in Tries |-> {}]
    /\ preimages = {}

-----------------------------------------------------------------------------
(* Mutants: TryUpdate, and TryDelete, without the lock.                    *)
LocksNotUpdate(op) == IF op \in {"delete", "commit"} THEN 1 ELSE 0
LocksNotDelete(op) == IF op \in {"update", "commit"} THEN 1 ELSE 0

(* Delete locks, and calls TryDelete, which locks.                         *)
Locks(op) == CASE op = "Delete" -> 2
               [] op \in {"update", "delete", "commit"} -> 1
               [] OTHER -> 0

(* Where an operation goes on once it has its locks.                       *)
Entry(op) == IF op \in {"hash", "commit"} THEN "load" ELSE "hash"

Call(c) ==
    /\ call[c].pc = "idle"
    /\ call[c].n < MaxOps
    /\ \E op \in SecureOps, tr \in Tries, k \in Keys, v \in Values :
          /\ op # "update" => v = NoValue
          /\ want' = [want EXCEPT ![c] = Locks(op)]
          /\ call' = [call EXCEPT ![c] = [@ EXCEPT
                        !.pc = IF Locks(op) > 0 THEN "lock" ELSE Entry(op),
                        !.op = IF op = "Delete" THEN "delete" ELSE op,
                        !.n = call[c].n + 1, !.trie = tr, !.arg = k, !.value = v, !.err = FALSE]]
    /\ UNCHANGED <<root, allocs, updateChannels, go, secureTrieLock, hashKeyBuf, secKeyCache, preimages>>

(* Commit first moves the cached preimages to the database.                *)
Lock(c) ==
    LET flush == call[c].op = "commit"
        cache == secKeyCache[call[c].trie]
    IN  /\ call[c].pc = "lock"
        /\ secureTrieLock = NoClient
        /\ secureTrieLock' = c
        /\ want' = [want EXCEPT ![c] = @ - 1]
        /\ call' = [call EXCEPT ![c] = [@ EXCEPT !.pc = IF want[c] = 1 THEN Entry(call[c].op) ELSE call[c].pc]]
        /\ preimages' = IF flush THEN preimages \cup cache ELSE preimages
        /\ secKeyCache' = IF flush THEN [secKeyCache EXCEPT ![call[c].trie] = {}] ELSE secKeyCache
        /\ UNCHANGED <<root, allocs, updateChannels, go, hashKeyBuf>>

hashKey(c) ==
    /\ call[c].pc = "hash"
    /\ hashKeyBuf' = [hashKeyBuf EXCEPT ![call[c].trie] = call[c].arg]
    /\ call' = [call EXCEPT ![c] = [@ EXCEPT !.pc = IF call[c].op = "delete" THEN "uncache" ELSE "key"]]
    /\ UNCHANGED <<root, allocs, updateChannels, go, secureTrieLock, want, secKeyCache, preimages>>

(* delete(t.getSecKeyCache(), string(hk)).                                 *)
Uncache(c) ==
    LET tr == call[c].trie
    IN  /\ call[c].pc = "uncache"
        /\ secKeyCache' = [secKeyCache EXCEPT ![tr] = {p \in @ : p[1] # hashKeyBuf[tr]}]
        /\ call' = [call EXCEPT ![c] = [@ EXCEPT !.pc = "key"]]
        /\ UNCHANGED <<root, allocs, updateChannels, go, secureTrieLock, want, hashKeyBuf, preimages>>

(* The trie has returned.  TryUpdate caches the preimage of its key, and   *)
(* the lock is given back.                                                 *)
Finish(c) ==
    LET tr == call[c].trie
        hk == hashKeyBuf[tr]
    IN  /\ call[c].pc = "done"
        /\ secKeyCache' =
              IF call[c].op = "update" /\ ~call[c].err
                THEN [secKeyCache EXCEPT ![tr] = {p \in @ : p[1] # hk} \cup {<<hk, call[c].arg>>}]
                ELSE secKeyCache
        /\ secureTrieLock' = IF secureTrieLock = c THEN NoClient ELSE secureTrieLock
        /\ Return(c)
        /\ UNCHANGED <<want, hashKeyBuf, preimages>>

SecureStep(c) ==
    \/ Lock(c) \/ hashKey(c) \/ Uncache(c) \/ Finish(c)
    \/ (ReadKey(c, hashKeyBuf[call[c].trie]) \/ Receive(c) \/ Load(c) \/ Store(c)) /\ UNCHANGED secureVars

SecureGoStep(g) ==
    (UpdateKey(g, hashKeyBuf[go[g].trie]) \/ tryUpdate(g)) /\ UNCHANGED secureVars

SecureNext ==
    \/ \E c \in Clients : Call(c) \/ SecureStep(c)
    \/ \E g \in Goroutines : SecureGoStep(g)
    \/ Finished /\ UNCHANGED allVars

SecureSpec == SecureInit /\ [][SecureNext]_allVars

-----------------------------------------------------------------------------
(* GetKey returns the preimage of a hashed key or nothing.                 *)
PreimagesAreExact ==
    \A p \in preimages \cup UNION {secKeyCache[tr] : tr \in Tries} : p[1] = p[2]

(* TryUpdate associates its key with the value: the goroutine updates the  *)
(* key that the caller gave.                                               *)
UpdatesOwnKey ==
    \A g \in Goroutines : go[g].pc \in {"load", "cas", "send", "end"} => go[g].key = go[g].arg

=============================================================================
