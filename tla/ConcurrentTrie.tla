--------------------------- MODULE ConcurrentTrie ---------------------------
(***************************************************************************)
(* The operations of trie.Trie under concurrent callers.  Update starts a  *)
(* goroutine that replaces the root by compare-and-swap and answers on one *)
(* of the global updateChannels; TryGet, TryDelete, Hash and Commit read   *)
(* the root and later write it without a comparison.                       *)
(*                                                                         *)
(* What the nodes under a root are is the subject of Trie; here they are   *)
(* the values of the keys, and the set of keys whose nodes are loaded.     *)
(* A pointer to a new root is different from all earlier ones.             *)
(***************************************************************************)
EXTENDS Naturals, Sequences

CONSTANTS
    Clients,
    Tries,
    Keys,
    Values,         \* with NoValue, the empty value
    NoValue,
    Channels,
    channelOf,      \* key -> the channel of its first nibble
    InitLoaded,     \* the keys whose nodes are in memory at first
    Ops,            \* the operations in use
    Exclusive,      \* those that callers use only while no other call is under way
    MaxOps          \* bound: the operations of each client

AllOps == {"update", "get", "delete", "hash", "commit"}

ASSUME TrieAssumption ==
    /\ Tries # {} /\ Keys # {}
    /\ NoValue \in Values
    /\ channelOf \in [Keys -> Channels]
    /\ InitLoaded \subseteq Keys
    /\ Ops \subseteq AllOps
    /\ Exclusive \subseteq AllOps
    /\ MaxOps \in Nat

VARIABLES
    root,             \* trie -> [ptr, node, loaded]
    allocs,           \* pointers allocated
    updateChannels,   \* channel -> the answers in it, at most one
    call,             \* client -> its call
    go                \* client, number -> the goroutine of its update

vars == <<root, allocs, updateChannels, call, go>>

Node == [Keys -> Values]
Root == [ptr : Nat, node : Node, loaded : SUBSET Keys]
Goroutines == Clients \X (1..MaxOps)

Init ==
    /\ root \in [Tries -> [ptr : {0}, node : Node, loaded : {InitLoaded}]]
    /\ allocs = 0
    /\ updateChannels = [ch \in Channels |-> << >>]
    /\ LET tr == CHOOSE x \in Tries : TRUE
           k == CHOOSE x \in Keys : TRUE
       IN  /\ call = [c \in Clients |-> [pc |-> "idle", n |-> 0, op |-> "get", trie |-> tr, arg |-> k,
                                         key |-> k, value |-> NoValue, old |-> root[tr], err |-> FALSE]]
           /\ go = [g \in Goroutines |-> [pc |-> "none", trie |-> tr, arg |-> k, key |-> k,
                                          ch |-> channelOf[k], value |-> NoValue, old |-> root[tr],
                                          err |-> FALSE]]

-----------------------------------------------------------------------------
(* The root r with its path to k resolved and its value replaced.          *)
insert(r, k, v) == [r EXCEPT !.node = [@ EXCEPT ![k] = v], !.loaded = @ \cup {k}]

resolve(r, k) == [r EXCEPT !.loaded = @ \cup {k}]

(* A node that is not loaded may be missing in the database.               *)
ResolveErrors(r, k) == {FALSE} \cup {e \in {TRUE} : k \notin r.loaded}

(* t.root = &n.                                                            *)
SetRoot(tr, r) ==
    /\ root' = [root EXCEPT ![tr] = [r EXCEPT !.ptr = allocs + 1]]
    /\ allocs' = allocs + 1

-----------------------------------------------------------------------------
(* The other clients are in no call, or in calls that tolerate op.         *)
Tolerated(c, op) ==
    \A d \in Clients \ {c} : call[d].pc = "idle" \/ {op, call[d].op} \cap Exclusive = {}

(* A client calls an operation.                                            *)
Begin(c) ==
    /\ call[c].pc = "idle"
    /\ call[c].n < MaxOps
    /\ \E op \in Ops, tr \in Tries, k \in Keys, v \in Values :
          /\ Tolerated(c, op)
          /\ op # "update" => v = NoValue
          /\ call' = [call EXCEPT ![c] = [@ EXCEPT !.pc = "key", !.n = call[c].n + 1, !.op = op, !.trie = tr,
                                            !.arg = k, !.value = v, !.err = FALSE]]
    /\ UNCHANGED <<root, allocs, updateChannels, go>>

(* k := keybytesToHex(key); TryUpdate also starts its goroutine.           *)
ReadKey(c, k) ==
    /\ call[c].pc = "key"
    /\ IF call[c].op = "update"
         THEN /\ call' = [call EXCEPT ![c] = [@ EXCEPT !.pc = "wait", !.key = k]]
              /\ go' = [go EXCEPT ![<<c, call[c].n>>] =
                          [@ EXCEPT !.pc = "key", !.trie = call[c].trie, !.arg = call[c].arg,
                                    !.ch = channelOf[k], !.value = call[c].value]]
         ELSE /\ call' = [call EXCEPT ![c] = [@ EXCEPT !.pc = "load", !.key = k]]
              /\ UNCHANGED go
    /\ UNCHANGED <<root, allocs, updateChannels>>

(* The goroutine reads its key.                                            *)
UpdateKey(g, k) ==
    /\ go[g].pc = "key"
    /\ go' = [go EXCEPT ![g] = [@ EXCEPT !.pc = "load", !.key = k]]
    /\ UNCHANGED <<root, allocs, updateChannels, call>>

(* oldRoot = t.root, and insert or delete.                                 *)
UpdateLoad(g) ==
    /\ go[g].pc = "load"
    /\ \E err \in ResolveErrors(root[go[g].trie], go[g].key) :
          go' = [go EXCEPT ![g] = [@ EXCEPT !.pc = IF err THEN "send" ELSE "cas", !.err = err,
                                            !.old = root[go[g].trie]]]
    /\ UNCHANGED <<root, allocs, updateChannels, call>>

(* Mutant: the root is set without the comparison.                         *)
UpdateSet(g) ==
    /\ go[g].pc = "cas"
    /\ SetRoot(go[g].trie, insert(go[g].old, go[g].key, go[g].value))
    /\ go' = [go EXCEPT ![g] = [@ EXCEPT !.pc = "send"]]
    /\ UNCHANGED <<updateChannels, call>>

(* Mutant: a failed comparison is not tried again.                         *)
UpdateOnce(g) ==
    /\ go[g].pc = "cas"
    /\ IF root[go[g].trie].ptr = go[g].old.ptr
         THEN /\ SetRoot(go[g].trie, insert(go[g].old, go[g].key, go[g].value))
              /\ go' = [go EXCEPT ![g] = [@ EXCEPT !.pc = "send"]]
         ELSE /\ go' = [go EXCEPT ![g] = [@ EXCEPT !.pc = "end"]]
              /\ UNCHANGED <<root, allocs>>
    /\ UNCHANGED <<updateChannels, call>>

(* CompareAndSwapPointer(&t.root, oldRoot, &n).                            *)
UpdateCAS(g) ==
    /\ go[g].pc = "cas"
    /\ IF root[go[g].trie].ptr = go[g].old.ptr
         THEN /\ SetRoot(go[g].trie, insert(go[g].old, go[g].key, go[g].value))
              /\ go' = [go EXCEPT ![g] = [@ EXCEPT !.pc = "send"]]
         ELSE /\ go' = [go EXCEPT ![g] = [@ EXCEPT !.pc = "load"]]
              /\ UNCHANGED <<root, allocs>>
    /\ UNCHANGED <<updateChannels, call>>

(* c <- err.                                                               *)
UpdateSend(g) ==
    LET ch == go[g].ch
    IN  /\ go[g].pc = "send"
        /\ updateChannels[ch] = << >>
        /\ updateChannels' = [updateChannels EXCEPT ![ch] = <<go[g].err>>]
        /\ go' = [go EXCEPT ![g] = [@ EXCEPT !.pc = "end"]]
        /\ UNCHANGED <<root, allocs, call>>

tryUpdate(g) == UpdateLoad(g) \/ UpdateCAS(g) \/ UpdateSend(g)

(* Mutant: nobody waits for the answer.                                    *)
ReceiveNow(c) ==
    /\ call[c].pc = "wait"
    /\ call' = [call EXCEPT ![c] = [@ EXCEPT !.pc = "done"]]
    /\ UNCHANGED <<root, allocs, updateChannels, go>>

(* return <-c: the first answer in the channel, whoever sent it.           *)
Receive(c) ==
    LET ch == channelOf[call[c].key]
    IN  /\ call[c].pc = "wait"
        /\ updateChannels[ch] # << >>
        /\ call' = [call EXCEPT ![c] = [@ EXCEPT !.pc = "done", !.err = Head(updateChannels[ch])]]
        /\ updateChannels' = [updateChannels EXCEPT ![ch] = << >>]
        /\ UNCHANGED <<root, allocs, go>>

-----------------------------------------------------------------------------
(* TryGet, TryDelete, Hash and Commit read the root...                     *)
Load(c) ==
    LET r == root[call[c].trie]
    IN  /\ call[c].pc = "load"
        /\ \E err \in IF call[c].op \in {"hash", "commit"} THEN {FALSE} ELSE ResolveErrors(r, call[c].key) :
              call' = [call EXCEPT ![c] =
                         [@ EXCEPT !.err = err, !.old = r,
                                   !.value = IF call[c].op = "get" /\ ~err THEN r.node[call[c].key] ELSE call[c].value,
                                   !.pc = IF err \/ (call[c].op = "get" /\ call[c].key \in r.loaded)
                                            THEN "done" ELSE "store"]]
        /\ UNCHANGED <<root, allocs, updateChannels, go>>

(* ... and write what they have made of it; Commit may have unloaded it.   *)
Store(c) ==
    LET old == call[c].old
        new == CASE call[c].op = "get"    -> {resolve(old, call[c].key)}
                 [] call[c].op = "delete" -> {insert(old, call[c].key, NoValue)}
                 [] call[c].op = "hash"   -> {old}
                 [] OTHER                 -> {old, [old EXCEPT !.loaded = {}]}
    IN  /\ call[c].pc = "store"
        /\ \E r \in new : SetRoot(call[c].trie, r)
        /\ call' = [call EXCEPT ![c] = [@ EXCEPT !.pc = "done"]]
        /\ UNCHANGED <<updateChannels, go>>

Return(c) ==
    /\ call[c].pc = "done"
    /\ call' = [call EXCEPT ![c] = [@ EXCEPT !.pc = "idle"]]
    /\ UNCHANGED <<root, allocs, updateChannels, go>>

-----------------------------------------------------------------------------
Step(c) == ReadKey(c, call[c].arg) \/ Receive(c) \/ Load(c) \/ Store(c) \/ Return(c)
GoStep(g) == UpdateKey(g, go[g].arg) \/ tryUpdate(g)

AtRest == (\A c \in Clients : call[c].pc = "idle") /\ (\A g \in Goroutines : go[g].pc \in {"none", "end"})
Finished == AtRest /\ \A c \in Clients : call[c].n = MaxOps

Next ==
    \/ \E c \in Clients : Begin(c) \/ Step(c)
    \/ \E g \in Goroutines : GoStep(g)
    \/ Finished /\ UNCHANGED vars

Spec == Init /\ [][Next]_vars

(* The scheduler runs every goroutine; a channel serves those that wait.   *)
Fairness ==
    /\ \A c \in Clients : WF_vars(Step(c))
    /\ \A g \in Goroutines : WF_vars(UpdateKey(g, go[g].arg) \/ UpdateLoad(g) \/ UpdateCAS(g))
    /\ \A g \in Goroutines : SF_vars(UpdateSend(g))
    /\ \A c \in Clients : SF_vars(Receive(c))

FairSpec == Spec /\ Fairness

-----------------------------------------------------------------------------
(* The updates under way: of a goroutine until its compare-and-swap, of a  *)
(* TryDelete until its store.                                              *)
UpdateOf(id, x) == [id |-> id, trie |-> x.trie, key |-> x.key, value |-> x.value]
Updating == {g \in Goroutines : go[g].pc \in {"load", "cas"}}
Deleting == {c \in Clients : call[c].op = "delete" /\ call[c].pc \in {"load", "store"}}
Pending ==
    {UpdateOf(g, go[g]) : g \in Updating} \cup {UpdateOf(<<c, call[c].n>>, call[c]) : c \in Deleting}

Atomic == INSTANCE AtomicTrie
            WITH Ids <- Goroutines,
                 map <- [tr \in Tries |-> root[tr].node],
                 pending <- Pending

(* Every Update takes effect at its compare-and-swap, exactly once or with *)
(* an error, and nothing else changes what a trie stores.                  *)
UpdatesAreAtomic == Atomic!Spec

(* When TryUpdate has returned without an error, its value is in the trie  *)
(* or was: subsequent calls to Get return it until it is updated again.    *)
UpdateIsDone ==
    \A c \in Clients : LET n == call[c].n IN
        call[c].op = "update" /\ call[c].pc \in {"done", "idle"} /\ n > 0 /\ ~call[c].err
            => go[<<c, n>>].pc \in {"send", "end"} /\ ~go[<<c, n>>].err

(* Every call returns.                                                     *)
CallsReturn == \A c \in Clients : call[c].pc # "idle" ~> call[c].pc = "idle"

=============================================================================
