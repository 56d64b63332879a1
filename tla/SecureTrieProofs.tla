-------------------------- MODULE SecureTrieProofs --------------------------
(***************************************************************************)
(* The writers of SecureTries, any number of them on any number of tries:  *)
(* secureTrieLock makes TryUpdate, TryDelete and Commit one at a time, so  *)
(* that the key buffer, the channel and the root that a call has read are  *)
(* still its own when it uses them.  TryGet and Hash take no lock, and     *)
(* TryGet hashes its key into the same buffer: nothing here is said of     *)
(* them.                                                                   *)
(*                                                                         *)
(* Concurrent Updates of tries whose nodes are in memory are atomic, for   *)
(* any number of clients, tries, keys and values.                          *)
(***************************************************************************)
EXTENDS SecureTrie, TLAPS

-----------------------------------------------------------------------------
(* Tries in memory.                                                        *)

TrieCallType ==
    [pc : {"idle", "key", "wait", "load", "store", "done"}, n : 0..MaxOps, op : AllOps, trie : Tries,
     arg : Keys, key : Keys, value : Values, old : Root, err : BOOLEAN]

TrieGoType ==
    [pc : {"none", "key", "load", "cas", "send", "end"}, trie : Tries, arg : Keys, key : Keys,
     ch : Channels, value : Values, old : Root, err : BOOLEAN]

(* The variables have their types.                                         *)
TrieTypeOK ==
    /\ root \in [Tries -> Root]
    /\ allocs \in Nat
    /\ updateChannels \in [Channels -> Seq(BOOLEAN)]
    /\ call \in [Clients -> TrieCallType]
    /\ go \in [Goroutines -> TrieGoType]

(* Everything is loaded, so that no reader is about to write the root.     *)
LoadedInv ==
    /\ \A tr \in Tries : root[tr].loaded = Keys
    /\ \A c \in Clients : /\ call[c].op \in {"update", "get"}
                          /\ call[c].pc # "store"
                          /\ call[c].pc = "load" => call[c].op = "get"

(* A goroutine is started once.                                            *)
FreshInv ==
    \A c \in Clients :
        /\ call[c].pc # "idle" => call[c].n >= 1
        /\ call[c].pc = "key" => go[<<c, call[c].n>>].pc = "none"
        /\ \A i \in 1..MaxOps : i > call[c].n => go[<<c, i>>].pc = "none"

(* A pointer stands for one content: what a goroutine has read under the   *)
(* pointer that is still the root is still the content of the trie.        *)
PointerInv ==
    /\ \A tr \in Tries : root[tr].ptr <= allocs
    /\ \A g \in Goroutines : go[g].pc = "cas" =>
          /\ go[g].old.ptr <= allocs
          /\ go[g].old.loaded = Keys
          /\ go[g].old.ptr = root[go[g].trie].ptr => go[g].old.node = root[go[g].trie].node

Inv == TrieTypeOK /\ LoadedInv /\ FreshInv /\ PointerInv

InMemory == Ops \subseteq {"update", "get"} /\ InitLoaded = Keys

-----------------------------------------------------------------------------
(* The empty calls and goroutines of Init are well typed.                  *)
LEMMA InitInv ==
    ASSUME InMemory, Init
    PROVE  Inv
<1> DEFINE tr == CHOOSE x \in Tries : TRUE
           k == CHOOSE x \in Keys : TRUE
<1>1. tr \in Tries /\ k \in Keys
  BY TrieAssumption
<1>2. \A x \in Tries : root[x] \in Root /\ root[x].ptr = 0 /\ root[x].loaded = Keys
  BY DEF Init, InMemory, Root
<1>3. root \in [Tries -> Root]
  BY <1>2 DEF Init
<1>4. call \in [Clients -> TrieCallType] /\ \A c \in Clients : call[c].pc = "idle" /\ call[c].op = "get" /\ call[c].n = 0
  BY <1>1, <1>2, TrieAssumption DEF Init, TrieCallType, AllOps
<1>5. go \in [Goroutines -> TrieGoType] /\ \A g \in Goroutines : go[g].pc = "none"
  BY <1>1, <1>2, TrieAssumption DEF Init, TrieGoType
<1>6. TrieTypeOK
  BY <1>3, <1>4, <1>5 DEF TrieTypeOK, Init
<1>7. LoadedInv
  BY <1>2, <1>4 DEF LoadedInv
<1>8. FreshInv
  BY Zenon, <1>4, <1>5 DEF FreshInv, Goroutines
<1>9. PointerInv
  BY <1>2, <1>5 DEF PointerInv, Init
<1> QED BY <1>6, <1>7, <1>8, <1>9 DEF Inv

(* A record of call or go stays well typed when the given fields change.   *)
LEMMA TypeStep ==
    ASSUME InMemory, Inv, Next
    PROVE  TrieTypeOK'
<1> USE DEF Inv
<1>1. SUFFICES ASSUME ~UNCHANGED vars PROVE TrieTypeOK'
  BY DEF vars, TrieTypeOK
<1>2. ASSUME NEW c \in Clients, Begin(c) PROVE TrieTypeOK'
  <2>1. PICK op \in Ops, tr \in Tries, k \in Keys, v \in Values :
          call' = [call EXCEPT ![c] = [@ EXCEPT !.pc = "key", !.n = call[c].n + 1, !.op = op,
                                         !.trie = tr, !.arg = k, !.value = v, !.err = FALSE]]
    BY ZenonT(40), <1>2 DEF Begin, TrieTypeOK
  <2>2. call[c] \in TrieCallType /\ call[c].n + 1 \in 0..MaxOps /\ op \in AllOps
    BY SMTT(30), <1>2, TrieAssumption DEF Begin, TrieTypeOK, TrieCallType
  <2>3. [call[c] EXCEPT !.pc = "key", !.n = call[c].n + 1, !.op = op, !.trie = tr,
                        !.arg = k, !.value = v, !.err = FALSE] \in TrieCallType
    BY Zenon, <2>2 DEF TrieCallType
  <2>4. call' \in [Clients -> TrieCallType]
    BY <2>1, <2>3 DEF TrieTypeOK
  <2> QED BY <1>2, <2>4 DEF Begin, TrieTypeOK
<1>3. ASSUME NEW c \in Clients, ReadKey(c, call[c].arg) PROVE TrieTypeOK'
  <2>1. call[c] \in TrieCallType /\ call[c].arg \in Keys
    BY DEF TrieTypeOK, TrieCallType
  <2>2. CASE call[c].op = "update"
    <3>1. <<c, call[c].n>> \in Goroutines
      BY <1>3, <2>1 DEF ReadKey, FreshInv, Goroutines, TrieCallType
    <3>2. [call[c] EXCEPT !.pc = "wait", !.key = call[c].arg] \in TrieCallType
      BY Zenon, <2>1 DEF TrieCallType
    <3>3. [go[<<c, call[c].n>>] EXCEPT !.pc = "key", !.trie = call[c].trie, !.arg = call[c].arg,
              !.ch = channelOf[call[c].arg], !.value = call[c].value] \in TrieGoType
      <4>1. go[<<c, call[c].n>>] \in TrieGoType /\ channelOf[call[c].arg] \in Channels
        BY <2>1, <3>1, TrieAssumption DEF TrieTypeOK
      <4>2. call[c].trie \in Tries /\ call[c].value \in Values
        BY <2>1 DEF TrieCallType
      <4> QED BY Zenon, <2>1, <4>1, <4>2 DEF TrieGoType
    <3> QED BY Zenon, <1>3, <2>2, <3>1, <3>2, <3>3 DEF ReadKey, TrieTypeOK
  <2>3. CASE call[c].op # "update"
    <3>1. [call[c] EXCEPT !.pc = "load", !.key = call[c].arg] \in TrieCallType
      BY Zenon, <2>1 DEF TrieCallType
    <3> QED BY <1>3, <2>3, <3>1 DEF ReadKey, TrieTypeOK
  <2> QED BY <2>2, <2>3
<1>4. ASSUME NEW c \in Clients, Receive(c) PROVE TrieTypeOK'
  <2>1. call[c] \in TrieCallType /\ channelOf[call[c].key] \in Channels
    BY TrieAssumption DEF TrieTypeOK, TrieCallType
  <2>2. Head(updateChannels[channelOf[call[c].key]]) \in BOOLEAN
    BY <1>4, <2>1 DEF Receive, TrieTypeOK
  <2>3. [call[c] EXCEPT !.pc = "done", !.err = Head(updateChannels[channelOf[call[c].key]])] \in TrieCallType
    BY Zenon, <2>1, <2>2 DEF TrieCallType
  <2> QED BY <1>4, <2>1, <2>3 DEF Receive, TrieTypeOK
<1>5. ASSUME NEW c \in Clients, Load(c) PROVE TrieTypeOK'
  <2>1. call[c] \in TrieCallType /\ root[call[c].trie] \in Root /\ call[c].op = "get"
    BY <1>5 DEF Load, TrieTypeOK, TrieCallType, LoadedInv
  <2>2. root[call[c].trie].node[call[c].key] \in Values
    BY <2>1 DEF Root, Node, TrieCallType
  <2>3. call' = [call EXCEPT ![c] = [@ EXCEPT !.err = FALSE, !.old = root[call[c].trie],
                                              !.value = root[call[c].trie].node[call[c].key],
                                              !.pc = "done"]]
    <3>1. call[c].trie \in Tries /\ call[c].key \in Keys
      BY <2>1 DEF TrieCallType
    <3>2. ResolveErrors(root[call[c].trie], call[c].key) = {FALSE}
      BY Zenon, <3>1 DEF ResolveErrors, LoadedInv
    <3>3. call[c].key \in root[call[c].trie].loaded
      BY <3>1 DEF LoadedInv
    <3> QED BY <1>5, <2>1, <3>2, <3>3 DEF Load
  <2>4. [call[c] EXCEPT !.err = FALSE, !.old = root[call[c].trie],
                        !.value = root[call[c].trie].node[call[c].key], !.pc = "done"] \in TrieCallType
    BY Zenon, <2>1, <2>2 DEF TrieCallType
  <2> QED BY <1>5, <2>3, <2>4 DEF Load, TrieTypeOK
<1>6. ASSUME NEW c \in Clients, Store(c) PROVE TrieTypeOK'
  BY <1>6 DEF Store, LoadedInv
<1>7. ASSUME NEW c \in Clients, Return(c) PROVE TrieTypeOK'
  <2>1. [call[c] EXCEPT !.pc = "idle"] \in TrieCallType
    BY ZenonT(40) DEF TrieTypeOK, TrieCallType
  <2> QED BY <1>7, <2>1 DEF Return, TrieTypeOK
<1>8. ASSUME NEW g \in Goroutines, UpdateKey(g, go[g].arg) PROVE TrieTypeOK'
  <2>1. [go[g] EXCEPT !.pc = "load", !.key = go[g].arg] \in TrieGoType
    BY Zenon DEF TrieTypeOK, TrieGoType
  <2> QED BY <1>8, <2>1 DEF UpdateKey, TrieTypeOK
<1>9. ASSUME NEW g \in Goroutines, UpdateLoad(g) PROVE TrieTypeOK'
  <2>1. go[g] \in TrieGoType /\ root[go[g].trie] \in Root
    BY DEF TrieTypeOK, TrieGoType
  <2>2. PICK err \in BOOLEAN : go' = [go EXCEPT ![g] = [@ EXCEPT !.pc = IF err THEN "send" ELSE "cas",
                                                 !.err = err, !.old = root[go[g].trie]]]
    BY Zenon, <1>9 DEF UpdateLoad, ResolveErrors
  <2>3. go'[g] \in TrieGoType
    BY Zenon, <2>1, <2>2 DEF TrieGoType, TrieTypeOK
  <2> QED BY <1>9, <2>2, <2>3 DEF UpdateLoad, TrieTypeOK
<1>10. ASSUME NEW g \in Goroutines, UpdateCAS(g) PROVE TrieTypeOK'
  <2>1. go[g] \in TrieGoType
    BY DEF TrieTypeOK
  <2>2. [go[g] EXCEPT !.pc = "send"] \in TrieGoType /\ [go[g] EXCEPT !.pc = "load"] \in TrieGoType
    BY <2>1 DEF TrieGoType
  <2>3. [insert(go[g].old, go[g].key, go[g].value) EXCEPT !.ptr = allocs + 1] \in Root
    <3>1. go[g].old \in Root /\ go[g].key \in Keys /\ go[g].value \in Values /\ allocs + 1 \in Nat
      BY <2>1 DEF TrieGoType, TrieTypeOK
    <3>2. [go[g].old.node EXCEPT ![go[g].key] = go[g].value] \in Node
      BY <3>1 DEF Root, Node
    <3>3. insert(go[g].old, go[g].key, go[g].value) \in Root
      BY Zenon, <3>1, <3>2 DEF insert, Root
    <3> QED BY <3>1, <3>3 DEF Root
  <2>4. CASE root[go[g].trie].ptr = go[g].old.ptr
    <3>1. root' = [root EXCEPT ![go[g].trie] = [insert(go[g].old, go[g].key, go[g].value) EXCEPT !.ptr = allocs + 1]]
      BY <1>10, <2>4 DEF UpdateCAS, SetRoot
    <3>2. root' \in [Tries -> Root]
      BY Zenon, <2>3, <3>1 DEF TrieTypeOK
    <3>3. go' = [go EXCEPT ![g] = [@ EXCEPT !.pc = "send"]] /\ allocs' = allocs + 1
      BY <1>10, <2>4 DEF UpdateCAS, SetRoot
    <3>4. go' \in [Goroutines -> TrieGoType]
      BY <2>2, <3>3 DEF TrieTypeOK
    <3> QED BY <1>10, <3>2, <3>3, <3>4 DEF UpdateCAS, TrieTypeOK
  <2>5. CASE root[go[g].trie].ptr # go[g].old.ptr
    BY Zenon, <1>10, <2>2, <2>5 DEF UpdateCAS, TrieTypeOK
  <2> QED BY <2>4, <2>5
<1>11. ASSUME NEW g \in Goroutines, UpdateSend(g) PROVE TrieTypeOK'
  <2>1. go[g] \in TrieGoType /\ go[g].ch \in Channels /\ <<go[g].err>> \in Seq(BOOLEAN)
    BY SMTT(30) DEF TrieTypeOK, TrieGoType
  <2>2. [go[g] EXCEPT !.pc = "end"] \in TrieGoType
    BY Zenon, <2>1 DEF TrieGoType
  <2> QED BY <1>11, <2>1, <2>2 DEF UpdateSend, TrieTypeOK
<1> QED
  BY <1>1, <1>2, <1>3, <1>4, <1>5, <1>6, <1>7, <1>8, <1>9, <1>10, <1>11
  DEF Next, Step, GoStep, tryUpdate

-----------------------------------------------------------------------------
(* No step of a client changes the root, and what it may do to its call.   *)
LEMMA ClientStep ==
    ASSUME InMemory, Inv, NEW c \in Clients, Begin(c) \/ Step(c)
    PROVE  /\ root' = root /\ allocs' = allocs
           /\ call'[c].op \in {"update", "get"}
           /\ call'[c].pc # "store"
           /\ call'[c].pc = "load" => call'[c].op = "get"
           /\ \A d \in Clients \ {c} : call'[d] = call[d]
           /\ \/ /\ go' = go
                 /\ \/ call'[c].n = call[c].n /\ call'[c].pc # "key" /\ call[c].pc # "idle"
                    \/ call'[c].n = call[c].n + 1 /\ call'[c].n <= MaxOps
              \/ /\ call[c].pc = "key" /\ call'[c].pc = "wait" /\ call'[c].n = call[c].n
                 /\ <<c, call[c].n>> \in Goroutines
                 /\ go'[<<c, call[c].n>>].pc = "key"
                 /\ \A g \in Goroutines \ {<<c, call[c].n>>} : go'[g] = go[g]
<1> USE DEF Inv
<1>0. call \in [Clients -> TrieCallType] /\ call[c] \in TrieCallType /\ go \in [Goroutines -> TrieGoType] /\ DOMAIN call = Clients
  BY DEF TrieTypeOK
<1>1. CASE Begin(c)
  <2>1. PICK op \in Ops, tr \in Tries, k \in Keys, v \in Values :
          call' = [call EXCEPT ![c] = [@ EXCEPT !.pc = "key", !.n = call[c].n + 1, !.op = op,
                                         !.trie = tr, !.arg = k, !.value = v, !.err = FALSE]]
    BY ZenonT(40), <1>1 DEF Begin
  <2>2. call'[c] = [call[c] EXCEPT !.pc = "key", !.n = call[c].n + 1, !.op = op,
                                   !.trie = tr, !.arg = k, !.value = v, !.err = FALSE]
    BY <1>0, <2>1
  <2>3. call'[c].pc = "key" /\ call'[c].n = call[c].n + 1 /\ call'[c].op = op
    BY <1>0, <2>2 DEF TrieCallType
  <2>4. \A d \in Clients \ {c} : call'[d] = call[d]
    BY <1>0, <2>1
  <2>5. root' = root /\ allocs' = allocs /\ go' = go /\ call[c].n < MaxOps
    BY Zenon, <1>1 DEF Begin
  <2>6. call[c].n \in 0..MaxOps
    BY <1>0 DEF TrieCallType
  <2>7. call[c].n + 1 <= MaxOps
    BY <2>5, <2>6, TrieAssumption
  <2> QED BY SMTT(30), <2>3, <2>4, <2>5, <2>7 DEF InMemory
<1>2. CASE ReadKey(c, call[c].arg)
  <2>1. CASE call[c].op = "update"
    <3>1. call'[c] = [call[c] EXCEPT !.pc = "wait", !.key = call[c].arg] /\ \A d \in Clients \ {c} : call'[d] = call[d]
      BY <1>0, <1>2, <2>1 DEF ReadKey
    <3>2. call'[c].pc = "wait" /\ call'[c].n = call[c].n /\ call'[c].op = call[c].op
      BY <1>0, <3>1 DEF TrieCallType
    <3>3. <<c, call[c].n>> \in Goroutines
      BY <1>0, <1>2 DEF ReadKey, FreshInv, Goroutines, TrieCallType
    <3>4. go'[<<c, call[c].n>>] = [go[<<c, call[c].n>>] EXCEPT !.pc = "key", !.trie = call[c].trie, !.arg = call[c].arg,
                                        !.ch = channelOf[call[c].arg], !.value = call[c].value]
          /\ \A g \in Goroutines \ {<<c, call[c].n>>} : go'[g] = go[g]
      BY <1>0, <1>2, <2>1, <3>3 DEF ReadKey
    <3>5. go'[<<c, call[c].n>>].pc = "key"
      BY <1>0, <3>3, <3>4 DEF TrieGoType
    <3> QED BY <1>2, <2>1, <3>1, <3>2, <3>3, <3>4, <3>5 DEF ReadKey
  <2>2. CASE call[c].op # "update"
    <3>1. call'[c] = [call[c] EXCEPT !.pc = "load", !.key = call[c].arg] /\ \A d \in Clients \ {c} : call'[d] = call[d]
      BY <1>0, <1>2, <2>2 DEF ReadKey
    <3>2. call'[c].pc = "load" /\ call'[c].n = call[c].n /\ call'[c].op = call[c].op
      BY <1>0, <3>1 DEF TrieCallType
    <3> QED BY <1>2, <2>2, <3>1, <3>2 DEF ReadKey, LoadedInv
  <2> QED BY <2>1, <2>2
<1>3. CASE Receive(c)
  <2>1. call'[c] = [call[c] EXCEPT !.pc = "done", !.err = Head(updateChannels[channelOf[call[c].key]])]
        /\ \A d \in Clients \ {c} : call'[d] = call[d]
    BY <1>0, <1>3 DEF Receive
  <2>2. call'[c].pc = "done" /\ call'[c].n = call[c].n /\ call'[c].op = call[c].op
    BY Zenon, <1>0, <2>1 DEF TrieCallType
  <2> QED BY <1>3, <2>1, <2>2 DEF Receive, LoadedInv
<1>4. CASE Load(c)
  <2>1. call[c].trie \in Tries /\ call[c].key \in Keys /\ call[c].op = "get"
    BY SMTT(30), <1>0, <1>4 DEF TrieCallType, Load, LoadedInv
  <2>2. ResolveErrors(root[call[c].trie], call[c].key) = {FALSE} /\ call[c].key \in root[call[c].trie].loaded
    BY Zenon, <2>1 DEF ResolveErrors, LoadedInv
  <2>3. call' = [call EXCEPT ![c] = [@ EXCEPT !.err = FALSE, !.old = root[call[c].trie],
                                              !.value = root[call[c].trie].node[call[c].key],
                                              !.pc = "done"]]
    BY <1>4, <2>1, <2>2 DEF Load
  <2>4. call'[c] = [call[c] EXCEPT !.err = FALSE, !.old = root[call[c].trie],
                                   !.value = root[call[c].trie].node[call[c].key], !.pc = "done"]
        /\ \A d \in Clients \ {c} : call'[d] = call[d]
    BY <1>0, <2>3
  <2>5. call'[c].pc = "done" /\ call'[c].n = call[c].n /\ call'[c].op = call[c].op
    BY <1>0, <2>4 DEF TrieCallType
  <2> QED BY <1>4, <2>4, <2>5 DEF Load, LoadedInv
<1>5. CASE Store(c)
  BY <1>5 DEF Store, LoadedInv
<1>6. CASE Return(c)
  <2>1. call'[c] = [call[c] EXCEPT !.pc = "idle"] /\ \A d \in Clients \ {c} : call'[d] = call[d]
    BY <1>0, <1>6 DEF Return
  <2>2. call'[c].pc = "idle" /\ call'[c].n = call[c].n /\ call'[c].op = call[c].op
    BY Zenon, <1>0, <2>1 DEF TrieCallType
  <2> QED BY <1>6, <2>1, <2>2 DEF Return, LoadedInv
<1> QED BY <1>1, <1>2, <1>3, <1>4, <1>5, <1>6 DEF Step

(* What a step of a goroutine may do: read its key, read the root, replace *)
(* the root that it has read, see that another was faster, or answer.      *)
LEMMA GoroutineStep ==
    ASSUME InMemory, Inv, NEW g \in Goroutines, GoStep(g)
    PROVE  /\ call' = call
           /\ \A h \in Goroutines \ {g} : go'[h] = go[h]
           /\ go'[g].trie = go[g].trie /\ go'[g].value = go[g].value
           /\ go[g].pc # "none" /\ go'[g].pc # "none"
           /\ \/ /\ root' = root /\ allocs' = allocs
                 /\ \/ go[g].pc = "key" /\ go'[g].pc = "load"
                    \/ /\ go[g].pc = "load" /\ go'[g].pc = "cas" /\ go'[g].key = go[g].key
                       /\ go'[g].old = root[go[g].trie]
                    \/ go[g].pc = "cas" /\ go'[g].pc = "load" /\ go'[g].key = go[g].key
                    \/ go[g].pc = "send" /\ go'[g].pc = "end"
              \/ /\ go[g].pc = "cas" /\ go'[g].pc = "send" /\ go'[g].key = go[g].key
                 /\ root[go[g].trie].ptr = go[g].old.ptr
                 /\ SetRoot(go[g].trie, insert(go[g].old, go[g].key, go[g].value))
<1> USE DEF Inv
<1>0. go \in [Goroutines -> TrieGoType] /\ go[g] \in TrieGoType
  BY DEF TrieTypeOK
<1>1. CASE UpdateKey(g, go[g].arg)
  <2>1. go'[g] = [go[g] EXCEPT !.pc = "load", !.key = go[g].arg] /\ \A h \in Goroutines \ {g} : go'[h] = go[h]
    BY <1>0, <1>1 DEF UpdateKey
  <2>2. go'[g].pc = "load" /\ go'[g].trie = go[g].trie /\ go'[g].value = go[g].value
    BY <1>0, <2>1 DEF TrieGoType
  <2> QED BY <1>1, <2>1, <2>2 DEF UpdateKey
<1>2. CASE UpdateLoad(g)
  <2>1. ResolveErrors(root[go[g].trie], go[g].key) = {FALSE}
    BY Zenon, <1>0 DEF ResolveErrors, LoadedInv, TrieGoType
  <2>2. go' = [go EXCEPT ![g] = [@ EXCEPT !.pc = "cas", !.err = FALSE, !.old = root[go[g].trie]]]
    BY <1>2, <2>1 DEF UpdateLoad
  <2>3. go'[g] = [go[g] EXCEPT !.pc = "cas", !.err = FALSE, !.old = root[go[g].trie]]
        /\ \A h \in Goroutines \ {g} : go'[h] = go[h]
    BY <1>0, <2>2
  <2>4. /\ go'[g].pc = "cas" /\ go'[g].trie = go[g].trie /\ go'[g].value = go[g].value /\ go'[g].key = go[g].key
        /\ go'[g].old = root[go[g].trie]
    BY <1>0, <2>3 DEF TrieGoType
  <2> QED BY <1>2, <2>3, <2>4 DEF UpdateLoad
<1>3. CASE UpdateCAS(g) /\ root[go[g].trie].ptr = go[g].old.ptr
  <2>1. go'[g] = [go[g] EXCEPT !.pc = "send"] /\ \A h \in Goroutines \ {g} : go'[h] = go[h]
    BY <1>0, <1>3 DEF UpdateCAS
  <2>2. go'[g].pc = "send" /\ go'[g].trie = go[g].trie /\ go'[g].value = go[g].value /\ go'[g].key = go[g].key
    BY <1>0, <2>1 DEF TrieGoType
  <2> QED BY <1>3, <2>1, <2>2 DEF UpdateCAS
<1>4. CASE UpdateCAS(g) /\ root[go[g].trie].ptr # go[g].old.ptr
  <2>1. go'[g] = [go[g] EXCEPT !.pc = "load"] /\ \A h \in Goroutines \ {g} : go'[h] = go[h]
    BY <1>0, <1>4 DEF UpdateCAS
  <2>2. go'[g].pc = "load" /\ go'[g].trie = go[g].trie /\ go'[g].value = go[g].value /\ go'[g].key = go[g].key
    BY <1>0, <2>1 DEF TrieGoType
  <2> QED BY <1>4, <2>1, <2>2 DEF UpdateCAS
<1>5. CASE UpdateSend(g)
  <2>1. go'[g] = [go[g] EXCEPT !.pc = "end"] /\ \A h \in Goroutines \ {g} : go'[h] = go[h]
    BY <1>0, <1>5 DEF UpdateSend
  <2>2. go'[g].pc = "end" /\ go'[g].trie = go[g].trie /\ go'[g].value = go[g].value
    BY <1>0, <2>1 DEF TrieGoType
  <2> QED BY <1>5, <2>1, <2>2 DEF UpdateSend
<1> QED BY <1>1, <1>2, <1>3, <1>4, <1>5 DEF GoStep, tryUpdate

(* The invariant is inductive.                                             *)
LEMMA NextInv ==
    ASSUME InMemory, Inv, [Next]_vars
    PROVE  Inv'
<1>1. CASE UNCHANGED vars
  BY <1>1 DEF vars, Inv, TrieTypeOK, LoadedInv, FreshInv, PointerInv
<1>2. ASSUME NEW c \in Clients, Begin(c) \/ Step(c) PROVE Inv'
  <2>0. TrieTypeOK /\ LoadedInv /\ FreshInv /\ PointerInv
    BY DEF Inv
  <2>1. TrieTypeOK'
    BY <1>2, TypeStep DEF Next
  <2>2. /\ root' = root /\ allocs' = allocs
        /\ call'[c].op \in {"update", "get"}
        /\ call'[c].pc # "store"
        /\ call'[c].pc = "load" => call'[c].op = "get"
        /\ \A d \in Clients \ {c} : call'[d] = call[d]
    BY Zenon, <1>2, ClientStep
  <2>3. \/ /\ go' = go
           /\ \/ call'[c].n = call[c].n /\ call'[c].pc # "key" /\ call[c].pc # "idle"
              \/ call'[c].n = call[c].n + 1 /\ call'[c].n <= MaxOps
        \/ /\ call[c].pc = "key" /\ call'[c].pc = "wait" /\ call'[c].n = call[c].n
           /\ <<c, call[c].n>> \in Goroutines
           /\ go'[<<c, call[c].n>>].pc = "key"
           /\ \A g \in Goroutines \ {<<c, call[c].n>>} : go'[g] = go[g]
    BY <1>2, ClientStep
  <2>4. LoadedInv'
    BY <2>0, <2>2 DEF LoadedInv
  <2>5. ASSUME NEW d \in Clients
        PROVE  d \in Clients /\ call[d].n \in Nat /\ call[d].n <= MaxOps
    <3>1. call[d] \in TrieCallType
      BY <2>0 DEF TrieTypeOK
    <3> QED BY <3>1, TrieAssumption DEF TrieCallType
  <2>6. FreshInv'
    <3> SUFFICES ASSUME NEW d \in Clients PROVE
          /\ call'[d].pc # "idle" => call'[d].n >= 1
          /\ call'[d].pc = "key" => go'[<<d, call'[d].n>>].pc = "none"
          /\ \A i \in 1..MaxOps : i > call'[d].n => go'[<<d, i>>].pc = "none"
      BY Zenon DEF FreshInv
    <3>1. CASE d # c
      <4>1. call'[d] = call[d]
        BY <2>2, <3>1
      <4>2. \A i \in 1..MaxOps : go'[<<d, i>>] = go[<<d, i>>]
        BY <2>3, <3>1 DEF Goroutines
      <4>3. call[d].pc = "key" => call[d].n \in 1..MaxOps
        <5>1. call[d].pc = "key" => call[d].n >= 1
          BY Zenon, <2>0 DEF FreshInv
        <5> QED BY <2>5, <5>1, TrieAssumption
      <4> QED BY <2>0, <4>1, <4>2, <4>3 DEF FreshInv
    <3>2. CASE d = c /\ go' = go /\ call'[c].n = call[c].n /\ call'[c].pc # "key" /\ call[c].pc # "idle"
      BY <2>0, <3>2 DEF FreshInv
    <3>3. CASE d = c /\ go' = go /\ call'[c].n = call[c].n + 1 /\ call'[c].n <= MaxOps
      <4>1. call[c].n \in Nat /\ call'[c].n \in 1..MaxOps /\ call'[c].n > call[c].n
        BY <2>5, <3>3, TrieAssumption
      <4>2. \A i \in 1..MaxOps : i > call'[c].n => i > call[c].n
        BY <4>1, <3>3
      <4>3. \A i \in 1..MaxOps : i > call[c].n => go[<<c, i>>].pc = "none"
        BY Zenon, <2>0 DEF FreshInv
      <4>4. call'[c].n >= 1 /\ go[<<c, call'[c].n>>].pc = "none"
        BY <4>1, <4>3, TrieAssumption
      <4>5. \A i \in 1..MaxOps : i > call'[c].n => go[<<c, i>>].pc = "none"
        BY <4>2, <4>3
      <4> QED BY <3>3, <4>4, <4>5
    <3>4. CASE /\ d = c /\ call[c].pc = "key" /\ call'[c].pc = "wait" /\ call'[c].n = call[c].n
               /\ \A g \in Goroutines \ {<<c, call[c].n>>} : go'[g] = go[g]
      <4>1. \A i \in 1..MaxOps : i > call[c].n => go'[<<c, i>>] = go[<<c, i>>]
        BY <2>5, <3>4 DEF Goroutines
      <4> QED BY ZenonT(40), <2>0, <3>4, <4>1 DEF FreshInv
    <3> QED BY <2>3, <3>1, <3>2, <3>3, <3>4
  <2>7. PointerInv'
    <3>1. \A g \in Goroutines : go'[g].pc = "cas" => go'[g] = go[g]
      BY <2>3
    <3> QED BY <2>0, <2>2, <3>1 DEF PointerInv
  <2> QED BY <2>1, <2>4, <2>6, <2>7 DEF Inv
<1>3. ASSUME NEW g \in Goroutines, GoStep(g) PROVE Inv'
  <2>0. TrieTypeOK /\ LoadedInv /\ FreshInv /\ PointerInv
    BY DEF Inv
  <2>1. TrieTypeOK'
    BY <1>3, TypeStep DEF Next
  <2>2. FreshInv'
    <3> SUFFICES ASSUME NEW d \in Clients PROVE
          /\ call'[d].pc # "idle" => call'[d].n >= 1
          /\ call'[d].pc = "key" => go'[<<d, call'[d].n>>].pc = "none"
          /\ \A i \in 1..MaxOps : i > call'[d].n => go'[<<d, i>>].pc = "none"
      BY Zenon DEF FreshInv
    <3>1. call'[d] = call[d] /\ call[d].n \in 0..MaxOps /\ MaxOps \in Nat
      BY Zenon, <1>3, <2>0, GoroutineStep, TrieAssumption DEF TrieTypeOK, TrieCallType
    <3>2. \A h \in Goroutines : go[h].pc = "none" => go'[h] = go[h]
      BY <1>3, GoroutineStep
    <3>3. call[d].pc = "key" => <<d, call[d].n>> \in Goroutines
      BY <2>0, <3>1 DEF FreshInv, Goroutines
    <3> QED BY <2>0, <3>1, <3>2, <3>3 DEF FreshInv, Goroutines
  <2>3. CASE root' = root /\ allocs' = allocs
    <3>1. LoadedInv'
      BY <1>3, <2>0, <2>3, GoroutineStep DEF LoadedInv
    <3>2. PointerInv'
      <4> SUFFICES ASSUME NEW h \in Goroutines, go'[h].pc = "cas" PROVE
            /\ go'[h].old.ptr <= allocs
            /\ go'[h].old.loaded = Keys
            /\ go'[h].old.ptr = root[go'[h].trie].ptr => go'[h].old.node = root[go'[h].trie].node
        BY Zenon, <2>0, <2>3 DEF PointerInv
      <4>1. CASE h # g
        BY <1>3, <2>0, <4>1, GoroutineStep DEF PointerInv
      <4>2. CASE h = g
        <5>1. go'[g].old = root[go[g].trie] /\ go'[g].trie = go[g].trie /\ go[g].trie \in Tries
          BY <1>3, <2>0, <4>2, GoroutineStep DEF TrieTypeOK, TrieGoType
        <5> QED BY Zenon, <2>0, <4>2, <5>1 DEF PointerInv, LoadedInv
      <4> QED BY <4>1, <4>2
    <3> QED BY Zenon, <2>1, <2>2, <3>1, <3>2 DEF Inv
  <2>4. CASE ~(root' = root /\ allocs' = allocs)
    <3>1. /\ go[g].pc = "cas" /\ go'[g].pc = "send" /\ call' = call
          /\ SetRoot(go[g].trie, insert(go[g].old, go[g].key, go[g].value))
      BY Zenon, <1>3, <2>4, GoroutineStep
    <3>2. go[g] \in TrieGoType /\ go[g].old \in Root /\ go[g].old.loaded = Keys /\ go[g].key \in Keys /\ go[g].trie \in Tries
      BY <2>0, <3>1 DEF TrieTypeOK, TrieGoType, PointerInv
    <3> DEFINE new == [insert(go[g].old, go[g].key, go[g].value) EXCEPT !.ptr = allocs + 1]
    <3>3. new.loaded = Keys /\ new.ptr = allocs + 1
      BY <3>2 DEF insert, Root
    <3>4. root' = [root EXCEPT ![go[g].trie] = new] /\ allocs' = allocs + 1
      BY <3>1 DEF SetRoot
    <3> HIDE DEF new
    <3>5. \A tr \in Tries : root'[tr] = IF tr = go[g].trie THEN new ELSE root[tr]
      BY <2>0, <3>4 DEF TrieTypeOK
    <3>6. LoadedInv'
      BY <2>0, <3>1, <3>3, <3>5 DEF LoadedInv
    <3>7. allocs \in Nat /\ \A tr \in Tries : root[tr].ptr \in Nat
      BY <2>0 DEF TrieTypeOK, Root
    <3>8. \A tr \in Tries : root'[tr].ptr <= allocs'
      BY <2>0, <3>3, <3>4, <3>5, <3>7 DEF PointerInv
    <3>9. ASSUME NEW h \in Goroutines, go'[h].pc = "cas" PROVE
            /\ go'[h].old.ptr <= allocs'
            /\ go'[h].old.loaded = Keys
            /\ go'[h].old.ptr = root'[go'[h].trie].ptr => go'[h].old.node = root'[go'[h].trie].node
      <4>1. h # g /\ go'[h] = go[h] /\ go[h].trie \in Tries /\ go[h].old.ptr \in Nat
        BY Zenon, <1>3, <2>0, <3>1, <3>9, GoroutineStep DEF TrieTypeOK, TrieGoType, Root
      <4>2. go[h].old.ptr <= allocs /\ go[h].old.loaded = Keys
        BY <2>0, <3>9, <4>1 DEF PointerInv
      <4>3. CASE go[h].trie = go[g].trie
        BY <3>3, <3>4, <3>5, <3>7, <4>1, <4>2, <4>3
      <4>4. CASE go[h].trie # go[g].trie
        BY <2>0, <3>4, <3>5, <3>7, <3>9, <4>1, <4>2, <4>4 DEF PointerInv
      <4> QED BY Zenon, <4>3, <4>4
    <3>10. PointerInv'
      BY <3>8, <3>9 DEF PointerInv
    <3> QED BY <2>1, <2>2, <3>6, <3>10 DEF Inv
  <2> QED BY <2>3, <2>4
<1> QED BY Zenon, <1>1, <1>2, <1>3 DEF Next

(* The invariant holds of every reachable state: with every node in memory *)
(* a pointer identifies a content, which is what the compare-and-swap of   *)
(* tryUpdate relies on, and a goroutine is started at most once.           *)
THEOREM PointersIdentifyContents ==
    ASSUME InMemory
    PROVE  Spec => []Inv
<1>1. Init => Inv
  BY InitInv
<1>2. Inv /\ [Next]_vars => Inv'
  BY NextInv
<1> QED BY <1>1, <1>2, PTL DEF Spec

-----------------------------------------------------------------------------
(* Without TryDelete the updates under way are those of the goroutines.    *)
LEMMA PendingUpdates ==
    ASSUME Inv
    PROVE  Pending = {UpdateOf(g, go[g]) : g \in Updating}
<1>1. Deleting = {}
  BY DEF Deleting, Inv, LoadedInv
<1> QED BY <1>1 DEF Pending

(* What the trie's pending updates become is decided by what changes in    *)
(* the goroutines that have read their keys.                               *)
LEMMA PendingKept ==
    ASSUME Inv, Inv', Updating' = Updating,
           \A g \in Updating : UpdateOf(g, go[g])' = UpdateOf(g, go[g])
    PROVE  Pending' = Pending
<1>1. Pending = {UpdateOf(g, go[g]) : g \in Updating}
  BY PendingUpdates
<1>2. Pending' = {UpdateOf(g, go[g])' : g \in Updating'}
  <2>1. Deleting' = {}
    BY DEF Deleting, Inv, LoadedInv
  <2> QED BY <2>1 DEF Pending
<1> QED BY <1>1, <1>2

(* A step of a client leaves the contents and the pending updates alone.   *)
LEMMA ClientStutters ==
    ASSUME InMemory, Inv, Inv', NEW c \in Clients, Begin(c) \/ Step(c)
    PROVE  UNCHANGED Atomic!vars
<1>1. root' = root
  BY Zenon, ClientStep
<1>2. \/ go' = go
      \/ /\ call[c].pc = "key" /\ <<c, call[c].n>> \in Goroutines
         /\ go'[<<c, call[c].n>>].pc = "key"
         /\ \A g \in Goroutines \ {<<c, call[c].n>>} : go'[g] = go[g]
  BY Zenon, ClientStep
<1>3. call[c].pc = "key" => go[<<c, call[c].n>>].pc = "none"
  BY DEF Inv, FreshInv
<1>4. \A g \in Goroutines : go'[g] = go[g] \/ (go[g].pc = "none" /\ go'[g].pc = "key")
  BY <1>2, <1>3
<1>5. Updating' = Updating /\ \A g \in Updating : go'[g] = go[g]
  BY <1>4 DEF Updating
<1>6. Pending' = Pending
  BY Zenon, <1>5, PendingKept DEF UpdateOf
<1> QED BY <1>1, <1>6 DEF Atomic!vars

(* A step of a goroutine begins its update, applies it or changes nothing. *)
LEMMA GoroutineRefines ==
    ASSUME InMemory, Inv, Inv', NEW g \in Goroutines, GoStep(g)
    PROVE  [Atomic!Next]_(Atomic!vars)
<1>0. /\ \A h \in Goroutines \ {g} : go'[h] = go[h]
      /\ go'[g].trie = go[g].trie /\ go'[g].value = go[g].value
  BY GoroutineStep
<1>1. Pending = {UpdateOf(h, go[h]) : h \in Updating}
  BY PendingUpdates
<1>2. Pending' = {UpdateOf(h, go[h])' : h \in Updating'}
  <2>1. Deleting' = {}
    BY DEF Deleting, Inv, LoadedInv
  <2> QED BY Zenon, <2>1 DEF Pending
<1>3. go[g] \in TrieGoType /\ go'[g] \in TrieGoType
  BY DEF Inv, TrieTypeOK
<1>4. UpdateOf(g, go[g]) \in Atomic!Update /\ UpdateOf(g, go'[g]) \in Atomic!Update
  BY <1>3 DEF UpdateOf, Atomic!Update, TrieGoType
<1>5. CASE root' = root /\ go[g].pc = "key" /\ go'[g].pc = "load"
  <2>1. Updating' = Updating \cup {g} /\ g \notin Updating
    BY <1>0, <1>5 DEF Updating
  <2>2. Pending' = Pending \cup {UpdateOf(g, go'[g])}
    <3>1. \A h \in Updating : UpdateOf(h, go[h])' = UpdateOf(h, go[h])
      BY <1>0, <2>1 DEF UpdateOf, Updating
    <3>2. UpdateOf(g, go[g])' = UpdateOf(g, go'[g])
      BY DEF UpdateOf
    <3> QED BY Zenon, <1>1, <1>2, <2>1, <3>1, <3>2
  <2>3. \A w \in Pending : w.id # UpdateOf(g, go'[g]).id
    BY <1>1, <2>1 DEF UpdateOf
  <2>4. Atomic!Begin(UpdateOf(g, go'[g]))
    BY <1>5, <2>2, <2>3 DEF Atomic!Begin
  <2> QED BY <1>4, <2>4 DEF Atomic!Next
<1>6. CASE /\ root' = root /\ go'[g].key = go[g].key
           /\ go[g].pc \in {"load", "cas"} /\ go'[g].pc \in {"load", "cas"}
  <2>1. Updating' = Updating
    BY SMTT(30), <1>0, <1>6 DEF Updating
  <2>2. \A h \in Updating : UpdateOf(h, go[h])' = UpdateOf(h, go[h])
    BY <1>0, <1>6 DEF UpdateOf, Updating
  <2> QED BY <1>6, <2>1, <2>2, PendingKept DEF Atomic!vars
<1>7. CASE root' = root /\ go[g].pc = "send" /\ go'[g].pc = "end"
  <2>1. Updating' = Updating /\ g \notin Updating
    BY <1>0, <1>7 DEF Updating
  <2>2. \A h \in Updating : UpdateOf(h, go[h])' = UpdateOf(h, go[h])
    BY <1>0, <2>1 DEF UpdateOf, Updating
  <2> QED BY <1>7, <2>1, <2>2, PendingKept DEF Atomic!vars
<1>8. CASE /\ go[g].pc = "cas" /\ go'[g].pc = "send"
           /\ root[go[g].trie].ptr = go[g].old.ptr
           /\ SetRoot(go[g].trie, insert(go[g].old, go[g].key, go[g].value))
  <2> DEFINE u == UpdateOf(g, go[g])
             map == [tr \in Tries |-> root[tr].node]
  <2>1. Updating' = Updating \ {g} /\ g \in Updating
    BY <1>0, <1>8 DEF Updating
  <2>2. u \in Pending
    BY <1>1, <2>1
  <2>3. \A h \in Updating : UpdateOf(h, go[h]) = u => h = g
    BY DEF UpdateOf
  <2>4. Pending' = Pending \ {u}
    <3>1. \A h \in Updating' : UpdateOf(h, go[h])' = UpdateOf(h, go[h])
      BY Zenon, <1>0, <2>1 DEF UpdateOf, Updating
    <3> QED BY SMTT(30), <1>1, <1>2, <2>1, <2>3, <3>1
  <2>5. /\ go[g].trie \in Tries /\ go[g].key \in Keys /\ go[g].old \in Root
        /\ go[g].old.node = root[go[g].trie].node
    BY <1>3, <1>8 DEF TrieGoType, Inv, PointerInv
  <2>6. root \in [Tries -> Root]
    BY Zenon DEF Inv, TrieTypeOK
  <2>7. \A tr \in Tries : root'[tr].node =
           IF tr = go[g].trie THEN [root[tr].node EXCEPT ![go[g].key] = go[g].value] ELSE root[tr].node
    <3> DEFINE new == [insert(go[g].old, go[g].key, go[g].value) EXCEPT !.ptr = allocs + 1]
    <3>1. new.node = [go[g].old.node EXCEPT ![go[g].key] = go[g].value]
      BY <2>5 DEF insert, Root
    <3>2. root' = [root EXCEPT ![go[g].trie] = new]
      BY SMTT(30), <1>8 DEF SetRoot
    <3> HIDE DEF new
    <3> QED BY <2>5, <2>6, <3>1, <3>2
  <2>8. map' = [map EXCEPT ![go[g].trie] = [@ EXCEPT ![go[g].key] = go[g].value]]
    BY ZenonT(40), <2>5, <2>7
  <2>9. u.trie = go[g].trie /\ u.key = go[g].key /\ u.value = go[g].value
    BY DEF UpdateOf
  <2>10. map' = [map EXCEPT ![u.trie] = [@ EXCEPT ![u.key] = u.value]]
    BY <2>8, <2>9
  <2>11. PICK w \in Atomic!Update : w = u
    BY Zenon, <1>4
  <2>12. Atomic!Apply(w)
    BY <2>2, <2>4, <2>10, <2>11 DEF Atomic!Apply
  <2> QED BY <2>12 DEF Atomic!Next
<1> QED BY Zenon, <1>5, <1>6, <1>7, <1>8, GoroutineStep

(* Tries are atomic for any number of clients, tries, keys and values when *)
(* all nodes are in memory and the callers use TryUpdate and TryGet: each  *)
(* tryUpdate takes effect exactly once, at its compare-and-swap, and no    *)
(* update of another goroutine is lost.                                    *)
THEOREM UpdatesAreAtomicInMemory ==
    ASSUME InMemory
    PROVE  Spec => UpdatesAreAtomic
<1>1. Init => Atomic!Init
  <2> SUFFICES ASSUME Init PROVE Atomic!Init
    OBVIOUS
  <2>1. Inv
    BY InitInv
  <2>2. [tr \in Tries |-> root[tr].node] \in [Tries -> [Keys -> Values]]
    BY Zenon, <2>1 DEF Inv, TrieTypeOK, Root, Node
  <2>3. Updating = {}
    BY DEF Updating, Init
  <2>4. Pending = {}
    BY <2>1, <2>3, PendingUpdates
  <2> QED BY <2>2, <2>4 DEF Atomic!Init
<1>2. Inv /\ Inv' /\ [Next]_vars => [Atomic!Next]_(Atomic!vars)
  <2>1. CASE UNCHANGED vars
    <3>1. UNCHANGED Atomic!vars
      BY <2>1 DEF vars, Atomic!vars, Pending, Updating, Deleting, UpdateOf
    <3> QED BY SMTT(30), <3>1
  <2>2. ASSUME Inv, Inv', NEW c \in Clients, Begin(c) \/ Step(c) PROVE [Atomic!Next]_(Atomic!vars)
    BY <2>2, ClientStutters
  <2>3. ASSUME Inv, Inv', NEW g \in Goroutines, GoStep(g) PROVE [Atomic!Next]_(Atomic!vars)
    BY <2>3, GoroutineRefines
  <2> QED BY <2>1, <2>2, <2>3 DEF Next
<1>3. Spec => []Inv
  BY PointersIdentifyContents
<1> QED BY <1>1, <1>2, <1>3, PTL DEF Spec, UpdatesAreAtomic, Atomic!Spec

-----------------------------------------------------------------------------
(* Writers of SecureTries.                                                 *)

(* Where a call and a goroutine may be.                                    *)
Pcs == {"idle", "lock", "hash", "uncache", "key", "wait", "load", "store", "done"}

CallType ==
    [pc : Pcs, n : 0..MaxOps, op : AllOps, trie : Tries,
     arg : Keys, key : Keys, value : Values, old : Root, err : BOOLEAN]

GoPcs == {"none", "key", "load", "cas", "send", "end"}

GoType ==
    [pc : GoPcs, trie : Tries, arg : Keys, key : Keys,
     ch : Channels, value : Values, old : Root, err : BOOLEAN]

(* The variables have their types.                                         *)
TypeOK ==
    /\ root \in [Tries -> Root]
    /\ allocs \in Nat
    /\ updateChannels \in [Channels -> Seq(BOOLEAN)]
    /\ call \in [Clients -> CallType]
    /\ go \in [Goroutines -> GoType]

-----------------------------------------------------------------------------
(* The callers of a SecureTrie that hold its lock.                         *)
Writers == SecureOps \subseteq {"update", "delete", "Delete", "commit"}

(* And those that SecureTrie adds.                                         *)
SecureTypeOK ==
    /\ TypeOK
    /\ secureTrieLock \in Clients \cup {NoClient}
    /\ hashKeyBuf \in [Tries -> Keys]
    /\ DOMAIN secKeyCache = Tries

(* Between its lock and its unlock a call is alone.                        *)
Outside == {"idle", "lock"}

LockInv == \A c \in Clients : call[c].pc \notin Outside => secureTrieLock = c

(* The buffer holds the key of the call that has hashed it.                *)
Hashed(x) == x.pc \in {"uncache", "key", "wait"} \/ (x.pc \in {"load", "store", "done"} /\ x.op # "commit")

(* What a call has read, from the buffer or from the trie, still holds.    *)
CallInv(c) ==
    /\ call[c].pc # "idle" => call[c].n >= 1 /\ call[c].op \in {"update", "delete", "commit"}
    /\ call[c].op # "update" => call[c].value = NoValue
    /\ call[c].pc \in {"hash", "key"} => call[c].op # "commit"
    /\ call[c].pc = "uncache" => call[c].op = "delete"
    /\ call[c].pc = "wait" => call[c].op = "update"
    /\ call[c].pc \in {"load", "store"} => call[c].op # "update"
    /\ Hashed(call[c]) => hashKeyBuf[call[c].trie] = call[c].arg
    /\ Hashed(call[c]) /\ call[c].pc \notin {"uncache", "key"} => call[c].key = call[c].arg
    /\ call[c].pc = "store" => call[c].old = root[call[c].trie]

(* The goroutine of a call: not started, at work while the call waits, and *)
(* over, its answer in the channel or in the call.                         *)
Own(c) == go[<<c, call[c].n>>]

WaitInv(c) ==
    /\ call[c].pc = "wait" =>
          /\ Own(c).pc # "none" /\ Own(c).trie = call[c].trie /\ Own(c).arg = call[c].arg
          /\ Own(c).value = call[c].value /\ Own(c).ch = channelOf[call[c].key]
          /\ Own(c).pc = "cas" => Own(c).old = root[call[c].trie]
          /\ Own(c).pc = "end" => updateChannels[channelOf[call[c].key]] = <<Own(c).err>>
    /\ call[c].op = "update" /\ call[c].pc \in {"done", "idle"} /\ call[c].n > 0 =>
          Own(c).pc = "end" /\ Own(c).err = call[c].err
    /\ call[c].pc \in {"lock", "hash", "uncache", "key"} => Own(c).pc = "none"

(* A goroutine is started once, and at work only while its call waits.     *)
GoInv(c) ==
    \A i \in 1..MaxOps :
        /\ i > call[c].n => go[<<c, i>>].pc = "none"
        /\ go[<<c, i>>].pc \in {"none", "end"} \/ (i = call[c].n /\ call[c].pc = "wait")
        /\ go[<<c, i>>].pc \in {"load", "cas", "send", "end"} => go[<<c, i>>].key = go[<<c, i>>].arg

ClientInv(c) == CallInv(c) /\ WaitInv(c) /\ GoInv(c)

(* What is in a channel is the answer to the call that waits.              *)
ChannelInv ==
    \A ch \in Channels : updateChannels[ch] # << >> =>
        \E c \in Clients : call[c].pc = "wait" /\ channelOf[call[c].key] = ch /\ Own(c).pc = "end"

(* The inductive invariant.                                                *)
SecureInv ==
    /\ SecureTypeOK /\ LockInv /\ ChannelInv /\ PreimagesAreExact
    /\ \A c \in Clients : ClientInv(c)

-----------------------------------------------------------------------------
(* All that a step does not change in a call, and in a goroutine.          *)
SameCall(y, x) ==
    /\ y.n = x.n /\ y.op = x.op /\ y.trie = x.trie /\ y.arg = x.arg /\ y.key = x.key
    /\ y.value = x.value /\ y.old = x.old /\ y.err = x.err

SameGo(y, x) == y.trie = x.trie /\ y.arg = x.arg /\ y.ch = x.ch /\ y.value = x.value

(* A step that changes where a call is, and nothing else in it.            *)
LEMMA Moved ==
    ASSUME TypeOK, NEW c \in Clients, NEW p \in Pcs,
           call' = [call EXCEPT ![c] = [@ EXCEPT !.pc = p]]
    PROVE  /\ call' \in [Clients -> CallType]
           /\ call'[c].pc = p
           /\ SameCall(call'[c], call[c])
           /\ \A d \in Clients \ {c} : call'[d] = call[d]
<1>1. call \in [Clients -> CallType] /\ call[c] \in CallType
  BY DEF TypeOK
<1>2. [call[c] EXCEPT !.pc = p] \in CallType
  BY Zenon, <1>1 DEF CallType
<1>3. call'[c] = [call[c] EXCEPT !.pc = p] /\ \A d \in Clients \ {c} : call'[d] = call[d]
  BY <1>1
<1>4. call'[c].pc = p /\ SameCall(call'[c], call[c])
  BY <1>1, <1>3 DEF CallType, SameCall
<1>5. call' \in [Clients -> CallType]
  BY <1>1, <1>2
<1> QED BY <1>3, <1>4, <1>5

(* A step of a call, or of its goroutine, is not seen by the calls outside *)
(* the lock, and a step that changes nothing shared by none of the others. *)
LEMMA OthersKept ==
    ASSUME SecureInv, NEW d \in Clients, call'[d] = call[d],
           \A i \in 1..MaxOps : go'[<<d, i>>] = go[<<d, i>>],
           \/ call[d].pc \in Outside
           \/ UNCHANGED <<root, updateChannels, hashKeyBuf>>
    PROVE  ClientInv(d)'
<1>1. ClientInv(d) /\ call[d] \in CallType
  BY Zenon DEF SecureInv, SecureTypeOK, TypeOK
<1>2. call[d].n \in 0..MaxOps /\ (call[d].pc # "idle" => call[d].n >= 1)
  BY <1>1 DEF CallType, ClientInv, CallInv
<1>3. call[d].n > 0 => call[d].n \in 1..MaxOps
  BY <1>2, TrieAssumption
<1>4. call[d].n > 0 => Own(d)' = Own(d)
  BY <1>3 DEF Own
<1>5. GoInv(d)'
  BY Zenon, <1>1 DEF ClientInv, GoInv
<1>6. call[d].pc # "idle" => call[d].n > 0
  BY <1>2
<1>7. CASE call[d].pc \in Outside
  <2>1. CallInv(d)'
    BY Zenon, <1>1, <1>7 DEF ClientInv, CallInv, Hashed, Outside
  <2>2. WaitInv(d)'
    BY Zenon, <1>1, <1>4, <1>6, <1>7 DEF ClientInv, WaitInv, Outside
  <2> QED BY Zenon, <1>5, <2>1, <2>2 DEF ClientInv
<1>8. CASE UNCHANGED <<root, updateChannels, hashKeyBuf>>
  <2>1. CallInv(d)'
    BY Zenon, <1>1, <1>8 DEF ClientInv, CallInv
  <2>2. WaitInv(d)'
    BY Zenon, <1>1, <1>4, <1>6, <1>8 DEF ClientInv, WaitInv
  <2> QED BY <1>5, <2>1, <2>2 DEF ClientInv
<1> QED BY Zenon, <1>7, <1>8

(* While a call is inside the lock, the others are outside it.             *)
LEMMA Alone ==
    ASSUME SecureInv, NEW c \in Clients, call[c].pc \notin Outside, NEW d \in Clients \ {c}
    PROVE  call[d].pc \in Outside
BY DEF SecureInv, LockInv

(* The channels are empty while no call waits.                             *)
LEMMA NoAnswer ==
    ASSUME SecureInv, NEW c \in Clients, call[c].pc \notin Outside \cup {"wait"}, NEW ch \in Channels
    PROVE  updateChannels[ch] = << >>
BY Alone DEF SecureInv, ChannelInv, Outside

(* What a step of a call, or of its goroutine, has to keep.                *)
LEMMA Assembled ==
    ASSUME SecureInv, NEW c \in Clients,
           SecureTypeOK', LockInv', ChannelInv', PreimagesAreExact', ClientInv(c)',
           \A d \in Clients \ {c} : call'[d] = call[d] /\ \A i \in 1..MaxOps : go'[<<d, i>>] = go[<<d, i>>],
           call[c].pc \notin Outside \/ UNCHANGED <<root, updateChannels, hashKeyBuf>>
    PROVE  SecureInv'
<1>1. ASSUME NEW d \in Clients \ {c} PROVE ClientInv(d)'
  <2>1. call[d].pc \in Outside \/ UNCHANGED <<root, updateChannels, hashKeyBuf>>
    BY Zenon, Alone
  <2> QED BY <2>1, OthersKept
<1> QED BY <1>1 DEF SecureInv

-----------------------------------------------------------------------------
(* A writer first waits for the lock.                                      *)
LEMMA Calls ==
    ASSUME Writers, SecureInv, NEW c \in Clients, Call(c)
    PROVE  /\ call' \in [Clients -> CallType] /\ \A d \in Clients \ {c} : call'[d] = call[d]
           /\ call'[c].pc = "lock" /\ call'[c].op \in {"update", "delete", "commit"}
           /\ call'[c].n = call[c].n + 1 /\ call[c].n + 1 \in 1..MaxOps
           /\ call'[c].op # "update" => call'[c].value = NoValue
<1>1. call \in [Clients -> CallType] /\ call[c] \in CallType /\ call[c].n < MaxOps
  BY DEF SecureInv, SecureTypeOK, TypeOK, Call
<1>2. PICK op \in SecureOps, tr \in Tries, k \in Keys, v \in Values :
        /\ op # "update" => v = NoValue
        /\ want' = [want EXCEPT ![c] = Locks(op)]
        /\ call' = [call EXCEPT ![c] = [@ EXCEPT !.pc = IF Locks(op) > 0 THEN "lock" ELSE Entry(op),
                        !.op = IF op = "Delete" THEN "delete" ELSE op,
                        !.n = call[c].n + 1, !.trie = tr, !.arg = k, !.value = v, !.err = FALSE]]
  BY ZenonT(40) DEF Call
<1> DEFINE op2 == IF op = "Delete" THEN "delete" ELSE op
<1>3. Locks(op) > 0 /\ op2 \in {"update", "delete", "commit"} /\ (op2 # "update" => v = NoValue)
  BY <1>2 DEF Locks, Writers
<1>4. call[c].n + 1 \in 1..MaxOps
  BY <1>1, TrieAssumption DEF CallType
<1> DEFINE x == [call[c] EXCEPT !.pc = "lock", !.op = op2, !.n = call[c].n + 1, !.trie = tr, !.arg = k,
                                !.value = v, !.err = FALSE]
<1>5. call' = [call EXCEPT ![c] = x]
  <2>1. (IF Locks(op) > 0 THEN "lock" ELSE Entry(op)) = "lock"
    BY <1>3
  <2> QED BY Zenon, <1>2, <2>1
<1>6. op2 \in AllOps /\ call[c].n + 1 \in 0..MaxOps
  BY <1>3, <1>4 DEF AllOps
<1> HIDE DEF op2
<1>7. x \in CallType
  BY Zenon, <1>1, <1>6 DEF CallType, Pcs
<1>8. x.pc = "lock" /\ x.op = op2 /\ x.n = call[c].n + 1 /\ x.value = v
  BY <1>1 DEF CallType
<1> HIDE DEF x
<1>9. call' \in [Clients -> CallType] /\ call'[c] = x /\ \A d \in Clients \ {c} : call'[d] = call[d]
  BY Zenon, <1>1, <1>5, <1>7
<1> QED BY Zenon, <1>3, <1>4, <1>8, <1>9

(* A client calls an operation.                                            *)
LEMMA CallKeeps ==
    ASSUME Writers, SecureInv, NEW c \in Clients, Call(c)
    PROVE  SecureInv'
<1>0. call[c] \in CallType /\ ClientInv(c) /\ SecureTypeOK /\ LockInv /\ ChannelInv /\ PreimagesAreExact
  BY DEF SecureInv, SecureTypeOK, TypeOK
<1>1. UNCHANGED <<root, allocs, updateChannels, go, secureTrieLock, hashKeyBuf, secKeyCache, preimages>>
      /\ call[c].pc = "idle"
  BY Zenon DEF Call
<1>2. /\ call' \in [Clients -> CallType] /\ \A d \in Clients \ {c} : call'[d] = call[d]
      /\ call'[c].pc = "lock" /\ call'[c].op \in {"update", "delete", "commit"}
      /\ call'[c].n = call[c].n + 1 /\ call[c].n + 1 \in 1..MaxOps
      /\ call'[c].op # "update" => call'[c].value = NoValue
  BY Zenon, Calls
<1>3. SecureTypeOK'
  BY <1>0, <1>1, <1>2 DEF SecureTypeOK, TypeOK
<1>4. LockInv'
  BY Zenon, <1>0, <1>1, <1>2 DEF LockInv, Outside
<1>5. ChannelInv'
  <2>1. \A d \in Clients : call[d].pc = "wait" => call'[d] = call[d] /\ Own(d)' = Own(d)
    BY <1>1, <1>2 DEF Own
  <2> QED BY <1>0, <1>1, <2>1 DEF ChannelInv
<1>6. PreimagesAreExact'
  BY <1>0, <1>1 DEF PreimagesAreExact
<1>7. \A i \in 1..MaxOps : i > call[c].n => go[<<c, i>>].pc = "none"
  BY Zenon, <1>0 DEF ClientInv, GoInv
<1>8. Own(c)'.pc = "none"
  BY <1>0, <1>1, <1>2, <1>7 DEF Own, CallType
<1>9. CallInv(c)'
  BY <1>0, <1>2 DEF CallInv, Hashed, CallType
<1>10. WaitInv(c)'
  BY Zenon, <1>2, <1>8 DEF WaitInv
<1>11. GoInv(c)'
  <2>1. \A i \in 1..MaxOps : i > call[c].n + 1 => i > call[c].n
    BY <1>0 DEF CallType
  <2>2. \A i \in 1..MaxOps : go[<<c, i>>].pc \in {"none", "end"}
                             /\ (go[<<c, i>>].pc = "end" => go[<<c, i>>].key = go[<<c, i>>].arg)
    BY Zenon, <1>0, <1>1 DEF ClientInv, GoInv
  <2> QED BY <1>1, <1>2, <1>7, <2>1, <2>2 DEF GoInv
<1> QED BY <1>1, <1>2, <1>3, <1>4, <1>5, <1>6, <1>9, <1>10, <1>11, Assembled DEF ClientInv

(* A step that moves a call, and neither a root nor a goroutine nor a      *)
(* channel: what is left to show of it.                                    *)
LEMMA MoveKeeps ==
    ASSUME SecureInv, NEW c \in Clients, NEW p \in Pcs \ {"wait"}, call[c].pc # "wait",
           call' = [call EXCEPT ![c] = [@ EXCEPT !.pc = p]],
           UNCHANGED <<root, allocs, updateChannels, go>>,
           secureTrieLock' \in Clients \cup {NoClient}, hashKeyBuf' \in [Tries -> Keys], DOMAIN secKeyCache' = Tries,
           LockInv', PreimagesAreExact', CallInv(c)',
           p \in {"lock", "hash", "uncache", "key"} => call[c].pc \in {"lock", "hash", "uncache", "key"},
           p \in {"done", "idle"} => call[c].pc \in {"done", "idle"} \/ call[c].op # "update",
           call[c].pc \notin Outside \/ hashKeyBuf' = hashKeyBuf
    PROVE  SecureInv'
<1>0. TypeOK /\ ClientInv(c) /\ ChannelInv
  BY DEF SecureInv, SecureTypeOK
<1>1. /\ call' \in [Clients -> CallType]
      /\ call'[c].pc = p
      /\ SameCall(call'[c], call[c])
      /\ \A d \in Clients \ {c} : call'[d] = call[d]
  BY Zenon, <1>0, Moved
<1>2. SecureTypeOK'
  BY <1>0, <1>1 DEF SecureTypeOK, TypeOK
<1>3. ChannelInv'
  <2>1. \A d \in Clients : call[d].pc = "wait" => call'[d] = call[d] /\ Own(d)' = Own(d)
    BY <1>1 DEF Own
  <2> QED BY <1>0, <2>1 DEF ChannelInv
<1>4. Own(c)' = Own(c)
  BY <1>1 DEF Own, SameCall
<1>5. WaitInv(c)'
  BY <1>0, <1>1, <1>4 DEF ClientInv, WaitInv, SameCall
<1>6. GoInv(c)'
  BY <1>0, <1>1 DEF ClientInv, GoInv, SameCall
<1> QED BY <1>1, <1>2, <1>3, <1>5, <1>6, Assembled DEF ClientInv

(* secureTrieLock.Lock(): no call is inside.                               *)
LEMMA LockKeeps ==
    ASSUME SecureInv, NEW c \in Clients, Lock(c)
    PROVE  SecureInv'
<1>0. SecureTypeOK /\ TypeOK /\ CallInv(c) /\ LockInv /\ PreimagesAreExact
  BY DEF SecureInv, SecureTypeOK, ClientInv
<1> DEFINE p == IF want[c] = 1 THEN Entry(call[c].op) ELSE "lock"
<1>1. call[c].pc = "lock" /\ secureTrieLock = NoClient /\ secureTrieLock' = c
      /\ UNCHANGED <<root, allocs, updateChannels, go, hashKeyBuf>>
  BY Zenon DEF Lock
<1>2. call' = [call EXCEPT ![c] = [@ EXCEPT !.pc = p]]
  <2>1. call' = [call EXCEPT ![c] = [@ EXCEPT !.pc = IF want[c] = 1 THEN Entry(call[c].op) ELSE call[c].pc]]
    BY Zenon DEF Lock
  <2>2. (IF want[c] = 1 THEN Entry(call[c].op) ELSE call[c].pc) = p
    BY Zenon, <1>1
  <2> QED BY Zenon, <2>1, <2>2
<1>3. p \in {"lock", "hash", "load"} /\ (p = "load" => call[c].op = "commit") /\ (p = "hash" => call[c].op # "commit")
  BY <1>0, <1>1 DEF Entry, CallInv
<1> HIDE DEF p
<1>4. /\ call'[c].pc = p
      /\ SameCall(call'[c], call[c])
      /\ \A d \in Clients \ {c} : call'[d] = call[d]
  BY Zenon, <1>0, <1>2, <1>3, Moved DEF Pcs
<1>5. CallInv(c)'
  BY Zenon, <1>0, <1>1, <1>3, <1>4 DEF CallInv, SameCall, Hashed
<1>6. LockInv'
  BY <1>0, <1>1, <1>4, SecureAssumption DEF LockInv
<1>7. call[c].trie \in Tries
  BY <1>0 DEF TypeOK, CallType
<1>8. PreimagesAreExact' /\ DOMAIN secKeyCache' = Tries
  <2>1. DOMAIN secKeyCache = Tries
    BY Zenon, <1>0 DEF SecureTypeOK
  <2>2. CASE call[c].op = "commit"
    <3>1. preimages' = preimages \cup secKeyCache[call[c].trie] /\ DOMAIN secKeyCache' = Tries
      BY <2>1, <2>2 DEF Lock
    <3>2. \A tr \in Tries : secKeyCache'[tr] \subseteq secKeyCache[tr]
      BY <2>1, <2>2 DEF Lock
    <3> QED BY <1>0, <1>7, <3>1, <3>2 DEF PreimagesAreExact
  <2>3. CASE call[c].op # "commit"
    BY <1>0, <2>1, <2>3 DEF Lock, PreimagesAreExact
  <2> QED BY <2>2, <2>3
<1>9. p \in Pcs \ {"wait"} /\ hashKeyBuf' \in [Tries -> Keys]
  BY <1>0, <1>1, <1>3 DEF Pcs, SecureTypeOK
<1> QED BY Zenon, <1>0, <1>1, <1>2, <1>3, <1>5, <1>6, <1>8, <1>9, MoveKeeps

(* hk := t.hashKey(key).                                                   *)
LEMMA HashKeeps ==
    ASSUME SecureInv, NEW c \in Clients, hashKey(c)
    PROVE  SecureInv'
<1>0. SecureTypeOK /\ TypeOK /\ CallInv(c) /\ LockInv /\ PreimagesAreExact /\ call[c].trie \in Tries /\ call[c].arg \in Keys
  BY DEF SecureInv, SecureTypeOK, ClientInv, TypeOK, CallType
<1> DEFINE p == IF call[c].op = "delete" THEN "uncache" ELSE "key"
<1>1. call[c].pc = "hash" /\ call' = [call EXCEPT ![c] = [@ EXCEPT !.pc = p]]
      /\ hashKeyBuf' = [hashKeyBuf EXCEPT ![call[c].trie] = call[c].arg]
      /\ UNCHANGED <<root, allocs, updateChannels, go, secureTrieLock, want, secKeyCache, preimages>>
  BY Zenon DEF hashKey
<1>2. p \in {"uncache", "key"} /\ (p = "uncache" => call[c].op = "delete") /\ call[c].op # "commit"
  BY <1>0, <1>1 DEF CallInv
<1> HIDE DEF p
<1>3. /\ call'[c].pc = p
      /\ SameCall(call'[c], call[c])
      /\ \A d \in Clients \ {c} : call'[d] = call[d]
  BY Zenon, <1>0, <1>1, <1>2, Moved DEF Pcs
<1>4. hashKeyBuf' \in [Tries -> Keys] /\ hashKeyBuf'[call[c].trie] = call[c].arg
  BY <1>0, <1>1 DEF SecureTypeOK
<1>5. CallInv(c)'
  BY <1>0, <1>1, <1>2, <1>3, <1>4 DEF CallInv, SameCall, Hashed
<1>6. LockInv'
  BY <1>0, <1>1, <1>3 DEF LockInv, Outside
<1>7. PreimagesAreExact'
  BY <1>0, <1>1 DEF PreimagesAreExact
<1>8. p \in Pcs \ {"wait"} /\ DOMAIN secKeyCache' = Tries /\ secureTrieLock' \in Clients \cup {NoClient}
      /\ call[c].pc \notin Outside
  BY <1>0, <1>1, <1>2 DEF Pcs, SecureTypeOK, Outside
<1> QED BY Zenon, <1>0, <1>1, <1>2, <1>4, <1>5, <1>6, <1>7, <1>8, MoveKeeps

(* delete(t.getSecKeyCache(), string(hk)).                                 *)
LEMMA UncacheKeeps ==
    ASSUME SecureInv, NEW c \in Clients, Uncache(c)
    PROVE  SecureInv'
<1>0. SecureTypeOK /\ TypeOK /\ CallInv(c) /\ LockInv /\ PreimagesAreExact /\ DOMAIN secKeyCache = Tries
  BY DEF SecureInv, SecureTypeOK, ClientInv
<1>1. call[c].pc = "uncache" /\ call' = [call EXCEPT ![c] = [@ EXCEPT !.pc = "key"]]
      /\ UNCHANGED <<root, allocs, updateChannels, go, secureTrieLock, want, hashKeyBuf, preimages>>
  BY Zenon DEF Uncache
<1>2. /\ call'[c].pc = "key"
      /\ SameCall(call'[c], call[c])
      /\ \A d \in Clients \ {c} : call'[d] = call[d]
  BY Zenon, <1>0, <1>1, Moved DEF Pcs
<1>3. CallInv(c)'
  BY <1>0, <1>1, <1>2 DEF CallInv, SameCall, Hashed
<1>4. LockInv'
  BY <1>0, <1>1, <1>2 DEF LockInv, Outside
<1>5. DOMAIN secKeyCache' = Tries /\ \A tr \in Tries : secKeyCache'[tr] \subseteq secKeyCache[tr]
  BY <1>0 DEF Uncache
<1>6. PreimagesAreExact'
  BY <1>0, <1>1, <1>5 DEF PreimagesAreExact
<1>7. "key" \in Pcs \ {"wait"} /\ hashKeyBuf' \in [Tries -> Keys] /\ secureTrieLock' \in Clients \cup {NoClient}
  BY <1>0, <1>1 DEF Pcs, SecureTypeOK
<1> QED BY Zenon, <1>0, <1>1, <1>3, <1>4, <1>5, <1>6, <1>7, MoveKeeps

(* The preimage that TryUpdate caches is that of its key: nobody else has  *)
(* hashed a key since.                                                     *)
LEMMA FinishKeeps ==
    ASSUME SecureInv, NEW c \in Clients, Finish(c)
    PROVE  SecureInv'
<1>0. SecureTypeOK /\ TypeOK /\ CallInv(c) /\ LockInv /\ PreimagesAreExact /\ DOMAIN secKeyCache = Tries
  BY DEF SecureInv, SecureTypeOK, ClientInv
<1>1. call[c].pc = "done" /\ call' = [call EXCEPT ![c] = [@ EXCEPT !.pc = "idle"]]
      /\ UNCHANGED <<root, allocs, updateChannels, go, want, hashKeyBuf, preimages>>
  BY Zenon DEF Finish, Return
<1>2. /\ call'[c].pc = "idle"
      /\ SameCall(call'[c], call[c])
      /\ \A d \in Clients \ {c} : call'[d] = call[d]
  BY Zenon, <1>0, <1>1, Moved DEF Pcs
<1>3. CallInv(c)'
  BY <1>0, <1>1, <1>2 DEF CallInv, SameCall, Hashed
<1>4. LockInv'
  <2>1. \A d \in Clients \ {c} : call[d].pc \in Outside
    BY <1>1, Alone DEF Outside
  <2> QED BY <1>2, <2>1 DEF LockInv, Outside
<1>5. call[c].op = "update" => hashKeyBuf[call[c].trie] = call[c].arg
  BY <1>0, <1>1 DEF CallInv, Hashed
<1>6. DOMAIN secKeyCache' = Tries /\ \A tr \in Tries : \A q \in secKeyCache'[tr] : q \in secKeyCache[tr] \/ q[1] = q[2]
  <2>1. CASE call[c].op = "update" /\ ~call[c].err
    BY <1>0, <1>5, <2>1 DEF Finish
  <2>2. CASE ~(call[c].op = "update" /\ ~call[c].err)
    BY <1>0, <2>2 DEF Finish
  <2> QED BY Zenon, <2>1, <2>2
<1>7. PreimagesAreExact'
  BY <1>0, <1>1, <1>6 DEF PreimagesAreExact
<1>8. "idle" \in Pcs \ {"wait"} /\ hashKeyBuf' \in [Tries -> Keys] /\ secureTrieLock' \in Clients \cup {NoClient}
  BY <1>0, <1>1 DEF Pcs, SecureTypeOK, Finish
<1> QED BY Zenon, <1>0, <1>1, <1>3, <1>4, <1>6, <1>7, <1>8, MoveKeeps

-----------------------------------------------------------------------------
(* A step of a call inside the lock that changes the call and its own      *)
(* goroutine: what is left to show of it.                                  *)
LEMMA InsideKeeps ==
    ASSUME SecureInv, NEW c \in Clients, call[c].pc \notin Outside, call'[c].pc \notin Outside,
           call' \in [Clients -> CallType], \A d \in Clients \ {c} : call'[d] = call[d],
           go' \in [Goroutines -> GoType],
           \A d \in Clients \ {c} : \A i \in 1..MaxOps : go'[<<d, i>>] = go[<<d, i>>],
           root' \in [Tries -> Root], allocs' \in Nat, updateChannels' \in [Channels -> Seq(BOOLEAN)],
           UNCHANGED secureVars, ChannelInv', ClientInv(c)'
    PROVE  SecureInv'
<1>1. SecureTypeOK /\ LockInv /\ PreimagesAreExact
      /\ UNCHANGED <<secureTrieLock, hashKeyBuf, secKeyCache, preimages>>
  BY DEF SecureInv, secureVars
<1>2. SecureTypeOK'
  BY <1>1 DEF SecureTypeOK, TypeOK
<1>3. LockInv'
  BY Zenon, <1>1 DEF LockInv
<1>4. PreimagesAreExact'
  BY <1>1 DEF PreimagesAreExact
<1> QED BY Zenon, <1>2, <1>3, <1>4, Assembled

(* What the steps below take from the invariant.                           *)
LEMMA InsideFacts ==
    ASSUME SecureInv, NEW c \in Clients, call[c].pc \notin Outside
    PROVE  /\ SecureTypeOK /\ TypeOK /\ CallInv(c) /\ WaitInv(c) /\ GoInv(c)
           /\ call[c] \in CallType
           /\ call[c].n \in 1..MaxOps
           /\ <<c, call[c].n>> \in Goroutines
           /\ Own(c) \in GoType
<1>1. SecureTypeOK /\ TypeOK /\ CallInv(c) /\ WaitInv(c) /\ GoInv(c) /\ call[c] \in CallType
  BY Zenon DEF SecureInv, SecureTypeOK, ClientInv, TypeOK
<1>2. call[c].n \in 0..MaxOps /\ call[c].n >= 1
  BY <1>1 DEF CallType, CallInv, Outside
<1>3. call[c].n \in 1..MaxOps
  BY <1>2, TrieAssumption
<1>4. <<c, call[c].n>> \in Goroutines
  BY <1>3 DEF Goroutines
<1> QED BY <1>1, <1>3, <1>4 DEF Own, TypeOK

(* Trie.TryUpdate and TryDelete take the key from the buffer.              *)
LEMMA ReadKeyKeeps ==
    ASSUME SecureInv, NEW c \in Clients, ReadKey(c, hashKeyBuf[call[c].trie]), UNCHANGED secureVars
    PROVE  SecureInv'
<1>1. call[c].pc = "key" /\ UNCHANGED <<root, allocs, updateChannels>>
  BY Zenon DEF ReadKey
<1>2. /\ SecureTypeOK /\ TypeOK /\ CallInv(c) /\ WaitInv(c) /\ GoInv(c)
      /\ call[c] \in CallType
      /\ call[c].n \in 1..MaxOps
      /\ <<c, call[c].n>> \in Goroutines
      /\ Own(c) \in GoType
  BY Zenon, <1>1, InsideFacts DEF Outside
<1> DEFINE k == call[c].arg
<1>3. hashKeyBuf[call[c].trie] = k /\ k \in Keys /\ channelOf[k] \in Channels /\ hashKeyBuf' = hashKeyBuf
  BY Zenon, <1>1, <1>2, TrieAssumption DEF CallInv, Hashed, CallType, secureVars
<1>4. \A ch \in Channels : updateChannels[ch] = << >>
  BY <1>1, NoAnswer DEF Outside
<1>5. ChannelInv'
  BY SMTT(30), <1>1, <1>4 DEF ChannelInv
<1>6. call \in [Clients -> CallType] /\ go \in [Goroutines -> GoType] /\ root' \in [Tries -> Root] /\ allocs' \in Nat
      /\ updateChannels' \in [Channels -> Seq(BOOLEAN)]
  BY Zenon, <1>1, <1>2 DEF TypeOK
<1>7. CASE call[c].op = "update"
  <2> DEFINE x == [call[c] EXCEPT !.pc = "wait", !.key = k]
             y == [Own(c) EXCEPT !.pc = "key", !.trie = call[c].trie, !.arg = k, !.ch = channelOf[k], !.value = call[c].value]
  <2>1. call' = [call EXCEPT ![c] = x] /\ go' = [go EXCEPT ![<<c, call[c].n>>] = y]
    BY <1>3, <1>7 DEF ReadKey, Own
  <2>2. x \in CallType /\ x.pc = "wait" /\ x.key = k /\ x.arg = k /\ x.n = call[c].n /\ x.op = call[c].op
        /\ x.trie = call[c].trie /\ x.value = call[c].value
    BY Zenon, <1>2, <1>3 DEF CallType, Pcs
  <2>3. y.pc = "key" /\ y.trie = call[c].trie /\ y.arg = k /\ y.ch = channelOf[k] /\ y.value = call[c].value
    BY Zenon, <1>2 DEF GoType
  <2>4. call[c].trie \in Tries /\ call[c].value \in Values
    BY <1>2 DEF CallType
  <2>5. y \in GoType
    BY Zenon, <1>2, <1>3, <2>4 DEF GoType, GoPcs
  <2> HIDE DEF x, y, k
  <2>6. call' \in [Clients -> CallType] /\ call'[c] = x /\ \A d \in Clients \ {c} : call'[d] = call[d]
    BY Zenon, <1>6, <2>1, <2>2
  <2>7. go' \in [Goroutines -> GoType] /\ go'[<<c, call[c].n>>] = y /\ \A g \in Goroutines \ {<<c, call[c].n>>} : go'[g] = go[g]
    BY Zenon, <1>2, <1>6, <2>1, <2>5
  <2>8. \A d \in Clients : \A i \in 1..MaxOps : (d # c \/ i # call[c].n) => go'[<<d, i>>] = go[<<d, i>>]
    BY <2>7 DEF Goroutines
  <2>9. Own(c)' = y
    BY Zenon, <2>2, <2>6, <2>7 DEF Own
  <2>10. CallInv(c)'
    <3>1. call[c].n >= 1
      BY <1>2
    <3>2. x.n >= 1 /\ x.op = "update" /\ x.pc = "wait" /\ hashKeyBuf'[x.trie] = x.arg /\ x.key = x.arg
      BY Zenon, <1>3, <1>7, <2>2, <3>1
    <3> QED BY Zenon, <2>6, <3>2 DEF CallInv, Hashed
  <2>11. WaitInv(c)'
    BY Zenon, <2>2, <2>3, <2>6, <2>9 DEF WaitInv
  <2>12. GoInv(c)'
    <3> SUFFICES ASSUME NEW i \in 1..MaxOps
                 PROVE  /\ i > call[c].n => go'[<<c, i>>].pc = "none"
                        /\ go'[<<c, i>>].pc \in {"none", "end"} \/ i = call[c].n
                        /\ go'[<<c, i>>].pc \in {"load", "cas", "send", "end"} => go'[<<c, i>>].key = go'[<<c, i>>].arg
      BY Zenon, <2>2, <2>6 DEF GoInv
    <3>1. CASE i = call[c].n
      <4>1. ~(i > call[c].n)
        BY <3>1
      <4> QED BY Zenon, <2>3, <2>7, <3>1, <4>1
    <3>2. CASE i # call[c].n
      BY Zenon, <1>2, <2>8, <3>2 DEF GoInv
    <3> QED BY Zenon, <3>1, <3>2
  <2>13. call[c].pc \notin Outside /\ call'[c].pc \notin Outside
    BY <1>1, <2>2, <2>6 DEF Outside
  <2>14. \A d \in Clients \ {c} : \A i \in 1..MaxOps : go'[<<d, i>>] = go[<<d, i>>]
    BY Zenon, <2>8
  <2>15. ClientInv(c)'
    BY <2>10, <2>11, <2>12 DEF ClientInv
  <2> QED BY Zenon, <1>5, <1>6, <2>6, <2>7, <2>13, <2>14, <2>15, InsideKeeps
<1>8. CASE call[c].op # "update"
  <2> DEFINE x == [call[c] EXCEPT !.pc = "load", !.key = k]
  <2>1. call' = [call EXCEPT ![c] = x] /\ go' = go
    BY <1>3, <1>8 DEF ReadKey
  <2>2. x \in CallType /\ x.pc = "load" /\ x.key = k /\ x.arg = k /\ x.n = call[c].n /\ x.op = call[c].op
        /\ x.trie = call[c].trie /\ x.value = call[c].value
    BY Zenon, <1>2, <1>3 DEF CallType, Pcs
  <2> HIDE DEF x, k
  <2>3. call' \in [Clients -> CallType] /\ call'[c] = x /\ \A d \in Clients \ {c} : call'[d] = call[d]
    BY Zenon, <1>6, <2>1, <2>2
  <2>4. CallInv(c)'
    BY Zenon, <1>1, <1>2, <1>3, <1>8, <2>2, <2>3 DEF CallInv, Hashed
  <2>5. WaitInv(c)'
    BY Zenon, <2>2, <2>3 DEF WaitInv
  <2>6. GoInv(c)'
    BY Zenon, <1>1, <1>2, <2>1, <2>2, <2>3 DEF GoInv
  <2>7. call[c].pc \notin Outside /\ call'[c].pc \notin Outside
    BY <1>1, <2>2, <2>3 DEF Outside
  <2>8. ClientInv(c)'
    BY <2>4, <2>5, <2>6 DEF ClientInv
  <2>9. go' \in [Goroutines -> GoType] /\ \A d \in Clients \ {c} : \A i \in 1..MaxOps : go'[<<d, i>>] = go[<<d, i>>]
    BY <1>6, <2>1
  <2> QED BY Zenon, <1>5, <1>6, <2>3, <2>7, <2>8, <2>9, InsideKeeps
<1> QED BY <1>7, <1>8

(* return <-c: the answer is that of the call's own goroutine.             *)
LEMMA ReceiveKeeps ==
    ASSUME SecureInv, NEW c \in Clients, Receive(c), UNCHANGED secureVars
    PROVE  SecureInv'
<1> DEFINE ch == channelOf[call[c].key]
<1>1. call[c].pc = "wait" /\ updateChannels[ch] # << >> /\ UNCHANGED <<root, allocs, go>>
      /\ call' = [call EXCEPT ![c] = [@ EXCEPT !.pc = "done", !.err = Head(updateChannels[ch])]]
      /\ updateChannels' = [updateChannels EXCEPT ![ch] = << >>]
  BY DEF Receive
<1>2. /\ SecureTypeOK /\ TypeOK /\ CallInv(c) /\ WaitInv(c) /\ GoInv(c)
      /\ call[c] \in CallType
      /\ Own(c) \in GoType
  BY Zenon, <1>1, InsideFacts DEF Outside
<1>3. ch \in Channels
  BY <1>2, TrieAssumption DEF CallType
<1>4. \A d \in Clients : call[d].pc = "wait" => d = c
  BY <1>1, Alone DEF Outside
<1>5. Own(c).pc = "end" /\ \A h \in Channels \ {ch} : updateChannels[h] = << >>
  BY <1>1, <1>3, <1>4 DEF SecureInv, ChannelInv
<1>6. Head(updateChannels[ch]) = Own(c).err /\ Own(c).err \in BOOLEAN
  BY <1>1, <1>2, <1>5 DEF WaitInv, GoType
<1> DEFINE x == [call[c] EXCEPT !.pc = "done", !.err = Own(c).err]
<1>7. call' = [call EXCEPT ![c] = x]
  BY Zenon, <1>1, <1>6
<1>8. x \in CallType
  BY Zenon, <1>2, <1>6 DEF CallType, Pcs
<1>9. x.pc = "done" /\ x.err = Own(c).err /\ x.n = call[c].n /\ x.op = call[c].op /\ x.trie = call[c].trie
      /\ x.arg = call[c].arg /\ x.key = call[c].key /\ x.value = call[c].value
  BY <1>2 DEF CallType
<1> HIDE DEF x
<1>10. call \in [Clients -> CallType] /\ updateChannels \in [Channels -> Seq(BOOLEAN)] /\ << >> \in Seq(BOOLEAN)
  BY <1>2 DEF TypeOK
<1>11. call' \in [Clients -> CallType] /\ call'[c] = x /\ \A d \in Clients \ {c} : call'[d] = call[d]
  BY <1>7, <1>8, <1>10
<1>12. updateChannels' \in [Channels -> Seq(BOOLEAN)] /\ \A h \in Channels : updateChannels'[h] = << >>
  BY <1>1, <1>3, <1>5, <1>10
<1>13. ChannelInv'
  BY <1>12 DEF ChannelInv
<1>14. Own(c)' = Own(c)
  BY <1>1, <1>9, <1>11 DEF Own
<1>15. hashKeyBuf' = hashKeyBuf
  BY DEF secureVars
<1>16. CallInv(c)'
  BY Zenon, <1>1, <1>2, <1>9, <1>11, <1>15 DEF CallInv, Hashed
<1>17. WaitInv(c)'
  BY Zenon, <1>5, <1>9, <1>11, <1>14 DEF WaitInv
<1>18. GoInv(c)'
  <2>1. \A i \in 1..MaxOps : go[<<c, i>>].pc \in {"none", "end"}
    BY <1>2, <1>5 DEF GoInv, Own
  <2> QED BY Zenon, <1>1, <1>2, <1>9, <1>11, <2>1 DEF GoInv
<1>19. /\ call[c].pc \notin Outside /\ call'[c].pc \notin Outside
       /\ root' \in [Tries -> Root] /\ allocs' \in Nat /\ go' \in [Goroutines -> GoType]
       /\ \A d \in Clients \ {c} : \A i \in 1..MaxOps : go'[<<d, i>>] = go[<<d, i>>]
  BY <1>1, <1>2, <1>9, <1>11 DEF Outside, TypeOK
<1>20. ClientInv(c)'
  BY <1>16, <1>17, <1>18 DEF ClientInv
<1> QED BY Zenon, <1>11, <1>12, <1>13, <1>19, <1>20, InsideKeeps

(* TryDelete and Commit read the root, which nobody replaces until they    *)
(* write theirs.                                                           *)
LEMMA LoadKeeps ==
    ASSUME SecureInv, NEW c \in Clients, Load(c), UNCHANGED secureVars
    PROVE  SecureInv'
<1>1. call[c].pc = "load" /\ UNCHANGED <<root, allocs, updateChannels, go>>
  BY Zenon DEF Load
<1>2. /\ SecureTypeOK /\ TypeOK /\ CallInv(c) /\ WaitInv(c) /\ GoInv(c)
      /\ call[c] \in CallType
  BY Zenon, <1>1, InsideFacts DEF Outside
<1>3. call[c].op \in {"delete", "commit"} /\ call[c].op # "get"
  BY Zenon, <1>1, <1>2 DEF CallInv
<1>4. PICK err \in BOOLEAN :
        call' = [call EXCEPT ![c] = [@ EXCEPT !.err = err, !.old = root[call[c].trie], !.value = call[c].value,
                                              !.pc = IF err THEN "done" ELSE "store"]]
  BY Zenon, <1>3 DEF Load, ResolveErrors
<1> DEFINE x == [call[c] EXCEPT !.err = err, !.old = root[call[c].trie], !.value = call[c].value,
                                !.pc = IF err THEN "done" ELSE "store"]
<1>5. call[c].trie \in Tries /\ root[call[c].trie] \in Root /\ root \in [Tries -> Root]
  BY <1>2 DEF TypeOK, CallType
<1>6. x \in CallType
  BY Zenon, <1>2, <1>5 DEF CallType, Pcs
<1>7. x.pc \in {"done", "store"} /\ x.old = root[call[c].trie] /\ x.n = call[c].n /\ x.op = call[c].op /\ x.trie = call[c].trie
      /\ x.arg = call[c].arg /\ x.key = call[c].key /\ x.value = call[c].value
  BY <1>2 DEF CallType
<1>8. call' = [call EXCEPT ![c] = x]
  BY Zenon, <1>4
<1> HIDE DEF x
<1>9. call \in [Clients -> CallType]
  BY <1>2 DEF TypeOK
<1>10. call' \in [Clients -> CallType] /\ call'[c] = x /\ \A d \in Clients \ {c} : call'[d] = call[d]
  BY Zenon, <1>6, <1>8, <1>9
<1>11. ChannelInv'
  BY <1>1, NoAnswer DEF ChannelInv, Outside
<1>12. hashKeyBuf' = hashKeyBuf
  BY Zenon DEF secureVars
<1>13. CallInv(c)'
  BY Zenon, <1>1, <1>2, <1>7, <1>10, <1>12 DEF CallInv, Hashed
<1>14. WaitInv(c)'
  BY Zenon, <1>3, <1>7, <1>10 DEF WaitInv
<1>15. GoInv(c)'
  BY Zenon, <1>1, <1>2, <1>7, <1>10 DEF GoInv
<1>16. /\ call[c].pc \notin Outside /\ call'[c].pc \notin Outside
       /\ root' \in [Tries -> Root] /\ allocs' \in Nat /\ go' \in [Goroutines -> GoType]
       /\ updateChannels' \in [Channels -> Seq(BOOLEAN)]
       /\ \A d \in Clients \ {c} : \A i \in 1..MaxOps : go'[<<d, i>>] = go[<<d, i>>]
  BY <1>1, <1>2, <1>7, <1>10 DEF Outside, TypeOK
<1>17. ClientInv(c)'
  BY <1>13, <1>14, <1>15 DEF ClientInv
<1> QED BY Zenon, <1>10, <1>11, <1>16, <1>17, InsideKeeps

(* SetRoot keeps the types.                                                *)
LEMMA SetRootType ==
    ASSUME TypeOK, NEW tr \in Tries, NEW r \in Root, SetRoot(tr, r)
    PROVE  /\ root' \in [Tries -> Root] /\ allocs' \in Nat
           /\ root'[tr].node = r.node
           /\ \A x \in Tries \ {tr} : root'[x] = root[x]
<1> DEFINE new == [r EXCEPT !.ptr = allocs + 1]
<1>1. root' = [root EXCEPT ![tr] = new] /\ allocs' = allocs + 1 /\ allocs \in Nat /\ root \in [Tries -> Root]
  BY DEF SetRoot, TypeOK
<1>2. new \in Root /\ new.node = r.node
  BY <1>1 DEF Root
<1> HIDE DEF new
<1> QED BY <1>1, <1>2

(* What insert returns.                                                    *)
LEMMA InsertType ==
    ASSUME NEW r \in Root, NEW k \in Keys, NEW v \in Values
    PROVE  insert(r, k, v) \in Root /\ insert(r, k, v).node = [r.node EXCEPT ![k] = v]
<1>1. [r.node EXCEPT ![k] = v] \in Node /\ r.loaded \cup {k} \in SUBSET Keys
  BY DEF Root, Node
<1>2. insert(r, k, v) = [r EXCEPT !.node = [r.node EXCEPT ![k] = v], !.loaded = r.loaded \cup {k}]
  BY Zenon DEF insert
<1>3. insert(r, k, v) \in Root
  BY Zenon, <1>1, <1>2 DEF Root
<1> QED BY <1>2, <1>3 DEF Root

(* What a call that has read the root writes: the contents that it has     *)
(* read, after TryDelete without its key.                                  *)
LEMMA StoreWrites ==
    ASSUME SecureInv, NEW c \in Clients, Store(c)
    PROVE  \E r \in Root : /\ SetRoot(call[c].trie, r)
                           /\ r.node = IF call[c].op = "delete"
                                         THEN [root[call[c].trie].node EXCEPT ![call[c].key] = NoValue]
                                         ELSE root[call[c].trie].node
<1>1. call[c].pc = "store"
  BY Zenon DEF Store
<1>2. CallInv(c) /\ call[c] \in CallType
  BY Zenon, <1>1, InsideFacts DEF Outside
<1>3. /\ call[c].op \in {"delete", "commit"} /\ call[c].old = root[call[c].trie]
      /\ call[c].old \in Root /\ call[c].key \in Keys
  BY <1>1, <1>2 DEF CallInv, CallType
<1>4. CASE call[c].op = "delete"
  <2>1. SetRoot(call[c].trie, insert(call[c].old, call[c].key, NoValue))
    BY Zenon, <1>4 DEF Store
  <2>2. /\ insert(call[c].old, call[c].key, NoValue) \in Root
        /\ insert(call[c].old, call[c].key, NoValue).node = [call[c].old.node EXCEPT ![call[c].key] = NoValue]
    BY <1>3, InsertType, TrieAssumption
  <2> QED BY Zenon, <1>3, <1>4, <2>1, <2>2
<1>5. CASE call[c].op = "commit"
  <2>1. PICK r \in {call[c].old, [call[c].old EXCEPT !.loaded = {}]} : SetRoot(call[c].trie, r)
    BY <1>5 DEF Store
  <2>2. r \in Root /\ r.node = call[c].old.node
    BY <1>3, <2>1 DEF Root
  <2> QED BY <1>3, <1>5, <2>1, <2>2
<1> QED BY Zenon, <1>3, <1>4, <1>5

(* t.root = newRoot.                                                       *)
LEMMA StoreKeeps ==
    ASSUME SecureInv, NEW c \in Clients, Store(c), UNCHANGED secureVars
    PROVE  SecureInv'
<1>1. call[c].pc = "store" /\ UNCHANGED <<updateChannels, go>> /\ call' = [call EXCEPT ![c] = [@ EXCEPT !.pc = "done"]]
  BY Zenon DEF Store
<1>2. /\ SecureTypeOK /\ TypeOK /\ CallInv(c) /\ WaitInv(c) /\ GoInv(c)
      /\ call[c] \in CallType
  BY Zenon, <1>1, InsideFacts DEF Outside
<1>3. root' \in [Tries -> Root] /\ allocs' \in Nat
  <2>1. PICK r \in Root : SetRoot(call[c].trie, r)
    BY Zenon, StoreWrites
  <2>2. call[c].trie \in Tries
    BY <1>2 DEF CallType
  <2> QED BY Zenon, <1>2, <2>1, <2>2, SetRootType
<1>4. "done" \in Pcs
  BY DEF Pcs
<1>5. /\ call' \in [Clients -> CallType]
      /\ call'[c].pc = "done"
      /\ SameCall(call'[c], call[c])
      /\ \A d \in Clients \ {c} : call'[d] = call[d]
  BY Zenon, <1>1, <1>2, <1>4, Moved
<1>6. ChannelInv'
  BY <1>1, NoAnswer DEF ChannelInv, Outside
<1>7. hashKeyBuf' = hashKeyBuf
  BY DEF secureVars
<1>8. CallInv(c)'
  BY <1>1, <1>2, <1>5, <1>7 DEF CallInv, SameCall, Hashed
<1>9. WaitInv(c)'
  BY <1>1, <1>2, <1>5 DEF WaitInv, CallInv, SameCall
<1>10. GoInv(c)'
  BY <1>1, <1>2, <1>5 DEF GoInv, SameCall
<1>11. /\ call[c].pc \notin Outside /\ call'[c].pc \notin Outside
       /\ go' \in [Goroutines -> GoType] /\ updateChannels' \in [Channels -> Seq(BOOLEAN)]
       /\ \A d \in Clients \ {c} : \A i \in 1..MaxOps : go'[<<d, i>>] = go[<<d, i>>]
  BY <1>1, <1>2, <1>5 DEF Outside, TypeOK
<1>12. ClientInv(c)'
  BY <1>8, <1>9, <1>10 DEF ClientInv
<1> QED BY Zenon, <1>3, <1>5, <1>6, <1>11, <1>12, InsideKeeps

-----------------------------------------------------------------------------
(* A goroutine at work is that of a call that waits for it.                *)
LEMMA Awaited ==
    ASSUME SecureInv, NEW g \in Goroutines, go[g].pc \notin {"none", "end"}
    PROVE  \E c \in Clients : g = <<c, call[c].n>> /\ call[c].pc = "wait"
<1>1. PICK c \in Clients, i \in 1..MaxOps : g = <<c, i>>
  BY DEF Goroutines
<1>2. GoInv(c)
  BY Zenon DEF SecureInv, ClientInv
<1> QED BY <1>1, <1>2 DEF GoInv

(* A step of the goroutine of a call that waits: what is left to show.     *)
LEMMA GoKeeps ==
    ASSUME SecureInv, NEW c \in Clients, call[c].pc = "wait",
           NEW y \in GoType, go' = [go EXCEPT ![<<c, call[c].n>>] = y],
           y.pc # "none", SameGo(y, Own(c)),
           y.pc = "cas" => y.old = root'[call[c].trie],
           y.pc = "end" => updateChannels'[channelOf[call[c].key]] = <<y.err>>,
           y.pc \in {"load", "cas", "send", "end"} => y.key = y.arg,
           \A ch \in Channels : updateChannels'[ch] # << >> => ch = channelOf[call[c].key] /\ y.pc = "end",
           root' \in [Tries -> Root], allocs' \in Nat, updateChannels' \in [Channels -> Seq(BOOLEAN)],
           call' = call, UNCHANGED secureVars
    PROVE  SecureInv'
<1>1. /\ SecureTypeOK /\ TypeOK /\ CallInv(c) /\ WaitInv(c) /\ GoInv(c)
      /\ call[c] \in CallType
      /\ call[c].n \in 1..MaxOps
      /\ <<c, call[c].n>> \in Goroutines
      /\ Own(c) \in GoType
  BY Zenon, InsideFacts DEF Outside
<1>2. go \in [Goroutines -> GoType] /\ call \in [Clients -> CallType]
  BY Zenon, <1>1 DEF TypeOK
<1>3. go' \in [Goroutines -> GoType] /\ go'[<<c, call[c].n>>] = y
      /\ \A g \in Goroutines \ {<<c, call[c].n>>} : go'[g] = go[g]
  BY Zenon, <1>1, <1>2
<1>4. \A d \in Clients : \A i \in 1..MaxOps : (d # c \/ i # call[c].n) => go'[<<d, i>>] = go[<<d, i>>]
  BY Zenon, <1>3 DEF Goroutines
<1>5. Own(c)' = y
  BY Zenon, <1>3 DEF Own
<1>6. ChannelInv'
  BY Zenon, <1>5 DEF ChannelInv
<1>7. hashKeyBuf' = hashKeyBuf
  BY Zenon DEF secureVars
<1>8. CallInv(c)'
  BY Zenon, <1>1, <1>7 DEF CallInv, Hashed
<1>9. WaitInv(c)'
  BY Zenon, <1>1, <1>5 DEF WaitInv, SameGo
<1>10. GoInv(c)'
  <2> SUFFICES ASSUME NEW i \in 1..MaxOps
               PROVE  /\ i > call[c].n => go'[<<c, i>>].pc = "none"
                      /\ go'[<<c, i>>].pc \in {"none", "end"} \/ i = call[c].n
                      /\ go'[<<c, i>>].pc \in {"load", "cas", "send", "end"} => go'[<<c, i>>].key = go'[<<c, i>>].arg
    BY Zenon DEF GoInv
  <2>1. CASE i = call[c].n
    <3>1. ~(i > call[c].n)
      BY <2>1
    <3> QED BY Zenon, <1>3, <2>1, <3>1
  <2>2. CASE i # call[c].n
    BY Zenon, <1>1, <1>4, <2>2 DEF GoInv
  <2> QED BY Zenon, <2>1, <2>2
<1>11. call[c].pc \notin Outside /\ call'[c].pc \notin Outside /\ call' \in [Clients -> CallType]
  BY Zenon, <1>2 DEF Outside
<1>12. \A d \in Clients \ {c} : \A i \in 1..MaxOps : go'[<<d, i>>] = go[<<d, i>>]
  BY Zenon, <1>4
<1>13. ClientInv(c)'
  BY ZenonT(40), <1>8, <1>9, <1>10 DEF ClientInv
<1> QED BY Zenon, <1>3, <1>6, <1>11, <1>12, <1>13, InsideKeeps

(* What a goroutine at work takes from the invariant: its channel is empty *)
(* and the buffer holds its key.                                           *)
LEMMA AtWork ==
    ASSUME SecureInv, NEW c \in Clients, call[c].pc = "wait", Own(c).pc # "end"
    PROVE  /\ \A ch \in Channels : updateChannels[ch] = << >>
           /\ hashKeyBuf[Own(c).trie] = Own(c).arg
           /\ Own(c).trie = call[c].trie
<1>1. \A d \in Clients : call[d].pc = "wait" => d = c
  BY Alone DEF Outside
<1>2. CallInv(c) /\ WaitInv(c)
  BY DEF SecureInv, ClientInv
<1> QED BY Zenon, <1>1, <1>2 DEF SecureInv, ChannelInv, CallInv, WaitInv, Hashed

(* A step of a goroutine keeps the invariant.                              *)
LEMMA GoStepKeeps ==
    ASSUME SecureInv, NEW g \in Goroutines, SecureGoStep(g)
    PROVE  SecureInv'
<1>0. go[g].pc \in {"key", "load", "cas", "send"} /\ call' = call /\ UNCHANGED secureVars
  BY Zenon DEF SecureGoStep, UpdateKey, tryUpdate, UpdateLoad, UpdateCAS, UpdateSend
<1>1. PICK c \in Clients : g = <<c, call[c].n>> /\ call[c].pc = "wait"
  BY <1>0, Awaited
<1>2. go[g] = Own(c) /\ Own(c).pc \in {"key", "load", "cas", "send"}
  BY Zenon, <1>0, <1>1 DEF Own
<1>3. /\ \A ch \in Channels : updateChannels[ch] = << >>
      /\ hashKeyBuf[go[g].trie] = go[g].arg
      /\ go[g].trie = call[c].trie
  BY <1>1, <1>2, AtWork
<1>4. TypeOK /\ WaitInv(c) /\ GoInv(c) /\ go[g] \in GoType /\ call[c].n \in 1..MaxOps
  BY Zenon, <1>1, <1>2, InsideFacts DEF Outside
<1>5. go[g].pc \in {"load", "cas", "send"} => go[g].key = go[g].arg
  BY Zenon, <1>1, <1>4 DEF GoInv
<1>6. root \in [Tries -> Root] /\ allocs \in Nat /\ updateChannels \in [Channels -> Seq(BOOLEAN)]
      /\ go[g].trie \in Tries /\ root[go[g].trie] \in Root /\ go[g].ch = channelOf[call[c].key] /\ go[g].ch \in Channels
  BY Zenon, <1>1, <1>2, <1>4 DEF TypeOK, GoType, WaitInv
<1>7. CASE UpdateKey(g, hashKeyBuf[go[g].trie])
  <2> DEFINE y == [go[g] EXCEPT !.pc = "load", !.key = go[g].arg]
  <2>1. go' = [go EXCEPT ![<<c, call[c].n>>] = y] /\ UNCHANGED <<root, allocs, updateChannels>>
    BY Zenon, <1>1, <1>3, <1>7 DEF UpdateKey
  <2>2. y \in GoType
    BY Zenon, <1>4 DEF GoType, GoPcs
  <2>3. y.pc = "load" /\ y.key = go[g].arg /\ y.arg = go[g].arg /\ SameGo(y, Own(c))
    BY <1>2, <1>4 DEF GoType, SameGo
  <2> HIDE DEF y
  <2> QED BY Zenon, <1>0, <1>1, <1>3, <1>6, <2>1, <2>2, <2>3, GoKeeps
<1>8. CASE UpdateLoad(g)
  <2>1. PICK err \in BOOLEAN : go' = [go EXCEPT ![g] = [@ EXCEPT !.pc = IF err THEN "send" ELSE "cas", !.err = err,
                                                                  !.old = root[go[g].trie]]]
    BY Zenon, <1>8 DEF UpdateLoad, ResolveErrors
  <2> DEFINE y == [go[g] EXCEPT !.pc = IF err THEN "send" ELSE "cas", !.err = err, !.old = root[go[g].trie]]
  <2>2. go' = [go EXCEPT ![<<c, call[c].n>>] = y] /\ UNCHANGED <<root, allocs, updateChannels>>
    BY Zenon, <1>1, <1>8, <2>1 DEF UpdateLoad
  <2>3. y \in GoType
    BY Zenon, <1>4, <1>6 DEF GoType, GoPcs
  <2>4. y.pc \in {"send", "cas"} /\ y.old = root[call[c].trie] /\ y.key = y.arg /\ SameGo(y, Own(c))
    BY <1>2, <1>3, <1>4, <1>5, <1>8 DEF GoType, SameGo, UpdateLoad
  <2> HIDE DEF y
  <2> QED BY Zenon, <1>0, <1>1, <1>3, <1>6, <2>2, <2>3, <2>4, GoKeeps
<1>9. CASE UpdateCAS(g)
  <2> DEFINE p == IF root[go[g].trie].ptr = go[g].old.ptr THEN "send" ELSE "load"
             y == [go[g] EXCEPT !.pc = p]
  <2>1. go' = [go EXCEPT ![<<c, call[c].n>>] = y] /\ UNCHANGED updateChannels
    BY <1>1, <1>9 DEF UpdateCAS
  <2>2. root' \in [Tries -> Root] /\ allocs' \in Nat
    <3>1. CASE root[go[g].trie].ptr = go[g].old.ptr
      <4>1. SetRoot(go[g].trie, insert(go[g].old, go[g].key, go[g].value))
        BY Zenon, <1>9, <3>1 DEF UpdateCAS
      <4>2. go[g].old \in Root /\ go[g].key \in Keys /\ go[g].value \in Values
        BY <1>4 DEF GoType
      <4>3. insert(go[g].old, go[g].key, go[g].value) \in Root
        BY Zenon, <4>2, InsertType
      <4> QED BY <1>4, <1>6, <4>1, <4>3, SetRootType
    <3>2. CASE root[go[g].trie].ptr # go[g].old.ptr
      BY <1>6, <1>9, <3>2 DEF UpdateCAS
    <3> QED BY Zenon, <3>1, <3>2
  <2>3. p \in {"send", "load"}
    OBVIOUS
  <2> HIDE DEF p
  <2>4. y \in GoType
    BY Zenon, <1>4, <2>3 DEF GoType, GoPcs
  <2>5. y.pc \in {"send", "load"} /\ y.key = y.arg /\ SameGo(y, Own(c))
    BY <1>2, <1>4, <1>5, <1>9, <2>3 DEF GoType, SameGo, UpdateCAS
  <2> HIDE DEF y
  <2> QED BY Zenon, <1>0, <1>1, <1>3, <1>6, <2>1, <2>2, <2>4, <2>5, GoKeeps
<1>10. CASE UpdateSend(g)
  <2> DEFINE y == [go[g] EXCEPT !.pc = "end"]
  <2>1. /\ go' = [go EXCEPT ![<<c, call[c].n>>] = y] /\ UNCHANGED <<root, allocs>>
        /\ updateChannels' = [updateChannels EXCEPT ![go[g].ch] = <<go[g].err>>]
    BY Zenon, <1>1, <1>10 DEF UpdateSend
  <2>2. y \in GoType
    BY Zenon, <1>4 DEF GoType, GoPcs
  <2>3. y.pc = "end" /\ y.err = go[g].err /\ y.key = y.arg /\ SameGo(y, Own(c))
    BY <1>2, <1>4, <1>5, <1>10 DEF GoType, SameGo, UpdateSend
  <2>4. go[g].err \in BOOLEAN
    BY <1>4 DEF GoType
  <2> HIDE DEF y
  <2>5. updateChannels' \in [Channels -> Seq(BOOLEAN)] /\ updateChannels'[go[g].ch] = <<go[g].err>>
        /\ \A ch \in Channels \ {go[g].ch} : updateChannels'[ch] = << >>
    <3>1. <<go[g].err>> \in Seq(BOOLEAN)
      BY <2>4
    <3> QED BY Zenon, <1>3, <1>6, <2>1, <3>1
  <2>6. /\ y.pc # "none" /\ (y.pc = "cas" => y.old = root'[call[c].trie])
        /\ y.pc = "end" => updateChannels'[channelOf[call[c].key]] = <<y.err>>
        /\ y.pc \in {"load", "cas", "send", "end"} => y.key = y.arg
        /\ \A ch \in Channels : updateChannels'[ch] # << >> => ch = channelOf[call[c].key] /\ y.pc = "end"
    BY Zenon, <1>6, <2>3, <2>5
  <2>7. root' \in [Tries -> Root] /\ allocs' \in Nat
    BY <1>6, <2>1
  <2> QED BY ZenonT(40), <1>0, <1>1, <2>1, <2>2, <2>3, <2>5, <2>6, <2>7, GoKeeps
<1> QED BY <1>7, <1>8, <1>9, <1>10 DEF SecureGoStep, tryUpdate

-----------------------------------------------------------------------------
(* Nobody has called yet.                                                  *)
LEMMA SecureInitInv ==
    ASSUME SecureInit
    PROVE  SecureInv
<1> DEFINE tr == CHOOSE x \in Tries : TRUE
           k == CHOOSE x \in Keys : TRUE
<1>1. tr \in Tries /\ k \in Keys /\ channelOf[k] \in Channels /\ NoValue \in Values /\ 0 \in 0..MaxOps
  BY TrieAssumption
<1>2. root \in [Tries -> [ptr : {0}, node : Node, loaded : {InitLoaded}]] /\ allocs = 0
      /\ updateChannels = [ch \in Channels |-> << >>]
  BY Zenon DEF SecureInit, Init
<1>3. root \in [Tries -> Root]
  BY <1>2, TrieAssumption DEF Root
<1>4. call = [c \in Clients |-> [pc |-> "idle", n |-> 0, op |-> "get", trie |-> tr, arg |-> k,
                                 key |-> k, value |-> NoValue, old |-> root[tr], err |-> FALSE]]
  BY Zenon DEF SecureInit, Init
<1>5. go = [g \in Goroutines |-> [pc |-> "none", trie |-> tr, arg |-> k, key |-> k,
                                  ch |-> channelOf[k], value |-> NoValue, old |-> root[tr], err |-> FALSE]]
  BY Zenon DEF SecureInit, Init
<1>6. secureTrieLock = NoClient /\ hashKeyBuf \in [Tries -> {k}] /\ secKeyCache = [x \in Tries |-> {}] /\ preimages = {}
  BY Zenon DEF SecureInit
<1> HIDE DEF tr, k
<1>7. call \in [Clients -> CallType] /\ \A c \in Clients : call[c].pc = "idle" /\ call[c].op = "get" /\ call[c].n = 0
                                                        /\ call[c].value = NoValue
  BY Zenon, <1>1, <1>3, <1>4 DEF CallType, Pcs, AllOps
<1>8. go \in [Goroutines -> GoType] /\ \A g \in Goroutines : go[g].pc = "none"
  BY Zenon, <1>1, <1>3, <1>5 DEF GoType, GoPcs
<1>9. SecureTypeOK
  BY SMTT(30), <1>1, <1>2, <1>3, <1>6, <1>7, <1>8 DEF SecureTypeOK, TypeOK
<1>10. LockInv /\ ChannelInv
  BY Zenon, <1>2, <1>7 DEF LockInv, ChannelInv, Outside
<1>11. PreimagesAreExact
  BY <1>6 DEF PreimagesAreExact
<1>12. ASSUME NEW c \in Clients PROVE ClientInv(c)
  <2>1. CallInv(c)
    BY ZenonT(40), <1>7 DEF CallInv, Hashed
  <2>2. WaitInv(c)
    BY Zenon, <1>7 DEF WaitInv
  <2>3. GoInv(c)
    BY <1>8 DEF GoInv, Goroutines
  <2> QED BY Zenon, <2>1, <2>2, <2>3 DEF ClientInv
<1> QED BY <1>9, <1>10, <1>11, <1>12 DEF SecureInv

(* The invariant is inductive.                                             *)
LEMMA SecureNextInv ==
    ASSUME Writers, SecureInv, [SecureNext]_allVars
    PROVE  SecureInv'
<1>1. CASE UNCHANGED allVars
  <2>1. UNCHANGED <<root, allocs, updateChannels, call, go, secureTrieLock, hashKeyBuf, secKeyCache, preimages>>
    BY Zenon, <1>1 DEF allVars, vars, secureVars
  <2>2. SecureTypeOK' /\ LockInv' /\ PreimagesAreExact' /\ ChannelInv'
    <3>1. SecureTypeOK /\ LockInv /\ PreimagesAreExact /\ ChannelInv
      BY Zenon DEF SecureInv
    <3>2. SecureTypeOK'
      BY Zenon, <2>1, <3>1 DEF SecureTypeOK, TypeOK
    <3>3. LockInv'
      BY Zenon, <2>1, <3>1 DEF LockInv
    <3>4. PreimagesAreExact'
      BY Zenon, <2>1, <3>1 DEF PreimagesAreExact
    <3>5. ChannelInv'
      BY <2>1, <3>1 DEF ChannelInv, Own
    <3> QED BY Zenon, <3>2, <3>3, <3>4, <3>5
  <2>3. ASSUME NEW c \in Clients PROVE ClientInv(c)'
    BY Zenon, <2>1, OthersKept
  <2> QED BY <2>2, <2>3 DEF SecureInv
<1>2. ASSUME NEW c \in Clients, Call(c) \/ SecureStep(c) PROVE SecureInv'
  BY Zenon, <1>2, CallKeeps, LockKeeps, HashKeeps, UncacheKeeps, FinishKeeps, ReadKeyKeeps, ReceiveKeeps, LoadKeeps, StoreKeeps
  DEF SecureStep
<1>3. ASSUME NEW g \in Goroutines, SecureGoStep(g) PROVE SecureInv'
  BY <1>3, GoStepKeeps
<1> QED BY <1>1, <1>2, <1>3 DEF SecureNext

(* Between the writers of SecureTries a buffer belongs to the caller who   *)
(* holds the lock, and so do the goroutine at work and the answer in a     *)
(* channel.                                                                *)
THEOREM OneWriter ==
    ASSUME Writers
    PROVE  SecureSpec => []SecureInv
<1>1. SecureInit => SecureInv
  BY SecureInitInv
<1>2. SecureInv /\ [SecureNext]_allVars => SecureInv'
  BY SecureNextInv
<1> QED BY <1>1, <1>2, PTL DEF SecureSpec

(* Writers only: GetKey returns the preimage of a hashed key or nothing.   *)
THEOREM ExactPreimages ==
    ASSUME Writers
    PROVE  SecureSpec => []PreimagesAreExact
<1>1. SecureInv => PreimagesAreExact
  BY Zenon DEF SecureInv
<1> QED BY <1>1, OneWriter, PTL

(* Writers only: the goroutine of a TryUpdate updates the key that the     *)
(* caller gave, although it reads it from the buffer after it was started. *)
THEOREM OwnKeys ==
    ASSUME Writers
    PROVE  SecureSpec => []UpdatesOwnKey
<1>1. SecureInv => UpdatesOwnKey
  <2> SUFFICES ASSUME SecureInv, NEW c \in Clients, NEW i \in 1..MaxOps,
                      go[<<c, i>>].pc \in {"load", "cas", "send", "end"}
               PROVE  go[<<c, i>>].key = go[<<c, i>>].arg
    BY DEF UpdatesOwnKey, Goroutines
  <2> QED BY Zenon DEF SecureInv, ClientInv, GoInv
<1> QED BY <1>1, OneWriter, PTL

(* Writers only: a TryUpdate that has returned without an error has had    *)
(* the answer of its own goroutine, and that one has updated the trie.     *)
THEOREM UpdatesDone ==
    ASSUME Writers
    PROVE  SecureSpec => []UpdateIsDone
<1>1. SecureInv => UpdateIsDone
  BY Zenon DEF SecureInv, ClientInv, WaitInv, Own, UpdateIsDone
<1> QED BY <1>1, OneWriter, PTL

-----------------------------------------------------------------------------
(* At most one update is under way, that of the call inside the lock.      *)
LEMMA OnePending ==
    ASSUME SecureInv, NEW c \in Clients, call[c].pc \notin Outside
    PROVE  /\ Updating = {g \in {<<c, call[c].n>>} : Own(c).pc \in {"load", "cas"}}
           /\ Deleting = {d \in {c} : call[c].op = "delete" /\ call[c].pc \in {"load", "store"}}
           /\ Updating # {} => call[c].pc = "wait"
<1>1. <<c, call[c].n>> \in Goroutines
  BY Zenon, InsideFacts
<1>2. \A d \in Clients \ {c} : call[d].pc \in Outside
  BY Alone
<1>3. ASSUME NEW g \in Goroutines, go[g].pc \in {"load", "cas"} PROVE g = <<c, call[c].n>> /\ call[c].pc = "wait"
  <2>1. PICK d \in Clients : g = <<d, call[d].n>> /\ call[d].pc = "wait"
    BY <1>3, Awaited
  <2> QED BY <1>2, <2>1 DEF Outside
<1>4. Updating = {g \in {<<c, call[c].n>>} : Own(c).pc \in {"load", "cas"}}
  BY <1>1, <1>3 DEF Updating, Own
<1>5. Deleting = {d \in {c} : call[c].op = "delete" /\ call[c].pc \in {"load", "store"}}
  BY <1>2 DEF Deleting, Outside
<1>6. Updating # {} => call[c].pc = "wait"
  BY <1>3 DEF Updating
<1> QED BY <1>4, <1>5, <1>6

(* So that the pending updates are none or one.                            *)
PendingShape ==
    \A c \in Clients : call[c].pc \notin Outside =>
        /\ call[c].pc = "wait" /\ Own(c).pc \in {"load", "cas"} => Pending = {UpdateOf(<<c, call[c].n>>, Own(c))}
        /\ call[c].op = "delete" /\ call[c].pc \in {"load", "store"} => Pending = {UpdateOf(<<c, call[c].n>>, call[c])}
        /\ /\ call[c].pc = "wait" => Own(c).pc \notin {"load", "cas"}
           /\ call[c].pc \in {"load", "store"} => call[c].op # "delete"
           => Pending = {}

(* It follows from the invariant.                                          *)
LEMMA PendingIs == SecureInv => PendingShape
<1> SUFFICES ASSUME SecureInv, NEW c \in Clients, call[c].pc \notin Outside
             PROVE  /\ call[c].pc = "wait" /\ Own(c).pc \in {"load", "cas"} =>
                          Pending = {UpdateOf(<<c, call[c].n>>, Own(c))}
                    /\ call[c].op = "delete" /\ call[c].pc \in {"load", "store"} =>
                          Pending = {UpdateOf(<<c, call[c].n>>, call[c])}
                    /\ /\ call[c].pc = "wait" => Own(c).pc \notin {"load", "cas"}
                       /\ call[c].pc \in {"load", "store"} => call[c].op # "delete"
                       => Pending = {}
  BY DEF PendingShape
<1>1. /\ Updating = {g \in {<<c, call[c].n>>} : Own(c).pc \in {"load", "cas"}}
      /\ Deleting = {d \in {c} : call[c].op = "delete" /\ call[c].pc \in {"load", "store"}}
      /\ Updating # {} => call[c].pc = "wait"
  BY Zenon, OnePending
<1>2. CASE Own(c).pc \in {"load", "cas"} /\ call[c].pc = "wait"
  <2>1. Updating = {<<c, call[c].n>>} /\ Deleting = {}
    BY <1>1, <1>2
  <2>2. Pending = {UpdateOf(<<c, call[c].n>>, Own(c))}
    BY Zenon, <2>1 DEF Pending, Own
  <2> QED BY <1>2, <2>2
<1>3. CASE call[c].op = "delete" /\ call[c].pc \in {"load", "store"}
  <2>1. Updating = {} /\ Deleting = {c}
    BY <1>1, <1>3
  <2>2. Pending = {UpdateOf(<<c, call[c].n>>, call[c])}
    BY Zenon, <2>1 DEF Pending
  <2> QED BY <1>3, <2>2
<1>4. CASE /\ ~(Own(c).pc \in {"load", "cas"} /\ call[c].pc = "wait")
           /\ ~(call[c].op = "delete" /\ call[c].pc \in {"load", "store"})
  <2>1. Updating = {} /\ Deleting = {}
    BY <1>1, <1>4
  <2>2. Pending = {}
    BY <2>1 DEF Pending
  <2> QED BY <1>4, <2>2
<1> QED BY Zenon, <1>2, <1>3, <1>4

(* The steps of AtomicTrie when at most one update is under way: it        *)
(* begins.                                                                 *)
LEMMA BeginOne ==
    ASSUME root' = root, NEW u \in Atomic!Update, Pending = {}, Pending' = {u}
    PROVE  Atomic!Next
<1>1. Atomic!Begin(u)
  BY DEF Atomic!Begin
<1> QED BY <1>1 DEF Atomic!Next

(* An update that fails leaves the contents alone.                         *)
LEMMA FailOne ==
    ASSUME root' = root, NEW u \in Atomic!Update, Pending = {u}, Pending' = {}
    PROVE  Atomic!Next
<1>1. Atomic!Fail(u)
  BY Zenon DEF Atomic!Fail
<1> QED BY <1>1 DEF Atomic!Next

(* An update that succeeds has its effect, on its trie and key only.       *)
LEMMA ApplyOne ==
    ASSUME TypeOK, NEW u \in Atomic!Update, Pending = {u}, Pending' = {},
           NEW r \in Root, SetRoot(u.trie, r), r.node = [root[u.trie].node EXCEPT ![u.key] = u.value]
    PROVE  Atomic!Next
<1> DEFINE map == [tr \in Tries |-> root[tr].node]
<1>1. u.trie \in Tries
  BY DEF Atomic!Update
<1>2. root'[u.trie].node = r.node /\ \A x \in Tries \ {u.trie} : root'[x] = root[x]
  BY Zenon, <1>1, SetRootType
<1>3. map' = [map EXCEPT ![u.trie] = [@ EXCEPT ![u.key] = u.value]]
  BY Zenon, <1>1, <1>2
<1>4. Atomic!Apply(u)
  BY <1>3 DEF Atomic!Apply
<1> QED BY <1>4 DEF Atomic!Next

(* A step outside of the trie leaves its contents and its updates alone.   *)
LEMMA QuietStutters ==
    ASSUME NEW c \in Clients, root' = root, go' = go, \A d \in Clients \ {c} : call'[d] = call[d],
           c \notin Deleting, c \notin Deleting'
    PROVE  UNCHANGED Atomic!vars
<1>1. Updating' = Updating /\ Deleting' = Deleting
  BY Zenon DEF Updating, Deleting
<1>2. Pending' = Pending
  BY SMTT(30), <1>1 DEF Pending, UpdateOf, Deleting
<1> QED BY Zenon, <1>2 DEF Atomic!vars

(* Calling, locking, hashing, returning and receiving are such steps.      *)
LEMMA QuietSteps ==
    ASSUME Writers, SecureInv, SecureInv', NEW c \in Clients,
           Call(c) \/ Lock(c) \/ hashKey(c) \/ Uncache(c) \/ Finish(c) \/ Receive(c)
    PROVE  UNCHANGED Atomic!vars
<1>1. root' = root /\ go' = go /\ call[c].pc \notin {"load", "store"}
  BY Zenon DEF Call, Lock, hashKey, Uncache, Finish, Return, Receive
<1>2. \A d \in Clients \ {c} : call'[d] = call[d]
  <2>1. \E x : call' = [call EXCEPT ![c] = x]
    BY Zenon DEF Call, Lock, hashKey, Uncache, Finish, Return, Receive
  <2>2. call \in [Clients -> CallType]
    BY Zenon DEF SecureInv, SecureTypeOK, TypeOK
  <2> QED BY <2>1, <2>2
<1>3. call'[c].pc \in {"load", "store"} => call'[c].op # "delete"
  <2>1. TypeOK /\ call[c] \in CallType /\ CallInv(c)
    BY Zenon DEF SecureInv, SecureTypeOK, TypeOK, ClientInv
  <2>2. CASE Lock(c)
    <3> DEFINE p == IF want[c] = 1 THEN Entry(call[c].op) ELSE call[c].pc
    <3>1. call' = [call EXCEPT ![c] = [@ EXCEPT !.pc = p]] /\ call[c].pc = "lock"
      BY Zenon, <2>2 DEF Lock
    <3>2. p \in Pcs /\ (p \in {"load", "store"} => call[c].op # "delete")
      BY <2>1, <3>1 DEF Entry, CallType, Pcs
    <3> HIDE DEF p
    <3>3. call'[c].pc = p /\ SameCall(call'[c], call[c])
      BY Zenon, <2>1, <3>1, <3>2, Moved
    <3> QED BY Zenon, <3>2, <3>3 DEF SameCall
  <2>3. CASE hashKey(c) \/ Uncache(c) \/ Finish(c)
    <3>1. PICK p \in {"uncache", "key", "idle"} : call' = [call EXCEPT ![c] = [@ EXCEPT !.pc = p]]
      BY Zenon, <2>3 DEF hashKey, Uncache, Finish, Return
    <3>2. call'[c].pc = p
      BY Zenon, <2>1, <3>1, Moved DEF Pcs
    <3> QED BY <3>1, <3>2
  <2>4. CASE Receive(c)
    BY <2>1, <2>4 DEF Receive, TypeOK, CallType
  <2>5. CASE Call(c)
    BY Zenon, <2>5, Calls
  <2> QED BY Zenon, <2>2, <2>3, <2>4, <2>5
<1>4. c \notin Deleting /\ c \notin Deleting'
  BY Zenon, <1>1, <1>3 DEF Deleting
<1> QED BY Zenon, <1>1, <1>2, <1>4, QuietStutters

(* The update of a call or of a goroutine is one of AtomicTrie.            *)
LEMMA UpdateType ==
    ASSUME NEW id \in Goroutines, NEW x, x \in CallType \/ x \in GoType
    PROVE  /\ UpdateOf(id, x) \in Atomic!Update
           /\ UpdateOf(id, x).trie = x.trie /\ UpdateOf(id, x).key = x.key /\ UpdateOf(id, x).value = x.value
<1>1. x.trie \in Tries /\ x.key \in Keys /\ x.value \in Values
  BY DEF CallType, GoType
<1> QED BY Zenon, <1>1 DEF UpdateOf, Atomic!Update

(* TryUpdate and TryDelete start: a TryDelete is under way.                *)
LEMMA ReadKeyRefines ==
    ASSUME SecureInv, SecureInv', PendingShape, PendingShape', NEW c \in Clients,
           ReadKey(c, hashKeyBuf[call[c].trie])
    PROVE  [Atomic!Next]_(Atomic!vars)
<1>1. call[c].pc = "key" /\ root' = root
  BY Zenon DEF ReadKey
<1>2. call[c] \in CallType /\ call \in [Clients -> CallType] /\ go \in [Goroutines -> GoType]
      /\ <<c, call[c].n>> \in Goroutines /\ Own(c) \in GoType /\ CallInv(c)
  BY Zenon, <1>1, InsideFacts DEF Outside, TypeOK
<1>3. Pending = {}
  BY Zenon, <1>1 DEF PendingShape, Outside
<1> DEFINE k == hashKeyBuf[call[c].trie]
<1>4. CASE call[c].op = "update"
  <2>1. call'[c] = [call[c] EXCEPT !.pc = "wait", !.key = k]
        /\ go'[<<c, call[c].n>>] = [Own(c) EXCEPT !.pc = "key", !.trie = call[c].trie, !.arg = call[c].arg,
                                                  !.ch = channelOf[k], !.value = call[c].value]
    BY <1>2, <1>4 DEF ReadKey, Own
  <2>2. call'[c].pc = "wait" /\ call'[c].n = call[c].n /\ go'[<<c, call[c].n>>].pc = "key"
    BY Zenon, <1>2, <2>1 DEF CallType, GoType
  <2>3. Pending' = {}
    BY Zenon, <2>2 DEF PendingShape, Outside, Own
  <2> QED BY <1>1, <1>3, <2>3 DEF Atomic!vars
<1>5. CASE call[c].op # "update"
  <2>1. call'[c] = [call[c] EXCEPT !.pc = "load", !.key = k]
    BY <1>2, <1>5 DEF ReadKey
  <2>2. call'[c].pc = "load" /\ call'[c].n = call[c].n /\ call'[c].op = "delete"
    BY Zenon, <1>1, <1>2, <1>5, <2>1 DEF CallType, CallInv
  <2>3. Pending' = {UpdateOf(<<c, call[c].n>>, call'[c])}
    BY Zenon, <2>2 DEF PendingShape, Outside, UpdateOf
  <2>4. call'[c] \in CallType
    BY Zenon DEF SecureInv, SecureTypeOK, TypeOK
  <2>5. UpdateOf(<<c, call[c].n>>, call'[c]) \in Atomic!Update
    BY Zenon, <1>2, <2>4, UpdateType
  <2> QED BY Zenon, <1>1, <1>3, <2>3, <2>5, BeginOne
<1> QED BY <1>4, <1>5

(* A TryDelete has read the root or failed.                                *)
LEMMA LoadRefines ==
    ASSUME SecureInv, SecureInv', PendingShape, PendingShape', NEW c \in Clients, Load(c)
    PROVE  [Atomic!Next]_(Atomic!vars)
<1>1. call[c].pc = "load" /\ root' = root
  BY Zenon DEF Load
<1>2. call[c] \in CallType /\ call \in [Clients -> CallType] /\ <<c, call[c].n>> \in Goroutines /\ CallInv(c)
  BY Zenon, <1>1, InsideFacts DEF Outside, TypeOK
<1>3. call[c].op \in {"delete", "commit"} /\ call[c].op # "get"
  BY <1>1, <1>2 DEF CallInv
<1>4. PICK err \in BOOLEAN :
        call' = [call EXCEPT ![c] = [@ EXCEPT !.err = err, !.old = root[call[c].trie], !.value = call[c].value,
                                              !.pc = IF err THEN "done" ELSE "store"]]
  BY Zenon, <1>3 DEF Load, ResolveErrors
<1>5. /\ call'[c].pc \in {"done", "store"} /\ call'[c].op = call[c].op /\ call'[c].n = call[c].n
      /\ call'[c].trie = call[c].trie /\ call'[c].key = call[c].key /\ call'[c].value = call[c].value
  BY <1>2, <1>4 DEF CallType
<1>6. CASE call[c].op = "commit"
  <2>1. Pending = {} /\ Pending' = {}
    BY Zenon, <1>1, <1>5, <1>6 DEF PendingShape, Outside
  <2> QED BY <1>1, <2>1 DEF Atomic!vars
<1>7. CASE call[c].op = "delete"
  <2> DEFINE u == UpdateOf(<<c, call[c].n>>, call[c])
  <2>1. Pending = {u} /\ u \in Atomic!Update
    BY Zenon, <1>1, <1>2, <1>7, UpdateType DEF PendingShape, Outside
  <2>2. CASE call'[c].pc = "done"
    <3>1. Pending' = {}
      BY Zenon, <2>2 DEF PendingShape, Outside
    <3> QED BY Zenon, <1>1, <2>1, <3>1, FailOne
  <2>3. CASE call'[c].pc = "store"
    <3>1. Pending' = {UpdateOf(<<c, call'[c].n>>, call'[c])}
      BY Zenon, <1>5, <1>7, <2>3 DEF PendingShape, Outside, UpdateOf
    <3>2. UpdateOf(<<c, call'[c].n>>, call'[c]) = u
      BY <1>5 DEF UpdateOf
    <3> QED BY Zenon, <1>1, <2>1, <3>1, <3>2 DEF Atomic!vars
  <2> QED BY Zenon, <1>5, <2>2, <2>3
<1> QED BY <1>3, <1>6, <1>7

(* The store of a TryDelete applies it; that of a Commit changes nothing.  *)
LEMMA StoreRefines ==
    ASSUME SecureInv, SecureInv', PendingShape, PendingShape', NEW c \in Clients, Store(c)
    PROVE  [Atomic!Next]_(Atomic!vars)
<1>1. call[c].pc = "store" /\ call' = [call EXCEPT ![c] = [@ EXCEPT !.pc = "done"]]
  BY Zenon DEF Store
<1>2. call[c] \in CallType /\ call \in [Clients -> CallType] /\ <<c, call[c].n>> \in Goroutines /\ CallInv(c) /\ TypeOK
  BY Zenon, <1>1, InsideFacts DEF Outside, TypeOK
<1>3. call'[c].pc = "done"
  BY <1>1, <1>2 DEF CallType
<1>4. Pending' = {}
  BY Zenon, <1>3 DEF PendingShape, Outside
<1>5. PICK r \in Root : /\ SetRoot(call[c].trie, r)
                        /\ r.node = IF call[c].op = "delete"
                                      THEN [root[call[c].trie].node EXCEPT ![call[c].key] = NoValue]
                                      ELSE root[call[c].trie].node
  BY Zenon, StoreWrites
<1>6. CASE call[c].op = "delete"
  <2> DEFINE u == UpdateOf(<<c, call[c].n>>, call[c])
  <2>1. Pending = {u}
    BY <1>1, <1>6 DEF PendingShape, Outside
  <2>2. u \in Atomic!Update /\ u.trie = call[c].trie /\ u.key = call[c].key /\ u.value = call[c].value
    BY Zenon, <1>2, UpdateType
  <2>3. call[c].value = NoValue
    BY Zenon, <1>2, <1>6 DEF CallInv
  <2> HIDE DEF u
  <2>4. SetRoot(u.trie, r) /\ r.node = [root[u.trie].node EXCEPT ![u.key] = u.value]
    BY Zenon, <1>5, <1>6, <2>2, <2>3
  <2> QED BY Zenon, <1>2, <1>4, <1>5, <2>1, <2>2, <2>4, ApplyOne
<1>7. CASE call[c].op # "delete"
  <2>1. Pending = {}
    BY Zenon, <1>1, <1>7 DEF PendingShape, Outside
  <2>2. call[c].trie \in Tries
    BY Zenon, <1>2 DEF CallType
  <2>3. root'[call[c].trie].node = root[call[c].trie].node /\ \A x \in Tries \ {call[c].trie} : root'[x] = root[x]
    BY Zenon, <1>2, <1>5, <1>7, <2>2, SetRootType
  <2> QED BY <1>4, <2>1, <2>3 DEF Atomic!vars
<1> QED BY <1>6, <1>7

(* A goroutine begins its update when it has its key, and applies it with  *)
(* its compare-and-swap.                                                   *)
LEMMA GoStepRefines ==
    ASSUME SecureInv, SecureInv', PendingShape, PendingShape', NEW g \in Goroutines, SecureGoStep(g)
    PROVE  [Atomic!Next]_(Atomic!vars)
<1>0. go[g].pc \in {"key", "load", "cas", "send"} /\ call' = call
  BY Zenon DEF SecureGoStep, UpdateKey, tryUpdate, UpdateLoad, UpdateCAS, UpdateSend
<1>1. PICK c \in Clients : g = <<c, call[c].n>> /\ call[c].pc = "wait"
  BY Zenon, <1>0, Awaited
<1>2. go[g] = Own(c) /\ go'[g] = Own(c)' /\ go[g] \in GoType /\ go'[g] \in GoType /\ go \in [Goroutines -> GoType]
  BY <1>0, <1>1 DEF Own, SecureInv, SecureTypeOK, TypeOK
<1> DEFINE u == UpdateOf(g, go[g])
           u2 == UpdateOf(g, go'[g])
<1>3. /\ u \in Atomic!Update /\ u.trie = go[g].trie /\ u.key = go[g].key /\ u.value = go[g].value
      /\ u2 \in Atomic!Update
  BY Zenon, <1>2, UpdateType
<1>4. Pending = IF go[g].pc \in {"load", "cas"} THEN {u} ELSE {}
  BY Zenon, <1>1, <1>2 DEF PendingShape, Outside
<1>5. Pending' = IF go'[g].pc \in {"load", "cas"} THEN {u2} ELSE {}
  <2>1. UpdateOf(<<c, call[c].n>>, Own(c))' = u2
    BY Zenon, <1>0, <1>1, <1>2 DEF UpdateOf
  <2> QED BY Zenon, <1>0, <1>1, <1>2, <2>1 DEF PendingShape, Outside
<1>6. CASE UpdateKey(g, hashKeyBuf[go[g].trie])
  <2>1. go[g].pc = "key" /\ go'[g].pc = "load" /\ root' = root
    BY Zenon, <1>2, <1>6 DEF UpdateKey, GoType
  <2>2. Pending = {} /\ Pending' = {u2}
    BY Zenon, <1>4, <1>5, <2>1
  <2> QED BY Zenon, <1>3, <2>1, <2>2, BeginOne
<1>7. CASE UpdateLoad(g)
  <2>1. go[g].pc = "load" /\ root' = root /\ Pending = {u}
    BY <1>4, <1>7 DEF UpdateLoad
  <2>2. PICK err \in BOOLEAN : go' = [go EXCEPT ![g] = [@ EXCEPT !.pc = IF err THEN "send" ELSE "cas", !.err = err,
                                                                  !.old = root[go[g].trie]]]
    BY Zenon, <1>7 DEF UpdateLoad, ResolveErrors
  <2>3. /\ go'[g].pc \in {"send", "cas"}
        /\ go'[g].trie = go[g].trie /\ go'[g].key = go[g].key /\ go'[g].value = go[g].value
    BY Zenon, <1>2, <2>2 DEF GoType
  <2>4. CASE go'[g].pc = "send"
    <3>1. Pending' = {}
      BY <1>5, <2>4
    <3> QED BY Zenon, <1>3, <2>1, <3>1, FailOne
  <2>5. CASE go'[g].pc = "cas"
    <3>1. Pending' = {u2} /\ u2 = u
      BY Zenon, <1>5, <2>3, <2>5 DEF UpdateOf
    <3> QED BY Zenon, <2>1, <3>1 DEF Atomic!vars
  <2> QED BY <2>3, <2>4, <2>5
<1>8. CASE UpdateCAS(g)
  <2>1. go[g].pc = "cas" /\ Pending = {u}
    BY <1>4, <1>8 DEF UpdateCAS
  <2>2. CASE root[go[g].trie].ptr = go[g].old.ptr
    <3> DEFINE r == insert(go[g].old, go[g].key, go[g].value)
    <3>1. SetRoot(go[g].trie, r) /\ go' = [go EXCEPT ![g] = [@ EXCEPT !.pc = "send"]]
      BY <1>8, <2>2 DEF UpdateCAS
    <3>2. go'[g].pc = "send"
      BY <1>2, <3>1 DEF GoType
    <3>3. Pending' = {}
      BY Zenon, <1>5, <3>2
    <3>4. WaitInv(c) /\ TypeOK
      BY Zenon DEF SecureInv, SecureTypeOK, ClientInv
    <3>5. go[g].old = root[go[g].trie]
      BY Zenon, <1>1, <1>2, <2>1, <3>4 DEF WaitInv
    <3>6. r \in Root /\ r.node = [go[g].old.node EXCEPT ![go[g].key] = go[g].value]
      <4>1. go[g].old \in Root /\ go[g].key \in Keys /\ go[g].value \in Values
        BY Zenon, <1>2 DEF GoType
      <4> QED BY <4>1, InsertType
    <3> HIDE DEF r, u
    <3>7. SetRoot(u.trie, r) /\ r.node = [root[u.trie].node EXCEPT ![u.key] = u.value]
      BY <1>3, <3>1, <3>5, <3>6
    <3> QED BY Zenon, <1>3, <2>1, <3>3, <3>4, <3>6, <3>7, ApplyOne
  <2>3. CASE root[go[g].trie].ptr # go[g].old.ptr
    <3>1. root' = root /\ go' = [go EXCEPT ![g] = [@ EXCEPT !.pc = "load"]]
      BY <1>8, <2>3 DEF UpdateCAS
    <3>2. go'[g].pc = "load" /\ go'[g].trie = go[g].trie /\ go'[g].key = go[g].key /\ go'[g].value = go[g].value
      BY SMTT(30), <1>2, <3>1 DEF GoType
    <3>3. Pending' = {u2} /\ u2 = u
      BY Zenon, <1>5, <3>2 DEF UpdateOf
    <3> QED BY <2>1, <3>1, <3>3 DEF Atomic!vars
  <2> QED BY <2>2, <2>3
<1>9. CASE UpdateSend(g)
  <2>1. go[g].pc = "send" /\ go'[g].pc = "end" /\ root' = root
    BY Zenon, <1>2, <1>9 DEF UpdateSend, GoType
  <2>2. Pending = {} /\ Pending' = {}
    BY <1>4, <1>5, <2>1
  <2> QED BY <2>1, <2>2 DEF Atomic!vars
<1> QED BY <1>6, <1>7, <1>8, <1>9 DEF SecureGoStep, tryUpdate

(* Writers only: every TryUpdate takes effect at its compare-and-swap and  *)
(* every TryDelete at its store, which compares nothing, exactly once or   *)
(* with an error, whatever nodes are loaded; a Commit changes nothing.     *)
THEOREM WritersAreAtomic ==
    ASSUME Writers
    PROVE  SecureSpec => UpdatesAreAtomic
<1>1. SecureInit => Atomic!Init
  <2> SUFFICES ASSUME SecureInit PROVE Atomic!Init
    OBVIOUS
  <2>1. SecureInv
    BY SecureInitInv
  <2>2. [tr \in Tries |-> root[tr].node] \in [Tries -> [Keys -> Values]]
    BY <2>1 DEF SecureInv, SecureTypeOK, TypeOK, Root, Node
  <2>3. Updating = {} /\ Deleting = {}
    BY Zenon DEF Updating, Deleting, SecureInit, Init
  <2>4. Pending = {}
    BY <2>3 DEF Pending
  <2> QED BY <2>2, <2>4 DEF Atomic!Init
<1>2. SecureInv /\ SecureInv' /\ PendingShape /\ PendingShape' /\ [SecureNext]_allVars => [Atomic!Next]_(Atomic!vars)
  <2> SUFFICES ASSUME SecureInv, SecureInv', PendingShape, PendingShape', [SecureNext]_allVars
               PROVE  [Atomic!Next]_(Atomic!vars)
    OBVIOUS
  <2>1. CASE UNCHANGED allVars
    <3>1. UNCHANGED <<root, call, go>>
      BY Zenon, <2>1 DEF allVars, vars
    <3>2. UNCHANGED Atomic!vars
      BY <3>1 DEF Atomic!vars, Pending, Updating, Deleting, UpdateOf
    <3> QED BY <3>2
  <2>2. ASSUME NEW c \in Clients, Call(c) \/ SecureStep(c) PROVE [Atomic!Next]_(Atomic!vars)
    BY Zenon, <2>2, QuietSteps, ReadKeyRefines, LoadRefines, StoreRefines DEF SecureStep
  <2>3. ASSUME NEW g \in Goroutines, SecureGoStep(g) PROVE [Atomic!Next]_(Atomic!vars)
    BY <2>3, GoStepRefines
  <2> QED BY <2>1, <2>2, <2>3 DEF SecureNext
<1>3. SecureSpec => []SecureInv
  BY OneWriter
<1> QED BY <1>1, <1>2, <1>3, PendingIs, PTL DEF SecureSpec, UpdatesAreAtomic, Atomic!Spec

=============================================================================
