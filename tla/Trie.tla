-------------------------------- MODULE Trie --------------------------------
(***************************************************************************)
(* The Merkle Patricia trie of package trie: the nodes in memory, those    *)
(* that are only referred to by their hash, and the algorithms that        *)
(* insert, delete, read, hash, commit and unload them.                     *)
(*                                                                         *)
(* A hash determines what is hashed, so a hash IS the bare node: the node  *)
(* without flags, with every hash below it replaced by what it stands for. *)
(***************************************************************************)
EXTENDS Naturals, SequencesExt, FiniteSets

CONSTANTS
    Base,        \* the number of nibbles, 16 in the code, also the terminator
    Keys,        \* sequences of nibbles
    Values,
    Big,         \* the values that make a node longer than a hash
    cachelimit,
    MaxCommits

ASSUME KeysAssumption ==
    /\ \A k \in Keys : \A i \in DOMAIN k : k[i] \in 0..(Base - 1)
    /\ Big \subseteq Values

VARIABLES
    root,        \* *t.root
    cachegen,
    db,          \* the nodes in the database, by hash
    content      \* what was put under each key and not deleted

vars == <<root, cachegen, db, content>>

NoValue == "none"
nil == [type |-> "nil"]
NoHash == [type |-> "nohash"]
valueNode(v) == [type |-> "value", v |-> v]
hashNode(h) == [type |-> "hash", of |-> h]
shortNode(k, n, f) == [type |-> "short", Key |-> k, Val |-> n, flags |-> f]
fullNode(c, f) == [type |-> "full", Children |-> c, flags |-> f]
newFlag == [hash |-> NoHash, dirty |-> TRUE, gen |-> cachegen]

keybytesToHex(k) == Append(k, Base)

prefixLen(a, b) ==
    CHOOSE i \in 0..Len(a) :
        /\ i <= Len(b) /\ SubSeq(a, 1, i) = SubSeq(b, 1, i)
        /\ i < Len(a) /\ i < Len(b) => a[i + 1] # b[i + 1]

Drop(s, n) == SubSeq(s, n + 1, Len(s))

-----------------------------------------------------------------------------
(* Bare nodes.                                                             *)
NoFlags == [hash |-> NoHash, dirty |-> FALSE, gen |-> 0]

RECURSIVE Bare(_)
Bare(n) ==
    CASE n.type = "hash"  -> n.of
      [] n.type = "short" -> shortNode(n.Key, Bare(n.Val), NoFlags)
      [] n.type = "full"  -> fullNode([i \in 0..Base |-> Bare(n.Children[i])], NoFlags)
      [] OTHER            -> n

RECURSIVE ValuesBelow(_)
ValuesBelow(n) ==
    CASE n.type = "value" -> <<n.v>>
      [] n.type = "short" -> ValuesBelow(n.Val)
      [] n.type = "full"  -> FlattenSeq([i \in 1..(Base + 1) |-> ValuesBelow(n.Children[i - 1])])
      [] OTHER            -> << >>

(* A node whose encoding has 32 bytes or more, which is kept by its hash:  *)
(* it has a big value or many small ones.                                  *)
Large(n) == LET s == ValuesBelow(n) IN Len(s) > 2 \/ Range(s) \cap Big # {}

RECURSIVE expandNode(_, _)
(* What the database returns for a hash: large children are hash nodes,    *)
(* the others are part of the encoding.                                    *)
expandNode(n, hash) ==
    LET child(c) == CASE c.type \in {"nil", "value"} -> c
                      [] OTHER -> IF Large(c) THEN hashNode(c) ELSE expandNode(c, NoHash)
        flags == [hash |-> hash, dirty |-> FALSE, gen |-> cachegen]
    IN  IF n.type = "short"
          THEN shortNode(n.Key, child(n.Val), flags)
          ELSE fullNode([i \in 0..Base |-> child(n.Children[i])], flags)

(* resolveHash; an error is a record without a node.                       *)
Resolved(n) == n.of \in db
resolveHash(n) == expandNode(n.of, n.of)

Result(dirty, n) == [dirty |-> dirty, node |-> n, err |-> FALSE]
MissingNodeError(n) == [dirty |-> FALSE, node |-> n, err |-> TRUE]

-----------------------------------------------------------------------------
(* Mutant: a node that was loaded stays in its generation.                 *)
Stays(n) == n

(* A copy of a node below which one was loaded.                            *)
Reached(n) == [n EXCEPT !.flags.gen = cachegen]

RECURSIVE tryGet(_, _)
(* The node that tryGet leaves in place of n, and the value.               *)
tryGet(n, key) ==
    CASE n.type = "nil" -> [value |-> NoValue, node |-> n, didResolve |-> FALSE, err |-> FALSE]
      [] n.type = "value" -> [value |-> n.v, node |-> n, didResolve |-> FALSE, err |-> FALSE]
      [] n.type = "short" ->
           IF ~IsPrefix(n.Key, key)
             THEN [value |-> NoValue, node |-> n, didResolve |-> FALSE, err |-> FALSE]
             ELSE LET r == tryGet(n.Val, Drop(key, Len(n.Key)))
                  IN  IF r.err \/ ~r.didResolve THEN [r EXCEPT !.node = n]
                      ELSE [r EXCEPT !.node = [Reached(n) EXCEPT !.Val = r.node]]
      [] n.type = "full" ->
           LET r == tryGet(n.Children[key[1]], Tail(key))
           IN  IF r.err \/ ~r.didResolve THEN [r EXCEPT !.node = n]
               ELSE [r EXCEPT !.node = [Reached(n) EXCEPT !.Children[key[1]] = r.node]]
      [] n.type = "hash" ->
           IF ~Resolved(n) THEN [value |-> NoValue, node |-> n, didResolve |-> TRUE, err |-> TRUE]
           ELSE [tryGet(resolveHash(n), key) EXCEPT !.didResolve = TRUE]

-----------------------------------------------------------------------------
(* Mutant: the copy of a full node keeps the flags of the original.        *)
Touched(n) == n

(* The copy of a full node that is about to change.                        *)
Fresh(n) == [n EXCEPT !.flags = newFlag]

RECURSIVE insert(_, _, _)
insert(n, key, value) ==
    IF key = << >> THEN Result(n # value, value)
    ELSE
    CASE n.type = "short" ->
           LET matchlen == prefixLen(key, n.Key)
           IN  IF matchlen = Len(n.Key)
                 THEN LET r == insert(n.Val, Drop(key, matchlen), value)
                      IN  IF r.err \/ ~r.dirty THEN [r EXCEPT !.dirty = FALSE, !.node = n]
                          ELSE Result(TRUE, shortNode(n.Key, r.node, newFlag))
                 ELSE LET old == insert(nil, Drop(n.Key, matchlen + 1), n.Val).node
                          new == insert(nil, Drop(key, matchlen + 1), value).node
                          branch == fullNode([i \in 0..Base |->
                                                CASE i = n.Key[matchlen + 1] -> old
                                                  [] i = key[matchlen + 1]   -> new
                                                  [] OTHER                   -> nil], newFlag)
                      IN  Result(TRUE, IF matchlen = 0 THEN branch
                                       ELSE shortNode(SubSeq(key, 1, matchlen), branch, newFlag))
      [] n.type = "full" ->
           LET r == insert(n.Children[key[1]], Tail(key), value)
           IN  IF r.err \/ ~r.dirty THEN [r EXCEPT !.dirty = FALSE, !.node = n]
               ELSE Result(TRUE, [Fresh(n) EXCEPT !.Children[key[1]] = r.node])
      [] n.type = "nil" -> Result(TRUE, shortNode(key, value, newFlag))
      [] n.type = "hash" ->
           IF ~Resolved(n) THEN MissingNodeError(n)
           ELSE LET r == insert(resolveHash(n), key, value)
                IN  [r EXCEPT !.dirty = r.dirty /\ ~r.err]

(* Mutant: the last child of a full node is not resolved.                  *)
reduceLoaded(n) ==
    LET left == {i \in 0..Base : n.Children[i] # nil}
        pos == CHOOSE i \in left : TRUE
        c == n.Children[pos]
    IN  CASE Cardinality(left) # 1 -> Result(TRUE, n)
          [] pos # Base /\ c.type = "short" ->
               Result(TRUE, shortNode(<<pos>> \o c.Key, c.Val, newFlag))
          [] OTHER -> Result(TRUE, shortNode(<<pos>>, c, newFlag))

(* A full node after a deletion becomes a short node if it has one child   *)
(* left, merged with the child if that is a short node.                    *)
reduce(n) ==
    LET left == {i \in 0..Base : n.Children[i] # nil}
        pos == CHOOSE i \in left : TRUE
        c == n.Children[pos]
        loaded == IF c.type = "hash" /\ Resolved(c) THEN resolveHash(c) ELSE c
    IN  CASE Cardinality(left) # 1 -> Result(TRUE, n)
          [] pos # Base /\ loaded.type = "hash" -> MissingNodeError(n)
          [] pos # Base /\ loaded.type = "short" ->
               Result(TRUE, shortNode(<<pos>> \o loaded.Key, loaded.Val, newFlag))
          [] OTHER -> Result(TRUE, shortNode(<<pos>>, c, newFlag))

RECURSIVE delete(_, _)
delete(n, key) ==
    CASE n.type = "short" ->
           LET matchlen == prefixLen(key, n.Key)
               r == delete(n.Val, Drop(key, Len(n.Key)))
           IN  CASE matchlen < Len(n.Key) -> Result(FALSE, n)
                 [] matchlen = Len(key) -> Result(TRUE, nil)
                 [] r.err \/ ~r.dirty -> [r EXCEPT !.dirty = FALSE, !.node = n]
                 [] r.node.type = "short" ->
                      Result(TRUE, shortNode(n.Key \o r.node.Key, r.node.Val, newFlag))
                 [] OTHER -> Result(TRUE, shortNode(n.Key, r.node, newFlag))
      [] n.type = "full" ->
           LET r == delete(n.Children[key[1]], Tail(key))
           IN  IF r.err \/ ~r.dirty THEN [r EXCEPT !.dirty = FALSE, !.node = n]
               ELSE reduce([Fresh(n) EXCEPT !.Children[key[1]] = r.node])
      [] n.type = "value" -> Result(TRUE, nil)
      [] n.type = "nil" -> Result(FALSE, nil)
      [] n.type = "hash" ->
           IF ~Resolved(n) THEN MissingNodeError(n)
           ELSE LET r == delete(resolveHash(n), key)
                IN  [r EXCEPT !.dirty = r.dirty /\ ~r.err]

-----------------------------------------------------------------------------
(* Mutant: a dirty node is unloaded as well.                               *)
canUnloadDirty(n) == cachegen - n.flags.gen >= cachelimit

canUnload(n) == ~n.flags.dirty /\ cachegen - n.flags.gen >= cachelimit

RECURSIVE hash(_, _, _)
(* The hash of n, the node that replaces n with its hash cached, and, when *)
(* this is a commit, the nodes that go to the database.                    *)
hash(n, commit, force) ==
    LET known == n.flags.hash # NoHash
        below == IF n.type = "short" THEN {0} ELSE 0..Base
        child(i) == IF n.type = "short" THEN n.Val ELSE n.Children[i]
        leaf(i) == child(i).type \in {"nil", "value"}
        hashed == [i \in below |-> IF leaf(i) THEN [hash |-> child(i), cached |-> child(i), stored |-> {}]
                                   ELSE hash(child(i), commit, FALSE)]
        with(sub, flags) == IF n.type = "short" THEN shortNode(n.Key, sub[0], flags) ELSE fullNode(sub, flags)
        collapsed == with([i \in below |-> hashed[i].hash], NoFlags)
        kept == force \/ Large(collapsed)
        h == IF known THEN n.flags.hash ELSE collapsed
    IN  CASE n.type = "hash" -> [hash |-> n.of, cached |-> n, stored |-> {}]
          [] known /\ ~commit -> [hash |-> n.flags.hash, cached |-> n, stored |-> {}]
          [] known /\ commit /\ canUnload(n) ->
               [hash |-> n.flags.hash, cached |-> hashNode(n.flags.hash), stored |-> {}]
          [] known /\ commit /\ ~canUnload(n) /\ ~n.flags.dirty ->
               [hash |-> n.flags.hash, cached |-> n, stored |-> {}]
          [] OTHER ->
               [hash   |-> IF kept THEN h ELSE collapsed,
                cached |-> with([i \in below |-> hashed[i].cached],
                                [hash  |-> IF kept THEN h ELSE NoHash,
                                 dirty |-> n.flags.dirty /\ ~commit,
                                 gen   |-> n.flags.gen]),
                stored |-> {x \in {h} : commit /\ kept} \cup UNION {hashed[i].stored : i \in below}]

hashRoot(commit) ==
    IF root = nil THEN [hash |-> nil, cached |-> nil, stored |-> {}] ELSE hash(root, commit, TRUE)

-----------------------------------------------------------------------------
(* New, on an empty database.                                              *)
Init ==
    /\ root = nil
    /\ cachegen = 0
    /\ db = {}
    /\ content = [k \in Keys |-> NoValue]

TryGet(k) ==
    LET r == tryGet(root, keybytesToHex(k))
    IN  /\ root' = IF ~r.err /\ r.didResolve THEN r.node ELSE root
        /\ UNCHANGED <<cachegen, db, content>>

(* An error leaves everything as it is, here and in TryDelete.             *)
TryUpdate(k, v) ==
    LET r == insert(root, keybytesToHex(k), valueNode(v))
    IN  /\ ~r.err
        /\ root' = r.node
        /\ content' = [content EXCEPT ![k] = v]
        /\ UNCHANGED <<cachegen, db>>

(* TryDelete, and TryUpdate with an empty value.                           *)
TryDelete(k) ==
    LET r == delete(root, keybytesToHex(k))
    IN  /\ ~r.err
        /\ root' = r.node
        /\ content' = [content EXCEPT ![k] = NoValue]
        /\ UNCHANGED <<cachegen, db>>

Hash ==
    /\ root' = hashRoot(FALSE).cached
    /\ UNCHANGED <<cachegen, db, content>>

Commit ==
    LET r == hashRoot(TRUE)
    IN  /\ cachegen < MaxCommits
        /\ root' = r.cached
        /\ db' = db \cup r.stored
        /\ cachegen' = cachegen + 1
        /\ UNCHANGED content

Next ==
    \/ \E k \in Keys : TryGet(k) \/ TryDelete(k) \/ \E v \in Values : TryUpdate(k, v)
    \/ Hash
    \/ Commit

Spec == Init /\ [][Next]_vars

-----------------------------------------------------------------------------
(* The reference: the trie for a set of keys with values.  A single key    *)
(* is a short node; several have a short node for their common prefix, if  *)
(* they have one, and a full node that branches on the next nibble.        *)
RECURSIVE Canonical(_)
Canonical(f) ==
    LET keys == DOMAIN f
        some == CHOOSE k \in keys : TRUE
        p == CHOOSE i \in 0..Len(some) :
               /\ \A k \in keys : IsPrefix(SubSeq(some, 1, i), k)
               /\ i < Len(some) => \E k \in keys : ~IsPrefix(SubSeq(some, 1, i + 1), k)
        under(i) == {k \in keys : k[p + 1] = i}
        children == [i \in 0..Base |->
                       Canonical([s \in {Drop(k, p + 1) : k \in under(i)} |->
                                    f[SubSeq(some, 1, p) \o <<i>> \o s]])]
    IN  CASE keys = {} -> nil
          [] keys = {<< >>} -> valueNode(f[<< >>])
          [] Cardinality(keys) = 1 /\ some # << >> -> shortNode(some, valueNode(f[some]), NoFlags)
          [] Cardinality(keys) > 1 /\ p = 0 -> fullNode(children, NoFlags)
          [] OTHER -> shortNode(SubSeq(some, 1, p), fullNode(children, NoFlags), NoFlags)

Present == {k \in Keys : content[k] # NoValue}

(* The root hash, computed with all the cached hashes, depends on the      *)
(* content alone and not on the history of insertions, deletions, loads    *)
(* and commits: it is the hash of the reference trie.                      *)
RootIsCanonical ==
    hashRoot(FALSE).hash =
        Canonical([k \in {keybytesToHex(x) : x \in Present} |-> content[SubSeq(k, 1, Len(k) - 1)]])

(* TryGet finds the last value of every key, and never fails to load a     *)
(* node: Commit has stored every node before one is unloaded.              *)
GetReturnsLast ==
    \A k \in Keys : LET r == tryGet(root, keybytesToHex(k))
                    IN  ~r.err /\ r.value = content[k]

RECURSIVE Loaded(_)
(* The short and full nodes that are loaded under n.                       *)
Loaded(n) ==
    CASE n.type = "short" -> {n} \cup Loaded(n.Val)
      [] n.type = "full"  -> {n} \cup UNION {Loaded(n.Children[i]) : i \in 0..Base}
      [] OTHER            -> {}

(* What hash relies on when it unloads a whole subtree: all the subnodes   *)
(* of a node have a lower or equal cache generation, and those of a clean  *)
(* node are clean.                                                         *)
SubtreesAreOlder ==
    \A n \in Loaded(root) : \A m \in Loaded(n) :
        m.flags.gen <= n.flags.gen /\ (m.flags.dirty => n.flags.dirty)

=============================================================================
