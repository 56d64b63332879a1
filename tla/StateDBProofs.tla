--------------------------- MODULE StateDBProofs ---------------------------
(***************************************************************************)
(* What the journal of a state guarantees, for any accounts, values and    *)
(* snapshots, as long as no read of a storage trie fails: reverts restore, *)
(* changes are dirty, a Commit is complete and a Copy reads the same.      *)
(*                                                                         *)
(* The invariant gives the journal a meaning.  There is a history: what    *)
(* could be read after each number of entries, and how many of them had    *)
(* made each account dirty.  Each entry leads back from the state after it *)
(* to the one before, the last state is the current one, a snapshot saved  *)
(* the state of its index, and an account that no entry made dirty reads   *)
(* as in the trie.                                                         *)
(***************************************************************************)
EXTENDS StateDB, WellFoundedInduction, TLAPS

Data == [nonce : Int, balance : Int, code : Nat, root : Nat]

Objects == [data : Data, slot : Nat \cup {NoValue}, dirtyCode : BOOLEAN, dbErr : BOOLEAN,
            suicided : BOOLEAN, deleted : BOOLEAN]

(* The code of an object is in the database, or Commit will put it there.  *)
ObjectOK(o) ==
    /\ o \in Objects
    /\ ~o.dbErr
    /\ ~o.deleted /\ ~o.dirtyCode => o.data.code \in codes

(* Live objects and the set stateObjectsDirty: a deleted object is not in  *)
(* the trie, and is one that Finalise would delete; what the trie says of  *)
(* an account that Commit will not write refers to the database.           *)
ObjectsOK(objects, dirtySet) ==
    /\ DOMAIN objects \subseteq Accounts
    /\ objects = [a \in DOMAIN objects |-> objects[a]]
    /\ dirtySet \subseteq Accounts
    /\ \A a \in DOMAIN objects :
          /\ ObjectOK(objects[a])
          /\ objects[a].deleted => a \notin DOMAIN trie /\ Dead(objects[a])
    /\ \A a \in DOMAIN trie :
          a \notin dirtySet \/ a \notin DOMAIN objects =>
              trie[a].code \in codes /\ trie[a].root \in roots

DatabaseOK ==
    /\ DOMAIN trie \subseteq Accounts
    /\ trie \in [DOMAIN trie -> Data]
    /\ 0 \in codes /\ 0 \in roots

NoAccount == Getters(newObject(EmptyAccount), "no")

(* What the getters return for an account without a live object.           *)
TrieView(a) ==
    IF a \in DOMAIN trie THEN Getters(newObject(trie[a]), "yes") ELSE NoAccount

ViewOf(s) ==
    [accounts |-> [a \in Accounts |-> Read(s.objects, a)], refund |-> s.refund,
     logs |-> s.logs, logSize |-> s.logSize, preimages |-> s.preimages]

WithAccount(v, a, y) ==
    [accounts |-> [v.accounts EXCEPT ![a] = y], refund |-> v.refund,
     logs |-> v.logs, logSize |-> v.logSize, preimages |-> v.preimages]

(* What is read of an account with one part changed.                       *)
ReadBalance(x, amount) == [x EXCEPT !.balance = amount]
ReadNonce(x, nonce) == [x EXCEPT !.nonce = nonce]
ReadCode(x, code) == [x EXCEPT !.code = code]
ReadState(x, value) == [x EXCEPT !.slot = value]
ReadSuicided(x, mark, amount) ==
    [exist |-> x.exist, suicided |-> mark, nonce |-> x.nonce,
     balance |-> amount, code |-> x.code, slot |-> x.slot]

(* The view y of the account of e before e, when it is x afterwards.       *)
AccountBack(e, x, y) ==
    \/ /\ e.change = "create" /\ x.exist = "yes" /\ y = NoAccount
       /\ e.account \notin DOMAIN trie
    \/ /\ e.change = "reset" /\ y = Getters(e.object, "yes")
       /\ ObjectOK(e.object) /\ ~e.object.deleted
    \/ /\ e.change = "suicide" /\ x.exist = "yes" /\ e.prev \in BOOLEAN /\ e.balance \in Int
       /\ y = ReadSuicided(x, e.prev, e.balance)
    \/ e.change = "touch" /\ y = x
    \/ e.change = "balance" /\ x.exist = "yes" /\ e.prev \in Int /\ y = ReadBalance(x, e.prev)
    \/ e.change = "nonce" /\ x.exist = "yes" /\ e.prev \in Int /\ y = ReadNonce(x, e.prev)
    \/ e.change = "code" /\ x.exist = "yes" /\ e.prev \in Nat /\ y = ReadCode(x, e.prev)
    \/ e.change = "storage" /\ x.exist = "yes" /\ e.prev \in Nat /\ y = ReadState(x, e.prev)

OtherBack(e, v, u) ==
    \/ /\ e.change = "refund"
       /\ u = [accounts |-> v.accounts, refund |-> e.prev, logs |-> v.logs,
               logSize |-> v.logSize, preimages |-> v.preimages]
    \/ /\ e.change = "log"
       /\ u = [accounts |-> v.accounts, refund |-> v.refund,
               logs |-> [v.logs EXCEPT ![e.hash] = Shortened(v.logs[e.hash])],
               logSize |-> v.logSize - 1, preimages |-> v.preimages]
    \/ /\ e.change = "preimage"
       /\ u = [accounts |-> v.accounts, refund |-> v.refund, logs |-> v.logs,
               logSize |-> v.logSize, preimages |-> v.preimages \ {e.hash}]

(* Entry e leads from the view v after it back to the view u before.       *)
Back(e, v, u) ==
    \/ /\ e.account \in Accounts
       /\ \E y : u = WithAccount(v, e.account, y) /\ AccountBack(e, v.accounts[e.account], y)
    \/ OtherBack(e, v, u)

LogsOK(v) == v.logs \in [Hashes -> Seq(Int)] /\ v.logSize \in Int

(* V and C are a history of the entries es.                                *)
History(es, V, C) ==
    /\ \A i \in 1..Len(es) :
          /\ Back(es[i], V[i], V[i-1])
          /\ \A a \in Accounts : C[i][a] = C[i-1][a] + dirtied(es[i], a)
    /\ \A i \in 0..Len(es) :
          /\ LogsOK(V[i])
          /\ \A a \in Accounts :
                C[i][a] \in Nat /\ (C[i][a] = 0 => V[i].accounts[a] = TrieView(a))

RevisionsOK(es, V) ==
    /\ validRevisions \in Seq(Nat)
    /\ Len(saved) = Len(validRevisions) /\ \E S : saved \in Seq(S)
    /\ \A idx \in 1..Len(validRevisions) :
          /\ validRevisions[idx] <= Len(es)
          /\ saved[idx] = V[validRevisions[idx]]
          /\ \A jdx \in 1..idx : validRevisions[jdx] <= validRevisions[idx]

(* The entries es mean that v can be read now, and d counts the dirty ones. *)
Means(es, v, d) ==
    \E V, C :
        /\ History(es, V, C)
        /\ RevisionsOK(es, V)
        /\ V[Len(es)] = v
        /\ \A a \in Accounts : d[a] >= C[Len(es)][a]

Inv ==
    /\ \E S : entries \in Seq(S)
    /\ dirties \in [Accounts -> Int]
    /\ thash \in Hashes
    /\ panic \in {"none", "finalise"}
    /\ DatabaseOK
    /\ ObjectsOK(stateObjects, stateObjectsDirty)
    /\ Means(entries, View, dirties)

(* The entries of the journal can be counted.                              *)
LEMMA EntriesCounted == ASSUME \E S : entries \in Seq(S) PROVE Len(entries) \in Nat
OBVIOUS

-----------------------------------------------------------------------------
(* Objects and what is read of them.                                       *)

(* The getters find what getStateObject finds.                             *)
LEMMA ReadFound ==
    ASSUME NEW objects, NEW a, Found(objects, a)
    PROVE  Read(objects, a) = Getters(getStateObject(objects, a), "yes")
BY DEF Read

(* ... and read an account it does not find as empty.                      *)
LEMMA ReadNotFound ==
    ASSUME NEW objects, NEW a, ~Found(objects, a)
    PROVE  Read(objects, a) = NoAccount
BY DEF Read, NoAccount

(* exist tells the two apart.                                              *)
LEMMA ReadExist ==
    ASSUME NEW objects, NEW a
    PROVE  Read(objects, a).exist = "yes" <=> Found(objects, a)
<1>1. \A o : Getters(o, "yes").exist = "yes" /\ Getters(o, "no").exist = "no"
  BY DEF Getters
<1>2. CASE Found(objects, a)
  BY Zenon, <1>1, <1>2, ReadFound
<1>3. CASE ~Found(objects, a)
  BY Zenon, <1>1, <1>3, ReadNotFound DEF NoAccount
<1> QED BY <1>2, <1>3

(* An object that is stored is read, and the others as before.             *)
LEMMA ReadPut ==
    ASSUME NEW objects, NEW a, NEW x, ~x.deleted
    PROVE  /\ Read(Put(objects, a, x), a) = Getters(x, "yes")
           /\ \A b : b # a => Read(Put(objects, a, x), b) = Read(objects, b)
<1> DEFINE new == Put(objects, a, x)
<1>1. /\ DOMAIN new = DOMAIN objects \cup {a} /\ new[a] = x
      /\ \A b \in DOMAIN objects : b # a => new[b] = objects[b]
  BY DEF Put
<1> HIDE DEF new
<1>2. Found(new, a) /\ getStateObject(new, a) = x
  BY <1>1 DEF Found, getStateObject
<1>3. ASSUME NEW b, b # a PROVE Read(new, b) = Read(objects, b)
  <2>1. /\ Found(new, b) <=> Found(objects, b)
        /\ getStateObject(new, b) = getStateObject(objects, b)
    BY <1>1, <1>3 DEF Found, getStateObject
  <2> QED BY <2>1 DEF Read
<1>4. Read(new, a) = Getters(x, "yes")
  BY <1>2, ReadFound
<1> QED BY <1>3, <1>4 DEF new

(* An account that is not in the trie is not found without its object.     *)
LEMMA ReadWithout ==
    ASSUME NEW objects, NEW a, a \notin DOMAIN trie
    PROVE  /\ Read(Without(objects, a), a) = NoAccount
           /\ \A b : b # a => Read(Without(objects, a), b) = Read(objects, b)
<1> DEFINE new == Without(objects, a)
<1>1. /\ DOMAIN new = DOMAIN objects \ {a}
      /\ \A b \in DOMAIN new : new[b] = objects[b]
  BY DEF Without
<1> HIDE DEF new
<1>2. ~Found(new, a)
  BY <1>1 DEF Found
<1>3. ASSUME NEW b, b # a PROVE Read(new, b) = Read(objects, b)
  <2>1. /\ Found(new, b) <=> Found(objects, b)
        /\ getStateObject(new, b) = getStateObject(objects, b)
    BY <1>1, <1>3 DEF Found, getStateObject
  <2> QED BY <2>1 DEF Read
<1>4. Read(new, a) = NoAccount
  BY <1>2, ReadNotFound
<1> QED BY <1>3, <1>4 DEF new

(* Objects stay sound when one is stored,                                  *)
LEMMA PutOK ==
    ASSUME NEW objects, NEW d, ObjectsOK(objects, d),
           NEW a \in Accounts, NEW x, ObjectOK(x), ~x.deleted
    PROVE  ObjectsOK(Put(objects, a, x), d)
<1> DEFINE new == Put(objects, a, x)
<1>1. /\ DOMAIN new = DOMAIN objects \cup {a} /\ new[a] = x
      /\ \A b \in DOMAIN objects : b # a => new[b] = objects[b]
      /\ new = [b \in DOMAIN new |-> new[b]]
  BY DEF Put
<1> HIDE DEF new
<1>2. ObjectsOK(new, d)
  BY <1>1 DEF ObjectsOK
<1> QED BY <1>2 DEF new

(* ... and when one that is not in the trie is taken away.                 *)
LEMMA WithoutOK ==
    ASSUME NEW objects, NEW d, ObjectsOK(objects, d), NEW a, a \notin DOMAIN trie
    PROVE  ObjectsOK(Without(objects, a), d \ {a})
<1> DEFINE new == Without(objects, a)
<1>1. /\ DOMAIN new = DOMAIN objects \ {a}
      /\ \A b \in DOMAIN new : new[b] = objects[b]
      /\ new = [b \in DOMAIN new |-> new[b]]
  BY DEF Without
<1> HIDE DEF new
<1>2. ObjectsOK(new, d \ {a})
  BY <1>1 DEF ObjectsOK
<1> QED BY <1>2 DEF new

(* A new object is sound.                                                  *)
LEMMA NewOK ==
    ASSUME DatabaseOK
    PROVE  ObjectOK(newObject(EmptyAccount)) /\ ~newObject(EmptyAccount).deleted
BY DEF DatabaseOK, ObjectOK, Objects, Data, newObject, EmptyAccount, NoValue

(* getStateObject returns a sound object, from memory or from the trie.    *)
LEMMA GotOK ==
    ASSUME NEW objects, NEW d, ObjectsOK(objects, d), DatabaseOK,
           NEW a, Found(objects, a)
    PROVE  /\ ObjectOK(getStateObject(objects, a))
           /\ ~getStateObject(objects, a).deleted
<1>1. CASE a \in DOMAIN objects
  BY <1>1 DEF ObjectsOK, Found, getStateObject
<1>2. CASE a \notin DOMAIN objects
  <2>1. a \in DOMAIN trie /\ trie[a] \in Data /\ trie[a].code \in codes
    BY <1>2 DEF ObjectsOK, DatabaseOK, Found
  <2> QED BY <1>2, <2>1 DEF getStateObject, ObjectOK, Objects, newObject, NoValue
<1> QED BY <1>1, <1>2

-----------------------------------------------------------------------------
(* Changes of one part of an object, and what is read then.                *)

(* The balance.                                                            *)
LEMMA BalanceObject ==
    ASSUME NEW o, ObjectOK(o), NEW x \in Int
    PROVE  /\ ObjectOK(setBalance(o, x)) /\ setBalance(o, x).deleted = o.deleted
           /\ Getters(setBalance(o, x), "yes") = ReadBalance(Getters(o, "yes"), x)
<1> DEFINE n == setBalance(o, x)
<1>1. o \in Objects /\ o.data \in Data
  BY DEF ObjectOK, Objects
<1>2. /\ n \in Objects /\ n.deleted = o.deleted /\ n.suicided = o.suicided
      /\ n.slot = o.slot /\ n.dirtyCode = o.dirtyCode /\ n.dbErr = o.dbErr
      /\ n.data.nonce = o.data.nonce /\ n.data.balance = x
      /\ n.data.code = o.data.code /\ n.data.root = o.data.root
  BY <1>1 DEF setBalance, Objects, Data
<1> HIDE DEF n
<1>3. ObjectOK(n)
  BY <1>2 DEF ObjectOK
<1>4. Getters(n, "yes") = ReadBalance(Getters(o, "yes"), x)
  BY <1>2 DEF Getters, GetState, ReadBalance
<1> QED BY <1>2, <1>3, <1>4 DEF n

(* The nonce.                                                              *)
LEMMA NonceObject ==
    ASSUME NEW o, ObjectOK(o), NEW x \in Int
    PROVE  /\ ObjectOK(setNonce(o, x)) /\ setNonce(o, x).deleted = o.deleted
           /\ Getters(setNonce(o, x), "yes") = ReadNonce(Getters(o, "yes"), x)
<1> DEFINE n == setNonce(o, x)
<1>1. o \in Objects /\ o.data \in Data
  BY DEF ObjectOK, Objects
<1>2. /\ n \in Objects /\ n.deleted = o.deleted /\ n.suicided = o.suicided
      /\ n.slot = o.slot /\ n.dirtyCode = o.dirtyCode /\ n.dbErr = o.dbErr
      /\ n.data.nonce = x /\ n.data.balance = o.data.balance
      /\ n.data.code = o.data.code /\ n.data.root = o.data.root
  BY <1>1 DEF setNonce, Objects, Data
<1> HIDE DEF n
<1>3. ObjectOK(n)
  BY <1>2 DEF ObjectOK
<1>4. Getters(n, "yes") = ReadNonce(Getters(o, "yes"), x)
  BY <1>2 DEF Getters, GetState, ReadNonce
<1> QED BY <1>2, <1>3, <1>4 DEF n

(* The code, which is dirty then.                                          *)
LEMMA CodeObject ==
    ASSUME NEW o, ObjectOK(o), NEW x \in Nat
    PROVE  /\ ObjectOK(setCode(o, x)) /\ setCode(o, x).deleted = o.deleted
           /\ Getters(setCode(o, x), "yes") = ReadCode(Getters(o, "yes"), x)
<1> DEFINE n == setCode(o, x)
<1>1. o \in Objects /\ o.data \in Data
  BY DEF ObjectOK, Objects
<1>2. /\ n \in Objects /\ n.deleted = o.deleted /\ n.suicided = o.suicided
      /\ n.slot = o.slot /\ n.dirtyCode = TRUE /\ n.dbErr = o.dbErr
      /\ n.data.nonce = o.data.nonce /\ n.data.balance = o.data.balance
      /\ n.data.code = x /\ n.data.root = o.data.root
  BY Zenon, <1>1 DEF setCode, Objects, Data
<1> HIDE DEF n
<1>3. ObjectOK(n)
  BY <1>2 DEF ObjectOK
<1>4. Getters(n, "yes") = ReadCode(Getters(o, "yes"), x)
  BY <1>2 DEF Getters, GetState, ReadCode
<1> QED BY <1>2, <1>3, <1>4 DEF n

(* The slot.                                                               *)
LEMMA SlotObject ==
    ASSUME NEW o, ObjectOK(o), NEW x \in Nat
    PROVE  /\ ObjectOK(setState(o, x)) /\ setState(o, x).deleted = o.deleted
           /\ Getters(setState(o, x), "yes") = ReadState(Getters(o, "yes"), x)
<1> DEFINE n == setState(o, x)
<1>1. o \in Objects /\ o.data \in Data
  BY DEF ObjectOK, Objects
<1>2. /\ n \in Objects /\ n.deleted = o.deleted /\ n.suicided = o.suicided
      /\ n.slot = x /\ n.dirtyCode = o.dirtyCode /\ n.dbErr = o.dbErr
      /\ n.data = o.data
  BY <1>1 DEF setState, Objects
<1> HIDE DEF n
<1>3. ObjectOK(n)
  BY <1>2 DEF ObjectOK
<1>4. GetState(n) = x
  BY <1>2 DEF GetState, NoValue
<1>5. Getters(n, "yes") = ReadState(Getters(o, "yes"), x)
  BY <1>2, <1>4 DEF Getters, ReadState
<1> QED BY <1>2, <1>3, <1>5 DEF n

(* What is read of an object with another mark and balance.                *)
LEMMA SuicideGetters ==
    ASSUME NEW o, NEW n, NEW x, NEW m, n.suicided = m, n.data.balance = x,
           n.slot = o.slot, n.data.nonce = o.data.nonce,
           n.data.code = o.data.code, n.data.root = o.data.root
    PROVE  Getters(n, "yes") = ReadSuicided(Getters(o, "yes"), m, x)
BY DEF Getters, GetState, ReadSuicided

(* The mark of a self-destruction and the balance.                         *)
LEMMA SuicideObject ==
    ASSUME NEW o, ObjectOK(o), NEW x \in Int, NEW m \in BOOLEAN
    PROVE  /\ ObjectOK(setBalance(markSuicided(o, m), x))
           /\ setBalance(markSuicided(o, m), x).deleted = o.deleted
           /\ Getters(setBalance(markSuicided(o, m), x), "yes")
                = ReadSuicided(Getters(o, "yes"), m, x)
<1> DEFINE n == setBalance(markSuicided(o, m), x)
<1>1. o \in Objects /\ o.data \in Data
  BY DEF ObjectOK, Objects
<1>2. /\ n \in Objects /\ n.deleted = o.deleted /\ n.suicided = m
      /\ n.slot = o.slot /\ n.dirtyCode = o.dirtyCode /\ n.dbErr = o.dbErr
      /\ n.data.nonce = o.data.nonce /\ n.data.balance = x
      /\ n.data.code = o.data.code /\ n.data.root = o.data.root
  BY Zenon, <1>1 DEF setBalance, markSuicided, Objects, Data
<1> HIDE DEF n
<1>3. ObjectOK(n)
  BY <1>2 DEF ObjectOK
<1>4. Getters(n, "yes") = ReadSuicided(Getters(o, "yes"), m, x)
  BY <1>2, SuicideGetters
<1> QED BY <1>2, <1>3, <1>4 DEF n

-----------------------------------------------------------------------------
(* The undoing of an entry.                                                *)

(* s is a state in the course of journal.revert.                           *)
IsState(s) ==
    s = [objects |-> s.objects, dirty |-> s.dirty, dirties |-> s.dirties,
         refund |-> s.refund, logs |-> s.logs, logSize |-> s.logSize,
         preimages |-> s.preimages, ok |-> s.ok]

(* No panic so far, sound objects, and the getters return v.               *)
Sound(s, v) ==
    /\ IsState(s) /\ s.ok
    /\ ObjectsOK(s.objects, s.dirty)
    /\ ViewOf(s) = v

(* The parts of a state with other objects.                                *)
LEMMA ObjectsChange ==
    ASSUME NEW s, IsState(s), NEW X, NEW r, r = [s EXCEPT !.objects = X]
    PROVE  /\ IsState(r) /\ r.objects = X /\ r.dirty = s.dirty
           /\ r.refund = s.refund /\ r.logs = s.logs /\ r.logSize = s.logSize
           /\ r.preimages = s.preimages /\ r.ok = s.ok
BY DEF IsState

(* An entry that stores an object changes what is read of its account.     *)
LEMMA RevertPut ==
    ASSUME NEW s, NEW v, Sound(s, v), NEW a \in Accounts, NEW x, ObjectOK(x), ~x.deleted
    PROVE  Sound(Stored(s, a, x), WithAccount(v, a, Getters(x, "yes")))
<1> DEFINE r == Stored(s, a, x)
<1>1. /\ IsState(r) /\ r.objects = Put(s.objects, a, x) /\ r.dirty = s.dirty
      /\ r.refund = s.refund /\ r.logs = s.logs /\ r.logSize = s.logSize
      /\ r.preimages = s.preimages /\ r.ok = s.ok
  BY Zenon, ObjectsChange DEF Sound, Stored
<1> HIDE DEF r
<1>2. ObjectsOK(r.objects, r.dirty)
  BY <1>1, PutOK DEF Sound
<1>3. \A b \in Accounts : Read(r.objects, b) = IF b = a THEN Getters(x, "yes") ELSE Read(s.objects, b)
  BY <1>1, ReadPut
<1>4. [b \in Accounts |-> Read(r.objects, b)] = [v.accounts EXCEPT ![a] = Getters(x, "yes")]
  BY <1>3 DEF Sound, ViewOf
<1>5. /\ v.refund = s.refund /\ v.logs = s.logs
      /\ v.logSize = s.logSize /\ v.preimages = s.preimages
  BY Zenon DEF Sound, ViewOf
<1>6. ViewOf(r) = WithAccount(v, a, Getters(x, "yes"))
  BY <1>1, <1>4, <1>5 DEF ViewOf, WithAccount
<1> QED BY <1>1, <1>2, <1>6 DEF Sound, r

(* Undoing a creation.                                                     *)
LEMMA RevertCreate ==
    ASSUME NEW s, NEW v, Sound(s, v), NEW a \in Accounts, a \notin DOMAIN trie
    PROVE  Sound(Removed(s, a), WithAccount(v, a, NoAccount))
<1> DEFINE r == Removed(s, a)
<1> DEFINE X == Without(s.objects, a)
           D == s.dirty \ {a}
<1>0. IsState(s) /\ r = [s EXCEPT !.objects = X, !.dirty = D]
  BY DEF Sound, Removed
<1> HIDE DEF r, X, D
<1>a. /\ IsState(r) /\ r.objects = X /\ r.dirty = D
      /\ r.refund = s.refund /\ r.logs = s.logs /\ r.logSize = s.logSize
      /\ r.preimages = s.preimages /\ r.ok = s.ok
  BY Zenon, <1>0 DEF IsState
<1>1. /\ IsState(r) /\ r.objects = Without(s.objects, a) /\ r.dirty = s.dirty \ {a}
      /\ r.refund = s.refund /\ r.logs = s.logs /\ r.logSize = s.logSize
      /\ r.preimages = s.preimages /\ r.ok = s.ok
  BY Zenon, <1>a DEF X, D
<1>2. ObjectsOK(r.objects, r.dirty)
  BY <1>1, WithoutOK DEF Sound
<1>3. \A b \in Accounts : Read(r.objects, b) = IF b = a THEN NoAccount ELSE Read(s.objects, b)
  BY <1>1, ReadWithout
<1>4. [b \in Accounts |-> Read(r.objects, b)] = [v.accounts EXCEPT ![a] = NoAccount]
  BY <1>3 DEF Sound, ViewOf
<1>5. /\ v.refund = s.refund /\ v.logs = s.logs
      /\ v.logSize = s.logSize /\ v.preimages = s.preimages
  BY DEF Sound, ViewOf
<1>6. ViewOf(r) = WithAccount(v, a, NoAccount)
  BY <1>1, <1>4, <1>5 DEF ViewOf, WithAccount
<1> QED BY <1>1, <1>2, <1>6 DEF Sound, r

(* Undoing a change of the refund, of the logs or of the preimages.        *)
LEMMA RevertOther ==
    ASSUME NEW s, NEW v, Sound(s, v), NEW e, NEW u, OtherBack(e, v, u)
    PROVE  Sound(revert(s, e), u)
<1> DEFINE r == revert(s, e)
<1>1. /\ v.accounts = [b \in Accounts |-> Read(s.objects, b)]
      /\ v.refund = s.refund /\ v.logs = s.logs
      /\ v.logSize = s.logSize /\ v.preimages = s.preimages
  BY DEF Sound, ViewOf
<1>2. CASE e.change = "refund"
  <2>1. r = [s EXCEPT !.refund = e.prev]
    BY <1>2 DEF revert
  <2> HIDE DEF r
  <2>2. /\ IsState(r) /\ r.objects = s.objects /\ r.dirty = s.dirty
        /\ r.refund = e.prev /\ r.logs = s.logs /\ r.logSize = s.logSize
        /\ r.preimages = s.preimages /\ r.ok = s.ok
    BY Zenon, <2>1 DEF Sound, IsState
  <2>3. u = ViewOf(r)
    BY <1>1, <1>2, <2>2 DEF ViewOf, OtherBack
  <2> QED BY <2>2, <2>3 DEF Sound, r
<1>3. CASE e.change = "log"
  <2>1. r = [s EXCEPT !.logs = [s.logs EXCEPT ![e.hash] = Shortened(s.logs[e.hash])],
                      !.logSize = s.logSize - 1]
    BY <1>3 DEF revert
  <2> HIDE DEF r
  <2>2. /\ IsState(r) /\ r.objects = s.objects /\ r.dirty = s.dirty
        /\ r.refund = s.refund /\ r.logSize = s.logSize - 1
        /\ r.logs = [s.logs EXCEPT ![e.hash] = Shortened(s.logs[e.hash])]
        /\ r.preimages = s.preimages /\ r.ok = s.ok
    BY Zenon, <2>1 DEF Sound, IsState
  <2>3. u = ViewOf(r)
    BY <1>1, <1>3, <2>2 DEF ViewOf, OtherBack
  <2> QED BY <2>2, <2>3 DEF Sound, r
<1>4. CASE e.change = "preimage"
  <2>1. r = [s EXCEPT !.preimages = s.preimages \ {e.hash}]
    BY <1>4 DEF revert
  <2> HIDE DEF r
  <2>2. /\ IsState(r) /\ r.objects = s.objects /\ r.dirty = s.dirty
        /\ r.refund = s.refund /\ r.logs = s.logs /\ r.logSize = s.logSize
        /\ r.preimages = s.preimages \ {e.hash} /\ r.ok = s.ok
    BY Zenon, <2>1 DEF Sound, IsState
  <2>3. u = ViewOf(r)
    BY Zenon, <1>1, <1>4, <2>2 DEF ViewOf, OtherBack
  <2> QED BY <2>2, <2>3 DEF Sound, r
<1> QED BY <1>2, <1>3, <1>4 DEF OtherBack

(* Undoing a change of an account.                                         *)
LEMMA RevertAccount ==
    ASSUME DatabaseOK, NEW s, NEW v, Sound(s, v), NEW e, e.account \in Accounts,
           NEW y, AccountBack(e, v.accounts[e.account], y)
    PROVE  Sound(revert(s, e), WithAccount(v, e.account, y))
<1> DEFINE a == e.account
           x == v.accounts[a]
           o == getStateObject(s.objects, a)
<1>1. x = Read(s.objects, a)
  BY DEF Sound, ViewOf
<1>2. x.exist = "yes" =>
        /\ Found(s.objects, a) /\ x = Getters(o, "yes")
        /\ ObjectOK(o) /\ ~o.deleted
  BY Zenon, <1>1, ReadExist, ReadFound, GotOK DEF Sound
<1>3. CASE e.change = "create"
  <2>1. a \notin DOMAIN trie /\ y = NoAccount
    BY <1>3 DEF AccountBack
  <2>2. revert(s, e) = Removed(s, a)
    BY <1>3 DEF revert
  <2> QED BY Zenon, <2>1, <2>2, RevertCreate
<1>4. CASE e.change = "reset"
  <2>1. ObjectOK(e.object) /\ ~e.object.deleted /\ y = Getters(e.object, "yes")
    BY <1>4 DEF AccountBack
  <2>2. revert(s, e) = Stored(s, a, e.object)
    BY <1>4 DEF revert
  <2> QED BY Zenon, <2>1, <2>2, RevertPut
<1>5. CASE e.change = "suicide"
  <2> DEFINE z == setBalance(markSuicided(o, e.prev), e.balance)
  <2>1. /\ x.exist = "yes" /\ e.prev \in BOOLEAN /\ e.balance \in Int
        /\ y = ReadSuicided(x, e.prev, e.balance)
    BY <1>5 DEF AccountBack
  <2>2. revert(s, e) = Stored(s, a, z)
    BY <1>2, <1>5, <2>1 DEF revert
  <2>3. ObjectOK(z) /\ ~z.deleted /\ Getters(z, "yes") = y
    BY <1>2, <2>1, SuicideObject
  <2> QED BY Zenon, <2>2, <2>3, RevertPut
<1>6. CASE e.change = "touch"
  <2>1. y = x /\ revert(s, e) = s
    BY <1>6 DEF AccountBack, revert
  <2>2. WithAccount(v, a, x) = v
    BY DEF WithAccount, Sound, ViewOf
  <2> QED BY Zenon, <2>1, <2>2
<1>7. CASE e.change = "balance"
  <2> DEFINE z == setBalance(o, e.prev)
  <2>1. x.exist = "yes" /\ e.prev \in Int /\ y = ReadBalance(x, e.prev)
    BY <1>7 DEF AccountBack
  <2>2. revert(s, e) = Stored(s, a, z)
    BY <1>2, <1>7, <2>1 DEF revert
  <2>3. ObjectOK(z) /\ ~z.deleted /\ Getters(z, "yes") = y
    BY Zenon, <1>2, <2>1, BalanceObject
  <2> QED BY Zenon, <2>2, <2>3, RevertPut
<1>8. CASE e.change = "nonce"
  <2> DEFINE z == setNonce(o, e.prev)
  <2>1. x.exist = "yes" /\ e.prev \in Int /\ y = ReadNonce(x, e.prev)
    BY <1>8 DEF AccountBack
  <2>2. revert(s, e) = Stored(s, a, z)
    BY Zenon, <1>2, <1>8, <2>1 DEF revert
  <2>3. ObjectOK(z) /\ ~z.deleted /\ Getters(z, "yes") = y
    BY Zenon, <1>2, <2>1, NonceObject
  <2> QED BY Zenon, <2>2, <2>3, RevertPut
<1>9. CASE e.change = "code"
  <2> DEFINE z == setCode(o, e.prev)
  <2>1. x.exist = "yes" /\ e.prev \in Nat /\ y = ReadCode(x, e.prev)
    BY <1>9 DEF AccountBack
  <2>2. revert(s, e) = Stored(s, a, z)
    BY <1>2, <1>9, <2>1 DEF revert
  <2>3. ObjectOK(z) /\ ~z.deleted /\ Getters(z, "yes") = y
    BY Zenon, <1>2, <2>1, CodeObject
  <2> QED BY Zenon, <2>2, <2>3, RevertPut
<1>10. CASE e.change = "storage"
  <2> DEFINE z == setState(o, e.prev)
  <2>1. x.exist = "yes" /\ e.prev \in Nat /\ y = ReadState(x, e.prev)
    BY <1>10 DEF AccountBack
  <2>2. revert(s, e) = Stored(s, a, z)
    BY <1>2, <1>10, <2>1 DEF revert
  <2>3. ObjectOK(z) /\ ~z.deleted /\ Getters(z, "yes") = y
    BY Zenon, <1>2, <2>1, SlotObject
  <2> QED BY Zenon, <2>2, <2>3, RevertPut
<1> QED BY <1>3, <1>4, <1>5, <1>6, <1>7, <1>8, <1>9, <1>10 DEF AccountBack

(* One round of journal.revert leads from the state after an entry to the  *)
(* one before, in the history and in the count of what is dirty.           *)
Round(s, v, c) ==
    /\ Sound(s, v)
    /\ s.dirties \in [Accounts -> Int]
    /\ \A a \in Accounts : c[a] \in Nat /\ s.dirties[a] >= c[a]

(* Undo is such a round.                                                   *)
LEMMA UndoStep ==
    ASSUME DatabaseOK, NEW s, NEW v, NEW c, Round(s, v, c),
           NEW e, NEW u, Back(e, v, u),
           NEW d, \A a \in Accounts : d[a] \in Nat /\ c[a] = d[a] + dirtied(e, a)
    PROVE  Round(Undo(s, e), u, d)
<1> DEFINE r == revert(s, e)
           f == [a \in Accounts |-> s.dirties[a] - dirtied(e, a)]
           n == [r EXCEPT !.dirties = f]
<1>1. Sound(r, u)
  <2>1. CASE OtherBack(e, v, u)
    BY Zenon, <2>1, RevertOther DEF Round
  <2>2. ASSUME e.account \in Accounts, NEW y, u = WithAccount(v, e.account, y),
               AccountBack(e, v.accounts[e.account], y)
        PROVE  Sound(r, u)
    BY Zenon, <2>2, RevertAccount DEF Round
  <2> QED BY Zenon, <2>1, <2>2 DEF Back
<1>2. Undo(s, e) = n
  BY DEF Undo
<1>3. f \in [Accounts -> Int] /\ \A a \in Accounts : f[a] >= d[a]
  <2>1. \A a \in Accounts : dirtied(e, a) \in {0, 1}
    BY Zenon DEF dirtied
  <2> QED BY <2>1 DEF Round
<1> HIDE DEF r, f
<1>4. /\ IsState(n) /\ n.objects = r.objects /\ n.dirty = r.dirty
      /\ n.refund = r.refund /\ n.logs = r.logs /\ n.logSize = r.logSize
      /\ n.preimages = r.preimages /\ n.ok = r.ok /\ n.dirties = f
  <2>1. IsState(r)
    BY <1>1 DEF Sound
  <2> QED BY <2>1 DEF IsState
<1> HIDE DEF n
<1>5. ViewOf(n) = ViewOf(r)
  BY Zenon, <1>4 DEF ViewOf
<1>6. Sound(n, u)
  BY Zenon, <1>1, <1>4, <1>5 DEF Sound
<1> QED BY Zenon, <1>2, <1>3, <1>4, <1>6 DEF Round

-----------------------------------------------------------------------------
(* The loop of journal.revert, by induction on the number of rounds.       *)

(* A set of natural numbers has a smallest.                                *)
LEMMA SmallestNumber ==
    ASSUME NEW N, N \subseteq Nat, N # {}
    PROVE  \E i \in N : \A j \in N : i <= j
<1>1. PICK i \in N : \A j \in N : ~ (<<j, i>> \in OpToRel(<, Nat))
  BY Zenon, NatLessThanWellFounded, WFMin
<1>2. \A j \in N : ~ (j < i)
  BY Zenon, <1>1 DEF OpToRel
<1> QED BY <1>2

(* f is the sequence of states of the rounds down to n entries.            *)
IsRevert(f, n) ==
    f = [i \in n..Len(entries) |->
           IF i = Len(entries) THEN Now ELSE Undo(f[i + 1], entries[i + 1])]

(* Reverted is the last one.                                               *)
LEMMA RevertedDef ==
    ASSUME NEW n
    PROVE  Reverted(n) = (CHOOSE f : IsRevert(f, n))[n]
BY DEF Reverted, IsRevert

(* There is one: a round more adds a state in front.                       *)
LEMMA RevertExists ==
    ASSUME Len(entries) \in Nat, NEW n \in 0..Len(entries)
    PROVE  \E f : IsRevert(f, n)
<1> DEFINE L == Len(entries)
           Bad == {k \in 0..L : ~ \E f : IsRevert(f, L - k)}
<1> SUFFICES ASSUME Bad # {} PROVE FALSE
  <2>1. Bad = {} => L - n \notin Bad
    BY Zenon
  <2>2. L - n \in 0..L /\ L - (L - n) = n
    OBVIOUS
  <2> QED BY <2>1, <2>2
<1>1. PICK k \in Bad : \A j \in Bad : k <= j
  <2>1. Bad \subseteq Nat
    OBVIOUS
  <2> HIDE DEF Bad
  <2> QED BY Zenon, <2>1, SmallestNumber
<1>2. k \in 0..L /\ ~ \E f : IsRevert(f, L - k)
  BY <1>1
<1>3. CASE k = 0
  <2> DEFINE f == [i \in L..L |-> Now]
  <2>1. IsRevert(f, L)
    BY DEF IsRevert
  <2> QED BY <1>2, <1>3, <2>1
<1>4. CASE k # 0
  <2>1. k - 1 \in 0..L /\ k - 1 \notin Bad /\ L - (k - 1) = L - k + 1
    <3>1. k - 1 \in 0..L /\ L - (k - 1) = L - k + 1 /\ ~(k <= k - 1)
      BY <1>2, <1>4
    <3> HIDE DEF Bad
    <3> QED BY Zenon, <1>1, <3>1
  <2>2. PICK g : IsRevert(g, L - k + 1)
    BY <2>1
  <2> DEFINE f == [i \in (L - k)..L |->
                     IF i = L - k THEN Undo(g[L - k + 1], entries[L - k + 1]) ELSE g[i]]
  <2>3. \A i \in (L - k + 1)..L :
          g[i] = IF i = L THEN Now ELSE Undo(g[i + 1], entries[i + 1])
    BY <2>2 DEF IsRevert
  <2>4. \A i \in (L - k + 1)..L : f[i] = g[i]
    BY <1>2
  <2>5. \A i \in (L - k)..L :
          f[i] = IF i = L THEN Now ELSE Undo(f[i + 1], entries[i + 1])
    <3> SUFFICES ASSUME NEW i \in (L - k)..L
                 PROVE  f[i] = IF i = L THEN Now ELSE Undo(f[i + 1], entries[i + 1])
      OBVIOUS
    <3>1. CASE i = L - k
      <4>1. i # L /\ i + 1 \in (L - k + 1)..L /\ i + 1 = L - k + 1
        BY <1>2, <1>4, <3>1
      <4>2. f[i] = Undo(g[i + 1], entries[i + 1])
        BY <3>1, <4>1
      <4> QED BY <2>4, <4>1, <4>2
    <3>2. CASE i # L - k
      <4>1. i \in (L - k + 1)..L
        BY <1>2, <3>2
      <4>2. CASE i = L
        BY <2>3, <2>4, <4>1, <4>2
      <4>3. CASE i # L
        <5>1. i + 1 \in (L - k + 1)..L
          BY <1>2, <4>1, <4>3
        <5> QED BY <2>3, <2>4, <4>1, <4>3, <5>1
      <4> QED BY <4>2, <4>3
    <3> QED BY <3>1, <3>2
  <2>6. f = [i \in (L - k)..L |-> f[i]]
    OBVIOUS
  <2> HIDE DEF f
  <2>7. IsRevert(f, L - k)
    BY Zenon, <2>5, <2>6 DEF IsRevert
  <2> QED BY <1>2, <2>7
<1> QED BY <1>3, <1>4

(* Every round reaches the state of the history it is to restore.          *)
LEMMA RevertLoop ==
    ASSUME DatabaseOK, Len(entries) \in Nat, NEW n \in 0..Len(entries),
           NEW V, NEW C, History(entries, V, C),
           Round(Now, V[Len(entries)], C[Len(entries)]),
           NEW f, IsRevert(f, n)
    PROVE  Round(f[n], V[n], C[n])
<1> DEFINE L == Len(entries)
           Bad == {k \in 0..(L - n) : ~Round(f[L - k], V[L - k], C[L - k])}
<1>0. \A i \in n..L : f[i] = IF i = L THEN Now ELSE Undo(f[i + 1], entries[i + 1])
  BY DEF IsRevert
<1> SUFFICES ASSUME Bad # {} PROVE FALSE
  <2>1. Bad = {} => L - n \notin Bad
    BY Zenon
  <2>2. L - n \in 0..(L - n) /\ L - (L - n) = n
    OBVIOUS
  <2> QED BY <2>1, <2>2
<1>1. PICK k \in Bad : \A j \in Bad : k <= j
  <2>1. Bad \subseteq Nat
    OBVIOUS
  <2> HIDE DEF Bad
  <2> QED BY Zenon, <2>1, SmallestNumber
<1>2. k \in 0..(L - n) /\ ~Round(f[L - k], V[L - k], C[L - k])
  BY <1>1
<1>3. CASE k = 0
  <2>1. L - k = L /\ L \in n..L
    BY <1>3
  <2> QED BY Zenon, <1>0, <1>2, <2>1
<1>4. CASE k # 0
  <2> DEFINE i == L - k
  <2>1. /\ i \in n..L /\ i # L /\ i + 1 \in 1..L /\ i + 1 - 1 = i /\ i \in 0..L
        /\ k - 1 \in 0..(L - n) /\ k - 1 \notin Bad /\ L - (k - 1) = i + 1
    <3>1. /\ i \in n..L /\ i # L /\ i + 1 \in 1..L /\ i + 1 - 1 = i /\ i \in 0..L
          /\ k - 1 \in 0..(L - n) /\ L - (k - 1) = i + 1 /\ ~(k <= k - 1)
      BY <1>2, <1>4
    <3> HIDE DEF Bad, i
    <3> QED BY Zenon, <1>1, <3>1
  <2> HIDE DEF i
  <2>2. Round(f[i + 1], V[i + 1], C[i + 1])
    BY Zenon, <2>1
  <2>3. Back(entries[i + 1], V[i + 1], V[i])
    BY <2>1 DEF History
  <2>4. \A a \in Accounts : C[i][a] \in Nat /\ C[i + 1][a] = C[i][a] + dirtied(entries[i + 1], a)
    <3>1. \A a \in Accounts : C[i][a] \in Nat
      BY Zenon, <2>1 DEF History
    <3>2. \A j \in 1..L : \A a \in Accounts : C[j][a] = C[j-1][a] + dirtied(entries[j], a)
      BY Zenon DEF History
    <3> DEFINE j == i + 1
    <3>3. j \in 1..L /\ j - 1 = i
      BY <2>1
    <3> HIDE DEF L, Bad, j
    <3>4. \A a \in Accounts : C[j][a] = C[j - 1][a] + dirtied(entries[j], a)
      BY Zenon, <3>2, <3>3
    <3>5. \A a \in Accounts : C[j][a] = C[i][a] + dirtied(entries[j], a)
      BY Zenon, <3>3, <3>4
    <3> QED BY Zenon, <3>1, <3>5 DEF j
  <2>5. Round(Undo(f[i + 1], entries[i + 1]), V[i], C[i])
    BY Zenon, <2>2, <2>3, <2>4, UndoStep
  <2>6. f[i] = Undo(f[i + 1], entries[i + 1])
    BY <1>0, <2>1
  <2>7. Round(f[i], V[i], C[i])
    BY Zenon, <2>5, <2>6
  <2> QED BY Zenon, <1>2, <2>7 DEF i
<1> QED BY <1>3, <1>4

(* journal.revert restores the state after n entries.                      *)
LEMMA RevertedRestores ==
    ASSUME DatabaseOK, Len(entries) \in Nat, NEW n \in 0..Len(entries),
           NEW V, NEW C, History(entries, V, C),
           Round(Now, V[Len(entries)], C[Len(entries)])
    PROVE  Round(Reverted(n), V[n], C[n])
<1>1. IsRevert(CHOOSE f : IsRevert(f, n), n)
  BY Zenon, RevertExists
<1>2. Round((CHOOSE f : IsRevert(f, n))[n], V[n], C[n])
  BY Zenon, <1>1, RevertLoop
<1> QED BY Zenon, <1>2, RevertedDef

-----------------------------------------------------------------------------
(* A change extends the history.                                           *)

(* An entry is added, after which w can be read: it leads back to what     *)
(* could be read before, it is counted, and what it does not count still   *)
(* reads as in the trie if it did.                                         *)
LEMMA Extend ==
    ASSUME NEW S, NEW es \in Seq(S), NEW v, NEW d \in [Accounts -> Int], Means(es, v, d),
           NEW e, NEW w, LogsOK(w), Back(e, w, v),
           NEW d2 \in [Accounts -> Int], \A a \in Accounts : d2[a] >= d[a] + dirtied(e, a),
           \A a \in Accounts : dirtied(e, a) = 0 /\ v.accounts[a] = TrieView(a)
                                  => w.accounts[a] = TrieView(a)
    PROVE  Means(Append(es, e), w, d2)
<1>1. PICK V, C : /\ History(es, V, C) /\ RevisionsOK(es, V) /\ V[Len(es)] = v
                  /\ \A a \in Accounts : d[a] >= C[Len(es)][a]
  BY Zenon DEF Means
<1> DEFINE L == Len(es)
           fs == Append(es, e)
           W == [i \in 0..(L + 1) |-> IF i = L + 1 THEN w ELSE V[i]]
           K == [i \in 0..(L + 1) |-> [a \in Accounts |->
                   IF i = L + 1 THEN C[L][a] + dirtied(e, a) ELSE C[i][a]]]
<1>2. /\ L \in Nat /\ Len(fs) = L + 1 /\ fs[L + 1] = e
      /\ \A i \in 1..L : fs[i] = es[i]
  <2>1. es \in Seq(S \cup {e}) /\ e \in S \cup {e}
    OBVIOUS
  <2> QED BY <2>1
<1>3. \A a : dirtied(e, a) \in {0, 1}
  BY Zenon DEF dirtied
<1>4. /\ W[L + 1] = w /\ \A i \in 0..L : W[i] = V[i]
      /\ \A a \in Accounts : K[L + 1][a] = C[L][a] + dirtied(e, a)
      /\ \A i \in 0..L : \A a \in Accounts : K[i][a] = C[i][a]
  <2> HIDE DEF L, fs
  <2>1. L + 1 \in 0..(L + 1) /\ \A i \in 0..L : i \in 0..(L + 1) /\ i # L + 1
    BY <1>2
  <2>2. W[L + 1] = w /\ \A i \in 0..L : W[i] = V[i]
    BY <2>1
  <2>3. \A a \in Accounts : K[L + 1][a] = C[L][a] + dirtied(e, a)
    BY Zenon, <2>1
  <2>4. \A i \in 0..L : \A a \in Accounts : K[i][a] = C[i][a]
    BY Zenon, <2>1
  <2> QED BY Zenon, <2>2, <2>3, <2>4
<1>5. /\ \A a \in Accounts : C[L][a] \in Nat /\ (C[L][a] = 0 => v.accounts[a] = TrieView(a))
  <2>1. L \in 0..L
    BY <1>2
  <2> QED BY Zenon, <1>1, <2>1 DEF History
<1> HIDE DEF L, fs, W, K
<1>6. ASSUME NEW i \in 1..(L + 1)
      PROVE  /\ Back(fs[i], W[i], W[i-1])
             /\ \A a \in Accounts : K[i][a] = K[i-1][a] + dirtied(fs[i], a)
  <2>1. CASE i = L + 1
    <3>1. i - 1 = L /\ L \in 0..L
      BY SMTT(30), <1>2, <2>1
    <3>2. W[i] = w /\ W[i-1] = v /\ fs[i] = e
      BY <1>1, <1>2, <1>4, <2>1, <3>1 DEF L
    <3>3. \A a \in Accounts : K[i][a] = K[i-1][a] + dirtied(fs[i], a)
      BY Zenon, <1>4, <2>1, <3>1, <3>2
    <3> QED BY Zenon, <3>2, <3>3
  <2>2. CASE i # L + 1
    <3>1. i \in 1..L /\ i \in 0..L /\ i - 1 \in 0..L
      BY <1>2, <2>2
    <3>2. W[i] = V[i] /\ W[i-1] = V[i-1] /\ fs[i] = es[i]
      BY Zenon, <1>2, <1>4, <3>1
    <3>3. /\ Back(es[i], V[i], V[i-1])
          /\ \A a \in Accounts : C[i][a] = C[i-1][a] + dirtied(es[i], a)
      BY Zenon, <1>1, <3>1 DEF History, L
    <3>4. \A a \in Accounts : K[i][a] = K[i-1][a] + dirtied(fs[i], a)
      BY Zenon, <1>4, <3>1, <3>2, <3>3
    <3> QED BY Zenon, <3>2, <3>3, <3>4
  <2> QED BY <2>1, <2>2
<1>7. ASSUME NEW i \in 0..(L + 1)
      PROVE  /\ LogsOK(W[i])
             /\ \A a \in Accounts : K[i][a] \in Nat /\ (K[i][a] = 0 => W[i].accounts[a] = TrieView(a))
  <2>1. CASE i = L + 1
    <3>1. ASSUME NEW a \in Accounts
          PROVE  K[i][a] \in Nat /\ (K[i][a] = 0 => w.accounts[a] = TrieView(a))
      <4>1. K[i][a] = C[L][a] + dirtied(e, a) /\ C[L][a] \in Nat
        BY <1>4, <1>5, <2>1
      <4>2. K[i][a] = 0 => C[L][a] = 0 /\ dirtied(e, a) = 0
        BY <1>3, <4>1
      <4> QED BY <1>3, <1>5, <4>1, <4>2
    <3> QED BY Zenon, <1>4, <2>1, <3>1
  <2>2. CASE i # L + 1
    <3>1. i \in 0..L
      BY <1>2, <2>2
    <3>2. /\ LogsOK(V[i])
          /\ \A a \in Accounts : C[i][a] \in Nat /\ (C[i][a] = 0 => V[i].accounts[a] = TrieView(a))
      BY Zenon, <1>1, <3>1 DEF History, L
    <3> QED BY Zenon, <1>4, <3>1, <3>2
  <2> QED BY <2>1, <2>2
<1>8. History(fs, W, K)
  BY Zenon, <1>2, <1>6, <1>7 DEF History
<1>9. RevisionsOK(fs, W)
  <2>1. ASSUME NEW idx \in 1..Len(validRevisions)
        PROVE  /\ validRevisions[idx] <= Len(fs)
               /\ saved[idx] = W[validRevisions[idx]]
    <3>1. validRevisions[idx] \in Nat /\ validRevisions[idx] <= L /\ saved[idx] = V[validRevisions[idx]]
      BY <1>1 DEF RevisionsOK, L
    <3>2. validRevisions[idx] \in 0..L /\ validRevisions[idx] <= L + 1
      BY <1>2, <3>1
    <3> QED BY Zenon, <1>2, <1>4, <3>1, <3>2
  <2> QED BY Zenon, <1>1, <2>1 DEF RevisionsOK
<1>10. \A a \in Accounts : d2[a] >= K[Len(fs)][a]
  <2> SUFFICES ASSUME NEW a \in Accounts PROVE d2[a] >= K[Len(fs)][a]
    BY Zenon
  <2>1. K[Len(fs)][a] = C[L][a] + dirtied(e, a) /\ C[L][a] \in Nat /\ d[a] >= C[L][a]
    BY <1>1, <1>2, <1>4, <1>5 DEF L
  <2>2. d2[a] >= d[a] + dirtied(e, a) /\ d[a] \in Int /\ d2[a] \in Int
    OBVIOUS
  <2>3. dirtied(e, a) \in Int
    BY <1>3
  <2> QED BY SMTT(30), <2>1, <2>2, <2>3
<1>11. W[Len(fs)] = w
  BY <1>2, <1>4
<1> QED BY Zenon, <1>8, <1>9, <1>10, <1>11 DEF Means, fs

(* More dirty accounts do no harm.                                         *)
LEMMA Recount ==
    ASSUME NEW es, Len(es) \in Nat, NEW v, NEW d \in [Accounts -> Int], Means(es, v, d),
           NEW d2 \in [Accounts -> Int], \A a \in Accounts : d2[a] >= d[a]
    PROVE  Means(es, v, d2)
<1>1. PICK V, C : /\ History(es, V, C) /\ RevisionsOK(es, V) /\ V[Len(es)] = v
                  /\ \A a \in Accounts : d[a] >= C[Len(es)][a]
  BY Zenon DEF Means
<1>2. \A a \in Accounts : C[Len(es)][a] \in Nat
  <2>1. Len(es) \in 0..Len(es)
    OBVIOUS
  <2> QED BY Zenon, <1>1, <2>1 DEF History
<1>3. \A a \in Accounts : d2[a] >= C[Len(es)][a]
  <2> SUFFICES ASSUME NEW a \in Accounts PROVE d2[a] >= C[Len(es)][a]
    BY Zenon
  <2>1. d[a] \in Int /\ d2[a] \in Int /\ d2[a] >= d[a]
    OBVIOUS
  <2>2. C[Len(es)][a] \in Nat /\ d[a] >= C[Len(es)][a]
    BY <1>1, <1>2
  <2> QED BY <2>1, <2>2
<1> QED BY Zenon, <1>1, <1>3 DEF Means

(* What the invariant says of the trie and the database depends on them    *)
(* only.                                                                   *)
LEMMA SameDatabase ==
    ASSUME trie' = trie, codes' = codes, roots' = roots
    PROVE  /\ DatabaseOK => DatabaseOK'
           /\ \A objects, d : ObjectsOK(objects, d) => ObjectsOK(objects, d)'
           /\ \A e, v, u : Back(e, v, u) => Back(e, v, u)'
           /\ \A a : TrieView(a)' = TrieView(a)
           /\ \A objects, a : Read(objects, a)' = Read(objects, a)
<1>1. \A o : ObjectOK(o)' <=> ObjectOK(o)
  BY DEF ObjectOK, Objects, Data
<1>2. DatabaseOK => DatabaseOK'
  BY DEF DatabaseOK, Data
<1>3. \A objects, d : ObjectsOK(objects, d) => ObjectsOK(objects, d)'
  BY <1>1 DEF ObjectsOK, Dead, empty
<1>4. \A e, v, u : Back(e, v, u) => Back(e, v, u)'
  <2>1. \A e, x, y : AccountBack(e, x, y) => AccountBack(e, x, y)'
    BY <1>1 DEF AccountBack, NoAccount, Getters, newObject, EmptyAccount, GetState, NoValue, ReadSuicided,
       ReadBalance, ReadNonce, ReadCode, ReadState
  <2>2. \A e, v, u : OtherBack(e, v, u) => OtherBack(e, v, u)'
    BY ZenonT(40) DEF OtherBack, Shortened
  <2>3. \A v, b, y : WithAccount(v, b, y)' = WithAccount(v, b, y)
    BY DEF WithAccount
  <2> QED BY Zenon, <2>1, <2>2, <2>3 DEF Back
<1>5. \A a : TrieView(a)' = TrieView(a)
  BY DEF TrieView, NoAccount, Getters, newObject, EmptyAccount, GetState, NoValue
<1>6. \A objects, a : Read(objects, a)' = Read(objects, a)
  BY DEF Read, Found, getStateObject, Getters, newObject, EmptyAccount, GetState, NoValue
<1> QED BY Zenon, <1>2, <1>3, <1>4, <1>5, <1>6

(* So a history survives where they do not change,                         *)
LEMMA SameHistory ==
    ASSUME trie' = trie, codes' = codes, roots' = roots,
           NEW V, NEW C, History(entries', V, C)
    PROVE  History(entries, V, C)'
<1>1. /\ \A e, v, u : Back(e, v, u) => Back(e, v, u)'
      /\ \A a : TrieView(a)' = TrieView(a)
  BY Zenon, SameDatabase
<1>2. \A v : LogsOK(v) => LogsOK(v)'
  BY DEF LogsOK
<1>3. \A e, a : dirtied(e, a)' = dirtied(e, a)
  BY DEF dirtied
<1> QED BY Zenon, <1>1, <1>2, <1>3 DEF History

(* ... and a meaning where the snapshots do not either.                    *)
LEMMA StillMeans ==
    ASSUME trie' = trie, codes' = codes, roots' = roots,
           validRevisions' = validRevisions, saved' = saved,
           Means(entries', View', dirties')
    PROVE  Means(entries, View, dirties)'
<1>1. PICK V, C : /\ History(entries', V, C) /\ RevisionsOK(entries', V) /\ V[Len(entries')] = View'
                  /\ \A a \in Accounts : dirties'[a] >= C[Len(entries')][a]
  BY Zenon DEF Means
<1>2. History(entries, V, C)'
  BY Zenon, <1>1, SameHistory
<1>3. RevisionsOK(entries, V)'
  BY Zenon, <1>1 DEF RevisionsOK
<1> QED BY Zenon, <1>1, <1>2, <1>3 DEF Means

-----------------------------------------------------------------------------
(* The setters.                                                            *)

(* The object a setter starts from, and what is read of the account then.  *)
LEMMA Base ==
    ASSUME Inv, NEW a \in Accounts
    PROVE  /\ ObjectOK(GetOrNewStateObject(a)) /\ ~GetOrNewStateObject(a).deleted
           /\ Exist(a) => View.accounts[a] = Getters(GetOrNewStateObject(a), "yes")
           /\ ~Exist(a) => /\ GetOrNewStateObject(a) = newObject(EmptyAccount)
                           /\ View.accounts[a] = NoAccount /\ a \notin DOMAIN trie
<1>1. View.accounts[a] = Read(stateObjects, a)
  BY DEF View
<1>2. CASE Exist(a)
  <2>1. GetOrNewStateObject(a) = getStateObject(stateObjects, a) /\ Found(stateObjects, a)
    BY <1>2 DEF GetOrNewStateObject, Exist
  <2> QED BY Zenon, <1>1, <1>2, <2>1, GotOK, ReadFound DEF Inv
<1>3. CASE ~Exist(a)
  <2>1. GetOrNewStateObject(a) = newObject(EmptyAccount) /\ ~Found(stateObjects, a)
    BY <1>3 DEF GetOrNewStateObject, Exist
  <2>2. a \notin DOMAIN trie
    BY <2>1 DEF Found, Inv, ObjectsOK
  <2> QED BY Zenon, <1>1, <1>3, <2>1, <2>2, NewOK, ReadNotFound DEF Inv
<1> QED BY <1>2, <1>3

(* What can be read now has the logs of a state.                           *)
LEMMA ViewLogs ==
    ASSUME NEW es, Len(es) \in Nat, NEW v, NEW d, Means(es, v, d)
    PROVE  LogsOK(v)
<1>1. PICK V, C : History(es, V, C) /\ V[Len(es)] = v
  BY Zenon DEF Means
<1>2. Len(es) \in 0..Len(es)
  OBVIOUS
<1> QED BY Zenon, <1>1, <1>2 DEF History

(* The count of an entry.                                                  *)
LEMMA Counts ==
    ASSUME NEW e, NEW a
    PROVE  dirtied(e, a) \in {0, 1} /\ dirty(e, a) \in {0, 1}
BY DEF dirtied, dirty

(* One entry of an account: y can be read of it afterwards.                *)
LEMMA ExtendAccount ==
    ASSUME NEW S, NEW es \in Seq(S), NEW v, NEW d \in [Accounts -> Int], Means(es, v, d),
           DOMAIN v.accounts = Accounts, NEW a \in Accounts, NEW e, e.account = a, NEW y,
           v = WithAccount(v, a, v.accounts[a]),
           AccountBack(e, y, v.accounts[a]),
           dirtied(e, a) = 0 /\ v.accounts[a] = TrieView(a) => y = TrieView(a),
           NEW d2 \in [Accounts -> Int], \A b \in Accounts : d2[b] >= d[b] + dirtied(e, b)
    PROVE  Means(Append(es, e), WithAccount(v, a, y), d2)
<1> DEFINE w == WithAccount(v, a, y)
<1>1. /\ w.accounts[a] = y /\ w.logs = v.logs /\ w.logSize = v.logSize
      /\ \A b \in Accounts : b # a => w.accounts[b] = v.accounts[b]
  BY DEF WithAccount
<1>2. WithAccount(w, a, v.accounts[a]) = v
  BY Zenon DEF WithAccount
<1> HIDE DEF w
<1>3. Back(e, w, v)
  BY Zenon, <1>1, <1>2 DEF Back
<1>4. LogsOK(w)
  <2>1. Len(es) \in Nat
    OBVIOUS
  <2>2. LogsOK(v)
    BY Zenon, <2>1, ViewLogs
  <2> QED BY Zenon, <1>1, <2>2 DEF LogsOK
<1>5. \A b \in Accounts : dirtied(e, b) = 0 /\ v.accounts[b] = TrieView(b) => w.accounts[b] = TrieView(b)
  BY Zenon, <1>1
<1> QED BY ZenonT(40), <1>3, <1>4, <1>5, Extend DEF w

(* The first entries of a sequence.                                        *)
LEMMA FirstEntries ==
    ASSUME NEW S, NEW q \in Seq(S), NEW k \in 1..Len(q)
    PROVE  /\ SubSeq(q, 1, k - 1) \in Seq(S) /\ Len(SubSeq(q, 1, k - 1)) = k - 1
           /\ \A j \in 1..(k - 1) : SubSeq(q, 1, k - 1)[j] = q[j]
OBVIOUS

(* No entry is appended.                                                   *)
LEMMA AppendNone == ASSUME NEW S, NEW es \in Seq(S) PROVE es \o (<< >> \o << >>) = es
OBVIOUS

(* One entry.                                                              *)
LEMMA AppendOne ==
    ASSUME NEW S, NEW es \in Seq(S), NEW c, NEW e
    PROVE  /\ es \o (<< >> \o <<e>>) = Append(es, e)
           /\ es \o (<<e>> \o << >>) = Append(es, e)
           /\ Append(es, e) \in Seq(S \cup {c, e})
OBVIOUS

(* Two entries.                                                            *)
LEMMA AppendTwo ==
    ASSUME NEW S, NEW es \in Seq(S), NEW c, NEW e
    PROVE  /\ es \o (<<c>> \o <<e>>) = Append(Append(es, c), e)
           /\ Append(Append(es, c), e) \in Seq(S \cup {c, e})
OBVIOUS

(* What the entries fs add to dirties.                                     *)
Counted(fs) ==
    [b \in Accounts |-> dirties[b]
        + (IF Len(fs) > 0 THEN dirtied(fs[1], b) + dirty(fs[1], b) ELSE 0)
        + (IF Len(fs) > 1 THEN dirtied(fs[2], b) + dirty(fs[2], b) ELSE 0)]

(* The count of no entry and of one.                                       *)
LEMMA CountEntries ==
    ASSUME NEW e
    PROVE  /\ Counted(<< >> \o << >>) = [b \in Accounts |-> dirties[b] + 0 + 0]
           /\ Counted(<< >> \o <<e>>) = [b \in Accounts |-> dirties[b] + (dirtied(e, b) + dirty(e, b)) + 0]
           /\ Counted(<<e>> \o << >>) = [b \in Accounts |-> dirties[b] + (dirtied(e, b) + dirty(e, b)) + 0]
<1>1. Counted(<< >> \o << >>) = [b \in Accounts |-> dirties[b] + 0 + 0]
  BY DEF Counted
<1>2. Counted(<< >> \o <<e>>) = [b \in Accounts |-> dirties[b] + (dirtied(e, b) + dirty(e, b)) + 0]
  BY DEF Counted
<1>3. Counted(<<e>> \o << >>) = [b \in Accounts |-> dirties[b] + (dirtied(e, b) + dirty(e, b)) + 0]
  BY DEF Counted
<1> QED BY Zenon, <1>1, <1>2, <1>3

(* The count of two.                                                       *)
LEMMA CountTwo ==
    ASSUME NEW c, NEW e
    PROVE  Counted(<<c>> \o <<e>>) = [b \in Accounts |-> dirties[b] + (dirtied(c, b) + dirty(c, b))
                                                       + (dirtied(e, b) + dirty(e, b))]
BY DEF Counted

(* What Set keeps, whatever the setter, for an object o and entries es     *)
(* that lead back from what is read of o.                                  *)
SetOK(a, o, es) ==
    LET x == Getters(GetOrNewStateObject(a), "yes")
        y == Getters(o, "yes")
    IN  /\ ObjectOK(o) /\ ~o.deleted
        /\ \/ es = << >> /\ y = x
           \/ \E e : /\ es = <<e>> /\ e.account = a /\ AccountBack(e, y, x)
                     /\ dirtied(e, a) = 0 /\ x = TrieView(a) => y = TrieView(a)

LEMMA SetMeans ==
    ASSUME Inv, NEW a \in Accounts, NEW o, NEW es, SetOK(a, o, es), Set(a, o, es)
    PROVE  /\ \E S : entries' \in Seq(S)
           /\ dirties' \in [Accounts -> Int]
           /\ Means(entries', WithAccount(View, a, Getters(o, "yes")), dirties')
<1> DEFINE x == Getters(GetOrNewStateObject(a), "yes")
           y == Getters(o, "yes")
           c == [change |-> "create", account |-> a]
<1>1. PICK S : entries \in Seq(S)
  BY Zenon DEF Inv
<1>2. /\ dirties \in [Accounts -> Int] /\ Means(entries, View, dirties)
      /\ DOMAIN View.accounts = Accounts
      /\ \A z : DOMAIN WithAccount(View, a, z).accounts = Accounts
  BY DEF Inv, View, WithAccount
<1>3. /\ View = WithAccount(View, a, View.accounts[a])
      /\ \A z : WithAccount(View, a, z).accounts[a] = z
      /\ \A z : WithAccount(View, a, z) = WithAccount(WithAccount(View, a, z), a, z)
      /\ \A z, u : WithAccount(WithAccount(View, a, z), a, u) = WithAccount(View, a, u)
  BY ZenonT(40) DEF View, WithAccount
<1>4. /\ entries' = entries \o (Created(a) \o es)
      /\ dirties' = Counted(Created(a) \o es)
  BY Zenon DEF Set, append, Counted
<1>5. c.account = a /\ (a \notin DOMAIN trie => AccountBack(c, x, NoAccount))
  <2>1. x.exist = "yes"
    BY DEF Getters
  <2> QED BY Zenon, <2>1 DEF AccountBack
<1>6. dirtied(c, a) = 1
  BY DEF dirtied, Dirtying
<1>7. CASE Exist(a)
  <2>1. Created(a) = << >> /\ View.accounts[a] = x
    BY Zenon, <1>7, Base DEF Created
  <2>2. CASE es = << >> /\ y = x
    <3>1. entries' = entries
      BY Zenon, <1>1, <1>4, <2>1, <2>2, AppendNone
    <3>2. dirties' = dirties
      <4>1. dirties' = [b \in Accounts |-> dirties[b] + 0 + 0]
        BY Zenon, <1>4, <2>1, <2>2, CountEntries
      <4> QED BY <1>2, <4>1
    <3> QED BY ZenonT(40), <1>1, <1>2, <1>3, <2>1, <2>2, <3>1, <3>2
  <2>3. ASSUME NEW e, es = <<e>>, e.account = a, AccountBack(e, y, x),
               dirtied(e, a) = 0 /\ x = TrieView(a) => y = TrieView(a)
        PROVE  /\ \E T : entries' \in Seq(T)
               /\ dirties' \in [Accounts -> Int]
               /\ Means(entries', WithAccount(View, a, y), dirties')
    <3>0. entries' = entries \o (<< >> \o <<e>>)
      BY Zenon, <1>4, <2>1, <2>3
    <3>1. entries' = Append(entries, e) /\ Append(entries, e) \in Seq(S \cup {c, e})
      BY Zenon, <1>1, <3>0, AppendOne
    <3>2. dirties' = [b \in Accounts |-> dirties[b] + (dirtied(e, b) + dirty(e, b)) + 0]
      <4>1. dirties' = Counted(<< >> \o <<e>>)
        BY Zenon, <1>4, <2>1, <2>3
      <4> QED BY Zenon, <4>1, CountEntries
    <3>3. /\ dirties' \in [Accounts -> Int]
          /\ \A b \in Accounts : dirties'[b] >= dirties[b] + dirtied(e, b)
      BY SMTT(30), <1>2, <3>2, Counts
    <3> HIDE DEF x, y
    <3>4. Means(Append(entries, e), WithAccount(View, a, y), dirties')
      BY ZenonT(40), <1>1, <1>2, <1>3, <2>1, <2>3, <3>3, ExtendAccount
    <3> QED BY Zenon, <3>1, <3>3, <3>4
  <2> QED BY <2>2, <2>3 DEF SetOK
<1>8. CASE ~Exist(a)
  <2> DEFINE v == WithAccount(View, a, x)
             d == [b \in Accounts |-> dirties[b] + dirtied(c, b)]
  <2>1. Created(a) = <<c>> /\ View.accounts[a] = NoAccount /\ a \notin DOMAIN trie
    BY Zenon, <1>8, Base DEF Created
  <2>2. /\ d \in [Accounts -> Int]
        /\ \A b \in Accounts : d[b] >= dirties[b] + dirtied(c, b)
    BY <1>2, Counts
  <2>3. Append(entries, c) \in Seq(S \cup {c})
    BY <1>1
  <2> HIDE DEF c, d, x, y
  <2>4. Means(Append(entries, c), v, d)
    <3>1. AccountBack(c, x, View.accounts[a]) /\ c.account = a
      BY Zenon, <1>5, <2>1
    <3>2. dirtied(c, a) # 0
      BY <1>6
    <3> QED BY Zenon, <1>1, <1>2, <1>3, <2>2, <3>1, <3>2, ExtendAccount
  <2>5. CASE es = << >> /\ y = x
    <3>1. entries' = Append(entries, c)
      <4>1. entries' = entries \o (<<c>> \o << >>)
        BY Zenon, <1>4, <2>1, <2>5
      <4> QED BY Zenon, <1>1, <4>1, AppendOne
    <3>2. dirties' = [b \in Accounts |-> dirties[b] + (dirtied(c, b) + dirty(c, b)) + 0]
      <4>1. dirties' = Counted(<<c>> \o << >>)
        BY Zenon, <1>4, <2>1, <2>5
      <4> QED BY Zenon, <4>1, CountEntries
    <3>3. /\ dirties' \in [Accounts -> Int]
          /\ \A b \in Accounts : dirties'[b] >= d[b]
      BY <1>2, <3>2, Counts DEF d
    <3>4. Len(Append(entries, c)) \in Nat
      BY <2>3
    <3>5. Means(Append(entries, c), v, dirties')
      BY Zenon, <2>2, <2>4, <3>3, <3>4, Recount
    <3> QED BY Zenon, <2>3, <2>5, <3>1, <3>3, <3>5 DEF y
  <2>6. ASSUME NEW e, es = <<e>>, e.account = a, AccountBack(e, y, x),
               dirtied(e, a) = 0 /\ x = TrieView(a) => y = TrieView(a)
        PROVE  /\ \E T : entries' \in Seq(T)
               /\ dirties' \in [Accounts -> Int]
               /\ Means(entries', WithAccount(View, a, y), dirties')
    <3>0. entries' = entries \o (<<c>> \o <<e>>)
      BY Zenon, <1>4, <2>1, <2>6
    <3>1. /\ entries' = Append(Append(entries, c), e)
          /\ Append(Append(entries, c), e) \in Seq(S \cup {c, e})
      <4>1. /\ entries \o (<<c>> \o <<e>>) = Append(Append(entries, c), e)
            /\ Append(Append(entries, c), e) \in Seq(S \cup {c, e})
        BY Zenon, <1>1, AppendTwo
      <4> QED BY Zenon, <3>0, <4>1
    <3>2. dirties' = [b \in Accounts |-> dirties[b] + (dirtied(c, b) + dirty(c, b))
                                           + (dirtied(e, b) + dirty(e, b))]
      <4>1. dirties' = Counted(<<c>> \o <<e>>)
        BY Zenon, <1>4, <2>1, <2>6
      <4> QED BY Zenon, <4>1, CountTwo
    <3>3. /\ dirties' \in [Accounts -> Int]
          /\ \A b \in Accounts : dirties'[b] >= d[b] + dirtied(e, b)
      BY <1>2, <3>2, Counts DEF d
    <3>4. Means(Append(Append(entries, c), e), WithAccount(v, a, y), dirties')
      <4>1. v.accounts[a] = x /\ v = WithAccount(v, a, x) /\ DOMAIN v.accounts = Accounts
        BY Zenon, <1>2, <1>3
      <4> HIDE DEF v
      <4>2. AccountBack(e, y, v.accounts[a]) /\ v = WithAccount(v, a, v.accounts[a])
        BY Zenon, <2>6, <4>1
      <4>3. dirtied(e, a) = 0 /\ v.accounts[a] = TrieView(a) => y = TrieView(a)
        BY Zenon, <2>6, <4>1
      <4> QED BY Zenon, <2>2, <2>3, <2>4, <2>6, <3>3, <4>1, <4>2, <4>3, ExtendAccount
    <3> QED BY Zenon, <1>3, <3>1, <3>3, <3>4
  <2> QED BY <2>5, <2>6 DEF SetOK, x, y
<1> QED BY <1>7, <1>8

(* The invariant after a setter.                                           *)
LEMMA SetKeeps ==
    ASSUME Inv, NEW a \in Accounts, NEW o, NEW es, SetOK(a, o, es), Set(a, o, es)
    PROVE  Inv'
<1> DEFINE y == Getters(o, "yes")
<1>1. /\ stateObjects' = Put(stateObjects, a, o) /\ stateObjectsDirty' = stateObjectsDirty
      /\ refund' = refund /\ thash' = thash /\ logs' = logs /\ logSize' = logSize
      /\ preimages' = preimages /\ trie' = trie /\ codes' = codes /\ roots' = roots
      /\ panic' = panic /\ validRevisions' = validRevisions /\ saved' = saved
  BY DEF Set, append, logVars, dbVars
<1>2. ObjectOK(o) /\ ~o.deleted
  BY DEF SetOK
<1>3. /\ \E S : entries' \in Seq(S)
      /\ dirties' \in [Accounts -> Int]
      /\ Means(entries', WithAccount(View, a, y), dirties')
  BY Zenon, SetMeans
<1> HIDE DEF y
<1>4. View' = WithAccount(View, a, y)
  <2>1. \A objects, b : Read(objects, b)' = Read(objects, b)
    BY Zenon, <1>1, SameDatabase
  <2>2. \A b \in Accounts : Read(stateObjects, b)' = IF b = a THEN y ELSE Read(stateObjects, b)
    <3>1. \A b \in Accounts : Read(stateObjects, b)' = Read(Put(stateObjects, a, o), b)
      BY Zenon, <1>1, <2>1
    <3>2. /\ Read(Put(stateObjects, a, o), a) = y
          /\ \A b : b # a => Read(Put(stateObjects, a, o), b) = Read(stateObjects, b)
      BY <1>2, ReadPut DEF y
    <3> QED BY <3>1, <3>2
  <2>3. View.accounts = [b \in Accounts |-> Read(stateObjects, b)]
    BY Zenon DEF View
  <2>4. View'.accounts = [View.accounts EXCEPT ![a] = y]
    <3>1. View'.accounts = [b \in Accounts |-> Read(stateObjects, b)']
      BY Zenon DEF View
    <3> QED BY <2>2, <2>3, <3>1
  <2>5. /\ View' = [accounts |-> View'.accounts, refund |-> refund, logs |-> logs,
                    logSize |-> logSize, preimages |-> preimages]
        /\ View.refund = refund /\ View.logs = logs /\ View.logSize = logSize
        /\ View.preimages = preimages
    BY <1>1 DEF View
  <2> QED BY Zenon, <2>4, <2>5 DEF WithAccount
<1>5. Means(entries, View, dirties)'
  BY Zenon, <1>1, <1>3, <1>4, StillMeans
<1>6. ObjectsOK(stateObjects, stateObjectsDirty)' /\ DatabaseOK'
  <2>1. ObjectsOK(Put(stateObjects, a, o), stateObjectsDirty)
    BY Zenon, <1>2, PutOK DEF Inv
  <2>2. ObjectsOK(stateObjects', stateObjectsDirty')
    BY Zenon, <1>1, <2>1
  <2> QED BY Zenon, <1>1, <2>2, SameDatabase DEF Inv
<1>7. thash' \in Hashes /\ panic' \in {"none", "finalise"}
  BY <1>1 DEF Inv
<1> QED BY Zenon, <1>3, <1>5, <1>6, <1>7 DEF Inv

(* Entries that lead back: a balance,                                        *)
LEMMA BalanceSet ==
    ASSUME Inv, NEW a \in Accounts, NEW n \in Int
    PROVE  LET o == GetOrNewStateObject(a)
           IN  SetOK(a, setBalance(o, n), <<[change |-> "balance", account |-> a, prev |-> o.data.balance]>>)
<1> DEFINE o == GetOrNewStateObject(a)
           e == [change |-> "balance", account |-> a, prev |-> o.data.balance]
           x == Getters(o, "yes")
           y == Getters(setBalance(o, n), "yes")
<1>1. ObjectOK(o) /\ ~o.deleted
  BY Zenon, Base
<1>2. o.data.balance \in Int
  BY <1>1 DEF ObjectOK, Objects, Data
<1> HIDE DEF o
<1>3. ObjectOK(setBalance(o, n)) /\ ~setBalance(o, n).deleted /\ y = ReadBalance(x, n)
  BY Zenon, <1>1, BalanceObject
<1>4. y.exist = "yes" /\ x = ReadBalance(y, o.data.balance)
  BY <1>3 DEF ReadBalance, Getters
<1>5. e.change = "balance" /\ e.account = a /\ e.prev = o.data.balance
  OBVIOUS
<1> HIDE DEF e, x, y
<1>6. AccountBack(e, y, x)
  BY Zenon, <1>2, <1>4, <1>5 DEF AccountBack
<1>7. dirtied(e, a) # 0
  BY <1>5 DEF dirtied, Dirtying
<1> QED BY Zenon, <1>3, <1>5, <1>6, <1>7 DEF SetOK, o, e, x, y

(* ... a nonce,                                                             *)
LEMMA NonceSet ==
    ASSUME Inv, NEW a \in Accounts, NEW n \in Int
    PROVE  LET o == GetOrNewStateObject(a)
           IN  SetOK(a, setNonce(o, n), <<[change |-> "nonce", account |-> a, prev |-> o.data.nonce]>>)
<1> DEFINE o == GetOrNewStateObject(a)
           e == [change |-> "nonce", account |-> a, prev |-> o.data.nonce]
           x == Getters(o, "yes")
           y == Getters(setNonce(o, n), "yes")
<1>1. ObjectOK(o) /\ ~o.deleted
  BY Zenon, Base
<1>2. o.data.nonce \in Int
  BY <1>1 DEF ObjectOK, Objects, Data
<1> HIDE DEF o
<1>3. ObjectOK(setNonce(o, n)) /\ ~setNonce(o, n).deleted /\ y = ReadNonce(x, n)
  BY Zenon, <1>1, NonceObject
<1>4. y.exist = "yes" /\ x = ReadNonce(y, o.data.nonce)
  BY <1>3 DEF ReadNonce, Getters
<1>5. e.change = "nonce" /\ e.account = a /\ e.prev = o.data.nonce
  OBVIOUS
<1> HIDE DEF e, x, y
<1>6. AccountBack(e, y, x)
  BY Zenon, <1>2, <1>4, <1>5 DEF AccountBack
<1>7. dirtied(e, a) # 0
  BY <1>5 DEF dirtied, Dirtying
<1> QED BY Zenon, <1>3, <1>5, <1>6, <1>7 DEF SetOK, o, e, x, y

(* ... a code,                                                              *)
LEMMA CodeSet ==
    ASSUME Inv, NEW a \in Accounts, NEW n \in Nat
    PROVE  LET o == GetOrNewStateObject(a)
           IN  SetOK(a, setCode(o, n), <<[change |-> "code", account |-> a, prev |-> o.data.code]>>)
<1> DEFINE o == GetOrNewStateObject(a)
           e == [change |-> "code", account |-> a, prev |-> o.data.code]
           x == Getters(o, "yes")
           y == Getters(setCode(o, n), "yes")
<1>1. ObjectOK(o) /\ ~o.deleted
  BY Zenon, Base
<1>2. o.data.code \in Nat
  BY <1>1 DEF ObjectOK, Objects, Data
<1> HIDE DEF o
<1>3. ObjectOK(setCode(o, n)) /\ ~setCode(o, n).deleted /\ y = ReadCode(x, n)
  BY Zenon, <1>1, CodeObject
<1>4. y.exist = "yes" /\ x = ReadCode(y, o.data.code)
  BY <1>3 DEF ReadCode, Getters
<1>5. e.change = "code" /\ e.account = a /\ e.prev = o.data.code
  OBVIOUS
<1> HIDE DEF e, x, y
<1>6. AccountBack(e, y, x)
  BY Zenon, <1>2, <1>4, <1>5 DEF AccountBack
<1>7. dirtied(e, a) # 0
  BY <1>5 DEF dirtied, Dirtying
<1> QED BY Zenon, <1>3, <1>5, <1>6, <1>7 DEF SetOK, o, e, x, y

(* ... and a slot.                                                          *)
LEMMA SlotSet ==
    ASSUME Inv, NEW a \in Accounts, NEW n \in Nat
    PROVE  LET o == GetOrNewStateObject(a)
           IN  SetOK(a, setState(o, n), <<[change |-> "storage", account |-> a, prev |-> GetState(o)]>>)
<1> DEFINE o == GetOrNewStateObject(a)
           e == [change |-> "storage", account |-> a, prev |-> GetState(o)]
           x == Getters(o, "yes")
           y == Getters(setState(o, n), "yes")
<1>1. ObjectOK(o) /\ ~o.deleted
  BY Zenon, Base
<1>2. GetState(o) \in Nat
  BY <1>1 DEF ObjectOK, Objects, Data, GetState, NoValue
<1> HIDE DEF o
<1>3. ObjectOK(setState(o, n)) /\ ~setState(o, n).deleted /\ y = ReadState(x, n)
  BY Zenon, <1>1, SlotObject
<1>4. y.exist = "yes" /\ x = ReadState(y, GetState(o))
  BY <1>3 DEF ReadState, Getters
<1>5. e.change = "storage" /\ e.account = a /\ e.prev = GetState(o)
  OBVIOUS
<1> HIDE DEF e, x, y
<1>6. AccountBack(e, y, x)
  BY Zenon, <1>2, <1>4, <1>5 DEF AccountBack
<1>7. dirtied(e, a) # 0
  BY <1>5 DEF dirtied, Dirtying
<1> QED BY Zenon, <1>3, <1>5, <1>6, <1>7 DEF SetOK, o, e, x, y

(* A self-destruction leads back as well,                                  *)
LEMMA SuicideSet ==
    ASSUME Inv, NEW a \in Accounts
    PROVE  LET o == GetOrNewStateObject(a)
           IN  SetOK(a, setBalance(markSuicided(o, TRUE), 0),
                     <<[change |-> "suicide", account |-> a, prev |-> o.suicided,
                        balance |-> o.data.balance]>>)
<1> DEFINE o == GetOrNewStateObject(a)
           n == setBalance(markSuicided(o, TRUE), 0)
           e == [change |-> "suicide", account |-> a, prev |-> o.suicided, balance |-> o.data.balance]
           x == Getters(o, "yes")
           y == Getters(n, "yes")
<1>1. ObjectOK(o) /\ ~o.deleted
  BY Zenon, Base
<1>2. o.suicided \in BOOLEAN /\ o.data.balance \in Int
  BY <1>1 DEF ObjectOK, Objects, Data
<1> HIDE DEF o
<1>3. ObjectOK(n) /\ ~n.deleted /\ y = ReadSuicided(x, TRUE, 0)
  <2>1. 0 \in Int /\ TRUE \in BOOLEAN
    OBVIOUS
  <2> QED BY Zenon, <1>1, <2>1, SuicideObject
<1>4. y.exist = "yes" /\ x = ReadSuicided(y, o.suicided, o.data.balance)
  BY Zenon, <1>3 DEF ReadSuicided, Getters
<1>5. e.change = "suicide" /\ e.account = a /\ e.prev = o.suicided /\ e.balance = o.data.balance
  BY <1>2
<1> HIDE DEF e, x, y, n
<1>6. AccountBack(e, y, x)
  BY Zenon, <1>2, <1>4, <1>5 DEF AccountBack
<1>7. dirtied(e, a) # 0
  BY SMTT(30), <1>5 DEF dirtied, Dirtying
<1> QED BY Zenon, <1>3, <1>5, <1>6, <1>7 DEF SetOK, o, e, x, y, n

(* ... and a reset, which counts for nothing: it changes nothing that can  *)
(* be read of an account that reads as in the trie.                        *)
LEMMA CreateSet ==
    ASSUME Inv, NEW a \in Accounts
    PROVE  LET prev == GetOrNewStateObject(a)
               new == setBalance(newObject(EmptyAccount), prev.data.balance)
           IN  prev.data.nonce = 0 /\ prev.data.code = 0 /\ GetState(prev) = 0
                 => SetOK(a, new,
                          IF Exist(a) THEN <<[change |-> "reset", account |-> a, object |-> prev]>>
                                      ELSE << >>)
<1> DEFINE o == GetOrNewStateObject(a)
           n == setBalance(newObject(EmptyAccount), o.data.balance)
           e == [change |-> "reset", account |-> a, object |-> o]
           x == Getters(o, "yes")
           y == Getters(n, "yes")
<1> SUFFICES ASSUME o.data.nonce = 0, o.data.code = 0, GetState(o) = 0
             PROVE  SetOK(a, n, IF Exist(a) THEN <<e>> ELSE << >>)
  OBVIOUS
<1>1. ObjectOK(o) /\ ~o.deleted
  BY Zenon, Base
<1>2. o.data.balance \in Int
  BY Zenon, <1>1 DEF ObjectOK, Objects, Data
<1>3. ObjectOK(newObject(EmptyAccount)) /\ ~newObject(EmptyAccount).deleted
  BY NewOK DEF Inv
<1>4. ~Exist(a) => o = newObject(EmptyAccount)
  BY Zenon, Base
<1> HIDE DEF o
<1>5. ObjectOK(n) /\ ~n.deleted /\ y = ReadBalance(Getters(newObject(EmptyAccount), "yes"), o.data.balance)
  BY Zenon, <1>2, <1>3, BalanceObject
<1>6. y = [exist |-> "yes", suicided |-> FALSE, nonce |-> 0, balance |-> o.data.balance,
           code |-> 0, slot |-> 0]
  BY Zenon, <1>5 DEF ReadBalance, Getters, newObject, EmptyAccount, GetState
<1>7. ~o.suicided => y = x
  <2> SUFFICES ASSUME ~o.suicided PROVE x = y
    OBVIOUS
  <2>1. o.suicided = FALSE
    BY <1>1 DEF ObjectOK, Objects
  <2> QED BY Zenon, <1>6, <2>1 DEF Getters
<1>8. CASE ~Exist(a)
  <2>1. ~o.suicided
    BY <1>4, <1>8 DEF newObject
  <2>2. y = x
    BY Zenon, <1>7, <2>1
  <2> HIDE DEF x, y, n, e
  <2> QED BY Zenon, <1>5, <1>8, <2>2 DEF SetOK, o, x, y
<1>9. CASE Exist(a)
  <2>1. e.change = "reset" /\ e.account = a /\ e.object = o
    OBVIOUS
  <2>2. x = TrieView(a) => y = TrieView(a)
    <3>1. ~TrieView(a).suicided
      BY Zenon DEF TrieView, NoAccount, Getters, newObject
    <3>2. x.suicided <=> o.suicided
      BY DEF Getters
    <3> HIDE DEF x, y
    <3> QED BY ZenonT(40), <1>7, <3>1, <3>2
  <2> HIDE DEF e, n, y
  <2>3. AccountBack(e, y, x)
    BY Zenon, <1>1, <2>1 DEF AccountBack
  <2> QED BY Zenon, <1>5, <1>9, <2>1, <2>2, <2>3 DEF SetOK, o, y, n
<1> QED BY ZenonT(40), <1>8, <1>9

(* An object may be loaded or created without another change, or touched.  *)
LEMMA LoadSet ==
    ASSUME Inv, NEW a \in Accounts
    PROVE  /\ SetOK(a, GetOrNewStateObject(a), << >>)
           /\ SetOK(a, GetOrNewStateObject(a), <<[change |-> "touch", account |-> a]>>)
<1> DEFINE e == [change |-> "touch", account |-> a]
<1>1. e.change = "touch" /\ e.account = a
  OBVIOUS
<1>2. dirtied(e, a) # 0
  BY <1>1 DEF dirtied, Dirtying
<1> HIDE DEF e
<1>3. \A y : AccountBack(e, y, y)
  BY Zenon, <1>1 DEF AccountBack
<1>4. ObjectOK(GetOrNewStateObject(a)) /\ ~GetOrNewStateObject(a).deleted
  BY Zenon, Base
<1> QED BY Zenon, <1>1, <1>2, <1>3, <1>4 DEF SetOK, e

(* The change of an account, when no read of a storage trie fails.         *)
LEMMA ChangeKeeps ==
    ASSUME Inv, ReadsFail = FALSE, NEW a \in Accounts, Change(a)
    PROVE  Inv'
<1> DEFINE o == GetOrNewStateObject(a)
<1>1. o.data.balance \in Int /\ o.data.nonce \in Int
  BY Base DEF ObjectOK, Objects, Data
<1>2. ASSUME NEW amount \in 0..1, AddBalance(a, amount)
      PROVE  Inv'
  <2>1. CASE amount = 0
    <3>1. \/ Set(a, o, <<[change |-> "touch", account |-> a]>>)
          \/ Set(a, o, << >>)
      BY Zenon, <1>2, <2>1 DEF AddBalance
    <3> QED BY Zenon, <3>1, LoadSet, SetKeeps
  <2>2. CASE amount # 0
    <3>1. Set(a, setBalance(o, o.data.balance + amount),
              <<[change |-> "balance", account |-> a, prev |-> o.data.balance]>>)
      BY Zenon, <1>2, <2>2 DEF AddBalance
    <3>2. o.data.balance + amount \in Int
      BY <1>1
    <3> QED BY Zenon, <3>1, <3>2, BalanceSet, SetKeeps
  <2> QED BY <2>1, <2>2
<1>3. ASSUME NEW amount \in 0..1, SubBalance(a, amount)
      PROVE  Inv'
  <2>1. CASE amount = 0
    <3>1. Set(a, o, << >>)
      BY Zenon, <1>3, <2>1 DEF SubBalance
    <3> QED BY Zenon, <3>1, LoadSet, SetKeeps
  <2>2. CASE amount # 0
    <3>1. Set(a, setBalance(o, o.data.balance - amount),
              <<[change |-> "balance", account |-> a, prev |-> o.data.balance]>>)
      BY Zenon, <1>3, <2>2 DEF SubBalance
    <3>2. o.data.balance - amount \in Int
      BY <1>1
    <3> QED BY Zenon, <3>1, <3>2, BalanceSet, SetKeeps
  <2> QED BY <2>1, <2>2
<1>4. CASE SetNonce(a)
  <2>1. Set(a, setNonce(o, o.data.nonce + 1),
            <<[change |-> "nonce", account |-> a, prev |-> o.data.nonce]>>)
    BY Zenon, <1>4 DEF SetNonce
  <2>2. o.data.nonce + 1 \in Int
    BY <1>1
  <2> QED BY Zenon, <2>1, <2>2, NonceSet, SetKeeps
<1>5. CASE CreateAccount(a)
  BY Zenon, <1>5, CreateSet, SetKeeps DEF CreateAccount
<1>6. ASSUME NEW x \in Values, SetCode(a, x)
      PROVE  Inv'
  <2>1. x \in Nat
    BY StateAssumption DEF Values
  <2> QED BY Zenon, <1>6, <2>1, CodeSet, SetKeeps DEF SetCode
<1>7. ASSUME NEW x \in Values, SetState(a, x)
      PROVE  Inv'
  <2>1. x \in Nat
    BY StateAssumption DEF Values
  <2>2. o \in Objects /\ o.dbErr = FALSE
    BY Base DEF ObjectOK, Objects
  <2> HIDE DEF o
  <2>3. [o EXCEPT !.dbErr = FALSE] = o
    BY <2>2 DEF Objects
  <2>4. PICK fails \in {FALSE, ReadsFail /\ o.slot = NoValue} :
          LET prev == IF fails THEN 0 ELSE GetState(o)
              read == [o EXCEPT !.dbErr = o.dbErr \/ fails]
          IN  IF prev = x
                THEN Set(a, read, << >>)
                ELSE Set(a, setState(read, x),
                         <<[change |-> "storage", account |-> a, prev |-> prev]>>)
    BY Zenon, <1>7 DEF SetState, o
  <2>5. fails = FALSE
    BY Zenon
  <2>6. [o EXCEPT !.dbErr = o.dbErr \/ fails] = o
    BY Zenon, <2>2, <2>3, <2>5
  <2>7. \/ Set(a, o, << >>)
        \/ Set(a, setState(o, x), <<[change |-> "storage", account |-> a, prev |-> GetState(o)]>>)
    BY Zenon, <2>4, <2>5, <2>6
  <2> QED BY ZenonT(40), <2>1, <2>7, LoadSet, SlotSet, SetKeeps DEF o
<1>8. CASE Suicide(a)
  <2>1. o = getStateObject(stateObjects, a)
    BY Zenon, <1>8 DEF Suicide, GetOrNewStateObject
  <2>2. Set(a, setBalance(markSuicided(o, TRUE), 0),
            <<[change |-> "suicide", account |-> a, prev |-> o.suicided, balance |-> o.data.balance]>>)
    BY Zenon, <1>8, <2>1 DEF Suicide
  <2> QED BY Zenon, <2>2, SuicideSet, SetKeeps
<1> QED BY Zenon, <1>2, <1>3, <1>4, <1>5, <1>6, <1>7, <1>8 DEF Change

-----------------------------------------------------------------------------
(* The other changes.                                                      *)

(* An entry for no account.                                                *)
LEMMA OtherKeeps ==
    ASSUME Inv, NEW e, e.change \in {"refund", "log", "preimage"}, append(<<e>>),
           OtherBack(e, View', View), LogsOK(View'),
           stateObjects' = stateObjects, stateObjectsDirty' = stateObjectsDirty,
           trie' = trie, codes' = codes, roots' = roots, thash' = thash, panic' = panic
    PROVE  Inv'
<1>1. PICK S : entries \in Seq(S)
  BY DEF Inv
<1>2. /\ entries' = Append(entries, e) /\ Append(entries, e) \in Seq(S \cup {e})
      /\ dirties' = [a \in Accounts |-> dirties[a] + (dirtied(e, a) + dirty(e, a)) + 0]
      /\ validRevisions' = validRevisions /\ saved' = saved
  BY <1>1 DEF append
<1>3. /\ dirties \in [Accounts -> Int] /\ dirties' \in [Accounts -> Int]
      /\ \A a \in Accounts : dirties'[a] >= dirties[a] + dirtied(e, a)
  <2>1. dirties \in [Accounts -> Int]
    BY DEF Inv
  <2>2. dirties' = [a \in Accounts |-> dirties[a] + (dirtied(e, a) + dirty(e, a)) + 0]
    BY ZenonT(40), <1>2
  <2> QED BY <2>1, <2>2, Counts
<1>5. View.accounts = View'.accounts
  BY DEF OtherBack
<1>6. \A a \in Accounts : dirtied(e, a) = 0 /\ View.accounts[a] = TrieView(a)
                             => View'.accounts[a] = TrieView(a)
  BY Zenon, <1>5
<1>7. Back(e, View', View)
  BY Zenon DEF Back
<1>8. Means(Append(entries, e), View', dirties')
  BY Zenon, <1>1, <1>3, <1>6, <1>7, Extend DEF Inv
<1>9. Means(entries, View, dirties)'
  BY Zenon, <1>2, <1>8, StillMeans
<1>10. ObjectsOK(stateObjects, stateObjectsDirty)' /\ DatabaseOK'
  <2>1. ObjectsOK(stateObjects', stateObjectsDirty')
    BY Zenon DEF Inv
  <2> QED BY Zenon, <2>1, SameDatabase DEF Inv
<1>11. thash' \in Hashes /\ panic' \in {"none", "finalise"}
  BY DEF Inv
<1> QED BY Zenon, <1>2, <1>3, <1>9, <1>10, <1>11 DEF Inv

(* A refund, a log or a preimage.                                          *)
LEMMA LogsKeep ==
    ASSUME Inv, ChangeLogs
    PROVE  Inv'
<1>1. /\ View = [accounts |-> View.accounts, refund |-> refund, logs |-> logs,
                 logSize |-> logSize, preimages |-> preimages]
      /\ View'.refund = refund' /\ View'.logs = logs' /\ View'.logSize = logSize'
      /\ View'.preimages = preimages'
  BY DEF View
<1>2. logs \in [Hashes -> Seq(Int)] /\ logSize \in Int /\ thash \in Hashes
  <2>1. Len(entries) \in Nat
    BY Zenon, EntriesCounted DEF Inv
  <2>2. LogsOK(View)
    BY Zenon, <2>1, ViewLogs DEF Inv
  <2> QED BY <1>1, <2>2 DEF LogsOK, Inv
<1>3. ASSUME UNCHANGED <<objectVars, dbVars>>
      PROVE  View'.accounts = View.accounts
  BY Zenon, <1>3 DEF View, Read, Found, getStateObject, objectVars, dbVars
<1>4. ASSUME append(<<[change |-> "refund", prev |-> refund]>>),
             UNCHANGED <<objectVars, logVars, dbVars, panic>>
      PROVE  Inv'
  <2> DEFINE e == [change |-> "refund", prev |-> refund]
  <2>1. e.change = "refund" /\ e.prev = refund
    BY SMTT(30)
  <2>2. /\ View'.accounts = View.accounts /\ logs' = logs /\ logSize' = logSize
        /\ preimages' = preimages /\ thash' = thash
    BY <1>3, <1>4 DEF logVars
  <2> HIDE DEF e
  <2>3. OtherBack(e, View', View)
    <3>1. View = [accounts |-> View'.accounts, refund |-> e.prev, logs |-> View'.logs,
                  logSize |-> View'.logSize, preimages |-> View'.preimages]
      BY Zenon, <1>1, <2>1, <2>2
    <3> QED BY Zenon, <2>1, <3>1 DEF OtherBack
  <2>4. LogsOK(View')
    BY Zenon, <1>1, <1>2, <2>2 DEF LogsOK
  <2>5. /\ stateObjects' = stateObjects /\ stateObjectsDirty' = stateObjectsDirty
        /\ trie' = trie /\ codes' = codes /\ roots' = roots /\ thash' = thash /\ panic' = panic
        /\ e.change \in {"refund", "log", "preimage"}
    BY <1>4, <2>1, <2>2 DEF objectVars, dbVars
  <2> QED BY <1>4, <2>3, <2>4, <2>5, OtherKeeps DEF e
<1>5. CASE AddLog
  <2> DEFINE e == [change |-> "log", hash |-> thash]
  <2>1. e.change = "log" /\ e.hash = thash
    OBVIOUS
  <2>2. UNCHANGED <<objectVars, dbVars>>
    BY Zenon, <1>5 DEF AddLog
  <2>3. /\ View'.accounts = View.accounts /\ refund' = refund /\ preimages' = preimages /\ thash' = thash
        /\ logs' = [logs EXCEPT ![thash] = Append(logs[thash], logSize)] /\ logSize' = logSize + 1
    BY <1>3, <1>5, <2>2 DEF AddLog
  <2> HIDE DEF e
  <2>4. logs[thash] \in Seq(Int) /\ Append(logs[thash], logSize) \in Seq(Int)
    BY <1>2
  <2>5. Shortened(Append(logs[thash], logSize)) = logs[thash]
    BY <1>2, <2>4 DEF Shortened
  <2>6. /\ logs' \in [Hashes -> Seq(Int)] /\ logSize' \in Int /\ logSize = logSize' - 1
        /\ logs = [logs' EXCEPT ![thash] = Shortened(logs'[thash])]
    <3>1. logs'[thash] = Append(logs[thash], logSize)
      BY <1>2, <2>3
    <3>2. Shortened(logs'[thash]) = logs[thash]
      BY Zenon, <2>5, <3>1
    <3>3. [logs' EXCEPT ![thash] = logs[thash]] = logs
      BY Zenon, <1>2, <2>3
    <3> QED BY <1>2, <2>3, <2>4, <3>2, <3>3
  <2>7. OtherBack(e, View', View)
    <3>1. View = [accounts |-> View'.accounts, refund |-> View'.refund,
                  logs |-> [View'.logs EXCEPT ![e.hash] = Shortened(View'.logs[e.hash])],
                  logSize |-> View'.logSize - 1, preimages |-> View'.preimages]
      BY Zenon, <1>1, <2>1, <2>3, <2>6
    <3> QED BY Zenon, <2>1, <3>1 DEF OtherBack
  <2>8. LogsOK(View')
    BY Zenon, <1>1, <2>6 DEF LogsOK
  <2>9. /\ stateObjects' = stateObjects /\ stateObjectsDirty' = stateObjectsDirty
        /\ trie' = trie /\ codes' = codes /\ roots' = roots /\ thash' = thash /\ panic' = panic
        /\ e.change \in {"refund", "log", "preimage"}
    BY <1>5, <2>1 DEF AddLog, objectVars, dbVars
  <2>10. append(<<e>>)
    BY Zenon, <1>5 DEF AddLog, e
  <2> QED BY <2>7, <2>8, <2>9, <2>10, OtherKeeps
<1>6. ASSUME NEW h, AddPreimage(h)
      PROVE  Inv'
  <2> DEFINE e == [change |-> "preimage", hash |-> h]
  <2>1. e.change = "preimage" /\ e.hash = h
    OBVIOUS
  <2>2. UNCHANGED <<objectVars, dbVars>>
    BY Zenon, <1>6 DEF AddPreimage
  <2>3. /\ View'.accounts = View.accounts /\ refund' = refund /\ logs' = logs /\ logSize' = logSize
        /\ thash' = thash /\ preimages = preimages' \ {h}
    BY <1>3, <1>6, <2>2 DEF AddPreimage
  <2> HIDE DEF e
  <2>4. OtherBack(e, View', View)
    <3>1. View = [accounts |-> View'.accounts, refund |-> View'.refund, logs |-> View'.logs,
                  logSize |-> View'.logSize, preimages |-> View'.preimages \ {e.hash}]
      BY Zenon, <1>1, <2>1, <2>3
    <3> QED BY Zenon, <2>1, <3>1 DEF OtherBack
  <2>5. LogsOK(View')
    BY Zenon, <1>1, <1>2, <2>3 DEF LogsOK
  <2>6. /\ stateObjects' = stateObjects /\ stateObjectsDirty' = stateObjectsDirty
        /\ trie' = trie /\ codes' = codes /\ roots' = roots /\ thash' = thash /\ panic' = panic
        /\ e.change \in {"refund", "log", "preimage"}
    BY <1>6, <2>1 DEF AddPreimage, objectVars, dbVars
  <2>7. append(<<e>>)
    BY Zenon, <1>6 DEF AddPreimage, e
  <2> QED BY <2>4, <2>5, <2>6, <2>7, OtherKeeps
<1>7. ASSUME NEW h \in Hashes, Prepare(h)
      PROVE  Inv'
  <2>1. /\ UNCHANGED <<objectVars, dbVars>> /\ thash' = h
        /\ refund' = refund /\ logs' = logs /\ logSize' = logSize /\ preimages' = preimages
        /\ entries' = entries /\ dirties' = dirties /\ validRevisions' = validRevisions
        /\ saved' = saved /\ panic' = panic
    BY <1>7 DEF Prepare, journalVars
  <2>2. /\ trie' = trie /\ codes' = codes /\ roots' = roots
        /\ stateObjects' = stateObjects /\ stateObjectsDirty' = stateObjectsDirty
    BY <2>1 DEF objectVars, dbVars
  <2>3. View' = View
    BY Zenon, <2>1, <2>2 DEF View, Read, Found, getStateObject
  <2>4. Means(entries', View', dirties')
    BY Zenon, <2>1, <2>3 DEF Inv
  <2>5. Means(entries, View, dirties)'
    BY Zenon, <2>1, <2>2, <2>4, StillMeans
  <2>6. ObjectsOK(stateObjects', stateObjectsDirty')
    BY Zenon, <2>2 DEF Inv
  <2>7. ObjectsOK(stateObjects, stateObjectsDirty)' /\ DatabaseOK'
    BY Zenon, <2>2, <2>6, SameDatabase DEF Inv
  <2> QED BY Zenon, <1>7, <2>1, <2>5, <2>7 DEF Inv
<1> QED BY Zenon, <1>4, <1>5, <1>6, <1>7 DEF ChangeLogs, AddRefund, SubRefund

-----------------------------------------------------------------------------
(* Snapshots.                                                              *)

(* Snapshot saves the last state of the history.                           *)
LEMMA SnapshotKeeps ==
    ASSUME Inv, Snapshot
    PROVE  Inv'
<1>1. /\ validRevisions' = Append(validRevisions, Len(entries)) /\ saved' = Append(saved, View)
      /\ stateObjects' = stateObjects /\ stateObjectsDirty' = stateObjectsDirty
      /\ refund' = refund /\ thash' = thash /\ logs' = logs /\ logSize' = logSize
      /\ preimages' = preimages /\ entries' = entries /\ dirties' = dirties
      /\ trie' = trie /\ codes' = codes /\ roots' = roots /\ panic' = panic
  BY DEF Snapshot, objectVars, logVars, dbVars
<1>2. View' = View
  BY Zenon, <1>1 DEF View, Read, Found, getStateObject
<1>3. PICK V, C : /\ History(entries, V, C) /\ RevisionsOK(entries, V) /\ V[Len(entries)] = View
                  /\ \A a \in Accounts : dirties[a] >= C[Len(entries)][a]
  BY Zenon DEF Inv, Means
<1>4. History(entries, V, C)'
  BY Zenon, <1>1, <1>3, SameHistory
<1>5. RevisionsOK(entries, V)'
  <2> DEFINE L == Len(validRevisions)
  <2>1. PICK S : saved \in Seq(S)
    BY Zenon, <1>3 DEF RevisionsOK
  <2>2. /\ validRevisions \in Seq(Nat) /\ Len(saved) = L /\ Len(entries) \in Nat
        /\ \A idx \in 1..L :
              /\ validRevisions[idx] <= Len(entries)
              /\ saved[idx] = V[validRevisions[idx]]
              /\ \A jdx \in 1..idx : validRevisions[jdx] <= validRevisions[idx]
    BY SMTT(30), <1>3 DEF RevisionsOK, Inv
  <2>3. /\ validRevisions' \in Seq(Nat) /\ Len(validRevisions') = L + 1 /\ L \in Nat
        /\ validRevisions'[L + 1] = Len(entries)
        /\ \A idx \in 1..L : validRevisions'[idx] = validRevisions[idx]
    BY <1>1, <2>2
  <2>4. /\ saved' \in Seq(S \cup {View}) /\ Len(saved') = L + 1 /\ saved'[L + 1] = View
        /\ \A idx \in 1..L : saved'[idx] = saved[idx]
    <3>1. saved \in Seq(S \cup {View})
      BY <2>1
    <3> QED BY <1>1, <2>2, <3>1
  <2> HIDE DEF L
  <2>5. ASSUME NEW idx \in 1..(L + 1)
        PROVE  /\ validRevisions'[idx] <= Len(entries)
               /\ saved'[idx] = V[validRevisions'[idx]]
               /\ \A jdx \in 1..idx : validRevisions'[jdx] <= validRevisions'[idx]
    <3>1. CASE idx = L + 1
      <4>1. validRevisions'[idx] = Len(entries) /\ saved'[idx] = V[Len(entries)]
        BY Zenon, <1>3, <2>3, <2>4, <3>1
      <4>2. \A jdx \in 1..idx : validRevisions'[jdx] <= Len(entries)
        BY SMTT(30), <2>2, <2>3, <3>1
      <4> QED BY SMTT(30), <2>2, <4>1, <4>2
    <3>2. CASE idx # L + 1
      <4>1. idx \in 1..L /\ \A jdx \in 1..idx : jdx \in 1..L
        BY <2>3, <3>2
      <4> QED BY Zenon, <2>2, <2>3, <2>4, <4>1
    <3> QED BY <3>1, <3>2
  <2>6. Len(saved') = Len(validRevisions') /\ Len(validRevisions') = L + 1 /\ entries' = entries
    BY <1>1, <2>3, <2>4
  <2> QED BY Zenon, <2>3, <2>4, <2>5, <2>6 DEF RevisionsOK
<1>6. Means(entries, View, dirties)'
  BY Zenon, <1>1, <1>2, <1>3, <1>4, <1>5 DEF Means
<1>7. ObjectsOK(stateObjects, stateObjectsDirty)' /\ DatabaseOK'
  <2>1. ObjectsOK(stateObjects', stateObjectsDirty')
    BY Zenon, <1>1 DEF Inv
  <2> QED BY Zenon, <1>1, <2>1, SameDatabase DEF Inv
<1> QED BY Zenon, <1>1, <1>6, <1>7 DEF Inv

(* The current state is the start of a revert.                             *)
LEMMA NowSound ==
    ASSUME Inv, NEW c, \A a \in Accounts : c[a] \in Nat /\ dirties[a] >= c[a]
    PROVE  Round(Now, View, c)
<1>1. IsState(Now) /\ Now.ok = TRUE /\ Now.objects = stateObjects /\ Now.dirty = stateObjectsDirty
      /\ Now.dirties = dirties
  BY Zenon DEF Now, IsState
<1>2. ViewOf(Now) = View
  BY Zenon DEF Now, ViewOf, View
<1>3. Sound(Now, View)
  BY Zenon, <1>1, <1>2 DEF Inv, Sound
<1> QED BY Zenon, <1>1, <1>3 DEF Inv, Round

(* The first n entries have the beginning of the history.                  *)
LEMMA ShorterHistory ==
    ASSUME NEW S, NEW es \in Seq(S), NEW V, NEW C, History(es, V, C), NEW n \in 0..Len(es)
    PROVE  /\ SubSeq(es, 1, n) \in Seq(S) /\ Len(SubSeq(es, 1, n)) = n
           /\ History(SubSeq(es, 1, n), V, C)
<1> DEFINE fs == SubSeq(es, 1, n)
<1>1. fs \in Seq(S) /\ Len(fs) = n /\ \A i \in 1..n : fs[i] = es[i]
  BY SMTT(30)
<1>2. (\A i \in 1..n : i \in 1..Len(es)) /\ (\A i \in 0..n : i \in 0..Len(es))
  OBVIOUS
<1> HIDE DEF fs
<1>3. History(fs, V, C)
  BY Zenon, <1>1, <1>2 DEF History
<1> QED BY Zenon, <1>1, <1>3 DEF fs

(* RevertToSnapshot goes back to the state of its snapshot.                *)
LEMMA RevertKeeps ==
    ASSUME Inv, NEW idx \in DOMAIN validRevisions, RevertToSnapshot(idx)
    PROVE  Inv' /\ panic' = panic /\ View' = saved[idx]
<1> DEFINE n == validRevisions[idx]
           s == Reverted(n)
<1>1. PICK S : entries \in Seq(S)
  BY DEF Inv
<1>2. PICK V, C : /\ History(entries, V, C) /\ RevisionsOK(entries, V) /\ V[Len(entries)] = View
                  /\ \A a \in Accounts : dirties[a] >= C[Len(entries)][a]
  BY Zenon DEF Inv, Means
<1>3. PICK T : saved \in Seq(T)
  BY Zenon, <1>2 DEF RevisionsOK
<1>4. /\ validRevisions \in Seq(Nat) /\ Len(saved) = Len(validRevisions) /\ Len(entries) \in Nat
      /\ idx \in 1..Len(validRevisions) /\ n \in 0..Len(entries) /\ saved[idx] = V[n]
      /\ \A jdx \in 1..idx : validRevisions[jdx] <= n
      /\ \A jdx \in 1..Len(validRevisions) :
            /\ saved[jdx] = V[validRevisions[jdx]]
            /\ \A kdx \in 1..jdx : validRevisions[kdx] <= validRevisions[jdx]
  <2>1. validRevisions \in Seq(Nat) /\ Len(saved) = Len(validRevisions) /\ Len(entries) \in Nat
    BY <1>1, <1>2 DEF RevisionsOK
  <2>2. \A jdx \in 1..Len(validRevisions) :
            /\ validRevisions[jdx] <= Len(entries)
            /\ saved[jdx] = V[validRevisions[jdx]]
            /\ \A kdx \in 1..jdx : validRevisions[kdx] <= validRevisions[jdx]
    BY Zenon, <1>2 DEF RevisionsOK
  <2>3. idx \in 1..Len(validRevisions)
    BY <2>1
  <2> QED BY SMTT(30), <2>1, <2>2, <2>3
<1>5. Round(s, V[n], C[n])
  <2>1. Len(entries) \in 0..Len(entries)
    BY <1>4
  <2>2. \A a \in Accounts : C[Len(entries)][a] \in Nat
    BY Zenon, <1>2, <2>1 DEF History
  <2>3. Round(Now, V[Len(entries)], C[Len(entries)])
    BY Zenon, <1>2, <2>2, NowSound
  <2> QED BY Zenon, <1>2, <1>4, <2>3, RevertedRestores DEF Inv
<1> HIDE DEF s
<1>6. /\ validRevisions' = SubSeq(validRevisions, 1, idx - 1)
      /\ saved' = SubSeq(saved, 1, idx - 1)
      /\ stateObjects' = s.objects /\ stateObjectsDirty' = s.dirty /\ refund' = s.refund
      /\ logs' = s.logs /\ logSize' = s.logSize /\ preimages' = s.preimages
      /\ entries' = SubSeq(entries, 1, n) /\ dirties' = s.dirties
      /\ panic' = (IF s.ok THEN panic ELSE "revert")
      /\ thash' = thash /\ trie' = trie /\ codes' = codes /\ roots' = roots
  BY Zenon DEF RevertToSnapshot, dbVars, s
<1> HIDE DEF n
<1>7. panic' = panic
  BY <1>5, <1>6 DEF Round, Sound
<1>8. View' = V[n]
  <2>1. \A objects, b : Read(objects, b)' = Read(objects, b)
    BY Zenon, <1>6, SameDatabase
  <2>2. \A b \in Accounts : Read(stateObjects, b)' = Read(s.objects, b)
    BY Zenon, <1>6, <2>1
  <2>3. View' = ViewOf(s)
    BY <1>6, <2>2 DEF View, ViewOf
  <2> QED BY Zenon, <1>5, <2>3 DEF Round, Sound
<1>9. /\ entries' \in Seq(S) /\ Len(entries') = n /\ History(entries', V, C)
  BY Zenon, <1>1, <1>2, <1>4, <1>6, ShorterHistory
<1>10. History(entries, V, C)'
  BY Zenon, <1>6, <1>9, SameHistory
<1>11. RevisionsOK(entries, V)'
  <2>1. /\ validRevisions' \in Seq(Nat) /\ Len(validRevisions') = idx - 1
        /\ \A jdx \in 1..(idx - 1) : validRevisions'[jdx] = validRevisions[jdx]
    BY Zenon, <1>4, <1>6, FirstEntries
  <2>2. /\ saved' \in Seq(T) /\ Len(saved') = idx - 1
        /\ \A jdx \in 1..(idx - 1) : saved'[jdx] = saved[jdx]
    <3>1. idx \in 1..Len(saved)
      BY Zenon, <1>4
    <3> QED BY Zenon, <1>3, <1>6, <3>1, FirstEntries
  <2>3. ASSUME NEW jdx \in 1..(idx - 1)
        PROVE  /\ validRevisions'[jdx] <= n
               /\ saved'[jdx] = V[validRevisions'[jdx]]
               /\ \A kdx \in 1..jdx : validRevisions'[kdx] <= validRevisions'[jdx]
    <3>1. /\ jdx \in 1..idx /\ jdx \in 1..Len(validRevisions)
          /\ \A kdx \in 1..jdx : kdx \in 1..(idx - 1)
      BY SMTT(30), <1>4
    <3> QED BY Zenon, <1>4, <2>1, <2>2, <3>1
  <2> QED BY ZenonT(40), <1>9, <2>1, <2>2, <2>3 DEF RevisionsOK
<1>12. dirties' \in [Accounts -> Int] /\ \A a \in Accounts : dirties'[a] >= C[n][a]
  BY Zenon, <1>5, <1>6 DEF Round
<1>13. Means(entries, View, dirties)'
  BY Zenon, <1>8, <1>9, <1>10, <1>11, <1>12 DEF Means
<1>14. ObjectsOK(stateObjects, stateObjectsDirty)' /\ DatabaseOK'
  <2>1. ObjectsOK(stateObjects', stateObjectsDirty')
    BY Zenon, <1>5, <1>6 DEF Round, Sound
  <2> QED BY Zenon, <1>6, <2>1, SameDatabase DEF Inv
<1>15. Inv'
  BY Zenon, <1>6, <1>7, <1>9, <1>12, <1>13, <1>14 DEF Inv
<1> QED BY Zenon, <1>4, <1>7, <1>8, <1>15

-----------------------------------------------------------------------------
(* Finalise, Commit and Reset.                                             *)

(* An empty journal, over accounts that all read as in the trie.           *)
Clean ==
    /\ entries = << >> /\ validRevisions = << >> /\ saved = << >>
    /\ dirties = [a \in Accounts |-> 0]
    /\ LogsOK(View)
    /\ \A a \in Accounts : Read(stateObjects, a) = TrieView(a)

(* Its history has one state.                                              *)
LEMMA CleanMeans ==
    Clean => Means(entries, View, dirties) /\ (\E S : entries \in Seq(S)) /\ dirties \in [Accounts -> Int]
<1> SUFFICES ASSUME Clean
             PROVE  /\ Means(entries, View, dirties) /\ (\E S : entries \in Seq(S))
                    /\ dirties \in [Accounts -> Int]
  OBVIOUS
<1> DEFINE V == [i \in 0..0 |-> View]
           C == [i \in 0..0 |-> dirties]
<1>1. entries \in Seq(Nat) /\ Len(entries) = 0 /\ saved \in Seq(Nat) /\ Len(saved) = 0
      /\ validRevisions \in Seq(Nat) /\ Len(validRevisions) = 0
  BY DEF Clean
<1>2. V[0] = View /\ \A a \in Accounts : C[0][a] = 0 /\ dirties[a] = 0
  BY DEF Clean
<1>3. \A a \in Accounts : View.accounts[a] = TrieView(a)
  BY Zenon DEF Clean, View
<1>4. 1..0 = {} /\ (\A i \in 0..0 : i = 0) /\ 0 \in Nat /\ 0 >= 0
  OBVIOUS
<1> HIDE DEF V, C
<1>5. History(entries, V, C)
  BY Zenon, <1>1, <1>2, <1>3, <1>4 DEF History, Clean
<1>6. RevisionsOK(entries, V)
  BY Zenon, <1>1, <1>4 DEF RevisionsOK
<1>7. Means(entries, View, dirties)
  BY Zenon, <1>1, <1>2, <1>4, <1>5, <1>6 DEF Means
<1>8. dirties \in [Accounts -> Int]
  BY DEF Clean
<1> QED BY Zenon, <1>1, <1>7, <1>8

(* An account without dirty entries, or without live object, reads as in   *)
(* the trie.                                                               *)
LEMMA NotDirty ==
    ASSUME Inv, NEW a \in Accounts, a \notin Dirty \/ a \notin DOMAIN stateObjects
    PROVE  Read(stateObjects, a) = TrieView(a)
<1>1. CASE a \notin DOMAIN stateObjects
  BY ZenonT(40), <1>1 DEF Read, Found, getStateObject, TrieView, NoAccount
<1>2. CASE a \notin Dirty
  <2>1. PICK V, C : /\ History(entries, V, C) /\ V[Len(entries)] = View
                    /\ \A b \in Accounts : dirties[b] >= C[Len(entries)][b]
    BY Zenon DEF Inv, Means
  <2>2. Len(entries) \in 0..Len(entries)
    BY DEF Inv
  <2>3. C[Len(entries)][a] \in Nat /\ (C[Len(entries)][a] = 0 => View.accounts[a] = TrieView(a))
    BY ZenonT(40), <2>1, <2>2 DEF History
  <2>4. dirties[a] \in Int /\ ~(dirties[a] > 0) /\ dirties[a] >= C[Len(entries)][a]
    BY <1>2, <2>1 DEF Dirty, Inv
  <2>5. C[Len(entries)][a] = 0
    BY <2>3, <2>4
  <2> QED BY <2>3, <2>5 DEF View
<1> QED BY SMTT(30), <1>1, <1>2

(* What Finalise and Commit have in common: the objects done go to the     *)
(* trie or out of it, all others read as in the trie, the journal is       *)
(* cleared.                                                                *)
LEMMA WriteBack ==
    ASSUME Inv, NEW done, DOMAIN done \subseteq DOMAIN stateObjects,
           \A a \in DOMAIN done :
              /\ done[a] \in Objects /\ ~done[a].dbErr
              /\ ~done[a].deleted /\ ~done[a].dirtyCode => done[a].data.code \in codes'
              /\ \/ done[a].deleted /\ Dead(done[a])
                 \/ ~done[a].deleted /\ ~done[a].suicided /\ done[a].slot = NoValue,
           \A a \in Accounts : a \notin DOMAIN done => Read(stateObjects, a) = TrieView(a),
           stateObjects' = Over(done, stateObjects), trie' = Written(done),
           codes \subseteq codes', roots \subseteq roots', stateObjectsDirty' \subseteq Accounts,
           \A a \in DOMAIN trie' :
              a \notin stateObjectsDirty' \/ a \notin DOMAIN stateObjects' =>
                  trie'[a].code \in codes' /\ trie'[a].root \in roots',
           clearJournalAndRefund, thash' = thash, logs' = logs, logSize' = logSize, panic' = panic
    PROVE  Inv'
<1>1. /\ DOMAIN stateObjects \subseteq Accounts /\ DOMAIN done \subseteq Accounts
      /\ DOMAIN trie \subseteq Accounts /\ \A a \in DOMAIN trie : trie[a] \in Data
      /\ \A a \in DOMAIN stateObjects :
            /\ ObjectOK(stateObjects[a])
            /\ stateObjects[a].deleted => a \notin DOMAIN trie /\ Dead(stateObjects[a])
  BY DEF Inv, DatabaseOK, ObjectsOK
<1>2. /\ DOMAIN stateObjects' = DOMAIN stateObjects
      /\ \A a \in DOMAIN done : stateObjects'[a] = done[a]
      /\ \A a \in DOMAIN stateObjects : a \notin DOMAIN done => stateObjects'[a] = stateObjects[a]
      /\ stateObjects' = [a \in DOMAIN stateObjects' |-> stateObjects'[a]]
  BY Zenon DEF Over
<1>3. /\ DOMAIN trie' = {x \in DOMAIN done : ~done[x].deleted} \cup (DOMAIN trie \ DOMAIN done)
      /\ \A a \in DOMAIN trie' : trie'[a] = IF a \in DOMAIN done THEN done[a].data ELSE trie[a]
      /\ trie' = [a \in DOMAIN trie' |-> trie'[a]]
  BY Zenon DEF Written
<1>4. DatabaseOK'
  <2>1. \A a \in DOMAIN trie' : trie'[a] \in Data /\ a \in Accounts
    BY Zenon, <1>1, <1>3 DEF Objects
  <2>2. 0 \in codes' /\ 0 \in roots'
    BY Zenon DEF Inv, DatabaseOK
  <2>3. trie' \in [DOMAIN trie' -> Data]
    BY <1>3, <2>1
  <2> QED BY ZenonT(40), <2>1, <2>2, <2>3 DEF DatabaseOK, Data
<1>5. ASSUME NEW a \in DOMAIN stateObjects'
      PROVE  (/\ ObjectOK(stateObjects[a])
              /\ stateObjects[a].deleted => a \notin DOMAIN trie /\ Dead(stateObjects[a]))'
  <2>1. PICK o : o = stateObjects'[a]
    BY Zenon
  <2>2. /\ o \in Objects /\ ~o.dbErr
        /\ ~o.deleted /\ ~o.dirtyCode => o.data.code \in codes'
        /\ o.deleted => a \notin DOMAIN trie' /\ Dead(o)
    <3>1. CASE a \in DOMAIN done
      <4>1. o = done[a]
        BY ZenonT(40), <1>2, <2>1, <3>1
      <4> QED BY <1>3, <3>1, <4>1
    <3>2. CASE a \notin DOMAIN done
      <4>1. o = stateObjects[a] /\ a \in DOMAIN stateObjects
        BY Zenon, <1>2, <2>1, <3>2
      <4>2. ObjectOK(o) /\ (o.deleted => a \notin DOMAIN trie /\ Dead(o))
        BY Zenon, <1>1, <4>1
      <4> QED BY <1>3, <3>2, <4>2 DEF ObjectOK
    <3> QED BY Zenon, <3>1, <3>2
  <2>3. ObjectOK(o)'
    BY Zenon, <2>2 DEF ObjectOK, Objects, Data
  <2> QED BY Zenon, <2>1, <2>2, <2>3 DEF ObjectOK, Objects, Data, Dead, empty
<1>6. ObjectsOK(stateObjects, stateObjectsDirty)'
  <2>1. DOMAIN stateObjects' \subseteq Accounts
    BY Zenon, <1>1, <1>2
  <2> QED BY Zenon, <1>2, <1>5, <2>1 DEF ObjectsOK
<1>7. ASSUME NEW a \in Accounts
      PROVE  (Read(stateObjects, a) = TrieView(a))'
  <2>1. CASE a \in DOMAIN done
    <3> DEFINE o == done[a]
    <3>1. a \in DOMAIN stateObjects' /\ stateObjects'[a] = o
      BY Zenon, <1>2, <2>1
    <3>2. CASE o.deleted
      <4>1. a \notin DOMAIN trie'
        BY <1>3, <2>1, <3>2
      <4> QED BY Zenon, <3>1, <3>2, <4>1 DEF Read, Found, TrieView, NoAccount
    <3>3. CASE ~o.deleted
      <4>1. a \in DOMAIN trie' /\ trie'[a] = o.data
        BY <1>3, <2>1, <3>3
      <4>2. o.suicided = FALSE /\ o.slot = NoValue
        BY Zenon, <2>1, <3>3 DEF Objects
      <4>3. Getters(o, "yes") = Getters(newObject(o.data), "yes")
        BY Zenon, <4>2 DEF Getters, newObject, GetState
      <4>4. Read(stateObjects, a)' = Getters(o, "yes")
        BY Zenon, <3>1, <3>3 DEF Read, Found, getStateObject, Getters, GetState, NoValue
      <4>5. TrieView(a)' = Getters(newObject(o.data), "yes")
        BY Zenon, <4>1 DEF TrieView, Getters, newObject, GetState, NoValue
      <4> QED BY ZenonT(40), <4>3, <4>4, <4>5
    <3> QED BY Zenon, <3>2, <3>3
  <2>2. CASE a \notin DOMAIN done
    <3>1. /\ a \in DOMAIN stateObjects' <=> a \in DOMAIN stateObjects
          /\ a \in DOMAIN stateObjects => stateObjects'[a] = stateObjects[a]
          /\ a \in DOMAIN trie' <=> a \in DOMAIN trie
          /\ a \in DOMAIN trie => trie'[a] = trie[a]
      BY <1>2, <1>3, <2>2
    <3>2. Read(stateObjects, a)' = Read(stateObjects, a)
      BY Zenon, <3>1 DEF Read, Found, getStateObject
    <3>3. TrieView(a)' = TrieView(a)
      BY Zenon, <3>1 DEF TrieView, NoAccount
    <3> QED BY ZenonT(40), <2>2, <3>2, <3>3
  <2> QED BY Zenon, <2>1, <2>2
<1>8. LogsOK(View)'
  <2>1. Len(entries) \in Nat
    BY Zenon, EntriesCounted DEF Inv
  <2>2. LogsOK(View)
    BY Zenon, <2>1, ViewLogs DEF Inv
  <2>3. View.logs = logs /\ View.logSize = logSize /\ View'.logs = logs' /\ View'.logSize = logSize'
    BY Zenon DEF View
  <2> QED BY ZenonT(40), <2>2, <2>3 DEF LogsOK
<1>9. Clean'
  BY Zenon, <1>7, <1>8 DEF Clean, clearJournalAndRefund
<1>10. (Means(entries, View, dirties) /\ (\E S : entries \in Seq(S)) /\ dirties \in [Accounts -> Int])'
  BY <1>9, CleanMeans, PTL
<1>11. thash' \in Hashes /\ panic' \in {"none", "finalise"}
  BY Zenon DEF Inv
<1> QED BY ZenonT(40), <1>4, <1>6, <1>10, <1>11 DEF Inv

(* The two ways an object is done.                                         *)
LEMMA DoneObjects ==
    ASSUME NEW o, ObjectOK(o), o.deleted => Dead(o)
    PROVE  /\ deleteStateObject(o) \in Objects /\ ~deleteStateObject(o).dbErr
           /\ deleteStateObject(o).deleted
           /\ Dead(o) => Dead(deleteStateObject(o))
           /\ updateRoot(o) \in Objects /\ ~updateRoot(o).dbErr
           /\ updateRoot(o).slot = NoValue /\ updateRoot(o).dirtyCode = o.dirtyCode
           /\ updateRoot(o).data.code = o.data.code /\ updateRoot(o).data.root = GetState(o)
           /\ ~Dead(o) => ~updateRoot(o).deleted /\ ~updateRoot(o).suicided
<1>1. o \in Objects /\ ~o.dbErr
  BY DEF ObjectOK
<1>2. /\ deleteStateObject(o) \in Objects /\ ~deleteStateObject(o).dbErr
      /\ deleteStateObject(o).deleted
      /\ deleteStateObject(o).suicided = o.suicided /\ deleteStateObject(o).data = o.data
  BY Zenon, <1>1 DEF deleteStateObject, Objects
<1>3. GetState(o) \in Nat
  BY <1>1 DEF GetState, Objects, Data, NoValue
<1>4. /\ updateRoot(o) \in Objects /\ updateRoot(o).dbErr = o.dbErr
      /\ updateRoot(o).slot = NoValue /\ updateRoot(o).dirtyCode = o.dirtyCode
      /\ updateRoot(o).data.code = o.data.code /\ updateRoot(o).data.root = GetState(o)
      /\ updateRoot(o).deleted = o.deleted /\ updateRoot(o).suicided = o.suicided
  BY ZenonT(40), <1>1, <1>3 DEF updateRoot, Objects, Data
<1>5. Dead(o) => Dead(deleteStateObject(o))
  BY <1>2 DEF Dead, empty
<1>6. ~Dead(o) => ~o.deleted /\ ~o.suicided
  BY DEF Dead
<1> QED BY <1>1, <1>2, <1>4, <1>5, <1>6

(* Finalise.                                                               *)
LEMMA FinaliseKeeps ==
    ASSUME Inv, panic = "none", Finalise
    PROVE  Inv'
<1>1. CASE ~(Dirty \subseteq DOMAIN stateObjects)
  <2>1. /\ panic' = "finalise"
        /\ stateObjects' = stateObjects /\ stateObjectsDirty' = stateObjectsDirty
        /\ refund' = refund /\ thash' = thash /\ logs' = logs /\ logSize' = logSize
        /\ preimages' = preimages /\ entries' = entries /\ dirties' = dirties
        /\ validRevisions' = validRevisions /\ saved' = saved
        /\ trie' = trie /\ codes' = codes /\ roots' = roots
    BY Zenon, <1>1 DEF Finalise, objectVars, logVars, journalVars, dbVars
  <2>2. View' = View
    BY Zenon, <2>1 DEF View, Read, Found, getStateObject
  <2>3. Means(entries', View', dirties') /\ ObjectsOK(stateObjects', stateObjectsDirty')
    BY Zenon, <2>1, <2>2 DEF Inv
  <2>4. Means(entries, View, dirties)'
    BY Zenon, <2>1, <2>3, StillMeans
  <2>5. ObjectsOK(stateObjects, stateObjectsDirty)' /\ DatabaseOK'
    BY Zenon, <2>1, <2>3, SameDatabase DEF Inv
  <2>6. panic' \in {"none", "finalise"}
    BY <2>1
  <2> QED BY Zenon, <2>1, <2>4, <2>5, <2>6 DEF Inv
<1>2. CASE Dirty \subseteq DOMAIN stateObjects
  <2>1. PICK done : done = [a \in Dirty |-> IF Dead(stateObjects[a])
                                              THEN deleteStateObject(stateObjects[a])
                                              ELSE updateRoot(stateObjects[a])]
    BY Zenon
  <2>2. /\ stateObjects' = Over(done, stateObjects) /\ trie' = Written(done)
        /\ stateObjectsDirty' = stateObjectsDirty \cup Dirty
        /\ clearJournalAndRefund
        /\ thash' = thash /\ logs' = logs /\ logSize' = logSize
        /\ codes' = codes /\ roots' = roots /\ panic' = panic
    BY Zenon, <1>2, <2>1 DEF Finalise, logVars
  <2>3. DOMAIN done = Dirty /\ Dirty \subseteq Accounts
    BY <2>1 DEF Dirty
  <2>4. /\ \A a \in DOMAIN stateObjects :
              /\ ObjectOK(stateObjects[a])
              /\ stateObjects[a].deleted => Dead(stateObjects[a])
        /\ stateObjectsDirty \subseteq Accounts
        /\ \A a \in DOMAIN trie :
              a \notin stateObjectsDirty \/ a \notin DOMAIN stateObjects =>
                 trie[a].code \in codes /\ trie[a].root \in roots
    BY Zenon DEF Inv, ObjectsOK
  <2>5. ASSUME NEW a \in DOMAIN done
        PROVE  /\ done[a] \in Objects /\ ~done[a].dbErr
               /\ ~done[a].deleted /\ ~done[a].dirtyCode => done[a].data.code \in codes'
               /\ \/ done[a].deleted /\ Dead(done[a])
                  \/ ~done[a].deleted /\ ~done[a].suicided /\ done[a].slot = NoValue
    <3> DEFINE o == stateObjects[a]
    <3>1. ObjectOK(o) /\ (o.deleted => Dead(o))
      BY Zenon, <1>2, <2>3, <2>4
    <3>2. done[a] = IF Dead(o) THEN deleteStateObject(o) ELSE updateRoot(o)
      BY <2>1, <2>3
    <3> HIDE DEF o
    <3>3. CASE Dead(o)
      BY Zenon, <3>1, <3>2, <3>3, DoneObjects
    <3>4. CASE ~Dead(o)
      <4>1. done[a] = updateRoot(o) /\ ~o.deleted
        BY Zenon, <3>1, <3>2, <3>4
      <4>2. ~o.dirtyCode => o.data.code \in codes'
        BY Zenon, <2>2, <3>1, <4>1 DEF ObjectOK
      <4> QED BY Zenon, <3>1, <3>4, <4>1, <4>2, DoneObjects
    <3> QED BY <3>3, <3>4
  <2>6. \A a \in Accounts : a \notin DOMAIN done => Read(stateObjects, a) = TrieView(a)
    BY ZenonT(40), <2>3, NotDirty
  <2>7. \A a \in DOMAIN trie' :
           a \notin stateObjectsDirty' \/ a \notin DOMAIN stateObjects' =>
               trie'[a].code \in codes' /\ trie'[a].root \in roots'
    <3>1. DOMAIN stateObjects' = DOMAIN done \cup DOMAIN stateObjects
      BY Zenon, <2>2 DEF Over
    <3>2. \A a \in DOMAIN trie' : a \notin DOMAIN done => a \in DOMAIN trie /\ trie'[a] = trie[a]
      BY Zenon, <2>2 DEF Written
    <3> QED BY Zenon, <2>2, <2>3, <2>4, <3>1, <3>2
  <2>8. codes \subseteq codes' /\ roots \subseteq roots' /\ stateObjectsDirty' \subseteq Accounts
        /\ DOMAIN done \subseteq DOMAIN stateObjects
    BY Zenon, <1>2, <2>2, <2>3, <2>4
  <2> QED BY Zenon, <2>2, <2>5, <2>6, <2>7, <2>8, WriteBack
<1> QED BY <1>1, <1>2

(* An object Commit writes, with its code in the database.                 *)
LEMMA CommittedObject ==
    ASSUME NEW o, ObjectOK(o), o.deleted => Dead(o), ~Dead(o),
           NEW n, n = [updateRoot(o) EXCEPT !.dirtyCode = FALSE]
    PROVE  /\ n \in Objects /\ ~n.dbErr /\ ~n.deleted /\ ~n.suicided /\ n.slot = NoValue
           /\ n.data.code = o.data.code /\ n.data.root = GetState(o)
<1> DEFINE u == updateRoot(o)
<1>1. /\ u \in Objects /\ ~u.dbErr /\ u.slot = NoValue /\ ~u.deleted /\ ~u.suicided
      /\ u.data.code = o.data.code /\ u.data.root = GetState(o)
  BY Zenon, DoneObjects
<1> HIDE DEF u
<1>2. n = [u EXCEPT !.dirtyCode = FALSE]
  BY DEF u
<1> QED BY Zenon, <1>1, <1>2 DEF Objects

(* Commit, and what it leaves in the database.                             *)
LEMMA CommitKeeps ==
    ASSUME Inv, Commit
    PROVE  /\ Inv'
           /\ \A a \in DOMAIN trie' : trie'[a].code \in codes' /\ trie'[a].root \in roots'
<1> DEFINE isDirty == stateObjectsDirty \cup Dirty
           live == DOMAIN stateObjects
           deletes == {a \in live : stateObjects[a].suicided
                                       \/ (a \in isDirty /\ Dead(stateObjects[a]))}
           writes == (live \cap isDirty) \ deletes
           failing == {a \in writes : stateObjects[a].dbErr}
           doneOf(visited) == [a \in visited \cap (deletes \cup writes) |->
                         IF a \in deletes
                           THEN deleteStateObject(stateObjects[a])
                           ELSE [updateRoot(stateObjects[a]) EXCEPT !.dirtyCode = FALSE]]
<1>1. /\ \A a \in live : /\ ObjectOK(stateObjects[a])
                         /\ stateObjects[a].deleted => Dead(stateObjects[a])
      /\ stateObjectsDirty \subseteq Accounts /\ Dirty \subseteq Accounts /\ live \subseteq Accounts
      /\ \A a \in DOMAIN trie :
            a \notin stateObjectsDirty \/ a \notin DOMAIN stateObjects =>
               trie[a].code \in codes /\ trie[a].root \in roots
  BY Zenon DEF Inv, ObjectsOK, Dirty
<1>2. failing = {}
  BY <1>1 DEF ObjectOK
<1>3. PICK visited \in IF failing = {} THEN {live} ELSE SUBSET (live \ failing) :
          LET done == doneOf(visited)
              kept == visited \cap writes
          IN  /\ clearJournalAndRefund
              /\ stateObjects' = Over(done, stateObjects)
              /\ stateObjectsDirty' = isDirty \ visited
              /\ codes' = codes \cup {stateObjects[a].data.code :
                                        a \in {x \in kept : stateObjects[x].dirtyCode}}
              /\ roots' = roots \cup {GetState(stateObjects[a]) : a \in kept}
              /\ trie' = Written(done)
              /\ UNCHANGED <<logVars, panic>>
  BY Zenon DEF Commit
<1>4. visited = live
  BY Zenon, <1>2, <1>3
<1>5. PICK done : done = doneOf(live)
  BY Zenon
<1>6. DOMAIN done = deletes \cup writes
  BY <1>5
<1>7. /\ clearJournalAndRefund
      /\ stateObjects' = Over(done, stateObjects)
      /\ stateObjectsDirty' = isDirty \ live
      /\ trie' = Written(done)
      /\ thash' = thash /\ logs' = logs /\ logSize' = logSize /\ panic' = panic
  BY Zenon, <1>3, <1>4, <1>5 DEF logVars
<1>8. /\ codes \subseteq codes' /\ roots \subseteq roots'
      /\ \A a \in writes : /\ stateObjects[a].dirtyCode => stateObjects[a].data.code \in codes'
                           /\ GetState(stateObjects[a]) \in roots'
  <2>1. /\ codes' = codes \cup {stateObjects[a].data.code :
                                  a \in {x \in live \cap writes : stateObjects[x].dirtyCode}}
        /\ roots' = roots \cup {GetState(stateObjects[a]) : a \in live \cap writes}
    BY Zenon, <1>3, <1>4
  <2>2. writes \subseteq live
    OBVIOUS
  <2> HIDE DEF writes, live
  <2> QED BY <2>1, <2>2
<1>9. ASSUME NEW a \in deletes
      PROVE  done[a] = deleteStateObject(stateObjects[a]) /\ Dead(stateObjects[a])
  BY <1>5, <1>9 DEF Dead
<1>10. ASSUME NEW a \in writes
       PROVE  /\ done[a] = [updateRoot(stateObjects[a]) EXCEPT !.dirtyCode = FALSE]
              /\ ~Dead(stateObjects[a])
  BY Zenon, <1>5, <1>10
<1>11. deletes \subseteq live /\ writes \subseteq live
  BY SMTT(30)
<1>12. \A a \in live : a \notin deletes \cup writes => a \notin isDirty
  OBVIOUS
<1> HIDE DEF deletes, writes, doneOf, failing
<1>13. ASSUME NEW a \in writes
       PROVE  /\ done[a] \in Objects /\ ~done[a].dbErr /\ ~done[a].deleted /\ ~done[a].suicided
              /\ done[a].slot = NoValue
              /\ done[a].data.code \in codes' /\ done[a].data.root \in roots'
  <2> DEFINE o == stateObjects[a]
  <2>1. ObjectOK(o) /\ (o.deleted => Dead(o)) /\ ~Dead(o)
    BY Zenon, <1>1, <1>10, <1>11
  <2>2. done[a] = [updateRoot(o) EXCEPT !.dirtyCode = FALSE]
    BY Zenon, <1>10
  <2>3. o.data.code \in codes'
    BY <1>8, <2>1 DEF ObjectOK, Dead
  <2>4. GetState(o) \in roots'
    BY Zenon, <1>8
  <2> HIDE DEF o
  <2>5. /\ done[a] \in Objects /\ ~done[a].dbErr /\ ~done[a].deleted /\ ~done[a].suicided
        /\ done[a].slot = NoValue
        /\ done[a].data.code = o.data.code /\ done[a].data.root = GetState(o)
    BY Zenon, <2>1, <2>2, CommittedObject
  <2> QED BY Zenon, <2>3, <2>4, <2>5
<1>14. ASSUME NEW a \in DOMAIN done
       PROVE  /\ done[a] \in Objects /\ ~done[a].dbErr
              /\ ~done[a].deleted /\ ~done[a].dirtyCode => done[a].data.code \in codes'
              /\ \/ done[a].deleted /\ Dead(done[a])
                 \/ ~done[a].deleted /\ ~done[a].suicided /\ done[a].slot = NoValue
  <2>1. CASE a \in deletes
    <3>1. ObjectOK(stateObjects[a]) /\ (stateObjects[a].deleted => Dead(stateObjects[a]))
      BY Zenon, <1>1, <1>11, <2>1
    <3> DEFINE n == deleteStateObject(stateObjects[a])
    <3>2. n \in Objects /\ ~n.dbErr /\ n.deleted /\ (Dead(stateObjects[a]) => Dead(n))
      BY Zenon, <3>1, DoneObjects
    <3>3. done[a] = n /\ Dead(stateObjects[a])
      BY Zenon, <1>9, <2>1
    <3> HIDE DEF n
    <3> QED BY Zenon, <3>2, <3>3
  <2>2. CASE a \in writes
    BY Zenon, <1>13, <2>2
  <2> QED BY Zenon, <1>6, <2>1, <2>2
<1>15. \A a \in Accounts : a \notin DOMAIN done => Read(stateObjects, a) = TrieView(a)
  BY Zenon, <1>6, <1>12, NotDirty
<1>16. \A a \in DOMAIN trie' : trie'[a].code \in codes' /\ trie'[a].root \in roots'
  <2>1. \A a \in DOMAIN trie' :
          \/ a \in DOMAIN done /\ ~done[a].deleted /\ trie'[a] = done[a].data
          \/ a \notin DOMAIN done /\ a \in DOMAIN trie /\ trie'[a] = trie[a]
    BY <1>7 DEF Written
  <2> SUFFICES ASSUME NEW a \in DOMAIN trie'
               PROVE  trie'[a].code \in codes' /\ trie'[a].root \in roots'
    OBVIOUS
  <2>2. CASE a \in DOMAIN done /\ ~done[a].deleted /\ trie'[a] = done[a].data
    <3>1. a \in writes
      <4>1. a \notin deletes
        <5> SUFFICES ASSUME a \in deletes PROVE FALSE
          OBVIOUS
        <5>1. ObjectOK(stateObjects[a]) /\ (stateObjects[a].deleted => Dead(stateObjects[a]))
          BY Zenon, <1>1, <1>11
        <5>2. deleteStateObject(stateObjects[a]).deleted
          BY Zenon, <5>1, DoneObjects
        <5>3. done[a] = deleteStateObject(stateObjects[a])
          BY ZenonT(40), <1>9
        <5> QED BY Zenon, <2>2, <5>2, <5>3
      <4> QED BY Zenon, <1>6, <2>2, <4>1
    <3> QED BY Zenon, <1>13, <2>2, <3>1
  <2>3. CASE a \notin DOMAIN done /\ a \in DOMAIN trie /\ trie'[a] = trie[a]
    <3>1. a \notin stateObjectsDirty \/ a \notin live
      BY Zenon, <1>6, <1>12, <2>3
    <3> QED BY Zenon, <1>1, <1>8, <2>3, <3>1
  <2> QED BY ZenonT(40), <2>1, <2>2, <2>3
<1>17. stateObjectsDirty' \subseteq Accounts /\ DOMAIN done \subseteq DOMAIN stateObjects
  BY Zenon, <1>1, <1>6, <1>7, <1>11
<1>18. Inv'
  BY Zenon, <1>7, <1>8, <1>14, <1>15, <1>16, <1>17, WriteBack
<1> QED BY Zenon, <1>16, <1>18

(* Reset.                                                                  *)
LEMMA ResetKeeps ==
    ASSUME Inv, Reset
    PROVE  Inv'
<1>1. /\ trie' = << >> /\ stateObjects' = << >> /\ stateObjectsDirty' = {}
      /\ thash' = ZeroHash /\ logs' = [h \in Hashes |-> << >>] /\ logSize' = 0
      /\ codes' = codes /\ roots' = roots /\ panic' = panic
      /\ clearJournalAndRefund
  BY DEF Reset
<1>2. DatabaseOK'
  BY <1>1 DEF Inv, DatabaseOK
<1>3. ObjectsOK(stateObjects, stateObjectsDirty)'
  BY <1>1 DEF ObjectsOK
<1>4. \A a \in Accounts : (Read(stateObjects, a) = TrieView(a))'
  BY SMTT(30), <1>1 DEF Read, Found, TrieView, NoAccount
<1>5. LogsOK(View)'
  BY <1>1 DEF LogsOK, View
<1>6. Clean'
  BY Zenon, <1>1, <1>4, <1>5 DEF Clean, clearJournalAndRefund
<1>7. (Means(entries, View, dirties) /\ (\E S : entries \in Seq(S)) /\ dirties \in [Accounts -> Int])'
  BY <1>6, CleanMeans, PTL
<1>8. thash' \in Hashes /\ panic' \in {"none", "finalise"}
  BY <1>1, StateAssumption DEF Inv
<1> QED BY Zenon, <1>2, <1>3, <1>7, <1>8 DEF Inv

(* The initial state.                                                      *)
LEMMA InitInv == Init => Inv
<1> SUFFICES ASSUME Init PROVE Inv
  OBVIOUS
<1>1. DatabaseOK
  BY DEF Init, DatabaseOK
<1>2. ObjectsOK(stateObjects, stateObjectsDirty)
  BY DEF Init, ObjectsOK
<1>3. \A a \in Accounts : Read(stateObjects, a) = TrieView(a)
  <2>1. stateObjects = << >> /\ trie = << >>
    BY Zenon DEF Init
  <2> QED BY <2>1 DEF Read, Found, TrieView, NoAccount
<1>4. LogsOK(View)
  BY DEF Init, LogsOK, View
<1>5. Clean
  BY Zenon, <1>3, <1>4 DEF Clean, Init
<1>6. thash \in Hashes /\ panic \in {"none", "finalise"}
  BY StateAssumption DEF Init
<1> QED BY Zenon, <1>1, <1>2, <1>5, <1>6, CleanMeans DEF Inv

(* Every step keeps the invariant.                                         *)
LEMMA NextKeeps ==
    ASSUME ReadsFail = FALSE
    PROVE  Inv /\ [Next]_vars => Inv'
<1>1. ASSUME Inv, Next PROVE Inv'
  <2>1. panic = "none"
    BY Zenon, <1>1 DEF Next
  <2>2. CASE ChangeAccounts
    BY Zenon, <1>1, <2>2, ChangeKeeps DEF ChangeAccounts
  <2>3. CASE ChangeLogs
    BY Zenon, <1>1, <2>3, LogsKeep
  <2>4. CASE Snapshot
    BY Zenon, <1>1, <2>4, SnapshotKeeps
  <2>5. ASSUME NEW idx \in DOMAIN validRevisions, RevertToSnapshot(idx) PROVE Inv'
    BY Zenon, <1>1, <2>5, RevertKeeps
  <2>6. CASE Finalise
    BY Zenon, <1>1, <2>1, <2>6, FinaliseKeeps
  <2>7. CASE Commit
    BY Zenon, <1>1, <2>7, CommitKeeps
  <2>8. CASE Reset
    BY Zenon, <1>1, <2>8, ResetKeeps
  <2> QED BY Zenon, <1>1, <2>2, <2>3, <2>4, <2>5, <2>6, <2>7, <2>8 DEF Next
<1>2. ASSUME Inv, UNCHANGED vars PROVE Inv'
  <2>1. /\ stateObjects' = stateObjects /\ stateObjectsDirty' = stateObjectsDirty
        /\ refund' = refund /\ thash' = thash /\ logs' = logs /\ logSize' = logSize
        /\ preimages' = preimages /\ entries' = entries /\ dirties' = dirties
        /\ validRevisions' = validRevisions /\ saved' = saved /\ panic' = panic
        /\ trie' = trie /\ codes' = codes /\ roots' = roots
    BY <1>2 DEF vars, objectVars, logVars, journalVars, dbVars
  <2>2. View' = View
    BY Zenon, <2>1 DEF View, Read, Found, getStateObject
  <2>3. Means(entries', View', dirties') /\ ObjectsOK(stateObjects', stateObjectsDirty')
    BY Zenon, <1>2, <2>1, <2>2 DEF Inv
  <2>4. Means(entries, View, dirties)'
    BY Zenon, <2>1, <2>3, StillMeans
  <2>5. ObjectsOK(stateObjects, stateObjectsDirty)' /\ DatabaseOK'
    BY Zenon, <1>2, <2>1, <2>3, SameDatabase DEF Inv
  <2> QED BY Zenon, <1>2, <2>1, <2>4, <2>5 DEF Inv
<1> QED BY <1>1, <1>2

-----------------------------------------------------------------------------
(* The theorems.  All are about a database whose reads do not fail.        *)

(* The journal has a meaning in every state of the program: its entries    *)
(* lead back, one by one, through what could be read after each of them to *)
(* an account trie without changes (journal.go, revert and append).        *)
THEOREM JournalHasMeaning ==
    ASSUME ReadsFail = FALSE
    PROVE  Spec => []Inv
<1>1. Init => Inv
  BY InitInv
<1>2. Inv /\ [Next]_vars => Inv'
  BY Zenon, NextKeeps
<1> QED BY <1>1, <1>2, PTL DEF Spec

(* RevertToSnapshot restores all that can be read, in every state, for     *)
(* every snapshot, and meets no missing object.                            *)
THEOREM SnapshotsAreRestored ==
    ASSUME ReadsFail = FALSE
    PROVE  Spec => RevertRestores
<1>1. Inv /\ [Next]_vars =>
        [\A idx \in DOMAIN validRevisions :
            RevertToSnapshot(idx) => panic' = "none" /\ View' = saved[idx]]_vars
  <2>1. ASSUME Inv, Next, NEW idx \in DOMAIN validRevisions, RevertToSnapshot(idx)
        PROVE  panic' = "none" /\ View' = saved[idx]
    BY Zenon, <2>1, RevertKeeps DEF Next
  <2> QED BY <2>1
<1>2. Spec => []Inv
  BY Zenon, JournalHasMeaning
<1> QED BY <1>1, <1>2, PTL DEF Spec, RevertRestores

(* What differs from the trie is dirty, so Finalise writes it.             *)
THEOREM NoChangeIsForgotten ==
    ASSUME ReadsFail = FALSE
    PROVE  Spec => []ChangesAreDirty
<1>1. Inv => ChangesAreDirty
  <2> SUFFICES ASSUME Inv, NEW a \in DOMAIN stateObjects, ~stateObjects[a].deleted, a \notin Dirty
               PROVE  /\ ~stateObjects[a].suicided /\ a \in DOMAIN trie
                      /\ trie[a] = updateRoot(stateObjects[a]).data
    BY Zenon DEF ChangesAreDirty
  <2> DEFINE o == stateObjects[a]
  <2>1. a \in Accounts /\ o \in Objects
    BY DEF Inv, ObjectsOK, ObjectOK
  <2>2. Read(stateObjects, a) = TrieView(a) /\ Read(stateObjects, a) = Getters(o, "yes")
    <3>1. Found(stateObjects, a) /\ getStateObject(stateObjects, a) = o
      BY DEF Found, getStateObject
    <3> QED BY Zenon, <2>1, <3>1, NotDirty, ReadFound
  <2>3. a \in DOMAIN trie /\ TrieView(a) = Getters(newObject(trie[a]), "yes")
    <3>1. TrieView(a).exist = "yes"
      BY <2>2 DEF Getters
    <3> QED BY Zenon, <3>1 DEF TrieView, NoAccount, Getters
  <2> HIDE DEF o
  <2>4. Getters(o, "yes") = Getters(newObject(trie[a]), "yes")
    BY Zenon, <2>2, <2>3
  <2>5. /\ o.suicided = FALSE /\ o.data.nonce = trie[a].nonce /\ o.data.balance = trie[a].balance
        /\ o.data.code = trie[a].code /\ GetState(o) = trie[a].root
    BY Zenon, <2>4 DEF Getters, newObject, GetState
  <2>6. trie[a] \in Data
    BY <2>3 DEF Inv, DatabaseOK
  <2>7. updateRoot(o).data = trie[a]
    BY <2>1, <2>5, <2>6 DEF updateRoot, Objects, Data
  <2> QED BY Zenon, <2>3, <2>5, <2>7 DEF o
<1>2. Spec => []Inv
  BY Zenon, JournalHasMeaning
<1> QED BY <1>1, <1>2, PTL

(* After a Commit the trie refers to nothing that is not in the database.  *)
THEOREM CommitWritesAll ==
    ASSUME ReadsFail = FALSE
    PROVE  Spec => CommitIsComplete
<1>1. Inv /\ [Next]_vars =>
        [Commit => \A a \in DOMAIN trie' : trie'[a].code \in codes' /\ trie'[a].root \in roots']_vars
  <2>1. ASSUME Inv, Commit
        PROVE  \A a \in DOMAIN trie' : trie'[a].code \in codes' /\ trie'[a].root \in roots'
    BY Zenon, <2>1, CommitKeeps
  <2> QED BY <2>1
<1>2. Spec => []Inv
  BY Zenon, JournalHasMeaning
<1> QED BY <1>1, <1>2, PTL DEF Spec, CommitIsComplete

(* A Copy reads as the state it was taken of, until a transaction has been *)
(* finalised after the last Commit.                                        *)
THEOREM CopyReadsTheSame ==
    ASSUME ReadsFail = FALSE
    PROVE  Spec => []CopyOfCommitted
<1>1. Inv => CopyOfCommitted
  <2> DEFINE Same(a) ==
        LET r == Read(stateObjects, a)
        IN  ReadCopy(a) = [balance |-> r.balance, nonce |-> r.nonce, code |-> r.code, slot |-> r.slot]
  <2> SUFFICES ASSUME Inv, stateObjectsDirty = {}, NEW a \in Accounts
               PROVE  Same(a)
    BY DEF CopyOfCommitted, CopyPanics
  <2>1. /\ DOMAIN Copied = Dirty \cap DOMAIN stateObjects
        /\ \A b \in DOMAIN Copied : Copied[b] = stateObjects[b]
    BY DEF Copied
  <2>2. /\ NoAccount.balance = 0 /\ NoAccount.nonce = 0 /\ NoAccount.code = 0 /\ NoAccount.slot = 0
    BY Zenon DEF NoAccount, Getters, newObject, EmptyAccount, GetState
  <2>3. CASE a \in DOMAIN Copied
    <3> DEFINE o == stateObjects[a]
    <3>1. /\ Found(Copied, a) <=> Found(stateObjects, a)
          /\ getStateObject(Copied, a) = o /\ getStateObject(stateObjects, a) = o
      BY ZenonT(40), <2>1, <2>3 DEF Found, getStateObject
    <3> HIDE DEF o
    <3>2. CASE Found(stateObjects, a)
      <4>1. ReadCopy(a) = [balance |-> o.data.balance, nonce |-> o.data.nonce,
                           code |-> o.data.code, slot |-> GetState(o)]
        BY Zenon, <2>3, <3>1, <3>2 DEF ReadCopy
      <4>2. Read(stateObjects, a) = Getters(o, "yes")
        BY Zenon, <3>1, <3>2, ReadFound
      <4> QED BY <4>1, <4>2 DEF Getters
    <3>3. CASE ~Found(stateObjects, a)
      <4>1. ReadCopy(a) = [balance |-> 0, nonce |-> 0, code |-> 0, slot |-> 0]
        BY Zenon, <3>1, <3>3 DEF ReadCopy
      <4>2. Read(stateObjects, a) = NoAccount
        BY ZenonT(40), <3>3, ReadNotFound
      <4> QED BY Zenon, <2>2, <4>1, <4>2
    <3> QED BY Zenon, <3>2, <3>3
  <2>4. CASE a \notin DOMAIN Copied
    <3>1. Read(stateObjects, a) = TrieView(a)
      <4>1. a \notin Dirty \/ a \notin DOMAIN stateObjects
        BY Zenon, <2>1, <2>4
      <4> QED BY Zenon, <4>1, NotDirty
    <3>2. CASE a \in DOMAIN trie
      <4> DEFINE o == newObject(trie[a])
      <4>1. Found(Copied, a) /\ getStateObject(Copied, a) = o
        BY Zenon, <2>4, <3>2 DEF Found, getStateObject
      <4>2. trie[a].code \in codes /\ trie[a].root \in roots
        BY Zenon, <3>2 DEF Inv, ObjectsOK
      <4>3. o.data.code \in codes /\ o.data.root \in roots
        BY <4>2 DEF newObject
      <4>4. TrieView(a) = Getters(o, "yes")
        BY <3>2 DEF TrieView
      <4> HIDE DEF o
      <4>5. ReadCopy(a) = [balance |-> o.data.balance, nonce |-> o.data.nonce,
                           code |-> o.data.code, slot |-> GetState(o)]
        BY Zenon, <2>4, <4>1, <4>3 DEF ReadCopy
      <4>6. Read(stateObjects, a) = Getters(o, "yes")
        BY Zenon, <3>1, <4>4
      <4> QED BY <4>5, <4>6 DEF Getters
    <3>3. CASE a \notin DOMAIN trie
      <4>1. ~Found(Copied, a) /\ TrieView(a) = NoAccount
        BY <2>4, <3>3 DEF Found, TrieView
      <4>2. ReadCopy(a) = [balance |-> 0, nonce |-> 0, code |-> 0, slot |-> 0]
        BY Zenon, <4>1 DEF ReadCopy
      <4> QED BY Zenon, <2>2, <3>1, <4>1, <4>2
    <3> QED BY <3>2, <3>3
  <2> QED BY ZenonT(40), <2>3, <2>4
<1>2. Spec => []Inv
  BY Zenon, JournalHasMeaning
<1> QED BY <1>1, <1>2, PTL

=============================================================================
