------------------------- MODULE SharedStateProofs -------------------------
(***************************************************************************)
(* A batch of transactions that have no account in common gives a valid    *)
(* block, for any number of threads, accounts and transactions, although   *)
(* the threads take them in any order and write to the trie in turns.      *)
(***************************************************************************)
EXTENDS SharedState, WellFoundedInduction, SequenceTheorems, TLAPS

-----------------------------------------------------------------------------
(* The re-execution of a block that becomes longer by one transaction.     *)

First == [ok |-> TRUE, trie |-> Genesis]

(* g has the results of the first transactions of a block, up to N.        *)
Executes(g, block, N) ==
    g = [n \in 0..N |-> IF n = 0 THEN First ELSE ApplyTransaction(g[n - 1], block[n])]

(* The result of a block, as its definition expands.                       *)
LEMMA ProcessDef ==
    ASSUME NEW block
    PROVE  Process(block) = (CHOOSE g : Executes(g, block, Len(block)))[Len(block)]
BY Zenon DEF Process, Executes, First

(* A nonempty set of numbers has a least.                                  *)
LEMMA LeastNumber ==
    ASSUME NEW A \in SUBSET Nat, A # {}
    PROVE  \E i \in A : \A j \in A : ~(j < i)
<1>1. PICK i \in A : \A j \in A : ~(<<j, i>> \in OpToRel(<, Nat))
  BY Zenon, NatLessThanWellFounded, WFMin
<1>2. \A j \in A : ~(j < i)
  BY Zenon, <1>1 DEF OpToRel
<1> QED BY Zenon, <1>2

(* The results, one by one.                                                *)
LEMMA ExecutesAt ==
    ASSUME NEW block, NEW N \in Nat, NEW g, Executes(g, block, N)
    PROVE  /\ g[0] = First
           /\ \A n \in 0..N : n # 0 => g[n] = ApplyTransaction(g[n - 1], block[n])
<1>1. 0 \in 0..N
  OBVIOUS
<1>2. \A n \in 0..N : g[n] = IF n = 0 THEN First ELSE ApplyTransaction(g[n - 1], block[n])
  BY Zenon DEF Executes
<1> QED BY Zenon, <1>1, <1>2

(* There is only one such function.                                        *)
LEMMA ExecutesSame ==
    ASSUME NEW block, NEW N \in Nat, NEW g, NEW h, Executes(g, block, N), Executes(h, block, N)
    PROVE  g = h
<1> DEFINE A == {n \in 0..N : g[n] # h[n]}
<1>1. /\ g[0] = First
      /\ \A n \in 0..N : n # 0 => g[n] = ApplyTransaction(g[n - 1], block[n])
  BY Zenon, ExecutesAt
<1>2. /\ h[0] = First
      /\ \A n \in 0..N : n # 0 => h[n] = ApplyTransaction(h[n - 1], block[n])
  BY Zenon, ExecutesAt
<1>3. ASSUME A # {} PROVE FALSE
  <2>1. A \in SUBSET Nat
    <3>1. 0..N \subseteq Nat
      OBVIOUS
    <3> QED BY Zenon, <3>1
  <2>2. PICK i \in A : \A j \in A : ~(j < i)
    BY Zenon, <1>3, <2>1, LeastNumber
  <2>3. i \in 0..N /\ g[i] # h[i] /\ i # 0
    BY Zenon, <1>1, <1>2, <2>2
  <2>4. i - 1 \in 0..N /\ i - 1 < i
    BY <2>3
  <2>5. g[i - 1] = h[i - 1]
    BY Zenon, <2>2, <2>4
  <2> QED BY Zenon, <1>1, <1>2, <2>3, <2>5
<1>4. \A n \in 0..N : g[n] = h[n]
  BY Zenon, <1>3
<1>5. g = [n \in 0..N |-> g[n]] /\ h = [n \in 0..N |-> h[n]]
  BY DEF Executes
<1> QED BY <1>4, <1>5

(* There is one.                                                           *)
LEMMA ExecutesExists ==
    ASSUME NEW block, NEW N \in Nat
    PROVE  \E g : Executes(g, block, N)
<1> DEFINE A == {n \in Nat : ~\E g : Executes(g, block, n)}
<1>1. ASSUME A # {} PROVE FALSE
  <2>1. PICK i \in A : \A j \in A : ~(j < i)
    <3>1. A \in SUBSET Nat
      BY Zenon
    <3> QED BY Zenon, <1>1, <3>1, LeastNumber
  <2>2. i \in Nat /\ ~\E g : Executes(g, block, i)
    BY Zenon, <2>1
  <2>3. CASE i = 0
    <3> DEFINE g == [n \in 0..0 |-> First]
    <3>1. \A n \in 0..0 : n = 0
      OBVIOUS
    <3>2. g = [n \in 0..0 |-> IF n = 0 THEN First ELSE ApplyTransaction(g[n - 1], block[n])]
      BY Zenon, <3>1
    <3> QED BY Zenon, <2>2, <2>3, <3>2 DEF Executes
  <2>4. CASE i # 0
    <3>1. i - 1 \in Nat /\ i - 1 < i
      BY <2>2, <2>4
    <3>2. PICK g : Executes(g, block, i - 1)
      BY Zenon, <2>1, <3>1
    <3>3. /\ g[0] = First
          /\ \A n \in 0..(i - 1) : n # 0 => g[n] = ApplyTransaction(g[n - 1], block[n])
      BY Zenon, <3>1, <3>2, ExecutesAt
    <3> DEFINE h == [n \in 0..i |-> IF n = i THEN ApplyTransaction(g[i - 1], block[i]) ELSE g[n]]
    <3>4. ASSUME NEW n \in 0..i
          PROVE  h[n] = IF n = 0 THEN First ELSE ApplyTransaction(h[n - 1], block[n])
      <4>1. h[n] = IF n = i THEN ApplyTransaction(g[i - 1], block[i]) ELSE g[n]
        BY Zenon, <3>4
      <4>2. CASE n = 0
        BY Zenon, <2>4, <3>3, <4>1, <4>2
      <4>3. CASE n # 0
        <5>1. n - 1 \in 0..i /\ n - 1 # i /\ (n # i => n \in 0..(i - 1))
          BY <2>2, <3>4, <4>3
        <5>2. h[n - 1] = g[n - 1]
          BY Zenon, <5>1
        <5> HIDE DEF h
        <5> QED BY Zenon, <3>3, <4>1, <4>3, <5>1, <5>2
      <4> QED BY Zenon, <4>2, <4>3
    <3>5. h = [n \in 0..i |-> h[n]]
      BY Zenon
    <3> HIDE DEF h
    <3>6. Executes(h, block, i)
      BY Zenon, <3>4, <3>5 DEF Executes
    <3> QED BY Zenon, <2>2, <3>6
  <2> QED BY Zenon, <2>3, <2>4
<1> QED BY Zenon, <1>1

(* The empty block changes nothing.                                        *)
LEMMA ProcessNone == Process(<< >>) = First
<1> DEFINE g == CHOOSE f : Executes(f, << >>, 0)
<1>1. Len(<< >>) = 0 /\ 0 \in Nat
  OBVIOUS
<1>2. Executes(g, << >>, 0)
  BY Zenon, <1>1, ExecutesExists
<1>3. g[0] = First
  <2> HIDE DEF g
  <2> QED BY Zenon, <1>1, <1>2, ExecutesAt
<1> QED BY Zenon, <1>1, <1>3, ProcessDef

(* A longer block is executed after the shorter.                           *)
LEMMA ProcessAppend ==
    ASSUME NEW R, NEW block \in Seq(R), NEW x \in R
    PROVE  Process(Append(block, x)) = ApplyTransaction(Process(block), x)
<1> DEFINE N == Len(block)
           longer == Append(block, x)
           g == CHOOSE f : Executes(f, longer, Len(longer))
           h == CHOOSE f : Executes(f, block, N)
           r == [n \in 0..N |-> g[n]]
<1>1. /\ N \in Nat /\ Len(longer) = N + 1 /\ longer[N + 1] = x
      /\ \A n \in 1..N : longer[n] = block[n]
  OBVIOUS
<1>2. N + 1 \in Nat /\ N + 1 \in 0..(N + 1) /\ N + 1 # 0 /\ (N + 1) - 1 = N /\ N \in 0..N
  BY <1>1
<1>3. Process(longer) = g[N + 1] /\ Process(block) = h[N]
  BY Zenon, <1>1, ProcessDef
<1> HIDE DEF N, longer
<1>4. Executes(g, longer, N + 1) /\ Executes(h, block, N)
  BY Zenon, <1>1, <1>2, ExecutesExists
<1> HIDE DEF g, h
<1>5. /\ g[0] = First
      /\ \A n \in 0..(N + 1) : n # 0 => g[n] = ApplyTransaction(g[n - 1], longer[n])
  BY Zenon, <1>2, <1>4, ExecutesAt
<1>6. ASSUME NEW n \in 0..N
      PROVE  r[n] = IF n = 0 THEN First ELSE ApplyTransaction(r[n - 1], block[n])
  <2>1. CASE n = 0
    BY Zenon, <1>5, <1>6, <2>1
  <2>2. CASE n # 0
    <3>1. n \in 0..(N + 1) /\ n \in 1..N /\ n - 1 \in 0..N
      BY <1>1, <1>6, <2>2
    <3>2. r[n] = g[n] /\ r[n - 1] = g[n - 1]
      BY Zenon, <1>6, <3>1
    <3> HIDE DEF r
    <3> QED BY Zenon, <1>1, <1>5, <2>2, <3>1, <3>2
  <2> QED BY Zenon, <2>1, <2>2
<1>7. r = [n \in 0..N |-> r[n]]
  BY Zenon
<1>8. r[N] = g[N]
  BY Zenon, <1>2
<1> HIDE DEF r
<1>9. Executes(r, block, N)
  BY Zenon, <1>6, <1>7 DEF Executes
<1>10. r = h
  BY Zenon, <1>1, <1>4, <1>9, ExecutesSame
<1>11. g[N + 1] = ApplyTransaction(g[N], x)
  BY Zenon, <1>1, <1>2, <1>5
<1> QED BY Zenon, <1>3, <1>8, <1>10, <1>11 DEF longer

-----------------------------------------------------------------------------
(* The assumption.                                                         *)

(* The accounts that a transaction may change.  One that cannot buy its    *)
(* gas pays no fee; one with a price of zero only reads the coinbase.      *)
Touched(x) == {x.from, x.to} \cup {z \in {coinbase} : 0 < x.price /\ x.price <= Funds}

(* What a transaction may cost.                                            *)
Cost(x) == IF x.price <= Funds THEN x.price + x.value ELSE 0
Costs(q) == IF Len(q) = 2 THEN Cost(q[1]) + Cost(q[2]) ELSE Cost(q[1])

(* No two senders have transactions that touch the same account.  A sender *)
(* has at most two transactions, and only one when it touches the          *)
(* coinbase.  No call fails for lack of funds: the sender has all that its *)
(* transactions cost, or cannot even buy the gas.                          *)
Independent(p) ==
    /\ \A a \in Accounts :
          /\ Len(p[a]) <= 2
          /\ p[a] # << >> => Costs(p[a]) <= Funds
          /\ \A i \in DOMAIN p[a] : coinbase \in Touched(p[a][i]) => Len(p[a]) = 1
    /\ \A a, b \in Accounts : \A i \in DOMAIN p[a], j \in DOMAIN p[b] :
          a # b => Touched(p[a][i]) \cap Touched(p[b][j]) = {}

IndependentBatches == \A p \in Batches : Independent(p)

-----------------------------------------------------------------------------
(* The invariant.                                                          *)

Data == [nonce : Int, balance : Int, root : Int]

Labels == {"idle", "snapshot", "buy", "call", "fee", "finalise", "append", "revert", "panic"}

(* The variables have their types.                                         *)
SharedTypeOK ==
    /\ trie \in [Accounts -> Data]
    /\ stateObjects = [t \in Threads |-> stateObjects[t]]
    /\ \A t \in Threads : /\ DOMAIN stateObjects[t] \subseteq Accounts
                          /\ \A b \in DOMAIN stateObjects[t] : stateObjects[t][b] \in Data
    /\ dirties \in [Threads -> SUBSET Accounts]
    /\ pending \in [Accounts -> Seq(Transactions)]
    /\ tx \in [Threads -> Transactions]
    /\ pc \in [Threads -> Labels]
    /\ txs \in Seq(Transactions)

(* The accounts as the block so far leaves them.                           *)
Executed == Process(txs).trie

Runs(t, a) == pc[t] # "idle" /\ tx[t].from = a

(* The block so far is valid.                                              *)
BlockInv == Executed \in [Accounts -> Data] /\ Process(txs) = [ok |-> TRUE, trie |-> Executed]

(* The transactions that are left are independent, and paid for.           *)
PendingInv ==
    /\ Independent(pending)
    /\ \A a \in Accounts :
          /\ \A i \in DOMAIN pending[a] : pending[a][i].from = a
          /\ pending[a] # << >> => Costs(pending[a]) <= Executed[a].balance /\ Executed[a].balance <= Funds

(* A thread executes the first transaction of a sender, no other the same. *)
RunInv ==
    /\ \A t \in Threads : pc[t] # "idle" => pending[tx[t].from] # << >> /\ tx[t] = pending[tx[t].from][1]
    /\ \A t, u \in Threads : pc[t] # "idle" /\ Runs(u, tx[t].from) => t = u

(* The accounts s after x has bought its gas, made its call and paid.      *)
Bought(s, x) ==
    [b \in Accounts |->
        [nonce |-> s[b].nonce,
         balance |-> s[b].balance - (IF b = x.from THEN x.price ELSE 0),
         root |-> s[b].root]]

Called(s, x) ==
    [b \in Accounts |->
        [nonce |-> s[b].nonce + (IF b = x.from THEN 1 ELSE 0),
         balance |-> s[b].balance - (IF b = x.from THEN x.price + x.value ELSE 0)
                                  + (IF b = x.to THEN x.value ELSE 0),
         root |-> s[b].root + (IF b = x.to /\ x.writes THEN 1 ELSE 0)]]

Paid(s, x) ==
    [b \in Accounts |->
        [nonce |-> Called(s, x)[b].nonce,
         balance |-> Called(s, x)[b].balance + (IF b = coinbase THEN x.price ELSE 0),
         root |-> Called(s, x)[b].root]]

(* What a thread at label l has made of the accounts s.                    *)
Local(s, x, l) ==
    IF l = "call" THEN Bought(s, x)
    ELSE IF l = "fee" THEN Called(s, x)
    ELSE IF l \in {"finalise", "append"} THEN Paid(s, x) ELSE s

(* A thread at label l of x, its objects o and its dirty accounts d, above *)
(* the trie tr.  Nobody but the thread changes what x touches: an account  *)
(* has its new value in the objects while it is dirty, and then in the     *)
(* trie.                                                                   *)
Executing(s, x, l, o, d, tr) ==
    /\ d \subseteq Touched(x) /\ d \subseteq DOMAIN o
    /\ \A b \in Touched(x) :
          /\ IF b \in DOMAIN o THEN o[b] = Local(s, x, l)[b] ELSE Local(s, x, l)[b] = s[b]
          /\ tr[b] = IF b \in d THEN s[b] ELSE Local(s, x, l)[b]
    /\ l \in {"call", "fee", "finalise", "append"} =>
          x.price <= Funds /\ x.price + x.value <= s[x.from].balance
    /\ l \in {"snapshot", "buy", "call", "fee"} => \A b \in Touched(x) : tr[b] = s[b]
    /\ l \in {"fee", "finalise"} => d # {}
    /\ l \notin {"call", "fee", "finalise"} => d = {}

ThreadInv ==
    \A t \in Threads :
        IF pc[t] = "idle" THEN dirties[t] = {}
        ELSE Executing(Executed, tx[t], pc[t], stateObjects[t], dirties[t], trie)

(* What no thread is about to change is in the trie.                       *)
TrieInv ==
    \A b \in Accounts :
        (\A t \in Threads : pc[t] # "idle" => b \notin Touched(tx[t])) => trie[b] = Executed[b]

(* Live objects that a transaction will meet are not stale: of the         *)
(* accounts that the first of two transactions touches, only the thread    *)
(* that executes it has objects, and the second finds these or none.       *)
ObjectInv ==
    \A a \in Accounts, t \in Threads :
        /\ pending[a] # << >> /\ (\A u \in Threads : ~Runs(u, a)) =>
              \A b \in Touched(pending[a][1]) :
                 b \in DOMAIN stateObjects[t] => stateObjects[t][b] = Executed[b]
        /\ Len(pending[a]) = 2 =>
              \A i \in DOMAIN pending[a] : \A b \in Touched(pending[a][i]) :
                 b \in DOMAIN stateObjects[t] => Runs(t, a) /\ b \in Touched(tx[t])

SharedInv ==
    /\ SharedTypeOK /\ BlockInv /\ PendingInv /\ RunInv
    /\ ThreadInv /\ TrieInv /\ ObjectInv

-----------------------------------------------------------------------------
(* What one transaction does.                                              *)

(* A transaction touches accounts, its sender and its recipient.           *)
LEMMA TouchedAccounts ==
    ASSUME NEW x \in Transactions
    PROVE  Touched(x) \subseteq Accounts /\ x.from \in Touched(x) /\ x.to \in Touched(x)
BY BatchesAssumption DEF Touched, Transactions

(* The stages of a transaction have accounts of their types, and change    *)
(* only what it touches.                                                   *)
LEMMA StageTypes ==
    ASSUME NEW s \in [Accounts -> Data], NEW x \in Transactions
    PROVE  /\ Bought(s, x) \in [Accounts -> Data]
           /\ Called(s, x) \in [Accounts -> Data]
           /\ Paid(s, x) \in [Accounts -> Data]
           /\ x.price <= Funds => \A b \in Accounts : b \notin Touched(x) => Paid(s, x)[b] = s[b]
<1>0. x.price \in Nat /\ x.value \in Nat /\ x.from \in Accounts /\ x.to \in Accounts
  BY DEF Transactions
<1>1. Bought(s, x) \in [Accounts -> Data]
  BY <1>0 DEF Bought, Data
<1>2. Called(s, x) \in [Accounts -> Data]
  BY <1>0 DEF Called, Data
<1>3. Paid(s, x) \in [Accounts -> Data]
  <2> HIDE DEF Called
  <2> QED BY <1>0, <1>2 DEF Paid, Data
<1>4. ASSUME x.price <= Funds, NEW b \in Accounts, b \notin Touched(x)
      PROVE  Paid(s, x)[b] = s[b]
  <2>1. b # x.from /\ b # x.to /\ (b = coinbase => x.price = 0)
    BY <1>0, <1>4 DEF Touched
  <2>2. s[b] \in Data
    OBVIOUS
  <2>3. Called(s, x)[b] = s[b]
    BY <2>1, <2>2 DEF Called, Data
  <2>4. Paid(s, x)[b] = [nonce |-> s[b].nonce, balance |-> s[b].balance, root |-> s[b].root]
    BY <2>1, <2>2, <2>3 DEF Paid, Data
  <2> QED BY <2>2, <2>4 DEF Data
<1> QED BY <1>1, <1>2, <1>3, <1>4

(* ApplyTransaction does all stages.                                       *)
LEMMA Applied ==
    ASSUME NEW s \in [Accounts -> Data], NEW x \in Transactions,
           x.price + x.value <= s[x.from].balance
    PROVE  ApplyTransaction([ok |-> TRUE, trie |-> s], x) = [ok |-> TRUE, trie |-> Paid(s, x)]
<1>0. /\ x.price \in Nat /\ x.value \in Nat /\ x.from \in Accounts /\ x.to \in Accounts
      /\ coinbase \in Accounts
  BY Zenon, BatchesAssumption DEF Transactions
<1> DEFINE paid == s[x.from].balance - x.price
           bought == [s EXCEPT ![x.from].nonce = @ + 1, ![x.from].balance = paid - x.value]
           called == [bought EXCEPT ![x.to].balance = @ + x.value,
                                    ![x.to].root = IF x.writes THEN @ + 1 ELSE @]
           done == [called EXCEPT ![coinbase].balance = @ + x.price]
<1>1. ApplyTransaction([ok |-> TRUE, trie |-> s], x) = [ok |-> TRUE /\ paid >= x.value, trie |-> done]
  <2> DEFINE r == [ok |-> TRUE, trie |-> s]
  <2>1. r.ok = TRUE /\ r.trie = s
    OBVIOUS
  <2> HIDE DEF r
  <2> DEFINE p == r.trie[x.from].balance - x.price
             q == [r.trie EXCEPT ![x.from].nonce = @ + 1, ![x.from].balance = p - x.value]
             c == [q EXCEPT ![x.to].balance = @ + x.value,
                            ![x.to].root = IF x.writes THEN @ + 1 ELSE @]
  <2>2. ApplyTransaction(r, x)
          = [ok |-> r.ok /\ p >= x.value, trie |-> [c EXCEPT ![coinbase].balance = @ + x.price]]
    BY Zenon DEF ApplyTransaction
  <2>3. p = paid
    BY Zenon, <2>1
  <2> HIDE DEF p, paid
  <2>4. q = bought
    BY Zenon, <2>1, <2>3
  <2> HIDE DEF q, bought
  <2>5. c = called
    BY Zenon, <2>4
  <2> HIDE DEF c, called
  <2>6. ApplyTransaction(r, x) = [ok |-> TRUE /\ paid >= x.value, trie |-> done]
    BY Zenon, <2>1, <2>2, <2>3, <2>5
  <2> QED BY Zenon, <2>6 DEF r
<1>2. s[x.from].balance \in Int /\ paid >= x.value
  BY <1>0 DEF Data
<1>3. ASSUME NEW b \in Accounts
      PROVE  bought[b] = [nonce |-> s[b].nonce + (IF b = x.from THEN 1 ELSE 0),
                          balance |-> s[b].balance - (IF b = x.from THEN x.price + x.value ELSE 0),
                          root |-> s[b].root]
  BY <1>0 DEF Data
<1>4. bought \in [Accounts -> Data]
  BY <1>0 DEF Data
<1> HIDE DEF bought
<1>5. ASSUME NEW b \in Accounts
      PROVE  called[b] = [nonce |-> bought[b].nonce,
                          balance |-> bought[b].balance + (IF b = x.to THEN x.value ELSE 0),
                          root |-> bought[b].root + (IF b = x.to /\ x.writes THEN 1 ELSE 0)]
  BY <1>0, <1>4 DEF Data
<1>6. called \in [Accounts -> Data]
  BY <1>0, <1>4 DEF Data
<1> HIDE DEF called
<1>7. ASSUME NEW b \in Accounts
      PROVE  done[b] = [nonce |-> called[b].nonce,
                        balance |-> called[b].balance + (IF b = coinbase THEN x.price ELSE 0),
                        root |-> called[b].root]
  BY <1>0, <1>6 DEF Data
<1>8. DOMAIN done = Accounts /\ done = [b \in DOMAIN done |-> done[b]]
  BY Zenon, <1>6
<1> HIDE DEF done
<1>9. ASSUME NEW b \in Accounts PROVE called[b] = Called(s, x)[b]
  <2>1. s[b] \in Data
    BY <1>9
  <2>2. /\ bought[b].nonce = s[b].nonce + (IF b = x.from THEN 1 ELSE 0)
        /\ bought[b].balance = s[b].balance - (IF b = x.from THEN x.price + x.value ELSE 0)
        /\ bought[b].root = s[b].root
    <3> DEFINE n == s[b].nonce + (IF b = x.from THEN 1 ELSE 0)
               v == s[b].balance - (IF b = x.from THEN x.price + x.value ELSE 0)
    <3>1. bought[b] = [nonce |-> n, balance |-> v, root |-> s[b].root]
      BY Zenon, <1>3, <1>9
    <3> HIDE DEF n, v
    <3>2. bought[b].nonce = n /\ bought[b].balance = v /\ bought[b].root = s[b].root
      BY <3>1
    <3> QED BY Zenon, <3>2 DEF n, v
  <2> QED BY Zenon, <1>5, <1>9, <2>2 DEF Called
<1>10. ASSUME NEW b \in Accounts PROVE done[b] = Paid(s, x)[b]
  BY Zenon, <1>7, <1>9 DEF Paid
<1>11. done = Paid(s, x)
  BY Zenon, <1>8, <1>10 DEF Paid
<1> QED BY Zenon, <1>1, <1>2, <1>11

-----------------------------------------------------------------------------
(* What the threads keep apart.                                            *)

(* The transaction of a thread is the first of its sender, and touches     *)
(* nothing that one of another sender touches.                             *)
LEMMA Apart ==
    ASSUME SharedTypeOK, PendingInv, RunInv, NEW t \in Threads, pc[t] # "idle"
    PROVE  /\ tx[t] \in Transactions /\ tx[t].from \in Accounts
           /\ pending[tx[t].from] # << >> /\ tx[t] = pending[tx[t].from][1]
           /\ 1 \in DOMAIN pending[tx[t].from]
           /\ \A a \in Accounts : \A i \in DOMAIN pending[a] :
                 a # tx[t].from => Touched(tx[t]) \cap Touched(pending[a][i]) = {}
           /\ \A u \in Threads : pc[u] # "idle" /\ u # t => 
                 tx[u].from # tx[t].from /\ Touched(tx[t]) \cap Touched(tx[u]) = {}
<1>1. \A u \in Threads : pc[u] # "idle" =>
        /\ tx[u] \in Transactions /\ tx[u].from \in Accounts
        /\ pending[tx[u].from] # << >> /\ tx[u] = pending[tx[u].from][1]
  BY DEF SharedTypeOK, RunInv, Transactions
<1>2. \A a \in Accounts : pending[a] # << >> => 1 \in DOMAIN pending[a]
  <2> SUFFICES ASSUME NEW a \in Accounts, pending[a] # << >> PROVE 1 \in DOMAIN pending[a]
    BY Zenon
  <2>1. pending[a] \in Seq(Transactions)
    BY DEF SharedTypeOK
  <2> QED BY <2>1
<1>3. \A a \in Accounts : \A i \in DOMAIN pending[a] :
        a # tx[t].from => Touched(tx[t]) \cap Touched(pending[a][i]) = {}
  <2>1. \A a, b \in Accounts : \A i \in DOMAIN pending[a], j \in DOMAIN pending[b] :
          a # b => Touched(pending[a][i]) \cap Touched(pending[b][j]) = {}
    BY Zenon DEF PendingInv, Independent
  <2>2. /\ tx[t].from \in Accounts /\ 1 \in DOMAIN pending[tx[t].from]
        /\ tx[t] = pending[tx[t].from][1]
    BY Zenon, <1>1, <1>2
  <2> SUFFICES ASSUME NEW a \in Accounts, NEW i \in DOMAIN pending[a], a # tx[t].from
               PROVE  Touched(tx[t]) \cap Touched(pending[a][i]) = {}
    BY Zenon
  <2>3. Touched(pending[tx[t].from][1]) \cap Touched(pending[a][i]) = {}
    BY Zenon, <2>1, <2>2
  <2> QED BY Zenon, <2>2, <2>3
<1>4. ASSUME NEW u \in Threads, pc[u] # "idle", u # t
      PROVE  tx[u].from # tx[t].from /\ Touched(tx[t]) \cap Touched(tx[u]) = {}
  <2>1. tx[u].from # tx[t].from
    BY Zenon, <1>4 DEF RunInv, Runs
  <2> QED BY Zenon, <1>1, <1>2, <1>3, <1>4, <2>1
<1> QED BY Zenon, <1>1, <1>2, <1>3, <1>4

(* A thread goes on with its transaction.  It writes to the trie only what *)
(* it touches, and gets objects only of that and of the coinbase.          *)
WorksOn(t, l, o, d) ==
    /\ pc[t] # "idle" /\ l \in Labels /\ l # "idle" /\ pc' = [pc EXCEPT ![t] = l]
    /\ stateObjects' = [stateObjects EXCEPT ![t] = o]
    /\ dirties' = [dirties EXCEPT ![t] = d]
    /\ UNCHANGED <<tx, txs, pending>>
    /\ trie' \in [Accounts -> Data]
    /\ \A b \in Accounts : b \notin Touched(tx[t]) => trie'[b] = trie[b]
    /\ DOMAIN o \subseteq Accounts
    /\ \A b \in DOMAIN o :
          /\ o[b] \in Data
          /\ \/ b \in Touched(tx[t])
             \/ (b \in DOMAIN stateObjects[t] /\ o[b] = stateObjects[t][b])
             \/ b = coinbase /\ o[b] = trie[b]
    /\ Executing(Executed, tx[t], l, o, d, trie')

(* That keeps the invariant.                                               *)
LEMMA WorkKeeps ==
    ASSUME SharedInv, NEW t \in Threads, NEW l, NEW o, NEW d, WorksOn(t, l, o, d)
    PROVE  SharedInv'
<1>1. /\ tx' = tx /\ txs' = txs /\ pending' = pending
      /\ pc[t] # "idle" /\ l \in Labels /\ l # "idle" /\ pc' = [pc EXCEPT ![t] = l]
      /\ stateObjects' = [stateObjects EXCEPT ![t] = o] /\ dirties' = [dirties EXCEPT ![t] = d]
  BY Zenon DEF WorksOn
<1>2. SharedTypeOK /\ BlockInv /\ PendingInv /\ RunInv /\ ThreadInv /\ TrieInv /\ ObjectInv
  BY Zenon DEF SharedInv
<1>3. Executed' = Executed
  BY Zenon, <1>1 DEF Executed
<1>4. /\ pc' \in [Threads -> Labels]
      /\ stateObjects' = [u \in Threads |-> stateObjects'[u]]
      /\ pc'[t] = l /\ stateObjects'[t] = o /\ dirties'[t] = d
      /\ \A u \in Threads : u # t =>
            pc'[u] = pc[u] /\ stateObjects'[u] = stateObjects[u] /\ dirties'[u] = dirties[u]
  BY <1>1, <1>2 DEF SharedTypeOK
<1>5. \A u \in Threads : \A a : Runs(u, a)' <=> Runs(u, a)
  BY Zenon, <1>1, <1>4 DEF Runs
<1>6. \A u \in Threads : pc'[u] # "idle" <=> pc[u] # "idle"
  BY Zenon, <1>1, <1>4
<1>7. d \subseteq Touched(tx[t]) /\ Touched(tx[t]) \subseteq Accounts
  <2>1. tx[t] \in Transactions
    BY <1>2 DEF SharedTypeOK
  <2>2. d \subseteq Touched(tx[t])
    BY Zenon DEF WorksOn, Executing
  <2> QED BY Zenon, <2>1, <2>2, TouchedAccounts
<1>8. SharedTypeOK'
  <2>1. dirties' \in [Threads -> SUBSET Accounts]
    BY <1>1, <1>2, <1>7 DEF SharedTypeOK
  <2>2. ASSUME NEW u \in Threads
        PROVE  /\ DOMAIN stateObjects'[u] \subseteq Accounts
               /\ \A b \in DOMAIN stateObjects'[u] : stateObjects'[u][b] \in Data
    <3>1. CASE u = t
      BY Zenon, <1>4, <3>1 DEF WorksOn
    <3>2. CASE u # t
      BY Zenon, <1>2, <1>4, <3>2 DEF SharedTypeOK
    <3> QED BY Zenon, <3>1, <3>2
  <2>3. trie' \in [Accounts -> Data]
    BY Zenon DEF WorksOn
  <2> QED BY Zenon, <1>1, <1>2, <1>4, <2>1, <2>2, <2>3 DEF SharedTypeOK
<1>9. BlockInv' /\ PendingInv'
  BY Zenon, <1>1, <1>2, <1>3 DEF BlockInv, PendingInv
<1>10. RunInv'
  <2>1. \A u \in Threads : pc'[u] # "idle" => pending'[tx'[u].from] # << >> /\ tx'[u] = pending'[tx'[u].from][1]
    BY Zenon, <1>1, <1>2, <1>6 DEF RunInv
  <2>2. ASSUME NEW u \in Threads, NEW v \in Threads, pc'[u] # "idle", Runs(v, tx[u].from)'
        PROVE  u = v
    <3>1. pc[u] # "idle" /\ pc[v] # "idle" /\ tx[v].from = tx[u].from
      BY Zenon, <1>1, <1>6, <2>2 DEF Runs
    <3> QED BY Zenon, <1>2, <3>1 DEF RunInv, Runs
  <2> QED BY Zenon, <2>1, <2>2 DEF RunInv
<1>11. ThreadInv'
  <2> SUFFICES ASSUME NEW u \in Threads
               PROVE  IF pc'[u] = "idle" THEN dirties'[u] = {}
                      ELSE Executing(Executed', tx'[u], pc'[u], stateObjects'[u], dirties'[u], trie')
    BY Zenon DEF ThreadInv
  <2>1. CASE u = t
    <3>1. Executing(Executed, tx[t], l, o, d, trie')
      BY Zenon DEF WorksOn
    <3> QED BY Zenon, <1>1, <1>3, <1>4, <2>1, <3>1
  <2>2. CASE u # t /\ pc[u] = "idle"
    BY Zenon, <1>2, <1>4, <2>2 DEF ThreadInv
  <2>3. CASE u # t /\ pc[u] # "idle"
    <3>1. Executing(Executed, tx[u], pc[u], stateObjects[u], dirties[u], trie)
      BY Zenon, <1>2, <2>3 DEF ThreadInv
    <3>2. Touched(tx[t]) \cap Touched(tx[u]) = {} /\ tx[u] \in Transactions
      BY Zenon, <1>1, <1>2, <2>3, Apart
    <3>3. Touched(tx[u]) \subseteq Accounts
      BY Zenon, <3>2, TouchedAccounts
    <3>4. \A b \in Touched(tx[u]) : trie'[b] = trie[b]
      BY Zenon, <3>2, <3>3 DEF WorksOn
    <3>5. Executing(Executed, tx[u], pc[u], stateObjects[u], dirties[u], trie')
      BY Zenon, <3>1, <3>4 DEF Executing
    <3> QED BY Zenon, <1>1, <1>3, <1>4, <2>3, <3>5
  <2> QED BY Zenon, <2>1, <2>2, <2>3
<1>12. TrieInv'
  <2> SUFFICES ASSUME NEW b \in Accounts, \A u \in Threads : pc'[u] # "idle" => b \notin Touched(tx'[u])
               PROVE  trie'[b] = Executed'[b]
    BY Zenon DEF TrieInv
  <2>1. \A u \in Threads : pc[u] # "idle" => b \notin Touched(tx[u])
    BY Zenon, <1>1, <1>6
  <2>2. trie[b] = Executed[b] /\ trie'[b] = trie[b]
    BY Zenon, <1>1, <1>2, <2>1 DEF TrieInv, WorksOn
  <2> QED BY Zenon, <1>3, <2>2
<1>13. ASSUME NEW a \in Accounts, NEW u \in Threads,
              pending[a] # << >>, \A v \in Threads : ~Runs(v, a),
              NEW b \in Touched(pending[a][1]), b \in DOMAIN stateObjects'[u]
       PROVE  stateObjects'[u][b] = Executed[b]
  <2>1. b \in DOMAIN stateObjects[u] => stateObjects[u][b] = Executed[b]
    BY Zenon, <1>2, <1>13 DEF ObjectInv
  <2>2. pending[a] \in Seq(Transactions)
    BY <1>2 DEF SharedTypeOK
  <2>3. 1 \in DOMAIN pending[a] /\ pending[a][1] \in Transactions
    BY <1>13, <2>2
  <2>4. b \in Accounts
    BY Zenon, <2>3, TouchedAccounts
  <2>5. ASSUME NEW v \in Threads, pc[v] # "idle" PROVE b \notin Touched(tx[v])
    <3>1. a # tx[v].from
      BY Zenon, <1>13, <2>5 DEF Runs
    <3>2. Touched(tx[v]) \cap Touched(pending[a][1]) = {}
      BY Zenon, <1>2, <2>3, <2>5, <3>1, Apart
    <3> QED BY Zenon, <3>2
  <2>6. trie[b] = Executed[b]
    BY Zenon, <1>2, <2>4, <2>5 DEF TrieInv
  <2>7. CASE u # t
    BY Zenon, <1>4, <1>13, <2>1, <2>7
  <2>8. CASE u = t
    <3>1. \/ (b \in DOMAIN stateObjects[t] /\ o[b] = stateObjects[t][b])
          \/ b = coinbase /\ o[b] = trie[b]
      BY Zenon, <1>1, <1>4, <1>13, <2>5, <2>8 DEF WorksOn
    <3> QED BY Zenon, <1>4, <2>1, <2>6, <2>8, <3>1
  <2> QED BY Zenon, <2>7, <2>8
<1>14. ASSUME NEW a \in Accounts, NEW u \in Threads, Len(pending[a]) = 2,
              NEW i \in DOMAIN pending[a], NEW b \in Touched(pending[a][i]),
              b \in DOMAIN stateObjects'[u]
       PROVE  Runs(u, a) /\ b \in Touched(tx[u])
  <2>1. b \in DOMAIN stateObjects[u] => Runs(u, a) /\ b \in Touched(tx[u])
    BY Zenon, <1>2, <1>14 DEF ObjectInv
  <2>2. CASE u # t
    BY Zenon, <1>4, <1>14, <2>1, <2>2
  <2>3. CASE u = t /\ b \in Touched(tx[t])
    <3>1. a = tx[t].from
      <4>1. a # tx[t].from => Touched(tx[t]) \cap Touched(pending[a][i]) = {}
        BY Zenon, <1>1, <1>2, Apart
      <4> QED BY Zenon, <2>3, <4>1
    <3> QED BY Zenon, <1>1, <2>3, <3>1 DEF Runs
  <2>4. CASE u = t /\ b \notin Touched(tx[t])
    <3>1. b # coinbase
      <4>1. coinbase \in Touched(pending[a][i]) => Len(pending[a]) = 1
        BY Zenon, <1>2 DEF PendingInv, Independent
      <4>2. Len(pending[a]) # 1
        BY <1>14
      <4> QED BY Zenon, <4>1, <4>2
    <3>2. b \in DOMAIN stateObjects[t]
      BY Zenon, <1>4, <1>14, <2>4, <3>1 DEF WorksOn
    <3> QED BY Zenon, <2>1, <2>4, <3>2
  <2> QED BY Zenon, <2>2, <2>3, <2>4
<1>15. ObjectInv'
  <2>1. ASSUME NEW a \in Accounts, NEW u \in Threads,
               pending'[a] # << >>, \A v \in Threads : ~Runs(v, a)',
               NEW b \in Touched(pending'[a][1]), b \in DOMAIN stateObjects'[u]
        PROVE  stateObjects'[u][b] = Executed'[b]
    <3>1. \A v \in Threads : ~Runs(v, a)
      BY Zenon, <1>5, <2>1
    <3>2. pending[a] # << >> /\ b \in Touched(pending[a][1])
      BY Zenon, <1>1, <2>1
    <3>3. stateObjects'[u][b] = Executed[b]
      BY Zenon, <1>13, <2>1, <3>1, <3>2
    <3> QED BY Zenon, <1>3, <3>3
  <2>2. ASSUME NEW a \in Accounts, NEW u \in Threads, Len(pending'[a]) = 2,
               NEW i \in DOMAIN pending'[a], NEW b \in Touched(pending'[a][i]),
               b \in DOMAIN stateObjects'[u]
        PROVE  Runs(u, a)' /\ b \in Touched(tx'[u])
    BY Zenon, <1>1, <1>5, <1>14, <2>2
  <2>3. ASSUME NEW a \in Accounts, NEW u \in Threads
        PROVE  /\ pending'[a] # << >> /\ (\A v \in Threads : ~Runs(v, a)') =>
                     \A b \in Touched(pending'[a][1]) :
                        b \in DOMAIN stateObjects'[u] => stateObjects'[u][b] = Executed'[b]
               /\ Len(pending'[a]) = 2 =>
                     \A i \in DOMAIN pending'[a] : \A b \in Touched(pending'[a][i]) :
                        b \in DOMAIN stateObjects'[u] => Runs(u, a)' /\ b \in Touched(tx'[u])
    BY Zenon, <2>1, <2>2
  <2> QED BY Zenon, <2>3 DEF ObjectInv
<1> QED BY Zenon, <1>8, <1>9, <1>10, <1>11, <1>12, <1>15 DEF SharedInv

(* What is left of a list of at most two transactions.                     *)
LEMMA TailOf ==
    ASSUME NEW q \in Seq(Transactions), q # << >>, Len(q) <= 2
    PROVE  /\ Tail(q) \in Seq(Transactions) /\ q[1] = Head(q)
           /\ Len(Tail(q)) <= 1 /\ Len(Tail(q)) # 2
           /\ Tail(q) # << >> =>
                 /\ Len(q) = 2 /\ Len(Tail(q)) = 1 /\ DOMAIN Tail(q) = {1}
                 /\ 2 \in DOMAIN q /\ 1 \in DOMAIN q /\ Tail(q)[1] = q[2]
           /\ Tail(q) = << >> => DOMAIN Tail(q) = {}
<1>1. /\ Tail(q) \in Seq(Transactions) /\ Len(Tail(q)) = Len(q) - 1
      /\ \A i \in 1..Len(Tail(q)) : Tail(q)[i] = q[i + 1]
  BY Zenon, HeadTailProperties
<1>2. /\ Len(q) \in Nat /\ Len(q) # 0 /\ DOMAIN q = 1..Len(q)
      /\ Len(Tail(q)) = 0 <=> Tail(q) = << >>
  BY Zenon, <1>1, EmptySeq, LenProperties
<1>3. q[1] = Head(q)
  OBVIOUS
<1>4. CASE Len(q) = 1
  <2>1. Len(Tail(q)) = 0 /\ 0 <= 1 /\ 0 # 2
    BY <1>1, <1>4
  <2>2. DOMAIN Tail(q) = {}
    <3>1. 1..0 = {}
      OBVIOUS
    <3> QED BY Zenon, <1>1, <2>1, <3>1, LenProperties
  <2> QED BY Zenon, <1>1, <1>2, <1>3, <2>1, <2>2
<1>5. CASE Len(q) = 2
  <2>1. Len(Tail(q)) = 1 /\ 1 # 0 /\ 1 <= 1 /\ 1 # 2
    BY <1>1, <1>5
  <2>2. 1..1 = {1} /\ 2 \in DOMAIN q /\ 1 \in DOMAIN q
    BY <1>2, <1>5
  <2>3. DOMAIN Tail(q) = {1}
    BY Zenon, <1>1, <2>1, <2>2, LenProperties
  <2>4. Tail(q)[1] = q[2]
    <3>1. 1 \in 1..1 /\ 1 + 1 = 2
      OBVIOUS
    <3> QED BY Zenon, <1>1, <2>1, <3>1
  <2> QED BY Zenon, <1>1, <1>2, <1>3, <1>5, <2>1, <2>2, <2>3, <2>4
<1>6. Len(q) = 1 \/ Len(q) = 2
  BY <1>2
<1> QED BY Zenon, <1>4, <1>5, <1>6

(* What a transaction costs is a number.                                   *)
LEMMA CostNat == ASSUME NEW x \in Transactions PROVE Cost(x) \in Nat
BY BatchesAssumption DEF Cost, Transactions

(* A sender other than the coinbase pays at most the cost.                 *)
LEMMA FundsLeft ==
    ASSUME NEW s \in [Accounts -> Data], NEW x \in Transactions, x.from # coinbase, x.price <= Funds
    PROVE  /\ Paid(s, x)[x.from].balance >= s[x.from].balance - Cost(x)
           /\ Paid(s, x)[x.from].balance <= s[x.from].balance
<1>1. /\ x.price \in Nat /\ x.value \in Nat /\ x.from \in Accounts /\ Cost(x) = x.price + x.value
      /\ s[x.from].balance \in Int
  BY DEF Transactions, Cost, Data
<1>2. Called(s, x)[x.from].balance = s[x.from].balance - (x.price + x.value)
                                       + (IF x.from = x.to THEN x.value ELSE 0)
  BY <1>1 DEF Called
<1>3. Paid(s, x)[x.from].balance = Called(s, x)[x.from].balance + 0
  BY <1>1 DEF Paid
<1> QED BY <1>1, <1>2, <1>3

(* A thread is at the end of its transaction, which the block has or has   *)
(* not got.                                                                *)
Ends(t) ==
    /\ pc[t] \in {"append", "revert"} /\ pc' = [pc EXCEPT ![t] = "idle"]
    /\ pending' = [pending EXCEPT ![tx[t].from] = Tail(@)]
    /\ UNCHANGED <<trie, stateObjects, dirties, tx>>
    /\ txs' \in Seq(Transactions)
    /\ BlockInv'
    /\ \A b \in Accounts :
          Executed'[b] = IF b \in Touched(tx[t]) THEN Local(Executed, tx[t], pc[t])[b] ELSE Executed[b]

(* That keeps the invariant.                                               *)
LEMMA EndKeeps ==
    ASSUME SharedInv, NEW t \in Threads, Ends(t)
    PROVE  SharedInv'
<1> DEFINE a0 == tx[t].from
           q == pending[a0]
           s == Executed
<1>1. /\ pc[t] # "idle" /\ pc' = [pc EXCEPT ![t] = "idle"]
      /\ pending' = [pending EXCEPT ![a0] = Tail(@)]
      /\ trie' = trie /\ stateObjects' = stateObjects /\ dirties' = dirties /\ tx' = tx
  BY DEF Ends
<1>2. SharedTypeOK /\ BlockInv /\ PendingInv /\ RunInv /\ ThreadInv /\ TrieInv /\ ObjectInv
  BY Zenon DEF SharedInv
<1>3. /\ tx[t] \in Transactions /\ a0 \in Accounts /\ q # << >> /\ tx[t] = q[1] /\ 1 \in DOMAIN q
      /\ \A a \in Accounts : \A i \in DOMAIN pending[a] :
            a # a0 => Touched(tx[t]) \cap Touched(pending[a][i]) = {}
      /\ \A u \in Threads : pc[u] # "idle" /\ u # t =>
            tx[u].from # a0 /\ Touched(tx[t]) \cap Touched(tx[u]) = {}
  BY Zenon, <1>1, <1>2, Apart
<1>4. q \in Seq(Transactions) /\ Len(q) <= 2
  <2>1. q \in Seq(Transactions)
    BY <1>2, <1>3 DEF SharedTypeOK
  <2>2. Len(q) <= 2
    BY Zenon, <1>2, <1>3 DEF PendingInv, Independent
  <2> QED BY <2>1, <2>2
<1>5. /\ Tail(q) \in Seq(Transactions) /\ Len(Tail(q)) <= 1 /\ Len(Tail(q)) # 2
      /\ Tail(q) # << >> =>
            /\ Len(q) = 2 /\ Len(Tail(q)) = 1 /\ DOMAIN Tail(q) = {1}
            /\ 2 \in DOMAIN q /\ 1 \in DOMAIN q /\ Tail(q)[1] = q[2]
      /\ Tail(q) = << >> => DOMAIN Tail(q) = {}
  BY Zenon, <1>3, <1>4, TailOf
<1>6. /\ pc' \in [Threads -> Labels] /\ pc'[t] = "idle"
      /\ \A u \in Threads : u # t => pc'[u] = pc[u]
  BY <1>1, <1>2 DEF SharedTypeOK, Labels
<1>7. /\ pending' \in [Accounts -> Seq(Transactions)] /\ pending'[a0] = Tail(q)
      /\ \A a \in Accounts : a # a0 => pending'[a] = pending[a]
  <2>1. pending \in [Accounts -> Seq(Transactions)]
    BY Zenon, <1>2 DEF SharedTypeOK
  <2> HIDE DEF q, a0
  <2> QED BY <1>1, <1>3, <1>5, <2>1 DEF q
<1>8. \A u \in Threads : pc'[u] # "idle" => u # t /\ pc[u] # "idle" /\ pc'[u] = pc[u] /\ tx[u].from # a0
  BY Zenon, <1>3, <1>6
<1>9. SharedTypeOK'
  <2>1. txs' \in Seq(Transactions)
    BY Zenon DEF Ends
  <2> QED BY Zenon, <1>1, <1>2, <1>6, <1>7, <2>1 DEF SharedTypeOK
<1>10. Touched(tx[t]) \subseteq Accounts /\ a0 \in Touched(tx[t])
  BY Zenon, <1>3, TouchedAccounts
<1>11. /\ Executing(s, tx[t], pc[t], stateObjects[t], dirties[t], trie)
       /\ dirties[t] = {}
  <2>1. Executing(s, tx[t], pc[t], stateObjects[t], dirties[t], trie)
    BY Zenon, <1>1, <1>2 DEF ThreadInv
  <2>2. pc[t] \notin {"call", "fee", "finalise"}
    BY DEF Ends
  <2> QED BY Zenon, <2>1, <2>2 DEF Executing
<1>12. /\ \A b \in Touched(tx[t]) : trie[b] = Executed'[b]
       /\ \A b \in Touched(tx[t]) : b \in DOMAIN stateObjects[t] => stateObjects[t][b] = Executed'[b]
       /\ \A b \in Accounts : b \notin Touched(tx[t]) => Executed'[b] = s[b]
  <2>1. \A b \in Touched(tx[t]) : Executed'[b] = Local(s, tx[t], pc[t])[b]
    BY Zenon, <1>10 DEF Ends
  <2>2. \A b \in Touched(tx[t]) : trie[b] = Local(s, tx[t], pc[t])[b]
    BY Zenon, <1>11 DEF Executing
  <2>3. \A b \in Touched(tx[t]) : b \in DOMAIN stateObjects[t] => stateObjects[t][b] = Local(s, tx[t], pc[t])[b]
    BY Zenon, <1>11 DEF Executing
  <2>4. \A b \in Accounts : b \notin Touched(tx[t]) => Executed'[b] = s[b]
    BY Zenon DEF Ends
  <2> QED BY Zenon, <2>1, <2>2, <2>3, <2>4
<1>13. Tail(q) # << >> => Cost(q[2]) <= Executed'[a0].balance /\ Executed'[a0].balance <= Funds /\ Cost(q[2]) <= Funds
  <2> SUFFICES ASSUME Tail(q) # << >>
               PROVE  Cost(q[2]) <= Executed'[a0].balance /\ Executed'[a0].balance <= Funds /\ Cost(q[2]) <= Funds
    BY Zenon
  <2>1. q[2] \in Transactions /\ Costs(q) = Cost(q[1]) + Cost(q[2])
    BY <1>4, <1>5 DEF Costs
  <2>2. Costs(q) <= s[a0].balance /\ s[a0].balance <= Funds
    BY Zenon, <1>2, <1>3 DEF PendingInv
  <2>3. s \in [Accounts -> Data] /\ s[a0].balance \in Int /\ Funds \in Nat
    BY <1>2, <1>3, BatchesAssumption DEF BlockInv, Data
  <2>4. Cost(q[1]) \in Nat /\ Cost(q[2]) \in Nat
    BY Zenon, <1>3, <2>1, CostNat
  <2>5. Executed'[a0] = Local(s, tx[t], pc[t])[a0]
    BY Zenon, <1>10 DEF Ends
  <2>6. CASE pc[t] = "revert"
    <3>1. Executed'[a0] = s[a0]
      BY <2>5, <2>6 DEF Local
    <3> HIDE DEF q, s, a0
    <3> QED BY <2>1, <2>2, <2>3, <2>4, <3>1
  <2>7. CASE pc[t] = "append"
    <3>1. Executed'[a0] = Paid(s, tx[t])[a0]
      BY <2>5, <2>7 DEF Local
    <3>2. tx[t].price <= Funds
      BY <1>11, <2>7 DEF Executing
    <3>3. a0 # coinbase
      <4>1. Len(q) # 1
        BY <1>5
      <4> QED BY Zenon, <1>2, <1>3, <1>10, <4>1 DEF PendingInv, Independent
    <3>4. /\ Paid(s, tx[t])[a0].balance >= s[a0].balance - Cost(tx[t])
          /\ Paid(s, tx[t])[a0].balance <= s[a0].balance
      BY Zenon, <1>3, <2>3, <3>2, <3>3, FundsLeft
    <3>5. Paid(s, tx[t])[a0].balance \in Int
      <4>1. Paid(s, tx[t]) \in [Accounts -> Data]
        BY Zenon, <1>3, <2>3, StageTypes
      <4> QED BY <1>3, <4>1 DEF Data
    <3>6. Cost(tx[t]) = Cost(q[1])
      BY Zenon, <1>3
    <3> HIDE DEF q, s, a0
    <3> QED BY <2>1, <2>2, <2>3, <2>4, <3>1, <3>4, <3>5, <3>6
  <2> QED BY <2>6, <2>7 DEF Ends
<1>14. /\ \A a \in Accounts : a # a0 /\ pending[a] # << >> => Executed'[a] = s[a]
       /\ \A a \in Accounts : \A i \in DOMAIN pending[a] : a # a0 =>
             \A b \in Touched(pending[a][i]) : Executed'[b] = s[b]
  <2>1. ASSUME NEW a \in Accounts, NEW i \in DOMAIN pending[a], a # a0
        PROVE  \A b \in Touched(pending[a][i]) : Executed'[b] = s[b]
    <3>1. pending[a][i] \in Transactions
      <4>1. pending[a] \in Seq(Transactions)
        BY <1>2 DEF SharedTypeOK
      <4> QED BY <4>1
    <3>2. Touched(pending[a][i]) \subseteq Accounts
      BY Zenon, <3>1, TouchedAccounts
    <3> QED BY Zenon, <1>3, <1>12, <2>1, <3>2
  <2>2. ASSUME NEW a \in Accounts, a # a0, pending[a] # << >> PROVE Executed'[a] = s[a]
    <3>1. pending[a] \in Seq(Transactions)
      BY <1>2 DEF SharedTypeOK
    <3>2. 1 \in DOMAIN pending[a] /\ pending[a][1] \in Transactions
      BY <2>2, <3>1
    <3>3. pending[a][1].from = a
      BY Zenon, <1>2, <3>2 DEF PendingInv
    <3>4. a \in Touched(pending[a][1])
      BY Zenon, <3>2, <3>3, TouchedAccounts
    <3> QED BY Zenon, <2>1, <2>2, <3>2, <3>4
  <2> QED BY Zenon, <2>1, <2>2
<1>15. ASSUME NEW a \in Accounts, NEW i \in DOMAIN pending'[a]
       PROVE  \E k \in DOMAIN pending[a] :
                 pending'[a][i] = pending[a][k] /\ (a = a0 => Len(pending[a]) = 2)
  <2>1. CASE a = a0
    BY Zenon, <1>5, <1>7, <1>15, <2>1
  <2>2. CASE a # a0
    BY Zenon, <1>7, <1>15, <2>2
  <2> QED BY Zenon, <2>1, <2>2
<1>16. PendingInv'
  <2>1. ASSUME NEW a \in Accounts
        PROVE  /\ Len(pending'[a]) <= 2
               /\ pending'[a] # << >> => Costs(pending'[a]) <= Funds
               /\ \A i \in DOMAIN pending'[a] : coinbase \in Touched(pending'[a][i]) => Len(pending'[a]) = 1
               /\ \A i \in DOMAIN pending'[a] : pending'[a][i].from = a
               /\ pending'[a] # << >> => Costs(pending'[a]) <= Executed'[a].balance /\ Executed'[a].balance <= Funds
    <3>1. CASE a = a0
      <4>1. Len(Tail(q)) <= 2
        <5>1. Len(Tail(q)) \in Nat
          BY <1>5
        <5> QED BY <1>5, <5>1
      <4>2. Tail(q) # << >> => Costs(Tail(q)) = Cost(q[2])
        <5>1. Tail(q) # << >> => Len(Tail(q)) # 2 /\ Tail(q)[1] = q[2]
          BY Zenon, <1>5
        <5> QED BY Zenon, <5>1 DEF Costs
      <4>3. \A i \in DOMAIN Tail(q) : Len(Tail(q)) = 1
        BY Zenon, <1>5
      <4>4. \A i \in DOMAIN Tail(q) : Tail(q)[i].from = a0
        <5>1. Tail(q) # << >> => q[2].from = a0
          BY Zenon, <1>2, <1>3, <1>5 DEF PendingInv
        <5>2. \A i \in DOMAIN Tail(q) : Tail(q) # << >> /\ i = 1
          <6> HIDE DEF q
          <6> QED BY Zenon, <1>5
        <5> QED BY Zenon, <1>5, <5>1, <5>2
      <4> QED BY Zenon, <1>7, <1>13, <3>1, <4>1, <4>2, <4>3, <4>4
    <3>2. CASE a # a0
      <4>1. pending'[a] = pending[a]
        BY Zenon, <1>7, <3>2
      <4>2. pending[a] # << >> => Executed'[a] = s[a]
        BY Zenon, <1>14, <3>2
      <4> QED BY Zenon, <1>2, <4>1, <4>2 DEF PendingInv, Independent
    <3> QED BY Zenon, <3>1, <3>2
  <2>2. ASSUME NEW a \in Accounts, NEW b \in Accounts,
               NEW i \in DOMAIN pending'[a], NEW j \in DOMAIN pending'[b], a # b
        PROVE  Touched(pending'[a][i]) \cap Touched(pending'[b][j]) = {}
    <3>1. PICK k \in DOMAIN pending[a] : pending'[a][i] = pending[a][k]
      BY Zenon, <1>15
    <3>2. PICK l \in DOMAIN pending[b] : pending'[b][j] = pending[b][l]
      BY Zenon, <1>15
    <3>3. Touched(pending[a][k]) \cap Touched(pending[b][l]) = {}
      BY Zenon, <1>2, <2>2 DEF PendingInv, Independent
    <3> QED BY Zenon, <3>1, <3>2, <3>3
  <2>3. Independent(pending')
    BY Zenon, <2>1, <2>2 DEF Independent
  <2> QED BY Zenon, <2>1, <2>3 DEF PendingInv
<1>17. RunInv'
  <2>1. ASSUME NEW u \in Threads, pc'[u] # "idle"
        PROVE  pending'[tx'[u].from] # << >> /\ tx'[u] = pending'[tx'[u].from][1]
    <3>1. pc[u] # "idle" /\ tx[u].from # a0
      BY Zenon, <1>8, <2>1
    <3>2. tx[u].from \in Accounts
      BY <1>2 DEF SharedTypeOK, Transactions
    <3>3. pending[tx[u].from] # << >> /\ tx[u] = pending[tx[u].from][1]
      BY Zenon, <1>2, <3>1 DEF RunInv
    <3> QED BY Zenon, <1>1, <1>7, <3>1, <3>2, <3>3
  <2>2. ASSUME NEW u \in Threads, NEW v \in Threads, pc'[u] # "idle", Runs(v, tx[u].from)'
        PROVE  u = v
    <3>1. pc'[v] # "idle" /\ tx[v].from = tx[u].from
      BY Zenon, <1>1, <2>2 DEF Runs
    <3>2. pc[u] # "idle" /\ pc[v] # "idle"
      BY Zenon, <1>8, <2>2, <3>1
    <3> QED BY Zenon, <1>2, <3>1, <3>2 DEF RunInv, Runs
  <2> QED BY Zenon, <2>1, <2>2 DEF RunInv
<1>18. ThreadInv'
  <2> SUFFICES ASSUME NEW u \in Threads
               PROVE  IF pc'[u] = "idle" THEN dirties'[u] = {}
                      ELSE Executing(Executed', tx'[u], pc'[u], stateObjects'[u], dirties'[u], trie')
    BY Zenon DEF ThreadInv
  <2>1. CASE u = t
    BY Zenon, <1>1, <1>6, <1>11, <2>1
  <2>2. CASE u # t /\ pc[u] = "idle"
    BY Zenon, <1>1, <1>2, <1>6, <2>2 DEF ThreadInv
  <2>3. CASE u # t /\ pc[u] # "idle"
    <3> DEFINE x == tx[u]
               l == pc[u]
    <3>1. Executing(s, x, l, stateObjects[u], dirties[u], trie)
      BY Zenon, <1>2, <2>3 DEF ThreadInv
    <3>2. Touched(tx[t]) \cap Touched(x) = {} /\ x \in Transactions
      BY Zenon, <1>2, <1>3, <2>3, Apart
    <3>3. Touched(x) \subseteq Accounts /\ x.from \in Touched(x)
      BY Zenon, <3>2, TouchedAccounts
    <3>4. \A b \in Touched(x) : Executed'[b] = s[b]
      BY Zenon, <1>12, <3>2, <3>3
    <3>5. \A b \in Touched(x) : Local(Executed', x, l)[b] = Local(s, x, l)[b]
      <4> SUFFICES ASSUME NEW b \in Touched(x) PROVE Local(Executed', x, l)[b] = Local(s, x, l)[b]
        BY Zenon
      <4>1. Executed'[b] = s[b] /\ b \in Accounts
        BY Zenon, <3>3, <3>4
      <4> HIDE DEF s, x, l
      <4>2. Bought(Executed', x)[b] = Bought(s, x)[b]
        BY Zenon, <4>1 DEF Bought
      <4>3. Called(Executed', x)[b] = Called(s, x)[b]
        BY Zenon, <4>1 DEF Called
      <4>4. Paid(Executed', x)[b] = Paid(s, x)[b]
        BY Zenon, <4>1, <4>3 DEF Paid
      <4> QED BY <4>1, <4>2, <4>3, <4>4 DEF Local
    <3> HIDE DEF x, l, s
    <3>6. Executed'[x.from] = s[x.from]
      BY Zenon, <3>3, <3>4
    <3>7. Executing(Executed', x, l, stateObjects[u], dirties[u], trie)
      BY Zenon, <3>1, <3>4, <3>5, <3>6 DEF Executing
    <3> QED BY Zenon, <1>1, <1>6, <2>3, <3>7 DEF x, l
  <2> QED BY Zenon, <2>1, <2>2, <2>3
<1>19. TrieInv'
  <2> SUFFICES ASSUME NEW b \in Accounts, \A u \in Threads : pc'[u] # "idle" => b \notin Touched(tx'[u])
               PROVE  trie'[b] = Executed'[b]
    BY Zenon DEF TrieInv
  <2>1. CASE b \in Touched(tx[t])
    BY Zenon, <1>1, <1>12, <2>1
  <2>2. CASE b \notin Touched(tx[t])
    <3>1. \A u \in Threads : pc[u] # "idle" => b \notin Touched(tx[u])
      BY Zenon, <1>1, <1>6, <2>2
    <3> QED BY Zenon, <1>1, <1>2, <1>12, <2>2, <3>1 DEF TrieInv
  <2> QED BY Zenon, <2>1, <2>2
<1>20. ObjectInv'
  <2>1. ASSUME NEW a \in Accounts, NEW u \in Threads,
               pending'[a] # << >>, \A v \in Threads : ~Runs(v, a)',
               NEW b \in Touched(pending'[a][1]), b \in DOMAIN stateObjects'[u]
        PROVE  stateObjects'[u][b] = Executed'[b]
    <3>1. CASE a = a0
      <4>1. Len(q) = 2 /\ 2 \in DOMAIN q /\ b \in Touched(q[2])
        BY Zenon, <1>5, <1>7, <2>1, <3>1
      <4>2. Runs(u, a0) /\ b \in Touched(tx[u])
        BY Zenon, <1>1, <1>2, <1>3, <2>1, <4>1 DEF ObjectInv
      <4>3. u = t
        BY Zenon, <1>3, <4>2 DEF Runs
      <4> QED BY Zenon, <1>1, <1>12, <2>1, <4>2, <4>3
    <3>2. CASE a # a0
      <4>1. pending'[a] = pending[a] /\ pending[a] # << >> /\ b \in Touched(pending[a][1])
        BY Zenon, <1>7, <2>1, <3>2
      <4>2. \A v \in Threads : ~Runs(v, a)
        BY Zenon, <1>1, <1>6, <2>1, <3>2 DEF Runs
      <4>3. stateObjects[u][b] = s[b]
        BY Zenon, <1>1, <1>2, <2>1, <4>1, <4>2 DEF ObjectInv
      <4>4. pending[a] \in Seq(Transactions)
        BY <1>2 DEF SharedTypeOK
      <4>5. 1 \in DOMAIN pending[a]
        BY <4>1, <4>4
      <4>6. Executed'[b] = s[b]
        BY Zenon, <1>14, <3>2, <4>1, <4>5
      <4> QED BY Zenon, <1>1, <4>3, <4>6
    <3> QED BY Zenon, <3>1, <3>2
  <2>2. ASSUME NEW a \in Accounts, NEW u \in Threads, Len(pending'[a]) = 2,
               NEW i \in DOMAIN pending'[a], NEW b \in Touched(pending'[a][i]),
               b \in DOMAIN stateObjects'[u]
        PROVE  Runs(u, a)' /\ b \in Touched(tx'[u])
    <3>1. a # a0
      <4>1. Len(Tail(q)) # 2
        BY Zenon, <1>5
      <4> QED BY Zenon, <1>7, <2>2, <4>1
    <3>2. pending'[a] = pending[a]
      BY Zenon, <1>7, <3>1
    <3>3. Runs(u, a) /\ b \in Touched(tx[u])
      BY Zenon, <1>1, <1>2, <2>2, <3>2 DEF ObjectInv
    <3>4. u # t
      BY Zenon, <3>1, <3>3 DEF Runs
    <3> QED BY Zenon, <1>1, <1>6, <3>3, <3>4 DEF Runs
  <2>3. ASSUME NEW a \in Accounts, NEW u \in Threads
        PROVE  /\ pending'[a] # << >> /\ (\A v \in Threads : ~Runs(v, a)') =>
                     \A b \in Touched(pending'[a][1]) :
                        b \in DOMAIN stateObjects'[u] => stateObjects'[u][b] = Executed'[b]
               /\ Len(pending'[a]) = 2 =>
                     \A i \in DOMAIN pending'[a] : \A b \in Touched(pending'[a][i]) :
                        b \in DOMAIN stateObjects'[u] => Runs(u, a)' /\ b \in Touched(tx'[u])
    BY Zenon, <2>1, <2>2
  <2> QED BY Zenon, <2>3 DEF ObjectInv
<1>21. BlockInv'
  BY Zenon DEF Ends
<1> QED BY Zenon, <1>9, <1>16, <1>17, <1>18, <1>19, <1>20, <1>21 DEF SharedInv

-----------------------------------------------------------------------------
(* The steps of a thread.                                                  *)

(* What holds of a thread in a transaction.                                *)
LEMMA AtWork ==
    ASSUME SharedInv, NEW t \in Threads, pc[t] # "idle"
    PROVE  /\ tx[t] \in Transactions /\ tx[t].from \in Accounts /\ tx[t].to \in Accounts
           /\ tx[t].price \in Nat /\ tx[t].value \in Nat
           /\ Executed \in [Accounts -> Data] /\ trie \in [Accounts -> Data]
           /\ Executing(Executed, tx[t], pc[t], stateObjects[t], dirties[t], trie)
           /\ Touched(tx[t]) \subseteq Accounts
           /\ tx[t].from \in Touched(tx[t]) /\ tx[t].to \in Touched(tx[t])
           /\ Cost(tx[t]) <= Executed[tx[t].from].balance
           /\ Executed[tx[t].from].balance <= Funds
           /\ Local(Executed, tx[t], pc[t]) \in [Accounts -> Data]
<1>1. SharedTypeOK /\ BlockInv /\ PendingInv /\ RunInv /\ ThreadInv
  BY Zenon DEF SharedInv
<1> DEFINE q == pending[tx[t].from]
<1>2. tx[t] \in Transactions /\ tx[t].from \in Accounts /\ q # << >> /\ tx[t] = q[1]
  BY Zenon, <1>1, Apart
<1>3. tx[t].to \in Accounts /\ tx[t].price \in Nat /\ tx[t].value \in Nat
  BY <1>2 DEF Transactions
<1>4. Executed \in [Accounts -> Data] /\ trie \in [Accounts -> Data]
  BY Zenon, <1>1 DEF BlockInv, SharedTypeOK
<1>5. Executing(Executed, tx[t], pc[t], stateObjects[t], dirties[t], trie)
  BY Zenon, <1>1 DEF ThreadInv
<1>6. /\ Touched(tx[t]) \subseteq Accounts
      /\ tx[t].from \in Touched(tx[t]) /\ tx[t].to \in Touched(tx[t])
  BY Zenon, <1>2, TouchedAccounts
<1>7. Costs(q) <= Executed[tx[t].from].balance /\ Executed[tx[t].from].balance <= Funds
  BY Zenon, <1>1, <1>2 DEF PendingInv
<1>8. Cost(tx[t]) <= Executed[tx[t].from].balance
  <2>1. Costs(q) = Cost(q[1]) \/ (Costs(q) = Cost(q[1]) + Cost(q[2]) /\ Len(q) = 2)
    BY Zenon DEF Costs
  <2>2. Cost(q[1]) \in Nat
    BY Zenon, <1>2, CostNat
  <2>3. Executed[tx[t].from].balance \in Int
    BY <1>2, <1>4 DEF Data
  <2>4. ASSUME Len(q) = 2 PROVE Cost(q[2]) \in Nat
    <3>1. q \in Seq(Transactions)
      BY <1>1, <1>2 DEF SharedTypeOK
    <3>2. q[2] \in Transactions
      BY <2>4, <3>1
    <3> QED BY Zenon, <3>2, CostNat
  <2> HIDE DEF q
  <2> QED BY <1>2, <1>7, <2>1, <2>2, <2>3, <2>4
<1>9. Local(Executed, tx[t], pc[t]) \in [Accounts -> Data]
  BY Zenon, <1>2, <1>4, StageTypes DEF Local
<1> QED BY Zenon, <1>2, <1>3, <1>4, <1>5, <1>6, <1>7, <1>8, <1>9

(* A thread reads what it has made of the accounts.                        *)
LEMMA ReadsLocal ==
    ASSUME SharedInv, NEW t \in Threads, pc[t] # "idle", NEW b \in Touched(tx[t])
    PROVE  getStateObject(t, b) = Local(Executed, tx[t], pc[t])[b]
<1>1. Executing(Executed, tx[t], pc[t], stateObjects[t], dirties[t], trie)
  BY Zenon, AtWork
<1>2. CASE b \in DOMAIN stateObjects[t]
  BY Zenon, <1>1, <1>2 DEF Executing, getStateObject
<1>3. CASE b \notin DOMAIN stateObjects[t]
  <2>1. Local(Executed, tx[t], pc[t])[b] = Executed[b] /\ trie[b] = Executed[b]
    BY Zenon, <1>1, <1>3 DEF Executing
  <2> QED BY Zenon, <1>3, <2>1 DEF getStateObject
<1> QED BY Zenon, <1>2, <1>3

(* o are the objects of thread t with those of f.                          *)
Gets(t, f, o) ==
    /\ DOMAIN o = DOMAIN f \cup DOMAIN stateObjects[t] /\ DOMAIN o \subseteq Accounts
    /\ \A b \in DOMAIN f : o[b] = f[b]
    /\ \A b \in DOMAIN stateObjects[t] : b \notin DOMAIN f => o[b] = stateObjects[t][b]
    /\ \A b \in DOMAIN o :
          /\ o[b] \in Data
          /\ b \in DOMAIN f \/ (b \in DOMAIN stateObjects[t] /\ o[b] = stateObjects[t][b])

LEMMA ObjectTypes ==
    ASSUME SharedInv, NEW t \in Threads, NEW f,
           \A b \in DOMAIN f : b \in Accounts /\ f[b] \in Data
    PROVE  Gets(t, f, With(stateObjects[t], f))
<1> DEFINE o == With(stateObjects[t], f)
<1>1. /\ DOMAIN o = DOMAIN f \cup DOMAIN stateObjects[t]
      /\ \A b \in DOMAIN f : o[b] = f[b]
      /\ \A b \in DOMAIN stateObjects[t] : b \notin DOMAIN f => o[b] = stateObjects[t][b]
  BY Zenon DEF With
<1>2. /\ DOMAIN stateObjects[t] \subseteq Accounts
      /\ \A b \in DOMAIN stateObjects[t] : stateObjects[t][b] \in Data
  BY Zenon DEF SharedInv, SharedTypeOK
<1> HIDE DEF o
<1>3. ASSUME NEW b \in DOMAIN o
      PROVE  /\ b \in Accounts /\ o[b] \in Data
             /\ b \in DOMAIN f \/ (b \in DOMAIN stateObjects[t] /\ o[b] = stateObjects[t][b])
  <2>1. CASE b \in DOMAIN f
    <3>1. b \in Accounts /\ o[b] = f[b] /\ f[b] \in Data
      BY Zenon, <1>1, <2>1
    <3> QED BY <2>1, <3>1
  <2>2. CASE b \notin DOMAIN f
    <3>1. b \in DOMAIN stateObjects[t]
      BY Zenon, <1>1, <1>3, <2>2
    <3> QED BY Zenon, <1>1, <1>2, <2>2, <3>1
  <2> QED BY Zenon, <2>1, <2>2
<1>4. Gets(t, f, o)
  BY Zenon, <1>1, <1>3 DEF Gets
<1> QED BY Zenon, <1>4 DEF o

(* A step to a label l at which the thread has changed nothing yet.        *)
LEMMA QuietStep ==
    ASSUME SharedInv, NEW t \in Threads, NEW l \in {"buy", "panic"},
           pc[t] \in {"snapshot", "revert"}, pc' = [pc EXCEPT ![t] = l],
           pc[t] = "snapshot" \/ l = "panic",
           UNCHANGED <<trie, stateObjects, dirties, tx, txs, pending>>
    PROVE  SharedInv'
<1> DEFINE x == tx[t]
           o == stateObjects[t]
           d == dirties[t]
<1>1. pc[t] # "idle" /\ Executing(Executed, x, pc[t], o, d, trie) /\ trie \in [Accounts -> Data]
  BY Zenon, AtWork
<1>2. Executing(Executed, x, l, o, d, trie)
  <2>1. Local(Executed, x, l) = Executed /\ Local(Executed, x, pc[t]) = Executed
    BY DEF Local
  <2> QED BY <1>1, <2>1 DEF Executing
<1>3. /\ stateObjects' = [stateObjects EXCEPT ![t] = o]
      /\ dirties' = [dirties EXCEPT ![t] = d]
  <2>1. stateObjects = [u \in Threads |-> stateObjects[u]] /\ dirties = [u \in Threads |-> dirties[u]]
    BY DEF SharedInv, SharedTypeOK
  <2> QED BY Zenon, <2>1
<1>4. /\ DOMAIN o \subseteq Accounts
      /\ \A b \in DOMAIN o : o[b] \in Data
  BY Zenon DEF SharedInv, SharedTypeOK
<1>5. l \in Labels /\ l # "idle"
  BY DEF Labels
<1>6. WorksOn(t, l, o, d)
  BY Zenon, <1>1, <1>2, <1>3, <1>4, <1>5 DEF WorksOn
<1> QED BY Zenon, <1>6, WorkKeeps

(* What the stages do to an account that they do not concern.              *)
LEMMA StagesApart ==
    ASSUME NEW s \in [Accounts -> Data], NEW x \in Transactions, NEW b \in Accounts
    PROVE  /\ b # x.from \/ x.price = 0 => Bought(s, x)[b] = s[b]
           /\ b # x.from /\ b # x.to => Called(s, x)[b] = s[b]
           /\ b # x.from /\ ~(b = x.to /\ (x.value > 0 \/ x.writes)) => Called(s, x)[b] = s[b]
           /\ b # coinbase \/ x.price = 0 => Paid(s, x)[b] = Called(s, x)[b]
<1>1. /\ s[b] \in Data /\ Called(s, x) \in [Accounts -> Data]
      /\ x.price \in Nat /\ x.value \in Nat /\ x.writes \in BOOLEAN
  BY Zenon, StageTypes DEF Transactions
<1>2. ASSUME NEW r \in Data
      PROVE  r = [nonce |-> r.nonce, balance |-> r.balance, root |-> r.root]
  BY DEF Data
<1>3. s[b].balance \in Int /\ s[b].nonce \in Int /\ s[b].root \in Int
  BY <1>1 DEF Data
<1>4. ASSUME b # x.from \/ x.price = 0 PROVE Bought(s, x)[b] = s[b]
  <2>1. s[b].balance - (IF b = x.from THEN x.price ELSE 0) = s[b].balance
    BY <1>1, <1>3, <1>4
  <2> QED BY Zenon, <1>1, <1>2, <2>1 DEF Bought
<1>5. ASSUME b # x.from, ~(b = x.to /\ (x.value > 0 \/ x.writes)) PROVE Called(s, x)[b] = s[b]
  <2>1. s[b].balance - (IF b = x.from THEN x.price + x.value ELSE 0)
                     + (IF b = x.to THEN x.value ELSE 0) = s[b].balance
    BY <1>1, <1>3, <1>5
  <2>2. /\ s[b].nonce + (IF b = x.from THEN 1 ELSE 0) = s[b].nonce
        /\ s[b].root + (IF b = x.to /\ x.writes THEN 1 ELSE 0) = s[b].root
    BY <1>1, <1>3, <1>5
  <2> QED BY Zenon, <1>1, <1>2, <2>1, <2>2 DEF Called
<1>6. ASSUME b # coinbase \/ x.price = 0 PROVE Paid(s, x)[b] = Called(s, x)[b]
  <2>1. Called(s, x)[b] \in Data /\ Called(s, x)[b].balance \in Int
    BY <1>1 DEF Data
  <2>2. Called(s, x)[b].balance + (IF b = coinbase THEN x.price ELSE 0) = Called(s, x)[b].balance
    BY <1>1, <1>6, <2>1
  <2> QED BY Zenon, <1>2, <2>1, <2>2 DEF Paid
<1> QED BY Zenon, <1>4, <1>5, <1>6

(* buyGas keeps the invariant.  A sender that can buy its gas can also pay *)
(* the value of its transaction.                                           *)
LEMMA BuyKeeps ==
    ASSUME SharedInv, NEW t \in Threads, buyGas(t)
    PROVE  SharedInv'
<1> DEFINE x == tx[t]
           a == x.from
           s == Executed
           d == dirties[t]
           r == getStateObject(t, a)
<1>1. pc[t] = "buy" /\ pc[t] # "idle" /\ UNCHANGED <<trie, tx, txs, pending>>
  BY Zenon DEF buyGas, revisionVars
<1>2. /\ x \in Transactions /\ a \in Accounts /\ x.price \in Nat /\ x.value \in Nat
      /\ s \in [Accounts -> Data] /\ trie \in [Accounts -> Data]
      /\ Executing(s, x, pc[t], stateObjects[t], d, trie)
      /\ Touched(x) \subseteq Accounts /\ a \in Touched(x)
      /\ Cost(x) <= s[a].balance /\ s[a].balance <= Funds
  BY Zenon, <1>1, AtWork
<1>3. r = s[a] /\ Local(s, x, "buy") = s
  <2>1. Local(s, x, "buy") = s
    BY DEF Local
  <2> QED BY Zenon, <1>1, <1>2, <2>1, ReadsLocal
<1>4. d = {} /\ \A b \in Touched(x) :
                   /\ b \in DOMAIN stateObjects[t] => stateObjects[t][b] = s[b]
                   /\ trie[b] = s[b]
  <2>1. d = {}
    BY <1>1, <1>2 DEF Executing
  <2> QED BY Zenon, <1>1, <1>2, <1>3, <2>1 DEF Executing
<1>5. CASE r.balance < x.price
  <2> DEFINE f == [z \in {a} |-> r]
             o == With(stateObjects[t], f)
  <2>1. /\ stateObjects' = [stateObjects EXCEPT ![t] = o]
        /\ dirties' = [dirties EXCEPT ![t] = d \cup {}]
        /\ pc' = [pc EXCEPT ![t] = "revert"]
    BY Zenon, <1>5 DEF buyGas, Set, Goto
  <2>2. DOMAIN f = {a} /\ f[a] = s[a] /\ \A b \in DOMAIN f : b = a /\ f[b] \in Data
    BY <1>2, <1>3
  <2> HIDE DEF f
  <2>3. /\ DOMAIN o = DOMAIN f \cup DOMAIN stateObjects[t] /\ DOMAIN o \subseteq Accounts
        /\ \A b \in DOMAIN f : o[b] = f[b]
        /\ \A b \in DOMAIN stateObjects[t] : b \notin DOMAIN f => o[b] = stateObjects[t][b]
        /\ \A b \in DOMAIN o : /\ o[b] \in Data
                               /\ b \in Touched(x) \/ (b \in DOMAIN stateObjects[t] /\ o[b] = stateObjects[t][b])
    <3>1. \A b \in DOMAIN f : b \in Accounts /\ f[b] \in Data
      BY Zenon, <1>2, <2>2
    <3>2. Gets(t, f, o)
      BY Zenon, <3>1, ObjectTypes
    <3> HIDE DEF o
    <3>3. \A b \in DOMAIN o : b \in Touched(x) \/ (b \in DOMAIN stateObjects[t] /\ o[b] = stateObjects[t][b])
      <4>1. \A b \in DOMAIN o : b \in DOMAIN f \/ (b \in DOMAIN stateObjects[t] /\ o[b] = stateObjects[t][b])
        BY Zenon, <3>2 DEF Gets
      <4> QED BY Zenon, <1>2, <2>2, <4>1
    <3> QED BY Zenon, <3>2, <3>3 DEF Gets
  <2> HIDE DEF o
  <2>4. Local(s, x, "revert") = s
    BY DEF Local
  <2>5. \A b \in Touched(x) : b \in DOMAIN o => o[b] = s[b]
    BY Zenon, <1>4, <2>2, <2>3
  <2>6. Executing(s, x, "revert", o, {}, trie)
    <3>1. "revert" \notin {"call", "fee", "finalise", "append", "snapshot", "buy"}
      OBVIOUS
    <3> QED BY Zenon, <1>4, <2>4, <2>5, <3>1 DEF Executing
  <2>7. d \cup {} = {} /\ "revert" \in Labels /\ "revert" # "idle"
    BY <1>4 DEF Labels
  <2>8. WorksOn(t, "revert", o, {})
    BY Zenon, <1>1, <1>2, <2>1, <2>3, <2>6, <2>7 DEF WorksOn
  <2> QED BY Zenon, <2>8, WorkKeeps
<1>6. CASE ~(r.balance < x.price)
  <2> DEFINE v == [r EXCEPT !.balance = @ - x.price]
             f == [z \in {a} |-> v]
             c == {z \in {a} : x.price > 0}
             o == With(stateObjects[t], f)
             p == Bought(s, x)
  <2>1. /\ stateObjects' = [stateObjects EXCEPT ![t] = o]
        /\ dirties' = [dirties EXCEPT ![t] = d \cup c]
        /\ pc' = [pc EXCEPT ![t] = "call"]
    BY Zenon, <1>6 DEF buyGas, Set, Goto
  <2>2. v = p[a] /\ p[a] \in Data
    <3>1. v = [nonce |-> r.nonce, balance |-> r.balance - x.price, root |-> r.root]
      BY <1>2, <1>3 DEF Data
    <3>2. p[a] = [nonce |-> s[a].nonce, balance |-> s[a].balance - x.price, root |-> s[a].root]
      BY Zenon, <1>2 DEF Bought
    <3>3. p \in [Accounts -> Data]
      BY Zenon, <1>2, StageTypes
    <3> QED BY Zenon, <1>2, <1>3, <3>1, <3>2, <3>3
  <2> HIDE DEF v
  <2>3. DOMAIN f = {a} /\ f[a] = p[a] /\ \A b \in DOMAIN f : b = a /\ f[b] \in Data
    BY <2>2
  <2> HIDE DEF f
  <2>4. /\ DOMAIN o = DOMAIN f \cup DOMAIN stateObjects[t] /\ DOMAIN o \subseteq Accounts
        /\ \A b \in DOMAIN f : o[b] = f[b]
        /\ \A b \in DOMAIN stateObjects[t] : b \notin DOMAIN f => o[b] = stateObjects[t][b]
        /\ \A b \in DOMAIN o : /\ o[b] \in Data
                               /\ b \in Touched(x) \/ (b \in DOMAIN stateObjects[t] /\ o[b] = stateObjects[t][b])
    <3>1. \A b \in DOMAIN f : b \in Accounts /\ f[b] \in Data
      BY Zenon, <1>2, <2>3
    <3>2. Gets(t, f, o)
      BY Zenon, <3>1, ObjectTypes
    <3> HIDE DEF o
    <3>3. \A b \in DOMAIN o : b \in Touched(x) \/ (b \in DOMAIN stateObjects[t] /\ o[b] = stateObjects[t][b])
      <4>1. \A b \in DOMAIN o : b \in DOMAIN f \/ (b \in DOMAIN stateObjects[t] /\ o[b] = stateObjects[t][b])
        BY Zenon, <3>2 DEF Gets
      <4> QED BY Zenon, <1>2, <2>3, <4>1
    <3> QED BY Zenon, <3>2, <3>3 DEF Gets
  <2> HIDE DEF o
  <2>5. Local(s, x, "call") = p
    BY DEF Local
  <2>6. \A b \in Accounts : b # a \/ x.price = 0 => p[b] = s[b]
    BY Zenon, <1>2, StagesApart
  <2>7. ASSUME NEW b \in Touched(x)
        PROVE  /\ IF b \in DOMAIN o THEN o[b] = p[b] ELSE p[b] = s[b]
               /\ trie[b] = IF b \in c THEN s[b] ELSE p[b]
    <3>1. CASE b = a
      <4>1. b \in DOMAIN o /\ o[b] = p[b]
        BY Zenon, <2>3, <2>4, <3>1
      <4>2. b \notin c => x.price = 0
        BY <1>2, <3>1
      <4> QED BY Zenon, <1>2, <1>4, <2>6, <4>1, <4>2
    <3>2. CASE b # a
      <4>1. p[b] = s[b]
        BY Zenon, <1>2, <2>6, <3>2
      <4>2. b \in DOMAIN o => b \in DOMAIN stateObjects[t] /\ o[b] = stateObjects[t][b]
        BY Zenon, <2>3, <2>4, <3>2
      <4> QED BY Zenon, <1>4, <4>1, <4>2
    <3> QED BY Zenon, <3>1, <3>2
  <2>8. x.price <= Funds /\ x.price + x.value <= s[a].balance
    <3>1. s[a].balance \in Int /\ Funds \in Nat
      BY <1>2, BatchesAssumption DEF Data
    <3>2. x.price <= Funds
      <4> HIDE DEF r, s, a, x
      <4> QED BY <1>2, <1>3, <1>6, <3>1
    <3> QED BY Zenon, <1>2, <3>2 DEF Cost
  <2>9. c \subseteq Touched(x) /\ c \subseteq DOMAIN o /\ d \cup c = c
    BY Zenon, <1>2, <1>4, <2>3, <2>4
  <2>10. Executing(s, x, "call", o, c, trie)
    <3>1. "call" \notin {"fee", "finalise"} /\ "call" \in {"call", "fee", "finalise"}
      OBVIOUS
    <3> HIDE DEF s, x, c, p
    <3> QED BY Zenon, <1>4, <2>5, <2>7, <2>8, <2>9, <3>1 DEF Executing, a
  <2>11. "call" \in Labels /\ "call" # "idle"
    BY DEF Labels
  <2>12. WorksOn(t, "call", o, c)
    BY Zenon, <1>1, <1>2, <2>1, <2>4, <2>9, <2>10, <2>11 DEF WorksOn
  <2> QED BY Zenon, <2>12, WorkKeeps
<1> QED BY Zenon, <1>5, <1>6

(* Call keeps the invariant, and does not fail: the sender was able to pay *)
(* the value when it bought the gas.                                       *)
LEMMA CallKeeps ==
    ASSUME SharedInv, NEW t \in Threads, Call(t)
    PROVE  SharedInv'
<1> DEFINE x == tx[t]
           a == x.from
           b == x.to
           s == Executed
           d == dirties[t]
           B == Bought(s, x)
           C == Called(s, x)
           sender == [getStateObject(t, a) EXCEPT !.nonce = @ + 1]
           recipient == IF a = b THEN sender ELSE [getStateObject(t, b) EXCEPT !.balance = @ + x.value]
           credited == [recipient EXCEPT !.root = IF x.writes THEN @ + 1 ELSE @]
           debited == [sender EXCEPT !.balance = @ - x.value]
           f == [z \in {a, b} |-> IF z = b THEN credited ELSE debited]
           c == d \cup ({a} \cup {z \in {b} : x.value > 0 \/ x.writes})
           o == With(stateObjects[t], f)
<1>1. pc[t] = "call" /\ pc[t] # "idle" /\ UNCHANGED <<trie, tx, txs, pending>>
  BY Zenon DEF Call, revisionVars
<1>2. /\ x \in Transactions /\ a \in Accounts /\ b \in Accounts /\ x.price \in Nat /\ x.value \in Nat
      /\ s \in [Accounts -> Data] /\ trie \in [Accounts -> Data]
      /\ Executing(s, x, pc[t], stateObjects[t], d, trie)
      /\ Touched(x) \subseteq Accounts /\ a \in Touched(x) /\ b \in Touched(x)
  BY Zenon, <1>1, AtWork
<1>3. Local(s, x, "call") = B /\ Local(s, x, "fee") = C
  BY DEF Local
<1>4. getStateObject(t, a) = B[a] /\ getStateObject(t, b) = B[b]
  BY Zenon, <1>1, <1>2, <1>3, ReadsLocal
<1>5. /\ x.price <= Funds /\ x.price + x.value <= s[a].balance
      /\ d \subseteq Touched(x) /\ d \subseteq DOMAIN stateObjects[t]
      /\ \A z \in Touched(x) : trie[z] = s[z]
  BY <1>1, <1>2 DEF Executing
<1>6. \A z \in Touched(x) : IF z \in DOMAIN stateObjects[t] THEN stateObjects[t][z] = B[z] ELSE B[z] = s[z]
  BY Zenon, <1>1, <1>2, <1>3 DEF Executing
<1>7. /\ B[a] = [nonce |-> s[a].nonce, balance |-> s[a].balance - x.price, root |-> s[a].root]
      /\ a # b => B[b] = [nonce |-> s[b].nonce, balance |-> s[b].balance - 0, root |-> s[b].root]
      /\ s[a] \in Data /\ s[b] \in Data /\ x.writes \in BOOLEAN
  <2>1. x.writes \in BOOLEAN
    BY <1>2 DEF Transactions
  <2> QED BY Zenon, <1>2, <2>1 DEF Bought
<1>8. /\ s[a].nonce \in Int /\ s[a].balance \in Int /\ s[a].root \in Int
      /\ s[b].nonce \in Int /\ s[b].balance \in Int /\ s[b].root \in Int
  BY <1>7 DEF Data
<1>9. sender = [nonce |-> s[a].nonce + 1, balance |-> s[a].balance - x.price, root |-> s[a].root]
  <2> DEFINE n == s[a].nonce
             p == s[a].balance - x.price
             r == s[a].root
  <2>1. B[a] = [nonce |-> n, balance |-> p, root |-> r]
    BY Zenon, <1>7
  <2> HIDE DEF n, p, r
  <2>2. sender = [nonce |-> n + 1, balance |-> p, root |-> r]
    BY <1>4, <2>1
  <2> QED BY Zenon, <2>2 DEF n, p, r
<1> HIDE DEF sender
<1>10. ~(sender.balance < x.value)
  <2>1. sender.balance = s[a].balance - x.price
    BY <1>9
  <2> HIDE DEF a, s, x
  <2> QED BY <1>2, <1>5, <1>8, <2>1
<1>11. /\ stateObjects' = [stateObjects EXCEPT ![t] = o]
       /\ dirties' = [dirties EXCEPT ![t] = c]
       /\ pc' = [pc EXCEPT ![t] = "fee"]
  <2> USE DEF sender
  <2> QED BY Zenon, <1>10 DEF Call, Set, Goto
<1>12. C \in [Accounts -> Data]
  BY Zenon, <1>2, StageTypes
<1>13. /\ C[a] = [nonce |-> s[a].nonce + 1,
                  balance |-> s[a].balance - (x.price + x.value) + (IF a = b THEN x.value ELSE 0),
                  root |-> s[a].root + (IF a = b /\ x.writes THEN 1 ELSE 0)]
       /\ a # b => C[b] = [nonce |-> s[b].nonce + 0,
                           balance |-> s[b].balance - 0 + x.value,
                           root |-> s[b].root + (IF x.writes THEN 1 ELSE 0)]
  BY Zenon, <1>2 DEF Called
<1> HIDE DEF C, B
<1>14. a # b => debited = C[a]
  <2> SUFFICES ASSUME a # b PROVE debited = C[a]
    BY Zenon
  <2>1. debited = [nonce |-> s[a].nonce + 1, balance |-> (s[a].balance - x.price) - x.value, root |-> s[a].root]
    <3> DEFINE n == s[a].nonce + 1
               p == s[a].balance - x.price
               r == s[a].root
    <3>1. sender = [nonce |-> n, balance |-> p, root |-> r]
      BY Zenon, <1>9
    <3> HIDE DEF n, p, r
    <3>2. debited = [nonce |-> n, balance |-> p - x.value, root |-> r]
      BY <3>1
    <3> QED BY Zenon, <3>2 DEF n, p, r
  <2>2. s[a].balance - (x.price + x.value) + 0 = (s[a].balance - x.price) - x.value /\ s[a].root + 0 = s[a].root
    <3> HIDE DEF a, s, x
    <3> QED BY <1>2, <1>8
  <2> QED BY Zenon, <1>13, <2>1, <2>2
<1>15. credited = C[b]
  <2>1. CASE a = b
    <3> DEFINE n == s[a].nonce + 1
               p == s[a].balance - x.price
               r == s[a].root
    <3>1. recipient = [nonce |-> n, balance |-> p, root |-> r]
      BY Zenon, <1>9, <2>1
    <3> HIDE DEF n, p, r, recipient
    <3>2. credited = [nonce |-> n, balance |-> p, root |-> IF x.writes THEN r + 1 ELSE r]
      BY <2>1, <3>1
    <3>3. s[a].balance - (x.price + x.value) + x.value = p /\ s[a].root + (IF x.writes THEN 1 ELSE 0) = IF x.writes THEN r + 1 ELSE r
      <4> HIDE DEF a, s, x
      <4> QED BY <1>2, <1>8 DEF p, r
    <3>4. C[a] = [nonce |-> n, balance |-> p, root |-> IF x.writes THEN r + 1 ELSE r]
      BY Zenon, <1>13, <2>1, <3>3 DEF n
    <3> QED BY Zenon, <2>1, <3>2, <3>4
  <2>2. CASE a # b
    <3> DEFINE n == s[b].nonce
               p == s[b].balance - 0
               r == s[b].root
    <3>0. B[b] = [nonce |-> n, balance |-> p, root |-> r]
      BY Zenon, <1>7, <2>2
    <3> HIDE DEF n, p, r
    <3>1. recipient = [nonce |-> n, balance |-> p + x.value, root |-> r]
      BY <1>4, <2>2, <3>0
    <3> HIDE DEF recipient
    <3>2. credited = [nonce |-> n, balance |-> p + x.value, root |-> IF x.writes THEN r + 1 ELSE r]
      BY <2>2, <3>1
    <3>3. n + 0 = n /\ r + (IF x.writes THEN 1 ELSE 0) = IF x.writes THEN r + 1 ELSE r
      <4> HIDE DEF b, s, x
      <4> QED BY <1>2, <1>8 DEF n, r
    <3> QED BY Zenon, <1>13, <2>2, <3>2, <3>3 DEF n, p, r
  <2> QED BY Zenon, <2>1, <2>2
<1> HIDE DEF credited, debited
<1>16. DOMAIN f = {a, b} /\ \A z \in DOMAIN f : f[z] = C[z] /\ z \in Touched(x) /\ f[z] \in Data
  <2>1. ASSUME NEW z \in {a, b} PROVE f[z] = C[z] /\ z \in Touched(x) /\ f[z] \in Data
    BY <1>2, <1>12, <1>14, <1>15
  <2> QED BY Zenon, <2>1
<1> HIDE DEF f
<1>17. Gets(t, f, o)
  BY Zenon, <1>2, <1>16, ObjectTypes
<1> HIDE DEF o
<1>18. c \subseteq Touched(x) /\ c \subseteq DOMAIN o /\ c # {}
  <2>1. a \in DOMAIN o /\ b \in DOMAIN o /\ DOMAIN stateObjects[t] \subseteq DOMAIN o
    BY <1>16, <1>17 DEF Gets
  <2> HIDE DEF a, b, d
  <2> QED BY <1>2, <1>5, <2>1
<1>19. \A z \in Accounts : (z # a /\ z # b => B[z] = s[z] /\ C[z] = s[z]) /\ (z \notin c => C[z] = s[z])
  <2> SUFFICES ASSUME NEW z \in Accounts
               PROVE  (z # a /\ z # b => B[z] = s[z] /\ C[z] = s[z]) /\ (z \notin c => C[z] = s[z])
    BY Zenon
  <2>1. z # a /\ z # b => B[z] = s[z] /\ C[z] = s[z]
    BY Zenon, <1>2, StagesApart DEF B, C
  <2>2. z # a /\ ~(z = b /\ (x.value > 0 \/ x.writes)) => C[z] = s[z]
    BY Zenon, <1>2, StagesApart DEF C
  <2> QED BY Zenon, <2>1, <2>2
<1>20. ASSUME NEW z \in Touched(x)
       PROVE  /\ IF z \in DOMAIN o THEN o[z] = C[z] ELSE C[z] = s[z]
              /\ trie[z] = IF z \in c THEN s[z] ELSE C[z]
  <2>1. trie[z] = IF z \in c THEN s[z] ELSE C[z]
    BY Zenon, <1>2, <1>5, <1>19
  <2>2. CASE z \in DOMAIN f
    BY Zenon, <1>16, <1>17, <2>1, <2>2 DEF Gets
  <2>3. CASE z \notin DOMAIN f
    <3>1. B[z] = s[z] /\ C[z] = s[z]
      BY Zenon, <1>2, <1>16, <1>19, <2>3
    <3>2. z \in DOMAIN o => z \in DOMAIN stateObjects[t] /\ o[z] = stateObjects[t][z]
      BY Zenon, <1>17, <2>3 DEF Gets
    <3> QED BY Zenon, <1>6, <2>1, <3>1, <3>2
  <2> QED BY Zenon, <2>2, <2>3
<1>21. Executing(s, x, "fee", o, c, trie)
  <2>1. "fee" \in {"call", "fee", "finalise"}
    OBVIOUS
  <2> HIDE DEF s, x, c
  <2> QED BY Zenon, <1>3, <1>5, <1>18, <1>20, <2>1 DEF Executing, a
<1>22. /\ DOMAIN o \subseteq Accounts
       /\ \A z \in DOMAIN o : /\ o[z] \in Data
                              /\ z \in Touched(x) \/ (z \in DOMAIN stateObjects[t] /\ o[z] = stateObjects[t][z])
  <2>1. \A z \in DOMAIN o : z \in DOMAIN f \/ (z \in DOMAIN stateObjects[t] /\ o[z] = stateObjects[t][z])
    BY Zenon, <1>17 DEF Gets
  <2>2. \A z \in DOMAIN o : z \in Touched(x) \/ (z \in DOMAIN stateObjects[t] /\ o[z] = stateObjects[t][z])
    BY Zenon, <1>16, <2>1
  <2> QED BY Zenon, <1>17, <2>2 DEF Gets
<1>23. "fee" \in Labels /\ "fee" # "idle"
  BY DEF Labels
<1>24. WorksOn(t, "fee", o, c)
  BY Zenon, <1>1, <1>2, <1>11, <1>21, <1>22, <1>23 DEF WorksOn
<1> QED BY Zenon, <1>24, WorkKeeps

(* AddFee keeps the invariant.  A fee of zero gives the thread an object   *)
(* of the coinbase, which it does not touch.                               *)
LEMMA FeeKeeps ==
    ASSUME SharedInv, NEW t \in Threads, AddFee(t)
    PROVE  SharedInv'
<1> DEFINE x == tx[t]
           a == x.from
           s == Executed
           d == dirties[t]
           r == getStateObject(t, coinbase)
           C == Called(s, x)
           P == Paid(s, x)
           v == [r EXCEPT !.balance = @ + x.price]
           f == [z \in {coinbase} |-> v]
           n == {z \in {coinbase} : x.price > 0}
           c == d \cup n
           o == With(stateObjects[t], f)
<1>1. pc[t] = "fee" /\ pc[t] # "idle" /\ UNCHANGED <<trie, tx, txs, pending>>
  BY Zenon DEF AddFee, revisionVars
<1>2. /\ x \in Transactions /\ x.price \in Nat
      /\ s \in [Accounts -> Data] /\ trie \in [Accounts -> Data] /\ coinbase \in Accounts
      /\ Executing(s, x, pc[t], stateObjects[t], d, trie)
      /\ Touched(x) \subseteq Accounts
  BY Zenon, <1>1, AtWork, BatchesAssumption
<1>3. Local(s, x, "fee") = C /\ Local(s, x, "finalise") = P
  BY DEF Local
<1>4. /\ x.price <= Funds /\ x.price + x.value <= s[a].balance
      /\ d \subseteq Touched(x) /\ d \subseteq DOMAIN stateObjects[t] /\ d # {}
      /\ \A z \in Touched(x) : trie[z] = s[z]
  BY <1>1, <1>2 DEF Executing
<1>5. \A z \in Touched(x) :
        /\ IF z \in DOMAIN stateObjects[t] THEN stateObjects[t][z] = C[z] ELSE C[z] = s[z]
        /\ z \in d \/ trie[z] = C[z]
  BY Zenon, <1>1, <1>2, <1>3 DEF Executing
<1>6. /\ stateObjects' = [stateObjects EXCEPT ![t] = o]
      /\ dirties' = [dirties EXCEPT ![t] = c]
      /\ pc' = [pc EXCEPT ![t] = "finalise"]
  BY Zenon DEF AddFee, Set, Goto
<1>7. C \in [Accounts -> Data] /\ P \in [Accounts -> Data]
  BY Zenon, <1>2, StageTypes
<1>8. P[coinbase] = [nonce |-> C[coinbase].nonce, balance |-> C[coinbase].balance + x.price,
                     root |-> C[coinbase].root]
  BY Zenon, <1>2 DEF Paid
<1>9. \A z \in Accounts : z # coinbase \/ x.price = 0 => P[z] = C[z]
  BY Zenon, <1>2, StagesApart
<1> HIDE DEF C, P
<1>10. r \in Data
  <2>1. CASE coinbase \in DOMAIN stateObjects[t]
    BY Zenon, <2>1 DEF SharedInv, SharedTypeOK, getStateObject
  <2>2. CASE coinbase \notin DOMAIN stateObjects[t]
    <3>1. trie[coinbase] \in Data
      BY Zenon, <1>2
    <3> QED BY Zenon, <2>2, <3>1 DEF getStateObject
  <2> QED BY Zenon, <2>1, <2>2
<1>11. v = [nonce |-> r.nonce, balance |-> r.balance + x.price, root |-> r.root] /\ v \in Data
  <2> HIDE DEF r
  <2> QED BY <1>2, <1>10 DEF Data
<1>12. coinbase \in Touched(x) => v = P[coinbase]
  <2> SUFFICES ASSUME coinbase \in Touched(x) PROVE v = P[coinbase]
    BY Zenon
  <2>1. r = C[coinbase]
    BY Zenon, <1>1, <1>3, ReadsLocal
  <2> QED BY Zenon, <1>8, <1>11, <2>1
<1>13. x.price > 0 => coinbase \in Touched(x)
  BY <1>4 DEF Touched
<1>14. x.price = 0 => v = r
  <2> SUFFICES ASSUME x.price = 0 PROVE v = r
    BY Zenon
  <2> HIDE DEF r
  <2> QED BY <1>10, <1>11 DEF Data
<1>15. x.price > 0 \/ x.price = 0
  <2> HIDE DEF x
  <2> QED BY <1>2
<1> HIDE DEF v
<1>16. DOMAIN f = {coinbase} /\ f[coinbase] = v /\ \A z \in DOMAIN f : z = coinbase /\ z \in Accounts /\ f[z] \in Data
  BY Zenon, <1>2, <1>11
<1> HIDE DEF f
<1>17. Gets(t, f, o)
  BY Zenon, <1>16, ObjectTypes
<1> HIDE DEF o
<1>18. coinbase \in DOMAIN o /\ o[coinbase] = v
  <2>1. coinbase \in DOMAIN f
    BY Zenon, <1>16
  <2> QED BY Zenon, <1>16, <1>17, <2>1 DEF Gets
<1>19. c \subseteq Touched(x) /\ c \subseteq DOMAIN o /\ c # {}
  <2>1. n \subseteq Touched(x) /\ n \subseteq DOMAIN o
    BY Zenon, <1>13, <1>18
  <2>2. DOMAIN stateObjects[t] \subseteq DOMAIN o
    BY Zenon, <1>17 DEF Gets
  <2> HIDE DEF n, d
  <2> QED BY <1>4, <2>1, <2>2
<1>20. ASSUME NEW z \in Touched(x)
       PROVE  /\ IF z \in DOMAIN o THEN o[z] = P[z] ELSE P[z] = s[z]
              /\ trie[z] = IF z \in c THEN s[z] ELSE P[z]
  <2>1. CASE z = coinbase
    <3>1. o[z] = P[z]
      BY Zenon, <1>12, <1>18, <2>1
    <3>2. z \in c \/ trie[z] = P[z]
      BY Zenon, <1>2, <1>5, <1>9, <1>15, <2>1
    <3> QED BY Zenon, <1>4, <1>18, <2>1, <3>1, <3>2
  <2>2. CASE z # coinbase
    <3>1. P[z] = C[z]
      BY Zenon, <1>2, <1>9, <2>2
    <3>2. z \in DOMAIN o => z \in DOMAIN stateObjects[t] /\ o[z] = stateObjects[t][z]
      BY Zenon, <1>16, <1>17, <2>2 DEF Gets
    <3>3. z \notin DOMAIN o => z \notin DOMAIN stateObjects[t]
      BY Zenon, <1>17 DEF Gets
    <3>4. z \in c \/ trie[z] = P[z]
      BY Zenon, <1>5, <3>1
    <3> QED BY Zenon, <1>4, <1>5, <3>1, <3>2, <3>3, <3>4
  <2> QED BY Zenon, <2>1, <2>2
<1>21. Executing(s, x, "finalise", o, c, trie)
  <2>1. "finalise" \in {"call", "fee", "finalise"} /\ "finalise" \notin {"snapshot", "buy", "call", "fee"}
    OBVIOUS
  <2> HIDE DEF s, x, c
  <2> QED BY Zenon, <1>3, <1>4, <1>19, <1>20, <2>1 DEF Executing, a
<1>22. ASSUME NEW z \in DOMAIN o
       PROVE  /\ o[z] \in Data
              /\ \/ z \in Touched(x)
                 \/ z \in DOMAIN stateObjects[t] /\ o[z] = stateObjects[t][z]
                 \/ z = coinbase /\ o[z] = trie[z]
  <2>1. o[z] \in Data /\ (z \in DOMAIN f \/ (z \in DOMAIN stateObjects[t] /\ o[z] = stateObjects[t][z]))
    BY Zenon, <1>17 DEF Gets
  <2>2. CASE z \in DOMAIN f
    <3>1. z = coinbase /\ o[z] = v
      BY Zenon, <1>16, <1>18, <2>2
    <3>2. coinbase \in Touched(x) \/ v = r
      BY Zenon, <1>13, <1>14, <1>15
    <3>3. v = r => (coinbase \in DOMAIN stateObjects[t] /\ v = stateObjects[t][coinbase]) \/ v = trie[coinbase]
      BY Zenon DEF getStateObject
    <3> QED BY Zenon, <2>1, <3>1, <3>2, <3>3
  <2> QED BY Zenon, <2>1, <2>2
<1>23. "finalise" \in Labels /\ "finalise" # "idle" /\ DOMAIN o \subseteq Accounts
  BY <1>17 DEF Labels, Gets
<1>24. WorksOn(t, "finalise", o, c)
  BY Zenon, <1>1, <1>2, <1>6, <1>21, <1>22, <1>23 DEF WorksOn
<1> QED BY Zenon, <1>24, WorkKeeps

(* Finalise keeps the invariant.                                           *)
LEMMA FinaliseKeeps ==
    ASSUME SharedInv, NEW t \in Threads, Finalise(t)
    PROVE  SharedInv'
<1> DEFINE x == tx[t]
           s == Executed
           d == dirties[t]
           o == stateObjects[t]
           P == Paid(s, x)
<1>1. pc[t] = "finalise" /\ pc[t] # "idle" /\ UNCHANGED <<stateObjects, tx, txs, pending>>
  BY Zenon DEF Finalise, revisionVars
<1>2. PICK a \in d : /\ trie' = [trie EXCEPT ![a] = o[a]]
                     /\ dirties' = [dirties EXCEPT ![t] = d \ {a}]
  BY Zenon DEF Finalise
<1> DEFINE c == d \ {a}
           l == IF c = {} THEN "append" ELSE "finalise"
<1>3. /\ x \in Transactions /\ s \in [Accounts -> Data] /\ trie \in [Accounts -> Data]
      /\ Executing(s, x, pc[t], o, d, trie) /\ Touched(x) \subseteq Accounts
  BY Zenon, <1>1, AtWork
<1>4. /\ DOMAIN o \subseteq Accounts /\ \A b \in DOMAIN o : o[b] \in Data
      /\ stateObjects' = [stateObjects EXCEPT ![t] = o]
      /\ dirties'[t] = c
  <2>1. stateObjects = [u \in Threads |-> stateObjects[u]] /\ dirties = [u \in Threads |-> dirties[u]]
    BY DEF SharedInv, SharedTypeOK
  <2>2. stateObjects' = [stateObjects EXCEPT ![t] = o]
    BY Zenon, <1>1, <2>1
  <2>3. dirties'[t] = c
    BY Zenon, <1>2, <2>1
  <2> QED BY Zenon, <2>2, <2>3 DEF SharedInv, SharedTypeOK
<1>5. pc' = [pc EXCEPT ![t] = l]
  BY Zenon, <1>4 DEF Finalise, Goto
<1>6. l \in {"append", "finalise"} /\ l \in Labels /\ l # "idle"
  BY DEF Labels
<1>7. Local(s, x, pc[t]) = P /\ Local(s, x, l) = P
  BY <1>1, <1>6 DEF Local
<1>8. /\ d \subseteq Touched(x) /\ d \subseteq DOMAIN o
      /\ x.price <= Funds /\ x.price + x.value <= s[x.from].balance
  BY <1>1, <1>3 DEF Executing
<1>9. \A b \in Touched(x) : /\ IF b \in DOMAIN o THEN o[b] = P[b] ELSE P[b] = s[b]
                            /\ trie[b] = IF b \in d THEN s[b] ELSE P[b]
  BY Zenon, <1>3, <1>7 DEF Executing
<1>10. a \in Touched(x) /\ a \in DOMAIN o /\ a \in Accounts /\ o[a] \in Data
  BY Zenon, <1>3, <1>4, <1>8
<1> HIDE DEF P, s, o, x
<1>11. /\ trie' \in [Accounts -> Data] /\ trie'[a] = o[a]
       /\ \A b \in Accounts : b # a => trie'[b] = trie[b]
  BY <1>2, <1>3, <1>10
<1>12. \A b \in Touched(x) : trie'[b] = IF b \in c THEN s[b] ELSE P[b]
  <2> SUFFICES ASSUME NEW b \in Touched(x) PROVE trie'[b] = IF b \in c THEN s[b] ELSE P[b]
    BY Zenon
  <2>1. CASE b = a
    <3>1. b \notin c /\ trie'[b] = P[b]
      BY Zenon, <1>9, <1>10, <1>11, <2>1
    <3> QED BY Zenon, <3>1
  <2>2. CASE b # a
    <3>1. trie'[b] = trie[b] /\ (b \in c <=> b \in d)
      BY Zenon, <1>3, <1>11, <2>2
    <3> QED BY Zenon, <1>9, <3>1
  <2> QED BY Zenon, <2>1, <2>2
<1>13. Executing(s, x, l, o, c, trie')
  <2>1. /\ l \in {"fee", "finalise"} => c # {}
        /\ l \notin {"call", "fee", "finalise"} => c = {}
        /\ l \notin {"snapshot", "buy", "call", "fee"}
    OBVIOUS
  <2>2. c \subseteq Touched(x) /\ c \subseteq DOMAIN o
    BY Zenon, <1>8
  <2> HIDE DEF c, l
  <2> QED BY Zenon, <1>7, <1>8, <1>9, <1>12, <2>1, <2>2 DEF Executing
<1>14. \A b \in Accounts : b \notin Touched(x) => trie'[b] = trie[b]
  BY Zenon, <1>10, <1>11
<1> HIDE DEF l
<1>15. WorksOn(t, l, o, c)
  BY Zenon, <1>1, <1>2, <1>4, <1>5, <1>6, <1>11, <1>13, <1>14 DEF WorksOn, s, x, o
<1> QED BY Zenon, <1>15, WorkKeeps

(* AppendTx keeps the invariant: the block and its re-execution both get   *)
(* the transaction.                                                        *)
LEMMA AppendKeeps ==
    ASSUME SharedInv, NEW t \in Threads, AppendTx(t)
    PROVE  SharedInv'
<1> DEFINE x == tx[t]
           s == Executed
           P == Paid(s, x)
<1>1. /\ pc[t] = "append" /\ pc[t] # "idle" /\ pc' = [pc EXCEPT ![t] = "idle"]
      /\ pending' = [pending EXCEPT ![x.from] = Tail(@)] /\ txs' = Append(txs, x)
      /\ UNCHANGED <<trie, stateObjects, dirties, tx>>
  BY Zenon DEF AppendTx, Goto, threadVars
<1>2. /\ x \in Transactions /\ s \in [Accounts -> Data] /\ x.price \in Nat
      /\ Executing(s, x, pc[t], stateObjects[t], dirties[t], trie)
  BY Zenon, <1>1, AtWork
<1>3. x.price <= Funds /\ x.price + x.value <= s[x.from].balance
  BY <1>1, <1>2 DEF Executing
<1>4. txs \in Seq(Transactions) /\ Process(txs) = [ok |-> TRUE, trie |-> s]
  BY Zenon DEF SharedInv, SharedTypeOK, BlockInv
<1>5. txs' \in Seq(Transactions)
  <2> HIDE DEF x
  <2> QED BY <1>1, <1>2, <1>4
<1>6. Process(txs') = [ok |-> TRUE, trie |-> P]
  <2>1. Process(txs') = ApplyTransaction(Process(txs), x)
    BY Zenon, <1>1, <1>2, <1>4, ProcessAppend
  <2>2. ApplyTransaction([ok |-> TRUE, trie |-> s], x) = [ok |-> TRUE, trie |-> P]
    BY Zenon, <1>2, <1>3, Applied
  <2> QED BY Zenon, <1>4, <2>1, <2>2
<1>7. Executed' = P
  <2> HIDE DEF P
  <2>1. Process(txs').trie = P
    BY <1>6
  <2> QED BY Zenon, <2>1 DEF Executed
<1>8. BlockInv'
  <2>1. P \in [Accounts -> Data]
    BY Zenon, <1>2, StageTypes
  <2> QED BY Zenon, <1>6, <1>7, <2>1 DEF BlockInv
<1>9. Local(s, x, pc[t]) = P
  BY <1>1 DEF Local
<1>10. ASSUME NEW b \in Accounts, b \notin Touched(x) PROVE P[b] = s[b]
  <2>1. b # x.from /\ b # x.to
    BY Zenon, <1>10 DEF Touched
  <2>2. b # coinbase \/ x.price = 0
    BY <1>2, <1>3, <1>10 DEF Touched
  <2>3. s \in [Accounts -> Data] /\ x \in Transactions
    BY Zenon, <1>2
  <2> HIDE DEF s, x
  <2>4. Called(s, x)[b] = s[b]
    BY Zenon, <2>1, <2>3, StagesApart
  <2>5. Paid(s, x)[b] = Called(s, x)[b]
    BY Zenon, <2>2, <2>3, StagesApart
  <2> QED BY Zenon, <2>4, <2>5
<1>11. \A b \in Accounts :
         Executed'[b] = IF b \in Touched(x) THEN Local(s, x, pc[t])[b] ELSE s[b]
  <2> HIDE DEF P, s, x
  <2> QED BY Zenon, <1>7, <1>9, <1>10
<1>12. pc[t] \in {"append", "revert"}
  BY <1>1
<1>13. Ends(t)
  BY Zenon, <1>1, <1>5, <1>8, <1>11, <1>12 DEF Ends
<1> QED BY Zenon, <1>13, EndKeeps

(* RevertToSnapshot keeps the invariant: the thread had changed nothing.   *)
LEMMA RevertKeeps ==
    ASSUME SharedInv, NEW t \in Threads, RevertToSnapshot(t)
    PROVE  SharedInv'
<1>1. pc[t] = "revert" /\ UNCHANGED <<trie, stateObjects, dirties, tx, txs>>
  BY Zenon DEF RevertToSnapshot, threadVars
<1>2. CASE \E i \in DOMAIN validRevisions : validRevisions[i] = snap[t]
  <2>1. pc' = [pc EXCEPT ![t] = "idle"] /\ pending' = [pending EXCEPT ![tx[t].from] = Tail(@)]
    BY Zenon, <1>2 DEF RevertToSnapshot, Goto
  <2>2. txs' \in Seq(Transactions) /\ BlockInv' /\ Executed' = Executed
    BY Zenon, <1>1 DEF SharedInv, SharedTypeOK, BlockInv, Executed
  <2>3. Local(Executed, tx[t], pc[t]) = Executed /\ pc[t] \in {"append", "revert"}
    BY <1>1 DEF Local
  <2>4. Ends(t)
    BY Zenon, <1>1, <2>1, <2>2, <2>3 DEF Ends
  <2> QED BY Zenon, <2>4, EndKeeps
<1>3. CASE ~\E i \in DOMAIN validRevisions : validRevisions[i] = snap[t]
  <2>1. pc' = [pc EXCEPT ![t] = "panic"] /\ pending' = pending
    BY Zenon, <1>3 DEF RevertToSnapshot, Goto
  <2>2. pc[t] \in {"snapshot", "revert"} /\ "panic" \in {"buy", "panic"}
    BY <1>1
  <2> QED BY Zenon, <1>1, <2>1, <2>2, QuietStep
<1> QED BY Zenon, <1>2, <1>3

(* Snapshot keeps the invariant.                                           *)
LEMMA SnapshotKeeps ==
    ASSUME SharedInv, NEW t \in Threads, Snapshot(t)
    PROVE  SharedInv'
<1>1. /\ pc[t] = "snapshot" /\ pc' = [pc EXCEPT ![t] = "buy"]
      /\ UNCHANGED <<trie, stateObjects, dirties, tx, txs, pending>>
  BY Zenon DEF Snapshot, Goto, threadVars
<1>2. pc[t] \in {"snapshot", "revert"} /\ "buy" \in {"buy", "panic"}
  BY <1>1
<1> QED BY Zenon, <1>1, <1>2, QuietStep

(* Peek keeps the invariant: the trie has what the block so far gives the  *)
(* accounts that the transaction touches, and so have the objects.         *)
LEMMA PeekKeeps ==
    ASSUME SharedInv, NEW t \in Threads, Peek(t)
    PROVE  SharedInv'
<1>1. /\ pc[t] = "idle" /\ pc' = [pc EXCEPT ![t] = "snapshot"]
      /\ UNCHANGED <<trie, stateObjects, dirties, txs, pending>>
  BY Zenon DEF Peek, Goto, threadVars
<1>2. PICK a \in Accounts : /\ pending[a] # << >>
                            /\ \A u \in Threads : pc[u] # "idle" => tx[u].from # a
                            /\ tx' = [tx EXCEPT ![t] = Head(pending[a])]
  BY Zenon DEF Peek
<1> DEFINE x == pending[a][1]
<1>3. SharedTypeOK /\ BlockInv /\ PendingInv /\ RunInv /\ ThreadInv /\ TrieInv /\ ObjectInv
  BY Zenon DEF SharedInv
<1>4. x = Head(pending[a]) /\ x \in Transactions /\ 1 \in DOMAIN pending[a]
  <2>1. pending[a] \in Seq(Transactions)
    BY <1>3 DEF SharedTypeOK
  <2> QED BY <1>2, <2>1
<1>5. x.from = a
  BY Zenon, <1>3, <1>4 DEF PendingInv
<1> HIDE DEF x
<1>6. /\ pc' \in [Threads -> Labels] /\ pc'[t] = "snapshot"
      /\ \A u \in Threads : u # t => pc'[u] = pc[u]
  BY <1>1, <1>3 DEF SharedTypeOK, Labels
<1>7. /\ tx' \in [Threads -> Transactions] /\ tx'[t] = x
      /\ \A u \in Threads : u # t => tx'[u] = tx[u]
  BY <1>2, <1>3, <1>4 DEF SharedTypeOK
<1>8. SharedTypeOK'
  BY Zenon, <1>1, <1>3, <1>6, <1>7 DEF SharedTypeOK
<1>9. Executed' = Executed /\ BlockInv' /\ PendingInv'
  BY Zenon, <1>1, <1>3 DEF Executed, BlockInv, PendingInv
<1>10. \A u \in Threads : pc[u] # "idle" => u # t /\ pc'[u] = pc[u] /\ tx'[u] = tx[u] /\ tx[u].from # a
  BY Zenon, <1>1, <1>2, <1>6, <1>7
<1>11. \A u \in Threads : \A b : Runs(u, b) => u # t /\ Runs(u, b)' /\ tx'[u] = tx[u]
  BY Zenon, <1>10 DEF Runs
<1>12. RunInv'
  <2>1. ASSUME NEW u \in Threads, pc'[u] # "idle"
        PROVE  pending'[tx'[u].from] # << >> /\ tx'[u] = pending'[tx'[u].from][1]
    <3>1. CASE u = t
      BY Zenon, <1>1, <1>2, <1>5, <1>7, <3>1 DEF x
    <3>2. CASE u # t
      BY Zenon, <1>1, <1>3, <1>6, <1>7, <2>1, <3>2 DEF RunInv
    <3> QED BY Zenon, <3>1, <3>2
  <2>2. ASSUME NEW u \in Threads, NEW w \in Threads, pc'[u] # "idle", Runs(w, tx[u].from)'
        PROVE  u = w
    <3>1. pc'[w] # "idle" /\ tx'[w].from = tx'[u].from
      BY Zenon, <2>2 DEF Runs
    <3>2. CASE u # t /\ w # t
      <4>1. pc[u] # "idle" /\ Runs(w, tx[u].from)
        BY Zenon, <1>6, <1>7, <2>2, <3>1, <3>2 DEF Runs
      <4> QED BY Zenon, <1>3, <4>1 DEF RunInv
    <3>3. CASE u = t /\ w # t
      BY Zenon, <1>5, <1>6, <1>7, <1>10, <3>1, <3>3
    <3>4. CASE u # t /\ w = t
      BY Zenon, <1>5, <1>6, <1>7, <1>10, <2>2, <3>1, <3>4
    <3> QED BY Zenon, <3>2, <3>3, <3>4
  <2> QED BY Zenon, <2>1, <2>2 DEF RunInv
<1>13. \A u \in Threads : pc[u] # "idle" => Touched(tx[u]) \cap Touched(x) = {}
  <2> SUFFICES ASSUME NEW u \in Threads, pc[u] # "idle" PROVE Touched(tx[u]) \cap Touched(x) = {}
    BY Zenon
  <2>1. \A b \in Accounts : \A i \in DOMAIN pending[b] :
           b # tx[u].from => Touched(tx[u]) \cap Touched(pending[b][i]) = {}
    BY Zenon, <1>3, Apart
  <2> QED BY Zenon, <1>4, <1>10, <2>1 DEF x
<1>14. Executing(Executed, x, "snapshot", stateObjects[t], {}, trie)
  <2>1. ASSUME NEW b \in Touched(x)
        PROVE  /\ trie[b] = Executed[b]
               /\ b \in DOMAIN stateObjects[t] => stateObjects[t][b] = Executed[b]
    <3>1. b \in Accounts
      BY Zenon, <1>4, TouchedAccounts
    <3>2. \A u \in Threads : pc[u] # "idle" => b \notin Touched(tx[u])
      BY Zenon, <1>13
    <3>3. trie[b] = Executed[b]
      BY Zenon, <1>3, <3>1, <3>2 DEF TrieInv
    <3>4. \A u \in Threads : ~Runs(u, a)
      BY Zenon, <1>2 DEF Runs
    <3>5. b \in DOMAIN stateObjects[t] => stateObjects[t][b] = Executed[b]
      BY Zenon, <1>2, <1>3, <3>4 DEF ObjectInv, x
    <3> QED BY Zenon, <3>3, <3>5
  <2>2. Local(Executed, x, "snapshot") = Executed
    BY DEF Local
  <2>3. "snapshot" \notin {"call", "fee", "finalise", "append"} /\ "snapshot" \notin {"fee", "finalise"}
    OBVIOUS
  <2> QED BY Zenon, <2>1, <2>2, <2>3 DEF Executing
<1>15. ThreadInv'
  <2> SUFFICES ASSUME NEW u \in Threads
               PROVE  IF pc'[u] = "idle" THEN dirties'[u] = {}
                      ELSE Executing(Executed', tx'[u], pc'[u], stateObjects'[u], dirties'[u], trie')
    BY Zenon DEF ThreadInv
  <2>1. CASE u = t
    <3>1. dirties[t] = {} /\ pc'[t] # "idle"
      BY Zenon, <1>1, <1>3, <1>6 DEF ThreadInv
    <3> QED BY Zenon, <1>1, <1>6, <1>7, <1>9, <1>14, <2>1, <3>1
  <2>2. CASE u # t
    BY Zenon, <1>1, <1>3, <1>6, <1>7, <1>9, <2>2 DEF ThreadInv
  <2> QED BY Zenon, <2>1, <2>2
<1>16. TrieInv'
  <2> SUFFICES ASSUME NEW b \in Accounts, \A u \in Threads : pc'[u] # "idle" => b \notin Touched(tx'[u])
               PROVE  trie'[b] = Executed'[b]
    BY Zenon DEF TrieInv
  <2>1. \A u \in Threads : pc[u] # "idle" => b \notin Touched(tx[u])
    BY Zenon, <1>10
  <2> QED BY Zenon, <1>1, <1>3, <1>9, <2>1 DEF TrieInv
<1>17. ObjectInv'
  <2>1. ASSUME NEW c \in Accounts, NEW u \in Threads
        PROVE  /\ pending'[c] # << >> /\ (\A w \in Threads : ~Runs(w, c)') =>
                     \A b \in Touched(pending'[c][1]) :
                        b \in DOMAIN stateObjects'[u] => stateObjects'[u][b] = Executed'[b]
               /\ Len(pending'[c]) = 2 =>
                     \A i \in DOMAIN pending'[c] : \A b \in Touched(pending'[c][i]) :
                        b \in DOMAIN stateObjects'[u] => Runs(u, c)' /\ b \in Touched(tx'[u])
    <3>1. (\A w \in Threads : ~Runs(w, c)') => \A w \in Threads : ~Runs(w, c)
      BY Zenon, <1>11
    <3>2. pending[c] # << >> /\ (\A w \in Threads : ~Runs(w, c)) =>
             \A b \in Touched(pending[c][1]) :
                b \in DOMAIN stateObjects[u] => stateObjects[u][b] = Executed[b]
      BY Zenon, <1>3 DEF ObjectInv
    <3>3. Len(pending[c]) = 2 =>
             \A i \in DOMAIN pending[c] : \A b \in Touched(pending[c][i]) :
                b \in DOMAIN stateObjects[u] => Runs(u, c)' /\ b \in Touched(tx'[u])
      <4> SUFFICES ASSUME Len(pending[c]) = 2, NEW i \in DOMAIN pending[c],
                          NEW b \in Touched(pending[c][i]), b \in DOMAIN stateObjects[u]
                   PROVE  Runs(u, c)' /\ b \in Touched(tx'[u])
        BY Zenon
      <4>1. Runs(u, c) /\ b \in Touched(tx[u])
        BY Zenon, <1>3 DEF ObjectInv
      <4> QED BY Zenon, <1>11, <4>1
    <3> QED BY Zenon, <1>1, <1>9, <3>1, <3>2, <3>3
  <2> QED BY Zenon, <2>1 DEF ObjectInv
<1> QED BY Zenon, <1>8, <1>9, <1>12, <1>15, <1>16, <1>17 DEF SharedInv

-----------------------------------------------------------------------------
(* The theorem.                                                            *)

(* The empty block gives the genesis, and the batch is independent.        *)
LEMMA SharedInitial ==
    ASSUME IndependentBatches, Init
    PROVE  SharedInv
<1>1. /\ trie = Genesis /\ stateObjects = [t \in Threads |-> << >>]
      /\ dirties = [t \in Threads |-> {}] /\ pending \in Batches
      /\ tx = [t \in Threads |-> NoTx] /\ pc = [t \in Threads |-> "idle"] /\ txs = << >>
  BY Zenon DEF Init
<1>2. Process(txs) = First /\ Executed = Genesis
  <2>1. Process(txs) = First
    BY Zenon, <1>1, ProcessNone
  <2>2. First.trie = Genesis
    BY DEF First
  <2> QED BY Zenon, <2>1, <2>2 DEF Executed
<1>3. Genesis \in [Accounts -> Data] /\ \A a \in Accounts : Genesis[a].balance = Funds /\ Funds <= Funds
  BY BatchesAssumption DEF Genesis, Data
<1>4. /\ pending \in [Accounts -> Seq(Transactions)]
      /\ \A a \in Accounts : \A i \in DOMAIN pending[a] : pending[a][i].from = a
  BY Zenon, <1>1, BatchesAssumption
<1>5. /\ \A t \in Threads : pc[t] = "idle" /\ stateObjects[t] = << >> /\ dirties[t] = {}
      /\ DOMAIN << >> = {}
  BY <1>1
<1>6. SharedTypeOK
  <2>1. NoTx \in Transactions
    BY BatchesAssumption DEF NoTx, Transactions
  <2>2. tx \in [Threads -> Transactions] /\ pc \in [Threads -> Labels] /\ dirties \in [Threads -> SUBSET Accounts]
    BY <1>1, <2>1 DEF Labels
  <2>3. txs \in Seq(Transactions)
    BY <1>1
  <2>4. stateObjects = [t \in Threads |-> stateObjects[t]]
    BY Zenon, <1>1
  <2>5. \A t \in Threads : /\ DOMAIN stateObjects[t] \subseteq Accounts
                           /\ \A b \in DOMAIN stateObjects[t] : stateObjects[t][b] \in Data
    BY Zenon, <1>5
  <2> QED BY Zenon, <1>1, <1>3, <1>4, <2>2, <2>3, <2>4, <2>5 DEF SharedTypeOK
<1>7. BlockInv
  BY Zenon, <1>2, <1>3 DEF BlockInv, First
<1>8. PendingInv
  <2>1. Independent(pending)
    BY Zenon, <1>1 DEF IndependentBatches
  <2>2. \A a \in Accounts : pending[a] # << >> => Costs(pending[a]) <= Funds
    BY Zenon, <2>1 DEF Independent
  <2> QED BY Zenon, <1>2, <1>3, <1>4, <2>1, <2>2 DEF PendingInv
<1>9. RunInv /\ ThreadInv /\ TrieInv
  BY Zenon, <1>1, <1>2, <1>5 DEF RunInv, ThreadInv, TrieInv
<1>10. ObjectInv
  BY Zenon, <1>5 DEF ObjectInv
<1> QED BY Zenon, <1>6, <1>7, <1>8, <1>9, <1>10 DEF SharedInv

(* Every step keeps the invariant.                                         *)
LEMMA SharedInductive == SharedInv /\ [Next]_vars => SharedInv'
<1> SUFFICES ASSUME SharedInv, [Next]_vars PROVE SharedInv'
  BY Zenon
<1>1. CASE UNCHANGED vars
  <2>1. UNCHANGED <<trie, stateObjects, dirties, pending, tx, pc, txs>>
    BY Zenon, <1>1 DEF vars, threadVars
  <2>2. Executed' = Executed
    BY Zenon, <2>1 DEF Executed
  <2>3. SharedTypeOK' /\ BlockInv' /\ PendingInv'
    BY Zenon, <2>1, <2>2 DEF SharedInv, SharedTypeOK, BlockInv, PendingInv
  <2>4. RunInv' /\ ThreadInv' /\ TrieInv'
    BY Zenon, <2>1, <2>2 DEF SharedInv, RunInv, Runs, ThreadInv, TrieInv
  <2>5. ObjectInv'
    <3>1. \A u \in Threads : \A a : Runs(u, a)' <=> Runs(u, a)
      BY Zenon, <2>1 DEF Runs
    <3>2. ObjectInv
      BY Zenon DEF SharedInv
    <3>3. ASSUME NEW a \in Accounts, NEW t \in Threads
          PROVE  /\ pending[a] # << >> /\ (\A u \in Threads : ~Runs(u, a)') =>
                       \A b \in Touched(pending[a][1]) :
                          b \in DOMAIN stateObjects[t] => stateObjects[t][b] = Executed[b]
                 /\ Len(pending[a]) = 2 =>
                       \A i \in DOMAIN pending[a] : \A b \in Touched(pending[a][i]) :
                          b \in DOMAIN stateObjects[t] => Runs(t, a)' /\ b \in Touched(tx[t])
      BY Zenon, <3>1, <3>2 DEF ObjectInv
    <3> QED BY Zenon, <2>1, <2>2, <3>3 DEF ObjectInv
  <2> QED BY Zenon, <2>3, <2>4, <2>5 DEF SharedInv
<1>2. ASSUME NEW t \in Threads, Peek(t) \/ commitTransaction(t) PROVE SharedInv'
  <2>1. CASE Peek(t)
    BY Zenon, <2>1, PeekKeeps
  <2>2. CASE Snapshot(t)
    BY Zenon, <2>2, SnapshotKeeps
  <2>3. CASE buyGas(t)
    BY Zenon, <2>3, BuyKeeps
  <2>4. CASE Call(t)
    BY Zenon, <2>4, CallKeeps
  <2>5. CASE AddFee(t)
    BY Zenon, <2>5, FeeKeeps
  <2>6. CASE Finalise(t)
    BY Zenon, <2>6, FinaliseKeeps
  <2>7. CASE AppendTx(t)
    BY Zenon, <2>7, AppendKeeps
  <2>8. CASE RevertToSnapshot(t)
    BY Zenon, <2>8, RevertKeeps
  <2> QED BY Zenon, <1>2, <2>1, <2>2, <2>3, <2>4, <2>5, <2>6, <2>7, <2>8 DEF commitTransaction
<1> QED BY Zenon, <1>1, <1>2 DEF Next

(* If no two senders' transactions have an account in common, no sender    *)
(* has more than two (one, if it concerns the coinbase) and all can pay    *)
(* for them, the block that the threads of commitTransactions leave behind *)
(* is valid wherever they stop, for any number of threads.                 *)
THEOREM IndependentBlocksAreValid ==
    ASSUME IndependentBatches
    PROVE  Spec => []MinedBlockIsValid
<1>1. Init => SharedInv
  BY Zenon, SharedInitial
<1>2. SharedInv => MinedBlockIsValid
  <2> SUFFICES ASSUME SharedInv, Done PROVE Process(txs) = [ok |-> TRUE, trie |-> trie]
    BY Zenon DEF MinedBlockIsValid
  <2>1. \A b \in Accounts : trie[b] = Executed[b]
    BY Zenon DEF SharedInv, TrieInv, Done
  <2>2. trie \in [Accounts -> Data] /\ Executed \in [Accounts -> Data]
    BY Zenon DEF SharedInv, SharedTypeOK, BlockInv
  <2>3. trie = Executed
    <3>1. trie = [b \in Accounts |-> trie[b]] /\ Executed = [b \in Accounts |-> Executed[b]]
      BY Zenon, <2>2
    <3> QED BY SMT, <2>1, <3>1
  <2> QED BY Zenon, <2>3 DEF SharedInv, BlockInv
<1> QED BY <1>1, <1>2, SharedInductive, PTL DEF Spec

=============================================================================
