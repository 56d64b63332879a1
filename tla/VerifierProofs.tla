--------------------------- MODULE VerifierProofs ---------------------------
(***************************************************************************)
(* Proofs about the correctness tool (Verifier), which the threads of the  *)
(* miner share.                                                            *)
(***************************************************************************)
EXTENDS Verifier, FiniteSetTheorems, WellFoundedInduction, TLAPS

-----------------------------------------------------------------------------
(* The last round of verify is complete, for any number of threads and any *)
(* history: that a thread is found done before its list is read is enough, *)
(* although the lists grow, and ids are stored, while verify reads.        *)

Method == [id : Nat \cup {-1}, itemAddrS : Senders, requestAmnt : Requests]

(* The variables have their types.                                         *)
VerifierTypeOK ==
    /\ threadLists \in [ThreadIds -> Seq(Method)]
    /\ numTxnsAdded \in Nat
    /\ threadsDone \subseteq ThreadIds
    /\ apc \in [ThreadIds -> {"add", "count", "id", "done"}]
    /\ index \in [ThreadIds -> Nat]
    /\ tId \in Nat /\ pos \in Nat \ {0}
    /\ stop \in BOOLEAN

(* A thread is done when it has told so.  A method lacks its id only while *)
(* the thread that appended it is in LockFreeAddTxn, and is its last.      *)
ListInv(t) ==
    /\ apc[t] = "done" <=> t \in threadsDone
    /\ \A k \in DOMAIN threadLists[t] :
          threadLists[t][k].id = -1 => k = Len(threadLists[t]) /\ apc[t] \in {"count", "id"}
    /\ apc[t] \in {"count", "id"} =>
          Len(threadLists[t]) > 0 /\ threadLists[t][Len(threadLists[t])].id = -1

(* An id is drawn once: no two methods have it, nor one that has it and a  *)
(* thread that is about to store it, nor two such threads.                 *)
IdInv ==
    /\ \A m \in Recorded : m.id < numTxnsAdded
    /\ \A m, k \in Recorded : m.id = k.id /\ m.id # -1 => m = k
    /\ \A t \in ThreadIds : apc[t] = "id" =>
          index[t] < numTxnsAdded /\ \A m \in Recorded : m.id # index[t]
    /\ \A t, u \in ThreadIds : apc[t] = "id" /\ apc[u] = "id" /\ index[t] = index[u] => t = u

RecordInv == (\A t \in ThreadIds : ListInv(t)) /\ IdInv

(* What verify has collected was recorded, under its id.                   *)
MethodsInv == \A id \in DOMAIN methods : id # -1 /\ methods[id] \in Recorded /\ methods[id].id = id

(* While stop is set, the lists behind verify belong to threads that are   *)
(* done, and it has collected all of them, and of the list it is in        *)
(* everything before pos.                                                  *)
Collected(m) == m.id \in DOMAIN methods /\ methods[m.id] = m

Seen(t, n) == t \in threadsDone /\ \A k \in DOMAIN threadLists[t] : k < n => Collected(threadLists[t][k])

RoundInv ==
    /\ vpc \in {"thread", "scan"} => tId < NumThreads
    /\ vpc \in {"checkpoint", "end"} => tId = NumThreads
    /\ vpc = "end" => stop
    /\ vpc # "idle" /\ ~isInBackground => threadsDone = ThreadIds
    /\ stop /\ vpc \in {"thread", "scan", "checkpoint", "end"} =>
          \A t \in ThreadIds : t < tId => Seen(t, Len(threadLists[t]) + 1)
    /\ stop /\ vpc = "scan" => Seen(tId, pos)

VerifierInv == VerifierTypeOK /\ RecordInv /\ MethodsInv /\ RoundInv

-----------------------------------------------------------------------------
(* What is recorded is in the list of a thread.                            *)
LEMMA InLists ==
    ASSUME NEW lists, NEW m
    PROVE  m \in UNION {{lists[t][k] : k \in DOMAIN lists[t]} : t \in ThreadIds}
             <=> \E t \in ThreadIds : \E k \in DOMAIN lists[t] : m = lists[t][k]
OBVIOUS

(* So before a step, and after it.                                         *)
LEMMA RecordedIs ==
    /\ \A m : m \in Recorded <=>
          \E t \in ThreadIds : \E k \in DOMAIN threadLists[t] : m = threadLists[t][k]
    /\ \A m : m \in Recorded' <=>
          \E t \in ThreadIds : \E k \in DOMAIN threadLists'[t] : m = threadLists'[t][k]
BY Zenon, InLists DEF Recorded

(* Recorded methods are methods.                                           *)
LEMMA RecordedType == ASSUME VerifierTypeOK PROVE Recorded \subseteq Method
<1> SUFFICES ASSUME NEW m \in Recorded PROVE m \in Method
  OBVIOUS
<1>1. PICK t \in ThreadIds : \E j \in DOMAIN threadLists[t] : m = threadLists[t][j]
  BY RecordedIs
<1>2. PICK k \in DOMAIN threadLists[t] : m = threadLists[t][k]
  BY <1>1
<1>3. threadLists[t] \in Seq(Method)
  BY DEF VerifierTypeOK
<1> QED BY <1>2, <1>3

(* A step of a recording thread t: the lists of the others stay, and every *)
(* method that has its id is still recorded.                               *)
Records(t) ==
    /\ VerifierTypeOK'
    /\ ListInv(t)'
    /\ \A u \in ThreadIds \ {t} : threadLists'[u] = threadLists[u] /\ apc'[u] = apc[u]
    /\ \A u \in ThreadIds \ {t} : u \in threadsDone' <=> u \in threadsDone
    /\ \A m \in Recorded : m.id # -1 => m \in Recorded'
    /\ IdInv'
    /\ apc[t] # "done" /\ UNCHANGED verifyVars

-----------------------------------------------------------------------------
(* The method enters the list.                                             *)
LEMMA PushBackRecords ==
    ASSUME VerifierTypeOK, RecordInv, NEW t \in ThreadIds, PushBack(t)
    PROVE  Records(t)
<1> DEFINE L == threadLists[t]
<1>1. PICK s \in Senders, a \in Requests :
        threadLists' = [threadLists EXCEPT ![t] =
              Append(@, [id |-> -1, itemAddrS |-> s, requestAmnt |-> a])]
  BY Zenon DEF PushBack
<1> DEFINE e == [id |-> -1, itemAddrS |-> s, requestAmnt |-> a]
<1>2. e \in Method /\ e.id = -1
  BY DEF Method
<1>3. L \in Seq(Method) /\ Len(L) \in Nat /\ DOMAIN L = 1..Len(L)
  BY DEF VerifierTypeOK
<1> HIDE DEF e
<1>4. /\ threadLists'[t] = Append(L, e)
      /\ \A u \in ThreadIds \ {t} : threadLists'[u] = threadLists[u]
      /\ threadLists' \in [ThreadIds -> Seq(Method)]
  BY <1>1, <1>2, <1>3 DEF VerifierTypeOK, e
<1>5. /\ Len(threadLists'[t]) = Len(L) + 1
      /\ DOMAIN threadLists'[t] = 1..(Len(L) + 1)
      /\ threadLists'[t][Len(L) + 1] = e
      /\ \A k \in 1..Len(L) : threadLists'[t][k] = L[k]
  BY <1>2, <1>3, <1>4
<1>6. /\ apc[t] = "add" /\ apc' = [apc EXCEPT ![t] = "count"]
      /\ UNCHANGED <<numTxnsAdded, threadsDone, index, verifyVars>>
  BY DEF PushBack
<1>7. apc'[t] = "count" /\ \A u \in ThreadIds \ {t} : apc'[u] = apc[u]
  BY <1>6 DEF VerifierTypeOK
<1>8. VerifierTypeOK'
  BY <1>4, <1>6 DEF VerifierTypeOK, verifyVars
<1>9. ListInv(t) /\ IdInv
  BY DEF RecordInv
<1>10. ListInv(t)'
  BY SMTT(30), <1>2, <1>3, <1>5, <1>6, <1>7, <1>9 DEF ListInv
<1>11. \A m : m \in Recorded' <=> m \in Recorded \/ m = e
  <2>1. ASSUME NEW m \in Recorded PROVE m \in Recorded'
    <3>1. PICK u \in ThreadIds : \E j \in DOMAIN threadLists[u] : m = threadLists[u][j]
      BY RecordedIs
    <3>2. PICK k \in DOMAIN threadLists[u] : m = threadLists[u][k]
      BY <3>1
    <3>3. k \in DOMAIN threadLists'[u] /\ threadLists'[u][k] = m
      BY SMTT(30), <1>3, <1>4, <1>5, <3>2
    <3> QED BY Zenon, <3>3, RecordedIs
  <2>2. e \in Recorded'
    <3>1. Len(L) + 1 \in DOMAIN threadLists'[t]
      BY <1>3, <1>5
    <3> QED BY Zenon, <1>5, <3>1, RecordedIs
  <2>3. ASSUME NEW m, m \in Recorded' PROVE m \in Recorded \/ m = e
    <3>1. PICK u \in ThreadIds : \E j \in DOMAIN threadLists'[u] : m = threadLists'[u][j]
      BY Zenon, <2>3, RecordedIs
    <3>2. PICK k \in DOMAIN threadLists'[u] : m = threadLists'[u][k]
      BY <3>1
    <3>3. m = e \/ (k \in DOMAIN threadLists[u] /\ m = threadLists[u][k])
      BY SMTT(30), <1>3, <1>4, <1>5, <3>2
    <3> QED BY Zenon, <3>3, RecordedIs
  <2> QED BY Zenon, <2>1, <2>2, <2>3
<1>12. IdInv'
  <2>1. \A m \in Recorded' : m.id < numTxnsAdded'
    BY <1>2, <1>6, <1>9, <1>11 DEF IdInv, VerifierTypeOK
  <2>2. \A m, k \in Recorded' : m.id = k.id /\ m.id # -1 => m = k
    BY Zenon, <1>2, <1>9, <1>11 DEF IdInv
  <2>3. \A u \in ThreadIds : apc'[u] = "id" => apc[u] = "id" /\ index'[u] = index[u] /\ index[u] \in Nat
    BY <1>6, <1>7 DEF VerifierTypeOK
  <2>4. \A u \in ThreadIds : apc'[u] = "id" =>
          index'[u] < numTxnsAdded' /\ \A m \in Recorded' : m.id # index'[u]
    BY <1>2, <1>6, <1>9, <1>11, <2>3 DEF IdInv
  <2>5. \A u, v \in ThreadIds : apc'[u] = "id" /\ apc'[v] = "id" /\ index'[u] = index'[v] => u = v
    BY <1>9, <2>3 DEF IdInv
  <2> QED BY <2>1, <2>2, <2>4, <2>5 DEF IdInv
<1> QED BY <1>4, <1>6, <1>7, <1>8, <1>10, <1>11, <1>12 DEF Records

(* The id is drawn.                                                        *)
LEMMA CountRecords ==
    ASSUME VerifierTypeOK, RecordInv, NEW t \in ThreadIds, AddTxnCount(t)
    PROVE  Records(t)
<1>1. /\ apc[t] = "count" /\ apc' = [apc EXCEPT ![t] = "id"]
      /\ numTxnsAdded' = numTxnsAdded + 1
      /\ index' = [index EXCEPT ![t] = numTxnsAdded' - 1]
      /\ UNCHANGED <<threadLists, threadsDone, verifyVars>>
  BY DEF AddTxnCount
<1>2. numTxnsAdded \in Nat /\ numTxnsAdded' - 1 = numTxnsAdded
  BY <1>1 DEF VerifierTypeOK
<1>3. /\ apc'[t] = "id" /\ \A u \in ThreadIds \ {t} : apc'[u] = apc[u]
      /\ index'[t] = numTxnsAdded /\ \A u \in ThreadIds \ {t} : index'[u] = index[u]
  BY <1>1, <1>2 DEF VerifierTypeOK
<1>4. VerifierTypeOK'
  BY <1>1, <1>2 DEF VerifierTypeOK, verifyVars
<1>5. ListInv(t) /\ IdInv
  BY DEF RecordInv
<1>6. ListInv(t)'
  BY <1>1, <1>3, <1>5 DEF ListInv
<1>7. Recorded' = Recorded
  BY <1>1 DEF Recorded
<1>8. \A m \in Recorded : m.id \in Int
  BY RecordedType DEF Method
<1>9. \A u \in ThreadIds : index[u] \in Nat
  BY DEF VerifierTypeOK
<1>10. IdInv'
  BY <1>1, <1>2, <1>3, <1>5, <1>7, <1>8, <1>9 DEF IdInv
<1> QED BY <1>1, <1>3, <1>4, <1>6, <1>7, <1>10 DEF Records

(* The id is stored in the method.                                         *)
LEMMA SetIdRecords ==
    ASSUME VerifierTypeOK, RecordInv, NEW t \in ThreadIds, SetId(t)
    PROVE  Records(t)
<1> DEFINE L == threadLists[t]
           n == Len(threadLists[t])
           e == [threadLists[t][n] EXCEPT !.id = index[t]]
<1>1. /\ apc[t] = "id" /\ apc' = [apc EXCEPT ![t] = "add"]
      /\ threadLists' = [threadLists EXCEPT ![t][n].id = index[t]]
      /\ UNCHANGED <<numTxnsAdded, threadsDone, index, verifyVars>>
  BY DEF SetId
<1>2. ListInv(t) /\ IdInv
  BY DEF RecordInv
<1>3. L \in Seq(Method) /\ n \in Nat /\ DOMAIN L = 1..n
  BY DEF VerifierTypeOK
<1>4. n > 0 /\ n \in DOMAIN L /\ L[n] \in Method /\ L[n].id = -1
  BY <1>1, <1>2, <1>3 DEF ListInv
<1>5. index[t] \in Nat
  BY DEF VerifierTypeOK
<1>6. e \in Method /\ e.id = index[t]
  BY <1>4, <1>5 DEF Method
<1>7. threadLists'[t] = [L EXCEPT ![n] = e] /\ \A u \in ThreadIds \ {t} : threadLists'[u] = threadLists[u]
  BY SMTT(30), <1>1 DEF VerifierTypeOK
<1> HIDE DEF e
<1>8. /\ threadLists'[t] \in Seq(Method) /\ Len(threadLists'[t]) = n
      /\ DOMAIN threadLists'[t] = 1..n /\ threadLists'[t][n] = e
      /\ \A k \in 1..n : k # n => threadLists'[t][k] = L[k]
  BY <1>3, <1>4, <1>6, <1>7
<1>9. threadLists' \in [ThreadIds -> Seq(Method)]
  <2>1. DOMAIN threadLists' = ThreadIds /\ threadLists' = [u \in ThreadIds |-> threadLists'[u]]
    BY Zenon, <1>1 DEF VerifierTypeOK
  <2>2. \A u \in ThreadIds : threadLists'[u] \in Seq(Method)
    BY Zenon, <1>7, <1>8 DEF VerifierTypeOK
  <2> QED BY Zenon, <2>1, <2>2
<1>10. apc'[t] = "add" /\ \A u \in ThreadIds \ {t} : apc'[u] = apc[u]
  BY <1>1 DEF VerifierTypeOK
<1>11. VerifierTypeOK'
  BY <1>1, <1>9 DEF VerifierTypeOK, verifyVars
<1>12. ListInv(t)'
  BY SMTT(30), <1>1, <1>2, <1>3, <1>5, <1>6, <1>8, <1>10 DEF ListInv
<1>13. ASSUME NEW m \in Recorded, m.id # -1 PROVE m \in Recorded'
  <2>1. PICK u \in ThreadIds : \E j \in DOMAIN threadLists[u] : m = threadLists[u][j]
    BY RecordedIs
  <2>2. PICK k \in DOMAIN threadLists[u] : m = threadLists[u][k]
    BY <2>1
  <2>3. k \in DOMAIN threadLists'[u] /\ m = threadLists'[u][k]
    BY <1>3, <1>4, <1>7, <1>8, <1>13, <2>2
  <2> QED BY Zenon, <2>3, RecordedIs
<1>14. ASSUME NEW m \in Recorded' PROVE m \in Recorded \/ m = e
  <2>1. PICK u \in ThreadIds : \E j \in DOMAIN threadLists'[u] : m = threadLists'[u][j]
    BY Zenon, <1>14, RecordedIs
  <2>2. PICK k \in DOMAIN threadLists'[u] : m = threadLists'[u][k]
    BY <2>1
  <2>3. m = e \/ (k \in DOMAIN threadLists[u] /\ m = threadLists[u][k])
    BY <1>3, <1>7, <1>8, <2>2
  <2> QED BY Zenon, <2>3, RecordedIs
<1>15. IdInv'
  <2>1. \A u \in ThreadIds : apc'[u] = "id" => u # t /\ apc[u] = "id" /\ index'[u] = index[u]
    BY <1>1, <1>10
  <2>2. index[t] < numTxnsAdded /\ \A m \in Recorded : m.id # index[t]
    BY <1>1, <1>2 DEF IdInv
  <2> QED BY <1>1, <1>2, <1>6, <1>14, <2>1, <2>2 DEF IdInv
<1> QED BY <1>1, <1>7, <1>10, <1>11, <1>12, <1>13, <1>15 DEF Records

(* A thread is done.                                                       *)
LEMMA FinishedRecords ==
    ASSUME VerifierTypeOK, RecordInv, NEW t \in ThreadIds, ThreadFinished(t)
    PROVE  Records(t)
<1>1. /\ apc[t] = "add" /\ apc' = [apc EXCEPT ![t] = "done"]
      /\ threadsDone' = threadsDone \cup {t}
      /\ UNCHANGED <<threadLists, numTxnsAdded, index, verifyVars>>
  BY DEF ThreadFinished
<1>2. apc'[t] = "done" /\ \A u \in ThreadIds \ {t} : apc'[u] = apc[u]
  BY <1>1 DEF VerifierTypeOK
<1>3. VerifierTypeOK'
  BY <1>1 DEF VerifierTypeOK, verifyVars
<1>4. ListInv(t) /\ IdInv
  BY DEF RecordInv
<1>5. ListInv(t)'
  BY <1>1, <1>2, <1>4 DEF ListInv
<1>6. Recorded' = Recorded
  BY <1>1 DEF Recorded
<1>7. IdInv'
  BY <1>1, <1>2, <1>4, <1>6 DEF IdInv
<1> QED BY <1>1, <1>2, <1>3, <1>5, <1>6, <1>7 DEF Records

(* The steps of a recording thread keep the invariant: the lists that      *)
(* verify relies on are those of threads that are done.                    *)
LEMMA RecordsKeeps ==
    ASSUME VerifierInv, NEW t \in ThreadIds, Records(t), isInBackground' = isInBackground
    PROVE  VerifierInv'
<1>1. /\ \A u \in ThreadIds \ {t} : threadLists'[u] = threadLists[u] /\ apc'[u] = apc[u]
      /\ \A u \in ThreadIds \ {t} : u \in threadsDone' <=> u \in threadsDone
      /\ \A m \in Recorded : m.id # -1 => m \in Recorded'
      /\ apc[t] # "done"
  BY DEF Records
<1>2. vpc' = vpc /\ tId' = tId /\ pos' = pos /\ stop' = stop /\ methods' = methods
  BY Zenon DEF Records, verifyVars
<1>3. RecordInv'
  <2>1. ASSUME NEW u \in ThreadIds PROVE ListInv(u)'
    <3>1. CASE u = t
      BY SMTT(30), <3>1 DEF Records
    <3>2. CASE u # t
      BY <1>1, <3>2 DEF VerifierInv, RecordInv, ListInv
    <3> QED BY <3>1, <3>2
  <2> QED BY <2>1 DEF Records, RecordInv
<1>4. MethodsInv'
  BY Zenon, <1>1, <1>2 DEF VerifierInv, MethodsInv
<1>5. t \notin threadsDone
  BY <1>1 DEF VerifierInv, RecordInv, ListInv
<1>6. \A u \in threadsDone : u \in threadsDone' /\ threadLists'[u] = threadLists[u]
  BY <1>1, <1>5 DEF VerifierInv, VerifierTypeOK
<1>7. \A u, n : Seen(u, n) => Seen(u, n)'
  BY Zenon, <1>2, <1>6 DEF Seen, Collected
<1>8. RoundInv'
  <2>1. threadsDone = ThreadIds => threadsDone' = ThreadIds
    BY <1>5
  <2>2. \A u \in ThreadIds : Seen(u, Len(threadLists[u]) + 1) => Seen(u, Len(threadLists[u]) + 1)'
    BY Zenon, <1>6, <1>7 DEF Seen
  <2>3. RoundInv
    BY DEF VerifierInv
  <2> QED BY <1>2, <1>7, <2>1, <2>2, <2>3 DEF RoundInv
<1>9. VerifierTypeOK'
  BY DEF Records
<1> QED BY SMTT(30), <1>3, <1>4, <1>8, <1>9 DEF VerifierInv

-----------------------------------------------------------------------------
(* The steps of verify leave what is recorded alone.                       *)
LEMMA RecordKept ==
    ASSUME VerifierInv, UNCHANGED addVars
    PROVE  RecordInv' /\ Recorded' = Recorded
<1>1. /\ threadLists' = threadLists /\ numTxnsAdded' = numTxnsAdded /\ threadsDone' = threadsDone
      /\ apc' = apc /\ index' = index
  BY DEF addVars
<1>2. Recorded' = Recorded
  BY <1>1 DEF Recorded
<1>3. IdInv'
  BY Zenon, <1>1, <1>2 DEF VerifierInv, RecordInv, IdInv
<1>4. \A t \in ThreadIds : ListInv(t)'
  BY Zenon, <1>1 DEF VerifierInv, RecordInv, ListInv
<1> QED BY <1>2, <1>3, <1>4 DEF RecordInv

(* A step of verify that collects nothing: what is left to show of it.     *)
LEMMA VerifyKeeps ==
    ASSUME VerifierInv, UNCHANGED addVars, methods' = methods \/ methods' = << >>,
           tId' \in Nat, pos' \in Nat \ {0}, stop' \in BOOLEAN, RoundInv'
    PROVE  VerifierInv'
<1>1. RecordInv' /\ Recorded' = Recorded
  BY RecordKept
<1>2. VerifierTypeOK'
  BY DEF VerifierInv, VerifierTypeOK, addVars
<1>3. MethodsInv'
  BY <1>1 DEF VerifierInv, MethodsInv
<1> QED BY <1>1, <1>2, <1>3 DEF VerifierInv

(* The start, and the start of a round.                                    *)
LEMMA BeginKeeps ==
    ASSUME VerifierInv, Begin \/ NewRound, isInBackground' = isInBackground
    PROVE  VerifierInv'
<1>1. /\ UNCHANGED addVars /\ threadsDone' = threadsDone
      /\ pos' = pos
      /\ \/ vpc' = "new" /\ tId' = tId /\ stop' = stop /\ methods' = methods
         \/ vpc' = "thread" /\ tId' = 0 /\ stop' = TRUE /\ methods' = << >>
      /\ ~isInBackground => threadsDone = ThreadIds
  BY DEF Begin, NewRound, VerifierInv, RoundInv, addVars
<1>2. tId' \in Nat /\ pos' \in Nat \ {0} /\ stop' \in BOOLEAN
  <2>1. tId' \in Nat /\ pos' \in Nat \ {0}
    BY <1>1 DEF VerifierInv, VerifierTypeOK
  <2>2. stop' \in BOOLEAN
    BY Zenon, <1>1 DEF VerifierInv, VerifierTypeOK
  <2> QED BY <2>1, <2>2
<1>3. \A t \in ThreadIds : ~(t < 0)
  BY DEF ThreadIds
<1>4. RoundInv'
  BY <1>1, <1>3, VerifierAssumption DEF RoundInv
<1> QED BY <1>1, <1>2, <1>4, VerifyKeeps

(* The flag of a thread is read before its list.                           *)
LEMMA CheckThreadKeeps ==
    ASSUME VerifierInv, CheckThread, isInBackground' = isInBackground
    PROVE  VerifierInv'
<1>1. /\ vpc = "thread" /\ vpc' = "scan" /\ pos' = 1
      /\ stop' = (stop /\ ~(isInBackground /\ tId \notin threadsDone))
      /\ UNCHANGED addVars /\ tId' = tId /\ methods' = methods
      /\ threadLists' = threadLists /\ threadsDone' = threadsDone
  BY DEF CheckThread, addVars
<1>2. RoundInv /\ VerifierTypeOK
  BY DEF VerifierInv
<1>3. tId' \in Nat /\ pos' \in Nat \ {0} /\ stop' \in BOOLEAN
  BY <1>1, <1>2 DEF VerifierTypeOK
<1>4. tId \in ThreadIds
  <2>1. tId < NumThreads
    BY Zenon, <1>1, <1>2 DEF RoundInv
  <2> QED BY <1>2, <2>1, VerifierAssumption DEF VerifierTypeOK, ThreadIds
<1>5. stop' => stop /\ tId \in threadsDone
  BY Zenon, <1>1, <1>2, <1>4 DEF RoundInv, VerifierTypeOK
<1>6. \A k \in DOMAIN threadLists[tId] : ~(k < 1)
  BY <1>2, <1>4 DEF VerifierTypeOK
<1>7. stop' => Seen(tId, pos)'
  BY Zenon, <1>1, <1>5, <1>6 DEF Seen
<1>8. \A t \in ThreadIds : Seen(t, Len(threadLists[t]) + 1) => Seen(t, Len(threadLists[t]) + 1)'
  BY Zenon, <1>1 DEF Seen, Collected
<1>9. RoundInv'
  BY <1>1, <1>2, <1>5, <1>7, <1>8 DEF RoundInv
<1> QED BY <1>1, <1>3, <1>9, VerifyKeeps

(* The end of a list.                                                      *)
LEMMA ScanEndKeeps ==
    ASSUME VerifierInv, ScanEnd, isInBackground' = isInBackground
    PROVE  VerifierInv'
<1>1. /\ vpc = "scan" /\ tId' = tId + 1
      /\ vpc' = IF tId + 1 < NumThreads THEN "thread" ELSE "checkpoint"
      /\ pos > Len(threadLists[tId])
      /\ UNCHANGED addVars /\ pos' = pos /\ stop' = stop /\ methods' = methods
      /\ threadLists' = threadLists /\ threadsDone' = threadsDone
  BY DEF ScanEnd, addVars
<1>2. RoundInv /\ VerifierTypeOK
  BY DEF VerifierInv
<1>3. tId \in Nat /\ tId' \in Nat /\ pos' \in Nat \ {0} /\ stop' \in BOOLEAN
  BY <1>1, <1>2 DEF VerifierTypeOK
<1>4. tId \in ThreadIds /\ tId < NumThreads
  <2>1. tId < NumThreads
    BY Zenon, <1>1, <1>2 DEF RoundInv
  <2> QED BY <1>3, <2>1, VerifierAssumption DEF ThreadIds
<1>5. \A k \in DOMAIN threadLists[tId] : k < pos
  BY <1>1, <1>2, <1>4 DEF VerifierTypeOK
<1>6. stop => Seen(tId, Len(threadLists[tId]) + 1)
  BY Zenon, <1>1, <1>2, <1>5 DEF RoundInv, Seen
<1>7. \A t \in ThreadIds : Seen(t, Len(threadLists[t]) + 1) => Seen(t, Len(threadLists[t]) + 1)'
  BY Zenon, <1>1 DEF Seen, Collected
<1>8. \A t \in ThreadIds : t < tId + 1 => t < tId \/ t = tId
  BY <1>3 DEF ThreadIds
<1>9. (tId + 1 < NumThreads) \/ tId + 1 = NumThreads
  BY <1>3, <1>4, VerifierAssumption
<1>10. RoundInv'
  BY SMTT(30), <1>1, <1>2, <1>6, <1>7, <1>8, <1>9 DEF RoundInv
<1> QED BY <1>1, <1>3, <1>10, VerifyKeeps

(* A round has ended.                                                      *)
LEMMA CheckpointKeeps ==
    ASSUME VerifierInv, verifyCheckpoint, isInBackground' = isInBackground
    PROVE  VerifierInv'
<1>1. /\ vpc = "checkpoint" /\ vpc' \in {"end", "new", "panic"}
      /\ vpc' = "end" => stop
      /\ UNCHANGED addVars /\ tId' = tId /\ pos' = pos /\ stop' = stop /\ methods' = methods
      /\ threadLists' = threadLists /\ threadsDone' = threadsDone
  BY DEF verifyCheckpoint, addVars
<1>2. RoundInv /\ VerifierTypeOK
  BY DEF VerifierInv
<1>3. tId' \in Nat /\ pos' \in Nat \ {0} /\ stop' \in BOOLEAN
  BY <1>1, <1>2 DEF VerifierTypeOK
<1>4. \A t \in ThreadIds : Seen(t, Len(threadLists[t]) + 1) => Seen(t, Len(threadLists[t]) + 1)'
  BY Zenon, <1>1 DEF Seen, Collected
<1>5. RoundInv'
  BY <1>1, <1>2, <1>4 DEF RoundInv
<1> QED BY <1>1, <1>3, <1>5, VerifyKeeps

(* A method is collected under its id, over none but itself.               *)
LEMMA ScanElementKeeps ==
    ASSUME VerifierInv, ScanElement, isInBackground' = isInBackground
    PROVE  VerifierInv'
<1> DEFINE m == threadLists[tId][pos]
<1>1. /\ vpc = "scan" /\ vpc' = vpc /\ pos' = pos + 1
      /\ pos <= Len(threadLists[tId])
      /\ methods' = IF m.id = -1 THEN methods 
              ELSE [id \in DOMAIN methods \cup {m.id} |-> IF id = m.id THEN m ELSE methods[id]]
      /\ UNCHANGED addVars /\ tId' = tId /\ stop' = stop
      /\ threadLists' = threadLists /\ threadsDone' = threadsDone
  BY DEF ScanElement, addVars
<1>2. RoundInv /\ VerifierTypeOK /\ MethodsInv /\ IdInv
  BY DEF VerifierInv, RecordInv
<1>3. tId \in ThreadIds /\ threadLists[tId] \in Seq(Method)
  <2>1. tId < NumThreads
    BY Zenon, <1>1, <1>2 DEF RoundInv
  <2> QED BY <1>2, <2>1, VerifierAssumption DEF VerifierTypeOK, ThreadIds
<1>4. DOMAIN threadLists[tId] = 1..Len(threadLists[tId]) /\ Len(threadLists[tId]) \in Nat /\ pos \in Nat \ {0}
  BY <1>2, <1>3 DEF VerifierTypeOK
<1>5. RecordInv' /\ Recorded' = Recorded
  BY <1>1, RecordKept
<1>6. VerifierTypeOK'
  BY <1>1, <1>2, <1>4 DEF VerifierTypeOK, addVars
<1>7. pos \in DOMAIN threadLists[tId]
  BY <1>1, <1>4
<1>8. PICK e : e = m /\ e \in Recorded
  BY Zenon, <1>3, <1>7, RecordedIs
<1>9. e.id # -1 =>
        /\ DOMAIN methods' = DOMAIN methods \cup {e.id}
        /\ methods'[e.id] = e
        /\ \A id \in DOMAIN methods : id # e.id => methods'[id] = methods[id]
  BY <1>1, <1>8
<1>10. e.id = -1 => methods' = methods
  BY <1>1, <1>8
<1> HIDE DEF m
<1>11. MethodsInv'
  <2>1. CASE e.id = -1
    BY Zenon, <1>2, <1>5, <1>10, <2>1 DEF MethodsInv
  <2>2. CASE e.id # -1
    BY <1>2, <1>5, <1>8, <1>9, <2>2 DEF MethodsInv
  <2> QED BY <2>1, <2>2
<1>12. \A k \in Recorded : Collected(k) => Collected(k)'
  <2> SUFFICES ASSUME NEW k \in Recorded, Collected(k) PROVE Collected(k)'
    OBVIOUS
  <2>1. k.id # -1
    BY <1>2 DEF Collected, MethodsInv
  <2>2. CASE e.id = -1
    BY Zenon, <1>10, <2>2 DEF Collected
  <2>3. CASE e.id # -1 /\ k.id = e.id
    <3>1. k = e
      BY Zenon, <1>2, <1>8, <2>3 DEF IdInv
    <3> QED BY <1>9, <2>3, <3>1 DEF Collected
  <2>4. CASE e.id # -1 /\ k.id # e.id
    BY <1>9, <2>4 DEF Collected
  <2> QED BY <2>2, <2>3, <2>4
<1>13. \A t \in ThreadIds, n \in Int : Seen(t, n) => Seen(t, n)'
  <2>1. \A t \in ThreadIds : \A k \in DOMAIN threadLists[t] : threadLists[t][k] \in Recorded
    BY Zenon, RecordedIs
  <2> QED BY Zenon, <1>1, <1>12, <2>1 DEF Seen
<1>14. \A t \in ThreadIds : Seen(t, Len(threadLists[t]) + 1) => Seen(t, Len(threadLists[t]) + 1)'
  <2>1. \A t \in ThreadIds : Len(threadLists[t]) + 1 \in Int
    BY <1>2 DEF VerifierTypeOK
  <2> QED BY Zenon, <1>1, <1>13, <2>1 DEF Seen
<1>15. ASSUME stop PROVE Seen(tId, pos)'
  <2>1. Seen(tId, pos)
    BY SMTT(30), <1>1, <1>2, <1>15 DEF RoundInv
  <2>2. apc[tId] = "done"
    BY <1>3, <2>1 DEF Seen, VerifierInv, RecordInv, ListInv
  <2>3. e.id # -1
    BY <1>3, <1>7, <1>8, <2>2 DEF m, VerifierInv, RecordInv, ListInv
  <2>4. Collected(e)'
    BY <1>9, <2>3 DEF Collected
  <2>5. ASSUME NEW k \in DOMAIN threadLists[tId], k < pos + 1, NEW x, x = threadLists[tId][k]
        PROVE  Collected(x)'
    <3>1. x \in Recorded
      BY Zenon, <1>3, <2>5, RecordedIs
    <3>2. CASE k < pos
      <4>1. Collected(x)
        BY Zenon, <2>1, <2>5, <3>2 DEF Seen
      <4> QED BY Zenon, <1>12, <3>1, <4>1
    <3>3. CASE k = pos
      BY Zenon, <1>8, <2>4, <2>5, <3>3 DEF m
    <3> QED BY <1>4, <2>5, <3>2, <3>3
  <2>6. tId \in threadsDone
    BY <2>1 DEF Seen
  <2> QED BY Zenon, <1>1, <2>5, <2>6 DEF Seen, Collected
<1>16. RoundInv'
  BY <1>1, <1>2, <1>14, <1>15 DEF RoundInv
<1> QED BY SMTT(30), <1>5, <1>6, <1>11, <1>16 DEF VerifierInv

(* What is returned changes nothing.                                       *)
LEMMA VerifierStutters ==
    ASSUME VerifierInv, UNCHANGED <<addVars, verifyVars, isInBackground>>
    PROVE  VerifierInv'
<1>1. RecordInv' /\ Recorded' = Recorded
  BY RecordKept
<1>2. VerifierTypeOK' /\ MethodsInv'
  BY <1>1 DEF VerifierInv, VerifierTypeOK, MethodsInv, addVars, verifyVars
<1>3. RoundInv'
  BY Zenon DEF VerifierInv, RoundInv, Seen, Collected, addVars, verifyVars
<1> QED BY <1>1, <1>2, <1>3 DEF VerifierInv

(* Nothing is recorded yet.                                                *)
LEMMA VerifierInitial == VerifierInit => VerifierInv
<1> SUFFICES ASSUME VerifierInit PROVE VerifierInv
  OBVIOUS
<1>1. VerifierTypeOK
  <2>1. << >> \in Seq(Method)
    OBVIOUS
  <2>2. threadLists \in [ThreadIds -> Seq(Method)]
    BY <2>1 DEF VerifierInit
  <2>3. apc \in [ThreadIds -> {"add", "count", "id", "done"}] /\ index \in [ThreadIds -> Nat]
    BY DEF VerifierInit
  <2>4. numTxnsAdded \in Nat /\ threadsDone \subseteq ThreadIds /\ tId \in Nat /\ pos \in Nat \ {0}
    BY DEF VerifierInit
  <2>5. stop \in BOOLEAN
    BY Zenon DEF VerifierInit
  <2> QED BY Zenon, <2>2, <2>3, <2>4, <2>5 DEF VerifierTypeOK
<1>2. \A t \in ThreadIds : threadLists[t] = << >> /\ DOMAIN threadLists[t] = {}
  BY DEF VerifierInit
<1>3. Recorded = {}
  BY <1>2 DEF Recorded
<1>4. RecordInv
  BY <1>2, <1>3 DEF VerifierInit, RecordInv, ListInv, IdInv
<1>5. MethodsInv
  BY DEF VerifierInit, MethodsInv
<1>6. RoundInv
  BY DEF VerifierInit, RoundInv
<1> QED BY <1>1, <1>4, <1>5, <1>6 DEF VerifierInv

(* The invariant is inductive.                                             *)
LEMMA VerifierInductive == VerifierInv /\ [VerifierNext]_verifierVars => VerifierInv'
<1> SUFFICES ASSUME VerifierInv, [VerifierNext]_verifierVars PROVE VerifierInv'
  OBVIOUS
<1>1. ASSUME NEW t \in ThreadIds, LockFreeAddTxn(t) \/ ThreadFinished(t), isInBackground' = isInBackground
      PROVE  VerifierInv'
  <2>1. VerifierTypeOK /\ RecordInv
    BY DEF VerifierInv
  <2>2. Records(t)
    BY Zenon, <1>1, <2>1, PushBackRecords, CountRecords, SetIdRecords, FinishedRecords DEF LockFreeAddTxn
  <2> QED BY Zenon, <1>1, <2>2, RecordsKeeps
<1>2. ASSUME verify, isInBackground' = isInBackground PROVE VerifierInv'
  BY Zenon, <1>2, BeginKeeps, CheckThreadKeeps, ScanElementKeeps, ScanEndKeeps, CheckpointKeeps DEF verify
<1>3. ASSUME Verify \/ WaitVerifier, isInBackground' = isInBackground PROVE VerifierInv'
  BY Zenon, <1>3, VerifierStutters DEF Verify, WaitVerifier
<1>4. ASSUME UNCHANGED verifierVars PROVE VerifierInv'
  BY <1>4, VerifierStutters DEF verifierVars
<1> QED BY Zenon, <1>1, <1>2, <1>3, <1>4 DEF VerifierNext, Ended

(* A round that found every thread done has collected what is recorded.    *)
LEMMA RoundCollects ==
    ASSUME VerifierInv, stop, vpc \in {"checkpoint", "end"}
    PROVE  {methods[id] : id \in DOMAIN methods} = Recorded
<1>1. RoundInv /\ MethodsInv /\ VerifierTypeOK
  BY DEF VerifierInv
<1>2. \A t \in ThreadIds : t < tId
  BY <1>1, VerifierAssumption DEF RoundInv, ThreadIds
<1>3. \A t \in ThreadIds : Seen(t, Len(threadLists[t]) + 1)
  BY <1>1, <1>2 DEF RoundInv
<1>4. \A t \in ThreadIds : \A k \in DOMAIN threadLists[t] : k < Len(threadLists[t]) + 1
  BY <1>1 DEF VerifierTypeOK
<1>5. \A m \in Recorded : Collected(m)
  <2> SUFFICES ASSUME NEW m \in Recorded PROVE Collected(m)
    OBVIOUS
  <2>1. PICK t \in ThreadIds : \E k \in DOMAIN threadLists[t] : m = threadLists[t][k]
    BY RecordedIs
  <2> QED BY Zenon, <1>3, <1>4, <2>1 DEF Seen
<1> QED BY ZenonT(40), <1>1, <1>5 DEF MethodsInv, Collected

(* When verify stops, its last round has seen every recorded method, for   *)
(* any number of threads, in the foreground and in the background, where   *)
(* the threads go on recording while their lists are read.                 *)
THEOREM LastRoundSeesAll == VerifierSpec => []LastRoundComplete
<1>1. VerifierInv => LastRoundComplete
  <2>1. VerifierInv /\ vpc = "end" => stop
    BY DEF VerifierInv, RoundInv
  <2> QED BY Zenon, <2>1, RoundCollects DEF LastRoundComplete
<1> QED BY <1>1, VerifierInitial, VerifierInductive, PTL DEF VerifierSpec

-----------------------------------------------------------------------------
(* The verdict on the methods of a round is exact, for any number of them: *)
(* the comparisons halve the sum of a method once for every greater one of *)
(* its sender, a method is promoted again by each of these that is         *)
(* consumed, and so it is consumed at less than its full sum exactly if a  *)
(* greater one comes later.                                                *)

(* A set of natural numbers has a smallest.                                *)
LEMMA SmallestNumber ==
    ASSUME NEW N, N \subseteq Nat, N # {}
    PROVE  \E i \in N : \A j \in N : i <= j
<1>1. PICK i \in N : \A j \in N : ~ (<<j, i>> \in OpToRel(<, Nat))
  BY Zenon, NatLessThanWellFounded, WFMin
<1>2. \A j \in N : ~ (j < i)
  BY Zenon, <1>1 DEF OpToRel
<1> QED BY <1>2

-----------------------------------------------------------------------------
(* The powers of two.                                                      *)

(* f has the powers up to n.                                               *)
PowersTo(f, n) == f = [k \in 0..n |-> IF k = 0 THEN 1 ELSE 2 * f[k - 1]]

(* There are such functions,                                               *)
LEMMA PowersExist == \A n \in Nat : \E f : PowersTo(f, n)
<1> DEFINE Bad == {n \in Nat : ~ \E f : PowersTo(f, n)}
<1> SUFFICES ASSUME Bad # {} PROVE FALSE
  OBVIOUS
<1>1. PICK n \in Bad : \A j \in Bad : n <= j
  <2>1. Bad \subseteq Nat
    OBVIOUS
  <2> HIDE DEF Bad
  <2> QED BY Zenon, <2>1, SmallestNumber
<1>2. n \in Nat /\ ~ \E f : PowersTo(f, n)
  BY <1>1
<1>3. CASE n = 0
  <2>1. PowersTo([k \in 0..0 |-> 1], 0)
    BY DEF PowersTo
  <2> QED BY <1>2, <1>3, <2>1
<1>4. CASE n # 0
  <2>1. n - 1 \in Nat /\ n - 1 \notin Bad
    BY <1>1, <1>2, <1>4
  <2>2. PICK g : PowersTo(g, n - 1)
    BY <2>1
  <2> DEFINE f == [k \in 0..n |-> IF k = n THEN 2 * g[n - 1] ELSE g[k]]
  <2>3. \A k \in 0..(n - 1) : g[k] = IF k = 0 THEN 1 ELSE 2 * g[k - 1]
    BY <2>2 DEF PowersTo
  <2>4. ASSUME NEW k \in 0..n PROVE f[k] = IF k = 0 THEN 1 ELSE 2 * f[k - 1]
    <3>1. CASE k = n
      <4>1. k # 0 /\ k - 1 \in 0..n /\ k - 1 # n
        BY <1>2, <1>4, <3>1
      <4>2. f[k] = 2 * g[k - 1] /\ f[k - 1] = g[k - 1]
        BY <3>1, <4>1
      <4> QED BY <4>1, <4>2
    <3>2. CASE k # n
      <4>1. k \in 0..(n - 1) /\ f[k] = g[k] /\ (k # 0 => f[k - 1] = g[k - 1])
        BY <1>2, <3>2
      <4> QED BY <2>3, <4>1
    <3> QED BY <3>1, <3>2
  <2>5. f = [k \in 0..n |-> f[k]]
    OBVIOUS
  <2> HIDE DEF f
  <2>6. PowersTo(f, n)
    BY Zenon, <2>4, <2>5 DEF PowersTo
  <2> QED BY <1>2, <2>6
<1> QED BY <1>3, <1>4

(* ... they agree, and their values are positive numbers.                  *)
LEMMA PowersAgree ==
    ASSUME NEW f, NEW g, NEW n \in Nat, NEW p \in Nat, PowersTo(f, n), PowersTo(g, p),
           NEW q \in Nat, q <= n, q <= p
    PROVE  f[q] = g[q] /\ f[q] \in Nat /\ f[q] > 0
<1> DEFINE Bad == {k \in Nat : k <= n /\ k <= p /\ ~(f[k] = g[k] /\ f[k] \in Nat /\ f[k] > 0)}
<1> SUFFICES ASSUME Bad # {} PROVE FALSE
  OBVIOUS
<1>1. PICK k \in Bad : \A j \in Bad : k <= j
  <2>1. Bad \subseteq Nat
    OBVIOUS
  <2> HIDE DEF Bad
  <2> QED BY Zenon, <2>1, SmallestNumber
<1>2. /\ k \in Nat /\ k <= n /\ k <= p /\ ~(f[k] = g[k] /\ f[k] \in Nat /\ f[k] > 0)
  BY <1>1
<1>3. /\ f[k] = IF k = 0 THEN 1 ELSE 2 * f[k - 1]
      /\ g[k] = IF k = 0 THEN 1 ELSE 2 * g[k - 1]
  <2>1. k \in 0..n /\ k \in 0..p
    BY <1>2
  <2>2. /\ \A j \in 0..n : f[j] = IF j = 0 THEN 1 ELSE 2 * f[j - 1]
        /\ \A j \in 0..p : g[j] = IF j = 0 THEN 1 ELSE 2 * g[j - 1]
    BY DEF PowersTo
  <2> QED BY <2>1, <2>2
<1>4. CASE k = 0
  BY SMTT(30), <1>2, <1>3, <1>4
<1>5. CASE k # 0
  <2>1. k - 1 \in Nat /\ k - 1 <= n /\ k - 1 <= p /\ k - 1 \notin Bad
    BY <1>1, <1>2, <1>5
  <2>2. f[k - 1] = g[k - 1] /\ f[k - 1] \in Nat /\ f[k - 1] > 0
    BY <2>1
  <2> QED BY SMTT(30), <1>2, <1>3, <1>5, <2>2
<1> QED BY <1>4, <1>5

(* Exp2 is what its definition says.                                       *)
LEMMA Exp2Powers ==
    /\ Exp2[0] = 1
    /\ \A n \in Nat : Exp2[n] \in Nat /\ Exp2[n] > 0 /\ Exp2[n + 1] = 2 * Exp2[n]
<1> DEFINE Is(F) == F = [n \in Nat |-> IF n = 0 THEN 1 ELSE 2 * F[n - 1]]
           pow(n) == CHOOSE f : PowersTo(f, n)
           E == [n \in Nat |-> pow(n)[n]]
<1>1. ASSUME NEW n \in Nat PROVE PowersTo(pow(n), n)
  BY Zenon, PowersExist
<1> HIDE DEF pow
<1>2. Is(E)
  <2>1. ASSUME NEW n \in Nat PROVE E[n] = IF n = 0 THEN 1 ELSE 2 * E[n - 1]
    <3>1. \A j \in 0..n : pow(n)[j] = IF j = 0 THEN 1 ELSE 2 * pow(n)[j - 1]
      <4>1. PICK g : g = pow(n)
        OBVIOUS
      <4>2. PowersTo(g, n)
        BY <1>1, <4>1
      <4>3. \A j \in 0..n : g[j] = IF j = 0 THEN 1 ELSE 2 * g[j - 1]
        BY <4>2 DEF PowersTo
      <4> QED BY Zenon, <4>1, <4>3
    <3>2. n \in 0..n
      OBVIOUS
    <3>3. pow(n)[n] = IF n = 0 THEN 1 ELSE 2 * pow(n)[n - 1]
      BY Zenon, <3>1, <3>2
    <3>4. CASE n = 0
      BY <3>3, <3>4
    <3>5. CASE n # 0
      <4>1. n - 1 \in Nat /\ n - 1 <= n /\ n - 1 <= n - 1
        BY <3>5
      <4>2. pow(n)[n - 1] = pow(n - 1)[n - 1]
        <5>1. PowersTo(pow(n), n) /\ PowersTo(pow(n - 1), n - 1)
          BY Zenon, <1>1, <4>1
        <5>2. PICK f, g, p : f = pow(n) /\ g = pow(n - 1) /\ p = n - 1
          OBVIOUS
        <5>3. /\ PowersTo(f, n) /\ PowersTo(g, p) /\ p \in Nat /\ p <= n /\ p <= p
          BY <4>1, <5>1, <5>2
        <5>4. f[p] = g[p]
          BY <5>3, PowersAgree
        <5> QED BY Zenon, <5>2, <5>4
      <4>3. E[n] = pow(n)[n] /\ E[n - 1] = pow(n - 1)[n - 1]
        BY <4>1
      <4> QED BY <3>3, <3>5, <4>2, <4>3
    <3> QED BY <3>4, <3>5
  <2>2. E = [n \in Nat |-> E[n]]
    OBVIOUS
  <2> HIDE DEF E
  <2> QED BY Zenon, <2>1, <2>2
<1>3. Is(Exp2)
  <2>1. Exp2 = CHOOSE F : Is(F)
    BY Zenon DEF Exp2
  <2> HIDE DEF Is, E
  <2> QED BY Zenon, <1>2, <2>1
<1>4. \A n \in Nat : Exp2[n] = IF n = 0 THEN 1 ELSE 2 * Exp2[n - 1]
  <2>1. PICK F : F = Exp2
    OBVIOUS
  <2>2. Is(F)
    BY Zenon, <1>3, <2>1
  <2>3. \A n \in Nat : F[n] = IF n = 0 THEN 1 ELSE 2 * F[n - 1]
    BY <2>2
  <2> QED BY Zenon, <2>1, <2>3
<1>5. ASSUME NEW n \in Nat PROVE Exp2[n] \in Nat /\ Exp2[n] > 0
  <2> DEFINE f == [k \in 0..n |-> Exp2[k]]
  <2>1. PowersTo(f, n)
    <3>1. ASSUME NEW k \in 0..n PROVE f[k] = IF k = 0 THEN 1 ELSE 2 * f[k - 1]
      BY <1>4
    <3>2. f = [k \in 0..n |-> f[k]]
      OBVIOUS
    <3> HIDE DEF f
    <3> QED BY Zenon, <3>1, <3>2 DEF PowersTo
  <2>2. f[n] = Exp2[n] /\ n <= n
    OBVIOUS
  <2> HIDE DEF f
  <2> QED BY Zenon, <2>1, <2>2, PowersAgree
<1> QED BY <1>4, <1>5
-----------------------------------------------------------------------------
(* An item.                                                                *)

Item == [num : Int, den : Int, exponent : Int, promoteItems : Seq(Nat)]

(* The sum is two to the power of -e.                                      *)
Worth(i, e) ==
    /\ i \in Item /\ i.exponent = e
    /\ \E Q \in Nat : Q > 0 /\ i.num = Q /\ i.den = Q * Exp2[e]

(* ... in lowest terms, as long as items are only demoted.                 *)
Reduced(i, e) == i \in Item /\ i.exponent = e /\ i.num = 1 /\ i.den = Exp2[e]

(* demote halves a sum in lowest terms,                                    *)
LEMMA DemoteHalves ==
    ASSUME NEW e \in Nat, NEW i, Reduced(i, e)
    PROVE  Reduced(demote(i), e + 1) /\ demote(i).promoteItems = i.promoteItems
<1> DEFINE P == Exp2[e]
<1>1. P \in Nat /\ P > 0 /\ Exp2[e + 1] = 2 * P
  BY Exp2Powers
<1>2. i \in Item /\ i.exponent = e /\ i.num = 1 /\ i.den = P
  BY DEF Reduced
<1> HIDE DEF P
<1>3. P % (2 * P) # 0 /\ (2 * P) % P = 0 /\ (1 * (2 * P)) \div P = 2
  BY <1>1
<1>4. addFrac(i, -1, 2 * P) = [i EXCEPT !.num = (i.num * (2 * P)) \div i.den + (-1), !.den = 2 * P]
  BY <1>2, <1>3 DEF addFrac
<1>5. (i.num * (2 * P)) \div i.den + (-1) = 1
  BY <1>2, <1>3
<1>6. demote(i) = [[i EXCEPT !.num = 1, !.den = 2 * P] EXCEPT !.exponent = e + 1]
  BY Zenon, <1>1, <1>2, <1>4, <1>5 DEF demote
<1>7. 2 * P \in Int /\ e + 1 \in Int /\ 1 \in Int
  BY <1>1
<1>8. PICK d : d = 2 * P
  OBVIOUS
<1>9. /\ demote(i) \in Item /\ demote(i).exponent = e + 1 /\ demote(i).num = 1
      /\ demote(i).den = d /\ demote(i).promoteItems = i.promoteItems
  BY Zenon, <1>2, <1>6, <1>7, <1>8 DEF Item
<1> QED BY <1>1, <1>8, <1>9 DEF Reduced

(* promote doubles a sum,                                                  *)
LEMMA PromoteDoubles ==
    ASSUME NEW e \in Nat, NEW i, Worth(i, e + 1)
    PROVE  Worth(promote(i), e) /\ promote(i).promoteItems = i.promoteItems
<1> DEFINE P == Exp2[e]
<1>1. P \in Nat /\ P > 0 /\ Exp2[e + 1] = 2 * P
  BY Exp2Powers
<1>2. PICK Q \in Nat : Q > 0 /\ i.num = Q /\ i.den = Q * (2 * P)
  BY <1>1 DEF Worth
<1>3. i \in Item /\ i.exponent = e + 1 /\ ~(i.exponent < 0)
  BY DEF Worth
<1> HIDE DEF P
<1>4. (Q * (2 * P)) % (2 * P) = 0 /\ (1 * (Q * (2 * P))) \div (2 * P) = Q
  <2>1. PICK R \in Nat : R = 2 * P /\ R > 0
    BY <1>1
  <2>2. (Q * R) % R = 0 /\ (1 * (Q * R)) \div R = Q
    BY <1>2, <2>1
  <2> QED BY <2>1, <2>2
<1>5. addFrac(i, 1, 2 * P) = [i EXCEPT !.num = i.num + (1 * i.den) \div (2 * P)]
  BY <1>2, <1>4 DEF addFrac
<1>6. promote(i) = [[i EXCEPT !.num = 2 * Q] EXCEPT !.exponent = e]
  <2>1. i.num + (1 * i.den) \div (2 * P) = 2 * Q
    BY <1>2, <1>4
  <2>2. promote(i) = [addFrac(i, 1, 2 * P) EXCEPT !.exponent = i.exponent - 1]
    BY <1>1, <1>3 DEF promote
  <2>3. i.exponent - 1 = e
    BY <1>3
  <2> QED BY Zenon, <1>5, <2>1, <2>2, <2>3
<1>7. 2 * Q \in Nat /\ 2 * Q > 0 /\ Q * (2 * P) = (2 * Q) * P
  BY SMTT(30), <1>1, <1>2
<1>8. /\ promote(i) \in Item /\ promote(i).exponent = e /\ promote(i).num = 2 * Q
      /\ promote(i).den = i.den /\ promote(i).promoteItems = i.promoteItems
  <2>1. PICK n \in Int : n = 2 * Q
    BY <1>7
  <2>2. promote(i) = [[i EXCEPT !.num = n] EXCEPT !.exponent = e] /\ e \in Int
    BY <1>6, <2>1
  <2>3. /\ promote(i) \in Item /\ promote(i).exponent = e /\ promote(i).num = n
        /\ promote(i).den = i.den /\ promote(i).promoteItems = i.promoteItems
    BY Zenon, <1>3, <2>2 DEF Item
  <2> QED BY Zenon, <2>1, <2>3
<1> QED BY <1>2, <1>7, <1>8 DEF Worth, P

(* ... and one is taken from it without a debt exactly if it is one.       *)
LEMMA ConsumeItem ==
    ASSUME NEW e \in Nat, NEW i, Worth(i, e)
    PROVE  /\ addInt(i, -1) \in Item /\ addInt(i, -1).promoteItems = i.promoteItems
           /\ e = 0 => addInt(i, -1).num = 0
           /\ e # 0 => ~(addInt(i, -1).num >= 0)
<1> DEFINE P == Exp2[e]
<1>1. PICK Q \in Nat : Q > 0 /\ i.num = Q /\ i.den = Q * P
  BY DEF Worth
<1>2. P \in Nat /\ P > 0 /\ (e = 0 => P = 1) /\ (e # 0 => P > 1)
  <2>1. CASE e = 0
    BY <2>1, Exp2Powers
  <2>2. CASE e # 0
    <3>1. e - 1 \in Nat /\ e - 1 + 1 = e
      BY <2>2
    <3>2. Exp2[e - 1] \in Nat /\ Exp2[e - 1] > 0 /\ Exp2[e - 1 + 1] = 2 * Exp2[e - 1]
      BY <3>1, Exp2Powers
    <3> QED BY <2>2, <3>1, <3>2
  <2> QED BY <2>1, <2>2
<1>3. i \in Item
  BY DEF Worth
<1> HIDE DEF P
<1>4. /\ addInt(i, -1) \in Item /\ addInt(i, -1).promoteItems = i.promoteItems
      /\ addInt(i, -1).num = Q + (-1) * (Q * P)
  <2>1. PICK n \in Int : n = Q + (-1) * (Q * P)
    BY <1>1, <1>2
  <2>2. addInt(i, -1) = [i EXCEPT !.num = n]
    BY <1>1, <2>1 DEF addInt
  <2> QED BY <1>3, <2>1, <2>2 DEF Item
<1>5. (P = 1 => Q + (-1) * (Q * P) = 0) /\ (P > 1 => Q + (-1) * (Q * P) < 0)
  BY <1>1, <1>2
<1>6. Q + (-1) * (Q * P) \in Int
  BY <1>1, <1>2
<1> QED BY <1>2, <1>4, <1>5, <1>6

(* The recursion in Produce up to n,                                        *)
Producing(f, items, m, it, n) ==
    f = [k \in 0..n |-> IF k = 0 THEN [items EXCEPT ![it] = addInt(items[it], 1)] ELSE Compare(f[k - 1], m, k - 1, it)]

(* ... which exists.                                                       *)
LEMMA ProducingExists ==
    ASSUME NEW items, NEW m, NEW it, NEW top \in Nat
    PROVE  \E f : Producing(f, items, m, it, top)
<1> DEFINE Bad == {n \in Nat : ~ \E f : Producing(f, items, m, it, n)}
<1> SUFFICES ASSUME Bad # {} PROVE FALSE
  OBVIOUS
<1>1. PICK n \in Bad : \A j \in Bad : n <= j
  <2>1. Bad \subseteq Nat
    OBVIOUS
  <2> HIDE DEF Bad
  <2> QED BY Zenon, <2>1, SmallestNumber
<1>2. n \in Nat /\ ~ \E f : Producing(f, items, m, it, n)
  BY <1>1
<1>3. CASE n = 0
  <2>1. Producing([k \in 0..0 |-> [items EXCEPT ![it] = addInt(items[it], 1)]], items, m, it, 0)
    BY DEF Producing
  <2> QED BY Zenon, <1>2, <1>3, <2>1
<1>4. CASE n # 0
  <2>1. n - 1 \in Nat /\ n - 1 \notin Bad
    BY <1>1, <1>2, <1>4
  <2>2. PICK g : Producing(g, items, m, it, n - 1)
    BY <2>1
  <2> DEFINE next == IF n = 0 THEN [items EXCEPT ![it] = addInt(items[it], 1)] ELSE Compare(g[n - 1], m, n - 1, it)
             f == [k \in 0..n |-> IF k = n THEN next ELSE g[k]]
  <2>3. \A k \in 0..(n - 1) : g[k] = IF k = 0 THEN [items EXCEPT ![it] = addInt(items[it], 1)] ELSE Compare(g[k - 1], m, k - 1, it)
    BY Zenon, <2>2 DEF Producing
  <2> HIDE DEF next
  <2>4. f[n] = next /\ \A k \in 0..(n - 1) : f[k] = g[k]
    BY <1>2
  <2> USE DEF next
  <2>5. f = [k \in 0..n |-> f[k]]
    OBVIOUS
  <2> HIDE DEF f
  <2>6. ASSUME NEW k \in 0..n PROVE f[k] = IF k = 0 THEN [items EXCEPT ![it] = addInt(items[it], 1)] ELSE Compare(f[k - 1], m, k - 1, it)
    <3>1. CASE k = n
      <4>1. n - 1 \in 0..(n - 1)
        BY <2>1
      <4>2. f[n - 1] = g[n - 1]
        BY Zenon, <2>4, <4>1
      <4> QED BY Zenon, <2>4, <3>1, <4>2
    <3>2. CASE k # n
      <4>1. k \in 0..(n - 1) /\ (k # 0 => k - 1 \in 0..(n - 1))
        BY <1>2, <3>2
      <4>2. f[k] = g[k] /\ (k # 0 => f[k - 1] = g[k - 1])
        BY Zenon, <2>4, <4>1
      <4> QED BY Zenon, <2>3, <4>1, <4>2
    <3> QED BY <3>1, <3>2
  <2>7. Producing(f, items, m, it, n)
    BY Zenon, <2>5, <2>6 DEF Producing
  <2> QED BY Zenon, <1>2, <2>7
<1> QED BY <1>3, <1>4

(* The recursion in Compared from the first method on,                      *)
Comparing(f, m, n) ==
    f = [k \in 0..n |-> IF k <= 0 THEN [id \in DOMAIN m |-> NewItem] ELSE Produce(f[k - 1], m, k - 1)]

(* ... which exists.                                                       *)
LEMMA ComparingExists ==
    ASSUME NEW m, NEW top \in Nat
    PROVE  \E f : Comparing(f, m, top)
<1> DEFINE Bad == {n \in Nat : ~ \E f : Comparing(f, m, n)}
<1> SUFFICES ASSUME Bad # {} PROVE FALSE
  OBVIOUS
<1>1. PICK n \in Bad : \A j \in Bad : n <= j
  <2>1. Bad \subseteq Nat
    OBVIOUS
  <2> HIDE DEF Bad
  <2> QED BY Zenon, <2>1, SmallestNumber
<1>2. n \in Nat /\ ~ \E f : Comparing(f, m, n)
  BY <1>1
<1>3. CASE n = 0
  <2>1. Comparing([k \in 0..0 |-> [id \in DOMAIN m |-> NewItem]], m, 0)
    BY DEF Comparing
  <2> QED BY Zenon, <1>2, <1>3, <2>1
<1>4. CASE n # 0
  <2>1. n - 1 \in Nat /\ n - 1 \notin Bad
    BY <1>1, <1>2, <1>4
  <2>2. PICK g : Comparing(g, m, n - 1)
    BY <2>1
  <2> DEFINE next == IF n <= 0 THEN [id \in DOMAIN m |-> NewItem] ELSE Produce(g[n - 1], m, n - 1)
             f == [k \in 0..n |-> IF k = n THEN next ELSE g[k]]
  <2>3. \A k \in 0..(n - 1) : g[k] = IF k <= 0 THEN [id \in DOMAIN m |-> NewItem] ELSE Produce(g[k - 1], m, k - 1)
    BY <2>2 DEF Comparing
  <2>4. f[n] = next /\ \A k \in 0..(n - 1) : f[k] = g[k]
    BY <1>2
  <2>5. f = [k \in 0..n |-> f[k]]
    OBVIOUS
  <2> HIDE DEF f
  <2>6. ASSUME NEW k \in 0..n PROVE f[k] = IF k <= 0 THEN [id \in DOMAIN m |-> NewItem] ELSE Produce(f[k - 1], m, k - 1)
    <3>1. CASE k = n
      <4>1. n - 1 \in 0..(n - 1)
        BY <2>1
      <4>2. f[n - 1] = g[n - 1]
        BY Zenon, <2>4, <4>1
      <4> QED BY Zenon, <2>4, <3>1, <4>2
    <3>2. CASE k # n
      <4>1. k \in 0..(n - 1) /\ (k # 0 => k - 1 \in 0..(n - 1))
        BY <1>2, <3>2
      <4>2. f[k] = g[k] /\ (k # 0 => f[k - 1] = g[k - 1])
        BY Zenon, <2>4, <4>1
      <4> QED BY <2>3, <4>1, <4>2
    <3> QED BY <3>1, <3>2
  <2>7. Comparing(f, m, n)
    BY Zenon, <2>5, <2>6 DEF Comparing
  <2> QED BY Zenon, <1>2, <2>7
<1> QED BY <1>3, <1>4

(* The recursion in Promoted,                                               *)
Promoting(f, items, stack, n) ==
    f = [k \in 0..n |-> IF k = 0 THEN items ELSE Promote(f[k - 1], stack[Len(stack) - k + 1])]

(* ... which exists.                                                       *)
LEMMA PromotingExists ==
    ASSUME NEW items, NEW stack, NEW top \in Nat
    PROVE  \E f : Promoting(f, items, stack, top)
<1> DEFINE Bad == {n \in Nat : ~ \E f : Promoting(f, items, stack, n)}
<1> SUFFICES ASSUME Bad # {} PROVE FALSE
  OBVIOUS
<1>1. PICK n \in Bad : \A j \in Bad : n <= j
  <2>1. Bad \subseteq Nat
    OBVIOUS
  <2> HIDE DEF Bad
  <2> QED BY Zenon, <2>1, SmallestNumber
<1>2. n \in Nat /\ ~ \E f : Promoting(f, items, stack, n)
  BY <1>1
<1>3. CASE n = 0
  <2>1. Promoting([k \in 0..0 |-> items], items, stack, 0)
    BY DEF Promoting
  <2> QED BY Zenon, <1>2, <1>3, <2>1
<1>4. CASE n # 0
  <2>1. n - 1 \in Nat /\ n - 1 \notin Bad
    BY <1>1, <1>2, <1>4
  <2>2. PICK g : Promoting(g, items, stack, n - 1)
    BY <2>1
  <2> DEFINE next == IF n = 0 THEN items ELSE Promote(g[n - 1], stack[Len(stack) - n + 1])
             f == [k \in 0..n |-> IF k = n THEN next ELSE g[k]]
  <2>3. \A k \in 0..(n - 1) : g[k] = IF k = 0 THEN items ELSE Promote(g[k - 1], stack[Len(stack) - k + 1])
    BY <2>2 DEF Promoting
  <2>4. f[n] = next /\ \A k \in 0..(n - 1) : f[k] = g[k]
    BY <1>2
  <2>5. f = [k \in 0..n |-> f[k]]
    OBVIOUS
  <2> HIDE DEF f
  <2>6. ASSUME NEW k \in 0..n PROVE f[k] = IF k = 0 THEN items ELSE Promote(f[k - 1], stack[Len(stack) - k + 1])
    <3>1. CASE k = n
      <4>1. n - 1 \in 0..(n - 1)
        BY <2>1
      <4>2. f[n - 1] = g[n - 1]
        BY Zenon, <2>4, <4>1
      <4> QED BY Zenon, <2>4, <3>1, <4>2
    <3>2. CASE k # n
      <4>1. k \in 0..(n - 1) /\ (k # 0 => k - 1 \in 0..(n - 1))
        BY <1>2, <3>2
      <4>2. f[k] = g[k] /\ (k # 0 => f[k - 1] = g[k - 1])
        BY Zenon, <2>4, <4>1
      <4> QED BY Zenon, <2>3, <4>1, <4>2
    <3> QED BY <3>1, <3>2
  <2>7. Promoting(f, items, stack, n)
    BY Zenon, <2>5, <2>6 DEF Promoting
  <2> QED BY Zenon, <1>2, <2>7
<1> QED BY <1>3, <1>4

(* The recursion in handleNonceOrder,                                       *)
Handling(f, items, n) ==
    f = [k \in 0..n |-> IF k = 0 THEN [items |-> items, ok |-> TRUE] ELSE Consume(f[k - 1], k - 1)]

(* ... which exists.                                                       *)
LEMMA HandlingExists ==
    ASSUME NEW items, NEW top \in Nat
    PROVE  \E f : Handling(f, items, top)
<1> DEFINE Bad == {n \in Nat : ~ \E f : Handling(f, items, n)}
<1> SUFFICES ASSUME Bad # {} PROVE FALSE
  OBVIOUS
<1>1. PICK n \in Bad : \A j \in Bad : n <= j
  <2>1. Bad \subseteq Nat
    OBVIOUS
  <2> HIDE DEF Bad
  <2> QED BY Zenon, <2>1, SmallestNumber
<1>2. n \in Nat /\ ~ \E f : Handling(f, items, n)
  BY <1>1
<1>3. CASE n = 0
  <2>1. Handling([k \in 0..0 |-> [items |-> items, ok |-> TRUE]], items, 0)
    BY SMTT(30) DEF Handling
  <2> QED BY Zenon, <1>2, <1>3, <2>1
<1>4. CASE n # 0
  <2>1. n - 1 \in Nat /\ n - 1 \notin Bad
    BY <1>1, <1>2, <1>4
  <2>2. PICK g : Handling(g, items, n - 1)
    BY <2>1
  <2> DEFINE next == IF n = 0 THEN [items |-> items, ok |-> TRUE] ELSE Consume(g[n - 1], n - 1)
             f == [k \in 0..n |-> IF k = n THEN next ELSE g[k]]
  <2>3. \A k \in 0..(n - 1) : g[k] = IF k = 0 THEN [items |-> items, ok |-> TRUE] ELSE Consume(g[k - 1], k - 1)
    BY Zenon, <2>2 DEF Handling
  <2>4. f[n] = next /\ \A k \in 0..(n - 1) : f[k] = g[k]
    BY <1>2
  <2>5. f = [k \in 0..n |-> f[k]]
    OBVIOUS
  <2> HIDE DEF f
  <2>6. ASSUME NEW k \in 0..n PROVE f[k] = IF k = 0 THEN [items |-> items, ok |-> TRUE] ELSE Consume(f[k - 1], k - 1)
    <3>1. CASE k = n
      <4>1. n - 1 \in 0..(n - 1)
        BY <2>1
      <4>2. f[n - 1] = g[n - 1]
        BY Zenon, <2>4, <4>1
      <4> QED BY Zenon, <2>4, <3>1, <4>2
    <3>2. CASE k # n
      <4>1. k \in 0..(n - 1) /\ (k # 0 => k - 1 \in 0..(n - 1))
        BY <1>2, <3>2
      <4>2. f[k] = g[k] /\ (k # 0 => f[k - 1] = g[k - 1])
        BY Zenon, <2>4, <4>1
      <4> QED BY Zenon, <2>3, <4>1, <4>2
    <3> QED BY <3>1, <3>2
  <2>7. Handling(f, items, n)
    BY Zenon, <2>5, <2>6 DEF Handling
  <2> QED BY Zenon, <1>2, <2>7
<1> QED BY <1>3, <1>4

-----------------------------------------------------------------------------
(* Comparing the methods.                                                  *)

(* The stack s holds the elements of S, each once.                         *)
Stack(s, S) ==
    /\ s \in Seq(Nat)
    /\ \A x : x \in S <=> \E p \in 1..Len(s) : s[p] = x
    /\ \A p, q \in 1..Len(s) : s[p] = s[q] => p = q

(* The partners of a method in a relation on the methods 0..(N-1).         *)
Above(D, N, j) == {i \in 0..(N - 1) : <<j, i>> \in D}
Below(D, N, i) == {j \in 0..(N - 1) : <<j, i>> \in D}

(* The items of N methods, the first n of them produced, when each pair    *)
(* <<j, i>> of D has led to a demotion of j until i is consumed.           *)
Tally(items, N, n, D) ==
    /\ DOMAIN items = 0..(N - 1)
    /\ \A j \in 0..(N - 1) :
          /\ j < n => Reduced(items[j], Cardinality(Above(D, N, j)))
          /\ j >= n => items[j] = NewItem
          /\ Stack(items[j].promoteItems, Below(D, N, j))

(* Sets of methods can be counted.                                         *)
LEMMA CountMethods ==
    ASSUME NEW N \in Nat, NEW S, S \subseteq 0..(N - 1)
    PROVE  /\ IsFiniteSet(S) /\ Cardinality(S) \in Nat
           /\ Cardinality(S) = 0 <=> S = {}
           /\ \A x : x \notin S => Cardinality(S \cup {x}) = Cardinality(S) + 1
<1>1. IsFiniteSet(0..(N - 1))
  BY FS_Interval
<1>2. IsFiniteSet(S)
  BY Zenon, <1>1, FS_Subset
<1> QED BY Zenon, <1>2, FS_CardinalityType, FS_EmptySet, FS_AddElement

(* One more element on a stack.                                            *)
LEMMA StackPush ==
    ASSUME NEW s, NEW S, Stack(s, S), NEW x \in Nat, x \notin S
    PROVE  Stack(Append(s, x), S \cup {x})
<1> DEFINE t == Append(s, x)
<1>1. s \in Seq(Nat)
  BY DEF Stack
<1>2. /\ t \in Seq(Nat) /\ Len(t) = Len(s) + 1 /\ t[Len(s) + 1] = x /\ Len(s) \in Nat
      /\ \A p \in 1..Len(s) : t[p] = s[p]
  BY <1>1
<1> HIDE DEF t
<1>3. \A p \in 1..Len(s) : s[p] \in S
  BY DEF Stack
<1>4. \A p \in 1..Len(t) : p \in 1..Len(s) \/ p = Len(s) + 1
  BY <1>2
<1>5. (\A p \in 1..Len(s) : p \in 1..Len(t)) /\ Len(s) + 1 \in 1..Len(t)
  BY <1>2
<1>6. \A y : y \in S \cup {x} <=> \E p \in 1..Len(t) : t[p] = y
  <2>1. ASSUME NEW y \in S PROVE \E p \in 1..Len(t) : t[p] = y
    BY Zenon, <1>2, <1>5 DEF Stack
  <2>2. \E p \in 1..Len(t) : t[p] = x
    BY Zenon, <1>2, <1>5
  <2>3. ASSUME NEW p \in 1..Len(t) PROVE t[p] \in S \cup {x}
    BY Zenon, <1>2, <1>3, <1>4
  <2> QED BY Zenon, <2>1, <2>2, <2>3
<1>7. ASSUME NEW p \in 1..Len(t), NEW q \in 1..Len(t), t[p] = t[q] PROVE p = q
  <2>1. CASE p \in 1..Len(s) /\ q \in 1..Len(s)
    BY Zenon, <1>2, <1>7, <2>1 DEF Stack
  <2>2. CASE p \in 1..Len(s) /\ q = Len(s) + 1
    BY Zenon, <1>2, <1>3, <1>7, <2>2
  <2>3. CASE q \in 1..Len(s) /\ p = Len(s) + 1
    BY Zenon, <1>2, <1>3, <1>7, <2>3
  <2> QED BY Zenon, <1>4, <2>1, <2>2, <2>3
<1> QED BY Zenon, <1>2, <1>6, <1>7 DEF Stack, t

(* A demotion adds its pair.                                               *)
LEMMA DemotedTally ==
    ASSUME NEW N \in Nat, NEW n \in 0..N, NEW D, NEW items, Tally(items, N, n, D),
           NEW i \in 0..(n - 1), NEW j \in 0..(n - 1), i # j, <<j, i>> \notin D
    PROVE  Tally(Demoted(items, i, j), N, n, D \cup {<<j, i>>})
<1> DEFINE new == Demoted(items, i, j)
           E == D \cup {<<j, i>>}
           c(k) == Cardinality(Above(D, N, k))
<1>1. i \in 0..(N - 1) /\ j \in 0..(N - 1) /\ i < n /\ j < n /\ i \in Nat /\ j \in Nat
  OBVIOUS
<1>2. DOMAIN items = 0..(N - 1)
  BY DEF Tally
<1>3. /\ DOMAIN new = 0..(N - 1) /\ new[j] = demote(items[j]) /\ new[i] = Push(items[i], j)
      /\ \A k \in 0..(N - 1) : k # i /\ k # j => new[k] = items[k]
  BY SMTT(30), <1>1, <1>2 DEF Demoted
<1> HIDE DEF new
<1>4. /\ Above(E, N, j) = Above(D, N, j) \cup {i} /\ i \notin Above(D, N, j)
      /\ \A k : k # j => Above(E, N, k) = Above(D, N, k)
      /\ Below(E, N, i) = Below(D, N, i) \cup {j} /\ j \notin Below(D, N, i)
      /\ \A k : k # i => Below(E, N, k) = Below(D, N, k)
  BY <1>1 DEF Above, Below
<1>5. \A k : Above(D, N, k) \subseteq 0..(N - 1)
  BY DEF Above
<1>6. c(j) \in Nat /\ Cardinality(Above(E, N, j)) = c(j) + 1
  BY Zenon, <1>4, <1>5, CountMethods
<1>7. Reduced(items[j], c(j)) /\ Reduced(items[i], c(i))
  BY Zenon, <1>1 DEF Tally
<1>8. Reduced(new[j], c(j) + 1) /\ new[j].promoteItems = items[j].promoteItems
  BY Zenon, <1>3, <1>6, <1>7, DemoteHalves
<1>9. /\ Reduced(new[i], c(i)) /\ new[i].promoteItems = Append(items[i].promoteItems, j)
  <2>1. PICK q \in Seq(Nat) : q = Append(items[i].promoteItems, j)
    <3>1. items[i].promoteItems \in Seq(Nat)
      BY Zenon, <1>7 DEF Reduced, Item
    <3>2. Append(items[i].promoteItems, j) \in Seq(Nat)
      BY <1>1, <3>1
    <3> QED BY Zenon, <3>2
  <2>2. new[i] = [items[i] EXCEPT !.promoteItems = q]
    BY Zenon, <1>3, <2>1 DEF Push
  <2> QED BY Zenon, <1>7, <2>1, <2>2 DEF Reduced, Item
<1> HIDE DEF E
<1>10. ASSUME NEW k \in 0..(N - 1)
       PROVE  /\ k < n => Reduced(new[k], Cardinality(Above(E, N, k)))
              /\ k >= n => new[k] = NewItem
              /\ Stack(new[k].promoteItems, Below(E, N, k))
  <2>0. /\ k < n => Reduced(items[k], c(k))
        /\ k >= n => items[k] = NewItem
        /\ Stack(items[k].promoteItems, Below(D, N, k))
    BY Zenon DEF Tally
  <2>1. CASE k = i
    <3>1. ~(k >= n)
      BY <1>1, <2>1
    <3>2. Stack(new[i].promoteItems, Below(E, N, i))
      <4>1. Stack(items[i].promoteItems, Below(D, N, i)) /\ j \in Nat /\ j \notin Below(D, N, i)
        BY Zenon, <1>1, <1>4, <2>0, <2>1
      <4>2. Stack(Append(items[i].promoteItems, j), Below(D, N, i) \cup {j})
        BY <4>1, StackPush
      <4> QED BY Zenon, <1>4, <1>9, <4>2
    <3> QED BY Zenon, <1>4, <1>9, <2>1, <3>1, <3>2
  <2>2. CASE k = j
    <3>1. ~(k >= n)
      BY <1>1, <2>2
    <3> QED BY Zenon, <1>4, <1>6, <1>8, <2>0, <2>2, <3>1
  <2>3. CASE k # i /\ k # j
    BY Zenon, <1>3, <1>4, <2>0, <2>3
  <2> QED BY <2>1, <2>2, <2>3
<1> QED BY Zenon, <1>3, <1>10 DEF Tally, new, E

(* The methods looked at, with the amounts that can be compared.           *)
Methods(m, N) == DOMAIN m = 0..(N - 1) /\ \A i \in 0..(N - 1) : m[i].requestAmnt \in Int

(* The pairs with Less among the first it methods, and those of method it  *)
(* with the first k.                                                       *)
Over(m, N, it, k) ==
    {d \in (0..(N - 1)) \X (0..(N - 1)) :
        /\ Less(m, d[1], d[2])
        /\ d[1] < it \/ (d[1] = it /\ d[2] < k)
        /\ d[2] < it \/ (d[2] = it /\ d[1] < k)}

(* What is in it.                                                          *)
LEMMA OverPairs ==
    ASSUME NEW m, NEW N \in Nat, NEW it \in Nat, NEW k \in Nat, NEW a, NEW b
    PROVE  <<a, b>> \in Over(m, N, it, k) <=>
             /\ a \in 0..(N - 1) /\ b \in 0..(N - 1) /\ Less(m, a, b)
             /\ a < it \/ (a = it /\ b < k)
             /\ b < it \/ (b = it /\ a < k)
BY DEF Over

(* Less is a strict order.                                                 *)
LEMMA LessStrict ==
    ASSUME NEW m, NEW N \in Nat, Methods(m, N), NEW a \in 0..(N - 1), NEW b \in 0..(N - 1)
    PROVE  ~Less(m, a, a) /\ ~(Less(m, a, b) /\ Less(m, b, a))
BY DEF Methods, Less

(* Two relations with the same pairs give the same tally.                  *)
LEMMA TallyPairs ==
    ASSUME NEW N \in Nat, NEW n, NEW D, NEW E, NEW items, Tally(items, N, n, D),
           \A a, b \in 0..(N - 1) : <<a, b>> \in D <=> <<a, b>> \in E
    PROVE  Tally(items, N, n, E)
<1>1. ASSUME NEW j \in 0..(N - 1) PROVE Above(D, N, j) = Above(E, N, j) /\ Below(D, N, j) = Below(E, N, j)
  BY Zenon DEF Above, Below
<1> QED BY Zenon, <1>1 DEF Tally

(* Comparing two methods adds what there is between them.                  *)
LEMMA CompareTally ==
    ASSUME NEW m, NEW N \in Nat, Methods(m, N), NEW it \in 0..(N - 1), NEW k \in 0..(it - 1),
           NEW items, Tally(items, N, it + 1, Over(m, N, it, k))
    PROVE  Tally(Compare(items, m, k, it), N, it + 1, Over(m, N, it, k + 1))
<1> DEFINE D == Over(m, N, it, k)
           E == Over(m, N, it, k + 1)
           n == it + 1
<1>1. /\ n \in 0..N /\ it \in 0..(n - 1) /\ k \in 0..(n - 1) /\ it # k /\ it \in Nat /\ k \in Nat
      /\ it \in 0..(N - 1) /\ k \in 0..(N - 1) /\ k + 1 \in Nat
  BY SMTT(30)
<1>2. <<it, k>> \notin D /\ <<k, it>> \notin D
  BY SMTT(30), <1>1, OverPairs
<1>3. ~(Less(m, it, k) /\ Less(m, k, it))
  BY SMTT(30), <1>1, LessStrict
<1>4. ASSUME NEW a \in 0..(N - 1), NEW b \in 0..(N - 1)
      PROVE  <<a, b>> \in E <=>
               \/ <<a, b>> \in D
               \/ a = it /\ b = k /\ Less(m, it, k)
               \/ a = k /\ b = it /\ Less(m, k, it)
  <2>1. ~Less(m, a, a)
    BY SMTT(30), LessStrict
  <2>2. <<a, b>> \in D <=> /\ Less(m, a, b)
                           /\ a < it \/ (a = it /\ b < k)
                           /\ b < it \/ (b = it /\ a < k)
    BY SMTT(30), <1>1, OverPairs
  <2>3. <<a, b>> \in E <=> /\ Less(m, a, b)
                           /\ a < it \/ (a = it /\ b < k + 1)
                           /\ b < it \/ (b = it /\ a < k + 1)
    BY <1>1, OverPairs
  <2> HIDE DEF D, E
  <2> QED BY SMTT(30), <1>1, <2>1, <2>2, <2>3
<1> HIDE DEF D, E, n
<1>5. Tally(items, N, n, D)
  BY Zenon DEF n, D
<1>6. CASE Less(m, it, k)
  <2>1. Compare(items, m, k, it) = Demoted(items, k, it)
    BY Zenon, <1>3, <1>6 DEF Compare
  <2>2. Tally(Demoted(items, k, it), N, n, D \cup {<<it, k>>})
    BY SMTT(30), <1>1, <1>2, <1>5, DemotedTally
  <2>3. \A a, b \in 0..(N - 1) : <<a, b>> \in D \cup {<<it, k>>} <=> <<a, b>> \in E
    BY ZenonT(40), <1>3, <1>4, <1>6
  <2> QED BY <2>1, <2>2, <2>3, TallyPairs DEF n, E
<1>7. CASE Less(m, k, it)
  <2>1. Compare(items, m, k, it) = Demoted(items, it, k)
    BY Zenon, <1>3, <1>7 DEF Compare
  <2>2. Tally(Demoted(items, it, k), N, n, D \cup {<<k, it>>})
    BY SMTT(30), <1>1, <1>2, <1>5, DemotedTally
  <2>3. \A a, b \in 0..(N - 1) : <<a, b>> \in D \cup {<<k, it>>} <=> <<a, b>> \in E
    BY ZenonT(40), <1>3, <1>4, <1>7
  <2> QED BY <2>1, <2>2, <2>3, TallyPairs DEF n, E
<1>8. CASE ~Less(m, it, k) /\ ~Less(m, k, it)
  <2>1. Compare(items, m, k, it) = items
    BY Zenon, <1>8 DEF Compare
  <2>2. \A a, b \in 0..(N - 1) : <<a, b>> \in D <=> <<a, b>> \in E
    BY Zenon, <1>4, <1>8
  <2> QED BY <1>5, <2>1, <2>2, TallyPairs DEF n, E
<1> QED BY Zenon, <1>6, <1>7, <1>8

(* A set with 0 that has with a number below n also the next has all up to *)
(* n.                                                                      *)
LEMMA UpTo ==
    ASSUME NEW n \in Nat, NEW S, 0 \in S, \A k \in 0..(n - 1) : k \in S => k + 1 \in S
    PROVE  n \in S
<1> DEFINE Bad == {k \in 0..n : k \notin S}
<1> SUFFICES ASSUME n \notin S PROVE FALSE
  OBVIOUS
<1>1. PICK k \in Bad : \A j \in Bad : k <= j
  <2>1. Bad \subseteq Nat /\ n \in Bad
    OBVIOUS
  <2> HIDE DEF Bad
  <2> QED BY Zenon, <2>1, SmallestNumber
<1>2. k # 0 /\ k \in 0..n /\ k \notin S
  OBVIOUS
<1>3. PICK j \in 0..(n - 1) : j = k - 1 /\ k = j + 1
  BY <1>2
<1>4. j \in S
  BY <1>1, <1>3
<1> QED BY <1>2, <1>3, <1>4

(* The items before the first round.                                       *)
LEMMA NewTally ==
    ASSUME NEW m, NEW N \in Nat, Methods(m, N)
    PROVE  Tally([id \in DOMAIN m |-> NewItem], N, 0, Over(m, N, 0, 0))
<1> DEFINE items == [id \in DOMAIN m |-> NewItem]
           D == Over(m, N, 0, 0)
<1>1. DOMAIN items = 0..(N - 1) /\ \A j \in 0..(N - 1) : items[j] = NewItem
  BY DEF Methods
<1>2. ASSUME NEW a \in 0..(N - 1), NEW b \in 0..(N - 1) PROVE <<a, b>> \notin D
  <2>1. ~(a < 0) /\ ~(b < 0)
    OBVIOUS
  <2> QED BY <2>1, OverPairs
<1>3. \A j \in 0..(N - 1) : Below(D, N, j) = {}
  BY Zenon, <1>2 DEF Below
<1>4. Stack(<< >>, {})
  BY DEF Stack
<1>5. NewItem.promoteItems = << >>
  BY DEF NewItem
<1>6. \A j \in 0..(N - 1) : ~(j < 0)
  OBVIOUS
<1> HIDE DEF D, items
<1> QED BY Zenon, <1>1, <1>3, <1>4, <1>5, <1>6 DEF Tally, D, items

(* A method is produced,                                                   *)
LEMMA AddTally ==
    ASSUME NEW m, NEW N \in Nat, Methods(m, N), NEW it \in 0..(N - 1),
           NEW items, Tally(items, N, it, Over(m, N, it, 0))
    PROVE  Tally([items EXCEPT ![it] = addInt(items[it], 1)], N, it + 1, Over(m, N, it, 0))
<1> DEFINE new == [items EXCEPT ![it] = addInt(items[it], 1)]
           D == Over(m, N, it, 0)
<1>1. DOMAIN items = 0..(N - 1) /\ it >= it
  BY DEF Tally
<1>2. items[it] = NewItem
  BY Zenon, <1>1 DEF Tally
<1>3. /\ DOMAIN new = 0..(N - 1) /\ new[it] = addInt(NewItem, 1)
      /\ \A j \in 0..(N - 1) : j # it => new[j] = items[j]
  BY Zenon, <1>1, <1>2
<1> HIDE DEF new
<1>4. \A b \in 0..(N - 1) : <<it, b>> \notin D
  BY OverPairs
<1> HIDE DEF D
<1>5. Above(D, N, it) = {}
  BY Zenon, <1>4 DEF Above
<1>6. Cardinality(Above(D, N, it)) = 0
  BY ZenonT(40), <1>5, FS_EmptySet
<1>7. Reduced(new[it], 0) /\ new[it].promoteItems = NewItem.promoteItems
  <2>1. addInt(NewItem, 1) = [num |-> 1, den |-> 1, exponent |-> 0, promoteItems |-> << >>]
    BY DEF addInt, NewItem
  <2>2. Exp2[0] = 1
    BY Exp2Powers
  <2>3. PICK e \in Seq(Nat) : e = << >>
    <3>1. << >> \in Seq(Nat)
      OBVIOUS
    <3> QED BY Zenon, <3>1
  <2>4. addInt(NewItem, 1) = [num |-> 1, den |-> 1, exponent |-> 0, promoteItems |-> e]
    BY ZenonT(40), <2>1, <2>3
  <2>5. addInt(NewItem, 1) \in Item
    BY SMTT(30), <2>4 DEF Item
  <2> QED BY <1>3, <2>1, <2>2, <2>5 DEF Reduced, NewItem
<1>8. ASSUME NEW j \in 0..(N - 1)
      PROVE  /\ j < it + 1 => Reduced(new[j], Cardinality(Above(D, N, j)))
             /\ j >= it + 1 => new[j] = NewItem
             /\ Stack(new[j].promoteItems, Below(D, N, j))
  <2>1. /\ j < it => Reduced(items[j], Cardinality(Above(D, N, j)))
        /\ j >= it => items[j] = NewItem
        /\ Stack(items[j].promoteItems, Below(D, N, j))
    BY Zenon DEF Tally, D
  <2>2. CASE j = it
    <3>1. ~(j >= it + 1)
      BY <2>2
    <3> QED BY Zenon, <1>2, <1>6, <1>7, <2>1, <2>2, <3>1
  <2>3. CASE j # it
    <3>1. (j < it + 1 => j < it) /\ (j >= it + 1 => j >= it)
      BY SMTT(30), <2>3
    <3> QED BY Zenon, <1>3, <2>1, <2>3, <3>1
  <2> QED BY <2>2, <2>3
<1> QED BY Zenon, <1>3, <1>8 DEF Tally, new, D

(* and compared with all before it.                                        *)
LEMMA ProduceTally ==
    ASSUME NEW m, NEW N \in Nat, Methods(m, N), NEW it \in 0..(N - 1),
           NEW items, Tally(items, N, it, Over(m, N, it, 0))
    PROVE  Tally(Produce(items, m, it), N, it + 1, Over(m, N, it + 1, 0))
<1> DEFINE f == CHOOSE f : Producing(f, items, m, it, it)
           S == {k \in 0..it : Tally(f[k], N, it + 1, Over(m, N, it, k))}
<1>1. Produce(items, m, it) = f[it]
  BY DEF Produce, Producing
<1>2. Producing(f, items, m, it, it)
  <2>1. it \in Nat
    OBVIOUS
  <2> QED BY Zenon, <2>1, ProducingExists
<1> HIDE DEF f
<1>3. f[0] = [items EXCEPT ![it] = addInt(items[it], 1)]
  BY <1>2 DEF Producing
<1>4. ASSUME NEW k \in 0..(it - 1) PROVE f[k + 1] = Compare(f[k], m, k, it)
  <2>1. PICK j \in 0..it : j = k + 1 /\ j - 1 = k /\ j # 0
    OBVIOUS
  <2>2. f[j] = Compare(f[j - 1], m, j - 1, it)
    BY ZenonT(40), <1>2, <2>1 DEF Producing
  <2> QED BY Zenon, <2>1, <2>2
<1>5. 0 \in S
  BY <1>3, AddTally
<1>6. ASSUME NEW k \in 0..(it - 1), k \in S PROVE k + 1 \in S
  <2>1. Tally(f[k], N, it + 1, Over(m, N, it, k)) /\ k + 1 \in 0..it
    BY <1>6
  <2>2. Tally(Compare(f[k], m, k, it), N, it + 1, Over(m, N, it, k + 1))
    BY Zenon, <2>1, CompareTally
  <2> QED BY Zenon, <1>4, <2>1, <2>2
<1>7. it \in S
  <2> HIDE DEF S
  <2> QED BY <1>5, <1>6, UpTo
<1>8. Tally(f[it], N, it + 1, Over(m, N, it, it))
  BY <1>7
<1>9. ASSUME NEW a \in 0..(N - 1), NEW b \in 0..(N - 1)
      PROVE  <<a, b>> \in Over(m, N, it, it) <=> <<a, b>> \in Over(m, N, it + 1, 0)
  <2>1. ~Less(m, a, a)
    BY LessStrict
  <2>2. <<a, b>> \in Over(m, N, it, it) <=> /\ Less(m, a, b)
                                            /\ a < it \/ (a = it /\ b < it)
                                            /\ b < it \/ (b = it /\ a < it)
    BY SMTT(30), OverPairs
  <2>3. <<a, b>> \in Over(m, N, it + 1, 0) <=> /\ Less(m, a, b)
                                               /\ a < it + 1 \/ (a = it + 1 /\ b < 0)
                                               /\ b < it + 1 \/ (b = it + 1 /\ a < 0)
    BY OverPairs
  <2> QED BY <2>1, <2>2, <2>3
<1> QED BY SMTT(30), <1>1, <1>8, <1>9, TallyPairs

(* The comparisons demote each method once for every greater one of its    *)
(* sender, wherever it is.                                                 *)
LEMMA ComparedTally ==
    ASSUME NEW m, NEW N \in Nat, Methods(m, N)
    PROVE  Tally(Compared(m, 0), N, N, Over(m, N, N, 0))
<1> DEFINE f == CHOOSE f : Comparing(f, m, N)
           S == {k \in 0..N : Tally(f[k], N, k, Over(m, N, k, 0))}
<1>0. Cardinality(DOMAIN m) = N
  <2>1. Cardinality(0..(N - 1)) = N
    BY FS_Interval
  <2> QED BY Zenon, <2>1 DEF Methods
<1>1. Compared(m, 0) = f[N]
  BY Zenon, <1>0 DEF Compared, Comparing
<1>2. Comparing(f, m, N)
  BY Zenon, ComparingExists
<1> HIDE DEF f
<1>3. f[0] = [id \in DOMAIN m |-> NewItem]
  BY <1>2 DEF Comparing
<1>4. ASSUME NEW k \in 0..(N - 1) PROVE f[k + 1] = Produce(f[k], m, k)
  <2>1. PICK j \in 0..N : j = k + 1 /\ j - 1 = k /\ ~(j <= 0)
    OBVIOUS
  <2>2. f[j] = Produce(f[j - 1], m, j - 1)
    BY Zenon, <1>2, <2>1 DEF Comparing
  <2> QED BY Zenon, <2>1, <2>2
<1>5. 0 \in S
  BY <1>3, NewTally
<1>6. ASSUME NEW k \in 0..(N - 1), k \in S PROVE k + 1 \in S
  <2>1. Tally(f[k], N, k, Over(m, N, k, 0)) /\ k + 1 \in 0..N
    BY <1>6
  <2>2. Tally(Produce(f[k], m, k), N, k + 1, Over(m, N, k + 1, 0))
    BY Zenon, <2>1, ProduceTally
  <2> QED BY Zenon, <1>4, <2>1, <2>2
<1>7. N \in S
  <2> HIDE DEF S
  <2> QED BY <1>5, <1>6, UpTo
<1> QED BY <1>1, <1>7

-----------------------------------------------------------------------------
(* Consuming the methods.                                                  *)

(* The items on a stack are promoted, each once, and no others.            *)
LEMMA PromotedEach ==
    ASSUME NEW items, NEW s, NEW S, Stack(s, S), S \subseteq DOMAIN items
    PROVE  /\ DOMAIN Promoted(items, s) = DOMAIN items
           /\ \A x \in DOMAIN items :
                 /\ x \in S => Promoted(items, s)[x] = promote(items[x])
                 /\ x \notin S => Promoted(items, s)[x] = items[x]
<1> DEFINE f == CHOOSE f : Promoting(f, items, s, Len(s))
           Top(k, x) == \E p \in (Len(s) - k + 1)..Len(s) : s[p] = x
           Good(k) == /\ DOMAIN f[k] = DOMAIN items
                      /\ \A x \in DOMAIN items :
                            /\ Top(k, x) => f[k][x] = promote(items[x])
                            /\ ~Top(k, x) => f[k][x] = items[x]
           G == {k \in 0..Len(s) : Good(k)}
<1>0. s \in Seq(Nat) /\ Len(s) \in Nat
  BY DEF Stack
<1>1. Promoted(items, s) = f[Len(s)]
  BY Zenon DEF Promoted, Promoting
<1>2. Promoting(f, items, s, Len(s))
  BY Zenon, <1>0, PromotingExists
<1> HIDE DEF f
<1>3. f[0] = items
  BY <1>0, <1>2 DEF Promoting
<1>4. ASSUME NEW k \in 0..(Len(s) - 1) PROVE f[k + 1] = Promote(f[k], s[Len(s) - k])
  <2>1. PICK j \in 0..Len(s) : j = k + 1 /\ j - 1 = k /\ j # 0 /\ Len(s) - j + 1 = Len(s) - k
    BY <1>0
  <2>2. f[j] = Promote(f[j - 1], s[Len(s) - j + 1])
    BY Zenon, <1>2, <2>1 DEF Promoting
  <2> QED BY Zenon, <2>1, <2>2
<1>5. 0 \in G
  <2>1. \A x : ~Top(0, x)
    BY <1>0
  <2>2. 0 \in 0..Len(s)
    BY <1>0
  <2> HIDE DEF Top
  <2> QED BY Zenon, <1>3, <2>1, <2>2
<1>6. ASSUME NEW k \in 0..(Len(s) - 1), k \in G PROVE k + 1 \in G
  <2> DEFINE q == Len(s) - k
             y == s[q]
  <2>1. Good(k)
    BY Zenon, <1>6
  <2>2. q \in 1..Len(s) /\ k + 1 \in 0..Len(s) /\ Len(s) - (k + 1) + 1 = q
    BY <1>0
  <2>3. \A p : p \in q..Len(s) <=> (p = q \/ p \in (Len(s) - k + 1)..Len(s))
    BY <1>0
  <2>4. q \notin (Len(s) - k + 1)..Len(s) /\ \A p \in (Len(s) - k + 1)..Len(s) : p \in 1..Len(s)
    BY <1>0
  <2> HIDE DEF q
  <2>5. y \in DOMAIN items
    BY Zenon, <2>2 DEF Stack
  <2>6. ~Top(k, y)
    BY Zenon, <2>2, <2>4 DEF Stack
  <2>7. \A x : Top(k + 1, x) <=> (x = y \/ Top(k, x))
    BY Zenon, <2>2, <2>3
  <2> HIDE DEF Top
  <2>8. f[k + 1] = [f[k] EXCEPT ![y] = promote(f[k][y])]
    BY Zenon, <1>4 DEF Promote, q
  <2>9. f[k][y] = items[y] /\ DOMAIN f[k] = DOMAIN items
    BY Zenon, <2>1, <2>5, <2>6
  <2> HIDE DEF y
  <2>10. /\ DOMAIN f[k + 1] = DOMAIN items /\ f[k + 1][y] = promote(items[y])
         /\ \A x \in DOMAIN items : x # y => f[k + 1][x] = f[k][x]
    BY Zenon, <2>5, <2>8, <2>9
  <2>11. Good(k + 1)
    BY Zenon, <2>1, <2>7, <2>10
  <2> QED BY ZenonT(40), <2>2, <2>11
<1>7. Len(s) \in G
  <2> HIDE DEF G
  <2> QED BY <1>0, <1>5, <1>6, UpTo
<1>8. \A x : Top(Len(s), x) <=> x \in S
  <2>1. Len(s) - Len(s) + 1 = 1
    BY <1>0
  <2> QED BY Zenon, <2>1 DEF Stack
<1> HIDE DEF Top
<1> QED BY Zenon, <1>1, <1>7, <1>8

(* The methods from n on that are greater than j, and all smaller than j.  *)
Rest(m, N, n, j) == {i \in n..(N - 1) : Less(m, j, i)}
Lesser(m, N, j) == {x \in 0..(N - 1) : Less(m, x, j)}

(* None of the first n methods is smaller than one from it on.             *)
Sound(m, N, n) == \A a \in 0..(n - 1) : \A i \in a..(N - 1) : ~Less(m, a, i)

(* The items when the first n methods have been consumed: a method to come *)
(* is worth as many halvings as greater ones are to come.                  *)
Before(m, items, N, n) ==
    /\ DOMAIN items = 0..(N - 1)
    /\ \A j \in 0..(n - 1) : items[j].num = 0
    /\ \A j \in n..(N - 1) :
          /\ Worth(items[j], Cardinality(Rest(m, N, n, j)))
          /\ Stack(items[j].promoteItems, Lesser(m, N, j))

(* This holds when all are compared.                                       *)
LEMMA BeforeFirst ==
    ASSUME NEW m, NEW N \in Nat, Methods(m, N)
    PROVE  Before(m, Compared(m, 0), N, 0)
<1> DEFINE D == Over(m, N, N, 0)
           items == Compared(m, 0)
<1>1. Tally(items, N, N, D)
  BY Zenon, ComparedTally
<1>2. ASSUME NEW a \in 0..(N - 1), NEW b \in 0..(N - 1) PROVE <<a, b>> \in D <=> Less(m, a, b)
  <2>1. a < N /\ b < N
    OBVIOUS
  <2> QED BY <2>1, OverPairs
<1> HIDE DEF D, items
<1>3. ASSUME NEW j \in 0..(N - 1) PROVE Above(D, N, j) = Rest(m, N, 0, j) /\ Below(D, N, j) = Lesser(m, N, j)
  BY Zenon, <1>2 DEF Above, Below, Rest, Lesser
<1>4. ASSUME NEW j \in 0..(N - 1) PROVE Worth(items[j], Cardinality(Rest(m, N, 0, j)))
  <2> DEFINE R == Rest(m, N, 0, j)
  <2>1. j < N
    OBVIOUS
  <2>2. Reduced(items[j], Cardinality(R))
    BY Zenon, <1>1, <1>3, <2>1 DEF Tally
  <2>3. R \subseteq 0..(N - 1)
    BY DEF Rest
  <2> HIDE DEF R
  <2>4. Cardinality(R) \in Nat
    BY Zenon, <2>3, CountMethods
  <2>5. PICK P \in Nat : P = Exp2[Cardinality(R)]
    BY Zenon, <2>4, Exp2Powers
  <2>6. 1 \in Nat /\ 1 > 0 /\ P = 1 * P
    BY <2>5
  <2>7. Worth(items[j], Cardinality(R))
    BY Zenon, <2>2, <2>5, <2>6 DEF Worth, Reduced
  <2> QED BY Zenon, <2>7 DEF R
<1>5. \A j : j \notin 0..(0 - 1)
  OBVIOUS
<1> QED BY Zenon, <1>1, <1>3, <1>4, <1>5 DEF Before, Tally, items

(* Of sound methods, those smaller than the next come after it.            *)
LEMMA LesserAfter ==
    ASSUME NEW m, NEW N \in Nat, Methods(m, N), NEW n \in 0..(N - 1), Sound(m, N, n),
           NEW x \in Lesser(m, N, n)
    PROVE  x \in (n + 1)..(N - 1)
<1>1. x \in 0..(N - 1) /\ Less(m, x, n)
  BY DEF Lesser
<1>2. x # n
  BY <1>1, LessStrict
<1>3. ~(x < n)
  <2> SUFFICES ASSUME x < n PROVE FALSE
    OBVIOUS
  <2>1. x \in 0..(n - 1) /\ n \in x..(N - 1)
    BY <1>1
  <2> QED BY Zenon, <1>1, <2>1 DEF Sound
<1> QED BY <1>1, <1>2, <1>3

(* A method that no later one is greater than is consumed without failure. *)
LEMMA ConsumeSound ==
    ASSUME NEW m, NEW N \in Nat, Methods(m, N), NEW n \in 0..(N - 1), Sound(m, N, n),
           NEW acc, acc.ok = TRUE, Before(m, acc.items, N, n), Rest(m, N, n, n) = {}
    PROVE  Consume(acc, n).ok = TRUE /\ Before(m, Consume(acc, n).items, N, n + 1)
<1> DEFINE items == acc.items
           item == addInt(items[n], -1)
           mid == [items EXCEPT ![n] = Clear(item)]
           s == item.promoteItems
           L == Lesser(m, N, n)
           new == Promoted(mid, s)
<1>1. n \in n..(N - 1) /\ DOMAIN items = 0..(N - 1) /\ 0 \in Nat
  <2>1. DOMAIN items = 0..(N - 1)
    BY Zenon DEF Before
  <2> HIDE DEF items
  <2>2. n \in n..(N - 1) /\ 0 \in Nat
    BY SMTT(30)
  <2> QED BY Zenon, <2>1, <2>2
<1>2. Cardinality(Rest(m, N, n, n)) = 0
  BY Zenon, FS_EmptySet
<1>3. Worth(items[n], 0) /\ Stack(items[n].promoteItems, L)
  BY Zenon, <1>1, <1>2 DEF Before
<1> HIDE DEF items
<1>4. item \in Item /\ s = items[n].promoteItems /\ item.num = 0
  BY ZenonT(40), <1>1, <1>3, ConsumeItem
<1>5. item.num >= 0
  BY <1>4
<1>6. Consume(acc, n) = [items |-> new, ok |-> TRUE]
  <2>1. Consume(acc, n) = [items |-> new, ok |-> IF item.num >= 0 THEN acc.ok ELSE FALSE]
    BY Zenon DEF Consume, items
  <2> QED BY Zenon, <1>5, <2>1
<1> HIDE DEF item, s
<1>7. /\ DOMAIN mid = 0..(N - 1) /\ mid[n] = Clear(item)
      /\ \A j \in 0..(N - 1) : j # n => mid[j] = items[j]
  BY Zenon, <1>1
<1> HIDE DEF mid
<1>8. Stack(s, L) /\ L \subseteq DOMAIN mid
  BY ZenonT(40), <1>3, <1>4, <1>7 DEF Lesser
<1>9. /\ DOMAIN new = 0..(N - 1)
      /\ \A x \in 0..(N - 1) : /\ x \in L => new[x] = promote(mid[x])
                               /\ x \notin L => new[x] = mid[x]
  <2> HIDE DEF L, new
  <2>1. /\ DOMAIN new = DOMAIN mid
        /\ \A x \in DOMAIN mid : /\ x \in L => new[x] = promote(mid[x])
                                 /\ x \notin L => new[x] = mid[x]
    BY Zenon, <1>8, PromotedEach DEF new
  <2> QED BY Zenon, <1>7, <2>1
<1> HIDE DEF new
<1>10. \A x \in L : x \in (n + 1)..(N - 1)
  BY Zenon, LesserAfter DEF L
<1> HIDE DEF L
<1>11. ASSUME NEW j \in 0..((n + 1) - 1) PROVE new[j].num = 0
  <2>1. j \in 0..(N - 1) /\ j \notin (n + 1)..(N - 1) /\ (j # n => j \in 0..(n - 1))
    OBVIOUS
  <2>2. new[j] = mid[j]
    BY Zenon, <1>9, <1>10, <2>1
  <2>3. CASE j = n
    <3>1. Clear(item).num = item.num
      BY <1>4 DEF Clear, Item
    <3> QED BY Zenon, <1>4, <1>7, <2>2, <2>3, <3>1
  <2>4. CASE j # n
    BY ZenonT(40), <1>7, <2>1, <2>2, <2>4 DEF Before, items
  <2> QED BY <2>3, <2>4
<1>12. ASSUME NEW j \in (n + 1)..(N - 1)
       PROVE  /\ Worth(new[j], Cardinality(Rest(m, N, n + 1, j)))
              /\ Stack(new[j].promoteItems, Lesser(m, N, j))
  <2> DEFINE R == Rest(m, N, n, j)
             Q == Rest(m, N, n + 1, j)
  <2>1. j \in 0..(N - 1) /\ j # n /\ j \in n..(N - 1)
    OBVIOUS
  <2>2. mid[j] = items[j] /\ Worth(items[j], Cardinality(R)) /\ Stack(items[j].promoteItems, Lesser(m, N, j))
    BY Zenon, <1>7, <2>1 DEF Before, items
  <2>3. n \notin Q /\ Q \subseteq 0..(N - 1)
    BY DEF Rest
  <2>4. \A i : i \in n..(N - 1) <=> (i = n \/ i \in (n + 1)..(N - 1))
    OBVIOUS
  <2>5. CASE j \in L
    <3>1. R = Q \cup {n}
      BY Zenon, <2>4, <2>5 DEF L, Lesser, Rest
    <3> HIDE DEF R, Q
    <3>2. Cardinality(Q) \in Nat /\ Cardinality(R) = Cardinality(Q) + 1
      BY Zenon, <2>3, <3>1, CountMethods
    <3>3. Worth(promote(items[j]), Cardinality(Q)) /\ promote(items[j]).promoteItems = items[j].promoteItems
      BY Zenon, <2>2, <3>2, PromoteDoubles
    <3> QED BY Zenon, <1>9, <2>1, <2>2, <2>5, <3>3 DEF Q
  <2>6. CASE j \notin L
    <3>1. R = Q
      BY ZenonT(40), <2>1, <2>4, <2>6 DEF L, Lesser, Rest
    <3> QED BY Zenon, <1>9, <2>1, <2>2, <2>6, <3>1
  <2> QED BY <2>5, <2>6
<1>13. Before(m, new, N, n + 1)
  <2>1. \A j \in 0..((n + 1) - 1) : new[j].num = 0
    BY Zenon, <1>11
  <2>2. \A j \in (n + 1)..(N - 1) : /\ Worth(new[j], Cardinality(Rest(m, N, n + 1, j)))
                                  /\ Stack(new[j].promoteItems, Lesser(m, N, j))
    BY Zenon, <1>12
  <2>3. DOMAIN new = 0..(N - 1)
    BY Zenon, <1>9
  <2> QED BY Zenon, <2>1, <2>2, <2>3 DEF Before
<1>14. Consume(acc, n).items = new /\ Consume(acc, n).ok = TRUE
  BY <1>6
<1> QED BY ZenonT(40), <1>13, <1>14

(* One that a later one is greater than fails,                             *)
LEMMA ConsumeUnsound ==
    ASSUME NEW m, NEW N \in Nat, NEW n \in 0..(N - 1),
           NEW acc, Before(m, acc.items, N, n), Rest(m, N, n, n) # {}
    PROVE  Consume(acc, n).ok = FALSE
<1> DEFINE item == addInt(acc.items[n], -1)
           c == Cardinality(Rest(m, N, n, n))
<1>1. n \in n..(N - 1) /\ Rest(m, N, n, n) \subseteq 0..(N - 1)
  BY DEF Rest
<1>2. c \in Nat /\ c # 0
  BY Zenon, <1>1, CountMethods
<1>3. Worth(acc.items[n], c)
  BY Zenon, <1>1 DEF Before
<1> HIDE DEF c
<1>4. ~(item.num >= 0)
  BY Zenon, <1>2, <1>3, ConsumeItem
<1> QED BY Zenon, <1>4 DEF Consume

(* and a failure is never forgotten.                                       *)
LEMMA ConsumeFailed ==
    ASSUME NEW acc, acc.ok = FALSE, NEW n
    PROVE  Consume(acc, n).ok = FALSE
BY Zenon DEF Consume

(* The verdict: no method is smaller than a later one of its sender.       *)
LEMMA OutcomeExact ==
    ASSUME NEW m, NEW N \in Nat, Methods(m, N)
    PROVE  Outcome(m, 0) <=> Sound(m, N, N)
<1> DEFINE items == Compared(m, 0)
           f == CHOOSE f : Handling(f, items, N)
           Good(k) == /\ Sound(m, N, k) => f[k].ok = TRUE /\ Before(m, f[k].items, N, k)
                      /\ ~Sound(m, N, k) => f[k].ok = FALSE
           G == {k \in 0..N : Good(k)}
<1>0. Before(m, items, N, 0)
  BY Zenon, BeforeFirst
<1>1. DOMAIN items = 0..(N - 1) /\ Cardinality(DOMAIN items) = N /\ DOMAIN m = 0..(N - 1)
  <2>1. Cardinality(0..(N - 1)) = N
    BY FS_Interval
  <2> QED BY Zenon, <1>0, <2>1 DEF Before, Methods
<1> HIDE DEF items
<1>2. handleNonceOrder(items) = f[N]
  BY Zenon, <1>1 DEF handleNonceOrder, Handling
<1>3. Handling(f, items, N)
  BY Zenon, HandlingExists
<1> HIDE DEF f
<1>4. f[0].items = items /\ f[0].ok = TRUE
  <2>1. f[0] = [items |-> items, ok |-> TRUE]
    BY <1>3 DEF Handling
  <2> QED BY <2>1
<1>5. ASSUME NEW k \in 0..(N - 1) PROVE f[k + 1] = Consume(f[k], k)
  <2>1. PICK j \in 0..N : j = k + 1 /\ j - 1 = k /\ j # 0
    OBVIOUS
  <2>2. f[j] = Consume(f[j - 1], j - 1)
    BY Zenon, <1>3, <2>1 DEF Handling
  <2> QED BY Zenon, <2>1, <2>2
<1>6. 0 \in G
  <2>1. Sound(m, N, 0) /\ 0 \in 0..N
    BY DEF Sound
  <2> QED BY Zenon, <1>0, <1>4, <2>1
<1>7. ASSUME NEW k \in 0..(N - 1), k \in G PROVE k + 1 \in G
  <2>1. Good(k) /\ k + 1 \in 0..N
    BY <1>7
  <2>2. Sound(m, N, k + 1) <=> Sound(m, N, k) /\ Rest(m, N, k, k) = {}
    <3>1. \A a : a \in 0..(k + 1 - 1) <=> (a \in 0..(k - 1) \/ a = k)
      OBVIOUS
    <3>2. Rest(m, N, k, k) = {} <=> \A i \in k..(N - 1) : ~Less(m, k, i)
      BY Zenon DEF Rest
    <3> QED BY <3>1, <3>2 DEF Sound
  <2>3. CASE Sound(m, N, k) /\ Rest(m, N, k, k) = {}
    <3>1. f[k].ok = TRUE /\ Before(m, f[k].items, N, k)
      BY ZenonT(40), <2>1, <2>3
    <3>2. Consume(f[k], k).ok = TRUE /\ Before(m, Consume(f[k], k).items, N, k + 1)
      BY Zenon, <2>3, <3>1, ConsumeSound
    <3> QED BY Zenon, <1>5, <2>1, <2>2, <2>3, <3>2
  <2>4. CASE Sound(m, N, k) /\ Rest(m, N, k, k) # {}
    <3>1. Before(m, f[k].items, N, k)
      BY Zenon, <2>1, <2>4
    <3>2. Consume(f[k], k).ok = FALSE
      BY Zenon, <2>4, <3>1, ConsumeUnsound
    <3> QED BY Zenon, <1>5, <2>1, <2>2, <2>4, <3>2
  <2>5. CASE ~Sound(m, N, k)
    <3>1. Consume(f[k], k).ok = FALSE
      BY Zenon, <2>1, <2>5, ConsumeFailed
    <3> QED BY Zenon, <1>5, <2>1, <2>2, <2>5, <3>1
  <2> QED BY Zenon, <2>3, <2>4, <2>5
<1>8. N \in G
  <2> HIDE DEF G
  <2> QED BY <1>6, <1>7, UpTo
<1>9. Outcome(m, 0) <=> f[N].ok /\ \A id \in 0..(N - 1) : f[N].items[id].num >= 0
  BY Zenon, <1>1, <1>2 DEF Outcome, items
<1>10. CASE Sound(m, N, N)
  <2>1. f[N].ok = TRUE /\ Before(m, f[N].items, N, N)
    BY ZenonT(40), <1>8, <1>10
  <2>2. \A id \in 0..(N - 1) : f[N].items[id].num >= 0
    <3>1. \A id \in 0..(N - 1) : f[N].items[id].num = 0
      BY Zenon, <2>1 DEF Before
    <3> HIDE DEF f
    <3> QED BY <3>1
  <2> QED BY Zenon, <1>9, <1>10, <2>1, <2>2
<1>11. CASE ~Sound(m, N, N)
  BY Zenon, <1>8, <1>9, <1>11
<1> QED BY Zenon, <1>10, <1>11

-----------------------------------------------------------------------------
(* What Verify returns.                                                    *)

(* In the foreground there is one round, over all methods: no checkpoint   *)
(* before it has moved the start.  Its verdict is that of its methods, and *)
(* what Verify returns.                                                    *)
JudgedInv ==
    /\ IsFiniteSet(DOMAIN methods)
    /\ ~isInBackground =>
         /\ vpc \notin {"end", "panic"} => counted = FALSE /\ finalOutcome = TRUE
         /\ vpc \in {"thread", "scan", "checkpoint"} => stop = TRUE
         /\ vpc = "end" => (finalOutcome <=> NonIncreasing(Recorded))
         /\ result # "none" => vpc = "end" /\ (result = "true" <=> finalOutcome)

(* Of methods under their ids, none is smaller than a later one exactly if *)
(* the amounts never rise.                                                 *)
LEMMA SoundNonIncreasing ==
    ASSUME NEW m, NEW N \in Nat, Methods(m, N), \A id \in 0..(N - 1) : m[id].id = id
    PROVE  Sound(m, N, N) <=> NonIncreasing({m[id] : id \in DOMAIN m})
<1>1. DOMAIN m = 0..(N - 1) /\ \A id \in 0..(N - 1) : m[id].requestAmnt \in Int
  BY Zenon DEF Methods
<1>2. NonIncreasing({m[id] : id \in DOMAIN m}) <=>
        \A a, i \in 0..(N - 1) : m[a].itemAddrS = m[i].itemAddrS /\ a < i => m[a].requestAmnt >= m[i].requestAmnt
  <2>1. NonIncreasing({m[id] : id \in DOMAIN m}) <=>
          \A a, i \in 0..(N - 1) : m[a].itemAddrS = m[i].itemAddrS /\ m[a].id < m[i].id => m[a].requestAmnt >= m[i].requestAmnt
    BY ZenonT(40), <1>1 DEF NonIncreasing
  <2> QED BY <2>1
<1>3. \A a, i \in 0..(N - 1) : m[a].requestAmnt >= m[i].requestAmnt <=> ~(m[a].requestAmnt < m[i].requestAmnt)
  BY <1>1
<1>4. ASSUME Sound(m, N, N), NEW a \in 0..(N - 1), NEW i \in 0..(N - 1), a < i PROVE ~Less(m, a, i)
  <2>1. i \in a..(N - 1)
    BY <1>4
  <2> QED BY Zenon, <1>4, <2>1 DEF Sound
<1>5. ASSUME \A a, i \in 0..(N - 1) : a < i => ~Less(m, a, i) PROVE Sound(m, N, N)
  <2> SUFFICES ASSUME NEW a \in 0..(N - 1), NEW i \in a..(N - 1) PROVE ~Less(m, a, i)
    BY DEF Sound
  <2>1. i \in 0..(N - 1) /\ (i = a \/ a < i)
    OBVIOUS
  <2>2. ~Less(m, a, a)
    BY LessStrict
  <2> QED BY Zenon, <1>5, <2>1, <2>2
<1> QED BY Zenon, <1>2, <1>3, <1>4, <1>5 DEF Less

(* The one round of the foreground judges what is recorded.                *)
LEMMA CheckpointJudges ==
    ASSUME VerifierInv, JudgedInv, verifyCheckpoint, ~isInBackground
    PROVE  /\ vpc' \in {"end", "panic"}
           /\ vpc' = "end" => (finalOutcome' <=> NonIncreasing(Recorded))
<1> DEFINE n == Cardinality(DOMAIN methods)
<1>1. vpc = "checkpoint" /\ stop = TRUE /\ counted = FALSE /\ finalOutcome = TRUE /\ IsFiniteSet(DOMAIN methods)
  BY Zenon DEF verifyCheckpoint, JudgedInv
<1>2. n \in Nat /\ (n = 0 => DOMAIN methods = {})
  BY Zenon, <1>1, FS_CardinalityType, FS_EmptySet
<1>3. \/ n = 0 /\ vpc' = "end" /\ finalOutcome' = finalOutcome
      \/ n # 0 /\ DOMAIN methods # 0..(n - 1) /\ vpc' = "panic"
      \/ n # 0 /\ DOMAIN methods = 0..(n - 1) /\ vpc' = "end" /\ finalOutcome' = Outcome(methods, 0)
  BY Zenon, <1>1 DEF verifyCheckpoint
<1>4. {methods[id] : id \in DOMAIN methods} = Recorded
  BY Zenon, <1>1, RoundCollects
<1> HIDE DEF n
<1>5. CASE n = 0
  <2>1. NonIncreasing({})
    BY Zenon DEF NonIncreasing
  <2>2. Recorded = {}
    BY Zenon, <1>2, <1>4, <1>5
  <2> QED BY Zenon, <1>1, <1>3, <1>5, <2>1, <2>2
<1>6. CASE n # 0 /\ DOMAIN methods = 0..(n - 1)
  <2>1. MethodsInv /\ Recorded \subseteq Method
    BY Zenon, RecordedType DEF VerifierInv
  <2>2. \A id \in 0..(n - 1) : methods[id].id = id /\ methods[id] \in Method
    BY Zenon, <1>6, <2>1 DEF MethodsInv
  <2>3. Methods(methods, n)
    BY Zenon, <1>6, <2>2, VerifierAssumption DEF Methods, Method
  <2>4. Outcome(methods, 0) <=> NonIncreasing(Recorded)
    BY Zenon, <1>2, <1>4, <2>2, <2>3, OutcomeExact, SoundNonIncreasing
  <2> QED BY Zenon, <1>3, <1>6, <2>4
<1> QED BY Zenon, <1>3, <1>5, <1>6

(* Nothing is recorded once verify runs in the foreground.                 *)
LEMMA RecordsJudged ==
    ASSUME VerifierInv, JudgedInv, NEW t \in ThreadIds, LockFreeAddTxn(t) \/ ThreadFinished(t),
           isInBackground' = isInBackground
    PROVE  JudgedInv'
<1>1. /\ methods' = methods /\ counted' = counted /\ finalOutcome' = finalOutcome
      /\ vpc' = vpc /\ stop' = stop /\ result' = result /\ apc[t] # "done"
  BY DEF LockFreeAddTxn, PushBack, AddTxnCount, SetId, ThreadFinished, verifyVars
<1>2. t \notin threadsDone
  BY Zenon, <1>1 DEF VerifierInv, RecordInv, ListInv
<1>3. ~isInBackground => vpc # "end"
  BY <1>2 DEF VerifierInv, RoundInv
<1> QED BY Zenon, <1>1, <1>3 DEF JudgedInv

(* The steps of verify.                                                    *)
LEMMA VerifyJudged ==
    ASSUME VerifierInv, JudgedInv, verify, isInBackground' = isInBackground
    PROVE  JudgedInv'
<1>1. UNCHANGED addVars /\ result' = result
  BY Zenon DEF verify, Begin, NewRound, CheckThread, ScanElement, ScanEnd, verifyCheckpoint
<1>2. Recorded' = Recorded
  BY ZenonT(40), <1>1, RecordKept
<1>3. vpc # "end"
  BY DEF verify, Begin, NewRound, CheckThread, ScanElement, ScanEnd, verifyCheckpoint
<1>4. CASE Begin \/ NewRound
  <2>1. /\ vpc \in {"idle", "new"} /\ vpc' \in {"new", "thread"} /\ counted' = counted /\ finalOutcome' = finalOutcome
        /\ vpc' = "thread" => stop' = TRUE
        /\ methods' = methods \/ methods' = << >>
    BY <1>4 DEF Begin, NewRound
  <2>2. IsFiniteSet(DOMAIN methods')
    <3>1. DOMAIN << >> = {}
      OBVIOUS
    <3> QED BY Zenon, <2>1, <3>1, FS_EmptySet DEF JudgedInv
  <2>3. vpc \notin {"end", "panic"} /\ vpc' \notin {"end", "scan", "checkpoint"}
    BY <2>1
  <2> QED BY Zenon, <1>1, <1>3, <2>1, <2>2, <2>3 DEF JudgedInv
<1>5. CASE CheckThread
  <2>1. /\ vpc = "thread" /\ vpc' = "scan" /\ counted' = counted /\ finalOutcome' = finalOutcome
        /\ ~isInBackground /\ stop = TRUE => stop' = TRUE
        /\ methods' = methods
    BY Zenon, <1>5 DEF CheckThread
  <2> QED BY <1>1, <1>3, <2>1 DEF JudgedInv
<1>6. CASE ScanElement
  <2>1. vpc = "scan" /\ vpc' = vpc /\ counted' = counted /\ finalOutcome' = finalOutcome /\ stop' = stop
    BY Zenon, <1>6 DEF ScanElement
  <2>2. methods' = methods \/ \E id : DOMAIN methods' = DOMAIN methods \cup {id}
    BY Zenon, <1>6 DEF ScanElement
  <2>3. IsFiniteSet(DOMAIN methods')
    BY Zenon, <2>2, FS_AddElement DEF JudgedInv
  <2> QED BY <1>1, <1>3, <2>1, <2>3 DEF JudgedInv
<1>7. CASE ScanEnd
  <2>1. /\ vpc = "scan" /\ vpc' \in {"thread", "checkpoint"} /\ counted' = counted /\ finalOutcome' = finalOutcome
        /\ stop' = stop /\ methods' = methods
    BY <1>7 DEF ScanEnd
  <2> QED BY <1>1, <1>3, <2>1 DEF JudgedInv
<1>8. CASE verifyCheckpoint
  <2>1. methods' = methods
    BY Zenon, <1>8 DEF verifyCheckpoint
  <2>2. ~isInBackground => /\ vpc' \in {"end", "panic"}
                           /\ vpc' = "end" => (finalOutcome' <=> NonIncreasing(Recorded))
    BY Zenon, <1>8, CheckpointJudges
  <2>3. vpc' \in {"end", "panic"} => vpc' \notin {"thread", "scan", "checkpoint"}
    OBVIOUS
  <2> QED BY Zenon, <1>1, <1>2, <1>3, <2>1, <2>2, <2>3 DEF JudgedInv
<1> QED BY Zenon, <1>4, <1>5, <1>6, <1>7, <1>8 DEF verify

(* The return.                                                             *)
LEMMA ReturnJudged ==
    ASSUME VerifierInv, JudgedInv, Verify \/ WaitVerifier, isInBackground' = isInBackground
    PROVE  JudgedInv'
<1>1. UNCHANGED <<addVars, verifyVars>>
  BY Zenon DEF Verify, WaitVerifier
<1>2. Recorded' = Recorded
  BY Zenon, <1>1, RecordKept
<1>3. methods' = methods /\ vpc' = vpc /\ counted' = counted /\ finalOutcome' = finalOutcome /\ stop' = stop
  BY <1>1 DEF verifyVars
<1>4. ~isInBackground => vpc = "end" /\ (result' = "true" <=> finalOutcome)
  BY DEF Verify, WaitVerifier
<1> QED BY Zenon, <1>2, <1>3, <1>4 DEF JudgedInv

(* Verify accepts a history exactly if the amounts of every sender never   *)
(* rise in the order of the ids, for any number of threads, senders and    *)
(* methods, and however the recording threads interleaved.                 *)
THEOREM VerdictExact == VerifierSpec => []VerdictIsExact
<1>1. VerifierInit => JudgedInv
  <2> SUFFICES ASSUME VerifierInit PROVE JudgedInv
    OBVIOUS
  <2>1. DOMAIN methods = {}
    BY DEF VerifierInit
  <2>2. IsFiniteSet(DOMAIN methods)
    BY Zenon, <2>1, FS_EmptySet
  <2> QED BY <2>2 DEF VerifierInit, JudgedInv
<1>2. VerifierInv /\ JudgedInv /\ [VerifierNext]_verifierVars => JudgedInv'
  <2> SUFFICES ASSUME VerifierInv, JudgedInv, [VerifierNext]_verifierVars PROVE JudgedInv'
    OBVIOUS
  <2>1. CASE UNCHANGED verifierVars
    <3>1. UNCHANGED addVars
      BY <2>1 DEF verifierVars
    <3>2. Recorded' = Recorded
      BY Zenon, <3>1, RecordKept
    <3>3. /\ methods' = methods /\ vpc' = vpc /\ counted' = counted /\ finalOutcome' = finalOutcome
          /\ stop' = stop /\ result' = result /\ isInBackground' = isInBackground
      BY <2>1 DEF verifierVars, verifyVars
    <3> QED BY Zenon, <3>2, <3>3 DEF JudgedInv
  <2> QED BY Zenon, <2>1, RecordsJudged, VerifyJudged, ReturnJudged DEF VerifierNext, Ended
<1>3. JudgedInv => VerdictIsExact
  BY Zenon DEF JudgedInv, VerdictIsExact
<1> QED BY <1>1, <1>2, <1>3, VerifierInitial, VerifierInductive, PTL DEF VerifierSpec

=============================================================================
