------------------------------ MODULE Verifier ------------------------------
(***************************************************************************)
(* The correctness tool of the miner (concurrent/verifier): mining threads *)
(* record the transactions they committed with LockFreeAddTxn, and verify  *)
(* judges the history, either once when the threads have ended (Verify) or *)
(* over and over in the background while they run (ConcurrentVerify, with  *)
(* WaitVerifier for the result).                                           *)
(***************************************************************************)
EXTENDS Integers, Sequences, FiniteSets

CONSTANTS
    NumThreads,
    Senders,
    Requests,
    MaxAdds          \* bound: transactions that a thread records

ASSUME VerifierAssumption == NumThreads \in Nat \ {0} /\ Requests \subseteq Int

ThreadIds == 0..(NumThreads - 1)

VARIABLES
    isInBackground, \* ConcurrentVerify was called before the threads began
    threadLists,    \* per thread: its methods, in the order of PushBack
    numTxnsAdded,
    threadsDone,    \* the threads that called ThreadFinished
    apc,            \* per thread: "add", "count", "id", "done"
    index,          \* per thread: the id drawn in LockFreeAddTxn
    vpc,            \* verify: "idle", "new", "thread", "scan", "checkpoint", "end", "panic"
    tId, pos,       \* verify: the list and the place in it
    stop,
    methods,        \* verify: id -> method, as collected in this round
    itStart, counted,   \* verify: itStart, countIterated > 0
    finalOutcome,
    result          \* what Verify or WaitVerifier returned, or "none"

addVars == <<threadLists, numTxnsAdded, threadsDone, apc, index>>
verifyVars == <<vpc, tId, pos, stop, methods, itStart, counted, finalOutcome>>
verifierVars == <<isInBackground, addVars, verifyVars, result>>

VerifierInit ==
    /\ isInBackground \in BOOLEAN
    /\ threadLists = [t \in ThreadIds |-> << >>]
    /\ numTxnsAdded = 0
    /\ threadsDone = {}
    /\ apc = [t \in ThreadIds |-> "add"]
    /\ index = [t \in ThreadIds |-> 0]
    /\ vpc = "idle"
    /\ tId = 0
    /\ pos = 1
    /\ stop = FALSE
    /\ methods = << >>
    /\ itStart = 0
    /\ counted = FALSE
    /\ finalOutcome = TRUE
    /\ result = "none"

-----------------------------------------------------------------------------
(* LockFreeAddTxn: the method enters the list without an id, the id is     *)
(* drawn from the counter, and stored in the method.                       *)

PushBack(t) ==
    /\ apc[t] = "add"
    /\ Len(threadLists[t]) < MaxAdds
    /\ \E s \in Senders, a \in Requests :
          threadLists' = [threadLists EXCEPT ![t] =
              Append(@, [id |-> -1, itemAddrS |-> s, requestAmnt |-> a])]
    /\ apc' = [apc EXCEPT ![t] = "count"]
    /\ UNCHANGED <<numTxnsAdded, threadsDone, index, verifyVars, result>>

AddTxnCount(t) ==
    /\ apc[t] = "count"
    /\ numTxnsAdded' = numTxnsAdded + 1
    /\ index' = [index EXCEPT ![t] = numTxnsAdded' - 1]
    /\ apc' = [apc EXCEPT ![t] = "id"]
    /\ UNCHANGED <<threadLists, threadsDone, verifyVars, result>>

SetId(t) ==
    /\ apc[t] = "id"
    /\ threadLists' = [threadLists EXCEPT ![t][Len(threadLists[t])].id = index[t]]
    /\ apc' = [apc EXCEPT ![t] = "add"]
    /\ UNCHANGED <<numTxnsAdded, threadsDone, index, verifyVars, result>>

LockFreeAddTxn(t) == PushBack(t) \/ AddTxnCount(t) \/ SetId(t)

ThreadFinished(t) ==
    /\ apc[t] = "add"
    /\ threadsDone' = threadsDone \cup {t}
    /\ apc' = [apc EXCEPT ![t] = "done"]
    /\ UNCHANGED <<threadLists, numTxnsAdded, index, verifyVars, result>>

-----------------------------------------------------------------------------
(* The arithmetic of an item: the sum is the fraction num / den.           *)

NewItem == [num |-> 0, den |-> 1, exponent |-> 0, promoteItems |-> << >>]

(* math.Exp2, for the exponents that occur.                                *)
Exp2[n \in Nat] == IF n = 0 THEN 1 ELSE 2 * Exp2[n - 1]

addInt(i, x) == [i EXCEPT !.num = i.num + x * i.den]

addFrac(i, num, den) ==
    CASE i.den % den = 0 -> [i EXCEPT !.num = i.num + (num * i.den) \div den]
      [] i.den % den # 0 /\ den % i.den = 0 ->
           [i EXCEPT !.num = (i.num * den) \div i.den + num, !.den = den]
      [] OTHER -> [i EXCEPT !.num = i.num * den + num * i.den, !.den = i.den * den]

demote(i) == [addFrac(i, -1, Exp2[i.exponent + 1]) EXCEPT !.exponent = i.exponent + 1]

promote(i) ==
    [addFrac(i, 1, IF i.exponent < 0 THEN 1 ELSE Exp2[i.exponent]) EXCEPT !.exponent = i.exponent - 1]

Push(i, it) == [i EXCEPT !.promoteItems = Append(i.promoteItems, it)]

Clear(i) == [i EXCEPT !.promoteItems = << >>]

(* Item it is demoted until item by is consumed.                           *)
Demoted(items, by, it) == [items EXCEPT ![by] = Push(items[by], it), ![it] = demote(items[it])]

Less(m, i, j) == m[i].itemAddrS = m[j].itemAddrS /\ m[i].requestAmnt < m[j].requestAmnt

(* Mutant: the smaller of two amounts demotes the greater.                 *)
CompareSwapped(items, m, it0, it) ==
    CASE Less(m, it0, it) -> Demoted(items, it0, it)
      [] Less(m, it, it0) -> Demoted(items, it, it0)
      [] OTHER -> items

(* Two methods of one sender: the one of the smaller amount is demoted     *)
(* until the one of the greater amount promotes it.                        *)
Compare(items, m, it0, it) ==
    CASE Less(m, it, it0) -> Demoted(items, it0, it)
      [] Less(m, it0, it) -> Demoted(items, it, it0)
      [] OTHER -> items

(* Method it counts one for its item and is compared with all before it.   *)
Produce(items, m, it) ==
    LET its[k \in 0..it] ==
          IF k = 0 THEN [items EXCEPT ![it] = addInt(items[it], 1)]
                   ELSE Compare(its[k - 1], m, k - 1, it)
    IN  its[it]

(* The loop of verifyCheckpoint from method first on.                      *)
Compared(m, first) ==
    LET items[k \in 0..Cardinality(DOMAIN m)] ==
          IF k <= first THEN [id \in DOMAIN m |-> NewItem]
                        ELSE Produce(items[k - 1], m, k - 1)
    IN  items[Cardinality(DOMAIN m)]

Promote(items, it) == [items EXCEPT ![it] = promote(items[it])]

(* The items on a stack are promoted, the top first.                       *)
Promoted(items, stack) ==
    LET its[k \in 0..Len(stack)] ==
          IF k = 0 THEN items ELSE Promote(its[k - 1], stack[Len(stack) - k + 1])
    IN  its[Len(stack)]

(* One round of handleNonceOrder: the item is consumed, a sum below zero   *)
(* is a failure, and the items on its stack are promoted.                  *)
Consume(acc, it) ==
    LET item == addInt(acc.items[it], -1)
    IN  [items |-> Promoted([acc.items EXCEPT ![it] = Clear(item)], item.promoteItems),
         ok |-> IF item.num >= 0 THEN acc.ok ELSE FALSE]

handleNonceOrder(items) ==
    LET acc[k \in 0..Cardinality(DOMAIN items)] ==
          IF k = 0 THEN [items |-> items, ok |-> TRUE] ELSE Consume(acc[k - 1], k - 1)
    IN  acc[Cardinality(DOMAIN items)]

(* The verdict of verifyCheckpoint over the methods m, looked at from      *)
(* first on: nothing failed and all sums are in the end at least zero.     *)
Outcome(m, first) ==
    LET end == handleNonceOrder(Compared(m, first))
    IN  end.ok /\ \A id \in DOMAIN m : end.items[id].num >= 0

-----------------------------------------------------------------------------
(* verify: rounds over all lists, each with a checkpoint at its end, until *)
(* a round that found every thread done.                                   *)

(* done.Add(1).  In the foreground verify is called when the threads have  *)
(* ended, in the background as soon as its goroutine runs.                 *)
Begin ==
    /\ vpc = "idle"
    /\ isInBackground \/ threadsDone = ThreadIds
    /\ vpc' = "new"
    /\ UNCHANGED <<addVars, tId, pos, stop, methods, itStart, counted, finalOutcome, result>>

NewRound ==
    /\ vpc = "new"
    /\ methods' = << >>
    /\ stop' = TRUE
    /\ tId' = 0
    /\ vpc' = "thread"
    /\ UNCHANGED <<addVars, pos, itStart, counted, finalOutcome, result>>

(* Mutant: only the flag of the last thread counts.                        *)
CheckLastThread ==
    /\ vpc = "thread"
    /\ stop' = ~(isInBackground /\ tId \notin threadsDone)
    /\ pos' = 1
    /\ vpc' = "scan"
    /\ UNCHANGED <<addVars, tId, methods, itStart, counted, finalOutcome, result>>

CheckThread ==
    /\ vpc = "thread"
    /\ stop' = (stop /\ ~(isInBackground /\ tId \notin threadsDone))
    /\ pos' = 1
    /\ vpc' = "scan"
    /\ UNCHANGED <<addVars, tId, methods, itStart, counted, finalOutcome, result>>

(* An element without an id is not yet logically in the list.              *)
ScanElement ==
    /\ vpc = "scan"
    /\ pos <= Len(threadLists[tId])
    /\ LET m == threadLists[tId][pos]
       IN  methods' = IF m.id = -1 THEN methods
                      ELSE [id \in DOMAIN methods \cup {m.id} |-> IF id = m.id THEN m ELSE methods[id]]
    /\ pos' = pos + 1
    /\ UNCHANGED <<addVars, vpc, tId, stop, itStart, counted, finalOutcome, result>>

ScanEnd ==
    /\ vpc = "scan"
    /\ pos > Len(threadLists[tId])
    /\ tId' = tId + 1
    /\ vpc' = IF tId + 1 < NumThreads THEN "thread" ELSE "checkpoint"
    /\ UNCHANGED <<addVars, pos, stop, methods, itStart, counted, finalOutcome, result>>

(* verifyCheckpoint works on the maps of the round only: one step.  A key  *)
(* missing among 0..(n-1) is a nil dereference.  From the second round on  *)
(* it starts behind where it was.  The call after the loop has the empty   *)
(* outer maps, since the loop declares its own, and does nothing.          *)
verifyCheckpoint ==
    /\ vpc = "checkpoint"
    /\ LET n == Cardinality(DOMAIN methods)
           skips == counted /\ n # 1
           first == IF skips THEN itStart + 1 ELSE 0
       IN  IF n = 0
             THEN /\ vpc' = IF stop THEN "end" ELSE "new"
                  /\ UNCHANGED <<itStart, counted, finalOutcome>>
           ELSE IF DOMAIN methods # 0..(n - 1)
             THEN vpc' = "panic" /\ UNCHANGED <<itStart, counted, finalOutcome>>
           ELSE /\ vpc' = IF stop THEN "end" ELSE "new"
                /\ itStart' = IF first < n THEN n - 1 ELSE itStart
                /\ counted' = TRUE
                /\ finalOutcome' = Outcome(methods, first)
    /\ UNCHANGED <<addVars, tId, pos, stop, methods, result>>

verify == Begin \/ NewRound \/ CheckThread \/ ScanElement \/ ScanEnd \/ verifyCheckpoint

(* Verify returns the outcome when verify has ended.                       *)
Verify ==
    /\ ~isInBackground
    /\ vpc = "end"
    /\ result = "none"
    /\ result' = IF finalOutcome THEN "true" ELSE "false"
    /\ UNCHANGED <<addVars, verifyVars>>

(* WaitVerifier, called when the threads are done, waits for a verify that *)
(* has begun: until its goroutine has run to done.Add(1) there is nothing  *)
(* to wait for.                                                            *)
WaitVerifier ==
    /\ isInBackground
    /\ threadsDone = ThreadIds
    /\ vpc \in {"idle", "end"}
    /\ result = "none"
    /\ result' = IF finalOutcome THEN "true" ELSE "false"
    /\ UNCHANGED <<addVars, verifyVars>>

Ended == (vpc = "panic" \/ (vpc = "end" /\ result # "none")) /\ UNCHANGED verifierVars

VerifierNext ==
    \/ /\ vpc # "panic"
       /\ \/ \E t \in ThreadIds : LockFreeAddTxn(t) \/ ThreadFinished(t)
          \/ verify
          \/ Verify
          \/ WaitVerifier
       /\ UNCHANGED isInBackground
    \/ Ended

VerifierSpec == VerifierInit /\ [][VerifierNext]_verifierVars

-----------------------------------------------------------------------------
(* The methods recorded so far, by id.                                     *)
Recorded ==
    UNION {{threadLists[t][k] : k \in DOMAIN threadLists[t]} : t \in ThreadIds}

(* The reference for the verdict: no method of a sender asks for more than *)
(* an earlier one of the same sender.                                      *)
NonIncreasing(M) ==
    \A m, k \in M : m.itemAddrS = k.itemAddrS /\ m.id < k.id => m.requestAmnt >= k.requestAmnt

(* Verify accepts a history exactly if the amounts of every sender never   *)
(* rise, in the order the ids were drawn, whatever fractions its items go  *)
(* through and however the recording threads interleaved.                  *)
VerdictIsExact == ~isInBackground /\ result # "none" => (result = "true" <=> NonIncreasing(Recorded))

(* When verify stops, its last round has seen every recorded method, in    *)
(* the background as well: a thread is done before its list is read.       *)
LastRoundComplete == vpc = "end" => {methods[id] : id \in DOMAIN methods} = Recorded

=============================================================================
