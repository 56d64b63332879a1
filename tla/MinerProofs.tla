---------------------------- MODULE MinerProofs ----------------------------
(***************************************************************************)
(* Proofs about the map of accounts in use (Transfer), the loops of the    *)
(* miner's worker (WorkerLoops) and the gas pool (GasPool) that its        *)
(* threads share.  The three have no variable in common.                   *)
(* What is proved of the loops holds for any number of threads, any        *)
(* channel sizes and thresholds, and any bounds: it is about the requests  *)
(* and their feedback, the threads that write the block and the task, and  *)
(* the blocks that are built.  Their uncles are valid, the worker does not *)
(* rest before it has a block for the current head, and each one that is   *)
(* mined is watched once and for long enough.                              *)
(***************************************************************************)
EXTENDS WorkerLoops, Transfer, GasPool, SumTheorems, WellFoundedInduction

-----------------------------------------------------------------------------
(* As long as no transfer is from an account to itself, the entries of     *)
(* InUseAccounts give exclusive use of both accounts and none is left      *)
(* behind, for any number of threads and of accounts.  The two facts need  *)
(* each other: an entry is known to be free only because every entry is    *)
(* that of some thread, and deleting it hurts nobody only because no other *)
(* thread has it.                                                          *)

NoSelfTransfer == \A p \in Pairs : p[1] # p[2]

LockInv == TransferTypeOK /\ ExclusiveAccounts /\ NoLeakedEntry

(* Before any call no thread holds anything and the map is empty.          *)
LEMMA LockInit == TransferInit => LockInv
  BY PairsAssumption
     DEF TransferInit, LockInv, TransferTypeOK, ExclusiveAccounts, NoLeakedEntry, Locked, Labels

(* A step of thread t changes only what t holds, and the map accordingly.  *)
LEMMA LockStep ==
  ASSUME NoSelfTransfer, LockInv, NEW t \in Workers, TransferStep(t)
  PROVE  LockInv'
<1> USE DEF LockInv
<1>0. pair[t] \in Pairs /\ sender(t) \in Accounts /\ recipient(t) \in Accounts
      /\ sender(t) # recipient(t) /\ tpc[t] \in Labels
  BY PairsAssumption DEF TransferTypeOK, NoSelfTransfer, sender, recipient
<1>1. TransferTypeOK'
  BY Zenon, <1>0, PairsAssumption DEF TransferTypeOK, Labels, TransferStep, Jump, Call, LoadOrStoreSender,
     LoadOrStoreRecipient, SubBalance, AddBalance, DeleteSender, DeleteRecipient,
     UndoSender, Backoff
<1>2. \A u \in Workers \ {t} : Locked(u)' = Locked(u)
  BY Zenon, <1>0 DEF TransferTypeOK, TransferStep, Jump, Call, LoadOrStoreSender,
     LoadOrStoreRecipient, SubBalance, AddBalance, DeleteSender, DeleteRecipient,
     UndoSender, Backoff, Locked, sender, recipient
<1>3. \E new \in SUBSET Accounts :
         /\ \A u \in Workers \ {t} : Locked(u) \cap new = {}
         /\ Locked(t)' = new
         /\ InUseAccounts' = (InUseAccounts \ Locked(t)) \cup new
  <2>0. /\ Locked(t) \subseteq InUseAccounts
        /\ \A u \in Workers \ {t} : Locked(u) \subseteq InUseAccounts /\ Locked(u) \cap Locked(t) = {}
    BY DEF ExclusiveAccounts, NoLeakedEntry
  <2>1. CASE Call(t)
    <3>1. Locked(t) = {} /\ Locked(t)' = {} /\ InUseAccounts' = InUseAccounts
      BY Zenon, <2>1, <1>0 DEF Call, Jump, TransferTypeOK, Locked
    <3> QED BY <3>1, Zenon
  <2>2. CASE LoadOrStoreSender(t)
    <3>1. CASE sender(t) \in InUseAccounts
      <4>1. Locked(t) = {} /\ Locked(t)' = {} /\ InUseAccounts' = InUseAccounts
        BY Zenon, <2>2, <3>1, <1>0 DEF LoadOrStoreSender, Jump, TransferTypeOK, Locked
      <4> QED BY <4>1, Zenon
    <3>2. CASE sender(t) \notin InUseAccounts
      <4>1. Locked(t) = {} /\ Locked(t)' = {sender(t)}
            /\ InUseAccounts' = InUseAccounts \cup {sender(t)}
        BY Zenon, <2>2, <3>2, <1>0 DEF LoadOrStoreSender, Jump, TransferTypeOK, Locked, sender
      <4> QED BY <4>1, <3>2, <2>0, <1>0
    <3> QED BY Zenon, <3>1, <3>2
  <2>3. CASE LoadOrStoreRecipient(t)
    <3>1. CASE recipient(t) \in InUseAccounts
      <4>1. Locked(t) = {sender(t)} /\ Locked(t)' = {sender(t)} /\ InUseAccounts' = InUseAccounts
        BY Zenon, <2>3, <3>1, <1>0 DEF LoadOrStoreRecipient, Jump, TransferTypeOK, Locked, sender, sameAccount
      <4> QED BY <4>1, <2>0, <1>0
    <3>2. CASE recipient(t) \notin InUseAccounts
      <4>1. Locked(t) = {sender(t)} /\ Locked(t)' = {sender(t), recipient(t)}
            /\ InUseAccounts' = InUseAccounts \cup {recipient(t)}
        BY Zenon, <2>3, <3>2, <1>0 DEF LoadOrStoreRecipient, Jump, TransferTypeOK, Locked, sender, recipient
      <4> QED BY <4>1, <3>2, <2>0, <1>0
    <3> QED BY <3>1, <3>2
  <2>4. CASE SubBalance(t) \/ AddBalance(t)
    <3>1. Locked(t) = {sender(t), recipient(t)} /\ Locked(t)' = {sender(t), recipient(t)}
          /\ InUseAccounts' = InUseAccounts
      BY Zenon, <2>4, <1>0 DEF SubBalance, AddBalance, Jump, TransferTypeOK, Locked, sender, recipient
    <3> QED BY <3>1, <2>0, <1>0
  <2>5. CASE DeleteSender(t)
    <3>1. Locked(t) = {sender(t), recipient(t)} /\ Locked(t)' = {recipient(t)}
          /\ InUseAccounts' = InUseAccounts \ {sender(t)}
      BY Zenon, <2>5, <1>0 DEF DeleteSender, Jump, TransferTypeOK, Locked, recipient
    <3> QED BY <3>1, <2>0, <1>0
  <2>6. CASE DeleteRecipient(t)
    <3>1. Locked(t) = {recipient(t)} /\ Locked(t)' = {}
          /\ InUseAccounts' = InUseAccounts \ {recipient(t)}
      BY Zenon, <2>6, <1>0 DEF DeleteRecipient, Jump, TransferTypeOK, Locked
    <3> QED BY <3>1, <2>0, <1>0
  <2>7. CASE UndoSender(t)
    <3>1. Locked(t) = {sender(t)} /\ Locked(t)' = {}
          /\ InUseAccounts' = InUseAccounts \ {sender(t)}
      BY <2>7, <1>0 DEF UndoSender, Jump, TransferTypeOK, Locked
    <3> QED BY <3>1, <2>0, <1>0
  <2>8. CASE Backoff(t)
    <3>1. Locked(t) = {} /\ Locked(t)' = {} /\ InUseAccounts' = InUseAccounts
      BY Zenon, <2>8, <1>0 DEF Backoff, Jump, TransferTypeOK, Locked
    <3> QED BY <3>1, Zenon
  <2> QED BY Zenon, <2>1, <2>2, <2>3, <2>4, <2>5, <2>6, <2>7, <2>8 DEF TransferStep
<1>4. ExclusiveAccounts'
  BY <1>2, <1>3 DEF ExclusiveAccounts
<1>5. NoLeakedEntry'
  BY <1>2, <1>3 DEF ExclusiveAccounts, NoLeakedEntry
<1> QED BY Zenon, <1>1, <1>4, <1>5

(* LockInv is inductive.                                                   *)
LEMMA LockInvariance == ASSUME NoSelfTransfer PROVE TransferSpec => []LockInv
<1>1. LockInv /\ [TransferNext]_transferVars => LockInv'
  <2>1. ASSUME LockInv, UNCHANGED transferVars PROVE LockInv'
    <3>1. \A t \in Workers : Locked(t)' = Locked(t)
      BY <2>1 DEF transferVars, Locked, sender, recipient
    <3>2. TransferTypeOK'
      BY <2>1 DEF LockInv, transferVars, TransferTypeOK
    <3> QED BY <2>1, <3>1, <3>2 DEF LockInv, transferVars, ExclusiveAccounts, NoLeakedEntry
  <2>2. ASSUME LockInv, TransferNext PROVE LockInv'
    BY <2>2, LockStep DEF TransferNext
  <2> QED BY <2>1, <2>2
<1> QED BY <1>1, LockInit, PTL DEF TransferSpec

(* The locks of Transfer work when no account transfers to itself: a       *)
(* thread has both accounts to itself from LoadOrStore to Delete.          *)
THEOREM LocksAreExclusive == ASSUME NoSelfTransfer PROVE TransferSpec => []ExclusiveAccounts
<1>1. LockInv => ExclusiveAccounts
  BY DEF LockInv
<1> QED BY <1>1, LockInvariance, PTL

(* ... and an entry of InUseAccounts is always that of a transfer under    *)
(* way: no attempt leaves an account locked.                               *)
THEOREM LocksAreReturned == ASSUME NoSelfTransfer PROVE TransferSpec => []NoLeakedEntry
<1>1. LockInv => NoLeakedEntry
  BY DEF LockInv
<1> QED BY <1>1, LockInvariance, PTL

-----------------------------------------------------------------------------
(* Requests and feedback.                                                  *)

(* mainLoop is between two requests, or done with one but for its task.    *)
Idle ==
    \/ main \in {"select", "exit"}
    \/ main \in {"commit", "send"} /\ after = "select"

RequestType ==
    /\ newWork \in {"select", "send", "reset", "exit"}
    /\ main \in {"select", "begin", "refill", "pool", "batch", "adjust", "commit", "send", "exit"}
    /\ after \in {"pool", "select"}
    /\ newTxs \in BOOLEAN
    /\ todo \in 0..2 /\ toSend \in 0..1
    /\ resubmitAdjustCh \in Nat /\ backlog \in Nat
    /\ bound \in Bounds

(* New transactions are counted while mainLoop is idle, and forgotten when *)
(* it takes a request; so an interrupt for them finds it idle, too.  What  *)
(* is in the channel comes from before the request or from its batches.    *)
RequestInv ==
    /\ RequestType
    /\ newTxs => Idle \/ newWork = "reset"
    /\ interrupt = "resubmit" => Idle /\ newWork = "send"
    /\ main \in {"begin", "refill", "pool"} \/ (main \in {"commit", "send"} /\ after = "pool")
          => resubmitAdjustCh <= backlog
    /\ main \in {"batch", "adjust"} => todo >= 1 /\ resubmitAdjustCh + todo <= backlog + 2
    /\ main = "adjust" => toSend = 1

(* The invariant holds of a new worker, whose startCh holds a start.       *)
LEMMA RequestInit == Init => RequestInv
<1> SUFFICES ASSUME Init PROVE RequestInv
  OBVIOUS
<1>1. newTxs \in BOOLEAN /\ ~newTxs
  BY Zenon DEF Init
<1>2. /\ newWork = "select" /\ main = "select" /\ after = "select" /\ interrupt = "nil"
      /\ todo = 0 /\ toSend = 0 /\ resubmitAdjustCh = 0 /\ backlog = 0 /\ bound \in Bounds
  BY ZenonT(40) DEF Init
<1> QED BY <1>1, <1>2 DEF RequestInv, RequestType, Idle

(* Every step of the loops, the engine and the chain keeps it.             *)
LEMMA RequestStep == RequestInv /\ [Next]_vars => RequestInv'
<1> SUFFICES ASSUME RequestInv, [Next]_vars PROVE RequestInv'
  OBVIOUS
<1>1. ASSUME UNCHANGED <<newWork, interrupt, newTxs, main, after, todo, toSend, resubmitAdjustCh,
                         backlog, bound>>
      PROVE  RequestInv'
  BY Zenon, <1>1 DEF RequestInv, RequestType, Idle
<1>2. CASE UNCHANGED vars
  BY Zenon, <1>1, <1>2 DEF vars, requestVars, mainVars
<1>3. CASE start \/ SendStart \/ stop \/ close
  BY Zenon, <1>1, <1>3 DEF start, SendStart, stop, close, requestVars, mainVars
<1>4. CASE taskLoop
  BY Zenon, <1>1, <1>4 DEF taskLoop, OnTask, Seal, ExitTask, requestVars, mainVars
<1>5. CASE resultLoop
  BY Zenon, <1>1, <1>5 DEF resultLoop, OnResult, WriteBlock, PostChainEvents, ExitResult, requestVars, mainVars
<1>6. CASE Found \/ Aborted \/ Import
  BY Zenon, <1>1, <1>6 DEF Found, Aborted, Import, requestVars, mainVars
<1> USE LoopAssumption DEF RequestInv, RequestType, Idle
<1>7. CASE OnStart \/ OnHead
  BY <1>7 DEF OnStart, OnHead, commit, mainVars
<1>8. CASE OnTimer
  BY Zenon, <1>8 DEF OnTimer, commit, mainVars
<1>9. CASE OnAdjust
  BY <1>9 DEF OnAdjust, requestVars, mainVars
<1>10. CASE SendRequest
  BY <1>10 DEF SendRequest
<1>11. CASE Reset
  BY Zenon, <1>11 DEF Reset, mainVars
<1>12. CASE ExitNewWork
  BY <1>12 DEF ExitNewWork, mainVars
<1>13. CASE Begin
  BY <1>13 DEF Begin, requestVars
<1>14. CASE Pending
  <2>1. bound.batches \in 0..2
    BY DEF Bound
  <2>2. todo' \in 0..2 /\ (todo' # 0 => todo' >= 1)
    BY <1>14, <2>1 DEF Pending
  <2>3. resubmitAdjustCh' + todo' <= backlog' + 2
    <3>1. /\ resubmitAdjustCh <= backlog
          /\ UNCHANGED <<resubmitAdjustCh, backlog>>
      BY <1>14 DEF Pending
    <3>2. \A n, b \in Nat, t \in 0..2 : n <= b => n + t <= b + 2
      OBVIOUS
    <3> QED BY Zenon, <2>2, <3>1, <3>2
  <2>4. main' \in {"select", "batch"} /\ (main' = "batch" => todo' >= 1)
    BY <1>14, <2>2 DEF Pending
  <2> QED BY Zenon, <1>14, <2>2, <2>3, <2>4 DEF Pending, requestVars
<1>15. CASE commitTransactions
  BY <1>15 DEF commitTransactions, Feedback, requestVars
<1>16. CASE SendAdjust
  BY <1>16 DEF SendAdjust, requestVars
<1>17. CASE Commit \/ SendTask
  BY <1>17 DEF Commit, SendTask, requestVars
<1>18. CASE OnSide \/ OnTxs \/ ExitMain
  BY Zenon, <1>18 DEF OnSide, OnTxs, ExitMain, requestVars
<1> QED
  BY Zenon, <1>2, <1>3, <1>4, <1>5, <1>6, <1>7, <1>8, <1>9, <1>10, <1>11, <1>12, <1>13, <1>14,
     <1>15, <1>16, <1>17, <1>18 DEF Next, newWorkLoop, mainLoop

(* No batch is interrupted for new transactions, whatever the timing.      *)
THEOREM NoResubmission == Spec => []NeverResubmitted
<1>1. RequestInv => NeverResubmitted
  BY DEF RequestInv, RequestType, Idle, NeverResubmitted
<1> QED BY <1>1, RequestInit, RequestStep, PTL DEF Spec

(* newWorkLoop and mainLoop wait for each other only with messages of      *)
(* earlier requests in the channel: with the ten places of the code, nine. *)
THEOREM FeedbackFits == Spec => []StandoffNeedsBacklog
<1>1. RequestInv => StandoffNeedsBacklog
  BY LoopAssumption DEF RequestInv, RequestType, Standoff, StandoffNeedsBacklog
<1> QED BY <1>1, RequestInit, RequestStep, PTL DEF Spec

-----------------------------------------------------------------------------
(* Sealing.                                                                *)

(* A seal under way is of the last task or told to stop; all are, before a *)
(* new one starts and when taskLoop has ended.                             *)
SealInv ==
    /\ \A s \in seals : s = [block |-> s.block, stopCh |-> s.stopCh]
    /\ taskPc = "seal" => task = prev
    /\ OneSeal

(* taskLoop stops a seal before it starts another, and at its end.         *)
LEMMA SealStep == SealInv /\ [Next]_vars => SealInv'
<1> SUFFICES ASSUME SealInv, [Next]_vars PROVE SealInv'
  OBVIOUS
<1>1. CASE UNCHANGED <<taskPc, task, prev, seals>>
  BY <1>1 DEF SealInv, OneSeal
<1>2. \A s \in Stopped : s = [block |-> s.block, stopCh |-> "closed"]
  BY DEF SealInv, Stopped
<1>3. CASE OnTask
  <2>1. CASE task = prev
    BY <1>3, <2>1 DEF OnTask, SealInv, OneSeal
  <2>2. CASE task # prev
    BY <1>2, <1>3, <2>2 DEF OnTask, SealInv, OneSeal
  <2> QED BY <2>1, <2>2
<1>4. CASE Seal
  BY <1>4 DEF Seal, SealInv, OneSeal
<1>5. CASE ExitTask
  BY <1>2, <1>5 DEF ExitTask, SealInv, OneSeal
<1>6. CASE Found
  BY <1>6 DEF Found, SealInv, OneSeal
<1>7. CASE Aborted
  BY <1>7 DEF Aborted, SealInv, OneSeal
<1>8. CASE SendTask
  BY <1>8 DEF SendTask, SealInv, OneSeal
<1>9. CASE start \/ SendStart \/ stop \/ close
  BY SMTT(30), <1>1, <1>9 DEF start, SendStart, stop, close, taskVars
<1>10. CASE newWorkLoop
  BY Zenon, <1>1, <1>10 DEF newWorkLoop, OnStart, OnHead, OnTimer, OnAdjust, SendRequest, Reset, ExitNewWork,
         taskVars
<1>11. CASE Begin \/ Pending \/ commitTransactions \/ SendAdjust \/ Commit \/ OnSide \/ OnTxs \/ ExitMain
  BY Zenon, <1>1, <1>11
  DEF Begin, Pending, commitTransactions, SendAdjust, Commit, OnSide, OnTxs, ExitMain, taskVars
<1>12. CASE resultLoop \/ Import
  BY <1>1, <1>12 DEF resultLoop, OnResult, WriteBlock, PostChainEvents, ExitResult, Import, taskVars
<1>13. CASE UNCHANGED vars
  BY <1>1, <1>13 DEF vars, taskVars
<1> QED
  BY <1>3, <1>4, <1>5, <1>6, <1>7, <1>8, <1>9, <1>10, <1>11, <1>12, <1>13 DEF Next, mainLoop, taskLoop

(* One seal at a time, for the last task, and none left at the end.        *)
THEOREM SealsOne == Spec => []OneSeal
<1>1. Init => SealInv
  BY DEF Init, SealInv, OneSeal
<1>2. SealInv => OneSeal
  BY DEF SealInv
<1> QED BY <1>1, <1>2, SealStep, PTL DEF Spec

-----------------------------------------------------------------------------
(* Tasks and results.                                                      *)

IsSeq(s) == \E S : s \in Seq(S)
Elems(s) == {s[i] : i \in DOMAIN s}

(* A channel keeps what it holds when a message is sent or received.       *)
LEMMA Sending ==
    ASSUME NEW s, IsSeq(s), NEW x
    PROVE  /\ IsSeq(Append(s, x))
           /\ Len(Append(s, x)) = Len(s) + 1 /\ Len(s) \in Nat
           /\ Elems(Append(s, x)) \subseteq Elems(s) \cup {x}
<1> PICK S : s \in Seq(S)
  BY DEF IsSeq
<1>1. s \in Seq(S \cup {x})
  OBVIOUS
<1>2. Append(s, x) \in Seq(S \cup {x})
  BY <1>1
<1> QED BY <1>1, <1>2 DEF IsSeq, Elems

(* What is left after a receipt was in the channel before.                 *)
LEMMA Receiving ==
    ASSUME NEW s, IsSeq(s), s # << >>
    PROVE  /\ IsSeq(Tail(s))
           /\ Elems(Tail(s)) \subseteq Elems(s)
           /\ Head(s) \in Elems(s)
<1> PICK S : s \in Seq(S)
  BY DEF IsSeq
<1>1. Tail(s) \in Seq(S)
  OBVIOUS
<1> QED BY <1>1 DEF IsSeq, Elems

(* A block as commit hands it to taskLoop: not sealed.                     *)
IsTask(b) ==
    /\ IsSeq(b) /\ Len(b) \in Nat \ {0}
    /\ SealHash(b) = b
    /\ "nonce" \in DOMAIN b[Len(b)]

(* A block assembled on a parent is one.                                   *)
LEMMA Assembling ==
    ASSUME NEW env, IsSeq(env.parent)
    PROVE  IsTask(Block(env))
<1> DEFINE h == [author |-> "local", txs |-> env.txs, uncles |-> env.uncles, nonce |-> 0]
           b == Append(env.parent, h)
<1>1. IsSeq(b) /\ Len(b) = Len(env.parent) + 1 /\ Len(env.parent) \in Nat
  BY Sending
<1>2. b[Len(b)] = h
  <2> PICK S : env.parent \in Seq(S)
    BY DEF IsSeq
  <2> QED BY <1>1
<1>3. [h EXCEPT !.nonce = 0] = h
  OBVIOUS
<1>4. PICK T : b \in Seq(T)
  BY <1>1 DEF IsSeq
<1> HIDE DEF b
<1>5. [b EXCEPT ![Len(b)] = h] = b
  BY <1>1, <1>2, <1>4
<1>6. SealHash(b) = b
  BY <1>2, <1>3, <1>5 DEF SealHash, Sealed
<1>7. "nonce" \in DOMAIN h
  OBVIOUS
<1>8. Block(env) = b
  BY DEF Block, b
<1> HIDE DEF h
<1> QED BY <1>1, <1>2, <1>6, <1>7, <1>8 DEF IsTask

(* Sealing a task changes neither its seal hash nor its number.            *)
LEMMA Sealing ==
    ASSUME NEW b, IsTask(b), NEW n
    PROVE  /\ IsSeq(Sealed(b, n))
           /\ Len(Sealed(b, n)) = Len(b)
           /\ SealHash(Sealed(b, n)) = b
<1> PICK S : b \in Seq(S)
  BY DEF IsTask, IsSeq
<1> DEFINE c == Sealed(b, n)
           h == [b[Len(b)] EXCEPT !.nonce = n]
<1>1. c = [b EXCEPT ![Len(b)] = h]
  BY DEF Sealed
<1>2. c \in Seq(S \cup {h}) /\ Len(c) = Len(b)
  BY <1>1 DEF IsTask
<1>3. c[Len(b)] = h
  BY <1>1 DEF IsTask
<1>4. [h EXCEPT !.nonce = 0] = [b[Len(b)] EXCEPT !.nonce = 0]
  BY Zenon
<1>5. SealHash(c) = [c EXCEPT ![Len(b)] = [b[Len(b)] EXCEPT !.nonce = 0]]
  BY Zenon, <1>2, <1>3, <1>4 DEF SealHash, Sealed
<1>6. SealHash(b) = [b EXCEPT ![Len(b)] = [b[Len(b)] EXCEPT !.nonce = 0]]
  BY DEF SealHash, Sealed
<1>7. SealHash(c) = SealHash(b)
  BY Zenon, <1>1, <1>2, <1>5, <1>6 DEF IsTask
<1> QED BY <1>2, <1>7 DEF IsTask, IsSeq

(* Unless b is stale, t is a pending task.                                 *)
HasTask(b, t) ==
    (\A x \in blocks : NumberU64(x) < NumberU64(b) + staleThreshold) => t \in pendingTasks

ChainInv ==
    /\ head \in blocks /\ \A x \in blocks : IsSeq(x)
    /\ IsSeq(chainHeadCh) /\ \A n \in Elems(chainHeadCh) : \E x \in blocks : n = NumberU64(x)
    /\ \A env \in current : /\ env = [parent |-> env.parent, txs |-> env.txs, uncles |-> env.uncles]
                            /\ env.parent \in blocks
    /\ result \in {"write", "postHead"} => IsSeq(found)
    /\ result = "postHead" => found \in blocks

PendingInv ==
    /\ taskPc \in {"task", "seal"} => IsTask(task)
    /\ taskPc = "seal" => HasTask(task, task)
    /\ \A s \in seals : IsTask(s.block) /\ HasTask(s.block, s.block)
    /\ IsSeq(resultCh)
    /\ \A b \in Elems(resultCh) : /\ IsSeq(b) /\ Len(SealHash(b)) = Len(b)
                                 /\ HasTask(b, SealHash(b))

(* A head that is announced is a block of the chain, and work is done on   *)
(* one; a task is pending before its seal is under way, and from then on   *)
(* until a head makes it stale.                                            *)
TaskInv == ChainInv /\ PendingInv

(* An empty channel holds nothing.                                         *)
LEMMA EmptySeq == IsSeq(<< >>) /\ Elems(<< >>) = {}
<1>1. << >> \in Seq({})
  OBVIOUS
<1> QED BY <1>1 DEF IsSeq, Elems

(* A new worker has no tasks, seals or results.                            *)
LEMMA TaskInit == Init => TaskInv
BY EmptySeq DEF Init, TaskInv, ChainInv, PendingInv, Genesis

(* The chain only grows, and what is announced is on it.                   *)
LEMMA ChainStep == TaskInv /\ [Next]_vars => ChainInv' /\ blocks \subseteq blocks'
<1> SUFFICES ASSUME ChainInv, PendingInv, [Next]_vars PROVE ChainInv' /\ blocks \subseteq blocks'
  BY DEF TaskInv
<1>1. CASE UNCHANGED <<blocks, head, chainHeadCh, current, result, found>>
  BY <1>1 DEF ChainInv
<1>2. CASE OnHead
  <2>1. IsSeq(Tail(chainHeadCh)) /\ Elems(Tail(chainHeadCh)) \subseteq Elems(chainHeadCh)
    BY <1>2, Receiving DEF OnHead, ChainInv
  <2> QED BY <1>2, <2>1 DEF OnHead, ChainInv, mainVars, resultVars
<1>3. CASE Begin
  <2>1. /\ UNCHANGED <<blocks, head, chainHeadCh, result, found>>
        /\ \/ UNCHANGED current
           \/ \E U : current' = {[[parent |-> head, txs |-> 0, uncles |-> {}] EXCEPT !.uncles = U]}
    BY ZenonT(40), <1>3 DEF Begin, chainVars, resultVars
  <2> QED BY <2>1 DEF ChainInv
<1>4. CASE commitTransactions \/ OnTxs
  BY <1>4 DEF commitTransactions, OnTxs, Executed, ChainInv, chainVars, resultVars
<1>5. CASE OnSide
  BY <1>5 DEF OnSide, ChainInv, resultVars
<1>6. CASE OnResult
  <2>1. Head(resultCh) \in Elems(resultCh)
    BY <1>6, Receiving DEF OnResult, PendingInv
  <2>2. IsSeq(Head(resultCh))
    BY <2>1 DEF PendingInv
  <2> QED BY Zenon, <1>6, <2>2 DEF OnResult, ChainInv, chainVars, mainVars
<1>7. CASE WriteBlock
  BY <1>7 DEF WriteBlock, WriteBlockWithState, ChainInv, mainVars
<1>8. CASE PostChainEvents
  <2>1. CASE UNCHANGED chainHeadCh
    BY <1>8, <2>1 DEF PostChainEvents, ChainInv, mainVars
  <2>2. CASE result = "postHead" /\ chainHeadCh' = Append(chainHeadCh, NumberU64(found))
    <3>1. /\ IsSeq(chainHeadCh')
          /\ Elems(chainHeadCh') \subseteq Elems(chainHeadCh) \cup {NumberU64(found)}
      BY <2>2, Sending DEF ChainInv
    <3> QED BY <1>8, <2>2, <3>1 DEF PostChainEvents, ChainInv, mainVars
  <2> QED BY <1>8, <2>1, <2>2 DEF PostChainEvents, PostHead
<1>9. CASE ExitResult
  BY <1>9 DEF ExitResult, ChainInv, chainVars, mainVars
<1>10. CASE Import
  <2> DEFINE h == [author |-> "remote", txs |-> 0, uncles |-> {}, nonce |-> 1]
  <2>1. PICK p \in blocks, canonical \in BOOLEAN :
            /\ WriteBlockWithState(Append(p, h), canonical)
            /\ canonical => PostHead(Append(p, h))
            /\ ~canonical => UNCHANGED chainHeadCh
    BY <1>10 DEF Import
  <2> HIDE DEF h
  <2> DEFINE b == Append(p, h)
  <2>2. IsSeq(b)
    BY Sending DEF ChainInv
  <2> HIDE DEF b
  <2>3. blocks' = blocks \cup {b} /\ head' \in blocks'
    BY <2>1 DEF WriteBlockWithState, ChainInv, b
  <2>4. \/ UNCHANGED chainHeadCh
        \/ chainHeadCh' = Append(chainHeadCh, NumberU64(b))
    BY <2>1 DEF PostHead, b
  <2>5. IsSeq(chainHeadCh') /\ Elems(chainHeadCh') \subseteq Elems(chainHeadCh) \cup {NumberU64(b)}
    <3>1. CASE UNCHANGED chainHeadCh
      BY <3>1 DEF ChainInv
    <3>2. CASE chainHeadCh' = Append(chainHeadCh, NumberU64(b))
      BY <3>2, Sending DEF ChainInv
    <3> QED BY <2>4, <3>1, <3>2
  <2>6. UNCHANGED <<current, result, found>>
    BY Zenon, <1>10 DEF Import, mainVars, resultVars
  <2> QED BY <2>2, <2>3, <2>5, <2>6 DEF ChainInv
<1>11. CASE start \/ SendStart \/ stop \/ close
  BY SMTT(30), <1>1, <1>11 DEF start, SendStart, stop, close, chainVars, mainVars, resultVars
<1>12. CASE OnStart \/ OnTimer \/ OnAdjust \/ SendRequest \/ Reset \/ ExitNewWork
  BY ZenonT(40), <1>1, <1>12
  DEF OnStart, OnTimer, OnAdjust, SendRequest, Reset, ExitNewWork, chainVars, mainVars, resultVars
<1>13. CASE Pending \/ SendAdjust \/ Commit \/ SendTask \/ ExitMain
  BY Zenon, <1>1, <1>13 DEF Pending, SendAdjust, Commit, SendTask, ExitMain, chainVars, resultVars
<1>14. CASE taskLoop \/ Found \/ Aborted
  BY Zenon, <1>1, <1>14
  DEF taskLoop, OnTask, Seal, ExitTask, Found, Aborted, chainVars, mainVars, resultVars
<1>15. CASE UNCHANGED vars
  BY Zenon, <1>1, <1>15 DEF vars, chainVars, mainVars, resultVars
<1> QED
  BY Zenon, <1>2, <1>3, <1>4, <1>5, <1>6, <1>7, <1>8, <1>9, <1>10, <1>11, <1>12, <1>13, <1>14, <1>15
  DEF Next, newWorkLoop, mainLoop, resultLoop

(* A task stays pending while a seal of it may be found.                   *)
LEMMA PendingStep == TaskInv /\ SealInv /\ [Next]_vars => PendingInv'
<1> SUFFICES ASSUME ChainInv, PendingInv, SealInv, [Next]_vars PROVE PendingInv'
  BY DEF TaskInv
<1>1. blocks \subseteq blocks'
  BY ChainStep DEF TaskInv
<1>2. CASE UNCHANGED <<taskPc, task, seals, pendingTasks, resultCh>>
  BY <1>1, <1>2 DEF PendingInv, HasTask
<1>3. ASSUME NEW x \in blocks, pendingTasks' = Kept(NumberU64(x)),
             UNCHANGED <<taskPc, task, seals, resultCh>>
      PROVE  PendingInv'
  <2>1. \A b, t : HasTask(b, t) /\ NumberU64(t) = NumberU64(b) => HasTask(b, t)'
    BY Zenon, <1>1, <1>3 DEF HasTask, Kept
  <2> QED BY <1>3, <2>1 DEF PendingInv, NumberU64
<1>4. CASE OnStart
  BY <1>3, <1>4 DEF OnStart, ChainInv, resultVars
<1>5. CASE OnHead
  <2>1. Head(chainHeadCh) \in Elems(chainHeadCh)
    BY <1>5, Receiving DEF OnHead, ChainInv
  <2>2. PICK x \in blocks : Head(chainHeadCh) = NumberU64(x)
    BY <2>1 DEF ChainInv
  <2> QED BY Zenon, <1>3, <1>5, <2>2 DEF OnHead, resultVars
<1>6. CASE SendTask
  <2>1. CASE UNCHANGED <<taskPc, task>>
    BY Zenon, <1>2, <1>6, <2>1 DEF SendTask, resultVars
  <2>2. CASE taskPc' = "task" /\ \E env \in current : task' = Block(env)
    <3>1. IsTask(task')
      BY Zenon, <2>2, Assembling DEF ChainInv
    <3> QED BY <1>1, <1>6, <2>2, <3>1 DEF SendTask, PendingInv, HasTask, resultVars
  <2> QED BY <1>6, <2>1, <2>2 DEF SendTask
<1>7. CASE OnTask
  <2>1. \A s \in Stopped : \E r \in seals : s.block = r.block
    BY DEF Stopped, SealInv
  <2>2. pendingTasks \subseteq pendingTasks' /\ UNCHANGED <<task, resultCh>>
    BY <1>7 DEF OnTask, resultVars
  <2>3. \A s \in seals' : \E r \in seals : s.block = r.block
    BY <1>7, <2>1 DEF OnTask
  <2>4. taskPc' = "seal" => task \in pendingTasks'
    BY <1>7 DEF OnTask
  <2>5. \A b, t : HasTask(b, t) => HasTask(b, t)'
    BY <1>1, <2>2 DEF HasTask
  <2>6. \A s \in seals' : IsTask(s.block) /\ HasTask(s.block, s.block)'
    BY Zenon, <2>3, <2>5 DEF PendingInv
  <2> QED BY <1>7, <2>2, <2>4, <2>5, <2>6 DEF OnTask, PendingInv, HasTask
<1>8. CASE Seal
  <2>1. /\ taskPc = "seal" /\ taskPc' = "select" /\ resultCh' = resultCh /\ pendingTasks' = pendingTasks
        /\ seals' \subseteq seals \cup {[block |-> task, stopCh |-> "open"]}
    BY Zenon, <1>8 DEF Seal, resultVars
  <2>2. \A b, t : HasTask(b, t) => HasTask(b, t)'
    BY Zenon, <1>1, <2>1 DEF HasTask
  <2>3. \A s \in seals' : IsTask(s.block) /\ HasTask(s.block, s.block)
    BY <2>1 DEF PendingInv
  <2>4. \A s \in seals' : IsTask(s.block) /\ HasTask(s.block, s.block)'
    BY Zenon, <2>2, <2>3
  <2> QED BY Zenon, <2>1, <2>2, <2>4 DEF PendingInv
<1>9. CASE ExitTask
  <2>1. \A s \in Stopped : \E r \in seals : s.block = r.block
    BY DEF Stopped, SealInv
  <2>2. \A b, t : HasTask(b, t) => HasTask(b, t)'
    BY SMTT(30), <1>1, <1>9 DEF HasTask, ExitTask
  <2>3. \A s \in seals' : IsTask(s.block) /\ HasTask(s.block, s.block)'
    BY Zenon, <1>9, <2>1, <2>2 DEF ExitTask, PendingInv
  <2> QED BY Zenon, <1>9, <2>2, <2>3 DEF ExitTask, PendingInv, resultVars
<1>10. CASE Found
  <2>1. PICK s \in seals, n \in 1..bound.nonces :
            resultCh' = resultCh \/ resultCh' = Append(resultCh, Sealed(s.block, n))
    BY <1>10 DEF Found
  <2> DEFINE b == Sealed(s.block, n)
  <2>2. IsSeq(b) /\ Len(b) = Len(s.block) /\ SealHash(b) = s.block
    BY Sealing DEF PendingInv
  <2> HIDE DEF b
  <2>3. HasTask(b, SealHash(b))
    BY <2>2 DEF PendingInv, HasTask, NumberU64
  <2>4. IsSeq(resultCh') /\ Elems(resultCh') \subseteq Elems(resultCh) \cup {b}
    <3>1. CASE resultCh' = resultCh
      BY <3>1 DEF PendingInv
    <3>2. CASE resultCh' = Append(resultCh, b)
      BY <3>2, Sending DEF PendingInv
    <3> QED BY <2>1, <3>1, <3>2 DEF b
  <2>5. seals' \subseteq seals /\ UNCHANGED <<taskPc, task, pendingTasks, blocks>>
    BY <1>10 DEF Found, chainVars
  <2> QED BY <2>2, <2>3, <2>4, <2>5 DEF PendingInv, HasTask
<1>11. CASE Aborted
  BY Zenon, <1>1, <1>11 DEF Aborted, PendingInv, HasTask, resultVars
<1>12. CASE OnResult
  <2>1. IsSeq(resultCh') /\ Elems(resultCh') \subseteq Elems(resultCh)
    BY Zenon, <1>12, Receiving DEF OnResult, PendingInv
  <2>2. UNCHANGED <<taskPc, task, seals, pendingTasks>>
    BY Zenon, <1>12 DEF OnResult, taskVars
  <2>3. \A b, t : HasTask(b, t) => HasTask(b, t)'
    BY Zenon, <1>1, <2>2 DEF HasTask
  <2> QED BY Zenon, <2>1, <2>2, <2>3 DEF PendingInv
<1>13. CASE WriteBlock \/ PostChainEvents \/ ExitResult \/ Import
  BY Zenon, <1>2, <1>13 DEF WriteBlock, PostChainEvents, ExitResult, Import, taskVars, resultVars
<1>14. CASE start \/ SendStart \/ stop \/ close
  BY SMTT(30), <1>2, <1>14 DEF start, SendStart, stop, close, taskVars, resultVars
<1>15. CASE OnTimer \/ OnAdjust \/ SendRequest \/ Reset \/ ExitNewWork
  BY ZenonT(40), <1>2, <1>15 DEF OnTimer, OnAdjust, SendRequest, Reset, ExitNewWork, taskVars, resultVars
<1>16. CASE Begin \/ Pending \/ commitTransactions \/ SendAdjust \/ Commit \/ OnSide \/ OnTxs \/ ExitMain
  BY Zenon, <1>2, <1>16
  DEF Begin, Pending, commitTransactions, SendAdjust, Commit, OnSide, OnTxs, ExitMain, taskVars, resultVars
<1>17. CASE UNCHANGED vars
  BY <1>2, <1>17 DEF vars, taskVars, resultVars
<1> QED
  BY Zenon, <1>4, <1>5, <1>6, <1>7, <1>8, <1>9, <1>10, <1>11, <1>12, <1>13, <1>14, <1>15, <1>16, <1>17
  DEF Next, newWorkLoop, mainLoop, taskLoop, resultLoop

(* The task of every sealed block is there when its seal is found, unless  *)
(* the chain has outgrown it by staleThreshold.                            *)
THEOREM TasksOutliveSeals == Spec => []ResultsHaveTasks
<1>1. Init => SealInv /\ TaskInv
  BY TaskInit DEF Init, SealInv, OneSeal
<1>2. SealInv /\ TaskInv /\ [Next]_vars => (SealInv /\ TaskInv)'
  BY Zenon, SealStep, ChainStep, PendingStep DEF TaskInv
<1>3. TaskInv => ResultsHaveTasks
  BY Zenon DEF TaskInv, PendingInv, IsTask, HasTask, Elems, ResultsHaveTasks
<1> QED BY <1>1, <1>2, <1>3, PTL DEF Spec

-----------------------------------------------------------------------------
(* Uncles.                                                                 *)

(* What commitUncle and VerifyUncles ask of an uncle of a block on p.      *)
UncleOn(p, u) ==
    LET ancestors == GetBlocksFromHash(p)
    IN  /\ ParentOf(u) # p
        /\ ParentOf(u) \in ancestors
        /\ u \notin ancestors \cup UNION {Uncles(a) : a \in ancestors}

UnclesOn(p, U) ==
    /\ IsFiniteSet(U) /\ Cardinality(U) <= 2
    /\ \A u \in U : UncleOn(p, u)

(* A block assembled on a parent has it as parent, and its uncles.         *)
LEMMA Parenthood ==
    ASSUME NEW env, IsSeq(env.parent)
    PROVE  /\ Block(env) # Genesis
           /\ ParentOf(Block(env)) = env.parent
           /\ Uncles(Block(env)) = env.uncles
<1> DEFINE h == [author |-> "local", txs |-> env.txs, uncles |-> env.uncles, nonce |-> 0]
           b == Append(env.parent, h)
<1> PICK S : env.parent \in Seq(S)
  BY DEF IsSeq
<1>1. env.parent \in Seq(S \cup {h}) /\ h \in S \cup {h}
  OBVIOUS
<1>2. h.uncles = env.uncles
  OBVIOUS
<1>3. Block(env) = b
  BY DEF Block
<1> HIDE DEF h
<1>4. /\ b \in Seq(S \cup {h}) /\ Len(b) = Len(env.parent) + 1 /\ b[Len(b)] = h
      /\ Len(env.parent) \in Nat
      /\ \A i \in 1..Len(env.parent) : b[i] = env.parent[i]
  BY <1>1
<1>5. b # << >>
  BY <1>4
<1>6. SubSeq(b, 1, Len(b) - 1) = env.parent
  <2>1. Len(b) - 1 = Len(env.parent)
    BY <1>4
  <2>2. SubSeq(b, 1, Len(env.parent)) = [i \in 1..Len(env.parent) |-> b[i]]
    BY <1>4
  <2>3. env.parent = [i \in 1..Len(env.parent) |-> env.parent[i]]
    OBVIOUS
  <2> QED BY <1>4, <2>1, <2>2, <2>3
<1> HIDE DEF b
<1> QED BY Zenon, <1>2, <1>3, <1>4, <1>5, <1>6 DEF Genesis, ParentOf, Uncles

(* A block on a parent with uncles for it passes VerifyUncles.             *)
LEMMA Verifying ==
    ASSUME NEW env, IsSeq(env.parent), UnclesOn(env.parent, env.uncles)
    PROVE  VerifyUncles(Block(env))
BY Zenon, Parenthood DEF VerifyUncles, UnclesOn, UncleOn

(* commitUncle takes uncles only.                                          *)
LEMMA Committing ==
    ASSUME NEW env, NEW u, commitUncle(env, u)
    PROVE  u \notin env.uncles /\ UncleOn(env.parent, u)
BY DEF commitUncle, UncleOn, Family

(* So does commitNewWork.                                                  *)
LEMMA Choosing ==
    ASSUME NEW env, NEW S, IsFiniteSet(S), NEW U \in ChosenUncles(env, S)
    PROVE  UnclesOn(env.parent, U)
<1> DEFINE valid == {u \in S : commitUncle(env, u)}
<1>1. IsFiniteSet(valid) /\ Cardinality(valid) \in Nat
  BY FS_Subset, FS_CardinalityType
<1>2. U \subseteq valid
  BY DEF ChosenUncles
<1>3. IsFiniteSet(U)
  BY <1>1, <1>2, FS_Subset
<1>4. Cardinality(U) <= 2
  BY <1>1 DEF ChosenUncles
<1>5. \A u \in U : UncleOn(env.parent, u)
  BY <1>2, Committing
<1> QED BY <1>3, <1>4, <1>5 DEF UnclesOn

(* The uncles of the block under construction, of the block that taskLoop  *)
(* has received and of every task are valid.                               *)
UncleInv ==
    /\ IsFiniteSet(possibleUncles)
    /\ \A env, other \in current : env = other
    /\ \A env \in current : UnclesOn(env.parent, env.uncles)
    /\ taskPc = "task" => VerifyUncles(task)
    /\ UnclesAreValid

(* Uncles are taken on the parent of the block under construction, which   *)
(* does not change with the head.                                          *)
LEMMA UncleStep == ChainInv /\ UncleInv /\ [Next]_vars => UncleInv'
<1> SUFFICES ASSUME ChainInv, UncleInv, [Next]_vars PROVE UncleInv'
  OBVIOUS
<1>1. CASE UNCHANGED <<possibleUncles, current, taskPc, task, pendingTasks>>
  BY <1>1 DEF UncleInv, UnclesAreValid
<1>2. CASE OnStart \/ OnHead
  <2>1. /\ pendingTasks' \subseteq pendingTasks
        /\ UNCHANGED <<possibleUncles, current, taskPc, task>>
    BY Zenon, <1>2 DEF OnStart, OnHead, Kept, mainVars
  <2> QED BY <2>1 DEF UncleInv, UnclesAreValid
<1>3. CASE Begin
  <2> DEFINE env == [parent |-> head, txs |-> 0, uncles |-> {}]
             fresh == {u \in possibleUncles : NumberU64(u) + staleThreshold > NumberU64(head) + 1}
  <2>1. /\ UNCHANGED <<taskPc, task, pendingTasks>>
        /\ \/ UNCHANGED <<current, possibleUncles>>
           \/ /\ \E U \in ChosenUncles(env, fresh) : current' = {[env EXCEPT !.uncles = U]}
              /\ possibleUncles' = fresh
    BY ZenonT(40), <1>3 DEF Begin, taskVars
  <2>2. IsFiniteSet(fresh)
    BY FS_Subset DEF UncleInv
  <2>3. \A U \in ChosenUncles(env, fresh) : UnclesOn(head, U)
    <3>1. env.parent = head
      OBVIOUS
    <3> HIDE DEF env, fresh
    <3> QED BY <2>2, <3>1, Choosing
  <2>4. \A U : [env EXCEPT !.uncles = U].parent = head /\ [env EXCEPT !.uncles = U].uncles = U
    OBVIOUS
  <2> HIDE DEF env, fresh
  <2>5. IsFiniteSet(possibleUncles')
    BY <2>1, <2>2 DEF UncleInv
  <2>6. /\ \A e, f \in current' : e = f
        /\ \A e \in current' : UnclesOn(e.parent, e.uncles)
    <3>1. CASE UNCHANGED current
      BY <3>1 DEF UncleInv
    <3>2. CASE \E U \in ChosenUncles(env, fresh) : current' = {[env EXCEPT !.uncles = U]}
      <4> PICK U \in ChosenUncles(env, fresh) : current' = {[env EXCEPT !.uncles = U]}
        BY <3>2
      <4> QED BY Zenon, <2>3, <2>4
    <3> QED BY <2>1, <3>1, <3>2
  <2> QED BY <2>1, <2>5, <2>6 DEF UncleInv, UnclesAreValid
<1>4. CASE commitTransactions \/ OnTxs
  <2>1. /\ UNCHANGED <<possibleUncles, taskPc, task, pendingTasks>>
        /\ \/ UNCHANGED current
           \/ \E txs : current' = {[env EXCEPT !.txs = txs] : env \in current}
    BY Zenon, <1>4 DEF commitTransactions, OnTxs, Executed, taskVars
  <2>2. \A e \in current' : \E env \in current : e.parent = env.parent /\ e.uncles = env.uncles
    BY <2>1 DEF ChainInv
  <2>3. \A e, f \in current' : e = f
    BY Zenon, <2>1 DEF UncleInv
  <2> QED BY <2>1, <2>2, <2>3 DEF UncleInv, UnclesAreValid
<1>5. CASE OnSide
  <2> DEFINE u == Head(chainSideCh)
  <2>1. /\ UNCHANGED <<taskPc, task, pendingTasks>>
        /\ possibleUncles' = possibleUncles \cup {u}
        /\ \/ UNCHANGED current
           \/ /\ \E env \in current : Cardinality(env.uncles) < 2 /\ commitUncle(env, u)
              /\ current' = {[env EXCEPT !.uncles = @ \cup {u}] : env \in current}
    BY <1>5 DEF OnSide, taskVars
  <2> HIDE DEF u
  <2>2. IsFiniteSet(possibleUncles')
    BY <2>1, FS_AddElement DEF UncleInv
  <2>3. CASE UNCHANGED current
    BY <2>1, <2>2, <2>3 DEF UncleInv, UnclesAreValid
  <2>4. ASSUME NEW env \in current, Cardinality(env.uncles) < 2, commitUncle(env, u),
               current' = {[e EXCEPT !.uncles = @ \cup {u}] : e \in current}
        PROVE  UncleInv'
    <3> DEFINE new == [env EXCEPT !.uncles = @ \cup {u}]
    <3>1. current' = {new}
      BY Zenon, <2>4 DEF UncleInv
    <3>2. new.parent = env.parent /\ new.uncles = env.uncles \cup {u}
      BY DEF ChainInv
    <3>3. UnclesOn(env.parent, env.uncles \cup {u})
      <4>1. UnclesOn(env.parent, env.uncles) /\ Cardinality(env.uncles) \in Nat
        BY FS_CardinalityType DEF UncleInv, UnclesOn
      <4>2. IsFiniteSet(env.uncles \cup {u}) /\ Cardinality(env.uncles \cup {u}) <= 2
        <5>1. IsFiniteSet(env.uncles) /\ u \notin env.uncles
          BY <2>4, <4>1, Committing DEF UnclesOn
        <5>2. /\ IsFiniteSet(env.uncles \cup {u})
              /\ Cardinality(env.uncles \cup {u}) = Cardinality(env.uncles) + 1
          BY Zenon, <5>1, FS_AddElement
        <5> QED BY <2>4, <4>1, <5>2
      <4> QED BY Zenon, <2>4, <4>1, <4>2, Committing DEF UnclesOn
    <3> HIDE DEF new
    <3> QED BY <2>1, <2>2, <3>1, <3>2, <3>3 DEF UncleInv, UnclesAreValid
  <2> QED BY <2>1, <2>3, <2>4
<1>6. CASE SendTask
  <2>1. /\ UNCHANGED <<possibleUncles, current, pendingTasks>>
        /\ \/ UNCHANGED <<taskPc, task>>
           \/ \E env \in current : task' = Block(env)
    BY <1>6 DEF SendTask
  <2>2. ASSUME NEW env \in current PROVE VerifyUncles(Block(env))
    BY Zenon, Verifying DEF ChainInv, UncleInv
  <2> QED BY <2>1, <2>2 DEF UncleInv, UnclesAreValid
<1>7. CASE OnTask
  BY <1>7 DEF OnTask, UncleInv, UnclesAreValid, mainVars
<1>8. CASE Seal \/ ExitTask
  BY Zenon, <1>8 DEF Seal, ExitTask, UncleInv, UnclesAreValid, mainVars
<1>9. CASE start \/ SendStart \/ stop \/ close
  BY Zenon, <1>1, <1>9 DEF start, SendStart, stop, close, mainVars, taskVars
<1>10. CASE OnTimer \/ OnAdjust \/ SendRequest \/ Reset \/ ExitNewWork
  BY ZenonT(40), <1>1, <1>10
  DEF OnTimer, OnAdjust, SendRequest, Reset, ExitNewWork, mainVars, taskVars
<1>11. CASE Pending \/ SendAdjust \/ Commit \/ ExitMain
  BY Zenon, <1>1, <1>11 DEF Pending, SendAdjust, Commit, ExitMain, taskVars
<1>12. CASE Found \/ Aborted \/ Import
  BY Zenon, <1>1, <1>12 DEF Found, Aborted, Import, mainVars, taskVars
<1>13. CASE resultLoop
  BY Zenon, <1>1, <1>13
  DEF resultLoop, OnResult, WriteBlock, PostChainEvents, ExitResult, mainVars, taskVars
<1>14. CASE UNCHANGED vars
  BY <1>1, <1>14 DEF vars, mainVars, taskVars
<1> QED
  BY Zenon, <1>2, <1>3, <1>4, <1>5, <1>6, <1>7, <1>8, <1>9, <1>10, <1>11, <1>12, <1>13, <1>14
  DEF Next, newWorkLoop, mainLoop, taskLoop

(* Every block that is given to the engine passes VerifyUncles, whenever   *)
(* side blocks arrive and whatever becomes of the chain meanwhile.         *)
THEOREM UnclesPass == Spec => []UnclesAreValid
<1>1. Init => SealInv /\ TaskInv /\ UncleInv
  BY TaskInit, FS_EmptySet DEF Init, SealInv, OneSeal, UncleInv, UnclesAreValid
<1>2. SealInv /\ TaskInv /\ UncleInv /\ [Next]_vars => (SealInv /\ TaskInv /\ UncleInv)'
  BY SMTT(30), SealStep, ChainStep, PendingStep, UncleStep DEF TaskInv
<1>3. UncleInv => UnclesAreValid
  BY DEF UncleInv
<1> QED BY <1>1, <1>2, <1>3, PTL DEF Spec

-----------------------------------------------------------------------------
(* Work on the current head.                                               *)

(* A head, or a start, has been announced and not yet been acted upon.     *)
Announced ==
    \/ chainHeadCh # << >>
    \/ result = "postHead"
    \/ newWork = "send" /\ ~noempty
    \/ main = "begin"

HeadOf(envs) == \E env \in envs : env.parent = head

(* Work is for the current head, unless one is announced; and a running    *)
(* worker has a task for it, is about to have one, or will hear of it.     *)
HeadInv ==
    /\ taskPc # "task" => prev = task
    /\ main = "exit" => exitCh
    /\ HeadOf(current) \/ current = {} \/ refused \/ exitCh \/ Announced
    /\ running /\ ~refused /\ ~exitCh =>
          \/ starting \/ startCh = 1 \/ Announced
          \/ main \in {"commit", "send"} /\ HeadOf(current)
          \/ task # Genesis /\ ParentOf(task) = head

(* Events follow heads, requests follow events, and work follows requests. *)
LEMMA HeadStep == RequestInv /\ ChainInv /\ UncleInv /\ HeadInv /\ [Next]_vars => HeadInv'
<1> SUFFICES ASSUME RequestInv, ChainInv, UncleInv, HeadInv, [Next]_vars PROVE HeadInv'
  OBVIOUS
<1> DEFINE chainSame == UNCHANGED <<head, chainHeadCh, result>>
           lifeSame == UNCHANGED <<running, refused, exitCh, starting, startCh>>
           workSame == UNCHANGED <<newWork, noempty, main, current>>
           taskSame == UNCHANGED <<taskPc, task, prev>>
<1>1. CASE chainSame /\ lifeSame /\ workSame /\ taskSame
  BY Zenon, <1>1 DEF HeadInv, HeadOf, Announced
<1>2. CASE start \/ SendStart \/ stop \/ close
  <2>1. chainSame /\ workSame /\ taskSame
    BY Zenon, <1>2
    DEF start, SendStart, stop, close, chainVars, requestVars, mainVars, taskVars, resultVars
  <2>2. \/ starting' /\ UNCHANGED <<exitCh, refused>>
        \/ startCh' = 1 /\ UNCHANGED <<exitCh, refused>>
        \/ ~running' /\ UNCHANGED <<exitCh, refused>>
        \/ exitCh'
    BY Zenon, <1>2 DEF start, SendStart, stop, close, mainVars
  <2> QED BY Zenon, <2>1, <2>2 DEF HeadInv, HeadOf, Announced
<1>3. CASE OnStart \/ OnHead
  <2>1. newWork' = "send" /\ ~noempty'
    BY Zenon, <1>3 DEF OnStart, OnHead, commit
  <2>2. UNCHANGED <<main, exitCh, taskPc, task, prev>>
    BY Zenon, <1>3 DEF OnStart, OnHead, mainVars, lifeVars
  <2> QED BY Zenon, <2>1, <2>2 DEF HeadInv, Announced
<1>4. CASE OnTimer \/ OnAdjust \/ Reset \/ ExitNewWork
  <2>1. chainSame /\ lifeSame /\ taskSame /\ UNCHANGED <<main, current>>
    BY Zenon, <1>4
    DEF OnTimer, OnAdjust, Reset, ExitNewWork, chainVars, lifeVars, mainVars, taskVars, resultVars
  <2>2. newWork # "send"
    BY Zenon, <1>4 DEF OnTimer, OnAdjust, Reset, ExitNewWork
  <2> QED BY Zenon, <2>1, <2>2 DEF HeadInv, HeadOf, Announced
<1>5. CASE SendRequest
  <2>1. chainSame /\ lifeSame /\ taskSame /\ UNCHANGED current /\ main = "select"
    BY Zenon, <1>5 DEF SendRequest, chainVars, lifeVars, taskVars, resultVars
  <2>2. main' # "exit" /\ (~noempty => main' = "begin")
    BY Zenon, <1>5 DEF SendRequest
  <2> QED BY Zenon, <2>1, <2>2 DEF HeadInv, HeadOf, Announced
<1>6. CASE Begin
  <2>1. /\ chainSame /\ taskSame
        /\ UNCHANGED <<running, exitCh, starting, startCh, newWork, noempty>>
    BY Zenon, <1>6 DEF Begin, chainVars, lifeVars, requestVars, taskVars, resultVars
  <2>2. CASE refused' /\ main' = "select"
    BY Zenon, <2>1, <2>2 DEF HeadInv
  <2>3. CASE /\ \E U : current' = {[[parent |-> head, txs |-> 0, uncles |-> {}] EXCEPT !.uncles = U]}
             /\ \/ main = "begin" /\ main' = "commit"
                \/ main = "refill" /\ main' = "pool" /\ (refused => refused')
    <3>1. HeadOf(current)'
      BY <2>1, <2>3 DEF HeadOf
    <3> QED BY Zenon, <2>1, <2>3, <3>1 DEF HeadInv, Announced
  <2> QED BY Zenon, <1>6, <2>2, <2>3 DEF Begin
<1>7. CASE commitTransactions \/ OnTxs \/ OnSide \/ Pending \/ SendAdjust
  <2>1. /\ lifeSame /\ taskSame
        /\ UNCHANGED <<head, chainHeadCh, result, newWork, noempty>>
    BY ZenonT(40), <1>7 DEF commitTransactions, OnTxs, OnSide, Pending, SendAdjust, chainVars, lifeVars,
       requestVars, taskVars, resultVars
  <2>2. \A env \in current : \E e \in current' : e.parent = env.parent
    <3>1. \/ UNCHANGED current
          \/ \E txs : current' = {[env EXCEPT !.txs = txs] : env \in current}
          \/ \E u : current' = {[env EXCEPT !.uncles = @ \cup {u}] : env \in current}
      BY Zenon, <1>7 DEF commitTransactions, OnTxs, OnSide, Pending, SendAdjust, Executed
    <3>2. ASSUME NEW env \in current
          PROVE  /\ \A txs : [env EXCEPT !.txs = txs].parent = env.parent
                 /\ \A u : [env EXCEPT !.uncles = @ \cup {u}].parent = env.parent
      BY DEF ChainInv
    <3>3. CASE UNCHANGED current
      BY Zenon, <3>3
    <3>4. CASE \E txs : current' = {[env EXCEPT !.txs = txs] : env \in current}
      <4> PICK txs : current' = {[env EXCEPT !.txs = txs] : env \in current}
        BY Zenon, <3>4
      <4>1. \A env \in current : [env EXCEPT !.txs = txs] \in current'
        BY Zenon
      <4> QED BY Zenon, <3>2, <4>1
    <3>5. CASE \E u : current' = {[env EXCEPT !.uncles = @ \cup {u}] : env \in current}
      <4> PICK u : current' = {[env EXCEPT !.uncles = @ \cup {u}] : env \in current}
        BY Zenon, <3>5
      <4>1. \A env \in current : [env EXCEPT !.uncles = @ \cup {u}] \in current'
        BY Zenon
      <4> QED BY Zenon, <3>2, <4>1
    <3> QED BY Zenon, <3>1, <3>3, <3>4, <3>5
  <2>3. current = {} => current' = {}
    BY Zenon, <1>7 DEF commitTransactions, OnTxs, OnSide, Pending, SendAdjust, Executed
  <2>4. /\ main \notin {"begin", "commit", "send"}
        /\ main' # "exit" \/ UNCHANGED main
    BY <1>7 DEF commitTransactions, OnTxs, OnSide, Pending, SendAdjust
  <2> QED BY Zenon, <2>1, <2>2, <2>3, <2>4 DEF HeadInv, HeadOf, Announced
<1>8. CASE Commit
  <2>1. /\ chainSame /\ lifeSame /\ taskSame /\ UNCHANGED <<newWork, noempty, current>>
        /\ main = "commit"
        /\ \/ running /\ main' = "send"
           \/ ~running /\ main' \in {"pool", "select"}
    BY Zenon, <1>8 DEF Commit, chainVars, lifeVars, requestVars, taskVars, resultVars, RequestInv, RequestType
  <2> QED BY Zenon, <2>1 DEF HeadInv, HeadOf, Announced
<1>9. CASE SendTask
  <2>1. /\ chainSame /\ lifeSame /\ UNCHANGED <<newWork, noempty, current, prev>>
        /\ main = "send" /\ main' \in {"pool", "select"}
        /\ \/ taskPc' = "task" /\ \E env \in current : task' = Block(env)
           \/ exitCh /\ UNCHANGED <<taskPc, task>>
    BY Zenon, <1>9 DEF SendTask, chainVars, lifeVars, requestVars, resultVars, RequestInv, RequestType
  <2>2. CASE exitCh /\ UNCHANGED <<taskPc, task>>
    BY Zenon, <2>1, <2>2 DEF HeadInv
  <2>3. ASSUME taskPc' = "task", NEW env \in current, task' = Block(env)
        PROVE  HeadInv'
    <3>1. task' # Genesis /\ ParentOf(task') = env.parent
      BY <2>3, Parenthood DEF ChainInv
    <3>2. HeadOf(current) => env.parent = head
      BY Zenon DEF HeadOf, UncleInv
    <3> QED BY Zenon, <2>1, <2>3, <3>1, <3>2 DEF HeadInv, HeadOf, Announced
  <2> QED BY Zenon, <2>1, <2>2, <2>3
<1>10. CASE ExitMain
  <2>1. /\ chainSame /\ lifeSame /\ taskSame /\ UNCHANGED <<newWork, noempty, current>>
        /\ exitCh
    BY Zenon, <1>10 DEF ExitMain, chainVars, lifeVars, requestVars, taskVars, resultVars
  <2> QED BY Zenon, <2>1 DEF HeadInv
<1>11. CASE taskLoop
  <2>1. chainSame /\ lifeSame /\ workSame /\ UNCHANGED task
    BY Zenon, <1>11
    DEF taskLoop, OnTask, Seal, ExitTask, chainVars, lifeVars, requestVars, mainVars, resultVars
  <2>2. taskPc' # "task" => prev' = task
    <3>1. CASE OnTask
      BY Zenon, <3>1 DEF OnTask
    <3>2. CASE Seal \/ ExitTask
      BY Zenon, <3>2 DEF Seal, ExitTask, HeadInv
    <3> QED BY Zenon, <1>11, <3>1, <3>2 DEF taskLoop
  <2> QED BY Zenon, <2>1, <2>2 DEF HeadInv, HeadOf, Announced
<1>12. CASE OnResult \/ ExitResult
  <2>1. /\ lifeSame /\ workSame /\ taskSame /\ UNCHANGED <<head, chainHeadCh>>
        /\ result # "postHead"
    BY Zenon, <1>12
    DEF OnResult, ExitResult, chainVars, lifeVars, requestVars, mainVars, taskVars
  <2> QED BY Zenon, <2>1 DEF HeadInv, HeadOf, Announced
<1>13. CASE WriteBlock
  <2>1. lifeSame /\ workSame /\ taskSame /\ UNCHANGED chainHeadCh /\ result # "postHead"
    BY Zenon, <1>13 DEF WriteBlock, lifeVars, requestVars, mainVars, taskVars
  <2>2. UNCHANGED head \/ result' = "postHead"
    BY Zenon, <1>13 DEF WriteBlock, WriteBlockWithState
  <2> QED BY Zenon, <2>1, <2>2 DEF HeadInv, HeadOf, Announced
<1>14. ASSUME NEW b, PostHead(b)
       PROVE  chainHeadCh' # << >> \/ exitCh
  <2>1. CASE main = "exit"
    BY Zenon, <2>1 DEF HeadInv
  <2>2. CASE chainHeadCh' = Append(chainHeadCh, NumberU64(b))
    <3>1. Len(Append(chainHeadCh, NumberU64(b))) = Len(chainHeadCh) + 1 /\ Len(chainHeadCh) \in Nat
      BY Sending DEF ChainInv
    <3> QED BY <2>2, <3>1
  <2> QED BY Zenon, <1>14, <2>1, <2>2 DEF PostHead
<1>15. CASE PostChainEvents
  <2>1. lifeSame /\ workSame /\ taskSame /\ UNCHANGED head
    BY Zenon, <1>15 DEF PostChainEvents, lifeVars, requestVars, mainVars, taskVars
  <2>2. \/ PostHead(found)
        \/ UNCHANGED chainHeadCh /\ result # "postHead"
    BY Zenon, <1>15 DEF PostChainEvents
  <2> QED BY Zenon, <1>14, <2>1, <2>2 DEF HeadInv, HeadOf, Announced
<1>16. CASE Import
  <2>1. lifeSame /\ workSame /\ taskSame /\ UNCHANGED result
    BY Zenon, <1>16 DEF Import, lifeVars, requestVars, mainVars, taskVars, resultVars
  <2>2. \/ \E b : PostHead(b)
        \/ UNCHANGED <<chainHeadCh, head>>
    BY Zenon, <1>16 DEF Import, WriteBlockWithState
  <2> QED BY Zenon, <1>14, <2>1, <2>2 DEF HeadInv, HeadOf, Announced
<1>17. CASE Found \/ Aborted
  BY Zenon, <1>1, <1>17
  DEF Found, Aborted, chainVars, lifeVars, requestVars, mainVars, resultVars
<1>18. CASE UNCHANGED vars
  BY Zenon, <1>1, <1>18 DEF vars, chainVars, lifeVars, requestVars, mainVars, taskVars, resultVars
<1> QED
  BY ZenonT(40), <1>2, <1>3, <1>4, <1>5, <1>6, <1>7, <1>8, <1>9, <1>10, <1>11, <1>12, <1>13, <1>15, <1>16,
     <1>17, <1>18 DEF Next, newWorkLoop, mainLoop, resultLoop

(* A running worker that has handled every event has given the engine a    *)
(* block for the current head, unless commitNewWork failed.                *)
THEOREM WorksOnHead == Spec => []MinesOnHead
<1> DEFINE Inv == RequestInv /\ SealInv /\ TaskInv /\ UncleInv /\ HeadInv
<1>1. Init => Inv
  <2> SUFFICES ASSUME Init PROVE Inv
    OBVIOUS
  <2>1. SealInv /\ UncleInv
    BY FS_EmptySet DEF Init, SealInv, OneSeal, UncleInv, UnclesAreValid
  <2>2. HeadInv
    BY Zenon DEF Init, HeadInv
  <2> QED BY <2>1, <2>2, RequestInit, TaskInit
<1>2. Inv /\ [Next]_vars => Inv'
  BY Zenon, RequestStep, SealStep, ChainStep, PendingStep, UncleStep, HeadStep DEF TaskInv
<1>3. Inv => MinesOnHead
  <2>1. startCh = 0 => startCh # 1
    OBVIOUS
  <2> QED BY Zenon, <2>1 DEF HeadInv, Announced, MinesOnHead
<1> QED BY <1>1, <1>2, <1>3, PTL DEF Spec

-----------------------------------------------------------------------------
(* Unconfirmed blocks.                                                     *)

(* A set of numbers that is not empty has a least element.                 *)
LEMMA Least ==
    ASSUME NEW N, N \subseteq Nat, N # {}
    PROVE  \E i \in N : \A j \in N : i <= j
<1>1. PICK i \in N : \A j \in N : ~ (<<j, i>> \in OpToRel(<, Nat))
  BY Zenon, NatLessThanWellFounded, WFMin
<1>2. \A j \in N : ~ (j < i)
  BY Zenon, <1>1 DEF OpToRel
<1> QED BY <1>2

Injective(s) == \A i, j \in DOMAIN s : s[i] = s[j] => i = j

(* Shift keeps the order of what it leaves, and drops only what is deep    *)
(* enough.                                                                 *)
LEMMA Shifting ==
    ASSUME NEW s, IsSeq(s), \A x \in Elems(s) : IsSeq(x), NEW height \in Nat
    PROVE  /\ IsSeq(Shift(s, height))
           /\ Elems(Shift(s, height)) \subseteq Elems(s)
           /\ Injective(s) => Injective(Shift(s, height))
           /\ \A x \in Elems(s) : \/ x \in Elems(Shift(s, height))
                                  \/ height >= NumberU64(x) + miningLogAtDepth
<1> PICK S : s \in Seq(S)
  BY DEF IsSeq
<1> DEFINE fresh == {i \in DOMAIN s : NumberU64(s[i]) + miningLogAtDepth > height}
           first == CHOOSE i \in fresh : \A j \in fresh : i <= j
<1>1. \A x \in Elems(s) : NumberU64(x) + miningLogAtDepth \in Nat
  BY LoopAssumption DEF IsSeq, NumberU64
<1>2. \A i \in DOMAIN s : i \notin fresh => height >= NumberU64(s[i]) + miningLogAtDepth
  BY <1>1 DEF Elems
<1>3. Shift(s, height) = IF fresh = {} THEN << >> ELSE SubSeq(s, first, Len(s))
  BY DEF Shift
<1>4. fresh \subseteq 1..Len(s) /\ DOMAIN s = 1..Len(s) /\ Len(s) \in Nat
  OBVIOUS
<1> HIDE DEF fresh
<1>5. CASE fresh = {}
  BY Zenon, <1>2, <1>3, <1>5, EmptySeq DEF Elems, Injective
<1>6. CASE fresh # {}
  <2>1. first \in fresh /\ \A j \in fresh : first <= j
    <3>1. fresh \subseteq Nat
      BY <1>4
    <3>2. \E i \in fresh : \A j \in fresh : i <= j
      BY Zenon, <1>6, <3>1, Least
    <3> QED BY Zenon, <3>2
  <2> HIDE DEF first
  <2>2. first \in 1..Len(s)
    BY Zenon, <1>4, <2>1
  <2> DEFINE t == SubSeq(s, first, Len(s))
  <2>3. /\ t \in Seq(S) /\ DOMAIN t = 1..(Len(s) - first + 1)
        /\ \A i \in 1..(Len(s) - first + 1) : t[i] = s[first + i - 1]
    BY <2>2
  <2> HIDE DEF t
  <2>4. Elems(t) \subseteq Elems(s)
    <3> SUFFICES ASSUME NEW i \in DOMAIN t PROVE t[i] \in Elems(s)
      BY Zenon DEF Elems
    <3>1. t[i] = s[first + i - 1]
      BY Zenon, <2>3
    <3>2. first + i - 1 \in DOMAIN s
      <4>1. i \in 1..(Len(s) - first + 1)
        BY Zenon, <2>3
      <4> QED BY <1>4, <2>2, <4>1
    <3> QED BY Zenon, <3>1, <3>2 DEF Elems
  <2>5. ASSUME Injective(s) PROVE Injective(t)
    <3> SUFFICES ASSUME NEW i \in DOMAIN t, NEW j \in DOMAIN t, t[i] = t[j] PROVE i = j
      BY Zenon DEF Injective
    <3>1. i \in 1..(Len(s) - first + 1) /\ j \in 1..(Len(s) - first + 1)
      BY Zenon, <2>3
    <3>2. first + i - 1 \in 1..Len(s) /\ first + j - 1 \in 1..Len(s)
      BY <1>4, <2>2, <3>1
    <3>3. s[first + i - 1] = s[first + j - 1]
      BY Zenon, <2>3, <3>1
    <3>4. first + i - 1 = first + j - 1
      BY Zenon, <1>4, <2>5, <3>2, <3>3 DEF Injective
    <3> QED BY <1>4, <2>2, <3>1, <3>4
  <2>6. ASSUME NEW i \in DOMAIN s
        PROVE  s[i] \in Elems(t) \/ height >= NumberU64(s[i]) + miningLogAtDepth
    <3>1. CASE i < first
      BY <1>2, <1>4, <2>1, <2>2, <3>1
    <3>2. CASE i >= first
      <4>1. i - first + 1 \in DOMAIN t /\ t[i - first + 1] = s[i]
        <5>1. i - first + 1 \in 1..(Len(s) - first + 1) /\ first + (i - first + 1) - 1 = i
          BY <1>4, <2>2, <3>2
        <5> QED BY Zenon, <2>3, <5>1
      <4> QED BY <4>1 DEF Elems
    <3> QED BY <1>4, <2>2, <3>1, <3>2
  <2>7. Shift(s, height) = t
    BY Zenon, <1>3, <1>6 DEF t
  <2> QED BY <2>3, <2>4, <2>5, <2>6, <2>7 DEF IsSeq, Elems
<1> QED BY <1>5, <1>6

(* So does Insert, which adds the new block at the end.                    *)
LEMMA Inserting ==
    ASSUME NEW s, IsSeq(s), \A x \in Elems(s) : IsSeq(x), NEW b, IsSeq(b), b \notin Elems(s), Injective(s)
    PROVE  /\ IsSeq(Insert(s, b))
           /\ Elems(Insert(s, b)) \subseteq Elems(s) \cup {b}
           /\ Injective(Insert(s, b))
           /\ \A x \in Elems(s) : \/ x \in Elems(Insert(s, b))
                                  \/ NumberU64(b) >= NumberU64(x) + miningLogAtDepth
<1> DEFINE t == Shift(s, NumberU64(b))
<1>1. NumberU64(b) \in Nat
  BY DEF IsSeq, NumberU64
<1>2. /\ IsSeq(t) /\ Elems(t) \subseteq Elems(s) /\ Injective(t)
      /\ \A x \in Elems(s) : x \in Elems(t) \/ NumberU64(b) >= NumberU64(x) + miningLogAtDepth
  BY Zenon, <1>1, Shifting
<1>3. Insert(s, b) = Append(t, b)
  BY DEF Insert
<1> HIDE DEF t
<1>4. IsSeq(Append(t, b)) /\ Elems(Append(t, b)) \subseteq Elems(t) \cup {b}
  BY Zenon, <1>2, Sending
<1> PICK S : t \in Seq(S)
  BY <1>2 DEF IsSeq
<1>5. /\ DOMAIN t = 1..Len(t) /\ Len(t) \in Nat /\ DOMAIN Append(t, b) = 1..(Len(t) + 1)
      /\ \A i \in 1..Len(t) : Append(t, b)[i] = t[i]
      /\ Append(t, b)[Len(t) + 1] = b
  <2>1. t \in Seq(S \cup {b}) /\ b \in S \cup {b}
    OBVIOUS
  <2> QED BY <2>1
<1>6. \A i \in DOMAIN Append(t, b) : i \in DOMAIN t \/ i = Len(t) + 1
  BY <1>5
<1>7. \A i \in DOMAIN t : i \in DOMAIN Append(t, b) /\ Append(t, b)[i] = t[i] /\ t[i] # b
  <2>1. \A i \in DOMAIN t : t[i] # b
    BY Zenon, <1>2 DEF Elems
  <2>2. \A i \in 1..Len(t) : i \in 1..(Len(t) + 1)
    BY <1>5
  <2> QED BY Zenon, <1>5, <2>1, <2>2
<1>8. Injective(Append(t, b))
  BY Zenon, <1>2, <1>5, <1>6, <1>7 DEF Injective
<1>9. Elems(t) \subseteq Elems(Append(t, b))
  BY Zenon, <1>7 DEF Elems
<1> QED BY Zenon, <1>2, <1>3, <1>4, <1>8, <1>9

(* What is watched is on the chain; what is about to be is not yet watched.*)
UnconfirmedInv ==
    /\ IsSeq(unconfirmed) /\ Elems(unconfirmed) \subseteq blocks
    /\ Injective(unconfirmed)
    /\ result \in {"write", "postHead", "postSide"} => found \notin Elems(unconfirmed)
    /\ result \in {"postHead", "postSide"} => found \in blocks

(* What is watched is watched on, or the chain is high enough above it.    *)
StillWatched ==
    \A x \in Elems(unconfirmed) :
        \/ x \in Elems(unconfirmed')
        \/ \E b \in blocks' : NumberU64(b) >= NumberU64(x) + miningLogAtDepth

(* Blocks are inserted by resultLoop alone, but dropped by mainLoop, too.  *)
LEMMA UnconfirmedStep ==
    ChainInv /\ PendingInv /\ UnconfirmedInv /\ [Next]_vars => UnconfirmedInv' /\ StillWatched
<1> SUFFICES ASSUME ChainInv, PendingInv, UnconfirmedInv, [Next]_vars
             PROVE  UnconfirmedInv' /\ StillWatched
  OBVIOUS
<1>1. blocks \subseteq blocks'
  BY ChainStep DEF TaskInv
<1>2. CASE UNCHANGED <<unconfirmed, result, found>>
  BY Zenon, <1>1, <1>2 DEF UnconfirmedInv, StillWatched
<1>3. \A x \in Elems(unconfirmed) : IsSeq(x)
  BY Zenon DEF UnconfirmedInv, ChainInv
<1>4. CASE SendTask
  <2>1. CASE UNCHANGED unconfirmed
    BY Zenon, <1>2, <1>4, <2>1 DEF SendTask, resultVars
  <2>2. ASSUME NEW env \in current, unconfirmed' = Shift(unconfirmed, NumberU64(Block(env)) - 1)
        PROVE  UnconfirmedInv' /\ StillWatched
    <3>1. env.parent \in blocks /\ IsSeq(env.parent)
      BY Zenon DEF ChainInv
    <3>2. NumberU64(Block(env)) - 1 = NumberU64(env.parent) /\ NumberU64(env.parent) \in Nat
      BY <3>1, Sending DEF Block, NumberU64
    <3>3. /\ IsSeq(unconfirmed') /\ Elems(unconfirmed') \subseteq Elems(unconfirmed)
          /\ Injective(unconfirmed')
          /\ \A x \in Elems(unconfirmed) :
                x \in Elems(unconfirmed') \/ NumberU64(env.parent) >= NumberU64(x) + miningLogAtDepth
      BY Zenon, <1>3, <2>2, <3>2, Shifting DEF UnconfirmedInv
    <3>4. UNCHANGED <<result, found>>
      BY Zenon, <1>4 DEF SendTask, resultVars
    <3> QED BY Zenon, <1>1, <3>1, <3>3, <3>4 DEF UnconfirmedInv, StillWatched
  <2> QED BY Zenon, <1>4, <2>1, <2>2 DEF SendTask, ShiftUnconfirmed
<1>5. CASE OnResult
  <2>1. UNCHANGED unconfirmed
    BY Zenon, <1>5 DEF OnResult
  <2>2. \/ UNCHANGED <<result, found>>
        \/ result' = "write" /\ found' \notin blocks
    BY Zenon, <1>5 DEF OnResult, HasBlock
  <2> QED BY Zenon, <1>1, <1>2, <2>1, <2>2 DEF UnconfirmedInv, StillWatched
<1>6. CASE WriteBlock
  <2>1. UNCHANGED <<unconfirmed, found>> /\ result = "write"
    BY Zenon, <1>6 DEF WriteBlock
  <2>2. result' = "select" \/ found \in blocks'
    BY Zenon, <1>6 DEF WriteBlock, WriteBlockWithState
  <2> QED BY Zenon, <1>1, <2>1, <2>2 DEF UnconfirmedInv, StillWatched
<1>7. CASE PostChainEvents
  <2>1. /\ result \in {"postHead", "postSide"} /\ result' = "select"
        /\ unconfirmed' = Insert(unconfirmed, found)
    BY Zenon, <1>7 DEF PostChainEvents
  <2>2. found \in blocks /\ found \notin Elems(unconfirmed) /\ IsSeq(found)
    BY Zenon, <2>1 DEF UnconfirmedInv, ChainInv
  <2>3. /\ IsSeq(unconfirmed') /\ Elems(unconfirmed') \subseteq Elems(unconfirmed) \cup {found}
        /\ Injective(unconfirmed')
        /\ \A x \in Elems(unconfirmed) :
              x \in Elems(unconfirmed') \/ NumberU64(found) >= NumberU64(x) + miningLogAtDepth
    BY Zenon, <1>3, <2>1, <2>2, Inserting DEF UnconfirmedInv
  <2> QED BY Zenon, <1>1, <2>1, <2>2, <2>3 DEF UnconfirmedInv, StillWatched
<1>8. CASE ExitResult
  BY Zenon, <1>1, <1>8 DEF ExitResult, UnconfirmedInv, StillWatched
<1>9. CASE start \/ SendStart \/ stop \/ close \/ newWorkLoop
  BY ZenonT(40), <1>2, <1>9 DEF start, SendStart, stop, close, newWorkLoop, OnStart, OnHead, OnTimer,
     OnAdjust, SendRequest, Reset, ExitNewWork, resultVars
<1>10. CASE Begin \/ Pending \/ commitTransactions \/ SendAdjust \/ Commit \/ OnSide \/ OnTxs \/ ExitMain
  BY ZenonT(40), <1>2, <1>10
  DEF Begin, Pending, commitTransactions, SendAdjust, Commit, OnSide, OnTxs, ExitMain, resultVars
<1>11. CASE taskLoop \/ Found \/ Aborted \/ Import
  BY Zenon, <1>2, <1>11 DEF taskLoop, OnTask, Seal, ExitTask, Found, Aborted, Import, resultVars
<1>12. CASE UNCHANGED vars
  BY Zenon, <1>2, <1>12 DEF vars, resultVars
<1> QED
  BY Zenon, <1>4, <1>5, <1>6, <1>7, <1>8, <1>9, <1>10, <1>11, <1>12 DEF Next, mainLoop, resultLoop

(* The invariant of the last two theorems, inductive with what it rests on.*)
MinedInv == SealInv /\ TaskInv /\ UnconfirmedInv

(* It holds of a new worker, and every step keeps it.                      *)
LEMMA MinedInductive ==
    /\ Init => MinedInv
    /\ MinedInv /\ [Next]_vars => MinedInv' /\ StillWatched
<1>1. ASSUME Init PROVE MinedInv
  BY <1>1, EmptySeq, TaskInit
  DEF Init, SealInv, OneSeal, UnconfirmedInv, Injective, MinedInv
<1>2. ASSUME MinedInv, [Next]_vars PROVE MinedInv' /\ StillWatched
  BY Zenon, <1>2, SealStep, ChainStep, PendingStep, UnconfirmedStep DEF TaskInv, MinedInv
<1> QED BY Zenon, <1>1, <1>2

(* No block is watched twice, however often it is sealed.                  *)
THEOREM WatchesOnce == Spec => []MinedOnce
<1>1. MinedInv => MinedOnce
  BY Zenon DEF MinedInv, UnconfirmedInv, Injective, MinedOnce
<1> QED BY <1>1, MinedInductive, PTL DEF Spec

(* No block is forgotten before the chain is miningLogAtDepth higher.      *)
THEOREM WatchesOn == Spec => WatchedLongEnough
<1>1. StillWatched =>
        \A i \in DOMAIN unconfirmed :
          \/ \E j \in DOMAIN unconfirmed' : unconfirmed'[j] = unconfirmed[i]
          \/ \E x \in blocks' : NumberU64(x) >= NumberU64(unconfirmed[i]) + miningLogAtDepth
  BY Zenon DEF StillWatched, Elems
<1> QED BY <1>1, MinedInductive, PTL DEF Spec, WatchedLongEnough

-----------------------------------------------------------------------------
(* The gas pool keeps its gas for every number of threads, and its loop of *)
(* load and compare-and-swap is an atomic pool.                            *)

PoolLabels == {"idle", "load", "cas", "refused", "execute", "check", "add"}

(* No label is a panic.  What a thread compared with the pool covers its   *)
(* amount, and it gives back no more than it took.                         *)
PoolTypeOK ==
    /\ gp \in Nat
    /\ pc \in [Threads -> PoolLabels]
    /\ amount \in [Threads -> Nat]
    /\ gaspool \in [Threads -> Nat]
    /\ rest \in [Threads -> Nat]
    /\ spent \in Nat
    /\ \A t \in Threads :
         /\ pc[t] = "cas" => amount[t] <= gaspool[t]
         /\ pc[t] \in {"check", "add"} => rest[t] <= amount[t]

held == [t \in Threads |-> Held(t)]

(* The inductive invariant: types, and the sum that the pool is part of.   *)
PoolInv == PoolTypeOK /\ gp + SumFunction(held) + spent = GasLimit

(* What threads hold is a natural number of units of gas each.             *)
LEMMA HeldType ==
    ASSUME PoolTypeOK
    PROVE  /\ DOMAIN held = Threads /\ IsFiniteSet(Threads)
           /\ \A t \in Threads : held[t] = Held(t) /\ held[t] \in Nat
           /\ SumFunction(held) \in Nat
           /\ \A t \in Threads : Held(t) <= SumFunction(held)
<1>1. DOMAIN held = Threads /\ IsFiniteSet(Threads)
  BY GasPoolAssumption DEF held
<1>2. \A t \in Threads : held[t] = Held(t) /\ held[t] \in Nat
  BY DEF held, Held, PoolTypeOK
<1>3. \A t \in DOMAIN held : held[t] \in Nat
  BY Zenon, <1>1, <1>2
<1> HIDE DEF held
<1>4. /\ SumFunction(held) \in Nat
      /\ \A t \in DOMAIN held : held[t] <= SumFunction(held)
  BY <1>1, <1>3, SumFunctionNat
<1>5. QED
  BY <1>1, <1>2, <1>4

(* A thread that takes or gives back gas changes the sum by as much.       *)
LEMMA HeldUpdate ==
    ASSUME PoolTypeOK, PoolTypeOK', NEW t \in Threads,
           \A u \in Threads \ {t} : Held(u)' = Held(u)
    PROVE  SumFunction(held') = SumFunction(held) + (Held(t)' - Held(t))
<1>1. /\ DOMAIN held = Threads /\ IsFiniteSet(Threads)
      /\ \A u \in Threads : held[u] = Held(u) /\ held[u] \in Nat
  BY HeldType
<1>2. DOMAIN (held') = Threads
  BY DEF held
<1>3. \A u \in Threads : held'[u] = Held(u)'
  BY DEF held
<1>4. \A u \in Threads : Held(u)' \in Nat
  BY Zenon DEF Held, PoolTypeOK
<1>5. \A u \in DOMAIN held : held[u] \in Int /\ held'[u] \in Int
  BY <1>1, <1>3, <1>4
<1>6. \A u \in DOMAIN held \ {t} : held'[u] = held[u]
  BY Zenon, <1>1, <1>3
<1>7. t \in DOMAIN held /\ IsFiniteSet(DOMAIN held) /\ DOMAIN (held') = DOMAIN held
  BY Zenon, <1>1, <1>2
<1>8. held'[t] = Held(t)' /\ held[t] = Held(t)
  BY Zenon, <1>1, <1>3
<1> HIDE DEF held
<1>9. SumFunction(held') = SumFunction(held) + (held'[t] - held[t])
  BY Zenon, <1>5, <1>6, <1>7, SumFunctionUpdate
<1>10. QED
  BY <1>8, <1>9

(* The pool holds what no thread holds and nobody spent, so that giving    *)
(* back what a thread holds cannot exceed 64 bits.                         *)
LEMMA RoomToGiveBack ==
    ASSUME PoolInv, NEW t \in Threads, pc[t] \in {"check", "add"}
    PROVE  /\ gp \in 0..MaxUint64
           /\ ~(gp > MaxUint64 - rest[t])
           /\ (gp + rest[t]) % (MaxUint64 + 1) = gp + rest[t]
<1>1. Held(t) = amount[t]
  BY Zenon DEF Held
<1>2. SumFunction(held) \in Nat /\ Held(t) <= SumFunction(held)
  BY HeldType DEF PoolInv
<1>3. /\ gp \in Nat /\ amount[t] \in Nat /\ rest[t] \in Nat /\ spent \in Nat
      /\ rest[t] <= amount[t]
      /\ gp + SumFunction(held) + spent = GasLimit
  BY DEF PoolInv, PoolTypeOK
<1>4. GasLimit \in Nat /\ MaxUint64 \in Nat /\ GasLimit <= MaxUint64
  BY GasPoolAssumption
<1>5. gp + rest[t] \in 0..MaxUint64
  BY <1>1, <1>2, <1>3, <1>4
<1>6. QED
  BY <1>3, <1>4, <1>5

-----------------------------------------------------------------------------
(* The invariant holds initially: nothing is held.                         *)
LEMMA PoolInit == GasInit => PoolInv
<1> SUFFICES ASSUME GasInit PROVE PoolInv
  OBVIOUS
<1>1. PoolTypeOK
  <2>1. GasLimit \in Nat
    BY GasPoolAssumption
  <2>2. QED
    BY <2>1 DEF GasInit, PoolTypeOK, PoolLabels
<1>2. \A t \in DOMAIN held : held[t] = 0
  BY DEF held, Held, GasInit
<1>3. IsFiniteSet(DOMAIN held)
  BY <1>1, HeldType
<1> HIDE DEF held
<1>4. SumFunction(held) = 0
  BY <1>2, <1>3, SumFunctionZero
<1>5. gp = GasLimit /\ spent = 0 /\ GasLimit \in Nat
  BY GasPoolAssumption DEF GasInit
<1>6. gp + SumFunction(held) + spent = GasLimit
  BY <1>4, <1>5
<1>7. QED
  BY <1>1, <1>6 DEF PoolInv

(* Types: one step of a thread.                                            *)
LEMMA PoolTypeStep ==
    ASSUME PoolInv, NEW t \in Threads, Step(t)
    PROVE  PoolTypeOK'
<1> USE DEF PoolInv, PoolTypeOK, Goto
<1>1. CASE CallSubGas(t)
  <2>1. Amounts \subseteq Nat
    BY GasPoolAssumption
  <2>2. QED
    BY Zenon, <1>1, <2>1 DEF CallSubGas, PoolLabels
<1>2. CASE SubGasLoad(t)
  BY <1>2 DEF SubGasLoad, PoolLabels
<1>3. CASE SubGasCas(t)
  BY <1>3 DEF SubGasCas, PoolLabels
<1>4. CASE Refused(t)
  BY Zenon, <1>4 DEF Refused, PoolLabels
<1>5. CASE Execute(t)
  BY <1>5 DEF Execute, PoolLabels
<1>6. CASE AddGasCheck(t)
  <2>1. ~(gp > MaxUint64 - rest[t])
    BY Zenon, <1>6, RoomToGiveBack DEF AddGasCheck
  <2>2. QED
    BY Zenon, <1>6, <2>1 DEF AddGasCheck, PoolLabels
<1>7. CASE AddGasAdd(t)
  <2>1. (gp + rest[t]) % (MaxUint64 + 1) = gp + rest[t]
    BY Zenon, <1>7, RoomToGiveBack DEF AddGasAdd
  <2>2. QED
    BY <1>7, <2>1 DEF AddGasAdd, PoolLabels
<1>8. QED
  BY Zenon, <1>1, <1>2, <1>3, <1>4, <1>5, <1>6, <1>7 DEF Step, SubGas, AddGas

(* A step of one thread leaves alone what the others hold.                 *)
LEMMA OthersHold ==
    ASSUME PoolTypeOK, NEW t \in Threads, Step(t), NEW u \in Threads \ {t}
    PROVE  Held(u)' = Held(u)
<1>1. pc'[u] = pc[u] /\ amount'[u] = amount[u]
  BY Zenon DEF Step, SubGas, AddGas, CallSubGas, SubGasLoad, SubGasCas, Refused, Execute,
         AddGasCheck, AddGasAdd, Goto, PoolTypeOK
<1>2. QED
  BY Zenon, <1>1 DEF Held

(* Every step keeps the sum: what leaves the pool is held, what is no      *)
(* longer held is back in the pool or spent.                               *)
LEMMA PoolSumStep ==
    ASSUME PoolInv, NEW t \in Threads, Step(t)
    PROVE  gp' + Held(t)' + spent' = gp + Held(t) + spent
<1> USE DEF PoolInv, PoolTypeOK, Goto, Held
<1>1. CASE CallSubGas(t)
  BY <1>1 DEF CallSubGas
<1>2. CASE SubGasLoad(t)
  BY <1>2 DEF SubGasLoad
<1>3. CASE SubGasCas(t)
  BY <1>3 DEF SubGasCas
<1>4. CASE Refused(t)
  BY <1>4 DEF Refused
<1>5. CASE Execute(t)
  BY <1>5 DEF Execute
<1>6. CASE AddGasCheck(t)
  <2>1. ~(gp > MaxUint64 - rest[t])
    BY <1>6, RoomToGiveBack DEF AddGasCheck
  <2>2. QED
    BY Zenon, <1>6, <2>1 DEF AddGasCheck
<1>7. CASE AddGasAdd(t)
  <2>1. (gp + rest[t]) % (MaxUint64 + 1) = gp + rest[t]
    BY <1>7, RoomToGiveBack DEF AddGasAdd
  <2>2. QED
    BY <1>7, <2>1 DEF AddGasAdd
<1>8. QED
  BY Zenon, <1>1, <1>2, <1>3, <1>4, <1>5, <1>6, <1>7 DEF Step, SubGas, AddGas

(* The invariant is inductive.                                             *)
LEMMA PoolStep == PoolInv /\ [GasNext]_gasVars => PoolInv'
<1> SUFFICES ASSUME PoolInv, [GasNext]_gasVars PROVE PoolInv'
  OBVIOUS
<1>1. ASSUME NEW t \in Threads, Step(t) PROVE PoolInv'
  <2>1. PoolTypeOK /\ PoolTypeOK'
    BY <1>1, PoolTypeStep DEF PoolInv
  <2>2. SumFunction(held') = SumFunction(held) + (Held(t)' - Held(t))
    BY <1>1, <2>1, OthersHold, HeldUpdate
  <2>3. gp' + Held(t)' + spent' = gp + Held(t) + spent
    BY Zenon, <1>1, PoolSumStep
  <2>4. /\ gp \in Nat /\ gp' \in Nat /\ spent \in Nat /\ spent' \in Nat
        /\ SumFunction(held) \in Nat
        /\ Held(t) \in Nat /\ Held(t)' \in Nat
    BY Zenon, <2>1, HeldType DEF PoolTypeOK, Held
  <2>5. gp + SumFunction(held) + spent = GasLimit
    BY DEF PoolInv
  <2>6. gp' + SumFunction(held') + spent' = GasLimit
    BY <2>2, <2>3, <2>4, <2>5
  <2>7. QED
    BY <2>1, <2>6 DEF PoolInv
<1>2. CASE UNCHANGED gasVars
  <2>1. PoolTypeOK'
    BY Zenon, <1>2 DEF gasVars, PoolInv, PoolTypeOK
  <2>2. held' = held
    BY Zenon, <1>2 DEF gasVars, held, Held
  <2>3. QED
    BY Zenon, <1>2, <2>1, <2>2 DEF gasVars, PoolInv
<1>3. QED
  BY <1>1, <1>2 DEF GasNext

(* Racing SubGas and AddGas neither lose nor make gas, and the overflow    *)
(* that AddGas panics on is never met.                                     *)
THEOREM Conserved == GasSpec => []GasConserved
<1>1. PoolInv => GasConserved
  BY DEF PoolInv, PoolTypeOK, GasConserved, held, PoolLabels
<1>2. QED
  BY <1>1, PoolInit, PoolStep, PTL DEF GasSpec

-----------------------------------------------------------------------------
(* What the mapping makes of the label of a thread.                        *)
StatusOf(l) ==
    CASE l = "idle" -> "idle"
      [] l \in {"load", "cas"} -> "asked"
      [] l = "refused" -> "refused"
      [] OTHER -> "holds"
status == [t \in Threads |-> StatusOf(pc[t])]

(* A step that moves one thread from l to m moves its status along.        *)
LEMMA StatusStep ==
    ASSUME PoolTypeOK, NEW t \in Threads, NEW m, pc' = [pc EXCEPT ![t] = m]
    PROVE  status' = [status EXCEPT ![t] = StatusOf(m)]
<1>1. \A u \in Threads : pc'[u] = IF u = t THEN m ELSE pc[u]
  BY DEF PoolTypeOK
<1>2. status' = [u \in Threads |-> StatusOf(pc'[u])]
  BY DEF status, StatusOf
<1>3. \A u \in Threads : StatusOf(pc'[u]) = IF u = t THEN StatusOf(m) ELSE StatusOf(pc[u])
  BY Zenon, <1>1 DEF StatusOf
<1>4. QED
  BY Zenon, <1>2, <1>3 DEF status

(* A turn of the atomic pool, and a step it does not see.                  *)
LEMMA Turns ==
    ASSUME PoolTypeOK, NEW t \in Threads, NEW l, NEW m, pc[t] = l,
           pc' = [pc EXCEPT ![t] = m]
    PROVE  /\ Atomic!Turn(t, StatusOf(l), StatusOf(m))
           /\ StatusOf(l) = StatusOf(m) => status' = status
<1>1. status' = [status EXCEPT ![t] = StatusOf(m)]
  BY Zenon, StatusStep
<1>2. status[t] = StatusOf(l)
  BY Zenon DEF status
<1>3. Atomic!Turn(t, StatusOf(l), StatusOf(m))
  BY <1>1, <1>2, Zenon DEF Atomic!Turn, status, StatusOf
<1>4. QED
  BY <1>1, <1>2, <1>3 DEF status

(* Every step of a thread is a step of the atomic pool or none.            *)
LEMMA AtomicStep ==
    ASSUME PoolInv, NEW t \in Threads, Step(t)
    PROVE  \/ \/ Atomic!Ask(t) \/ Atomic!Take(t) \/ Atomic!Refuse(t)
              \/ Atomic!Drop(t) \/ Atomic!GiveBack(t)
           \/ UNCHANGED <<gp, amount, status>>
<1>0. PoolTypeOK
  BY DEF PoolInv
<1> USE DEF Goto
<1>1. CASE CallSubGas(t)
  <2>1. Atomic!Turn(t, "idle", "asked")
    BY Zenon, <1>0, <1>1, Turns DEF CallSubGas, StatusOf
  <2>2. QED
    BY Zenon, <1>1, <2>1 DEF CallSubGas, Atomic!Ask
<1>2. CASE SubGasLoad(t)
  <2>1. CASE gp < amount[t]
    <3>1. Atomic!Turn(t, "asked", "refused")
      BY Zenon, <1>0, <1>2, <2>1, Turns DEF SubGasLoad, StatusOf
    <3>2. amount[t] > gp
      BY <2>1
    <3>3. QED
      BY <1>2, <3>1, <3>2 DEF SubGasLoad, Atomic!Refuse
  <2>2. CASE ~(gp < amount[t])
    <3>1. StatusOf("load") = StatusOf("cas")
      BY DEF StatusOf
    <3>2. pc[t] = "load" /\ pc' = [pc EXCEPT ![t] = "cas"]
      BY <1>2, <2>2 DEF SubGasLoad
    <3>3. status' = status
      BY Zenon, <1>0, <3>1, <3>2, Turns
    <3>4. QED
      BY <1>2, <3>3 DEF SubGasLoad
  <2>3. QED
    BY <2>1, <2>2
<1>3. CASE SubGasCas(t)
  <2>1. CASE gp = gaspool[t]
    <3>1. Atomic!Turn(t, "asked", "holds")
      BY Zenon, <1>0, <1>3, <2>1, Turns DEF SubGasCas, StatusOf
    <3>2. amount[t] <= gp
      BY Zenon, <1>0, <1>3, <2>1 DEF SubGasCas, PoolTypeOK
    <3>3. QED
      BY Zenon, <1>3, <2>1, <3>1, <3>2 DEF SubGasCas, Atomic!Take
  <2>2. CASE gp # gaspool[t]
    <3>1. StatusOf("cas") = StatusOf("load")
      BY Zenon DEF StatusOf
    <3>2. pc[t] = "cas" /\ pc' = [pc EXCEPT ![t] = "load"]
      BY <1>3, <2>2 DEF SubGasCas
    <3>3. status' = status
      BY Zenon, <1>0, <3>1, <3>2, Turns
    <3>4. QED
      BY Zenon, <1>3, <2>2, <3>3 DEF SubGasCas
  <2>3. QED
    BY Zenon, <2>1, <2>2
<1>4. CASE Refused(t)
  <2>1. Atomic!Turn(t, "refused", "idle")
    BY Zenon, <1>0, <1>4, Turns DEF Refused, StatusOf
  <2>2. QED
    BY <1>4, <2>1 DEF Refused, Atomic!Drop
<1>5. CASE Execute(t)
  <2>1. CASE pc' = [pc EXCEPT ![t] = "idle"]
    <3>1. Atomic!Turn(t, "holds", "idle")
      BY Zenon, <1>0, <1>5, <2>1, Turns DEF Execute, StatusOf
    <3>2. gp' = gp + 0 /\ 0 \in 0..amount[t] /\ UNCHANGED amount
      BY <1>0, <1>5 DEF Execute, PoolTypeOK
    <3>3. QED
      BY <3>1, <3>2 DEF Atomic!GiveBack
  <2>2. CASE pc' = [pc EXCEPT ![t] = "check"]
    <3>1. StatusOf("execute") = StatusOf("check")
      BY DEF StatusOf
    <3>2. pc[t] = "execute" /\ pc' = [pc EXCEPT ![t] = "check"]
      BY <1>5, <2>2 DEF Execute
    <3>3. status' = status
      BY Zenon, <1>0, <3>1, <3>2, Turns
    <3>4. QED
      BY <1>5, <3>3 DEF Execute
  <2>3. QED
    BY <1>5, <2>1, <2>2 DEF Execute
<1>6. CASE AddGasCheck(t)
  <2>1. ~(gp > MaxUint64 - rest[t])
    BY Zenon, <1>6, RoomToGiveBack DEF AddGasCheck
  <2>2. QED
    <3>1. StatusOf("check") = StatusOf("add")
      BY DEF StatusOf
    <3>2. pc[t] = "check" /\ pc' = [pc EXCEPT ![t] = "add"]
      BY Zenon, <1>6, <2>1 DEF AddGasCheck
    <3>3. status' = status
      BY Zenon, <1>0, <3>1, <3>2, Turns
    <3>4. QED
      BY <1>6, <3>3 DEF AddGasCheck
<1>7. CASE AddGasAdd(t)
  <2>1. (gp + rest[t]) % (MaxUint64 + 1) = gp + rest[t]
    BY Zenon, <1>7, RoomToGiveBack DEF AddGasAdd
  <2>2. Atomic!Turn(t, "holds", "idle")
    BY Zenon, <1>0, <1>7, Turns DEF AddGasAdd, StatusOf
  <2>3. rest[t] \in 0..amount[t]
    BY <1>0, <1>7 DEF AddGasAdd, PoolTypeOK
  <2>4. QED
    BY Zenon, <1>7, <2>1, <2>2, <2>3 DEF AddGasAdd, Atomic!GiveBack
<1>8. QED
  BY Zenon, <1>1, <1>2, <1>3, <1>4, <1>5, <1>6, <1>7 DEF Step, SubGas, AddGas

(* The load and compare-and-swap of SubGas and the two steps of AddGas     *)
(* implement an atomic pool: a thread is refused only when the pool held   *)
(* too little at that moment, and gas comes back in one step.              *)
THEOREM Atomicity == GasSpec => ActsAtomically
<1>1. GasInit => Atomic!Init
  BY DEF GasInit, Atomic!Init
<1>2. PoolInv /\ [GasNext]_gasVars => [Atomic!Next]_Atomic!avars
  <2> SUFFICES ASSUME PoolInv, [GasNext]_gasVars PROVE [Atomic!Next]_Atomic!avars
    OBVIOUS
  <2>1. ASSUME NEW t \in Threads, Step(t) PROVE [Atomic!Next]_Atomic!avars
    BY <2>1, AtomicStep DEF Atomic!Next, Atomic!avars, status, StatusOf
  <2>2. CASE UNCHANGED gasVars
    BY <2>2 DEF gasVars, Atomic!avars
  <2>3. QED
    BY <2>1, <2>2 DEF GasNext
<1>3. QED
  BY <1>1, <1>2, PoolInit, PoolStep, PTL DEF GasSpec, ActsAtomically, Atomic!Spec

=============================================================================
