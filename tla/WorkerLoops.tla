---------------------------- MODULE WorkerLoops ----------------------------
(***************************************************************************)
(* The four loops of the miner's worker (miner/worker.go): newWorkLoop     *)
(* turns heads, starts and ticks into requests, mainLoop builds a block    *)
(* for a request and takes up uncles, taskLoop hands tasks to the engine   *)
(* and resultLoop writes sealed blocks to the chain.  Around them: the     *)
(* chain, which also imports blocks, the engine, and start, stop, close.   *)
(*                                                                         *)
(* A block is the sequence of the headers from genesis, << >>, up to it,   *)
(* and stands for its hash; the header of a block that is not sealed has   *)
(* nonce 0, and stands for the seal hash.  Difficulty is constant, so the  *)
(* number of a block orders total difficulty; timestamps are left out, and *)
(* blocks on one parent differ by their transactions.  A batch of          *)
(* commitTransactions is one step here, with as many messages to           *)
(* resubmitAdjustCh as its threads send (TxnWorker).                       *)
(***************************************************************************)
EXTENDS Naturals, Sequences, FiniteSets

CONSTANTS
    NumThreads,
    resubmitAdjustChanSize, resultQueueSize, chainHeadChanSize, chainSideChanSize,
    staleThreshold,
    generations,      \* ancestors that are looked at for uncles
    miningLogAtDepth,
    Bounds            \* the bounds that an instance may choose

VARIABLES
    blocks, head,                \* the chain: its blocks, CurrentBlock
    chainHeadCh, chainSideCh,
    running, startCh, starting, exitCh,
    newWork,     \* newWorkLoop: where it is
    noempty, interrupt,   \* of the request it makes, and the last one it sent
    requests, timer, newTxs,
    main,        \* mainLoop: where it is; "refill" begins a request with noempty
    after,       \* and where it goes after w.commit
    current,     \* w.current: parent, txs, uncles; a set of at most one
    refused,     \* auxiliary: commitNewWork failed for the last head or start
    todo,        \* batches left of the request
    resubmitAdjustCh, toSend,    \* messages in the channel, and still to send
    backlog,     \* auxiliary: messages in the channel when the request came
    possibleUncles,              \* localUncles and remoteUncles
    taskPc, task, prev, pendingTasks,   \* taskLoop
    seals,       \* the engine: seals under way, with their stopCh
    resultCh,
    result, found,               \* resultLoop
    unconfirmed,
    bound        \* the bounds of this instance; no step changes them

(* Bounds: the number of a block, the requests of newWorkLoop, the blocks  *)
(* imported, the batches of a request, the transactions of a block, the    *)
(* seals of one block, and whether the worker is stopped and closed.       *)
Bound == [height : Nat, requests : Nat, imports : Nat, batches : 0..2, txs : Nat, nonces : Nat,
          stops : BOOLEAN, closes : BOOLEAN]

ASSUME LoopAssumption ==
    /\ NumThreads \in Nat \ {0}
    /\ resubmitAdjustChanSize \in Nat
    /\ staleThreshold \in Nat /\ miningLogAtDepth \in Nat
    /\ Bounds \subseteq Bound

chainVars == <<blocks, head, chainHeadCh, chainSideCh>>
lifeVars == <<running, startCh, starting, exitCh>>
requestVars == <<newWork, noempty, interrupt, requests, timer>>
mainVars == <<main, after, current, refused, todo, toSend, backlog, possibleUncles>>
taskVars == <<taskPc, task, prev, pendingTasks, seals>>
resultVars == <<resultCh, result, found>>
vars == <<chainVars, lifeVars, requestVars, newTxs, mainVars, resubmitAdjustCh, taskVars,
          resultVars, unconfirmed, bound>>

-----------------------------------------------------------------------------
(* Blocks.                                                                 *)

Genesis == << >>
NumberU64(b) == Len(b)
ParentOf(b) == SubSeq(b, 1, Len(b) - 1)
Uncles(b) == IF b = Genesis THEN {} ELSE b[Len(b)].uncles
GetBlocksFromHash(b) ==
    {SubSeq(b, 1, n) : n \in {k \in 0..Len(b) : k + generations > Len(b)}}

(* The block of an environment.                                            *)
Block(env) ==
    Append(env.parent, [author |-> "local", txs |-> env.txs, uncles |-> env.uncles, nonce |-> 0])

Sealed(b, n) == [b EXCEPT ![Len(b)].nonce = n]
SealHash(b) == Sealed(b, 0)

Family(env) ==
    LET ancestors == GetBlocksFromHash(env.parent)
    IN  ancestors \cup UNION {Uncles(a) : a \in ancestors}

(* Mutant: a sibling of the block is taken for an uncle.                    *)
SiblingUncle(env, u) ==
    /\ u \notin env.uncles
    /\ ParentOf(u) \in GetBlocksFromHash(env.parent)
    /\ u \notin Family(env)

(* Whether commitUncle takes the uncle.                                    *)
commitUncle(env, u) ==
    /\ u \notin env.uncles
    /\ ParentOf(u) # env.parent
    /\ ParentOf(u) \in GetBlocksFromHash(env.parent)
    /\ u \notin Family(env)

Local(S) == {u \in S : u[Len(u)].author = "local"}

(* What commitUncles makes of the possible uncles S: two of the valid      *)
(* ones, local ones first.                                                 *)
ChosenUncles(env, S) ==
    LET valid == {u \in S : commitUncle(env, u)}
        least(x, y) == IF x < y THEN x ELSE y
    IN  {U \in SUBSET valid :
            /\ Cardinality(U) = least(2, Cardinality(valid))
            /\ Cardinality(Local(U)) = least(2, Cardinality(Local(valid)))}

(* unconfirmedBlocks: Shift drops from the front what is deep enough.      *)
Shift(s, height) ==
    LET fresh == {i \in DOMAIN s : NumberU64(s[i]) + miningLogAtDepth > height}
    IN  IF fresh = {} THEN << >>
        ELSE SubSeq(s, CHOOSE i \in fresh : \A j \in fresh : i <= j, Len(s))

Insert(s, b) == Append(Shift(s, NumberU64(b)), b)

Init ==
    /\ blocks = {Genesis} /\ head = Genesis
    /\ chainHeadCh = << >> /\ chainSideCh = << >>
    /\ running = FALSE /\ startCh = 1 /\ starting = FALSE /\ exitCh = FALSE
    /\ newWork = "select" /\ noempty = FALSE /\ interrupt = "nil"
    /\ requests = 0 /\ timer = FALSE /\ newTxs = FALSE
    /\ main = "select" /\ after = "select" /\ current = {} /\ refused = FALSE
    /\ todo = 0 /\ resubmitAdjustCh = 0 /\ toSend = 0 /\ backlog = 0
    /\ possibleUncles = {}
    /\ taskPc = "select" /\ task = Genesis /\ prev = Genesis /\ pendingTasks = {}
    /\ seals = {} /\ resultCh = << >>
    /\ result = "select" /\ found = Genesis
    /\ unconfirmed = << >>
    /\ bound \in Bounds

-----------------------------------------------------------------------------
(* start, stop and close.  A worker is started when it does not run, and   *)
(* by one caller at a time, who waits on startCh.                          *)

(* Mutant: start does not send on startCh.                                  *)
QuietStart ==
    /\ ~running /\ ~starting
    /\ running' = TRUE
    /\ UNCHANGED <<chainVars, startCh, starting, exitCh, requestVars, newTxs, mainVars, resubmitAdjustCh,
                   taskVars, resultVars, unconfirmed, bound>>

start ==
    /\ ~running /\ ~starting
    /\ running' = TRUE
    /\ starting' = TRUE
    /\ UNCHANGED <<chainVars, startCh, exitCh, requestVars, newTxs, mainVars, resubmitAdjustCh,
                   taskVars, resultVars, unconfirmed, bound>>

SendStart ==
    /\ starting /\ startCh = 0
    /\ startCh' = 1
    /\ starting' = FALSE
    /\ UNCHANGED <<chainVars, running, exitCh, requestVars, newTxs, mainVars, resubmitAdjustCh,
                   taskVars, resultVars, unconfirmed, bound>>

stop ==
    /\ running /\ bound.stops
    /\ running' = FALSE
    /\ UNCHANGED <<chainVars, startCh, starting, exitCh, requestVars, newTxs, mainVars,
                   resubmitAdjustCh, taskVars, resultVars, unconfirmed, bound>>

close ==
    /\ ~exitCh /\ bound.closes
    /\ exitCh' = TRUE
    /\ UNCHANGED <<chainVars, running, startCh, starting, requestVars, newTxs, mainVars,
                   resubmitAdjustCh, taskVars, resultVars, unconfirmed, bound>>

-----------------------------------------------------------------------------
(* newWorkLoop.                                                            *)

(* Mutant: every task that is not above the head is cleared.                *)
KeptAbove(number) == {b \in pendingTasks : NumberU64(b) > number}

(* The tasks that clearPending leaves.                                     *)
Kept(number) == {b \in pendingTasks : NumberU64(b) + staleThreshold > number}

(* commit: the last request is interrupted and a new one is to be sent.    *)
commit(isNoempty, s) ==
    /\ requests < bound.requests
    /\ interrupt' = IF interrupt = "nil" THEN "nil" ELSE s
    /\ newWork' = "send"
    /\ noempty' = isNoempty
    /\ requests' = requests + 1

OnStart ==
    /\ newWork = "select" /\ startCh = 1
    /\ startCh' = 0
    /\ pendingTasks' = Kept(NumberU64(head))
    /\ commit(FALSE, "newHead")
    /\ UNCHANGED <<chainVars, running, starting, exitCh, timer, newTxs, mainVars,
                   resubmitAdjustCh, taskPc, task, prev, seals, resultVars, unconfirmed, bound>>

OnHead ==
    /\ newWork = "select" /\ chainHeadCh # << >>
    /\ chainHeadCh' = Tail(chainHeadCh)
    /\ pendingTasks' = Kept(Head(chainHeadCh))
    /\ commit(FALSE, "newHead")
    /\ UNCHANGED <<blocks, head, chainSideCh, lifeVars, timer, newTxs, mainVars,
                   resubmitAdjustCh, taskPc, task, prev, seals, resultVars, unconfirmed, bound>>

(* Mutant: a tick sends a request without new transactions, too.            *)
TickAlways ==
    /\ newWork = "select" /\ timer
    /\ IF running
         THEN commit(TRUE, "resubmit") /\ UNCHANGED timer
         ELSE timer' = FALSE /\ UNCHANGED <<newWork, noempty, interrupt, requests>>
    /\ UNCHANGED <<chainVars, lifeVars, newTxs, mainVars, resubmitAdjustCh, taskVars, resultVars, unconfirmed, bound>>

(* A tick: without new transactions the timer is set again, and when the   *)
(* worker does not run it is not.                                          *)
OnTimer ==
    /\ newWork = "select" /\ timer
    /\ IF running
         THEN newTxs /\ commit(TRUE, "resubmit") /\ UNCHANGED timer
         ELSE timer' = FALSE /\ UNCHANGED <<newWork, noempty, interrupt, requests>>
    /\ UNCHANGED <<chainVars, lifeVars, newTxs, mainVars, resubmitAdjustCh, taskVars, resultVars, unconfirmed, bound>>

OnAdjust ==
    /\ newWork = "select" /\ resubmitAdjustCh > 0
    /\ resubmitAdjustCh' = resubmitAdjustCh - 1
    /\ UNCHANGED <<chainVars, lifeVars, requestVars, newTxs, mainVars, taskVars, resultVars, unconfirmed, bound>>

(* newWorkCh is not buffered: mainLoop takes the request as it is sent.    *)
SendRequest ==
    /\ newWork = "send" /\ main = "select"
    /\ newWork' = "reset"
    /\ interrupt' = "none"
    /\ main' = IF noempty THEN "refill" ELSE "begin"
    /\ backlog' = resubmitAdjustCh
    /\ UNCHANGED <<chainVars, lifeVars, noempty, requests, timer, newTxs, after, current, refused, todo, toSend,
                   possibleUncles, resubmitAdjustCh, taskVars, resultVars, unconfirmed, bound>>

(* The rest of commit, while mainLoop is at work.                          *)
Reset ==
    /\ newWork = "reset"
    /\ newWork' = "select"
    /\ timer' = TRUE
    /\ newTxs' = FALSE
    /\ UNCHANGED <<chainVars, lifeVars, noempty, interrupt, requests, mainVars, resubmitAdjustCh, taskVars,
                   resultVars, unconfirmed, bound>>

ExitNewWork ==
    /\ exitCh /\ newWork = "select"
    /\ newWork' = "exit"
    /\ UNCHANGED <<chainVars, lifeVars, noempty, interrupt, requests, timer, newTxs, mainVars,
                   resubmitAdjustCh, taskVars, resultVars, unconfirmed, bound>>

newWorkLoop == OnStart \/ OnHead \/ OnTimer \/ OnAdjust \/ SendRequest \/ Reset \/ ExitNewWork

-----------------------------------------------------------------------------
(* mainLoop.                                                               *)

(* commitNewWork up to the uncles.  The header may not be prepared, or the *)
(* state of the parent not be there.                                       *)
Begin ==
    /\ main \in {"begin", "refill"}
    /\ \/ /\ main' = "select"
          /\ refused' = TRUE
          /\ UNCHANGED <<current, possibleUncles, after>>
       \/ LET env == [parent |-> head, txs |-> 0, uncles |-> {}]
              fresh == {u \in possibleUncles : NumberU64(u) + staleThreshold > NumberU64(head) + 1}
          IN  /\ \E U \in ChosenUncles(env, fresh) : current' = {[env EXCEPT !.uncles = U]}
              /\ possibleUncles' = fresh
              /\ refused' = (refused /\ main = "refill")
              /\ main' = IF main = "refill" THEN "pool" ELSE "commit"
              /\ after' = "pool"
    /\ UNCHANGED <<chainVars, lifeVars, requestVars, newTxs, todo, toSend, backlog,
                   resubmitAdjustCh, taskVars, resultVars, unconfirmed, bound>>

(* The transactions of the pool, in a local and a remote batch.            *)
Pending ==
    /\ main = "pool"
    /\ todo' \in 0..bound.batches
    /\ main' = IF todo' = 0 THEN "select" ELSE "batch"
    /\ UNCHANGED <<chainVars, lifeVars, requestVars, newTxs, after, current, refused, toSend, backlog, possibleUncles,
                   resubmitAdjustCh, taskVars, resultVars, unconfirmed, bound>>

Executed(txs) == current' = {[env EXCEPT !.txs = txs] : env \in current}

(* The messages of a batch: one at its end, or one of each thread that     *)
(* sees a resubmission.                                                    *)
Feedback == {1} \cup {n \in 1..NumThreads : interrupt = "resubmit"}

(* commitTransactions: the batch is executed, or interrupted after some    *)
(* transactions or none; a new head gives up the block.                    *)
commitTransactions ==
    /\ main = "batch"
    /\ \E env \in current : \E txs \in env.txs..bound.txs : Executed(txs)
    /\ \/ toSend' \in Feedback /\ main' = "adjust"
       \/ interrupt = "newHead" /\ main' = "select" /\ UNCHANGED toSend
    /\ UNCHANGED <<chainVars, lifeVars, requestVars, newTxs, after, refused, todo, backlog, possibleUncles,
                   resubmitAdjustCh, taskVars, resultVars, unconfirmed, bound>>

SendAdjust ==
    /\ main = "adjust"
    /\ resubmitAdjustCh < resubmitAdjustChanSize
    /\ resubmitAdjustCh' = resubmitAdjustCh + 1
    /\ toSend' = toSend - 1
    /\ IF toSend > 1 THEN UNCHANGED <<main, after, todo>>
       ELSE /\ todo' = todo - 1
            /\ main' = IF todo > 1 THEN "batch" ELSE "commit"
            /\ after' = "select"
    /\ UNCHANGED <<chainVars, lifeVars, requestVars, newTxs, current, refused, backlog, possibleUncles,
                   taskVars, resultVars, unconfirmed, bound>>

(* w.commit sends a task only if the worker is running.                    *)
Commit ==
    /\ main = "commit"
    /\ main' = IF running THEN "send" ELSE after
    /\ UNCHANGED <<chainVars, lifeVars, requestVars, newTxs, after, current, refused, todo, toSend,
                   backlog, possibleUncles,
                   resubmitAdjustCh, taskVars, resultVars, unconfirmed, bound>>

(* Mutant: the number of the task in place of its parent.                   *)
ShiftToTask(b) == Shift(unconfirmed, NumberU64(b))

(* What the task for b leaves to watch.                                    *)
ShiftUnconfirmed(b) == Shift(unconfirmed, NumberU64(b) - 1)

(* taskCh is not buffered either.                                          *)
SendTask ==
    /\ main = "send"
    /\ main' = after
    /\ \/ /\ taskPc = "select"
          /\ taskPc' = "task"
          /\ \E env \in current :
                /\ task' = Block(env)
                /\ unconfirmed' = ShiftUnconfirmed(task')
       \/ exitCh /\ UNCHANGED <<taskPc, task, unconfirmed>>
    /\ UNCHANGED <<chainVars, lifeVars, requestVars, newTxs, after, current, refused, todo, toSend,
                   backlog, possibleUncles,
                   resubmitAdjustCh, prev, pendingTasks, seals, resultVars, bound>>

(* A side block may be an uncle of the block under construction.           *)
OnSide ==
    /\ main = "select" /\ chainSideCh # << >>
    /\ chainSideCh' = Tail(chainSideCh)
    /\ LET u == Head(chainSideCh)
           takes == {env \in current : /\ u \notin possibleUncles
                                       /\ running
                                       /\ Cardinality(env.uncles) < 2
                                       /\ commitUncle(env, u)}
       IN  /\ possibleUncles' = possibleUncles \cup {u}
           /\ IF takes = {}
                THEN UNCHANGED <<main, after, current>>
                ELSE /\ current' = {[env EXCEPT !.uncles = @ \cup {u}] : env \in current}
                     /\ main' = "commit"
                     /\ after' = "select"
    /\ UNCHANGED <<blocks, head, chainHeadCh, lifeVars, requestVars, newTxs, refused, todo, toSend, backlog,
                   resubmitAdjustCh, taskVars, resultVars, unconfirmed, bound>>

(* New transactions; a worker that does not run executes them at once.     *)
OnTxs ==
    /\ main = "select" /\ ~newTxs /\ bound.txs > 0
    /\ newTxs' = TRUE
    /\ \/ UNCHANGED current
       \/ ~running /\ \E env \in current : \E txs \in env.txs..bound.txs : Executed(txs)
    /\ UNCHANGED <<chainVars, lifeVars, requestVars, main, after, refused, todo, toSend, backlog, possibleUncles,
                   resubmitAdjustCh, taskVars, resultVars, unconfirmed, bound>>

ExitMain ==
    /\ exitCh /\ main = "select"
    /\ main' = "exit"
    /\ UNCHANGED <<chainVars, lifeVars, requestVars, newTxs, after, current, refused, todo, toSend,
                   backlog, possibleUncles,
                   resubmitAdjustCh, taskVars, resultVars, unconfirmed, bound>>

mainLoop ==
    \/ Begin \/ Pending \/ commitTransactions \/ SendAdjust \/ Commit \/ SendTask
    \/ OnSide \/ OnTxs \/ ExitMain

-----------------------------------------------------------------------------
(* taskLoop.                                                               *)

Stopped == {[s EXCEPT !.stopCh = "closed"] : s \in seals}

OnTask ==
    /\ taskPc = "task"
    /\ IF task = prev
         THEN taskPc' = "select" /\ UNCHANGED <<prev, pendingTasks, seals>>
         ELSE /\ seals' = Stopped
              /\ prev' = task
              /\ pendingTasks' = pendingTasks \cup {task}
              /\ taskPc' = "seal"
    /\ UNCHANGED <<chainVars, lifeVars, requestVars, newTxs, mainVars, resubmitAdjustCh, task,
                   resultVars, unconfirmed, bound>>

(* Seal starts the search for a seal, or fails.                            *)
Seal ==
    /\ taskPc = "seal"
    /\ taskPc' = "select"
    /\ \/ seals' = seals \cup {[block |-> task, stopCh |-> "open"]}
       \/ UNCHANGED seals
    /\ UNCHANGED <<chainVars, lifeVars, requestVars, newTxs, mainVars, resubmitAdjustCh, task, prev,
                   pendingTasks, resultVars, unconfirmed, bound>>

(* Mutant: taskLoop ends without interrupting the engine.                   *)
ExitSealing ==
    /\ exitCh /\ taskPc = "select"
    /\ taskPc' = "exit"
    /\ UNCHANGED <<chainVars, lifeVars, requestVars, newTxs, mainVars, resubmitAdjustCh, task, prev,
                   pendingTasks, seals, resultVars, unconfirmed, bound>>

ExitTask ==
    /\ exitCh /\ taskPc = "select"
    /\ taskPc' = "exit"
    /\ seals' = Stopped
    /\ UNCHANGED <<chainVars, lifeVars, requestVars, newTxs, mainVars, resubmitAdjustCh, task, prev,
                   pendingTasks, resultVars, unconfirmed, bound>>

taskLoop == OnTask \/ Seal \/ ExitTask

(* The engine finds a seal, even of a block that it was just told to stop  *)
(* with, and drops it when nobody reads the results; or it stops.          *)
Found ==
    /\ \E s \in seals, n \in 1..bound.nonces :
          /\ NumberU64(s.block) <= bound.height
          /\ seals' = seals \ {s}
          /\ resultCh' = IF Len(resultCh) < resultQueueSize
                           THEN Append(resultCh, Sealed(s.block, n)) ELSE resultCh
    /\ UNCHANGED <<chainVars, lifeVars, requestVars, newTxs, mainVars, resubmitAdjustCh, taskPc, task, prev,
                   pendingTasks, result, found, unconfirmed, bound>>

Aborted ==
    /\ \E s \in seals : s.stopCh = "closed" /\ seals' = seals \ {s}
    /\ UNCHANGED <<chainVars, lifeVars, requestVars, newTxs, mainVars, resubmitAdjustCh, taskPc, task, prev,
                   pendingTasks, resultVars, unconfirmed, bound>>

-----------------------------------------------------------------------------
(* resultLoop, and the chain.                                              *)

(* Mutant: no look at the chain for a duplicate.                            *)
NeverKnown(b) == FALSE

HasBlock(b) == b \in blocks

(* A duplicate, or a block without a task, is passed over.                 *)
OnResult ==
    /\ result = "select" /\ resultCh # << >>
    /\ resultCh' = Tail(resultCh)
    /\ IF HasBlock(Head(resultCh)) \/ SealHash(Head(resultCh)) \notin pendingTasks
         THEN UNCHANGED <<result, found>>
         ELSE result' = "write" /\ found' = Head(resultCh)
    /\ UNCHANGED <<chainVars, lifeVars, requestVars, newTxs, mainVars, resubmitAdjustCh, taskVars,
                   unconfirmed, bound>>

(* The blocks that leave the canonical chain when b becomes its head, the  *)
(* highest first.                                                          *)
Reorged(b) ==
    LET common(n) == n <= Len(b) /\ SubSeq(b, 1, n) = SubSeq(head, 1, n)
        left == {n \in 1..Len(head) : ~common(n)}
    IN  [i \in 1..Cardinality(left) |-> SubSeq(head, 1, Len(head) + 1 - i)]

(* WriteBlockWithState makes a higher block the head, and one as high by   *)
(* chance; a reorganisation announces the blocks that go.                  *)
WriteBlockWithState(b, canonical) ==
    /\ IF canonical THEN NumberU64(b) >= NumberU64(head) ELSE NumberU64(b) <= NumberU64(head)
    /\ blocks' = blocks \cup {b}
    /\ head' = IF canonical THEN b ELSE head

PostHead(b) ==
    IF main = "exit" THEN UNCHANGED chainHeadCh
    ELSE /\ Len(chainHeadCh) < chainHeadChanSize
         /\ chainHeadCh' = Append(chainHeadCh, NumberU64(b))

PostSide(b) ==
    IF main = "exit" THEN UNCHANGED chainSideCh
    ELSE /\ Len(chainSideCh) < chainSideChanSize
         /\ chainSideCh' = Append(chainSideCh, b)

(* reorg leaves its events to a goroutine of their own: chainSideCh holds  *)
(* what that goroutine still has to send, too.                             *)
PostReorg(b) ==
    chainSideCh' = IF main = "exit" THEN chainSideCh ELSE chainSideCh \o Reorged(b)

WriteBlock ==
    /\ result = "write"
    /\ \/ /\ result' = "select"
          /\ UNCHANGED <<blocks, head, chainSideCh>>
       \/ \E canonical \in BOOLEAN :
             /\ WriteBlockWithState(found, canonical)
             /\ result' = IF canonical THEN "postHead" ELSE "postSide"
             /\ IF canonical THEN PostReorg(found) ELSE UNCHANGED chainSideCh
    /\ UNCHANGED <<chainHeadCh, lifeVars, requestVars, newTxs, mainVars, resubmitAdjustCh, taskVars,
                   resultCh, found, unconfirmed, bound>>

(* PostChainEvents waits while a channel is full, unless mainLoop has      *)
(* ended its subscriptions; then Insert.                                   *)
PostChainEvents ==
    /\ \/ /\ result = "postHead"
          /\ PostHead(found)
          /\ UNCHANGED chainSideCh
       \/ /\ result = "postSide"
          /\ PostSide(found)
          /\ UNCHANGED chainHeadCh
    /\ result' = "select"
    /\ unconfirmed' = Insert(unconfirmed, found)
    /\ UNCHANGED <<blocks, head, lifeVars, requestVars, newTxs, mainVars, resubmitAdjustCh, taskVars,
                   resultCh, found, bound>>

ExitResult ==
    /\ exitCh /\ result = "select"
    /\ result' = "exit"
    /\ UNCHANGED <<chainVars, lifeVars, requestVars, newTxs, mainVars, resubmitAdjustCh, taskVars,
                   resultCh, found, unconfirmed, bound>>

resultLoop == OnResult \/ WriteBlock \/ PostChainEvents \/ ExitResult

(* Another node's block is imported, in one step with its events: events   *)
(* fall behind the chain in PostChainEvents of resultLoop.                 *)
Remote == {b \in blocks : b # Genesis /\ b[Len(b)].author = "remote"}

Import ==
    /\ Cardinality(Remote) < bound.imports
    /\ \E p \in blocks, canonical \in BOOLEAN :
          LET b == Append(p, [author |-> "remote", txs |-> 0, uncles |-> {}, nonce |-> 1])
          IN  /\ b \notin blocks
              /\ NumberU64(b) <= bound.height
              /\ WriteBlockWithState(b, canonical)
              /\ IF canonical THEN PostReorg(b) /\ PostHead(b)
                              ELSE PostSide(b) /\ UNCHANGED chainHeadCh
    /\ UNCHANGED <<lifeVars, requestVars, newTxs, mainVars, resubmitAdjustCh, taskVars, resultVars,
                   unconfirmed, bound>>

Next ==
    \/ start \/ SendStart \/ stop \/ close
    \/ newWorkLoop \/ mainLoop \/ taskLoop \/ resultLoop
    \/ Found \/ Aborted \/ Import

Spec == Init /\ [][Next]_vars

-----------------------------------------------------------------------------
(* A sealed block finds its task, with receipts and state, unless it is    *)
(* stale: clearPending, which runs at every head, and the tasks that       *)
(* replace one another, take no task away that can still be needed.        *)
ResultsHaveTasks ==
    \A b \in {s.block : s \in seals} \cup {resultCh[i] : i \in DOMAIN resultCh} :
        (\A x \in blocks : NumberU64(x) < NumberU64(b) + staleThreshold) => SealHash(b) \in pendingTasks

(* newWorkLoop, which sends a request, and mainLoop, which sends feedback  *)
(* that only newWorkLoop receives, wait for each other.                    *)
Standoff ==
    /\ newWork = "send"
    /\ main = "adjust"
    /\ resubmitAdjustCh = resubmitAdjustChanSize

(* A batch is never interrupted for new transactions: only mainLoop counts *)
(* them, after the batch, and a tick without them sends no request.  The   *)
(* third case of txnWorker's comment does not arise.                       *)
NeverResubmitted == main \in {"begin", "refill", "pool", "batch", "adjust"} => interrupt # "resubmit"

(* A request causes one message of each batch, so that the loops come to a *)
(* standoff only if messages of earlier requests nearly filled the channel.*)
StandoffNeedsBacklog == Standoff => backlog + 2 > resubmitAdjustChanSize

(* The engine works on one block at a time, the last task that was not a   *)
(* duplicate, and on none when taskLoop has ended.                         *)
OneSeal ==
    \A s \in seals : s.stopCh = "open" => s.block = prev /\ taskPc \notin {"seal", "exit"}

(* The rule by which others judge the uncles of a block (VerifyUncles).    *)
VerifyUncles(b) ==
    LET ancestors == GetBlocksFromHash(ParentOf(b))
    IN  /\ Cardinality(Uncles(b)) <= 2
        /\ \A u \in Uncles(b) :
              /\ u \notin ancestors \cup UNION {Uncles(a) : a \in ancestors}
              /\ ParentOf(u) \in ancestors
              /\ ParentOf(u) # ParentOf(b)

(* Every block that is given to the engine has valid uncles, whenever side *)
(* blocks arrive and the chain is reorganised.                             *)
UnclesAreValid == \A b \in pendingTasks : VerifyUncles(b)

(* No block is watched for confirmations twice, though it may be sealed    *)
(* again when tasks alternate.                                             *)
MinedOnce == \A i, j \in DOMAIN unconfirmed : unconfirmed[i] = unconfirmed[j] => i = j

(* When the worker runs and every event has been handled, the last task is *)
(* one for the current head, however starts, stops, heads and interrupts   *)
(* fell; only an error of commitNewWork can prevent it.                    *)
MinesOnHead ==
    /\ running /\ ~exitCh /\ ~starting /\ startCh = 0 /\ chainHeadCh = << >>
    /\ newWork = "select" /\ main = "select" /\ taskPc = "select" /\ result = "select"
    /\ ~refused
    => prev # Genesis /\ ParentOf(prev) = head

(* A mined block is watched until the chain is miningLogAtDepth higher.    *)
WatchedLongEnough ==
    [][\A i \in DOMAIN unconfirmed :
          \/ \E j \in DOMAIN unconfirmed' : unconfirmed'[j] = unconfirmed[i]
          \/ \E x \in blocks' : NumberU64(x) >= NumberU64(unconfirmed[i]) + miningLogAtDepth]_vars

=============================================================================
