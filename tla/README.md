# A formal model of the concurrent miner of concurrent_geth

concurrent_geth is go-ethereum with a miner that executes the transactions of a
block in several threads. This directory holds TLA+ modules that model the parts
of the program that this change touches, TLC configurations that check them on
small instances, and TLAPS proofs of the properties that matter most. Paths of
source files are relative to `src/`.

## The system

The program is an Ethereum node. A block is made as follows.

1. `newWorkLoop` (`miner/worker.go`) asks for a new block when the chain has a new
   head, when mining starts, or when a timer fires and transactions have arrived. It
   raises the *interrupt* of the batch that runs.
2. `mainLoop` runs `commitNewWork`, which takes the pending transactions from the
   pool and calls `commitTransactions`, once for local and once for remote ones.
3. `commitTransactions` starts `NumThreads` goroutines `txnWorker`. They share the
   *transaction set* `TransactionsByPriceAndNonce` (`core/types/transaction.go`), the
   *gas pool* (`core/gaspool.go`), the lists of the block under construction and the
   account trie. Each has a `StateDB` of its own (`CopySharedTrie`).
4. A thread takes a transaction with `Peek`, executes it (`ApplyTransaction`,
   `ApplyMessage`), where value moves under the locks of `Transfer` (`core/evm.go`),
   finalises its state into the *shared account trie*
   (`trie/secure_trie.go` over `trie/trie.go`), appends the transaction and its
   receipt, tells the set with `Shift` or `Remove`, and records the transaction for
   the *verifier* (`concurrent/verifier`).
5. When all threads have ended, the verifier judges the history, and `commit` gives
   the block to `taskLoop`, which has it sealed; `resultLoop` writes it to the chain and
   keeps it among the *unconfirmed blocks* (`miner/unconfirmed.go`). The chain announces
   heads and side blocks, of this miner and of others, back to the first two loops.

Everything else (network, light client, accounts, Swarm, Whisper, user interfaces) is
that of go-ethereum and is listed in `PROJECT.json` under `components` with the reason
why it is not modelled.

## Modules

| module | models | abstracts |
|---|---|---|
| `TxSet` | the transaction set; every load, store, compare-and-swap and `sync.Map` call of `Peek`, `Shift`, `Remove` and `find` is one action | a transaction is its sender, nonce, price, gas limit and two flags; signatures of heads are valid |
| `TxnWorker` | `commitTransactions`, `txnWorker`, `commitTransaction`, the gas and the checks of a state transition; extends `TxSet` | the effect of execution on accounts; `SubGas` is one step (see `GasPool`) |
| `WorkerLoops` | `newWorkLoop`, `mainLoop`, `taskLoop`, `resultLoop`, `commitNewWork`, uncles, unconfirmed blocks, `start`, `stop`, `close`; the seals of the engine; heads, reorganisations and events of the chain | a block is the sequence of its headers, a batch one step (see `TxnWorker`), difficulty constant, no timestamps; an import is one step with its events |
| `Transfer` | `Transfer` and `InUseAccounts` | balances, which belong to the thread's own `StateDB` |
| `GasPool`, `AtomicGas` | `AddGas` and `SubGas` access by access; the atomic pool they implement | `MaxUint64` is a constant |
| `Verifier` | recording, `handleMethods`, `verifyCheckpoint`, items with their fractions, `Verify`, `ConcurrentVerify`, `WaitVerifier` | recipients; the appending to a list is one step |
| `StateDB` | objects, journal, snapshots, `Finalise`, `IntermediateRoot`, `Commit`, `Reset`, `Copy`, logs, refunds, preimages | one storage slot and one code per account; revision ids are positions |
| `SharedState` | the threads' states over the shared trie, buying of gas, calls, fees, finalisation, the block, and its sequential re-execution as the reference | gas used is one unit; trie operations are atomic (see `SecureTrie`) |
| `Trie` | `insert`, `delete`, `tryGet`, `hash`, `expandNode`, cache generations and unloading, as recursive operators on nodes | a hash *is* the bare node, so that hashing is injective; which nodes reach 32 bytes is decided by the value |
| `ConcurrentTrie`, `AtomicTrie` | `TryUpdate` with its goroutine and the global `updateChannels`, `TryGet`, `TryDelete`, `Hash`, `Commit`; the atomic map it should be | the nodes under a root are a map and the set of keys that are loaded; a pointer is an allocation number |
| `SecureTrie` | `secureTrieLock`, `hashKeyBuf`, the preimage cache, and the calls into `ConcurrentTrie`, which it extends | a hashed key is represented by the key |

`MC*` modules give the constants small values. `*Proofs`, `TxnWorkerOwnership` and
`SumTheorems` hold proofs only. A definition whose comment begins with "Mutant" is a wrong variant of the one below it and belongs to no
specification; `PROJECT.json` names the property that notices it.

A label of `pc` is a point between two accesses to shared memory, and an action is what
the code does from one such point to the next; in `WorkerLoops` it is a point at which a
loop can wait, or after which another loop can see a difference. Threads interleave
sequentially consistently; the Go memory model promises less for the plain accesses among
them. A nil dereference is a label of its own (`panicPeek`, ...) at which the process ends.

## Runs

| run | what it shows | bounds, and why they are enough |
|---|---|---|
| `batch` | accounts are exclusive, nonces in order, heads live while executed, `find` safe, no transaction stranded, gas counted as in the receipts, a discard needs a new head | two threads, an account of two transactions and one of one: a thread can meet an account locked, shifted, removed or moved on |
| `scarce` | the gas stays within the limit, removal is final, every batch ends | two threads, gas for one transaction, a replay-protected transaction that ends its thread |
| `transfer` | the two entries lock both accounts, none is leaked, a thread left alone completes | three threads on three accounts, enough for a cycle of waits |
| `pool` | gas is conserved next to the greatest number, the loop implements an atomic pool, threads finish | two threads, two transactions each; `MaxUint64` equals the gas limit so that an overflow would happen at once |
| `verifier` | the verdict of `Verify` is exactly "the amounts of a sender never rise"; the last background round is complete | two threads, two records each, two amounts |
| `state` | reverting restores everything, logs included, every change is dirty, commits are complete, copies of committed states faithful | a contract account with journals of three entries, or logs and refunds with four and nested snapshots; any number of transactions and blocks |
| `shared` | blocks of threads that touch no account in common can be re-executed | two threads, three senders, one fee, one failing transaction |
| `shared_fees` (violation) | two fees for the coinbase, of which one is lost | two threads, one transaction each |
| `trie` | the root is that of the content after any history; unloading loses nothing | three keys, one a prefix of another, two values, two commits |
| `trie_updates` | updates are atomic and calls return | two clients; updates together, every other operation alone |
| `secure_writers` | under the lock everything holds for writers | three clients, a key that is not loaded |
| `loops` | see below | six instances in one run |

`loops` starts from a set of bounds (`MCBounds`), each of which lets one part of the system
be busy: three requests of two batches with room for three messages; two blocks mined while
one is imported; two blocks imported beside a mined one, so that there are forks, uncles and
reorganisations; an empty and a full block for one head that are sealed more than once;
starts and stops; shutdown at any time. The invariants are checked in all of them:

- `ResultsHaveTasks`: a block that comes back from the engine finds its task, unless it is
  `staleThreshold` behind.
- `OneSeal`: one open seal, for the last task, and none after `taskLoop`.
- `UnclesAreValid`: the uncles of every block that is sealed satisfy `VerifyUncles`, though
  they are chosen with side events that arrive late and an environment whose parent may no
  longer be the head.
- `MinedOnce`, `WatchedLongEnough`: a mined block is counted once, and dropped only when the
  chain is `miningLogAtDepth` higher.
- `MinesOnHead`: when nothing is left to handle and the worker runs, the last task is for the
  current head.
- `NeverResubmitted`: no batch is ever interrupted for new transactions.
- `StandoffNeedsBacklog`: when the two loops wait for each other, messages of earlier
  requests filled the channel.

Deadlock is not an error in this run: a closed worker stops, and the standoff of the last
item, which is reachable, stops it too.

### Fairness

Liveness is claimed only for goroutines that are scheduled: weak fairness of each thread's
steps. Goroutines blocked on a channel or a mutex are served in the order of their arrival
(Go's channels are FIFO, its mutex hands over to starving waiters), which is strong fairness
of the send, the receive and the lock. In `TxnWorker` the environment, `newWorkLoop`, owes
nothing: `BatchEnds` holds although it may never drain the channel, as long as the channel
has room for an answer of every thread. In `Transfer` threads that compete may wait for each
other for ever in principle, since their pauses are random; `ObstructionFree` therefore
claims completion only when the others are at rest. `WorkerLoops` claims no liveness: the
engine need not find a seal, and the loops can come to a standoff.

### Modelling decisions worth knowing

- `TxnWorker`: an interrupt is raised at most once in a batch, as `newWorkLoop` blocks after
  raising it; the store of `loopStatus` and that of `returnValue` are one step; the batch is
  the first of its block, so the gas pool is full.
- `TxnWorker` lets the interrupt be of either kind, although `NeverResubmitted` shows that
  the loops raise only one of them during a batch: the batch is right for both.
- `WorkerLoops`: a tick without new transactions only sets the timer again and is no step. A
  request that fails in `commitNewWork` (no etherbase, no state of the parent) is `refused`,
  an auxiliary variable. The events of a reorganisation, which a goroutine of its own sends,
  are in the channel at once, beyond its capacity if need be. A subscription ends when
  `mainLoop` does.
- `Verifier`: the second call of `verifyCheckpoint` in `verify` does nothing, because its maps
  are shadowed; this is modelled by leaving it out.
- `StateDB`: reads that load a clean object are not separate steps; `CreateAccount` is
  guarded as its callers in `core/vm/evm.go` guard it; `Reset` goes to the empty root.
- `SharedState`: that no two threads execute for one sender at a time is taken from
  `TxnWorker`, where it is proved.
- `Trie`: generations do not wrap around within the bound on commits.
- `ConcurrentTrie`: a node that is not loaded may or may not be missing in the database.

## Proofs

All proofs are for any number of threads, accounts, transactions, clients, tries, keys and
values; the constants obey only the `ASSUME`s of the modules that declare them.

**A batch** (`TxnWorkerOwnership`, `TxnWorkerProofs`). All safety properties of the runs
`batch` and `scarce` are proved, from five layers of invariants.

- `TypeInv`: types, and that the loop counters of `Peek` and `find` stay inside the slots.
- `OwnerInv`: every account that is not locked has an available slot; a slot belongs to one
  account; a thread between the `LoadOrStore` of `Peek` and the end of `Shift` or `Remove` has
  its account in `accountLock`, no other thread has the same, and its slot still holds what
  it took. Exclusion alone is not inductive: that `LoadOrStore` succeeds for one thread only
  matters because the lock is released by its owner only, which needs the owner to be at a
  known label with the account unchanged.
- `CoverInv`, for `NothingStranded`: `Peek` passes over an account that is locked, so a
  thread may find nothing and end while accounts are left. Unless there is a reason to end
  (an interrupt that was seen, too little gas, a protected transaction), every available slot
  has a thread that still goes on and, if it is in the middle of a scan, has not passed the
  slot (`LookInv`). A scan that passes a slot because its account is locked hands it to the
  thread that holds the account (`LockedInv`), which will look again after it has released
  it; a scan that passes a slot because it is not available has nothing to hand over, since
  no slot becomes available again (`FlagsDown`). The scan begins anywhere and wraps around:
  `ModUnique` says that it meets every slot once.
- `NonceInv`: the head of an account is beyond all its transactions in the block, and the
  rest of its list is beyond the head.
- `GasInv`: the pool, the header's gas and what executions hold are together at most the
  gas limit; the header's gas is that of the receipts and of the threads that have added
  theirs and not yet appended the receipt; the transactions of the block are as many as the
  receipts and the threads between the two appends. `GasBound` and `UsedGasIsReceiptGas`
  follow: when the threads have ended, nobody holds or owes anything.

`TypeCorrect`, `MutualExclusion`, `NonceOrdered`, `LiveHead`, `FindSafe`, `NothingStranded`,
`GasBounded` and `GasAccounted` follow from these; `RemovalIsFinal` is an action property from
the same invariant; `DiscardSafe` adds that a raised interrupt stays raised. Assumed is that
the threads are finitely many and at least one (`ThreadsAssumption`), as `commitTransactions`
makes them (`miner/worker.go:773`): without a thread every transaction is stranded.

**Gas pool** (`MinerProofs`). `Conserved`: the pool, what the threads hold and what is spent
add up to the limit. That bounds the pool, so that the check of `AddGas` against overflow
never fails, whatever the limit is next to `MaxUint64`. `Atomicity`: the
compare-and-swap loop and the two steps of `AddGas` implement `AtomicGas`, step by step.

Gas pool and batch use `SumTheorems`: how the sum of a function over a finite set (`SumFunction` of the
community module Functions) changes when one value changes, when a function is extended by one
value, and that it is at least each of its values. The fold is a recursive function on the
subsets of a finite set; that it exists, is unique, and does not depend on the order of the
indices is shown with a smallest counterexample, from the well-foundedness of strict inclusion
(`SmallestSubset`), since the provers cannot instantiate a rule of induction.

**Transfer** (`MinerProofs`), assuming that no transfer is from an account to itself:
`LocksAreExclusive` and `LocksAreReturned`, which need each other as an invariant.

**Verifier** (`VerifierProofs`), for any number of threads (at least one, as in the code),
senders and integer amounts; both safety properties of the run `verifier` are proved.

- `LastRoundSeesAll`, from `VerifierInv`: an id is given to one record (`IdInv`), so that no
  record replaces another in `methods`; a record lacks its id only while its thread is not done
  (`ListInv`); and while `stop` is set, the lists that the round has passed belong to threads
  that are done, and all of their records are in `methods` (`RoundInv`).
- `VerdictExact`: the verdict of a foreground `Verify` is exactly "the amounts of a sender never
  rise". The comparisons of `verifyCheckpoint` demote an item once for each greater amount of
  its sender, wherever it comes in the history, and put it on the stack of each of those
  (`ComparedTally`), so that its sum is `1/2^e` with `e` the number of them (`Reduced`).
  Consuming an item promotes what is on its stack: while no rise has been met, `e` counts the
  greater ones that are still to come (`Before`, `PromotedEach`), and an item is consumed with
  its full sum exactly if there is none after it (`ConsumeSound`, `ConsumeUnsound`). Once the outcome
  is false it stays so (`ConsumeFailed`); `OutcomeExact` puts these together. `JudgedInv` adds
  that the foreground has one round, over all records, whose verdict is returned.

The loops of the verifier are recursive functions over numbers. That each exists and meets its
equation is shown, as for the sums, with a smallest counterexample (`PowersExist`,
`ProducingExists`, `HandlingExists`, ...). The integers of the theorem are unbounded; the
code's are int64, so it carries over while a record has at most 62 greater ones of its sender.

**State** (`StateDBProofs`), for any accounts, hashes, values and nested snapshots, assuming
`ReadsFail = FALSE`; all properties of the run `state` are proved. The assumption is needed:
a failed read of a storage trie reads as zero and goes into the journal as the previous value
(`core/state/state_object.go`, `GetState`, `SetState`), and a revert then leaves that zero in
an object that is not dirty.

The inductive invariant `Inv` gives the journal a meaning (`Means`). There is a history, which
says for each number of entries what could be read after them and how many of them had made
each account dirty; every entry leads from the state after it back to the one before (`Back`);
the last state is the current one; each valid snapshot saved the state of its index; an
account that no entry has made dirty reads as in the trie; and the counts of `dirties` cover
those of the history. `RevertRestores` alone says nothing of the entries between two
snapshots, so it is not inductive. `ObjectsOK` and `DatabaseOK` say that a deleted object is not
in the trie, and that the code and the storage root of what `Commit` will not write are in the
database already. `JournalHasMeaning` is the invariance of `Inv`; from it follow
`SnapshotsAreRestored` and `CommitWritesAll`, action properties, and `NoChangeIsForgotten` and
`CopyReadsTheSame`. `dirties` only covers the changes and is not equal to their number: the
entry for ripemd is counted twice, by `append` and by `touch`.

**Shared state** (`SharedStateProofs`), for any number of threads, accounts and transactions,
assuming that the batch is independent (`IndependentBatches`): no two senders have transactions
that touch the same account; a sender has at most two transactions, and only one if it touches
the coinbase; and no call fails for lack of funds, because the sender has all that its transactions
cost or cannot even buy the gas. The batches of the run `shared` are of this kind.
`IndependentBlocksAreValid` then gives `MinedBlockIsValid`: wherever the threads
stop between transactions, the trie is the one that re-executing the block in its order gives. Nothing weaker
will do. A thread keeps its live objects from one transaction to the next, so a third
transaction of a sender, on the thread that executed the first, meets objects that the second
made stale; so does a second transfer to the coinbase, whose object every fee, also one of
zero, loads. And a call that fails leaves its sender dirty in the thread's own journal, which
the thread's next `Finalise` writes to the trie. TLC finds an invalid block for each.

The proof needs no commuting of steps. The inductive invariant `SharedInv` compares everything
with one state, `Executed`: the accounts as the re-execution of the transactions *so far in the
block* leaves them. An account that no running transaction touches has that value in the trie
(`TrieInv`). A thread in a transaction has made of it what its label says (`Local`); an
account it touches has the new value in its objects, the old in the trie while it is
dirty, and the new after (`Executing`). Live objects that a later transaction will read are not stale
(`ObjectInv`), and what is left of the batch is still independent and paid for (`PendingInv`).
The lemmas `WorkKeeps` and `EndKeeps` prove this once for a step inside a transaction and once
for its end; each action is an instance of one of them. That the re-execution of a longer
block is one more `ApplyTransaction` (`ProcessAppend`) is not given by the definition of
`Process`, a recursive function, which TLA+ defines by a choice: `ExecutesExists` and
`ExecutesSame` show that there is exactly one such function, from the least index at which two
would differ.

**Trie** (`SecureTrieProofs`, first part), assuming that all nodes are in memory and that callers use
`TryUpdate` and `TryGet`: `UpdatesAreAtomicInMemory` shows that `ConcurrentTrie` implements
`AtomicTrie`. The step that matters is a successful compare-and-swap, which must apply the
update to the *current* content although it was computed from the content read before. It
rests on `PointersIdentifyContents`: a pointer is allocated once, so what a goroutine has
read under the pointer that is still the root is still the content. The other two
conjuncts say that nobody stores the root without a comparison (`LoadedInv`) and that a
goroutine is started once (`FreshInv`). Both assumptions are needed: with a node
that is not in memory a reader stores the root that it has resolved, over an update.

**Secure trie** (`SecureTrieProofs`, last part), assuming that the callers are writers, that is, use
`TryUpdate`, `TryDelete`, `Delete` and `Commit` (`Writers`); all properties of the run
`secure_writers` are proved. Nodes need not be in memory here. `TryGet` and `Hash` must be
excluded: they take no lock, and `TryGet` hashes its key into the buffer that a writer is about
to read. The inductive invariant `SecureInv` (`OneWriter`) says what the lock gives to a call
between `Lock` and `Unlock`: no other call is inside (`LockInv`); the buffer holds the key of
the call from `hashKey` to the end, and the root that `TryDelete` and `Commit` have read is
still the root when they store theirs without a comparison (`CallInv`); the goroutine of a
`TryUpdate` is the only one at work, has the key and the value of its caller, and never finds
its compare-and-swap refused (`WaitInv`, `GoInv`); and a channel holds an answer only for the
call that waits (`ChannelInv`), although all updates of the process share the channels. The
goroutine outlives no call, because the caller gives the lock back only after the answer.
`ExactPreimages`, `OwnKeys` and `UpdatesDone` follow at once. `WritersAreAtomic` is the
refinement of `AtomicTrie`: at most one update is under way (`OnePending`), it begins when the
goroutine, or `TryDelete`, has its key, and is applied by the compare-and-swap or the store.

**Worker loops** (`MinerProofs`), for any number of threads,
any sizes of the channels, any thresholds and bounds; all properties of the run `loops` are
proved. The invariants:

- `RequestInv`. `NeverResubmitted` is not inductive: it needs that transactions are counted
  (`newTxs`) only while `mainLoop` is at its select, and that the request clears the count
  while `newWorkLoop` is still in its `commit`. Then a batch sends one message, and
  `resubmitAdjustCh + todo <= backlog + 2`, from which `StandoffNeedsBacklog` follows: with
  the ten places of the code the loops can wait for each other only when nine messages of
  earlier requests were left in the channel. Theorems `NoResubmission`, `FeedbackFits`.
- `SealInv`: an open seal is for `prev`, and there is none between the registration of a task
  and its seal. Theorem `SealsOne`.
- `TaskInv`, with `SealInv`: a block in `taskLoop`, in the engine or in `resultCh` has its
  seal hash among the pending tasks, unless a block of the chain is `staleThreshold` above
  it. That `clearPending` agrees with this needs `ChainInv`: the number of every announced
  head is that of a block in the chain, and the chain only grows. The lemmas `Assembling` and
  `Sealing` say that sealing changes neither number nor seal hash. Theorem
  `TasksOutliveSeals`.
- `UncleInv`: the uncles in the environment are valid for the *parent of the environment*,
  whatever the head is by now; `Choosing` and `Committing` say that `commitUncles` and
  `commitUncle` keep this, and `Parenthood` that the block has that parent and those uncles.
  Theorem `UnclesPass`.
- `HeadInv`: the environment is for the head, or a head is announced and not yet acted upon
  (in `chainHeadCh`, between the writing of a block and its event, or in a request that
  `mainLoop` has not begun); and a running worker has a task for the head, is about to send
  one, or has such an announcement or a start before it. The first half is what makes
  `SendTask` harmless when it replaces the task by an older block. Theorem `WorksOnHead`.
- `UnconfirmedInv`: what is watched is on the chain and differs pairwise, and a block between
  `OnResult` and `Insert` is not watched yet. `Shifting` says that `Shift` leaves a part of
  the sequence and drops only what is deep enough; it needs the least of a set of numbers,
  from the well-foundedness of `<`. Theorems `WatchesOnce` and, as an action property,
  `WatchesOn`.

Only model-checked are

- liveness and fairness (`BatchEnds`, `AllFinish`, `ObstructionFree`, `CallsReturn`), which are
  beyond the prover;
- `RootIsCanonical`, `GetReturnsLast` and `SubtreesAreOlder` of `Trie`: its operators are
  recursive on nodes, and what they compute needs induction over the data.

## Where the code and its comments disagree

`shared_fees` shows the disagreement that matters most, and `PROJECT.json` quotes the
sentence it contradicts: a block with two fees fails the check "invalid merkle root" of
`core/block_validator.go:99`. The others that came up while modelling are listed here. The
modules contain the steps that lead to them; the properties are stated so that they hold
beside them.

*Transaction set and batch*
- `Peek` looks at `headsAvailable[i]` and then at `heads[i]`; a `Remove` in between leaves
  nil, which `Sender` dereferences (`core/types/transaction.go:396`; the comment at `:388`
  says "still available").
- `tx.To().String()` panics for a contract creation (`miner/worker.go:908`).
- A replay-protected transaction ends its thread, not only its account (`miner/worker.go:873`,
  comment at `:867`).
- A thread that reads the pool while others hold gas they will give back ends the batch
  (`miner/worker.go:842`).
- `preCheck` returns before it compares nonces, so a gap is executed
  (`core/state_transition.go:180`, comment at `miner/worker.go:911`).
- `Peek` goes round and does not order by price (`core/types/transaction.go:389`, comment at
  `:381`).
- Transactions and receipts are appended under two locks and can get into different orders,
  and the cumulative gas of a receipt is read after the atomic add (`miner/worker.go:733`,
  `core/state_processor.go:118`; `SetReceiptsData` relies on both).
- The record for the verifier is made after the account was released
  (`miner/worker.go:908`).

*Worker loops*
- The third case of the comment at `miner/worker.go:819` (interrupt 2 for newly arrived
  transactions) does not arise during a batch: `newTxs` is counted by `mainLoop` itself
  (`NeverResubmitted`).
- The sends at `miner/worker.go:323`, `:802` and `:829` do not look at `exitCh`, so that in a
  standoff `close` ends neither `newWorkLoop` nor `mainLoop`, while `:300` says that it
  "terminates all background threads".
- The coinbase is set when `commitNewWork` begins while the worker runs (`:946`); whether
  the task is sent is decided later (`:1061`), so that a block built before `start` can be
  sealed without one. The `start` brings a new task (`MinesOnHead`).
- The receipts are copied "deep" (`:585`), but the copies share their logs, whose block hash
  the loop above sets.
- `Miner.update` reads `shouldStart`, stores `canStart` and clears `shouldStart`
  (`miner/miner.go:92`); a `Start` that sets the first between the read and the clearing, and
  has read `canStart` before the store, is forgotten, although it logs "will start miner
  afterwards" (`:113`).

*Transfer*: a transfer from an account to itself deletes its entry twice, the second time
perhaps that of another thread (`core/evm.go:106`).

*Verifier*
- A background round can see an id before a smaller one and dereference nil
  (`concurrent/verifier/verifier.go:153`).
- From the second background round on, valid histories fail (`:139`).
- `WaitVerifier` can return before `verify` has begun (`:75`).
- The order of transactions is judged by amounts, not by nonces (`:174`, comment at `:239`).
- The denominator of an item doubles with each demotion and leaves int64 after 63
  (`concurrent/verifier/item.go:133`); the sums of the model are exact.

*State*
- `Finalise` converts a missing object before it looks whether it exists
  (`core/state/statedb.go:648`, comment at `:655`).
- `Copy` loses objects that are dirty from finalised transactions (`:539`, comment at `:507`).
- `Commit` returns the outer, nil error when a storage trie fails (`:719`, comment at `:71`).
- A thread that comes back to an account uses its old object (`:418`); a failed transaction
  stays in `threadState` while `w.current.state` is reverted (`miner/worker.go:724`); the
  revisions of that state are shared by all threads, and reverting to an older one
  invalidates a newer one; storage and code of the threads' objects are not in the state that
  is committed (`miner/worker.go:1056`).

*Tries*
- The answers of all updates of the process share a few channels, and an update can return
  with the answer of another (`trie/trie.go:226`, comment at `:245`).
- Readers of a secure trie write its key buffer without the lock (`trie/secure_trie.go:86`,
  `:205`), and `TryGet` stores a resolved root without a comparison (`trie/trie.go:155`).
- `Delete` takes `secureTrieLock` twice (`trie/secure_trie.go:125`).

## Not modelled

`PROJECT.json` lists every part of the node with its reason. In short:

- Of the worker: the length of the resubmit interval (floating point, read by no other loop),
  the pending snapshot and logs (served to users), the test hooks, and Clique with period 0.
- `miner/miner.go`: two flags around `start` and `stop`, which `WorkerLoops` lets happen at
  any time.
- Of the chain: future blocks, side chains without state, garbage collection and what is on
  disk when the process ends. They belong with `trie/database.go`, and are as in go-ethereum.
- `core/tx_pool.go`, `event/feed.go`, `eth/fetcher`, `eth/downloader`, Clique: as in
  go-ethereum. The modules take what comes from them in its most general form: any set of
  pending transactions, channels that are filled in order, imports at any time.
- Byte code, cryptography, encoding, networking, light client, Swarm, Whisper, accounts, RPC
  and user interfaces: out of the reach of a model checker, or without state of interest to
  the miner.
