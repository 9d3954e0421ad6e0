# HEMVM: TLA+ models, TLC runs and TLAPS proofs

HEMVM is a fork of Aptos that embeds an Ethereum virtual machine (the Conflux
EVM of `cfx-evm/`) beside the Move VM. A block holds native Aptos
transactions, native Ethereum transactions, and cross transactions that call
from one machine into the other. This directory models the parts of the node
where the order of steps matters: how a block is executed (by the three-worker
executor HEMVM adds, and by Block-STM, which it inherits), what an aggregator's
deferred arithmetic stands for, how the EVM's state follows nested calls, and
how a validator decides what to sign.

Paths below are relative to `src/`.

## The parts and their modules

| Part of the code | Modules | Proofs |
|---|---|---|
| Multi-worker executor: `execute_transactions_parallel_prototype` and its helpers (`aptos-move/block-executor/src/executor.rs`), the worker threads (`api/src/transactions.rs`) | `Blocks`, `MultiWorker`, abstract specification `SerialBlock` | `MultiWorkerInv` (invariant), `MultiWorkerManager`, `MultiWorkerTheorems` |
| Aggregators and deltas (`aptos-move/aptos-aggregator`, aggregator natives, the sessions of a user transaction) | `Deltas`, `Aggregator` | `AggregatorTheorems` |
| Block-STM scheduler (`block-executor/src/scheduler.rs`) | `Scheduler` | `SchedulerInv` (invariant), `SchedulerWakeups`, `SchedulerTheorems` |
| Block-STM executor, multi-version map, resolution of deltas (`executor.rs`, `view.rs`, `mvhashmap`, `output_delta_resolver.rs`) | `MVMap`, `BlockSTM`, abstract outcome `SerialExecution` | – |
| Detection of module publishing races (`txn_last_input_output.rs`) | `ModuleRace` | `ModuleRaceTheorems` |
| EVM overlay state, call frames, transactions, calls to and from Move (`cfx-evm/src`) | `EvmState`, `EvmExecution`, abstract specification `WorldStack` | – |
| Consensus safety rules and their storage (`consensus/safety-rules`) | `SafetyRules` | `SafetyRulesSteps`, `SafetyRulesTheorems` |

`MC*` modules give the constants their values for TLC. `PROJECT.json` maps
every definition to the lines it models, and lists the parts that are not
modelled.

How they fit together: a block that consensus orders (`SafetyRules`) is
executed by `MultiWorker` or by `BlockSTM`. `BlockSTM` is `Scheduler` with the
multi-version map `MVMap` and the arithmetic of `Deltas` beneath it (it extends
all three, and its threads take the scheduler's steps between their own);
`ModuleRace` is the part of its bookkeeping that no other step reads.
`Aggregator` makes the deltas of one transaction, `EvmExecution` is what one
Ethereum or cross transaction does to the EVM's state. Transactions are
abstract programs in the executors, so these last two are not composed with
them.

## Correspondence with the code

**MultiWorker.** One action per step of the manager loop that another thread
can observe: `ScanTake`, `ScanSkip`, `ScanWait`, `ScanEnd`, `ScanPanic` are the
branches of the scan of one transaction, `SendTxnsToWorker`, `TryRecvResults`,
`TryRecvNothing`, `EndIteration` the rest. `check_whether_need_to_wait_or_skip_txn`
is `MustSkip`, `MustBeFree`, `NonceIsNext` and `CanTake`. A worker receives a
batch, runs a prologue, reads its keys one at a time under the read lock
(`GetStateValue`), applies its writes under the write lock, drops its view and
replies. The value of a key is abstracted to its version, the index of the
transaction that wrote it, so equal versions read mean equal outputs. A
subtraction below zero is a panic: the release profile has `overflow-checks`
(`Cargo.toml:514`). `SerialBlock` may panic only on a block that is not
`WellFormed` (nonces in order that match the state, no other kind of
transaction), so the refinement says that no other block
makes the manager panic. The `Abort` arms are not modelled: no transaction that is
scheduled can end that way. `Success` and `SkipRest` are treated alike by this
executor. `Blocks` assumes (`NativeFootprintsDisjoint`) that a native Aptos and
a native Ethereum transaction have disjoint footprints and different senders,
which is what separate state keys give. `InvalidSignature`
stands for every kind of transaction on which the manager panics (block metadata,
write sets).

**Aggregator.** `DeltaOp` with its history (`maxPositive`, `minNegative`),
`merge_onto` and `apply_to` are operators; the five natives, the end of the
user's session, the epilogue, the squash of the two change sets and the
materialization are actions. `eager` is a ghost: what checked integers would
give, for every value the storage may hold. `clash` is a ghost that records a key
handed out twice (see the findings); the exactness properties are stated for
the executions without one. The epilogue creates no aggregators, `Minus(0)` is
never produced, the limit of a key does not change, and the failure epilogue,
which starts again without the user's changes, is not modelled.

**Scheduler.** One action per access to an atomic, a mutex or a condition
variable; a thread's program counter names the access it makes next. What a
thread does with a task is open: it may succeed, fail validation, or meet any
dependency. Abstractions: `decrease_cnt` only grows and is only compared with
an earlier load of itself, so it is the set `current` of threads whose load is
still good; a condition variable is named by the thread that waits on it; a
dependency list is a set, taken in any order; the loads that decide against
`check_done` end it; the drop of a task guard is a step of its own.

**BlockSTM.** Adds to each task the reads, writes, deltas, deletions and
estimates, one key at a time; a program is a function from the values read to the
next step, so read and write sets depend on what was read. `SerialExecution` is
`execute_transactions_sequential`. The two stores of `record` are one step, and
the writes of an incarnation come in any key order, before its deltas. Errors
are values. The passing run has no block in which a delta of a skipped
transaction fails; `block_stm_skip` is about that one.

**ModuleRace.** `TxnLastInputOutput::record`: the load of the flag, each entry
into a shared set, each look into the other set, and the store, separately.

**EvmExecution.** Any contract may perform any operation that reaches the state,
at any time. `EvmState` has the account cache and the stack of checkpoints with
the entries each saved. `WorldStack` keeps a full copy of the world per frame.
Left out: read caches (copies of a database that does not change meanwhile),
clean/dirty marks, the `None` checkpoint entries, gas (a constant cost, a
refund of up to a quarter), transactions that end as `NotExecuted` (they change
nothing), `total_issued_tokens` (nothing changes it). A constructor may return
without code (`Return`). Of the internal contracts only the cross-space one
changes the state (`CallMove`); its other functions take no value and change
nothing (`InternalQuery`), and a `CALLCODE` or `DELEGATECALL` to it opens a
frame that can only fail. `Builtin` is the set of addresses whose first nibble
is 0: `fresh_storage` excepts them, and since `contract_address` sets no type
bits a created contract may have one; in `evm` the created contract does, in
`evm_recreate` it does not.

**SafetyRules.** One action per request of `TSafetyRules`, with the cached
and the stored safety data apart. A write may fail before or after it took
effect, a validator may stop at any time and restart with what is stored, and
`initialize` may stop between its writes. Its three arms are modelled: an epoch
that starts, the current one, and `WaypointOutOfDate`, when the proof ends in an
epoch before the stored one, which leaves the signer as it was. The last cannot
happen while the waypoint only moves on: `insert_waypoint` is an operator who
writes a waypoint, older or newer, into the storage of a stopped node, as
`testsuite/smoke-test/src/test_utils.rs` does. `ReconcileKey` finds the
consensus key or not, and the signer is dropped if it does not. Faulty
validators sign anything.
Certificates exist when a quorum has signed (`Certified`, `TimeoutCertsOf`), so
the network may lose, repeat, delay and reorder at will. `sign_proposal` and
`sign_commit_vote` store nothing. `verify_tc` does not compare the epoch of a
timeout certificate with that of the safety data; `TimeoutCerts` has the
certificates that reach it, whose epoch `SyncInfo::verify` has compared and
recovery has filtered. The storage's cache is
enabled, which is the default; without it `safety_data()` asks the storage for
a type that `set_safety_data` never writes, and every request fails. `Init` is
a storage that `PersistentSafetyStorage::initialize` has finished: one that
stopped before the waypoint was written has none, and fails every request. All epochs have one validator set. The round
does not come near `u64::MAX`.

## Runs

Times are with two workers; every run ends within five minutes.

| Run | Instance | Shows |
|---|---|---|
| `multi_worker` | all 256 well-formed blocks of 4 user transactions over 2 senders, and 5 calls with bad nonces, signatures or sequence numbers; 475,014 states | the workers implement `SerialBlock`; nothing runs beside a cross batch; every call returns one output each, with no view held; the outputs replay to the state; well-formed blocks end and lose no transaction |
| `output_order` (violation) | blocks of 2 | outputs come back in the order of the replies |
| `preset_order` (violation) | blocks of 3 | a native transaction may read before an earlier cross transaction has written |
| `aggregator` | 1 stored aggregator and new ones, limit 3, 5 calls | deltas are exactly checked integers, through squash and materialization |
| `aggregator_keys` (violation) | the same | a key is handed out twice after a destroy |
| `scheduler` | 3 threads, 2 transactions, 1 abort each; 763,914 states up to symmetry | assertions, `done` means over, no lost wakeup, one holder, the status diagram |
| `block_stm` | 2 threads, 9 blocks of 3 transactions; 342,291 states | the outcome is the sequential one, reads and recorded outputs are settled, assertions of the map, no stale estimate, termination |
| `block_stm_skip` (violation) | 2 threads, 2 transactions | a delta after `SkipRest` can make `resolve` panic |
| `module_race` | 3 threads, 2 modules, 4 records; 49,853 states up to symmetry | every race is found, and nothing else |
| `evm` | 1 transaction, 2 calls, depth 2; 46,879 states | checkpoints implement a copy of the world per frame; static frames only read; no value from nothing |
| `evm_recreate` (violation) | 2 transactions | a contract created again has the storage of its predecessor |
| `safety_rules` | 2 honest validators with power 2 and 1, a faulty one with 1, quorum 3; 3 rounds in epoch 1, 1 in epoch 2; 1 fault; 432,562 states | committed blocks are locked, one vote per round, the cache is what is stored, nobody signs in an epoch past the waypoint, a way out of every round, the storage never goes back and a new epoch starts afresh |

### Bounds and why they are enough

- *BlockSize 4*: three workers and a second transaction for one of them; a
  cross transaction between native ones of both kinds. The proofs cover every
  size.
- *MaxIncarnation 1* (scheduler): one abort of each transaction; the proofs
  cover every bound. In `BlockSTM` the bound 9 is never reached:
  incarnations end by themselves.
- *Scheduler, by hand*: three threads on three transactions with
  one abort (4,975,069 states) pass too, as do dependency chains on three
  transactions without aborts (249,707 states).
- *BlockSTM, by hand*: the safety invariants also pass on all 80 blocks of a
  leader, a follower and a reader (1,003,591 states up to symmetry), and on one
  block with three threads (4.0 million states).
- *Limit 3, five calls*: a delta goes over the limit, comes back, and is
  merged on another that did.
- *MaxDepth 2, MaxCalls 2*: a caller that fails after its callee succeeded or
  failed. `MaxTxns` 2 is used where two transactions matter.
- *MaxRound <<3, 1>>*: a two-chain with a competing block, and an epoch change.

### Fairness

`multi_worker` and `block_stm` use weak fairness of each thread
(`WF` of the manager and of each worker). They are operating system threads
that never give up: the manager polls, workers block in `recv`, Block-STM
workers block on a condition variable only in the `wait` step, which is enabled
once they were notified. Nothing is assumed of the order of threads or of a lock.

### Findings

- The multi-worker executor returns outputs in the order of replies, while
  `apply_chunk_output.rs` pairs them with the block by position
  (`output_order`), and it does not follow the preset order that
  `block-executor/src/lib.rs` describes (`preset_order`).
- `num_aggregators()` counts the aggregators in use, so the key of a destroyed
  aggregator's successor may be that of a living one (`aggregator_keys`).
- Deltas of transactions after `SkipRest` are applied when the deltas are
  resolved, and one that fails panics (`block_stm_skip`).
- `recycle_storage` leaves the slots of a killed contract in storage
  (`evm_recreate`).
- Not a run: comments at `scheduler.rs:61` and `:460` say `resume` increments the
  incarnation; the code keeps it (`:466`), as the diagram at `:74` draws it, and
  `StatusDiagram` is proved for that.

## Proofs

TLAPS checks every theorem for all values of the constants. What a theorem
rests on is named: the assumptions on constants in the module that declares
them, which TLC evaluates for the instances.

**Multi-worker executor** (`MultiWorkerTheorems`; assumes `StartsType`,
`NativeFootprintsDisjoint`). `Inv` follows a batch from the manager to a channel,
to a worker, into results and into `ret`. `WorkerHolds`, `OneBatch` and `Flags`
say that the manager's flags cover every batch that is out and that nothing is
out beside a cross batch; `Batches`, `Results` and `Unscanned` that a
transaction is in one place; `Snapshots` that what a running transaction has
read is unchanged, which needs the flags and the disjoint footprints. From it:
`TypeCorrect`, `SendIsSafe`, `ViewIsReleased`, `EachHasOneOutput`, and
`MultiWorkerIsSerial`, the refinement of `SerialBlock`: a transaction takes
effect in the step that applies its writes, and `Snapshots` makes the versions
it read those of that moment. That a panic is a panic of `SerialBlock` rests on
`ZeroIsTaken`: when the map knows a sender, a transaction of that sender with
nonce 0 has been taken or the map was seeded, so a second nonce 0 is out of
order.
`NoTransactionIsDiscarded` rests on a second invariant, `NonceInv` with
`InBlockOrder`: batches are in block order, the nonce map is ahead of a sender's
sequence number only by what is queued from that sender, and each queued nonce is
the expected one or follows that of an earlier queued transaction. The flags
and the disjoint senders put all that is queued from a sender with one worker,
so the first transaction in a worker's hands always has the expected nonce. Of
`WellFormed` the proof needs only that the nonce map agrees with the sequence
numbers at the start. `OutputsReplay` rests on a third, `ReplayInv`: no result
is lost on its way, and for each key the cache holds the write whose output comes
last, an order that no later reply can turn around because two workers with
results out at the same time write different keys.

**Aggregators** (`AggregatorTheorems`). `MergeComposes` and `MergeFails`: a merged
delta is the composition of the two, failures included, on every base value.
The inductive invariant says that each aggregator stands exactly for its eager
ghost (`AddExact`, `SubExact`, `ReadExact`) and each change set for the
operations since the session began (`SquashOK`). From it: `TypeCorrect`,
`DeltasAreExact`, `NoSpuriousFailure`, `SquashIsComposition`, `OutputExact`.

**Scheduler** (`SchedulerTheorems`; assumes a finite set of threads and a
number of transactions). `Inv` has, beside the types: `InHand` and `ThreadKnows`,
what a thread's program counter promises about its transaction's status;
`GuardsCounted`, `num_active_tasks` is the number of guarded threads;
`CondvarsWaited` and `Notified`, a condition variable in a status belongs to a
thread that waits in that transaction, and one that was notified is awaited by
nobody else; `OneHolder`; `Lists`, `WillBeResumed` and `ReadyIsDue`, every
suspended transaction is on a list that will be taken, and every ready one is
ahead of the execution index or about to be brought back; and `CheckDone`, what
the four loads of `check_done` have established so far. The argument for `Done`:
when `num_active_tasks` is read as 0 nobody is guarded, so nobody is about to
lower an index that was seen past the end without `decrease_cnt` telling;
so both indices are past the end, every ready transaction would be due, and
none is; `AllOver` is stable. From it: `TypeCorrect`, `Asserted`, `Done`,
`Woken`, `OneAtATime`, and the action property `Diagram`.

**Module races** (`ModuleRaceTheorems`). `RacesAreFound`, the flags principle for any
number of threads, modules and executions, from an invariant on what a thread
that has entered its path still has to look at; `AlarmsAreReal`; `TypeCorrect`.

**Safety rules** (`SafetyRulesTheorems`; assumes `QuorumAssumption`, two
quorums share an honest validator, and `BoundsAssumption`). `Inv` adds to the
invariants of the run: `VotesOK`, each vote was justified by certificates that
exist; `OneSigned`, votes sent and stored are one per round; `TimeoutsOK` and
`TimeoutsLocked`, a timeout carries a certificate no older than any its signer
had voted on; `CanLeave`. Each step is shown to be of one of five kinds (quiet,
repeats, votes, times out, enters an epoch), and each kind to preserve each
conjunct. `Locked`: take the least round at or above a committed block in which a
certified block leaves it behind; a quorum voted for it, a quorum voted for the
committing child, and the honest validator in both had the lock, directly or
through the timeout certificate. From it: `Agrees`, two committed blocks of an
epoch are on one chain. `Covered` is proved on top of `Inv`: the stored epoch
changes only to the waypoint's (`EpochSource`), and a signer that is there after
a step was there before, with a waypoint no newer, or has just been initialized
in the waypoint's epoch (`StepKeeps`). Further: `TypeCorrect`, `VotesOnce`,
`Coherent`, `WayOut`, and the action property `MovesForward`.

The inductive invariants of the multi-worker executor (all three), the
scheduler and the safety rules were also checked by TLC on the instances of their runs.

### Only model-checked

- `Termination` of both executors: liveness under fairness is out of the
  prover's reach.
- `BlockSTM`: `OutcomeIsSequential` compares with a recursive function over
  programs of any length, an induction over data; its other invariants are steps
  towards it.
- `EvmExecution`: `NoValueFromNothing` is about sums over all accounts;
  `WorldPerFrame` compares stacks entry by entry through a recursion over
  checkpoints.

## Not modelled

The decoupled execution pipeline of consensus, its block store, round manager
and network; mempool; state sync; the storage and its authenticated trees; the
Move VM, its gas and the framework; the EVM interpreter's arithmetic and
precompiles; API, SDKs and tools. `PROJECT.json` gives the reason for each. Of
the parts that are modelled: the Move session's side of cross calls, gas, and
what a panicking worker thread leaves behind.
