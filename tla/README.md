# TLA+ models of the X Layer sequencer finalizer

This directory holds TLA+ models of the concurrent core of the sequencer in
`src/sequencer/finalizer.go`. It also records the plan for the other parts of
`src/`. Every module is written from the Go source. Where the code lives
outside `src/` (the worker, the pool, the executor, `l2block.go`,
`batch.go`), the module follows `spec.md`. `PROJECT.json` marks those
definitions `spec_modelled`.

## The system

| Part | Source | State | Operations | Interacts with |
|---|---|---|---|---|
| Finalize loop | `finalizer.go` `finalizeBatches` 394-509 | WIP batch (remaining resources, high reserved zk delta, tx count, `imStateRoot`), WIP L2 block | L2-block timer, `GetBestFittingTx`, node-OOC purge, `processTransaction`, reprocess loop, `checkIfFinalizeBatch`, batch close | worker, pool, executor, L2-block pipeline |
| Tx processing | `processTransaction` 512-665, `handleProcessTransactionResponse` 668-793, `compareTxEffectiveGasPrice` 798-837, `updateWorkerAfterSuccessfulProcessing` 839-887, `handleProcessTransactionError` 890-952 | tx `EffectiveGasPrice`, `IsLastExecution` | first EGP pass, executor call, ROM-error classification, second EGP pass, resource check | worker (delete, not-ready, store, counters), pool (status, partly in goroutines) |
| L2-block pipeline | `l2block.go` (not in `src/`), channels created at 133-137 | two bounded channels | process a block (new flush id), store a block once its flush id is stored | executor, state DB |
| Flush-id tracker | `updateProverIdAndFlushId` 191-226, `updateFlushIDs` 230-242 | `lastPendingFlushID`, `storedFlushID`, two `sync.Cond` | wait on `pendingFlushIDCond`, poll `GetStoredFlushID`, publish under `storedFlushIDCond` | process stage (writer), store stage (waiter) |
| Halt | `Halt` 977-992 | `haltFinalizer` | sleep then `os.Exit(1)` | all goroutines die |
| L1 info tree watcher | 244-391 | `lastL1InfoTree`, `lastL1InfoTreeCond` | poll L1, validate the root | finalize loop (waits on the cond at start) |
| Dynamic gas price | `src/jsonrpc/dynamic_gas_price_xlayer.go` | `lastL2BatchNumber`, `lastPrice`, `e.cfg.DynamicGP` | timer loop (config reload), `calcDynamicGP` | state, pool, apollo config, L2 gas price suggester |
| Apollo json-rpc config | `src/config/apollo/jsonrpc.go` | `getApolloConfig()` (outside `src/`) | `loadJsonRPC` at startup, `fireJsonRPC` on a change | the dynamic gas price tick reloads it |
| L2 gas price suggester | `src/gasprice/gaspricesuggester.go` | the pool's L2 gas price and price history | update tick (`UpdateGasPriceAvg`), clean tick | the dynamic gas price averages with the pool's price |
| Inner-tx RPC | `src/jsonrpc/endpoints_eth_xlayer.go` | per request: the fetched txs, a WaitGroup, a buffered channel (and a cache in the pool) | trace flattening (`dfs`), per-block lookup, paged lookup fanned out to goroutines | debug endpoints, state db |
| EigenDA storage | `dataavailability/eigenda/storage.go` | a map under an RWMutex | `Get`, `Add`, `Update` | nothing in `src/` calls it |

Several things make this code hard to test:

- Goroutines meet on condition variables, and one `Broadcast` is issued
  without the lock.
- Durability is tracked by two cursors that are written by two goroutines.
- The zk-counter check carries a value across the txs of a batch.
- Effective gas price (EGP) can send a tx round again.
- Every executor error path leaves the worker and the pool in a different
  state.

## Modules

| Module | Models | Mapped definitions |
|---|---|---|
| `BlockStream` | the abstract promise of the pipeline. Blocks are closed, made durable by the executor, and persisted once, in order, only when durable | abstract specification |
| `L2BlockPipeline` | the finalize loop's block send, the process stage, the store stage, the executor's flush, and the tracker goroutine step by step (`lock`, `wait`, `waiting`, `loop`, `poll`, `apply`), and executor restarts (a new proverID) with `checkIfProverRestarted`. `updateFlushIDs` wakes the tracker only if it is already in `Wait`, because the Broadcast is sent without the lock | refines `BlockStream` |
| `Finalizer` | the finalize loop as a program counter (`top`, `select`, `process`, `check`, `halted`, `done`), with one action per outcome of `processTransaction` and `handleProcessTransactionResponse`, and the pool goroutines as a set of pending updates | |
| `DynamicGasPrice` | `runDynamicGPSuggester`'s timer tick (apollo config reload, enabled test) and `calcDynamicGP`: the sample window from the cached batch number down, `getL2BatchTxsTips`, the percentile, the `MinPrice`/`MaxPrice` clamps and `getAvgPrice`. The sequencer sealing batches is `sealBatch`. Composed with it: apollo's `fireJsonRPC`, which replaces the config the tick reloads, and the update tick of the L2 gas price suggester loop (`updateGasPriceAvg`), which sets the pool price `calcDynamicGP` averages with. `isCongested` compares the pool's ready txs with `CongestionTxThreshold` | |
| `InnerTxs` | `internalTxTraceToInnerTxs` and the recursive `dfs` as RECURSIVE operators (the `for` loop over calls is `dfsCalls`), threading the shared `indexMap` and the inherited error flag; a trace is chosen in `Init` and flattened by `GetInternalTransactions`. A reference pre-order walk over trace addresses (`CallPaths`, `FrameAt`, `PreOrderLess`) is what the result is checked against | |
| `BlockInnerTxs` | `GetBlockInternalTransactions` and `GetBlockInternalTransactionsByIndexAndLimit` as one request with a program counter (`count`, `fetch`, `wait`, `inner`, `done`). `countTxs` is the limit check and `GetL2BlockTransactionCountByHash` with the page bounds, `fetchTx` one `GetTransactionByL2BlockHashAndIndex`, `fetchDone` the `wg.Add`, `make(chan pair, len)` and goroutine launch (or the start of the map loop), `goroutine(t)` one goroutine's call, send and `wg.Done`, `collect` the `wg.Wait`, close and drain, `lookupKey`/`lookupDone` the sequential loop of the other endpoint. A tx is its position; the per-tx `GetInternalTransactions` yields the tx itself or `NilResult`. `deleteBlock` is an L2 reorg removing the block from the state db | |
| `L1InfoTreeWatcher` | `checkL1InfoTreeUpdate`: `watcherStart` (the zero-interval shortcut), `watcherAdopt` (a new candidate, first or higher, index 0 or valid, published with `broadcastL1InfoTreeValid`), `watcherInvalid` (the watcher returns). `MaxBlockNumber` is the guarded confirmation back-off, `LatestRoot` is `GetLatestL1InfoRoot`, and `checkValidL1InfoRoot` is the block-hash check. Ethereum (`l1NewBlock`, `l1Reorg`) and the finalize loop's wait and L2-block opening (`finalizerStart`, `openWIPL2Block`) follow spec.md 4.5 and S6 | |
| `MCL2BlockPipeline`, `MCFinalizer`, `MCDynamicGasPrice`, `MCInnerTxs`, `MCL1InfoTreeWatcher` | instances for TLC (`BlockInnerTxs` has only numeric constants and is checked directly) | |

### How the Finalizer model corresponds to the code

- `selectTx` is lines 410-435. Node-OOC txs are purged only when the batch is
  empty (`isBatchEmpty`). There are three outcomes:
  - no tx, which means a wait that times out;
  - `ErrNoFittingTransaction`, which closes the batch;
  - a tx to process.
- `FirstPass` is lines 543-582. The calculation may fail for txs in
  `EgpCalcFails`, because it depends on the L1/L2 price snapshot. At or above
  the gas price, the price is pinned and `IsLastExecution` is set.
- The executor outcomes are separate actions:
  - `processTxRetryable`: DB, min-timestamp, or ROM-level error without
    responses. The tx stays in the worker.
  - `processTxHalt`: no error and no responses.
  - `processTxExecutorError`: the tx is deleted and set invalid.
  - `processTxResponse`.
- `processTxResponse` covers:
  - the ROM error classification (`handleProcessTransactionError`);
  - a second EGP pass that can fail (`EgpSecondPassFails`);
  - the deviation comparison (`compareTxEffectiveGasPrice`), which reprocesses
    the tx with `firstTxProcess = FALSE`;
  - `addTxToBatch`: the resource check, the inclusion, `updateWorkerAfterSuccessfulProcessing`
    and the `imStateRoot` update, split into its three outcomes
    `AcceptTx`, `RejectNodeOOC` and `KeepForLaterBatch`.
- `egpEnabled` is chosen at start and never changes. With EGP disabled, a
  failed first or second pass is only logged, and a reprocess request is
  ignored: the tx goes on to the resource check. `ChargedPrice` is the gas
  price then, since the code sends percentage 255 (lines 597-603).
  `EffectiveGasPriceBounded` is stated over `ChargedPrice`.
- The ROM result of an execution is chosen from `Rom[t]`, because it depends
  on the state the tx runs against.
- Pool updates issued from goroutines (lines 903-945) go to `poolUpdates`.
  `poolUpdateDone` completes them in any order, but not after a halt.
- Every `UpdateTxStatus` call may fail for the txs of `PoolWriteFails`
  (`UpdateTxStatus` in the module): the finalizer only logs the error
  (lines 426, 635, 757, 881, 906, 927, 942), the tx keeps its pool status,
  and `lostWrites` records it. This covers the synchronous calls (node-OOC
  purge, executor error, node OOC after execution, the cascade after a
  successful tx) and the goroutines of `handleProcessTransactionError`.
- Data is abstracted:
  - zk counters are one axis plus bytes;
  - a state root is the sequence of txs whose transitions it contains;
  - gas prices are small integers.

## Runs

| Run | Cfg | Expect | What it shows |
|---|---|---|---|
| `pipeline_refinement` | `MCL2BlockPipeline.cfg` | pass | `TypeOK`, `FlushCursorsBehindExecutor`, and the refinement `AbsSpec` of `BlockStream`. Blocks are persisted once, in order, and only when durable. The finalizer never believes more is durable than the executor flushed. Under `FairSpec`, `BlocksStoredUnlessTrackerParked` says every closed block is eventually persisted, despite full channels, failed polls and a restart, unless the tracker ends parked in `Wait` with a flush id pending. So the lost wakeup of `pipeline_lost_wakeup` is the pipeline's only stall |
| `pipeline_lost_wakeup` | `MCL2BlockPipeline_liveness.cfg` | violation | `PendingFlushEventuallyStored` fails. The tracker checks "synced", then blocks are processed and their Broadcasts are lost before it calls `Wait`, so the store stage waits forever |
| `pipeline_prover_restart` | `MCL2BlockPipeline_restart.cfg` | violation | `NoStoreAfterProverChange` fails. The executor restarts, the tracker polls the new proverID, and the store stage still persists a block. `checkIfProverRestarted` fatals only if `f.proverID != ""`, but `f.proverID` is `""` from `newFinalizer` (line 141) on and never assigned, while spec.md 4.4 and S5 require a halt |
| `pipeline_stored_regress` | `MCL2BlockPipeline_monotonic.cfg` | violation | `StoredFlushIDMonotonic` fails. A stale polled value overwrites the value `updateFlushIDs` wrote |
| `finalizer_safety` | `MCFinalizer.cfg` | pass | `BatchReserveHeadroom`: every batch's used counters plus its largest reserved delta fit the batch, and the remaining resources are exact. `TypeOK` bounds the remaining resources to `0..BatchMax`, which a `Fits` that skipped the bytes would break. `EffectiveGasPriceBounded`: the price charged is at most the gas price, with EGP enabled or disabled. `NoTxDropped`: a tx leaves the worker only with a final answer (included, invalid or failed in the pool or on its way there, or not-ready), or after a pool write for it failed. So a failed `UpdateTxStatus` is the only way a tx ends up pending in the pool and out of the worker, where nothing in the finalizer reconsiders it before a restart. `EveryTxResolvedOnceEgpSucceeds`: in every behaviour where `CalculateEffectiveGasPrice` fails only finitely often, every tx leaves the worker; executor failures alone never keep it there |
| `finalizer_egp_retry` | `MCFinalizer_egp_retry.cfg` | violation | `EveryTxResolved` fails. A tx whose EGP calculation fails is logged and retried forever (line 460), while spec.md 4.1 says it is marked failed |
| `inner_txs_walk` | `MCInnerTxs.cfg` | pass | On every trace up to depth 2 with up to 2 calls per frame (28564 traces), `InnerTxsArePreOrderWalk`: dfs returns one InnerTx per frame reachable through call-type frames, in pre-order, named `type_i1_i2...` by its trace address, with its depth and sibling index. `ErrorInheritedFromAncestors`: a record is an error exactly when its frame or an ancestor failed |
| `l1info_watcher` | `MCL1InfoTreeWatcher.cfg` | pass | `PinnedIndexMonotonic`: the L1 info tree index the finalize loop pins never decreases, even after a reorg shortens L1 below the published root. `PublishedRootConfirmed`: every published root lay `Confirmations` blocks below the head the watcher read, also while the chain is shorter than the confirmations. `FollowsL1WhileWatcherRuns`: while the watcher has not returned, the loop starts and, reorgs included, ends up pinning a root at least as recent as the latest confirmed one (exactly that root in runs without reorgs). So the watcher's return on one failed check (line 376) is the only way the pinned index stops following L1. `StartsUnlessWatcherStopsFirst`: with reorgs, once a confirmed root exists for good the loop starts, unless the watcher stopped before its first publication. That exception is reachable: a reorg of blocks 1-4 before the first check makes the first candidate invalid, the watcher returns (line 378) and the loop waits on `lastL1InfoTreeCond` forever |
| `dgp_safety` | `MCDynamicGasPrice.cfg` | pass | Under apollo config changes, `CongestedPriceIsClampedPercentile`: a congested update caches the percentile of its sample (checked against a sort-free reference definition) moved into the bounds. `CacheCatchesUp`: in every behaviour where the reloaded config enables the suggester infinitely often, the cached batch number reaches every sealed batch; apollo may also switch the suggester off for good, and then nothing is promised. `ConfigAppliedWithNextBatch`: while apollo holds an enabled config and a batch has been sealed since the cached one, the cache is eventually computed under that config; a config change alone, with no new batch, never refreshes the price (line 102) |
| `inner_txs_block` | `BlockInnerTxs.cfg` | pass | For both endpoints, every `index` 0..3 and `limit` 0..3 (3 is above the scaled `maxLimitSize` of 2) against blocks of 0..3 txs, failing state-db calls and lookups, and the block lost at any step: `AnswerMatchesBlock`, a map answer has exactly the asked txs (none if the block was gone before the count), each with its own result, nil only from the paged endpoint, and nil, nil is answered only for a lost block. `EveryRequestAnswered`: the fan-out always returns, because the channel buffers every goroutine's send before `wg.Wait` lets the handler drain it |
| `dgp_bounds` | `MCDynamicGasPrice_bounds.cfg` | violation | `DynamicPriceWithinBounds` fails. The price is clamped and then averaged with the raw L2 gas price (line 175), so it leaves the `[MinPrice, MaxPrice]` that the config comments (lines 37-41) call its limits |
| `dgp_window` | `MCDynamicGasPrice_window.cfg` | violation | `SampleFromRecentBatches` fails. The sample starts at the batch number cached by the previous update (line 110), not at the one just read: after batches 1 and 2 are sealed the first update samples nothing, and after batch 3 the next samples batches 2 and 1 and caches 3. The config comment (line 27) says the `CheckBatches` recent batches are sampled |

The pipeline runs:

- `CHECK_DEADLOCK FALSE` is set because the block bound ends every behaviour.
- Without it, TLC reports the lost-wakeup stall as a deadlock.

The Finalizer runs end in `Terminated`, when the loop has halted or the run's
batches are done.

### Bounds

- **Pipeline:** 5 blocks with channels of 2 and two executor restarts (2 blocks for the liveness and
  monotonic runs). Five blocks fill both channels while a block is in
  process, and give several flush ids in flight and a poll overtaken by
  `updateFlushIDs`. 46825 distinct states.
- **Finalizer:**
  - 3 txs, 2 of them from one sender, so cascades happen.
  - `t3`'s reserved counters are over the node limit, while its worker
    estimate fits.
  - `t1` and then `t2` fit one batch by zk counters (zk 6) but not by
    bytes (2), which gives the `UpdateTxZKCounters` branch and, after
    that, `ErrNoFittingTransaction`.
  - The pool writes of `t2` (ROM error, cascade) and `t3` (node OOC) may
    fail. 484313 distinct states, under 2 minutes.
  - Prices are 1..3 with gas prices of 2 and 3, so the first pass both pins
    and does not pin, and the second pass both exceeds and stays within the
    deviation.
  - 2 batches, at most 2 txs per batch, and 1 timer-closed L2 block per
    batch.
- **Dynamic gas price:** 4 batches with tips `<0,2,1>`, `<>`, `<3,3,6>` and
  `<0,0>`, so zero tips, empty batches and batches without positive tips all
  occur. Configs differ in window (1 or 2 batches), sample size (0, 2 or 3;
  0 still takes one tip, line 205),
  percentile (60, 100), floor and ceiling (including no ceiling), and one is
  disabled. The sample spans 1 to 6 values. Apollo can change the config at
  any step; the pool holds 0 or 2 ready txs, congested under one config and
  not under the other.
- **L1 info tree:** roots 0 to 3 at L1 blocks 1, 2, 4 and 5, one
  confirmation, an L1 head up to 6 and up to three reorgs (8601 distinct
  states). The latest confirmed root changes four times, a later reorg can hit a root
  published after an earlier one, a reorg can invalidate an unpublished
  root or shorten L1 below a published one, and the head starts below the
  confirmations.
- **Inner txs:** depth 2 and 2 calls per frame, over `call` and a type dfs
  skips, each frame failing or not. This covers siblings after a deep subtree
  (stale `indexMap` entries), skipped subtrees between siblings, and errors
  two levels up.
- **Block inner txs:** up to 4 txs in the block and a page limit of 3, so a
  page can be cut by the block's end, start past it, be empty, or be refused,
  and up to 3 goroutines race for the channel. 8153 distinct states.
- The largest pass run reaches about 373k (finalizer, with EGP
  enabled and disabled) distinct states, in under two minutes.

### Fairness

- Every goroutine that can run is eventually scheduled (WF).
- The tracker's `GetStoredFlushID` and the executor's response are SF.
  Executor errors are transient, so a call that keeps being retried
  eventually succeeds.
- The dynamic gas price timer fires every `UpdatePeriod` while the node runs
  (WF on the tick). Apollo changes, new L2 gas prices and sealed batches
  come from outside and are not fair.
- The L1 info tree watcher loops for the life of the process, and its RPC
  errors are retried on the next tick. The finalize loop opens L2 blocks
  regularly. All of these are WF.
- The block endpoints' handler and goroutines are WF: the Go scheduler runs
  every runnable goroutine. The block deletion is not fair: a reorg may or
  may not happen. `inner_txs_block` sets `CHECK_DEADLOCK FALSE` because a
  request ends.
- A failing EGP calculation is not transient: fairness covers "the executor
  answers, or the calculation fails before the call". That is why
  `finalizer_egp_retry` can starve a tx.

## Not modelled, and the plan

Further work, in order:

1. `DynamicGasPrice` is done, the sample window included (`dgp_window`),
   with apollo's change callback and the L2 gas price suggester's update
   tick composed into it. A cached price outliving an apollo change of
   `MinPrice`/`MaxPrice` is stated by `ConfigAppliedWithNextBatch`.
2. `InnerTxs` and `BlockInnerTxs` cover the flattening and both block
   endpoints. What remains is the inner-tx cache in the pool (a 300 ms read,
   an asynchronous write); a hit returns what a miss computes, so it changes
   no answer the properties tell apart. `types.Index` arguments above 2^63
   (negative after the int64 conversion, outside `src/`) are not modelled.
3. Executor restart is done as far as the code reacts to it: the proverID
   changes. What a restarted executor does to its flush ids is outside the
   repository and is not modelled.
4. `L1InfoTreeWatcher` is done. A reorg before the first publication ends
   the watcher without a broadcast and leaves the finalize loop waiting;
   `StartsUnlessWatcherStopsFirst` shows this is the only way it waits, and
   `FollowsL1WhileWatcherRuns` that, after it has started, the watcher's
   return is the only way the pinned index stops following L1. spec.md 4.5
   stops the watcher on a "persistent" mismatch, the code on the first one;
   both stop it, so no property claims a retry. Whether a later check would
   pass needs the state db's resync after a reorg, which is outside `src/`.
5. A composition of `Finalizer` with `L2BlockPipeline`, with a WIP L2 block
   sent per timer tick.

Left out:

- The mocks and the test file (generated code and tests).
- `loadJsonRPC` is modelled only as the startup value of `e.cfg.DynamicGP`
  (`InitConfig`). The other fields it and `UpdateConfig` store (batch
  requests, gas limit factor, disabled APIs, Nacos) feed handlers outside
  `src/`.
- The estimate-gas helpers of `endpoints_eth_xlayer.go`
  (`getGasEstimationWithFactorXLayer`, `enableEstimateGasOpt`,
  `enableEstimateGasUltraOpt`), `MinGasPrice`, `GetPendingStat` and
  `newPendingTransactionFilterXLayer`: each reads a config or forwards one
  call, with no state of its own, and their callers are outside `src/`.
- The pricers behind `UpdateGasPriceAvg` are outside `src/`: a new pool
  price is any of `RawPrices`. `cleanGasPriceHistory` deletes price history
  that no modelled code reads.
- The EigenDA map: a mock store with no protocol. Nothing in the
  repository constructs or calls it.
- Logging and metrics. With EGP disabled, the simulated gas price that only
  feeds the logged prices is taken to be the gas price.
