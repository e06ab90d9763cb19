------------------------------ MODULE Finalizer ------------------------------
(***************************************************************************)
(* The finalize loop and the transaction processor of the sequencer        *)
(* (src/sequencer/finalizer.go: finalizeBatches, processTransaction,       *)
(* handleProcessTransactionResponse, compareTxEffectiveGasPrice,           *)
(* updateWorkerAfterSuccessfulProcessing, handleProcessTransactionError,   *)
(* Halt).                                                                  *)
(*                                                                         *)
(* The worker, the pool, the executor and the batch/L2-block helpers that  *)
(* live outside src/ (GetBestFittingTx, getNeededZKCounters,               *)
(* finalizeWIPL2Block, finalizeWIPBatch, checkIfFinalizeBatch) are        *)
(* modelled from spec.md sections 4.1, 4.2, 4.7 and 6.                     *)
(*                                                                         *)
(* Data is abstracted: a state root is the sequence of txs whose state     *)
(* transitions it contains; zk counters are one counter axis plus bytes;   *)
(* gas prices are small integers. Effective gas price (EGP) may be        *)
(* enabled or disabled for the whole run. Disabled, the code computes the *)
(* prices against a simulated gas price for logging only, never returns   *)
(* their errors, and sends percentage 255 (the full gas price); the model *)
(* takes the simulated price to be the gas price.                         *)
(* Every pool UpdateTxStatus call may fail for the txs of PoolWriteFails; *)
(* the code logs the error and goes on.                                   *)
(***************************************************************************)
EXTENDS Integers, SequencesExt, Functions

CONSTANTS
  Txs,                  \* transactions in the worker at start (model values)
  Sender,               \* Sender[t]: the tx's from address
  GasPrice,             \* GasPrice[t]: the tx's gas price
  Used, Reserved,       \* zk counters the executor reports for the tx
  EstUsed, EstReserved, \* zk counters the worker holds before execution
  Size,                 \* len(tx.RawTx)
  Rom,                  \* ROM results an execution of the tx can return
  BatchMax,             \* [zk, bytes] node-level batch constraints
  MaxTxsPerBatch,       \* checkIfFinalizeBatch: countOfTxs limit
  MaxBatches,           \* bound: batches the run opens
  MaxL2BlocksPerBatch,  \* bound: L2 blocks closed by the timer per batch
  EgpValues,            \* results CalculateEffectiveGasPrice can return
  EgpCalcFails,         \* txs whose first CalculateEffectiveGasPrice may error
  EgpSecondPassFails,   \* txs whose second CalculateEffectiveGasPrice may error
  FinalDeviation,       \* effectiveGasPrice.GetFinalDeviation() (percent)
  ExecFailures,         \* executor outcomes other than a tx response
  PoolWriteFails        \* txs whose pool UpdateTxStatus call may return an error

RomResults == {"none", "oog", "ooc", "nonce", "balance", "intrinsic"}
ExecOutcomes == {"dbError", "executorError", "noResponses", "romLevelNoResponses"}

ASSUME
  /\ \A t \in Txs : Rom[t] \subseteq RomResults /\ Rom[t] # {}
  /\ ExecFailures \subseteq ExecOutcomes
  /\ EgpValues \subseteq Nat \ {0}
  /\ EgpCalcFails \subseteq Txs
  /\ EgpSecondPassFails \subseteq Txs
  /\ PoolWriteFails \subseteq Txs

VARIABLES
  worker,            \* txs ready in the worker
  notReady,          \* txs moved to not-ready (MoveTxToNotReady)
  est,               \* est[t]: [used, reserved] the worker holds for t
  poolStatus,        \* pool status of every tx
  poolUpdates,       \* UpdateTxStatus calls still running in goroutines
  lostWrites,        \* txs whose UpdateTxStatus returned an error (logged only)
  wipBatch,          \* the WIP batch
  wipTxs,            \* txs of the WIP batch, in acceptance order
  closedBatches,     \* txs of every closed batch
  imStateRoot,       \* wipBatch.imStateRoot: the txs whose transitions it holds
  effectiveGasPrice, \* tx.EffectiveGasPrice
  isLastExecution,   \* tx.IsLastExecution
  pc,                \* where finalizeBatches is
  curTx,             \* the tx being processed
  firstTxProcess,    \* firstTxProcess flag of the reprocess loop
  egpEnabled         \* f.effectiveGasPrice.IsEnabled()

workerVars == <<worker, notReady, est>>
poolVars   == <<poolStatus, poolUpdates, lostWrites>>
batchVars  == <<wipBatch, wipTxs, closedBatches, imStateRoot>>
txVars     == <<effectiveGasPrice, isLastExecution, egpEnabled>>
loopVars   == <<pc, curTx, firstTxProcess>>
vars == <<workerVars, poolVars, batchVars, txVars, loopVars>>

NoTx == "none"
PoolStatuses == {"pending", "invalid", "failed"}
Pcs == {"top", "select", "process", "check", "halted", "done"}

-----------------------------------------------------------------------------
(* Batch resources and zk-counter arithmetic                               *)

Max2(a, b) == IF a >= b THEN a ELSE b

\* getNeededZKCounters: needed = used + max(high, reserved - used) and the
\* new high reserved delta; a reserved count below used keeps high.
\* Mutant: needed counters that ignore the high reserved delta carried
\* from earlier txs of the batch.
NeededZKNoHigh(high, used, reserved) == Max2(used, reserved)

NeededZK(high, used, reserved) ==
  IF reserved < used THEN used + high ELSE used + Max2(high, reserved - used)
NewHighZK(high, used, reserved) ==
  IF reserved < used THEN high ELSE Max2(high, reserved - used)

\* Mutant: only the zk counters are compared, the bytes are not.
FitsZkOnly(remaining, zk, bytes) == zk <= remaining.zk

\* BatchResources.Fits
Fits(remaining, zk, bytes) == zk <= remaining.zk /\ bytes <= remaining.bytes

\* batchConstraints.CheckNodeLevelOOC: reserved counters over the node limit
NodeLevelOOC(reserved) == reserved > BatchMax.zk

NewBatch(number) ==
  [number |-> number, remaining |-> BatchMax, high |-> 0, countOfTxs |-> 0,
   countOfL2Blocks |-> 0, wipL2BlockTxs |-> 0]

IsBatchEmpty == wipBatch.countOfL2Blocks = 0 /\ wipBatch.wipL2BlockTxs = 0

\* executor.IsStateRootChanged: a tx that ran (even out of gas) is included
StateRootChanged(r) == r \in {"none", "oog"}

SameSenderTxs(t) == {u \in worker : Sender[u] = Sender[t] /\ u # t}

\* poolIntf.UpdateTxStatus(ctx, hash, status, ...) for each tx of ts, each
\* call in the caller's goroutine: a call may return an error, which the
\* caller logs and ignores; that tx keeps its pool status.
UpdateTxStatus(ts, status) ==
  \E lost \in SUBSET (ts \cap PoolWriteFails) :
    /\ poolStatus' = [u \in Txs |-> IF u \in ts \ lost THEN status ELSE poolStatus[u]]
    /\ lostWrites' = lostWrites \cup lost

-----------------------------------------------------------------------------
TypeOK ==
  /\ worker \subseteq Txs
  /\ notReady \subseteq Txs
  /\ est \in [Txs -> [used : Nat, reserved : Nat]]
  /\ poolStatus \in [Txs -> PoolStatuses]
  /\ poolUpdates \subseteq [tx : Txs, status : {"invalid", "failed"}]
  /\ lostWrites \subseteq PoolWriteFails
  /\ wipBatch \in [number : 1..MaxBatches + 1,
                   remaining : [zk : 0..BatchMax.zk, bytes : 0..BatchMax.bytes],
                   high : Nat, countOfTxs : Nat, countOfL2Blocks : Nat,
                   wipL2BlockTxs : Nat]
  /\ wipTxs \in Seq(Txs)
  /\ closedBatches \in Seq(Seq(Txs))
  /\ imStateRoot \in Seq(Txs)
  /\ effectiveGasPrice \in [Txs -> Nat]
  /\ isLastExecution \in [Txs -> BOOLEAN]
  /\ pc \in Pcs
  /\ curTx \in Txs \cup {NoTx}
  /\ firstTxProcess \in BOOLEAN
  /\ egpEnabled \in BOOLEAN

Init ==
  /\ worker = Txs
  /\ notReady = {}
  /\ est = [t \in Txs |-> [used |-> EstUsed[t], reserved |-> EstReserved[t]]]
  /\ poolStatus = [t \in Txs |-> "pending"]
  /\ poolUpdates = {}
  /\ lostWrites = {}
  /\ wipBatch = NewBatch(1)
  /\ wipTxs = <<>>
  /\ closedBatches = <<>>
  /\ imStateRoot = <<>>
  /\ effectiveGasPrice = [t \in Txs |-> 0]
  /\ isLastExecution = [t \in Txs |-> FALSE]
  /\ pc = "top"
  /\ curTx = NoTx
  /\ firstTxProcess = TRUE
  /\ egpEnabled \in BOOLEAN

-----------------------------------------------------------------------------
(* finalizeWIPBatch: close the WIP batch and open the next one; the run    *)
(* ends when the last batch of the bound is closed.                        *)
finalizeWIPBatch(nextPc) ==
  /\ closedBatches' = Append(closedBatches, wipTxs)
  /\ wipTxs' = <<>>
  /\ wipBatch' = NewBatch(wipBatch.number + 1)
  /\ pc' = IF wipBatch.number < MaxBatches THEN nextPc ELSE "done"

\* Top of the loop: finalize the WIP L2 block when L2BlockMaxDeltaTimestamp
\* has elapsed (a timer the model leaves open).
l2BlockTimer ==
  /\ pc = "top"
  /\ \/ /\ wipBatch.countOfL2Blocks < MaxL2BlocksPerBatch
        /\ wipBatch' = [wipBatch EXCEPT !.countOfL2Blocks = @ + 1, !.wipL2BlockTxs = 0]
     \/ UNCHANGED wipBatch
  /\ pc' = "select"
  /\ UNCHANGED <<workerVars, poolVars, wipTxs, closedBatches, imStateRoot,
                 txVars, curTx, firstTxProcess>>

-----------------------------------------------------------------------------
(* GetBestFittingTx and the selection part of one loop iteration           *)

\* The needed counters of t by the worker's figures fit the WIP batch.
WorkerFits(t) ==
  Fits(wipBatch.remaining, NeededZK(wipBatch.high, est[t].used, est[t].reserved), Size[t])

\* t fits in an empty batch by the worker's figures.
FitsEmptyBatch(t) ==
  Fits(BatchMax, NeededZK(0, est[t].used, est[t].reserved), Size[t])

\* Mutant: ErrNoFittingTransaction is not handled; the loop goes on to the
\* batch check without closing the batch.
selectTxNoClose ==
  LET oocTxs  == IF IsBatchEmpty THEN {t \in worker : ~FitsEmptyBatch(t)} ELSE {}
      ready   == worker \ oocTxs
      fitting == {t \in ready : WorkerFits(t)}
  IN
  /\ pc = "select"
  /\ worker' = ready
  /\ UpdateTxStatus(oocTxs, "invalid")
  /\ \/ /\ fitting = {}
        /\ pc' = "check"
        /\ UNCHANGED <<batchVars, curTx, firstTxProcess>>
     \/ \E t \in fitting :
          /\ pc' = "process"
          /\ curTx' = t
          /\ firstTxProcess' = TRUE
          /\ UNCHANGED batchVars
  /\ UNCHANGED <<notReady, est, poolUpdates, txVars>>

\* GetBestFittingTx returns the node-OOC txs (which never fit an empty
\* batch); the loop deletes them from the worker and sets them invalid in
\* the pool. Then: no tx at all -> wait on workerReadyTxsCond; txs but none
\* fits -> ErrNoFittingTransaction closes the batch; else process a tx.
selectTx ==
  LET oocTxs  == IF IsBatchEmpty THEN {t \in worker : ~FitsEmptyBatch(t)} ELSE {}
      ready   == worker \ oocTxs
      fitting == {t \in ready : WorkerFits(t)}
  IN
  /\ pc = "select"
  /\ worker' = ready
  /\ UpdateTxStatus(oocTxs, "invalid")
  /\ \/ /\ ready = {}
        /\ pc' = "check"
        /\ UNCHANGED <<batchVars, curTx, firstTxProcess>>
     \/ /\ ready # {}
        /\ fitting = {}
        /\ finalizeWIPBatch("top")
        /\ UNCHANGED <<imStateRoot, curTx, firstTxProcess>>
     \/ \E t \in fitting :
          /\ pc' = "process"
          /\ curTx' = t
          /\ firstTxProcess' = TRUE
          /\ UNCHANGED batchVars
  /\ UNCHANGED <<notReady, est, poolUpdates, txVars>>

-----------------------------------------------------------------------------
(* processTransaction                                                      *)

\* First pass of the effective gas price (lines 543-582), as the set of
\* [egp, last, err] outcomes: on the first processing the price is
\* computed from a fresh L1/L2 gas-price snapshot, which for a tx of
\* EgpCalcFails may make the calculation fail; at or above the gas price it
\* is pinned to the gas price and the execution is marked the last one.
\* With EGP disabled a failure is logged and the tx goes on (err FALSE).
FirstPass(t) ==
  IF ~firstTxProcess
    THEN {[egp |-> effectiveGasPrice[t], last |-> isLastExecution[t], err |-> FALSE]}
    ELSE {[egp  |-> IF e >= GasPrice[t] THEN GasPrice[t] ELSE e,
           last |-> e >= GasPrice[t] \/ isLastExecution[t],
           err  |-> FALSE] : e \in EgpValues}
         \cup (IF t \in EgpCalcFails
                 THEN {[egp |-> effectiveGasPrice[t], last |-> isLastExecution[t],
                        err |-> egpEnabled]}
                 ELSE {})

SetTxEgp(t, r) ==
  /\ effectiveGasPrice' = [effectiveGasPrice EXCEPT ![t] = r.egp]
  /\ isLastExecution' = [isLastExecution EXCEPT ![t] = r.last]
  /\ UNCHANGED egpEnabled

\* CalculateEffectiveGasPrice fails (EGP enabled): return the error; the
\* loop logs it and breaks, the tx stays in the worker.
processTxEgpError ==
  /\ pc = "process"
  /\ \E r \in FirstPass(curTx) : r.err
  /\ pc' = "check"
  /\ UNCHANGED <<workerVars, poolVars, batchVars, txVars, curTx, firstTxProcess>>

\* ProcessBatchV2 returns ErrExecutorDBError or
\* ErrInvalidTxChangeL2BlockMinTimestamp: return, the tx stays in the worker;
\* or a ROM-level error without block responses (line 663): the same.
processTxRetryable ==
  /\ pc = "process"
  /\ ExecFailures \cap {"dbError", "romLevelNoResponses"} # {}
  /\ \E r \in FirstPass(curTx) : ~r.err /\ SetTxEgp(curTx, r)
  /\ pc' = "check"
  /\ UNCHANGED <<workerVars, poolVars, batchVars, curTx, firstTxProcess>>

\* No error, no ROM-level error and no block responses: Halt(ctx, err, false)
\* sets haltFinalizer, sleeps and exits the process.
processTxHalt ==
  /\ pc = "process"
  /\ "noResponses" \in ExecFailures
  /\ \E r \in FirstPass(curTx) : ~r.err /\ SetTxEgp(curTx, r)
  /\ pc' = "halted"
  /\ UNCHANGED <<workerVars, poolVars, batchVars, curTx, firstTxProcess>>

\* Any other executor error: delete the tx from the worker, set it invalid.
processTxExecutorError ==
  /\ pc = "process"
  /\ "executorError" \in ExecFailures
  /\ \E r \in FirstPass(curTx) : ~r.err /\ SetTxEgp(curTx, r)
  /\ worker' = worker \ {curTx}
  /\ UpdateTxStatus({curTx}, "invalid")
  /\ pc' = "check"
  /\ UNCHANGED <<notReady, est, poolUpdates, batchVars, curTx, firstTxProcess>>

-----------------------------------------------------------------------------
(* handleProcessTransactionResponse and its helpers                        *)

\* compareTxEffectiveGasPrice: beyond the allowed deviation from the first
\* price the tx is reprocessed with the price pinned to the new value, or
\* to the gas price when the new value is not below it or the tx read the
\* gas price or a balance.
\* Mutant: the new price is taken even when it is above the gas price.
compareTxEgpNoCap(egp, newEgp, txGasPrice, hasOpcode) ==
  LET diff         == IF egp >= newEgp THEN egp - newEgp ELSE newEgp - egp
      maxDeviation == (egp * FinalDeviation) \div 100
  IN IF diff > maxDeviation
       THEN [egp |-> IF ~hasOpcode THEN newEgp ELSE txGasPrice, reprocess |-> TRUE]
       ELSE [egp |-> egp, reprocess |-> FALSE]

compareTxEffectiveGasPrice(egp, newEgp, txGasPrice, hasOpcode) ==
  LET diff         == IF egp >= newEgp THEN egp - newEgp ELSE newEgp - egp
      maxDeviation == (egp * FinalDeviation) \div 100
  IN IF diff > maxDeviation
       THEN [egp |-> IF newEgp < txGasPrice /\ ~hasOpcode THEN newEgp ELSE txGasPrice,
             reprocess |-> TRUE]
       ELSE [egp |-> egp, reprocess |-> FALSE]

\* handleProcessTransactionError: the ROM error left the state root as it
\* was. OOC: delete, invalid; nonce/balance: move to not-ready, the txs it
\* cascades to are failed; other: delete, failed. The pool updates run in
\* goroutines whose WaitGroup nobody waits on.
\* Mutant: the "other" ROM error deletes the tx without the pool update.
handleProcessTransactionErrorNoStatus(t, rom) ==
  CASE rom = "ooc" ->
         /\ worker' = worker \ {t}
         /\ poolUpdates' = poolUpdates \cup {[tx |-> t, status |-> "invalid"]}
         /\ UNCHANGED notReady
    [] rom \in {"nonce", "balance"} ->
         \E txsToDelete \in SUBSET SameSenderTxs(t) :
           /\ worker' = worker \ ({t} \cup txsToDelete)
           /\ notReady' = notReady \cup {t}
           /\ poolUpdates' = poolUpdates \cup
                {[tx |-> u, status |-> "failed"] : u \in txsToDelete}
    [] OTHER ->
         /\ worker' = worker \ {t}
         /\ UNCHANGED <<notReady, poolUpdates>>

handleProcessTransactionError(t, rom) ==
  CASE rom = "ooc" ->
         /\ worker' = worker \ {t}
         /\ poolUpdates' = poolUpdates \cup {[tx |-> t, status |-> "invalid"]}
         /\ UNCHANGED notReady
    [] rom \in {"nonce", "balance"} ->
         \E txsToDelete \in SUBSET SameSenderTxs(t) :
           /\ worker' = worker \ ({t} \cup txsToDelete)
           /\ notReady' = notReady \cup {t}
           /\ poolUpdates' = poolUpdates \cup
                {[tx |-> u, status |-> "failed"] : u \in txsToDelete}
    [] OTHER ->
         /\ worker' = worker \ {t}
         /\ poolUpdates' = poolUpdates \cup {[tx |-> t, status |-> "failed"]}
         /\ UNCHANGED notReady

\* updateWorkerAfterSuccessfulProcessing (not forced): MoveTxPendingToStore,
\* then UpdateAfterSingleSuccessfulTxExecution; the txs it returns are set
\* failed in the pool.
\* Mutant: the included tx is not moved out of the ready txs.
updateWorkerKeepsTx(t) ==
  \E txsToDelete \in SUBSET SameSenderTxs(t) :
    /\ worker' = worker \ txsToDelete
    /\ UpdateTxStatus(txsToDelete, "failed")

updateWorkerAfterSuccessfulProcessing(t) ==
  \E txsToDelete \in SUBSET SameSenderTxs(t) :
    /\ worker' = worker \ ({t} \cup txsToDelete)
    /\ UpdateTxStatus(txsToDelete, "failed")

\* The three outcomes of the resource check of a tx whose price is settled
\* (lines 724-792). The needed counters fit: Sub the used counters and
\* bytes, carry newHigh, add the tx to the WIP L2 block, and update the
\* worker; processTransaction then advances imStateRoot (line 652).
AcceptTx(t, newHigh) ==
  /\ wipBatch' = [wipBatch EXCEPT !.remaining = [zk |-> @.zk - Used[t],
                                                 bytes |-> @.bytes - Size[t]],
                                  !.high = newHigh,
                                  !.countOfTxs = @ + 1,
                                  !.wipL2BlockTxs = @ + 1]
  /\ wipTxs' = Append(wipTxs, t)
  /\ imStateRoot' = Append(imStateRoot, t)
  /\ updateWorkerAfterSuccessfulProcessing(t)
  /\ UNCHANGED <<notReady, est, poolUpdates, closedBatches>>

\* They do not fit and the reserved counters exceed the node limits:
\* DeleteTx, and UpdateTxStatus invalid in the same goroutine.
RejectNodeOOC(t) ==
  /\ worker' = worker \ {t}
  /\ UpdateTxStatus({t}, "invalid")
  /\ UNCHANGED <<notReady, est, poolUpdates, batchVars>>

\* They do not fit the WIP batch only: UpdateTxZKCounters records the
\* executor's figures (newEst) and the tx stays for a later batch.
KeepForLaterBatch(t, newEst) ==
  /\ est' = newEst
  /\ UNCHANGED <<worker, notReady, poolVars, batchVars>>

\* Mutant: imHighReservedZKCounters is not updated when a tx is added.
addTxToBatchNoHighUpdate(t) ==
  LET fits == Fits(wipBatch.remaining, NeededZK(wipBatch.high, Used[t], Reserved[t]), Size[t])
  IN \/ fits /\ AcceptTx(t, wipBatch.high)
     \/ ~fits /\ NodeLevelOOC(Reserved[t]) /\ RejectNodeOOC(t)
     \/ ~fits /\ ~NodeLevelOOC(Reserved[t])
        /\ KeepForLaterBatch(t, [est EXCEPT ![t] = [used |-> Used[t], reserved |-> Reserved[t]]])

addTxToBatch(t) ==
  LET fits == Fits(wipBatch.remaining, NeededZK(wipBatch.high, Used[t], Reserved[t]), Size[t])
  IN \/ fits /\ AcceptTx(t, NewHighZK(wipBatch.high, Used[t], Reserved[t]))
     \/ ~fits /\ NodeLevelOOC(Reserved[t]) /\ RejectNodeOOC(t)
     \/ ~fits /\ ~NodeLevelOOC(Reserved[t])
        /\ KeepForLaterBatch(t, [est EXCEPT ![t] = [used |-> Used[t], reserved |-> Reserved[t]]])

\* The executor returned a response for the tx (line 651): the ROM error
\* left the state root unchanged; or, on the first execution that is not
\* the last, the second EGP pass fails (return err, the loop breaks), asks
\* for a reprocess, or accepts; or the price is settled. An accepted tx goes
\* through the resource check. tx.IsLastExecution is set before the second
\* pass and never reset. With EGP disabled neither a failed second pass
\* nor the compare's reprocess stops the tx: it goes on to the resource
\* check.
processTxResponse ==
  LET t == curTx IN
  /\ pc = "process"
  /\ \E r \in FirstPass(t), rom \in Rom[t] :
       /\ ~r.err
       /\ \/ /\ ~StateRootChanged(rom)
             /\ SetTxEgp(t, r)
             /\ handleProcessTransactionError(t, rom)
             /\ pc' = "check"
             /\ UNCHANGED <<est, poolStatus, lostWrites, batchVars, curTx, firstTxProcess>>
          \/ /\ StateRootChanged(rom)
             /\ ~r.last
             /\ t \in EgpSecondPassFails
             /\ SetTxEgp(t, [egp |-> r.egp, last |-> TRUE])
             /\ pc' = "check"
             /\ \/ /\ egpEnabled
                   /\ UNCHANGED <<workerVars, poolVars, batchVars, curTx, firstTxProcess>>
                \/ /\ ~egpEnabled
                   /\ addTxToBatch(t)
                   /\ UNCHANGED <<curTx, firstTxProcess>>
          \/ /\ StateRootChanged(rom)
             /\ ~r.last
             /\ \E newEgp \in EgpValues, hasOpcode \in BOOLEAN :
                  LET cmp == compareTxEffectiveGasPrice(r.egp, newEgp, GasPrice[t], hasOpcode) IN
                  /\ SetTxEgp(t, [egp |-> cmp.egp, last |-> TRUE])
                  /\ \/ /\ cmp.reprocess /\ egpEnabled
                        /\ pc' = "process"
                        /\ firstTxProcess' = FALSE
                        /\ UNCHANGED <<workerVars, poolVars, batchVars, curTx>>
                     \/ /\ ~cmp.reprocess \/ ~egpEnabled
                        /\ addTxToBatch(t)
                        /\ pc' = "check"
                        /\ UNCHANGED <<curTx, firstTxProcess>>
          \/ /\ StateRootChanged(rom)
             /\ r.last
             /\ SetTxEgp(t, r)
             /\ addTxToBatch(t)
             /\ pc' = "check"
             /\ UNCHANGED <<curTx, firstTxProcess>>

processTransaction ==
  \/ processTxEgpError
  \/ processTxRetryable
  \/ processTxHalt
  \/ processTxExecutorError
  \/ processTxResponse

-----------------------------------------------------------------------------
(* Bottom of the loop: checkIfFinalizeBatch closes the batch when it holds *)
(* MaxTxsPerBatch txs or a resource is exhausted, and may close it at any  *)
(* iteration for the timestamp-resolution and L1-info-tree reasons the     *)
(* model leaves open.                                                      *)
MustCloseBatch ==
  \/ wipBatch.countOfTxs >= MaxTxsPerBatch
  \/ wipBatch.remaining.zk = 0
  \/ wipBatch.remaining.bytes = 0

checkIfFinalizeBatch ==
  /\ pc = "check"
  /\ \/ /\ finalizeWIPBatch("top")
        /\ UNCHANGED imStateRoot
     \/ /\ ~MustCloseBatch
        /\ pc' = "top"
        /\ UNCHANGED batchVars
  /\ UNCHANGED <<workerVars, poolVars, txVars, curTx, firstTxProcess>>

\* A pool-status goroutine of handleProcessTransactionError completes: its
\* UpdateTxStatus call succeeds, or returns an error the goroutine logs.
\* Halt ends the process (os.Exit) and the goroutines with it.
poolUpdateDone ==
  /\ pc # "halted"
  /\ \E u \in poolUpdates :
       /\ UpdateTxStatus({u.tx}, u.status)
       /\ poolUpdates' = poolUpdates \ {u}
  /\ UNCHANGED <<workerVars, batchVars, txVars, loopVars>>

\* The loop has halted (the process exits) or the run's batches are done.
Terminated ==
  /\ pc \in {"halted", "done"}
  /\ UNCHANGED vars

Next ==
  \/ l2BlockTimer
  \/ selectTx
  \/ processTransaction
  \/ checkIfFinalizeBatch
  \/ poolUpdateDone
  \/ Terminated

Spec == Init /\ [][Next]_vars

\* The loop is one goroutine that runs while it is not blocked. Executor
\* failures (DB error, min-timestamp error, ROM-level error without
\* responses) are transient: a tx that keeps being processed eventually
\* gets a response from the executor, unless its EGP calculation fails
\* before the call. The pool goroutines complete.
Fairness ==
  /\ WF_vars(l2BlockTimer \/ selectTx \/ checkIfFinalizeBatch)
  /\ WF_vars(processTransaction)
  /\ SF_vars(processTxResponse \/ processTxEgpError)
  /\ WF_vars(poolUpdateDone)

FairSpec == Spec /\ Fairness

-----------------------------------------------------------------------------
(* Properties                                                              *)

BatchUsed(txs)     == FoldLeft(LAMBDA acc, u : acc + Used[u], 0, txs)
BatchBytes(txs)    == FoldLeft(LAMBDA acc, u : acc + Size[u], 0, txs)
BatchHighDelta(txs) ==
  FoldLeft(LAMBDA acc, u : NewHighZK(acc, Used[u], Reserved[u]), 0, txs)

\* The counters the executor reserves for the batch as a whole (the used
\* counters of all its txs plus the largest reserved-minus-used delta of any
\* of them) never exceed the batch constraints, for every closed batch and
\* for the WIP batch, whose remaining resources are exactly the constraints
\* minus what its txs used. This is what getNeededZKCounters, Fits, Sub and
\* the carry of imHighReservedZKCounters across txs must guarantee.
BatchReserveHeadroom ==
  /\ \A i \in 1..Len(closedBatches) :
       /\ BatchUsed(closedBatches[i]) + BatchHighDelta(closedBatches[i]) <= BatchMax.zk
       /\ BatchBytes(closedBatches[i]) <= BatchMax.bytes
  /\ BatchUsed(wipTxs) + BatchHighDelta(wipTxs) <= BatchMax.zk
  /\ BatchBytes(wipTxs) <= BatchMax.bytes
  /\ wipBatch.remaining = [zk |-> BatchMax.zk - BatchUsed(wipTxs),
                           bytes |-> BatchMax.bytes - BatchBytes(wipTxs)]
  /\ wipBatch.high = BatchHighDelta(wipTxs)

\* The price an included tx is charged: the effective gas price, or with
\* EGP disabled the gas price itself (EGPPercentage 255).
ChargedPrice(t) == IF egpEnabled THEN effectiveGasPrice[t] ELSE GasPrice[t]

\* A tx is charged at most its gas price: the price of every included tx,
\* after the first pass, the second pass and any reprocess, is positive,
\* at most tx.GasPrice, and was reached through a last execution.
EffectiveGasPriceBounded ==
  \A t \in Range(imStateRoot) :
    /\ 0 < ChargedPrice(t) /\ ChargedPrice(t) <= GasPrice[t]
    /\ isLastExecution[t]

\* A tx leaves the worker only with a final answer: included in a batch, set
\* invalid or failed in the pool (possibly by a goroutine still running),
\* or moved to not-ready; the one exception is a tx whose UpdateTxStatus
\* call returned an error, which every caller in finalizer.go logs and
\* drops, leaving the tx pending in the pool and out of the worker.
NoTxDropped ==
  \A t \in Txs \ worker :
    \/ t \in Range(imStateRoot)
    \/ poolStatus[t] \in {"invalid", "failed"}
    \/ \E u \in poolUpdates : u.tx = t
    \/ t \in notReady
    \/ t \in lostWrites

\* Every tx in the worker is eventually resolved (included, rejected or
\* moved to not-ready), unless the loop halts or the run's batches end.
EveryTxResolved ==
  \A t \in Txs :
    (t \in worker) ~> (t \notin worker \/ pc \in {"halted", "done"})

\* The same, in the behaviours where CalculateEffectiveGasPrice stops
\* failing after a while: executor failures alone (DB errors,
\* min-timestamp errors, ROM-level errors without responses) never keep a
\* tx in the worker forever.
EveryTxResolvedOnceEgpSucceeds ==
  <>[][~processTxEgpError]_vars => EveryTxResolved
=============================================================================
