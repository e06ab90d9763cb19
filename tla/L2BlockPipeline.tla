--------------------------- MODULE L2BlockPipeline ---------------------------
(***************************************************************************)
(* The finalizer's L2-block pipeline and its flush-id handshake with the   *)
(* executor (src/sequencer/finalizer.go).                                  *)
(*                                                                         *)
(*  - the finalize loop closes the WIP L2 block and sends it into the      *)
(*    bounded channel pendingL2BlocksToProcess;                            *)
(*  - the process stage has the executor build the block, which hands out  *)
(*    a new flush id, records it with updateFlushIDs and sends the block   *)
(*    into pendingL2BlocksToStore;                                         *)
(*  - the store stage waits on storedFlushIDCond until storedFlushID       *)
(*    covers the block's flush id, then persists the block;                *)
(*  - updateProverIdAndFlushId is the tracker goroutine: it sleeps on      *)
(*    pendingFlushIDCond while storedFlushID >= lastPendingFlushID and     *)
(*    otherwise polls the executor's stored flush id.                      *)
(*                                                                         *)
(* The process and store stages live in a file of the repository that is  *)
(* not under src/ and are modelled from spec.md section 4.3.               *)
(***************************************************************************)
EXTENDS Naturals, Sequences, FiniteSets

CONSTANTS
  MaxBlocks,    \* number of L2 blocks the finalize loop closes in a run
  BufferSize,   \* capacity of both channels (pendingL2BlocksBufferSize)
  MaxRestarts   \* bound: executor restarts in a run

ASSUME MaxBlocks \in Nat \ {0} /\ BufferSize \in Nat \ {0} /\ MaxRestarts \in Nat

VARIABLES
  l2BlockCounter,            \* L2 blocks closed by the finalize loop
  pendingL2BlocksToProcess,  \* channel: block numbers, FIFO
  processing,                \* block held by the process stage (0: none)
  pendingL2BlocksToStore,    \* channel: [num, flushID] records, FIFO
  storedBlocks,              \* block numbers persisted in the state db
  executorFlushID,           \* last flush id handed out by the executor
  executorStoredFlushID,     \* last flush id the executor made durable
  lastPendingFlushID,        \* f.lastPendingFlushID
  storedFlushID,             \* f.storedFlushID
  trackerPc,                 \* where updateProverIdAndFlushId is
  trackerPolled,             \* storedFlushID returned by its last poll
  proverID,                  \* the executor's prover id (1, 2, ...)
  trackerPolledProver,       \* proverID returned by its last poll
  seenProvers,               \* history: prover ids the polls returned
  exited                     \* the process ended in log.Fatal

vars == <<l2BlockCounter, pendingL2BlocksToProcess, processing,
          pendingL2BlocksToStore, storedBlocks, executorFlushID,
          executorStoredFlushID, lastPendingFlushID, storedFlushID,
          trackerPc, trackerPolled, proverID, trackerPolledProver, seenProvers,
          exited>>

FlushIDs == 0..MaxBlocks
Blocks   == 1..MaxBlocks
NoBlock  == [num |-> 0, flushID |-> 0]
\* Tracker program counter:
\*   "lock"    evaluating `storedFlushID >= lastPendingFlushID` under the lock
\*   "wait"    condition held, about to call pendingFlushIDCond.Wait()
\*   "waiting" parked in Wait until a Broadcast
\*   "loop"    evaluating `storedFlushID < lastPendingFlushID` of the poll loop
\*   "poll"    calling GetStoredFlushID
\*   "apply"   handling the polled value
TrackerPcs == {"lock", "wait", "waiting", "loop", "poll", "apply"}

TypeOK ==
  /\ l2BlockCounter \in 0..MaxBlocks
  /\ pendingL2BlocksToProcess \in Seq(Blocks)
  /\ Len(pendingL2BlocksToProcess) <= BufferSize
  /\ processing \in [num : 0..MaxBlocks, flushID : FlushIDs]
  /\ pendingL2BlocksToStore \in Seq([num : Blocks, flushID : FlushIDs])
  /\ Len(pendingL2BlocksToStore) <= BufferSize
  /\ storedBlocks \in Seq(Blocks)
  /\ {executorFlushID, executorStoredFlushID, lastPendingFlushID,
      storedFlushID, trackerPolled} \subseteq FlushIDs
  /\ trackerPc \in TrackerPcs
  /\ proverID \in 1..MaxRestarts + 1
  /\ trackerPolledProver \in 0..MaxRestarts + 1
  /\ seenProvers \subseteq 1..MaxRestarts + 1
  /\ exited \in BOOLEAN

Init ==
  /\ l2BlockCounter = 0
  /\ pendingL2BlocksToProcess = <<>>
  /\ processing = NoBlock
  /\ pendingL2BlocksToStore = <<>>
  /\ storedBlocks = <<>>
  /\ executorFlushID = 0
  /\ executorStoredFlushID = 0
  /\ lastPendingFlushID = 0
  /\ storedFlushID = 0
  /\ trackerPc = "lock"
  /\ trackerPolled = 0
  /\ proverID = 1
  /\ trackerPolledProver = 0
  /\ seenProvers = {}
  /\ exited = FALSE

\* f.proverID: "" (0) in newFinalizer and never assigned afterwards.
fProverID == 0

\* checkIfProverRestarted: log.Fatal when the polled prover id differs from
\* a known f.proverID.
ProverRestartFatal(polledProverID) ==
  fProverID # 0 /\ fProverID # polledProverID

\* The variables only the tracker and the executor restart change.
ProverUnchanged == UNCHANGED <<proverID, trackerPolledProver, seenProvers, exited>>

-----------------------------------------------------------------------------
(* updateFlushIDs: raise lastPendingFlushID and storedFlushID to the new   *)
(* values when larger. pendingFlushIDCond.Broadcast() is issued without    *)
(* holding pendingFlushIDCond.L: it wakes the tracker only if the tracker  *)
(* is already parked in Wait.                                              *)
\* Mutant: the two flush ids of the response written to the wrong cursors.
updateFlushIDsSwapped(newPendingFlushID, newStoredFlushID) ==
  /\ lastPendingFlushID' = IF newStoredFlushID > lastPendingFlushID
                             THEN newStoredFlushID ELSE lastPendingFlushID
  /\ trackerPc' = IF newStoredFlushID > lastPendingFlushID /\ trackerPc = "waiting"
                    THEN "lock" ELSE trackerPc
  /\ storedFlushID' = IF newPendingFlushID > storedFlushID
                        THEN newPendingFlushID ELSE storedFlushID

updateFlushIDs(newPendingFlushID, newStoredFlushID) ==
  /\ lastPendingFlushID' = IF newPendingFlushID > lastPendingFlushID
                             THEN newPendingFlushID ELSE lastPendingFlushID
  /\ trackerPc' = IF newPendingFlushID > lastPendingFlushID /\ trackerPc = "waiting"
                    THEN "lock" ELSE trackerPc
  /\ storedFlushID' = IF newStoredFlushID > storedFlushID
                        THEN newStoredFlushID ELSE storedFlushID

\* Mutant: the send does not wait for room in the channel.
finalizeWIPL2BlockNoBackpressure ==
  /\ l2BlockCounter < MaxBlocks
  /\ l2BlockCounter' = l2BlockCounter + 1
  /\ pendingL2BlocksToProcess' = Append(pendingL2BlocksToProcess, l2BlockCounter + 1)
  /\ UNCHANGED <<processing, pendingL2BlocksToStore, storedBlocks, executorFlushID,
                 executorStoredFlushID, lastPendingFlushID, storedFlushID,
                 trackerPc, trackerPolled>>
  /\ ProverUnchanged

\* finalizeWIPL2Block: send the closed WIP L2 block (blocks when full).
finalizeWIPL2Block ==
  /\ l2BlockCounter < MaxBlocks
  /\ Len(pendingL2BlocksToProcess) < BufferSize
  /\ l2BlockCounter' = l2BlockCounter + 1
  /\ pendingL2BlocksToProcess' = Append(pendingL2BlocksToProcess, l2BlockCounter + 1)
  /\ UNCHANGED <<processing, pendingL2BlocksToStore, storedBlocks, executorFlushID,
                 executorStoredFlushID, lastPendingFlushID, storedFlushID,
                 trackerPc, trackerPolled>>
  /\ ProverUnchanged

\* Mutant: the process stage does not record the block's flush id as pending.
processL2BlockNoPending ==
  /\ processing = NoBlock
  /\ pendingL2BlocksToProcess # <<>>
  /\ executorFlushID' = executorFlushID + 1
  /\ processing' = [num |-> Head(pendingL2BlocksToProcess), flushID |-> executorFlushID + 1]
  /\ pendingL2BlocksToProcess' = Tail(pendingL2BlocksToProcess)
  /\ updateFlushIDs(lastPendingFlushID, executorStoredFlushID)
  /\ UNCHANGED <<l2BlockCounter, pendingL2BlocksToStore, storedBlocks,
                 executorStoredFlushID, trackerPolled>>
  /\ ProverUnchanged

\* processL2Block: the executor builds the block and returns its flush id
\* together with the flush id it has stored so far.
processL2Block ==
  /\ processing = NoBlock
  /\ pendingL2BlocksToProcess # <<>>
  /\ executorFlushID' = executorFlushID + 1
  /\ processing' = [num |-> Head(pendingL2BlocksToProcess), flushID |-> executorFlushID + 1]
  /\ pendingL2BlocksToProcess' = Tail(pendingL2BlocksToProcess)
  /\ updateFlushIDs(executorFlushID + 1, executorStoredFlushID)
  /\ UNCHANGED <<l2BlockCounter, pendingL2BlocksToStore, storedBlocks,
                 executorStoredFlushID, trackerPolled>>
  /\ ProverUnchanged

\* The process stage sends the block on to the store stage (blocks when full).
sendL2BlockToStore ==
  /\ processing # NoBlock
  /\ Len(pendingL2BlocksToStore) < BufferSize
  /\ pendingL2BlocksToStore' = Append(pendingL2BlocksToStore, processing)
  /\ processing' = NoBlock
  /\ UNCHANGED <<l2BlockCounter, pendingL2BlocksToProcess, storedBlocks,
                 executorFlushID, executorStoredFlushID, lastPendingFlushID,
                 storedFlushID, trackerPc, trackerPolled>>
  /\ ProverUnchanged

\* Mutant: the store stage persists without waiting for the flush id.
storeL2BlockNoWait ==
  /\ pendingL2BlocksToStore # <<>>
  /\ storedBlocks' = Append(storedBlocks, Head(pendingL2BlocksToStore).num)
  /\ pendingL2BlocksToStore' = Tail(pendingL2BlocksToStore)
  /\ UNCHANGED <<l2BlockCounter, pendingL2BlocksToProcess, processing,
                 executorFlushID, executorStoredFlushID, lastPendingFlushID,
                 storedFlushID, trackerPc, trackerPolled>>
  /\ ProverUnchanged

\* storeL2Block: wait on storedFlushIDCond until storedFlushID covers the
\* block's flush id, then persist it. Every write of storedFlushID
\* broadcasts under storedFlushIDCond.L, so the wait is a plain guard.
storeL2Block ==
  /\ pendingL2BlocksToStore # <<>>
  /\ storedFlushID >= Head(pendingL2BlocksToStore).flushID
  /\ storedBlocks' = Append(storedBlocks, Head(pendingL2BlocksToStore).num)
  /\ pendingL2BlocksToStore' = Tail(pendingL2BlocksToStore)
  /\ UNCHANGED <<l2BlockCounter, pendingL2BlocksToProcess, processing,
                 executorFlushID, executorStoredFlushID, lastPendingFlushID,
                 storedFlushID, trackerPc, trackerPolled>>
  /\ ProverUnchanged

\* The executor makes the state of one or more flush ids durable.
executorFlush ==
  /\ \E f \in executorStoredFlushID + 1 .. executorFlushID :
       executorStoredFlushID' = f
  /\ UNCHANGED <<l2BlockCounter, pendingL2BlocksToProcess, processing,
                 pendingL2BlocksToStore, storedBlocks, executorFlushID,
                 lastPendingFlushID, storedFlushID, trackerPc, trackerPolled>>
  /\ ProverUnchanged

\* The executor restarts under a new prover id.
executorRestart ==
  /\ proverID <= MaxRestarts
  /\ proverID' = proverID + 1
  /\ UNCHANGED <<l2BlockCounter, pendingL2BlocksToProcess, processing,
                 pendingL2BlocksToStore, storedBlocks, executorFlushID,
                 executorStoredFlushID, lastPendingFlushID, storedFlushID,
                 trackerPc, trackerPolled, trackerPolledProver, seenProvers, exited>>

-----------------------------------------------------------------------------
(* updateProverIdAndFlushId, one action per step of the goroutine.         *)

TrackerUnchanged ==
  UNCHANGED <<l2BlockCounter, pendingL2BlocksToProcess, processing,
              pendingL2BlocksToStore, storedBlocks, executorFlushID,
              executorStoredFlushID, lastPendingFlushID, proverID, exited>>

\* for f.storedFlushID >= f.lastPendingFlushID { Wait() }, under the lock
trackerCheckSynced ==
  /\ trackerPc = "lock"
  /\ trackerPc' = IF storedFlushID >= lastPendingFlushID THEN "wait" ELSE "loop"
  /\ UNCHANGED <<storedFlushID, trackerPolled>>
  /\ UNCHANGED <<trackerPolledProver, seenProvers>>
  /\ TrackerUnchanged

\* pendingFlushIDCond.Wait(): join the wait list and release the lock
trackerWait ==
  /\ trackerPc = "wait"
  /\ trackerPc' = "waiting"
  /\ UNCHANGED <<storedFlushID, trackerPolled>>
  /\ UNCHANGED <<trackerPolledProver, seenProvers>>
  /\ TrackerUnchanged

\* for f.storedFlushID < f.lastPendingFlushID { ... }
trackerPollLoop ==
  /\ trackerPc = "loop"
  /\ trackerPc' = IF storedFlushID < lastPendingFlushID THEN "poll" ELSE "lock"
  /\ UNCHANGED <<storedFlushID, trackerPolled>>
  /\ UNCHANGED <<trackerPolledProver, seenProvers>>
  /\ TrackerUnchanged

\* Mutant: the poll takes the last flush id handed out, not the stored one.
trackerPollPending ==
  /\ trackerPc = "poll"
  /\ trackerPolled' = executorFlushID
  /\ trackerPolledProver' = proverID
  /\ trackerPc' = "apply"
  /\ UNCHANGED <<storedFlushID, seenProvers>>
  /\ TrackerUnchanged

\* GetStoredFlushID succeeds
trackerPoll ==
  /\ trackerPc = "poll"
  /\ trackerPolled' = executorStoredFlushID
  /\ trackerPolledProver' = proverID
  /\ trackerPc' = "apply"
  /\ UNCHANGED <<storedFlushID, seenProvers>>
  /\ TrackerUnchanged

\* GetStoredFlushID fails: log, sleep, loop
trackerPollError ==
  /\ trackerPc = "poll"
  /\ trackerPc' = "loop"
  /\ UNCHANGED <<storedFlushID, trackerPolled>>
  /\ UNCHANGED <<trackerPolledProver, seenProvers>>
  /\ TrackerUnchanged

\* if storedFlushID != f.storedFlushID { checkIfProverRestarted(proverID);
\* f.storedFlushID = storedFlushID; break when it reaches
\* lastPendingFlushID }; otherwise sleep and loop. seenProvers records the
\* prover id of every successful poll.
trackerApply ==
  /\ trackerPc = "apply"
  /\ seenProvers' = seenProvers \cup {trackerPolledProver}
  /\ \/ /\ trackerPolled # storedFlushID
        /\ IF ProverRestartFatal(trackerPolledProver)
             THEN /\ exited' = TRUE
                  /\ UNCHANGED <<storedFlushID, trackerPc>>
             ELSE /\ storedFlushID' = trackerPolled
                  /\ trackerPc' = IF trackerPolled >= lastPendingFlushID
                                     THEN "lock" ELSE "loop"
                  /\ UNCHANGED exited
     \/ /\ trackerPolled = storedFlushID
        /\ trackerPc' = "loop"
        /\ UNCHANGED <<storedFlushID, exited>>
  /\ UNCHANGED <<trackerPolled, trackerPolledProver>>
  /\ UNCHANGED <<l2BlockCounter, pendingL2BlocksToProcess, processing,
                 pendingL2BlocksToStore, storedBlocks, executorFlushID,
                 executorStoredFlushID, lastPendingFlushID, proverID>>

-----------------------------------------------------------------------------
Tracker ==
  \/ trackerCheckSynced \/ trackerWait \/ trackerPollLoop
  \/ trackerPoll \/ trackerPollError \/ trackerApply

\* log.Fatal ends every goroutine.
Next ==
  /\ ~exited
  /\ \/ finalizeWIPL2Block
     \/ processL2Block
     \/ sendL2BlockToStore
     \/ storeL2Block
     \/ executorFlush
     \/ executorRestart
     \/ Tracker

Spec == Init /\ [][Next]_vars

\* Every goroutine is scheduled eventually; executor RPC errors are
\* transient, so a poll that keeps being retried eventually succeeds.
Fairness ==
  /\ WF_vars(finalizeWIPL2Block)
  /\ WF_vars(processL2Block)
  /\ WF_vars(sendL2BlockToStore)
  /\ WF_vars(storeL2Block)
  /\ WF_vars(executorFlush)
  /\ WF_vars(trackerCheckSynced \/ trackerWait \/ trackerPollLoop \/ trackerApply)
  /\ SF_vars(trackerPoll)

FairSpec == Spec /\ Fairness

-----------------------------------------------------------------------------
(* Properties                                                              *)

\* Refinement: the pipeline persists blocks exactly once, in closing order,
\* and only once the executor has made their state durable. Block n is
\* given flush id n by the executor, so the durable prefix is the
\* executor's stored flush id.
Abs == INSTANCE BlockStream WITH
         closed  <- l2BlockCounter,
         durable <- executorStoredFlushID,
         stored  <- storedBlocks

\* The finalizer's durability cursor never runs ahead of the executor:
\* storedFlushID, written by the tracker from a poll and by updateFlushIDs
\* from process responses, never exceeds what the executor has flushed, and
\* lastPendingFlushID never exceeds what it has handed out.
FlushCursorsBehindExecutor ==
  /\ storedFlushID <= executorStoredFlushID
  /\ lastPendingFlushID <= executorFlushID

\* spec.md 5 (4) and 8 (3): storedFlushID never decreases.
StoredFlushIDMonotonic == [][storedFlushID' >= storedFlushID]_vars

\* spec.md 4.4: the tracker polls whenever storedFlushID < lastPendingFlushID,
\* so once a block has been processed the finalizer eventually learns that
\* its state is durable.
PendingFlushEventuallyStored ==
  \A f \in 1..MaxBlocks : (lastPendingFlushID >= f) ~> (storedFlushID >= f)

\* spec.md 4.4 and scenario S5: once the tracker has observed a second
\* prover id, the executor has restarted and the sequencer must halt, so
\* no further L2 block is persisted.
NoStoreAfterProverChange ==
  [][Cardinality(seenProvers) > 1 => UNCHANGED storedBlocks]_vars

\* The lost wakeup of updateFlushIDs is the only way the pipeline stalls:
\* unless the tracker ends parked in pendingFlushIDCond.Wait() with a flush
\* id still pending, every L2 block finalizeWIPL2Block closes is eventually
\* persisted by storeL2Block, through full channels, failed GetStoredFlushID
\* polls and an executor restart.
BlocksStoredUnlessTrackerParked ==
  ~<>[](trackerPc = "waiting" /\ storedFlushID < lastPendingFlushID) =>
    \A b \in 1..MaxBlocks : (l2BlockCounter >= b) ~> (Len(storedBlocks) >= b)
=============================================================================
