--------------------------- MODULE L1InfoTreeWatcher ---------------------------
(***************************************************************************)
(* The finalizer's L1 info tree watcher, checkL1InfoTreeUpdate             *)
(* (src/sequencer/finalizer.go), and the finalize loop as its reader.      *)
(*                                                                         *)
(* Every L1InfoTreeCheckInterval the watcher reads the latest L1 block,    *)
(* backs off L1InfoTreeL1BlockConfirmations, and fetches the latest L1     *)
(* info root synced at or below that block. A root with a higher index     *)
(* (or the first one) is validated against ethereum (checkValidL1InfoRoot) *)
(* and published in f.lastL1InfoTree; the first publication sets           *)
(* lastL1InfoTreeValid and broadcasts lastL1InfoTreeCond. An invalid root  *)
(* ends the watcher.                                                       *)
(*                                                                         *)
(* A root is its index; RootBlock[i] is the L1 block where root i was      *)
(* synced. A reorg changes ethereum's hash of a block the state db still   *)
(* holds the old hash of, and may shorten the chain. RPC errors make the   *)
(* loop `continue` and are stuttering steps.                               *)
(***************************************************************************)
EXTENDS Naturals, FiniteSets

CONSTANTS
  MaxIndex,           \* roots 0..MaxIndex exist in the state db
  RootBlock,          \* RootBlock[i]: L1 block of root i (non-decreasing)
  Confirmations,      \* L1InfoTreeL1BlockConfirmations
  MaxL1Block,         \* bound: L1 head
  MaxReorgs,          \* bound: reorged L1 blocks in a run
  CheckIntervalZero   \* L1InfoTreeCheckInterval is 0

Roots == 0..MaxIndex

ASSUME
  /\ RootBlock \in [Roots -> 1..MaxL1Block]
  /\ \A i \in Roots \ {0} : RootBlock[i - 1] <= RootBlock[i]
  /\ Confirmations \in Nat /\ MaxReorgs \in Nat /\ CheckIntervalZero \in BOOLEAN

VARIABLES
  l1Head,                \* ethereum's latest block number
  reorged,               \* blocks whose state-db hash ethereum no longer has
  reorgs,                \* reorgs so far
  watcherPc,             \* "start", "loop" or "returned"
  firstL1InfoRootUpdate, \* the watcher's local flag
  lastL1InfoTree,        \* f.lastL1InfoTree.L1InfoTreeIndex
  lastL1InfoTreeValid,   \* f.lastL1InfoTreeValid
  started,               \* the finalize loop is past its wait
  pinned                 \* L1 info tree index of the WIP L2 block

vars == <<l1Head, reorged, reorgs, watcherPc, firstL1InfoRootUpdate, lastL1InfoTree,
          lastL1InfoTreeValid, started, pinned>>

-----------------------------------------------------------------------------
\* maxBlockNumber: the confirmed block, 0 when the chain is shorter than
\* the confirmations.
\* Mutant: the guard dropped; the uint64 subtraction wraps to a value above
\* every block.
MaxBlockNumberWrap(head) == IF Confirmations <= head THEN head - Confirmations
                            ELSE MaxL1Block
MaxBlockNumber(head) == IF Confirmations <= head THEN head - Confirmations ELSE 0

\* GetLatestL1InfoRoot(maxBlockNumber): the roots synced at or below it;
\* the call fails when there is none.
RootsUpTo(maxBlock) == {i \in Roots : RootBlock[i] <= maxBlock}

LatestRoot(maxBlock) ==
  CHOOSE i \in RootsUpTo(maxBlock) : \A j \in RootsUpTo(maxBlock) : j <= i

\* The block hash check of checkValidL1InfoRoot. The GER and index checks
\* read the same L1 block and agree with a root the state db synced from it.
checkValidL1InfoRoot(i) == RootBlock[i] \notin reorged

\* The watcher takes a candidate when it is the first or has a higher index.
\* Mutant: the first candidate is not taken unless its index is above 0.
IsNewRootNoFirst(i) == i > lastL1InfoTree

\* Mutant: a different index instead of a higher one.
IsNewRootChanged(i) == firstL1InfoRootUpdate \/ i # lastL1InfoTree

IsNewRoot(i) == firstL1InfoRootUpdate \/ i > lastL1InfoTree

TypeOK ==
  /\ l1Head \in 0..MaxL1Block
  /\ reorged \subseteq 1..MaxL1Block
  /\ reorgs \in 0..MaxReorgs
  /\ watcherPc \in {"start", "loop", "returned"}
  /\ firstL1InfoRootUpdate \in BOOLEAN
  /\ lastL1InfoTree \in Roots
  /\ lastL1InfoTreeValid \in BOOLEAN
  /\ started \in BOOLEAN
  /\ pinned \in Roots

Init ==
  /\ l1Head \in 0..MaxL1Block
  /\ reorged = {}
  /\ reorgs = 0
  /\ watcherPc = "start"
  /\ firstL1InfoRootUpdate = TRUE
  /\ lastL1InfoTree = 0
  /\ lastL1InfoTreeValid = FALSE
  /\ started = FALSE
  /\ pinned = 0

-----------------------------------------------------------------------------
(* Ethereum                                                                *)

\* A new L1 block.
l1NewBlock ==
  /\ l1Head < MaxL1Block
  /\ l1Head' = l1Head + 1
  /\ UNCHANGED <<reorged, reorgs, watcherPc, firstL1InfoRootUpdate, lastL1InfoTree,
                 lastL1InfoTreeValid, started, pinned>>

\* A reorg from block b on: ethereum's blocks b..l1Head change hash, and
\* the new chain may be shorter.
l1Reorg ==
  /\ reorgs < MaxReorgs
  /\ \E b \in 1..l1Head, h \in 0..MaxL1Block :
       /\ h >= b - 1 /\ h <= l1Head
       /\ reorged' = reorged \cup (b..l1Head)
       /\ l1Head' = h
  /\ reorgs' = reorgs + 1
  /\ UNCHANGED <<watcherPc, firstL1InfoRootUpdate, lastL1InfoTree,
                 lastL1InfoTreeValid, started, pinned>>

-----------------------------------------------------------------------------
(* checkL1InfoTreeUpdate                                                   *)

\* With a zero check interval the watcher broadcasts and returns at once;
\* otherwise it enters its loop.
watcherStart ==
  /\ watcherPc = "start"
  /\ IF CheckIntervalZero
       THEN /\ lastL1InfoTreeValid' = TRUE
            /\ watcherPc' = "returned"
       ELSE /\ watcherPc' = "loop"
            /\ UNCHANGED lastL1InfoTreeValid
  /\ UNCHANGED <<l1Head, reorged, reorgs, firstL1InfoRootUpdate, lastL1InfoTree,
                 started, pinned>>

\* An iteration that publishes the candidate: it is new, and index 0 or
\* valid. broadcastL1InfoTreeValid sets lastL1InfoTreeValid.
\* Mutant: broadcastL1InfoTreeValid not called.
watcherAdoptNoBroadcast ==
  /\ watcherPc = "loop"
  /\ RootsUpTo(MaxBlockNumber(l1Head)) # {}
  /\ LET i == LatestRoot(MaxBlockNumber(l1Head)) IN
       /\ IsNewRoot(i)
       /\ i = 0 \/ checkValidL1InfoRoot(i)
       /\ lastL1InfoTree' = i
  /\ firstL1InfoRootUpdate' = FALSE
  /\ UNCHANGED <<l1Head, reorged, reorgs, watcherPc, lastL1InfoTreeValid, started, pinned>>

watcherAdopt ==
  /\ watcherPc = "loop"
  /\ RootsUpTo(MaxBlockNumber(l1Head)) # {}
  /\ LET i == LatestRoot(MaxBlockNumber(l1Head)) IN
       /\ IsNewRoot(i)
       /\ i = 0 \/ checkValidL1InfoRoot(i)
       /\ lastL1InfoTree' = i
  /\ firstL1InfoRootUpdate' = FALSE
  /\ lastL1InfoTreeValid' = TRUE
  /\ UNCHANGED <<l1Head, reorged, reorgs, watcherPc, started, pinned>>

\* An iteration that finds the new candidate invalid: the watcher returns.
watcherInvalid ==
  /\ watcherPc = "loop"
  /\ RootsUpTo(MaxBlockNumber(l1Head)) # {}
  /\ LET i == LatestRoot(MaxBlockNumber(l1Head)) IN
       /\ IsNewRoot(i)
       /\ i > 0 /\ ~checkValidL1InfoRoot(i)
  /\ watcherPc' = "returned"
  /\ UNCHANGED <<l1Head, reorged, reorgs, firstL1InfoRootUpdate, lastL1InfoTree,
                 lastL1InfoTreeValid, started, pinned>>

-----------------------------------------------------------------------------
(* The finalize loop as reader (spec.md 4.5, S6; batch.go and l2block.go *)
(* are not under src/).                                                    *)

\* The finalize loop waits on lastL1InfoTreeCond until lastL1InfoTreeValid,
\* then opens its WIP L2 block with the published index.
finalizerStart ==
  /\ ~started
  /\ lastL1InfoTreeValid
  /\ started' = TRUE
  /\ pinned' = lastL1InfoTree
  /\ UNCHANGED <<l1Head, reorged, reorgs, watcherPc, firstL1InfoRootUpdate,
                 lastL1InfoTree, lastL1InfoTreeValid>>

\* A new WIP L2 block takes the index published under lastL1InfoTreeMux.
openWIPL2Block ==
  /\ started
  /\ pinned # lastL1InfoTree
  /\ pinned' = lastL1InfoTree
  /\ UNCHANGED <<l1Head, reorged, reorgs, watcherPc, firstL1InfoRootUpdate,
                 lastL1InfoTree, lastL1InfoTreeValid, started>>

Next ==
  \/ l1NewBlock \/ l1Reorg
  \/ watcherStart \/ watcherAdopt \/ watcherInvalid
  \/ finalizerStart \/ openWIPL2Block

Spec == Init /\ [][Next]_vars

\* The watcher loops every L1InfoTreeCheckInterval for as long as the node
\* runs, and RPC errors are transient; the finalize loop opens L2 blocks
\* regularly.
FairSpec ==
  /\ Spec
  /\ WF_vars(watcherStart) /\ WF_vars(watcherAdopt) /\ WF_vars(watcherInvalid)
  /\ WF_vars(finalizerStart) /\ WF_vars(openWIPL2Block)

-----------------------------------------------------------------------------
(* Properties                                                              *)

\* The L1 info tree index the finalize loop pins in its L2 blocks never
\* goes back, even when a reorg shortens L1 and the latest confirmed root
\* becomes an older one: the watcher only publishes a higher index.
PinnedIndexMonotonic == [][started => pinned' >= pinned]_vars

\* A root the watcher publishes in place of an earlier one was synced at
\* least L1InfoTreeL1BlockConfirmations blocks below the L1 head it read,
\* including while the chain is shorter than the confirmations.
PublishedRootConfirmed ==
  [][lastL1InfoTree' # lastL1InfoTree =>
       RootBlock[lastL1InfoTree'] + Confirmations <= l1Head]_vars

\* As long as the watcher has not returned, the finalize loop starts and,
\* once L1 settles, pins a root at least as recent as the latest confirmed
\* one, reorgs included; in a run without reorgs it pins exactly that root.
\* So the failed check that ends the watcher (line 376) is the only way
\* the L2 blocks stop following the L1 info tree.
FollowsL1WhileWatcherRuns ==
  [](watcherPc # "returned") =>
    <>[](RootsUpTo(MaxBlockNumber(l1Head)) # {} =>
           /\ started
           /\ pinned >= LatestRoot(MaxBlockNumber(l1Head))
           /\ reorgs = 0 => pinned = LatestRoot(MaxBlockNumber(l1Head)))

\* With reorgs, the finalize loop is kept waiting forever only by a watcher
\* that stopped before its first publication: once a confirmed root exists
\* for good, the loop starts, unless a failed validation of the first
\* candidate ended the watcher without a broadcast (line 378).
StartsUnlessWatcherStopsFirst ==
  <>[](RootsUpTo(MaxBlockNumber(l1Head)) # {}) =>
    <>(started \/ (watcherPc = "returned" /\ ~lastL1InfoTreeValid))
=============================================================================
