---------------------------- MODULE BlockInnerTxs ----------------------------
(***************************************************************************)
(* The block-level inner-tx endpoints of src/jsonrpc/endpoints_eth_xlayer.go:*)
(* GetBlockInternalTransactions, which looks the inner txs of every tx of  *)
(* a block up one after the other and fails on the first error, and        *)
(* GetBlockInternalTransactionsByIndexAndLimit, which pages the block's    *)
(* txs and looks them up in one goroutine each. The goroutines send        *)
(* (tx, result) pairs on a channel buffered to their number and call       *)
(* wg.Done after the send; the handler waits on the WaitGroup, closes the  *)
(* channel and drains it into the answer.                                  *)
(*                                                                         *)
(* A tx is its position in the block; the result of GetInternalTransactions *)
(* (InnerTxs.tla) for tx t is t, or NilResult when it failed. The state db  *)
(* may lose the block (an L2 reorg) at any point of the request. Every     *)
(* state-db call may also fail.                                            *)
(***************************************************************************)
EXTENDS Integers, Sequences

CONSTANTS
  MaxTxs,        \* bound: txs of the block
  maxLimitSize   \* the page limit the handler accepts

NilResult == -1
Requests == {"all", "paged"}

VARIABLES
  request,     \* the endpoint called
  index,       \* its index argument (paged)
  limit,       \* its limit argument (paged)
  blockTxs,    \* txs of the block when the request arrives
  deleted,     \* the state db has lost the block
  pc,          \* "count", "fetch", "wait", "inner" or "done"
  i, end,      \* the fetch loop's cursor and bound
  fetched,     \* the txs fetched (blockInternalTxs)
  running,     \* goroutines that have not called wg.Done
  chanCap,     \* capacity of retChan
  retChan,     \* pairs sent on retChan
  pending,     \* keys GetBlockInternalTransactions has not looked up yet
  respKind,    \* "none", "error", "nil" (nil, nil) or "map"
  respMap      \* the map answered

vars == <<request, index, limit, blockTxs, deleted, pc, i, end, fetched, running,
          chanCap, retChan, pending, respKind, respMap>>

\* The tx count the state db reports for the block hash.
dbCount == IF deleted THEN 0 ELSE blockTxs

Min(a, b) == IF a < b THEN a ELSE b

\* The handler returns with the given answer.
Answer(kind, m) == /\ pc' = "done" /\ respKind' = kind /\ respMap' = m

TypeOK ==
  /\ request \in Requests
  /\ blockTxs \in 0..MaxTxs /\ deleted \in BOOLEAN
  /\ pc \in {"count", "fetch", "wait", "inner", "done"}
  /\ fetched \in Seq(0..MaxTxs - 1)
  /\ running \subseteq 0..MaxTxs - 1
  /\ \A k \in DOMAIN retChan : retChan[k].v \in {retChan[k].tx, NilResult}
  /\ Len(retChan) <= chanCap
  /\ respKind \in {"none", "error", "nil", "map"}
  /\ DOMAIN respMap \subseteq 0..MaxTxs - 1

Init ==
  /\ request \in Requests
  /\ index \in 0..MaxTxs
  /\ limit \in 0..maxLimitSize + 1
  /\ blockTxs \in 0..MaxTxs
  /\ deleted = FALSE
  /\ pc = "count"
  /\ i = 0 /\ end = 0
  /\ fetched = <<>> /\ running = {} /\ chanCap = 0 /\ retChan = <<>>
  /\ pending = {}
  /\ respKind = "none" /\ respMap = <<>>

-----------------------------------------------------------------------------
\* The block leaves the state db (a reorg) while the request runs.
deleteBlock ==
  /\ ~deleted /\ pc # "done"
  /\ deleted' = TRUE
  /\ UNCHANGED <<request, index, limit, blockTxs, pc, i, end, fetched, running,
                 chanCap, retChan, pending, respKind, respMap>>

\* The limit check (paged) and GetL2BlockTransactionCountByHash; the paged
\* loop runs from min(c, index) to min(c, index + limit), the other over
\* the whole block.
\* Mutant: the page end not capped at the count.
PageEndUncapped(c) == index + limit
PageEnd(c) == Min(c, index + limit)

countTxs ==
  /\ pc = "count"
  /\ \/ /\ request = "paged" /\ limit > maxLimitSize
        /\ Answer("error", <<>>)
        /\ UNCHANGED <<i, end>>
     \/ /\ request = "all" \/ limit <= maxLimitSize
        /\ Answer("error", <<>>)
        /\ UNCHANGED <<i, end>>
     \/ /\ request = "all" \/ limit <= maxLimitSize
        /\ i' = IF request = "paged" THEN Min(dbCount, index) ELSE 0
        /\ end' = IF request = "paged" THEN PageEnd(dbCount) ELSE dbCount
        /\ pc' = "fetch"
        /\ UNCHANGED <<respKind, respMap>>
  /\ UNCHANGED <<request, index, limit, blockTxs, deleted, fetched, running, chanCap,
                 retChan, pending>>

\* One GetTransactionByL2BlockHashAndIndex of the loop: ErrNotFound makes
\* the handler answer nil, nil; another error an error.
fetchTx ==
  /\ pc = "fetch" /\ i < end
  /\ \/ /\ i < dbCount
        /\ fetched' = Append(fetched, i)
        /\ i' = i + 1
        /\ UNCHANGED <<pc, respKind, respMap>>
     \/ /\ i >= dbCount
        /\ Answer("nil", <<>>)
        /\ UNCHANGED <<fetched, i>>
     \/ /\ Answer("error", <<>>)
        /\ UNCHANGED <<fetched, i>>
  /\ UNCHANGED <<request, index, limit, blockTxs, deleted, end, running, chanCap,
                 retChan, pending>>

\* The loop is over. Paged: wg.Add(len), retChan buffered to len, one
\* goroutine per tx. Otherwise the keys are looked up one by one.
\* Mutant: retChan unbuffered.
RetChanCapUnbuffered(n) == 0
RetChanCap(n) == n

fetchDone ==
  /\ pc = "fetch" /\ i >= end
  /\ \/ /\ request = "paged"
        /\ running' = {fetched[k] : k \in DOMAIN fetched}
        /\ chanCap' = RetChanCap(Len(fetched))
        /\ pc' = "wait"
        /\ UNCHANGED <<pending, respMap>>
     \/ /\ request = "all"
        /\ pending' = {fetched[k] : k \in DOMAIN fetched}
        /\ respMap' = [t \in pending' |-> NilResult]
        /\ pc' = "inner"
        /\ UNCHANGED <<running, chanCap>>
  /\ UNCHANGED <<request, index, limit, blockTxs, deleted, i, end, fetched, retChan,
                 respKind>>

\* The goroutine of tx t: GetInternalTransactions, a failure logged and its
\* nil result kept, the pair sent (blocking while retChan is full), then
\* the deferred wg.Done. A tx of a lost block is not found.
goroutine(t) ==
  /\ t \in running
  /\ Len(retChan) < chanCap
  /\ \E v \in IF deleted THEN {NilResult} ELSE {t, NilResult} :
       retChan' = Append(retChan, [tx |-> t, v |-> v])
  /\ running' = running \ {t}
  /\ UNCHANGED <<request, index, limit, blockTxs, deleted, pc, i, end, fetched,
                 chanCap, pending, respKind, respMap>>

\* The last pair received for tx t: a later one overwrites ret[t].
LastSentFor(t) ==
  CHOOSE k \in DOMAIN retChan :
    retChan[k].tx = t /\ \A j \in DOMAIN retChan : retChan[j].tx = t => j <= k

\* wg.Wait, close(retChan), and the range over it into the answer.
collect ==
  /\ pc = "wait" /\ running = {}
  /\ Answer("map", [t \in {retChan[k].tx : k \in DOMAIN retChan} |->
                      retChan[LastSentFor(t)].v])
  /\ UNCHANGED <<request, index, limit, blockTxs, deleted, i, end, fetched, running,
                 chanCap, retChan, pending>>

\* GetBlockInternalTransactions' range over its map: GetInternalTransactions
\* of one key, its result stored, or the whole request failed.
lookupKey ==
  /\ pc = "inner"
  /\ \E k \in pending :
       \/ /\ ~deleted
          /\ respMap' = [respMap EXCEPT ![k] = k]
          /\ pending' = pending \ {k}
          /\ UNCHANGED <<pc, respKind>>
       \/ /\ Answer("error", <<>>)
          /\ UNCHANGED pending
  /\ UNCHANGED <<request, index, limit, blockTxs, deleted, i, end, fetched, running,
                 chanCap, retChan>>

\* Every key looked up: the map is the answer.
lookupDone ==
  /\ pc = "inner" /\ pending = {}
  /\ pc' = "done" /\ respKind' = "map"
  /\ UNCHANGED <<request, index, limit, blockTxs, deleted, i, end, fetched, running,
                 chanCap, retChan, pending, respMap>>

Next ==
  \/ deleteBlock \/ countTxs \/ fetchTx \/ fetchDone \/ collect
  \/ \E t \in running : goroutine(t)
  \/ lookupKey \/ lookupDone

Spec == Init /\ [][Next]_vars

\* The Go scheduler runs every runnable goroutine, and the handler's own
\* steps are the steps of a running goroutine; a reorg is not assumed.
FairSpec ==
  /\ Spec
  /\ WF_vars(countTxs \/ fetchTx \/ fetchDone \/ collect \/ lookupKey \/ lookupDone)
  /\ \A t \in 0..MaxTxs - 1 : WF_vars(goroutine(t))

-----------------------------------------------------------------------------
(* Properties                                                              *)

\* The txs of the block the request asks for: the page or the whole block.
Asked(n) ==
  IF request = "paged" THEN {t \in 0..n - 1 : index <= t /\ t < index + limit}
  ELSE 0..n - 1

\* A map answer has a key for exactly the asked txs of the block (none when
\* the block was gone before the count), each with that tx's own result,
\* nil only in the paged endpoint; nil, nil is answered only when the block
\* was lost. This is the paging arithmetic, the not-found handling and
\* the (tx, result) pairing of the goroutines under every interleaving.
AnswerMatchesBlock ==
  pc = "done" =>
    /\ respKind = "map" =>
         /\ DOMAIN respMap = Asked(blockTxs) \/ (deleted /\ DOMAIN respMap = {})
         /\ \A t \in DOMAIN respMap :
              respMap[t] = t \/ (request = "paged" /\ respMap[t] = NilResult)
    /\ respKind = "nil" => deleted

\* Every request is answered: the goroutines' sends never block, since the
\* channel holds all of them before the handler starts to drain it.
EveryRequestAnswered == <>(pc = "done")
=============================================================================
