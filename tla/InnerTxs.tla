------------------------------- MODULE InnerTxs -------------------------------
(***************************************************************************)
(* eth_getInternalTransactions (src/jsonrpc/endpoints_eth_xlayer.go): the  *)
(* call trace of a tx is flattened by the recursive dfs into InnerTx       *)
(* records. dfs threads one shared indexMap through the recursion: the     *)
(* for loop over a frame's calls writes indexMap[level] before each child, *)
(* and a child's name is read from indexMap[0..level-1].                   *)
(*                                                                         *)
(* A frame is [type, err, calls]: its lower-cased Type, whether its Error  *)
(* is non-empty, and its child frames. Addresses, values, gas and input    *)
(* are data the walk copies and are left out. A name                       *)
(* "type_i1_i2..." is the sequence <<type, i1, i2, ...>>: the type strings *)
(* contain no "_", so the join is injective and the sequence tells the     *)
(* same names apart.                                                        *)
(***************************************************************************)
EXTENDS Integers, SequencesExt, FiniteSets, TLC

CONSTANTS
  FrameTypes,  \* the frame types a trace can hold
  MaxDepth,    \* bound: depth of the traces checked
  MaxCalls     \* bound: calls of a frame

\* The types dfs accepts (lines 139-140).
CallTypes == {"call", "create", "create2", "callcode", "delegatecall",
              "staticcall", "selfdestruct"}

\* The traces up to depth d.
RECURSIVE Frames(_)
Frames(d) ==
  [type : FrameTypes, err : BOOLEAN,
   calls : IF d = 0 THEN {<<>>} ELSE BoundedSeq(Frames(d - 1), MaxCalls)]

VARIABLES
  trace,     \* the okFrame decoded from the debug trace
  innerTxs,  \* the result of internalTxTraceToInnerTxs
  done       \* the request has returned

vars == <<trace, innerTxs, done>>

-----------------------------------------------------------------------------
(* internalTxTraceToInnerTx: the record of one frame. InternalIndex is     *)
(* index - 1; IsError is set when the frame's Error is not empty.          *)
\* Mutant: InternalIndex without the - 1.
internalTxTraceToInnerTxNoOffset(currentTx, name, depth, index) ==
  [dept |-> depth, internalIndex |-> index, isError |-> currentTx.err,
   callType |-> currentTx.type, name |-> name]

internalTxTraceToInnerTx(currentTx, name, depth, index) ==
  [dept |-> depth, internalIndex |-> index - 1, isError |-> currentTx.err,
   callType |-> currentTx.type, name |-> name]

\* The name: the type followed by the non-zero indexMap[i], i < level.
\* Mutant: indexMap[level] read as well.
FrameNameWithOwnLevel(type, level, indexMap) ==
  <<type>> \o SelectSeq([i \in 1..level + 1 |-> indexMap[i - 1]], LAMBDA x : x # 0)

FrameName(type, level, indexMap) ==
  <<type>> \o SelectSeq([i \in 1..level |-> indexMap[i - 1]], LAMBDA x : x # 0)

\* dfs(tx, level, index, indexMap, isError) appending to out; the result is
\* the new out and the indexMap the caller sees afterwards (Go maps are
\* shared by reference). calls(tx, k, ...) is the for loop from call k on.
\* Mutant: the error of the frame replaces the inherited one.
RECURSIVE dfsNoInherit(_, _, _, _, _, _), callsNoInherit(_, _, _, _, _)
dfsNoInherit(tx, level, index, indexMap, isError, out) ==
  IF tx.type \notin CallTypes THEN [out |-> out, indexMap |-> indexMap]
  ELSE
    LET innerTx == internalTxTraceToInnerTx(tx, FrameName(tx.type, level, indexMap),
                                            level, index)
        err     == innerTx.isError
    IN callsNoInherit(tx, 1, level,
                      [out |-> Append(out, [innerTx EXCEPT !.isError = err]),
                       indexMap |-> indexMap], err)
callsNoInherit(tx, k, level, acc, isError) ==
  IF k > Len(tx.calls) THEN acc
  ELSE LET r == dfsNoInherit(tx.calls[k], level + 1, k + 1,
                             [acc.indexMap EXCEPT ![level] = k], isError, acc.out)
       IN callsNoInherit(tx, k + 1, level, r, isError)

RECURSIVE dfs(_, _, _, _, _, _), dfsCalls(_, _, _, _, _)
dfs(tx, level, index, indexMap, isError, out) ==
  IF tx.type \notin CallTypes THEN [out |-> out, indexMap |-> indexMap]
  ELSE
    LET innerTx == internalTxTraceToInnerTx(tx, FrameName(tx.type, level, indexMap),
                                            level, index)
        err     == IF ~isError THEN innerTx.isError ELSE isError
    IN dfsCalls(tx, 1, level,
                [out |-> Append(out, [innerTx EXCEPT !.isError = err]),
                 indexMap |-> indexMap], err)
dfsCalls(tx, k, level, acc, isError) ==
  IF k > Len(tx.calls) THEN acc
  ELSE LET r == dfs(tx.calls[k], level + 1, k + 1,
                    [acc.indexMap EXCEPT ![level] = k], isError, acc.out)
       IN dfsCalls(tx, k + 1, level, r, isError)

\* internalTxTraceToInnerTxs: indexMap[0] = 1, level 0, index 1, and the
\* root's own error as the inherited one.
internalTxTraceToInnerTxs(tx) ==
  dfs(tx, 0, 1, [i \in 0..MaxDepth |-> IF i = 0 THEN 1 ELSE 0], tx.err, <<>>).out

-----------------------------------------------------------------------------
TypeOK ==
  /\ \A i \in DOMAIN innerTxs :
       /\ DOMAIN innerTxs[i] = {"dept", "internalIndex", "isError", "callType", "name"}
       /\ innerTxs[i].dept \in 0..MaxDepth
       /\ innerTxs[i].internalIndex \in 0..MaxCalls
       /\ innerTxs[i].isError \in BOOLEAN
       /\ innerTxs[i].callType \in CallTypes
       /\ Head(innerTxs[i].name) = innerTxs[i].callType
       /\ Tail(innerTxs[i].name) \in Seq(1..MaxCalls)
  /\ done \in BOOLEAN

Init ==
  /\ trace \in Frames(MaxDepth)
  /\ innerTxs = <<>>
  /\ done = FALSE

\* GetInternalTransactions with the trace built (the cache disabled or
\* missed): the flattened trace is the answer.
GetInternalTransactions ==
  /\ ~done
  /\ innerTxs' = internalTxTraceToInnerTxs(trace)
  /\ done' = TRUE
  /\ UNCHANGED trace

\* The request has returned.
Returned ==
  /\ done
  /\ UNCHANGED vars

Next == GetInternalTransactions \/ Returned

Spec == Init /\ [][Next]_vars

-----------------------------------------------------------------------------
(* Reference definition: a pre-order walk over trace addresses.            *)

\* The frame at trace address p (p[i] is a 1-based index into calls).
RECURSIVE FrameAt(_, _)
FrameAt(tx, p) == IF p = <<>> THEN tx ELSE FrameAt(tx.calls[Head(p)], Tail(p))

\* The addresses of the frames whose type, and every ancestor's type, is
\* a call type.
RECURSIVE CallPaths(_)
CallPaths(tx) ==
  IF tx.type \notin CallTypes THEN {}
  ELSE {<<>>} \cup UNION {{<<k>> \o p : p \in CallPaths(tx.calls[k])} :
                            k \in 1..Len(tx.calls)}

\* Pre-order: an ancestor before its descendants, earlier calls first.
PreOrderLess(p, q) ==
  \/ Len(p) < Len(q) /\ p = SubSeq(q, 1, Len(p))
  \/ \E i \in 1..Len(p) :
       /\ i <= Len(q) /\ p[i] < q[i]
       /\ SubSeq(p, 1, i - 1) = SubSeq(q, 1, i - 1)

\* An InnerTx without its error flag.
Shape(r) == [dept |-> r.dept, internalIndex |-> r.internalIndex,
             callType |-> r.callType, name |-> r.name]

\* The list of InnerTx shapes a pre-order walk of the trace produces.
ExpectedShapes(tx) ==
  LET ps == SetToSortSeq(CallPaths(tx), PreOrderLess)
  IN [i \in DOMAIN ps |->
        [dept |-> Len(ps[i]),
         internalIndex |-> IF ps[i] = <<>> THEN 0 ELSE Last(ps[i]),
         callType |-> FrameAt(tx, ps[i]).type,
         name |-> <<FrameAt(tx, ps[i]).type>> \o ps[i]]]

\* The flattened trace is the pre-order walk of its call frames: one
\* InnerTx per frame reachable through call-type frames only, ancestors
\* first and calls in order, each named by its type and trace address and
\* carrying its depth and its index among its siblings. This is what dfs's
\* shared indexMap, written in the for loop and read for the name, must
\* produce on every trace shape.
InnerTxsArePreOrderWalk ==
  done =>
    /\ Len(innerTxs) = Cardinality(CallPaths(trace))
    /\ [i \in DOMAIN innerTxs |-> Shape(innerTxs[i])] = ExpectedShapes(trace)

\* An InnerTx is an error exactly when its frame or one of its ancestors
\* failed: dfs passes the inherited flag down and never up or sideways.
ErrorInheritedFromAncestors ==
  done =>
    \A i \in DOMAIN innerTxs :
      LET p == Tail(innerTxs[i].name)
      IN innerTxs[i].isError =
           \E j \in 0..Len(p) : FrameAt(trace, SubSeq(p, 1, j)).err
=============================================================================
