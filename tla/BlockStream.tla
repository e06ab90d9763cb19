----------------------------- MODULE BlockStream -----------------------------
(***************************************************************************)
(* Abstract specification of what the finalizer's L2-block pipeline        *)
(* promises to the state database: L2 blocks are persisted exactly once,   *)
(* in the order the finalize loop closed them, and only once the executor  *)
(* has made the state it produced for them durable (spec.md sections 3    *)
(* "Flush-id pair" and 5 "Ordering guarantees").                           *)
(***************************************************************************)
EXTENDS Naturals, Sequences

CONSTANT MaxBlocks          \* bound on the number of L2 blocks closed

VARIABLES
  closed,    \* number of L2 blocks closed by the finalize loop
  durable,   \* blocks 1..durable have their executor state flushed
  stored     \* block numbers persisted in the state, in persist order

vars == <<closed, durable, stored>>

TypeOK ==
  /\ closed \in 0..MaxBlocks
  /\ durable \in 0..closed
  /\ stored \in Seq(1..MaxBlocks)

Init ==
  /\ closed = 0
  /\ durable = 0
  /\ stored = <<>>

\* The finalize loop closes the WIP L2 block.
Close ==
  /\ closed < MaxBlocks
  /\ closed' = closed + 1
  /\ UNCHANGED <<durable, stored>>

\* The executor flushes the state of one or more processed blocks.
Flush ==
  /\ \E d \in durable + 1 .. closed : durable' = d
  /\ UNCHANGED <<closed, stored>>

\* The next block in closing order is persisted once it is durable.
Persist ==
  LET n == Len(stored) + 1 IN
  /\ n <= durable
  /\ stored' = Append(stored, n)
  /\ UNCHANGED <<closed, durable>>

Next == Close \/ Flush \/ Persist

Spec == Init /\ [][Next]_vars
=============================================================================
