------------------------------ MODULE MCInnerTxs ------------------------------
(* Traces of depth 2 with up to 2 calls per frame, over one accepted type  *)
(* and one the walk skips, each frame failing or not: every shape of       *)
(* sibling, nesting, skipped subtree and inherited error up to that size.  *)
EXTENDS InnerTxs

MCFrameTypes == {"call", "other"}
=============================================================================
