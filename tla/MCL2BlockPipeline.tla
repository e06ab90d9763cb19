------------------------- MODULE MCL2BlockPipeline -------------------------
(* Model-checking instance of L2BlockPipeline.                             *)
EXTENDS L2BlockPipeline

\* The pipeline refines the abstract block stream.
AbsSpec == Abs!Spec
=============================================================================
