CONSTANTS
  FrameTypes <- MCFrameTypes
  MaxDepth = 2
  MaxCalls = 2
SPECIFICATION Spec
INVARIANT TypeOK
INVARIANT InnerTxsArePreOrderWalk
INVARIANT ErrorInheritedFromAncestors
