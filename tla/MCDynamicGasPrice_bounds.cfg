CONSTANTS
  MaxBatch = 4
  BatchTips <- MCBatchTips
  InitConfig <- MCConfigA
  ApolloEnabled = FALSE
  ApolloConfigs <- MCApolloConfigs
  RawPrices = {0, 9}
  InitPrice = 1
  ReadyTxCounts = {0, 2}
SPECIFICATION Spec
INVARIANT DynamicPriceWithinBounds
