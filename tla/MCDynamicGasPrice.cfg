CONSTANTS
  MaxBatch = 4
  BatchTips <- MCBatchTips
  InitConfig <- MCConfigA
  ApolloEnabled = TRUE
  ApolloConfigs <- MCApolloConfigs
  RawPrices = {1, 3}
  InitPrice = 1
  ReadyTxCounts = {0, 2}
SPECIFICATION FairSpec
INVARIANT TypeOK CongestedPriceIsClampedPercentile
PROPERTY CacheCatchesUp ConfigAppliedWithNextBatch
