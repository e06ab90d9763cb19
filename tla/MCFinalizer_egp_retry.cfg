CONSTANTS
  t1 = t1
  t2 = t2
  t3 = t3
  alice = alice
  bob = bob
  Txs <- MCTxs
  Sender <- MCSender
  GasPrice <- MCGasPrice
  Used <- MCUsed
  Reserved <- MCReserved
  EstUsed <- MCEstUsed
  EstReserved <- MCEstReserved
  Size <- MCSize
  Rom <- MCRom
  BatchMax <- MCBatchMax
  MaxTxsPerBatch = 2
  MaxBatches = 2
  MaxL2BlocksPerBatch = 1
  EgpValues = {1, 2, 3}
  EgpCalcFails <- MCEgpCalcFails
  EgpSecondPassFails <- MCEgpSecondPassFails
  FinalDeviation = 10
  PoolWriteFails <- MCPoolWriteFails
  ExecFailures = {"dbError", "executorError", "noResponses", "romLevelNoResponses"}
SPECIFICATION FairSpec
PROPERTY EveryTxResolved
