------------------------- MODULE MCDynamicGasPrice -------------------------
(***************************************************************************)
(* Four batches: one with a zero tip among positive ones, one without txs  *)
(* (it contributes MinPrice), one with repeated tips above MaxPrice, and   *)
(* one whose tips are all zero. Apollo switches between a config that      *)
(* samples two batches at the 60th percentile with a price ceiling, one    *)
(* that samples one batch at the 100th without a ceiling, and a disabled  *)
(* one, and the second with SampleNumber 0. The pool's two ready txs      *)
(* congest it under the first config only.                                 *)
(***************************************************************************)
EXTENDS DynamicGasPrice

MCBatchTips == <<<<0, 2, 1>>, <<>>, <<3, 3, 6>>, <<0, 0>>>>

MCConfigA == [enabled |-> TRUE, congestionTxThreshold |-> 1, checkBatches |-> 2, sampleNumber |-> 2,
              percentile |-> 60, minPrice |-> 1, maxPrice |-> 4]
MCConfigB == [enabled |-> TRUE, congestionTxThreshold |-> 3, checkBatches |-> 1, sampleNumber |-> 3,
              percentile |-> 100, minPrice |-> 2, maxPrice |-> 0]
MCConfigOff == [MCConfigA EXCEPT !.enabled = FALSE]
MCConfigZero == [MCConfigB EXCEPT !.sampleNumber = 0]

MCApolloConfigs == {MCConfigA, MCConfigB, MCConfigOff, MCConfigZero}
=============================================================================
