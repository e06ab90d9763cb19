--------------------------- MODULE DynamicGasPrice ---------------------------
(***************************************************************************)
(* The dynamic gas price suggester of the JSON-RPC server                  *)
(* (src/jsonrpc/dynamic_gas_price_xlayer.go): a goroutine that, on every   *)
(* timer tick, samples the lowest positive tips of recent batches, takes a *)
(* percentile, clamps it to [MinPrice, MaxPrice], averages it with the raw *)
(* L2 gas price when the pool is not congested, and caches the result with *)
(* the batch number it was computed at. The sequencer seals batches        *)
(* concurrently, and apollo's change callback (fireJsonRPC,                *)
(* src/config/apollo/jsonrpc.go) replaces the config the suggester reloads *)
(* on its next tick. The L2 gas price suggester loop                       *)
(* (src/gasprice/gaspricesuggester.go) sets the pool's L2 gas price that   *)
(* calcDynamicGP averages with.                                            *)
(*                                                                         *)
(* Tips are small integers; a batch is the sequence of the tips of its     *)
(* txs. The RPC failures of calcDynamicGP, and a change fireJsonRPC fails  *)
(* to unmarshal, return without changing any state and are stuttering     *)
(* steps here.                                                             *)
(***************************************************************************)
EXTENDS Integers, SequencesExt, Functions, TLC

CONSTANTS
  MaxBatch,       \* bound: batches the sequencer seals in a run
  BatchTips,      \* BatchTips[b]: tips (GasTipCap) of the txs of batch b
  InitConfig,     \* e.cfg.DynamicGP at start
  ApolloEnabled,  \* getApolloConfig().Enable()
  ApolloConfigs,  \* DynamicGP configs apollo can hold
  RawPrices,      \* L2 gas prices the L2 gas pricer can set in the pool
  ReadyTxCounts,  \* ready tx counts pool.GetReadyTxCount can return
  InitPrice       \* dgpMan.lastPrice when the suggester starts

\* DynamicGPConfig, without UpdatePeriod (time is left open).
DynamicGPConfigs ==
  [enabled : BOOLEAN, congestionTxThreshold : Nat, checkBatches : Nat,
   sampleNumber : Nat, percentile : 0..100, minPrice : Nat, maxPrice : Nat]

ASSUME
  /\ MaxBatch \in Nat \ {0}
  /\ BatchTips \in [1..MaxBatch -> Seq(Nat)]
  /\ ({InitConfig} \cup ApolloConfigs) \subseteq DynamicGPConfigs
  /\ ApolloEnabled \in BOOLEAN
  /\ InitPrice \in Nat /\ RawPrices \subseteq Nat /\ ReadyTxCounts \subseteq Nat

VARIABLES
  l2BatchNumber,      \* last batch number in the state
  dgpCfg,             \* e.cfg.DynamicGP
  apolloCfg,          \* getApolloConfig().DynamicGP
  poolL2GasPrice,     \* the L2 gas price pool.GetGasPrices returns
  lastL2BatchNumber,  \* dgpMan.lastL2BatchNumber
  lastPrice,          \* dgpMan.lastPrice
  results,            \* the sorted sample of the last update (a local)
  averaged,           \* whether the last update averaged with the raw price
  calcCfg             \* the config the last update ran with

vars == <<l2BatchNumber, dgpCfg, apolloCfg, poolL2GasPrice, lastL2BatchNumber,
          lastPrice, results, averaged, calcCfg>>

-----------------------------------------------------------------------------
\* txSorter and bigIntArray: tips and prices sort ascending.
TipLess(x, y) == x < y

(* getL2BatchTxsTips: the txs sorted by tip, ascending; the first `limit`  *)
(* positive tips.                                                          *)
\* The limit is tested after the append, so a limit of 0 or less still
\* takes one tip.
getL2BatchTxsTips(b, limit) ==
  LET positive == SelectSeq(SortSeq(BatchTips[b], TipLess),
                            LAMBDA tip : tip > 0)
      taken    == IF limit < 1 THEN 1 ELSE limit
  IN SubSeq(positive, 1, IF Len(positive) < taken THEN Len(positive) ELSE taken)

\* The batches sampled from `number` down: at most checkBatches, above 0.
SampledBatches(c, number) ==
  {b \in 1..number : b > number - c.checkBatches}

\* The collected tips: a batch without positive tips contributes minPrice.
CollectTips(c, number) ==
  FoldLeft(LAMBDA acc, b :
             acc \o (IF getL2BatchTxsTips(b, c.sampleNumber) = <<>>
                       THEN <<c.minPrice>>
                       ELSE getL2BatchTxsTips(b, c.sampleNumber)),
           <<>>,
           SetToSortSeq(SampledBatches(c, number), LAMBDA x, y : x > y))

\* results[(len(results)-1)*Percentile/100] of the sorted sample.
\* Mutant: the division by 100 done before the multiplication.
PercentileOfDivFirst(c, sorted) ==
  sorted[((Len(sorted) - 1) \div 100) * c.percentile + 1]

PercentileOf(c, sorted) == sorted[((Len(sorted) - 1) * c.percentile) \div 100 + 1]

\* The MinPrice floor, then the MaxPrice ceiling when MaxPrice > 0.
ClampPrice(c, price) ==
  LET floor == IF c.minPrice > price THEN c.minPrice ELSE price
  IN IF c.maxPrice > 0 /\ floor > c.maxPrice THEN c.maxPrice ELSE floor

\* Mutant: Sub for Add.
getAvgPriceSub(low, high) == (high - low) \div 2

getAvgPrice(low, high) == (low + high) \div 2

\* isCongested: the pool's ready txs reach CongestionTxThreshold.
isCongested(c, txCount) == txCount >= c.congestionTxThreshold

-----------------------------------------------------------------------------
TypeOK ==
  /\ l2BatchNumber \in 0..MaxBatch
  /\ dgpCfg \in DynamicGPConfigs
  /\ apolloCfg \in DynamicGPConfigs
  /\ poolL2GasPrice \in RawPrices
  /\ lastL2BatchNumber \in 0..l2BatchNumber
  /\ lastPrice \in Nat
  /\ results \in Seq(Nat)
  /\ averaged \in BOOLEAN
  /\ calcCfg \in DynamicGPConfigs

\* loadJsonRPC: the json-rpc config loaded from apollo at startup becomes
\* the node's config, e.cfg.DynamicGP included; an unmarshal failure is
\* fatal, so the node only starts with one that parsed.
loadJsonRPC == dgpCfg = InitConfig

Init ==
  /\ l2BatchNumber = 0
  /\ loadJsonRPC
  /\ apolloCfg \in ApolloConfigs
  /\ poolL2GasPrice \in RawPrices
  /\ lastL2BatchNumber = 0
  /\ lastPrice = InitPrice
  /\ results = <<>>
  /\ averaged = FALSE
  /\ calcCfg = InitConfig

\* The sequencer seals the next batch.
sealBatch ==
  /\ l2BatchNumber < MaxBatch
  /\ l2BatchNumber' = l2BatchNumber + 1
  /\ UNCHANGED <<dgpCfg, apolloCfg, poolL2GasPrice, lastL2BatchNumber, lastPrice,
                 results, averaged, calcCfg>>

\* The second half of calcDynamicGP under config c: the sample is taken from
\* the cached batch number down; the congestion test, the last-block test
\* and the pool's L2 gas price are read from the pool and the state; the price and
\* the given batch number are cached together under cacheLock.
SetCache(c, number) ==
  \E txCount \in ReadyTxCounts, isLastBlockEmpty \in BOOLEAN :
    LET rawGP  == poolL2GasPrice
        sorted == SortSeq(CollectTips(c, lastL2BatchNumber), TipLess)
        price  == ClampPrice(c, IF sorted = <<>> THEN lastPrice ELSE PercentileOf(c, sorted))
        avg    == ~isCongested(c, txCount) \/ isLastBlockEmpty
    IN /\ lastPrice' = IF avg THEN getAvgPrice(rawGP, price) ELSE price
       /\ lastL2BatchNumber' = number
       /\ results' = sorted
       /\ averaged' = avg
       /\ calcCfg' = c

\* calcDynamicGP under config c: nothing happens while the batch number is
\* the cached one.
\* Mutant: the batch number is not cached with the price.
calcDynamicGPKeepsNumber(c) ==
  \/ /\ l2BatchNumber = lastL2BatchNumber
     /\ UNCHANGED <<lastL2BatchNumber, lastPrice, results, averaged, calcCfg>>
  \/ /\ l2BatchNumber # lastL2BatchNumber
     /\ SetCache(c, lastL2BatchNumber)

calcDynamicGP(c) ==
  \/ /\ l2BatchNumber = lastL2BatchNumber
     /\ UNCHANGED <<lastL2BatchNumber, lastPrice, results, averaged, calcCfg>>
  \/ /\ l2BatchNumber # lastL2BatchNumber
     /\ SetCache(c, l2BatchNumber)

\* A tick of runDynamicGPSuggester's timer: reload e.cfg.DynamicGP from
\* apollo's config when apollo is enabled, then calcDynamicGP under it if
\* the suggester is enabled.
\* Mutant: the update runs under the config in force before the reload.
updateTimerTickCalcFirst ==
  /\ dgpCfg' = IF ApolloEnabled THEN apolloCfg ELSE dgpCfg
  /\ \/ /\ dgpCfg.enabled
        /\ calcDynamicGP(dgpCfg)
     \/ /\ ~dgpCfg.enabled
        /\ UNCHANGED <<lastL2BatchNumber, lastPrice, results, averaged, calcCfg>>
  /\ UNCHANGED <<l2BatchNumber, apolloCfg, poolL2GasPrice>>

updateTimerTick ==
  LET c == IF ApolloEnabled THEN apolloCfg ELSE dgpCfg IN
  /\ dgpCfg' = c
  /\ \/ /\ c.enabled
        /\ calcDynamicGP(c)
     \/ /\ ~c.enabled
        /\ UNCHANGED <<lastL2BatchNumber, lastPrice, results, averaged, calcCfg>>
  /\ UNCHANGED <<l2BatchNumber, apolloCfg, poolL2GasPrice>>

\* fireJsonRPC: apollo reports a new json-rpc config; jsonrpc.UpdateConfig
\* stores its DynamicGP under getApolloConfig's lock.
fireJsonRPC ==
  /\ ApolloEnabled
  /\ \E newConf \in ApolloConfigs \ {apolloCfg} : apolloCfg' = newConf
  /\ UNCHANGED <<l2BatchNumber, dgpCfg, poolL2GasPrice, lastL2BatchNumber, lastPrice,
                 results, averaged, calcCfg>>

\* An update tick of the L2 gas price suggester loop: the pricer cfg.Type
\* selected (last n batches, follower, default or fixed) computes a new L2
\* gas price and stores it in the pool. The clean tick only deletes pool
\* gas price history, which nothing here reads.
updateGasPriceAvg ==
  /\ \E price \in RawPrices : poolL2GasPrice' = price
  /\ UNCHANGED <<l2BatchNumber, dgpCfg, apolloCfg, lastL2BatchNumber, lastPrice, results,
                 averaged, calcCfg>>

Next == sealBatch \/ updateTimerTick \/ fireJsonRPC \/ updateGasPriceAvg

Spec == Init /\ [][Next]_vars

\* The timer fires every UpdatePeriod for as long as the node runs; apollo
\* changes, sealed batches and new L2 gas prices come from outside and are
\* not assumed.
FairSpec == Spec /\ WF_vars(updateTimerTick)

-----------------------------------------------------------------------------
(* Properties                                                              *)

\* Reference definition of the percentile: the sample value v with at most
\* k values below it and more than k values at or below it, for
\* k = (n-1)*Percentile/100, independent of any sorting.
Abs(n) == IF n < 0 THEN -n ELSE n

RefPercentile(s) ==
  LET k == ((Len(s) - 1) * calcCfg.percentile) \div 100
      Below(v)   == Cardinality({i \in DOMAIN s : s[i] < v})
      AtMost(v)  == Cardinality({i \in DOMAIN s : s[i] <= v})
  IN CHOOSE v \in Range(s) : Below(v) <= k /\ k < AtMost(v)

\* An update on a congested pool caches exactly the Percentile-th smallest
\* sampled tip, moved into [MinPrice, MaxPrice] (no ceiling when MaxPrice is
\* 0) when it lies outside: the index arithmetic and the two clamps of
\* calcDynamicGP, for every sample size the windows produce.
CongestedPriceIsClampedPercentile ==
  (~averaged /\ results # <<>>) =>
    LET v      == RefPercentile(results)
        bounds == {p \in 0..(v + calcCfg.minPrice) : p >= calcCfg.minPrice
                     /\ (calcCfg.maxPrice > 0 => p <= calcCfg.maxPrice)}
    IN IF bounds = {} THEN lastPrice = calcCfg.maxPrice  \* ceiling applied last
       ELSE /\ lastPrice \in bounds
            /\ \A p \in bounds : Abs(lastPrice - v) <= Abs(p - v)

\* The config comment of CheckBatches (line 27): the sample is taken from
\* the CheckBatches most recent batches, those at or below the batch number
\* the update read and caches; every value is a positive tip of one of
\* them, or the MinPrice that stands in for one without.
SampleFromRecentBatches ==
  \A i \in DOMAIN results :
    \/ results[i] = calcCfg.minPrice
    \/ \E b \in 1..lastL2BatchNumber :
         /\ b > lastL2BatchNumber - calcCfg.checkBatches
         /\ results[i] > 0 /\ \E j \in DOMAIN BatchTips[b] : BatchTips[b][j] = results[i]

\* The config comments of MaxPrice and MinPrice (lines 37-41): the dynamic
\* gas price an update caches stays within the [MinPrice, MaxPrice] of the
\* config it ran with.
DynamicPriceWithinBounds ==
  lastL2BatchNumber > 0 =>
    /\ lastPrice >= calcCfg.minPrice
    /\ calcCfg.maxPrice > 0 => lastPrice <= calcCfg.maxPrice

\* As long as the config in force (the static one, or apollo's on reload)
\* enables the suggester again and again, every sealed batch number is
\* eventually cached: a tick that reloads a disabled config leaves the
\* cache behind, and the next enabled tick catches it up.
CacheCatchesUp ==
  []<>dgpCfg.enabled =>
    \A b \in 1..MaxBatch : (l2BatchNumber >= b) ~> (lastL2BatchNumber >= b)

\* A config apollo holds reaches the cache at the first update after a new
\* batch: while apollo keeps an enabled config c and a batch has been sealed
\* since the cached one, the timer eventually caches a price computed under
\* c. Without a new batch the old price stays, whatever MinPrice or
\* MaxPrice c sets (line 102).
ConfigAppliedWithNextBatch ==
  ApolloEnabled =>
    \A c \in ApolloConfigs :
      (apolloCfg = c /\ c.enabled /\ l2BatchNumber # lastL2BatchNumber)
        ~> (calcCfg = c \/ apolloCfg # c)
=============================================================================
