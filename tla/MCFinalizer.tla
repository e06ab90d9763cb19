---------------------------- MODULE MCFinalizer ----------------------------
(***************************************************************************)
(* Model of the finalize loop for TLC: three txs, two from one sender so  *)
(* that cascades happen, one whose reserved counters exceed the node       *)
(* limit, one whose worker estimate is below its real counters, and prices *)
(* that let the two EGP passes deviate.                                    *)
(***************************************************************************)
EXTENDS Finalizer, TLC

CONSTANTS t1, t2, t3, alice, bob

MCTxs == {t1, t2, t3}
MCSender == (t1 :> alice) @@ (t2 :> alice) @@ (t3 :> bob)
MCGasPrice == (t1 :> 2) @@ (t2 :> 3) @@ (t3 :> 2)
\* t1 reserves more than it uses; t2 is exact; t3's worker estimate fits
\* but its reserved counters are over the node limit
MCUsed == (t1 :> 2) @@ (t2 :> 1) @@ (t3 :> 2)
MCReserved == (t1 :> 5) @@ (t2 :> 1) @@ (t3 :> 7)
MCEstUsed == (t1 :> 1) @@ (t2 :> 1) @@ (t3 :> 2)
MCEstReserved == (t1 :> 1) @@ (t2 :> 1) @@ (t3 :> 2)
MCSize == (t1 :> 1) @@ (t2 :> 2) @@ (t3 :> 1)
MCRom == (t1 :> {"none", "nonce"}) @@ (t2 :> {"oog", "intrinsic"}) @@ (t3 :> {"none", "ooc"})
\* t1 and t2 fit one batch by zk counters (2 + 3 high, then 1 + 3 high)
\* but not by bytes
MCBatchMax == [zk |-> 6, bytes |-> 2]

\* Txs whose first EGP calculation fails
MCEgpCalcFails == {t2}
MCEgpSecondPassFails == {t1}
\* Txs whose pool status writes may fail: one deleted on a ROM error or
\* a cascade (t2), one rejected as node OOC (t3)
MCPoolWriteFails == {t2, t3}
=============================================================================
