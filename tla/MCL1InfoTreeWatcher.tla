------------------------- MODULE MCL1InfoTreeWatcher -------------------------
(* Roots 0 to 3 synced at L1 blocks 1, 2, 4 and 5, one confirmation, an   *)
(* L1 head up to 6 and three reorgs: the latest confirmed root changes     *)
(* several times, a reorg can invalidate a root or shorten L1 below an     *)
(* adopted one, and a later reorg can hit a root adopted after the first.  *)
EXTENDS L1InfoTreeWatcher

MCRootBlock == [i \in 0..3 |-> <<1, 2, 4, 5>>[i + 1]]
=============================================================================
