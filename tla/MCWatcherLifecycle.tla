------------------------- MODULE MCWatcherLifecycle -------------------------
(* Small instances of WatcherLifecycle for TLC. *)
EXTENDS WatcherLifecycle, TLC

CONSTANTS k1, k2, w1, w2

(* An old urdyn and a new one in the same project. *)
TwoVersions == k1 :> "old" @@ k2 :> "new"
=============================================================================
