----------------------------- MODULE MCWatchLoop -----------------------------
(* Small instances of WatchLoop for TLC. *)
EXTENDS WatchLoop, TLC

CONSTANTS a, b, x, y

(* One file that changes twice beside one that does not change. *)
FewEdits == a :> 2 @@ b :> 0
=============================================================================
