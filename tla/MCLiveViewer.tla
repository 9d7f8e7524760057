----------------------------- MODULE MCLiveViewer -----------------------------
(* Instances of LiveViewer for TLC. *)
EXTENDS LiveViewer

ThreeImages == {0, 1, 2}
OneStale == [i \in ThreeImages |-> IF i = 1 THEN "stale" ELSE IF i = 2 THEN "miss" ELSE "ok"]
===============================================================================
