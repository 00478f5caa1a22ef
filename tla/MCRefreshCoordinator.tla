----------------------- MODULE MCRefreshCoordinator -----------------------
(* A small instance of the refresh coordinator for TLC: two goroutines (one   *)
(* leaving while its successor runs), one context, two callers of Close.      *)
EXTENDS RefreshCoordinator
=============================================================================
