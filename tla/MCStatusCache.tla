---------------------------- MODULE MCStatusCache ----------------------------
(* Two requests and the alert thread on one worker.  The caches of two        *)
(* workers share nothing but the settings and the panels.                     *)
EXTENDS StatusCache, TLC

CONSTANTS r1, r2, w1

MCRequests == {r1, r2}
MCWorkers == {w1}
Symmetric == Permutations(MCRequests)
=============================================================================
