---------------------------- MODULE MCMetricsStore ----------------------------
(* One agent: agents share no row and no address.                            *)
EXTENDS MetricsStore

CONSTANT a1

MCAgents == {a1}
=============================================================================
