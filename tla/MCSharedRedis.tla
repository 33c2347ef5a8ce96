---------------------------- MODULE MCSharedRedis ----------------------------
(***************************************************************************)
(* A small instance of SharedRedis for TLC.                                *)
(***************************************************************************)
EXTENDS SharedRedis, TLC

CONSTANTS v1, v2, r1, r2, p1

\* Every viewer watches a run of its own.
MCWatches == (v1 :> r1) @@ (v2 :> r2)

\* The second run is silent from its first entry on.
MCMaxLog == (r1 :> 2) @@ (r2 :> 1)
=============================================================================
