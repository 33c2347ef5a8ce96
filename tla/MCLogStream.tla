----------------------------- MODULE MCLogStream -----------------------------
(***************************************************************************)
(* Small instances of LogStream for TLC.                                   *)
(***************************************************************************)
EXTENDS LogStream

CONSTANTS v1, v2, r1

\* All viewers watch the same run.
MCWatches == [v \in Viewers |-> r1]

Two == [r \in Runs |-> 2]
Three == [r \in Runs |-> 3]
Four == [r \in Runs |-> 4]
=============================================================================
