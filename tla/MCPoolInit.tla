------------------------------ MODULE MCPoolInit ------------------------------
(***************************************************************************)
(* Small instances of PoolInit for TLC.                                    *)
(***************************************************************************)
EXTENDS PoolInit, TLC

CONSTANTS c1, c2, c3, c4

\* Callers are interchangeable.
Symmetry == Permutations(Callers)
=============================================================================
