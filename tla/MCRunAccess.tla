---------------------------- MODULE MCRunAccess ----------------------------
(***************************************************************************)
(* Small instances of RunAccess for TLC.                                   *)
(***************************************************************************)
EXTENDS RunAccess, TLC

CONSTANTS r1, r2, r3, u1, u2, id1, id2, e1, e2, e3

\* Two users and an address that belongs to nobody.
MCUserOf == (e1 :> u1) @@ (e2 :> u2) @@ (e3 :> None)

\* Nobody, both users, and an address that is wrong.
MCLists == {<<>>, <<e1, e2>>, <<e2, e3>>}

Twice == {<<e2, e2>>}

\* Bound: one cancelled context.  Its statements fail, which those of others may as well.
FewCancelled == Cardinality(cancelled) <= 1

\* Requests are interchangeable.  Used in the runs without liveness.
Symmetry == Permutations(Requests) \cup Permutations(RunIds)
=============================================================================
