-------------------------- MODULE MCRunSubmission --------------------------
(***************************************************************************)
(* A small instance of RunSubmission for TLC.                              *)
(***************************************************************************)
EXTENDS RunSubmission, TLC

CONSTANTS r1, r2, u1, u2, id1, id2, good, bad

\* The generators accept one of the two bodies.
MCCompiles == [k \in Kinds |-> {good}]

\* Every endpoint gets a request, and one of them a body that does not compile,
\* but not in all combinations: the handlers differ in nothing but the generator.
Arrivals ==
  /\ <<kind[r1], payload[r1]>> \in
       {<<None, None>>, <<"ea", good>>, <<"gp", good>>, <<"gp", bad>>}
  /\ <<kind[r2], payload[r2]>> \in {<<None, None>>, <<"ml", good>>, <<"pso", good>>}
  /\ {kind[r1], kind[r2]} \notin {{"ea", "pso"}, {"gp", "ml"}}
=============================================================================
