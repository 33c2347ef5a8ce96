------------------------------ MODULE MCCodeGen ------------------------------
(***************************************************************************)
(* Requests for CodeGen.  Options that code handles alike are represented  *)
(* by one or two of them; each set has one that is unknown or missing.     *)
(***************************************************************************)
EXTENDS CodeGen

MCAlgorithms == ValidAlgorithms \cup {"unknown"}

\* Options that are good in themselves; the sets below vary some of them at a time.
EAOption ==
  [algorithm |-> "eaSimple", individual |-> "integer", evaluation |-> "sphere",
   customEval |-> "none", mutation |-> "mutFlipBit", crossover |-> "cxOnePoint",
   selection |-> "selTournament", generations |-> 2, hof |-> 1, weights |-> <<-1>>,
   range |-> <<1, 5>>]

\* Algorithm, operators, generations and the hall of fame, in all combinations.
MCEAOperators ==
  {[EAOption EXCEPT !.algorithm = a, !.crossover = c, !.mutation = m, !.selection = s,
                    !.generations = g, !.hof = h] :
     a \in MCAlgorithms,
     c \in {"cxOnePoint", "cxUniform", "cxBlend", "cxBinomial", "cxExponential"},
     m \in {"mutFlipBit", "mutGaussian", "registration", "DE/rand/1", "DE/best/1"},
     s \in {"selTournament", "selRandom", "unknown"},
     g \in {1, 2},
     h \in {0, 1}}

\* Individuals, evaluation, weights and ranges.
MCEAData ==
  {[EAOption EXCEPT !.algorithm = a, !.crossover = IF a = "de" THEN "cxExponential" ELSE @,
                    !.individual = i, !.evaluation = e, !.customEval = d, !.weights = w,
                    !.range = r] :
     a \in {"eaSimple", "de"},
     i \in {"binarystring", "floatingpoint", "integer", "unknown"},
     e \in {"sphere", "evalOneMax", "evalProduct", "custom"},
     d \in Numbers \cup {"none"},
     w \in {<<>>, <<0>>, <<1>>, <<1, 1>>, <<1, -1>>, <<2, -1>>},
     r \in {<<>>, <<2, 4>>, <<5, 1>>}}

MCEARequests == MCEAOperators \cup MCEAData

\* Algorithm, trees, operators and the hall of fame, in all combinations.
MCGPOperators ==
  [algorithm : MCAlgorithms,
   operators : {{}, {"add", "sub", "mul", "lf"}, {"div", "sin"}, {"add", "unknown"}},
   expr : {"genFull", "unknown"}, exprMut : {"genGrow", "unknown"},
   individual : {"initIterate", "initRepeat"}, population : {"initRepeat"},
   crossover : {"cxOnePoint", "cxSemantic"},
   mutation : {"mutUniform", "mutShrink", "mutEphemeral", "mutSemantic"},
   mode : {"one", "unknown"}, selection : {"selTournament", "unknown"},
   hof : {0, 1}, weights : {<<-1>>}]

\* Primitives that semantic operators lack, individuals and populations.
MCGPData ==
  [algorithm : {"eaSimple"}, operators : {{"add", "sub", "mul"}, {"sub", "mul", "lf"}},
   expr : {"genFull"}, exprMut : {"genFull"}, individual : Initialisers, population : Initialisers,
   crossover : {"cxOnePoint", "cxSemantic"}, mutation : {"mutShrink", "mutSemantic"},
   mode : {"all"}, selection : {"selBest"}, hof : {1}, weights : {<<-1>>}]

MCGPRequests == MCGPOperators \cup MCGPData

MCMLRequests ==
  [algorithm : MCAlgorithms, evaluation : Numbers \cup {"none"},
   crossover : {"cxOnePoint", "cxUniform", "unknown"},
   mutation : {"mutFlipBit", "mutGaussian"}, selection : {"selTournament", "selBest", "unknown"},
   hof : {0, 1}, weights : {<<1>>, <<1, -1>>}]

MCPSORequests ==
  [algorithm : {"original", "multiswarm", "unknown"}, dimensions : 0..3,
   position : {<<-5, 5>>, <<5, 5>>}, speed : {<<-1, 1>>, <<1, -1>>},
   benchmark : {"sphere", "ackley", "unknown"}, populationSize : 0..1, generations : 0..1,
   weights : {<<0>>, <<-1>>}]

\* Requests that name an algorithm, and are good otherwise.
MCNamedAlgorithms == {[EAOption EXCEPT !.algorithm = a] : a \in MCAlgorithms \ {"de"}}
NoRequests == {}
=============================================================================
