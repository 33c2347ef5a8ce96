---------------------------- MODULE PythonProgram ----------------------------
(***************************************************************************)
(* The programs that the generators of modules/ write, as far as it        *)
(* matters whether they run: a program is a sequence of statements, and a  *)
(* statement needs names (of modules, functions, entries of the toolbox,   *)
(* results) and binds others.  A name that is missing stands for the error *)
(* Python raises there, be it a NameError, an AttributeError, a TypeError  *)
(* for a parameter that was not given or an IndexError on an empty hall of *)
(* fame.  What numbers a program computes is left out.                     *)
(*                                                                         *)
(* DEAP is not part of the repository: what its functions ask for is       *)
(* stated here from the way the generators use them.                       *)
(***************************************************************************)
EXTENDS Integers, Sequences, SequencesExt

\* undoes: what holds no more, such as a decoration of an entry registered anew.
Stmt(needs, gives) == [needs |-> needs, gives |-> gives, undoes |-> {}]

When(condition, statements) == IF condition THEN statements ELSE <<>>

\* The operators of deap.tools that requests name, with the parameters a call needs
\* beside the individuals.
ToolParams ==
  [cxOnePoint |-> {}, cxTwoPoint |-> {}, cxUniform |-> {"indpb"}, cxBlend |-> {"alpha"},
   mutFlipBit |-> {"indpb"}, mutShuffleIndexes |-> {"indpb"},
   mutGaussian |-> {"mu", "sigma", "indpb"},
   selTournament |-> {"tournsize"}, selRandom |-> {}, selBest |-> {},
   initRepeat |-> {"n"}, initIterate |-> {}]

\* The names a request may have for an operator of each sort.  "unknown" stands for
\* every text that DEAP does not have.
Crossovers == {"cxOnePoint", "cxTwoPoint", "cxUniform", "cxBlend", "unknown"}
Mutations == {"mutFlipBit", "mutShuffleIndexes", "mutGaussian", "unknown"}
Selections == {"selTournament", "selRandom", "selBest", "unknown"}
Initialisers == {"initRepeat", "initIterate", "unknown"}

\* A call of the operator works: a parameter too many is a TypeError as well.
Callable(f, given) == f \in DOMAIN ToolParams /\ ToolParams[f] = given

\* toolbox.register(entry, tools.f, ...).  An operator that DEAP does not have is an
\* error at once, one that lacks a parameter when it is called: the entry is there,
\* but of no use.
Register(entry, f, given) ==
  Stmt({"toolbox", "tools"} \cup (IF f \in DOMAIN ToolParams THEN {} ELSE {f}),
       IF Callable(f, given) THEN {entry} ELSE {})

\* toolbox.register("select", tools.f), with tournsize for a tournament: the same in
\* all generators that select.
RegisterSelect(f) ==
  Register("toolbox.select", f, IF f = "selTournament" THEN {"tournsize"} ELSE {})

\* tools.HallOfFame(size): without room for one individual its update fails.
HallOfFame(size) == Stmt({"tools"}, {"hof"} \cup (IF size > 0 THEN {"room in hof"} ELSE {}))

Evolving == {"eaSimple", "eaMuPlusLambda", "eaMuCommaLambda"}

\* util.ValidateAlgorithmName
ValidAlgorithms == Evolving \cup {"eaGenerateUpdate", "de"}
Algorithms == ValidAlgorithms \cup {"unknown"}

\* The entries of the toolbox that an algorithm of deap.algorithms calls.
AlgorithmCalls(algorithm) ==
  {"algorithms", "toolbox.evaluate", "toolbox.map", "room in hof", "fitness.values"} \cup
  CASE algorithm \in Evolving -> {"toolbox.select", "toolbox.mate", "toolbox.mutate"}
    [] algorithm = "eaGenerateUpdate" -> {"toolbox.generate", "toolbox.update"}
    [] OTHER -> {"a function that algorithms does not have"}

\* algorithms.f(...), whose calls reach the names `beyond'.
RunAlgorithm(algorithm, beyond) ==
  Stmt(AlgorithmCalls(algorithm) \cup beyond, {"logbook", "hof[0]"})

\* The argument weights=(...).  "%f" of a slice is "[1.0 -1.0]", with blanks between
\* the numbers, of which ReplaceAll makes "(1.0 -1.0,)".  Python takes that for the
\* tuple of one difference; where there is no sign, or no number, it is no Python
\* at all, which the empty sequence stands for.
WeightsTuple(weights) ==
  CASE Len(weights) = 1 -> weights
    [] Len(weights) > 1 /\ \A i \in 2..Len(weights) : weights[i] < 0 ->
         <<FoldSeq(LAMBDA x, y : x + y, 0, weights)>>
    [] OTHER -> <<>>

\* What an evaluation returns: numbers of Python, which cannot be divided by zero, or
\* of numpy, of which such a division makes nan.
Numbers == {"python", "numpy"}

\* creator.create for the fitness and the class of the individuals.  A fitness keeps
\* weighted values and divides by the weights to give the values back.
Create(class, base, weights, numbers) ==
  Stmt({"creator", "base", base},
       {class} \cup (IF WeightsTuple(weights) = <<0>> /\ numbers # "numpy"
                     THEN {} ELSE {"fitness.values"}))
=============================================================================
