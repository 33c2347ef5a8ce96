------------------------------ MODULE EAProgram ------------------------------
(***************************************************************************)
(* The programs of modules/ea.go.  An option record holds the fields of    *)
(* the struct EA that select code: algorithm, individual, evaluation,      *)
(* customEval (the numbers that the function of CustomEval returns, or     *)
(* "none" where it defines no such function), mutation, crossover,        *)
(* selection, generations, hof, weights and range.                         *)
(***************************************************************************)
EXTENDS PythonProgram

\* One of the benchmarks stands for all of them.
Benchmarks == {"sphere"}

\* deMutationFunction: the strategies whose function has a name of its own.  None of
\* these is ever registered.
Strategies == {"DE/rand/2", "DE/best/1", "DE/best/2", "DE/current-to-best/1",
               "DE/current-to-rand/1", "DE/rand-to-best/1"}

\* The struct EA, with integers for floating point numbers.  "custom" is a name that
\* evalFunction does not know.
EAOptions ==
  [algorithm : Algorithms, individual : {"binarystring", "floatingpoint", "integer", "unknown"},
   evaluation : Benchmarks \cup {"evalOneMax", "evalProduct", "evalDifference", "custom"},
   customEval : Numbers \cup {"none"},
   mutation : Mutations \cup Strategies \cup {"DE/rand/1", "registration"},
   crossover : Crossovers \cup {"cxBinomial", "cxExponential"}, selection : Selections,
   generations : Int, hof : Int, weights : Seq(Int), range : Seq(Int)]

\* What validate makes of the random range.
ValidRange(range) == IF Len(range) # 2 \/ range[1] >= range[2] THEN <<1, 5>> ELSE range

EAImports ==
  Stmt({}, {"random", "os", "base", "creator", "tools", "algorithms", "numpy", "plt",
            "reduce", "futures", "benchmarks", "chain"})

\* evalFunction: the definition, none for a benchmark.
EAEvalFunction(o) ==
  When(o.evaluation \notin Benchmarks,
       <<Stmt({}, IF o.evaluation = "custom" /\ o.customEval = "none"
                  THEN {} ELSE {o.evaluation})>>)

\* Benchmarks and the functions of evalFunction add and multiply the numbers of a list.
EANumbers(o) == IF o.evaluation = "custom" THEN o.customEval ELSE "python"

\* The names its body uses.
EAEvalCalls(o) ==
  IF o.evaluation \in {"evalProduct", "evalDifference"} THEN {"reduce"} ELSE {}

\* Mutation: the name is registered as it was before evalFunction renamed it.
RegisterUnrenamed(o) == Stmt({"toolbox", o.evaluation}, {"toolbox.evaluate"})

\* evalFunction puts "benchmarks." before the name of a benchmark.
RegisterEvaluate(o) ==
  Stmt({"toolbox", IF o.evaluation \in Benchmarks THEN "benchmarks" ELSE o.evaluation},
       {"toolbox.evaluate"})

\* registerIndividual: randint of a falling range fails; an unknown type of
\* individual registers nothing.
RegisterIndividual(o) ==
  LET range == ValidRange(o.range)
  IN When(o.individual \in {"binarystring", "floatingpoint", "integer"},
          <<Stmt({"toolbox", "random"},
                 IF o.individual = "integer" /\ range[1] > range[2]
                 THEN {} ELSE {"toolbox.attr"})>>)

\* initialGenerator: initRepeat whatever PopulationFunction says.
InitialGenerator ==
  Stmt({"toolbox.attr", "creator.Individual", "tools"},
       {"toolbox.individual", "toolbox.population"})

\* mutationFunction: a name that is not known is written into the program as it is.
\* "registration" stands for a text that registers a function of CustomMutation.
MutationFunction(o) ==
  CASE o.algorithm = "de" -> Stmt({"toolbox", "mutDE"}, {"toolbox.mutate"})
    [] o.algorithm # "de" /\ o.mutation \in {"mutFlipBit", "mutShuffleIndexes"} ->
         Register("toolbox.mutate", o.mutation, {"indpb"})
    [] o.algorithm # "de" /\ o.mutation = "registration" ->
         Stmt({"toolbox", "CustomMutation"}, {"toolbox.mutate"})
    [] OTHER -> Stmt({o.mutation}, {})

CustomFunctions(o) ==
  When(o.mutation = "registration", <<Stmt({}, {"CustomMutation"})>>)

CrossoverFunction(o) ==
  Register("toolbox.mate", o.crossover, IF o.crossover = "cxUniform" THEN {"indpb"} ELSE {})

\* mutDE, the function of the strategy, and deCrossOverFunctions.
DEFunctions(o) ==
  <<Stmt({}, {"mutDE"}),
    Stmt({}, {IF o.mutation \in Strategies THEN "mutDE of the strategy" ELSE "mutDE"}),
    Stmt({}, {"cxBinomial", "cxExponential"})>>

\* The names that a crossover uses and does not assign.
DECrossoverCalls(o) ==
  CASE o.crossover = "cxBinomial" -> {"random"}
    [] o.crossover = "cxExponential" -> {"random", "chain"}
    [] OTHER -> {}

\* differentialEvolution: an evaluation, and the loop from generation 1 on, the only
\* place where the hall of fame is updated.
DifferentialEvolution(o) ==
  <<Stmt({"tools", "stats", "pop", "toolbox.evaluate", "toolbox.map", "fitness.values"}
           \cup EAEvalCalls(o), {"logbook"})>> \o
  When(o.generations > 1,
       <<Stmt({"toolbox.select", "toolbox.mutate", "toolbox.mate", "room in hof"}
                \cup DECrossoverCalls(o), {"hof[0]"})>>)

\* callAlgo: the strategy of eaGenerateUpdate is cma's.
EACallAlgo(o) ==
  When(o.algorithm = "eaGenerateUpdate",
       <<Stmt({"cma", "toolbox", "creator.Individual"},
              {"toolbox.generate", "toolbox.update"})>>) \o
  <<RunAlgorithm(o.algorithm, {"pop", "stats"} \cup EAEvalCalls(o))>>

\* Mutation: the best individual is printed only.
EABestPrinted == Stmt({"hof[0]"}, {})

\* The files at the end of Code, and those of plots().
EALogbook == Stmt({"os", "logbook"}, {"logbook.txt"})
EABest == Stmt({"hof[0]"}, {"best.txt"})
EAPlots == Stmt({"plt", "logbook"}, {"fitness_plot.png"})

EAReport == <<EALogbook, EABest, EAPlots>>

EAAccepts(o) == o.algorithm \in ValidAlgorithms

\* Code: the functions, the toolbox up to mate, and main up to the algorithm.
EAFunctions(o) ==
  <<EAImports>> \o EAEvalFunction(o) \o When(o.algorithm = "de", DEFunctions(o)) \o
  CustomFunctions(o)

EAToolbox(o) ==
  <<Stmt({"base"}, {"toolbox"}),
    Create("creator.Individual", "base", o.weights, EANumbers(o))>> \o
  RegisterIndividual(o) \o
  <<InitialGenerator, RegisterEvaluate(o), MutationFunction(o)>>

EAMate(o) ==
  IF o.algorithm = "de"
  THEN <<Stmt({}, {"CR", "F"}), Stmt({"toolbox", "CR", o.crossover}, {"toolbox.mate"})>>
  ELSE <<CrossoverFunction(o)>>

EAMain(o) ==
  <<RegisterSelect(o.selection), Stmt({"toolbox", "futures"}, {"toolbox.map"}),
    Stmt({"toolbox.population"}, {"pop"}), HallOfFame(o.hof),
    Stmt({"tools", "numpy"}, {"stats"})>>

EAAlgorithm(o) ==
  IF o.algorithm = "de" THEN DifferentialEvolution(o) ELSE EACallAlgo(o)

EACode(o) ==
  EAFunctions(o) \o EAToolbox(o) \o EAMate(o) \o EAMain(o) \o EAAlgorithm(o) \o EAReport

\* The requests whose programs come to their end.
EAWorks(o) ==
  /\ o.individual \in {"binarystring", "floatingpoint", "integer"}
  /\ o.evaluation = "custom" => o.customEval # "none"
  /\ o.hof > 0
  /\ o.selection \in {"selTournament", "selRandom", "selBest"}
  /\ \/ /\ o.algorithm = "de"
        /\ o.crossover \in {"cxBinomial", "cxExponential"}
        /\ o.generations > 1
     \/ /\ o.algorithm \in Evolving
        /\ o.crossover \in {"cxOnePoint", "cxTwoPoint", "cxUniform"}
        /\ o.mutation \in {"mutFlipBit", "mutShuffleIndexes", "registration"}
=============================================================================
