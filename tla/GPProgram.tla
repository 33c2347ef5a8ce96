------------------------------ MODULE GPProgram ------------------------------
(***************************************************************************)
(* The programs of modules/gp.go.  An option record holds the fields of    *)
(* the struct GP that select code: algorithm, operators, expr, exprMut,    *)
(* individual (IndividualFunction), population (PopulationFunction),       *)
(* crossover, mutation, mode, selection, hof and weights.                  *)
(***************************************************************************)
EXTENDS PythonProgram

GPImports ==
  Stmt({}, {"operator", "math", "random", "numpy", "os", "plt", "nx", "partial",
            "algorithms", "base", "creator", "tools", "gp", "cma", "futures"})

\* The keys of primitiveSource.
Primitives == {"add", "sub", "mul", "div", "neg", "cos", "sin", "lf"}

\* The generators of trees in deap.gp.
TreeGenerators == {"genFull", "genGrow", "genHalfAndHalf"}

\* The struct GP.
GPOptions ==
  [algorithm : Algorithms, operators : SUBSET (Primitives \cup {"unknown"}),
   expr : TreeGenerators \cup {"unknown"}, exprMut : TreeGenerators \cup {"unknown"},
   individual : Initialisers, population : Initialisers,
   crossover : {"cxOnePoint", "cxOnePointLeafBiased", "cxSemantic", "unknown"},
   mutation : {"mutUniform", "mutShrink", "mutNodeReplacement", "mutInsert", "mutEphemeral",
               "mutSemantic", "unknown"},
   mode : {"one", "all", "unknown"}, selection : Selections, hof : Int, weights : Seq(Int)]

\* addPrimitivesToPSET.  A primitive that is not known is written as "%!s(<nil>)",
\* which is no Python.
AddPrimitives(o) ==
  Stmt({"pset", "operator", "math", "def protectedDiv", "def lf"},
       o.operators \cup (IF o.operators # {} THEN {"a primitive"} ELSE {}))

GPParses(o) == o.operators \subseteq Primitives

\* toolbox.register(entry, gp.f, ...) for a generator of trees.
RegisterGenerator(entry, f) ==
  Stmt({"toolbox", "gp"} \cup (IF f \in TreeGenerators THEN {} ELSE {f}), {entry})

\* The operators that deap.gp calls semantic assert that these primitives are there.
SemanticNeeds == {"lf", "mul", "add", "sub"}

\* The names under which the height limits are known.
MateLimit == "limit of mate"
MutateLimit == "limit of mutate"

\* crossoverFunction
GPCrossover(o) == [Stmt({"toolbox", "gp", "pset"}, {"toolbox.mate"}) EXCEPT !.undoes = {MateLimit}]

GPCrossoverCalls(o) == IF o.crossover = "cxSemantic" THEN SemanticNeeds ELSE {}

\* mutationFunction: mutUniform, also in place of an unknown name, takes expr_mut
\* from the toolbox when it is registered.
GPMutation(o) ==
  LET known == {"mutShrink", "mutNodeReplacement", "mutInsert", "mutEphemeral", "mutSemantic"}
  IN [Stmt({"toolbox", "gp", "pset"} \cup
             (IF o.mutation \in known THEN {} ELSE {"toolbox.expr_mut"}),
           {"toolbox.mutate"})
      EXCEPT !.undoes = {MutateLimit}]

GPMutationCalls(o) ==
  CASE o.mutation = "mutSemantic" -> SemanticNeeds
    [] o.mutation = "mutEphemeral" /\ o.mode \notin {"one", "all"} -> {"a mode"}
    [] OTHER -> {}

\* bloatControl
BloatControl ==
  <<Stmt({"toolbox.mate", "gp", "operator"}, {MateLimit}),
    Stmt({"toolbox.mutate", "gp", "operator"}, {MutateLimit})>>

\* setupStats
SetupStats == Stmt({"tools", "numpy"}, {"mstats"})

\* evalSymbReg compiles the tree; points and realFunction come with the entry.  What it
\* returns is a sum of math.fsum, a number of Python.
EvalSymbRegCalls == {"toolbox.compile", "math"}

\* callAlgo: cma makes vectors, which gp.compile takes for trees.
GPCallAlgo(o) ==
  When(o.algorithm = "eaGenerateUpdate",
       <<Stmt({"cma", "numpy", "toolbox", "creator.Individual"},
              {"toolbox.generate", "toolbox.update"})>>) \o
  <<RunAlgorithm(o.algorithm,
      {"pop", "mstats"} \cup EvalSymbRegCalls \cup
      (IF o.algorithm = "eaGenerateUpdate"
       THEN {"individuals that are trees"} ELSE GPCrossoverCalls(o) \cup GPMutationCalls(o)))>>

\* setupLogs and createPlots.
GPReport ==
  <<Stmt({"logbook", "rootPath"}, {"logbook.txt"}),
    Stmt({"hof[0]", "rootPath"}, {"best.txt"}),
    Stmt({"hof[0]", "gp", "nx", "plt"}, {"graph.png"})>>

\* Mutation: the operators are decorated before the mutation is registered.
GPOperatorsLimitedEarly(o) ==
  <<GPCrossover(o), RegisterGenerator("toolbox.expr_mut", o.exprMut), GPMutation(o)>> \o
  BloatControl \o <<GPMutation(o)>>

\* The sections from crossoverFunction to bloatControl, in the order of Code.
GPOperators(o) ==
  <<GPCrossover(o), RegisterGenerator("toolbox.expr_mut", o.exprMut), GPMutation(o)>> \o
  BloatControl

\* validate: of all options it looks at the name of the algorithm only.
GPAccepts(o) == o.algorithm \in ValidAlgorithms

\* Code: the definitions, the primitives, the toolbox up to select, and main up to the
\* algorithm.
GPDefinitions ==
  <<GPImports, Stmt({}, {"evalSymbReg"}), Stmt({"base"}, {"toolbox"}), Stmt({"gp"}, {"pset"}),
    Stmt({}, {"def protectedDiv", "def lf"})>>

GPPrimitives(o) ==
  <<AddPrimitives(o), Stmt({"pset", "partial", "random"}, {"rand101"}),
    Stmt({"pset"}, {"arg_dict"})>>

GPTrees(o) ==
  <<Create("creator.Individual", "gp", o.weights, "python"),
    RegisterGenerator("toolbox.expr", o.expr),
    Register("toolbox.individual", o.individual, {}),
    Register("toolbox.population", o.population, {"n"})>>

GPEvaluation(o) ==
  <<Stmt({"toolbox", "gp", "pset"}, {"toolbox.compile"}),
    Stmt({"toolbox", "evalSymbReg"}, {"toolbox.evaluate"}),
    RegisterSelect(o.selection)>>

GPMain(o) ==
  <<Stmt({"toolbox", "futures"}, {"toolbox.map"}), Stmt({"os", "random"}, {"rootPath"}),
    Stmt({"toolbox.population", "toolbox.individual", "toolbox.expr", "a primitive"}, {"pop"}),
    HallOfFame(o.hof), SetupStats>>

GPCode(o) ==
  GPDefinitions \o GPPrimitives(o) \o GPTrees(o) \o GPEvaluation(o) \o GPOperators(o) \o
  GPMain(o) \o GPCallAlgo(o) \o GPReport

\* The requests whose programs come to their end.
GPWorks(o) ==
  /\ o.algorithm \in Evolving
  /\ o.operators # {} /\ o.operators \subseteq Primitives
  /\ o.crossover = "cxSemantic" \/ o.mutation = "mutSemantic"
       => {"add", "sub", "mul", "lf"} \subseteq o.operators
  /\ o.mutation = "mutEphemeral" => o.mode \in {"one", "all"}
  /\ o.expr \in TreeGenerators /\ o.exprMut \in TreeGenerators
  /\ o.individual = "initIterate" /\ o.population = "initRepeat"
  /\ o.selection \in {"selTournament", "selRandom", "selBest"}
  /\ o.hof > 0
=============================================================================
