------------------------------ MODULE MLProgram ------------------------------
(***************************************************************************)
(* The programs of modules/ml.go.  An option record holds the fields of    *)
(* the struct EAML that select code: algorithm, evaluation (the numbers    *)
(* that the mlEvalFunction of MlEvalFunctionCodeString returns, or "none"  *)
(* where it defines no such function), crossover, mutation, selection, hof *)
(* and weights.                                                            *)
(***************************************************************************)
EXTENDS PythonProgram

\* The struct EAML.
MLOptions ==
  [algorithm : Algorithms, evaluation : Numbers \cup {"none"}, crossover : Crossovers,
   mutation : Mutations, selection : Selections, hof : Int, weights : Seq(Int)]

\* imports, with those of the request, which give what mlEvalFunction needs.
MLImports ==
  Stmt({}, {"random", "os", "base", "creator", "tools", "algorithms", "numpy", "plt",
            "reduce", "futures", "pd", "warnings"})

\* googleDriveDownloadFunc
DownloadFunction == Stmt({}, {"download_csv_from_google_drive_share_link"})

\* callAlgo: nothing at all for "de".
MLCallAlgo(o) ==
  When(o.algorithm = "eaGenerateUpdate",
       <<Stmt({"cma", "numpy", "X", "creator.Individual"},
              {"toolbox.generate", "toolbox.update"})>>) \o
  When(o.algorithm # "de", <<RunAlgorithm(o.algorithm, {"pop", "stats", "X", "y"})>>)

\* createPlots: the plots and logbook.txt.
MLPlots ==
  <<Stmt({"logbook", "rootPath"}, {"logbook.txt"}),
    Stmt({"plt", "rootPath"}, {"fitness_plot.png"})>>

MLAccepts(o) == o.algorithm \in ValidAlgorithms

\* Code: the functions, the operators, the data of main, its individuals and its setup.
MLFunctions(o) ==
  <<MLImports, DownloadFunction, 
    Stmt({}, IF o.evaluation # "none" THEN {"mlEvalFunction"} ELSE {})>>

MLToolbox(o) ==
  <<Stmt({"base"}, {"toolbox"}),
    Register("toolbox.mate", o.crossover, {}),
    Register("toolbox.mutate", o.mutation, {"indpb"}),
    RegisterSelect(o.selection), Stmt({"toolbox", "futures"}, {"toolbox.map"})>>

MLData(o) ==
  <<Stmt({"os"}, {"rootPath"}),
    Stmt({"pd", "download_csv_from_google_drive_share_link"}, {"X", "y"}),
    Stmt({"mlEvalFunction", "X", "y"}, {"accuracy"}),
    Create("creator.Individual", "base", o.weights, o.evaluation)>>

MLIndividuals ==
  <<Stmt({"toolbox", "random"}, {"toolbox.attr"}),
    Stmt({"toolbox.attr", "tools", "creator.Individual", "X"},
         {"toolbox.individual", "toolbox.population"}),
    Stmt({"toolbox", "mlEvalFunction", "X", "y"}, {"toolbox.evaluate"})>>

MLSetup(o) ==
  <<Stmt({"toolbox.population"}, {"pop"}), HallOfFame(o.hof),
    Stmt({"tools", "numpy"}, {"stats"})>>

MLBest == Stmt({"accuracy", "hof[0]", "X", "rootPath"}, {"best.txt"})

MLCode(o) ==
  MLFunctions(o) \o MLToolbox(o) \o MLData(o) \o MLIndividuals \o MLSetup(o) \o
  MLCallAlgo(o) \o <<MLBest>> \o MLPlots

\* The requests whose programs come to their end.
MLWorks(o) ==
  /\ o.algorithm \in Evolving
  /\ o.evaluation # "none"
  /\ o.crossover \in {"cxOnePoint", "cxTwoPoint"}
  /\ o.mutation \in {"mutFlipBit", "mutShuffleIndexes"}
  /\ o.selection \in {"selTournament", "selRandom", "selBest"}
  /\ o.hof > 0
=============================================================================
