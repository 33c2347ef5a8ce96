------------------------------ MODULE PSOProgram ------------------------------
(***************************************************************************)
(* The programs of modules/pso.go.  An option record holds algorithm,      *)
(* dimensions, position and speed (the pairs of their limits), benchmark,  *)
(* populationSize, generations and weights of the struct PSO.              *)
(***************************************************************************)
EXTENDS PythonProgram

\* Particles are arrays of numpy, and so are the values that most benchmarks compute from
\* them: sphere stands for these, ackley for those that return what a function of the
\* modules math and random does.
PSOBenchmarks == {"sphere", "ackley"}

\* The struct PSO.
PSOOptions ==
  [algorithm : {"original", "multiswarm", "speciation", "unknown"}, dimensions : Int,
   position : Int \X Int, speed : Int \X Int, benchmark : PSOBenchmarks \cup {"unknown"},
   populationSize : Int, generations : Int, weights : Seq(Int)]

\* validate
PSOAccepts(o) ==
  /\ o.algorithm \in {"original", "multiswarm", "speciation"}
  /\ o.dimensions > 0
  /\ o.position[1] < o.position[2]
  /\ o.speed[1] < o.speed[2]
  /\ o.benchmark \in PSOBenchmarks
  /\ o.populationSize > 0
  /\ o.generations > 0

PSONumbers(o) == IF o.benchmark = "ackley" THEN "python" ELSE "numpy"

PSOImports ==
  Stmt({}, {"math", "os", "numpy", "base", "benchmarks", "creator", "tools", "plt", "animation"})

\* generateAndUpdateParticle
ParticleFunctions == Stmt({}, {"generate", "updateParticle"})

\* What the body of updateParticle uses.
UpdateParticleCalls == {"numpy", "math"}

\* toolbox
PSOToolbox ==
  <<Stmt({"base"}, {"toolbox"}),
    Stmt({"toolbox", "generate", "tools"}, {"toolbox.population"}),
    Stmt({"toolbox", "updateParticle"}, {"toolbox.update"}),
    Stmt({"toolbox", "benchmarks"}, {"toolbox.evaluate"})>>

\* The indices of a particle that exist.
Coordinates(o) == {c \in {"p[0]", "p[1]"} : o.dimensions > (IF c = "p[0]" THEN 0 ELSE 1)}

\* setupPlot: the first two coordinates of every particle.
SetupPlot ==
  <<Stmt({"plt"}, {"fig", "ax"}),
    Stmt({"pop", "p[0]", "p[1]"}, {"x_min", "x_max", "y_min", "y_max"}),
    Stmt({"ax", "plt"}, {"scat", "best_scat", "generation_text"})>>

\* thePSOAlgo: the definition of update, whose nonlocal names must be bound before.
DefineUpdate ==
  Stmt({"best", "pop", "x_min", "x_max", "y_min", "y_max"}, {"update"})

\* What update uses when the animation calls it.
UpdateCalls ==
  {"toolbox.evaluate", "toolbox.update", "creator.Particle", "scat", "best_scat", "numpy",
   "p[0]", "p[1]", "fitness.values", "generation_text", "logbook", "stats", "ax"} \cup
  UpdateParticleCalls

\* The start of the program, and of main.
PSODefinitions(o) ==
  <<PSOImports, Create("creator.Particle", "numpy", o.weights, PSONumbers(o)),
    ParticleFunctions>>

PSOMain(o) ==
  <<Stmt({"os"}, {"rootPath"}),
    Stmt({"toolbox.population", "creator.Particle", "numpy"}, {"pop"} \cup Coordinates(o)),
    Stmt({"tools", "numpy"}, {"stats", "logbook"}), Stmt({}, {"best", "GEN"})>>

\* The animation runs the generations, one per frame.
Animation ==
  <<DefineUpdate,
    Stmt({"animation", "fig", "update", "GEN"} \cup UpdateCalls, {"best particle"})>>

PSOReport ==
  <<Stmt({"best particle", "rootPath"}, {"best.txt"}),
    Stmt({"logbook", "rootPath"}, {"logbook.txt"})>>

PSOCode(o) ==
  PSODefinitions(o) \o PSOToolbox \o PSOMain(o) \o SetupPlot \o Animation \o PSOReport

\* The requests whose programs come to their end.
PSOWorks(o) == o.dimensions > 1
=============================================================================
