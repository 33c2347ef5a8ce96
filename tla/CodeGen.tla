------------------------------- MODULE CodeGen -------------------------------
(***************************************************************************)
(* The way of a request through its generator, Code() of modules/ea.go,    *)
(* gp.go, ml.go or pso.go, and the run of the program that comes out of    *)
(* it, statement by statement.  A generator that accepts a request for     *)
(* which the program fails makes a run that is stored, queued and          *)
(* answered with 200, and of which the user sees a traceback.              *)
(***************************************************************************)
EXTENDS EAProgram, GPProgram, MLProgram, PSOProgram

CONSTANTS
  EARequests, GPRequests, MLRequests, PSORequests  \* the options of each kind

ASSUME OptionsAssumption ==
  /\ EARequests \subseteq EAOptions
  /\ GPRequests \subseteq GPOptions
  /\ MLRequests \subseteq MLOptions
  /\ PSORequests \subseteq PSOOptions

VARIABLES
  kind,     \* the endpoint
  options,  \* the fields of the request that select code
  stage,    \* where the request or its program is
  at,       \* the statement that is executed next
  env       \* the names that are bound

vars == <<kind, options, stage, at, env>>

Accepts ==
  CASE kind = "ea" -> EAAccepts(options)
    [] kind = "gp" -> GPAccepts(options)
    [] kind = "ml" -> MLAccepts(options)
    [] kind = "pso" -> PSOAccepts(options)

Code ==
  CASE kind = "ea" -> EACode(options)
    [] kind = "gp" -> GPCode(options)
    [] kind = "ml" -> MLCode(options)
    [] kind = "pso" -> PSOCode(options)

\* The numbers that the evaluation of the request returns.
Evaluates ==
  CASE kind = "ea" -> EANumbers(options)
    [] kind = "gp" -> "python"
    [] kind = "ml" -> options.evaluation
    [] kind = "pso" -> PSONumbers(options)

\* Python reads the whole file before it executes a statement.
Parses == WeightsTuple(options.weights) # <<>> /\ (kind = "gp" => GPParses(options))

Init ==
  /\ \/ kind = "ea" /\ options \in EARequests
     \/ kind = "gp" /\ options \in GPRequests
     \/ kind = "ml" /\ options \in MLRequests
     \/ kind = "pso" /\ options \in PSORequests
  /\ stage = "request"
  /\ at = 1
  /\ env = {}

\* Code(): an error of validate, or a program.
Generate ==
  /\ stage = "request"
  /\ stage' = IF Accepts THEN "program" ELSE "refused"
  /\ UNCHANGED <<kind, options, at, env>>

\* The runner starts the program.
Start ==
  /\ stage = "program"
  /\ stage' = IF Parses THEN "running" ELSE "failed"
  /\ UNCHANGED <<kind, options, at, env>>

\* A statement whose names are all bound.
Execute ==
  /\ stage = "running"
  /\ at <= Len(Code)
  /\ Code[at].needs \subseteq env
  /\ env' = (env \ Code[at].undoes) \cup Code[at].gives
  /\ at' = at + 1
  /\ UNCHANGED <<kind, options, stage>>

\* One that needs a name that is not there: a traceback.
Raise ==
  /\ stage = "running"
  /\ at <= Len(Code)
  /\ ~(Code[at].needs \subseteq env)
  /\ stage' = "failed"
  /\ UNCHANGED <<kind, options, at, env>>

Finish ==
  /\ stage = "running"
  /\ at > Len(Code)
  /\ stage' = "ended"
  /\ UNCHANGED <<kind, options, at, env>>

\* Nothing is left to do.
Over == stage \in {"refused", "failed", "ended"} /\ UNCHANGED vars

Next == Generate \/ Start \/ Execute \/ Raise \/ Finish \/ Over

Spec == Init /\ [][Next]_vars

-----------------------------------------------------------------------------
(* Properties.                                                             *)

\* The types of the variables; the files of a run are there when it ended.
TypeOK ==
  /\ kind \in {"ea", "gp", "ml", "pso"}
  /\ options \in EARequests \cup GPRequests \cup MLRequests \cup PSORequests
  /\ stage \in {"request", "program", "refused", "running", "failed", "ended"}
  /\ at \in Nat \ {0}
  /\ stage = "ended" => {"best.txt", "logbook.txt"} \subseteq env

\* What works, told from the outside: the program of a request comes to its end if and
\* only if its options are among those listed beside each generator, and its weights
\* are one number, or are taken for one, which is not zero where numbers of Python are
\* divided by it.  Every import, every registration and their order count (Code of
\* modules/ea.go, gp.go, ml.go and pso.go).
WorkingRequests ==
  /\ stage \in {"failed", "ended"} => Accepts
  /\ stage \in {"failed", "ended"} =>
       (stage = "ended" <=>
          /\ WeightsTuple(options.weights) # <<>>
          /\ WeightsTuple(options.weights) = <<0>> => Evaluates = "numpy"
          /\ kind = "ea" => EAWorks(options)
          /\ kind = "gp" => GPWorks(options)
          /\ kind = "ml" => MLWorks(options)
          /\ kind = "pso" => PSOWorks(options))

\* The trees of a genetic program stay within their heights: from the first generation
\* on the operators of the toolbox are the decorated ones (gp.go:176-181 and 285-290).
TreesStayLimited ==
  kind = "gp" /\ "pop" \in env => {MateLimit, MutateLimit} \subseteq env

\* A name that ValidateAlgorithmName does not call an "invalid algorithm name"
\* (util/validate.go:12) is one the generated program can run.
AcceptedProgramsEnd == stage # "failed"
=============================================================================
