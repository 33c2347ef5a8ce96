---------------------------- MODULE CodeGen_proofs ----------------------------
(***************************************************************************)
(* Which requests get a program that comes to its end, for every option    *)
(* of every generator, and that the trees of a genetic program stay        *)
(* limited.  A program is put together from sections; for each section a   *)
(* lemma says which names it gives and from which environments it runs,    *)
(* and Concat and Follow join the sections in the order of Code.  The      *)
(* invariant of the execution is that the statements before the next one   *)
(* found what they need and that what they gave is bound, the height       *)
(* limits excepted, which a later registration may undo.                   *)
(***************************************************************************)
EXTENDS CodeGen, SequenceTheorems, TLAPS

\* The only names that a statement undoes, and that no statement needs.
Limits == {MateLimit, MutateLimit}

\* A statement as the generators write them.
Statement(a) == a.needs \cap Limits = {} /\ a.undoes \subseteq Limits

\* A sequence of such statements.
Program(s) == \E S : s \in Seq(S) /\ \A a \in S : Statement(a)

\* What the statements before i give, and what all of them give.
Given(s, i) == UNION {s[j].gives : j \in 1..(i - 1)}
Names(s) == UNION {s[j].gives : j \in DOMAIN s}
\* Executed where E is bound, s comes to its end: that nothing it needs is undone on
\* the way follows from Limits.
Runs(s, E) == \A j \in DOMAIN s : s[j].needs \subseteq E \cup Given(s, j)

\* What it is to be given before a statement, and by some statement.
LEMMA InGiven == \A s, i, x : x \in Given(s, i) <=> \E j \in 1..(i - 1) : x \in s[j].gives
BY DEF Given

LEMMA InNames == \A s, x : x \in Names(s) <=> \E j \in DOMAIN s : x \in s[j].gives
BY DEF Names

\* The statements of s \o t, by their numbers.
LEMMA ConcatIndices ==
  ASSUME NEW s, NEW t, Program(s), Program(t)
  PROVE  /\ Len(s) \in Nat /\ Len(t) \in Nat
         /\ DOMAIN s = 1..Len(s) /\ DOMAIN t = 1..Len(t)
         /\ DOMAIN (s \o t) = 1..(Len(s) + Len(t)) /\ Len(s \o t) = Len(s) + Len(t)
         /\ \A j \in 1..Len(s) : (s \o t)[j] = s[j]
         /\ \A j \in 1..Len(t) : (s \o t)[Len(s) + j] = t[j]
         /\ \A j \in 1..(Len(s) + Len(t)) : j \notin 1..Len(s) =>
              j - Len(s) \in 1..Len(t) /\ (s \o t)[j] = t[j - Len(s)]
<1>1. PICK S : s \in Seq(S) /\ \A a \in S : Statement(a)
  BY DEF Program
<1>2. PICK T : t \in Seq(T) /\ \A a \in T : Statement(a)
  BY DEF Program
<1>3. s \in Seq(S \cup T) /\ t \in Seq(S \cup T)
  BY <1>1, <1>2
<1> QED BY <1>3, ConcatProperties

\* Two sections, one after the other.
LEMMA Concat ==
  ASSUME NEW s, NEW t, Program(s), Program(t)
  PROVE  /\ Program(s \o t)
         /\ Names(s \o t) = Names(s) \cup Names(t)
         /\ \A E : Runs(s \o t, E) <=> Runs(s, E) /\ Runs(t, E \cup Names(s))
<1> DEFINE u == s \o t
<1>1. /\ Len(s) \in Nat /\ Len(t) \in Nat
      /\ DOMAIN s = 1..Len(s) /\ DOMAIN t = 1..Len(t)
      /\ DOMAIN u = 1..(Len(s) + Len(t))
      /\ \A j \in 1..Len(s) : u[j] = s[j]
      /\ \A j \in 1..Len(t) : /\ Len(s) + j \in 1..(Len(s) + Len(t))
                              /\ u[Len(s) + j] = t[j]
      /\ \A j \in 1..(Len(s) + Len(t)) : j \notin 1..Len(s) =>
           j - Len(s) \in 1..Len(t) /\ j = Len(s) + (j - Len(s)) /\ u[j] = t[j - Len(s)]
  BY ConcatIndices
<1> HIDE DEF u
<1>2. ASSUME NEW j \in 1..Len(s) PROVE Given(u, j) = Given(s, j)
  <2>1. \A i \in 1..(j - 1) : u[i] = s[i]
    BY <1>1
  <2> QED BY <2>1 DEF Given
<1>3. ASSUME NEW j \in 1..Len(t) PROVE Given(u, Len(s) + j) = Names(s) \cup Given(t, j)
  <2>1. ASSUME NEW x \in Given(u, Len(s) + j) PROVE x \in Names(s) \cup Given(t, j)
    <3>1. PICK i \in 1..(Len(s) + j - 1) : x \in u[i].gives
      BY <2>1, InGiven
    <3>2. CASE i \in 1..Len(s)
      BY <1>1, <3>1, <3>2, InNames
    <3>3. CASE i \notin 1..Len(s)
      <4>1. Len(s) \in Nat /\ Len(t) \in Nat /\ i \in 1..(Len(s) + Len(t))
        BY <1>1
      <4>2. i - Len(s) \in 1..Len(t) /\ u[i] = t[i - Len(s)]
        BY <1>1, <3>3, <4>1
      <4>3. i - Len(s) \in 1..(j - 1)
        BY <4>1, <4>2
      <4> QED BY <3>1, <4>2, <4>3, InGiven
    <3> QED BY <3>2, <3>3
  <2>2. ASSUME NEW x \in Names(s) PROVE x \in Given(u, Len(s) + j)
    <3>1. PICK i \in DOMAIN s : x \in s[i].gives
      BY <2>2, InNames
    <3>2. i \in 1..(Len(s) + j - 1) /\ u[i] = s[i]
      BY <1>1
    <3> QED BY <3>1, <3>2, InGiven
  <2>3. ASSUME NEW x \in Given(t, j) PROVE x \in Given(u, Len(s) + j)
    <3>1. PICK i \in 1..(j - 1) : x \in t[i].gives
      BY <2>3, InGiven
    <3>2. Len(s) + i \in 1..(Len(s) + j - 1) /\ u[Len(s) + i] = t[i]
      BY <1>1
    <3> QED BY <3>1, <3>2, InGiven
  <2> QED BY <2>1, <2>2, <2>3
<1>4. Names(u) = Names(s) \cup Names(t)
  <2>1. ASSUME NEW x \in Names(u) PROVE x \in Names(s) \cup Names(t)
    <3>1. PICK j \in 1..(Len(s) + Len(t)) : x \in u[j].gives
      BY <1>1, <2>1, InNames
    <3>2. \/ j \in 1..Len(s) /\ u[j] = s[j]
          \/ j - Len(s) \in 1..Len(t) /\ u[j] = t[j - Len(s)]
      BY <1>1
    <3> QED BY <1>1, <3>1, <3>2, InNames
  <2>2. ASSUME NEW x \in Names(s) PROVE x \in Names(u)
    <3>1. PICK j \in 1..Len(s) : x \in s[j].gives
      BY <1>1, <2>2, InNames
    <3>2. j \in 1..(Len(s) + Len(t)) /\ u[j] = s[j]
      BY <1>1
    <3> QED BY <1>1, <3>1, <3>2, InNames
  <2>3. ASSUME NEW x \in Names(t) PROVE x \in Names(u)
    <3>1. PICK j \in 1..Len(t) : x \in t[j].gives
      BY <1>1, <2>3, InNames
    <3> QED BY <1>1, <3>1, InNames
  <2> QED BY <2>1, <2>2, <2>3
<1>5. ASSUME NEW E PROVE Runs(u, E) <=> Runs(s, E) /\ Runs(t, E \cup Names(s))
  <2>1. ASSUME Runs(u, E) PROVE Runs(s, E)
    BY <1>1, <1>2, <2>1 DEF Runs
  <2>2. ASSUME Runs(u, E), NEW j \in 1..Len(t)
        PROVE  t[j].needs \subseteq (E \cup Names(s)) \cup Given(t, j)
    <3>1. Len(s) + j \in DOMAIN u /\ u[Len(s) + j] = t[j]
      BY <1>1
    <3> QED BY <1>3, <2>2, <3>1 DEF Runs
  <2>3. ASSUME Runs(s, E), Runs(t, E \cup Names(s)), NEW j \in DOMAIN u
        PROVE  u[j].needs \subseteq E \cup Given(u, j)
    <3>1. CASE j \in 1..Len(s)
      BY <1>1, <1>2, <2>3, <3>1 DEF Runs
    <3>2. CASE j \notin 1..Len(s)
      <4>1. PICK i \in 1..Len(t) : j = Len(s) + i
        BY <1>1, <3>2
      <4>2. u[j] = t[i] /\ Given(u, j) = Names(s) \cup Given(t, i)
        BY <1>1, <1>3, <4>1
      <4>3. t[i].needs \subseteq (E \cup Names(s)) \cup Given(t, i)
        BY <1>1, <2>3 DEF Runs
      <4> QED BY <4>2, <4>3
    <3> QED BY <3>1, <3>2
  <2> QED BY <1>1, <2>1, <2>2, <2>3 DEF Runs
<1>6. Program(u)
  <2>1. PICK S : s \in Seq(S) /\ \A a \in S : Statement(a)
    BY DEF Program
  <2>2. PICK T : t \in Seq(T) /\ \A a \in T : Statement(a)
    BY DEF Program
  <2>3. s \in Seq(S \cup T) /\ t \in Seq(S \cup T)
    BY <2>1, <2>2
  <2>4. u \in Seq(S \cup T)
    BY <2>3, ConcatProperties DEF u
  <2> QED BY <2>1, <2>2, <2>4 DEF Program
<1> QED BY <1>4, <1>5, <1>6 DEF u

\* The empty section, and those of one to five statements.
LEMMA Empty == Program(<<>>) /\ Names(<<>>) = {} /\ \A E : Runs(<<>>, E)
<1>1. <<>> \in Seq({})
  OBVIOUS
<1>2. \A x : x \notin Names(<<>>)
  BY InNames
<1> QED BY <1>1, <1>2 DEF Runs, Program

LEMMA One ==
  ASSUME NEW a
  PROVE  /\ Statement(a) => Program(<<a>>)
         /\ Names(<<a>>) = a.gives
         /\ \A E : Runs(<<a>>, E) <=> a.needs \subseteq E
<1> DEFINE S == {a}
           s == <<a>>
<1>1. a \in S
  OBVIOUS
<1>2. Statement(a) => \A x \in S : Statement(x)
  OBVIOUS
<1> HIDE DEF S
<1>3. s \in Seq(S)
  BY <1>1
<1>4. DOMAIN s = 1..1 /\ s[1] = a
  OBVIOUS
<1> HIDE DEF s
<1>5. Statement(a) => Program(s)
  BY <1>2, <1>3 DEF Program
<1>6. \A x : x \in Names(s) <=> x \in a.gives
  BY <1>4, InNames
<1>7. Given(s, 1) = {}
  <2>1. \A x : x \in Given(s, 1) <=> FALSE
    BY <1>4, InGiven
  <2> QED BY <2>1
<1>8. ASSUME NEW E PROVE Runs(s, E) <=>
              /\ a.needs \subseteq E
  BY <1>4, <1>7 DEF Runs
<1> QED BY <1>5, <1>6, <1>8 DEF s

LEMMA Two ==
  ASSUME NEW a, NEW b
  PROVE  /\ Statement(a) /\ Statement(b) => Program(<<a, b>>)
         /\ Names(<<a, b>>) = a.gives \cup b.gives
         /\ \A E : Runs(<<a, b>>, E) <=>
              /\ a.needs \subseteq E
              /\ b.needs \subseteq E \cup a.gives
<1> DEFINE S == {a, b}
           s == <<a, b>>
<1>1. a \in S /\ b \in S
  OBVIOUS
<1>2. Statement(a) /\ Statement(b) => \A x \in S : Statement(x)
  OBVIOUS
<1> HIDE DEF S
<1>3. s \in Seq(S)
  BY <1>1
<1>4. DOMAIN s = 1..2 /\ s[1] = a /\ s[2] = b
  OBVIOUS
<1> HIDE DEF s
<1>5. Statement(a) /\ Statement(b) => Program(s)
  BY <1>2, <1>3 DEF Program
<1>6. \A x : x \in Names(s) <=> x \in a.gives \/ x \in b.gives
  BY <1>4, InNames
<1>7. Given(s, 1) = {}
  <2>1. \A x : x \in Given(s, 1) <=> FALSE
    BY <1>4, InGiven
  <2> QED BY <2>1
<1>8. Given(s, 2) = a.gives
  <2>1. \A x : x \in Given(s, 2) <=> x \in a.gives
    BY <1>4, InGiven
  <2> QED BY <2>1
<1>9. ASSUME NEW E PROVE Runs(s, E) <=>
              /\ a.needs \subseteq E
              /\ b.needs \subseteq E \cup a.gives
  BY <1>4, <1>7, <1>8 DEF Runs
<1> QED BY <1>5, <1>6, <1>9 DEF s

LEMMA Three ==
  ASSUME NEW a, NEW b, NEW c
  PROVE  /\ Statement(a) /\ Statement(b) /\ Statement(c) => Program(<<a, b, c>>)
         /\ Names(<<a, b, c>>) = a.gives \cup b.gives \cup c.gives
         /\ \A E : Runs(<<a, b, c>>, E) <=>
              /\ a.needs \subseteq E
              /\ b.needs \subseteq E \cup a.gives
              /\ c.needs \subseteq E \cup a.gives \cup b.gives
<1> DEFINE S == {a, b, c}
           s == <<a, b, c>>
<1>1. a \in S /\ b \in S /\ c \in S
  OBVIOUS
<1>2. Statement(a) /\ Statement(b) /\ Statement(c) => \A x \in S : Statement(x)
  OBVIOUS
<1> HIDE DEF S
<1>3. s \in Seq(S)
  BY <1>1
<1>4. DOMAIN s = 1..3 /\ s[1] = a /\ s[2] = b /\ s[3] = c
  OBVIOUS
<1> HIDE DEF s
<1>5. Statement(a) /\ Statement(b) /\ Statement(c) => Program(s)
  BY <1>2, <1>3 DEF Program
<1>6. \A x : x \in Names(s) <=> x \in a.gives \/ x \in b.gives \/ x \in c.gives
  BY <1>4, InNames
<1>7. Given(s, 1) = {}
  <2>1. \A x : x \in Given(s, 1) <=> FALSE
    BY <1>4, InGiven
  <2> QED BY <2>1
<1>8. Given(s, 2) = a.gives
  <2>1. \A x : x \in Given(s, 2) <=> x \in a.gives
    BY <1>4, InGiven
  <2> QED BY <2>1
<1>9. Given(s, 3) = a.gives \cup b.gives
  <2>1. \A x : x \in Given(s, 3) <=> x \in a.gives \/ x \in b.gives
    BY <1>4, InGiven
  <2> QED BY <2>1
<1>10. ASSUME NEW E PROVE Runs(s, E) <=>
              /\ a.needs \subseteq E
              /\ b.needs \subseteq E \cup a.gives
              /\ c.needs \subseteq E \cup a.gives \cup b.gives
  BY <1>4, <1>7, <1>8, <1>9 DEF Runs
<1> QED BY <1>5, <1>6, <1>10 DEF s

LEMMA Four ==
  ASSUME NEW a, NEW b, NEW c, NEW d
  PROVE  /\ Statement(a) /\ Statement(b) /\ Statement(c) /\ Statement(d)
              => Program(<<a, b, c, d>>)
         /\ Names(<<a, b, c, d>>) = a.gives \cup b.gives \cup c.gives \cup d.gives
         /\ \A E : Runs(<<a, b, c, d>>, E) <=>
              /\ a.needs \subseteq E
              /\ b.needs \subseteq E \cup a.gives
              /\ c.needs \subseteq E \cup a.gives \cup b.gives
              /\ d.needs \subseteq E \cup a.gives \cup b.gives \cup c.gives
<1> DEFINE S == {a, b, c, d}
           s == <<a, b, c, d>>
<1>1. a \in S /\ b \in S /\ c \in S /\ d \in S
  OBVIOUS
<1>2. Statement(a) /\ Statement(b) /\ Statement(c) /\ Statement(d) => \A x \in S : Statement(x)
  OBVIOUS
<1> HIDE DEF S
<1>3. s \in Seq(S)
  BY <1>1
<1>4. DOMAIN s = 1..4 /\ s[1] = a /\ s[2] = b /\ s[3] = c /\ s[4] = d
  OBVIOUS
<1> HIDE DEF s
<1>5. Statement(a) /\ Statement(b) /\ Statement(c) /\ Statement(d) => Program(s)
  BY <1>2, <1>3 DEF Program
<1>6. \A x : x \in Names(s) <=> x \in a.gives \/ x \in b.gives \/ x \in c.gives \/ x \in d.gives
  BY <1>4, InNames
<1>7. Given(s, 1) = {}
  <2>1. \A x : x \in Given(s, 1) <=> FALSE
    BY <1>4, InGiven
  <2> QED BY <2>1
<1>8. Given(s, 2) = a.gives
  <2>1. \A x : x \in Given(s, 2) <=> x \in a.gives
    BY <1>4, InGiven
  <2> QED BY <2>1
<1>9. Given(s, 3) = a.gives \cup b.gives
  <2>1. \A x : x \in Given(s, 3) <=> x \in a.gives \/ x \in b.gives
    BY <1>4, InGiven
  <2> QED BY <2>1
<1>10. Given(s, 4) = a.gives \cup b.gives \cup c.gives
  <2>1. \A x : x \in Given(s, 4) <=> x \in a.gives \/ x \in b.gives \/ x \in c.gives
    BY <1>4, InGiven
  <2> QED BY <2>1
<1>11. ASSUME NEW E PROVE Runs(s, E) <=>
              /\ a.needs \subseteq E
              /\ b.needs \subseteq E \cup a.gives
              /\ c.needs \subseteq E \cup a.gives \cup b.gives
              /\ d.needs \subseteq E \cup a.gives \cup b.gives \cup c.gives
  BY <1>4, <1>7, <1>8, <1>9, <1>10 DEF Runs
<1> QED BY <1>5, <1>6, <1>11 DEF s

LEMMA Five ==
  ASSUME NEW a, NEW b, NEW c, NEW d, NEW e
  PROVE  /\ Statement(a) /\ Statement(b) /\ Statement(c) /\ Statement(d) /\ Statement(e)
              => Program(<<a, b, c, d, e>>)
         /\ Names(<<a, b, c, d, e>>) = a.gives \cup b.gives \cup c.gives \cup d.gives \cup e.gives
         /\ \A E : Runs(<<a, b, c, d, e>>, E) <=>
              /\ a.needs \subseteq E
              /\ b.needs \subseteq E \cup a.gives
              /\ c.needs \subseteq E \cup a.gives \cup b.gives
              /\ d.needs \subseteq E \cup a.gives \cup b.gives \cup c.gives
              /\ e.needs \subseteq E \cup a.gives \cup b.gives \cup c.gives \cup d.gives
<1> DEFINE S == {a, b, c, d, e}
           s == <<a, b, c, d, e>>
<1>1. a \in S /\ b \in S /\ c \in S /\ d \in S /\ e \in S
  OBVIOUS
<1>2. Statement(a) /\ Statement(b) /\ Statement(c) /\ Statement(d) /\ Statement(e)
        => \A x \in S : Statement(x)
  OBVIOUS
<1> HIDE DEF S
<1>3. s \in Seq(S)
  BY <1>1
<1>4. DOMAIN s = 1..5 /\ s[1] = a /\ s[2] = b /\ s[3] = c /\ s[4] = d /\ s[5] = e
  OBVIOUS
<1> HIDE DEF s
<1>5. Statement(a) /\ Statement(b) /\ Statement(c) /\ Statement(d) /\ Statement(e) => Program(s)
  BY <1>2, <1>3 DEF Program
<1>6. \A x : x \in Names(s) <=>
              x \in a.gives \/ x \in b.gives \/ x \in c.gives \/ x \in d.gives \/ x \in e.gives
  BY <1>4, InNames
<1>7. Given(s, 1) = {}
  <2>1. \A x : x \in Given(s, 1) <=> FALSE
    BY <1>4, InGiven
  <2> QED BY <2>1
<1>8. Given(s, 2) = a.gives
  <2>1. \A x : x \in Given(s, 2) <=> x \in a.gives
    BY <1>4, InGiven
  <2> QED BY <2>1
<1>9. Given(s, 3) = a.gives \cup b.gives
  <2>1. \A x : x \in Given(s, 3) <=> x \in a.gives \/ x \in b.gives
    BY <1>4, InGiven
  <2> QED BY <2>1
<1>10. Given(s, 4) = a.gives \cup b.gives \cup c.gives
  <2>1. \A x : x \in Given(s, 4) <=> x \in a.gives \/ x \in b.gives \/ x \in c.gives
    BY <1>4, InGiven
  <2> QED BY <2>1
<1>11. Given(s, 5) = a.gives \cup b.gives \cup c.gives \cup d.gives
  <2>1. \A x : x \in Given(s, 5) <=>
                x \in a.gives \/ x \in b.gives \/ x \in c.gives \/ x \in d.gives
    BY <1>4, InGiven
  <2> QED BY <2>1
<1>12. ASSUME NEW E PROVE Runs(s, E) <=>
              /\ a.needs \subseteq E
              /\ b.needs \subseteq E \cup a.gives
              /\ c.needs \subseteq E \cup a.gives \cup b.gives
              /\ d.needs \subseteq E \cup a.gives \cup b.gives \cup c.gives
              /\ e.needs \subseteq E \cup a.gives \cup b.gives \cup c.gives \cup d.gives
  BY <1>4, <1>7, <1>8, <1>9, <1>10, <1>11 DEF Runs
<1> QED BY <1>5, <1>6, <1>12 DEF s

-----------------------------------------------------------------------------
(* The operators of a request.                                             *)

\* toolbox.register of an operator of tools.
LEMMA RegisterIs ==
  ASSUME NEW entry, NEW f, NEW given, f \notin Limits
  PROVE  /\ Statement(Register(entry, f, given))
         /\ Register(entry, f, given).gives = IF Callable(f, given) THEN {entry} ELSE {}
         /\ Register(entry, f, given).needs =
              {"toolbox", "tools"} \cup IF f \in DOMAIN ToolParams THEN {} ELSE {f}
BY DEF Register, Stmt, Statement, Limits, MateLimit, MutateLimit

\* The table of the operators, row by row.
LEMMA ToolParamsIs ==
  /\ DOMAIN ToolParams =
       {"cxOnePoint", "cxTwoPoint", "cxUniform", "cxBlend", "mutFlipBit", "mutShuffleIndexes",
        "mutGaussian", "selTournament", "selRandom", "selBest", "initRepeat", "initIterate"}
  /\ ToolParams["cxOnePoint"] = {} /\ ToolParams["cxTwoPoint"] = {}
  /\ ToolParams["cxUniform"] = {"indpb"} /\ ToolParams["cxBlend"] = {"alpha"}
  /\ ToolParams["mutFlipBit"] = {"indpb"} /\ ToolParams["mutShuffleIndexes"] = {"indpb"}
  /\ ToolParams["mutGaussian"] = {"mu", "sigma", "indpb"}
  /\ ToolParams["selTournament"] = {"tournsize"}
  /\ ToolParams["selRandom"] = {} /\ ToolParams["selBest"] = {}
  /\ ToolParams["initRepeat"] = {"n"} /\ ToolParams["initIterate"] = {}
BY DEF ToolParams

\* Which names of each sort can be called with the parameters that are given.
LEMMA CrossoverCallable ==
  \A f \in Crossovers \cup {"cxBinomial", "cxExponential"} :
    /\ Callable(f, {}) <=> f \in {"cxOnePoint", "cxTwoPoint"}
    /\ Callable(f, {"indpb"}) <=> f = "cxUniform"
<1>1. {"indpb"} # {} /\ {"alpha"} # {} /\ {"alpha"} # {"indpb"}
  OBVIOUS
<1> QED BY <1>1, ToolParamsIs DEF Callable, Crossovers

LEMMA MutationCallable ==
  \A f \in Mutations : Callable(f, {"indpb"}) <=> f \in {"mutFlipBit", "mutShuffleIndexes"}
<1>1. {"mu", "sigma", "indpb"} # {"indpb"}
  OBVIOUS
<1> QED BY <1>1, ToolParamsIs DEF Callable, Mutations

LEMMA SelectionCallable ==
  ASSUME NEW f \in Selections
  PROVE  Callable(f, IF f = "selTournament" THEN {"tournsize"} ELSE {}) <=> f # "unknown"
BY ToolParamsIs DEF Callable, Selections

LEMMA InitialiserCallable ==
  \A f \in Initialisers : /\ Callable(f, {}) <=> f = "initIterate"
                          /\ Callable(f, {"n"}) <=> f = "initRepeat"
<1>1. {"n"} # {}
  OBVIOUS
<1> QED BY <1>1, ToolParamsIs DEF Callable, Initialisers

\* Each selection but an unknown one is registered so that it can be called.
LEMMA SelectIs ==
  ASSUME NEW f \in Selections
  PROVE  /\ Statement(RegisterSelect(f))
         /\ RegisterSelect(f).gives = IF f = "unknown" THEN {} ELSE {"toolbox.select"}
         /\ f # "unknown" => RegisterSelect(f).needs = {"toolbox", "tools"}
<1> DEFINE params == IF f = "selTournament" THEN {"tournsize"} ELSE {}
<1>1. f \notin Limits
  BY DEF Selections, Limits, MateLimit, MutateLimit
<1>2. f # "unknown" => f \in DOMAIN ToolParams
  BY ToolParamsIs DEF Selections
<1>3. Callable(f, params) <=> f # "unknown"
  BY SelectionCallable
<1>4. RegisterSelect(f) = Register("toolbox.select", f, params)
  BY DEF RegisterSelect
<1> HIDE DEF params
<1>5. PICK p : p = params
  OBVIOUS
<1>6. Statement(Register("toolbox.select", f, p))
  BY <1>1, RegisterIs
<1>7. Register("toolbox.select", f, p).gives = IF Callable(f, p) THEN {"toolbox.select"} ELSE {}
  BY <1>1, RegisterIs
<1>8. f # "unknown" => Register("toolbox.select", f, p).needs = {"toolbox", "tools"}
  BY <1>1, <1>2, RegisterIs
<1> QED BY <1>3, <1>4, <1>5, <1>6, <1>7, <1>8

\* The mutation with indpb, as in modules/ea.go and ml.go.
LEMMA MutationIs ==
  ASSUME NEW f \in Mutations
  PROVE  LET a == Register("toolbox.mutate", f, {"indpb"})
         IN /\ Statement(a)
            /\ a.gives = IF f \in {"mutFlipBit", "mutShuffleIndexes"}
                         THEN {"toolbox.mutate"} ELSE {}
            /\ f # "unknown" => a.needs = {"toolbox", "tools"}
<1> DEFINE a == Register("toolbox.mutate", f, {"indpb"})
<1>1. f \notin Limits /\ (f # "unknown" => f \in DOMAIN ToolParams)
  BY ToolParamsIs DEF Mutations, Limits, MateLimit, MutateLimit
<1>2. /\ Statement(a)
      /\ a.gives = IF Callable(f, {"indpb"}) THEN {"toolbox.mutate"} ELSE {}
      /\ a.needs = {"toolbox", "tools"} \cup IF f \in DOMAIN ToolParams THEN {} ELSE {f}
  BY <1>1, RegisterIs
<1> HIDE DEF a
<1> QED BY <1>1, <1>2, MutationCallable DEF a

\* The crossover without parameters, as in modules/ml.go.
LEMMA PlainCrossoverIs ==
  ASSUME NEW f \in Crossovers \cup {"cxBinomial", "cxExponential"}
  PROVE  LET a == Register("toolbox.mate", f, {})
         IN /\ Statement(a)
            /\ a.gives = IF f \in {"cxOnePoint", "cxTwoPoint"} THEN {"toolbox.mate"} ELSE {}
            /\ f \in Crossovers \ {"unknown"} => a.needs = {"toolbox", "tools"}
<1> DEFINE a == Register("toolbox.mate", f, {})
<1>1. f \notin Limits /\ (f \in Crossovers \ {"unknown"} => f \in DOMAIN ToolParams)
  BY ToolParamsIs DEF Crossovers, Limits, MateLimit, MutateLimit
<1>2. /\ Statement(a)
      /\ a.gives = IF Callable(f, {}) THEN {"toolbox.mate"} ELSE {}
      /\ a.needs = {"toolbox", "tools"} \cup IF f \in DOMAIN ToolParams THEN {} ELSE {f}
  BY <1>1, RegisterIs
<1> HIDE DEF a
<1> QED BY <1>1, <1>2, CrossoverCallable DEF a

\* The hall of fame has room if its size is positive.
LEMMA HallOfFameIs ==
  ASSUME NEW size \in Int
  PROVE  /\ Statement(HallOfFame(size)) /\ HallOfFame(size).needs = {"tools"}
         /\ HallOfFame(size).gives = {"hof"} \cup IF size > 0 THEN {"room in hof"} ELSE {}
BY DEF HallOfFame, Stmt, Statement, Limits, MateLimit, MutateLimit

\* No number of Python is divided by the weight of the request.
Weighted(o, n) == WeightsTuple(o.weights) = <<0>> => n = "numpy"

\* What a call of an algorithm needs, by its name.
LEMMA RunAlgorithmIs ==
  ASSUME NEW f \in Algorithms, NEW beyond, beyond \cap Limits = {}
  PROVE  LET a == RunAlgorithm(f, beyond)
         IN /\ Statement(a) /\ a.gives = {"logbook", "hof[0]"}
            /\ beyond \subseteq a.needs
            /\ f = "de" => "a function that algorithms does not have" \in a.needs
            /\ f \in Evolving =>
                 a.needs = {"algorithms", "toolbox.evaluate", "toolbox.map", "room in hof",
                            "fitness.values", "toolbox.select", "toolbox.mate",
                            "toolbox.mutate"} \cup beyond
<1>1. AlgorithmCalls(f) \cap Limits = {}
  <2>1. CASE f \in Evolving
    BY <2>1 DEF AlgorithmCalls, Limits, MateLimit, MutateLimit
  <2>2. CASE f = "eaGenerateUpdate"
    <3>1. f \notin Evolving
      BY <2>2 DEF Evolving
    <3> QED BY <2>2, <3>1 DEF AlgorithmCalls, Limits, MateLimit, MutateLimit
  <2>3. CASE f \notin Evolving /\ f # "eaGenerateUpdate"
    BY <2>3 DEF AlgorithmCalls, Limits, MateLimit, MutateLimit
  <2> QED BY <2>1, <2>2, <2>3
<1>2. f \in Evolving =>
        AlgorithmCalls(f) = {"algorithms", "toolbox.evaluate", "toolbox.map", "room in hof",
                             "fitness.values", "toolbox.select", "toolbox.mate",
                             "toolbox.mutate"}
  <2>1. f \in Evolving => f # "eaGenerateUpdate"
    BY DEF Evolving
  <2> QED BY <2>1 DEF AlgorithmCalls
<1>3. f = "de" => "a function that algorithms does not have" \in AlgorithmCalls(f)
  BY DEF AlgorithmCalls, Evolving
<1> QED BY <1>1, <1>2, <1>3 DEF RunAlgorithm, Stmt, Statement

\* One section after another.
LEMMA Follow ==
  ASSUME NEW s, NEW t, Program(s), Program(t)
  PROVE  /\ Program(s \o t)
         /\ Names(s \o t) = Names(s) \cup Names(t)
         /\ Runs(s \o t, {}) <=> Runs(s, {}) /\ Runs(t, Names(s))
<1>1. {} \cup Names(s) = Names(s)
  OBVIOUS
<1> QED BY <1>1, Concat

-----------------------------------------------------------------------------
(* Programs for machine learning.                                          *)

\* The imports and functions of modules/ml.go.
MLFunctionNames(o) ==
  {"random", "os", "base", "creator", "tools", "algorithms", "numpy", "plt", "reduce",
   "futures", "pd", "warnings", "download_csv_from_google_drive_share_link"} \cup
  IF o.evaluation # "none" THEN {"mlEvalFunction"} ELSE {}

LEMMA MLFunctionsAre ==
  ASSUME NEW o \in MLOptions
  PROVE  /\ Program(MLFunctions(o)) /\ Names(MLFunctions(o)) = MLFunctionNames(o)
         /\ Runs(MLFunctions(o), {})
<1> DEFINE c == Stmt({}, IF o.evaluation # "none" THEN {"mlEvalFunction"} ELSE {})
<1>1. Statement(MLImports) /\ Statement(DownloadFunction) /\ Statement(c)
  BY DEF MLImports, DownloadFunction, Stmt, Statement
<1>2. MLImports.needs = {} /\ DownloadFunction.needs = {} /\ c.needs = {}
  BY DEF MLImports, DownloadFunction, Stmt
<1>3. MLImports.gives \cup DownloadFunction.gives \cup c.gives = MLFunctionNames(o)
  BY DEF MLImports, DownloadFunction, Stmt, MLFunctionNames
<1> HIDE DEF c
<1> QED BY <1>1, <1>2, <1>3, Three DEF MLFunctions, c

\* Its toolbox.
MLToolboxNames(o) ==
  {"toolbox", "toolbox.map"} \cup
  (IF o.crossover \in {"cxOnePoint", "cxTwoPoint"} THEN {"toolbox.mate"} ELSE {}) \cup
  (IF o.mutation \in {"mutFlipBit", "mutShuffleIndexes"} THEN {"toolbox.mutate"} ELSE {}) \cup
  (IF o.selection = "unknown" THEN {} ELSE {"toolbox.select"})

LEMMA MLToolboxIs ==
  ASSUME NEW o \in MLOptions
  PROVE  /\ Program(MLToolbox(o)) /\ Names(MLToolbox(o)) = MLToolboxNames(o)
         /\ \A E : {"base", "tools", "futures"} \subseteq E /\ MLWorks(o)
                     => Runs(MLToolbox(o), E)
<1> DEFINE a == Stmt({"base"}, {"toolbox"})
           b == Register("toolbox.mate", o.crossover, {})
           c == Register("toolbox.mutate", o.mutation, {"indpb"})
           d == RegisterSelect(o.selection)
           e == Stmt({"toolbox", "futures"}, {"toolbox.map"})
<1>1. /\ Statement(a) /\ a.needs = {"base"} /\ a.gives = {"toolbox"}
      /\ Statement(e) /\ e.needs = {"toolbox", "futures"} /\ e.gives = {"toolbox.map"}
  BY DEF Stmt, Statement, Limits, MateLimit, MutateLimit
<1>2. o.crossover \in Crossovers /\ o.mutation \in Mutations /\ o.selection \in Selections
  BY DEF MLOptions
<1>3. /\ Statement(b) /\ b.gives = IF o.crossover \in {"cxOnePoint", "cxTwoPoint"}
                                   THEN {"toolbox.mate"} ELSE {}
      /\ MLWorks(o) => b.needs = {"toolbox", "tools"}
  BY <1>2, PlainCrossoverIs DEF MLWorks, Crossovers
<1>4. /\ Statement(c) /\ c.gives = IF o.mutation \in {"mutFlipBit", "mutShuffleIndexes"}
                                   THEN {"toolbox.mutate"} ELSE {}
      /\ MLWorks(o) => c.needs = {"toolbox", "tools"}
  BY <1>2, MutationIs DEF MLWorks
<1>5. /\ Statement(d) /\ d.gives = IF o.selection = "unknown" THEN {} ELSE {"toolbox.select"}
      /\ MLWorks(o) => d.needs = {"toolbox", "tools"}
  BY <1>2, SelectIs DEF MLWorks
<1> HIDE DEF a, b, c, d, e
<1>6. Statement(a) /\ Statement(b) /\ Statement(c) /\ Statement(d) /\ Statement(e)
  BY <1>1, <1>3, <1>4, <1>5
<1>7. a.gives \cup b.gives \cup c.gives \cup d.gives \cup e.gives = MLToolboxNames(o)
  BY <1>1, <1>3, <1>4, <1>5 DEF MLToolboxNames
<1>8. ASSUME NEW E, {"base", "tools", "futures"} \subseteq E, MLWorks(o)
      PROVE  Runs(<<a, b, c, d, e>>, E)
  <2>1. /\ a.needs \subseteq E
        /\ b.needs \subseteq E \cup a.gives
        /\ c.needs \subseteq E \cup a.gives
        /\ d.needs \subseteq E \cup a.gives
        /\ e.needs \subseteq E \cup a.gives
    BY <1>1, <1>3, <1>4, <1>5, <1>8
  <2> QED BY <1>6, <2>1, Five
<1>9. Program(<<a, b, c, d, e>>) /\ Names(<<a, b, c, d, e>>) = MLToolboxNames(o)
  BY <1>6, <1>7, Five
<1>10. MLToolbox(o) = <<a, b, c, d, e>>
  BY DEF MLToolbox, a, b, c, d, e
<1> QED BY <1>8, <1>9, <1>10

\* The root path, the data and their accuracy, and the class of the individuals.
MLDataNames(o) ==
  {"rootPath", "X", "y", "accuracy", "creator.Individual"} \cup
  IF Weighted(o, o.evaluation) THEN {"fitness.values"} ELSE {}

LEMMA MLDataIs ==
  ASSUME NEW o \in MLOptions
  PROVE  /\ Program(MLData(o)) /\ Names(MLData(o)) = MLDataNames(o)
         /\ \A E : Runs(MLData(o), E) <=>
              {"os", "pd", "download_csv_from_google_drive_share_link", "mlEvalFunction",
               "creator", "base"} \subseteq E
<1> DEFINE a == Stmt({"os"}, {"rootPath"})
           b == Stmt({"pd", "download_csv_from_google_drive_share_link"}, {"X", "y"})
           c == Stmt({"mlEvalFunction", "X", "y"}, {"accuracy"})
           d == Create("creator.Individual", "base", o.weights, o.evaluation)
<1>1. Statement(a) /\ Statement(b) /\ Statement(c)
  BY DEF Stmt, Statement, Limits, MateLimit, MutateLimit
<1>2. /\ a.needs = {"os"} /\ a.gives = {"rootPath"}
      /\ b.needs = {"pd", "download_csv_from_google_drive_share_link"} /\ b.gives = {"X", "y"}
      /\ c.needs = {"mlEvalFunction", "X", "y"} /\ c.gives = {"accuracy"}
  BY DEF Stmt
<1>3. /\ Statement(d) /\ d.needs = {"creator", "base"}
      /\ d.gives = {"creator.Individual"} \cup
                   IF Weighted(o, o.evaluation) THEN {"fitness.values"} ELSE {}
  BY DEF Create, Stmt, Statement, Weighted, Limits, MateLimit, MutateLimit
<1> HIDE DEF a, b, c, d
<1>4. a.gives \cup b.gives \cup c.gives \cup d.gives = MLDataNames(o)
  BY <1>2, <1>3 DEF MLDataNames
<1>5. ASSUME NEW E
      PROVE  Runs(<<a, b, c, d>>, E) <=>
               {"os", "pd", "download_csv_from_google_drive_share_link", "mlEvalFunction",
                "creator", "base"} \subseteq E
  <2>1. a.needs \subseteq E <=> "os" \in E
    BY <1>2
  <2>2. b.needs \subseteq E \cup a.gives <=>
          {"pd", "download_csv_from_google_drive_share_link"} \subseteq E
    BY <1>2
  <2>3. c.needs \subseteq E \cup a.gives \cup b.gives <=> "mlEvalFunction" \in E
    BY <1>2
  <2>4. d.needs \subseteq E \cup a.gives \cup b.gives \cup c.gives <=>
          {"creator", "base"} \subseteq E
    BY <1>2, <1>3
  <2> QED BY <2>1, <2>2, <2>3, <2>4, Four
<1>6. Program(<<a, b, c, d>>)
  BY <1>1, <1>3, Four
<1>7. Names(<<a, b, c, d>>) = MLDataNames(o)
  BY <1>4, Four
<1>8. MLData(o) = <<a, b, c, d>>
  BY DEF MLData, a, b, c, d
<1> QED BY <1>5, <1>6, <1>7, <1>8

\* Its individuals and their evaluation.
LEMMA MLIndividualsAre ==
  /\ Program(MLIndividuals)
  /\ Names(MLIndividuals) = {"toolbox.attr", "toolbox.individual", "toolbox.population",
                             "toolbox.evaluate"}
  /\ \A E : {"toolbox", "random", "tools", "creator.Individual", "X", "y", "mlEvalFunction"}
              \subseteq E => Runs(MLIndividuals, E)
<1> DEFINE a == Stmt({"toolbox", "random"}, {"toolbox.attr"})
           b == Stmt({"toolbox.attr", "tools", "creator.Individual", "X"},
                     {"toolbox.individual", "toolbox.population"})
           c == Stmt({"toolbox", "mlEvalFunction", "X", "y"}, {"toolbox.evaluate"})
<1>1. Statement(a) /\ Statement(b) /\ Statement(c)
  BY DEF Stmt, Statement, Limits, MateLimit, MutateLimit
<1>2. a.gives \cup b.gives \cup c.gives =
        {"toolbox.attr", "toolbox.individual", "toolbox.population", "toolbox.evaluate"}
  BY DEF Stmt
<1>3. ASSUME NEW E, {"toolbox", "random", "tools", "creator.Individual", "X", "y",
                     "mlEvalFunction"} \subseteq E
      PROVE  /\ a.needs \subseteq E
             /\ b.needs \subseteq E \cup a.gives
             /\ c.needs \subseteq E \cup a.gives \cup b.gives
  BY <1>3 DEF Stmt
<1>4. MLIndividuals = <<a, b, c>>
  BY DEF MLIndividuals
<1> HIDE DEF a, b, c
<1>5. Program(<<a, b, c>>) /\ Names(<<a, b, c>>) = a.gives \cup b.gives \cup c.gives
  BY <1>1, Three
<1>6. ASSUME NEW E, {"toolbox", "random", "tools", "creator.Individual", "X", "y",
                     "mlEvalFunction"} \subseteq E
      PROVE  Runs(<<a, b, c>>, E)
  BY <1>3, <1>6, Three
<1> QED BY <1>2, <1>4, <1>5, <1>6

\* Its population, hall of fame and statistics.
LEMMA MLSetupIs ==
  ASSUME NEW o \in MLOptions
  PROVE  /\ Program(MLSetup(o))
         /\ Names(MLSetup(o)) = {"pop", "hof", "stats"} \cup
                                IF o.hof > 0 THEN {"room in hof"} ELSE {}
         /\ \A E : {"toolbox.population", "tools", "numpy"} \subseteq E => Runs(MLSetup(o), E)
<1> DEFINE a == Stmt({"toolbox.population"}, {"pop"})
           b == HallOfFame(o.hof)
           c == Stmt({"tools", "numpy"}, {"stats"})
<1>1. Statement(a) /\ Statement(c)
  BY DEF Stmt, Statement, Limits, MateLimit, MutateLimit
<1>2. /\ a.needs = {"toolbox.population"} /\ a.gives = {"pop"}
      /\ c.needs = {"tools", "numpy"} /\ c.gives = {"stats"}
  BY DEF Stmt
<1>3. /\ Statement(b) /\ b.needs = {"tools"}
      /\ b.gives = {"hof"} \cup IF o.hof > 0 THEN {"room in hof"} ELSE {}
  BY HallOfFameIs DEF MLOptions
<1>4. MLSetup(o) = <<a, b, c>>
  BY DEF MLSetup
<1> HIDE DEF a, b, c
<1>5. Program(<<a, b, c>>)
  BY <1>1, <1>3, Three
<1>6. ASSUME NEW E, {"toolbox.population", "tools", "numpy"} \subseteq E
      PROVE  Runs(<<a, b, c>>, E)
  <2>1. a.needs \subseteq E /\ b.needs \subseteq E /\ c.needs \subseteq E
    BY <1>2, <1>3, <1>6
  <2> QED BY <2>1, Three
<1>7. Names(<<a, b, c>>) = {"pop", "hof", "stats"} \cup
                           IF o.hof > 0 THEN {"room in hof"} ELSE {}
  <2>1. Names(<<a, b, c>>) = a.gives \cup b.gives \cup c.gives
    BY Three
  <2> QED BY <1>2, <1>3, <2>1
<1> QED BY <1>4, <1>5, <1>6, <1>7

\* Its algorithm.
LEMMA MLCallAlgoIs ==
  ASSUME NEW o \in MLOptions, MLAccepts(o)
  PROVE  /\ Program(MLCallAlgo(o))
         /\ o.algorithm = "de" => Names(MLCallAlgo(o)) = {}
         /\ o.algorithm = "eaGenerateUpdate" =>
              \A E : Runs(MLCallAlgo(o), E) => "cma" \in E
         /\ o.algorithm \in Evolving =>
              /\ Names(MLCallAlgo(o)) = {"logbook", "hof[0]"}
              /\ \A E : Runs(MLCallAlgo(o), E) <=>
                   {"algorithms", "toolbox.evaluate", "toolbox.map", "room in hof",
                    "fitness.values", "toolbox.select", "toolbox.mate", "toolbox.mutate",
                    "pop", "stats", "X", "y"} \subseteq E
<1> DEFINE a == Stmt({"cma", "numpy", "X", "creator.Individual"},
                     {"toolbox.generate", "toolbox.update"})
           b == RunAlgorithm(o.algorithm, {"pop", "stats", "X", "y"})
           s == When(o.algorithm = "eaGenerateUpdate", <<a>>)
           t == When(o.algorithm # "de", <<b>>)
<1>1. Statement(a) /\ "cma" \in a.needs
  BY DEF Stmt, Statement, Limits, MateLimit, MutateLimit
<1>2. o.algorithm \in Algorithms /\ {"pop", "stats", "X", "y"} \cap Limits = {}
  BY DEF MLOptions, Limits, MateLimit, MutateLimit
<1>3. /\ Statement(b) /\ b.gives = {"logbook", "hof[0]"}
      /\ o.algorithm \in Evolving =>
           b.needs = {"algorithms", "toolbox.evaluate", "toolbox.map", "room in hof",
                      "fitness.values", "toolbox.select", "toolbox.mate", "toolbox.mutate",
                      "pop", "stats", "X", "y"}
  <2>1. PICK beyond : beyond = {"pop", "stats", "X", "y"}
    OBVIOUS
  <2>2. beyond \cap Limits = {}
    BY <1>2, <2>1
  <2> DEFINE r == RunAlgorithm(o.algorithm, beyond)
  <2>3. /\ Statement(r) /\ r.gives = {"logbook", "hof[0]"}
        /\ o.algorithm \in Evolving =>
             r.needs = {"algorithms", "toolbox.evaluate", "toolbox.map", "room in hof",
                        "fitness.values", "toolbox.select", "toolbox.mate",
                        "toolbox.mutate"} \cup beyond
    BY <1>2, <2>2, RunAlgorithmIs
  <2>4. b = r
    BY <2>1
  <2> HIDE DEF b, r
  <2> QED BY <2>1, <2>3, <2>4
<1>4. MLCallAlgo(o) = s \o t
  BY DEF MLCallAlgo
<1> HIDE DEF a, b
<1>5. /\ o.algorithm = "eaGenerateUpdate" => s = <<a>>
      /\ o.algorithm # "eaGenerateUpdate" => s = <<>>
      /\ o.algorithm = "de" => t = <<>>
      /\ o.algorithm # "de" => t = <<b>>
  BY DEF When
<1> HIDE DEF s, t
<1>6. Program(<<a>>) /\ Program(<<b>>) /\ Program(<<>>)
  BY <1>1, <1>3, One, Empty
<1>7. Program(s) /\ Program(t)
  BY <1>5, <1>6
<1>8. /\ Program(s \o t) /\ Names(s \o t) = Names(s) \cup Names(t)
      /\ \A E : Runs(s \o t, E) <=> Runs(s, E) /\ Runs(t, E \cup Names(s))
  BY <1>7, Concat
<1>9. CASE o.algorithm = "de"
  <2>1. s = <<>> /\ t = <<>> /\ o.algorithm \notin Evolving
    BY <1>5, <1>9 DEF Evolving
  <2> QED BY <1>4, <1>8, <1>9, <2>1, Empty
<1>10. CASE o.algorithm = "eaGenerateUpdate"
  <2>1. s = <<a>> /\ o.algorithm \notin Evolving
    BY <1>5, <1>10 DEF Evolving
  <2>2. \A E : Runs(s, E) => "cma" \in E
    BY <1>1, <2>1, One
  <2> QED BY <1>4, <1>8, <1>10, <2>1, <2>2
<1>11. CASE o.algorithm \in Evolving
  <2>1. o.algorithm # "de" /\ o.algorithm # "eaGenerateUpdate"
    BY <1>11 DEF Evolving
  <2>2. s = <<>> /\ t = <<b>>
    BY <1>5, <2>1
  <2>3. Names(s) = {} /\ Names(t) = {"logbook", "hof[0]"}
    BY <1>3, <2>2, Empty, One
  <2>4. ASSUME NEW E
        PROVE  Runs(s \o t, E) <=>
                 {"algorithms", "toolbox.evaluate", "toolbox.map", "room in hof",
                  "fitness.values", "toolbox.select", "toolbox.mate", "toolbox.mutate",
                  "pop", "stats", "X", "y"} \subseteq E
    <3>1. Runs(s, E) /\ E \cup Names(s) = E
      BY <2>2, <2>3, Empty
    <3>2. Runs(t, E) <=> b.needs \subseteq E
      BY <2>2, One
    <3> QED BY <1>3, <1>8, <1>11, <3>1, <3>2
  <2> QED BY <1>4, <1>8, <1>11, <2>1, <2>3, <2>4
<1> QED BY <1>9, <1>10, <1>11 DEF MLAccepts, ValidAlgorithms

\* Its files.
LEMMA MLReportIs ==
  /\ Program(<<MLBest>>) /\ Names(<<MLBest>>) = {"best.txt"}
  /\ \A E : Runs(<<MLBest>>, E) <=> {"accuracy", "hof[0]", "X", "rootPath"} \subseteq E
  /\ Program(MLPlots) /\ Names(MLPlots) = {"logbook.txt", "fitness_plot.png"}
  /\ \A E : Runs(MLPlots, E) <=> {"logbook", "rootPath", "plt"} \subseteq E
<1> DEFINE a == Stmt({"logbook", "rootPath"}, {"logbook.txt"})
           b == Stmt({"plt", "rootPath"}, {"fitness_plot.png"})
<1>1. Statement(MLBest) /\ Statement(a) /\ Statement(b)
  BY DEF MLBest, Stmt, Statement, Limits, MateLimit, MutateLimit
<1>2. /\ MLBest.needs = {"accuracy", "hof[0]", "X", "rootPath"} /\ MLBest.gives = {"best.txt"}
      /\ a.needs = {"logbook", "rootPath"} /\ a.gives = {"logbook.txt"}
      /\ b.needs = {"plt", "rootPath"} /\ b.gives = {"fitness_plot.png"}
  BY DEF MLBest, Stmt
<1>3. MLPlots = <<a, b>>
  BY DEF MLPlots
<1> HIDE DEF a, b
<1>4. /\ Program(<<MLBest>>) /\ Names(<<MLBest>>) = {"best.txt"}
      /\ \A E : Runs(<<MLBest>>, E) <=> {"accuracy", "hof[0]", "X", "rootPath"} \subseteq E
  BY <1>1, <1>2, One
<1>5. /\ Program(<<a, b>>) /\ Names(<<a, b>>) = {"logbook.txt", "fitness_plot.png"}
  BY <1>1, <1>2, Two
<1>6. ASSUME NEW E
      PROVE  Runs(<<a, b>>, E) <=> {"logbook", "rootPath", "plt"} \subseteq E
  <2>1. Runs(<<a, b>>, E) <=> a.needs \subseteq E /\ b.needs \subseteq E \cup a.gives
    BY Two
  <2> QED BY <1>2, <2>1
<1> QED BY <1>3, <1>4, <1>5, <1>6

\* The program of a request comes to its end for the options of MLWorks.
LEMMA MLProgramIs ==
  ASSUME NEW o \in MLOptions, MLAccepts(o)
  PROVE  /\ Program(MLCode(o)) /\ {"best.txt", "logbook.txt"} \subseteq Names(MLCode(o))
         /\ Runs(MLCode(o), {}) <=> Weighted(o, o.evaluation) /\ MLWorks(o)
<1> DEFINE a == MLFunctions(o)
           b == MLToolbox(o)
           c == MLData(o)
           d == MLIndividuals
           e == MLSetup(o)
           f == MLCallAlgo(o)
           g == <<MLBest>>
           h == MLPlots
           E2 == Names(a)
           E3 == Names(a) \cup Names(b)
           E4 == Names(a) \cup Names(b) \cup Names(c)
           E5 == Names(a) \cup Names(b) \cup Names(c) \cup Names(d)
           E6 == Names(a) \cup Names(b) \cup Names(c) \cup Names(d) \cup Names(e)
           E7 == Names(a) \cup Names(b) \cup Names(c) \cup Names(d) \cup Names(e) \cup Names(f)
           E8 == Names(a) \cup Names(b) \cup Names(c) \cup Names(d) \cup Names(e) \cup
                 Names(f) \cup Names(g)
<1>1. MLCode(o) = a \o b \o c \o d \o e \o f \o g \o h
  BY DEF MLCode
<1>2. /\ Program(a) /\ Program(b) /\ Program(c) /\ Program(d)
      /\ Program(e) /\ Program(f) /\ Program(g) /\ Program(h)
  BY MLFunctionsAre, MLToolboxIs, MLDataIs, MLIndividualsAre, MLSetupIs, MLCallAlgoIs, MLReportIs
<1>3. /\ Names(a) = MLFunctionNames(o) /\ Names(b) = MLToolboxNames(o)
      /\ Names(c) = MLDataNames(o)
      /\ Names(d) = {"toolbox.attr", "toolbox.individual", "toolbox.population",
                     "toolbox.evaluate"}
      /\ Names(e) = {"pop", "hof", "stats"} \cup IF o.hof > 0 THEN {"room in hof"} ELSE {}
      /\ Names(g) = {"best.txt"} /\ Names(h) = {"logbook.txt", "fitness_plot.png"}
  BY MLFunctionsAre, MLToolboxIs, MLDataIs, MLIndividualsAre, MLSetupIs, MLReportIs
<1>4. /\ o.algorithm = "de" => Names(f) = {}
      /\ o.algorithm \in Evolving => Names(f) = {"logbook", "hof[0]"}
  BY MLCallAlgoIs
<1>5. /\ Runs(a, {})
      /\ {"base", "tools", "futures"} \subseteq E2 /\ MLWorks(o) => Runs(b, E2)
      /\ Runs(c, E3) <=>
           {"os", "pd", "download_csv_from_google_drive_share_link", "mlEvalFunction",
            "creator", "base"} \subseteq E3
      /\ {"toolbox", "random", "tools", "creator.Individual", "X", "y", "mlEvalFunction"}
           \subseteq E4 => Runs(d, E4)
      /\ {"toolbox.population", "tools", "numpy"} \subseteq E5 => Runs(e, E5)
  BY MLFunctionsAre, MLToolboxIs, MLDataIs, MLIndividualsAre, MLSetupIs
<1>6. /\ o.algorithm = "eaGenerateUpdate" => (Runs(f, E6) => "cma" \in E6)
      /\ o.algorithm \in Evolving =>
           (Runs(f, E6) <=>
             {"algorithms", "toolbox.evaluate", "toolbox.map", "room in hof",
              "fitness.values", "toolbox.select", "toolbox.mate", "toolbox.mutate",
              "pop", "stats", "X", "y"} \subseteq E6)
  BY MLCallAlgoIs
<1>7. /\ Runs(g, E7) <=> {"accuracy", "hof[0]", "X", "rootPath"} \subseteq E7
      /\ Runs(h, E8) <=> {"logbook", "rootPath", "plt"} \subseteq E8
  BY MLReportIs
<1> HIDE DEF a, b, c, d, e, f, g, h
<1>8. /\ Program(MLCode(o))
      /\ Names(MLCode(o)) = Names(a) \cup Names(b) \cup Names(c) \cup Names(d) \cup Names(e) \cup
                            Names(f) \cup Names(g) \cup Names(h)
      /\ Runs(MLCode(o), {}) <=>
           /\ Runs(a, {}) /\ Runs(b, E2) /\ Runs(c, E3) /\ Runs(d, E4)
           /\ Runs(e, E5) /\ Runs(f, E6) /\ Runs(g, E7) /\ Runs(h, E8)
  <2> DEFINE p2 == a \o b
             p3 == p2 \o c
             p4 == p3 \o d
             p5 == p4 \o e
             p6 == p5 \o f
             p7 == p6 \o g
             p8 == p7 \o h
  <2>1. /\ Program(p2) /\ Names(p2) = Names(a) \cup Names(b)
        /\ Runs(p2, {}) <=> Runs(a, {}) /\ Runs(b, Names(a))
    BY <1>2, Follow
  <2> HIDE DEF p2
  <2>2. /\ Program(p3) /\ Names(p3) = Names(p2) \cup Names(c)
        /\ Runs(p3, {}) <=> Runs(p2, {}) /\ Runs(c, Names(p2))
    BY <1>2, <2>1, Follow
  <2> HIDE DEF p3
  <2>3. /\ Program(p4) /\ Names(p4) = Names(p3) \cup Names(d)
        /\ Runs(p4, {}) <=> Runs(p3, {}) /\ Runs(d, Names(p3))
    BY <1>2, <2>2, Follow
  <2> HIDE DEF p4
  <2>4. /\ Program(p5) /\ Names(p5) = Names(p4) \cup Names(e)
        /\ Runs(p5, {}) <=> Runs(p4, {}) /\ Runs(e, Names(p4))
    BY <1>2, <2>3, Follow
  <2> HIDE DEF p5
  <2>5. /\ Program(p6) /\ Names(p6) = Names(p5) \cup Names(f)
        /\ Runs(p6, {}) <=> Runs(p5, {}) /\ Runs(f, Names(p5))
    BY <1>2, <2>4, Follow
  <2> HIDE DEF p6
  <2>6. /\ Program(p7) /\ Names(p7) = Names(p6) \cup Names(g)
        /\ Runs(p7, {}) <=> Runs(p6, {}) /\ Runs(g, Names(p6))
    BY <1>2, <2>5, Follow
  <2> HIDE DEF p7
  <2>7. /\ Program(p8) /\ Names(p8) = Names(p7) \cup Names(h)
        /\ Runs(p8, {}) <=> Runs(p7, {}) /\ Runs(h, Names(p7))
    BY <1>2, <2>6, Follow
  <2> HIDE DEF p8
  <2>8. MLCode(o) = p8
    BY <1>1 DEF p2, p3, p4, p5, p6, p7, p8
  <2> QED BY <2>1, <2>2, <2>3, <2>4, <2>5, <2>6, <2>7, <2>8
<1>9. {"best.txt", "logbook.txt"} \subseteq Names(MLCode(o))
  BY <1>3, <1>8
<1>10. ASSUME Weighted(o, o.evaluation), MLWorks(o) PROVE Runs(MLCode(o), {})
  <2>1. o.algorithm \in Evolving /\ o.evaluation # "none" /\ o.hof > 0
    BY <1>10 DEF MLWorks
  <2>2. /\ "toolbox.mate" \in Names(b) /\ "toolbox.mutate" \in Names(b)
        /\ "toolbox.select" \in Names(b) /\ "toolbox" \in Names(b) /\ "toolbox.map" \in Names(b)
    BY <1>3, <1>10 DEF MLWorks, MLToolboxNames
  <2>3. {"random", "os", "base", "creator", "tools", "algorithms", "numpy", "plt", "reduce",
         "futures", "pd", "warnings", "download_csv_from_google_drive_share_link",
         "mlEvalFunction"} \subseteq Names(a)
    BY <1>3, <2>1 DEF MLFunctionNames
  <2>4. {"rootPath", "X", "y", "accuracy", "creator.Individual", "fitness.values"}
          \subseteq Names(c)
    BY <1>3, <1>10 DEF MLDataNames
  <2>5. {"toolbox.population", "toolbox.evaluate"} \subseteq Names(d)
    BY <1>3
  <2>6. {"pop", "stats", "room in hof"} \subseteq Names(e)
    BY <1>3, <2>1
  <2>7. {"logbook", "hof[0]"} \subseteq Names(f)
    BY <1>4, <2>1
  <2>8. Runs(b, E2) /\ Runs(c, E3) /\ Runs(d, E4) /\ Runs(e, E5)
    BY <1>5, <1>10, <2>2, <2>3, <2>4, <2>5
  <2>9. Runs(f, E6)
    BY <1>6, <2>1, <2>2, <2>3, <2>4, <2>5, <2>6
  <2>10. Runs(g, E7) /\ Runs(h, E8)
    BY <1>7, <2>3, <2>4, <2>7
  <2> QED BY <1>5, <1>8, <2>8, <2>9, <2>10
<1>11. ASSUME Runs(MLCode(o), {}) PROVE Weighted(o, o.evaluation) /\ MLWorks(o)
  <2>1. o.algorithm # "de"
    <3>1. ASSUME o.algorithm = "de" PROVE FALSE
      <4>1. "hof[0]" \in E7 /\ Names(f) = {}
        BY <1>4, <1>7, <1>8, <1>11, <3>1
      <4> QED BY <1>3, <4>1 DEF MLFunctionNames, MLToolboxNames, MLDataNames
    <3> QED BY <3>1
  <2>2. o.algorithm # "eaGenerateUpdate"
    <3>1. ASSUME o.algorithm = "eaGenerateUpdate" PROVE FALSE
      <4>1. "cma" \in E6
        BY <1>6, <1>8, <1>11, <3>1
      <4> QED BY <1>3, <4>1 DEF MLFunctionNames, MLToolboxNames, MLDataNames
    <3> QED BY <3>1
  <2>3. o.algorithm \in Evolving
    BY <2>1, <2>2 DEF MLAccepts, ValidAlgorithms
  <2>4. {"room in hof", "fitness.values", "toolbox.select", "toolbox.mate", "toolbox.mutate"}
          \subseteq E6
    BY <1>6, <1>8, <1>11, <2>3
  <2>5. "mlEvalFunction" \in E3
    BY <1>5, <1>8, <1>11
  <2>6. o.evaluation # "none"
    BY <1>3, <2>5 DEF MLFunctionNames, MLToolboxNames
  <2>7. o.hof > 0
    BY <1>3, <2>4 DEF MLFunctionNames, MLToolboxNames, MLDataNames
  <2>8. o.crossover \in {"cxOnePoint", "cxTwoPoint"}
    BY <1>3, <2>4 DEF MLFunctionNames, MLToolboxNames, MLDataNames
  <2>9. o.mutation \in {"mutFlipBit", "mutShuffleIndexes"}
    BY <1>3, <2>4 DEF MLFunctionNames, MLToolboxNames, MLDataNames
  <2>10. o.selection # "unknown"
    BY <1>3, <2>4 DEF MLFunctionNames, MLToolboxNames, MLDataNames
  <2>11. Weighted(o, o.evaluation)
    BY <1>3, <2>4 DEF MLFunctionNames, MLToolboxNames, MLDataNames
  <2> QED BY <2>3, <2>6, <2>7, <2>8, <2>9, <2>10, <2>11 DEF MLWorks, MLOptions, Selections
<1> QED BY <1>8, <1>9, <1>10, <1>11

-----------------------------------------------------------------------------
(* Particle swarms.                                                        *)

\* The imports of modules/pso.go, its particles and their functions.
PSOImported ==
  {"math", "os", "numpy", "base", "benchmarks", "creator", "tools", "plt", "animation"}

LEMMA PSODefinitionsAre ==
  ASSUME NEW o
  PROVE  /\ Program(PSODefinitions(o)) /\ Runs(PSODefinitions(o), {})
         /\ Names(PSODefinitions(o)) =
              PSOImported \cup {"creator.Particle", "generate", "updateParticle"} \cup
              IF Weighted(o, PSONumbers(o)) THEN {"fitness.values"} ELSE {}
<1> DEFINE a == PSOImports
           b == Create("creator.Particle", "numpy", o.weights, PSONumbers(o))
           c == ParticleFunctions
<1>1. Statement(a) /\ Statement(c)
  BY DEF PSOImports, ParticleFunctions, Stmt, Statement, Limits, MateLimit, MutateLimit
<1>2. /\ a.needs = {} /\ a.gives = PSOImported
      /\ c.needs = {} /\ c.gives = {"generate", "updateParticle"}
  BY DEF PSOImports, ParticleFunctions, Stmt, PSOImported
<1>3. /\ Statement(b) /\ b.needs = {"creator", "base", "numpy"}
      /\ b.gives = {"creator.Particle"} \cup
                   IF Weighted(o, PSONumbers(o)) THEN {"fitness.values"} ELSE {}
  <2>1. Statement(b) /\ b.needs = {"creator", "base", "numpy"}
    BY DEF Create, Stmt, Statement, Weighted, Limits, MateLimit, MutateLimit
  <2>2. b.gives = {"creator.Particle"} \cup
                  IF Weighted(o, PSONumbers(o)) THEN {"fitness.values"} ELSE {}
    BY DEF Create, Stmt, Statement, Weighted, Limits, MateLimit, MutateLimit
  <2> QED BY <2>1, <2>2
<1>4. PSODefinitions(o) = <<a, b, c>>
  BY DEF PSODefinitions
<1> HIDE DEF a, b, c
<1>5. Program(<<a, b, c>>) /\ Names(<<a, b, c>>) = a.gives \cup b.gives \cup c.gives
  BY <1>1, <1>3, Three
<1>6. a.gives \cup b.gives \cup c.gives =
        PSOImported \cup {"creator.Particle", "generate", "updateParticle"} \cup
        IF Weighted(o, PSONumbers(o)) THEN {"fitness.values"} ELSE {}
  BY <1>2, <1>3
<1>7. Runs(<<a, b, c>>, {})
  <2>1. a.needs \subseteq {} /\ b.needs \subseteq {} \cup a.gives
        /\ c.needs \subseteq {} \cup a.gives \cup b.gives
    BY <1>2, <1>3 DEF PSOImported
  <2> QED BY <2>1, Three
<1> QED BY <1>4, <1>5, <1>6, <1>7

\* Its toolbox.
LEMMA PSOToolboxIs ==
  /\ Program(PSOToolbox)
  /\ Names(PSOToolbox) = {"toolbox", "toolbox.population", "toolbox.update", "toolbox.evaluate"}
  /\ \A E : {"base", "generate", "tools", "updateParticle", "benchmarks"} \subseteq E
              => Runs(PSOToolbox, E)
<1> DEFINE a == Stmt({"base"}, {"toolbox"})
           b == Stmt({"toolbox", "generate", "tools"}, {"toolbox.population"})
           c == Stmt({"toolbox", "updateParticle"}, {"toolbox.update"})
           d == Stmt({"toolbox", "benchmarks"}, {"toolbox.evaluate"})
<1>1. Statement(a) /\ Statement(b) /\ Statement(c) /\ Statement(d)
  BY DEF Stmt, Statement, Limits, MateLimit, MutateLimit
<1>2. /\ a.needs = {"base"} /\ a.gives = {"toolbox"}
      /\ b.needs = {"toolbox", "generate", "tools"} /\ b.gives = {"toolbox.population"}
      /\ c.needs = {"toolbox", "updateParticle"} /\ c.gives = {"toolbox.update"}
      /\ d.needs = {"toolbox", "benchmarks"} /\ d.gives = {"toolbox.evaluate"}
  BY DEF Stmt
<1>3. PSOToolbox = <<a, b, c, d>>
  BY DEF PSOToolbox
<1> HIDE DEF a, b, c, d
<1>4. Program(<<a, b, c, d>>)
  BY <1>1, Four
<1>5. Names(<<a, b, c, d>>) =
        {"toolbox", "toolbox.population", "toolbox.update", "toolbox.evaluate"}
  <2>1. Names(<<a, b, c, d>>) = a.gives \cup b.gives \cup c.gives \cup d.gives
    BY Four
  <2> QED BY <1>2, <2>1
<1>6. ASSUME NEW E, {"base", "generate", "tools", "updateParticle", "benchmarks"} \subseteq E
      PROVE  Runs(<<a, b, c, d>>, E)
  <2>1. /\ a.needs \subseteq E
        /\ b.needs \subseteq E \cup a.gives
        /\ c.needs \subseteq E \cup a.gives \cup b.gives
        /\ d.needs \subseteq E \cup a.gives \cup b.gives \cup c.gives
    BY <1>2, <1>6
  <2> QED BY <2>1, Four
<1> QED BY <1>3, <1>4, <1>5, <1>6

\* The coordinates a particle has, by the number of dimensions.
LEMMA CoordinatesAre ==
  ASSUME NEW o \in PSOOptions, PSOAccepts(o)
  PROVE  Coordinates(o) = {"p[0]"} \cup IF o.dimensions > 1 THEN {"p[1]"} ELSE {}
<1>1. o.dimensions > 0
  BY DEF PSOAccepts
<1>2. "p[0]" # "p[1]"
  OBVIOUS
<1> QED BY <1>1, <1>2 DEF Coordinates

\* main up to the plot.
LEMMA PSOMainIs ==
  ASSUME NEW o \in PSOOptions, PSOAccepts(o)
  PROVE  /\ Program(PSOMain(o))
         /\ Names(PSOMain(o)) =
              {"rootPath", "pop", "p[0]", "stats", "logbook", "best", "GEN"} \cup
              IF o.dimensions > 1 THEN {"p[1]"} ELSE {}
         /\ \A E : {"os", "toolbox.population", "creator.Particle", "numpy", "tools"} \subseteq E
                     => Runs(PSOMain(o), E)
<1> DEFINE a == Stmt({"os"}, {"rootPath"})
           b == Stmt({"toolbox.population", "creator.Particle", "numpy"},
                     {"pop"} \cup Coordinates(o))
           c == Stmt({"tools", "numpy"}, {"stats", "logbook"})
           d == Stmt({}, {"best", "GEN"})
<1>1. Statement(a) /\ Statement(b) /\ Statement(c) /\ Statement(d)
  BY DEF Stmt, Statement, Limits, MateLimit, MutateLimit
<1>2. /\ a.needs = {"os"} /\ a.gives = {"rootPath"}
      /\ b.needs = {"toolbox.population", "creator.Particle", "numpy"}
      /\ b.gives = {"pop"} \cup Coordinates(o)
      /\ c.needs = {"tools", "numpy"} /\ c.gives = {"stats", "logbook"}
      /\ d.needs = {} /\ d.gives = {"best", "GEN"}
  BY DEF Stmt
<1>3. PSOMain(o) = <<a, b, c, d>>
  BY DEF PSOMain
<1> HIDE DEF a, b, c, d
<1>4. Program(<<a, b, c, d>>)
  BY <1>1, Four
<1>5. Names(<<a, b, c, d>>) =
        {"rootPath", "pop", "p[0]", "stats", "logbook", "best", "GEN"} \cup
        IF o.dimensions > 1 THEN {"p[1]"} ELSE {}
  <2>1. Names(<<a, b, c, d>>) = a.gives \cup b.gives \cup c.gives \cup d.gives
    BY Four
  <2> QED BY <1>2, <2>1, CoordinatesAre
<1>6. ASSUME NEW E,
             {"os", "toolbox.population", "creator.Particle", "numpy", "tools"} \subseteq E
      PROVE  Runs(<<a, b, c, d>>, E)
  <2>1. a.needs \subseteq E /\ b.needs \subseteq E /\ c.needs \subseteq E /\ d.needs \subseteq E
    BY <1>2, <1>6
  <2> QED BY <2>1, Four
<1> QED BY <1>3, <1>4, <1>5, <1>6

\* The plot, of the first two coordinates.
LEMMA SetupPlotIs ==
  /\ Program(SetupPlot)
  /\ Names(SetupPlot) = {"fig", "ax", "x_min", "x_max", "y_min", "y_max", "scat", "best_scat",
                         "generation_text"}
  /\ \A E : {"plt", "pop", "p[0]", "p[1]"} \subseteq E => Runs(SetupPlot, E)
<1> DEFINE a == Stmt({"plt"}, {"fig", "ax"})
           b == Stmt({"pop", "p[0]", "p[1]"}, {"x_min", "x_max", "y_min", "y_max"})
           c == Stmt({"ax", "plt"}, {"scat", "best_scat", "generation_text"})
<1>1. Statement(a) /\ Statement(b) /\ Statement(c)
  BY DEF Stmt, Statement, Limits, MateLimit, MutateLimit
<1>2. /\ a.needs = {"plt"} /\ a.gives = {"fig", "ax"}
      /\ b.needs = {"pop", "p[0]", "p[1]"} /\ b.gives = {"x_min", "x_max", "y_min", "y_max"}
      /\ c.needs = {"ax", "plt"} /\ c.gives = {"scat", "best_scat", "generation_text"}
  BY DEF Stmt
<1>3. SetupPlot = <<a, b, c>>
  BY DEF SetupPlot
<1> HIDE DEF a, b, c
<1>4. Program(<<a, b, c>>) /\ Names(<<a, b, c>>) = a.gives \cup b.gives \cup c.gives
  BY <1>1, Three
<1>5. a.gives \cup b.gives \cup c.gives =
        {"fig", "ax", "x_min", "x_max", "y_min", "y_max", "scat", "best_scat", "generation_text"}
  BY <1>2
<1>6. ASSUME NEW E, {"plt", "pop", "p[0]", "p[1]"} \subseteq E
      PROVE  Runs(<<a, b, c>>, E)
  <2>1. a.needs \subseteq E /\ b.needs \subseteq E \cup a.gives
        /\ c.needs \subseteq E \cup a.gives \cup b.gives
    BY <1>2, <1>6
  <2> QED BY <2>1, Three
<1> QED BY <1>3, <1>4, <1>5, <1>6

\* What the animation needs of the statements before it.
AnimationCalls ==
  {"best", "pop", "x_min", "x_max", "y_min", "y_max", "animation", "fig", "GEN",
   "toolbox.evaluate", "toolbox.update", "creator.Particle", "scat", "best_scat", "numpy",
   "p[0]", "p[1]", "fitness.values", "generation_text", "logbook", "stats", "ax", "math"}

\* The animation.
LEMMA AnimationIs ==
  /\ Program(Animation) /\ Names(Animation) = {"update", "best particle"}
  /\ \A E : /\ AnimationCalls \subseteq E => Runs(Animation, E)
            /\ Runs(Animation, E) => "fitness.values" \in E /\ "p[1]" \in E
<1> DEFINE a == DefineUpdate
           b == Stmt({"animation", "fig", "update", "GEN"} \cup UpdateCalls, {"best particle"})
<1>1. Statement(a) /\ Statement(b)
  BY DEF DefineUpdate, UpdateCalls, UpdateParticleCalls, Stmt, Statement, Limits, MateLimit,
         MutateLimit
<1>2. /\ a.gives = {"update"} /\ b.gives = {"best particle"}
      /\ a.needs \subseteq AnimationCalls
      /\ b.needs \subseteq AnimationCalls \cup {"update"}
      /\ {"fitness.values", "p[1]"} \subseteq b.needs
  BY DEF DefineUpdate, UpdateCalls, UpdateParticleCalls, Stmt, AnimationCalls
<1>3. Animation = <<a, b>>
  BY DEF Animation
<1> HIDE DEF a, b
<1>4. Program(<<a, b>>) /\ Names(<<a, b>>) = a.gives \cup b.gives
  BY <1>1, Two
<1>5. ASSUME NEW E
      PROVE  /\ AnimationCalls \subseteq E => Runs(<<a, b>>, E)
             /\ Runs(<<a, b>>, E) => "fitness.values" \in E /\ "p[1]" \in E
  <2>1. Runs(<<a, b>>, E) <=> a.needs \subseteq E /\ b.needs \subseteq E \cup a.gives
    BY Two
  <2>2. "fitness.values" # "update" /\ "p[1]" # "update"
    OBVIOUS
  <2> QED BY <1>2, <2>1, <2>2
<1> QED BY <1>2, <1>3, <1>4, <1>5

\* Its files.
LEMMA PSOReportIs ==
  /\ Program(PSOReport) /\ Names(PSOReport) = {"best.txt", "logbook.txt"}
  /\ \A E : {"best particle", "rootPath", "logbook"} \subseteq E => Runs(PSOReport, E)
<1> DEFINE a == Stmt({"best particle", "rootPath"}, {"best.txt"})
           b == Stmt({"logbook", "rootPath"}, {"logbook.txt"})
<1>1. Statement(a) /\ Statement(b)
  BY DEF Stmt, Statement, Limits, MateLimit, MutateLimit
<1>2. /\ a.needs = {"best particle", "rootPath"} /\ a.gives = {"best.txt"}
      /\ b.needs = {"logbook", "rootPath"} /\ b.gives = {"logbook.txt"}
  BY DEF Stmt
<1>3. PSOReport = <<a, b>>
  BY DEF PSOReport
<1> HIDE DEF a, b
<1>4. Program(<<a, b>>) /\ Names(<<a, b>>) = a.gives \cup b.gives
  BY <1>1, Two
<1>5. ASSUME NEW E, {"best particle", "rootPath", "logbook"} \subseteq E
      PROVE  Runs(<<a, b>>, E)
  <2>1. a.needs \subseteq E /\ b.needs \subseteq E \cup a.gives
    BY <1>2, <1>5
  <2> QED BY <2>1, Two
<1> QED BY <1>2, <1>3, <1>4, <1>5

\* A swarm runs as soon as it has two dimensions.
LEMMA PSOProgramIs ==
  ASSUME NEW o \in PSOOptions, PSOAccepts(o)
  PROVE  /\ Program(PSOCode(o)) /\ {"best.txt", "logbook.txt"} \subseteq Names(PSOCode(o))
         /\ Runs(PSOCode(o), {}) <=> Weighted(o, PSONumbers(o)) /\ PSOWorks(o)
<1> DEFINE a == PSODefinitions(o)
           b == PSOToolbox
           c == PSOMain(o)
           d == SetupPlot
           e == Animation
           f == PSOReport
           E2 == Names(a)
           E3 == Names(a) \cup Names(b)
           E4 == Names(a) \cup Names(b) \cup Names(c)
           E5 == Names(a) \cup Names(b) \cup Names(c) \cup Names(d)
           E6 == Names(a) \cup Names(b) \cup Names(c) \cup Names(d) \cup Names(e)
<1>1. PSOCode(o) = a \o b \o c \o d \o e \o f
  BY DEF PSOCode
<1>2. /\ Program(a) /\ Program(b) /\ Program(c)
      /\ Program(d) /\ Program(e) /\ Program(f)
  BY PSODefinitionsAre, PSOToolboxIs, PSOMainIs, SetupPlotIs, AnimationIs, PSOReportIs
<1>3. /\ Names(a) = PSOImported \cup {"creator.Particle", "generate", "updateParticle"} \cup
                    IF Weighted(o, PSONumbers(o)) THEN {"fitness.values"} ELSE {}
      /\ Names(b) = {"toolbox", "toolbox.population", "toolbox.update", "toolbox.evaluate"}
      /\ Names(c) = {"rootPath", "pop", "p[0]", "stats", "logbook", "best", "GEN"} \cup
                    IF o.dimensions > 1 THEN {"p[1]"} ELSE {}
      /\ Names(d) = {"fig", "ax", "x_min", "x_max", "y_min", "y_max", "scat", "best_scat",
                     "generation_text"}
      /\ Names(e) = {"update", "best particle"} /\ Names(f) = {"best.txt", "logbook.txt"}
  BY PSODefinitionsAre, PSOToolboxIs, PSOMainIs, SetupPlotIs, AnimationIs, PSOReportIs
<1>4. /\ Runs(a, {})
      /\ {"base", "generate", "tools", "updateParticle", "benchmarks"} \subseteq E2 => Runs(b, E2)
      /\ {"os", "toolbox.population", "creator.Particle", "numpy", "tools"} \subseteq E3
           => Runs(c, E3)
      /\ {"plt", "pop", "p[0]", "p[1]"} \subseteq E4 => Runs(d, E4)
  BY PSODefinitionsAre, PSOToolboxIs, PSOMainIs, SetupPlotIs
<1>5. /\ AnimationCalls \subseteq E5 => Runs(e, E5)
      /\ Runs(e, E5) => "fitness.values" \in E5 /\ "p[1]" \in E5
      /\ {"best particle", "rootPath", "logbook"} \subseteq E6 => Runs(f, E6)
  BY AnimationIs, PSOReportIs
<1> HIDE DEF a, b, c, d, e, f
<1>6. /\ Program(PSOCode(o))
      /\ Names(PSOCode(o)) = Names(a) \cup Names(b) \cup Names(c) \cup Names(d) \cup Names(e) \cup
                             Names(f)
      /\ Runs(PSOCode(o), {}) <=>
           /\ Runs(a, {}) /\ Runs(b, E2) /\ Runs(c, E3)
           /\ Runs(d, E4) /\ Runs(e, E5) /\ Runs(f, E6)
  <2> DEFINE p2 == a \o b
             p3 == p2 \o c
             p4 == p3 \o d
             p5 == p4 \o e
             p6 == p5 \o f
  <2>1. /\ Program(p2) /\ Names(p2) = Names(a) \cup Names(b)
        /\ Runs(p2, {}) <=> Runs(a, {}) /\ Runs(b, Names(a))
    BY <1>2, Follow
  <2> HIDE DEF p2
  <2>2. /\ Program(p3) /\ Names(p3) = Names(p2) \cup Names(c)
        /\ Runs(p3, {}) <=> Runs(p2, {}) /\ Runs(c, Names(p2))
    BY <1>2, <2>1, Follow
  <2> HIDE DEF p3
  <2>3. /\ Program(p4) /\ Names(p4) = Names(p3) \cup Names(d)
        /\ Runs(p4, {}) <=> Runs(p3, {}) /\ Runs(d, Names(p3))
    BY <1>2, <2>2, Follow
  <2> HIDE DEF p4
  <2>4. /\ Program(p5) /\ Names(p5) = Names(p4) \cup Names(e)
        /\ Runs(p5, {}) <=> Runs(p4, {}) /\ Runs(e, Names(p4))
    BY <1>2, <2>3, Follow
  <2> HIDE DEF p5
  <2>5. /\ Program(p6) /\ Names(p6) = Names(p5) \cup Names(f)
        /\ Runs(p6, {}) <=> Runs(p5, {}) /\ Runs(f, Names(p5))
    BY <1>2, <2>4, Follow
  <2> HIDE DEF p6
  <2>6. PSOCode(o) = p6
    BY <1>1 DEF p2, p3, p4, p5, p6
  <2> QED BY <2>1, <2>2, <2>3, <2>4, <2>5, <2>6
<1>7. {"best.txt", "logbook.txt"} \subseteq Names(PSOCode(o))
  BY <1>3, <1>6
<1>8. ASSUME Weighted(o, PSONumbers(o)), PSOWorks(o) PROVE Runs(PSOCode(o), {})
  <2>1. "p[1]" \in Names(c)
    BY <1>3, <1>8 DEF PSOWorks
  <2>2. PSOImported \cup {"creator.Particle", "generate", "updateParticle", "fitness.values"}
          \subseteq Names(a)
    BY <1>3, <1>8
  <2>3. Runs(b, E2) /\ Runs(c, E3)
    BY <1>3, <1>4, <2>2 DEF PSOImported
  <2>4. Runs(d, E4)
    BY <1>3, <1>4, <2>1, <2>2 DEF PSOImported
  <2>5. AnimationCalls \subseteq E5
    BY <1>3, <2>1, <2>2 DEF AnimationCalls, PSOImported
  <2>6. Runs(f, E6)
    BY <1>3, <1>5
  <2> QED BY <1>4, <1>5, <1>6, <2>3, <2>4, <2>5, <2>6
<1>9. ASSUME Runs(PSOCode(o), {}) PROVE Weighted(o, PSONumbers(o)) /\ PSOWorks(o)
  <2>1. "fitness.values" \in E5 /\ "p[1]" \in E5
    BY <1>5, <1>6, <1>9
  <2>2. Weighted(o, PSONumbers(o))
    BY <1>3, <2>1 DEF PSOImported
  <2>3. o.dimensions > 1
    BY <1>3, <2>1 DEF PSOImported
  <2> QED BY <2>2, <2>3 DEF PSOWorks
<1> QED BY <1>6, <1>7, <1>8, <1>9

-----------------------------------------------------------------------------
(* Evolutionary algorithms.                                                *)

\* The imports of modules/ea.go.
EAImported ==
  {"random", "os", "base", "creator", "tools", "algorithms", "numpy", "plt", "reduce",
   "futures", "benchmarks", "chain"}

\* The names that the functions before the toolbox define.
EADefined(o) ==
  (IF o.evaluation \in Benchmarks \/ (o.evaluation = "custom" /\ o.customEval = "none")
   THEN {} ELSE {o.evaluation}) \cup
  (IF o.algorithm = "de"
   THEN {"mutDE", "cxBinomial", "cxExponential"} \cup
        (IF o.mutation \in Strategies THEN {"mutDE of the strategy"} ELSE {})
   ELSE {}) \cup
  (IF o.mutation = "registration" THEN {"CustomMutation"} ELSE {})

\* The evaluation function, the functions of differential evolution and the custom ones.
LEMMA EAEvalFunctionIs ==
  ASSUME NEW o
  PROVE  /\ Program(EAEvalFunction(o)) /\ \A E : Runs(EAEvalFunction(o), E)
         /\ Names(EAEvalFunction(o)) =
              IF o.evaluation \in Benchmarks \/ (o.evaluation = "custom" /\ o.customEval = "none")
              THEN {} ELSE {o.evaluation}
<1> DEFINE a == Stmt({}, IF o.evaluation = "custom" /\ o.customEval = "none"
                         THEN {} ELSE {o.evaluation})
<1>1. /\ Statement(a) /\ a.needs = {}
      /\ a.gives = IF o.evaluation = "custom" /\ o.customEval = "none" THEN {} ELSE {o.evaluation}
  BY DEF Stmt, Statement
<1>2. EAEvalFunction(o) = IF o.evaluation \in Benchmarks THEN <<>> ELSE <<a>>
  BY DEF EAEvalFunction, When
<1> HIDE DEF a
<1>3. Program(<<a>>) /\ Names(<<a>>) = a.gives /\ \A E : Runs(<<a>>, E)
  BY <1>1, One
<1> QED BY <1>1, <1>2, <1>3, Empty

LEMMA DEFunctionsAre ==
  ASSUME NEW o
  PROVE  LET s == When(o.algorithm = "de", DEFunctions(o))
         IN /\ Program(s) /\ \A E : Runs(s, E)
            /\ Names(s) = IF o.algorithm = "de"
                          THEN {"mutDE", "cxBinomial", "cxExponential"} \cup
                               (IF o.mutation \in Strategies THEN {"mutDE of the strategy"} ELSE {})
                          ELSE {}
<1> DEFINE a == Stmt({}, {"mutDE"})
           b == Stmt({}, {IF o.mutation \in Strategies THEN "mutDE of the strategy" ELSE "mutDE"})
           c == Stmt({}, {"cxBinomial", "cxExponential"})
           s == When(o.algorithm = "de", DEFunctions(o))
<1>1. Statement(a) /\ Statement(b) /\ Statement(c)
  BY DEF Stmt, Statement
<1>2. a.needs = {} /\ b.needs = {} /\ c.needs = {}
  BY DEF Stmt
<1>3. a.gives \cup b.gives \cup c.gives =
        {"mutDE", "cxBinomial", "cxExponential"} \cup
        (IF o.mutation \in Strategies THEN {"mutDE of the strategy"} ELSE {})
  BY DEF Stmt
<1>4. s = IF o.algorithm = "de" THEN <<a, b, c>> ELSE <<>>
  BY DEF When, DEFunctions
<1> HIDE DEF a, b, c, s
<1>5. Program(<<a, b, c>>) /\ Names(<<a, b, c>>) = a.gives \cup b.gives \cup c.gives
  BY <1>1, Three
<1>6. \A E : Runs(<<a, b, c>>, E)
  BY <1>2, Three
<1>7. CASE o.algorithm = "de"
  BY <1>3, <1>4, <1>5, <1>6, <1>7 DEF s
<1>8. CASE o.algorithm # "de"
  BY <1>4, <1>8, Empty DEF s
<1> QED BY <1>7, <1>8

LEMMA CustomFunctionsAre ==
  ASSUME NEW o
  PROVE  /\ Program(CustomFunctions(o)) /\ \A E : Runs(CustomFunctions(o), E)
         /\ Names(CustomFunctions(o)) =
              IF o.mutation = "registration" THEN {"CustomMutation"} ELSE {}
<1> DEFINE a == Stmt({}, {"CustomMutation"})
<1>1. Statement(a) /\ a.needs = {} /\ a.gives = {"CustomMutation"}
  BY DEF Stmt, Statement
<1>2. CustomFunctions(o) = IF o.mutation = "registration" THEN <<a>> ELSE <<>>
  BY DEF CustomFunctions, When
<1> HIDE DEF a
<1>3. Program(<<a>>) /\ Names(<<a>>) = {"CustomMutation"} /\ \A E : Runs(<<a>>, E)
  BY <1>1, One
<1> QED BY <1>2, <1>3, Empty

\* All that precedes the toolbox.
LEMMA EAFunctionsAre ==
  ASSUME NEW o
  PROVE  /\ Program(EAFunctions(o)) /\ Runs(EAFunctions(o), {})
         /\ Names(EAFunctions(o)) = EAImported \cup EADefined(o)
<1> DEFINE a == <<EAImports>>
           b == EAEvalFunction(o)
           c == When(o.algorithm = "de", DEFunctions(o))
           d == CustomFunctions(o)
           p2 == a \o b
           p3 == p2 \o c
           p4 == p3 \o d
<1>1. Statement(EAImports) /\ EAImports.needs = {} /\ EAImports.gives = EAImported
  BY DEF EAImports, Stmt, Statement, EAImported
<1>2. Program(a) /\ Runs(a, {}) /\ Names(a) = EAImported
  BY <1>1, One
<1>3. /\ Program(b) /\ Program(c) /\ Program(d)
      /\ \A E : Runs(b, E) /\ Runs(c, E) /\ Runs(d, E)
  BY EAEvalFunctionIs, DEFunctionsAre, CustomFunctionsAre
<1>4. Names(b) \cup Names(c) \cup Names(d) = EADefined(o)
  BY EAEvalFunctionIs, DEFunctionsAre, CustomFunctionsAre DEF EADefined
<1>5. EAFunctions(o) = p4
  BY DEF EAFunctions
<1> HIDE DEF a, b, c, d
<1>6. Program(p2) /\ Names(p2) = Names(a) \cup Names(b) /\ Runs(p2, {})
  BY <1>2, <1>3, Follow
<1> HIDE DEF p2
<1>7. Program(p3) /\ Names(p3) = Names(p2) \cup Names(c) /\ Runs(p3, {})
  BY <1>3, <1>6, Follow
<1> HIDE DEF p3
<1>8. Program(p4) /\ Names(p4) = Names(p3) \cup Names(d) /\ Runs(p4, {})
  BY <1>3, <1>7, Follow
<1> HIDE DEF p4
<1> QED BY <1>2, <1>4, <1>5, <1>6, <1>7, <1>8

\* The random range that validate leaves does not fall.
LEMMA ValidRangeRises ==
  ASSUME NEW r \in Seq(Int)
  PROVE  ~(ValidRange(r)[1] > ValidRange(r)[2])
<1>1. CASE Len(r) # 2 \/ r[1] >= r[2]
  <2>1. ValidRange(r) = <<1, 5>>
    BY <1>1 DEF ValidRange
  <2> QED BY <2>1
<1>2. CASE ~(Len(r) # 2 \/ r[1] >= r[2])
  <2>1. ValidRange(r) = r
    BY <1>2 DEF ValidRange
  <2>2. Len(r) = 2
    BY <1>2
  <2>3. 1 \in 1..Len(r) /\ 2 \in 1..Len(r)
    BY <2>2
  <2>4. r[1] \in Int /\ r[2] \in Int
    BY <2>3, ElementOfSeq
  <2>5. ~(r[1] > r[2])
    BY <1>2, <2>4
  <2> QED BY <2>1, <2>5
<1> QED BY <1>1, <1>2

\* The entries for the attributes and the individual.
LEMMA RegisterIndividualIs ==
  ASSUME NEW o \in EAOptions
  PROVE  /\ Program(RegisterIndividual(o))
         /\ Names(RegisterIndividual(o)) =
              IF o.individual = "unknown" THEN {} ELSE {"toolbox.attr"}
         /\ \A E : {"toolbox", "random"} \subseteq E => Runs(RegisterIndividual(o), E)
<1> DEFINE a == Stmt({"toolbox", "random"}, {"toolbox.attr"})
<1>1. Statement(a) /\ a.needs = {"toolbox", "random"} /\ a.gives = {"toolbox.attr"}
  BY DEF Stmt, Statement, Limits, MateLimit, MutateLimit
<1>2. ~(ValidRange(o.range)[1] > ValidRange(o.range)[2])
  BY ValidRangeRises DEF EAOptions
<1>3. o.individual \in {"binarystring", "floatingpoint", "integer", "unknown"}
  BY DEF EAOptions
<1>4. RegisterIndividual(o) = IF o.individual = "unknown" THEN <<>> ELSE <<a>>
  BY <1>2, <1>3 DEF RegisterIndividual, When
<1> HIDE DEF a
<1>5. /\ Program(<<a>>) /\ Names(<<a>>) = {"toolbox.attr"}
      /\ \A E : {"toolbox", "random"} \subseteq E => Runs(<<a>>, E)
  BY <1>1, One
<1> QED BY <1>4, <1>5, Empty

\* The mutation, by its name and that of the algorithm.
LEMMA MutationFunctionIs ==
  ASSUME NEW o \in EAOptions
  PROVE  /\ Statement(MutationFunction(o))
         /\ MutationFunction(o).gives \subseteq {"toolbox.mutate"}
         /\ o.algorithm # "de" /\ MutationFunction(o).gives # {} =>
              o.mutation \in {"mutFlipBit", "mutShuffleIndexes", "registration"}
         /\ EAWorks(o) =>
              /\ MutationFunction(o).gives = {"toolbox.mutate"}
              /\ MutationFunction(o).needs \subseteq EAImported \cup EADefined(o) \cup {"toolbox"}
<1> DEFINE m == MutationFunction(o)
<1>1. CASE o.algorithm = "de"
  <2>1. m = Stmt({"toolbox", "mutDE"}, {"toolbox.mutate"})
    BY <1>1 DEF MutationFunction
  <2>2. /\ Statement(m) /\ m.needs = {"toolbox", "mutDE"} /\ m.gives = {"toolbox.mutate"}
    BY <2>1 DEF Stmt, Statement, Limits, MateLimit, MutateLimit
  <2>3. "mutDE" \in EADefined(o)
    BY <1>1 DEF EADefined
  <2> HIDE DEF m
  <2> QED BY <1>1, <2>2, <2>3 DEF m
<1>2. CASE o.algorithm # "de" /\ o.mutation \in {"mutFlipBit", "mutShuffleIndexes"}
  <2>1. o.mutation \in Mutations
    BY <1>2 DEF Mutations
  <2>2. m = Register("toolbox.mutate", o.mutation, {"indpb"})
    BY <1>2 DEF MutationFunction
  <2>3. Statement(m) /\ m.gives = {"toolbox.mutate"}
    BY <1>2, <2>1, <2>2, MutationIs
  <2>4. m.needs = {"toolbox", "tools"}
    BY <1>2, <2>1, <2>2, MutationIs
  <2> HIDE DEF m
  <2> QED BY <1>2, <2>3, <2>4 DEF m, EAImported
<1>3. CASE o.algorithm # "de" /\ o.mutation = "registration"
  <2>1. m = Stmt({"toolbox", "CustomMutation"}, {"toolbox.mutate"})
    BY <1>3 DEF MutationFunction
  <2>2. /\ Statement(m) /\ m.needs = {"toolbox", "CustomMutation"}
        /\ m.gives = {"toolbox.mutate"}
    BY <2>1 DEF Stmt, Statement, Limits, MateLimit, MutateLimit
  <2>3. "CustomMutation" \in EADefined(o)
    BY <1>3 DEF EADefined
  <2> HIDE DEF m
  <2> QED BY <1>3, <2>2, <2>3 DEF m
<1>4. CASE /\ o.algorithm # "de"
           /\ o.mutation \notin {"mutFlipBit", "mutShuffleIndexes", "registration"}
  <2>1. m = Stmt({o.mutation}, {})
    BY <1>4 DEF MutationFunction
  <2>2. o.mutation \notin Limits
    BY DEF EAOptions, Mutations, Strategies, Limits, MateLimit, MutateLimit
  <2>3. Statement(m) /\ m.gives = {}
    BY <2>1, <2>2 DEF Stmt, Statement
  <2>4. ~EAWorks(o)
    BY <1>4 DEF EAWorks
  <2> HIDE DEF m
  <2> QED BY <1>4, <2>3, <2>4 DEF m
<1> QED BY <1>1, <1>2, <1>3, <1>4

\* The toolbox up to the mutation.
EAToolboxNames(o) ==
  {"toolbox", "creator.Individual", "toolbox.individual", "toolbox.population",
   "toolbox.evaluate"} \cup
  (IF Weighted(o, EANumbers(o)) THEN {"fitness.values"} ELSE {}) \cup
  (IF o.individual = "unknown" THEN {} ELSE {"toolbox.attr"}) \cup
  MutationFunction(o).gives

LEMMA EAToolboxIs ==
  ASSUME NEW o \in EAOptions
  PROVE  /\ Program(EAToolbox(o)) /\ Names(EAToolbox(o)) = EAToolboxNames(o)
         /\ LET E == EAImported \cup EADefined(o)
            IN /\ EAWorks(o) => Runs(EAToolbox(o), E)
               /\ Runs(EAToolbox(o), E) => /\ o.individual # "unknown"
                                           /\ o.evaluation = "custom" => o.customEval # "none"
<1> DEFINE a == Stmt({"base"}, {"toolbox"})
           b == Create("creator.Individual", "base", o.weights, EANumbers(o))
           c == InitialGenerator
           d == RegisterEvaluate(o)
           e == MutationFunction(o)
           r == RegisterIndividual(o)
           s == <<a, b>>
           t == <<c, d, e>>
           E == EAImported \cup EADefined(o)
           E2 == E \cup Names(s)
           E3 == E \cup Names(s) \cup Names(r)
<1>1. /\ Statement(a) /\ Statement(c)
      /\ a.needs = {"base"} /\ a.gives = {"toolbox"}
      /\ c.needs = {"toolbox.attr", "creator.Individual", "tools"}
      /\ c.gives = {"toolbox.individual", "toolbox.population"}
  BY DEF InitialGenerator, Stmt, Statement, Limits, MateLimit, MutateLimit
<1>2. /\ Statement(b) /\ b.needs = {"creator", "base"}
      /\ b.gives = {"creator.Individual"} \cup
                   IF Weighted(o, EANumbers(o)) THEN {"fitness.values"} ELSE {}
  <2>1. Statement(b) /\ b.needs = {"creator", "base", "base"}
    BY DEF Create, Stmt, Statement, Weighted, Limits, MateLimit, MutateLimit
  <2>2. b.gives = {"creator.Individual"} \cup
                  IF Weighted(o, EANumbers(o)) THEN {"fitness.values"} ELSE {}
    BY DEF Create, Stmt, Statement, Weighted, Limits, MateLimit, MutateLimit
  <2> QED BY <2>1, <2>2
<1>3. o.evaluation \in Benchmarks \cup {"evalOneMax", "evalProduct", "evalDifference", "custom"}
  BY DEF EAOptions
<1>4. /\ Statement(d) /\ d.gives = {"toolbox.evaluate"}
      /\ d.needs = {"toolbox", IF o.evaluation \in Benchmarks THEN "benchmarks" ELSE o.evaluation}
  BY <1>3 DEF RegisterEvaluate, Benchmarks, Stmt, Statement, Limits, MateLimit, MutateLimit
<1>5. /\ Statement(e)
      /\ EAWorks(o) => e.needs \subseteq EAImported \cup EADefined(o) \cup {"toolbox"}
  BY MutationFunctionIs
<1>6. /\ Program(r) /\ Names(r) = IF o.individual = "unknown" THEN {} ELSE {"toolbox.attr"}
      /\ {"toolbox", "random"} \subseteq E2 => Runs(r, E2)
  BY RegisterIndividualIs
<1>7. EAToolbox(o) = s \o r \o t
  BY DEF EAToolbox
<1> HIDE DEF a, b, c, d, e, r, E
<1>8. Program(s) /\ Names(s) = a.gives \cup b.gives
  BY <1>1, <1>2, Two
<1>9. Program(t)
  BY <1>1, <1>4, <1>5, Three
<1>10. Names(t) = c.gives \cup d.gives \cup e.gives
  BY Three
<1>11. Runs(s, E)
  <2>1. a.needs \subseteq E /\ b.needs \subseteq E \cup a.gives
    BY <1>1, <1>2 DEF E, EAImported
  <2> QED BY <2>1, Two
<1>12. Runs(t, E3) <=> /\ c.needs \subseteq E3
                       /\ d.needs \subseteq E3 \cup c.gives
                       /\ e.needs \subseteq E3 \cup c.gives \cup d.gives
  <2> HIDE DEF E3
  <2> QED BY Three
<1> HIDE DEF s, t
<1>13. /\ Program(s \o r) /\ Names(s \o r) = Names(s) \cup Names(r)
       /\ Runs(s \o r, E) <=> Runs(r, E2)
  BY <1>6, <1>8, <1>11, Concat
<1>14. /\ Program(s \o r \o t) /\ Names(s \o r \o t) = Names(s) \cup Names(r) \cup Names(t)
       /\ Runs(s \o r \o t, E) <=> Runs(s \o r, E) /\ Runs(t, E3)
  <2> DEFINE q == s \o r
  <2>1. E3 = E \cup Names(q) /\ Program(q)
    BY <1>13
  <2>2. q \o t = s \o r \o t /\ Names(q) = Names(s) \cup Names(r)
    BY <1>13
  <2> HIDE DEF q
  <2>3. Program(q \o t) /\ Names(q \o t) = Names(q) \cup Names(t)
    BY <1>9, <2>1, Concat
  <2>4. Runs(q \o t, E) <=> Runs(q, E) /\ Runs(t, E \cup Names(q))
    BY <1>9, <2>1, Concat
  <2> QED BY <2>1, <2>2, <2>3, <2>4 DEF q
<1>15. Names(s) \cup Names(r) \cup Names(t) = EAToolboxNames(o)
  BY <1>1, <1>2, <1>4, <1>6, <1>8, <1>10 DEF EAToolboxNames, e
<1>16. ASSUME EAWorks(o) PROVE Runs(EAToolbox(o), E)
  <2>1. o.individual # "unknown" /\ (o.evaluation = "custom" => o.customEval # "none")
    BY <1>16 DEF EAWorks
  <2>2. "toolbox.attr" \in Names(r)
    BY <1>6, <2>1
  <2>3. {"toolbox", "creator.Individual"} \subseteq Names(s)
    BY <1>1, <1>2, <1>8
  <2>4. {"random", "tools", "benchmarks"} \subseteq E
    BY DEF E, EAImported
  <2>5. o.evaluation \notin Benchmarks => o.evaluation \in E
    BY <1>3, <2>1 DEF E, EADefined
  <2>6. Runs(r, E2)
    BY <1>6, <2>3, <2>4
  <2>7. c.needs \subseteq E3
    BY <1>1, <2>2, <2>3, <2>4
  <2>8. d.needs \subseteq E3 \cup c.gives
    BY <1>4, <2>3, <2>4, <2>5
  <2>9. e.needs \subseteq E \cup {"toolbox"}
    BY <1>5, <1>16 DEF E
  <2>10. e.needs \subseteq E3 \cup c.gives \cup d.gives
    BY <2>3, <2>9
  <2> QED BY <1>7, <1>12, <1>13, <1>14, <2>6, <2>7, <2>8, <2>10
<1>17. ASSUME Runs(EAToolbox(o), E)
       PROVE  o.individual # "unknown" /\ (o.evaluation = "custom" => o.customEval # "none")
  <2>1. c.needs \subseteq E3 /\ d.needs \subseteq E3 \cup c.gives
    BY <1>7, <1>12, <1>14, <1>17
  <2>2. "toolbox.attr" \in E3
    BY <1>1, <2>1
  <2>3. o.individual # "unknown"
    BY <1>1, <1>2, <1>3, <1>6, <1>8, <2>2 DEF E, EAImported, EADefined, Benchmarks
  <2>4. ASSUME o.evaluation = "custom", o.customEval = "none" PROVE FALSE
    <3>1. "custom" \in E3 \cup c.gives
      BY <1>4, <2>1, <2>4 DEF Benchmarks
    <3>2. "custom" \notin E
      BY <2>4 DEF E, EAImported, EADefined, Benchmarks
    <3> QED BY <1>1, <1>2, <1>6, <1>8, <3>1, <3>2
  <2> QED BY <2>3, <2>4
<1> QED BY <1>7, <1>14, <1>15, <1>16, <1>17 DEF E

\* The crossover, which differential evolution has of its own.
LEMMA EAMateIs ==
  ASSUME NEW o \in EAOptions
  PROVE  /\ Program(EAMate(o))
         /\ Names(EAMate(o)) =
              IF o.algorithm = "de" THEN {"CR", "F", "toolbox.mate"}
              ELSE IF o.crossover \in {"cxOnePoint", "cxTwoPoint", "cxUniform"}
                   THEN {"toolbox.mate"} ELSE {}
         /\ \A E : /\ o.algorithm = "de" /\ Runs(EAMate(o), E) => o.crossover \in E
                   /\ {"toolbox", "tools"} \subseteq E /\ EAWorks(o) /\
                      (o.algorithm = "de" => {"cxBinomial", "cxExponential"} \subseteq E)
                        => Runs(EAMate(o), E)
<1>1. o.crossover \in Crossovers \cup {"cxBinomial", "cxExponential"}
  BY DEF EAOptions
<1>2. CASE o.algorithm = "de"
  <2> DEFINE a == Stmt({}, {"CR", "F"})
             b == Stmt({"toolbox", "CR", o.crossover}, {"toolbox.mate"})
  <2>1. o.crossover \notin Limits /\ o.crossover \notin {"CR", "F"}
    BY <1>1 DEF Crossovers, Limits, MateLimit, MutateLimit
  <2>2. Statement(a) /\ Statement(b)
    BY <2>1 DEF Stmt, Statement, Limits, MateLimit, MutateLimit
  <2>3. /\ a.needs = {} /\ a.gives = {"CR", "F"}
        /\ b.needs = {"toolbox", "CR", o.crossover} /\ b.gives = {"toolbox.mate"}
    BY DEF Stmt
  <2>4. EAMate(o) = <<a, b>>
    BY <1>2 DEF EAMate
  <2>5. EAWorks(o) => o.crossover \in {"cxBinomial", "cxExponential"}
    BY <1>2 DEF EAWorks, Evolving
  <2> HIDE DEF a, b
  <2>6. Program(<<a, b>>) /\ Names(<<a, b>>) = {"CR", "F", "toolbox.mate"}
    <3>1. Names(<<a, b>>) = a.gives \cup b.gives
      BY Two
    <3> QED BY <2>2, <2>3, <3>1, Two
  <2>7. \A E : Runs(<<a, b>>, E) <=> b.needs \subseteq E \cup a.gives
    BY <2>3, Two
  <2> QED BY <1>2, <2>1, <2>3, <2>4, <2>5, <2>6, <2>7
<1>3. CASE o.algorithm # "de"
  <2> DEFINE a == CrossoverFunction(o)
             given == IF o.crossover = "cxUniform" THEN {"indpb"} ELSE {}
  <2>1. PICK g : g = given
    OBVIOUS
  <2>2. o.crossover \notin Limits
    BY <1>1 DEF Crossovers, Limits, MateLimit, MutateLimit
  <2>3. a = Register("toolbox.mate", o.crossover, g)
    BY <2>1 DEF CrossoverFunction
  <2>4. Callable(o.crossover, g) <=> o.crossover \in {"cxOnePoint", "cxTwoPoint", "cxUniform"}
    <3>1. CASE o.crossover = "cxUniform"
      BY <2>1, <3>1, CrossoverCallable DEF Crossovers
    <3>2. CASE o.crossover # "cxUniform"
      BY <1>1, <2>1, <3>2, CrossoverCallable
    <3> QED BY <3>1, <3>2
  <2> HIDE DEF a, given
  <2>5. Statement(a) /\ a.gives = IF o.crossover \in {"cxOnePoint", "cxTwoPoint", "cxUniform"}
                                  THEN {"toolbox.mate"} ELSE {}
    BY <2>2, <2>3, <2>4, RegisterIs
  <2>6. EAWorks(o) => o.crossover \in DOMAIN ToolParams
    BY <1>3, ToolParamsIs DEF EAWorks
  <2>7. EAWorks(o) => a.needs = {"toolbox", "tools"}
    BY <2>2, <2>3, <2>6 DEF Register, Stmt
  <2>8. EAMate(o) = <<a>>
    BY <1>3 DEF EAMate, a
  <2>9. Program(<<a>>) /\ Names(<<a>>) = a.gives /\ \A E : Runs(<<a>>, E) <=> a.needs \subseteq E
    BY <2>5, One
  <2> QED BY <1>3, <2>5, <2>7, <2>8, <2>9
<1> QED BY <1>2, <1>3

\* The selection, and main up to the algorithm.
LEMMA EAMainIs ==
  ASSUME NEW o \in EAOptions
  PROVE  /\ Program(EAMain(o))
         /\ Names(EAMain(o)) =
              {"toolbox.map", "pop", "hof", "stats"} \cup
              (IF o.selection = "unknown" THEN {} ELSE {"toolbox.select"}) \cup
              (IF o.hof > 0 THEN {"room in hof"} ELSE {})
         /\ \A E : {"toolbox", "tools", "futures", "toolbox.population", "numpy"} \subseteq E /\
                   o.selection # "unknown" => Runs(EAMain(o), E)
<1> DEFINE a == RegisterSelect(o.selection)
           b == Stmt({"toolbox", "futures"}, {"toolbox.map"})
           c == Stmt({"toolbox.population"}, {"pop"})
           d == HallOfFame(o.hof)
           e == Stmt({"tools", "numpy"}, {"stats"})
<1>1. /\ Statement(a) /\ a.gives = IF o.selection = "unknown" THEN {} ELSE {"toolbox.select"}
      /\ o.selection # "unknown" => a.needs = {"toolbox", "tools"}
  BY SelectIs DEF EAOptions
<1>2. /\ Statement(d) /\ d.needs = {"tools"}
      /\ d.gives = {"hof"} \cup IF o.hof > 0 THEN {"room in hof"} ELSE {}
  BY HallOfFameIs DEF EAOptions
<1>3. Statement(b) /\ Statement(c) /\ Statement(e)
  BY DEF Stmt, Statement, Limits, MateLimit, MutateLimit
<1>4. /\ b.needs = {"toolbox", "futures"} /\ b.gives = {"toolbox.map"}
      /\ c.needs = {"toolbox.population"} /\ c.gives = {"pop"}
      /\ e.needs = {"tools", "numpy"} /\ e.gives = {"stats"}
  BY DEF Stmt
<1>5. EAMain(o) = <<a, b, c, d, e>>
  BY DEF EAMain
<1> HIDE DEF a, b, c, d, e
<1>6. Program(<<a, b, c, d, e>>)
  BY <1>1, <1>2, <1>3, Five
<1>7. Names(<<a, b, c, d, e>>) =
        {"toolbox.map", "pop", "hof", "stats"} \cup
        (IF o.selection = "unknown" THEN {} ELSE {"toolbox.select"}) \cup
        (IF o.hof > 0 THEN {"room in hof"} ELSE {})
  <2>1. Names(<<a, b, c, d, e>>) = a.gives \cup b.gives \cup c.gives \cup d.gives \cup e.gives
    BY Five
  <2> QED BY <1>1, <1>2, <1>4, <2>1
<1>8. ASSUME NEW E, o.selection # "unknown",
             {"toolbox", "tools", "futures", "toolbox.population", "numpy"} \subseteq E
      PROVE  Runs(<<a, b, c, d, e>>, E)
  <2>1. /\ a.needs \subseteq E /\ b.needs \subseteq E /\ c.needs \subseteq E
        /\ d.needs \subseteq E /\ e.needs \subseteq E
    BY <1>1, <1>2, <1>4, <1>8
  <2> QED BY <2>1, Five
<1> QED BY <1>5, <1>6, <1>7, <1>8

\* What an evolution needs of the statements before it.
EvolutionCalls(o) ==
  {"algorithms", "toolbox.evaluate", "toolbox.map", "room in hof", "fitness.values",
   "toolbox.select", "toolbox.mate", "toolbox.mutate", "pop", "stats"} \cup EAEvalCalls(o)

\* An algorithm of deap.algorithms.
LEMMA EACallAlgoIs ==
  ASSUME NEW o \in EAOptions
  PROVE  /\ Program(EACallAlgo(o))
         /\ o.algorithm = "eaGenerateUpdate" =>
              \A E : Runs(EACallAlgo(o), E) => "cma" \in E
         /\ o.algorithm \in Evolving =>
              /\ Names(EACallAlgo(o)) = {"logbook", "hof[0]"}
              /\ \A E : Runs(EACallAlgo(o), E) <=> EvolutionCalls(o) \subseteq E
<1> DEFINE a == Stmt({"cma", "toolbox", "creator.Individual"},
                     {"toolbox.generate", "toolbox.update"})
           b == RunAlgorithm(o.algorithm, {"pop", "stats"} \cup EAEvalCalls(o))
           s == When(o.algorithm = "eaGenerateUpdate", <<a>>)
           t == <<b>>
<1>1. Statement(a) /\ "cma" \in a.needs
  BY DEF Stmt, Statement, Limits, MateLimit, MutateLimit
<1>2. o.algorithm \in Algorithms
  BY DEF EAOptions
<1>3. /\ Statement(b) /\ b.gives = {"logbook", "hof[0]"}
      /\ o.algorithm \in Evolving => b.needs = EvolutionCalls(o)
  <2>1. PICK beyond : beyond = {"pop", "stats"} \cup EAEvalCalls(o)
    OBVIOUS
  <2>2. beyond \cap Limits = {}
    BY <2>1 DEF EAEvalCalls, Limits, MateLimit, MutateLimit
  <2> DEFINE r == RunAlgorithm(o.algorithm, beyond)
  <2>3. /\ Statement(r) /\ r.gives = {"logbook", "hof[0]"}
        /\ o.algorithm \in Evolving =>
             r.needs = {"algorithms", "toolbox.evaluate", "toolbox.map", "room in hof",
                        "fitness.values", "toolbox.select", "toolbox.mate",
                        "toolbox.mutate"} \cup beyond
    BY <1>2, <2>2, RunAlgorithmIs
  <2>4. b = r
    BY <2>1
  <2> HIDE DEF b, r
  <2> QED BY <2>1, <2>3, <2>4 DEF EvolutionCalls
<1>4. EACallAlgo(o) = s \o t
  BY DEF EACallAlgo
<1> HIDE DEF a, b
<1>5. s = IF o.algorithm = "eaGenerateUpdate" THEN <<a>> ELSE <<>>
  BY DEF When
<1> HIDE DEF s
<1>6. Program(<<a>>) /\ Program(t) /\ Program(<<>>)
  BY <1>1, <1>3, One, Empty
<1>7. Names(t) = {"logbook", "hof[0]"} /\ \A E : Runs(t, E) <=> b.needs \subseteq E
  BY <1>3, One
<1> HIDE DEF t
<1>8. Program(s)
  BY <1>5, <1>6
<1>9. /\ Program(s \o t) /\ Names(s \o t) = Names(s) \cup Names(t)
      /\ \A E : Runs(s \o t, E) <=> Runs(s, E) /\ Runs(t, E \cup Names(s))
  BY <1>6, <1>8, Concat
<1>10. ASSUME o.algorithm = "eaGenerateUpdate", NEW E, Runs(EACallAlgo(o), E)
       PROVE  "cma" \in E
  <2>1. s = <<a>> /\ Runs(s, E)
    BY <1>4, <1>5, <1>9, <1>10
  <2>2. Runs(<<a>>, E) => a.needs \subseteq E
    BY One
  <2> QED BY <1>1, <2>1, <2>2
<1>11. ASSUME o.algorithm \in Evolving
       PROVE  /\ Names(EACallAlgo(o)) = {"logbook", "hof[0]"}
              /\ \A E : Runs(EACallAlgo(o), E) <=> EvolutionCalls(o) \subseteq E
  <2>1. o.algorithm # "eaGenerateUpdate"
    BY <1>11 DEF Evolving
  <2>2. s = <<>> /\ Names(s) = {} /\ \A E : Runs(s, E)
    BY <1>5, <2>1, Empty
  <2>3. \A E : E \cup Names(s) = E
    BY <2>2
  <2> QED BY <1>3, <1>4, <1>7, <1>9, <1>11, <2>2, <2>3
<1> QED BY <1>4, <1>9, <1>10, <1>11

\* What differential evolution needs beside them.
DECalls(o) ==
  {"toolbox.select", "toolbox.mutate", "toolbox.mate", "room in hof"} \cup DECrossoverCalls(o)

\* The loop of differential evolution.
LEMMA DifferentialEvolutionIs ==
  ASSUME NEW o \in EAOptions
  PROVE  LET s == DifferentialEvolution(o)
         IN /\ Program(s)
            /\ Names(s) = {"logbook"} \cup IF o.generations > 1 THEN {"hof[0]"} ELSE {}
            /\ \A E : /\ Runs(s, E) => "fitness.values" \in E
                      /\ Runs(s, E) /\ o.generations > 1 => DECalls(o) \subseteq E
                      /\ {"tools", "stats", "pop", "toolbox.evaluate", "toolbox.map", "reduce",
                          "fitness.values"} \cup DECalls(o) \subseteq E => Runs(s, E)
<1> DEFINE a == Stmt({"tools", "stats", "pop", "toolbox.evaluate", "toolbox.map",
                      "fitness.values"} \cup EAEvalCalls(o), {"logbook"})
           b == Stmt({"toolbox.select", "toolbox.mutate", "toolbox.mate", "room in hof"} \cup
                      DECrossoverCalls(o), {"hof[0]"})
           u == When(o.generations > 1, <<b>>)
<1>1. Statement(a) /\ Statement(b)
  BY DEF EAEvalCalls, DECrossoverCalls, Stmt, Statement, Limits, MateLimit, MutateLimit
<1>2. /\ a.gives = {"logbook"} /\ "fitness.values" \in a.needs
      /\ a.needs \subseteq {"tools", "stats", "pop", "toolbox.evaluate", "toolbox.map", "reduce",
                            "fitness.values"}
      /\ b.gives = {"hof[0]"} /\ b.needs = DECalls(o) /\ "logbook" \notin b.needs
  BY DEF Stmt, EAEvalCalls, DECalls, DECrossoverCalls
<1>3. DifferentialEvolution(o) = <<a>> \o u
  BY DEF DifferentialEvolution
<1> HIDE DEF a, b
<1>4. u = IF o.generations > 1 THEN <<b>> ELSE <<>>
  BY DEF When
<1> HIDE DEF u
<1>5. /\ Program(<<a>>) /\ Names(<<a>>) = {"logbook"}
      /\ \A E : Runs(<<a>>, E) <=> a.needs \subseteq E
  BY <1>1, <1>2, One
<1>6. /\ Program(<<b>>) /\ Names(<<b>>) = {"hof[0]"}
      /\ \A E : Runs(<<b>>, E) <=> b.needs \subseteq E
  BY <1>1, <1>2, One
<1>7. /\ Program(u) /\ Names(u) = IF o.generations > 1 THEN {"hof[0]"} ELSE {}
      /\ \A E : Runs(u, E) <=> (o.generations > 1 => b.needs \subseteq E)
  BY <1>4, <1>6, Empty
<1>8. /\ Program(<<a>> \o u) /\ Names(<<a>> \o u) = Names(<<a>>) \cup Names(u)
      /\ \A E : Runs(<<a>> \o u, E) <=> Runs(<<a>>, E) /\ Runs(u, E \cup Names(<<a>>))
  BY <1>5, <1>7, Concat
<1>9. ASSUME NEW E, Runs(<<a>> \o u, E)
      PROVE  /\ "fitness.values" \in E
             /\ o.generations > 1 => DECalls(o) \subseteq E
  <2>1. a.needs \subseteq E /\ (o.generations > 1 => b.needs \subseteq E \cup {"logbook"})
    BY <1>5, <1>7, <1>8, <1>9
  <2> QED BY <1>2, <2>1
<1>10. ASSUME NEW E, {"tools", "stats", "pop", "toolbox.evaluate", "toolbox.map", "reduce",
                      "fitness.values"} \cup DECalls(o) \subseteq E
       PROVE  Runs(<<a>> \o u, E)
  <2>1. a.needs \subseteq E /\ b.needs \subseteq E \cup {"logbook"}
    BY <1>2, <1>10
  <2> QED BY <1>5, <1>7, <1>8, <2>1
<1> QED BY <1>3, <1>5, <1>7, <1>8, <1>9, <1>10

\* The files.
LEMMA EAReportIs ==
  /\ Program(EAReport) /\ Names(EAReport) = {"logbook.txt", "best.txt", "fitness_plot.png"}
  /\ \A E : Runs(EAReport, E) <=> {"os", "logbook", "hof[0]", "plt"} \subseteq E
<1> DEFINE a == Stmt({"os", "logbook"}, {"logbook.txt"})
           b == Stmt({"hof[0]"}, {"best.txt"})
           c == Stmt({"plt", "logbook"}, {"fitness_plot.png"})
<1>1. Statement(a) /\ Statement(b) /\ Statement(c)
  BY DEF Stmt, Statement, Limits, MateLimit, MutateLimit
<1>2. /\ a.needs = {"os", "logbook"} /\ a.gives = {"logbook.txt"}
      /\ b.needs = {"hof[0]"} /\ b.gives = {"best.txt"}
      /\ c.needs = {"plt", "logbook"} /\ c.gives = {"fitness_plot.png"}
  BY DEF Stmt
<1>3. EAReport = <<a, b, c>>
  BY DEF EAReport, EALogbook, EABest, EAPlots
<1> HIDE DEF a, b, c
<1>4. Program(<<a, b, c>>) /\ Names(<<a, b, c>>) = a.gives \cup b.gives \cup c.gives
  BY <1>1, Three
<1>5. ASSUME NEW E
      PROVE  Runs(<<a, b, c>>, E) <=> {"os", "logbook", "hof[0]", "plt"} \subseteq E
  <2>1. Runs(<<a, b, c>>, E) <=> /\ a.needs \subseteq E
                                 /\ b.needs \subseteq E \cup a.gives
                                 /\ c.needs \subseteq E \cup a.gives \cup b.gives
    BY Three
  <2> QED BY <1>2, <2>1
<1> QED BY <1>2, <1>3, <1>4, <1>5

\* Either kind of algorithm.
LEMMA EAAlgorithmIs ==
  ASSUME NEW o \in EAOptions, EAAccepts(o)
  PROVE  LET s == EAAlgorithm(o)
         IN /\ Program(s)
            /\ o.algorithm = "de" =>
                 Names(s) = {"logbook"} \cup IF o.generations > 1 THEN {"hof[0]"} ELSE {}
            /\ o.algorithm \in Evolving => Names(s) = {"logbook", "hof[0]"}
            /\ \A E :
                 /\ o.algorithm = "de" /\ Runs(s, E) =>
                      /\ "fitness.values" \in E
                      /\ o.generations > 1 => DECalls(o) \subseteq E
                 /\ o.algorithm = "eaGenerateUpdate" /\ Runs(s, E) => "cma" \in E
                 /\ o.algorithm \in Evolving => (Runs(s, E) <=> EvolutionCalls(o) \subseteq E)
                 /\ o.algorithm = "de" /\
                    {"tools", "stats", "pop", "toolbox.evaluate", "toolbox.map", "reduce",
                     "fitness.values"} \cup DECalls(o) \subseteq E => Runs(s, E)
<1>1. CASE o.algorithm = "de"
  <2>1. EAAlgorithm(o) = DifferentialEvolution(o) /\ o.algorithm \notin Evolving
    BY <1>1 DEF EAAlgorithm, Evolving
  <2> QED BY <1>1, <2>1, DifferentialEvolutionIs
<1>2. CASE o.algorithm # "de"
  <2>1. EAAlgorithm(o) = EACallAlgo(o)
    BY <1>2 DEF EAAlgorithm
  <2> QED BY <1>2, <2>1, EACallAlgoIs
<1> QED BY <1>1, <1>2

\* The names that decide whether a program of this kind ends, and where they come from.
EADeciding ==
  {"cma", "hof[0]", "room in hof", "fitness.values", "toolbox.select", "toolbox.mate",
   "toolbox.mutate"}

\* Each deciding name that is there at the algorithm stands for an option.
LEMMA EADecidingNames ==
  ASSUME NEW o \in EAOptions
  PROVE  /\ (EAImported \cup EADefined(o)) \cap EADeciding = {}
         /\ EAToolboxNames(o) \cap EADeciding =
              (IF Weighted(o, EANumbers(o)) THEN {"fitness.values"} ELSE {}) \cup
              MutationFunction(o).gives
<1>1. /\ o.evaluation \in Benchmarks \cup {"evalOneMax", "evalProduct", "evalDifference", "custom"}
  BY DEF EAOptions
<1>2. (EAImported \cup EADefined(o)) \cap EADeciding = {}
  BY <1>1 DEF EAImported, EADefined, EADeciding, Benchmarks
<1>3. MutationFunction(o).gives \subseteq {"toolbox.mutate"}
  BY MutationFunctionIs
<1>4. EAToolboxNames(o) \cap EADeciding =
        (IF Weighted(o, EANumbers(o)) THEN {"fitness.values"} ELSE {}) \cup
        MutationFunction(o).gives
  BY <1>3 DEF EAToolboxNames, EADeciding
<1> QED BY <1>2, <1>4

\* The program of a request comes to its end for the options of EAWorks.
LEMMA EAProgramIs ==
  ASSUME NEW o \in EAOptions, EAAccepts(o)
  PROVE  /\ Program(EACode(o)) /\ {"best.txt", "logbook.txt"} \subseteq Names(EACode(o))
         /\ Runs(EACode(o), {}) <=> Weighted(o, EANumbers(o)) /\ EAWorks(o)
<1> DEFINE a == EAFunctions(o)
           b == EAToolbox(o)
           c == EAMate(o)
           d == EAMain(o)
           e == EAAlgorithm(o)
           f == EAReport
           E2 == Names(a)
           E3 == Names(a) \cup Names(b)
           E4 == Names(a) \cup Names(b) \cup Names(c)
           E5 == Names(a) \cup Names(b) \cup Names(c) \cup Names(d)
           E6 == Names(a) \cup Names(b) \cup Names(c) \cup Names(d) \cup Names(e)
<1>1. EACode(o) = a \o b \o c \o d \o e \o f
  BY DEF EACode
<1>2. /\ Program(a) /\ Program(b) /\ Program(c)
      /\ Program(d) /\ Program(e) /\ Program(f)
  BY EAFunctionsAre, EAToolboxIs, EAMateIs, EAMainIs, EAAlgorithmIs, EAReportIs
<1>3. /\ Names(a) = EAImported \cup EADefined(o) /\ Names(b) = EAToolboxNames(o)
      /\ Names(c) = IF o.algorithm = "de" THEN {"CR", "F", "toolbox.mate"}
                    ELSE IF o.crossover \in {"cxOnePoint", "cxTwoPoint", "cxUniform"}
                         THEN {"toolbox.mate"} ELSE {}
      /\ Names(d) = {"toolbox.map", "pop", "hof", "stats"} \cup
                    (IF o.selection = "unknown" THEN {} ELSE {"toolbox.select"}) \cup
                    (IF o.hof > 0 THEN {"room in hof"} ELSE {})
      /\ Names(f) = {"logbook.txt", "best.txt", "fitness_plot.png"}
  BY EAFunctionsAre, EAToolboxIs, EAMateIs, EAMainIs, EAReportIs
<1>4. /\ o.algorithm = "de" =>
           Names(e) = {"logbook"} \cup IF o.generations > 1 THEN {"hof[0]"} ELSE {}
      /\ o.algorithm \in Evolving => Names(e) = {"logbook", "hof[0]"}
  BY EAAlgorithmIs
<1>5. /\ Runs(a, {}) /\ (EAWorks(o) => Runs(b, E2))
      /\ Runs(b, E2) => /\ o.individual # "unknown"
                        /\ o.evaluation = "custom" => o.customEval # "none"
  BY EAFunctionsAre, EAToolboxIs
<1>6. /\ o.algorithm = "de" /\ Runs(c, E3) => o.crossover \in E3
      /\ {"toolbox", "tools"} \subseteq E3 /\ EAWorks(o) /\
         (o.algorithm = "de" => {"cxBinomial", "cxExponential"} \subseteq E3) => Runs(c, E3)
  BY EAMateIs
<1>7. {"toolbox", "tools", "futures", "toolbox.population", "numpy"} \subseteq E4 /\
      o.selection # "unknown" => Runs(d, E4)
  BY EAMainIs
<1>8. /\ o.algorithm = "de" /\ Runs(e, E5) =>
           /\ "fitness.values" \in E5
           /\ o.generations > 1 => DECalls(o) \subseteq E5
      /\ o.algorithm = "eaGenerateUpdate" /\ Runs(e, E5) => "cma" \in E5
      /\ o.algorithm \in Evolving => (Runs(e, E5) <=> EvolutionCalls(o) \subseteq E5)
      /\ o.algorithm = "de" /\
         {"tools", "stats", "pop", "toolbox.evaluate", "toolbox.map", "reduce",
          "fitness.values"} \cup DECalls(o) \subseteq E5 => Runs(e, E5)
  BY EAAlgorithmIs
<1>9. Runs(f, E6) <=> {"os", "logbook", "hof[0]", "plt"} \subseteq E6
  BY EAReportIs
<1> HIDE DEF a, b, c, d, e, f
<1>10. /\ Program(EACode(o))
       /\ Names(EACode(o)) = Names(a) \cup Names(b) \cup Names(c) \cup Names(d) \cup Names(e) \cup
                             Names(f)
       /\ Runs(EACode(o), {}) <=>
            /\ Runs(a, {}) /\ Runs(b, E2) /\ Runs(c, E3)
            /\ Runs(d, E4) /\ Runs(e, E5) /\ Runs(f, E6)
  <2> DEFINE p2 == a \o b
             p3 == p2 \o c
             p4 == p3 \o d
             p5 == p4 \o e
             p6 == p5 \o f
  <2>1. /\ Program(p2) /\ Names(p2) = Names(a) \cup Names(b)
        /\ Runs(p2, {}) <=> Runs(a, {}) /\ Runs(b, Names(a))
    BY <1>2, Follow
  <2> HIDE DEF p2
  <2>2. /\ Program(p3) /\ Names(p3) = Names(p2) \cup Names(c)
        /\ Runs(p3, {}) <=> Runs(p2, {}) /\ Runs(c, Names(p2))
    BY <1>2, <2>1, Follow
  <2> HIDE DEF p3
  <2>3. /\ Program(p4) /\ Names(p4) = Names(p3) \cup Names(d)
        /\ Runs(p4, {}) <=> Runs(p3, {}) /\ Runs(d, Names(p3))
    BY <1>2, <2>2, Follow
  <2> HIDE DEF p4
  <2>4. /\ Program(p5) /\ Names(p5) = Names(p4) \cup Names(e)
        /\ Runs(p5, {}) <=> Runs(p4, {}) /\ Runs(e, Names(p4))
    BY <1>2, <2>3, Follow
  <2> HIDE DEF p5
  <2>5. /\ Program(p6) /\ Names(p6) = Names(p5) \cup Names(f)
        /\ Runs(p6, {}) <=> Runs(p5, {}) /\ Runs(f, Names(p5))
    BY <1>2, <2>4, Follow
  <2> HIDE DEF p6
  <2>6. EACode(o) = p6
    BY <1>1 DEF p2, p3, p4, p5, p6
  <2> QED BY <2>1, <2>2, <2>3, <2>4, <2>5, <2>6
<1>11. {"best.txt", "logbook.txt"} \subseteq Names(EACode(o))
  BY <1>3, <1>10
<1>12. ASSUME Weighted(o, EANumbers(o)), EAWorks(o) PROVE Runs(EACode(o), {})
  <2>1. EAImported \subseteq Names(a)
    BY <1>3
  <2>2. {"toolbox", "toolbox.population", "toolbox.evaluate", "fitness.values"} \subseteq Names(b)
    BY <1>3, <1>12 DEF EAToolboxNames
  <2>3. "toolbox.mutate" \in Names(b)
    <3>1. MutationFunction(o).gives = {"toolbox.mutate"}
      BY <1>12, MutationFunctionIs
    <3>2. Names(b) = EAToolboxNames(o)
      BY <1>3
    <3>3. MutationFunction(o).gives \subseteq EAToolboxNames(o)
      BY DEF EAToolboxNames
    <3> QED BY <3>1, <3>2, <3>3
  <2>4. o.selection # "unknown" /\ o.hof > 0
    BY <1>12 DEF EAWorks
  <2>5. {"toolbox.map", "pop", "stats", "toolbox.select", "room in hof"} \subseteq Names(d)
    BY <1>3, <2>4
  <2>6. "toolbox.mate" \in Names(c)
    BY <1>3, <1>12 DEF EAWorks
  <2>7. o.algorithm = "de" => {"cxBinomial", "cxExponential"} \subseteq Names(a)
    BY <1>3 DEF EADefined
  <2>8. Runs(b, E2) /\ Runs(c, E3) /\ Runs(d, E4)
    BY <1>5, <1>6, <1>7, <1>12, <2>1, <2>2, <2>4, <2>7 DEF EAImported
  <2>9. CASE o.algorithm = "de"
    <3>1. o.crossover \in {"cxBinomial", "cxExponential"} /\ o.generations > 1
      BY <1>12, <2>9 DEF EAWorks, Evolving
    <3>2. DECalls(o) \subseteq E5
      BY <2>1, <2>3, <2>5, <2>6, <3>1 DEF DECalls, DECrossoverCalls, EAImported
    <3>3. {"tools", "stats", "pop", "toolbox.evaluate", "toolbox.map", "reduce",
           "fitness.values"} \subseteq E5
      BY <2>1, <2>2, <2>5 DEF EAImported
    <3>4. Runs(e, E5)
      BY <1>8, <2>9, <3>2, <3>3
    <3>5. {"logbook", "hof[0]"} \subseteq Names(e)
      BY <1>4, <2>9, <3>1
    <3>6. Runs(f, E6)
      BY <1>9, <2>1, <3>5 DEF EAImported
    <3> QED BY <1>5, <1>10, <2>8, <3>4, <3>6
  <2>10. CASE o.algorithm # "de"
    <3>1. o.algorithm \in Evolving
      BY <1>12, <2>10 DEF EAWorks
    <3>2. EvolutionCalls(o) \subseteq E5
      BY <2>1, <2>2, <2>3, <2>5, <2>6 DEF EvolutionCalls, EAEvalCalls, EAImported
    <3>3. Runs(e, E5)
      BY <1>8, <3>1, <3>2
    <3>4. {"logbook", "hof[0]"} \subseteq Names(e)
      BY <1>4, <3>1
    <3>5. Runs(f, E6)
      BY <1>9, <2>1, <3>4 DEF EAImported
    <3> QED BY <1>5, <1>10, <2>8, <3>3, <3>5
  <2> QED BY <2>9, <2>10
<1>13. ASSUME Runs(EACode(o), {}) PROVE Weighted(o, EANumbers(o)) /\ EAWorks(o)
  <2>1. o.individual # "unknown" /\ (o.evaluation = "custom" => o.customEval # "none")
    BY <1>5, <1>10, <1>13
  <2>2. Names(a) \cap EADeciding = {}
    BY <1>3, EADecidingNames
  <2>3. Names(b) \cap EADeciding =
          (IF Weighted(o, EANumbers(o)) THEN {"fitness.values"} ELSE {}) \cup
          MutationFunction(o).gives
    BY <1>3, EADecidingNames
  <2>4. MutationFunction(o).gives \subseteq {"toolbox.mutate"}
    BY MutationFunctionIs
  <2>5. ASSUME NEW x \in EADeciding, x \in E5
        PROVE  /\ x \notin {"cma", "hof[0]"}
               /\ x = "fitness.values" => Weighted(o, EANumbers(o))
               /\ x = "room in hof" => o.hof > 0
               /\ x = "toolbox.select" => o.selection # "unknown"
               /\ x = "toolbox.mutate" => MutationFunction(o).gives # {}
               /\ x = "toolbox.mate" => \/ o.algorithm = "de"
                                        \/ o.crossover \in {"cxOnePoint", "cxTwoPoint", "cxUniform"}
    BY <1>3, <2>2, <2>3, <2>4, <2>5
  <2>6. o.selection \in Selections /\ o.algorithm \in ValidAlgorithms
        /\ o.individual \in {"binarystring", "floatingpoint", "integer", "unknown"}
    BY DEF EAOptions, EAAccepts
  <2>7. o.algorithm # "eaGenerateUpdate"
    BY <1>8, <1>10, <1>13, <2>5 DEF EADeciding
  <2>8. CASE o.algorithm = "de"
    <3>1. o.generations > 1
      <4>1. "hof[0]" \in E6
        BY <1>9, <1>10, <1>13
      <4>2. "hof[0]" \in Names(e)
        BY <2>5, <4>1 DEF EADeciding
      <4> QED BY <1>4, <2>8, <4>2
    <3>2. "fitness.values" \in E5 /\ DECalls(o) \subseteq E5
      BY <1>8, <1>10, <1>13, <2>8, <3>1
    <3>3. "room in hof" \in E5 /\ "toolbox.select" \in E5
      BY <3>2 DEF DECalls
    <3>4. Weighted(o, EANumbers(o)) /\ o.hof > 0 /\ o.selection # "unknown"
      BY <2>5, <3>2, <3>3 DEF EADeciding
    <3>5. o.crossover \in E3
      BY <1>6, <1>10, <1>13, <2>8
    <3>6. o.crossover \in {"cxBinomial", "cxExponential"}
      <4>1. o.crossover \in Crossovers \cup {"cxBinomial", "cxExponential"}
            /\ o.evaluation \in Benchmarks \cup {"evalOneMax", "evalProduct", "evalDifference",
                                                 "custom"}
        BY DEF EAOptions
      <4>2. (Crossovers \cap Names(a)) = {}
        BY <1>3, <4>1 DEF Crossovers, EAImported, EADefined, Benchmarks
      <4>3. ({"cxBinomial", "cxExponential"} \cup Crossovers) \cap Names(b) = {}
        BY <1>3, <2>4 DEF Crossovers, EAToolboxNames
      <4> QED BY <3>5, <4>1, <4>2, <4>3
    <3> QED BY <2>1, <2>6, <2>8, <3>1, <3>4, <3>6 DEF EAWorks, Selections
  <2>9. CASE o.algorithm # "de"
    <3>1. o.algorithm \in Evolving
      BY <2>6, <2>7, <2>9 DEF ValidAlgorithms
    <3>2. EvolutionCalls(o) \subseteq E5
      BY <1>8, <1>10, <1>13, <3>1
    <3>3. {"room in hof", "fitness.values", "toolbox.select", "toolbox.mate", "toolbox.mutate"}
            \subseteq E5
      BY <3>2 DEF EvolutionCalls
    <3>4. /\ Weighted(o, EANumbers(o)) /\ o.hof > 0 /\ o.selection # "unknown"
          /\ o.crossover \in {"cxOnePoint", "cxTwoPoint", "cxUniform"}
      BY <2>5, <2>9, <3>3 DEF EADeciding
    <3>5. MutationFunction(o).gives # {}
      BY <2>5, <3>3 DEF EADeciding
    <3>6. o.mutation \in {"mutFlipBit", "mutShuffleIndexes", "registration"}
      BY <2>9, <3>5, MutationFunctionIs
    <3> QED BY <2>1, <2>6, <3>1, <3>4, <3>6 DEF EAWorks, Selections
  <2> QED BY <2>8, <2>9
<1> QED BY <1>10, <1>11, <1>12, <1>13

-----------------------------------------------------------------------------
(* Genetic programs.                                                       *)

\* toolbox.register of a generator of trees, and of the initialisers.
LEMMA GeneratorIs ==
  ASSUME NEW entry, NEW f \in TreeGenerators \cup {"unknown"}
  PROVE  LET a == RegisterGenerator(entry, f)
         IN /\ Statement(a) /\ a.gives = {entry}
            /\ f \in TreeGenerators => a.needs = {"toolbox", "gp"}
            /\ f \notin TreeGenerators => "unknown" \in a.needs
BY DEF RegisterGenerator, TreeGenerators, Stmt, Statement, Limits, MateLimit, MutateLimit

LEMMA InitialiserIs ==
  ASSUME NEW f \in Initialisers
  PROVE  /\ LET a == Register("toolbox.individual", f, {})
            IN /\ Statement(a)
               /\ a.gives = IF f = "initIterate" THEN {"toolbox.individual"} ELSE {}
               /\ f # "unknown" => a.needs = {"toolbox", "tools"}
         /\ LET a == Register("toolbox.population", f, {"n"})
            IN /\ Statement(a)
               /\ a.gives = IF f = "initRepeat" THEN {"toolbox.population"} ELSE {}
               /\ f # "unknown" => a.needs = {"toolbox", "tools"}
<1>1. f \notin Limits /\ (f # "unknown" => f \in DOMAIN ToolParams)
  BY ToolParamsIs DEF Initialisers, Limits, MateLimit, MutateLimit
<1>2. /\ Statement(Register("toolbox.individual", f, {}))
      /\ Statement(Register("toolbox.population", f, {"n"}))
  BY <1>1, RegisterIs
<1>3. /\ Callable(f, {}) <=> f = "initIterate"
      /\ Callable(f, {"n"}) <=> f = "initRepeat"
  BY InitialiserCallable
<1>4. /\ Register("toolbox.individual", f, {}).gives =
           IF f = "initIterate" THEN {"toolbox.individual"} ELSE {}
      /\ f # "unknown" =>
           Register("toolbox.individual", f, {}).needs = {"toolbox", "tools"}
  BY <1>1, <1>3 DEF Register, Stmt
<1>5. /\ Register("toolbox.population", f, {"n"}).gives =
           IF f = "initRepeat" THEN {"toolbox.population"} ELSE {}
      /\ f # "unknown" =>
           Register("toolbox.population", f, {"n"}).needs = {"toolbox", "tools"}
  BY <1>1, <1>3 DEF Register, Stmt
<1> QED BY <1>2, <1>4, <1>5

\* What the definitions of modules/gp.go give.
GPDefined ==
  {"operator", "math", "random", "numpy", "os", "plt", "nx", "partial", "algorithms", "base",
   "creator", "tools", "gp", "cma", "futures", "evalSymbReg", "toolbox", "pset",
   "def protectedDiv", "def lf"}

LEMMA GPDefinitionsAre ==
  Program(GPDefinitions) /\ Names(GPDefinitions) = GPDefined /\ Runs(GPDefinitions, {})
<1> DEFINE a == GPImports
           b == Stmt({}, {"evalSymbReg"})
           c == Stmt({"base"}, {"toolbox"})
           d == Stmt({"gp"}, {"pset"})
           e == Stmt({}, {"def protectedDiv", "def lf"})
<1>1. Statement(a) /\ Statement(b) /\ Statement(c) /\ Statement(d) /\ Statement(e)
  BY DEF GPImports, Stmt, Statement, Limits, MateLimit, MutateLimit
<1>2. /\ a.needs = {} /\ {"base", "gp"} \subseteq a.gives
      /\ b.needs = {} /\ c.needs = {"base"} /\ d.needs = {"gp"} /\ e.needs = {}
  BY DEF GPImports, Stmt
<1>3. a.gives \cup b.gives \cup c.gives \cup d.gives \cup e.gives = GPDefined
  BY DEF GPImports, Stmt, GPDefined
<1>4. GPDefinitions = <<a, b, c, d, e>>
  BY DEF GPDefinitions
<1> HIDE DEF a, b, c, d, e
<1>5. Program(<<a, b, c, d, e>>)
  BY <1>1, Five
<1>6. Names(<<a, b, c, d, e>>) = GPDefined
  <2>1. Names(<<a, b, c, d, e>>) = a.gives \cup b.gives \cup c.gives \cup d.gives \cup e.gives
    BY Five
  <2> QED BY <1>3, <2>1
<1>7. Runs(<<a, b, c, d, e>>, {})
  <2>1. /\ a.needs \subseteq {} /\ b.needs \subseteq {} \cup a.gives
        /\ c.needs \subseteq {} \cup a.gives \cup b.gives
        /\ d.needs \subseteq {} \cup a.gives \cup b.gives \cup c.gives
        /\ e.needs \subseteq {} \cup a.gives \cup b.gives \cup c.gives \cup d.gives
    BY <1>2
  <2> QED BY <2>1, Five
<1> QED BY <1>4, <1>5, <1>6, <1>7

\* Its primitives: nothing is there to build a tree of if there are none.
LEMMA GPPrimitivesAre ==
  ASSUME NEW o
  PROVE  /\ Program(GPPrimitives(o))
         /\ Names(GPPrimitives(o)) =
              o.operators \cup {"rand101", "arg_dict"} \cup
              (IF o.operators # {} THEN {"a primitive"} ELSE {})
         /\ \A E : {"pset", "operator", "math", "def protectedDiv", "def lf", "partial", "random"}
                     \subseteq E => Runs(GPPrimitives(o), E)
<1> DEFINE a == AddPrimitives(o)
           b == Stmt({"pset", "partial", "random"}, {"rand101"})
           c == Stmt({"pset"}, {"arg_dict"})
<1>1. Statement(a) /\ Statement(b) /\ Statement(c)
  BY DEF AddPrimitives, Stmt, Statement, Limits, MateLimit, MutateLimit
<1>2. /\ a.needs = {"pset", "operator", "math", "def protectedDiv", "def lf"}
      /\ a.gives = o.operators \cup (IF o.operators # {} THEN {"a primitive"} ELSE {})
      /\ b.needs = {"pset", "partial", "random"} /\ b.gives = {"rand101"}
      /\ c.needs = {"pset"} /\ c.gives = {"arg_dict"}
  BY DEF AddPrimitives, Stmt
<1>3. GPPrimitives(o) = <<a, b, c>>
  BY DEF GPPrimitives
<1> HIDE DEF a, b, c
<1>4. Program(<<a, b, c>>)
  BY <1>1, Three
<1>5. Names(<<a, b, c>>) = a.gives \cup b.gives \cup c.gives
  BY Three
<1>6. a.gives \cup b.gives \cup c.gives =
        o.operators \cup {"rand101", "arg_dict"} \cup
        (IF o.operators # {} THEN {"a primitive"} ELSE {})
  BY <1>2
<1>7. ASSUME NEW E, {"pset", "operator", "math", "def protectedDiv", "def lf", "partial",
                     "random"} \subseteq E
      PROVE  Runs(<<a, b, c>>, E)
  <2>1. a.needs \subseteq E /\ b.needs \subseteq E /\ c.needs \subseteq E
    BY <1>2, <1>7
  <2> QED BY <2>1, Three
<1> QED BY <1>3, <1>4, <1>5, <1>6, <1>7

\* Its individuals and their population.
GPTreeNames(o) ==
  {"creator.Individual", "toolbox.expr"} \cup
  (IF Weighted(o, "python") THEN {"fitness.values"} ELSE {}) \cup
  (IF o.individual = "initIterate" THEN {"toolbox.individual"} ELSE {}) \cup
  (IF o.population = "initRepeat" THEN {"toolbox.population"} ELSE {})

LEMMA GPTreesAre ==
  ASSUME NEW o \in GPOptions
  PROVE  /\ Program(GPTrees(o)) /\ Names(GPTrees(o)) = GPTreeNames(o)
         /\ \A E : /\ {"creator", "base", "gp", "toolbox", "tools"} \subseteq E /\ GPWorks(o)
                        => Runs(GPTrees(o), E)
                   /\ "unknown" \notin E /\ Runs(GPTrees(o), E) => o.expr \in TreeGenerators
<1> DEFINE a == Create("creator.Individual", "gp", o.weights, "python")
           b == RegisterGenerator("toolbox.expr", o.expr)
           c == Register("toolbox.individual", o.individual, {})
           d == Register("toolbox.population", o.population, {"n"})
<1>1. /\ Statement(a) /\ a.needs = {"creator", "base", "gp"}
      /\ a.gives = {"creator.Individual"} \cup
                   IF Weighted(o, "python") THEN {"fitness.values"} ELSE {}
  <2>1. Statement(a) /\ a.needs = {"creator", "base", "gp"}
    BY DEF Create, Stmt, Statement, Weighted, Limits, MateLimit, MutateLimit
  <2>2. a.gives = {"creator.Individual"} \cup
                  IF Weighted(o, "python") THEN {"fitness.values"} ELSE {}
    BY DEF Create, Stmt, Statement, Weighted, Limits, MateLimit, MutateLimit
  <2> QED BY <2>1, <2>2
<1>2. /\ Statement(b) /\ b.gives = {"toolbox.expr"}
      /\ o.expr \in TreeGenerators => b.needs = {"toolbox", "gp"}
      /\ o.expr \notin TreeGenerators => "unknown" \in b.needs
  BY GeneratorIs DEF GPOptions
<1>3. /\ Statement(c)
      /\ c.gives = IF o.individual = "initIterate" THEN {"toolbox.individual"} ELSE {}
      /\ o.individual # "unknown" => c.needs = {"toolbox", "tools"}
  BY InitialiserIs DEF GPOptions
<1>4. /\ Statement(d)
      /\ d.gives = IF o.population = "initRepeat" THEN {"toolbox.population"} ELSE {}
      /\ o.population # "unknown" => d.needs = {"toolbox", "tools"}
  BY InitialiserIs DEF GPOptions
<1>5. GPTrees(o) = <<a, b, c, d>>
  BY DEF GPTrees
<1>6. GPWorks(o) =>
        o.expr \in TreeGenerators /\ o.individual # "unknown" /\ o.population # "unknown"
  BY DEF GPWorks
<1> HIDE DEF a, b, c, d
<1>7. Program(<<a, b, c, d>>)
  BY <1>1, <1>2, <1>3, <1>4, Four
<1>8. Names(<<a, b, c, d>>) = GPTreeNames(o)
  <2>1. Names(<<a, b, c, d>>) = a.gives \cup b.gives \cup c.gives \cup d.gives
    BY Four
  <2> QED BY <1>1, <1>2, <1>3, <1>4, <2>1 DEF GPTreeNames
<1>9. ASSUME NEW E, {"creator", "base", "gp", "toolbox", "tools"} \subseteq E, GPWorks(o)
      PROVE  Runs(<<a, b, c, d>>, E)
  <2>1. a.needs \subseteq E /\ b.needs \subseteq E /\ c.needs \subseteq E /\ d.needs \subseteq E
    BY <1>1, <1>2, <1>3, <1>4, <1>6, <1>9
  <2> QED BY <2>1, Four
<1>10. ASSUME NEW E, "unknown" \notin E, Runs(<<a, b, c, d>>, E)
       PROVE  o.expr \in TreeGenerators
  <2>1. b.needs \subseteq E \cup a.gives
    BY <1>10, Four
  <2> QED BY <1>1, <1>2, <1>10, <2>1
<1> QED BY <1>5, <1>7, <1>8, <1>9, <1>10

\* Its evaluation and selection.
LEMMA GPEvaluationIs ==
  ASSUME NEW o \in GPOptions
  PROVE  /\ Program(GPEvaluation(o))
         /\ Names(GPEvaluation(o)) =
              {"toolbox.compile", "toolbox.evaluate"} \cup
              (IF o.selection = "unknown" THEN {} ELSE {"toolbox.select"})
         /\ \A E : {"toolbox", "gp", "pset", "evalSymbReg", "tools"} \subseteq E /\
                   o.selection # "unknown" => Runs(GPEvaluation(o), E)
<1> DEFINE a == Stmt({"toolbox", "gp", "pset"}, {"toolbox.compile"})
           b == Stmt({"toolbox", "evalSymbReg"}, {"toolbox.evaluate"})
           c == RegisterSelect(o.selection)
<1>1. Statement(a) /\ Statement(b)
  BY DEF Stmt, Statement, Limits, MateLimit, MutateLimit
<1>2. /\ a.needs = {"toolbox", "gp", "pset"} /\ a.gives = {"toolbox.compile"}
      /\ b.needs = {"toolbox", "evalSymbReg"} /\ b.gives = {"toolbox.evaluate"}
  BY DEF Stmt
<1>3. /\ Statement(c) /\ c.gives = IF o.selection = "unknown" THEN {} ELSE {"toolbox.select"}
      /\ o.selection # "unknown" => c.needs = {"toolbox", "tools"}
  BY SelectIs DEF GPOptions
<1>4. GPEvaluation(o) = <<a, b, c>>
  BY DEF GPEvaluation
<1> HIDE DEF a, b, c
<1>5. Program(<<a, b, c>>)
  BY <1>1, <1>3, Three
<1>6. Names(<<a, b, c>>) = a.gives \cup b.gives \cup c.gives
  BY Three
<1>7. a.gives \cup b.gives \cup c.gives =
        {"toolbox.compile", "toolbox.evaluate"} \cup
        (IF o.selection = "unknown" THEN {} ELSE {"toolbox.select"})
  BY <1>2, <1>3
<1>8. ASSUME NEW E, {"toolbox", "gp", "pset", "evalSymbReg", "tools"} \subseteq E,
             o.selection # "unknown"
      PROVE  Runs(<<a, b, c>>, E)
  <2>1. a.needs \subseteq E /\ b.needs \subseteq E /\ c.needs \subseteq E
    BY <1>2, <1>3, <1>8
  <2> QED BY <2>1, Three
<1> QED BY <1>4, <1>5, <1>6, <1>7, <1>8

\* The operators and the decorations of bloatControl.
LEMMA GPOperatorIs ==
  ASSUME NEW o
  PROVE  /\ LET a == GPCrossover(o)
            IN /\ Statement(a) /\ a.needs = {"toolbox", "gp", "pset"}
               /\ a.gives = {"toolbox.mate"} /\ a.undoes = {MateLimit}
         /\ LET a == GPMutation(o)
            IN /\ Statement(a) /\ a.needs \subseteq {"toolbox", "gp", "pset", "toolbox.expr_mut"}
               /\ a.gives = {"toolbox.mutate"} /\ a.undoes = {MutateLimit}
<1>1. /\ LET a == GPCrossover(o)
         IN /\ a.needs = {"toolbox", "gp", "pset"}
            /\ a.gives = {"toolbox.mate"} /\ a.undoes = {MateLimit}
  BY DEF GPCrossover, Stmt
<1>2. /\ LET a == GPMutation(o)
         IN /\ a.needs \subseteq {"toolbox", "gp", "pset", "toolbox.expr_mut"}
            /\ a.gives = {"toolbox.mutate"} /\ a.undoes = {MutateLimit}
  BY DEF GPMutation, Stmt
<1> QED BY <1>1, <1>2 DEF Statement, Limits, MateLimit, MutateLimit

\* The two decorations undo nothing.
LEMMA BloatControlIs ==
  LET a == Stmt({"toolbox.mate", "gp", "operator"}, {MateLimit})
      b == Stmt({"toolbox.mutate", "gp", "operator"}, {MutateLimit})
  IN /\ BloatControl = <<a, b>>
     /\ Statement(a) /\ a.needs = {"toolbox.mate", "gp", "operator"}
     /\ a.gives = {MateLimit} /\ a.undoes = {}
     /\ Statement(b) /\ b.needs = {"toolbox.mutate", "gp", "operator"}
     /\ b.gives = {MutateLimit} /\ b.undoes = {}
BY DEF BloatControl, Stmt, Statement, Limits, MateLimit, MutateLimit

\* The operators with their limits.
LEMMA GPOperatorsAre ==
  ASSUME NEW o \in GPOptions
  PROVE  /\ Program(GPOperators(o))
         /\ Names(GPOperators(o)) =
              {"toolbox.mate", "toolbox.expr_mut", "toolbox.mutate"} \cup Limits
         /\ \A E : /\ {"toolbox", "gp", "pset", "operator"} \subseteq E /\
                      o.exprMut \in TreeGenerators => Runs(GPOperators(o), E)
                   /\ "unknown" \notin E /\ Runs(GPOperators(o), E) => o.exprMut \in TreeGenerators
<1> DEFINE a == GPCrossover(o)
           b == RegisterGenerator("toolbox.expr_mut", o.exprMut)
           c == GPMutation(o)
           d == Stmt({"toolbox.mate", "gp", "operator"}, {MateLimit})
           e == Stmt({"toolbox.mutate", "gp", "operator"}, {MutateLimit})
           s == <<a, b, c>>
           t == <<d, e>>
<1>1. /\ Statement(a) /\ a.needs = {"toolbox", "gp", "pset"} /\ a.gives = {"toolbox.mate"}
      /\ Statement(c) /\ c.needs \subseteq {"toolbox", "gp", "pset", "toolbox.expr_mut"}
      /\ c.gives = {"toolbox.mutate"}
  BY GPOperatorIs
<1>2. /\ Statement(b) /\ b.gives = {"toolbox.expr_mut"}
      /\ o.exprMut \in TreeGenerators => b.needs = {"toolbox", "gp"}
      /\ o.exprMut \notin TreeGenerators => "unknown" \in b.needs
  BY GeneratorIs DEF GPOptions
<1>3. /\ Statement(d) /\ d.needs = {"toolbox.mate", "gp", "operator"} /\ d.gives = {MateLimit}
      /\ Statement(e) /\ e.needs = {"toolbox.mutate", "gp", "operator"}
      /\ e.gives = {MutateLimit}
  BY BloatControlIs
<1>4. GPOperators(o) = s \o t
  BY BloatControlIs DEF GPOperators
<1> HIDE DEF a, b, c, d, e
<1>5. Program(s) /\ Program(t)
  BY <1>1, <1>2, <1>3, Two, Three
<1>6. Names(s) = {"toolbox.mate", "toolbox.expr_mut", "toolbox.mutate"}
  <2>1. Names(s) = a.gives \cup b.gives \cup c.gives
    BY Three
  <2> QED BY <1>1, <1>2, <2>1
<1>7. Names(t) = Limits
  <2>1. Names(t) = d.gives \cup e.gives
    BY Two
  <2> QED BY <1>3, <2>1 DEF Limits
<1>8. \A E : Runs(s, E) <=> /\ a.needs \subseteq E
                            /\ b.needs \subseteq E \cup a.gives
                            /\ c.needs \subseteq E \cup a.gives \cup b.gives
  BY Three
<1>9. \A E : Runs(t, E) <=> d.needs \subseteq E /\ e.needs \subseteq E \cup d.gives
  BY Two
<1> HIDE DEF s, t
<1>10. /\ Program(s \o t) /\ Names(s \o t) = Names(s) \cup Names(t)
       /\ \A E : Runs(s \o t, E) <=> Runs(s, E) /\ Runs(t, E \cup Names(s))
  BY <1>5, Concat
<1>11. ASSUME NEW E, {"toolbox", "gp", "pset", "operator"} \subseteq E,
              o.exprMut \in TreeGenerators
       PROVE  Runs(s \o t, E)
  <2>1. /\ a.needs \subseteq E /\ b.needs \subseteq E
        /\ c.needs \subseteq E \cup a.gives \cup b.gives
    BY <1>1, <1>2, <1>11
  <2>2. Runs(s, E)
    BY <1>8, <2>1
  <2>3. d.needs \subseteq E \cup Names(s) /\ e.needs \subseteq E \cup Names(s)
    BY <1>3, <1>6, <1>11
  <2>4. Runs(t, E \cup Names(s))
    BY <1>9, <2>3
  <2> QED BY <1>10, <2>2, <2>4
<1>12. ASSUME NEW E, "unknown" \notin E, Runs(s \o t, E)
       PROVE  o.exprMut \in TreeGenerators
  <2>1. b.needs \subseteq E \cup a.gives
    BY <1>8, <1>10, <1>12
  <2> QED BY <1>1, <1>2, <1>12, <2>1
<1> QED BY <1>4, <1>6, <1>7, <1>10, <1>11, <1>12

\* main up to the algorithm.
LEMMA GPMainIs ==
  ASSUME NEW o \in GPOptions
  PROVE  /\ Program(GPMain(o))
         /\ Names(GPMain(o)) =
              {"toolbox.map", "rootPath", "pop", "hof", "mstats"} \cup
              (IF o.hof > 0 THEN {"room in hof"} ELSE {})
         /\ \A E : Runs(GPMain(o), E) <=>
              {"toolbox", "futures", "os", "random", "toolbox.population", "toolbox.individual",
               "toolbox.expr", "a primitive", "tools", "numpy"} \subseteq E
<1> DEFINE a == Stmt({"toolbox", "futures"}, {"toolbox.map"})
           b == Stmt({"os", "random"}, {"rootPath"})
           c == Stmt({"toolbox.population", "toolbox.individual", "toolbox.expr", "a primitive"},
                     {"pop"})
           d == HallOfFame(o.hof)
           e == SetupStats
<1>1. Statement(a) /\ Statement(b) /\ Statement(c) /\ Statement(e)
  BY DEF SetupStats, Stmt, Statement, Limits, MateLimit, MutateLimit
<1>2. /\ a.needs = {"toolbox", "futures"} /\ a.gives = {"toolbox.map"}
      /\ b.needs = {"os", "random"} /\ b.gives = {"rootPath"}
      /\ c.needs = {"toolbox.population", "toolbox.individual", "toolbox.expr", "a primitive"}
      /\ c.gives = {"pop"}
      /\ e.needs = {"tools", "numpy"} /\ e.gives = {"mstats"}
  BY DEF SetupStats, Stmt
<1>3. /\ Statement(d) /\ d.needs = {"tools"}
      /\ d.gives = {"hof"} \cup IF o.hof > 0 THEN {"room in hof"} ELSE {}
  BY HallOfFameIs DEF GPOptions
<1>4. GPMain(o) = <<a, b, c, d, e>>
  BY DEF GPMain
<1> HIDE DEF a, b, c, d, e
<1>5. Program(<<a, b, c, d, e>>)
  BY <1>1, <1>3, Five
<1>6. Names(<<a, b, c, d, e>>) =
        {"toolbox.map", "rootPath", "pop", "hof", "mstats"} \cup
        (IF o.hof > 0 THEN {"room in hof"} ELSE {})
  <2>1. Names(<<a, b, c, d, e>>) = a.gives \cup b.gives \cup c.gives \cup d.gives \cup e.gives
    BY Five
  <2> QED BY <1>2, <1>3, <2>1
<1>7. ASSUME NEW E
      PROVE  Runs(<<a, b, c, d, e>>, E) <=>
               {"toolbox", "futures", "os", "random", "toolbox.population", "toolbox.individual",
                "toolbox.expr", "a primitive", "tools", "numpy"} \subseteq E
  <2>1. Runs(<<a, b, c, d, e>>, E) <=>
          /\ a.needs \subseteq E
          /\ b.needs \subseteq E \cup a.gives
          /\ c.needs \subseteq E \cup a.gives \cup b.gives
          /\ d.needs \subseteq E \cup a.gives \cup b.gives \cup c.gives
          /\ e.needs \subseteq E \cup a.gives \cup b.gives \cup c.gives \cup d.gives
    BY Five
  <2>2. b.needs \subseteq E \cup a.gives <=> {"os", "random"} \subseteq E
    BY <1>2
  <2>3. c.needs \subseteq E \cup a.gives \cup b.gives <=>
          {"toolbox.population", "toolbox.individual", "toolbox.expr", "a primitive"} \subseteq E
    BY <1>2
  <2>4. d.needs \subseteq E \cup a.gives \cup b.gives \cup c.gives <=> "tools" \in E
    BY <1>2, <1>3
  <2>5. e.needs \subseteq E \cup a.gives \cup b.gives \cup c.gives \cup d.gives <=>
          {"tools", "numpy"} \subseteq E
    BY <1>2, <1>3
  <2>6. a.needs \subseteq E <=> {"toolbox", "futures"} \subseteq E
    BY <1>2
  <2> QED BY <2>1, <2>2, <2>3, <2>4, <2>5, <2>6
<1> QED BY <1>4, <1>5, <1>6, <1>7

\* What an evolution of trees needs of the statements before it.
GPEvolutionCalls(o) ==
  {"algorithms", "toolbox.evaluate", "toolbox.map", "room in hof", "fitness.values",
   "toolbox.select", "toolbox.mate", "toolbox.mutate", "pop", "mstats", "toolbox.compile",
   "math"} \cup GPCrossoverCalls(o) \cup GPMutationCalls(o)

LEMMA GPCallAlgoIs ==
  ASSUME NEW o \in GPOptions
  PROVE  /\ Program(GPCallAlgo(o))
         /\ o.algorithm = "eaGenerateUpdate" =>
              \A E : Runs(GPCallAlgo(o), E) => "individuals that are trees" \in E
         /\ o.algorithm = "de" =>
              \A E : Runs(GPCallAlgo(o), E) => "a function that algorithms does not have" \in E
         /\ o.algorithm \in Evolving =>
              /\ Names(GPCallAlgo(o)) = {"logbook", "hof[0]"}
              /\ \A E : Runs(GPCallAlgo(o), E) <=> GPEvolutionCalls(o) \subseteq E
<1> DEFINE a == Stmt({"cma", "numpy", "toolbox", "creator.Individual"},
                     {"toolbox.generate", "toolbox.update"})
           reached == {"pop", "mstats"} \cup EvalSymbRegCalls \cup
                      (IF o.algorithm = "eaGenerateUpdate"
                       THEN {"individuals that are trees"}
                       ELSE GPCrossoverCalls(o) \cup GPMutationCalls(o))
           b == RunAlgorithm(o.algorithm, reached)
           s == When(o.algorithm = "eaGenerateUpdate", <<a>>)
           t == <<b>>
<1>1. Statement(a) /\ a.gives = {"toolbox.generate", "toolbox.update"}
  BY DEF Stmt, Statement, Limits, MateLimit, MutateLimit
<1>2. o.algorithm \in Algorithms
  BY DEF GPOptions
<1>3. /\ Statement(b) /\ b.gives = {"logbook", "hof[0]"}
      /\ o.algorithm = "eaGenerateUpdate" => "individuals that are trees" \in b.needs
      /\ o.algorithm = "de" => "a function that algorithms does not have" \in b.needs
      /\ o.algorithm \in Evolving => b.needs = GPEvolutionCalls(o)
  <2>1. PICK beyond : beyond = reached
    OBVIOUS
  <2>2. beyond \cap Limits = {}
    BY <2>1 DEF EvalSymbRegCalls, GPCrossoverCalls, GPMutationCalls, SemanticNeeds, Limits,
                MateLimit, MutateLimit
  <2> DEFINE r == RunAlgorithm(o.algorithm, beyond)
  <2>3. /\ Statement(r) /\ r.gives = {"logbook", "hof[0]"} /\ beyond \subseteq r.needs
        /\ o.algorithm = "de" => "a function that algorithms does not have" \in r.needs
        /\ o.algorithm \in Evolving =>
             r.needs = {"algorithms", "toolbox.evaluate", "toolbox.map", "room in hof",
                        "fitness.values", "toolbox.select", "toolbox.mate",
                        "toolbox.mutate"} \cup beyond
    BY <1>2, <2>2, RunAlgorithmIs
  <2>4. b = r
    BY <2>1
  <2>5. o.algorithm = "eaGenerateUpdate" => "individuals that are trees" \in beyond
    BY <2>1
  <2>6. o.algorithm \in Evolving =>
          beyond = {"pop", "mstats", "toolbox.compile", "math"} \cup
                   GPCrossoverCalls(o) \cup GPMutationCalls(o)
    <3>1. o.algorithm \in Evolving => o.algorithm # "eaGenerateUpdate"
      BY DEF Evolving
    <3> QED BY <2>1, <3>1 DEF EvalSymbRegCalls
  <2> HIDE DEF b, r, reached
  <2> QED BY <2>3, <2>4, <2>5, <2>6 DEF GPEvolutionCalls
<1>4. GPCallAlgo(o) = s \o t
  BY DEF GPCallAlgo
<1> HIDE DEF a, b, reached
<1>5. s = IF o.algorithm = "eaGenerateUpdate" THEN <<a>> ELSE <<>>
  BY DEF When
<1> HIDE DEF s
<1>6. Program(<<a>>) /\ Program(t) /\ Program(<<>>)
  BY <1>1, <1>3, One, Empty
<1>7. Names(t) = {"logbook", "hof[0]"} /\ \A E : Runs(t, E) <=> b.needs \subseteq E
  BY <1>3, One
<1> HIDE DEF t
<1>8. Program(s) /\ Names(s) \subseteq {"toolbox.generate", "toolbox.update"}
  BY <1>1, <1>5, <1>6, One, Empty
<1>9. /\ Program(s \o t) /\ Names(s \o t) = Names(s) \cup Names(t)
      /\ \A E : Runs(s \o t, E) <=> Runs(s, E) /\ Runs(t, E \cup Names(s))
  BY <1>6, <1>8, Concat
<1>10. ASSUME NEW E, Runs(GPCallAlgo(o), E)
       PROVE  /\ o.algorithm = "eaGenerateUpdate" => "individuals that are trees" \in E
              /\ o.algorithm = "de" => "a function that algorithms does not have" \in E
  <2>1. b.needs \subseteq E \cup Names(s)
    BY <1>4, <1>7, <1>9, <1>10
  <2> QED BY <1>3, <1>8, <2>1
<1>11. ASSUME o.algorithm \in Evolving
       PROVE  /\ Names(GPCallAlgo(o)) = {"logbook", "hof[0]"}
              /\ \A E : Runs(GPCallAlgo(o), E) <=> GPEvolutionCalls(o) \subseteq E
  <2>1. o.algorithm # "eaGenerateUpdate"
    BY <1>11 DEF Evolving
  <2>2. s = <<>> /\ Names(s) = {} /\ \A E : Runs(s, E)
    BY <1>5, <2>1, Empty
  <2>3. Names(s \o t) = {"logbook", "hof[0]"}
    BY <1>7, <1>9, <2>2
  <2>4. ASSUME NEW E PROVE Runs(s \o t, E) <=> b.needs \subseteq E
    <3>1. E \cup Names(s) = E
      BY <2>2
    <3> QED BY <1>7, <1>9, <2>2, <3>1
  <2> QED BY <1>3, <1>4, <1>11, <2>3, <2>4
<1> QED BY <1>4, <1>9, <1>10, <1>11

\* The files.
LEMMA GPReportIs ==
  /\ Program(GPReport) /\ Names(GPReport) = {"logbook.txt", "best.txt", "graph.png"}
  /\ \A E : {"logbook", "rootPath", "hof[0]", "gp", "nx", "plt"} \subseteq E => Runs(GPReport, E)
<1> DEFINE a == Stmt({"logbook", "rootPath"}, {"logbook.txt"})
           b == Stmt({"hof[0]", "rootPath"}, {"best.txt"})
           c == Stmt({"hof[0]", "gp", "nx", "plt"}, {"graph.png"})
<1>1. Statement(a) /\ Statement(b) /\ Statement(c)
  BY DEF Stmt, Statement, Limits, MateLimit, MutateLimit
<1>2. /\ a.needs = {"logbook", "rootPath"} /\ a.gives = {"logbook.txt"}
      /\ b.needs = {"hof[0]", "rootPath"} /\ b.gives = {"best.txt"}
      /\ c.needs = {"hof[0]", "gp", "nx", "plt"} /\ c.gives = {"graph.png"}
  BY DEF Stmt
<1>3. GPReport = <<a, b, c>>
  BY DEF GPReport
<1> HIDE DEF a, b, c
<1>4. Program(<<a, b, c>>) /\ Names(<<a, b, c>>) = a.gives \cup b.gives \cup c.gives
  BY <1>1, Three
<1>5. ASSUME NEW E, {"logbook", "rootPath", "hof[0]", "gp", "nx", "plt"} \subseteq E
      PROVE  Runs(<<a, b, c>>, E)
  <2>1. a.needs \subseteq E /\ b.needs \subseteq E /\ c.needs \subseteq E
    BY <1>2, <1>5
  <2> QED BY <2>1, Three
<1> QED BY <1>2, <1>3, <1>4, <1>5

\* The program of a request comes to its end for the options of GPWorks.
LEMMA GPProgramIs ==
  ASSUME NEW o \in GPOptions, GPAccepts(o), GPParses(o)
  PROVE  /\ Program(GPCode(o)) /\ {"best.txt", "logbook.txt"} \subseteq Names(GPCode(o))
         /\ Runs(GPCode(o), {}) <=> Weighted(o, "python") /\ GPWorks(o)
<1> DEFINE a == GPDefinitions
           b == GPPrimitives(o)
           c == GPTrees(o)
           d == GPEvaluation(o)
           e == GPOperators(o)
           f == GPMain(o)
           g == GPCallAlgo(o)
           h == GPReport
           E2 == Names(a)
           E3 == Names(a) \cup Names(b)
           E4 == Names(a) \cup Names(b) \cup Names(c)
           E5 == Names(a) \cup Names(b) \cup Names(c) \cup Names(d)
           E6 == Names(a) \cup Names(b) \cup Names(c) \cup Names(d) \cup Names(e)
           E7 == Names(a) \cup Names(b) \cup Names(c) \cup Names(d) \cup Names(e) \cup Names(f)
           E8 == Names(a) \cup Names(b) \cup Names(c) \cup Names(d) \cup Names(e) \cup
                 Names(f) \cup Names(g)
<1>1. GPCode(o) = a \o b \o c \o d \o e \o f \o g \o h
  BY DEF GPCode
<1>2. /\ Program(a) /\ Program(b) /\ Program(c) /\ Program(d)
      /\ Program(e) /\ Program(f) /\ Program(g) /\ Program(h)
  BY GPDefinitionsAre, GPPrimitivesAre, GPTreesAre, GPEvaluationIs, GPOperatorsAre, GPMainIs,
     GPCallAlgoIs, GPReportIs
<1>3. /\ Names(a) = GPDefined
      /\ Names(b) = o.operators \cup {"rand101", "arg_dict"} \cup
                    (IF o.operators # {} THEN {"a primitive"} ELSE {})
      /\ Names(c) = GPTreeNames(o)
      /\ Names(d) = {"toolbox.compile", "toolbox.evaluate"} \cup
                    (IF o.selection = "unknown" THEN {} ELSE {"toolbox.select"})
      /\ Names(e) = {"toolbox.mate", "toolbox.expr_mut", "toolbox.mutate"} \cup Limits
      /\ Names(f) = {"toolbox.map", "rootPath", "pop", "hof", "mstats"} \cup
                    (IF o.hof > 0 THEN {"room in hof"} ELSE {})
      /\ Names(h) = {"logbook.txt", "best.txt", "graph.png"}
  BY GPDefinitionsAre, GPPrimitivesAre, GPTreesAre, GPEvaluationIs, GPOperatorsAre, GPMainIs,
     GPReportIs
<1>4. o.algorithm \in Evolving => Names(g) = {"logbook", "hof[0]"}
  BY GPCallAlgoIs
<1>5. /\ Runs(a, {})
      /\ {"pset", "operator", "math", "def protectedDiv", "def lf", "partial", "random"}
           \subseteq E2 => Runs(b, E2)
      /\ {"creator", "base", "gp", "toolbox", "tools"} \subseteq E3 /\ GPWorks(o) => Runs(c, E3)
      /\ "unknown" \notin E3 /\ Runs(c, E3) => o.expr \in TreeGenerators
      /\ {"toolbox", "gp", "pset", "evalSymbReg", "tools"} \subseteq E4 /\
         o.selection # "unknown" => Runs(d, E4)
  BY GPDefinitionsAre, GPPrimitivesAre, GPTreesAre, GPEvaluationIs
<1>6. /\ {"toolbox", "gp", "pset", "operator"} \subseteq E5 /\ o.exprMut \in TreeGenerators
           => Runs(e, E5)
      /\ "unknown" \notin E5 /\ Runs(e, E5) => o.exprMut \in TreeGenerators
      /\ Runs(f, E6) <=>
           {"toolbox", "futures", "os", "random", "toolbox.population", "toolbox.individual",
            "toolbox.expr", "a primitive", "tools", "numpy"} \subseteq E6
  BY GPOperatorsAre, GPMainIs
<1>7. /\ o.algorithm = "eaGenerateUpdate" /\ Runs(g, E7) => "individuals that are trees" \in E7
      /\ o.algorithm = "de" /\ Runs(g, E7) => "a function that algorithms does not have" \in E7
      /\ o.algorithm \in Evolving => (Runs(g, E7) <=> GPEvolutionCalls(o) \subseteq E7)
      /\ {"logbook", "rootPath", "hof[0]", "gp", "nx", "plt"} \subseteq E8 => Runs(h, E8)
  BY GPCallAlgoIs, GPReportIs
<1> HIDE DEF a, b, c, d, e, f, g, h
<1>8. /\ Program(GPCode(o))
      /\ Names(GPCode(o)) = Names(a) \cup Names(b) \cup Names(c) \cup Names(d) \cup Names(e) \cup
                            Names(f) \cup Names(g) \cup Names(h)
      /\ Runs(GPCode(o), {}) <=>
           /\ Runs(a, {}) /\ Runs(b, E2) /\ Runs(c, E3) /\ Runs(d, E4)
           /\ Runs(e, E5) /\ Runs(f, E6) /\ Runs(g, E7) /\ Runs(h, E8)
  <2> DEFINE p2 == a \o b
             p3 == p2 \o c
             p4 == p3 \o d
             p5 == p4 \o e
             p6 == p5 \o f
             p7 == p6 \o g
             p8 == p7 \o h
  <2>1. /\ Program(p2) /\ Names(p2) = Names(a) \cup Names(b)
        /\ Runs(p2, {}) <=> Runs(a, {}) /\ Runs(b, Names(a))
    BY <1>2, Follow
  <2> HIDE DEF p2
  <2>2. /\ Program(p3) /\ Names(p3) = Names(p2) \cup Names(c)
        /\ Runs(p3, {}) <=> Runs(p2, {}) /\ Runs(c, Names(p2))
    BY <1>2, <2>1, Follow
  <2> HIDE DEF p3
  <2>3. /\ Program(p4) /\ Names(p4) = Names(p3) \cup Names(d)
        /\ Runs(p4, {}) <=> Runs(p3, {}) /\ Runs(d, Names(p3))
    BY <1>2, <2>2, Follow
  <2> HIDE DEF p4
  <2>4. /\ Program(p5) /\ Names(p5) = Names(p4) \cup Names(e)
        /\ Runs(p5, {}) <=> Runs(p4, {}) /\ Runs(e, Names(p4))
    BY <1>2, <2>3, Follow
  <2> HIDE DEF p5
  <2>5. /\ Program(p6) /\ Names(p6) = Names(p5) \cup Names(f)
        /\ Runs(p6, {}) <=> Runs(p5, {}) /\ Runs(f, Names(p5))
    BY <1>2, <2>4, Follow
  <2> HIDE DEF p6
  <2>6. /\ Program(p7) /\ Names(p7) = Names(p6) \cup Names(g)
        /\ Runs(p7, {}) <=> Runs(p6, {}) /\ Runs(g, Names(p6))
    BY <1>2, <2>5, Follow
  <2> HIDE DEF p7
  <2>7. /\ Program(p8) /\ Names(p8) = Names(p7) \cup Names(h)
        /\ Runs(p8, {}) <=> Runs(p7, {}) /\ Runs(h, Names(p7))
    BY <1>2, <2>6, Follow
  <2> HIDE DEF p8
  <2>8. GPCode(o) = p8
    BY <1>1 DEF p2, p3, p4, p5, p6, p7, p8
  <2> QED BY <2>1, <2>2, <2>3, <2>4, <2>5, <2>6, <2>7, <2>8
<1>9. ASSUME Weighted(o, "python"), GPWorks(o) PROVE Runs(GPCode(o), {})
  <2>1. /\ o.algorithm \in Evolving /\ o.operators # {}
        /\ o.exprMut \in TreeGenerators /\ o.selection # "unknown" /\ o.hof > 0
        /\ o.individual = "initIterate" /\ o.population = "initRepeat"
    BY <1>9 DEF GPWorks
  <2>2. /\ GPDefined \subseteq Names(a)
        /\ "a primitive" \in Names(b) /\ o.operators \subseteq Names(b)
    BY <1>3, <2>1
  <2>3. {"toolbox.expr", "toolbox.individual", "toolbox.population", "fitness.values"}
          \subseteq Names(c)
    BY <1>3, <1>9, <2>1 DEF GPTreeNames
  <2>4. {"toolbox.compile", "toolbox.evaluate", "toolbox.select"} \subseteq Names(d)
    BY <1>3, <2>1
  <2>5. {"toolbox.mate", "toolbox.mutate"} \subseteq Names(e)
    BY <1>3
  <2>6. {"toolbox.map", "rootPath", "pop", "mstats", "room in hof"} \subseteq Names(f)
    BY <1>3, <2>1
  <2>7. {"logbook", "hof[0]"} \subseteq Names(g)
    BY <1>4, <2>1
  <2>8. Runs(b, E2) /\ Runs(c, E3) /\ Runs(d, E4)
    BY <1>5, <1>9, <2>1, <2>2 DEF GPDefined
  <2>9. Runs(e, E5)
    BY <1>6, <2>1, <2>2 DEF GPDefined
  <2>10. Runs(f, E6)
    BY <1>6, <2>2, <2>3 DEF GPDefined
  <2>11. GPCrossoverCalls(o) \cup GPMutationCalls(o) \subseteq o.operators
    BY <1>9 DEF GPWorks, GPCrossoverCalls, GPMutationCalls, SemanticNeeds
  <2>12. Runs(g, E7)
    <3>1. GPEvolutionCalls(o) \subseteq E7
      BY <2>2, <2>3, <2>4, <2>5, <2>6, <2>11 DEF GPEvolutionCalls, GPDefined
    <3> QED BY <1>7, <2>1, <3>1
  <2>13. Runs(h, E8)
    BY <1>7, <2>2, <2>6, <2>7 DEF GPDefined
  <2> QED BY <1>5, <1>8, <2>8, <2>9, <2>10, <2>12, <2>13
<1>10. ASSUME Runs(GPCode(o), {}) PROVE Weighted(o, "python") /\ GPWorks(o)
  <2> DEFINE deciding ==
        {"unknown", "a primitive", "toolbox.population", "toolbox.individual",
         "individuals that are trees", "a function that algorithms does not have",
         "fitness.values", "room in hof", "toolbox.select", "lf", "mul", "add", "sub", "a mode"}
  <2>1. o.operators \subseteq Primitives
    BY DEF GPParses
  <2>2. Names(a) \cap deciding = {}
    BY <1>3 DEF GPDefined
  <2>3. Names(b) \cap deciding \subseteq
          o.operators \cup (IF o.operators # {} THEN {"a primitive"} ELSE {})
    BY <1>3
  <2>4. Names(c) \cap deciding =
          (IF Weighted(o, "python") THEN {"fitness.values"} ELSE {}) \cup
          (IF o.individual = "initIterate" THEN {"toolbox.individual"} ELSE {}) \cup
          (IF o.population = "initRepeat" THEN {"toolbox.population"} ELSE {})
    BY <1>3 DEF GPTreeNames
  <2>5. Names(d) \cap deciding = IF o.selection = "unknown" THEN {} ELSE {"toolbox.select"}
    BY <1>3
  <2>6. Names(e) \cap deciding = {}
    BY <1>3 DEF Limits, MateLimit, MutateLimit
  <2>7. Names(f) \cap deciding = IF o.hof > 0 THEN {"room in hof"} ELSE {}
    BY <1>3
  <2>8. ASSUME NEW x \in deciding, x \in E7
        PROVE  /\ x \in {"lf", "mul", "add", "sub"} => x \in o.operators
               /\ x \notin {"unknown", "individuals that are trees",
                            "a function that algorithms does not have", "a mode"}
               /\ x = "a primitive" => o.operators # {}
               /\ x = "fitness.values" => Weighted(o, "python")
               /\ x = "toolbox.individual" => o.individual = "initIterate"
               /\ x = "toolbox.population" => o.population = "initRepeat"
               /\ x = "toolbox.select" => o.selection # "unknown"
               /\ x = "room in hof" => o.hof > 0
    <3>1. \/ x \in Names(b) \cap deciding \/ x \in Names(c) \cap deciding
          \/ x \in Names(d) \cap deciding \/ x \in Names(f) \cap deciding
      BY <2>2, <2>6, <2>8
    <3> HIDE DEF deciding
    <3>2. CASE x \in Names(b) \cap deciding
      BY <2>1, <2>3, <3>2 DEF Primitives
    <3>3. CASE x \in Names(c) \cap deciding
      BY <2>4, <3>3
    <3>4. CASE x \in Names(d) \cap deciding
      BY <2>5, <3>4
    <3>5. CASE x \in Names(f) \cap deciding
      BY <2>7, <3>5
    <3> QED BY <3>1, <3>2, <3>3, <3>4, <3>5
  <2>9. o.expr \in TreeGenerators /\ o.exprMut \in TreeGenerators
    <3>1. "unknown" \notin E7
      BY <2>8
    <3> QED BY <1>5, <1>6, <1>8, <1>10, <3>1
  <2>10. /\ o.operators # {} /\ o.individual = "initIterate" /\ o.population = "initRepeat"
    <3>1. {"a primitive", "toolbox.individual", "toolbox.population"} \subseteq E7
      BY <1>6, <1>8, <1>10
    <3> QED BY <2>8, <3>1
  <2>11. o.algorithm \in Evolving
    <3>1. o.algorithm # "eaGenerateUpdate"
      BY <1>7, <1>8, <1>10, <2>8
    <3>2. o.algorithm # "de"
      BY <1>7, <1>8, <1>10, <2>8
    <3> QED BY <3>1, <3>2 DEF GPAccepts, ValidAlgorithms
  <2>12. GPEvolutionCalls(o) \subseteq E7
    BY <1>7, <1>8, <1>10, <2>11
  <2>13. Weighted(o, "python") /\ o.selection # "unknown" /\ o.hof > 0
    <3>1. {"fitness.values", "toolbox.select", "room in hof"} \subseteq E7
      BY <2>12 DEF GPEvolutionCalls
    <3> QED BY <2>8, <3>1
  <2>14. o.crossover = "cxSemantic" \/ o.mutation = "mutSemantic"
           => {"add", "sub", "mul", "lf"} \subseteq o.operators
    <3>1. ASSUME o.crossover = "cxSemantic" \/ o.mutation = "mutSemantic"
          PROVE  SemanticNeeds \subseteq E7
      BY <2>12, <3>1 DEF GPEvolutionCalls, GPCrossoverCalls, GPMutationCalls
    <3> QED BY <2>8, <3>1 DEF SemanticNeeds
  <2>15. o.mutation = "mutEphemeral" => o.mode \in {"one", "all"}
    <3>1. ASSUME o.mutation = "mutEphemeral", o.mode \notin {"one", "all"}
          PROVE  "a mode" \in E7
      BY <2>12, <3>1 DEF GPEvolutionCalls, GPMutationCalls
    <3> QED BY <2>8, <3>1
  <2>16. o.selection \in Selections
    BY DEF GPOptions
  <2> QED BY <2>1, <2>9, <2>10, <2>11, <2>13, <2>14, <2>15, <2>16 DEF GPWorks, Selections
<1>11. {"best.txt", "logbook.txt"} \subseteq Names(GPCode(o))
  BY <1>3, <1>8
<1> QED BY <1>8, <1>9, <1>10, <1>11

-----------------------------------------------------------------------------
(* The execution of a program.                                             *)

\* The statements before n were executed in an environment that grew to env.
Executed(s, n, e) ==
  /\ n \in 1..(Len(s) + 1)
  /\ \A j \in 1..(n - 1) : s[j].needs \subseteq Given(s, j)
  /\ Given(s, n) \ Limits \subseteq e /\ e \subseteq Given(s, n)

\* What a statement gave is there unless a later one has undone it.
Kept(s, n, e) ==
  \A i \in 1..(n - 1) : \A x \in s[i].gives :
    x \in e \/ \E j \in (i + 1)..(n - 1) : x \in s[j].undoes

\* The statements of a program by their numbers.
LEMMA StatementsOf ==
  ASSUME NEW s, Program(s)
  PROVE  /\ Len(s) \in Nat /\ DOMAIN s = 1..Len(s)
         /\ \A j \in 1..Len(s) : Statement(s[j])
<1>1. PICK S : s \in Seq(S) /\ \A a \in S : Statement(a)
  BY DEF Program
<1> QED BY <1>1

\* Start: nothing has run yet.
LEMMA NothingExecuted ==
  ASSUME NEW s, Program(s)
  PROVE  Executed(s, 1, {}) /\ Kept(s, 1, {})
<1>1. Len(s) \in Nat
  BY StatementsOf
<1>2. \A x : x \notin Given(s, 1)
  BY InGiven
<1> QED BY <1>1, <1>2 DEF Executed, Kept

\* What is given before the next statement.
LEMMA GivenByOneMore ==
  ASSUME NEW s, NEW n \in Nat, n > 0
  PROVE  Given(s, n + 1) = Given(s, n) \cup s[n].gives
<1>1. ASSUME NEW x PROVE x \in Given(s, n + 1) <=> x \in Given(s, n) \/ x \in s[n].gives
  <2>1. x \in Given(s, n + 1) <=> \E j \in 1..n : x \in s[j].gives
    BY InGiven
  <2>2. x \in Given(s, n) <=> \E j \in 1..(n - 1) : x \in s[j].gives
    BY InGiven
  <2>3. \A j : j \in 1..n <=> j \in 1..(n - 1) \/ j = n
    OBVIOUS
  <2> QED BY <2>1, <2>2, <2>3
<1> QED BY <1>1

\* Execute: one statement more.
LEMMA OneMoreExecuted ==
  ASSUME NEW s, Program(s), NEW n, NEW e, Executed(s, n, e), Kept(s, n, e),
         n <= Len(s), s[n].needs \subseteq e
  PROVE  LET e2 == (e \ s[n].undoes) \cup s[n].gives
         IN Executed(s, n + 1, e2) /\ Kept(s, n + 1, e2)
<1> DEFINE e2 == (e \ s[n].undoes) \cup s[n].gives
<1>1. /\ Len(s) \in Nat /\ n \in 1..Len(s) /\ n \in Nat /\ n > 0
  BY StatementsOf DEF Executed
<1>2. s[n].undoes \subseteq Limits
  BY <1>1, StatementsOf DEF Statement
<1>3. Given(s, n + 1) = Given(s, n) \cup s[n].gives
  BY <1>1, GivenByOneMore
<1>4. Given(s, n + 1) \ Limits \subseteq e2 /\ e2 \subseteq Given(s, n + 1)
  BY <1>2, <1>3 DEF Executed
<1>5. ASSUME NEW j \in 1..n PROVE s[j].needs \subseteq Given(s, j)
  <2>1. CASE j = n
    BY <2>1 DEF Executed
  <2>2. CASE j # n
    <3>1. j \in 1..(n - 1)
      BY <1>1, <2>2
    <3> QED BY <3>1 DEF Executed
  <2> QED BY <2>1, <2>2
<1>6. Executed(s, n + 1, e2)
  <2>1. n + 1 \in 1..(Len(s) + 1) /\ (n + 1) - 1 = n
    BY <1>1
  <2> QED BY <1>4, <1>5, <2>1 DEF Executed
<1>7. ASSUME NEW i \in 1..n, NEW x \in s[i].gives, x \notin e2
      PROVE  \E j \in (i + 1)..n : x \in s[j].undoes
  <2>1. i # n /\ i \in 1..(n - 1)
    BY <1>1, <1>7
  <2>2. CASE x \in e
    <3>1. x \in s[n].undoes /\ n \in (i + 1)..n
      BY <1>1, <1>7, <2>1, <2>2
    <3> QED BY <3>1
  <2>3. CASE x \notin e
    <3>1. PICK j \in (i + 1)..(n - 1) : x \in s[j].undoes
      BY <2>1, <2>3 DEF Kept
    <3>2. j \in (i + 1)..n
      BY <1>1, <2>1
    <3> QED BY <3>1, <3>2
  <2> QED BY <2>2, <2>3
<1>8. Kept(s, n + 1, e2)
  <2>1. (n + 1) - 1 = n
    BY <1>1
  <2> QED BY <1>7, <2>1 DEF Kept
<1> QED BY <1>6, <1>8

\* Raise: a program that lacks a name does not run.
LEMMA RaisedRunsNot ==
  ASSUME NEW s, Program(s), NEW n, NEW e, Executed(s, n, e), n <= Len(s),
         ~(s[n].needs \subseteq e)
  PROVE  ~Runs(s, {})
<1>1. n \in 1..Len(s) /\ DOMAIN s = 1..Len(s) /\ Statement(s[n])
  BY StatementsOf DEF Executed
<1>2. ~(s[n].needs \subseteq Given(s, n))
  BY <1>1 DEF Executed, Statement
<1> QED BY <1>1, <1>2 DEF Runs

\* Finish: a program that got to its end runs, and its names are bound.
LEMMA FinishedRuns ==
  ASSUME NEW s, Program(s), NEW n, NEW e, Executed(s, n, e), n > Len(s)
  PROVE  Runs(s, {}) /\ Names(s) \ Limits \subseteq e
<1>1. Len(s) \in Nat /\ DOMAIN s = 1..Len(s) /\ n = Len(s) + 1
  BY StatementsOf DEF Executed
<1>2. \A x : x \in Names(s) <=> x \in Given(s, n)
  <2>1. 1..(n - 1) = DOMAIN s
    BY <1>1
  <2> QED BY <2>1, InNames, InGiven
<1>3. \A j \in DOMAIN s : s[j].needs \subseteq Given(s, j)
  BY <1>1 DEF Executed
<1> QED BY <1>2, <1>3 DEF Runs, Executed

-----------------------------------------------------------------------------
(* The invariant.                                                          *)

\* The options are those of the endpoint.
OptionsInv ==
  \/ kind = "ea" /\ options \in EARequests
  \/ kind = "gp" /\ options \in GPRequests
  \/ kind = "ml" /\ options \in MLRequests
  \/ kind = "pso" /\ options \in PSORequests

\* The stages: what was generated was accepted, what runs is Python.
StageInv ==
  /\ stage \in {"request", "program", "refused", "running", "failed", "ended"}
  /\ stage \in {"program", "running", "failed", "ended"} => Accepts
  /\ stage \in {"running", "ended"} => Parses

\* The execution: nothing before it starts and where it cannot, and as far as at else.
ExecutionInv ==
  /\ stage \in {"request", "program", "refused"} \/ ~Parses => at = 1 /\ env = {}
  /\ stage \in {"running", "failed", "ended"} /\ Parses =>
       Executed(Code, at, env) /\ Kept(Code, at, env)
  /\ stage = "ended" => at > Len(Code)
  /\ stage = "failed" /\ Parses => ~Runs(Code, {})

\* The inductive invariant.
CInv == OptionsInv /\ StageInv /\ ExecutionInv

\* The options are among those of the generator that WorkingRequests refers to.
Works ==
  /\ kind = "ea" => EAWorks(options)
  /\ kind = "gp" => GPWorks(options)
  /\ kind = "ml" => MLWorks(options)
  /\ kind = "pso" => PSOWorks(options)

\* What the generators have in common.
LEMMA CodeIs ==
  ASSUME OptionsInv, Accepts, Parses
  PROVE  /\ Program(Code) /\ {"best.txt", "logbook.txt"} \subseteq Names(Code)
         /\ Runs(Code, {}) <=> Weighted(options, Evaluates) /\ Works
<1>1. CASE kind = "ea" /\ options \in EARequests
  <2>1. options \in EAOptions /\ EAAccepts(options) /\ Code = EACode(options)
        /\ (Works <=> EAWorks(options)) /\ Evaluates = EANumbers(options)
    BY <1>1, OptionsAssumption DEF Accepts, Code, Works, Evaluates
  <2> QED BY <2>1, EAProgramIs
<1>2. CASE kind = "gp" /\ options \in GPRequests
  <2>1. options \in GPOptions /\ GPAccepts(options) /\ Code = GPCode(options)
        /\ (Works <=> GPWorks(options)) /\ GPParses(options)
        /\ Evaluates = "python"
    BY <1>2, OptionsAssumption DEF Accepts, Code, Works, Parses, Evaluates
  <2> QED BY <2>1, GPProgramIs
<1>3. CASE kind = "ml" /\ options \in MLRequests
  <2>1. options \in MLOptions /\ MLAccepts(options) /\ Code = MLCode(options)
        /\ (Works <=> MLWorks(options)) /\ Evaluates = options.evaluation
    BY <1>3, OptionsAssumption DEF Accepts, Code, Works, Evaluates
  <2> QED BY <2>1, MLProgramIs
<1>4. CASE kind = "pso" /\ options \in PSORequests
  <2>1. options \in PSOOptions /\ PSOAccepts(options) /\ Code = PSOCode(options)
        /\ (Works <=> PSOWorks(options)) /\ Evaluates = PSONumbers(options)
    BY <1>4, OptionsAssumption DEF Accepts, Code, Works, Evaluates
  <2> QED BY <2>1, PSOProgramIs
<1> QED BY <1>1, <1>2, <1>3, <1>4 DEF OptionsInv

\* A request, at first.
LEMMA InitCInv == Init => CInv
BY DEF Init, CInv, OptionsInv, StageInv, ExecutionInv

\* The kind and the options are what they were, and so is all that depends on them.
LEMMA Unchanged ==
  ASSUME UNCHANGED <<kind, options>>
  PROVE  /\ (Code' = Code) /\ (Accepts' <=> Accepts) /\ (Parses' <=> Parses)
         /\ (OptionsInv' <=> OptionsInv)
<1>1. Code' = Code
  BY DEF Code
<1>2. Accepts' <=> Accepts
  BY DEF Accepts
<1>3. Parses' <=> Parses
  BY DEF Parses
<1> QED BY <1>1, <1>2, <1>3 DEF OptionsInv

\* Every step keeps the invariant.
LEMMA NextCInv == ASSUME CInv, [Next]_vars PROVE CInv'
<1>1. CASE Generate
  <2>1. UNCHANGED <<kind, options, at, env>> /\ stage = "request"
        /\ stage' = IF Accepts THEN "program" ELSE "refused"
    BY <1>1 DEF Generate
  <2>2. (Code' = Code) /\ (Accepts' <=> Accepts) /\ (Parses' <=> Parses)
        /\ (OptionsInv' <=> OptionsInv)
    BY <2>1, Unchanged
  <2>3. OptionsInv'
    BY <2>2 DEF CInv
  <2>4. StageInv'
    BY <2>1, <2>2 DEF StageInv
  <2>5. ExecutionInv'
    BY <2>1, <2>2 DEF CInv, ExecutionInv
  <2> QED BY <2>3, <2>4, <2>5 DEF CInv
<1>2. CASE Start
  <2>1. UNCHANGED <<kind, options, at, env>> /\ stage = "program"
        /\ stage' = IF Parses THEN "running" ELSE "failed"
    BY <1>2 DEF Start
  <2>2. (Code' = Code) /\ (Accepts' <=> Accepts) /\ (Parses' <=> Parses)
        /\ (OptionsInv' <=> OptionsInv)
    BY <2>1, Unchanged
  <2>3. OptionsInv' /\ Accepts
    BY <2>1, <2>2 DEF CInv, StageInv
  <2>4. StageInv'
    BY <2>1, <2>2, <2>3 DEF StageInv
  <2>5. at = 1 /\ env = {}
    BY <2>1 DEF CInv, ExecutionInv
  <2>6. Parses => Executed(Code, at, env) /\ Kept(Code, at, env)
    BY <2>3, <2>5, CodeIs, NothingExecuted DEF CInv
  <2>7. ExecutionInv'
    BY <2>1, <2>2, <2>5, <2>6 DEF ExecutionInv
  <2> QED BY <2>3, <2>4, <2>7 DEF CInv
<1>3. CASE Execute
  <2>1. /\ UNCHANGED <<kind, options, stage>> /\ stage = "running"
        /\ at <= Len(Code) /\ Code[at].needs \subseteq env
        /\ env' = (env \ Code[at].undoes) \cup Code[at].gives /\ at' = at + 1
    BY <1>3 DEF Execute
  <2>2. (Code' = Code) /\ (Accepts' <=> Accepts) /\ (Parses' <=> Parses)
        /\ (OptionsInv' <=> OptionsInv)
    BY <2>1, Unchanged
  <2>3. OptionsInv /\ Accepts /\ Parses /\ Executed(Code, at, env) /\ Kept(Code, at, env)
    BY <2>1 DEF CInv, StageInv, ExecutionInv
  <2>4. StageInv'
    BY <2>1, <2>2, <2>3 DEF StageInv
  <2>5. Executed(Code, at', env') /\ Kept(Code, at', env')
    BY <2>1, <2>3, CodeIs, OneMoreExecuted
  <2>6. ExecutionInv'
    BY <2>1, <2>2, <2>3, <2>5 DEF ExecutionInv
  <2> QED BY <2>2, <2>3, <2>4, <2>6 DEF CInv
<1>4. CASE Raise
  <2>1. /\ UNCHANGED <<kind, options, at, env>> /\ stage = "running" /\ stage' = "failed"
        /\ at <= Len(Code) /\ ~(Code[at].needs \subseteq env)
    BY <1>4 DEF Raise
  <2>2. (Code' = Code) /\ (Accepts' <=> Accepts) /\ (Parses' <=> Parses)
        /\ (OptionsInv' <=> OptionsInv)
    BY <2>1, Unchanged
  <2>3. OptionsInv /\ Accepts /\ Parses /\ Executed(Code, at, env) /\ Kept(Code, at, env)
    BY <2>1 DEF CInv, StageInv, ExecutionInv
  <2>4. StageInv'
    BY <2>1, <2>2, <2>3 DEF StageInv
  <2>5. ~Runs(Code, {})
    BY <2>1, <2>3, CodeIs, RaisedRunsNot
  <2>6. ExecutionInv'
    BY <2>1, <2>2, <2>3, <2>5 DEF ExecutionInv
  <2> QED BY <2>2, <2>3, <2>4, <2>6 DEF CInv
<1>5. CASE Finish
  <2>1. /\ UNCHANGED <<kind, options, at, env>> /\ stage = "running" /\ stage' = "ended"
        /\ at > Len(Code)
    BY <1>5 DEF Finish
  <2>2. (Code' = Code) /\ (Accepts' <=> Accepts) /\ (Parses' <=> Parses)
        /\ (OptionsInv' <=> OptionsInv)
    BY <2>1, Unchanged
  <2>3. OptionsInv /\ Accepts /\ Parses /\ Executed(Code, at, env) /\ Kept(Code, at, env)
    BY <2>1 DEF CInv, StageInv, ExecutionInv
  <2>4. StageInv'
    BY <2>1, <2>2, <2>3 DEF StageInv
  <2>5. ExecutionInv'
    BY <2>1, <2>2, <2>3 DEF ExecutionInv
  <2> QED BY <2>2, <2>3, <2>4, <2>5 DEF CInv
<1>6. CASE UNCHANGED vars
  <2>1. UNCHANGED <<kind, options, stage, at, env>>
    BY <1>6 DEF vars
  <2>2. (Code' = Code) /\ (Accepts' <=> Accepts) /\ (Parses' <=> Parses)
        /\ (OptionsInv' <=> OptionsInv)
    BY <2>1, Unchanged
  <2> QED BY <2>1, <2>2 DEF CInv, StageInv, ExecutionInv
<1> QED BY <1>1, <1>2, <1>3, <1>4, <1>5, <1>6 DEF Next, Over

\* What has run of a program, at every moment of every request.
THEOREM CodeGenInvariance == Spec => []CInv
BY InitCInv, NextCInv, PTL DEF Spec

\* The variables have their types, and a program that comes to its end leaves its files.
THEOREM CodeGenTypes == Spec => []TypeOK
<1>1. CInv => TypeOK
  <2> SUFFICES ASSUME CInv PROVE TypeOK
    OBVIOUS
  <2>1. at \in Nat \ {0}
    <3>1. CASE stage \in {"running", "failed", "ended"} /\ Parses
      <4>1. Executed(Code, at, env) /\ Program(Code)
        BY <3>1, CodeIs DEF CInv, StageInv, ExecutionInv
      <4> QED BY <4>1, StatementsOf DEF Executed
    <3>2. CASE ~(stage \in {"running", "failed", "ended"} /\ Parses)
      BY <3>2 DEF CInv, StageInv, ExecutionInv
    <3> QED BY <3>1, <3>2
  <2>2. ASSUME stage = "ended" PROVE {"best.txt", "logbook.txt"} \subseteq env
    <3>1. Executed(Code, at, env) /\ at > Len(Code) /\ OptionsInv /\ Accepts /\ Parses
      BY <2>2 DEF CInv, StageInv, ExecutionInv
    <3>2. Names(Code) \ Limits \subseteq env /\ {"best.txt", "logbook.txt"} \subseteq Names(Code)
      BY <3>1, CodeIs, FinishedRuns
    <3> QED BY <3>2 DEF Limits, MateLimit, MutateLimit
  <2> QED BY <2>1, <2>2 DEF CInv, OptionsInv, StageInv, TypeOK
<1> QED BY CodeGenInvariance, <1>1, PTL

\* For every request: an accepted one gets a program that comes to its end if its
\* options are among those of EAWorks, GPWorks, MLWorks or PSOWorks and its weights are
\* taken for the tuple of a number, which is not zero where the evaluation returns numbers
\* of Python, and one that fails otherwise.
THEOREM ExactlyTheseWork == Spec => []WorkingRequests
<1>1. CInv => WorkingRequests
  <2> SUFFICES ASSUME CInv, stage \in {"failed", "ended"}
               PROVE  /\ Accepts
                      /\ stage = "ended" <=>
                           /\ WeightsTuple(options.weights) # <<>>
                           /\ Weighted(options, Evaluates)
                           /\ Works
    BY DEF WorkingRequests, Works, Weighted
  <2>1. Accepts /\ OptionsInv
    BY DEF CInv, StageInv
  <2>2. CASE ~Parses
    <3>1. stage # "ended"
      BY <2>2 DEF CInv, StageInv
    <3>2. ASSUME WeightsTuple(options.weights) # <<>>, Works PROVE FALSE
      <4>1. kind = "gp" /\ ~GPParses(options) /\ GPWorks(options)
        BY <2>2, <3>2 DEF Parses, Works
      <4> QED BY <4>1 DEF GPParses, GPWorks
    <3> QED BY <2>1, <3>1, <3>2
  <2>3. CASE Parses
    <3>1. WeightsTuple(options.weights) # <<>>
      BY <2>3 DEF Parses
    <3>2. Program(Code) /\ (Runs(Code, {}) <=> Weighted(options, Evaluates) /\ Works)
      BY <2>1, <2>3, CodeIs
    <3>3. stage = "ended" => Runs(Code, {})
      BY <2>3, <3>2, FinishedRuns DEF CInv, ExecutionInv
    <3>4. stage = "failed" => ~Runs(Code, {})
      BY <2>3 DEF CInv, ExecutionInv
    <3> QED BY <2>1, <3>1, <3>2, <3>3, <3>4
  <2> QED BY <2>2, <2>3
<1> QED BY CodeGenInvariance, <1>1, PTL

-----------------------------------------------------------------------------
(* The height limits of genetic programs.                                  *)

\* No statement undoes anything.
Quiet(s) == \A j \in DOMAIN s : s[j].undoes = {}

\* The statement i gives x, which nothing from there to the end undoes.
GivesForGood(s, i, x) ==
  i \in DOMAIN s /\ x \in s[i].gives /\ \A j \in (i + 1)..Len(s) : x \notin s[j].undoes

\* Both limits hold at the end.
Decorated(s) == \A x \in Limits : \E i \in DOMAIN s : GivesForGood(s, i, x)

\* A limit holds for good before a statement gives the population.
LimitedFirst(s) ==
  \A k \in DOMAIN s : "pop" \in s[k].gives =>
    \A x \in Limits : \E i \in 1..(k - 1) : GivesForGood(s, i, x)

\* A section that undoes nothing leaves the limits where they are.
LEMMA QuietKeeps ==
  ASSUME NEW s, NEW t, Program(s), Program(t), Decorated(s), LimitedFirst(s), Quiet(t)
  PROVE  Decorated(s \o t) /\ LimitedFirst(s \o t)
<1> DEFINE u == s \o t
<1>1. /\ Len(s) \in Nat /\ Len(t) \in Nat
      /\ DOMAIN s = 1..Len(s) /\ DOMAIN t = 1..Len(t)
      /\ DOMAIN u = 1..(Len(s) + Len(t)) /\ Len(u) = Len(s) + Len(t)
      /\ \A j \in 1..Len(s) : u[j] = s[j]
      /\ \A j \in 1..(Len(s) + Len(t)) : j \notin 1..Len(s) =>
           j - Len(s) \in 1..Len(t) /\ u[j] = t[j - Len(s)]
  BY ConcatIndices
<1> HIDE DEF u
<1>2. ASSUME NEW i, NEW x, GivesForGood(s, i, x) PROVE GivesForGood(u, i, x)
  <2>1. i \in 1..Len(s) /\ i \in DOMAIN u /\ x \in u[i].gives
    BY <1>1, <1>2 DEF GivesForGood
  <2>2. ASSUME NEW j \in (i + 1)..Len(u) PROVE x \notin u[j].undoes
    <3>1. CASE j \in 1..Len(s)
      BY <1>1, <1>2, <2>1, <3>1 DEF GivesForGood
    <3>2. CASE j \notin 1..Len(s)
      <4>1. j \in 1..(Len(s) + Len(t))
        BY <1>1, <2>1
      <4> QED BY <1>1, <3>2, <4>1 DEF Quiet
    <3> QED BY <3>1, <3>2
  <2> QED BY <2>1, <2>2 DEF GivesForGood
<1>3. Decorated(u)
  BY <1>1, <1>2 DEF Decorated, GivesForGood
<1>4. ASSUME NEW k \in DOMAIN u, "pop" \in u[k].gives, NEW x \in Limits
      PROVE  \E i \in 1..(k - 1) : GivesForGood(u, i, x)
  <2>1. CASE k \in 1..Len(s)
    BY <1>1, <1>2, <1>4, <2>1 DEF LimitedFirst
  <2>2. CASE k \notin 1..Len(s)
    <3>1. PICK i \in DOMAIN s : GivesForGood(s, i, x)
      BY DEF Decorated
    <3>2. i \in 1..(k - 1)
      BY <1>1, <2>2
    <3> QED BY <1>2, <3>1, <3>2
  <2> QED BY <2>1, <2>2
<1>5. LimitedFirst(u)
  BY <1>4 DEF LimitedFirst
<1> QED BY <1>3, <1>5 DEF u

\* A section that ends with both limits, after those that precede it.
LEMMA DecoratedAfter ==
  ASSUME NEW s, NEW t, Program(s), Program(t), Decorated(t)
  PROVE  Decorated(s \o t)
<1> DEFINE u == s \o t
<1>1. /\ Len(s) \in Nat /\ Len(t) \in Nat
      /\ DOMAIN s = 1..Len(s) /\ DOMAIN t = 1..Len(t)
      /\ DOMAIN u = 1..(Len(s) + Len(t)) /\ Len(u) = Len(s) + Len(t)
      /\ \A j \in 1..Len(t) : u[Len(s) + j] = t[j]
      /\ \A j \in 1..(Len(s) + Len(t)) : j \notin 1..Len(s) =>
           j - Len(s) \in 1..Len(t) /\ u[j] = t[j - Len(s)]
  BY ConcatIndices
<1> HIDE DEF u
<1>2. ASSUME NEW x \in Limits PROVE \E i \in DOMAIN u : GivesForGood(u, i, x)
  <2>1. PICK i \in DOMAIN t : GivesForGood(t, i, x)
    BY DEF Decorated
  <2>2. Len(s) + i \in DOMAIN u /\ x \in u[Len(s) + i].gives
    BY <1>1, <2>1 DEF GivesForGood
  <2>3. ASSUME NEW j \in (Len(s) + i + 1)..Len(u) PROVE x \notin u[j].undoes
    <3>1. j \in 1..(Len(s) + Len(t)) /\ j \notin 1..Len(s) /\ j - Len(s) \in (i + 1)..Len(t)
      BY <1>1
    <3> QED BY <1>1, <2>1, <3>1 DEF GivesForGood
  <2>4. GivesForGood(u, Len(s) + i, x)
    BY <2>2, <2>3 DEF GivesForGood
  <2> QED BY <2>2, <2>4
<1> QED BY <1>2 DEF Decorated, u

\* The operators end with the decorations of bloatControl.
LEMMA OperatorsDecorated == ASSUME NEW o \in GPOptions PROVE Decorated(GPOperators(o))
<1> DEFINE a == GPCrossover(o)
           b == RegisterGenerator("toolbox.expr_mut", o.exprMut)
           c == GPMutation(o)
           d == Stmt({"toolbox.mate", "gp", "operator"}, {MateLimit})
           e == Stmt({"toolbox.mutate", "gp", "operator"}, {MutateLimit})
           s == <<a, b, c>>
           t == <<d, e>>
<1>1. /\ Statement(d) /\ d.gives = {MateLimit}
      /\ Statement(e) /\ e.gives = {MutateLimit} /\ e.undoes = {}
  BY BloatControlIs
<1>2. Statement(a) /\ Statement(b) /\ Statement(c)
  BY GPOperatorIs, GeneratorIs DEF GPOptions
<1>3. GPOperators(o) = s \o t
  BY BloatControlIs DEF GPOperators
<1> HIDE DEF a, b, c, d, e
<1>4. Program(s) /\ Program(t)
  BY <1>1, <1>2, Two, Three
<1>5. Len(t) = 2 /\ DOMAIN t = 1..2 /\ t[1] = d /\ t[2] = e
  OBVIOUS
<1> HIDE DEF s, t
<1>6. GivesForGood(t, 1, MateLimit)
  <2>1. \A j \in (1 + 1)..2 : j = 2
    OBVIOUS
  <2> QED BY <1>1, <1>5, <2>1 DEF GivesForGood
<1>7. GivesForGood(t, 2, MutateLimit)
  BY <1>1, <1>5 DEF GivesForGood
<1>8. Decorated(t)
  BY <1>5, <1>6, <1>7 DEF Decorated, Limits
<1> QED BY <1>3, <1>4, <1>8, DecoratedAfter

\* What follows the operators registers none of them anew.
LEMMA MainIsQuiet ==
  ASSUME NEW o
  PROVE  Quiet(GPMain(o)) /\ Quiet(GPCallAlgo(o)) /\ Quiet(GPReport)
<1>1. Quiet(GPMain(o))
  <2> DEFINE a == Stmt({"toolbox", "futures"}, {"toolbox.map"})
             b == Stmt({"os", "random"}, {"rootPath"})
             c == Stmt({"toolbox.population", "toolbox.individual", "toolbox.expr",
                        "a primitive"}, {"pop"})
             d == HallOfFame(o.hof)
             e == SetupStats
  <2>1. a.undoes = {} /\ b.undoes = {} /\ c.undoes = {} /\ d.undoes = {} /\ e.undoes = {}
    BY DEF HallOfFame, SetupStats, Stmt
  <2>2. GPMain(o) = <<a, b, c, d, e>>
    BY DEF GPMain
  <2> HIDE DEF a, b, c, d, e
  <2> QED BY <2>1, <2>2 DEF Quiet
<1>2. Quiet(GPCallAlgo(o))
  <2> DEFINE a == Stmt({"cma", "numpy", "toolbox", "creator.Individual"},
                       {"toolbox.generate", "toolbox.update"})
             b == RunAlgorithm(o.algorithm,
                    {"pop", "mstats"} \cup EvalSymbRegCalls \cup
                    (IF o.algorithm = "eaGenerateUpdate"
                     THEN {"individuals that are trees"}
                     ELSE GPCrossoverCalls(o) \cup GPMutationCalls(o)))
  <2>1. a.undoes = {}
    BY DEF Stmt
  <2>2. b.undoes = {}
    BY DEF RunAlgorithm, Stmt
  <2>3. GPCallAlgo(o) = When(o.algorithm = "eaGenerateUpdate", <<a>>) \o <<b>>
    BY DEF GPCallAlgo
  <2> HIDE DEF a, b
  <2>4. CASE o.algorithm = "eaGenerateUpdate"
    <3> DEFINE s == <<a>>
               t == <<b>>
    <3>1. GPCallAlgo(o) = s \o t
      BY <2>3, <2>4 DEF When
    <3>2. Len(s) = 1 /\ s[1] = a /\ Len(t) = 1 /\ t[1] = b
      OBVIOUS
    <3>3. s \in Seq({a, b}) /\ t \in Seq({a, b})
      OBVIOUS
    <3> HIDE DEF s, t
    <3>4. /\ Len(s \o t) = Len(s) + Len(t) /\ DOMAIN (s \o t) = 1..Len(s \o t)
          /\ \A i \in 1..Len(s \o t) :
               (s \o t)[i] = IF i <= Len(s) THEN s[i] ELSE t[i - Len(s)]
      BY <3>3, ConcatProperties
    <3>5. \A i \in 1..2 : (s \o t)[i] = IF i <= 1 THEN s[i] ELSE t[i - 1]
      BY <3>2, <3>4
    <3>6. \A i \in 1..2 : i = 1 \/ i = 2
      OBVIOUS
    <3>7. \A i \in DOMAIN (s \o t) : (s \o t)[i] \in {a, b}
      BY <3>2, <3>4, <3>5, <3>6
    <3> QED BY <2>1, <2>2, <3>1, <3>7 DEF Quiet
  <2>5. CASE o.algorithm # "eaGenerateUpdate"
    <3>1. GPCallAlgo(o) = <<b>>
      <4>1. b \in {b}
        OBVIOUS
      <4>2. <<b>> \in Seq({b})
        BY <4>1
      <4> QED BY <2>3, <2>5, <4>2, ConcatEmptySeq DEF When
    <3> QED BY <2>2, <3>1 DEF Quiet
  <2> QED BY <2>4, <2>5
<1>3. Quiet(GPReport)
  <2> DEFINE a == Stmt({"logbook", "rootPath"}, {"logbook.txt"})
             b == Stmt({"hof[0]", "rootPath"}, {"best.txt"})
             c == Stmt({"hof[0]", "gp", "nx", "plt"}, {"graph.png"})
  <2>1. a.undoes = {} /\ b.undoes = {} /\ c.undoes = {}
    BY DEF Stmt
  <2>2. GPReport = <<a, b, c>>
    BY DEF GPReport
  <2> HIDE DEF a, b, c
  <2> QED BY <2>1, <2>2 DEF Quiet
<1> QED BY <1>1, <1>2, <1>3

\* The limits come after the last registration of an operator and before the population.
LEMMA GPCodeLimited ==
  ASSUME NEW o \in GPOptions, GPParses(o)
  PROVE  LimitedFirst(GPCode(o))
<1> DEFINE a == GPDefinitions \o GPPrimitives(o) \o GPTrees(o) \o GPEvaluation(o)
           b == GPOperators(o)
           c == GPMain(o)
           d == GPCallAlgo(o)
           e == GPReport
<1>1. Program(b) /\ Program(c) /\ Program(d) /\ Program(e)
  BY GPOperatorsAre, GPMainIs, GPCallAlgoIs, GPReportIs
<1>2. Program(a) /\ "pop" \notin Names(a)
  <2>1. /\ Program(GPDefinitions) /\ Program(GPPrimitives(o))
        /\ Program(GPTrees(o)) /\ Program(GPEvaluation(o))
    BY GPDefinitionsAre, GPPrimitivesAre, GPTreesAre, GPEvaluationIs
  <2>2. "pop" \notin Names(GPDefinitions)
    BY GPDefinitionsAre DEF GPDefined
  <2>3. "pop" \notin Names(GPPrimitives(o))
    <3>1. Names(GPPrimitives(o)) =
            o.operators \cup {"rand101", "arg_dict"} \cup
            (IF o.operators # {} THEN {"a primitive"} ELSE {})
      BY GPPrimitivesAre
    <3>2. "pop" \notin o.operators
      BY DEF GPParses, Primitives
    <3> QED BY <3>1, <3>2
  <2>4. "pop" \notin Names(GPTrees(o))
    <3>1. "pop" \notin GPTreeNames(o)
      BY DEF GPTreeNames
    <3> QED BY <3>1, GPTreesAre
  <2>5. "pop" \notin Names(GPEvaluation(o))
    <3>1. Names(GPEvaluation(o)) =
            {"toolbox.compile", "toolbox.evaluate"} \cup
            (IF o.selection = "unknown" THEN {} ELSE {"toolbox.select"})
      BY GPEvaluationIs
    <3> QED BY <3>1
  <2>6. Program(GPDefinitions \o GPPrimitives(o))
        /\ "pop" \notin Names(GPDefinitions \o GPPrimitives(o))
    BY <2>1, <2>2, <2>3, Follow
  <2>7. Program(GPDefinitions \o GPPrimitives(o) \o GPTrees(o))
        /\ "pop" \notin Names(GPDefinitions \o GPPrimitives(o) \o GPTrees(o))
    BY <2>1, <2>4, <2>6, Follow
  <2> QED BY <2>1, <2>5, <2>7, Follow
<1>3. "pop" \notin Names(b)
  <2>1. Names(b) = {"toolbox.mate", "toolbox.expr_mut", "toolbox.mutate"} \cup Limits
    BY GPOperatorsAre
  <2> QED BY <2>1 DEF Limits, MateLimit, MutateLimit
<1>4. Decorated(b) /\ Quiet(c) /\ Quiet(d) /\ Quiet(e)
  BY OperatorsDecorated, MainIsQuiet
<1>5. GPCode(o) = a \o b \o c \o d \o e
  BY DEF GPCode
<1> HIDE DEF a, b, c, d, e
<1>6. Program(a \o b) /\ "pop" \notin Names(a \o b) /\ Decorated(a \o b)
  BY <1>1, <1>2, <1>3, <1>4, Follow, DecoratedAfter
<1>7. LimitedFirst(a \o b)
  BY <1>6, InNames DEF LimitedFirst
<1>8. Program(a \o b \o c) /\ Decorated(a \o b \o c) /\ LimitedFirst(a \o b \o c)
  BY <1>1, <1>4, <1>6, <1>7, Follow, QuietKeeps
<1>9. Program(a \o b \o c \o d) /\ Decorated(a \o b \o c \o d) /\ LimitedFirst(a \o b \o c \o d)
  BY <1>1, <1>4, <1>8, Follow, QuietKeeps
<1> QED BY <1>1, <1>4, <1>5, <1>9, QuietKeeps

\* The trees of a genetic program stay within their heights, whatever its options:
\* bloatControl (gp.go:285-290) decorates the operators after the last of them is
\* registered and before there is a population.
THEOREM TreesAlwaysLimited == Spec => []TreesStayLimited
<1>1. CInv => TreesStayLimited
  <2> SUFFICES ASSUME CInv, kind = "gp", "pop" \in env, NEW x \in {MateLimit, MutateLimit}
               PROVE  x \in env
    BY DEF TreesStayLimited
  <2>1. /\ Executed(Code, at, env) /\ Kept(Code, at, env) /\ Accepts /\ Parses
    BY DEF CInv, StageInv, ExecutionInv
  <2>2. options \in GPOptions /\ GPParses(options) /\ Code = GPCode(options)
    BY <2>1, OptionsAssumption DEF CInv, OptionsInv, Parses, Code
  <2>3. LimitedFirst(Code) /\ x \in Limits
    BY <2>2, GPCodeLimited DEF Limits
  <2>4. Program(Code)
    BY <2>1, CodeIs DEF CInv
  <2>5. /\ Len(Code) \in Nat /\ DOMAIN Code = 1..Len(Code)
        /\ at \in 1..(Len(Code) + 1) /\ env \subseteq Given(Code, at)
    BY <2>1, <2>4, StatementsOf DEF Executed
  <2>6. PICK k \in 1..(at - 1) : "pop" \in Code[k].gives
    BY <2>5, InGiven
  <2>7. PICK i \in 1..(k - 1) : GivesForGood(Code, i, x)
    BY <2>3, <2>5, <2>6 DEF LimitedFirst
  <2>8. i \in 1..(at - 1) /\ x \in Code[i].gives
    BY <2>5, <2>7 DEF GivesForGood
  <2>9. \A j \in (i + 1)..(at - 1) : x \notin Code[j].undoes
    BY <2>5, <2>7, <2>8 DEF GivesForGood
  <2> QED BY <2>1, <2>8, <2>9 DEF Kept
<1> QED BY CodeGenInvariance, <1>1, PTL

=============================================================================
