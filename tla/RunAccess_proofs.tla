--------------------------- MODULE RunAccess_proofs ---------------------------
(***************************************************************************)
(* The safety of RunAccess for any number of requests, accounts, runs and  *)
(* lists of addresses.  AInv has a part about the tables and one about     *)
(* each request; a step of one handler is seen by another only as rows     *)
(* that are added.                                                         *)
(***************************************************************************)
EXTENDS RunAccess, FiniteSetTheorems, SequenceTheorems, TLAPS

RowsAreSound == \A id \in Keys, u \in Users : RowIsSound(id, u)

\* What the order of the statements of a handler makes of the tables.
TablesInv == run[NoRun] = None /\ RowsAreSound /\ GrantsAreWarranted

\* A handler sends the statements of its own endpoint, for a caller it knows.
EndpointInv(r) ==
  /\ pc[r] # "idle" => op[r] \in DOMAIN First
  /\ pc[r] \in {"insertRun", "insertAccess"} => op[r] = "create"
  /\ pc[r] \in {"checkRun", "findUsers", "insertGrant"} => op[r] = "share"
  /\ pc[r] \in {"queryAccess", "queryRuns"} => op[r] = "list"
  /\ pc[r] \in {"checkAccess", "readRun"} => op[r] = "show"
  /\ pc[r] \in Statements \ {"auth"} => user[r] \in Users

\* A creation is about its own row; a share has seen that of the run it names.
TargetInv(r) ==
  /\ pc[r] = "insertAccess" => run[target[r]] = user[r]
  /\ pc[r] \in {"findUsers", "insertGrant"} => run[target[r]] # None
  /\ op[r] = "create" /\ pc[r] = "ok" => user[r] \in Users
  /\ CallerWrites(r)

\* Nobody inserted a row for this request.
NoRows(r) == \A id \in Keys, u \in Users : access[id][u] = None \/ access[id][u].by # r

Refused == {"noSuchRun", "someDoNotExist", "somethingWrong", "badRequest"}

\* Everybody in the list exists and is there once.
ListExists(r) ==
  \A i, j \in DOMAIN list[r] :
    UserOf[list[r][i]] # None /\ (i # j => list[r][i] # list[r][j])

Granted(r, u) == access[target[r]][u] # None

\* Grants come after the whole check; those in the loop are still to be made or made.
GrantInv(r) ==
  /\ pc[r] \in {"idle", "auth", "checkRun", "findUsers"} => NoRows(r)
  /\ op[r] = "share" /\ pc[r] \in Refused => NoRows(r)
  /\ pc[r] = "insertGrant" =>
       /\ ListExists(r)
       /\ \A e \in ToSet(list[r]) : UserOf[e] \in ids[r] \/ Granted(r, UserOf[e])
       /\ \A u \in ids[r] : \E e \in ToSet(list[r]) : UserOf[e] = u
  /\ op[r] = "share" /\ pc[r] = "ok" =>
       \A e \in ToSet(list[r]) : UserOf[e] # None /\ Granted(r, UserOf[e])

\* What was found is what the caller has access to, all of it unless a query broke
\* off.
FoundInv(r) ==
  /\ pc[r] = "queryAccess" => before[r] \subseteq Accessible(user[r])
  /\ pc[r] = "queryRuns" => /\ ids[r] \subseteq Accessible(user[r])
                            /\ r \notin cut => before[r] \subseteq ids[r]
  /\ pc[r] = "readRun" => target[r] \in Accessible(user[r])
  /\ result[r] # {} => /\ pc[r] = "ok" /\ user[r] \in Users
                       /\ result[r] \subseteq Accessible(user[r])
  /\ op[r] = "list" /\ pc[r] = "ok" /\ r \notin cut => before[r] \subseteq result[r]

RequestInv(r) == EndpointInv(r) /\ TargetInv(r) /\ GrantInv(r) /\ FoundInv(r)

AInv == TypeOK /\ TablesInv /\ \A r \in Requests : RequestInv(r)

-----------------------------------------------------------------------------
(* Data: nested functions, and lists as long as the set they name.          *)

LEMMA NestedExcept ==
  ASSUME NEW S, NEW T, NEW V, NEW f \in [S -> [T -> V]],
         NEW s \in S, NEW t \in T, NEW v \in V
  PROVE  /\ [f EXCEPT ![s][t] = v] \in [S -> [T -> V]]
         /\ \A x \in S, y \in T :
              [f EXCEPT ![s][t] = v][x][y] = IF x = s /\ y = t THEN v ELSE f[x][y]
OBVIOUS

\* A set of names all found without the k-th of n places has fewer than n.
LEMMA OnePlaceLess ==
  ASSUME NEW n \in Nat, NEW k \in 1..n, NEW f, NEW found,
         \A x \in found : \E i \in (1..n) \ {k} : x = f[i]
  PROVE  Cardinality(found) <= n - 1
<1> DEFINE S == (1..n) \ {k}
           T == {f[i] : i \in S}
           g == [i \in S |-> f[i]]
<1>1. IsFiniteSet(S) /\ Cardinality(S) = n - 1
  <2>1. IsFiniteSet(1..n) /\ Cardinality(1..n) = n
    BY FS_Interval
  <2> QED BY <2>1, FS_RemoveElement
<1>2. g \in Surjection(S, T)
  BY DEF Surjection
<1>3. IsFiniteSet(T) /\ Cardinality(T) <= n - 1
  BY <1>1, <1>2, FS_Surjection
<1>4. found \in SUBSET T
  OBVIOUS
<1> HIDE DEF S, T, g
<1>5. Cardinality(found) <= Cardinality(T) /\ IsFiniteSet(found)
  BY <1>3, <1>4, FS_Subset
<1>6. Cardinality(found) \in Nat /\ Cardinality(T) \in Nat
  BY <1>3, <1>5, FS_CardinalityType
<1> QED BY <1>3, <1>5, <1>6

\* What the comparison of the two lengths shows: every address of the list was found,
\* and none is there twice.
LEMMA AllDistinct ==
  ASSUME NEW l \in Seq(Emails), NEW found,
         found \subseteq {UserOf[e] : e \in ToSet(l)} \ {None},
         Cardinality(found) = Len(l)
  PROVE  \A i, j \in DOMAIN l : UserOf[l[i]] \in found /\ (i # j => l[i] # l[j])
<1> DEFINE n == Len(l)
           f == [i \in 1..n |-> UserOf[l[i]]]
<1>1. n \in Nat /\ DOMAIN l = 1..n
  OBVIOUS
<1>2. \A x \in found : \E i \in 1..n : x = f[i]
  BY <1>1 DEF ToSet
<1>3. \A i \in 1..n : f[i] = UserOf[l[i]]
  OBVIOUS
<1> HIDE DEF n, f
<1>4. ASSUME NEW k \in 1..n PROVE \E x \in found : \A i \in (1..n) \ {k} : x # f[i]
  <2>1. SUFFICES ASSUME \A x \in found : \E i \in (1..n) \ {k} : x = f[i] PROVE FALSE
    OBVIOUS
  <2>2. Cardinality(found) <= n - 1
    BY <1>1, <2>1, OnePlaceLess
  <2> QED BY <1>1, <2>2 DEF n
<1>5. ASSUME NEW k \in 1..n PROVE f[k] \in found
  BY <1>2, <1>4
<1>6. ASSUME NEW i \in 1..n, NEW j \in 1..n, i # j PROVE l[i] # l[j]
  <2>1. PICK x \in found : \A k \in (1..n) \ {j} : x # f[k]
    BY <1>4
  <2>2. x = f[j] /\ x # f[i]
    BY <1>2, <1>6, <2>1
  <2> QED BY <1>3, <2>2
<1> QED BY <1>1, <1>3, <1>5, <1>6

-----------------------------------------------------------------------------
(* What a step of one handler is to the others.                            *)

\* The variables of a request, all but the cancellation.
Untouched(q) ==
  /\ pc'[q] = pc[q] /\ op'[q] = op[q] /\ target'[q] = target[q] /\ list'[q] = list[q]
  /\ user'[q] = user[q] /\ ids'[q] = ids[q] /\ result'[q] = result[q]
  /\ before'[q] = before[q]
  /\ q \in cut' <=> q \in cut

\* The tables only grow, and the rows of access by request r.
Grows(r) ==
  /\ \A id \in Keys : run[id] # None => run'[id] = run[id]
  /\ \A id \in Keys, u \in Users :
       IF access[id][u] # None THEN access'[id][u] = access[id][u]
                               ELSE access'[id][u] = None \/ access'[id][u].by = r

LEMMA GrownAccess ==
  ASSUME TypeOK, NEW r, Grows(r)
  PROVE  \A u \in Users : Accessible(u) \subseteq Accessible(u)'
BY DEF TypeOK, Grows, Accessible

LEMMA OtherRequest ==
  ASSUME TypeOK, NEW r \in Requests, Grows(r),
         NEW q \in Requests, q # r, Untouched(q), RequestInv(q)
  PROVE  RequestInv(q)'
<1>1. /\ target[q] \in Keys
      /\ user[q] \in Users \cup {None}
      /\ \A e \in Emails : UserOf[e] \in Users \cup {None}
      /\ list[q] \in Seq(Emails) /\ ToSet(list[q]) \subseteq Emails
  <2>1. list[q] \in Seq(Emails)
    <3>1. list[q] \in Lists \cup {<<>>}
      BY DEF TypeOK
    <3> QED BY <3>1, ListsAssumption, EmptySeq
  <2>2. ToSet(list[q]) \subseteq Emails
    BY <2>1 DEF ToSet
  <2> QED BY <2>1, <2>2, UserOfAssumption DEF TypeOK
<1>2. EndpointInv(q)'
  BY DEF RequestInv, EndpointInv, Untouched
<1>3. TargetInv(q)'
  <2>1. ASSUME op[q] = "create", pc[q] = "ok"
        PROVE  /\ run'[target[q]] = user[q]
               /\ access'[target[q]][user[q]] = Row(q, "write")
    <3>1. user[q] \in Users /\ run[target[q]] = user[q]
          /\ access[target[q]][user[q]] = Row(q, "write")
      BY <2>1 DEF RequestInv, TargetInv, CallerWrites
    <3>2. Row(q, "write") # None /\ user[q] # None
      BY <3>1, NamesAssumption DEF Row, AccessRows
    <3> QED BY <1>1, <3>1, <3>2 DEF Grows
  <2>2. CallerWrites(q)'
    BY <2>1 DEF CallerWrites, Untouched
  <2>3. pc[q] = "insertAccess" => run'[target[q]] = user[q]
    BY <1>1, NamesAssumption DEF RequestInv, TargetInv, EndpointInv, Grows, Statements
  <2>4. pc[q] \in {"findUsers", "insertGrant"} => run'[target[q]] # None
    BY <1>1 DEF RequestInv, TargetInv, Grows
  <2> QED BY <2>2, <2>3, <2>4 DEF RequestInv, TargetInv, Untouched
<1>4. GrantInv(q)'
  <2>1. NoRows(q) => NoRows(q)'
    BY DEF NoRows, Grows
  <2>2. ASSUME NEW u \in Users, Granted(q, u) PROVE Granted(q, u)'
    BY <1>1, <2>2 DEF Granted, Grows, Untouched
  <2>3. ListExists(q)' <=> ListExists(q)
    BY DEF ListExists, Untouched
  <2>4. ASSUME pc[q] = "insertGrant", NEW e \in ToSet(list[q])
        PROVE  UserOf[e] \in Users
    <3>1. PICK i \in DOMAIN list[q] : list[q][i] = e
      BY DEF ToSet
    <3>2. UserOf[e] # None
      BY <2>4, <3>1 DEF RequestInv, GrantInv, ListExists
    <3> QED BY <1>1, <3>2
  <2>5. pc[q] = "insertGrant" =>
          \A e \in ToSet(list[q]) : UserOf[e] \in ids[q] \/ Granted(q, UserOf[e])'
    BY <2>2, <2>4 DEF RequestInv, GrantInv
  <2>6. op[q] = "share" /\ pc[q] = "ok" =>
          \A e \in ToSet(list[q]) : UserOf[e] # None /\ Granted(q, UserOf[e])'
    BY <1>1, <2>2 DEF RequestInv, GrantInv
  <2> QED BY <2>1, <2>3, <2>5, <2>6 DEF RequestInv, GrantInv, Untouched
<1>5. FoundInv(q)'
  <2>1. user[q] \in Users => Accessible(user[q]) \subseteq Accessible(user[q])'
    <3>1. ASSUME NEW u \in Users, u = user[q]
          PROVE  Accessible(user[q]) \subseteq Accessible(user[q])'
      <4>1. Accessible(user[q]) = Accessible(u)
        BY <3>1
      <4>2. Accessible(user[q])' = Accessible(u)'
        BY <3>1 DEF Untouched, Accessible
      <4> QED BY <4>1, <4>2, GrownAccess
    <3> QED BY <3>1
  <2>2. pc[q] \in {"queryAccess", "queryRuns", "readRun"} => user[q] \in Users
    BY DEF RequestInv, EndpointInv, Statements
  <2> QED BY <2>1, <2>2 DEF RequestInv, FoundInv, Untouched
<1> QED BY <1>2, <1>3, <1>4, <1>5 DEF RequestInv

LEMMA StepAInv ==
  ASSUME AInv, NEW r \in Requests, Grows(r), TypeOK', TablesInv', RequestInv(r)',
         \A q \in Requests : q # r => Untouched(q)
  PROVE  AInv'
BY OtherRequest DEF AInv

\* A step that leaves the tables alone, and the parameters of a share that has rows.
LEMMA HandlerStep ==
  ASSUME AInv, NEW r \in Requests, UNCHANGED dbVars, TypeOK', RequestInv(r)',
         \A q \in Requests : q # r => Untouched(q),
         NoRows(r) \/ (op'[r] = op[r] /\ target'[r] = target[r] /\ list'[r] = list[r])
  PROVE  AInv'
<1>1. Grows(r)
  BY DEF Grows, dbVars
<1>2. GrantsAreWarranted'
  <2>1. SUFFICES ASSUME NEW id \in Keys, NEW u \in Users,
                        access[id][u] # None, access[id][u].mode = "read"
                 PROVE  LET q == access[id][u].by IN
                          /\ op'[q] = "share"
                          /\ target'[q] = id
                          /\ \E e \in ToSet(list'[q]) : UserOf[e] = u
                          /\ \A i, j \in DOMAIN list'[q] :
                               /\ UserOf[list'[q][i]] # None
                               /\ i # j => list'[q][i] # list'[q][j]
    BY DEF GrantsAreWarranted, dbVars
  <2> DEFINE q == access[id][u].by
  <2>2. q \in Requests
    BY <2>1 DEF AInv, TypeOK, AccessRows
  <2>3. op'[q] = op[q] /\ target'[q] = target[q] /\ list'[q] = list[q]
    BY <2>1, <2>2 DEF NoRows, Untouched
  <2>4. /\ op[q] = "share"
        /\ target[q] = id
        /\ \E e \in ToSet(list[q]) : UserOf[e] = u
        /\ \A i, j \in DOMAIN list[q] :
             UserOf[list[q][i]] # None /\ (i # j => list[q][i] # list[q][j])
    BY <2>1 DEF AInv, TablesInv, GrantsAreWarranted
  <2>5. op'[q] = "share" /\ target'[q] = id
    BY <2>3, <2>4
  <2>6. /\ \E e \in ToSet(list'[q]) : UserOf[e] = u
        /\ \A i, j \in DOMAIN list'[q] :
             UserOf[list'[q][i]] # None /\ (i # j => list'[q][i] # list'[q][j])
    BY <2>3, <2>4
  <2> QED BY <2>5, <2>6
<1>3. TablesInv'
  BY <1>2 DEF AInv, TablesInv, RowsAreSound, RowIsSound, dbVars
<1> QED BY <1>1, <1>3, StepAInv

-----------------------------------------------------------------------------
(* The invariant.                                                          *)

LEMMA InitAInv == Init => AInv
<1> SUFFICES ASSUME Init PROVE AInv
  OBVIOUS
<1>1. TypeOK
  BY EmptySeq DEF Init, TypeOK, Keys, First
<1>2. \A id \in Keys : run[id] = None /\ \A u \in Users : access[id][u] = None
  BY DEF Init
<1>3. TablesInv
  BY <1>2 DEF TablesInv, RowsAreSound, RowIsSound, GrantsAreWarranted, Keys
<1>4. ASSUME NEW r \in Requests PROVE RequestInv(r)
  <2>1. /\ pc[r] = "idle" /\ op[r] = None /\ result[r] = {}
        /\ NoRows(r)
    BY <1>2 DEF Init, NoRows
  <2> QED BY <2>1 DEF RequestInv, EndpointInv, TargetInv, CallerWrites, GrantInv,
                      FoundInv, Refused, Statements
<1> QED BY <1>1, <1>3, <1>4 DEF AInv

LEMMA ArriveAInv ==
  ASSUME AInv, NEW r \in Requests,
         CreateRun(r) \/ ShareRun(r) \/ UserRuns(r) \/ UserRun(r)
  PROVE  AInv'
<1>1. PICK o \in DOMAIN First :
        /\ Arrive(r, o)
        /\ target' \in [Requests -> Keys]
        /\ list' \in [Requests -> Lists \cup {<<>>}]
        /\ \A q \in Requests : q # r => target'[q] = target[q] /\ list'[q] = list[q]
        /\ UNCHANGED <<user, localVars, cancelled, dbVars>>
  <2>0. /\ target \in [Requests -> Keys] /\ list \in [Requests -> Lists \cup {<<>>}]
        /\ {"create", "share", "list", "show"} = DOMAIN First
    BY DEF AInv, TypeOK, First
  <2>1. CASE CreateRun(r)
    BY <2>0, <2>1 DEF CreateRun
  <2>2. CASE ShareRun(r)
    <3>1. PICK id \in Keys, l \in Lists : /\ target' = [target EXCEPT ![r] = id]
                                          /\ list' = [list EXCEPT ![r] = l]
      BY <2>2 DEF ShareRun
    <3> QED BY <2>0, <2>2, <3>1 DEF ShareRun
  <2>3. CASE UserRuns(r)
    BY <2>0, <2>3 DEF UserRuns
  <2>4. CASE UserRun(r)
    <3>1. PICK id \in Keys : target' = [target EXCEPT ![r] = id]
      BY <2>4 DEF UserRun
    <3> QED BY <2>0, <2>4, <3>1 DEF UserRun
  <2> QED BY <2>1, <2>2, <2>3, <2>4
<1>2. /\ pc[r] = "idle" /\ pc'[r] = "auth" /\ op'[r] = o
      /\ pc' \in [Requests -> Statements \cup Settled \cup {"idle"}]
      /\ op' \in [Requests -> DOMAIN First \cup {None}]
      /\ \A q \in Requests : q # r => pc'[q] = pc[q] /\ op'[q] = op[q]
  <2>1. /\ pc \in [Requests -> Statements \cup Settled \cup {"idle"}]
        /\ op \in [Requests -> DOMAIN First \cup {None}]
    BY DEF AInv, TypeOK
  <2> QED BY <1>1, <2>1 DEF Arrive, Goto, Statements
<1>3. TypeOK'
  BY <1>1, <1>2 DEF AInv, TypeOK, localVars, dbVars
<1>4. NoRows(r) /\ result[r] = {}
  BY <1>2 DEF AInv, RequestInv, GrantInv, FoundInv
<1>5. RequestInv(r)'
  <2>1. NoRows(r)' /\ result'[r] = {}
    BY <1>1, <1>4 DEF NoRows, dbVars, localVars
  <2>2. EndpointInv(r)'
    BY <1>1, <1>2 DEF EndpointInv
  <2>3. TargetInv(r)'
    BY <1>1, <1>2 DEF TargetInv, CallerWrites, dbVars
  <2>4. GrantInv(r)' /\ FoundInv(r)'
    BY <1>2, <2>1 DEF GrantInv, FoundInv, Refused
  <2> QED BY <2>2, <2>3, <2>4 DEF RequestInv
<1>6. \A q \in Requests : q # r => Untouched(q)
  BY <1>1, <1>2 DEF Untouched, localVars
<1> QED BY <1>1, <1>3, <1>4, <1>5, <1>6, HandlerStep

\* The types that the steps of a handler read.
LEMMA Typed ==
  ASSUME AInv, NEW r \in Requests
  PROVE  /\ pc \in [Requests -> Statements \cup Settled \cup {"idle"}]
         /\ op[r] \in DOMAIN First \cup {None}
         /\ target[r] \in Keys /\ target \in [Requests -> Keys]
         /\ list[r] \in Seq(Emails)
         /\ user[r] \in Users \cup {None} /\ user \in [Requests -> Users \cup {None}]
         /\ ids[r] \subseteq Keys \cup Users
         /\ ids \in [Requests -> SUBSET (Keys \cup Users)]
         /\ result \in [Requests -> SUBSET RunIds]
         /\ before \in [Requests -> SUBSET Keys]
         /\ run \in [Keys -> Users \cup {None}]
         /\ access \in [Keys -> [Users -> AccessRows \cup {None}]]
<1>1. list[r] \in Lists \cup {<<>>}
  BY DEF AInv, TypeOK
<1>2. list[r] \in Seq(Emails)
  BY <1>1, ListsAssumption, EmptySeq
<1> QED BY <1>2 DEF AInv, TypeOK

LEMMA AuthAInv == ASSUME AInv, NEW r \in Requests, Auth(r) PROVE AInv'
<1>1. /\ pc[r] = "auth" /\ op[r] \in DOMAIN First /\ NoRows(r) /\ result[r] = {}
      /\ RequestInv(r)
  BY DEF AInv, RequestInv, EndpointInv, GrantInv, FoundInv, Auth
<1>2. /\ pc' \in [Requests -> Statements \cup Settled \cup {"idle"}]
      /\ user' \in [Requests -> Users \cup {None}]
      /\ before' \in [Requests -> SUBSET Keys]
      /\ \A q \in Requests : q # r => /\ pc'[q] = pc[q] /\ user'[q] = user[q]
                                      /\ before'[q] = before[q]
      /\ \/ /\ user'[r] \in Users
            /\ before'[r] = Accessible(user'[r])
            /\ pc'[r] = First[op[r]] \/ (op[r] # "list" /\ pc'[r] = "badRequest")
         \/ pc'[r] = "unauthorized"
  <2>1. CASE Goto(r, "unauthorized") /\ UNCHANGED <<user, before>>
    BY <2>1, Typed DEF Goto, Settled, Answers
  <2>2. CASE \E u \in Users :
               /\ user' = [user EXCEPT ![r] = u]
               /\ before' = [before EXCEPT ![r] = Accessible(u)]
               /\ Goto(r, First[op[r]]) \/ (op[r] # "list" /\ Goto(r, "badRequest"))
    <3>1. PICK u \in Users :
            /\ user' = [user EXCEPT ![r] = u]
            /\ before' = [before EXCEPT ![r] = Accessible(u)]
            /\ Goto(r, First[op[r]]) \/ (op[r] # "list" /\ Goto(r, "badRequest"))
      BY <2>2
    <3>2. First[op[r]] \in Statements /\ "badRequest" \in Settled
      BY <1>1 DEF First, Statements, Settled, Answers
    <3>3. /\ pc' \in [Requests -> Statements \cup Settled \cup {"idle"}]
          /\ \A q \in Requests : q # r => pc'[q] = pc[q]
          /\ pc'[r] = First[op[r]] \/ (op[r] # "list" /\ pc'[r] = "badRequest")
      BY <3>1, <3>2, Typed DEF Goto
    <3>4. Accessible(u) \in SUBSET Keys
      BY DEF Accessible
    <3>5. /\ user' \in [Requests -> Users \cup {None}]
          /\ before' \in [Requests -> SUBSET Keys]
          /\ \A q \in Requests : q # r => user'[q] = user[q] /\ before'[q] = before[q]
          /\ user'[r] = u /\ before'[r] = Accessible(u)
      BY <3>1, <3>4, Typed
    <3> QED BY <3>3, <3>5
  <2> QED BY <2>1, <2>2 DEF Auth
<1>3. UNCHANGED <<op, target, list, ids, result, cut, cancelled, dbVars>>
  BY DEF Auth
<1>4. pc'[r] \in {"unauthorized", "badRequest", "insertRun", "checkRun", "queryAccess",
                  "checkAccess"}
  BY <1>1, <1>2 DEF First
<1>5. TypeOK'
  BY <1>2, <1>3, <1>4 DEF AInv, TypeOK, dbVars
<1>6. RequestInv(r)'
  <2>1. NoRows(r)' /\ result'[r] = {}
    BY <1>1, <1>3 DEF NoRows, dbVars
  <2>2. EndpointInv(r)'
    BY <1>1, <1>2, <1>3, <1>4 DEF EndpointInv, Statements, First
  <2>3. TargetInv(r)'
    BY <1>1, <1>3, <1>4 DEF RequestInv, TargetInv, CallerWrites, dbVars
  <2>4. GrantInv(r)'
    BY <1>4, <2>1 DEF GrantInv
  <2>5. FoundInv(r)'
    <3>1. pc'[r] = "queryAccess" => before'[r] \subseteq Accessible(user[r])'
      <4>1. pc'[r] = "queryAccess" => before'[r] = Accessible(user'[r])
        BY <1>2
      <4>2. Accessible(user[r])' = Accessible(user'[r])
        BY <1>3 DEF Accessible, dbVars
      <4> QED BY <4>1, <4>2
    <3> QED BY <1>4, <2>1, <3>1 DEF FoundInv
  <2> QED BY <2>2, <2>3, <2>4, <2>5 DEF RequestInv
<1>7. \A q \in Requests : q # r => Untouched(q)
  BY <1>2, <1>3 DEF Untouched
<1> QED BY <1>1, <1>3, <1>5, <1>6, <1>7, HandlerStep

LEMMA InsertRunAInv == ASSUME AInv, NEW r \in Requests, InsertRun(r) PROVE AInv'
<1>1. /\ pc[r] = "insertRun" /\ op[r] = "create" /\ user[r] \in Users /\ result[r] = {}
      /\ RequestInv(r)
  BY DEF AInv, RequestInv, EndpointInv, FoundInv, InsertRun, Statements
<1>2. UNCHANGED <<op, list, user, localVars, cancelled, access>>
  BY DEF InsertRun
<1>3. /\ pc' \in [Requests -> Statements \cup Settled \cup {"idle"}]
      /\ target' \in [Requests -> Keys]
      /\ run' \in [Keys -> Users \cup {None}]
      /\ \A q \in Requests : q # r => pc'[q] = pc[q] /\ target'[q] = target[q]
      /\ \A id \in Keys : run[id] # None => run'[id] = run[id]
      /\ run'[NoRun] = run[NoRun]
      /\ pc'[r] = "insertAccess" => run'[target'[r]] = user[r]
      /\ pc'[r] \in {"insertAccess", "somethingWrong"}
  <2>1. /\ Goto(r, "insertAccess") \/ Goto(r, "somethingWrong")
        /\ \/ run' = run /\ target' = target /\ Goto(r, "somethingWrong")
           \/ \E id \in RunIds : /\ run[id] = None /\ run' = [run EXCEPT ![id] = user[r]]
                                 /\ \/ target' = [target EXCEPT ![r] = id]
                                    \/ target' = target /\ Goto(r, "somethingWrong")
    BY DEF InsertRun
  <2>2. /\ pc' \in [Requests -> Statements \cup Settled \cup {"idle"}]
        /\ \A q \in Requests : q # r => pc'[q] = pc[q]
        /\ pc'[r] \in {"insertAccess", "somethingWrong"}
        /\ Goto(r, "somethingWrong") => pc'[r] = "somethingWrong"
    BY <2>1, Typed DEF Goto, Statements, Settled, Answers
  <2>3. CASE run' = run /\ target' = target /\ Goto(r, "somethingWrong")
    BY <2>2, <2>3, Typed
  <2>4. ASSUME NEW id \in RunIds, run[id] = None, run' = [run EXCEPT ![id] = user[r]],
               \/ target' = [target EXCEPT ![r] = id]
               \/ target' = target /\ Goto(r, "somethingWrong")
        PROVE  /\ target' \in [Requests -> Keys]
               /\ run' \in [Keys -> Users \cup {None}]
               /\ \A q \in Requests : q # r => target'[q] = target[q]
               /\ \A k \in Keys : run[k] # None => run'[k] = run[k]
               /\ run'[NoRun] = run[NoRun]
               /\ pc'[r] = "insertAccess" => run'[target'[r]] = user[r]
    <3>1. id \in Keys /\ id # NoRun /\ NoRun \in Keys
      BY NamesAssumption DEF Keys
    <3>2. /\ run' \in [Keys -> Users \cup {None}]
          /\ run'[id] = user[r]
          /\ \A k \in Keys : k # id => run'[k] = run[k]
      BY <1>1, <2>4, <3>1, Typed
    <3>3. /\ target' \in [Requests -> Keys]
          /\ \A q \in Requests : q # r => target'[q] = target[q]
          /\ target'[r] = id \/ pc'[r] = "somethingWrong"
      BY <2>2, <2>4, <3>1, Typed
    <3> QED BY <2>2, <2>4, <3>1, <3>2, <3>3
  <2> QED BY <2>1, <2>2, <2>3, <2>4
<1>4. Grows(r)
  BY <1>2, <1>3 DEF Grows
<1>5. TypeOK'
  BY <1>2, <1>3 DEF AInv, TypeOK, localVars
<1>6. TablesInv'
  <2>1. RowsAreSound'
    BY <1>2, <1>3 DEF AInv, TablesInv, RowsAreSound, RowIsSound
  <2>2. GrantsAreWarranted'
    <3>1. \A q \in Requests : op[q] = "share" => target'[q] = target[q]
      BY <1>1, <1>3
    <3>2. \A id \in Keys, u \in Users : access[id][u] # None => access[id][u].by \in Requests
      BY Typed DEF AccessRows
    <3> QED BY <1>2, <3>1, <3>2 DEF AInv, TablesInv, GrantsAreWarranted
  <2> QED BY <1>3, <2>1, <2>2 DEF AInv, TablesInv
<1>7. RequestInv(r)'
  <2>1. EndpointInv(r)'
    BY <1>1, <1>2, <1>3 DEF EndpointInv, First
  <2>2. TargetInv(r)'
    BY <1>1, <1>2, <1>3 DEF TargetInv, CallerWrites
  <2>3. GrantInv(r)'
    BY <1>1, <1>2, <1>3 DEF GrantInv
  <2>4. FoundInv(r)'
    BY <1>1, <1>2, <1>3 DEF FoundInv, localVars
  <2> QED BY <2>1, <2>2, <2>3, <2>4 DEF RequestInv
<1>8. \A q \in Requests : q # r => Untouched(q)
  BY <1>2, <1>3 DEF Untouched, localVars
<1> QED BY <1>4, <1>5, <1>6, <1>7, <1>8, StepAInv

LEMMA InsertedRow ==
  ASSUME AInv, NEW r \in Requests, NEW u \in Users, NEW m \in {"read", "write"},
         Inserted(r, u, m), UNCHANGED run
  PROVE  /\ access' \in [Keys -> [Users -> AccessRows \cup {None}]]
         /\ \A id \in Keys, v \in Users :
              access'[id][v] = IF id = target[r] /\ v = u THEN Row(r, m) ELSE access[id][v]
         /\ Row(r, m) # None /\ Row(r, m).by = r /\ Row(r, m).mode = m
         /\ access[target[r]][u] = None
         /\ Grows(r)
<1>1. Row(r, m) \in AccessRows /\ Row(r, m).by = r /\ Row(r, m).mode = m
  BY DEF Row, AccessRows
<1>2. Row(r, m) # None
  BY <1>1, NamesAssumption
<1>3. /\ access[target[r]][u] = None
      /\ access' = [access EXCEPT ![target[r]][u] = Row(r, m)]
  BY DEF Inserted
<1>4. /\ access' \in [Keys -> [Users -> AccessRows \cup {None}]]
      /\ \A id \in Keys, v \in Users :
           access'[id][v] = IF id = target[r] /\ v = u THEN Row(r, m) ELSE access[id][v]
  <2>1. /\ target[r] \in Keys
        /\ access \in [Keys -> [Users -> AccessRows \cup {None}]]
        /\ Row(r, m) \in AccessRows \cup {None}
    BY <1>1, Typed
  <2> QED BY <1>3, <2>1, NestedExcept
<1>5. Grows(r)
  BY <1>1, <1>3, <1>4 DEF Grows
<1> QED BY <1>1, <1>2, <1>3, <1>4, <1>5

LEMMA InsertAccessAInv == ASSUME AInv, NEW r \in Requests, InsertAccess(r) PROVE AInv'
<1>1. /\ pc[r] = "insertAccess" /\ op[r] = "create" /\ user[r] \in Users /\ result[r] = {}
      /\ run[target[r]] = user[r] /\ target[r] \in Keys
      /\ user[r] # None
  <2>1. pc[r] = "insertAccess" /\ RequestInv(r)
    BY DEF AInv, InsertAccess
  <2>2. op[r] = "create" /\ user[r] \in Users /\ run[target[r]] = user[r]
    BY <2>1 DEF RequestInv, EndpointInv, TargetInv, Statements
  <2>3. result[r] = {}
    BY <2>1 DEF RequestInv, FoundInv
  <2> QED BY <2>1, <2>2, <2>3, NamesAssumption, Typed
<1>2. UNCHANGED <<requestVars, localVars, cancelled, run>>
  BY DEF InsertAccess
<1>3. /\ pc' \in [Requests -> Statements \cup Settled \cup {"idle"}]
      /\ \A q \in Requests : q # r => pc'[q] = pc[q]
      /\ pc'[r] \in {"ok", "somethingWrong"}
  BY Typed DEF InsertAccess, Goto, Statements, Settled, Answers
<1>4. EndpointInv(r)' /\ GrantInv(r)' /\ FoundInv(r)'
  <2>1. EndpointInv(r)' /\ GrantInv(r)'
    BY <1>1, <1>2, <1>3 DEF EndpointInv, GrantInv, First, requestVars, Statements
  <2>2. FoundInv(r)'
    BY <1>1, <1>2, <1>3 DEF FoundInv, requestVars, localVars
  <2> QED BY <2>1, <2>2
<1>5. \A q \in Requests : q # r => Untouched(q)
  BY <1>2, <1>3 DEF Untouched, requestVars, localVars
<1>6. CASE UNCHANGED access /\ pc'[r] = "somethingWrong"
  <2>1. TypeOK'
    BY <1>1, <1>2, <1>3, <1>6 DEF AInv, TypeOK, requestVars, localVars
  <2>2. TargetInv(r)'
    BY <1>6 DEF TargetInv, CallerWrites
  <2> QED BY <1>2, <1>4, <1>5, <1>6, <2>1, <2>2, HandlerStep
             DEF RequestInv, requestVars, dbVars
<1>7. CASE Inserted(r, user[r], "write")
  <2>1. /\ access' \in [Keys -> [Users -> AccessRows \cup {None}]]
        /\ \A id \in Keys, v \in Users :
             access'[id][v] = IF id = target[r] /\ v = user[r] THEN Row(r, "write")
                                                               ELSE access[id][v]
        /\ Row(r, "write") # None /\ Row(r, "write").mode = "write"
        /\ Grows(r)
    BY <1>1, <1>2, <1>7, InsertedRow
  <2>2. TypeOK'
    BY <1>1, <1>2, <1>3, <2>1 DEF AInv, TypeOK, requestVars, localVars
  <2>3. RowsAreSound'
    BY <1>1, <1>2, <2>1 DEF AInv, TablesInv, RowsAreSound, RowIsSound
  <2>4. GrantsAreWarranted'
    <3>1. \A id \in Keys, v \in Users :
            access'[id][v] # None /\ access'[id][v].mode = "read" =>
              access'[id][v] = access[id][v]
      BY <2>1
    <3>2. op' = op /\ target' = target /\ list' = list
      BY <1>2 DEF requestVars
    <3>3. GrantsAreWarranted
      BY DEF AInv, TablesInv
    <3> QED BY <3>1, <3>2, <3>3 DEF GrantsAreWarranted
  <2>5. TablesInv'
    BY <1>2, <2>3, <2>4 DEF AInv, TablesInv
  <2>6. TargetInv(r)'
    BY <1>1, <1>2, <1>3, <2>1 DEF TargetInv, CallerWrites, requestVars
  <2> QED BY <1>4, <1>5, <2>1, <2>2, <2>5, <2>6, StepAInv DEF RequestInv
<1>8. \/ UNCHANGED access /\ pc'[r] = "somethingWrong"
      \/ Inserted(r, user[r], "write")
  BY Typed DEF InsertAccess, Goto
<1> QED BY <1>6, <1>7, <1>8

LEMMA CheckRunAInv == ASSUME AInv, NEW r \in Requests, CheckRun(r) PROVE AInv'
<1>1. /\ pc[r] = "checkRun" /\ op[r] = "share" /\ user[r] \in Users /\ result[r] = {}
      /\ NoRows(r) /\ RequestInv(r)
  BY DEF AInv, RequestInv, EndpointInv, GrantInv, FoundInv, CheckRun, Statements
<1>2. UNCHANGED <<requestVars, localVars, cancelled, dbVars>>
  BY DEF CheckRun
<1>3. /\ pc' \in [Requests -> Statements \cup Settled \cup {"idle"}]
      /\ \A q \in Requests : q # r => pc'[q] = pc[q]
      /\ \/ pc'[r] = "findUsers" /\ run[target[r]] # None
         \/ pc'[r] \in {"noSuchRun", "somethingWrong"}
  BY Typed DEF CheckRun, Goto, Statements, Settled, Answers
<1>4. TypeOK'
  BY <1>1, <1>2, <1>3 DEF AInv, TypeOK, requestVars, localVars, dbVars
<1>5. RequestInv(r)'
  <2>1. NoRows(r)'
    BY <1>1, <1>2 DEF NoRows, dbVars
  <2>2. EndpointInv(r)' /\ GrantInv(r)'
    BY <1>1, <1>2, <1>3, <2>1
       DEF EndpointInv, GrantInv, First, requestVars, Statements
  <2>3. TargetInv(r)'
    BY <1>1, <1>2, <1>3 DEF RequestInv, TargetInv, CallerWrites, requestVars, dbVars
  <2>4. FoundInv(r)'
    BY <1>1, <1>2, <1>3 DEF FoundInv, requestVars, localVars
  <2> QED BY <2>2, <2>3, <2>4 DEF RequestInv
<1>6. \A q \in Requests : q # r => Untouched(q)
  BY <1>2, <1>3 DEF Untouched, requestVars, localVars
<1> QED BY <1>1, <1>2, <1>4, <1>5, <1>6, HandlerStep DEF dbVars

\* A query changes ids and cut of its request only.
LEMMA RowsRead ==
  ASSUME AInv, NEW r \in Requests, NEW all \in SUBSET (Keys \cup Users), Rows(r, all)
  PROVE  /\ ids' \in [Requests -> SUBSET (Keys \cup Users)]
         /\ ids'[r] \subseteq all
         /\ r \notin cut' => ids'[r] = all /\ r \notin cut
         /\ cut' \subseteq Requests
         /\ \A q \in Requests : q # r => ids'[q] = ids[q] /\ (q \in cut' <=> q \in cut)
<1>1. /\ \E got \in SUBSET all : ids' = [ids EXCEPT ![r] = got] /\ (got = all \/ r \in cut')
      /\ cut' = cut \/ cut' = cut \cup {r}
  BY DEF Rows
<1>2. cut \subseteq Requests
  BY DEF AInv, TypeOK
<1> QED BY <1>1, <1>2, Typed

LEMMA FindUsersAInv == ASSUME AInv, NEW r \in Requests, FindUsers(r) PROVE AInv'
<1>1. /\ pc[r] = "findUsers" /\ op[r] = "share" /\ user[r] \in Users /\ result[r] = {}
      /\ NoRows(r) /\ RequestInv(r) /\ run[target[r]] # None
  BY DEF AInv, RequestInv, EndpointInv, TargetInv, GrantInv, FoundInv, FindUsers, Statements
<1>2. UNCHANGED <<requestVars, result, before, cancelled, dbVars>>
  BY DEF FindUsers
<1>3. Addressed(r) \in SUBSET Users
  <2>1. ToSet(list[r]) \subseteq Emails
    BY Typed DEF ToSet
  <2> QED BY <2>1, UserOfAssumption DEF Addressed
<1>4. /\ ids' \in [Requests -> SUBSET (Keys \cup Users)]
      /\ cut' \subseteq Requests
      /\ \A q \in Requests : q # r => ids'[q] = ids[q] /\ (q \in cut' <=> q \in cut)
  <2>1. CASE Rows(r, Addressed(r))
    BY <1>3, <2>1, RowsRead
  <2>2. CASE UNCHANGED <<ids, cut>>
    BY <2>2 DEF AInv, TypeOK
  <2> QED BY <2>1, <2>2 DEF FindUsers
<1>5. /\ pc' \in [Requests -> Statements \cup Settled \cup {"idle"}]
      /\ \A q \in Requests : q # r => pc'[q] = pc[q]
      /\ \/ /\ pc'[r] = "insertGrant"
            /\ Rows(r, Addressed(r)) /\ CountMatches(r, ids'[r])
         \/ pc'[r] \in {"someDoNotExist", "somethingWrong"}
  BY Typed DEF FindUsers, Goto, Statements, Settled, Answers
<1>6. ASSUME pc'[r] = "insertGrant"
      PROVE  /\ ids'[r] \in (SUBSET Users) \ {{}}
             /\ ListExists(r)'
             /\ \A e \in ToSet(list'[r]) : UserOf[e] \in ids'[r]
             /\ \A u \in ids'[r] : \E e \in ToSet(list'[r]) : UserOf[e] = u
  <2>1. Rows(r, Addressed(r)) /\ CountMatches(r, ids'[r])
    BY <1>5, <1>6
  <2>2. /\ ids'[r] \subseteq {UserOf[e] : e \in ToSet(list[r])} \ {None}
        /\ ids'[r] \subseteq Users
        /\ ids'[r] # {} /\ Cardinality(ids'[r]) = Len(list[r])
    <3>1. ids'[r] \subseteq Addressed(r)
      BY <1>3, <2>1, RowsRead
    <3> QED BY <1>3, <2>1, <3>1 DEF Addressed, CountMatches
  <2>3. \A i, j \in DOMAIN list[r] :
          UserOf[list[r][i]] \in ids'[r] /\ (i # j => list[r][i] # list[r][j])
    <3>1. list[r] \in Seq(Emails)
      BY Typed
    <3> QED BY <2>2, <3>1, AllDistinct
  <2>4. list' = list
    BY <1>2 DEF requestVars
  <2>5. ids'[r] \in (SUBSET Users) \ {{}}
    BY <2>2
  <2>6. ListExists(r)'
    BY <2>2, <2>3, <2>4 DEF ListExists
  <2>7. \A e \in ToSet(list[r]) : UserOf[e] \in ids'[r]
    BY <2>3 DEF ToSet
  <2> QED BY <2>2, <2>4, <2>5, <2>6, <2>7
<1>7. TypeOK'
  BY <1>2, <1>4, <1>5, <1>6 DEF AInv, TypeOK, requestVars, dbVars
<1>8. RequestInv(r)'
  <2>1. NoRows(r)'
    BY <1>1, <1>2 DEF NoRows, dbVars
  <2>2. EndpointInv(r)'
    BY <1>1, <1>2, <1>5 DEF EndpointInv, First, requestVars, Statements
  <2>3. TargetInv(r)'
    BY <1>1, <1>2, <1>5 DEF RequestInv, TargetInv, CallerWrites, requestVars, dbVars
  <2>4. GrantInv(r)'
    BY <1>5, <1>6, <2>1 DEF GrantInv
  <2>5. FoundInv(r)'
    BY <1>1, <1>2, <1>5 DEF FoundInv, requestVars
  <2> QED BY <2>2, <2>3, <2>4, <2>5 DEF RequestInv
<1>9. \A q \in Requests : q # r => Untouched(q)
  BY <1>2, <1>4, <1>5 DEF Untouched, requestVars
<1> QED BY <1>1, <1>2, <1>7, <1>8, <1>9, HandlerStep DEF dbVars

LEMMA InsertGrantAInv == ASSUME AInv, NEW r \in Requests, InsertGrant(r) PROVE AInv'
<1>1. /\ pc[r] = "insertGrant" /\ op[r] = "share" /\ user[r] \in Users /\ result[r] = {}
      /\ run[target[r]] # None /\ target[r] \in Keys
      /\ ids[r] \in (SUBSET Users) \ {{}} /\ RequestInv(r)
  <2>1. pc[r] = "insertGrant" /\ RequestInv(r)
    BY DEF AInv, InsertGrant
  <2>2. /\ op[r] = "share" /\ user[r] \in Users /\ result[r] = {}
        /\ run[target[r]] # None /\ target[r] \in Keys
    BY <2>1, Typed DEF RequestInv, EndpointInv, TargetInv, FoundInv, Statements
  <2> QED BY <2>1, <2>2 DEF AInv, TypeOK
<1>2. UNCHANGED <<requestVars, result, before, cut, cancelled, run>>
  BY DEF InsertGrant
<1>3. /\ pc' \in [Requests -> Statements \cup Settled \cup {"idle"}]
      /\ \A q \in Requests : q # r => pc'[q] = pc[q] /\ ids'[q] = ids[q]
      /\ ids' \in [Requests -> SUBSET (Keys \cup Users)]
      /\ ids'[r] \subseteq ids[r]
      /\ pc'[r] \in {"ok", "insertGrant", "alreadyShared"}
      /\ pc'[r] = "insertGrant" => ids'[r] # {}
      /\ pc'[r] = "ok" => ids'[r] = {}
  <2> USE Typed DEF Goto, Statements, Settled, Answers
  <2>1. CASE UNCHANGED ids /\ Goto(r, "alreadyShared")
    BY <2>1
  <2>2. CASE \E u \in ids[r] :
               /\ ids' = [ids EXCEPT ![r] = @ \ {u}]
               /\ IF ids'[r] = {} THEN Goto(r, "ok") ELSE UNCHANGED pc
    <3>1. PICK u \in ids[r] : ids' = [ids EXCEPT ![r] = ids[r] \ {u}]
      BY <2>2
    <3>2. ids[r] \ {u} \in SUBSET (Keys \cup Users)
      OBVIOUS
    <3>3. /\ ids' \in [Requests -> SUBSET (Keys \cup Users)]
          /\ ids'[r] = ids[r] \ {u}
          /\ \A q \in Requests : q # r => ids'[q] = ids[q]
      BY <3>1, <3>2
    <3>4. CASE ids'[r] = {} /\ Goto(r, "ok")
      BY <3>3, <3>4
    <3>5. CASE ids'[r] # {} /\ UNCHANGED pc
      BY <1>1, <3>3, <3>5
    <3> QED BY <2>2, <3>4, <3>5
  <2> QED BY <2>1, <2>2 DEF InsertGrant
<1>4. EndpointInv(r)'
  BY <1>1, <1>2, <1>3 DEF EndpointInv, First, requestVars, Statements
<1>5. FoundInv(r)'
  BY <1>1, <1>2, <1>3 DEF FoundInv, requestVars
<1>6. \A q \in Requests : q # r => Untouched(q)
  BY <1>2, <1>3 DEF Untouched, requestVars
<1>7. CASE UNCHANGED <<ids, access>> /\ pc'[r] = "alreadyShared"
  <2>1. TypeOK'
    BY <1>2, <1>3, <1>7 DEF AInv, TypeOK, requestVars
  <2>2. TargetInv(r)'
    BY <1>1, <1>2, <1>7 DEF TargetInv, CallerWrites, requestVars
  <2>3. GrantInv(r)'
    BY <1>7 DEF GrantInv, Refused
  <2> QED BY <1>2, <1>4, <1>5, <1>6, <1>7, <2>1, <2>2, <2>3, HandlerStep
             DEF RequestInv, requestVars, dbVars
<1>8. ASSUME NEW u \in ids[r], Inserted(r, u, "read"),
             ids'[r] = ids[r] \ {u} \/ pc'[r] = "alreadyShared"
      PROVE  AInv'
  <2>1. /\ u \in Users
        /\ access' \in [Keys -> [Users -> AccessRows \cup {None}]]
        /\ \A id \in Keys, v \in Users :
             access'[id][v] = IF id = target[r] /\ v = u THEN Row(r, "read") ELSE access[id][v]
        /\ Row(r, "read") # None /\ Row(r, "read").by = r
        /\ access[target[r]][u] = None
        /\ Grows(r)
    BY <1>1, <1>2, <1>8, InsertedRow
  <2>2. TypeOK'
    BY <1>1, <1>2, <1>3, <2>1 DEF AInv, TypeOK, requestVars
  <2>4. RowsAreSound'
    <3>1. Row(r, "read").mode # "write"
      BY DEF Row
    <3> QED BY <1>1, <1>2, <2>1, <3>1 DEF AInv, TablesInv, RowsAreSound, RowIsSound
  <2>5. /\ ListExists(r)
        /\ \A e \in ToSet(list[r]) : UserOf[e] \in ids[r] \/ Granted(r, UserOf[e])
        /\ \A v \in ids[r] : \E e \in ToSet(list[r]) : UserOf[e] = v
    BY <1>1 DEF RequestInv, GrantInv
  <2>6. GrantsAreWarranted'
    <3>1. SUFFICES ASSUME NEW id \in Keys, NEW v \in Users,
                          access'[id][v] # None, access'[id][v].mode = "read"
                   PROVE  LET q == access'[id][v].by IN
                            /\ op'[q] = "share"
                            /\ target'[q] = id
                            /\ \E e \in ToSet(list'[q]) : UserOf[e] = v
                            /\ \A i, j \in DOMAIN list'[q] :
                                 /\ UserOf[list'[q][i]] # None
                                 /\ i # j => list'[q][i] # list'[q][j]
      BY DEF GrantsAreWarranted
    <3>2. op' = op /\ target' = target /\ list' = list
      BY <1>2 DEF requestVars
    <3>3. CASE id = target[r] /\ v = u
      <4>1. access'[id][v].by = r
        BY <2>1, <3>3
      <4> QED BY <1>1, <2>5, <3>2, <3>3, <4>1 DEF ListExists
    <3>4. CASE ~(id = target[r] /\ v = u)
      <4>1. access'[id][v] = access[id][v]
        BY <2>1, <3>4
      <4> QED BY <3>1, <3>2, <4>1 DEF AInv, TablesInv, GrantsAreWarranted
    <3> QED BY <3>3, <3>4
  <2>7. TablesInv'
    BY <1>2, <2>4, <2>6 DEF AInv, TablesInv
  <2>8. TargetInv(r)'
    BY <1>1, <1>2, <1>3 DEF TargetInv, CallerWrites, requestVars
  <2>9. GrantInv(r)'
    <3>1. list' = list /\ target' = target /\ op' = op
      BY <1>2 DEF requestVars
    <3>2. \A e \in ToSet(list[r]) : UserOf[e] \in Users
      <4>1. list[r] \in Seq(Emails)
        BY Typed
      <4>2. \A e \in ToSet(list[r]) : e \in Emails /\ \E i \in DOMAIN list[r] : list[r][i] = e
        BY <4>1 DEF ToSet
      <4> QED BY <2>5, <4>2, UserOfAssumption DEF ListExists
    <3>3. \A v \in Users : Granted(r, v) \/ v = u => Granted(r, v)'
      BY <1>1, <2>1, <3>1 DEF Granted
    <3>4. pc'[r] # "alreadyShared" =>
            \A e \in ToSet(list[r]) : UserOf[e] \in ids'[r] \/ Granted(r, UserOf[e])'
      BY <1>8, <2>5, <3>2, <3>3
    <3>5. \A e \in ToSet(list[r]) : UserOf[e] # None
      BY <3>2, NamesAssumption
    <3>6. ListExists(r)'
      BY <2>5, <3>1 DEF ListExists
    <3> QED BY <1>3, <2>5, <3>1, <3>4, <3>5, <3>6 DEF GrantInv, Refused
  <2> QED BY <1>4, <1>5, <1>6, <2>1, <2>2, <2>7, <2>8, <2>9, StepAInv DEF RequestInv
<1>9. \/ UNCHANGED <<ids, access>> /\ pc'[r] = "alreadyShared"
      \/ \E u \in ids[r] : /\ Inserted(r, u, "read")
                           /\ ids'[r] = ids[r] \ {u} \/ pc'[r] = "alreadyShared"
  BY Typed DEF InsertGrant, Goto
<1> QED BY <1>7, <1>8, <1>9

LEMMA QueryAccessAInv == ASSUME AInv, NEW r \in Requests, QueryAccess(r) PROVE AInv'
<1>1. /\ pc[r] = "queryAccess" /\ op[r] = "list" /\ user[r] \in Users /\ result[r] = {}
      /\ before[r] \subseteq Accessible(user[r])
  BY DEF AInv, RequestInv, EndpointInv, FoundInv, QueryAccess, Statements
<1>2. /\ UNCHANGED <<requestVars, result, before, cancelled, dbVars>>
      /\ Accessible(user[r])' = Accessible(user[r])
  BY DEF QueryAccess, Accessible, requestVars, dbVars
<1>3. /\ pc' \in [Requests -> Statements \cup Settled \cup {"idle"}]
      /\ \A q \in Requests : q # r => pc'[q] = pc[q]
      /\ \/ /\ Rows(r, Accessible(user[r]))
            /\ IF ids'[r] = {} THEN pc'[r] = "ok" ELSE pc'[r] = "queryRuns"
         \/ UNCHANGED <<ids, cut>> /\ pc'[r] = "somethingWrong"
  BY Typed DEF QueryAccess, Goto, Statements, Settled, Answers
<1>4. /\ ids' \in [Requests -> SUBSET (Keys \cup Users)]
      /\ cut' \subseteq Requests
      /\ \A q \in Requests : q # r => ids'[q] = ids[q] /\ (q \in cut' <=> q \in cut)
      /\ pc'[r] # "somethingWrong" =>
           /\ ids'[r] \subseteq Accessible(user[r])
           /\ r \notin cut' => ids'[r] = Accessible(user[r])
  <2>1. CASE Rows(r, Accessible(user[r]))
    <3>1. Accessible(user[r]) \in SUBSET (Keys \cup Users)
      BY DEF Accessible
    <3> QED BY <2>1, <3>1, RowsRead
  <2>2. CASE UNCHANGED <<ids, cut>> /\ pc'[r] = "somethingWrong"
    BY <2>2 DEF AInv, TypeOK
  <2> QED BY <1>3, <2>1, <2>2
<1>5. pc'[r] \in {"ok", "queryRuns", "somethingWrong"}
  BY <1>3
<1>6. TypeOK'
  BY <1>2, <1>3, <1>4, <1>5 DEF AInv, TypeOK, requestVars, dbVars
<1>7. RequestInv(r)'
  <2>1. EndpointInv(r)' /\ TargetInv(r)' /\ GrantInv(r)'
    BY <1>1, <1>2, <1>5
       DEF EndpointInv, TargetInv, CallerWrites, GrantInv, First, requestVars, Statements
  <2>2. pc'[r] = "ok" => ids'[r] = {}
    BY <1>3
  <2>3. FoundInv(r)'
    BY <1>1, <1>2, <1>4, <1>5, <2>2 DEF FoundInv, requestVars
  <2> QED BY <2>1, <2>3 DEF RequestInv
<1>8. \A q \in Requests : q # r => Untouched(q)
  BY <1>2, <1>3, <1>4 DEF Untouched, requestVars
<1> QED BY <1>2, <1>6, <1>7, <1>8, HandlerStep DEF requestVars

LEMMA QueryRunsAInv == ASSUME AInv, NEW r \in Requests, QueryRuns(r) PROVE AInv'
<1>1. /\ pc[r] = "queryRuns" /\ op[r] = "list" /\ user[r] \in Users /\ result[r] = {}
      /\ ids[r] \subseteq Accessible(user[r])
      /\ r \notin cut => before[r] \subseteq ids[r]
  BY DEF AInv, RequestInv, EndpointInv, FoundInv, QueryRuns, Statements
<1>2. /\ UNCHANGED <<requestVars, before, cancelled, dbVars>>
      /\ Accessible(user[r])' = Accessible(user[r])
  BY DEF QueryRuns, Accessible, requestVars, dbVars
<1>3. FoundRuns(r) = ids[r] /\ ids[r] \in SUBSET RunIds
  <2>1. \A id \in ids[r] : id \in Keys /\ run[id] # None
    BY <1>1 DEF AInv, TablesInv, RowsAreSound, RowIsSound, Accessible
  <2> QED BY <2>1 DEF FoundRuns, AInv, TablesInv, Keys
<1>4. /\ pc' \in [Requests -> Statements \cup Settled \cup {"idle"}]
      /\ result' \in [Requests -> SUBSET RunIds]
      /\ \A q \in Requests : q # r => pc'[q] = pc[q] /\ result'[q] = result[q]
      /\ ids' \in [Requests -> SUBSET (Keys \cup Users)]
      /\ cut' \subseteq Requests
      /\ \A q \in Requests : q # r => ids'[q] = ids[q] /\ (q \in cut' <=> q \in cut)
      /\ \/ /\ pc'[r] = "ok"
            /\ result'[r] \subseteq ids[r]
            /\ r \notin cut' => result'[r] = ids[r] /\ r \notin cut
         \/ pc'[r] = "somethingWrong" /\ result'[r] = {}
  <2>1. CASE /\ Rows(r, FoundRuns(r)) /\ result' = [result EXCEPT ![r] = ids'[r]]
             /\ Goto(r, "ok")
    <3>1. FoundRuns(r) \in SUBSET (Keys \cup Users)
      BY <1>3 DEF Keys
    <3>2. /\ ids' \in [Requests -> SUBSET (Keys \cup Users)]
          /\ ids'[r] \subseteq ids[r]
          /\ r \notin cut' => ids'[r] = ids[r] /\ r \notin cut
          /\ cut' \subseteq Requests
          /\ \A q \in Requests : q # r => ids'[q] = ids[q] /\ (q \in cut' <=> q \in cut)
      BY <1>3, <2>1, <3>1, RowsRead
    <3>3. ids'[r] \in SUBSET RunIds
      BY <1>3, <3>2
    <3>4. /\ result' \in [Requests -> SUBSET RunIds]
          /\ result'[r] = ids'[r]
          /\ \A q \in Requests : q # r => result'[q] = result[q]
      BY <2>1, <3>3, Typed
    <3>5. /\ pc' \in [Requests -> Statements \cup Settled \cup {"idle"}]
          /\ pc'[r] = "ok" /\ \A q \in Requests : q # r => pc'[q] = pc[q]
      BY <2>1, Typed DEF Goto, Settled, Answers
    <3> QED BY <3>2, <3>4, <3>5
  <2>2. CASE Goto(r, "somethingWrong") /\ UNCHANGED <<ids, cut, result>>
    <3>1. cut \subseteq Requests
      BY DEF AInv, TypeOK
    <3> QED BY <1>1, <2>2, <3>1, Typed DEF Goto, Settled, Answers
  <2> QED BY <2>1, <2>2 DEF QueryRuns
<1>5. pc'[r] \in {"ok", "somethingWrong"}
  BY <1>4
<1>6. TypeOK'
  BY <1>2, <1>4, <1>5 DEF AInv, TypeOK, requestVars, dbVars
<1>7. RequestInv(r)'
  <2>1. EndpointInv(r)' /\ TargetInv(r)' /\ GrantInv(r)'
    BY <1>1, <1>2, <1>5
       DEF EndpointInv, TargetInv, CallerWrites, GrantInv, First, requestVars, Statements
  <2>2. FoundInv(r)'
    BY <1>1, <1>2, <1>4, <1>5 DEF FoundInv, requestVars
  <2> QED BY <2>1, <2>2 DEF RequestInv
<1>8. \A q \in Requests : q # r => Untouched(q)
  BY <1>2, <1>4 DEF Untouched, requestVars
<1> QED BY <1>2, <1>6, <1>7, <1>8, HandlerStep DEF requestVars

LEMMA CheckAccessAInv == ASSUME AInv, NEW r \in Requests, CheckAccess(r) PROVE AInv'
<1>1. /\ pc[r] = "checkAccess" /\ op[r] = "show" /\ user[r] \in Users /\ result[r] = {}
  BY DEF AInv, RequestInv, EndpointInv, FoundInv, CheckAccess, Statements
<1>2. /\ UNCHANGED <<requestVars, localVars, cancelled, dbVars>>
      /\ Accessible(user[r])' = Accessible(user[r])
  BY DEF CheckAccess, Accessible, requestVars, dbVars
<1>3. /\ pc' \in [Requests -> Statements \cup Settled \cup {"idle"}]
      /\ \A q \in Requests : q # r => pc'[q] = pc[q]
      /\ \/ pc'[r] = "readRun" /\ target[r] \in Accessible(user[r])
         \/ pc'[r] \in {"noSuchRun", "somethingWrong"}
  BY Typed DEF CheckAccess, Goto, Statements, Settled, Answers
<1>4. TypeOK'
  BY <1>1, <1>2, <1>3 DEF AInv, TypeOK, requestVars, localVars, dbVars
<1>5. RequestInv(r)'
  <2>1. EndpointInv(r)' /\ TargetInv(r)' /\ GrantInv(r)'
    BY <1>1, <1>2, <1>3
       DEF EndpointInv, TargetInv, CallerWrites, GrantInv, First, requestVars, Statements
  <2>2. FoundInv(r)'
    BY <1>1, <1>2, <1>3 DEF FoundInv, requestVars, localVars
  <2> QED BY <2>1, <2>2 DEF RequestInv
<1>6. \A q \in Requests : q # r => Untouched(q)
  BY <1>2, <1>3 DEF Untouched, requestVars, localVars
<1> QED BY <1>2, <1>4, <1>5, <1>6, HandlerStep DEF requestVars

LEMMA ReadRunAInv == ASSUME AInv, NEW r \in Requests, ReadRun(r) PROVE AInv'
<1>1. /\ pc[r] = "readRun" /\ op[r] = "show" /\ user[r] \in Users /\ result[r] = {}
      /\ target[r] \in Accessible(user[r]) /\ target[r] \in Keys
  BY Typed DEF AInv, RequestInv, EndpointInv, FoundInv, ReadRun, Statements
<1>2. /\ UNCHANGED <<requestVars, ids, before, cut, cancelled, dbVars>>
      /\ Accessible(user[r])' = Accessible(user[r])
  BY DEF ReadRun, Accessible, requestVars, dbVars
<1>3. run[NoRun] = None
  BY DEF AInv, TablesInv
<1>4. /\ pc' \in [Requests -> Statements \cup Settled \cup {"idle"}]
      /\ result' \in [Requests -> SUBSET RunIds]
      /\ \A q \in Requests : q # r => pc'[q] = pc[q] /\ result'[q] = result[q]
      /\ \/ pc'[r] = "ok" /\ result'[r] = {target[r]}
         \/ pc'[r] = "somethingWrong" /\ result'[r] = {}
  <2>1. run[target[r]] # None => {target[r]} \in SUBSET RunIds
    BY <1>1, <1>3 DEF Keys
  <2>2. CASE /\ run[target[r]] # None /\ result' = [result EXCEPT ![r] = {target[r]}]
             /\ Goto(r, "ok")
    <3>1. /\ result' \in [Requests -> SUBSET RunIds] /\ result'[r] = {target[r]}
          /\ \A q \in Requests : q # r => result'[q] = result[q]
      BY <2>1, <2>2, Typed
    <3>2. /\ pc' \in [Requests -> Statements \cup Settled \cup {"idle"}]
          /\ pc'[r] = "ok" /\ \A q \in Requests : q # r => pc'[q] = pc[q]
      BY <2>2, Typed DEF Goto, Settled, Answers
    <3> QED BY <3>1, <3>2
  <2>3. CASE UNCHANGED result /\ Goto(r, "somethingWrong")
    BY <1>1, <2>3, Typed DEF Goto, Settled, Answers
  <2> QED BY <2>2, <2>3 DEF ReadRun
<1>5. pc'[r] \in {"ok", "somethingWrong"}
  BY <1>4
<1>6. TypeOK'
  BY <1>2, <1>4, <1>5 DEF AInv, TypeOK, requestVars, dbVars
<1>7. RequestInv(r)'
  <2>1. EndpointInv(r)' /\ TargetInv(r)' /\ GrantInv(r)'
    BY <1>1, <1>2, <1>5
       DEF EndpointInv, TargetInv, CallerWrites, GrantInv, First, requestVars, Statements
  <2>2. FoundInv(r)'
    BY <1>1, <1>2, <1>4, <1>5 DEF FoundInv, requestVars
  <2> QED BY <2>1, <2>2 DEF RequestInv
<1>8. \A q \in Requests : q # r => Untouched(q)
  BY <1>2, <1>4 DEF Untouched, requestVars
<1> QED BY <1>2, <1>6, <1>7, <1>8, HandlerStep DEF requestVars

\* A dead handler has inserted what it had, and answers nothing.
LEMMA CrashAInv == ASSUME AInv, Crash PROVE AInv'
<1>1. /\ pc' \in [Requests -> Statements \cup Settled \cup {"idle"}]
      /\ UNCHANGED <<requestVars, localVars, cancelled, dbVars>>
      /\ \A r \in Requests : IF pc[r] \in Statements THEN pc'[r] = "dead" ELSE pc'[r] = pc[r]
  <2>1. pc \in [Requests -> Statements \cup Settled \cup {"idle"}]
    BY DEF AInv, TypeOK
  <2> QED BY <2>1 DEF Crash, Settled
<1>2. TypeOK'
  BY <1>1 DEF AInv, TypeOK, requestVars, localVars, dbVars
<1>3. TablesInv'
  <2>1. UNCHANGED <<op, target, list, run, access>>
    BY <1>1 DEF requestVars, dbVars
  <2> QED BY <2>1 DEF AInv, TablesInv, RowsAreSound, RowIsSound, GrantsAreWarranted
<1>4. ASSUME NEW r \in Requests PROVE RequestInv(r)'
  <2>1. RequestInv(r)
    BY DEF AInv
  <2>2. CASE pc[r] \in Statements
    <3>1. /\ pc'[r] = "dead" /\ pc[r] # "idle" /\ pc[r] # "ok"
          /\ UNCHANGED <<op, target, user, result, run, access>>
      BY <1>1, <2>2 DEF Statements, requestVars, localVars, dbVars
    <3>2. EndpointInv(r)' /\ GrantInv(r)' /\ FoundInv(r)'
      BY <2>1, <3>1 DEF RequestInv, EndpointInv, GrantInv, FoundInv, Statements, Refused
    <3>3. TargetInv(r)'
      BY <2>1, <3>1 DEF RequestInv, TargetInv, CallerWrites
    <3> QED BY <3>2, <3>3 DEF RequestInv
  <2>3. CASE pc[r] \notin Statements
    <3>1. /\ pc'[r] = pc[r]
          /\ UNCHANGED <<op, target, list, user, ids, result, before, cut, run, access>>
      BY <1>1, <2>3 DEF requestVars, localVars, dbVars
    <3>2. EndpointInv(r)' /\ TargetInv(r)'
      BY <2>1, <3>1 DEF RequestInv, EndpointInv, TargetInv, CallerWrites
    <3>3. GrantInv(r)'
      BY <2>1, <3>1 DEF RequestInv, GrantInv, NoRows, ListExists, Granted
    <3>4. FoundInv(r)'
      BY <2>1, <3>1 DEF RequestInv, FoundInv, Accessible
    <3> QED BY <3>2, <3>3, <3>4 DEF RequestInv
  <2> QED BY <2>2, <2>3
<1> QED BY <1>2, <1>3, <1>4 DEF AInv

\* The invariant reads nothing of the contexts.
LEMMA CancelAInv ==
  ASSUME AInv, UNCHANGED <<pc, requestVars, localVars, dbVars>>,
         cancelled' \subseteq Requests
  PROVE  AInv'
<1>1. UNCHANGED <<pc, op, target, list, user, ids, result, before, cut, run, access>>
  BY DEF requestVars, localVars, dbVars
<1>2. TypeOK'
  BY <1>1 DEF AInv, TypeOK
<1>3. TablesInv'
  BY <1>1 DEF AInv, TablesInv, RowsAreSound, RowIsSound, GrantsAreWarranted
<1>4. ASSUME NEW r \in Requests PROVE RequestInv(r)'
  <2>1. RequestInv(r)
    BY DEF AInv
  <2>2. EndpointInv(r)' /\ TargetInv(r)'
    BY <1>1, <2>1 DEF RequestInv, EndpointInv, TargetInv, CallerWrites
  <2>3. GrantInv(r)'
    BY <1>1, <2>1 DEF RequestInv, GrantInv, NoRows, ListExists, Granted
  <2>4. FoundInv(r)'
    BY <1>1, <2>1 DEF RequestInv, FoundInv, Accessible
  <2> QED BY <2>2, <2>3, <2>4 DEF RequestInv
<1> QED BY <1>2, <1>3, <1>4 DEF AInv

-----------------------------------------------------------------------------
(* The theorems.                                                           *)

LEMMA NextAInv == AInv /\ [Next]_vars => AInv'
<1> SUFFICES ASSUME AInv, [Next]_vars PROVE AInv'
  OBVIOUS
<1>1. ASSUME NEW r \in Requests,
             CreateRun(r) \/ ShareRun(r) \/ UserRuns(r) \/ UserRun(r) PROVE AInv'
  BY <1>1, ArriveAInv
<1>2. ASSUME NEW r \in Requests, Step(r) PROVE AInv'
  BY <1>2, AuthAInv, InsertRunAInv, InsertAccessAInv, CheckRunAInv, FindUsersAInv,
     InsertGrantAInv, QueryAccessAInv, QueryRunsAInv, CheckAccessAInv, ReadRunAInv DEF Step
<1>3. ASSUME NEW r \in Requests, Cancel(r) PROVE AInv'
  <2>1. cancelled' \subseteq Requests
    BY <1>3 DEF Cancel, AInv, TypeOK
  <2> QED BY <1>3, <2>1, CancelAInv DEF Cancel
<1>4. CASE Crash
  BY <1>4, CrashAInv
<1>5. CASE UNCHANGED vars
  <2>1. cancelled' \subseteq Requests
    BY <1>5 DEF vars, AInv, TypeOK
  <2> QED BY <1>5, <2>1, CancelAInv DEF vars
<1> QED BY <1>1, <1>2, <1>3, <1>4, <1>5 DEF Next, Quiescent

\* AInv holds of every reachable state: modules/run.go keeps the two tables and what
\* each of its handlers knows of them consistent.
THEOREM RunAccessInvariance == Spec => []AInv
BY InitAInv, NextAInv, PTL DEF Spec

\* The variables keep their types, and the loop of grants always has an account left.
THEOREM RunAccessTypes == Spec => []TypeOK
<1>1. AInv => TypeOK
  BY DEF AInv
<1> QED BY <1>1, RunAccessInvariance, PTL

\* Write access to a run is its creator's alone, and a submission that goes on behind
\* its INSERTs has made its caller the writer, whatever shares come between them.
THEOREM CreatorsWrite == Spec => []CreatorIsWriter
<1>1. AInv => CreatorIsWriter
  BY DEF AInv, TablesInv, RequestInv, TargetInv, RowsAreSound, CreatorIsWriter
<1> QED BY <1>1, RunAccessInvariance, PTL

\* Every row of mode read goes back to a request to share that very run, of which
\* all addresses belong to accounts, one each.
THEOREM SharesAreWarranted == Spec => []GrantsAreWarranted
<1>1. AInv => GrantsAreWarranted
  BY DEF AInv, TablesInv
<1> QED BY <1>1, RunAccessInvariance, PTL

\* ShareRun answers "Run shared." only when everybody addressed exists and has access.
THEOREM SharedMeansShared == Spec => []SharedWithAll
<1>1. ASSUME AInv, NEW r \in Requests, op[r] = "share", pc[r] = "ok",
             NEW e \in ToSet(list[r])
      PROVE  UserOf[e] # None /\ target[r] \in Accessible(UserOf[e])
  BY <1>1, Typed DEF AInv, RequestInv, GrantInv, Granted, Accessible
<1>2. AInv => SharedWithAll
  BY <1>1 DEF SharedWithAll
<1> QED BY <1>2, RunAccessInvariance, PTL

\* A share refused because of its body, its run or its addresses left no row.
THEOREM RefusalsLeaveNothing == Spec => []RefusedSharesNothing
<1>1. AInv => RefusedSharesNothing
  BY DEF AInv, RequestInv, GrantInv, NoRows, Refused, RefusedSharesNothing
<1> QED BY <1>1, RunAccessInvariance, PTL

\* UserRuns and UserRun answer with runs that the caller has access to.
THEOREM AnswersAreAccessible == Spec => []AnswersOnlyAccessible
<1>1. AInv => AnswersOnlyAccessible
  BY DEF AInv, RequestInv, FoundInv, AnswersOnlyAccessible
<1> QED BY <1>1, RunAccessInvariance, PTL

\* UserRuns leaves out no run that the caller could see when it began, unless one of
\* its queries broke off.
THEOREM ListsAreComplete == Spec => []ListIsComplete
<1>1. AInv => ListIsComplete
  BY DEF AInv, RequestInv, FoundInv, ListIsComplete
<1> QED BY <1>1, RunAccessInvariance, PTL
=============================================================================
