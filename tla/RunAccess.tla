------------------------------ MODULE RunAccess ------------------------------
(***************************************************************************)
(* Who may see a run: the handlers ShareRun, UserRuns and UserRun of       *)
(* modules/run.go beside handlers that create runs.                        *)
(*                                                                         *)
(* Every handler sends its SQL statements one by one, each a transaction   *)
(* of its own, so that an action below is one statement.  A query may fail *)
(* before it returns a row, or break off in between: rows.Next then says   *)
(* that there are no more rows, and nobody asks rows.Err.  An INSERT may   *)
(* be committed and its reply lost.                                        *)
(*                                                                         *)
(* Of a submission only the two INSERTs that touch these tables are here;  *)
(* RunSubmission has the rest.                                             *)
(***************************************************************************)
EXTENDS Integers, FiniteSets, Sequences, SequencesExt

CONSTANTS
  Requests,    \* the requests that clients may send
  Users,       \* the accounts of the table users
  RunIds,      \* the identifiers the database may give to a run
  NoRun,       \* an identifier that no run has
  Emails,      \* the addresses that clients type
  UserOf,      \* address -> the account it belongs to, or None
  Lists,       \* the values of userEmailList, sequences of addresses
  DbFails,     \* may a statement fail for a reason of its own?
  None

\* The rows of the table access, without their key.
Row(r, m) == [by |-> r, mode |-> m]
AccessRows == [by : Requests, mode : {"read", "write"}]

ASSUME NamesAssumption == None \notin Users \cup AccessRows /\ NoRun \notin RunIds
ASSUME UserOfAssumption ==
  /\ UserOf \in [Emails -> Users \cup {None}]
  /\ \A e, f \in Emails : UserOf[e] = UserOf[f] => e = f \/ UserOf[e] = None
ASSUME ListsAssumption == Lists \subseteq Seq(Emails)
ASSUME DbFailsAssumption == DbFails \in BOOLEAN

VARIABLES
  pc,         \* request -> the statement its handler sends next, or its answer
  op,         \* request -> "create", "share", "list" or "show"
  target,     \* request -> the runID of the body; of a creation, the one returned
  list,       \* request -> userEmailList
  user,       \* request -> the caller
  ids,        \* request -> userIDs still to grant, or runIDs to look up
  result,     \* request -> the identifiers of the runs in the answer
  before,     \* history: the runs the caller could see when the handler began
  cut,        \* the requests of which a query broke off: what rows.Err would say
  cancelled,  \* the requests whose context is cancelled
  run,        \* table run: identifier -> createdBy
  access      \* table access, by its key: identifier -> user -> mode and inserter

requestVars == <<op, target, list, user>>
localVars == <<ids, result, before, cut>>
dbVars == <<run, access>>
vars == <<pc, requestVars, localVars, cancelled, dbVars>>

Statements == {"auth", "insertRun", "insertAccess", "checkRun", "findUsers",
               "insertGrant", "queryAccess", "queryRuns", "checkAccess", "readRun"}

\* The answers of modules/run.go, named after their texts, and those of the
\* controllers; a crashed handler answers nothing.
Answers == {"ok", "unauthorized", "badRequest", "somethingWrong", "noSuchRun",
            "someDoNotExist", "alreadyShared"}
Settled == Answers \cup {"dead"}

Keys == RunIds \cup {NoRun}

Goto(r, next) == pc' = [pc EXCEPT ![r] = next]

\* A statement may fail on its own account or because its context is cancelled.
MayFail(r) == DbFails \/ r \in cancelled

\* The runs that a user has a row for.
Accessible(u) == {id \in Keys : access[id][u] # None}

Init ==
  /\ pc = [r \in Requests |-> "idle"]
  /\ op = [r \in Requests |-> None]
  /\ target = [r \in Requests |-> NoRun]
  /\ list = [r \in Requests |-> <<>>]
  /\ user = [r \in Requests |-> None]
  /\ ids = [r \in Requests |-> {}]
  /\ result = [r \in Requests |-> {}]
  /\ before = [r \in Requests |-> {}]
  /\ cut = {}
  /\ cancelled = {}
  /\ run = [id \in Keys |-> None]
  /\ access = [id \in Keys |-> [u \in Users |-> None]]

-----------------------------------------------------------------------------
(* Arrival and authentication.                                             *)

Arrive(r, o) ==
  /\ pc[r] = "idle"
  /\ op' = [op EXCEPT ![r] = o]
  /\ Goto(r, "auth")

CreateRun(r) ==
  /\ Arrive(r, "create")
  /\ UNCHANGED <<target, list, user, localVars, cancelled, dbVars>>

\* The body may name any run, also one that is only being created.
ShareRun(r) ==
  /\ Arrive(r, "share")
  /\ \E id \in Keys, l \in Lists : /\ target' = [target EXCEPT ![r] = id]
                                   /\ list' = [list EXCEPT ![r] = l]
  /\ UNCHANGED <<user, localVars, cancelled, dbVars>>

UserRuns(r) ==
  /\ Arrive(r, "list")
  /\ UNCHANGED <<target, list, user, localVars, cancelled, dbVars>>

UserRun(r) ==
  /\ Arrive(r, "show")
  /\ \E id \in Keys : target' = [target EXCEPT ![r] = id]
  /\ UNCHANGED <<list, user, localVars, cancelled, dbVars>>

First == [create |-> "insertRun", share |-> "checkRun", list |-> "queryAccess",
          show |-> "checkAccess"]

\* Auth, and the body of the request behind it; UserRuns reads no body.
Auth(r) ==
  /\ pc[r] = "auth"
  /\ \/ \E u \in Users :
          /\ user' = [user EXCEPT ![r] = u]
          /\ before' = [before EXCEPT ![r] = Accessible(u)]
          /\ Goto(r, First[op[r]]) \/ (op[r] # "list" /\ Goto(r, "badRequest"))
     \/ Goto(r, "unauthorized") /\ UNCHANGED <<user, before>>
  /\ UNCHANGED <<op, target, list, ids, result, cut, cancelled, dbVars>>

-----------------------------------------------------------------------------
(* The two INSERTs of a submission.                                        *)

InsertRun(r) ==
  /\ pc[r] = "insertRun"
  /\ \/ /\ r \notin cancelled
        /\ \E id \in RunIds :
             /\ run[id] = None
             /\ run' = [run EXCEPT ![id] = user[r]]
             /\ \/ target' = [target EXCEPT ![r] = id] /\ Goto(r, "insertAccess")
                \/ DbFails /\ Goto(r, "somethingWrong") /\ UNCHANGED target
     \/ MayFail(r) /\ Goto(r, "somethingWrong") /\ UNCHANGED <<run, target>>
  /\ UNCHANGED <<op, list, user, localVars, cancelled, access>>

\* A row of access.  That its key lets no pair have two is what ShareRun's refusal
\* "make sure the run is not already shared with the user" takes for granted; the
\* schema is not in the repository.
Inserted(r, u, m) ==
  /\ access[target[r]][u] = None
  /\ access' = [access EXCEPT ![target[r]][u] = Row(r, m)]

\* Mutation: the error is logged, and the submission goes on.
InsertAccessLogsOnly(r) ==
  /\ pc[r] = "insertAccess"
  /\ \/ r \notin cancelled /\ Inserted(r, user[r], "write")
     \/ /\ MayFail(r) \/ access[target[r]][user[r]] # None
        /\ UNCHANGED access
  /\ Goto(r, "ok")
  /\ UNCHANGED <<requestVars, localVars, cancelled, run>>

\* It fails also where a share that came in between inserted a row for the creator.
InsertAccess(r) ==
  /\ pc[r] = "insertAccess"
  /\ \/ /\ r \notin cancelled
        /\ Inserted(r, user[r], "write")
        /\ Goto(r, "ok") \/ (DbFails /\ Goto(r, "somethingWrong"))
     \/ /\ MayFail(r) \/ access[target[r]][user[r]] # None
        /\ Goto(r, "somethingWrong")
        /\ UNCHANGED access
  /\ UNCHANGED <<requestVars, localVars, cancelled, run>>

-----------------------------------------------------------------------------
(* ShareRun.                                                               *)

\* Any error of the query is taken for the absence of the run, one of PoolConn is
\* not.
CheckRun(r) ==
  /\ pc[r] = "checkRun"
  /\ \/ r \notin cancelled /\ run[target[r]] # None /\ Goto(r, "findUsers")
     \/ (MayFail(r) \/ run[target[r]] = None) /\ Goto(r, "noSuchRun")
     \/ DbFails /\ Goto(r, "somethingWrong")
  /\ UNCHANGED <<requestVars, localVars, cancelled, dbVars>>

\* The accounts that WHERE email = ANY(...) finds: each of them once.
Addressed(r) == {UserOf[e] : e \in ToSet(list[r])} \ {None}

\* What a query yields: all of its rows, or, if it breaks off, some of them.
Rows(r, all) ==
  \/ ids' = [ids EXCEPT ![r] = all] /\ UNCHANGED cut
  \/ /\ DbFails
     /\ \E some \in (SUBSET all) \ {all} : ids' = [ids EXCEPT ![r] = some]
     /\ cut' = cut \cup {r}

\* Mutation: only an empty answer is refused.
CountMattersNot(r, found) == found # {}

\* Mutation: an empty list is not refused.
CountMatchesEmpty(r, found) == Cardinality(found) = Len(list[r])

\* The number of accounts found is compared with that of the addresses.
CountMatches(r, found) == found # {} /\ Cardinality(found) = Len(list[r])

\* Mutation: one loop that reads an account and grants it, the count at the end.
FindUsersGranting(r) ==
  /\ pc[r] = "findUsers"
  /\ \/ /\ r \notin cancelled
        /\ Rows(r, Addressed(r))
        /\ access' = [access EXCEPT ![target[r]] = [u \in Users |->
                        IF @[u] = None /\ u \in ids'[r] THEN Row(r, "read") ELSE @[u]]]
        /\ IF CountMatches(r, ids'[r]) THEN Goto(r, "ok") ELSE Goto(r, "someDoNotExist")
     \/ MayFail(r) /\ Goto(r, "somethingWrong") /\ UNCHANGED <<ids, cut, access>>
  /\ UNCHANGED <<requestVars, result, before, cancelled, run>>

FindUsers(r) ==
  /\ pc[r] = "findUsers"
  /\ \/ /\ r \notin cancelled
        /\ Rows(r, Addressed(r))
        /\ IF CountMatches(r, ids'[r])
           THEN Goto(r, "insertGrant")
           ELSE Goto(r, "someDoNotExist")
     \/ MayFail(r) /\ Goto(r, "somethingWrong") /\ UNCHANGED <<ids, cut>>
  /\ UNCHANGED <<requestVars, result, before, cancelled, dbVars>>

\* Mutation: the error of a grant is logged, and the loop goes on.
InsertGrantLogsOnly(r) ==
  /\ pc[r] = "insertGrant"
  /\ \E u \in ids[r] :
       /\ \/ r \notin cancelled /\ Inserted(r, u, "read")
          \/ MayFail(r) /\ UNCHANGED access
       /\ ids' = [ids EXCEPT ![r] = @ \ {u}]
  /\ IF ids'[r] = {} THEN Goto(r, "ok") ELSE UNCHANGED pc
  /\ UNCHANGED <<requestVars, result, before, cut, cancelled, run>>

\* Grants the next account, in the order the database happened to choose.  Any
\* error ends the loop; what was granted before stays.
InsertGrant(r) ==
  /\ pc[r] = "insertGrant"
  /\ \E u \in ids[r] :
       \/ /\ r \notin cancelled
          /\ Inserted(r, u, "read")
          /\ \/ /\ ids' = [ids EXCEPT ![r] = @ \ {u}]
                /\ IF ids'[r] = {} THEN Goto(r, "ok") ELSE UNCHANGED pc
             \/ DbFails /\ Goto(r, "alreadyShared") /\ UNCHANGED ids
       \/ /\ MayFail(r) \/ access[target[r]][u] # None
          /\ Goto(r, "alreadyShared")
          /\ UNCHANGED <<ids, access>>
  /\ UNCHANGED <<requestVars, result, before, cut, cancelled, run>>

-----------------------------------------------------------------------------
(* UserRuns and UserRun.                                                   *)

\* The runs the caller has a row for; an empty answer needs no second query.
QueryAccess(r) ==
  /\ pc[r] = "queryAccess"
  /\ \/ /\ r \notin cancelled
        /\ Rows(r, Accessible(user[r]))
        /\ IF ids'[r] = {} THEN Goto(r, "ok") ELSE Goto(r, "queryRuns")
     \/ MayFail(r) /\ Goto(r, "somethingWrong") /\ UNCHANGED <<ids, cut>>
  /\ UNCHANGED <<requestVars, result, before, cancelled, dbVars>>

\* Mutation: the second query asks for the runs the caller created.
FoundOwnRuns(r) == {id \in ids[r] : run[id] = user[r]}

FoundRuns(r) == {id \in ids[r] : run[id] # None}

\* The rows of these runs, own and shared.
QueryRuns(r) ==
  /\ pc[r] = "queryRuns"
  /\ \/ /\ r \notin cancelled
        /\ Rows(r, FoundRuns(r))
        /\ result' = [result EXCEPT ![r] = ids'[r]]
        /\ Goto(r, "ok")
     \/ MayFail(r) /\ Goto(r, "somethingWrong") /\ UNCHANGED <<ids, cut, result>>
  /\ UNCHANGED <<requestVars, before, cancelled, dbVars>>

\* Mutation: the condition on the user is missing.
CheckAccessAnybody(r) ==
  /\ pc[r] = "checkAccess"
  /\ \/ r \notin cancelled /\ run[target[r]] # None /\ Goto(r, "readRun")
     \/ (MayFail(r) \/ run[target[r]] = None) /\ Goto(r, "noSuchRun")
  /\ UNCHANGED <<requestVars, localVars, cancelled, dbVars>>

\* As in CheckRun, an error of the query counts as an answer.
CheckAccess(r) ==
  /\ pc[r] = "checkAccess"
  /\ \/ r \notin cancelled /\ target[r] \in Accessible(user[r]) /\ Goto(r, "readRun")
     \/ (MayFail(r) \/ target[r] \notin Accessible(user[r])) /\ Goto(r, "noSuchRun")
     \/ DbFails /\ Goto(r, "somethingWrong")
  /\ UNCHANGED <<requestVars, localVars, cancelled, dbVars>>

ReadRun(r) ==
  /\ pc[r] = "readRun"
  /\ \/ /\ r \notin cancelled
        /\ run[target[r]] # None
        /\ result' = [result EXCEPT ![r] = {target[r]}]
        /\ Goto(r, "ok")
     \/ /\ MayFail(r) \/ run[target[r]] = None
        /\ Goto(r, "somethingWrong")
        /\ UNCHANGED result
  /\ UNCHANGED <<requestVars, ids, before, cut, cancelled, dbVars>>

-----------------------------------------------------------------------------
(* The world around the handlers.                                          *)

\* The client goes away or the server is told to stop.
Cancel(r) ==
  /\ pc[r] \in Statements
  /\ r \notin cancelled
  /\ cancelled' = cancelled \cup {r}
  /\ UNCHANGED <<pc, requestVars, localVars, dbVars>>

\* The process dies; committed rows stay.
Crash ==
  /\ \E r \in Requests : pc[r] \in Statements
  /\ pc' = [r \in Requests |-> IF pc[r] \in Statements THEN "dead" ELSE pc[r]]
  /\ UNCHANGED <<requestVars, localVars, cancelled, dbVars>>

\* Every request was sent and is settled.
Quiescent ==
  /\ \A r \in Requests : pc[r] \in Settled
  /\ UNCHANGED vars

Step(r) ==
  \/ Auth(r)
  \/ InsertRun(r)
  \/ InsertAccess(r)
  \/ CheckRun(r)
  \/ FindUsers(r)
  \/ InsertGrant(r)
  \/ QueryAccess(r)
  \/ QueryRuns(r)
  \/ CheckAccess(r)
  \/ ReadRun(r)

Next ==
  \/ \E r \in Requests :
       CreateRun(r) \/ ShareRun(r) \/ UserRuns(r) \/ UserRun(r) \/ Step(r) \/ Cancel(r)
  \/ Crash
  \/ Quiescent

Spec == Init /\ [][Next]_vars

-----------------------------------------------------------------------------
(* Properties.                                                             *)

\* The types of the variables; an insert has a target it can be about.
TypeOK ==
  /\ pc \in [Requests -> Statements \cup Settled \cup {"idle"}]
  /\ op \in [Requests -> DOMAIN First \cup {None}]
  /\ target \in [Requests -> Keys]
  /\ list \in [Requests -> Lists \cup {<<>>}]
  /\ user \in [Requests -> Users \cup {None}]
  /\ ids \in [Requests -> SUBSET (Keys \cup Users)]
  /\ result \in [Requests -> SUBSET RunIds]
  /\ before \in [Requests -> SUBSET Keys]
  /\ cut \subseteq Requests
  /\ cancelled \subseteq Requests
  /\ run \in [Keys -> Users \cup {None}]
  /\ access \in [Keys -> [Users -> AccessRows \cup {None}]]
  /\ \A r \in Requests : pc[r] = "insertGrant" => ids[r] \in (SUBSET Users) \ {{}}

\* A row of access is about a run that there is, and only its creator's is for writing.
RowIsSound(id, u) ==
  access[id][u] # None =>
    /\ run[id] # None
    /\ access[id][u].mode = "write" => u = run[id]

\* A submission that goes on behind its two INSERTs has made its caller the writer.
CallerWrites(r) ==
  op[r] = "create" /\ pc[r] = "ok" =>
    /\ run[target[r]] = user[r]
    /\ access[target[r]][user[r]] = Row(r, "write")

\* Nobody but the creator of a run can write to it, and the creator can once the
\* submission got beyond its rows.  Shares need not wait for that: one that comes
\* between the two INSERTs may give others, or the creator, a row before, and the
\* submission then fails rather than go on with a creator who only reads.
CreatorIsWriter ==
  /\ \A id \in Keys, u \in Users : RowIsSound(id, u)
  /\ \A r \in Requests : CallerWrites(r)

\* A row of mode read was inserted by a request to share that run, all of whose
\* addresses belong to accounts, one each, this account among them.
GrantsAreWarranted ==
  \A id \in Keys, u \in Users :
    access[id][u] # None /\ access[id][u].mode = "read" =>
      LET r == access[id][u].by IN
        /\ op[r] = "share"
        /\ target[r] = id
        /\ \E e \in ToSet(list[r]) : UserOf[e] = u
        /\ \A i, j \in DOMAIN list[r] :
             UserOf[list[r][i]] # None /\ (i # j => list[r][i] # list[r][j])

\* "Run shared." means that everybody addressed has access, and that everybody
\* exists, also where the rows of the accounts were cut off.
SharedWithAll ==
  \A r \in Requests :
    op[r] = "share" /\ pc[r] = "ok" =>
      \A e \in ToSet(list[r]) : UserOf[e] # None /\ target[r] \in Accessible(UserOf[e])

\* A share that was refused because of its run or its addresses granted nothing.
RefusedSharesNothing ==
  \A r \in Requests :
    pc[r] \in {"noSuchRun", "someDoNotExist", "somethingWrong", "badRequest"} /\ op[r] = "share" =>
      \A id \in Keys, u \in Users : access[id][u] = None \/ access[id][u].by # r

\* An answer shows runs that the caller has access to, and no other.
AnswersOnlyAccessible ==
  \A r \in Requests : result[r] # {} => result[r] \subseteq Accessible(user[r])

\* A list of runs holds every run the caller had access to when the handler
\* began, unless a query broke off.
ListIsComplete ==
  \A r \in Requests :
    op[r] = "list" /\ pc[r] = "ok" /\ r \notin cut => before[r] \subseteq result[r]

\* "please check the emails again. some of them do not exist" (run.go, line 150).
UnknownAddressWasListed ==
  \A r \in Requests :
    pc[r] = "someDoNotExist" => \E e \in ToSet(list[r]) : UserOf[e] = None
=============================================================================
