--------------------------- MODULE RunSubmission ---------------------------
(***************************************************************************)
(* The submission of a run: what the handlers CreateEA, CreateGP, CreateML *)
(* and CreatePSO do between the arrival of a request and its answer.       *)
(*                                                                         *)
(* A handler authenticates the caller, validates the body and generates    *)
(* the Python code, and then writes to five stores, one call at a time and *)
(* with no rollback: a row of `run', a row of `access', two local files,   *)
(* two objects of the public bucket, and at last the Redis list the runner *)
(* pops runs from.  Each action below is one of these calls with all of    *)
(* its outcomes; a call that changes a store elsewhere may take effect and *)
(* still return an error, because only its reply was lost.                 *)
(*                                                                         *)
(* Handlers of different requests interleave freely, the client of any of  *)
(* them may go away (its context is cancelled), and the process may crash, *)
(* which ends every handler but keeps the files, the database, the objects *)
(* and the queue.  A command to Redis whose reply nobody saw outlives the  *)
(* handler that sent it: Redis may apply it after the answer, or never.    *)
(***************************************************************************)
EXTENDS Integers, FiniteSets, Sequences, SequencesExt

CONSTANTS
  Requests,       \* the requests that clients may send
  Users,          \* the accounts the auth service knows
  RunIds,         \* the identifiers the database may give to a run
  Kinds,          \* the kinds of runs submitted, a subset of AllKinds
  Payloads,       \* the request bodies
  Compiles,       \* kind -> the bodies its generator turns into code
  PushAttempts,   \* how often the Redis client sends one LPUSH (1 + MaxRetries)
  None,           \* no row, no file, no object, no user
  Torn            \* what a write that failed half way leaves in a file

AllKinds == {"ea", "gp", "ml", "pso"}

\* The two files of a run, in the order in which they are written and uploaded.
Stages == {"code", "input"}

\* What a runner can find of a run; see Shelf.
Shelves == [row : Requests, code : Requests, input : Requests, public : BOOLEAN,
            writers : SUBSET Users]

ASSUME KindsAssumption == Kinds \subseteq AllKinds
ASSUME CompilesAssumption == Compiles \in [Kinds -> SUBSET Payloads]
ASSUME PushAttemptsAssumption == PushAttempts \in Nat \ {0}
ASSUME NoneAssumption ==
  /\ None \notin Requests
  /\ None \notin Users
  /\ None \notin RunIds
  /\ None \notin Kinds
  /\ None \notin Payloads
  /\ None \notin Shelves
ASSUME TornAssumption == Torn \notin Requests /\ Torn # None

VARIABLES
  pc,         \* request -> the call its handler makes next, or its answer
  kind,       \* request -> the endpoint it was sent to
  payload,    \* request -> its body
  owner,      \* request -> the user the auth service named
  runID,      \* request -> the handler's variable runID
  stage,      \* request -> the file the handler is busy with
  tries,      \* request -> how often LPUSH has been sent without a reply
  cancelled,  \* the requests whose context is cancelled
  run,        \* table run: identifier -> the request whose values the row holds
  access,     \* table access: rows <<runID, userID, mode>>
  file,       \* local directory code/ or input/ -> file of each run
  object,     \* objects <runID>/code.py and <runID>/input.json
  bucket,     \* does the bucket exist?
  public,     \* has its policy been set?
  queue,      \* the Redis list; LPUSH adds at the head, position 1
  inflight,   \* run -> the LPUSH commands that Redis may still apply
  taken       \* run -> how often a runner popped it from the tail

requestVars == <<kind, payload, owner>>
localVars   == <<runID, stage, tries>>
dbVars      == <<run, access>>
minioVars   == <<object, bucket, public>>
redisVars   == <<queue, taken, inflight>>
vars == <<pc, requestVars, localVars, cancelled, dbVars, file, minioVars,
          redisVars>>

Calls == {"auth", "validate", "insertRun", "insertAccess", "writeFile",
          "makeBucket", "bucketExists", "setPolicy", "putObject", "remove",
          "enqueue"}

\* The statuses a handler answers with; a crashed handler answers nothing.
Answers == {"ok", "badRequest", "unauthorized", "error"}
Settled == Answers \cup {"dead"}

Working(r) == pc[r] \in Calls

Goto(r, next) == pc' = [pc EXCEPT ![r] = next]

\* Nothing but the handler's own variables and the named stores may change.
OnlyHandler == UNCHANGED <<cancelled, dbVars, file, minioVars, redisVars>>

Init ==
  /\ pc = [r \in Requests |-> "idle"]
  /\ kind = [r \in Requests |-> None]
  /\ payload = [r \in Requests |-> None]
  /\ owner = [r \in Requests |-> None]
  /\ runID = [r \in Requests |-> None]
  /\ stage = [r \in Requests |-> "code"]
  /\ tries = [r \in Requests |-> 0]
  /\ cancelled = {}
  /\ run = [id \in RunIds |-> None]
  /\ access = {}
  /\ file = [s \in Stages |-> [id \in RunIds |-> None]]
  /\ object = [s \in Stages |-> [id \in RunIds |-> None]]
  /\ bucket \in BOOLEAN
  /\ public \in BOOLEAN
  /\ public => bucket
  /\ queue = <<>>
  /\ taken = [id \in RunIds |-> 0]
  /\ inflight = [id \in RunIds |-> 0]

-----------------------------------------------------------------------------
(* The request, up to the first write.                                     *)

\* The four handlers differ in the generator they call and in the texts of the
\* row they insert; every later action stands for the same lines of all four.
Arrive(r, k) ==
  /\ pc[r] = "idle"
  /\ kind' = [kind EXCEPT ![r] = k]
  /\ \E p \in Payloads : payload' = [payload EXCEPT ![r] = p]
  /\ Goto(r, "auth")
  /\ UNCHANGED <<owner, localVars>>
  /\ OnlyHandler

CreateEA(r)  == "ea"  \in Kinds /\ Arrive(r, "ea")
CreateGP(r)  == "gp"  \in Kinds /\ Arrive(r, "gp")
CreateML(r)  == "ml"  \in Kinds /\ Arrive(r, "ml")
CreatePSO(r) == "pso" \in Kinds /\ Arrive(r, "pso")

\* Mutation: the user of the last call is kept in a package variable.
AuthShared(r) ==
  /\ pc[r] = "auth"
  /\ \/ /\ \E u \in Users : owner' = [q \in Requests |-> u]
        /\ Goto(r, "validate")
     \/ /\ Goto(r, "unauthorized")
        /\ UNCHANGED owner
  /\ UNCHANGED <<kind, payload, localVars>>
  /\ OnlyHandler

\* No cookie, no answer within 30 seconds or an invalid token: 401.  The call
\* has a context of its own, so that a client that went away does not end it.
Auth(r) ==
  /\ pc[r] = "auth"
  /\ \/ /\ \E u \in Users : owner' = [owner EXCEPT ![r] = u]
        /\ Goto(r, "validate")
     \/ /\ Goto(r, "unauthorized")
        /\ UNCHANGED owner
  /\ UNCHANGED <<kind, payload, localVars>>
  /\ OnlyHandler

\* Mutation: the error of Code is logged, and the handler goes on.
ValidateLogsOnly(r) ==
  /\ pc[r] = "validate"
  /\ Goto(r, "insertRun") \/ Goto(r, "badRequest")
  /\ UNCHANGED <<requestVars, localVars>>
  /\ OnlyHandler

\* Body, FromJSON and Code.  A body that compiles may still be cut off on its
\* way; one that does not compile never gets past this point.
Validate(r) ==
  /\ pc[r] = "validate"
  /\ \/ /\ payload[r] \in Compiles[kind[r]]
        /\ Goto(r, "insertRun")
     \/ Goto(r, "badRequest")
  /\ UNCHANGED <<requestVars, localVars>>
  /\ OnlyHandler

-----------------------------------------------------------------------------
(* The two inserts.  Each is a transaction of its own.                     *)

FreshIds == {id \in RunIds : run[id] = None}

\* Includes PoolConn, whose error ends the handler like one of the insert.
InsertRun(r) ==
  /\ pc[r] = "insertRun"
  /\ \/ /\ r \notin cancelled
        /\ \E id \in FreshIds :
             /\ run' = [run EXCEPT ![id] = r]
             /\ \/ /\ runID' = [runID EXCEPT ![r] = id]
                   /\ Goto(r, "insertAccess")
                \/ /\ Goto(r, "error")        \* committed, but the reply is lost
                   /\ UNCHANGED runID
     \/ /\ Goto(r, "error")
        /\ UNCHANGED <<run, runID>>
  /\ UNCHANGED <<requestVars, stage, tries, cancelled, access, file, minioVars,
                 redisVars>>

\* Mutation: the error of the insert is logged, and the handler goes on.
InsertAccessLogsOnly(r) ==
  /\ pc[r] = "insertAccess"
  /\ \/ access' = access \cup {<<runID[r], owner[r], "write">>}
     \/ UNCHANGED access
  /\ Goto(r, "writeFile")
  /\ UNCHANGED <<requestVars, localVars, cancelled, run, file, minioVars,
                 redisVars>>

InsertAccess(r) ==
  /\ pc[r] = "insertAccess"
  /\ \/ /\ r \notin cancelled
        /\ access' = access \cup {<<runID[r], owner[r], "write">>}
        /\ \/ Goto(r, "writeFile")
           \/ Goto(r, "error")
     \/ /\ Goto(r, "error")
        /\ UNCHANGED access
  /\ UNCHANGED <<requestVars, localVars, cancelled, run, file, minioVars,
                 redisVars>>

-----------------------------------------------------------------------------
(* The files and UploadFile, once for the code and once for the input.     *)

\* Mutation: one scratch file per directory instead of one per run.
SharedFileKey(r) == CHOOSE id \in RunIds : TRUE

\* code/<runID>.py and input/<runID>.json, for the handler and for UploadFile.
FileKey(r) == runID[r]

\* Mutation: the objects are named after the kind of the run only.
SharedObjectKey(r) == CHOOSE id \in RunIds : TRUE

\* <runID>/code.py and <runID>/input.json.
ObjectKey(r) == runID[r]

\* Mutation: a short write goes unnoticed.
WriteFileUnchecked(r) ==
  /\ pc[r] = "writeFile"
  /\ \E content \in {r, Torn} :
       file' = [file EXCEPT ![stage[r]][FileKey(r)] = content]
  /\ Goto(r, "makeBucket")
  /\ UNCHANGED <<requestVars, localVars, cancelled, dbVars, minioVars, redisVars>>

\* os.WriteFile knows no context.  An error may come before the file is
\* truncated or after part of it was written.
WriteFile(r) ==
  /\ pc[r] = "writeFile"
  /\ \/ /\ file' = [file EXCEPT ![stage[r]][FileKey(r)] = r]
        /\ Goto(r, "makeBucket")
     \/ /\ file' = [file EXCEPT ![stage[r]][FileKey(r)] = Torn]
        /\ Goto(r, "error")
     \/ /\ Goto(r, "error")
        /\ UNCHANGED file
  /\ UNCHANGED <<requestVars, localVars, cancelled, dbVars, minioVars, redisVars>>

\* An existing bucket is an error of MakeBucket like any other.
MakeBucket(r) ==
  /\ pc[r] = "makeBucket"
  /\ \/ /\ r \notin cancelled
        /\ ~bucket
        /\ bucket' = TRUE
        /\ \/ Goto(r, "setPolicy")
           \/ Goto(r, "bucketExists")
     \/ /\ Goto(r, "bucketExists")
        /\ UNCHANGED bucket
  /\ UNCHANGED <<requestVars, localVars, cancelled, dbVars, file, object,
                 public, redisVars>>

\* Mutation: the bucket is asked for until it is there.
BucketExistsRetried(r) ==
  /\ pc[r] = "bucketExists"
  /\ \/ r \notin cancelled /\ bucket /\ Goto(r, "setPolicy")
     \/ Goto(r, "makeBucket")
  /\ UNCHANGED <<requestVars, localVars>>
  /\ OnlyHandler

BucketExists(r) ==
  /\ pc[r] = "bucketExists"
  /\ \/ r \notin cancelled /\ bucket /\ Goto(r, "setPolicy")
     \/ Goto(r, "error")
  /\ UNCHANGED <<requestVars, localVars>>
  /\ OnlyHandler

SetBucketPolicy(r) ==
  /\ pc[r] = "setPolicy"
  /\ \/ /\ r \notin cancelled
        /\ bucket
        /\ public' = TRUE
        /\ \/ Goto(r, "putObject")
           \/ Goto(r, "error")
     \/ /\ Goto(r, "error")
        /\ UNCHANGED public
  /\ UNCHANGED <<requestVars, localVars, cancelled, dbVars, file, object,
                 bucket, redisVars>>

\* The code is followed by the input, the input by the removal of both files.
AfterUpload(r) ==
  IF stage[r] = "code"
  THEN Goto(r, "writeFile") /\ stage' = [stage EXCEPT ![r] = "input"]
  ELSE Goto(r, "remove") /\ stage' = [stage EXCEPT ![r] = "code"]

\* Uploads what the file holds now, under the name of the run.
FPutObject(r) ==
  /\ pc[r] = "putObject"
  /\ \/ /\ r \notin cancelled
        /\ bucket
        /\ file[stage[r]][FileKey(r)] # None
        /\ object' = [object EXCEPT ![stage[r]][ObjectKey(r)] =
                        file[stage[r]][FileKey(r)]]
        /\ \/ AfterUpload(r)
           \/ Goto(r, "error") /\ UNCHANGED stage
     \/ /\ Goto(r, "error")
        /\ UNCHANGED <<object, stage>>
  /\ UNCHANGED <<requestVars, runID, tries, cancelled, dbVars, file, bucket,
                 public, redisVars>>

\* Mutation: only the code is removed.
RemoveCodeOnly(r) ==
  /\ pc[r] = "remove"
  /\ file' = [file EXCEPT !["code"][FileKey(r)] = None]
  /\ Goto(r, "enqueue")
  /\ UNCHANGED <<requestVars, localVars, cancelled, dbVars, minioVars, redisVars>>

RemoveFile(r) ==
  /\ pc[r] = "remove"
  /\ \/ /\ file[stage[r]][FileKey(r)] # None
        /\ file' = [file EXCEPT ![stage[r]][FileKey(r)] = None]
        /\ IF stage[r] = "code"
           THEN Goto(r, "remove") /\ stage' = [stage EXCEPT ![r] = "input"]
           ELSE Goto(r, "enqueue") /\ UNCHANGED stage
     \/ /\ Goto(r, "error")
        /\ UNCHANGED <<file, stage>>
  /\ UNCHANGED <<requestVars, runID, tries, cancelled, dbVars, minioVars,
                 redisVars>>

-----------------------------------------------------------------------------
(* The queue.                                                              *)

Pushed(id) == <<id>> \o queue

\* Mutation: an error of LPUSH is logged and the request answered all the same.
EnqueueLogsOnly(r) ==
  /\ pc[r] = "enqueue"
  /\ \/ queue' = Pushed(runID[r]) /\ UNCHANGED inflight
     \/ inflight' = [inflight EXCEPT ![runID[r]] = @ + 1] /\ UNCHANGED queue
  /\ Goto(r, "ok")
  /\ UNCHANGED <<requestVars, localVars, cancelled, dbVars, file, minioVars,
                 taken>>

\* Mutation: LPUSH is sent again until a reply arrives.
EnqueueUntilReply(r) ==
  /\ pc[r] = "enqueue"
  /\ \/ queue' = Pushed(runID[r]) /\ Goto(r, "ok") /\ UNCHANGED <<tries, inflight>>
     \/ /\ tries[r] <= PushAttempts
        /\ inflight' = [inflight EXCEPT ![runID[r]] = @ + 1]
        /\ tries' = [tries EXCEPT ![r] = @ + 1]
        /\ UNCHANGED <<pc, queue>>
  /\ UNCHANGED <<requestVars, runID, stage, cancelled, dbVars, file, minioVars,
                 taken>>

\* LPUSH through the Redis client, which waits a few seconds for the reply and
\* sends the command again when none came: each attempt stays in flight.
EnqueueRunRequest(r) ==
  /\ pc[r] = "enqueue"
  /\ \/ /\ r \notin cancelled
        /\ queue' = Pushed(runID[r])
        /\ Goto(r, "ok")
        /\ UNCHANGED <<tries, inflight>>
     \/ /\ r \notin cancelled
        /\ inflight' = [inflight EXCEPT ![runID[r]] = @ + 1]
        /\ tries' = [tries EXCEPT ![r] = @ + 1]
        /\ IF tries'[r] = PushAttempts THEN Goto(r, "error") ELSE UNCHANGED pc
        /\ UNCHANGED queue
     \/ /\ Goto(r, "error")
        /\ UNCHANGED <<queue, tries, inflight>>
  /\ UNCHANGED <<requestVars, runID, stage, cancelled, dbVars, file, minioVars,
                 taken>>

\* Redis applies a command whose sender no longer waits for it, or is already at
\* the next attempt, or got its answer from that one, or is gone.
ApplyLate(id) ==
  /\ inflight[id] > 0
  /\ inflight' = [inflight EXCEPT ![id] = @ - 1]
  /\ queue' = Pushed(id)
  /\ UNCHANGED <<pc, requestVars, localVars, cancelled, dbVars, file, minioVars,
                 taken>>

\* The runner, another program, pops a run from the tail of the list.
RunnerTake ==
  /\ queue # <<>>
  /\ taken' = [taken EXCEPT ![queue[Len(queue)]] = @ + 1]
  /\ queue' = SubSeq(queue, 1, Len(queue) - 1)
  /\ UNCHANGED <<pc, requestVars, localVars, cancelled, dbVars, file, minioVars,
                 inflight>>

-----------------------------------------------------------------------------
(* What happens to the handlers from outside.                              *)

\* The client closes its connection, or a signal cancels the base context that
\* every request context derives from.
Cancel(r) ==
  /\ Working(r)
  /\ r \notin cancelled
  /\ cancelled' = cancelled \cup {r}
  /\ UNCHANGED <<pc, requestVars, localVars, dbVars, file, minioVars, redisVars>>

\* The process dies and is started again.  A file that was being written is
\* torn if the crash came in the middle of the write, and a handler at its last
\* call may have sent its command.
Crash ==
  /\ \E r \in Requests : Working(r)
  /\ pc' = [r \in Requests |-> IF Working(r) THEN "dead" ELSE pc[r]]
  /\ \E torn \in SUBSET {r \in Requests : pc[r] = "writeFile"} :
       file' = [s \in Stages |-> [id \in RunIds |->
                  IF \E r \in torn : stage[r] = s /\ FileKey(r) = id
                  THEN Torn ELSE file[s][id]]]
  /\ \E sent \in SUBSET {runID[r] : r \in {q \in Requests : pc[q] = "enqueue"}} :
       inflight' = [id \in RunIds |-> inflight[id] + (IF id \in sent THEN 1 ELSE 0)]
  /\ UNCHANGED <<requestVars, localVars, cancelled, dbVars, minioVars, queue, taken>>

\* All requests are answered and the runner has taken every run it can see.
Quiescent ==
  /\ \A r \in Requests : pc[r] \in Settled
  /\ queue = <<>>
  /\ UNCHANGED vars

Step(r) ==
  \/ Auth(r)
  \/ Validate(r)
  \/ InsertRun(r)
  \/ InsertAccess(r)
  \/ WriteFile(r)
  \/ MakeBucket(r)
  \/ BucketExists(r)
  \/ SetBucketPolicy(r)
  \/ FPutObject(r)
  \/ RemoveFile(r)
  \/ EnqueueRunRequest(r)

Next ==
  \/ \E r \in Requests : CreateEA(r) \/ CreateGP(r) \/ CreateML(r) \/ CreatePSO(r)
  \/ \E r \in Requests : Step(r)
  \/ \E r \in Requests : Cancel(r)
  \/ \E id \in RunIds : ApplyLate(id)
  \/ RunnerTake
  \/ Crash
  \/ Quiescent

Spec == Init /\ [][Next]_vars

\* Every call returns, with a result or an error, and the runner keeps popping.
\* Nothing obliges a client to send a request, to leave, or the process to die.
FairSpec ==
  /\ Spec
  /\ \A r \in Requests : WF_vars(Step(r))
  /\ WF_vars(RunnerTake)

-----------------------------------------------------------------------------
(* Properties.                                                             *)

HandlerTypeOK ==
  /\ pc \in [Requests -> {"idle"} \cup Calls \cup Settled]
  /\ kind \in [Requests -> Kinds \cup {None}]
  /\ payload \in [Requests -> Payloads \cup {None}]
  /\ owner \in [Requests -> Users \cup {None}]
  /\ runID \in [Requests -> RunIds \cup {None}]
  /\ stage \in [Requests -> Stages]
  /\ tries \in [Requests -> 0..PushAttempts]
  /\ cancelled \subseteq Requests

StoreTypeOK ==
  /\ run \in [RunIds -> Requests \cup {None}]
  /\ access \subseteq RunIds \X Users \X {"write"}
  /\ file \in [Stages -> [RunIds -> Requests \cup {None, Torn}]]
  /\ object \in [Stages -> [RunIds -> Requests \cup {None, Torn}]]
  /\ bucket \in BOOLEAN
  /\ public \in BOOLEAN
  /\ queue \in Seq(RunIds)
  /\ taken \in [RunIds -> Nat]
  /\ inflight \in [RunIds -> Nat]

\* The types of the variables.  The bound on tries is one of the client's: the
\* attempt that reaches it is the last.
TypeOK == HandlerTypeOK /\ StoreTypeOK

\* The runner can see the run: it is in the queue, or was.
Dispatched(id) == id \in ToSet(queue) \/ taken[id] > 0

\* All a runner needs of a run, and what its owner needs to see it.
Complete(id) ==
  /\ run[id] # None
  /\ payload[run[id]] \in Compiles[kind[run[id]]]
  /\ <<id, owner[run[id]], "write">> \in access
  /\ \A s \in Stages : object[s][id] = run[id]
  /\ bucket /\ public

\* A run is complete from the moment a runner can see it, however the handler
\* that wrote it ends: every earlier write of the handler was acknowledged
\* (controller/ea.go, the early returns between lines 59 and 128).
QueuedRunIsComplete == \A id \in RunIds : Dispatched(id) => Complete(id)

\* The files of concurrent submissions never get mixed up on their way through
\* the local directories: an object of a run was generated from the request
\* that inserted the run, and is whole.
ObjectsBelongToRun ==
  \A s \in Stages, id \in RunIds :
    object[s][id] # None => run[id] # None /\ object[s][id] = run[id]

\* A request answered with 200 has its run in the queue or at a runner, and left
\* nothing in the local directories.
AcceptedRunIsDispatched ==
  \A r \in Requests : pc[r] = "ok" =>
    /\ Dispatched(runID[r])
    /\ run[runID[r]] = r
    /\ \A s \in Stages : file[s][runID[r]] = None

\* The copies of a run that LPUSH put into the list and are still there.
Copies(id) == {i \in DOMAIN queue : queue[i] = id}

\* The retries of the Redis client may queue a run more than once, but no more
\* often than the client sends the command, the late ones included.
CopiesBounded ==
  \A id \in RunIds :
    Cardinality(Copies(id)) + taken[id] + inflight[id] <= PushAttempts

\* A row of access made by a submission names the user who made it, also when
\* submissions of different users are under way together.
AccessNamesCreator ==
  \A id \in RunIds, u \in Users :
    <<id, u, "write">> \in access => run[id] # None /\ owner[run[id]] = u

\* Once a runner can see a run, no step of any handler, no crash and no runner
\* changes its row, its write access or its objects, or makes it unseen.
QueuedRunIsFrozen ==
  [][\A id \in RunIds : Dispatched(id) =>
       /\ Dispatched(id)'
       /\ run'[id] = run[id]
       /\ \A s \in Stages : object'[s][id] = object[s][id]
       /\ \A u \in Users :
            <<id, u, "write">> \in access' <=> <<id, u, "write">> \in access]_vars

\* What a runner finds of a run it can see.
Shelf(id) ==
  IF Dispatched(id)
  THEN [row |-> run[id], code |-> object["code"][id], input |-> object["input"][id],
        public |-> public,
        writers |-> {u \in Users : <<id, u, "write">> \in access}]
  ELSE None

\* What a client knows of its request; a crash looks like a refusal, and neither
\* tells it whether the run appeared or is still to appear.
Answer(r) ==
  CASE pc[r] = "idle" -> "none"
    [] pc[r] = "ok" -> "accepted"
    [] pc[r] \in Settled \ {"ok"} -> "refused"
    [] OTHER -> "open"

Publication == INSTANCE RunPublication WITH
  shelf <- [id \in RunIds |-> Shelf(id)],
  answer <- [r \in Requests |-> Answer(r)],
  delivered <- taken

\* The writes to five stores, with their errors, lost replies and crashes, look to
\* runners and clients like the appearance of a whole run in one step.
ImplementsPublication == Publication!Spec

\* Every request that arrived is answered, or its handler dies with the process.
EveryRequestSettles ==
  \A r \in Requests : pc[r] # "idle" ~> pc[r] \in Settled

\* A run whose submission was answered with 200 reaches a runner.
AcceptedRunIsTaken ==
  \A r \in Requests : pc[r] = "ok" ~> \E id \in RunIds : runID[r] = id /\ taken[id] > 0
-----------------------------------------------------------------------------
(* The inductive invariant behind the safety properties: what each point of *)
(* a handler may rely on.  A handler owns its run and the files and objects *)
(* of that run, because its row is there and names it.                      *)

BeforeRow == {"idle", "auth", "validate", "insertRun"}
BeforeFiles == BeforeRow \cup {"insertAccess"}
Uploading == {"makeBucket", "bucketExists", "setPolicy", "putObject"}
Uploaded == {"remove", "enqueue", "ok"}
HasRow == {"insertAccess", "writeFile"} \cup Uploading \cup Uploaded
HasAccess == HasRow \ {"insertAccess"}

\* The input is under way, so that the upload of the code was acknowledged.
SecondFile(r) == pc[r] \in {"writeFile"} \cup Uploading /\ stage[r] = "input"

\* A handler past InsertRun has a row of its own, and a row belongs to a handler
\* that got as far as inserting it.
RowsInv ==
  /\ \A r \in Requests : pc[r] \in HasRow => runID[r] \in RunIds /\ run[runID[r]] = r
  /\ \A id \in RunIds : run[id] # None => pc[run[id]] \notin BeforeRow

\* The request of a row, and one about to become a row, compiles and has a user.
RequestInv ==
  /\ \A r \in Requests : pc[r] # "idle" => kind[r] \in Kinds
  /\ \A r \in Requests : pc[r] \in HasRow \cup {"validate", "insertRun"} =>
       owner[r] \in Users
  /\ \A r \in Requests : pc[r] = "insertRun" => payload[r] \in Compiles[kind[r]]
  /\ \A id \in RunIds : run[id] # None =>
       payload[run[id]] \in Compiles[kind[run[id]]]

AccessInv ==
  \A r \in Requests : pc[r] \in HasAccess => <<runID[r], owner[r], "write">> \in access

\* A handler starts with the code.
StageInv == \A r \in Requests : pc[r] \in BeforeFiles => stage[r] = "code"

\* What a handler uploads is the file it wrote.
FilesInv == \A r \in Requests : pc[r] \in Uploading => file[stage[r]][runID[r]] = r

\* A handler past the removal of a file finds no file of its run there.
RemovedInv ==
  /\ \A r \in Requests : pc[r] = "remove" /\ stage[r] = "input" =>
       file["code"][runID[r]] = None
  /\ \A r \in Requests : pc[r] \in {"enqueue", "ok"} =>
       \A s \in Stages : file[s][runID[r]] = None

ObjectsInv ==
  /\ \A r \in Requests : SecondFile(r) => object["code"][runID[r]] = r
  /\ \A r \in Requests : pc[r] \in Uploaded => \A s \in Stages : object[s][runID[r]] = r

BucketInv ==
  /\ \A r \in Requests : pc[r] \in {"setPolicy", "putObject"} => bucket
  /\ \A r \in Requests : pc[r] = "putObject" \/ SecondFile(r) \/ pc[r] \in Uploaded =>
       bucket /\ public

\* Only a handler at its last call, or one that is done, has its run in the queue.
QueueInv ==
  \A id \in RunIds : Dispatched(id) =>
    run[id] # None /\ pc[run[id]] \in {"enqueue", "ok", "error", "dead"}

\* What Redis may still apply would publish a run that is complete.
InflightInv ==
  \A id \in RunIds : inflight[id] > 0 =>
    /\ run[id] # None /\ pc[run[id]] \in {"enqueue", "ok", "error", "dead"}
    /\ Complete(id)

AnswerInv == \A r \in Requests : pc[r] = "ok" => Dispatched(runID[r])

\* Only a handler that gave up has used all attempts.
TriesInv == \A r \in Requests : pc[r] # "error" => tries[r] < PushAttempts

HInv ==
  /\ TypeOK
  /\ TriesInv
  /\ RowsInv
  /\ RequestInv
  /\ AccessInv
  /\ StageInv
  /\ FilesInv
  /\ RemovedInv
  /\ ObjectsInv
  /\ BucketInv
  /\ QueueInv
  /\ AnswerInv
  /\ ObjectsBelongToRun
  /\ AccessNamesCreator
  /\ QueuedRunIsComplete

IInv == HInv /\ InflightInv
=============================================================================
