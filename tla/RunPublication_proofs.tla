------------------------ MODULE RunPublication_proofs ------------------------
(***************************************************************************)
(* What runners and clients see of a submission, for any number of         *)
(* requests, users, runs and push attempts: RunSubmission implements       *)
(* RunPublication, and a run is in the queue no more often than the Redis  *)
(* client sends one LPUSH.  Both rest on the invariant of RunSubmission;   *)
(* the first adds to it that a request has one row at most, the second     *)
(* counts copies against attempts.                                         *)
(***************************************************************************)
EXTENDS RunSubmission_proofs, FiniteSetTheorems

-----------------------------------------------------------------------------
(* One row for each request.                                               *)

OneRow ==
  \A i, j \in RunIds : run[i] # None /\ run[i] = run[j] => i = j

RowInv == IInv /\ OneRow

LEMMA NextOneRow == RowInv /\ [Next]_vars => RowInv'
<1> SUFFICES ASSUME RowInv, [Next]_vars PROVE OneRow'
  BY NextPreserves DEF RowInv
<1>1. CASE UNCHANGED run
  BY <1>1 DEF RowInv, OneRow
<1>2. ASSUME NEW r \in Requests, InsertRun(r) PROVE OneRow'
  <2>1. /\ \A id \in RunIds : run[id] # r
        /\ run \in [RunIds -> Requests \cup {None}]
    BY <1>2, NoneAssumption
       DEF RowInv, IInv, HInv, RowsInv, TypeOK, StoreTypeOK, InsertRun, BeforeRow
  <2>2. run' = run \/ \E id \in RunIds : run' = [run EXCEPT ![id] = r]
    BY <1>2 DEF InsertRun, FreshIds
  <2> QED BY <1>1, <2>1, <2>2 DEF RowInv, OneRow
<1> QED BY <1>1, <1>2 DEF Next, Step, vars, dbVars, Quiescent, OnlyHandler,
           CreateEA, CreateGP, CreateML, CreatePSO, Arrive, Auth, Validate, InsertAccess,
           WriteFile, MakeBucket, BucketExists, SetBucketPolicy, FPutObject, RemoveFile,
           EnqueueRunRequest, Cancel, ApplyLate, RunnerTake, Crash

LEMMA RowInvariance == Spec => []RowInv
<1>1. Init => RowInv
  BY InitIInv DEF RowInv, OneRow, Init
<1> QED BY <1>1, NextOneRow, PTL DEF Spec

-----------------------------------------------------------------------------
(* The shelf.                                                              *)

shelfBar == [id \in RunIds |-> Shelf(id)]
answerBar == [r \in Requests |-> Answer(r)]

LEMMA NothingOnShelf ==
  ASSUME NEW id \in RunIds, ~Dispatched(id) PROVE Shelf(id) = None
BY DEF Shelf

\* What is on the shelf is a whole run.
LEMMA OnShelf ==
  ASSUME IInv, NEW id \in RunIds, Dispatched(id)
  PROVE  /\ run[id] \in Requests /\ owner[run[id]] \in Users
         /\ Complete(id)
         /\ Shelf(id) = Publication!WholeRun(run[id], owner[run[id]])
         /\ Shelf(id) # None /\ Shelf(id).row = run[id]
<1>1. /\ Complete(id)
      /\ run[id] \in Requests
      /\ <<id, owner[run[id]], "write">> \in access
      /\ object["code"][id] = run[id] /\ object["input"][id] = run[id]
      /\ public = TRUE
  BY DEF IInv, HInv, QueuedRunIsComplete, Complete, TypeOK, StoreTypeOK, Stages
<1>2. owner[run[id]] \in Users
  BY <1>1 DEF IInv, HInv, TypeOK, StoreTypeOK
<1>3. {u \in Users : <<id, u, "write">> \in access} = {owner[run[id]]}
  BY <1>1, <1>2 DEF IInv, HInv, AccessNamesCreator
<1>4. Shelf(id) = Publication!WholeRun(run[id], owner[run[id]])
  BY <1>1, <1>3 DEF Shelf, Publication!WholeRun
<1>5. Publication!WholeRun(run[id], owner[run[id]]) \in Shelves
  BY <1>1, <1>2 DEF Publication!WholeRun, Shelves
<1>6. Shelf(id) # None
  BY <1>4, <1>5, NoneAssumption
<1>7. Shelf(id).row = run[id]
  BY <1>4 DEF Publication!WholeRun
<1> QED BY <1>1, <1>2, <1>4, <1>6, <1>7

LEMMA ShelfKept ==
  ASSUME IInv, [Next]_vars, NEW id \in RunIds, Dispatched(id)
  PROVE  Dispatched(id)' /\ Shelf(id)' = Shelf(id)
<1>1. IInv'
  BY NextPreserves
<1>2. /\ Dispatched(id)'
      /\ run'[id] = run[id]
      /\ \A s \in Stages : object'[s][id] = object[s][id]
      /\ \A u \in Users : <<id, u, "write">> \in access' <=> <<id, u, "write">> \in access
  BY FrozenStep DEF Kept
<1>3. public = TRUE /\ public' = TRUE
  BY <1>1, <1>2 DEF IInv, HInv, QueuedRunIsComplete, Complete, TypeOK, StoreTypeOK
<1>4. object'["code"][id] = object["code"][id] /\ object'["input"][id] = object["input"][id]
  BY <1>2 DEF Stages
<1>5. {u \in Users : <<id, u, "write">> \in access'} = {u \in Users : <<id, u, "write">> \in access}
  BY <1>2
<1> QED BY <1>2, <1>3, <1>4, <1>5 DEF Shelf

\* Steps that put no new run into the queue.
LEMMA ShelvesKept ==
  ASSUME IInv, [Next]_vars, \A id \in RunIds : Dispatched(id)' <=> Dispatched(id)
  PROVE  shelfBar' = shelfBar
<1>1. ASSUME NEW id \in RunIds PROVE Shelf(id)' = Shelf(id)
  <2>1. CASE Dispatched(id)
    BY <2>1, ShelfKept
  <2>2. CASE ~Dispatched(id)
    BY <2>2 DEF Shelf
  <2> QED BY <2>1, <2>2
<1> QED BY <1>1 DEF shelfBar

-----------------------------------------------------------------------------
(* The answers.                                                            *)

LEMMA OneAnswer ==
  ASSUME NEW r \in Requests, \A q \in Requests : q # r => pc'[q] = pc[q]
  PROVE  answerBar' = [answerBar EXCEPT ![r] = Answer(r)']
<1>1. \A q \in Requests : q # r => Answer(q)' = Answer(q)
  BY DEF Answer
<1> QED BY <1>1 DEF answerBar

LEMMA AnswerOf ==
  ASSUME IInv, NEW r \in Requests
  PROVE  /\ answerBar[r] = Answer(r)
         /\ pc[r] \in Calls => Answer(r) = "open"
         /\ pc[r] = "idle" => Answer(r) = "none"
BY DEF answerBar, Answer, Calls, Settled, Answers

\* A step of a handler that shows nothing to runners: its answer, if any, is a
\* refusal.
LEMMA HiddenStep ==
  ASSUME IInv, [Next]_vars, NEW r \in Requests,
         pc[r] \in Calls, pc'[r] \in Calls \cup (Settled \ {"ok"}),
         \A q \in Requests : q # r => pc'[q] = pc[q],
         UNCHANGED taken, shelfBar' = shelfBar
  PROVE  Publication!Refuse({r}) \/ UNCHANGED <<shelfBar, answerBar, taken>>
<1>1. /\ answerBar' = [answerBar EXCEPT ![r] = Answer(r)']
      /\ answerBar[r] = "open"
  BY OneAnswer, AnswerOf
<1>2. Answer(r)' \in {"open", "refused"}
  BY DEF Answer, Calls, Settled, Answers
<1>3. CASE Answer(r)' = "open"
  <2>1. answerBar' = answerBar
    BY <1>1, <1>3 DEF answerBar
  <2> QED BY <2>1
<1>4. CASE Answer(r)' = "refused"
  <2>1. answerBar' = [q \in Requests |-> IF q \in {r} THEN "refused" ELSE answerBar[q]]
    BY <1>1, <1>4 DEF answerBar
  <2> QED BY <1>1, <2>1 DEF Publication!Refuse, shelfBar, answerBar
<1> QED BY <1>2, <1>3, <1>4

-----------------------------------------------------------------------------
(* The refinement, step by step.                                           *)

LEMMA ArriveReceives ==
  ASSUME IInv, [Next]_vars, NEW r \in Requests, NEW k, Arrive(r, k)
  PROVE  Publication!Receive(r)
<1>1. /\ pc[r] = "idle" /\ pc'[r] = "auth"
      /\ \A q \in Requests : q # r => pc'[q] = pc[q]
      /\ UNCHANGED redisVars
  BY DEF Arrive, Goto, OnlyHandler, IInv, HInv, TypeOK, HandlerTypeOK
<1>2. shelfBar' = shelfBar
  BY <1>1, SameQueue, ShelvesKept DEF redisVars
<1>3. answerBar' = [answerBar EXCEPT ![r] = Answer(r)'] /\ answerBar[r] = "none"
  BY <1>1, OneAnswer, AnswerOf
<1>4. Answer(r)' = "open"
  BY <1>1 DEF Answer, Settled, Answers
<1> QED BY <1>1, <1>2, <1>3, <1>4 DEF Publication!Receive, shelfBar, answerBar, redisVars

\* Everything a handler does before its last call is hidden.
LEMMA StepHidden ==
  ASSUME IInv, [Next]_vars, NEW r \in Requests, Step(r), ~EnqueueRunRequest(r)
  PROVE  Publication!Refuse({r}) \/ UNCHANGED <<shelfBar, answerBar, taken>>
<1>1. /\ pc[r] \in Calls /\ pc'[r] \in Calls \cup (Settled \ {"ok"})
      /\ \A q \in Requests : q # r => pc'[q] = pc[q]
      /\ UNCHANGED redisVars
  <2> USE DEF Goto, Calls, Settled, Answers
  <2>0. pc \in [Requests -> {"idle"} \cup Calls \cup Settled]
    BY DEF IInv, HInv, TypeOK, HandlerTypeOK
  <2>1. CASE Auth(r) \/ Validate(r)
    BY <2>0, <2>1 DEF Auth, Validate, OnlyHandler
  <2>2. CASE InsertRun(r) \/ InsertAccess(r) \/ WriteFile(r)
    BY <2>0, <2>2 DEF InsertRun, InsertAccess, WriteFile
  <2>3. CASE MakeBucket(r) \/ BucketExists(r) \/ SetBucketPolicy(r)
    BY <2>0, <2>3 DEF MakeBucket, BucketExists, SetBucketPolicy, OnlyHandler
  <2>4. CASE FPutObject(r) \/ RemoveFile(r)
    BY <2>0, <2>4 DEF FPutObject, AfterUpload, RemoveFile
  <2> QED BY <2>1, <2>2, <2>3, <2>4 DEF Step
<1>2. shelfBar' = shelfBar
  BY <1>1, SameQueue, ShelvesKept DEF redisVars
<1> QED BY <1>1, <1>2, HiddenStep DEF redisVars

\* A run that comes into the queue appears whole, as the only one of its request.
LEMMA RunAppears ==
  ASSUME RowInv, [Next]_vars, NEW id \in RunIds, NEW r \in Requests, run[id] = r,
         ~Dispatched(id), Dispatched(id)',
         \A i \in RunIds : i # id => (Dispatched(i)' <=> Dispatched(i)),
         UNCHANGED <<run, access, object, public, owner, taken>>
  PROVE  Publication!Appear(r)
<1>0. IInv /\ IInv'
  BY NextPreserves DEF RowInv
<1>1. ~Publication!Published(r)
  <2>1. SUFFICES ASSUME NEW i \in RunIds, Shelf(i) # None, Shelf(i).row = r PROVE FALSE
    BY DEF Publication!Published
  <2>2. Dispatched(i)
    BY <2>1, NothingOnShelf
  <2>3. run[i] = r
    BY <1>0, <2>1, <2>2, OnShelf
  <2>4. i = id
    BY <2>3, NoneAssumption DEF RowInv, OneRow
  <2> QED BY <2>2, <2>4
<1>2. shelfBar[id] = None
  BY NothingOnShelf DEF shelfBar
<1>3. owner[r] \in Users /\ Shelf(id)' = Publication!WholeRun(r, owner[r])
  <2>1. Complete(id)'
    BY <1>0 DEF IInv, HInv, QueuedRunIsComplete
  <2>2. /\ <<id, owner[r], "write">> \in access
        /\ object["code"][id] = r /\ object["input"][id] = r
        /\ public = TRUE
    BY <1>0, <2>1 DEF Complete, Stages, IInv, HInv, TypeOK, StoreTypeOK
  <2>3. owner[r] \in Users
    BY <1>0, <2>2 DEF IInv, HInv, TypeOK, StoreTypeOK
  <2>4. {u \in Users : <<id, u, "write">> \in access} = {owner[r]}
    BY <1>0, <2>2, <2>3 DEF IInv, HInv, AccessNamesCreator
  <2>5. Shelf(id)' = [row |-> run[id], code |-> object["code"][id],
                      input |-> object["input"][id], public |-> public,
                      writers |-> {u \in Users : <<id, u, "write">> \in access}]
    BY DEF Shelf
  <2> QED BY <2>2, <2>3, <2>4, <2>5 DEF Publication!WholeRun
<1>4. shelfBar' = [shelfBar EXCEPT ![id] = Publication!WholeRun(r, owner[r])]
  <2>1. ASSUME NEW i \in RunIds, i # id PROVE Shelf(i)' = Shelf(i)
    <3>1. CASE Dispatched(i)
      BY <1>0, <3>1, ShelfKept
    <3>2. CASE ~Dispatched(i)
      BY <2>1, <3>2 DEF Shelf
    <3> QED BY <3>1, <3>2
  <2> QED BY <1>3, <2>1 DEF shelfBar
<1> QED BY <1>1, <1>2, <1>3, <1>4 DEF Publication!Appear, shelfBar

\* The last call publishes the run when its reply arrives, unless a late attempt
\* did: then it only answers.
LEMMA EnqueuePublishes ==
  ASSUME RowInv, [Next]_vars, NEW r \in Requests, EnqueueRunRequest(r)
  PROVE  \/ Publication!Publish(r) \/ Publication!Accept(r) \/ Publication!Refuse({r})
         \/ UNCHANGED <<shelfBar, answerBar, taken>>
<1>0. IInv
  BY DEF RowInv
<1>1. /\ pc[r] = "enqueue" /\ pc'[r] \in {"enqueue", "ok", "error"}
      /\ \A q \in Requests : q # r => pc'[q] = pc[q]
      /\ taken' = taken /\ runID' = runID
      /\ UNCHANGED <<run, access, object, public, owner>>
  BY <1>0 DEF EnqueueRunRequest, Goto, IInv, HInv, TypeOK, HandlerTypeOK, dbVars,
              minioVars, requestVars
<1>2. PICK id \in RunIds : id = runID[r] /\ run[id] = r
  BY <1>0, <1>1 DEF IInv, HInv, RowsInv, HasRow, Uploaded
<1>3. /\ answerBar' = [answerBar EXCEPT ![r] = Answer(r)'] /\ answerBar[r] = "open"
      /\ Answer(r)' = IF pc'[r] = "ok" THEN "accepted"
                      ELSE IF pc'[r] = "error" THEN "refused" ELSE "open"
  <2>1. answerBar' = [answerBar EXCEPT ![r] = Answer(r)']
    BY <1>1, OneAnswer
  <2>2. answerBar[r] = "open"
    BY <1>0, <1>1, AnswerOf DEF Calls
  <2>3. Answer(r)' = IF pc'[r] = "ok" THEN "accepted"
                     ELSE IF pc'[r] = "error" THEN "refused" ELSE "open"
    BY <1>1 DEF Answer, Settled, Answers
  <2> QED BY <2>1, <2>2, <2>3
<1>4. CASE pc'[r] # "ok"
  <2>1. queue' = queue
    BY <1>0, <1>4 DEF EnqueueRunRequest, Goto, IInv, HInv, TypeOK, HandlerTypeOK
  <2>2. shelfBar' = shelfBar
    BY <1>0, <1>1, <2>1, SameQueue, ShelvesKept
  <2> QED BY <1>0, <1>1, <1>4, <2>2, HiddenStep DEF Calls, Settled, Answers
<1>5. CASE pc'[r] = "ok"
  <2>1. queue' = Pushed(id)
    BY <1>0, <1>1, <1>2, <1>5, PushAttemptsAssumption
       DEF EnqueueRunRequest, Goto, IInv, HInv, TypeOK, HandlerTypeOK
  <2>2. \A i \in RunIds : Dispatched(i)' <=> Dispatched(i) \/ i = id
    BY <1>0, <1>1, <2>1, PushDispatches DEF IInv, HInv, TypeOK, StoreTypeOK
  <2>3. CASE Dispatched(id)
    <3>1. shelfBar' = shelfBar
      BY <1>0, <2>2, <2>3, ShelvesKept
    <3>2. shelfBar[id] = Shelf(id) /\ Shelf(id) # None /\ Shelf(id).row = r
      BY <1>0, <1>2, <2>3, OnShelf DEF shelfBar
    <3>3. Publication!Published(r)
      BY <1>2, <3>2 DEF Publication!Published, shelfBar
    <3> QED BY <1>1, <1>3, <1>5, <3>1, <3>3 DEF Publication!Accept, shelfBar, answerBar
  <2>4. CASE ~Dispatched(id)
    <3>1. Publication!Appear(r)
      BY <1>1, <1>2, <2>2, <2>4, RunAppears
    <3>2. answerBar' = [answerBar EXCEPT ![r] = "accepted"]
      BY <1>3, <1>5
    <3> QED BY <1>3, <3>1, <3>2 DEF Publication!Publish, answerBar
  <2> QED BY <2>3, <2>4
<1> QED BY <1>4, <1>5

\* A command that nobody waits for any more publishes its run, unless another one
\* did, for a request that is still open or was refused.
LEMMA LatePublishes ==
  ASSUME RowInv, [Next]_vars, NEW id \in RunIds, ApplyLate(id)
  PROVE  \/ \E r \in Requests : Publication!Publish(r) \/ Publication!PublishLate(r)
         \/ UNCHANGED <<shelfBar, answerBar, taken>>
<1>0. IInv
  BY DEF RowInv
<1>1. /\ pc' = pc /\ taken' = taken
      /\ UNCHANGED <<run, access, object, public, owner>>
  BY DEF ApplyLate, dbVars, minioVars, requestVars
<1>2. \A i \in RunIds : Dispatched(i)' <=> Dispatched(i) \/ i = id
  BY <1>0, PushDispatches DEF ApplyLate, IInv, HInv, TypeOK, StoreTypeOK
<1>3. answerBar' = answerBar
  BY <1>1 DEF answerBar, Answer
<1>4. CASE Dispatched(id)
  <2>1. shelfBar' = shelfBar
    BY <1>0, <1>2, <1>4, ShelvesKept
  <2> QED BY <1>1, <1>3, <2>1
<1>5. CASE ~Dispatched(id)
  <2>1. PICK r \in Requests : r = run[id]
    BY <1>0 DEF ApplyLate, IInv, InflightInv, HInv, TypeOK, StoreTypeOK
  <2>2. pc[r] \in {"enqueue", "ok", "error", "dead"}
    BY <1>0, <2>1 DEF ApplyLate, IInv, InflightInv
  <2>3. Publication!Appear(r)
    BY <1>1, <1>2, <1>5, <2>1, RunAppears
  <2>4. CASE pc[r] = "enqueue"
    <3>1. answerBar[r] = "open"
      BY <1>0, <2>4, AnswerOf DEF Calls
    <3>2. answerBar' = [answerBar EXCEPT ![r] = "open"]
      BY <1>3, <3>1 DEF answerBar
    <3> QED BY <2>3, <3>1, <3>2 DEF Publication!Publish, answerBar
  <2>5. CASE pc[r] = "ok"
    <3>1. Dispatched(runID[r]) /\ runID[r] \in RunIds /\ run[runID[r]] = r
      BY <1>0, <2>5 DEF IInv, HInv, AnswerInv, RowsInv, HasRow, Uploaded
    <3>2. runID[r] = id
      BY <2>1, <3>1, NoneAssumption DEF RowInv, OneRow
    <3> QED BY <1>5, <3>1, <3>2
  <2>6. CASE pc[r] \in {"error", "dead"}
    <3>1. answerBar[r] = "refused"
      BY <2>6 DEF answerBar, Answer, Settled, Answers
    <3> QED BY <1>3, <2>3, <3>1 DEF Publication!PublishLate, answerBar
  <2> QED BY <2>2, <2>4, <2>5, <2>6
<1> QED BY <1>4, <1>5

LEMMA TakeDelivers ==
  ASSUME IInv, [Next]_vars, RunnerTake
  PROVE  \E id \in RunIds : Publication!Deliver(id)
<1> DEFINE id == queue[Len(queue)]
<1>1. /\ id \in RunIds /\ Len(queue) \in Nat \ {0}
      /\ taken' = [taken EXCEPT ![id] = @ + 1]
  BY TakenQueue DEF IInv, HInv
<1>2. pc' = pc /\ shelfBar' = shelfBar
  BY TakeDispatches, ShelvesKept DEF RunnerTake, IInv, HInv
<1>3. answerBar' = answerBar
  BY <1>2 DEF answerBar, Answer
<1>4. Dispatched(id)
  <2>1. queue \in Seq(RunIds)
    BY DEF IInv, HInv, TypeOK, StoreTypeOK
  <2>2. id \in ToSet(queue)
    BY <1>1, <2>1, InToSet
  <2> QED BY <2>2 DEF Dispatched
<1>5. shelfBar[id] # None
  BY <1>1, <1>4, OnShelf DEF shelfBar
<1> QED BY <1>1, <1>2, <1>3, <1>5 DEF Publication!Deliver, shelfBar, answerBar

LEMMA CrashRefuses ==
  ASSUME IInv, [Next]_vars, Crash
  PROVE  \E R \in SUBSET Requests : Publication!Refuse(R)
<1> DEFINE R == {r \in Requests : Working(r)}
<1>1. UNCHANGED <<queue, taken>> /\ pc' = [r \in Requests |-> IF Working(r) THEN "dead" ELSE pc[r]]
  BY DEF Crash
<1>2. shelfBar' = shelfBar
  BY <1>1, SameQueue, ShelvesKept DEF redisVars
<1>3. \A r \in Requests : Answer(r)' = IF r \in R THEN "refused" ELSE Answer(r)
  BY <1>1 DEF Answer, Settled, Answers
<1>4. answerBar' = [r \in Requests |-> IF r \in R THEN "refused" ELSE answerBar[r]]
  BY <1>3 DEF answerBar
<1>5. \A r \in R : answerBar[r] = "open"
  BY AnswerOf DEF Working
<1> QED BY <1>1, <1>2, <1>4, <1>5 DEF Publication!Refuse, shelfBar, answerBar

LEMMA PublicationStep == RowInv /\ [Next]_vars => [Publication!Next]_(Publication!vars)
<1> SUFFICES ASSUME RowInv, [Next]_vars
             PROVE  Publication!Next \/ UNCHANGED <<shelfBar, answerBar, taken>>
  BY DEF Publication!vars, shelfBar, answerBar
<1>0. IInv
  BY DEF RowInv
<1>1. ASSUME NEW r \in Requests,
             CreateEA(r) \/ CreateGP(r) \/ CreateML(r) \/ CreatePSO(r)
      PROVE  Publication!Next
  <2>1. \E k \in {"ea", "gp", "ml", "pso"} : Arrive(r, k)
    BY <1>1 DEF CreateEA, CreateGP, CreateML, CreatePSO
  <2> QED BY <1>0, <2>1, ArriveReceives DEF Publication!Next
<1>2. ASSUME NEW r \in Requests, Step(r)
      PROVE  Publication!Next \/ UNCHANGED <<shelfBar, answerBar, taken>>
  <2>1. \/ Publication!Publish(r) \/ Publication!Accept(r) \/ Publication!Refuse({r})
        \/ UNCHANGED <<shelfBar, answerBar, taken>>
    BY <1>0, <1>2, StepHidden, EnqueuePublishes
  <2> QED BY <2>1 DEF Publication!Next
<1>3. CASE RunnerTake
  BY <1>0, <1>3, TakeDelivers DEF Publication!Next
<1>4. CASE Crash
  BY <1>0, <1>4, CrashRefuses DEF Publication!Next
<1>5. CASE UNCHANGED vars \/ \E r \in Requests : Cancel(r)
  <2>1. pc' = pc /\ UNCHANGED redisVars
    BY <1>5 DEF vars, Cancel
  <2>2. shelfBar' = shelfBar
    BY <1>0, <2>1, SameQueue, ShelvesKept DEF redisVars
  <2>3. answerBar' = answerBar
    BY <2>1 DEF answerBar, Answer
  <2> QED BY <2>1, <2>2, <2>3 DEF redisVars
<1>6. ASSUME NEW id \in RunIds, ApplyLate(id)
      PROVE  Publication!Next \/ UNCHANGED <<shelfBar, answerBar, taken>>
  BY <1>6, LatePublishes DEF Publication!Next
<1> QED BY <1>1, <1>2, <1>3, <1>4, <1>5, <1>6 DEF Next, Quiescent

\* RunSubmission implements RunPublication: to runners and clients, the calls of a
\* submission to five stores, with their errors, lost replies, retries and crashes,
\* are one step in which a whole run appears, once.  An acceptance comes with that
\* step or after it; a refusal says nothing about it, and it may still come.
THEOREM PublicationRefinement == Spec => ImplementsPublication
<1>1. Init => Publication!Init
  <2> SUFFICES ASSUME Init PROVE Publication!Init
    OBVIOUS
  <2>1. \A id \in RunIds : Shelf(id) = None
    BY DEF Init, Shelf, Dispatched, ToSet
  <2>2. shelfBar = [id \in RunIds |-> None]
    BY <2>1 DEF shelfBar
  <2>3. answerBar = [r \in Requests |-> "none"]
    <3>1. ASSUME NEW r \in Requests PROVE pc[r] = "idle" /\ Answer(r) = answerBar[r]
      BY DEF Init, answerBar
    <3>2. \A r \in Requests : Answer(r) = "none"
      BY <3>1, InitIInv, AnswerOf
    <3> QED BY <3>2 DEF answerBar
  <2>4. taken = [id \in RunIds |-> 0]
    BY DEF Init
  <2> QED BY <2>2, <2>3, <2>4 DEF Publication!Init, shelfBar, answerBar
<1> QED BY RowInvariance, <1>1, PublicationStep, PTL
        DEF Spec, ImplementsPublication, Publication!Spec
-----------------------------------------------------------------------------
(* Copies in the queue.                                                    *)

\* The attempts that Redis applied, and all of those made so far: no more than
\* the handler counts, and one is left as long as the handler is at it.
Applied(id) == Cardinality(Copies(id)) + taken[id]
Sent(id) == Applied(id) + inflight[id]

AttemptsInv ==
  \A r \in Requests, id \in RunIds :
    pc[r] = "enqueue" /\ runID[r] = id => Sent(id) <= tries[r]

CopiesInv == IInv /\ CopiesBounded /\ AttemptsInv

LEMMA ShiftedUp ==
  ASSUME NEW S \in SUBSET Int, IsFiniteSet(S)
  PROVE  /\ IsFiniteSet({i + 1 : i \in S})
         /\ Cardinality({i + 1 : i \in S}) = Cardinality(S)
<1> DEFINE T == {i + 1 : i \in S}
           f == [i \in S |-> i + 1]
<1>1. f \in Bijection(S, T)
  BY DEF Bijection, Injection, Surjection, IsInjective
<1>2. ExistsBijection(S, T)
  BY <1>1 DEF ExistsBijection
<1> QED BY <1>2, FS_Bijection

LEMMA CopiesFinite ==
  ASSUME TypeOK, NEW id \in RunIds
  PROVE  IsFiniteSet(Copies(id)) /\ Cardinality(Copies(id)) \in Nat /\ Applied(id) \in Nat
<1>1. queue \in Seq(RunIds) /\ taken[id] \in Nat
  BY DEF TypeOK, StoreTypeOK
<1>2. IsFiniteSet(1..Len(queue))
  BY <1>1, FS_Interval
<1>3. Copies(id) \in SUBSET (1..Len(queue))
  BY <1>1 DEF Copies
<1>4. IsFiniteSet(Copies(id))
  BY <1>2, <1>3, FS_Subset
<1>5. Cardinality(Copies(id)) \in Nat
  BY <1>4, FS_CardinalityType
<1> QED BY <1>1, <1>4, <1>5 DEF Applied

LEMMA SameCopies ==
  ASSUME UNCHANGED <<queue, taken>>, NEW id \in RunIds
  PROVE  Applied(id)' = Applied(id)
BY DEF Applied, Copies

LEMMA PushedCopies ==
  ASSUME TypeOK, NEW x \in RunIds,
         queue' = Pushed(x), UNCHANGED taken, NEW id \in RunIds
  PROVE  Applied(id)' = IF id = x THEN Applied(id) + 1 ELSE Applied(id)
<1> DEFINE C == Copies(id)
           D == {i + 1 : i \in C}
<1>1. queue \in Seq(RunIds) /\ taken[id] \in Nat /\ Len(queue) \in Nat
  BY DEF TypeOK, StoreTypeOK
<1>2. /\ queue' \in Seq(RunIds) /\ Len(queue') = Len(queue) + 1
      /\ queue'[1] = x
      /\ \A i \in 1..Len(queue) : i + 1 \in 1..Len(queue') /\ queue'[i + 1] = queue[i]
      /\ \A i \in 1..Len(queue') :
           i # 1 => i - 1 \in 1..Len(queue) /\ queue'[i] = queue[i - 1]
  BY <1>1, PushedQueue
<1>3. /\ C = {i \in 1..Len(queue) : queue[i] = id}
      /\ Copies(id)' = {i \in 1..Len(queue') : queue'[i] = id}
  BY <1>1, <1>2 DEF Copies
<1>4. IsFiniteSet(C) /\ Cardinality(C) \in Nat
  BY CopiesFinite
<1> HIDE DEF C
<1>5. IsFiniteSet(D) /\ Cardinality(D) = Cardinality(C)
  <2>1. C \in SUBSET Int
    BY <1>3
  <2> QED BY <1>4, <2>1, ShiftedUp
<1>6. 1 \notin D
  BY <1>3
<1>7. Copies(id)' = IF id = x THEN D \cup {1} ELSE D
  <2>1. ASSUME NEW i, i \in D PROVE i \in 1..Len(queue') /\ queue'[i] = id /\ i # 1
    BY <1>2, <1>3, <1>6, <2>1
  <2>2. ASSUME NEW i \in 1..Len(queue'), queue'[i] = id, i # 1 PROVE i \in D
    <3>1. i - 1 \in C
      BY <1>2, <1>3, <2>2
    <3>2. (i - 1) + 1 = i
      OBVIOUS
    <3> QED BY <3>1, <3>2
  <2>3. 1 \in 1..Len(queue')
    BY <1>1, <1>2
  <2> HIDE DEF D
  <2> QED BY <1>2, <1>3, <2>1, <2>2, <2>3
<1> HIDE DEF D
<1>8. Cardinality(Copies(id)') = IF id = x THEN Cardinality(C) + 1 ELSE Cardinality(C)
  BY <1>5, <1>6, <1>7, FS_AddElement
<1>9. /\ Applied(id)' = Cardinality(Copies(id)') + taken[id]
      /\ Applied(id) = Cardinality(C) + taken[id]
  BY DEF Applied, C
<1> QED BY <1>1, <1>4, <1>8, <1>9

LEMMA TakenCopies ==
  ASSUME TypeOK, RunnerTake, NEW id \in RunIds
  PROVE  Applied(id)' = Applied(id)
<1> DEFINE C == Copies(id)
           n == Len(queue)
<1>1. queue \in Seq(RunIds) /\ taken[id] \in Nat
  BY DEF TypeOK, StoreTypeOK
<1>2. /\ n \in Nat \ {0}
      /\ queue' \in Seq(RunIds) /\ Len(queue') = n - 1
      /\ \A i \in 1..(n - 1) : queue'[i] = queue[i]
      /\ taken'[id] = IF id = queue[n] THEN taken[id] + 1 ELSE taken[id]
  BY TakenQueue
<1>3. /\ C = {i \in 1..n : queue[i] = id}
      /\ Copies(id)' = {i \in 1..(n - 1) : queue'[i] = id}
  BY <1>1, <1>2 DEF Copies
<1>4. IsFiniteSet(C) /\ Cardinality(C) \in Nat
  BY CopiesFinite
<1> HIDE DEF C, n
<1>5. Copies(id)' = C \ {n}
  BY <1>2, <1>3
<1>6. n \in C <=> id = queue[n]
  BY <1>2, <1>3
<1>7. Cardinality(Copies(id)') = IF id = queue[n] THEN Cardinality(C) - 1 ELSE Cardinality(C)
  BY <1>4, <1>5, <1>6, FS_RemoveElement
<1>8. /\ Applied(id)' = Cardinality(Copies(id)') + taken'[id]
      /\ Applied(id) = Cardinality(C) + taken[id]
  <2>1. Applied(id)' = Cardinality(Copies(id)') + taken'[id]
    BY DEF Applied
  <2>2. Applied(id) = Cardinality(C) + taken[id]
    BY DEF Applied, C
  <2> QED BY <2>1, <2>2
<1>9. CASE id = queue[n]
  <2>1. taken'[id] = taken[id] + 1 /\ Cardinality(Copies(id)') = Cardinality(C) - 1
    BY <1>2, <1>7, <1>9
  <2> QED BY <1>1, <1>4, <1>8, <2>1
<1>10. CASE id # queue[n]
  BY <1>2, <1>7, <1>8, <1>10
<1> QED BY <1>9, <1>10

LEMMA SentCounts ==
  ASSUME TypeOK, NEW id \in RunIds
  PROVE  /\ Sent(id) = Applied(id) + inflight[id] /\ Sent(id) \in Nat
         /\ Applied(id) \in Nat /\ inflight[id] \in Nat
BY CopiesFinite DEF Sent, TypeOK, StoreTypeOK

LEMMA SameSent ==
  ASSUME UNCHANGED redisVars, NEW id \in RunIds
  PROVE  Sent(id)' = Sent(id)
BY SameCopies DEF redisVars, Sent

\* A run that nobody can see, and nobody will, has been sent to nobody.
LEMMA NothingSent ==
  ASSUME TypeOK, NEW id \in RunIds, ~Dispatched(id), inflight[id] = 0
  PROVE  Sent(id) = 0
<1>1. queue \in Seq(RunIds) /\ taken[id] \in Nat
  BY DEF TypeOK, StoreTypeOK
<1>2. taken[id] = 0 /\ id \notin ToSet(queue)
  BY <1>1 DEF Dispatched
<1>3. Copies(id) = {}
  BY <1>1, <1>2, InToSet DEF Copies
<1> QED BY <1>2, <1>3, FS_EmptySet DEF Sent, Applied

\* Two handlers never send the same run.
LEMMA EnqueueOwnRun ==
  ASSUME IInv, NEW q \in Requests, pc[q] = "enqueue"
  PROVE  runID[q] \in RunIds /\ run[runID[q]] = q
BY DEF IInv, HInv, RowsInv, HasRow, Uploaded

\* Steps that leave the queue alone and bring no handler to its last call.
LEMMA NothingNewSent ==
  ASSUME CopiesInv, UNCHANGED redisVars,
         \A q \in Requests : pc'[q] = "enqueue" =>
           pc[q] = "enqueue" /\ runID'[q] = runID[q] /\ tries'[q] = tries[q]
  PROVE  CopiesBounded' /\ AttemptsInv'
<1>1. \A id \in RunIds : Sent(id)' = Sent(id)
  BY SameSent
<1>2. ASSUME NEW id \in RunIds PROVE Sent(id)' <= PushAttempts
  BY <1>1 DEF CopiesInv, CopiesBounded, Sent, Applied
<1>3. CopiesBounded'
  BY <1>2 DEF CopiesBounded, Sent, Applied
<1>4. AttemptsInv'
  BY <1>1 DEF CopiesInv, AttemptsInv
<1> QED BY <1>3, <1>4

LEMMA RemoveFileCopies ==
  ASSUME CopiesInv, NEW r \in Requests, RemoveFile(r)
  PROVE  CopiesBounded' /\ AttemptsInv'
<1>0. IInv /\ TypeOK
  BY DEF CopiesInv, IInv, HInv
<1>1. /\ pc[r] = "remove" /\ runID' = runID /\ tries' = tries
      /\ UNCHANGED redisVars
      /\ \A q \in Requests : q # r => pc'[q] = pc[q]
  BY <1>0 DEF RemoveFile, Goto, TypeOK, HandlerTypeOK
<1>2. \A id \in RunIds : Sent(id)' = Sent(id)
  BY <1>1, SameSent
<1>3. ASSUME NEW id \in RunIds PROVE Sent(id)' <= PushAttempts
  BY <1>2 DEF CopiesInv, CopiesBounded, Sent, Applied
<1>4. ASSUME NEW q \in Requests, NEW id \in RunIds, pc'[q] = "enqueue", runID[q] = id
      PROVE  Sent(id) <= tries[q]
  <2>1. CASE q # r
    BY <1>1, <1>4, <2>1 DEF CopiesInv, AttemptsInv
  <2>2. CASE q = r
    <3>1. run[id] = r
      BY <1>0, <1>1, <1>4, <2>2 DEF IInv, HInv, RowsInv, HasRow, Uploaded
    <3>2. ~Dispatched(id)
      BY <1>0, <1>1, <3>1 DEF IInv, HInv, QueueInv
    <3>3. inflight[id] = 0
      <4>1. ~(inflight[id] > 0)
        BY <1>0, <1>1, <3>1 DEF IInv, InflightInv
      <4>2. inflight[id] \in Nat
        BY <1>0 DEF TypeOK, StoreTypeOK
      <4> QED BY <4>1, <4>2
    <3>4. Sent(id) = 0
      BY <1>0, <3>2, <3>3, NothingSent
    <3>5. tries[q] \in Nat
      BY <1>0 DEF TypeOK, HandlerTypeOK
    <3> QED BY <3>4, <3>5
  <2> QED BY <2>1, <2>2
<1>5. CopiesBounded'
  BY <1>3 DEF CopiesBounded, Sent, Applied
<1>6. AttemptsInv'
  BY <1>1, <1>2, <1>4 DEF AttemptsInv
<1> QED BY <1>5, <1>6

LEMMA EnqueueCopies ==
  ASSUME CopiesInv, NEW r \in Requests, EnqueueRunRequest(r)
  PROVE  CopiesBounded' /\ AttemptsInv'
<1>0. IInv /\ TypeOK
  BY DEF CopiesInv, IInv, HInv
<1>1. /\ pc[r] = "enqueue" /\ runID' = runID /\ taken' = taken
      /\ tries[r] \in Nat /\ tries[r] + 1 <= PushAttempts /\ PushAttempts \in Nat
      /\ \A q \in Requests : q # r => pc'[q] = pc[q] /\ tries'[q] = tries[q]
  <2>1. tries[r] < PushAttempts
    BY <1>0 DEF IInv, HInv, TriesInv, EnqueueRunRequest
  <2> QED BY <1>0, <2>1, PushAttemptsAssumption
          DEF EnqueueRunRequest, Goto, TypeOK, HandlerTypeOK
<1>2. runID[r] \in RunIds
  BY <1>0, <1>1, EnqueueOwnRun
<1>3. \A id \in RunIds :
        Sent(id) \in Nat /\ Sent(id) <= PushAttempts /\ (id = runID[r] => Sent(id) <= tries[r])
  BY <1>0, <1>1, SentCounts DEF CopiesInv, CopiesBounded, AttemptsInv, Sent, Applied
<1>4. /\ \/ queue' = queue /\ inflight' = inflight
         \/ queue' = Pushed(runID[r]) /\ inflight' = inflight
         \/ queue' = queue /\ inflight' = [inflight EXCEPT ![runID[r]] = @ + 1]
      /\ pc'[r] = "enqueue" => tries'[r] = tries[r] + 1
  BY <1>0, <1>1 DEF EnqueueRunRequest, Goto, TypeOK, HandlerTypeOK
<1>5. ASSUME NEW id \in RunIds
      PROVE  /\ Sent(id)' \in Nat
             /\ id = runID[r] => Sent(id)' <= tries[r] + 1
             /\ id # runID[r] => Sent(id)' = Sent(id)
  <2>0. /\ Sent(id) = Applied(id) + inflight[id]
        /\ Sent(id)' = Applied(id)' + inflight'[id]
        /\ Applied(id) \in Nat /\ inflight[id] \in Nat
    BY <1>0, SentCounts DEF Sent
  <2>1. CASE queue' = queue /\ inflight' = inflight
    <3>1. Sent(id)' = Sent(id)
      BY <1>1, <2>1, SameSent DEF redisVars
    <3> QED BY <1>1, <1>3, <3>1
  <2>2. CASE queue' = Pushed(runID[r]) /\ inflight' = inflight
    <3>1. Applied(id)' = IF id = runID[r] THEN Applied(id) + 1 ELSE Applied(id)
      BY <1>0, <1>1, <1>2, <2>2, PushedCopies
    <3> QED BY <1>1, <1>3, <2>0, <2>2, <3>1
  <2>3. CASE queue' = queue /\ inflight' = [inflight EXCEPT ![runID[r]] = @ + 1]
    <3>1. Applied(id)' = Applied(id)
      BY <1>1, <2>3, SameCopies
    <3>2. inflight'[id] = IF id = runID[r] THEN inflight[id] + 1 ELSE inflight[id]
      BY <1>0, <2>3 DEF TypeOK, StoreTypeOK
    <3> QED BY <1>1, <1>3, <2>0, <3>1, <3>2
  <2> QED BY <1>4, <2>1, <2>2, <2>3
<1>6. ASSUME NEW id \in RunIds PROVE Sent(id)' <= PushAttempts
  BY <1>1, <1>3, <1>5
<1>7. ASSUME NEW q \in Requests, NEW id \in RunIds, pc'[q] = "enqueue", runID[q] = id
      PROVE  Sent(id)' <= tries'[q]
  <2>1. CASE q # r
    <3>1. pc[q] = "enqueue" /\ tries'[q] = tries[q]
      BY <1>1, <1>7, <2>1
    <3>2. id # runID[r]
      BY <1>0, <1>1, <1>7, <2>1, <3>1, EnqueueOwnRun
    <3>3. Sent(id) <= tries[q]
      BY <1>7, <3>1 DEF CopiesInv, AttemptsInv
    <3> QED BY <1>5, <3>1, <3>2, <3>3
  <2>2. CASE q = r
    BY <1>4, <1>5, <1>7, <2>2
  <2> QED BY <2>1, <2>2
<1>8. CopiesBounded'
  BY <1>6 DEF CopiesBounded, Sent, Applied
<1>9. AttemptsInv'
  BY <1>1, <1>7 DEF AttemptsInv
<1> QED BY <1>8, <1>9

\* A late command was sent before.
LEMMA LateCopies ==
  ASSUME CopiesInv, NEW x \in RunIds, ApplyLate(x)
  PROVE  CopiesBounded' /\ AttemptsInv'
<1>0. TypeOK
  BY DEF CopiesInv, IInv, HInv
<1>1. UNCHANGED <<pc, runID, tries, taken>>
  BY DEF ApplyLate, localVars
<1>2. ASSUME NEW id \in RunIds PROVE Sent(id)' = Sent(id)
  <2>1. Applied(id)' = IF id = x THEN Applied(id) + 1 ELSE Applied(id)
    BY <1>0, PushedCopies DEF ApplyLate
  <2>2. inflight'[id] = IF id = x THEN inflight[id] - 1 ELSE inflight[id]
    BY <1>0 DEF ApplyLate, TypeOK, StoreTypeOK
  <2>3. /\ Sent(id) = Applied(id) + inflight[id]
        /\ Sent(id)' = Applied(id)' + inflight'[id]
        /\ Applied(id) \in Nat /\ inflight[id] \in Nat
    BY <1>0, SentCounts DEF Sent
  <2> QED BY <2>1, <2>2, <2>3
<1>3. ASSUME NEW id \in RunIds PROVE Sent(id)' <= PushAttempts
  BY <1>2 DEF CopiesInv, CopiesBounded, Sent, Applied
<1>4. CopiesBounded'
  BY <1>3 DEF CopiesBounded, Sent, Applied
<1>5. AttemptsInv'
  BY <1>1, <1>2 DEF CopiesInv, AttemptsInv
<1> QED BY <1>4, <1>5

\* A handler that the crash ends at its last call had an attempt left.
LEMMA CrashCopies ==
  ASSUME CopiesInv, Crash
  PROVE  CopiesBounded' /\ AttemptsInv'
<1>0. IInv /\ TypeOK
  BY DEF CopiesInv, IInv, HInv
<1>1. \A q \in Requests : pc'[q] # "enqueue"
  BY DEF Crash, Working, Calls
<1>2. PICK sent \in SUBSET {runID[r] : r \in {q \in Requests : pc[q] = "enqueue"}} :
        inflight' = [id \in RunIds |-> inflight[id] + (IF id \in sent THEN 1 ELSE 0)]
  BY DEF Crash
<1>3. ASSUME NEW id \in RunIds PROVE Sent(id)' <= PushAttempts
  <2>1. /\ Sent(id) = Applied(id) + inflight[id]
        /\ Sent(id)' = Applied(id)' + inflight'[id]
        /\ Applied(id) \in Nat /\ inflight[id] \in Nat
    BY <1>0, SentCounts DEF Sent
  <2>2. Applied(id)' = Applied(id)
    BY SameCopies DEF Crash
  <2>3. Sent(id) <= PushAttempts
    BY DEF CopiesInv, CopiesBounded, Sent, Applied
  <2>4. CASE id \in sent
    <3>1. PICK r \in Requests : pc[r] = "enqueue" /\ runID[r] = id
      BY <2>4
    <3>2. Sent(id) <= tries[r]
      BY <3>1 DEF CopiesInv, AttemptsInv
    <3>3. tries[r] \in Nat /\ tries[r] < PushAttempts
      BY <1>0, <3>1 DEF IInv, HInv, TriesInv, TypeOK, HandlerTypeOK
    <3>4. inflight'[id] = inflight[id] + 1
      BY <1>2, <2>4
    <3> QED BY <2>1, <2>2, <3>2, <3>3, <3>4, PushAttemptsAssumption
  <2>5. CASE id \notin sent
    <3>1. inflight'[id] = inflight[id]
      BY <1>2, <2>1, <2>5
    <3> QED BY <2>1, <2>2, <2>3, <3>1
  <2> QED BY <2>4, <2>5
<1>4. CopiesBounded'
  BY <1>3 DEF CopiesBounded, Sent, Applied
<1>5. AttemptsInv'
  BY <1>1 DEF AttemptsInv
<1> QED BY <1>4, <1>5

LEMMA TakeCopies ==
  ASSUME CopiesInv, RunnerTake
  PROVE  CopiesBounded' /\ AttemptsInv'
<1>1. \A id \in RunIds : Sent(id)' = Sent(id)
  BY TakenCopies DEF CopiesInv, IInv, HInv, Sent, RunnerTake
<1>2. UNCHANGED <<pc, runID, tries>>
  BY DEF RunnerTake, localVars
<1>3. ASSUME NEW id \in RunIds PROVE Sent(id)' <= PushAttempts
  BY <1>1 DEF CopiesInv, CopiesBounded, Sent, Applied
<1>4. CopiesBounded'
  BY <1>3 DEF CopiesBounded, Sent, Applied
<1>5. AttemptsInv'
  BY <1>1, <1>2 DEF CopiesInv, AttemptsInv
<1> QED BY <1>4, <1>5

LEMMA NextCopies == CopiesInv /\ [Next]_vars => CopiesInv'
<1> SUFFICES ASSUME CopiesInv, [Next]_vars PROVE CopiesBounded' /\ AttemptsInv'
  BY NextPreserves DEF CopiesInv
<1>0. pc \in [Requests -> {"idle"} \cup Calls \cup Settled]
  BY DEF CopiesInv, IInv, HInv, TypeOK, HandlerTypeOK
<1> USE DEF Goto, localVars, redisVars
<1>1. ASSUME NEW r \in Requests,
             CreateEA(r) \/ CreateGP(r) \/ CreateML(r) \/ CreatePSO(r)
      PROVE  CopiesBounded' /\ AttemptsInv'
  <2>1. PICK k \in {"ea", "gp", "ml", "pso"} : Arrive(r, k)
    BY <1>1 DEF CreateEA, CreateGP, CreateML, CreatePSO
  <2> QED BY <1>0, <2>1, NothingNewSent DEF Arrive, OnlyHandler
<1>2. ASSUME NEW r \in Requests, Step(r)
      PROVE  CopiesBounded' /\ AttemptsInv'
  <2>1. CASE Auth(r) \/ Validate(r) \/ BucketExists(r)
    BY <1>0, <2>1, NothingNewSent DEF Auth, Validate, BucketExists, OnlyHandler
  <2>2. CASE InsertRun(r)
    <3>1. /\ pc[r] # "enqueue" /\ pc'[r] # "enqueue"
          /\ \A q \in Requests : q # r => pc'[q] = pc[q] /\ runID'[q] = runID[q]
          /\ tries' = tries /\ UNCHANGED redisVars
      BY <1>0, <2>2 DEF InsertRun, CopiesInv, IInv, HInv, TypeOK, HandlerTypeOK
    <3> QED BY <3>1, NothingNewSent
  <2>3. CASE InsertAccess(r) \/ WriteFile(r)
    BY <1>0, <2>3, NothingNewSent DEF InsertAccess, WriteFile
  <2>4. CASE MakeBucket(r) \/ SetBucketPolicy(r)
    BY <1>0, <2>4, NothingNewSent DEF MakeBucket, SetBucketPolicy
  <2>5. CASE FPutObject(r)
    BY <1>0, <2>5, NothingNewSent DEF FPutObject, AfterUpload
  <2> QED BY <1>2, <2>1, <2>2, <2>3, <2>4, <2>5, RemoveFileCopies, EnqueueCopies DEF Step
<1>3. CASE RunnerTake
  BY <1>3, TakeCopies
<1>4. CASE Crash
  BY <1>4, CrashCopies
<1>5. CASE UNCHANGED vars \/ \E r \in Requests : Cancel(r)
  BY <1>5, NothingNewSent DEF vars, Cancel
<1>6. ASSUME NEW id \in RunIds, ApplyLate(id) PROVE CopiesBounded' /\ AttemptsInv'
  BY <1>6, LateCopies
<1> QED BY <1>1, <1>2, <1>3, <1>4, <1>5, <1>6 DEF Next, Quiescent

\* The retries of the Redis client queue a run more than once, but all the copies
\* that are in the queue, or were, or may yet come, are no more than the attempts
\* of one LPUSH: no second handler, and no second visit of the same one, sends the
\* run again.
THEOREM CopiesAreBounded == Spec => []CopiesBounded
<1>1. Init => CopiesInv
  <2> SUFFICES ASSUME Init PROVE CopiesInv
    OBVIOUS
  <2>1. IInv /\ TypeOK
    BY InitIInv DEF IInv, HInv
  <2>2. ASSUME NEW id \in RunIds PROVE Sent(id) = 0
    <3>1. ~Dispatched(id) /\ inflight[id] = 0
      BY DEF Init, Dispatched, ToSet
    <3> QED BY <2>1, <3>1, NothingSent
  <2>3. CopiesBounded
    BY <2>2, PushAttemptsAssumption DEF CopiesBounded, Sent, Applied
  <2>4. AttemptsInv
    BY DEF Init, AttemptsInv
  <2> QED BY <2>1, <2>3, <2>4 DEF CopiesInv
<1> QED BY <1>1, NextCopies, PTL DEF Spec, CopiesInv
=============================================================================
