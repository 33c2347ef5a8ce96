------------------------ MODULE RunSubmission_proofs ------------------------
(***************************************************************************)
(* Proofs about RunSubmission, for any number of requests, users, runs and *)
(* push attempts.  The invariant of the submission (IInv) is inductive:    *)
(* one lemma per action, and in it one step per part of the invariant.     *)
(* The lemmas of actions with several outcomes first state the effect of   *)
(* the action on the request that takes it and on all others.              *)
(***************************************************************************)
EXTENDS RunSubmission, SequenceTheorems, TLAPS

-----------------------------------------------------------------------------
(* Lemmas about the data: nested functions and the queue.                  *)

LEMMA NestedExcept ==
  ASSUME NEW S, NEW T, NEW V, NEW f \in [S -> [T -> V]],
         NEW s \in S, NEW t \in T, NEW v \in V
  PROVE  /\ [f EXCEPT ![s][t] = v] \in [S -> [T -> V]]
         /\ \A x \in S, y \in T :
              [f EXCEPT ![s][t] = v][x][y] = IF x = s /\ y = t THEN v ELSE f[x][y]
OBVIOUS

LEMMA SameQueue ==
  ASSUME UNCHANGED <<queue, taken>>
  PROVE  \A id \in RunIds : Dispatched(id)' <=> Dispatched(id)
BY DEF Dispatched, ToSet

LEMMA InToSet ==
  ASSUME NEW S, NEW s \in Seq(S), NEW x
  PROVE  x \in ToSet(s) <=> \E i \in 1..Len(s) : s[i] = x
BY DEF ToSet

\* LPUSH adds at the head and moves the list up by one.
LEMMA PushedQueue ==
  ASSUME queue \in Seq(RunIds), NEW id \in RunIds,
         queue' = Pushed(id)
  PROVE  /\ queue' \in Seq(RunIds)
         /\ Len(queue') = Len(queue) + 1
         /\ queue'[1] = id
         /\ \A i \in 1..Len(queue) : i + 1 \in 1..Len(queue') /\ queue'[i + 1] = queue[i]
         /\ \A i \in 1..Len(queue') :
              i # 1 => i - 1 \in 1..Len(queue) /\ queue'[i] = queue[i - 1]
<1> DEFINE one == <<id>>
<1>1. /\ one \in Seq(RunIds) /\ Len(one) = 1 /\ one[1] = id
      /\ queue' = one \o queue
  BY DEF Pushed
<1> HIDE DEF one
<1>2. /\ queue' \in Seq(RunIds)
      /\ Len(queue') = 1 + Len(queue)
      /\ \A i \in 1..(1 + Len(queue)) :
           queue'[i] = IF i <= 1 THEN one[i] ELSE queue[i - 1]
  <2>1. /\ one \o queue \in Seq(RunIds)
        /\ Len(one \o queue) = Len(one) + Len(queue)
        /\ \A i \in 1..(Len(one) + Len(queue)) :
             (one \o queue)[i] = IF i <= Len(one) THEN one[i] ELSE queue[i - Len(one)]
    BY <1>1, ConcatProperties
  <2>2. QED
    BY <1>1, <2>1
<1>3. QED
  BY <1>1, <1>2

LEMMA PushDispatches ==
  ASSUME queue \in Seq(RunIds), NEW x \in RunIds,
         queue' = Pushed(x), UNCHANGED taken
  PROVE  /\ queue' \in Seq(RunIds)
         /\ \A id \in RunIds : Dispatched(id)' <=> Dispatched(id) \/ id = x
<1>1. queue' \in Seq(RunIds)
  BY PushedQueue
<1>2. \A i \in 1..Len(queue) : i + 1 \in 1..Len(queue') /\ queue'[i + 1] = queue[i]
  BY PushedQueue
<1>3. \A i \in 1..Len(queue') : i # 1 => i - 1 \in 1..Len(queue) /\ queue'[i] = queue[i - 1]
  BY PushedQueue
<1>4. 1 \in 1..Len(queue') /\ queue'[1] = x
  <2>1. Len(queue) \in Nat /\ Len(queue') = Len(queue) + 1 /\ queue'[1] = x
    BY PushedQueue
  <2>2. QED
    BY <2>1
<1>5. ASSUME NEW id \in RunIds
      PROVE  id \in ToSet(queue') <=> id \in ToSet(queue) \/ id = x
  <2>1. /\ id \in ToSet(queue) <=> \E i \in 1..Len(queue) : queue[i] = id
        /\ id \in ToSet(queue') <=> \E i \in 1..Len(queue') : queue'[i] = id
    BY <1>1, InToSet
  <2>2. QED
    BY <1>2, <1>3, <1>4, <2>1
<1>6. QED
  BY <1>1, <1>5 DEF Dispatched

\* A runner takes the last element.
LEMMA TakenQueue ==
  ASSUME TypeOK, RunnerTake
  PROVE  /\ Len(queue) \in Nat \ {0} /\ queue[Len(queue)] \in RunIds
         /\ queue' \in Seq(RunIds)
         /\ Len(queue') = Len(queue) - 1
         /\ \A i \in 1..(Len(queue) - 1) : queue'[i] = queue[i]
         /\ taken' = [taken EXCEPT ![queue[Len(queue)]] = @ + 1]
         /\ taken' \in [RunIds -> Nat]
         /\ \A id \in RunIds :
              taken'[id] = IF id = queue[Len(queue)] THEN taken[id] + 1 ELSE taken[id]
<1> DEFINE n == Len(queue)
<1>1. queue \in Seq(RunIds) /\ taken \in [RunIds -> Nat]
  BY DEF TypeOK, StoreTypeOK
<1>2. n \in Nat \ {0} /\ \A i \in 1..n : queue[i] \in RunIds
  BY <1>1 DEF RunnerTake
<1>3. queue' = SubSeq(queue, 1, n - 1) /\ taken' = [taken EXCEPT ![queue[n]] = @ + 1]
  BY DEF RunnerTake
<1> HIDE DEF n
<1>4. /\ queue' \in Seq(RunIds)
      /\ Len(queue') = n - 1
      /\ \A i \in 1..(n - 1) : queue'[i] = queue[i]
  <2>1. \A i \in 1..(n - 1) : queue[i] \in RunIds
    BY <1>2
  <2>2. 1 \in Int /\ n - 1 \in Int
    BY <1>2
  <2>3. /\ SubSeq(queue, 1, n - 1) \in Seq(RunIds)
        /\ Len(SubSeq(queue, 1, n - 1)) = IF 1 <= n - 1 THEN n - 1 - 1 + 1 ELSE 0
        /\ \A i \in 1..(n - 1 - 1 + 1) :
             SubSeq(queue, 1, n - 1)[i] = queue[1 + i - 1]
    BY <2>1, <2>2, SubSeqProperties
  <2>4. QED
    BY <1>2, <1>3, <2>3
<1>5. /\ taken' \in [RunIds -> Nat]
      /\ \A id \in RunIds : taken'[id] = IF id = queue[n] THEN taken[id] + 1 ELSE taken[id]
  BY <1>1, <1>2, <1>3
<1>6. queue[n] \in RunIds
  BY <1>2
<1>7. QED
  BY <1>2, <1>3, <1>4, <1>5, <1>6 DEF n

LEMMA TakeDispatches ==
  ASSUME TypeOK, RunnerTake
  PROVE  /\ queue' \in Seq(RunIds)
         /\ taken' \in [RunIds -> Nat]
         /\ \A id \in RunIds : Dispatched(id)' <=> Dispatched(id)
<1> DEFINE n == Len(queue)
<1>1. queue \in Seq(RunIds) /\ taken \in [RunIds -> Nat]
  BY DEF TypeOK, StoreTypeOK
<1>2. /\ n \in Nat \ {0} /\ queue[n] \in RunIds
      /\ queue' \in Seq(RunIds)
      /\ Len(queue') = n - 1
      /\ \A i \in 1..(n - 1) : queue'[i] = queue[i]
      /\ taken' \in [RunIds -> Nat]
      /\ \A id \in RunIds : taken'[id] = IF id = queue[n] THEN taken[id] + 1 ELSE taken[id]
  BY TakenQueue
<1> HIDE DEF n
<1>3. ASSUME NEW id \in RunIds
      PROVE  id \in ToSet(queue) <=> id \in ToSet(queue') \/ id = queue[n]
  <2>1. /\ id \in ToSet(queue) <=> \E i \in 1..n : queue[i] = id
        /\ id \in ToSet(queue') <=> \E i \in 1..(n - 1) : queue'[i] = id
    <3>1. queue' \in Seq(RunIds) /\ Len(queue') = n - 1
      BY <1>2
    <3>2. id \in ToSet(queue) <=> \E i \in 1..n : queue[i] = id
      BY <1>1, InToSet DEF n
    <3>3. id \in ToSet(queue') <=> \E i \in 1..Len(queue') : queue'[i] = id
      BY <3>1, InToSet
    <3>4. QED
      BY <3>1, <3>2, <3>3
  <2>2. \A i \in 1..n : i = n \/ i \in 1..(n - 1)
    BY <1>2
  <2>3. n \in 1..n /\ \A i \in 1..(n - 1) : i \in 1..n /\ queue'[i] = queue[i]
    BY <1>2
  <2>4. QED
    BY <2>1, <2>2, <2>3
<1>4. QED
  BY <1>1, <1>2, <1>3 DEF Dispatched

LEMMA NotQueuedYet ==
  ASSUME QueueInv, NEW r \in Requests, pc[r] \notin {"enqueue", "ok", "error", "dead"},
         \A q \in Requests : q # r => pc'[q] = pc[q],
         run \in [RunIds -> Requests \cup {None}], UNCHANGED run,
         \A id \in RunIds : Dispatched(id)' <=> Dispatched(id)
  PROVE  QueueInv'
<1>1. ASSUME NEW id \in RunIds, Dispatched(id)
      PROVE  run[id] # None /\ pc'[run[id]] \in {"enqueue", "ok", "error", "dead"}
  BY <1>1 DEF QueueInv
<1>2. QED
  BY <1>1 DEF QueueInv

-----------------------------------------------------------------------------
(* The invariant holds initially and is preserved by every action.         *)

LEMMA InitIInv == Init => IInv
<1> SUFFICES ASSUME Init PROVE IInv
  OBVIOUS
<1> USE PushAttemptsAssumption, NoneAssumption DEF Init
<1>1. \A id \in RunIds : ~Dispatched(id)
  BY DEF Dispatched, ToSet
<1>2. TypeOK
  BY DEF TypeOK, HandlerTypeOK, StoreTypeOK, Stages
<1>3. RowsInv /\ AccessInv /\ StageInv /\ FilesInv /\ RemovedInv
  BY DEF RowsInv, AccessInv, StageInv, FilesInv, RemovedInv, HasRow, HasAccess,
         Uploading, Uploaded, BeforeRow
<1>4. RequestInv /\ ObjectsInv /\ BucketInv /\ TriesInv
  BY DEF RequestInv, ObjectsInv, BucketInv, TriesInv, SecondFile, HasRow, Uploading,
         Uploaded
<1>5. QueueInv /\ AnswerInv /\ QueuedRunIsComplete
  BY <1>1 DEF QueueInv, AnswerInv, QueuedRunIsComplete
<1>6. ObjectsBelongToRun /\ AccessNamesCreator
  BY DEF ObjectsBelongToRun, AccessNamesCreator
<1>7. InflightInv
  BY DEF InflightInv
<1>8. QED
  BY <1>2, <1>3, <1>4, <1>5, <1>6, <1>7 DEF IInv, HInv

LEMMA ArrivePreserves ==
  ASSUME IInv, NEW r \in Requests, NEW k \in Kinds, Arrive(r, k)
  PROVE  HInv'
<1> USE DEF IInv, HInv, TypeOK
<1>1. /\ pc[r] = "idle" /\ pc'[r] = "auth" /\ kind'[r] = k
      /\ pc' \in [Requests -> {"idle"} \cup Calls \cup Settled]
      /\ kind' \in [Requests -> Kinds \cup {None}]
      /\ payload' \in [Requests -> Payloads \cup {None}]
      /\ \A q \in Requests :
           q # r => pc'[q] = pc[q] /\ kind'[q] = kind[q] /\ payload'[q] = payload[q]
  BY DEF Arrive, Goto, HandlerTypeOK, Calls, Settled, Answers
<1>2. UNCHANGED <<owner, runID, stage, tries, cancelled, run, access, file, object,
                  bucket, public, queue, taken, inflight>>
  BY DEF Arrive, OnlyHandler, localVars, dbVars, minioVars, redisVars
<1>3. \A id \in RunIds : Dispatched(id)' <=> Dispatched(id)
  BY <1>2, SameQueue DEF redisVars
<1>4. \A id \in RunIds : run[id] # None =>
        run[id] # r /\ pc'[run[id]] = pc[run[id]] /\ kind'[run[id]] = kind[run[id]]
          /\ payload'[run[id]] = payload[run[id]]
  BY <1>1 DEF RowsInv, BeforeRow, StoreTypeOK
<1>5. TypeOK' /\ TriesInv'
  BY <1>1, <1>2 DEF HandlerTypeOK, StoreTypeOK, TriesInv
<1>6. RowsInv' /\ AccessInv'
  BY <1>1, <1>2, <1>4 DEF RowsInv, AccessInv, HasRow, HasAccess, Uploading, Uploaded
<1>7. RequestInv'
  BY <1>1, <1>2, <1>4 DEF RequestInv, HasRow, Uploading, Uploaded
<1>8. StageInv' /\ FilesInv'
  BY <1>1, <1>2 DEF StageInv, FilesInv, BeforeFiles, BeforeRow, Uploading
<1>9. RemovedInv' /\ ObjectsInv' /\ BucketInv'
  BY <1>1, <1>2 DEF RemovedInv, ObjectsInv, BucketInv, SecondFile, Uploading,
     Uploaded
<1>10. QueueInv' /\ AnswerInv'
  BY <1>1, <1>2, <1>3, <1>4 DEF QueueInv, AnswerInv, RowsInv, HasRow, Uploaded
<1>11. ObjectsBelongToRun' /\ AccessNamesCreator'
  BY <1>2 DEF ObjectsBelongToRun, AccessNamesCreator
<1>12. QueuedRunIsComplete'
  BY <1>2, <1>3, <1>4 DEF QueuedRunIsComplete, Complete
<1>13. QED
  BY <1>5, <1>6, <1>7, <1>8, <1>9, <1>10, <1>11, <1>12

LEMMA AuthPreserves ==
  ASSUME IInv, NEW r \in Requests, Auth(r)
  PROVE  HInv'
<1> USE PushAttemptsAssumption, NoneAssumption
<1> USE DEF IInv, HInv, TypeOK, Goto, requestVars, localVars, dbVars, minioVars, redisVars
<1>1. /\ pc[r] = "auth" /\ pc'[r] \in {"validate", "unauthorized"}
      /\ pc'[r] = "validate" => owner'[r] \in Users
      /\ \A q \in Requests : q # r => pc'[q] = pc[q] /\ owner'[q] = owner[q]
  BY DEF Auth, HandlerTypeOK
<1>2. UNCHANGED <<kind, payload, runID, stage, tries, cancelled, run, access, file,
                  object, bucket, public, queue, taken, inflight>>
  BY DEF Auth, OnlyHandler
<1>3. \A id \in RunIds : Dispatched(id)' <=> Dispatched(id)
  BY <1>2, SameQueue
<1>4. \A q \in Requests : pc'[q] \in HasRow => q # r
  BY <1>1 DEF HasRow, Uploading, Uploaded
<1>5. \A id \in RunIds : run[id] # None =>
        run[id] # r /\ pc'[run[id]] = pc[run[id]] /\ owner'[run[id]] = owner[run[id]]
  BY <1>1 DEF RowsInv, BeforeRow, StoreTypeOK
<1>6. HandlerTypeOK'
  BY DEF Auth, OnlyHandler, HandlerTypeOK, Calls, Settled, Answers
<1>7. StoreTypeOK' /\ TriesInv'
  BY <1>1, <1>2 DEF StoreTypeOK, TriesInv
<1>8. RowsInv'
  BY <1>1, <1>2, <1>4, <1>5 DEF RowsInv
<1>9. RequestInv'
  BY <1>1, <1>2, <1>4 DEF RequestInv
<1>10. AccessInv'
  BY <1>1, <1>2 DEF AccessInv, HasAccess, HasRow, Uploading, Uploaded
<1>11. StageInv' /\ FilesInv' /\ RemovedInv'
  BY <1>1, <1>2 DEF StageInv, BeforeFiles, BeforeRow, FilesInv, Uploading,
     Uploaded, RemovedInv
<1>12. ObjectsInv' /\ BucketInv'
  BY <1>1, <1>2 DEF ObjectsInv, BucketInv, SecondFile, Uploading, Uploaded
<1>13. QueueInv' /\ AnswerInv'
  BY <1>1, <1>2, <1>3, <1>5 DEF QueueInv, AnswerInv, RowsInv, HasRow, Uploaded
<1>14. ObjectsBelongToRun' /\ AccessNamesCreator'
  BY <1>2, <1>5 DEF ObjectsBelongToRun, AccessNamesCreator
<1>15. QueuedRunIsComplete'
  BY <1>2, <1>3, <1>5 DEF QueuedRunIsComplete, Complete
<1>16. QED
  BY <1>6, <1>7, <1>8, <1>9, <1>10, <1>11, <1>12, <1>13, <1>14, <1>15

LEMMA ValidatePreserves ==
  ASSUME IInv, NEW r \in Requests, Validate(r)
  PROVE  HInv'
<1> USE PushAttemptsAssumption, NoneAssumption
<1> USE DEF IInv, HInv, TypeOK, Goto, requestVars, localVars, dbVars, minioVars, redisVars
<1>1. \A id \in RunIds : Dispatched(id)' <=> Dispatched(id)
  BY SameQueue DEF Validate, OnlyHandler
<1>2. HandlerTypeOK' /\ StoreTypeOK' /\ TriesInv'
  BY DEF Validate, OnlyHandler, HandlerTypeOK, Calls, Settled, Answers,
     StoreTypeOK, TriesInv
<1>3. RowsInv' /\ RequestInv'
  BY DEF Validate, OnlyHandler, RowsInv, HandlerTypeOK, StoreTypeOK, BeforeRow,
     HasRow, Uploading, Uploaded, RequestInv
<1>4. AccessInv'
  BY DEF Validate, OnlyHandler, AccessInv, HandlerTypeOK, HasAccess, HasRow,
     Uploading, Uploaded
<1>5. StageInv' /\ FilesInv' /\ RemovedInv'
  BY DEF Validate, OnlyHandler, StageInv, HandlerTypeOK, BeforeFiles, BeforeRow,
     FilesInv, Uploading, RemovedInv
<1>6. ObjectsInv' /\ BucketInv'
  BY DEF Validate, OnlyHandler, ObjectsInv, HandlerTypeOK, SecondFile, Uploading,
     Uploaded, BucketInv
<1>7. QueueInv' /\ AnswerInv'
  <2>1. QueueInv'
    BY <1>1, NotQueuedYet DEF Validate, OnlyHandler, HandlerTypeOK, StoreTypeOK
  <2>2. AnswerInv'
    BY <1>1 DEF Validate, OnlyHandler, HandlerTypeOK, AnswerInv, RowsInv, HasRow, Uploaded
  <2>3. QED
    BY <2>1, <2>2
<1>8. ObjectsBelongToRun' /\ AccessNamesCreator' /\ QueuedRunIsComplete'
  BY <1>1 DEF Validate, OnlyHandler, ObjectsBelongToRun, AccessNamesCreator,
     QueuedRunIsComplete, Complete
<1>9. QED
  BY <1>2, <1>3, <1>4, <1>5, <1>6, <1>7, <1>8

LEMMA InsertRunPreserves ==
  ASSUME IInv, NEW r \in Requests, InsertRun(r)
  PROVE  HInv'
<1> USE PushAttemptsAssumption, NoneAssumption
<1> USE DEF IInv, HInv, TypeOK, Goto, requestVars, localVars, dbVars, minioVars, redisVars
<1>1. /\ pc[r] = "insertRun" /\ pc'[r] \in {"insertAccess", "error"}
      /\ \A q \in Requests : q # r => pc'[q] = pc[q] /\ runID'[q] = runID[q]
  BY DEF InsertRun, HandlerTypeOK
<1>2. /\ pc'[r] = "insertAccess" => runID'[r] \in RunIds /\ run'[runID'[r]] = r
      /\ run' \in [RunIds -> Requests \cup {None}]
      /\ \A id \in RunIds : run'[id] = run[id] \/ (run[id] = None /\ run'[id] = r)
  <2>1. CASE run' = run /\ Goto(r, "error")
    BY <2>1 DEF HandlerTypeOK, StoreTypeOK
  <2>2. ASSUME NEW id \in FreshIds, run' = [run EXCEPT ![id] = r],
               \/ runID' = [runID EXCEPT ![r] = id]
               \/ Goto(r, "error")
        PROVE  <1>2
    BY <1>1, <2>2 DEF FreshIds, HandlerTypeOK, StoreTypeOK
  <2>3. QED
    BY <2>1, <2>2 DEF InsertRun
<1>3. UNCHANGED <<kind, payload, owner, stage, tries, cancelled, access, file,
                  object, bucket, public, queue, taken, inflight>>
  BY DEF InsertRun
<1>4. \A id \in RunIds : Dispatched(id)' <=> Dispatched(id)
  BY SameQueue DEF InsertRun
<1>5. HandlerTypeOK'
  BY DEF InsertRun, FreshIds, HandlerTypeOK, Calls, Settled, Answers
<1>6. StoreTypeOK'
  BY <1>2, <1>3 DEF StoreTypeOK
<1>7. TriesInv'
  BY <1>1, <1>3 DEF TriesInv
<1>8. RowsInv'
  <2>1. ASSUME NEW q \in Requests, pc'[q] \in HasRow
        PROVE  runID'[q] \in RunIds /\ run'[runID'[q]] = q
    <3>1. CASE q = r
      BY <1>1, <1>2, <2>1, <3>1 DEF HasRow, Uploading, Uploaded
    <3>2. CASE q # r
      <4>1. runID'[q] = runID[q] /\ runID[q] \in RunIds /\ run[runID[q]] = q
        BY <1>1, <2>1, <3>2 DEF RowsInv
      <4>2. QED
        BY <1>2, <4>1
    <3>3. QED
      BY <3>1, <3>2
  <2>2. ASSUME NEW id \in RunIds, run'[id] # None
        PROVE  pc'[run'[id]] \notin BeforeRow
    <3>1. CASE run'[id] = r
      BY <1>1, <3>1 DEF BeforeRow
    <3>2. CASE run'[id] # r
      <4>1. run[id] = run'[id] /\ run[id] \in Requests /\ pc[run[id]] \notin BeforeRow
        BY <1>2, <2>2, <3>2 DEF RowsInv, StoreTypeOK
      <4>2. QED
        BY <1>1, <3>2, <4>1
    <3>3. QED
      BY <3>1, <3>2
  <2>3. QED
    BY <2>1, <2>2 DEF RowsInv
<1>9. RequestInv' /\ AccessInv'
  BY <1>1, <1>2, <1>3 DEF RequestInv, HasRow, Uploading, Uploaded, AccessInv,
     HasAccess
<1>10. StageInv' /\ FilesInv'
  BY <1>1, <1>3 DEF StageInv, BeforeFiles, BeforeRow, FilesInv, Uploading
<1>11. RemovedInv'
  <2>1. ASSUME NEW q \in Requests, pc'[q] \in Uploaded
        PROVE  pc'[q] = pc[q] /\ runID'[q] = runID[q]
    BY <1>1, <2>1 DEF Uploaded
  <2>2. QED
    BY <1>3, <2>1 DEF RemovedInv, Uploaded
<1>12. ObjectsInv'
  <2>1. ASSUME NEW q \in Requests, pc'[q] \in {"writeFile"} \cup Uploading \cup Uploaded
        PROVE  pc'[q] = pc[q] /\ runID'[q] = runID[q]
    BY <1>1, <2>1 DEF Uploading, Uploaded
  <2>2. QED
    BY <1>3, <2>1 DEF ObjectsInv, SecondFile
<1>13. BucketInv'
  BY <1>1, <1>3 DEF BucketInv, SecondFile, Uploading, Uploaded
<1>14. QueueInv'
  BY <1>1, <1>2, <1>4 DEF QueueInv
<1>15. AnswerInv'
  BY <1>1, <1>4 DEF AnswerInv, RowsInv, HasRow, Uploaded
<1>16. ObjectsBelongToRun' /\ AccessNamesCreator' /\ QueuedRunIsComplete'
  BY <1>2, <1>3, <1>4 DEF ObjectsBelongToRun, AccessNamesCreator,
     QueuedRunIsComplete, Complete, QueueInv
<1>17. QED
  BY <1>5, <1>6, <1>7, <1>8, <1>9, <1>10, <1>11, <1>12, <1>13, <1>14, <1>15, <1>16

LEMMA InsertAccessPreserves ==
  ASSUME IInv, NEW r \in Requests, InsertAccess(r)
  PROVE  HInv'
<1> USE PushAttemptsAssumption, NoneAssumption
<1> USE DEF IInv, HInv, TypeOK, Goto, requestVars, localVars, dbVars, minioVars, redisVars
<1>1. /\ pc[r] = "insertAccess" /\ pc'[r] \in {"writeFile", "error"}
      /\ \A q \in Requests : q # r => pc'[q] = pc[q]
  BY DEF InsertAccess, HandlerTypeOK
<1>2. UNCHANGED <<kind, payload, owner, runID, stage, tries, cancelled, run, file,
                  object, bucket, public>>
  BY DEF InsertAccess
<1>3. runID[r] \in RunIds /\ run[runID[r]] = r /\ owner[r] \in Users
  BY <1>1 DEF RowsInv, RequestInv, HasRow
<1>4. /\ access' \subseteq access \cup {<<runID[r], owner[r], "write">>}
      /\ access \subseteq access'
      /\ pc'[r] = "writeFile" => <<runID[r], owner[r], "write">> \in access'
  BY <1>1 DEF InsertAccess, HandlerTypeOK
<1>5. \A id \in RunIds : Dispatched(id)' <=> Dispatched(id)
  BY SameQueue DEF InsertAccess
<1>6. HandlerTypeOK'
  BY DEF InsertAccess, HandlerTypeOK, Calls, Settled, Answers
<1>7. StoreTypeOK'
  BY <1>3 DEF InsertAccess, StoreTypeOK
<1>8. TriesInv'
  BY <1>1, <1>2 DEF TriesInv
<1>9. RowsInv'
  BY <1>1, <1>2, <1>3, <1>4 DEF RowsInv, StoreTypeOK, BeforeRow, HasRow, Uploading,
     Uploaded
<1>10. RequestInv'
  BY <1>1, <1>2 DEF RequestInv, Calls, HasRow
<1>11. AccessInv'
  BY <1>1, <1>2, <1>4 DEF AccessInv, HasAccess, HasRow, Uploading, Uploaded
<1>12. StageInv' /\ FilesInv' /\ RemovedInv'
  BY <1>1, <1>2 DEF StageInv, HandlerTypeOK, BeforeFiles, BeforeRow, FilesInv,
     Uploading, Uploaded, RemovedInv
<1>13. ObjectsInv'
  BY <1>1, <1>2 DEF ObjectsInv, StageInv, BeforeFiles, SecondFile, Uploading, Uploaded
<1>14. BucketInv'
  BY <1>1, <1>2 DEF BucketInv, StageInv, BeforeFiles, SecondFile, Uploading, Uploaded
<1>15. QueueInv'
  BY <1>5, NotQueuedYet DEF InsertAccess, HandlerTypeOK, StoreTypeOK
<1>16. AnswerInv'
  BY <1>1, <1>2, <1>5 DEF AnswerInv, RowsInv, HasRow, Uploaded
<1>17. ObjectsBelongToRun' /\ AccessNamesCreator'
  BY <1>2, <1>3, <1>4 DEF ObjectsBelongToRun, AccessNamesCreator
<1>18. QueuedRunIsComplete'
  BY <1>2, <1>4, <1>5 DEF QueuedRunIsComplete, Complete
<1>19. QED
  BY <1>6, <1>7, <1>8, <1>9, <1>10, <1>11, <1>12, <1>13, <1>14, <1>15, <1>16, <1>17, <1>18

LEMMA WriteFilePreserves ==
  ASSUME IInv, NEW r \in Requests, WriteFile(r)
  PROVE  HInv'
<1> USE PushAttemptsAssumption, NoneAssumption
<1> USE DEF IInv, HInv, TypeOK, Goto, requestVars, localVars, dbVars, minioVars, redisVars
<1>1. /\ pc[r] = "writeFile" /\ pc'[r] \in {"makeBucket", "error"}
      /\ \A q \in Requests : q # r => pc'[q] = pc[q]
  BY DEF WriteFile, HandlerTypeOK
<1>2. runID[r] \in RunIds /\ run[runID[r]] = r /\ stage[r] \in Stages
  BY <1>1 DEF RowsInv, HasRow, HandlerTypeOK
<1>3. /\ file' \in [Stages -> [RunIds -> Requests \cup {None, Torn}]]
      /\ \A s \in Stages, id \in RunIds : id # runID[r] => file'[s][id] = file[s][id]
      /\ pc'[r] = "makeBucket" => file'[stage[r]][runID[r]] = r
  <2>1. ASSUME NEW content \in {r, Torn}, file' = [file EXCEPT ![stage[r]][runID[r]] = content]
        PROVE  /\ file' \in [Stages -> [RunIds -> Requests \cup {None, Torn}]]
               /\ \A s \in Stages, id \in RunIds :
                    file'[s][id] = IF s = stage[r] /\ id = runID[r] THEN content ELSE file[s][id]
    BY <1>2, <2>1, NestedExcept DEF StoreTypeOK
  <2>2. CASE file' = [file EXCEPT ![stage[r]][runID[r]] = r]
    BY <1>2, <2>1, <2>2
  <2>3. CASE file' = [file EXCEPT ![stage[r]][runID[r]] = Torn] /\ Goto(r, "error")
    BY <1>2, <2>1, <2>3 DEF HandlerTypeOK
  <2>4. CASE file' = file /\ Goto(r, "error")
    BY <2>4 DEF HandlerTypeOK, StoreTypeOK
  <2>5. QED
    BY <2>2, <2>3, <2>4 DEF WriteFile, FileKey
<1>4. UNCHANGED <<kind, payload, owner, runID, stage, tries, cancelled, run,
                  access, object, bucket, public>>
  BY DEF WriteFile
<1>5. \A id \in RunIds : Dispatched(id)' <=> Dispatched(id)
  BY SameQueue DEF WriteFile
<1>6. HandlerTypeOK'
  BY DEF WriteFile, HandlerTypeOK, Calls, Settled, Answers
<1>7. StoreTypeOK'
  BY <1>3 DEF WriteFile, StoreTypeOK
<1>8. TriesInv'
  BY <1>1, <1>4 DEF TriesInv
<1>9. RowsInv' /\ RequestInv' /\ AccessInv'
  BY <1>1, <1>4 DEF RowsInv, StoreTypeOK, BeforeRow, HasRow, RequestInv,
     AccessInv, HasAccess
<1>10. StageInv' /\ FilesInv'
  <2>1. StageInv'
    BY <1>1, <1>4 DEF StageInv, BeforeFiles, BeforeRow
  <2>2. ASSUME NEW q \in Requests, q # r, pc'[q] \in Uploading
        PROVE  file'[stage[q]][runID[q]] = q
    <3>1. /\ pc[q] \in Uploading /\ stage[q] \in Stages
          /\ runID[q] \in RunIds /\ run[runID[q]] = q
      BY <1>1, <2>2 DEF RowsInv, HasRow, HandlerTypeOK
    <3>2. runID[q] # runID[r]
      BY <1>2, <2>2, <3>1
    <3>3. QED
      BY <1>3, <3>1, <3>2 DEF FilesInv
  <2>3. pc'[r] \in Uploading => pc'[r] = "makeBucket"
    BY <1>1 DEF Uploading
  <2>4. FilesInv'
    BY <1>3, <1>4, <2>2, <2>3 DEF FilesInv
  <2>5. QED
    BY <2>1, <2>4
<1>11. RemovedInv'
  <2>1. ASSUME NEW q \in Requests, pc'[q] \in Uploaded
        PROVE  /\ pc'[q] = pc[q] /\ runID[q] \in RunIds
               /\ \A s \in Stages : file'[s][runID[q]] = file[s][runID[q]]
    <3>1. q # r
      BY <1>1, <2>1 DEF Uploaded
    <3>2. pc'[q] = pc[q] /\ runID[q] \in RunIds /\ runID[q] # runID[r]
      BY <1>1, <1>2, <2>1, <3>1 DEF RowsInv, HasRow
    <3>3. QED
      BY <1>3, <3>2
  <2>2. QED
    BY <1>4, <2>1 DEF RemovedInv, Uploaded, Stages
<1>12. ObjectsInv' /\ BucketInv'
  BY <1>1, <1>4 DEF ObjectsInv, HandlerTypeOK, SecondFile, Uploaded, BucketInv
<1>13. QueueInv' /\ AnswerInv'
  BY <1>5, NotQueuedYet DEF WriteFile, HandlerTypeOK, StoreTypeOK, AnswerInv,
     RowsInv, HasRow, Uploaded
<1>14. ObjectsBelongToRun' /\ AccessNamesCreator' /\ QueuedRunIsComplete'
  BY <1>4, <1>5 DEF ObjectsBelongToRun, AccessNamesCreator, QueuedRunIsComplete,
     Complete
<1>15. QED
  BY <1>6, <1>7, <1>8, <1>9, <1>10, <1>11, <1>12, <1>13, <1>14

LEMMA MakeBucketPreserves ==
  ASSUME IInv, NEW r \in Requests, MakeBucket(r)
  PROVE  HInv'
<1> USE PushAttemptsAssumption, NoneAssumption
<1> USE DEF IInv, HInv, TypeOK, Goto, requestVars, localVars, dbVars, minioVars, redisVars
<1>1. \A id \in RunIds : Dispatched(id)' <=> Dispatched(id)
  BY SameQueue DEF MakeBucket
<1>2. HandlerTypeOK' /\ StoreTypeOK' /\ TriesInv'
  BY DEF MakeBucket, HandlerTypeOK, Calls, StoreTypeOK, TriesInv
<1>3. RowsInv' /\ RequestInv'
  BY DEF MakeBucket, RowsInv, HandlerTypeOK, StoreTypeOK, BeforeRow, HasRow,
     Uploading, RequestInv
<1>4. AccessInv'
  BY DEF MakeBucket, AccessInv, HandlerTypeOK, HasAccess, HasRow, Uploading
<1>5. StageInv' /\ FilesInv' /\ RemovedInv'
  BY DEF MakeBucket, StageInv, HandlerTypeOK, BeforeFiles, BeforeRow, FilesInv,
     Uploading, RemovedInv
<1>6. ObjectsInv' /\ BucketInv'
  BY DEF MakeBucket, ObjectsInv, HandlerTypeOK, SecondFile, Uploading, Uploaded,
     BucketInv
<1>7. QueueInv' /\ AnswerInv'
  BY <1>1, NotQueuedYet DEF MakeBucket, HandlerTypeOK, StoreTypeOK, AnswerInv,
     RowsInv, HasRow, Uploaded
<1>8. ObjectsBelongToRun' /\ AccessNamesCreator' /\ QueuedRunIsComplete'
  BY <1>1 DEF MakeBucket, ObjectsBelongToRun, AccessNamesCreator,
     QueuedRunIsComplete, Complete
<1>9. QED
  BY <1>2, <1>3, <1>4, <1>5, <1>6, <1>7, <1>8

LEMMA BucketExistsPreserves ==
  ASSUME IInv, NEW r \in Requests, BucketExists(r)
  PROVE  HInv'
<1> USE PushAttemptsAssumption, NoneAssumption
<1> USE DEF IInv, HInv, TypeOK, Goto, requestVars, localVars, dbVars, minioVars, redisVars
<1>1. \A id \in RunIds : Dispatched(id)' <=> Dispatched(id)
  BY SameQueue DEF BucketExists, OnlyHandler
<1>2. HandlerTypeOK' /\ StoreTypeOK' /\ TriesInv'
  BY DEF BucketExists, OnlyHandler, HandlerTypeOK, Calls, Settled, Answers,
     StoreTypeOK, TriesInv
<1>3. RowsInv' /\ RequestInv'
  BY DEF BucketExists, OnlyHandler, RowsInv, HandlerTypeOK, StoreTypeOK,
     BeforeRow, HasRow, Uploading, RequestInv
<1>4. AccessInv'
  BY DEF BucketExists, OnlyHandler, AccessInv, HandlerTypeOK, HasAccess, HasRow,
     Uploading
<1>5. StageInv' /\ FilesInv' /\ RemovedInv'
  BY DEF BucketExists, OnlyHandler, StageInv, HandlerTypeOK, BeforeFiles,
     BeforeRow, FilesInv, Uploading, RemovedInv
<1>6. ObjectsInv' /\ BucketInv'
  BY DEF BucketExists, OnlyHandler, ObjectsInv, HandlerTypeOK, SecondFile,
     Uploading, Uploaded, BucketInv
<1>7. QueueInv' /\ AnswerInv'
  BY <1>1, NotQueuedYet DEF BucketExists, OnlyHandler, HandlerTypeOK,
     StoreTypeOK, AnswerInv, RowsInv, HasRow, Uploaded
<1>8. ObjectsBelongToRun' /\ AccessNamesCreator' /\ QueuedRunIsComplete'
  BY <1>1 DEF BucketExists, OnlyHandler, ObjectsBelongToRun, AccessNamesCreator,
     QueuedRunIsComplete, Complete
<1>9. QED
  BY <1>2, <1>3, <1>4, <1>5, <1>6, <1>7, <1>8

LEMMA SetBucketPolicyPreserves ==
  ASSUME IInv, NEW r \in Requests, SetBucketPolicy(r)
  PROVE  HInv'
<1> USE PushAttemptsAssumption, NoneAssumption
<1> USE DEF IInv, HInv, TypeOK, Goto, requestVars, localVars, dbVars, minioVars, redisVars
<1>1. \A id \in RunIds : Dispatched(id)' <=> Dispatched(id)
  BY SameQueue DEF SetBucketPolicy
<1>2. HandlerTypeOK' /\ StoreTypeOK' /\ TriesInv'
  BY DEF SetBucketPolicy, HandlerTypeOK, Calls, Settled, Answers, StoreTypeOK,
     TriesInv
<1>3. RowsInv' /\ RequestInv'
  BY DEF SetBucketPolicy, RowsInv, HandlerTypeOK, StoreTypeOK, BeforeRow, HasRow,
     Uploading, RequestInv
<1>4. AccessInv'
  BY DEF SetBucketPolicy, AccessInv, HandlerTypeOK, HasAccess, HasRow, Uploading
<1>5. StageInv' /\ FilesInv' /\ RemovedInv'
  BY DEF SetBucketPolicy, StageInv, HandlerTypeOK, BeforeFiles, BeforeRow,
     FilesInv, Uploading, RemovedInv
<1>6. ObjectsInv' /\ BucketInv'
  BY DEF SetBucketPolicy, ObjectsInv, HandlerTypeOK, SecondFile, Uploading,
     Uploaded, BucketInv
<1>7. QueueInv' /\ AnswerInv'
  BY <1>1, NotQueuedYet DEF SetBucketPolicy, HandlerTypeOK, StoreTypeOK,
     AnswerInv, RowsInv, HasRow, Uploaded
<1>8. ObjectsBelongToRun' /\ AccessNamesCreator' /\ QueuedRunIsComplete'
  BY <1>1 DEF SetBucketPolicy, ObjectsBelongToRun, AccessNamesCreator,
     QueuedRunIsComplete, Complete
<1>9. QED
  BY <1>2, <1>3, <1>4, <1>5, <1>6, <1>7, <1>8

LEMMA FPutObjectPreserves ==
  ASSUME IInv, NEW r \in Requests, FPutObject(r)
  PROVE  HInv'
<1> USE PushAttemptsAssumption, NoneAssumption
<1> USE DEF IInv, HInv, TypeOK, Goto, requestVars, localVars, dbVars, minioVars, redisVars
<1>1. /\ pc[r] = "putObject"
      /\ \A q \in Requests : q # r => pc'[q] = pc[q] /\ stage'[q] = stage[q]
      /\ \/ pc'[r] = "error"
         \/ stage[r] = "code" /\ pc'[r] = "writeFile" /\ stage'[r] = "input"
         \/ stage[r] = "input" /\ pc'[r] = "remove" /\ stage'[r] = "code"
  BY DEF FPutObject, AfterUpload, HandlerTypeOK, Stages
<1>2. /\ runID[r] \in RunIds /\ run[runID[r]] = r /\ stage[r] \in Stages
      /\ file[stage[r]][runID[r]] = r
  BY <1>1 DEF RowsInv, FilesInv, HasRow, Uploading, HandlerTypeOK
<1>3. /\ object' \in [Stages -> [RunIds -> Requests \cup {None, Torn}]]
      /\ \A s \in Stages, id \in RunIds :
           object'[s][id] = object[s][id] \/ (s = stage[r] /\ id = runID[r] /\ object'[s][id] = r)
      /\ pc'[r] # "error" => object'[stage[r]][runID[r]] = r
  <2>1. CASE object' = [object EXCEPT ![stage[r]][runID[r]] = r]
    <3>1. /\ object' \in [Stages -> [RunIds -> Requests \cup {None, Torn}]]
          /\ \A s \in Stages, id \in RunIds :
               object'[s][id] = IF s = stage[r] /\ id = runID[r] THEN r ELSE object[s][id]
      BY <1>2, <2>1, NestedExcept DEF StoreTypeOK
    <3>2. QED
      BY <1>2, <3>1
  <2>2. CASE object' = object /\ Goto(r, "error")
    BY <2>2 DEF HandlerTypeOK, StoreTypeOK
  <2>3. QED
    BY <1>2, <2>1, <2>2 DEF FPutObject, FileKey, ObjectKey
<1>4. pc' \in [Requests -> {"idle"} \cup Calls \cup Settled] /\ stage' \in [Requests -> Stages]
  BY DEF FPutObject, AfterUpload, HandlerTypeOK, Calls, Settled, Answers, Stages
<1>5. UNCHANGED <<kind, payload, owner, runID, tries, cancelled, run, access, file,
                  bucket, public>>
  BY DEF FPutObject
<1>6. \A id \in RunIds : Dispatched(id)' <=> Dispatched(id)
  BY SameQueue DEF FPutObject
<1>7. HandlerTypeOK' /\ StoreTypeOK' /\ TriesInv'
  BY <1>3, <1>4 DEF HandlerTypeOK, FPutObject, AfterUpload, StoreTypeOK, TriesInv
<1>8. RowsInv' /\ RequestInv' /\ AccessInv'
  BY <1>1, <1>5 DEF RowsInv, StoreTypeOK, BeforeRow, HasRow, Uploading,
     RequestInv, AccessInv, HasAccess
<1>9. StageInv' /\ FilesInv'
  BY <1>1, <1>5 DEF StageInv, BeforeFiles, BeforeRow, FilesInv, Uploading
<1>10. RemovedInv'
  BY <1>1, <1>5 DEF RemovedInv
<1>11. ObjectsInv'
  <2>1. ASSUME NEW q \in Requests, SecondFile(q)'
        PROVE  object'["code"][runID[q]] = q
    <3>1. CASE q = r
      BY <1>1, <1>3, <2>1, <3>1 DEF SecondFile, Uploading
    <3>2. CASE q # r
      <4>1. SecondFile(q) /\ runID[q] \in RunIds /\ runID[q] # runID[r]
        BY <1>1, <1>2, <2>1, <3>2 DEF SecondFile, RowsInv, HasRow
      <4>2. QED
        BY <1>3, <4>1 DEF ObjectsInv, Stages
    <3>3. QED
      BY <3>1, <3>2
  <2>2. ASSUME NEW q \in Requests, pc'[q] \in Uploaded, NEW s \in Stages
        PROVE  object'[s][runID[q]] = q
    <3>1. CASE q = r
      <4>1. stage[r] = "input" /\ object[stage["code"]] = object[stage["code"]]
        BY <1>1, <2>2, <3>1 DEF Uploaded
      <4>2. object["code"][runID[r]] = r
        BY <1>1, <4>1 DEF ObjectsInv, SecondFile, Uploading
      <4>3. object'["input"][runID[r]] = r
        BY <1>1, <1>3, <2>2, <3>1, <4>1 DEF Uploaded
      <4>4. object'["code"][runID[r]] = r
        BY <1>2, <1>3, <4>2 DEF Stages
      <4>5. QED
        BY <3>1, <4>3, <4>4 DEF Stages
    <3>2. CASE q # r
      <4>1. pc[q] \in Uploaded /\ runID[q] \in RunIds /\ runID[q] # runID[r]
        BY <1>1, <1>2, <2>2, <3>2 DEF RowsInv, HasRow
      <4>2. QED
        BY <1>3, <4>1 DEF ObjectsInv
    <3>3. QED
      BY <3>1, <3>2
  <2>3. QED
    BY <1>5, <2>1, <2>2 DEF ObjectsInv
<1>12. BucketInv'
  BY <1>1, <1>5 DEF BucketInv
<1>13. QueueInv' /\ AnswerInv'
  BY <1>6, NotQueuedYet, <1>1 DEF FPutObject, StoreTypeOK, AnswerInv, RowsInv,
     HasRow, Uploaded
<1>14. ObjectsBelongToRun'
  <2>1. ASSUME NEW s \in Stages, NEW id \in RunIds, object'[s][id] # None
        PROVE  run[id] # None /\ object'[s][id] = run[id]
    BY <1>2, <1>3, <2>1, NoneAssumption DEF ObjectsBelongToRun
  <2>2. QED
    BY <1>5, <2>1 DEF ObjectsBelongToRun
<1>15. AccessNamesCreator'
  BY <1>5 DEF AccessNamesCreator
<1>16. QueuedRunIsComplete'
  <2>1. ASSUME NEW id \in RunIds, Dispatched(id)
        PROVE  Complete(id)'
    <3>1. id # runID[r] /\ Complete(id)
      BY <1>1, <1>2, <2>1 DEF QueueInv, QueuedRunIsComplete
    <3>2. \A s \in Stages : object'[s][id] = object[s][id]
      BY <1>3, <3>1
    <3>3. QED
      BY <1>5, <3>1, <3>2 DEF Complete
  <2>2. QED
    BY <1>6, <2>1 DEF QueuedRunIsComplete
<1>17. QED
  BY <1>7, <1>8, <1>9, <1>10, <1>11, <1>12, <1>13, <1>14, <1>15, <1>16

LEMMA RemoveFilePreserves ==
  ASSUME IInv, NEW r \in Requests, RemoveFile(r)
  PROVE  HInv'
<1> USE PushAttemptsAssumption, NoneAssumption
<1> USE DEF IInv, HInv, TypeOK, Goto, requestVars, localVars, dbVars, minioVars, redisVars
<1>1. /\ pc[r] = "remove"
      /\ \A q \in Requests : q # r => pc'[q] = pc[q] /\ stage'[q] = stage[q]
      /\ \/ pc'[r] = "error"
         \/ stage[r] = "code" /\ pc'[r] = "remove" /\ stage'[r] = "input"
         \/ stage[r] = "input" /\ pc'[r] = "enqueue" /\ stage'[r] = "input"
  BY DEF RemoveFile, HandlerTypeOK, Stages
<1>2. runID[r] \in RunIds /\ run[runID[r]] = r /\ stage[r] \in Stages
  BY <1>1 DEF RowsInv, HasRow, Uploaded, HandlerTypeOK
<1>3. /\ file' \in [Stages -> [RunIds -> Requests \cup {None, Torn}]]
      /\ \A s \in Stages, id \in RunIds :
           file'[s][id] = file[s][id] \/ (s = stage[r] /\ id = runID[r] /\ file'[s][id] = None)
      /\ pc'[r] # "error" => file'[stage[r]][runID[r]] = None
  <2>1. CASE file' = [file EXCEPT ![stage[r]][runID[r]] = None]
    <3>1. /\ file' \in [Stages -> [RunIds -> Requests \cup {None, Torn}]]
          /\ \A s \in Stages, id \in RunIds :
               file'[s][id] = IF s = stage[r] /\ id = runID[r] THEN None ELSE file[s][id]
      BY <1>2, <2>1, NestedExcept DEF StoreTypeOK
    <3>2. QED
      BY <1>2, <3>1
  <2>2. CASE file' = file /\ Goto(r, "error")
    BY <2>2 DEF HandlerTypeOK, StoreTypeOK
  <2>3. QED
    BY <2>1, <2>2 DEF RemoveFile, FileKey
<1>4. pc' \in [Requests -> {"idle"} \cup Calls \cup Settled] /\ stage' \in [Requests -> Stages]
  BY DEF RemoveFile, HandlerTypeOK, Calls, Settled, Answers, Stages
<1>5. UNCHANGED <<kind, payload, owner, runID, tries, cancelled, run, access,
                  object, bucket, public>>
  BY DEF RemoveFile
<1>6. \A id \in RunIds : Dispatched(id)' <=> Dispatched(id)
  BY SameQueue DEF RemoveFile
<1>7. HandlerTypeOK' /\ StoreTypeOK' /\ TriesInv'
  BY <1>3, <1>4 DEF HandlerTypeOK, RemoveFile, StoreTypeOK, TriesInv
<1>8. RowsInv' /\ RequestInv' /\ AccessInv'
  BY <1>1, <1>5 DEF RowsInv, StoreTypeOK, BeforeRow, HasRow, Uploaded,
     RequestInv, AccessInv, HasAccess
<1>9. StageInv'
  BY <1>1 DEF StageInv, BeforeFiles, BeforeRow
<1>10. FilesInv'
  <2>1. ASSUME NEW q \in Requests, pc'[q] \in Uploading
        PROVE  file'[stage'[q]][runID[q]] = q
    <3>1. q # r /\ pc[q] \in Uploading /\ stage'[q] = stage[q] /\ stage[q] \in Stages
      BY <1>1, <2>1 DEF Uploading, HandlerTypeOK
    <3>2. runID[q] \in RunIds /\ runID[q] # runID[r] /\ file[stage[q]][runID[q]] = q
      BY <1>2, <3>1 DEF FilesInv, RowsInv, HasRow
    <3>3. QED
      BY <1>3, <3>1, <3>2
  <2>2. QED
    BY <1>5, <2>1 DEF FilesInv
<1>11. RemovedInv'
  BY <1>1, <1>3, <1>5 DEF RemovedInv, RowsInv, HandlerTypeOK, Stages, HasRow,
     Uploaded
<1>12. ObjectsInv' /\ BucketInv'
  BY <1>1, <1>5 DEF ObjectsInv, SecondFile, Uploading, Uploaded, BucketInv
<1>13. QueueInv' /\ AnswerInv'
  BY <1>6, NotQueuedYet, <1>1 DEF RemoveFile, StoreTypeOK, AnswerInv, RowsInv,
     HasRow, Uploaded
<1>14. ObjectsBelongToRun' /\ AccessNamesCreator' /\ QueuedRunIsComplete'
  BY <1>5, <1>6 DEF ObjectsBelongToRun, AccessNamesCreator, QueuedRunIsComplete,
     Complete
<1>15. QED
  BY <1>7, <1>8, <1>9, <1>10, <1>11, <1>12, <1>13, <1>14

LEMMA EnqueueRunRequestPreserves ==
  ASSUME IInv, NEW r \in Requests, EnqueueRunRequest(r)
  PROVE  HInv'
<1> USE PushAttemptsAssumption, NoneAssumption
<1> USE DEF IInv, HInv, TypeOK, Goto, requestVars, localVars, dbVars, minioVars, redisVars
<1>1. /\ pc[r] = "enqueue" /\ pc'[r] \in {"enqueue", "ok", "error"}
      /\ \A q \in Requests : q # r => pc'[q] = pc[q] /\ tries'[q] = tries[q]
      /\ pc' \in [Requests -> {"idle"} \cup Calls \cup Settled]
  BY DEF EnqueueRunRequest, HandlerTypeOK, Calls, Settled, Answers
<1>2. /\ tries' \in [Requests -> 0..PushAttempts]
      /\ pc'[r] # "error" => tries'[r] < PushAttempts
  BY <1>1 DEF EnqueueRunRequest, HandlerTypeOK, TriesInv
<1>3. runID[r] \in RunIds /\ run[runID[r]] = r
  BY <1>1 DEF RowsInv, HasRow, Uploaded
<1>4. /\ queue' \in Seq(RunIds)
      /\ \A id \in RunIds :
           Dispatched(id)' <=> Dispatched(id) \/ (id = runID[r] /\ queue' = Pushed(runID[r]))
  <2>1. CASE queue' = queue
    <3>1. UNCHANGED <<queue, taken>>
      BY <2>1 DEF EnqueueRunRequest
    <3>2. \A id \in RunIds : Dispatched(id)' <=> Dispatched(id)
      BY <3>1, SameQueue
    <3>3. queue # Pushed(runID[r])
      <4>1. Len(Pushed(runID[r])) = 1 + Len(queue) /\ Len(queue) \in Nat
        BY <1>3, ConcatProperties DEF Pushed, StoreTypeOK
      <4>2. QED
        BY <4>1
    <3>4. queue' # Pushed(runID[r]) /\ queue' \in Seq(RunIds)
      BY <2>1, <3>3 DEF StoreTypeOK
    <3>5. QED
      BY <3>2, <3>4
  <2>2. CASE queue' = Pushed(runID[r])
    BY <1>3, <2>2, PushDispatches DEF EnqueueRunRequest, StoreTypeOK
  <2>3. QED
    BY <2>1, <2>2 DEF EnqueueRunRequest
<1>5. pc'[r] = "ok" => queue' = Pushed(runID[r])
  BY <1>1 DEF EnqueueRunRequest, HandlerTypeOK
<1>6. UNCHANGED <<kind, payload, owner, runID, stage, cancelled, run, access, file,
                  object, bucket, public, taken>>
  BY DEF EnqueueRunRequest
<1>7. HandlerTypeOK' /\ StoreTypeOK' /\ TriesInv'
  <2>1. HandlerTypeOK' /\ TriesInv'
    BY <1>1, <1>2, <1>6 DEF HandlerTypeOK, TriesInv
  <2>2. inflight' \in [RunIds -> Nat]
    BY <1>3 DEF EnqueueRunRequest, StoreTypeOK
  <2>3. QED
    BY <1>4, <1>6, <2>1, <2>2 DEF StoreTypeOK
<1>8. RowsInv' /\ RequestInv' /\ AccessInv'
  <2>1. RowsInv'
    BY <1>1, <1>6 DEF RowsInv, StoreTypeOK, BeforeRow, HasRow, Uploaded
  <2>2. RequestInv' /\ AccessInv'
    BY <1>1, <1>6 DEF RequestInv, AccessInv, HasAccess, HasRow, Uploaded
  <2>3. QED
    BY <2>1, <2>2
<1>9. StageInv' /\ FilesInv' /\ RemovedInv'
  BY <1>1, <1>6 DEF StageInv, HandlerTypeOK, BeforeFiles, BeforeRow, FilesInv,
     Uploading, RemovedInv
<1>10. ObjectsInv' /\ BucketInv'
  BY <1>1, <1>6 DEF ObjectsInv, SecondFile, Uploading, Uploaded, BucketInv
<1>11. QueueInv'
  <2>1. ASSUME NEW id \in RunIds, Dispatched(id)'
        PROVE  run[id] # None /\ pc'[run[id]] \in {"enqueue", "ok", "error", "dead"}
    <3>1. CASE id = runID[r]
      BY <1>1, <1>3, <3>1, NoneAssumption
    <3>2. CASE id # runID[r]
      <4>1. run[id] # None /\ pc[run[id]] \in {"enqueue", "ok", "error", "dead"}
        BY <1>4, <2>1, <3>2 DEF QueueInv
      <4>2. QED
        BY <1>1, <4>1 DEF StoreTypeOK
    <3>3. QED
      BY <3>1, <3>2
  <2>2. QED
    BY <1>6, <2>1 DEF QueueInv
<1>12. AnswerInv'
  BY <1>1, <1>4, <1>5, <1>6 DEF AnswerInv, RowsInv, HasRow, Uploaded
<1>13. ObjectsBelongToRun' /\ AccessNamesCreator' /\ QueuedRunIsComplete'
  BY <1>1, <1>4, <1>6 DEF ObjectsBelongToRun, HandlerTypeOK, Stages, HasRow,
     Uploaded, AccessNamesCreator, QueuedRunIsComplete, Complete, RequestInv,
     AccessInv, ObjectsInv, BucketInv, HasAccess
<1>14. QED
  BY <1>7, <1>8, <1>9, <1>10, <1>11, <1>12, <1>13

LEMMA CancelPreserves ==
  ASSUME IInv, NEW r \in Requests, Cancel(r)
  PROVE  HInv'
<1> USE PushAttemptsAssumption, NoneAssumption
<1> USE DEF IInv, HInv, TypeOK, Goto, requestVars, localVars, dbVars, minioVars, redisVars
<1>1. \A id \in RunIds : Dispatched(id)' <=> Dispatched(id)
  BY SameQueue DEF Cancel
<1>2. HandlerTypeOK' /\ StoreTypeOK' /\ TriesInv'
  BY DEF Cancel, HandlerTypeOK, StoreTypeOK, TriesInv
<1>3. RowsInv' /\ RequestInv' /\ AccessInv'
  BY DEF Cancel, RowsInv, RequestInv, AccessInv
<1>4. StageInv' /\ FilesInv' /\ RemovedInv'
  BY DEF Cancel, StageInv, FilesInv, RemovedInv
<1>5. ObjectsInv' /\ BucketInv'
  BY DEF Cancel, ObjectsInv, SecondFile, BucketInv
<1>6. QueueInv' /\ AnswerInv'
  BY <1>1 DEF Cancel, QueueInv, RowsInv, AnswerInv, HasRow, Uploaded
<1>7. ObjectsBelongToRun' /\ AccessNamesCreator' /\ QueuedRunIsComplete'
  BY <1>1 DEF Cancel, ObjectsBelongToRun, AccessNamesCreator,
     QueuedRunIsComplete, Complete
<1>8. QED
  BY <1>2, <1>3, <1>4, <1>5, <1>6, <1>7

LEMMA ApplyLatePreserves ==
  ASSUME IInv, NEW id \in RunIds, ApplyLate(id)
  PROVE  HInv'
<1> USE PushAttemptsAssumption, NoneAssumption
<1> USE DEF IInv, HInv, TypeOK, requestVars, localVars, dbVars, minioVars
<1>1. /\ inflight[id] > 0 /\ queue' = Pushed(id) /\ taken' = taken
      /\ inflight' \in [RunIds -> Nat]
  BY DEF ApplyLate, StoreTypeOK
<1>2. /\ queue' \in Seq(RunIds)
      /\ \A x \in RunIds : Dispatched(x)' <=> Dispatched(x) \/ x = id
  BY <1>1, PushDispatches DEF StoreTypeOK
<1>3. UNCHANGED <<pc, kind, payload, owner, runID, stage, tries, cancelled, run,
                  access, file, object, bucket, public>>
  BY DEF ApplyLate
<1>4. HandlerTypeOK' /\ StoreTypeOK' /\ TriesInv'
  BY <1>1, <1>2, <1>3 DEF HandlerTypeOK, StoreTypeOK, TriesInv
<1>5. RowsInv' /\ RequestInv' /\ AccessInv'
  BY <1>3 DEF RowsInv, RequestInv, AccessInv
<1>6. StageInv' /\ FilesInv' /\ RemovedInv'
  BY <1>3 DEF StageInv, FilesInv, RemovedInv
<1>7. ObjectsInv' /\ BucketInv'
  BY <1>3 DEF ObjectsInv, SecondFile, BucketInv
<1>8. /\ run[id] # None /\ pc[run[id]] \in {"enqueue", "ok", "error", "dead"}
      /\ Complete(id)
  BY <1>1 DEF InflightInv
<1>9. QueueInv' /\ QueuedRunIsComplete'
  <2>1. ASSUME NEW x \in RunIds, Dispatched(x)'
        PROVE  /\ run[x] # None /\ pc[run[x]] \in {"enqueue", "ok", "error", "dead"}
               /\ Complete(x)
    BY <1>2, <1>8, <2>1 DEF QueueInv, QueuedRunIsComplete
  <2>2. QED
    BY <1>3, <2>1 DEF QueueInv, QueuedRunIsComplete, Complete
<1>10. AnswerInv'
  BY <1>2, <1>3 DEF AnswerInv, RowsInv, HasRow, Uploaded
<1>11. ObjectsBelongToRun' /\ AccessNamesCreator'
  BY <1>3 DEF ObjectsBelongToRun, AccessNamesCreator
<1>12. QED
  BY <1>4, <1>5, <1>6, <1>7, <1>9, <1>10, <1>11

LEMMA RunnerTakePreserves ==
  ASSUME IInv, RunnerTake
  PROVE  HInv'
<1> USE PushAttemptsAssumption, NoneAssumption
<1> USE DEF IInv, HInv, TypeOK, Goto, requestVars, localVars, dbVars, minioVars, redisVars
<1>1. /\ \A id \in RunIds : Dispatched(id)' <=> Dispatched(id)
      /\ queue' \in Seq(RunIds)
      /\ taken' \in [RunIds -> Nat]
  BY TakeDispatches
<1>2. HandlerTypeOK' /\ StoreTypeOK' /\ TriesInv'
  BY DEF RunnerTake, HandlerTypeOK, StoreTypeOK, TriesInv
<1>3. RowsInv' /\ RequestInv' /\ AccessInv'
  BY DEF RunnerTake, RowsInv, RequestInv, AccessInv
<1>4. StageInv' /\ FilesInv' /\ RemovedInv'
  BY DEF RunnerTake, StageInv, FilesInv, RemovedInv
<1>5. ObjectsInv' /\ BucketInv'
  BY DEF RunnerTake, ObjectsInv, SecondFile, BucketInv
<1>6. QueueInv' /\ AnswerInv'
  BY <1>1 DEF RunnerTake, QueueInv, RowsInv, AnswerInv, HasRow, Uploaded
<1>7. ObjectsBelongToRun' /\ AccessNamesCreator' /\ QueuedRunIsComplete'
  BY <1>1 DEF RunnerTake, ObjectsBelongToRun, AccessNamesCreator,
     QueuedRunIsComplete, Complete
<1>8. QED
  BY <1>2, <1>3, <1>4, <1>5, <1>6, <1>7

LEMMA CrashPreserves ==
  ASSUME IInv, Crash
  PROVE  HInv'
<1> USE PushAttemptsAssumption, NoneAssumption
<1> USE DEF IInv, HInv, TypeOK, Goto, requestVars, localVars, dbVars, minioVars, redisVars
<1>1. \A q \in Requests : pc'[q] = IF pc[q] \in Calls THEN "dead" ELSE pc[q]
  BY DEF Crash, Working
<1>2. UNCHANGED <<kind, payload, owner, runID, stage, tries, cancelled, run,
                  access, object, bucket, public>>
  BY DEF Crash
<1>3. \A id \in RunIds : Dispatched(id)' <=> Dispatched(id)
  BY SameQueue DEF Crash
<1>4. HandlerTypeOK' /\ StoreTypeOK' /\ TriesInv'
  <2>1. HandlerTypeOK' /\ TriesInv'
    BY DEF Crash, Working, HandlerTypeOK, Calls, Settled, TriesInv
  <2>2. inflight' \in [RunIds -> Nat]
    BY DEF Crash, StoreTypeOK
  <2>3. QED
    BY <2>1, <2>2 DEF Crash, StoreTypeOK
<1>5. RowsInv'
  BY <1>1, <1>2 DEF RowsInv, StoreTypeOK, BeforeRow, HasRow, Uploading, Uploaded
<1>6. RequestInv'
  BY <1>1, <1>2 DEF RequestInv, Calls, HasRow, Uploading, Uploaded
<1>7. AccessInv'
  BY <1>1, <1>2 DEF AccessInv, HasAccess, HasRow, Uploading, Uploaded
<1>8. StageInv' /\ FilesInv' /\ RemovedInv'
  BY DEF StageInv, HandlerTypeOK, BeforeFiles, BeforeRow, Crash, FileKey,
     FilesInv, RowsInv, HasRow, Uploading, Uploaded, RemovedInv, Stages
<1>9. ObjectsInv' /\ BucketInv'
  BY <1>1, <1>2 DEF ObjectsInv, SecondFile, Uploading, Uploaded, BucketInv
<1>10. QueueInv' /\ AnswerInv'
  <2>1. ASSUME NEW id \in RunIds, Dispatched(id)
        PROVE  run[id] # None /\ pc'[run[id]] \in {"enqueue", "ok", "error", "dead"}
    <3>1. run[id] \in Requests /\ pc[run[id]] \in {"enqueue", "ok", "error", "dead"}
      BY <2>1 DEF QueueInv, StoreTypeOK
    <3>2. QED
      BY <1>1, <3>1
  <2>2. AnswerInv'
    BY <1>1, <1>2, <1>3 DEF AnswerInv, RowsInv, HasRow, Uploaded
  <2>3. QED
    BY <1>2, <1>3, <2>1, <2>2 DEF QueueInv
<1>11. ObjectsBelongToRun' /\ AccessNamesCreator' /\ QueuedRunIsComplete'
  BY <1>2, <1>3 DEF ObjectsBelongToRun, AccessNamesCreator, QueuedRunIsComplete,
     Complete
<1>12. QED
  BY <1>4, <1>5, <1>6, <1>7, <1>8, <1>9, <1>10, <1>11

LEMMA NextPreservesHInv == IInv /\ [Next]_vars => HInv'
<1> SUFFICES ASSUME IInv, [Next]_vars PROVE HInv'
  OBVIOUS
<1>1. ASSUME NEW r \in Requests,
             CreateEA(r) \/ CreateGP(r) \/ CreateML(r) \/ CreatePSO(r)
      PROVE  HInv'
  BY <1>1, ArrivePreserves DEF CreateEA, CreateGP, CreateML, CreatePSO
<1>2. ASSUME NEW r \in Requests, Step(r) PROVE HInv'
  BY <1>2, AuthPreserves, ValidatePreserves, InsertRunPreserves,
     InsertAccessPreserves,
     WriteFilePreserves, MakeBucketPreserves, BucketExistsPreserves, SetBucketPolicyPreserves,
     FPutObjectPreserves, RemoveFilePreserves, EnqueueRunRequestPreserves DEF Step
<1>3. ASSUME NEW r \in Requests, Cancel(r) PROVE HInv'
  BY <1>3, CancelPreserves
<1>4. ASSUME NEW id \in RunIds, ApplyLate(id) PROVE HInv'
  BY <1>4, ApplyLatePreserves
<1>5. CASE RunnerTake
  BY <1>5, RunnerTakePreserves
<1>6. CASE Crash
  BY <1>6, CrashPreserves
<1>7. CASE UNCHANGED vars
  <2> USE <1>7 DEF vars, requestVars, localVars, dbVars, minioVars, redisVars, IInv, HInv
  <2>1. \A id \in RunIds : Dispatched(id)' <=> Dispatched(id)
    BY SameQueue
  <2>2. TypeOK' /\ TriesInv' /\ RowsInv' /\ RequestInv' /\ AccessInv'
    BY DEF TypeOK, HandlerTypeOK, StoreTypeOK, TriesInv, RowsInv, RequestInv, AccessInv
  <2>3. StageInv' /\ FilesInv' /\ RemovedInv' /\ ObjectsInv' /\ BucketInv'
    BY DEF StageInv, FilesInv, RemovedInv, ObjectsInv, BucketInv, SecondFile
  <2>4. QueueInv' /\ AnswerInv' /\ QueuedRunIsComplete'
    BY <2>1 DEF QueueInv, AnswerInv, RowsInv, HasRow, Uploaded,
                QueuedRunIsComplete, Complete
  <2>5. ObjectsBelongToRun' /\ AccessNamesCreator'
    BY DEF ObjectsBelongToRun, AccessNamesCreator
  <2>6. QED
    BY <2>2, <2>3, <2>4, <2>5
<1>8. QED
  BY <1>1, <1>2, <1>3, <1>4, <1>5, <1>6, <1>7 DEF Next, Quiescent

-----------------------------------------------------------------------------
(* A run whose handler sent it to Redis, or is about to, stays as it is.    *)

\* The last call of a handler, and what may come after it.
Final == {"enqueue", "ok", "error", "dead"}

\* What a runner would find of a run stays.
Kept(id) ==
  /\ run'[id] = run[id]
  /\ \A s \in Stages : object'[s][id] = object[s][id]
  /\ \A u \in Users : <<id, u, "write">> \in access' <=> <<id, u, "write">> \in access

LEMMA KeptStep ==
  ASSUME IInv, [Next]_vars, NEW id \in RunIds, run[id] # None, pc[run[id]] \in Final
  PROVE  Kept(id)
<1> USE DEF IInv, HInv, Final
<1>1. CASE UNCHANGED <<run, object, access>>
  BY <1>1 DEF Kept
<1>2. ASSUME NEW r \in Requests, InsertRun(r) PROVE Kept(id)
  BY <1>2 DEF Kept, InsertRun, FreshIds, minioVars, TypeOK, StoreTypeOK
<1>3. ASSUME NEW r \in Requests, InsertAccess(r) PROVE Kept(id)
  <2>1. runID[r] # id
    BY <1>3 DEF InsertAccess, RowsInv, HasRow
  <2>2. QED
    BY <1>3, <2>1 DEF Kept, InsertAccess, minioVars
<1>4. ASSUME NEW r \in Requests, FPutObject(r) PROVE Kept(id)
  <2>1. runID[r] # id /\ runID[r] \in RunIds /\ stage[r] \in Stages
    BY <1>4 DEF FPutObject, TypeOK, HandlerTypeOK, RowsInv, HasRow, Uploading
  <2>2. file[stage[r]][runID[r]] = r
    BY <1>4 DEF FPutObject, FilesInv, Uploading
  <2>3. object' = object \/ object' = [object EXCEPT ![stage[r]][runID[r]] = r]
    BY <1>4, <2>2 DEF FPutObject, FileKey, ObjectKey
  <2>4. \A s \in Stages : object'[s][id] = object[s][id]
    <3>1. object \in [Stages -> [RunIds -> Requests \cup {None, Torn}]]
      BY DEF TypeOK, StoreTypeOK
    <3>2. CASE object' = [object EXCEPT ![stage[r]][runID[r]] = r]
      <4>1. \A s \in Stages, i \in RunIds :
              object'[s][i] = IF s = stage[r] /\ i = runID[r] THEN r ELSE object[s][i]
        BY <2>1, <3>1, <3>2, NestedExcept
      <4>2. QED
        BY <2>1, <4>1
    <3>3. QED
      BY <2>3, <3>2
  <2>5. QED
    BY <1>4, <2>4 DEF Kept, FPutObject, dbVars
<1>5. QED
  BY <1>1, <1>2, <1>3, <1>4 DEF Next, Step, vars, dbVars, minioVars, Quiescent,
     OnlyHandler,
     CreateEA, CreateGP, CreateML, CreatePSO, Arrive, Auth, Validate, WriteFile, MakeBucket,
     BucketExists, SetBucketPolicy, RemoveFile, EnqueueRunRequest, Cancel, ApplyLate,
     RunnerTake, Crash

\* The request keeps its values, and stays at its last call or beyond it.
LEMMA FinalStays ==
  ASSUME IInv, [Next]_vars, NEW q \in Requests, pc[q] \in Final
  PROVE  /\ pc'[q] \in Final
         /\ kind'[q] = kind[q] /\ payload'[q] = payload[q] /\ owner'[q] = owner[q]
<1> USE DEF IInv, HInv, TypeOK, HandlerTypeOK, Final, Goto, requestVars
<1>1. CASE UNCHANGED <<pc, requestVars>>
  BY <1>1
<1>2. ASSUME NEW r \in Requests, NEW k \in Kinds, Arrive(r, k)
      PROVE  /\ pc'[q] \in Final
             /\ kind'[q] = kind[q] /\ payload'[q] = payload[q] /\ owner'[q] = owner[q]
  BY <1>2 DEF Arrive
<1>3. ASSUME NEW r \in Requests, Step(r)
      PROVE  /\ pc'[q] \in Final
             /\ kind'[q] = kind[q] /\ payload'[q] = payload[q] /\ owner'[q] = owner[q]
  <2>1. CASE Auth(r)
    BY <2>1 DEF Auth
  <2>2. CASE Validate(r) \/ InsertRun(r) \/ InsertAccess(r) \/ WriteFile(r)
    BY <2>2 DEF Validate, InsertRun, InsertAccess, WriteFile
  <2>3. CASE MakeBucket(r) \/ BucketExists(r) \/ SetBucketPolicy(r)
    BY <2>3 DEF MakeBucket, BucketExists, SetBucketPolicy
  <2>4. CASE FPutObject(r) \/ RemoveFile(r)
    BY <2>4 DEF FPutObject, RemoveFile, AfterUpload
  <2>5. CASE EnqueueRunRequest(r)
    BY <2>5 DEF EnqueueRunRequest
  <2>6. QED
    BY <1>3, <2>1, <2>2, <2>3, <2>4, <2>5 DEF Step
<1>4. CASE Crash
  BY <1>4 DEF Crash, Working, Calls
<1>5. QED
  BY <1>1, <1>2, <1>3, <1>4 DEF Next, CreateEA, CreateGP, CreateML, CreatePSO,
     Cancel, ApplyLate, RunnerTake, Quiescent, vars

LEMMA BucketStays ==
  ASSUME [Next]_vars
  PROVE  (bucket => bucket') /\ (public => public')
<1>1. CASE UNCHANGED <<bucket, public>>
  BY <1>1
<1>2. ASSUME NEW r \in Requests, MakeBucket(r) \/ SetBucketPolicy(r)
      PROVE  (bucket => bucket') /\ (public => public')
  <2>1. CASE MakeBucket(r)
    <3>1. (bucket' = TRUE \/ bucket' = bucket) /\ public' = public
      BY <2>1 DEF MakeBucket
    <3>2. QED
      BY <3>1
  <2>2. CASE SetBucketPolicy(r)
    <3>1. (public' = TRUE \/ public' = public) /\ bucket' = bucket
      BY <2>2 DEF SetBucketPolicy
    <3>2. QED
      BY <3>1
  <2>3. QED
    BY <1>2, <2>1, <2>2
<1>3. ASSUME NEW r \in Requests, FPutObject(r)
      PROVE  UNCHANGED <<bucket, public>>
  BY <1>3 DEF FPutObject
<1>4. QED
  BY <1>1, <1>2, <1>3 DEF Next, Step, vars, minioVars, Quiescent, OnlyHandler, CreateEA,
     CreateGP, CreateML, CreatePSO, Arrive, Auth, Validate, InsertRun, InsertAccess,
     WriteFile, BucketExists, RemoveFile, EnqueueRunRequest, Cancel, ApplyLate,
     RunnerTake, Crash

LEMMA CompleteStays ==
  ASSUME IInv, [Next]_vars, NEW id \in RunIds, run[id] # None, pc[run[id]] \in Final,
         Complete(id)
  PROVE  run'[id] # None /\ pc'[run'[id]] \in Final /\ Complete(id)'
<1>1. Kept(id) /\ run[id] \in Requests
  BY KeptStep DEF IInv, HInv, TypeOK, StoreTypeOK
<1>2. /\ pc'[run[id]] \in Final
      /\ kind'[run[id]] = kind[run[id]] /\ payload'[run[id]] = payload[run[id]]
      /\ owner'[run[id]] = owner[run[id]]
  BY <1>1, FinalStays
<1>3. owner[run[id]] \in Users
  BY DEF Complete, IInv, HInv, TypeOK, StoreTypeOK
<1>4. QED
  BY <1>1, <1>2, <1>3, BucketStays DEF Complete, Kept

\* The command that a handler is about to send is for a complete run.
LEMMA ReadyIsComplete ==
  ASSUME HInv, NEW r \in Requests, pc[r] = "enqueue"
  PROVE  runID[r] \in RunIds /\ run[runID[r]] = r /\ Complete(runID[r])
<1>1. runID[r] \in RunIds /\ run[runID[r]] = r
  BY DEF HInv, RowsInv, HasRow, Uploaded
<1>2. QED
  BY <1>1, NoneAssumption DEF HInv, Complete, RequestInv, AccessInv, ObjectsInv,
     BucketInv, HasAccess, HasRow, Uploaded

\* Only a handler at its last call adds a command to those in flight.
LEMMA InflightGrows ==
  ASSUME IInv, [Next]_vars, NEW id \in RunIds, inflight'[id] > 0
  PROVE  inflight[id] > 0 \/ \E r \in Requests : pc[r] = "enqueue" /\ runID[r] = id
<1> USE DEF IInv, HInv, TypeOK, StoreTypeOK
<1>1. CASE UNCHANGED inflight
  BY <1>1
<1>2. ASSUME NEW r \in Requests, EnqueueRunRequest(r)
      PROVE  inflight[id] > 0 \/ \E q \in Requests : pc[q] = "enqueue" /\ runID[q] = id
  <2>1. CASE runID[r] = id
    BY <1>2, <2>1 DEF EnqueueRunRequest
  <2>2. CASE runID[r] # id
    BY <1>2, <2>2 DEF EnqueueRunRequest
  <2>3. QED
    BY <2>1, <2>2
<1>3. ASSUME NEW x \in RunIds, ApplyLate(x) PROVE inflight[id] > 0
  BY <1>3 DEF ApplyLate
<1>4. ASSUME Crash
      PROVE  inflight[id] > 0 \/ \E q \in Requests : pc[q] = "enqueue" /\ runID[q] = id
  <2>1. PICK sent \in SUBSET {runID[r] : r \in {q \in Requests : pc[q] = "enqueue"}} :
          inflight' = [x \in RunIds |-> inflight[x] + (IF x \in sent THEN 1 ELSE 0)]
    BY <1>4 DEF Crash
  <2>2. CASE id \in sent
    BY <2>2
  <2>3. CASE id \notin sent
    BY <2>1, <2>3
  <2>4. QED
    BY <2>2, <2>3
<1>5. QED
  BY <1>1, <1>2, <1>3, <1>4 DEF Next, Step, vars, redisVars, Quiescent,
     OnlyHandler, CreateEA, CreateGP, CreateML, CreatePSO, Arrive, Auth, Validate,
     InsertRun, InsertAccess, WriteFile, MakeBucket, BucketExists, SetBucketPolicy,
     FPutObject, RemoveFile, Cancel, RunnerTake

LEMMA NextPreserves == IInv /\ [Next]_vars => IInv'
<1> SUFFICES ASSUME IInv, [Next]_vars PROVE IInv'
  OBVIOUS
<1>1. HInv'
  BY NextPreservesHInv
<1>2. ASSUME NEW id \in RunIds, inflight'[id] > 0
      PROVE  run'[id] # None /\ pc'[run'[id]] \in Final /\ Complete(id)'
  <2>1. CASE inflight[id] > 0
    BY <2>1, CompleteStays DEF IInv, InflightInv, Final
  <2>2. ASSUME NEW r \in Requests, pc[r] = "enqueue", runID[r] = id
        PROVE  run'[id] # None /\ pc'[run'[id]] \in Final /\ Complete(id)'
    BY <2>2, ReadyIsComplete, CompleteStays, NoneAssumption DEF IInv, Final
  <2>3. QED
    BY <1>2, <2>1, <2>2, InflightGrows
<1>3. QED
  BY <1>1, <1>2 DEF IInv, InflightInv, Final

LEMMA DispatchedStays ==
  ASSUME IInv, [Next]_vars, NEW id \in RunIds, Dispatched(id)
  PROVE  Dispatched(id)'
<1>1. CASE UNCHANGED <<queue, taken>>
  BY <1>1, SameQueue
<1>2. ASSUME NEW r \in Requests, EnqueueRunRequest(r) PROVE Dispatched(id)'
  <2>1. runID[r] \in RunIds /\ queue \in Seq(RunIds)
    BY <1>2 DEF IInv, HInv, TypeOK, StoreTypeOK, RowsInv, HasRow, Uploaded,
       EnqueueRunRequest
  <2>2. CASE queue' = Pushed(runID[r])
    BY <1>2, <2>1, <2>2, PushDispatches DEF EnqueueRunRequest
  <2>3. CASE queue' = queue
    BY <1>2, <2>3, SameQueue DEF EnqueueRunRequest
  <2>4. QED
    BY <1>2, <2>2, <2>3 DEF EnqueueRunRequest
<1>3. ASSUME NEW x \in RunIds, ApplyLate(x) PROVE Dispatched(id)'
  BY <1>3, PushDispatches DEF ApplyLate, IInv, HInv, TypeOK, StoreTypeOK
<1>4. CASE RunnerTake
  BY <1>4, TakeDispatches DEF IInv, HInv
<1>5. QED
  BY <1>1, <1>2, <1>3, <1>4 DEF Next, Step, vars, redisVars, Quiescent, OnlyHandler,
     CreateEA, CreateGP, CreateML, CreatePSO, Arrive, Auth, Validate, InsertRun,
     InsertAccess, WriteFile, MakeBucket, BucketExists, SetBucketPolicy, FPutObject,
     RemoveFile, Cancel, Crash

LEMMA FrozenStep ==
  ASSUME IInv, [Next]_vars, NEW id \in RunIds, Dispatched(id)
  PROVE  Dispatched(id)' /\ Kept(id)
<1>1. run[id] # None /\ pc[run[id]] \in Final
  BY DEF IInv, HInv, QueueInv, Final
<1>2. QED
  BY <1>1, KeptStep, DispatchedStays

-----------------------------------------------------------------------------
(* The theorems.                                                           *)

\* Every state of a submission satisfies the inductive invariant: what each point
\* of a handler relies on is there, whatever the other handlers do, and a command
\* that outlived its handler is for a complete run.
THEOREM Invariance == Spec => []IInv
<1>1. QED
  BY InitIInv, NextPreserves, PTL DEF Spec

\* The variables keep their types; in particular no LPUSH is sent more often than
\* the Redis client is configured to.
THEOREM TypeCorrectness == Spec => []TypeOK
<1>1. IInv => TypeOK
  BY DEF IInv, HInv
<1>2. QED
  BY <1>1, Invariance, PTL

\* A runner never sees a run whose row, access, objects or bucket are missing or
\* whose request does not compile, for any number of concurrent submissions.
THEOREM QueuedRunsAreComplete == Spec => []QueuedRunIsComplete
<1>1. IInv => QueuedRunIsComplete
  BY DEF IInv, HInv
<1>2. QED
  BY <1>1, Invariance, PTL

\* Concurrent submissions never upload each other's files, nor a torn one.
THEOREM ObjectsAreOwn == Spec => []ObjectsBelongToRun
<1>1. IInv => ObjectsBelongToRun
  BY DEF IInv, HInv
<1>2. QED
  BY <1>1, Invariance, PTL

\* Write access to a run is only ever given to the user who submitted it.
THEOREM AccessIsTheCreators == Spec => []AccessNamesCreator
<1>1. IInv => AccessNamesCreator
  BY DEF IInv, HInv
<1>2. QED
  BY <1>1, Invariance, PTL

\* A request is answered with 200 only when its run is in the queue or was taken
\* from it, and its local files are gone.
THEOREM AcceptedRunsAreDispatched == Spec => []AcceptedRunIsDispatched
<1>1. IInv => AcceptedRunIsDispatched
  BY DEF IInv, HInv, AcceptedRunIsDispatched, AnswerInv, RowsInv, RemovedInv, HasRow,
     Uploaded
<1>2. QED
  BY <1>1, Invariance, PTL

\* What a runner can see of a run never changes.
THEOREM QueuedRunsAreFrozen == Spec => QueuedRunIsFrozen
<1> DEFINE Unchanging ==
      \A id \in RunIds : Dispatched(id) =>
        /\ Dispatched(id)'
        /\ run'[id] = run[id]
        /\ \A s \in Stages : object'[s][id] = object[s][id]
        /\ \A u \in Users :
             <<id, u, "write">> \in access' <=> <<id, u, "write">> \in access
<1>1. IInv /\ [Next]_vars => [Unchanging]_vars
  BY FrozenStep DEF Kept
<1>2. QED
  BY <1>1, Invariance, PTL DEF Spec, QueuedRunIsFrozen
=============================================================================
