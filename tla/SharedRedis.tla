----------------------------- MODULE SharedRedis -----------------------------
(***************************************************************************)
(* Log streams and submissions on one Redis client (util/redis.go).        *)
(*                                                                         *)
(* All commands of the server take their connections from one pool.  An    *)
(* XREAD keeps its connection as long as it waits, an LPUSH until it is    *)
(* answered.  A command that finds the pool exhausted waits for a turn,    *)
(* and fails when the pool's timeout is over (four seconds, and so again   *)
(* for every attempt) or when its context is cancelled.  That timeout is   *)
(* the only thing that protects a submission from viewers, and viewers of  *)
(* a run from those of another: their reads may wait for entries without   *)
(* end.                                                                    *)
(*                                                                         *)
(* The handlers are those of LogStream.  A push stands for the last call   *)
(* of a submission, EnqueueRunRequest of RunSubmission, in which "starved" *)
(* is an error without effect and "failed" any error.                      *)
(***************************************************************************)
EXTENDS LogStream

CONSTANTS
  PoolSize,   \* connections of the client, ten per processor by default
  Pushes      \* bound: the submissions that come to their LPUSH

ASSUME PoolSizeAssumption == PoolSize \in Nat \ {0}
ASSUME CallersAssumption == Viewers \cap Pushes = {}

VARIABLES
  holding,   \* the viewers and pushes that have a connection
  push       \* push -> how far its LPUSH got

sharedVars == <<vars, holding, push>>

Callers == Viewers \cup Pushes
Waiting == {v \in Viewers : pc[v] = "wait"} \cup {p \in Pushes : push[p] = "calling"}
PoolFull == Cardinality(holding) >= PoolSize

\* A viewer whose read waits for an entry behind its cursor.
Silent(v) == pc[v] = "wait" /\ Available(v) = 0

\* Every connection is with a read that has nothing to return.
Exhausted == PoolFull /\ \A c \in holding : c \in Viewers /\ Silent(c)

\* The request a caller works for is over: its client left or the server stops.
CallCancelled(c) == stopping \/ c \in gone

SharedInit ==
  /\ Init
  /\ holding = {}
  /\ push = [p \in Pushes |-> "idle"]

SetPush(p, state) == push' = [push EXCEPT ![p] = state]

-----------------------------------------------------------------------------
(* The pool.                                                               *)

\* A caller without a connection gets one.
Acquire(c) ==
  /\ c \in Waiting \ holding
  /\ ~PoolFull
  /\ holding' = holding \cup {c}
  /\ UNCHANGED <<vars, push>>

\* An error of the pool: a submission gives up, a handler does what it does with any
\* error, and the live loop reads again.
TurnFails(c) ==
  /\ c \in Waiting \ holding
  /\ \/ /\ c \in Viewers
        /\ IF phase[c] = "history" THEN Goto(c, "failed") ELSE Goto(c, "read")
        /\ UNCHANGED push
     \/ /\ c \in Pushes
        /\ SetPush(c, "starved")
        /\ UNCHANGED pc
  /\ UNCHANGED <<log, phase, cursor, batchVars, sent, gone, stopping, holding>>

\* Mutation: only handlers wait for a turn with a limit.
NoTurnForViewersOnly(c) ==
  /\ Exhausted
  /\ c \in Viewers
  /\ TurnFails(c)
  /\ UNCHANGED faults

\* The pool stays exhausted until its timeout, in every attempt of the client.
NoTurn(c) ==
  /\ Exhausted
  /\ TurnFails(c)
  /\ UNCHANGED faults

\* The same because Redis answers too late a command it could answer.
TurnLost(c) ==
  /\ PoolFull /\ ~Exhausted
  /\ TurnFails(c)
  /\ faults < MaxFaults
  /\ faults' = faults + 1

\* The context of a caller is cancelled while it waits for its turn.
Abandon(c) ==
  /\ c \in Waiting \ holding
  /\ CallCancelled(c)
  /\ \/ c \in Viewers /\ Goto(c, "left") /\ UNCHANGED push
     \/ c \in Pushes /\ SetPush(c, "failed") /\ UNCHANGED pc
  /\ UNCHANGED <<log, phase, cursor, batchVars, sent, worldVars, holding>>

\* Mutation: a command that fails keeps its connection.
ReleaseKept(c) == c \in holding /\ UNCHANGED holding

\* A command is over, whatever its result, and its connection is free.
Release(c) == c \in holding /\ holding' = holding \ {c}

-----------------------------------------------------------------------------
(* The callers.                                                            *)

\* A submission comes to its LPUSH, with a context that may be cancelled already.
IssuePush(p) ==
  /\ push[p] = "idle"
  /\ SetPush(p, IF stopping THEN "failed" ELSE "calling")
  /\ UNCHANGED <<vars, holding>>

\* Redis answers an LPUSH.  A push under way is not interrupted by its context.
PushReply(p) ==
  /\ push[p] = "calling"
  /\ Release(p)
  /\ SetPush(p, "done")
  /\ UNCHANGED vars

\* An LPUSH fails because Redis does.
PushError(p) ==
  /\ push[p] = "calling"
  /\ faults < MaxFaults
  /\ faults' = faults + 1
  /\ Release(p)
  /\ SetPush(p, "failed")
  /\ UNCHANGED <<log, handlerVars, gone, stopping>>

\* A step of a handler between its calls.
Serve(v) ==
  /\ IssueRead(v) \/ SkipBad(v) \/ SendEntry(v) \/ SendFails(v) \/ EndBatch(v)
  /\ UNCHANGED <<holding, push>>

\* Mutation: a read that returns nothing keeps its connection for the next one.
ReadReturnsNilKeeps(v) ==
  /\ v \in holding
  /\ \/ ReadReply(v) /\ holding' = holding \ {v}
     \/ ReadNil(v) /\ UNCHANGED holding
  /\ UNCHANGED push

\* XREAD returns.
ReadReturns(v) ==
  /\ Release(v)
  /\ ReadReply(v) \/ ReadNil(v)
  /\ UNCHANGED push

\* XREAD fails.
ReadBreaks(v) ==
  /\ Release(v)
  /\ ReadError(v)
  /\ UNCHANGED push

\* Clients, the runner and a signal.
World ==
  /\ \/ \E v \in Viewers : Open(v) \/ Disconnect(v)
     \/ \E r \in Runs : RunnerWrite(r)
     \/ Shutdown
  /\ UNCHANGED <<holding, push>>

SharedNext ==
  \/ \E c \in Callers : Acquire(c) \/ NoTurn(c) \/ TurnLost(c) \/ Abandon(c)
  \/ \E p \in Pushes : IssuePush(p) \/ PushReply(p) \/ PushError(p)
  \/ \E v \in Viewers : Serve(v) \/ ReadReturns(v) \/ ReadBreaks(v)
  \/ World

SharedSpec == SharedInit /\ [][SharedNext]_sharedVars

\* Callers get turns in the order in which they ask for them, so that one who asks
\* again and again gets one; the timer of the pool runs out; Redis answers; a
\* handler that can go on does.
SharedFairSpec ==
  /\ SharedSpec
  /\ \A c \in Callers : SF_sharedVars(Acquire(c)) /\ WF_sharedVars(NoTurn(c) \/ Abandon(c))
  /\ \A p \in Pushes : WF_sharedVars(PushReply(p))
  /\ \A v \in Viewers : WF_sharedVars(Serve(v)) /\ WF_sharedVars(ReadReturns(v))

-----------------------------------------------------------------------------
(* Properties.                                                             *)

\* The types of the variables; only a command under way has a connection, and
\* there are never more of them than the pool has.
SharedTypeOK ==
  /\ TypeOK
  /\ push \in [Pushes -> {"idle", "calling", "done", "failed", "starved"}]
  /\ holding \subseteq Waiting
  /\ Cardinality(holding) <= PoolSize

\* A submission is answered although viewers hold every connection for as long as
\* the log they wait for does not grow: EnqueueRunRequest of util/enqueue.go returns.
PushSettles ==
  \A p \in Pushes : push[p] = "calling" ~> push[p] \in {"done", "failed", "starved"}

\* The stream of a run that ended ends also where viewers of other runs, which may
\* be silent for ever, take their connections from the same pool: with "done", unless
\* its client leaves, the server stops, a read of the history fails, or the pool
\* refuses it a turn again and again.  It does so only while every connection is with
\* a read that has nothing to return (server.go, lines 178 and 255).
StreamsEndUnlessRefused ==
  \A v \in Viewers :
    \/ LogEnds(v) /\ pc[v] \in Serving ~> pc[v] \in {"done", "failed"} \/ Cancelled(v)
    \/ []<><<NoTurn(v)>>_sharedVars

\* When the server stops, the connections return to the pool for good, all but those
\* of history reads with nothing to return (server.go, line 178).
StoppingFreesConnections ==
  stopping ~> [](\A c \in holding : c \in Viewers /\ phase[c] = "history" /\ Silent(c))
=============================================================================
