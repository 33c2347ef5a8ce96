------------------------------ MODULE LogStream ------------------------------
(***************************************************************************)
(* The logs of runs on their way from the Redis streams to the browsers    *)
(* that watch them: serveSSEWithStream of modules/sse/server.go.           *)
(*                                                                         *)
(* A handler reads the stream twice over.  The history loop starts at ID   *)
(* 0-0 and reads batches until one is not full; the live loop goes on from *)
(* the last ID processed with a read that blocks for five seconds at most. *)
(* Both send every entry to the client and end with the entry that marks   *)
(* the end of the log, an event "done" behind it.  An entry without the    *)
(* field log_data is skipped, and does not move the cursor.                *)
(*                                                                         *)
(* The identifiers of a stream are the positions in its log, 0 standing    *)
(* for 0-0.  A viewer is one connection, and so watches one run: a client  *)
(* that reconnects while its old handler still hangs in a read is two      *)
(* viewers.                                                                *)
(***************************************************************************)
EXTENDS Integers, FiniteSets, Sequences, SequencesExt

CONSTANTS
  Viewers,         \* connections that may be open at a time
  Runs,            \* the runs whose logs are watched, a stream each
  Watches,         \* viewer -> the run its connection asks for
  Count,           \* streamReadCount, the entries one XREAD returns at most
  MaxLog,          \* bound: run -> the entries its runner writes
  BadRun,          \* how many malformed entries follow each other at most
  MaxFaults        \* bound: how many calls fail because Redis does

ASSUME WatchesAssumption == Watches \in [Viewers -> Runs]
ASSUME CountAssumption == Count \in Nat \ {0}
ASSUME BoundsAssumption ==
  MaxLog \in [Runs -> Nat] /\ BadRun \in Nat /\ MaxFaults \in Nat

VARIABLES
  log,        \* run -> its stream: lines, malformed entries and EOF markers
  pc,         \* viewer -> where its handler is
  phase,      \* viewer -> the loop the handler is in
  cursor,     \* viewer -> lastProcessedID
  next,       \* viewer -> the entry of the batch it handles next
  last,       \* viewer -> the last entry of the batch
  full,       \* viewer -> does the batch hold Count entries?
  sent,       \* viewer -> the entries written to the connection, in order
  gone,       \* the viewers whose client closed the connection
  stopping,   \* has a signal cancelled the context of all requests?
  faults      \* how many reads have failed

batchVars == <<next, last, full>>
handlerVars == <<pc, phase, cursor, batchVars, sent>>
worldVars == <<gone, stopping, faults>>
vars == <<log, handlerVars, worldVars>>

Entries == {"line", "bad", "eof"}

\* read: at the head of a loop; wait: XREAD is under way; send: in the for loop
\* over the messages of a batch.
Serving == {"read", "wait", "send"}
Ended == {"off", "done", "left", "failed"}

Cancelled(v) == v \in gone \/ stopping

\* The stream a handler reads.
Log(v) == log[Watches[v]]

\* The entries behind the cursor that an XREAD returns.
Available(v) == Len(Log(v)) - cursor[v]
BatchSize(v) == IF Available(v) < Count THEN Available(v) ELSE Count

Goto(v, next_pc) == pc' = [pc EXCEPT ![v] = next_pc]

Init ==
  /\ log = [r \in Runs |-> <<>>]
  /\ pc = [v \in Viewers |-> "off"]
  /\ phase = [v \in Viewers |-> "history"]
  /\ cursor = [v \in Viewers |-> 0]
  /\ next = [v \in Viewers |-> 1]
  /\ last = [v \in Viewers |-> 0]
  /\ full = [v \in Viewers |-> FALSE]
  /\ sent = [v \in Viewers |-> <<>>]
  /\ gone = {}
  /\ stopping = FALSE
  /\ faults = 0

-----------------------------------------------------------------------------
(* The handler.                                                            *)

\* A new connection: all local variables of the handler are new.  The headers
\* may not get through.
Open(v) ==
  /\ pc[v] \in Ended
  /\ ~stopping
  /\ Goto(v, "read") \/ Goto(v, "left")
  /\ phase' = [phase EXCEPT ![v] = "history"]
  /\ cursor' = [cursor EXCEPT ![v] = 0]
  /\ next' = [next EXCEPT ![v] = 1]
  /\ last' = [last EXCEPT ![v] = 0]
  /\ full' = [full EXCEPT ![v] = FALSE]
  /\ sent' = [sent EXCEPT ![v] = <<>>]
  /\ gone' = gone \ {v}
  /\ UNCHANGED <<log, stopping, faults>>

\* Mutation: the live loop does not look at the context.
IssueReadAnyway(v) ==
  /\ pc[v] = "read"
  /\ Goto(v, "wait")
  /\ UNCHANGED <<log, phase, cursor, batchVars, sent, worldVars>>

\* Sends XREAD.  The client refuses to on a cancelled context, and the live loop
\* checks the context itself; either way the handler returns.
IssueRead(v) ==
  /\ pc[v] = "read"
  /\ IF Cancelled(v) THEN Goto(v, "left") ELSE Goto(v, "wait")
  /\ UNCHANGED <<log, phase, cursor, batchVars, sent, worldVars>>

\* Mutation: the batch starts one entry too late.
ReadReplyOffByOne(v) ==
  /\ pc[v] = "wait"
  /\ Available(v) > 0
  /\ next' = [next EXCEPT ![v] = cursor[v] + 2]
  /\ last' = [last EXCEPT ![v] = cursor[v] + BatchSize(v)]
  /\ full' = [full EXCEPT ![v] = BatchSize(v) = Count]
  /\ Goto(v, "send")
  /\ UNCHANGED <<log, phase, cursor, sent, worldVars>>

\* Mutation: every batch is taken for a full one.
ReadReplyAlwaysFull(v) ==
  /\ pc[v] = "wait"
  /\ Available(v) > 0
  /\ next' = [next EXCEPT ![v] = cursor[v] + 1]
  /\ last' = [last EXCEPT ![v] = cursor[v] + Count]
  /\ full' = [full EXCEPT ![v] = TRUE]
  /\ Goto(v, "send")
  /\ UNCHANGED <<log, phase, cursor, sent, worldVars>>

\* XREAD returns the entries behind the cursor, Count of them at most.  A read
\* under way is not interrupted by the cancellation of its context.
ReadReply(v) ==
  /\ pc[v] = "wait"
  /\ Available(v) > 0
  /\ next' = [next EXCEPT ![v] = cursor[v] + 1]
  /\ last' = [last EXCEPT ![v] = cursor[v] + BatchSize(v)]
  /\ full' = [full EXCEPT ![v] = BatchSize(v) = Count]
  /\ Goto(v, "send")
  /\ UNCHANGED <<log, phase, cursor, sent, worldVars>>

\* XREAD returns nothing, for its five seconds are over.  The history read has no
\* Block, which go-redis sends as BLOCK 0: it waits until there is an entry.
ReadNil(v) ==
  /\ pc[v] = "wait"
  /\ phase[v] = "live"
  /\ Available(v) = 0
  /\ Goto(v, "read")
  /\ UNCHANGED <<log, phase, cursor, batchVars, sent, worldVars>>

\* XREAD fails for another reason: the history gives up, the live loop sleeps
\* and reads again.
ReadError(v) ==
  /\ pc[v] = "wait"
  /\ faults < MaxFaults
  /\ faults' = faults + 1
  /\ IF phase[v] = "history" THEN Goto(v, "failed") ELSE Goto(v, "read")
  /\ UNCHANGED <<log, phase, cursor, batchVars, sent, gone, stopping>>

InBatch(v) == pc[v] = "send" /\ next[v] <= last[v]

\* An entry without log_data: continue, without an update of the cursor.
SkipBad(v) ==
  /\ InBatch(v)
  /\ Log(v)[next[v]] = "bad"
  /\ next' = [next EXCEPT ![v] = @ + 1]
  /\ UNCHANGED <<log, pc, phase, cursor, last, full, sent, worldVars>>

\* Mutation: the cursor stays behind also for an entry that was sent.
SendEntryKeepsCursor(v) ==
  /\ InBatch(v)
  /\ Log(v)[next[v]] # "bad"
  /\ sent' = [sent EXCEPT ![v] = Append(@, next[v])]
  /\ IF Log(v)[next[v]] = "eof"
     THEN Goto(v, "done") /\ UNCHANGED next
     ELSE next' = [next EXCEPT ![v] = @ + 1] /\ UNCHANGED pc
  /\ UNCHANGED <<log, phase, cursor, last, full, worldVars>>

\* Mutation: the marker is looked for in the history only.
SendEntryLiveIgnoresEof(v) ==
  /\ InBatch(v)
  /\ Log(v)[next[v]] # "bad"
  /\ sent' = [sent EXCEPT ![v] = Append(@, next[v])]
  /\ IF Log(v)[next[v]] = "eof" /\ phase[v] = "history"
     THEN Goto(v, "done") /\ UNCHANGED <<cursor, next>>
     ELSE /\ cursor' = [cursor EXCEPT ![v] = next[v]]
          /\ next' = [next EXCEPT ![v] = @ + 1]
          /\ UNCHANGED pc
  /\ UNCHANGED <<log, phase, last, full, worldVars>>

\* Writes an entry and moves the cursor behind it, or writes the last one and the
\* event "done".
SendEntry(v) ==
  /\ InBatch(v)
  /\ Log(v)[next[v]] # "bad"
  /\ sent' = [sent EXCEPT ![v] = Append(@, next[v])]
  /\ IF Log(v)[next[v]] = "eof"
     THEN Goto(v, "done") /\ UNCHANGED <<cursor, next>>
     ELSE /\ cursor' = [cursor EXCEPT ![v] = next[v]]
          /\ next' = [next EXCEPT ![v] = @ + 1]
          /\ UNCHANGED pc
  /\ UNCHANGED <<log, phase, last, full, worldVars>>

\* The write or the flush fails, as it sooner or later does on a connection that
\* the client closed.
SendFails(v) ==
  /\ InBatch(v)
  /\ Log(v)[next[v]] # "bad"
  /\ v \in gone
  /\ Goto(v, "left")
  /\ UNCHANGED <<log, phase, cursor, batchVars, sent, worldVars>>

\* The batch was full: the history goes on.  It was not: the live loop starts.
\* The size of the batch is that of the reply, malformed entries included.
EndBatch(v) ==
  /\ pc[v] = "send"
  /\ next[v] > last[v]
  /\ phase' = [phase EXCEPT ![v] = IF full[v] THEN @ ELSE "live"]
  /\ Goto(v, "read")
  /\ UNCHANGED <<log, cursor, batchVars, sent, worldVars>>

-----------------------------------------------------------------------------
(* The world around the handlers.                                          *)

\* As many malformed entries in a row as the runner writes at most.
AfterBadRun(r) ==
  /\ Len(log[r]) >= BadRun
  /\ \A i \in (Len(log[r]) - BadRun + 1)..Len(log[r]) : log[r][i] = "bad"

\* A runner, another program, adds an entry to the log of its run.  A run that was
\* queued twice may go on after an EOF marker.
RunnerWrite(r) ==
  /\ Len(log[r]) < MaxLog[r]
  /\ \E e \in Entries :
       /\ e = "bad" => ~AfterBadRun(r)
       /\ log' = [log EXCEPT ![r] = Append(@, e)]
  /\ UNCHANGED <<handlerVars, worldVars>>

\* The client closes its connection.
Disconnect(v) ==
  /\ pc[v] \in Serving
  /\ v \notin gone
  /\ gone' = gone \cup {v}
  /\ UNCHANGED <<log, handlerVars, stopping, faults>>

\* SIGINT or SIGTERM cancels the base context of the server.
Shutdown ==
  /\ ~stopping
  /\ stopping' = TRUE
  /\ UNCHANGED <<log, handlerVars, gone, faults>>

\* The server is stopping and every handler has returned.
Stopped ==
  /\ stopping
  /\ \A v \in Viewers : pc[v] \in Ended
  /\ UNCHANGED vars

Step(v) ==
  \/ IssueRead(v)
  \/ ReadReply(v)
  \/ ReadNil(v)
  \/ SkipBad(v)
  \/ SendEntry(v)
  \/ SendFails(v)
  \/ EndBatch(v)

Next ==
  \/ \E v \in Viewers : Open(v) \/ Step(v) \/ ReadError(v) \/ Disconnect(v)
  \/ \E r \in Runs : RunnerWrite(r)
  \/ Shutdown
  \/ Stopped

Spec == Init /\ [][Next]_vars

\* A handler that can go on does: Redis answers a read that has something to
\* return, and a write to the connection returns.  Nothing is assumed of the
\* runner and of clients, and no read has to fail.
FairSpec == Spec /\ \A v \in Viewers : WF_vars(Step(v))

-----------------------------------------------------------------------------
(* Properties.                                                             *)

BatchInLog(v) ==
  /\ cursor[v] <= Len(Log(v))
  /\ last[v] <= Len(Log(v))
  /\ pc[v] = "send" => next[v] \in (cursor[v] + 1)..(last[v] + 1)

\* The types of the variables; a handler's cursor and its batch lie in the log.
TypeOK ==
  /\ log \in [Runs -> Seq(Entries)] /\ \A r \in Runs : Len(log[r]) <= MaxLog[r]
  /\ pc \in [Viewers -> Serving \cup Ended]
  /\ phase \in [Viewers -> {"history", "live"}]
  /\ cursor \in [Viewers -> Nat]
  /\ next \in [Viewers -> Nat]
  /\ last \in [Viewers -> Nat]
  /\ full \in [Viewers -> BOOLEAN]
  /\ sent \in [Viewers -> Seq(Nat)]
  /\ gone \subseteq Viewers
  /\ stopping \in BOOLEAN
  /\ faults \in 0..MaxFaults
  /\ \A v \in Viewers : BatchInLog(v)

\* The position up to which a handler has dealt with the log.
Reach(v) ==
  CASE pc[v] = "send" -> next[v] - 1
    [] pc[v] = "done" -> next[v]
    [] OTHER -> cursor[v]

\* A connection shows the log from its beginning, in order, without a gap and
\* without an entry twice, although reads overlap where malformed entries kept the
\* cursor back and the history loop hands over to the live loop in between.
DeliveredInOrder ==
  \A v \in Viewers :
    /\ \A i, j \in DOMAIN sent[v] : i < j => sent[v][i] < sent[v][j]
    /\ ToSet(sent[v]) = {p \in 1..Reach(v) : Log(v)[p] # "bad"}

LogEnds(v) == \E i \in DOMAIN Log(v) : Log(v)[i] = "eof"

\* The stream of a run that ended ends with its marker: a handler that serves it
\* writes the event "done", unless its client leaves, the server stops or a read
\* of the history fails.
EndedLogEndsStream ==
  \A v \in Viewers :
    LogEnds(v) /\ pc[v] \in Serving ~> pc[v] \in {"done", "failed"} \/ Cancelled(v)

\* A handler whose client closed the connection or whose server stops returns,
\* once it is in the live loop, whose reads time out.
CancelledLiveHandlerReturns ==
  \A v \in Viewers :
    Cancelled(v) /\ pc[v] \in Serving /\ phase[v] = "live" ~> pc[v] \in Ended

\* What a viewer sees of its handler: the last entry written, and whether the
\* stream is open.
Shown(v) == IF sent[v] = <<>> THEN 0 ELSE Last(sent[v])
State(v) ==
  CASE pc[v] \in Serving -> "open"
    [] pc[v] = "done" -> "complete"
    [] OTHER -> "closed"

Delivery == INSTANCE LogDelivery WITH shown <- [v \in Viewers |-> Shown(v)],
                                      state <- [v \in Viewers |-> State(v)]

\* The two loops with their batches and their cursor deliver a log as if they
\* showed it entry by entry, and "done" comes with an EOF marker, behind which nothing
\* is written (server.go, lines 221-230 and 295-303).
ImplementsDelivery == Delivery!Spec

\* The history loop only reads what is there: "We don't block here, just read
\* what's available" (server.go, line 177).
HistoryReadReturns ==
  \A v \in Viewers :
    pc[v] = "wait" /\ phase[v] = "history" ~> ~(pc[v] = "wait" /\ phase[v] = "history")
=============================================================================
