# Verification of the runner controller

The runner controller is the web server of EvOC that takes the description of
an evolutionary computation, generates a Python program for it, stores both and
queues the run for a *runner*, another program. It also lists and shares runs and
streams the log of a run to browsers. This directory holds TLA+ models of it,
TLC configurations that check them on small instances, and proofs for any
instance. Paths below are relative to `src/`.

## Inventory

| component | state | operations | uses |
|---|---|---|---|
| run submission (`controller/ea.go`, `gp.go`, `ml.go`, `pso.go`) | tables `run`, `access`; directories `code/`, `input/` | `CreateEA`, `CreateGP`, `CreateML`, `CreatePSO` | authentication, generators, pool, upload, queue |
| object upload (`util/minio.go`) | bucket `code`, its policy, objects `<id>/code.py`, `<id>/input.json` | `UploadFile` | MinIO |
| run queue (`util/enqueue.go`) | a Redis list | `EnqueueRunRequest` (LPUSH) | Redis |
| authentication (`modules/auth.go`) | none | `Auth` | auth service (gRPC) |
| log stream (`modules/sse/server.go`) | per connection: loop, cursor, batch | `GetSSEHandler`, `serveSSEWithStream` | Redis stream of the run, written by the runner |
| access and sharing (`modules/run.go`, `controller/run.go`) | tables `run`, `access` | `UserRuns`, `ShareRun`, `UserRun` | pool |
| database pool (`db/connection/pool.go`) | global `dbpool` | `PoolConn` | pgx |
| lifecycle (`main.go`, `util/redis.go`) | base context, server, two Redis clients | start, signal, shutdown | all |
| generators (`modules/ea.go`, `gp.go`, `ml.go`, `pso.go`) | none | `...FromJSON`, `Code` | - |
| Redis connections (go-redis, used by `util/enqueue.go` and `modules/sse/server.go`) | the pool of `util.RedisClient` | LPUSH, XREAD | Redis |
| helpers, logger, gRPC stubs, viewer page, container files | none of interest | | |

Interactions: every HTTP request is a goroutine. Submissions meet in the
database, the local directories, the bucket and the Redis list; submissions and
log streams meet in the Redis connection pool; submission and runner meet in the
list (LPUSH at the head, the runner pops the tail); runner and log streams meet
in the Redis stream named after the run; a signal cancels the context of every
request (`main.go:87`).

What is hard: a submission writes to five stores and rolls nothing back; replies
get lost; the Redis client repeats LPUSH; clients leave and the process dies at
any point; the log is read by two loops that hand over a cursor while it grows;
one of their reads can block without end. What must be right:

- submission: a runner sees whole runs of one request only, a 200 means that the
  run is queued, and every request is answered;
- log stream: entries in order, none lost, none twice, and an end after the end;
- sharing: all or nothing for the listed users, and answers that say what happened;
- pool: one pool, never nil;
- lifecycle: nothing closed that is nil or still in use, an end within the timeout;
- Redis connections: nobody waits for ever because somebody else does;
- generators: which requests get a program that comes to its end.

### The state of the source

The commit holds leftovers of a merge and does not compile: `util/enqueue.go`
22-55 opens a RabbitMQ connection (amqp is neither imported nor in `go.mod`) and
56-88 pushes to Redis, with the variable `queueName` declared twice; `main.go`
39-41 sets up Redis twice; `GetSSEHandler` and `serveSSEWithStream` are called
without their parameter `redisClient`. `go.mod`, the README and
`docker-compose.yml` know Redis only, so the Redis path is modelled, and the
handlers use `util.RedisClient` as their bodies do.

## Modules

### RunSubmission

One `pc` per request names the call its handler makes next. The actions follow
the handler from top to bottom:

| action | code (EA; GP, ML and PSO have the same lines) |
|---|---|
| `CreateEA` ... `CreatePSO` | arrival at one of the four endpoints |
| `Auth` | `modules/auth.go`, 401 on any error, own 30 s context |
| `Validate` | `Body`, `EAFromJSON`, `Code`: 400 |
| `InsertRun`, `InsertAccess` | `PoolConn` and the two INSERTs, each its own transaction |
| `WriteFile` | `os.WriteFile`; may leave a torn file |
| `MakeBucket`, `BucketExists`, `SetBucketPolicy`, `FPutObject` | `UploadFile`, once with stage `"code"`, once with `"input"` |
| `RemoveFile` | `os.Remove`, code first |
| `EnqueueRunRequest` | LPUSH with its retries |
| `ApplyLate` | Redis applies an LPUSH that nobody waits for any more |

Each action has all outcomes of its call: success, an error without effect, and,
for calls to another machine, an effect whose reply is lost. For LPUSH, whose
sender goes on after a few seconds, the effect may also come later, when the handler is at
its next attempt, has answered 500 or is gone: an attempt without a reply is in `inflight` until
Redis applies it, at once, later or never, and a crash leaves one there for each handler at its
last call that had sent it. (A late INSERT or upload of a handler that gave up is not
visible to a runner; PostgreSQL and MinIO are modelled with the effect before the answer.)
A cancelled context
(`Cancel`) makes every later call with that context fail before it has an effect;
`Auth` and the file operations do not use it. `Crash` ends all handlers and keeps
the stores; new requests may follow. `RunnerTake` is the runner.

The database row, a file and an object are represented by the request they were
made from (a row by all its values, a file and an object by their content), so
that "the object of this run was generated from the request of this run" is an
equation. What `Code()` accepts is the constant `Compiles`. Identifiers are never
given twice, as a database key. The answer itself is not modelled as a message.

The initial state has the bucket or not, and its policy set or not.

### RunPublication

The promise of a submission: a whole run appears in one step, once and for good, and an
accepted request has its run. `RunSubmission` implements it (`ImplementsPublication`) under
the mapping `Shelf` (what a runner finds behind a queued identifier), `Answer` (what the
client knows) and `taken`. A refusal promises less, and the specification says so: the run
may have appeared before it (`Publish`, the lost reply of LPUSH) or appear after it (`PublishLate`,
the late one), but still whole and not twice.

### LogStream

One handler per viewer: `read` at the head of a loop, `wait` in XREAD, `send` in the
loop over a batch; `phase` is the loop, `cursor` is `lastProcessedID`. There is a stream
for each run (`log`), a viewer watches the run that `Watches` gives it, and positions in a log
stand for stream identifiers. `Open` is lines 97-173, `IssueRead` the head of
both loops, `ReadReply`, `ReadNil` and `ReadError` the three kinds of results,
`SkipBad` the `continue` that leaves the cursor alone, `SendEntry` and `SendFails` the
two results of `sendSSEData` with the check for EOF, `EndBatch` the test
`len(streamMessages) < streamReadCount`. `Disconnect` and `Shutdown` cancel contexts;
a read under way is not interrupted by that, which is how go-redis behaves.
Not modelled: the two 400 answers for a missing or malformed run identifier (no
state changes), the payload of lines, and removal of entries by Redis.

An XREAD without `Block` is sent by go-redis v9 as BLOCK 0, so that the history read waits
(`ReadNil` is for the live loop only); the comment in line 177 expects something else.

### LogDelivery

The promise of the log endpoint: entry by entry, the next one of the log of its run that is
not malformed, complete with the first EOF. `LogStream` implements it (`ImplementsDelivery`).

### RunAccess

`ShareRun`, `UserRuns` and `UserRun` of `modules/run.go` beside handlers that create runs,
one action per SQL statement. `CheckRun`, `FindUsers` (with the count check behind it) and
`InsertGrant`, once per account, are a share; `QueryAccess` and `QueryRuns` list runs;
`CheckAccess` and `ReadRun` show one; `InsertRun` and `InsertAccess` are the two statements of a
submission that touch the same tables. `Auth` includes the parsing of the body. A query may
fail at once, or break off after any of its rows, which `rows.Next` does not tell from the
end: `cut` is what `rows.Err` would say. Answers are named after their texts, for two
findings are about them. The set of accounts found carries no order: the query has no
ORDER BY, and `InsertGrant` takes any of them.

Two things are assumed of the database, whose schema is not in the repository, from the way
the code uses it: the pair of run and user is a key of `access` (the message in
`modules/run.go:158` expects a conflict; `Inserted` is external for that reason), and an address
belongs to one account. That a row then never changes is this assumption and no property of the
code, so that none is stated. Bodies name any identifier, right or wrong, also one of a run
whose creator has no row yet: `modules/run.go:126` looks into the table `run` only, and a share
may come between the two INSERTs of the creation. The creator's own row is then still written
or missing as without the share (`CreatorIsWriter`), and the rows of the share are those its
body asks for (`GrantsAreWarranted`). `before` is a history variable.

### SharedRedis

`LogStream` and the last call of submissions over one pool of connections, that of
`util.RedisClient`. A command first gets a connection (`Acquire`) and keeps it until it
returns (`Release`, in `ReadReturns`, `ReadBreaks`, `PushReply`, `PushError`). When the pool is
exhausted it waits; `NoTurn` is the timeout of the pool (four seconds, in each attempt), for an LPUSH
an error without effect ("starved"), for a history read the end of its handler, for the live
loop another read; `Abandon` is a context cancelled meanwhile. `Exhausted` says that all connections
are with reads that have nothing to return: only those outlast the timeout, unless Redis is
slow, which is a fault (`TurnLost`). These may be reads of any run: a viewer of a log that ended
competes with viewers of runs that are silent. A push is `EnqueueRunRequest` of `RunSubmission`,
"failed" any error of it.

### PoolInit

`PoolConn`, call by call and access by access: `Check` loads `dbpool`, `New` makes a pool,
`Store` assigns the result to `dbpool`, nil in the case of an error, and tests the error,
`Return` loads `dbpool` again or returns the value at hand, for a compiler may do either. The
accesses are not synchronised, which is a data race in Go; the model takes word-sized
accesses in any interleaving. Whether the URL parses is fixed for the process (`configOk`).

### Lifecycle

The process from `InitLogger` to the end of `main`, one action per call, with the goroutine that
listens, signals, connections whose handlers may be inside a Redis call, and the 15
seconds of `Shutdown`. `redisClient` is main's client (`GetRedisClient`), `globalClient` is
`util.RedisClient`. `broken` is a history variable: the handlers that met a client that is nil
or closed.

### PythonProgram, EAProgram, GPProgram, MLProgram, PSOProgram, CodeGen

A generated program is a sequence of statements; a statement needs names and binds
names. `PythonProgram` has statements and what the generators share, with what they expect of
DEAP; the four modules have one operator per method of a generator, and `...Code` puts the
sections together in the order of `Code`. `...Accepts` is `validate`, `...Works` says from the
outside which requests get a program that comes to its end. `CodeGen` takes a request through
its generator and executes the program: `Execute` binds names, `Raise` is the traceback.
A registration that lacks a parameter its operator needs binds a name of no use, which fails where the
operator is called. A fitness gives its values back by a division by the weights (`Create`): a
weight of zero is an error for numbers of Python, and nan, with a warning, for those of numpy. The
evaluations of `ea.go` and `gp.go` return numbers of Python, most benchmarks of a particle,
which is a numpy array, those of numpy (`PSONumbers`; "ackley" stands for the benchmarks that
return what a function of `math` or `random` does), and free code either (`customEval` of EA,
`evaluation` of ML, where "none" says that the code defines no function). Left out: the numbers
themselves (sizes, probabilities, `mu` and `lambda_`), what a benchmark demands of its
dimensions, the wording, and everything else about free code. "unknown" stands for every text DEAP does not know, and an operator of
`GP` that is named twice counts once.

### Proofs and instances

`RunSubmission_proofs`, `RunPublication_proofs` (on top of the former), `LogStream_proofs`,
`SharedRedis_proofs` (on top of that), `RunAccess_proofs`, `PoolInit_proofs`,
`Lifecycle_proofs` and `CodeGen_proofs` hold the theorems and their proofs. The `MC...` modules instantiate the
constants for TLC. Operators whose comment starts with "Mutation" are wrong variants of the
definition below them, the bugs that the properties would catch; no specification uses them.

## Runs

| run | instance | shows |
|---|---|---|
| `submission_two` | 2 requests, 2 users, 2 identifiers, 2 attempts, all kinds, accepted and rejected bodies | all safety properties, the refinement, every request settles, accepted runs are taken |
| `log_two` | 2 viewers, batches of 2, 3 entries, at most 1 malformed in a row | order, no gaps, no repetitions, streams end, the live loop notices a cancelled context, the refinement |
| `shared_two` | 2 viewers of 2 runs, one of them silent, 1 push, 1 connection | pushes are answered, logs end beside viewers of silent runs unless the pool refuses a turn again and again, a stopping server gets its connections back |
| `log_history_blocks` | finding | the history read waits for ever |
| `log_malformed` | finding | malformed entries as many as a batch hide the end |
| `access_three` | 3 requests of any kind, 2 users, 2 runs, lists empty, right and wrong | rows are warranted, creators write, answers show what may be seen, a confirmed share reached everybody |
| `access_repeated_email` | finding, a database that never fails | a repeated address counts as unknown |
| `pool_four` | 4 calls, a URL that parses or not | returned pools exist, pools are made only at first, the variable settles |
| `lifecycle_three` | 3 connections, every environment, failing pings | handlers have Redis until the 15 seconds are over and are awaited, clients get closed, the process ends |
| `lifecycle_nil_client` | finding | a process that announced its Redis client panics when it stops |
| `codegen_all` | about 18300 requests of the four kinds | which programs come to their end; trees stay within their heights |
| `codegen_algorithms` | finding | an algorithm that is accepted, and whose program fails |

Bounds. Two submissions are enough for every conflict of a pair over a name, the
bucket or the queue; the proofs cover any number. One LPUSH with two attempts
already queues a run twice, and leaves one command in flight beside an applied one; four is the
default of the client, and the proofs cover any number. `inflight` is bounded by the attempts.
The constraint `Arrivals` keeps one request to EA and GP and the other to ML and PSO, so that every
endpoint is reached without all combinations of handlers that differ in their generator only.
Batches of 2 in a log of 3 give full and partial batches, an exact multiple, an overlap after
malformed entries and entries behind an EOF; `streamReadCount` is 100 and enters only through
"full". `shared_two` has a log of 2 and one of 1, which never ends, without malformed entries, and one
connection: contention is what it is about. A repeated address in a list is left to
`access_repeated_email`, and to the proofs, which take any list. `MaxFaults = 1` lets one call fail at any point (0 in the finding runs, whose
counterexamples need no fault). Three requests are a creation, a
share and a list, or two shares of one run; two runs let a list hold more than one. `FewCancelled`
leaves one context to be cancelled, for where every statement may fail a second one adds nothing new. Four calls
of `PoolConn` are two that initialise, one that overlaps with both and one that comes later. Three
connections are a handler in a Redis call, one that returns and one that arrives during the
shutdown. In `codegen_all` options that code treats alike are represented by one or two, each set with one
that is unknown or missing; operators are combined in full, the data of a request apart from
them. Symmetry is used in runs that check safety only.
`CHECK_DEADLOCK FALSE` is set for `LogStream` and `SharedRedis` because a handler in BLOCK 0 with no
more entries to come really stops; everything else is checked for deadlock, and stops
only when all is answered. Handlers of `RunAccess` and `PoolInit` have no loop that could
go on for ever, so that this is also the liveness there is to check.

Fairness. `Step(r)` of a submission is weakly fair: each call returns. `Auth` has a
timeout of 30 s, Redis calls have the client's timeouts, files are local; pgx and
MinIO calls end with an answer or an error of the connection, which is assumed, for
the code sets no timeout on them. The runner keeps popping. In `LogStream` the steps
of a handler are weakly fair except `ReadError`: no read has to fail. In `SharedRedis`, `Acquire`
is strongly fair, because waiters get turns in the order in which they ask: a live loop, whose reads
are refused one by one, gets a connection if one is free again and again. That does not help where
none ever is: a read of the history of a silent run keeps its connection for ever, and with the only
connection, `EndedLogEndsStream` is false of the viewer of another run, whose reads the pool
refuses every five seconds (four of its timeout, one of the pause). `StreamsEndUnlessRefused` says
that this is the only way. A timer that runs
out and an answer of Redis to a command that can be answered are weakly fair, faults are not.
In `Lifecycle`, `main`, its goroutine and the 15 seconds go on; handlers need never
return, and clients, crashes, signals and the runner's writes are never obliged to happen.

## Findings

- `log_history_blocks`: the comment in `modules/sse/server.go:177` says "We don't block
  here, just read what's available." The read has no `Block`, which go-redis sends as
  BLOCK 0. With nothing behind the cursor the handler waits for the runner, holding a
  Redis connection, and neither the client's departure nor a shutdown ends it.
- `log_malformed`: entries without `log_data` do not move the cursor (`continue` in
  line 212 and 287). As soon as a batch consists of them, every read returns the same
  batch, without a pause, and the EOF marker is never reached.
- `access_repeated_email`: a list with a repeated address is answered "please check the
  emails again. some of them do not exist" (`modules/run.go:150`) although all of them exist.
- `lifecycle_nil_client`: `main.go:47` logs "Redis client initialized successfully.", but looks
  only at the second of two errors assigned to one variable (lines 39-41). When the first
  ping failed, `redisClient` is nil, and `redisClient.Close()` in line 118 ends the shutdown with
  a panic; the other client is not closed.
- `codegen_algorithms`: `util/validate.go:9` accepts `eaGenerateUpdate`; the program of
  `modules/ea.go:163` uses `cma`, which its imports lack (`modules/gp.go:75` has it).

Not a run of their own, but visible in the models: every error of the INSERT of a grant is
answered "make sure the run is not already shared with the user" (`modules/run.go:158`); of the
strategies of differential evolution only DE/rand/1 is ever registered; the algorithm of a PSO
request is validated and then ignored; weights are written with blanks for commas; one
dimension is accepted for a plot of two.

## Proofs

The theorems hold for all constants that satisfy the named assumptions: any number of
requests, users, viewers, calls and connections, batches of any size, logs and lists of any
length, any number of attempts and faults. Each proof is built alike: an inductive
invariant, one lemma per action (or per group of actions that touch the same part of
it), and the property from the invariant.

### RunSubmission_proofs

`Invariance` (`IInv`), `TypeCorrectness`, `QueuedRunsAreComplete`, `ObjectsAreOwn`,
`AccessIsTheCreators`, `AcceptedRunsAreDispatched`, `QueuedRunsAreFrozen`.

The completeness of a queued run is not inductive: a push makes a run
visible, and that it is complete then depends on everything the handler did before.
`IInv` says what each point of a handler may rely on: past `InsertRun` the row of its
identifier is its own (`RowsInv`), which makes identifiers of different handlers
different and thereby files, objects and access rows its own; the row's request
compiles and has a user (`RequestInv`); the access row is there (`AccessInv`); the file
under upload holds its content (`FilesInv`), the input is uploaded only after the code
(`StageInv`, `ObjectsInv`), into a public bucket (`BucketInv`); only a handler at its last
call, or an ended one, has its run in the queue (`QueueInv`), so that nobody can change
a visible run. `TriesInv` bounds the attempts and is needed for `TypeOK`. A command in flight may
outlive its handler and must find its run as the handler left it (`InflightInv`). This part
is proved apart from the others (`HInv`): the run of a handler at its last call, or beyond, stays
complete under every step (`KeptStep`, `FinalStays`, `CompleteStays`), and only handlers there
send commands (`InflightGrows`).

### RunPublication_proofs

- `PublicationRefinement`: `RunSubmission` implements `RunPublication`. Every action but
  those of `EnqueueRunRequest`, `ApplyLate`, the answers and `RunnerTake` leaves `Shelf`, `Answer`
  and `taken` alone, which is the frozenness of visible runs. A push that Redis applies lets a whole
  run appear (`RunAppears`), by `IInv`; that this happens once for each request needs one more fact,
  `OneRow`: a request has at most one row. `ApplyLate` maps to `Publish` when the handler is still at
  work, to `PublishLate` when it refused or died, and to nothing when the run is already there,
  as it is after a 200.
- `CopiesAreBounded`. `Sent(id)` counts the positions of `id` in the queue, what runners took and
  what is in flight. It is zero before the handler is at its last call (`QueueInv`, `InflightInv`), grows
  by one with an LPUSH, which also costs an attempt (`AttemptsInv`), or with the crash that ends
  the handler, and stays the same when Redis applies a late command or a runner takes a run. LPUSH moves every position by one: the counting uses the bijection
  `i |-> i + 1`, for an induction over the length of the queue is not at hand. No handler
  adds to the copies of another's run, by `RowsInv`.

### LogStream_proofs and SharedRedis_proofs

- `LogStreamInvariance` (`SInv`), `LogStreamTypes`, `LogIsShownInOrder`, `DeliveryRefinement`. `SInv` adds two
  things to the types: what was shown is what lies before the next entry (`Delivered`),
  and a handler that sends a batch is at one of its entries, with malformed ones only between
  its cursor and that entry (`BatchInv`). The cursor alone does not say how far a handler is:
  it stays behind malformed entries, which are then read again, and are skipped again.
  In the refinement, `ReadReply` and `EndBatch` are stuttering steps, `SendEntry` is the delivery of
  the entry that `BatchInv` names.
- `PoolKeepsItsBound`, `SharedLogIsShownInOrder`, `SharedDeliveryRefinement`: the same for handlers that share
  connections, and the bound of the pool. Waiting for a turn, losing it and giving up
  leave the parts of `SInv` alone, so that the lemmas about `LogStream` serve again. `SharedInv`
  adds who may hold a connection, and that the holders are finitely many, without
  which their cardinality means nothing.

### RunAccess_proofs

`RunAccessInvariance` (`AInv`), `RunAccessTypes`, `CreatorsWrite`, `SharesAreWarranted`, `SharedMeansShared`,
`RefusalsLeaveNothing`, `AnswersAreAccessible`, `ListsAreComplete`.

`AInv` relates the tables to each other (`TablesInv`) and, for each request, what the handler
found between two statements to what the tables hold now (`RequestInv`). It has to say
which checks a handler past a certain point has passed: the tables only grow, so that a row seen
is a row still there. The count check of `ShareRun` is the part that needs an argument:
it compares the number of accounts found with the length of the list. As many accounts as
addresses means that the addresses are all different and all have an account, by the
pigeonhole principle (`OnePlaceLess`, `AllDistinct`), for a list of any length.

### PoolInit_proofs

`PoolInvariance` (`PInv`), `PoolInitTypes`, `ReturnedPoolsExist`, `LaterCallersShare`, `InitialisedOnce`, `CreationEnds`,
for any number of calls. `PInv` adds to the types
that a value in a caller's hands or in `dbpool` is a pool somebody created (`PoolsInv`), that
`dbpool` is set once any call has a result, and that nothing changes for the calls that came
when it was settled (`CalmInv`). That `dbpool` is never set back to nil by a failing
`Store` rests on `configOk` being the same for all calls: either all fail or none does.

### Lifecycle_proofs

`LifecycleInvariance` (`LInv`), `LifecycleTypes`, `RedisOutlivesHandlers`, `HandlersGetTheirTime`, `NothingStaysOpen`,
for any number of connections. `LInv` says, for each point of `main`, which clients exist and
are open (`ClientsInv`), that there is no server during startup and no connection to one that
never listened (`StartInv`), that `Shutdown` precedes everything `main` does at its end and a server
that refuses does not listen any more (`RefusingInv`), and that past `Shutdown` no handler is at work unless
the 15 seconds are over (`AwaitedInv`). With these `HandlersHaveRedis` is inductive.

### CodeGen_proofs

`CodeGenInvariance` (`CInv`), `CodeGenTypes`, `ExactlyTheseWork`, `TreesAlwaysLimited`, for every record of
options, of which the run of TLC takes about 18300.

Each section of a generator has a lemma that says which names it gives and from which environments
it runs (`Names`, `Runs`); `Concat` and `Follow` join two sections, and the four lemmas `...ProgramIs`
follow the order of `Code` from section to section. Their content is an equivalence: the
program runs if and only if the options are those of `...Works` and no number of Python is
divided by a weight of zero (`Weighted`); `CodeIs` puts them together. The harder direction is that a program that runs has no
option outside `...Works`: some name that its last statements need is given by one
section only, and there only for the right option.

`CInv` relates the execution to this: the statements before the next one needed only names given
before them, and what they gave is bound (`Executed`), except that a height limit may have
been undone by a later statement (`Kept`). An execution that raises has therefore met a statement
whose name no earlier one gives, and one that ends has met none. For `TreesAlwaysLimited`, the two
decorations of `bloatControl` come after the last registration of an operator and before the
statement that makes the population (`LimitedFirst`), whatever the options are.

### Assumptions

The assumptions on constants are stated where these are declared. Besides the types and
signs of numbers (a batch, a pool and an attempt are at least one), they say that every viewer
watches a run (`WatchesAssumption`), that viewers and pushes are different callers (`CallersAssumption`), that requests are records of the fields the generators read, with names from
the lists in the program modules or "unknown" (`OptionsAssumption`), and that values which mean "nothing" are
not among the things themselves (`None` and the shelves, rows and users). TLC evaluates all of them.

### Model-checked only

All liveness properties: liveness under fairness is beyond the prover. Every invariant and every
action property that a passing run checks is proved, as are the refinements. What DEAP and Python
do with a program is taken from the way the generators use them, in the proofs as in the model.

## Not modelled

- `util/enqueue.go` 22-55: what is left of another queue, which cannot be compiled.
- `util/request.go`, `util/response.go`, `controller/test.go`: parse and format; an unreadable body is
  an outcome of `Validate` and `Auth`.
- `util/logger.go` beyond `InitLogger`: log lines.
- `proto/`: generated; `tools/`, container files: no code of the server.

## Plan

Components, runs and proofs of the plan are in place. What could still be added:

1. The two clients of `main.go` with the pools of both, should the handlers ever be given the
   client that `main` passes to nobody now.
2. The schema of the database, should it become part of the repository: the key of `access` could
   then be taken from it and would no longer be assumed.
