------------------------------ MODULE Lifecycle ------------------------------
(***************************************************************************)
(* The process from its start to its end: main.go, with InitLogger,        *)
(* GetRedisClient, InitRedisClient, GetSSEHandler and ShutDownRedisClient. *)
(*                                                                         *)
(* There are two Redis clients.  The one of sse.GetRedisClient is held by  *)
(* main and closed by it, the one of util.InitRedisClient is the global    *)
(* util.RedisClient that all handlers use.  Both are created at startup by *)
(* a ping that must succeed within five seconds; the error of the first is *)
(* overwritten by the error of the second before anybody looks at it.      *)
(*                                                                         *)
(* A connection is new while no request is under way; a handler then runs,  *)
(* and may be inside a Redis call, which in the case of an XREAD without   *)
(* Block lasts until somebody writes.                                      *)
(***************************************************************************)
CONSTANT Conns  \* the connections that clients may open

VARIABLES
  env,         \* do ENV and REDIS_URL have values the program can use?
  pc,          \* what main does next
  redisClient, \* main's client
  globalClient,\* util.RedisClient
  announced,   \* has main logged that Redis is initialised?
  notifying,   \* are SIGINT and SIGTERM turned into the end of ctx?
  cancelled,   \* is ctx done?
  server,      \* the http.Server
  refusing,    \* has Shutdown been called on it?
  overdue,     \* are the 15 seconds of shutdownCtx over?
  conn,        \* connection -> where it is
  broken       \* history: the connections whose handler met a client that is
               \* nil or closed

clients == <<redisClient, globalClient>>
signals == <<notifying, cancelled>>
httpVars == <<server, refusing, conn>>
vars == <<env, pc, clients, announced, signals, httpVars, overdue, broken>>

Starting == {"initLogger", "getRedisClient", "initRedisClient", "setup"}
Stopping == {"shutdown", "closeOwn", "closeGlobal", "exit"}
\* exited: return of main; failed: os.Exit(1); panicked; killed: by a signal.
Ended == {"exited", "failed", "panicked", "killed"}

Alive == pc \notin Ended

Open(h) == conn[h] \in {"new", "running", "redis"}
InHandler(h) == conn[h] \in {"running", "redis"}

Goto(point) == pc' = point

Init ==
  /\ env \in [logger : BOOLEAN, redisURL : BOOLEAN]
  /\ pc = "initLogger"
  /\ redisClient = "nil"
  /\ globalClient = "nil"
  /\ announced = FALSE
  /\ notifying = FALSE
  /\ cancelled = FALSE
  /\ server = "none"
  /\ refusing = FALSE
  /\ overdue = FALSE
  /\ conn = [h \in Conns |-> "off"]
  /\ broken = {}

-----------------------------------------------------------------------------
(* Startup.                                                                *)

\* An unknown ENV makes InitLogger return nil and an error.  main ignores the error
\* and dereferences the pointer.
InitLogger ==
  /\ pc = "initLogger"
  /\ IF env.logger THEN Goto("getRedisClient") ELSE Goto("panicked")
  /\ UNCHANGED <<env, clients, announced, signals, httpVars, overdue, broken>>

\* The URL is wrong, or the ping fails: nil and an error, which nobody looks at.
GetRedisClient ==
  /\ pc = "getRedisClient"
  /\ \/ redisClient' = "nil"
     \/ env.redisURL /\ redisClient' = "open"
  /\ Goto("initRedisClient")
  /\ UNCHANGED <<env, globalClient, announced, signals, httpVars, overdue, broken>>

\* Mutation: the error is not returned, like that of the other client.
InitRedisClientIgnored ==
  /\ pc = "initRedisClient"
  /\ \/ UNCHANGED globalClient
     \/ env.redisURL /\ globalClient' = "open"
  /\ announced' = TRUE
  /\ Goto("setup")
  /\ UNCHANGED <<env, redisClient, signals, httpVars, overdue, broken>>

\* The same for the client of the handlers, whose error ends the process.
InitRedisClient ==
  /\ pc = "initRedisClient"
  /\ \/ /\ env.redisURL
        /\ globalClient' = "open"
        /\ announced' = TRUE
        /\ Goto("setup")
     \/ /\ Goto("failed")
        /\ UNCHANGED <<globalClient, announced>>
  /\ UNCHANGED <<env, redisClient, signals, httpVars, overdue, broken>>

\* NotifyContext, the routes, and the goroutine that will listen.  GetSSEHandler
\* tests the global client, not main's.
Setup ==
  /\ pc = "setup"
  /\ notifying' = TRUE
  /\ server' = "starting"
  /\ Goto("waiting")
  /\ UNCHANGED <<env, clients, announced, cancelled, refusing, conn, overdue, broken>>

\* The goroutine listens, unless Shutdown came first.
ListenAndServe ==
  /\ Alive /\ server = "starting"
  /\ server' = IF refusing THEN "down" ELSE "listening"
  /\ UNCHANGED <<env, pc, clients, announced, signals, refusing, conn, overdue, broken>>

\* Mutation: signals are given back to the system, but ctx goes on.
ListenFailsUnregisters ==
  /\ Alive /\ server \in {"starting", "listening"}
  /\ server' = "down"
  /\ notifying' = FALSE
  /\ UNCHANGED <<env, pc, clients, announced, cancelled, refusing, conn, overdue, broken>>

\* The address cannot be had, or the listener breaks.  stop() ends ctx, and signals
\* are no longer caught.
ListenFails ==
  /\ Alive /\ server \in {"starting", "listening"}
  /\ server' = "down"
  /\ IF refusing
     THEN UNCHANGED signals
     ELSE notifying' = FALSE /\ cancelled' = TRUE
  /\ UNCHANGED <<env, pc, clients, announced, refusing, conn, overdue, broken>>

-----------------------------------------------------------------------------
(* Connections and their handlers.                                         *)

\* A client connects.
Accept(h) ==
  /\ Alive /\ server = "listening"
  /\ conn[h] = "off"
  /\ conn' = [conn EXCEPT ![h] = "new"]
  /\ UNCHANGED <<env, pc, clients, announced, signals, server, refusing, overdue, broken>>

\* Its request arrives, also while the server shuts down.
Request(h) ==
  /\ Alive /\ conn[h] = "new"
  /\ conn' = [conn EXCEPT ![h] = "running"]
  /\ UNCHANGED <<env, pc, clients, announced, signals, server, refusing, overdue, broken>>

\* LPush or XRead on util.RedisClient.  A nil or closed client fails at once.
CallRedis(h) ==
  /\ Alive /\ conn[h] = "running"
  /\ IF globalClient = "open"
     THEN conn' = [conn EXCEPT ![h] = "redis"] /\ UNCHANGED broken
     ELSE broken' = broken \cup {h} /\ UNCHANGED conn
  /\ UNCHANGED <<env, pc, clients, announced, signals, server, refusing, overdue>>

\* The call returns; if the client was closed meanwhile, with an error.
RedisReturns(h) ==
  /\ Alive /\ conn[h] = "redis"
  /\ conn' = [conn EXCEPT ![h] = "running"]
  /\ broken' = IF globalClient = "open" THEN broken ELSE broken \cup {h}
  /\ UNCHANGED <<env, pc, clients, announced, signals, server, refusing, overdue>>

\* The handler returns; the connection may wait for another request, but not while
\* the server shuts down.
Return(h) ==
  /\ Alive /\ conn[h] = "running"
  /\ \/ conn' = [conn EXCEPT ![h] = "off"]
     \/ ~refusing /\ conn' = [conn EXCEPT ![h] = "new"]
  /\ UNCHANGED <<env, pc, clients, announced, signals, server, refusing, overdue, broken>>

\* The client or the server closes a connection without a request.
Close(h) ==
  /\ Alive /\ conn[h] = "new"
  /\ conn' = [conn EXCEPT ![h] = "off"]
  /\ UNCHANGED <<env, pc, clients, announced, signals, server, refusing, overdue, broken>>

-----------------------------------------------------------------------------
(* The end.                                                                *)

\* SIGINT or SIGTERM.  While they are caught, the first one ends ctx and the others
\* have no effect, not even during the 15 seconds; otherwise they kill the process.
Signal ==
  /\ Alive
  /\ IF notifying
     THEN ~cancelled /\ cancelled' = TRUE /\ UNCHANGED pc
     ELSE Goto("killed") /\ UNCHANGED cancelled
  /\ UNCHANGED <<env, clients, announced, notifying, httpVars, overdue, broken>>

\* <-ctx.Done() returns and Shutdown closes the listener.
BeginShutdown ==
  /\ pc = "waiting" /\ cancelled
  /\ refusing' = TRUE
  /\ server' = IF server = "listening" THEN "down" ELSE server
  /\ Goto("shutdown")
  /\ UNCHANGED <<env, clients, announced, signals, conn, overdue, broken>>

\* The 15 seconds are over.
Timeout ==
  /\ pc = "shutdown" /\ ~overdue
  /\ overdue' = TRUE
  /\ UNCHANGED <<env, pc, clients, announced, signals, httpVars, broken>>

\* Mutation: Shutdown gets a context without a deadline.
EndShutdownWithoutDeadline ==
  /\ pc = "shutdown"
  /\ \A h \in Conns : ~Open(h)
  /\ Goto("closeOwn")
  /\ UNCHANGED <<env, clients, announced, signals, httpVars, overdue, broken>>

\* Mutation: server.Close instead of Shutdown, which does not wait.
EndShutdownAtOnce ==
  /\ pc = "shutdown"
  /\ Goto("closeOwn")
  /\ UNCHANGED <<env, clients, announced, signals, httpVars, overdue, broken>>

\* Shutdown returns when all connections are closed, or with an error after 15
\* seconds.  main goes on in either case.
EndShutdown ==
  /\ pc = "shutdown"
  /\ overdue \/ \A h \in Conns : ~Open(h)
  /\ Goto("closeOwn")
  /\ UNCHANGED <<env, clients, announced, signals, httpVars, overdue, broken>>

\* redisClient.Close(), on a nil pointer too.
CloseOwnClient ==
  /\ pc = "closeOwn"
  /\ IF redisClient = "nil"
     THEN Goto("panicked") /\ UNCHANGED redisClient
     ELSE Goto("closeGlobal") /\ redisClient' = "closed"
  /\ UNCHANGED <<env, globalClient, announced, signals, httpVars, overdue, broken>>

\* Mutation: main closes its own client once more.
ShutDownOwnRedisClient ==
  /\ pc = "closeGlobal"
  /\ Goto("exit")
  /\ UNCHANGED <<env, clients, announced, signals, httpVars, overdue, broken>>

\* util.ShutDownRedisClient
ShutDownRedisClient ==
  /\ pc = "closeGlobal"
  /\ globalClient' = "closed"
  /\ Goto("exit")
  /\ UNCHANGED <<env, redisClient, announced, signals, httpVars, overdue, broken>>

\* main returns, and all goroutines end with it.
Exit ==
  /\ pc = "exit"
  /\ Goto("exited")
  /\ UNCHANGED <<env, clients, announced, signals, httpVars, overdue, broken>>

\* Nothing happens in a process that ended.
Over == ~Alive /\ UNCHANGED vars

Main ==
  \/ InitLogger
  \/ GetRedisClient
  \/ InitRedisClient
  \/ Setup
  \/ BeginShutdown
  \/ EndShutdown
  \/ CloseOwnClient
  \/ ShutDownRedisClient
  \/ Exit

Handler(h) ==
  \/ Accept(h)
  \/ Request(h)
  \/ CallRedis(h)
  \/ RedisReturns(h)
  \/ Return(h)
  \/ Close(h)

Next ==
  \/ Main
  \/ ListenAndServe
  \/ ListenFails
  \/ Timeout
  \/ Signal
  \/ \E h \in Conns : Handler(h)
  \/ Over

Spec == Init /\ [][Next]_vars

\* main and its goroutine go on when they can, pings answer or fail within their
\* five seconds, and 15 seconds pass.  No client and no handler has to do anything.
FairSpec == Spec /\ WF_vars(Main) /\ WF_vars(ListenAndServe) /\ WF_vars(Timeout)

-----------------------------------------------------------------------------
(* Properties.                                                             *)

\* The types of the variables; main only waits for the end of ctx with signals
\* caught, or with a context that has ended.
TypeOK ==
  /\ env \in [logger : BOOLEAN, redisURL : BOOLEAN]
  /\ pc \in Starting \cup {"waiting"} \cup Stopping \cup Ended
  /\ redisClient \in {"nil", "open", "closed"}
  /\ globalClient \in {"nil", "open", "closed"}
  /\ announced \in BOOLEAN
  /\ notifying \in BOOLEAN
  /\ cancelled \in BOOLEAN
  /\ server \in {"none", "starting", "listening", "down"}
  /\ refusing \in BOOLEAN
  /\ overdue \in BOOLEAN
  /\ conn \in [Conns -> {"off", "new", "running", "redis"}]
  /\ broken \subseteq Conns
  /\ pc = "waiting" => notifying \/ cancelled

\* A handler meets a Redis client that is nil or closed only after the 15 seconds
\* given to it, so that a submission in its last step or a log stream is not cut off
\* by an orderly shutdown (main.go:111-123, sse/server.go:64).
HandlersHaveRedis == broken # {} => overdue

\* The process does not end on its own with a handler at work before the time is
\* over; a signal that is not caught, after ListenAndServe failed, may end it.
HandlersAreAwaited ==
  pc \in {"exited", "panicked", "failed"} /\ (\E h \in Conns : InHandler(h)) => overdue

\* Everything that was opened is closed by the end of main (main.go:116-123).
ClientsAreClosed == pc = "exited" => redisClient = "closed" /\ globalClient = "closed"

\* A signal, or a server that cannot listen, ends the process, whatever its handlers
\* do: one that hangs in an XREAD is left behind (main.go:96-111).
StoppedProcessEnds == cancelled \/ server = "down" ~> ~Alive

\* main.go:47 logs "Redis client initialized successfully.": a process that said so
\* gets through its shutdown.
AnnouncedClientsClose == announced => pc # "panicked"
=============================================================================
