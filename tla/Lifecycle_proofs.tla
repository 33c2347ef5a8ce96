--------------------------- MODULE Lifecycle_proofs ---------------------------
(***************************************************************************)
(* The safety properties of Lifecycle for any number of connections, every *)
(* environment, and failures and signals at any moment.                    *)
(***************************************************************************)
EXTENDS Lifecycle, TLAPS

\* There is no server during startup, and nobody is connected to one that never
\* listened.
StartInv ==
  /\ pc \in Starting \cup {"failed"} => server = "none"
  /\ pc = "waiting" => server # "none"
  /\ server = "none" => \A h \in Conns : conn[h] = "off"

\* Shutdown precedes everything main does at its end, and a server that refuses
\* connections does not listen any more.
RefusingInv ==
  /\ pc \in Stopping \cup {"exited"} => refusing
  /\ pc = "panicked" => refusing \/ server = "none"
  /\ refusing => server \in {"starting", "down"}

\* From the end of startup to main's last call the client of the handlers is open.
ClientsInv ==
  /\ pc \in {"setup", "waiting", "shutdown", "closeOwn", "closeGlobal"} =>
       globalClient = "open"
  /\ pc \in {"closeGlobal", "exit", "exited"} => redisClient = "closed"
  /\ pc \in {"exit", "exited"} => globalClient = "closed"

\* Behind Shutdown the time is over or nobody is connected, and nobody comes back.
AwaitedInv ==
  pc \in {"closeOwn", "closeGlobal", "exit", "exited", "panicked"} =>
    overdue \/ \A h \in Conns : ~Open(h)

LInv ==
  TypeOK /\ StartInv /\ RefusingInv /\ ClientsInv /\ AwaitedInv /\ HandlersHaveRedis

LEMMA InitLInv == Init => LInv
  BY DEF Init, LInv, TypeOK, StartInv, RefusingInv, ClientsInv, AwaitedInv,
     HandlersHaveRedis, Starting, Stopping, Ended

LEMMA MainLInv == ASSUME LInv, Main PROVE LInv'
<1> USE DEF LInv, TypeOK, StartInv, RefusingInv, ClientsInv, AwaitedInv, HandlersHaveRedis
<1> USE DEF Starting, Stopping, Ended, Open, Goto, clients, signals, httpVars
<1>1. CASE InitLogger
  BY <1>1 DEF InitLogger
<1>2. CASE GetRedisClient
  BY <1>2 DEF GetRedisClient
<1>3. CASE InitRedisClient
  <2>1. CASE pc' = "setup"
    BY <1>3, <2>1 DEF InitRedisClient
  <2>2. CASE pc' = "failed"
    BY <1>3, <2>2 DEF InitRedisClient
  <2> QED BY <1>3, <2>1, <2>2 DEF InitRedisClient
<1>4. CASE Setup
  BY <1>4 DEF Setup
<1>5. CASE BeginShutdown
  BY <1>5 DEF BeginShutdown
<1>6. CASE EndShutdown
  BY <1>6 DEF EndShutdown
<1>7. CASE CloseOwnClient
  BY <1>7 DEF CloseOwnClient
<1>8. CASE ShutDownRedisClient
  BY <1>8 DEF ShutDownRedisClient
<1>9. CASE Exit
  BY <1>9 DEF Exit
<1> QED
  BY <1>1, <1>2, <1>3, <1>4, <1>5, <1>6, <1>7, <1>8, <1>9 DEF Main

LEMMA HandlerLInv == ASSUME LInv, NEW h \in Conns, Handler(h) PROVE LInv'
<1> USE DEF clients, signals, httpVars
<1>0. /\ Alive /\ UNCHANGED <<env, pc, clients, announced, signals, server, refusing, overdue>>
      /\ conn' \in [Conns -> {"off", "new", "running", "redis"}]
      /\ broken' \subseteq Conns
      /\ \A g \in Conns : g # h => conn'[g] = conn[g]
  BY DEF LInv, TypeOK, Handler, Accept, Request, CallRedis, RedisReturns, Return, Close
<1>1. refusing /\ ~Open(h) => conn'[h] = conn[h]
  BY DEF LInv, TypeOK, RefusingInv, Open, Handler, Accept, Request, CallRedis, RedisReturns,
         Return, Close
<1>2. server = "none" => conn'[h] = conn[h]
  BY DEF LInv, TypeOK, StartInv, Handler, Accept, Request, CallRedis, RedisReturns, Return, Close
<1>3. broken' # broken => globalClient # "open" /\ InHandler(h)
  BY DEF LInv, TypeOK, InHandler, Handler, Accept, Request, CallRedis, RedisReturns, Return, Close
<1>4. TypeOK'
  BY <1>0 DEF LInv, TypeOK
<1>5. StartInv' /\ RefusingInv' /\ ClientsInv'
  BY <1>0, <1>2 DEF LInv, StartInv, RefusingInv, ClientsInv
<1>6. AwaitedInv'
  <2>1. CASE pc \in {"closeOwn", "closeGlobal", "exit"}
    BY <1>0, <1>1, <2>1 DEF LInv, RefusingInv, AwaitedInv, Stopping, Open
  <2>2. CASE pc \notin {"closeOwn", "closeGlobal", "exit"}
    BY <1>0, <2>2 DEF AwaitedInv, Alive, Ended
  <2> QED BY <2>1, <2>2
<1>7. HandlersHaveRedis'
  <2> SUFFICES ASSUME broken' # broken PROVE overdue
    BY <1>0 DEF LInv, HandlersHaveRedis
  <2>1. pc = "exit"
    BY <1>0, <1>3
       DEF LInv, TypeOK, StartInv, ClientsInv, InHandler, Alive, Starting, Stopping, Ended
  <2> QED BY <1>3, <2>1 DEF LInv, AwaitedInv, InHandler, Open
<1> QED BY <1>4, <1>5, <1>6, <1>7 DEF LInv

LEMMA WorldLInv ==
  ASSUME LInv, ListenAndServe \/ ListenFails \/ Timeout \/ Signal \/ UNCHANGED vars
  PROVE  LInv'
<1> USE DEF Goto, clients, signals, httpVars
<1>1. CASE ListenAndServe
  BY <1>1 DEF LInv, TypeOK, StartInv, RefusingInv, ClientsInv, AwaitedInv,
     HandlersHaveRedis, Starting, Stopping, Ended, Open, ListenAndServe
<1>2. CASE ListenFails
  <2>0. /\ notifying' \in BOOLEAN /\ cancelled' \in BOOLEAN
        /\ pc = "waiting" => notifying' \/ cancelled'
    BY <1>2 DEF LInv, TypeOK, ListenFails
  <2>1. TypeOK'
    BY <1>2, <2>0 DEF LInv, TypeOK, ListenFails
  <2>2. StartInv' /\ RefusingInv' /\ ClientsInv'
    BY <1>2 DEF LInv, TypeOK, StartInv, RefusingInv, ClientsInv, Starting, Stopping, Ended,
                ListenFails
  <2>3. AwaitedInv' /\ HandlersHaveRedis'
    BY <1>2 DEF LInv, AwaitedInv, HandlersHaveRedis, Open, ListenFails
  <2> QED BY <2>1, <2>2, <2>3 DEF LInv
<1>3. CASE Timeout
  BY <1>3 DEF LInv, TypeOK, StartInv, RefusingInv, ClientsInv, AwaitedInv,
     HandlersHaveRedis, Starting, Stopping, Ended, Open, Timeout
<1>4. CASE Signal
  <2>0. /\ cancelled' \in BOOLEAN
        /\ pc' \in {pc, "killed"}
        /\ pc' = "waiting" => notifying' \/ cancelled'
    BY <1>4 DEF LInv, TypeOK, Signal
  <2>1. TypeOK'
    BY <1>4, <2>0 DEF LInv, TypeOK, Ended, Signal
  <2>2. StartInv' /\ RefusingInv' /\ ClientsInv'
    BY <1>4 DEF LInv, TypeOK, StartInv, RefusingInv, ClientsInv, Starting, Stopping, Ended, Signal
  <2>3. AwaitedInv' /\ HandlersHaveRedis'
    BY <1>4 DEF LInv, AwaitedInv, HandlersHaveRedis, Open, Signal
  <2> QED BY <2>1, <2>2, <2>3 DEF LInv
<1>5. CASE UNCHANGED vars
  BY <1>5 DEF LInv, TypeOK, StartInv, RefusingInv, ClientsInv, AwaitedInv,
     HandlersHaveRedis, Open, vars
<1> QED BY <1>1, <1>2, <1>3, <1>4, <1>5

LEMMA NextLInv == LInv /\ [Next]_vars => LInv'
  BY MainLInv, HandlerLInv, WorldLInv DEF Next, Over

\* LInv is an invariant of the process.
THEOREM LifecycleInvariance == Spec => []LInv
  BY InitLInv, NextLInv, PTL DEF Spec

\* The variables have their types, and main waits only for a context that a signal
\* can end or that has ended.
THEOREM LifecycleTypes == Spec => []TypeOK
<1>1. LInv => TypeOK
  BY DEF LInv
<1> QED BY LifecycleInvariance, <1>1, PTL

\* No handler meets a Redis client that is nil or closed before the 15 seconds given
\* to it are over, whatever happens during startup and shutdown.
THEOREM RedisOutlivesHandlers == Spec => []HandlersHaveRedis
<1>1. LInv => HandlersHaveRedis
  BY DEF LInv
<1> QED BY LifecycleInvariance, <1>1, PTL

\* main does not come to its end, nor to a panic or an os.Exit, with a handler at
\* work before the 15 seconds are over.
THEOREM HandlersGetTheirTime == Spec => []HandlersAreAwaited
<1>1. LInv => HandlersAreAwaited
  BY DEF LInv, StartInv, AwaitedInv, HandlersAreAwaited, InHandler, Open
<1> QED BY LifecycleInvariance, <1>1, PTL

\* A main that returns has closed both Redis clients.
THEOREM NothingStaysOpen == Spec => []ClientsAreClosed
<1>1. LInv => ClientsAreClosed
  BY DEF LInv, ClientsInv, ClientsAreClosed
<1> QED BY LifecycleInvariance, <1>1, PTL
=============================================================================
