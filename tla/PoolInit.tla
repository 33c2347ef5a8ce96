------------------------------- MODULE PoolInit -------------------------------
(***************************************************************************)
(* The database pool: PoolConn of db/connection/pool.go.  The global dbpool *)
(* is read, tested, assigned and read again without a lock by every request *)
(* that needs the database, so that each access is a step of its own.      *)
(*                                                                         *)
(* Callers are calls of PoolConn, not requests: a call is made once.  A    *)
(* pool carries the name of the call that created it.  The loads and the   *)
(* store of a pointer are not torn; where the compiler may use a register  *)
(* or load again, the model does either.                                   *)
(***************************************************************************)
CONSTANTS
  Callers,  \* the calls of PoolConn
  NoPool    \* the nil pointer

ASSUME NoPoolAssumption == NoPool \notin Callers

VARIABLES
  configOk,  \* does DATABASE_URL parse?  The only way for pgxpool.New to fail
  dbpool,    \* the global
  pc,        \* caller -> the next access
  local,     \* caller -> the value in its hands: loaded, or created
  result,    \* caller -> the pool it returned
  created,   \* the callers that created a pool
  calm       \* history: the callers that arrived when no call was in the
             \* middle of an initialisation and dbpool was set

callVars == <<pc, local, result>>
vars == <<configOk, dbpool, callVars, created, calm>>

Points == {"out", "check", "new", "store", "return", "ok", "error"}

Pools == Callers \cup {NoPool}

\* The callers that found dbpool nil and have not assigned it yet.
Initialising == {c \in Callers : pc[c] \in {"new", "store"}}

\* The pool is there, and nobody is about to replace it.
Settled == dbpool # NoPool /\ Initialising = {}

Goto(c, point) == pc' = [pc EXCEPT ![c] = point]

Init ==
  /\ configOk \in BOOLEAN
  /\ dbpool = NoPool
  /\ pc = [c \in Callers |-> "out"]
  /\ local = [c \in Callers |-> NoPool]
  /\ result = [c \in Callers |-> NoPool]
  /\ created = {}
  /\ calm = {}

\* A request gets to its call of PoolConn.
Call(c) ==
  /\ pc[c] = "out"
  /\ Goto(c, "check")
  /\ calm' = IF Settled THEN calm \cup {c} ELSE calm
  /\ UNCHANGED <<configOk, dbpool, local, result, created>>

\* Mutation: the pool is created whatever dbpool is.
CheckNothing(c) ==
  /\ pc[c] = "check"
  /\ Goto(c, "new")
  /\ UNCHANGED <<configOk, dbpool, local, result, created, calm>>

\* if dbpool != nil
Check(c) ==
  /\ pc[c] = "check"
  /\ IF dbpool = NoPool
     THEN Goto(c, "new") /\ UNCHANGED local
     ELSE Goto(c, "return") /\ local' = [local EXCEPT ![c] = dbpool]
  /\ UNCHANGED <<configOk, dbpool, result, created, calm>>

\* pgxpool.New: parses the URL and sets up the pool; connections are opened when
\* they are needed, whatever happens to the context.
New(c) ==
  /\ pc[c] = "new"
  /\ Goto(c, "store")
  /\ IF configOk
     THEN created' = created \cup {c} /\ local' = [local EXCEPT ![c] = c]
     ELSE UNCHANGED <<created, local>>
  /\ UNCHANGED <<configOk, dbpool, result, calm>>

\* Mutation: `dbpool, err :=' declares a local variable that hides the global.
StoreShadowed(c) ==
  /\ pc[c] = "store"
  /\ IF configOk THEN Goto(c, "return") ELSE Goto(c, "error")
  /\ UNCHANGED <<configOk, dbpool, local, result, created, calm>>

\* Mutation: the error is reported on stderr, but not returned.
StoreAnyway(c) ==
  /\ pc[c] = "store"
  /\ dbpool' = local[c]
  /\ Goto(c, "return")
  /\ UNCHANGED <<configOk, local, result, created, calm>>

\* Assigns what New returned to the global, the nil of an error included, and looks
\* at the error.
Store(c) ==
  /\ pc[c] = "store"
  /\ dbpool' = local[c]
  /\ IF configOk THEN Goto(c, "return") ELSE Goto(c, "error")
  /\ UNCHANGED <<configOk, local, result, created, calm>>

\* Mutation: the named result is never assigned, the error is nil.
ReturnUnset(c) ==
  /\ pc[c] = "return"
  /\ Goto(c, "ok")
  /\ UNCHANGED <<configOk, dbpool, local, result, created, calm>>

\* return dbpool, nil: the value at hand, or the global loaded again.
Return(c) ==
  /\ pc[c] = "return"
  /\ \E p \in {local[c], dbpool} : result' = [result EXCEPT ![c] = p]
  /\ Goto(c, "ok")
  /\ UNCHANGED <<configOk, dbpool, local, created, calm>>

\* All calls have returned.
Finished ==
  /\ \A c \in Callers : pc[c] \in {"ok", "error"}
  /\ UNCHANGED vars

Next ==
  \/ \E c \in Callers : Call(c) \/ Check(c) \/ New(c) \/ Store(c) \/ Return(c)
  \/ Finished

Spec == Init /\ [][Next]_vars

-----------------------------------------------------------------------------
(* Properties.                                                             *)

\* The types of the variables; a call about to return has a pool in its hands.
TypeOK ==
  /\ configOk \in BOOLEAN
  /\ dbpool \in Pools
  /\ pc \in [Callers -> Points]
  /\ local \in [Callers -> Pools]
  /\ result \in [Callers -> Pools]
  /\ created \subseteq Callers
  /\ calm \subseteq Callers
  /\ \A c \in Callers : pc[c] = "return" => local[c] # NoPool

\* A call that returns without an error returns a pool that was created, although
\* calls assign the global at any time and one of them may assign nil: the handlers
\* use the pool without another test (controller/ea.go:66).
ReturnedPoolExists ==
  \A c \in Callers : pc[c] = "ok" => result[c] \in created

\* A call that is made after another has returned a pool creates none: the pools
\* that are never used again nor closed are at most as many as the calls that
\* overlapped with the very first one.
CreatedOnlyAtFirst ==
  [][\A c \in Callers :
       (\E d \in Callers : pc[d] = "ok") /\ pc[c] \in {"out", "check"} => pc'[c] # "new"]_vars

\* Once the pool is there and no initialisation is under way, it stays as it is.
SettledForGood ==
  [][Settled => Settled' /\ UNCHANGED <<dbpool, created>>]_vars

\* The calls made since then share one pool, so that one limit on connections
\* holds for all later requests.
CalmCallersShare ==
  \A c, d \in calm : pc[c] = "ok" /\ pc[d] = "ok" => result[c] = result[d]
=============================================================================
