---------------------------- MODULE PoolInit_proofs ----------------------------
(***************************************************************************)
(* The properties of PoolInit for any number of calls.                     *)
(***************************************************************************)
EXTENDS PoolInit, TLAPS

\* A pool that someone holds was created; the global does not go back to nil once a
\* call has assigned it.
PoolsInv ==
  /\ dbpool \in created \cup {NoPool}
  /\ \A c \in Callers : local[c] \in created \cup {NoPool}
  /\ configOk => \A c \in Callers : pc[c] = "store" => local[c] \in created
  /\ ~configOk => dbpool = NoPool /\ created = {}
  /\ \A c \in Callers : pc[c] = "return" => local[c] \in created /\ dbpool # NoPool
  /\ \A c \in Callers : pc[c] = "ok" => result[c] \in created /\ dbpool # NoPool

\* Calls made after the initialisation hold the one pool there is.
CalmInv ==
  /\ calm # {} => Settled
  /\ \A c \in calm : /\ pc[c] \in {"check", "return", "ok"}
                     /\ pc[c] = "return" => local[c] = dbpool
                     /\ pc[c] = "ok" => result[c] = dbpool

PInv == TypeOK /\ PoolsInv /\ CalmInv

LEMMA InitPInv == Init => PInv
  BY NoPoolAssumption DEF Init, PInv, TypeOK, PoolsInv, CalmInv, Pools, Points

LEMMA CallPInv == ASSUME PInv, NEW c \in Callers, Call(c) PROVE PInv'
<1>1. TypeOK'
  BY DEF PInv, TypeOK, Call, Goto, Pools, Points
<1>2. PoolsInv'
  BY DEF PInv, TypeOK, PoolsInv, Call, Goto
<1>3. CalmInv'
  BY DEF PInv, TypeOK, CalmInv, Call, Goto, Settled, Initialising
<1> QED BY <1>1, <1>2, <1>3 DEF PInv

LEMMA CheckPInv == ASSUME PInv, NEW c \in Callers, Check(c) PROVE PInv'
<1>1. TypeOK'
  BY DEF PInv, TypeOK, Check, Goto, Pools, Points
<1>2. PoolsInv'
  <2>1. CASE dbpool = NoPool
    BY <2>1 DEF PInv, TypeOK, PoolsInv, Check, Goto
  <2>2. CASE dbpool # NoPool
    BY <2>2 DEF PInv, TypeOK, PoolsInv, Check, Goto
  <2> QED BY <2>1, <2>2
<1>3. CalmInv'
  <2>1. CASE dbpool = NoPool
    BY <2>1 DEF PInv, TypeOK, CalmInv, Check, Goto, Settled, Initialising
  <2>2. CASE dbpool # NoPool
    BY <2>2 DEF PInv, TypeOK, CalmInv, Check, Goto, Settled, Initialising
  <2> QED BY <2>1, <2>2
<1> QED BY <1>1, <1>2, <1>3 DEF PInv

LEMMA NewPInv == ASSUME PInv, NEW c \in Callers, New(c) PROVE PInv'
<1>0. calm = {}
  BY DEF PInv, TypeOK, CalmInv, New, Settled, Initialising
<1>1. TypeOK'
  BY DEF PInv, TypeOK, New, Goto, Pools, Points
<1>2. PoolsInv'
  BY DEF PInv, TypeOK, PoolsInv, New, Goto
<1>3. CalmInv'
  BY <1>0 DEF CalmInv, New
<1> QED BY <1>1, <1>2, <1>3 DEF PInv

LEMMA StorePInv == ASSUME PInv, NEW c \in Callers, Store(c) PROVE PInv'
<1>0. calm = {}
  BY DEF PInv, TypeOK, CalmInv, Store, Settled, Initialising
<1>1. configOk => dbpool' \in created /\ dbpool' # NoPool
  BY NoPoolAssumption DEF PInv, TypeOK, PoolsInv, Store
<1>2. ~configOk => \A d \in Callers : pc[d] \notin {"return", "ok"}
  BY DEF PInv, PoolsInv
<1>3. TypeOK'
  BY <1>1 DEF PInv, TypeOK, Store, Goto, Pools, Points
<1>4. PoolsInv'
  <2>1. CASE configOk
    BY <1>1, <2>1 DEF PInv, TypeOK, PoolsInv, Store, Goto
  <2>2. CASE ~configOk
    <3>1. dbpool' \in {NoPool}
      BY <2>2 DEF PInv, TypeOK, PoolsInv, Store, Pools
    <3> QED BY <1>2, <2>2, <3>1 DEF PInv, TypeOK, PoolsInv, Store, Goto
  <2> QED BY <2>1, <2>2
<1>5. CalmInv'
  BY <1>0 DEF CalmInv, Store
<1> QED BY <1>3, <1>4, <1>5 DEF PInv

LEMMA ReturnPInv == ASSUME PInv, NEW c \in Callers, Return(c) PROVE PInv'
<1>1. PICK p \in {local[c], dbpool} : result' = [result EXCEPT ![c] = p]
  BY DEF Return
<1>2. /\ p \in created
      /\ p \in Pools
      /\ c \in calm => p = dbpool
  BY <1>1 DEF PInv, TypeOK, PoolsInv, CalmInv, Return
<1>3. TypeOK'
  BY <1>1, <1>2 DEF PInv, TypeOK, Return, Goto, Points
<1>4. PoolsInv'
  BY <1>1, <1>2 DEF PInv, TypeOK, PoolsInv, Return, Goto
<1>5. CalmInv'
  BY <1>1, <1>2 DEF PInv, TypeOK, CalmInv, Return, Goto, Settled, Initialising
<1> QED BY <1>3, <1>4, <1>5 DEF PInv

LEMMA StutterPInv == ASSUME PInv, UNCHANGED vars PROVE PInv'
  BY DEF vars, callVars, PInv, TypeOK, PoolsInv, CalmInv, Settled, Initialising

LEMMA NextPInv == PInv /\ [Next]_vars => PInv'
  BY CallPInv, CheckPInv, NewPInv, StorePInv, ReturnPInv, StutterPInv
  DEF Next, Finished

\* PInv is an invariant of any number of calls of PoolConn.
THEOREM PoolInvariance == Spec => []PInv
  BY InitPInv, NextPInv, PTL DEF Spec

\* The pointers are pools that calls made, or nil; a call about to return without an
\* error has a pool in its hands, whatever others store in between.
THEOREM PoolInitTypes == Spec => []TypeOK
<1>1. PInv => TypeOK
  BY DEF PInv
<1> QED BY PoolInvariance, <1>1, PTL

\* A call of PoolConn that reports no error returns a pool that was created, however
\* the unsynchronised loads and stores of dbpool interleave.
THEOREM ReturnedPoolsExist == Spec => []ReturnedPoolExists
<1>1. PInv => ReturnedPoolExists
  BY DEF PInv, PoolsInv, ReturnedPoolExists
<1> QED BY PoolInvariance, <1>1, PTL

\* All calls made after the initialisation return the same pool.
THEOREM LaterCallersShare == Spec => []CalmCallersShare
<1>1. PInv => CalmCallersShare
  BY DEF PInv, CalmInv, CalmCallersShare
<1> QED BY PoolInvariance, <1>1, PTL

\* Once it is there and nobody is in the middle of an initialisation, the pool is
\* neither replaced nor accompanied by another.
THEOREM InitialisedOnce == Spec => SettledForGood
<1>1. ASSUME PInv, Settled, [Next]_vars
      PROVE  Settled' /\ UNCHANGED <<dbpool, created>>
  <2>1. ASSUME NEW c \in Callers, New(c) \/ Store(c) PROVE FALSE
    BY <1>1, <2>1 DEF Settled, Initialising, New, Store
  <2>2. ASSUME NEW c \in Callers, Call(c) PROVE Settled' /\ UNCHANGED <<dbpool, created>>
    BY <1>1, <2>2 DEF PInv, TypeOK, Call, Goto, Settled, Initialising
  <2>3. ASSUME NEW c \in Callers, Check(c) PROVE Settled' /\ UNCHANGED <<dbpool, created>>
    BY <1>1, <2>3 DEF PInv, TypeOK, Check, Goto, Settled, Initialising
  <2>4. ASSUME NEW c \in Callers, Return(c) PROVE Settled' /\ UNCHANGED <<dbpool, created>>
    BY <1>1, <2>4 DEF PInv, TypeOK, Return, Goto, Settled, Initialising
  <2>5. CASE UNCHANGED vars
    BY <1>1, <2>5 DEF vars, callVars, Settled, Initialising
  <2> QED BY <1>1, <2>1, <2>2, <2>3, <2>4, <2>5 DEF Next, Finished
<1>2. PInv /\ [Next]_vars => [Settled => Settled' /\ UNCHANGED <<dbpool, created>>]_vars
  BY <1>1
<1> QED BY PoolInvariance, <1>2, PTL DEF Spec, SettledForGood

\* A call made after another has returned a pool creates none.
THEOREM CreationEnds == Spec => CreatedOnlyAtFirst
<1> DEFINE NoneLater == \A c \in Callers :
             (\E d \in Callers : pc[d] = "ok") /\ pc[c] \in {"out", "check"} => pc'[c] # "new"
<1>1. ASSUME PInv, [Next]_vars PROVE [NoneLater]_vars
  <2> SUFFICES ASSUME NEW c \in Callers, NEW d \in Callers, Next,
                      pc[d] = "ok", pc[c] \in {"out", "check"}
               PROVE  pc'[c] # "new"
    BY <1>1
  <2>1. dbpool # NoPool
    BY <1>1 DEF PInv, PoolsInv
  <2>2. ASSUME NEW e \in Callers, Check(e) PROVE pc'[c] # "new"
    BY <1>1, <2>1, <2>2 DEF PInv, TypeOK, Check, Goto
  <2>3. ASSUME NEW e \in Callers, Call(e) PROVE pc'[c] # "new"
    BY <1>1, <2>3 DEF PInv, TypeOK, Call, Goto
  <2>4. ASSUME NEW e \in Callers, New(e) \/ Store(e) \/ Return(e) PROVE pc'[c] # "new"
    BY <1>1, <2>4 DEF PInv, TypeOK, New, Store, Return, Goto
  <2> QED BY <2>2, <2>3, <2>4 DEF Next, Finished, vars, callVars
<1>2. PInv /\ [Next]_vars => [NoneLater]_vars
  BY <1>1
<1> QED BY PoolInvariance, <1>2, PTL DEF Spec, CreatedOnlyAtFirst
=============================================================================
