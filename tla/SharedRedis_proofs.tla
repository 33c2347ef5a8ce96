-------------------------- MODULE SharedRedis_proofs --------------------------
(***************************************************************************)
(* The safety of SharedRedis for any number of viewers and submissions and *)
(* a pool of any size: the pool keeps its bound, and sharing it changes    *)
(* nothing of what a viewer sees.  Of the handlers, the two ways in which  *)
(* a call ends without a connection are new; the lemmas about all other    *)
(* steps are those of LogStream_proofs.                                    *)
(***************************************************************************)
EXTENDS SharedRedis, LogStream_proofs, FiniteSetTheorems

\* Cardinality says something of a finite set only.
SharedInv == SInv /\ SharedTypeOK /\ IsFiniteSet(holding)

PushStates == {"idle", "calling", "done", "failed", "starved"}

-----------------------------------------------------------------------------
(* The pool.                                                               *)

\* A caller that works on and one that has just given up its connection leave all
\* others theirs.
LEMMA HoldingWaits ==
  ASSUME SharedTypeOK, NEW c, holding' = holding \ {c},
         \A v \in Viewers : v # c /\ pc[v] = "wait" => pc'[v] = "wait",
         \A p \in Pushes : p # c /\ push[p] = "calling" => push'[p] = "calling"
  PROVE  holding' \subseteq Waiting'
BY DEF SharedTypeOK, Waiting

LEMMA Released ==
  ASSUME SharedInv, NEW c, holding' = holding \ {c}
  PROVE  IsFiniteSet(holding') /\ Cardinality(holding') <= PoolSize
<1>1. IsFiniteSet(holding) /\ Cardinality(holding) <= PoolSize
  BY DEF SharedInv, SharedTypeOK
<1>2. Cardinality(holding) \in Nat
  BY <1>1, FS_CardinalityType
<1> QED BY <1>1, <1>2, FS_RemoveElement, PoolSizeAssumption

\* Steps in which connections are given up, or none.
LEMMA ReleaseStep ==
  ASSUME SharedInv, SInv', NEW c, holding' = holding \ {c},
         push' \in [Pushes -> PushStates],
         \A v \in Viewers : v # c /\ pc[v] = "wait" => pc'[v] = "wait",
         \A p \in Pushes : p # c /\ push[p] = "calling" => push'[p] = "calling"
  PROVE  SharedInv'
<1>1. holding' \subseteq Waiting'
  BY HoldingWaits DEF SharedInv
<1> QED BY <1>1, Released DEF SharedInv, SharedTypeOK, SInv, PushStates

LEMMA AcquireShared ==
  ASSUME SharedInv, NEW c \in Callers, Acquire(c) PROVE SharedInv'
<1>1. /\ c \in Waiting \ holding /\ holding' = holding \cup {c}
      /\ ~(Cardinality(holding) >= PoolSize)
      /\ UNCHANGED <<vars, push>>
  BY DEF Acquire, PoolFull
<1>2. SInv'
  <2>1. /\ UNCHANGED <<log, handlerVars>>
        /\ gone' \subseteq Viewers /\ stopping' \in BOOLEAN /\ faults' \in 0..MaxFaults
    BY <1>1 DEF SharedInv, SInv, TypeOK, vars, worldVars
  <2> QED BY <2>1, WorldSInv DEF SharedInv
<1>3. IsFiniteSet(holding') /\ Cardinality(holding') <= PoolSize
  <2>1. IsFiniteSet(holding) /\ Cardinality(holding) \in Nat
    BY FS_CardinalityType DEF SharedInv
  <2>2. IsFiniteSet(holding') /\ Cardinality(holding') = Cardinality(holding) + 1
    BY <1>1, <2>1, FS_AddElement
  <2> QED BY <1>1, <2>1, <2>2, PoolSizeAssumption
<1>4. holding' \subseteq Waiting'
  BY <1>1 DEF SharedInv, SharedTypeOK, Waiting, vars, handlerVars
<1> QED BY <1>1, <1>2, <1>3, <1>4 DEF SharedInv, SharedTypeOK, SInv

\* What the end of a call without a connection is to the handlers.
LEMMA NoConnection ==
  ASSUME SharedInv, NEW c \in Callers, NoTurn(c) \/ TurnLost(c) \/ Abandon(c)
  PROVE  /\ c \notin holding
         /\ UNCHANGED <<log, phase, cursor, batchVars, sent, gone, stopping, holding>>
         /\ faults' \in 0..MaxFaults
         /\ \/ /\ c \in Viewers /\ pc[c] = "wait" /\ push' = push
               /\ pc'[c] \in {"read", "left", "failed"}
               /\ pc' \in [Viewers -> Serving \cup Ended]
               /\ \A w \in Viewers : w # c => pc'[w] = pc[w]
            \/ /\ c \in Pushes /\ pc' = pc
               /\ push' \in [Pushes -> PushStates]
               /\ \A p \in Pushes : p # c => push'[p] = push[p]
<1>1. /\ c \in Waiting \ holding
      /\ UNCHANGED <<log, phase, cursor, batchVars, sent, gone, stopping, holding>>
  BY DEF NoTurn, TurnLost, TurnFails, Abandon, worldVars
<1>2. faults' \in 0..MaxFaults
  <2>1. /\ faults \in 0..MaxFaults
        /\ faults' = faults \/ (faults < MaxFaults /\ faults' = faults + 1)
    BY DEF SharedInv, SInv, TypeOK, NoTurn, TurnLost, Abandon, worldVars
  <2> QED BY <2>1, BoundsAssumption
<1>3. \/ /\ c \in Viewers /\ push' = push
         /\ Goto(c, "failed") \/ Goto(c, "read") \/ Goto(c, "left")
      \/ /\ c \in Pushes /\ pc' = pc
         /\ SetPush(c, "starved") \/ SetPush(c, "failed")
  BY DEF NoTurn, TurnLost, TurnFails, Abandon
<1>4. /\ pc \in [Viewers -> Serving \cup Ended]
      /\ push \in [Pushes -> PushStates]
  BY DEF SharedInv, SInv, TypeOK, SharedTypeOK, PushStates
<1>5. c \in Viewers => pc[c] = "wait"
  BY <1>1, CallersAssumption DEF Waiting
<1> QED BY <1>1, <1>2, <1>3, <1>4, <1>5 DEF Goto, SetPush, Serving, Ended, PushStates

LEMMA NoConnectionShared ==
  ASSUME SharedInv, NEW c \in Callers, NoTurn(c) \/ TurnLost(c) \/ Abandon(c)
  PROVE  SharedInv'
<1>1. /\ c \notin holding /\ holding' = holding
      /\ faults' \in 0..MaxFaults
      /\ UNCHANGED <<log, phase, cursor, batchVars, sent, gone, stopping>>
  BY NoConnection
<1>2. holding' = holding \ {c}
  BY <1>1
<1>3. CASE /\ c \in Viewers /\ pc[c] = "wait" /\ push' = push
           /\ pc'[c] \in {"read", "left", "failed"}
           /\ pc' \in [Viewers -> Serving \cup Ended]
           /\ \A w \in Viewers : w # c => pc'[w] = pc[w]
  <2>1. SInv'
    BY <1>1, <1>3, QuietSInv DEF SharedInv
  <2>2. push' \in [Pushes -> PushStates]
    BY <1>3 DEF SharedInv, SharedTypeOK, PushStates
  <2> QED BY <1>2, <1>3, <2>1, <2>2, ReleaseStep
<1>4. CASE /\ c \in Pushes /\ pc' = pc
           /\ push' \in [Pushes -> PushStates]
           /\ \A p \in Pushes : p # c => push'[p] = push[p]
  <2>1. gone' \subseteq Viewers /\ stopping' \in BOOLEAN
    BY <1>1 DEF SharedInv, SInv, TypeOK
  <2>2. SInv'
    BY <1>1, <1>4, <2>1, WorldSInv DEF SharedInv, handlerVars
  <2> QED BY <1>2, <1>4, <2>2, ReleaseStep
<1> QED BY <1>3, <1>4, NoConnection

-----------------------------------------------------------------------------
(* The callers.                                                            *)

LEMMA PushShared ==
  ASSUME SharedInv, NEW p \in Pushes, IssuePush(p) \/ PushReply(p) \/ PushError(p)
  PROVE  SharedInv'
<1>1. /\ push' \in [Pushes -> PushStates]
      /\ \A q \in Pushes : q # p => push'[q] = push[q]
      /\ UNCHANGED <<log, handlerVars, gone, stopping>>
  <2>1. push \in [Pushes -> PushStates]
    BY DEF SharedInv, SharedTypeOK, PushStates
  <2> QED BY <2>1 DEF IssuePush, PushReply, PushError, SetPush, PushStates, vars, worldVars
<1>2. faults' \in 0..MaxFaults
  <2>1. /\ faults \in 0..MaxFaults
        /\ faults' = faults \/ (faults < MaxFaults /\ faults' = faults + 1)
    BY DEF SharedInv, SInv, TypeOK, IssuePush, PushReply, PushError, vars, worldVars
  <2> QED BY <2>1, BoundsAssumption
<1>3. SInv'
  <2>1. gone' \subseteq Viewers /\ stopping' \in BOOLEAN
    BY <1>1 DEF SharedInv, SInv, TypeOK
  <2> QED BY <1>1, <1>2, <2>1, WorldSInv DEF SharedInv
<1>4. holding' = holding \ {p}
  <2>1. CASE IssuePush(p)
    <3>1. p \notin Waiting
      BY <2>1, CallersAssumption DEF IssuePush, Waiting
    <3> QED BY <2>1, <3>1 DEF IssuePush, SharedInv, SharedTypeOK
  <2>2. CASE PushReply(p) \/ PushError(p)
    BY <2>2 DEF PushReply, PushError, Release
  <2> QED BY <2>1, <2>2
<1> QED BY <1>1, <1>3, <1>4, ReleaseStep DEF handlerVars

\* A handler works on one call at a time: whatever it does, other calls go on.
LEMMA HandlerShared ==
  ASSUME SharedInv, NEW v \in Viewers,
         Serve(v) \/ ReadReturns(v) \/ ReadBreaks(v) \/ (Open(v) /\ UNCHANGED <<holding, push>>)
  PROVE  SharedInv'
<1>1. SInv'
  BY OpenSInv, CallSInv, ReadReplySInv, SkipBadSInv, SendEntrySInv, LeaveSInv
     DEF SharedInv, Serve, ReadReturns, ReadBreaks
<1>2. push' = push /\ \A w \in Viewers : w # v => pc'[w] = pc[w]
  BY DEF SharedInv, SInv, TypeOK, Serve, ReadReturns, ReadBreaks, Open, IssueRead, SkipBad,
         SendEntry, SendFails, EndBatch, ReadReply, ReadNil, ReadError, Goto
<1>3. holding' = holding \ {v}
  <2>1. CASE ReadReturns(v) \/ ReadBreaks(v)
    BY <2>1 DEF ReadReturns, ReadBreaks, Release
  <2>2. CASE Serve(v) \/ (Open(v) /\ UNCHANGED <<holding, push>>)
    <3>1. holding' = holding /\ pc[v] # "wait"
      BY <2>2 DEF Serve, Open, IssueRead, SkipBad, SendEntry, SendFails, EndBatch, InBatch, Ended
    <3>2. v \notin holding
      BY <3>1, CallersAssumption DEF SharedInv, SharedTypeOK, Waiting
    <3> QED BY <3>1, <3>2
  <2> QED BY <2>1, <2>2
<1>4. push' \in [Pushes -> PushStates]
  BY <1>2 DEF SharedInv, SharedTypeOK, PushStates
<1> QED BY <1>1, <1>2, <1>3, <1>4, ReleaseStep

\* Steps that no caller takes.
LEMMA OutsideShared ==
  ASSUME SharedInv,
         \/ UNCHANGED sharedVars
         \/ /\ \/ \E v \in Viewers : Disconnect(v)
               \/ \E r \in Runs : RunnerWrite(r)
               \/ Shutdown
            /\ UNCHANGED <<holding, push>>
  PROVE  SharedInv'
<1>1. SInv'
  <2>1. CASE \E r \in Runs : RunnerWrite(r)
    BY <2>1, RunnerWriteSInv DEF SharedInv
  <2>2. CASE UNCHANGED sharedVars \/ (\E v \in Viewers : Disconnect(v)) \/ Shutdown
    <3>1. [Next]_vars
      BY <2>2 DEF Next, sharedVars
    <3> QED BY <3>1, NextSInv DEF SharedInv
  <2> QED BY <2>1, <2>2
<1>2. UNCHANGED <<pc, holding, push>>
  BY DEF sharedVars, vars, handlerVars, Disconnect, RunnerWrite, Shutdown
<1> QED BY <1>1, <1>2 DEF SharedInv, SharedTypeOK, SInv, Waiting

-----------------------------------------------------------------------------
(* The theorems.                                                           *)

LEMMA NextShared == SharedInv /\ [SharedNext]_sharedVars => SharedInv'
<1> SUFFICES ASSUME SharedInv, [SharedNext]_sharedVars PROVE SharedInv'
  OBVIOUS
<1>1. ASSUME NEW c \in Callers, Acquire(c) \/ NoTurn(c) \/ TurnLost(c) \/ Abandon(c)
      PROVE  SharedInv'
  BY <1>1, AcquireShared, NoConnectionShared
<1>2. ASSUME NEW p \in Pushes, IssuePush(p) \/ PushReply(p) \/ PushError(p) PROVE SharedInv'
  BY <1>2, PushShared
<1>3. ASSUME NEW v \in Viewers, Serve(v) \/ ReadReturns(v) \/ ReadBreaks(v) PROVE SharedInv'
  BY <1>3, HandlerShared
<1>4. CASE World \/ UNCHANGED sharedVars
  BY <1>4, HandlerShared, OutsideShared DEF World
<1> QED BY <1>1, <1>2, <1>3, <1>4 DEF SharedNext

\* SharedInv holds of every reachable state.
THEOREM SharedInvariance == SharedSpec => []SharedInv
<1>1. SharedInit => SharedInv
  <2> SUFFICES ASSUME SharedInit PROVE SharedInv
    OBVIOUS
  <2>1. SInv /\ holding = {} /\ push \in [Pushes -> PushStates]
    BY InitSInv DEF SharedInit, PushStates
  <2>2. IsFiniteSet(holding) /\ Cardinality(holding) <= PoolSize
    BY <2>1, FS_EmptySet, PoolSizeAssumption
  <2> QED BY <2>1, <2>2 DEF SharedInv, SharedTypeOK, SInv, PushStates
<1> QED BY <1>1, NextShared, PTL DEF SharedSpec

\* Only a command under way has a connection of the pool, and never do more commands
\* than the pool has connections.
THEOREM PoolKeepsItsBound == SharedSpec => []SharedTypeOK
<1>1. SharedInv => SharedTypeOK
  BY DEF SharedInv
<1> QED BY <1>1, SharedInvariance, PTL

\* Reads that fail for want of a connection lose and repeat no entry of a log.
THEOREM SharedLogIsShownInOrder == SharedSpec => []DeliveredInOrder
<1>1. SharedInv => DeliveredInOrder
  BY DEF SharedInv, SInv, Delivered, DeliveredInOrder
<1> QED BY <1>1, SharedInvariance, PTL

\* A handler whose call gets no connection closes the stream or reads again.
LEMMA NoConnectionDelivery ==
  ASSUME SharedInv, NEW c \in Callers, NoTurn(c) \/ TurnLost(c) \/ Abandon(c)
  PROVE  [Delivery!Next]_(Delivery!vars)
<1>1. UNCHANGED <<log, sent>>
  BY NoConnection
<1>2. CASE /\ c \in Viewers /\ pc[c] = "wait"
           /\ pc'[c] \in {"read", "left", "failed"}
           /\ \A w \in Viewers : w # c => pc'[w] = pc[w]
  <2>1. Delivery!Close(c) \/ UNCHANGED <<log, shownBar, stateBar>>
    BY <1>1, <1>2, SilentStep DEF Serving
  <2> QED BY <1>2, <2>1 DEF Delivery!Next, Delivery!vars, shownBar, stateBar
<1>3. CASE pc' = pc
  BY <1>1, <1>3 DEF Delivery!vars, Shown, State
<1> QED BY <1>2, <1>3, NoConnection

LEMMA SharedDeliveryStep ==
  SharedInv /\ [SharedNext]_sharedVars => [Delivery!Next]_(Delivery!vars)
<1> SUFFICES ASSUME SharedInv, [SharedNext]_sharedVars
             PROVE  [Delivery!Next]_(Delivery!vars)
  OBVIOUS
<1>1. CASE [Next]_vars
  BY <1>1, DeliveryStep DEF SharedInv
<1>2. ASSUME NEW c \in Callers, NoTurn(c) \/ TurnLost(c) \/ Abandon(c)
      PROVE  [Delivery!Next]_(Delivery!vars)
  BY <1>2, NoConnectionDelivery
<1>3. ASSUME NEW p \in Pushes, PushError(p) PROVE [Delivery!Next]_(Delivery!vars)
  BY <1>3 DEF PushError, handlerVars, Delivery!vars, Shown, State
<1>4. \/ [Next]_vars
      \/ \E c \in Callers : NoTurn(c) \/ TurnLost(c) \/ Abandon(c)
      \/ \E p \in Pushes : PushError(p)
  BY DEF SharedNext, Next, Step, Acquire, IssuePush, PushReply, Serve, ReadReturns,
         ReadBreaks, World, sharedVars
<1> QED BY <1>1, <1>2, <1>3, <1>4

\* LogDelivery is implemented also where viewers and submissions share a Redis client:
\* what others do with its connections shows on a stream only as its end.
THEOREM SharedDeliveryRefinement == SharedSpec => ImplementsDelivery
<1>1. SharedInit => Delivery!Init
  BY DEF SharedInit, Init, Delivery!Init, Shown, State, Serving
<1> QED BY SharedInvariance, <1>1, SharedDeliveryStep, PTL
        DEF SharedSpec, ImplementsDelivery, Delivery!Spec
=============================================================================
