----------------------------- MODULE LogDelivery -----------------------------
(***************************************************************************)
(* What the log endpoint promises to a viewer, without loops, batches and  *)
(* cursors: a connection shows the entries of the growing log of its run   *)
(* one by one, from the first on, leaving out malformed ones; it is        *)
(* complete with the first EOF marker, and until then it may be closed at  *)
(* any moment.                                                             *)
(***************************************************************************)
EXTENDS Integers, Sequences

CONSTANTS Viewers, Runs, Watches, Entries

VARIABLES
  log,     \* run -> its entries so far
  shown,   \* viewer -> the last entry its connection showed, 0 if none
  state    \* viewer -> "closed", "open" or "complete"

vars == <<log, shown, state>>

Log(v) == log[Watches[v]]

Init ==
  /\ log = [r \in Runs |-> <<>>]
  /\ shown = [v \in Viewers |-> 0]
  /\ state = [v \in Viewers |-> "closed"]

Grow(r) ==
  /\ \E e \in Entries : log' = [log EXCEPT ![r] = Append(@, e)]
  /\ UNCHANGED <<shown, state>>

Connect(v) ==
  /\ state[v] # "open"
  /\ \E s \in {"open", "closed"} : state' = [state EXCEPT ![v] = s]
  /\ shown' = [shown EXCEPT ![v] = 0]
  /\ UNCHANGED log

\* The entry that comes next on a connection.
IsNext(v, p) ==
  /\ p \in shown[v] + 1..Len(Log(v))
  /\ Log(v)[p] # "bad"
  /\ \A q \in shown[v] + 1..p - 1 : Log(v)[q] = "bad"

Show(v) ==
  /\ state[v] = "open"
  /\ \E p \in shown[v] + 1..Len(Log(v)) :
       /\ IsNext(v, p)
       /\ shown' = [shown EXCEPT ![v] = p]
       /\ state' = [state EXCEPT ![v] = IF Log(v)[p] = "eof" THEN "complete" ELSE "open"]
  /\ UNCHANGED log

Close(v) ==
  /\ state[v] = "open"
  /\ state' = [state EXCEPT ![v] = "closed"]
  /\ UNCHANGED <<log, shown>>

Next ==
  \/ \E r \in Runs : Grow(r)
  \/ \E v \in Viewers : Connect(v) \/ Show(v) \/ Close(v)

Spec == Init /\ [][Next]_vars
=============================================================================
