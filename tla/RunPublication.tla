---------------------------- MODULE RunPublication ----------------------------
(***************************************************************************)
(* What the submission of a run promises to its client and to the runner,  *)
(* as if all stores were one: the run appears in one step, whole, once and *)
(* for good.  A request answered with 200 has its run then.  A refusal     *)
(* promises less: the run never appears, or it appeared before, or it is   *)
(* still to appear, but never in part and never twice.                     *)
(***************************************************************************)
EXTENDS Integers

CONSTANTS Requests, Users, RunIds, None

VARIABLES
  shelf,      \* identifier -> the run a runner finds under it, or None
  answer,     \* request -> "none", "open", "accepted" or "refused"
  delivered   \* identifier -> how often a runner took the run

vars == <<shelf, answer, delivered>>

\* A run made whole from one request: its row, both objects, readable by everyone,
\* and write access for one user, who submitted it.
WholeRun(r, u) ==
  [row |-> r, code |-> r, input |-> r, public |-> TRUE, writers |-> {u}]

Published(r) == \E id \in RunIds : shelf[id] # None /\ shelf[id].row = r

Init ==
  /\ shelf = [id \in RunIds |-> None]
  /\ answer = [r \in Requests |-> "none"]
  /\ delivered = [id \in RunIds |-> 0]

Receive(r) ==
  /\ answer[r] = "none"
  /\ answer' = [answer EXCEPT ![r] = "open"]
  /\ UNCHANGED <<shelf, delivered>>

\* The run of a request appears, as the only one and with one user to write to it.
Appear(r) ==
  /\ ~Published(r)
  /\ \E id \in RunIds, u \in Users :
       /\ shelf[id] = None
       /\ shelf' = [shelf EXCEPT ![id] = WholeRun(r, u)]
  /\ UNCHANGED delivered

\* The acceptance may come with the run, or later.
Publish(r) ==
  /\ answer[r] = "open"
  /\ Appear(r)
  /\ \E a \in {"open", "accepted"} : answer' = [answer EXCEPT ![r] = a]

\* The client was refused, and yet its run is queued.
PublishLate(r) ==
  /\ answer[r] = "refused"
  /\ Appear(r)
  /\ UNCHANGED answer

Accept(r) ==
  /\ answer[r] = "open"
  /\ Published(r)
  /\ answer' = [answer EXCEPT ![r] = "accepted"]
  /\ UNCHANGED <<shelf, delivered>>

\* Several at once, when the server crashes.
Refuse(R) ==
  /\ \A r \in R : answer[r] = "open"
  /\ answer' = [r \in Requests |-> IF r \in R THEN "refused" ELSE answer[r]]
  /\ UNCHANGED <<shelf, delivered>>

Deliver(id) ==
  /\ shelf[id] # None
  /\ delivered' = [delivered EXCEPT ![id] = @ + 1]
  /\ UNCHANGED <<shelf, answer>>

Next ==
  \/ \E r \in Requests : Receive(r) \/ Publish(r) \/ PublishLate(r) \/ Accept(r)
  \/ \E R \in SUBSET Requests : Refuse(R)
  \/ \E id \in RunIds : Deliver(id)

Spec == Init /\ [][Next]_vars
=============================================================================
