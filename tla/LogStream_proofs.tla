--------------------------- MODULE LogStream_proofs ---------------------------
(***************************************************************************)
(* The safety of LogStream for any number of viewers, batches of any size  *)
(* and logs of any length and content: what a connection shows is the log  *)
(* in order and without gaps, and LogStream implements LogDelivery.        *)
(***************************************************************************)
EXTENDS LogStream, SequenceTheorems, TLAPS

\* DeliveredInOrder, of one viewer.
Delivered(v) ==
  /\ \A i, j \in DOMAIN sent[v] : i < j => sent[v][i] < sent[v][j]
  /\ ToSet(sent[v]) = {p \in 1..Reach(v) : Log(v)[p] # "bad"}

\* What the loop over a batch relies on: nothing was left out between the cursor and
\* the next entry but malformed entries.  "done" stands on an entry of the log.
BatchInv(v) ==
  /\ pc[v] = "send" => \A p \in (cursor[v] + 1)..(next[v] - 1) : Log(v)[p] = "bad"
  /\ pc[v] = "done" => next[v] <= last[v]

SInv == TypeOK /\ \A v \in Viewers : Delivered(v) /\ BatchInv(v)

-----------------------------------------------------------------------------
(* Sequences.                                                              *)

LEMMA AppendElements ==
  ASSUME NEW S, NEW s \in Seq(S), NEW x \in S
  PROVE  /\ Append(s, x) \in Seq(S)
         /\ DOMAIN s = 1..Len(s)
         /\ DOMAIN Append(s, x) = 1..(Len(s) + 1)
         /\ \A i \in 1..Len(s) : Append(s, x)[i] = s[i]
         /\ Append(s, x)[Len(s) + 1] = x
         /\ ToSet(Append(s, x)) = ToSet(s) \cup {x}
<1>1. /\ Append(s, x) \in Seq(S)
      /\ Len(s) \in Nat /\ DOMAIN s = 1..Len(s)
      /\ Len(Append(s, x)) = Len(s) + 1
      /\ DOMAIN Append(s, x) = 1..(Len(s) + 1)
      /\ \A i \in 1..Len(s) : Append(s, x)[i] = s[i]
      /\ Append(s, x)[Len(s) + 1] = x
  OBVIOUS
<1>2. ToSet(Append(s, x)) = ToSet(s) \cup {x}
  <2>1. ASSUME NEW y \in ToSet(s) PROVE y \in ToSet(Append(s, x))
    BY <1>1, <2>1 DEF ToSet
  <2>2. x \in ToSet(Append(s, x))
    BY <1>1 DEF ToSet
  <2>3. ASSUME NEW y \in ToSet(Append(s, x)), y # x PROVE y \in ToSet(s)
    <3>1. PICK i \in 1..(Len(s) + 1) : Append(s, x)[i] = y
      BY <1>1, <2>3 DEF ToSet
    <3>2. i \in 1..Len(s)
      BY <1>1, <2>3, <3>1
    <3> QED BY <1>1, <3>1, <3>2 DEF ToSet
  <2> QED BY <2>1, <2>2, <2>3
<1> QED BY <1>1, <1>2

-----------------------------------------------------------------------------
(* The log that a viewer watches.                                          *)

LEMMA LogTyped ==
  ASSUME TypeOK, NEW v \in Viewers
  PROVE  Log(v) \in Seq(Entries) /\ Len(Log(v)) \in Nat
<1>1. Watches[v] \in Runs
  BY WatchesAssumption
<1>2. Log(v) \in Seq(Entries)
  BY <1>1 DEF TypeOK, Log
<1> QED BY <1>2

LEMMA SameLog == ASSUME UNCHANGED log, NEW v PROVE Log(v)' = Log(v)
BY DEF Log

-----------------------------------------------------------------------------
(* The invariant.                                                          *)

LEMMA InitSInv == Init => SInv
<1> SUFFICES ASSUME Init PROVE SInv
  OBVIOUS
<1>1. TypeOK
  <2>1. /\ log \in [Runs -> Seq(Entries)] /\ \A r \in Runs : Len(log[r]) = 0
        /\ <<>> \in Seq(Nat)
    BY EmptySeq DEF Init
  <2>2. \A v \in Viewers : BatchInLog(v)
    <3>1. \A v \in Viewers : Len(Log(v)) = 0
      BY <2>1, WatchesAssumption DEF Log
    <3> QED BY <3>1 DEF Init, BatchInLog
  <2>3. /\ pc \in [Viewers -> Serving \cup Ended]
        /\ next \in [Viewers -> Nat]
        /\ cursor \in [Viewers -> Nat]
        /\ last \in [Viewers -> Nat]
        /\ phase \in [Viewers -> {"history", "live"}]
        /\ full \in [Viewers -> BOOLEAN]
    BY BoundsAssumption DEF Init, Serving, Ended
  <2>4. sent \in [Viewers -> Seq(Nat)]
    BY <2>1 DEF Init
  <2>5. gone = {} /\ stopping = FALSE /\ faults \in 0..MaxFaults
    <3>1. gone = {} /\ stopping = FALSE /\ faults = 0
      BY DEF Init
    <3> QED BY <3>1, BoundsAssumption
  <2>6. \A r \in Runs : Len(log[r]) <= MaxLog[r]
    BY <2>1, BoundsAssumption
  <2> QED BY <2>1, <2>2, <2>3, <2>4, <2>5, <2>6 DEF TypeOK
<1>2. ASSUME NEW v \in Viewers PROVE Delivered(v) /\ BatchInv(v)
  BY DEF Init, Delivered, BatchInv, Reach, ToSet
<1> QED BY <1>1, <1>2 DEF SInv

\* A step that leaves the log and what there is of a viewer alone.
LEMMA OtherViewer ==
  ASSUME SInv, NEW w \in Viewers, log' = log,
         pc'[w] = pc[w], cursor'[w] = cursor[w], next'[w] = next[w],
         last'[w] = last[w], sent'[w] = sent[w]
  PROVE  Delivered(w)' /\ BatchInv(w)' /\ BatchInLog(w)'
<1>1. Reach(w)' = Reach(w)
  BY DEF Reach
<1>2. Log(w)' = Log(w)
  BY SameLog
<1>3. BatchInLog(w)'
  BY <1>2 DEF SInv, TypeOK, BatchInLog
<1> QED BY <1>1, <1>2, <1>3 DEF SInv, Delivered, BatchInv

LEMMA OpenSInv == ASSUME SInv, NEW v \in Viewers, Open(v) PROVE SInv'
<1> USE DEF Open, Goto
<1>1. TypeOK'
  <2>0. pc' \in [Viewers -> Serving \cup Ended]
    BY DEF SInv, TypeOK, Serving, Ended
  <2>1. /\ next' \in [Viewers -> Nat]
        /\ cursor' \in [Viewers -> Nat]
        /\ last' \in [Viewers -> Nat]
    BY BoundsAssumption DEF SInv, TypeOK
  <2>2. \A w \in Viewers : BatchInLog(w)'
    <3>1. \A w \in Viewers : Log(w)' = Log(w) /\ Len(Log(w)) \in Nat
      BY SameLog, LogTyped DEF SInv
    <3> QED BY <3>1 DEF SInv, TypeOK, BatchInLog, Ended
  <2>3. sent' \in [Viewers -> Seq(Nat)]
    BY EmptySeq DEF SInv, TypeOK
  <2> QED BY <2>0, <2>1, <2>2, <2>3 DEF SInv, TypeOK
<1>2. sent'[v] = <<>> /\ cursor'[v] = 0 /\ pc'[v] \in {"read", "left"}
  BY DEF SInv, TypeOK
<1>3. Reach(v)' = 0
  BY <1>2 DEF Reach
<1>4. Delivered(v)' /\ BatchInv(v)'
  BY <1>2, <1>3 DEF Delivered, BatchInv, ToSet
<1>5. ASSUME NEW w \in Viewers, w # v PROVE Delivered(w)' /\ BatchInv(w)'
  BY <1>5, OtherViewer DEF SInv, TypeOK
<1> QED BY <1>1, <1>4, <1>5 DEF SInv

\* Steps before and after a read that send nothing and leave the loop over a batch alone.
LEMMA QuietSInv ==
  ASSUME SInv, NEW v \in Viewers,
         pc[v] \in {"read", "wait"}, pc'[v] \in {"read", "wait", "left", "failed"},
         pc' \in [Viewers -> Serving \cup Ended],
         \A w \in Viewers : w # v => pc'[w] = pc[w],
         UNCHANGED <<log, phase, cursor, batchVars, sent, gone, stopping>>,
         faults' \in 0..MaxFaults
  PROVE  SInv'
<1>0. \A w \in Viewers : Log(w)' = Log(w)
  BY SameLog
<1>1. TypeOK'
  <2>1. \A w \in Viewers : BatchInLog(w)'
    BY <1>0 DEF SInv, TypeOK, BatchInLog, batchVars
  <2> QED BY <2>1 DEF SInv, TypeOK, batchVars
<1>2. Reach(v)' = Reach(v)
  BY DEF Reach
<1>3. Delivered(v)' /\ BatchInv(v)'
  BY <1>0, <1>2 DEF SInv, Delivered, BatchInv
<1>4. ASSUME NEW w \in Viewers, w # v PROVE Delivered(w)' /\ BatchInv(w)'
  BY <1>4, OtherViewer DEF batchVars
<1> QED BY <1>1, <1>3, <1>4 DEF SInv

LEMMA CallSInv ==
  ASSUME SInv, NEW v \in Viewers, IssueRead(v) \/ ReadNil(v) \/ ReadError(v)
  PROVE  SInv'
<1> USE DEF Serving, Ended, Goto, worldVars
<1>1. pc \in [Viewers -> Serving \cup Ended] /\ faults \in 0..MaxFaults
  BY DEF SInv, TypeOK
<1>2. CASE IssueRead(v)
  BY <1>1, <1>2, QuietSInv DEF IssueRead
<1>3. CASE ReadNil(v)
  BY <1>1, <1>3, QuietSInv DEF ReadNil
<1>4. CASE ReadError(v)
  <2>1. faults' \in 0..MaxFaults
    BY <1>1, <1>4, BoundsAssumption DEF ReadError
  <2> QED BY <1>1, <1>4, <2>1, QuietSInv DEF ReadError
<1> QED BY <1>2, <1>3, <1>4

LEMMA ReadReplySInv == ASSUME SInv, NEW v \in Viewers, ReadReply(v) PROVE SInv'
<1> USE DEF worldVars
<1>0. Log(v)' = Log(v)
  BY SameLog DEF ReadReply
<1>1. /\ Len(Log(v)) \in Nat /\ cursor[v] \in Nat
      /\ BatchSize(v) \in Nat \ {0}
      /\ cursor[v] + BatchSize(v) <= Len(Log(v))
  <2>1. Len(Log(v)) \in Nat /\ cursor[v] \in Nat
    BY LogTyped DEF SInv, TypeOK
  <2>2. Available(v) = Len(Log(v)) - cursor[v] /\ Available(v) > 0
    BY DEF ReadReply, Available
  <2>3. BatchSize(v) = IF Available(v) < Count THEN Available(v) ELSE Count
    BY DEF BatchSize
  <2> QED BY <2>1, <2>2, <2>3, CountAssumption
<1>2. /\ pc[v] = "wait" /\ pc'[v] = "send"
      /\ next'[v] = cursor[v] + 1
      /\ last'[v] = cursor[v] + BatchSize(v)
      /\ UNCHANGED <<log, phase, cursor, sent, gone, stopping, faults>>
      /\ \A w \in Viewers : w # v => pc'[w] = pc[w] /\ next'[w] = next[w] /\ last'[w] = last[w]
  BY DEF SInv, TypeOK, ReadReply, Goto
<1>3. /\ pc' \in [Viewers -> Serving \cup Ended]
      /\ next' \in [Viewers -> Nat]
      /\ last' \in [Viewers -> Nat]
      /\ full' \in [Viewers -> BOOLEAN]
  BY <1>1 DEF SInv, TypeOK, ReadReply, Goto, Serving
<1>4. TypeOK'
  <2>1. ASSUME NEW w \in Viewers PROVE BatchInLog(w)'
    <3>1. CASE w = v
      BY <1>0, <1>1, <1>2, <3>1 DEF SInv, TypeOK, BatchInLog
    <3>2. CASE w # v
      BY <1>2, <3>2, OtherViewer
    <3> QED BY <3>1, <3>2
  <2> QED BY <1>2, <1>3, <2>1 DEF SInv, TypeOK
<1>5. Reach(v)' = Reach(v)
  BY <1>1, <1>2 DEF Reach
<1>6. Delivered(v)' /\ BatchInv(v)'
  BY <1>0, <1>1, <1>2, <1>5 DEF SInv, Delivered, BatchInv
<1>7. ASSUME NEW w \in Viewers, w # v PROVE Delivered(w)' /\ BatchInv(w)'
  BY <1>2, <1>7, OtherViewer
<1> QED BY <1>4, <1>6, <1>7 DEF SInv

\* In the loop the next entry is one of the log, and behind everything sent.
LEMMA NextEntry ==
  ASSUME SInv, NEW v \in Viewers, InBatch(v)
  PROVE  /\ next[v] \in 1..Len(Log(v))
         /\ cursor[v] \in 0..(next[v] - 1)
         /\ last[v] \in next[v]..Len(Log(v))
         /\ Reach(v) = next[v] - 1
         /\ ToSet(sent[v]) = {p \in 1..(next[v] - 1) : Log(v)[p] # "bad"}
         /\ \A i \in DOMAIN sent[v] : sent[v][i] < next[v]
<1>1. /\ next[v] \in 1..Len(Log(v))
      /\ cursor[v] \in 0..(next[v] - 1)
      /\ last[v] \in next[v]..Len(Log(v))
      /\ Reach(v) = next[v] - 1
  BY LogTyped DEF SInv, TypeOK, BatchInLog, InBatch, Reach
<1>2. ToSet(sent[v]) = {p \in 1..(next[v] - 1) : Log(v)[p] # "bad"}
  BY <1>1 DEF SInv, Delivered
<1>3. ASSUME NEW i \in DOMAIN sent[v] PROVE sent[v][i] < next[v]
  <2>1. sent[v][i] \in 1..(next[v] - 1)
    BY <1>2 DEF ToSet
  <2> QED BY <1>1, <2>1
<1> QED BY <1>1, <1>2, <1>3

LEMMA SkipBadSInv == ASSUME SInv, NEW v \in Viewers, SkipBad(v) PROVE SInv'
<1> USE DEF worldVars
<1>0. /\ next[v] \in 1..Len(Log(v)) /\ next[v] \in Nat
      /\ cursor[v] \in 0..(next[v] - 1) /\ last[v] \in next[v]..Len(Log(v))
      /\ Reach(v) = next[v] - 1
      /\ Log(v)' = Log(v)
  BY NextEntry, SameLog DEF SkipBad, SInv, TypeOK
<1>1. /\ pc[v] = "send" /\ Log(v)[next[v]] = "bad"
      /\ next'[v] = next[v] + 1
      /\ next' \in [Viewers -> Nat]
      /\ UNCHANGED <<log, pc, phase, cursor, last, full, sent, gone, stopping, faults>>
      /\ \A w \in Viewers : w # v => next'[w] = next[w]
  BY <1>0 DEF SInv, TypeOK, SkipBad, InBatch
<1>2. TypeOK'
  <2>1. ASSUME NEW w \in Viewers PROVE BatchInLog(w)'
    <3>1. CASE w = v
      BY <1>0, <1>1, <3>1 DEF SInv, TypeOK, BatchInLog
    <3>2. CASE w # v
      BY <1>1, <3>2, OtherViewer
    <3> QED BY <3>1, <3>2
  <2> QED BY <1>1, <2>1 DEF SInv, TypeOK
<1>3. Reach(v)' = next[v]
  BY <1>0, <1>1 DEF Reach
<1>4. {p \in 1..next[v] : Log(v)[p] # "bad"} = {p \in 1..(next[v] - 1) : Log(v)[p] # "bad"}
  BY <1>0, <1>1
<1>5. Delivered(v)'
  BY <1>0, <1>1, <1>3, <1>4 DEF SInv, Delivered
<1>6. BatchInv(v)'
  BY <1>0, <1>1 DEF SInv, BatchInv
<1>7. ASSUME NEW w \in Viewers, w # v PROVE Delivered(w)' /\ BatchInv(w)'
  BY <1>1, <1>7, OtherViewer
<1> QED BY <1>2, <1>5, <1>6, <1>7 DEF SInv

LEMMA SendEntrySInv == ASSUME SInv, NEW v \in Viewers, SendEntry(v) PROVE SInv'
<1> USE DEF worldVars
<1>0. /\ next[v] \in 1..Len(Log(v)) /\ next[v] \in Nat
      /\ cursor[v] \in 0..(next[v] - 1) /\ last[v] \in next[v]..Len(Log(v))
      /\ Log(v)' = Log(v) /\ sent[v] \in Seq(Nat)
      /\ ToSet(sent[v]) = {p \in 1..(next[v] - 1) : Log(v)[p] # "bad"}
      /\ \A i \in DOMAIN sent[v] : sent[v][i] < next[v]
  BY NextEntry, SameLog DEF SendEntry, SInv, TypeOK
<1>1. /\ pc[v] = "send" /\ Log(v)[next[v]] # "bad"
      /\ sent' \in [Viewers -> Seq(Nat)]
      /\ sent'[v] = Append(sent[v], next[v])
      /\ UNCHANGED <<log, phase, last, full, gone, stopping, faults>>
      /\ \A w \in Viewers : w # v => sent'[w] = sent[w]
  BY <1>0, AppendElements DEF SInv, TypeOK, SendEntry, InBatch
<1>2. /\ pc' \in [Viewers -> Serving \cup Ended]
      /\ cursor' \in [Viewers -> Nat]
      /\ next' \in [Viewers -> Nat]
      /\ \A w \in Viewers : w # v => pc'[w] = pc[w] /\ cursor'[w] = cursor[w] /\ next'[w] = next[w]
      /\ \/ pc'[v] = "done" /\ next'[v] = next[v] /\ cursor'[v] = cursor[v]
         \/ pc'[v] = "send" /\ next'[v] = next[v] + 1 /\ cursor'[v] = next[v]
  <2>1. CASE Log(v)[next[v]] = "eof"
    BY <1>1, <2>1 DEF SInv, TypeOK, SendEntry, Goto, Ended
  <2>2. CASE Log(v)[next[v]] # "eof"
    <3>1. /\ cursor' = [cursor EXCEPT ![v] = next[v]]
          /\ next' = [next EXCEPT ![v] = next[v] + 1]
          /\ pc' = pc
      BY <2>2 DEF SendEntry
    <3>2. next[v] \in Nat /\ next[v] + 1 \in Nat
      BY <1>0
    <3> QED BY <1>1, <3>1, <3>2 DEF SInv, TypeOK
  <2> QED BY <2>1, <2>2
<1>3. TypeOK'
  <2>1. ASSUME NEW w \in Viewers PROVE BatchInLog(w)'
    <3>1. CASE w = v
      <4>1. BatchInLog(v) /\ last'[v] = last[v] /\ Log(v)' = Log(v)
        BY <1>0, <1>1 DEF SInv, TypeOK
      <4>2. cursor'[v] <= Len(Log(v))
        BY <1>0, <1>2
      <4>3. pc'[v] = "send" => next'[v] \in (cursor'[v] + 1)..(last[v] + 1)
        BY <1>0, <1>2
      <4> QED BY <3>1, <4>1, <4>2, <4>3 DEF BatchInLog
    <3>2. CASE w # v
      BY <1>1, <1>2, <3>2, OtherViewer
    <3> QED BY <3>1, <3>2
  <2> QED BY <1>1, <1>2, <2>1 DEF SInv, TypeOK
<1>4. Reach(v)' = next[v]
  BY <1>0, <1>2 DEF Reach
<1>5. Delivered(v)'
  <2>1. ToSet(sent'[v]) = {p \in 1..next[v] : Log(v)[p] # "bad"}
    <3>1. ToSet(sent'[v]) = ToSet(sent[v]) \cup {next[v]}
      BY <1>0, <1>1, AppendElements
    <3>2. {p \in 1..next[v] : Log(v)[p] # "bad"}
            = {p \in 1..(next[v] - 1) : Log(v)[p] # "bad"} \cup {next[v]}
      <4>1. 1..next[v] = 1..(next[v] - 1) \cup {next[v]}
        BY <1>0
      <4> QED BY <1>1, <4>1
    <3> QED BY <1>0, <3>1, <3>2
  <2>2. ASSUME NEW i \in DOMAIN sent'[v], NEW j \in DOMAIN sent'[v], i < j
        PROVE  sent'[v][i] < sent'[v][j]
    <3>1. /\ Len(sent[v]) \in Nat
          /\ DOMAIN sent[v] = 1..Len(sent[v])
          /\ DOMAIN sent'[v] = 1..(Len(sent[v]) + 1)
          /\ \A k \in 1..Len(sent[v]) : sent'[v][k] = sent[v][k]
          /\ sent'[v][Len(sent[v]) + 1] = next[v]
      <4>1. sent[v] \in Seq(Nat) /\ next[v] \in Nat
        BY <1>0
      <4>2. Len(sent[v]) \in Nat
        BY <4>1
      <4> QED BY <1>1, <4>1, <4>2, AppendElements
    <3>2. i \in 1..Len(sent[v]) /\ j \in 1..(Len(sent[v]) + 1)
      BY <2>2, <3>1
    <3>3. CASE j = Len(sent[v]) + 1
      BY <1>0, <3>1, <3>2, <3>3
    <3>4. CASE j \in 1..Len(sent[v])
      BY <2>2, <3>1, <3>2, <3>4 DEF SInv, Delivered
    <3> QED BY <3>1, <3>2, <3>3, <3>4
  <2> QED BY <1>0, <1>4, <2>1, <2>2 DEF Delivered
<1>6. BatchInv(v)'
  BY <1>0, <1>1, <1>2 DEF SInv, BatchInv
<1>7. ASSUME NEW w \in Viewers, w # v PROVE Delivered(w)' /\ BatchInv(w)'
  BY <1>1, <1>2, <1>7, OtherViewer
<1> QED BY <1>3, <1>5, <1>6, <1>7 DEF SInv

\* The loop over a batch ends: between the cursor and the end of what was dealt with
\* there are malformed entries only.
LEMMA LeaveSInv ==
  ASSUME SInv, NEW v \in Viewers, SendFails(v) \/ EndBatch(v)
  PROVE  SInv'
<1> USE DEF worldVars, batchVars
<1>1. /\ pc[v] = "send" /\ pc'[v] \in {"left", "read"}
      /\ pc' \in [Viewers -> Serving \cup Ended]
      /\ phase' \in [Viewers -> {"history", "live"}]
      /\ UNCHANGED <<log, cursor, batchVars, sent, gone, stopping, faults>>
      /\ \A w \in Viewers : w # v => pc'[w] = pc[w]
  BY DEF SInv, TypeOK, SendFails, EndBatch, InBatch, Goto, Serving, Ended
<1>0. \A w \in Viewers : Log(w)' = Log(w)
  BY <1>1, SameLog
<1>2. TypeOK'
  BY <1>0, <1>1 DEF SInv, TypeOK, BatchInLog
<1>3. Reach(v) = next[v] - 1 /\ Reach(v)' = cursor[v]
  BY <1>1 DEF Reach
<1>4. cursor[v] \in Nat /\ next[v] \in Nat /\ cursor[v] <= next[v] - 1
  BY <1>1 DEF SInv, TypeOK, BatchInLog
<1>5. \A p \in (cursor[v] + 1)..(next[v] - 1) : Log(v)[p] = "bad"
  BY <1>1 DEF SInv, BatchInv
<1>6. {p \in 1..(next[v] - 1) : Log(v)[p] # "bad"} = {p \in 1..cursor[v] : Log(v)[p] # "bad"}
  BY <1>4, <1>5
<1>7. Delivered(v)' /\ BatchInv(v)'
  BY <1>0, <1>1, <1>3, <1>6 DEF SInv, Delivered, BatchInv
<1>8. ASSUME NEW w \in Viewers, w # v PROVE Delivered(w)' /\ BatchInv(w)'
  BY <1>1, <1>8, OtherViewer
<1> QED BY <1>2, <1>7, <1>8 DEF SInv

\* A log only grows at its end, and no other one changes.
LEMMA GrownLog ==
  ASSUME TypeOK, NEW r \in Runs, RunnerWrite(r), NEW v \in Viewers
  PROVE  /\ Len(Log(v)) <= Len(Log(v))' /\ Len(Log(v))' \in Nat
         /\ \A p \in 1..Len(Log(v)) : Log(v)'[p] = Log(v)[p]
<1>1. PICK e \in Entries : log' = [log EXCEPT ![r] = Append(@, e)]
  BY DEF RunnerWrite
<1>2. Watches[v] \in Runs /\ log \in [Runs -> Seq(Entries)]
  BY WatchesAssumption DEF TypeOK
<1>3. CASE Watches[v] = r
  <2>1. Log(v)' = Append(Log(v), e)
    BY <1>1, <1>2, <1>3 DEF Log
  <2> QED BY <2>1, LogTyped, AppendElements
<1>4. CASE Watches[v] # r
  <2>1. Log(v)' = Log(v)
    BY <1>1, <1>2, <1>4 DEF Log
  <2> QED BY <2>1, LogTyped
<1> QED BY <1>3, <1>4

\* What lies before Reach was there before the log grew.
LEMMA RunnerWriteSInv == ASSUME SInv, NEW r \in Runs, RunnerWrite(r) PROVE SInv'
<1> USE DEF handlerVars, batchVars, worldVars
<1>1. UNCHANGED <<handlerVars, worldVars>>
  BY DEF RunnerWrite
<1>2. log' \in [Runs -> Seq(Entries)] /\ \A q \in Runs : Len(log'[q]) <= MaxLog[q]
  <2>1. PICK e \in Entries : log' = [log EXCEPT ![r] = Append(log[r], e)]
    BY DEF RunnerWrite
  <2>2. /\ log \in [Runs -> Seq(Entries)] /\ \A q \in Runs : Len(log[q]) <= MaxLog[q]
        /\ Len(log[r]) < MaxLog[r] /\ MaxLog[r] \in Nat
    BY BoundsAssumption DEF SInv, TypeOK, RunnerWrite
  <2>3. Append(log[r], e) \in Seq(Entries) /\ Len(Append(log[r], e)) = Len(log[r]) + 1
    BY <2>2
  <2>4. Len(log[r]) \in Nat
    BY <2>2
  <2> QED BY <2>1, <2>2, <2>3, <2>4
<1>3. TypeOK'
  <2>1. ASSUME NEW w \in Viewers PROVE BatchInLog(w)'
    <3>1. /\ Len(Log(w)) \in Nat /\ Len(Log(w))' \in Nat /\ Len(Log(w)) <= Len(Log(w))'
      BY GrownLog, LogTyped DEF SInv
    <3> QED BY <1>1, <3>1 DEF SInv, TypeOK, BatchInLog
  <2> QED BY <1>1, <1>2, <2>1 DEF SInv, TypeOK
<1>4. ASSUME NEW v \in Viewers PROVE Delivered(v)' /\ BatchInv(v)'
  <2>0. Len(Log(v)) \in Nat /\ \A p \in 1..Len(Log(v)) : Log(v)'[p] = Log(v)[p]
    BY GrownLog, LogTyped DEF SInv
  <2>1. Reach(v)' = Reach(v) /\ Reach(v) \in Int /\ Reach(v) <= Len(Log(v))
    BY <1>1, <2>0 DEF SInv, TypeOK, BatchInLog, BatchInv, Reach
  <2>2. {p \in 1..Reach(v) : Log(v)'[p] # "bad"} = {p \in 1..Reach(v) : Log(v)[p] # "bad"}
    BY <2>0, <2>1
  <2>3. Delivered(v)'
    BY <1>1, <2>1, <2>2 DEF SInv, Delivered
  <2>4. pc[v] = "send" => /\ cursor[v] \in Nat /\ next[v] \in Nat
                          /\ next[v] - 1 <= Len(Log(v))
    BY <2>0 DEF SInv, TypeOK, BatchInLog
  <2>5. BatchInv(v)'
    <3>1. /\ pc'[v] = pc[v] /\ cursor'[v] = cursor[v]
          /\ next'[v] = next[v] /\ last'[v] = last[v]
      BY <1>1
    <3>2. ASSUME pc[v] = "send", NEW p \in (cursor[v] + 1)..(next[v] - 1)
          PROVE  Log(v)'[p] = "bad"
      <4>1. p \in 1..Len(Log(v))
        BY <2>0, <2>4, <3>2
      <4> QED BY <2>0, <3>2, <4>1 DEF SInv, BatchInv
    <3> QED BY <3>1, <3>2 DEF SInv, BatchInv
  <2> QED BY <2>3, <2>5
<1> QED BY <1>3, <1>4 DEF SInv

\* Steps that no handler sees before it looks at its context.
LEMMA WorldSInv ==
  ASSUME SInv, UNCHANGED <<log, handlerVars>>,
         gone' \subseteq Viewers, stopping' \in BOOLEAN, faults' \in 0..MaxFaults
  PROVE  SInv'
<1> USE DEF handlerVars, batchVars
<1>0. \A w \in Viewers : Log(w)' = Log(w)
  BY SameLog
<1>1. TypeOK'
  BY <1>0 DEF SInv, TypeOK, BatchInLog
<1>2. ASSUME NEW w \in Viewers PROVE Delivered(w)' /\ BatchInv(w)'
  BY OtherViewer
<1> QED BY <1>1, <1>2 DEF SInv

LEMMA NextSInv == SInv /\ [Next]_vars => SInv'
<1> SUFFICES ASSUME SInv, [Next]_vars PROVE SInv'
  OBVIOUS
<1>1. ASSUME NEW v \in Viewers, Step(v) PROVE SInv'
  BY <1>1, CallSInv, ReadReplySInv, SkipBadSInv, SendEntrySInv, LeaveSInv DEF Step
<1>2. ASSUME NEW v \in Viewers, Open(v) \/ ReadError(v) PROVE SInv'
  BY <1>2, OpenSInv, CallSInv
<1>3. ASSUME NEW r \in Runs, RunnerWrite(r) PROVE SInv'
  BY <1>3, RunnerWriteSInv
<1>4. CASE (\E v \in Viewers : Disconnect(v)) \/ Shutdown \/ Stopped \/ UNCHANGED vars
  <2>1. /\ UNCHANGED <<log, handlerVars>>
        /\ gone' \subseteq Viewers /\ stopping' \in BOOLEAN /\ faults' \in 0..MaxFaults
    BY <1>4 DEF SInv, TypeOK, Disconnect, Shutdown, Stopped, vars, worldVars
  <2> QED BY <2>1, WorldSInv
<1> QED BY <1>1, <1>2, <1>3, <1>4 DEF Next

\* SInv is an invariant of the log stream.
THEOREM LogStreamInvariance == Spec => []SInv
  BY InitSInv, NextSInv, PTL DEF Spec

\* The variables have their types, and a handler never handles an entry that is not
\* in its batch and in the log.
THEOREM LogStreamTypes == Spec => []TypeOK
<1>1. SInv => TypeOK
  BY DEF SInv
<1> QED BY LogStreamInvariance, <1>1, PTL

\* A connection shows the log from the beginning, in order, without gaps and without
\* repetitions, across full and partial batches, malformed entries, a log that grows
\* meanwhile and the change from the history loop to the live loop.
THEOREM LogIsShownInOrder == Spec => []DeliveredInOrder
<1>1. SInv => DeliveredInOrder
  BY DEF SInv, Delivered, DeliveredInOrder
<1> QED BY LogStreamInvariance, <1>1, PTL

-----------------------------------------------------------------------------
(* LogStream implements LogDelivery.                                       *)

shownBar == [v \in Viewers |-> Shown(v)]
stateBar == [v \in Viewers |-> State(v)]

\* A step of one handler changes what its own viewer sees.
LEMMA OneViewer ==
  ASSUME NEW v \in Viewers,
         \A w \in Viewers : w # v => pc'[w] = pc[w] /\ sent'[w] = sent[w]
  PROVE  /\ shownBar' = [shownBar EXCEPT ![v] = Shown(v)']
         /\ stateBar' = [stateBar EXCEPT ![v] = State(v)']
<1>1. ASSUME NEW w \in Viewers, w # v PROVE Shown(w)' = Shown(w) /\ State(w)' = State(w)
  BY <1>1 DEF Shown, State
<1>2. shownBar' = [shownBar EXCEPT ![v] = Shown(v)']
  BY <1>1 DEF shownBar
<1>3. stateBar' = [stateBar EXCEPT ![v] = State(v)']
  BY <1>1 DEF stateBar
<1> QED BY <1>2, <1>3

\* Steps that show nothing either close the stream or are not seen at all.
LEMMA SilentStep ==
  ASSUME NEW v \in Viewers, UNCHANGED <<log, sent>>,
         pc[v] \in Serving, pc'[v] \in Serving \cup {"left", "failed"},
         \A w \in Viewers : w # v => pc'[w] = pc[w]
  PROVE  Delivery!Close(v) \/ UNCHANGED <<log, shownBar, stateBar>>
<1>1. Shown(v)' = Shown(v) /\ shownBar[v] = Shown(v) /\ stateBar[v] = State(v)
  BY DEF Shown, shownBar, stateBar
<1>2. /\ shownBar' = [shownBar EXCEPT ![v] = Shown(v)']
      /\ stateBar' = [stateBar EXCEPT ![v] = State(v)']
  BY OneViewer
<1>3. shownBar' = shownBar
  BY <1>1, <1>2 DEF shownBar
<1>4. State(v) = "open"
  BY DEF State, Serving
<1>5. CASE pc'[v] \in Serving
  <2>1. State(v)' = "open"
    BY <1>5 DEF State, Serving
  <2>2. stateBar' = stateBar
    BY <1>1, <1>2, <1>4, <2>1 DEF stateBar
  <2> QED BY <1>3, <2>2
<1>6. CASE pc'[v] \in {"left", "failed"}
  <2>1. State(v)' = "closed"
    BY <1>6 DEF State, Serving
  <2> QED BY <1>1, <1>2, <1>3, <1>4, <2>1 DEF Delivery!Close, shownBar, stateBar
<1> QED BY <1>5, <1>6

LEMMA OpenConnects == ASSUME SInv, NEW v \in Viewers, Open(v) PROVE Delivery!Connect(v)
<1>1. /\ pc[v] \in Ended /\ pc'[v] \in {"read", "left"}
      /\ sent'[v] = <<>> /\ log' = log
      /\ \A w \in Viewers : w # v => pc'[w] = pc[w] /\ sent'[w] = sent[w]
  BY DEF SInv, TypeOK, Open, Goto
<1>2. /\ shownBar' = [shownBar EXCEPT ![v] = Shown(v)']
      /\ stateBar' = [stateBar EXCEPT ![v] = State(v)']
  BY <1>1, OneViewer
<1>3. Shown(v)' = 0
  BY <1>1 DEF Shown
<1>4. State(v) # "open" /\ State(v)' \in {"open", "closed"}
  BY <1>1 DEF State, Serving, Ended
<1> QED BY <1>1, <1>2, <1>3, <1>4 DEF Delivery!Connect, shownBar, stateBar

\* What LogDelivery says of the next entry, in terms of LogStream.
LEMMA NextShown ==
  ASSUME NEW v \in Viewers, NEW n \in (Shown(v) + 1)..Len(Log(v)), Log(v)[n] # "bad",
         \A q \in (Shown(v) + 1)..(n - 1) : Log(v)[q] = "bad"
  PROVE  Delivery!IsNext(v, n)
<1> DEFINE S == Shown(v)
           L == Log(v)
<1>1. shownBar[v] = S
  BY DEF shownBar
<1>2. Delivery!Log(v) = L
  BY DEF Delivery!Log, Log
<1>3. n \in (S + 1)..Len(L) /\ L[n] # "bad" /\ \A q \in (S + 1)..(n - 1) : L[q] = "bad"
  OBVIOUS
<1> HIDE DEF S, L
<1> QED BY <1>1, <1>2, <1>3 DEF Delivery!IsNext, shownBar

\* The entry a handler sends is the next one that its viewer has not seen: all
\* others before it are malformed.
LEMMA SendShows == ASSUME SInv, NEW v \in Viewers, SendEntry(v) PROVE Delivery!Show(v)
<1> DEFINE p == next[v]
<1>0. /\ p \in 1..Len(Log(v))
      /\ ToSet(sent[v]) = {q \in 1..(p - 1) : Log(v)[q] # "bad"}
      /\ sent[v] \in Seq(Nat) /\ p \in Nat
  BY NextEntry DEF SendEntry, SInv, TypeOK
<1>1. /\ pc[v] = "send" /\ Log(v)[p] # "bad" /\ log' = log
      /\ sent'[v] = Append(sent[v], p)
      /\ pc'[v] = IF Log(v)[p] = "eof" THEN "done" ELSE "send"
      /\ \A w \in Viewers : w # v => pc'[w] = pc[w] /\ sent'[w] = sent[w]
  BY DEF SInv, TypeOK, SendEntry, InBatch, Goto
<1>2. /\ shownBar' = [shownBar EXCEPT ![v] = Shown(v)']
      /\ stateBar' = [stateBar EXCEPT ![v] = State(v)']
  BY <1>1, OneViewer
<1>3. Shown(v)' = p
  <2> DEFINE S == Nat
  <2>0. sent[v] \in Seq(S) /\ p \in S /\ sent'[v] = Append(sent[v], p)
    BY <1>0, <1>1
  <2> HIDE DEF S, p
  <2>1. Append(sent[v], p) # <<>> /\ Last(Append(sent[v], p)) = p
    BY <2>0 DEF Last
  <2> QED BY <2>0, <2>1 DEF Shown
<1>4. State(v) = "open" /\ State(v)' = IF Log(v)[p] = "eof" THEN "complete" ELSE "open"
  BY <1>1 DEF State, Serving
<1>5. Shown(v) \in 0..(p - 1)
  <2>1. CASE sent[v] = <<>>
    BY <1>0, <2>1 DEF Shown
  <2>2. CASE sent[v] # <<>>
    <3>1. Last(sent[v]) \in ToSet(sent[v])
      BY <1>0, <2>2 DEF Last, ToSet
    <3> QED BY <1>0, <2>2, <3>1 DEF Shown
  <2> QED BY <2>1, <2>2
<1>6. ASSUME NEW q \in (Shown(v) + 1)..(p - 1) PROVE Log(v)[q] = "bad"
  <2> SUFFICES ASSUME Log(v)[q] # "bad" PROVE FALSE
    OBVIOUS
  <2>1. q \in ToSet(sent[v])
    BY <1>0, <1>5
  <2>2. PICK i \in 1..Len(sent[v]) : sent[v][i] = q
    BY <1>0, <2>1 DEF ToSet
  <2>3. /\ Len(sent[v]) \in Nat /\ DOMAIN sent[v] = 1..Len(sent[v])
        /\ Shown(v) = sent[v][Len(sent[v])]
    <3>1. Len(sent[v]) \in Nat /\ DOMAIN sent[v] = 1..Len(sent[v]) /\ sent[v] # <<>>
      BY <1>0, <2>2
    <3> QED BY <3>1 DEF Shown, Last
  <2>4. i = Len(sent[v]) \/ sent[v][i] < sent[v][Len(sent[v])]
    BY <2>2, <2>3 DEF SInv, Delivered
  <2> QED BY <1>0, <1>5, <2>2, <2>3, <2>4
<1>7. Delivery!IsNext(v, p)
  <2>1. p \in (Shown(v) + 1)..Len(Log(v))
    BY <1>0, <1>5
  <2> HIDE DEF p
  <2> QED BY <1>1, <1>6, <2>1, NextShown
<1>8. shownBar[v] = Shown(v) /\ stateBar[v] = State(v) /\ p \in (Shown(v) + 1)..Len(Log(v))
  BY <1>0, <1>5 DEF shownBar, stateBar
<1>9. Delivery!Log(v) = Log(v)
  BY DEF Delivery!Log, Log
<1> HIDE DEF p
<1> QED BY <1>1, <1>2, <1>3, <1>4, <1>7, <1>8, <1>9 DEF Delivery!Show, shownBar, stateBar

LEMMA DeliveryStep == SInv /\ [Next]_vars => [Delivery!Next]_(Delivery!vars)
<1> SUFFICES ASSUME SInv, [Next]_vars
             PROVE  Delivery!Next \/ UNCHANGED <<log, shownBar, stateBar>>
  BY DEF Delivery!vars, shownBar, stateBar
<1>1. ASSUME NEW v \in Viewers, IssueRead(v) \/ ReadReply(v) \/ ReadNil(v) \/ ReadError(v)
                                \/ SkipBad(v) \/ SendFails(v) \/ EndBatch(v)
      PROVE  Delivery!Close(v) \/ UNCHANGED <<log, shownBar, stateBar>>
  <2>1. /\ UNCHANGED <<log, sent>>
        /\ pc[v] \in Serving /\ pc'[v] \in Serving \cup {"left", "failed"}
        /\ \A w \in Viewers : w # v => pc'[w] = pc[w]
    BY <1>1 DEF SInv, TypeOK, Serving, Goto, InBatch, IssueRead, ReadReply, ReadNil,
       ReadError, SkipBad, SendFails, EndBatch
  <2> QED BY <2>1, SilentStep
<1>2. ASSUME NEW r \in Runs, RunnerWrite(r) PROVE Delivery!Next
  <2>1. \E e \in Entries : log' = [log EXCEPT ![r] = Append(@, e)]
    BY <1>2 DEF RunnerWrite
  <2>2. UNCHANGED <<shownBar, stateBar>>
    BY <1>2 DEF RunnerWrite, handlerVars, shownBar, stateBar, Shown, State
  <2> QED BY <2>1, <2>2 DEF Delivery!Next, Delivery!Grow, shownBar, stateBar
<1>3. CASE (\E v \in Viewers : Disconnect(v)) \/ Shutdown \/ Stopped \/ UNCHANGED vars
  BY <1>3 DEF Disconnect, Shutdown, Stopped, vars, handlerVars, shownBar, stateBar,
     Shown, State
<1>4. ASSUME NEW v \in Viewers, Open(v) \/ Step(v) \/ ReadError(v)
      PROVE  Delivery!Next \/ UNCHANGED <<log, shownBar, stateBar>>
  BY <1>1, <1>4, OpenConnects, SendShows DEF Step, Delivery!Next
<1> QED BY <1>2, <1>3, <1>4 DEF Next

\* LogStream implements LogDelivery: with their batches, their cursor and their change
\* of loops the handlers show a log as if they did it entry by entry, and end with the
\* first EOF marker.
THEOREM DeliveryRefinement == Spec => ImplementsDelivery
<1>1. Init => Delivery!Init
  BY DEF Init, Delivery!Init, Shown, State, Serving
<1> QED BY LogStreamInvariance, <1>1, DeliveryStep, PTL
        DEF Spec, ImplementsDelivery, Delivery!Spec
=============================================================================
