--------------------------- MODULE PipelineProofs ---------------------------
(***************************************************************************)
(* Proofs about Pipeline, for any calls, streams, reads, number of shards  *)
(* and room in a channel: get_record finds what belongs together while     *)
(* calls come one after the other, and a stream sees every row.  After     *)
(* them come proofs about the two logs a pipeline writes to, the           *)
(* WalManager of its rows and the LogWal of its log entries.               *)
(*                                                                         *)
(* The invariant has two halves.  Rows says of the three places which      *)
(* calls have a row in each and that it carries their index: that the      *)
(* place of an input is its index is the hypothesis of the first theorem,  *)
(* that no other call's output has this index follows from Rows.  SInv     *)
(* says of a stream what its channel and its client hold when another      *)
(* call's callbacks are half made: all since it was accepted, but for the  *)
(* row of the call that holds the lock if that is still to be sent.  For   *)
(* that it must be listed once, and before it is accepted not at all.      *)
(***************************************************************************)
EXTENDS Pipeline, WalManager, LogWal, FiniteSetTheorems, SequenceTheorems,
        WellFoundedInduction, TLAPS

USE PipelineAssumption

\* The records of the variables.
CallRecords == [pc : CallPcs, entry : {"call", "call_session"}, index : Indices,
                ok : BOOLEAN, todo : Seq(Streams)]
RowRecords == [index : Indices, of : Calls]
LogRecords == [of : Calls, ok : BOOLEAN]

\* What the calls and the rows they are given have for values.
CallTypes ==
    /\ call \in [Calls -> CallRecords]
    /\ shard \in [Shards -> Calls \cup {Nobody}]
    /\ inputs \in Seq(RowRecords)
    /\ outputs \in Seq(RowRecords)
    /\ log \in Seq(LogRecords)

\* The calls that have pushed an input, stored an output, been logged.
Pushed == {c \in Calls : call[c].pc \notin {"new", "indexed"}}
Stored == {c \in Calls : call[c].pc \in {"stored", "done"} /\ call[c].ok}
Done == {c \in Calls : call[c].pc = "done"}

\* There is a row of each of these calls, and no other.
OneEach(rows, who) ==
    /\ \A k \in 1..Len(rows) : rows[k].of \in who
    /\ \A j, k \in 1..Len(rows) : rows[j].of = rows[k].of => j = k
    /\ \A c \in who : \E k \in 1..Len(rows) : rows[k].of = c
    /\ Len(rows) = Cardinality(who)

\* A row has the index of its call.
Indexed(rows) == \A k \in 1..Len(rows) : rows[k].index = call[rows[k].of].index

\* The three places agree with the calls on what was pushed and how it went.
Rows ==
    /\ OneEach(inputs, Pushed) /\ OneEach(outputs, Stored) /\ OneEach(log, Done)
    /\ Indexed(inputs) /\ Indexed(outputs)
    /\ \A k \in 1..Len(log) : log[k].ok = call[log[k].of].ok
    /\ \A c \in Calls : call[c].pc \in {"ran", "calling", "called"} => call[c].ok

\* A row of a call that had none.
LEMMA RowAdded ==
    ASSUME NEW S, NEW rows \in Seq(S), NEW e \in S, NEW who, IsFiniteSet(who), NEW c,
           e.of = c, c \notin who, OneEach(rows, who)
    PROVE  OneEach(Append(rows, e), who \cup {c})
<1>1. /\ Len(Append(rows, e)) = Len(rows) + 1 /\ Len(rows) \in Nat
      /\ \A k \in 1..Len(rows) : Append(rows, e)[k] = rows[k]
      /\ Append(rows, e)[Len(rows) + 1] = e
  OBVIOUS
<1> DEFINE more == Append(rows, e)
           n == Len(rows)
<1>2. /\ Len(more) = n + 1 /\ n \in Nat /\ more[n + 1] = e
      /\ \A k \in 1..(n + 1) : k = n + 1 \/ k \in 1..n
      /\ \A k \in 1..n : more[k] = rows[k] /\ k \in 1..(n + 1) /\ k # n + 1
  BY <1>1
<1>3. Cardinality(who \cup {c}) = Cardinality(who) + 1
  BY FS_AddElement
<1>4. n = Cardinality(who)
  BY DEF OneEach
<1> HIDE DEF more, n
<1>5. /\ \A k \in 1..n : rows[k].of \in who
      /\ \A j, k \in 1..n : rows[j].of = rows[k].of => j = k
      /\ \A d \in who : \E k \in 1..n : rows[k].of = d
  BY DEF OneEach, n
<1>6. \A k \in 1..(n + 1) : more[k].of \in who \cup {c}
  BY <1>2, <1>5
<1>7. \A j, k \in 1..(n + 1) : more[j].of = more[k].of => j = k
  BY <1>2, <1>5
<1>8. \A d \in who \cup {c} : \E k \in 1..(n + 1) : more[k].of = d
  <2>1. n + 1 \in 1..(n + 1)
    BY <1>2
  <2> QED
    BY <1>2, <1>5, <2>1
<1> QED
  BY <1>2, <1>3, <1>4, <1>6, <1>7, <1>8 DEF OneEach, more

\* As many rows as calls that pushed one: the next index is one of Indices.
LEMMA NextIndex ==
    ASSUME CallTypes, Rows, NEW c \in Calls, c \notin Pushed
    PROVE  Len(inputs) \in Indices /\ 0 \in Indices
<1>1. Pushed \subseteq Calls \ {c} /\ IsFiniteSet(Calls) /\ IsFiniteSet(Calls \ {c})
  BY FS_RemoveElement DEF Pushed
<1>2. Cardinality(Calls \ {c}) = Cardinality(Calls) - 1 /\ Cardinality(Calls) \in Nat
  BY <1>1, FS_RemoveElement, FS_CardinalityType
<1>3. Cardinality(Pushed) <= Cardinality(Calls \ {c}) /\ Cardinality(Pushed) \in Nat
  BY <1>1, FS_Subset, FS_CardinalityType
<1>4. Len(inputs) = Cardinality(Pushed)
  BY DEF Rows, OneEach
<1> QED
  BY <1>2, <1>3, <1>4 DEF Indices

\* A step of a call that pushes nothing.
LEMMA QuietRows ==
    ASSUME CallTypes, Rows, NEW c \in Calls, UNCHANGED <<inputs, outputs, log>>,
           \A d \in Calls : d # c => call'[d] = call[d],
           c \in Pushed => c \in Pushed' /\ call'[c].index = call[c].index,
           c \notin Pushed => c \notin Pushed',
           c \in Stored <=> c \in Stored', c \in Done <=> c \in Done',
           c \in Done => call'[c].ok = call[c].ok,
           call'[c].pc \in {"ran", "calling", "called"} => call'[c].ok
    PROVE  Rows'
<1>1. Pushed' = Pushed /\ Stored' = Stored /\ Done' = Done
  BY DEF Pushed, Stored, Done
<1>2. OneEach(inputs, Pushed)' /\ OneEach(outputs, Stored)' /\ OneEach(log, Done)'
  <2>1. OneEach(inputs, Pushed) /\ OneEach(outputs, Stored) /\ OneEach(log, Done)
    BY DEF Rows
  <2> QED
    BY SMTT(30), <1>1, <2>1 DEF OneEach
<1>3. \A d \in Pushed : call'[d].index = call[d].index
  BY DEF Pushed
<1>4. /\ \A k \in 1..Len(inputs) : inputs[k].of \in Pushed
      /\ \A k \in 1..Len(outputs) : outputs[k].of \in Pushed
      /\ \A k \in 1..Len(log) : log[k].of \in Done
  BY DEF Rows, OneEach, Stored, Pushed
<1>5. Indexed(inputs)' /\ Indexed(outputs)'
  BY SMTT(30), <1>3, <1>4 DEF Rows, Indexed
<1>6. \A d \in Done : call'[d].ok = call[d].ok
  BY DEF Done
<1>7. \A k \in 1..Len(log) : log'[k].ok = call'[log'[k].of].ok
  BY <1>4, <1>6 DEF Rows
<1>8. \A d \in Calls : call'[d].pc \in {"ran", "calling", "called"} => call'[d].ok
  BY DEF Rows
<1> QED
  BY <1>2, <1>5, <1>7, <1>8 DEF Rows

\* A step of a call leaves it with a record of its type.
LEMMA CallSteps ==
    ASSUME CallTypes, Rows, callbacks \in Seq(Streams), NEW c \in Calls,
           \/ TakeIndex(c) \/ PushInput(c) \/ LockShard(c) \/ ModuleReturns(c) \/ LockCallbacks(c)
           \/ Callback(c) \/ CallbacksDone(c) \/ PushOutput(c) \/ AppendLog(c)
    PROVE  /\ call' \in [Calls -> CallRecords]
           /\ \A d \in Calls : d # c => call'[d] = call[d]
           /\ ~TakeIndex(c) => call'[c].index = call[c].index
           /\ ~ModuleReturns(c) => call'[c].ok = call[c].ok
           /\ ~TakeIndex(c) /\ ~PushInput(c) => c \in Pushed
           /\ TakeIndex(c) => call[c].pc = "new" /\ call'[c].pc = "indexed"
           /\ PushInput(c) => call[c].pc = "indexed" /\ call'[c].pc = "pushed"
           /\ LockShard(c) => call[c].pc = "pushed" /\ call'[c].pc = "running"
           /\ ModuleReturns(c) => /\ call[c].pc = "running"
                                  /\ \/ call'[c].pc = "ran" /\ call'[c].ok
                                     \/ call'[c].pc = "stored" /\ ~call'[c].ok
           /\ LockCallbacks(c) \/ Callback(c) \/ CallbacksDone(c) =>
                 /\ call[c].pc \in {"ran", "calling", "called"}
                 /\ call'[c].pc \in {"ran", "calling", "called"}
           /\ PushOutput(c) => call[c].pc = "called" /\ call'[c].pc \in {"stored", "failed"}
           /\ AppendLog(c) => call[c].pc = "stored" /\ call'[c].pc = "done"
<1>0. call[c] \in CallRecords
  BY DEF CallTypes
<1>1. CASE TakeIndex(c)
  <2> DEFINE i == IF call[c].entry = "call" THEN Len(inputs) ELSE 0
             r == [call[c] EXCEPT !.pc = "indexed", !.index = i]
  <2>1. call' = [call EXCEPT ![c] = r] /\ call[c].pc = "new"
    BY <1>1 DEF TakeIndex, CallTypes
  <2>2. i \in Indices
    BY <2>1, NextIndex DEF Pushed
  <2>3. r \in CallRecords /\ r.pc = "indexed" /\ r.ok = call[c].ok
    BY <1>0, <2>2 DEF CallRecords, CallPcs
  <2> HIDE DEF r
  <2>4. call'[c] = r /\ (\A d \in Calls : d # c => call'[d] = call[d]) /\ call' \in [Calls -> CallRecords]
    BY <2>1, <2>3 DEF CallTypes
  <2> QED
    BY <1>1, <2>1, <2>3, <2>4
    DEF PushInput, LockShard, ModuleReturns, LockCallbacks, Callback, CallbacksDone, PushOutput, AppendLog
<1>2. CASE ModuleReturns(c)
  <2>1. PICK ok \in BOOLEAN :
           call' = [call EXCEPT ![c].ok = ok, ![c].pc = IF ok THEN "ran" ELSE "stored"]
    BY <1>2 DEF ModuleReturns
  <2> DEFINE r == [call[c] EXCEPT !.ok = ok, !.pc = IF ok THEN "ran" ELSE "stored"]
  <2>2. call' = [call EXCEPT ![c] = r] /\ call[c].pc = "running"
    BY <1>2, <2>1 DEF ModuleReturns, CallTypes
  <2>3. /\ r \in CallRecords /\ r.index = call[c].index
        /\ r.ok = ok /\ r.pc = IF ok THEN "ran" ELSE "stored"
    BY <1>0 DEF CallRecords, CallPcs
  <2> HIDE DEF r
  <2>4. call'[c] = r /\ (\A d \in Calls : d # c => call'[d] = call[d]) /\ call' \in [Calls -> CallRecords]
    BY <2>2, <2>3 DEF CallTypes
  <2>5. \/ call'[c].pc = "ran" /\ call'[c].ok
        \/ call'[c].pc = "stored" /\ ~call'[c].ok
    BY <2>3, <2>4, Zenon
  <2> QED
    BY <1>2, <2>2, <2>3, <2>4, <2>5
    DEF PushInput, LockShard, TakeIndex, LockCallbacks, Callback, CallbacksDone, PushOutput, AppendLog,
        Pushed
<1>3. CASE /\ ~TakeIndex(c) /\ ~ModuleReturns(c)
  <2>1. PICK to \in CallPcs, left \in Seq(Streams) :
           /\ call' = [call EXCEPT ![c].pc = to, ![c].todo = left]
           /\ call[c].pc \notin {"new", "running"}
           /\ ~PushInput(c) => call[c].pc # "indexed"
           /\ PushInput(c) => call[c].pc = "indexed" /\ to = "pushed"
           /\ LockShard(c) => call[c].pc = "pushed" /\ to = "running"
           /\ LockCallbacks(c) \/ Callback(c) \/ CallbacksDone(c) =>
                 /\ call[c].pc \in {"ran", "calling", "called"}
                 /\ to \in {"ran", "calling", "called"}
           /\ PushOutput(c) => call[c].pc = "called" /\ to \in {"stored", "failed"}
           /\ AppendLog(c) => call[c].pc = "stored" /\ to = "done"
    <3>0. call[c].todo \in Seq(Streams) /\ call \in [Calls -> CallRecords]
      BY <1>0 DEF CallRecords, CallTypes
    <3>1. ASSUME NEW to \in CallPcs, call' = [call EXCEPT ![c].pc = to]
          PROVE  call' = [call EXCEPT ![c].pc = to, ![c].todo = call[c].todo]
      BY <1>0, <3>0, <3>1 DEF CallRecords
    <3>2. CASE LockCallbacks(c)
      BY <3>2 DEF LockCallbacks, CallPcs, PushInput, LockShard, PushOutput, AppendLog
    <3>3. CASE Callback(c)
      <4>1. /\ call' = [call EXCEPT ![c].todo = Tail(call[c].todo)] /\ call[c].pc = "calling"
            /\ call[c].todo # <<>>
        BY <3>3 DEF Callback
      <4>2. Tail(call[c].todo) \in Seq(Streams)
        BY <3>0, <4>1
      <4>3. call' = [call EXCEPT ![c].pc = "calling", ![c].todo = Tail(call[c].todo)]
        BY <1>0, <3>0, <4>1 DEF CallRecords
      <4> QED
        BY <4>1, <4>2, <4>3 DEF CallPcs, PushInput, LockShard, PushOutput, AppendLog
    <3>4. CASE PushInput(c) \/ LockShard(c) \/ CallbacksDone(c) \/ PushOutput(c) \/ AppendLog(c)
      <4>1. PICK to \in CallPcs :
           /\ call' = [call EXCEPT ![c].pc = to]
           /\ call[c].pc \notin {"new", "running"}
           /\ ~PushInput(c) => call[c].pc # "indexed"
           /\ PushInput(c) => call[c].pc = "indexed" /\ to = "pushed"
           /\ LockShard(c) => call[c].pc = "pushed" /\ to = "running"
           /\ LockCallbacks(c) \/ Callback(c) \/ CallbacksDone(c) =>
                 /\ call[c].pc \in {"ran", "calling", "called"}
                 /\ to \in {"ran", "calling", "called"}
           /\ PushOutput(c) => call[c].pc = "called" /\ to \in {"stored", "failed"}
           /\ AppendLog(c) => call[c].pc = "stored" /\ to = "done"
        <5>1. CASE PushInput(c)
          BY <5>1 DEF PushInput, LockShard, LockCallbacks, Callback, CallbacksDone, PushOutput, AppendLog, CallPcs
        <5>2. CASE LockShard(c)
          BY <5>2 DEF PushInput, LockShard, LockCallbacks, Callback, CallbacksDone, PushOutput, AppendLog, CallPcs
        <5>3. CASE CallbacksDone(c)
          BY <5>3 DEF PushInput, LockShard, LockCallbacks, Callback, CallbacksDone, PushOutput, AppendLog, CallPcs
        <5>4. CASE PushOutput(c)
          <6>1. PICK to \in {"stored", "failed"} : call' = [call EXCEPT ![c].pc = to]
            BY <5>4 DEF PushOutput
          <6> QED
            BY <5>4, <6>1 DEF PushInput, LockShard, LockCallbacks, Callback, CallbacksDone, PushOutput, AppendLog, CallPcs
        <5>5. CASE AppendLog(c)
          BY <5>5 DEF PushInput, LockShard, LockCallbacks, Callback, CallbacksDone, PushOutput, AppendLog, CallPcs
        <5> QED
          BY <3>4, <5>1, <5>2, <5>3, <5>4, <5>5
      <4> QED
        BY <3>0, <3>1, <4>1
    <3> QED
      BY <1>3, <3>2, <3>3, <3>4
  <2> DEFINE r == [call[c] EXCEPT !.pc = to, !.todo = left]
  <2>2. call' = [call EXCEPT ![c] = r]
    BY <2>1 DEF CallTypes
  <2>3. r \in CallRecords /\ r.index = call[c].index /\ r.ok = call[c].ok /\ r.pc = to
    BY <1>0 DEF CallRecords
  <2> HIDE DEF r
  <2>4. call'[c] = r /\ (\A d \in Calls : d # c => call'[d] = call[d]) /\ call' \in [Calls -> CallRecords]
    BY <2>2, <2>3 DEF CallTypes
  <2> QED
    BY <1>3, <2>1, <2>3, <2>4 DEF Pushed
<1> QED
  BY <1>1, <1>2, <1>3

\* A step of a call adds at most one row, of that call, where it had none.
LEMMA CallRows ==
    ASSUME CallTypes, Rows, callbacks \in Seq(Streams), NEW c \in Calls,
           \/ TakeIndex(c) \/ PushInput(c) \/ LockShard(c) \/ ModuleReturns(c) \/ LockCallbacks(c)
           \/ Callback(c) \/ CallbacksDone(c) \/ PushOutput(c) \/ AppendLog(c)
    PROVE  CallTypes' /\ Rows'
<1>1. /\ call' \in [Calls -> CallRecords]
      /\ \A d \in Calls : d # c => call'[d] = call[d]
  BY CallSteps
<1>2. call[c] \in CallRecords /\ call'[c] \in CallRecords
  BY <1>1 DEF CallTypes
<1>3. IsFiniteSet(Pushed) /\ IsFiniteSet(Stored) /\ IsFiniteSet(Done)
  BY FS_Subset DEF Pushed, Stored, Done
<1>4. shard' \in [Shards -> Calls \cup {Nobody}]
  BY DEF CallTypes, TakeIndex, PushInput, LockShard, ModuleReturns, LockCallbacks, Callback,
         CallbacksDone, PushOutput, AppendLog
<1>9. ASSUME \A d \in Calls : call'[d].index = call[d].index /\ call'[d].ok = call[d].ok
      PROVE  /\ inputs' = inputs => Indexed(inputs)'
             /\ outputs' = outputs => Indexed(outputs)'
             /\ log' = log => \A k \in 1..Len(log') : log'[k].ok = call'[log'[k].of].ok
  <2>1. /\ \A k \in 1..Len(inputs) : inputs[k].of \in Calls
        /\ \A k \in 1..Len(outputs) : outputs[k].of \in Calls
        /\ \A k \in 1..Len(log) : log[k].of \in Calls
    BY DEF Rows, OneEach, Pushed, Stored, Done
  <2>2. /\ Indexed(inputs) /\ Indexed(outputs)
        /\ \A k \in 1..Len(log) : log[k].ok = call[log[k].of].ok
    BY DEF Rows
  <2>3. (inputs' = inputs => Indexed(inputs)') /\ (outputs' = outputs => Indexed(outputs)')
    BY <1>9, <2>1, <2>2 DEF Indexed
  <2> QED
    BY <1>9, <2>1, <2>2, <2>3
<1>5. CASE \/ TakeIndex(c) \/ LockShard(c) \/ ModuleReturns(c) \/ LockCallbacks(c) \/ Callback(c)
           \/ CallbacksDone(c)
  <2>1. UNCHANGED <<inputs, outputs, log>>
    BY <1>5 DEF TakeIndex, LockShard, ModuleReturns, LockCallbacks, Callback, CallbacksDone
  <2>2. /\ c \in Pushed => c \in Pushed' /\ call'[c].index = call[c].index
        /\ c \notin Pushed => c \notin Pushed'
        /\ c \notin Done /\ c \notin Done' /\ c \notin Stored /\ c \notin Stored'
        /\ call'[c].pc \in {"ran", "calling", "called"} => call'[c].ok
    <3>1. CASE TakeIndex(c)
      <4>1. call[c].pc = "new" /\ call'[c].pc = "indexed"
        BY <3>1, CallSteps
      <4> QED
        BY <4>1 DEF Pushed, Stored, Done
    <3>2. CASE LockShard(c)
      <4>1. /\ call[c].pc = "pushed" /\ call'[c].pc = "running" /\ call'[c].index = call[c].index
        BY <3>2, CallSteps DEF LockShard, TakeIndex
      <4> QED
        BY <4>1 DEF Pushed, Stored, Done
    <3>3. CASE ModuleReturns(c)
      <4>1. /\ call[c].pc = "running" /\ call'[c].index = call[c].index
            /\ \/ call'[c].pc = "ran" /\ call'[c].ok
               \/ call'[c].pc = "stored" /\ ~call'[c].ok
        BY <3>3, CallSteps DEF ModuleReturns, TakeIndex
      <4> QED
        BY <4>1 DEF Pushed, Stored, Done
    <3>4. CASE LockCallbacks(c) \/ Callback(c) \/ CallbacksDone(c)
      <4>1. /\ call[c].pc \in {"ran", "calling", "called"} /\ call'[c].pc \in {"ran", "calling", "called"}
        BY <3>4, CallSteps
      <4>2. ~TakeIndex(c) /\ ~ModuleReturns(c)
        BY <4>1 DEF TakeIndex, ModuleReturns
      <4>3. call'[c].index = call[c].index /\ call'[c].ok = call[c].ok /\ call[c].ok
        BY <4>1, <4>2, CallSteps DEF Rows
      <4> QED
        BY <4>1, <4>3 DEF Pushed, Stored, Done
    <3> QED
      BY <1>5, <3>1, <3>2, <3>3, <3>4
  <2> QED
    BY <1>1, <1>4, <2>1, <2>2, QuietRows DEF CallTypes
<1>6. CASE PushInput(c)
  <2>1. /\ call[c].pc = "indexed" /\ call'[c].pc = "pushed"
        /\ call'[c].index = call[c].index /\ call'[c].ok = call[c].ok
        /\ inputs' = Append(inputs, [index |-> call[c].index, of |-> c])
        /\ UNCHANGED <<outputs, log>>
    BY <1>6, CallSteps DEF PushInput, TakeIndex, ModuleReturns
  <2>2. Pushed' = Pushed \cup {c} /\ Stored' = Stored /\ Done' = Done /\ c \notin Pushed
    BY <1>1, <2>1 DEF Pushed, Stored, Done
  <2>3. PICK e \in RowRecords : e.of = c /\ e.index = call[c].index /\ inputs' = Append(inputs, e)
    BY <1>2, <2>1 DEF RowRecords, CallRecords
  <2>4. /\ Len(inputs') = Len(inputs) + 1 /\ inputs' \in Seq(RowRecords)
        /\ \A k \in 1..Len(inputs) : inputs'[k] = inputs[k] /\ inputs[k].of \in Pushed
        /\ inputs'[Len(inputs) + 1] = e
    BY <2>3 DEF CallTypes, Rows, OneEach
  <2>5. OneEach(Append(inputs, e), Pushed \cup {c})
    BY <1>3, <2>2, <2>3, RowAdded DEF CallTypes, Rows
  <2>6. OneEach(inputs', Pushed') /\ OneEach(outputs', Stored') /\ OneEach(log', Done')
    BY <2>1, <2>2, <2>3, <2>5 DEF Rows
  <2>7. \A d \in Calls : call'[d].index = call[d].index /\ call'[d].ok = call[d].ok
    BY <1>1, <2>1
  <2>8. Indexed(inputs)'
    <3>1. ASSUME NEW k \in 1..Len(inputs') PROVE inputs'[k].index = call'[inputs'[k].of].index
      <4>1. k \in 1..Len(inputs) \/ k = Len(inputs) + 1
        BY <2>4 DEF CallTypes
      <4>2. CASE k \in 1..Len(inputs)
        BY <2>4, <2>7, <4>2 DEF Rows, Indexed, Pushed
      <4>3. CASE k = Len(inputs) + 1
        BY <2>1, <2>3, <2>4, <4>3
      <4> QED
        BY <4>1, <4>2, <4>3
    <3> QED
      BY <3>1 DEF Indexed
  <2>9. Indexed(outputs)' /\ \A k \in 1..Len(log') : log'[k].ok = call'[log'[k].of].ok
    BY <1>9, <2>1, <2>7
  <2>10. \A d \in Calls : call'[d].pc \in {"ran", "calling", "called"} => call'[d].ok
    BY <1>1, <2>1 DEF Rows
  <2> QED
    BY <1>1, <1>4, <2>1, <2>4, <2>6, <2>8, <2>9, <2>10 DEF CallTypes, Rows
<1>7. CASE PushOutput(c)
  <2>1. /\ call[c].pc = "called" /\ call[c].ok
        /\ call'[c].index = call[c].index /\ call'[c].ok = call[c].ok
        /\ \/ /\ call'[c].pc = "stored"
              /\ outputs' = Append(outputs, [index |-> call[c].index, of |-> c])
           \/ call'[c].pc = "failed" /\ outputs' = outputs
        /\ UNCHANGED <<inputs, log>>
    <3>1. /\ call[c].pc = "called" /\ UNCHANGED <<inputs, log>>
          /\ \/ /\ call' = [call EXCEPT ![c].pc = "stored"]
                /\ outputs' = Append(outputs, [index |-> call[c].index, of |-> c])
             \/ call' = [call EXCEPT ![c].pc = "failed"] /\ outputs' = outputs
      BY <1>7 DEF PushOutput
    <3>2. ~TakeIndex(c) /\ ~ModuleReturns(c) /\ call[c].ok
      BY <3>1 DEF TakeIndex, ModuleReturns, Rows
    <3>3. call'[c].index = call[c].index /\ call'[c].ok = call[c].ok
      BY <1>7, <3>2, CallSteps
    <3>4. /\ call' = [call EXCEPT ![c].pc = "stored"] => call'[c].pc = "stored"
          /\ call' = [call EXCEPT ![c].pc = "failed"] => call'[c].pc = "failed"
      BY <1>2 DEF CallTypes, CallRecords
    <3> QED
      BY <3>1, <3>2, <3>3, <3>4
  <2>2. CASE outputs' = outputs /\ call'[c].pc = "failed"
    <3>1. /\ c \in Pushed /\ c \in Pushed' /\ c \notin Stored /\ c \notin Stored'
          /\ c \notin Done /\ c \notin Done' /\ call'[c].pc \notin {"ran", "calling", "called"}
      BY <2>1, <2>2 DEF Pushed, Stored, Done
    <3> QED
      BY <1>1, <1>4, <2>1, <2>2, <3>1, QuietRows DEF CallTypes
  <2>3. CASE /\ call'[c].pc = "stored"
             /\ outputs' = Append(outputs, [index |-> call[c].index, of |-> c])
    <3>2. Pushed' = Pushed /\ Stored' = Stored \cup {c} /\ Done' = Done /\ c \notin Stored
      BY <1>1, <2>1, <2>3 DEF Pushed, Stored, Done
    <3>3. PICK e \in RowRecords : e.of = c /\ e.index = call[c].index /\ outputs' = Append(outputs, e)
      BY <1>2, <2>3 DEF RowRecords, CallRecords
    <3>4. /\ Len(outputs') = Len(outputs) + 1 /\ outputs' \in Seq(RowRecords)
          /\ \A k \in 1..Len(outputs) : outputs'[k] = outputs[k] /\ outputs[k].of \in Stored
          /\ outputs'[Len(outputs) + 1] = e
      BY <3>3 DEF CallTypes, Rows, OneEach
    <3>5. OneEach(Append(outputs, e), Stored \cup {c})
      BY <1>3, <3>2, <3>3, RowAdded DEF CallTypes, Rows
    <3>6. OneEach(inputs', Pushed') /\ OneEach(outputs', Stored') /\ OneEach(log', Done')
      BY <2>1, <3>2, <3>3, <3>5 DEF Rows
    <3>7. \A d \in Calls : call'[d].index = call[d].index /\ call'[d].ok = call[d].ok
      BY <1>1, <2>1
    <3>8. Indexed(outputs)'
      <4>1. ASSUME NEW k \in 1..Len(outputs') PROVE outputs'[k].index = call'[outputs'[k].of].index
        <5>1. k \in 1..Len(outputs) \/ k = Len(outputs) + 1
          BY <3>4 DEF CallTypes
        <5>2. CASE k \in 1..Len(outputs)
          BY <3>4, <3>7, <5>2 DEF Rows, Indexed, Stored
        <5>3. CASE k = Len(outputs) + 1
          BY <2>1, <3>3, <3>4, <5>3
        <5> QED
          BY <5>1, <5>2, <5>3
      <4> QED
        BY <4>1 DEF Indexed
    <3>9. Indexed(inputs)' /\ \A k \in 1..Len(log') : log'[k].ok = call'[log'[k].of].ok
      BY <1>9, <2>1, <3>7
    <3>10. \A d \in Calls : call'[d].pc \in {"ran", "calling", "called"} => call'[d].ok
      BY <1>1, <2>1 DEF Rows
    <3> QED
      BY <1>1, <1>4, <2>1, <3>4, <3>6, <3>8, <3>9, <3>10 DEF CallTypes, Rows
  <2> QED
    BY <2>1, <2>2, <2>3
<1>8. CASE AppendLog(c)
  <2>1. /\ call[c].pc = "stored" /\ call'[c].pc = "done"
        /\ call'[c].index = call[c].index /\ call'[c].ok = call[c].ok
        /\ log' = Append(log, [of |-> c, ok |-> call[c].ok])
        /\ UNCHANGED <<inputs, outputs>>
    BY <1>8, CallSteps DEF AppendLog, TakeIndex, ModuleReturns
  <2>2. Pushed' = Pushed /\ Stored' = Stored /\ Done' = Done \cup {c} /\ c \notin Done
    <3>1. Pushed' = Pushed /\ Done' = Done \cup {c} /\ c \notin Done
      BY <1>1, <2>1 DEF Pushed, Done
    <3>2. \A d \in Calls : call'[d].pc \in {"stored", "done"} <=> call[d].pc \in {"stored", "done"}
      BY <1>1, <2>1
    <3>3. \A d \in Calls : call'[d].ok = call[d].ok
      BY <1>1, <2>1
    <3> QED
      BY <3>1, <3>2, <3>3 DEF Stored
  <2>3. PICK e \in LogRecords : e.of = c /\ e.ok = call[c].ok /\ log' = Append(log, e)
    BY <1>2, <2>1 DEF LogRecords, CallRecords
  <2>4. /\ Len(log') = Len(log) + 1 /\ log' \in Seq(LogRecords)
        /\ \A k \in 1..Len(log) : log'[k] = log[k] /\ log[k].of \in Done
        /\ log'[Len(log) + 1] = e
    BY <2>3 DEF CallTypes, Rows, OneEach
  <2>5. OneEach(Append(log, e), Done \cup {c})
    BY <1>3, <2>2, <2>3, RowAdded DEF CallTypes, Rows
  <2>6. OneEach(inputs', Pushed') /\ OneEach(outputs', Stored') /\ OneEach(log', Done')
    BY <2>1, <2>2, <2>3, <2>5 DEF Rows
  <2>7. \A d \in Calls : call'[d].index = call[d].index /\ call'[d].ok = call[d].ok
    BY <1>1, <2>1
  <2>8. \A k \in 1..Len(log') : log'[k].ok = call'[log'[k].of].ok
    <3>1. ASSUME NEW k \in 1..Len(log') PROVE log'[k].ok = call'[log'[k].of].ok
      <4>1. k \in 1..Len(log) \/ k = Len(log) + 1
        BY <2>4 DEF CallTypes
      <4>2. CASE k \in 1..Len(log)
        BY <2>4, <2>7, <4>2 DEF Rows, Done
      <4>3. CASE k = Len(log) + 1
        BY <2>1, <2>3, <2>4, <4>3
      <4> QED
        BY <4>1, <4>2, <4>3
    <3> QED
      BY <3>1
  <2>9. Indexed(inputs)' /\ Indexed(outputs)'
    BY <1>9, <2>1, <2>7
  <2>10. \A d \in Calls : call'[d].pc \in {"ran", "calling", "called"} => call'[d].ok
    BY <1>1, <2>1 DEF Rows
  <2> QED
    BY <1>1, <1>4, <2>1, <2>4, <2>6, <2>8, <2>9, <2>10 DEF CallTypes, Rows
<1> QED
  BY <1>5, <1>6, <1>7, <1>8

-----------------------------------------------------------------------------
\* The row with an index is found where there is one.
LEMMA OnlyRow ==
    ASSUME NEW S, NEW rows \in Seq(S), NEW i, NEW k \in 1..Len(rows),
           \A j \in 1..Len(rows) : rows[j].index = i <=> j = k
    PROVE  RowOf(rows, i) = rows[k].of
<1> DEFINE IsLast(n) == rows[n].index = i /\ \A j \in (n + 1)..Len(rows) : rows[j].index # i
<1>1. IsLast(k)
  <2>1. \A j \in (k + 1)..Len(rows) : j \in 1..Len(rows) /\ j # k
    OBVIOUS
  <2> QED
    BY <2>1
<1>2. \A n \in 1..Len(rows) : IsLast(n) => n = k
  OBVIOUS
<1>3. (CHOOSE n \in 1..Len(rows) : IsLast(n)) = k
  <2> HIDE DEF IsLast
  <2> QED
    BY <1>1, <1>2
<1> QED
  BY <1>3 DEF RowOf

\* Where calls come one after the other, place and index are the same for
\* inputs and log entries, and no other call has an output with the index.
LEMMA RecordOfCall ==
    ASSUME CallTypes, Rows, OneByOne, NEW c \in Calls, call[c].pc = "done"
    PROVE  Record(call[c].index) = Own(c)
<1> DEFINE i == call[c].index
<1>1. /\ inputs \in Seq(RowRecords) /\ outputs \in Seq(RowRecords) /\ log \in Seq(LogRecords)
      /\ Len(inputs) \in Nat /\ Len(log) \in Nat /\ c \in Pushed /\ c \in Done
      /\ call[c] \in CallRecords /\ call[c].ok \in BOOLEAN
  BY DEF CallTypes, Pushed, Done, CallRecords
<1>2. PICK k \in 1..Len(inputs) : inputs[k].of = c
  BY <1>1 DEF Rows, OneEach
<1>3. /\ k \in Nat /\ i = k - 1
      /\ \A j \in 1..Len(inputs) : inputs[j].index = j - 1
      /\ \A j \in 1..Len(inputs) : inputs[j].index = i <=> j = k
  <2>1. inputs[k].index = i /\ \A j \in 1..Len(inputs) : inputs[j].index = j - 1
    BY <1>2 DEF Rows, Indexed, OneByOne
  <2> QED
    BY <1>1, <2>1
<1>4. RowOf(inputs, i) = c
  BY <1>1, <1>2, <1>3, OnlyRow
<1>5. Len(log) <= Len(inputs)
  <2>1. Done \subseteq Pushed /\ IsFiniteSet(Pushed)
    BY FS_Subset DEF Done, Pushed
  <2>2. Cardinality(Done) <= Cardinality(Pushed)
    BY <2>1, FS_Subset
  <2> QED
    BY <2>2 DEF Rows, OneEach
<1>6. k \in 1..Len(log) /\ log[k].of = c /\ log[k].ok = call[c].ok
  <2>1. PICK m \in 1..Len(log) : log[m].of = c
    BY <1>1 DEF Rows, OneEach
  <2>2. inputs[m].of = c /\ m \in 1..Len(inputs)
    BY <1>1, <1>5, <2>1 DEF OneByOne
  <2>3. m = k
    BY <1>2, <2>2 DEF Rows, OneEach
  <2> QED
    BY <2>1, <2>3 DEF Rows
<1>7. i < Len(log) /\ i + 1 = k
  BY <1>1, <1>3, <1>6
<1>8. ASSUME call[c].ok PROVE RowOf(outputs, i) = c
  <2>1. c \in Stored
    BY <1>8 DEF Stored
  <2>2. PICK m \in 1..Len(outputs) : outputs[m].of = c
    BY <2>1 DEF Rows, OneEach
  <2>3. outputs[m].index = i
    BY <2>2 DEF Rows, Indexed
  <2>4. ASSUME NEW j \in 1..Len(outputs), outputs[j].index = i PROVE j = m
    <3>1. outputs[j].of \in Stored /\ call[outputs[j].of].index = i
      BY <2>4 DEF Rows, OneEach, Indexed
    <3>2. outputs[j].of \in Pushed
      BY <3>1 DEF Stored, Pushed
    <3>3. PICK n \in 1..Len(inputs) : inputs[n].of = outputs[j].of
      BY <3>2 DEF Rows, OneEach
    <3>4. inputs[n].index = i
      BY <3>1, <3>3 DEF Rows, Indexed
    <3>5. outputs[j].of = c
      BY <1>2, <1>3, <3>3, <3>4
    <3> QED
      BY <2>2, <3>5 DEF Rows, OneEach
  <2>5. \A j \in 1..Len(outputs) : outputs[j].index = i <=> j = m
    BY <2>3, <2>4
  <2> QED
    BY <1>1, <2>2, <2>5, OnlyRow
<1>9. Record(i) = [input |-> c, log |-> c, output |-> IF call[c].ok THEN c ELSE Nobody]
  <2>1. Record(i) = [input |-> c, log |-> c,
                     output |-> IF ~call[c].ok THEN Nobody ELSE RowOf(outputs, i)]
    BY <1>4, <1>6, <1>7 DEF Record
  <2> QED
    BY <1>8, <2>1
<1> QED
  BY <1>9 DEF Own

-----------------------------------------------------------------------------
\* No element is in two places.
Once(q) == \A j, k \in 1..Len(q) : q[j] = q[k] => j = k

\* What was published after the first f rows, when one more is.
LEMMA SinceGrows ==
    ASSUME NEW S, NEW p \in Seq(S), NEW e \in S, NEW f \in Nat, f <= Len(p)
    PROVE  /\ SubSeq(Append(p, e), f + 1, Len(Append(p, e)))
                 = Append(SubSeq(p, f + 1, Len(p)), e)
           /\ f <= Len(Append(p, e))
<1> DEFINE n == Len(p)
           q == Append(p, e)
<1>1. /\ n \in Nat /\ Len(q) = n + 1 /\ q \in Seq(S)
      /\ \A k \in 1..n : q[k] = p[k] /\ p[k] \in S
      /\ q[n + 1] = e
  OBVIOUS
<1> HIDE DEF n, q
<1>2. \A k \in (f + 1)..(n + 1) : q[k] \in S
  BY <1>1
<1>3. \A k \in (f + 1)..n : p[k] \in S
  BY <1>1
<1>4. /\ SubSeq(q, f + 1, n + 1) \in Seq(S)
      /\ Len(SubSeq(q, f + 1, n + 1)) = n + 1 - f
      /\ \A k \in 1..(n + 1 - f) : SubSeq(q, f + 1, n + 1)[k] = q[k + f]
  <2>1. /\ SubSeq(q, f + 1, n + 1) \in Seq(S)
        /\ Len(SubSeq(q, f + 1, n + 1)) =
              IF f + 1 <= n + 1 THEN (n + 1) - (f + 1) + 1 ELSE 0
        /\ \A k \in 1..((n + 1) - (f + 1) + 1) : SubSeq(q, f + 1, n + 1)[k] = q[(f + 1) + k - 1]
    BY <1>1, <1>2, SubSeqProperties
  <2>2. f + 1 <= n + 1 /\ (n + 1) - (f + 1) + 1 = n + 1 - f
    BY <1>1 DEF n
  <2>3. \A k \in 1..(n + 1 - f) : (f + 1) + k - 1 = k + f
    BY <1>1
  <2> QED
    BY <2>1, <2>2, <2>3
<1>5. /\ SubSeq(p, f + 1, n) \in Seq(S) /\ Len(SubSeq(p, f + 1, n)) = n - f
      /\ \A k \in 1..(n - f) : SubSeq(p, f + 1, n)[k] = p[k + f]
  <2>1. /\ SubSeq(p, f + 1, n) \in Seq(S)
        /\ Len(SubSeq(p, f + 1, n)) = IF f + 1 <= n THEN n - (f + 1) + 1 ELSE 0
        /\ \A k \in 1..(n - (f + 1) + 1) : SubSeq(p, f + 1, n)[k] = p[(f + 1) + k - 1]
    BY <1>1, <1>3, SubSeqProperties
  <2>2. f <= n /\ n - (f + 1) + 1 = n - f
    BY <1>1 DEF n
  <2>3. \A k \in 1..(n - f) : (f + 1) + k - 1 = k + f
    BY <1>1
  <2>4. (IF f + 1 <= n THEN n - (f + 1) + 1 ELSE 0) = n - f
    BY <1>1, <2>2
  <2> QED
    BY <2>1, <2>2, <2>3, <2>4
<1> DEFINE a == SubSeq(q, f + 1, n + 1)
           b == SubSeq(p, f + 1, n)
<1>6. /\ Append(b, e) \in Seq(S) /\ Len(Append(b, e)) = n + 1 - f
      /\ \A k \in 1..(n - f) : Append(b, e)[k] = b[k]
      /\ Append(b, e)[n - f + 1] = e
  <2>1. b \in Seq(S) /\ Len(b) = n - f
    BY <1>5
  <2> HIDE DEF b
  <2>2. /\ Append(b, e) \in Seq(S) /\ Len(Append(b, e)) = Len(b) + 1
        /\ \A k \in 1..Len(b) : Append(b, e)[k] = b[k]
        /\ Append(b, e)[Len(b) + 1] = e
    BY <2>1, AppendProperties
  <2>3. n - f + 1 = n + 1 - f
    BY <1>1
  <2> QED
    BY <2>1, <2>2, <2>3
<1>7. \A k \in 1..(n + 1 - f) : a[k] = Append(b, e)[k]
  <2>1. ASSUME NEW k \in 1..(n + 1 - f) PROVE a[k] = Append(b, e)[k]
    <3>1. a[k] = q[k + f]
      BY <1>4
    <3>2. CASE k \in 1..(n - f)
      <4>1. k + f \in 1..n
        BY <1>1, <3>2
      <4> QED
        BY <1>1, <1>5, <1>6, <3>1, <3>2, <4>1
    <3>3. CASE k = n - f + 1
      <4>1. k + f = n + 1
        BY <1>1, <3>3
      <4> QED
        BY <1>1, <1>6, <3>1, <3>3, <4>1
    <3>4. f <= n
      BY DEF n
    <3> QED
      BY <1>1, <3>2, <3>3, <3>4
  <2> QED
    BY <2>1
<1>8. a = Append(b, e)
  <2>1. a \in Seq(S) /\ Append(b, e) \in Seq(S) /\ Len(a) = Len(Append(b, e)) /\ Len(a) = n + 1 - f
    BY <1>4, <1>6
  <2> HIDE DEF a, b
  <2> QED
    BY <1>7, <2>1, SeqEqual
<1>9. f <= n + 1
  BY <1>1 DEF n
<1> QED
  BY <1>1, <1>8, <1>9 DEF n, q

\* A row in the channel is one more that is seen.
LEMMA SeenGrows ==
    ASSUME NEW S, NEW got \in Seq(S), NEW chan \in Seq(S), NEW e \in S
    PROVE  got \o Append(chan, e) = Append(got \o chan, e)
<1>1. got \o chan \in Seq(S) /\ <<e>> \in Seq(S)
  BY ConcatProperties
<1>2. Append(chan, e) = chan \o <<e>> /\ Append(got \o chan, e) = (got \o chan) \o <<e>>
  BY <1>1, AppendIsConcat
<1> QED
  BY <1>1, <1>2, ConcatAssociative

\* A row that leaves the channel for the client is still seen.
LEMMA SeenMoves ==
    ASSUME NEW S, NEW got \in Seq(S), NEW chan \in Seq(S), chan # <<>>
    PROVE  /\ Append(got, Head(chan)) \o Tail(chan) = got \o chan
           /\ Append(got, Head(chan)) \in Seq(S) /\ Tail(chan) \in Seq(S)
<1> DEFINE e == Head(chan)
           t == Tail(chan)
<1>1. e \in S /\ t \in Seq(S) /\ <<e>> \in Seq(S)
  BY HeadTailProperties
<1>2. chan = <<e>> \o t
  OBVIOUS
<1>3. Append(got, e) = got \o <<e>> /\ Append(got, e) \in Seq(S)
  BY <1>1, AppendIsConcat, AppendProperties
<1> HIDE DEF e, t
<1>4. (got \o <<e>>) \o t = got \o (<<e>> \o t)
  BY <1>1, ConcatAssociative
<1> QED
  BY <1>1, <1>2, <1>3, <1>4 DEF e, t

\* The one place of an element is taken out, the others stay.
LEMMA Removed ==
    ASSUME NEW S, NEW q \in Seq(S), Once(q), NEW e
    PROVE  /\ RemoveFirst(q, e) \in Seq(S) /\ Once(RemoveFirst(q, e))
           /\ ~Contains(RemoveFirst(q, e), e)
           /\ \A t : t # e => (Contains(RemoveFirst(q, e), t) <=> Contains(q, t))
<1>1. CASE ~Contains(q, e)
  BY <1>1 DEF RemoveFirst, Contains
<1>2. CASE Contains(q, e)
  <2> DEFINE I == {i \in 1..Len(q) : q[i] = e}
             n == Len(q)
  <2>1. PICK k \in 1..n : q[k] = e
    BY <1>2 DEF Contains
  <2>2. I = {k}
    BY <2>1 DEF Once
  <2>3. SelectInSeq(q, LAMBDA v : v = e) = k
    <3>1. Min({k}) = k
      BY DEF Min
    <3>2. SelectInSeq(q, LAMBDA v : v = e) = IF I # {} THEN Min(I) ELSE 0
      BY DEF SelectInSeq
    <3> QED
      BY <2>2, <3>1, <3>2
  <2> DEFINE a == SubSeq(q, 1, k - 1)
             b == SubSeq(q, k + 1, n)
             r == a \o b
  <2>4. RemoveFirst(q, e) = r
    BY <1>2, <2>3 DEF RemoveFirst, RemoveAt, Contains
  <2>5. n \in Nat /\ \A i \in 1..n : q[i] \in S
    OBVIOUS
  <2>6. /\ a \in Seq(S) /\ Len(a) = k - 1 /\ \A i \in 1..(k - 1) : a[i] = q[i]
    OBVIOUS
  <2>7. /\ b \in Seq(S) /\ Len(b) = n - k /\ \A i \in 1..(n - k) : b[i] = q[k + i]
    OBVIOUS
  <2> HIDE DEF a, b
  <2>8. /\ r \in Seq(S) /\ Len(r) = n - 1
        /\ \A i \in 1..(n - 1) : r[i] = IF i < k THEN q[i] ELSE q[i + 1]
    <3>1. /\ r \in Seq(S) /\ Len(r) = Len(a) + Len(b)
          /\ \A i \in 1..(Len(a) + Len(b)) : r[i] = IF i <= Len(a) THEN a[i] ELSE b[i - Len(a)]
      <4>1. a \in Seq(S) /\ b \in Seq(S)
        BY <2>6, <2>7
      <4> HIDE PipelineAssumption
      <4> QED
        BY <4>1, ConcatProperties
    <3>2. Len(a) + Len(b) = n - 1
      BY <2>1, <2>5, <2>6, <2>7
    <3>3. ASSUME NEW i \in 1..(n - 1) PROVE r[i] = IF i < k THEN q[i] ELSE q[i + 1]
      <4>1. CASE i < k
        <5>1. i <= Len(a) /\ i \in 1..(k - 1)
          BY <2>1, <2>5, <2>6, <4>1
        <5> QED
          BY <2>6, <3>1, <3>2, <4>1, <5>1
      <4>2. CASE ~(i < k)
        <5>1. ~(i <= Len(a)) /\ i - Len(a) \in 1..(n - k) /\ k + (i - Len(a)) = i + 1
          BY <2>1, <2>5, <2>6, <4>2
        <5> QED
          BY <2>7, <3>1, <3>2, <4>2, <5>1
      <4> QED
        BY <4>1, <4>2
    <3> QED
      BY <3>1, <3>2, <3>3
  <2> HIDE DEF r, n
  <2>9. \A i, j \in 1..n : q[i] = q[j] => i = j
    BY DEF Once, n
  <2>10. \A i, j \in 1..(n - 1) : r[i] = r[j] => i = j
    <3>1. ASSUME NEW i \in 1..(n - 1), NEW j \in 1..(n - 1), r[i] = r[j] PROVE i = j
      <4>1. q[IF i < k THEN i ELSE i + 1] = q[IF j < k THEN j ELSE j + 1]
        BY <2>8, <3>1
      <4>2. (IF i < k THEN i ELSE i + 1) = (IF j < k THEN j ELSE j + 1)
        <5>1. (IF i < k THEN i ELSE i + 1) \in 1..n /\ (IF j < k THEN j ELSE j + 1) \in 1..n
          BY <2>1, <2>5
        <5> QED
          BY <2>9, <4>1, <5>1
      <4> QED
        BY <2>1, <2>5, <4>2
    <3> QED
      BY <3>1
  <2>11. \A i \in 1..(n - 1) : r[i] # e
    <3>1. ASSUME NEW i \in 1..(n - 1) PROVE r[i] # e
      <4>1. i + 1 \in 1..n /\ i \in 1..n
        BY <2>5
      <4>2. r[i] = IF i < k THEN q[i] ELSE q[i + 1]
        BY <2>8
      <4> QED
        BY <2>1, <2>9, <4>1, <4>2
    <3> QED
      BY <3>1
  <2>12. ASSUME NEW t, t # e
         PROVE  (\E i \in 1..(n - 1) : r[i] = t) <=> (\E i \in 1..n : q[i] = t)
    <3>1. ASSUME NEW i \in 1..(n - 1), r[i] = t PROVE \E j \in 1..n : q[j] = t
      <4>1. i + 1 \in 1..n /\ i \in 1..n
        BY <2>5
      <4> QED
        BY <2>8, <3>1, <4>1
    <3>2. ASSUME NEW i \in 1..n, q[i] = t PROVE \E j \in 1..(n - 1) : r[j] = t
      <4>1. i # k
        BY <2>1, <2>12, <3>2
      <4>2. CASE i < k
        <5>1. i \in 1..(n - 1)
          BY <2>1, <2>5, <4>2
        <5> QED
          BY <2>8, <3>2, <4>2, <5>1
      <4>3. CASE i > k
        <5>1. i - 1 \in 1..(n - 1) /\ ~(i - 1 < k) /\ (i - 1) + 1 = i
          BY <2>1, <2>5, <4>3
        <5> QED
          BY <2>8, <3>2, <5>1
      <4> QED
        BY <2>1, <2>5, <4>1, <4>2, <4>3
    <3> QED
      BY <3>1, <3>2
  <2>13. Once(r) /\ ~Contains(r, e) /\ \A t : t # e => (Contains(r, t) <=> Contains(q, t))
    <3>1. Once(r) /\ ~Contains(r, e)
      BY <2>8, <2>10, <2>11 DEF Once, Contains
    <3> QED
      BY <2>8, <2>12, <3>1 DEF Contains, n
  <2> QED
    BY <2>4, <2>8, <2>13
<1> QED
  BY <1>1, <1>2

-----------------------------------------------------------------------------
\* The record of a stream.
StreamRecords == [pc : StreamPcs, chan : Seq(Calls), got : Seq(Calls), from : Nat,
                  linked : BOOLEAN]

\* What the streams and the daemon's parts have for values.
StreamTypes ==
    /\ callbacks \in Seq(Streams)
    /\ callbacksLock \in Calls \cup {Nobody}
    /\ stream \in [Streams -> StreamRecords]
    /\ workersLock \in Streams \cup Reads \cup {Nobody}
    /\ worker \in {"up", "stopped", "dropped"}
    /\ read \in [Reads -> {"new", "reading", "done"}]
    /\ published \in Seq(Calls)

\* Who is where its lock is needed holds it; only its holder has callbacks to
\* make; a worker stays while streams hold the lock, and is dropped after calls.
Locking ==
    /\ \A c \in Calls : /\ (call[c].pc = "calling") <=> (callbacksLock = c)
                        /\ call[c].pc # "calling" => call[c].todo = <<>>
    /\ \A s \in Streams : stream[s].pc \in {"locked", "cleaning"} => workersLock = s /\ worker = "up"
    /\ \A r \in Reads : read[r] = "reading" => workersLock = r
    /\ worker = "dropped" => /\ callbacks = <<>>
                             /\ \A c \in Calls : call[c].pc \in {"new", "done", "failed"}

\* A stream whose callback is registered; a row it is about to be sent; what it
\* has, in its channel and at its client; what there was since it was accepted.
Accepted(s) == stream[s].pc \in {"registered", "streaming"}
Owed(s) == \E c \in Calls : Contains(call[c].todo, s)
Seen(s) == stream[s].got \o stream[s].chan
Since(s) == SubSeq(published, stream[s].from + 1, Len(published))

\* A stream is among the callbacks once, from when it is accepted.
Listed ==
    /\ Once(callbacks) /\ \A c \in Calls : Once(call[c].todo)
    /\ \A s \in Streams : stream[s].pc \in {"new", "locked"} =>
           /\ ~Contains(callbacks, s) /\ ~Owed(s)
           /\ stream[s].got = <<>> /\ stream[s].chan = <<>>
    /\ \A s \in Streams : Accepted(s) /\ worker # "dropped" => Contains(callbacks, s)

\* A stream has seen all it should, save the row it is owed.
Complete ==
    \A s \in Streams : Accepted(s) =>
        /\ stream[s].from <= Len(published)
        /\ Since(s) = IF Owed(s) THEN Append(Seen(s), callbacksLock) ELSE Seen(s)

\* What holds of the streams, together.
SInv == StreamTypes /\ Locking /\ Listed /\ Complete

\* A step of a call that leaves callbacks and streams alone.
LEMMA QuietCall ==
    ASSUME SInv, UNCHANGED <<streamVars, daemonVars>>,
           \A c \in Calls : /\ call'[c].todo = call[c].todo
                            /\ (call'[c].pc = "calling") <=> (call[c].pc = "calling"),
           worker = "dropped" => \A c \in Calls : call'[c].pc \in {"new", "done", "failed"}
    PROVE  SInv'
<1>1. UNCHANGED <<callbacks, callbacksLock, stream, published, workersLock, worker, read>>
  BY DEF streamVars, daemonVars
<1>2. StreamTypes'
  BY <1>1 DEF SInv, StreamTypes
<1>3. Locking'
  BY <1>1 DEF SInv, Locking
<1>4. \A s \in Streams : Owed(s)' <=> Owed(s)
  BY DEF Owed, Contains
<1>5. Listed'
  <2>1. Once(callbacks)' /\ \A c \in Calls : Once(call'[c].todo)
    BY <1>1 DEF SInv, Listed, Once
  <2>2. \A s \in Streams : stream[s].pc \in {"new", "locked"} =>
           /\ ~Contains(callbacks, s) /\ ~Owed(s)'
           /\ stream[s].got = <<>> /\ stream[s].chan = <<>>
    BY <1>4 DEF SInv, Listed
  <2> QED
    BY <1>1, <2>1, <2>2 DEF SInv, Listed, Accepted, Once
<1>6. Complete'
  BY <1>1, <1>4 DEF SInv, Complete, Accepted, Seen, Since
<1> QED
  BY <1>2, <1>3, <1>5, <1>6 DEF SInv

\* Nobody is owed a row while the lock is free.
LEMMA NothingOwed ==
    ASSUME SInv, callbacksLock = Nobody
    PROVE  \A c \in Calls : call[c].pc # "calling" /\ call[c].todo = <<>>
BY DEF SInv, Locking

\* The row of a call is published: every stream that was accepted is owed it.
LEMMA PublishStreaming ==
    ASSUME CallTypes, SInv, NEW c \in Calls, LockCallbacks(c)
    PROVE  SInv'
<1>1. /\ call[c].pc = "ran" /\ callbacksLock = Nobody /\ callbacksLock' = c
      /\ call' = [call EXCEPT ![c].pc = "calling", ![c].todo = callbacks]
      /\ published' = Append(published, c)
      /\ UNCHANGED <<callbacks, stream, workersLock, worker, read>>
  BY DEF LockCallbacks, daemonVars
<1>2. /\ call \in [Calls -> CallRecords] /\ callbacks \in Seq(Streams) /\ published \in Seq(Calls)
  BY DEF CallTypes, SInv, StreamTypes
<1>3. /\ call'[c].pc = "calling" /\ call'[c].todo = callbacks
      /\ \A d \in Calls : d # c => call'[d] = call[d] /\ call[d].pc # "calling" /\ call[d].todo = <<>>
      /\ \A d \in Calls : call[d].todo = <<>>
  BY <1>1, <1>2, NothingOwed DEF CallRecords
<1>4. worker # "dropped"
  BY <1>1 DEF SInv, Locking
<1>5. StreamTypes'
  BY <1>1, <1>2 DEF SInv, StreamTypes
<1>6. Locking'
  BY <1>1, <1>3, <1>4 DEF SInv, Locking
<1>7. \A s \in Streams : ~Owed(s) /\ (Owed(s)' <=> Contains(callbacks, s))
  <2>1. \A s \in Streams : ~Contains(<<>>, s)
    BY DEF Contains
  <2> QED
    BY <1>3, <2>1 DEF Owed
<1>8. Listed'
  <2>1. Once(callbacks) /\ Once(<<>>)
    BY DEF SInv, Listed, Once
  <2>2. \A d \in Calls : Once(call'[d].todo)
    BY <1>3, <2>1
  <2>3. \A s \in Streams : stream[s].pc \in {"new", "locked"} =>
           /\ ~Contains(callbacks, s) /\ ~Owed(s)'
           /\ stream[s].got = <<>> /\ stream[s].chan = <<>>
    BY <1>7 DEF SInv, Listed
  <2> QED
    BY <1>1, <2>1, <2>2, <2>3 DEF SInv, Listed, Accepted
<1>9. Complete'
  <2>1. ASSUME NEW s \in Streams, Accepted(s)
        PROVE  /\ stream[s].from <= Len(published') /\ Owed(s)'
               /\ SubSeq(published', stream[s].from + 1, Len(published')) = Append(Seen(s), c)
    <3>1. Owed(s)' /\ Since(s) = Seen(s) /\ stream[s].from <= Len(published)
      BY <1>4, <1>7, <2>1 DEF SInv, Listed, Complete
    <3>2. stream[s].from \in Nat
      BY DEF SInv, StreamTypes, StreamRecords
    <3>3. /\ SubSeq(Append(published, c), stream[s].from + 1, Len(Append(published, c)))
                = Append(SubSeq(published, stream[s].from + 1, Len(published)), c)
          /\ stream[s].from <= Len(Append(published, c))
      BY <1>2, <3>1, <3>2, SinceGrows
    <3> QED
      BY <1>1, <3>1, <3>3 DEF Since
  <2> QED
    BY <1>1, <2>1 DEF Complete, Accepted, Seen, Since
<1> QED
  BY <1>5, <1>6, <1>8, <1>9 DEF SInv

\* A row goes to one of the streams that are owed it.
LEMMA CallbackStreaming ==
    ASSUME CallTypes, SInv, NEW c \in Calls, Callback(c)
    PROVE  SInv'
<1> DEFINE q == call[c].todo
<1>1. /\ call[c].pc = "calling" /\ q # <<>> /\ callbacksLock = c
      /\ call' = [call EXCEPT ![c].todo = Tail(q)]
      /\ UNCHANGED <<callbacks, callbacksLock, published, workersLock, worker, read>>
  BY DEF Callback, daemonVars, SInv, Locking
<1>2. /\ call \in [Calls -> CallRecords] /\ stream \in [Streams -> StreamRecords]
      /\ q \in Seq(Streams) /\ call[c] \in CallRecords
  BY DEF CallTypes, CallRecords, SInv, StreamTypes
<1>3. PICK s \in Streams :
         /\ s = Head(q)
         /\ \/ stream[s].pc = "gone" /\ stream' = stream
            \/ stream' = [stream EXCEPT ![s].chan = Append(stream[s].chan, c)]
  <2>1. PICK s \in Streams : s = Head(q)
    BY <1>1, <1>2
  <2>2. \/ stream[s].pc = "gone" /\ stream' = stream
        \/ stream' = [stream EXCEPT ![s].chan = Append(stream[s].chan, c)]
    BY <2>1 DEF Callback
  <2> QED
    BY <2>1, <2>2
<1>4. stream[s].chan \in Seq(Calls) /\ stream[s].got \in Seq(Calls) /\ stream[s] \in StreamRecords
  BY <1>2 DEF StreamRecords
<1>5. PICK r \in StreamRecords :
         /\ stream' = [stream EXCEPT ![s] = r]
         /\ r.pc = stream[s].pc /\ r.got = stream[s].got /\ r.from = stream[s].from
         /\ r.pc # "gone" => r.chan = Append(stream[s].chan, c)
  <2>1. Append(stream[s].chan, c) \in Seq(Calls)
    BY <1>4
  <2>2. [stream[s] EXCEPT !.chan = Append(stream[s].chan, c)] \in StreamRecords
    BY <1>4, <2>1 DEF StreamRecords
  <2>3. CASE stream[s].pc = "gone" /\ stream' = stream
    BY <1>2, <1>4, <2>3
  <2>4. CASE stream' = [stream EXCEPT ![s].chan = Append(stream[s].chan, c)]
    <3> DEFINE r == [stream[s] EXCEPT !.chan = Append(stream[s].chan, c)]
    <3>1. stream' = [stream EXCEPT ![s] = r]
      BY <1>2, <2>4
    <3>2. r.pc = stream[s].pc /\ r.got = stream[s].got /\ r.from = stream[s].from
          /\ r.chan = Append(stream[s].chan, c)
      BY <1>4 DEF StreamRecords
    <3> HIDE DEF r
    <3> QED
      BY <2>2, <3>1, <3>2 DEF r
  <2> QED
    BY <1>3, <2>3, <2>4
<1>6. /\ stream' \in [Streams -> StreamRecords] /\ stream'[s] = r
      /\ \A t \in Streams : t # s => stream'[t] = stream[t]
  BY <1>2, <1>5
<1>7. /\ call'[c].todo = Tail(q) /\ \A d \in Calls : call'[d].pc = call[d].pc
      /\ \A d \in Calls : d # c => call'[d].todo = call[d].todo /\ call[d].todo = <<>>
  <2>1. \A d \in Calls : d # c => call[d].pc # "calling"
    BY <1>1 DEF SInv, Locking
  <2>2. \A d \in Calls : d # c => call[d].todo = <<>>
    BY <2>1 DEF SInv, Locking
  <2> QED
    BY <1>1, <1>2, <2>2 DEF CallRecords
<1>8. /\ Once(q) /\ Once(Tail(q)) /\ Contains(q, s) /\ ~Contains(Tail(q), s)
      /\ \A t \in Streams : t # s => (Contains(Tail(q), t) <=> Contains(q, t))
  <2>1. Once(q)
    BY DEF SInv, Listed
  <2>2. /\ Len(q) \in Nat /\ Len(q) >= 1 /\ q[1] = s /\ Len(Tail(q)) = Len(q) - 1
        /\ \A k \in 1..(Len(q) - 1) : Tail(q)[k] = q[k + 1]
    BY <1>1, <1>2, <1>3
  <2>3. \A k \in 1..(Len(q) - 1) : k + 1 \in 1..Len(q) /\ k \in 1..Len(q) /\ k + 1 # 1
    BY <2>2
  <2>4. Once(Tail(q)) /\ Contains(q, s) /\ ~Contains(Tail(q), s)
    BY <2>1, <2>2, <2>3 DEF Once, Contains
  <2>5. ASSUME NEW t \in Streams, t # s PROVE Contains(Tail(q), t) <=> Contains(q, t)
    <3>1. ASSUME NEW k \in 1..Len(q), q[k] = t PROVE \E j \in 1..(Len(q) - 1) : Tail(q)[j] = t
      <4>1. k - 1 \in 1..(Len(q) - 1) /\ (k - 1) + 1 = k
        BY <2>2, <2>5, <3>1
      <4> QED
        BY <2>2, <3>1, <4>1
    <3> QED
      BY <2>2, <2>3, <3>1 DEF Contains
  <2> QED
    BY <2>1, <2>4, <2>5
<1>9. /\ Owed(s) /\ ~Owed(s)'
      /\ \A t \in Streams : t # s => (Owed(t)' <=> Owed(t))
  <2>1. \A t \in Streams : ~Contains(<<>>, t)
    BY DEF Contains
  <2>2. \A t \in Streams : Owed(t) <=> Contains(q, t)
    BY <1>7, <2>1 DEF Owed
  <2>3. \A t \in Streams : Owed(t)' <=> Contains(Tail(q), t)
    BY <1>7, <2>1 DEF Owed
  <2> QED
    BY <1>8, <2>2, <2>3
<1>10. StreamTypes'
  BY <1>1, <1>6 DEF SInv, StreamTypes
<1>11. Locking'
  <2>1. \A d \in Calls : call'[d].pc # "calling" => call'[d].todo = <<>>
    BY <1>1, <1>7
  <2>2. \A t \in Streams : stream'[t].pc = stream[t].pc
    BY <1>5, <1>6
  <2> QED
    BY <1>1, <1>7, <2>1, <2>2 DEF SInv, Locking
<1>12. stream[s].pc \notin {"new", "locked"}
  BY <1>9 DEF SInv, Listed
<1>13. Listed'
  <2>1. \A d \in Calls : Once(call'[d].todo)
    BY <1>7, <1>8 DEF SInv, Listed
  <2>2. ASSUME NEW t \in Streams, stream'[t].pc \in {"new", "locked"}
        PROVE  /\ ~Contains(callbacks, t) /\ ~Owed(t)'
               /\ stream'[t].got = <<>> /\ stream'[t].chan = <<>>
    <3>1. t # s
      BY <1>5, <1>6, <1>12, <2>2
    <3> QED
      BY <1>6, <1>9, <2>2, <3>1 DEF SInv, Listed
  <2>3. \A t \in Streams : Accepted(t)' => Accepted(t)
    BY <1>5, <1>6 DEF Accepted
  <2> QED
    BY <1>1, <2>1, <2>2, <2>3 DEF SInv, Listed, Once
<1>14. Complete'
  <2>1. ASSUME NEW t \in Streams, Accepted(t)'
        PROVE  /\ stream'[t].from <= Len(published)
               /\ SubSeq(published, stream'[t].from + 1, Len(published)) =
                     IF Owed(t)' THEN Append(stream'[t].got \o stream'[t].chan, callbacksLock)
                                 ELSE stream'[t].got \o stream'[t].chan
    <3>1. CASE t = s
      <4>1. Accepted(s) /\ r.pc # "gone"
        BY <1>5, <1>6, <2>1, <3>1 DEF Accepted
      <4>2. stream[s].from <= Len(published) /\ Since(s) = Append(stream[s].got \o stream[s].chan, c)
        <5>1. /\ stream[s].from <= Len(published)
              /\ Owed(s) => Since(s) = Append(Seen(s), callbacksLock)
          BY <4>1 DEF SInv, Complete
        <5> QED
          BY <1>1, <1>9, <5>1 DEF Seen
      <4>3. stream[s].got \o Append(stream[s].chan, c) = Append(stream[s].got \o stream[s].chan, c)
        <5>1. PICK g \in Seq(Calls), h \in Seq(Calls) : g = stream[s].got /\ h = stream[s].chan
          BY <1>4
        <5>2. g \o Append(h, c) = Append(g \o h, c)
          BY SeenGrows
        <5> QED
          BY <5>1, <5>2, Zenon
      <4>4. /\ stream'[s].from = stream[s].from /\ stream'[s].got = stream[s].got
            /\ stream'[s].chan = Append(stream[s].chan, c)
        BY <1>5, <1>6, <4>1
      <4> QED
        BY <1>9, <3>1, <4>2, <4>3, <4>4 DEF Since
    <3>2. CASE t # s
      <4>1. stream'[t] = stream[t] /\ Accepted(t) /\ (Owed(t)' <=> Owed(t))
        BY <1>6, <1>9, <2>1, <3>2 DEF Accepted
      <4>2. /\ stream[t].from <= Len(published)
            /\ SubSeq(published, stream[t].from + 1, Len(published)) =
                  IF Owed(t) THEN Append(stream[t].got \o stream[t].chan, callbacksLock)
                             ELSE stream[t].got \o stream[t].chan
        BY <4>1 DEF SInv, Complete, Seen, Since
      <4> QED
        BY <4>1, <4>2, Zenon
    <3> QED
      BY <3>1, <3>2
  <2> QED
    BY <1>1, <2>1 DEF Complete, Seen, Since
<1> QED
  BY <1>10, <1>11, <1>13, <1>14 DEF SInv

\* All streams have the row: nothing is owed when the lock is given back.
LEMMA DoneStreaming ==
    ASSUME CallTypes, SInv, NEW c \in Calls, CallbacksDone(c)
    PROVE  SInv'
<1>1. /\ call[c].pc = "calling" /\ call[c].todo = <<>> /\ callbacksLock = c /\ callbacksLock' = Nobody
      /\ call' = [call EXCEPT ![c].pc = "called"]
      /\ UNCHANGED <<callbacks, stream, published, workersLock, worker, read>>
  BY DEF CallbacksDone, daemonVars, SInv, Locking
<1>2. /\ call \in [Calls -> CallRecords] /\ Nobody \notin Calls
  BY DEF CallTypes
<1>3. /\ call'[c].pc = "called" /\ \A d \in Calls : call'[d].todo = <<>> /\ call[d].todo = <<>>
      /\ \A d \in Calls : d # c => call'[d] = call[d] /\ call[d].pc # "calling"
  <2>1. \A d \in Calls : d # c => call[d].pc # "calling"
    BY <1>1 DEF SInv, Locking
  <2>2. \A d \in Calls : d # c => call[d].todo = <<>>
    BY <2>1 DEF SInv, Locking
  <2> QED
    BY <1>1, <1>2, <2>1, <2>2 DEF CallRecords
<1>4. StreamTypes'
  BY <1>1 DEF SInv, StreamTypes
<1>5. Locking'
  <2>1. worker # "dropped"
    BY <1>1 DEF SInv, Locking
  <2> QED
    BY <1>1, <1>2, <1>3, <2>1 DEF SInv, Locking
<1>6. \A s \in Streams : ~Owed(s) /\ ~Owed(s)'
  BY <1>3 DEF Owed, Contains
<1>7. Listed'
  <2>1. \A d \in Calls : Once(call'[d].todo)
    BY <1>3 DEF Once
  <2>2. \A s \in Streams : stream[s].pc \in {"new", "locked"} =>
           /\ ~Contains(callbacks, s) /\ ~Owed(s)'
           /\ stream[s].got = <<>> /\ stream[s].chan = <<>>
    BY <1>6 DEF SInv, Listed
  <2> QED
    BY <1>1, <2>1, <2>2 DEF SInv, Listed, Accepted, Once
<1>8. Complete'
  BY <1>1, <1>6 DEF SInv, Complete, Accepted, Seen, Since
<1> QED
  BY <1>4, <1>5, <1>7, <1>8 DEF SInv

\* The steps of a call that leave the streams alone, and those that do not.
LEMMA CallStreaming ==
    ASSUME CallTypes, Rows, SInv, NEW c \in Calls,
           \/ TakeIndex(c) \/ PushInput(c) \/ LockShard(c) \/ ModuleReturns(c) \/ LockCallbacks(c)
           \/ Callback(c) \/ CallbacksDone(c) \/ PushOutput(c) \/ AppendLog(c)
    PROVE  SInv'
<1>1. CASE LockCallbacks(c) \/ Callback(c) \/ CallbacksDone(c)
  BY <1>1, PublishStreaming, CallbackStreaming, DoneStreaming
<1>2. CASE \/ TakeIndex(c) \/ PushInput(c) \/ LockShard(c) \/ ModuleReturns(c) \/ PushOutput(c)
           \/ AppendLog(c)
  <2>1. UNCHANGED <<streamVars, daemonVars>>
    BY <1>2 DEF TakeIndex, PushInput, LockShard, ModuleReturns, PushOutput, AppendLog
  <2>2. callbacks \in Seq(Streams) /\ call \in [Calls -> CallRecords]
    BY DEF SInv, StreamTypes, CallTypes
  <2>3. /\ \A d \in Calls : d # c => call'[d] = call[d]
        /\ call[c].pc # "calling" /\ call'[c].pc # "calling"
    <3>1. /\ TakeIndex(c) => call[c].pc = "new" /\ call'[c].pc = "indexed"
          /\ PushInput(c) => call[c].pc = "indexed" /\ call'[c].pc = "pushed"
          /\ LockShard(c) => call[c].pc = "pushed" /\ call'[c].pc = "running"
          /\ ModuleReturns(c) => call[c].pc = "running" /\ call'[c].pc \in {"ran", "stored"}
          /\ PushOutput(c) => call[c].pc = "called" /\ call'[c].pc \in {"stored", "failed"}
          /\ AppendLog(c) => call[c].pc = "stored" /\ call'[c].pc = "done"
          /\ \A d \in Calls : d # c => call'[d] = call[d]
      BY <1>2, <2>2, CallSteps
    <3> QED
      BY <1>2, <3>1
  <2>4. call'[c].todo = call[c].todo
    <3>1. CASE TakeIndex(c)
      BY <2>2, <3>1 DEF TakeIndex, CallRecords
    <3>2. CASE ModuleReturns(c)
      <4>1. PICK ok \in BOOLEAN, to \in {"ran", "stored"} :
               call' = [call EXCEPT ![c].ok = ok, ![c].pc = to]
        BY <3>2 DEF ModuleReturns
      <4>2. PICK q : q = [call[c] EXCEPT !.ok = ok, !.pc = to]
        OBVIOUS
      <4>3. call' = [call EXCEPT ![c] = q]
        BY <2>2, <4>1, <4>2
      <4>4. call'[c] = q
        BY <2>2, <4>3
      <4>5. q.todo = call[c].todo
        BY <2>2, <4>2 DEF CallRecords
      <4> QED
        BY <4>4, <4>5
    <3>3. CASE PushInput(c) \/ LockShard(c) \/ PushOutput(c) \/ AppendLog(c)
      <4>1. PICK to \in {"pushed", "running", "stored", "failed", "done"} :
               call' = [call EXCEPT ![c].pc = to]
        BY <3>3 DEF PushInput, LockShard, PushOutput, AppendLog
      <4> QED
        BY <2>2, <4>1 DEF CallRecords
    <3> QED
      BY <1>2, <3>1, <3>2, <3>3
  <2>5. worker # "dropped"
    <3>1. TakeIndex(c) \/ call[c].pc \notin {"new", "done", "failed"}
      BY <1>2 DEF PushInput, LockShard, ModuleReturns, PushOutput, AppendLog
    <3> QED
      BY <3>1 DEF TakeIndex, SInv, Locking
  <2> QED
    BY <2>1, <2>3, <2>4, <2>5, QuietCall
<1> QED
  BY <1>1, <1>2

-----------------------------------------------------------------------------
\* A step of a stream, or of the daemon, that neither accepts a stream nor takes
\* it out of the callbacks.
LEMMA QuietStream ==
    ASSUME SInv, UNCHANGED <<call, callbacks, callbacksLock, published>>, StreamTypes', Locking',
           worker = "dropped" => worker' = "dropped",
           \A s \in Streams :
              /\ stream'[s].pc \in {"new", "locked"} =>
                    /\ stream[s].pc \in {"new", "locked"}
                    /\ stream'[s].got = stream[s].got /\ stream'[s].chan = stream[s].chan
              /\ Accepted(s)' => /\ Accepted(s) /\ stream'[s].from = stream[s].from
                                 /\ Seen(s)' = Seen(s)
    PROVE  SInv'
<1>1. \A s \in Streams : Owed(s)' <=> Owed(s)
  BY DEF Owed, Contains
<1>2. Listed'
  <2>1. Once(callbacks)' /\ \A d \in Calls : Once(call'[d].todo)
    BY DEF SInv, Listed, Once
  <2>2. \A s \in Streams : stream'[s].pc \in {"new", "locked"} =>
           /\ ~Contains(callbacks, s) /\ ~Owed(s)'
           /\ stream'[s].got = <<>> /\ stream'[s].chan = <<>>
    BY <1>1 DEF SInv, Listed
  <2>3. \A s \in Streams : Accepted(s)' /\ worker' # "dropped" => Contains(callbacks, s)
    BY DEF SInv, Listed
  <2> QED
    BY <2>1, <2>2, <2>3 DEF Listed
<1>3. Complete'
  <2>1. ASSUME NEW s \in Streams, Accepted(s)'
        PROVE  /\ stream'[s].from <= Len(published)
               /\ Since(s)' = IF Owed(s)' THEN Append(Seen(s)', callbacksLock) ELSE Seen(s)'
    <3>1. /\ Accepted(s) /\ stream'[s].from = stream[s].from /\ Seen(s)' = Seen(s)
          /\ Since(s)' = Since(s)
      BY <2>1 DEF Since
    <3>2. /\ stream[s].from <= Len(published)
          /\ Since(s) = IF Owed(s) THEN Append(Seen(s), callbacksLock) ELSE Seen(s)
      BY <3>1 DEF SInv, Complete
    <3> QED
      BY <1>1, <3>1, <3>2
  <2> QED
    BY <2>1 DEF Complete
<1> QED
  BY <1>2, <1>3 DEF SInv

\* A stream that only moves on keeps its rows.
LEMMA StreamMoves ==
    ASSUME SInv, NEW s \in Streams,
           LockWorkers(s) \/ SendStarted(s) \/ LastRow(s) \/ LockForCleanup(s) \/ Disconnect(s)
    PROVE  SInv'
<1>1. /\ stream \in [Streams -> StreamRecords] /\ stream[s] \in StreamRecords
      /\ UNCHANGED <<call, callbacks, callbacksLock, published, worker, read>>
  BY DEF SInv, StreamTypes, LockWorkers, SendStarted, LastRow, LockForCleanup, Disconnect, callVars,
         daemonVars
<1>2. PICK to \in StreamPcs, linked \in BOOLEAN :
         /\ stream' = [stream EXCEPT ![s].pc = to, ![s].linked = linked]
         /\ to \in {"new", "locked"} => stream[s].pc \in {"new", "locked"}
         /\ to \in {"registered", "streaming"} => stream[s].pc \in {"registered", "streaming"}
         /\ \/ /\ workersLock' = workersLock
               /\ to \in {"locked", "cleaning"} => to = stream[s].pc
            \/ workersLock = Nobody /\ workersLock' = s /\ worker = "up"
  <2>0. \A p \in StreamPcs :
           stream' = [stream EXCEPT ![s].pc = p] =>
              stream' = [stream EXCEPT ![s].pc = p, ![s].linked = stream[s].linked]
    BY <1>1 DEF StreamRecords
  <2>1. stream[s].linked \in BOOLEAN /\ stream[s].pc \in StreamPcs
    BY <1>1 DEF StreamRecords
  <2>2. CASE LockWorkers(s) \/ SendStarted(s) \/ LastRow(s) \/ LockForCleanup(s)
    <3>1. PICK p \in StreamPcs :
         /\ stream' = [stream EXCEPT ![s].pc = p]
         /\ p \in {"new", "locked"} => stream[s].pc \in {"new", "locked"}
         /\ p \in {"registered", "streaming"} => stream[s].pc \in {"registered", "streaming"}
         /\ \/ /\ workersLock' = workersLock
               /\ p \in {"locked", "cleaning"} => p = stream[s].pc
            \/ workersLock = Nobody /\ workersLock' = s /\ worker = "up"
      BY <2>2 DEF LockWorkers, SendStarted, LastRow, LockForCleanup, StreamPcs, daemonVars
    <3> QED
      BY <2>0, <2>1, <3>1
  <2>3. CASE Disconnect(s)
    <3>1. stream' = [stream EXCEPT ![s].linked = FALSE] /\ workersLock' = workersLock
      BY <2>3 DEF Disconnect, daemonVars
    <3>2. stream' = [stream EXCEPT ![s].pc = stream[s].pc, ![s].linked = FALSE]
      BY <1>1, <3>1 DEF StreamRecords
    <3> QED
      BY <2>1, <3>1, <3>2
  <2> QED
    BY <2>2, <2>3
<1>3. /\ stream'[s].pc = to /\ stream'[s].got = stream[s].got /\ stream'[s].chan = stream[s].chan
      /\ stream'[s].from = stream[s].from
      /\ \A t \in Streams : t # s => stream'[t] = stream[t]
  BY <1>1, <1>2 DEF StreamRecords
<1>4. StreamTypes'
  <2>1. stream' \in [Streams -> StreamRecords]
    <3>1. [stream[s] EXCEPT !.pc = to, !.linked = linked] \in StreamRecords
      BY <1>1 DEF StreamRecords
    <3>2. stream' = [stream EXCEPT ![s] = [stream[s] EXCEPT !.pc = to, !.linked = linked]]
      BY <1>1, <1>2
    <3> QED
      BY <1>1, <3>1, <3>2
  <2>2. workersLock' \in Streams \cup Reads \cup {Nobody}
    BY <1>2 DEF SInv, StreamTypes
  <2> QED
    BY <1>1, <2>1, <2>2 DEF SInv, StreamTypes
<1>5. Locking'
  <2>1. ASSUME NEW t \in Streams, stream'[t].pc \in {"locked", "cleaning"}
        PROVE  workersLock' = t /\ worker = "up"
    <3>1. CASE workersLock' = workersLock
      <4>1. t # s \/ stream'[t].pc = stream[t].pc \/ workersLock = Nobody
        BY <1>2, <1>3, <2>1
      <4>2. stream'[t].pc = stream[t].pc \/ (t = s /\ workersLock = Nobody /\ workersLock' = s /\ worker = "up")
        BY <1>2, <1>3, <2>1
      <4> QED
        BY <2>1, <3>1, <4>2 DEF SInv, Locking
    <3>2. CASE workersLock = Nobody /\ workersLock' = s /\ worker = "up"
      <4>1. t = s
        BY <1>3, <2>1, <3>2 DEF SInv, Locking
      <4> QED
        BY <3>2, <4>1
    <3> QED
      BY <1>2, <3>1, <3>2
  <2>2. \A r \in Reads : read[r] = "reading" => workersLock' = r
    <3>1. workersLock' = workersLock \/ workersLock = Nobody
      BY <1>2
    <3> QED
      BY <3>1 DEF SInv, Locking
  <2> QED
    BY <1>1, <2>1, <2>2 DEF SInv, Locking
<1> QED
  BY <1>1, <1>2, <1>3, <1>4, <1>5, QuietStream DEF Accepted, Seen

\* A row moves from the channel to the client, or is lost with it.
LEMMA ForwardStreaming == ASSUME SInv, NEW s \in Streams, ForwardRow(s) PROVE SInv'
<1>1. /\ stream \in [Streams -> StreamRecords] /\ stream[s] \in StreamRecords
      /\ stream[s].chan \in Seq(Calls) /\ stream[s].got \in Seq(Calls)
      /\ stream[s].pc = "streaming" /\ stream[s].chan # <<>>
      /\ UNCHANGED <<call, callbacks, callbacksLock, published, workersLock, worker, read>>
  BY DEF SInv, StreamTypes, StreamRecords, ForwardRow, callVars, daemonVars
<1>2. PICK got \in Seq(Calls), chan \in Seq(Calls) :
         /\ got = Append(stream[s].got, Head(stream[s].chan)) /\ chan = Tail(stream[s].chan)
         /\ got \o chan = stream[s].got \o stream[s].chan
  <2>1. PICK g \in Seq(Calls), h \in Seq(Calls) : g = stream[s].got /\ h = stream[s].chan
    BY <1>1
  <2>2. h # <<>>
    BY <1>1, <2>1
  <2>3. /\ Append(g, Head(h)) \o Tail(h) = g \o h
        /\ Append(g, Head(h)) \in Seq(Calls) /\ Tail(h) \in Seq(Calls)
    BY <2>2, SeenMoves
  <2> QED
    BY <2>1, <2>3, Zenon
<1>3. \/ stream' = [stream EXCEPT ![s].got = got, ![s].chan = chan]
      \/ stream' = [stream EXCEPT ![s].pc = "broken", ![s].chan = chan]
  BY <1>2 DEF ForwardRow
<1>4. PICK r \in StreamRecords :
         /\ stream' = [stream EXCEPT ![s] = r]
         /\ r.pc \in {"streaming", "broken"} /\ r.from = stream[s].from
         /\ r.pc = "streaming" => r.got \o r.chan = stream[s].got \o stream[s].chan
  <2>1. CASE stream' = [stream EXCEPT ![s].got = got, ![s].chan = chan]
    <3> DEFINE r == [stream[s] EXCEPT !.got = got, !.chan = chan]
    <3>1. /\ stream' = [stream EXCEPT ![s] = r] /\ r \in StreamRecords
          /\ r.pc = "streaming" /\ r.from = stream[s].from /\ r.got = got /\ r.chan = chan
      BY <1>1, <2>1 DEF StreamRecords
    <3> HIDE DEF r
    <3> QED
      BY <1>2, <3>1
  <2>2. CASE stream' = [stream EXCEPT ![s].pc = "broken", ![s].chan = chan]
    <3> DEFINE r == [stream[s] EXCEPT !.pc = "broken", !.chan = chan]
    <3>1. /\ stream' = [stream EXCEPT ![s] = r] /\ r \in StreamRecords
          /\ r.pc = "broken" /\ r.from = stream[s].from
      BY <1>1, <2>2 DEF StreamRecords, StreamPcs
    <3> HIDE DEF r
    <3> QED
      BY <3>1
  <2> QED
    BY <1>3, <2>1, <2>2
<1>5. /\ stream' \in [Streams -> StreamRecords] /\ stream'[s] = r
      /\ \A t \in Streams : t # s => stream'[t] = stream[t]
  BY <1>1, <1>4
<1>6. StreamTypes'
  BY <1>1, <1>5 DEF SInv, StreamTypes
<1>7. Locking'
  <2>1. \A t \in Streams : stream'[t].pc \in {"locked", "cleaning"} => stream[t].pc = stream'[t].pc
    BY <1>4, <1>5
  <2> QED
    BY <1>1, <2>1 DEF SInv, Locking
<1>8. ASSUME NEW t \in Streams
      PROVE  /\ stream'[t].pc \in {"new", "locked"} => stream'[t] = stream[t]
             /\ Accepted(t)' => /\ Accepted(t) /\ stream'[t].from = stream[t].from
                                /\ Seen(t)' = Seen(t)
  <2>1. CASE t = s
    BY <1>1, <1>4, <1>5, <2>1 DEF Accepted, Seen
  <2>2. CASE t # s
    BY <1>5, <2>2 DEF Accepted, Seen
  <2> QED
    BY <2>1, <2>2
<1> QED
  BY <1>1, <1>6, <1>7, <1>8, QuietStream

\* A stream is accepted: it owes itself nothing of what went before.
LEMMA AcceptStreaming == ASSUME CallTypes, SInv, NEW s \in Streams, AddCallback(s) PROVE SInv'
<1>1. /\ stream \in [Streams -> StreamRecords] /\ stream[s] \in StreamRecords
      /\ callbacks \in Seq(Streams) /\ published \in Seq(Calls) /\ Len(published) \in Nat
      /\ stream[s].pc = "locked" /\ callbacksLock = Nobody
      /\ callbacks' = Append(callbacks, s) /\ workersLock' = Nobody
      /\ stream' = [stream EXCEPT ![s].pc = "registered", ![s].from = Len(published)]
      /\ UNCHANGED <<call, callbacksLock, published, worker, read>>
  BY DEF SInv, StreamTypes, AddCallback, callVars
<1>2. /\ workersLock = s /\ worker = "up" /\ ~Contains(callbacks, s) /\ ~Owed(s)
      /\ stream[s].got = <<>> /\ stream[s].chan = <<>>
  BY <1>1 DEF SInv, Locking, Listed
<1>3. PICK r \in StreamRecords :
         /\ stream' = [stream EXCEPT ![s] = r] /\ r.pc = "registered" /\ r.from = Len(published)
         /\ r.got = <<>> /\ r.chan = <<>>
  <2> DEFINE r == [stream[s] EXCEPT !.pc = "registered", !.from = Len(published)]
  <2>1. /\ stream' = [stream EXCEPT ![s] = r] /\ r \in StreamRecords
        /\ r.pc = "registered" /\ r.from = Len(published)
        /\ r.got = stream[s].got /\ r.chan = stream[s].chan
    BY <1>1 DEF StreamRecords, StreamPcs
  <2> HIDE DEF r
  <2> QED
    BY <1>2, <2>1
<1>4. /\ stream' \in [Streams -> StreamRecords] /\ stream'[s] = r
      /\ \A t \in Streams : t # s => stream'[t] = stream[t]
  <2>1. /\ stream'[s] = r
        /\ \A t \in Streams : t # s => stream'[t] = stream[t]
    BY <1>1, <1>3
  <2>2. stream' = [t \in Streams |-> stream'[t]]
    BY <1>1, <1>3
  <2>3. \A t \in Streams : stream'[t] \in StreamRecords
    BY <1>1, <1>3, <2>1
  <2> QED
    BY <2>1, <2>2, <2>3
<1>5. /\ callbacks' \in Seq(Streams) /\ Once(callbacks') /\ Contains(callbacks', s)
      /\ \A t \in Streams : t # s => (Contains(callbacks', t) <=> Contains(callbacks, t))
  <2>1. /\ Len(callbacks') = Len(callbacks) + 1 /\ callbacks' \in Seq(Streams)
        /\ \A k \in 1..Len(callbacks) : callbacks'[k] = callbacks[k] /\ callbacks[k] # s
        /\ callbacks'[Len(callbacks) + 1] = s /\ Len(callbacks) \in Nat
    BY <1>1, <1>2 DEF Contains
  <2>2. \A k \in 1..(Len(callbacks) + 1) : k \in 1..Len(callbacks) \/ k = Len(callbacks) + 1
    BY <2>1
  <2>3. Once(callbacks)
    BY DEF SInv, Listed
  <2>4. Once(callbacks')
    BY <2>1, <2>2, <2>3 DEF Once
  <2>5. Len(callbacks) + 1 \in 1..Len(callbacks') /\ 1..Len(callbacks) \subseteq 1..Len(callbacks')
    BY <2>1
  <2>6. Contains(callbacks', s)
    BY <2>1, <2>5 DEF Contains
  <2>7. \A t \in Streams : t # s => (Contains(callbacks', t) <=> Contains(callbacks, t))
    BY <2>1, <2>2, <2>5 DEF Contains
  <2> QED
    BY <2>1, <2>4, <2>6, <2>7
<1>6. StreamTypes'
  BY <1>1, <1>4, <1>5 DEF SInv, StreamTypes
<1>7. Locking'
  <2>1. \A t \in Streams : stream'[t].pc \notin {"locked", "cleaning"}
    BY <1>2, <1>3, <1>4 DEF SInv, Locking
  <2>2. \A q \in Reads : read[q] # "reading"
    BY <1>2 DEF SInv, Locking
  <2> QED
    BY <1>1, <1>2, <2>1, <2>2 DEF SInv, Locking
<1>8. \A t \in Streams : Owed(t)' <=> Owed(t)
  BY <1>1 DEF Owed, Contains
<1>9. Listed'
  <2>1. \A d \in Calls : Once(call'[d].todo)
    BY <1>1 DEF SInv, Listed, Once
  <2>2. ASSUME NEW t \in Streams, stream'[t].pc \in {"new", "locked"}
        PROVE  /\ ~Contains(callbacks', t) /\ ~Owed(t)'
               /\ stream'[t].got = <<>> /\ stream'[t].chan = <<>>
    <3>1. t # s
      BY <1>3, <1>4, <2>2
    <3> QED
      BY <1>4, <1>5, <1>8, <2>2, <3>1 DEF SInv, Listed
  <2>3. ASSUME NEW t \in Streams, Accepted(t)' PROVE Contains(callbacks', t)
    <3>1. CASE t # s
      BY <1>2, <1>4, <1>5, <2>3, <3>1 DEF SInv, Listed, Accepted
    <3> QED
      BY <1>5, <3>1
  <2> QED
    BY <1>5, <2>1, <2>2, <2>3 DEF Listed
<1>10. Complete'
  <2>1. ASSUME NEW t \in Streams, Accepted(t)'
        PROVE  /\ stream'[t].from <= Len(published)
               /\ Since(t)' = IF Owed(t)' THEN Append(Seen(t)', callbacksLock) ELSE Seen(t)'
    <3>1. CASE t = s
      <4>1. SubSeq(published, Len(published) + 1, Len(published)) = <<>>
        BY <1>1, SubSeqEmpty
      <4>2. Since(s)' = <<>> /\ Seen(s)' = <<>>
        <5>1. <<>> \o <<>> = <<>>
          BY ConcatEmptySeq
        <5> QED
          BY <1>1, <1>3, <1>4, <4>1, <5>1 DEF Since, Seen
      <4> QED
        BY <1>1, <1>2, <1>3, <1>4, <1>8, <3>1, <4>2
    <3>2. CASE t # s
      <4>1. stream'[t] = stream[t] /\ Accepted(t) /\ (Owed(t)' <=> Owed(t))
        BY <1>4, <1>8, <2>1, <3>2 DEF Accepted
      <4>2. Since(t)' = Since(t) /\ Seen(t)' = Seen(t)
        BY <1>1, <4>1 DEF Since, Seen
      <4>3. /\ stream[t].from <= Len(published)
            /\ Since(t) = IF Owed(t) THEN Append(Seen(t), callbacksLock) ELSE Seen(t)
        BY <4>1 DEF SInv, Complete
      <4> QED
        BY <4>1, <4>2, <4>3
    <3> QED
      BY <3>1, <3>2
  <2> QED
    BY <1>1, <2>1 DEF Complete
<1> QED
  BY <1>6, <1>7, <1>9, <1>10 DEF SInv

\* A stream that is over is taken out of the callbacks; the others stay.
LEMMA DeleteStreaming == ASSUME CallTypes, SInv, NEW s \in Streams, DeleteCallback(s) PROVE SInv'
<1>1. /\ stream \in [Streams -> StreamRecords] /\ stream[s] \in StreamRecords
      /\ stream[s].pc = "cleaning" /\ callbacksLock = Nobody
      /\ callbacks' = RemoveFirst(callbacks, s) /\ workersLock' = Nobody
      /\ stream' = [stream EXCEPT ![s].pc = "gone", ![s].chan = <<>>]
      /\ UNCHANGED <<call, callbacksLock, published, worker, read>>
  BY DEF SInv, StreamTypes, DeleteCallback, callVars
<1>2. workersLock = s /\ worker = "up"
  BY <1>1 DEF SInv, Locking
<1>3. PICK r \in StreamRecords : stream' = [stream EXCEPT ![s] = r] /\ r.pc = "gone"
  <2> DEFINE r == [stream[s] EXCEPT !.pc = "gone", !.chan = <<>>]
  <2>1. stream' = [stream EXCEPT ![s] = r]
    BY <1>1
  <2>2. r \in StreamRecords /\ r.pc = "gone"
    <3>1. stream[s] \in StreamRecords /\ <<>> \in Seq(Calls) /\ "gone" \in StreamPcs
      BY <1>1 DEF StreamPcs
    <3> HIDE PipelineAssumption
    <3> QED
      BY <3>1 DEF StreamRecords
  <2> QED
    BY <2>1, <2>2
<1>4. /\ stream' \in [Streams -> StreamRecords] /\ stream'[s] = r
      /\ \A t \in Streams : t # s => stream'[t] = stream[t]
  BY <1>1, <1>3
<1>5. /\ callbacks' \in Seq(Streams) /\ Once(callbacks')
      /\ \A t \in Streams : t # s => (Contains(callbacks', t) <=> Contains(callbacks, t))
  <2>1. callbacks \in Seq(Streams) /\ Once(callbacks)
    BY DEF SInv, StreamTypes, Listed
  <2>2. PICK q \in Seq(Streams) : q = callbacks /\ Once(q)
    BY <2>1
  <2>3. PICK k : k = RemoveFirst(q, s)
    OBVIOUS
  <2>4. /\ k \in Seq(Streams) /\ Once(k)
        /\ \A t : t # s => (Contains(k, t) <=> Contains(q, t))
    BY <2>2, <2>3, Removed, Zenon
  <2>5. k = callbacks'
    BY <1>1, <2>2, <2>3
  <2> QED
    BY <2>2, <2>4, <2>5, Zenon
<1>6. StreamTypes'
  BY <1>1, <1>4, <1>5 DEF SInv, StreamTypes
<1>7. Locking'
  <2>1. \A t \in Streams : stream'[t].pc \notin {"locked", "cleaning"}
    BY <1>2, <1>3, <1>4 DEF SInv, Locking
  <2>2. \A q \in Reads : read[q] # "reading"
    BY <1>2 DEF SInv, Locking
  <2> QED
    BY <1>1, <1>2, <2>1, <2>2 DEF SInv, Locking
<1>8. \A t \in Streams : Owed(t)' <=> Owed(t)
  BY <1>1 DEF Owed, Contains
<1>9. \A t \in Streams : stream'[t].pc # "gone" => t # s /\ stream'[t] = stream[t]
  BY <1>3, <1>4
<1>10. Listed'
  <2>1. \A d \in Calls : Once(call'[d].todo)
    BY <1>1 DEF SInv, Listed, Once
  <2>2. ASSUME NEW t \in Streams, stream'[t].pc \in {"new", "locked"}
        PROVE  /\ ~Contains(callbacks', t) /\ ~Owed(t)'
               /\ stream'[t].got = <<>> /\ stream'[t].chan = <<>>
    BY <1>5, <1>8, <1>9, <2>2 DEF SInv, Listed
  <2>3. ASSUME NEW t \in Streams, Accepted(t)' PROVE Contains(callbacks', t)
    <3>1. t # s /\ stream'[t] = stream[t]
      BY <1>9, <2>3 DEF Accepted
    <3> QED
      BY <1>2, <1>5, <2>3, <3>1 DEF SInv, Listed, Accepted
  <2> QED
    BY <1>5, <2>1, <2>2, <2>3 DEF Listed
<1>11. Complete'
  <2>1. ASSUME NEW t \in Streams, Accepted(t)'
        PROVE  /\ stream'[t].from <= Len(published)
               /\ Since(t)' = IF Owed(t)' THEN Append(Seen(t)', callbacksLock) ELSE Seen(t)'
    <3>1. stream'[t] = stream[t] /\ Accepted(t) /\ (Owed(t)' <=> Owed(t))
      BY <1>8, <1>9, <2>1 DEF Accepted
    <3>2. Since(t)' = Since(t) /\ Seen(t)' = Seen(t)
      BY <1>1, <3>1 DEF Since, Seen
    <3>3. /\ stream[t].from <= Len(published)
          /\ Since(t) = IF Owed(t) THEN Append(Seen(t), callbacksLock) ELSE Seen(t)
      BY <3>1 DEF SInv, Complete
    <3> QED
      BY <3>1, <3>2, <3>3
  <2> QED
    BY <1>1, <2>1 DEF Complete
<1> QED
  BY <1>6, <1>7, <1>10, <1>11 DEF SInv

-----------------------------------------------------------------------------
\* A read takes the lock and gives it back; a stop takes it for itself.
LEMMA DaemonStreaming ==
    ASSUME SInv, (\E r \in Reads : StartRead(r) \/ EndRead(r)) \/ Stop
    PROVE  SInv'
<1>1. UNCHANGED <<call, callbacks, callbacksLock, published, stream>>
  BY DEF StartRead, EndRead, Stop, callVars, streamVars
<1>2. /\ workersLock \in Streams \cup Reads \cup {Nobody}
      /\ \A s \in Streams : s \notin Reads /\ s # Nobody
      /\ \A r \in Reads : r # Nobody
  BY DEF SInv, StreamTypes
<1>3. StreamTypes' /\ Locking' /\ (worker = "up" \/ worker' = worker)
  <2>1. CASE Stop
    <3>1. worker = "up" /\ worker' = "stopped" /\ workersLock = Nobody /\ UNCHANGED <<workersLock, read>>
      BY <2>1 DEF Stop
    <3>2. StreamTypes'
      BY <1>1, <3>1 DEF SInv, StreamTypes
    <3>3. \A s \in Streams : stream[s].pc \notin {"locked", "cleaning"}
      BY <1>2, <3>1 DEF SInv, Locking
    <3>4. Locking'
      BY <1>1, <3>1, <3>3 DEF SInv, Locking
    <3> QED
      BY <3>1, <3>2, <3>4
  <2>2. CASE \E r \in Reads : StartRead(r)
    <3>1. PICK r \in Reads : StartRead(r)
      BY <2>2
    <3>2. /\ workersLock = Nobody /\ workersLock' = r /\ UNCHANGED worker
          /\ read' = [read EXCEPT ![r] = "reading"]
      BY <3>1 DEF StartRead
    <3>3. /\ read' \in [Reads -> {"new", "reading", "done"}]
          /\ \A q \in Reads : q # r => read'[q] = read[q]
      BY <3>2 DEF SInv, StreamTypes
    <3>4. StreamTypes'
      BY <1>1, <3>2, <3>3 DEF SInv, StreamTypes
    <3>5. \A s \in Streams : stream[s].pc \notin {"locked", "cleaning"}
      BY <1>2, <3>2 DEF SInv, Locking
    <3>6. \A q \in Reads : read[q] # "reading"
      BY <1>2, <3>2 DEF SInv, Locking
    <3>7. \A q \in Reads : read'[q] = "reading" => workersLock' = q
      BY <3>2, <3>3, <3>6
    <3>8. Locking'
      BY <1>1, <3>2, <3>5, <3>7 DEF SInv, Locking
    <3> QED
      BY <3>2, <3>4, <3>8
  <2>3. CASE \E r \in Reads : EndRead(r)
    <3>1. PICK r \in Reads : EndRead(r)
      BY <2>3
    <3>2. /\ read[r] = "reading" /\ workersLock' = Nobody /\ UNCHANGED worker
          /\ read' = [read EXCEPT ![r] = "done"]
      BY <3>1 DEF EndRead
    <3>3. /\ read' \in [Reads -> {"new", "reading", "done"}] /\ read'[r] = "done"
          /\ \A q \in Reads : q # r => read'[q] = read[q]
      BY <3>2 DEF SInv, StreamTypes
    <3>4. StreamTypes'
      BY <1>1, <3>2, <3>3 DEF SInv, StreamTypes
    <3>5. workersLock = r
      BY <3>2 DEF SInv, Locking
    <3>6. \A s \in Streams : stream[s].pc \notin {"locked", "cleaning"}
      BY <1>2, <3>5 DEF SInv, Locking
    <3>7. \A q \in Reads : read'[q] # "reading"
      BY <3>3, <3>5 DEF SInv, Locking
    <3>8. Locking'
      BY <1>1, <3>2, <3>6, <3>7 DEF SInv, Locking
    <3> QED
      BY <3>2, <3>4, <3>8
  <2> QED
    BY <2>1, <2>2, <2>3
<1>4. \A s \in Streams : /\ stream'[s] = stream[s] /\ (Accepted(s)' <=> Accepted(s))
                         /\ Seen(s)' = Seen(s)
  BY <1>1 DEF Accepted, Seen
<1>5. /\ StreamTypes' /\ Locking'
      /\ worker = "dropped" => worker' = "dropped"
  BY <1>3
<1> QED
  BY <1>1, <1>4, <1>5, QuietStream

\* The pipeline goes with its last call: no callback is left, and no row owed.
LEMMA DropStreaming == ASSUME SInv, DropPipeline PROVE SInv'
<1>1. /\ \A c \in Calls : call[c].pc \in {"new", "done", "failed"}
      /\ worker = "stopped" /\ worker' = "dropped" /\ callbacks' = <<>>
      /\ UNCHANGED <<call, callbacksLock, stream, published, workersLock, read>>
  BY DEF DropPipeline, callVars
<1>2. StreamTypes'
  BY <1>1 DEF SInv, StreamTypes
<1>3. Locking'
  <2>1. \A s \in Streams : stream[s].pc \notin {"locked", "cleaning"}
    BY <1>1 DEF SInv, Locking
  <2> QED
    BY <1>1, <2>1 DEF SInv, Locking
<1>4. \A s \in Streams : Owed(s)' <=> Owed(s)
  BY <1>1 DEF Owed, Contains
<1>5. Listed'
  <2>1. Once(callbacks') /\ \A s \in Streams : ~Contains(callbacks', s)
    BY <1>1 DEF Once, Contains
  <2>2. \A d \in Calls : Once(call'[d].todo)
    BY <1>1 DEF SInv, Listed, Once
  <2>3. \A s \in Streams : stream'[s].pc \in {"new", "locked"} =>
           /\ ~Owed(s)' /\ stream'[s].got = <<>> /\ stream'[s].chan = <<>>
    BY <1>1, <1>4 DEF SInv, Listed
  <2> QED
    BY <1>1, <2>1, <2>2, <2>3 DEF Listed
<1>6. Complete'
  BY <1>1, <1>4 DEF SInv, Complete, Accepted, Seen, Since
<1> QED
  BY <1>2, <1>3, <1>5, <1>6 DEF SInv

-----------------------------------------------------------------------------
\* The invariant: both halves.
IInv == CallTypes /\ Rows /\ SInv

\* It holds at the start: nothing is pushed and nobody streams.
LEMMA InitIInv == Init => IInv
<1> SUFFICES ASSUME Init PROVE IInv
  OBVIOUS
<1>1. PICK entry \in [Calls -> {"call", "call_session"}] :
         call = [c \in Calls |-> [pc |-> "new", entry |-> entry[c], index |-> 0,
                                  ok |-> FALSE, todo |-> <<>>]]
  BY DEF Init
<1>2. \A c \in Calls : call[c].pc = "new" /\ call[c].todo = <<>>
  BY <1>1
<1>3. CallTypes
  <2>1. call \in [Calls -> CallRecords]
    <3>1. ASSUME NEW c \in Calls PROVE 0 \in Indices
      <4>1. Cardinality(Calls) \in Nat /\ Cardinality(Calls) # 0
        BY FS_CardinalityType, FS_EmptySet
      <4> QED
        BY <4>1 DEF Indices
    <3> QED
      BY <1>1, <3>1 DEF CallRecords, CallPcs
  <2>2. /\ shard \in [Shards -> Calls \cup {Nobody}]
        /\ inputs \in Seq(RowRecords) /\ outputs \in Seq(RowRecords) /\ log \in Seq(LogRecords)
    BY DEF Init
  <2> QED
    BY <2>1, <2>2 DEF CallTypes
<1>4. Rows
  <2>1. Pushed = {} /\ Stored = {} /\ Done = {}
    BY <1>2 DEF Pushed, Stored, Done
  <2>2. OneEach(<<>>, {}) /\ Indexed(<<>>)
    BY FS_EmptySet DEF OneEach, Indexed
  <2>3. inputs = <<>> /\ outputs = <<>> /\ log = <<>>
    BY DEF Init
  <2> QED
    BY <1>2, <2>1, <2>2, <2>3 DEF Rows
<1>5. /\ callbacks = <<>> /\ callbacksLock = Nobody /\ workersLock = Nobody /\ worker = "up"
      /\ read = [r \in Reads |-> "new"] /\ published = <<>>
      /\ stream = [s \in Streams |-> [pc |-> "new", chan |-> <<>>, got |-> <<>>,
                                      from |-> 0, linked |-> TRUE]]
  BY DEF Init
<1>6. StreamTypes
  <2>1. stream \in [Streams -> StreamRecords]
    BY <1>5 DEF StreamRecords, StreamPcs
  <2> QED
    BY <1>5, <2>1 DEF StreamTypes
<1>7. \A s \in Streams : /\ stream[s].pc = "new" /\ stream[s].got = <<>> /\ stream[s].chan = <<>>
                         /\ ~Owed(s) /\ ~Contains(callbacks, s)
  BY <1>2, <1>5 DEF Owed, Contains
<1>8. Locking
  BY <1>2, <1>5, <1>7 DEF Locking
<1>9. Listed /\ Complete
  BY <1>2, <1>5, <1>7 DEF Listed, Complete, Once, Accepted
<1> QED
  BY <1>3, <1>4, <1>6, <1>8, <1>9 DEF IInv, SInv

\* Streams and the daemon leave the calls and their rows alone.
LEMMA RowsStay == ASSUME CallTypes, Rows, UNCHANGED callVars PROVE CallTypes' /\ Rows'
<1>1. UNCHANGED <<call, shard, inputs, outputs, log>>
  BY DEF callVars
<1>2. Pushed' = Pushed /\ Stored' = Stored /\ Done' = Done
  BY <1>1 DEF Pushed, Stored, Done
<1>3. OneEach(inputs, Pushed)' /\ OneEach(outputs, Stored)' /\ OneEach(log, Done)'
  BY <1>1, <1>2 DEF Rows, OneEach
<1>4. Indexed(inputs)' /\ Indexed(outputs)'
  BY <1>1 DEF Rows, Indexed
<1>5. CallTypes'
  BY <1>1 DEF CallTypes
<1> QED
  BY <1>1, <1>3, <1>4, <1>5 DEF Rows

\* Every step of a call, a stream, a read or the daemon keeps it.
LEMMA NextIInv == IInv /\ [Next]_vars => IInv'
<1> SUFFICES ASSUME IInv, [Next]_vars PROVE IInv'
  OBVIOUS
<1>1. CallTypes /\ Rows /\ SInv /\ callbacks \in Seq(Streams)
  BY DEF IInv, SInv, StreamTypes
<1>2. ASSUME NEW c \in Calls,
             \/ TakeIndex(c) \/ PushInput(c) \/ LockShard(c) \/ ModuleReturns(c) \/ LockCallbacks(c)
             \/ Callback(c) \/ CallbacksDone(c) \/ PushOutput(c) \/ AppendLog(c)
      PROVE  IInv'
  <2>1. CallTypes' /\ Rows'
    BY <1>1, <1>2, CallRows
  <2>2. SInv'
    BY <1>1, <1>2, CallStreaming
  <2> QED
    BY <2>1, <2>2 DEF IInv
<1>3. ASSUME NEW s \in Streams,
             \/ LockWorkers(s) \/ AddCallback(s) \/ SendStarted(s) \/ ForwardRow(s) \/ LastRow(s)
             \/ LockForCleanup(s) \/ DeleteCallback(s) \/ Disconnect(s)
      PROVE  IInv'
  <2>1. UNCHANGED callVars
    BY <1>3 DEF LockWorkers, AddCallback, SendStarted, ForwardRow, LastRow, LockForCleanup,
                DeleteCallback, Disconnect
  <2>2. SInv'
    BY <1>1, <1>3, StreamMoves, AcceptStreaming, ForwardStreaming, DeleteStreaming
  <2> QED
    BY <1>1, <2>1, <2>2, RowsStay DEF IInv
<1>4. CASE (\E r \in Reads : StartRead(r) \/ EndRead(r)) \/ Stop
  <2>1. UNCHANGED callVars
    BY <1>4 DEF StartRead, EndRead, Stop
  <2> QED
    BY <1>1, <1>4, <2>1, RowsStay, DaemonStreaming DEF IInv
<1>5. CASE DropPipeline
  <2>1. UNCHANGED callVars
    BY <1>5 DEF DropPipeline
  <2> QED
    BY <1>1, <1>5, <2>1, RowsStay, DropStreaming DEF IInv
<1>6. CASE UNCHANGED vars
  <2>1. UNCHANGED <<callVars, streamVars, daemonVars>> /\ call' = call
    BY <1>6 DEF vars, callVars
  <2>2. worker = "dropped" => \A c \in Calls : call[c].pc \in {"new", "done", "failed"}
    BY <1>1 DEF SInv, Locking
  <2>3. SInv'
    BY <1>1, <2>1, <2>2, QuietCall
  <2> QED
    BY <1>1, <2>1, <2>3, RowsStay DEF IInv
<1> QED
  BY <1>2, <1>3, <1>4, <1>5, <1>6 DEF Next

\* What the rows, the callbacks and the streams keep, whatever calls, clients,
\* reads and stops there are.
LEMMA Invariance == Spec => []IInv
BY InitIInv, NextIInv, PTL DEF Spec

\* For any calls and shards: while calls come one after the other, the record
\* at the index of a call that is done is that of this call and of no other.
THEOREM RecordsMatch == Spec => []SerialRecordsMatch
<1>1. ASSUME IInv PROVE TypeOK
  BY <1>1 DEF IInv, SInv, CallTypes, StreamTypes, TypeOK, CallRecords, RowRecords, LogRecords,
              StreamRecords
<1>2. ASSUME IInv, OneByOne, NEW c \in Calls, call[c].pc = "done"
      PROVE  Record(call[c].index) = Own(c)
  BY <1>2, RecordOfCall DEF IInv
<1>3. IInv => SerialRecordsMatch
  BY <1>1, <1>2 DEF SerialRecordsMatch
<1> QED
  BY <1>3, Invariance, PTL

\* For any streams, calls and room in the channels: a stream that was accepted
\* has every row since then, save the one whose callbacks are being made.
THEOREM EveryRowSeen == Spec => []StreamSeesEveryRow
<1>1. ASSUME IInv, NEW s \in Streams, Accepted(s)
      PROVE  LET seen == stream[s].got \o stream[s].chan
                 since == SubSeq(published, stream[s].from + 1, Len(published))
             IN  /\ IsPrefix(seen, since)
                 /\ Len(since) - Len(seen) <= 1
                 /\ Contains(callbacks, s) /\ callbacksLock = Nobody => seen = since
  <2>1. /\ stream[s].got \in Seq(Calls) /\ stream[s].chan \in Seq(Calls)
        /\ Since(s) = IF Owed(s) THEN Append(Seen(s), callbacksLock) ELSE Seen(s)
    BY <1>1 DEF IInv, SInv, StreamTypes, StreamRecords, Complete
  <2>2. PICK q \in Seq(Calls) : q = Seen(s)
    <3>1. PICK g \in Seq(Calls), h \in Seq(Calls) : g = stream[s].got /\ h = stream[s].chan
      BY <2>1
    <3>2. g \o h \in Seq(Calls)
      BY ConcatProperties
    <3> QED
      BY <3>1, <3>2, Zenon DEF Seen
  <2>3. Owed(s) => callbacksLock \in Calls /\ callbacksLock # Nobody
    BY <1>1 DEF IInv, SInv, Locking, Owed, Contains
  <2>4. IsPrefix(q, q) /\ Len(q) - Len(q) <= 1
    BY DEF IsPrefix
  <2>5. ASSUME NEW c \in Calls
        PROVE  IsPrefix(q, Append(q, c)) /\ Len(Append(q, c)) - Len(q) <= 1
    <3>1. /\ Len(Append(q, c)) = Len(q) + 1 /\ Len(q) \in Nat
          /\ \A i \in 1..Len(q) : Append(q, c)[i] = q[i]
      OBVIOUS
    <3>2. SubSeq(Append(q, c), 1, Len(q)) = SubSeq(q, 1, Len(q))
      OBVIOUS
    <3> QED
      BY <3>1, <3>2 DEF IsPrefix
  <2>6. PICK p : p = Since(s)
    OBVIOUS
  <2>7. /\ IsPrefix(q, p) /\ Len(p) - Len(q) <= 1
        /\ callbacksLock = Nobody => q = p
    <3>1. CASE Owed(s)
      <4>1. PICK c \in Calls : c = callbacksLock /\ callbacksLock # Nobody
        BY <2>3, <3>1
      <4>2. p = Append(q, c)
        BY <2>1, <2>2, <2>6, <3>1, <4>1
      <4> QED
        BY <2>5, <4>1, <4>2
    <3>2. CASE ~Owed(s)
      <4>1. p = q
        BY <2>1, <2>2, <2>6, <3>2
      <4> QED
        BY <2>4, <4>1
    <3> QED
      BY <3>1, <3>2
  <2> QED
    BY <2>2, <2>6, <2>7 DEF Seen, Since
<1>2. IInv => StreamSeesEveryRow
  BY <1>1 DEF StreamSeesEveryRow, Accepted
<1> QED
  BY <1>2, Invariance, PTL

-----------------------------------------------------------------------------
(***************************************************************************)
(* The write-ahead log an index is sent to, WalManager: any number of      *)
(* tasks, any channel capacity, any number of sends and rotations.         *)
(*                                                                         *)
(* RotationDrains is not inductive: that the loop of c wrote everything    *)
(* when it ended follows from what held while it was leaving (Leaving),    *)
(* and OneWriterPerPath from where a live loop can be (LiveLoops).         *)
(***************************************************************************)

\* A loop that leaves without a signal has an empty queue nobody can fill.
Leaving ==
  \A c \in Channels :
    loop[c] \in {"draining", "dropping"} /\ c \notin signalled =>
      /\ queue[c] = <<>>
      /\ c # cur
      /\ \A s \in Senders : pc[s] # "idle" => held[s] # c

\* A channel not made yet is untouched, and no task has its sender.
Future ==
  /\ \A c \in Channels : c > cur => loop[c] = "unspawned"
  /\ \A s \in Senders : held[s] <= cur

\* A live loop is the one to be joined, or the rotation's own new channel.
LiveLoops ==
  /\ path <= cur
  /\ handle \in {path, None}
  /\ op = "rotateJoin" => path < cur /\ loop[cur] = "unspawned"
  /\ \A c \in Channels :
       c <= cur /\ loop[c] \notin Finished => c = handle \/ (c = cur /\ op = "rotateJoin")

WalInv ==
  /\ WalTypeOK
  /\ WrittenInOrder
  /\ AliveKeepsAll
  /\ RotationDrains
  /\ Leaving
  /\ Future
  /\ LiveLoops

-----------------------------------------------------------------------------
USE BoundAssumption, MaxSendsAssumption, MaxRotationsAssumption, NoneAssumption

\* WalInv holds at the beginning.
LEMMA WalStarts == WalInit => WalInv
BY DEF WalInit, WalInv, WalTypeOK, WrittenInOrder, Precedes, AliveKeepsAll, RotationDrains,
       Leaving, Future, LiveLoops, Channels, LoopStates, Finished

\* Taking the head of q and appending it to f leaves the concatenation as it is.
LEMMA MoveHead ==
  ASSUME NEW f \in Seq(Records), NEW q \in Seq(Records), q # <<>>
  PROVE  /\ Append(f, Head(q)) \o Tail(q) = f \o q
         /\ Append(f, Head(q)) \in Seq(Records)
         /\ Tail(q) \in Seq(Records)
OBVIOUS

\* A sequence precedes whatever it is continued by.
LEMMA PrefixOfConcat ==
  ASSUME NEW f \in Seq(Records), NEW q \in Seq(Records)
  PROVE  Precedes(f, f \o q)
BY DEF Precedes

\* A prefix of a sequence is a prefix of the sequence with one more element.
LEMMA PrefixOfAppend ==
  ASSUME NEW f \in Seq(Records), NEW g \in Seq(Records), NEW r \in Records, Precedes(f, g)
  PROVE  Precedes(f, Append(g, r))
BY DEF Precedes

\* Appending to the queue appends to what the channel has accepted.
LEMMA AppendToConcat ==
  ASSUME NEW f \in Seq(Records), NEW q \in Seq(Records), NEW r \in Records
  PROVE  /\ Append(f \o q, r) = f \o Append(q, r)
         /\ Append(q, r) \in Seq(Records)
OBVIOUS

-----------------------------------------------------------------------------
\* send() preserves the invariant.
LEMMA SendKeeps == ASSUME WalInv, NEW s \in Senders, Send(s) PROVE WalInv'
<1> USE DEF WalInv, WalTypeOK, senderVars, loopVars, innerVars
<1>1. CASE SendClone(s)
  <2>1. WalTypeOK'
    <3>0. calls[s] \in 0 .. MaxSends /\ calls[s] < MaxSends
      BY <1>1 DEF SendClone
    <3>1. calls[s] + 1 \in 0 .. MaxSends
      BY ONLY <3>0, MaxSendsAssumption
    <3> QED
      BY <1>1, <3>1 DEF SendClone
  <2>2. (WrittenInOrder /\ AliveKeepsAll /\ RotationDrains)'
    BY <1>1 DEF SendClone, WrittenInOrder, AliveKeepsAll, RotationDrains
  <2>3. Leaving'
    BY <1>1 DEF SendClone, Leaving
  <2>4. Future'
    BY <1>1 DEF SendClone, Future, Channels
  <2>5. LiveLoops'
    BY <1>1 DEF SendClone, LiveLoops
  <2> QED
    BY <2>1, <2>2, <2>3, <2>4, <2>5
<1>2. CASE SendEnqueue(s)
  <2> DEFINE c == held[s]
             r == <<s, calls[s]>>
  <2>0. c \in Channels /\ r \in Records /\ loop[c] \notin Finished /\ pc[s] = "sending"
    BY <1>2 DEF SendEnqueue, Records
  <2>1. WalTypeOK'
    <3>1. \A g \in Seq(Records) : Append(g, r) \in Seq(Records)
      BY <2>0
    <3>2. queue' \in [Channels -> Seq(Records)] /\ accepted' \in [Channels -> Seq(Records)]
      BY <1>2, <2>0, <3>1 DEF SendEnqueue
    <3> QED
      BY <1>2, <3>2 DEF SendEnqueue
  <2>2. WrittenInOrder'
    <3> SUFFICES ASSUME NEW d \in Channels PROVE Precedes(file[d], accepted'[d])
      BY <1>2 DEF WrittenInOrder, SendEnqueue
    <3>1. Precedes(file[d], accepted[d])
      BY DEF WrittenInOrder
    <3>2. accepted'[d] = accepted[d] \/ accepted'[d] = Append(accepted[d], r)
      BY <1>2 DEF SendEnqueue
    <3>3. file[d] \in Seq(Records) /\ accepted[d] \in Seq(Records)
      OBVIOUS
    <3> HIDE DEF WalInv, WalTypeOK, r
    <3> QED
      BY <2>0, <3>1, <3>2, <3>3, PrefixOfAppend
  <2>3. AliveKeepsAll'
    <3> SUFFICES ASSUME NEW d \in Channels, loop[d] \notin Finished
                 PROVE  accepted'[d] = file[d] \o queue'[d]
      BY <1>2 DEF AliveKeepsAll, SendEnqueue
    <3>1. accepted[d] = file[d] \o queue[d]
      BY DEF AliveKeepsAll
    <3>2. CASE d = c
      <4>1. accepted'[d] = Append(accepted[d], r) /\ queue'[d] = Append(queue[d], r)
        BY <1>2, <3>2 DEF SendEnqueue
      <4>2. file[d] \in Seq(Records) /\ queue[d] \in Seq(Records)
        OBVIOUS
      <4>3. Append(file[d] \o queue[d], r) = file[d] \o Append(queue[d], r)
        BY ONLY <2>0, <4>2, AppendToConcat
      <4> QED
        BY ONLY <3>1, <4>1, <4>3
    <3>3. CASE d # c
      BY <1>2, <3>1, <3>3 DEF SendEnqueue
    <3> QED
      BY <3>2, <3>3
  <2>4. RotationDrains'
    BY <1>2, <2>0 DEF SendEnqueue, RotationDrains, Finished
  <2>5. Leaving'
    BY <1>2, <2>0 DEF SendEnqueue, Leaving
  <2>6. (Future /\ LiveLoops)'
    BY <1>2 DEF SendEnqueue, Future, LiveLoops
  <2> QED
    BY <2>1, <2>2, <2>3, <2>4, <2>5, <2>6
<1>3. CASE SendError(s)
  <2>1. WalTypeOK'
    BY <1>3 DEF SendError
  <2>2. (WrittenInOrder /\ AliveKeepsAll /\ RotationDrains)'
    BY <1>3 DEF SendError, WrittenInOrder, AliveKeepsAll, RotationDrains
  <2>3. Leaving'
    BY <1>3 DEF SendError, Leaving
  <2>4. (Future /\ LiveLoops)'
    BY <1>3 DEF SendError, Future, LiveLoops
  <2> QED
    BY <2>1, <2>2, <2>3, <2>4
<1>4. CASE SendCount(s)
  <2>1. WalTypeOK'
    <3>1. totalLen + 1 \in Nat
      OBVIOUS
    <3> QED
      BY <1>4, <3>1 DEF SendCount
  <2>2. (WrittenInOrder /\ AliveKeepsAll /\ RotationDrains)'
    BY <1>4 DEF SendCount, WrittenInOrder, AliveKeepsAll, RotationDrains
  <2>3. Leaving'
    BY <1>4 DEF SendCount, Leaving
  <2>4. (Future /\ LiveLoops)'
    BY <1>4 DEF SendCount, Future, LiveLoops
  <2> QED
    BY <2>1, <2>2, <2>3, <2>4
<1> QED
  BY <1>1, <1>2, <1>3, <1>4 DEF Send

\* So do the steps of a background loop.
LEMMA LoopKeeps ==
  ASSUME WalInv, NEW c \in Channels, LoopStep(c) \/ LoopAppendFails(c)
  PROVE  WalInv'
<1> USE DEF WalInv, WalTypeOK, senderVars, loopVars, innerVars
<1>1. CASE LoopAppend(c)
  <2>1. /\ accepted[c] = file[c] \o queue[c]
        /\ file'[c] = Append(file[c], Head(queue[c]))
        /\ queue'[c] = Tail(queue[c])
        /\ queue[c] # <<>>
    BY <1>1 DEF LoopAppend, AliveKeepsAll, Finished
  <2>2. /\ file'[c] \o queue'[c] = accepted[c]
        /\ file'[c] \in Seq(Records)
        /\ queue'[c] \in Seq(Records)
    <3>1. file[c] \in Seq(Records) /\ queue[c] \in Seq(Records)
      OBVIOUS
    <3>2. /\ Append(file[c], Head(queue[c])) \o Tail(queue[c]) = file[c] \o queue[c]
          /\ Append(file[c], Head(queue[c])) \in Seq(Records)
          /\ Tail(queue[c]) \in Seq(Records)
      BY ONLY <2>1, <3>1, MoveHead
    <3> QED
      BY ONLY <2>1, <3>2
  <2>3. WalTypeOK'
    BY <1>1, <2>1, <2>2 DEF LoopAppend
  <2>4. Precedes(file'[c], accepted[c])
    <3> HIDE DEF WalInv, WalTypeOK
    <3> QED
      BY <2>2, PrefixOfConcat
  <2>5. WrittenInOrder'
    BY <1>1, <2>4 DEF LoopAppend, WrittenInOrder
  <2>6. AliveKeepsAll'
    BY <1>1, <2>2 DEF LoopAppend, AliveKeepsAll
  <2>7. (RotationDrains /\ Leaving)'
    BY <1>1 DEF LoopAppend, RotationDrains, Leaving
  <2>8. (Future /\ LiveLoops)'
    BY <1>1 DEF LoopAppend, Future, LiveLoops
  <2> QED
    BY <2>3, <2>5, <2>6, <2>7, <2>8
<1>2. CASE LoopAppendFails(c)
  <2>1. WalTypeOK'
    BY <1>2 DEF LoopAppendFails, LoopStates
  <2>2. (WrittenInOrder /\ AliveKeepsAll /\ RotationDrains)'
    BY <1>2 DEF LoopAppendFails, WrittenInOrder, AliveKeepsAll, RotationDrains, Finished
  <2>3. Leaving'
    BY <1>2 DEF LoopAppendFails, Leaving
  <2>4. (Future /\ LiveLoops)'
    BY <1>2 DEF LoopAppendFails, Future, LiveLoops, Finished
  <2> QED
    BY <2>1, <2>2, <2>3, <2>4
<1>3. CASE LoopBreak(c)
  <2>1. (WalTypeOK /\ WrittenInOrder /\ AliveKeepsAll /\ RotationDrains)'
    BY <1>3 DEF LoopBreak, WrittenInOrder, AliveKeepsAll, RotationDrains, LoopStates, Finished
  <2>2. Leaving'
    BY <1>3 DEF LoopBreak, Leaving, Referenced
  <2>3. (Future /\ LiveLoops)'
    BY <1>3 DEF LoopBreak, Future, LiveLoops, Finished
  <2> QED
    BY <2>1, <2>2, <2>3
<1>4. CASE LoopDrained(c)
  <2>1. WalTypeOK'
    BY <1>4 DEF LoopDrained, LoopStates
  <2>2. (WrittenInOrder /\ AliveKeepsAll /\ RotationDrains)'
    BY <1>4 DEF LoopDrained, WrittenInOrder, AliveKeepsAll, RotationDrains, Finished
  <2>3. Leaving'
    BY <1>4 DEF LoopDrained, Leaving
  <2>4. (Future /\ LiveLoops)'
    BY <1>4 DEF LoopDrained, Future, LiveLoops, Finished
  <2> QED
    BY <2>1, <2>2, <2>3, <2>4
<1>5. CASE LoopEnd(c)
  <2>1. (WalTypeOK /\ WrittenInOrder /\ AliveKeepsAll)'
    <3>1. WalTypeOK'
      BY <1>5 DEF LoopEnd, LoopStates
    <3>2. WrittenInOrder'
      BY <1>5 DEF LoopEnd, WrittenInOrder
    <3>3. AliveKeepsAll'
      BY <1>5 DEF LoopEnd, AliveKeepsAll, Finished
    <3> QED
      BY <3>1, <3>2, <3>3
  <2>2. RotationDrains'
    <3>1. c \notin signalled => accepted[c] = file[c] \o <<>>
      BY <1>5 DEF LoopEnd, Leaving, AliveKeepsAll, Finished
    <3>2. file[c] \o <<>> = file[c]
      OBVIOUS
    <3> QED
      BY <1>5, <3>1, <3>2 DEF LoopEnd, RotationDrains
  <2>3. (Leaving /\ Future /\ LiveLoops)'
    BY <1>5 DEF LoopEnd, Leaving, Future, LiveLoops, Finished
  <2> QED
    BY <2>1, <2>2, <2>3
<1> QED
  BY <1>1, <1>2, <1>3, <1>4, <1>5 DEF LoopStep

\* And rotate() and interrupt().
LEMMA InnerKeeps == ASSUME WalInv, RotateSwap \/ Interrupt \/ Join PROVE WalInv'
<1> USE DEF WalInv, WalTypeOK, senderVars, loopVars, innerVars
<1>1. CASE RotateSwap
  <2>1. WalTypeOK'
    <3>1. cur' \in Channels
      BY <1>1 DEF RotateSwap, Channels
    <3> QED
      BY <1>1, <3>1 DEF RotateSwap
  <2>2. (WrittenInOrder /\ AliveKeepsAll /\ RotationDrains)'
    BY <1>1 DEF RotateSwap, WrittenInOrder, AliveKeepsAll, RotationDrains
  <2>0. cur \in Nat /\ cur' = cur + 1 /\ \A s \in Senders : held[s] \in Nat
    BY <1>1 DEF RotateSwap, Channels
  <2>3. Leaving'
    <3>1. loop[cur'] = "unspawned"
      BY <2>1, <2>0 DEF Future, Channels
    <3> QED
      BY <1>1, <3>1 DEF RotateSwap, Leaving
  <2>4. Future'
    <3>1. \A c \in Channels : c \in Int
      BY DEF Channels
    <3>2. /\ \A c \in Channels : c > cur => loop[c] = "unspawned"
          /\ \A s \in Senders : held[s] <= cur
          /\ loop' = loop /\ held' = held
      BY <1>1 DEF RotateSwap, Future
    <3> QED
      BY ONLY <2>0, <3>1, <3>2 DEF Future
  <2>5. LiveLoops'
    BY <1>1 DEF RotateSwap, Future, LiveLoops, Channels
  <2> QED
    BY <2>1, <2>2, <2>3, <2>4, <2>5
<1>2. CASE RotateSpawn
  <2>1. WalTypeOK'
    BY <1>2 DEF RotateSpawn, LoopStates
  <2>2. (WrittenInOrder /\ AliveKeepsAll /\ RotationDrains)'
    BY <1>2 DEF RotateSpawn, WrittenInOrder, AliveKeepsAll, RotationDrains, LiveLoops, Finished
  <2>3. (Leaving /\ Future)'
    <3>1. Leaving'
      BY <1>2 DEF RotateSpawn, Leaving
    <3>2. Future'
      BY <1>2 DEF RotateSpawn, Future, Channels
    <3> QED
      BY <3>1, <3>2
  <2>4. LiveLoops'
    <3>1. path' = cur' /\ handle' = path' /\ op' # "rotateJoin"
      BY <1>2 DEF RotateSpawn
    <3>2. ASSUME NEW c \in Channels, c <= cur, loop'[c] \notin Finished
          PROVE  c = handle'
      <4>1. c # cur => loop[c] \notin Finished /\ loop'[c] = loop[c]
        BY <1>2, <3>2 DEF RotateSpawn
      <4>2. c # cur => c = handle
        BY <3>2, <4>1 DEF LiveLoops
      <4> QED
        <5>1. CASE c = cur
          BY <1>2, <5>1 DEF RotateSpawn
        <5>2. CASE c # cur
          <6>1. handle # None => loop[handle] \in Finished
            BY <1>2 DEF RotateSpawn, Finished
          <6>2. c # None
            BY NoneAssumption DEF Channels
          <6> QED
            BY <4>1, <4>2, <5>2, <6>1, <6>2
        <5> QED
          BY <5>1, <5>2
    <3>3. cur' = cur /\ path' <= cur'
      BY <1>2 DEF RotateSpawn, Channels
    <3> QED
      BY <3>1, <3>2, <3>3 DEF LiveLoops
  <2> QED
    BY <2>1, <2>2, <2>3, <2>4
<1>3. CASE RotateFails
  <2>1. WalTypeOK'
    BY <1>3 DEF RotateFails, LoopStates
  <2>2. (WrittenInOrder /\ AliveKeepsAll /\ RotationDrains)'
    BY <1>3 DEF RotateFails, WrittenInOrder, AliveKeepsAll, RotationDrains, Finished
  <2>3. Leaving'
    BY <1>3 DEF RotateFails, Leaving
  <2>4. Future'
    <3>1. ASSUME NEW c \in Channels, c > cur PROVE loop'[c] = "unspawned"
      <4>1. loop[c] = "unspawned" /\ c # cur
        BY <3>1 DEF Future, Channels
      <4> QED
        BY <1>3, <4>1 DEF RotateFails
    <3>2. \A s \in Senders : held[s] <= cur
      BY DEF Future
    <3> QED
      BY <1>3, <3>1, <3>2 DEF RotateFails, Future
  <2>5. LiveLoops'
    BY <1>3 DEF RotateFails, LiveLoops, Finished, Channels
  <2> QED
    BY <2>1, <2>2, <2>3, <2>4, <2>5
<1>4. CASE RotateStore
  <2>1. WalTypeOK'
    BY <1>4 DEF RotateStore
  <2>2. (WrittenInOrder /\ AliveKeepsAll /\ RotationDrains)'
    BY <1>4 DEF RotateStore, WrittenInOrder, AliveKeepsAll, RotationDrains
  <2>3. Leaving'
    BY <1>4 DEF RotateStore, Leaving
  <2>4. (Future /\ LiveLoops)'
    BY <1>4 DEF RotateStore, Future, LiveLoops
  <2> QED
    BY <2>1, <2>2, <2>3, <2>4
<1>5. CASE Interrupt
  <2>1. WalTypeOK'
    BY <1>5 DEF Interrupt
  <2>2. (WrittenInOrder /\ AliveKeepsAll /\ RotationDrains)'
    BY <1>5 DEF Interrupt, WrittenInOrder, AliveKeepsAll, RotationDrains
  <2>3. Leaving'
    BY <1>5 DEF Interrupt, Leaving
  <2>4. (Future /\ LiveLoops)'
    BY <1>5 DEF Interrupt, Future, LiveLoops
  <2> QED
    BY <2>1, <2>2, <2>3, <2>4
<1>6. CASE InterruptJoined
  <2>1. WalTypeOK'
    BY <1>6 DEF InterruptJoined
  <2>2. (WrittenInOrder /\ AliveKeepsAll /\ RotationDrains)'
    BY <1>6 DEF InterruptJoined, WrittenInOrder, AliveKeepsAll, RotationDrains
  <2>3. Leaving'
    BY <1>6 DEF InterruptJoined, Leaving
  <2>4. (Future /\ LiveLoops)'
    BY <1>6 DEF InterruptJoined, Future, LiveLoops
  <2> QED
    BY <2>1, <2>2, <2>3, <2>4
<1> QED
  BY <1>1, <1>2, <1>3, <1>4, <1>5, <1>6 DEF Join

-----------------------------------------------------------------------------
\* WalInv is an invariant.
LEMMA WalInvariance == WalSpec => []WalInv
<1>1. WalInv /\ [WalNext]_walVars => WalInv'
  <2> SUFFICES ASSUME WalInv, [WalNext]_walVars PROVE WalInv'
    OBVIOUS
  <2>1. CASE WalNext
    BY <2>1, SendKeeps, LoopKeeps, InnerKeeps DEF WalNext
  <2>2. CASE UNCHANGED walVars
    BY <2>2 DEF walVars, WalInv, WalTypeOK, WrittenInOrder, AliveKeepsAll, RotationDrains,
                Leaving, Future, LiveLoops
  <2> QED
    BY <2>1, <2>2
<1> QED
  BY WalStarts, <1>1, PTL DEF WalSpec

\* Every variable of the WAL manager stays within its type.
THEOREM WalTypeCorrect == WalSpec => []WalTypeOK
BY WalInvariance, PTL DEF WalInv

\* A .pyrowal file is a prefix of what its channel accepted, and a loop that
\* ended unsignalled and without error has written all of it: rotate() loses
\* and reorders nothing.
THEOREM RotationIsLossless == WalSpec => [](WrittenInOrder /\ RotationDrains)
BY WalInvariance, PTL DEF WalInv

\* What a channel accepted is in its file or still queued for it, in order, as long as its
\* loop is alive: send() may return before the append, but not lose.
THEOREM AliveChannelLosesNothing == WalSpec => []AliveKeepsAll
BY WalInvariance, PTL DEF WalInv

\* No loop of an earlier file is alive once wal_path names a later one.
THEOREM PathHasOneWriter == WalSpec => []OneWriterPerPath
<1>1. WalInv => OneWriterPerPath
  BY DEF WalInv, WalTypeOK, LiveLoops, OneWriterPerPath, Channels
<1> QED
  BY WalInvariance, <1>1, PTL

\* A rotated file is never written again, so flush_wal may delete it.
THEOREM RotatedFileIsSealed == WalSpec => SealedStaysSealed
<1>1. WalInv => OneWriterPerPath
  BY DEF WalInv, WalTypeOK, LiveLoops, OneWriterPerPath, Channels
<1>2. WalInv /\ [WalNext]_walVars => [\A c \in Channels : c < path => file'[c] = file[c]]_walVars
  <2> SUFFICES ASSUME WalInv, WalNext, NEW c \in Channels, c < path
               PROVE  file'[c] = file[c]
    BY DEF walVars
  <2>1. loop[c] \notin {"running", "draining"}
    BY <1>1 DEF OneWriterPerPath, Finished
  <2>2. ASSUME NEW d \in Channels, LoopStep(d) \/ LoopAppendFails(d)
        PROVE  file'[c] = file[c]
    BY <2>1, <2>2 DEF WalInv, WalTypeOK, LoopStep, LoopAppend, LoopBreak, LoopDrained,
                      LoopEnd, LoopAppendFails
  <2> QED
    BY <2>2 DEF WalNext, Send, SendClone, SendEnqueue, SendError, SendCount, RotateSwap,
                Interrupt, Join, RotateSpawn, RotateFails, RotateStore, InterruptJoined,
                loopVars
<1> QED
  BY WalInvariance, <1>2, PTL DEF WalSpec, SealedStaysSealed

-----------------------------------------------------------------------------
(***************************************************************************)
(* The log a pipeline appends to, LogWal: any capacity of a segment, sizes *)
(* of batches, arguments of deletions and number of crashes.               *)
(*                                                                         *)
(* AckedEntriesKept needs to know where the batch is at every step         *)
(* (Pending, Survive), that all numbers of the buffers come after all on   *)
(* disk (Ordered), and that a deletion takes only what it was asked to:    *)
(* the segments after one it takes hold as many entries as total_entries   *)
(* says (EntriesAfter, which counts their places), unless an earlier       *)
(* deletion that a crash cut short left a gap among them; then what the    *)
(* segment holds was to go before (Gaps).  IndexFindsEntries follows from  *)
(* what the index files hold or are about to (IndexFiles), and from what a *)
(* deletion leaves in place (Deletion, Convex, Oldest).  What a reader     *)
(* finds besides is on Tears: behind a frame that was cut short there is   *)
(* only what was handed in later.                                          *)
(***************************************************************************)
\* The files of the segments, of entries or of offsets
FilesOf(S) == [Segments -> Seq(S) \cup {Absent}]

\* One file is another.
Changed(new, files, c, f) == new[c] = f /\ \A n \in Segments \ {c} : new[n] = files[n]

\* What the segments hold
Held(files) == UNION {Range(files[n]) : n \in Present(files)}

\* They are read in order.
IsOrdered(files) ==
  \A n, m \in Present(files) : \A j \in 1 .. Len(files[n]), k \in 1 .. Len(files[m]) :
    n < m \/ (n = m /\ j < k) => files[n][j] < files[m][k]

\* The entries of the batch that are not on disk yet, in the order of the batch
Pending == logBuf \o todo

\* The active segment is the last one; the others are full, and nothing is longer,
\* unless open() took frames behind a cut one for more or fewer than they are.
Disk ==
  /\ currentFileIndex \in Present(seg)
  /\ \A n \in Present(seg) :
       /\ n <= currentFileIndex
       /\ ~miscounted => Len(seg[n]) <= Capacity
       /\ ~miscounted /\ n < currentFileIndex => Len(seg[n]) = Capacity
  /\ Present(idx) = Present(seg)

\* What the writers hold, at every step of an operation; only the end of the process
\* in an append cuts a frame short.
Writers ==
  /\ ~up => stage = "idle"
  /\ stage \notin {"write", "rotate", "flush"} => logBuf = <<>> /\ idxBuf = <<>> /\ todo = <<>>
  /\ stage = "flush" => idxBuf = <<>> /\ todo = <<>>
  /\ stage = "rotate" => logBuf = <<>> /\ currentEntries = Capacity /\ currentFileIndex < MaxSegments
  /\ stage = "truncate" => seg[currentFileIndex] = <<>>
  /\ up /\ stage # "truncate" /\ ~miscounted =>
       Len(seg[currentFileIndex]) + Len(logBuf) = currentEntries
  /\ miscounted \/ (\E n \in Segments : torn[n] # Absent) => dirty

\* total_entries counts from the first segment, or from the last purge.
Totals ==
  up => /\ totalEntries <= currentFileIndex * Capacity + currentEntries
        /\ ~purged => totalEntries = currentFileIndex * Capacity + currentEntries

\* The offsets of n entries
OffsetsOf(n) == [k \in 1 .. n |-> k - 1]

\* The indices are right, or about to be, while no operation was cut short.
IndexFiles ==
  ~dirty =>
    /\ \A n \in Present(seg) : n < currentFileIndex => idx[n] = OffsetsOf(Capacity)
    /\ stage # "truncate" =>
         idx[currentFileIndex] \o idxBuf
           = OffsetsOf(Len(seg[currentFileIndex]) + Len(logBuf))

\* A deletion takes the oldest segments, in any order; a full purge all but the active one.
Deletion ==
  /\ stage \notin {"delete", "purge"} => doomed = {}
  /\ doomed \subseteq Present(seg) \ {currentFileIndex}
  /\ \A n \in Present(seg), m \in doomed : n < m => n \in doomed
  /\ \A n \in doomed : Range(seg[n]) \subseteq removable
  /\ stage \in {"purge", "truncate"} => Held(seg) \subseteq removable
  /\ stage \in {"purge", "truncate"} /\ ~purged => Present(seg) \subseteq doomed \cup {currentFileIndex}

\* No segment is missing between those that stay.
Convex ==
  ~dirty =>
    \A n \in Present(seg) \ doomed : n .. currentFileIndex \subseteq Present(seg) \ doomed

Oldest ==
  up /\ ~purged /\ ~dirty /\ stage \notin {"delete", "purge", "truncate"} =>
    /\ oldestFileIndex \in Present(seg)
    /\ \A n \in Present(seg) : oldestFileIndex <= n

\* Where a deletion that was cut short left a segment before a missing one, what
\* it holds was to go.
Gaps ==
  \A n \in Present(seg), m \in Segments \ Present(seg) :
    n < m /\ m < currentFileIndex => Range(seg[n]) \subseteq removable

\* Entries are in the order they were appended.
Ordered ==
  /\ IsOrdered(seg)
  /\ \A j, k \in 1 .. Len(Pending) : j < k => Pending[j] < Pending[k]
  /\ \A e \in Held(seg) : e <= sent /\ \A k \in 1 .. Len(Pending) : e < Pending[k]
  /\ \A k \in 1 .. Len(Pending) : Pending[k] <= sent

\* What was acknowledged is on disk, and so will be the batch.
Survive ==
  /\ acked \ removable \subseteq Held(seg)
  /\ stage \in {"write", "rotate", "flush"} => batch \subseteq Held(seg) \cup Range(Pending)

LogInv ==
  /\ LogTypeOK /\ Disk /\ Writers /\ Totals /\ IndexFiles /\ Deletion /\ Convex /\ Oldest
  /\ Gaps /\ Ordered /\ Survive

\* What is known of the constants
LEMMA LogConstants ==
  /\ Capacity \in Nat \ {0} /\ MaxSegments \in Nat /\ MaxEntries \in Nat
  /\ Absent \notin Nat /\ \A S \in SUBSET Nat : Absent \notin Seq(S)
  /\ \A S : <<>> \in Seq(S)
<1>1. ASSUME NEW S \in SUBSET Nat, NEW t \in Seq(S)
      PROVE  t \in Seq(Nat)
  BY SeqMonotonic
<1>2. \A S : <<>> \in Seq(S)
  BY EmptySeq
<1> QED
  BY <1>1, <1>2, CapacityAssumption, BoundsAssumption, AbsentAssumption

\* A place i in segment n is found again.
LEMMA PlaceOf ==
  ASSUME NEW n \in Nat, NEW k \in 0 .. Capacity - 1
  PROVE  /\ (n * Capacity + k) \div Capacity = n
         /\ (n * Capacity + k) % Capacity = k
<1> DEFINE i == n * Capacity + k
<1>0. Capacity \in Nat \ {0}
  BY LogConstants
<1>1. i \in Nat
  BY <1>0
<1>2. PICK q \in Int, r \in Int : q = i \div Capacity /\ r = i % Capacity
  BY <1>0, <1>1
<1>3. i = Capacity * q + r /\ 0 <= r /\ r < Capacity
  BY <1>0, <1>1, <1>2
<1> HIDE DEF i
<1>4. n * Capacity + k = Capacity * q + r
  BY <1>3 DEF i
<1>5. ~(q < n)
  <2> SUFFICES ASSUME q + 1 <= n PROVE FALSE
    BY <1>2
  <2>1. Capacity * (q + 1) <= Capacity * n
    BY <1>0, <1>2
  <2> QED
    BY <1>0, <1>2, <1>3, <1>4, <2>1
<1>6. ~(n < q)
  <2> SUFFICES ASSUME n + 1 <= q PROVE FALSE
    BY <1>2
  <2>1. Capacity * (n + 1) <= Capacity * q
    BY <1>0, <1>2
  <2> QED
    BY <1>0, <1>2, <1>3, <1>4, <2>1
<1>7. q = n
  BY <1>2, <1>5, <1>6
<1> QED
  BY <1>0, <1>2, <1>4, <1>7 DEF i

\* A number has a segment and a place in it, and a segment before another ends first.
LEMMA SegmentOf ==
  ASSUME NEW i \in Nat
  PROVE  /\ i \div Capacity \in Nat /\ i % Capacity \in 0 .. Capacity - 1
         /\ i = (i \div Capacity) * Capacity + (i % Capacity)
<1> DEFINE q == i \div Capacity
           r == i % Capacity
<1>0. Capacity \in Nat \ {0}
  BY LogConstants
<1>1. q \in Int /\ r \in Int /\ i = Capacity * q + r /\ 0 <= r /\ r < Capacity
  BY <1>0
<1> SUFFICES q \in Nat /\ r \in 0 .. Capacity - 1 /\ i = q * Capacity + r
  OBVIOUS
<1> HIDE DEF q, r
<1>2. ~(q < 0)
  <2> SUFFICES ASSUME q <= -1 PROVE FALSE
    BY <1>1
  <2>1. Capacity * q <= Capacity * (-1)
    BY <1>0, <1>1
  <2> QED
    BY <1>0, <1>1, <2>1
<1>3. Capacity * q = q * Capacity
  BY <1>0, <1>1
<1> QED
  BY <1>0, <1>1, <1>2, <1>3

LEMMA EndsFirst ==
  ASSUME NEW n \in Nat, NEW m \in Nat, n < m
  PROVE  n * Capacity + Capacity <= m * Capacity /\ (n + 1) * Capacity = n * Capacity + Capacity
<1>0. Capacity \in Nat \ {0}
  BY LogConstants
<1>1. (n + 1) * Capacity <= m * Capacity
  BY <1>0
<1>2. (n + 1) * Capacity = n * Capacity + Capacity
  BY <1>0
<1> QED
  BY <1>1, <1>2

LEMMA HeldIs ==
  ASSUME NEW files
  PROVE  \A e : e \in Held(files) <=> \E n \in Present(files) : e \in Range(files[n])
BY DEF Held

LEMMA RangeIs ==
  ASSUME NEW S, NEW t \in Seq(S)
  PROVE  \A e : e \in Range(t) <=> \E k \in 1 .. Len(t) : e = t[k]
BY LenProperties DEF Range

LEMMA EmptyRange == Range(<<>>) = {} /\ Len(<<>>) = 0
<1>1. <<>> \in Seq({}) /\ Len(<<>>) = 0
  BY EmptySeq
<1>2. DOMAIN <<>> = 1 .. 0
  BY <1>1, LenProperties
<1>3. Range(<<>>) = {}
  BY <1>2 DEF Range
<1> QED
  BY <1>1, <1>3

LEMMA PlacesAre ==
  /\ \A p : p \in Places <=> \E n \in Present(seg) : \E k \in 1 .. Len(seg[n]) : p = <<n, k>>
  /\ \A n, k : EntryAt(<<n, k>>) = seg[n][k]
  /\ \A n, k, m, j : ReadBefore(<<n, k>>, <<m, j>>) <=> n < m \/ (n = m /\ k < j)
<1>1. \A p : p \in Places <=> \E n \in Present(seg) : p \in {<<n, k>> : k \in 1 .. Len(seg[n])}
  BY DEF Places
<1>2. \A n, p : p \in {<<n, k>> : k \in 1 .. Len(seg[n])} <=> \E k \in 1 .. Len(seg[n]) : p = <<n, k>>
  OBVIOUS
<1> QED
  BY <1>1, <1>2 DEF EntryAt, ReadBefore

\* The type of a segment
LEMMA SegmentTypes ==
  ASSUME NEW S \in SUBSET Nat, NEW files \in FilesOf(S)
  PROVE  /\ \A n \in Segments : n \in Present(files) <=> files[n] # Absent
         /\ \A n \in Present(files) : n \in Segments /\ n \in Nat /\ files[n] \in Seq(S)
         /\ Segments \subseteq Nat
BY LogConstants DEF Present, Segments, FilesOf

LEMMA OnDiskIsHeld ==
  ASSUME LogTypeOK
  PROVE  OnDisk = Held(seg)
<1>1. \A e : e \in OnDisk <=> \E n \in Present(seg) : \E k \in 1 .. Len(seg[n]) : e = seg[n][k]
  <2>1. ASSUME NEW e \in OnDisk
        PROVE  \E n \in Present(seg) : \E k \in 1 .. Len(seg[n]) : e = seg[n][k]
    <3>1. PICK p \in Places : e = EntryAt(p)
      BY DEF OnDisk
    <3>2. PICK n \in Present(seg) : \E k \in 1 .. Len(seg[n]) : p = <<n, k>>
      BY PlacesAre
    <3>3. PICK k \in 1 .. Len(seg[n]) : p = <<n, k>>
      BY <3>2
    <3> QED
      BY <3>1, <3>3, PlacesAre
  <2>2. ASSUME NEW n \in Present(seg), NEW k \in 1 .. Len(seg[n])
        PROVE  seg[n][k] \in OnDisk
    <3>1. <<n, k>> \in Places /\ EntryAt(<<n, k>>) = seg[n][k]
      BY PlacesAre
    <3> QED
      BY <3>1 DEF OnDisk
  <2> QED
    BY <2>1, <2>2
<1>2. \A n \in Present(seg) : \A e : e \in Range(seg[n]) <=> \E k \in 1 .. Len(seg[n]) : e = seg[n][k]
  BY RangeIs DEF LogTypeOK, Present
<1>3. \A e : e \in Held(seg) <=> \E n \in Present(seg) : e \in Range(seg[n])
  BY HeldIs
<1>4. ASSUME NEW e PROVE e \in OnDisk <=> e \in Held(seg)
  <2>1. e \in OnDisk <=> \E n \in Present(seg) : e \in Range(seg[n])
    <3>1. e \in OnDisk => \E n \in Present(seg) : e \in Range(seg[n])
      <4>1. SUFFICES ASSUME e \in OnDisk PROVE \E n \in Present(seg) : e \in Range(seg[n])
        OBVIOUS
      <4>2. PICK n \in Present(seg) : \E k \in 1 .. Len(seg[n]) : e = seg[n][k]
        BY <1>1, <4>1
      <4> QED
        BY <1>2, <4>2
    <3>2. ASSUME NEW n \in Present(seg), e \in Range(seg[n]) PROVE e \in OnDisk
      <4>1. \E k \in 1 .. Len(seg[n]) : e = seg[n][k]
        BY <1>2, <3>2
      <4> QED
        BY <1>1, <4>1
    <3> QED
      BY <3>1, <3>2
  <2> QED
    BY <1>3, <2>1
<1> QED
  BY <1>4

LEMMA OrderIsReadOrder ==
  (\A p, q \in Places : ReadBefore(p, q) => EntryAt(p) < EntryAt(q)) <=> IsOrdered(seg)
<1>1. ASSUME IsOrdered(seg), NEW p \in Places, NEW q \in Places, ReadBefore(p, q)
      PROVE  EntryAt(p) < EntryAt(q)
  <2>1. PICK n \in Present(seg) : \E k \in 1 .. Len(seg[n]) : p = <<n, k>>
    BY PlacesAre
  <2>2. PICK m \in Present(seg) : \E j \in 1 .. Len(seg[m]) : q = <<m, j>>
    BY PlacesAre
  <2>3. PICK k \in 1 .. Len(seg[n]), j \in 1 .. Len(seg[m]) : p = <<n, k>> /\ q = <<m, j>>
    BY <2>1, <2>2
  <2>4. n < m \/ (n = m /\ k < j)
    BY <1>1, <2>3, PlacesAre
  <2>5. seg[n][k] < seg[m][j]
    BY <1>1, <2>4 DEF IsOrdered
  <2> QED
    BY <2>3, <2>5, PlacesAre
<1>2. ASSUME \A p, q \in Places : ReadBefore(p, q) => EntryAt(p) < EntryAt(q)
      PROVE  IsOrdered(seg)
  <2> SUFFICES ASSUME NEW n \in Present(seg), NEW m \in Present(seg),
                      NEW j \in 1 .. Len(seg[n]), NEW k \in 1 .. Len(seg[m]),
                      n < m \/ (n = m /\ j < k)
               PROVE  seg[n][j] < seg[m][k]
    BY DEF IsOrdered
  <2>1. <<n, j>> \in Places /\ <<m, k>> \in Places
    BY PlacesAre
  <2>2. ReadBefore(<<n, j>>, <<m, k>>)
    BY PlacesAre
  <2>3. EntryAt(<<n, j>>) < EntryAt(<<m, k>>)
    BY <1>2, <2>1, <2>2
  <2> QED
    BY <2>3, PlacesAre
<1> QED
  BY <1>1, <1>2

-----------------------------------------------------------------------------
(* What an operation does to the segments *)

LEMMA Change ==
  ASSUME NEW S, NEW files \in FilesOf(S), NEW c \in Segments, NEW f \in Seq(S) \cup {Absent},
         NEW new, new = [files EXCEPT ![c] = f]
  PROVE  new \in FilesOf(S) /\ Changed(new, files, c, f)
BY DEF FilesOf, Changed

\* The active segment is continued.
LEMMA Continued ==
  ASSUME NEW S \in SUBSET Nat, NEW files \in FilesOf(S),
         NEW c \in Present(files), NEW b \in Seq(S),
         NEW new, Changed(new, files, c, files[c] \o b)
  PROVE  /\ Present(new) = Present(files)
         /\ Held(new) = Held(files) \cup Range(b)
         /\ IsOrdered(files)
              /\ (\A n \in Present(files) : n <= c)
              /\ (\A j, k \in 1 .. Len(b) : j < k => b[j] < b[k])
              /\ (\A e \in Held(files), k \in 1 .. Len(b) : e < b[k])
              => IsOrdered(new)
<1>0. c \in Segments /\ files[c] \in Seq(S) /\ c \in Nat
  BY SegmentTypes
<1>1. files[c] \o b \in Seq(S)
  BY <1>0, ConcatProperties
<1>3. new[c] = files[c] \o b /\ \A n \in Segments \ {c} : new[n] = files[n]
  BY DEF Changed
<1>4. Present(new) = Present(files)
  BY <1>0, <1>1, <1>3, LogConstants DEF Present
<1>5. Len(new[c]) = Len(files[c]) + Len(b)
  BY <1>0, <1>3, ConcatProperties
<1>5a. Len(files[c]) \in Nat /\ Len(b) \in Nat
  BY <1>0, LenProperties
<1>5b. \A i \in 1 .. Len(new[c]) :
         /\ i <= Len(files[c]) => new[c][i] = files[c][i] /\ i \in 1 .. Len(files[c])
         /\ i > Len(files[c]) => new[c][i] = b[i - Len(files[c])] /\ i - Len(files[c]) \in 1 .. Len(b)
  <2>1. \A i \in 1 .. Len(files[c]) + Len(b) :
          (files[c] \o b)[i] = IF i <= Len(files[c]) THEN files[c][i] ELSE b[i - Len(files[c])]
    BY <1>0, ConcatProperties
  <2> QED
    BY <1>3, <1>5, <1>5a, <2>1
<1>6. Held(new) = Held(files) \cup Range(b)
  <2>1. Range(new[c]) = Range(files[c]) \cup Range(b)
    BY <1>0, <1>3, RangeConcatenation
  <2> QED
    BY <1>0, <1>3, <1>4, <2>1, HeldIs, SegmentTypes
<1>7. ASSUME IsOrdered(files), \A n \in Present(files) : n <= c,
             \A j, k \in 1 .. Len(b) : j < k => b[j] < b[k],
             \A e \in Held(files), k \in 1 .. Len(b) : e < b[k]
      PROVE  IsOrdered(new)
  <2> SUFFICES ASSUME NEW n \in Present(files), NEW m \in Present(files),
                      NEW j \in 1 .. Len(new[n]), NEW k \in 1 .. Len(new[m]),
                      n < m \/ (n = m /\ j < k)
               PROVE  new[n][j] < new[m][k]
    BY <1>4 DEF IsOrdered
  <2>0. n \in Segments /\ m \in Segments /\ n \in Nat /\ m \in Nat
        /\ files[n] \in Seq(S) /\ files[m] \in Seq(S)
    BY SegmentTypes
  <2>1. n <= c /\ m <= c
    BY <1>7
  <2>2. CASE m # c
    <3>0. n \in Nat /\ m \in Nat
      BY <2>0
    <3>1. n # c
      BY <1>0, <2>1, <2>2, <3>0
    <3>2. new[n] = files[n] /\ new[m] = files[m]
      BY <1>3, <2>0, <2>2, <3>1
    <3> QED
      BY <1>7, <3>2 DEF IsOrdered
  <2>3. CASE m = c /\ k <= Len(files[c])
    <3>1. new[m][k] = files[m][k]
      BY <1>5b, <2>3
    <3>2. new[n][j] = files[n][j] /\ j \in 1 .. Len(files[n])
      BY <1>0, <1>3, <2>0, <2>3, ConcatProperties
    <3> QED
      BY <1>7, <2>3, <3>1, <3>2 DEF IsOrdered
  <2>4. CASE m = c /\ k > Len(files[c])
    <3>1. new[m][k] = b[k - Len(files[c])] /\ k - Len(files[c]) \in 1 .. Len(b)
      BY <1>5b, <2>4
    <3>2. CASE n # c \/ j <= Len(files[c])
      <4>1. new[n][j] = files[n][j] /\ j \in 1 .. Len(files[n])
        <5>1. CASE n # c
          BY <1>3, <2>0, <5>1
        <5>2. CASE n = c
          BY <1>5b, <3>2, <5>2
        <5> QED
          BY <5>1, <5>2
      <4>2. files[n][j] \in Held(files)
        BY <2>0, <4>1, HeldIs, RangeIs
      <4> QED
        BY <1>7, <3>1, <4>1, <4>2
    <3>3. CASE n = c /\ j > Len(files[c])
      <4>1. new[n][j] = b[j - Len(files[c])] /\ j - Len(files[c]) \in 1 .. Len(b)
        BY <1>5b, <3>3
      <4>2. j < k /\ Len(files[c]) \in Nat /\ j \in Nat /\ k \in Nat
        BY <1>0, <2>4, <3>3, LenProperties
      <4> QED
        <5>1. j - Len(files[c]) < k - Len(files[c])
          BY <4>1, <4>2
        <5> QED
          BY <1>7, <3>1, <4>1, <5>1
    <3> QED
      BY <1>0, <3>2, <3>3, LenProperties
  <2> QED
    BY <1>0, <2>2, <2>3, <2>4, LenProperties
<1> QED
  BY <1>4, <1>6, <1>7

\* A segment is removed, ...
LEMMA Without ==
  ASSUME NEW S \in SUBSET Nat, NEW files \in FilesOf(S),
         NEW c \in Segments, NEW new, Changed(new, files, c, Absent)
  PROVE  /\ Present(new) = Present(files) \ {c}
         /\ Held(new) \subseteq Held(files)
         /\ Held(files) \subseteq Held(new) \cup Range(files[c])
         /\ IsOrdered(files) => IsOrdered(new)
<1>1. new[c] = Absent /\ \A n \in Segments \ {c} : new[n] = files[n]
  BY DEF Changed
<1>2. Present(new) = Present(files) \ {c}
  BY <1>1 DEF Present
<1>3. \A n \in Present(new) : new[n] = files[n]
  BY <1>1, <1>2 DEF Present
<1>4. /\ \A e : e \in Held(new) <=> \E n \in Present(new) : e \in Range(new[n])
      /\ \A e : e \in Held(files) <=> \E n \in Present(files) : e \in Range(files[n])
  BY HeldIs
<1>5. Held(new) \subseteq Held(files) /\ Held(files) \subseteq Held(new) \cup Range(files[c])
  BY <1>2, <1>3, <1>4
<1>6. IsOrdered(files) => IsOrdered(new)
  BY <1>2, <1>3 DEF IsOrdered
<1> QED
  BY <1>2, <1>5, <1>6

\* ... emptied, ...
LEMMA Emptied ==
  ASSUME NEW S \in SUBSET Nat, NEW files \in FilesOf(S),
         NEW c \in Present(files), NEW new, Changed(new, files, c, <<>>)
  PROVE  /\ Present(new) = Present(files)
         /\ Held(new) \subseteq Held(files)
         /\ IsOrdered(files) => IsOrdered(new)
<1>0. c \in Segments
  BY SegmentTypes
<1>1. new[c] = <<>> /\ \A n \in Segments \ {c} : new[n] = files[n]
  BY DEF Changed
<1>2. <<>> # Absent /\ <<>> \in Seq(S)
  BY LogConstants
<1>3. Present(new) = Present(files)
  BY <1>0, <1>1, <1>2, SegmentTypes DEF Present
<1>4. Range(new[c]) = {} /\ Len(new[c]) = 0
  BY <1>1, EmptyRange
<1>5. \A n \in Present(files) \ {c} : new[n] = files[n]
  BY <1>1, SegmentTypes
<1>6. Held(new) \subseteq Held(files)
  <2>1. /\ \A e : e \in Held(new) <=> \E n \in Present(new) : e \in Range(new[n])
        /\ \A e : e \in Held(files) <=> \E n \in Present(files) : e \in Range(files[n])
    BY HeldIs
  <2> QED
    BY <1>3, <1>4, <1>5, <2>1
<1>7. IsOrdered(files) => IsOrdered(new)
  BY <1>3, <1>4, <1>5 DEF IsOrdered
<1> QED
  BY <1>3, <1>6, <1>7

\* ... or made where there was none.
LEMMA Opened ==
  ASSUME NEW S \in SUBSET Nat, NEW files \in FilesOf(S),
         NEW c \in Segments, NEW new,
         Changed(new, files, c, NewFile(files[c]))
  PROVE  /\ Present(new) = Present(files) \cup {c}
         /\ \A n \in Present(files) : new[n] = files[n]
         /\ c \notin Present(files) => new[c] = <<>>
         /\ Held(new) = Held(files)
         /\ IsOrdered(files) => IsOrdered(new)
<1>1. new[c] = NewFile(files[c]) /\ \A n \in Segments \ {c} : new[n] = files[n]
  BY DEF Changed
<1>2. <<>> # Absent /\ <<>> \in Seq(S)
  BY LogConstants
<1>3. c \in Present(files) => new[c] = files[c]
  BY <1>1 DEF NewFile, Present
<1>4. c \notin Present(files) => new[c] = <<>>
  BY <1>1 DEF NewFile, Present
<1>5. Present(new) = Present(files) \cup {c}
  BY <1>1, <1>2, <1>3, <1>4 DEF Present
<1>6. c \notin Present(files) => Range(new[c]) = {} /\ Len(new[c]) = 0
  BY <1>4, EmptyRange
<1>7. \A n \in Present(files) : new[n] = files[n]
  BY <1>1, <1>3 DEF Present
<1>8. Held(new) = Held(files)
  <2>1. /\ \A e : e \in Held(new) <=> \E n \in Present(new) : e \in Range(new[n])
        /\ \A e : e \in Held(files) <=> \E n \in Present(files) : e \in Range(files[n])
    BY HeldIs
  <2>2. \A e : e \in Held(new) <=> e \in Held(files)
    BY <1>5, <1>6, <1>7, <2>1
  <2> QED
    BY <2>2
<1>10. IsOrdered(files) => IsOrdered(new)
  BY <1>5, <1>6, <1>7 DEF IsOrdered
<1> QED
  BY <1>4, <1>5, <1>7, <1>8, <1>10

-----------------------------------------------------------------------------
\* The types of the files in the invariant
LEMMA FileFacts ==
  ASSUME LogInv
  PROVE  /\ Entries \in SUBSET Nat /\ Nat \in SUBSET Nat
         /\ seg \in FilesOf(Entries)
         /\ idx \in FilesOf(Nat)
         /\ Segments \subseteq Nat
         /\ currentFileIndex \in Present(seg) /\ currentFileIndex \in Present(idx)
         /\ currentFileIndex \in Nat
         /\ seg[currentFileIndex] \in Seq(Entries) /\ idx[currentFileIndex] \in Seq(Nat)
         /\ logBuf \in Seq(Entries) /\ todo \in Seq(Entries) /\ idxBuf \in Seq(Nat)
         /\ Pending \in Seq(Entries)
<1>1. Entries \in SUBSET Nat
  BY DEF Entries
<1>2. LogTypeOK /\ Disk
  BY DEF LogInv
<1>3. seg \in FilesOf(Entries) /\ idx \in FilesOf(Nat)
      /\ logBuf \in Seq(Entries) /\ todo \in Seq(Entries) /\ idxBuf \in Seq(Nat)
  BY <1>2 DEF LogTypeOK, FilesOf
<1>4. currentFileIndex \in Present(seg) /\ currentFileIndex \in Present(idx)
  BY <1>2 DEF Disk
<1>5. currentFileIndex \in Nat /\ seg[currentFileIndex] \in Seq(Entries) /\ Segments \subseteq Nat
  BY <1>1, <1>3, <1>4, SegmentTypes
<1>6. idx[currentFileIndex] \in Seq(Nat)
  BY <1>3, <1>4, SegmentTypes
<1>7. Pending \in Seq(Entries)
  BY <1>3, ConcatProperties DEF Pending
<1> QED
  BY <1>1, <1>3, <1>4, <1>5, <1>6, <1>7

LEMMA HeldType == ASSUME LogInv, NEW e \in Held(seg) PROVE e \in Entries /\ e \in Nat
<1>1. PICK n \in Present(seg) : e \in Range(seg[n])
  BY HeldIs
<1>2. seg[n] \in Seq(Entries)
  BY <1>1, FileFacts, SegmentTypes
<1>3. \E k \in 1 .. Len(seg[n]) : e = seg[n][k]
  BY <1>1, <1>2, RangeIs
<1>4. e \in Entries
  BY <1>2, <1>3, ElementOfSeq
<1> QED
  BY <1>4 DEF Entries

\* append_batch numbers its entries after all others.
LEMMA BatchKeeps ==
  ASSUME LogInv, NEW n \in BatchSizes, AppendBatch(n)
  PROVE  LogInv'
<1>0. /\ LogTypeOK /\ Disk /\ Writers /\ Totals /\ IndexFiles /\ Deletion /\ Convex /\ Oldest
      /\ Gaps /\ Ordered /\ Survive
  BY DEF LogInv
<1>1. n \in Nat \ {0} /\ sent \in Nat /\ sent + n <= MaxEntries /\ MaxEntries \in Nat
  BY <1>0, SizesAssumption, LogConstants DEF LogTypeOK, AppendBatch
<1>2. /\ todo' = [k \in 1 .. n |-> sent + k] /\ sent' = sent + n /\ batch' = sent + 1 .. sent + n
      /\ hidden' \subseteq hidden \cup batch'
  BY DEF AppendBatch
<1>3. todo' \in Seq(Entries) /\ Len(todo') = n
  BY <1>1, <1>2 DEF Entries
<1>4. stage = "idle" /\ stage' = "write" /\ logBuf = <<>> /\ up
  BY <1>0 DEF AppendBatch, Writers
<1>5. /\ UNCHANGED <<seg, idx, up, currentFileIndex, oldestFileIndex, currentEntries,
                     totalEntries, logBuf, idxBuf, doomed, acked, removable, dirty, purged,
                     crashes, torn, miscounted>>
  BY DEF AppendBatch, fileVars, memVars, bufVars
<1>6. Pending' = todo'
  BY <1>3, <1>4, <1>5, ConcatEmptySeq DEF Pending
<1>7. LogTypeOK'
  BY <1>0, <1>1, <1>2, <1>3, <1>4, <1>5 DEF LogTypeOK, Entries
<1>8. Disk' /\ Writers' /\ Totals' /\ IndexFiles'
  BY <1>0, <1>4, <1>5 DEF Disk, Writers, Totals, IndexFiles, Present, OffsetsOf
<1>9. Deletion' /\ Convex' /\ Oldest' /\ Gaps'
  BY <1>0, <1>4, <1>5 DEF Deletion, Convex, Oldest, Gaps, Present, Held
<1>10. Ordered'
  <2>1. IsOrdered(seg)' /\ Held(seg)' = Held(seg)
    BY <1>0, <1>5 DEF Ordered, IsOrdered, Held, Present
  <2>2. \A k \in 1 .. n : todo'[k] = sent + k
    BY <1>2
  <2>3. \A e \in Held(seg) : e <= sent /\ e \in Nat
    BY <1>0, HeldType DEF Ordered
  <2> QED
    BY <1>1, <1>2, <1>3, <1>6, <2>1, <2>2, <2>3 DEF Ordered
<1>11. Survive'
  <2>1. Held(seg)' = Held(seg)
    BY <1>5 DEF Held, Present
  <2>2. batch' \subseteq Range(todo')
    <3> SUFFICES ASSUME NEW e \in sent + 1 .. sent + n PROVE e \in Range(todo')
      BY <1>2
    <3>1. e - sent \in 1 .. n /\ todo'[e - sent] = e
      BY <1>1, <1>2
    <3> QED
      BY <1>3, <3>1, RangeIs
  <2> QED
    BY <1>0, <1>5, <1>6, <2>1, <2>2 DEF Survive
<1> QED
  BY <1>7, <1>8, <1>9, <1>10, <1>11 DEF LogInv

\* The first of t moves to the end of s.
LEMMA Moved ==
  ASSUME NEW S, NEW s \in Seq(S), NEW t \in Seq(S), t # <<>>
  PROVE  /\ Append(s, Head(t)) \in Seq(S) /\ Tail(t) \in Seq(S)
         /\ Len(Append(s, Head(t))) = Len(s) + 1
         /\ Append(s, Head(t)) \o Tail(t) = s \o t
OBVIOUS

\* One more after s and t
LEMMA OneMoreAfter ==
  ASSUME NEW S, NEW s \in Seq(S), NEW t \in Seq(S), NEW e \in S
  PROVE  s \o Append(t, e) = Append(s \o t, e)
OBVIOUS

\* One more offset
LEMMA NextOffset ==
  ASSUME NEW n \in Nat
  PROVE  OffsetsOf(n) \in Seq(Nat) /\ Len(OffsetsOf(n)) = n /\ Append(OffsetsOf(n), n) = OffsetsOf(n + 1)
<1>1. OffsetsOf(n) \in Seq(Nat) /\ Len(OffsetsOf(n)) = n
  BY DEF OffsetsOf
<1>2. OffsetsOf(n + 1) \in Seq(Nat) /\ Len(OffsetsOf(n + 1)) = n + 1
  BY DEF OffsetsOf
<1>3. Append(OffsetsOf(n), n) \in Seq(Nat) /\ Len(Append(OffsetsOf(n), n)) = n + 1
      /\ \A k \in 1 .. n + 1 : Append(OffsetsOf(n), n)[k] = IF k = n + 1 THEN n ELSE OffsetsOf(n)[k]
  BY <1>1, AppendProperties
<1>4. \A k \in 1 .. n + 1 : Append(OffsetsOf(n), n)[k] = OffsetsOf(n + 1)[k]
  BY <1>3 DEF OffsetsOf
<1> QED
  BY <1>1, <1>2, <1>3, <1>4, SeqEqual

\* A record goes to both buffers, and its place counts.
LEMMA BufferKeeps == ASSUME LogInv, BufferEntry PROVE LogInv'
<1>0. /\ LogTypeOK /\ Disk /\ Writers /\ Totals /\ IndexFiles /\ Deletion /\ Convex /\ Oldest
      /\ Gaps /\ Ordered /\ Survive
  BY DEF LogInv
<1>1. /\ stage = "write" /\ todo # <<>> /\ ~Full
      /\ idxBuf' = Append(idxBuf, currentEntries)
      /\ logBuf' = Append(logBuf, Head(todo)) /\ todo' = Tail(todo)
      /\ currentEntries' = currentEntries + 1 /\ totalEntries' = totalEntries + 1
      /\ UNCHANGED <<seg, idx, up, currentFileIndex, oldestFileIndex, doomed, stage, sent,
                     batch, acked, removable, dirty, purged, crashes, torn, hidden, miscounted>>
  BY DEF BufferEntry, fileVars, historyVars
<1>2. /\ currentEntries \in Nat /\ Capacity \in Nat /\ currentEntries < Capacity
      /\ totalEntries \in Nat /\ currentFileIndex \in Nat
  BY <1>0, <1>1, LogConstants, FileFacts DEF LogTypeOK, Full
<1>3. /\ logBuf' \in Seq(Entries) /\ todo' \in Seq(Entries)
      /\ Len(logBuf') = Len(logBuf) + 1 /\ Pending' = Pending
  <2>1. logBuf \in Seq(Entries) /\ todo \in Seq(Entries)
    BY FileFacts
  <2> QED
    BY <1>1, <2>1, Moved DEF Pending
<1>4. LogTypeOK'
  <2>1. idxBuf' \in Seq(Nat)
    BY <1>1, <1>2, FileFacts, AppendProperties
  <2>2. currentEntries' \in 0 .. Capacity /\ totalEntries' \in Nat
    BY <1>1, <1>2
  <2> QED
    BY <1>0, <1>1, <1>3, <2>1, <2>2 DEF LogTypeOK
<1>5. /\ up
      /\ ~miscounted => Len(seg[currentFileIndex]) + Len(logBuf) = currentEntries
      /\ Len(seg[currentFileIndex]) \in Nat /\ Len(logBuf) \in Nat
  BY <1>0, <1>1, FileFacts, LenProperties DEF Writers
<1>5a. ~miscounted => Len(seg[currentFileIndex]) + Len(logBuf') = currentEntries + 1
  <2> SUFFICES ASSUME ~miscounted PROVE Len(seg[currentFileIndex]) + Len(logBuf') = currentEntries + 1
    OBVIOUS
  <2>1. PICK a \in Nat : a = Len(seg[currentFileIndex])
    BY <1>5, Zenon
  <2>2. PICK b \in Nat : b = Len(logBuf)
    BY <1>5, Zenon
  <2>3. a + b = currentEntries /\ Len(logBuf') = b + 1
    BY <1>3, <1>5, <2>1, <2>2, Zenon
  <2>4. a + (b + 1) = (a + b) + 1
    OBVIOUS
  <2>5. Len(seg[currentFileIndex]) + Len(logBuf') = a + (b + 1)
    BY <2>1, <2>3, Zenon
  <2>6. a + (b + 1) = currentEntries + 1
    BY <2>3, <2>4, Zenon
  <2> QED
    BY <2>5, <2>6, Zenon
<1>6. Disk' /\ Writers'
  <2>1. ~miscounted => Len(seg[currentFileIndex]) + Len(logBuf') = currentEntries'
    BY <1>1, <1>5a
  <2>2. Disk'
    BY <1>0, <1>1 DEF Disk, Present
  <2> QED
    BY <1>0, <1>1, <2>1, <2>2 DEF Writers
<1>7. Totals'
  <2> DEFINE base == currentFileIndex * Capacity
  <2>1. base \in Nat
    BY <1>2
  <2>2. totalEntries <= base + currentEntries /\ (~purged => totalEntries = base + currentEntries)
    BY <1>0, <1>5 DEF Totals
  <2> HIDE DEF base
  <2>3. totalEntries + 1 <= base + (currentEntries + 1)
        /\ (~purged => totalEntries + 1 = base + (currentEntries + 1))
    BY <1>2, <2>1, <2>2
  <2> QED
    BY <1>1, <2>3 DEF Totals, base
<1>8. IndexFiles'
  <2>1. ASSUME ~dirty
        PROVE  idx[currentFileIndex] \o idxBuf' = OffsetsOf(Len(seg[currentFileIndex]) + Len(logBuf'))
    <3>0. ~miscounted
      BY <1>0, <2>1 DEF Writers
    <3>1. idx[currentFileIndex] \o idxBuf = OffsetsOf(currentEntries)
      BY <1>0, <1>1, <1>5, <2>1, <3>0 DEF IndexFiles
    <3>2. idx[currentFileIndex] \o idxBuf' = Append(OffsetsOf(currentEntries), currentEntries)
      <4>1. idx[currentFileIndex] \in Seq(Nat) /\ idxBuf \in Seq(Nat)
        BY FileFacts
      <4>2. idx[currentFileIndex] \o Append(idxBuf, currentEntries)
              = Append(idx[currentFileIndex] \o idxBuf, currentEntries)
        <5>1. \A s, t \in Seq(Nat) : s \o Append(t, currentEntries) = Append(s \o t, currentEntries)
          BY <1>2, OneMoreAfter
        <5> QED
          BY <4>1, <5>1
      <4> QED
        BY <1>1, <3>1, <4>2
    <3>3. Len(seg[currentFileIndex]) + Len(logBuf') = currentEntries + 1
      BY <1>5a, <3>0
    <3> QED
      BY <1>2, <3>2, <3>3, NextOffset
  <2>2. \A k : OffsetsOf(k)' = OffsetsOf(k)
    BY DEF OffsetsOf
  <2> QED
    BY <1>0, <1>1, <2>1 DEF IndexFiles, Present, OffsetsOf
<1>9. Deletion' /\ Convex' /\ Oldest' /\ Gaps'
  BY <1>0, <1>1 DEF Deletion, Convex, Oldest, Gaps, Present, Held
<1>10. Ordered' /\ Survive'
  BY <1>0, <1>1, <1>3 DEF Ordered, Survive, IsOrdered, Held, Present
<1> QED
  BY <1>4, <1>6, <1>7, <1>8, <1>9, <1>10 DEF LogInv

\* The writer of entries is flushed.
LEMMA LogFlushed ==
  ASSUME LogInv, up, stage \in {"write", "flush"},
         seg' = [seg EXCEPT ![currentFileIndex] = @ \o logBuf],
         logBuf' = <<>>,
         UNCHANGED <<idx, up, memVars, idxBuf, todo, doomed, sent, batch, removable, dirty,
                     purged, torn, hidden, miscounted>>
  PROVE  /\ seg' \in FilesOf(Entries) /\ logBuf' \in Seq(Entries)
         /\ Present(seg)' = Present(seg)
         /\ (~miscounted => Len(seg[currentFileIndex])' = currentEntries) /\ Len(logBuf') = 0
         /\ \A n \in Present(seg) : n # currentFileIndex => seg'[n] = seg[n]
         /\ Disk' /\ Totals' /\ Gaps' /\ Ordered'
         /\ Held(seg) \subseteq Held(seg)'
         /\ Held(seg)' \cup Range(Pending') = Held(seg) \cup Range(Pending)
         /\ Held(seg)' = Held(seg) \cup Range(logBuf)
         /\ ~dirty =>
              /\ \A n \in Present(seg) : n < currentFileIndex => idx[n] = OffsetsOf(Capacity)
              /\ idx[currentFileIndex] \o idxBuf = OffsetsOf(currentEntries)
<1>0. /\ LogTypeOK /\ Disk /\ Writers /\ Totals /\ IndexFiles /\ Deletion /\ Convex /\ Oldest
      /\ Gaps /\ Ordered /\ Survive
  BY DEF LogInv
<1>1. /\ UNCHANGED <<idx, up, currentFileIndex, oldestFileIndex, currentEntries, totalEntries,
                     idxBuf, todo, doomed, sent, batch, removable, dirty, purged, torn, hidden,
                     miscounted>>
  BY DEF memVars
<1>2. PICK c : c = currentFileIndex
  OBVIOUS
<1>3. PICK new : new = seg'
  OBVIOUS
<1>4. /\ Entries \in SUBSET Nat /\ seg \in FilesOf(Entries)
      /\ c \in Present(seg) /\ c \in Nat /\ seg[c] \in Seq(Entries) /\ logBuf \in Seq(Entries)
      /\ todo \in Seq(Entries) /\ Segments \subseteq Nat /\ Pending \in Seq(Entries)
  BY <1>2, FileFacts
<1>5. new = [seg EXCEPT ![c] = seg[c] \o logBuf]
  BY <1>2, <1>3
<1>6. /\ \A k \in 1 .. Len(logBuf) : Pending[k] = logBuf[k]
      /\ \A k \in 1 .. Len(todo) : Pending[k + Len(logBuf)] = todo[k]
      /\ Len(Pending) = Len(logBuf) + Len(todo)
      /\ Range(Pending) = Range(logBuf) \cup Range(todo)
  BY <1>4, ConcatProperties, RangeConcatenation DEF Pending
<1>7. Pending' = todo
  BY <1>1, <1>4, ConcatEmptySeq DEF Pending
<1>8. Len(logBuf) \in Nat /\ Len(todo) \in Nat /\ Len(seg[c]) \in Nat
  BY <1>4, LenProperties
<1>9. \A j, k \in 1 .. Len(logBuf) : j < k => logBuf[j] < logBuf[k]
  BY <1>0, <1>6, <1>8 DEF Ordered
<1>10. \A e \in Held(seg), k \in 1 .. Len(logBuf) : e < logBuf[k]
  BY <1>0, <1>6, <1>8 DEF Ordered
<1>11. IsOrdered(seg) /\ \A n \in Present(seg) : n <= c
  BY <1>0, <1>2 DEF Ordered, Disk
<1>12. /\ new \in FilesOf(Entries) /\ Present(new) = Present(seg)
       /\ \A n \in Segments \ {c} : new[n] = seg[n]
       /\ Len(new[c]) = Len(seg[c]) + Len(logBuf)
       /\ Held(new) = Held(seg) \cup Range(logBuf)
       /\ IsOrdered(new)
  <2>0. new \in FilesOf(Entries) /\ Changed(new, seg, c, seg[c] \o logBuf)
    <3>1. seg[c] \o logBuf \in Seq(Entries) /\ c \in Segments
      BY <1>4, ConcatProperties, SegmentTypes
    <3> QED
      BY <1>4, <1>5, <3>1, Change
  <2>1. Present(new) = Present(seg) /\ Held(new) = Held(seg) \cup Range(logBuf)
    BY <1>4, <2>0, Continued
  <2>2. IsOrdered(new)
    BY <1>4, <1>9, <1>10, <1>11, <2>0, Continued
  <2>3. Len(new[c]) = Len(seg[c]) + Len(logBuf)
    BY <1>4, <2>0, ConcatProperties DEF Changed
  <2> QED
    BY <2>0, <2>1, <2>2, <2>3 DEF Changed
<1>13. Present(seg)' = Present(new) /\ Held(seg)' = Held(new) /\ (IsOrdered(seg)' <=> IsOrdered(new))
  BY <1>3 DEF Present, Held, IsOrdered
<1>14. ~miscounted => Len(seg[c]) + Len(logBuf) = currentEntries
  BY <1>0, <1>2 DEF Writers
<1>15. (~miscounted => Len(new[c]) = currentEntries) /\ currentEntries <= Capacity
  BY <1>0, <1>12, <1>14, LogConstants DEF LogTypeOK
<1>16. \A n \in Present(seg) : n # c => new[n] = seg[n]
  BY <1>4, <1>12, SegmentTypes
<1>17. Disk'
  <2>1. Present(idx)' = Present(idx)
    BY <1>1 DEF Present
  <2>2. ~miscounted =>
          \A n \in Present(seg) : Len(new[n]) <= Capacity /\ (n < c => Len(new[n]) = Capacity)
    <3> SUFFICES ASSUME ~miscounted, NEW n \in Present(seg)
                 PROVE  Len(new[n]) <= Capacity /\ (n < c => Len(new[n]) = Capacity)
      OBVIOUS
    <3>1. CASE n = c
      BY <1>4, <1>15, <3>1
    <3>2. CASE n # c
      BY <1>0, <1>2, <1>16, <3>2 DEF Disk
    <3> QED
      BY <3>1, <3>2
  <2> QED
    <3>1. c \in Present(new) /\ Present(idx)' = Present(new) /\ \A n \in Present(new) : n <= c
      BY <1>0, <1>2, <1>12, <2>1 DEF Disk
    <3>2. currentFileIndex' = c /\ (~miscounted' => ~miscounted) /\ seg' = new /\ Present(seg)' = Present(new)
      BY <1>1, <1>2, <1>3, <1>13
    <3>3. \A n \in Present(new) :
            /\ n <= c
            /\ ~miscounted => Len(new[n]) <= Capacity
            /\ ~miscounted /\ n < c => Len(new[n]) = Capacity
      BY <1>12, <2>2, <3>1
    <3>4. Present(idx)' = Present(seg)' /\ currentFileIndex' \in Present(seg)'
      BY <3>1, <3>2
    <3> QED
      BY <3>2, <3>3, <3>4 DEF Disk
<1>18. Totals'
  BY <1>0, <1>1 DEF Totals
<1>19. Gaps'
  <2> SUFFICES ASSUME NEW n \in Present(seg), NEW m \in Segments \ Present(seg), n < m, m < c
               PROVE  Range(new[n]) \subseteq removable
    BY <1>1, <1>2, <1>3, <1>12, <1>13 DEF Gaps
  <2>1. n # c
    BY <1>4, SegmentTypes
  <2> QED
    BY <1>0, <1>2, <1>16, <2>1 DEF Gaps
<1>20. Ordered'
  <2>1. \A j, k \in 1 .. Len(todo) : j < k => todo[j] < todo[k]
    <3> SUFFICES ASSUME NEW j \in 1 .. Len(todo), NEW k \in 1 .. Len(todo), j < k
                 PROVE  todo[j] < todo[k]
      OBVIOUS
    <3>1. j + Len(logBuf) \in 1 .. Len(Pending) /\ k + Len(logBuf) \in 1 .. Len(Pending)
          /\ j + Len(logBuf) < k + Len(logBuf)
      BY <1>6, <1>8
    <3>2. Pending[j + Len(logBuf)] < Pending[k + Len(logBuf)]
      BY <1>0, <3>1 DEF Ordered
    <3> QED
      BY <1>6, <3>2
  <2>2. \A k \in 1 .. Len(todo) : todo[k] <= sent
    <3> SUFFICES ASSUME NEW k \in 1 .. Len(todo) PROVE todo[k] <= sent
      OBVIOUS
    <3>1. k + Len(logBuf) \in 1 .. Len(Pending)
      BY <1>6, <1>8
    <3> QED
      BY <1>0, <1>6, <3>1 DEF Ordered
  <2>3. ASSUME NEW e \in Held(new) PROVE e <= sent /\ \A k \in 1 .. Len(todo) : e < todo[k]
    <3>1. CASE e \in Held(seg)
      <4>1. \A k \in 1 .. Len(todo) : k + Len(logBuf) \in 1 .. Len(Pending)
        BY <1>6, <1>8
      <4> QED
        BY <1>0, <1>6, <3>1, <4>1 DEF Ordered
    <3>2. CASE e \in Range(logBuf)
      <4>1. PICK j \in 1 .. Len(logBuf) : e = logBuf[j]
        BY <1>4, <3>2, RangeIs
      <4>2. \A k \in 1 .. Len(todo) :
              k + Len(logBuf) \in 1 .. Len(Pending) /\ j \in 1 .. Len(Pending) /\ j < k + Len(logBuf)
        BY <1>6, <1>8
      <4>3. \A k \in 1 .. Len(todo) : Pending[j] < Pending[k + Len(logBuf)]
        BY <1>0, <4>2 DEF Ordered
      <4>4. j \in 1 .. Len(Pending)
        BY <1>6, <1>8
      <4> QED
        BY <1>0, <1>6, <4>1, <4>3, <4>4 DEF Ordered
    <3> QED
      BY <1>12, <2>3, <3>1, <3>2
  <2> QED
    BY <1>1, <1>7, <1>12, <1>13, <2>1, <2>2, <2>3 DEF Ordered
<1>21. logBuf' \in Seq(Entries) /\ Len(logBuf') = 0
  BY EmptySeq
<1>22. Held(seg)' \cup Range(Pending') = Held(seg) \cup Range(Pending)
  BY <1>6, <1>7, <1>12, <1>13
<1>23. ~dirty => /\ \A n \in Present(seg) : n < currentFileIndex => idx[n] = OffsetsOf(Capacity)
                 /\ idx[currentFileIndex] \o idxBuf = OffsetsOf(currentEntries)
  BY <1>0, <1>2, <1>14 DEF IndexFiles, Writers
<1> QED
  BY <1>1, <1>2, <1>3, <1>12, <1>13, <1>15, <1>16, <1>17, <1>18, <1>19, <1>20, <1>21, <1>22, <1>23

\* What a BufWriter writes early is what rotate or flush would have written.
LEMMA SpillKeeps == ASSUME LogInv, SpillLog PROVE LogInv'
<1>0. /\ LogTypeOK /\ Disk /\ Writers /\ Totals /\ IndexFiles /\ Deletion /\ Convex /\ Oldest
      /\ Gaps /\ Ordered /\ Survive
  BY DEF LogInv
<1>1. /\ stage = "write" /\ up
      /\ seg' = [seg EXCEPT ![currentFileIndex] = @ \o logBuf] /\ logBuf' = <<>>
      /\ UNCHANGED <<idx, up, memVars, idxBuf, todo, doomed, stage, sent, batch, acked,
                     removable, dirty, purged, crashes, torn, hidden, miscounted>>
      /\ UNCHANGED <<currentFileIndex, oldestFileIndex, currentEntries, totalEntries>>
  BY <1>0 DEF SpillLog, historyVars, memVars, Writers
<1>2. /\ seg' \in FilesOf(Entries) /\ logBuf' \in Seq(Entries)
      /\ Present(seg)' = Present(seg)
      /\ (~miscounted => Len(seg[currentFileIndex])' = currentEntries) /\ Len(logBuf') = 0
      /\ Disk' /\ Totals' /\ Gaps' /\ Ordered'
      /\ Held(seg) \subseteq Held(seg)'
      /\ Held(seg)' \cup Range(Pending') = Held(seg) \cup Range(Pending)
      /\ ~dirty =>
           /\ \A n \in Present(seg) : n < currentFileIndex => idx[n] = OffsetsOf(Capacity)
           /\ idx[currentFileIndex] \o idxBuf = OffsetsOf(currentEntries)
  BY <1>1, LogFlushed
<1>3. LogTypeOK'
  BY <1>0, <1>1, <1>2 DEF LogTypeOK, FilesOf
<1>4. currentEntries \in Nat /\ currentEntries + 0 = currentEntries
  BY <1>0, LogConstants DEF LogTypeOK, FilesOf
<1>5. Writers' /\ IndexFiles'
  BY <1>0, <1>1, <1>2, <1>4 DEF Writers, IndexFiles, OffsetsOf
<1>6. Deletion' /\ Convex' /\ Oldest'
  BY <1>0, <1>1, <1>2 DEF Deletion, Convex, Oldest
<1>7. Survive'
  BY <1>0, <1>1, <1>2 DEF Survive
<1> QED
  BY <1>2, <1>3, <1>5, <1>6, <1>7 DEF LogInv

\* rotate flushes the entries of a full segment.
LEMMA RotateFlushKeeps == ASSUME LogInv, RotateFlushLog PROVE LogInv'
<1>0. /\ LogTypeOK /\ Disk /\ Writers /\ Totals /\ IndexFiles /\ Deletion /\ Convex /\ Oldest
      /\ Gaps /\ Ordered /\ Survive
  BY DEF LogInv
<1>1. /\ stage = "write" /\ up /\ stage' = "rotate" /\ Full /\ currentFileIndex < MaxSegments
      /\ seg' = [seg EXCEPT ![currentFileIndex] = @ \o logBuf] /\ logBuf' = <<>>
      /\ UNCHANGED <<idx, up, memVars, idxBuf, todo, doomed, sent, batch, acked, removable,
                     dirty, purged, crashes, torn, hidden, miscounted>>
      /\ UNCHANGED <<currentFileIndex, oldestFileIndex, currentEntries, totalEntries>>
  BY <1>0 DEF RotateFlushLog, historyVars, memVars, Writers
<1>2. /\ seg' \in FilesOf(Entries) /\ logBuf' \in Seq(Entries)
      /\ Present(seg)' = Present(seg)
      /\ (~miscounted => Len(seg[currentFileIndex])' = currentEntries) /\ Len(logBuf') = 0
      /\ Disk' /\ Totals' /\ Gaps' /\ Ordered'
      /\ Held(seg) \subseteq Held(seg)'
      /\ Held(seg)' \cup Range(Pending') = Held(seg) \cup Range(Pending)
      /\ ~dirty =>
           /\ \A n \in Present(seg) : n < currentFileIndex => idx[n] = OffsetsOf(Capacity)
           /\ idx[currentFileIndex] \o idxBuf = OffsetsOf(currentEntries)
  BY <1>1, LogFlushed
<1>3. LogTypeOK'
  BY <1>0, <1>1, <1>2 DEF LogTypeOK, FilesOf
<1>4. currentEntries \in Nat /\ currentEntries + 0 = currentEntries /\ currentEntries = Capacity
  BY <1>0, <1>1, LogConstants DEF LogTypeOK, FilesOf, Full
<1>5. Writers' /\ IndexFiles'
  BY <1>0, <1>1, <1>2, <1>4 DEF Writers, IndexFiles, OffsetsOf
<1>6. Deletion' /\ Convex' /\ Oldest'
  BY <1>0, <1>1, <1>2 DEF Deletion, Convex, Oldest
<1>7. Survive'
  BY <1>0, <1>1, <1>2 DEF Survive
<1> QED
  BY <1>2, <1>3, <1>5, <1>6, <1>7 DEF LogInv

\* The flush at the end of the batch acknowledges it.
LEMMA FlushLogKeeps == ASSUME LogInv, FlushLog PROVE LogInv'
<1>0. /\ LogTypeOK /\ Disk /\ Writers /\ Totals /\ IndexFiles /\ Deletion /\ Convex /\ Oldest
      /\ Gaps /\ Ordered /\ Survive
  BY DEF LogInv
<1>1. /\ stage = "flush" /\ up /\ stage' = "idle" /\ todo = <<>> /\ idxBuf = <<>>
      /\ seg' = [seg EXCEPT ![currentFileIndex] = @ \o logBuf] /\ logBuf' = <<>>
      /\ acked' = acked \cup batch
      /\ UNCHANGED <<idx, up, memVars, idxBuf, todo, doomed, sent, batch, removable, dirty,
                     purged, crashes, torn, hidden, miscounted>>
      /\ UNCHANGED <<currentFileIndex, oldestFileIndex, currentEntries, totalEntries>>
  BY <1>0 DEF FlushLog, historyVars, memVars, Writers
<1>2. /\ seg' \in FilesOf(Entries) /\ logBuf' \in Seq(Entries)
      /\ Present(seg)' = Present(seg)
      /\ (~miscounted => Len(seg[currentFileIndex])' = currentEntries) /\ Len(logBuf') = 0
      /\ Disk' /\ Totals' /\ Gaps' /\ Ordered'
      /\ Held(seg) \subseteq Held(seg)'
      /\ Held(seg)' \cup Range(Pending') = Held(seg) \cup Range(Pending)
      /\ ~dirty =>
           /\ \A n \in Present(seg) : n < currentFileIndex => idx[n] = OffsetsOf(Capacity)
           /\ idx[currentFileIndex] \o idxBuf = OffsetsOf(currentEntries)
  BY <1>1, LogFlushed
<1>3. LogTypeOK'
  BY <1>0, <1>1, <1>2 DEF LogTypeOK, FilesOf
<1>4. currentEntries \in Nat /\ currentEntries + 0 = currentEntries
  BY <1>0, LogConstants DEF LogTypeOK, FilesOf
<1>5. Writers' /\ IndexFiles'
  BY <1>0, <1>1, <1>2, <1>4 DEF Writers, IndexFiles, OffsetsOf
<1>6. Deletion' /\ Convex' /\ Oldest'
  BY <1>0, <1>1, <1>2 DEF Deletion, Convex, Oldest
<1>7. Survive'
  <2>1. Pending' = <<>> /\ Range(Pending') = {}
    BY <1>1, EmptyRange, FileFacts, ConcatEmptySeq DEF Pending
  <2>2. batch \subseteq Held(seg)'
    BY <1>0, <1>1, <1>2, <2>1 DEF Survive
  <2> QED
    BY <1>0, <1>1, <1>2, <2>2 DEF Survive
<1> QED
  BY <1>2, <1>3, <1>5, <1>6, <1>7 DEF LogInv

\* The active index is complete once its writer is flushed.
LEMMA IndexFlushed ==
  ASSUME LogInv, stage \in {"write", "rotate"},
         NEW new, new = FlushedIndex
  PROVE  /\ new \in FilesOf(Nat) /\ Present(new) = Present(idx)
         /\ \A n \in Segments \ {currentFileIndex} : new[n] = idx[n]
         /\ ~dirty =>
              /\ \A n \in Present(seg) : n < currentFileIndex => new[n] = OffsetsOf(Capacity)
              /\ new[currentFileIndex]
                   = OffsetsOf(Len(seg[currentFileIndex]) + Len(logBuf))
<1>0. Disk /\ IndexFiles
  BY DEF LogInv
<1>1. PICK c : c = currentFileIndex
  OBVIOUS
<1>2. /\ idx \in FilesOf(Nat) /\ c \in Present(idx) /\ idxBuf \in Seq(Nat)
      /\ Nat \in SUBSET Nat /\ c \in Nat /\ Segments \subseteq Nat
      /\ seg \in FilesOf(Entries) /\ Entries \in SUBSET Nat
  BY <1>1, FileFacts
<1>3. new = [idx EXCEPT ![c] = idx[c] \o idxBuf]
  BY <1>1 DEF FlushedIndex
<1>4. /\ new \in FilesOf(Nat) /\ Present(new) = Present(idx)
      /\ \A n \in Segments \ {c} : new[n] = idx[n]
      /\ new[c] = idx[c] \o idxBuf
  <2>1. idx[c] \in Seq(Nat) /\ c \in Segments /\ idx[c] \o idxBuf \in Seq(Nat)
    BY <1>2, ConcatProperties, SegmentTypes
  <2>2. new \in FilesOf(Nat) /\ Changed(new, idx, c, idx[c] \o idxBuf)
    BY <1>2, <1>3, <2>1, Change
  <2>3. Present(new) = Present(idx)
    BY <1>2, <2>2, Continued
  <2> QED
    BY <2>2, <2>3 DEF Changed
<1>5. ASSUME ~dirty
      PROVE  /\ \A n \in Present(seg) : n < c => new[n] = OffsetsOf(Capacity)
             /\ new[c] = OffsetsOf(Len(seg[c]) + Len(logBuf))
  <2>1. \A n \in Present(seg) : n < c => n \in Segments \ {c} /\ idx[n] = OffsetsOf(Capacity)
    <3>1. \A n \in Present(seg) : n \in Segments /\ n \in Nat
      BY <1>2, SegmentTypes
    <3>2. \A n \in Present(seg) : n < c => idx[n] = OffsetsOf(Capacity)
      BY <1>0, <1>1, <1>5 DEF IndexFiles
    <3> QED
      BY <1>2, <3>1, <3>2
  <2> QED
    BY <1>0, <1>1, <1>4, <1>5, <2>1 DEF IndexFiles
<1> QED
  BY <1>1, <1>4, <1>5

\* flush writes the offsets first.
LEMMA FlushIndexKeeps == ASSUME LogInv, FlushIndex PROVE LogInv'
<1>0. /\ LogTypeOK /\ Disk /\ Writers /\ Totals /\ IndexFiles /\ Deletion /\ Convex /\ Oldest
      /\ Gaps /\ Ordered /\ Survive
  BY DEF LogInv
<1>1. /\ stage = "write" /\ stage' = "flush" /\ up /\ todo = <<>>
      /\ idx' = FlushedIndex /\ idxBuf' = <<>>
      /\ UNCHANGED <<seg, up, currentFileIndex, oldestFileIndex, currentEntries, totalEntries,
                     logBuf, todo, doomed, sent, batch, acked, removable, dirty, purged,
                     crashes, torn, hidden, miscounted>>
  BY <1>0 DEF FlushIndex, memVars, historyVars, Writers
<1>2. /\ idx' \in FilesOf(Nat) /\ Present(idx)' = Present(idx)
      /\ ~dirty =>
           /\ \A n \in Present(seg) : n < currentFileIndex => idx'[n] = OffsetsOf(Capacity)
           /\ idx'[currentFileIndex] = OffsetsOf(Len(seg[currentFileIndex]) + Len(logBuf))
  <2>1. PICK new : new = FlushedIndex
    OBVIOUS
  <2>2. /\ new \in FilesOf(Nat) /\ Present(new) = Present(idx)
        /\ ~dirty =>
             /\ \A n \in Present(seg) : n < currentFileIndex => new[n] = OffsetsOf(Capacity)
             /\ new[currentFileIndex] = OffsetsOf(Len(seg[currentFileIndex]) + Len(logBuf))
    BY <1>1, <2>1, IndexFlushed
  <2>3. idx' = new
    BY <1>1, <2>1
  <2>4. Present(idx)' = Present(new)
    BY <2>3 DEF Present
  <2> QED
    BY <2>2, <2>3, <2>4
<1>3. LogTypeOK'
  BY <1>0, <1>1, <1>2, EmptySeq DEF LogTypeOK, FilesOf
<1>4. Disk'
  <2>1. Present(seg)' = Present(seg)
    BY <1>1 DEF Present
  <2> QED
    BY <1>0, <1>1, <1>2, <2>1 DEF Disk
<1>5. Writers' /\ Totals'
  BY <1>0, <1>1 DEF Writers, Totals
<1>6. IndexFiles'
  <2>1. Present(seg)' = Present(seg)
    BY <1>1 DEF Present
  <2>2. ~dirty => idx'[currentFileIndex] \o <<>> = idx'[currentFileIndex]
    <3>1. currentFileIndex \in Present(idx)
      BY FileFacts
    <3>2. idx'[currentFileIndex] \in Seq(Nat)
      <4>1. PICK new : new = idx'
        OBVIOUS
      <4>2. Present(new) = Present(idx)'
        BY <4>1 DEF Present
      <4>3. new[currentFileIndex] \in Seq(Nat)
        BY <1>2, <3>1, <4>1, <4>2, SegmentTypes, FileFacts
      <4> QED
        BY <4>1, <4>3
    <3> QED
      BY <3>2, ConcatEmptySeq
  <2> QED
    BY <1>0, <1>1, <1>2, <2>1, <2>2 DEF IndexFiles, OffsetsOf
<1>7. Deletion' /\ Convex' /\ Oldest' /\ Gaps'
  BY <1>0, <1>1 DEF Deletion, Convex, Oldest, Gaps, Present, Held
<1>8. Ordered' /\ Survive'
  BY <1>0, <1>1 DEF Ordered, Survive, IsOrdered, Held, Present, Pending
<1> QED
  BY <1>3, <1>4, <1>5, <1>6, <1>7, <1>8 DEF LogInv

LEMMA NoOffsets == OffsetsOf(0) = <<>>
<1>1. OffsetsOf(0) \in Seq(Nat) /\ Len(OffsetsOf(0)) = 0
  BY NextOffset
<1> QED
  BY <1>1, EmptySeq

\* A file that is there stays the active index once it is made, and one that is not starts empty.
LEMMA RotateOpenKeeps == ASSUME LogInv, RotateOpenNext PROVE LogInv'
<1>0. /\ LogTypeOK /\ Disk /\ Writers /\ Totals /\ IndexFiles /\ Deletion /\ Convex /\ Oldest
      /\ Gaps /\ Ordered /\ Survive
  BY DEF LogInv
<1>1. PICK c, next, flushed : c = currentFileIndex /\ next = c + 1 /\ flushed = FlushedIndex
  OBVIOUS
<1>2. /\ stage = "rotate" /\ stage' = "write" /\ up /\ logBuf = <<>> /\ currentEntries = Capacity
      /\ idx' = [flushed EXCEPT ![next] = NewFile(@)] /\ idxBuf' = <<>>
      /\ seg' = [seg EXCEPT ![next] = NewFile(@)]
      /\ currentFileIndex' = next /\ currentEntries' = 0
      /\ UNCHANGED <<up, oldestFileIndex, totalEntries, logBuf, todo, doomed, sent, batch,
                     acked, removable, dirty, purged, crashes, torn, hidden, miscounted>>
  BY <1>0, <1>1 DEF RotateOpenNext, historyVars, Writers
<1>3. /\ c \in Nat /\ c \in Present(seg) /\ next \in Segments /\ next \in Nat
      /\ Capacity \in Nat \ {0} /\ totalEntries \in Nat
  BY <1>0, <1>1, <1>2, FileFacts, LogConstants DEF Writers, Segments, LogTypeOK
<1>4. /\ Entries \in SUBSET Nat /\ Nat \in SUBSET Nat /\ Segments \subseteq Nat
      /\ seg \in FilesOf(Entries) /\ seg[c] \in Seq(Entries)
  BY <1>1, FileFacts
<1>5. ~miscounted => Len(seg[c]) = Capacity
  <2> SUFFICES ASSUME ~miscounted PROVE Len(seg[c]) = Capacity
    OBVIOUS
  <2>1. Len(seg[c]) + Len(logBuf) = Capacity
    BY <1>0, <1>1, <1>2 DEF Writers
  <2>2. Len(logBuf) = 0 /\ Len(seg[c]) \in Nat
    BY <1>2, <1>4, EmptySeq, LenProperties
  <2>3. \A x \in Nat : x + 0 = x
    OBVIOUS
  <2> QED
    BY <2>1, <2>2, <2>3, Zenon
<1>6. next \notin Present(seg) /\ \A n \in Present(seg) : n <= c
  BY <1>0, <1>1, <1>3 DEF Disk
<1>7. /\ flushed \in FilesOf(Nat) /\ Present(flushed) = Present(seg)
      /\ ~dirty => \A n \in Present(seg) : flushed[n] = OffsetsOf(Capacity)
  <2>1. /\ flushed \in FilesOf(Nat) /\ Present(flushed) = Present(idx)
        /\ ~dirty => /\ \A n \in Present(seg) : n < c => flushed[n] = OffsetsOf(Capacity)
                     /\ flushed[c] = OffsetsOf(Len(seg[c]) + Len(logBuf))
    BY <1>1, <1>2, IndexFlushed
  <2>2. ~dirty => Len(seg[c]) + Len(logBuf) = Capacity
    BY <1>0, <1>1, <1>2 DEF Writers
  <2>3. \A n \in Present(seg) : n < c \/ n = c
    BY <1>3, <1>4, <1>6, SegmentTypes
  <2> QED
    BY <1>0, <2>1, <2>2, <2>3 DEF Disk
<1>8. PICK files, index : files = seg' /\ index = idx'
  OBVIOUS
<1>9. /\ files \in FilesOf(Entries) /\ Present(files) = Present(seg) \cup {next}
      /\ \A n \in Present(seg) : files[n] = seg[n]
      /\ files[next] = <<>> /\ Held(files) = Held(seg) /\ IsOrdered(files)
  <2>1. NewFile(seg[next]) \in Seq(Entries) \cup {Absent} /\ files = [seg EXCEPT ![next] = NewFile(seg[next])]
    BY <1>2, <1>3, <1>4, <1>8, LogConstants DEF NewFile, FilesOf
  <2>2. files \in FilesOf(Entries) /\ Changed(files, seg, next, NewFile(seg[next]))
    BY <1>3, <1>4, <2>1, Change
  <2>3. IsOrdered(seg)
    BY <1>0 DEF Ordered
  <2> QED
    BY <1>3, <1>4, <1>6, <2>2, <2>3, Opened
<1>10. /\ index \in FilesOf(Nat) /\ Present(index) = Present(seg) \cup {next}
       /\ \A n \in Present(seg) : index[n] = flushed[n]
       /\ index[next] = <<>>
  <2>1. NewFile(flushed[next]) \in Seq(Nat) \cup {Absent} /\ index = [flushed EXCEPT ![next] = NewFile(flushed[next])]
    BY <1>2, <1>3, <1>7, <1>8, LogConstants DEF NewFile, FilesOf
  <2>2. index \in FilesOf(Nat) /\ Changed(index, flushed, next, NewFile(flushed[next]))
    BY <1>3, <1>7, <2>1, Change
  <2> QED
    BY <1>3, <1>4, <1>6, <1>7, <2>2, Opened
<1>11. /\ Present(seg)' = Present(files) /\ Present(idx)' = Present(index)
       /\ Held(seg)' = Held(files) /\ (IsOrdered(seg)' <=> IsOrdered(files))
  BY <1>8 DEF Present, Held, IsOrdered
<1>12. LogTypeOK'
  BY <1>0, <1>2, <1>3, <1>8, <1>9, <1>10, EmptySeq DEF LogTypeOK, FilesOf
<1>13. \A n \in Present(seg) : n < next /\ n # next
  BY <1>1, <1>3, <1>4, <1>6, SegmentTypes
<1>14. Len(files[next]) = 0
  BY <1>9, EmptySeq
<1>15. Disk'
  <2>1. ~miscounted => \A n \in Present(seg) : Len(files[n]) = Capacity
    <3>1. \A n \in Present(seg) : n < c \/ n = c
      BY <1>3, <1>4, <1>6, SegmentTypes
    <3> QED
      BY <1>0, <1>1, <1>5, <1>9, <3>1 DEF Disk
  <2>2. \A n \in Present(seg) : n <= next
    BY <1>3, <1>4, <1>13, SegmentTypes
  <2>3. ASSUME NEW n \in Present(files)
        PROVE  /\ n <= next
               /\ ~miscounted => Len(files[n]) <= Capacity /\ (n < next => Len(files[n]) = Capacity)
    <3>1. CASE n = next
      BY <1>3, <1>14, <3>1
    <3>2. CASE n # next
      <4>1. n \in Present(seg)
        BY <1>9, <3>2
      <4> QED
        BY <1>3, <2>1, <2>2, <4>1
    <3> QED
      BY <3>1, <3>2
  <2>4. /\ currentFileIndex' = next /\ (~miscounted' => ~miscounted) /\ seg' = files
        /\ Present(seg)' = Present(files) /\ Present(idx)' = Present(files) /\ next \in Present(files)
    BY <1>2, <1>8, <1>9, <1>10, <1>11
  <2> QED
    BY <2>3, <2>4 DEF Disk
<1>16. Writers'
  <2>1. Len(files[next]) + Len(logBuf') = 0
    BY <1>2, <1>14, EmptySeq
  <2> QED
    BY <1>0, <1>2, <1>8, <2>1 DEF Writers
<1>17. Totals'
  <2>1. c * Capacity + Capacity = next * Capacity
    BY <1>1, <1>3, EndsFirst
  <2>2. next * Capacity + 0 = next * Capacity
    BY <1>3
  <2> QED
    BY <1>0, <1>1, <1>2, <2>1, <2>2 DEF Totals
<1>18. IndexFiles'
  <2>1. ASSUME ~dirty, NEW n \in Present(files), n < next PROVE index[n] = OffsetsOf(Capacity)
    <3>1. n # next
      BY <1>3, <2>1
    <3>2. n \in Present(seg)
      BY <1>9, <2>1, <3>1
    <3> QED
      BY <1>7, <1>10, <2>1, <3>2
  <2>2. Len(files[next]) + Len(logBuf') = 0
    BY <1>2, <1>14, EmptySeq
  <2>3. index[next] \o idxBuf' = <<>>
    BY <1>2, <1>10, EmptySeq, ConcatEmptySeq
  <2> QED
    BY <1>2, <1>8, <1>11, <2>1, <2>2, <2>3, NoOffsets DEF IndexFiles, OffsetsOf
<1>19. Deletion' /\ Oldest'
  <2>1. doomed = {}
    BY <1>0, <1>2 DEF Deletion
  <2>2. Deletion'
    BY <1>2, <2>1 DEF Deletion
  <2>3. ASSUME ~purged, ~dirty
        PROVE  oldestFileIndex \in Present(files) /\ \A n \in Present(files) : oldestFileIndex <= n
    <3>1. oldestFileIndex \in Present(seg) /\ \A n \in Present(seg) : oldestFileIndex <= n
      BY <1>0, <1>2, <2>3 DEF Oldest
    <3>2. oldestFileIndex \in Nat /\ oldestFileIndex < next
      BY <1>4, <1>13, <3>1, SegmentTypes
    <3>3. oldestFileIndex <= next
      BY <1>3, <3>2
    <3> QED
      BY <1>9, <3>1, <3>3
  <2> QED
    BY <1>2, <1>11, <2>2, <2>3 DEF Oldest
<1>20. Convex'
  <2> SUFFICES ASSUME ~dirty, NEW n \in Present(files) PROVE n .. next \subseteq Present(files)
    BY <1>0, <1>2, <1>11 DEF Convex, Deletion
  <2>1. CASE n = next
    BY <1>3, <1>9, <2>1
  <2>2. CASE n \in Present(seg)
    <3>1. n .. c \subseteq Present(seg)
      BY <1>0, <1>1, <1>2, <2>2 DEF Convex, Deletion
    <3>2. n \in Nat
      BY <1>4, <2>2, SegmentTypes
    <3> QED
      BY <1>1, <1>3, <1>9, <3>1, <3>2
  <2> QED
    BY <1>9, <2>1, <2>2
<1>21. Gaps'
  <2> SUFFICES ASSUME NEW n \in Present(files), NEW m \in Segments \ Present(files), n < m, m < next
               PROVE  Range(files[n]) \subseteq removable
    BY <1>2, <1>8, <1>11 DEF Gaps
  <2>1. m # c /\ m \in Nat /\ n \in Nat
    BY <1>3, <1>4, <1>9, SegmentTypes
  <2>2. m < c /\ n # next
    BY <1>1, <1>3, <2>1
  <2> QED
    BY <1>0, <1>1, <1>9, <2>1, <2>2 DEF Gaps
<1>22. Ordered' /\ Survive'
  BY ZenonT(30), <1>0, <1>2, <1>9, <1>11 DEF Ordered, Survive, Pending
<1> QED
  BY <1>12, <1>15, <1>16, <1>17, <1>18, <1>19, <1>20, <1>21, <1>22 DEF LogInv

-----------------------------------------------------------------------------
(* Deletions *)

LEMMA CutoffIs ==
  ASSUME NEW keep \in Nat, totalEntries \in Nat
  PROVE  /\ Cutoff(keep) \in Nat
         /\ Cutoff(keep) # 0 => Cutoff(keep) + keep = totalEntries
         /\ Cutoff(0) = totalEntries
BY DEF Cutoff

\* Segments are old before the ones after them.
LEMMA OlderIsOld ==
  ASSUME NEW n \in Nat, NEW m \in Nat, n < m, NEW cutoff \in Nat,
         currentFileIndex \in Nat, OldSegment(m, cutoff)
  PROVE  OldSegment(n, cutoff)
<1>1. (m + 1) * Capacity <= cutoff /\ m < currentFileIndex /\ Capacity \in Nat
  BY LogConstants DEF OldSegment
<1>2. (n + 1) * Capacity <= (m + 1) * Capacity
  BY <1>1
<1>3. (n + 1) * Capacity \in Nat /\ (m + 1) * Capacity \in Nat
  BY <1>1
<1>4. (n + 1) * Capacity <= cutoff
  BY <1>1, <1>2, <1>3
<1>5. n < currentFileIndex
  BY <1>1
<1> QED
  BY <1>4, <1>5 DEF OldSegment

\* The values of a function on a finite set
LEMMA FiniteValues ==
  ASSUME NEW S, IsFiniteSet(S), NEW f, NEW T, T = {f[x] : x \in S}
  PROVE  IsFiniteSet(T)
<1> DEFINE g == [x \in S |-> f[x]]
<1>1. g \in Surjection(S, T)
  BY DEF Surjection
<1> QED
  BY <1>1, FS_Surjection

LEMMA PlacesFinite == ASSUME LogInv PROVE IsFiniteSet(Places)
<1>1. ASSUME NEW n \in Present(seg) PROVE IsFiniteSet({<<n, k>> : k \in 1 .. Len(seg[n])})
  <2>1. Len(seg[n]) \in Nat
    BY FileFacts, SegmentTypes, LenProperties
  <2>2. IsFiniteSet(1 .. Len(seg[n]))
    BY <2>1, FS_Interval
  <2>3. PICK f : f = [k \in 1 .. Len(seg[n]) |-> <<n, k>>]
    OBVIOUS
  <2>4. {<<n, k>> : k \in 1 .. Len(seg[n])} = {f[k] : k \in 1 .. Len(seg[n])}
    BY <2>3
  <2> QED
    BY <2>2, <2>4, FiniteValues
<1>2. IsFiniteSet(Present(seg))
  <2>1. IsFiniteSet(Segments)
    BY FS_Interval, LogConstants DEF Segments
  <2> QED
    BY <2>1, FS_Subset DEF Present
<1>3. PICK of : of = [n \in Present(seg) |-> {<<n, k>> : k \in 1 .. Len(seg[n])}]
  OBVIOUS
<1>4. PICK sets : sets = {{<<n, k>> : k \in 1 .. Len(seg[n])} : n \in Present(seg)}
  OBVIOUS
<1>5. sets = {of[n] : n \in Present(seg)}
  BY <1>3, <1>4
<1>6. IsFiniteSet(sets)
  BY <1>2, <1>5, FiniteValues
<1>7. \A T \in sets : IsFiniteSet(T)
  BY <1>1, <1>4
<1> QED
  BY <1>4, <1>6, <1>7, FS_UNION DEF Places

\* Behind a segment after which none is missing there are as many entries as the counts say.
LEMMA EntriesAfter ==
  ASSUME LogInv, up, stage = "idle", ~miscounted,
         NEW n \in Present(seg), n < currentFileIndex,
         n + 1 .. currentFileIndex \subseteq Present(seg),
         NEW keep \in Nat, (n + 1) * Capacity + keep <= totalEntries,
         NEW k \in 1 .. Len(seg[n])
  PROVE  Cardinality({q \in Places : ReadBefore(<<n, k>>, q)}) >= keep
<1>0. LogTypeOK /\ Disk /\ Writers /\ Totals
  BY DEF LogInv
<1> DEFINE after == {q \in Places : ReadBefore(<<n, k>>, q)}
           f == [i \in 1 .. keep |-> <<n + 1 + ((i - 1) \div Capacity), ((i - 1) % Capacity) + 1>>]
<1>1. PICK c \in Nat : c = currentFileIndex
  BY FileFacts
<1>2. /\ n \in Nat /\ Capacity \in Nat \ {0} /\ totalEntries \in Nat
      /\ currentEntries \in Nat /\ currentEntries <= Capacity
  <2>1. n \in Nat
    BY FileFacts, SegmentTypes
  <2>2. Capacity \in Nat \ {0} /\ totalEntries \in Nat /\ currentEntries \in 0 .. Capacity
    BY <1>0, LogConstants DEF LogTypeOK
  <2> QED
    BY <2>1, <2>2
<1>3. totalEntries <= c * Capacity + currentEntries
  BY <1>0, <1>1 DEF Totals
<1>4. Len(seg[c]) = currentEntries
  <2>1. Len(seg[c]) + Len(logBuf) = currentEntries
    BY <1>0, <1>1 DEF Writers
  <2>2. logBuf = <<>>
    BY <1>0 DEF Writers
  <2>3. Len(logBuf) = 0 /\ Len(seg[c]) \in Nat
    BY <1>1, <2>2, EmptySeq, FileFacts, LenProperties
  <2>4. \A x \in Nat : x + 0 = x
    OBVIOUS
  <2> QED
    BY <2>1, <2>3, <2>4, Zenon
<1>5. ASSUME NEW i \in 1 .. keep
      PROVE  /\ f[i][1] \in Present(seg) /\ f[i][1] > n /\ f[i][2] \in 1 .. Len(seg[f[i][1]])
             /\ f[i] = <<f[i][1], f[i][2]>>
             /\ i - 1 = (f[i][1] - n - 1) * Capacity + (f[i][2] - 1)
  <2>1. i - 1 \in Nat /\ i - 1 < keep
    BY <1>5
  <2>2. PICK d \in Nat, r \in 0 .. Capacity - 1 :
          /\ d = (i - 1) \div Capacity /\ r = (i - 1) % Capacity
          /\ i - 1 = d * Capacity + r
    BY <2>1, SegmentOf
  <2>3. f[i] = <<n + 1 + d, r + 1>>
    BY <2>2
  <2>4. PICK m \in Nat : m = n + 1 + d
    BY <1>2
  <2>5. m * Capacity = (n + 1) * Capacity + d * Capacity
    BY <1>2, <2>4
  <2>6. /\ m * Capacity \in Nat /\ (n + 1) * Capacity \in Nat /\ d * Capacity \in Nat
        /\ c * Capacity \in Nat
    BY <1>1, <1>2, <2>4
  <2>7. m * Capacity + r < c * Capacity + currentEntries
    BY <1>2, <1>3, <2>1, <2>2, <2>5, <2>6
  <2>8. m <= c
    <3> SUFFICES ASSUME c < m PROVE FALSE
      BY <2>4
    <3>1. c * Capacity + Capacity <= m * Capacity
      BY <2>4, EndsFirst
    <3>2. \A x, y, e, n1, n2 \in Nat : ~(x + e <= y /\ n1 <= e /\ y + n2 < x + n1)
      OBVIOUS
    <3>3. r \in Nat /\ Capacity \in Nat
      BY <1>2, <2>2
    <3> QED
      BY <1>2, <2>6, <2>7, <3>1, <3>2, <3>3
  <2>9. m \in Present(seg)
    BY <1>1, <1>2, <2>4, <2>8
  <2>10. r + 1 \in 1 .. Len(seg[m])
    <3>1. CASE m = c
      <4>1. r < currentEntries
        BY <1>2, <2>2, <2>6, <2>7, <3>1
      <4>2. r + 1 \in 1 .. currentEntries
        BY <1>2, <2>2, <4>1
      <4> QED
        BY <1>4, <3>1, <4>2
    <3>2. CASE m # c
      <4>1. m < c
        BY <2>8, <3>2
      <4>2. Len(seg[m]) = Capacity
        BY <1>0, <1>1, <2>9, <4>1 DEF Disk
      <4>3. r + 1 \in 1 .. Capacity
        BY <1>2, <2>2
      <4> QED
        BY <4>2, <4>3
    <3> QED
      BY <3>1, <3>2
  <2>11. f[i][1] = m /\ f[i][2] = r + 1
    BY <2>3, <2>4
  <2>12. m > n /\ m - n - 1 = d /\ (r + 1) - 1 = r
    BY <1>2, <2>2, <2>4
  <2> QED
    BY <2>2, <2>3, <2>4, <2>9, <2>10, <2>11, <2>12
<1>6. \A i \in 1 .. keep : f[i] \in after
  <2> SUFFICES ASSUME NEW i \in 1 .. keep PROVE f[i] \in Places /\ ReadBefore(<<n, k>>, f[i])
    OBVIOUS
  <2>1. PICK m, j : m = f[i][1] /\ j = f[i][2]
    OBVIOUS
  <2>2. m \in Present(seg) /\ m > n /\ j \in 1 .. Len(seg[m]) /\ f[i] = <<m, j>>
    BY <1>5, <2>1
  <2>3. m \in Nat
    BY <2>2, FileFacts, SegmentTypes
  <2>4. <<m, j>> \in Places
    BY <2>2, PlacesAre
  <2>5. n < m
    BY <1>2, <2>2, <2>3
  <2>6. ReadBefore(<<n, k>>, <<m, j>>)
    BY <2>5, PlacesAre
  <2> QED
    BY <2>2, <2>4, <2>6
<1>7. \A i, j \in 1 .. keep : f[i] = f[j] => i = j
  <2> SUFFICES ASSUME NEW i \in 1 .. keep, NEW j \in 1 .. keep, f[i] = f[j] PROVE i = j
    OBVIOUS
  <2>1. i - 1 = (f[i][1] - n - 1) * Capacity + (f[i][2] - 1)
        /\ j - 1 = (f[i][1] - n - 1) * Capacity + (f[i][2] - 1)
    BY <1>5
  <2>2. i - 1 = j - 1
    BY <2>1
  <2> QED
    BY <2>2
<1> HIDE DEF f
<1>8. f \in Injection(1 .. keep, after)
  <2>1. f \in [1 .. keep -> after]
    BY <1>6 DEF f
  <2> QED
    BY <1>7, <2>1 DEF Injection, IsInjective
<1>9. IsFiniteSet(after)
  BY PlacesFinite, FS_Subset
<1> HIDE DEF after
<1>10. Cardinality(1 .. keep) <= Cardinality(after) /\ Cardinality(after) \in Nat
  BY <1>8, <1>9, FS_Injection, FS_CardinalityType
<1>11. Cardinality(1 .. keep) = keep
  <2>1. Cardinality(1 .. keep) = IF 1 > keep THEN 0 ELSE keep - 1 + 1
    BY FS_Interval
  <2> QED
    BY <2>1
<1>12. Cardinality(after) >= keep
  BY <1>10, <1>11
<1> QED
  BY <1>12 DEF after

\* delete_older_than takes segments whose entries are all but the last `keep`.
LEMMA DeleteKeeps ==
  ASSUME LogInv, NEW keep \in Keeps, DeleteOlderThan(keep)
  PROVE  LogInv'
<1>0. /\ LogTypeOK /\ Disk /\ Writers /\ Totals /\ IndexFiles /\ Deletion /\ Convex /\ Oldest
      /\ Gaps /\ Ordered /\ Survive
  BY DEF LogInv
<1>1. /\ up /\ stage = "idle"
      /\ keep = 0 \/ Cutoff(keep) # 0
      /\ doomed' = Doomed(Cutoff(keep)) /\ stage' = IF keep = 0 THEN "purge" ELSE "delete"
      /\ removable' = removable \cup AskedToRemove(keep)
      /\ UNCHANGED <<seg, idx, up, currentFileIndex, oldestFileIndex, currentEntries,
                     totalEntries, logBuf, idxBuf, todo, sent, batch, acked, dirty, purged,
                     crashes, torn, hidden, miscounted>>
  BY DEF DeleteOlderThan, fileVars, memVars, bufVars
<1>2. PICK c, cutoff : c = currentFileIndex /\ cutoff = Cutoff(keep)
  OBVIOUS
<1>3. /\ keep \in Nat /\ totalEntries \in Nat /\ Capacity \in Nat \ {0} /\ c \in Present(seg)
      /\ c \in Nat
      /\ \A m \in Present(seg) : m \in Nat /\ m <= c
      /\ Segments \subseteq Nat
  BY <1>0, <1>2, SizesAssumption, LogConstants, FileFacts, SegmentTypes DEF LogTypeOK, Disk
<1>4. /\ cutoff \in Nat
      /\ cutoff # 0 => cutoff + keep = totalEntries
      /\ keep = 0 => cutoff = totalEntries
  BY <1>2, <1>3, CutoffIs
<1>5. \A m : m \in doomed' <=> m \in Present(seg) /\ OldSegment(m, cutoff)
  BY <1>1, <1>2 DEF Doomed
<1>6. \A m : OldSegment(m, cutoff) <=> m < c /\ (m + 1) * Capacity <= cutoff
  BY <1>2 DEF OldSegment
<1>7. OnDisk = Held(seg) /\ AllBut(keep) \subseteq AskedToRemove(keep) /\ AskedToRemove(keep) \subseteq OnDisk
  BY <1>0, OnDiskIsHeld DEF AskedToRemove, AllBut, OnDisk
<1>8. keep = 0 => AllBut(keep) = OnDisk
  <2> SUFFICES ASSUME keep = 0, NEW p \in Places
               PROVE  Cardinality({q \in Places : ReadBefore(p, q)}) >= keep
    BY DEF AllBut, OnDisk
  <2>1. IsFiniteSet({q \in Places : ReadBefore(p, q)})
    BY PlacesFinite, FS_Subset
  <2>2. Cardinality({q \in Places : ReadBefore(p, q)}) \in Nat
    BY <2>1, FS_CardinalityType
  <2>3. \A x \in Nat : x >= 0
    OBVIOUS
  <2> QED
    BY <2>2, <2>3, Zenon
<1>9. doomed' \subseteq Present(seg) \ {c}
  BY <1>3, <1>5, <1>6
<1>10. ASSUME NEW n \in Present(seg), NEW m \in doomed', n < m PROVE n \in doomed'
  <2>1. n \in Nat /\ m \in Nat /\ currentFileIndex \in Nat
    BY <1>2, <1>3, <1>5
  <2> QED
    BY <1>4, <1>5, <1>10, <2>1, OlderIsOld
<1>11. ASSUME NEW n \in doomed' PROVE Range(seg[n]) \subseteq removable'
  <2>0. n \in Present(seg) /\ n \in Nat /\ n < c /\ (n + 1) * Capacity <= cutoff
    BY <1>3, <1>5, <1>6
  <2>0a. CASE miscounted
    <3> SUFFICES ASSUME NEW e \in Range(seg[n]) PROVE e \in AskedToRemove(keep)
      BY <1>1
    <3>1. PICK k \in 1 .. Len(seg[n]) : e = seg[n][k]
      BY <2>0, RangeIs, FileFacts, SegmentTypes
    <3>2. PICK p : p = <<n, k>>
      OBVIOUS
    <3>3. p \in Places /\ EntryAt(p) = e /\ p[1] = n
      BY <2>0, <3>1, <3>2, PlacesAre
    <3>4. p[1] \in Doomed(Cutoff(keep))
      BY <1>1, <3>3
    <3> QED
      BY <2>0a, <3>3, <3>4 DEF AskedToRemove
  <2>1. CASE ~miscounted /\ n + 1 .. c \subseteq Present(seg)
    <3> SUFFICES ASSUME NEW e \in Range(seg[n]) PROVE e \in AllBut(keep)
      BY <1>1, <1>7
    <3>1. PICK k \in 1 .. Len(seg[n]) : e = seg[n][k]
      BY <2>0, RangeIs, FileFacts, SegmentTypes
    <3>2. <<n, k>> \in Places /\ EntryAt(<<n, k>>) = e
      BY <2>0, <3>1, PlacesAre
    <3>3. keep = 0 \/ (n + 1) * Capacity + keep <= totalEntries
      <4>1. (n + 1) * Capacity \in Nat
        BY <1>3, <2>0
      <4> QED
        BY <1>1, <1>2, <1>3, <1>4, <2>0, <4>1
    <3>4. CASE keep = 0
      BY <1>8, <3>2, <3>4 DEF OnDisk
    <3>5. CASE (n + 1) * Capacity + keep <= totalEntries
      <4>1. Cardinality({q \in Places : ReadBefore(<<n, k>>, q)}) >= keep
        BY <1>1, <1>2, <1>3, <2>0, <2>1, <3>5, EntriesAfter
      <4> QED
        BY <3>2, <4>1 DEF AllBut
    <3> QED
      BY <3>3, <3>4, <3>5
  <2>2. CASE \E m \in n + 1 .. c : m \notin Present(seg)
    <3>1. PICK m \in n + 1 .. c : m \notin Present(seg)
      BY <2>2
    <3>2. m \in Nat /\ n < m /\ m < c
      BY <1>3, <2>0, <3>1
    <3>3. m \in Segments
      BY <1>2, <3>2, <1>0, LogConstants DEF LogTypeOK, Segments
    <3> QED
      BY <1>0, <1>1, <1>2, <2>0, <3>1, <3>2, <3>3 DEF Gaps
  <2> QED
    BY <2>0a, <2>1, <2>2
<1>12. LogTypeOK'
  <2>1. removable' \subseteq Entries
    BY <1>0, <1>1, <1>7, HeldType DEF LogTypeOK
  <2>2. doomed' \subseteq Segments
    BY <1>9, FileFacts, SegmentTypes
  <2> QED
    BY <1>0, <1>1, <2>1, <2>2 DEF LogTypeOK
<1>13. Present(seg)' = Present(seg) /\ Present(idx)' = Present(idx) /\ Held(seg)' = Held(seg)
       /\ (IsOrdered(seg)' <=> IsOrdered(seg)) /\ Pending' = Pending
  BY <1>1 DEF Present, Held, IsOrdered, Pending
<1>14. Disk' /\ Writers' /\ Totals' /\ IndexFiles' /\ Oldest'
  BY <1>0, <1>1, <1>13 DEF Disk, Writers, Totals, IndexFiles, Oldest, OffsetsOf
<1>15. Deletion'
  <2>1. stage' \in {"purge", "truncate"} => keep = 0
    BY <1>1
  <2>2. keep = 0 => Held(seg) \subseteq removable'
    BY <1>1, <1>7, <1>8
  <2>3. ASSUME keep = 0, ~purged, NEW m \in Present(seg) PROVE m \in doomed' \cup {c}
    <3>1. CASE m = c
      BY <3>1
    <3>2. CASE m # c
      <4>1. m < c /\ m \in Nat
        BY <1>3, <3>2
      <4>2. totalEntries = c * Capacity + currentEntries /\ currentEntries \in Nat
        BY <1>0, <1>1, <1>2, <1>3, <2>3 DEF Totals, LogTypeOK
      <4>3. (m + 1) * Capacity <= c * Capacity
        BY <1>3, <4>1, EndsFirst
      <4>4. (m + 1) * Capacity \in Nat /\ c * Capacity \in Nat
        BY <1>2, <1>3, <4>1
      <4>5. (m + 1) * Capacity <= totalEntries
        BY <4>2, <4>3, <4>4
      <4> QED
        BY <1>4, <1>5, <1>6, <2>3, <4>1, <4>5
    <3> QED
      BY <3>1, <3>2
  <2>4. stage' \in {"delete", "purge"}
    BY <1>1
  <2> QED
    BY <1>1, <1>2, <1>9, <1>10, <1>11, <1>13, <2>1, <2>2, <2>3, <2>4 DEF Deletion
<1>16. Convex'
  <2> SUFFICES ASSUME ~dirty, NEW n \in Present(seg) \ doomed', NEW m \in n .. c
               PROVE  m \in Present(seg) \ doomed'
    BY <1>1, <1>2, <1>13 DEF Convex
  <2>1. doomed = {}
    BY <1>0, <1>1 DEF Deletion
  <2>2. m \in Present(seg)
    BY <1>0, <1>2, <2>1 DEF Convex
  <2>3. m # n => n < m
    BY <1>3, <2>2
  <2>4. m \notin doomed'
    BY <1>10, <2>3
  <2> QED
    BY <2>2, <2>4
<1>17. Gaps'
  BY <1>0, <1>1, <1>13 DEF Gaps
<1>18. Ordered'
  BY <1>0, <1>1, <1>13 DEF Ordered
<1>19. Survive'
  BY <1>0, <1>1, <1>13 DEF Survive
<1> QED
  BY <1>12, <1>14, <1>15, <1>16, <1>17, <1>18, <1>19 DEF LogInv

\* A segment goes with its index.
LEMMA RemoveKeeps ==
  ASSUME LogInv, NEW n \in Segments, RemoveSegment(n)
  PROVE  LogInv'
<1>0. /\ LogTypeOK /\ Disk /\ Writers /\ Totals /\ IndexFiles /\ Deletion /\ Convex /\ Oldest
      /\ Gaps /\ Ordered /\ Survive
  BY DEF LogInv
<1>1. /\ stage \in {"delete", "purge"} /\ n \in doomed
      /\ seg' = [seg EXCEPT ![n] = Absent] /\ idx' = [idx EXCEPT ![n] = Absent]
      /\ doomed' = doomed \ {n} /\ torn' = [torn EXCEPT ![n] = Absent]
      /\ UNCHANGED <<up, currentFileIndex, oldestFileIndex, currentEntries, totalEntries,
                     logBuf, idxBuf, todo, stage, sent, batch, acked, removable, dirty, purged,
                     crashes, hidden, miscounted>>
  BY DEF RemoveSegment, memVars, bufVars, historyVars
<1>2. PICK files, index, c : files = seg' /\ index = idx' /\ c = currentFileIndex
  OBVIOUS
<1>3. /\ Entries \in SUBSET Nat /\ Nat \in SUBSET Nat /\ Segments \subseteq Nat /\ c \in Nat
      /\ seg \in FilesOf(Entries) /\ idx \in FilesOf(Nat)
  BY <1>2, FileFacts
<1>4. n \in Present(seg) /\ n # c /\ Range(seg[n]) \subseteq removable
  BY <1>0, <1>1, <1>2 DEF Deletion
<1>5. /\ files \in FilesOf(Entries) /\ Present(files) = Present(seg) \ {n}
      /\ \A m \in Segments \ {n} : files[m] = seg[m]
      /\ Held(files) \subseteq Held(seg) /\ Held(seg) \subseteq Held(files) \cup Range(seg[n])
      /\ IsOrdered(files)
  <2>1. files \in FilesOf(Entries) /\ Changed(files, seg, n, Absent)
    BY <1>1, <1>2, <1>3, Change
  <2>2. IsOrdered(seg)
    BY <1>0 DEF Ordered
  <2>3. \A m \in Segments \ {n} : files[m] = seg[m]
    BY <2>1 DEF Changed
  <2> QED
    BY <1>3, <2>1, <2>2, <2>3, Without
<1>6. /\ index \in FilesOf(Nat) /\ Present(index) = Present(idx) \ {n}
      /\ \A m \in Segments \ {n} : index[m] = idx[m]
  <2>1. index \in FilesOf(Nat) /\ Changed(index, idx, n, Absent)
    BY <1>1, <1>2, <1>3, Change
  <2>2. \A m \in Segments \ {n} : index[m] = idx[m]
    BY <2>1 DEF Changed
  <2> QED
    BY <1>3, <2>1, <2>2, Without
<1>7. /\ Present(seg)' = Present(files) /\ Present(idx)' = Present(index)
      /\ Held(seg)' = Held(files) /\ (IsOrdered(seg)' <=> IsOrdered(files)) /\ Pending' = Pending
  BY <1>1, <1>2 DEF Present, Held, IsOrdered, Pending
<1>8. \A m \in Present(files) : m \in Segments \ {n} /\ m \in Present(seg) /\ files[m] = seg[m]
  BY <1>3, <1>5, SegmentTypes
<1>9. c \in Present(files) /\ files[c] = seg[c] /\ index[c] = idx[c]
  <2>1. c \in Present(seg)
    BY <1>0, <1>2 DEF Disk
  <2> QED
    BY <1>3, <1>4, <1>5, <1>6, <2>1, SegmentTypes
<1>10. LogTypeOK'
  BY <1>0, <1>1, <1>2, <1>5, <1>6 DEF LogTypeOK, FilesOf
<1>11. Disk'
  BY <1>0, <1>1, <1>2, <1>5, <1>6, <1>7, <1>8, <1>9 DEF Disk
<1>12. Writers' /\ Totals'
  BY <1>0, <1>1, <1>2, <1>9 DEF Writers, Totals
<1>13. IndexFiles'
  BY <1>0, <1>1, <1>2, <1>6, <1>7, <1>8, <1>9 DEF IndexFiles, OffsetsOf
<1>14. Deletion'
  <2>1. doomed' \subseteq Present(files) \ {c}
    BY <1>0, <1>1, <1>2, <1>5 DEF Deletion
  <2>2. \A a \in Present(files), m \in doomed' : a < m => a \in doomed'
    BY <1>0, <1>1, <1>5 DEF Deletion
  <2>3. \A m \in doomed' : Range(files[m]) \subseteq removable
    BY <1>0, <1>1, <1>8, <2>1 DEF Deletion
  <2>4. stage = "purge" => Held(files) \subseteq removable
    BY <1>0, <1>5 DEF Deletion
  <2>5. stage = "purge" /\ ~purged => Present(files) \subseteq doomed' \cup {c}
    BY <1>0, <1>1, <1>2, <1>5 DEF Deletion
  <2> QED
    BY <1>1, <1>2, <1>7, <2>1, <2>2, <2>3, <2>4, <2>5 DEF Deletion
<1>15. Convex'
  <2>1. Present(files) \ doomed' = Present(seg) \ doomed
    BY <1>1, <1>5
  <2> QED
    BY <1>0, <1>1, <1>2, <1>7, <2>1 DEF Convex
<1>16. Oldest'
  BY <1>1 DEF Oldest
<1>17. Gaps'
  <2> SUFFICES ASSUME NEW a \in Present(files), NEW m \in Segments \ Present(files), a < m, m < c
               PROVE  Range(files[a]) \subseteq removable
    BY <1>1, <1>2, <1>7 DEF Gaps
  <2>1. a \in Present(seg) /\ files[a] = seg[a]
    BY <1>8
  <2>2. CASE m = n
    BY <1>0, <1>1, <2>1, <2>2 DEF Deletion
  <2>3. CASE m # n
    BY <1>0, <1>2, <1>5, <2>1, <2>3 DEF Gaps
  <2> QED
    BY <2>2, <2>3
<1>18. Ordered'
  BY <1>0, <1>1, <1>5, <1>7 DEF Ordered
<1>19. Survive'
  BY <1>0, <1>1, <1>4, <1>5, <1>7 DEF Survive
<1> QED
  BY <1>10, <1>11, <1>12, <1>13, <1>14, <1>15, <1>16, <1>17, <1>18, <1>19 DEF LogInv


\* The least and the greatest of a set of naturals
LEMMA LeastIs ==
  ASSUME NEW ids, ids \subseteq Nat, ids # {}
  PROVE  Min(ids) \in ids /\ \A y \in ids : Min(ids) <= y
<1>2. PICK m \in ids : \A y \in ids : ~(<<y, m>> \in OpToRel(<, Nat))
  BY NatLessThanWellFounded, WFMin
<1>3. \A y \in ids : m <= y
  <2> TAKE y \in ids
  <2>1. y \in Nat /\ m \in Nat
    BY <1>2
  <2>2. ~(y < m)
    BY <1>2, <2>1 DEF OpToRel
  <2> QED
    BY <2>1, <2>2
<1> QED
  BY <1>3 DEF Min

LEMMA GreatestIs ==
  ASSUME NEW ids, ids \subseteq Nat, NEW m \in ids, \A y \in ids : y <= m
  PROVE  Max(ids) = m
<1>1. \A y \in ids : m >= y
  OBVIOUS
<1>2. Max(ids) \in ids /\ \A y \in ids : Max(ids) >= y
  BY <1>1 DEF Max
<1>3. \A x, y \in Nat : x >= y /\ y >= x => x = y
  OBVIOUS
<1> QED
  BY <1>1, <1>2, <1>3

\* The oldest segment is the first that is left.
LEMMA EndDeletionKeeps == ASSUME LogInv, EndDeletion PROVE LogInv'
<1>0. /\ LogTypeOK /\ Disk /\ Writers /\ Totals /\ IndexFiles /\ Deletion /\ Convex /\ Oldest
      /\ Gaps /\ Ordered /\ Survive
  BY DEF LogInv
<1>1. /\ stage = "delete" /\ stage' = "idle" /\ doomed = {} /\ oldestFileIndex' = Min(Present(seg))
      /\ UNCHANGED <<seg, idx, up, currentFileIndex, currentEntries, totalEntries, logBuf,
                     idxBuf, todo, doomed, sent, batch, acked, removable, dirty, purged,
                     crashes, torn, hidden, miscounted>>
  BY DEF EndDeletion, OldestLeft, fileVars, bufVars, historyVars
<1>2. oldestFileIndex' \in Present(seg) /\ \A n \in Present(seg) : oldestFileIndex' <= n
  <2>1. Present(seg) \subseteq Nat /\ currentFileIndex \in Present(seg)
    BY FileFacts, SegmentTypes
  <2> QED
    BY <1>1, <2>1, LeastIs
<1>3. oldestFileIndex' \in Segments
  BY <1>2, FileFacts, SegmentTypes
<1>4. Present(seg)' = Present(seg) /\ Present(idx)' = Present(idx) /\ Held(seg)' = Held(seg)
      /\ (IsOrdered(seg)' <=> IsOrdered(seg)) /\ Pending' = Pending
  BY <1>1 DEF Present, Held, IsOrdered, Pending
<1>5. LogTypeOK'
  BY <1>0, <1>1, <1>3 DEF LogTypeOK
<1>6. Disk' /\ Writers' /\ Totals' /\ IndexFiles'
  BY <1>0, <1>1, <1>4 DEF Disk, Writers, Totals, IndexFiles, OffsetsOf
<1>7. Deletion' /\ Convex' /\ Gaps'
  BY <1>0, <1>1, <1>4 DEF Deletion, Convex, Gaps
<1>8. Oldest'
  BY <1>1, <1>2, <1>4 DEF Oldest
<1>9. Ordered' /\ Survive'
  BY <1>0, <1>1, <1>4 DEF Ordered, Survive
<1> QED
  BY <1>5, <1>6, <1>7, <1>8, <1>9 DEF LogInv

\* The active segment loses its entries, ...
LEMMA TruncateLogKeeps == ASSUME LogInv, TruncateLog PROVE LogInv'
<1>0. /\ LogTypeOK /\ Disk /\ Writers /\ Totals /\ IndexFiles /\ Deletion /\ Convex /\ Oldest
      /\ Gaps /\ Ordered /\ Survive
  BY DEF LogInv
<1>1. PICK files, c : files = seg' /\ c = currentFileIndex
  OBVIOUS
<1>2. /\ stage = "purge" /\ stage' = "truncate" /\ doomed = {}
      /\ files = [seg EXCEPT ![c] = <<>>] /\ torn' = [torn EXCEPT ![c] = Absent]
      /\ UNCHANGED <<idx, up, currentFileIndex, oldestFileIndex, currentEntries, totalEntries,
                     logBuf, idxBuf, todo, doomed, sent, batch, acked, removable, dirty, purged,
                     crashes, hidden, miscounted>>
  BY <1>1 DEF TruncateLog, memVars, bufVars, historyVars
<1>3. /\ Entries \in SUBSET Nat /\ c \in Present(seg) /\ c \in Nat /\ seg \in FilesOf(Entries)
      /\ Segments \subseteq Nat /\ Capacity \in Nat \ {0} /\ c \in Segments
  BY <1>1, FileFacts, LogConstants, SegmentTypes
<1>4. /\ files \in FilesOf(Entries) /\ Present(files) = Present(seg) /\ files[c] = <<>>
      /\ \A n \in Segments \ {c} : files[n] = seg[n]
      /\ Held(files) \subseteq Held(seg) /\ IsOrdered(files)
  <2>1. files \in FilesOf(Entries) /\ Changed(files, seg, c, <<>>)
    BY <1>2, <1>3, LogConstants, Change
  <2>2. files[c] = <<>> /\ \A n \in Segments \ {c} : files[n] = seg[n]
    BY <2>1 DEF Changed
  <2> QED
    BY <1>0, <1>3, <2>1, <2>2, Emptied DEF Ordered
<1>5. /\ Present(seg)' = Present(files) /\ Present(idx)' = Present(idx)
      /\ Held(seg)' = Held(files) /\ (IsOrdered(seg)' <=> IsOrdered(files)) /\ Pending' = Pending
  BY <1>1, <1>2 DEF Present, Held, IsOrdered, Pending
<1>6. \A n \in Present(seg) : n # c => files[n] = seg[n]
  BY <1>3, <1>4, SegmentTypes
<1>7. LogTypeOK'
  BY <1>0, <1>1, <1>2, <1>4 DEF LogTypeOK, FilesOf
<1>8. Disk'
  <2>1. Len(files[c]) = 0
    BY <1>4, EmptySeq
  <2>2. ASSUME NEW n \in Present(seg)
        PROVE  ~miscounted => Len(files[n]) <= Capacity /\ (n < c => Len(files[n]) = Capacity)
    <3>1. CASE n = c
      BY <1>3, <2>1, <3>1
    <3>2. CASE n # c
      BY <1>0, <1>1, <1>6, <3>2 DEF Disk
    <3> QED
      BY <3>1, <3>2
  <2> QED
    BY <1>0, <1>1, <1>2, <1>4, <1>5, <2>2 DEF Disk
<1>9. Writers' /\ Totals'
  BY <1>0, <1>1, <1>2, <1>4 DEF Writers, Totals
<1>10. IndexFiles'
  BY <1>0, <1>1, <1>2, <1>4, <1>5 DEF IndexFiles, OffsetsOf
<1>11. Deletion' /\ Convex' /\ Oldest'
  BY <1>0, <1>1, <1>2, <1>4, <1>5 DEF Deletion, Convex, Oldest
<1>12. Gaps'
  <2> SUFFICES ASSUME NEW n \in Present(seg), NEW m \in Segments \ Present(seg), n < m, m < c
               PROVE  Range(files[n]) \subseteq removable
    BY <1>1, <1>2, <1>4, <1>5 DEF Gaps
  <2>1. n # c /\ n \in Nat /\ m \in Nat
    BY <1>3, SegmentTypes
  <2> QED
    BY <1>0, <1>1, <1>6, <2>1 DEF Gaps
<1>13. Ordered'
  BY <1>0, <1>2, <1>4, <1>5 DEF Ordered
<1>14. Survive'
  <2>1. acked \ removable \subseteq {}
    BY <1>0, <1>2 DEF Survive, Deletion
  <2> QED
    BY <1>2, <2>1 DEF Survive
<1> QED
  BY <1>7, <1>8, <1>9, <1>10, <1>11, <1>12, <1>13, <1>14 DEF LogInv

\* ... and then its offsets.
LEMMA TruncateIndexKeeps == ASSUME LogInv, TruncateIndex PROVE LogInv'
<1>0. /\ LogTypeOK /\ Disk /\ Writers /\ Totals /\ IndexFiles /\ Deletion /\ Convex /\ Oldest
      /\ Gaps /\ Ordered /\ Survive
  BY DEF LogInv
<1>1. PICK index, c : index = idx' /\ c = currentFileIndex
  OBVIOUS
<1>2. /\ stage = "truncate" /\ stage' = "idle"
      /\ index = [idx EXCEPT ![c] = <<>>]
      /\ currentEntries' = 0 /\ totalEntries' = 0 /\ oldestFileIndex' = c
      /\ purged' = (purged \/ c > 0)
      /\ UNCHANGED <<seg, up, currentFileIndex, logBuf, idxBuf, todo, doomed, sent, batch,
                     acked, removable, dirty, crashes, torn, hidden, miscounted>>
  BY <1>1 DEF TruncateIndex, OffsetsCleared, bufVars
<1>3. /\ Nat \in SUBSET Nat /\ c \in Present(idx) /\ c \in Present(seg) /\ c \in Nat
      /\ idx \in FilesOf(Nat) /\ seg \in FilesOf(Entries) /\ Entries \in SUBSET Nat
      /\ Segments \subseteq Nat /\ Capacity \in Nat \ {0} /\ c \in Segments
  BY <1>1, FileFacts, LogConstants, SegmentTypes
<1>4. /\ index \in FilesOf(Nat) /\ Present(index) = Present(idx) /\ index[c] = <<>>
      /\ \A n \in Segments \ {c} : index[n] = idx[n]
  <2>1. index \in FilesOf(Nat) /\ Changed(index, idx, c, <<>>)
    BY <1>2, <1>3, LogConstants, Change
  <2>2. index[c] = <<>> /\ \A n \in Segments \ {c} : index[n] = idx[n]
    BY <2>1 DEF Changed
  <2> QED
    BY <1>3, <2>1, <2>2, Emptied
<1>5. /\ Present(seg)' = Present(seg) /\ Present(idx)' = Present(index)
      /\ Held(seg)' = Held(seg) /\ (IsOrdered(seg)' <=> IsOrdered(seg)) /\ Pending' = Pending
  BY <1>1, <1>2 DEF Present, Held, IsOrdered, Pending
<1>6. up /\ doomed = {} /\ logBuf = <<>> /\ idxBuf = <<>> /\ todo = <<>> /\ seg[c] = <<>>
  BY <1>0, <1>1, <1>2 DEF Writers, Deletion
<1>7. Len(seg[c]) = 0 /\ Len(logBuf) = 0 /\ 0 + 0 = 0
  BY <1>6, EmptySeq
<1>8. LogTypeOK'
  BY <1>0, <1>1, <1>2, <1>3, <1>4 DEF LogTypeOK, FilesOf
<1>9. Disk'
  BY <1>0, <1>2, <1>4, <1>5 DEF Disk
<1>10. Writers'
  BY <1>0, <1>1, <1>2, <1>6, <1>7 DEF Writers
<1>11. Totals'
  <2>1. c * Capacity + 0 \in Nat
    BY <1>3
  <2>2. ~(c > 0) => c * Capacity + 0 = 0
    BY <1>3
  <2>3. 0 <= c * Capacity + 0
    BY <2>1
  <2> QED
    BY <1>1, <1>2, <2>2, <2>3 DEF Totals
<1>12. IndexFiles'
  <2>1. index[c] \o idxBuf = OffsetsOf(Len(seg[c]) + Len(logBuf))
    BY <1>4, <1>6, <1>7, NoOffsets, EmptySeq, ConcatEmptySeq
  <2>2. \A n \in Present(seg) : n < c => index[n] = idx[n]
    BY <1>3, <1>4, SegmentTypes
  <2> QED
    BY <1>0, <1>1, <1>2, <1>5, <2>1, <2>2 DEF IndexFiles, OffsetsOf
<1>13. Deletion' /\ Convex' /\ Gaps'
  BY <1>0, <1>2, <1>5, <1>6 DEF Deletion, Convex, Gaps
<1>14. Oldest'
  <2> SUFFICES ASSUME ~purged' PROVE c \in Present(seg) /\ \A n \in Present(seg) : c <= n
    BY <1>2, <1>5 DEF Oldest
  <2>1. Present(seg) \subseteq {c}
    BY <1>0, <1>1, <1>2, <1>6 DEF Deletion
  <2> QED
    BY <1>3, <2>1
<1>15. Ordered' /\ Survive'
  BY <1>0, <1>2, <1>5 DEF Ordered, Survive
<1> QED
  BY <1>8, <1>9, <1>10, <1>11, <1>12, <1>13, <1>14, <1>15 DEF LogInv

-----------------------------------------------------------------------------
(* The end of the process and open *)

\* What the writers held is lost; the batch was not acknowledged.
LEMMA LogCrashKeeps ==
  ASSUME LogInv, NEW cut \in BOOLEAN, Crash(cut)
  PROVE  LogInv'
<1>0. /\ LogTypeOK /\ Disk /\ Writers /\ Totals /\ IndexFiles /\ Deletion /\ Convex /\ Oldest
      /\ Gaps /\ Ordered /\ Survive
  BY DEF LogInv
<1>1. /\ up /\ up' = FALSE /\ crashes < MaxCrashes /\ crashes' = crashes + 1
      /\ dirty' = (dirty \/ stage # "idle")
      /\ cut => logBuf # <<>>
      /\ torn' = IF cut /\ torn[currentFileIndex] = Absent
                 THEN [torn EXCEPT ![currentFileIndex] = Len(seg[currentFileIndex])] ELSE torn
      /\ logBuf' = <<>> /\ idxBuf' = <<>> /\ todo' = <<>> /\ doomed' = {} /\ stage' = "idle"
      /\ UNCHANGED <<seg, idx, currentFileIndex, oldestFileIndex, currentEntries, totalEntries,
                     sent, batch, acked, removable, purged, hidden, miscounted>>
  BY DEF Crash, fileVars, memVars
<1>2. Present(seg)' = Present(seg) /\ Present(idx)' = Present(idx) /\ Held(seg)' = Held(seg)
      /\ (IsOrdered(seg)' <=> IsOrdered(seg))
  BY <1>1 DEF Present, Held, IsOrdered
<1>3. ~dirty' => /\ ~dirty /\ stage = "idle"
                 /\ doomed = {} /\ logBuf' = logBuf /\ idxBuf' = idxBuf
  BY <1>0, <1>1 DEF Writers, Deletion
<1>4. LogTypeOK'
  <2>1. crashes' \in 0 .. MaxCrashes
    BY <1>0, <1>1, BoundsAssumption DEF LogTypeOK
  <2>2. \A S : <<>> \in Seq(S)
    BY LogConstants
  <2>3. dirty' \in BOOLEAN
    BY <1>0, <1>1 DEF LogTypeOK
  <2>4. torn' \in [Segments -> Nat \cup {Absent}]
    <3>1. Len(seg[currentFileIndex]) \in Nat
      BY FileFacts, LenProperties
    <3> QED
      BY <1>0, <1>1, <3>1 DEF LogTypeOK
  <2> QED
    BY <1>0, <1>1, <2>1, <2>2, <2>3, <2>4 DEF LogTypeOK
<1>4a. (\E n \in Segments : torn'[n] # Absent) => (\E n \in Segments : torn[n] # Absent) \/ stage # "idle"
  BY <1>0, <1>1 DEF Writers, LogTypeOK
<1>5. Disk' /\ Writers' /\ Totals'
  BY <1>0, <1>1, <1>2, <1>4a DEF Disk, Writers, Totals
<1>6. IndexFiles'
  BY <1>0, <1>1, <1>2, <1>3 DEF IndexFiles, OffsetsOf
<1>7. Deletion' /\ Oldest' /\ Gaps'
  BY <1>0, <1>1, <1>2 DEF Deletion, Oldest, Gaps
<1>8. Convex'
  BY <1>0, <1>1, <1>2, <1>3 DEF Convex
<1>9. Ordered' /\ Survive'
  <2>1. Pending' = <<>>
    BY <1>1, EmptySeq, ConcatEmptySeq DEF Pending
  <2>2. Len(Pending') = 0
    BY <2>1, EmptySeq
  <2> QED
    BY <1>0, <1>1, <1>2, <2>2 DEF Ordered, Survive
<1> QED
  BY <1>4, <1>5, <1>6, <1>7, <1>8, <1>9 DEF LogInv

\* A segment's index is right once it is ensured.
LEMMA EnsuredIs ==
  ASSUME NEW files \in FilesOf(Entries), NEW index \in FilesOf(Nat), NEW n \in Present(files)
  PROVE  /\ EnsuredIndex(files, index, n) \in Seq(Nat)
         /\ EnsuredIndex(files, index, n) # Absent
         /\ index[n] = OffsetsOf(Len(files[n])) \/ index[n] = Absent
              => EnsuredIndex(files, index, n) = OffsetsOf(Len(files[n]))
<1>1. files[n] # Absent /\ n \in Segments /\ files[n] \in Seq(Entries)
  BY DEF Present, FilesOf
<1>2. Len(files[n]) \in Nat
  BY <1>1, LenProperties
<1>3. Offsets(files[n]) = OffsetsOf(Len(files[n]))
  BY DEF Offsets, OffsetsOf
<1>4. OffsetsOf(Len(files[n])) \in Seq(Nat)
  BY <1>2, NextOffset
<1>5. index[n] \in Seq(Nat) \cup {Absent}
  BY <1>1 DEF FilesOf
<1>6. \A t \in Seq(Nat) : t # Absent
  BY LogConstants
<1>7. EnsuredIndex(files, index, n) = OffsetsOf(Len(files[n]))
      \/ (EnsuredIndex(files, index, n) = index[n] /\ index[n] # Absent)
  BY <1>1, <1>3 DEF EnsuredIndex
<1>8. index[n] = OffsetsOf(Len(files[n])) \/ index[n] = Absent
        => EnsuredIndex(files, index, n) = OffsetsOf(Len(files[n]))
  BY <1>7
<1> QED
  BY <1>4, <1>5, <1>6, <1>7, <1>8

\* open goes on with the last segment, or with a new one when that is full.
LEMMA LogOpenKeeps ==
  ASSUME LogInv, NEW counted \in Nat, Open(counted)
  PROVE  LogInv'
<1>0. /\ LogTypeOK /\ Disk /\ Writers /\ Totals /\ IndexFiles /\ Deletion /\ Convex /\ Oldest
      /\ Gaps /\ Ordered /\ Survive
  BY DEF LogInv
<1>1. PICK c : c = currentFileIndex
  OBVIOUS
<1>2. /\ Entries \in SUBSET Nat /\ Nat \in SUBSET Nat /\ c \in Present(seg) /\ c \in Nat
      /\ seg \in FilesOf(Entries) /\ idx \in FilesOf(Nat) /\ seg[c] \in Seq(Entries)
      /\ Segments \subseteq Nat /\ Capacity \in Nat \ {0} /\ c \in Segments
      /\ Present(seg) \subseteq Nat /\ \A n \in Present(seg) : n <= c
      /\ Present(idx) = Present(seg)
  BY <1>0, <1>1, FileFacts, LogConstants, SegmentTypes DEF Disk
<1>3. Max(Present(seg)) = c
  BY <1>2, GreatestIs
<1>4. PICK to, entries : /\ to = IF counted >= Capacity THEN c + 1 ELSE c
                         /\ entries = IF counted >= Capacity THEN 0 ELSE counted
  OBVIOUS
<1>5. PICK files, index : files = seg' /\ index = idx'
  OBVIOUS
<1>6. /\ ~up /\ to <= MaxSegments /\ up'
      /\ files = [seg EXCEPT ![to] = NewFile(@)]
      /\ index = [n \in Segments |-> IF n = to THEN NewFile(EnsuredIndex(files, idx, n))
                                     ELSE EnsuredIndex(files, idx, n)]
      /\ currentFileIndex' = to /\ oldestFileIndex' = Min(Present(seg))
      /\ counted \in Counts(c) /\ currentEntries' = entries
      /\ totalEntries' = to * Capacity + entries
      /\ miscounted' = (miscounted \/ Swallows(c))
      /\ purged' = FALSE
      /\ UNCHANGED <<logBuf, idxBuf, todo, doomed, stage, sent, batch, acked, removable, dirty,
                     crashes, torn, hidden>>
  BY <1>3, <1>4, <1>5 DEF Open, bufVars, TotalOf
<1>7. /\ stage = "idle" /\ logBuf = <<>> /\ idxBuf = <<>> /\ todo = <<>> /\ doomed = {}
      /\ Len(logBuf) = 0 /\ Len(seg[c]) \in Nat
  BY <1>0, <1>1, <1>2, <1>6, EmptySeq, LenProperties DEF Writers, Deletion
<1>7a. /\ ~miscounted' => ~miscounted /\ counted = Len(seg[c]) /\ Len(seg[c]) <= Capacity
       /\ ~dirty => ~miscounted'
  <2>1. ~miscounted' => ~miscounted /\ ~Swallows(c)
    BY <1>6
  <2>2. ~Swallows(c) => counted = Len(seg[c])
    BY <1>6 DEF Counts
  <2>3. ~miscounted => Len(seg[c]) <= Capacity
    BY <1>0, <1>1 DEF Disk
  <2>4. ~dirty => ~miscounted /\ ~Swallows(c)
    BY <1>0, <1>2 DEF Writers, Swallows
  <2> QED
    BY <1>6, <2>1, <2>2, <2>3, <2>4
<1>8. /\ to \in Nat /\ to \in Segments /\ c <= to
      /\ to = c \/ (to = c + 1 /\ counted >= Capacity /\ entries = 0 /\ to \notin Present(seg))
      /\ to = c => counted < Capacity /\ entries = counted
  <2>1. CASE counted >= Capacity
    <3>1. to = c + 1 /\ entries = 0
      BY <1>2, <1>4, <1>7, <2>1
    <3>2. to \in Nat /\ c < to
      BY <1>2, <3>1
    <3>3. to \notin Present(seg)
      BY <1>2, <3>2
    <3>4. to \in Segments
      BY <1>6, <3>2, LogConstants DEF Segments
    <3>5. to # c /\ c <= to
      BY <1>2, <3>2
    <3> QED
      BY <2>1, <3>1, <3>2, <3>3, <3>4, <3>5
  <2>2. CASE ~(counted >= Capacity)
    <3>1. to = c /\ entries = counted /\ counted < Capacity
      BY <1>2, <1>4, <1>7, <2>2
    <3> QED
      BY <1>2, <3>1
  <2> QED
    BY <2>1, <2>2
<1>9. /\ files \in FilesOf(Entries) /\ Present(files) = Present(seg) \cup {to}
      /\ \A n \in Present(seg) : files[n] = seg[n]
      /\ to \notin Present(seg) => files[to] = <<>>
      /\ Held(files) = Held(seg) /\ IsOrdered(files)
  <2>1. NewFile(seg[to]) \in Seq(Entries) \cup {Absent} /\ files = [seg EXCEPT ![to] = NewFile(seg[to])]
    BY <1>2, <1>6, <1>8, LogConstants DEF NewFile, FilesOf
  <2>2. files \in FilesOf(Entries) /\ Changed(files, seg, to, NewFile(seg[to]))
    BY <1>2, <1>8, <2>1, Change
  <2> QED
    BY <1>0, <1>2, <1>8, <2>2, Opened DEF Ordered
<1>10. /\ \A n \in Present(files) : n \in Segments /\ n \in Nat /\ files[n] \in Seq(Entries)
       /\ to \in Present(files)
  BY <1>2, <1>9, SegmentTypes
<1>11. ASSUME NEW n \in Present(files)
       PROVE  index[n] = EnsuredIndex(files, idx, n) /\ index[n] \in Seq(Nat) /\ index[n] # Absent
  BY <1>2, <1>6, <1>9, <1>10, EnsuredIs DEF NewFile
<1>12. ASSUME NEW n \in Segments, n \notin Present(files)
       PROVE  index[n] = Absent
  <2>1. n # to /\ files[n] = Absent /\ idx[n] = Absent
    BY <1>2, <1>9, <1>12 DEF Present
  <2> QED
    BY <1>6, <2>1 DEF EnsuredIndex
<1>13. index \in FilesOf(Nat) /\ Present(index) = Present(files)
  <2>1. \A n \in Segments : index[n] \in Seq(Nat) \cup {Absent}
    BY <1>11, <1>12
  <2>2. index \in FilesOf(Nat)
    BY <1>6, <2>1 DEF FilesOf
  <2>3. \A n \in Segments : index[n] # Absent <=> n \in Present(files)
    BY <1>11, <1>12
  <2> QED
    BY <1>10, <2>2, <2>3 DEF Present
<1>14. /\ Len(files[to]) \in Nat /\ entries \in Nat /\ entries <= Capacity
       /\ ~miscounted' => Len(files[to]) = entries
  <2>1. CASE to = c
    BY <1>2, <1>7, <1>7a, <1>8, <1>9, <2>1
  <2>2. CASE to \notin Present(seg)
    <3>1. Len(files[to]) = 0 /\ entries = 0
      BY <1>2, <1>8, <1>9, <2>2, EmptySeq
    <3> QED
      BY <1>2, <3>1
  <2> QED
    BY <1>2, <1>8, <2>1, <2>2
<1>15. ASSUME NEW n \in Present(seg)
       PROVE  /\ n <= to
              /\ ~miscounted' => Len(files[n]) <= Capacity /\ (n < to => Len(files[n]) = Capacity)
  <2>1. n \in Nat /\ n <= c
    BY <1>2
  <2>2. files[n] = seg[n]
    BY <1>9
  <2>3. ~miscounted => Len(seg[n]) <= Capacity /\ (n < c => Len(seg[n]) = Capacity)
    BY <1>0, <1>1 DEF Disk
  <2>4. ~miscounted' /\ n < to => n < c \/ Len(seg[n]) = Capacity
    <3>1. \A x \in Nat : x >= Capacity /\ x <= Capacity => x = Capacity
      BY <1>2
    <3>2. n < to => n < c \/ (n = c /\ to = c + 1)
      BY <1>2, <1>8, <2>1
    <3> QED
      BY <1>2, <1>7, <1>7a, <1>8, <3>1, <3>2
  <2>5. n <= to
    BY <1>2, <1>8, <2>1
  <2> QED
    BY <1>7a, <2>2, <2>3, <2>4, <2>5
<1>16. /\ Present(seg)' = Present(files) /\ Present(idx)' = Present(index)
       /\ Held(seg)' = Held(files) /\ (IsOrdered(seg)' <=> IsOrdered(files)) /\ Pending' = Pending
  BY <1>5, <1>6 DEF Present, Held, IsOrdered, Pending
<1>17. Min(Present(seg)) \in Present(seg) /\ \A n \in Present(seg) : Min(Present(seg)) <= n
  BY <1>2, LeastIs
<1>18. LogTypeOK'
  <2>1. oldestFileIndex' \in Segments
    BY <1>2, <1>6, <1>17, SegmentTypes
  <2>2. currentEntries' \in 0 .. Capacity
    BY <1>2, <1>6, <1>14
  <2>3. totalEntries' \in Nat
    <3>1. to * Capacity \in Nat
      BY <1>2, <1>8
    <3> QED
      BY <1>6, <1>14, <3>1
  <2>4. seg' \in [Segments -> Seq(Entries) \cup {Absent}] /\ idx' \in [Segments -> Seq(Nat) \cup {Absent}]
    BY <1>5, <1>9, <1>13 DEF FilesOf
  <2>5. up' \in BOOLEAN /\ purged' \in BOOLEAN /\ miscounted' \in BOOLEAN
    BY <1>0, <1>6 DEF Open, LogTypeOK
  <2> QED
    BY <1>0, <1>6, <1>8, <2>1, <2>2, <2>3, <2>4, <2>5 DEF LogTypeOK
<1>19. Disk'
  <2>1. to <= to /\ ~(to < to)
    BY <1>8
  <2>2. \A n \in Present(files) :
          /\ n <= to
          /\ ~miscounted' => Len(files[n]) <= Capacity /\ (n < to => Len(files[n]) = Capacity)
    BY <1>9, <1>14, <1>15, <2>1
  <2> QED
    BY <1>5, <1>6, <1>10, <1>13, <1>16, <2>2 DEF Disk
<1>20. Writers'
  <2>1. \A x \in Nat : x + 0 = x
    OBVIOUS
  <2>2. Len(files[to]) + Len(logBuf) = Len(files[to])
    BY <1>7, <1>14, <2>1, Zenon
  <2>3. miscounted' => dirty
    BY <1>7a
  <2> QED
    BY <1>0, <1>5, <1>6, <1>7, <1>14, <2>2, <2>3 DEF Writers
<1>21. Totals'
  <2>1. to * Capacity + entries \in Nat
    <3>1. to * Capacity \in Nat
      BY <1>2, <1>8
    <3> QED
      BY <1>14, <3>1
  <2>2. \A x \in Nat : x <= x
    OBVIOUS
  <2> QED
    BY <1>6, <2>1, <2>2 DEF Totals
<1>22. IndexFiles'
  <2>1. ASSUME ~dirty, NEW n \in Present(files)
        PROVE  index[n] = OffsetsOf(Len(files[n]))
    <3>1. idx[n] = OffsetsOf(Len(files[n])) \/ idx[n] = Absent
      <4>1. CASE n \in Present(seg) /\ n < c
        <5>1. Len(files[n]) = Capacity
          BY <1>0, <1>1, <1>7a, <1>9, <2>1, <4>1 DEF Disk
        <5> QED
          BY <1>0, <1>1, <2>1, <4>1, <5>1 DEF IndexFiles
      <4>2. CASE n = c
        <5>1. idx[c] \o idxBuf = OffsetsOf(Len(seg[c]) + Len(logBuf))
          BY <1>0, <1>1, <1>7, <2>1 DEF IndexFiles
        <5>2. idx[c] \in Seq(Nat)
          BY <1>1, FileFacts
        <5>3. idx[c] \o idxBuf = idx[c]
          BY <1>7, <5>2, ConcatEmptySeq
        <5>4. \A x \in Nat : x + 0 = x
          OBVIOUS
        <5>5. Len(seg[c]) + Len(logBuf) = Len(seg[c])
          BY <1>7, <5>4, Zenon
        <5> QED
          BY <1>2, <1>9, <4>2, <5>1, <5>3, <5>5
      <4>3. CASE n \notin Present(seg)
        BY <1>2, <1>10, <4>3 DEF Present
      <4> QED
        BY <1>2, <4>1, <4>2, <4>3
    <3> QED
      BY <1>2, <1>9, <1>11, <3>1, EnsuredIs
  <2>2. ASSUME ~dirty, NEW n \in Present(files), n < to
        PROVE  index[n] = OffsetsOf(Capacity)
    <3>1. Len(files[n]) = Capacity
      BY <1>7a, <1>8, <1>9, <1>15, <2>2
    <3> QED
      BY <2>1, <2>2, <3>1
  <2>3. ASSUME ~dirty
        PROVE  index[to] \o idxBuf = OffsetsOf(Len(files[to]) + Len(logBuf))
    <3>1. index[to] = OffsetsOf(Len(files[to])) /\ index[to] \in Seq(Nat)
      BY <1>10, <1>11, <2>1, <2>3
    <3>2. index[to] \o idxBuf = index[to]
      BY <1>7, <3>1, ConcatEmptySeq
    <3>3. \A x \in Nat : x + 0 = x
      OBVIOUS
    <3>4. Len(files[to]) + Len(logBuf) = Len(files[to])
      BY <1>7, <1>14, <3>3, Zenon
    <3> QED
      BY <3>1, <3>2, <3>4
  <2> QED
    BY <1>5, <1>6, <1>16, <2>2, <2>3 DEF IndexFiles, OffsetsOf
<1>23. Deletion'
  BY <1>6, <1>7, <1>16 DEF Deletion
<1>24. Convex'
  <2> SUFFICES ASSUME ~dirty, NEW n \in Present(files) PROVE n .. to \subseteq Present(files)
    BY <1>6, <1>7, <1>16 DEF Convex
  <2>1. CASE n = to
    BY <1>8, <1>10, <2>1
  <2>2. CASE n \in Present(seg)
    <3>1. n .. c \subseteq Present(seg)
      BY <1>0, <1>1, <1>7, <2>2 DEF Convex
    <3>2. \A m \in n .. to : m \in n .. c \/ m = to
      BY <1>2, <1>8, <2>2
    <3> QED
      BY <1>9, <3>1, <3>2
  <2> QED
    BY <1>9, <2>1, <2>2
<1>25. Oldest'
  <2>1. Min(Present(seg)) <= to
    <3>1. Min(Present(seg)) \in Nat /\ Min(Present(seg)) <= c
      BY <1>2, <1>17
    <3> QED
      BY <1>2, <1>8, <3>1
  <2> QED
    BY <1>6, <1>9, <1>16, <1>17, <2>1 DEF Oldest
<1>26. Gaps'
  <2> SUFFICES ASSUME NEW n \in Present(files), NEW m \in Segments \ Present(files), n < m, m < to
               PROVE  Range(files[n]) \subseteq removable
    BY <1>5, <1>6, <1>16 DEF Gaps
  <2>1. m # c /\ m \in Nat /\ n \in Nat
    BY <1>2, <1>9, <1>10
  <2>2. m < c /\ n # to
    BY <1>2, <1>8, <2>1
  <2>3. n \in Present(seg) /\ m \notin Present(seg) /\ files[n] = seg[n]
    BY <1>9, <2>2
  <2> QED
    BY <1>0, <1>1, <2>2, <2>3 DEF Gaps
<1>27. Ordered'
  BY <1>0, <1>6, <1>9, <1>16 DEF Ordered
<1>28. Survive'
  BY <1>0, <1>6, <1>9, <1>16 DEF Survive
<1> QED
  BY <1>18, <1>19, <1>20, <1>21, <1>22, <1>23, <1>24, <1>25, <1>26, <1>27, <1>28 DEF LogInv

\* A new log has the first segment, and nothing in it.
LEMMA LogInitOK == LogInit => LogInv
<1> SUFFICES ASSUME LogInit PROVE LogInv
  OBVIOUS
<1>1. /\ seg = [n \in Segments |-> IF n = 0 THEN <<>> ELSE Absent]
      /\ idx = [n \in Segments |-> IF n = 0 THEN <<>> ELSE Absent]
      /\ up = TRUE /\ currentFileIndex = 0 /\ oldestFileIndex = 0
      /\ currentEntries = 0 /\ totalEntries = 0
      /\ logBuf = <<>> /\ idxBuf = <<>> /\ todo = <<>> /\ doomed = {} /\ stage = "idle"
      /\ sent = 0 /\ batch = {} /\ acked = {} /\ removable = {}
      /\ dirty = FALSE /\ purged = FALSE /\ crashes = 0
      /\ torn = [n \in Segments |-> Absent] /\ hidden = {} /\ miscounted = FALSE
  BY DEF LogInit
<1>2. /\ Capacity \in Nat \ {0} /\ MaxSegments \in Nat /\ MaxEntries \in Nat /\ MaxCrashes \in Nat
      /\ \A S : <<>> \in Seq(S)
      /\ <<>> # Absent /\ Entries \in SUBSET Nat
  <2>1. <<>> \in Seq(Nat) /\ Absent \notin Seq(Nat)
    BY AbsentAssumption, EmptySeq
  <2>2. <<>> # Absent
    BY <2>1
  <2>3. Entries \in SUBSET Nat
    BY DEF Entries
  <2>4. MaxCrashes \in Nat
    BY BoundsAssumption
  <2> QED
    BY <2>2, <2>3, <2>4, LogConstants
<1>3. 0 \in Segments
  BY <1>2 DEF Segments
<1>4. Present(seg) = {0} /\ Present(idx) = {0} /\ seg[0] = <<>> /\ idx[0] = <<>>
  BY <1>1, <1>2, <1>3 DEF Present
<1>5. Len(seg[0]) = 0 /\ Range(seg[0]) = {} /\ Len(logBuf) = 0 /\ Pending = <<>> /\ Len(Pending) = 0
  BY <1>1, <1>4, EmptyRange, ConcatEmptySeq, EmptySeq DEF Pending
<1>6. Held(seg) = {}
  BY <1>4, <1>5, HeldIs
<1>7. LogTypeOK
  <2>1. seg \in [Segments -> Seq(Entries) \cup {Absent}] /\ idx \in [Segments -> Seq(Nat) \cup {Absent}]
    BY <1>1, <1>2
  <2>2. logBuf \in Seq(Entries) /\ idxBuf \in Seq(Nat) /\ todo \in Seq(Entries)
    BY <1>1, <1>2
  <2>3. /\ currentEntries \in 0 .. Capacity /\ sent \in 0 .. MaxEntries
        /\ crashes \in 0 .. MaxCrashes /\ totalEntries \in Nat
    BY <1>1, <1>2
  <2> QED
    BY <1>1, <1>3, <2>1, <2>2, <2>3 DEF LogTypeOK
<1>8. Disk /\ Writers
  BY <1>1, <1>2, <1>4, <1>5 DEF Disk, Writers
<1>9. Totals
  BY <1>1, <1>2 DEF Totals
<1>10. IndexFiles
  <2>1. idx[0] \o idxBuf = OffsetsOf(Len(seg[0]) + Len(logBuf))
    BY <1>1, <1>4, <1>5, NoOffsets, EmptySeq, ConcatEmptySeq
  <2> QED
    BY <1>1, <1>4, <2>1 DEF IndexFiles
<1>11. Deletion /\ Convex /\ Oldest /\ Gaps
  BY <1>1, <1>4 DEF Deletion, Convex, Oldest, Gaps
<1>12. Ordered
  BY <1>4, <1>5, <1>6 DEF Ordered, IsOrdered
<1>13. Survive
  BY <1>1 DEF Survive
<1> QED
  BY <1>7, <1>8, <1>9, <1>10, <1>11, <1>12, <1>13 DEF LogInv

LEMMA LogStep == LogInv /\ [LogNext]_logVars => LogInv'
<1> SUFFICES ASSUME LogInv, [LogNext]_logVars PROVE LogInv'
  OBVIOUS
<1>1. ASSUME NEW n \in BatchSizes, AppendBatch(n) PROVE LogInv'
  BY <1>1, BatchKeeps
<1>2. CASE BufferEntry
  BY <1>2, BufferKeeps
<1>3. CASE SpillLog
  BY <1>3, SpillKeeps
<1>4. CASE RotateFlushLog
  BY <1>4, RotateFlushKeeps
<1>5. CASE RotateOpenNext
  BY <1>5, RotateOpenKeeps
<1>6. CASE FlushIndex
  BY <1>6, FlushIndexKeeps
<1>7. CASE FlushLog
  BY <1>7, FlushLogKeeps
<1>8. ASSUME NEW keep \in Keeps, DeleteOlderThan(keep) PROVE LogInv'
  BY <1>8, DeleteKeeps
<1>9. ASSUME NEW n \in Segments, RemoveSegment(n) PROVE LogInv'
  BY <1>9, RemoveKeeps
<1>10. CASE EndDeletion
  BY <1>10, EndDeletionKeeps
<1>11. CASE TruncateLog
  BY <1>11, TruncateLogKeeps
<1>12. CASE TruncateIndex
  BY <1>12, TruncateIndexKeeps
<1>13. ASSUME NEW cut \in BOOLEAN, Crash(cut) PROVE LogInv'
  BY <1>13, LogCrashKeeps
<1>14. ASSUME NEW counted \in 0 .. MaxEntries + 1, Open(counted) PROVE LogInv'
  BY <1>14, LogOpenKeeps
<1>15. CASE UNCHANGED logVars
  <2>1. UNCHANGED <<seg, idx, up, currentFileIndex, oldestFileIndex, currentEntries,
                    totalEntries, logBuf, idxBuf, todo, doomed, stage, sent, batch, acked,
                    removable, dirty, purged, crashes, torn, hidden, miscounted>>
    BY <1>15 DEF logVars, fileVars, memVars, bufVars, historyVars
  <2>2. Present(seg)' = Present(seg) /\ Present(idx)' = Present(idx) /\ Held(seg)' = Held(seg)
        /\ (IsOrdered(seg)' <=> IsOrdered(seg)) /\ Pending' = Pending
    BY <2>1 DEF Present, Held, IsOrdered, Pending
  <2>3. LogTypeOK' /\ Disk' /\ Writers' /\ Totals' /\ IndexFiles'
    BY <2>1, <2>2 DEF LogInv, LogTypeOK, Disk, Writers, Totals, IndexFiles, OffsetsOf
  <2>4. Deletion' /\ Convex' /\ Oldest' /\ Gaps' /\ Ordered' /\ Survive'
    BY <2>1, <2>2 DEF LogInv, Deletion, Convex, Oldest, Gaps, Ordered, Survive
  <2> QED
    BY <2>3, <2>4 DEF LogInv
<1> QED
  BY <1>1, <1>2, <1>3, <1>4, <1>5, <1>6, <1>7, <1>8, <1>9, <1>10, <1>11, <1>12, <1>13, <1>14,
     <1>15 DEF LogNext

LEMMA LogInvariance == LogSpec => []LogInv
BY LogInitOK, LogStep, PTL DEF LogSpec

\* What is in its place in a segment is found by its index.
LEMMA GetFinds ==
  ASSUME LogInv, up, stage = "idle", ~dirty, NEW n \in Present(seg), NEW k \in 1 .. Len(seg[n])
  PROVE  Get(n * Capacity + k - 1) = seg[n][k] /\ seg[n][k] # Absent
<1>0. LogTypeOK /\ Disk /\ Writers /\ IndexFiles
  BY DEF LogInv
<1>1. /\ n \in Nat /\ n \in Segments /\ seg[n] \in Seq(Entries) /\ Len(seg[n]) \in Nat
      /\ Capacity \in Nat \ {0} /\ Len(seg[n]) <= Capacity /\ Entries \in SUBSET Nat
      /\ ~miscounted
      /\ seg \in FilesOf(Entries) /\ idx \in FilesOf(Nat)
  BY <1>0, FileFacts, SegmentTypes, LenProperties, LogConstants DEF Disk, Writers
<1>2. k \in Nat /\ k - 1 \in 0 .. Capacity - 1 /\ k - 1 < Len(seg[n])
  BY <1>1
<1>3. n * Capacity + k - 1 = n * Capacity + (k - 1)
  BY <1>1, <1>2
<1>4. (n * Capacity + k - 1) \div Capacity = n /\ (n * Capacity + k - 1) % Capacity = k - 1
  BY <1>1, <1>2, <1>3, PlaceOf
<1>5. idx[n] = OffsetsOf(Len(seg[n]))
  <2>1. CASE n = currentFileIndex
    <3>1. idxBuf = <<>> /\ logBuf = <<>>
      BY <1>0 DEF Writers
    <3>2. idx[n] \o idxBuf = OffsetsOf(Len(seg[n]) + Len(logBuf))
      BY <1>0, <2>1 DEF IndexFiles
    <3>3. idx[n] \o idxBuf = idx[n]
      BY <2>1, <3>1, FileFacts, ConcatEmptySeq
    <3>4. Len(logBuf) = 0 /\ \A x \in Nat : x + 0 = x
      BY <3>1, EmptySeq
    <3>5. Len(seg[n]) + Len(logBuf) = Len(seg[n])
      BY <1>1, <3>4, Zenon
    <3> QED
      BY <3>2, <3>3, <3>5
  <2>2. CASE n # currentFileIndex
    <3>1. n < currentFileIndex
      BY <1>0, <1>1, <2>2, FileFacts DEF Disk
    <3> QED
      BY <1>0, <1>1, <3>1 DEF Disk, IndexFiles
  <2> QED
    BY <2>1, <2>2
<1>6. EnsuredIndex(seg, idx, n) = OffsetsOf(Len(seg[n])) /\ EnsuredIndex(seg, idx, n) # Absent
  BY <1>1, <1>5, EnsuredIs
<1>7. /\ Len(OffsetsOf(Len(seg[n]))) = Len(seg[n])
      /\ OffsetsOf(Len(seg[n]))[k] = k - 1
      /\ (k - 1) + 1 = k
  BY <1>1, <1>2, NextOffset DEF OffsetsOf
<1>8. seg[n][k] \in Nat
  BY <1>1, ElementOfSeq
<1>9. ~(k - 1 >= Len(seg[n]))
  BY <1>1, <1>2
<1>10. Get(n * Capacity + k - 1) = seg[n][k]
  BY <1>4, <1>6, <1>7, <1>9 DEF Get
<1> QED
  BY <1>8, <1>10, LogConstants

\* Once an operation has returned, index, bounds and segments agree.
LEMMA IndexRight == LogInv => IndexFindsEntries
<1> SUFFICES ASSUME LogInv PROVE IndexFindsEntries
  OBVIOUS
<1>0. /\ LogTypeOK /\ Disk /\ Writers /\ Totals /\ IndexFiles /\ Deletion /\ Convex /\ Oldest
  BY DEF LogInv
<1> SUFFICES ASSUME up, stage = "idle"
             PROVE  GetReadsEntry /\ BoundsAreReadable /\ SegmentsAreConsecutive
  BY <1>0 DEF IndexFindsEntries, Settled
<1>1. PICK c, old : c = currentFileIndex /\ old = oldestFileIndex
  OBVIOUS
<1>2. /\ c \in Nat /\ c \in Present(seg) /\ Capacity \in Nat \ {0} /\ seg[c] \in Seq(Entries)
      /\ Len(seg[c]) \in Nat /\ totalEntries \in Nat /\ old \in Nat
      /\ \A n \in Present(seg) : n \in Nat /\ n <= c
  BY <1>0, <1>1, FileFacts, LenProperties, SegmentTypes, LogConstants DEF LogTypeOK, Disk
<1>3. /\ doomed = {} /\ (~miscounted => Len(seg[c]) = currentEntries)
      /\ ~dirty => ~miscounted
  <2>1. /\ doomed = {} /\ logBuf = <<>>
        /\ ~miscounted => Len(seg[c]) + Len(logBuf) = currentEntries
        /\ ~dirty => ~miscounted
    BY <1>0, <1>1 DEF Writers, Deletion
  <2>2. Len(logBuf) = 0 /\ \A x \in Nat : x + 0 = x
    BY <2>1, EmptySeq
  <2>3. Len(seg[c]) + Len(logBuf) = Len(seg[c])
    BY <1>2, <2>2, Zenon
  <2> QED
    BY <2>1, <2>3
<1>4. GetReadsEntry
  BY GetFinds DEF GetReadsEntry, GetAgreesWithLog
<1>5. ASSUME ~purged, ~dirty
      PROVE  old \in Present(seg) /\ Present(seg) = old .. c
  <2>1. old \in Present(seg) /\ \A n \in Present(seg) : old <= n
    BY <1>0, <1>1, <1>5 DEF Oldest
  <2>2. old .. c \subseteq Present(seg)
    BY <1>0, <1>1, <1>3, <1>5, <2>1 DEF Convex
  <2>3. \A n \in Present(seg) : n \in old .. c
    <3> SUFFICES ASSUME NEW n \in Present(seg) PROVE n \in old .. c
      OBVIOUS
    <3>1. old <= n /\ n <= c /\ n \in Nat
      BY <1>2, <2>1
    <3> QED
      BY <1>2, <3>1
  <2> QED
    BY <2>1, <2>2, <2>3
<1>6. SegmentsAreConsecutive
  BY <1>1, <1>5 DEF SegmentsAreConsecutive
<1>7. ~purged /\ ~miscounted => totalEntries = c * Capacity + Len(seg[c])
  BY <1>0, <1>1, <1>3 DEF Totals
<1>8. ASSUME ~purged, ~dirty, totalEntries # 0, YoungestLog >= OldestLog
      PROVE  Get(OldestLog) # Absent /\ Get(YoungestLog) # Absent
  <2>1. OldestLog = old * Capacity /\ YoungestLog = totalEntries - 1
    BY <1>1, <1>8 DEF OldestLog, YoungestLog
  <2>2. /\ old * Capacity \in Nat /\ c * Capacity \in Nat
        /\ old * Capacity < totalEntries /\ totalEntries = c * Capacity + Len(seg[c])
    <3>1. old * Capacity \in Nat /\ c * Capacity \in Nat
      BY <1>2
    <3>2. totalEntries - 1 >= old * Capacity
      BY <1>8, <2>1
    <3>3. \A x, y \in Nat : x - 1 >= y => y < x
      OBVIOUS
    <3>4. old * Capacity < totalEntries
      BY <1>2, <3>1, <3>2, <3>3
    <3> QED
      BY <1>3, <1>7, <1>8, <3>1, <3>4
  <2>3. old \in Present(seg) /\ old <= c
    BY <1>2, <1>5, <1>8
  <2>4. Len(seg[old]) \in Nat /\ Len(seg[old]) > 0
    <3>1. CASE old = c
      <4>1. \A x, y \in Nat : x < x + y => y > 0
        OBVIOUS
      <4>2. c * Capacity < c * Capacity + Len(seg[c])
        BY <2>2, <3>1
      <4> QED
        BY <1>2, <2>2, <3>1, <4>1, <4>2
    <3>2. CASE old # c
      <4>1. old < c
        BY <1>2, <2>3, <3>2
      <4>2. Len(seg[old]) = Capacity
        BY <1>0, <1>1, <1>3, <1>8, <2>3, <4>1 DEF Disk
      <4> QED
        BY <1>2, <4>2
    <3> QED
      BY <3>1, <3>2
  <2>5. Get(OldestLog) # Absent
    <3>1. 1 \in 1 .. Len(seg[old])
      BY <2>4
    <3>2. Get(old * Capacity + 1 - 1) # Absent
      BY <1>8, <2>3, <3>1, GetFinds
    <3>3. old * Capacity + 1 - 1 = old * Capacity
      BY <2>2
    <3> QED
      BY <2>1, <3>2, <3>3
  <2>6. Get(YoungestLog) # Absent
    <3>1. CASE Len(seg[c]) # 0
      <4>1. Len(seg[c]) \in 1 .. Len(seg[c])
        BY <1>2, <3>1
      <4>2. Get(c * Capacity + Len(seg[c]) - 1) # Absent
        BY <1>2, <1>8, <4>1, GetFinds
      <4> QED
        BY <2>1, <2>2, <4>2
    <3>2. CASE Len(seg[c]) = 0
      <4>1. totalEntries = c * Capacity
        BY <2>2, <3>2
      <4>2. old # c
        BY <2>2, <4>1
      <4>3. PICK m \in Nat : m = c - 1
        BY <1>2, <2>3, <4>2
      <4>4. m \in old .. c /\ m < c /\ m + 1 = c
        BY <1>2, <2>3, <4>2, <4>3
      <4>5. m \in Present(seg)
        BY <1>5, <1>8, <4>4
      <4>6. Len(seg[m]) = Capacity
        BY <1>0, <1>1, <1>3, <1>8, <4>4, <4>5 DEF Disk
      <4>7. Capacity \in 1 .. Len(seg[m])
        BY <1>2, <4>6
      <4>8. Get(m * Capacity + Capacity - 1) # Absent
        BY <1>8, <4>5, <4>7, GetFinds
      <4>9. m * Capacity + Capacity = c * Capacity
        BY <1>2, <4>3, <4>4, EndsFirst
      <4>10. m * Capacity + Capacity - 1 = totalEntries - 1
        <5>1. m * Capacity + Capacity = totalEntries
          BY <4>1, <4>9
        <5> QED
          BY <1>2, <4>3, <5>1
      <4> QED
        BY <2>1, <4>8, <4>10
    <3> QED
      BY <3>1, <3>2
  <2> QED
    BY <2>5, <2>6
<1>9. BoundsAreReadable
  BY <1>1, <1>7, <1>8 DEF BoundsAreReadable
<1> QED
  BY <1>4, <1>6, <1>9

-----------------------------------------------------------------------------
(* Cut frames *)

\* Some frame was cut short.
SomeTorn == \E n \in Segments : torn[n] # Absent

\* Only what was handed in later is behind a cut frame.
Tears ==
  /\ \A n \in Segments : torn[n] # Absent => n \in Present(seg)
  /\ \A p \in Places : BehindTear(p) => EntryAt(p) \in hidden
  /\ SomeTorn => Range(Pending) \subseteq hidden

\* A step that cuts no frame, and writes nothing but what was handed in
LEMMA TearsStay ==
  ASSUME Tears, Segments \subseteq Nat,
         \A n \in Segments : torn'[n] # Absent => torn[n] = torn'[n] /\ n \in Present(seg)',
         \A p \in Places' :
           \/ p \in Places /\ EntryAt(p)' = EntryAt(p)
           \/ EntryAt(p)' \in Range(Pending),
         hidden \subseteq hidden',
         SomeTorn => Range(Pending') \subseteq Range(Pending) \cup hidden'
  PROVE  Tears'
<1>1. SomeTorn' => SomeTorn
  BY DEF SomeTorn
<1>2. ASSUME NEW p \in Places', BehindTear(p)'
      PROVE  EntryAt(p)' \in hidden'
  <2>1. PICK m \in Present(seg)' : torn'[m] # Absent /\ (m < p[1] \/ (m = p[1] /\ torn'[m] < p[2]))
    BY <1>2 DEF BehindTear
  <2>2. m \in Segments
    BY DEF Present
  <2>3. torn[m] = torn'[m] /\ m \in Present(seg) /\ SomeTorn
    BY <2>1, <2>2 DEF Tears, SomeTorn
  <2>4. BehindTear(p)
    BY <2>1, <2>3 DEF BehindTear
  <2>5. CASE p \in Places /\ EntryAt(p)' = EntryAt(p)
    BY <2>4, <2>5 DEF Tears
  <2>6. CASE EntryAt(p)' \in Range(Pending)
    BY <2>3, <2>6 DEF Tears
  <2> QED
    BY <2>5, <2>6
<1>3. SomeTorn' => Range(Pending') \subseteq hidden'
  BY <1>1 DEF Tears
<1>4. \A n \in Segments : torn'[n] # Absent => n \in Present(seg)'
  OBVIOUS
<1> QED
  BY <1>2, <1>3, <1>4 DEF Tears

\* The segments are as they were.
LEMMA TearsOfSame ==
  ASSUME LogInv, Tears, UNCHANGED <<seg, torn>>, hidden \subseteq hidden',
         SomeTorn => Range(Pending') \subseteq Range(Pending) \cup hidden'
  PROVE  Tears'
<1>1. Segments \subseteq Nat /\ Present(seg)' = Present(seg)
  BY FileFacts DEF Present
<1>2. Places' = Places /\ \A p : EntryAt(p)' = EntryAt(p)
  BY DEF Places, Present, EntryAt
<1>3. \A n \in Segments : torn'[n] # Absent => torn[n] = torn'[n] /\ n \in Present(seg)'
  BY <1>1 DEF Tears
<1> QED
  BY <1>1, <1>2, <1>3, TearsStay

\* The places of the entries after a step
LEMMA PlacesThen ==
  ASSUME NEW p \in Places'
  PROVE  \E n \in Present(seg)' : \E k \in 1 .. Len(seg'[n]) : p = <<n, k>>
<1>1. p \in UNION {{<<n, k>> : k \in 1 .. Len(seg'[n])} : n \in Present(seg)'}
  BY DEF Places
<1>2. PICK n \in Present(seg)' : p \in {<<n, k>> : k \in 1 .. Len(seg'[n])}
  BY <1>1
<1> QED
  BY <1>2

\* What is written to the active segment is what was pending.
LEMMA TearsFlushed ==
  ASSUME LogInv, LogInv', Tears, seg' = [seg EXCEPT ![currentFileIndex] = @ \o logBuf],
         logBuf' = <<>>, UNCHANGED <<torn, todo, hidden>>
  PROVE  Tears'
<1>1. PICK c : c = currentFileIndex
  OBVIOUS
<1>2. /\ Segments \subseteq Nat /\ c \in Present(seg) /\ c \in Nat
      /\ seg \in FilesOf(Entries) /\ Entries \in SUBSET Nat
      /\ seg[c] \in Seq(Entries) /\ logBuf \in Seq(Entries) /\ todo \in Seq(Entries)
  BY <1>1, FileFacts
<1>3. seg[c] \o logBuf \in Seq(Entries) /\ c \in Segments
  BY <1>2, ConcatProperties, SegmentTypes
<1>4. PICK files : files = seg'
  OBVIOUS
<1>5. Changed(files, seg, c, seg[c] \o logBuf)
  BY <1>1, <1>2, <1>3, <1>4, Change
<1>6. /\ Present(files) = Present(seg)
      /\ files[c] = seg[c] \o logBuf /\ \A n \in Segments \ {c} : files[n] = seg[n]
  <2>1. Present(files) = Present(seg)
    BY <1>2, <1>5, Continued
  <2> QED
    BY <1>5, <2>1 DEF Changed
<1>7. Range(Pending) = Range(logBuf) \cup Range(todo) /\ Range(Pending') = Range(todo)
  <2>1. Pending' = todo
    BY <1>2, ConcatEmptySeq DEF Pending
  <2> QED
    BY <1>2, <2>1, RangeConcatenation DEF Pending
<1>8. Present(seg)' = Present(files)
  BY <1>4 DEF Present
<1>9. ASSUME NEW p \in Places'
      PROVE  \/ p \in Places /\ EntryAt(p)' = EntryAt(p)
             \/ EntryAt(p)' \in Range(Pending)
  <2>1. PICK n \in Present(seg)' : \E k \in 1 .. Len(seg'[n]) : p = <<n, k>>
    BY PlacesThen
  <2>2. PICK k \in 1 .. Len(files[n]) : p = <<n, k>>
    BY <1>4, <2>1
  <2>3. n \in Present(seg) /\ EntryAt(p)' = files[n][k] /\ EntryAt(p) = seg[n][k]
    BY <1>4, <1>6, <1>8, <2>1, <2>2 DEF EntryAt
  <2>4. CASE n # c
    <3>1. files[n] = seg[n]
      BY <1>2, <1>6, <2>3, <2>4, SegmentTypes
    <3>2. p \in Places
      BY <2>2, <2>3, <3>1, PlacesAre
    <3> QED
      BY <2>3, <3>1, <3>2
  <2>5. CASE n = c
    <3>1. /\ Len(seg[c]) \in Nat /\ Len(logBuf) \in Nat /\ Len(files[c]) = Len(seg[c]) + Len(logBuf)
          /\ \A i \in 1 .. Len(seg[c]) + Len(logBuf) :
               files[c][i] = IF i <= Len(seg[c]) THEN seg[c][i] ELSE logBuf[i - Len(seg[c])]
      BY <1>2, <1>6, ConcatProperties, LenProperties
    <3>2. CASE k <= Len(seg[c])
      <4>1. k \in 1 .. Len(seg[c]) /\ files[c][k] = seg[c][k]
        BY <2>2, <2>5, <3>1, <3>2
      <4>2. p \in Places
        BY <2>2, <2>3, <2>5, <4>1, PlacesAre
      <4> QED
        BY <2>3, <2>5, <4>1, <4>2
    <3>3. CASE k > Len(seg[c])
      <4>1. k - Len(seg[c]) \in 1 .. Len(logBuf) /\ files[c][k] = logBuf[k - Len(seg[c])]
        BY <2>2, <2>5, <3>1, <3>3
      <4>2. files[c][k] \in Range(logBuf)
        BY <1>2, <4>1, RangeIs
      <4> QED
        BY <1>7, <2>3, <2>5, <4>2
    <3> QED
      BY <2>2, <2>5, <3>1, <3>2, <3>3
  <2> QED
    BY <2>4, <2>5
<1>10. \A n \in Segments : torn'[n] # Absent => torn[n] = torn'[n] /\ n \in Present(seg)'
  BY <1>6, <1>8 DEF Tears
<1> QED
  BY <1>2, <1>7, <1>9, <1>10, TearsStay

\* A segment is made, removed or emptied.
LEMMA TearsOfFewer ==
  ASSUME LogInv, Tears, NEW n \in Segments, NEW f, f \in {<<>>, Absent},
         (f = <<>> /\ seg[n] = Absent) \/ torn' = [torn EXCEPT ![n] = Absent],
         f = <<>> /\ seg[n] = Absent => UNCHANGED torn,
         seg' = [seg EXCEPT ![n] = f], UNCHANGED <<logBuf, todo, hidden>>
  PROVE  Tears'
<1>1. /\ Segments \subseteq Nat /\ seg \in FilesOf(Entries) /\ <<>> # Absent
      /\ torn \in [Segments -> Nat \cup {Absent}]
  <2>1. <<>> # Absent
    BY LogConstants
  <2> QED
    BY <2>1, FileFacts DEF LogInv, LogTypeOK
<1>2. Len(<<>>) = 0 /\ seg'[n] = f /\ \A m \in Segments \ {n} : seg'[m] = seg[m]
  BY <1>1, EmptySeq DEF FilesOf
<1>3. \A m \in Segments : torn'[m] # Absent => torn[m] = torn'[m] /\ m # n
  BY <1>1 DEF Tears, Present
<1>4. \A m \in Segments : torn'[m] # Absent => m \in Present(seg)'
  BY <1>1, <1>2, <1>3 DEF Tears, Present
<1>5. ASSUME NEW p \in Places' PROVE p \in Places /\ EntryAt(p)' = EntryAt(p)
  <2>1. PICK m \in Present(seg)' : \E k \in 1 .. Len(seg'[m]) : p = <<m, k>>
    BY PlacesThen
  <2>2. PICK k \in 1 .. Len(seg'[m]) : p = <<m, k>>
    BY <2>1
  <2>3. m \in Segments /\ seg'[m] # Absent
    BY DEF Present
  <2>4. m # n
    BY <1>2, <2>2, <2>3
  <2>5. seg'[m] = seg[m] /\ m \in Present(seg)
    BY <1>2, <2>3, <2>4 DEF Present
  <2>6. p \in Places
    BY <2>2, <2>5, PlacesAre
  <2> QED
    BY <2>2, <2>5, <2>6 DEF EntryAt
<1>6. Pending' = Pending
  BY DEF Pending
<1> QED
  BY <1>1, <1>3, <1>4, <1>5, <1>6, TearsStay

\* Nothing is behind a frame that is cut now.
LEMMA TearsOfCrash ==
  ASSUME LogInv, Tears, NEW cut \in BOOLEAN, Crash(cut)
  PROVE  Tears'
<1>1. PICK c : c = currentFileIndex
  OBVIOUS
<1>2. /\ torn' = IF cut /\ torn[c] = Absent THEN [torn EXCEPT ![c] = Len(seg[c])] ELSE torn
      /\ logBuf' = <<>> /\ todo' = <<>> /\ UNCHANGED <<seg, hidden>>
  BY <1>1 DEF Crash
<1>3. /\ Segments \subseteq Nat /\ c \in Present(seg) /\ c \in Segments /\ c \in Nat
      /\ \A n \in Present(seg) : n <= c /\ n \in Segments /\ n \in Nat
      /\ torn \in [Segments -> Nat \cup {Absent}]
      /\ \A n \in Present(seg) : Len(seg[n]) \in Nat
  BY <1>1, FileFacts, SegmentTypes, LenProperties DEF LogInv, Disk, LogTypeOK
<1>4. Present(seg)' = Present(seg) /\ Places' = Places /\ \A p : EntryAt(p)' = EntryAt(p)
  BY <1>2 DEF Present, Places, EntryAt
<1>5. \A n \in Segments : torn'[n] # Absent => torn'[n] = torn[n] \/ (n = c /\ torn'[n] = Len(seg[c]))
  BY <1>2, <1>3
<1>6. ASSUME NEW p \in Places, BehindTear(p)' PROVE BehindTear(p)
  <2>1. PICK m \in Present(seg) : torn'[m] # Absent /\ (m < p[1] \/ (m = p[1] /\ torn'[m] < p[2]))
    BY <1>4, <1>6 DEF BehindTear
  <2>1a. PICK n \in Present(seg) : \E k \in 1 .. Len(seg[n]) : p = <<n, k>>
    BY PlacesAre
  <2>2. PICK k \in 1 .. Len(seg[n]) : p = <<n, k>>
    BY <2>1a
  <2>3. ~(m = c /\ torn'[m] = Len(seg[c]))
    <3> SUFFICES ASSUME m = c, torn'[m] = Len(seg[c]) PROVE FALSE
      OBVIOUS
    <3>1. c < n \/ (c = n /\ Len(seg[c]) < k)
      BY <2>1, <2>2
    <3> QED
      BY <1>3, <2>2, <3>1
  <2>4. torn'[m] = torn[m]
    BY <1>3, <1>5, <2>1, <2>3
  <2> QED
    BY <2>1, <2>4 DEF BehindTear
<1>7. Range(Pending') = {}
  <2>1. Pending' = <<>>
    BY <1>2, EmptySeq, ConcatEmptySeq DEF Pending
  <2> QED
    BY <2>1, EmptyRange
<1>8. \A n \in Segments : torn'[n] # Absent => n \in Present(seg)
  BY <1>3, <1>5 DEF Tears
<1> QED
  BY <1>2, <1>4, <1>6, <1>7, <1>8 DEF Tears

LEMMA TearsStep == LogInv /\ LogInv' /\ Tears /\ [LogNext]_logVars => Tears'
<1> SUFFICES ASSUME LogInv, LogInv', Tears, [LogNext]_logVars PROVE Tears'
  OBVIOUS
<1>0. LogTypeOK /\ Disk /\ Segments \subseteq Nat /\ seg \in FilesOf(Entries) /\ <<>> # Absent
  BY FileFacts, LogConstants DEF LogInv
<1>1. ASSUME NEW n \in BatchSizes, AppendBatch(n) PROVE Tears'
  <2>1. /\ UNCHANGED <<seg, torn, logBuf>> /\ logBuf = <<>>
        /\ todo' = [k \in 1 .. n |-> sent + k] /\ batch' = sent + 1 .. sent + n
        /\ hidden \subseteq hidden' /\ (SomeTorn => batch' \subseteq hidden')
    BY <1>1 DEF AppendBatch, fileVars, bufVars, SomeTorn, LogInv, Writers
  <2>2. todo' \in Seq(Entries) /\ n \in Nat /\ sent \in Nat
    BY <1>0, <1>1, SizesAssumption DEF LogInv, LogTypeOK
  <2>3. Range(Pending') \subseteq batch'
    <3>1. Pending' = todo'
      BY <2>1, <2>2, ConcatEmptySeq DEF Pending
    <3>2. \A k \in 1 .. n : sent + k \in sent + 1 .. sent + n
      BY <2>2
    <3>3. DOMAIN todo' = 1 .. n /\ \A k \in 1 .. n : todo'[k] \in batch'
      BY <2>1, <3>2
    <3> QED
      BY <3>1, <3>3 DEF Range
  <2> QED
    BY <2>1, <2>3, TearsOfSame
<1>2. CASE BufferEntry
  <2>1. UNCHANGED <<seg, torn, hidden>>
    BY <1>2 DEF BufferEntry, fileVars, historyVars
  <2>2. Pending' = Pending
    <3>1. logBuf \in Seq(Entries) /\ todo \in Seq(Entries)
      BY FileFacts
    <3> QED
      BY <1>2, <3>1, Moved DEF BufferEntry, Pending
  <2> QED
    BY <2>1, <2>2, TearsOfSame
<1>3. CASE SpillLog
  BY <1>3, TearsFlushed DEF SpillLog, historyVars
<1>4. CASE RotateFlushLog
  BY <1>4, TearsFlushed DEF RotateFlushLog, historyVars
<1>5. CASE FlushLog
  BY <1>5, TearsFlushed DEF FlushLog
<1>6. CASE RotateOpenNext
  <2>1. PICK next : next = currentFileIndex + 1
    OBVIOUS
  <2>2. /\ seg' = [seg EXCEPT ![next] = NewFile(@)] /\ UNCHANGED <<torn, logBuf, todo, hidden>>
    BY <1>6, <2>1 DEF RotateOpenNext, historyVars
  <2>3. next \in Segments /\ next \notin Present(seg)
    BY <1>0, <1>6, <2>1, FileFacts DEF RotateOpenNext, LogInv, Writers, Disk, Segments, LogTypeOK
  <2>4. seg[next] = Absent /\ NewFile(seg[next]) = <<>>
    BY <2>3 DEF Present, NewFile
  <2>5. seg' = [seg EXCEPT ![next] = <<>>]
    BY <2>2, <2>4
  <2> QED
    BY <2>2, <2>3, <2>4, <2>5, TearsOfFewer
<1>7. CASE FlushIndex
  <2>1. UNCHANGED <<seg, torn, logBuf, todo, hidden>>
    BY <1>7 DEF FlushIndex, historyVars
  <2> QED
    BY <2>1, TearsOfSame DEF Pending
<1>8. ASSUME NEW keep \in Keeps, DeleteOlderThan(keep) PROVE Tears'
  <2>1. UNCHANGED <<seg, torn, logBuf, todo, hidden>>
    BY <1>8 DEF DeleteOlderThan, fileVars, bufVars
  <2> QED
    BY <2>1, TearsOfSame DEF Pending
<1>9. ASSUME NEW n \in Segments, RemoveSegment(n) PROVE Tears'
  <2>1. /\ seg' = [seg EXCEPT ![n] = Absent] /\ torn' = [torn EXCEPT ![n] = Absent]
        /\ UNCHANGED <<logBuf, todo, hidden>>
    BY <1>9 DEF RemoveSegment, bufVars, historyVars
  <2>2. PICK f : f = Absent
    OBVIOUS
  <2> QED
    BY <1>0, <2>1, <2>2, TearsOfFewer
<1>10. CASE EndDeletion
  <2>1. UNCHANGED <<seg, torn, logBuf, todo, hidden>>
    BY <1>10 DEF EndDeletion, fileVars, bufVars, historyVars
  <2> QED
    BY <2>1, TearsOfSame DEF Pending
<1>11. CASE TruncateLog
  <2>1. /\ seg' = [seg EXCEPT ![currentFileIndex] = <<>>]
        /\ torn' = [torn EXCEPT ![currentFileIndex] = Absent]
        /\ UNCHANGED <<logBuf, todo, hidden>>
    BY <1>11 DEF TruncateLog, bufVars, historyVars
  <2>2. currentFileIndex \in Segments /\ seg[currentFileIndex] # Absent
    BY <1>0 DEF Disk, Present
  <2> QED
    BY <2>1, <2>2, TearsOfFewer
<1>12. CASE TruncateIndex
  <2>1. UNCHANGED <<seg, torn, logBuf, todo, hidden>>
    BY <1>12 DEF TruncateIndex, bufVars
  <2> QED
    BY <2>1, TearsOfSame DEF Pending
<1>13. ASSUME NEW cut \in BOOLEAN, Crash(cut) PROVE Tears'
  BY <1>13, TearsOfCrash
<1>14. ASSUME NEW counted \in 0 .. MaxEntries + 1, Open(counted) PROVE Tears'
  <2>1. PICK last, active : /\ last = Max(Present(seg))
                            /\ active = IF counted >= Capacity THEN last + 1 ELSE last
    OBVIOUS
  <2>2. /\ seg' = [seg EXCEPT ![active] = NewFile(@)] /\ UNCHANGED <<torn, logBuf, todo, hidden>>
        /\ active <= MaxSegments
    BY <1>14, <2>1 DEF Open, bufVars
  <2>3. CASE seg[active] # Absent
    <3>1. seg' = [seg EXCEPT ![active] = seg[active]]
      BY <2>2, <2>3 DEF NewFile
    <3>2. seg' = seg
      BY <1>0, <3>1 DEF FilesOf
    <3> QED
      BY <2>2, <3>2, TearsOfSame DEF Pending
  <2>4. CASE seg[active] = Absent
    <3>1. seg' = [seg EXCEPT ![active] = <<>>]
      BY <2>2, <2>4 DEF NewFile
    <3>2. active \in Segments
      <4>1. last = currentFileIndex
        <5>1. /\ Present(seg) \subseteq Nat /\ currentFileIndex \in Present(seg)
              /\ \A n \in Present(seg) : n <= currentFileIndex
          BY <1>0, SegmentTypes, FileFacts DEF Disk
        <5> QED
          BY <2>1, <5>1, GreatestIs
      <4>2. last \in Nat
        BY <4>1, FileFacts
      <4> QED
        BY <2>1, <2>2, <4>2, LogConstants DEF Segments
    <3> QED
      BY <2>2, <2>4, <3>1, <3>2, TearsOfFewer
  <2> QED
    BY <2>3, <2>4
<1>15. CASE UNCHANGED logVars
  <2>1. UNCHANGED <<seg, torn, logBuf, todo, hidden>>
    BY <1>15 DEF logVars, fileVars, bufVars, historyVars
  <2> QED
    BY <2>1, TearsOfSame DEF Pending
<1> QED
  BY <1>1, <1>2, <1>3, <1>4, <1>5, <1>6, <1>7, <1>8, <1>9, <1>10, <1>11, <1>12, <1>13, <1>14,
     <1>15 DEF LogNext

LEMMA TearsInit == LogInit => Tears
<1> SUFFICES ASSUME LogInit PROVE Tears
  OBVIOUS
<1>1. \A n \in Segments : torn[n] = Absent
  BY DEF LogInit
<1>2. \A p : ~BehindTear(p)
  BY <1>1 DEF BehindTear, Present
<1> QED
  BY <1>1, <1>2 DEF Tears, SomeTorn

LEMMA TearsInvariance == LogSpec => []Tears
BY LogInvariance, TearsInit, TearsStep, PTL DEF LogSpec

LEMMA EntriesRight == LogInv /\ Tears => AckedEntriesKept
<1> SUFFICES ASSUME LogInv, Tears PROVE AckedEntriesKept
  OBVIOUS
<1>1. LogTypeOK /\ Ordered /\ Survive
  BY DEF LogInv
<1>2. acked \ removable \subseteq OnDisk
  BY <1>1, OnDiskIsHeld DEF Survive
<1>3. acked \ (removable \cup hidden) \subseteq ReadAll
  <2> SUFFICES ASSUME NEW e \in acked \ (removable \cup hidden) PROVE e \in ReadAll
    OBVIOUS
  <2>1. PICK p \in Places : e = EntryAt(p)
    BY <1>2 DEF OnDisk
  <2>2. ~BehindTear(p)
    BY <2>1 DEF Tears
  <2> QED
    BY <2>1, <2>2 DEF ReadAll
<1>4. \A p, q \in Places : ReadBefore(p, q) => EntryAt(p) < EntryAt(q)
  BY <1>1, OrderIsReadOrder DEF Ordered
<1> QED
  BY <1>2, <1>3, <1>4 DEF AckedEntriesKept

\* Whatever the capacity of a segment, the sizes of the batches, the arguments of the
\* deletions and the number of crashes, get(i), the bounds that are given out and the
\* segments on disk agree once an operation has returned (get, oldest_log, youngest_log).
THEOREM IndexReads == LogSpec => []IndexFindsEntries
BY LogInvariance, IndexRight, PTL

\* No crash, rotation or deletion loses an entry whose append returned Ok, unless a
\* deletion was asked to remove it: it stays in a segment.  A reader that goes from
\* segment to segment finds it there, and in the order appended, unless it was handed
\* in while a frame that a crash cut short was in the log, which open() leaves in place
\* and readers stumble over (append_batch, delete_older_than, open, read_all).
THEOREM LogEntriesStay == LogSpec => []AckedEntriesKept
BY LogInvariance, TearsInvariance, EntriesRight, PTL
=============================================================================
