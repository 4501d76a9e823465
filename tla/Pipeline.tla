------------------------------ MODULE Pipeline ------------------------------
(***************************************************************************)
(* The pipeline of a playbook that keeps no sessions                       *)
(* (pyroduct/src/pipeline/normal.rs) under its PipelineServer, with what   *)
(* the daemon does around it: tasks that stream its rows to a client       *)
(* through a callback (pyro-daemon/src/data/stream.rs), reads of its data  *)
(* (historic.rs) that keep the manager's lock of `workers` while they      *)
(* read, and its stop.  Locks are tokio's: one holder, in order of asking. *)
(* The two data managers and the log appear as the rows they were given.   *)
(***************************************************************************)
EXTENDS Naturals, Sequences, FiniteSets, SequencesExt

CONSTANTS
    Calls,      \* calls of the pipeline, each made once
    Streams,    \* clients that stream its rows
    Reads,      \* reads of its data
    Nobody,     \* a lock that is free, a row that is not found
    ShardCount, \* instances of the module
    ChanCap     \* rows a stream's channel holds (100 in the code)

ASSUME PipelineAssumption ==
    /\ IsFiniteSet(Calls) /\ Nobody \notin Calls \cup Streams \cup Reads
    /\ Streams \cap Reads = {}
    /\ ShardCount \in Nat \ {0} /\ ChanCap \in Nat \ {0}

VARIABLES
    call,       \* the calls: pc, entry, index, whether the module succeeded, todo
    shard,      \* shard[n]: the call that has instance n
    inputs,     \* input_manager: rows with their index, in order of pushing
    outputs,    \* output_manager, the same
    log,        \* log_manager: entries in order of appending
    callbacks,  \* the registered callbacks, in order
    callbacksLock,  \* who holds the lock of callbacks
    stream,     \* the streams: pc, channel, what the client got, where it began
    workersLock,    \* who holds the manager's lock of workers
    worker,     \* the playbook's: "up", "stopped", and "dropped" with its pipeline
    read,       \* the reads: "new", "reading", "done"
    published   \* history: calls in the order their rows went to the callbacks

callVars == <<call, shard, inputs, outputs, log>>
streamVars == <<callbacks, callbacksLock, stream, published>>
daemonVars == <<workersLock, worker, read>>
vars == <<callVars, streamVars, daemonVars>>

Shards == 0..(ShardCount - 1)
Indices == 0..(Cardinality(Calls) - 1)
CallPcs == {"new", "indexed", "pushed", "running", "ran", "calling", "called",
            "stored", "done", "failed"}
StreamPcs == {"new", "locked", "registered", "streaming", "broken", "cleaning", "gone"}

Init ==
    /\ \E entry \in [Calls -> {"call", "call_session"}] :
          call = [c \in Calls |-> [pc |-> "new", entry |-> entry[c], index |-> 0,
                                   ok |-> FALSE, todo |-> <<>>]]
    /\ shard = [n \in Shards |-> Nobody]
    /\ inputs = <<>> /\ outputs = <<>> /\ log = <<>>
    /\ callbacks = <<>> /\ callbacksLock = Nobody
    /\ stream = [s \in Streams |-> [pc |-> "new", chan |-> <<>>, got |-> <<>>,
                                    from |-> 0, linked |-> TRUE]]
    /\ workersLock = Nobody /\ worker = "up"
    /\ read = [r \in Reads |-> "new"]
    /\ published = <<>>

-----------------------------------------------------------------------------
(* PipelineServer::call and call_session, Pipeline::process *)

\* The next free index is read, not taken; a call that comes with a client's
\* id (0: PlaybookClient::call sends none) has that id for its index.  A
\* replay calls through a clone of the server when the worker is gone.
TakeIndex(c) ==
    /\ call[c].pc = "new" /\ worker # "dropped"
    /\ call' = [call EXCEPT ![c].pc = "indexed",
                            ![c].index = IF call[c].entry = "call" THEN Len(inputs) ELSE 0]
    /\ UNCHANGED <<shard, inputs, outputs, log, streamVars, daemonVars>>

PushInput(c) ==
    /\ call[c].pc = "indexed"
    /\ inputs' = Append(inputs, [index |-> call[c].index, of |-> c])
    /\ call' = [call EXCEPT ![c].pc = "pushed"]
    /\ UNCHANGED <<shard, outputs, log, streamVars, daemonVars>>

ShardOf(c) == call[c].index % ShardCount

LockShard(c) ==
    /\ call[c].pc = "pushed" /\ shard[ShardOf(c)] = Nobody
    /\ shard' = [shard EXCEPT ![ShardOf(c)] = c]
    /\ call' = [call EXCEPT ![c].pc = "running"]
    /\ UNCHANGED <<inputs, outputs, log, streamVars, daemonVars>>

\* The module returns a row or an error; an error skips callbacks and output.
ModuleReturns(c) ==
    /\ call[c].pc = "running"
    /\ \E ok \in BOOLEAN :
          call' = [call EXCEPT ![c].ok = ok, ![c].pc = IF ok THEN "ran" ELSE "stored"]
    /\ shard' = [shard EXCEPT ![ShardOf(c)] = Nobody]
    /\ UNCHANGED <<inputs, outputs, log, streamVars, daemonVars>>

LockCallbacks(c) ==
    /\ call[c].pc = "ran" /\ callbacksLock = Nobody
    /\ callbacksLock' = c
    /\ call' = [call EXCEPT ![c].pc = "calling", ![c].todo = callbacks]
    /\ published' = Append(published, c)
    /\ UNCHANGED <<shard, inputs, outputs, log, callbacks, stream, daemonVars>>

\* Mutant: a full channel is skipped.
CallbackSkipsFull(c) ==
    /\ call[c].pc = "calling" /\ call[c].todo # <<>>
    /\ LET s == Head(call[c].todo) IN
          stream' = IF stream[s].pc = "gone" \/ Len(stream[s].chan) = ChanCap THEN stream
                    ELSE [stream EXCEPT ![s].chan = Append(@, c)]
    /\ call' = [call EXCEPT ![c].todo = Tail(@)]
    /\ UNCHANGED <<shard, inputs, outputs, log, callbacks, callbacksLock, published, daemonVars>>

\* A callback waits for room in its channel; it does nothing once the
\* receiver is dropped.
Callback(c) ==
    /\ call[c].pc = "calling" /\ call[c].todo # <<>>
    /\ LET s == Head(call[c].todo) IN
          \/ stream[s].pc = "gone" /\ UNCHANGED stream
          \/ /\ stream[s].pc # "gone" /\ Len(stream[s].chan) < ChanCap
             /\ stream' = [stream EXCEPT ![s].chan = Append(@, c)]
    /\ call' = [call EXCEPT ![c].todo = Tail(@)]
    /\ UNCHANGED <<shard, inputs, outputs, log, callbacks, callbacksLock, published, daemonVars>>

\* Mutant: the lock is kept until the call is logged.
CallbacksKept(c) ==
    /\ call[c].pc = "calling" /\ call[c].todo = <<>>
    /\ call' = [call EXCEPT ![c].pc = "called"]
    /\ UNCHANGED <<shard, inputs, outputs, log, callbacks, callbacksLock, stream, published, daemonVars>>

CallbacksDone(c) ==
    /\ call[c].pc = "calling" /\ call[c].todo = <<>>
    /\ callbacksLock' = Nobody
    /\ call' = [call EXCEPT ![c].pc = "called"]
    /\ UNCHANGED <<shard, inputs, outputs, log, callbacks, stream, published, daemonVars>>

\* Mutant: the index is counted anew.
PushOutputAtEnd(c) ==
    /\ call[c].pc = "called"
    /\ outputs' = Append(outputs, [index |-> Len(outputs), of |-> c])
    /\ call' = [call EXCEPT ![c].pc = "stored"]
    /\ UNCHANGED <<shard, inputs, log, streamVars, daemonVars>>

\* When the row can not be stored the call fails, with its input stored, its
\* callbacks made and no log entry.
PushOutput(c) ==
    /\ call[c].pc = "called"
    /\ \/ /\ outputs' = Append(outputs, [index |-> call[c].index, of |-> c])
          /\ call' = [call EXCEPT ![c].pc = "stored"]
       \/ /\ call' = [call EXCEPT ![c].pc = "failed"]
          /\ UNCHANGED outputs
    /\ UNCHANGED <<shard, inputs, log, streamVars, daemonVars>>

AppendLog(c) ==
    /\ call[c].pc = "stored"
    /\ log' = Append(log, [of |-> c, ok |-> call[c].ok])
    /\ call' = [call EXCEPT ![c].pc = "done"]
    /\ UNCHANGED <<shard, inputs, outputs, streamVars, daemonVars>>

\* DataManager::get_record: the last row pushed with that index.
RowOf(rows, i) ==
    IF \E k \in 1..Len(rows) : rows[k].index = i
       THEN rows[CHOOSE k \in 1..Len(rows) :
                    /\ rows[k].index = i
                    /\ \A j \in (k + 1)..Len(rows) : rows[j].index # i].of
       ELSE Nobody

\* Pipeline::get_record: the input and the output with the index, and the log
\* entry at that place, which says whether there is an output.
Record(i) ==
    LET entry == i < Len(log) IN
    [input |-> RowOf(inputs, i),
     log |-> IF entry THEN log[i + 1].of ELSE Nobody,
     output |-> IF entry /\ ~log[i + 1].ok THEN Nobody ELSE RowOf(outputs, i)]

-----------------------------------------------------------------------------
(* stream_playbook_data *)

\* The worker is looked up under the lock; without one the request is refused.
LockWorkers(s) ==
    /\ stream[s].pc = "new" /\ workersLock = Nobody
    /\ IF worker = "up" THEN workersLock' = s /\ stream' = [stream EXCEPT ![s].pc = "locked"]
             ELSE stream' = [stream EXCEPT ![s].pc = "gone"] /\ UNCHANGED workersLock
    /\ UNCHANGED <<callVars, callbacks, callbacksLock, published, worker, read>>

AddCallback(s) ==
    /\ stream[s].pc = "locked" /\ callbacksLock = Nobody
    /\ callbacks' = Append(callbacks, s)
    /\ stream' = [stream EXCEPT ![s].pc = "registered", ![s].from = Len(published)]
    /\ workersLock' = Nobody
    /\ UNCHANGED <<callVars, callbacksLock, published, worker, read>>

SendStarted(s) ==
    /\ stream[s].pc = "registered"
    /\ stream' = [stream EXCEPT ![s].pc = IF stream[s].linked THEN "streaming" ELSE "broken"]
    /\ UNCHANGED <<callVars, callbacks, callbacksLock, published, daemonVars>>

\* A row for a client that is gone ends the loop.
ForwardRow(s) ==
    /\ stream[s].pc = "streaming" /\ stream[s].chan # <<>>
    /\ stream' = IF stream[s].linked
                    THEN [stream EXCEPT ![s].got = Append(@, Head(stream[s].chan)),
                                        ![s].chan = Tail(@)]
                    ELSE [stream EXCEPT ![s].pc = "broken", ![s].chan = Tail(@)]
    /\ UNCHANGED <<callVars, callbacks, callbacksLock, published, daemonVars>>

\* The pipeline is dropped and the sender with it.
LastRow(s) ==
    /\ stream[s].pc = "streaming" /\ stream[s].chan = <<>> /\ ~Contains(callbacks, s)
    /\ stream' = [stream EXCEPT ![s].pc = "broken"]
    /\ UNCHANGED <<callVars, callbacks, callbacksLock, published, daemonVars>>

\* The clean-up: the channel's receiver lives on until it is over.
LockForCleanup(s) ==
    /\ stream[s].pc = "broken" /\ workersLock = Nobody
    /\ IF worker = "up" THEN workersLock' = s /\ stream' = [stream EXCEPT ![s].pc = "cleaning"]
             ELSE stream' = [stream EXCEPT ![s].pc = "gone"] /\ UNCHANGED workersLock
    /\ UNCHANGED <<callVars, callbacks, callbacksLock, published, worker, read>>

DeleteCallback(s) ==
    /\ stream[s].pc = "cleaning" /\ callbacksLock = Nobody
    /\ callbacks' = RemoveFirst(callbacks, s) \* retain: an id is registered once
    /\ stream' = [stream EXCEPT ![s].pc = "gone", ![s].chan = <<>>]
    /\ workersLock' = Nobody
    /\ UNCHANGED <<callVars, callbacksLock, published, worker, read>>

Disconnect(s) ==
    /\ stream[s].linked
    /\ stream' = [stream EXCEPT ![s].linked = FALSE]
    /\ UNCHANGED <<callVars, callbacks, callbacksLock, published, daemonVars>>

-----------------------------------------------------------------------------
(* The data service's reads, and the stop of the playbook *)

\* get_playbook_data, get_playbook_failures, get_playbook_execution_record and
\* export_playbook_data read the pipeline under the lock of workers.
StartRead(r) ==
    /\ read[r] = "new" /\ workersLock = Nobody
    /\ workersLock' = r
    /\ read' = [read EXCEPT ![r] = "reading"]
    /\ UNCHANGED <<callVars, streamVars, worker>>

EndRead(r) ==
    /\ read[r] = "reading"
    /\ workersLock' = Nobody
    /\ read' = [read EXCEPT ![r] = "done"]
    /\ UNCHANGED <<callVars, streamVars, worker>>

Stop ==
    /\ worker = "up" /\ workersLock = Nobody
    /\ worker' = "stopped"
    /\ UNCHANGED <<callVars, streamVars, workersLock, read>>

\* The last clone of the server goes with the last call.
DropPipeline ==
    /\ worker = "stopped"
    /\ \A c \in Calls : call[c].pc \in {"new", "done", "failed"}
    /\ worker' = "dropped"
    /\ callbacks' = <<>>
    /\ UNCHANGED <<callVars, callbacksLock, stream, published, workersLock, read>>

Next ==
    \/ \E c \in Calls : TakeIndex(c)
    \/ \E c \in Calls : PushInput(c)
    \/ \E c \in Calls : LockShard(c)
    \/ \E c \in Calls : ModuleReturns(c)
    \/ \E c \in Calls : LockCallbacks(c)
    \/ \E c \in Calls : Callback(c)
    \/ \E c \in Calls : CallbacksDone(c)
    \/ \E c \in Calls : PushOutput(c)
    \/ \E c \in Calls : AppendLog(c)
    \/ \E s \in Streams : LockWorkers(s)
    \/ \E s \in Streams : AddCallback(s)
    \/ \E s \in Streams : SendStarted(s)
    \/ \E s \in Streams : ForwardRow(s)
    \/ \E s \in Streams : LastRow(s)
    \/ \E s \in Streams : LockForCleanup(s)
    \/ \E s \in Streams : DeleteCallback(s)
    \/ \E s \in Streams : Disconnect(s)
    \/ \E r \in Reads : StartRead(r)
    \/ \E r \in Reads : EndRead(r)
    \/ Stop
    \/ DropPipeline

\* Tasks run and modules return; a lock goes to those who wait in turn, so
\* taking one is strongly fair.  A task is at one step at a time: one condition
\* for all its steps says the same as one for each.  Clients owe nothing.
Fairness ==
    /\ \A c \in Calls :
        /\ WF_vars(PushInput(c) \/ ModuleReturns(c) \/ Callback(c) \/ CallbacksDone(c)
                     \/ PushOutput(c) \/ AppendLog(c))
        /\ SF_vars(LockShard(c) \/ LockCallbacks(c))
    /\ \A s \in Streams :
        /\ WF_vars(SendStarted(s) \/ ForwardRow(s) \/ LastRow(s))
        /\ SF_vars(AddCallback(s) \/ LockForCleanup(s) \/ DeleteCallback(s))
    /\ \A r \in Reads : WF_vars(EndRead(r))

Spec == Init /\ [][Next]_vars
FairSpec == Spec /\ Fairness

-----------------------------------------------------------------------------
(* Properties *)

\* Every variable has its type.
TypeOK ==
    /\ call \in [Calls -> [pc : CallPcs, entry : {"call", "call_session"}, index : Indices,
                           ok : BOOLEAN, todo : Seq(Streams)]]
    /\ shard \in [Shards -> Calls \cup {Nobody}]
    /\ inputs \in Seq([index : Indices, of : Calls])
    /\ outputs \in Seq([index : Indices, of : Calls])
    /\ log \in Seq([of : Calls, ok : BOOLEAN])
    /\ callbacks \in Seq(Streams)
    /\ callbacksLock \in Calls \cup {Nobody}
    /\ stream \in [Streams -> [pc : StreamPcs, chan : Seq(Calls), got : Seq(Calls),
                               from : Nat, linked : BOOLEAN]]
    /\ workersLock \in Streams \cup Reads \cup {Nobody}
    /\ worker \in {"up", "stopped", "dropped"}
    /\ read \in [Reads -> {"new", "reading", "done"}]
    /\ published \in Seq(Calls)

Underway(c) == call[c].pc \notin {"new", "done", "failed"}

\* The calls so far came one after the other, none with an id of its own and
\* none whose row could not be stored.
OneByOne ==
    /\ \A c \in Calls : call[c].entry = "call" /\ call[c].pc # "failed"
    /\ Cardinality({c \in Calls : Underway(c)}) <= 1
    /\ \A k \in 1..Len(inputs) : inputs[k].index = k - 1
    /\ \A k \in 1..Len(log) : log[k].of = inputs[k].of

\* The record of a call: its own input, its own log entry and its own output
\* if it has one.
Own(c) == [input |-> c, log |-> c, output |-> IF call[c].ok THEN c ELSE Nobody]

\* While calls come one after the other, whatever the module makes of them,
\* get_record finds for every index the input, the log entry and the output of
\* one and the same call, though failed calls have no output row.
SerialRecordsMatch ==
    TypeOK /\ (OneByOne => \A c \in Calls : call[c].pc = "done" => Record(call[c].index) = Own(c))

\* A stream gets every row that went to the callbacks since it was accepted,
\* once and in that order; none of a call whose module failed.
StreamSeesEveryRow ==
    \A s \in Streams : stream[s].pc \in {"registered", "streaming"} =>
        LET seen == stream[s].got \o stream[s].chan
            since == SubSeq(published, stream[s].from + 1, Len(published))
        IN  /\ IsPrefix(seen, since)
            /\ Len(since) - Len(seen) <= 1
            /\ Contains(callbacks, s) /\ callbacksLock = Nobody => seen = since

\* A client is gone while its stream is not cleaned up.
ClientLost == \E s \in Streams : ~stream[s].linked

\* As long as no client of a stream is lost every call that was begun returns,
\* whatever streams, reads and stops go on.
CallReturns == \A c \in Calls : Underway(c) ~> ~Underway(c) \/ ClientLost

=============================================================================
