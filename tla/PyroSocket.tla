----------------------------- MODULE PyroSocket -----------------------------
(***************************************************************************)
(* One multiplexed connection (transport/socket/socket.rs) between a       *)
(* client, whose tasks share it for requests and streams, and the daemon,  *)
(* whose handle_client (pyro-daemon/src/server.rs) spawns a task for every *)
(* request.  Each end has a queue `tx`, a write task, a read task and the  *)
(* channel of unmatched frames that recv() reads.  The calls of the client *)
(* are the model's Calls, each made once; its frames carry the mux_id the  *)
(* socket gave it.  The connection can be cut at any moment.               *)
(***************************************************************************)
EXTENDS Naturals, Sequences, FiniteSets, SequencesExt

CONSTANTS
    Calls,      \* calls the client's tasks make
    NoCall,     \* no entry in `pending` or `streams`
    Workloads,  \* what the calls may be: functions from Calls to Kinds
    MaxId,      \* bound: mux ids given out (AtomicU32 in the code)
    MaxRows,    \* bound: rows the playbook produces
    ChanCap     \* rows a stream's channel holds (100 in the code)

\* "unary": one answer.  "stream": StreamStarted and rows.  "foreign": a
\* request this daemon can not decode.  "huge": the answer is longer than
\* max_msg_size.
Kinds == {"unary", "stream", "foreign", "huge"}

ASSUME SocketAssumption ==
    /\ NoCall \notin Calls
    /\ Workloads \subseteq [Calls -> Kinds]
    /\ MaxId \in Nat \ {0} /\ MaxRows \in Nat /\ ChanCap \in Nat

VARIABLES
    nextId,     \* next_id of the client's socket
    call,       \* the client's calls: pc, kind, id and what they received
    pending,    \* id -> the request that waits for it
    streams,    \* id -> the stream that is registered for it
    held,       \* the client still holds a handle of its socket
    tx,         \* tx[e]: frames queued for the write task of end e
    writer,     \* writer[e]: the write task of end e
    wire,       \* wire[e]: frames e wrote that the other end has not read
    reader,     \* reader[e]: the read task of end e
    unmatched,  \* unmatched[e]: frames waiting for recv() at end e
    linked,     \* FALSE once the connection is cut
    running,    \* the playbook that is streamed runs
    handler,    \* the daemon's task for a call: pc, mux id, rows in its channel, what it sent
    rows        \* rows the playbook has produced

clientVars == <<nextId, call, pending, streams, held>>
pipeVars == <<tx, writer, wire, reader, unmatched, linked>>
daemonVars == <<running, handler, rows>>
vars == <<clientVars, pipeVars, daemonVars>>

Ends == {"client", "daemon"}
Peer(e) == IF e = "client" THEN "daemon" ELSE "client"

Ids == 0..MaxId
Bodies == {"ask", "answer", "error", "refused", "started", "row", "finished"}
Items == [of : Calls, body : Bodies, row : 0..MaxRows]
Item(c, b) == [of |-> c, body |-> b, row |-> 0]
Row(c, n) == [of |-> c, body |-> "row", row |-> n]
Frames == [mux : Ids, item : Items]

CallPcs == {"new", "registered", "waiting", "streaming", "done", "failed"}
HandlerPcs == {"none", "running", "registered", "forwarding", "done"}

Init ==
    /\ nextId = 1
    /\ \E w \in Workloads :
          call = [c \in Calls |-> [pc |-> "new", kind |-> w[c], id |-> 0, got |-> <<>>]]
    /\ pending = [i \in Ids |-> NoCall]
    /\ streams = [i \in Ids |-> NoCall]
    /\ held = TRUE
    /\ tx = [e \in Ends |-> <<>>]
    /\ writer = [e \in Ends |-> "up"]
    /\ wire = [e \in Ends |-> <<>>]
    /\ reader = [e \in Ends |-> "up"]
    /\ unmatched = [e \in Ends |-> <<>>]
    /\ linked = TRUE
    /\ handler = [c \in Calls |-> [pc |-> "none", mux |-> 0, chan |-> <<>>, sent |-> <<>>]]
    /\ rows = 0
    /\ running = TRUE

-----------------------------------------------------------------------------
(* The client's calls: request and request_stream *)

\* Mutant: the id is read and not counted up.
StartLoads(c) ==
    /\ held /\ call[c].pc = "new" /\ nextId < MaxId
    /\ call' = [call EXCEPT ![c] = [@ EXCEPT !.pc = "registered", !.id = nextId]]
    /\ IF call[c].kind = "stream"
          THEN streams' = [streams EXCEPT ![nextId] = c] /\ UNCHANGED pending
          ELSE pending' = [pending EXCEPT ![nextId] = c] /\ UNCHANGED streams
    /\ UNCHANGED <<nextId, held, pipeVars, daemonVars>>

\* The id is taken and the waiting end registered before the frame is queued,
\* or the answer could arrive first.
Start(c) ==
    /\ held
    /\ call[c].pc = "new"
    /\ nextId < MaxId
    /\ call' = [call EXCEPT ![c] = [@ EXCEPT !.pc = "registered", !.id = nextId]]
    /\ nextId' = nextId + 1
    /\ IF call[c].kind = "stream"
          THEN streams' = [streams EXCEPT ![nextId] = c] /\ UNCHANGED pending
          ELSE pending' = [pending EXCEPT ![nextId] = c] /\ UNCHANGED streams
    /\ UNCHANGED <<held, pipeVars, daemonVars>>

\* Nothing is registered any more for the id of call c.
Deregister(c) ==
    /\ pending' = [pending EXCEPT ![call[c].id] = NoCall]
    /\ streams' = [streams EXCEPT ![call[c].id] = NoCall]

\* The queue takes the frame unless the write task has ended.
Enqueue(c) ==
    /\ call[c].pc = "registered"
    /\ IF writer["client"] = "up"
          THEN /\ tx' = [tx EXCEPT !["client"] =
                            Append(@, [mux |-> call[c].id, item |-> Item(c, "ask")])]
               /\ call' = [call EXCEPT ![c].pc =
                              IF call[c].kind = "stream" THEN "streaming" ELSE "waiting"]
               /\ UNCHANGED <<pending, streams>>
          ELSE /\ call' = [call EXCEPT ![c].pc = "failed"]
               /\ Deregister(c)
               /\ UNCHANGED tx
    /\ UNCHANGED <<nextId, held, writer, wire, reader, unmatched, linked, daemonVars>>

\* The task that reads the stream ends: it was refused or finished, or nobody
\* wants its rows any more.  Dropping the PyroStream closes it.
DropStream(c) ==
    /\ call[c].pc = "streaming"
    /\ call' = [call EXCEPT ![c].pc = "done"]
    /\ Deregister(c)
    /\ UNCHANGED <<nextId, held, pipeVars, daemonVars>>

\* The last handle is dropped: the TaskGuard aborts the read task.
DropSocket ==
    /\ held
    /\ \A c \in Calls : call[c].pc \in {"new", "done", "failed"}
    /\ held' = FALSE
    /\ reader' = [reader EXCEPT !["client"] = IF @ = "up" THEN "aborted" ELSE @]
    /\ UNCHANGED <<nextId, call, pending, streams, tx, writer, wire, unmatched,
                   linked, daemonVars>>

-----------------------------------------------------------------------------
(* The two background tasks of each end *)

\* Nobody at the other end can read what e writes.
PeerGone(e) == ~linked \/ (reader[Peer(e)] # "up" /\ writer[Peer(e)] # "up")

\* write_to_stream refuses a frame above max_msg_size.
TooLong(f) == f.item.body = "answer" /\ call[f.item.of].kind = "huge"

\* Mutant: the newest frame first.
WriteNewest(e) ==
    /\ writer[e] = "up" /\ tx[e] # <<>>
    /\ ~TooLong(Last(tx[e]))
    /\ wire' = IF PeerGone(e) THEN wire ELSE [wire EXCEPT ![e] = Append(@, Last(tx[e]))]
    /\ tx' = [tx EXCEPT ![e] = Front(@)]
    /\ UNCHANGED <<writer, reader, unmatched, linked, clientVars, daemonVars>>

WriteFrame(e) ==
    /\ writer[e] = "up" /\ tx[e] # <<>>
    /\ ~TooLong(Head(tx[e]))
    /\ wire' = IF PeerGone(e) THEN wire
                              ELSE [wire EXCEPT ![e] = Append(@, Head(tx[e]))]
    /\ tx' = [tx EXCEPT ![e] = Tail(@)]
    /\ UNCHANGED <<writer, reader, unmatched, linked, clientVars, daemonVars>>

\* The write fails: the task ends, what is queued behind is lost, and the
\* writing half of the connection is closed.
WriteFails(e) ==
    /\ writer[e] = "up" /\ tx[e] # <<>>
    /\ TooLong(Head(tx[e])) \/ PeerGone(e)
    /\ writer' = [writer EXCEPT ![e] = "ended"]
    /\ tx' = [tx EXCEPT ![e] = <<>>]
    /\ UNCHANGED <<wire, reader, unmatched, linked, clientVars, daemonVars>>

\* The client's senders are gone, the read task's among them, and the queue is
\* drained.
WriterDrained ==
    /\ ~held /\ reader["client"] # "up"
    /\ writer["client"] = "up" /\ tx["client"] = <<>>
    /\ writer' = [writer EXCEPT !["client"] = "ended"]
    /\ UNCHANGED <<tx, wire, reader, unmatched, linked, clientVars, daemonVars>>

\* To the request that waits for the id, else to the stream, else to recv().
ReadClient ==
    /\ reader["client"] = "up" /\ wire["daemon"] # <<>>
    /\ LET f == Head(wire["daemon"])
           waiting == IF f.mux = 0 THEN NoCall ELSE pending[f.mux]
           stream == IF f.mux = 0 THEN NoCall ELSE streams[f.mux]
       IN  \/ /\ waiting # NoCall
              /\ pending' = [pending EXCEPT ![f.mux] = NoCall]
              /\ call' = [call EXCEPT ![waiting].got = Append(@, f.item),
                                      ![waiting].pc = "done"]
              /\ UNCHANGED unmatched
           \/ /\ waiting = NoCall /\ stream # NoCall
              /\ call' = [call EXCEPT ![stream].got = Append(@, f.item)]
              /\ UNCHANGED <<pending, unmatched>>
           \/ /\ waiting = NoCall /\ stream = NoCall
              /\ unmatched' = [unmatched EXCEPT !["client"] = Append(@, f)]
              /\ UNCHANGED <<pending, call>>
    /\ wire' = [wire EXCEPT !["daemon"] = Tail(@)]
    /\ UNCHANGED <<nextId, streams, held, tx, writer, reader, linked, daemonVars>>

\* The daemon makes no requests: all it reads goes to recv().
ReadDaemon ==
    /\ reader["daemon"] = "up" /\ wire["client"] # <<>>
    /\ unmatched' = [unmatched EXCEPT !["daemon"] = Append(@, Head(wire["client"]))]
    /\ wire' = [wire EXCEPT !["client"] = Tail(@)]
    /\ UNCHANGED <<tx, writer, reader, linked, clientVars, daemonVars>>

\* End of file or an error: only read_closed is set.
ReadEnds(e) ==
    /\ reader[e] = "up" /\ wire[Peer(e)] = <<>>
    /\ ~linked \/ writer[Peer(e)] # "up"
    /\ reader' = [reader EXCEPT ![e] = "ended"]
    /\ UNCHANGED <<tx, writer, wire, unmatched, linked, clientVars, daemonVars>>

\* The connection breaks: of what is on the wire a prefix may still arrive.
Cut ==
    /\ linked
    /\ linked' = FALSE
    /\ \E n, m \in 0..(Cardinality(Calls) * (MaxRows + 1)) :
          /\ n <= Len(wire["client"]) /\ m <= Len(wire["daemon"])
          /\ wire' = [e \in Ends |-> SubSeq(wire[e], 1, IF e = "client" THEN n ELSE m)]
    /\ UNCHANGED <<tx, writer, reader, unmatched, clientVars, daemonVars>>

-----------------------------------------------------------------------------
(* The daemon: handle_client and the tasks it spawns *)

Accept ==
    /\ unmatched["daemon"] # <<>>
    /\ LET f == Head(unmatched["daemon"])
       IN  handler' = [handler EXCEPT ![f.item.of].pc = "running", ![f.item.of].mux = f.mux]
    /\ unmatched' = [unmatched EXCEPT !["daemon"] = Tail(@)]
    /\ UNCHANGED <<running, rows, tx, writer, wire, reader, linked, clientVars>>

\* The daemon's socket takes a frame of call c, or its write task has ended.
Sends(c, mux, body, pcSent, pcFailed) ==
    IF writer["daemon"] = "up"
       THEN /\ tx' = [tx EXCEPT !["daemon"] = Append(@, [mux |-> mux, item |-> Item(c, body)])]
            /\ handler' = [handler EXCEPT ![c].pc = pcSent, ![c].sent = Append(@, Item(c, body))]
       ELSE /\ handler' = [handler EXCEPT ![c].pc = pcFailed, ![c].chan = <<>>]
            /\ UNCHANGED tx

\* Mutant: the id of the request is not set on the answer.
AnswerWithoutId(c) ==
    /\ handler[c].pc = "running" /\ call[c].kind # "stream"
    /\ Sends(c, 0, "answer", "done", "done")
    /\ UNCHANGED <<running, rows, writer, wire, reader, unmatched, linked, clientVars>>

\* The answer carries the id of the request; the error for a request that can
\* not be decoded carries none.
Answer(c) ==
    /\ handler[c].pc = "running" /\ call[c].kind # "stream"
    /\ IF call[c].kind = "foreign"
          THEN Sends(c, 0, "error", "done", "done")
          ELSE Sends(c, handler[c].mux, "answer", "done", "done")
    /\ UNCHANGED <<running, rows, writer, wire, reader, unmatched, linked, clientVars>>

\* stream_playbook_data: the playbook does not run.
RefuseStream(c) ==
    /\ handler[c].pc = "running" /\ call[c].kind = "stream" /\ ~running
    /\ Sends(c, handler[c].mux, "refused", "done", "done")
    /\ UNCHANGED <<running, rows, writer, wire, reader, unmatched, linked, clientVars>>

\* It runs: the callback gets every row produced from now on ...
RegisterCallback(c) ==
    /\ handler[c].pc = "running" /\ call[c].kind = "stream" /\ running
    /\ handler' = [handler EXCEPT ![c].pc = "registered"]
    /\ UNCHANGED <<running, rows, pipeVars, clientVars>>

\* ... and the client is told so before the first of them.
StreamStarted(c) ==
    /\ handler[c].pc = "registered"
    /\ Sends(c, handler[c].mux, "started", "forwarding", "done")
    /\ UNCHANGED <<running, rows, writer, wire, reader, unmatched, linked, clientVars>>

\* A send that fails ends the loop and deletes the callback.
ForwardRow(c) ==
    /\ handler[c].pc = "forwarding" /\ handler[c].chan # <<>>
    /\ LET row == Head(handler[c].chan)
       IN  IF writer["daemon"] = "up"
              THEN /\ tx' = [tx EXCEPT !["daemon"] =
                                Append(@, [mux |-> handler[c].mux, item |-> Row(c, row)])]
                   /\ handler' = [handler EXCEPT ![c].chan = Tail(@),
                                                 ![c].sent = Append(@, Row(c, row))]
              ELSE /\ handler' = [handler EXCEPT ![c].pc = "done", ![c].chan = <<>>]
                   /\ UNCHANGED tx
    /\ UNCHANGED <<running, rows, writer, wire, reader, unmatched, linked, clientVars>>

\* The callback is gone with the playbook: the loop ends after the last row.
FinishStream(c) ==
    /\ handler[c].pc = "forwarding" /\ handler[c].chan = <<>> /\ ~running
    /\ Sends(c, handler[c].mux, "finished", "done", "done")
    /\ UNCHANGED <<running, rows, writer, wire, reader, unmatched, linked, clientVars>>

\* The worker is shut down and its callbacks with it.
StopPlaybook ==
    /\ running
    /\ running' = FALSE
    /\ UNCHANGED <<handler, rows, clientVars, pipeVars>>

Listening(c) == handler[c].pc \in {"registered", "forwarding"}

\* Mutant: the callback does not wait for room.
ProduceRowUnbounded ==
    /\ running /\ rows < MaxRows
    /\ rows' = rows + 1
    /\ handler' = [c \in Calls |-> IF Listening(c)
                                      THEN [handler[c] EXCEPT !.chan = Append(@, rows + 1)]
                                      ELSE handler[c]]
    /\ UNCHANGED <<running, clientVars, pipeVars>>

\* The pipeline gives a row to every callback, and waits for room.
ProduceRow ==
    /\ running /\ rows < MaxRows
    /\ \A c \in Calls : Listening(c) => Len(handler[c].chan) < ChanCap
    /\ rows' = rows + 1
    /\ handler' = [c \in Calls |-> IF Listening(c)
                                      THEN [handler[c] EXCEPT !.chan = Append(@, rows + 1)]
                                      ELSE handler[c]]
    /\ UNCHANGED <<running, clientVars, pipeVars>>

-----------------------------------------------------------------------------
Next ==
    \/ \E c \in Calls : Start(c)
    \/ \E c \in Calls : Enqueue(c)
    \/ \E c \in Calls : DropStream(c)
    \/ DropSocket
    \/ \E e \in Ends : WriteFrame(e)
    \/ \E e \in Ends : WriteFails(e)
    \/ WriterDrained
    \/ ReadClient
    \/ ReadDaemon
    \/ \E e \in Ends : ReadEnds(e)
    \/ Cut
    \/ Accept
    \/ \E c \in Calls : Answer(c)
    \/ \E c \in Calls : RefuseStream(c)
    \/ \E c \in Calls : RegisterCallback(c)
    \/ \E c \in Calls : StreamStarted(c)
    \/ \E c \in Calls : ForwardRow(c)
    \/ \E c \in Calls : FinishStream(c)
    \/ StopPlaybook
    \/ ProduceRow

\* tokio runs every task that can run; callers, the playbook's input and the
\* network owe nothing.
Fairness ==
    /\ \A c \in Calls : WF_vars(Enqueue(c)) /\ WF_vars(Answer(c)) /\ WF_vars(StreamStarted(c))
    /\ \A c \in Calls : WF_vars(RefuseStream(c) \/ RegisterCallback(c)) /\ WF_vars(ForwardRow(c) \/ FinishStream(c))
    /\ \A e \in Ends : WF_vars(WriteFrame(e)) /\ WF_vars(WriteFails(e)) /\ WF_vars(ReadEnds(e))
    /\ WF_vars(WriterDrained) /\ WF_vars(ReadClient) /\ WF_vars(ReadDaemon) /\ WF_vars(Accept)

Spec == Init /\ [][Next]_vars
FairSpec == Spec /\ Fairness

-----------------------------------------------------------------------------
(* Properties *)

\* Every variable has its type, and no stream's channel holds more rows than it
\* has room for, however slowly the client reads.
TypeOK ==
    /\ nextId \in 1..MaxId
    /\ call \in [Calls -> [pc : CallPcs, kind : Kinds, id : Ids, got : Seq(Items)]]
    /\ pending \in [Ids -> Calls \cup {NoCall}]
    /\ streams \in [Ids -> Calls \cup {NoCall}]
    /\ held \in BOOLEAN /\ running \in BOOLEAN /\ linked \in BOOLEAN
    /\ tx \in [Ends -> Seq(Frames)]
    /\ writer \in [Ends -> {"up", "ended"}]
    /\ wire \in [Ends -> Seq(Frames)]
    /\ reader \in [Ends -> {"up", "ended", "aborted"}]
    /\ unmatched \in [Ends -> Seq(Frames)]
    /\ handler \in [Calls -> [pc : HandlerPcs, mux : Ids, chan : Seq(1..MaxRows),
                              sent : Seq(Items)]]
    /\ \A c \in Calls : Len(handler[c].chan) <= ChanCap
    /\ rows \in 0..MaxRows

\* A caller only ever receives frames of its own call, however many calls
\* share the connection and whatever became of the others.
OwnFrames == \A c \in Calls : \A i \in 1..Len(call[c].got) : call[c].got[i].of = c

\* The calls as their callers see them.
Stage(c) ==
    CASE call[c].pc = "new" -> "unasked"
      [] call[c].pc \in {"registered", "waiting", "streaming"} -> "open"
      [] OTHER -> "closed"

Promise == INSTANCE RemoteCalls WITH
    stage <- [c \in Calls |-> Stage(c)],
    issued <- [c \in Calls |-> handler[c].sent],
    got <- [c \in Calls |-> call[c].got]

\* The connection implements a reliable ordered channel for every call.
ImplementsRemoteCalls == Promise!Spec

\* A write task has ended, or the link is down.
Broken == ~linked \/ \E e \in Ends : writer[e] # "up"

\* A request the daemon can decode, or a stream, that has heard nothing yet.
Unheard(c) ==
    \/ call[c].pc = "waiting" /\ call[c].kind = "unary"
    \/ call[c].pc = "streaming" /\ call[c].got = <<>>

\* While the connection stands, every request the daemon can decode is
\* answered and every stream hears whether it was accepted.
AnswerArrives == \A c \in Calls : Unheard(c) ~> ~Unheard(c) \/ Broken

=============================================================================
