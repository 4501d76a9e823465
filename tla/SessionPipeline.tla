-------------------------- MODULE SessionPipeline --------------------------
(***************************************************************************)
(* Conversations over a module with sessions                               *)
(* (pyroduct/src/pipeline/session.rs and session_diff.rs, entered through  *)
(* PipelineServer::call and call_session).  The requests of the clients    *)
(* run concurrently; a step of this module is what one of them does        *)
(* between two points where it waits for a lock, a file or the database.   *)
(*                                                                         *)
(* A session's rows are in its WAL file, in the WalWriter of the active    *)
(* session, and in the memory of the module instance (the shard).  At      *)
(* most max_active_sessions are active; the least recently used one is     *)
(* closed and opened again from its WAL.  When the module ends a session   *)
(* its rows become one row of the output manager and its files go.         *)
(*                                                                         *)
(* The two kinds differ in what the WAL gets when: a session's input is    *)
(* written before the step and its output after it, as rows of their own;  *)
(* a session_diff writes one row with both after the step, for which it    *)
(* does not look again whether the session is still open.                  *)
(*                                                                         *)
(* The pipeline is built by PipelineServer or by the factory, which differ  *)
(* in the schema of the output manager (rollups).  Input and output        *)
(* failures of files and of the database are left out.  A process may end  *)
(* in the middle of an append to a session's WAL, and what is left is      *)
(* never cut off; that it ends in an append to a log or to the output's    *)
(* WAL is the matter of LogWal and RowBuffer.                              *)
(***************************************************************************)
EXTENDS Integers, Sequences, FiniteSets, SequencesExt

CONSTANTS
  Clients,      \* each holds one conversation, one request at a time
  Limits,       \* the values max_active_sessions may be configured to
  MaxTurns,     \* bound: requests of all clients
  MaxSessions,  \* bound: session ids
  MaxDisturbed, \* bound: sessions shared, or evicted while in use, before nothing more is followed
  MaxCrashes,   \* bound: ends of the process
  None

ASSUME ActiveAssumption == Limits \subseteq Nat \ {0}
ASSUME BoundsAssumption == MaxTurns \in Nat /\ MaxSessions \in Nat \ {0} /\ MaxCrashes \in Nat
                           /\ MaxDisturbed \in Nat

Sessions == 0 .. MaxSessions - 1
Kinds == {"session", "session_diff"}
Results == {"continue", "end", "terminate", "error"}
Rows == [by : Clients, turn : Nat, out : BOOLEAN]

\* Rows of the output manager: the rows of a session
RolledRows == [session : Sessions, rows : Seq(Rows)]

\* Where a request waits for its next step
Places == {"open", "evict", "files", "prep", "insert", "prepped", "input", "step", "status",
           "output", "log", "collect", "rollup", "merge", "cleanup", "callbacks"}

\* A request that is running: where it is, where it goes on after get_or_open_session,
\* its session, what the module answered, and the rows recovered.
Jobs == [pc : Places, back : {"prepped", "input", "output", "log"}, sid : Sessions,
         res : Results \cup {None}, rows : Seq(Rows)]

ASSUME NoneAssumption ==
  None \notin Nat \cup Seq(Rows) \cup Jobs \cup {"active", "succeeded", "failed"}

VARIABLES
  kind,        \* ModuleKind of the playbook
  rollups,     \* what the output manager makes of a session's row
  status,      \* the table session_status
  wal, slog,   \* per session: the rows of its WAL, the entries of its log, or None
  torn,        \* per session: the rows before the first frame of its WAL cut short, or None
  log,         \* the pipeline's log: the session of each entry
  archive,     \* rows of the output manager an earlier process wrote
  rolled,      \* rows pushed to the output manager by this process
  persisted,   \* how many of them are on disk
  maxActive,   \* max_active_sessions
  active,      \* active_sessions: the rows each WalWriter holds, or None
  lru,         \* lru_order
  history,     \* the rows in the memory of the module instance
  job,         \* the request each client has running, or None
  own,         \* the session each client was told, or None
  turns,       \* requests each client has made
  fired,       \* sessions the callbacks ran for
  said,        \* history: rows of the steps the module ran
  acked,       \* history: rows of the calls that were answered
  shared,      \* history: given to a second client
  evicted,     \* history: evicted while in use
  cut, lost,   \* history: in use at a crash; queued in the output manager then, or
               \* stored as a row of nulls
  crashes

\* What no request changes: the configuration, and what crashes left in the WALs
config == <<kind, rollups, maxActive, torn>>
diskVars == <<status, wal, slog, log, archive>>
memVars == <<rolled, persisted, active, lru, history>>
clientVars == <<own, turns>>
ghostVars == <<said, acked, shared, evicted, cut, lost, crashes>>
vars == <<config, diskVars, memVars, job, clientVars, fired, ghostVars>>

-----------------------------------------------------------------------------
Closed == {s \in Sessions : status[s] \in {"succeeded", "failed"}}
ActiveIds == {s \in Sessions : active[s] # None}
Busy == {c \in Clients : job[c] # None}
InUse == {job[c].sid : c \in Busy}

NewFile(f) == IF f = None THEN <<>> ELSE f

Without(seq, s) == IF s \in Range(seq) THEN RemoveFirst(seq, s) ELSE seq

Input(c) == [by |-> c, turn |-> turns[c], out |-> FALSE]
Output(c) == [by |-> c, turn |-> turns[c], out |-> TRUE]
OutputRows(c, r) == IF r \in {"continue", "end"} THEN <<Output(c)>> ELSE <<>>

\* The factory gives the output manager a schema for the row of a session,
FactoryRollups == {"kept"}

\* PipelineServer, for a session_diff, that of the function's output.  A row with
\* neither of its fields is refused, or, when every output is optional, stored
\* as a row of nulls.  That of a session is refused when the messages are
\* structs of one field.
ServerRollups == IF kind = "session" THEN {"kept", "refused"} ELSE {"blank", "refused"}

\* What call() of a session_diff has appended when it asks the module: nothing
DiffBeforeStep == <<>>

\* What the WAL has of the request when the module runs its step
BeforeStep(c) == IF kind = "session" THEN <<Input(c)>> ELSE DiffBeforeStep

\* No session has been disturbed too often to follow what comes next.
Bounded == Cardinality(shared \cup evicted) <= MaxDisturbed

At(c, pc) == job[c] # None /\ job[c].pc = pc

\* c is where its next step starts at `pc`.
Reached(c, pc) == Bounded /\ At(c, pc)
Goto(c, pc) == job' = [job EXCEPT ![c].pc = pc]

\* get_or_open_session, and go on at `back`
OpenThen(c, back) == job' = [job EXCEPT ![c].pc = "open", ![c].back = back]

Init ==
  /\ status = [s \in Sessions |-> None] /\ torn = [s \in Sessions |-> None]
  /\ wal = [s \in Sessions |-> None] /\ slog = [s \in Sessions |-> None]
  /\ log = <<>> /\ archive = <<>> /\ rolled = <<>> /\ persisted = 0
  /\ kind \in Kinds /\ maxActive \in Limits /\ rollups \in FactoryRollups \cup ServerRollups
  /\ active = [s \in Sessions |-> None] /\ lru = <<>>
  /\ history = [s \in Sessions |-> <<>>]
  /\ job = [c \in Clients |-> None] /\ own = [c \in Clients |-> None]
  /\ turns = [c \in Clients |-> 0]
  /\ fired = <<>>
  /\ said = [s \in Sessions |-> <<>>] /\ acked = [s \in Sessions |-> {}]
  /\ shared = {} /\ evicted = {} /\ cut = {} /\ lost = {} /\ crashes = 0

-----------------------------------------------------------------------------
(* Requests *)

\* Ids in the database, and those files and directories are named for
TableIds == {s \in Sessions : status[s] # None}
FileIds == {s \in Sessions : wal[s] # None \/ slog[s] # None}

\* next_session_id(): above every id seen in memory, in the database and on disk.
NextSessionId ==
  Max({Len(rolled)} \cup {s + 1 : s \in ActiveIds \cup TableIds \cup FileIds})

\* Requests made so far
SumTurns == FoldFunction(+, 0, turns)

MayRequest(c) == Bounded /\ job[c] = None /\ SumTurns < MaxTurns

Start(c, s, pc, back) ==
  /\ job' = [job EXCEPT ![c] = [pc |-> pc, back |-> back, sid |-> s, res |-> None, rows |-> <<>>]]
  /\ turns' = [turns EXCEPT ![c] = @ + 1]

\* PipelineServer::call, of a client without a conversation
NewConversation(c) ==
  LET s == NextSessionId
  IN /\ MayRequest(c) /\ own[c] = None
     /\ s \in Sessions
     /\ Start(c, s, "open", "prepped")
     /\ shared' = IF s \in InUse THEN shared \cup {s} ELSE shared
     /\ UNCHANGED <<config, diskVars, memVars, own, fired, said, acked, evicted, cut,
                    lost, crashes>>

\* PipelineServer::call_session: a session that is not active is prepared first.
Continue(c) ==
  LET s == own[c]
  IN /\ MayRequest(c) /\ s # None
     /\ IF active[s] # None /\ kind = "session_diff" THEN Start(c, s, "step", "prepped")
        ELSE Start(c, s, "open", IF active[s] = None THEN "prepped" ELSE "input")
     /\ UNCHANGED <<config, diskVars, memVars, own, fired, ghostVars>>

\* The request ends with an error, or its task with a panic.
Fail(c) == job' = [job EXCEPT ![c] = None]

\* active_sessions.get_mut(..).unwrap(), when the session is not there any more; or
\* recover(), when the WAL ends in the padding of a frame cut short
Panic(c) ==
  /\ job[c] # None
  /\ \/ job[c].pc \in {"prepped", "input", "output", "log"} /\ active[job[c].sid] = None
     \/ job[c].pc = "files" /\ torn[job[c].sid] # None
  /\ Fail(c)
  /\ UNCHANGED <<config, diskVars, memVars, clientVars, fired, ghostVars>>

\* The client is given its answer.
Answer(c) ==
  LET s == job[c].sid
      ok == job[c].res # "error"
  IN /\ own' = [own EXCEPT ![c] = IF ok THEN s ELSE @]
     /\ acked' = IF ok THEN [acked EXCEPT ![s] = @ \cup {Input(c)} \cup Range(OutputRows(c, job[c].res))]
                 ELSE acked
     /\ Fail(c)

-----------------------------------------------------------------------------
(* get_or_open_session *)

\* set_session_status
StatusSet(s, v) == [status EXCEPT ![s] = v]

\* lru_order when an active session is used
Touched(s) == Append(Without(lru, s), s)

FindActive(c) ==
  /\ Reached(c, "open") /\ active[job[c].sid] # None
  /\ lru' = Touched(job[c].sid)
  /\ Goto(c, job[c].back)
  /\ UNCHANGED <<config, diskVars, rolled, persisted, active, history, clientVars,
                 fired, ghostVars>>

\* "Cannot resume closed session": prep_session and the start of call record a failure.
RefuseClosed(c) ==
  LET s == job[c].sid
  IN /\ Reached(c, "open") /\ active[s] = None /\ s \in Closed
     /\ status' = IF job[c].back \in {"prepped", "input"}
                  THEN StatusSet(s, "failed") ELSE status
     /\ Fail(c)
     /\ UNCHANGED <<config, wal, slog, log, archive, memVars, clientVars, fired, ghostVars>>

MayOpen(s) == s \notin Closed

BeginOpen(c) ==
  /\ Reached(c, "open") /\ active[job[c].sid] = None /\ MayOpen(job[c].sid)
  /\ Goto(c, "evict")
  /\ UNCHANGED <<config, diskVars, memVars, clientVars, fired, ghostVars>>

Fits(ids) == Cardinality(ids) < maxActive

\* How many of lru_order evict_if_needed() pops
Popped ==
  LET enough == {k \in 0 .. Len(lru) : Fits(ActiveIds \ Range(SubSeq(lru, 1, k)))}
  IN IF enough = {} THEN Len(lru) ELSE Min(enough)

\* Mutant: the module keeps the rows of an evicted session.
KeepsHistory(victims) == history

\* close_session of the shard: the module frees its rows.
Freed(victims) == [s \in Sessions |-> IF s \in victims THEN <<>> ELSE history[s]]

EvictIfNeeded(c) ==
  LET victims == ActiveIds \cap Range(SubSeq(lru, 1, Popped))
  IN /\ Reached(c, "evict")
     /\ active' = [s \in Sessions |-> IF s \in victims THEN None ELSE active[s]]
     /\ lru' = SubSeq(lru, Popped + 1, Len(lru))
     /\ history' = Freed(victims)
     /\ evicted' = evicted \cup (victims \cap InUse)
     /\ Goto(c, "files")
     /\ UNCHANGED <<config, diskVars, rolled, persisted, clientVars, fired, said,
                    acked, shared, cut,
                    lost, crashes>>

\* recover(), or nothing if it fails: the rows the session had said.  Behind a frame
\* cut short it finds no row, or a packet that is none, and fails.
RecoveredRows(s) ==
  LET file == NewFile(wal[s])
  IN IF torn[s] = None THEN {file}
     ELSE {SubSeq(file, 1, k) : k \in {0, torn[s]} \cap (0 .. Len(file))}

\* LogWal::open, WalWriter::open and recover
OpenFiles(c) ==
  LET s == job[c].sid
  IN /\ Reached(c, "files")
     /\ wal' = [wal EXCEPT ![s] = NewFile(@)]
     /\ slog' = [slog EXCEPT ![s] = IF @ = None THEN 0 ELSE @]
     /\ \E rows \in RecoveredRows(s) :
          job' = [job EXCEPT ![c].pc = "prep", ![c].rows = rows]
     /\ UNCHANGED <<config, status, log, archive, memVars, clientVars, fired, ghostVars>>

\* prep_session of the shard: the rows recovered go to the module.
PrepHistory(c) ==
  /\ Reached(c, "prep")
  /\ history' = [history EXCEPT ![job[c].sid] = @ \o job[c].rows]
  /\ Goto(c, "insert")
  /\ UNCHANGED <<config, diskVars, rolled, persisted, active, lru, clientVars, fired,
                 ghostVars>>

\* active_sessions with the session
Activated(s, rows) == [active EXCEPT ![s] = rows]

InsertActive(c) ==
  /\ Reached(c, "insert")
  /\ active' = Activated(job[c].sid, job[c].rows)
  /\ lru' = Append(lru, job[c].sid)
  /\ Goto(c, job[c].back)
  /\ UNCHANGED <<config, diskVars, rolled, persisted, history, clientVars, fired, ghostVars>>

-----------------------------------------------------------------------------
(* prep_session without prior rows, and call *)

\* call() of a session opens it once more, ...
PreparedSession(c) == kind = "session" /\ OpenThen(c, "input")

\* ... that of a session_diff goes straight to the step.
PreparedDiff(c) == kind = "session_diff" /\ Goto(c, "step")

Prepared(c) ==
  /\ Reached(c, "prepped") /\ active[job[c].sid] # None
  /\ PreparedSession(c) \/ PreparedDiff(c)
  /\ UNCHANGED <<config, diskVars, memVars, clientVars, fired, ghostVars>>

\* data_wal.append
AppendRows(s, rows) ==
  /\ wal' = [wal EXCEPT ![s] = IF @ = None THEN None ELSE @ \o rows]
  /\ active' = [active EXCEPT ![s] = @ \o rows]
  /\ UNCHANGED <<status, slog, log, archive, rolled, persisted, lru, history>>

AppendInput(c) ==
  /\ Reached(c, "input") /\ active[job[c].sid] # None
  /\ AppendRows(job[c].sid, <<Input(c)>>)
  /\ Goto(c, "step")
  /\ UNCHANGED <<config, clientVars, fired, ghostVars>>

\* call_session of the shard: the module runs one step.
CallModule(c, r) ==
  LET s == job[c].sid
      rows == <<Input(c)>> \o OutputRows(c, r)
  IN /\ Reached(c, "step")
     /\ history' = [history EXCEPT ![s] = @ \o rows]
     /\ said' = [said EXCEPT ![s] = @ \o rows]
     /\ job' = [job EXCEPT ![c].pc = "status", ![c].res = r]
     /\ UNCHANGED <<config, diskVars, rolled, persisted, active, lru, clientVars, fired,
                    acked, shared, evicted, cut, lost, crashes>>

\* Mutant: only End closes the session.
OpenAfterTerminate(r) == CASE r = "end" -> "succeeded" [] r = "error" -> "failed" [] OTHER -> "active"

StatusAfter(r) == CASE r = "continue" -> "active" [] r = "error" -> "failed" [] OTHER -> "succeeded"

PersistStatus(c) ==
  /\ Reached(c, "status")
  /\ status' = StatusSet(job[c].sid, StatusAfter(job[c].res))
  /\ OpenThen(c, "output")
  /\ UNCHANGED <<config, wal, slog, log, archive, memVars, clientVars, fired, ghostVars>>

\* The row of a session_diff has the input and the output of its step.
StepRow(c, r) == <<Input(c)>> \o OutputRows(c, r)

\* Mutant: the last output of a session is not written.
ContinueRows(c, r) ==
  IF r = "end" THEN <<>> ELSE IF kind = "session" THEN OutputRows(c, r) ELSE StepRow(c, r)

\* The rows call() appends after the step
PersistedRows(c, r) == IF kind = "session" THEN OutputRows(c, r) ELSE StepRow(c, r)

AppendOutput(c) ==
  /\ Reached(c, "output") /\ active[job[c].sid] # None
  /\ AppendRows(job[c].sid, PersistedRows(c, job[c].res))
  /\ OpenThen(c, "log")
  /\ UNCHANGED <<config, clientVars, fired, ghostVars>>

\* One entry, of the logs of the step or of its failure
LogAppended(s) == [slog EXCEPT ![s] = IF @ = None THEN None ELSE @ + 1]

AppendLog(c) ==
  /\ Reached(c, "log") /\ active[job[c].sid] # None
  /\ slog' = LogAppended(job[c].sid)
  /\ Goto(c, "collect")
  /\ UNCHANGED <<config, status, wal, log, archive, memVars, clientVars, fired, ghostVars>>

\* A failure has no success.
Record(prior, input, success, failed) ==
  [prior |-> prior, input |-> input, success |-> IF failed THEN None ELSE success, failed |-> failed]

\* into_result: the row a caller of the server gets of a record, or an error
ResultOf(record) == [ok |-> ~record.failed, row |-> record.success]

\* into_record of a session: whether the last row is an output is told by their number.
SessionRecord(rows, failed) ==
  LET n == Len(rows)
      odd == n % 2 = 1
  IN IF odd THEN Record(Front(rows), rows[n], None, failed)
     ELSE IF failed \/ n = 0 THEN Record(rows, None, None, failed)
     ELSE Record(SubSeq(rows, 1, n - 2), rows[n - 1], rows[n], FALSE)

\* The steps of the rows of a session_diff: an input, and the output beside it
StepsOf(rows) ==
  LET after(k) == IF k < Len(rows) /\ rows[k + 1].out THEN rows[k + 1] ELSE None
  IN FoldLeftDomain(LAMBDA acc, k : IF rows[k].out THEN acc ELSE Append(acc, <<rows[k], after(k)>>),
                    <<>>, rows)

\* unpack_session_diff: a rolled-up row lists the inputs and the outputs, which
\* are paired by their place.
UnpackedSteps(rows) ==
  LET inputs == SelectSeq(rows, LAMBDA row : ~row.out)
      outputs == SelectSeq(rows, LAMBDA row : row.out)
  IN [k \in 1 .. Len(inputs) |-> <<inputs[k], IF k <= Len(outputs) THEN outputs[k] ELSE None>>]

\* into_record of a session_diff
DiffRecord(steps, failed) ==
  IF steps = <<>> THEN Record(<<>>, None, None, failed)
  ELSE Record(FlattenSeq(Front(steps)), Last(steps)[1], Last(steps)[2], failed)

\* The record of the rows of an active session
RecordOf(rows, failed) ==
  IF kind = "session" THEN SessionRecord(rows, failed) ELSE DiffRecord(StepsOf(rows), failed)

\* The record of a call
Reply(c) == RecordOf(NewFile(active[job[c].sid]), job[c].res = "error")

\* Steps after which the session is rolled up
RollsUp(r) == r # "continue"

\* A session that goes on is answered, ...
ReturnContinue(c) ==
  /\ Reached(c, "collect") /\ ~RollsUp(job[c].res)
  /\ Answer(c)
  /\ UNCHANGED <<config, diskVars, memVars, turns, fired, said, shared, evicted, cut,
                 lost, crashes>>

\* ... one that ended, or failed, is rolled up first.
BeginRollup(c) ==
  /\ Reached(c, "collect") /\ RollsUp(job[c].res)
  /\ Goto(c, "rollup")
  /\ UNCHANGED <<config, diskVars, memVars, clientVars, fired, ghostVars>>

-----------------------------------------------------------------------------
(* rollup_and_cleanup_session *)

\* The rows of the active session, or what its file gives
GatheredRows(s) == IF active[s] # None THEN {active[s]} ELSE RecoveredRows(s)

\* push_record: the row is in memory, and queued for the output WAL.
PushRolledUpRow(c) ==
  LET s == job[c].sid
      kept == IF rollups = "kept" THEN GatheredRows(s) ELSE {<<>>}
  IN /\ Reached(c, "rollup") /\ rollups # "refused"
     /\ \E rows \in kept : rolled' = Append(rolled, [session |-> s, rows |-> rows])
     /\ lost' = IF rollups = "kept" THEN lost ELSE lost \cup {s}
     /\ Goto(c, "merge")
     /\ UNCHANGED <<config, diskVars, persisted, active, lru, history, clientVars, fired,
                    said, acked, shared, evicted, cut, crashes>>

\* The row is refused: the error is logged and the call answered; the session
\* keeps its files and stays active.
RefuseRolledUpRow(c) ==
  /\ Reached(c, "rollup") /\ rollups = "refused"
  /\ Answer(c)
  /\ UNCHANGED <<config, diskVars, memVars, turns, fired, said, shared, evicted, cut, lost,
                 crashes>>

\* The pipeline's log with the entries of the session's
MergedLog(s) == IF slog[s] = None THEN log ELSE log \o [k \in 1 .. slog[s] |-> s]

MergeLog(c) ==
  LET s == job[c].sid
  IN /\ Reached(c, "merge")
     /\ log' = MergedLog(s)
     /\ Goto(c, "cleanup")
     /\ UNCHANGED <<config, status, wal, slog, archive, memVars, clientVars, fired,
                    ghostVars>>

\* active_sessions without the session
Deactivated(s) == [active EXCEPT ![s] = None]

\* The session logs without that of s
LogRemoved(s) == [slog EXCEPT ![s] = None]

\* The session leaves memory, and its files the disk.
Cleanup(c) ==
  LET s == job[c].sid
  IN /\ Reached(c, "cleanup")
     /\ active' = Deactivated(s)
     /\ lru' = Without(lru, s)
     /\ wal' = [wal EXCEPT ![s] = None]
     /\ slog' = LogRemoved(s)
     /\ Goto(c, "callbacks")
     /\ UNCHANGED <<config, status, log, archive, rolled, persisted, history,
                    clientVars, fired, ghostVars>>

ExecuteCallbacks(c) ==
  /\ Reached(c, "callbacks")
  /\ fired' = Append(fired, job[c].sid)
  /\ Answer(c)
  /\ UNCHANGED <<config, diskVars, memVars, turns, said, shared, evicted, cut, lost,
                 crashes>>

-----------------------------------------------------------------------------
(* The writer of the output manager, and the end of the process *)

PersistRow ==
  /\ persisted < Len(rolled)
  /\ persisted' = persisted + 1
  /\ UNCHANGED <<config, diskVars, rolled, active, lru, history, job, clientVars,
                 fired, ghostVars>>

\* The process ends and another one takes its place; requests are not answered.
Restart ==
  /\ crashes < MaxCrashes
  /\ crashes' = crashes + 1
  /\ archive' = archive \o SubSeq(rolled, 1, persisted)
  /\ rolled' = <<>> /\ persisted' = 0
  /\ active' = [s \in Sessions |-> None] /\ lru' = <<>>
  /\ history' = [s \in Sessions |-> <<>>]
  /\ job' = [c \in Clients |-> None]
  /\ cut' = cut \cup InUse
  /\ lost' = lost \cup {rolled[k].session : k \in persisted + 1 .. Len(rolled)}
  /\ UNCHANGED <<kind, rollups, maxActive, status, slog, log, clientVars, fired, said, acked,
                 shared, evicted>>

Crash == Restart /\ UNCHANGED <<wal, torn>>

\* The rows c is about to append, under the lock of active_sessions
Appending(c) ==
  IF active[job[c].sid] = None THEN <<>>
  ELSE IF At(c, "input") THEN <<Input(c)>>
  ELSE IF At(c, "output") THEN PersistedRows(c, job[c].res)
  ELSE <<>>

\* The end comes in the middle of an append: of its frame there is a part, with the whole
\* packet or without, that the next process appends behind.
CrashInAppend(c) ==
  LET s == job[c].sid
  IN /\ job[c] # None /\ Appending(c) # <<>> /\ wal[s] # None
     /\ \E rows \in {<<>>, Appending(c)} : wal' = [wal EXCEPT ![s] = @ \o rows]
     /\ torn' = [torn EXCEPT ![s] = IF @ = None THEN Len(wal'[s]) ELSE @]
     /\ Restart

OpenSteps(c) ==
  \/ FindActive(c) \/ RefuseClosed(c) \/ BeginOpen(c) \/ EvictIfNeeded(c)
  \/ OpenFiles(c) \/ PrepHistory(c) \/ InsertActive(c)

CallSteps(c) ==
  \/ Prepared(c) \/ AppendInput(c) \/ \E r \in Results : CallModule(c, r)
  \/ PersistStatus(c) \/ AppendOutput(c) \/ AppendLog(c) \/ ReturnContinue(c) \/ BeginRollup(c)

RollupSteps(c) ==
  \/ PushRolledUpRow(c) \/ RefuseRolledUpRow(c) \/ MergeLog(c) \/ Cleanup(c) \/ ExecuteCallbacks(c)

Next ==
  \/ \E c \in Clients :
       NewConversation(c) \/ Continue(c) \/ Panic(c)
         \/ OpenSteps(c) \/ CallSteps(c) \/ RollupSteps(c) \/ CrashInAppend(c)
  \/ PersistRow \/ Crash

Spec == Init /\ [][Next]_vars

-----------------------------------------------------------------------------
(* Properties *)

RolledUp(s) == SelectSeq(archive \o rolled, LAMBDA row : row.session = s)

\* list_sessions: those the table has under a filter, the filter's status
FilterStatus == [active |-> "active", closed |-> "succeeded", failed |-> "failed"]
ListSessions(filter) == {s \in Sessions : status[s] = FilterStatus[filter]}

\* The rows of this process that are of session s
RolledUpHere(s) == SelectSeq(rolled, LAMBDA row : row.session = s)

\* get_record: a closed session is looked up among the rows of this process, ...
SessionGetRecord(s) ==
  IF status[s] = None \/ RolledUpHere(s) = <<>> THEN None
  ELSE SessionRecord(RolledUpHere(s)[1].rows, status[s] = "failed")

\* ... and that of a session_diff in the same way.
DiffGetRecord(s) ==
  IF status[s] = None \/ RolledUpHere(s) = <<>> THEN None
  ELSE DiffRecord(UnpackedSteps(RolledUpHere(s)[1].rows), status[s] = "failed")

GetRecord(s) == IF kind = "session" THEN SessionGetRecord(s) ELSE DiffGetRecord(s)

\* get_session of a session in memory, ...
GetSession(s) == RecordOf(active[s], status[s] = "failed")

\* ... or what get() recovers of one that is not
GetOpen(s) ==
  IF active[s] # None THEN GetSession(s)
  ELSE RecordOf(CHOOSE rows \in RecoveredRows(s) : TRUE, FALSE)

\* get: the record a client reads of session s
Get(s) == IF active[s] # None \/ status[s] = "active" THEN GetOpen(s) ELSE GetRecord(s)

\* The rows of a record, in their order
RowsOf(record) ==
  IF record = None THEN <<>>
  ELSE SelectSeq(record.prior \o <<record.input, record.success>>, LAMBDA row : row # None)

\* What a record can show of session s.  A call after its end is refused, but makes a
\* failure of it; and the record of a failed session_diff has no place for the output
\* of its last step.
Shown(s) ==
  IF kind = "session_diff" /\ status[s] = "failed" /\ Last(said[s]).out
  THEN Front(said[s]) ELSE said[s]

\* Two clients never used it at once, it was never evicted under a request, and no crash
\* cut an append to its WAL short.
Undisturbed(s) == s \notin shared \cup evicted /\ torn[s] = None

\* Closed, its row refused, and evicted since: nothing gives its rows.
Forgotten(s) == rollups = "refused" /\ s \in Closed /\ active[s] = None

\* Closed without an output, its row refused, and called again.
Revived(s) ==
  rollups = "refused" /\ \E k \in 1 .. Len(StepsOf(said[s])) - 1 : StepsOf(said[s])[k][2] = None

MaybeSessions == Sessions \cup {None}

DiskTypes ==
  /\ status \in [Sessions -> {None, "active", "succeeded", "failed"}]
  /\ wal \in [Sessions -> Seq(Rows) \cup {None}] /\ slog \in [Sessions -> Nat \cup {None}]
  /\ \A s \in Sessions : wal[s] = None <=> slog[s] = None
  /\ torn \in [Sessions -> Nat \cup {None}]
  /\ log \in Seq(Sessions) /\ archive \in Seq(RolledRows)

MemTypes ==
  /\ rolled \in Seq(RolledRows) /\ persisted \in 0 .. Len(rolled)
  /\ active \in [Sessions -> Seq(Rows) \cup {None}] /\ lru \in Seq(Sessions)
  /\ history \in [Sessions -> Seq(Rows)]

ClientTypes ==
  /\ job \in [Clients -> Jobs \cup {None}]
  /\ own \in [Clients -> MaybeSessions] /\ turns \in [Clients -> Nat]
  /\ fired \in Seq(Sessions)

HistoryTypes ==
  /\ said \in [Sessions -> Seq(Rows)] /\ acked \in [Sessions -> SUBSET Rows]
  /\ shared \subseteq Sessions /\ evicted \subseteq Sessions
  /\ cut \subseteq Sessions /\ lost \subseteq Sessions /\ crashes \in 0 .. MaxCrashes

\* Every variable has its type; a session's log and its WAL come and go together.
TypeOK ==
  /\ kind \in Kinds /\ maxActive \in Limits /\ rollups \in {"kept", "refused", "blank"}
  /\ DiskTypes /\ MemTypes /\ ClientTypes /\ HistoryTypes

\* The module runs a step on exactly the rows of the session's WAL: what it
\* remembers survives evictions between requests, and restarts at any time but in
\* the middle of an append to the session's WAL.
StepSeesHistory ==
  \A c \in Busy : LET s == job[c].sid IN
    At(c, "step") /\ Undisturbed(s) => history[s] \o BeforeStep(c) = wal[s]

\* The record of a call has the input of the call as its input and the output of
\* its step as its success.  A process that ended between the two left a session
\* with a row too many, which makes into_record take outputs for inputs; so does a
\* step without output in a session that goes on after its end.
ReplyIsOutput ==
  \A c \in Busy : LET s == job[c].sid
                       output == OutputRows(c, job[c].res) IN
    At(c, "collect") /\ Undisturbed(s) /\ s \notin cut /\ ~Revived(s) =>
      /\ Reply(c).input = Input(c)
      /\ ResultOf(Reply(c)) =
           [ok |-> job[c].res # "error", row |-> IF output = <<>> THEN None ELSE output[1]]

\* Between requests get() returns every row the session said, in order, whether
\* it is active, evicted, or closed by this process with a row that is kept; and
\* a failure if its last call failed.
GetReturnsTranscript ==
  \A s \in Sessions :
    /\ s \notin InUse /\ Undisturbed(s) /\ s \notin cut \cup lost
    /\ said[s] # <<>> /\ \A k \in 1 .. Len(archive) : archive[k].session # s
    /\ ~Forgotten(s)
    => RowsOf(Get(s)) = Shown(s) /\ (ResultOf(Get(s)).ok <=> status[s] # "failed")

\* A session listed as closed is one row of the output, if that has the schema
\* for it; its log is in the pipeline's log
\* and its callbacks have run, once each; nothing of it is left in memory or on disk.
ClosedIsArchived ==
  \A s \in (ListSessions("closed") \cup ListSessions("failed")) \ (InUse \cup cut \cup lost) :
    Undisturbed(s) /\ rollups = "kept" =>
    /\ Len(RolledUp(s)) = 1 /\ RolledUp(s)[1].rows = said[s]
    /\ Cardinality({k \in 1 .. Len(log) : log[k] = s})
         = Cardinality({k \in 1 .. Len(said[s]) : ~said[s][k].out})
    /\ Cardinality({k \in 1 .. Len(fired) : fired[k] = s}) = 1
    /\ wal[s] = None /\ slog[s] = None /\ active[s] = None

\* Of a session whose WAL has a frame cut short the answered turns stay in the file as
\* long as there is one, although recover() may not give those behind the cut, or any;
\* what it does not give is lost when the session is rolled up.
TornTurnsOnDisk ==
  \A s \in Sessions \ (shared \cup evicted) :
    torn[s] # None /\ wal[s] # None => acked[s] \subseteq Range(wal[s])

\* What a session said is answered, read again, and archived, whole and in order; and
\* what a crash in mid-append makes unreadable is still in the file.
TranscriptsAreWhole ==
  TypeOK /\ ReplyIsOutput /\ GetReturnsTranscript /\ ClosedIsArchived /\ TornTurnsOnDisk

\* The rows of session s in the output manager
ArchivedRows(s) == UNION {Range(row.rows) : row \in {r \in Range(archive \o rolled) : r.session = s}}

\* A turn that was answered stays on disk, where recover() finds it, or in the output,
\* through any crash but one that finds the rolled-up row still queued (lost) or one
\* in the middle of an append to the session's WAL (torn), and unless the output's
\* schema has no field for it.
AckedTurnsKept ==
  \A s \in Sessions \ lost : Undisturbed(s) =>
    \A rows \in RecoveredRows(s) : acked[s] \subseteq Range(rows) \cup ArchivedRows(s)

=============================================================================
