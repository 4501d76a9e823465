------------------------------- MODULE Replay -------------------------------
(***************************************************************************)
(* Replaying a folder of rows through a running playbook                   *)
(* (pyro-daemon/src/data/replay.rs).  A request starts a background task   *)
(* that calls the pipeline row by row, or with up to Concurrency calls at  *)
(* once, and `replays` keeps one handle per playbook: the status a client  *)
(* polls and the cancel signal.  A task that is done clears the handle     *)
(* half a minute later, whoever it belongs to by then.  One playbook, and  *)
(* the requests for it.                                                    *)
(***************************************************************************)
EXTENDS Naturals, FiniteSets

CONSTANTS
    Requests,      \* requests to start a replay
    NoRequest,     \* no handle is kept
    TotalRows,     \* rows in the folder
    Concurrency    \* calls a parallel replay may have in flight

ASSUME ReplayAssumption ==
    /\ NoRequest \notin Requests
    /\ TotalRows \in Nat \ {0} /\ Concurrency \in Nat \ {0}

VARIABLES
    handle,     \* the request whose handle `replays` holds
    replay,     \* the state of each request and of its task
    called,     \* called[r]: the rows whose call was made, by call
    up          \* the playbook has a worker

vars == <<handle, replay, called, up>>

Rows == 1..TotalRows

\* Where a request is: "refused" before a task exists, then the loop between
\* rows, with a row it may dispatch, drained of its last calls, and over.
Pcs == {"new", "checked", "valid", "refused", "loop", "permitted", "drain",
        "ended", "lingering", "gone"}
Init ==
    /\ handle = NoRequest
    /\ \E mode \in [Requests -> {"timed", "parallel"}] :
          replay = [r \in Requests |->
             [pc |-> "new", mode |-> mode[r], next |-> 1, running |-> FALSE,
              cancel |-> FALSE, failed |-> FALSE, flight |-> {}, joinable |-> 0,
              completed |-> 0, late |-> 0]]
    /\ called = [r \in Requests |-> [i \in Rows |-> 0]]
    /\ up = TRUE

Step(r, from) == replay[r].pc = from

-----------------------------------------------------------------------------
(* prepare_replay, and the spawn of the task *)

\* The handle there is belongs to a replay that still runs.
Busy == handle # NoRequest /\ replay[handle].running

CheckIdle(r) ==
    /\ Step(r, "new")
    /\ replay' = [replay EXCEPT ![r].pc = IF Busy THEN "refused" ELSE "checked"]
    /\ UNCHANGED <<handle, called, up>>

\* The playbook runs and its folder has rows, or the request ends here.
Validate(r) ==
    /\ Step(r, "checked")
    /\ \E readable \in BOOLEAN :
          replay' = [replay EXCEPT ![r].pc = IF up /\ readable THEN "valid" ELSE "refused"]
    /\ UNCHANGED <<handle, called, up>>

\* The lock was given back since the check: the handle may belong to another
\* request by now, and is replaced.
StoreHandle(r) ==
    /\ Step(r, "valid")
    /\ handle' = r
    /\ replay' = [replay EXCEPT ![r].pc = "loop", ![r].running = TRUE]
    /\ UNCHANGED <<called, up>>

-----------------------------------------------------------------------------
(* The task: run_replay_loop and run_replay_parallel *)

\* Tasks of the JoinSet; the timed loop has its one call in flight.
InSet(r) == Cardinality(replay[r].flight) + replay[r].joinable

Width(r) == IF replay[r].mode = "timed" THEN 1 ELSE Concurrency

\* Mutant: the calls in flight are left behind.
CheckCancelLeaves(r) ==
    /\ Step(r, "loop") /\ replay[r].next <= TotalRows
    /\ replay[r].mode = "timed" => replay[r].flight = {}
    /\ replay' = [replay EXCEPT ![r].pc = IF replay[r].cancel THEN "ended" ELSE "permitted"]
    /\ UNCHANGED <<handle, called, up>>

\* Mutant: the signal is looked at before the first row only.
CheckCancelOnce(r) ==
    /\ Step(r, "loop") /\ replay[r].next <= TotalRows
    /\ replay[r].mode = "timed" => replay[r].flight = {}
    /\ replay' = [replay EXCEPT ![r].pc = IF replay[r].cancel /\ replay[r].next = 1
                                             THEN "drain" ELSE "permitted"]
    /\ UNCHANGED <<handle, called, up>>

\* Before every row; a cancelled replay waits for what is in flight.
CheckCancel(r) ==
    /\ Step(r, "loop") /\ replay[r].next <= TotalRows
    /\ replay[r].mode = "timed" => replay[r].flight = {}
    /\ replay' = [replay EXCEPT ![r].pc = IF replay[r].cancel THEN "drain" ELSE "permitted"]
    /\ UNCHANGED <<handle, called, up>>

LastRowSent(r) ==
    /\ Step(r, "loop") /\ replay[r].next > TotalRows
    /\ replay' = [replay EXCEPT ![r].pc = "drain"]
    /\ UNCHANGED <<handle, called, up>>

\* Mutant: results that nobody has taken yet do not count.
DispatchOverfull(r) ==
    /\ Step(r, "permitted") /\ Cardinality(replay[r].flight) < Width(r)
    /\ LET i == replay[r].next IN
          /\ replay' = [replay EXCEPT ![r].pc = "loop", ![r].next = i + 1,
                                      ![r].flight = @ \cup {i},
                                      ![r].late = IF replay[r].cancel THEN @ + 1 ELSE @]
          /\ called' = [called EXCEPT ![r][i] = @ + 1]
    /\ UNCHANGED <<handle, up>>

\* The row fits the playbook's input and its call starts.
Dispatch(r) ==
    /\ Step(r, "permitted") /\ InSet(r) < Width(r)
    /\ LET i == replay[r].next IN
          /\ replay' = [replay EXCEPT ![r].pc = "loop", ![r].next = i + 1,
                                      ![r].flight = @ \cup {i},
                                      ![r].late = IF replay[r].cancel THEN @ + 1 ELSE @]
          /\ called' = [called EXCEPT ![r][i] = @ + 1]
    /\ UNCHANGED <<handle, up>>

\* The row can not be repaired: the task returns an error and with its
\* JoinSet drops the calls in flight, which are aborted at their next await.
RowUnfit(r) ==
    /\ Step(r, "permitted") /\ InSet(r) < Width(r)
    /\ replay' = [replay EXCEPT ![r].pc = "ended", ![r].failed = TRUE, ![r].joinable = 0]
    /\ UNCHANGED <<handle, called, up>>

\* A call returns, with a record or an error: the timed loop counts it at
\* once, the JoinSet keeps the result.
CallReturns(r) ==
    \E i \in replay[r].flight :
        /\ replay' = [replay EXCEPT
              ![r].flight = @ \ {i},
              ![r].completed = IF replay[r].mode = "timed" THEN @ + 1 ELSE @,
              ![r].joinable = IF replay[r].mode = "timed" \/ replay[r].failed THEN @ ELSE @ + 1]
        /\ UNCHANGED <<handle, called, up>>

\* A call of a dropped JoinSet ends at an await.
CallAborted(r) ==
    /\ replay[r].failed
    /\ \E i \in replay[r].flight : replay' = [replay EXCEPT ![r].flight = @ \ {i}]
    /\ UNCHANGED <<handle, called, up>>

\* A result is taken and counted: to make room, or when no row is left.
JoinNext(r) ==
    /\ replay[r].joinable > 0
    /\ Step(r, "drain") \/ (Step(r, "permitted") /\ InSet(r) >= Width(r))
    /\ replay' = [replay EXCEPT ![r].joinable = @ - 1, ![r].completed = @ + 1]
    /\ UNCHANGED <<handle, called, up>>

Drained(r) ==
    /\ Step(r, "drain") /\ InSet(r) = 0
    /\ replay' = [replay EXCEPT ![r].pc = "ended"]
    /\ UNCHANGED <<handle, called, up>>

\* Mutant: the status is left as it was.
MarkFinishedForgets(r) ==
    /\ Step(r, "ended")
    /\ replay' = [replay EXCEPT ![r].pc = "lingering"]
    /\ UNCHANGED <<handle, called, up>>

MarkFinished(r) ==
    /\ Step(r, "ended")
    /\ replay' = [replay EXCEPT ![r].pc = "lingering", ![r].running = FALSE]
    /\ UNCHANGED <<handle, called, up>>

\* Mutant: the handle is cleared whoever it belongs to.
ClearHandleBlindly(r) ==
    /\ Step(r, "lingering")
    /\ replay' = [replay EXCEPT ![r].pc = "gone"]
    /\ handle' = NoRequest
    /\ UNCHANGED <<called, up>>

\* After the delay: the handle goes unless it belongs to a replay that runs.
ClearHandle(r) ==
    /\ Step(r, "lingering")
    /\ replay' = [replay EXCEPT ![r].pc = "gone"]
    /\ handle' = IF Busy THEN handle ELSE NoRequest
    /\ UNCHANGED <<called, up>>

-----------------------------------------------------------------------------
(* Clients *)

\* stop_replay signals the replay whose handle is kept, running or not.
StopReplay ==
    /\ handle # NoRequest /\ ~replay[handle].cancel
    /\ replay' = [replay EXCEPT ![handle].cancel = TRUE]
    /\ UNCHANGED <<handle, called, up>>

\* The worker goes; the task keeps its clone of the pipeline server and calls
\* on.
PlaybookStops ==
    /\ up
    /\ up' = FALSE
    /\ UNCHANGED <<handle, replay, called>>

Next ==
    \/ \E r \in Requests : CheckIdle(r)
    \/ \E r \in Requests : Validate(r)
    \/ \E r \in Requests : StoreHandle(r)
    \/ \E r \in Requests : CheckCancel(r)
    \/ \E r \in Requests : LastRowSent(r)
    \/ \E r \in Requests : Dispatch(r)
    \/ \E r \in Requests : RowUnfit(r)
    \/ \E r \in Requests : CallReturns(r)
    \/ \E r \in Requests : CallAborted(r)
    \/ \E r \in Requests : JoinNext(r)
    \/ \E r \in Requests : Drained(r)
    \/ \E r \in Requests : MarkFinished(r)
    \/ \E r \in Requests : ClearHandle(r)
    \/ StopReplay
    \/ PlaybookStops

\* tokio runs the tasks it was given, and a call of a module returns.  Clients
\* owe nothing.
Fairness ==
    \A r \in Requests :
        /\ WF_vars(CheckCancel(r) \/ LastRowSent(r) \/ Dispatch(r) \/ RowUnfit(r) \/ JoinNext(r) \/ Drained(r))
        /\ WF_vars(CallReturns(r)) /\ WF_vars(MarkFinished(r)) /\ WF_vars(ClearHandle(r))
        /\ WF_vars(Validate(r)) /\ WF_vars(StoreHandle(r))

Spec == Init /\ [][Next]_vars
FairSpec == Spec /\ Fairness

-----------------------------------------------------------------------------
(* Properties *)

\* Every variable has its type.
TypeOK ==
    /\ handle \in Requests \cup {NoRequest}
    /\ replay \in [Requests ->
          [pc : Pcs, mode : {"timed", "parallel"}, next : 1..(TotalRows + 1),
           running : BOOLEAN, cancel : BOOLEAN, failed : BOOLEAN,
           flight : SUBSET Rows, joinable : 0..Concurrency,
           completed : 0..TotalRows, late : Nat]]
    /\ called \in [Requests -> [Rows -> Nat]]
    /\ up \in BOOLEAN

\* The rows r has called.
Called(r) == {i \in Rows : called[r][i] > 0}

\* What the status says of a replay that is over is final and true: no call of
\* it is still under way, every row it called was called once and is counted,
\* and unless it was cancelled it called every row.  (A replay that met a row
\* it could not repair left its calls behind.)
ReportIsFinal ==
    \A r \in Requests : replay[r].pc \in {"lingering", "gone"} /\ ~replay[r].failed =>
        /\ replay[r].flight = {}
        /\ \A i \in Rows : called[r][i] <= 1
        /\ replay[r].completed = Cardinality(Called(r))
        /\ ~replay[r].cancel => Called(r) = Rows

\* After a stop was answered at most one more row is started: the one whose
\* turn had come before.
StopStartsAtMostOne == \A r \in Requests : replay[r].late <= 1

\* The handle of a replay that runs is never cleared by the task of an earlier
\* one: it can only be replaced by that of a start whose check came first.
RunningKeepsHandle ==
    [][Busy /\ handle' # handle => handle' # NoRequest /\ replay[handle'].pc = "valid"]_vars

\* Every replay ends and every handle goes, so a playbook is always free to be
\* replayed again.
HandleGoes == handle # NoRequest ~> handle = NoRequest

=============================================================================
