----------------------------- MODULE ModuleHost -----------------------------
(***************************************************************************)
(* One instance of a wasm module and the host that calls it                *)
(* (pyroduct::module and pyroduct::wasm).  Rows, results, histories of     *)
(* sessions and the text of a panic cross the boundary in buffers that the *)
(* guest keeps in registries behind mutexes; the user function may log,    *)
(* call a capability or another playbook, fail, panic, be cut off by an    *)
(* error of the host, or be dropped while it waits for another, when the   *)
(* HTTP client that asked goes away.  Operations of an instance come one   *)
(* after the other, only the log lines of a capability arrive on a task of *)
(* their own.                                                              *)
(* A module is a plain function, a session (one list of rows that are both *)
(* input and output) or a session_diff (a list of each).                   *)
(* The value of call n is <<"out", n>>, the row it was given <<"in", n>>.  *)
(***************************************************************************)
EXTENDS Naturals, Sequences

CONSTANTS
    Sessions,   \* session ids
    MaxCalls,   \* bound: calls and steps of the instance
    MaxEffects, \* bound: what the user functions do before they end, together
    LogCap,     \* room of a capability's log channel
    None, Failed

ASSUME BoundAssumption ==
    MaxCalls \in Nat /\ MaxEffects \in Nat /\ LogCap \in Nat \ {0}

VARIABLES
    module,     \* None, Failed, or [kind, errors, caps, peers] of the instance
    at,         \* "idle", or where the call is: "guest", "returned", "trapped"
    op,         \* the call under way, or the last one
    input,      \* INPUT_REGISTRY
    output,     \* OUTPUT_REGISTRY
    sessIn,     \* SESSION_INPUT
    sessOut,    \* SESSION_OUTPUT
    locked,     \* SESSION_INPUT's mutex is held
    error,      \* ERROR_REGISTRY: None or the call whose panic it tells of
    modLog,     \* module_log of the store
    chan,       \* log channel of the capability object
    buffer,     \* log_buffer of the capability object
    lines,      \* lines the capability logged so far
    states,     \* session_states of the host: <<inputs, outputs>> or None
    answer,     \* history: the last answer
    heard,      \* history: the capability line last given out
    sent,       \* history: the rows of a session as its client knows them
    cut,        \* history: a step of a session was cut off or dropped
    owed,       \* history: the inputs of a session that were not answered by a row
    dropped     \* history: the lines in the store of calls that were dropped

guest == <<input, output, sessIn, sessOut, locked, error>>
logs == <<modLog, chan, buffer, lines>>
history == <<answer, heard, sent, cut, owed, dropped>>
vars == <<module, at, op, guest, logs, states, history>>

Specs == <<"specs", 0>>         \* the buffer of the interconnect's specs
Empty == <<"empty", 0>>         \* the row of a session that terminated
NoOp == [n |-> 0, sid |-> None, effects |-> 0, said |-> 0, did |-> "nothing",
         saw |-> <<>>, result |-> None, trap |-> None]

Up == module \notin {None, Failed}
Lines(n, k) == [i \in 1 .. k |-> <<n, i>>]

-----------------------------------------------------------------------------
\* Errors, <<origin, kind>>, and the status bytes they travel as.

Ok == <<"none", "RkyvValid">>
UserError == <<"none", "RkyvError">>
CodePanic == <<"none", "CodePanic">>
Kinds == {"NotFound", "Serialization", "Deserialization", "Validation", "Transport",
          "Io", "Utf8", "InvalidHeader", "LayoutError", "UnexpectedEof", "NotPermitted"}
Statuses == {"none", "local", "remote"} \X
    (Kinds \union {"RkyvValid", "RkyvError", "CodePanic", "CodeError", "HeaderFfi", "PyroFfiFail",
                   "Unknown"})

ASSUME NoneAssumption == None \notin Sessions \union Nat \union Statuses \union (Nat \X Nat)

\* PyroError::encode
Encode(e) ==
    CASE e[2] \in {"IncorrectParse", "CodePanic"} -> <<"none", "CodeError">>
      [] e[2] = "Header" -> <<"remote", "InvalidHeader">>
      [] e[2] = "HeaderFfi" -> <<"none", "PyroFfiFail">>
      [] OTHER -> <<"remote", e[2]>>

\* parse_as_error: None when the status is not an error of pyroduct
ParseAsError(s) ==
    CASE s = <<"none", "CodeError">> -> CodePanic
      [] s = <<"none", "PyroFfiFail">> -> <<"none", "HeaderFfi">>
      [] s[2] = "Validation" -> <<s[1], "Serialization">>
      [] s[2] = "NotPermitted" -> <<"none", "NotPermitted">>
      [] s = <<"remote", "UnexpectedEof">> -> <<"remote", "InvalidHeader">>
      [] s \in {<<"local", "Io">>, <<"local", "Utf8">>} -> <<"local", "Transport">>
      [] s[2] \in Kinds \ {"Validation", "NotPermitted"}
            /\ s \notin {<<"remote", "UnexpectedEof">>, <<"local", "Io">>, <<"local", "Utf8">>} -> s
      [] OTHER -> None

\* execute_safe, serialize_result: what a method of a capability sends back
ExecuteSafe(outcome) ==
    CASE outcome = "value" -> Ok
      [] outcome = "failure" -> UserError
      [] outcome = "panic" -> Encode(CodePanic)
      [] outcome = "garbled" -> Encode(<<"local", "Deserialization">>)

-----------------------------------------------------------------------------
\* Registries of the guest.

NewInput(buf) == input \union {buf}
GetInput(reg, buf) == reg \ {buf}
ToOutput(buf) == output \union {buf}
FreeOutput(buf) == output \ {buf}

NewSessionInput(sid, rows) == [sessIn EXCEPT ![sid] = @ \o rows]
NewSessionOutput(sid, rows) == [sessOut EXCEPT ![sid] = @ \o rows]

\* Mutant: the outputs are kept.
FreeInputsOnly(sid) ==
    /\ sessIn' = [sessIn EXCEPT ![sid] = <<>>]
    /\ UNCHANGED sessOut

FreeSession(sid) ==
    /\ sessIn' = [sessIn EXCEPT ![sid] = <<>>]
    /\ sessOut' = [sessOut EXCEPT ![sid] = <<>>]

\* Mutant: the error is lent but not freed.
FreeNothing == error

\* get_panic_error, with lend_error and free_error: what it finds, and what it leaves
GetPanicError == IF module.errors THEN error ELSE None
FreeError == IF module.errors THEN None ELSE error

-----------------------------------------------------------------------------
\* Making an instance.  A module is given by its imports and exports and whether
\* it names other playbooks; a playbook by what is configured, loaded and remote
\* of its one capability library.

\* Types of a function a module imports or exports: that of a "half" one differs
\* in some of its parameters.
Signatures == {"right", "half", "missing"}
Modules == [kind : {"function", "session", "session_diff"}, hostLog : Signatures,
            inputs : Signatures, sessions : BOOLEAN, errors : BOOLEAN, populate : BOOLEAN,
            classes : {"none", "right", "half"}, peers : BOOLEAN]
Playbooks == [configured : BOOLEAN, library : {"absent", "broken", "loaded"},
              classes : BOOLEAN, remote : {"no", "refuses", "answers"},
              init : {"value", "panic", "garbled"}, interconnect : {"absent", "lacks", "has"}]

\* validate_import and validate_export: all parameters must differ to be seen
ValidateImport(f) == f # "missing"
ValidateExport(f) == f # "missing"
\* gather_classes, verify_class_functions
VerifyClassFunctions(m) == m.classes # "half"
\* get_typed_func, and the linker
Typed(f) == f = "right"

PyroModuleNew(m) ==
    /\ ValidateImport(m.hostLog)
    /\ ValidateExport(m.inputs)
    /\ VerifyClassFunctions(m)

\* CapabilityLibrary::load: symbols, interface.json, library and classes
Load(p) == p.library # "broken"

FromPlaybook(m, p) == PyroModuleNew(m) /\ Load(p)

\* execute_safe_init, and InitResult::process of what comes back
Process(outcome) ==
    ParseAsError(CASE outcome = "value" -> Ok
                   [] outcome = "panic" -> Encode(CodePanic)
                   [] outcome = "garbled" -> Encode(<<"local", "Serialization">>))

\* instantiate_from_config: an object of every class of the library
InstantiateFromConfig(p) == p.classes /\ Process(p.init) = None

\* create_capabilities: where the capability answers, or Failed
CreateCapabilities(p) ==
    IF \/ p.configured /\ p.remote = "no" /\ p.library = "absent"
       \/ p.configured /\ p.library = "loaded" /\ ~p.classes
       \/ p.remote = "refuses"
    THEN Failed
    ELSE IF p.remote = "answers" THEN "remote"
    ELSE IF ~p.configured THEN "none"
    ELSE IF InstantiateFromConfig(p) THEN "local" ELSE Failed

\* instantiate: the interconnect is complete and every import is linked
Linked(m, p, caps) ==
    /\ m.peers => p.interconnect = "has"
    /\ caps # Failed
    /\ Typed(m.hostLog)
    /\ m.classes # "none" => caps # "none"

\* PyroState::link: the panics of a module without lend_error are not looked up
Link(m) == Typed(m.inputs) /\ m.sessions

\* add_playbooks: the specs are put into a buffer even if nobody takes them
AddPlaybooks(m, p) ==
    IF p.interconnect = "absent" THEN input
    ELSE IF m.populate THEN GetInput(NewInput(Specs), Specs)
    ELSE NewInput(Specs)

Instantiate ==
    /\ module = None
    /\ \E m \in Modules, p \in Playbooks :
        LET caps == CreateCapabilities(p) IN
        IF FromPlaybook(m, p) /\ Linked(m, p, caps) /\ Link(m)
        THEN /\ module' = [kind |-> m.kind, errors |-> m.errors, peers |-> m.peers,
                           caps |-> IF m.classes = "none" THEN "none" ELSE caps]
             /\ input' = AddPlaybooks(m, p)
        ELSE /\ module' = Failed
             /\ UNCHANGED input
    /\ UNCHANGED <<at, op, output, sessIn, sessOut, locked, error, logs, states, history>>

-----------------------------------------------------------------------------
\* Logs.

\* log_callback: a line finds room in the channel or is dropped
LogCallback ==
    /\ lines' = lines + 1
    /\ chan' = IF Len(chan) < LogCap THEN Append(chan, lines + 1) ELSE chan
    /\ UNCHANGED <<modLog, buffer>>

CapabilityLogs == \/ UNCHANGED logs
                  \/ module.caps = "local" /\ LogCallback

\* the task create_instance spawns
LogTask ==
    /\ chan # <<>>
    /\ buffer' = Append(buffer, Head(chan))
    /\ chan' = Tail(chan)
    /\ UNCHANGED <<module, at, op, guest, modLog, lines, states, history>>

\* unpack_logs: the store's lines and those that have come from the object
UnpackLogs ==
    /\ modLog' = <<>>
    /\ buffer' = <<>>
    /\ heard' = IF buffer = <<>> THEN heard ELSE buffer[Len(buffer)]
    /\ dropped' = <<>>
    /\ UNCHANGED <<chan, lines>>

\* An answer, packed with the logs.
Answer(result) ==
    /\ answer' = [n |-> op'.n, result |-> result, module |-> modLog, caps |-> buffer,
                  after |-> heard, late |-> dropped]
    /\ UnpackLogs

\* A failed step of a session: the logs were taken for an answer that is not
\* given, and are taken again for the failure.
AnswerStripped(result) ==
    /\ answer' = [n |-> op'.n, result |-> result, module |-> <<>>, caps |-> <<>>,
                  after |-> heard, late |-> dropped]
    /\ UnpackLogs

-----------------------------------------------------------------------------
\* Calls.

Begin(sid) == [NoOp EXCEPT !.n = op.n + 1, !.sid = sid, !.effects = op.effects]

\* The input goes in by new_input and is taken by wasm_row_main (get_input).
Call ==
    LET buf == <<"in", op.n + 1>> IN
    /\ Up /\ module.kind = "function"
    /\ at = "idle" /\ op.n < MaxCalls
    /\ at' = "guest"
    /\ op' = Begin(None)
    /\ input' = GetInput(NewInput(buf), buf)
    /\ UNCHANGED <<module, output, sessIn, sessOut, locked, error, logs, states, history>>

\* Why wasm_row_main_session and wasm_row_main_session_diff do not run the
\* user function, as the status they return; None when they do.
Refusal(ins, outs) ==
    LET Terminated(rows) == \E i \in DOMAIN rows : rows[i] = Empty IN
    IF module.kind = "session_diff" /\ Len(outs) + 1 # Len(ins) THEN UserError
    ELSE IF Terminated(ins) \/ Terminated(outs) THEN Encode(CodePanic)
    ELSE None

\* call_session up to the user function.  The row is pushed first; a mutex
\* that is still held makes the push panic, which nobody asks about.
CallSession(sid) ==
    /\ Up /\ module.kind # "function"
    /\ at = "idle" /\ op.n < MaxCalls
    /\ LET n == op.n + 1
           ins == Append(sessIn[sid], <<"in", n>>)
           refusal == Refusal(ins, sessOut[sid])
       IN
       IF locked
       THEN /\ op' = [Begin(sid) EXCEPT !.did = "locked"]
            /\ error' = n
            /\ Answer(<<"pyro", <<"none", "OutputMemory">>>>)
            /\ UNCHANGED <<at, input, output, sessIn, sessOut, locked, sent, cut, owed>>
       ELSE /\ sessIn' = NewSessionInput(sid, <<<<"in", n>>>>)
            /\ IF refusal = None
               THEN /\ at' = "guest"
                    /\ locked' = TRUE
                    /\ op' = [Begin(sid) EXCEPT !.saw = <<ins, sessOut[sid]>>]
                    /\ UNCHANGED output
               ELSE /\ at' = "returned"
                    /\ output' = ToOutput(<<"out", n>>)
                    /\ op' = [Begin(sid) EXCEPT !.did = "refused", !.result = <<refusal, n>>]
                    /\ UNCHANGED locked
            /\ sent' = [sent EXCEPT ![sid][1] = Append(@, <<"in", n>>)]
            /\ owed' = [owed EXCEPT ![sid] = @ + 1]
            /\ UNCHANGED <<input, sessOut, error, logs, answer, heard, cut, dropped>>
    /\ UNCHANGED <<module, states>>

-----------------------------------------------------------------------------
\* The user function.

Running == Up /\ at = "guest"
Acts == Running /\ op.effects < MaxEffects

\* The mutexes of the sessions are held for ever after a step that is cut off.
Trap(did, e) ==
    /\ at' = "trapped"
    /\ op' = [op EXCEPT !.did = did, !.trap = e]
    /\ cut' = (cut \/ op.sid # None)

\* The panic hook keeps the message (store_error), then the guest aborts.
StoreError ==
    /\ error' = op.n
    /\ Trap("panic", <<"none", "Unknown">>)

Panic ==
    /\ Running
    /\ StoreError
    /\ UNCHANGED <<module, input, output, sessIn, sessOut, locked, logs, states,
                   answer, heard, sent, owed, dropped>>

\* host_log
Log ==
    /\ Acts
    /\ modLog' = Append(modLog, <<op.n, op.said + 1>>)
    /\ op' = [op EXCEPT !.said = @ + 1, !.effects = @ + 1]
    /\ UNCHANGED <<module, at, guest, chan, buffer, lines, states, history>>

GoOn == op' = [op EXCEPT !.effects = @ + 1] /\ UNCHANGED <<at, error, cut>>

\* __call_from_wasm: a caller that has no Result for a failure panics over it.
CallFromWasm(status) == IF status = Ok THEN GoOn ELSE StoreError

\* __call_result_from_wasm: the user function is given the failure.
CallResultFromWasm(status) == IF status \in {Ok, UserError} THEN GoOn ELSE StoreError

\* A method of the capability, which may log a line.  An error of pyroduct in
\* its answer cuts the guest off; the rest is put into an input buffer that the
\* guest takes, and a failure that the caller has no Result for is a panic.
CallCapability ==
    /\ Acts /\ module.caps # "none"
    /\ \E outcome \in {"value", "failure", "panic", "garbled"} :
        LET e == ParseAsError(ExecuteSafe(outcome))
            buf == <<"cap", op.n>>
        IN
        IF e # None
        THEN /\ Trap("capability", e)
             /\ UNCHANGED <<input, error>>
        ELSE /\ input' = GetInput(NewInput(buf), buf)
             /\ CallFromWasm(ExecuteSafe(outcome)) \/ CallResultFromWasm(ExecuteSafe(outcome))
    /\ CapabilityLogs
    /\ UNCHANGED <<module, output, sessIn, sessOut, locked, states, answer, heard, sent,
                   owed, dropped>>

\* __register: the guest looks for errors of pyroduct only.
RegisterClient ==
    /\ Acts /\ module.caps # "none"
    /\ \E outcome \in {"value", "failure", "panic", "garbled"} :
        LET e == ParseAsError(ExecuteSafe(outcome))
            buf == <<"cap", op.n>>
        IN
        IF e # None
        THEN /\ Trap("capability", e)
             /\ UNCHANGED input
        ELSE /\ input' = GetInput(NewInput(buf), buf)
             /\ op' = [op EXCEPT !.effects = @ + 1]
             /\ UNCHANGED <<at, cut>>
    /\ CapabilityLogs
    /\ UNCHANGED <<module, output, sessIn, sessOut, locked, error, states,
                   answer, heard, sent, owed, dropped>>

\* The connection to a remote capability breaks.
LoseCapability ==
    /\ Acts /\ module.caps = "remote"
    /\ Trap("capability", <<"local", "Transport">>)
    /\ UNCHANGED <<module, guest, logs, states, answer, heard, sent, owed, dropped>>

\* link_interconnect: an error of any kind is sent as a failure.
CallInterconnect(outcome) == IF outcome = "row" THEN Ok ELSE UserError

\* call_playbook_internal: the other playbook's row, or its error, which the
\* guest cannot expose as a row and panics over
CallPlaybook ==
    /\ Acts /\ module.peers
    /\ LET buf == <<"peer", op.n>> IN input' = GetInput(NewInput(buf), buf)
    /\ \E outcome \in {"row", "error"} :
        IF CallInterconnect(outcome) = Ok THEN GoOn ELSE StoreError
    /\ UNCHANGED <<module, output, sessIn, sessOut, locked, logs, states, answer, heard, sent,
                   owed, dropped>>

\* The HTTP server drops a call whose client goes away while the call waits for
\* a capability or another playbook.  Nobody reads its panic, takes its lines
\* out of the store or gives back the mutexes.
DropCall ==
    /\ Running /\ (module.caps # "none" \/ module.peers)
    /\ at' = "idle"
    /\ op' = [op EXCEPT !.did = "dropped", !.saw = <<>>]
    /\ cut' = (cut \/ op.sid # None)
    /\ dropped' = dropped \o Lines(op.n, op.said)
    /\ answer' = None
    /\ CapabilityLogs
    /\ UNCHANGED <<module, guest, states, heard, sent, owed>>

\* The function of a plain module returns; its result becomes an output.
Return ==
    /\ Running /\ module.kind = "function"
    /\ at' = "returned"
    /\ \E did \in {"value", "failure"} :
        op' = [op EXCEPT !.did = did,
                         !.result = <<IF did = "value" THEN Ok ELSE UserError, op.n>>]
    /\ output' = ToOutput(<<"out", op.n>>)
    /\ UNCHANGED <<module, input, sessIn, sessOut, locked, error, logs, states, history>>

\* The function of a session returns: its row, or an empty one when it
\* terminates, is kept in the history and lent to the host; a failure is an
\* output as above.
ReturnSession ==
    /\ Running /\ module.kind # "function"
    /\ at' = "returned"
    /\ locked' = FALSE
    /\ \E did \in {"value", "end", "terminate", "failure"} :
        LET row == IF did = "terminate" THEN Empty ELSE <<"out", op.n>> IN
        /\ op' = [op EXCEPT !.did = did,
                            !.result = <<IF did = "failure" THEN UserError ELSE Ok, op.n>>]
        /\ IF did = "failure"
           THEN output' = ToOutput(<<"out", op.n>>) /\ UNCHANGED <<sessIn, sessOut>>
           ELSE IF module.kind = "session"
           THEN sessIn' = NewSessionInput(op.sid, <<row>>) /\ UNCHANGED <<output, sessOut>>
           ELSE sessOut' = NewSessionOutput(op.sid, <<row>>) /\ UNCHANGED <<output, sessIn>>
    /\ UNCHANGED <<module, input, error, logs, states, history>>

-----------------------------------------------------------------------------
\* The host again.

\* What the status of a result is read as.
Parsed(status, n) ==
    CASE ParseAsError(status) # None -> <<"pyro", ParseAsError(status)>>
      [] status = Ok -> <<"value", n>>
      [] status = UserError -> <<"user", n>>

\* The export returned: the result is copied (get_output) and freed.
ReadOutput ==
    /\ Up /\ at = "returned"
    /\ at' = "idle"
    /\ output' = FreeOutput(<<"out", op.n>>)
    /\ LET result == Parsed(op.result[1], op.result[2])
           good == result[1] = "value"
           row == IF op.did = "terminate" THEN Empty ELSE <<"out", op.n>>
       IN
       /\ op' = [op EXCEPT !.saw = <<>>]
       /\ IF op.sid # None /\ result[1] = "user" THEN AnswerStripped(result) ELSE Answer(result)
       /\ IF op.sid = None \/ ~good THEN UNCHANGED <<states, sent, owed>>
          ELSE /\ states' = [states EXCEPT ![op.sid] =
                        IF @ = None THEN <<1, 1>> ELSE <<@[1] + 1, @[2] + 1>>]
               /\ sent' = [sent EXCEPT ![op.sid] =
                        IF module.kind = "session" THEN <<Append(@[1], row), @[2]>>
                        ELSE <<@[1], Append(@[2], row)>>]
               /\ owed' = [owed EXCEPT ![op.sid] = @ - 1]
    /\ UNCHANGED <<module, input, sessIn, sessOut, locked, error, cut>>

\* The export trapped: the panic the guest kept, or the error of the host.
ReadPanic ==
    /\ Up /\ at = "trapped"
    /\ at' = "idle"
    /\ op' = [op EXCEPT !.saw = <<>>]
    /\ IF GetPanicError # None THEN Answer(<<"user", GetPanicError>>)
       ELSE Answer(<<"pyro", op.trap>>)
    /\ error' = FreeError
    /\ UNCHANGED <<module, input, output, sessIn, sessOut, locked, states, sent, cut, owed>>

\* prep_session: one earlier turn of the session, or none, is loaded
PrepSession(sid) ==
    /\ Up /\ module.kind # "function" /\ at = "idle"
    /\ states[sid] = None /\ sessIn[sid] = <<>> /\ sessOut[sid] = <<>>
    /\ \E turns \in {<<>>, <<<<"old", 0>>>>} :
        LET outs == [i \in DOMAIN turns |-> <<"reply", 0>>]
            rows == IF module.kind = "session" THEN <<turns \o outs, <<>>>> ELSE <<turns, outs>>
        IN
        IF locked /\ turns # <<>>
        THEN error' = op.n /\ UNCHANGED <<sessIn, sessOut, states, sent>>
        ELSE /\ sessIn' = NewSessionInput(sid, rows[1])
             /\ sessOut' = NewSessionOutput(sid, rows[2])
             /\ states' = [states EXCEPT ![sid] = <<Len(rows[1]), Len(rows[2])>>]
             /\ sent' = [sent EXCEPT ![sid] = rows]
             /\ UNCHANGED error
    /\ UNCHANGED <<module, at, op, input, output, locked, logs, answer, heard, cut, owed,
                   dropped>>

\* close_session: the guest frees the session, unless its mutex is held; the
\* failure takes the logs with it
CloseSession(sid) ==
    /\ Up /\ module.kind # "function" /\ at = "idle"
    /\ states[sid] # None \/ sessIn[sid] # <<>>
    /\ IF locked
       THEN /\ error' = op.n
            /\ UnpackLogs
            /\ UNCHANGED <<sessIn, sessOut, states, sent, owed>>
       ELSE /\ FreeSession(sid)
            /\ states' = [states EXCEPT ![sid] = None]
            /\ sent' = [sent EXCEPT ![sid] = <<<<>>, <<>>>>]
            /\ owed' = [owed EXCEPT ![sid] = 0]
            /\ UNCHANGED <<error, logs, heard, dropped>>
    /\ UNCHANGED <<module, at, op, input, output, locked, answer, cut>>

Init ==
    /\ module = None
    /\ at = "idle"
    /\ op = NoOp
    /\ input = {} /\ output = {}
    /\ sessIn = [sid \in Sessions |-> <<>>]
    /\ sessOut = [sid \in Sessions |-> <<>>]
    /\ locked = FALSE
    /\ error = None
    /\ modLog = <<>> /\ chan = <<>> /\ buffer = <<>> /\ lines = 0
    /\ states = [sid \in Sessions |-> None]
    /\ answer = None /\ heard = 0
    /\ sent = [sid \in Sessions |-> <<<<>>, <<>>>>]
    /\ cut = FALSE
    /\ owed = [sid \in Sessions |-> 0]
    /\ dropped = <<>>

Next ==
    \/ Instantiate
    \/ Call
    \/ \E sid \in Sessions : CallSession(sid) \/ PrepSession(sid) \/ CloseSession(sid)
    \/ Log \/ CallCapability \/ RegisterClient \/ LoseCapability \/ CallPlaybook \/ Panic
    \/ DropCall
    \/ Return \/ ReturnSession
    \/ ReadOutput \/ ReadPanic
    \/ LogTask

Spec == Init /\ [][Next]_vars

-----------------------------------------------------------------------------
\* What a call is answered is what its user function did: its row, its own
\* failure or panic, or the error its capability ran into, never the panic of
\* another call.  The lines of the module are all there and in order (a
\* session's failed step has none), and no other call's but those of calls
\* dropped before it, which nobody has taken and which come first; those of the
\* capability come at most once and in order, in this answer or a later one.
AnswersAreOwn ==
    answer # None /\ at = "idle" =>
        LET n == answer.n IN
        /\ n = op.n
        /\ CASE op.did \in {"value", "end", "terminate"} -> answer.result = <<"value", n>>
             [] op.did = "failure" -> answer.result = <<"user", n>>
             [] op.did = "panic" ->
                    answer.result = IF module.errors THEN <<"user", n>>
                                    ELSE <<"pyro", <<"none", "Unknown">>>>
             [] op.did = "capability" ->
                    answer.result[1] = "pyro" /\ answer.result[2] # <<"none", "Unknown">>
             [] op.did \in {"refused", "locked"} -> answer.result[1] # "value"
        /\ answer.module = IF op.sid # None /\ answer.result[1] = "user"
                              /\ op.did \in {"failure", "refused"}
                           THEN <<>> ELSE answer.late \o Lines(n, op.said)
        /\ \A i \in DOMAIN answer.caps :
            /\ answer.caps[i] > (IF i = 1 THEN answer.after ELSE answer.caps[i - 1])
            /\ answer.caps[i] <= lines

\* What the host counts of a session.
Counted(sid) == IF states[sid] = None THEN <<0, 0>> ELSE states[sid]

\* Between calls the registries of the guest are empty, whatever happened to
\* the calls (the specs of an interconnect nobody takes excepted), and a mutex
\* is held and a panic is left over only where a step of a session was cut off
\* or dropped.  The function of a session is given the rows its client sent it
\* and got from it since the session was opened, and no others.  The host counts
\* the rows the guest has of every session, but for the inputs that failed,
\* refused, cut-off and dropped steps left there: of a session_diff its inputs
\* and outputs each, of a session, which the guest keeps as one list, both
\* together.
GuestStateAgrees ==
    /\ Up /\ at = "idle" =>
        /\ input \subseteq {Specs} /\ output = {}
        /\ locked => cut
        /\ error # None => cut \/ ~module.errors
        /\ \A sid \in Sessions :
            IF module.kind = "session_diff"
            THEN /\ Counted(sid)[1] + owed[sid] = Len(sessIn[sid])
                 /\ Counted(sid)[2] = Len(sessOut[sid])
            ELSE Counted(sid)[1] + Counted(sid)[2] + owed[sid]
                    = Len(sessIn[sid]) + Len(sessOut[sid])
    /\ at = "guest" /\ op.sid # None => op.saw = sent[op.sid]
=============================================================================
