-------------------------- MODULE ModuleHostProofs --------------------------
(***************************************************************************)
(* A call of a module is answered what its own user function did, and the  *)
(* guest is left as the host believes it to be: for any sessions, any      *)
(* number of calls, any effects and any room for log lines.                *)
(*                                                                         *)
(* Neither is inductive.  That an answer tells of no other call's panic    *)
(* needs that a panic the guest kept is there only while its call is cut   *)
(* off, or for good once a session's mutex is held for ever (Registries),  *)
(* and what a result or a trap says of the call (Outcomes).  That its      *)
(* lines are its own and in order needs the lines that are still under way *)
(* in the channel and the buffer, and those that dropped calls left        *)
(* (ModuleLines, CapabilityLines).  That a session's function gets its     *)
(* client's rows needs that both sides have the same rows of every session *)
(* at all times, but for the row of a step that has returned and is not    *)
(* read yet (SessionsAgree); that the host counts the rows of the guest    *)
(* needs the same of its counts (Counts, proved from the former).          *)
(***************************************************************************)
EXTENDS ModuleHost, SequenceTheorems, TLAPS

\* How a call may end, the rows of sessions, and the record of a call.
Dids == {"nothing", "value", "end", "terminate", "failure", "panic", "capability", "refused", "locked",
         "dropped"}
Rows == {"in", "out", "old", "reply", "empty"} \X Nat
OpRecords == [n : Nat, sid : Sessions \cup {None}, effects : Nat, said : Nat, did : Dids,
              saw : {<<>>} \cup (Seq(Rows) \X Seq(Rows)),
              result : {None} \cup (Statuses \X Nat), trap : {None} \cup Statuses]

\* What the variables have for values.
Types ==
    /\ at \in {"idle", "guest", "returned", "trapped"}
    /\ op \in OpRecords
    /\ error \in Nat \cup {None}
    /\ locked \in BOOLEAN /\ cut \in BOOLEAN
    /\ sessIn \in [Sessions -> Seq(Rows)] /\ sessOut \in [Sessions -> Seq(Rows)]
    /\ sent \in [Sessions -> Seq(Rows) \X Seq(Rows)]

\* The function of a session returned a row its client does not have yet.
Pending(sid) == at = "returned" /\ op.sid = sid /\ op.result[1] = Ok
Row == IF op.did = "terminate" THEN Empty ELSE <<"out", op.n>>

\* The guest's rows of a session are those its client knows, and one that is pending.
SessionsAgree ==
    /\ \A sid \in Sessions : ~Pending(sid) => sent[sid] = <<sessIn[sid], sessOut[sid]>>
    /\ \A sid \in Sessions : Pending(sid) =>
           <<sessIn[sid], sessOut[sid]>> =
               IF module.kind = "session" THEN <<Append(sent[sid][1], Row), sent[sid][2]>>
               ELSE <<sent[sid][1], Append(sent[sid][2], Row)>>
    /\ at = "guest" /\ op.sid # None => op.saw = sent[op.sid]

\* What is known of a call that has come back to the host.
Outcomes ==
    /\ at = "returned" =>
        \/ op.did \in {"value", "end", "terminate"} /\ op.result = <<Ok, op.n>>
        \/ op.did = "failure" /\ op.result = <<UserError, op.n>>
        \/ /\ op.did = "refused" /\ op.said = 0
           /\ op.result \in {<<UserError, op.n>>, <<Encode(CodePanic), op.n>>}
    /\ at = "trapped" =>
        \/ op.did = "panic" /\ op.trap = <<"none", "Unknown">> /\ error = op.n
        \/ op.did = "capability" /\ op.trap # <<"none", "Unknown">>

\* What the guest's registries hold, and when its mutex is held.
Registries ==
    /\ input \subseteq {Specs}
    /\ output \subseteq (IF at = "returned" THEN {<<"out", op.n>>} ELSE {})
    /\ locked => cut \/ (at = "guest" /\ op.sid # None)
    /\ Up /\ module.errors /\ error # None =>
        (at = "idle" /\ locked) \/ (at = "trapped" /\ op.did = "panic")
    /\ Up /\ module.kind = "function" => op.sid = None /\ ~locked
    /\ at # "idle" /\ module.kind # "function" => op.sid # None
    /\ ~Up => at = "idle" /\ error = None /\ ~locked /\ op.sid = None /\ answer = None

\* The lines of the module are those left by dropped calls, and those of the
\* call under way.
ModuleLines ==
    /\ dropped \in Seq(Nat \X Nat)
    /\ modLog = IF at = "idle" THEN dropped ELSE dropped \o Lines(op.n, op.said)

\* Every element of q is above low and those before it, and none is above high.
Rising(low, q, high) ==
    /\ \A i \in 1..Len(q) : low < q[i] /\ q[i] <= high
    /\ \A i, j \in 1..Len(q) : i < j => q[i] < q[j]

\* The lines of the capability that are still to be heard come after those that were.
CapabilityLines ==
    /\ buffer \in Seq(Nat) /\ chan \in Seq(Nat) /\ lines \in Nat /\ heard \in Nat
    /\ heard <= lines
    /\ Rising(heard, buffer \o chan, lines)

\* The invariant.
IInv == Types /\ SessionsAgree /\ Outcomes /\ Registries /\ ModuleLines /\ CapabilityLines
            /\ AnswersAreOwn

-----------------------------------------------------------------------------
\* One more line of a call.
LEMMA LinesGrow ==
    ASSUME NEW n, NEW k \in Nat
    PROVE  /\ Lines(n, 0) = <<>> /\ Append(Lines(n, k), <<n, k + 1>>) = Lines(n, k + 1)
<1> DEFINE S == {<<n, i>> : i \in Nat}
<1>1. Lines(n, 0) = <<>>
  BY DEF Lines
<1>2. PICK q : q = Lines(n, k)
  OBVIOUS
<1>3. q = [i \in 1..k |-> <<n, i>>] /\ \A i \in 1..k : <<n, i>> \in S
  BY <1>2 DEF Lines
<1>4. q \in Seq(S) /\ Len(q) = k /\ \A i \in 1..k : q[i] = <<n, i>>
  <2> HIDE DEF S
  <2> QED
    BY <1>3
<1>5. PICK e \in S : e = <<n, k + 1>>
  <2>1. k + 1 \in Nat
    OBVIOUS
  <2>2. <<n, k + 1>> \in S
    BY <2>1, Zenon
  <2> QED
    BY <2>2, Zenon
<1>6. PICK r : r = Lines(n, k + 1)
  OBVIOUS
<1>7. r = [i \in 1..(k + 1) |-> <<n, i>>] /\ \A i \in 1..(k + 1) : <<n, i>> \in S
  BY <1>6 DEF Lines
<1> HIDE DEF S
<1>8. r \in Seq(S) /\ Len(r) = k + 1 /\ \A i \in 1..(k + 1) : r[i] = <<n, i>>
  BY <1>7
<1>9. /\ Append(q, e) \in Seq(S) /\ Len(Append(q, e)) = k + 1
      /\ \A i \in 1..k : Append(q, e)[i] = q[i]
      /\ Append(q, e)[k + 1] = e
  BY <1>4
<1>10. \A i \in 1..(k + 1) : Append(q, e)[i] = r[i]
  <2> SUFFICES ASSUME NEW i \in 1..(k + 1) PROVE Append(q, e)[i] = r[i]
    OBVIOUS
  <2>1. CASE i = k + 1
    BY <1>5, <1>8, <1>9, <2>1
  <2>2. CASE i # k + 1
    <3>1. i \in 1..k
      BY <2>2
    <3>2. Append(q, e)[i] = q[i] /\ q[i] = <<n, i>> /\ r[i] = <<n, i>>
      BY <1>4, <1>8, <1>9, <3>1
    <3> QED
      BY <3>2
  <2> QED
    BY <2>1, <2>2
<1>11. Append(q, e) = r
  BY <1>8, <1>9, <1>10, SeqEqual
<1> QED
  BY <1>1, <1>2, <1>5, <1>6, <1>11

\* The lines of a call after those that are there.
LEMMA LinesFollow ==
    ASSUME NEW q \in Seq(Nat \X Nat), NEW n \in Nat, NEW k \in Nat
    PROVE  /\ q \o Lines(n, 0) = q
           /\ Append(q \o Lines(n, k), <<n, k + 1>>) = q \o Lines(n, k + 1)
           /\ q \o Lines(n, k) \in Seq(Nat \X Nat)
<1>1. PICK l : l = Lines(n, k)
  OBVIOUS
<1>2. l \in Seq(Nat \X Nat)
  <2>1. l = [i \in 1..k |-> <<n, i>>] /\ \A i \in 1..k : <<n, i>> \in Nat \X Nat
    BY <1>1 DEF Lines
  <2> QED
    BY <2>1
<1>3. PICK e \in Nat \X Nat : e = <<n, k + 1>>
  <2>1. k + 1 \in Nat
    OBVIOUS
  <2> QED
    BY <2>1
<1>4. Append(l, e) = Lines(n, k + 1) /\ Lines(n, 0) = <<>>
  BY <1>1, <1>3, LinesGrow
<1>5. q \o <<>> = q /\ q \o l \in Seq(Nat \X Nat)
  BY <1>2, ConcatEmptySeq, ConcatProperties
<1>6. Append(q \o l, e) = q \o Append(l, e)
  <2>1. PICK S : S = Nat \X Nat
    OBVIOUS
  <2>2. q \in Seq(S) /\ l \in Seq(S) /\ e \in S
    BY <1>2, <2>1
  <2> QED
    <3>1. PICK p \in Seq(S), r \in Seq(S), f \in S : p = q /\ r = l /\ f = e
      BY <2>2
    <3>2. <<f>> \in Seq(S) /\ p \o r \in Seq(S)
      BY ConcatProperties
    <3>3. Append(p \o r, f) = (p \o r) \o <<f>> /\ Append(r, f) = r \o <<f>>
      BY <3>2, AppendIsConcat
    <3>4. (p \o r) \o <<f>> = p \o (r \o <<f>>)
      BY <3>2, ConcatAssociative
    <3>5. Append(p \o r, f) = p \o Append(r, f)
      BY <3>3, <3>4
    <3> QED
      BY <3>1, <3>5
<1> QED
  BY <1>1, <1>3, <1>4, <1>5, <1>6

\* A new line is above all others.
LEMMA RisingAdded ==
    ASSUME NEW low \in Nat, NEW high \in Nat, NEW q \in Seq(Nat), low <= high, Rising(low, q, high)
    PROVE  Rising(low, Append(q, high + 1), high + 1) /\ Rising(low, q, high + 1)
<1>1. /\ Len(Append(q, high + 1)) = Len(q) + 1 /\ Len(q) \in Nat
      /\ \A i \in 1..Len(q) : Append(q, high + 1)[i] = q[i] /\ q[i] \in Nat
      /\ Append(q, high + 1)[Len(q) + 1] = high + 1
  OBVIOUS
<1> QED
  BY <1>1 DEF Rising

\* The lines after a front part are above its last.
LEMMA RisingTaken ==
    ASSUME NEW low \in Nat, NEW high \in Nat, NEW b \in Seq(Nat), NEW c \in Seq(Nat), low <= high,
           Rising(low, b \o c, high)
    PROVE  /\ Rising(low, b, high)
           /\ LET next == IF b = <<>> THEN low ELSE b[Len(b)]
              IN  next \in Nat /\ next <= high /\ Rising(next, <<>> \o c, high)
<1>1. /\ b \o c \in Seq(Nat) /\ Len(b \o c) = Len(b) + Len(c) /\ Len(b) \in Nat /\ Len(c) \in Nat
      /\ \A i \in 1..Len(b) : (b \o c)[i] = b[i] /\ b[i] \in Nat
      /\ \A i \in 1..Len(c) : (b \o c)[Len(b) + i] = c[i] /\ c[i] \in Nat
  OBVIOUS
<1>2. <<>> \o c = c /\ (b = <<>> \/ Len(b) \in 1..Len(b))
  OBVIOUS
<1> DEFINE q == b \o c
<1>3. /\ \A i \in 1..Len(q) : low < q[i] /\ q[i] <= high
      /\ \A i, j \in 1..Len(q) : i < j => q[i] < q[j]
  BY DEF Rising
<1> HIDE DEF q
<1>4. \A i \in 1..Len(b) : i \in 1..Len(q) /\ q[i] = b[i]
  BY <1>1 DEF q
<1>5. \A i \in 1..Len(c) : Len(b) + i \in 1..Len(q) /\ q[Len(b) + i] = c[i]
  BY <1>1 DEF q
<1>6. Rising(low, b, high)
  BY <1>3, <1>4 DEF Rising
<1>7. \A i \in 1..Len(c) : Len(b) + i \in 1..Len(b \o c) /\ c[i] <= high
  BY <1>3, <1>5 DEF q
<1>8. ASSUME NEW i \in 1..Len(c), NEW j \in 1..Len(c), i < j PROVE c[i] < c[j]
  <2>1. Len(b) + i < Len(b) + j
    BY <1>1, <1>8
  <2> QED
    BY <1>3, <1>5, <2>1
<1>9. \A i \in 1..Len(c) : low < c[i] /\ (b # <<>> => b[Len(b)] < c[i])
  <2>1. ASSUME NEW i \in 1..Len(c) PROVE low < c[i]
    BY <1>1, <1>7 DEF Rising
  <2>2. ASSUME NEW i \in 1..Len(c), b # <<>> PROVE b[Len(b)] < c[i]
    <3>1. Len(b) \in 1..Len(b \o c) /\ Len(b) + i \in 1..Len(b \o c) /\ Len(b) < Len(b) + i
      BY <1>1, <1>2, <2>2
    <3>2. (b \o c)[Len(b)] < (b \o c)[Len(b) + i]
      BY <3>1 DEF Rising
    <3> QED
      BY <1>1, <1>2, <2>2, <3>2
  <2> QED
    BY <2>1, <2>2
<1>10. CASE b = <<>>
  BY <1>2, <1>6, <1>7, <1>8, <1>9, <1>10 DEF Rising
<1>11. CASE b # <<>>
  <2>1. b[Len(b)] \in Nat /\ b[Len(b)] <= high
    BY <1>1, <1>2, <1>6, <1>11 DEF Rising
  <2> QED
    BY <1>2, <1>6, <1>7, <1>8, <1>9, <1>11, <2>1 DEF Rising
<1> QED
  BY <1>10, <1>11

\* A line that goes from the channel to the buffer keeps its place.
LEMMA LineMoves ==
    ASSUME NEW S, NEW b \in Seq(S), NEW c \in Seq(S), c # <<>>
    PROVE  /\ Append(b, Head(c)) \o Tail(c) = b \o c
           /\ Append(b, Head(c)) \in Seq(S) /\ Tail(c) \in Seq(S)
<1> DEFINE e == Head(c)
           t == Tail(c)
<1>1. e \in S /\ t \in Seq(S) /\ <<e>> \in Seq(S)
  BY HeadTailProperties
<1>2. c = <<e>> \o t
  OBVIOUS
<1>3. Append(b, e) = b \o <<e>> /\ Append(b, e) \in Seq(S)
  BY <1>1, AppendIsConcat, AppendProperties
<1> HIDE DEF e, t
<1>4. (b \o <<e>>) \o t = b \o (<<e>> \o t)
  BY <1>1, ConcatAssociative
<1> QED
  BY <1>1, <1>2, <1>3, <1>4 DEF e, t

-----------------------------------------------------------------------------
\* Lines that arrive, move to the buffer or are given out keep their order.
LEMMA LinesKeep ==
    ASSUME CapabilityLines,
           \/ UNCHANGED <<buffer, chan, lines, heard>>
           \/ LogCallback /\ UNCHANGED heard
           \/ LogTask
           \/ UnpackLogs
    PROVE  CapabilityLines'
<1>1. PICK b \in Seq(Nat), c \in Seq(Nat), h \in Nat, n \in Nat :
         b = buffer /\ c = chan /\ h = heard /\ n = lines
  BY DEF CapabilityLines
<1>2. h <= n /\ Rising(h, b \o c, n)
  BY <1>1 DEF CapabilityLines
<1>3. CASE UNCHANGED <<buffer, chan, lines, heard>>
  BY <1>3 DEF CapabilityLines
<1>4. CASE LogCallback /\ UNCHANGED heard
  <2>1. b \o c \in Seq(Nat)
    BY ConcatProperties
  <2>2. Rising(h, Append(b \o c, n + 1), n + 1) /\ Rising(h, b \o c, n + 1)
    BY <1>2, <2>1, RisingAdded
  <2>3. b \o Append(c, n + 1) = Append(b \o c, n + 1) /\ Append(c, n + 1) \in Seq(Nat)
    <3>1. n + 1 \in Nat /\ <<n + 1>> \in Seq(Nat)
      OBVIOUS
    <3>2. /\ Append(c, n + 1) = c \o <<n + 1>> /\ Append(c, n + 1) \in Seq(Nat)
          /\ Append(b \o c, n + 1) = (b \o c) \o <<n + 1>>
      BY <2>1, <3>1, AppendIsConcat, AppendProperties
    <3> QED
      BY <3>1, <3>2, ConcatAssociative
  <2>4. /\ lines' = n + 1 /\ buffer' = b /\ heard' = h
        /\ chan' = Append(c, n + 1) \/ chan' = c
    BY <1>1, <1>4 DEF LogCallback
  <2>5. n + 1 \in Nat /\ h <= n + 1
    BY <1>2
  <2>6. buffer' \in Seq(Nat) /\ chan' \in Seq(Nat) /\ Rising(h, b \o chan', n + 1)
    BY <2>2, <2>3, <2>4
  <2> QED
    BY <2>4, <2>5, <2>6 DEF CapabilityLines
<1>5. CASE LogTask
  <2>1. /\ buffer' = Append(b, Head(c)) /\ chan' = Tail(c) /\ c # <<>>
        /\ heard' = h /\ lines' = n
    BY <1>1, <1>5 DEF LogTask, history
  <2>2. buffer' \in Seq(Nat) /\ chan' \in Seq(Nat) /\ buffer' \o chan' = b \o c
    <3>1. /\ Append(b, Head(c)) \o Tail(c) = b \o c
          /\ Append(b, Head(c)) \in Seq(Nat) /\ Tail(c) \in Seq(Nat)
      BY <2>1, LineMoves
    <3> QED
      BY <2>1, <3>1
  <2>3. Rising(h, buffer' \o chan', n)
    BY <1>2, <2>2
  <2> QED
    BY <1>2, <2>1, <2>2, <2>3 DEF CapabilityLines
<1>6. CASE UnpackLogs
  <2>1. /\ buffer' = <<>> /\ chan' = c /\ lines' = n
        /\ heard' = IF b = <<>> THEN h ELSE b[Len(b)]
    BY <1>1, <1>6 DEF UnpackLogs
  <2>2. heard' \in Nat /\ heard' <= n /\ Rising(heard', <<>> \o c, n)
    BY <1>2, <2>1, RisingTaken
  <2> QED
    BY <2>1, <2>2 DEF CapabilityLines
<1> QED
  BY <1>3, <1>4, <1>5, <1>6

-----------------------------------------------------------------------------
\* What the statuses of results are read as.
LEMMA Statuses3 ==
    /\ Ok # UserError /\ Encode(CodePanic) = <<"none", "CodeError">>
    /\ ParseAsError(Ok) = None /\ ParseAsError(UserError) = None
    /\ ParseAsError(Encode(CodePanic)) = CodePanic
    /\ {Ok, UserError, Encode(CodePanic), CodePanic} \subseteq Statuses
<1>1. /\ Ok # UserError /\ Encode(CodePanic) = <<"none", "CodeError">>
  BY DEF Ok, UserError, Encode, CodePanic
<1>2. ParseAsError(Ok) = None
  BY DEF Ok, ParseAsError, Kinds
<1>3. ParseAsError(UserError) = None
  BY DEF UserError, ParseAsError, Kinds
<1>4. ParseAsError(<<"none", "CodeError">>) = CodePanic
  BY DEF ParseAsError, Kinds
<1>5. {Ok, UserError, <<"none", "CodeError">>, CodePanic} \subseteq Statuses
  BY DEF Statuses, Kinds, Ok, UserError, CodePanic
<1> QED
  BY <1>1, <1>2, <1>3, <1>4, <1>5

\* What a capability's method sends back is never read as an unknown error.
LEMMA CapabilityErrors ==
    ASSUME NEW outcome \in {"value", "failure", "panic", "garbled"}
    PROVE  ParseAsError(ExecuteSafe(outcome)) \in
               {None, <<"none", "CodePanic">>, <<"remote", "Deserialization">>}
<1>1. ParseAsError(<<"remote", "Deserialization">>) = <<"remote", "Deserialization">>
  BY DEF ParseAsError, Kinds
<1>2. Encode(<<"local", "Deserialization">>) = <<"remote", "Deserialization">>
  BY DEF Encode
<1>3. \/ ExecuteSafe(outcome) = Ok \/ ExecuteSafe(outcome) = UserError
      \/ ExecuteSafe(outcome) = Encode(CodePanic)
      \/ ExecuteSafe(outcome) = <<"remote", "Deserialization">>
  BY <1>2 DEF ExecuteSafe
<1> QED
  BY <1>1, <1>3, Statuses3 DEF CodePanic

-----------------------------------------------------------------------------
\* A step of the user function: it goes on, or it is cut off by its own panic
\* or by an error of its capability.
GoesOn == at' = "guest" /\ UNCHANGED <<error, cut>>
CutOff ==
    /\ at' = "trapped" /\ cut' = (cut \/ op.sid # None)
    /\ \/ op'.did = "panic" /\ op'.trap = <<"none", "Unknown">> /\ error' = op.n
       \/ op'.did = "capability" /\ op'.trap # <<"none", "Unknown">> /\ error' = error
GuestStep ==
    /\ Up /\ at = "guest" /\ input' \subseteq input
    /\ UNCHANGED <<module, output, sessIn, sessOut, locked, states, answer, heard, sent, owed, dropped>>
    /\ op' \in OpRecords /\ op'.n = op.n /\ op'.sid = op.sid /\ op'.saw = op.saw
    /\ GoesOn \/ CutOff
    /\ modLog' = dropped \o Lines(op'.n, op'.said)
    /\ UNCHANGED <<buffer, chan, lines>> \/ LogCallback

\* The call is cut off.
LEMMA TrapStep ==
    ASSUME op \in OpRecords, NEW did \in Dids, NEW e \in Statuses, Trap(did, e)
    PROVE  /\ at' = "trapped" /\ cut' = (cut \/ op.sid # None) /\ op' \in OpRecords
           /\ op'.n = op.n /\ op'.sid = op.sid /\ op'.saw = op.saw /\ op'.said = op.said
           /\ op'.did = did /\ op'.trap = e
<1>1. op' = [op EXCEPT !.did = did, !.trap = e] /\ at' = "trapped" /\ cut' = (cut \/ op.sid # None)
  BY DEF Trap
<1>2. op' \in OpRecords
  BY <1>1 DEF OpRecords
<1> QED
  BY <1>1, <1>2 DEF OpRecords

\* The call is cut off by a panic of its own, which the guest keeps.
LEMMA PanicStep ==
    ASSUME op \in OpRecords, StoreError
    PROVE  /\ CutOff /\ op' \in OpRecords
           /\ op'.n = op.n /\ op'.sid = op.sid /\ op'.saw = op.saw /\ op'.said = op.said
<1>1. Trap("panic", <<"none", "Unknown">>) /\ error' = op.n
  BY DEF StoreError
<1>2. <<"none", "Unknown">> \in Statuses /\ "panic" \in Dids
  BY DEF Statuses, Dids
<1> QED
  BY <1>1, <1>2, TrapStep DEF CutOff

\* The call goes on.
LEMMA GoOnStep ==
    ASSUME op \in OpRecords, at = "guest", GoOn
    PROVE  /\ GoesOn /\ op' \in OpRecords
           /\ op'.n = op.n /\ op'.sid = op.sid /\ op'.saw = op.saw /\ op'.said = op.said
<1>1. op' = [op EXCEPT !.effects = op.effects + 1] /\ UNCHANGED <<at, error, cut>>
  BY DEF GoOn
<1>2. op.effects + 1 \in Nat
  BY DEF OpRecords
<1>3. op' \in OpRecords
  BY <1>1, <1>2 DEF OpRecords
<1> QED
  BY <1>1, <1>3 DEF OpRecords, GoesOn

\* All effects of the user function are such steps.
LEMMA GuestSteps ==
    ASSUME Types, ModuleLines,
           \/ Log \/ CallCapability \/ RegisterClient \/ LoseCapability \/ CallPlaybook \/ Panic
    PROVE  GuestStep
<1>1. /\ op \in OpRecords /\ Up /\ at = "guest" /\ dropped \in Seq(Nat \X Nat)
      /\ modLog = dropped \o Lines(op.n, op.said)
  BY DEF Types, ModuleLines, Log, CallCapability, RegisterClient, LoseCapability, CallPlaybook, Panic,
         Acts, Running
<1>2. \A buf : GetInput(NewInput(buf), buf) \subseteq input
  BY DEF GetInput, NewInput
<1>3. CASE Log
  <2>1. /\ modLog' = Append(modLog, <<op.n, op.said + 1>>)
        /\ op' = [op EXCEPT !.said = op.said + 1, !.effects = op.effects + 1]
        /\ UNCHANGED <<module, at, input, output, sessIn, sessOut, locked, error, chan, buffer, lines,
                       states, answer, heard, sent, cut, owed, dropped>>
    BY <1>3 DEF Log, guest, history
  <2>2. op.n \in Nat /\ op.said \in Nat /\ op.said + 1 \in Nat /\ op.effects + 1 \in Nat
    BY <1>1 DEF OpRecords
  <2>3. op' \in OpRecords
    BY <1>1, <2>1, <2>2 DEF OpRecords
  <2>4. /\ op'.n = op.n /\ op'.sid = op.sid /\ op'.saw = op.saw /\ op'.said = op.said + 1
    BY <1>1, <2>1 DEF OpRecords
  <2>5. modLog' = dropped \o Lines(op'.n, op'.said)
    <3>1. modLog' = Append(dropped \o Lines(op.n, op.said), <<op.n, op.said + 1>>)
      BY <1>1, <2>1
    <3>2. Append(dropped \o Lines(op.n, op.said), <<op.n, op.said + 1>>)
             = dropped \o Lines(op.n, op.said + 1)
      BY <1>1, <2>2, LinesFollow
    <3> QED
      BY <2>4, <3>1, <3>2
  <2> QED
    BY <1>1, <2>1, <2>3, <2>4, <2>5 DEF GuestStep, GoesOn
<1>4. CASE Panic
  <2>1. /\ StoreError
        /\ UNCHANGED <<module, input, output, sessIn, sessOut, locked, modLog, chan, buffer, lines,
                       states, answer, heard, sent, owed, dropped>>
    BY <1>4 DEF Panic, logs
  <2> QED
    BY <1>1, <2>1, PanicStep DEF GuestStep
<1>5. CASE LoseCapability
  <2>1. /\ Trap("capability", <<"local", "Transport">>)
        /\ UNCHANGED <<module, input, output, sessIn, sessOut, locked, error, modLog, chan, buffer,
                       lines, states, answer, heard, sent, owed, dropped>>
    BY <1>5 DEF LoseCapability, guest, logs
  <2>2. <<"local", "Transport">> \in Statuses /\ <<"local", "Transport">> # <<"none", "Unknown">> /\ "capability" \in Dids
    BY DEF Dids, Statuses, Kinds
  <2> QED
    BY <1>1, <2>1, <2>2, TrapStep DEF GuestStep, CutOff
<1>6. CASE CallPlaybook
  <2>1. /\ input' \subseteq input
        /\ UNCHANGED <<module, output, sessIn, sessOut, locked, modLog, chan, buffer, lines,
                       states, answer, heard, sent, owed, dropped>>
    BY <1>2, <1>6 DEF CallPlaybook, logs
  <2>2. GoOn \/ StoreError
    BY <1>6 DEF CallPlaybook
  <2> QED
    BY <1>1, <2>1, <2>2, PanicStep, GoOnStep DEF GuestStep
<1>7. CASE CallCapability
  <2>1. PICK outcome \in {"value", "failure", "panic", "garbled"} :
           LET e == ParseAsError(ExecuteSafe(outcome))
               buf == <<"cap", op.n>>
           IN
           IF e # None
           THEN /\ Trap("capability", e)
                /\ UNCHANGED <<input, error>>
           ELSE /\ input' = GetInput(NewInput(buf), buf)
                /\ CallFromWasm(ExecuteSafe(outcome)) \/ CallResultFromWasm(ExecuteSafe(outcome))
    BY <1>7 DEF CallCapability
  <2>2. PICK e : e = ParseAsError(ExecuteSafe(outcome))
    OBVIOUS
  <2>3. /\ UNCHANGED <<module, output, sessIn, sessOut, locked, modLog, states, answer, heard, sent, owed, dropped>>
        /\ UNCHANGED <<buffer, chan, lines>> \/ LogCallback
    BY <1>7 DEF CallCapability, CapabilityLogs, LogCallback, logs
  <2>4. CASE e # None
    <3>1. Trap("capability", e) /\ UNCHANGED <<input, error>>
      BY <2>1, <2>2, <2>4
    <3>2. e \in Statuses /\ e # <<"none", "Unknown">> /\ "capability" \in Dids
      BY <2>2, <2>4, CapabilityErrors DEF Dids, Statuses, Kinds
    <3> QED
      BY <1>1, <2>3, <3>1, <3>2, TrapStep DEF GuestStep, CutOff
  <2>5. CASE e = None
    <3>1. input' \subseteq input /\ (GoOn \/ StoreError)
      BY <1>2, <2>1, <2>2, <2>5 DEF CallFromWasm, CallResultFromWasm
    <3> QED
      BY <1>1, <2>3, <3>1, PanicStep, GoOnStep DEF GuestStep
  <2> QED
    BY <2>4, <2>5
<1>8. CASE RegisterClient
  <2>1. PICK outcome \in {"value", "failure", "panic", "garbled"} :
           LET e == ParseAsError(ExecuteSafe(outcome))
               buf == <<"cap", op.n>>
           IN
           IF e # None
           THEN /\ Trap("capability", e)
                /\ UNCHANGED input
           ELSE /\ input' = GetInput(NewInput(buf), buf)
                /\ op' = [op EXCEPT !.effects = @ + 1]
                /\ UNCHANGED <<at, cut>>
    BY <1>8 DEF RegisterClient
  <2>2. PICK e : e = ParseAsError(ExecuteSafe(outcome))
    OBVIOUS
  <2>3. /\ UNCHANGED <<module, output, sessIn, sessOut, locked, error, modLog, states, answer, heard, sent, owed, dropped>>
        /\ UNCHANGED <<buffer, chan, lines>> \/ LogCallback
    BY <1>8 DEF RegisterClient, CapabilityLogs, LogCallback, logs
  <2>4. CASE e # None
    <3>1. Trap("capability", e) /\ UNCHANGED input
      BY <2>1, <2>2, <2>4
    <3>2. e \in Statuses /\ e # <<"none", "Unknown">> /\ "capability" \in Dids
      BY <2>2, <2>4, CapabilityErrors DEF Dids, Statuses, Kinds
    <3> QED
      BY <1>1, <2>3, <3>1, <3>2, TrapStep DEF GuestStep, CutOff
  <2>5. CASE e = None
    <3>1. input' \subseteq input /\ GoOn
      BY <1>2, <2>1, <2>2, <2>3, <2>5 DEF GoOn
    <3> QED
      BY <1>1, <2>3, <3>1, GoOnStep DEF GuestStep
  <2> QED
    BY <2>4, <2>5
<1> QED
  BY <1>3, <1>4, <1>5, <1>6, <1>7, <1>8

\* What the user function does leaves the sessions alone; what it leaves behind
\* when it is cut off is what the host will look for.
LEMMA GuestKeeps == ASSUME IInv, GuestStep PROVE IInv'
<1>1. /\ Up /\ at = "guest" /\ input' \subseteq input /\ op \in OpRecords
      /\ UNCHANGED <<module, output, sessIn, sessOut, locked, answer, heard, sent, dropped>>
      /\ op' \in OpRecords /\ op'.n = op.n /\ op'.sid = op.sid /\ op'.saw = op.saw
      /\ modLog' = dropped \o Lines(op'.n, op'.said)
  BY DEF GuestStep, IInv, Types
<1>2. CASE GoesOn
  <2>1. at' = "guest" /\ error' = error /\ cut' = cut
    BY <1>2 DEF GoesOn
  <2>2. Types'
    BY <1>1, <2>1 DEF IInv, Types
  <2>3. SessionsAgree'
    BY <1>1, <2>1 DEF IInv, SessionsAgree, Pending, Row
  <2>4. Registries'
    BY <1>1, <2>1 DEF IInv, Registries, Up
  <2> QED
    BY <1>1, <2>1, <2>2, <2>3, <2>4, LinesKeep
    DEF GuestStep, IInv, Outcomes, ModuleLines, AnswersAreOwn
<1>3. CASE CutOff
  <2>1. /\ at' = "trapped" /\ cut' = (cut \/ op.sid # None)
        /\ \/ op'.did = "panic" /\ op'.trap = <<"none", "Unknown">> /\ error' = op.n
           \/ op'.did = "capability" /\ op'.trap # <<"none", "Unknown">> /\ error' = error
    BY <1>3 DEF CutOff
  <2>2. Types'
    <3>1. cut' \in BOOLEAN
      BY <2>1
    <3>2. error' \in Nat \cup {None}
      BY <1>1, <2>1 DEF IInv, Types, OpRecords
    <3> QED
      BY <1>1, <2>1, <3>1, <3>2 DEF IInv, Types
  <2>3. SessionsAgree'
    BY <1>1, <2>1 DEF IInv, SessionsAgree, Pending, Row
  <2>4. Registries'
    <3>1. input' \subseteq {Specs} /\ output' \subseteq {} /\ Up'
      BY <1>1 DEF IInv, Registries, Up
    <3>2. locked' => cut'
      BY <1>1, <2>1 DEF IInv, Registries
    <3>3. module'.errors /\ error' # None => op'.did = "panic"
      BY <1>1, <2>1 DEF IInv, Registries
    <3>4. /\ module'.kind = "function" => op'.sid = None /\ ~locked'
          /\ module'.kind # "function" => op'.sid # None
      BY <1>1 DEF IInv, Registries
    <3> QED
      BY <2>1, <3>1, <3>2, <3>3, <3>4 DEF Registries
  <2>5. Outcomes'
    BY <1>1, <2>1 DEF Outcomes
  <2> QED
    BY <1>1, <2>1, <2>2, <2>3, <2>4, <2>5, LinesKeep
    DEF GuestStep, IInv, ModuleLines, AnswersAreOwn
<1> QED
  BY <1>2, <1>3 DEF GuestStep

-----------------------------------------------------------------------------
\* A module that is made, or not, has answered nothing.
LEMMA InstantiateKeeps == ASSUME IInv, Instantiate PROVE IInv'
<1>1. /\ module = None
      /\ UNCHANGED <<at, op, output, sessIn, sessOut, locked, error, modLog, chan, buffer, lines,
                     answer, heard, sent, cut, dropped>>
  BY DEF Instantiate, logs, history
<1>2. /\ at = "idle" /\ error = None /\ ~locked /\ op.sid = None /\ answer = None
  BY <1>1 DEF IInv, Registries, Up
<1>3. input' \subseteq {Specs}
  <2>1. input \subseteq {Specs}
    BY DEF IInv, Registries
  <2> QED
    BY <2>1 DEF Instantiate, AddPlaybooks, GetInput, NewInput
<1>4. Types'
  BY <1>1 DEF IInv, Types
<1>5. SessionsAgree'
  BY <1>1, <1>2 DEF IInv, SessionsAgree, Pending
<1>6. Registries'
  BY <1>1, <1>2, <1>3 DEF IInv, Registries
<1> QED
  BY <1>1, <1>2, <1>4, <1>5, <1>6, LinesKeep DEF IInv, Outcomes, ModuleLines, AnswersAreOwn

\* The record of a call that begins.
LEMMA Begins ==
    ASSUME op \in OpRecords, NEW sid \in Sessions \cup {None}
    PROVE  /\ Begin(sid) \in OpRecords /\ Begin(sid).n = op.n + 1 /\ Begin(sid).sid = sid
           /\ Begin(sid).said = 0 /\ Begin(sid).saw = <<>>
<1>1. /\ op.n + 1 \in Nat /\ op.effects \in Nat /\ 0 \in Nat /\ "nothing" \in Dids
      /\ <<>> \in {<<>>} \cup (Seq(Rows) \X Seq(Rows))
      /\ None \in {None} \cup (Statuses \X Nat) /\ None \in {None} \cup Statuses
  BY DEF OpRecords, Dids
<1>2. PICK none \in OpRecords : none = NoOp
  BY <1>1 DEF NoOp, OpRecords
<1>3. none.said = 0 /\ none.saw = <<>>
  BY <1>2 DEF NoOp
<1>4. PICK m \in Nat, e \in Nat : m = op.n + 1 /\ e = op.effects
  BY <1>1
<1>5. Begin(sid) = [none EXCEPT !.n = m, !.sid = sid, !.effects = e]
  BY <1>2, <1>4 DEF Begin
<1>6. [none EXCEPT !.n = m, !.sid = sid, !.effects = e] \in OpRecords
  BY DEF OpRecords
<1> QED
  BY <1>3, <1>4, <1>5, <1>6 DEF OpRecords

\* A plain function is called: no mutex is held and no panic kept.
LEMMA CallKeeps == ASSUME IInv, Call PROVE IInv'
<1>1. /\ Up /\ module.kind = "function" /\ at = "idle" /\ at' = "guest" /\ op' = Begin(None)
      /\ UNCHANGED <<module, output, sessIn, sessOut, locked, error, modLog, chan, buffer, lines,
                     answer, heard, sent, cut, dropped>>
  BY DEF Call, logs, history
<1>2. /\ op' \in OpRecords /\ op'.sid = None /\ op'.said = 0 /\ op'.n \in Nat
  <2>1. /\ op' \in OpRecords /\ op'.sid = None /\ op'.said = 0
    BY <1>1, Begins DEF IInv, Types
  <2> QED
    BY <2>1 DEF OpRecords
<1>3. input' \subseteq {Specs}
  BY DEF Call, GetInput, NewInput, IInv, Registries
<1>4. Types'
  BY <1>1, <1>2 DEF IInv, Types
<1>5. SessionsAgree'
  BY <1>1, <1>2 DEF IInv, SessionsAgree, Pending
<1>6. Registries'
  BY <1>1, <1>2, <1>3 DEF IInv, Registries, Up
<1>7. ModuleLines'
  BY <1>1, <1>2, LinesFollow DEF IInv, ModuleLines
<1> QED
  BY <1>1, <1>2, <1>4, <1>5, <1>6, <1>7, LinesKeep DEF IInv, Outcomes, AnswersAreOwn

\* The function of a plain module returns a result of its own.
LEMMA ReturnKeeps == ASSUME IInv, Return PROVE IInv'
<1>1. /\ Up /\ at = "guest" /\ module.kind = "function" /\ at' = "returned"
      /\ output' = ToOutput(<<"out", op.n>>)
      /\ UNCHANGED <<module, input, sessIn, sessOut, locked, error, modLog, chan, buffer, lines,
                     answer, heard, sent, cut, dropped>>
  BY DEF Return, Running, logs, history
<1>2. PICK did \in {"value", "failure"}, status \in {Ok, UserError} :
         /\ op' = [op EXCEPT !.did = did, !.result = <<status, op.n>>]
         /\ status = IF did = "value" THEN Ok ELSE UserError
  BY DEF Return
<1>3. op \in OpRecords /\ op.n \in Nat
  BY DEF IInv, Types, OpRecords
<1>4. /\ op' \in OpRecords
      /\ op'.n = op.n /\ op'.sid = op.sid /\ op'.saw = op.saw /\ op'.said = op.said
      /\ op'.did = did /\ op'.result = <<status, op.n>>
  <2>1. status \in Statuses /\ did \in Dids
    BY Statuses3 DEF Dids
  <2>2. <<status, op.n>> \in Statuses \X Nat
    BY <1>3, <2>1
  <2>3. op' \in OpRecords
    BY <1>2, <1>3, <2>1, <2>2 DEF OpRecords
  <2> QED
    BY <1>2, <1>3, <2>3 DEF OpRecords
<1>5. op.sid = None /\ ~locked
  BY <1>1 DEF IInv, Registries
<1>6. Types'
  BY <1>1, <1>4 DEF IInv, Types
<1>7. SessionsAgree'
  <2>1. \A sid \in Sessions : ~Pending(sid) /\ ~Pending(sid)'
    BY <1>1, <1>4, <1>5, NoneAssumption DEF Pending
  <2> QED
    BY <1>1, <2>1 DEF IInv, SessionsAgree
<1>8. Registries'
  <2>1. output' \subseteq {<<"out", op'.n>>}
    BY <1>1, <1>4 DEF IInv, Registries, ToOutput
  <2>2. error # None => ~module.errors
    BY <1>1 DEF IInv, Registries
  <2> QED
    BY <1>1, <1>4, <1>5, <2>1, <2>2 DEF IInv, Registries, Up
<1>9. Outcomes'
  BY <1>1, <1>2, <1>4 DEF Outcomes
<1>10. ModuleLines'
  BY <1>1, <1>4 DEF IInv, ModuleLines
<1> QED
  BY <1>1, <1>6, <1>7, <1>8, <1>9, <1>10, LinesKeep DEF IInv, AnswersAreOwn

-----------------------------------------------------------------------------
\* What a call may be answered, and the lines of the module it is answered with.
Right(o, m, result) ==
    CASE o.did \in {"value", "end", "terminate"} -> result = <<"value", o.n>>
      [] o.did = "failure" -> result = <<"user", o.n>>
      [] o.did = "panic" -> result = IF m.errors THEN <<"user", o.n>>
                                     ELSE <<"pyro", <<"none", "Unknown">>>>
      [] o.did = "capability" -> result[1] = "pyro" /\ result[2] # <<"none", "Unknown">>
      [] o.did \in {"refused", "locked"} -> result[1] # "value"
LinesOf(o, result, late) ==
    IF o.sid # None /\ result[1] = "user" /\ o.did \in {"failure", "refused"}
    THEN <<>> ELSE late \o Lines(o.n, o.said)

\* An answer with the right result and lines is the call's own.
LEMMA Answered ==
    ASSUME CapabilityLines, UNCHANGED module, NEW result, Right(op', module, result),
           \/ Answer(result) /\ modLog = LinesOf(op', result, dropped)
           \/ AnswerStripped(result) /\ LinesOf(op', result, dropped) = <<>>
    PROVE  AnswersAreOwn' /\ CapabilityLines' /\ modLog' = <<>> /\ dropped' = <<>>
<1>1. PICK caps \in {buffer, <<>>} :
         answer' = [n |-> op'.n, result |-> result, module |-> LinesOf(op', result, dropped),
                    caps |-> caps, after |-> heard, late |-> dropped]
  BY DEF Answer, AnswerStripped
<1>2. UnpackLogs
  BY DEF Answer, AnswerStripped
<1>3. CapabilityLines' /\ modLog' = <<>> /\ dropped' = <<>> /\ lines' = lines
  BY <1>2, LinesKeep DEF UnpackLogs
<1>4. PICK b \in Seq(Nat), c \in Seq(Nat), h \in Nat, n \in Nat :
         /\ b = buffer /\ c = chan /\ h = heard /\ n = lines
         /\ h <= n /\ Rising(h, b \o c, n)
  BY DEF CapabilityLines
<1>5. Rising(h, b, n)
  BY <1>4, RisingTaken
<1>6. \A i \in DOMAIN caps : caps[i] > (IF i = 1 THEN h ELSE caps[i - 1]) /\ caps[i] <= n
  <2>1. CASE caps = b
    <3>1. DOMAIN b = 1..Len(b) /\ Len(b) \in Nat /\ \A i \in 1..Len(b) : b[i] \in Nat
      OBVIOUS
    <3>2. ASSUME NEW i \in 1..Len(b) PROVE b[i] > (IF i = 1 THEN h ELSE b[i - 1]) /\ b[i] <= n
      <4>1. i # 1 => i - 1 \in 1..Len(b) /\ i - 1 < i
        BY <3>1
      <4> QED
        BY <1>5, <3>1, <4>1 DEF Rising
    <3> QED
      BY <2>1, <3>1, <3>2
  <2>2. CASE caps = <<>>
    BY <2>2
  <2> QED
    BY <1>1, <1>4, <2>1, <2>2
<1>7. /\ answer'.n = op'.n /\ answer'.result = result /\ answer'.module = LinesOf(op', result, dropped)
      /\ answer'.late = dropped
      /\ answer'.caps = caps /\ answer'.after = h /\ lines' = n /\ module' = module
  BY <1>1, <1>3, <1>4
<1>8. AnswersAreOwn'
  <2>1. \A i \in DOMAIN answer'.caps :
           /\ answer'.caps[i] > (IF i = 1 THEN answer'.after ELSE answer'.caps[i - 1])
           /\ answer'.caps[i] <= lines'
    BY <1>6, <1>7
  <2>2. /\ answer'.n = op'.n
        /\ Right(op', module', answer'.result)
        /\ answer'.module = LinesOf(op', answer'.result, answer'.late)
    BY <1>7
  <2> QED
    BY <2>1, <2>2 DEF AnswersAreOwn, Right, LinesOf
<1> QED
  BY <1>3, <1>8

\* The record of a call whose rows the guest has no longer.
LEMMA Forgets ==
    ASSUME op \in OpRecords, op' = [op EXCEPT !.saw = <<>>]
    PROVE  /\ op' \in OpRecords /\ op'.n = op.n /\ op'.sid = op.sid /\ op'.said = op.said
           /\ op'.did = op.did
BY DEF OpRecords

\* What the host makes of the status and the place of a result.
LEMMA Parsing ==
    ASSUME NEW n
    PROVE  /\ Parsed(Ok, n) = <<"value", n>> /\ Parsed(UserError, n) = <<"user", n>>
           /\ Parsed(Encode(CodePanic), n) = <<"pyro", CodePanic>>
<1>1. CodePanic # None
  BY Statuses3, NoneAssumption
<1>2. /\ Encode(CodePanic) # Ok /\ Encode(CodePanic) # UserError
  BY Statuses3 DEF Ok, UserError
<1>3. Parsed(Ok, n) = <<"value", n>>
  BY Statuses3 DEF Parsed
<1>4. Parsed(UserError, n) = <<"user", n>>
  BY Statuses3 DEF Parsed
<1>5. Parsed(Encode(CodePanic), n) = <<"pyro", CodePanic>>
  BY <1>1, <1>2, Statuses3 DEF Parsed
<1> QED
  BY <1>3, <1>4, <1>5

\* A trap is answered with the guest's own panic, or the error of the host.
LEMMA PanicRead == ASSUME IInv, ReadPanic PROVE IInv'
<1>1. /\ Up /\ at = "trapped" /\ at' = "idle" /\ op' = [op EXCEPT !.saw = <<>>]
      /\ error' = IF module.errors THEN None ELSE error
      /\ UNCHANGED <<module, input, output, sessIn, sessOut, locked, sent, cut>>
  BY DEF ReadPanic, FreeError
<1>2. /\ op \in OpRecords /\ op' \in OpRecords /\ op'.n = op.n /\ op'.sid = op.sid
      /\ op'.said = op.said /\ op'.did = op.did
  BY <1>1, Forgets DEF IInv, Types
<1>3. /\ op.n \in Nat /\ op.n # None
      /\ \/ op.did = "panic" /\ op.trap = <<"none", "Unknown">> /\ error = op.n
         \/ op.did = "capability" /\ op.trap # <<"none", "Unknown">>
      /\ module.errors /\ op.did = "capability" => error = None
  <2>1. op.n \in Nat
    BY <1>2 DEF OpRecords
  <2>2. /\ \/ op.did = "panic" /\ op.trap = <<"none", "Unknown">> /\ error = op.n
           \/ op.did = "capability" /\ op.trap # <<"none", "Unknown">>
    BY <1>1 DEF IInv, Outcomes
  <2>3. module.errors /\ error # None => op.did = "panic"
    BY <1>1 DEF IInv, Registries
  <2> QED
    BY <2>1, <2>2, <2>3, NoneAssumption
<1>4. PICK result : /\ Answer(result)
                    /\ result = IF GetPanicError # None THEN <<"user", GetPanicError>>
                                ELSE <<"pyro", op.trap>>
  <2>1. IF GetPanicError # None THEN Answer(<<"user", GetPanicError>>)
        ELSE Answer(<<"pyro", op.trap>>)
    BY DEF ReadPanic
  <2> QED
    BY <2>1, Zenon
<1>5. Right(op', module, result)
  <2>1. CASE op.did = "panic"
    BY <1>2, <1>3, <1>4, <2>1 DEF Right, GetPanicError
  <2>2. CASE op.did = "capability"
    <3>1. GetPanicError = None
      BY <1>3, <2>2 DEF GetPanicError
    <3> QED
      BY <1>2, <1>3, <1>4, <2>2, <3>1 DEF Right
  <2> QED
    BY <1>3, <2>1, <2>2
<1>6. modLog = LinesOf(op', result, dropped)
  BY <1>1, <1>2, <1>3 DEF IInv, ModuleLines, LinesOf
<1>7. AnswersAreOwn' /\ CapabilityLines' /\ modLog' = <<>> /\ dropped' = <<>>
  BY <1>1, <1>4, <1>5, <1>6, Answered DEF IInv
<1>8. Types'
  BY <1>1, <1>2 DEF IInv, Types
<1>9. SessionsAgree'
  BY <1>1 DEF IInv, SessionsAgree, Pending
<1>10. Registries'
  BY <1>1, <1>2 DEF IInv, Registries, Up
<1> QED
  BY <1>1, <1>7, <1>8, <1>9, <1>10, EmptySeq DEF IInv, Outcomes, ModuleLines

\* A result is answered; a row that was pending is the client's from now on.
LEMMA OutputRead == ASSUME IInv, ReadOutput PROVE IInv'
<1> DEFINE result == Parsed(op.result[1], op.result[2])
<1>1. /\ Up /\ at = "returned" /\ at' = "idle" /\ op' = [op EXCEPT !.saw = <<>>]
      /\ output' = FreeOutput(<<"out", op.n>>)
      /\ UNCHANGED <<module, input, sessIn, sessOut, locked, error, cut>>
      /\ IF op.sid # None /\ result[1] = "user" THEN AnswerStripped(result) ELSE Answer(result)
  BY DEF ReadOutput
<1>2. /\ op \in OpRecords /\ op' \in OpRecords /\ op'.n = op.n /\ op'.sid = op.sid
      /\ op'.said = op.said /\ op'.did = op.did
  BY <1>1, Forgets DEF IInv, Types
<1>3. \/ op.did \in {"value", "end", "terminate"} /\ op.result = <<Ok, op.n>>
      \/ op.did = "failure" /\ op.result = <<UserError, op.n>>
      \/ /\ op.did = "refused" /\ op.said = 0
         /\ op.result \in {<<UserError, op.n>>, <<Encode(CodePanic), op.n>>}
  BY <1>1 DEF IInv, Outcomes
<1>4. /\ op.did \in {"value", "end", "terminate"} => result = <<"value", op.n>>
      /\ op.did = "failure" => result = <<"user", op.n>>
      /\ op.did = "refused" => result[1] \in {"user", "pyro"}
  BY <1>3, Parsing
<1>5. result[1] = "value" <=> op.result[1] = Ok
  BY <1>3, <1>4, Statuses3 DEF Ok
<1> HIDE DEF result
<1>6. Right(op', module, result)
  BY <1>2, <1>3, <1>4 DEF Right
<1>7. \/ Answer(result) /\ modLog = LinesOf(op', result, dropped)
      \/ AnswerStripped(result) /\ LinesOf(op', result, dropped) = <<>>
  <2>1. modLog = dropped \o Lines(op.n, op.said)
    BY <1>1 DEF IInv, ModuleLines
  <2>2. CASE op.sid # None /\ result[1] = "user"
    <3>1. op'.did \in {"failure", "refused"} /\ AnswerStripped(result)
      BY <1>1, <1>2, <1>3, <1>4, <2>2
    <3> QED
      BY <1>2, <2>2, <3>1 DEF LinesOf
  <2>3. CASE ~(op.sid # None /\ result[1] = "user")
    BY <1>1, <1>2, <2>1, <2>3 DEF LinesOf
  <2> QED
    BY <2>2, <2>3
<1>8. AnswersAreOwn' /\ CapabilityLines' /\ modLog' = <<>> /\ dropped' = <<>>
  BY <1>1, <1>6, <1>7, Answered DEF IInv
<1>9. /\ sent' \in [Sessions -> Seq(Rows) \X Seq(Rows)]
      /\ \A sid \in Sessions : sent'[sid] = <<sessIn[sid], sessOut[sid]>>
  <2>1. IF op.sid = None \/ result[1] # "value" THEN sent' = sent
        ELSE sent' = [sent EXCEPT ![op.sid] =
                        IF module.kind = "session" THEN <<Append(sent[op.sid][1], Row), sent[op.sid][2]>>
                        ELSE <<sent[op.sid][1], Append(sent[op.sid][2], Row)>>]
    BY DEF ReadOutput, result, Row
  <2>2. CASE op.sid = None \/ result[1] # "value"
    <3>1. \A sid \in Sessions : ~Pending(sid)
      BY <1>5, <2>2, NoneAssumption DEF Pending
    <3> QED
      BY <2>1, <2>2, <3>1 DEF IInv, Types, SessionsAgree
  <2>3. CASE ~(op.sid = None \/ result[1] # "value")
    <3>1. op.sid \in Sessions /\ Pending(op.sid)
      BY <1>1, <1>2, <1>5, <2>3 DEF OpRecords, Pending
    <3>2. sent' = [sent EXCEPT ![op.sid] = <<sessIn[op.sid], sessOut[op.sid]>>]
      <4>1. <<sessIn[op.sid], sessOut[op.sid]>> =
               IF module.kind = "session" THEN <<Append(sent[op.sid][1], Row), sent[op.sid][2]>>
               ELSE <<sent[op.sid][1], Append(sent[op.sid][2], Row)>>
        BY <3>1 DEF IInv, SessionsAgree
      <4> QED
        BY <2>1, <2>3, <4>1, Zenon
    <3>3. /\ sent \in [Sessions -> Seq(Rows) \X Seq(Rows)]
          /\ \A sid \in Sessions : sessIn[sid] \in Seq(Rows) /\ sessOut[sid] \in Seq(Rows)
      BY DEF IInv, Types
    <3>4. \A sid \in Sessions : sid # op.sid => sent[sid] = <<sessIn[sid], sessOut[sid]>>
      BY DEF IInv, SessionsAgree, Pending
    <3> QED
      BY <3>1, <3>2, <3>3, <3>4
  <2> QED
    BY <2>2, <2>3
<1>10. Types'
  BY <1>1, <1>2, <1>9 DEF IInv, Types
<1>11. SessionsAgree'
  BY <1>1, <1>9 DEF SessionsAgree, Pending
<1>12. Registries'
  <2>1. output' \subseteq {}
    BY <1>1 DEF IInv, Registries, FreeOutput
  <2> QED
    BY <1>1, <1>2, <2>1 DEF IInv, Registries, Up
<1> QED
  BY <1>1, <1>8, <1>10, <1>11, <1>12, EmptySeq DEF IInv, Outcomes, ModuleLines

-----------------------------------------------------------------------------
\* A line that comes from the channel disturbs no call.
LEMMA LogTaskKeeps == ASSUME IInv, LogTask PROVE IInv'
<1>1. UNCHANGED <<module, at, op, input, output, sessIn, sessOut, locked, error, modLog, lines, answer,
                  heard, sent, cut, dropped>>
  BY DEF LogTask, guest, history
<1>2. CapabilityLines'
  BY LinesKeep DEF IInv
<1>3. Types' /\ Outcomes'
  BY <1>1 DEF IInv, Types, Outcomes
<1>4. SessionsAgree'
  BY <1>1 DEF IInv, SessionsAgree, Pending, Row
<1>5. Registries' /\ ModuleLines' /\ AnswersAreOwn'
  BY <1>1 DEF IInv, Registries, Up, ModuleLines, AnswersAreOwn
<1> QED
  BY <1>2, <1>3, <1>4, <1>5 DEF IInv

\* A session is closed: both sides forget its rows, unless its mutex is held.
LEMMA CloseKeeps == ASSUME IInv, NEW sid \in Sessions, CloseSession(sid) PROVE IInv'
<1>1. /\ Up /\ module.kind # "function" /\ at = "idle"
      /\ UNCHANGED <<module, at, op, input, output, locked, answer, cut>>
  BY DEF CloseSession
<1>2. CapabilityLines' /\ ModuleLines' /\ lines' = lines
  <2>1. modLog = dropped /\ dropped \in Seq(Nat \X Nat) /\ <<>> \in Seq(Nat \X Nat)
    BY <1>1, EmptySeq DEF IInv, ModuleLines
  <2>2. modLog' = dropped' /\ dropped' \in {<<>>, dropped}
    BY <2>1 DEF CloseSession, logs, UnpackLogs
  <2>3. ModuleLines'
    BY <1>1, <2>1, <2>2 DEF ModuleLines
  <2> QED
    BY <2>3, LinesKeep DEF CloseSession, logs, UnpackLogs, IInv
<1>3. AnswersAreOwn'
  BY <1>1, <1>2 DEF IInv, AnswersAreOwn
<1>4. op.n \in Nat
  BY DEF IInv, Types, OpRecords
<1>5. CASE locked
  <2>1. error' = op.n /\ UNCHANGED <<sessIn, sessOut, sent>>
    BY <1>5 DEF CloseSession
  <2>2. Types'
    BY <1>1, <1>4, <2>1 DEF IInv, Types
  <2>3. SessionsAgree'
    BY <1>1, <2>1 DEF IInv, SessionsAgree, Pending
  <2>4. Registries'
    BY <1>1, <1>5, <2>1 DEF IInv, Registries, Up
  <2> QED
    BY <1>1, <1>2, <1>3, <2>2, <2>3, <2>4 DEF IInv, Outcomes
<1>6. CASE ~locked
  <2>1. /\ sessIn' = [sessIn EXCEPT ![sid] = <<>>] /\ sessOut' = [sessOut EXCEPT ![sid] = <<>>]
        /\ sent' = [sent EXCEPT ![sid] = <<<<>>, <<>>>>] /\ error' = error
    BY <1>6 DEF CloseSession, FreeSession
  <2>2. /\ <<>> \in Seq(Rows) /\ <<<<>>, <<>>>> \in Seq(Rows) \X Seq(Rows)
    <3>1. <<>> \in Seq(Rows)
      BY EmptySeq
    <3> QED
      BY <3>1, Zenon
  <2>3. Types'
    BY <1>1, <2>1, <2>2 DEF IInv, Types
  <2>4. SessionsAgree'
    BY <1>1, <2>1 DEF IInv, Types, SessionsAgree, Pending
  <2>5. Registries'
    BY <1>1, <2>1 DEF IInv, Registries, Up
  <2> QED
    BY <1>1, <1>2, <1>3, <2>3, <2>4, <2>5 DEF IInv, Outcomes
<1> QED
  BY <1>5, <1>6

\* The guest's way to add a row, and the client's.
LEMMA RowAdded ==
    ASSUME NEW q \in Seq(Rows), NEW row \in Rows
    PROVE  q \o <<row>> = Append(q, row) /\ Append(q, row) \in Seq(Rows)
BY AppendIsConcat, AppendProperties

\* The rows of an earlier turn.
LEMMA TurnRows ==
    ASSUME NEW turns \in {<<>>, <<<<"old", 0>>>>}
    PROVE  LET outs == [i \in DOMAIN turns |-> <<"reply", 0>>] IN
           \E a \in Seq(Rows), b \in Seq(Rows) :
               /\ a = IF module.kind = "session" THEN turns \o outs ELSE turns
               /\ b = IF module.kind = "session" THEN <<>> ELSE outs
<1> DEFINE outs == [i \in DOMAIN turns |-> <<"reply", 0>>]
<1>1. <<"old", 0>> \in Rows /\ <<"reply", 0>> \in Rows
  BY DEF Rows
<1>2. turns \in Seq(Rows)
  <2>1. PICK old \in Rows : old = <<"old", 0>>
    BY <1>1
  <2>2. <<>> \in Seq(Rows) /\ <<old>> \in Seq(Rows)
    OBVIOUS
  <2> QED
    BY <2>1, <2>2, Zenon
<1>3. outs \in Seq(Rows)
  <2>1. DOMAIN turns = 1..Len(turns) /\ Len(turns) \in Nat
    BY <1>2
  <2> QED
    BY <1>1, <2>1
<1>4. turns \o outs \in Seq(Rows) /\ <<>> \in Seq(Rows)
  <2> HIDE DEF outs
  <2> QED
    BY <1>2, <1>3, ConcatProperties, EmptySeq
<1> QED
  BY <1>2, <1>3, <1>4

\* An earlier turn is loaded into the guest as the client has it.
LEMMA PrepKeeps == ASSUME IInv, NEW sid \in Sessions, PrepSession(sid) PROVE IInv'
<1>1. /\ Up /\ module.kind # "function" /\ at = "idle"
      /\ sessIn[sid] = <<>> /\ sessOut[sid] = <<>>
      /\ UNCHANGED <<module, at, op, input, output, locked, modLog, chan, buffer, lines, answer, heard, cut, dropped>>
  BY DEF PrepSession, logs
<1>2. CapabilityLines' /\ AnswersAreOwn' /\ Outcomes' /\ ModuleLines'
  BY <1>1, LinesKeep DEF IInv, AnswersAreOwn, Outcomes, ModuleLines
<1>3. PICK turns \in {<<>>, <<<<"old", 0>>>>} :
         LET outs == [i \in DOMAIN turns |-> <<"reply", 0>>]
             rows == IF module.kind = "session" THEN <<turns \o outs, <<>>>> ELSE <<turns, outs>>
         IN  \/ error' = op.n /\ UNCHANGED <<sessIn, sessOut, sent>> /\ locked
             \/ /\ sessIn' = NewSessionInput(sid, rows[1])
                /\ sessOut' = NewSessionOutput(sid, rows[2])
                /\ sent' = [sent EXCEPT ![sid] = rows]
                /\ UNCHANGED error
  BY DEF PrepSession
<1> DEFINE outs == [i \in DOMAIN turns |-> <<"reply", 0>>]
<1>4. PICK a \in Seq(Rows), b \in Seq(Rows) :
         /\ a = IF module.kind = "session" THEN turns \o outs ELSE turns
         /\ b = IF module.kind = "session" THEN <<>> ELSE outs
  BY TurnRows
<1>5. \/ error' = op.n /\ UNCHANGED <<sessIn, sessOut, sent>> /\ locked
      \/ /\ sessIn' = [sessIn EXCEPT ![sid] = a] /\ sessOut' = [sessOut EXCEPT ![sid] = b]
         /\ sent' = [sent EXCEPT ![sid] = <<a, b>>] /\ UNCHANGED error
  <2> DEFINE rows == IF module.kind = "session" THEN <<turns \o outs, <<>>>> ELSE <<turns, outs>>
  <2>1. rows = <<a, b>> /\ rows[1] = a /\ rows[2] = b
    BY <1>4
  <2>2. \/ error' = op.n /\ UNCHANGED <<sessIn, sessOut, sent>> /\ locked
        \/ /\ sessIn' = NewSessionInput(sid, rows[1]) /\ sessOut' = NewSessionOutput(sid, rows[2])
           /\ sent' = [sent EXCEPT ![sid] = rows] /\ UNCHANGED error
    BY <1>3, Zenon
  <2> HIDE DEF rows
  <2>3. <<>> \o a = a /\ <<>> \o b = b
    BY ConcatEmptySeq
  <2>4. \/ error' = op.n /\ UNCHANGED <<sessIn, sessOut, sent>> /\ locked
        \/ /\ sessIn' = [sessIn EXCEPT ![sid] = sessIn[sid] \o a]
           /\ sessOut' = [sessOut EXCEPT ![sid] = sessOut[sid] \o b]
           /\ sent' = [sent EXCEPT ![sid] = <<a, b>>] /\ UNCHANGED error
    BY <2>1, <2>2, Zenon DEF NewSessionInput, NewSessionOutput
  <2> QED
    BY <1>1, <2>3, <2>4, Zenon
<1>6. CASE error' = op.n /\ UNCHANGED <<sessIn, sessOut, sent>> /\ locked
  <2>1. op.n \in Nat
    BY DEF IInv, Types, OpRecords
  <2>2. Types' /\ SessionsAgree'
    BY <1>1, <1>6, <2>1 DEF IInv, Types, SessionsAgree, Pending
  <2>3. Registries'
    BY <1>1, <1>6 DEF IInv, Registries, Up
  <2> QED
    BY <1>2, <2>2, <2>3 DEF IInv
<1>7. CASE /\ sessIn' = [sessIn EXCEPT ![sid] = a] /\ sessOut' = [sessOut EXCEPT ![sid] = b]
           /\ sent' = [sent EXCEPT ![sid] = <<a, b>>] /\ UNCHANGED error
  <2>1. <<a, b>> \in Seq(Rows) \X Seq(Rows)
    OBVIOUS
  <2>2. Types'
    BY <1>1, <1>7, <2>1 DEF IInv, Types
  <2>3. SessionsAgree'
    BY <1>1, <1>7 DEF IInv, Types, SessionsAgree, Pending
  <2>4. Registries'
    BY <1>1, <1>7 DEF IInv, Registries, Up
  <2> QED
    BY <1>2, <2>2, <2>3, <2>4 DEF IInv
<1> QED
  BY <1>5, <1>6, <1>7

\* The function of a session returns: its row is pending until the host has it.
LEMMA ReturnSessionKeeps == ASSUME IInv, ReturnSession PROVE IInv'
<1>1. /\ Up /\ at = "guest" /\ module.kind # "function" /\ at' = "returned" /\ locked' = FALSE
      /\ UNCHANGED <<module, input, error, modLog, chan, buffer, lines, answer, heard, sent, cut, dropped>>
  BY DEF ReturnSession, Running, logs, history
<1>2. PICK did \in {"value", "end", "terminate", "failure"} :
         /\ op' = [op EXCEPT !.did = did,
                             !.result = <<IF did = "failure" THEN UserError ELSE Ok, op.n>>]
         /\ LET row == IF did = "terminate" THEN Empty ELSE <<"out", op.n>> IN
            IF did = "failure"
            THEN output' = ToOutput(<<"out", op.n>>) /\ UNCHANGED <<sessIn, sessOut>>
            ELSE IF module.kind = "session"
            THEN sessIn' = NewSessionInput(op.sid, <<row>>) /\ UNCHANGED <<output, sessOut>>
            ELSE sessOut' = NewSessionOutput(op.sid, <<row>>) /\ UNCHANGED <<output, sessIn>>
  BY DEF ReturnSession
<1>3. /\ op \in OpRecords /\ op.n \in Nat /\ op.sid \in Sessions
  <2>1. op \in OpRecords /\ op.sid # None
    BY <1>1 DEF IInv, Types, Registries
  <2> QED
    BY <2>1 DEF OpRecords
<1>4. PICK status \in {Ok, UserError} : status = IF did = "failure" THEN UserError ELSE Ok
  OBVIOUS
<1>5. /\ op' \in OpRecords
      /\ op'.n = op.n /\ op'.sid = op.sid /\ op'.said = op.said
      /\ op'.did = did /\ op'.result = <<status, op.n>>
  <2>1. status \in Statuses /\ did \in Dids
    BY Statuses3 DEF Dids
  <2>2. <<status, op.n>> \in Statuses \X Nat
    BY <1>3, <2>1
  <2>3. op' = [op EXCEPT !.did = did, !.result = <<status, op.n>>]
    BY <1>2, <1>4
  <2>4. op' \in OpRecords
    BY <1>3, <2>1, <2>2, <2>3 DEF OpRecords
  <2> QED
    BY <1>3, <2>3, <2>4 DEF OpRecords
<1>6. PICK row \in Rows : row = IF did = "terminate" THEN Empty ELSE <<"out", op.n>>
  <2>1. Empty \in Rows /\ <<"out", op.n>> \in Rows
    BY <1>3 DEF Rows, Empty
  <2> QED
    BY <2>1
<1>7. \/ /\ did = "failure" /\ output' = ToOutput(<<"out", op.n>>) /\ UNCHANGED <<sessIn, sessOut>>
      \/ /\ did # "failure" /\ module.kind = "session" /\ UNCHANGED <<output, sessOut>>
         /\ sessIn' = [sessIn EXCEPT ![op.sid] = Append(sessIn[op.sid], row)]
      \/ /\ did # "failure" /\ module.kind # "session" /\ UNCHANGED <<output, sessIn>>
         /\ sessOut' = [sessOut EXCEPT ![op.sid] = Append(sessOut[op.sid], row)]
  <2>1. PICK a \in Seq(Rows), b \in Seq(Rows) : a = sessIn[op.sid] /\ b = sessOut[op.sid]
    BY <1>3 DEF IInv, Types
  <2>2. a \o <<row>> = Append(a, row) /\ b \o <<row>> = Append(b, row)
    BY RowAdded
  <2>3. \/ /\ did = "failure" /\ output' = ToOutput(<<"out", op.n>>) /\ UNCHANGED <<sessIn, sessOut>>
        \/ /\ did # "failure" /\ module.kind = "session" /\ UNCHANGED <<output, sessOut>>
           /\ sessIn' = [sessIn EXCEPT ![op.sid] = sessIn[op.sid] \o <<row>>]
        \/ /\ did # "failure" /\ module.kind # "session" /\ UNCHANGED <<output, sessIn>>
           /\ sessOut' = [sessOut EXCEPT ![op.sid] = sessOut[op.sid] \o <<row>>]
    BY <1>2, <1>6 DEF NewSessionInput, NewSessionOutput
  <2> QED
    BY <2>1, <2>2, <2>3, Zenon
<1>8. Types'
  <2>1. \A q \in Seq(Rows) : Append(q, row) \in Seq(Rows)
    BY RowAdded
  <2>2. sessIn' \in [Sessions -> Seq(Rows)] /\ sessOut' \in [Sessions -> Seq(Rows)]
    <3>1. /\ sessIn \in [Sessions -> Seq(Rows)] /\ sessOut \in [Sessions -> Seq(Rows)]
      BY DEF IInv, Types
    <3>2. PICK a \in Seq(Rows), b \in Seq(Rows) :
             a = Append(sessIn[op.sid], row) /\ b = Append(sessOut[op.sid], row)
      BY <1>3, <2>1, <3>1
    <3>3. \/ sessIn' = sessIn \/ sessIn' = [sessIn EXCEPT ![op.sid] = a]
      BY <1>7, <3>2
    <3>4. \/ sessOut' = sessOut \/ sessOut' = [sessOut EXCEPT ![op.sid] = b]
      BY <1>7, <3>2
    <3> QED
      BY <3>1, <3>3, <3>4
  <2> QED
    BY <1>1, <1>5, <2>2 DEF IInv, Types
<1>9. \A sid \in Sessions : sent[sid] = <<sessIn[sid], sessOut[sid]>>
  BY <1>1 DEF IInv, SessionsAgree, Pending
<1>10. SessionsAgree'
  <2>1. \A sid \in Sessions : Pending(sid)' <=> sid = op.sid /\ did # "failure"
    BY <1>1, <1>4, <1>5, Statuses3 DEF Pending
  <2>2. Row' = row
    BY <1>5, <1>6 DEF Row
  <2>3. \A sid \in Sessions : sid # op.sid \/ did = "failure" =>
           sessIn'[sid] = sessIn[sid] /\ sessOut'[sid] = sessOut[sid]
    BY <1>3, <1>7 DEF IInv, Types
  <2>4. did # "failure" =>
           <<sessIn'[op.sid], sessOut'[op.sid]>> =
               IF module.kind = "session" THEN <<Append(sent[op.sid][1], row), sent[op.sid][2]>>
               ELSE <<sent[op.sid][1], Append(sent[op.sid][2], row)>>
    <3>1. PICK a, b : a = sessIn[op.sid] /\ b = sessOut[op.sid] /\ sent[op.sid] = <<a, b>>
      BY <1>3, <1>9
    <3>2. /\ sessIn \in [Sessions -> Seq(Rows)] /\ sessOut \in [Sessions -> Seq(Rows)]
      BY DEF IInv, Types
    <3>3. /\ did # "failure" /\ module.kind = "session" =>
                 sessOut'[op.sid] = b /\ sessIn'[op.sid] = Append(a, row)
          /\ did # "failure" /\ module.kind # "session" =>
                 sessIn'[op.sid] = a /\ sessOut'[op.sid] = Append(b, row)
      BY <1>3, <1>7, <3>1, <3>2
    <3>4. sent[op.sid][1] = a /\ sent[op.sid][2] = b
      BY <3>1
    <3>5. CASE module.kind = "session"
      BY <3>3, <3>4, <3>5
    <3>6. CASE module.kind # "session"
      BY <3>3, <3>4, <3>6
    <3> QED
      BY <3>5, <3>6
  <2>5. \A sid \in Sessions : ~Pending(sid)' => sent'[sid] = <<sessIn'[sid], sessOut'[sid]>>
    BY <1>1, <1>9, <2>1, <2>3
  <2>6. ASSUME NEW sid \in Sessions, Pending(sid)'
        PROVE  <<sessIn'[sid], sessOut'[sid]>> =
                  IF module'.kind = "session" THEN <<Append(sent'[sid][1], Row'), sent'[sid][2]>>
                  ELSE <<sent'[sid][1], Append(sent'[sid][2], Row')>>
    BY <1>1, <2>1, <2>2, <2>4, <2>6
  <2> QED
    BY <1>1, <2>5, <2>6 DEF SessionsAgree
<1>11. Registries'
  <2>1. output' \subseteq {<<"out", op'.n>>}
    BY <1>1, <1>5, <1>7 DEF IInv, Registries, ToOutput
  <2>2. error # None => ~module.errors
    BY <1>1 DEF IInv, Registries
  <2> QED
    BY <1>1, <1>3, <1>5, <2>1, <2>2, NoneAssumption DEF IInv, Registries, Up
<1>12. Outcomes'
  BY <1>1, <1>4, <1>5 DEF Outcomes
<1>13. ModuleLines'
  BY <1>1, <1>5 DEF IInv, ModuleLines
<1> QED
  BY <1>1, <1>8, <1>10, <1>11, <1>12, <1>13, LinesKeep DEF IInv, AnswersAreOwn

\* Why a step does not run the user function.
LEMMA Refusals ==
    ASSUME NEW ins, NEW outs
    PROVE  Refusal(ins, outs) \in {None, UserError, Encode(CodePanic)}
BY DEF Refusal

\* The row of a step goes to the guest before anything else: whatever comes of
\* the step, both sides have it.
LEMMA CallSessionKeeps == ASSUME IInv, NEW sid \in Sessions, CallSession(sid) PROVE IInv'
<1> DEFINE n == op.n + 1
           ins == Append(sessIn[sid], <<"in", n>>)
           refusal == Refusal(ins, sessOut[sid])
<1>1. Up /\ module.kind # "function" /\ at = "idle" /\ UNCHANGED module
  BY DEF CallSession
<1>2. /\ op \in OpRecords /\ n \in Nat /\ sid # None
      /\ Begin(sid) \in OpRecords /\ Begin(sid).n = n /\ Begin(sid).sid = sid
      /\ Begin(sid).said = 0
  <2>1. op \in OpRecords
    BY DEF IInv, Types
  <2>2. op.n \in Nat
    BY <2>1 DEF OpRecords
  <2> QED
    BY <2>1, <2>2, Begins, NoneAssumption
<1>3. modLog = dropped /\ dropped \in Seq(Nat \X Nat) /\ output \subseteq {} /\ input \subseteq {Specs}
  BY <1>1 DEF IInv, ModuleLines, Registries
<1>4. \A q \in Sessions : sent[q] = <<sessIn[q], sessOut[q]>>
  BY <1>1 DEF IInv, SessionsAgree, Pending
<1>5. CASE locked
  <2>1. /\ op' = [Begin(sid) EXCEPT !.did = "locked"] /\ error' = n
        /\ Answer(<<"pyro", <<"none", "OutputMemory">>>>)
        /\ UNCHANGED <<at, input, output, sessIn, sessOut, locked, sent, cut>>
    BY <1>5 DEF CallSession
  <2>2. /\ op' \in OpRecords /\ op'.n = n /\ op'.sid = sid /\ op'.said = 0 /\ op'.did = "locked"
    <3>1. PICK o \in OpRecords : o = Begin(sid)
      BY <1>2
    <3>2. [o EXCEPT !.did = "locked"] \in OpRecords
      BY DEF OpRecords, Dids
    <3> QED
      BY <1>2, <2>1, <3>1, <3>2 DEF OpRecords
  <2>3. PICK result : result = <<"pyro", <<"none", "OutputMemory">>>>
    OBVIOUS
  <2>4. result[1] = "pyro"
    BY <2>3
  <2>5. Right(op', module, result)
    BY <2>2, <2>4 DEF Right
  <2>6. modLog = LinesOf(op', result, dropped)
    BY <1>2, <1>3, <2>2, <2>4, LinesFollow DEF LinesOf
  <2>7. AnswersAreOwn' /\ CapabilityLines' /\ modLog' = <<>> /\ dropped' = <<>>
    BY <1>1, <2>1, <2>3, <2>5, <2>6, Answered DEF IInv
  <2>8. Types'
    BY <1>2, <2>1, <2>2 DEF IInv, Types
  <2>9. SessionsAgree'
    BY <1>1, <1>4, <2>1 DEF SessionsAgree, Pending
  <2>10. Registries'
    BY <1>1, <1>3, <1>5, <2>1 DEF IInv, Registries, Up
  <2> QED
    BY <1>1, <2>1, <2>7, <2>8, <2>9, <2>10, EmptySeq DEF IInv, Outcomes, ModuleLines
<1>6. CASE ~locked
  <2>1. /\ sessIn' = NewSessionInput(sid, <<<<"in", n>>>>)
        /\ sent' = [sent EXCEPT ![sid][1] = Append(@, <<"in", n>>)]
        /\ UNCHANGED <<input, sessOut, error, modLog, chan, buffer, lines, answer, heard, cut, dropped>>
    BY <1>6 DEF CallSession, logs
  <2>2. \/ /\ refusal = None /\ at' = "guest" /\ locked' = TRUE /\ UNCHANGED output
           /\ op' = [Begin(sid) EXCEPT !.saw = <<ins, sessOut[sid]>>]
        \/ /\ refusal # None /\ at' = "returned" /\ output' = ToOutput(<<"out", n>>) /\ UNCHANGED locked
           /\ op' = [Begin(sid) EXCEPT !.did = "refused", !.result = <<refusal, n>>]
    BY <1>6 DEF CallSession
  <2>3. PICK row \in Rows : row = <<"in", n>>
    BY <1>2 DEF Rows
  <2>4. PICK a \in Seq(Rows), b \in Seq(Rows) : a = sessIn[sid] /\ b = sessOut[sid]
    BY DEF IInv, Types
  <2>5. PICK c \in Seq(Rows) : c = Append(a, row) /\ c = ins
    BY <2>3, <2>4, RowAdded
  <2>6. sessIn' = [sessIn EXCEPT ![sid] = c]
    <3>1. sessIn' = [sessIn EXCEPT ![sid] = a \o <<row>>]
      BY <2>1, <2>3, <2>4 DEF NewSessionInput
    <3>2. a \o <<row>> = Append(a, row)
      BY RowAdded
    <3> QED
      BY <2>5, <3>1, <3>2
  <2>7. sent' = [sent EXCEPT ![sid] = <<c, b>>]
    <3>1. sent[sid] = <<a, b>> /\ <<a, b>>[1] = a
      BY <1>4, <2>4
    <3>2. [<<a, b>> EXCEPT ![1] = c] = <<c, b>>
      OBVIOUS
    <3>3. sent' = [sent EXCEPT ![sid] = [<<a, b>> EXCEPT ![1] = Append(a, row)]]
      BY <2>1, <2>3, <3>1
    <3> QED
      BY <2>5, <3>2, <3>3
  <2>8. /\ sessIn' \in [Sessions -> Seq(Rows)] /\ sessOut' \in [Sessions -> Seq(Rows)]
        /\ sent' \in [Sessions -> Seq(Rows) \X Seq(Rows)]
        /\ \A q \in Sessions : sent'[q] = <<sessIn'[q], sessOut'[q]>>
        /\ sent'[sid] = <<c, b>>
    <3>1. /\ sessIn \in [Sessions -> Seq(Rows)] /\ sessOut \in [Sessions -> Seq(Rows)]
          /\ sent \in [Sessions -> Seq(Rows) \X Seq(Rows)] /\ sessOut' = sessOut
      BY <2>1 DEF IInv, Types
    <3>2. <<c, b>> \in Seq(Rows) \X Seq(Rows)
      OBVIOUS
    <3>3. sent'[sid] = <<c, b>> /\ sessIn'[sid] = c /\ sessOut'[sid] = b
      BY <2>4, <2>6, <2>7, <3>1
    <3>4. \A q \in Sessions : q # sid => sent'[q] = sent[q] /\ sessIn'[q] = sessIn[q]
      BY <2>6, <2>7, <3>1
    <3> QED
      BY <1>4, <2>6, <2>7, <3>1, <3>2, <3>3, <3>4
  <2>9. PICK o \in OpRecords : o = Begin(sid)
    BY <1>2
  <2>10. CapabilityLines'
    BY <2>1, LinesKeep DEF IInv
  <2>11. CASE refusal = None
    <3>1. /\ at' = "guest" /\ locked' = TRUE /\ UNCHANGED output
          /\ op' = [o EXCEPT !.saw = <<c, b>>]
      BY <2>2, <2>4, <2>5, <2>9, <2>11
    <3>2. [o EXCEPT !.saw = <<c, b>>] \in OpRecords
      BY DEF OpRecords
    <3>3. op' \in OpRecords /\ op'.n = n /\ op'.sid = sid /\ op'.said = 0 /\ op'.saw = <<c, b>>
      BY <1>2, <2>9, <3>1, <3>2 DEF OpRecords
    <3>4. Types'
      BY <2>1, <2>8, <3>1, <3>3 DEF IInv, Types
    <3>5. SessionsAgree'
      BY <2>8, <3>1, <3>3 DEF SessionsAgree, Pending
    <3>6. error # None => ~module.errors
      BY <1>1, <1>6 DEF IInv, Registries
    <3>7. Registries'
      BY <1>1, <1>2, <1>3, <2>1, <3>1, <3>3, <3>6 DEF Registries, Up
    <3>8. ModuleLines'
      BY <1>2, <1>3, <2>1, <3>1, <3>3, LinesFollow DEF ModuleLines
    <3> QED
      BY <2>10, <3>1, <3>4, <3>5, <3>7, <3>8 DEF IInv, Outcomes, AnswersAreOwn
  <2>12. CASE refusal # None
    <3>1. PICK status \in {UserError, Encode(CodePanic)} : status = refusal
      BY <2>12, Refusals
    <3>2. /\ at' = "returned" /\ output' = ToOutput(<<"out", n>>) /\ UNCHANGED locked
          /\ op' = [o EXCEPT !.did = "refused", !.result = <<status, n>>]
      BY <2>2, <2>9, <2>12, <3>1
    <3>3. [o EXCEPT !.did = "refused", !.result = <<status, n>>] \in OpRecords
      <4>1. "refused" \in Dids /\ <<status, n>> \in Statuses \X Nat
        BY <1>2, <3>1, Statuses3 DEF Dids
      <4> QED
        BY <4>1 DEF OpRecords
    <3>4. /\ op' \in OpRecords /\ op'.n = n /\ op'.sid = sid /\ op'.said = 0 /\ op'.did = "refused"
          /\ op'.result = <<status, n>>
      BY <1>2, <2>9, <3>2, <3>3 DEF OpRecords
    <3>5. Types'
      BY <2>1, <2>8, <3>2, <3>4 DEF IInv, Types
    <3>6. status # Ok
      BY <3>1, Statuses3 DEF Ok
    <3>7. SessionsAgree'
      BY <2>8, <3>2, <3>4, <3>6 DEF SessionsAgree, Pending
    <3>8. error # None => ~module.errors
      BY <1>1, <1>6 DEF IInv, Registries
    <3>9. Registries'
      BY <1>1, <1>2, <1>3, <1>6, <2>1, <3>2, <3>4, <3>8 DEF Registries, Up, ToOutput
    <3>10. ModuleLines'
      <4>1. dropped \o Lines(n, 0) = dropped
        BY <1>2, <1>3, LinesFollow
      <4>2. dropped' = dropped /\ modLog' = dropped /\ op'.n = n /\ op'.said = 0
        BY <1>3, <2>1, <3>4
      <4> HIDE DEF n
      <4> QED
        BY <1>3, <3>2, <4>1, <4>2 DEF ModuleLines
    <3>11. Outcomes'
      BY <3>1, <3>2, <3>4 DEF Outcomes
    <3> QED
      BY <2>10, <3>2, <3>5, <3>7, <3>9, <3>10, <3>11 DEF IInv, AnswersAreOwn
  <2> QED
    BY <2>11, <2>12
<1> QED
  BY <1>5, <1>6

\* A call that is dropped leaves its lines, and the mutexes of its session.
LEMMA DropKeeps == ASSUME IInv, DropCall PROVE IInv'
<1>1. /\ Up /\ at = "guest" /\ at' = "idle" /\ answer' = None
      /\ op' = [op EXCEPT !.did = "dropped", !.saw = <<>>]
      /\ cut' = (cut \/ op.sid # None) /\ dropped' = dropped \o Lines(op.n, op.said)
      /\ UNCHANGED <<module, input, output, sessIn, sessOut, locked, error, modLog, heard, sent>>
      /\ UNCHANGED <<buffer, chan, lines>> \/ LogCallback
  BY DEF DropCall, Running, CapabilityLogs, LogCallback, guest, logs
<1>2. op \in OpRecords /\ op.n \in Nat /\ op.said \in Nat
  BY DEF IInv, Types, OpRecords
<1>3. op' \in OpRecords /\ op'.sid = op.sid
  <2>1. "dropped" \in Dids /\ <<>> \in {<<>>} \cup (Seq(Rows) \X Seq(Rows))
    BY DEF Dids
  <2>2. op' \in OpRecords
    BY <1>1, <1>2, <2>1 DEF OpRecords
  <2> QED
    BY <1>1, <1>2, <2>2 DEF OpRecords
<1>4. Types'
  <2>1. cut' \in BOOLEAN
    BY <1>1
  <2> QED
    BY <1>1, <1>3, <2>1 DEF IInv, Types
<1>5. SessionsAgree'
  BY <1>1 DEF IInv, SessionsAgree, Pending
<1>6. Registries'
  <2>1. input' \subseteq {Specs} /\ output' \subseteq {} /\ Up'
    BY <1>1 DEF IInv, Registries, Up
  <2>2. locked' => cut'
    BY <1>1 DEF IInv, Registries
  <2>3. module'.errors => error' = None
    BY <1>1 DEF IInv, Registries
  <2>4. module'.kind = "function" => op'.sid = None /\ ~locked'
    BY <1>1, <1>3 DEF IInv, Registries
  <2> QED
    BY <1>1, <2>1, <2>2, <2>3, <2>4 DEF Registries
<1>7. ModuleLines'
  <2>1. dropped \in Seq(Nat \X Nat) /\ modLog = dropped \o Lines(op.n, op.said)
    BY <1>1 DEF IInv, ModuleLines
  <2>2. dropped' \in Seq(Nat \X Nat) /\ modLog' = dropped'
    BY <1>1, <1>2, <2>1, LinesFollow
  <2> QED
    BY <1>1, <2>2 DEF ModuleLines
<1>8. CapabilityLines'
  BY <1>1, LinesKeep DEF IInv
<1> QED
  BY <1>1, <1>4, <1>5, <1>6, <1>7, <1>8 DEF IInv, Outcomes, AnswersAreOwn

-----------------------------------------------------------------------------
\* It holds where there is no instance yet.
LEMMA InitIInv == Init => IInv
<1> SUFFICES ASSUME Init PROVE IInv
  OBVIOUS
<1>1. /\ module = None /\ at = "idle" /\ op = NoOp /\ input = {} /\ output = {}
      /\ sessIn = [sid \in Sessions |-> <<>>] /\ sessOut = [sid \in Sessions |-> <<>>]
      /\ locked = FALSE /\ error = None /\ modLog = <<>> /\ chan = <<>> /\ buffer = <<>> /\ lines = 0
      /\ answer = None /\ heard = 0 /\ cut = FALSE /\ dropped = <<>>
      /\ sent = [sid \in Sessions |-> <<<<>>, <<>>>>]
  BY DEF Init
<1>2. NoOp \in OpRecords /\ NoOp.sid = None
  BY DEF NoOp, OpRecords, Dids
<1>3. Types
  <2>1. <<>> \in Seq(Rows) /\ <<<<>>, <<>>>> \in Seq(Rows) \X Seq(Rows)
    <3>1. <<>> \in Seq(Rows)
      BY EmptySeq
    <3> QED
      BY <3>1, Zenon
  <2> QED
    BY <1>1, <1>2, <2>1 DEF Types
<1>4. SessionsAgree
  BY <1>1 DEF SessionsAgree, Pending
<1>5. CapabilityLines
  <2>1. <<>> \o <<>> = <<>> /\ <<>> \in Seq(Nat) /\ Len(<<>>) = 0
    BY EmptySeq, ConcatEmptySeq
  <2>2. Rising(0, <<>>, 0)
    BY <2>1 DEF Rising
  <2> QED
    BY <1>1, <2>1, <2>2 DEF CapabilityLines
<1>6. Registries
  BY <1>1, <1>2 DEF Registries, Up
<1> QED
  BY <1>1, <1>3, <1>4, <1>5, <1>6, EmptySeq DEF IInv, Outcomes, ModuleLines, AnswersAreOwn

\* Every step of the host, the guest and the task of the log keeps it.
LEMMA NextIInv == IInv /\ [Next]_vars => IInv'
<1> SUFFICES ASSUME IInv, [Next]_vars PROVE IInv'
  OBVIOUS
<1>1. CASE Instantiate \/ Call
  BY <1>1, InstantiateKeeps, CallKeeps
<1>2. CASE \E sid \in Sessions : CallSession(sid) \/ PrepSession(sid) \/ CloseSession(sid)
  BY <1>2, CallSessionKeeps, PrepKeeps, CloseKeeps
<1>3. CASE Log \/ CallCapability \/ RegisterClient \/ LoseCapability \/ CallPlaybook \/ Panic
  BY <1>3, GuestSteps, GuestKeeps DEF IInv
<1>4. CASE Return \/ ReturnSession
  BY <1>4, ReturnKeeps, ReturnSessionKeeps
<1>5. CASE ReadOutput \/ ReadPanic
  BY <1>5, OutputRead, PanicRead
<1>6. CASE LogTask
  BY <1>6, LogTaskKeeps
<1>7. CASE DropCall
  BY <1>7, DropKeeps
<1>8. CASE UNCHANGED vars
  <2>1. UNCHANGED <<module, at, op, input, output, sessIn, sessOut, locked, error, modLog, chan, buffer,
                    lines, answer, heard, sent, cut, dropped>>
    BY <1>8 DEF vars, guest, logs, history
  <2>2. CapabilityLines'
    BY <2>1, LinesKeep DEF IInv
  <2>3. Types' /\ Outcomes'
    BY <2>1 DEF IInv, Types, Outcomes
  <2>4. SessionsAgree'
    BY <2>1 DEF IInv, SessionsAgree, Pending, Row
  <2>5. Registries' /\ ModuleLines' /\ AnswersAreOwn'
    BY <2>1 DEF IInv, Registries, Up, ModuleLines, AnswersAreOwn
  <2> QED
    BY <2>2, <2>3, <2>4, <2>5 DEF IInv
<1> QED
  BY <1>1, <1>2, <1>3, <1>4, <1>5, <1>6, <1>7, <1>8 DEF Next

\* What host and guest keep between them, whatever is called, cut off and dropped.
LEMMA Invariance == Spec => []IInv
BY InitIInv, NextIInv, PTL DEF Spec

-----------------------------------------------------------------------------
\* What the host counts of a session, what is owed of it, and a row that has
\* been returned and is not read are what the guest has of it.
InHand(sid) == IF Pending(sid) THEN 1 ELSE 0
Sums(kind, i, o, due, h, ins, outs) ==
    IF kind = "session_diff" THEN i + due = ins /\ o + h = outs
    ELSE i + o + due + h = ins + outs
Agreed(sid) == Sums(module.kind, Counted(sid)[1], Counted(sid)[2], owed[sid], InHand(sid),
                    Len(sessIn[sid]), Len(sessOut[sid]))
Fresh(sid) == states[sid] = None /\ owed[sid] = 0 /\ sessIn[sid] = <<>> /\ sessOut[sid] = <<>>
Counts ==
    /\ states \in [Sessions -> {None} \cup (Nat \X Nat)] /\ owed \in [Sessions -> Int]
    /\ \A sid \in Sessions : IF Up THEN Agreed(sid) ELSE Fresh(sid)

\* An input that is pushed, a row that is returned and a row that is read.
LEMMA SumsMove ==
    ASSUME NEW kind, NEW i \in Nat, NEW o \in Nat, NEW due \in Int, NEW h \in Nat,
           NEW ins \in Nat, NEW outs \in Nat, Sums(kind, i, o, due, h, ins, outs)
    PROVE  /\ Sums(kind, i, o, due + 1, h, ins + 1, outs)
           /\ kind = "session" => Sums(kind, i, o, due, h + 1, ins + 1, outs)
           /\ kind # "session" => Sums(kind, i, o, due, h + 1, ins, outs + 1)
           /\ Sums(kind, i + h, o + h, due - h, 0, ins, outs)
<1>1. CASE kind = "session_diff"
  BY <1>1 DEF Sums
<1>2. CASE kind # "session_diff"
  BY <1>2 DEF Sums
<1> QED
  BY <1>1, <1>2

\* A step that touches no session and returns no row.
LEMMA QuietCounts ==
    ASSUME Counts, UNCHANGED <<module, states, owed, sessIn, sessOut>>,
           \A sid \in Sessions : Pending(sid)' <=> Pending(sid)
    PROVE  Counts'
<1>1. \A sid \in Sessions : InHand(sid)' = InHand(sid) /\ Counted(sid)' = Counted(sid)
  BY DEF InHand, Counted
<1>2. \A sid \in Sessions : (Agreed(sid) => Agreed(sid)') /\ (Fresh(sid) => Fresh(sid)')
  BY <1>1, Zenon DEF Agreed, Fresh
<1> QED
  BY <1>2 DEF Counts, Up

\* No session has rows before there is an instance.
LEMMA InstantiateCounts == ASSUME IInv, Counts, Instantiate PROVE Counts'
<1>1. module = None /\ UNCHANGED <<at, op, states, owed, sessIn, sessOut>>
  BY DEF Instantiate, history
<1>2. ~Up /\ at = "idle"
  BY <1>1 DEF Up, IInv, Registries
<1>3. ASSUME NEW sid \in Sessions PROVE Fresh(sid)' /\ Agreed(sid)'
  <2>1. /\ states'[sid] = None /\ owed'[sid] = 0 /\ sessIn'[sid] = <<>> /\ sessOut'[sid] = <<>>
        /\ ~Pending(sid)'
    BY <1>1, <1>2 DEF Counts, Fresh, Pending
  <2>2. Counted(sid)' = <<0, 0>> /\ InHand(sid)' = 0
    BY <2>1 DEF Counted, InHand
  <2>3. Counted(sid)'[1] = 0 /\ Counted(sid)'[2] = 0
    BY <2>2
  <2>4. Len(sessIn'[sid]) = 0 /\ Len(sessOut'[sid]) = 0
    BY <2>1
  <2> QED
    BY <2>1, <2>2, <2>3, <2>4 DEF Fresh, Agreed, Sums
<1> QED
  BY <1>1, <1>3 DEF Counts

\* What the host counts are two numbers.
LEMMA CountedNumbers ==
    ASSUME Counts, NEW sid \in Sessions
    PROVE  /\ Counted(sid)[1] \in Nat /\ Counted(sid)[2] \in Nat /\ owed[sid] \in Int
           /\ states[sid] # None => Counted(sid) = states[sid]
BY DEF Counts, Counted

\* Two numbers are a count.
LEMMA NotNone == ASSUME NEW i \in Nat, NEW o \in Nat PROVE <<i, o>> # None
  BY NoneAssumption

\* The input of a step is owed.
LEMMA CallSessionCounts ==
    ASSUME IInv, Counts, NEW sid \in Sessions, CallSession(sid) PROVE Counts'
<1>1. Up /\ at = "idle" /\ UNCHANGED <<module, states>>
  BY DEF CallSession
<1>2. CASE locked
  <2>1. UNCHANGED <<at, sessIn, sessOut, owed>>
    BY <1>2 DEF CallSession
  <2> QED
    BY <1>1, <2>1, QuietCounts DEF Pending
<1>3. CASE ~locked
  <2>1. /\ owed' = [owed EXCEPT ![sid] = owed[sid] + 1] /\ sessOut' = sessOut
        /\ sessIn' = [sessIn EXCEPT ![sid] = sessIn[sid] \o <<<<"in", op.n + 1>>>>]
    BY <1>3 DEF CallSession, NewSessionInput
  <2>2. \A q \in Sessions : ~Pending(q) /\ ~Pending(q)'
    <3>1. at' = "guest" \/ (at' = "returned" /\ op'.result[1] # Ok)
      <4> DEFINE ins == Append(sessIn[sid], <<"in", op.n + 1>>)
                 refusal == Refusal(ins, sessOut[sid])
      <4>1. \/ at' = "guest"
            \/ /\ refusal # None /\ at' = "returned"
               /\ op' = [Begin(sid) EXCEPT !.did = "refused", !.result = <<refusal, op.n + 1>>]
        BY <1>3 DEF CallSession
      <4>2. refusal \in {None, UserError, Encode(CodePanic)}
        BY Refusals
      <4>3. PICK o \in OpRecords : o = Begin(sid)
        BY Begins DEF IInv, Types
      <4> HIDE DEF refusal
      <4>4. [o EXCEPT !.did = "refused", !.result = <<refusal, op.n + 1>>].result
               = <<refusal, op.n + 1>>
        BY DEF OpRecords
      <4>5. UserError # Ok /\ Encode(CodePanic) # Ok
        BY Statuses3 DEF Ok
      <4>6. <<refusal, op.n + 1>>[1] = refusal
        OBVIOUS
      <4>7. CASE at' # "guest"
        <5>1. op' = [o EXCEPT !.did = "refused", !.result = <<refusal, op.n + 1>>]
          BY <4>1, <4>3, <4>7
        <5>2. op'.result = <<refusal, op.n + 1>>
          BY <4>4, <5>1
        <5> QED
          BY <4>1, <4>2, <4>5, <4>6, <4>7, <5>2
      <4> QED
        BY <4>7
    <3> QED
      BY <1>1, <3>1 DEF Pending
  <2>3. ASSUME NEW q \in Sessions PROVE Agreed(q)'
    <3>1. /\ Counted(q)' = Counted(q) /\ InHand(q)' = 0 /\ InHand(q) = 0 /\ sessOut'[q] = sessOut[q]
      BY <1>1, <2>1, <2>2 DEF Counted, InHand
    <3>2. sessIn \in [Sessions -> Seq(Rows)] /\ sessOut \in [Sessions -> Seq(Rows)]
      BY DEF IInv, Types
    <3>3. /\ owed'[q] = owed[q] + (IF q = sid THEN 1 ELSE 0)
          /\ Len(sessIn'[q]) = Len(sessIn[q]) + (IF q = sid THEN 1 ELSE 0)
      <4>1. owed \in [Sessions -> Int]
        BY DEF Counts
      <4>2. PICK a \in Seq(Rows) : a = sessIn[sid]
        BY <3>2
      <4>3. PICK row \in Rows : row = <<"in", op.n + 1>>
        <5>1. op.n + 1 \in Nat
          BY DEF IInv, Types, OpRecords
        <5> QED
          BY <5>1 DEF Rows
      <4>4. Len(a \o <<row>>) = Len(a) + 1
        BY RowAdded, AppendProperties
      <4> QED
        BY <2>1, <3>2, <4>1, <4>2, <4>3, <4>4
    <3>4. Counted(q)[1] \in Nat /\ Counted(q)[2] \in Nat /\ owed[q] \in Int
      BY CountedNumbers
    <3>5. Len(sessIn[q]) \in Nat /\ Len(sessOut[q]) \in Nat
      BY <3>2
    <3>6. Agreed(q) /\ module' = module
      BY <1>1 DEF Counts
    <3>7. CASE q = sid
      <4>1. Sums(module.kind, Counted(q)[1], Counted(q)[2], owed[q] + 1, InHand(q),
                 Len(sessIn[q]) + 1, Len(sessOut[q]))
        BY <3>1, <3>4, <3>5, <3>6, SumsMove DEF Agreed
      <4> QED
        BY <3>1, <3>3, <3>6, <3>7, <4>1 DEF Agreed
    <3>8. CASE q # sid
      BY <3>1, <3>3, <3>4, <3>5, <3>6, <3>8 DEF Agreed
    <3> QED
      BY <3>7, <3>8
  <2>4. owed' \in [Sessions -> Int]
    BY <2>1 DEF Counts
  <2> QED
    BY <1>1, <2>3, <2>4 DEF Counts, Up
<1> QED
  BY <1>2, <1>3

\* The row a session returns is in hand until it is read.
LEMMA ReturnSessionCounts == ASSUME IInv, Counts, ReturnSession PROVE Counts'
<1>1. /\ Up /\ at = "guest" /\ module.kind # "function" /\ at' = "returned"
      /\ UNCHANGED <<module, states, owed>>
  BY DEF ReturnSession, Running, history
<1>2. PICK did \in {"value", "end", "terminate", "failure"} :
         /\ op' = [op EXCEPT !.did = did,
                             !.result = <<IF did = "failure" THEN UserError ELSE Ok, op.n>>]
         /\ LET row == IF did = "terminate" THEN Empty ELSE <<"out", op.n>> IN
            IF did = "failure"
            THEN output' = ToOutput(<<"out", op.n>>) /\ UNCHANGED <<sessIn, sessOut>>
            ELSE IF module.kind = "session"
            THEN sessIn' = NewSessionInput(op.sid, <<row>>) /\ UNCHANGED <<output, sessOut>>
            ELSE sessOut' = NewSessionOutput(op.sid, <<row>>) /\ UNCHANGED <<output, sessIn>>
  BY DEF ReturnSession
<1>3. /\ op \in OpRecords /\ op.n \in Nat /\ op.sid \in Sessions
  <2>1. op \in OpRecords /\ op.sid # None
    BY <1>1 DEF IInv, Types, Registries
  <2> QED
    BY <2>1 DEF OpRecords
<1>4. op'.sid = op.sid /\ (op'.result[1] = Ok <=> did # "failure")
  BY <1>2, <1>3, Statuses3 DEF OpRecords
<1>5. \A q \in Sessions : ~Pending(q) /\ (Pending(q)' <=> q = op.sid /\ did # "failure")
  BY <1>1, <1>4 DEF Pending
<1>6. PICK row \in Rows : row = IF did = "terminate" THEN Empty ELSE <<"out", op.n>>
  <2>1. Empty \in Rows /\ <<"out", op.n>> \in Rows
    BY <1>3 DEF Rows, Empty
  <2> QED
    BY <2>1
<1>7. \/ did = "failure" /\ UNCHANGED <<sessIn, sessOut>>
      \/ /\ did # "failure" /\ module.kind = "session" /\ sessOut' = sessOut
         /\ sessIn' = [sessIn EXCEPT ![op.sid] = sessIn[op.sid] \o <<row>>]
      \/ /\ did # "failure" /\ module.kind # "session" /\ sessIn' = sessIn
         /\ sessOut' = [sessOut EXCEPT ![op.sid] = sessOut[op.sid] \o <<row>>]
  BY <1>2, <1>6 DEF NewSessionInput, NewSessionOutput
<1>8. sessIn \in [Sessions -> Seq(Rows)] /\ sessOut \in [Sessions -> Seq(Rows)]
  BY DEF IInv, Types
<1>9. ASSUME NEW q \in Sessions PROVE Agreed(q)'
  <2>1. /\ Counted(q)' = Counted(q) /\ owed'[q] = owed[q] /\ InHand(q) = 0
        /\ InHand(q)' = IF q = op.sid /\ did # "failure" THEN 1 ELSE 0
    BY <1>1, <1>5 DEF Counted, InHand
  <2>2. Counted(q)[1] \in Nat /\ Counted(q)[2] \in Nat /\ owed[q] \in Int
    BY CountedNumbers
  <2>3. \A a \in Seq(Rows) : Len(a \o <<row>>) = Len(a) + 1
    BY RowAdded, AppendProperties
  <2>4. /\ Len(sessIn'[q]) = Len(sessIn[q]) + (IF module.kind = "session" THEN InHand(q)' ELSE 0)
        /\ Len(sessOut'[q]) = Len(sessOut[q]) + (IF module.kind = "session" THEN 0 ELSE InHand(q)')
    BY <1>3, <1>7, <1>8, <2>1, <2>3
  <2>5. Len(sessIn[q]) \in Nat /\ Len(sessOut[q]) \in Nat
    BY <1>8
  <2>6. Agreed(q)
    BY <1>1 DEF Counts
  <2>7. CASE InHand(q)' = 0
    <3>1. Len(sessIn'[q]) = Len(sessIn[q]) /\ Len(sessOut'[q]) = Len(sessOut[q])
      BY <2>4, <2>5, <2>7
    <3>2. InHand(q)' = InHand(q) /\ module' = module
      BY <1>1, <2>1, <2>7
    <3> QED
      BY <2>1, <2>6, <3>1, <3>2 DEF Agreed
  <2>8. CASE InHand(q)' # 0
    <3>1. InHand(q)' = 1 /\ InHand(q) + 1 = 1 /\ InHand(q) \in Nat
      BY <2>1, <2>8
    <3>2. Sums(module.kind, Counted(q)[1], Counted(q)[2], owed[q], InHand(q)', Len(sessIn'[q]),
               Len(sessOut'[q]))
      <4>1. CASE module.kind = "session"
        BY <2>2, <2>4, <2>5, <2>6, <3>1, <4>1, SumsMove DEF Agreed
      <4>2. CASE module.kind # "session"
        BY <2>2, <2>4, <2>5, <2>6, <3>1, <4>2, SumsMove DEF Agreed
      <4> QED
        BY <4>1, <4>2
    <3> QED
      BY <1>1, <2>1, <3>2 DEF Agreed
  <2> QED
    BY <2>7, <2>8
<1> QED
  BY <1>1, <1>9 DEF Counts, Up

\* A row that is read is counted twice by the host, once as an answered input.
LEMMA ReadOutputCounts == ASSUME IInv, Counts, ReadOutput PROVE Counts'
<1> DEFINE result == Parsed(op.result[1], op.result[2])
<1>1. /\ Up /\ at = "returned" /\ at' = "idle" /\ UNCHANGED <<module, sessIn, sessOut>>
      /\ IF op.sid = None \/ result[1] # "value" THEN UNCHANGED <<states, owed>>
         ELSE /\ owed' = [owed EXCEPT ![op.sid] = owed[op.sid] - 1]
              /\ states' = [states EXCEPT ![op.sid] =
                    IF states[op.sid] = None THEN <<1, 1>>
                    ELSE <<states[op.sid][1] + 1, states[op.sid][2] + 1>>]
  BY DEF ReadOutput
<1>2. op \in OpRecords /\ (op.sid = None \/ op.sid \in Sessions)
  BY DEF IInv, Types, OpRecords
<1>3. result[1] = "value" <=> op.result[1] = Ok
  BY <1>1, Parsing, Statuses3 DEF IInv, Outcomes, Ok
<1> HIDE DEF result
<1>4. \A q \in Sessions : /\ ~Pending(q)'
                          /\ Pending(q) <=> q = op.sid /\ result[1] = "value"
  BY <1>1, <1>3 DEF Pending
<1>5. states \in [Sessions -> {None} \cup (Nat \X Nat)] /\ owed \in [Sessions -> Int]
  BY DEF Counts
<1>6. states' \in [Sessions -> {None} \cup (Nat \X Nat)] /\ owed' \in [Sessions -> Int]
  <2>1. CASE op.sid = None \/ result[1] # "value"
    BY <1>1, <1>5, <2>1
  <2>2. CASE ~(op.sid = None \/ result[1] # "value")
    <3>1. owed[op.sid] - 1 \in Int
      BY <1>2, <1>5, <2>2
    <3>2. PICK s \in Nat \X Nat : s = IF states[op.sid] = None THEN <<1, 1>>
                                ELSE <<states[op.sid][1] + 1, states[op.sid][2] + 1>>
      <4>1. states[op.sid] = None \/ states[op.sid] \in Nat \X Nat
        BY <1>2, <1>5, <2>2
      <4>2. <<1, 1>> \in Nat \X Nat
        OBVIOUS
      <4>3. CASE states[op.sid] \in Nat \X Nat
        <5>1. PICK i \in Nat, o \in Nat : states[op.sid] = <<i, o>>
          BY <4>3
        <5>2. states[op.sid][1] + 1 \in Nat /\ states[op.sid][2] + 1 \in Nat
          BY <5>1
        <5>3. <<states[op.sid][1] + 1, states[op.sid][2] + 1>> \in Nat \X Nat
          BY <5>2
        <5> QED
          BY <4>2, <5>3, Zenon
      <4> QED
        BY <4>1, <4>2, <4>3, Zenon
    <3> QED
      BY <1>1, <1>5, <2>2, <3>1, <3>2
  <2> QED
    BY <2>1, <2>2
<1>7. ASSUME NEW q \in Sessions PROVE Agreed(q)'
  <2>1. InHand(q)' = 0 /\ InHand(q) = IF q = op.sid /\ result[1] = "value" THEN 1 ELSE 0
    BY <1>4 DEF InHand
  <2>2. owed'[q] = owed[q] - InHand(q)
    BY <1>1, <1>5, <2>1, NoneAssumption
  <2>3. /\ Counted(q)'[1] = Counted(q)[1] + InHand(q)
        /\ Counted(q)'[2] = Counted(q)[2] + InHand(q)
    <3>1. CASE q = op.sid /\ result[1] = "value"
      <4>1. states'[q] = IF states[q] = None THEN <<1, 1>>
                         ELSE <<states[q][1] + 1, states[q][2] + 1>>
        BY <1>1, <1>5, <3>1, NoneAssumption
      <4>2. states'[q] # None
        BY <1>5, <4>1, NotNone
      <4>3. Counted(q)' = states'[q]
        BY <4>2 DEF Counted
      <4>4. CASE states[q] = None
        BY <2>1, <3>1, <4>1, <4>3, <4>4 DEF Counted
      <4>5. CASE states[q] # None
        BY <2>1, <3>1, <4>1, <4>3, <4>5 DEF Counted
      <4> QED
        BY <4>4, <4>5
    <3>2. CASE ~(q = op.sid /\ result[1] = "value")
      <4>1. states'[q] = states[q]
        BY <1>1, <1>5, <3>2
      <4>2. Counted(q)' = Counted(q)
        BY <4>1 DEF Counted
      <4> QED
        BY <2>1, <3>2, <4>2, CountedNumbers
    <3> QED
      BY <3>1, <3>2
  <2>4. Counted(q)[1] \in Nat /\ Counted(q)[2] \in Nat /\ owed[q] \in Int
    BY CountedNumbers
  <2>5. Len(sessIn[q]) \in Nat /\ Len(sessOut[q]) \in Nat
    BY DEF IInv, Types
  <2>6. Agreed(q)
    BY <1>1 DEF Counts
  <2>7. sessIn'[q] = sessIn[q] /\ sessOut'[q] = sessOut[q] /\ module' = module
    BY <1>1
  <2>8. InHand(q) \in Nat
    BY <2>1
  <2>9. Sums(module.kind, Counted(q)[1] + InHand(q), Counted(q)[2] + InHand(q),
             owed[q] - InHand(q), 0, Len(sessIn[q]), Len(sessOut[q]))
    BY <2>4, <2>5, <2>6, <2>8, SumsMove DEF Agreed
  <2> QED
    BY <2>1, <2>2, <2>3, <2>7, <2>9 DEF Agreed
<1> QED
  BY <1>1, <1>6, <1>7 DEF Counts, Up

\* What is loaded is counted as it is.
LEMMA PrepCounts == ASSUME IInv, Counts, NEW sid \in Sessions, PrepSession(sid) PROVE Counts'
<1>1. /\ Up /\ at = "idle" /\ states[sid] = None /\ sessIn[sid] = <<>> /\ sessOut[sid] = <<>>
      /\ UNCHANGED <<module, at, owed>>
  BY DEF PrepSession
<1>2. PICK ins, outs :
         \/ UNCHANGED <<sessIn, sessOut, states>>
         \/ /\ ins \in Seq(Rows) /\ outs \in Seq(Rows)
            /\ sessIn' = [sessIn EXCEPT ![sid] = ins] /\ sessOut' = [sessOut EXCEPT ![sid] = outs]
            /\ states' = [states EXCEPT ![sid] = <<Len(ins), Len(outs)>>]
  <2>1. PICK turns \in {<<>>, <<<<"old", 0>>>>} :
           LET outs == [i \in DOMAIN turns |-> <<"reply", 0>>]
               rows == IF module.kind = "session" THEN <<turns \o outs, <<>>>> ELSE <<turns, outs>>
           IN  \/ UNCHANGED <<sessIn, sessOut, states>>
               \/ /\ sessIn' = NewSessionInput(sid, rows[1])
                  /\ sessOut' = NewSessionOutput(sid, rows[2])
                  /\ states' = [states EXCEPT ![sid] = <<Len(rows[1]), Len(rows[2])>>]
    BY DEF PrepSession
  <2> DEFINE outs == [i \in DOMAIN turns |-> <<"reply", 0>>]
             rows == IF module.kind = "session" THEN <<turns \o outs, <<>>>> ELSE <<turns, outs>>
  <2>2. PICK a \in Seq(Rows), b \in Seq(Rows) : rows = <<a, b>>
    <3>1. PICK a \in Seq(Rows), b \in Seq(Rows) :
             /\ a = IF module.kind = "session" THEN turns \o outs ELSE turns
             /\ b = IF module.kind = "session" THEN <<>> ELSE outs
      BY TurnRows
    <3> QED
      BY <3>1
  <2>3. \/ UNCHANGED <<sessIn, sessOut, states>>
        \/ /\ sessIn' = NewSessionInput(sid, rows[1]) /\ sessOut' = NewSessionOutput(sid, rows[2])
           /\ states' = [states EXCEPT ![sid] = <<Len(rows[1]), Len(rows[2])>>]
    BY <2>1, Zenon
  <2> HIDE DEF rows
  <2>4. rows[1] = a /\ rows[2] = b /\ <<>> \o a = a /\ <<>> \o b = b
    BY <2>2, ConcatEmptySeq
  <2>5. \/ UNCHANGED <<sessIn, sessOut, states>>
        \/ /\ sessIn' = [sessIn EXCEPT ![sid] = a] /\ sessOut' = [sessOut EXCEPT ![sid] = b]
           /\ states' = [states EXCEPT ![sid] = <<Len(a), Len(b)>>]
    BY <1>1, <2>3, <2>4, Zenon DEF NewSessionInput, NewSessionOutput
  <2> QED
    BY <2>5
<1>3. CASE UNCHANGED <<sessIn, sessOut, states>>
  BY <1>1, <1>3, QuietCounts DEF Pending
<1>4. CASE /\ ins \in Seq(Rows) /\ outs \in Seq(Rows)
           /\ sessIn' = [sessIn EXCEPT ![sid] = ins] /\ sessOut' = [sessOut EXCEPT ![sid] = outs]
           /\ states' = [states EXCEPT ![sid] = <<Len(ins), Len(outs)>>]
  <2>1. \A q \in Sessions : InHand(q) = 0 /\ InHand(q)' = 0
    BY <1>1 DEF InHand, Pending
  <2>2. PICK i \in Nat, o \in Nat : i = Len(ins) /\ o = Len(outs)
    BY <1>4
  <2>3. /\ states \in [Sessions -> {None} \cup (Nat \X Nat)]
        /\ sessIn \in [Sessions -> Seq(Rows)] /\ sessOut \in [Sessions -> Seq(Rows)]
    BY DEF Counts, IInv, Types
  <2>4. owed[sid] = 0
    <3>1. Counted(sid)[1] = 0 /\ Counted(sid)[2] = 0
      BY <1>1 DEF Counted
    <3>2. Len(sessIn[sid]) = 0 /\ Len(sessOut[sid]) = 0
      BY <1>1
    <3>3. Agreed(sid) /\ owed[sid] \in Int
      BY <1>1 DEF Counts
    <3> QED
      BY <2>1, <3>1, <3>2, <3>3 DEF Agreed, Sums
  <2>5. ASSUME NEW q \in Sessions PROVE Agreed(q)'
    <3>1. CASE q = sid
      <4>1. states'[q] = <<i, o>> /\ sessIn'[q] = ins /\ sessOut'[q] = outs /\ owed'[q] = 0
        BY <1>1, <1>4, <2>2, <2>3, <2>4, <3>1
      <4>2. Counted(q)' = <<i, o>>
        BY <4>1, NotNone DEF Counted
      <4>3. Counted(q)'[1] = i /\ Counted(q)'[2] = o /\ InHand(q)' = 0
        BY <2>1, <4>2
      <4> QED
        BY <2>2, <4>1, <4>3 DEF Agreed, Sums
    <3>2. CASE q # sid
      <4>1. /\ states'[q] = states[q] /\ sessIn'[q] = sessIn[q] /\ sessOut'[q] = sessOut[q]
            /\ owed' = owed /\ module' = module
        BY <1>1, <1>4, <2>3, <3>2
      <4>2. Counted(q)' = Counted(q) /\ InHand(q)' = InHand(q) /\ Agreed(q)
        BY <1>1, <2>1, <4>1 DEF Counted, Counts
      <4> QED
        BY <4>1, <4>2 DEF Agreed
    <3> QED
      BY <3>1, <3>2
  <2>6. states' \in [Sessions -> {None} \cup (Nat \X Nat)]
    BY <1>4, <2>2, <2>3
  <2> QED
    BY <1>1, <2>5, <2>6 DEF Counts, Up
<1> QED
  BY <1>2, <1>3, <1>4

\* A session that is closed has no rows and no count.
LEMMA CloseCounts == ASSUME IInv, Counts, NEW sid \in Sessions, CloseSession(sid) PROVE Counts'
<1>1. Up /\ at = "idle" /\ UNCHANGED <<module, at>>
  BY DEF CloseSession
<1>2. CASE locked
  <2>1. UNCHANGED <<sessIn, sessOut, states, owed>>
    BY <1>2 DEF CloseSession
  <2> QED
    BY <1>1, <2>1, QuietCounts DEF Pending
<1>3. CASE ~locked
  <2>1. /\ sessIn' = [sessIn EXCEPT ![sid] = <<>>] /\ sessOut' = [sessOut EXCEPT ![sid] = <<>>]
        /\ states' = [states EXCEPT ![sid] = None] /\ owed' = [owed EXCEPT ![sid] = 0]
    BY <1>3 DEF CloseSession, FreeSession
  <2>2. /\ states \in [Sessions -> {None} \cup (Nat \X Nat)] /\ owed \in [Sessions -> Int]
        /\ sessIn \in [Sessions -> Seq(Rows)] /\ sessOut \in [Sessions -> Seq(Rows)]
    BY DEF Counts, IInv, Types
  <2>3. ASSUME NEW q \in Sessions PROVE Agreed(q)'
    <3>1. InHand(q) = 0 /\ InHand(q)' = 0
      BY <1>1 DEF InHand, Pending
    <3>2. CASE q = sid
      <4>1. states'[q] = None /\ sessIn'[q] = <<>> /\ sessOut'[q] = <<>> /\ owed'[q] = 0
        BY <2>1, <2>2, <3>2
      <4>2. Counted(q)'[1] = 0 /\ Counted(q)'[2] = 0
        BY <4>1 DEF Counted
      <4>3. Len(sessIn'[q]) = 0 /\ Len(sessOut'[q]) = 0
        BY <4>1
      <4> QED
        BY <3>1, <4>1, <4>2, <4>3 DEF Agreed, Sums
    <3>3. CASE q # sid
      <4>1. /\ states'[q] = states[q] /\ sessIn'[q] = sessIn[q] /\ sessOut'[q] = sessOut[q]
            /\ owed'[q] = owed[q] /\ module' = module
        BY <1>1, <2>1, <2>2, <3>3
      <4>2. Counted(q)' = Counted(q) /\ InHand(q)' = InHand(q) /\ Agreed(q)
        BY <1>1, <3>1, <4>1 DEF Counted, Counts
      <4> QED
        BY <4>1, <4>2 DEF Agreed
    <3> QED
      BY <3>2, <3>3
  <2>4. states' \in [Sessions -> {None} \cup (Nat \X Nat)] /\ owed' \in [Sessions -> Int]
    BY <2>1, <2>2
  <2> QED
    BY <1>1, <2>3, <2>4 DEF Counts, Up
<1> QED
  BY <1>2, <1>3

\* No session has a row at first.
LEMMA InitCounts == Init => Counts
<1> SUFFICES ASSUME Init PROVE Counts
  OBVIOUS
<1>1. /\ states = [sid \in Sessions |-> None] /\ owed = [sid \in Sessions |-> 0]
      /\ sessIn = [sid \in Sessions |-> <<>>] /\ sessOut = [sid \in Sessions |-> <<>>]
      /\ module = None
  BY DEF Init
<1> QED
  BY <1>1 DEF Counts, Fresh, Up

\* Every step keeps the counts.
LEMMA NextCounts == IInv /\ Counts /\ [Next]_vars => Counts'
<1> SUFFICES ASSUME IInv, Counts, [Next]_vars PROVE Counts'
  OBVIOUS
<1>1. CASE Instantiate
  BY <1>1, InstantiateCounts
<1>2. CASE \E sid \in Sessions : CallSession(sid) \/ PrepSession(sid) \/ CloseSession(sid)
  BY <1>2, CallSessionCounts, PrepCounts, CloseCounts
<1>3. CASE Log \/ CallCapability \/ RegisterClient \/ LoseCapability \/ CallPlaybook \/ Panic
  <2>1. GuestStep
    BY <1>3, GuestSteps DEF IInv
  <2>2. /\ at = "guest" /\ at' \in {"guest", "trapped"}
        /\ UNCHANGED <<module, states, owed, sessIn, sessOut>>
    BY <2>1 DEF GuestStep, GoesOn, CutOff
  <2> QED
    BY <2>2, QuietCounts DEF Pending
<1>4. CASE Call \/ Return
  <2>1. /\ module.kind = "function" /\ Up /\ UNCHANGED <<module, states, owed, sessIn, sessOut>>
        /\ (at = "idle" /\ at' = "guest") \/ (at = "guest" /\ op.sid = None /\ op'.sid = op.sid)
    <3>1. CASE Call
      BY <3>1 DEF Call, history
    <3>2. CASE Return
      <4>1. PICK did \in {"value", "failure"} :
               op' = [op EXCEPT !.did = did,
                                !.result = <<IF did = "value" THEN Ok ELSE UserError, op.n>>]
        BY <3>2 DEF Return
      <4>2. op'.sid = op.sid
        BY <4>1 DEF IInv, Types, OpRecords
      <4> QED
        BY <3>2, <4>2 DEF Return, Running, history, IInv, Registries
    <3> QED
      BY <1>4, <3>1, <3>2
  <2> QED
    BY <2>1, QuietCounts, NoneAssumption DEF Pending
<1>5. CASE ReturnSession \/ ReadOutput
  BY <1>5, ReturnSessionCounts, ReadOutputCounts
<1>6. CASE ReadPanic \/ DropCall
  <2>1. /\ at \in {"trapped", "guest"} /\ at' = "idle"
        /\ UNCHANGED <<module, states, owed, sessIn, sessOut>>
    BY <1>6 DEF ReadPanic, DropCall, Running, guest
  <2> QED
    BY <2>1, QuietCounts DEF Pending
<1>7. CASE LogTask \/ UNCHANGED vars
  <2>1. UNCHANGED <<at, op, module, states, owed, sessIn, sessOut>>
    BY <1>7 DEF LogTask, vars, guest, history
  <2> QED
    BY <2>1, QuietCounts DEF Pending
<1> QED
  BY <1>1, <1>2, <1>3, <1>4, <1>5, <1>6, <1>7 DEF Next

\* For any sessions, number of calls and effects, and room for log lines: a call
\* is answered what its own user function did, with its own lines, and those
\* that dropped calls have left.
THEOREM OwnAnswers == Spec => []AnswersAreOwn
<1>1. IInv => AnswersAreOwn
  BY DEF IInv
<1> QED
  BY <1>1, Invariance, PTL

\* For the same: the registries are empty between calls, a session's function is
\* given the rows its client knows, and the host counts the rows the guest has.
THEOREM GuestAgrees == Spec => []GuestStateAgrees
<1>1. IInv /\ Counts => GuestStateAgrees
  <2> SUFFICES ASSUME IInv, Counts PROVE GuestStateAgrees
    OBVIOUS
  <2>1. ASSUME Up, at = "idle"
        PROVE  /\ input \subseteq {Specs} /\ output = {} /\ (locked => cut)
               /\ error # None => cut \/ ~module.errors
    BY <2>1 DEF IInv, Registries
  <2>2. ASSUME Up, at = "idle", NEW sid \in Sessions
        PROVE  IF module.kind = "session_diff"
               THEN /\ Counted(sid)[1] + owed[sid] = Len(sessIn[sid])
                    /\ Counted(sid)[2] = Len(sessOut[sid])
               ELSE Counted(sid)[1] + Counted(sid)[2] + owed[sid]
                       = Len(sessIn[sid]) + Len(sessOut[sid])
    <3>1. Agreed(sid) /\ InHand(sid) = 0
      BY <2>2 DEF Counts, InHand, Pending
    <3>2. Counted(sid)[1] \in Nat /\ Counted(sid)[2] \in Nat /\ owed[sid] \in Int
      BY CountedNumbers
    <3>3. Len(sessIn[sid]) \in Nat /\ Len(sessOut[sid]) \in Nat
      BY DEF IInv, Types
    <3>4. PICK i \in Nat, o \in Nat, w \in Int, m \in Nat, n \in Nat :
             /\ i = Counted(sid)[1] /\ o = Counted(sid)[2] /\ w = owed[sid]
             /\ m = Len(sessIn[sid]) /\ n = Len(sessOut[sid])
      BY <3>2, <3>3
    <3>5. IF module.kind = "session_diff" THEN i + w = m /\ o + 0 = n ELSE i + o + w + 0 = m + n
      BY <3>1, <3>4, Zenon DEF Agreed, Sums
    <3>6. IF module.kind = "session_diff" THEN i + w = m /\ o = n ELSE i + o + w = m + n
      BY <3>5
    <3> QED
      BY <3>4, <3>6, Zenon
  <2>3. at = "guest" /\ op.sid # None => op.saw = sent[op.sid]
    BY DEF IInv, SessionsAgree
  <2> QED
    BY <2>1, <2>2, <2>3 DEF GuestStateAgrees
<1>2. Spec => []Counts
  <2>1. IInv /\ IInv' /\ Counts /\ [Next]_vars => Counts'
    BY NextCounts
  <2> QED
    BY <2>1, InitCounts, Invariance, PTL DEF Spec
<1> QED
  BY <1>1, <1>2, Invariance, PTL
=============================================================================
