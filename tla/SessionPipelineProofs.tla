----------------------- MODULE SessionPipelineProofs -----------------------
(***************************************************************************)
(* Proofs about SessionPipeline, for any clients, limits, numbers of       *)
(* sessions, turns, disturbances and crashes.                              *)
(*                                                                         *)
(* That a step sees the history of its session and that an answered turn   *)
(* stays are not inductive.  A session that nobody disturbed is used by    *)
(* one client (OneUser), and between the lock and the answer its rows are  *)
(* in the WAL, in the WalWriter and in the memory of the module, but for   *)
(* what the step at hand has not written yet: InCall says which, for every *)
(* place a request waits at, and Idle what is left between requests.       *)
(* CallKept adds where the rows are that the answer will vouch for: in the *)
(* WAL until the rolled-up row is pushed, and in the output manager before *)
(* the files are removed.                                                  *)
(*                                                                         *)
(* Most steps are of one client and change one session: RequestStep,       *)
(* RequestStarts and RequestEnds say what has to be shown of such a step.  *)
(* An eviction, a crash and the writer of the output manager are not, and  *)
(* have proofs of their own.                                               *)
(***************************************************************************)
EXTENDS SessionPipeline, SequenceTheorems, WellFoundedInduction, TLAPS

\* The request of c is on session s, or c may make one.
Using(c, s) == job[c] # None /\ job[c].sid = s
Knows(c, s) == own[c] = s \/ Using(c, s)

\* Its session is being opened.
Opening(c) == \E pc \in {"evict", "files", "prep", "insert"} : At(c, pc)

\* The step of c has its status in the table.
Told(c) ==
  \/ (At(c, "open") \/ Opening(c)) /\ job[c].back \in {"output", "log"}
  \/ \E pc \in {"output", "log", "collect", "rollup", "merge", "cleanup", "callbacks"} : At(c, pc)

\* The module ran the step of c, and the WAL has not all of it yet, ...
Stepped(c) ==
  \/ At(c, "status") \/ At(c, "output")
  \/ At(c, "open") /\ job[c].back = "output"

\* ... or has it.
Written(c) ==
  \/ At(c, "open") /\ job[c].back = "log"
  \/ \E pc \in {"log", "collect", "rollup", "merge", "cleanup"} : At(c, pc)

\* A session that is not shared belongs to one client.
OneUser == \A s \in Sessions \ shared : \A c, d \in Clients : Knows(c, s) /\ Knows(d, s) => c = d

\* A session somebody was told, or whose step has set it, is in the table.
Listed ==
  /\ \A c \in Clients : own[c] # None => status[own[c]] # None
  /\ \A c \in Clients : Told(c) => status[job[c].sid] # None
  /\ \A c \in Clients : Stepped(c) \/ Told(c) => job[c].res \in Results

\* A session between requests is the same in its three places, or only on disk, or ended.
Same(s) == wal[s] # None /\ active[s] = wal[s] /\ history[s] = wal[s]
Empty(s) == active[s] = None /\ history[s] = <<>>
Idle(s) == Same(s) \/ Empty(s) \/ (active[s] = None /\ s \in Closed)

\* Where the rows of the session of c are while its request runs
InCall(c) ==
  LET s == job[c].sid
  IN /\ At(c, "open") /\ job[c].back \in {"prepped", "input"} => Idle(s)
     /\ Opening(c) => job[c].back \in {"prepped", "input"} /\ active[s] = None
     /\ At(c, "evict") \/ At(c, "files") \/ At(c, "prep") => history[s] = <<>>
     /\ At(c, "prep") \/ At(c, "insert") => wal[s] # None /\ job[c].rows = wal[s]
     /\ At(c, "insert") => history[s] = wal[s]
     /\ At(c, "prepped") \/ At(c, "input") => Same(s)
     /\ At(c, "input") \/ ((At(c, "open") \/ Opening(c)) /\ job[c].back = "input") => kind = "session"
     /\ At(c, "step") => wal[s] # None /\ active[s] = wal[s] /\ wal[s] = history[s] \o BeforeStep(c)
     /\ Stepped(c) => /\ wal[s] # None /\ active[s] = wal[s]
                      /\ history[s] = wal[s] \o PersistedRows(c, job[c].res)
     /\ Written(c) => Same(s)
     /\ Told(c) => status[s] = StatusAfter(job[c].res)
     /\ \A pc \in {"rollup", "merge", "cleanup", "callbacks"} : At(c, pc) => RollsUp(job[c].res)
     /\ At(c, "callbacks") => active[s] = None

\* What holds of the rows of a session, with a request and without
SessionOK(s) ==
  /\ (\A c \in Clients : ~Using(c, s)) => Idle(s)
  /\ \A c \in Clients : Using(c, s) => InCall(c)

RowsAgree == \A s \in Sessions : Undisturbed(s) => SessionOK(s)

\* The rows the answer to c vouches for, and those on disk of a session
Mine(c) == {Input(c)} \cup Range(OutputRows(c, job[c].res))
Kept(s) == Range(NewFile(wal[s])) \cup ArchivedRows(s)

\* They are where the answer needs them when it is given.
CallKept(c) ==
  LET s == job[c].sid
  IN /\ (At(c, "step") \/ Stepped(c)) /\ kind = "session" => Input(c) \in Range(wal[s])
     /\ Written(c) => Mine(c) \subseteq Range(wal[s])
     /\ At(c, "merge") \/ At(c, "cleanup") => Range(wal[s]) \subseteq ArchivedRows(s)
     /\ At(c, "callbacks") => Mine(c) \subseteq ArchivedRows(s)

\* The answered turns of a session are kept, and those of its request will be.
AckedKept(s) ==
  /\ acked[s] \subseteq Kept(s)
  /\ \A c \in Clients : Using(c, s) => CallKept(c)

TurnsKept == \A s \in Sessions \ lost : Undisturbed(s) => AckedKept(s)

\* The inductive invariant
SInv == TypeOK /\ OneUser /\ Listed /\ RowsAgree /\ TurnsKept

-----------------------------------------------------------------------------
(* Numbers and sequences *)

\* A set of naturals with a bound has a greatest element.
LEMMA MaxIsGreatest ==
  ASSUME NEW n \in Nat, NEW ids, ids \subseteq 0 .. n, ids # {}
  PROVE  Max(ids) \in ids /\ \A x \in ids : x <= Max(ids)
<1> DEFINE left == {n - x : x \in ids}
<1>1. left \subseteq Nat /\ left # {}
  <2>1. \A x \in ids : n - x \in Nat
    OBVIOUS
  <2>2. PICK x \in ids : TRUE
    OBVIOUS
  <2>3. n - x \in left
    BY <2>2
  <2> QED
    BY <2>1, <2>3
<1>2. PICK m \in left : \A y \in left : ~(<<y, m>> \in OpToRel(<, Nat))
  BY <1>1, NatLessThanWellFounded, WFMin
<1>3. \A y \in left : m <= y
  <2> TAKE y \in left
  <2>1. y \in Nat /\ m \in Nat
    BY <1>1, <1>2
  <2>2. ~(y < m)
    BY <1>2, <2>1 DEF OpToRel
  <2> QED
    BY <2>1, <2>2
<1>4. PICK x \in ids : m = n - x
  BY <1>2
<1>5. ASSUME NEW y \in ids PROVE y <= x
  <2>1. n - y \in left
    OBVIOUS
  <2>2. y \in Nat /\ x \in Nat
    BY <1>4
  <2>3. n - x <= n - y
    BY <1>3, <1>4, <2>1
  <2> QED
    BY <2>2, <2>3
<1> QED
  BY <1>5 DEF Max

\* A non-empty set of naturals has a least element.
LEMMA MinIsLeast ==
  ASSUME NEW ids, ids \subseteq Nat, ids # {}
  PROVE  Min(ids) \in ids
<1>2. PICK m \in ids : \A y \in ids : ~(<<y, m>> \in OpToRel(<, Nat))
  BY NatLessThanWellFounded, WFMin
<1>3. \A y \in ids : m <= y
  <2> TAKE y \in ids
  <2>1. y \in Nat /\ m \in Nat
    BY <1>2
  <2>2. ~(y < m)
    BY <1>2, <2>1 DEF OpToRel
  <2> QED
    BY <2>1, <2>2
<1> QED
  BY <1>3 DEF Min

\* What is known of the constants
LEMMA Constants ==
  /\ MaxSessions \in Nat \ {0} /\ MaxCrashes \in Nat
  /\ None \notin Nat /\ None \notin Seq(Rows) /\ None \notin Jobs
  /\ None \notin {"active", "succeeded", "failed"} /\ None \notin Sessions
  /\ \A S : <<>> \in Seq(S)
  /\ <<>> # None
<1>1. \A S : <<>> \in Seq(S)
  BY EmptySeq
<1>2. None \notin Nat /\ None \notin Seq(Rows) /\ None \notin Jobs
      /\ None \notin {"active", "succeeded", "failed"}
  BY NoneAssumption
<1>3. MaxSessions \in Nat \ {0} /\ MaxCrashes \in Nat
  BY BoundsAssumption
<1>4. Sessions \subseteq Nat
  BY <1>3 DEF Sessions
<1>5. <<>> # None
  BY <1>1, <1>2
<1> QED
  BY <1>1, <1>2, <1>3, <1>4, <1>5

\* The rows of a request are rows.
LEMMA RowsAreRows ==
  ASSUME ClientTypes, kind \in Kinds, NEW c \in Clients, NEW r
  PROVE  /\ Input(c) \in Rows /\ OutputRows(c, r) \in Seq(Rows) /\ <<Input(c)>> \in Seq(Rows)
         /\ PersistedRows(c, r) \in Seq(Rows) /\ BeforeStep(c) \in Seq(Rows)
         /\ <<Input(c)>> \o OutputRows(c, r) \in Seq(Rows)
         /\ Range(<<Input(c)>> \o OutputRows(c, r)) = {Input(c)} \cup Range(OutputRows(c, r))
         /\ kind = "session" => PersistedRows(c, r) = OutputRows(c, r)
         /\ kind = "session_diff" => PersistedRows(c, r) = <<Input(c)>> \o OutputRows(c, r)
<1>1. Input(c) \in Rows /\ Output(c) \in Rows
  BY DEF ClientTypes, Input, Output, Rows
<1>2. <<Input(c)>> \in Seq(Rows) /\ <<Output(c)>> \in Seq(Rows) /\ <<>> \in Seq(Rows)
  BY <1>1
<1>3. OutputRows(c, r) \in Seq(Rows)
  BY <1>2 DEF OutputRows
<1>4. <<Input(c)>> \o OutputRows(c, r) \in Seq(Rows)
      /\ Range(<<Input(c)>> \o OutputRows(c, r)) = Range(<<Input(c)>>) \cup Range(OutputRows(c, r))
  BY ZenonT(30), <1>2, <1>3, ConcatProperties, RangeConcatenation
<1>5. Range(<<Input(c)>>) = {Input(c)}
  BY DEF Range
<1>6. kind = "session" => PersistedRows(c, r) = OutputRows(c, r)
  BY DEF PersistedRows
<1>7. kind = "session_diff" => PersistedRows(c, r) = <<Input(c)>> \o OutputRows(c, r)
  BY DEF PersistedRows, StepRow
<1>8. BeforeStep(c) \in Seq(Rows)
  BY <1>2 DEF BeforeStep, DiffBeforeStep
<1>9. PersistedRows(c, r) \in Seq(Rows)
  BY <1>3, <1>4, <1>6, <1>7 DEF Kinds
<1> QED
  BY <1>1, <1>2, <1>3, <1>4, <1>5, <1>6, <1>7, <1>8, <1>9

\* lru_order without a session
LEMMA WithoutIsSeq ==
  ASSUME NEW S, NEW q \in Seq(S), NEW e
  PROVE  Without(q, e) \in Seq(S)
<1>1. CASE ~\E i \in 1 .. Len(q) : q[i] = e
  BY <1>1 DEF RemoveFirst, Without
<1>2. CASE \E i \in 1 .. Len(q) : q[i] = e
  <2>0. Len(q) \in Nat
    OBVIOUS
  <2>1. PICK i \in 1 .. Len(q) : RemoveFirst(q, e) = RemoveAt(q, i)
    <3> DEFINE I == {j \in 1 .. Len(q) : q[j] = e}
    <3>1. I \subseteq Nat /\ I # {}
      BY <1>2, <2>0
    <3>2. SelectInSeq(q, LAMBDA v : v = e) = IF I # {} THEN Min(I) ELSE 0
      BY DEF SelectInSeq
    <3>3. Min(I) \in I
      BY <3>1, MinIsLeast
    <3>4. SelectInSeq(q, LAMBDA v : v = e) \in 1 .. Len(q)
      BY <3>1, <3>2, <3>3
    <3> QED
      BY <1>2, <3>4 DEF RemoveFirst
  <2>2. SubSeq(q, 1, i - 1) \in Seq(S)
    BY <2>0, SubSeqProperties
  <2>3. SubSeq(q, i + 1, Len(q)) \in Seq(S)
    BY <2>0, SubSeqProperties
  <2>4. RemoveAt(q, i) \in Seq(S)
    BY <2>2, <2>3, ConcatProperties DEF RemoveAt
  <2> QED
    BY <2>1, <2>4 DEF Without
<1> QED
  BY <1>1, <1>2

-----------------------------------------------------------------------------
(* A step of one request *)

\* The step is one of client c, and of what is said here of sessions changes that of s0.
OnlyTouches(c, s0) ==
  /\ kind' = kind /\ torn' = torn
  /\ \A d \in Clients \ {c} : job'[d] = job[d] /\ turns'[d] = turns[d]
  /\ \A s \in Sessions \ {s0} :
       /\ wal'[s] = wal[s] /\ active'[s] = active[s] /\ history'[s] = history[s]
       /\ status'[s] = status[s] /\ acked'[s] = acked[s]
  /\ \A s \in Sessions : ArchivedRows(s) \subseteq ArchivedRows(s)'
  /\ shared \subseteq shared' /\ evicted \subseteq evicted' /\ lost \subseteq lost'
  /\ job[c] # None => job[c].sid = s0
  /\ job'[c] # None => job'[c].sid = s0

\* What is said of a request depends on it and on its session only.
LEMMA SameRequest ==
  ASSUME kind' = kind, NEW d \in Clients, job'[d] = job[d], turns'[d] = turns[d]
  PROVE  /\ \A pc : At(d, pc)' <=> At(d, pc)
         /\ Stepped(d)' <=> Stepped(d)
         /\ Written(d)' <=> Written(d)
         /\ Told(d)' <=> Told(d)
         /\ Opening(d)' <=> Opening(d)
         /\ Input(d)' = Input(d) /\ BeforeStep(d)' = BeforeStep(d)
         /\ \A r : PersistedRows(d, r)' = PersistedRows(d, r)
         /\ Mine(d)' = Mine(d)
         /\ \A s : Using(d, s)' <=> Using(d, s)
<1>1. \A pc : At(d, pc)' <=> At(d, pc)
  BY DEF At
<1>2. Input(d)' = Input(d) /\ Output(d)' = Output(d)
  BY DEF Input, Output
<1>3. \A r : OutputRows(d, r)' = OutputRows(d, r)
  BY <1>2 DEF OutputRows
<1>4. \A r : PersistedRows(d, r)' = PersistedRows(d, r)
  BY <1>2, <1>3 DEF PersistedRows, StepRow
<1>5. BeforeStep(d)' = BeforeStep(d)
  BY <1>2 DEF BeforeStep, DiffBeforeStep
<1>6. Mine(d)' = Mine(d)
  BY <1>2, <1>3 DEF Mine
<1>7. /\ (Stepped(d)' <=> Stepped(d)) /\ (Written(d)' <=> Written(d))
      /\ (Told(d)' <=> Told(d)) /\ (Opening(d)' <=> Opening(d))
  BY <1>1 DEF Stepped, Written, Told, Opening
<1>8. \A s : Using(d, s)' <=> Using(d, s)
  BY DEF Using
<1> QED
  BY <1>1, <1>2, <1>4, <1>5, <1>6, <1>7, <1>8

\* So what holds of the rows of a request holds after a step that leaves them alone.
LEMMA SameCall ==
  ASSUME kind' = kind, NEW d \in Clients, job'[d] = job[d], turns'[d] = turns[d],
         NEW s, Using(d, s), wal'[s] = wal[s], active'[s] = active[s], history'[s] = history[s],
         status'[s] = status[s], ArchivedRows(s) \subseteq ArchivedRows(s)'
  PROVE  (InCall(d) => InCall(d)') /\ (CallKept(d) => CallKept(d)')
<1>1. (Same(s)' <=> Same(s)) /\ (Empty(s)' <=> Empty(s)) /\ (s \in Closed' <=> s \in Closed)
  BY DEF Same, Empty, Closed
<1>2. Idle(s)' <=> Idle(s)
  BY <1>1 DEF Idle
<1>3. job[d].sid = s /\ job'[d].sid = s
  BY DEF Using
<1>4. InCall(d) => InCall(d)'
  BY ZenonT(30), <1>1, <1>2, <1>3, SameRequest DEF InCall
<1>5. CallKept(d) => CallKept(d)'
  BY <1>3, SameRequest DEF CallKept
<1> QED
  BY <1>4, <1>5

\* The rows of the output manager only grow, but for a crash.
LEMMA ElsewhereKept ==
  ASSUME RowsAgree, TurnsKept, NEW c \in Clients, NEW s0, OnlyTouches(c, s0),
         NEW s \in Sessions, s # s0, Undisturbed(s)'
  PROVE  SessionOK(s)' /\ (s \notin lost' => AckedKept(s)')
<1>1. Undisturbed(s) /\ (s \notin lost' => s \notin lost)
  BY DEF OnlyTouches, Undisturbed
<1>2. SessionOK(s) /\ (s \notin lost' => AckedKept(s))
  BY <1>1 DEF RowsAgree, TurnsKept
<1>3. \A d \in Clients : Using(d, s)' => d # c /\ Using(d, s)
  BY DEF OnlyTouches, Using
<1>4. \A d \in Clients : Using(d, s) => d # c /\ Using(d, s)'
  BY DEF OnlyTouches, Using
<1>5. /\ wal'[s] = wal[s] /\ active'[s] = active[s] /\ history'[s] = history[s]
      /\ status'[s] = status[s] /\ acked'[s] = acked[s]
      /\ ArchivedRows(s) \subseteq ArchivedRows(s)' /\ kind' = kind
  BY DEF OnlyTouches
<1>6. \A d \in Clients : Using(d, s)' => (InCall(d) => InCall(d)') /\ (CallKept(d) => CallKept(d)')
  <2> TAKE d \in Clients
  <2>1. HAVE Using(d, s)'
  <2>2. job'[d] = job[d] /\ turns'[d] = turns[d] /\ Using(d, s)
    BY <1>3, <2>1 DEF OnlyTouches
  <2> QED
    BY <1>5, <2>2, SameCall
<1>7. Idle(s) => Idle(s)'
  BY <1>5 DEF Idle, Same, Empty, Closed
<1>8. SessionOK(s)'
  BY <1>2, <1>3, <1>4, <1>6, <1>7 DEF SessionOK
<1>9. Kept(s) \subseteq Kept(s)'
  BY <1>5 DEF Kept, NewFile
<1>10. s \notin lost' => AckedKept(s)'
  BY <1>2, <1>3, <1>5, <1>6, <1>9 DEF AckedKept
<1> QED
  BY <1>8, <1>10

\* So only the session of the request is left to look at.
LEMMA OneRequestSteps ==
  ASSUME RowsAgree, TurnsKept, NEW c \in Clients, NEW s0 \in Sessions, OnlyTouches(c, s0),
         \A d \in Clients \ {c} : s0 \notin shared => ~Using(d, s0),
         Undisturbed(s0)' => IF job'[c] = None THEN Idle(s0)' ELSE InCall(c)',
         Undisturbed(s0)' /\ s0 \notin lost' =>
           acked'[s0] \subseteq Kept(s0)' /\ (job'[c] # None => CallKept(c)')
  PROVE  RowsAgree' /\ TurnsKept'
<1>1. \A d \in Clients \ {c} : Undisturbed(s0)' => ~Using(d, s0)'
  BY DEF OnlyTouches, Using, Undisturbed
<1>2. Using(c, s0)' <=> job'[c] # None
  BY DEF OnlyTouches, Using
<1>3. Undisturbed(s0)' => SessionOK(s0)'
  BY <1>1, <1>2 DEF SessionOK
<1>4. Undisturbed(s0)' /\ s0 \notin lost' => AckedKept(s0)'
  BY <1>1, <1>2 DEF AckedKept
<1>5. RowsAgree'
  BY <1>3, ElsewhereKept DEF RowsAgree
<1>6. TurnsKept'
  BY <1>4, ElsewhereKept DEF TurnsKept
<1> QED
  BY <1>5, <1>6

\* Nobody else uses the session of a request, unless it is known to be shared.
LEMMA AloneOn ==
  ASSUME OneUser, NEW c \in Clients, NEW s0 \in Sessions, Knows(c, s0)
  PROVE  \A d \in Clients \ {c} : s0 \notin shared => ~Using(d, s0)
BY DEF OneUser, Knows

\* Whoever has a session after the step had it before.
LEMMA StillOneUser ==
  ASSUME OneUser, shared \subseteq shared',
         \A d \in Clients, s \in Sessions : Knows(d, s)' => Knows(d, s)
  PROVE  OneUser'
BY DEF OneUser

\* Where the request of c is after a step
MovedTo(c, pc, back, res, rows) ==
  /\ job' \in [Clients -> Jobs \cup {None}]
  /\ job'[c] # None /\ job'[c].pc = pc /\ job'[c].back = back /\ job'[c].sid = job[c].sid
  /\ job'[c].res = res /\ job'[c].rows = rows
  /\ \A d \in Clients \ {c} : job'[d] = job[d]

\* The request of a client is one.
LEMMA JobIsJob ==
  ASSUME ClientTypes, NEW c \in Clients, job[c] # None
  PROVE  /\ job[c] \in Jobs /\ job[c].sid \in Sessions /\ job[c].rows \in Seq(Rows)
         /\ job[c].res \in Results \cup {None}
         /\ job[c].back \in {"prepped", "input", "output", "log"}
<1>1. job[c] \in Jobs
  BY DEF ClientTypes
<1> QED
  BY <1>1 DEF Jobs

\* The ways a request moves on
LEMMA Moves ==
  ASSUME ClientTypes, NEW c \in Clients, job[c] # None, NEW pc \in Places
  PROVE  /\ Goto(c, pc) => MovedTo(c, pc, job[c].back, job[c].res, job[c].rows)
         /\ \A back \in {"prepped", "input", "output", "log"} :
              OpenThen(c, back) => MovedTo(c, "open", back, job[c].res, job[c].rows)
         /\ \A rows \in Seq(Rows) :
              job' = [job EXCEPT ![c].pc = pc, ![c].rows = rows]
                => MovedTo(c, pc, job[c].back, job[c].res, rows)
         /\ \A r \in Results :
              job' = [job EXCEPT ![c].pc = pc, ![c].res = r]
                => MovedTo(c, pc, job[c].back, r, job[c].rows)
<1>0. job[c] \in Jobs /\ job \in [Clients -> Jobs \cup {None}]
  BY JobIsJob DEF ClientTypes
<1>1. \A j \in Jobs : j # None
  BY Constants
<1>2. ASSUME NEW j \in Jobs, job' = [job EXCEPT ![c] = j], j.sid = job[c].sid
      PROVE  MovedTo(c, j.pc, j.back, j.res, j.rows)
  BY <1>0, <1>1, <1>2 DEF MovedTo
<1>3. ASSUME Goto(c, pc) PROVE MovedTo(c, pc, job[c].back, job[c].res, job[c].rows)
  <2> DEFINE j == [job[c] EXCEPT !.pc = pc]
  <2>1. j \in Jobs /\ j.sid = job[c].sid /\ j.pc = pc /\ j.back = job[c].back /\ j.res = job[c].res
        /\ j.rows = job[c].rows
    BY <1>0 DEF Jobs
  <2>2. job' = [job EXCEPT ![c] = j]
    BY <1>0, <1>3 DEF Goto
  <2> HIDE DEF j
  <2>3. MovedTo(c, j.pc, j.back, j.res, j.rows)
    BY <1>2, <2>1, <2>2
  <2> QED
    BY <2>1, <2>3
<1>4. ASSUME NEW back \in {"prepped", "input", "output", "log"}, OpenThen(c, back)
      PROVE  MovedTo(c, "open", back, job[c].res, job[c].rows)
  <2>0. "open" \in Places
    BY DEF Places
  <2> DEFINE j == [job[c] EXCEPT !.pc = "open", !.back = back]
  <2>1. j \in Jobs /\ j.sid = job[c].sid /\ j.pc = "open" /\ j.back = back /\ j.res = job[c].res
        /\ j.rows = job[c].rows
    BY <1>0, <2>0 DEF Jobs
  <2>2. job' = [job EXCEPT ![c] = j]
    BY <1>0, <1>4 DEF OpenThen
  <2> HIDE DEF j
  <2>3. MovedTo(c, j.pc, j.back, j.res, j.rows)
    BY <1>2, <2>1, <2>2
  <2> QED
    BY <2>1, <2>3
<1>5. ASSUME NEW rows \in Seq(Rows), job' = [job EXCEPT ![c].pc = pc, ![c].rows = rows]
      PROVE  MovedTo(c, pc, job[c].back, job[c].res, rows)
  <2> DEFINE j == [job[c] EXCEPT !.pc = pc, !.rows = rows]
  <2>1. j \in Jobs /\ j.sid = job[c].sid /\ j.pc = pc /\ j.back = job[c].back /\ j.res = job[c].res
        /\ j.rows = rows
    BY <1>0 DEF Jobs
  <2>2. job' = [job EXCEPT ![c] = j]
    BY <1>0, <1>5
  <2> HIDE DEF j
  <2>3. MovedTo(c, j.pc, j.back, j.res, j.rows)
    BY <1>2, <2>1, <2>2
  <2> QED
    BY <2>1, <2>3
<1>6. ASSUME NEW r \in Results, job' = [job EXCEPT ![c].pc = pc, ![c].res = r]
      PROVE  MovedTo(c, pc, job[c].back, r, job[c].rows)
  <2>0. r \in Results \cup {None}
    BY <1>6
  <2> DEFINE j == [job[c] EXCEPT !.pc = pc, !.res = r]
  <2>1. j \in Jobs /\ j.sid = job[c].sid /\ j.pc = pc /\ j.back = job[c].back /\ j.res = r
        /\ j.rows = job[c].rows
    BY <1>0, <2>0 DEF Jobs
  <2>2. job' = [job EXCEPT ![c] = j]
    BY <1>0, <1>6
  <2> HIDE DEF j
  <2>3. MovedTo(c, j.pc, j.back, j.res, j.rows)
    BY <1>2, <2>1, <2>2
  <2> QED
    BY <2>1, <2>3
<1> QED
  BY <1>3, <1>4, <1>5, <1>6

\* What that says of it, before and after the step
PlaceIs(c, pc, back) ==
  /\ \A q : At(c, q) <=> q = pc
  /\ Stepped(c) <=> pc \in {"status", "output"} \/ (pc = "open" /\ back = "output")
  /\ Written(c) <=> pc \in {"log", "collect", "rollup", "merge", "cleanup"} \/ (pc = "open" /\ back = "log")
  /\ Told(c) <=> pc \in {"output", "log", "collect", "rollup", "merge", "cleanup", "callbacks"}
                 \/ (pc \in {"open", "evict", "files", "prep", "insert"} /\ back \in {"output", "log"})
  /\ Opening(c) <=> pc \in {"evict", "files", "prep", "insert"}

\* It holds of where a request is, ...
LEMMA Place ==
  ASSUME NEW c \in Clients, job[c] # None
  PROVE  PlaceIs(c, job[c].pc, job[c].back)
<1>1. \A q : At(c, q) <=> q = job[c].pc
  BY DEF At
<1> QED
  BY <1>1 DEF PlaceIs, Stepped, Written, Told, Opening

\* ... and of where it is after a step.
LEMMA Placed ==
  ASSUME NEW c \in Clients, NEW pc, NEW back, NEW res, NEW rows, MovedTo(c, pc, back, res, rows)
  PROVE  PlaceIs(c, pc, back)'
<1>1. \A q : At(c, q)' <=> q = pc
  BY DEF At, MovedTo
<1>2. job'[c].back = back
  BY DEF MovedTo
<1> QED
  BY <1>1, <1>2 DEF PlaceIs, Stepped, Written, Told, Opening

\* Nothing about who has which session changes when a request moves on.
LEMMA MovedListed ==
  ASSUME OneUser, Listed, NEW c \in Clients, job[c] # None, NEW pc, NEW back, NEW res, NEW rows,
         MovedTo(c, pc, back, res, rows), own' = own, shared \subseteq shared',
         \A s \in Sessions : status[s] # None => status'[s] # None,
         own \in [Clients -> MaybeSessions], job \in [Clients -> Jobs \cup {None}],
         Told(c)' => status'[job[c].sid] # None,
         Stepped(c)' \/ Told(c)' => res \in Results
  PROVE  OneUser' /\ Listed'
<1>1. \A d \in Clients, s \in Sessions : Knows(d, s)' => Knows(d, s)
  BY DEF Knows, Using, MovedTo
<1>2. OneUser'
  BY <1>1, StillOneUser
<1>3. \A d \in Clients : own'[d] # None => status'[own'[d]] # None
  BY DEF Listed, MaybeSessions
<1>4. \A d \in Clients \ {c} : /\ job'[d] = job[d]
                               /\ (Told(d)' <=> Told(d)) /\ (Stepped(d)' <=> Stepped(d))
  <2> TAKE d \in Clients \ {c}
  <2>1. job'[d] = job[d]
    BY DEF MovedTo
  <2>2. \A q : At(d, q)' <=> At(d, q)
    BY <2>1 DEF At
  <2> QED
    BY <2>1, <2>2 DEF Told, Stepped, Opening
<1>5. \A d \in Clients : job[d] # None => job[d].sid \in Sessions
  BY DEF Jobs
<1>6. \A d \in Clients : Told(d) => job[d] # None
  BY DEF Told, Opening, At
<1>7. \A d \in Clients : Told(d)' => status'[job'[d].sid] # None
  BY <1>4, <1>5, <1>6 DEF Listed, MovedTo
<1>8. \A d \in Clients : Stepped(d)' \/ Told(d)' => job'[d].res \in Results
  BY <1>4 DEF Listed, MovedTo
<1> QED
  BY <1>2, <1>3, <1>7, <1>8 DEF Listed

\* What is known of a request when it takes a step
LEMMA CallOf ==
  ASSUME TypeOK, RowsAgree, TurnsKept, NEW c \in Clients, NEW s \in Sessions, Using(c, s),
         shared \subseteq shared', evicted \subseteq evicted', lost \subseteq lost', torn' = torn
  PROVE  /\ Undisturbed(s)' => InCall(c)
         /\ Undisturbed(s)' /\ s \notin lost' => acked[s] \subseteq Kept(s) /\ CallKept(c)
<1>2. Undisturbed(s)' => Undisturbed(s)
  BY DEF Undisturbed
<1>4. Undisturbed(s) => InCall(c)
  BY DEF RowsAgree, SessionOK
<1>5. Undisturbed(s) /\ s \notin lost => acked[s] \subseteq Kept(s) /\ CallKept(c)
  BY DEF TurnsKept, AckedKept
<1> QED
  BY <1>2, <1>4, <1>5

\* The rows of a request are those of its turn.
LEMMA SameRows ==
  ASSUME kind' = kind, turns' = turns, NEW c \in Clients
  PROVE  /\ Input(c)' = Input(c) /\ BeforeStep(c)' = BeforeStep(c)
         /\ \A r : PersistedRows(c, r)' = PersistedRows(c, r) /\ OutputRows(c, r)' = OutputRows(c, r)
<1>1. Input(c)' = Input(c) /\ Output(c)' = Output(c)
  BY DEF Input, Output
<1>2. \A r : OutputRows(c, r)' = OutputRows(c, r)
  BY <1>1 DEF OutputRows
<1> QED
  BY <1>1, <1>2 DEF PersistedRows, StepRow, BeforeStep, DiffBeforeStep

-----------------------------------------------------------------------------
(* A request goes on *)

\* A step by which a request goes on: what has to be shown of it.
LEMMA RequestStep ==
  ASSUME SInv, NEW c \in Clients, NEW s \in Sessions, Using(c, s), NEW pc, NEW back, NEW res, NEW rows,
         MovedTo(c, pc, back, res, rows), OnlyTouches(c, s), TypeOK', own' = own,
         status[s] # None \/ Told(c)' => status'[s] # None,
         Stepped(c)' \/ Told(c)' => res \in Results,
         Undisturbed(s)' /\ InCall(c) => InCall(c)',
         Undisturbed(s)' /\ InCall(c) /\ acked[s] \subseteq Kept(s) /\ CallKept(c) /\ s \notin lost'
           => acked'[s] \subseteq Kept(s)' /\ CallKept(c)'
  PROVE  SInv'
<1>0. shared \subseteq shared' /\ evicted \subseteq evicted' /\ lost \subseteq lost' /\ torn' = torn
  BY DEF OnlyTouches
<1>a. job[c] # None /\ job[c].sid = s
  BY DEF Using
<1>1. OneUser' /\ Listed'
  <2>1. \A t \in Sessions : status[t] # None => status'[t] # None
    BY DEF OnlyTouches
  <2> QED
    BY <1>0, <1>a, <2>1, MovedListed DEF SInv, TypeOK, ClientTypes
<1>2. Undisturbed(s)' => InCall(c)'
  BY <1>0, CallOf DEF SInv
<1>3. Undisturbed(s)' /\ s \notin lost' => acked'[s] \subseteq Kept(s)' /\ CallKept(c)'
  BY <1>0, CallOf DEF SInv
<1>4. RowsAgree' /\ TurnsKept'
  <2>1. Knows(c, s) /\ job'[c] # None
    BY DEF Knows, MovedTo
  <2>2. \A d \in Clients \ {c} : s \notin shared => ~Using(d, s)
    BY <2>1, AloneOn DEF SInv
  <2> QED
    BY <1>2, <1>3, <2>1, <2>2, OneRequestSteps DEF SInv
<1> QED
  BY <1>1, <1>4 DEF SInv

\* The session is active: its rows are in memory already.
LEMMA FindActiveStep ==
  ASSUME SInv, NEW c \in Clients, FindActive(c)
  PROVE  SInv'
<1>0. job[c] # None /\ At(c, "open") /\ active[job[c].sid] # None /\ Goto(c, job[c].back)
      /\ lru' = Touched(job[c].sid)
  BY DEF FindActive, Reached, At
<1>u. UNCHANGED <<kind, rollups, maxActive, torn, status, wal, slog, log, archive, rolled, persisted, active,
                  history, own, turns, fired, said, acked, shared, evicted, cut, lost, crashes>>
  BY DEF FindActive, config, diskVars, clientVars, ghostVars
<1>a. PICK s \in Sessions : s = job[c].sid
  BY <1>0, JobIsJob DEF SInv, TypeOK
<1>p. PICK back \in {"prepped", "input", "output", "log"} : back = job[c].back
  BY <1>0, JobIsJob DEF SInv, TypeOK
<1>b. back \in Places
  BY DEF Places
<1>c. MovedTo(c, back, back, job[c].res, job[c].rows)
  BY <1>0, <1>b, <1>p, Moves DEF SInv, TypeOK
<1>q. PlaceIs(c, back, back)' /\ PlaceIs(c, "open", back)
  BY <1>0, <1>c, <1>p, Place, Placed DEF At
<1>d. OnlyTouches(c, s)
  BY <1>a, <1>u, <1>c DEF OnlyTouches, MovedTo, ArchivedRows
<1>e. Using(c, s)
  BY <1>0, <1>a DEF Using
<1>1. TypeOK'
  <2>1. lru' \in Seq(Sessions)
    <3>1. Without(lru, s) \in Seq(Sessions)
      BY WithoutIsSeq DEF SInv, TypeOK, MemTypes
    <3> QED
      BY <1>0, <1>a, <3>1, AppendProperties DEF Touched
  <2>2. MemTypes'
    BY <1>u, <2>1 DEF MemTypes, SInv, TypeOK
  <2>3. (DiskTypes /\ HistoryTypes)'
    BY <1>u DEF DiskTypes, HistoryTypes, SInv, TypeOK
  <2>4. ClientTypes'
    BY <1>u, <1>c DEF ClientTypes, MovedTo, SInv, TypeOK
  <2> QED
    BY <1>u, <2>2, <2>3, <2>4 DEF SInv, TypeOK
<1>2. status[s] # None \/ Told(c)' => status'[s] # None
  BY <1>a, <1>p, <1>q, <1>u DEF PlaceIs, SInv, Listed
<1>3. Stepped(c)' \/ Told(c)' => job[c].res \in Results
  BY <1>p, <1>q DEF PlaceIs, SInv, Listed
<1>4. ASSUME Undisturbed(s)', InCall(c) PROVE InCall(c)'
  <2>1. Idle(s) => Same(s)
    BY <1>0, <1>a DEF Idle, Empty
  <2>2. job'[c].sid = s /\ job'[c].back = back /\ job'[c].rows = job[c].rows /\ job'[c].res = job[c].res
    BY <1>a, <1>c DEF MovedTo
  <2>3. Same(s)' <=> Same(s)
    BY <1>u DEF Same
  <2>4. \A r : PersistedRows(c, r)' = PersistedRows(c, r)
    BY <1>u, SameRows
  <2>5. CASE back \in {"prepped", "input"}
    <3>1. Same(s) /\ (back = "input" => kind = "session")
      BY <1>0, <1>a, <1>p, <1>4, <2>1, <2>5 DEF InCall
    <3> QED
      BY <1>a, <1>q, <1>u, <2>2, <2>3, <2>5, <3>1 DEF InCall, PlaceIs
  <2>6. CASE back \in {"output", "log"}
    BY ZenonT(30), <1>0, <1>a, <1>p, <1>q, <1>u, <1>4, <2>2, <2>3, <2>4, <2>6 DEF InCall, PlaceIs
  <2> QED
    BY <1>p, <2>5, <2>6
<1>5. ASSUME acked[s] \subseteq Kept(s), CallKept(c) PROVE acked'[s] \subseteq Kept(s)' /\ CallKept(c)'
  <2>1. Kept(s)' = Kept(s) /\ ArchivedRows(s)' = ArchivedRows(s)
    BY <1>u DEF Kept, ArchivedRows, NewFile
  <2>2. Mine(c)' = Mine(c) /\ Input(c)' = Input(c)
    BY <1>c, <1>u, SameRows DEF Mine, MovedTo
  <2> QED
    BY <1>a, <1>b, <1>c, <1>u, <1>p, <1>q, <1>5, <2>1, <2>2 DEF CallKept, MovedTo, PlaceIs
<1> QED
  BY <1>1, <1>2, <1>3, <1>4, <1>5, <1>c, <1>d, <1>e, <1>u, RequestStep

\* data_wal.append
LEMMA Appended ==
  ASSUME SInv, NEW s \in Sessions, NEW rows \in Seq(Rows), AppendRows(s, rows), active[s] # None,
         torn' = torn
  PROVE  /\ DiskTypes' /\ MemTypes'
         /\ \A t \in Sessions \ {s} : wal'[t] = wal[t] /\ active'[t] = active[t]
         /\ active'[s] = active[s] \o rows
         /\ wal[s] # None => /\ wal'[s] = wal[s] \o rows /\ wal'[s] # None
                             /\ Range(wal'[s]) = Range(wal[s]) \cup Range(rows)
         /\ Kept(s) \subseteq Kept(s)' /\ \A t \in Sessions : ArchivedRows(t)' = ArchivedRows(t)
<1>1. UNCHANGED <<status, slog, log, archive, rolled, persisted, lru, history>>
  BY DEF AppendRows
<1>2. wal \in [Sessions -> Seq(Rows) \cup {None}] /\ active \in [Sessions -> Seq(Rows) \cup {None}]
  BY DEF SInv, TypeOK, DiskTypes, MemTypes
<1>3. active[s] \o rows \in Seq(Rows)
  BY <1>2, ConcatProperties
<1>4. wal[s] # None => /\ wal[s] \o rows \in Seq(Rows) /\ wal[s] \o rows # None
                       /\ Range(wal[s] \o rows) = Range(wal[s]) \cup Range(rows)
  <2>1. HAVE wal[s] # None
  <2>2. wal[s] \in Seq(Rows)
    BY <1>2, <2>1
  <2>3. wal[s] \o rows \in Seq(Rows)
    BY <2>2, ConcatProperties
  <2>4. Range(wal[s] \o rows) = Range(wal[s]) \cup Range(rows)
    BY <2>2, RangeConcatenation
  <2> QED
    BY <2>3, <2>4, Constants
<1>5. wal' = [wal EXCEPT ![s] = IF wal[s] = None THEN None ELSE wal[s] \o rows]
  BY <1>2 DEF AppendRows
<1>6. active' = [active EXCEPT ![s] = active[s] \o rows]
  BY <1>2 DEF AppendRows
<1>7. DiskTypes'
  <2>1. wal' \in [Sessions -> Seq(Rows) \cup {None}]
    BY <1>2, <1>4, <1>5
  <2>2. \A t \in Sessions : wal'[t] = None <=> slog'[t] = None
    BY <1>1, <1>2, <1>4, <1>5 DEF SInv, TypeOK, DiskTypes
  <2>3. UNCHANGED <<status, slog, torn, log, archive>>
    BY <1>1
  <2> QED
    BY <2>1, <2>2, <2>3 DEF SInv, TypeOK, DiskTypes
<1>8. MemTypes'
  <2>1. active' \in [Sessions -> Seq(Rows) \cup {None}]
    BY <1>2, <1>3, <1>6
  <2> QED
    BY <1>1, <2>1 DEF SInv, TypeOK, MemTypes
<1>9. \A t \in Sessions : ArchivedRows(t)' = ArchivedRows(t)
  BY <1>1 DEF ArchivedRows
<1>10. wal[s] # None => wal'[s] = wal[s] \o rows
  BY <1>2, <1>5
<1>11. Range(NewFile(wal[s])) \subseteq Range(NewFile(wal'[s]))
  BY <1>2, <1>4, <1>5 DEF NewFile
<1>12. Kept(s) \subseteq Kept(s)'
  BY <1>9, <1>11 DEF Kept, NewFile
<1> QED
  BY <1>2, <1>4, <1>5, <1>6, <1>7, <1>8, <1>9, <1>10, <1>12

\* push_record
LEMMA RolledUpRow ==
  ASSUME SInv, NEW row \in RolledRows, rolled' = Append(rolled, row), UNCHANGED <<archive, persisted>>
  PROVE  /\ rolled' \in Seq(RolledRows) /\ persisted' \in 0 .. Len(rolled')
         /\ \A s \in Sessions : ArchivedRows(s) \subseteq ArchivedRows(s)'
         /\ Range(row.rows) \subseteq ArchivedRows(row.session)'
<1>1. rolled \in Seq(RolledRows) /\ archive \in Seq(RolledRows) /\ persisted \in 0 .. Len(rolled)
  BY DEF SInv, TypeOK, DiskTypes, MemTypes
<1>2. rolled' \in Seq(RolledRows) /\ Len(rolled') = Len(rolled) + 1
  BY <1>1, AppendProperties
<1>3. Range(rolled') = Range(rolled) \cup {row}
  BY SMTT(30), <1>1, AppendProperties DEF Range
<1>4. Range(archive \o rolled) = Range(archive) \cup Range(rolled)
  BY <1>1, RangeConcatenation
<1>5. Range(archive \o rolled') = Range(archive) \cup Range(rolled')
  <2>1. \A q \in Seq(RolledRows) : Range(archive \o q) = Range(archive) \cup Range(q)
    BY <1>1, RangeConcatenation
  <2> QED
    BY <1>2, <2>1
<1>6. Range(archive' \o rolled') = Range(archive \o rolled) \cup {row}
  BY <1>3, <1>4, <1>5
<1>7. \A s \in Sessions : ArchivedRows(s) \subseteq ArchivedRows(s)'
  BY <1>6 DEF ArchivedRows
<1>8. Range(row.rows) \subseteq ArchivedRows(row.session)'
  BY <1>6 DEF ArchivedRows
<1>9. persisted' \in 0 .. Len(rolled')
  BY <1>1, <1>2
<1> QED
  BY <1>2, <1>7, <1>8, <1>9

\* It is not, and has not ended: the module has no rows of it.
LEMMA BeginOpenStep ==
  ASSUME SInv, NEW c \in Clients, BeginOpen(c)
  PROVE  SInv'
<1>0. job[c] # None /\ At(c, "open")
      /\ active[job[c].sid] = None
      /\ MayOpen(job[c].sid)
      /\ Goto(c, "evict")
  BY DEF BeginOpen, Reached, At
<1>u. UNCHANGED <<kind, rollups, maxActive, torn, status, wal, slog, log, archive, rolled, persisted,
                  active, lru, history, own, turns, fired, said, acked, shared, evicted, cut,
                  lost, crashes>>
  BY DEF BeginOpen, config, diskVars, memVars, clientVars, ghostVars
<1>a. PICK s \in Sessions, back \in {"prepped", "input", "output", "log"} :
        s = job[c].sid /\ back = job[c].back
  BY <1>0, JobIsJob DEF SInv, TypeOK
<1>e. Using(c, s)
  BY <1>0, <1>a DEF Using
<1>c. MovedTo(c, "evict", back, job[c].res, job[c].rows)
  BY <1>0, <1>a, Moves DEF SInv, TypeOK, Places
<1>q. PlaceIs(c, "evict", back)' /\ PlaceIs(c, "open", back)
  BY <1>0, <1>a, <1>c, Place, Placed DEF At
<1>d. OnlyTouches(c, s)
  BY <1>0, <1>a, <1>u, <1>c DEF OnlyTouches, MovedTo, ArchivedRows
<1>1. TypeOK'
  <2>1. (DiskTypes /\ MemTypes /\ HistoryTypes)'
    BY <1>u DEF DiskTypes, MemTypes, HistoryTypes, SInv, TypeOK
  <2>2. ClientTypes'
    BY <1>u, <1>c DEF ClientTypes, MovedTo, SInv, TypeOK
  <2> QED
    BY <1>u, <2>1, <2>2 DEF SInv, TypeOK
<1>2. status[s] # None \/ Told(c)' => status'[s] # None
  BY <1>0, <1>a, <1>q, <1>u DEF PlaceIs, SInv, Listed
<1>3. Stepped(c)' \/ Told(c)' => job[c].res \in Results
  BY <1>a, <1>q DEF PlaceIs, SInv, Listed
<1>4. ASSUME Undisturbed(s)', InCall(c) PROVE InCall(c)'
  <2>1. back \in {"prepped", "input"} /\ Idle(s)
    BY <1>0, <1>a, <1>q, <1>4 DEF InCall, PlaceIs, Same
  <2>2. history[s] = <<>>
    BY <1>0, <1>a, <2>1 DEF Idle, Same, Empty, MayOpen
  <2> QED
    BY <1>0, <1>a, <1>c, <1>u, <1>q, <1>4, <2>1, <2>2 DEF InCall, MovedTo, PlaceIs
<1>5. ASSUME InCall(c), acked[s] \subseteq Kept(s), CallKept(c), s \notin lost'
      PROVE  acked'[s] \subseteq Kept(s)' /\ CallKept(c)'
  <2>1. Kept(s)' = Kept(s) /\ ArchivedRows(s)' = ArchivedRows(s)
    BY <1>u DEF Kept, ArchivedRows, NewFile
  <2> QED
    BY <1>a, <1>c, <1>u, <1>q, <1>5, <2>1 DEF CallKept, MovedTo, PlaceIs
<1> QED
  BY <1>1, <1>2, <1>3, <1>4, <1>5, <1>a, <1>c, <1>d, <1>e, <1>u, RequestStep

\* What recover() gives are rows, also of a WAL with a frame cut short.
LEMMA RecoveredIsSeq ==
  ASSUME SInv, NEW s \in Sessions, NEW rows \in RecoveredRows(s)
  PROVE  rows \in Seq(Rows) /\ (torn[s] = None => rows = NewFile(wal[s]))
<1>1. NewFile(wal[s]) \in Seq(Rows) /\ Len(NewFile(wal[s])) \in Nat
  BY Constants DEF SInv, TypeOK, DiskTypes, NewFile
<1>2. \A k \in 0 .. Len(NewFile(wal[s])) : SubSeq(NewFile(wal[s]), 1, k) \in Seq(Rows)
  BY <1>1, SubSeqProperties
<1> QED
  BY <1>1, <1>2 DEF RecoveredRows


\* The rows recovered are those of the WAL.
LEMMA OpenFilesStep ==
  ASSUME SInv, NEW c \in Clients, OpenFiles(c)
  PROVE  SInv'
<1>0. job[c] # None /\ At(c, "files")
      /\ wal' = [wal EXCEPT ![job[c].sid] = NewFile(@)]
      /\ slog' = [slog EXCEPT ![job[c].sid] = IF @ = None THEN 0 ELSE @]
      /\ \E rows \in RecoveredRows(job[c].sid) :
           job' = [job EXCEPT ![c].pc = "prep", ![c].rows = rows]
  BY DEF OpenFiles, Reached, At
<1>u. UNCHANGED <<kind, rollups, maxActive, torn, status, log, archive, rolled, persisted, active, lru,
                  history, own, turns, fired, said, acked, shared, evicted, cut, lost, crashes>>
  BY DEF OpenFiles, config, diskVars, memVars, clientVars, ghostVars
<1>a. PICK s \in Sessions, back \in {"prepped", "input", "output", "log"} :
        s = job[c].sid /\ back = job[c].back
  BY <1>0, JobIsJob DEF SInv, TypeOK
<1>e. Using(c, s)
  BY <1>0, <1>a DEF Using
<1>f. NewFile(wal[s]) \in Seq(Rows) /\ NewFile(wal[s]) # None
  BY Constants DEF NewFile, SInv, TypeOK, DiskTypes
<1>g. wal'[s] = NewFile(wal[s]) /\ \A t \in Sessions \ {s} : wal'[t] = wal[t]
  BY <1>0, <1>a DEF SInv, TypeOK, DiskTypes
<1>r. PICK rows \in RecoveredRows(s) : job' = [job EXCEPT ![c].pc = "prep", ![c].rows = rows]
  BY <1>0, <1>a
<1>h. rows \in Seq(Rows) /\ (torn[s] = None => rows = NewFile(wal[s]))
  BY <1>r, RecoveredIsSeq
<1>c. MovedTo(c, "prep", back, job[c].res, rows)
  BY <1>0, <1>a, <1>r, <1>h, Moves DEF SInv, TypeOK, Places
<1>q. PlaceIs(c, "prep", back)' /\ PlaceIs(c, "files", back)
  BY <1>0, <1>a, <1>c, Place, Placed DEF At
<1>d. OnlyTouches(c, s)
  BY <1>a, <1>u, <1>c, <1>g DEF OnlyTouches, MovedTo, ArchivedRows
<1>1. TypeOK'
  <2>1. DiskTypes'
    <3>1. wal' \in [Sessions -> Seq(Rows) \cup {None}] /\ wal' = [wal EXCEPT ![s] = NewFile(wal[s])]
      BY <1>0, <1>a, <1>f DEF SInv, TypeOK, DiskTypes
    <3>2. slog' \in [Sessions -> Nat \cup {None}]
          /\ slog' = [slog EXCEPT ![s] = IF slog[s] = None THEN 0 ELSE slog[s]]
      BY <1>0, <1>a DEF SInv, TypeOK, DiskTypes
    <3>3. \A t \in Sessions : wal'[t] = None <=> slog'[t] = None
      BY <1>f, <3>1, <3>2, Constants DEF SInv, TypeOK, DiskTypes
    <3> QED
      BY <1>u, <3>1, <3>2, <3>3 DEF SInv, TypeOK, DiskTypes
  <2>2. (MemTypes /\ HistoryTypes)'
    BY <1>u DEF MemTypes, HistoryTypes, SInv, TypeOK
  <2>3. ClientTypes'
    BY <1>u, <1>c DEF ClientTypes, MovedTo, SInv, TypeOK
  <2> QED
    BY <1>u, <2>1, <2>2, <2>3 DEF SInv, TypeOK
<1>2. status[s] # None \/ Told(c)' => status'[s] # None
  BY <1>0, <1>a, <1>q, <1>u DEF PlaceIs, SInv, Listed
<1>3. Stepped(c)' \/ Told(c)' => job[c].res \in Results
  BY <1>a, <1>q DEF PlaceIs, SInv, Listed
<1>4. ASSUME Undisturbed(s)', InCall(c) PROVE InCall(c)'
  <2>1. rows = NewFile(wal[s])
    BY <1>h, <1>u, <1>4 DEF Undisturbed
  <2> QED
    BY <1>0, <1>a, <1>c, <1>f, <1>g, <1>u, <1>q, <1>4, <2>1 DEF InCall, MovedTo, PlaceIs
<1>5. ASSUME InCall(c), acked[s] \subseteq Kept(s), CallKept(c), s \notin lost'
      PROVE  acked'[s] \subseteq Kept(s)' /\ CallKept(c)'
  <2>1. Kept(s)' = Kept(s)
    BY <1>f, <1>g, <1>u DEF Kept, ArchivedRows, NewFile
  <2> QED
    BY <1>a, <1>c, <1>u, <1>q, <1>5, <2>1 DEF CallKept, MovedTo, PlaceIs
<1> QED
  BY <1>1, <1>2, <1>3, <1>4, <1>5, <1>a, <1>c, <1>d, <1>e, <1>u, RequestStep

\* They become the memory of the module, which had none.
LEMMA PrepHistoryStep ==
  ASSUME SInv, NEW c \in Clients, PrepHistory(c)
  PROVE  SInv'
<1>0. job[c] # None /\ At(c, "prep")
      /\ history' = [history EXCEPT ![job[c].sid] = @ \o job[c].rows]
      /\ Goto(c, "insert")
  BY DEF PrepHistory, Reached, At
<1>u. UNCHANGED <<kind, rollups, maxActive, torn, status, wal, slog, log, archive, rolled, persisted,
                  active, lru, own, turns, fired, said, acked, shared, evicted, cut, lost,
                  crashes>>
  BY DEF PrepHistory, config, diskVars, memVars, clientVars, ghostVars
<1>a. PICK s \in Sessions, back \in {"prepped", "input", "output", "log"} :
        s = job[c].sid /\ back = job[c].back
  BY <1>0, JobIsJob DEF SInv, TypeOK
<1>e. Using(c, s)
  BY <1>0, <1>a DEF Using
<1>f. job[c].rows \in Seq(Rows) /\ history[s] \in Seq(Rows) /\ history[s] \o job[c].rows \in Seq(Rows)
  BY <1>0, JobIsJob, ConcatProperties DEF SInv, TypeOK, MemTypes
<1>g. history' = [history EXCEPT ![s] = history[s] \o job[c].rows] /\ history \in [Sessions -> Seq(Rows)]
  BY <1>0, <1>a DEF SInv, TypeOK, MemTypes
<1>c. MovedTo(c, "insert", back, job[c].res, job[c].rows)
  BY <1>0, <1>a, Moves DEF SInv, TypeOK, Places
<1>q. PlaceIs(c, "insert", back)' /\ PlaceIs(c, "prep", back)
  BY <1>0, <1>a, <1>c, Place, Placed DEF At
<1>d. OnlyTouches(c, s)
  BY <1>a, <1>u, <1>c, <1>g DEF OnlyTouches, MovedTo, ArchivedRows
<1>1. TypeOK'
  <2>1. MemTypes'
    BY <1>f, <1>g, <1>u DEF SInv, TypeOK, MemTypes
  <2>2. (DiskTypes /\ HistoryTypes)'
    BY <1>u DEF DiskTypes, HistoryTypes, SInv, TypeOK
  <2>3. ClientTypes'
    BY <1>u, <1>c DEF ClientTypes, MovedTo, SInv, TypeOK
  <2> QED
    BY <1>u, <2>1, <2>2, <2>3 DEF SInv, TypeOK
<1>2. status[s] # None \/ Told(c)' => status'[s] # None
  BY <1>0, <1>a, <1>q, <1>u DEF PlaceIs, SInv, Listed
<1>3. Stepped(c)' \/ Told(c)' => job[c].res \in Results
  BY <1>a, <1>q DEF PlaceIs, SInv, Listed
<1>4. ASSUME Undisturbed(s)', InCall(c) PROVE InCall(c)'
  <2>1. history[s] = <<>> => history'[s] = job[c].rows
    BY <1>f, <1>g, ConcatEmptySeq
  <2> QED
    BY <1>0, <1>a, <1>c, <1>u, <1>q, <1>4, <2>1 DEF InCall, MovedTo, PlaceIs
<1>5. ASSUME InCall(c), acked[s] \subseteq Kept(s), CallKept(c), s \notin lost'
      PROVE  acked'[s] \subseteq Kept(s)' /\ CallKept(c)'
  <2>1. Kept(s)' = Kept(s) /\ ArchivedRows(s)' = ArchivedRows(s)
    BY <1>u DEF Kept, ArchivedRows, NewFile
  <2> QED
    BY <1>a, <1>c, <1>u, <1>q, <1>5, <2>1 DEF CallKept, MovedTo, PlaceIs
<1> QED
  BY <1>1, <1>2, <1>3, <1>4, <1>5, <1>a, <1>c, <1>d, <1>e, <1>u, RequestStep

\* And the rows of the WalWriter: the session is the same everywhere.
LEMMA InsertActiveStep ==
  ASSUME SInv, NEW c \in Clients, InsertActive(c)
  PROVE  SInv'
<1>0. job[c] # None /\ At(c, "insert")
      /\ active' = Activated(job[c].sid, job[c].rows)
      /\ lru' = Append(lru, job[c].sid)
      /\ Goto(c, job[c].back)
  BY DEF InsertActive, Reached, At
<1>u. UNCHANGED <<kind, rollups, maxActive, torn, status, wal, slog, log, archive, rolled, persisted,
                  history, own, turns, fired, said, acked, shared, evicted, cut, lost, crashes>>
  BY DEF InsertActive, config, diskVars, memVars, clientVars, ghostVars
<1>a. PICK s \in Sessions, back \in {"prepped", "input", "output", "log"} :
        s = job[c].sid /\ back = job[c].back
  BY <1>0, JobIsJob DEF SInv, TypeOK
<1>e. Using(c, s)
  BY <1>0, <1>a DEF Using
<1>f. job[c].rows \in Seq(Rows)
  BY <1>0, JobIsJob DEF SInv, TypeOK
<1>g. active' = [active EXCEPT ![s] = job[c].rows] /\ active \in [Sessions -> Seq(Rows) \cup {None}]
  BY <1>0, <1>a DEF SInv, TypeOK, MemTypes, Activated
<1>c. MovedTo(c, back, back, job[c].res, job[c].rows)
  BY <1>0, <1>a, Moves DEF SInv, TypeOK, Places
<1>q. PlaceIs(c, back, back)' /\ PlaceIs(c, "insert", back)
  BY <1>0, <1>a, <1>c, Place, Placed DEF At
<1>d. OnlyTouches(c, s)
  BY <1>a, <1>u, <1>c, <1>g DEF OnlyTouches, MovedTo, ArchivedRows
<1>1. TypeOK'
  <2>1. MemTypes'
    <3>1. lru' \in Seq(Sessions)
      BY <1>0, <1>a, AppendProperties DEF SInv, TypeOK, MemTypes
    <3> QED
      BY <1>f, <1>g, <1>u, <3>1 DEF SInv, TypeOK, MemTypes
  <2>2. (DiskTypes /\ HistoryTypes)'
    BY <1>u DEF DiskTypes, HistoryTypes, SInv, TypeOK
  <2>3. ClientTypes'
    BY <1>u, <1>c DEF ClientTypes, MovedTo, SInv, TypeOK
  <2> QED
    BY <1>u, <2>1, <2>2, <2>3 DEF SInv, TypeOK
<1>2. status[s] # None \/ Told(c)' => status'[s] # None
  BY <1>a, <1>q, <1>u DEF PlaceIs, SInv, Listed
<1>3. Stepped(c)' \/ Told(c)' => job[c].res \in Results
  BY <1>a, <1>q DEF PlaceIs, SInv, Listed
<1>4. ASSUME Undisturbed(s)', InCall(c) PROVE InCall(c)'
  BY <1>0, <1>a, <1>c, <1>g, <1>u, <1>q, <1>4 DEF InCall, MovedTo, PlaceIs, Same
<1>5. ASSUME InCall(c), acked[s] \subseteq Kept(s), CallKept(c), s \notin lost'
      PROVE  acked'[s] \subseteq Kept(s)' /\ CallKept(c)'
  <2>0. back \in {"prepped", "input"}
    BY <1>a, <1>q, <1>5 DEF InCall, PlaceIs
  <2>1. Kept(s)' = Kept(s) /\ ArchivedRows(s)' = ArchivedRows(s)
    BY <1>u DEF Kept, ArchivedRows, NewFile
  <2> QED
    BY <1>a, <1>c, <1>u, <1>q, <1>5, <2>0, <2>1 DEF CallKept, MovedTo, PlaceIs
<1> QED
  BY <1>1, <1>2, <1>3, <1>4, <1>5, <1>a, <1>c, <1>d, <1>e, <1>u, RequestStep

\* call() of a session opens it once more.
LEMMA PreparedSessionStep ==
  ASSUME SInv, NEW c \in Clients, Prepared(c), PreparedSession(c)
  PROVE  SInv'
<1>0. job[c] # None /\ At(c, "prepped")
      /\ active[job[c].sid] # None
      /\ kind = "session"
      /\ OpenThen(c, "input")
  BY DEF Prepared, PreparedSession, Reached, At
<1>u. UNCHANGED <<kind, rollups, maxActive, torn, status, wal, slog, log, archive, rolled, persisted,
                  active, lru, history, own, turns, fired, said, acked, shared, evicted, cut,
                  lost, crashes>>
  BY DEF Prepared, config, diskVars, memVars, clientVars, ghostVars
<1>a. PICK s \in Sessions, back \in {"prepped", "input", "output", "log"} :
        s = job[c].sid /\ back = job[c].back
  BY <1>0, JobIsJob DEF SInv, TypeOK
<1>e. Using(c, s)
  BY <1>0, <1>a DEF Using
<1>c. MovedTo(c, "open", "input", job[c].res, job[c].rows)
  BY <1>0, <1>a, Moves DEF SInv, TypeOK, Places
<1>q. PlaceIs(c, "open", "input")' /\ PlaceIs(c, "prepped", back)
  BY <1>0, <1>a, <1>c, Place, Placed DEF At
<1>d. OnlyTouches(c, s)
  BY <1>0, <1>a, <1>u, <1>c DEF OnlyTouches, MovedTo, ArchivedRows
<1>1. TypeOK'
  <2>1. (DiskTypes /\ MemTypes /\ HistoryTypes)'
    BY <1>u DEF DiskTypes, MemTypes, HistoryTypes, SInv, TypeOK
  <2>2. ClientTypes'
    BY <1>u, <1>c DEF ClientTypes, MovedTo, SInv, TypeOK
  <2> QED
    BY <1>u, <2>1, <2>2 DEF SInv, TypeOK
<1>2. status[s] # None \/ Told(c)' => status'[s] # None
  BY <1>0, <1>a, <1>q, <1>u DEF PlaceIs, SInv, Listed
<1>3. Stepped(c)' \/ Told(c)' => job[c].res \in Results
  BY <1>a, <1>q DEF PlaceIs, SInv, Listed
<1>4. ASSUME Undisturbed(s)', InCall(c) PROVE InCall(c)'
  BY <1>0, <1>a, <1>c, <1>u, <1>q, <1>4 DEF InCall, MovedTo, PlaceIs, Same, Idle
<1>5. ASSUME InCall(c), acked[s] \subseteq Kept(s), CallKept(c), s \notin lost'
      PROVE  acked'[s] \subseteq Kept(s)' /\ CallKept(c)'
  <2>1. Kept(s)' = Kept(s) /\ ArchivedRows(s)' = ArchivedRows(s)
    BY <1>u DEF Kept, ArchivedRows, NewFile
  <2> QED
    BY <1>a, <1>c, <1>u, <1>q, <1>5, <2>1 DEF CallKept, MovedTo, PlaceIs
<1> QED
  BY <1>1, <1>2, <1>3, <1>4, <1>5, <1>a, <1>c, <1>d, <1>e, <1>u, RequestStep

\* call() of a session_diff goes to the step with nothing appended.
LEMMA PreparedDiffStep ==
  ASSUME SInv, NEW c \in Clients, Prepared(c), PreparedDiff(c)
  PROVE  SInv'
<1>0. job[c] # None /\ At(c, "prepped")
      /\ active[job[c].sid] # None
      /\ kind = "session_diff"
      /\ Goto(c, "step")
  BY DEF Prepared, PreparedDiff, Reached, At
<1>u. UNCHANGED <<kind, rollups, maxActive, torn, status, wal, slog, log, archive, rolled, persisted,
                  active, lru, history, own, turns, fired, said, acked, shared, evicted, cut,
                  lost, crashes>>
  BY DEF Prepared, config, diskVars, memVars, clientVars, ghostVars
<1>a. PICK s \in Sessions, back \in {"prepped", "input", "output", "log"} :
        s = job[c].sid /\ back = job[c].back
  BY <1>0, JobIsJob DEF SInv, TypeOK
<1>e. Using(c, s)
  BY <1>0, <1>a DEF Using
<1>c. MovedTo(c, "step", back, job[c].res, job[c].rows)
  BY <1>0, <1>a, Moves DEF SInv, TypeOK, Places
<1>q. PlaceIs(c, "step", back)' /\ PlaceIs(c, "prepped", back)
  BY <1>0, <1>a, <1>c, Place, Placed DEF At
<1>d. OnlyTouches(c, s)
  BY <1>0, <1>a, <1>u, <1>c DEF OnlyTouches, MovedTo, ArchivedRows
<1>1. TypeOK'
  <2>1. (DiskTypes /\ MemTypes /\ HistoryTypes)'
    BY <1>u DEF DiskTypes, MemTypes, HistoryTypes, SInv, TypeOK
  <2>2. ClientTypes'
    BY <1>u, <1>c DEF ClientTypes, MovedTo, SInv, TypeOK
  <2> QED
    BY <1>u, <2>1, <2>2 DEF SInv, TypeOK
<1>2. status[s] # None \/ Told(c)' => status'[s] # None
  BY <1>0, <1>a, <1>q, <1>u DEF PlaceIs, SInv, Listed
<1>3. Stepped(c)' \/ Told(c)' => job[c].res \in Results
  BY <1>a, <1>q DEF PlaceIs, SInv, Listed
<1>4. ASSUME Undisturbed(s)', InCall(c) PROVE InCall(c)'
  <2>1. BeforeStep(c)' = <<>>
    BY <1>0, <1>u DEF BeforeStep, DiffBeforeStep
  <2>2. history[s] \o <<>> = history[s]
    BY ConcatEmptySeq DEF SInv, TypeOK, MemTypes
  <2> QED
    BY <1>0, <1>a, <1>c, <1>u, <1>q, <1>4, <2>1, <2>2 DEF InCall, MovedTo, PlaceIs, Same
<1>5. ASSUME InCall(c), acked[s] \subseteq Kept(s), CallKept(c), s \notin lost'
      PROVE  acked'[s] \subseteq Kept(s)' /\ CallKept(c)'
  <2>1. Kept(s)' = Kept(s) /\ ArchivedRows(s)' = ArchivedRows(s)
    BY <1>u DEF Kept, ArchivedRows, NewFile
  <2> QED
    BY <1>0, <1>a, <1>c, <1>u, <1>q, <1>5, <2>1 DEF CallKept, MovedTo, PlaceIs
<1> QED
  BY <1>1, <1>2, <1>3, <1>4, <1>5, <1>a, <1>c, <1>d, <1>e, <1>u, RequestStep

\* The WAL is ahead of the module by the input.
LEMMA AppendInputStep ==
  ASSUME SInv, NEW c \in Clients, AppendInput(c)
  PROVE  SInv'
<1>0. job[c] # None /\ At(c, "input")
      /\ active[job[c].sid] # None
      /\ AppendRows(job[c].sid, <<Input(c)>>)
      /\ Goto(c, "step")
  BY DEF AppendInput, Reached, At, AppendRows
<1>u. UNCHANGED <<kind, rollups, maxActive, torn, status, slog, log, archive, rolled, persisted, lru,
                  history, own, turns, fired, said, acked, shared, evicted, cut, lost, crashes>>
  BY DEF AppendInput, config, diskVars, memVars, clientVars, ghostVars, AppendRows
<1>a. PICK s \in Sessions, back \in {"prepped", "input", "output", "log"} :
        s = job[c].sid /\ back = job[c].back
  BY <1>0, JobIsJob DEF SInv, TypeOK
<1>e. Using(c, s)
  BY <1>0, <1>a DEF Using
<1>f. <<Input(c)>> \in Seq(Rows) /\ Range(<<Input(c)>>) = {Input(c)}
  BY RowsAreRows DEF SInv, TypeOK, Range
<1>g. /\ DiskTypes' /\ MemTypes'
      /\ \A t \in Sessions \ {s} : wal'[t] = wal[t] /\ active'[t] = active[t]
      /\ active'[s] = active[s] \o <<Input(c)>>
      /\ wal[s] # None => /\ wal'[s] = wal[s] \o <<Input(c)>> /\ wal'[s] # None
                          /\ Range(wal'[s]) = Range(wal[s]) \cup {Input(c)}
      /\ Kept(s) \subseteq Kept(s)' /\ \A t \in Sessions : ArchivedRows(t)' = ArchivedRows(t)
  BY <1>0, <1>a, <1>f, <1>u, Appended
<1>c. MovedTo(c, "step", back, job[c].res, job[c].rows)
  BY <1>0, <1>a, Moves DEF SInv, TypeOK, Places
<1>q. PlaceIs(c, "step", back)' /\ PlaceIs(c, "input", back)
  BY <1>0, <1>a, <1>c, Place, Placed DEF At
<1>d. OnlyTouches(c, s)
  BY <1>a, <1>u, <1>c, <1>g DEF OnlyTouches, MovedTo
<1>1. TypeOK'
  <2>1. DiskTypes'
    BY <1>g
  <2>2. MemTypes'
    BY <1>g
  <2>3. HistoryTypes'
    BY <1>u DEF HistoryTypes, SInv, TypeOK
  <2>4. ClientTypes'
    BY <1>u, <1>c DEF ClientTypes, MovedTo, SInv, TypeOK
  <2> QED
    BY <1>u, <2>1, <2>2, <2>3, <2>4 DEF SInv, TypeOK
<1>2. status[s] # None \/ Told(c)' => status'[s] # None
  BY <1>0, <1>a, <1>q, <1>u DEF PlaceIs, SInv, Listed
<1>3. Stepped(c)' \/ Told(c)' => job[c].res \in Results
  BY <1>a, <1>q DEF PlaceIs, SInv, Listed
<1>4. ASSUME Undisturbed(s)', InCall(c) PROVE InCall(c)'
  <2>1. kind = "session" /\ Same(s)
    BY <1>a, <1>q, <1>4 DEF InCall, PlaceIs
  <2>2. BeforeStep(c)' = <<Input(c)>>
    BY <1>u, <2>1 DEF BeforeStep, Input
  <2> QED
    BY <1>a, <1>c, <1>g, <1>u, <1>q, <2>1, <2>2 DEF InCall, MovedTo, PlaceIs, Same
<1>5. ASSUME InCall(c), acked[s] \subseteq Kept(s), CallKept(c), s \notin lost'
      PROVE  acked'[s] \subseteq Kept(s)' /\ CallKept(c)'
  <2>1. wal[s] # None /\ Input(c)' = Input(c)
    BY <1>a, <1>q, <1>u, <1>5 DEF InCall, PlaceIs, Same, Input
  <2> QED
    BY <1>a, <1>c, <1>g, <1>u, <1>q, <1>5, <2>1 DEF CallKept, MovedTo, PlaceIs
<1> QED
  BY <1>1, <1>2, <1>3, <1>4, <1>5, <1>a, <1>c, <1>d, <1>e, <1>u, RequestStep

\* The module is ahead of the WAL by what call() appends next.
LEMMA CallModuleStep ==
  ASSUME SInv, NEW c \in Clients, NEW r \in Results, CallModule(c, r)
  PROVE  SInv'
<1>0. job[c] # None /\ At(c, "step")
      /\ history' = [history EXCEPT ![job[c].sid] = @ \o (<<Input(c)>> \o OutputRows(c, r))]
      /\ said' = [said EXCEPT ![job[c].sid] = @ \o (<<Input(c)>> \o OutputRows(c, r))]
      /\ job' = [job EXCEPT ![c].pc = "status", ![c].res = r]
  BY DEF CallModule, Reached, At
<1>u. UNCHANGED <<kind, rollups, maxActive, torn, status, wal, slog, log, archive, rolled, persisted,
                  active, lru, own, turns, fired, acked, shared, evicted, cut, lost, crashes>>
  BY DEF CallModule, config, diskVars, memVars, clientVars, ghostVars
<1>a. PICK s \in Sessions, back \in {"prepped", "input", "output", "log"} :
        s = job[c].sid /\ back = job[c].back
  BY <1>0, JobIsJob DEF SInv, TypeOK
<1>e. Using(c, s)
  BY <1>0, <1>a DEF Using
<1>f. /\ <<Input(c)>> \o OutputRows(c, r) \in Seq(Rows) /\ <<Input(c)>> \in Seq(Rows)
      /\ OutputRows(c, r) \in Seq(Rows) /\ history[s] \in Seq(Rows)
      /\ history[s] \o (<<Input(c)>> \o OutputRows(c, r)) \in Seq(Rows)
  BY RowsAreRows, ConcatProperties DEF SInv, TypeOK, MemTypes
<1>g. /\ history' = [history EXCEPT ![s] = history[s] \o (<<Input(c)>> \o OutputRows(c, r))]
      /\ history \in [Sessions -> Seq(Rows)]
  BY <1>0, <1>a DEF SInv, TypeOK, MemTypes
<1>c. MovedTo(c, "status", back, r, job[c].rows)
  BY <1>0, <1>a, Moves DEF SInv, TypeOK, Places
<1>q. PlaceIs(c, "status", back)' /\ PlaceIs(c, "step", back)
  BY <1>0, <1>a, <1>c, Place, Placed DEF At
<1>d. OnlyTouches(c, s)
  BY <1>a, <1>u, <1>c, <1>g DEF OnlyTouches, MovedTo, ArchivedRows
<1>1. TypeOK'
  <2>1. MemTypes'
    BY <1>f, <1>g, <1>u DEF SInv, TypeOK, MemTypes
  <2>2. HistoryTypes'
    <3>1. said \in [Sessions -> Seq(Rows)] /\ said[s] \o (<<Input(c)>> \o OutputRows(c, r)) \in Seq(Rows)
      BY <1>f, ConcatProperties DEF SInv, TypeOK, HistoryTypes
    <3> QED
      BY <1>0, <1>a, <1>u, <3>1 DEF SInv, TypeOK, HistoryTypes
  <2>3. DiskTypes'
    BY <1>u DEF DiskTypes, SInv, TypeOK
  <2>4. ClientTypes'
    BY <1>u, <1>c DEF ClientTypes, MovedTo, SInv, TypeOK
  <2> QED
    BY <1>u, <2>1, <2>2, <2>3, <2>4 DEF SInv, TypeOK
<1>2. status[s] # None \/ Told(c)' => status'[s] # None
  BY <1>0, <1>a, <1>q, <1>u DEF PlaceIs, SInv, Listed
<1>3. Stepped(c)' \/ Told(c)' => r \in Results
  OBVIOUS
<1>4. ASSUME Undisturbed(s)', InCall(c) PROVE InCall(c)'
  <2>1. /\ wal[s] # None /\ active[s] = wal[s] /\ wal[s] = history[s] \o BeforeStep(c)
    BY <1>a, <1>q, <1>4 DEF InCall, PlaceIs
  <2>2. history'[s] = wal[s] \o PersistedRows(c, r)
    <3>1. CASE kind = "session"
      <4>1. BeforeStep(c) = <<Input(c)>> /\ PersistedRows(c, r) = OutputRows(c, r)
        BY <3>1 DEF BeforeStep, PersistedRows
      <4>2. history[s] \o (<<Input(c)>> \o OutputRows(c, r)) = (history[s] \o <<Input(c)>>) \o OutputRows(c, r)
        <5>1. \A x, y, z \in Seq(Rows) : (x \o y) \o z = x \o (y \o z)
          BY ConcatAssociative
        <5> QED
          BY <1>f, <5>1
      <4> QED
        BY <1>g, <2>1, <4>1, <4>2
    <3>2. CASE kind = "session_diff"
      <4>1. BeforeStep(c) = <<>> /\ PersistedRows(c, r) = <<Input(c)>> \o OutputRows(c, r)
        BY <3>2 DEF BeforeStep, DiffBeforeStep, PersistedRows, StepRow
      <4>2. wal[s] = history[s]
        BY <1>f, <2>1, <4>1, ConcatEmptySeq
      <4> QED
        BY <1>g, <4>1, <4>2
    <3> QED
      BY <3>1, <3>2 DEF SInv, TypeOK, Kinds
  <2>3. PersistedRows(c, r)' = PersistedRows(c, r)
    BY <1>u, SameRows
  <2> QED
    BY <1>a, <1>c, <1>u, <1>q, <2>1, <2>2, <2>3 DEF InCall, MovedTo, PlaceIs
<1>5. ASSUME InCall(c), acked[s] \subseteq Kept(s), CallKept(c), s \notin lost'
      PROVE  acked'[s] \subseteq Kept(s)' /\ CallKept(c)'
  <2>1. Kept(s)' = Kept(s) /\ Input(c)' = Input(c)
    BY <1>u DEF Kept, ArchivedRows, NewFile, Input
  <2> QED
    BY <1>a, <1>c, <1>u, <1>q, <1>5, <2>1 DEF CallKept, MovedTo, PlaceIs
<1> QED
  BY <1>1, <1>2, <1>3, <1>4, <1>5, <1>a, <1>c, <1>d, <1>e, <1>u, RequestStep

\* The status is that of the result.
LEMMA PersistStatusStep ==
  ASSUME SInv, NEW c \in Clients, PersistStatus(c)
  PROVE  SInv'
<1>0. job[c] # None /\ At(c, "status")
      /\ status' = [status EXCEPT ![job[c].sid] = StatusAfter(job[c].res)]
      /\ OpenThen(c, "output")
  BY DEF PersistStatus, Reached, At, StatusSet
<1>u. UNCHANGED <<kind, rollups, maxActive, torn, wal, slog, log, archive, rolled, persisted, active,
                  lru, history, own, turns, fired, said, acked, shared, evicted, cut, lost,
                  crashes>>
  BY DEF PersistStatus, config, diskVars, memVars, clientVars, ghostVars, StatusSet
<1>a. PICK s \in Sessions, back \in {"prepped", "input", "output", "log"} :
        s = job[c].sid /\ back = job[c].back
  BY <1>0, JobIsJob DEF SInv, TypeOK
<1>e. Using(c, s)
  BY <1>0, <1>a DEF Using
<1>g. /\ StatusAfter(job[c].res) \in {"active", "succeeded", "failed"} /\ StatusAfter(job[c].res) # None
      /\ status' = [status EXCEPT ![s] = StatusAfter(job[c].res)]
      /\ status \in [Sessions -> {None, "active", "succeeded", "failed"}]
  BY <1>0, <1>a, Constants DEF SInv, TypeOK, DiskTypes, StatusAfter
<1>c. MovedTo(c, "open", "output", job[c].res, job[c].rows)
  BY <1>0, <1>a, Moves DEF SInv, TypeOK, Places
<1>q. PlaceIs(c, "open", "output")' /\ PlaceIs(c, "status", back)
  BY <1>0, <1>a, <1>c, Place, Placed DEF At
<1>d. OnlyTouches(c, s)
  BY <1>a, <1>u, <1>c, <1>g DEF OnlyTouches, MovedTo, ArchivedRows
<1>1. TypeOK'
  <2>1. DiskTypes'
    BY <1>g, <1>u DEF SInv, TypeOK, DiskTypes
  <2>2. (MemTypes /\ HistoryTypes)'
    BY <1>u DEF MemTypes, HistoryTypes, SInv, TypeOK
  <2>3. ClientTypes'
    BY <1>u, <1>c DEF ClientTypes, MovedTo, SInv, TypeOK
  <2> QED
    BY <1>u, <2>1, <2>2, <2>3 DEF SInv, TypeOK
<1>2. status[s] # None \/ Told(c)' => status'[s] # None
  BY <1>g
<1>3. Stepped(c)' \/ Told(c)' => job[c].res \in Results
  BY <1>a, <1>q DEF PlaceIs, SInv, Listed
<1>4. ASSUME Undisturbed(s)', InCall(c) PROVE InCall(c)'
  <2>2. PersistedRows(c, job[c].res)' = PersistedRows(c, job[c].res)
    <3>1. job'[c].res = job[c].res
      BY <1>c DEF MovedTo
    <3> QED
      BY <1>u, <3>1, SameRows
  <2>3. wal[s] # None /\ active[s] = wal[s] /\ history[s] = wal[s] \o PersistedRows(c, job[c].res)
    BY <1>a, <1>q, <1>4 DEF InCall, PlaceIs
  <2>4. status'[s] = StatusAfter(job'[c].res)
    BY <1>c, <1>g DEF MovedTo
  <2> QED
    BY <1>a, <1>c, <1>u, <1>q, <2>2, <2>3, <2>4 DEF InCall, MovedTo, PlaceIs
<1>5. ASSUME InCall(c), acked[s] \subseteq Kept(s), CallKept(c), s \notin lost'
      PROVE  acked'[s] \subseteq Kept(s)' /\ CallKept(c)'
  <2>1. Input(c)' = Input(c) /\ Kept(s)' = Kept(s) /\ ArchivedRows(s)' = ArchivedRows(s)
    BY <1>u DEF Kept, ArchivedRows, NewFile, Input
  <2> QED
    BY <1>a, <1>c, <1>u, <1>q, <1>5, <2>1 DEF CallKept, MovedTo, PlaceIs
<1> QED
  BY <1>1, <1>2, <1>3, <1>4, <1>5, <1>a, <1>c, <1>d, <1>e, <1>u, RequestStep

\* The WAL has all of the step.
LEMMA AppendOutputStep ==
  ASSUME SInv, NEW c \in Clients, AppendOutput(c)
  PROVE  SInv'
<1>0. job[c] # None /\ At(c, "output")
      /\ active[job[c].sid] # None
      /\ AppendRows(job[c].sid, PersistedRows(c, job[c].res))
      /\ OpenThen(c, "log")
  BY DEF AppendOutput, Reached, At, AppendRows
<1>u. UNCHANGED <<kind, rollups, maxActive, torn, status, slog, log, archive, rolled, persisted, lru,
                  history, own, turns, fired, said, acked, shared, evicted, cut, lost, crashes>>
  BY DEF AppendOutput, config, diskVars, memVars, clientVars, ghostVars, AppendRows
<1>a. PICK s \in Sessions, back \in {"prepped", "input", "output", "log"} :
        s = job[c].sid /\ back = job[c].back
  BY <1>0, JobIsJob DEF SInv, TypeOK
<1>e. Using(c, s)
  BY <1>0, <1>a DEF Using
<1>f. PersistedRows(c, job[c].res) \in Seq(Rows)
  BY RowsAreRows DEF SInv, TypeOK
<1>g. /\ DiskTypes' /\ MemTypes'
      /\ \A t \in Sessions \ {s} : wal'[t] = wal[t] /\ active'[t] = active[t]
      /\ active'[s] = active[s] \o PersistedRows(c, job[c].res)
      /\ wal[s] # None => /\ wal'[s] = wal[s] \o PersistedRows(c, job[c].res) /\ wal'[s] # None
                          /\ Range(wal'[s]) = Range(wal[s]) \cup Range(PersistedRows(c, job[c].res))
      /\ Kept(s) \subseteq Kept(s)' /\ \A t \in Sessions : ArchivedRows(t)' = ArchivedRows(t)
  BY <1>0, <1>a, <1>f, <1>u, Appended
<1>c. MovedTo(c, "open", "log", job[c].res, job[c].rows)
  BY <1>0, <1>a, Moves DEF SInv, TypeOK, Places
<1>q. PlaceIs(c, "open", "log")' /\ PlaceIs(c, "output", back)
  BY <1>0, <1>a, <1>c, Place, Placed DEF At
<1>d. OnlyTouches(c, s)
  BY <1>a, <1>u, <1>c, <1>g DEF OnlyTouches, MovedTo
<1>1. TypeOK'
  <2>1. DiskTypes'
    BY <1>g
  <2>2. MemTypes'
    BY <1>g
  <2>3. HistoryTypes'
    BY <1>u DEF HistoryTypes, SInv, TypeOK
  <2>4. ClientTypes'
    BY <1>u, <1>c DEF ClientTypes, MovedTo, SInv, TypeOK
  <2> QED
    BY <1>u, <2>1, <2>2, <2>3, <2>4 DEF SInv, TypeOK
<1>2. status[s] # None \/ Told(c)' => status'[s] # None
  BY <1>0, <1>a, <1>q, <1>u DEF PlaceIs, SInv, Listed
<1>3. Stepped(c)' \/ Told(c)' => job[c].res \in Results
  BY <1>a, <1>q DEF PlaceIs, SInv, Listed
<1>4. ASSUME Undisturbed(s)', InCall(c) PROVE InCall(c)'
  BY ZenonT(30), <1>a, <1>c, <1>g, <1>u, <1>q, <1>4 DEF InCall, MovedTo, PlaceIs, Same, Idle
<1>5. ASSUME InCall(c), acked[s] \subseteq Kept(s), CallKept(c), s \notin lost'
      PROVE  acked'[s] \subseteq Kept(s)' /\ CallKept(c)'
  <2>1. wal[s] # None
    BY <1>a, <1>q, <1>5 DEF InCall, PlaceIs
  <2>2. Mine(c) \subseteq Range(wal'[s])
    <3>1. CASE kind = "session"
      <4>1. Input(c) \in Range(wal[s])
        BY <1>a, <1>q, <1>5, <3>1 DEF CallKept, PlaceIs
      <4> QED
        BY <1>g, <2>1, <3>1, <4>1 DEF Mine, PersistedRows
    <3>2. CASE kind = "session_diff"
      <4>1. Range(PersistedRows(c, job[c].res)) = Mine(c)
        BY <3>2, RowsAreRows DEF SInv, TypeOK, Mine
      <4> QED
        BY <1>g, <2>1, <4>1
    <3> QED
      BY <3>1, <3>2 DEF SInv, TypeOK, Kinds
  <2>3. Mine(c)' = Mine(c)
    BY <1>c, <1>u, SameRows DEF Mine, MovedTo
  <2> QED
    BY <1>a, <1>c, <1>g, <1>u, <1>q, <1>5, <2>1, <2>2, <2>3 DEF CallKept, MovedTo, PlaceIs
<1> QED
  BY <1>1, <1>2, <1>3, <1>4, <1>5, <1>a, <1>c, <1>d, <1>e, <1>u, RequestStep

\* The entry of the log is no row.
LEMMA AppendLogStep ==
  ASSUME SInv, NEW c \in Clients, AppendLog(c)
  PROVE  SInv'
<1>0. job[c] # None /\ At(c, "log")
      /\ active[job[c].sid] # None
      /\ slog' = LogAppended(job[c].sid)
      /\ Goto(c, "collect")
  BY DEF AppendLog, Reached, At
<1>u. UNCHANGED <<kind, rollups, maxActive, torn, status, wal, log, archive, rolled, persisted, active,
                  lru, history, own, turns, fired, said, acked, shared, evicted, cut, lost,
                  crashes>>
  BY DEF AppendLog, config, diskVars, memVars, clientVars, ghostVars
<1>a. PICK s \in Sessions, back \in {"prepped", "input", "output", "log"} :
        s = job[c].sid /\ back = job[c].back
  BY <1>0, JobIsJob DEF SInv, TypeOK
<1>e. Using(c, s)
  BY <1>0, <1>a DEF Using
<1>c. MovedTo(c, "collect", back, job[c].res, job[c].rows)
  BY <1>0, <1>a, Moves DEF SInv, TypeOK, Places
<1>q. PlaceIs(c, "collect", back)' /\ PlaceIs(c, "log", back)
  BY <1>0, <1>a, <1>c, Place, Placed DEF At
<1>d. OnlyTouches(c, s)
  BY <1>0, <1>a, <1>u, <1>c DEF OnlyTouches, MovedTo, ArchivedRows
<1>1. TypeOK'
  <2>1. DiskTypes'
    <3>1. slog' \in [Sessions -> Nat \cup {None}] /\ \A t \in Sessions : slog'[t] = None <=> slog[t] = None
      <4>1. slog \in [Sessions -> Nat \cup {None}]
        BY DEF SInv, TypeOK, DiskTypes
      <4>2. slog[s] # None => slog[s] + 1 \in Nat /\ slog[s] + 1 # None
        BY <4>1, Constants
      <4>3. slog' = [slog EXCEPT ![s] = IF slog[s] = None THEN None ELSE slog[s] + 1]
        BY <1>0, <1>a, <4>1 DEF LogAppended
      <4> QED
        BY <4>1, <4>2, <4>3
    <3> QED
      BY <1>u, <3>1 DEF SInv, TypeOK, DiskTypes
  <2>2. (MemTypes /\ HistoryTypes)'
    BY <1>u DEF MemTypes, HistoryTypes, SInv, TypeOK
  <2>3. ClientTypes'
    BY <1>u, <1>c DEF ClientTypes, MovedTo, SInv, TypeOK
  <2> QED
    BY <1>u, <2>1, <2>2, <2>3 DEF SInv, TypeOK
<1>2. status[s] # None \/ Told(c)' => status'[s] # None
  BY <1>0, <1>a, <1>q, <1>u DEF PlaceIs, SInv, Listed
<1>3. Stepped(c)' \/ Told(c)' => job[c].res \in Results
  BY <1>a, <1>q DEF PlaceIs, SInv, Listed
<1>4. ASSUME Undisturbed(s)', InCall(c) PROVE InCall(c)'
  BY <1>a, <1>c, <1>u, <1>q, <1>4 DEF InCall, MovedTo, PlaceIs, Same
<1>5. ASSUME InCall(c), acked[s] \subseteq Kept(s), CallKept(c), s \notin lost'
      PROVE  acked'[s] \subseteq Kept(s)' /\ CallKept(c)'
  <2>1. Kept(s)' = Kept(s) /\ ArchivedRows(s)' = ArchivedRows(s)
    BY <1>u DEF Kept, ArchivedRows, NewFile
  <2>2. Mine(c)' = Mine(c) /\ Input(c)' = Input(c)
    BY <1>c, <1>u, SameRows DEF Mine, MovedTo
  <2> QED
    BY <1>a, <1>c, <1>u, <1>q, <1>5, <2>1, <2>2 DEF CallKept, MovedTo, PlaceIs
<1> QED
  BY <1>1, <1>2, <1>3, <1>4, <1>5, <1>a, <1>c, <1>d, <1>e, <1>u, RequestStep

\* The session ended or failed.
LEMMA BeginRollupStep ==
  ASSUME SInv, NEW c \in Clients, BeginRollup(c)
  PROVE  SInv'
<1>0. job[c] # None /\ At(c, "collect")
      /\ RollsUp(job[c].res)
      /\ Goto(c, "rollup")
  BY DEF BeginRollup, Reached, At
<1>u. UNCHANGED <<kind, rollups, maxActive, torn, status, wal, slog, log, archive, rolled, persisted,
                  active, lru, history, own, turns, fired, said, acked, shared, evicted, cut,
                  lost, crashes>>
  BY DEF BeginRollup, config, diskVars, memVars, clientVars, ghostVars
<1>a. PICK s \in Sessions, back \in {"prepped", "input", "output", "log"} :
        s = job[c].sid /\ back = job[c].back
  BY <1>0, JobIsJob DEF SInv, TypeOK
<1>e. Using(c, s)
  BY <1>0, <1>a DEF Using
<1>c. MovedTo(c, "rollup", back, job[c].res, job[c].rows)
  BY <1>0, <1>a, Moves DEF SInv, TypeOK, Places
<1>q. PlaceIs(c, "rollup", back)' /\ PlaceIs(c, "collect", back)
  BY <1>0, <1>a, <1>c, Place, Placed DEF At
<1>d. OnlyTouches(c, s)
  BY <1>0, <1>a, <1>u, <1>c DEF OnlyTouches, MovedTo, ArchivedRows
<1>1. TypeOK'
  <2>1. (DiskTypes /\ MemTypes /\ HistoryTypes)'
    BY <1>u DEF DiskTypes, MemTypes, HistoryTypes, SInv, TypeOK
  <2>2. ClientTypes'
    BY <1>u, <1>c DEF ClientTypes, MovedTo, SInv, TypeOK
  <2> QED
    BY <1>u, <2>1, <2>2 DEF SInv, TypeOK
<1>2. status[s] # None \/ Told(c)' => status'[s] # None
  BY <1>0, <1>a, <1>q, <1>u DEF PlaceIs, SInv, Listed
<1>3. Stepped(c)' \/ Told(c)' => job[c].res \in Results
  BY <1>a, <1>q DEF PlaceIs, SInv, Listed
<1>4. ASSUME Undisturbed(s)', InCall(c) PROVE InCall(c)'
  BY <1>0, <1>a, <1>c, <1>u, <1>q, <1>4 DEF InCall, MovedTo, PlaceIs, Same
<1>5. ASSUME InCall(c), acked[s] \subseteq Kept(s), CallKept(c), s \notin lost'
      PROVE  acked'[s] \subseteq Kept(s)' /\ CallKept(c)'
  <2>1. Kept(s)' = Kept(s) /\ ArchivedRows(s)' = ArchivedRows(s)
    BY <1>u DEF Kept, ArchivedRows, NewFile
  <2>2. Mine(c)' = Mine(c) /\ Input(c)' = Input(c)
    BY <1>c, <1>u, SameRows DEF Mine, MovedTo
  <2> QED
    BY <1>a, <1>c, <1>u, <1>q, <1>5, <2>1, <2>2 DEF CallKept, MovedTo, PlaceIs
<1> QED
  BY <1>1, <1>2, <1>3, <1>4, <1>5, <1>a, <1>c, <1>d, <1>e, <1>u, RequestStep

\* The row of the session has all that its WAL has, or is counted as lost.
LEMMA PushRolledUpRowStep ==
  ASSUME SInv, NEW c \in Clients, PushRolledUpRow(c)
  PROVE  SInv'
<1>0. job[c] # None /\ At(c, "rollup")
      /\ \E rows \in IF rollups = "kept" THEN GatheredRows(job[c].sid) ELSE {<<>>} :
           rolled' = Append(rolled, [session |-> job[c].sid, rows |-> rows])
      /\ lost' = (IF rollups = "kept" THEN lost ELSE lost \cup {job[c].sid})
      /\ Goto(c, "merge")
  BY DEF PushRolledUpRow, Reached, At
<1>u. UNCHANGED <<kind, rollups, maxActive, torn, status, wal, slog, log, archive, persisted, active,
                  lru, history, own, turns, fired, said, acked, shared, evicted, cut, crashes>>
  BY DEF PushRolledUpRow, config, diskVars, memVars, clientVars, ghostVars
<1>a. PICK s \in Sessions, back \in {"prepped", "input", "output", "log"} :
        s = job[c].sid /\ back = job[c].back
  BY <1>0, JobIsJob DEF SInv, TypeOK
<1>e. Using(c, s)
  BY <1>0, <1>a DEF Using
<1>f. PICK row \in RolledRows :
        /\ row.session = s /\ row.rows \in (IF rollups = "kept" THEN GatheredRows(s) ELSE {<<>>})
        /\ rolled' = Append(rolled, row)
  <2>1. PICK rows \in IF rollups = "kept" THEN GatheredRows(s) ELSE {<<>>} :
          rolled' = Append(rolled, [session |-> s, rows |-> rows])
    BY <1>0, <1>a
  <2>2. rows \in Seq(Rows)
    BY <2>1, RecoveredIsSeq, Constants DEF SInv, TypeOK, MemTypes, GatheredRows
  <2>3. [session |-> s, rows |-> rows] \in RolledRows
    BY <2>2 DEF RolledRows
  <2> QED
    BY <2>1, <2>3
<1>g. /\ rolled' \in Seq(RolledRows) /\ persisted' \in 0 .. Len(rolled')
      /\ \A t \in Sessions : ArchivedRows(t) \subseteq ArchivedRows(t)'
      /\ Range(row.rows) \subseteq ArchivedRows(row.session)'
  BY <1>f, <1>u, RolledUpRow
<1>c. MovedTo(c, "merge", back, job[c].res, job[c].rows)
  BY <1>0, <1>a, Moves DEF SInv, TypeOK, Places
<1>q. PlaceIs(c, "merge", back)' /\ PlaceIs(c, "rollup", back)
  BY <1>0, <1>a, <1>c, Place, Placed DEF At
<1>d. OnlyTouches(c, s)
  BY <1>0, <1>a, <1>u, <1>c, <1>g DEF OnlyTouches, MovedTo
<1>1. TypeOK'
  <2>1. MemTypes'
    BY <1>g, <1>u DEF SInv, TypeOK, MemTypes
  <2>2. HistoryTypes'
    BY <1>0, <1>a, <1>u DEF SInv, TypeOK, HistoryTypes
  <2>3. DiskTypes'
    BY <1>u DEF DiskTypes, SInv, TypeOK
  <2>4. ClientTypes'
    BY <1>u, <1>c DEF ClientTypes, MovedTo, SInv, TypeOK
  <2> QED
    BY <1>u, <2>1, <2>2, <2>3, <2>4 DEF SInv, TypeOK
<1>2. status[s] # None \/ Told(c)' => status'[s] # None
  BY <1>0, <1>a, <1>q, <1>u DEF PlaceIs, SInv, Listed
<1>3. Stepped(c)' \/ Told(c)' => job[c].res \in Results
  BY <1>a, <1>q DEF PlaceIs, SInv, Listed
<1>4. ASSUME Undisturbed(s)', InCall(c) PROVE InCall(c)'
  BY <1>0, <1>a, <1>c, <1>u, <1>q, <1>4 DEF InCall, MovedTo, PlaceIs, Same
<1>5. ASSUME InCall(c), acked[s] \subseteq Kept(s), CallKept(c), s \notin lost'
      PROVE  acked'[s] \subseteq Kept(s)' /\ CallKept(c)'
  <2>1. wal[s] # None /\ active[s] = wal[s]
    BY <1>a, <1>q, <1>5 DEF InCall, PlaceIs, Same
  <2>2. row.rows = wal[s] /\ row.session = s
    BY <1>0, <1>f, <1>a, <1>5, <2>1 DEF GatheredRows
  <2>3. Range(wal[s]) \subseteq ArchivedRows(s)' /\ Kept(s) \subseteq Kept(s)'
    BY <1>g, <1>u, <2>2 DEF Kept, NewFile
  <2>4. Mine(c)' = Mine(c)
    BY <1>c, <1>u, SameRows DEF Mine, MovedTo
  <2> QED
    BY <1>a, <1>c, <1>u, <1>q, <1>5, <2>3, <2>4 DEF CallKept, MovedTo, PlaceIs
<1> QED
  BY <1>1, <1>2, <1>3, <1>4, <1>5, <1>a, <1>c, <1>d, <1>e, <1>u, RequestStep

\* The pipeline's log is no part of the rows.
LEMMA MergeLogStep ==
  ASSUME SInv, NEW c \in Clients, MergeLog(c)
  PROVE  SInv'
<1>0. job[c] # None /\ At(c, "merge")
      /\ log' = MergedLog(job[c].sid)
      /\ Goto(c, "cleanup")
  BY DEF MergeLog, Reached, At
<1>u. UNCHANGED <<kind, rollups, maxActive, torn, status, wal, slog, archive, rolled, persisted,
                  active, lru, history, own, turns, fired, said, acked, shared, evicted, cut,
                  lost, crashes>>
  BY DEF MergeLog, config, diskVars, memVars, clientVars, ghostVars
<1>a. PICK s \in Sessions, back \in {"prepped", "input", "output", "log"} :
        s = job[c].sid /\ back = job[c].back
  BY <1>0, JobIsJob DEF SInv, TypeOK
<1>e. Using(c, s)
  BY <1>0, <1>a DEF Using
<1>c. MovedTo(c, "cleanup", back, job[c].res, job[c].rows)
  BY <1>0, <1>a, Moves DEF SInv, TypeOK, Places
<1>q. PlaceIs(c, "cleanup", back)' /\ PlaceIs(c, "merge", back)
  BY <1>0, <1>a, <1>c, Place, Placed DEF At
<1>d. OnlyTouches(c, s)
  BY <1>0, <1>a, <1>u, <1>c DEF OnlyTouches, MovedTo, ArchivedRows
<1>1. TypeOK'
  <2>1. DiskTypes'
    <3>1. log' \in Seq(Sessions)
      <4>0. slog[s] # None => slog[s] \in Nat
        BY DEF SInv, TypeOK, DiskTypes
      <4>1. slog[s] # None => [k \in 1 .. slog[s] |-> s] \in Seq(Sessions)
        BY <4>0
      <4>2. log \in Seq(Sessions)
        BY DEF SInv, TypeOK, DiskTypes
      <4>3. slog[s] # None => log \o [k \in 1 .. slog[s] |-> s] \in Seq(Sessions)
        BY <4>1, <4>2, ConcatProperties
      <4> QED
        BY <1>0, <1>a, <4>2, <4>3 DEF MergedLog
    <3> QED
      BY <1>u, <3>1 DEF SInv, TypeOK, DiskTypes
  <2>2. (MemTypes /\ HistoryTypes)'
    BY <1>u DEF MemTypes, HistoryTypes, SInv, TypeOK
  <2>3. ClientTypes'
    BY <1>u, <1>c DEF ClientTypes, MovedTo, SInv, TypeOK
  <2> QED
    BY <1>u, <2>1, <2>2, <2>3 DEF SInv, TypeOK
<1>2. status[s] # None \/ Told(c)' => status'[s] # None
  BY <1>0, <1>a, <1>q, <1>u DEF PlaceIs, SInv, Listed
<1>3. Stepped(c)' \/ Told(c)' => job[c].res \in Results
  BY <1>a, <1>q DEF PlaceIs, SInv, Listed
<1>4. ASSUME Undisturbed(s)', InCall(c) PROVE InCall(c)'
  BY <1>a, <1>c, <1>u, <1>q, <1>4 DEF InCall, MovedTo, PlaceIs, Same
<1>5. ASSUME InCall(c), acked[s] \subseteq Kept(s), CallKept(c), s \notin lost'
      PROVE  acked'[s] \subseteq Kept(s)' /\ CallKept(c)'
  <2>1. Kept(s)' = Kept(s) /\ ArchivedRows(s)' = ArchivedRows(s)
    BY <1>u DEF Kept, ArchivedRows, NewFile
  <2>2. Mine(c)' = Mine(c) /\ Input(c)' = Input(c)
    BY <1>c, <1>u, SameRows DEF Mine, MovedTo
  <2> QED
    BY <1>a, <1>c, <1>u, <1>q, <1>5, <2>1, <2>2 DEF CallKept, MovedTo, PlaceIs
<1> QED
  BY <1>1, <1>2, <1>3, <1>4, <1>5, <1>a, <1>c, <1>d, <1>e, <1>u, RequestStep

\* What leaves the disk is in the output manager.
LEMMA CleanupStep ==
  ASSUME SInv, NEW c \in Clients, Cleanup(c)
  PROVE  SInv'
<1>0. job[c] # None /\ At(c, "cleanup")
      /\ active' = [active EXCEPT ![job[c].sid] = None]
      /\ lru' = Without(lru, job[c].sid)
      /\ wal' = [wal EXCEPT ![job[c].sid] = None]
      /\ slog' = [slog EXCEPT ![job[c].sid] = None]
      /\ Goto(c, "callbacks")
  BY DEF Cleanup, Reached, At, Deactivated, LogRemoved
<1>u. UNCHANGED <<kind, rollups, maxActive, torn, status, log, archive, rolled, persisted, history,
                  own, turns, fired, said, acked, shared, evicted, cut, lost, crashes>>
  BY DEF Cleanup, config, diskVars, memVars, clientVars, ghostVars, Deactivated, LogRemoved
<1>a. PICK s \in Sessions, back \in {"prepped", "input", "output", "log"} :
        s = job[c].sid /\ back = job[c].back
  BY <1>0, JobIsJob DEF SInv, TypeOK
<1>e. Using(c, s)
  BY <1>0, <1>a DEF Using
<1>g. /\ wal' = [wal EXCEPT ![s] = None] /\ wal \in [Sessions -> Seq(Rows) \cup {None}]
      /\ active' = [active EXCEPT ![s] = None] /\ active \in [Sessions -> Seq(Rows) \cup {None}]
  BY <1>0, <1>a DEF SInv, TypeOK, DiskTypes, MemTypes
<1>c. MovedTo(c, "callbacks", back, job[c].res, job[c].rows)
  BY <1>0, <1>a, Moves DEF SInv, TypeOK, Places
<1>q. PlaceIs(c, "callbacks", back)' /\ PlaceIs(c, "cleanup", back)
  BY <1>0, <1>a, <1>c, Place, Placed DEF At
<1>d. OnlyTouches(c, s)
  BY <1>a, <1>u, <1>c, <1>g DEF OnlyTouches, MovedTo, ArchivedRows
<1>1. TypeOK'
  <2>1. DiskTypes'
    BY <1>0, <1>a, <1>u DEF SInv, TypeOK, DiskTypes
  <2>2. MemTypes'
    <3>1. lru' \in Seq(Sessions)
      BY <1>0, WithoutIsSeq DEF SInv, TypeOK, MemTypes
    <3> QED
      BY <1>0, <1>a, <1>u, <3>1 DEF SInv, TypeOK, MemTypes
  <2>3. HistoryTypes'
    BY <1>u DEF HistoryTypes, SInv, TypeOK
  <2>4. ClientTypes'
    BY <1>u, <1>c DEF ClientTypes, MovedTo, SInv, TypeOK
  <2> QED
    BY <1>u, <2>1, <2>2, <2>3, <2>4 DEF SInv, TypeOK
<1>2. status[s] # None \/ Told(c)' => status'[s] # None
  BY <1>0, <1>a, <1>q, <1>u DEF PlaceIs, SInv, Listed
<1>3. Stepped(c)' \/ Told(c)' => job[c].res \in Results
  BY <1>a, <1>q DEF PlaceIs, SInv, Listed
<1>4. ASSUME Undisturbed(s)', InCall(c) PROVE InCall(c)'
  BY <1>a, <1>c, <1>g, <1>u, <1>q, <1>4 DEF InCall, MovedTo, PlaceIs
<1>5. ASSUME InCall(c), acked[s] \subseteq Kept(s), CallKept(c), s \notin lost'
      PROVE  acked'[s] \subseteq Kept(s)' /\ CallKept(c)'
  <2>1. ArchivedRows(s)' = ArchivedRows(s) /\ Mine(c)' = Mine(c)
    BY <1>c, <1>u, SameRows DEF ArchivedRows, Mine, MovedTo
  <2>2. wal[s] # None /\ Range(wal[s]) \subseteq ArchivedRows(s) /\ Mine(c) \subseteq Range(wal[s])
    BY <1>a, <1>q, <1>5 DEF InCall, CallKept, PlaceIs, Same
  <2>3. acked[s] \subseteq ArchivedRows(s)
    BY <1>5, <2>2 DEF Kept, NewFile
  <2> QED
    BY <1>a, <1>c, <1>u, <1>q, <2>1, <2>2, <2>3 DEF Kept, CallKept, MovedTo, PlaceIs
<1> QED
  BY <1>1, <1>2, <1>3, <1>4, <1>5, <1>a, <1>c, <1>d, <1>e, <1>u, RequestStep

-----------------------------------------------------------------------------
(* The end of a request *)

\* A step by which a request ends: what has to be shown of it.
LEMMA RequestEnds ==
  ASSUME SInv, NEW c \in Clients, NEW s \in Sessions, Using(c, s), Fail(c), OnlyTouches(c, s), TypeOK',
         \A d \in Clients : own'[d] = own[d] \/ (d = c /\ own'[d] = s),
         status[s] # None \/ own'[c] = s => status'[s] # None,
         Undisturbed(s)' /\ InCall(c) => Idle(s)',
         Undisturbed(s)' /\ InCall(c) /\ acked[s] \subseteq Kept(s) /\ CallKept(c) /\ s \notin lost'
           => acked'[s] \subseteq Kept(s)'
  PROVE  SInv'
<1>0. shared \subseteq shared' /\ evicted \subseteq evicted' /\ lost \subseteq lost' /\ torn' = torn
  BY DEF OnlyTouches
<1>a. job[c] # None /\ job[c].sid = s /\ job'[c] = None /\ \A d \in Clients \ {c} : job'[d] = job[d]
  BY DEF Using, Fail, SInv, TypeOK, ClientTypes
<1>1. OneUser'
  <2>1. \A d \in Clients, t \in Sessions : Knows(d, t)' => Knows(d, t)
    <3> TAKE d \in Clients, t \in Sessions
    <3>1. CASE d = c
      BY <1>a, <3>1, Constants DEF Knows, Using
    <3>2. CASE d # c
      BY <1>a, <3>2 DEF Knows, Using
    <3> QED
      BY <3>1, <3>2
  <2> QED
    BY <1>0, <2>1, StillOneUser DEF SInv
<1>2. Listed'
  <2>1. \A t \in Sessions : status[t] # None => status'[t] # None
    BY DEF OnlyTouches
  <2>2. \A d \in Clients : own'[d] # None => status'[own'[d]] # None
    BY <2>1 DEF SInv, Listed, TypeOK, ClientTypes, MaybeSessions
  <2>3. \A d \in Clients \ {c} : /\ job'[d] = job[d]
                                 /\ (Told(d)' <=> Told(d)) /\ (Stepped(d)' <=> Stepped(d))
    <3> TAKE d \in Clients \ {c}
    <3>1. \A q : At(d, q)' <=> At(d, q)
      BY <1>a DEF At
    <3> QED
      BY <1>a, <3>1 DEF Told, Stepped, Opening
  <2>4. ~Told(c)' /\ ~Stepped(c)'
    BY <1>a DEF Told, Stepped, Opening, At
  <2>5. \A d \in Clients : Told(d) => job[d] # None
    BY DEF Told, Opening, At
  <2>6. \A d \in Clients : job[d] # None => job[d].sid \in Sessions
    BY JobIsJob DEF SInv, TypeOK
  <2>7. \A d \in Clients : Told(d)' => status'[job'[d].sid] # None
    BY <2>1, <2>3, <2>4, <2>5, <2>6 DEF SInv, Listed
  <2>8. \A d \in Clients : Stepped(d)' \/ Told(d)' => job'[d].res \in Results
    BY <2>3, <2>4 DEF SInv, Listed
  <2> QED
    BY <2>2, <2>7, <2>8 DEF Listed
<1>3. RowsAgree' /\ TurnsKept'
  <2>1. Undisturbed(s)' => Idle(s)'
    BY <1>0, CallOf DEF SInv
  <2>2. Undisturbed(s)' /\ s \notin lost' => acked'[s] \subseteq Kept(s)'
    BY <1>0, CallOf DEF SInv
  <2>3. \A d \in Clients \ {c} : s \notin shared => ~Using(d, s)
    BY AloneOn DEF Knows, SInv
  <2> QED
    BY <1>a, <2>1, <2>2, <2>3, OneRequestSteps DEF SInv
<1> QED
  BY <1>1, <1>2, <1>3 DEF SInv

\* Fail ends a request, and nobody else's.
LEMMA Ended ==
  ASSUME ClientTypes, NEW c \in Clients, Fail(c), turns' = turns, own' \in [Clients -> MaybeSessions],
         fired' \in Seq(Sessions)
  PROVE  ClientTypes' /\ job'[c] = None /\ \A d \in Clients \ {c} : job'[d] = job[d]
BY DEF Fail, ClientTypes

\* The client is given its answer: its rows are kept, and nothing else changes.
LEMMA AnswerStep ==
  ASSUME SInv, NEW c \in Clients, Answer(c), Told(c), fired' \in Seq(Sessions),
         UNCHANGED <<config, diskVars, memVars, turns, said, shared, evicted, cut, lost, crashes>>,
         NEW s \in Sessions, Using(c, s),
         Undisturbed(s) /\ InCall(c) => Idle(s),
         Undisturbed(s) /\ InCall(c) /\ CallKept(c) /\ s \notin lost => Mine(c) \subseteq Kept(s)
  PROVE  SInv'
<1>a. job[c] # None /\ job[c].sid = s /\ Fail(c)
  BY DEF Using, Answer
<1>u. UNCHANGED <<kind, rollups, maxActive, torn, status, wal, slog, log, archive, rolled, persisted,
                  active, lru, history, turns, said, shared, evicted, cut, lost, crashes>>
  BY DEF config, diskVars, memVars
<1>1. \A d \in Clients : own'[d] = own[d] \/ (d = c /\ own'[d] = s)
  BY <1>a DEF Answer, SInv, TypeOK, ClientTypes
<1>2. own' \in [Clients -> MaybeSessions]
  BY <1>a DEF Answer, SInv, TypeOK, ClientTypes, MaybeSessions
<1>3. ClientTypes' /\ job'[c] = None /\ \A d \in Clients \ {c} : job'[d] = job[d]
  BY <1>a, <1>u, <1>2, Ended DEF SInv, TypeOK
<1>4. /\ acked' \in [Sessions -> SUBSET Rows]
      /\ \A t \in Sessions \ {s} : acked'[t] = acked[t]
      /\ acked'[s] \subseteq acked[s] \cup Mine(c)
  <2>1. Mine(c) \subseteq Rows
    <3>1. Input(c) \in Rows /\ OutputRows(c, job[c].res) \in Seq(Rows)
      BY RowsAreRows DEF SInv, TypeOK
    <3>2. Range(OutputRows(c, job[c].res)) \subseteq Rows
      BY <3>1 DEF Range
    <3> QED
      BY <3>1, <3>2 DEF Mine
  <2>2. acked \in [Sessions -> SUBSET Rows]
    BY DEF SInv, TypeOK, HistoryTypes
  <2>3. acked' = acked \/ acked' = [acked EXCEPT ![s] = acked[s] \cup Mine(c)]
    BY <1>a, <2>2 DEF Answer, Mine
  <2> QED
    BY <2>1, <2>2, <2>3
<1>5. TypeOK'
  <2>1. (DiskTypes /\ MemTypes)'
    BY <1>u DEF DiskTypes, MemTypes, SInv, TypeOK
  <2>2. HistoryTypes'
    BY <1>u, <1>4 DEF HistoryTypes, SInv, TypeOK
  <2> QED
    BY <1>u, <1>3, <2>1, <2>2 DEF SInv, TypeOK
<1>6. OnlyTouches(c, s)
  BY <1>a, <1>u, <1>3, <1>4 DEF OnlyTouches, ArchivedRows
<1>7. status'[s] # None
  BY <1>a, <1>u DEF SInv, Listed
<1>8. Undisturbed(s)' /\ InCall(c) => Idle(s)'
  BY <1>u DEF Undisturbed, Idle, Same, Empty, Closed
<1>9. Kept(s)' = Kept(s)
  BY <1>u DEF Kept, ArchivedRows, NewFile
<1>10. Undisturbed(s)' /\ InCall(c) /\ acked[s] \subseteq Kept(s) /\ CallKept(c) /\ s \notin lost'
         => acked'[s] \subseteq Kept(s)'
  BY <1>u, <1>4, <1>9 DEF Undisturbed
<1> QED
  BY <1>a, <1>1, <1>5, <1>6, <1>7, <1>8, <1>10, RequestEnds

\* The steps that answer
LEMMA AnsweringSteps ==
  ASSUME SInv, NEW c \in Clients, ReturnContinue(c) \/ RefuseRolledUpRow(c) \/ ExecuteCallbacks(c)
  PROVE  SInv'
<1>0. PICK pc \in {"collect", "rollup", "callbacks"} : At(c, pc)
  BY DEF ReturnContinue, RefuseRolledUpRow, ExecuteCallbacks, Reached
<1>a. PICK s \in Sessions : Using(c, s) /\ s = job[c].sid
  BY <1>0, JobIsJob DEF SInv, TypeOK, Using, At
<1>q. PlaceIs(c, pc, job[c].back)
  BY <1>0, Place DEF At
<1>u. UNCHANGED <<config, diskVars, memVars, turns, said, shared, evicted, cut, lost, crashes>> /\ Answer(c)
  BY DEF ReturnContinue, RefuseRolledUpRow, ExecuteCallbacks
<1>f. fired' \in Seq(Sessions)
  <2>1. fired \in Seq(Sessions)
    BY DEF SInv, TypeOK, ClientTypes
  <2>2. fired' = fired \/ fired' = Append(fired, s)
    BY <1>a DEF ReturnContinue, RefuseRolledUpRow, ExecuteCallbacks
  <2> QED
    BY <2>1, <2>2, AppendProperties
<1>1. Told(c)
  BY <1>q DEF PlaceIs
<1>2. ASSUME InCall(c) PROVE Idle(s)
  <2>1. CASE pc \in {"collect", "rollup"}
    BY <1>a, <1>q, <1>2, <2>1 DEF InCall, PlaceIs, Idle
  <2>2. CASE pc = "callbacks"
    <3>1. active[s] = None /\ status[s] = StatusAfter(job[c].res) /\ RollsUp(job[c].res)
      BY <1>a, <1>q, <1>2, <2>2 DEF InCall, PlaceIs
    <3>2. s \in Closed
      BY <3>1 DEF Closed, StatusAfter, RollsUp
    <3> QED
      BY <3>1, <3>2 DEF Idle
  <2> QED
    BY <2>1, <2>2
<1>3. ASSUME InCall(c), CallKept(c) PROVE Mine(c) \subseteq Kept(s)
  <2>1. CASE pc \in {"collect", "rollup"}
    <3>1. Mine(c) \subseteq Range(wal[s]) /\ wal[s] # None
      BY <1>a, <1>q, <1>3, <2>1 DEF InCall, CallKept, PlaceIs, Same
    <3> QED
      BY <3>1 DEF Kept, NewFile
  <2>2. CASE pc = "callbacks"
    BY <1>a, <1>q, <1>3, <2>2 DEF CallKept, PlaceIs, Kept
  <2> QED
    BY <2>1, <2>2
<1> QED
  BY <1>a, <1>u, <1>f, <1>1, <1>2, <1>3, AnswerStep

\* An undisturbed session is there when its request goes on.
LEMMA PanicStep ==
  ASSUME SInv, NEW c \in Clients, Panic(c)
  PROVE  SInv'
<1>0. PICK pc \in {"prepped", "input", "output", "log", "files"} : At(c, pc)
  BY DEF Panic, At
<1>a. PICK s \in Sessions : /\ Using(c, s) /\ s = job[c].sid
                            /\ active[s] = None \/ pc = "files"
                            /\ pc # "files" \/ torn[s] # None
  BY <1>0, JobIsJob DEF SInv, TypeOK, Using, At, Panic
<1>q. PlaceIs(c, pc, job[c].back)
  BY <1>0, Place DEF At
<1>u. /\ UNCHANGED <<kind, rollups, maxActive, torn, status, wal, slog, log, archive, rolled, persisted, active,
                     lru, history, own, turns, fired, said, acked, shared, evicted, cut, lost, crashes>>
      /\ Fail(c)
  BY DEF Panic, config, diskVars, memVars, clientVars, ghostVars
<1>3. ClientTypes' /\ job'[c] = None /\ \A d \in Clients \ {c} : job'[d] = job[d]
  BY <1>u, Ended DEF SInv, TypeOK, ClientTypes
<1>5. TypeOK'
  <2>1. (DiskTypes /\ MemTypes /\ HistoryTypes)'
    BY <1>u DEF DiskTypes, MemTypes, HistoryTypes, SInv, TypeOK
  <2> QED
    BY <1>u, <1>3, <2>1 DEF SInv, TypeOK
<1>6. OnlyTouches(c, s)
  BY <1>a, <1>u, <1>3 DEF OnlyTouches, ArchivedRows, Using
<1>7. status[s] # None \/ own'[c] = s => status'[s] # None
  BY <1>u, Constants DEF SInv, Listed
<1>8. ~(Undisturbed(s)' /\ InCall(c))
  BY <1>a, <1>q, <1>u DEF InCall, PlaceIs, Same, Undisturbed
<1> QED
  BY <1>a, <1>u, <1>5, <1>6, <1>7, <1>8, RequestEnds

\* A call of a session that ended changes its status only.
LEMMA RefuseClosedStep ==
  ASSUME SInv, NEW c \in Clients, RefuseClosed(c)
  PROVE  SInv'
<1>a. PICK s \in Sessions : Using(c, s) /\ s = job[c].sid
  BY JobIsJob DEF SInv, TypeOK, Using, At, RefuseClosed, Reached
<1>0. /\ active[s] = None /\ s \in Closed
      /\ status' = status \/ status' = [status EXCEPT ![s] = "failed"]
  BY <1>a DEF RefuseClosed, StatusSet
<1>u. /\ UNCHANGED <<kind, rollups, maxActive, torn, wal, slog, log, archive, rolled, persisted, active,
                     lru, history, own, turns, fired, said, acked, shared, evicted, cut, lost, crashes>>
      /\ Fail(c)
  BY DEF RefuseClosed, config, memVars, clientVars, ghostVars
<1>3. ClientTypes' /\ job'[c] = None /\ \A d \in Clients \ {c} : job'[d] = job[d]
  BY <1>u, Ended DEF SInv, TypeOK, ClientTypes
<1>4. /\ status' \in [Sessions -> {None, "active", "succeeded", "failed"}]
      /\ \A t \in Sessions \ {s} : status'[t] = status[t]
      /\ status'[s] \in {"succeeded", "failed"}
  BY <1>0 DEF SInv, TypeOK, DiskTypes, Closed
<1>5. TypeOK'
  <2>1. (MemTypes /\ HistoryTypes)'
    BY <1>u DEF MemTypes, HistoryTypes, SInv, TypeOK
  <2>2. DiskTypes'
    BY <1>u, <1>4 DEF DiskTypes, SInv, TypeOK
  <2> QED
    BY <1>u, <1>3, <2>1, <2>2 DEF SInv, TypeOK
<1>6. OnlyTouches(c, s)
  BY <1>a, <1>u, <1>3, <1>4 DEF OnlyTouches, ArchivedRows, Using
<1>7. status'[s] # None
  BY <1>4, Constants
<1>8. Idle(s)'
  BY <1>0, <1>u, <1>4 DEF Idle, Closed
<1>9. Kept(s)' = Kept(s)
  BY <1>u DEF Kept, ArchivedRows, NewFile
<1> QED
  BY <1>a, <1>u, <1>5, <1>6, <1>7, <1>8, <1>9, RequestEnds

-----------------------------------------------------------------------------
(* Steps that are not of one session's rows *)

\* evict_if_needed() pops no more than there is.
LEMMA PoppedIsBounded ==
  ASSUME MemTypes
  PROVE  /\ Popped \in 0 .. Len(lru)
         /\ SubSeq(lru, Popped + 1, Len(lru)) \in Seq(Sessions)
<1>1. Len(lru) \in Nat /\ lru \in Seq(Sessions)
  BY DEF MemTypes
<1>2. Popped \in 0 .. Len(lru)
  <2> DEFINE enough == {k \in 0 .. Len(lru) : Fits(ActiveIds \ Range(SubSeq(lru, 1, k)))}
  <2>1. enough \subseteq 0 .. Len(lru)
    OBVIOUS
  <2>2. Popped = IF enough = {} THEN Len(lru) ELSE Min(enough)
    BY DEF Popped
  <2> HIDE DEF enough
  <2>3. enough \subseteq Nat
    BY <1>1, <2>1
  <2>4. ASSUME enough # {} PROVE Min(enough) \in 0 .. Len(lru)
    <3>1. Min(enough) \in enough
      BY <2>3, <2>4, MinIsLeast
    <3> QED
      BY <2>1, <3>1
  <2>5. Len(lru) \in 0 .. Len(lru)
    BY <1>1
  <2>6. CASE enough = {}
    BY <2>2, <2>5, <2>6
  <2>7. CASE enough # {}
    BY <2>2, <2>4, <2>7
  <2> QED
    BY <2>6, <2>7
<1>3. SubSeq(lru, Popped + 1, Len(lru)) \in Seq(Sessions)
  BY <1>1, <1>2, SubSeqProperties
<1> QED
  BY <1>2, <1>3

\* A session evicted between requests has its rows in its WAL; one evicted under
\* a request is disturbed.
LEMMA EvictIfNeededStep ==
  ASSUME SInv, NEW c \in Clients, EvictIfNeeded(c)
  PROVE  SInv'
<1>0. job[c] # None /\ At(c, "evict") /\ Goto(c, "files")
  BY DEF EvictIfNeeded, Reached, At
<1>u. UNCHANGED <<kind, rollups, maxActive, torn, status, wal, slog, log, archive, rolled, persisted,
                  own, turns, fired, said, acked, shared, cut, lost, crashes>>
  BY DEF EvictIfNeeded, config, diskVars, clientVars
<1>a. PICK s \in Sessions, back \in {"prepped", "input", "output", "log"} :
        s = job[c].sid /\ back = job[c].back
  BY <1>0, JobIsJob DEF SInv, TypeOK
<1>e. Using(c, s)
  BY <1>0, <1>a DEF Using
<1>v. PICK victims \in SUBSET Sessions :
        /\ \A t \in victims : active[t] # None
        /\ active' = [t \in Sessions |-> IF t \in victims THEN None ELSE active[t]]
        /\ history' = [t \in Sessions |-> IF t \in victims THEN <<>> ELSE history[t]]
        /\ evicted' = evicted \cup (victims \cap InUse)
  <2> DEFINE victims == ActiveIds \cap Range(SubSeq(lru, 1, Popped))
  <2>1. victims \subseteq Sessions /\ \A t \in victims : active[t] # None
    BY DEF ActiveIds
  <2>2. /\ active' = [t \in Sessions |-> IF t \in victims THEN None ELSE active[t]]
        /\ history' = [t \in Sessions |-> IF t \in victims THEN <<>> ELSE history[t]]
        /\ evicted' = evicted \cup (victims \cap InUse)
    BY DEF EvictIfNeeded, Freed
  <2> QED
    BY <2>1, <2>2
<1>c. MovedTo(c, "files", back, job[c].res, job[c].rows)
  BY <1>0, <1>a, Moves DEF SInv, TypeOK, Places
<1>q. PlaceIs(c, "files", back)' /\ PlaceIs(c, "evict", back)
  BY <1>0, <1>a, <1>c, Place, Placed DEF At
<1>1. TypeOK'
  <2>1. MemTypes'
    <3>1. lru' \in Seq(Sessions)
      BY PoppedIsBounded DEF EvictIfNeeded, SInv, TypeOK
    <3>2. active' \in [Sessions -> Seq(Rows) \cup {None}] /\ history' \in [Sessions -> Seq(Rows)]
      BY <1>v, Constants DEF SInv, TypeOK, MemTypes
    <3> QED
      BY <1>u, <3>1, <3>2 DEF SInv, TypeOK, MemTypes
  <2>2. HistoryTypes'
    BY <1>u, <1>v DEF SInv, TypeOK, HistoryTypes
  <2>3. DiskTypes'
    BY <1>u DEF SInv, TypeOK, DiskTypes
  <2>4. ClientTypes'
    BY <1>u, <1>c DEF ClientTypes, MovedTo, SInv, TypeOK
  <2> QED
    BY <1>u, <2>1, <2>2, <2>3, <2>4 DEF SInv, TypeOK
<1>2. OneUser' /\ Listed'
  <2>1. Told(c)' => status'[s] # None
    BY <1>a, <1>q, <1>u DEF PlaceIs, SInv, Listed
  <2>2. Stepped(c)' \/ Told(c)' => job[c].res \in Results
    BY <1>q DEF PlaceIs, SInv, Listed
  <2> QED
    BY <1>0, <1>a, <1>c, <1>u, <2>1, <2>2, MovedListed DEF SInv, TypeOK, ClientTypes
<1>3. \A t \in Sessions : ArchivedRows(t)' = ArchivedRows(t) /\ Kept(t)' = Kept(t)
  BY <1>u DEF ArchivedRows, Kept, NewFile
<1>4. \A d \in Clients, t \in Sessions : Using(d, t)' <=> Using(d, t)
  BY <1>0, <1>c DEF Using, MovedTo
<1>5. \A d \in Clients : CallKept(d) => CallKept(d)'
  <2> TAKE d \in Clients
  <2>1. CASE d = c
    BY <1>q, <2>1 DEF CallKept, PlaceIs
  <2>2. CASE d # c
    <3>1. job'[d] = job[d] /\ turns'[d] = turns[d] /\ kind' = kind
      BY <1>c, <1>u, <2>2 DEF MovedTo
    <3>2. job[d] # None => job[d].sid \in Sessions
      BY JobIsJob DEF SInv, TypeOK
    <3>3. job[d] = None => CallKept(d)'
      BY <3>1 DEF CallKept, At, Stepped, Written
    <3> QED
      BY <1>3, <1>u, <3>1, <3>2, <3>3, SameRequest DEF CallKept
  <2> QED
    BY <2>1, <2>2
<1>6. TurnsKept'
  <2> SUFFICES ASSUME NEW t \in Sessions, t \notin lost', Undisturbed(t)'
               PROVE  AckedKept(t)'
    BY DEF TurnsKept
  <2>1. AckedKept(t)
    BY <1>u, <1>v DEF SInv, TurnsKept, Undisturbed
  <2> QED
    BY <1>u, <1>3, <1>4, <1>5, <2>1 DEF AckedKept
<1>7. RowsAgree'
  <2> SUFFICES ASSUME NEW t \in Sessions, Undisturbed(t)'
               PROVE  SessionOK(t)'
    BY DEF RowsAgree
  <2>1. SessionOK(t)
    BY <1>u, <1>v DEF SInv, RowsAgree, Undisturbed
  <2>2. CASE t \in victims
    <3>1. t \notin InUse
      BY <1>v, <2>2 DEF Undisturbed
    <3>2. \A d \in Clients : ~Using(d, t)'
      BY <1>4, <3>1 DEF InUse, Busy, Using
    <3>3. Idle(t)'
      BY <1>v, <2>2 DEF Idle, Empty
    <3> QED
      BY <3>2, <3>3 DEF SessionOK
  <2>3. CASE t \notin victims
    <3>1. active'[t] = active[t] /\ history'[t] = history[t]
      BY <1>v, <2>3
    <3>2. Idle(t) => Idle(t)'
      BY <1>u, <3>1 DEF Idle, Same, Empty, Closed
    <3>3. ASSUME NEW d \in Clients, Using(d, t)' PROVE InCall(d)'
      <4>1. Using(d, t) /\ InCall(d)
        BY <1>4, <2>1, <3>3 DEF SessionOK
      <4>2. CASE d = c
        <5>1. t = s
          BY <1>a, <4>1, <4>2 DEF Using
        <5> QED
          BY <1>a, <1>c, <1>u, <1>q, <3>1, <4>1, <4>2, <5>1 DEF InCall, MovedTo, PlaceIs
      <4>3. CASE d # c
        <5>1. job'[d] = job[d] /\ turns'[d] = turns[d]
          BY <1>c, <1>u, <4>3 DEF MovedTo
        <5> QED
          BY <1>u, <1>3, <3>1, <4>1, <5>1, SameCall
      <4> QED
        BY <4>2, <4>3
    <3> QED
      BY <1>4, <2>1, <3>2, <3>3 DEF SessionOK
  <2> QED
    BY <2>2, <2>3
<1> QED
  BY <1>1, <1>2, <1>6, <1>7 DEF SInv

\* next_session_id() is above every id that somebody was told.
LEMMA NextIsNew ==
  ASSUME SInv, NEW s \in Sessions, s = NextSessionId
  PROVE  status[s] = None /\ active[s] = None /\ wal[s] = None
<1> DEFINE ids == {Len(rolled)} \cup {t + 1 : t \in ActiveIds \cup TableIds \cup FileIds}
<1>1. MaxSessions \in Nat /\ Len(rolled) \in Nat
  BY BoundsAssumption DEF SInv, TypeOK, MemTypes
<1>2. \A t \in Sessions : t \in Nat /\ t + 1 \in 0 .. MaxSessions
  BY <1>1 DEF Sessions
<1>3. ActiveIds \cup TableIds \cup FileIds \subseteq Sessions
  BY DEF ActiveIds, TableIds, FileIds
<1>4. ids \subseteq 0 .. (MaxSessions + Len(rolled)) /\ ids # {}
  BY <1>1, <1>2, <1>3
<1>5. s = Max(ids)
  BY DEF NextSessionId
<1> HIDE DEF ids
<1>6. \A x \in ids : x <= s
  <2>1. MaxSessions + Len(rolled) \in Nat
    BY <1>1
  <2> QED
    BY <1>4, <1>5, <2>1, MaxIsGreatest
<1>7. s + 1 \notin ids
  BY <1>2, <1>6
<1>8. s \notin ActiveIds \cup TableIds \cup FileIds
  BY <1>7 DEF ids
<1> QED
  BY <1>8 DEF ActiveIds, TableIds, FileIds

\* A request that starts
Started(c, s, pc, back) ==
  [pc |-> pc, back |-> back, sid |-> s, res |-> None, rows |-> <<>>]

\* It is the one the client has after the step.
LEMMA Starts ==
  ASSUME ClientTypes, NEW c \in Clients, NEW s \in Sessions, NEW pc \in Places,
         NEW back \in {"prepped", "input"}, Start(c, s, pc, back), UNCHANGED <<own, fired>>
  PROVE  /\ ClientTypes' /\ job'[c] = Started(c, s, pc, back) /\ job'[c] # None
         /\ \A d \in Clients \ {c} : job'[d] = job[d] /\ turns'[d] = turns[d]
         /\ job'[c].sid = s /\ job'[c].back = back
         /\ PlaceIs(c, pc, back)'
<1>1. Started(c, s, pc, back) \in Jobs
  BY Constants DEF Started, Jobs
<1>2. job' = [job EXCEPT ![c] = Started(c, s, pc, back)]
  BY DEF Start, Started
<1>3. job \in [Clients -> Jobs \cup {None}] /\ turns \in [Clients -> Nat]
  BY DEF ClientTypes
<1>4. job'[c] = Started(c, s, pc, back) /\ job'[c] # None
  BY <1>1, <1>2, <1>3, Constants
<1>5. turns' \in [Clients -> Nat] /\ \A d \in Clients \ {c} : turns'[d] = turns[d]
  BY <1>3 DEF Start
<1>6. job' \in [Clients -> Jobs \cup {None}] /\ \A d \in Clients \ {c} : job'[d] = job[d]
  BY <1>1, <1>2, <1>3
<1>7. job'[c].sid = s /\ job'[c].pc = pc /\ job'[c].back = back
  BY <1>4 DEF Started
<1>8. \A q : At(c, q)' <=> q = pc
  BY <1>4, <1>7 DEF At
<1>9. PlaceIs(c, pc, back)'
  BY <1>7, <1>8 DEF PlaceIs, Stepped, Written, Told, Opening
<1>10. ClientTypes'
  BY <1>5, <1>6 DEF ClientTypes
<1> QED
  BY <1>4, <1>5, <1>6, <1>7, <1>9, <1>10

\* A step by which a request starts: what has to be shown of it.
LEMMA RequestStarts ==
  ASSUME SInv, NEW c \in Clients, job[c] = None, NEW s \in Sessions, NEW pc \in {"open", "step"},
         NEW back \in {"prepped", "input"}, Start(c, s, pc, back),
         UNCHANGED <<config, diskVars, memVars, own, fired, said, acked, evicted, cut, lost, crashes>>,
         shared \subseteq shared', shared' \subseteq Sessions,
         \A d \in Clients \ {c} : s \notin shared' => ~Knows(d, s),
         pc = "step" => kind = "session_diff",
         Idle(s) => InCall(c)'
  PROVE  SInv'
<1>u. UNCHANGED <<kind, rollups, maxActive, torn, status, wal, slog, log, archive, rolled, persisted,
                  active, lru, history, own, fired, said, acked, evicted, cut, lost, crashes>>
  BY DEF config, diskVars, memVars
<1>p. pc \in Places
  BY DEF Places
<1>s. /\ ClientTypes' /\ job'[c] = Started(c, s, pc, back) /\ job'[c] # None
      /\ \A d \in Clients \ {c} : job'[d] = job[d] /\ turns'[d] = turns[d]
      /\ job'[c].sid = s
      /\ PlaceIs(c, pc, back)'
  BY <1>p, <1>u, Starts DEF SInv, TypeOK
<1>1. TypeOK'
  <2>1. (DiskTypes /\ MemTypes /\ HistoryTypes)'
    BY <1>u DEF DiskTypes, MemTypes, HistoryTypes, SInv, TypeOK
  <2> QED
    BY <1>u, <1>s, <2>1 DEF SInv, TypeOK
<1>2. OneUser'
  <2>1. \A d \in Clients \ {c}, t \in Sessions : Knows(d, t)' <=> Knows(d, t)
    BY <1>s, <1>u DEF Knows, Using
  <2>2. \A t \in Sessions : Knows(c, t)' => Knows(c, t) \/ t = s
    BY <1>s, <1>u DEF Knows, Using
  <2> SUFFICES ASSUME NEW t \in Sessions \ shared', NEW d \in Clients, NEW e \in Clients,
                      Knows(d, t)', Knows(e, t)'
               PROVE  d = e
    BY DEF OneUser
  <2>3. t \notin shared
    OBVIOUS
  <2>4. CASE t = s
    BY <2>1, <2>4
  <2>5. CASE t # s
    BY <2>1, <2>2, <2>3, <2>5 DEF SInv, OneUser
  <2> QED
    BY <2>4, <2>5
<1>3. Listed'
  <2>1. \A d \in Clients \ {c} : /\ job'[d] = job[d]
                                 /\ (Told(d)' <=> Told(d)) /\ (Stepped(d)' <=> Stepped(d))
    <3> TAKE d \in Clients \ {c}
    <3>1. job'[d] = job[d]
      BY <1>s
    <3>2. \A q : At(d, q)' <=> At(d, q)
      BY <3>1 DEF At
    <3> QED
      BY <3>1, <3>2 DEF Told, Stepped, Opening
  <2>2. ~Told(c)' /\ ~Stepped(c)'
    BY <1>s DEF PlaceIs
  <2>3. \A d \in Clients : own'[d] # None => status'[own'[d]] # None
    BY <1>u DEF SInv, Listed
  <2>4. \A d \in Clients : Told(d)' => status'[job'[d].sid] # None
    BY <1>u, <2>1, <2>2 DEF SInv, Listed
  <2>5. \A d \in Clients : Stepped(d)' \/ Told(d)' => job'[d].res \in Results
    BY <2>1, <2>2 DEF SInv, Listed
  <2> QED
    BY <2>3, <2>4, <2>5 DEF Listed
<1>4. RowsAgree' /\ TurnsKept'
  <2>1. \A d \in Clients \ {c} : s \notin shared' => ~Using(d, s) /\ ~Using(d, s)'
    BY <1>s DEF Knows, Using
  <2>2. ~Using(c, s) /\ Using(c, s)'
    BY <1>s DEF Using
  <2>3. \A t : ArchivedRows(t)' = ArchivedRows(t) /\ Kept(t)' = Kept(t)
    BY <1>u DEF ArchivedRows, Kept, NewFile
  <2>4. OnlyTouches(c, s)
    BY <1>s, <1>u, <2>3 DEF OnlyTouches
  <2>5. ASSUME Undisturbed(s)' PROVE SessionOK(s)'
    <3>1. s \notin shared' /\ Undisturbed(s)
      BY <1>u, <2>5 DEF Undisturbed, OnlyTouches, SInv, TypeOK, HistoryTypes
    <3>2. Idle(s)
      BY <2>1, <2>2, <3>1 DEF SInv, RowsAgree, SessionOK
    <3> QED
      BY <2>1, <2>2, <3>1, <3>2 DEF SessionOK
  <2>6. ASSUME Undisturbed(s)', s \notin lost' PROVE AckedKept(s)'
    <3>1. s \notin shared' /\ Undisturbed(s) /\ s \notin lost
      BY <1>u, <2>6 DEF Undisturbed
    <3>2. acked'[s] \subseteq Kept(s)'
      BY <1>u, <2>3, <3>1 DEF SInv, TurnsKept, AckedKept
    <3>4. CallKept(c)'
      <4>1. pc = "step" => kind # "session"
        OBVIOUS
      <4> QED
        BY <1>s, <1>u, <4>1 DEF CallKept, PlaceIs
    <3> QED
      BY <2>1, <3>1, <3>2, <3>4 DEF AckedKept
  <2>7. RowsAgree'
    BY <2>4, <2>5, ElsewhereKept DEF RowsAgree, SInv
  <2>8. TurnsKept'
    BY <2>4, <2>6, ElsewhereKept DEF TurnsKept, SInv
  <2> QED
    BY <2>7, <2>8
<1> QED
  BY <1>1, <1>2, <1>3, <1>4 DEF SInv

\* A new session belongs to nobody, unless its id was given out just before.
LEMMA NewConversationStep ==
  ASSUME SInv, NEW c \in Clients, NewConversation(c)
  PROVE  SInv'
<1>a. PICK s \in Sessions : s = NextSessionId
  BY DEF NewConversation
<1>0. /\ job[c] = None /\ Start(c, s, "open", "prepped")
      /\ shared' = IF s \in InUse THEN shared \cup {s} ELSE shared
  BY <1>a DEF NewConversation, MayRequest
<1>u. UNCHANGED <<config, diskVars, memVars, own, fired, said, acked, evicted, cut, lost, crashes>>
  BY DEF NewConversation
<1>p. "open" \in Places
  BY DEF Places
<1>s. job'[c] # None /\ job'[c].sid = s /\ job'[c].back = "prepped" /\ PlaceIs(c, "open", "prepped")'
  BY <1>0, <1>p, <1>u, Starts DEF SInv, TypeOK
<1>1. status[s] = None
  BY <1>a, NextIsNew
<1>2. shared \subseteq shared' /\ shared' \subseteq Sessions
  BY <1>0 DEF SInv, TypeOK, HistoryTypes
<1>3. \A d \in Clients \ {c} : s \notin shared' => ~Knows(d, s)
  <2>1. \A d \in Clients : own[d] # s
    BY <1>1, Constants DEF SInv, Listed
  <2>2. \A d \in Clients : s \notin shared' => ~Using(d, s)
    BY <1>0 DEF InUse, Busy, Using
  <2> QED
    BY <2>1, <2>2 DEF Knows
<1>4. Idle(s) => InCall(c)'
  <2>1. Idle(s)' <=> Idle(s)
    BY <1>u DEF diskVars, memVars, Idle, Same, Empty, Closed
  <2> QED
    BY <1>s, <2>1 DEF InCall, PlaceIs
<1> QED
  BY <1>0, <1>u, <1>2, <1>3, <1>4, RequestStarts

\* A client goes on with its own session.
LEMMA ContinueStep ==
  ASSUME SInv, NEW c \in Clients, Continue(c)
  PROVE  SInv'
<1>a. PICK s \in Sessions : s = own[c]
  BY DEF Continue, SInv, TypeOK, ClientTypes, MaybeSessions
<1>u. UNCHANGED <<config, diskVars, memVars, own, fired, ghostVars>> /\ job[c] = None
  BY DEF Continue, MayRequest
<1>v. UNCHANGED <<kind, status, wal, active, history, said, acked, shared, evicted, cut, lost, crashes>>
  BY <1>u DEF config, diskVars, memVars, ghostVars
<1>2. shared \subseteq shared' /\ shared' \subseteq Sessions
  BY <1>v DEF SInv, TypeOK, HistoryTypes
<1>3. \A d \in Clients \ {c} : s \notin shared' => ~Knows(d, s)
  BY <1>a, <1>v DEF SInv, OneUser, Knows
<1>4. Idle(s)' <=> Idle(s)
  BY <1>v DEF Idle, Same, Empty, Closed
<1>5. CASE active[s] # None /\ kind = "session_diff"
  <2>1. Start(c, s, "step", "prepped")
    BY <1>a, <1>5 DEF Continue
  <2>2. "step" \in Places
    BY DEF Places
  <2>3. job'[c] # None /\ job'[c].sid = s /\ job'[c].back = "prepped" /\ PlaceIs(c, "step", "prepped")'
    BY <1>u, <2>1, <2>2, Starts DEF SInv, TypeOK
  <2>4. ASSUME Idle(s) PROVE InCall(c)'
    <3>1. Same(s)
      BY <1>5, <2>4 DEF Idle, Empty
    <3>2. BeforeStep(c)' = <<>>
      BY <1>5, <1>v DEF BeforeStep, DiffBeforeStep
    <3>3. history[s] \o <<>> = history[s]
      BY ConcatEmptySeq DEF SInv, TypeOK, MemTypes
    <3> QED
      BY <1>v, <2>3, <3>1, <3>2, <3>3 DEF InCall, PlaceIs, Same
  <2> QED
    BY <1>5, <1>u, <1>v, <1>2, <1>3, <2>1, <2>4, RequestStarts
<1>6. CASE ~(active[s] # None /\ kind = "session_diff")
  <2>0. PICK back \in {"prepped", "input"} : back = IF active[s] = None THEN "prepped" ELSE "input"
    OBVIOUS
  <2>1. Start(c, s, "open", back)
    BY <1>a, <1>6, <2>0 DEF Continue
  <2>2. "open" \in Places
    BY DEF Places
  <2>3. job'[c] # None /\ job'[c].sid = s /\ job'[c].back = back /\ PlaceIs(c, "open", back)'
    BY <1>u, <2>1, <2>2, Starts DEF SInv, TypeOK
  <2>4. back = "input" => kind' = "session"
    BY <1>6, <1>v, <2>0 DEF SInv, TypeOK, Kinds
  <2>5. Idle(s) => InCall(c)'
    BY <1>4, <2>3, <2>4 DEF InCall, PlaceIs
  <2> QED
    BY <1>u, <1>v, <1>2, <1>3, <2>1, <2>5, RequestStarts
<1> QED
  BY <1>5, <1>6

\* A step that leaves the requests and the rows of the sessions alone
LEMMA OthersStep ==
  ASSUME SInv, UNCHANGED <<config, diskVars, rolled, active, lru, history, job, clientVars, fired,
                           ghostVars>>,
         persisted' \in 0 .. Len(rolled)
  PROVE  SInv'
<1>u. UNCHANGED <<kind, rollups, maxActive, torn, status, wal, slog, log, archive, rolled, active, lru,
                  history, job, own, turns, fired, said, acked, shared, evicted, cut, lost, crashes>>
  BY DEF config, diskVars, clientVars, ghostVars
<1>1. TypeOK'
  BY <1>u DEF SInv, TypeOK, DiskTypes, MemTypes, ClientTypes, HistoryTypes
<1>2. OneUser'
  BY <1>u DEF SInv, OneUser, Knows, Using
<1>3. \A d \in Clients : At(d, "open")' <=> At(d, "open")
  BY <1>u DEF At
<1>4. \A d \in Clients : (Told(d)' <=> Told(d)) /\ (Stepped(d)' <=> Stepped(d))
  <2>1. \A d \in Clients, pc \in Places : At(d, pc)' <=> At(d, pc)
    BY <1>u DEF At
  <2> QED
    BY <1>u, SameRequest
<1>5. Listed'
  BY <1>u, <1>4 DEF SInv, Listed
<1>6. \A s : ArchivedRows(s)' = ArchivedRows(s) /\ Kept(s)' = Kept(s)
  BY <1>u DEF ArchivedRows, Kept, NewFile
<1>7. \A s \in Sessions : /\ (Idle(s)' <=> Idle(s)) /\ (Undisturbed(s)' <=> Undisturbed(s))
                          /\ \A d \in Clients : Using(d, s)' <=> Using(d, s)
  BY <1>u DEF Idle, Same, Empty, Closed, Undisturbed, Using
<1>8. \A s \in Sessions, d \in Clients :
        Using(d, s) => (InCall(d) => InCall(d)') /\ (CallKept(d) => CallKept(d)')
  BY <1>u, <1>6, SameCall
<1>9. RowsAgree'
  BY <1>7, <1>8 DEF SInv, RowsAgree, SessionOK
<1>10. TurnsKept'
  BY <1>u, <1>6, <1>7, <1>8 DEF SInv, TurnsKept, AckedKept
<1> QED
  BY <1>1, <1>2, <1>5, <1>9, <1>10 DEF SInv

\* What a request is about to append are rows.
LEMMA AppendingIsSeq ==
  ASSUME SInv, NEW c \in Clients, job[c] # None
  PROVE  Appending(c) \in Seq(Rows)
<1>1. Input(c) \in Rows /\ <<Input(c)>> \in Seq(Rows)
  BY RowsAreRows DEF SInv, TypeOK
<1>2. PersistedRows(c, job[c].res) \in Seq(Rows)
  BY RowsAreRows DEF SInv, TypeOK
<1> QED
  BY <1>1, <1>2, Constants DEF Appending

\* A row of a session that is not lost was on disk when the process ended.
LEMMA ArchivedByCrash ==
  ASSUME SInv, Restart, NEW s \in Sessions \ lost'
  PROVE  ArchivedRows(s) \subseteq ArchivedRows(s)'
<1>1. /\ archive' = archive \o SubSeq(rolled, 1, persisted) /\ rolled' = <<>>
      /\ lost' = lost \cup {rolled[k].session : k \in persisted + 1 .. Len(rolled)}
  BY DEF Restart
<1>2. /\ archive \in Seq(RolledRows) /\ rolled \in Seq(RolledRows) /\ persisted \in 0 .. Len(rolled)
      /\ Len(rolled) \in Nat
  BY DEF SInv, TypeOK, DiskTypes, MemTypes
<1>3. SubSeq(rolled, 1, persisted) \in Seq(RolledRows)
      /\ \A k \in 1 .. persisted : SubSeq(rolled, 1, persisted)[k] = rolled[k]
      /\ Len(SubSeq(rolled, 1, persisted)) = persisted
  BY <1>2, SubSeqProperties
<1>4. archive' \in Seq(RolledRows)
      /\ Range(archive') = Range(archive) \cup Range(SubSeq(rolled, 1, persisted))
  <2> DEFINE kept == SubSeq(rolled, 1, persisted)
  <2>1. kept \in Seq(RolledRows)
    BY <1>3
  <2> HIDE DEF kept
  <2>2. archive \o kept \in Seq(RolledRows) /\ Range(archive \o kept) = Range(archive) \cup Range(kept)
    BY <1>2, <2>1, ConcatProperties, RangeConcatenation
  <2> QED
    BY <1>1, <2>2 DEF kept
<1>5. archive' \o rolled' = archive'
  BY <1>1, <1>4, ConcatEmptySeq
<1>6. Range(archive \o rolled) = Range(archive) \cup Range(rolled)
  BY <1>2, RangeConcatenation
<1>7. ASSUME NEW row \in Range(rolled), row.session = s
      PROVE  row \in Range(SubSeq(rolled, 1, persisted))
  <2>1. PICK k \in 1 .. Len(rolled) : row = rolled[k]
    BY DEF Range
  <2>2. k \notin persisted + 1 .. Len(rolled)
    BY <1>1, <1>7, <2>1
  <2>3. k \in 1 .. persisted
    BY <1>2, <2>1, <2>2
  <2> QED
    BY <1>3, <2>1, <2>3 DEF Range
<1>8. {r \in Range(archive \o rolled) : r.session = s} \subseteq Range(archive' \o rolled')
  BY <1>4, <1>5, <1>6, <1>7
<1> QED
  BY <1>8 DEF ArchivedRows

\* After a crash the sessions are on disk only.
LEMMA RestartStep ==
  ASSUME SInv, Restart,
         wal' \in [Sessions -> Seq(Rows) \cup {None}], torn' \in [Sessions -> Nat \cup {None}],
         \A s \in Sessions : /\ wal'[s] = None <=> wal[s] = None
                             /\ torn'[s] = None => torn[s] = None /\ wal'[s] = wal[s]
  PROVE  SInv'
<1>u. UNCHANGED <<kind, rollups, maxActive, status, slog, log, own, turns, fired, said, acked,
                  shared, evicted>>
  BY DEF Restart, clientVars
<1>0. /\ crashes < MaxCrashes /\ crashes' = crashes + 1
      /\ archive' = archive \o SubSeq(rolled, 1, persisted)
      /\ rolled' = <<>> /\ persisted' = 0
      /\ active' = [s \in Sessions |-> None] /\ lru' = <<>>
      /\ history' = [s \in Sessions |-> <<>>]
      /\ job' = [c \in Clients |-> None]
      /\ cut' = cut \cup InUse
      /\ lost' = lost \cup {rolled[k].session : k \in persisted + 1 .. Len(rolled)}
  BY DEF Restart
<1>1. TypeOK'
  <2>1. MemTypes'
    BY <1>0, Constants DEF MemTypes
  <2>2. archive' \in Seq(RolledRows)
    <3>1. rolled \in Seq(RolledRows) /\ persisted \in 0 .. Len(rolled) /\ archive \in Seq(RolledRows)
      BY DEF SInv, TypeOK, DiskTypes, MemTypes
    <3>2. SubSeq(rolled, 1, persisted) \in Seq(RolledRows)
      BY <3>1, SubSeqProperties
    <3> QED
      BY <1>0, <3>1, <3>2, ConcatProperties
  <2>3. DiskTypes'
    BY <1>u, <2>2 DEF DiskTypes, SInv, TypeOK
  <2>4. ClientTypes'
    BY <1>u, <1>0 DEF ClientTypes, SInv, TypeOK
  <2>5. InUse \subseteq Sessions
    BY JobIsJob DEF SInv, TypeOK, InUse, Busy
  <2>6. {rolled[k].session : k \in persisted + 1 .. Len(rolled)} \subseteq Sessions
    <3>1. rolled \in Seq(RolledRows) /\ persisted \in 0 .. Len(rolled) /\ Len(rolled) \in Nat
      BY DEF SInv, TypeOK, MemTypes
    <3>2. \A k \in persisted + 1 .. Len(rolled) : rolled[k] \in RolledRows
      BY <3>1
    <3> QED
      BY <3>2 DEF RolledRows
  <2>7. crashes' \in 0 .. MaxCrashes
    BY <1>0, Constants DEF SInv, TypeOK, HistoryTypes
  <2>8. HistoryTypes'
    BY <1>u, <1>0, <2>5, <2>6, <2>7 DEF HistoryTypes, SInv, TypeOK
  <2> QED
    BY <1>u, <2>1, <2>3, <2>4, <2>8 DEF SInv, TypeOK
<1>2. OneUser'
  BY <1>u, <1>0 DEF SInv, OneUser, Knows, Using
<1>3. \A c \in Clients : /\ ~Told(c)' /\ ~Stepped(c)' /\ \A s : ~Using(c, s)'
  BY <1>0 DEF Told, Stepped, Opening, At, Using
<1>4. Listed'
  BY <1>u, <1>3 DEF SInv, Listed
<1>5. RowsAgree'
  BY <1>0, <1>3 DEF RowsAgree, SessionOK, Idle, Empty
<1>6. TurnsKept'
  <2> SUFFICES ASSUME NEW s \in Sessions \ lost', Undisturbed(s)'
               PROVE  AckedKept(s)'
    BY DEF TurnsKept
  <2>1. acked[s] \subseteq Kept(s)
    BY <1>u, <1>0 DEF SInv, TurnsKept, AckedKept, Undisturbed
  <2>2. Kept(s) \subseteq Kept(s)'
    <3>1. wal'[s] = wal[s]
      BY DEF Undisturbed
    <3> QED
      BY <3>1, ArchivedByCrash DEF Kept, NewFile
  <2> QED
    BY <1>u, <1>3, <2>1, <2>2 DEF AckedKept
<1> QED
  BY <1>1, <1>2, <1>4, <1>5, <1>6 DEF SInv

\* A session whose append the crash cuts short is no session the invariant speaks of.
LEMMA CrashStep ==
  ASSUME SInv, Crash \/ \E c \in Clients : CrashInAppend(c)
  PROVE  SInv'
<1>1. CASE Crash
  BY <1>1, RestartStep DEF Crash, SInv, TypeOK, DiskTypes
<1>2. ASSUME NEW c \in Clients, CrashInAppend(c) PROVE SInv'
  <2>1. PICK s \in Sessions : s = job[c].sid
    BY <1>2, JobIsJob DEF SInv, TypeOK, CrashInAppend
  <2>2. PICK rows \in {<<>>, Appending(c)} : wal' = [wal EXCEPT ![s] = wal[s] \o rows]
    BY <1>2, <2>1 DEF CrashInAppend
  <2>3. /\ wal \in [Sessions -> Seq(Rows) \cup {None}] /\ torn \in [Sessions -> Nat \cup {None}]
        /\ wal[s] \in Seq(Rows)
    BY <1>2, <2>1 DEF CrashInAppend, SInv, TypeOK, DiskTypes
  <2>4. rows \in Seq(Rows)
    BY <1>2, <2>2, AppendingIsSeq, Constants DEF CrashInAppend
  <2>5. wal[s] \o rows \in Seq(Rows)
    BY <2>3, <2>4, ConcatProperties
  <2>6. /\ wal' \in [Sessions -> Seq(Rows) \cup {None}]
        /\ wal'[s] = wal[s] \o rows /\ \A t \in Sessions \ {s} : wal'[t] = wal[t]
    BY <2>2, <2>3, <2>5
  <2>7. PICK n \in Nat : torn' = [torn EXCEPT ![s] = n]
    <3>1. torn' = [torn EXCEPT ![s] = IF torn[s] = None THEN Len(wal'[s]) ELSE torn[s]]
      BY <1>2, <2>1 DEF CrashInAppend
    <3>2. (IF torn[s] = None THEN Len(wal'[s]) ELSE torn[s]) \in Nat
      BY <2>3, <2>5, <2>6
    <3> QED
      BY <3>1, <3>2
  <2>8. None \notin Nat /\ None \notin Seq(Rows)
    BY Constants
  <2>9. Restart
    BY <1>2 DEF CrashInAppend
  <2> QED
    BY <2>3, <2>5, <2>6, <2>7, <2>8, <2>9, RestartStep
<1> QED
  BY <1>1, <1>2

-----------------------------------------------------------------------------
(* The theorems *)

\* It holds at the beginning, ...
LEMMA InitHolds ==
  ASSUME Init
  PROVE  SInv
<1>1. TypeOK
  <2>1. DiskTypes
    BY Constants DEF Init, DiskTypes
  <2>2. MemTypes
    BY Constants DEF Init, MemTypes
  <2>3. ClientTypes
    BY Constants DEF Init, ClientTypes, MaybeSessions
  <2>4. HistoryTypes
    BY Constants DEF Init, HistoryTypes
  <2>5. rollups \in {"kept", "refused", "blank"}
    BY DEF Init, FactoryRollups, ServerRollups
  <2> QED
    BY <2>1, <2>2, <2>3, <2>4, <2>5 DEF Init, TypeOK
<1>2. OneUser
  BY Constants DEF Init, OneUser, Knows, Using
<1>3. \A c \in Clients : ~Told(c) /\ ~Stepped(c) /\ \A s : ~Using(c, s)
  BY DEF Init, Told, Stepped, Opening, At, Using
<1>4. Listed
  BY <1>3 DEF Init, Listed
<1>5. RowsAgree
  BY <1>3 DEF Init, RowsAgree, SessionOK, Idle, Empty
<1>6. TurnsKept
  BY <1>3 DEF Init, TurnsKept, AckedKept
<1> QED
  BY <1>1, <1>2, <1>4, <1>5, <1>6 DEF SInv

\* ... and every step keeps it.
LEMMA NextKeeps ==
  ASSUME SInv, [Next]_vars
  PROVE  SInv'
<1>1. ASSUME NEW c \in Clients, OpenSteps(c) PROVE SInv'
  BY <1>1, FindActiveStep, RefuseClosedStep, BeginOpenStep, EvictIfNeededStep, OpenFilesStep,
     PrepHistoryStep, InsertActiveStep DEF OpenSteps
<1>2. ASSUME NEW c \in Clients, CallSteps(c) PROVE SInv'
  <2>1. ASSUME Prepared(c) PROVE SInv'
    BY <2>1, PreparedSessionStep, PreparedDiffStep DEF Prepared
  <2> QED
    BY <1>2, <2>1, AppendInputStep, CallModuleStep, PersistStatusStep, AppendOutputStep, AppendLogStep,
       AnsweringSteps, BeginRollupStep DEF CallSteps
<1>3. ASSUME NEW c \in Clients, RollupSteps(c) PROVE SInv'
  BY <1>3, PushRolledUpRowStep, AnsweringSteps, MergeLogStep, CleanupStep DEF RollupSteps
<1>4. ASSUME NEW c \in Clients, NewConversation(c) \/ Continue(c) \/ Panic(c) PROVE SInv'
  BY <1>4, NewConversationStep, ContinueStep, PanicStep
<1>5. ASSUME PersistRow PROVE SInv'
  <2>1. persisted' \in 0 .. Len(rolled)
    BY <1>5 DEF PersistRow, SInv, TypeOK, MemTypes
  <2> QED
    BY <1>5, <2>1, OthersStep DEF PersistRow
<1>6. ASSUME UNCHANGED vars PROVE SInv'
  <2>1. persisted' \in 0 .. Len(rolled)
    BY <1>6 DEF vars, memVars, SInv, TypeOK, MemTypes
  <2> QED
    BY <1>6, <2>1, OthersStep DEF vars, memVars
<1> QED
  BY <1>1, <1>2, <1>3, <1>4, <1>5, <1>6, CrashStep DEF Next

\* Every variable of the session pipeline stays within its type, and a session's WAL
\* and its log come and go together.
THEOREM TypeCorrect == Spec => []TypeOK
<1>1. Init => SInv
  BY InitHolds
<1>2. SInv /\ [Next]_vars => SInv'
  BY NextKeeps
<1>3. SInv => TypeOK
  BY DEF SInv
<1> QED
  BY <1>1, <1>2, <1>3, PTL DEF Spec

\* When call() runs a step, the memory of the module is exactly the rows of the
\* session's WAL, through evictions between requests and restarts at any time, but for
\* a session whose WAL has a frame that the end of a process cut short.
THEOREM StepsSeeHistory == Spec => []StepSeesHistory
<1>1. Init => SInv
  BY InitHolds
<1>2. SInv /\ [Next]_vars => SInv'
  BY NextKeeps
<1>3. SInv => StepSeesHistory
  <2> SUFFICES ASSUME SInv, NEW c \in Busy, At(c, "step"), Undisturbed(job[c].sid)
               PROVE  history[job[c].sid] \o BeforeStep(c) = wal[job[c].sid]
    BY DEF StepSeesHistory
  <2>1. PICK s \in Sessions : s = job[c].sid /\ Using(c, s)
    BY JobIsJob DEF SInv, TypeOK, Busy, Using
  <2>2. InCall(c)
    BY <2>1 DEF SInv, RowsAgree, SessionOK, Busy
  <2> QED
    BY <2>2 DEF InCall
<1> QED
  BY <1>1, <1>2, <1>3, PTL DEF Spec

\* The rows of an answered turn stay in the session's WAL, where recover() gives them, until
\* its rolled-up row is in the output manager, and there ever after, through any crash but
\* one that finds the row still queued, or one that cuts an append to that WAL short: such
\* a session is left out from then on (torn).
THEOREM TurnsStay == Spec => []AckedTurnsKept
<1>1. Init => SInv
  BY InitHolds
<1>2. SInv /\ [Next]_vars => SInv'
  BY NextKeeps
<1>3. SInv => AckedTurnsKept
  BY DEF SInv, TurnsKept, AckedKept, Kept, AckedTurnsKept, RecoveredRows, Undisturbed
<1> QED
  BY <1>1, <1>2, <1>3, PTL DEF Spec

=============================================================================
