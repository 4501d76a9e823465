----------------------- MODULE PlaybooksManagerProofs -----------------------
(***************************************************************************)
(* Proofs about PlaybooksManager, for any playbooks and whatever they      *)
(* call, cycles included, any callbacks, addresses and clients: every      *)
(* variable keeps its type, no directory is removed under a worker, a      *)
(* worker calls the callbacks that are listed, and how the last start,     *)
(* stop or delete of a playbook ended holds.                               *)
(*                                                                         *)
(* Base is what every step relies on, and Listed types the list of an      *)
(* update.  Stacks says what the calls of a task are: only the innermost   *)
(* runs, and has what its place says.  Mem                                 *)
(* types the other variables.  Alone says that a playbook which is not     *)
(* among the raced has one task that works on it, Locked that the lock is  *)
(* held over a wait by delete_playbook only, whose worker is out of the    *)
(* map, Counts that a callback is added once.  A lemma for each action     *)
(* says that it keeps Base, and which shape its step has: the call turned  *)
(* to another place, made another call, or returned.                       *)
(*                                                                         *)
(* Callbacks is the invariant behind CallbacksAgree: it says what holds    *)
(* while a worker is on its way into the map, and while a callback that    *)
(* the database has, or has no more, is still to be told to the worker.    *)
(*                                                                         *)
(* Behind AnswersHold are five, most with a lemma for each action.  Sound  *)
(* says where a playbook is in map, tables, sockets and on disk at each    *)
(* place of a call (Frames), what it was answered (Answers), and in what   *)
(* order calls are (Chains), for a playbook whose start needs itself never *)
(* gets a worker.  Vers says that only an update starts another version,   *)
(* Https that no two workers have one address.  Life says, as long as      *)
(* nothing has gone wrong, that a playbook whose row says running has a    *)
(* worker or will have one: the daemon is still to resume it.  That this   *)
(* resumption succeeds needs Apart, by which no address is taken.          *)
(***************************************************************************)
EXTENDS PlaybooksManager, SequenceTheorems, FiniteSetTheorems, TLAPS

\* The places of all calls
Pcs == {"begin", "row", "delete", "rmdir", "dirs", "interconnect", "launched", "worker",
        "callbacks", "record", "insert", "stop", "started", "rolled_back", "next", "resumed"}

\* Where a call stands while one it made is under way.
Waits == {"launched", "started", "rolled_back", "resumed"}

\* Where a call has a worker that is not in the map.
Built == {"callbacks", "record", "insert"}

\* The places of start_playbook once there is a directory or a row; those of
\* resume_playbook are the same.
Past == {"interconnect", "launched", "worker"} \cup Built

\* Where a call of each kind may be.
Places ==
    ({"start"} \X ({"begin", "row", "delete", "rmdir", "dirs"} \cup Past))
      \cup ({"resume"} \X ({"begin", "row"} \cup Past))
      \cup ({"delete"} \X {"begin", "rmdir"})
      \cup ({"add_callback", "delete_callback"} \X {"begin", "worker"})
      \cup ({"update"} \X {"stop", "started", "rolled_back"})
      \cup ({"boot"} \X {"next", "resumed"})
      \cup ({"stop", "set_http"} \X {"begin"})

Calls ==
    [op : Ops, name : Names \cup {None}, pc : Pcs, arg : Addrs \cup Uuids \cup {None},
     path : BOOLEAN, ver : Versions, worker : Worker \cup {None}, ok : BOOLEAN]

\* What a call of task c has at each place.
CallOK(c, f) ==
    /\ <<f.op, f.pc>> \in Places
    /\ f.op # "boot" \/ f.pc = "resumed" => f.name \in Names
    /\ f.op \in {"start", "resume", "set_http", "update"} => f.arg \in Addrs \cup {None}
    /\ f.op \in {"add_callback", "delete_callback"} => f.arg \in Uuids
    /\ f.pc \in {"interconnect", "launched"} => Needs[f.name] # None
    /\ IF f.pc \in Built
       THEN f.worker \in Worker /\ \A u \in Uuids : f.worker.cbs[u] \in {0, 1}
       ELSE f.worker = None
    /\ f.op \in {"boot", "update"} => c = Daemon
    /\ c = Daemon => f.op \in {"boot", "update", "start", "resume"}

\* A call that has yet to begin is one that another call made.
Begins(f) == f.pc = "begin" => f.op \in {"start", "resume"}

\* The calls of task c: only the innermost runs, and a resume is a request of its own or the
\* daemon's at its start.
StackOK(c, s) ==
    /\ \A f \in Range(s) : CallOK(c, f) /\ Begins(f)
    /\ s # <<>> => \A f \in Range(Tail(s)) : f.pc \in Waits
    /\ \A i, j \in 1..Len(s) : i < j /\ s[i].op = "resume" => s[j].op = "boot"

Stacks ==
    /\ stack \in [Tasks -> Seq(Calls)]
    /\ \A c \in Tasks : StackOK(c, stack[c])

-----------------------------------------------------------------------------
(* Stacks of calls *)

\* A sequence that is not empty, as its head and its tail
LEMMA Split ==
    ASSUME NEW S, NEW s \in Seq(S), s # <<>>
    PROVE  /\ Head(s) \in S /\ Tail(s) \in Seq(S)
           /\ s = <<Head(s)>> \o Tail(s)
           /\ Range(s) = {Head(s)} \cup Range(Tail(s))
           /\ Len(s) = Len(Tail(s)) + 1 /\ Len(Tail(s)) \in Nat
           /\ s[1] = Head(s) /\ \A i \in 2..Len(s) : s[i] = Tail(s)[i - 1]
<1>1. /\ Head(s) \in S /\ Tail(s) \in Seq(S) /\ Len(Tail(s)) = Len(s) - 1
      /\ \A i \in 1..Len(Tail(s)) : Tail(s)[i] = s[i + 1]
  BY HeadTailProperties
<1>2. /\ Len(s) \in Nat \ {0} /\ Len(Tail(s)) \in Nat
      /\ DOMAIN s = 1..Len(s) /\ DOMAIN Tail(s) = 1..Len(Tail(s))
  BY <1>1, EmptySeq, LenProperties
<1>3. Head(s) = s[1]
  OBVIOUS
<1>4. Range(s) = {Head(s)} \cup Range(Tail(s))
  <2>1. ASSUME NEW x \in Range(s) PROVE x \in {Head(s)} \cup Range(Tail(s))
    <3>1. PICK i \in 1..Len(s) : x = s[i]
      BY <1>2 DEF Range
    <3>2. CASE i = 1
      BY <3>1, <3>2, <1>3
    <3>3. CASE i # 1
      <4>1. i - 1 \in 1..Len(Tail(s)) /\ Tail(s)[i - 1] = s[i]
        BY <3>3, <1>1, <1>2
      <4> QED
        BY <4>1, <3>1, <1>2 DEF Range
    <3> QED
      BY <3>2, <3>3
  <2>2. ASSUME NEW x \in Range(Tail(s)) PROVE x \in Range(s)
    <3>1. PICK i \in 1..Len(Tail(s)) : x = Tail(s)[i]
      BY <1>2 DEF Range
    <3>2. i + 1 \in 1..Len(s) /\ x = s[i + 1]
      BY <3>1, <1>1, <1>2
    <3> QED
      BY <3>2, <1>2 DEF Range
  <2>3. Head(s) \in Range(s)
    BY <1>2, <1>3 DEF Range
  <2> QED
    BY <2>1, <2>2, <2>3
<1>5. s = <<Head(s)>> \o Tail(s)
  <2>1. <<Head(s)>> \in Seq(S) /\ Len(<<Head(s)>>) = 1 /\ <<Head(s)>>[1] = Head(s)
    BY <1>1
  <2>2. /\ <<Head(s)>> \o Tail(s) \in Seq(S) /\ Len(<<Head(s)>> \o Tail(s)) = Len(s)
        /\ \A i \in 1..Len(s) : (<<Head(s)>> \o Tail(s))[i] = s[i]
    BY <2>1, <1>1, <1>2, <1>3, ConcatProperties
  <2> QED
    BY <2>2, SeqEqual
<1> QED
  BY <1>1, <1>2, <1>3, <1>4, <1>5

\* A sequence with one more in front
LEMMA Pushed ==
    ASSUME NEW S, NEW s \in Seq(S), NEW f \in S
    PROVE  /\ <<f>> \o s \in Seq(S) /\ <<f>> \o s # <<>>
           /\ Head(<<f>> \o s) = f /\ Tail(<<f>> \o s) = s
           /\ Range(<<f>> \o s) = {f} \cup Range(s)
           /\ Len(<<f>> \o s) = Len(s) + 1 /\ Len(s) \in Nat
           /\ (<<f>> \o s)[1] = f /\ \A i \in 2..(Len(s) + 1) : (<<f>> \o s)[i] = s[i - 1]
<1> DEFINE t == <<f>> \o s
<1>1. /\ <<f>> \in Seq(S) /\ Len(<<f>>) = 1 /\ <<f>>[1] = f /\ Len(s) \in Nat
  BY LenProperties
<1>2. /\ t \in Seq(S) /\ Len(t) = Len(s) + 1
      /\ t[1] = f /\ \A i \in 2..(Len(s) + 1) : t[i] = s[i - 1]
  <2>1. /\ t \in Seq(S) /\ Len(t) = 1 + Len(s)
        /\ \A i \in 1..(1 + Len(s)) : t[i] = IF i <= 1 THEN <<f>>[i] ELSE s[i - 1]
    BY <1>1, ConcatProperties
  <2> HIDE DEF t
  <2> QED
    BY <2>1, <1>1
<1> HIDE DEF t
<1>3. t # <<>>
  BY <1>1, <1>2, EmptySeq
<1>4. Head(t) = f
  BY <1>2, <1>3
<1>5. Tail(t) = s
  <2>1. /\ Tail(t) \in Seq(S) /\ Len(Tail(t)) = Len(s)
        /\ \A i \in 1..Len(s) : Tail(t)[i] = t[i + 1]
    BY <1>1, <1>2, <1>3, HeadTailProperties
  <2> QED
    BY <2>1, <1>2, SeqEqual
<1>6. Range(t) = {f} \cup Range(s)
  BY <1>2, <1>3, <1>4, <1>5, Split
<1> QED
  BY <1>1, <1>2, <1>3, <1>4, <1>5, <1>6 DEF t

\* The same for a stack of calls, ..
LEMMA PushedCall ==
    ASSUME NEW s \in Seq(Calls), NEW f \in Calls
    PROVE  /\ <<f>> \o s \in Seq(Calls) /\ <<f>> \o s # <<>>
           /\ Head(<<f>> \o s) = f /\ Tail(<<f>> \o s) = s
           /\ Range(<<f>> \o s) = {f} \cup Range(s)
           /\ Len(<<f>> \o s) = Len(s) + 1 /\ Len(s) \in Nat
           /\ (<<f>> \o s)[1] = f /\ \A i \in 2..(Len(s) + 1) : (<<f>> \o s)[i] = s[i - 1]
  BY Pushed, SMT

\* .. and its head and tail
LEMMA SplitCall ==
    ASSUME NEW s \in Seq(Calls), s # <<>>
    PROVE  /\ Head(s) \in Calls /\ Tail(s) \in Seq(Calls)
           /\ s = <<Head(s)>> \o Tail(s)
           /\ Range(s) = {Head(s)} \cup Range(Tail(s))
           /\ Len(s) = Len(Tail(s)) + 1 /\ Len(Tail(s)) \in Nat
           /\ s[1] = Head(s) /\ \A i \in 2..Len(s) : s[i] = Tail(s)[i - 1]
  BY Split, SMT

\* The call that runs, and those under it.
LEMMA Peek ==
    ASSUME Stacks, NEW c \in Tasks, stack[c] # <<>>
    PROVE  /\ Top(c) \in Calls /\ CallOK(c, Top(c)) /\ Under(c) \in Seq(Calls)
           /\ Begins(Top(c)) /\ stack[c] \in Seq(Calls)
           /\ Range(stack[c]) = {Top(c)} \cup Range(Under(c))
           /\ \A f \in Range(Under(c)) : f \in Calls /\ CallOK(c, f) /\ f.pc \in Waits
<1>1. stack[c] \in Seq(Calls) /\ Under(c) = Tail(stack[c])
  BY DEF Stacks, Under
<1>2. /\ Top(c) \in Calls /\ Under(c) \in Seq(Calls)
      /\ Range(stack[c]) = {Top(c)} \cup Range(Under(c))
  BY <1>1, SplitCall DEF Top
<1>3. \A f \in Range(Under(c)) : f \in Calls
  BY <1>2, LenProperties DEF Range
<1> QED
  BY <1>1, <1>2, <1>3 DEF Stacks, StackOK

\* What is under a task with no calls
LEMMA IdleUnder == ASSUME NEW c, stack[c] = <<>> PROVE Under(c) = <<>> /\ Range(Under(c)) = {}
  BY DEF Under, Range

\* The shape of a stack after each of its operations
LEMMA BecomeStack ==
    ASSUME NEW c, NEW s \in Seq(Calls), StackOK(c, s), NEW f \in Calls, CallOK(c, f),
           f.pc # "begin", s # <<>> => f.op = Head(s).op,
           NEW r \in Seq(Calls), r = IF s = <<>> THEN <<>> ELSE Tail(s)
    PROVE  StackOK(c, <<f>> \o r)
<1> DEFINE t == <<f>> \o r
<1>1. /\ Tail(t) = r /\ Range(t) = {f} \cup Range(r) /\ Len(t) = Len(r) + 1 /\ Len(r) \in Nat
      /\ t[1] = f /\ \A i \in 2..(Len(r) + 1) : t[i] = r[i - 1]
  BY PushedCall
<1> HIDE DEF t
<1>2. CASE s = <<>>
  <2>1. r = <<>> /\ Len(r) = 0 /\ Range(r) = {}
    BY <1>2 DEF Range
  <2>2. /\ \A g \in Range(t) : CallOK(c, g) /\ Begins(g)
        /\ \A g \in Range(Tail(t)) : g.pc \in Waits
    BY <2>1, <1>1 DEF Begins
  <2>3. Len(t) = 1
    BY <2>1, <1>1
  <2>4. \A i, j \in 1..Len(t) : ~(i < j)
    BY <2>3
  <2> QED
    BY <2>2, <2>4 DEF StackOK, t
<1>3. CASE s # <<>>
  <2>1. /\ r = Tail(s) /\ Range(s) = {Head(s)} \cup Range(r) /\ Len(s) = Len(r) + 1
        /\ s[1] = Head(s) /\ \A i \in 2..Len(s) : s[i] = r[i - 1]
    BY <1>3, SplitCall
  <2>2. /\ \A g \in Range(t) : CallOK(c, g) /\ Begins(g)
        /\ \A g \in Range(Tail(t)) : g.pc \in Waits
    BY <2>1, <1>1, <1>3 DEF StackOK, Begins
  <2>3. ASSUME NEW i \in 1..Len(t), NEW j \in 1..Len(t), i < j, t[i].op = "resume"
        PROVE  t[j].op = "boot"
    <3>1. /\ j - 1 \in 1..Len(r) /\ t[j] = r[j - 1] /\ s[j] = r[j - 1] /\ j \in 1..Len(s)
          /\ i \in 1..Len(s)
      BY <2>3, <2>1, <1>1
    <3>2. t[i].op = s[i].op
      <4>1. CASE i = 1
        BY <4>1, <2>1, <1>1, <1>3
      <4>2. CASE i # 1
        <5>1. i - 1 \in 1..Len(r) /\ t[i] = r[i - 1] /\ s[i] = r[i - 1]
          BY <4>2, <2>3, <2>1, <1>1
        <5> QED
          BY <5>1
      <4> QED
        BY <4>1, <4>2
    <3> QED
      BY <3>1, <3>2, <2>3 DEF StackOK
  <2> QED
    BY <2>2, <2>3 DEF StackOK, t
<1> QED
  BY <1>2, <1>3

\* Two in front are one in front of one in front.
LEMMA PushedTwo ==
    ASSUME NEW S, NEW s \in Seq(S), NEW f \in S, NEW g \in S
    PROVE  <<f, g>> \o s = <<f>> \o (<<g>> \o s)
<1>1. /\ <<f>> \in Seq(S) /\ <<g>> \in Seq(S) /\ <<f, g>> \in Seq(S)
      /\ Len(<<f>>) = 1 /\ Len(<<g>>) = 1 /\ Len(<<f, g>>) = 2
      /\ <<f>>[1] = f /\ <<g>>[1] = g /\ <<f, g>>[1] = f /\ <<f, g>>[2] = g
  OBVIOUS
<1>2. /\ <<f>> \o <<g>> \in Seq(S) /\ Len(<<f>> \o <<g>>) = 2
      /\ (<<f>> \o <<g>>)[1] = f /\ (<<f>> \o <<g>>)[2] = g
  BY <1>1, ConcatProperties
<1>3. <<f>> \o <<g>> = <<f, g>>
  <2> DEFINE t == <<f>> \o <<g>>
             u == <<f, g>>
  <2>1. /\ t \in Seq(S) /\ u \in Seq(S) /\ Len(t) = 2 /\ Len(u) = 2
        /\ t[1] = u[1] /\ t[2] = u[2]
    BY <1>1, <1>2
  <2> HIDE DEF t, u
  <2>2. \A i \in 1..Len(t) : t[i] = u[i]
    BY <2>1
  <2>3. t = u
    BY <2>1, <2>2, SeqEqual
  <2> QED
    BY <2>3 DEF t, u
<1>4. (<<f>> \o <<g>>) \o s = <<f>> \o (<<g>> \o s)
  BY <1>1, ConcatAssociative
<1> QED
  BY <1>3, <1>4

\* A stack whose innermost call makes another, of start_playbook
LEMMA CallStack ==
    ASSUME NEW c, NEW s \in Seq(Calls), StackOK(c, s), s # <<>>,
           NEW f \in Calls, CallOK(c, f), f.op = "start",
           NEW g \in Calls, CallOK(c, g), g.op = Head(s).op, g.pc \in Waits
    PROVE  StackOK(c, <<f, g>> \o Tail(s)) /\ <<f, g>> \o Tail(s) = <<f>> \o (<<g>> \o Tail(s))
<1>1. Tail(s) \in Seq(Calls) /\ Len(Tail(s)) \in Nat
  BY SplitCall
<1> DEFINE r == <<g>> \o Tail(s)
           t == <<f>> \o r
<1>2. StackOK(c, r) /\ r \in Seq(Calls)
  BY <1>1, BecomeStack, PushedCall DEF Waits
<1>3. Tail(r) = Tail(s) /\ Range(r) = {g} \cup Range(Tail(s))
  BY <1>1, PushedCall
<1>4. /\ Tail(t) = r /\ Range(t) = {f} \cup Range(r) /\ Len(t) = Len(r) + 1 /\ Len(r) \in Nat
      /\ t[1] = f /\ \A i \in 2..(Len(r) + 1) : t[i] = r[i - 1]
  BY <1>2, PushedCall
<1>5. <<f, g>> \o Tail(s) = t
  BY <1>1, PushedTwo
<1> HIDE DEF r, t
<1>6. ASSUME NEW i \in 1..Len(t), NEW j \in 1..Len(t), i < j, t[i].op = "resume"
      PROVE  t[j].op = "boot"
  <2>1. i # 1
    BY <1>4, <1>6
  <2>2. /\ i - 1 \in 1..Len(r) /\ t[i] = r[i - 1]
        /\ j - 1 \in 1..Len(r) /\ t[j] = r[j - 1]
    BY <2>1, <1>4, <1>6
  <2> QED
    BY <2>2, <1>2, <1>6 DEF StackOK
<1>7. \A h \in Range(r) : h.pc \in Waits
  BY <1>3 DEF StackOK
<1>8. \A h \in Range(t) : CallOK(c, h) /\ Begins(h)
  BY <1>2, <1>4 DEF StackOK, Begins
<1> QED
  BY <1>4, <1>5, <1>6, <1>7, <1>8 DEF StackOK, r, t

\* A stack whose innermost call ends
LEMMA ReturnStack ==
    ASSUME NEW c, NEW s \in Seq(Calls), StackOK(c, s), s # <<>>, Tail(s) # <<>>,
           NEW g \in Calls, CallOK(c, g), g.op = Head(Tail(s)).op, g.pc \in Waits
    PROVE  StackOK(c, <<g>> \o Tail(Tail(s)))
<1> DEFINE r == Tail(s)
<1>1. /\ r \in Seq(Calls) /\ Range(s) = {Head(s)} \cup Range(r)
      /\ Len(s) = Len(r) + 1 /\ Len(r) \in Nat
      /\ \A i \in 2..Len(s) : s[i] = r[i - 1]
  BY SplitCall
<1>2. /\ Tail(r) \in Seq(Calls) /\ Range(r) = {Head(r)} \cup Range(Tail(r))
  BY <1>1, SplitCall
<1>3. StackOK(c, r)
  <2>1. ASSUME NEW i \in 1..Len(r), NEW j \in 1..Len(r), i < j, r[i].op = "resume"
        PROVE  r[j].op = "boot"
    <3>1. i + 1 \in 1..Len(s) /\ j + 1 \in 1..Len(s) /\ s[i + 1] = r[i] /\ s[j + 1] = r[j]
      BY <1>1, <2>1
    <3> QED
      BY <3>1, <2>1 DEF StackOK
  <2>2. /\ \A h \in Range(r) : CallOK(c, h) /\ Begins(h)
        /\ \A h \in Range(Tail(r)) : h.pc \in Waits
    BY <1>1, <1>2 DEF StackOK
  <2> HIDE DEF r
  <2> QED
    BY <2>1, <2>2 DEF StackOK
<1>4. g.pc # "begin"
  BY DEF Waits
<1> QED
  BY <1>1, <1>2, <1>3, <1>4, BecomeStack

-----------------------------------------------------------------------------
(* What a step does to the stack of its task *)

\* Calls as they change
LEMMA Marked ==
    ASSUME NEW f \in Calls
    PROVE  /\ \A p \in Pcs : /\ [f EXCEPT !.pc = p] \in Calls
                             /\ [f EXCEPT !.pc = p].pc = p
                             /\ [f EXCEPT !.pc = p].op = f.op /\ [f EXCEPT !.pc = p].name = f.name
                             /\ [f EXCEPT !.pc = p].arg = f.arg
                             /\ [f EXCEPT !.pc = p].worker = f.worker
                             /\ [f EXCEPT !.pc = p].ok = f.ok
           /\ \A b \in BOOLEAN : /\ [f EXCEPT !.ok = b] \in Calls
                                 /\ [f EXCEPT !.ok = b].ok = b /\ [f EXCEPT !.ok = b].pc = f.pc
                                 /\ [f EXCEPT !.ok = b].op = f.op
                                 /\ [f EXCEPT !.ok = b].name = f.name
                                 /\ [f EXCEPT !.ok = b].arg = f.arg
                                 /\ [f EXCEPT !.ok = b].worker = f.worker
  BY DEF Calls

\* A step that ends in Become: the call that runs is another, those under it stay.
LEMMA BecomeStep ==
    ASSUME Stacks, NEW c \in Tasks, NEW f \in Calls, CallOK(c, f),
           f.pc # "begin", stack[c] # <<>> => f.op = Top(c).op, Become(c, f)
    PROVE  /\ Stacks' /\ stack'[c] # <<>> /\ Top(c)' = f /\ Under(c)' = Under(c)
           /\ Range(stack'[c]) = {f} \cup Range(Under(c))
           /\ \A d \in Tasks \ {c} : stack'[d] = stack[d]
<1>1. /\ stack \in [Tasks -> Seq(Calls)] /\ StackOK(c, stack[c]) /\ stack[c] \in Seq(Calls)
  BY DEF Stacks
<1>2. Under(c) \in Seq(Calls)
  BY <1>1, Peek DEF Under
<1>3. /\ <<f>> \o Under(c) \in Seq(Calls) /\ <<f>> \o Under(c) # <<>>
      /\ Head(<<f>> \o Under(c)) = f /\ Tail(<<f>> \o Under(c)) = Under(c)
      /\ Range(<<f>> \o Under(c)) = {f} \cup Range(Under(c))
  BY <1>2, PushedCall
<1>4. StackOK(c, <<f>> \o Under(c))
  BY <1>1, <1>2, BecomeStack DEF Under, Top
<1>5. /\ stack' \in [Tasks -> Seq(Calls)] /\ stack'[c] = <<f>> \o Under(c)
      /\ \A d \in Tasks \ {c} : stack'[d] = stack[d]
  BY <1>1, <1>3 DEF Become
<1>6. Stacks'
  BY <1>4, <1>5 DEF Stacks
<1> QED
  BY <1>3, <1>5, <1>6 DEF Top, Under

\* A step that ends in Call: two calls are on top, the rest stays.
LEMMA CallStep ==
    ASSUME Stacks, NEW c \in Tasks, stack[c] # <<>>,
           NEW f \in Calls, CallOK(c, f), f.op = "start",
           NEW g \in Calls, CallOK(c, g), g.op = Top(c).op, g.pc \in Waits,
           stack' = [stack EXCEPT ![c] = <<f, g>> \o Under(c)]
    PROVE  /\ Stacks' /\ stack'[c] # <<>> /\ Top(c)' = f
           /\ Range(stack'[c]) = {f, g} \cup Range(Under(c))
           /\ \A d \in Tasks \ {c} : stack'[d] = stack[d]
<1>1. /\ stack \in [Tasks -> Seq(Calls)] /\ StackOK(c, stack[c]) /\ stack[c] \in Seq(Calls)
      /\ Under(c) = Tail(stack[c]) /\ Under(c) \in Seq(Calls)
  BY Peek DEF Stacks, Under
<1> DEFINE r == <<g>> \o Under(c)
<1>2. r \in Seq(Calls) /\ Range(r) = {g} \cup Range(Under(c))
  BY <1>1, PushedCall
<1>3. /\ StackOK(c, <<f, g>> \o Under(c)) /\ <<f, g>> \o Under(c) = <<f>> \o r
  BY <1>1, CallStack DEF Top
<1> HIDE DEF r
<1>4. /\ <<f>> \o r \in Seq(Calls) /\ <<f>> \o r # <<>>
      /\ Head(<<f>> \o r) = f /\ Range(<<f>> \o r) = {f} \cup Range(r)
  BY <1>2, PushedCall
<1>5. /\ stack' \in [Tasks -> Seq(Calls)] /\ stack'[c] = <<f>> \o r
      /\ \A d \in Tasks \ {c} : stack'[d] = stack[d]
  BY <1>1, <1>3, <1>4
<1>6. StackOK(c, stack'[c])
  BY <1>3, <1>5
<1>7. Stacks'
  BY <1>5, <1>6 DEF Stacks
<1> QED
  BY <1>2, <1>4, <1>5, <1>7 DEF Top

\* A step that ends in Return: the call that waited gets the result and runs.
LEMMA ReturnStep ==
    ASSUME Stacks, NEW c \in Tasks, NEW b \in BOOLEAN, Return(c, b)
    PROVE  /\ Stacks'
           /\ \/ Under(c) = <<>> /\ stack'[c] = <<>>
              \/ \E f \in Range(Under(c)) :
                   /\ stack[c] # <<>>
                   /\ f \in Calls /\ CallOK(c, f) /\ f.pc \in Waits
                   /\ Top(c)' = [f EXCEPT !.ok = b] /\ stack'[c] # <<>>
                   /\ Range(stack'[c]) \subseteq {[f EXCEPT !.ok = b]} \cup Range(Under(c))
                   /\ Range(stack[c]) \subseteq {Top(c), f} \cup Range(stack'[c])
           /\ \A d \in Tasks \ {c} : stack'[d] = stack[d]
<1>1. /\ stack \in [Tasks -> Seq(Calls)] /\ StackOK(c, stack[c]) /\ stack[c] \in Seq(Calls)
  BY DEF Stacks
<1>2. CASE Under(c) = <<>>
  <2>1. /\ stack' \in [Tasks -> Seq(Calls)] /\ stack'[c] = <<>>
        /\ \A d \in Tasks \ {c} : stack'[d] = stack[d]
    BY <1>1, <1>2 DEF Return
  <2>2. StackOK(c, <<>>)
    BY DEF StackOK, Range
  <2>3. Stacks'
    BY <2>1, <2>2 DEF Stacks
  <2> QED
    BY <2>1, <2>3, <1>2
<1>3. CASE Under(c) # <<>>
  <2>1. stack[c] # <<>> /\ Under(c) = Tail(stack[c]) /\ Under(c) \in Seq(Calls)
    BY <1>3, Peek DEF Under
  <2>2. PICK f : f = Head(Under(c))
    OBVIOUS
  <2>3. /\ f \in Calls /\ Tail(Under(c)) \in Seq(Calls)
        /\ Range(Under(c)) = {f} \cup Range(Tail(Under(c)))
    BY <1>3, <2>1, <2>2, SplitCall
  <2>4. CallOK(c, f) /\ f.pc \in Waits /\ f \in Range(Under(c))
    BY <2>1, <2>3, Peek
  <2>5. PICK g : g = [f EXCEPT !.ok = b]
    OBVIOUS
  <2>6. g \in Calls /\ g.op = f.op /\ g.pc \in Waits /\ CallOK(c, g)
    BY <2>3, <2>4, <2>5, Marked DEF CallOK
  <2>7. /\ <<g>> \o Tail(Under(c)) \in Seq(Calls) /\ <<g>> \o Tail(Under(c)) # <<>>
        /\ Head(<<g>> \o Tail(Under(c))) = g
        /\ Range(<<g>> \o Tail(Under(c))) = {g} \cup Range(Tail(Under(c)))
    BY <2>3, <2>6, PushedCall
  <2>8. StackOK(c, <<g>> \o Tail(Under(c)))
    BY <1>1, <1>3, <2>1, <2>2, <2>6, ReturnStack
  <2>9. /\ stack' \in [Tasks -> Seq(Calls)] /\ stack'[c] = <<g>> \o Tail(Under(c))
        /\ \A d \in Tasks \ {c} : stack'[d] = stack[d]
    BY <1>1, <1>3, <2>2, <2>5, <2>7 DEF Return
  <2>10. Stacks'
    BY <2>8, <2>9 DEF Stacks
  <2>11. Range(stack[c]) = {Top(c)} \cup Range(Under(c))
    BY <2>1, Peek
  <2> QED
    BY <2>1, <2>3, <2>4, <2>5, <2>7, <2>9, <2>10, <2>11 DEF Top
<1> QED
  BY <1>2, <1>3

-----------------------------------------------------------------------------
(* The type of the other variables *)

Mem ==
    /\ workers \in [Names -> Worker \cup {None}] /\ lock \in Tasks \cup {None}
    /\ sock \in [Names -> WorkerIds \cup {None}]
    /\ db \in [Names -> Row \cup {None}] /\ cbs \in [Uuids -> Names \cup {None}]
    /\ dir \subseteq Names
    /\ boot \in [todo : SUBSET Names, failed : SUBSET Names, won : BOOLEAN]
    /\ wanted \in [Names -> {"any", "run", "stop", "gone"}]
    /\ raced \subseteq Names /\ updated \subseteq Names

\* There are finitely many tasks, one at least, and None is not one.
LEMMA TasksFinite == IsFiniteSet(Tasks) /\ Cardinality(Tasks) \in Nat \ {0} /\ None \notin Tasks
<1>1. IsFiniteSet({Daemon}) /\ IsFiniteSet(Clients) /\ None \notin Tasks
  BY FS_Singleton, NamesAssumption DEF Tasks
<1>2. IsFiniteSet(Tasks)
  BY <1>1, FS_Union DEF Tasks
<1>3. Tasks # {}
  BY DEF Tasks
<1> QED
  BY <1>1, <1>2, <1>3, FS_CardinalityType, FS_EmptySet

\* A new worker has an id of its own: a worker is in the map or made by the call that runs,
\* so that there are more ids than workers.
LEMMA FreshId == ASSUME Stacks PROVE NewId \in WorkerIds /\ \A w \in AllWorkers : w.id # NewId
<1>1. IsFiniteSet(Names) /\ IsFiniteSet(Tasks)
  BY TasksFinite, NamesAssumption
<1>2. PICK N, T : N = Cardinality(Names) /\ T = Cardinality(Tasks)
  OBVIOUS
<1>3. N \in Nat /\ T \in Nat /\ T > 0
  BY <1>1, <1>2, TasksFinite, FS_CardinalityType
<1>4. PICK f : f = [n \in Names |-> workers[n].id]
  OBVIOUS
<1>5. PICK g : g = [c \in Tasks |-> Top(c).worker.id]
  OBVIOUS
<1> DEFINE F == {f[n] : n \in Names}
           G == {g[c] : c \in Tasks}
<1>6. IsFiniteSet(F) /\ Cardinality(F) <= N /\ Cardinality(F) \in Nat
  <2>1. f \in Surjection(Names, F)
    BY <1>4 DEF Surjection
  <2>2. IsFiniteSet(F) /\ Cardinality(F) <= N
    BY <2>1, <1>1, <1>2, FS_Surjection
  <2> QED
    BY <2>2, FS_CardinalityType
<1>7. IsFiniteSet(G) /\ Cardinality(G) <= T /\ Cardinality(G) \in Nat
  <2>1. g \in Surjection(Tasks, G)
    BY <1>5 DEF Surjection
  <2>2. IsFiniteSet(G) /\ Cardinality(G) <= T
    BY <2>1, <1>1, <1>2, FS_Surjection
  <2> QED
    BY <2>2, FS_CardinalityType
<1>8. \A w \in AllWorkers : w.id \in F \cup G
  <2>1. ASSUME NEW c \in Tasks, NEW h \in Range(stack[c]), h.worker # None
        PROVE  h = Top(c)
    <3>1. stack[c] # <<>>
      BY <2>1 DEF Range
    <3>2. h \in {Top(c)} \cup Range(Under(c))
      BY <2>1, <3>1, Peek
    <3>3. CASE h \in Range(Under(c))
      <4>1. CallOK(c, h) /\ h.pc \in Waits
        BY <3>1, <3>3, Peek
      <4>2. h.pc \notin Built
        BY <4>1 DEF Waits, Built
      <4> QED
        BY <4>1, <4>2, <2>1 DEF CallOK
    <3> QED
      BY <3>2, <3>3
  <2>2. ASSUME NEW w \in AllWorkers
        PROVE  \/ \E n \in Names : w = workers[n]
               \/ \E c \in Tasks : w = Top(c).worker
    BY <2>1, <2>2 DEF AllWorkers
  <2>3. \A n \in Names : workers[n].id \in F
    BY <1>4
  <2>4. \A c \in Tasks : Top(c).worker.id \in G
    BY <1>5
  <2> HIDE DEF F, G
  <2> QED
    BY <2>2, <2>3, <2>4
<1> HIDE DEF F, G
<1>9. WorkerIds = 1..(N + 3 * T) /\ IsFiniteSet(WorkerIds) /\ Cardinality(WorkerIds) = N + 3 * T
  <2>1. WorkerIds = 1..(N + 3 * T)
    BY <1>2 DEF WorkerIds
  <2>2. N + 3 * T \in Int /\ N + 3 * T >= 1
    BY <1>3
  <2> QED
    BY <2>1, <2>2, FS_Interval
<1>10. \E i \in WorkerIds : i \notin F \cup G
  <2>1. IsFiniteSet(F \cup G) /\ Cardinality(F \cup G) <= N + T
    <3>1. /\ IsFiniteSet(F \cup G) /\ Cardinality(F \cap G) \in Nat
          /\ Cardinality(F \cup G) = Cardinality(F) + Cardinality(G) - Cardinality(F \cap G)
      BY <1>6, <1>7, FS_Union, FS_Intersection, FS_CardinalityType
    <3> QED
      BY <3>1, <1>3, <1>6, <1>7
  <2>2. SUFFICES ASSUME WorkerIds \subseteq F \cup G PROVE FALSE
    OBVIOUS
  <2>3. Cardinality(WorkerIds) <= Cardinality(F \cup G)
    BY <2>1, <2>2, FS_Subset
  <2>4. Cardinality(F \cup G) \in Nat
    BY <2>1, FS_CardinalityType
  <2> QED
    BY <2>1, <2>3, <2>4, <1>3, <1>9
<1>11. \E i \in WorkerIds : \A w \in AllWorkers : w.id # i
  BY <1>8, <1>10
<1> QED
  BY <1>11 DEF NewId

-----------------------------------------------------------------------------
(* The shapes of a step *)

\* Task c has a call of playbook n under way.
OnIt(c, n) == \E f \in Begun(c) : f.name = n /\ f.pc # "stop"

Same(c) == \A d \in Tasks \ {c} : stack'[d] = stack[d]

\* The call of c that runs is f now.
Turns(c, f) ==
    /\ Stacks' /\ Same(c) /\ stack'[c] # <<>> /\ Top(c)' = f
    /\ Range(stack'[c]) = {f} \cup Range(Under(c))

\* It made a call, f, and is g meanwhile.
Called(c, f, g) ==
    /\ Stacks' /\ Same(c) /\ stack'[c] # <<>> /\ Top(c)' = f
    /\ Range(stack'[c]) = {f, g} \cup Range(Under(c))

\* It returned to one that waited, or to none.
Returned(c, b) ==
    /\ Stacks' /\ Same(c)
    /\ \/ Under(c) = <<>> /\ stack'[c] = <<>>
       \/ \E f \in Range(Under(c)) :
            /\ stack[c] # <<>>
            /\ f \in Calls /\ CallOK(c, f) /\ f.pc \in Waits
            /\ Top(c)' = [f EXCEPT !.ok = b] /\ stack'[c] # <<>>
            /\ Range(stack'[c]) \subseteq {[f EXCEPT !.ok = b]} \cup Range(Under(c))
            /\ Range(stack[c]) \subseteq {Top(c), f} \cup Range(stack'[c])

\* Whatever c works on is what it worked on, or n.
Onto(c, n) ==
    /\ Same(c)
    /\ \A m \in Names \ {n} : OnIt(c, m)' => OnIt(c, m)
    /\ \A g \in Range(stack'[c]) : g.op = "boot" => \E f \in Range(stack[c]) : f.op = "boot"

Onward(c) == Onto(c, None)

\* No playbook is named None.
LEMMA NoneNoName == None \notin Names
  BY NamesAssumption

\* After Return the task works on nothing it did not work on before.
LEMMA ReturnShape ==
    ASSUME Stacks, NEW c \in Tasks, NEW b \in BOOLEAN, Return(c, b)
    PROVE  Returned(c, b) /\ Onward(c)
<1>1. Returned(c, b)
  BY ReturnStep DEF Returned, Same
<1>2. CASE stack'[c] = <<>>
  BY <1>1, <1>2 DEF Returned, Onward, Onto, OnIt, Begun, Range
<1>3. ASSUME NEW f \in Range(Under(c)), stack[c] # <<>>, f \in Calls, f.pc \in Waits,
             Range(stack'[c]) \subseteq {[f EXCEPT !.ok = b]} \cup Range(Under(c))
      PROVE  Onward(c)
  <2>1. f \in Range(stack[c]) /\ Range(Under(c)) \subseteq Range(stack[c])
    BY <1>3, Peek
  <2>2. PICK g : g = [f EXCEPT !.ok = b]
    OBVIOUS
  <2>3. g.name = f.name /\ g.pc = f.pc /\ g.op = f.op /\ f.pc # "begin" /\ f.pc # "stop"
    BY <2>2, <1>3, Marked DEF Waits
  <2>4. \A h \in Range(stack'[c]) :
          \E k \in Range(stack[c]) : h.name = k.name /\ h.pc = k.pc /\ h.op = k.op
    BY <1>3, <2>1, <2>2, <2>3
  <2> QED
    BY <1>1, <2>4 DEF Returned, Onward, Onto, OnIt, Begun
<1> QED
  BY <1>1, <1>2, <1>3 DEF Returned

\* After Become it works on the playbook of the new call, or on what it worked on.
LEMMA EnterShape ==
    ASSUME Stacks, NEW c \in Tasks, NEW f \in Calls, CallOK(c, f), f.pc # "begin",
           IF stack[c] = <<>> THEN f.op # "boot" ELSE f.op = Top(c).op, Become(c, f)
    PROVE  Turns(c, f) /\ Onto(c, f.name)
<1>1. Turns(c, f)
  BY BecomeStep DEF Turns, Same
<1>2. Range(Under(c)) \subseteq Range(stack[c])
  BY Peek, IdleUnder
<1>3. \A h \in Range(stack'[c]) : h = f \/ h \in Range(stack[c])
  BY <1>1, <1>2 DEF Turns
<1>4. f.op = "boot" => Top(c) \in Range(stack[c]) /\ Top(c).op = "boot"
  BY Peek
<1> QED
  BY <1>1, <1>3, <1>4 DEF Turns, Onto, OnIt, Begun

\* A call that has begun takes nothing up with it.
LEMMA TurnShape ==
    ASSUME Stacks, NEW c \in Tasks, NEW f \in Calls, CallOK(c, f), stack[c] # <<>>,
           f.op = Top(c).op, f.name \in {Top(c).name, None}, Top(c).pc \notin {"begin", "stop"},
           f.pc # "begin", Become(c, f)
    PROVE  Turns(c, f) /\ Onward(c)
<1>1. Turns(c, f) /\ Onto(c, f.name)
  BY EnterShape
<1>2. ASSUME NEW n \in Names, OnIt(c, n)' PROVE OnIt(c, n)
  <2>1. CASE n = f.name
    <3>1. Top(c) \in Range(stack[c]) /\ Top(c).name = n
      BY <2>1, Peek, NoneNoName
    <3> QED
      BY <3>1 DEF OnIt, Begun
  <2>2. CASE n # f.name
    BY <1>1, <1>2, <2>2 DEF Onto
  <2> QED
    BY <2>1, <2>2
<1> QED
  BY <1>1, <1>2 DEF Onward, Onto

\* A call that was made has not begun: it takes nothing up yet.
LEMMA CallShape ==
    ASSUME Stacks, NEW c \in Tasks, stack[c] # <<>>,
           NEW f \in Calls, CallOK(c, f), f.op = "start", f.pc = "begin",
           NEW p \in Waits, CallOK(c, [Top(c) EXCEPT !.pc = p]), Call(c, f, p)
    PROVE  /\ Called(c, f, [Top(c) EXCEPT !.pc = p]) /\ Onto(c, Top(c).name)
           /\ Top(c).pc \notin {"begin", "stop"} => Onward(c)
<1>1. PICK g : g = [Top(c) EXCEPT !.pc = p]
  OBVIOUS
<1>2. /\ g \in Calls /\ CallOK(c, g) /\ g.op = Top(c).op /\ g.pc = p /\ g.name = Top(c).name
      /\ Top(c) \in Range(stack[c]) /\ Range(Under(c)) \subseteq Range(stack[c])
  <2>1. /\ Top(c) \in Calls /\ Top(c) \in Range(stack[c])
        /\ Range(Under(c)) \subseteq Range(stack[c])
    BY Peek
  <2>2. p \in Pcs
    BY DEF Waits, Pcs
  <2>3. g \in Calls /\ g.op = Top(c).op /\ g.pc = p /\ g.name = Top(c).name
    BY <1>1, <2>1, <2>2, Marked
  <2> QED
    BY <1>1, <2>1, <2>3
<1>3. Called(c, f, g)
  BY <1>1, <1>2, CallStep DEF Call, Called, Same
<1>4. \A h \in Range(stack'[c]) : h \in {f, g} \/ h \in Range(stack[c])
  BY <1>2, <1>3 DEF Called
<1>5. Onto(c, Top(c).name)
  BY <1>2, <1>3, <1>4 DEF Called, Onto, OnIt, Begun
<1>6. ASSUME Top(c).pc \notin {"begin", "stop"} PROVE Onward(c)
  <2>1. OnIt(c, Top(c).name)
    BY <1>2, <1>6 DEF OnIt, Begun
  <2> QED
    BY <1>5, <2>1 DEF Onward, Onto
<1> QED
  BY <1>1, <1>3, <1>5, <1>6

-----------------------------------------------------------------------------
(* Who works on a playbook, and who holds the lock *)

\* No request is served before the playbooks are resumed.
Booting == Serving \/ \A c \in Clients : stack[c] = <<>>

\* A playbook that is not among the raced has one task that works on it at most.
Alone == \A n \in Names \ raced : \A c, d \in Tasks : OnIt(c, n) /\ OnIt(d, n) => c = d

AtRmdir(c) == stack[c] # <<>> /\ Top(c).pc = "rmdir"

\* The lock is held over a wait by delete_playbook only, which has taken the worker out.
Locked ==
    \A c \in Tasks : /\ lock = c <=> AtRmdir(c)
                     /\ lock = c => workers[Subject(c)] = None

\* add_callback of u has saved it and has still to tell the worker; delete_callback the same.
Adds(c, u) == At(c, {"add_callback"}, "worker") /\ Top(c).arg = u
Deletes(c, u) == At(c, {"delete_callback"}, "worker") /\ Top(c).arg = u

\* A callback is added once, so that a worker has it twice at most.
Counts ==
    \A c \in Tasks : \A u \in Uuids : Adds(c, u) =>
        /\ \A d \in Tasks : Adds(d, u) => c = d
        /\ \A n \in Names : workers[n] # None => workers[n].cbs[u] <= 1

Base == Stacks /\ Mem /\ Booting /\ Alone /\ Locked /\ Counts

\* What an update goes by are rows.
Listed == listed \in [Names -> Row \cup {None}]

\* No worker has a callback that is being added more often than it had, or once.
NoMoreCallbacks ==
    \A n \in Names : workers'[n] # None =>
        \A u \in Uuids : \/ workers'[n].cbs[u] \in {0, 1}
                         \/ workers[n] # None /\ workers'[n].cbs[u] = workers[n].cbs[u]
                         \/ \A d \in Tasks : ~Adds(d, u)'

\* A task that takes a playbook up while another works on it makes it one of the raced.
LEMMA AloneKept ==
    ASSUME Alone, NEW c \in Tasks, NEW n, Onto(c, n), raced \subseteq raced',
           n \in Names => raced' = Raced(c, n)
    PROVE  Alone'
<1> SUFFICES ASSUME NEW m \in Names, m \notin raced', NEW d \in Tasks, NEW e \in Tasks,
                    OnIt(d, m)', OnIt(e, m)'
             PROVE  d = e
  BY DEF Alone
<1>1. m \notin raced
  OBVIOUS
<1>2. \A h \in Tasks \ {c} : OnIt(h, m)' <=> OnIt(h, m)
  BY DEF Onto, Same, OnIt, Begun
<1>3. CASE m # n
  <2>1. OnIt(d, m) /\ OnIt(e, m)
    BY <1>2, <1>3 DEF Onto
  <2> QED
    BY <1>1, <2>1 DEF Alone
<1>4. CASE m = n
  <2>1. ~Contended(c, m)
    BY <1>4 DEF Raced
  <2>2. \A h \in Tasks \ {c} : ~OnIt(h, m)
    BY <2>1 DEF Contended, OnIt
  <2> QED
    BY <1>2, <2>2
<1> QED
  BY <1>3, <1>4

\* No request comes before the daemon serves.
LEMMA BootingKept ==
    ASSUME Base, NEW c \in Tasks, NEW n, Onto(c, n), stack[c] = <<>> => c = Daemon \/ Serving
    PROVE  Booting'
<1>1. CASE c = Daemon
  <2>1. Serving => Serving'
    BY <1>1 DEF Onto, Serving
  <2>2. \A d \in Clients : stack'[d] = stack[d]
    BY <1>1, NamesAssumption DEF Onto, Same, Tasks
  <2> QED
    BY <2>1, <2>2 DEF Base, Booting
<1>2. CASE c # Daemon
  <2>1. Serving
    BY <1>2 DEF Base, Booting, Tasks
  <2>2. stack'[Daemon] = stack[Daemon]
    BY <1>2 DEF Onto, Same, Tasks
  <2> QED
    BY <2>1, <2>2 DEF Booting, Serving
<1> QED
  BY <1>1, <1>2

\* A step that does not come to add a callback leaves those being added as they are.
LEMMA CountsKept ==
    ASSUME Base, NEW c \in Tasks, Same(c), workers' = workers \/ NoMoreCallbacks,
           stack'[c] # <<>> => (Top(c)'.pc = "worker" => Top(c)'.op # "add_callback")
    PROVE  Counts'
<1> SUFFICES ASSUME NEW d \in Tasks, NEW u \in Uuids, Adds(d, u)'
             PROVE  /\ \A e \in Tasks : Adds(e, u)' => d = e
                    /\ \A m \in Names : workers'[m] # None => workers'[m].cbs[u] <= 1
  BY DEF Counts
<1>1. ~Adds(c, u)'
  BY DEF Adds, At
<1>2. \A e \in Tasks \ {c} : Adds(e, u)' <=> Adds(e, u)
  BY DEF Same, Adds, At, Top
<1>3. \A m \in Names : workers[m] # None => workers[m].cbs[u] <= 1
  BY <1>1, <1>2 DEF Base, Counts
<1>4. \A m \in Names : workers'[m] # None => workers'[m].cbs[u] <= 1
  BY <1>3 DEF NoMoreCallbacks
<1> QED
  BY <1>1, <1>2, <1>4 DEF Base, Counts

\* Base after a step that neither takes nor gives back the lock, and adds no callback
LEMMA BaseKept ==
    ASSUME Base, NEW c \in Tasks, NEW n, Onto(c, n), Stacks', Mem', lock' = lock,
           IF n \in Names THEN raced' = Raced(c, n) ELSE raced' = raced,
           workers' = workers \/ (lock = None /\ NoMoreCallbacks),
           stack[c] # <<>> => Top(c).pc # "rmdir",
           stack[c] = <<>> => c = Daemon \/ Serving,
           stack'[c] # <<>> => /\ Top(c)'.pc # "rmdir"
                               /\ Top(c)'.pc = "worker" => Top(c)'.op # "add_callback"
    PROVE  Base'
<1>1. Booting'
  BY BootingKept
<1>2. Alone'
  <2>1. raced \subseteq raced'
    BY DEF Raced
  <2> QED
    BY <2>1, AloneKept DEF Base
<1>3. Locked'
  <2> SUFFICES ASSUME NEW d \in Tasks
               PROVE  /\ lock' = d <=> AtRmdir(d)'
                      /\ lock' = d => workers'[Subject(d)'] = None
    BY DEF Locked
  <2>1. CASE d = c
    <3>1. ~AtRmdir(c) /\ ~AtRmdir(c)'
      BY DEF AtRmdir
    <3>2. lock # c
      BY <3>1 DEF Base, Locked
    <3> QED
      BY <2>1, <3>1, <3>2
  <2>2. CASE d # c
    <3>1. stack'[d] = stack[d]
      BY <2>2 DEF Onto, Same
    <3>2. (AtRmdir(d)' <=> AtRmdir(d)) /\ Subject(d)' = Subject(d)
      BY <3>1 DEF AtRmdir, Subject, Top
    <3>3. lock = d => workers' = workers
      BY TasksFinite
    <3> QED
      BY <3>2, <3>3 DEF Base, Locked
  <2> QED
    BY <2>1, <2>2
<1>4. Counts'
  BY CountsKept DEF Onto
<1> QED
  BY <1>1, <1>2, <1>3, <1>4 DEF Base

\* A call that begins is one that was made, or a request to an idle client.
LEMMA Enter ==
    ASSUME Stacks, Mem, NEW c \in Tasks, NEW op, NEW f \in Entering(c, op)
    PROVE  /\ f \in Calls /\ CallOK(c, f) /\ f.op \in op /\ f.pc = "begin"
           /\ \/ stack[c] # <<>> /\ f = Top(c) /\ f.op \in {"start", "resume"}
              \/ stack[c] = <<>> /\ c \in Clients /\ Serving /\ f \in Requests
<1>1. f.op \in op /\ f.pc = "begin"
  BY DEF Entering
<1>2. CASE stack[c] # <<>>
  <2>1. f = Top(c)
    BY <1>2 DEF Entering
  <2> QED
    BY <2>1, <1>1, <1>2, Peek DEF Begins
<1>3. CASE stack[c] = <<>>
  <2>1. c \in Clients /\ Serving /\ f \in Requests
    BY <1>3 DEF Entering
  <2>2. c # Daemon
    BY <2>1, NamesAssumption
  <2>3. \/ \E o \in {"stop", "resume", "delete"}, n \in Names : f = Frame(o, n, None)
        \/ \E n \in Names, a \in Addrs \cup {None}, p \in BOOLEAN : f = StartFrame(n, a, p, 0)
        \/ \E n \in Names, u \in Uuids : f = Frame("add_callback", n, u)
        \/ \E u \in Uuids : cbs[u] \in Names /\ f = Frame("delete_callback", cbs[u], u)
        \/ \E n \in Names, a \in Addrs \cup {None} : f = Frame("set_http", n, a)
    <3>1. CASE f \in StartRequests
      BY <3>1, BoundsAssumption DEF StartRequests
    <3>2. CASE f \in CallbackRequests
      <4>1. \A u \in Uuids : cbs[u] \in Names \cup {None}
        BY DEF Mem
      <4>2. FreshUuids \subseteq Uuids
        BY DEF FreshUuids
      <4> QED
        BY <3>2, <4>1, <4>2 DEF CallbackRequests
    <3>3. CASE f \in AddressRequests
      BY <3>3 DEF AddressRequests
    <3> QED
      BY <2>1, <3>1, <3>2, <3>3 DEF Requests
  <2>4. f \in Calls /\ CallOK(c, f)
    <3>1. CASE \E o \in {"stop", "resume", "delete"}, n \in Names : f = Frame(o, n, None)
      BY <2>2, <3>1 DEF Frame, Calls, Ops, Pcs, Versions, CallOK, Places, Built, Past
    <3>2. CASE \E n \in Names, a \in Addrs \cup {None}, p \in BOOLEAN : f = StartFrame(n, a, p, 0)
      BY <2>2, <3>2
         DEF StartFrame, Frame, Calls, Ops, Pcs, Versions, CallOK, Places, Built, Past
    <3>3. CASE \E n \in Names, u \in Uuids : f = Frame("add_callback", n, u)
      BY <2>2, <3>3 DEF Frame, Calls, Ops, Pcs, Versions, CallOK, Places, Built, Past
    <3>4. CASE \E u \in Uuids : cbs[u] \in Names /\ f = Frame("delete_callback", cbs[u], u)
      BY <2>2, <3>4 DEF Frame, Calls, Ops, Pcs, Versions, CallOK, Places, Built, Past
    <3>5. CASE \E n \in Names, a \in Addrs \cup {None} : f = Frame("set_http", n, a)
      BY <2>2, <3>5 DEF Frame, Calls, Ops, Pcs, Versions, CallOK, Places, Built, Past
    <3> QED
      BY <2>3, <3>1, <3>2, <3>3, <3>4, <3>5
  <2> QED
    BY <1>1, <1>3, <2>1, <2>4
<1> QED
  BY <1>2, <1>3

-----------------------------------------------------------------------------
(* Every step keeps Base, and has one of the shapes *)

\* A step that takes no playbook up, and leaves the map of workers alone
LEMMA TurnBase ==
    ASSUME Base, NEW c \in Tasks, stack[c] # <<>>, NEW f \in Calls, CallOK(c, f),
           f.op = Top(c).op, f.name \in {Top(c).name, None},
           Top(c).pc \notin {"begin", "stop", "rmdir"}, f.pc # "rmdir", f.pc # "begin",
           f.op \in {"start", "resume", "boot", "update"},
           Become(c, f), Mem', lock' = lock, raced' = raced, workers' = workers
    PROVE  Base' /\ Turns(c, f) /\ Onward(c)
<1>1. Turns(c, f) /\ Onward(c) /\ Stacks'
  BY TurnShape DEF Base, Turns
<1>2. Top(c)'.pc # "rmdir" /\ Top(c)'.op # "add_callback" /\ Top(c).pc # "rmdir"
  BY <1>1 DEF Turns
<1>3. Onto(c, None) /\ None \notin Names
  BY <1>1, NoneNoName DEF Onward
<1>4. Base'
  BY <1>1, <1>2, <1>3, BaseKept
<1> QED
  BY <1>1, <1>4

\* A step that ends a call
LEMMA ReturnBase ==
    ASSUME Base, NEW c \in Tasks, NEW b \in BOOLEAN, Return(c, b), Mem', lock' = lock,
           stack[c] # <<>> => Top(c).pc # "rmdir",
           stack[c] = <<>> => c = Daemon \/ Serving,
           \/ raced' = raced
           \/ \E n \in Names : raced' = Raced(c, n),
           workers' = workers \/ (lock = None /\ NoMoreCallbacks)
    PROVE  Base' /\ Returned(c, b) /\ Onward(c)
<1>1. Returned(c, b) /\ Onward(c) /\ Stacks'
  BY ReturnShape DEF Base, Returned
<1>2. ASSUME stack'[c] # <<>> PROVE Top(c)'.pc \in Waits
  <2>1. PICK f \in Calls : f.pc \in Waits /\ Top(c)' = [f EXCEPT !.ok = b]
    BY <1>1, <1>2 DEF Returned
  <2>2. [f EXCEPT !.ok = b].pc = f.pc
    BY Marked
  <2> QED
    BY <2>1, <2>2
<1>3. stack'[c] # <<>> => Top(c)'.pc # "rmdir" /\ Top(c)'.pc # "worker"
  BY <1>2 DEF Waits
<1>4. CASE raced' = raced
  BY <1>1, <1>3, <1>4, BaseKept, NoneNoName DEF Onward
<1>5. ASSUME NEW n \in Names, raced' = Raced(c, n) PROVE Base'
  <2>1. Onto(c, n)
    BY <1>1, NoneNoName DEF Onward, Onto
  <2> QED
    BY <1>1, <1>3, <1>5, <2>1, BaseKept
<1> QED
  BY <1>1, <1>4, <1>5

\* The parts of a call that change in a step of its own
LEMMA Goes ==
    ASSUME Base, NEW c \in Tasks, stack[c] # <<>>, NEW p \in Pcs, <<Top(c).op, p>> \in Places,
           p \in {"interconnect", "launched"} => Needs[Top(c).name] # None,
           p \in Built <=> Top(c).pc \in Built, p # "resumed"
    PROVE  [Top(c) EXCEPT !.pc = p] \in Calls /\ CallOK(c, [Top(c) EXCEPT !.pc = p])
<1>1. Top(c) \in Calls /\ CallOK(c, Top(c))
  BY Peek DEF Base
<1>2. PICK f : f = [Top(c) EXCEPT !.pc = p]
  OBVIOUS
<1>3. /\ f \in Calls /\ f.pc = p /\ f.op = Top(c).op /\ f.name = Top(c).name
      /\ f.arg = Top(c).arg /\ f.worker = Top(c).worker
  BY <1>1, <1>2, Marked
<1>4. CallOK(c, f)
  BY <1>1, <1>3 DEF CallOK
<1> QED
  BY <1>2, <1>3, <1>4

\* The same when only the place changes
LEMMA GotoBase ==
    ASSUME Base, NEW c \in Tasks, stack[c] # <<>>, NEW p \in Pcs, <<Top(c).op, p>> \in Places,
           p \in {"interconnect", "launched"} => Needs[Top(c).name] # None,
           p \in Built <=> Top(c).pc \in Built, p # "resumed", p # "rmdir",
           p # "begin",
           Top(c).pc \notin {"begin", "stop", "rmdir"},
           Top(c).op \in {"start", "resume", "boot", "update"},
           Goto(c, p), Mem', lock' = lock, raced' = raced, workers' = workers
    PROVE  Base' /\ Onward(c) /\ Turns(c, [Top(c) EXCEPT !.pc = p])
<1>1. Top(c) \in Calls
  BY Peek DEF Base
<1>2. PICK f : f = [Top(c) EXCEPT !.pc = p]
  OBVIOUS
<1>3. f.op = Top(c).op /\ f.name = Top(c).name /\ f.pc = p
  BY <1>1, <1>2, Marked
<1>4. f \in Calls /\ CallOK(c, f)
  BY <1>2, Goes
<1>5. Become(c, f)
  BY <1>2 DEF Goto
<1>6. Base' /\ Turns(c, f) /\ Onward(c)
  BY <1>3, <1>4, <1>5, TurnBase
<1> QED
  BY <1>2, <1>6

\* What a task at a place of a call is about
LEMMA AtCall ==
    ASSUME Base, NEW c \in Tasks, NEW op, NEW p, At(c, op, p)
    PROVE  /\ stack[c] # <<>> /\ Top(c) \in Calls /\ CallOK(c, Top(c))
           /\ Top(c).op \in op /\ Top(c).pc = p
           /\ Range(stack[c]) = {Top(c)} \cup Range(Under(c))
           /\ Top(c).op # "boot" => Subject(c) \in Names
  BY Peek DEF Base, At, CallOK, Subject

\* The types hold when the variables stay as they are.
LEMMA Unchanged == ASSUME Mem, UNCHANGED <<memVars, diskVars, boot, ghosts>> PROVE Mem'
  BY DEF Mem, memVars, diskVars, ghosts

\* start_playbook looks for the row: delete it, or go on to the directories.
LEMMA StartGetRowBase ==
    ASSUME Base, NEW c \in Tasks, StartGetRow(c)
    PROVE  /\ Base' /\ Onward(c)
           /\ \E p \in {"delete", "dirs"} : Turns(c, [Top(c) EXCEPT !.pc = p])
<1>1. PICK p \in {"delete", "dirs"} : Goto(c, p)
  BY DEF StartGetRow
<1>2. stack[c] # <<>> /\ Top(c).op = "start" /\ Top(c).pc = "row"
  BY AtCall DEF StartGetRow
<1>3. /\ p \in Pcs /\ <<Top(c).op, p>> \in Places /\ p \notin {"interconnect", "launched"}
      /\ p \notin Built /\ Top(c).pc \notin Built /\ p # "resumed" /\ p # "rmdir"
  BY <1>2 DEF Pcs, Places, Built
<1>4. Mem' /\ lock' = lock /\ raced' = raced /\ workers' = workers
  BY Unchanged DEF StartGetRow, Base, memVars, ghosts
<1> QED
  BY <1>1, <1>2, <1>3, <1>4, GotoBase

\* It makes the directories and loads the module.
LEMMA MakeDirsBase ==
    ASSUME Base, NEW c \in Tasks, MakeDirs(c)
    PROVE  /\ Base' /\ Onward(c)
           /\ \E p \in {"interconnect", "worker"} : Turns(c, [Top(c) EXCEPT !.pc = p])
<1>1. PICK p : p = AfterLoad(Subject(c))
  OBVIOUS
<1>2. /\ stack[c] # <<>> /\ Top(c).op = "start" /\ Top(c).pc = "dirs" /\ Subject(c) \in Names
  BY AtCall DEF MakeDirs
<1>3. p \in {"interconnect", "worker"} /\ (p = "interconnect" => Needs[Top(c).name] # None)
  BY <1>1 DEF AfterLoad, Subject
<1>4. /\ p \in Pcs /\ <<Top(c).op, p>> \in Places /\ p # "launched"
      /\ p \notin Built /\ Top(c).pc \notin Built /\ p # "resumed" /\ p # "rmdir"
  BY <1>2, <1>3 DEF Pcs, Places, Past, Built
<1>5. Mem' /\ lock' = lock /\ raced' = raced /\ workers' = workers
  BY <1>2 DEF MakeDirs, Base, Mem, memVars
<1>6. Goto(c, p)
  BY <1>1 DEF MakeDirs
<1> QED
  BY <1>2, <1>3, <1>4, <1>5, <1>6, GotoBase

\* It saves the row.
LEMMA SavePlaybookBase ==
    ASSUME Base, NEW c \in Tasks, SavePlaybook(c)
    PROVE  Base' /\ Onward(c) /\ Turns(c, [Top(c) EXCEPT !.pc = "insert"])
<1>1. /\ stack[c] # <<>> /\ Top(c).op = "start" /\ Top(c).pc = "record" /\ Subject(c) \in Names
      /\ Top(c) \in Calls /\ CallOK(c, Top(c))
  BY AtCall DEF SavePlaybook
<1>2. [status |-> "running", http |-> Top(c).arg, path |-> Top(c).path, ver |-> Top(c).ver] \in Row
  BY <1>1 DEF Calls, CallOK, Row
<1>3. Mem' /\ lock' = lock /\ raced' = raced /\ workers' = workers
  BY <1>1, <1>2 DEF SavePlaybook, SaveRow, Base, Mem, memVars
<1>4. <<Top(c).op, "insert">> \in Places /\ "insert" \in Pcs /\ "insert" \in Built /\ Top(c).pc \in Built
  BY <1>1 DEF Places, Past, Built, Pcs
<1>5. Goto(c, "insert")
  BY DEF SavePlaybook
<1> QED
  BY <1>1, <1>3, <1>4, <1>5, GotoBase

\* resume_playbook updates the row.
LEMMA ResumeStatusBase ==
    ASSUME Base, NEW c \in Tasks, ResumeStatus(c)
    PROVE  Base' /\ Onward(c) /\ Turns(c, [Top(c) EXCEPT !.pc = "insert"])
<1>1. /\ stack[c] # <<>> /\ Top(c).op = "resume" /\ Top(c).pc = "record" /\ Subject(c) \in Names
  BY AtCall DEF ResumeStatus
<1>2. db' \in [Names -> Row \cup {None}]
  BY <1>1 DEF ResumeStatus, WithStatus, Row, Base, Mem
<1>3. Mem' /\ lock' = lock /\ raced' = raced /\ workers' = workers
  BY <1>1, <1>2 DEF ResumeStatus, Base, Mem, memVars
<1>4. <<Top(c).op, "insert">> \in Places /\ "insert" \in Pcs /\ "insert" \in Built /\ Top(c).pc \in Built
  BY <1>1 DEF Places, Past, Built, Pcs
<1>5. Goto(c, "insert")
  BY DEF ResumeStatus
<1> QED
  BY <1>1, <1>3, <1>4, <1>5, GotoBase

\* start_playbook or resume_playbook begins, unless the playbook runs.
LEMMA CheckNotRunningBase ==
    ASSUME Base, NEW c \in Tasks, CheckNotRunning(c)
    PROVE  /\ Base'
           /\ \/ Returned(c, FALSE)
              \/ \E f \in Entering(c, {"start", "resume"}) :
                   Turns(c, [f EXCEPT !.pc = "row"]) /\ workers[f.name] = None
<1>1. PICK f \in Entering(c, {"start", "resume"}) :
        /\ lock = None /\ raced' = Raced(c, f.name)
        /\ IF workers[f.name] # None THEN Return(c, FALSE) ELSE Become(c, [f EXCEPT !.pc = "row"])
        /\ UNCHANGED <<memVars, diskVars, boot, wanted, updated>>
  BY DEF CheckNotRunning
<1>2. /\ f \in Calls /\ CallOK(c, f) /\ f.op \in {"start", "resume"} /\ f.pc = "begin"
      /\ \/ stack[c] # <<>> /\ f = Top(c)
         \/ stack[c] = <<>> /\ c \in Clients /\ Serving /\ f \in Requests
  BY Enter DEF Base
<1>3. f.name \in Names /\ raced' \subseteq Names
  BY <1>1, <1>2 DEF CallOK, Raced, Base, Mem
<1>4. Mem' /\ lock' = lock /\ workers' = workers
  BY <1>1, <1>3 DEF Base, Mem, memVars, diskVars
<1>5. /\ stack[c] # <<>> => Top(c).pc # "rmdir"
      /\ stack[c] = <<>> => c = Daemon \/ Serving
  BY <1>2
<1>6. CASE workers[f.name] # None
  <2>1. Return(c, FALSE)
    BY <1>1, <1>6
  <2> QED
    BY <2>1, <1>1, <1>3, <1>4, <1>5, ReturnBase
<1>7. CASE workers[f.name] = None
  <2>1. PICK g : g = [f EXCEPT !.pc = "row"]
    OBVIOUS
  <2>2. /\ g \in Calls /\ g.op = f.op /\ g.name = f.name /\ g.pc = "row"
        /\ g.arg = f.arg /\ g.worker = f.worker
    <3>1. "row" \in Pcs /\ f \in Calls
      BY <1>2 DEF Pcs
    <3> QED
      BY <2>1, <3>1, Marked
  <2>3. CallOK(c, g)
    BY <1>2, <2>2 DEF CallOK, Places, Built
  <2>4. IF stack[c] = <<>> THEN g.op # "boot" ELSE g.op = Top(c).op
    BY <1>2, <2>2
  <2>5. Become(c, g)
    BY <1>1, <1>7, <2>1
  <2>6. Turns(c, g) /\ Onto(c, f.name) /\ Stacks'
    BY <2>2, <2>3, <2>4, <2>5, EnterShape DEF Base, Turns
  <2>7. Top(c)'.pc # "rmdir" /\ Top(c)'.op # "add_callback"
    BY <1>2, <2>2, <2>6 DEF Turns
  <2>8. Base'
    BY <1>1, <1>3, <1>4, <1>5, <2>6, <2>7, BaseKept
  <2> QED
    BY <1>7, <2>1, <2>6, <2>8
<1> QED
  BY <1>6, <1>7

\* A call that start_playbook begins
LEMMA StartFrameOK ==
    ASSUME NEW c \in Tasks, NEW n \in Names, NEW a \in Addrs \cup {None}, NEW p \in BOOLEAN,
           NEW v \in Versions, NEW f,
           f = [op |-> "start", name |-> n, pc |-> "begin", arg |-> a, path |-> p, ver |-> v,
                worker |-> None, ok |-> FALSE]
    PROVE  /\ f \in Calls /\ CallOK(c, f) /\ f.op = "start" /\ f.pc = "begin" /\ f.name = n
<1>1. f \in Calls
  BY DEF Calls, Ops, Pcs
<1>2. /\ f.op = "start" /\ f.pc = "begin" /\ f.name = n /\ f.arg = a /\ f.worker = None
      /\ <<f.op, f.pc>> \in Places /\ f.pc \notin Built
  BY DEF Places, Built
<1> QED
  BY <1>1, <1>2 DEF CallOK

\* A call made on the way
LEMMA CallBase ==
    ASSUME Base, NEW c \in Tasks, stack[c] # <<>>,
           NEW f \in Calls, CallOK(c, f), f.op = "start", f.pc = "begin",
           NEW p \in Waits, CallOK(c, [Top(c) EXCEPT !.pc = p]), Call(c, f, p),
           Mem', lock' = lock, Top(c).pc \notin {"begin", "rmdir"},
           IF Top(c).pc = "stop" THEN Subject(c) \in Names /\ raced' = Raced(c, Subject(c))
           ELSE raced' = raced,
           workers' = workers \/ (lock = None /\ NoMoreCallbacks)
    PROVE  Base' /\ Called(c, f, [Top(c) EXCEPT !.pc = p])
<1>1. /\ Called(c, f, [Top(c) EXCEPT !.pc = p]) /\ Onto(c, Top(c).name)
      /\ Top(c).pc # "stop" => Onward(c)
  BY CallShape DEF Base
<1>2. Stacks' /\ Top(c)'.pc # "rmdir" /\ Top(c)'.op # "add_callback"
  BY <1>1 DEF Called
<1>3. CASE Top(c).pc = "stop"
  <2>1. Onto(c, Subject(c))
    BY <1>1 DEF Subject
  <2> QED
    BY <1>1, <1>2, <1>3, <2>1, BaseKept
<1>4. CASE Top(c).pc # "stop"
  <2>1. Onto(c, None) /\ None \notin Names
    BY <1>1, <1>4, NoneNoName DEF Onward
  <2> QED
    BY <1>1, <1>2, <1>4, <2>1, BaseKept
<1> QED
  BY <1>3, <1>4

\* build_interconnect goes on, or starts the playbook that is called.
LEMMA FindInterconnectBase ==
    ASSUME Base, NEW c \in Tasks, FindInterconnect(c)
    PROVE  /\ Base'
           /\ \/ Turns(c, [Top(c) EXCEPT !.pc = "worker"])
              \/ Called(c, Frame("start", Needs[Subject(c)], None), [Top(c) EXCEPT !.pc = "launched"])
<1>1. /\ stack[c] # <<>> /\ Top(c).op \in {"start", "resume"} /\ Top(c).pc = "interconnect"
      /\ Top(c) \in Calls /\ CallOK(c, Top(c)) /\ Subject(c) \in Names
  BY AtCall DEF FindInterconnect
<1>2. Needs[Subject(c)] \in Names
  BY <1>1, NeedsAssumption DEF CallOK, Subject
<1>3. Mem' /\ lock' = lock /\ raced' = raced /\ workers' = workers
  BY Unchanged DEF FindInterconnect, Base, memVars, ghosts
<1>4. CASE Goto(c, "worker")
  <2>1. <<Top(c).op, "worker">> \in Places /\ "worker" \in Pcs /\ "worker" \notin Built /\ Top(c).pc \notin Built
    BY <1>1 DEF Places, Past, Built, Pcs
  <2> QED
    BY <1>1, <1>3, <1>4, <2>1, GotoBase
<1>5. CASE Call(c, Frame("start", Needs[Subject(c)], None), "launched")
  <2>1. PICK f : f = Frame("start", Needs[Subject(c)], None)
    OBVIOUS
  <2>2. f \in Calls /\ CallOK(c, f) /\ f.op = "start" /\ f.pc = "begin"
    <3>1. 0 \in Versions /\ None \in Addrs \cup {None} /\ FALSE \in BOOLEAN
      BY DEF Versions
    <3>2. PICK n \in Names : n = Needs[Subject(c)]
      BY <1>2
    <3>3. f = [op |-> "start", name |-> n, pc |-> "begin", arg |-> None, path |-> FALSE,
               ver |-> 0, worker |-> None, ok |-> FALSE]
      BY <2>1, <3>2 DEF Frame
    <3> HIDE <2>1, <3>2
    <3> QED
      BY <3>1, <3>3, StartFrameOK
  <2>3. <<Top(c).op, "launched">> \in Places /\ "launched" \in Pcs /\ "launched" \notin Built
        /\ Top(c).pc \notin Built /\ "launched" \in Waits
    BY <1>1 DEF Places, Past, Built, Pcs, Waits
  <2>4. CallOK(c, [Top(c) EXCEPT !.pc = "launched"])
    BY <1>1, <1>2, <2>3, Goes, NoneNoName DEF Subject
  <2>5. Base' /\ Called(c, f, [Top(c) EXCEPT !.pc = "launched"])
    BY <1>1, <1>3, <1>5, <2>1, <2>2, <2>3, <2>4, CallBase
  <2> QED
    BY <2>1, <2>5
<1> QED
  BY <1>4, <1>5 DEF FindInterconnect

\* It goes on once that was started, or fails.
LEMMA InterconnectStartedBase ==
    ASSUME Base, NEW c \in Tasks, InterconnectStarted(c)
    PROVE  /\ Base' /\ Onward(c)
           /\ \/ Turns(c, [Top(c) EXCEPT !.pc = "worker"]) /\ Top(c).ok
              \/ Returned(c, FALSE)
<1>1. /\ stack[c] # <<>> /\ Top(c).op \in {"start", "resume"} /\ Top(c).pc = "launched"
      /\ Top(c) \in Calls /\ CallOK(c, Top(c)) /\ Subject(c) \in Names
  BY AtCall DEF InterconnectStarted
<1>2. Mem' /\ lock' = lock /\ raced' = raced /\ workers' = workers
  BY Unchanged DEF InterconnectStarted, Base, memVars, ghosts
<1>3. CASE Goto(c, "worker") /\ Top(c).ok
  <2>1. <<Top(c).op, "worker">> \in Places /\ "worker" \in Pcs /\ "worker" \notin Built /\ Top(c).pc \notin Built
    BY <1>1 DEF Places, Past, Built, Pcs
  <2> QED
    BY <1>1, <1>2, <1>3, <2>1, GotoBase
<1>4. CASE Return(c, FALSE)
  BY <1>1, <1>2, <1>4, ReturnBase
<1> QED
  BY <1>3, <1>4 DEF InterconnectStarted

\* A worker is given each callback once at most.
LEMMA CallbacksOfType ==
    ASSUME NEW n
    PROVE  /\ CallbacksOf(n) \in [Uuids -> {0, 1}] /\ NoCallbacks \in [Uuids -> {0, 1}]
           /\ CallbacksOf(n) \in [Uuids -> 0..2] /\ NoCallbacks \in [Uuids -> 0..2]
  BY DEF CallbacksOf, NoCallbacks

\* A worker is built, with an id no other has.
LEMMA StartWorkerBase ==
    ASSUME Base, NEW c \in Tasks, StartWorker(c)
    PROVE  /\ Base' /\ Onward(c)
           /\ \E w \in Worker : Turns(c, [Top(c) EXCEPT !.pc = "callbacks", !.worker = w])
<1>1. /\ stack[c] # <<>> /\ Top(c).op \in {"start", "resume"} /\ Top(c).pc = "worker"
      /\ Top(c) \in Calls /\ CallOK(c, Top(c)) /\ Subject(c) \in Names
  BY AtCall DEF StartWorker
<1>2. PICK w : /\ w = [id |-> NewId, http |-> Top(c).arg, cbs |-> NoCallbacks,
                       path |-> Top(c).path, ver |-> Top(c).ver]
               /\ Become(c, [Top(c) EXCEPT !.pc = "callbacks", !.worker = w])
               /\ sock' = IF w.path THEN [sock EXCEPT ![Subject(c)] = w.id] ELSE sock
  BY DEF StartWorker
<1>3. w \in Worker /\ w.id \in WorkerIds /\ \A u \in Uuids : w.cbs[u] \in {0, 1}
  <2>1. NewId \in WorkerIds
    BY FreshId DEF Base
  <2>2. Top(c).arg \in Addrs \cup {None} /\ Top(c).path \in BOOLEAN /\ Top(c).ver \in Versions
    BY <1>1 DEF Calls, CallOK
  <2> QED
    BY <1>2, <2>1, <2>2, CallbacksOfType DEF Worker
<1>4. Mem' /\ lock' = lock /\ raced' = raced /\ workers' = workers
  BY <1>1, <1>2, <1>3 DEF StartWorker, Base, Mem, diskVars, ghosts
<1>5. PICK f : f = [Top(c) EXCEPT !.pc = "callbacks", !.worker = w]
  OBVIOUS
<1>6. /\ f \in Calls /\ f.op = Top(c).op /\ f.name = Top(c).name /\ f.pc = "callbacks"
      /\ f.arg = Top(c).arg /\ f.worker = w
  BY <1>1, <1>3, <1>5 DEF Calls, Pcs
<1>7. CallOK(c, f)
  <2>1. <<f.op, f.pc>> \in Places /\ f.pc \in Built
    BY <1>1, <1>6 DEF Places, Past, Built
  <2> QED
    BY <1>1, <1>3, <1>6, <2>1 DEF CallOK
<1>8. Base' /\ Turns(c, f) /\ Onward(c)
  BY <1>1, <1>2, <1>4, <1>5, <1>6, <1>7, TurnBase
<1> QED
  BY <1>3, <1>5, <1>8

\* A module that does not load ends the call.
LEMMA LoadFailsBase ==
    ASSUME Base, NEW c \in Tasks, LoadFails(c)
    PROVE  Base' /\ Onward(c) /\ Returned(c, FALSE)
<1>1. stack[c] # <<>> /\ Top(c).pc # "rmdir"
  BY AtCall DEF LoadFails
<1>2. Mem' /\ lock' = lock /\ raced' = raced /\ workers' = workers
  BY Unchanged DEF LoadFails, Base, memVars, ghosts
<1>3. Return(c, FALSE)
  BY DEF LoadFails
<1> QED
  BY <1>1, <1>2, <1>3, ReturnBase

\* So does an address that is taken.
LEMMA ListenFailsBase ==
    ASSUME Base, NEW c \in Tasks, ListenFails(c)
    PROVE  Base' /\ Onward(c) /\ Returned(c, FALSE)
<1>1. /\ stack[c] # <<>> /\ Top(c).pc = "worker" /\ Subject(c) \in Names
  BY AtCall DEF ListenFails
<1>2. Mem' /\ lock' = lock /\ raced' = raced /\ workers' = workers
  BY <1>1 DEF ListenFails, Base, Mem, diskVars, ghosts
<1>3. Return(c, FALSE)
  BY DEF ListenFails
<1> QED
  BY <1>1, <1>2, <1>3, ReturnBase

\* The worker that was built is given the callbacks of the database.
LEMMA RegisterCallbacksBase ==
    ASSUME Base, NEW c \in Tasks, RegisterCallbacks(c)
    PROVE  /\ Base' /\ Onward(c)
           /\ \E f \in Calls : /\ Turns(c, f) /\ f.op = Top(c).op /\ f.name = Subject(c)
                               /\ f.pc = "record" /\ f.worker.cbs = CallbacksOf(Subject(c))
<1>1. /\ stack[c] # <<>> /\ Top(c).op \in {"start", "resume"} /\ Top(c).pc = "callbacks"
      /\ Top(c) \in Calls /\ CallOK(c, Top(c)) /\ Subject(c) \in Names
  BY AtCall DEF RegisterCallbacks
<1>2. PICK b : b = CallbacksOf(Subject(c))
  OBVIOUS
<1>3. b \in [Uuids -> 0..2] /\ \A u \in Uuids : b[u] \in {0, 1}
  BY <1>2, CallbacksOfType
<1>4. PICK f : f = [Top(c) EXCEPT !.pc = "record", !.worker.cbs = b]
  OBVIOUS
<1>5. Top(c).worker \in Worker
  BY <1>1 DEF CallOK, Built
<1>6. /\ f \in Calls /\ f.op = Top(c).op /\ f.name = Top(c).name /\ f.pc = "record"
      /\ f.arg = Top(c).arg /\ f.worker \in Worker /\ f.worker.cbs = b
  <2>1. PICK w : w = [Top(c).worker EXCEPT !.cbs = b]
    OBVIOUS
  <2>2. w \in Worker /\ w.cbs = b
    BY <2>1, <1>3, <1>5 DEF Worker
  <2>3. f = [[Top(c) EXCEPT !.pc = "record"] EXCEPT !.worker = w]
    BY <1>1, <1>4, <2>1 DEF Calls
  <2> QED
    BY <1>1, <2>2, <2>3 DEF Calls, Pcs
<1>7. CallOK(c, f)
  <2>1. <<f.op, f.pc>> \in Places /\ f.pc \in Built
    BY <1>1, <1>6 DEF Places, Past, Built
  <2> QED
    BY <1>1, <1>3, <1>6, <2>1 DEF CallOK
<1>8. Become(c, f)
  BY <1>2, <1>4 DEF RegisterCallbacks
<1>9. Mem' /\ lock' = lock /\ raced' = raced /\ workers' = workers
  BY Unchanged DEF RegisterCallbacks, Base, memVars, ghosts
<1>10. Base' /\ Turns(c, f) /\ Onward(c)
  BY <1>1, <1>6, <1>7, <1>8, <1>9, TurnBase
<1> QED
  BY <1>2, <1>6, <1>10 DEF Subject

\* The worker of a call that is about to put it into the map
LEMMA InsertFacts ==
    ASSUME Base, NEW c \in Tasks, At(c, {"start", "resume"}, "insert")
    PROVE  Top(c).worker \in Worker /\ \A u \in Uuids : Top(c).worker.cbs[u] \in {0, 1}
<1>1. CallOK(c, Top(c)) /\ Top(c).pc = "insert"
  BY AtCall
<1> QED
  BY <1>1 DEF CallOK, Built

\* start_playbook puts the worker into the map.
LEMMA StartInsertBase ==
    ASSUME Base, NEW c \in Tasks, StartInsert(c)
    PROVE  Base' /\ Onward(c) /\ Returned(c, TRUE)
<1>1. /\ stack[c] # <<>> /\ Top(c).op = "start" /\ Top(c).pc = "insert" /\ Subject(c) \in Names
      /\ CallOK(c, Top(c))
  BY AtCall DEF StartInsert
<1>2. Top(c).worker \in Worker /\ \A u \in Uuids : Top(c).worker.cbs[u] \in {0, 1}
  BY <1>1 DEF CallOK, Built
<1>3. Mem'
  BY <1>1, <1>2 DEF StartInsert, Unheard, Base, Mem, diskVars
<1>4. NoMoreCallbacks
  BY <1>1, <1>2 DEF StartInsert, NoMoreCallbacks, Base, Mem
<1>5. lock = None /\ lock' = lock /\ raced' = raced /\ Return(c, TRUE)
  BY DEF StartInsert
<1> QED
  BY <1>1, <1>3, <1>4, <1>5, ReturnBase

\* resume_playbook does, if there is none,
LEMMA ResumeInsertBase ==
    ASSUME Base, NEW c \in Tasks, ResumeInsert(c)
    PROVE  Base' /\ Onward(c) /\ Returned(c, TRUE)
<1>1. /\ stack[c] # <<>> /\ Top(c).op = "resume" /\ Top(c).pc = "insert" /\ Subject(c) \in Names
      /\ CallOK(c, Top(c))
  BY AtCall DEF ResumeInsert
<1>2. Top(c).worker \in Worker /\ \A u \in Uuids : Top(c).worker.cbs[u] \in {0, 1}
  BY <1>1 DEF CallOK, Built
<1>3. Mem'
  BY <1>1, <1>2 DEF ResumeInsert, Base, Mem, diskVars
<1>4. NoMoreCallbacks
  BY <1>1, <1>2 DEF ResumeInsert, NoMoreCallbacks, Base, Mem
<1>5. lock = None /\ lock' = lock /\ raced' = raced /\ Return(c, TRUE)
  BY DEF ResumeInsert
<1> QED
  BY <1>1, <1>3, <1>4, <1>5, ReturnBase

\* and fails if there is one.
LEMMA ResumeConflictBase ==
    ASSUME Base, NEW c \in Tasks, ResumeConflict(c)
    PROVE  Base' /\ Onward(c) /\ Returned(c, FALSE)
<1>1. stack[c] # <<>> /\ Top(c).pc = "insert" /\ Subject(c) \in Names
  BY AtCall DEF ResumeConflict
<1>2. Mem' /\ lock' = lock /\ raced' = raced /\ workers' = workers
  BY <1>1 DEF ResumeConflict, SocketAfterShutdown, Base, Mem, diskVars, ghosts
<1>3. Return(c, FALSE)
  BY DEF ResumeConflict
<1> QED
  BY <1>1, <1>2, <1>3, ReturnBase

\* resume_playbook needs a row, and goes on with what it says.
LEMMA ResumeGetRowBase ==
    ASSUME Base, NEW c \in Tasks, ResumeGetRow(c)
    PROVE  /\ Base' /\ Onward(c)
           /\ \/ Returned(c, FALSE)
              \/ /\ db[Subject(c)] # None
                 /\ \E f \in Calls : /\ Turns(c, f) /\ f.op = Top(c).op /\ f.name = Subject(c)
                                     /\ f.pc \in {"interconnect", "worker"}
<1>1. /\ stack[c] # <<>> /\ Top(c).op = "resume" /\ Top(c).pc = "row"
      /\ Top(c) \in Calls /\ CallOK(c, Top(c)) /\ Subject(c) \in Names
  BY AtCall DEF ResumeGetRow
<1>2. Mem' /\ lock' = lock /\ raced' = raced /\ workers' = workers
  BY Unchanged DEF ResumeGetRow, Base, memVars, ghosts
<1>3. CASE db[Subject(c)] = None
  <2>1. Return(c, FALSE)
    BY <1>3 DEF ResumeGetRow, GetRow
  <2> QED
    BY <1>1, <1>2, <2>1, ReturnBase
<1>4. CASE db[Subject(c)] # None
  <2>1. PICK row \in Row : row = db[Subject(c)]
    BY <1>1, <1>4 DEF Base, Mem
  <2>2. PICK p : p = AfterLoad(Subject(c))
    OBVIOUS
  <2>3. p \in {"interconnect", "worker"} /\ (p = "interconnect" => Needs[Top(c).name] # None)
    BY <2>2 DEF AfterLoad, Subject
  <2>4. PICK f : f = [Top(c) EXCEPT !.pc = p, !.arg = row.http, !.path = row.path, !.ver = row.ver]
    OBVIOUS
  <2>5. /\ row.http \in Addrs \cup {None} /\ row.path \in BOOLEAN /\ row.ver \in Versions
        /\ p \in Pcs
    BY <2>3 DEF Row, Pcs
  <2>6. /\ f \in Calls /\ f.op = Top(c).op /\ f.name = Top(c).name /\ f.pc = p
        /\ f.arg = row.http /\ f.worker = Top(c).worker
    BY <1>1, <2>4, <2>5 DEF Calls
  <2>7. CallOK(c, f)
    <3>1. <<f.op, f.pc>> \in Places /\ f.pc \notin Built /\ Top(c).pc \notin Built
          /\ f.pc # "launched" /\ f.pc # "resumed"
      BY <1>1, <2>3, <2>6 DEF Places, Past, Built
    <3> QED
      BY <1>1, <2>3, <2>5, <2>6, <3>1 DEF CallOK
  <2>8. Become(c, f)
    BY <1>4, <2>1, <2>2, <2>4 DEF ResumeGetRow, GetRow
  <2>9. f.pc # "rmdir" /\ f.pc # "begin"
    BY <2>3, <2>6
  <2>10. Base' /\ Turns(c, f) /\ Onward(c)
    BY <1>1, <1>2, <2>6, <2>7, <2>8, <2>9, TurnBase
  <2> QED
    BY <1>4, <2>3, <2>6, <2>10 DEF Subject
<1> QED
  BY <1>3, <1>4

\* A request that ends in the step it begins in, with the map of workers changed
LEMMA RequestBase ==
    ASSUME Base, NEW c \in Tasks, NEW op, op \subseteq Ops \ {"boot", "update"},
           NEW f \in Entering(c, op), NEW b \in BOOLEAN, Return(c, b), Mem',
           lock = None, lock' = lock, raced' = Raced(c, f.name), NoMoreCallbacks
    PROVE  Base' /\ Returned(c, b) /\ Onward(c)
<1>1. /\ CallOK(c, f) /\ f.op \in op /\ f.pc = "begin"
      /\ \/ stack[c] # <<>> /\ f = Top(c)
         \/ stack[c] = <<>> /\ Serving
  BY Enter DEF Base
<1>2. f.op # "boot" /\ f.name \in Names
  BY <1>1 DEF CallOK
<1>3. /\ stack[c] # <<>> => Top(c).pc # "rmdir"
      /\ stack[c] = <<>> => c = Daemon \/ Serving
  BY <1>1
<1> QED
  BY <1>2, <1>3, ReturnBase

\* A request is about a playbook.
LEMMA EnterName ==
    ASSUME Base, NEW c \in Tasks, NEW op, op \subseteq Ops \ {"boot", "update"},
           NEW f \in Entering(c, op)
    PROVE  f.name \in Names /\ Raced(c, f.name) \subseteq Names
<1>1. CallOK(c, f) /\ f.op \in op
  BY Enter DEF Base
<1> QED
  BY <1>1 DEF CallOK, Raced, Base, Mem

\* stop_playbook takes the worker out in one step.
LEMMA StopPlaybookBase ==
    ASSUME Base, NEW c \in Tasks, StopPlaybook(c)
    PROVE  Base' /\ Onward(c) /\ \E b \in BOOLEAN : Returned(c, b)
<1>1. PICK f \in Entering(c, {"stop"}) :
        /\ lock = None /\ TakeOut(f.name) /\ db' = StoppedRow(f.name)
        /\ wanted' = IF workers[f.name] = None THEN wanted ELSE [wanted EXCEPT ![f.name] = "stop"]
        /\ raced' = Raced(c, f.name) /\ Return(c, workers[f.name] # None)
        /\ UNCHANGED <<lock, cbs, dir, boot, updated, faults, crashes>>
  BY DEF StopPlaybook
<1>2. {"stop"} \subseteq Ops \ {"boot", "update"}
  BY DEF Ops
<1>3. f.name \in Names /\ Raced(c, f.name) \subseteq Names
  BY <1>2, EnterName
<1>4. db' \in [Names -> Row \cup {None}]
  BY <1>1, <1>3 DEF StoppedRow, WithStatus, Row, Base, Mem
<1>5. Mem'
  BY <1>1, <1>3, <1>4 DEF TakeOut, SocketAfterShutdown, Base, Mem
<1>6. NoMoreCallbacks
  BY <1>1, <1>3 DEF TakeOut, NoMoreCallbacks, Base, Mem
<1>7. PICK b \in BOOLEAN : Return(c, b)
  BY <1>1
<1> QED
  BY <1>1, <1>2, <1>5, <1>6, <1>7, RequestBase

\* A worker with another address calls the callbacks it called.
LEMMA SetHttpWorkers ==
    ASSUME Base, NEW n \in Names, NEW a \in Addrs \cup {None}, workers[n] # None,
           workers' = WithHttp(n, a)
    PROVE  /\ workers' \in [Names -> Worker \cup {None}] /\ NoMoreCallbacks
           /\ \A m \in Names : workers'[m] # None =>
                workers[m] # None /\ workers'[m].cbs = workers[m].cbs
<1>1. workers \in [Names -> Worker \cup {None}] /\ workers[n] \in Worker
  BY DEF Base, Mem
<1>2. PICK w : w = [workers[n] EXCEPT !.http = a]
  OBVIOUS
<1>3. w \in Worker /\ w.cbs = workers[n].cbs
  BY <1>1, <1>2 DEF Worker
<1>4. workers' = [workers EXCEPT ![n] = w]
  BY <1>2 DEF WithHttp
<1>5. \A m \in Names : workers'[m] # None => workers[m] # None /\ workers'[m].cbs = workers[m].cbs
  BY <1>1, <1>3, <1>4
<1> QED
  BY <1>1, <1>3, <1>4, <1>5 DEF NoMoreCallbacks

\* set_http_address changes the address in one step,
LEMMA SetHttpAddressBase ==
    ASSUME Base, NEW c \in Tasks, SetHttpAddress(c)
    PROVE  Base' /\ Onward(c) /\ Returned(c, TRUE)
<1>1. PICK f \in Entering(c, {"set_http"}) :
        /\ lock = None /\ workers[f.name] # None /\ workers' = WithHttp(f.name, f.arg)
        /\ db' = HttpRow(f.name, f.arg)
        /\ raced' = Raced(c, f.name) /\ Return(c, TRUE)
        /\ UNCHANGED <<lock, sock, cbs, dir, boot, wanted, updated, faults, crashes>>
  BY DEF SetHttpAddress
<1>2. {"set_http"} \subseteq Ops \ {"boot", "update"}
  BY DEF Ops
<1>3. f.name \in Names /\ Raced(c, f.name) \subseteq Names
  BY <1>2, EnterName
<1>4. f.arg \in Addrs \cup {None}
  <2>1. CallOK(c, f) /\ f.op = "set_http"
    BY Enter DEF Base
  <2> QED
    BY <2>1 DEF CallOK
<1>5. workers' \in [Names -> Worker \cup {None}] /\ NoMoreCallbacks
  BY <1>1, <1>3, <1>4, SetHttpWorkers
<1>6. db' \in [Names -> Row \cup {None}]
  BY <1>1, <1>3, <1>4 DEF HttpRow, Row, Base, Mem
<1>7. Mem'
  BY <1>1, <1>3, <1>5, <1>6 DEF Base, Mem
<1> QED
  BY <1>1, <1>2, <1>5, <1>7, RequestBase

\* or takes it away when the new one can not be bound.
LEMMA SetHttpFailsBase ==
    ASSUME Base, NEW c \in Tasks, SetHttpFails(c)
    PROVE  Base' /\ Onward(c) /\ Returned(c, FALSE)
<1>1. PICK f \in Entering(c, {"set_http"}) :
        /\ lock = None /\ workers[f.name] # None /\ workers' = WithHttp(f.name, None)
        /\ raced' = Raced(c, f.name) /\ Return(c, FALSE)
        /\ UNCHANGED <<lock, sock, diskVars, boot, wanted, updated, crashes>>
  BY DEF SetHttpFails
<1>2. {"set_http"} \subseteq Ops \ {"boot", "update"}
  BY DEF Ops
<1>3. f.name \in Names /\ Raced(c, f.name) \subseteq Names
  BY <1>2, EnterName
<1>4. workers' \in [Names -> Worker \cup {None}] /\ NoMoreCallbacks
  BY <1>1, <1>3, SetHttpWorkers
<1>5. Mem'
  BY <1>1, <1>3, <1>4 DEF Base, Mem, diskVars
<1> QED
  BY <1>1, <1>2, <1>4, <1>5, RequestBase

\* delete_playbook takes the lock, the worker out and the row away.
LEMMA DeletePlaybookBase ==
    ASSUME Base, NEW c \in Tasks, DeletePlaybook(c)
    PROVE  /\ Base'
           /\ \E f \in Calls :
                /\ f.op \in {"start", "delete"} /\ f.name \in Names
                /\ stack[c] # <<>> => f = Top(c)
                /\ f.pc \in {"begin", "delete"}
                /\ Turns(c, [f EXCEPT !.pc = "rmdir"]) /\ Onto(c, f.name)
                /\ lock = None /\ TakeOut(f.name) /\ DeleteRow(f.name)
                /\ wanted' = [wanted EXCEPT ![f.name] = "any"] /\ raced' = Raced(c, f.name)
<1>1. PICK f \in Entering(c, {"delete"})
                   \cup {g \in Range(stack[c]) : At(c, {"start"}, "delete") /\ g = Top(c)} :
        /\ HoldLock(c) /\ TakeOut(f.name) /\ DeleteRow(f.name)
        /\ wanted' = [wanted EXCEPT ![f.name] = "any"] /\ raced' = Raced(c, f.name)
        /\ Become(c, [f EXCEPT !.pc = "rmdir"])
        /\ UNCHANGED <<dir, boot, updated, faults, crashes>>
  BY DEF DeletePlaybook
<1>2. /\ f \in Calls /\ CallOK(c, f) /\ f.op \in {"start", "delete"}
      /\ f.pc \in {"begin", "delete"}
      /\ stack[c] # <<>> => f = Top(c)
      /\ stack[c] = <<>> => Serving
  <2>1. CASE f \in Entering(c, {"delete"})
    BY <2>1, Enter DEF Base
  <2>2. CASE At(c, {"start"}, "delete") /\ f = Top(c)
    BY <2>2, AtCall
  <2> QED
    BY <1>1, <2>1, <2>2
<1>3. f.name \in Names /\ raced' \subseteq Names
  BY <1>1, <1>2 DEF CallOK, Raced, Base, Mem
<1>4. PICK g : g = [f EXCEPT !.pc = "rmdir"]
  OBVIOUS
<1>5. /\ g \in Calls /\ g.op = f.op /\ g.name = f.name /\ g.pc = "rmdir"
      /\ g.arg = f.arg /\ g.worker = f.worker
  <2>1. "rmdir" \in Pcs
    BY DEF Pcs
  <2> QED
    BY <1>2, <1>4, <2>1, Marked
<1>6. CallOK(c, g)
  <2>1. <<g.op, g.pc>> \in Places /\ f.pc \notin Built /\ g.pc \notin Built
    BY <1>2, <1>5 DEF Places, Built
  <2> QED
    BY <1>2, <1>5, <2>1 DEF CallOK
<1>7. Turns(c, g) /\ Onto(c, f.name) /\ Stacks'
  <2>1. IF stack[c] = <<>> THEN g.op # "boot" ELSE g.op = Top(c).op
    BY <1>2, <1>5
  <2>2. Become(c, g)
    BY <1>1, <1>4
  <2> QED
    BY <1>5, <1>6, <2>1, <2>2, EnterShape DEF Base, Turns
<1>8. Mem'
  <2>1. cbs' \in [Uuids -> Names \cup {None}] /\ db' \in [Names -> Row \cup {None}]
    BY <1>1, <1>3 DEF DeleteRow, Base, Mem
  <2>2. workers' \in [Names -> Worker \cup {None}] /\ sock' \in [Names -> WorkerIds \cup {None}]
    BY <1>1, <1>3 DEF TakeOut, SocketAfterShutdown, Base, Mem
  <2> QED
    BY <1>1, <1>3, <2>1, <2>2 DEF HoldLock, Base, Mem
<1>9. Booting'
  BY <1>2, <1>7, BootingKept
<1>10. Alone'
  <2>1. raced \subseteq raced'
    BY <1>1 DEF Raced
  <2> QED
    BY <1>1, <1>7, <2>1, AloneKept DEF Base
<1>11. Counts'
  <2>1. NoMoreCallbacks
    BY <1>1, <1>3 DEF TakeOut, NoMoreCallbacks, Base, Mem
  <2>2. Top(c)'.pc # "worker"
    BY <1>5, <1>7 DEF Turns
  <2> QED
    BY <1>7, <2>1, <2>2, CountsKept DEF Turns
<1>12. Locked'
  <2> SUFFICES ASSUME NEW d \in Tasks
               PROVE  /\ lock' = d <=> AtRmdir(d)'
                      /\ lock' = d => workers'[Subject(d)'] = None
    BY DEF Locked
  <2>1. CASE d = c
    <3>1. AtRmdir(c)' /\ Subject(c)' = f.name
      BY <1>5, <1>7 DEF AtRmdir, Turns, Subject
    <3>2. workers'[f.name] = None
      BY <1>1, <1>3 DEF TakeOut, Base, Mem
    <3> QED
      BY <1>1, <2>1, <3>1, <3>2 DEF HoldLock
  <2>2. CASE d # c
    <3>1. AtRmdir(d)' <=> AtRmdir(d)
      BY <1>7, <2>2 DEF AtRmdir, Turns, Same, Top
    <3>2. lock # d
      BY <1>1, TasksFinite DEF HoldLock
    <3> QED
      BY <1>1, <2>2, <3>1, <3>2 DEF HoldLock, Base, Locked
  <2> QED
    BY <2>1, <2>2
<1> QED
  BY <1>1, <1>2, <1>3, <1>4, <1>7, <1>8, <1>9, <1>10, <1>11, <1>12 DEF Base, HoldLock

\* It gives the lock back when the directory is gone.
LEMMA RemoveDirBase ==
    ASSUME Base, NEW c \in Tasks, RemoveDir(c)
    PROVE  /\ Base' /\ Onward(c)
           /\ \/ Returned(c, TRUE) /\ Top(c).op = "delete"
              \/ Turns(c, [Top(c) EXCEPT !.pc = "dirs"]) /\ Top(c).op = "start"
<1>1. /\ stack[c] # <<>> /\ Top(c).op \in {"start", "delete"} /\ Top(c).pc = "rmdir"
      /\ Top(c) \in Calls /\ CallOK(c, Top(c)) /\ Subject(c) \in Names
  BY AtCall DEF RemoveDir
<1>2. Mem'
  BY <1>1 DEF RemoveDir, Base, Mem
<1>3. lock' = None /\ raced' = raced /\ workers' = workers
  BY DEF RemoveDir
<1>4. /\ Onward(c) /\ Stacks'
      /\ stack'[c] # <<>> => Top(c)'.pc \in Waits \cup {"dirs"}
      /\ \/ Returned(c, TRUE) /\ Top(c).op = "delete"
         \/ Turns(c, [Top(c) EXCEPT !.pc = "dirs"]) /\ Top(c).op = "start"
  <2>1. CASE Top(c).op = "delete"
    <3>1. Return(c, TRUE)
      BY <2>1 DEF RemoveDir
    <3>2. Returned(c, TRUE) /\ Onward(c)
      BY <3>1, ReturnShape DEF Base
    <3>3. ASSUME stack'[c] # <<>> PROVE Top(c)'.pc \in Waits
      <4>1. PICK f \in Calls : f.pc \in Waits /\ Top(c)' = [f EXCEPT !.ok = TRUE]
        BY <3>2, <3>3 DEF Returned
      <4>2. [f EXCEPT !.ok = TRUE].pc = f.pc
        BY Marked
      <4> QED
        BY <4>1, <4>2
    <3> QED
      BY <2>1, <3>2, <3>3 DEF Returned
  <2>2. CASE Top(c).op = "start"
    <3>1. PICK f : f = [Top(c) EXCEPT !.pc = "dirs"]
      OBVIOUS
    <3>2. /\ "dirs" \in Pcs /\ <<Top(c).op, "dirs">> \in Places
          /\ "dirs" \notin Built /\ Top(c).pc \notin Built
      BY <1>1, <2>2 DEF Pcs, Places, Built
    <3>3. f \in Calls /\ CallOK(c, f)
      BY <1>1, <3>1, <3>2, Goes
    <3>4. f.op = Top(c).op /\ f.name = Top(c).name /\ f.pc = "dirs"
      BY <1>1, <3>1, <3>2, Marked
    <3>5. Become(c, f)
      BY <2>2, <3>1 DEF RemoveDir, Goto
    <3>6. Turns(c, f) /\ Onward(c)
      BY <1>1, <3>3, <3>4, <3>5, TurnShape DEF Base
    <3> QED
      BY <2>2, <3>1, <3>4, <3>6 DEF Turns
  <2> QED
    BY <1>1, <2>1, <2>2
<1>5. Booting'
  BY <1>1, <1>4, BootingKept DEF Onward
<1>6. Alone'
  BY <1>3, <1>4, AloneKept, NoneNoName DEF Base, Onward
<1>7. Counts'
  <2>1. stack'[c] # <<>> => Top(c)'.pc # "worker"
    BY <1>4 DEF Waits
  <2> QED
    BY <1>3, <1>4, <2>1, CountsKept DEF Onward, Onto
<1>8. Locked'
  <2> SUFFICES ASSUME NEW d \in Tasks PROVE lock' # d /\ ~AtRmdir(d)'
    BY DEF Locked
  <2>1. lock' # d
    BY <1>3, TasksFinite
  <2>2. CASE d = c
    BY <1>4, <2>1, <2>2 DEF AtRmdir, Waits
  <2>3. CASE d # c
    <3>1. lock = c
      BY <1>1 DEF Base, Locked, AtRmdir
    <3>2. ~AtRmdir(d)
      BY <2>3, <3>1 DEF Base, Locked
    <3>3. stack'[d] = stack[d]
      BY <1>4, <2>3 DEF Onward, Onto, Same
    <3> QED
      BY <2>1, <3>2, <3>3 DEF AtRmdir, Top
  <2> QED
    BY <2>1, <2>2, <2>3
<1> QED
  BY <1>2, <1>4, <1>5, <1>6, <1>7, <1>8 DEF Base

\* A callback request that goes on to the workers: ForgetCallback, and all but the count of
\* SaveCallback
LEMMA CallbackBase ==
    ASSUME Base, NEW c \in Tasks, NEW op, op \subseteq {"add_callback", "delete_callback"},
           NEW f \in Entering(c, op), Become(c, [f EXCEPT !.pc = "worker"]), Mem',
           lock' = lock, workers' = workers, raced' = Raced(c, f.name)
    PROVE  /\ Stacks' /\ Booting' /\ Alone' /\ Locked'
           /\ \E g \in Calls : /\ Turns(c, g) /\ g.op = f.op /\ g.name = f.name /\ g.arg = f.arg
                               /\ g.pc = "worker" /\ g.arg \in Uuids
           /\ Onto(c, f.name)
<1>1. /\ f \in Calls /\ CallOK(c, f) /\ f.op \in {"add_callback", "delete_callback"}
      /\ f.pc = "begin"
      /\ stack[c] # <<>> => f = Top(c)
      /\ stack[c] = <<>> => Serving
  BY Enter DEF Base
<1>2. f.name \in Names /\ f.arg \in Uuids
  BY <1>1 DEF CallOK
<1>3. PICK g : g = [f EXCEPT !.pc = "worker"]
  OBVIOUS
<1>4. /\ g \in Calls /\ g.op = f.op /\ g.name = f.name /\ g.pc = "worker"
      /\ g.arg = f.arg /\ g.worker = f.worker
  <2>1. "worker" \in Pcs
    BY DEF Pcs
  <2> QED
    BY <1>1, <1>3, <2>1, Marked
<1>5. CallOK(c, g)
  <2>1. <<g.op, g.pc>> \in Places /\ f.pc \notin Built /\ g.pc \notin Built
    BY <1>1, <1>4 DEF Places, Built
  <2> QED
    BY <1>1, <1>4, <2>1 DEF CallOK
<1>6. Turns(c, g) /\ Onto(c, f.name) /\ Stacks'
  <2>1. IF stack[c] = <<>> THEN g.op # "boot" ELSE g.op = Top(c).op
    BY <1>1, <1>4
  <2>2. Become(c, g)
    BY <1>3
  <2> QED
    BY <1>4, <1>5, <2>1, <2>2, EnterShape DEF Base, Turns
<1>7. Booting'
  BY <1>1, <1>6, BootingKept
<1>8. Alone'
  <2>1. raced \subseteq raced'
    BY DEF Raced
  <2> QED
    BY <1>6, <2>1, AloneKept DEF Base
<1>9. Locked'
  <2> SUFFICES ASSUME NEW d \in Tasks
               PROVE  /\ lock = d <=> AtRmdir(d)'
                      /\ lock = d => workers[Subject(d)'] = None
    BY DEF Locked
  <2>1. CASE d = c
    <3>1. ~AtRmdir(c) /\ ~AtRmdir(c)'
      BY <1>1, <1>4, <1>6 DEF AtRmdir, Turns
    <3> QED
      BY <2>1, <3>1 DEF Base, Locked
  <2>2. CASE d # c
    <3>1. stack'[d] = stack[d]
      BY <1>6, <2>2 DEF Turns, Same
    <3>2. (AtRmdir(d)' <=> AtRmdir(d)) /\ Subject(d)' = Subject(d)
      BY <3>1 DEF AtRmdir, Subject, Top
    <3> QED
      BY <3>2 DEF Base, Locked
  <2> QED
    BY <2>1, <2>2
<1> QED
  BY <1>2, <1>4, <1>6, <1>7, <1>8, <1>9

\* The callback that a request adds is new: no worker has it, no other request is about it.
LEMMA SaveCallbackBase ==
    ASSUME Base, NEW c \in Tasks, SaveCallback(c)
    PROVE  /\ Base'
           /\ \E f \in Calls :
                /\ Turns(c, f) /\ f.op = "add_callback" /\ f.pc = "worker" /\ f.name \in Names
                /\ f.arg \in Uuids /\ Onto(c, f.name) /\ raced' = Raced(c, f.name)
                /\ cbs[f.arg] = None /\ cbs' = [cbs EXCEPT ![f.arg] = f.name]
                /\ \A d \in Tasks : ~Adds(d, f.arg) /\ ~Deletes(d, f.arg)
                /\ \A w \in AllWorkers : w.cbs[f.arg] = 0
<1>1. PICK f \in Entering(c, {"add_callback"}) :
        /\ cbs' = AddMapping(f.arg, f.name) /\ raced' = Raced(c, f.name)
        /\ Become(c, [f EXCEPT !.pc = "worker"])
        /\ UNCHANGED <<memVars, db, dir, boot, wanted, updated, faults, crashes>>
  BY DEF SaveCallback
<1>2. /\ f.op = "add_callback" /\ CallOK(c, f) /\ stack[c] = <<>> /\ f \in Requests
  BY Enter DEF Base
<1>3. f.name \in Names /\ f.arg \in Uuids
  BY <1>2 DEF CallOK
<1>4. f.arg \in FreshUuids
  <2>1. ASSUME f \in StartRequests \cup AddressRequests PROVE FALSE
    <3>1. /\ \A o, n, a : Frame(o, n, a).op = o
          /\ \A n, a, p, v : StartFrame(n, a, p, v).op = "start"
      BY DEF StartFrame, Frame
    <3> QED
      BY <2>1, <3>1, <1>2 DEF StartRequests, AddressRequests
  <2>2. f \in CallbackRequests
    BY <1>2, <2>1 DEF Requests
  <2>3. PICK n \in Names, u \in FreshUuids : f = Frame("add_callback", n, u)
    BY <1>2, <2>2 DEF CallbackRequests, Frame
  <2> QED
    BY <2>3 DEF Frame
<1>5. /\ cbs[f.arg] = None /\ \A w \in AllWorkers : w.cbs[f.arg] = 0
      /\ \A d \in Clients : \A g \in Range(stack[d]) : g.arg # f.arg
  BY <1>4 DEF FreshUuids
<1>6. \A d \in Tasks : ~Adds(d, f.arg) /\ ~Deletes(d, f.arg)
  <2> SUFFICES ASSUME NEW d \in Tasks, Adds(d, f.arg) \/ Deletes(d, f.arg) PROVE FALSE
    OBVIOUS
  <2>1. /\ At(d, {"add_callback", "delete_callback"}, "worker") /\ Top(d).arg = f.arg
    BY DEF Adds, Deletes, At
  <2>2. /\ CallOK(d, Top(d)) /\ Top(d).op \in {"add_callback", "delete_callback"}
        /\ Top(d) \in Range(stack[d])
    BY <2>1, AtCall
  <2>3. d \in Clients
    BY <2>2 DEF CallOK, Tasks
  <2> QED
    BY <1>5, <2>1, <2>2, <2>3
<1>7. Mem' /\ lock' = lock /\ workers' = workers
  <2>1. cbs' \in [Uuids -> Names \cup {None}] /\ raced' \subseteq Names
    BY <1>1, <1>3 DEF AddMapping, Raced, Base, Mem
  <2> QED
    BY <1>1, <2>1 DEF Base, Mem, memVars
<1>8. /\ Stacks' /\ Booting' /\ Alone' /\ Locked' /\ Onto(c, f.name)
      /\ \E g \in Calls : /\ Turns(c, g) /\ g.op = f.op /\ g.name = f.name /\ g.arg = f.arg
                          /\ g.pc = "worker" /\ g.arg \in Uuids
  BY <1>1, <1>7, CallbackBase
<1>9. PICK g \in Calls : /\ Turns(c, g) /\ g.op = f.op /\ g.name = f.name /\ g.arg = f.arg
                         /\ g.pc = "worker" /\ g.arg \in Uuids
  BY <1>8
<1>10. Counts'
  <2>1. \A d \in Tasks \ {c} : \A u \in Uuids : Adds(d, u)' <=> Adds(d, u)
    BY <1>9 DEF Turns, Same, Adds, At, Top
  <2>2. \A u \in Uuids : Adds(c, u)' => u = f.arg
    BY <1>9 DEF Turns, Adds
  <2>3. \A u \in Uuids : ~Adds(c, u)
    BY <1>2 DEF Adds, At
  <2>4. \A n \in Names : workers[n] # None => workers[n].cbs[f.arg] = 0
    BY <1>5 DEF AllWorkers
  <2> SUFFICES ASSUME NEW d \in Tasks, NEW u \in Uuids, Adds(d, u)'
               PROVE  /\ \A e \in Tasks : Adds(e, u)' => d = e
                      /\ \A m \in Names : workers'[m] # None => workers'[m].cbs[u] <= 1
    BY DEF Counts
  <2>5. CASE u = f.arg
    BY <2>1, <2>4, <2>5, <1>6, <1>7
  <2>6. CASE u # f.arg
    BY <2>1, <2>2, <2>6, <1>7 DEF Base, Counts
  <2> QED
    BY <2>5, <2>6
<1>11. Base'
  BY <1>7, <1>8, <1>10 DEF Base
<1> QED
  BY <1>1, <1>2, <1>3, <1>5, <1>6, <1>8, <1>9, <1>11 DEF AddMapping

\* delete_callback takes the row away, then goes to the workers.
LEMMA ForgetCallbackBase ==
    ASSUME Base, NEW c \in Tasks, ForgetCallback(c)
    PROVE  /\ Base'
           /\ \E f \in Calls :
                /\ Turns(c, f) /\ f.op = "delete_callback" /\ f.pc = "worker" /\ f.name \in Names
                /\ f.arg \in Uuids /\ Onto(c, f.name) /\ raced' = Raced(c, f.name)
                /\ cbs[f.arg] = f.name /\ cbs' = [cbs EXCEPT ![f.arg] = None]
<1>1. PICK f \in Entering(c, {"delete_callback"}) :
        /\ cbs' = DeleteMapping(f.arg) /\ raced' = Raced(c, f.name)
        /\ Become(c, [f EXCEPT !.pc = "worker"])
        /\ UNCHANGED <<memVars, db, dir, boot, wanted, updated, faults, crashes>>
  BY DEF ForgetCallback
<1>2. /\ f.op = "delete_callback" /\ CallOK(c, f) /\ stack[c] = <<>> /\ f \in Requests
  BY Enter DEF Base
<1>3. f.name \in Names /\ f.arg \in Uuids
  BY <1>2 DEF CallOK
<1>4. cbs[f.arg] = f.name
  <2>1. ASSUME f \in StartRequests \cup AddressRequests PROVE FALSE
    <3>1. /\ \A o, n, a : Frame(o, n, a).op = o
          /\ \A n, a, p, v : StartFrame(n, a, p, v).op = "start"
      BY DEF StartFrame, Frame
    <3> QED
      BY <2>1, <3>1, <1>2 DEF StartRequests, AddressRequests
  <2>2. f \in CallbackRequests
    BY <1>2, <2>1 DEF Requests
  <2>3. PICK u \in Uuids : f = Frame("delete_callback", cbs[u], u)
    BY <1>2, <2>2 DEF CallbackRequests, Frame
  <2> QED
    BY <2>3 DEF Frame
<1>5. Mem' /\ lock' = lock /\ workers' = workers
  <2>1. cbs' \in [Uuids -> Names \cup {None}] /\ raced' \subseteq Names
    BY <1>1, <1>3 DEF DeleteMapping, Raced, Base, Mem
  <2> QED
    BY <1>1, <2>1 DEF Base, Mem, memVars
<1>6. /\ Stacks' /\ Booting' /\ Alone' /\ Locked' /\ Onto(c, f.name)
      /\ \E g \in Calls : /\ Turns(c, g) /\ g.op = f.op /\ g.name = f.name /\ g.arg = f.arg
                          /\ g.pc = "worker" /\ g.arg \in Uuids
  BY <1>1, <1>5, CallbackBase
<1>7. PICK g \in Calls : /\ Turns(c, g) /\ g.op = f.op /\ g.name = f.name /\ g.arg = f.arg
                         /\ g.pc = "worker" /\ g.arg \in Uuids
  BY <1>6
<1>8. Counts'
  <2>1. Top(c)'.op # "add_callback"
    BY <1>2, <1>7 DEF Turns
  <2> QED
    BY <1>5, <1>7, <2>1, CountsKept DEF Turns
<1>9. Base'
  BY <1>5, <1>6, <1>8 DEF Base
<1> QED
  BY <1>1, <1>2, <1>3, <1>4, <1>6, <1>7, <1>9 DEF DeleteMapping

\* Where a task is after it returned
LEMMA ReturnedTop ==
    ASSUME NEW c \in Tasks, NEW b \in BOOLEAN, Returned(c, b), stack'[c] # <<>>
    PROVE  Top(c)'.pc \in Waits
<1>1. PICK f \in Calls : f.pc \in Waits /\ Top(c)' = [f EXCEPT !.ok = b]
  BY DEF Returned
<1>2. [f EXCEPT !.ok = b].pc = f.pc
  BY Marked
<1> QED
  BY <1>1, <1>2

\* add_callback tells the worker: no other request adds this callback.
LEMMA AddCallbackBase ==
    ASSUME Base, NEW c \in Tasks, AddCallback(c)
    PROVE  /\ Base' /\ Onward(c) /\ Returned(c, TRUE) /\ Adds(c, Top(c).arg)
           /\ Top(c).arg \in Uuids /\ Subject(c) \in Names
<1>1. /\ stack[c] # <<>> /\ Top(c).op = "add_callback" /\ Top(c).pc = "worker"
      /\ Top(c) \in Calls /\ CallOK(c, Top(c)) /\ Subject(c) \in Names
  BY AtCall DEF AddCallback
<1>2. PICK u \in Uuids : u = Top(c).arg
  BY <1>1 DEF CallOK
<1>3. PICK n \in Names : n = Subject(c)
  BY <1>1
<1>4. Adds(c, u)
  BY <1>2 DEF AddCallback, Adds
<1>5. Returned(c, TRUE) /\ Onward(c)
  BY ReturnShape DEF AddCallback, Base
<1>6. /\ lock = None /\ lock' = lock /\ raced' = raced
      /\ UNCHANGED <<lock, sock, diskVars, boot, ghosts>>
  BY DEF AddCallback, ghosts
<1>7. \A d \in Tasks : ~Adds(d, u)'
  <2>1. ~Adds(c, u)'
    BY <1>5, ReturnedTop DEF Adds, At, Waits
  <2>2. \A d \in Tasks \ {c} : Adds(d, u)' => Adds(d, u)
    BY <1>5 DEF Returned, Same, Adds, At, Top
  <2> QED
    BY <1>4, <2>1, <2>2 DEF Base, Counts
<1>8. /\ workers' \in [Names -> Worker \cup {None}] /\ NoMoreCallbacks
  <2>1. CASE workers[n] = None
    <3>1. workers' = workers
      BY <1>2, <1>3, <2>1 DEF AddCallback, WithCallback
    <3> QED
      BY <3>1 DEF NoMoreCallbacks, Base, Mem
  <2>2. CASE workers[n] # None
    <3>1. /\ workers[n] \in Worker /\ workers[n].cbs \in [Uuids -> 0 .. 2]
          /\ workers[n].cbs[u] <= 1
      BY <1>4, <2>2 DEF Base, Mem, Counts, Worker
    <3>2. PICK k : k = [workers[n].cbs EXCEPT ![u] = @ + 1]
      OBVIOUS
    <3>3. k \in [Uuids -> 0 .. 2] /\ \A v \in Uuids \ {u} : k[v] = workers[n].cbs[v]
      BY <3>1, <3>2
    <3>4. PICK w : w = [workers[n] EXCEPT !.cbs = k]
      OBVIOUS
    <3>5. w \in Worker /\ w.cbs = k
      BY <3>1, <3>3, <3>4 DEF Worker
    <3>6. workers' = [workers EXCEPT ![n] = w]
      BY <1>2, <1>3, <2>2, <3>2, <3>4 DEF AddCallback, WithCallback
    <3>7. workers' \in [Names -> Worker \cup {None}]
      BY <3>5, <3>6 DEF Base, Mem
    <3>8. NoMoreCallbacks
      <4> SUFFICES ASSUME NEW m \in Names, workers'[m] # None, NEW v \in Uuids, v # u
                   PROVE  workers[m] # None /\ workers'[m].cbs[v] = workers[m].cbs[v]
        BY <1>7 DEF NoMoreCallbacks
      <4> QED
        BY <2>2, <3>3, <3>5, <3>6 DEF Base, Mem
    <3> QED
      BY <3>7, <3>8
  <2> QED
    BY <2>1, <2>2
<1>9. Mem'
  BY <1>6, <1>8 DEF Base, Mem, diskVars, ghosts
<1>10. Return(c, TRUE)
  BY DEF AddCallback
<1>11. Base'
  BY <1>1, <1>6, <1>8, <1>9, <1>10, ReturnBase
<1> QED
  BY <1>1, <1>2, <1>4, <1>5, <1>11

\* delete_callback tells every worker.
LEMMA DeleteCallbackBase ==
    ASSUME Base, NEW c \in Tasks, DeleteCallback(c)
    PROVE  /\ Base' /\ Onward(c) /\ Returned(c, TRUE) /\ Deletes(c, Top(c).arg)
           /\ Top(c).arg \in Uuids /\ Subject(c) \in Names
           /\ \A n \in Names : workers'[n] # None =>
                /\ workers[n] # None
                /\ \A u \in Uuids : workers'[n].cbs[u] =
                     IF u = Top(c).arg THEN 0 ELSE workers[n].cbs[u]
<1>1. /\ stack[c] # <<>> /\ Top(c).op = "delete_callback" /\ Top(c).pc = "worker"
      /\ Top(c) \in Calls /\ CallOK(c, Top(c)) /\ Subject(c) \in Names
  BY AtCall DEF DeleteCallback
<1>2. PICK u \in Uuids : u = Top(c).arg
  BY <1>1 DEF CallOK
<1>3. Deletes(c, u)
  BY <1>2 DEF DeleteCallback, Deletes
<1>4. Returned(c, TRUE) /\ Onward(c)
  BY ReturnShape DEF DeleteCallback, Base
<1>5. /\ lock = None /\ lock' = lock /\ raced' = raced
      /\ UNCHANGED <<lock, sock, diskVars, boot, ghosts>>
  BY DEF DeleteCallback, ghosts
<1>6. ASSUME NEW n \in Names
      PROVE  /\ workers'[n] \in Worker \cup {None}
             /\ workers'[n] # None =>
                  /\ workers[n] # None
                  /\ \A v \in Uuids : workers'[n].cbs[v] =
                       IF v = u THEN 0 ELSE workers[n].cbs[v]
  <2>1. CASE workers[n] = None
    <3>1. workers'[n] = None
      BY <2>1 DEF DeleteCallback
    <3> QED
      BY <2>1, <3>1
  <2>2. CASE workers[n] # None
    <3>1. workers[n] \in Worker /\ workers[n].cbs \in [Uuids -> 0 .. 2]
      BY <2>2 DEF Base, Mem, Worker
    <3>2. PICK k : k = [workers[n].cbs EXCEPT ![u] = 0]
      OBVIOUS
    <3>3. /\ k \in [Uuids -> 0 .. 2]
          /\ \A v \in Uuids : k[v] = IF v = u THEN 0 ELSE workers[n].cbs[v]
      BY <3>1, <3>2
    <3>4. PICK w : w = [workers[n] EXCEPT !.cbs = k]
      OBVIOUS
    <3>5. w \in Worker /\ w.cbs = k
      BY <3>1, <3>3, <3>4 DEF Worker
    <3>6. workers'[n] = w
      BY <1>2, <2>2, <3>2, <3>4 DEF DeleteCallback
    <3> QED
      BY <2>2, <3>3, <3>5, <3>6
  <2> QED
    BY <2>1, <2>2
<1>7. workers' \in [Names -> Worker \cup {None}]
  BY <1>6 DEF DeleteCallback
<1>8. NoMoreCallbacks
  BY <1>6 DEF NoMoreCallbacks
<1>9. Mem'
  BY <1>5, <1>7 DEF Base, Mem, diskVars, ghosts
<1>10. Return(c, TRUE)
  BY DEF DeleteCallback
<1>11. Base'
  BY <1>1, <1>5, <1>8, <1>9, <1>10, ReturnBase
<1> QED
  BY <1>1, <1>2, <1>3, <1>4, <1>6, <1>11

\* An update stops the playbook and starts the new version;
LEMMA UpdateStopBase ==
    ASSUME Base, UpdateStop
    PROVE  /\ Base'
           /\ \E f, g \in Calls :
                /\ Called(Daemon, f, g) /\ f.op = "start" /\ f.pc = "begin" /\ g.op = "update"
                /\ f.name = Subject(Daemon) /\ g.name = Subject(Daemon) /\ g.pc = "started"
           /\ lock = None /\ Subject(Daemon) \in Names /\ Onto(Daemon, Subject(Daemon))
           /\ Top(Daemon).op = "update" /\ stack[Daemon] # <<>>
<1>1. /\ stack[Daemon] # <<>> /\ Top(Daemon).op = "update" /\ Top(Daemon).pc = "stop"
      /\ Top(Daemon) \in Calls /\ CallOK(Daemon, Top(Daemon)) /\ Subject(Daemon) \in Names
      /\ Daemon \in Tasks
  BY AtCall DEF UpdateStop, Tasks
<1>2. PICK n \in Names : n = Subject(Daemon)
  BY <1>1
<1>3. PICK f : f = StartFrame(n, Top(Daemon).arg, Top(Daemon).path, 1)
  OBVIOUS
<1>4. f \in Calls /\ CallOK(Daemon, f) /\ f.op = "start" /\ f.pc = "begin" /\ f.name = n
  <2>1. PICK a \in Addrs \cup {None} : a = Top(Daemon).arg
    BY <1>1 DEF CallOK
  <2>2. PICK p \in BOOLEAN : p = Top(Daemon).path
    BY <1>1 DEF Calls
  <2>3. 1 \in Versions
    BY DEF Versions
  <2>4. f = [op |-> "start", name |-> n, pc |-> "begin", arg |-> a, path |-> p, ver |-> 1,
             worker |-> None, ok |-> FALSE]
    BY <1>3, <2>1, <2>2 DEF StartFrame, Frame
  <2> QED
    BY <1>1, <2>3, <2>4, StartFrameOK
<1>5. Mem' /\ lock' = lock /\ lock = None /\ raced' = Raced(Daemon, n)
  <2>1. db' \in [Names -> Row \cup {None}]
    BY <1>1, <1>2 DEF UpdateStop, StoppedRow, WithStatus, Row, Base, Mem
  <2>2. workers' \in [Names -> Worker \cup {None}] /\ sock' \in [Names -> WorkerIds \cup {None}]
    BY <1>1, <1>2 DEF UpdateStop, TakeOut, SocketAfterShutdown, Base, Mem
  <2>3. raced' \subseteq Names /\ updated' \subseteq Names
    BY <1>1, <1>2 DEF UpdateStop, Raced, Base, Mem
  <2>4. wanted' \in [Names -> {"any", "run", "stop", "gone"}]
    BY <1>1, <1>2 DEF UpdateStop, Base, Mem
  <2> QED
    BY <1>2, <2>1, <2>2, <2>3, <2>4 DEF UpdateStop, Base, Mem
<1>6. NoMoreCallbacks
  BY <1>1 DEF UpdateStop, TakeOut, NoMoreCallbacks, Base, Mem
<1>7. Call(Daemon, f, "started")
  BY <1>2, <1>3 DEF UpdateStop
<1>8. /\ "started" \in Waits /\ "started" \in Pcs /\ <<Top(Daemon).op, "started">> \in Places
      /\ "started" \notin Built /\ Top(Daemon).pc \notin Built
  BY <1>1 DEF Waits, Pcs, Places, Built
<1>9. PICK g : g = [Top(Daemon) EXCEPT !.pc = "started"]
  OBVIOUS
<1>10. g \in Calls /\ CallOK(Daemon, g)
  BY <1>1, <1>8, <1>9, Goes
<1>11. g.op = "update" /\ g.name = n /\ g.pc = "started"
  BY <1>1, <1>2, <1>8, <1>9, Marked DEF Subject
<1>12. Base' /\ Called(Daemon, f, g)
  BY <1>1, <1>2, <1>4, <1>5, <1>6, <1>7, <1>8, <1>9, <1>10, CallBase
<1>13. Onto(Daemon, n)
  BY <1>1, <1>2, <1>4, <1>7, <1>8, <1>9, <1>10, CallShape DEF Base, Subject
<1> QED
  BY <1>1, <1>2, <1>4, <1>5, <1>10, <1>11, <1>12, <1>13

\* when that fails, it starts the old one;
LEMMA UpdateStartedBase ==
    ASSUME Base, UpdateStarted
    PROVE  /\ Base' /\ Onward(Daemon) /\ Top(Daemon).op = "update" /\ stack[Daemon] # <<>>
           /\ \/ Returned(Daemon, TRUE)
              \/ \E f, g \in Calls :
                   /\ Called(Daemon, f, g) /\ f.op = "start" /\ f.pc = "begin"
                   /\ f.name \in Names /\ g.op = "update" /\ g.pc = "rolled_back"
<1>1. /\ stack[Daemon] # <<>> /\ Top(Daemon).op = "update" /\ Top(Daemon).pc = "started"
      /\ Top(Daemon) \in Calls /\ CallOK(Daemon, Top(Daemon)) /\ Subject(Daemon) \in Names
      /\ Daemon \in Tasks
  BY AtCall DEF UpdateStarted, Tasks
<1>2. Mem' /\ lock' = lock /\ raced' = raced /\ workers' = workers
  BY Unchanged DEF UpdateStarted, Base, memVars, ghosts
<1>3. CASE Return(Daemon, TRUE)
  BY <1>1, <1>2, <1>3, ReturnBase
<1>4. CASE Call(Daemon, StartFrame(Top(Daemon).name, Top(Daemon).arg, Top(Daemon).path, 0), "rolled_back")
  <2>1. PICK n \in Names : n = Top(Daemon).name
    BY <1>1 DEF Subject
  <2>2. PICK a \in Addrs \cup {None} : a = Top(Daemon).arg
    BY <1>1 DEF CallOK
  <2>3. PICK p \in BOOLEAN : p = Top(Daemon).path
    BY <1>1 DEF Calls
  <2>4. 0 \in Versions
    BY DEF Versions
  <2>5. PICK f : f = StartFrame(n, a, p, 0)
    OBVIOUS
  <2>6. f = [op |-> "start", name |-> n, pc |-> "begin", arg |-> a, path |-> p, ver |-> 0,
             worker |-> None, ok |-> FALSE]
    BY <2>5 DEF StartFrame, Frame
  <2>7. f \in Calls /\ CallOK(Daemon, f) /\ f.op = "start" /\ f.pc = "begin" /\ f.name = n
    BY <1>1, <2>4, <2>6, StartFrameOK
  <2>8. Call(Daemon, f, "rolled_back")
    BY <1>4, <2>1, <2>2, <2>3, <2>5
  <2>9. /\ "rolled_back" \in Waits /\ "rolled_back" \in Pcs
        /\ <<Top(Daemon).op, "rolled_back">> \in Places
        /\ "rolled_back" \notin Built /\ Top(Daemon).pc \notin Built
    BY <1>1 DEF Waits, Pcs, Places, Built
  <2>10. PICK g : g = [Top(Daemon) EXCEPT !.pc = "rolled_back"]
    OBVIOUS
  <2>11. g \in Calls /\ CallOK(Daemon, g)
    BY <1>1, <2>9, <2>10, Goes
  <2>12. g.op = "update" /\ g.pc = "rolled_back"
    BY <1>1, <2>9, <2>10, Marked
  <2>13. Base' /\ Called(Daemon, f, g)
    BY <1>1, <1>2, <2>7, <2>8, <2>9, <2>10, <2>11, CallBase
  <2>14. Onward(Daemon)
    BY <1>1, <2>7, <2>8, <2>9, <2>10, <2>11, CallShape DEF Base
  <2> QED
    BY <1>1, <2>7, <2>11, <2>12, <2>13, <2>14
<1> QED
  BY <1>3, <1>4 DEF UpdateStarted

\* and ends with the result of that.
LEMMA UpdateRolledBackBase ==
    ASSUME Base, UpdateRolledBack
    PROVE  /\ Base' /\ Onward(Daemon) /\ \E b \in BOOLEAN : Returned(Daemon, b)
           /\ Top(Daemon).op = "update" /\ stack[Daemon] # <<>>
<1>1. /\ stack[Daemon] # <<>> /\ Top(Daemon).op = "update" /\ Top(Daemon).pc = "rolled_back"
      /\ Top(Daemon) \in Calls /\ Daemon \in Tasks
  BY AtCall DEF UpdateRolledBack, Tasks
<1>2. Mem' /\ lock' = lock /\ raced' = raced /\ workers' = workers
  BY Unchanged DEF UpdateRolledBack, Base, memVars, ghosts
<1>3. PICK b \in BOOLEAN : b = Top(Daemon).ok
  BY <1>1 DEF Calls
<1>4. Return(Daemon, b)
  BY <1>3 DEF UpdateRolledBack
<1>5. Base' /\ Returned(Daemon, b) /\ Onward(Daemon)
  BY <1>1, <1>2, <1>4, ReturnBase
<1> QED
  BY <1>1, <1>5

\* The frames of the daemon's start
LEMMA BootFrameOK == BootFrame \in Calls /\ CallOK(Daemon, BootFrame) /\ BootFrame.op = "boot"
                     /\ BootFrame.pc = "next" /\ BootFrame.name = None
<1>1. PICK f : f = BootFrame
  OBVIOUS
<1>2. f = [op |-> "boot", name |-> None, pc |-> "next", arg |-> None, path |-> FALSE,
           ver |-> 0, worker |-> None, ok |-> FALSE]
  BY <1>1 DEF BootFrame, Frame
<1>3. f \in Calls
  BY <1>2 DEF Calls, Ops, Pcs, Versions
<1>4. f.op = "boot" /\ f.pc = "next" /\ f.name = None /\ f.worker = None /\ Daemon \in Tasks
  BY <1>2 DEF Tasks
<1> QED
  BY <1>1, <1>3, <1>4 DEF CallOK, Places, Built

\* The daemon notes how a resume ended.
LEMMA BootResumedBase ==
    ASSUME Base, BootResumed
    PROVE  Base' /\ Onward(Daemon) /\ Turns(Daemon, BootFrame) /\ Top(Daemon).op = "boot"
           /\ stack[Daemon] # <<>>
<1>1. /\ stack[Daemon] # <<>> /\ Top(Daemon).op = "boot" /\ Top(Daemon).pc = "resumed"
      /\ Top(Daemon) \in Calls /\ CallOK(Daemon, Top(Daemon)) /\ Daemon \in Tasks
  BY AtCall DEF BootResumed, Tasks
<1>2. Top(Daemon).name \in Names
  BY <1>1 DEF CallOK
<1>3. Mem' /\ lock' = lock /\ raced' = raced /\ workers' = workers
  <2>1. boot' \in [todo : SUBSET Names, failed : SUBSET Names, won : BOOLEAN]
    BY <1>2 DEF BootResumed, Base, Mem
  <2> QED
    BY <2>1 DEF BootResumed, Base, Mem, memVars, diskVars, ghosts
<1>4. Become(Daemon, BootFrame)
  BY DEF BootResumed
<1> QED
  BY <1>1, <1>3, <1>4, BootFrameOK, TurnBase

\* It makes another pass, or serves.
LEMMA BootPassBase ==
    ASSUME Base, BootPass
    PROVE  /\ Base' /\ Onward(Daemon) /\ Top(Daemon).op = "boot" /\ stack[Daemon] # <<>>
           /\ stack' = stack \/ Returned(Daemon, TRUE)
<1>1. /\ stack[Daemon] # <<>> /\ Top(Daemon).op = "boot" /\ Top(Daemon).pc = "next"
      /\ Daemon \in Tasks
  BY AtCall DEF BootPass, Tasks
<1>2. Mem' /\ lock' = lock /\ raced' = raced /\ workers' = workers
  <2>1. boot' \in [todo : SUBSET Names, failed : SUBSET Names, won : BOOLEAN]
    BY DEF BootPass, Base, Mem
  <2> QED
    BY <2>1 DEF BootPass, Base, Mem, memVars, diskVars, ghosts
<1>3. CASE Return(Daemon, TRUE)
  BY <1>1, <1>2, <1>3, ReturnBase
<1>4. CASE stack' = stack
  <2>1. Onto(Daemon, None) /\ Stacks' /\ Top(Daemon)' = Top(Daemon)
    BY <1>4 DEF Onto, Same, OnIt, Begun, Stacks, Base, Top
  <2>2. Base'
    BY <1>1, <1>2, <2>1, NoneNoName, BaseKept
  <2> QED
    BY <1>1, <1>4, <2>1, <2>2 DEF Onward
<1> QED
  BY <1>3, <1>4 DEF BootPass

\* A stack of the daemon's own making
LEMMA OneCall ==
    ASSUME NEW f \in Calls, NEW c, CallOK(c, f), f.pc # "begin"
    PROVE  /\ <<f>> \in Seq(Calls) /\ StackOK(c, <<f>>) /\ <<f>> # <<>>
           /\ Head(<<f>>) = f /\ Range(<<f>>) = {f}
<1>1. <<f>> \in Seq(Calls) /\ Len(<<f>>) = 1 /\ <<f>>[1] = f /\ <<f>> # <<>> /\ Head(<<f>>) = f
  OBVIOUS
<1>2. Range(<<f>>) = {f} /\ Tail(<<f>>) = <<>>
  <2>1. \A x : x \in Range(<<f>>) <=> x = f
    BY <1>1 DEF Range
  <2> QED
    BY <2>1
<1>3. Range(<<>>) = {}
  BY DEF Range
<1>4. \A i, j \in 1..Len(<<f>>) : ~(i < j)
  BY <1>1
<1> QED
  BY <1>1, <1>2, <1>3, <1>4 DEF StackOK, Begins

\* A stack of two calls
LEMMA TwoCalls ==
    ASSUME NEW f \in Calls, NEW g \in Calls, NEW c, CallOK(c, f), CallOK(c, g),
           Begins(f), g.pc \in Waits, f.op = "resume" => g.op = "boot"
    PROVE  /\ <<f, g>> \in Seq(Calls) /\ StackOK(c, <<f, g>>) /\ <<f, g>> # <<>>
           /\ Head(<<f, g>>) = f /\ Range(<<f, g>>) = {f, g}
<1>1. /\ <<f, g>> \in Seq(Calls) /\ Len(<<f, g>>) = 2 /\ <<f, g>>[1] = f /\ <<f, g>>[2] = g
      /\ <<f, g>> # <<>> /\ Head(<<f, g>>) = f /\ Tail(<<f, g>>) = <<g>>
  OBVIOUS
<1>2. g.pc # "begin"
  BY DEF Waits
<1>3. Range(<<g>>) = {g}
  BY <1>2, OneCall
<1>4. Range(<<f, g>>) = {f, g}
  <2>1. PICK s : s = <<f, g>>
    OBVIOUS
  <2>2. s \in Seq(Calls) /\ s # <<>> /\ Head(s) = f /\ Tail(s) = <<g>>
    BY <1>1, <2>1
  <2>3. Range(s) = {f} \cup Range(<<g>>)
    BY <2>2, SplitCall
  <2> QED
    BY <1>3, <2>1, <2>3
<1>5. \A i, j \in 1..Len(<<f, g>>) : i < j => i = 1 /\ j = 2
  BY <1>1
<1> QED
  BY <1>1, <1>2, <1>3, <1>4, <1>5 DEF StackOK, Begins

\* At the start of the daemon no client has a call.
LEMMA BootResumeBase ==
    ASSUME Base, BootResume
    PROVE  /\ Base' /\ Top(Daemon).op = "boot" /\ stack[Daemon] # <<>>
           /\ Same(Daemon) /\ \A c \in Clients : stack[c] = <<>>
           /\ \E f, g \in Calls :
                /\ stack'[Daemon] = <<f, g>> /\ stack'[Daemon] # <<>> /\ Top(Daemon)' = f
                /\ Range(stack'[Daemon]) = {f, g}
                /\ f.op = "resume" /\ f.pc = "begin" /\ g.op = "boot" /\ g.pc = "resumed"
<1>1. /\ stack[Daemon] # <<>> /\ Top(Daemon).op = "boot" /\ Top(Daemon).pc = "next"
      /\ Top(Daemon) \in Calls /\ CallOK(Daemon, Top(Daemon)) /\ Daemon \in Tasks
      /\ Range(stack[Daemon]) = {Top(Daemon)} \cup Range(Under(Daemon))
  BY AtCall DEF BootResume, Tasks
<1>2. PICK n \in boot.todo :
        /\ boot' = [boot EXCEPT !.todo = @ \ {n}]
        /\ stack' = [stack EXCEPT ![Daemon] =
             <<Frame("resume", n, None), [Top(Daemon) EXCEPT !.name = n, !.pc = "resumed"]>>]
        /\ UNCHANGED <<memVars, diskVars, ghosts>>
  BY DEF BootResume
<1>3. n \in Names
  BY <1>2 DEF Base, Mem
<1>4. PICK f : f = Frame("resume", n, None)
  OBVIOUS
<1>5. PICK g : g = [Top(Daemon) EXCEPT !.name = n, !.pc = "resumed"]
  OBVIOUS
<1>6. /\ f \in Calls /\ CallOK(Daemon, f) /\ f.op = "resume" /\ f.pc = "begin"
  <2>1. f = [op |-> "resume", name |-> n, pc |-> "begin", arg |-> None, path |-> FALSE,
             ver |-> 0, worker |-> None, ok |-> FALSE]
    BY <1>4 DEF Frame
  <2>2. f \in Calls
    BY <1>3, <2>1 DEF Calls, Ops, Pcs, Versions
  <2>3. /\ f.op = "resume" /\ f.pc = "begin" /\ f.name = n /\ f.arg = None /\ f.worker = None
    BY <2>1
  <2> QED
    BY <1>3, <2>2, <2>3 DEF CallOK, Places, Built
<1>7. /\ g \in Calls /\ CallOK(Daemon, g) /\ g.op = "boot" /\ g.pc = "resumed"
  <2>1. "resumed" \in Pcs
    BY DEF Pcs
  <2>2. /\ g \in Calls /\ g.op = "boot" /\ g.pc = "resumed" /\ g.name = n
        /\ g.arg = Top(Daemon).arg /\ g.worker = Top(Daemon).worker
    BY <1>1, <1>3, <1>5, <2>1 DEF Calls
  <2>3. g.worker = None
    BY <1>1, <2>2 DEF CallOK, Built
  <2> QED
    BY <1>3, <2>2, <2>3 DEF CallOK, Places, Built
<1>8. /\ stack' \in [Tasks -> Seq(Calls)] /\ stack'[Daemon] = <<f, g>> /\ Same(Daemon)
      /\ StackOK(Daemon, stack'[Daemon]) /\ stack'[Daemon] # <<>> /\ Top(Daemon)' = f
      /\ Range(stack'[Daemon]) = {f, g}
  <2>1. /\ <<f, g>> \in Seq(Calls) /\ StackOK(Daemon, <<f, g>>) /\ <<f, g>> # <<>>
        /\ Head(<<f, g>>) = f /\ Range(<<f, g>>) = {f, g}
    BY <1>6, <1>7, TwoCalls DEF Begins, Waits
  <2>2. stack' \in [Tasks -> Seq(Calls)] /\ stack'[Daemon] = <<f, g>> /\ Same(Daemon)
    BY <1>1, <1>2, <1>4, <1>5, <2>1 DEF Base, Stacks, Same
  <2> QED
    BY <2>1, <2>2 DEF Top
<1>9. Stacks'
  BY <1>8 DEF Base, Stacks, Same
<1>10. \A c \in Clients : stack[c] = <<>> /\ stack'[c] = <<>>
  <2>1. ~Serving
    BY <1>1 DEF Serving
  <2> QED
    BY <1>8, <2>1, NamesAssumption DEF Base, Booting, Same, Tasks
<1>11. Mem'
  <2>1. boot' \in [todo : SUBSET Names, failed : SUBSET Names, won : BOOLEAN]
    BY <1>2 DEF Base, Mem
  <2> QED
    BY <1>2, <2>1 DEF Base, Mem, memVars, diskVars, ghosts
<1>12. Alone'
  <2>1. \A c \in Clients, n_1 \in Names : ~OnIt(c, n_1)'
    BY <1>10 DEF OnIt, Begun, Range
  <2> QED
    BY <2>1 DEF Alone, Tasks
<1>13. Locked'
  <2> SUFFICES ASSUME NEW d \in Tasks PROVE lock' # d /\ ~AtRmdir(d)'
    BY DEF Locked
  <2>1. ~AtRmdir(d)'
    BY <1>6, <1>8, <1>10 DEF AtRmdir, Tasks
  <2>2. ~AtRmdir(d)
    BY <1>1, <1>10 DEF AtRmdir, Tasks
  <2> QED
    BY <1>2, <2>1, <2>2 DEF Base, Locked, memVars
<1>14. Counts'
  <2>1. \A d \in Tasks, u \in Uuids : ~Adds(d, u)'
    BY <1>6, <1>8, <1>10 DEF Adds, At, Tasks
  <2> QED
    BY <2>1 DEF Counts
<1>15. Booting' /\ Base'
  BY <1>9, <1>10, <1>11, <1>12, <1>13, <1>14 DEF Base, Booting
<1> QED
  BY <1>1, <1>6, <1>7, <1>8, <1>10, <1>15

\* An update comes to a task that is idle; it takes the playbook up when it stops it.
LEMMA FindUpdateBase ==
    ASSUME Base, Listed, FindUpdate
    PROVE  /\ Base' /\ Onward(Daemon) /\ stack[Daemon] = <<>>
           /\ \E f \in Calls : Turns(Daemon, f) /\ f.op = "update" /\ f.pc = "stop" /\ f.name \in Names
<1>1. PICK n \in Names :
        /\ stack[Daemon] = <<>> /\ listed[n] # None
        /\ stack' = [stack EXCEPT ![Daemon] =
             <<[Frame("update", n, listed[n].http) EXCEPT !.pc = "stop", !.path = listed[n].path]>>]
        /\ UNCHANGED <<memVars, diskVars, boot, ghosts>>
  BY DEF FindUpdate
<1>2. PICK row \in Row : row = listed[n]
  BY <1>1 DEF Listed
<1>3. n \in Names /\ row.http \in Addrs \cup {None} /\ row.path \in BOOLEAN /\ Daemon \in Tasks
  BY <1>2 DEF Row, Tasks
<1>4. PICK f : f = [Frame("update", n, row.http) EXCEPT !.pc = "stop", !.path = row.path]
  OBVIOUS
<1>5. f = [op |-> "update", name |-> n, pc |-> "stop", arg |-> row.http, path |-> row.path,
           ver |-> 0, worker |-> None, ok |-> FALSE]
  BY <1>4 DEF Frame
<1>6. f \in Calls
  BY <1>3, <1>5 DEF Calls, Ops, Pcs, Versions
<1>7. /\ f.op = "update" /\ f.pc = "stop" /\ f.name = n /\ f.arg = row.http /\ f.worker = None
      /\ <<f.op, f.pc>> \in Places /\ f.pc \notin Built
  BY <1>5 DEF Places, Built
<1>8. CallOK(Daemon, f)
  BY <1>3, <1>7 DEF CallOK
<1>9. /\ <<f>> \in Seq(Calls) /\ StackOK(Daemon, <<f>>) /\ <<f>> # <<>>
      /\ Head(<<f>>) = f /\ Range(<<f>>) = {f}
  BY <1>6, <1>7, <1>8, OneCall
<1>10. /\ stack' \in [Tasks -> Seq(Calls)] /\ stack'[Daemon] = <<f>> /\ Same(Daemon)
  BY <1>1, <1>2, <1>3, <1>4, <1>9 DEF Base, Stacks, Same
<1>11. Stacks' /\ Top(Daemon)' = f /\ Turns(Daemon, f)
  <2>1. Stacks'
    BY <1>9, <1>10 DEF Base, Stacks, Same
  <2>2. Range(Under(Daemon)) = {} /\ Range(stack'[Daemon]) = {f} /\ Top(Daemon)' = f
    BY <1>1, <1>9, <1>10, IdleUnder DEF Top
  <2> QED
    BY <1>9, <1>10, <2>1, <2>2 DEF Turns
<1>12. Onto(Daemon, None)
  BY <1>7, <1>9, <1>10 DEF Onto, OnIt, Begun
<1>13. Mem' /\ lock' = lock /\ raced' = raced /\ workers' = workers
  BY <1>1, Unchanged DEF Base, memVars, ghosts
<1>14. Base'
  BY <1>1, <1>3, <1>7, <1>11, <1>12, <1>13, NoneNoName, BaseKept
<1> QED
  BY <1>1, <1>3, <1>6, <1>7, <1>11, <1>12, <1>14 DEF Onward

\* The daemon ends: only its own task goes on, with what is on disk.
LEMMA CrashBase ==
    ASSUME Base, Crash
    PROVE  /\ Base' /\ stack'[Daemon] # <<>> /\ Top(Daemon)' = BootFrame
           /\ Range(stack'[Daemon]) = {BootFrame}
           /\ \A c \in Clients : stack'[c] = <<>>
           /\ \A n \in Names : workers'[n] = None
<1>1. PICK f : f = BootFrame
  OBVIOUS
<1>2. /\ f \in Calls /\ CallOK(Daemon, f) /\ f.op = "boot" /\ f.pc = "next"
  BY <1>1, BootFrameOK
<1>3. /\ <<f>> \in Seq(Calls) /\ StackOK(Daemon, <<f>>) /\ <<f>> # <<>>
      /\ Head(<<f>>) = f /\ Range(<<f>>) = {f}
  BY <1>2, OneCall
<1>4. /\ <<>> \in Seq(Calls) /\ \A c : StackOK(c, <<>>)
  BY DEF StackOK, Range
<1>5. /\ stack' \in [Tasks -> Seq(Calls)] /\ stack'[Daemon] = <<f>>
      /\ \A c \in Clients : stack'[c] = <<>>
  <2>1. stack' = [c \in Tasks |-> IF c = Daemon THEN <<f>> ELSE <<>>] /\ Daemon \in Tasks
    BY <1>1 DEF Crash, Tasks
  <2> QED
    BY <2>1, <1>3, <1>4, NamesAssumption DEF Tasks
<1>6. Stacks' /\ Top(Daemon)' = f /\ Range(stack'[Daemon]) = {f} /\ stack'[Daemon] # <<>>
  BY <1>3, <1>4, <1>5 DEF Stacks, Top, Tasks
<1>7. Booting'
  BY <1>5 DEF Booting
<1>8. Alone'
  <2>1. \A c \in Clients, n \in Names : ~OnIt(c, n)'
    BY <1>5 DEF OnIt, Begun, Range
  <2> QED
    BY <2>1 DEF Alone, Tasks
<1>9. Locked'
  <2> SUFFICES ASSUME NEW d \in Tasks PROVE lock' # d /\ ~AtRmdir(d)'
    BY DEF Locked
  <2>1. ~AtRmdir(d)'
    BY <1>2, <1>5, <1>6 DEF AtRmdir, Tasks
  <2>2. lock' # d
    BY TasksFinite DEF Crash
  <2> QED
    BY <2>1, <2>2
<1>10. Counts'
  <2>1. \A d \in Tasks, u \in Uuids : ~Adds(d, u)'
    BY <1>2, <1>5, <1>6 DEF Adds, At, Tasks
  <2> QED
    BY <2>1 DEF Counts
<1>11. workers' \in [Names -> {None}]
  BY DEF Crash
<1>12. Mem'
  <2>1. boot' \in [todo : SUBSET Names, failed : SUBSET Names, won : BOOLEAN]
    BY DEF Crash, ListRows
  <2> QED
    BY <1>11, <2>1 DEF Crash, Base, Mem, diskVars, ghosts
<1> QED
  BY <1>1, <1>5, <1>6, <1>7, <1>8, <1>9, <1>10, <1>11, <1>12 DEF Base

\* Nothing happens, or the daemon only lists the rows.
Waiting == UNCHANGED <<memVars, diskVars, stack, boot, ghosts, faults>>

LEMMA Waited == ASSUME ListUpdates \/ UNCHANGED vars PROVE Waiting
  BY DEF ListUpdates, vars, counts, Waiting

LEMMA IdleBase == ASSUME Base, Waiting PROVE Base'
<1>1. Stacks' /\ Mem' /\ Booting' /\ Alone'
  BY DEF Base, Waiting, memVars, diskVars, ghosts, Stacks, Mem, Booting, Serving, Alone, OnIt, Begun
<1>2. Locked' /\ Counts'
  BY DEF Base, Waiting, memVars, diskVars, ghosts, Locked, AtRmdir, Subject, Top, Counts, Adds, At
<1> QED
  BY <1>1, <1>2 DEF Base

\* Base holds at the beginning.
LEMMA InitBase == Init => Base
<1> SUFFICES ASSUME Init PROVE Base
  OBVIOUS
<1>1. /\ <<>> \in Seq(Calls) /\ \A c : StackOK(c, <<>>)
  BY DEF StackOK, Range
<1>2. \A c \in Tasks : stack[c] = <<>>
  BY DEF Init
<1>3. Stacks
  BY <1>1, <1>2 DEF Stacks, Init
<1>4. Mem
  <2>1. boot \in [todo : SUBSET Names, failed : SUBSET Names, won : BOOLEAN]
    BY DEF Init
  <2> QED
    BY <2>1 DEF Init, Mem
<1>5. Booting /\ Alone /\ Counts
  BY <1>2 DEF Booting, Tasks, Alone, OnIt, Begun, Range, Counts, Adds, At
<1>6. Locked
  BY <1>2, TasksFinite DEF Init, Locked, AtRmdir
<1> QED
  BY <1>3, <1>4, <1>5, <1>6 DEF Base

\* Every step keeps Base.
LEMMA StepBase == ASSUME Base, Listed, [Next]_vars PROVE Base'
<1>1. ASSUME NEW c \in Tasks, StartStep(c) \/ ResumeStep(c) PROVE Base'
  BY <1>1, StartGetRowBase, MakeDirsBase, SavePlaybookBase, StartInsertBase,
     ResumeGetRowBase, ResumeStatusBase, ResumeInsertBase, ResumeConflictBase
     DEF StartStep, ResumeStep
<1>2. ASSUME NEW c \in Tasks, WorkerStep(c) PROVE Base'
  BY <1>2, CheckNotRunningBase, FindInterconnectBase, InterconnectStartedBase, StartWorkerBase,
     LoadFailsBase, ListenFailsBase, RegisterCallbacksBase DEF WorkerStep
<1>3. ASSUME NEW c \in Tasks, ChangeStep(c) PROVE Base'
  BY <1>3, StopPlaybookBase, DeletePlaybookBase, RemoveDirBase, SetHttpAddressBase,
     SetHttpFailsBase, SaveCallbackBase, AddCallbackBase, ForgetCallbackBase, DeleteCallbackBase
     DEF ChangeStep
<1>4. ASSUME DaemonStep PROVE Base'
  BY <1>4, UpdateStopBase, UpdateStartedBase, UpdateRolledBackBase, BootResumeBase,
     BootResumedBase, BootPassBase DEF DaemonStep
<1>5. CASE FindUpdate
  BY <1>5, FindUpdateBase
<1>6. CASE Crash
  BY <1>6, CrashBase
<1>7. CASE ListUpdates \/ UNCHANGED vars
  BY <1>7, Waited, IdleBase
<1> QED
  BY <1>1, <1>2, <1>3, <1>4, <1>5, <1>6, <1>7 DEF Next, TaskStep, Idle

\* The list is one of rows after every step.
LEMMA StepListed == ASSUME Base, Listed, [Next]_vars PROVE Listed'
<1>1. ASSUME NEW c \in Tasks, StartStep(c) \/ ResumeStep(c) \/ WorkerStep(c) PROVE listed' = listed
  BY <1>1 DEF StartStep, ResumeStep, WorkerStep, StartGetRow, MakeDirs, SavePlaybook, StartInsert,
     ResumeGetRow, ResumeStatus, ResumeInsert, ResumeConflict, CheckNotRunning, FindInterconnect,
     InterconnectStarted, StartWorker, LoadFails, ListenFails, RegisterCallbacks
<1>2. ASSUME NEW c \in Tasks, ChangeStep(c) PROVE listed' = listed
  BY <1>2 DEF ChangeStep, StopPlaybook, DeletePlaybook, RemoveDir, SetHttpAddress, SetHttpFails,
     SaveCallback, AddCallback, ForgetCallback, DeleteCallback
<1>3. ASSUME DaemonStep \/ UNCHANGED vars PROVE listed' = listed
  BY <1>3 DEF DaemonStep, UpdateStop, UpdateStarted, UpdateRolledBack, BootResume, BootResumed,
     BootPass, vars
<1>4. CASE ListUpdates
  <2>1. PICK found \in SUBSET ListRows :
          listed' = [n \in Names |-> IF n \in found THEN db[n] ELSE None]
    BY <1>4 DEF ListUpdates
  <2> QED
    BY <2>1 DEF Listed, ListRows, Base, Mem
<1>5. CASE FindUpdate \/ Crash
  BY <1>5 DEF FindUpdate, Crash, NothingListed, Listed
<1>6. CASE listed' = listed
  BY <1>6 DEF Listed
<1> QED
  BY <1>1, <1>2, <1>3, <1>4, <1>5, <1>6 DEF Next, TaskStep, Idle

\* Both are invariants.
LEMMA BaseInvariant == Spec => [](Base /\ Listed)
<1>1. Base /\ Listed /\ [Next]_vars => Base' /\ Listed'
  BY StepBase, StepListed
<1>2. Init => Listed
  BY DEF Init, NothingListed, Listed
<1> QED
  BY <1>1, <1>2, InitBase, PTL DEF Spec

-----------------------------------------------------------------------------
(* The type invariant *)

\* Every variable keeps its type, whatever requests, updates and ends of the daemon overlap.
THEOREM TypeCorrect == Spec => []TypeOK
<1>1. Base /\ Listed => TypeOK
  <2> SUFFICES ASSUME Base, Listed PROVE TypeOK
    OBVIOUS
  <2>1. ASSUME NEW c \in Tasks, NEW f \in Range(stack[c]) PROVE f \in Calls
    <3>1. stack[c] # <<>>
      BY <2>1 DEF Range
    <3> QED
      BY <2>1, <3>1, Peek DEF Base
  <2>2. \A c \in Tasks : \A f \in Range(stack[c]) :
          /\ f.op \in Ops /\ f.name \in Names \cup {None}
          /\ f.worker \in Worker \cup {None} /\ f.ok \in BOOLEAN
    BY <2>1 DEF Calls
  <2>3. boot.todo \subseteq Names /\ boot.failed \subseteq Names
    BY DEF Base, Mem
  <2> QED
    BY <2>2, <2>3 DEF Base, Mem, Listed, TypeOK
<1> QED
  BY <1>1, BaseInvariant, PTL

-----------------------------------------------------------------------------
(* No directory is removed under a worker *)

\* Only delete_playbook removes a directory, and the lock it holds since it took the worker out
\* keeps every other task from putting one there.
LEMMA StepDirs ==
    ASSUME Base, [Next]_vars
    PROVE  \A n \in Names : n \in dir /\ n \notin dir' => workers[n] = None
<1>1. ASSUME NEW c \in Tasks, StartStep(c) \/ ResumeStep(c) \/ WorkerStep(c) PROVE dir \subseteq dir'
  BY <1>1 DEF StartStep, ResumeStep, WorkerStep, StartGetRow, MakeDirs, SavePlaybook, StartInsert,
     ResumeGetRow, ResumeStatus, ResumeInsert, ResumeConflict, CheckNotRunning, FindInterconnect,
     InterconnectStarted, StartWorker, LoadFails, ListenFails, RegisterCallbacks, diskVars
<1>2. ASSUME NEW c \in Tasks, ChangeStep(c), ~RemoveDir(c) PROVE dir' = dir
  BY <1>2 DEF ChangeStep, StopPlaybook, DeletePlaybook, SetHttpAddress, SetHttpFails, SaveCallback,
     AddCallback, ForgetCallback, DeleteCallback, diskVars
<1>3. ASSUME DaemonStep \/ ListUpdates \/ FindUpdate \/ Crash \/ UNCHANGED vars PROVE dir' = dir
  BY <1>3 DEF DaemonStep, UpdateStop, UpdateStarted, UpdateRolledBack, BootResume, BootResumed,
     BootPass, ListUpdates, FindUpdate, Crash, vars, diskVars
<1>4. ASSUME NEW c \in Tasks, RemoveDir(c)
      PROVE  \A n \in Names : n \in dir /\ n \notin dir' => workers[n] = None
  <2>1. AtRmdir(c)
    BY <1>4, AtCall DEF RemoveDir, AtRmdir
  <2>2. workers[Subject(c)] = None
    BY <2>1 DEF Base, Locked
  <2>3. dir' = dir \ {Subject(c)}
    BY <1>4 DEF RemoveDir
  <2> QED
    BY <2>2, <2>3
<1> QED
  BY <1>1, <1>2, <1>3, <1>4 DEF Next, TaskStep, Idle

\* No directory is removed under a worker of the map, for any number of clients: the lock of
\* delete_playbook is what it rests on.
THEOREM DirStays == Spec => RunningDirStays
<1>1. Base /\ [Next]_vars => [\A n \in Names : n \in dir /\ n \notin dir' => workers[n] = None]_vars
  BY StepDirs
<1> QED
  BY <1>1, BaseInvariant, PTL DEF Spec, RunningDirStays

-----------------------------------------------------------------------------
(* Callbacks *)

\* A worker that is about to enter the map calls what the database lists.
ReadyOK(c, m) ==
    /\ At(c, {"start", "resume"}, "record") \/ At(c, {"start", "resume"}, "insert")
    /\ Subject(c) = m /\ m \notin raced
    => Top(c).worker.cbs = CallbacksOf(m)

\* A callback that is being added is listed, and the worker has still to learn of it.
AddOK(c, u, m) ==
    Adds(c, u) /\ Subject(c) = m /\ m \notin raced =>
      cbs[u] = m /\ (workers[m] # None => workers[m].cbs[u] = 0)

\* One that is being deleted is not listed.
DeleteOK(c, u) == Deletes(c, u) => cbs[u] = None

\* A worker of the map and the database agree on a callback, or a request about it is under way.
Told(m, u) ==
    \/ workers[m].cbs[u] = CallbacksOf(m)[u]
    \/ \E c \in Tasks : (Adds(c, u) \/ Deletes(c, u)) /\ Subject(c) = m

Callbacks ==
    /\ \A c \in Tasks, m \in Names : ReadyOK(c, m)
    /\ \A c \in Tasks, u \in Uuids, m \in Names : AddOK(c, u, m)
    /\ \A c \in Tasks, u \in Uuids : DeleteOK(c, u)
    /\ \A m \in Names \ raced : workers[m] # None => \A u \in Uuids : Told(m, u)

\* A step leaves a worker as the task that makes it does not bring it news, ..
Untold(c, m, u) ==
    /\ workers[m] # None /\ workers'[m].cbs[u] = workers[m].cbs[u]
    /\ (Adds(c, u) \/ Deletes(c, u)) => Subject(c) # m

\* .. or brings it in line with the database.
Informed(c, m, u) ==
    /\ workers'[m].cbs[u] = CallbacksOf(m)'[u]
    /\ \A d \in Tasks \ {c} : Adds(d, u) /\ Subject(d) = m => workers'[m].cbs[u] = 0

\* What a step of task c has to show: n is the playbook it takes up, or None.
LEMMA CallbacksKept ==
    ASSUME Base, Callbacks, NEW c \in Tasks, Same(c), raced \subseteq raced',
           NEW n, n \in Names => raced' = Raced(c, n),
           \A u \in Uuids : \A m \in Names \ {n} : cbs'[u] = m <=> cbs[u] = m,
           \A d \in Tasks \ {c} : \A u \in Uuids : Deletes(d, u) => cbs'[u] = None,
           \A m \in Names : ReadyOK(c, m)',
           \A m \in Names : \A u \in Uuids : AddOK(c, u, m)',
           \A u \in Uuids : DeleteOK(c, u)',
           \A m \in Names \ {n} : m \notin raced /\ workers'[m] # None =>
             \A u \in Uuids : Untold(c, m, u) \/ Informed(c, m, u),
           n \in Names /\ n \notin raced' /\ workers'[n] # None => \A u \in Uuids : Told(n, u)'
    PROVE  Callbacks'
<1>1. \A m \in Names \ {n} : CallbacksOf(m)' = CallbacksOf(m)
  BY DEF CallbacksOf
<1>2. ASSUME NEW d \in Tasks \ {c}
      PROVE  /\ stack'[d] = stack[d] /\ Top(d)' = Top(d) /\ Subject(d)' = Subject(d)
             /\ \A u : (Adds(d, u)' <=> Adds(d, u)) /\ (Deletes(d, u)' <=> Deletes(d, u))
             /\ \A op, pc : At(d, op, pc)' <=> At(d, op, pc)
  BY <1>2 DEF Same, Top, Subject, Adds, Deletes, At
<1>3. ASSUME NEW d \in Tasks \ {c}, n \in Names, n \notin raced', stack[d] # <<>>,
             Top(d).pc # "begin"
      PROVE  Subject(d) # n
  <2>1. Top(d) \in Begun(d)
    BY <1>3, Peek DEF Base, Begun
  <2> QED
    BY <2>1, <1>3 DEF Raced, Contended, Subject
<1>4. ASSUME NEW d \in Tasks, NEW m \in Names PROVE ReadyOK(d, m)'
  <2>1. CASE d = c
    BY <2>1
  <2>2. CASE d # c /\ m = n
    BY <2>2, <1>2, <1>3 DEF ReadyOK, At
  <2>3. CASE d # c /\ m # n
    BY <2>3, <1>1, <1>2 DEF ReadyOK, Callbacks
  <2> QED
    BY <2>1, <2>2, <2>3
<1>5. ASSUME NEW d \in Tasks, NEW u \in Uuids, NEW m \in Names PROVE AddOK(d, u, m)'
  <2>1. CASE d = c
    BY <2>1
  <2>2. CASE d # c /\ m = n
    BY <2>2, <1>2, <1>3 DEF AddOK, Adds, At
  <2>3. CASE d # c /\ m # n
    <3> SUFFICES ASSUME Adds(d, u), Subject(d) = m, m \notin raced'
                 PROVE  cbs'[u] = m /\ (workers'[m] # None => workers'[m].cbs[u] = 0)
      BY <2>3, <1>2 DEF AddOK
    <3>1. cbs[u] = m /\ (workers[m] # None => workers[m].cbs[u] = 0) /\ m \notin raced
      BY DEF Callbacks, AddOK
    <3> QED
      BY <2>3, <3>1 DEF Untold, Informed
  <2> QED
    BY <2>1, <2>2, <2>3
<1>6. \A d \in Tasks, u \in Uuids : DeleteOK(d, u)'
  BY <1>2 DEF DeleteOK
<1>7. ASSUME NEW m \in Names, m \notin raced', workers'[m] # None, NEW u \in Uuids
      PROVE  Told(m, u)'
  <2>1. CASE m = n
    BY <2>1, <1>7
  <2>2. CASE m # n /\ Untold(c, m, u)
    <3>1. Told(m, u) /\ workers'[m].cbs[u] = workers[m].cbs[u]
      BY <1>7, <2>2 DEF Untold, Callbacks
    <3>2. CASE workers[m].cbs[u] = CallbacksOf(m)[u]
      BY <3>1, <3>2, <2>2, <1>1 DEF Told
    <3>3. ASSUME NEW d \in Tasks, Adds(d, u) \/ Deletes(d, u), Subject(d) = m PROVE Told(m, u)'
      <4>1. d # c
        BY <3>3, <2>2 DEF Untold
      <4> QED
        BY <4>1, <3>3, <1>2 DEF Told
    <3> QED
      BY <3>1, <3>2, <3>3 DEF Told
  <2>3. CASE Informed(c, m, u)
    BY <2>3 DEF Informed, Told
  <2> QED
    BY <1>7, <2>1, <2>2, <2>3
<1> QED
  BY <1>4, <1>5, <1>6, <1>7 DEF Callbacks

\* A task that has no callback to tell of, and no worker about to enter the map
Quiet(c) ==
    stack[c] # <<>> =>
      /\ Top(c).pc \notin {"record", "insert"}
      /\ Top(c).pc = "worker" => Top(c).op \notin {"add_callback", "delete_callback"}

\* No worker enters the map, and none learns of a callback.
Undisturbed ==
    \A m \in Names : workers'[m] # None => workers[m] # None /\ workers'[m].cbs = workers[m].cbs

\* A step that changes no callback, and brings no worker into the map
LEMMA CalmKept ==
    ASSUME Base, Callbacks, NEW c \in Tasks, Same(c), raced \subseteq raced', cbs' = cbs,
           \A u \in Uuids : ~Adds(c, u) /\ ~Deletes(c, u), Quiet(c)', Undisturbed
    PROVE  Callbacks'
<1>1. /\ \A m \in Names : ReadyOK(c, m)'
      /\ \A u \in Uuids : ~Adds(c, u)' /\ ~Deletes(c, u)'
  BY DEF Quiet, ReadyOK, Adds, Deletes, At
<1>2. /\ \A m \in Names : \A u \in Uuids : AddOK(c, u, m)'
      /\ \A u \in Uuids : DeleteOK(c, u)'
  BY <1>1 DEF AddOK, DeleteOK
<1>3. \A d \in Tasks \ {c} : \A u \in Uuids : Deletes(d, u) => cbs'[u] = None
  BY DEF Callbacks, DeleteOK
<1>4. \A m \in Names : workers'[m] # None => \A u \in Uuids : Untold(c, m, u)
  BY DEF Undisturbed, Untold
<1> QED
  BY <1>1, <1>2, <1>3, <1>4, NoneNoName, CallbacksKept

\* A task that returned is where a call of its own went on.
LEMMA ReturnedQuiet ==
    ASSUME NEW c \in Tasks, NEW b \in BOOLEAN, Returned(c, b) PROVE Same(c) /\ Quiet(c)'
<1>1. stack'[c] # <<>> => Top(c)'.pc \in Waits
  BY ReturnedTop
<1> QED
  BY <1>1 DEF Quiet, Waits, Returned

\* A call at another place
LEMMA TurnedQuiet ==
    ASSUME NEW c \in Tasks, NEW f, Turns(c, f), f.pc \notin {"record", "insert"},
           f.pc = "worker" => f.op \notin {"add_callback", "delete_callback"}
    PROVE  Same(c) /\ Quiet(c)'
  BY DEF Turns, Quiet

\* A call that turned to another place
LEMMA GoneQuiet ==
    ASSUME NEW c \in Tasks, NEW f \in Calls, NEW p \in Pcs, Turns(c, [f EXCEPT !.pc = p]),
           p \notin {"record", "insert"},
           p = "worker" => f.op \notin {"add_callback", "delete_callback"}
    PROVE  Same(c) /\ Quiet(c)'
<1>1. PICK g : g = [f EXCEPT !.pc = p]
  OBVIOUS
<1>2. g.pc = p /\ g.op = f.op
  BY <1>1, Marked
<1> QED
  BY <1>1, <1>2, TurnedQuiet

\* A call that was made has no callback to tell of.
LEMMA CalledQuiet ==
    ASSUME NEW c \in Tasks, NEW f, NEW g, Called(c, f, g), f.pc = "begin" PROVE Same(c) /\ Quiet(c)'
  BY DEF Called, Quiet

\* A task in start_playbook or resume_playbook, or in none
LEMMA NoNews ==
    ASSUME NEW c, stack[c] = <<>> \/ Top(c).op \notin {"add_callback", "delete_callback"}
    PROVE  \A u \in Uuids : ~Adds(c, u) /\ ~Deletes(c, u)
  BY DEF Adds, Deletes, At

\* Nor has a task at which a call begins.
LEMMA EnteredNoNews ==
    ASSUME Base, NEW c \in Tasks, NEW op, NEW f \in Entering(c, op)
    PROVE  f \in Calls /\ f.op \in op /\ \A u \in Uuids : ~Adds(c, u) /\ ~Deletes(c, u)
<1>1. /\ f \in Calls /\ f.op \in op
      /\ stack[c] = <<>> \/ Top(c).op \in {"start", "resume"}
  BY Enter DEF Base
<1> QED
  BY <1>1, NoNews

\* The steps of start_playbook and resume_playbook, but those before and after the row is saved
LEMMA StartCallbacks ==
    ASSUME Base, Callbacks, NEW c \in Tasks,
           \/ StartGetRow(c) \/ MakeDirs(c) \/ ResumeGetRow(c) \/ ResumeConflict(c)
           \/ FindInterconnect(c) \/ InterconnectStarted(c) \/ StartWorker(c) \/ LoadFails(c)
           \/ ListenFails(c)
    PROVE  Callbacks'
<1>1. /\ stack[c] # <<>> /\ Top(c).op \in {"start", "resume"} /\ Top(c) \in Calls
      /\ Top(c).pc = "interconnect" => Needs[Subject(c)] \in Names
  <2>1. /\ stack[c] # <<>> /\ Top(c).op \in {"start", "resume"} /\ Top(c) \in Calls
        /\ CallOK(c, Top(c)) /\ Subject(c) \in Names
    BY AtCall DEF StartGetRow, MakeDirs, ResumeGetRow, ResumeConflict, FindInterconnect,
       InterconnectStarted, StartWorker, LoadFails, ListenFails, At
  <2> QED
    BY <2>1, NeedsAssumption DEF CallOK, Subject
<1>2. \A u \in Uuids : ~Adds(c, u) /\ ~Deletes(c, u)
  BY <1>1, NoNews
<1>3. workers' = workers /\ cbs' = cbs /\ raced' = raced
  BY DEF StartGetRow, MakeDirs, ResumeGetRow, ResumeConflict, FindInterconnect,
     InterconnectStarted, StartWorker, LoadFails, ListenFails, memVars, diskVars, ghosts
<1>4. Same(c) /\ Quiet(c)'
  <2>1. CASE StartGetRow(c)
    <3>1. PICK p \in {"delete", "dirs"} : Turns(c, [Top(c) EXCEPT !.pc = p])
      BY <2>1, StartGetRowBase
    <3>2. p \in Pcs /\ p \notin {"record", "insert"} /\ p # "worker"
      BY DEF Pcs
    <3> QED
      BY <1>1, <3>1, <3>2, GoneQuiet
  <2>2. CASE MakeDirs(c)
    <3>1. PICK p \in {"interconnect", "worker"} : Turns(c, [Top(c) EXCEPT !.pc = p])
      BY <2>2, MakeDirsBase
    <3>2. p \in Pcs /\ p \notin {"record", "insert"}
      BY DEF Pcs
    <3> QED
      BY <1>1, <3>1, <3>2, GoneQuiet
  <2>3. CASE ResumeGetRow(c)
    <3>1. CASE Returned(c, FALSE)
      BY <3>1, ReturnedQuiet
    <3>2. ASSUME NEW f \in Calls, Turns(c, f), f.op = Top(c).op, f.pc \in {"interconnect", "worker"}
          PROVE  Same(c) /\ Quiet(c)'
      BY <1>1, <3>2, TurnedQuiet
    <3> QED
      BY <2>3, <3>1, <3>2, ResumeGetRowBase
  <2>4. CASE ResumeConflict(c)
    BY <2>4, ResumeConflictBase, ReturnedQuiet
  <2>5. CASE FindInterconnect(c)
    <3>1. CASE Turns(c, [Top(c) EXCEPT !.pc = "worker"])
      <4>1. "worker" \in Pcs
        BY DEF Pcs
      <4> QED
        BY <1>1, <3>1, <4>1, GoneQuiet
    <3>2. CASE Called(c, Frame("start", Needs[Subject(c)], None), [Top(c) EXCEPT !.pc = "launched"])
      <4>1. Frame("start", Needs[Subject(c)], None).pc = "begin"
        BY DEF Frame
      <4> QED
        BY <3>2, <4>1, CalledQuiet
    <3> QED
      BY <2>5, <3>1, <3>2, FindInterconnectBase
  <2>6. CASE InterconnectStarted(c)
    <3>1. CASE Turns(c, [Top(c) EXCEPT !.pc = "worker"])
      <4>1. "worker" \in Pcs
        BY DEF Pcs
      <4> QED
        BY <1>1, <3>1, <4>1, GoneQuiet
    <3>2. CASE Returned(c, FALSE)
      BY <3>2, ReturnedQuiet
    <3> QED
      BY <2>6, <3>1, <3>2, InterconnectStartedBase
  <2>7. CASE StartWorker(c)
    <3>1. PICK w \in Worker : Turns(c, [Top(c) EXCEPT !.pc = "callbacks", !.worker = w])
      BY <2>7, StartWorkerBase
    <3>2. PICK g : g = [Top(c) EXCEPT !.pc = "callbacks", !.worker = w]
      OBVIOUS
    <3>3. g.pc = "callbacks"
      BY <1>1, <3>2 DEF Calls
    <3> QED
      BY <3>1, <3>2, <3>3, TurnedQuiet
  <2>8. CASE LoadFails(c) \/ ListenFails(c)
    BY <2>8, LoadFailsBase, ListenFailsBase, ReturnedQuiet
  <2> QED
    BY <2>1, <2>2, <2>3, <2>4, <2>5, <2>6, <2>7, <2>8
<1>5. Undisturbed
  BY <1>3 DEF Undisturbed
<1> QED
  BY <1>2, <1>3, <1>4, <1>5, CalmKept

\* The worker that was built is given what the database lists, and keeps it until it enters the
\* map, unless another task works on the playbook meanwhile.
LEMMA BuiltCallbacks ==
    ASSUME Base, Callbacks, NEW c \in Tasks,
           RegisterCallbacks(c) \/ SavePlaybook(c) \/ ResumeStatus(c)
    PROVE  Callbacks'
<1>1. /\ stack[c] # <<>> /\ Top(c).op \in {"start", "resume"} /\ Top(c) \in Calls
      /\ Subject(c) \in Names
  BY AtCall DEF RegisterCallbacks, SavePlaybook, ResumeStatus
<1>2. \A u \in Uuids : ~Adds(c, u) /\ ~Deletes(c, u)
  BY <1>1, NoNews
<1>3. workers' = workers /\ cbs' = cbs /\ raced' = raced
  BY DEF RegisterCallbacks, SavePlaybook, ResumeStatus, memVars, diskVars, ghosts
<1>4. PICK g : /\ Turns(c, g) /\ g.op = Top(c).op /\ g.name = Subject(c)
               /\ Subject(c) \notin raced => g.worker.cbs = CallbacksOf(Subject(c))
  <2>1. CASE RegisterCallbacks(c)
    BY <2>1, RegisterCallbacksBase
  <2>2. CASE SavePlaybook(c) \/ ResumeStatus(c)
    <3>1. PICK g : g = [Top(c) EXCEPT !.pc = "insert"]
      OBVIOUS
    <3>2. g.op = Top(c).op /\ g.name = Subject(c) /\ g.worker = Top(c).worker
      <4>1. "insert" \in Pcs
        BY DEF Pcs
      <4> QED
        BY <1>1, <3>1, <4>1, Marked DEF Subject
    <3>3. Turns(c, g)
      BY <2>2, <3>1, SavePlaybookBase, ResumeStatusBase
    <3>4. At(c, {"start", "resume"}, "record")
      BY <2>2 DEF SavePlaybook, ResumeStatus, At
    <3>5. ReadyOK(c, Subject(c))
      BY <1>1 DEF Callbacks
    <3> QED
      BY <3>2, <3>3, <3>4, <3>5 DEF ReadyOK
  <2> QED
    BY <2>1, <2>2
<1>5. Same(c) /\ Top(c)' = g /\ Subject(c)' = Subject(c)
  BY <1>4 DEF Turns, Subject
<1>6. \A u \in Uuids : ~Adds(c, u)' /\ ~Deletes(c, u)'
  BY <1>1, <1>4, <1>5 DEF Adds, Deletes, At
<1>7. ASSUME NEW m \in Names PROVE ReadyOK(c, m)'
  <2>1. CallbacksOf(m)' = CallbacksOf(m)
    BY <1>3 DEF CallbacksOf
  <2> QED
    BY <1>3, <1>4, <1>5, <2>1 DEF ReadyOK
<1>8. \A u \in Uuids : DeleteOK(c, u)' /\ \A m \in Names : AddOK(c, u, m)'
  BY <1>6 DEF AddOK, DeleteOK
<1>9. \A d \in Tasks \ {c} : \A u \in Uuids : Deletes(d, u) => cbs'[u] = None
  BY <1>3 DEF Callbacks, DeleteOK
<1>10. \A m \in Names : workers'[m] # None => \A u \in Uuids : Untold(c, m, u)
  BY <1>2, <1>3 DEF Untold
<1> QED
  BY <1>3, <1>5, <1>7, <1>8, <1>9, <1>10, NoneNoName, CallbacksKept

\* The worker enters the map.
LEMMA InsertCallbacks ==
    ASSUME Base, Callbacks, NEW c \in Tasks, StartInsert(c) \/ ResumeInsert(c)
    PROVE  Callbacks'
<1>1. /\ stack[c] # <<>> /\ Top(c).op \in {"start", "resume"} /\ Top(c).pc = "insert"
      /\ Top(c) \in Range(stack[c]) /\ At(c, {"start", "resume"}, "insert")
      /\ Subject(c) \in Names
  BY AtCall DEF StartInsert, ResumeInsert, At
<1>2. PICK n \in Names : n = Subject(c)
  BY <1>1
<1>3. \A u \in Uuids : ~Adds(c, u) /\ ~Deletes(c, u)
  BY <1>1, NoNews
<1>4. workers' = [workers EXCEPT ![n] = Top(c).worker] /\ cbs' = cbs /\ raced' = raced
  BY <1>2 DEF StartInsert, ResumeInsert, diskVars
<1>5. Same(c) /\ Quiet(c)'
  BY StartInsertBase, ResumeInsertBase, ReturnedQuiet
<1>6. \A m \in Names : ReadyOK(c, m)'
  BY <1>5 DEF Quiet, ReadyOK, At
<1>7. \A u \in Uuids : DeleteOK(c, u)' /\ \A m \in Names : AddOK(c, u, m)'
  BY <1>5 DEF Quiet, AddOK, DeleteOK, Adds, Deletes, At
<1>8. \A d \in Tasks \ {c} : \A u \in Uuids : Deletes(d, u) => cbs'[u] = None
  BY <1>4 DEF Callbacks, DeleteOK
<1>9. ASSUME NEW m \in Names, m \notin raced, workers'[m] # None, NEW u \in Uuids
      PROVE  Untold(c, m, u) \/ Informed(c, m, u)
  <2>1. CASE m # n
    BY <1>3, <1>4, <1>9, <2>1 DEF Untold, Base, Mem
  <2>2. CASE m = n
    <3>1. workers'[n] = Top(c).worker
      BY <1>4 DEF Base, Mem
    <3>2. Top(c).worker.cbs = CallbacksOf(n)
      BY <1>1, <1>2, <1>9, <2>2 DEF Callbacks, ReadyOK
    <3>3. CallbacksOf(n)' = CallbacksOf(n)
      BY <1>4 DEF CallbacksOf
    <3>4. OnIt(c, n)
      BY <1>1, <1>2 DEF OnIt, Begun, Subject
    <3>5. ASSUME NEW d \in Tasks \ {c}, Adds(d, u), Subject(d) = n PROVE FALSE
      <4>1. Top(d) \in Range(stack[d]) /\ Top(d).pc = "worker"
        BY <3>5, AtCall DEF Adds
      <4>2. OnIt(d, n)
        BY <3>5, <4>1 DEF OnIt, Begun, Subject
      <4> QED
        BY <1>9, <2>2, <3>4, <3>5, <4>2 DEF Base, Alone
    <3> QED
      BY <2>2, <3>1, <3>2, <3>3, <3>5 DEF Informed
  <2> QED
    BY <2>1, <2>2
<1> QED
  BY <1>4, <1>5, <1>6, <1>7, <1>8, <1>9, NoneNoName, CallbacksKept

\* Requests that leave the callbacks alone
LEMMA RequestCallbacks ==
    ASSUME Base, Callbacks, NEW c \in Tasks,
           CheckNotRunning(c) \/ StopPlaybook(c) \/ SetHttpAddress(c) \/ SetHttpFails(c)
    PROVE  Callbacks'
<1>1. \A u \in Uuids : ~Adds(c, u) /\ ~Deletes(c, u)
  BY EnteredNoNews DEF CheckNotRunning, StopPlaybook, SetHttpAddress, SetHttpFails
<1>2. cbs' = cbs /\ raced \subseteq raced'
  BY DEF CheckNotRunning, StopPlaybook, SetHttpAddress, SetHttpFails, diskVars, Raced
<1>3. Same(c) /\ Quiet(c)'
  <2>1. CASE CheckNotRunning(c)
    <3>1. CASE Returned(c, FALSE)
      BY <3>1, ReturnedQuiet
    <3>2. ASSUME NEW f \in Entering(c, {"start", "resume"}), Turns(c, [f EXCEPT !.pc = "row"])
          PROVE  Same(c) /\ Quiet(c)'
      <4>1. f \in Calls /\ "row" \in Pcs
        BY EnteredNoNews DEF Pcs
      <4> QED
        BY <3>2, <4>1, GoneQuiet
    <3> QED
      BY <2>1, <3>1, <3>2, CheckNotRunningBase
  <2>2. CASE StopPlaybook(c)
    BY <2>2, StopPlaybookBase, ReturnedQuiet
  <2>3. CASE SetHttpAddress(c) \/ SetHttpFails(c)
    BY <2>3, SetHttpAddressBase, SetHttpFailsBase, ReturnedQuiet
  <2> QED
    BY <2>1, <2>2, <2>3
<1>4. Undisturbed
  <2>1. CASE CheckNotRunning(c)
    BY <2>1 DEF CheckNotRunning, memVars, Undisturbed
  <2>2. CASE StopPlaybook(c)
    BY <2>2 DEF StopPlaybook, TakeOut, Undisturbed, Base, Mem
  <2>3. CASE SetHttpAddress(c) \/ SetHttpFails(c)
    <3>1. PICK f \in Entering(c, {"set_http"}) :
            /\ workers[f.name] # None
            /\ workers' = WithHttp(f.name, f.arg) \/ workers' = WithHttp(f.name, None)
      BY <2>3 DEF SetHttpAddress, SetHttpFails
    <3>2. f.name \in Names /\ f.arg \in Addrs \cup {None}
      <4>1. CallOK(c, f) /\ f.op = "set_http"
        BY Enter DEF Base
      <4> QED
        BY <4>1 DEF CallOK
    <3>3. PICK a \in Addrs \cup {None} : workers' = WithHttp(f.name, a)
      BY <3>1, <3>2
    <3> QED
      BY <3>1, <3>2, <3>3, SetHttpWorkers DEF Undisturbed
  <2> QED
    BY <2>1, <2>2, <2>3
<1> QED
  BY <1>1, <1>2, <1>3, <1>4, CalmKept

\* The directory does not matter to callbacks.
LEMMA RemoveDirCallbacks ==
    ASSUME Base, Callbacks, NEW c \in Tasks, RemoveDir(c) PROVE Callbacks'
<1>1. /\ stack[c] # <<>> /\ Top(c).op \in {"start", "delete"} /\ Top(c) \in Calls
  BY AtCall DEF RemoveDir
<1>2. Same(c) /\ Quiet(c)'
  <2>1. "dirs" \in Pcs
    BY DEF Pcs
  <2> QED
    BY <1>1, <2>1, RemoveDirBase, ReturnedQuiet, GoneQuiet
<1>3. cbs' = cbs /\ raced' = raced /\ Undisturbed
  BY DEF RemoveDir, Undisturbed
<1> QED
  BY <1>1, <1>2, <1>3, NoNews, CalmKept

\* The callbacks of a playbook go with it; a request about one of them raced.
LEMMA DeleteCallbacks ==
    ASSUME Base, Callbacks, NEW c \in Tasks, DeletePlaybook(c) PROVE Callbacks'
<1>1. PICK f \in Calls :
        /\ f.op \in {"start", "delete"} /\ f.name \in Names
        /\ stack[c] # <<>> => f = Top(c)
        /\ Turns(c, [f EXCEPT !.pc = "rmdir"])
        /\ TakeOut(f.name) /\ DeleteRow(f.name) /\ raced' = Raced(c, f.name)
  BY DeletePlaybookBase
<1>2. Same(c) /\ Quiet(c)'
  <2>1. "rmdir" \in Pcs
    BY DEF Pcs
  <2> QED
    BY <1>1, <2>1, GoneQuiet
<1>3. \A u \in Uuids : ~Adds(c, u) /\ ~Deletes(c, u)
  BY <1>1, NoNews
<1>4. PICK n \in Names : n = f.name
  BY <1>1
<1>5. /\ cbs' = [u \in Uuids |-> IF cbs[u] = n THEN None ELSE cbs[u]]
      /\ workers' = [workers EXCEPT ![n] = None] /\ raced' = Raced(c, n) /\ raced \subseteq raced'
  BY <1>1, <1>4 DEF DeleteRow, TakeOut, Raced
<1>6. \A u \in Uuids : \A m \in Names \ {n} : cbs'[u] = m <=> cbs[u] = m
  BY <1>5, NoneNoName
<1>7. \A d \in Tasks \ {c} : \A u \in Uuids : Deletes(d, u) => cbs'[u] = None
  BY <1>5 DEF Callbacks, DeleteOK
<1>8. \A m \in Names : ReadyOK(c, m)'
  BY <1>2 DEF Quiet, ReadyOK, At
<1>9. \A u \in Uuids : DeleteOK(c, u)' /\ \A m \in Names : AddOK(c, u, m)'
  BY <1>2 DEF Quiet, AddOK, DeleteOK, Adds, Deletes, At
<1>10. workers'[n] = None /\ \A m \in Names \ {n} : workers'[m] = workers[m]
  BY <1>5 DEF Base, Mem
<1>11. \A m \in Names \ {n} : m \notin raced /\ workers'[m] # None =>
         \A u \in Uuids : Untold(c, m, u) \/ Informed(c, m, u)
  BY <1>3, <1>10 DEF Untold
<1> QED
  BY <1>2, <1>5, <1>6, <1>7, <1>8, <1>9, <1>10, <1>11, CallbacksKept

\* A request that adds a callback: the row first, ..
LEMMA SaveCallbacks ==
    ASSUME Base, Callbacks, NEW c \in Tasks, SaveCallback(c) PROVE Callbacks'
<1>1. PICK f \in Calls :
        /\ Turns(c, f) /\ f.op = "add_callback" /\ f.pc = "worker" /\ f.name \in Names
        /\ f.arg \in Uuids /\ raced' = Raced(c, f.name)
        /\ cbs[f.arg] = None /\ cbs' = [cbs EXCEPT ![f.arg] = f.name]
        /\ \A d \in Tasks : ~Adds(d, f.arg) /\ ~Deletes(d, f.arg)
        /\ \A w \in AllWorkers : w.cbs[f.arg] = 0
  BY SaveCallbackBase
<1>2. PICK n \in Names, v \in Uuids : n = f.name /\ v = f.arg
  BY <1>1
<1>3. \A u \in Uuids : ~Adds(c, u) /\ ~Deletes(c, u)
  BY EnteredNoNews DEF SaveCallback
<1>4. workers' = workers /\ raced' = Raced(c, n) /\ raced \subseteq raced' /\ Same(c)
  BY <1>1, <1>2 DEF SaveCallback, memVars, Raced, Turns
<1>5. /\ cbs'[v] = n /\ cbs[v] = None
      /\ \A u \in Uuids \ {v} : cbs'[u] = cbs[u]
      /\ \A m \in Names : workers[m] # None => workers[m].cbs[v] = 0
  BY <1>1, <1>2 DEF Base, Mem, AllWorkers
<1>6. \A u \in Uuids : \A m \in Names \ {n} : cbs'[u] = m <=> cbs[u] = m
  BY <1>5, NoneNoName
<1>7. \A d \in Tasks \ {c} : \A u \in Uuids : Deletes(d, u) => cbs'[u] = None
  BY <1>1, <1>2, <1>5 DEF Callbacks, DeleteOK
<1>8. /\ stack'[c] # <<>> /\ Top(c)' = f /\ Subject(c)' = n
      /\ \A u \in Uuids : (Adds(c, u)' <=> u = v) /\ ~Deletes(c, u)'
  BY <1>1, <1>2 DEF Turns, Subject, Adds, Deletes, At
<1>9. \A m \in Names : ReadyOK(c, m)'
  BY <1>1, <1>8 DEF ReadyOK, At
<1>10. \A u \in Uuids : DeleteOK(c, u)' /\ \A m \in Names : AddOK(c, u, m)'
  BY <1>4, <1>5, <1>8 DEF AddOK, DeleteOK
<1>11. \A m \in Names : workers'[m] # None => \A u \in Uuids : Untold(c, m, u)
  BY <1>3, <1>4 DEF Untold
<1>12. ASSUME n \notin raced', workers'[n] # None, NEW u \in Uuids PROVE Told(n, u)'
  <2>1. CASE u = v
    BY <2>1, <1>8 DEF Told
  <2>2. CASE u # v
    <3>1. Told(n, u)
      BY <1>4, <1>12 DEF Callbacks
    <3>2. CallbacksOf(n)'[u] = CallbacksOf(n)[u]
      BY <1>5, <2>2 DEF CallbacksOf
    <3>3. CASE workers[n].cbs[u] = CallbacksOf(n)[u]
      BY <1>4, <3>2, <3>3 DEF Told
    <3>4. ASSUME NEW d \in Tasks, Adds(d, u) \/ Deletes(d, u), Subject(d) = n PROVE Told(n, u)'
      <4>1. stack'[d] = stack[d]
        BY <1>3, <1>4, <3>4 DEF Same
      <4> QED
        BY <3>4, <4>1 DEF Told, Adds, Deletes, At, Top, Subject
    <3> QED
      BY <3>1, <3>3, <3>4 DEF Told
  <2> QED
    BY <2>1, <2>2
<1> QED
  BY <1>4, <1>6, <1>7, <1>9, <1>10, <1>11, <1>12, CallbacksKept

\* .. then the worker, which does not have it yet: had it started since, the requests raced.
LEMMA AddCallbacks ==
    ASSUME Base, Callbacks, NEW c \in Tasks, AddCallback(c) PROVE Callbacks'
<1>1. /\ Returned(c, TRUE) /\ Adds(c, Top(c).arg) /\ Top(c).arg \in Uuids /\ Subject(c) \in Names
  BY AddCallbackBase
<1>2. PICK n \in Names, v \in Uuids : n = Subject(c) /\ v = Top(c).arg
  BY <1>1
<1>3. Same(c) /\ Quiet(c)'
  BY <1>1, ReturnedQuiet
<1>4. cbs' = cbs /\ raced' = raced /\ workers' = WithCallback(n, v)
  BY <1>2 DEF AddCallback, diskVars, ghosts
<1>5. Adds(c, v) /\ \A u \in Uuids \ {v} : ~Adds(c, u)
  BY <1>1, <1>2 DEF Adds
<1>6. \A u \in Uuids : ~Deletes(c, u)
  BY <1>5 DEF Adds, Deletes, At
<1>7. \A m \in Names : ReadyOK(c, m)'
  BY <1>3 DEF Quiet, ReadyOK, At
<1>8. \A u \in Uuids : DeleteOK(c, u)' /\ \A m \in Names : AddOK(c, u, m)'
  BY <1>3 DEF Quiet, AddOK, DeleteOK, Adds, Deletes, At
<1>9. \A d \in Tasks \ {c} : \A u \in Uuids : Deletes(d, u) => cbs'[u] = None
  BY <1>4 DEF Callbacks, DeleteOK
<1>10. ASSUME NEW m \in Names, m \notin raced, workers'[m] # None, NEW u \in Uuids
       PROVE  Untold(c, m, u) \/ Informed(c, m, u)
  <2>1. CASE workers[n] = None \/ m # n
    <3>1. workers'[m] = workers[m]
      BY <1>4, <2>1 DEF WithCallback, Base, Mem
    <3>2. m # n
      BY <1>10, <2>1, <3>1
    <3> QED
      BY <1>2, <1>10, <3>1, <3>2 DEF Untold
  <2>2. CASE workers[n] # None /\ m = n
    <3>1. workers[n] \in Worker
      BY <2>2 DEF Base, Mem
    <3>2. workers'[n] = [workers[n] EXCEPT !.cbs = [workers[n].cbs EXCEPT ![v] = @ + 1]]
      BY <1>4, <2>2 DEF WithCallback, Base, Mem
    <3>3. workers[n].cbs \in [Uuids -> 0 .. 2]
      BY <3>1 DEF Worker
    <3>4. workers'[n].cbs = [workers[n].cbs EXCEPT ![v] = @ + 1]
      BY <3>1, <3>2 DEF Worker
    <3>5. CASE u # v
      BY <1>5, <1>6, <2>2, <3>3, <3>4, <3>5 DEF Untold
    <3>6. CASE u = v
      <4>1. cbs[v] = n /\ workers[n].cbs[v] = 0
        BY <1>2, <1>5, <1>10, <2>2 DEF Callbacks, AddOK
      <4>2. workers'[n].cbs[v] = 1
        BY <3>3, <3>4, <4>1
      <4>3. CallbacksOf(n)'[v] = 1
        BY <1>4, <4>1 DEF CallbacksOf
      <4>4. \A d \in Tasks \ {c} : ~Adds(d, v)
        BY <1>5 DEF Base, Counts
      <4> QED
        BY <2>2, <3>6, <4>2, <4>3, <4>4 DEF Informed
    <3> QED
      BY <3>5, <3>6
  <2> QED
    BY <2>1, <2>2
<1> QED
  BY <1>3, <1>4, <1>7, <1>8, <1>9, <1>10, NoneNoName, CallbacksKept

\* A request that deletes one: the row first, ..
LEMMA ForgetCallbacks ==
    ASSUME Base, Callbacks, NEW c \in Tasks, ForgetCallback(c) PROVE Callbacks'
<1>1. PICK f \in Calls :
        /\ Turns(c, f) /\ f.op = "delete_callback" /\ f.pc = "worker" /\ f.name \in Names
        /\ f.arg \in Uuids /\ raced' = Raced(c, f.name)
        /\ cbs[f.arg] = f.name /\ cbs' = [cbs EXCEPT ![f.arg] = None]
  BY ForgetCallbackBase
<1>2. PICK n \in Names, v \in Uuids : n = f.name /\ v = f.arg
  BY <1>1
<1>3. \A u \in Uuids : ~Adds(c, u) /\ ~Deletes(c, u)
  BY EnteredNoNews DEF ForgetCallback
<1>4. workers' = workers /\ raced' = Raced(c, n) /\ raced \subseteq raced' /\ Same(c)
  BY <1>1, <1>2 DEF ForgetCallback, memVars, Raced, Turns
<1>5. cbs'[v] = None /\ cbs[v] = n /\ \A u \in Uuids \ {v} : cbs'[u] = cbs[u]
  BY <1>1, <1>2 DEF Base, Mem
<1>6. \A u \in Uuids : \A m \in Names \ {n} : cbs'[u] = m <=> cbs[u] = m
  BY <1>5, NoneNoName
<1>7. \A d \in Tasks \ {c} : \A u \in Uuids : Deletes(d, u) => cbs'[u] = None
  BY <1>5 DEF Callbacks, DeleteOK
<1>8. /\ stack'[c] # <<>> /\ Top(c)' = f /\ Subject(c)' = n
      /\ \A u \in Uuids : ~Adds(c, u)' /\ (Deletes(c, u)' <=> u = v)
  BY <1>1, <1>2 DEF Turns, Subject, Adds, Deletes, At
<1>9. \A m \in Names : ReadyOK(c, m)'
  BY <1>1, <1>8 DEF ReadyOK, At
<1>10. \A u \in Uuids : DeleteOK(c, u)' /\ \A m \in Names : AddOK(c, u, m)'
  BY <1>5, <1>8 DEF AddOK, DeleteOK
<1>11. \A m \in Names : workers'[m] # None => \A u \in Uuids : Untold(c, m, u)
  BY <1>3, <1>4 DEF Untold
<1>12. ASSUME n \notin raced', workers'[n] # None, NEW u \in Uuids PROVE Told(n, u)'
  <2>1. CASE u = v
    BY <2>1, <1>8 DEF Told
  <2>2. CASE u # v
    <3>1. Told(n, u)
      BY <1>4, <1>12 DEF Callbacks
    <3>2. CallbacksOf(n)'[u] = CallbacksOf(n)[u]
      BY <1>5, <2>2 DEF CallbacksOf
    <3>3. CASE workers[n].cbs[u] = CallbacksOf(n)[u]
      BY <1>4, <3>2, <3>3 DEF Told
    <3>4. ASSUME NEW d \in Tasks, Adds(d, u) \/ Deletes(d, u), Subject(d) = n PROVE Told(n, u)'
      <4>1. stack'[d] = stack[d]
        BY <1>3, <1>4, <3>4 DEF Same
      <4> QED
        BY <3>4, <4>1 DEF Told, Adds, Deletes, At, Top, Subject
    <3> QED
      BY <3>1, <3>3, <3>4 DEF Told
  <2> QED
    BY <2>1, <2>2
<1> QED
  BY <1>4, <1>6, <1>7, <1>9, <1>10, <1>11, <1>12, CallbacksKept

\* .. then every worker.
LEMMA DeletedCallbacks ==
    ASSUME Base, Callbacks, NEW c \in Tasks, DeleteCallback(c) PROVE Callbacks'
<1>1. /\ Returned(c, TRUE) /\ Deletes(c, Top(c).arg) /\ Top(c).arg \in Uuids
      /\ \A n \in Names : workers'[n] # None =>
           /\ workers[n] # None
           /\ \A u \in Uuids : workers'[n].cbs[u] =
                IF u = Top(c).arg THEN 0 ELSE workers[n].cbs[u]
  BY DeleteCallbackBase
<1>2. PICK v \in Uuids : v = Top(c).arg
  BY <1>1
<1>3. Same(c) /\ Quiet(c)'
  BY <1>1, ReturnedQuiet
<1>4. cbs' = cbs /\ raced' = raced
  BY DEF DeleteCallback, diskVars, ghosts
<1>5. Deletes(c, v) /\ (\A u \in Uuids \ {v} : ~Deletes(c, u)) /\ \A u \in Uuids : ~Adds(c, u)
  BY <1>1, <1>2 DEF Deletes, Adds, At
<1>6. \A m \in Names : ReadyOK(c, m)'
  BY <1>3 DEF Quiet, ReadyOK, At
<1>7. \A u \in Uuids : DeleteOK(c, u)' /\ \A m \in Names : AddOK(c, u, m)'
  BY <1>3 DEF Quiet, AddOK, DeleteOK, Adds, Deletes, At
<1>8. \A d \in Tasks \ {c} : \A u \in Uuids : Deletes(d, u) => cbs'[u] = None
  BY <1>4 DEF Callbacks, DeleteOK
<1>9. ASSUME NEW m \in Names, workers'[m] # None, NEW u \in Uuids
      PROVE  Untold(c, m, u) \/ Informed(c, m, u)
  <2>1. CASE u # v
    BY <1>1, <1>2, <1>5, <1>9, <2>1 DEF Untold
  <2>2. CASE u = v
    <3>1. cbs[v] = None
      BY <1>5 DEF Callbacks, DeleteOK
    <3>2. CallbacksOf(m)'[v] = 0
      BY <1>4, <3>1, NoneNoName DEF CallbacksOf
    <3>3. workers'[m].cbs[v] = 0
      BY <1>1, <1>2, <1>9
    <3> QED
      BY <2>2, <3>2, <3>3 DEF Informed
  <2> QED
    BY <2>1, <2>2
<1> QED
  BY <1>3, <1>4, <1>6, <1>7, <1>8, <1>9, NoneNoName, CallbacksKept

\* The daemon's task
LEMMA DaemonCallbacks ==
    ASSUME Base, Listed, Callbacks, DaemonStep \/ FindUpdate PROVE Callbacks'
<1>1. Daemon \in Tasks
  BY DEF Tasks
<1>2. \A u \in Uuids : ~Adds(Daemon, u) /\ ~Deletes(Daemon, u)
  <2>1. stack[Daemon] = <<>> \/ Top(Daemon).op \notin {"add_callback", "delete_callback"}
    BY <1>1, Peek DEF Base, CallOK
  <2> QED
    BY <2>1, NoNews
<1>3. cbs' = cbs /\ raced \subseteq raced'
  BY DEF DaemonStep, UpdateStop, UpdateStarted, UpdateRolledBack, BootResume, BootResumed,
     BootPass, FindUpdate, diskVars, ghosts, Raced
<1>4. Undisturbed
  <2>1. CASE UpdateStop
    <3>1. Subject(Daemon) \in Names /\ workers' = [workers EXCEPT ![Subject(Daemon)] = None]
      BY <2>1, UpdateStopBase DEF UpdateStop, TakeOut
    <3> QED
      BY <3>1 DEF Undisturbed, Base, Mem
  <2>2. CASE ~UpdateStop
    BY <2>2 DEF DaemonStep, UpdateStarted, UpdateRolledBack, BootResume, BootResumed,
       BootPass, FindUpdate, memVars, Undisturbed
  <2> QED
    BY <2>1, <2>2
<1>5. Same(Daemon) /\ Quiet(Daemon)'
  <2>1. CASE UpdateStop \/ UpdateStarted
    BY <1>1, <2>1, UpdateStopBase, UpdateStartedBase, CalledQuiet, ReturnedQuiet
  <2>2. CASE UpdateRolledBack
    BY <1>1, <2>2, UpdateRolledBackBase, ReturnedQuiet
  <2>3. CASE BootResume
    BY <2>3, BootResumeBase DEF Quiet
  <2>4. CASE BootResumed
    BY <1>1, <2>4, BootResumedBase, BootFrameOK, TurnedQuiet
  <2>5. CASE BootPass
    <3>1. CASE Returned(Daemon, TRUE)
      BY <1>1, <3>1, ReturnedQuiet
    <3>2. CASE stack' = stack
      <4>1. Top(Daemon).pc = "next"
        BY <2>5 DEF BootPass, At
      <4> QED
        BY <3>2, <4>1 DEF Quiet, Top, Same
    <3> QED
      BY <2>5, <3>1, <3>2, BootPassBase
  <2>6. CASE FindUpdate
    BY <1>1, <2>6, FindUpdateBase, TurnedQuiet
  <2> QED
    BY <2>1, <2>2, <2>3, <2>4, <2>5, <2>6 DEF DaemonStep
<1> QED
  BY <1>1, <1>2, <1>3, <1>4, <1>5, CalmKept

\* After an end of the daemon there is no worker, and no request.
LEMMA CrashCallbacks == ASSUME Base, Crash PROVE Callbacks'
<1>1. /\ \A c \in Clients : stack'[c] = <<>>
      /\ Top(Daemon)' = BootFrame /\ \A n \in Names : workers'[n] = None
  BY CrashBase
<1>2. ASSUME NEW c \in Tasks
      PROVE  /\ ~At(c, {"start", "resume"}, "record")' /\ ~At(c, {"start", "resume"}, "insert")'
             /\ \A u \in Uuids : ~Adds(c, u)' /\ ~Deletes(c, u)'
  <2>1. CASE c = Daemon
    BY <1>1, <2>1, BootFrameOK DEF At, Adds, Deletes
  <2>2. CASE c \in Clients
    BY <1>1, <2>2 DEF At, Adds, Deletes
  <2> QED
    BY <2>1, <2>2 DEF Tasks
<1> QED
  BY <1>1, <1>2 DEF Callbacks, ReadyOK, AddOK, DeleteOK

\* Every step keeps the agreement.
LEMMA StepCallbacks == ASSUME Base, Listed, Callbacks, [Next]_vars PROVE Callbacks'
<1>1. ASSUME NEW c \in Tasks, StartStep(c) \/ ResumeStep(c) \/ WorkerStep(c) PROVE Callbacks'
  BY <1>1, StartCallbacks, BuiltCallbacks, InsertCallbacks, RequestCallbacks
     DEF StartStep, ResumeStep, WorkerStep
<1>2. ASSUME NEW c \in Tasks, ChangeStep(c) PROVE Callbacks'
  BY <1>2, RequestCallbacks, DeleteCallbacks, RemoveDirCallbacks, SaveCallbacks, AddCallbacks,
     ForgetCallbacks, DeletedCallbacks DEF ChangeStep
<1>3. ASSUME DaemonStep \/ FindUpdate PROVE Callbacks'
  BY <1>3, DaemonCallbacks
<1>4. CASE Crash
  BY <1>4, CrashCallbacks
<1>5. CASE ListUpdates \/ UNCHANGED vars
  <2>0. Waiting
    BY <1>5, Waited
  <2>1. /\ \A m : CallbacksOf(m)' = CallbacksOf(m) /\ \A c : Top(c)' = Top(c)
        /\ \A c, u : (Adds(c, u)' <=> Adds(c, u)) /\ (Deletes(c, u)' <=> Deletes(c, u))
        /\ \A c, op, pc : At(c, op, pc)' <=> At(c, op, pc)
    BY <2>0 DEF Waiting, memVars, diskVars, CallbacksOf, Top, Adds, Deletes, At
  <2> QED
    BY <2>0, <2>1 DEF Callbacks, ReadyOK, AddOK, DeleteOK, Told, Subject, Waiting, memVars, diskVars,
       ghosts
<1> QED
  BY <1>1, <1>2, <1>3, <1>4, <1>5 DEF Next, TaskStep, Idle

\* A worker calls each callback that is listed for its playbook once, and no other, for any number
\* of playbooks, callbacks and clients: unless requests about one playbook raced, and once none
\* is under way.
THEOREM CallbacksMatch == Spec => []CallbacksAgree
<1>1. Init => Callbacks
  <2> SUFFICES ASSUME Init PROVE Callbacks
    OBVIOUS
  <2>1. \A c \in Tasks : stack[c] = <<>>
    BY DEF Init
  <2>2. \A m \in Names : workers[m] = None
    BY DEF Init
  <2> QED
    BY <2>1, <2>2 DEF Callbacks, ReadyOK, AddOK, DeleteOK, At, Adds, Deletes
<1>2. Base /\ Listed /\ Callbacks /\ [Next]_vars => Callbacks'
  BY StepCallbacks
<1>3. Base /\ Callbacks => CallbacksAgree
  <2> SUFFICES ASSUME Base, Callbacks, NEW n \in Names, Settled(n), workers[n] # None, NEW u \in Uuids
               PROVE  workers[n].cbs[u] = IF u \in ListCallbacks(n) THEN 1 ELSE 0
    BY DEF CallbacksAgree
  <2>1. Told(n, u)
    BY DEF Settled, Callbacks
  <2>2. CASE workers[n].cbs[u] = CallbacksOf(n)[u]
    BY <2>2 DEF CallbacksOf, ListCallbacks
  <2>3. ASSUME NEW c \in Tasks, Adds(c, u) \/ Deletes(c, u), Subject(c) = n PROVE FALSE
    <3>1. Top(c) \in Range(stack[c]) /\ Top(c).pc = "worker"
      BY <2>3, AtCall DEF Adds, Deletes
    <3>2. Busy(n)
      BY <2>3, <3>1 DEF Busy, Begun, Subject
    <3> QED
      BY <3>2 DEF Settled
  <2> QED
    BY <2>1, <2>2, <2>3 DEF Told
<1> QED
  BY <1>1, <1>2, <1>3, BaseInvariant, PTL DEF Spec

-----------------------------------------------------------------------------
(* What is on a stack, and in what order *)

\* The calls that may make another
Launches == {"start", "resume"}

\* Call f is above call g: it is of the playbook that one needs, or the resume of one that
\* does not start a playbook itself.
Link(f, g) ==
    /\ f.op \in Launches
    /\ g.op \in Launches => f.op = "start" /\ f.name = Needs[g.name]

Chained(s) == \A i \in 1 .. (Len(s) - 1) : Link(s[i], s[i + 1])
Chains == \A c \in Tasks : Chained(stack[c])

\* The playbooks whose starts never end: what they need is one of them.
Bottomless(S) == \A n \in S : Needs[n] \in S
Endless == UNION {S \in SUBSET Names : Bottomless(S)}

\* A call but for its result
Like(g, f) ==
    /\ g.op = f.op /\ g.name = f.name /\ g.pc = f.pc /\ g.arg = f.arg /\ g.path = f.path
    /\ g.ver = f.ver /\ g.worker = f.worker

\* The three steps of a stack
TurnsTo(c, f) ==
    /\ f \in Calls /\ Same(c) /\ stack'[c] = <<f>> \o Under(c)
    /\ stack[c] # <<>> => f.op = Top(c).op /\ (f.op \in Launches => f.name = Top(c).name)

Makes(c, f, g) ==
    /\ stack[c] # <<>> /\ f \in Calls /\ g \in Calls /\ f.op = "start"
    /\ Same(c) /\ stack'[c] = <<f>> \o (<<g>> \o Under(c))
    /\ g.op = Top(c).op /\ g.name = Top(c).name
    /\ g.op \in Launches => f.name = Needs[g.name]

Ends(c, b) ==
    /\ Same(c)
    /\ IF Under(c) = <<>> THEN stack'[c] = <<>>
       ELSE \E g \in Calls : /\ Like(g, Head(Under(c))) /\ g.ok = b
                             /\ stack'[c] = <<g>> \o Tail(Under(c))

\* The parts of a call that a step of its own does not change
LEMMA Parts ==
    ASSUME NEW f \in Calls
    PROVE  /\ \A p \in Pcs : /\ [f EXCEPT !.pc = p] \in Calls
                             /\ [f EXCEPT !.pc = p].pc = p
                             /\ Like([f EXCEPT !.pc = p], [f EXCEPT !.pc = p])
                             /\ [f EXCEPT !.pc = p].op = f.op /\ [f EXCEPT !.pc = p].name = f.name
                             /\ [f EXCEPT !.pc = p].arg = f.arg /\ [f EXCEPT !.pc = p].path = f.path
                             /\ [f EXCEPT !.pc = p].ver = f.ver
                             /\ [f EXCEPT !.pc = p].worker = f.worker
           /\ \A b \in BOOLEAN : /\ [f EXCEPT !.ok = b] \in Calls /\ [f EXCEPT !.ok = b].ok = b
                                 /\ Like([f EXCEPT !.ok = b], f)
  BY DEF Calls, Like

\* The calls under the one that runs
LEMMA UnderCalls ==
    ASSUME Stacks, NEW c \in Tasks
    PROVE  /\ Under(c) \in Seq(Calls) /\ stack[c] \in Seq(Calls)
           /\ stack[c] = <<>> => Under(c) = <<>>
           /\ stack[c] # <<>> => stack[c] = <<Top(c)>> \o Under(c) /\ Top(c) \in Calls
           /\ Under(c) # <<>> => /\ Head(Under(c)) \in Calls /\ Tail(Under(c)) \in Seq(Calls)
                                 /\ Under(c) = <<Head(Under(c))>> \o Tail(Under(c))
                                 /\ Range(Under(c)) = {Head(Under(c))} \cup Range(Tail(Under(c)))
<1>1. stack[c] \in Seq(Calls)
  BY DEF Stacks
<1>2. CASE stack[c] = <<>>
  BY <1>2 DEF Under
<1>3. CASE stack[c] # <<>>
  <2>1. Under(c) = Tail(stack[c]) /\ Top(c) = Head(stack[c])
    BY <1>3 DEF Under, Top
  <2>2. Under(c) \in Seq(Calls) /\ stack[c] = <<Top(c)>> \o Under(c) /\ Top(c) \in Calls
    BY <1>1, <1>3, <2>1, SplitCall
  <2> QED
    BY <1>1, <1>3, <2>2, SplitCall
<1> QED
  BY <1>2, <1>3

\* The steps of the module have these shapes.
LEMMA TurnsOf ==
    ASSUME Stacks, NEW c \in Tasks, NEW f \in Calls, Become(c, f),
           stack[c] # <<>> => f.op = Top(c).op /\ (f.op \in Launches => f.name = Top(c).name)
    PROVE  TurnsTo(c, f)
  BY DEF Stacks, Become, TurnsTo, Same

\* A call that runs another, one that it needs, ..
LEMMA MakesOf ==
    ASSUME Stacks, NEW c \in Tasks, stack[c] # <<>>, NEW f \in Calls, f.op = "start",
           NEW p \in Pcs, Call(c, f, p), Top(c).op \in Launches => f.name = Needs[Top(c).name]
    PROVE  Makes(c, f, [Top(c) EXCEPT !.pc = p])
<1>1. Top(c) \in Calls /\ Under(c) \in Seq(Calls)
  BY UnderCalls
<1>2. PICK g : g = [Top(c) EXCEPT !.pc = p]
  OBVIOUS
<1>3. g \in Calls /\ g.op = Top(c).op /\ g.name = Top(c).name
  BY <1>1, <1>2, Parts
<1>4. <<f, g>> \o Under(c) = <<f>> \o (<<g>> \o Under(c))
  BY <1>1, <1>3, PushedTwo
<1>5. stack' = [stack EXCEPT ![c] = <<f, g>> \o Under(c)]
  BY <1>2 DEF Call
<1>6. stack'[c] = <<f, g>> \o Under(c) /\ Same(c)
  BY <1>5 DEF Stacks, Same
<1> QED
  BY <1>2, <1>3, <1>4, <1>6 DEF Makes

\* .. and one that ends.
LEMMA EndsOf ==
    ASSUME Stacks, NEW c \in Tasks, NEW b \in BOOLEAN, Return(c, b)
    PROVE  Ends(c, b)
<1>1. CASE Under(c) = <<>>
  <2>1. stack' = [stack EXCEPT ![c] = <<>>]
    BY <1>1 DEF Return
  <2> QED
    BY <2>1, <1>1 DEF Stacks, Ends, Same
<1>2. CASE Under(c) # <<>>
  <2>1. Head(Under(c)) \in Calls
    BY <1>2, UnderCalls
  <2>2. PICK g \in Calls : g = [Head(Under(c)) EXCEPT !.ok = b]
    BY <2>1, Parts
  <2>3. Like(g, Head(Under(c))) /\ g.ok = b
    BY <2>1, <2>2, Parts
  <2>4. stack' = [stack EXCEPT ![c] = <<g>> \o Tail(Under(c))]
    BY <1>2, <2>2 DEF Return
  <2>5. stack'[c] = <<g>> \o Tail(Under(c)) /\ Same(c)
    BY <2>4 DEF Stacks, Same
  <2> QED
    BY <1>2, <2>3, <2>5 DEF Ends
<1> QED
  BY <1>1, <1>2

\* What is on the stack then
LEMMA TurnsRange ==
    ASSUME Stacks, NEW c \in Tasks, NEW f, TurnsTo(c, f)
    PROVE  /\ stack'[c] # <<>> /\ Top(c)' = f /\ Under(c)' = Under(c)
           /\ Range(stack'[c]) = {f} \cup Range(Under(c))
<1>1. Under(c) \in Seq(Calls) /\ f \in Calls /\ stack'[c] = <<f>> \o Under(c)
  BY UnderCalls DEF TurnsTo
<1>2. /\ stack'[c] # <<>> /\ Head(stack'[c]) = f /\ Tail(stack'[c]) = Under(c)
      /\ Range(stack'[c]) = {f} \cup Range(Under(c))
  BY <1>1, PushedCall
<1> QED
  BY <1>2 DEF Top, Under

\* What is on a stack after a call made another, ..
LEMMA MakesRange ==
    ASSUME Stacks, NEW c \in Tasks, NEW f, NEW g, Makes(c, f, g)
    PROVE  /\ stack'[c] # <<>> /\ Top(c)' = f
           /\ Range(stack'[c]) = {f, g} \cup Range(Under(c))
<1>1. PICK r : r = <<g>> \o Under(c)
  OBVIOUS
<1>2. Under(c) \in Seq(Calls) /\ f \in Calls /\ g \in Calls /\ stack'[c] = <<f>> \o r
  BY <1>1, UnderCalls DEF Makes
<1>3. r \in Seq(Calls) /\ Range(r) = {g} \cup Range(Under(c))
  BY <1>1, <1>2, PushedCall
<1>4. /\ stack'[c] # <<>> /\ Head(stack'[c]) = f
      /\ Range(stack'[c]) = {f} \cup Range(r)
  BY <1>2, <1>3, PushedCall
<1> QED
  BY <1>3, <1>4 DEF Top

\* .. and after one ended: what was under it, with its result on top.
LEMMA EndsRange ==
    ASSUME Stacks, NEW c \in Tasks, NEW b, Ends(c, b)
    PROVE  /\ \A g \in Range(stack'[c]) : \E f \in Range(Under(c)) : Like(g, f)
           /\ stack'[c] # <<>> => /\ Under(c) # <<>> /\ Like(Top(c)', Head(Under(c)))
                                  /\ Top(c)'.ok = b /\ Head(Under(c)) \in Range(Under(c))
<1>1. CASE Under(c) = <<>>
  BY <1>1 DEF Ends, Range
<1>2. CASE Under(c) # <<>>
  <2>1. PICK g \in Calls : /\ Like(g, Head(Under(c))) /\ g.ok = b
                           /\ stack'[c] = <<g>> \o Tail(Under(c))
    BY <1>2 DEF Ends
  <2>2. Tail(Under(c)) \in Seq(Calls) /\ Range(Under(c)) = {Head(Under(c))} \cup Range(Tail(Under(c)))
    BY <1>2, UnderCalls
  <2>3. /\ stack'[c] # <<>> /\ Head(stack'[c]) = g
        /\ Range(stack'[c]) = {g} \cup Range(Tail(Under(c)))
    BY <2>1, <2>2, PushedCall
  <2>4. \A f : Like(f, f)
    BY DEF Like
  <2> QED
    BY <1>2, <2>1, <2>2, <2>3, <2>4 DEF Top
<1> QED
  BY <1>1, <1>2

-----------------------------------------------------------------------------
(* Chains of calls *)

\* A call on top of one that it is linked to makes a longer chain.
LEMMA ChainPush ==
    ASSUME NEW f \in Calls, NEW r \in Seq(Calls), Chained(r), r # <<>> => Link(f, Head(r))
    PROVE  Chained(<<f>> \o r)
<1> DEFINE t == <<f>> \o r
<1>1. /\ Len(t) = Len(r) + 1 /\ Len(r) \in Nat
      /\ t[1] = f /\ \A i \in 2..(Len(r) + 1) : t[i] = r[i - 1]
  BY PushedCall
<1> HIDE DEF t
<1>2. ASSUME NEW i \in 1 .. (Len(t) - 1) PROVE Link(t[i], t[i + 1])
  <2>1. CASE i = 1
    <3>1. Len(r) # 0
      BY <1>1, <1>2
    <3>2. r # <<>> /\ r[1] = Head(r)
      BY <3>1
    <3>3. t[i] = f /\ t[i + 1] = r[1]
      BY <1>1, <1>2, <2>1
    <3> QED
      BY <3>2, <3>3
  <2>2. CASE i # 1
    <3>1. /\ i - 1 \in 1 .. (Len(r) - 1) /\ t[i] = r[i - 1] /\ t[i + 1] = r[(i - 1) + 1]
      BY <1>1, <1>2, <2>2
    <3> QED
      BY <3>1 DEF Chained
  <2> QED
    BY <2>1, <2>2
<1> QED
  BY <1>2 DEF Chained, t

\* What is under the first call of a chain is a chain, and the first is linked to it.
LEMMA ChainTail ==
    ASSUME NEW s \in Seq(Calls), s # <<>>, Chained(s)
    PROVE  Chained(Tail(s)) /\ (Tail(s) # <<>> => Link(Head(s), Head(Tail(s))))
<1>1. /\ Tail(s) \in Seq(Calls) /\ Len(s) = Len(Tail(s)) + 1 /\ Len(Tail(s)) \in Nat
      /\ s[1] = Head(s) /\ \A i \in 2..Len(s) : s[i] = Tail(s)[i - 1]
  BY SplitCall
<1>2. PICK r \in Seq(Calls) : r = Tail(s)
  BY <1>1
<1>3. ASSUME NEW i \in 1 .. (Len(r) - 1) PROVE Link(r[i], r[i + 1])
  <2>1. /\ i + 1 \in 1 .. (Len(s) - 1) /\ s[i + 1] = r[i] /\ s[(i + 1) + 1] = r[i + 1]
    BY <1>1, <1>2, <1>3
  <2> QED
    BY <2>1 DEF Chained
<1>4. ASSUME r # <<>> PROVE Link(Head(s), Head(r))
  <2>1. Len(r) # 0 /\ r[1] = Head(r)
    BY <1>4, <1>2, EmptySeq
  <2>2. 1 \in 1 .. (Len(s) - 1) /\ s[1 + 1] = r[1]
    BY <1>1, <1>2, <2>1
  <2> QED
    BY <2>1, <2>2, <1>1 DEF Chained
<1> QED
  BY <1>2, <1>3, <1>4 DEF Chained

\* No call is a chain.
LEMMA EmptyChained == Chained(<<>>)
  BY DEF Chained

\* What is under a call, and the link to it
LEMMA ChainUnder ==
    ASSUME Stacks, Chains, NEW c \in Tasks
    PROVE  Chained(Under(c)) /\ (Under(c) # <<>> => stack[c] # <<>> /\ Link(Top(c), Head(Under(c))))
<1>1. CASE stack[c] = <<>>
  BY <1>1, EmptyChained DEF Under
<1>2. CASE stack[c] # <<>>
  BY <1>2, UnderCalls, ChainTail DEF Chains, Under, Top
<1> QED
  BY <1>1, <1>2

\* A step of a stack leaves chains.
LEMMA ChainsKept ==
    ASSUME Stacks, Chains, NEW c \in Tasks,
           \/ \E f : TurnsTo(c, f)
           \/ \E f, g : Makes(c, f, g)
           \/ \E b : Ends(c, b)
    PROVE  Chains'
<1>1. Under(c) \in Seq(Calls) /\ Chained(Under(c))
  BY UnderCalls, ChainUnder
<1>2. Chained(stack'[c])
  <2>1. ASSUME NEW f, TurnsTo(c, f) PROVE Chained(stack'[c])
    <3>1. Under(c) # <<>> => Link(f, Head(Under(c)))
      BY <2>1, ChainUnder DEF TurnsTo, Link
    <3> QED
      BY <2>1, <3>1, <1>1, ChainPush DEF TurnsTo
  <2>2. ASSUME NEW f, NEW g, Makes(c, f, g) PROVE Chained(stack'[c])
    <3>1. PICK r : r = <<g>> \o Under(c)
      OBVIOUS
    <3>2. Under(c) # <<>> => Link(g, Head(Under(c)))
      BY <2>2, ChainUnder DEF Makes, Link
    <3>3. g \in Calls /\ f \in Calls /\ r \in Seq(Calls) /\ Head(r) = g
      BY <2>2, <3>1, <1>1, PushedCall DEF Makes
    <3>4. Chained(r)
      BY <3>1, <3>2, <3>3, <1>1, ChainPush
    <3>5. Link(f, g)
      BY <2>2 DEF Makes, Link, Launches
    <3> QED
      BY <2>2, <3>1, <3>3, <3>4, <3>5, ChainPush DEF Makes
  <2>3. ASSUME NEW b, Ends(c, b) PROVE Chained(stack'[c])
    <3>1. CASE Under(c) = <<>>
      BY <2>3, <3>1, EmptyChained DEF Ends
    <3>2. CASE Under(c) # <<>>
      <4>1. PICK g \in Calls : Like(g, Head(Under(c))) /\ stack'[c] = <<g>> \o Tail(Under(c))
        BY <2>3, <3>2 DEF Ends
      <4>2. /\ Tail(Under(c)) \in Seq(Calls) /\ Chained(Tail(Under(c)))
            /\ Tail(Under(c)) # <<>> => Link(Head(Under(c)), Head(Tail(Under(c))))
        BY <1>1, <3>2, ChainTail, UnderCalls
      <4>3. Tail(Under(c)) # <<>> => Link(g, Head(Tail(Under(c))))
        BY <4>1, <4>2 DEF Like, Link
      <4> QED
        BY <4>1, <4>2, <4>3, ChainPush
    <3> QED
      BY <3>1, <3>2
  <2> QED
    BY <2>1, <2>2, <2>3
<1>3. \A d \in Tasks \ {c} : stack'[d] = stack[d]
  BY DEF TurnsTo, Makes, Ends, Same
<1> QED
  BY <1>2, <1>3 DEF Chains

\* A playbook whose start is under another start of it never starts.
LEMMA Single ==
    ASSUME Stacks, Chains, NEW c \in Tasks, stack[c] # <<>>, NEW h \in Range(Under(c)),
           h.op \in Launches, h.name = Top(c).name
    PROVE  Top(c).name \in Endless
<1>1. PICK s \in Seq(Calls) : s = stack[c]
  BY UnderCalls
<1>2. /\ s # <<>> /\ Head(s) = Top(c) /\ Tail(s) = Under(c) /\ Tail(s) \in Seq(Calls)
      /\ Len(s) = Len(Tail(s)) + 1 /\ Len(Tail(s)) \in Nat /\ s[1] = Head(s)
      /\ \A i \in 2..Len(s) : s[i] = Tail(s)[i - 1]
  BY <1>1, SplitCall DEF Top, Under
<1>3. PICK k \in 1 .. Len(Tail(s)) : h = Tail(s)[k]
  BY <1>2 DEF Range
<1>4. PICK j \in 2 .. Len(s) : s[j] = h
  <2>1. k + 1 \in 2 .. Len(s) /\ s[k + 1] = h
    BY <1>2, <1>3
  <2> QED
    BY <2>1
<1>5. Len(s) \in Nat /\ j \in Nat
  BY <1>2, <1>4
<1>6. \A i \in 1 .. (j - 1) : Link(s[i], s[i + 1])
  <2>1. \A i \in 1 .. (j - 1) : i \in 1 .. (Len(s) - 1)
    BY <1>4, <1>5
  <2> QED
    BY <2>1, <1>1 DEF Chains, Chained
<1> DEFINE S == {s[i].name : i \in 1 .. j}
<1>7. \A i \in 1 .. j : s[i].op \in Launches
  <2> TAKE i \in 1 .. j
  <2>1. CASE i = j
    BY <2>1, <1>4
  <2>2. CASE i # j
    <3>1. i \in 1 .. (j - 1)
      BY <2>2, <1>5
    <3> QED
      BY <3>1, <1>6 DEF Link
  <2> QED
    BY <2>1, <2>2
<1>8. S \subseteq Names
  <2>1. ASSUME NEW i \in 1 .. j PROVE s[i].name \in Names
    <3>1. i \in 1 .. Len(s) /\ DOMAIN s = 1 .. Len(s)
      BY <1>4, <1>5, LenProperties
    <3>2. s[i] \in Range(stack[c])
      BY <3>1, <1>1 DEF Range
    <3>3. CallOK(c, s[i])
      BY <3>2 DEF Stacks, StackOK
    <3> QED
      BY <3>3, <1>7 DEF CallOK, Launches
  <2> QED
    BY <2>1
<1>9. ASSUME NEW i \in 1 .. j PROVE Needs[s[i].name] \in S
  <2>1. ASSUME NEW l \in 2 .. j PROVE Needs[s[l].name] \in S
    <3>1. l - 1 \in 1 .. (j - 1) /\ l - 1 \in 1 .. j /\ (l - 1) + 1 = l /\ l \in 1 .. j
      BY <1>5
    <3>2. Link(s[l - 1], s[l]) /\ s[l].op \in Launches
      BY <3>1, <1>6, <1>7
    <3>3. s[l - 1].name = Needs[s[l].name]
      BY <3>2 DEF Link
    <3> QED
      BY <3>1, <3>3
  <2>2. CASE i # 1
    <3>1. i \in 2 .. j
      BY <2>2, <1>5
    <3> QED
      BY <2>1, <3>1
  <2>3. CASE i = 1
    <3>1. s[i].name = s[j].name /\ j \in 2 .. j
      BY <2>3, <1>2, <1>4, <1>5
    <3> QED
      BY <2>1, <3>1
  <2> QED
    BY <2>2, <2>3
<1>10. Bottomless(S)
  BY <1>9 DEF Bottomless
<1>11. Top(c).name \in S
  <2>1. 1 \in 1 .. j /\ s[1] = Top(c)
    BY <1>2, <1>4, <1>5
  <2> QED
    BY <2>1
<1> HIDE DEF S
<1>12. S \in SUBSET Names
  BY <1>8
<1> QED
  BY <1>10, <1>11, <1>12 DEF Endless

\* What an endless playbook needs is endless.
LEMMA EndlessNeeds ==
    /\ Endless \subseteq Names
    /\ \A n \in Endless : Needs[n] \in Endless /\ Needs[n] # None
<1>1. Endless \subseteq Names
  BY DEF Endless
<1>2. ASSUME NEW n \in Endless PROVE Needs[n] \in Endless
  <2>1. PICK S \in SUBSET Names : Bottomless(S) /\ n \in S
    BY DEF Endless
  <2>2. Needs[n] \in S
    BY <2>1 DEF Bottomless
  <2> QED
    BY <2>1, <2>2 DEF Endless
<1> QED
  BY <1>1, <1>2, NoneNoName

-----------------------------------------------------------------------------
(* What holds of the calls of a playbook, and of its answers *)

\* A worker, or a row, is what call f is to start.
Matches(w, f) == w.http = f.arg /\ w.path = f.path /\ w.ver = f.ver

\* Where a call of one task's own playbook is, in the map, in the tables and on disk
FrameOK(f) ==
  LET n == f.name
  IN /\ n \in Endless /\ f.op \in Launches => f.pc \notin {"worker"} \cup Built
     /\ n \in (Names \ raced) \ Endless /\ f.pc # "begin" =>
          /\ f.op \in Launches => workers[n] = None
          /\ f.op = "start" /\ f.pc \in Past => n \in dir
          /\ f.op = "resume" /\ f.pc \in Past => db[n] # None /\ Matches(db[n], f)
          /\ f.pc \in Built => Matches(f.worker, f) /\ (f.path => sock[n] = f.worker.id)
          /\ f.op \in Launches /\ f.pc = "insert" => Running(n) /\ Matches(db[n], f)
          /\ f.pc = "rmdir" => db[n] = None /\ wanted[n] = "any"

Frames == \A c \in Tasks : \A f \in Range(stack[c]) : FrameOK(f)

\* A worker is the one its row and its socket path tell of; its address may be lost by a step
\* that failed.
Reachable(n) == workers[n] # None =>
  LET w == workers[n]
  IN /\ Running(n) /\ w.ver = db[n].ver /\ w.http \in {None, db[n].http} /\ w.path = db[n].path
     /\ w.path => sock[n] = w.id
     /\ faults = 0 => w.http = db[n].http

\* The answers hold while calls are under way too; a playbook whose start never ends is not there.
Absent(n) ==
  /\ workers[n] = None /\ db[n] = None /\ wanted[n] \in {"any", "gone"}
  /\ wanted[n] = "gone" => n \notin dir

AnswerOK(n) ==
  /\ n \in Endless => Absent(n)
  /\ n \notin raced =>
       /\ db[n] # None => n \in dir
       /\ Reachable(n)
       /\ wanted[n] = "run" => Running(n)
       /\ wanted[n] = "stop" => workers[n] = None /\ ~Running(n) /\ n \in dir
       /\ wanted[n] = "gone" => workers[n] = None /\ db[n] = None /\ n \notin dir

Answers == faults \in Nat /\ \A n \in Names : AnswerOK(n)

\* A playbook that a step does not touch; its worker may learn of a callback.
Stays(m) ==
  /\ db'[m] = db[m] /\ wanted'[m] = wanted[m] /\ sock'[m] = sock[m] /\ (m \in dir' <=> m \in dir)
  /\ workers'[m] = None <=> workers[m] = None
  /\ workers[m] # None => /\ workers'[m].id = workers[m].id /\ workers'[m].http = workers[m].http
                          /\ workers'[m].path = workers[m].path /\ workers'[m].ver = workers[m].ver

\* What a call says of its playbook holds after a step that does not touch the playbook.
LEMMA FrameStays ==
  ASSUME raced \subseteq raced', NEW f, FrameOK(f), f.name \in Names => Stays(f.name),
         NEW g, Like(g, f)
  PROVE  FrameOK(g)'
  BY DEF FrameOK, Like, Stays, Matches, Running, ListRows, GetRow, Endless

\* So does what the playbook was answered.
LEMMA AnswerStays ==
  ASSUME raced \subseteq raced', NEW m \in Names, AnswerOK(m), Stays(m),
         faults' = faults \/ faults' # 0
  PROVE  AnswerOK(m)'
  BY DEF AnswerOK, Absent, Stays, Reachable, Running, ListRows, GetRow

\* An endless playbook is absent, and needs nothing else.
LEMMA AbsentAnswer ==
  ASSUME NEW m \in Names, m \in Endless, Absent(m) PROVE AnswerOK(m)
  BY DEF AnswerOK, Absent, Reachable

\* The calls that wait under the one that runs are of other playbooks, or say nothing.
LEMMA UnderFrames ==
  ASSUME Stacks, Chains, Frames, NEW c \in Tasks, NEW n,
         n = None \/ stack[c] = <<>> \/ n = Top(c).name,
         \A m \in Names \ {n} : Stays(m), raced \subseteq raced'
  PROVE  \A f \in Range(Under(c)) : \A g : Like(g, f) => FrameOK(g)'
<1> SUFFICES ASSUME NEW f \in Range(Under(c)), NEW g, Like(g, f) PROVE FrameOK(g)'
  OBVIOUS
<1>1. /\ stack[c] # <<>> /\ f \in Calls /\ CallOK(c, f) /\ f.pc \in Waits
      /\ f \in Range(stack[c]) /\ Top(c) \in Calls
  BY IdleUnder, Peek
<1>2. FrameOK(f)
  BY <1>1 DEF Frames
<1>3. CASE f.name # n
  BY <1>2, <1>3, FrameStays
<1>4. CASE f.name = n /\ f.op \notin Launches
  BY <1>1, <1>4 DEF FrameOK, Like, Waits, Built, Past, Launches, CallOK, Places
<1>5. CASE f.name = n /\ f.op \in Launches
  <2>1. f.name \in Names
    BY <1>1, <1>5 DEF CallOK, Launches
  <2>2. n = Top(c).name
    BY <1>1, <1>5, <2>1, NoneNoName
  <2>3. n \in Endless
    BY <1>1, <1>5, <2>2, Single
  <2>4. f.pc \notin {"worker"} \cup Built
    BY <1>1 DEF Waits, Built
  <2> QED
    BY <1>5, <2>3, <2>4 DEF FrameOK, Like, Endless
<1> QED
  BY <1>3, <1>4, <1>5

\* Only an update stands at "stop".
LEMMA StopPlace ==
  ASSUME NEW c, NEW f, CallOK(c, f) PROVE f.pc = "stop" => f.op = "update"
  BY DEF CallOK, Places, Past, Built

\* What a step of task c about playbook n has to show: the answer of n, and the new calls
LEMMA FocusKept ==
  ASSUME Stacks, Alone, Chains, Frames, Answers, NEW c \in Tasks, NEW n \in Names \cup {None},
         n = None \/ stack[c] = <<>> \/ n = Top(c).name,
         n \in Names => OnIt(c, n) \/ raced' = Raced(c, n),
         raced \subseteq raced', faults' \in Nat, faults' = faults \/ faults' # 0,
         \A m \in Names \ {n} : Stays(m),
         n \in Names => AnswerOK(n)',
         \/ \E f : TurnsTo(c, f) /\ FrameOK(f)'
         \/ \E f, g : Makes(c, f, g) /\ f.pc = "begin" /\ FrameOK(g)'
         \/ \E b : Ends(c, b)
  PROVE  Chains' /\ Frames' /\ Answers'
<1>1. Chains'
  BY ChainsKept
<1>2. Answers'
  BY AnswerStays DEF Answers
<1>3. \A f \in Range(Under(c)) : \A g : Like(g, f) => FrameOK(g)'
  BY UnderFrames
<1>4. \A f \in Range(stack'[c]) : FrameOK(f)'
  <2>0. \A f : Like(f, f)
    BY DEF Like
  <2>1. CASE \E f : TurnsTo(c, f) /\ FrameOK(f)'
    BY <2>0, <2>1, <1>3, TurnsRange
  <2>2. CASE \E f, g : Makes(c, f, g) /\ f.pc = "begin" /\ FrameOK(g)'
    <3>1. PICK f, g : Makes(c, f, g) /\ f.pc = "begin" /\ FrameOK(g)'
      BY <2>2
    <3>2. FrameOK(f)'
      BY <3>1 DEF FrameOK, Built
    <3> QED
      <4>1. Range(stack'[c]) = {f, g} \cup Range(Under(c))
        BY <3>1, MakesRange
      <4> QED
        BY ONLY <2>0, <3>1, <3>2, <1>3, <4>1
  <2>3. CASE \E b : Ends(c, b)
    BY <2>3, <1>3, EndsRange
  <2> QED
    BY <2>1, <2>2, <2>3
<1>5. ASSUME NEW d \in Tasks \ {c}, NEW f \in Range(stack[d]) PROVE FrameOK(f)'
  <2>1. FrameOK(f) /\ CallOK(d, f)
    BY <1>5 DEF Frames, Stacks, StackOK
  <2>2. CASE f.name # n
    BY <2>1, <2>2, FrameStays DEF Like
  <2>3. CASE f.name = n
    <3>1. f.name \notin raced' /\ f.name \in Names /\ f.pc # "begin" => f.pc = "stop"
      <4> SUFFICES ASSUME n \notin raced', n \in Names, f.pc # "begin", f.pc # "stop" PROVE FALSE
        BY <2>3
      <4>1. f \in Begun(d)
        BY <1>5 DEF Begun
      <4>2. OnIt(d, n) /\ Contended(c, n)
        BY <4>1, <2>3, <1>5 DEF OnIt, Contended
      <4>3. n \notin raced
        OBVIOUS
      <4> QED
        BY <4>2, <4>3, <1>5 DEF Alone, Raced
    <3>2. f.pc = "stop" => f.op = "update"
      BY <2>1, StopPlace
    <3> QED
      BY <2>1, <3>1, <3>2 DEF FrameOK, Launches, Built, Past, Endless
  <2> QED
    BY <2>2, <2>3
<1>6. \A d \in Tasks \ {c} : stack'[d] = stack[d]
  BY DEF TurnsTo, Makes, Ends, Same
<1> QED
  BY <1>1, <1>2, <1>4, <1>5, <1>6 DEF Frames

\* What the steps rely on
Sound == Base /\ Listed /\ Chains /\ Frames /\ Answers

\* The call that runs
LEMMA TopFrame ==
  ASSUME Sound, NEW c \in Tasks, NEW op, NEW p, At(c, op, p)
  PROVE  /\ stack[c] # <<>> /\ Top(c) \in Calls /\ CallOK(c, Top(c)) /\ FrameOK(Top(c))
         /\ Top(c).op \in op /\ Top(c).pc = p /\ Subject(c) = Top(c).name
         /\ p \notin {"begin", "stop"} /\ Top(c).op # "boot" => OnIt(c, Subject(c))
         /\ Top(c).op # "boot" => Subject(c) \in Names /\ AnswerOK(Subject(c))
         /\ Stacks
<1>1. /\ stack[c] # <<>> /\ Top(c) \in Calls /\ CallOK(c, Top(c))
      /\ Top(c).op \in op /\ Top(c).pc = p /\ Stacks
      /\ Top(c) \in Range(stack[c])
      /\ Top(c).op # "boot" => Subject(c) \in Names
  BY AtCall DEF Sound, Base
<1>2. FrameOK(Top(c))
  BY <1>1 DEF Sound, Frames
<1>3. p \notin {"begin", "stop"} => OnIt(c, Subject(c))
  BY <1>1 DEF OnIt, Begun, Subject
<1> QED
  BY <1>1, <1>2, <1>3 DEF Sound, Answers, Subject

\* A fault is counted.
LEMMA FaultCounted ==
  ASSUME faults \in Nat, faults' = faults \/ Fault
  PROVE  faults' \in Nat /\ (faults' = faults \/ faults' # 0)
  BY DEF Fault

\* A step at a place of a call that has begun
LEMMA PlaceKept ==
  ASSUME Sound, NEW c \in Tasks, NEW op, NEW p, At(c, op, p), "boot" \notin op,
         p \notin {"begin", "stop"},
         NEW n \in Names, n = Subject(c),
         raced' = raced, faults' = faults \/ Fault, AnswerOK(n)', \A m \in Names \ {n} : Stays(m),
         \/ \E f : TurnsTo(c, f) /\ FrameOK(f)'
         \/ \E b : Ends(c, b)
  PROVE  Chains' /\ Frames' /\ Answers'
<1>1. OnIt(c, n) /\ n = Top(c).name
  BY TopFrame, NoneNoName
<1>2. Stacks /\ Alone /\ Chains /\ Frames /\ Answers /\ faults \in Nat
  BY DEF Sound, Base, Answers
<1> QED
  BY <1>1, <1>2, FaultCounted, FocusKept

\* A step that changes nothing but the stack
LEMMA CalmFrames ==
  ASSUME Sound, NEW c \in Tasks, UNCHANGED <<workers, db, dir, sock, wanted, raced>>,
         faults' = faults \/ Fault,
         \/ \E f : TurnsTo(c, f) /\ FrameOK(f)'
         \/ \E f, g : Makes(c, f, g) /\ f.pc = "begin" /\ FrameOK(g)'
         \/ \E b : Ends(c, b)
  PROVE  Chains' /\ Frames' /\ Answers'
<1>1. \A m \in Names : Stays(m)
  BY DEF Stays
<1>2. Stacks /\ Alone /\ Chains /\ Frames /\ Answers /\ faults \in Nat
  BY DEF Sound, Base, Answers
<1> QED
  BY <1>1, <1>2, FaultCounted, FocusKept, NoneNoName

\* A call that goes to another place
LEMMA GotoTurn ==
  ASSUME Sound, NEW c \in Tasks, NEW op, NEW p, At(c, op, p), NEW q \in Pcs, Goto(c, q)
  PROVE  \E f \in Calls : /\ TurnsTo(c, f) /\ f.pc = q /\ f.op = Top(c).op /\ f.name = Top(c).name
                          /\ f.arg = Top(c).arg /\ f.path = Top(c).path /\ f.ver = Top(c).ver
                          /\ f.worker = Top(c).worker
<1>1. PICK f \in Calls : f = [Top(c) EXCEPT !.pc = q] /\ Become(c, f)
  BY TopFrame, Parts DEF Goto
<1>2. /\ f.pc = q /\ f.op = Top(c).op /\ f.name = Top(c).name /\ f.arg = Top(c).arg
      /\ f.path = Top(c).path /\ f.ver = Top(c).ver /\ f.worker = Top(c).worker
  BY <1>1, TopFrame, Parts
<1>3. TurnsTo(c, f)
  BY <1>1, <1>2, TopFrame, TurnsOf
<1> QED
  BY <1>2, <1>3

\* Reading the row of a start keeps Frames and Answers.
LEMMA StartGetRowFrames ==
  ASSUME Sound, NEW c \in Tasks, StartGetRow(c) PROVE Chains' /\ Frames' /\ Answers'
<1>1. At(c, {"start"}, "row")
  BY DEF StartGetRow
<1>2. PICK p \in {"delete", "dirs"} : Goto(c, p)
  BY DEF StartGetRow
<1>3. PICK f \in Calls :
        /\ TurnsTo(c, f) /\ f.pc = p /\ f.op = Top(c).op /\ f.name = Top(c).name
        /\ f.arg = Top(c).arg /\ f.path = Top(c).path /\ f.ver = Top(c).ver
        /\ f.worker = Top(c).worker
  BY <1>1, <1>2, GotoTurn DEF Pcs
<1>4. UNCHANGED <<workers, db, dir, sock, wanted, raced, faults>>
  BY DEF StartGetRow, memVars, diskVars, ghosts, counts
<1>5. FrameOK(f)'
  BY <1>1, <1>3, <1>4, TopFrame DEF FrameOK, Past, Built, Launches, Endless
<1> QED
  BY <1>3, <1>4, <1>5, CalmFrames

\* Making the directories keeps them: the row of a start has been deleted, and comes back later.
LEMMA MakeDirsFrames ==
  ASSUME Sound, NEW c \in Tasks, MakeDirs(c) PROVE Chains' /\ Frames' /\ Answers'
<1>1. At(c, {"start"}, "dirs")
  BY DEF MakeDirs
<1>2. PICK n \in Names : n = Subject(c)
  BY <1>1, TopFrame
<1>3. AfterLoad(n) \in {"interconnect", "worker"} /\ (n \in Endless => AfterLoad(n) = "interconnect")
  BY EndlessNeeds DEF AfterLoad
<1>4. PICK f \in Calls :
        /\ TurnsTo(c, f) /\ f.pc = AfterLoad(n) /\ f.op = Top(c).op /\ f.name = Top(c).name
        /\ f.arg = Top(c).arg /\ f.path = Top(c).path /\ f.ver = Top(c).ver
        /\ f.worker = Top(c).worker
  BY <1>1, <1>2, <1>3, GotoTurn DEF Pcs, Past, MakeDirs
<1>5. /\ UNCHANGED <<workers, db, sock, raced, faults>> /\ dir' = dir \cup {n}
      /\ wanted' = [wanted EXCEPT ![n] = "any"] /\ Mem
  BY <1>2 DEF MakeDirs, memVars, counts, Sound, Base
<1>6. wanted'[n] = "any" /\ \A m \in Names \ {n} : Stays(m)
  BY <1>5 DEF Stays, Mem
<1>7. AnswerOK(n)'
  BY <1>1, <1>2, <1>5, <1>6, TopFrame DEF AnswerOK, Absent, Reachable, Running, ListRows, GetRow
<1>8. FrameOK(f)'
  BY <1>1, <1>2, <1>3, <1>4, <1>5, TopFrame DEF FrameOK, Past, Built, Launches, Endless
<1> QED
  BY <1>1, <1>2, <1>4, <1>5, <1>6, <1>7, <1>8, PlaceKept

\* A call that starts or resumes a playbook
LEMMA LaunchCall ==
  ASSUME NEW c, NEW f, CallOK(c, f), f.op \in Launches
  PROVE  /\ f.arg \in Addrs \cup {None} /\ f.name \in Names
         /\ IF f.pc \in Built THEN f.worker \in Worker ELSE f.worker = None
  BY DEF CallOK, Launches

\* The row start_playbook saves is one.
LEMMA SavedRow ==
  ASSUME NEW f \in Calls, f.arg \in Addrs \cup {None}
  PROVE  [status |-> "running", http |-> f.arg, path |-> f.path, ver |-> f.ver] \in Row
  BY DEF Calls, Row

\* Saving the row keeps them: the row is what the call is to start.
LEMMA SavePlaybookFrames ==
  ASSUME Sound, NEW c \in Tasks, SavePlaybook(c) PROVE Chains' /\ Frames' /\ Answers'
<1>1. At(c, {"start"}, "record")
  BY DEF SavePlaybook
<1>2. PICK n \in Names : n = Subject(c)
  BY <1>1, TopFrame
<1>3. n \notin Endless /\ FrameOK(Top(c)) /\ n = Top(c).name /\ AnswerOK(n)
  BY <1>1, <1>2, TopFrame DEF FrameOK, Built, Launches
<1>4. PICK f \in Calls :
        /\ TurnsTo(c, f) /\ f.pc = "insert" /\ f.op = Top(c).op /\ f.name = Top(c).name
        /\ f.arg = Top(c).arg /\ f.path = Top(c).path /\ f.ver = Top(c).ver
        /\ f.worker = Top(c).worker
  BY <1>1, GotoTurn DEF Pcs, Past, SavePlaybook
<1>5. /\ UNCHANGED <<workers, dir, sock, raced, faults>>
      /\ wanted' = [wanted EXCEPT ![n] = "any"] /\ Mem
      /\ db' = [db EXCEPT ![n] = [status |-> "running", http |-> Top(c).arg,
                                  path |-> Top(c).path, ver |-> Top(c).ver]]
  BY <1>2 DEF SavePlaybook, SaveRow, memVars, counts, Sound, Base
<1>6. /\ wanted'[n] = "any" /\ \A m \in Names \ {n} : Stays(m)
      /\ db'[n] # None /\ db'[n].status = "running" /\ Matches(db'[n], f)
  <2>1. Top(c) \in Calls /\ Top(c).arg \in Addrs \cup {None}
    BY <1>1, TopFrame, LaunchCall DEF Launches
  <2>2. db'[n] \in Row /\ db'[n] = [status |-> "running", http |-> Top(c).arg,
                                   path |-> Top(c).path, ver |-> Top(c).ver]
    BY <2>1, <1>5, SavedRow DEF Mem
  <2>3. db'[n] # None
    BY <2>2, NoneAssumption
  <2>4. db'[n].status = "running" /\ Matches(db'[n], f)
    BY <2>2, <1>4 DEF Matches
  <2>5. wanted'[n] = "any" /\ \A m \in Names \ {n} : Stays(m)
    BY <1>5 DEF Stays, Mem
  <2> QED
    BY <2>3, <2>4, <2>5
<1>7. AnswerOK(n)'
  BY <1>1, <1>3, <1>5, <1>6, TopFrame DEF AnswerOK, Reachable, FrameOK, Launches, Past, Built, Endless
<1>8. FrameOK(f)'
  BY <1>1, <1>3, <1>4, <1>5, <1>6, TopFrame
     DEF FrameOK, Past, Built, Launches, Endless, Matches, Running, ListRows, GetRow
<1> QED
  BY <1>1, <1>2, <1>4, <1>5, <1>6, <1>7, <1>8, PlaceKept

\* Putting the worker of a start into the map keeps them.
LEMMA StartInsertFrames ==
  ASSUME Sound, NEW c \in Tasks, StartInsert(c) PROVE Chains' /\ Frames' /\ Answers'
<1>1. At(c, {"start"}, "insert")
  BY DEF StartInsert
<1>2. PICK n \in Names : n = Subject(c)
  BY <1>1, TopFrame
<1>3. n \notin Endless /\ FrameOK(Top(c)) /\ n = Top(c).name /\ AnswerOK(n) /\ Top(c).op = "start"
  BY <1>1, <1>2, TopFrame DEF FrameOK, Built, Launches
<1>4. Ends(c, TRUE)
  BY <1>1, TopFrame, EndsOf DEF StartInsert
<1>5. /\ UNCHANGED <<db, dir, raced, faults>> /\ wanted' = [wanted EXCEPT ![n] = "run"] /\ Mem
      /\ workers' = [workers EXCEPT ![n] = Top(c).worker] /\ sock' = Unheard(n, workers[n])
  BY <1>2 DEF StartInsert, diskVars, counts, Sound, Base
<1>6. \A m \in Names \ {n} : Stays(m)
  BY <1>5 DEF Stays, Mem, Unheard
<1>7. AnswerOK(n)'
  <2> SUFFICES ASSUME n \notin raced PROVE AnswerOK(n)'
    BY <1>3, <1>5 DEF AnswerOK, Endless
  <2>1. /\ workers[n] = None /\ n \in dir /\ Running(n) /\ Matches(db[n], Top(c))
        /\ Matches(Top(c).worker, Top(c)) /\ (Top(c).path => sock[n] = Top(c).worker.id)
    BY <1>1, <1>3, TopFrame DEF FrameOK, Launches, Past, Built
  <2>2. sock' = sock /\ workers'[n] = Top(c).worker /\ wanted'[n] = "run"
    BY <2>1, <1>5 DEF Unheard, Mem
  <2> QED
    BY <2>1, <2>2, <1>3, <1>5 DEF AnswerOK, Reachable, Matches, Running, ListRows, GetRow, Endless
<1> QED
  <2>1. \E b : Ends(c, b)
    BY <1>4
  <2> QED
    BY <1>1, <1>2, <2>1, <1>5, <1>6, <1>7, PlaceKept

\* Reading the row of a resume keeps them: the call takes what the row says.
LEMMA ResumeGetRowFrames ==
  ASSUME Sound, NEW c \in Tasks, ResumeGetRow(c) PROVE Chains' /\ Frames' /\ Answers'
<1>1. At(c, {"resume"}, "row")
  BY DEF ResumeGetRow
<1>2. PICK n \in Names : n = Subject(c)
  BY <1>1, TopFrame
<1>3. /\ UNCHANGED <<workers, db, dir, sock, wanted, raced, faults>> /\ Mem
  BY DEF ResumeGetRow, memVars, diskVars, ghosts, counts, Sound, Base
<1>4. CASE db[n] = None
  <2>1. Ends(c, FALSE)
    BY <1>1, <1>2, <1>4, TopFrame, EndsOf DEF ResumeGetRow, GetRow
  <2> QED
    BY <2>1, <1>3, CalmFrames
<1>5. CASE db[n] # None
  <2>1. PICK f : f = [Top(c) EXCEPT !.pc = AfterLoad(n), !.arg = db[n].http,
                                    !.path = db[n].path, !.ver = db[n].ver]
    OBVIOUS
  <2>2. Become(c, f)
    BY <1>2, <1>5, <2>1 DEF ResumeGetRow, GetRow
  <2>3. db[n] \in Row /\ AfterLoad(n) \in {"interconnect", "worker"}
    BY <1>3, <1>5 DEF Mem, AfterLoad
  <2>4. /\ f \in Calls /\ f.op = Top(c).op /\ f.name = Top(c).name /\ f.pc = AfterLoad(n)
        /\ Matches(db[n], f)
    <3>1. /\ db[n].http \in Addrs \cup {None} /\ db[n].path \in BOOLEAN /\ db[n].ver \in Versions
          /\ AfterLoad(n) \in Pcs /\ Top(c) \in Calls
      BY <1>1, <2>3, TopFrame DEF Row, Pcs
    <3> QED
      BY <3>1, <2>1 DEF Calls, Matches
  <2>5. TurnsTo(c, f)
    BY <1>1, <2>2, <2>4, TopFrame, TurnsOf
  <2>6. n \notin Endless
    BY <1>1, <1>2, <1>5, TopFrame DEF AnswerOK, Absent
  <2>7. FrameOK(f)'
    BY <1>1, <1>2, <1>3, <1>5, <2>3, <2>4, <2>6, TopFrame
       DEF FrameOK, Matches, Launches, Past, Built, Endless
  <2> QED
    BY <2>5, <2>7, <1>3, CalmFrames
<1> QED
  BY <1>4, <1>5

\* A row with another status, or another address
LEMMA RowParts ==
  ASSUME NEW r \in Row
  PROVE  /\ \A s \in {"running", "stopped"} :
              /\ [r EXCEPT !.status = s] \in Row /\ [r EXCEPT !.status = s].status = s
              /\ [r EXCEPT !.status = s].http = r.http /\ [r EXCEPT !.status = s].path = r.path
              /\ [r EXCEPT !.status = s].ver = r.ver
         /\ \A a \in Addrs \cup {None} :
              /\ [r EXCEPT !.http = a] \in Row /\ [r EXCEPT !.http = a].status = r.status
              /\ [r EXCEPT !.http = a].http = a /\ [r EXCEPT !.http = a].path = r.path
              /\ [r EXCEPT !.http = a].ver = r.ver
  BY DEF Row

\* What WithStatus makes of a row
LEMMA StatusRow ==
  ASSUME Mem, NEW n \in Names, NEW s \in {"running", "stopped"}, db' = WithStatus(n, s)
  PROVE  /\ \A m \in Names \ {n} : db'[m] = db[m]
         /\ db[n] = None => db'[n] = None
         /\ db[n] # None => /\ db'[n] # None /\ db'[n].status = s /\ db'[n].http = db[n].http
                            /\ db'[n].path = db[n].path /\ db'[n].ver = db[n].ver
<1>1. CASE db[n] = None
  BY <1>1 DEF WithStatus
<1>2. CASE db[n] # None
  <2>1. PICK r \in Row : r = db[n]
    BY <1>2 DEF Mem
  <2>2. db' = [db EXCEPT ![n] = [r EXCEPT !.status = s]]
    BY <1>2, <2>1 DEF WithStatus
  <2>3. db'[n] = [r EXCEPT !.status = s] /\ \A m \in Names \ {n} : db'[m] = db[m]
    BY <2>2 DEF Mem
  <2> QED
    <3>1. /\ [r EXCEPT !.status = s] \in Row /\ [r EXCEPT !.status = s].status = s
          /\ [r EXCEPT !.status = s].http = r.http /\ [r EXCEPT !.status = s].path = r.path
          /\ [r EXCEPT !.status = s].ver = r.ver
      BY RowParts
    <3> QED
      BY <1>2, <2>1, <2>3, <3>1, NoneAssumption
<1> QED
  BY <1>1, <1>2

\* Setting the status of a resumed row keeps them.
LEMMA ResumeStatusFrames ==
  ASSUME Sound, NEW c \in Tasks, ResumeStatus(c) PROVE Chains' /\ Frames' /\ Answers'
<1>1. At(c, {"resume"}, "record")
  BY DEF ResumeStatus
<1>2. PICK n \in Names : n = Subject(c)
  BY <1>1, TopFrame
<1>3. /\ n \notin Endless /\ FrameOK(Top(c)) /\ n = Top(c).name /\ AnswerOK(n)
      /\ Top(c).op = "resume" /\ Top(c).pc = "record"
  BY <1>1, <1>2, TopFrame DEF FrameOK, Built, Launches
<1>4. PICK f \in Calls :
        /\ TurnsTo(c, f) /\ f.pc = "insert" /\ f.op = Top(c).op /\ f.name = Top(c).name
        /\ f.arg = Top(c).arg /\ f.path = Top(c).path /\ f.ver = Top(c).ver
        /\ f.worker = Top(c).worker
  BY <1>1, GotoTurn DEF Pcs, Past, ResumeStatus
<1>5. /\ UNCHANGED <<workers, dir, sock, raced, faults>>
      /\ wanted' = [wanted EXCEPT ![n] = "any"] /\ Mem /\ db' = WithStatus(n, "running")
  BY <1>2 DEF ResumeStatus, memVars, counts, Sound, Base
<1>6. wanted'[n] = "any" /\ \A m \in Names \ {n} : Stays(m)
  BY <1>5, StatusRow DEF Stays, Mem
<1>7. n \notin raced => /\ workers[n] = None /\ db[n] # None /\ n \in dir /\ Matches(db[n], Top(c))
                        /\ db'[n] # None /\ db'[n].status = "running" /\ Matches(db'[n], Top(c))
  BY <1>3, <1>5, StatusRow DEF FrameOK, AnswerOK, Launches, Past, Built, Matches
<1>8. AnswerOK(n)'
  BY <1>3, <1>5, <1>6, <1>7 DEF AnswerOK, Reachable, Endless
<1>9. FrameOK(f)'
  BY <1>3, <1>4, <1>5, <1>7
     DEF FrameOK, Past, Built, Launches, Endless, Matches, Running, ListRows, GetRow
<1> QED
  BY <1>1, <1>2, <1>4, <1>5, <1>6, <1>8, <1>9, PlaceKept

\* Putting the worker of a resume into the map keeps them.
LEMMA ResumeInsertFrames ==
  ASSUME Sound, NEW c \in Tasks, ResumeInsert(c) PROVE Chains' /\ Frames' /\ Answers'
<1>1. At(c, {"resume"}, "insert")
  BY DEF ResumeInsert
<1>2. PICK n \in Names : n = Subject(c)
  BY <1>1, TopFrame
<1>3. /\ n \notin Endless /\ FrameOK(Top(c)) /\ n = Top(c).name /\ AnswerOK(n)
      /\ Top(c).op = "resume" /\ Top(c).pc = "insert"
  BY <1>1, <1>2, TopFrame DEF FrameOK, Built, Launches
<1>4. \E b : Ends(c, b)
  BY <1>1, TopFrame, EndsOf DEF ResumeInsert
<1>5. /\ UNCHANGED <<db, dir, sock, raced, faults>> /\ wanted' = [wanted EXCEPT ![n] = "run"] /\ Mem
      /\ workers' = [workers EXCEPT ![n] = Top(c).worker]
  BY <1>2 DEF ResumeInsert, diskVars, counts, Sound, Base
<1>6. /\ \A m \in Names \ {n} : Stays(m)
      /\ workers'[n] = Top(c).worker /\ wanted'[n] = "run"
  BY <1>5 DEF Stays, Mem
<1>7. AnswerOK(n)'
  <2> SUFFICES ASSUME n \notin raced PROVE AnswerOK(n)'
    BY <1>3, <1>5 DEF AnswerOK, Endless
  <2>1. /\ Running(n) /\ Matches(db[n], Top(c))
        /\ Matches(Top(c).worker, Top(c)) /\ (Top(c).path => sock[n] = Top(c).worker.id)
    BY <1>3 DEF FrameOK, Launches, Past, Built
  <2> QED
    BY <2>1, <1>3, <1>5, <1>6 DEF AnswerOK, Reachable, Matches, Running, ListRows, GetRow, Endless
<1> QED
  BY <1>1, <1>2, <1>4, <1>5, <1>6, <1>7, PlaceKept

\* A step that closes the socket path, and ends a call that built, or was to build, a worker
LEMMA SocketClosed ==
  ASSUME Sound, NEW c \in Tasks, NEW p \in {"worker", "insert"}, At(c, Launches, p),
         UNCHANGED <<workers, db, dir, wanted, raced>>, faults' = faults \/ Fault,
         p = "insert" => workers[Subject(c)] # None,
         sock' = sock \/ sock' = [sock EXCEPT ![Subject(c)] = None], Return(c, FALSE)
  PROVE  Chains' /\ Frames' /\ Answers'
<1>1. PICK n \in Names : n = Subject(c)
  BY TopFrame DEF Launches
<1>2. /\ n \notin Endless /\ FrameOK(Top(c)) /\ n = Top(c).name /\ AnswerOK(n)
      /\ Top(c).op \in Launches /\ Top(c).pc = p
  BY <1>1, TopFrame DEF FrameOK, Built, Launches
<1>3. \E b : Ends(c, b)
  BY TopFrame, EndsOf
<1>4. \A m \in Names \ {n} : Stays(m)
  BY <1>1 DEF Stays, Sound, Base, Mem
<1>5. n \notin raced => workers[n] = None /\ p = "worker"
  BY <1>1, <1>2 DEF FrameOK
<1>6. faults \in Nat
  BY DEF Sound, Answers
<1>7. AnswerOK(n)'
  BY <1>2, <1>5 DEF AnswerOK, Reachable, Endless, Running, ListRows, GetRow
<1> QED
  BY <1>1, <1>3, <1>4, <1>7, PlaceKept DEF Launches

\* Dropping the worker of a resume keeps them: its playbook is one of the raced.
LEMMA ResumeConflictFrames ==
  ASSUME Sound, NEW c \in Tasks, ResumeConflict(c) PROVE Chains' /\ Frames' /\ Answers'
<1>1. At(c, Launches, "insert") /\ workers[Subject(c)] # None /\ Return(c, FALSE)
  BY DEF ResumeConflict, At, Launches, MayInsert
<1>2. UNCHANGED <<workers, db, dir, wanted, raced, faults>>
  BY DEF ResumeConflict, diskVars, ghosts, counts
<1>3. sock' = sock \/ sock' = [sock EXCEPT ![Subject(c)] = None]
  BY DEF ResumeConflict, SocketAfterShutdown
<1> QED
  BY <1>1, <1>2, <1>3, SocketClosed

\* A listener that fails keeps them: the socket closed is that of the call's own playbook.
LEMMA ListenFailsFrames ==
  ASSUME Sound, NEW c \in Tasks, ListenFails(c) PROVE Chains' /\ Frames' /\ Answers'
<1>1. At(c, Launches, "worker") /\ Return(c, FALSE)
  BY DEF ListenFails, At, Launches
<1>2. UNCHANGED <<workers, db, dir, wanted, raced>> /\ (faults' = faults \/ Fault)
  BY DEF ListenFails, diskVars, ghosts
<1>3. sock' = sock \/ sock' = [sock EXCEPT ![Subject(c)] = None]
  BY DEF ListenFails
<1> QED
  BY <1>1, <1>2, <1>3, SocketClosed

\* A module that does not load keeps them.
LEMMA LoadFailsFrames ==
  ASSUME Sound, NEW c \in Tasks, LoadFails(c) PROVE Chains' /\ Frames' /\ Answers'
<1>1. \E b : Ends(c, b)
  BY EndsOf DEF LoadFails, Sound, Base
<1>2. UNCHANGED <<workers, db, dir, sock, wanted, raced>> /\ Fault
  BY DEF LoadFails, memVars, diskVars, ghosts
<1> QED
  BY <1>1, <1>2, CalmFrames

\* Looking for the playbook that a module calls keeps them.
LEMMA FindInterconnectFrames ==
  ASSUME Sound, NEW c \in Tasks, FindInterconnect(c) PROVE Chains' /\ Frames' /\ Answers'
<1>1. At(c, {"start", "resume"}, "interconnect")
  BY DEF FindInterconnect
<1>2. PICK n \in Names : n = Subject(c)
  BY <1>1, TopFrame
<1>3. FrameOK(Top(c)) /\ n = Top(c).name /\ Top(c).op \in Launches /\ Top(c).pc = "interconnect"
  BY <1>1, <1>2, TopFrame DEF Launches
<1>4. UNCHANGED <<workers, db, dir, sock, wanted, raced, faults>>
  BY DEF FindInterconnect, memVars, diskVars, ghosts, counts
<1>5. Needs[n] \in Names
  <2>1. CallOK(c, Top(c)) /\ Top(c).pc = "interconnect" /\ Top(c).name = n
    BY <1>1, <1>2, TopFrame
  <2>2. Needs[n] # None
    BY <2>1 DEF CallOK
  <2> QED
    BY <2>2, NeedsAssumption
<1>6. CASE Expected(Needs[n])
  <2>1. PICK f \in Calls :
          /\ TurnsTo(c, f) /\ f.pc = "worker" /\ f.op = Top(c).op /\ f.name = Top(c).name
          /\ f.arg = Top(c).arg /\ f.path = Top(c).path /\ f.ver = Top(c).ver
          /\ f.worker = Top(c).worker
    BY <1>1, <1>2, <1>6, GotoTurn DEF Pcs, Past, FindInterconnect
  <2>2. n \notin Endless
    BY <1>5, <1>6, EndlessNeeds DEF Expected, Sound, Answers, AnswerOK, Absent
  <2>3. FrameOK(f)'
    BY <1>3, <1>4, <2>1, <2>2 DEF FrameOK, Past, Built, Launches, Endless, Matches
  <2> QED
    BY <2>1, <2>3, <1>4, CalmFrames
<1>7. CASE ~Expected(Needs[n])
  <2>1. PICK f : f = Frame("start", Needs[n], None)
    OBVIOUS
  <2>2. Call(c, f, "launched")
    BY <1>2, <1>7, <2>1 DEF FindInterconnect
  <2>3. f \in Calls /\ f.op = "start" /\ f.pc = "begin" /\ f.name = Needs[n]
    BY <2>1, <1>5, StartFrameOK DEF Frame, Versions
  <2>4. PICK g \in Calls : g = [Top(c) EXCEPT !.pc = "launched"]
    BY <1>1, TopFrame, Parts DEF Pcs, Past
  <2>5. /\ g.pc = "launched" /\ g.op = Top(c).op /\ g.name = Top(c).name
        /\ g.arg = Top(c).arg /\ g.path = Top(c).path /\ g.ver = Top(c).ver
    BY <1>1, <2>4, TopFrame, Parts DEF Pcs, Past
  <2>6. Makes(c, f, g)
    BY <1>1, <1>2, <1>3, <2>2, <2>3, <2>4, TopFrame, MakesOf DEF Pcs, Past
  <2>7. FrameOK(g)'
    BY <1>3, <1>4, <2>5 DEF FrameOK, Past, Built, Launches, Endless, Matches
  <2> QED
    BY <2>3, <2>6, <2>7, <1>4, CalmFrames
<1> QED
  BY <1>6, <1>7

\* Coming back from its start keeps them.
LEMMA InterconnectStartedFrames ==
  ASSUME Sound, NEW c \in Tasks, InterconnectStarted(c) PROVE Chains' /\ Frames' /\ Answers'
<1>1. At(c, {"start", "resume"}, "launched")
  BY DEF InterconnectStarted
<1>2. PICK n \in Names : n = Subject(c)
  BY <1>1, TopFrame
<1>3. FrameOK(Top(c)) /\ n = Top(c).name /\ Top(c).op \in Launches /\ Top(c).pc = "launched"
  BY <1>1, <1>2, TopFrame DEF Launches
<1>4. UNCHANGED <<workers, db, dir, sock, wanted, raced, faults>>
  BY DEF InterconnectStarted, memVars, diskVars, ghosts, counts
<1>5. CASE Top(c).ok /\ workers[Needs[n]] # None
  <2>1. PICK f \in Calls :
          /\ TurnsTo(c, f) /\ f.pc = "worker" /\ f.op = Top(c).op /\ f.name = Top(c).name
          /\ f.arg = Top(c).arg /\ f.path = Top(c).path /\ f.ver = Top(c).ver
          /\ f.worker = Top(c).worker
    BY <1>1, <1>2, <1>5, GotoTurn DEF Pcs, Past, InterconnectStarted
  <2>2. n \notin Endless
    BY <1>5, EndlessNeeds DEF Sound, Answers, AnswerOK, Absent
  <2>3. FrameOK(f)'
    BY <1>3, <1>4, <2>1, <2>2 DEF FrameOK, Past, Built, Launches, Endless, Matches
  <2> QED
    BY <2>1, <2>3, <1>4, CalmFrames
<1>6. CASE ~(Top(c).ok /\ workers[Needs[n]] # None)
  <2>1. \E b : Ends(c, b)
    BY <1>1, <1>2, <1>6, TopFrame, EndsOf DEF InterconnectStarted
  <2> QED
    BY <2>1, <1>4, CalmFrames
<1> QED
  BY <1>5, <1>6

\* Building a worker keeps them: it is what the call is to start, and is heard at the path.
LEMMA StartWorkerFrames ==
  ASSUME Sound, NEW c \in Tasks, StartWorker(c) PROVE Chains' /\ Frames' /\ Answers'
<1>1. At(c, {"start", "resume"}, "worker")
  BY DEF StartWorker
<1>2. PICK n \in Names : n = Subject(c)
  BY <1>1, TopFrame
<1>3. /\ n \notin Endless /\ FrameOK(Top(c)) /\ n = Top(c).name /\ AnswerOK(n)
      /\ Top(c).op \in Launches /\ Top(c).pc = "worker" /\ Top(c) \in Calls
  BY <1>1, <1>2, TopFrame DEF FrameOK, Built, Launches
<1>4. PICK w : w = [id |-> NewId, http |-> Top(c).arg, cbs |-> NoCallbacks,
                    path |-> Top(c).path, ver |-> Top(c).ver]
  OBVIOUS
<1>5. PICK f : f = [Top(c) EXCEPT !.pc = "callbacks", !.worker = w]
  OBVIOUS
<1>6. /\ UNCHANGED <<workers, db, dir, raced, wanted, faults>> /\ Mem /\ Become(c, f)
      /\ sock' = IF w.path THEN [sock EXCEPT ![n] = w.id] ELSE sock
  BY <1>2, <1>4, <1>5 DEF StartWorker, diskVars, ghosts, counts, Sound, Base
<1>7. w \in Worker
  <2>1. NewId \in WorkerIds /\ NoCallbacks \in [Uuids -> 0..2]
    BY FreshId, CallbacksOfType DEF Sound, Base
  <2>2. Top(c).arg \in Addrs \cup {None} /\ Top(c).path \in BOOLEAN /\ Top(c).ver \in Versions
    BY <1>1, <1>3, TopFrame, LaunchCall DEF Calls
  <2> QED
    BY <1>4, <2>1, <2>2 DEF Worker
<1>8. /\ f \in Calls /\ f.pc = "callbacks" /\ f.op = Top(c).op /\ f.name = Top(c).name
      /\ f.arg = Top(c).arg /\ f.path = Top(c).path /\ f.ver = Top(c).ver /\ f.worker = w
  BY <1>3, <1>5, <1>7 DEF Calls, Pcs, Past, Built
<1>9. TurnsTo(c, f)
  BY <1>1, <1>6, <1>8, TopFrame, TurnsOf
<1>10. \A m \in Names \ {n} : Stays(m)
  BY <1>6 DEF Stays, Mem
<1>11. AnswerOK(n)'
  BY <1>3, <1>6 DEF AnswerOK, Reachable, FrameOK, Launches, Endless, Running, ListRows, GetRow
<1>12. Matches(w, f) /\ (f.path => sock'[n] = w.id)
  BY <1>4, <1>6, <1>8 DEF Matches, Mem
<1>13. FrameOK(f)'
  BY <1>3, <1>6, <1>8, <1>12 DEF FrameOK, Matches, Launches, Past, Built, Endless
<1> QED
  BY <1>1, <1>2, <1>6, <1>9, <1>10, <1>11, <1>13, PlaceKept

\* Giving it its callbacks keeps them.
LEMMA RegisterCallbacksFrames ==
  ASSUME Sound, NEW c \in Tasks, RegisterCallbacks(c) PROVE Chains' /\ Frames' /\ Answers'
<1>1. At(c, {"start", "resume"}, "callbacks")
  BY DEF RegisterCallbacks
<1>2. PICK n \in Names : n = Subject(c)
  BY <1>1, TopFrame
<1>3. /\ n \notin Endless /\ FrameOK(Top(c)) /\ n = Top(c).name
      /\ Top(c).op \in Launches /\ Top(c).pc = "callbacks" /\ Top(c) \in Calls
  BY <1>1, <1>2, TopFrame DEF FrameOK, Built, Launches
<1>4. PICK f : f = [Top(c) EXCEPT !.pc = "record", !.worker.cbs = CallbacksOf(n)]
  OBVIOUS
<1>5. UNCHANGED <<workers, db, dir, sock, raced, wanted, faults>> /\ Become(c, f)
  BY <1>2, <1>4 DEF RegisterCallbacks, memVars, diskVars, ghosts, counts
<1>6. Top(c).worker \in Worker
  BY <1>1, <1>3, TopFrame, LaunchCall DEF Built
<1>7. PICK w : w = [Top(c).worker EXCEPT !.cbs = CallbacksOf(n)]
  OBVIOUS
<1>8. /\ w \in Worker /\ w.id = Top(c).worker.id /\ w.http = Top(c).worker.http
      /\ w.path = Top(c).worker.path /\ w.ver = Top(c).worker.ver
  BY <1>6, <1>7, CallbacksOfType DEF Worker
<1>9. f = [Top(c) EXCEPT !.pc = "record", !.worker = w]
  BY <1>3, <1>4, <1>7 DEF Calls
<1>10. /\ f \in Calls /\ f.pc = "record" /\ f.op = Top(c).op /\ f.name = Top(c).name
       /\ f.arg = Top(c).arg /\ f.path = Top(c).path /\ f.ver = Top(c).ver /\ f.worker = w
  BY <1>3, <1>8, <1>9 DEF Calls, Pcs, Past, Built
<1>11. TurnsTo(c, f)
  BY <1>1, <1>5, <1>10, TopFrame, TurnsOf
<1>12. FrameOK(f)'
  BY <1>3, <1>5, <1>8, <1>10 DEF FrameOK, Matches, Launches, Past, Built, Endless
<1> QED
  BY <1>5, <1>11, <1>12, CalmFrames

\* A step that takes a playbook up
LEMMA EnterKept ==
  ASSUME Sound, NEW c \in Tasks, NEW op, NEW f \in Entering(c, op), NEW n \in Names, n = f.name,
         raced' = Raced(c, n), faults' = faults \/ Fault,
         AnswerOK(n)', \A m \in Names \ {n} : Stays(m),
         \/ \E g : TurnsTo(c, g) /\ FrameOK(g)'
         \/ \E b : Ends(c, b)
  PROVE  Chains' /\ Frames' /\ Answers'
<1>1. stack[c] = <<>> \/ n = Top(c).name
  BY Enter DEF Sound, Base
<1>2. Stacks /\ Alone /\ Chains /\ Frames /\ Answers /\ faults \in Nat /\ raced \subseteq raced'
  BY DEF Sound, Base, Answers, Raced
<1> QED
  BY <1>1, <1>2, FaultCounted, FocusKept

\* The call that is taken up
LEMMA EnterTurn ==
  ASSUME Sound, NEW c \in Tasks, NEW op, NEW f \in Entering(c, op), NEW q \in Pcs,
         Become(c, [f EXCEPT !.pc = q])
  PROVE  \E g \in Calls : /\ TurnsTo(c, g) /\ g.pc = q /\ g.op = f.op /\ g.name = f.name
                          /\ g.arg = f.arg /\ g.path = f.path /\ g.ver = f.ver
                          /\ g.worker = f.worker
<1>1. f \in Calls /\ (stack[c] # <<>> => f = Top(c))
  BY Enter DEF Sound, Base
<1>2. PICK g \in Calls : g = [f EXCEPT !.pc = q] /\ Become(c, g)
  BY <1>1, Parts
<1>3. /\ g.pc = q /\ g.op = f.op /\ g.name = f.name /\ g.arg = f.arg
      /\ g.path = f.path /\ g.ver = f.ver /\ g.worker = f.worker
  BY <1>1, <1>2, Parts
<1>4. TurnsTo(c, g)
  BY <1>1, <1>2, <1>3, TurnsOf DEF Sound, Base
<1> QED
  BY <1>3, <1>4

\* The check at the start of a call keeps them.
LEMMA CheckNotRunningFrames ==
  ASSUME Sound, NEW c \in Tasks, CheckNotRunning(c) PROVE Chains' /\ Frames' /\ Answers'
<1>1. PICK f \in Entering(c, {"start", "resume"}) :
        /\ IF workers[f.name] # None THEN Return(c, FALSE) ELSE Become(c, [f EXCEPT !.pc = "row"])
        /\ raced' = Raced(c, f.name)
        /\ UNCHANGED <<workers, db, dir, sock, wanted, faults>>
  BY DEF CheckNotRunning, memVars, diskVars
<1>2. f \in Calls /\ f.op \in Launches /\ f.name \in Names
  BY Enter, LaunchCall DEF Sound, Base, Launches
<1>3. PICK n \in Names : n = f.name
  BY <1>2
<1>4. \A m \in Names : Stays(m)
  BY <1>1 DEF Stays
<1>5. AnswerOK(n)'
  BY <1>1, <1>4, AnswerStays DEF Raced, Sound, Answers
<1>6. CASE workers[n] # None
  <2>1. \E b : Ends(c, b)
    BY <1>1, <1>3, <1>6, EndsOf DEF Sound, Base
  <2> QED
    BY <1>1, <1>3, <1>4, <1>5, <2>1, EnterKept
<1>7. CASE workers[n] = None
  <2>1. PICK g \in Calls :
          /\ TurnsTo(c, g) /\ g.pc = "row" /\ g.op = f.op /\ g.name = f.name
    <3>1. PICK q \in Pcs : q = "row"
      BY DEF Pcs
    <3>2. Become(c, [f EXCEPT !.pc = q])
      BY <1>1, <1>3, <1>7, <3>1
    <3> QED
      BY <3>1, <3>2, EnterTurn
  <2>2. FrameOK(g)'
    <3>1. workers'[g.name] = None /\ g.pc = "row"
      BY <1>1, <1>3, <1>7, <2>1 
    <3> QED
      BY <3>1 DEF FrameOK, Past, Built
  <2> QED
    BY <1>1, <1>3, <1>4, <1>5, <2>1, <2>2, EnterKept
<1> QED
  BY <1>6, <1>7

\* A call that begins is of a playbook.
LEMMA Entered ==
  ASSUME Sound, NEW c \in Tasks, NEW op, NEW f \in Entering(c, op), "boot" \notin op
  PROVE  /\ f \in Calls /\ f.op \in op /\ f.pc = "begin" /\ f.name \in Names
         /\ f.op = "set_http" => f.arg \in Addrs \cup {None}
         /\ stack[c] # <<>> => f = Top(c) /\ f.op \in Launches
         /\ stack[c] = <<>> => c \in Clients /\ Serving /\ f \in Requests
<1>1. /\ f \in Calls /\ CallOK(c, f) /\ f.op \in op /\ f.pc = "begin"
      /\ \/ stack[c] # <<>> /\ f = Top(c) /\ f.op \in {"start", "resume"}
         \/ stack[c] = <<>> /\ c \in Clients /\ Serving /\ f \in Requests
  BY Enter DEF Sound, Base
<1>2. f.name \in Names /\ (f.op = "set_http" => f.arg \in Addrs \cup {None})
  BY <1>1 DEF CallOK
<1> QED
  BY <1>1, <1>2 DEF Launches

\* What it is to stop a playbook: its worker and its row
LEMMA TakenOut ==
  ASSUME Mem, NEW n \in Names, TakeOut(n), db' = StoppedRow(n)
  PROVE  /\ workers'[n] = None
         /\ \A m \in Names \ {n} : workers'[m] = workers[m] /\ sock'[m] = sock[m] /\ db'[m] = db[m]
         /\ workers[n] = None => db' = db /\ sock' = sock
         /\ workers[n] # None => (db'[n] # None => db'[n].status = "stopped")
         /\ db'[n] # None => db[n] # None
         /\ db[n] # None => db'[n] # None /\ db'[n].http = db[n].http
<1>1. /\ workers' = [workers EXCEPT ![n] = None]
      /\ sock' = SocketAfterShutdown(n, workers[n])
  BY DEF TakeOut
<1>2. CASE workers[n] = None
  BY <1>1, <1>2 DEF Mem, SocketAfterShutdown, StoppedRow
<1>3. CASE workers[n] # None
  <2>1. db' = WithStatus(n, "stopped")
    BY <1>3 DEF StoppedRow
  <2>2. /\ \A m \in Names \ {n} : db'[m] = db[m]
        /\ db[n] = None => db'[n] = None
        /\ db[n] # None => db'[n] # None /\ db'[n].status = "stopped" /\ db'[n].http = db[n].http
    BY <2>1, StatusRow
  <2> QED
    BY <1>1, <1>3, <2>2 DEF Mem, SocketAfterShutdown
<1> QED
  BY <1>2, <1>3

\* stop_playbook keeps them.
LEMMA StopPlaybookFrames ==
  ASSUME Sound, NEW c \in Tasks, StopPlaybook(c) PROVE Chains' /\ Frames' /\ Answers'
<1>1. PICK f \in Entering(c, {"stop"}) :
        /\ TakeOut(f.name) /\ db' = StoppedRow(f.name)
        /\ wanted' = IF workers[f.name] = None THEN wanted ELSE [wanted EXCEPT ![f.name] = "stop"]
        /\ raced' = Raced(c, f.name) /\ Return(c, workers[f.name] # None)
        /\ UNCHANGED <<dir, faults>>
  BY DEF StopPlaybook
<1>2. f.name \in Names
  BY Entered
<1>3. PICK n \in Names : n = f.name
  BY <1>2
<1>4. Mem /\ AnswerOK(n)
  BY DEF Sound, Base, Answers
<1>5. /\ workers'[n] = None
      /\ \A m \in Names \ {n} : workers'[m] = workers[m] /\ sock'[m] = sock[m] /\ db'[m] = db[m]
      /\ workers[n] = None => db' = db /\ sock' = sock
      /\ workers[n] # None => (db'[n] # None => db'[n].status = "stopped")
      /\ db'[n] # None => db[n] # None
  BY <1>1, <1>3, <1>4, TakenOut
<1>6. IF workers[n] = None THEN wanted' = wanted
      ELSE wanted'[n] = "stop" /\ \A m \in Names \ {n} : wanted'[m] = wanted[m]
  BY <1>1, <1>3, <1>4 DEF Mem
<1>7. \A m \in Names \ {n} : Stays(m)
  BY <1>1, <1>5, <1>6 DEF Stays
<1>8. AnswerOK(n)'
  <2>1. n \notin raced' => n \notin raced
    BY <1>1 DEF Raced
  <2>2. CASE workers[n] = None
    BY <2>1, <2>2, <1>1, <1>4, <1>5, <1>6
       DEF AnswerOK, Absent, Reachable, Running, ListRows, GetRow, Endless
  <2>3. CASE workers[n] # None
    BY <2>1, <2>3, <1>1, <1>4, <1>5, <1>6
       DEF AnswerOK, Absent, Reachable, Running, ListRows, GetRow, Endless
  <2> QED
    BY <2>2, <2>3
<1>9. \E b : Ends(c, b)
  BY <1>1, EndsOf DEF Sound, Base
<1> QED
  BY <1>1, <1>3, <1>7, <1>8, <1>9, EnterKept

\* The first part of delete_playbook keeps them, ..
LEMMA DeletePlaybookFrames ==
  ASSUME Sound, NEW c \in Tasks, DeletePlaybook(c) PROVE Chains' /\ Frames' /\ Answers'
<1>1. PICK f \in Entering(c, {"delete"}) \cup {g \in Range(stack[c]) : At(c, {"start"}, "delete") /\ g = Top(c)} :
        /\ TakeOut(f.name) /\ DeleteRow(f.name) /\ wanted' = [wanted EXCEPT ![f.name] = "any"]
        /\ raced' = Raced(c, f.name) /\ Become(c, [f EXCEPT !.pc = "rmdir"])
        /\ UNCHANGED <<dir, faults>>
  BY DEF DeletePlaybook
<1>2. /\ f \in Calls /\ f.name \in Names /\ f.op \in {"start", "delete"}
      /\ stack[c] # <<>> => f = Top(c)
  <2>1. CASE f \in Entering(c, {"delete"})
    BY <2>1, Entered
  <2>2. CASE At(c, {"start"}, "delete") /\ f = Top(c)
    BY <2>2, TopFrame DEF Subject
  <2> QED
    BY <2>1, <2>2, <1>1
<1>3. PICK n \in Names : n = f.name
  BY <1>2
<1>4. PICK g \in Calls : g = [f EXCEPT !.pc = "rmdir"] /\ Become(c, g)
  BY <1>1, <1>2, Parts DEF Pcs
<1>5. g.pc = "rmdir" /\ g.op = f.op /\ g.name = f.name
  BY <1>2, <1>4, Parts DEF Pcs
<1>6. TurnsTo(c, g)
  BY <1>2, <1>4, <1>5, TurnsOf DEF Sound, Base
<1>7. /\ Mem /\ Stacks /\ Alone /\ Chains /\ Frames /\ Answers /\ faults \in Nat /\ AnswerOK(n)
      /\ raced \subseteq raced'
  BY <1>1 DEF Sound, Base, Answers, Raced
<1>8. /\ workers'[n] = None /\ db'[n] = None /\ wanted'[n] = "any"
      /\ \A m \in Names \ {n} : /\ workers'[m] = workers[m] /\ sock'[m] = sock[m]
                                /\ db'[m] = db[m] /\ wanted'[m] = wanted[m]
  BY <1>1, <1>3, <1>7 DEF TakeOut, DeleteRow, SocketAfterShutdown, Mem
<1>9. \A m \in Names \ {n} : Stays(m)
  BY <1>1, <1>8 DEF Stays
<1>10. AnswerOK(n)'
  BY <1>8 DEF AnswerOK, Absent, Reachable
<1>11. FrameOK(g)'
  BY <1>3, <1>5, <1>8 DEF FrameOK, Past, Built
<1>12. stack[c] = <<>> \/ n = Top(c).name
  BY <1>2, <1>3
<1>13. raced' = Raced(c, n) /\ faults' = faults /\ n \in Names \cup {None}
  BY <1>1, <1>3
<1> QED
  BY <1>6, <1>7, <1>9, <1>10, <1>11, <1>12, <1>13, FocusKept

\* .. and so does the second.
LEMMA RemoveDirFrames ==
  ASSUME Sound, NEW c \in Tasks, RemoveDir(c) PROVE Chains' /\ Frames' /\ Answers'
<1>1. At(c, {"start", "delete"}, "rmdir")
  BY DEF RemoveDir
<1>2. PICK n \in Names : n = Subject(c)
  BY <1>1, TopFrame
<1>3. /\ FrameOK(Top(c)) /\ n = Top(c).name /\ AnswerOK(n)
      /\ Top(c).op \in {"start", "delete"} /\ Top(c).pc = "rmdir"
  BY <1>1, <1>2, TopFrame
<1>4. /\ UNCHANGED <<workers, db, sock, raced, faults>> /\ dir' = dir \ {n} /\ Mem
      /\ wanted' = IF Top(c).op = "delete" THEN [wanted EXCEPT ![n] = "gone"] ELSE wanted
      /\ IF Top(c).op = "delete" THEN Return(c, TRUE) ELSE Goto(c, "dirs")
  BY <1>2 DEF RemoveDir, counts, Sound, Base
<1>5. workers[n] = None
  BY <1>1, <1>2, TopFrame DEF Sound, Base, Locked, AtRmdir
<1>6. /\ \A m \in Names \ {n} : Stays(m)
      /\ IF Top(c).op = "delete" THEN wanted'[n] = "gone" ELSE wanted'[n] = wanted[n]
  BY <1>4 DEF Stays, Mem
<1>7. n \notin raced \cup Endless => db[n] = None /\ wanted[n] = "any"
  BY <1>3 DEF FrameOK
<1>8. AnswerOK(n)'
  BY <1>3, <1>4, <1>5, <1>6, <1>7
     DEF AnswerOK, Absent, Reachable, Running, ListRows, GetRow, Endless
<1>9. CASE Top(c).op = "delete"
  <2>1. \E b : Ends(c, b)
    BY <1>4, <1>9, EndsOf DEF Sound, Base
  <2> QED
    BY <2>1, <1>1, <1>2, <1>4, <1>6, <1>8, PlaceKept
<1>10. CASE Top(c).op = "start"
  <2>1. Goto(c, "dirs")
    BY <1>4, <1>10
  <2>2. PICK f \in Calls :
          /\ TurnsTo(c, f) /\ f.pc = "dirs" /\ f.op = Top(c).op /\ f.name = Top(c).name
    BY <1>1, <2>1, GotoTurn DEF Pcs
  <2>3. FrameOK(f)'
    BY <1>3, <1>4, <1>5, <1>10, <2>2 DEF FrameOK, Past, Built
  <2> QED
    BY <2>2, <2>3, <1>1, <1>2, <1>4, <1>6, <1>8, PlaceKept
<1> QED
  BY <1>3, <1>9, <1>10

\* A worker with another address, and its row
LEMMA HttpSet ==
  ASSUME Mem, NEW n \in Names, NEW a \in Addrs \cup {None}, workers[n] # None,
         workers' = WithHttp(n, a)
  PROVE  /\ workers'[n] \in Worker /\ workers'[n] # None /\ workers'[n].http = a
         /\ workers'[n].id = workers[n].id /\ workers'[n].path = workers[n].path
         /\ workers'[n].ver = workers[n].ver
         /\ \A m \in Names \ {n} : workers'[m] = workers[m]
<1>1. PICK w \in Worker : w = workers[n]
  BY DEF Mem
<1>2. workers' = [workers EXCEPT ![n] = [w EXCEPT !.http = a]]
  BY <1>1 DEF WithHttp
<1>3. workers'[n] = [w EXCEPT !.http = a] /\ \A m \in Names \ {n} : workers'[m] = workers[m]
  BY <1>2 DEF Mem
<1>4. /\ [w EXCEPT !.http = a] \in Worker /\ [w EXCEPT !.http = a].http = a
      /\ [w EXCEPT !.http = a].id = w.id /\ [w EXCEPT !.http = a].path = w.path
      /\ [w EXCEPT !.http = a].ver = w.ver
  BY DEF Worker
<1> QED
  BY <1>1, <1>3, <1>4, NoneAssumption

\* What HttpRow does to the rows
LEMMA HttpRowSet ==
  ASSUME Mem, NEW n \in Names, NEW a \in Addrs \cup {None}, db' = HttpRow(n, a)
  PROVE  /\ \A m \in Names \ {n} : db'[m] = db[m]
         /\ db[n] = None => db'[n] = None
         /\ db[n] # None => /\ db'[n] # None /\ db'[n].http = a /\ db'[n].status = db[n].status
                            /\ db'[n].path = db[n].path /\ db'[n].ver = db[n].ver
<1>1. CASE db[n] = None
  BY <1>1 DEF HttpRow
<1>2. CASE db[n] # None
  <2>1. PICK r \in Row : r = db[n]
    BY <1>2 DEF Mem
  <2>2. db' = [db EXCEPT ![n] = [r EXCEPT !.http = a]]
    BY <1>2, <2>1 DEF HttpRow
  <2>3. db'[n] = [r EXCEPT !.http = a] /\ \A m \in Names \ {n} : db'[m] = db[m]
    BY <2>2 DEF Mem
  <2>4. /\ [r EXCEPT !.http = a] \in Row /\ [r EXCEPT !.http = a].http = a
        /\ [r EXCEPT !.http = a].status = r.status /\ [r EXCEPT !.http = a].path = r.path
        /\ [r EXCEPT !.http = a].ver = r.ver
    BY RowParts
  <2> QED
    BY <1>2, <2>1, <2>3, <2>4, NoneAssumption
<1> QED
  BY <1>1, <1>2

\* set_http_address keeps them, ..
LEMMA SetHttpAddressFrames ==
  ASSUME Sound, NEW c \in Tasks, SetHttpAddress(c) PROVE Chains' /\ Frames' /\ Answers'
<1>1. PICK f \in Entering(c, {"set_http"}) :
        /\ workers[f.name] # None /\ workers' = WithHttp(f.name, f.arg)
        /\ db' = HttpRow(f.name, f.arg) /\ raced' = Raced(c, f.name) /\ Return(c, TRUE)
        /\ UNCHANGED <<sock, dir, wanted, faults>>
  BY DEF SetHttpAddress
<1>2. f.name \in Names /\ f.arg \in Addrs \cup {None}
  <2>1. f.op \in {"set_http"} /\ (f.op = "set_http" => f.arg \in Addrs \cup {None}) /\ f.name \in Names
    BY Entered
  <2> QED
    BY <2>1
<1>3. PICK n \in Names : n = f.name
  BY <1>2
<1>4. Mem /\ AnswerOK(n)
  BY DEF Sound, Base, Answers
<1>5. /\ workers'[n] # None /\ workers'[n].http = f.arg
      /\ workers'[n].id = workers[n].id /\ workers'[n].path = workers[n].path
      /\ workers'[n].ver = workers[n].ver
      /\ \A m \in Names \ {n} : workers'[m] = workers[m]
  BY <1>1, <1>2, <1>3, <1>4, HttpSet
<1>6. /\ \A m \in Names \ {n} : db'[m] = db[m]
      /\ db[n] = None => db'[n] = None
      /\ db[n] # None => /\ db'[n] # None /\ db'[n].http = f.arg /\ db'[n].status = db[n].status
                         /\ db'[n].path = db[n].path /\ db'[n].ver = db[n].ver
  BY <1>1, <1>2, <1>3, <1>4, HttpRowSet
<1>7. \A m \in Names \ {n} : Stays(m)
  BY <1>1, <1>5, <1>6 DEF Stays
<1>8. AnswerOK(n)'
  BY <1>1, <1>3, <1>4, <1>5, <1>6
     DEF AnswerOK, Absent, Reachable, Running, ListRows, GetRow, Endless, Raced
<1>9. \E b : Ends(c, b)
  BY <1>1, EndsOf DEF Sound, Base
<1> QED
  BY <1>1, <1>3, <1>7, <1>8, <1>9, EnterKept

\* .. also when the address can not be bound: the worker has none then.
LEMMA SetHttpFailsFrames ==
  ASSUME Sound, NEW c \in Tasks, SetHttpFails(c) PROVE Chains' /\ Frames' /\ Answers'
<1>1. PICK f \in Entering(c, {"set_http"}) :
        /\ workers[f.name] # None /\ workers' = WithHttp(f.name, None)
        /\ raced' = Raced(c, f.name) /\ Return(c, FALSE) /\ Fault
        /\ UNCHANGED <<db, sock, dir, wanted>>
  BY DEF SetHttpFails, diskVars
<1>2. f.name \in Names
  BY Entered
<1>3. PICK n \in Names : n = f.name
  BY <1>2
<1>4. Mem /\ AnswerOK(n) /\ faults \in Nat
  BY DEF Sound, Base, Answers
<1>5. /\ workers'[n] # None /\ workers'[n].http = None
      /\ workers'[n].id = workers[n].id /\ workers'[n].path = workers[n].path
      /\ workers'[n].ver = workers[n].ver
      /\ \A m \in Names \ {n} : workers'[m] = workers[m]
  BY <1>1, <1>3, <1>4, HttpSet
<1>6. faults' # 0
  BY <1>1, <1>4, FaultCounted DEF Fault
<1>7. \A m \in Names \ {n} : Stays(m)
  BY <1>1, <1>5 DEF Stays
<1>8. AnswerOK(n)'
  BY <1>1, <1>3, <1>4, <1>5, <1>6
     DEF AnswerOK, Absent, Reachable, Running, ListRows, GetRow, Endless, Raced
<1>9. \E b : Ends(c, b)
  BY <1>1, EndsOf DEF Sound, Base
<1> QED
  BY <1>1, <1>3, <1>7, <1>8, <1>9, EnterKept

\* The requests for callbacks, up to the database, keep them.
LEMMA CallbackRowFrames ==
  ASSUME Sound, NEW c \in Tasks, SaveCallback(c) \/ ForgetCallback(c)
  PROVE  Chains' /\ Frames' /\ Answers'
<1>0. PICK op \in {{"add_callback"}, {"delete_callback"}} : \E f \in Entering(c, op) :
        /\ raced' = Raced(c, f.name) /\ Become(c, [f EXCEPT !.pc = "worker"])
        /\ UNCHANGED <<workers, db, sock, dir, wanted, faults>>
  BY DEF SaveCallback, ForgetCallback, memVars
<1>1. PICK f \in Entering(c, op) :
        /\ raced' = Raced(c, f.name) /\ Become(c, [f EXCEPT !.pc = "worker"])
        /\ UNCHANGED <<workers, db, sock, dir, wanted, faults>>
  BY <1>0
<1>2. f.name \in Names /\ f.op \in {"add_callback", "delete_callback"}
  BY <1>1, Entered
<1>3. PICK n \in Names : n = f.name
  BY <1>2
<1>4. \A m \in Names : Stays(m)
  BY <1>1 DEF Stays
<1>5. AnswerOK(n)'
  BY <1>1, <1>4, AnswerStays DEF Raced, Sound, Answers
<1>6. PICK g \in Calls : TurnsTo(c, g) /\ g.pc = "worker" /\ g.op = f.op /\ g.name = f.name
  <2>1. PICK q \in Pcs : q = "worker"
    BY DEF Pcs, Past
  <2>2. Become(c, [f EXCEPT !.pc = q])
    BY <1>1, <2>1
  <2> QED
    BY <2>1, <2>2, EnterTurn
<1>7. FrameOK(g)'
  BY <1>2, <1>6 DEF FrameOK, Launches, Built
<1> QED
  BY <1>1, <1>3, <1>4, <1>5, <1>6, <1>7, EnterKept

\* A worker that learns of a callback is the same in all else.
LEMMA CallbackWorker ==
  ASSUME NEW w \in Worker, NEW u \in Uuids, NEW k \in 0 .. 2
  PROVE  LET v == [w EXCEPT !.cbs[u] = k]
         IN v # None /\ v.id = w.id /\ v.http = w.http /\ v.path = w.path /\ v.ver = w.ver
<1>1. PICK x : x = [w.cbs EXCEPT ![u] = k]
  OBVIOUS
<1>2. x \in [Uuids -> 0 .. 2]
  BY <1>1 DEF Worker
<1>3. PICK v : v = [w EXCEPT !.cbs = x]
  OBVIOUS
<1>4. v \in Worker /\ v.id = w.id /\ v.http = w.http /\ v.path = w.path /\ v.ver = w.ver
  BY <1>2, <1>3 DEF Worker
<1>5. v = [w EXCEPT !.cbs[u] = k]
  BY <1>1, <1>3
<1> QED
  BY <1>4, <1>5, NoneAssumption

\* A step that tells workers of a callback leaves the rest of them.
LEMMA AddCallbackStays ==
  ASSUME Sound, NEW c \in Tasks, AddCallback(c) PROVE \A m \in Names : Stays(m)
<1>1. At(c, {"add_callback"}, "worker")
  BY DEF AddCallback
<1>2. PICK n \in Names : n = Subject(c)
  BY <1>1, TopFrame
<1>3. Top(c).arg \in Uuids
  <2>1. CallOK(c, Top(c)) /\ Top(c).op \in {"add_callback", "delete_callback"}
    BY <1>1, TopFrame
  <2> QED
    BY <2>1 DEF CallOK
<1>4. PICK u \in Uuids : u = Top(c).arg
  BY <1>3
<1>5. UNCHANGED <<db, sock, dir, wanted>> /\ workers' = WithCallback(n, u) /\ Mem
  BY <1>2, <1>4 DEF AddCallback, diskVars, ghosts, Sound, Base
<1>6. CASE workers[n] = None
  BY <1>5, <1>6 DEF WithCallback, Stays
<1>7. CASE workers[n] # None
  <2>1. PICK w \in Worker : w = workers[n]
    BY <1>5, <1>7 DEF Mem
  <2>2. w.cbs[u] + 1 \in 0 .. 2
    <3>1. Adds(c, u)
      BY <1>1, <1>4 DEF Adds
    <3>2. w.cbs[u] <= 1 /\ w.cbs[u] \in 0 .. 2
      BY <3>1, <2>1, <1>7 DEF Sound, Base, Counts, Worker
    <3> QED
      BY <3>2
  <2>3. PICK k \in 0 .. 2 : k = w.cbs[u] + 1
    BY <2>2
  <2>4. PICK v : v = [w EXCEPT !.cbs[u] = k]
    OBVIOUS
  <2>5. v # None /\ v.id = w.id /\ v.http = w.http /\ v.path = w.path /\ v.ver = w.ver
    BY <2>4, CallbackWorker
  <2>6. v = [w EXCEPT !.cbs[u] = @ + 1]
    BY <2>3, <2>4 DEF Worker
  <2>7. workers' = [workers EXCEPT ![n].cbs[u] = @ + 1]
    BY <1>5, <1>7 DEF WithCallback
  <2>8. workers'[n] = v /\ \A m \in Names \ {n} : workers'[m] = workers[m]
    BY <2>1, <2>6, <2>7, <1>5 DEF Mem
  <2> QED
    BY <2>1, <2>5, <2>8, <1>5, <1>7 DEF Stays
<1> QED
  BY <1>6, <1>7

\* Deleting a callback from the workers touches no playbook otherwise.
LEMMA DeleteCallbackStays ==
  ASSUME Sound, NEW c \in Tasks, DeleteCallback(c) PROVE \A m \in Names : Stays(m)
<1>1. At(c, {"delete_callback"}, "worker")
  BY DEF DeleteCallback
<1>2. Top(c).arg \in Uuids
  <2>1. CallOK(c, Top(c)) /\ Top(c).op \in {"add_callback", "delete_callback"}
    BY <1>1, TopFrame
  <2> QED
    BY <2>1 DEF CallOK
<1>3. PICK u \in Uuids : u = Top(c).arg
  BY <1>2
<1>4. /\ UNCHANGED <<db, sock, dir, wanted>> /\ Mem
      /\ workers' = [m \in Names |-> IF workers[m] = None THEN None
                                     ELSE [workers[m] EXCEPT !.cbs[u] = 0]]
  BY <1>3 DEF DeleteCallback, diskVars, ghosts, Sound, Base
<1> SUFFICES ASSUME NEW m \in Names PROVE Stays(m)
  OBVIOUS
<1>5. CASE workers[m] = None
  BY <1>4, <1>5 DEF Stays
<1>6. CASE workers[m] # None
  <2>1. PICK w \in Worker : w = workers[m]
    BY <1>4, <1>6 DEF Mem
  <2>2. PICK v : v = [w EXCEPT !.cbs[u] = 0]
    OBVIOUS
  <2>3. v # None /\ v.id = w.id /\ v.http = w.http /\ v.path = w.path /\ v.ver = w.ver
    BY <2>2, CallbackWorker
  <2>4. workers'[m] = v
    BY <2>1, <2>2, <1>4, <1>6
  <2> QED
    BY <2>1, <2>3, <2>4, <1>4, <1>6 DEF Stays
<1> QED
  BY <1>5, <1>6

\* So telling the workers keeps Frames and Answers.
LEMMA ToldCallbackFrames ==
  ASSUME Sound, NEW c \in Tasks, AddCallback(c) \/ DeleteCallback(c)
  PROVE  Chains' /\ Frames' /\ Answers'
<1>1. PICK op \in {{"add_callback"}, {"delete_callback"}} : At(c, op, "worker")
  BY DEF AddCallback, DeleteCallback
<1>2. PICK n \in Names : n = Subject(c)
  BY <1>1, TopFrame
<1>3. UNCHANGED <<raced, faults>> /\ Return(c, TRUE)
  BY DEF AddCallback, DeleteCallback, ghosts, counts
<1>4. \A m \in Names : Stays(m)
  BY AddCallbackStays, DeleteCallbackStays
<1>5. \E b : Ends(c, b)
  BY <1>3, EndsOf DEF Sound, Base
<1>6. AnswerOK(n)'
  BY <1>3, <1>4, AnswerStays DEF Sound, Answers
<1> QED
  BY <1>1, <1>2, <1>3, <1>4, <1>5, <1>6, PlaceKept

\* The start that an update makes
LEMMA UpdateFrame ==
  ASSUME NEW g \in Calls, CallOK(Daemon, g), g.op = "update", NEW n \in Names,
         NEW v \in Versions, NEW f, f = StartFrame(n, g.arg, g.path, v)
  PROVE  /\ f \in Calls /\ f.op = "start" /\ f.pc = "begin" /\ f.name = n
         /\ f.arg = g.arg /\ f.path = g.path /\ f.ver = v /\ f.worker = None
<1>1. PICK a \in Addrs \cup {None} : a = g.arg
  BY DEF CallOK
<1>2. PICK p \in BOOLEAN : p = g.path
  BY DEF Calls
<1>3. f = [op |-> "start", name |-> n, pc |-> "begin", arg |-> a, path |-> p, ver |-> v,
           worker |-> None, ok |-> FALSE]
  BY <1>1, <1>2 DEF StartFrame, Frame
<1>4. f \in Calls /\ f.op = "start" /\ f.pc = "begin" /\ f.name = n
  <2>1. Daemon \in Tasks
    BY DEF Tasks
  <2> QED
    BY <1>3, <2>1, StartFrameOK
<1> QED
  BY <1>1, <1>2, <1>3, <1>4

\* The stop of an update keeps them, ..
LEMMA UpdateStopFrames ==
  ASSUME Sound, UpdateStop PROVE Chains' /\ Frames' /\ Answers'
<1>1. At(Daemon, {"update"}, "stop") /\ Daemon \in Tasks
  BY DEF UpdateStop, Tasks
<1>2. PICK n \in Names : n = Subject(Daemon)
  BY <1>1, TopFrame
<1>3. /\ stack[Daemon] # <<>> /\ Top(Daemon) \in Calls /\ n = Top(Daemon).name /\ AnswerOK(n)
      /\ Top(Daemon).op = "update" /\ CallOK(Daemon, Top(Daemon))
  BY <1>1, <1>2, TopFrame
<1>4. PICK f : f = StartFrame(n, Top(Daemon).arg, Top(Daemon).path, 1)
  OBVIOUS
<1>5. /\ TakeOut(n) /\ db' = StoppedRow(n) /\ wanted' = [wanted EXCEPT ![n] = "any"]
      /\ raced' = Raced(Daemon, n) /\ UNCHANGED <<dir, faults>> /\ Call(Daemon, f, "started")
  BY <1>2, <1>4 DEF UpdateStop, counts
<1>6. /\ Mem /\ Stacks /\ Alone /\ Chains /\ Frames /\ Answers /\ faults \in Nat
      /\ raced \subseteq raced'
  BY <1>5 DEF Sound, Base, Answers, Raced
<1>7. f \in Calls /\ f.op = "start" /\ f.pc = "begin"
  BY <1>1, <1>3, <1>4, UpdateFrame DEF Versions
<1>8. PICK g \in Calls : g = [Top(Daemon) EXCEPT !.pc = "started"]
  BY <1>3, Parts DEF Pcs
<1>9. g.op = "update" /\ g.pc = "started"
  BY <1>3, <1>8, Parts DEF Pcs
<1>10. Makes(Daemon, f, g)
  BY <1>1, <1>3, <1>5, <1>6, <1>7, <1>8, MakesOf DEF Pcs, Launches
<1>11. FrameOK(g)'
  BY <1>9 DEF FrameOK, Launches, Built
<1>12. /\ workers'[n] = None
       /\ \A m \in Names \ {n} : workers'[m] = workers[m] /\ sock'[m] = sock[m] /\ db'[m] = db[m]
       /\ workers[n] = None => db' = db
       /\ db'[n] # None => db[n] # None
  BY <1>5, <1>6, TakenOut
<1>13. wanted'[n] = "any" /\ \A m \in Names \ {n} : Stays(m)
  BY <1>5, <1>6, <1>12 DEF Stays, Mem
<1>14. n \notin raced' => n \notin raced
  BY <1>6
<1>15. AnswerOK(n)'
  BY <1>3, <1>5, <1>12, <1>13, <1>14 DEF AnswerOK, Absent, Reachable, Endless
<1>16. n \in Names \cup {None} /\ faults' = faults
  BY <1>5
<1> QED
  BY <1>1, <1>3, <1>5, <1>6, <1>7, <1>10, <1>11, <1>13, <1>15, <1>16, FocusKept

\* .. as does what follows its start, ..
LEMMA UpdateStartedFrames ==
  ASSUME Sound, UpdateStarted PROVE Chains' /\ Frames' /\ Answers'
<1>1. At(Daemon, {"update"}, "started") /\ Daemon \in Tasks
  BY DEF UpdateStarted, Tasks
<1>2. PICK n \in Names : n = Subject(Daemon)
  BY <1>1, TopFrame
<1>3. /\ stack[Daemon] # <<>> /\ Top(Daemon) \in Calls /\ n = Top(Daemon).name
      /\ Top(Daemon).op = "update" /\ CallOK(Daemon, Top(Daemon)) /\ Stacks
  BY <1>1, <1>2, TopFrame
<1>4. UNCHANGED <<workers, db, dir, sock, wanted, raced, faults>>
  BY DEF UpdateStarted, memVars, diskVars, ghosts, counts
<1>5. CASE Top(Daemon).ok
  <2>1. \E b : Ends(Daemon, b)
    BY <1>1, <1>3, <1>5, EndsOf DEF UpdateStarted
  <2> QED
    BY <1>1, <2>1, <1>4, CalmFrames
<1>6. CASE ~Top(Daemon).ok
  <2>1. PICK f : f = StartFrame(n, Top(Daemon).arg, Top(Daemon).path, 0)
    OBVIOUS
  <2>2. Call(Daemon, f, "rolled_back")
    BY <1>2, <1>3, <1>6, <2>1 DEF UpdateStarted
  <2>3. f \in Calls /\ f.op = "start" /\ f.pc = "begin"
    BY <1>1, <1>3, <2>1, UpdateFrame DEF Versions
  <2>4. PICK g \in Calls : g = [Top(Daemon) EXCEPT !.pc = "rolled_back"]
    BY <1>3, Parts DEF Pcs
  <2>5. g.op = "update" /\ g.pc = "rolled_back"
    BY <1>3, <2>4, Parts DEF Pcs
  <2>6. Makes(Daemon, f, g)
    BY <1>1, <1>3, <2>2, <2>3, <2>4, MakesOf DEF Pcs, Launches
  <2>7. FrameOK(g)'
    BY <2>5 DEF FrameOK, Launches, Built
  <2> QED
    BY <1>1, <2>3, <2>6, <2>7, <1>4, CalmFrames
<1> QED
  BY <1>5, <1>6

\* .. and the end of a rollback.
LEMMA UpdateRolledBackFrames ==
  ASSUME Sound, UpdateRolledBack PROVE Chains' /\ Frames' /\ Answers'
<1>1. At(Daemon, {"update"}, "rolled_back") /\ Daemon \in Tasks
  BY DEF UpdateRolledBack, Tasks
<1>2. Top(Daemon).ok \in BOOLEAN /\ Stacks
  BY <1>1, TopFrame DEF Calls
<1>3. \E b : Ends(Daemon, b)
  BY <1>1, <1>2, EndsOf DEF UpdateRolledBack
<1>4. UNCHANGED <<workers, db, dir, sock, wanted, raced, faults>>
  BY DEF UpdateRolledBack, memVars, diskVars, ghosts, counts
<1> QED
  BY <1>1, <1>3, <1>4, CalmFrames

\* The update the daemon takes up
LEMMA FoundUpdate ==
  ASSUME Sound, FindUpdate
  PROVE  \E f \in Calls : /\ TurnsTo(Daemon, f) /\ f.op = "update" /\ f.pc = "stop"
                          /\ f.worker = None
<1>1. PICK n \in Names :
        /\ stack[Daemon] = <<>> /\ listed[n] # None
        /\ stack' = [stack EXCEPT ![Daemon] =
             <<[Frame("update", n, listed[n].http) EXCEPT !.pc = "stop", !.path = listed[n].path]>>]
  BY DEF FindUpdate
<1>2. Stacks /\ Mem /\ Daemon \in Tasks
  BY DEF Sound, Base, Tasks
<1>3. PICK row \in Row : row = listed[n]
  BY <1>1 DEF Sound, Listed
<1>4. PICK f : f = [Frame("update", n, row.http) EXCEPT !.pc = "stop", !.path = row.path]
  OBVIOUS
<1>5. f = [op |-> "update", name |-> n, pc |-> "stop", arg |-> row.http,
           path |-> row.path, ver |-> 0, worker |-> None, ok |-> FALSE]
  BY <1>4 DEF Frame
<1>6. f \in Calls /\ f.op = "update" /\ f.pc = "stop" /\ f.worker = None
  BY <1>3, <1>5 DEF Calls, Ops, Pcs, Row, Versions
<1>7. stack' = [stack EXCEPT ![Daemon] = <<f>>]
  BY <1>1, <1>3, <1>4
<1>8. Under(Daemon) = <<>> /\ <<f>> = <<f>> \o <<>>
  BY <1>1, <1>6 DEF Under
<1>9. TurnsTo(Daemon, f)
  BY <1>1, <1>2, <1>6, <1>7, <1>8 DEF TurnsTo, Same, Stacks
<1> QED
  BY <1>6, <1>9

\* Finding an update keeps them.
LEMMA FindUpdateFrames ==
  ASSUME Sound, FindUpdate PROVE Chains' /\ Frames' /\ Answers'
<1>1. PICK f \in Calls : TurnsTo(Daemon, f) /\ f.op = "update" /\ f.pc = "stop"
  BY FoundUpdate
<1>2. UNCHANGED <<workers, db, dir, sock, wanted, raced, faults>> /\ Daemon \in Tasks
  BY DEF FindUpdate, memVars, diskVars, ghosts, counts, Tasks
<1>3. FrameOK(f)'
  BY <1>1 DEF FrameOK, Launches, Built
<1> QED
  BY <1>1, <1>2, <1>3, CalmFrames

\* The calls of a resume at the daemon's start
LEMMA BootResumes ==
  ASSUME Base, BootResume
  PROVE  \E n \in boot.todo, f, g \in Calls :
           /\ n \in Names /\ boot' = [boot EXCEPT !.todo = @ \ {n}]
           /\ Same(Daemon) /\ stack'[Daemon] = <<f, g>> /\ Range(stack'[Daemon]) = {f, g}
           /\ Top(Daemon)' = f /\ stack'[Daemon] # <<>>
           /\ f.op = "resume" /\ f.pc = "begin" /\ f.name = n /\ f.worker = None /\ f.ver = 0
           /\ g.op = "boot" /\ g.pc = "resumed" /\ g.name = n
           /\ g.ver = Top(Daemon).ver /\ g.worker = Top(Daemon).worker
<1>1. /\ Same(Daemon)
      /\ \E f, g \in Calls :
           /\ stack'[Daemon] = <<f, g>> /\ stack'[Daemon] # <<>> /\ Top(Daemon)' = f
           /\ Range(stack'[Daemon]) = {f, g}
           /\ f.op = "resume" /\ f.pc = "begin" /\ g.op = "boot" /\ g.pc = "resumed"
  BY BootResumeBase
<1>2. PICK n \in boot.todo :
        /\ boot' = [boot EXCEPT !.todo = @ \ {n}]
        /\ stack' = [stack EXCEPT ![Daemon] =
             <<Frame("resume", n, None), [Top(Daemon) EXCEPT !.name = n, !.pc = "resumed"]>>]
  BY DEF BootResume
<1>3. PICK f, g : /\ f = Frame("resume", n, None)
                  /\ g = [Top(Daemon) EXCEPT !.name = n, !.pc = "resumed"]
  OBVIOUS
<1>4. stack'[Daemon] = <<f, g>>
  BY <1>2, <1>3 DEF Base, Stacks, Tasks
<1>5. PICK h, k \in Calls :
        /\ stack'[Daemon] = <<h, k>> /\ stack'[Daemon] # <<>> /\ Top(Daemon)' = h
        /\ Range(stack'[Daemon]) = {h, k}
        /\ h.op = "resume" /\ h.pc = "begin" /\ k.op = "boot" /\ k.pc = "resumed"
  BY <1>1
<1>6. h = f /\ k = g
  BY <1>4, <1>5
<1>7. f.name = n /\ f.worker = None /\ f.ver = 0
  BY <1>3 DEF Frame
<1>8. g.name = n /\ g.ver = Top(Daemon).ver /\ g.worker = Top(Daemon).worker
  <2>1. Top(Daemon) \in Calls
    BY AtCall DEF BootResume, Tasks
  <2> QED
    BY <1>3, <2>1 DEF Calls
<1>9. n \in Names
  BY <1>2 DEF Base, Mem
<1> QED
  BY <1>1, <1>2, <1>5, <1>6, <1>7, <1>8, <1>9

\* Nothing that matters to the answers changes, but the stack of one task.
LEMMA StackOnly ==
  ASSUME Sound, NEW c \in Tasks, Same(c), UNCHANGED <<workers, db, dir, sock, wanted, raced, faults>>,
         Chained(stack'[c]), \A f \in Range(stack'[c]) : FrameOK(f)'
  PROVE  Chains' /\ Frames' /\ Answers'
<1>1. \A m \in Names : Stays(m)
  BY DEF Stays
<1>2. Answers'
  BY <1>1, AnswerStays DEF Sound, Answers
<1>3. Chains'
  BY DEF Sound, Chains, Same
<1>4. ASSUME NEW d \in Tasks \ {c}, NEW f \in Range(stack'[d]) PROVE FrameOK(f)'
  <2>1. FrameOK(f)
    BY <1>4 DEF Sound, Frames, Same
  <2> QED
    BY <1>1, <2>1, FrameStays DEF Like
<1> QED
  BY <1>2, <1>3, <1>4 DEF Frames

\* Nothing changes but the callbacks and the counts.
LEMMA StillFrames ==
  ASSUME Sound, UNCHANGED <<stack, workers, db, dir, sock, wanted, raced, faults>>
  PROVE  Chains' /\ Frames' /\ Answers'
<1>1. Daemon \in Tasks /\ Same(Daemon) /\ stack' = stack
  BY DEF Tasks, Same
<1>2. \A f \in Range(stack'[Daemon]) : FrameOK(f)'
  <2> SUFFICES ASSUME NEW f \in Range(stack[Daemon]) PROVE FrameOK(f)'
    BY <1>1
  <2>1. FrameOK(f)
    BY <1>1 DEF Sound, Frames
  <2> QED
    BY <2>1, FrameStays DEF Like, Stays
<1> QED
  BY <1>1, <1>2, StackOnly DEF Sound, Chains

\* Resuming a playbook at the daemon's start keeps them, ..
LEMMA BootResumeFrames ==
  ASSUME Sound, BootResume PROVE Chains' /\ Frames' /\ Answers'
<1>1. PICK f, g \in Calls :
           /\ Same(Daemon) /\ stack'[Daemon] = <<f, g>> /\ Range(stack'[Daemon]) = {f, g}
           /\ f.op = "resume" /\ f.pc = "begin" /\ g.op = "boot" /\ g.pc = "resumed"
  BY BootResumes DEF Sound
<1>2. UNCHANGED <<workers, db, dir, sock, wanted, raced, faults>>
  BY DEF BootResume, memVars, diskVars, ghosts, counts
<1>3. FrameOK(f)' /\ FrameOK(g)'
  BY <1>1 DEF FrameOK, Built, Launches
<1>4. Chained(<<f, g>>)
  <2>1. Len(<<f, g>>) = 2 /\ <<f, g>>[1] = f /\ <<f, g>>[2] = g
    OBVIOUS
  <2>2. Link(f, g)
    BY <1>1 DEF Link, Launches
  <2> QED
    BY <2>1, <2>2 DEF Chained
<1> QED
  BY <1>1, <1>2, <1>3, <1>4, StackOnly DEF Tasks

\* .. as does coming back from that, ..
LEMMA BootResumedFrames ==
  ASSUME Sound, BootResumed PROVE Chains' /\ Frames' /\ Answers'
<1>1. At(Daemon, {"boot"}, "resumed") /\ Daemon \in Tasks /\ Become(Daemon, BootFrame)
  BY DEF BootResumed, Tasks
<1>2. PICK f \in Calls : f = BootFrame /\ f.op = "boot" /\ f.pc = "next"
  BY BootFrameOK
<1>3. TurnsTo(Daemon, f)
  BY <1>1, <1>2, TopFrame, TurnsOf DEF Launches
<1>4. FrameOK(f)'
  BY <1>2 DEF FrameOK, Built, Launches
<1>5. UNCHANGED <<workers, db, dir, sock, wanted, raced, faults>>
  BY DEF BootResumed, memVars, diskVars, ghosts, counts
<1> QED
  BY <1>1, <1>3, <1>4, <1>5, CalmFrames

\* .. and the end of a pass.
LEMMA BootPassFrames ==
  ASSUME Sound, BootPass PROVE Chains' /\ Frames' /\ Answers'
<1>1. UNCHANGED <<workers, db, dir, sock, wanted, raced, faults>>
  BY DEF BootPass, memVars, diskVars, ghosts, counts
<1>2. CASE stack' = stack
  BY <1>1, <1>2, StillFrames
<1>3. CASE Return(Daemon, TRUE)
  <2>1. Daemon \in Tasks
    BY DEF Tasks
  <2>2. \E b : Ends(Daemon, b)
    BY <1>3, <2>1, EndsOf DEF Sound, Base
  <2> QED
    BY <1>1, <2>1, <2>2, CalmFrames
<1> QED
  BY <1>2, <1>3 DEF BootPass

\* An end of the daemon keeps them: no worker is left, and no call but the daemon's.
LEMMA CrashFrames ==
  ASSUME Sound, Crash PROVE Chains' /\ Frames' /\ Answers'
<1>1. /\ Range(stack'[Daemon]) = {BootFrame} /\ \A c \in Clients : stack'[c] = <<>>
      /\ \A n \in Names : workers'[n] = None
  BY CrashBase DEF Sound
<1>2. UNCHANGED <<db, dir, wanted, raced, faults>>
  BY DEF Crash, diskVars, ghosts
<1>3. PICK f \in Calls : f = BootFrame /\ f.op = "boot" /\ f.pc = "next"
  BY BootFrameOK
<1>4. Frames'
  <2>1. FrameOK(f)'
    BY <1>3 DEF FrameOK, Built, Launches
  <2>2. \A c \in Tasks : c \in Clients \/ c = Daemon
    BY DEF Tasks
  <2> QED
    BY <1>1, <1>3, <2>1, <2>2 DEF Frames, Range
<1>5. Chains'
  <2>1. stack'[Daemon] = <<f>> /\ Len(<<f>>) = 1
    BY <1>3 DEF Crash, Tasks
  <2>2. Chained(<<f>>)
    BY <2>1 DEF Chained
  <2> QED
    BY <1>1, <2>1, <2>2, EmptyChained DEF Chains, Tasks
<1>6. Answers'
  <2> SUFFICES ASSUME NEW n \in Names PROVE AnswerOK(n)'
    BY <1>2 DEF Answers, Sound
  <2>1. AnswerOK(n)
    BY DEF Answers, Sound
  <2> QED
    BY <1>1, <1>2, <2>1 DEF AnswerOK, Absent, Reachable, Running, ListRows, GetRow, Endless
<1> QED
  BY <1>4, <1>5, <1>6

\* Sound holds at first.
LEMMA InitSound == Init => Sound
<1> SUFFICES ASSUME Init PROVE Sound
  OBVIOUS
<1>1. \A c \in Tasks : stack[c] = <<>>
  BY DEF Init
<1>2. Chains /\ Frames
  BY <1>1, EmptyChained DEF Chains, Frames, Range
<1>3. Answers
  BY DEF Init, Answers, AnswerOK, Absent, Reachable
<1> QED
  BY <1>2, <1>3, InitBase DEF Sound, Init, NothingListed, Listed

\* Every step keeps the answers.
LEMMA StepSound == ASSUME Sound, [Next]_vars PROVE Sound'
<1>1. ASSUME NEW c \in Tasks, StartStep(c) \/ ResumeStep(c) PROVE Chains' /\ Frames' /\ Answers'
  BY <1>1, StartGetRowFrames, MakeDirsFrames, SavePlaybookFrames, StartInsertFrames,
     ResumeGetRowFrames, ResumeStatusFrames, ResumeInsertFrames, ResumeConflictFrames
     DEF StartStep, ResumeStep
<1>2. ASSUME NEW c \in Tasks, WorkerStep(c) PROVE Chains' /\ Frames' /\ Answers'
  BY <1>2, CheckNotRunningFrames, FindInterconnectFrames, InterconnectStartedFrames,
     StartWorkerFrames, LoadFailsFrames, ListenFailsFrames, RegisterCallbacksFrames DEF WorkerStep
<1>3. ASSUME NEW c \in Tasks, ChangeStep(c) PROVE Chains' /\ Frames' /\ Answers'
  BY <1>3, StopPlaybookFrames, DeletePlaybookFrames, RemoveDirFrames, SetHttpAddressFrames,
     SetHttpFailsFrames, CallbackRowFrames, ToldCallbackFrames DEF ChangeStep
<1>4. ASSUME DaemonStep PROVE Chains' /\ Frames' /\ Answers'
  BY <1>4, UpdateStopFrames, UpdateStartedFrames, UpdateRolledBackFrames, BootResumeFrames,
     BootResumedFrames, BootPassFrames DEF DaemonStep
<1>5. ASSUME FindUpdate PROVE Chains' /\ Frames' /\ Answers'
  BY <1>5, FindUpdateFrames
<1>6. ASSUME Crash PROVE Chains' /\ Frames' /\ Answers'
  BY <1>6, CrashFrames
<1>7. ASSUME ListUpdates \/ UNCHANGED vars PROVE Chains' /\ Frames' /\ Answers'
  <2>1. UNCHANGED <<stack, workers, db, dir, sock, wanted, raced, faults>>
    BY <1>7, Waited DEF Waiting, memVars, diskVars, ghosts
  <2> QED
    BY <2>1, StillFrames
<1>8. Chains' /\ Frames' /\ Answers'
  BY <1>1, <1>2, <1>3, <1>4, <1>5, <1>6, <1>7 DEF Next, TaskStep, Idle
<1> QED
  BY <1>8, StepBase, StepListed DEF Sound

-----------------------------------------------------------------------------
(* Addresses and versions of workers *)

\* The address at which the worker of the map, or of a call, listens
MapHttp(n) == IF workers[n] = None THEN None ELSE workers[n].http
CallHttp(c) == IF stack[c] = <<>> \/ Top(c).worker = None THEN None ELSE Top(c).worker.http

\* No two workers have one address.
Https ==
  /\ \A n, m \in Names : MapHttp(n) = MapHttp(m) /\ MapHttp(n) # None => n = m
  /\ \A c, d \in Tasks : CallHttp(c) = CallHttp(d) /\ CallHttp(c) # None => c = d
  /\ \A n \in Names, c \in Tasks : MapHttp(n) = CallHttp(c) => MapHttp(n) = None

\* Only an update starts another version.
VerOK(f) ==
  f.op \in Launches => /\ f.ver # 0 => f.name \in updated
                       /\ f.worker # None => f.worker.ver = f.ver

Vers ==
  /\ \A n \in Names : /\ workers[n] # None /\ workers[n].ver # 0 => n \in updated
                      /\ db[n] # None /\ db[n].ver # 0 => n \in updated
  /\ \A c \in Tasks : \A f \in Range(stack[c]) : VerOK(f)

\* A step that starts no worker and gives none an address
TameWorkers ==
  \A m \in Names : workers'[m] # None =>
    /\ workers[m] # None
    /\ workers'[m].ver = workers[m].ver /\ workers'[m].http \in {None, workers[m].http}

TameRows == \A m \in Names : db'[m] # None => db[m] # None /\ db'[m].ver = db[m].ver

\* The calls after a step: their versions are accounted for, ..
VersShape(c) ==
  \/ \E f : TurnsTo(c, f) /\ VerOK(f)'
  \/ \E f, g : Makes(c, f, g) /\ VerOK(f)' /\ VerOK(g)'
  \/ \E b : Ends(c, b)

\* .. and none has an address it did not have.
HttpShape(c) ==
  \/ \E f : /\ TurnsTo(c, f)
            /\ f.worker = None \/ (stack[c] # <<>> /\ Top(c).worker # None
                                     /\ f.worker.http = Top(c).worker.http)
  \/ \E f, g : Makes(c, f, g) /\ f.worker = None
  \/ \E b : Ends(c, b)

\* What keeps Vers: the versions of the step's workers, rows and calls are accounted for.
LEMMA VersKept ==
  ASSUME Stacks, Vers, NEW c \in Tasks, updated \subseteq updated', VersShape(c),
         \A m \in Names : workers'[m] # None /\ workers'[m].ver # 0 => m \in updated',
         \A m \in Names : db'[m] # None /\ db'[m].ver # 0 => m \in updated'
  PROVE  Vers'
<1>1. \A f, g : VerOK(f) /\ Like(g, f) => VerOK(g)'
  BY DEF VerOK, Like
<1>2. \A f : Like(f, f)
  BY DEF Like
<1>3. \A f \in Range(Under(c)) : VerOK(f)
  <2>1. Range(Under(c)) \subseteq Range(stack[c])
    BY IdleUnder, Peek
  <2> QED
    BY <2>1 DEF Vers
<1>4. \A f \in Range(stack'[c]) : VerOK(f)'
  <2>1. CASE \E f : TurnsTo(c, f) /\ VerOK(f)'
    BY <2>1, <1>1, <1>2, <1>3, TurnsRange
  <2>2. CASE \E f, g : Makes(c, f, g) /\ VerOK(f)' /\ VerOK(g)'
    <3>1. PICK f, g : Makes(c, f, g) /\ VerOK(f)' /\ VerOK(g)'
      BY <2>2
    <3>2. Range(stack'[c]) = {f, g} \cup Range(Under(c))
      BY <3>1, MakesRange
    <3> QED
      BY ONLY <3>1, <3>2, <1>1, <1>2, <1>3
  <2>3. CASE \E b : Ends(c, b)
    BY <2>3, <1>1, <1>3, EndsRange
  <2> QED
    BY <2>1, <2>2, <2>3 DEF VersShape
<1>5. \A d \in Tasks \ {c} : stack'[d] = stack[d]
  BY DEF TurnsTo, Makes, Ends, Same, VersShape
<1>6. \A d \in Tasks \ {c} : \A f \in Range(stack'[d]) : VerOK(f)'
  BY <1>1, <1>2, <1>5 DEF Vers
<1> QED
  BY <1>4, <1>6 DEF Vers

\* What keeps Https: no worker is given an address it did not have.
LEMMA HttpsCalm ==
  ASSUME Https, \A n \in Names : MapHttp(n)' \in {None, MapHttp(n)},
         \A c \in Tasks : CallHttp(c)' \in {None, CallHttp(c)}
  PROVE  Https'
  BY DEF Https

\* The addresses of the calls after a step
LEMMA CallHttps ==
  ASSUME Stacks, NEW c \in Tasks, HttpShape(c)
  PROVE  \A d \in Tasks : CallHttp(d)' \in {None, CallHttp(d)}
<1>1. \A d \in Tasks \ {c} : stack'[d] = stack[d]
  BY DEF TurnsTo, Makes, Ends, Same, HttpShape
<1>2. \A d \in Tasks \ {c} : CallHttp(d)' = CallHttp(d)
  BY <1>1 DEF CallHttp, Top
<1>3. CallHttp(c)' \in {None, CallHttp(c)}
  <2>1. ASSUME NEW f, TurnsTo(c, f),
               f.worker = None \/ (stack[c] # <<>> /\ Top(c).worker # None
                                     /\ f.worker.http = Top(c).worker.http)
        PROVE  CallHttp(c)' \in {None, CallHttp(c)}
    <3>1. Top(c)' = f
      BY <2>1, TurnsRange
    <3> QED
      BY <2>1, <3>1 DEF CallHttp
  <2>2. ASSUME NEW f, NEW g, Makes(c, f, g), f.worker = None
        PROVE  CallHttp(c)' \in {None, CallHttp(c)}
    <3>1. Top(c)' = f
      BY <2>2, MakesRange
    <3> QED
      BY <2>2, <3>1 DEF CallHttp
  <2>3. ASSUME NEW b, Ends(c, b) PROVE CallHttp(c)' = None
    <3> SUFFICES ASSUME stack'[c] # <<>> PROVE Top(c)'.worker = None
      BY DEF CallHttp
    <3>1. Like(Top(c)', Head(Under(c))) /\ Head(Under(c)) \in Range(Under(c))
      BY <2>3, EndsRange
    <3>2. CallOK(c, Head(Under(c))) /\ Head(Under(c)).pc \in Waits
      BY <3>1, IdleUnder, Peek
    <3> QED
      BY <3>1, <3>2 DEF Like, CallOK, Waits, Built
  <2> QED
    BY <2>1, <2>2, <2>3 DEF HttpShape
<1> QED
  BY <1>2, <1>3

\* A step that changes neither addresses nor versions
LEMMA TameKept ==
  ASSUME Stacks, Vers, Https, NEW c \in Tasks, updated \subseteq updated', VersShape(c), HttpShape(c),
         TameWorkers, TameRows
  PROVE  Vers' /\ Https'
<1>1. /\ \A m \in Names : workers'[m] # None /\ workers'[m].ver # 0 => m \in updated'
      /\ \A m \in Names : db'[m] # None /\ db'[m].ver # 0 => m \in updated'
  BY DEF Vers, TameWorkers, TameRows
<1>2. \A n \in Names : MapHttp(n)' \in {None, MapHttp(n)}
  BY DEF MapHttp, TameWorkers
<1> QED
  BY <1>1, <1>2, VersKept, CallHttps, HttpsCalm

\* A call that goes to another place keeps its version and its worker.
LEMMA GotoShape ==
  ASSUME Sound, Vers, NEW c \in Tasks, NEW op, NEW p, At(c, op, p), NEW q \in Pcs, Goto(c, q),
         updated \subseteq updated'
  PROVE  VersShape(c) /\ HttpShape(c)
<1>1. PICK f \in Calls : /\ TurnsTo(c, f) /\ f.op = Top(c).op /\ f.name = Top(c).name
                         /\ f.ver = Top(c).ver /\ f.worker = Top(c).worker
  BY GotoTurn
<1>2. VerOK(Top(c)) /\ stack[c] # <<>>
  BY AtCall DEF Vers, Sound, Base
<1>3. VerOK(f)'
  BY <1>1, <1>2 DEF VerOK
<1> QED
  BY <1>1, <1>2, <1>3 DEF VersShape, HttpShape

\* A return gives no call a version or an address, ..
LEMMA ReturnShapes ==
  ASSUME Sound, NEW c \in Tasks, NEW b \in BOOLEAN, Return(c, b) PROVE VersShape(c) /\ HttpShape(c)
  BY EndsOf DEF VersShape, HttpShape, Sound, Base

\* A request is for the version that modules expect, and has no worker.
LEMMA RequestNew ==
  ASSUME NEW f \in Requests PROVE f.ver = 0 /\ f.worker = None
<1>1. \A op, n, a : Frame(op, n, a).ver = 0 /\ Frame(op, n, a).worker = None
  BY DEF Frame
<1>2. \A n, a, p : StartFrame(n, a, p, 0).ver = 0 /\ StartFrame(n, a, p, 0).worker = None
  BY DEF Frame, StartFrame
<1> QED
  BY <1>1, <1>2 DEF Requests, StartRequests, CallbackRequests, AddressRequests

\* .. nor does the beginning of a call.
LEMMA EnterShapes ==
  ASSUME Sound, Vers, NEW c \in Tasks, NEW op, NEW f \in Entering(c, op), "boot" \notin op,
         NEW q \in Pcs, Become(c, [f EXCEPT !.pc = q]), updated \subseteq updated'
  PROVE  VersShape(c) /\ HttpShape(c)
<1>1. PICK g \in Calls : /\ TurnsTo(c, g) /\ g.op = f.op /\ g.name = f.name
                         /\ g.ver = f.ver /\ g.worker = f.worker
  BY EnterTurn
<1>2. CASE stack[c] # <<>>
  <2>1. f = Top(c) /\ VerOK(Top(c)) /\ CallOK(c, Top(c)) /\ f.pc = "begin"
    <3>1. f = Top(c) /\ f.pc = "begin"
      BY <1>2, Entered
    <3> QED
      BY <1>2, <3>1, Peek DEF Vers, Sound, Base
  <2>2. VerOK(g)' /\ g.worker = None
    BY <1>1, <2>1 DEF VerOK, CallOK, Built
  <2> QED
    BY <1>1, <2>2 DEF VersShape, HttpShape
<1>3. CASE stack[c] = <<>>
  <2>1. f.ver = 0 /\ f.worker = None
    BY <1>3, Entered, RequestNew
  <2>2. VerOK(g)' /\ g.worker = None
    BY <1>1, <2>1 DEF VerOK
  <2> QED
    BY <1>1, <2>2 DEF VersShape, HttpShape
<1> QED
  BY <1>2, <1>3

\* A step that leaves the workers is tame.
LEMMA TameSame ==
  ASSUME workers' = workers, db' = db PROVE TameWorkers /\ TameRows
  BY DEF TameWorkers, TameRows

\* A step that only moves a call
LEMMA MoveKept ==
  ASSUME Sound, Vers, Https, NEW c \in Tasks, UNCHANGED <<workers, db, updated>>,
         \/ \E op, p : At(c, op, p) /\ \E q \in Pcs : Goto(c, q)
         \/ \E b \in BOOLEAN : Return(c, b)
  PROVE  Vers' /\ Https'
<1>1. VersShape(c) /\ HttpShape(c)
  BY GotoShape, ReturnShapes
<1> QED
  BY <1>1, TameSame, TameKept DEF Sound, Base

\* What keeps both: a call that moves on
LEMMA MovesVers ==
  ASSUME Sound, Vers, Https, NEW c \in Tasks,
         \/ StartGetRow(c) \/ MakeDirs(c) \/ InterconnectStarted(c) \/ LoadFails(c) \/ ListenFails(c)
         \/ ResumeConflict(c) \/ RemoveDir(c)
  PROVE  Vers' /\ Https'
<1>1. UNCHANGED <<workers, db, updated>>
  BY DEF StartGetRow, MakeDirs, InterconnectStarted, LoadFails, ListenFails, ResumeConflict,
         RemoveDir, memVars, diskVars, ghosts
<1>2. {"delete", "dirs", "worker", "interconnect"} \subseteq Pcs
  BY DEF Pcs, Past
<1>3. CASE StartGetRow(c)
  <2>1. At(c, {"start"}, "row") /\ \E q \in Pcs : Goto(c, q)
    BY <1>2, <1>3 DEF StartGetRow
  <2> QED
    BY <1>1, <2>1, MoveKept
<1>4. CASE MakeDirs(c)
  <2>1. At(c, {"start"}, "dirs") /\ \E q \in Pcs : Goto(c, q)
    BY <1>2, <1>4 DEF MakeDirs, AfterLoad
  <2> QED
    BY <1>1, <2>1, MoveKept
<1>5. CASE InterconnectStarted(c)
  <2>1. At(c, {"start", "resume"}, "launched") /\ (Goto(c, "worker") \/ Return(c, FALSE))
    BY <1>5 DEF InterconnectStarted
  <2>2. (\E q \in Pcs : Goto(c, q)) \/ \E b \in BOOLEAN : Return(c, b)
    BY <1>2, <2>1
  <2> QED
    BY <1>1, <2>1, <2>2, MoveKept
<1>6. CASE LoadFails(c) \/ ListenFails(c) \/ ResumeConflict(c)
  <2>1. \E b \in BOOLEAN : Return(c, b)
    BY <1>6 DEF LoadFails, ListenFails, ResumeConflict
  <2> QED
    BY <1>1, <2>1, MoveKept
<1>7. CASE RemoveDir(c)
  <2>1. At(c, {"start", "delete"}, "rmdir") /\ (Goto(c, "dirs") \/ Return(c, TRUE))
    BY <1>7 DEF RemoveDir
  <2>2. (\E q \in Pcs : Goto(c, q)) \/ \E b \in BOOLEAN : Return(c, b)
    BY <1>2, <2>1
  <2> QED
    BY <1>1, <2>1, <2>2, MoveKept
<1> QED
  BY <1>3, <1>4, <1>5, <1>6, <1>7

\* What a call of start_playbook or resume_playbook is about
LEMMA LaunchTop ==
  ASSUME Sound, Vers, NEW c \in Tasks, NEW p, At(c, {"start", "resume"}, p)
  PROVE  /\ stack[c] # <<>> /\ Top(c) \in Calls /\ Top(c).pc = p /\ Top(c).op \in Launches
         /\ Subject(c) \in Names /\ Subject(c) = Top(c).name /\ VerOK(Top(c))
         /\ Top(c).arg \in Addrs \cup {None}
         /\ IF p \in Built THEN Top(c).worker \in Worker ELSE Top(c).worker = None
         /\ Top(c).ver # 0 => Subject(c) \in updated
<1>1. /\ stack[c] # <<>> /\ Top(c) \in Calls /\ Top(c).pc = p /\ Top(c).op \in Launches
      /\ Subject(c) = Top(c).name /\ CallOK(c, Top(c))
  BY TopFrame DEF Launches
<1>2. VerOK(Top(c))
  BY <1>1, Peek DEF Vers, Sound, Base
<1>3. /\ Top(c).name \in Names /\ Top(c).arg \in Addrs \cup {None}
      /\ IF p \in Built THEN Top(c).worker \in Worker ELSE Top(c).worker = None
  BY <1>1, LaunchCall
<1> QED
  BY <1>1, <1>2, <1>3 DEF VerOK

\* Saving a row keeps Vers and Https: the row has the version of the call.
LEMMA SavePlaybookVers ==
  ASSUME Sound, Vers, Https, NEW c \in Tasks, SavePlaybook(c) PROVE Vers' /\ Https'
<1>1. At(c, {"start"}, "record") /\ At(c, {"start", "resume"}, "record")
  BY DEF SavePlaybook, At
<1>2. PICK n \in Names : n = Subject(c)
  BY <1>1, LaunchTop
<1>3. /\ UNCHANGED <<workers, updated>> /\ Goto(c, "insert") /\ Mem
      /\ db' = [db EXCEPT ![n] = [status |-> "running", http |-> Top(c).arg,
                                  path |-> Top(c).path, ver |-> Top(c).ver]]
  BY <1>2 DEF SavePlaybook, SaveRow, memVars, Sound, Base
<1>4. "insert" \in Pcs
  BY DEF Pcs, Past, Built
<1>5. VersShape(c) /\ HttpShape(c)
  BY <1>1, <1>3, <1>4, GotoShape
<1>6. db'[n].ver = Top(c).ver /\ \A m \in Names \ {n} : db'[m] = db[m]
  BY <1>3 DEF Mem
<1>7. \A m \in Names : db'[m] # None /\ db'[m].ver # 0 => m \in updated'
  BY <1>1, <1>2, <1>3, <1>6, LaunchTop DEF Vers
<1>8. \A m \in Names : workers'[m] # None /\ workers'[m].ver # 0 => m \in updated'
  BY <1>3 DEF Vers
<1>9. Vers'
  BY <1>3, <1>5, <1>7, <1>8, VersKept DEF Sound, Base
<1>10. Https'
  <2>1. \A m \in Names : MapHttp(m)' \in {None, MapHttp(m)}
    BY <1>3 DEF MapHttp
  <2> QED
    BY <2>1, <1>5, CallHttps, HttpsCalm DEF Sound, Base
<1> QED
  BY <1>9, <1>10

\* Setting the status of a row keeps them.
LEMMA ResumeStatusVers ==
  ASSUME Sound, Vers, Https, NEW c \in Tasks, ResumeStatus(c) PROVE Vers' /\ Https'
<1>1. At(c, {"resume"}, "record") /\ At(c, {"start", "resume"}, "record")
  BY DEF ResumeStatus, At
<1>2. PICK n \in Names : n = Subject(c)
  BY <1>1, LaunchTop
<1>3. /\ UNCHANGED <<workers, updated>> /\ Goto(c, "insert") /\ Mem /\ db' = WithStatus(n, "running")
  BY <1>2 DEF ResumeStatus, memVars, Sound, Base
<1>4. "insert" \in Pcs
  BY DEF Pcs, Past, Built
<1>5. VersShape(c) /\ HttpShape(c)
  BY <1>1, <1>3, <1>4, GotoShape
<1>6. TameWorkers /\ TameRows
  BY <1>3, StatusRow DEF TameWorkers, TameRows
<1> QED
  BY <1>3, <1>5, <1>6, TameKept DEF Sound, Base

\* A call's worker becomes the one of the map.
LEMMA InsertVers ==
  ASSUME Sound, Vers, Https, NEW c \in Tasks, StartInsert(c) \/ ResumeInsert(c)
  PROVE  Vers' /\ Https'
<1>1. At(c, {"start", "resume"}, "insert")
  BY DEF StartInsert, ResumeInsert, At
<1>2. PICK n \in Names : n = Subject(c)
  BY <1>1, LaunchTop
<1>3. /\ UNCHANGED <<db, updated>> /\ Return(c, TRUE) /\ Mem
      /\ workers' = [workers EXCEPT ![n] = Top(c).worker]
  BY <1>2 DEF StartInsert, ResumeInsert, diskVars, Sound, Base
<1>4. VersShape(c) /\ HttpShape(c)
  BY <1>3, ReturnShapes
<1>5. /\ Top(c).worker \in Worker /\ Top(c).worker # None /\ VerOK(Top(c)) /\ Top(c).op \in Launches
      /\ Top(c).name = n /\ stack[c] # <<>>
  BY <1>1, <1>2, LaunchTop, NoneAssumption DEF Built
<1>6. workers'[n] = Top(c).worker /\ \A m \in Names \ {n} : workers'[m] = workers[m]
  BY <1>3 DEF Mem
<1>7. Vers'
  <2>1. \A m \in Names : workers'[m] # None /\ workers'[m].ver # 0 => m \in updated'
    BY <1>3, <1>5, <1>6 DEF Vers, VerOK
  <2>2. \A m \in Names : db'[m] # None /\ db'[m].ver # 0 => m \in updated'
    BY <1>3 DEF Vers
  <2> QED
    BY <2>1, <2>2, <1>3, <1>4, VersKept DEF Sound, Base
<1>8. /\ MapHttp(n)' = CallHttp(c) /\ \A m \in Names \ {n} : MapHttp(m)' = MapHttp(m)
  BY <1>5, <1>6 DEF MapHttp, CallHttp
<1>9. CallHttp(c)' = None /\ \A d \in Tasks : CallHttp(d)' \in {None, CallHttp(d)}
  <2>1. \A d \in Tasks : CallHttp(d)' \in {None, CallHttp(d)}
    BY <1>4, CallHttps DEF Sound, Base
  <2>2. Returned(c, TRUE)
    BY <1>3, ReturnShape DEF Sound, Base
  <2>3. stack'[c] # <<>> => Top(c)'.worker = None
    <3>1. SUFFICES ASSUME stack'[c] # <<>> PROVE Top(c)'.worker = None
      OBVIOUS
    <3>2. PICK f \in Calls : CallOK(c, f) /\ f.pc \in Waits /\ Top(c)' = [f EXCEPT !.ok = TRUE]
      BY <2>2, <3>1 DEF Returned
    <3>3. Top(c)'.worker = f.worker
      BY <3>2 DEF Calls
    <3> QED
      BY <3>2, <3>3 DEF CallOK, Waits, Built
  <2> QED
    BY <2>1, <2>3 DEF CallHttp
<1>10. Https'
  BY <1>8, <1>9 DEF Https
<1> QED
  BY <1>7, <1>10

\* One worker is given an address that no other has, and no call is given one.
LEMMA OneAddress ==
  ASSUME Https, NEW n \in Names, NEW a, MapHttp(n)' = a,
         \A m \in Names \ {n} : MapHttp(m)' = MapHttp(m) /\ (MapHttp(m) = a => a = None),
         \A c \in Tasks : CallHttp(c)' \in {None, CallHttp(c)} /\ (CallHttp(c) = a => a = None)
  PROVE  Https'
  BY DEF Https

\* The address of a worker that exists
LEMMA Listening ==
  ASSUME Stacks
  PROVE  /\ \A n \in Names : MapHttp(n) # None =>
              workers[n] \in AllWorkers /\ MapHttp(n) = workers[n].http
         /\ \A c \in Tasks : CallHttp(c) # None =>
              Top(c).worker \in AllWorkers /\ CallHttp(c) = Top(c).worker.http
<1>1. \A n \in Names : workers[n] # None => workers[n] \in AllWorkers
  BY DEF AllWorkers
<1>2. ASSUME NEW c \in Tasks, stack[c] # <<>>, Top(c).worker # None
      PROVE  Top(c).worker \in AllWorkers
  <2>1. Top(c) \in Range(stack[c])
    BY <1>2, Peek
  <2>2. Top(c).worker \in {f.worker : f \in Range(stack[c])}
    BY <2>1
  <2> QED
    BY <1>2, <2>2 DEF AllWorkers
<1> QED
  BY <1>1, <1>2 DEF MapHttp, CallHttp

\* set_http_address keeps them: the address is free.
LEMMA SetHttpAddressVers ==
  ASSUME Sound, Vers, Https, NEW c \in Tasks, SetHttpAddress(c) PROVE Vers' /\ Https'
<1>1. PICK f \in Entering(c, {"set_http"}) :
        /\ workers[f.name] # None /\ workers' = WithHttp(f.name, f.arg)
        /\ OthersFree(f.name, f.arg)
        /\ db' = HttpRow(f.name, f.arg) /\ Return(c, TRUE) /\ updated' = updated
  BY DEF SetHttpAddress
<1>2. f.name \in Names /\ f.arg \in Addrs \cup {None}
  <2>1. f.op \in {"set_http"} /\ (f.op = "set_http" => f.arg \in Addrs \cup {None}) /\ f.name \in Names
    BY Entered
  <2> QED
    BY <2>1
<1>3. PICK n \in Names : n = f.name
  BY <1>2
<1>4. Mem /\ Stacks
  BY DEF Sound, Base
<1>5. /\ workers'[n] # None /\ workers'[n].http = f.arg /\ workers'[n].ver = workers[n].ver
      /\ \A m \in Names \ {n} : workers'[m] = workers[m]
  BY <1>1, <1>2, <1>3, <1>4, HttpSet
<1>6. /\ \A m \in Names \ {n} : db'[m] = db[m]
      /\ db[n] = None => db'[n] = None
      /\ db[n] # None => db'[n] # None /\ db'[n].ver = db[n].ver
  BY <1>1, <1>2, <1>3, <1>4, HttpRowSet
<1>7. VersShape(c) /\ HttpShape(c)
  BY <1>1, ReturnShapes
<1>8. Vers'
  <2>1. \A m \in Names : workers'[m] # None /\ workers'[m].ver # 0 => m \in updated'
    BY <1>1, <1>3, <1>5 DEF Vers
  <2>2. \A m \in Names : db'[m] # None /\ db'[m].ver # 0 => m \in updated'
    BY <1>1, <1>6 DEF Vers
  <2> QED
    BY <1>1, <1>4, <1>7, <2>1, <2>2, VersKept
<1>9. Https'
  <2>1. MapHttp(n)' = f.arg /\ \A m \in Names \ {n} : MapHttp(m)' = MapHttp(m)
    BY <1>5 DEF MapHttp
  <2>2. f.arg # None => \A w \in AllWorkers \ {workers[n]} : w.http # f.arg
    BY <1>1, <1>3 DEF OthersFree
  <2>3. \A m \in Names \ {n} : MapHttp(m) = f.arg => f.arg = None
    <3> SUFFICES ASSUME NEW m \in Names \ {n}, MapHttp(m) = f.arg, f.arg # None PROVE FALSE
      OBVIOUS
    <3>1. workers[m] \in AllWorkers /\ workers[m].http = f.arg
      BY <1>4, Listening
    <3>2. workers[m] = workers[n]
      BY <2>2, <3>1
    <3> QED
      BY <3>2 DEF Https, MapHttp
  <2>4. \A d \in Tasks : CallHttp(d) = f.arg => f.arg = None
    <3> SUFFICES ASSUME NEW d \in Tasks, CallHttp(d) = f.arg, f.arg # None PROVE FALSE
      OBVIOUS
    <3>1. Top(d).worker \in AllWorkers /\ Top(d).worker.http = f.arg
      BY <1>4, Listening
    <3>2. Top(d).worker = workers[n]
      BY <2>2, <3>1
    <3>3. MapHttp(n) = CallHttp(d)
      BY <3>1, <3>2, <1>1, <1>3 DEF MapHttp
    <3> QED
      BY <3>3 DEF Https
  <2>5. \A d \in Tasks : CallHttp(d)' \in {None, CallHttp(d)}
    BY <1>4, <1>7, CallHttps
  <2> QED
    BY <2>1, <2>3, <2>4, <2>5, OneAddress
<1> QED
  BY <1>8, <1>9

\* A failed set_http_address keeps them.
LEMMA SetHttpFailsVers ==
  ASSUME Sound, Vers, Https, NEW c \in Tasks, SetHttpFails(c) PROVE Vers' /\ Https'
<1>1. PICK f \in Entering(c, {"set_http"}) :
        /\ workers[f.name] # None /\ workers' = WithHttp(f.name, None)
        /\ Return(c, FALSE) /\ UNCHANGED <<db, updated>>
  BY DEF SetHttpFails, diskVars
<1>2. f.name \in Names
  BY Entered
<1>3. PICK n \in Names : n = f.name
  BY <1>2
<1>4. Mem /\ Stacks
  BY DEF Sound, Base
<1>5. /\ workers'[n].http = None /\ workers'[n].ver = workers[n].ver
      /\ \A m \in Names \ {n} : workers'[m] = workers[m]
  BY <1>1, <1>3, <1>4, HttpSet
<1>6. TameWorkers /\ TameRows
  BY <1>1, <1>3, <1>5 DEF TameWorkers, TameRows
<1>7. VersShape(c) /\ HttpShape(c)
  BY <1>1, ReturnShapes
<1> QED
  BY <1>1, <1>4, <1>6, <1>7, TameKept

\* Building a worker keeps them: its address is free.
LEMMA StartWorkerVers ==
  ASSUME Sound, Vers, Https, NEW c \in Tasks, StartWorker(c) PROVE Vers' /\ Https'
<1>1. At(c, {"start", "resume"}, "worker")
  BY DEF StartWorker
<1>2. PICK n \in Names : n = Subject(c)
  BY <1>1, LaunchTop
<1>3. /\ stack[c] # <<>> /\ Top(c) \in Calls /\ n = Top(c).name /\ VerOK(Top(c))
      /\ Top(c).op \in Launches
  BY <1>1, <1>2, LaunchTop
<1>4. PICK w : w = [id |-> NewId, http |-> Top(c).arg, cbs |-> NoCallbacks,
                    path |-> Top(c).path, ver |-> Top(c).ver]
  OBVIOUS
<1>5. PICK f : f = [Top(c) EXCEPT !.pc = "callbacks", !.worker = w]
  OBVIOUS
<1>6. /\ UNCHANGED <<workers, db, updated>> /\ Become(c, f) /\ HttpFree(w.http) /\ Stacks
  BY <1>2, <1>4, <1>5 DEF StartWorker, diskVars, ghosts, Sound, Base
<1>7. w \in Worker
  <2>1. NewId \in WorkerIds /\ NoCallbacks \in [Uuids -> 0..2]
    BY FreshId, CallbacksOfType DEF Sound, Base
  <2>2. Top(c).arg \in Addrs \cup {None} /\ Top(c).path \in BOOLEAN /\ Top(c).ver \in Versions
    BY <1>1, <1>3, LaunchTop DEF Calls
  <2> QED
    BY <1>4, <2>1, <2>2 DEF Worker
<1>8. /\ f \in Calls /\ f.op = Top(c).op /\ f.name = Top(c).name
      /\ f.ver = Top(c).ver /\ f.worker = w
  BY <1>3, <1>5, <1>7 DEF Calls, Pcs, Past, Built
<1>9. TurnsTo(c, f)
  BY <1>3, <1>6, <1>8, TurnsOf
<1>10. w.ver = Top(c).ver /\ w # None /\ w.http = Top(c).arg
  BY <1>4, <1>7, NoneAssumption
<1>11. VerOK(f)'
  BY <1>3, <1>6, <1>8, <1>10 DEF VerOK
<1>12. Vers'
  <2>1. VersShape(c)
    BY <1>9, <1>11 DEF VersShape
  <2>2. \A m \in Names : workers'[m] # None /\ workers'[m].ver # 0 => m \in updated'
    BY <1>6 DEF Vers
  <2>3. \A m \in Names : db'[m] # None /\ db'[m].ver # 0 => m \in updated'
    BY <1>6 DEF Vers
  <2> QED
    BY <1>6, <2>1, <2>2, <2>3, VersKept
<1>13. Https'
  <2>1. CallHttp(c)' = w.http
    <3>1. stack'[c] # <<>> /\ Top(c)' = f
      BY <1>6, <1>9, TurnsRange
    <3> QED
      BY <3>1, <1>8, <1>10 DEF CallHttp
  <2>2. \A d \in Tasks \ {c} : CallHttp(d)' = CallHttp(d)
    BY <1>9 DEF CallHttp, Top, TurnsTo, Same
  <2>3. \A m \in Names : MapHttp(m)' = MapHttp(m)
    BY <1>6 DEF MapHttp
  <2>4. w.http # None => \A v \in AllWorkers : v.http # w.http
    BY <1>6 DEF HttpFree
  <2>5. \A m \in Names : MapHttp(m) = w.http => w.http = None
    BY <2>4, <1>6, Listening
  <2>6. \A d \in Tasks : CallHttp(d) = w.http => w.http = None
    BY <2>4, <1>6, Listening
  <2> QED
    BY <2>1, <2>2, <2>3, <2>5, <2>6 DEF Https
<1> QED
  BY <1>12, <1>13

\* Giving it its callbacks keeps them.
LEMMA RegisterCallbacksVers ==
  ASSUME Sound, Vers, Https, NEW c \in Tasks, RegisterCallbacks(c) PROVE Vers' /\ Https'
<1>1. At(c, {"start", "resume"}, "callbacks")
  BY DEF RegisterCallbacks
<1>2. PICK n \in Names : n = Subject(c)
  BY <1>1, LaunchTop
<1>3. /\ stack[c] # <<>> /\ Top(c) \in Calls /\ n = Top(c).name /\ VerOK(Top(c))
      /\ Top(c).op \in Launches /\ Top(c).worker \in Worker
  BY <1>1, <1>2, LaunchTop DEF Built
<1>4. PICK f : f = [Top(c) EXCEPT !.pc = "record", !.worker.cbs = CallbacksOf(n)]
  OBVIOUS
<1>5. UNCHANGED <<workers, db, updated>> /\ Become(c, f) /\ Stacks
  BY <1>2, <1>4 DEF RegisterCallbacks, memVars, diskVars, ghosts, Sound, Base
<1>6. PICK w : w = [Top(c).worker EXCEPT !.cbs = CallbacksOf(n)]
  OBVIOUS
<1>7. /\ w \in Worker /\ w.http = Top(c).worker.http /\ w.ver = Top(c).worker.ver
  BY <1>3, <1>6, CallbacksOfType DEF Worker
<1>8. f = [Top(c) EXCEPT !.pc = "record", !.worker = w]
  BY <1>3, <1>4, <1>6 DEF Calls
<1>9. /\ f \in Calls /\ f.op = Top(c).op /\ f.name = Top(c).name
      /\ f.ver = Top(c).ver /\ f.worker = w
  BY <1>3, <1>7, <1>8 DEF Calls, Pcs, Past, Built
<1>10. TurnsTo(c, f)
  BY <1>3, <1>5, <1>9, TurnsOf
<1>11. Top(c).worker # None
  BY <1>3, NoneAssumption
<1>12. VerOK(f)'
  BY <1>3, <1>5, <1>7, <1>9, <1>11 DEF VerOK
<1>13. VersShape(c) /\ HttpShape(c)
  BY <1>3, <1>7, <1>9, <1>10, <1>11, <1>12 DEF VersShape, HttpShape
<1> QED
  BY <1>5, <1>13, TameSame, TameKept

\* Reading the row of a resume keeps them: the version is the row's.
LEMMA ResumeGetRowVers ==
  ASSUME Sound, Vers, Https, NEW c \in Tasks, ResumeGetRow(c) PROVE Vers' /\ Https'
<1>1. At(c, {"resume"}, "row") /\ At(c, {"start", "resume"}, "row")
  BY DEF ResumeGetRow, At
<1>2. PICK n \in Names : n = Subject(c)
  BY <1>1, LaunchTop
<1>3. UNCHANGED <<workers, db, updated>> /\ Mem /\ Stacks
  BY DEF ResumeGetRow, memVars, diskVars, ghosts, Sound, Base
<1>4. CASE db[n] = None
  <2>1. Return(c, FALSE)
    BY <1>2, <1>4 DEF ResumeGetRow, GetRow
  <2> QED
    BY <1>3, <2>1, MoveKept
<1>5. CASE db[n] # None
  <2>1. PICK f : f = [Top(c) EXCEPT !.pc = AfterLoad(n), !.arg = db[n].http,
                                    !.path = db[n].path, !.ver = db[n].ver]
    OBVIOUS
  <2>2. Become(c, f)
    BY <1>2, <1>5, <2>1 DEF ResumeGetRow, GetRow
  <2>3. db[n] \in Row /\ AfterLoad(n) \in {"interconnect", "worker"}
    BY <1>3, <1>5 DEF Mem, AfterLoad
  <2>4. /\ stack[c] # <<>> /\ Top(c) \in Calls /\ Top(c).worker = None /\ n = Top(c).name
        /\ VerOK(Top(c))
    BY <1>1, <1>2, LaunchTop DEF Built
  <2>5. /\ f \in Calls /\ f.op = Top(c).op /\ f.name = Top(c).name
        /\ f.worker = None /\ f.ver = db[n].ver
    <3>1. /\ db[n].http \in Addrs \cup {None} /\ db[n].path \in BOOLEAN /\ db[n].ver \in Versions
          /\ AfterLoad(n) \in Pcs
      BY <2>3 DEF Row, Pcs, Past
    <3> QED
      BY <3>1, <2>1, <2>4 DEF Calls
  <2>6. TurnsTo(c, f)
    BY <1>3, <2>2, <2>4, <2>5, TurnsOf
  <2>7. VerOK(f)'
    BY <1>3, <1>5, <2>4, <2>5 DEF VerOK, Vers
  <2>8. VersShape(c) /\ HttpShape(c)
    BY <2>5, <2>6, <2>7 DEF VersShape, HttpShape
  <2> QED
    BY <1>3, <2>8, TameSame, TameKept
<1> QED
  BY <1>4, <1>5

\* The check at the start of a call keeps them.
LEMMA CheckNotRunningVers ==
  ASSUME Sound, Vers, Https, NEW c \in Tasks, CheckNotRunning(c) PROVE Vers' /\ Https'
<1>1. PICK f \in Entering(c, {"start", "resume"}) :
        IF workers[f.name] # None THEN Return(c, FALSE) ELSE Become(c, [f EXCEPT !.pc = "row"])
  BY DEF CheckNotRunning
<1>2. UNCHANGED <<workers, db, updated>> /\ Stacks
  BY DEF CheckNotRunning, memVars, diskVars, Sound, Base
<1>3. CASE Return(c, FALSE)
  BY <1>2, <1>3, MoveKept
<1>4. CASE Become(c, [f EXCEPT !.pc = "row"])
  <2>1. PICK q \in Pcs : q = "row"
    BY DEF Pcs
  <2>2. Become(c, [f EXCEPT !.pc = q])
    BY <1>4, <2>1
  <2>3. VersShape(c) /\ HttpShape(c)
    BY <1>2, <2>2, EnterShapes
  <2> QED
    BY <1>2, <2>3, TameSame, TameKept
<1> QED
  BY <1>1, <1>3, <1>4

\* A worker that is taken out leaves a row of the same version.
LEMMA TakenTame ==
  ASSUME Mem, NEW n \in Names, TakeOut(n), db' = StoppedRow(n) PROVE TameWorkers /\ TameRows
<1>1. /\ workers'[n] = None
      /\ \A m \in Names \ {n} : workers'[m] = workers[m]
  BY TakenOut
<1>2. db' = db \/ db' = WithStatus(n, "stopped")
  BY DEF StoppedRow
<1> QED
  BY <1>1, <1>2, StatusRow DEF TameWorkers, TameRows

\* stop_playbook keeps them.
LEMMA StopPlaybookVers ==
  ASSUME Sound, Vers, Https, NEW c \in Tasks, StopPlaybook(c) PROVE Vers' /\ Https'
<1>1. PICK f \in Entering(c, {"stop"}) :
        /\ TakeOut(f.name) /\ db' = StoppedRow(f.name)
        /\ Return(c, workers[f.name] # None) /\ updated' = updated
  BY DEF StopPlaybook
<1>2. f.name \in Names /\ Mem /\ Stacks
  BY Entered DEF Sound, Base
<1>3. PICK n \in Names : n = f.name
  BY <1>2
<1>4. TameWorkers /\ TameRows
  BY <1>1, <1>2, <1>3, TakenTame
<1>5. VersShape(c) /\ HttpShape(c)
  BY <1>1, ReturnShapes
<1> QED
  BY <1>1, <1>2, <1>4, <1>5, TameKept

\* delete_playbook keeps them.
LEMMA DeletePlaybookVers ==
  ASSUME Sound, Vers, Https, NEW c \in Tasks, DeletePlaybook(c) PROVE Vers' /\ Https'
<1>1. PICK f \in Entering(c, {"delete"}) \cup {g \in Range(stack[c]) : At(c, {"start"}, "delete") /\ g = Top(c)} :
        /\ TakeOut(f.name) /\ DeleteRow(f.name)
        /\ Become(c, [f EXCEPT !.pc = "rmdir"]) /\ updated' = updated
  BY DEF DeletePlaybook
<1>2. PICK q \in Pcs : q = "rmdir"
  BY DEF Pcs
<1>3. Become(c, [f EXCEPT !.pc = q]) /\ Stacks /\ Mem
  BY <1>1, <1>2 DEF Sound, Base
<1>4. VersShape(c) /\ HttpShape(c) /\ f.name \in Names
  <2>1. CASE f \in Entering(c, {"delete"})
    BY <2>1, <1>1, <1>3, Entered, EnterShapes
  <2>2. CASE At(c, {"start"}, "delete") /\ f = Top(c)
    <3>1. Goto(c, q) /\ Subject(c) = Top(c).name
      BY <2>2, <1>3 DEF Goto, Subject
    <3> QED
      BY <2>2, <3>1, <1>1, GotoShape, TopFrame
  <2> QED
    BY <2>1, <2>2, <1>1
<1>5. PICK n \in Names : n = f.name
  BY <1>4
<1>6. TameWorkers /\ TameRows
  BY <1>1, <1>3, <1>5 DEF TakeOut, DeleteRow, Mem, TameWorkers, TameRows
<1> QED
  BY <1>1, <1>3, <1>4, <1>6, TameKept

\* The requests for callbacks keep them, up to the database ..
LEMMA CallbackRowVers ==
  ASSUME Sound, Vers, Https, NEW c \in Tasks, SaveCallback(c) \/ ForgetCallback(c)
  PROVE  Vers' /\ Https'
<1>1. PICK op \in {{"add_callback"}, {"delete_callback"}} : \E f \in Entering(c, op) :
        /\ Become(c, [f EXCEPT !.pc = "worker"])
        /\ UNCHANGED <<workers, db, updated>>
  BY DEF SaveCallback, ForgetCallback, memVars
<1>2. PICK f \in Entering(c, op) :
        /\ Become(c, [f EXCEPT !.pc = "worker"])
        /\ UNCHANGED <<workers, db, updated>>
  BY <1>1
<1>3. PICK q \in Pcs : q = "worker"
  BY DEF Pcs, Past
<1>4. Become(c, [f EXCEPT !.pc = q])
  BY <1>2, <1>3
<1>5. VersShape(c) /\ HttpShape(c)
  BY <1>2, <1>4, EnterShapes
<1> QED
  BY <1>2, <1>5, TameSame, TameKept DEF Sound, Base

\* .. and at the workers.
LEMMA ToldCallbackVers ==
  ASSUME Sound, Vers, Https, NEW c \in Tasks, AddCallback(c) \/ DeleteCallback(c)
  PROVE  Vers' /\ Https'
<1>1. UNCHANGED <<db, updated>> /\ Return(c, TRUE)
  BY DEF AddCallback, DeleteCallback, diskVars, ghosts
<1>2. TameWorkers /\ TameRows
  BY <1>1, AddCallbackStays, DeleteCallbackStays DEF Stays, TameWorkers, TameRows
<1>3. VersShape(c) /\ HttpShape(c)
  BY <1>1, ReturnShapes
<1> QED
  BY <1>1, <1>2, <1>3, TameKept DEF Sound, Base

\* A call that starts another playbook
LEMMA MakesShapes ==
  ASSUME Sound, Vers, NEW c \in Tasks, stack[c] # <<>>, NEW f, NEW g, Makes(c, f, g),
         f.worker = None, f.ver # 0 => f.name \in updated',
         g.ver = Top(c).ver, g.worker = Top(c).worker, updated \subseteq updated'
  PROVE  VersShape(c) /\ HttpShape(c)
<1>1. VerOK(Top(c))
  BY Peek DEF Sound, Base, Vers
<1>2. VerOK(f)'
  BY DEF VerOK
<1>3. VerOK(g)'
  BY <1>1 DEF VerOK, Makes
<1> QED
  BY <1>2, <1>3 DEF VersShape, HttpShape

\* Starting the playbook that a module calls keeps them: it is started in the version expected.
LEMMA FindInterconnectVers ==
  ASSUME Sound, Vers, Https, NEW c \in Tasks, FindInterconnect(c) PROVE Vers' /\ Https'
<1>1. At(c, {"start", "resume"}, "interconnect")
  BY DEF FindInterconnect
<1>2. PICK n \in Names : n = Subject(c)
  BY <1>1, TopFrame
<1>3. UNCHANGED <<workers, db, updated>> /\ Stacks
  BY DEF FindInterconnect, memVars, diskVars, ghosts, Sound, Base
<1>4. CASE Expected(Needs[n])
  <2>1. Goto(c, "worker") /\ "worker" \in Pcs
    BY <1>2, <1>4 DEF FindInterconnect, Pcs, Past
  <2> QED
    BY <1>1, <1>3, <2>1, MoveKept
<1>5. CASE ~Expected(Needs[n])
  <2>1. /\ stack[c] # <<>> /\ Top(c) \in Calls /\ n = Top(c).name /\ Top(c).op \in Launches
        /\ CallOK(c, Top(c)) /\ Top(c).pc = "interconnect"
    BY <1>1, <1>2, TopFrame DEF Launches
  <2>2. Needs[n] \in Names
    <3>1. Needs[n] # None
      BY <2>1 DEF CallOK
    <3> QED
      BY <3>1, NeedsAssumption
  <2>3. PICK f : f = Frame("start", Needs[n], None)
    OBVIOUS
  <2>4. Call(c, f, "launched")
    BY <1>2, <1>5, <2>3 DEF FindInterconnect
  <2>5. /\ f \in Calls /\ f.op = "start" /\ f.name = Needs[n]
        /\ f.worker = None /\ f.ver = 0
    BY <2>2, <2>3, StartFrameOK DEF Frame, Versions
  <2>6. PICK g \in Calls : g = [Top(c) EXCEPT !.pc = "launched"]
    BY <2>1, Parts DEF Pcs, Past
  <2>7. g.ver = Top(c).ver /\ g.worker = Top(c).worker
    BY <2>1, <2>6, Parts DEF Pcs, Past
  <2>8. Makes(c, f, g)
    BY <1>3, <2>1, <2>4, <2>5, <2>6, MakesOf DEF Pcs, Past
  <2>9. VersShape(c) /\ HttpShape(c)
    BY <1>3, <2>1, <2>5, <2>7, <2>8, MakesShapes
  <2> QED
    BY <1>3, <2>9, TameSame, TameKept
<1> QED
  BY <1>4, <1>5

\* The stop of an update keeps them: its playbook is one of the updated from here on.
LEMMA UpdateStopVers ==
  ASSUME Sound, Vers, Https, UpdateStop PROVE Vers' /\ Https'
<1>1. At(Daemon, {"update"}, "stop") /\ Daemon \in Tasks
  BY DEF UpdateStop, Tasks
<1>2. PICK n \in Names : n = Subject(Daemon)
  BY <1>1, TopFrame
<1>3. /\ stack[Daemon] # <<>> /\ Top(Daemon) \in Calls /\ n = Top(Daemon).name
      /\ Top(Daemon).op = "update" /\ CallOK(Daemon, Top(Daemon))
  BY <1>1, <1>2, TopFrame
<1>4. PICK f : f = StartFrame(n, Top(Daemon).arg, Top(Daemon).path, 1)
  OBVIOUS
<1>5. /\ TakeOut(n) /\ db' = StoppedRow(n) /\ updated' = updated \cup {n}
      /\ Call(Daemon, f, "started") /\ Mem /\ Stacks
  BY <1>2, <1>4 DEF UpdateStop, Sound, Base
<1>6. f \in Calls /\ f.op = "start" /\ f.name = n /\ f.worker = None
  BY <1>1, <1>3, <1>4, UpdateFrame DEF Versions
<1>7. PICK g \in Calls : g = [Top(Daemon) EXCEPT !.pc = "started"]
  BY <1>3, Parts DEF Pcs
<1>8. g.ver = Top(Daemon).ver /\ g.worker = Top(Daemon).worker
  BY <1>3, <1>7, Parts DEF Pcs
<1>9. Makes(Daemon, f, g)
  BY <1>1, <1>3, <1>5, <1>6, <1>7, MakesOf DEF Pcs, Launches
<1>10. VersShape(Daemon) /\ HttpShape(Daemon)
  BY <1>1, <1>3, <1>5, <1>6, <1>8, <1>9, MakesShapes
<1>11. TameWorkers /\ TameRows
  BY <1>5, TakenTame
<1> QED
  BY <1>1, <1>5, <1>10, <1>11, TameKept

\* What follows the start of an update keeps them.
LEMMA UpdateStartedVers ==
  ASSUME Sound, Vers, Https, UpdateStarted PROVE Vers' /\ Https'
<1>1. At(Daemon, {"update"}, "started") /\ Daemon \in Tasks
  BY DEF UpdateStarted, Tasks
<1>2. PICK n \in Names : n = Subject(Daemon)
  BY <1>1, TopFrame
<1>3. /\ stack[Daemon] # <<>> /\ Top(Daemon) \in Calls /\ n = Top(Daemon).name
      /\ Top(Daemon).op = "update" /\ CallOK(Daemon, Top(Daemon)) /\ Stacks
  BY <1>1, <1>2, TopFrame
<1>4. UNCHANGED <<workers, db, updated>>
  BY DEF UpdateStarted, memVars, diskVars, ghosts
<1>5. CASE Top(Daemon).ok
  <2>1. \E b \in BOOLEAN : Return(Daemon, b)
    BY <1>5 DEF UpdateStarted
  <2> QED
    BY <1>1, <1>4, <2>1, MoveKept
<1>6. CASE ~Top(Daemon).ok
  <2>1. PICK f : f = StartFrame(n, Top(Daemon).arg, Top(Daemon).path, 0)
    OBVIOUS
  <2>2. Call(Daemon, f, "rolled_back")
    BY <1>2, <1>3, <1>6, <2>1 DEF UpdateStarted
  <2>3. f \in Calls /\ f.op = "start" /\ f.name = n /\ f.ver = 0 /\ f.worker = None
    BY <1>1, <1>3, <2>1, UpdateFrame DEF Versions
  <2>4. PICK g \in Calls : g = [Top(Daemon) EXCEPT !.pc = "rolled_back"]
    BY <1>3, Parts DEF Pcs
  <2>5. g.ver = Top(Daemon).ver /\ g.worker = Top(Daemon).worker
    BY <1>3, <2>4, Parts DEF Pcs
  <2>6. Makes(Daemon, f, g)
    BY <1>1, <1>3, <2>2, <2>3, <2>4, MakesOf DEF Pcs, Launches
  <2>7. VersShape(Daemon) /\ HttpShape(Daemon)
    BY <1>1, <1>3, <1>4, <2>3, <2>5, <2>6, MakesShapes
  <2> QED
    BY <1>1, <1>3, <1>4, <2>7, TameSame, TameKept
<1> QED
  BY <1>5, <1>6

\* The end of a rollback keeps them.
LEMMA UpdateRolledBackVers ==
  ASSUME Sound, Vers, Https, UpdateRolledBack PROVE Vers' /\ Https'
<1>1. At(Daemon, {"update"}, "rolled_back") /\ Daemon \in Tasks
  BY DEF UpdateRolledBack, Tasks
<1>2. Top(Daemon).ok \in BOOLEAN
  BY <1>1, TopFrame DEF Calls
<1>3. Return(Daemon, Top(Daemon).ok) /\ UNCHANGED <<workers, db, updated>>
  BY DEF UpdateRolledBack, memVars, diskVars, ghosts
<1> QED
  BY <1>1, <1>2, <1>3, MoveKept

\* Finding an update keeps them.
LEMMA FindUpdateVers ==
  ASSUME Sound, Vers, Https, FindUpdate PROVE Vers' /\ Https'
<1>1. PICK f \in Calls : TurnsTo(Daemon, f) /\ f.op = "update" /\ f.worker = None
  BY FoundUpdate
<1>2. UNCHANGED <<workers, db, updated>> /\ Stacks /\ Daemon \in Tasks
  BY DEF FindUpdate, memVars, diskVars, ghosts, Tasks, Sound, Base
<1>3. VerOK(f)'
  BY <1>1 DEF VerOK, Launches
<1>4. VersShape(Daemon) /\ HttpShape(Daemon)
  BY <1>1, <1>3 DEF VersShape, HttpShape
<1> QED
  BY <1>2, <1>4, TameSame, TameKept

\* The calls of one task are new, and no worker is.
LEMMA StackVers ==
  ASSUME Vers, Https, NEW c \in Tasks, Same(c), UNCHANGED <<workers, db, updated>>,
         \A f \in Range(stack'[c]) : VerOK(f)', CallHttp(c)' \in {None, CallHttp(c)}
  PROVE  Vers' /\ Https'
<1>1. \A d \in Tasks \ {c} : stack'[d] = stack[d]
  BY DEF Same
<1>2. Vers'
  BY <1>1 DEF Vers, VerOK
<1>3. \A d \in Tasks : CallHttp(d)' \in {None, CallHttp(d)}
  BY <1>1 DEF CallHttp, Top
<1>4. \A m \in Names : MapHttp(m)' = MapHttp(m)
  BY DEF MapHttp
<1> QED
  BY <1>2, <1>3, <1>4, HttpsCalm

\* A step that leaves the variables they speak of keeps them.
LEMMA StillVers ==
  ASSUME Vers, Https, UNCHANGED <<stack, workers, db, updated>> PROVE Vers' /\ Https'
<1>1. Daemon \in Tasks /\ Same(Daemon) /\ stack' = stack
  BY DEF Tasks, Same
<1>2. \A f \in Range(stack'[Daemon]) : VerOK(f)'
  BY <1>1 DEF Vers, VerOK
<1>3. CallHttp(Daemon)' = CallHttp(Daemon)
  BY DEF CallHttp, Top
<1> QED
  BY <1>1, <1>2, <1>3, StackVers

\* Resuming a playbook at the daemon's start keeps them, ..
LEMMA BootResumeVers ==
  ASSUME Sound, Vers, Https, BootResume PROVE Vers' /\ Https'
<1>1. PICK f, g \in Calls :
           /\ Same(Daemon) /\ Range(stack'[Daemon]) = {f, g}
           /\ Top(Daemon)' = f /\ f.ver = 0 /\ f.worker = None /\ g.op = "boot"
  BY BootResumes DEF Sound
<1>2. UNCHANGED <<workers, db, updated>> /\ Daemon \in Tasks
  BY DEF BootResume, memVars, diskVars, ghosts, Tasks
<1>3. VerOK(f)' /\ VerOK(g)'
  BY <1>1 DEF VerOK, Launches
<1>4. CallHttp(Daemon)' = None
  BY <1>1 DEF CallHttp
<1> QED
  BY <1>1, <1>2, <1>3, <1>4, StackVers

\* .. as does coming back from that, ..
LEMMA BootResumedVers ==
  ASSUME Sound, Vers, Https, BootResumed PROVE Vers' /\ Https'
<1>1. At(Daemon, {"boot"}, "resumed") /\ Daemon \in Tasks /\ Become(Daemon, BootFrame)
  BY DEF BootResumed, Tasks
<1>2. PICK f \in Calls : f = BootFrame /\ f.op = "boot"
  BY BootFrameOK
<1>3. f.worker = None
  BY <1>2 DEF BootFrame, Frame
<1>4. TurnsTo(Daemon, f)
  BY <1>1, <1>2, TopFrame, TurnsOf DEF Launches
<1>5. VerOK(f)'
  BY <1>2 DEF VerOK, Launches
<1>6. UNCHANGED <<workers, db, updated>>
  BY DEF BootResumed, memVars, diskVars, ghosts
<1>7. VersShape(Daemon) /\ HttpShape(Daemon)
  BY <1>3, <1>4, <1>5 DEF VersShape, HttpShape
<1> QED
  BY <1>1, <1>6, <1>7, TameSame, TameKept DEF Sound, Base

\* .. and the end of a pass.
LEMMA BootPassVers ==
  ASSUME Sound, Vers, Https, BootPass PROVE Vers' /\ Https'
<1>1. UNCHANGED <<workers, db, updated>> /\ Daemon \in Tasks
  BY DEF BootPass, memVars, diskVars, ghosts, Tasks
<1>2. CASE stack' = stack
  BY <1>1, <1>2, StillVers
<1>3. CASE Return(Daemon, TRUE)
  BY <1>1, <1>3, MoveKept
<1> QED
  BY <1>2, <1>3 DEF BootPass

\* An end of the daemon keeps them.
LEMMA CrashVers ==
  ASSUME Sound, Vers, Https, Crash PROVE Vers' /\ Https'
<1>1. /\ Range(stack'[Daemon]) = {BootFrame} /\ \A c \in Clients : stack'[c] = <<>>
      /\ \A n \in Names : workers'[n] = None
  BY CrashBase DEF Sound
<1>2. UNCHANGED <<db, updated>>
  BY DEF Crash, diskVars, ghosts
<1>3. PICK f \in Calls : f = BootFrame /\ f.op = "boot"
  BY BootFrameOK
<1>4. f.worker = None
  BY <1>3 DEF BootFrame, Frame
<1>5. VerOK(f)'
  BY <1>3 DEF VerOK, Launches
<1>6. \A c \in Tasks : c \in Clients \/ c = Daemon
  BY DEF Tasks
<1>7. \A c \in Clients : Range(stack'[c]) = {}
  BY <1>1 DEF Range
<1>8. Vers'
  BY <1>1, <1>2, <1>3, <1>5, <1>6, <1>7 DEF Vers
<1>9. \A c \in Tasks : CallHttp(c)' = None
  <2>1. Top(Daemon)' = f
    <3>1. stack'[Daemon] = <<f>>
      BY <1>3 DEF Crash, Tasks
    <3>2. Head(<<f>>) = f
      OBVIOUS
    <3> QED
      BY <3>1, <3>2 DEF Top
  <2>2. CallHttp(Daemon)' = None
    BY <2>1, <1>4 DEF CallHttp
  <2> QED
    BY <2>2, <1>1, <1>6 DEF CallHttp
<1>10. \A m \in Names : MapHttp(m)' = None
  BY <1>1 DEF MapHttp
<1>11. Https'
  BY <1>9, <1>10 DEF Https
<1> QED
  BY <1>8, <1>11

\* Vers and Https hold at first, ..
LEMMA InitVers == Init => Vers /\ Https
  BY DEF Init, Vers, Https, MapHttp, CallHttp, Range

\* .. and after every step.
LEMMA StepVers == ASSUME Sound, Vers, Https, [Next]_vars PROVE Vers' /\ Https'
<1>1. ASSUME NEW c \in Tasks, StartStep(c) \/ ResumeStep(c) PROVE Vers' /\ Https'
  BY <1>1, MovesVers, SavePlaybookVers, InsertVers, ResumeGetRowVers, ResumeStatusVers
     DEF StartStep, ResumeStep
<1>2. ASSUME NEW c \in Tasks, WorkerStep(c) PROVE Vers' /\ Https'
  BY <1>2, CheckNotRunningVers, FindInterconnectVers, MovesVers, StartWorkerVers,
     RegisterCallbacksVers DEF WorkerStep
<1>3. ASSUME NEW c \in Tasks, ChangeStep(c) PROVE Vers' /\ Https'
  BY <1>3, StopPlaybookVers, DeletePlaybookVers, MovesVers, SetHttpAddressVers,
     SetHttpFailsVers, CallbackRowVers, ToldCallbackVers DEF ChangeStep
<1>4. ASSUME DaemonStep PROVE Vers' /\ Https'
  BY <1>4, UpdateStopVers, UpdateStartedVers, UpdateRolledBackVers, BootResumeVers,
     BootResumedVers, BootPassVers DEF DaemonStep
<1>5. CASE FindUpdate
  BY <1>5, FindUpdateVers
<1>6. CASE Crash
  BY <1>6, CrashVers
<1>7. CASE ListUpdates \/ UNCHANGED vars
  <2>1. UNCHANGED <<stack, workers, db, updated>>
    BY <1>7, Waited DEF Waiting, memVars, diskVars, ghosts
  <2> QED
    BY <2>1, StillVers
<1> QED
  BY <1>1, <1>2, <1>3, <1>4, <1>5, <1>6, <1>7 DEF Next, TaskStep, Idle

-----------------------------------------------------------------------------
(* Playbooks that run, and their resumption *)

\* Nothing has gone wrong that may keep a playbook from running.
Good == faults = 0 /\ raced = {} /\ \A m \in Names : Needs[m] \notin updated

AtInsert(c, n) == At(c, Launches, "insert") /\ Subject(c) = n
Resuming(n) == \E f \in Range(stack[Daemon]) : f.op = "resume" /\ f.name = n

\* A row that says running has a worker, one about to be in the map, or its resume to come.
Lives == Good => \A n \in Names : Running(n) =>
  \/ workers[n] # None
  \/ \E c \in Tasks : AtInsert(c, n)
  \/ ~Serving /\ (n \in boot.todo \/ Resuming(n))

\* No two rows that say running have one address.
Apart == Good => \A n, m \in Names :
  Running(n) /\ Running(m) /\ db[n].http = db[m].http /\ db[n].http # None => n = m

\* What the daemon resumes at its start is running, or deleted.
Resumed(f) == f.op = "resume" \/ f.pc = "resumed"
BootNames == boot.todo \cup boot.failed \cup {f.name : f \in {g \in Range(stack[Daemon]) : Resumed(g)}}
BootRows == ~Serving => \A n \in BootNames \cap Names : db[n] # None => Running(n)

\* The playbooks the resumed ones call start too.
StartsWell(f) ==
  /\ f.op = "start" /\ f.pc = "begin" => workers[f.name] = None
  /\ f.pc = "launched" => f.ok /\ workers[Needs[f.name]] # None

BootTop == ~Serving /\ Good =>
  /\ \A f \in Range(stack[Daemon]) : f.op = "start" => f.arg = None
  /\ StartsWell(Top(Daemon))

\* A call that waits stays on the stack when one it made returns.
LEMMA EndsLeaves ==
  ASSUME Stacks, NEW c \in Tasks, NEW b, Ends(c, b)
  PROVE  \A f \in Range(Under(c)) : \E g \in Range(stack'[c]) : Like(g, f)
<1>1. CASE Under(c) = <<>>
  <2>1. Range(Under(c)) = {}
    BY <1>1 DEF Range
  <2> QED
    BY <2>1
<1>2. CASE Under(c) # <<>>
  <2>1. PICK g \in Calls : Like(g, Head(Under(c))) /\ stack'[c] = <<g>> \o Tail(Under(c))
    BY <1>2 DEF Ends
  <2>2. /\ Tail(Under(c)) \in Seq(Calls)
        /\ Range(Under(c)) = {Head(Under(c))} \cup Range(Tail(Under(c)))
    BY <1>2, UnderCalls
  <2>3. Range(stack'[c]) = {g} \cup Range(Tail(Under(c)))
    BY <2>1, <2>2, PushedCall
  <2>4. \A f : Like(f, f)
    BY DEF Like
  <2> QED
    BY <2>1, <2>2, <2>3, <2>4
<1> QED
  BY <1>1, <1>2

\* The steps of a task do not begin a start of the daemon, nor end it but by its last call.
LEMMA ServingKept ==
  ASSUME Stacks, NEW c \in Tasks, 
         \/ \E f : TurnsTo(c, f) /\ (stack[c] = <<>> => f.op # "boot")
         \/ \E f, g : Makes(c, f, g)
         \/ \E b : Ends(c, b)
  PROVE  /\ Serving => Serving'
         /\ stack[c] # <<>> /\ Top(c).op \in Launches => (Serving <=> Serving')
<1>1. CASE c # Daemon
  <2>1. stack'[Daemon] = stack[Daemon]
    BY <1>1 DEF TurnsTo, Makes, Ends, Same, Tasks
  <2> QED
    BY <2>1 DEF Serving
<1>2. CASE c = Daemon
  <2>1. stack[c] # <<>> => Range(stack[c]) = {Top(c)} \cup Range(Under(c))
    BY Peek
  <2>2. stack[c] = <<>> => Range(Under(c)) = {}
    BY IdleUnder
  <2>3. CASE \E f : TurnsTo(c, f) /\ (stack[c] = <<>> => f.op # "boot")
    <3>1. PICK f : TurnsTo(c, f) /\ (stack[c] = <<>> => f.op # "boot")
      BY <2>3
    <3>2. /\ Range(stack'[c]) = {f} \cup Range(Under(c))
          /\ stack[c] # <<>> => f.op = Top(c).op
      BY <3>1, TurnsRange DEF TurnsTo
    <3> QED
      BY <1>2, <2>1, <2>2, <3>1, <3>2 DEF Serving
  <2>4. CASE \E f, g : Makes(c, f, g)
    <3>1. PICK f, g : Makes(c, f, g)
      BY <2>4
    <3>2. /\ Range(stack'[c]) = {f, g} \cup Range(Under(c))
          /\ f.op = "start" /\ g.op = Top(c).op /\ stack[c] # <<>>
      BY <3>1, MakesRange DEF Makes
    <3> QED
      BY <1>2, <2>1, <3>2 DEF Serving
  <2>5. CASE \E b : Ends(c, b)
    <3>1. PICK b : Ends(c, b)
      BY <2>5
    <3>2. /\ \A g \in Range(stack'[c]) : \E f \in Range(Under(c)) : Like(g, f)
          /\ \A f \in Range(Under(c)) : \E g \in Range(stack'[c]) : Like(g, f)
      BY <3>1, EndsRange, EndsLeaves
    <3> QED
      BY <1>2, <2>1, <2>2, <3>2 DEF Serving, Like, Launches
  <2> QED
    BY <2>3, <2>4, <2>5
<1> QED
  BY <1>1, <1>2

\* Who is being resumed, after a step of a task
LEMMA ResumingKept ==
  ASSUME Stacks, NEW c \in Tasks, NEW n, Resuming(n)
  PROVE  /\ (\E f : TurnsTo(c, f)) \/ (\E f, g : Makes(c, f, g)) => Resuming(n)'
         /\ (\E b : Ends(c, b)) =>
              \/ Resuming(n)'
              \/ c = Daemon /\ stack[c] # <<>> /\ Top(c).op = "resume" /\ Top(c).name = n
<1>1. CASE c # Daemon
  <2>1. (\E f : TurnsTo(c, f)) \/ (\E f, g : Makes(c, f, g)) \/ (\E b : Ends(c, b))
          => stack'[Daemon] = stack[Daemon]
    BY <1>1 DEF TurnsTo, Makes, Ends, Same, Tasks
  <2> QED
    BY <2>1 DEF Resuming
<1>2. CASE c = Daemon
  <2>1. PICK h \in Range(stack[c]) : h.op = "resume" /\ h.name = n
    BY <1>2 DEF Resuming
  <2>2. stack[c] # <<>> /\ Range(stack[c]) = {Top(c)} \cup Range(Under(c))
    <3>1. stack[c] # <<>>
      BY <2>1 DEF Range
    <3> QED
      BY <3>1, Peek
  <2>3. ASSUME NEW f, TurnsTo(c, f) PROVE Resuming(n)'
    <3>1. /\ Range(stack'[c]) = {f} \cup Range(Under(c))
          /\ f.op = Top(c).op /\ (f.op \in Launches => f.name = Top(c).name)
      BY <2>2, <2>3, TurnsRange DEF TurnsTo
    <3> QED
      BY <1>2, <2>1, <2>2, <3>1 DEF Resuming, Launches
  <2>4. ASSUME NEW f, NEW g, Makes(c, f, g) PROVE Resuming(n)'
    <3>1. /\ Range(stack'[c]) = {f, g} \cup Range(Under(c))
          /\ g.op = Top(c).op /\ g.name = Top(c).name
      BY <2>4, MakesRange DEF Makes
    <3> QED
      BY <1>2, <2>1, <2>2, <3>1 DEF Resuming
  <2>5. ASSUME NEW b, Ends(c, b), ~Resuming(n)' PROVE Top(c).op = "resume" /\ Top(c).name = n
    <3>1. \A f \in Range(Under(c)) : \E g \in Range(stack'[c]) : Like(g, f)
      BY <2>5, EndsLeaves
    <3> QED
      BY <1>2, <2>1, <2>2, <2>5, <3>1 DEF Resuming, Like
  <2> QED
    BY <1>2, <2>2, <2>3, <2>4, <2>5
<1> QED
  BY <1>1, <1>2

\* Until the daemon serves, only its own starts and resumes act.
Acts(c) == Serving \/ (c = Daemon /\ stack[c] # <<>> /\ Top(c).op \in Launches)

\* The steps of such a call, which leave its start and its resume on their way
GoesOn(c) ==
  \/ \E f : /\ TurnsTo(c, f) /\ f.pc \notin {"begin", "launched", "resumed"}
            /\ stack[c] = <<>> => f.op # "boot"
            /\ stack[c] # <<>> => f.arg = Top(c).arg \/ f.op # "start"
  \/ \E f, g : /\ Makes(c, f, g) /\ f.pc = "begin" /\ g.pc # "resumed" /\ g.arg = Top(c).arg
               /\ Good' /\ ~Serving => f.arg = None /\ workers'[f.name] = None
  \/ \E b : /\ Ends(c, b)
            /\ Good' /\ ~Serving /\ Top(c).op = "start" => b = TRUE /\ workers'[Top(c).name] # None
            /\ Good' /\ ~Serving /\ Top(c).op = "resume" =>
                 \A n \in Names : n = Top(c).name /\ Running(n)' => workers'[n] # None

\* What such a step leaves as it is: who serves, and who is resumed
LEMMA GoesServing ==
  ASSUME Stacks, NEW c \in Tasks, Acts(c), GoesOn(c)
  PROVE  /\ Serving <=> Serving'
         /\ \A n \in Names : Resuming(n) =>
              \/ Resuming(n)'
              \/ Good' /\ ~Serving => (Running(n)' => workers'[n] # None)
<1>1. Serving <=> Serving'
  BY ServingKept DEF Acts, GoesOn
<1>2. ASSUME NEW n \in Names, Resuming(n), ~Resuming(n)'
      PROVE  Good' /\ ~Serving => (Running(n)' => workers'[n] # None)
  <2>1. CASE \E f : TurnsTo(c, f)
    BY <1>2, <2>1, ResumingKept
  <2>2. CASE \E f, g : Makes(c, f, g)
    BY <1>2, <2>2, ResumingKept
  <2>3. CASE \E b : /\ Ends(c, b)
                    /\ Good' /\ ~Serving /\ Top(c).op = "resume" =>
                         \A m \in Names : m = Top(c).name /\ Running(m)' => workers'[m] # None
    BY <1>2, <2>3, ResumingKept
  <2> QED
    BY <2>1, <2>2, <2>3 DEF GoesOn
<1> QED
  BY <1>1, <1>2

\* A step of Acts and GoesOn keeps Lives, if a row comes to say running only with a worker on its
\* way, and no playbook that runs loses its worker.
LEMMA LivesKept ==
  ASSUME Stacks, Lives, NEW c \in Tasks, Acts(c), GoesOn(c), Good' => Good, boot' = boot,
         \A n \in Names : Running(n)' => Running(n) \/ AtInsert(c, n)',
         \A n \in Names : Good' /\ Running(n)' /\ (workers[n] # None \/ AtInsert(c, n))
                            => workers'[n] # None
  PROVE  Lives'
<1> SUFFICES ASSUME Good', NEW n \in Names, Running(n)', workers'[n] = None,
                    \A d \in Tasks : ~AtInsert(d, n)'
             PROVE  (~Serving /\ (n \in boot.todo \/ Resuming(n)))'
  BY DEF Lives
<1>1. Running(n) /\ Good
  OBVIOUS
<1>2. \A d \in Tasks \ {c} : AtInsert(d, n) <=> AtInsert(d, n)'
  BY DEF GoesOn, TurnsTo, Makes, Ends, Same, AtInsert, At, Subject, Top
<1>3. workers[n] = None /\ \A d \in Tasks : ~AtInsert(d, n)
  BY <1>2
<1>4. ~Serving /\ (n \in boot.todo \/ Resuming(n))
  BY <1>1, <1>3 DEF Lives
<1> QED
  BY <1>4, GoesServing

\* It keeps BootRows, if no row the daemon resumes is stopped.
LEMMA BootRowsKept ==
  ASSUME Stacks, BootRows, NEW c \in Tasks, Acts(c), GoesOn(c), boot' = boot,
         ~Serving => \A n \in Names : (db[n] # None => Running(n)) => (db'[n] # None => Running(n)')
  PROVE  BootRows'
<1> SUFFICES ASSUME ~Serving PROVE BootNames' \subseteq BootNames
  BY GoesServing DEF BootRows
<1>1. c = Daemon /\ stack[c] # <<>> /\ Top(c).op \in Launches
  BY DEF Acts
<1>2. \A f \in Range(stack'[c]) : Resumed(f) =>
        \E g \in Range(stack[c]) : Resumed(g) /\ g.name = f.name
  <2>1. Range(stack[c]) = {Top(c)} \cup Range(Under(c))
    BY <1>1, Peek
  <2>2. CASE \E f : TurnsTo(c, f) /\ f.pc # "resumed"
    <3>1. PICK f : TurnsTo(c, f) /\ f.pc # "resumed"
      BY <2>2
    <3>2. /\ Range(stack'[c]) = {f} \cup Range(Under(c))
          /\ f.op = Top(c).op /\ f.name = Top(c).name
      BY <1>1, <3>1, TurnsRange DEF TurnsTo
    <3> QED
      BY <2>1, <3>1, <3>2 DEF Resumed
  <2>3. CASE \E f, g : Makes(c, f, g) /\ f.pc = "begin" /\ g.pc # "resumed"
    <3>1. PICK f, g : Makes(c, f, g) /\ f.pc = "begin" /\ g.pc # "resumed"
      BY <2>3
    <3>2. /\ Range(stack'[c]) = {f, g} \cup Range(Under(c))
          /\ f.op = "start" /\ g.op = Top(c).op /\ g.name = Top(c).name
      BY <3>1, MakesRange DEF Makes
    <3> QED
      BY <2>1, <3>1, <3>2 DEF Resumed
  <2>4. CASE \E b : Ends(c, b)
    <3>1. \A f \in Range(stack'[c]) : \E g \in Range(Under(c)) : Like(f, g)
      BY <2>4, EndsRange
    <3> QED
      BY <2>1, <3>1 DEF Resumed, Like
  <2> QED
    BY <2>2, <2>3, <2>4 DEF GoesOn
<1> QED
  BY <1>1, <1>2 DEF BootNames

\* It keeps BootTop.
LEMMA BootTopKept ==
  ASSUME Stacks, Chains, BootTop, NEW c \in Tasks, Acts(c), GoesOn(c), Good' => Good
  PROVE  BootTop'
<1> SUFFICES ASSUME ~Serving, Good'
             PROVE  /\ \A f \in Range(stack'[Daemon]) : f.op = "start" => f.arg = None
                    /\ StartsWell(Top(Daemon))'
  BY GoesServing DEF BootTop
<1>1. /\ c = Daemon /\ stack[c] # <<>> /\ Top(c).op \in Launches
      /\ Range(stack[c]) = {Top(c)} \cup Range(Under(c))
      /\ \A f \in Range(stack[c]) : f.op = "start" => f.arg = None
  BY Peek DEF Acts, BootTop
<1>2. CASE \E f : /\ TurnsTo(c, f) /\ f.pc \notin {"begin", "launched"}
                  /\ f.arg = Top(c).arg \/ f.op # "start"
  <2>1. PICK f : /\ TurnsTo(c, f) /\ f.pc \notin {"begin", "launched"}
                 /\ f.arg = Top(c).arg \/ f.op # "start"
    BY <1>2
  <2>2. /\ Range(stack'[c]) = {f} \cup Range(Under(c)) /\ Top(c)' = f /\ f.op = Top(c).op
    BY <1>1, <2>1, TurnsRange DEF TurnsTo
  <2>3. StartsWell(Top(c))'
    BY <2>1, <2>2 DEF StartsWell
  <2> QED
    BY <1>1, <2>1, <2>2, <2>3
<1>3. CASE \E f, g : /\ Makes(c, f, g) /\ f.pc = "begin" /\ g.arg = Top(c).arg
                     /\ f.arg = None /\ workers'[f.name] = None
  <2>1. PICK f, g : /\ Makes(c, f, g) /\ f.pc = "begin" /\ g.arg = Top(c).arg
                    /\ f.arg = None /\ workers'[f.name] = None
    BY <1>3
  <2>2. /\ Range(stack'[c]) = {f, g} \cup Range(Under(c)) /\ Top(c)' = f /\ g.op = Top(c).op
    BY <2>1, MakesRange DEF Makes
  <2>3. StartsWell(Top(c))'
    BY <2>1, <2>2 DEF StartsWell
  <2> QED
    BY <1>1, <2>1, <2>2, <2>3
<1>4. CASE \E b : Ends(c, b) /\ (Top(c).op = "start" => b = TRUE /\ workers'[Top(c).name] # None)
  <2>1. PICK b : Ends(c, b) /\ (Top(c).op = "start" => b = TRUE /\ workers'[Top(c).name] # None)
    BY <1>4
  <2>2. \A f \in Range(stack'[c]) : f.op = "start" => f.arg = None
    <3>1. \A g \in Range(stack'[c]) : \E f \in Range(Under(c)) : Like(g, f)
      BY <2>1, EndsRange
    <3> QED
      BY <1>1, <3>1 DEF Like
  <2>3. stack'[c] # <<>>
    <3>1. ~Serving'
      BY GoesServing
    <3> QED
      BY <1>1, <3>1 DEF Serving, Range
  <2>4. PICK h \in Range(Under(c)) : Like(Top(c)', h) /\ Top(c)'.ok = b /\ h = Head(Under(c))
    BY <2>1, <2>3, EndsRange
  <2>5. CallOK(c, h) /\ h.pc \in Waits /\ Link(Top(c), h)
    <3>1. Under(c) # <<>>
      BY <2>4 DEF Range
    <3> QED
      BY <1>1, <2>4, <3>1, Peek, ChainUnder
  <2>6. h.pc = "launched" => h.op \in Launches
    BY <2>5 DEF CallOK, Places, Launches, Past, Built
  <2>7. StartsWell(Top(c))'
    BY <2>1, <2>4, <2>5, <2>6 DEF StartsWell, Like, Link, Waits
  <2> QED
    BY <1>1, <2>2, <2>7
<1> QED
  BY <1>1, <1>2, <1>3, <1>4 DEF GoesOn

Life == Lives /\ BootRows /\ BootTop

\* What has gone wrong is remembered.
LEMMA GoodBefore == ASSUME Sound, [Next]_vars PROVE Good' => Good
<1>1. faults \in Nat
  BY DEF Sound, Answers
<1>2. \A c \in Tasks : \A n : raced \subseteq Raced(c, n)
  BY DEF Raced
<1> DEFINE Grows == /\ faults' = faults \/ faults' = faults + 1
                    /\ raced \subseteq raced' /\ updated \subseteq updated'
<1>3. ASSUME NEW c \in Tasks, StartStep(c) \/ ResumeStep(c) PROVE Grows
  BY <1>3 DEF StartStep, ResumeStep, StartGetRow, MakeDirs, SavePlaybook, StartInsert, ResumeGetRow,
     ResumeStatus, ResumeInsert, ResumeConflict, ghosts, counts
<1>4. ASSUME NEW c \in Tasks, WorkerStep(c) PROVE Grows
  BY <1>4, <1>2 DEF WorkerStep, CheckNotRunning, FindInterconnect, InterconnectStarted, StartWorker,
     LoadFails, ListenFails, RegisterCallbacks, Fault, ghosts, counts
<1>5. ASSUME NEW c \in Tasks, ChangeStep(c) PROVE Grows
  BY <1>5, <1>2 DEF ChangeStep, StopPlaybook, DeletePlaybook, RemoveDir, SetHttpAddress, SetHttpFails,
     SaveCallback, AddCallback, ForgetCallback, DeleteCallback, Fault, ghosts, counts
<1>6. ASSUME DaemonStep PROVE Grows
  <2>1. Daemon \in Tasks
    BY DEF Tasks
  <2>2. CASE UpdateStop
    BY <2>1, <2>2, <1>2 DEF UpdateStop, counts
  <2>3. CASE UpdateStarted \/ UpdateRolledBack
    BY <2>3 DEF UpdateStarted, UpdateRolledBack, ghosts, counts
  <2>4. CASE BootResume \/ BootResumed \/ BootPass
    BY <2>4 DEF BootResume, BootResumed, BootPass, ghosts, counts
  <2> QED
    BY <1>6, <2>2, <2>3, <2>4 DEF DaemonStep
<1>7. ASSUME FindUpdate \/ Crash \/ ListUpdates \/ UNCHANGED vars PROVE Grows
  <2>1. CASE FindUpdate
    BY <2>1 DEF FindUpdate, ghosts, counts
  <2>2. CASE Crash
    BY <2>2 DEF Crash, ghosts
  <2>3. CASE ListUpdates \/ UNCHANGED vars
    BY <2>3, Waited DEF Waiting, ghosts
  <2> QED
    BY <1>7, <2>1, <2>2, <2>3
<1>8. Grows
  BY <1>3, <1>4, <1>5, <1>6, <1>7 DEF Next, TaskStep, Idle
<1> QED
  BY <1>1, <1>8 DEF Good

\* While the daemon does not serve yet, no client has a call.
LEMMA OnlyDaemon ==
  ASSUME Sound, ~Serving, NEW c \in Tasks, stack[c] # <<>> PROVE c = Daemon
  BY DEF Sound, Base, Booting, Tasks

\* A start or a resume acts, ..
LEMMA LaunchActs ==
  ASSUME Sound, NEW c \in Tasks, NEW op, NEW p, At(c, op, p), op \subseteq Launches
  PROVE  Acts(c)
  BY OnlyDaemon, TopFrame DEF Acts

\* .. and so does any other call, since the daemon serves then, ..
LEMMA OtherActs ==
  ASSUME Sound, NEW c \in Tasks, NEW op, NEW p, At(c, op, p), op \cap (Launches \cup {"boot"}) = {}
  PROVE  Serving
<1> SUFFICES ASSUME ~Serving PROVE FALSE
  OBVIOUS
<1>1. /\ stack[c] # <<>> /\ Top(c).op \notin Launches \cup {"boot"} /\ Stacks /\ Chains
      /\ Range(stack[c]) = {Top(c)} \cup Range(Under(c))
  BY TopFrame, AtCall DEF Sound, Base
<1>2. c = Daemon
  BY <1>1, OnlyDaemon
<1>3. PICK f \in Range(stack[c]) : f.op = "boot"
  BY <1>2 DEF Serving
<1>4. Under(c) # <<>>
  BY <1>1, <1>3 DEF Range
<1> QED
  BY <1>1, <1>4, ChainUnder DEF Link

\* .. and a call that begins.
LEMMA EnterActs ==
  ASSUME Sound, NEW c \in Tasks, NEW op, NEW f \in Entering(c, op), "boot" \notin op
  PROVE  Acts(c)
<1>1. CASE stack[c] = <<>>
  BY <1>1, Entered DEF Acts
<1>2. CASE stack[c] # <<>>
  <2>1. Top(c).op \in Launches
    BY <1>2, Entered
  <2> QED
    BY <1>2, <2>1, OnlyDaemon DEF Acts
<1> QED
  BY <1>1, <1>2

\* A request that is not one of a call comes when the daemon serves.
LEMMA RequestServes ==
  ASSUME Sound, NEW c \in Tasks, NEW op, NEW f \in Entering(c, op), op \cap (Launches \cup {"boot"}) = {}
  PROVE  Serving /\ stack[c] = <<>> /\ Acts(c)
<1>1. stack[c] = <<>>
  <2>1. f.op \in op /\ (stack[c] # <<>> => f.op \in Launches)
    BY Entered
  <2> QED
    BY <2>1
<1> QED
  BY <1>1, Entered DEF Acts

\* A step that changes neither workers nor rows
LEMMA CalmLife ==
  ASSUME Sound, Life, NEW c \in Tasks, Acts(c), GoesOn(c), Good' => Good,
         UNCHANGED <<workers, db, boot>>, \A n \in Names : AtInsert(c, n) => workers[n] # None
  PROVE  Life'
<1>1. \A n \in Names : Running(n)' <=> Running(n)
  BY DEF Running, ListRows, GetRow
<1>2. Stacks /\ Chains /\ Lives /\ BootRows /\ BootTop
  BY DEF Sound, Base, Life
<1>3. Lives'
  BY <1>1, <1>2, LivesKept
<1>4. BootRows'
  BY <1>1, <1>2, BootRowsKept
<1>5. BootTop'
  BY <1>2, BootTopKept
<1> QED
  BY <1>3, <1>4, <1>5 DEF Life

\* A call that goes to a place where it does not wait
LEMMA GotoGoes ==
  ASSUME Sound, NEW c \in Tasks, NEW op, NEW p, At(c, op, p), NEW q \in Pcs, Goto(c, q),
         q \notin {"begin", "launched", "resumed"}
  PROVE  GoesOn(c)
<1>1. PICK f \in Calls : TurnsTo(c, f) /\ f.pc = q /\ f.arg = Top(c).arg
  BY GotoTurn
<1>2. stack[c] # <<>>
  BY TopFrame
<1> QED
  BY <1>1, <1>2 DEF GoesOn

\* A call that ends while the daemon serves
LEMMA ServingReturns ==
  ASSUME Sound, NEW c \in Tasks, NEW b \in BOOLEAN, Return(c, b), Serving \/ ~Good'
  PROVE  GoesOn(c)
<1>1. Ends(c, b)
  BY EndsOf DEF Sound, Base
<1> QED
  BY <1>1 DEF GoesOn

\* A call at another place is not about to put a worker into the map, ..
LEMMA NotInsert ==
  ASSUME NEW c, NEW op, NEW p, At(c, op, p), p # "insert" PROVE \A n : ~AtInsert(c, n)
  BY DEF AtInsert, At

\* .. nor is one that begins.
LEMMA EnteringNotInsert ==
  ASSUME Sound, NEW c \in Tasks, NEW op, NEW f \in Entering(c, op), "boot" \notin op
  PROVE \A n : ~AtInsert(c, n)
  BY Entered DEF AtInsert, At

\* Reading the row of a start keeps Life.
LEMMA StartGetRowLife ==
  ASSUME Sound, Life, NEW c \in Tasks, StartGetRow(c), Good' => Good PROVE Life'
<1>1. At(c, {"start"}, "row")
  BY DEF StartGetRow
<1>2. GoesOn(c)
  <2>1. PICK q \in Pcs : Goto(c, q) /\ q \notin {"begin", "launched", "resumed"}
    BY DEF StartGetRow, Pcs
  <2> QED
    BY <1>1, <2>1, GotoGoes
<1>3. Acts(c) /\ \A n : ~AtInsert(c, n)
  BY <1>1, LaunchActs, NotInsert DEF Launches
<1>4. UNCHANGED <<workers, db, boot>>
  BY DEF StartGetRow, memVars, diskVars
<1> QED
  BY <1>2, <1>3, <1>4, CalmLife

\* Making the directories keeps it.
LEMMA MakeDirsLife ==
  ASSUME Sound, Life, NEW c \in Tasks, MakeDirs(c), Good' => Good PROVE Life'
<1>1. At(c, {"start"}, "dirs")
  BY DEF MakeDirs
<1>2. GoesOn(c)
  <2>1. PICK q \in Pcs : Goto(c, q) /\ q \notin {"begin", "launched", "resumed"}
    BY DEF MakeDirs, AfterLoad, Pcs, Past
  <2> QED
    BY <1>1, <2>1, GotoGoes
<1>3. Acts(c) /\ \A n : ~AtInsert(c, n)
  BY <1>1, LaunchActs, NotInsert DEF Launches
<1>4. UNCHANGED <<workers, db, boot>>
  BY DEF MakeDirs, memVars
<1> QED
  BY <1>2, <1>3, <1>4, CalmLife

\* The second part of delete_playbook keeps it.
LEMMA RemoveDirLife ==
  ASSUME Sound, Life, NEW c \in Tasks, RemoveDir(c), Good' => Good PROVE Life'
<1>1. At(c, {"start", "delete"}, "rmdir") /\ \A n : ~AtInsert(c, n)
  BY NotInsert DEF RemoveDir
<1>2. UNCHANGED <<workers, db, boot>>
  BY DEF RemoveDir
<1>3. CASE Top(c).op = "start"
  <2>1. At(c, {"start"}, "rmdir") /\ Goto(c, "dirs")
    BY <1>1, <1>3 DEF RemoveDir, At
  <2>2. PICK q \in Pcs : Goto(c, q) /\ q \notin {"begin", "launched", "resumed"}
    BY <2>1 DEF Pcs
  <2>3. GoesOn(c) /\ Acts(c)
    BY <2>1, <2>2, GotoGoes, LaunchActs DEF Launches
  <2> QED
    BY <1>1, <1>2, <2>3, CalmLife
<1>4. CASE Top(c).op = "delete"
  <2>1. At(c, {"delete"}, "rmdir") /\ Return(c, TRUE)
    BY <1>1, <1>4 DEF RemoveDir, At
  <2>2. Serving
    BY <2>1, OtherActs DEF Launches
  <2>3. GoesOn(c) /\ Acts(c)
    BY <2>1, <2>2, ServingReturns DEF Acts
  <2> QED
    BY <1>1, <1>2, <2>3, CalmLife
<1> QED
  BY <1>1, <1>3, <1>4 DEF At

\* Coming back from the start of the playbook that a module calls keeps it: before the daemon
\* serves that playbook runs then, unless something went wrong.
LEMMA InterconnectStartedLife ==
  ASSUME Sound, Life, NEW c \in Tasks, InterconnectStarted(c), Good' => Good PROVE Life'
<1>1. At(c, {"start", "resume"}, "launched")
  BY DEF InterconnectStarted
<1>2. Acts(c) /\ \A n : ~AtInsert(c, n)
  BY <1>1, LaunchActs, NotInsert DEF Launches
<1>3. UNCHANGED <<workers, db, boot>>
  BY DEF InterconnectStarted, memVars, diskVars
<1>4. GoesOn(c)
  <2>1. CASE Goto(c, "worker")
    <3>1. PICK q \in Pcs : Goto(c, q) /\ q \notin {"begin", "launched", "resumed"}
      BY <2>1 DEF Pcs, Past
    <3> QED
      BY <1>1, <3>1, GotoGoes
  <2>2. CASE Return(c, FALSE) /\ ~(Top(c).ok /\ workers[Needs[Subject(c)]] # None)
    <3>1. Serving \/ ~Good'
      <4> SUFFICES ASSUME ~Serving, Good' PROVE FALSE
        OBVIOUS
      <4>1. stack[c] # <<>> /\ Top(c).pc = "launched" /\ Subject(c) = Top(c).name
        BY <1>1, TopFrame
      <4>2. StartsWell(Top(c))
        BY <4>1, OnlyDaemon DEF Life, BootTop
      <4> QED
        BY <2>2, <4>1, <4>2 DEF StartsWell
    <3> QED
      BY <2>2, <3>1, ServingReturns
  <2> QED
    BY <2>1, <2>2 DEF InterconnectStarted
<1> QED
  BY <1>2, <1>3, <1>4, CalmLife

\* A module that does not load keeps it: something went wrong.
LEMMA LoadFailsLife ==
  ASSUME Sound, Life, NEW c \in Tasks, LoadFails(c), Good' => Good PROVE Life'
<1>1. PICK p \in {"interconnect", "worker"} : At(c, {"start", "resume"}, p)
  BY DEF LoadFails
<1>2. Acts(c) /\ \A n : ~AtInsert(c, n)
  BY <1>1, LaunchActs, NotInsert DEF Launches
<1>3. UNCHANGED <<workers, db, boot>> /\ Return(c, FALSE)
  BY DEF LoadFails, memVars, diskVars
<1>4. ~Good'
  BY DEF LoadFails, Fault, Good, Sound, Answers
<1>5. GoesOn(c)
  BY <1>3, <1>4, ServingReturns
<1> QED
  BY <1>2, <1>3, <1>5, CalmLife

\* Looking for the playbook that a module calls keeps it: it is started only if it does not run.
LEMMA FindInterconnectLife ==
  ASSUME Sound, Vers, Life, NEW c \in Tasks, FindInterconnect(c), Good' => Good PROVE Life'
<1>1. At(c, {"start", "resume"}, "interconnect")
  BY DEF FindInterconnect
<1>2. Acts(c) /\ \A n : ~AtInsert(c, n)
  BY <1>1, LaunchActs, NotInsert DEF Launches
<1>3. UNCHANGED <<workers, db, boot>> /\ Stacks
  BY DEF FindInterconnect, memVars, diskVars, Sound, Base
<1>4. PICK n \in Names : n = Subject(c)
  BY <1>1, TopFrame
<1>5. GoesOn(c)
  <2>1. CASE Goto(c, "worker")
    <3>1. PICK q \in Pcs : Goto(c, q) /\ q \notin {"begin", "launched", "resumed"}
      BY <2>1 DEF Pcs, Past
    <3> QED
      BY <1>1, <3>1, GotoGoes
  <2>2. CASE ~Expected(Needs[n]) /\ Call(c, Frame("start", Needs[n], None), "launched")
    <3>1. /\ stack[c] # <<>> /\ Top(c) \in Calls /\ n = Top(c).name /\ Top(c).op \in Launches
          /\ CallOK(c, Top(c)) /\ Top(c).pc = "interconnect"
      BY <1>1, <1>4, TopFrame DEF Launches
    <3>2. PICK m \in Names : m = Needs[n]
      <4>1. Needs[n] # None
        BY <3>1 DEF CallOK
      <4> QED
        BY <4>1, NeedsAssumption
    <3>3. PICK f : f = Frame("start", m, None)
      OBVIOUS
    <3>4. /\ f \in Calls /\ f.op = "start" /\ f.name = m /\ f.pc = "begin" /\ f.arg = None
      BY <3>2, <3>3, StartFrameOK DEF Frame, Versions
    <3>5. PICK g \in Calls : g = [Top(c) EXCEPT !.pc = "launched"]
      BY <3>1, Parts DEF Pcs, Past
    <3>6. g.pc = "launched" /\ g.arg = Top(c).arg
      BY <3>1, <3>5, Parts DEF Pcs, Past
    <3>7. Makes(c, f, g)
      BY <1>3, <2>2, <3>1, <3>2, <3>3, <3>4, <3>5, MakesOf DEF Pcs, Past
    <3>8. Good' => workers'[m] = None
      BY <1>3, <2>2, <3>2 DEF Good, Expected, Vers
    <3> QED
      BY <3>4, <3>6, <3>7, <3>8 DEF GoesOn
  <2> QED
    BY <1>4, <2>1, <2>2 DEF FindInterconnect
<1> QED
  BY <1>2, <1>3, <1>5, CalmLife

\* An address that is taken is that of another playbook's row, unless that lost it.
LEMMA TakenAddress ==
  ASSUME Sound, ~Serving, Good, stack[Daemon] # <<>>, Top(Daemon).worker = None,
         NEW a, ~HttpFree(a)
  PROVE  a # None /\ \E n \in Names : workers[n] # None /\ Running(n) /\ db[n].http = a
<1>1. PICK w \in AllWorkers : w.http = a
  BY DEF HttpFree
<1>2. a # None
  BY DEF HttpFree
<1>3. \A c \in Tasks : \A f \in Range(stack[c]) : f.worker = None
  <2> SUFFICES ASSUME NEW c \in Tasks, NEW f \in Range(stack[c]) PROVE f.worker = None
    OBVIOUS
  <2>1. stack[c] # <<>> /\ Stacks
    BY DEF Range, Sound, Base
  <2>2. c = Daemon
    BY <2>1, OnlyDaemon
  <2>3. f = Top(c) \/ (CallOK(c, f) /\ f.pc \in Waits)
    BY <2>1, Peek
  <2> QED
    BY <2>2, <2>3 DEF CallOK, Waits, Built
<1>4. PICK n \in Names : w = workers[n] /\ w # None
  BY <1>1, <1>3 DEF AllWorkers
<1>5. Reachable(n)
  BY DEF Good, Sound, Answers, AnswerOK
<1> QED
  BY <1>1, <1>2, <1>4, <1>5 DEF Reachable, Good

\* A listener that fails keeps it: unless something went wrong the address is taken, and Apart says
\* that it is not the one of a playbook that is being resumed.
LEMMA ListenFailsLife ==
  ASSUME Sound, Life, Apart, NEW c \in Tasks, ListenFails(c), Good' => Good PROVE Life'
<1>1. At(c, {"start", "resume"}, "worker")
  BY DEF ListenFails
<1>2. Acts(c) /\ \A n : ~AtInsert(c, n)
  BY <1>1, LaunchActs, NotInsert DEF Launches
<1>3. UNCHANGED <<workers, db, boot>> /\ Return(c, FALSE) /\ Top(c).arg # None
  BY DEF ListenFails, diskVars
<1>4. Good' => ~HttpFree(Top(c).arg)
  BY DEF ListenFails, Fault, Good, Sound, Answers
<1>5. Serving \/ ~Good'
  <2> SUFFICES ASSUME ~Serving, Good' PROVE FALSE
    OBVIOUS
  <2>1. /\ stack[c] # <<>> /\ Top(c).pc = "worker" /\ Top(c).op \in {"start", "resume"}
        /\ Top(c) \in Range(stack[c]) /\ FrameOK(Top(c)) /\ CallOK(c, Top(c)) /\ Stacks
    BY <1>1, TopFrame, Peek
  <2>2. c = Daemon
    BY <2>1, OnlyDaemon
  <2>3. Top(c).op = "resume"
    BY <1>3, <2>1, <2>2 DEF Life, BootTop
  <2>4. PICK n \in Names : n = Top(c).name
    BY <2>1, <2>3 DEF CallOK
  <2>5. n \notin Endless /\ n \notin raced
    BY <2>1, <2>3, <2>4 DEF FrameOK, Launches, Good
  <2>6. workers[n] = None /\ db[n] # None /\ db[n].http = Top(c).arg
    BY <2>1, <2>3, <2>4, <2>5 DEF FrameOK, Launches, Past, Matches
  <2>7. n \in BootNames
    <3>1. Resumed(Top(c))
      BY <2>3 DEF Resumed
    <3> QED
      BY <2>1, <2>2, <2>4, <3>1 DEF BootNames
  <2>8. Running(n)
    BY <2>6, <2>7 DEF Life, BootRows
  <2>9. Top(c).worker = None
    BY <2>1 DEF CallOK, Built
  <2>10. PICK m \in Names : workers[m] # None /\ Running(m) /\ db[m].http = Top(c).arg
    BY <1>4, <2>1, <2>2, <2>9, TakenAddress
  <2> QED
    BY <1>3, <2>6, <2>8, <2>10 DEF Apart
<1>6. GoesOn(c)
  BY <1>3, <1>5, ServingReturns
<1> QED
  BY <1>2, <1>3, <1>6, CalmLife

\* The check at the start of a call keeps it.
LEMMA CheckNotRunningLife ==
  ASSUME Sound, Life, NEW c \in Tasks, CheckNotRunning(c), Good' => Good PROVE Life'
<1>1. PICK f \in Entering(c, {"start", "resume"}) :
        IF workers[f.name] # None THEN Return(c, FALSE) ELSE Become(c, [f EXCEPT !.pc = "row"])
  BY DEF CheckNotRunning
<1>2. UNCHANGED <<workers, db, boot>> /\ Stacks
  BY DEF CheckNotRunning, memVars, diskVars, Sound, Base
<1>3. Acts(c) /\ \A n : ~AtInsert(c, n)
  BY EnterActs, EnteringNotInsert
<1>4. f.pc = "begin" /\ f.op \in {"start", "resume"} /\ (stack[c] # <<>> => f = Top(c))
  BY Entered
<1>5. CASE workers[f.name] # None
  <2>1. Ends(c, FALSE)
    BY <1>1, <1>2, <1>5, EndsOf
  <2>2. ASSUME Good', ~Serving
        PROVE  /\ Top(c).op # "start"
               /\ \A n \in Names : n = Top(c).name => workers'[n] # None
    <3>1. stack[c] # <<>> /\ c = Daemon
      BY <1>3, <2>2 DEF Acts
    <3>2. StartsWell(Top(c)) /\ f = Top(c)
      BY <1>4, <2>2, <3>1 DEF Life, BootTop
    <3> QED
      BY <1>2, <1>4, <1>5, <3>2 DEF StartsWell
  <2>3. GoesOn(c)
    BY <2>1, <2>2 DEF GoesOn
  <2> QED
    BY <1>2, <1>3, <2>3, CalmLife
<1>6. CASE workers[f.name] = None
  <2>1. PICK q \in Pcs : q = "row"
    BY DEF Pcs
  <2>2. Become(c, [f EXCEPT !.pc = q])
    BY <1>1, <1>6, <2>1
  <2>3. PICK g \in Calls : TurnsTo(c, g) /\ g.pc = q /\ g.op = f.op /\ g.arg = f.arg
    BY <2>2, EnterTurn
  <2>4. GoesOn(c)
    BY <1>4, <2>1, <2>3 DEF GoesOn
  <2> QED
    BY <1>2, <1>3, <2>4, CalmLife
<1> QED
  BY <1>5, <1>6

\* Building a worker keeps it.
LEMMA StartWorkerLife ==
  ASSUME Sound, Vers, Life, NEW c \in Tasks, StartWorker(c), Good' => Good PROVE Life'
<1>1. At(c, {"start", "resume"}, "worker")
  BY DEF StartWorker
<1>2. Acts(c) /\ \A n : ~AtInsert(c, n)
  BY <1>1, LaunchActs, NotInsert DEF Launches
<1>3. stack[c] # <<>> /\ Top(c) \in Calls
  BY <1>1, TopFrame
<1>4. PICK w : w = [id |-> NewId, http |-> Top(c).arg, cbs |-> NoCallbacks,
                    path |-> Top(c).path, ver |-> Top(c).ver]
  OBVIOUS
<1>5. PICK f : f = [Top(c) EXCEPT !.pc = "callbacks", !.worker = w]
  OBVIOUS
<1>6. UNCHANGED <<workers, db, boot>> /\ Become(c, f) /\ Stacks
  BY <1>4, <1>5 DEF StartWorker, diskVars, Sound, Base
<1>7. w \in Worker
  <2>1. NewId \in WorkerIds /\ NoCallbacks \in [Uuids -> 0..2]
    BY FreshId, CallbacksOfType DEF Sound, Base
  <2>2. Top(c).arg \in Addrs \cup {None} /\ Top(c).path \in BOOLEAN /\ Top(c).ver \in Versions
    BY <1>1, <1>3, LaunchTop DEF Calls
  <2> QED
    BY <1>4, <2>1, <2>2 DEF Worker
<1>8. /\ f \in Calls /\ f.op = Top(c).op /\ f.name = Top(c).name /\ f.arg = Top(c).arg
      /\ f.pc = "callbacks"
  BY <1>3, <1>5, <1>7 DEF Calls, Pcs, Past, Built
<1>9. TurnsTo(c, f)
  BY <1>3, <1>6, <1>8, TurnsOf
<1>10. GoesOn(c)
  BY <1>3, <1>8, <1>9 DEF GoesOn
<1> QED
  BY <1>2, <1>6, <1>10, CalmLife

\* Giving it its callbacks keeps it.
LEMMA RegisterCallbacksLife ==
  ASSUME Sound, Vers, Life, NEW c \in Tasks, RegisterCallbacks(c), Good' => Good PROVE Life'
<1>1. At(c, {"start", "resume"}, "callbacks")
  BY DEF RegisterCallbacks
<1>2. Acts(c) /\ \A n : ~AtInsert(c, n)
  BY <1>1, LaunchActs, NotInsert DEF Launches
<1>3. PICK n \in Names : n = Subject(c)
  BY <1>1, LaunchTop
<1>4. stack[c] # <<>> /\ Top(c) \in Calls /\ Top(c).worker \in Worker
  BY <1>1, LaunchTop DEF Built
<1>5. PICK f : f = [Top(c) EXCEPT !.pc = "record", !.worker.cbs = CallbacksOf(n)]
  OBVIOUS
<1>6. UNCHANGED <<workers, db, boot>> /\ Become(c, f) /\ Stacks
  BY <1>3, <1>5 DEF RegisterCallbacks, memVars, diskVars, Sound, Base
<1>7. PICK w : w = [Top(c).worker EXCEPT !.cbs = CallbacksOf(n)]
  OBVIOUS
<1>8. w \in Worker
  BY <1>4, <1>7, CallbacksOfType DEF Worker
<1>9. f = [Top(c) EXCEPT !.pc = "record", !.worker = w]
  BY <1>4, <1>5, <1>7 DEF Calls
<1>10. /\ f \in Calls /\ f.op = Top(c).op /\ f.name = Top(c).name /\ f.arg = Top(c).arg
       /\ f.pc = "record"
  BY <1>4, <1>8, <1>9 DEF Calls, Pcs, Past, Built
<1>11. TurnsTo(c, f)
  BY <1>4, <1>6, <1>10, TurnsOf
<1>12. GoesOn(c)
  BY <1>4, <1>10, <1>11 DEF GoesOn
<1> QED
  BY <1>2, <1>6, <1>12, CalmLife

\* What keeps Life
LEMMA LifeKept ==
  ASSUME Sound, Life, NEW c \in Tasks, Acts(c), GoesOn(c), Good' => Good, boot' = boot,
         \A n \in Names : Running(n)' => Running(n) \/ AtInsert(c, n)',
         \A n \in Names : Good' /\ Running(n)' /\ (workers[n] # None \/ AtInsert(c, n))
                            => workers'[n] # None,
         ~Serving => \A n \in Names : (db[n] # None => Running(n)) => (db'[n] # None => Running(n)')
  PROVE  Life'
<1>1. Stacks /\ Chains /\ Lives /\ BootRows /\ BootTop
  BY DEF Sound, Base, Life
<1>2. Lives'
  BY <1>1, LivesKept
<1>3. BootRows'
  BY <1>1, BootRowsKept
<1>4. BootTop'
  BY <1>1, BootTopKept
<1> QED
  BY <1>2, <1>3, <1>4 DEF Life

\* A call that is about to put its worker into the map, once its row says running
LEMMA RecordLife ==
  ASSUME Sound, Life, NEW c \in Tasks, NEW n \in Names, Good' => Good, At(c, Launches, "record"),
         n = Subject(c), Goto(c, "insert"), UNCHANGED <<workers, boot>>,
         \A m \in Names \ {n} : db'[m] = db[m], db'[n] = None \/ db'[n].status = "running"
  PROVE  Life'
<1>1. Acts(c) /\ (\A m : ~AtInsert(c, m)) /\ stack[c] # <<>> /\ Top(c).op \in Launches /\ n = Top(c).name
  BY LaunchActs, NotInsert, TopFrame
<1>2. PICK q \in Pcs : q = "insert"
  BY DEF Pcs, Past, Built
<1>3. PICK f \in Calls : /\ TurnsTo(c, f) /\ f.pc = q /\ f.op = Top(c).op /\ f.name = Top(c).name
                         /\ f.arg = Top(c).arg
  BY <1>2, GotoTurn
<1>4. GoesOn(c)
  BY <1>1, <1>2, <1>3 DEF GoesOn
<1>5. stack'[c] # <<>> /\ Top(c)' = f
  BY <1>3, TurnsRange DEF Sound, Base
<1>6. AtInsert(c, n)'
  BY <1>1, <1>2, <1>3, <1>5 DEF AtInsert, At, Subject
<1>7. /\ \A m \in Names \ {n} : Running(m)' <=> Running(m)
      /\ db'[n] # None => Running(n)'
  BY DEF Running, ListRows, GetRow
<1>8. \A m \in Names : Running(m)' => Running(m) \/ AtInsert(c, m)'
  BY <1>6, <1>7
<1>9. \A m \in Names : (db[m] # None => Running(m)) => (db'[m] # None => Running(m)')
  BY <1>7
<1> QED
  BY <1>1, <1>4, <1>8, <1>9, LifeKept

\* Saving the row of a start keeps it: its worker is next put into the map.
LEMMA SavePlaybookLife ==
  ASSUME Sound, Life, NEW c \in Tasks, SavePlaybook(c), Good' => Good PROVE Life'
<1>1. At(c, {"start"}, "record") /\ At(c, Launches, "record")
  BY DEF SavePlaybook, At, Launches
<1>2. PICK n \in Names : n = Subject(c)
  BY <1>1, TopFrame
<1>3. /\ UNCHANGED <<workers, boot>> /\ Goto(c, "insert") /\ Mem
      /\ db' = [db EXCEPT ![n] = [status |-> "running", http |-> Top(c).arg,
                                  path |-> Top(c).path, ver |-> Top(c).ver]]
  BY <1>2 DEF SavePlaybook, SaveRow, memVars, Sound, Base
<1>4. (\A m \in Names \ {n} : db'[m] = db[m]) /\ db'[n].status = "running"
  BY <1>3 DEF Mem
<1> QED
  BY <1>1, <1>2, <1>3, <1>4, RecordLife

\* So does setting the status of a resumed row.
LEMMA ResumeStatusLife ==
  ASSUME Sound, Life, NEW c \in Tasks, ResumeStatus(c), Good' => Good PROVE Life'
<1>1. At(c, {"resume"}, "record") /\ At(c, Launches, "record")
  BY DEF ResumeStatus, At, Launches
<1>2. PICK n \in Names : n = Subject(c)
  BY <1>1, TopFrame
<1>3. UNCHANGED <<workers, boot>> /\ Goto(c, "insert") /\ Mem /\ db' = WithStatus(n, "running")
  BY <1>2 DEF ResumeStatus, memVars, Sound, Base
<1>4. (\A m \in Names \ {n} : db'[m] = db[m]) /\ (db'[n] = None \/ db'[n].status = "running")
  BY <1>3, StatusRow
<1> QED
  BY <1>1, <1>2, <1>3, <1>4, RecordLife

\* Reading the row of a resume keeps it: a row that is gone does not run.
LEMMA ResumeGetRowLife ==
  ASSUME Sound, Life, NEW c \in Tasks, ResumeGetRow(c), Good' => Good PROVE Life'
<1>1. At(c, {"resume"}, "row")
  BY DEF ResumeGetRow
<1>2. PICK n \in Names : n = Subject(c)
  BY <1>1, TopFrame
<1>3. Acts(c) /\ \A m : ~AtInsert(c, m)
  BY <1>1, LaunchActs, NotInsert DEF Launches
<1>4. UNCHANGED <<workers, db, boot>> /\ Mem /\ Stacks
  BY DEF ResumeGetRow, memVars, diskVars, Sound, Base
<1>5. stack[c] # <<>> /\ Top(c).op = "resume" /\ n = Top(c).name /\ Top(c) \in Calls
  BY <1>1, <1>2, TopFrame
<1>6. GoesOn(c)
  <2>1. CASE db[n] = None
    <3>1. Ends(c, FALSE)
      BY <1>2, <1>4, <2>1, EndsOf DEF ResumeGetRow, GetRow
    <3>2. ~Running(n)'
      BY <1>4, <2>1 DEF Running, ListRows
    <3> QED
      BY <1>5, <3>1, <3>2 DEF GoesOn
  <2>2. CASE db[n] # None
    <3>1. PICK f : f = [Top(c) EXCEPT !.pc = AfterLoad(n), !.arg = db[n].http,
                                      !.path = db[n].path, !.ver = db[n].ver]
      OBVIOUS
    <3>2. Become(c, f)
      BY <1>2, <2>2, <3>1 DEF ResumeGetRow, GetRow
    <3>3. /\ db[n].http \in Addrs \cup {None} /\ db[n].path \in BOOLEAN /\ db[n].ver \in Versions
          /\ AfterLoad(n) \in Pcs /\ AfterLoad(n) \in {"interconnect", "worker"}
      BY <1>4, <2>2 DEF Row, Mem, Pcs, Past, AfterLoad
    <3>4. f \in Calls /\ f.op = "resume" /\ f.name = n /\ f.pc = AfterLoad(n)
      BY <1>5, <3>1, <3>3 DEF Calls
    <3>5. TurnsTo(c, f)
      BY <1>4, <1>5, <3>2, <3>4, TurnsOf
    <3> QED
      BY <1>5, <3>3, <3>4, <3>5 DEF GoesOn
  <2> QED
    BY <2>1, <2>2
<1> QED
  BY <1>3, <1>4, <1>6, CalmLife

\* Putting a worker into the map keeps it.
LEMMA InsertLife ==
  ASSUME Sound, Life, NEW c \in Tasks, StartInsert(c) \/ ResumeInsert(c), Good' => Good PROVE Life'
<1>1. At(c, Launches, "insert")
  BY DEF StartInsert, ResumeInsert, At, Launches
<1>2. PICK n \in Names : n = Subject(c)
  BY <1>1, TopFrame DEF Launches
<1>3. /\ UNCHANGED <<db, boot>> /\ Return(c, TRUE) /\ Mem /\ Stacks
      /\ workers' = [workers EXCEPT ![n] = Top(c).worker]
  BY <1>2 DEF StartInsert, ResumeInsert, diskVars, Sound, Base
<1>4. /\ stack[c] # <<>> /\ Top(c).op \in Launches /\ Top(c).name = n /\ Top(c).worker # None
  BY <1>1, <1>2, TopFrame, LaunchCall, NoneAssumption DEF Built
<1>5. workers'[n] # None /\ \A m \in Names \ {n} : workers'[m] = workers[m]
  BY <1>3, <1>4 DEF Mem
<1>6. Ends(c, TRUE)
  BY <1>3, EndsOf
<1>7. GoesOn(c)
  BY <1>4, <1>5, <1>6 DEF GoesOn
<1>8. Acts(c) /\ \A m : AtInsert(c, m) => m = n
  BY <1>1, <1>2, LaunchActs DEF AtInsert
<1>9. \A m \in Names : Running(m)' <=> Running(m)
  BY <1>3 DEF Running, ListRows, GetRow
<1>10. \A m \in Names : (db[m] # None => Running(m)) => (db'[m] # None => Running(m)')
  BY <1>3, <1>9
<1>11. \A m \in Names : Good' /\ Running(m)' /\ (workers[m] # None \/ AtInsert(c, m))
                            => workers'[m] # None
  BY <1>5, <1>8
<1> QED
  BY <1>3, <1>7, <1>8, <1>9, <1>10, <1>11, LifeKept

\* Dropping the worker of a resume keeps it: its playbook has one.
LEMMA ResumeConflictLife ==
  ASSUME Sound, Life, NEW c \in Tasks, ResumeConflict(c), Good' => Good PROVE Life'
<1>1. At(c, {"resume"}, "insert") /\ At(c, Launches, "insert")
  BY DEF ResumeConflict, At, Launches
<1>2. PICK n \in Names : n = Subject(c)
  BY <1>1, TopFrame
<1>3. UNCHANGED <<workers, db, boot>> /\ Return(c, FALSE) /\ workers[n] # None
  BY <1>2 DEF ResumeConflict, MayInsert, diskVars
<1>4. stack[c] # <<>> /\ Top(c).op = "resume" /\ Top(c).name = n
  BY <1>1, <1>2, TopFrame
<1>5. Ends(c, FALSE)
  BY <1>3, EndsOf DEF Sound, Base
<1>6. GoesOn(c)
  BY <1>3, <1>4, <1>5 DEF GoesOn
<1>7. Acts(c) /\ \A m : AtInsert(c, m) => m = n
  BY <1>1, <1>2, LaunchActs DEF AtInsert
<1> QED
  BY <1>3, <1>6, <1>7, CalmLife

\* A worker that is taken out leaves no row that says running.
LEMMA TakenLife ==
  ASSUME Mem, NEW n \in Names, TakeOut(n), db' = StoppedRow(n)
  PROVE  /\ \A m \in Names : Running(m)' => Running(m)
         /\ \A m \in Names : Running(m)' /\ workers[m] # None => workers'[m] # None
<1>1. /\ \A m \in Names \ {n} : workers'[m] = workers[m] /\ db'[m] = db[m]
      /\ workers[n] = None => db' = db
      /\ workers[n] # None => (db'[n] # None => db'[n].status = "stopped")
  BY TakenOut
<1> QED
  BY <1>1 DEF Running, ListRows, GetRow

\* stop_playbook keeps it.
LEMMA StopPlaybookLife ==
  ASSUME Sound, Life, NEW c \in Tasks, StopPlaybook(c), Good' => Good PROVE Life'
<1>1. PICK f \in Entering(c, {"stop"}) :
        /\ TakeOut(f.name) /\ db' = StoppedRow(f.name)
        /\ Return(c, workers[f.name] # None) /\ boot' = boot
  BY DEF StopPlaybook
<1>2. f.name \in Names /\ Mem /\ Serving /\ stack[c] = <<>> /\ Acts(c)
  BY Entered, RequestServes DEF Sound, Base, Launches
<1>3. \A n : ~AtInsert(c, n)
  BY <1>2 DEF AtInsert, At
<1>4. PICK n \in Names : n = f.name
  BY <1>2
<1>5. /\ \A m \in Names : Running(m)' => Running(m)
      /\ \A m \in Names : Running(m)' /\ workers[m] # None => workers'[m] # None
  BY <1>1, <1>2, <1>4, TakenLife
<1>6. GoesOn(c)
  BY <1>1, <1>2, ServingReturns
<1> QED
  BY <1>1, <1>2, <1>3, <1>5, <1>6, LifeKept

\* The first part of delete_playbook keeps it.
LEMMA DeletePlaybookLife ==
  ASSUME Sound, Life, NEW c \in Tasks, DeletePlaybook(c), Good' => Good PROVE Life'
<1>1. PICK f \in Entering(c, {"delete"}) \cup {g \in Range(stack[c]) : At(c, {"start"}, "delete") /\ g = Top(c)} :
        /\ TakeOut(f.name) /\ DeleteRow(f.name)
        /\ Become(c, [f EXCEPT !.pc = "rmdir"]) /\ boot' = boot
  BY DEF DeletePlaybook
<1>2. PICK q \in Pcs : q = "rmdir"
  BY DEF Pcs
<1>3. Become(c, [f EXCEPT !.pc = q]) /\ Stacks /\ Mem
  BY <1>1, <1>2 DEF Sound, Base
<1>4. /\ Acts(c) /\ f.name \in Names /\ GoesOn(c) /\ \A n : ~AtInsert(c, n)
  <2>1. CASE f \in Entering(c, {"delete"})
    <3>1. Acts(c) /\ stack[c] = <<>> /\ f.op = "delete" /\ f.name \in Names
      BY <2>1, RequestServes, Entered DEF Launches
    <3>2. PICK g \in Calls : TurnsTo(c, g) /\ g.pc = q /\ g.op = f.op
      BY <2>1, <1>3, EnterTurn
    <3>3. GoesOn(c)
      BY <1>2, <3>1, <3>2 DEF GoesOn
    <3> QED
      BY <3>1, <3>3 DEF AtInsert, At
  <2>2. CASE At(c, {"start"}, "delete") /\ f = Top(c)
    <3>1. Goto(c, q) /\ Subject(c) = Top(c).name /\ Subject(c) \in Names
      BY <2>2, <1>3, TopFrame DEF Goto, Subject
    <3> QED
      BY <2>2, <3>1, <1>2, GotoGoes, LaunchActs, NotInsert DEF Launches
  <2> QED
    BY <2>1, <2>2, <1>1
<1>5. PICK n \in Names : n = f.name
  BY <1>4
<1>6. /\ db'[n] = None
      /\ \A m \in Names \ {n} : workers'[m] = workers[m] /\ db'[m] = db[m]
  BY <1>1, <1>3, <1>5 DEF TakeOut, DeleteRow, Mem
<1>7. ~Running(n)' /\ \A m \in Names \ {n} : Running(m)' <=> Running(m)
  BY <1>6 DEF Running, ListRows, GetRow
<1>8. \A m \in Names : Running(m)' /\ workers[m] # None => workers'[m] # None
  BY <1>6, <1>7
<1>9. \A m \in Names : (db[m] # None => Running(m)) => (db'[m] # None => Running(m)')
  BY <1>6, <1>7
<1> QED
  BY <1>1, <1>4, <1>7, <1>8, <1>9, LifeKept

\* set_http_address keeps it.
LEMMA SetHttpLife ==
  ASSUME Sound, Life, NEW c \in Tasks, SetHttpAddress(c) \/ SetHttpFails(c), Good' => Good
  PROVE  Life'
<1>1. PICK f \in Entering(c, {"set_http"}) :
        /\ workers[f.name] # None /\ \E a \in {f.arg, None} : workers' = WithHttp(f.name, a)
        /\ db' = db \/ db' = HttpRow(f.name, f.arg)
        /\ \E b \in BOOLEAN : Return(c, b)
        /\ boot' = boot
  BY DEF SetHttpAddress, SetHttpFails, diskVars
<1>2. /\ f.name \in Names /\ f.arg \in Addrs \cup {None}
      /\ Mem /\ Serving /\ stack[c] = <<>> /\ Acts(c)
  <2>1. f.op \in {"set_http"} /\ (f.op = "set_http" => f.arg \in Addrs \cup {None}) /\ f.name \in Names
    BY Entered
  <2> QED
    BY <2>1, RequestServes DEF Launches, Sound, Base
<1>3. \A n : ~AtInsert(c, n)
  BY <1>2 DEF AtInsert, At
<1>4. PICK n \in Names : n = f.name
  BY <1>2
<1>5. \A m \in Names : workers[m] # None => workers'[m] # None
  <2>1. PICK a \in {f.arg, None} : workers' = WithHttp(n, a)
    BY <1>1, <1>4
  <2>2. a \in Addrs \cup {None}
    BY <1>2
  <2> QED
    BY <1>1, <1>2, <1>4, <2>1, <2>2, HttpSet
<1>6. \A m \in Names : Running(m)' => Running(m)
  <2>1. CASE db' = db
    BY <2>1 DEF Running, ListRows, GetRow
  <2>2. CASE db' = HttpRow(n, f.arg)
    <3>1. \A m \in Names : db'[m] # None => db[m] # None /\ db'[m].status = db[m].status
      BY <1>2, <2>2, HttpRowSet
    <3> QED
      BY <3>1 DEF Running, ListRows, GetRow
  <2> QED
    BY <1>1, <1>4, <2>1, <2>2
<1>7. GoesOn(c)
  BY <1>1, <1>2, ServingReturns
<1> QED
  BY <1>1, <1>2, <1>3, <1>5, <1>6, <1>7, LifeKept

\* The requests for callbacks keep it, up to the database ..
LEMMA CallbackRowLife ==
  ASSUME Sound, Life, NEW c \in Tasks, SaveCallback(c) \/ ForgetCallback(c), Good' => Good
  PROVE  Life'
<1>1. PICK op \in {{"add_callback"}, {"delete_callback"}} : \E f \in Entering(c, op) :
        /\ Become(c, [f EXCEPT !.pc = "worker"])
        /\ UNCHANGED <<workers, db, boot>>
  BY DEF SaveCallback, ForgetCallback, memVars
<1>2. PICK f \in Entering(c, op) :
        /\ Become(c, [f EXCEPT !.pc = "worker"])
        /\ UNCHANGED <<workers, db, boot>>
  BY <1>1
<1>3. PICK q \in Pcs : q = "worker"
  BY DEF Pcs, Past
<1>4. PICK g \in Calls : TurnsTo(c, g) /\ g.pc = q /\ g.op = f.op
  <2>1. Become(c, [f EXCEPT !.pc = q])
    BY <1>2, <1>3
  <2> QED
    BY <2>1, EnterTurn
<1>5. /\ Serving /\ stack[c] = <<>> /\ Acts(c) /\ f.op # "boot"
      /\ \A n : ~AtInsert(c, n)
  <2>1. op \cap (Launches \cup {"boot"}) = {} /\ "boot" \notin op
    BY DEF Launches
  <2> QED
    BY <2>1, RequestServes, Entered DEF AtInsert, At
<1>6. GoesOn(c)
  BY <1>3, <1>4, <1>5 DEF GoesOn
<1> QED
  BY <1>2, <1>5, <1>6, CalmLife

\* .. and at the workers.
LEMMA ToldCallbackLife ==
  ASSUME Sound, Life, NEW c \in Tasks, AddCallback(c) \/ DeleteCallback(c), Good' => Good
  PROVE  Life'
<1>1. UNCHANGED <<db, boot>> /\ Return(c, TRUE)
  BY DEF AddCallback, DeleteCallback, diskVars
<1>2. PICK op \in {{"add_callback"}, {"delete_callback"}} : At(c, op, "worker")
  BY DEF AddCallback, DeleteCallback
<1>3. Serving /\ Acts(c) /\ \A n : ~AtInsert(c, n)
  <2>1. op \cap (Launches \cup {"boot"}) = {}
    BY DEF Launches
  <2> QED
    BY <2>1, <1>2, OtherActs, NotInsert DEF Acts
<1>4. \A m \in Names : workers'[m] = None <=> workers[m] = None
  BY AddCallbackStays, DeleteCallbackStays DEF Stays
<1>5. \A m \in Names : Running(m)' <=> Running(m)
  BY <1>1 DEF Running, ListRows, GetRow
<1>6. GoesOn(c)
  BY <1>1, <1>3, ServingReturns
<1> QED
  BY <1>1, <1>3, <1>4, <1>5, <1>6, LifeKept

\* The stop of an update keeps it, ..
LEMMA UpdateStopLife ==
  ASSUME Sound, Life, UpdateStop, Good' => Good PROVE Life'
<1>1. At(Daemon, {"update"}, "stop") /\ Daemon \in Tasks
  BY DEF UpdateStop, Tasks
<1>2. PICK n \in Names : n = Subject(Daemon)
  BY <1>1, TopFrame
<1>3. /\ stack[Daemon] # <<>> /\ Top(Daemon) \in Calls /\ n = Top(Daemon).name
      /\ Top(Daemon).op = "update" /\ CallOK(Daemon, Top(Daemon))
  BY <1>1, <1>2, TopFrame
<1>4. PICK f : f = StartFrame(n, Top(Daemon).arg, Top(Daemon).path, 1)
  OBVIOUS
<1>5. /\ TakeOut(n) /\ db' = StoppedRow(n) /\ boot' = boot
      /\ Call(Daemon, f, "started") /\ Mem /\ Stacks
  BY <1>2, <1>4 DEF UpdateStop, Sound, Base
<1>6. f \in Calls /\ f.op = "start" /\ f.name = n /\ f.pc = "begin"
  BY <1>1, <1>3, <1>4, UpdateFrame DEF Versions
<1>7. PICK g \in Calls : g = [Top(Daemon) EXCEPT !.pc = "started"]
  BY <1>3, Parts DEF Pcs
<1>8. g.arg = Top(Daemon).arg /\ g.pc = "started"
  BY <1>3, <1>7, Parts DEF Pcs
<1>9. Makes(Daemon, f, g)
  BY <1>1, <1>3, <1>5, <1>6, <1>7, MakesOf DEF Pcs, Launches
<1>10. Serving /\ Acts(Daemon) /\ \A m : ~AtInsert(Daemon, m)
  BY <1>1, OtherActs, NotInsert DEF Launches, Acts
<1>11. GoesOn(Daemon)
  BY <1>6, <1>8, <1>9, <1>10 DEF GoesOn
<1>12. /\ \A m \in Names : Running(m)' => Running(m)
       /\ \A m \in Names : Running(m)' /\ workers[m] # None => workers'[m] # None
  BY <1>5, TakenLife
<1> QED
  BY <1>1, <1>5, <1>10, <1>11, <1>12, LifeKept

\* .. as does what follows its start, ..
LEMMA UpdateStartedLife ==
  ASSUME Sound, Life, UpdateStarted, Good' => Good PROVE Life'
<1>1. At(Daemon, {"update"}, "started") /\ Daemon \in Tasks
  BY DEF UpdateStarted, Tasks
<1>2. PICK n \in Names : n = Subject(Daemon)
  BY <1>1, TopFrame
<1>3. /\ stack[Daemon] # <<>> /\ Top(Daemon) \in Calls /\ n = Top(Daemon).name
      /\ Top(Daemon).op = "update" /\ CallOK(Daemon, Top(Daemon)) /\ Stacks
  BY <1>1, <1>2, TopFrame
<1>4. UNCHANGED <<workers, db, boot>>
  BY DEF UpdateStarted, memVars, diskVars
<1>5. Serving /\ Acts(Daemon) /\ \A m : ~AtInsert(Daemon, m)
  BY <1>1, OtherActs, NotInsert DEF Launches, Acts
<1>6. CASE Top(Daemon).ok
  <2>1. PICK b \in BOOLEAN : Return(Daemon, b)
    BY <1>6 DEF UpdateStarted
  <2>2. GoesOn(Daemon)
    BY <1>1, <1>5, <2>1, ServingReturns
  <2> QED
    BY <1>1, <1>4, <1>5, <2>2, CalmLife
<1>7. CASE ~Top(Daemon).ok
  <2>1. PICK f : f = StartFrame(n, Top(Daemon).arg, Top(Daemon).path, 0)
    OBVIOUS
  <2>2. Call(Daemon, f, "rolled_back")
    BY <1>2, <1>3, <1>7, <2>1 DEF UpdateStarted
  <2>3. f \in Calls /\ f.op = "start" /\ f.pc = "begin"
    BY <1>1, <1>3, <2>1, UpdateFrame DEF Versions
  <2>4. PICK g \in Calls : g = [Top(Daemon) EXCEPT !.pc = "rolled_back"]
    BY <1>3, Parts DEF Pcs
  <2>5. g.arg = Top(Daemon).arg /\ g.pc = "rolled_back"
    BY <1>3, <2>4, Parts DEF Pcs
  <2>6. Makes(Daemon, f, g)
    BY <1>1, <1>3, <2>2, <2>3, <2>4, MakesOf DEF Pcs, Launches
  <2>7. GoesOn(Daemon)
    BY <1>5, <2>3, <2>5, <2>6 DEF GoesOn
  <2> QED
    BY <1>1, <1>4, <1>5, <2>7, CalmLife
<1> QED
  BY <1>6, <1>7

\* .. and the end of a rollback.
LEMMA UpdateRolledBackLife ==
  ASSUME Sound, Life, UpdateRolledBack, Good' => Good PROVE Life'
<1>1. At(Daemon, {"update"}, "rolled_back") /\ Daemon \in Tasks
  BY DEF UpdateRolledBack, Tasks
<1>2. Top(Daemon).ok \in BOOLEAN
  BY <1>1, TopFrame DEF Calls
<1>3. Return(Daemon, Top(Daemon).ok) /\ UNCHANGED <<workers, db, boot>>
  BY DEF UpdateRolledBack, memVars, diskVars
<1>4. Serving /\ Acts(Daemon) /\ \A m : ~AtInsert(Daemon, m)
  BY <1>1, OtherActs, NotInsert DEF Launches, Acts
<1>5. GoesOn(Daemon)
  BY <1>1, <1>2, <1>3, <1>4, ServingReturns
<1> QED
  BY <1>1, <1>3, <1>4, <1>5, CalmLife

\* Finding an update keeps it.
LEMMA FindUpdateLife ==
  ASSUME Sound, Life, FindUpdate, Good' => Good PROVE Life'
<1>1. PICK f \in Calls : TurnsTo(Daemon, f) /\ f.op = "update" /\ f.pc = "stop"
  BY FoundUpdate
<1>2. UNCHANGED <<workers, db, boot>> /\ Daemon \in Tasks /\ stack[Daemon] = <<>>
  BY DEF FindUpdate, memVars, diskVars, Tasks
<1>3. Acts(Daemon) /\ \A m : ~AtInsert(Daemon, m)
  BY <1>2 DEF Acts, Serving, Range, AtInsert, At
<1>4. GoesOn(Daemon)
  BY <1>1, <1>2 DEF GoesOn
<1> QED
  BY <1>2, <1>3, <1>4, CalmLife

\* The daemon's own call at its start is the only one there is.
LEMMA BootAlone ==
  ASSUME Sound, NEW p, At(Daemon, {"boot"}, p)
  PROVE  /\ stack[Daemon] # <<>> /\ Top(Daemon).op = "boot" /\ Top(Daemon).pc = p
         /\ Top(Daemon) \in Calls /\ CallOK(Daemon, Top(Daemon))
         /\ Under(Daemon) = <<>> /\ Range(stack[Daemon]) = {Top(Daemon)} /\ ~Serving
         /\ \A c \in Tasks : \A n : ~AtInsert(c, n)
         /\ \A n : ~Resuming(n)
<1>0. Daemon \in Tasks
  BY DEF Tasks
<1>1. /\ stack[Daemon] # <<>> /\ Top(Daemon).op = "boot" /\ Top(Daemon).pc = p
      /\ Top(Daemon) \in Calls /\ CallOK(Daemon, Top(Daemon))
      /\ Range(stack[Daemon]) = {Top(Daemon)} \cup Range(Under(Daemon))
  BY <1>0, AtCall DEF Sound, Base
<1>2. Under(Daemon) = <<>>
  BY <1>0, <1>1, ChainUnder DEF Link, Launches, Sound, Base
<1>3. Range(stack[Daemon]) = {Top(Daemon)} /\ ~Serving
  BY <1>1, <1>2 DEF Range, Serving
<1>4. \A c \in Clients : stack[c] = <<>>
  BY <1>3 DEF Sound, Base, Booting
<1>5. \A c \in Tasks : \A n : ~AtInsert(c, n)
  BY <1>1, <1>4 DEF Tasks, AtInsert, At, Launches
<1> QED
  BY <1>1, <1>2, <1>3, <1>5 DEF Resuming

\* Resuming a playbook at the daemon's start keeps it: it goes from `todo` to the stack.
LEMMA BootResumeLife ==
  ASSUME Sound, Life, BootResume, Good' => Good PROVE Life'
<1>1. PICK n \in boot.todo, f, g \in Calls :
           /\ n \in Names /\ boot' = [boot EXCEPT !.todo = @ \ {n}]
           /\ Range(stack'[Daemon]) = {f, g} /\ Top(Daemon)' = f
           /\ f.op = "resume" /\ f.pc = "begin" /\ f.name = n
           /\ g.op = "boot" /\ g.pc = "resumed" /\ g.name = n
  BY BootResumes DEF Sound
<1>2. At(Daemon, {"boot"}, "next") /\ UNCHANGED <<workers, db>>
  BY DEF BootResume, memVars, diskVars
<1>3. ~Serving /\ (\A c \in Tasks : \A m : ~AtInsert(c, m)) /\ \A m : ~Resuming(m)
  BY <1>2, BootAlone
<1>4. ~Serving'
  BY <1>1 DEF Serving
<1>5. boot'.todo = boot.todo \ {n} /\ boot'.failed = boot.failed
  BY <1>1 DEF Sound, Base, Mem
<1>6. \A m \in Names : Running(m)' <=> Running(m)
  BY <1>2 DEF Running, ListRows, GetRow
<1>7. Lives'
  <2> SUFFICES ASSUME Good', NEW m \in Names, Running(m)', workers'[m] = None
               PROVE  m \in boot'.todo \/ Resuming(m)'
    BY <1>4 DEF Lives
  <2>1. m \in boot.todo
    BY <1>2, <1>3, <1>6 DEF Life, Lives
  <2>2. m = n => Resuming(m)'
    BY <1>1 DEF Resuming
  <2> QED
    BY <1>5, <2>1, <2>2
<1>8. BootRows'
  <2>1. BootNames' \subseteq BootNames
    BY <1>1, <1>5 DEF BootNames
  <2> QED
    BY <1>2, <1>3, <1>6, <2>1 DEF Life, BootRows
<1>9. BootTop'
  BY <1>1 DEF BootTop, StartsWell
<1> QED
  BY <1>7, <1>8, <1>9 DEF Life

\* Coming back from that keeps it.
LEMMA BootResumedLife ==
  ASSUME Sound, Life, BootResumed, Good' => Good PROVE Life'
<1>1. At(Daemon, {"boot"}, "resumed") /\ Daemon \in Tasks /\ Become(Daemon, BootFrame)
  BY DEF BootResumed, Tasks
<1>2. /\ Top(Daemon).op = "boot" /\ Top(Daemon).pc = "resumed" /\ Top(Daemon).name \in Names
      /\ Under(Daemon) = <<>> /\ Range(stack[Daemon]) = {Top(Daemon)} /\ ~Serving
      /\ (\A c \in Tasks : \A m : ~AtInsert(c, m)) /\ \A m : ~Resuming(m)
  BY <1>1, BootAlone DEF CallOK
<1>3. PICK f \in Calls : f = BootFrame /\ f.op = "boot" /\ f.pc = "next"
  BY BootFrameOK
<1>4. TurnsTo(Daemon, f)
  BY <1>1, <1>3, TopFrame, TurnsOf DEF Launches
<1>5. /\ Range(stack'[Daemon]) = {f} /\ Top(Daemon)' = f
  <2>1. Range(stack'[Daemon]) = {f} \cup Range(Under(Daemon)) /\ Top(Daemon)' = f
    BY <1>1, <1>4, TurnsRange DEF Sound, Base
  <2> QED
    BY <1>2, <2>1 DEF Range
<1>6. /\ UNCHANGED <<workers, db>> /\ Mem
      /\ boot' = IF Top(Daemon).ok THEN [boot EXCEPT !.won = TRUE]
                 ELSE [boot EXCEPT !.failed = @ \cup {Top(Daemon).name}]
  BY DEF BootResumed, memVars, diskVars, Sound, Base
<1>7. boot'.todo = boot.todo /\ boot'.failed \subseteq boot.failed \cup {Top(Daemon).name}
  BY <1>6 DEF Mem
<1>8. \A m \in Names : Running(m)' <=> Running(m)
  BY <1>6 DEF Running, ListRows, GetRow
<1>9. ~Serving'
  BY <1>3, <1>5 DEF Serving
<1>10. Lives'
  BY <1>2, <1>6, <1>7, <1>8, <1>9 DEF Life, Lives
<1>11. BootRows'
  <2>1. BootNames' \subseteq BootNames
    <3>1. Resumed(Top(Daemon)) /\ Top(Daemon) \in Range(stack[Daemon])
      BY <1>2 DEF Resumed
    <3>2. ~Resumed(f)
      BY <1>3 DEF Resumed
    <3> QED
      BY <1>5, <1>7, <3>1, <3>2 DEF BootNames
  <2> QED
    BY <1>2, <1>6, <1>8, <2>1 DEF Life, BootRows
<1>12. BootTop'
  BY <1>3, <1>5 DEF BootTop, StartsWell
<1> QED
  BY <1>10, <1>11, <1>12 DEF Life

\* The end of a pass keeps it, and so does the end of the start: all that runs has a worker then.
LEMMA BootPassLife ==
  ASSUME Sound, Life, BootPass, Good' => Good PROVE Life'
<1>1. At(Daemon, {"boot"}, "next") /\ Daemon \in Tasks /\ boot.todo = {} /\ Mem
      /\ UNCHANGED <<workers, db>>
      /\ boot' = [todo |-> IF boot.won THEN boot.failed ELSE {}, failed |-> {}, won |-> FALSE]
  BY DEF BootPass, memVars, diskVars, Tasks, Sound, Base
<1>2. /\ Under(Daemon) = <<>> /\ Range(stack[Daemon]) = {Top(Daemon)} /\ ~Serving
      /\ (\A c \in Tasks : \A m : ~AtInsert(c, m)) /\ \A m : ~Resuming(m)
  BY <1>1, BootAlone
<1>3. boot'.todo \subseteq boot.failed /\ boot'.failed = {}
  BY <1>1
<1>4. \A m \in Names : Running(m)' <=> Running(m)
  BY <1>1 DEF Running, ListRows, GetRow
<1>5. Lives'
  BY <1>1, <1>2, <1>4 DEF Life, Lives
<1>6. CASE stack' = stack
  <2>1. BootNames' \subseteq BootNames
    BY <1>3, <1>6 DEF BootNames
  <2>2. BootRows'
    BY <1>1, <1>2, <1>4, <2>1 DEF Life, BootRows
  <2>3. BootTop'
    BY <1>1, <1>2, <1>6 DEF Life, BootTop, StartsWell, Top
  <2> QED
    BY <1>5, <2>2, <2>3 DEF Life
<1>7. CASE Return(Daemon, TRUE)
  <2>1. stack'[Daemon] = <<>>
    BY <1>1, <1>2, <1>7, EndsOf DEF Ends, Sound, Base
  <2>2. Serving'
    BY <2>1 DEF Serving, Range
  <2> QED
    BY <1>5, <2>2 DEF Life, BootRows, BootTop
<1> QED
  BY <1>6, <1>7 DEF BootPass

\* An end of the daemon keeps it: every row that says running is in `todo`.
LEMMA CrashLife ==
  ASSUME Sound, Life, Crash PROVE Life'
<1>1. /\ Range(stack'[Daemon]) = {BootFrame} /\ Top(Daemon)' = BootFrame
      /\ \A n \in Names : workers'[n] = None
  BY CrashBase DEF Sound
<1>2. /\ UNCHANGED db
      /\ boot' = [todo |-> {n \in ListRows : Running(n)}, failed |-> {}, won |-> FALSE]
  BY DEF Crash, diskVars
<1>3. PICK f \in Calls : f = BootFrame /\ f.op = "boot" /\ f.pc = "next"
  BY BootFrameOK
<1>4. \A m \in Names : Running(m)' <=> Running(m)
  BY <1>2 DEF Running, ListRows, GetRow
<1>5. boot'.todo = {n \in ListRows : Running(n)} /\ boot'.failed = {}
  BY <1>2
<1>6. ~Serving'
  BY <1>1, <1>3 DEF Serving
<1>7. Lives'
  BY <1>4, <1>5, <1>6 DEF Lives, Running
<1>8. BootRows'
  <2>1. BootNames' = boot'.todo
    BY <1>1, <1>3, <1>5 DEF BootNames, Resumed
  <2> QED
    BY <1>4, <1>5, <2>1 DEF BootRows
<1>9. BootTop'
  BY <1>1, <1>3 DEF BootTop, StartsWell
<1> QED
  BY <1>7, <1>8, <1>9 DEF Life

\* A step that leaves the variables it speaks of keeps it.
LEMMA StillLife ==
  ASSUME Life, UNCHANGED <<stack, workers, db, boot>>, Good' => Good PROVE Life'
<1>1. \A m \in Names : Running(m)' <=> Running(m)
  BY DEF Running, ListRows, GetRow
<1>2. (\A c \in Tasks : \A m : AtInsert(c, m)' <=> AtInsert(c, m)) /\ (Serving' <=> Serving)
      /\ (\A m : Resuming(m)' <=> Resuming(m)) /\ BootNames' = BootNames /\ Top(Daemon)' = Top(Daemon)
  BY DEF AtInsert, At, Subject, Top, Serving, Resuming, BootNames
<1>3. Lives'
  BY <1>1, <1>2 DEF Life, Lives
<1>4. BootRows'
  BY <1>1, <1>2 DEF Life, BootRows
<1>5. BootTop'
  BY <1>2 DEF Life, BootTop, StartsWell
<1> QED
  BY <1>3, <1>4, <1>5 DEF Life

\* Life holds at first, ..
LEMMA InitLife == Init => Life
<1> SUFFICES ASSUME Init PROVE Life
  OBVIOUS
<1>1. Serving /\ \A m \in Names : ~Running(m)
  BY DEF Init, Serving, Range, Tasks, Running, ListRows
<1> QED
  BY <1>1 DEF Life, Lives, BootRows, BootTop

\* .. and after every step.
LEMMA StepLife == ASSUME Sound, Vers, Apart, Life, [Next]_vars PROVE Life'
<1>0. Good' => Good
  BY GoodBefore
<1>1. ASSUME NEW c \in Tasks, StartStep(c) \/ ResumeStep(c) PROVE Life'
  BY <1>0, <1>1, StartGetRowLife, MakeDirsLife, SavePlaybookLife, InsertLife, ResumeGetRowLife,
     ResumeStatusLife, ResumeConflictLife DEF StartStep, ResumeStep
<1>2. ASSUME NEW c \in Tasks, WorkerStep(c) PROVE Life'
  BY <1>0, <1>2, CheckNotRunningLife, FindInterconnectLife, InterconnectStartedLife,
     StartWorkerLife, LoadFailsLife, ListenFailsLife, RegisterCallbacksLife DEF WorkerStep
<1>3. ASSUME NEW c \in Tasks, ChangeStep(c) PROVE Life'
  BY <1>0, <1>3, StopPlaybookLife, DeletePlaybookLife, RemoveDirLife, SetHttpLife,
     CallbackRowLife, ToldCallbackLife DEF ChangeStep
<1>4. ASSUME DaemonStep PROVE Life'
  BY <1>0, <1>4, UpdateStopLife, UpdateStartedLife, UpdateRolledBackLife, BootResumeLife,
     BootResumedLife, BootPassLife DEF DaemonStep
<1>5. CASE FindUpdate
  BY <1>0, <1>5, FindUpdateLife
<1>6. CASE Crash
  BY <1>6, CrashLife
<1>7. CASE ListUpdates \/ UNCHANGED vars
  <2>1. UNCHANGED <<stack, workers, db, boot>>
    BY <1>7, Waited DEF Waiting, memVars, diskVars
  <2> QED
    BY <1>0, <2>1, StillLife
<1> QED
  BY <1>1, <1>2, <1>3, <1>4, <1>5, <1>6, <1>7 DEF Next, TaskStep, Idle

-----------------------------------------------------------------------------
(* Playbooks that run have addresses of their own, and the answers hold *)

\* Once the daemon serves, and nothing went wrong, a row that says running has its address
\* with a worker: one in the map, or one about to be.
LEMMA RowHeard ==
  ASSUME Sound, Lives, Good, Serving, NEW k \in Names, Running(k), db[k].http # None
  PROVE  \/ MapHttp(k) = db[k].http
         \/ \E c \in Tasks : CallHttp(c) = db[k].http /\ Subject(c) = k
<1>1. CASE workers[k] # None
  <2>1. Reachable(k)
    BY DEF Good, Sound, Answers, AnswerOK
  <2> QED
    BY <1>1, <2>1 DEF Reachable, Good, MapHttp
<1>2. CASE \E c \in Tasks : AtInsert(c, k)
  <2>1. PICK c \in Tasks : At(c, Launches, "insert") /\ Subject(c) = k
    BY <1>2 DEF AtInsert
  <2>2. /\ stack[c] # <<>> /\ CallOK(c, Top(c)) /\ FrameOK(Top(c))
        /\ Top(c).op \in Launches /\ Top(c).pc = "insert" /\ Top(c).name = k
    BY <2>1, TopFrame
  <2>3. k \notin Endless
    BY <2>2 DEF FrameOK, Built
  <2>4. Matches(Top(c).worker, Top(c)) /\ Matches(db[k], Top(c))
    BY <2>2, <2>3 DEF FrameOK, Built, Good
  <2>5. Top(c).worker # None
    BY <2>2, NoneAssumption DEF CallOK, Built
  <2> QED
    BY <2>1, <2>2, <2>4, <2>5 DEF Matches, CallHttp
<1> QED
  BY <1>1, <1>2 DEF Lives

\* So no two of them have one address.
LEMMA ServesApart == Sound /\ Https /\ Lives /\ Serving => Apart
<1> SUFFICES ASSUME Sound, Https, Lives, Serving, Good, NEW n \in Names, NEW m \in Names,
                    Running(n), Running(m), db[n].http = db[m].http, db[n].http # None
             PROVE  n = m
  BY DEF Apart
<1>1. \/ MapHttp(n) = db[n].http
      \/ \E c \in Tasks : CallHttp(c) = db[n].http /\ Subject(c) = n
  BY RowHeard
<1>2. \/ MapHttp(m) = db[n].http
      \/ \E c \in Tasks : CallHttp(c) = db[n].http /\ Subject(c) = m
  BY RowHeard
<1> QED
  BY <1>1, <1>2 DEF Https

\* The same after a step
LEMMA ServesApartNext == Sound' /\ Https' /\ Lives' /\ Serving' => Apart'
  BY ServesApart, PTL

\* Until it serves, no row comes to say running, or is given an address.
RowsCalm == \A n \in Names : Running(n)' /\ db'[n].http # None => Running(n) /\ db'[n].http = db[n].http

\* A call that writes its row before the daemon serves is the daemon's.
LEMMA DaemonRecords ==
  ASSUME Sound, NEW c \in Tasks, NEW op, At(c, op, "record"), op \subseteq Launches,
         Goto(c, "insert"), ~Serving'
  PROVE  /\ ~Serving /\ c = Daemon /\ stack[c] # <<>> /\ Top(c).op \in op
         /\ Top(c) \in Range(stack[Daemon]) /\ Subject(c) \in Names /\ Subject(c) = Top(c).name
<1>1. PICK q \in Pcs : q = "insert"
  BY DEF Pcs, Past, Built
<1>2. PICK f : TurnsTo(c, f)
  BY <1>1, GotoTurn
<1>3. /\ stack[c] # <<>> /\ Top(c).op \in op /\ Top(c).op \in Launches
      /\ Subject(c) = Top(c).name /\ Stacks /\ (Top(c).op # "boot" => Subject(c) \in Names)
  BY TopFrame
<1>4. ~Serving
  BY <1>2, <1>3, ServingKept DEF Launches
<1>5. c = Daemon /\ Top(c) \in Range(stack[c])
  BY <1>3, <1>4, OnlyDaemon, Peek
<1> QED
  BY <1>3, <1>4, <1>5 DEF Launches

\* A start that the daemon makes then has no address, ..
LEMMA SaveRowsCalm ==
  ASSUME Sound, Life, Good, NEW c \in Tasks, SavePlaybook(c), ~Serving' PROVE RowsCalm
<1>1. At(c, {"start"}, "record") /\ Goto(c, "insert") /\ Mem
  BY DEF SavePlaybook, Sound, Base
<1>2. /\ ~Serving /\ c = Daemon /\ stack[c] # <<>> /\ Top(c).op = "start"
      /\ Top(c) \in Range(stack[Daemon]) /\ Subject(c) \in Names
  BY <1>1, DaemonRecords DEF Launches
<1>3. PICK n \in Names : n = Subject(c)
  BY <1>2
<1>4. Top(c).arg = None
  BY <1>2 DEF Life, BootTop
<1>5. db' = [db EXCEPT ![n] = [status |-> "running", http |-> Top(c).arg,
                               path |-> Top(c).path, ver |-> Top(c).ver]]
  BY <1>3 DEF SavePlaybook, SaveRow
<1>6. db'[n].http = None /\ \A m \in Names \ {n} : db'[m] = db[m]
  BY <1>1, <1>4, <1>5 DEF Mem
<1> QED
  BY <1>6 DEF RowsCalm, Running, ListRows, GetRow

\* .. and what it resumes says running already.
LEMMA StatusRowsCalm ==
  ASSUME Sound, Life, NEW c \in Tasks, ResumeStatus(c), ~Serving' PROVE RowsCalm
<1>1. At(c, {"resume"}, "record") /\ Goto(c, "insert") /\ Mem
  BY DEF ResumeStatus, Sound, Base
<1>2. /\ ~Serving /\ c = Daemon /\ stack[c] # <<>> /\ Top(c).op = "resume"
      /\ Top(c) \in Range(stack[Daemon]) /\ Subject(c) \in Names /\ Subject(c) = Top(c).name
  BY <1>1, DaemonRecords DEF Launches
<1>3. PICK n \in Names : n = Subject(c)
  BY <1>2
<1>4. n \in BootNames
  BY <1>2, <1>3 DEF BootNames, Resumed
<1>5. db[n] # None => Running(n)
  BY <1>2, <1>4 DEF Life, BootRows
<1>6. db' = WithStatus(n, "running")
  BY <1>3 DEF ResumeStatus
<1>7. /\ \A m \in Names \ {n} : db'[m] = db[m]
      /\ db[n] = None => db'[n] = None
      /\ db[n] # None => db'[n].http = db[n].http
  BY <1>1, <1>6, StatusRow
<1> QED
  BY <1>5, <1>7 DEF RowsCalm, Running, ListRows, GetRow

\* A playbook that is stopped does not come to run, ..
LEMMA StopRowsCalm ==
  ASSUME Mem, NEW n \in Names, TakeOut(n), db' = StoppedRow(n) PROVE RowsCalm
<1>1. /\ \A m \in Names \ {n} : db'[m] = db[m]
      /\ workers[n] = None => db' = db
      /\ workers[n] # None => (db'[n] # None => db'[n].status = "stopped")
  BY TakenOut
<1> QED
  BY <1>1 DEF RowsCalm, Running, ListRows, GetRow

\* .. nor does one that is deleted, ..
LEMMA DeleteRowsCalm ==
  ASSUME Sound, NEW c \in Tasks, DeletePlaybook(c) PROVE RowsCalm
<1>1. PICK n : DeleteRow(n)
  BY DEF DeletePlaybook
<1>2. \A m \in Names : db'[m] = None \/ db'[m] = db[m]
  BY <1>1 DEF DeleteRow, Sound, Base, Mem
<1> QED
  BY <1>2 DEF RowsCalm, Running, ListRows, GetRow

\* .. and addresses are set while the daemon serves.
LEMMA SetHttpServes ==
  ASSUME Sound, NEW c \in Tasks, SetHttpAddress(c) PROVE Serving'
<1>1. PICK f \in Entering(c, {"set_http"}) : Return(c, TRUE)
  BY DEF SetHttpAddress
<1>2. Serving /\ Stacks
  BY <1>1, RequestServes DEF Launches, Sound, Base
<1>3. Ends(c, TRUE)
  BY <1>1, <1>2, EndsOf
<1> QED
  BY <1>2, <1>3, ServingKept

\* So every step keeps RowsCalm until the daemon serves.
LEMMA RowsKept ==
  ASSUME Sound, Life, Good, [Next]_vars, ~Serving' PROVE RowsCalm
<1>0. db' = db => RowsCalm
  BY DEF RowsCalm, Running, ListRows, GetRow
<1>1. ASSUME NEW c \in Tasks, StartStep(c) \/ ResumeStep(c) PROVE RowsCalm
  <2>1. CASE SavePlaybook(c)
    BY <2>1, SaveRowsCalm
  <2>2. CASE ResumeStatus(c)
    BY <2>2, StatusRowsCalm
  <2>3. ASSUME ~SavePlaybook(c), ~ResumeStatus(c) PROVE db' = db
    BY <1>1, <2>3 DEF StartStep, ResumeStep, StartGetRow, MakeDirs, StartInsert, ResumeGetRow,
       ResumeInsert, ResumeConflict, diskVars
  <2> QED
    BY <1>0, <2>1, <2>2, <2>3
<1>2. ASSUME NEW c \in Tasks, WorkerStep(c) PROVE db' = db
  BY <1>2 DEF WorkerStep, CheckNotRunning, FindInterconnect, InterconnectStarted, StartWorker,
     LoadFails, ListenFails, RegisterCallbacks, diskVars
<1>3. ASSUME NEW c \in Tasks, ChangeStep(c) PROVE RowsCalm
  <2>1. CASE StopPlaybook(c)
    <3>1. PICK f \in Entering(c, {"stop"}) : TakeOut(f.name) /\ db' = StoppedRow(f.name)
      BY <2>1 DEF StopPlaybook
    <3>2. f.name \in Names /\ Mem
      BY Entered DEF Sound, Base
    <3> QED
      BY <3>1, <3>2, StopRowsCalm
  <2>2. CASE DeletePlaybook(c)
    BY <2>2, DeleteRowsCalm
  <2>3. CASE SetHttpAddress(c)
    BY <2>3, SetHttpServes
  <2>4. ASSUME ~StopPlaybook(c), ~DeletePlaybook(c), ~SetHttpAddress(c) PROVE db' = db
    BY <1>3, <2>4 DEF ChangeStep, RemoveDir, SetHttpFails, SaveCallback, AddCallback,
       ForgetCallback, DeleteCallback, diskVars
  <2> QED
    BY <1>0, <2>1, <2>2, <2>3, <2>4
<1>4. ASSUME DaemonStep PROVE RowsCalm
  <2>1. CASE UpdateStop
    <3>1. At(Daemon, {"update"}, "stop") /\ Daemon \in Tasks
      BY <2>1 DEF UpdateStop, Tasks
    <3>2. PICK n \in Names : n = Subject(Daemon)
      BY <3>1, TopFrame
    <3>3. TakeOut(n) /\ db' = StoppedRow(n) /\ Mem
      BY <2>1, <3>2 DEF UpdateStop, Sound, Base
    <3> QED
      BY <3>3, StopRowsCalm
  <2>2. ASSUME ~UpdateStop PROVE db' = db
    BY <1>4, <2>2 DEF DaemonStep, UpdateStarted, UpdateRolledBack, BootResume, BootResumed,
       BootPass, diskVars
  <2> QED
    BY <1>0, <2>1, <2>2
<1>5. ASSUME ListUpdates \/ FindUpdate \/ Crash \/ UNCHANGED vars PROVE db' = db
  BY <1>5 DEF ListUpdates, FindUpdate, Crash, vars, diskVars
<1> QED
  BY <1>0, <1>1, <1>2, <1>3, <1>4, <1>5 DEF Next, TaskStep, Idle

\* Apart holds at first, ..
LEMMA InitApart == Init => Apart
  BY DEF Init, Apart, Running, ListRows

\* .. and after every step.
LEMMA StepApart ==
  ASSUME Sound, Vers, Https, Apart, Life, [Next]_vars PROVE Apart'
<1>1. Sound' /\ Https' /\ Lives'
  BY StepSound, StepVers, StepLife DEF Life
<1>2. CASE Serving'
  BY <1>1, <1>2, ServesApartNext
<1>3. ASSUME ~Serving' PROVE Apart'
  <2>1. ASSUME Good' PROVE Good /\ RowsCalm
    BY <1>3, <2>1, GoodBefore, RowsKept
  <2> QED
    BY <2>1 DEF Apart, RowsCalm
<1> QED
  BY <1>2, <1>3

-----------------------------------------------------------------------------
(* The answers of a playbook no task works on *)

\* What Sound and Life say of a playbook that no task works on
LEMMA SettledAnswers ==
  ASSUME Sound, Life, NEW n \in Names, Settled(n)
  PROVE  /\ AnswerOK(n) /\ n \notin raced /\ Serving
         /\ Good /\ Running(n) => workers[n] # None
<1>1. AnswerOK(n) /\ n \notin raced /\ Serving
  BY DEF Sound, Answers, Settled
<1>2. \A c \in Tasks : ~AtInsert(c, n)
  <2> SUFFICES ASSUME NEW c \in Tasks, AtInsert(c, n) PROVE Busy(n)
    BY DEF Settled
  <2>1. /\ stack[c] # <<>> /\ Top(c).pc = "insert" /\ Top(c).name = n
        /\ Stacks
    BY TopFrame DEF AtInsert
  <2>2. Top(c) \in Range(stack[c])
    BY <2>1, Peek
  <2>3. Top(c) \in Begun(c)
    BY <2>1, <2>2 DEF Begun
  <2> QED
    BY <2>1, <2>3 DEF Busy
<1> QED
  BY <1>1, <1>2 DEF Life, Lives

\* The three parts of AnswersHold follow.
LEMMA AnswersFollow ==
  ASSUME Sound, Life PROVE StartedPlaybookRuns /\ WorkerIsReachable /\ StoppedStaysStopped
<1>1. StartedPlaybookRuns
  <2> SUFFICES ASSUME NEW n \in Names, Settled(n), wanted[n] = "run"
               PROVE  /\ Running(n) /\ n \in dir
                      /\ Good => n \in DOMAIN ListPlaybooks
    BY DEF StartedPlaybookRuns, Good
  <2>1. /\ AnswerOK(n) /\ n \notin raced /\ (Good /\ Running(n) => workers[n] # None)
    BY SettledAnswers
  <2>2. Running(n) /\ n \in dir
    BY <2>1 DEF AnswerOK, Running, ListRows
  <2> QED
    BY <2>1, <2>2 DEF ListPlaybooks
<1>2. WorkerIsReachable
  <2> SUFFICES ASSUME NEW n \in Names, Settled(n), workers[n] # None
               PROVE  /\ Running(n) /\ workers[n].ver = db[n].ver
                      /\ ListPlaybooks[n].http \in {None, db[n].http}
                      /\ ListPlaybooks[n].path = db[n].path
                      /\ workers[n].path => sock[n] = workers[n].id
    BY DEF WorkerIsReachable
  <2>1. Reachable(n)
    BY SettledAnswers DEF AnswerOK
  <2>2. ListPlaybooks[n] = [http |-> workers[n].http, path |-> workers[n].path]
    BY DEF ListPlaybooks
  <2> QED
    BY <2>1, <2>2 DEF Reachable
<1>3. StoppedStaysStopped
  <2> SUFFICES ASSUME NEW n \in Names, Settled(n)
               PROVE  /\ wanted[n] = "stop" => n \notin DOMAIN ListPlaybooks /\ ~Running(n) /\ n \in dir
                      /\ wanted[n] = "gone" => n \notin DOMAIN ListPlaybooks /\ db[n] = None /\ n \notin dir
    BY DEF StoppedStaysStopped
  <2>1. AnswerOK(n) /\ n \notin raced
    BY SettledAnswers
  <2> QED
    BY <2>1 DEF AnswerOK, ListPlaybooks
<1> QED
  BY <1>1, <1>2, <1>3

\* How the last start, stop or delete of a playbook ended holds until its next one: what was
\* started runs, with a worker that can be reached, and what was stopped or deleted stays so, when
\* the daemon ends and starts again, and whatever is done to other playbooks, too.
THEOREM AnswersStand == Spec => []AnswersHold
<1> DEFINE AInv == Sound /\ Vers /\ Https /\ Apart /\ Life
<1>1. Init => AInv
  BY InitSound, InitVers, InitApart, InitLife
<1>2. AInv /\ [Next]_vars => AInv'
  BY StepSound, StepVers, StepApart, StepLife
<1>3. AInv => StartedPlaybookRuns /\ WorkerIsReachable /\ StoppedStaysStopped
  BY AnswersFollow
<1>4. Spec => []TypeOK
  BY TypeCorrect
<1> HIDE DEF AInv
<1>5. Spec => []AInv
  BY <1>1, <1>2, PTL DEF Spec
<1>6. Spec => [](StartedPlaybookRuns /\ WorkerIsReachable /\ StoppedStaysStopped)
  BY <1>3, <1>5, PTL
<1> QED
  BY <1>4, <1>6, PTL DEF AnswersHold

=============================================================================
