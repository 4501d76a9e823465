-------------------------- MODULE PyroSocketProofs --------------------------
(***************************************************************************)
(* Proofs about PyroSocket, for any number of calls of any kind, any       *)
(* number of ids and rows, and whatever is cut or dropped when.            *)
(*                                                                         *)
(* A caller receives its own frames only because an id is given to one     *)
(* call (IdsDiffer), only that call is registered under it (Registered),   *)
(* and every frame that is anywhere on its way carries the id of the call  *)
(* it is of, or none (InFlight, Handlers).                                 *)
(*                                                                         *)
(* That the connection implements RemoteCalls, one reliable ordered        *)
(* channel per call, needs more: that a call is registered exactly as long *)
(* as it is open (Waits), and that what it received, followed by its       *)
(* frames on the wire and in the queue, is a beginning of what was sent    *)
(* for it (InOrder).                                                       *)
(***************************************************************************)
EXTENDS PyroSocket, SequenceTheorems, TLAPS

\* A call has no id until it starts; then one of those given out.
IdsDiffer ==
    /\ \A c \in Calls : IF call[c].pc = "new" THEN call[c].id = 0
                                              ELSE call[c].id \in 1..(nextId - 1)
    /\ \A c, d \in Calls : call[c].id # 0 /\ call[c].id = call[d].id => c = d

\* Whoever waits for an id is the call that has it.
Registered ==
    \A i \in Ids :
        /\ pending[i] # NoCall => i # 0 /\ call[pending[i]].id = i
        /\ streams[i] # NoCall => i # 0 /\ call[streams[i]].id = i

\* Frames with the id of the call they are of, or with none.
SoundFrames == {f \in Frames : f.mux \in {0, call[f.item.of].id}}

ItemsOf(c) == {i \in Items : i.of = c}

InFlight ==
    \A e \in Ends : /\ tx[e] \in Seq(SoundFrames)
                    /\ wire[e] \in Seq(SoundFrames)
                    /\ unmatched[e] \in Seq(SoundFrames)

Handlers == \A c \in Calls : handler[c].mux \in {0, call[c].id}

Received == \A c \in Calls : call[c].got \in Seq(ItemsOf(c))

IInv == TypeOK /\ IdsDiffer /\ Registered /\ InFlight /\ Handlers /\ Received

-----------------------------------------------------------------------------
USE SocketAssumption

\* A sequence over a set is one over a larger set.
LEMMA SeqMonotone ==
    ASSUME NEW S, NEW T, S \subseteq T, NEW s \in Seq(S)
    PROVE  s \in Seq(T)
OBVIOUS

\* Where no id changes, the frames that are sound stay so.
LEMMA SameIds ==
    ASSUME \A c \in Calls : call'[c].id = call[c].id
    PROVE  SoundFrames' = SoundFrames
BY DEF SoundFrames, Frames, Items

\* The beginning: nothing has an id, nothing is on its way.
LEMMA InitIInv == Init => IInv
<1> SUFFICES ASSUME Init PROVE IInv
  OBVIOUS
<1>1. PICK w \in Workloads :
         call = [c \in Calls |-> [pc |-> "new", kind |-> w[c], id |-> 0, got |-> <<>>]]
  BY DEF Init
<1>2. w \in [Calls -> Kinds]
  OBVIOUS
<1>3. call \in [Calls -> [pc : CallPcs, kind : Kinds, id : Ids, got : Seq(Items)]]
  BY <1>1, <1>2 DEF CallPcs, Ids
<1>4. handler \in [Calls -> [pc : HandlerPcs, mux : Ids, chan : Seq(1..MaxRows),
                             sent : Seq(Items)]]
  BY DEF Init, HandlerPcs, Ids
<1>5. TypeOK
  <2>1. \A c \in Calls : Len(handler[c].chan) <= ChanCap
    BY DEF Init
  <2> QED
    BY <1>3, <1>4, <2>1 DEF Init, TypeOK, Ids
<1>6. IdsDiffer /\ Received
  <2>1. \A c \in Calls : call[c].pc = "new" /\ call[c].id = 0 /\ call[c].got = <<>>
    BY <1>1
  <2>2. IdsDiffer
    BY <2>1 DEF IdsDiffer
  <2>3. ASSUME NEW c \in Calls PROVE call[c].got \in Seq(ItemsOf(c))
    BY <2>1, EmptySeq
  <2> QED
    BY <2>2, <2>3 DEF Received
<1>7. Registered
  BY DEF Init, Registered
<1>8. InFlight
  BY DEF Init, InFlight
<1>9. Handlers
  BY DEF Init, Handlers
<1> QED
  BY <1>5, <1>6, <1>7, <1>8, <1>9 DEF IInv

-----------------------------------------------------------------------------
(* The client *)

\* A call that starts takes an id no call has.
LEMMA StartIInv == ASSUME IInv, NEW c \in Calls, Start(c) PROVE IInv'
<1> DEFINE new == [call[c] EXCEPT !.pc = "registered", !.id = nextId]
<1>1. /\ call \in [Calls -> [pc : CallPcs, kind : Kinds, id : Ids, got : Seq(Items)]]
      /\ nextId \in 1..MaxId /\ nextId < MaxId /\ call[c].pc = "new"
      /\ call' = [call EXCEPT ![c] = new] /\ nextId' = nextId + 1
      /\ pending \in [Ids -> Calls \cup {NoCall}] /\ streams \in [Ids -> Calls \cup {NoCall}]
  BY DEF IInv, TypeOK, Start
<1>2. /\ new \in [pc : CallPcs, kind : Kinds, id : Ids, got : Seq(Items)]
      /\ new.pc = "registered" /\ new.id = nextId /\ new.got = call[c].got
  <2>1. /\ call[c] \in [pc : CallPcs, kind : Kinds, id : Ids, got : Seq(Items)]
        /\ nextId \in Ids /\ "registered" \in CallPcs
    BY <1>1 DEF CallPcs, Ids
  <2> HIDE SocketAssumption
  <2> QED
    BY <2>1
<1>3. /\ call' \in [Calls -> [pc : CallPcs, kind : Kinds, id : Ids, got : Seq(Items)]]
      /\ call'[c] = new /\ \A d \in Calls : d # c => call'[d] = call[d]
  BY <1>1, <1>2
<1> HIDE DEF new
<1>4. call[c].id = 0
  BY <1>1 DEF IInv, IdsDiffer
<1>5. TypeOK'
  <2>1. pending' \in [Ids -> Calls \cup {NoCall}] /\ streams' \in [Ids -> Calls \cup {NoCall}]
    <3>1. /\ pending' = pending \/ pending' = [pending EXCEPT ![nextId] = c]
          /\ streams' = streams \/ streams' = [streams EXCEPT ![nextId] = c]
      BY DEF Start
    <3>2. \A f \in [Ids -> Calls \cup {NoCall}], i \in Ids :
             [f EXCEPT ![i] = c] \in [Ids -> Calls \cup {NoCall}]
      OBVIOUS
    <3>3. nextId \in Ids
      BY <1>1 DEF Ids
    <3>4. /\ [pending EXCEPT ![nextId] = c] \in [Ids -> Calls \cup {NoCall}]
          /\ [streams EXCEPT ![nextId] = c] \in [Ids -> Calls \cup {NoCall}]
      BY <1>1, <3>2, <3>3
    <3>5. pending' \in [Ids -> Calls \cup {NoCall}]
      BY <1>1, <3>1, <3>4, Zenon
    <3>6. streams' \in [Ids -> Calls \cup {NoCall}]
      BY <1>1, <3>1, <3>4, Zenon
    <3> QED
      BY <3>5, <3>6
  <2> QED
    <3>1. nextId' \in 1..MaxId
      BY <1>1, SocketAssumption
    <3>2. UNCHANGED <<held, pipeVars, daemonVars>>
      BY DEF Start
    <3>3. /\ held' \in BOOLEAN /\ running' \in BOOLEAN /\ linked' \in BOOLEAN
          /\ tx' \in [Ends -> Seq(Frames)] /\ writer' \in [Ends -> {"up", "ended"}]
          /\ wire' \in [Ends -> Seq(Frames)] /\ unmatched' \in [Ends -> Seq(Frames)]
          /\ reader' \in [Ends -> {"up", "ended", "aborted"}] /\ rows' \in 0..MaxRows
          /\ handler' \in [Calls -> [pc : HandlerPcs, mux : Ids, chan : Seq(1..MaxRows),
                                     sent : Seq(Items)]]
          /\ \A d \in Calls : Len(handler'[d].chan) <= ChanCap
      BY <3>2 DEF IInv, TypeOK, pipeVars, daemonVars
    <3> QED
      BY <1>3, <2>1, <3>1, <3>3 DEF TypeOK
<1>6. IdsDiffer'
  <2>1. \A d \in Calls : d # c => call[d].id = 0 \/ call[d].id \in 1..(nextId - 1)
    BY DEF IInv, IdsDiffer
  <2> QED
    BY <1>1, <1>2, <1>3, <2>1 DEF IInv, IdsDiffer
<1>7. Registered'
  <2>1. \A i \in Ids : /\ pending'[i] = pending[i] \/ (i = nextId /\ pending'[i] = c)
                       /\ streams'[i] = streams[i] \/ (i = nextId /\ streams'[i] = c)
    BY <1>1 DEF Start, Ids
  <2>2. \A i \in Ids : pending[i] # c /\ streams[i] # c
    BY <1>4 DEF IInv, Registered
  <2> QED
    BY <1>1, <1>2, <1>3, <2>1, <2>2 DEF IInv, Registered, Ids
<1>8. SoundFrames \subseteq SoundFrames'
  BY <1>3, <1>4 DEF SoundFrames, Frames, Items
<1>9. InFlight'
  BY <1>8, SeqMonotone DEF IInv, InFlight, Start, pipeVars
<1>10. Handlers'
  BY <1>3, <1>4 DEF IInv, Handlers, Start, daemonVars
<1>11. Received'
  BY <1>2, <1>3 DEF IInv, Received
<1> QED
  BY <1>5, <1>6, <1>7, <1>9, <1>10, <1>11 DEF IInv

\* What the steps of a call that has its id leave as it is.
LEMMA CallSteps ==
    ASSUME IInv, TypeOK', nextId' = nextId,
           \A c \in Calls : /\ call'[c].id = call[c].id
                            /\ call'[c].pc = "new" <=> call[c].pc = "new"
                            /\ handler'[c].mux = handler[c].mux
                            /\ call'[c].got \in Seq(ItemsOf(c)),
           \A i \in Ids : pending'[i] \in {pending[i], NoCall} /\ streams'[i] \in {streams[i], NoCall},
           \A e \in Ends : /\ tx'[e] \in Seq(SoundFrames)
                           /\ wire'[e] \in Seq(SoundFrames)
                           /\ unmatched'[e] \in Seq(SoundFrames)
    PROVE  IInv'
<1>1. SoundFrames' = SoundFrames
  BY SameIds
<1>2. IdsDiffer'
  BY DEF IInv, IdsDiffer
<1>3. Registered'
  <2> SUFFICES ASSUME NEW i \in Ids
               PROVE  /\ pending'[i] # NoCall => i # 0 /\ call'[pending'[i]].id = i
                      /\ streams'[i] # NoCall => i # 0 /\ call'[streams'[i]].id = i
    BY DEF Registered
  <2>1. pending[i] \in Calls \cup {NoCall} /\ streams[i] \in Calls \cup {NoCall}
    BY DEF IInv, TypeOK
  <2> QED
    BY <2>1 DEF IInv, Registered
<1>4. InFlight'
  BY <1>1 DEF InFlight
<1>5. Handlers' /\ Received'
  BY DEF IInv, Handlers, Received
<1> QED
  BY <1>2, <1>3, <1>4, <1>5 DEF IInv

\* What is known of the state, in the form the steps below use.
LEMMA Known ==
    ASSUME IInv
    PROVE  /\ \A e \in Ends : /\ tx[e] \in Seq(SoundFrames) /\ tx[e] \in Seq(Frames)
                              /\ wire[e] \in Seq(SoundFrames) /\ wire[e] \in Seq(Frames)
                              /\ unmatched[e] \in Seq(SoundFrames) /\ unmatched[e] \in Seq(Frames)
           /\ \A c \in Calls : call[c].got \in Seq(ItemsOf(c)) /\ call[c].id \in Ids
           /\ tx = [e \in Ends |-> tx[e]] /\ wire = [e \in Ends |-> wire[e]]
           /\ unmatched = [e \in Ends |-> unmatched[e]]
           /\ SoundFrames \subseteq Frames
<1>1. SoundFrames \subseteq Frames
  BY DEF SoundFrames
<1>2. /\ tx \in [Ends -> Seq(Frames)] /\ wire \in [Ends -> Seq(Frames)]
      /\ unmatched \in [Ends -> Seq(Frames)]
  BY DEF IInv, TypeOK
<1>3. \A c \in Calls : call[c].id \in Ids
  BY DEF IInv, TypeOK
<1> QED
  BY <1>1, <1>2, <1>3 DEF IInv, InFlight, Received

\* The request is queued, or its registration taken back; a stream is closed.
LEMMA EnqueueIInv ==
    ASSUME IInv, NEW c \in Calls, Enqueue(c) \/ DropStream(c) PROVE IInv'
<1>1. /\ call \in [Calls -> [pc : CallPcs, kind : Kinds, id : Ids, got : Seq(Items)]]
      /\ pending \in [Ids -> Calls \cup {NoCall}] /\ streams \in [Ids -> Calls \cup {NoCall}]
      /\ call[c].pc \in {"registered", "streaming"} /\ call[c].id \in Ids
  BY DEF IInv, TypeOK, Enqueue, DropStream
<1>2. PICK p \in CallPcs : p # "new" /\ call' = [call EXCEPT ![c].pc = p]
  BY DEF Enqueue, DropStream, CallPcs
<1>3. call' \in [Calls -> [pc : CallPcs, kind : Kinds, id : Ids, got : Seq(Items)]]
  <2>1. [call[c] EXCEPT !.pc = p] \in [pc : CallPcs, kind : Kinds, id : Ids, got : Seq(Items)]
    BY <1>1
  <2> QED
    BY <1>1, <1>2, <2>1
<1>4. \A d \in Calls : /\ call'[d].id = call[d].id /\ call'[d].got = call[d].got
                       /\ call'[d].pc = "new" <=> call[d].pc = "new"
  BY <1>1, <1>2
<1>5. /\ pending' \in [Ids -> Calls \cup {NoCall}] /\ streams' \in [Ids -> Calls \cup {NoCall}]
      /\ \A i \in Ids : pending'[i] \in {pending[i], NoCall} /\ streams'[i] \in {streams[i], NoCall}
  BY <1>1 DEF Enqueue, DropStream, Deregister
<1>6. /\ tx' \in [Ends -> Seq(Frames)]
      /\ \A e \in Ends : tx'[e] \in Seq(SoundFrames)
  <2> DEFINE f == [mux |-> call[c].id, item |-> Item(c, "ask")]
  <2>1. f \in SoundFrames /\ f \in Frames
    BY <1>1 DEF SoundFrames, Frames, Item, Items, Bodies
  <2> HIDE DEF f
  <2>2. tx' = tx \/ tx' = [tx EXCEPT !["client"] = Append(@, f)]
    BY DEF Enqueue, DropStream, pipeVars, f
  <2>3. "client" \in Ends
    BY DEF Ends
  <2>4. Append(tx["client"], f) \in Seq(SoundFrames) /\ Append(tx["client"], f) \in Seq(Frames)
    BY <2>1, <2>3, Known
  <2>5. tx \in [Ends -> Seq(Frames)] /\ \A e \in Ends : tx[e] \in Seq(SoundFrames)
    BY Known
  <2>6. CASE tx' = [tx EXCEPT !["client"] = Append(tx["client"], f)]
    <3>1. PICK q : q = Append(tx["client"], f)
      OBVIOUS
    <3>2. tx' = [tx EXCEPT !["client"] = q] /\ q \in Seq(SoundFrames) /\ q \in Seq(Frames)
      BY <2>4, <2>6, <3>1
    <3> QED
      BY <2>3, <2>5, <3>2
  <2> QED
    BY <2>2, <2>5, <2>6
<1>7. /\ nextId' = nextId /\ held' = held /\ writer' = writer /\ wire' = wire /\ reader' = reader
      /\ unmatched' = unmatched /\ linked' = linked
      /\ running' = running /\ handler' = handler /\ rows' = rows
  BY DEF Enqueue, DropStream, pipeVars, daemonVars
<1>8. TypeOK'
  BY <1>3, <1>5, <1>6, <1>7 DEF IInv, TypeOK
<1> QED
  BY <1>4, <1>5, <1>6, <1>7, <1>8, Known, CallSteps

-----------------------------------------------------------------------------
(* The background tasks and the connection *)

\* The beginning of a sequence is a sequence over the same set.
LEMMA Beginning ==
    ASSUME NEW S, NEW s \in Seq(S), NEW n \in Nat, n <= Len(s)
    PROVE  SubSeq(s, 1, n) \in Seq(S)
OBVIOUS

\* The head of a queue is put behind another.
LEMMA HeadMoves ==
    ASSUME NEW S, NEW q \in Seq(S), q # <<>>, NEW r \in Seq(S)
    PROVE  Tail(q) \in Seq(S) /\ Append(r, Head(q)) \in Seq(S)
OBVIOUS

\* Frames on their way from an end are moved along or lost.
LEMMA PipeMoves ==
    ASSUME IInv, NEW S,
           \A e \in Ends : /\ tx[e] \in Seq(S[e]) /\ wire[e] \in Seq(S[e])
                           /\ unmatched[Peer(e)] \in Seq(S[e]),
           \/ DropSocket \/ WriterDrained \/ ReadDaemon \/ Cut
           \/ \E e \in Ends : WriteFrame(e) \/ WriteFails(e) \/ ReadEnds(e)
    PROVE  \A e \in Ends : /\ tx'[e] \in Seq(S[e]) /\ wire'[e] \in Seq(S[e])
                           /\ unmatched'[Peer(e)] \in Seq(S[e])
<1>1. /\ "client" \in Ends /\ "daemon" \in Ends /\ Peer("client") = "daemon"
      /\ \A e \in Ends : Peer(e) \in Ends /\ (Peer(e) = "daemon" <=> e = "client")
  BY DEF Ends, Peer
<1>2. /\ tx = [e \in Ends |-> tx[e]] /\ wire = [e \in Ends |-> wire[e]]
      /\ unmatched = [e \in Ends |-> unmatched[e]]
  BY Known
<1>3. CASE DropSocket \/ WriterDrained \/ \E e \in Ends : ReadEnds(e)
  BY <1>3 DEF DropSocket, WriterDrained, ReadEnds
<1>4. CASE ReadDaemon
  <2>1. /\ wire["client"] \in Seq(S["client"]) /\ unmatched["daemon"] \in Seq(S["client"])
        /\ wire["client"] # <<>>
    BY <1>1, <1>4 DEF ReadDaemon
  <2>2. /\ Tail(wire["client"]) \in Seq(S["client"])
        /\ Append(unmatched["daemon"], Head(wire["client"])) \in Seq(S["client"])
    BY <2>1, HeadMoves
  <2>3. /\ tx' = tx /\ wire' = [wire EXCEPT !["client"] = Tail(wire["client"])]
        /\ unmatched' = [unmatched EXCEPT !["daemon"] = Append(unmatched["daemon"], Head(wire["client"]))]
    BY <1>4 DEF ReadDaemon
  <2> QED
    BY <1>1, <1>2, <2>1, <2>2, <2>3
<1>5. CASE Cut
  <2>1. PICK n, m \in Nat :
           /\ n <= Len(wire["client"]) /\ m <= Len(wire["daemon"])
           /\ wire' = [e \in Ends |-> SubSeq(wire[e], 1, IF e = "client" THEN n ELSE m)]
    BY <1>5 DEF Cut
  <2>2. ASSUME NEW e \in Ends PROVE wire'[e] \in Seq(S[e])
    BY <2>1, Beginning DEF Ends
  <2>3. tx' = tx /\ unmatched' = unmatched
    BY <1>5 DEF Cut
  <2> QED
    BY <2>2, <2>3
<1>6. ASSUME NEW e \in Ends, WriteFrame(e)
      PROVE  \A d \in Ends : /\ tx'[d] \in Seq(S[d]) /\ wire'[d] \in Seq(S[d])
                             /\ unmatched'[Peer(d)] \in Seq(S[d])
  <2>1. tx[e] # <<>>
    BY <1>6 DEF WriteFrame
  <2>2. Tail(tx[e]) \in Seq(S[e]) /\ Append(wire[e], Head(tx[e])) \in Seq(S[e])
    BY <2>1, HeadMoves
  <2>3. /\ tx' = [tx EXCEPT ![e] = Tail(tx[e])] /\ unmatched' = unmatched
        /\ wire' = wire \/ wire' = [wire EXCEPT ![e] = Append(wire[e], Head(tx[e]))]
    BY <1>6 DEF WriteFrame
  <2> QED
    BY <1>2, <2>2, <2>3
<1>7. ASSUME NEW e \in Ends, WriteFails(e)
      PROVE  \A d \in Ends : /\ tx'[d] \in Seq(S[d]) /\ wire'[d] \in Seq(S[d])
                             /\ unmatched'[Peer(d)] \in Seq(S[d])
  <2>1. tx' = [tx EXCEPT ![e] = <<>>] /\ wire' = wire /\ unmatched' = unmatched
    BY <1>7 DEF WriteFails
  <2>2. <<>> \in Seq(S[e])
    BY EmptySeq
  <2> QED
    BY <1>2, <2>1, <2>2
<1> QED
  BY <1>3, <1>4, <1>5, <1>6, <1>7

\* Frames are moved along or lost, never made or changed.
LEMMA PipeIInv ==
    ASSUME IInv,
           \/ DropSocket \/ WriterDrained \/ ReadDaemon \/ Cut
           \/ \E e \in Ends : WriteFrame(e) \/ WriteFails(e) \/ ReadEnds(e)
    PROVE  IInv'
<1>1. /\ UNCHANGED <<nextId, call, pending, streams, handler, rows, running>>
      /\ held' \in BOOLEAN /\ linked' \in BOOLEAN
  BY DEF IInv, TypeOK, DropSocket, WriterDrained, ReadDaemon, Cut, WriteFrame, WriteFails, ReadEnds,
         clientVars, daemonVars, pipeVars
<1>2. /\ writer' \in [Ends -> {"up", "ended"}]
      /\ reader' \in [Ends -> {"up", "ended", "aborted"}]
  <2>1. writer \in [Ends -> {"up", "ended"}] /\ reader \in [Ends -> {"up", "ended", "aborted"}]
    BY DEF IInv, TypeOK
  <2> QED
    BY <2>1 DEF DropSocket, WriterDrained, ReadDaemon, Cut, WriteFrame, WriteFails, ReadEnds
<1>3. \A e \in Ends : /\ tx'[e] \in Seq(SoundFrames)
                      /\ wire'[e] \in Seq(SoundFrames)
                      /\ unmatched'[e] \in Seq(SoundFrames)
  <2> DEFINE S == [e \in Ends |-> SoundFrames]
  <2>1. \A e \in Ends : S[e] = SoundFrames /\ Peer(e) \in Ends /\ Peer(Peer(e)) = e
    BY DEF Peer, Ends
  <2> HIDE DEF S
  <2>2. \A e \in Ends : /\ tx[e] \in Seq(S[e]) /\ wire[e] \in Seq(S[e])
                        /\ unmatched[Peer(e)] \in Seq(S[e])
    BY <2>1, Known
  <2>3. \A e \in Ends : /\ tx'[e] \in Seq(S[e]) /\ wire'[e] \in Seq(S[e])
                        /\ unmatched'[Peer(e)] \in Seq(S[e])
    BY <2>2, PipeMoves
  <2> QED
    BY <2>1, <2>3
<1>4. /\ tx' \in [Ends -> Seq(Frames)] /\ wire' \in [Ends -> Seq(Frames)]
      /\ unmatched' \in [Ends -> Seq(Frames)]
  <2>1. \A e \in Ends : tx'[e] \in Seq(Frames) /\ wire'[e] \in Seq(Frames) /\ unmatched'[e] \in Seq(Frames)
    BY <1>3, Known, SeqMonotone
  <2>2. /\ tx' = [e \in Ends |-> tx'[e]] /\ wire' = [e \in Ends |-> wire'[e]]
        /\ unmatched' = [e \in Ends |-> unmatched'[e]]
    BY Known DEF DropSocket, WriterDrained, ReadDaemon, Cut, WriteFrame, WriteFails, ReadEnds
  <2> QED
    BY <2>1, <2>2
<1>5. TypeOK'
  BY <1>1, <1>2, <1>4 DEF IInv, TypeOK
<1> QED
  BY <1>1, <1>3, <1>5, Known, CallSteps

\* A frame is given to the call that waits for its id, which is the call it is
\* of: an id belongs to one call.
LEMMA ReadIInv == ASSUME IInv, ReadClient PROVE IInv'
<1> DEFINE f == Head(wire["daemon"])
           waiting == IF f.mux = 0 THEN NoCall ELSE pending[f.mux]
           stream == IF f.mux = 0 THEN NoCall ELSE streams[f.mux]
<1>1. /\ call \in [Calls -> [pc : CallPcs, kind : Kinds, id : Ids, got : Seq(Items)]]
      /\ pending \in [Ids -> Calls \cup {NoCall}] /\ streams \in [Ids -> Calls \cup {NoCall}]
      /\ "daemon" \in Ends /\ "client" \in Ends
  BY DEF IInv, TypeOK, Ends
<1>2. /\ f \in SoundFrames /\ f \in Frames
      /\ Tail(wire["daemon"]) \in Seq(SoundFrames) /\ Tail(wire["daemon"]) \in Seq(Frames)
  <2>1. wire["daemon"] \in Seq(SoundFrames) /\ wire["daemon"] \in Seq(Frames)
    BY <1>1, Known
  <2>2. wire["daemon"] # <<>>
    BY DEF ReadClient
  <2> QED
    BY <2>1, <2>2
<1>3. f.mux \in Ids /\ f.item \in Items /\ f.item.of \in Calls
  BY <1>2 DEF Frames, Items
<1>4. f.mux # 0 => f.mux = call[f.item.of].id
  BY <1>2, <1>3 DEF SoundFrames
<1>5. ASSUME NEW c \in Calls, c = waiting \/ c = stream PROVE f.item \in ItemsOf(c)
  <2>1. f.mux # 0 /\ call[c].id = f.mux
    BY <1>3, <1>5 DEF IInv, Registered
  <2>2. f.item.of = c
    BY <1>3, <1>4, <2>1 DEF IInv, IdsDiffer
  <2> QED
    BY <1>3, <2>2 DEF ItemsOf
<1>6. /\ UNCHANGED <<nextId, streams, held, tx, writer, reader, linked, running, handler, rows>>
      /\ wire' = [wire EXCEPT !["daemon"] = Tail(@)]
  BY DEF ReadClient, daemonVars
<1>7. wire' \in [Ends -> Seq(Frames)] /\ \A e \in Ends : wire'[e] \in Seq(SoundFrames)
  BY <1>1, <1>2, <1>6, Known
<1>8. /\ waiting \in Calls \cup {NoCall} /\ stream \in Calls \cup {NoCall}
      /\ \/ /\ waiting \in Calls
            /\ pending' = [pending EXCEPT ![f.mux] = NoCall]
            /\ call' = [call EXCEPT ![waiting].got = Append(@, f.item), ![waiting].pc = "done"]
            /\ unmatched' = unmatched
         \/ /\ stream \in Calls
            /\ call' = [call EXCEPT ![stream].got = Append(@, f.item)]
            /\ pending' = pending /\ unmatched' = unmatched
         \/ /\ unmatched' = [unmatched EXCEPT !["client"] = Append(@, f)]
            /\ pending' = pending /\ call' = call
  <2>1. waiting \in Calls \cup {NoCall} /\ stream \in Calls \cup {NoCall}
    BY <1>1, <1>3
  <2> QED
    BY <2>1 DEF ReadClient
<1> HIDE DEF f, waiting, stream
<1>9. unmatched' \in [Ends -> Seq(Frames)] /\ \A e \in Ends : unmatched'[e] \in Seq(SoundFrames)
  <2>1. /\ Append(unmatched["client"], f) \in Seq(Frames)
        /\ Append(unmatched["client"], f) \in Seq(SoundFrames)
    BY <1>1, <1>2, Known
  <2>2. unmatched' = unmatched \/ unmatched' = [unmatched EXCEPT !["client"] = Append(@, f)]
    BY <1>8
  <2>3. unmatched \in [Ends -> Seq(Frames)]
    BY DEF IInv, TypeOK
  <2>4. unmatched' \in [Ends -> Seq(Frames)]
    BY <1>1, <2>1, <2>2, <2>3
  <2>5. ASSUME NEW e \in Ends PROVE unmatched'[e] \in Seq(SoundFrames)
    BY <1>1, <2>1, <2>2, <2>3, Known
  <2> QED
    BY <2>4, <2>5
<1>10. ASSUME NEW c \in Calls
       PROVE  /\ call'[c] \in [pc : CallPcs, kind : Kinds, id : Ids, got : Seq(Items)]
              /\ call'[c].id = call[c].id
              /\ call'[c].pc = "new" <=> call[c].pc = "new"
              /\ call'[c].got \in Seq(ItemsOf(c))
  <2>1. call[c] \in [pc : CallPcs, kind : Kinds, id : Ids, got : Seq(Items)]
        /\ call[c].got \in Seq(ItemsOf(c))
    BY <1>1, Known
  <2>2. CASE c = waiting \/ c = stream
    <3> DEFINE longer == Append(call[c].got, f.item)
    <3>1. longer \in Seq(ItemsOf(c)) /\ longer \in Seq(Items)
      BY <1>3, <1>5, <2>1, <2>2
    <3>2. call[c].pc # "new"
      <4>1. f.mux # 0 /\ call[c].id = f.mux
        BY <1>3, <2>2 DEF IInv, Registered, waiting, stream
      <4> QED
        BY <4>1 DEF IInv, IdsDiffer
    <3> HIDE DEF longer
    <3>3. \/ call'[c] = [call[c] EXCEPT !.got = longer, !.pc = "done"]
          \/ call'[c] = [call[c] EXCEPT !.got = longer]
          \/ call'[c] = call[c]
      BY <1>1, <1>8, <2>2 DEF longer
    <3>4. "done" \in CallPcs /\ "done" # "new"
      BY DEF CallPcs
    <3> QED
      BY <2>1, <3>1, <3>2, <3>3, <3>4
  <2>3. CASE c # waiting /\ c # stream
    <3>1. call'[c] = call[c]
      BY <1>1, <1>8, <2>3
    <3> QED
      BY <2>1, <3>1
  <2> QED
    BY <2>2, <2>3
<1>11. call' \in [Calls -> [pc : CallPcs, kind : Kinds, id : Ids, got : Seq(Items)]]
  <2>1. call' = [c \in Calls |-> call'[c]]
    BY <1>1, <1>8
  <2> QED
    BY <1>10, <2>1
<1>12. /\ pending' \in [Ids -> Calls \cup {NoCall}]
       /\ \A i \in Ids : pending'[i] \in {pending[i], NoCall} /\ streams'[i] \in {streams[i], NoCall}
  BY <1>1, <1>6, <1>8
<1>13. TypeOK'
  BY <1>6, <1>7, <1>9, <1>11, <1>12 DEF IInv, TypeOK
<1> QED
  BY <1>6, <1>7, <1>9, <1>10, <1>12, <1>13, Known, CallSteps

-----------------------------------------------------------------------------
(* The daemon *)

HandlerRecords == [pc : HandlerPcs, mux : Ids, chan : Seq(1..MaxRows),
                   sent : Seq(Items)]

\* No channel holds more rows than it has room for.
LEMMA Channels == IInv => \A c \in Calls : Len(handler[c].chan) <= ChanCap
BY DEF IInv, TypeOK

\* A step of the daemon that changes one handler and queues at most one frame,
\* with the id it was asked with or none.
LEMMA DaemonStep ==
    ASSUME IInv, NEW c \in Calls, NEW h \in HandlerRecords, h.mux = handler[c].mux,
           Len(h.chan) <= ChanCap, handler' = [handler EXCEPT ![c] = h],
           \/ tx' = tx
           \/ \E f \in SoundFrames : tx' = [tx EXCEPT !["daemon"] = Append(@, f)],
           UNCHANGED <<running, rows, writer, wire, reader, unmatched, linked, clientVars>>
    PROVE  IInv'
<1>1. handler \in [Calls -> HandlerRecords] /\ "daemon" \in Ends
  BY DEF IInv, TypeOK, HandlerRecords, Ends
<1>2. /\ handler' \in [Calls -> HandlerRecords]
      /\ \A d \in Calls : handler'[d].mux = handler[d].mux
      /\ \A d \in Calls : Len(handler'[d].chan) <= ChanCap
  BY <1>1, Channels
<1>3. tx' \in [Ends -> Seq(Frames)] /\ \A e \in Ends : tx'[e] \in Seq(SoundFrames)
  <2>1. CASE tx' = tx
    BY <2>1, Known
  <2>2. ASSUME NEW f \in SoundFrames, tx' = [tx EXCEPT !["daemon"] = Append(@, f)]
        PROVE  tx' \in [Ends -> Seq(Frames)] /\ \A e \in Ends : tx'[e] \in Seq(SoundFrames)
    <3>1. f \in Frames
      BY Known
    <3>2. Append(tx["daemon"], f) \in Seq(SoundFrames) /\ Append(tx["daemon"], f) \in Seq(Frames)
      BY <1>1, <3>1, Known
    <3> QED
      BY <1>1, <2>2, <3>2, Known
  <2> QED
    BY <2>1, <2>2
<1>4. TypeOK'
  BY <1>2, <1>3 DEF IInv, TypeOK, HandlerRecords, clientVars
<1> QED
  BY <1>2, <1>3, <1>4, Known, CallSteps DEF clientVars

\* What Sends puts into the queue is sound, whatever becomes of the handler.
LEMMA SendsIInv ==
    ASSUME IInv, NEW c \in Calls, NEW mux \in {0, handler[c].mux}, NEW body \in Bodies,
           NEW sent \in HandlerPcs, NEW failed \in HandlerPcs,
           Sends(c, mux, body, sent, failed),
           UNCHANGED <<running, rows, writer, wire, reader, unmatched, linked, clientVars>>
    PROVE  IInv'
<1> DEFINE f == [mux |-> mux, item |-> Item(c, body)]
<1>1. handler[c] \in HandlerRecords /\ handler \in [Calls -> HandlerRecords]
  BY DEF IInv, TypeOK, HandlerRecords
<1>2. Item(c, body) \in Items
  BY DEF Item, Items
<1>3. f \in SoundFrames
  <2>1. mux \in Ids /\ mux \in {0, call[c].id}
    BY <1>1 DEF IInv, Handlers, HandlerRecords, Ids
  <2> QED
    BY <1>2, <2>1 DEF SoundFrames, Frames, Item
<1> HIDE DEF f
<1>4. CASE writer["daemon"] = "up"
  <2> DEFINE h == [handler[c] EXCEPT !.pc = sent, !.sent = Append(@, Item(c, body))]
  <2>1. Append(handler[c].sent, Item(c, body)) \in Seq(Items)
    BY <1>1, <1>2 DEF HandlerRecords
  <2>2. h \in HandlerRecords /\ h.mux = handler[c].mux /\ h.chan = handler[c].chan
    BY <1>1, <2>1 DEF HandlerRecords
  <2>3. handler' = [handler EXCEPT ![c] = h] /\ tx' = [tx EXCEPT !["daemon"] = Append(@, f)]
    BY <1>4 DEF Sends, f
  <2> HIDE DEF h
  <2>4. Len(h.chan) <= ChanCap
    BY <2>2, Channels
  <2> QED
    BY <1>3, <2>2, <2>3, <2>4, DaemonStep
<1>5. CASE writer["daemon"] # "up"
  <2> DEFINE h == [handler[c] EXCEPT !.pc = failed, !.chan = <<>>]
  <2>1. <<>> \in Seq(1..MaxRows)
    BY EmptySeq
  <2>2. h \in HandlerRecords /\ h.mux = handler[c].mux /\ h.chan = <<>>
    BY <1>1, <2>1 DEF HandlerRecords
  <2>3. handler' = [handler EXCEPT ![c] = h] /\ tx' = tx
    BY <1>5 DEF Sends
  <2> HIDE DEF h
  <2>4. Len(h.chan) <= ChanCap
    BY <2>2
  <2> QED
    BY <2>2, <2>3, <2>4, DaemonStep
<1> QED
  BY <1>4, <1>5

\* The tasks of handle_client answer, refuse, start and finish streams.
LEMMA AnswerIInv ==
    ASSUME IInv, NEW c \in Calls,
           Answer(c) \/ RefuseStream(c) \/ StreamStarted(c) \/ FinishStream(c)
    PROVE  IInv'
<1>1. "done" \in HandlerPcs /\ "forwarding" \in HandlerPcs
  BY DEF HandlerPcs
<1>2. {"error", "answer", "refused", "started", "finished"} \subseteq Bodies
  BY DEF Bodies
<1>3. UNCHANGED <<running, rows, writer, wire, reader, unmatched, linked, clientVars>>
  BY DEF Answer, RefuseStream, StreamStarted, FinishStream
<1>4. \E mux \in {0, handler[c].mux}, body \in Bodies, sent \in HandlerPcs :
         Sends(c, mux, body, sent, "done")
  BY <1>1, <1>2 DEF Answer, RefuseStream, StreamStarted, FinishStream
<1> QED
  BY <1>1, <1>3, <1>4, SendsIInv

\* Rows are forwarded in the order of their channel.
LEMMA ForwardIInv == ASSUME IInv, NEW c \in Calls, ForwardRow(c) \/ RegisterCallback(c) PROVE IInv'
<1>1. handler[c] \in HandlerRecords /\ handler \in [Calls -> HandlerRecords] /\ rows \in 0..MaxRows
  BY DEF IInv, TypeOK, HandlerRecords
<1>2. UNCHANGED <<running, rows, writer, wire, reader, unmatched, linked, clientVars>>
  BY DEF ForwardRow, RegisterCallback, pipeVars
<1>3. CASE RegisterCallback(c)
  <2> DEFINE h == [handler[c] EXCEPT !.pc = "registered"]
  <2>1. h \in HandlerRecords /\ h.mux = handler[c].mux /\ h.chan = handler[c].chan
    BY <1>1 DEF HandlerRecords, HandlerPcs
  <2>2. handler' = [handler EXCEPT ![c] = h] /\ tx' = tx
    BY <1>3 DEF RegisterCallback, pipeVars
  <2> HIDE DEF h
  <2>3. Len(h.chan) <= ChanCap
    BY <2>1, Channels
  <2> QED
    BY <1>2, <2>1, <2>2, <2>3, DaemonStep
<1>4. CASE ForwardRow(c)
  <2> DEFINE row == Head(handler[c].chan)
             f == [mux |-> handler[c].mux, item |-> Row(c, row)]
  <2>1. /\ row \in 1..MaxRows /\ Tail(handler[c].chan) \in Seq(1..MaxRows)
        /\ Len(Tail(handler[c].chan)) <= ChanCap
    <3>1. handler[c].chan \in Seq(1..MaxRows)
      BY <1>1 DEF HandlerRecords
    <3>2. handler[c].chan # <<>>
      BY <1>4 DEF ForwardRow
    <3>3. PICK q \in Seq(1..MaxRows) : q = handler[c].chan
      BY <3>1
    <3>4. q # <<>>
      BY <3>2, <3>3
    <3>5. Head(q) \in 1..MaxRows /\ Tail(q) \in Seq(1..MaxRows) /\ Len(Tail(q)) = Len(q) - 1
      BY <3>4, HeadTailProperties
    <3>6. Len(q) <= ChanCap /\ Len(q) \in Nat
      BY <3>3, Channels, LenProperties
    <3>7. Len(Tail(q)) <= ChanCap
      BY <3>5, <3>6
    <3> QED
      BY <3>3, <3>5, <3>7
  <2>2. Row(c, row) \in Items
    BY <2>1 DEF Row, Items, Bodies
  <2>3. f \in SoundFrames
    <3>1. handler[c].mux \in Ids /\ handler[c].mux \in {0, call[c].id}
      BY <1>1 DEF IInv, Handlers, HandlerRecords
    <3> QED
      BY <2>2, <3>1 DEF SoundFrames, Frames, Row
  <2>4. CASE writer["daemon"] = "up"
    <3> DEFINE h == [handler[c] EXCEPT !.chan = Tail(@), !.sent = Append(@, Row(c, row))]
    <3>1. Append(handler[c].sent, Row(c, row)) \in Seq(Items)
      BY <1>1, <2>2 DEF HandlerRecords
    <3>2. h \in HandlerRecords /\ h.mux = handler[c].mux /\ h.chan = Tail(handler[c].chan)
      BY <1>1, <2>1, <3>1 DEF HandlerRecords
    <3>3. handler' = [handler EXCEPT ![c] = h] /\ tx' = [tx EXCEPT !["daemon"] = Append(@, f)]
      BY <1>4, <2>4 DEF ForwardRow
    <3> HIDE DEF h, f
    <3>4. Len(h.chan) <= ChanCap
      BY <2>1, <3>2
    <3> QED
      BY <1>2, <2>3, <3>2, <3>3, <3>4, DaemonStep
  <2>5. CASE writer["daemon"] # "up"
    <3> DEFINE h == [handler[c] EXCEPT !.pc = "done", !.chan = <<>>]
    <3>1. <<>> \in Seq(1..MaxRows)
      BY EmptySeq
    <3>2. h \in HandlerRecords /\ h.mux = handler[c].mux /\ h.chan = <<>>
      BY <1>1, <3>1 DEF HandlerRecords, HandlerPcs
    <3>3. handler' = [handler EXCEPT ![c] = h] /\ tx' = tx
      BY <1>4, <2>5 DEF ForwardRow
    <3> HIDE DEF h
    <3>4. Len(h.chan) <= ChanCap
      BY <3>2
    <3> QED
      BY <1>2, <3>2, <3>3, <3>4, DaemonStep
  <2> QED
    BY <2>4, <2>5
<1> QED
  BY <1>3, <1>4

\* A request is taken up under the id it came with; rows reach the channels.
LEMMA DaemonIInv == ASSUME IInv, Accept \/ StopPlaybook \/ ProduceRow PROVE IInv'
<1>1. /\ handler \in [Calls -> HandlerRecords] /\ rows \in 0..MaxRows
      /\ "daemon" \in Ends /\ running \in BOOLEAN
  BY DEF IInv, TypeOK, HandlerRecords, Ends
<1>2. UNCHANGED <<tx, writer, wire, reader, linked, clientVars>>
  BY DEF Accept, StopPlaybook, ProduceRow, pipeVars
<1>3. CASE Accept
  <2> DEFINE f == Head(unmatched["daemon"])
             h == [handler[f.item.of] EXCEPT !.pc = "running", !.mux = f.mux]
  <2>1. f \in SoundFrames /\ f \in Frames /\ Tail(unmatched["daemon"]) \in Seq(SoundFrames)
        /\ Tail(unmatched["daemon"]) \in Seq(Frames)
    BY <1>1, <1>3, Known DEF Accept
  <2>2. f.mux \in Ids /\ f.item.of \in Calls /\ f.mux \in {0, call[f.item.of].id}
    BY <2>1 DEF SoundFrames, Frames, Items
  <2>3. h \in HandlerRecords /\ h.mux = f.mux /\ h.chan = handler[f.item.of].chan
    <3>1. PICK g \in HandlerRecords, m \in Ids : g = handler[f.item.of] /\ m = f.mux
      BY <1>1, <2>2
    <3>2. /\ [g EXCEPT !.pc = "running", !.mux = m] \in HandlerRecords
          /\ [g EXCEPT !.pc = "running", !.mux = m].mux = m
          /\ [g EXCEPT !.pc = "running", !.mux = m].chan = g.chan
      BY DEF HandlerRecords, HandlerPcs
    <3> QED
      BY <3>1, <3>2
  <2>4. /\ handler' = [handler EXCEPT ![f.item.of] = h]
        /\ unmatched' = [unmatched EXCEPT !["daemon"] = Tail(@)]
        /\ UNCHANGED <<running, rows>>
    BY <1>3 DEF Accept
  <2> HIDE DEF h, f
  <2>5. /\ handler' \in [Calls -> HandlerRecords]
        /\ \A c \in Calls : Len(handler'[c].chan) <= ChanCap
    BY <1>1, <2>2, <2>3, <2>4, Channels
  <2>6. unmatched' \in [Ends -> Seq(Frames)] /\ \A e \in Ends : unmatched'[e] \in Seq(SoundFrames)
    BY <1>1, <2>1, <2>4, Known
  <2>7. TypeOK'
    BY <1>2, <2>4, <2>5, <2>6 DEF IInv, TypeOK, HandlerRecords, clientVars
  <2>8. SoundFrames' = SoundFrames
    BY <1>2, SameIds DEF clientVars
  <2>9. Handlers'
    BY <1>1, <1>2, <2>2, <2>3, <2>4 DEF IInv, Handlers, clientVars
  <2>10. InFlight'
    BY <1>2, <2>6, <2>8, Known DEF InFlight
  <2>11. (IdsDiffer /\ Registered /\ Received)'
    BY <1>2 DEF IInv, IdsDiffer, Registered, Received, clientVars
  <2> QED
    BY <2>7, <2>9, <2>10, <2>11 DEF IInv
<1>4. CASE StopPlaybook \/ ProduceRow
  <2>1. unmatched' = unmatched /\ running' \in BOOLEAN /\ rows' \in 0..MaxRows
    <3>1. CASE StopPlaybook
      BY <1>1, <3>1 DEF StopPlaybook, pipeVars
    <3>2. CASE ProduceRow
      BY <1>1, <3>2 DEF ProduceRow, pipeVars
    <3> QED
      BY <1>4, <3>1, <3>2
  <2>2. /\ handler' \in [Calls -> HandlerRecords]
        /\ \A c \in Calls : /\ handler'[c].mux = handler[c].mux
                            /\ Len(handler'[c].chan) <= ChanCap
    <3>1. CASE StopPlaybook
      BY <1>1, <3>1, Channels DEF StopPlaybook
    <3>2. CASE ProduceRow
      <4>1. rows + 1 \in 1..MaxRows
        BY <1>1, <3>2 DEF ProduceRow
      <4>2. ASSUME NEW c \in Calls
            PROVE  /\ [handler[c] EXCEPT !.chan = Append(@, rows + 1)] \in HandlerRecords
                   /\ [handler[c] EXCEPT !.chan = Append(@, rows + 1)].mux = handler[c].mux
        <5>1. handler[c] \in HandlerRecords
          BY <1>1
        <5>2. handler[c].chan \in Seq(1..MaxRows)
          BY <5>1 DEF HandlerRecords
        <5>3. Append(handler[c].chan, rows + 1) \in Seq(1..MaxRows)
          BY <4>1, <5>2
        <5> QED
          BY <5>1, <5>3 DEF HandlerRecords
      <4>3. handler' = [c \in Calls |-> IF Listening(c)
                                THEN [handler[c] EXCEPT !.chan = Append(@, rows + 1)]
                                ELSE handler[c]]
        BY <3>2 DEF ProduceRow
      <4>4. ASSUME NEW c \in Calls PROVE Len(handler'[c].chan) <= ChanCap
        <5>1. handler[c].chan \in Seq(1..MaxRows) /\ Len(handler[c].chan) <= ChanCap
          BY <1>1, Channels DEF HandlerRecords
        <5>2. CASE Listening(c)
          <6>1. Len(handler[c].chan) < ChanCap
            BY <3>2, <5>2 DEF ProduceRow
          <6>2. handler'[c].chan = Append(handler[c].chan, rows + 1)
            BY <1>1, <4>3, <5>2 DEF HandlerRecords
          <6>3. Len(Append(handler[c].chan, rows + 1)) = Len(handler[c].chan) + 1
            BY <4>1, <5>1
          <6> QED
            BY <5>1, <6>1, <6>2, <6>3, SocketAssumption, LenProperties
        <5>3. CASE ~Listening(c)
          BY <4>3, <5>1, <5>3
        <5> QED
          BY <5>2, <5>3
      <4>5. /\ handler' \in [Calls -> HandlerRecords]
            /\ \A c \in Calls : handler'[c].mux = handler[c].mux
        BY <1>1, <4>2, <4>3
      <4> QED
        BY <4>4, <4>5
    <3> QED
      BY <1>4, <3>1, <3>2
  <2>3. TypeOK'
    BY <1>2, <2>1, <2>2 DEF IInv, TypeOK, HandlerRecords, clientVars
  <2> QED
    BY <1>2, <2>1, <2>2, <2>3, Known, CallSteps DEF clientVars
<1> QED
  BY <1>3, <1>4

-----------------------------------------------------------------------------
\* Every step of client, connection and daemon preserves the invariant.
LEMMA NextIInv == IInv /\ [Next]_vars => IInv'
<1> SUFFICES ASSUME IInv, [Next]_vars PROVE IInv'
  OBVIOUS
<1>1. CASE Next
  BY <1>1, StartIInv, EnqueueIInv, PipeIInv, ReadIInv, AnswerIInv, ForwardIInv, DaemonIInv DEF Next
<1>2. CASE UNCHANGED vars
  <2>1. /\ UNCHANGED <<nextId, call, pending, streams, held, tx, writer, wire, reader, unmatched,
                       linked, running, handler, rows>>
        /\ TypeOK'
    BY <1>2 DEF IInv, TypeOK, vars, clientVars, pipeVars, daemonVars
  <2> QED
    BY <2>1, Known, CallSteps
<1> QED
  BY <1>1, <1>2

\* The strengthened invariant holds in every state.
LEMMA Invariant == Spec => []IInv
BY InitIInv, NextIInv, PTL DEF Spec

\* Every variable keeps its type: no id is given out beyond its bound, and
\* every id that waits or is under way belongs to a call.
THEOREM TypeCorrect == Spec => []TypeOK
<1>1. IInv => TypeOK
  BY DEF IInv
<1> QED
  BY <1>1, Invariant, PTL

\* A caller only ever receives frames of its own call, however many share the
\* connection and whatever is cut, dropped or refused.
THEOREM FramesReachTheirCall == Spec => []OwnFrames
<1>1. IInv => OwnFrames
  <2> SUFFICES ASSUME IInv, NEW c \in Calls, NEW i \in 1..Len(call[c].got)
               PROVE  call[c].got[i].of = c
    BY DEF OwnFrames
  <2>1. call[c].got \in Seq(ItemsOf(c))
    BY DEF IInv, Received
  <2>2. call[c].got[i] \in ItemsOf(c)
    BY <2>1
  <2> QED
    BY <2>2 DEF ItemsOf
<1> QED
  BY <1>1, Invariant, PTL

-----------------------------------------------------------------------------
(* The refinement of RemoteCalls.  What the daemon sends for a call goes     *)
(* through the queue of its write task and the wire, among the frames of     *)
(* the others; Carries says which items of the call a queue holds.           *)

\* Of the frames of c in the queue q, the first holds item a + 1 of s, each
\* other the item after it, the last item b; p counts along the queue.
Carries(c, s, q, a, b) ==
    \E p \in [0..Len(q) -> Nat] :
        /\ p[0] = a /\ p[Len(q)] = b
        /\ \A i \in 1..Len(q) :
              IF q[i].item.of = c
                 THEN p[i] = p[i - 1] + 1 /\ p[i] <= Len(s) /\ q[i].item = s[p[i]]
                 ELSE p[i] = p[i - 1]

\* An empty queue carries nothing.
LEMMA CarriesNothing ==
    ASSUME NEW c, NEW s, NEW a \in Nat PROVE Carries(c, s, <<>>, a, a)
<1> DEFINE p == [i \in 0..0 |-> a]
<1>1. p \in [0..Len(<<>>) -> Nat] /\ p[0] = a
  OBVIOUS
<1> HIDE DEF p
<1> QED
  BY <1>1 DEF Carries

\* What is issued later does not change what is on its way.
LEMMA CarriesMore ==
    ASSUME NEW c, NEW s \in Seq(Items), NEW x \in Items, NEW q \in Seq(Frames), NEW a, NEW b,
           Carries(c, s, q, a, b)
    PROVE  Carries(c, Append(s, x), q, a, b)
<1>1. PICK p \in [0..Len(q) -> Nat] :
        /\ p[0] = a /\ p[Len(q)] = b
        /\ \A i \in 1..Len(q) :
              IF q[i].item.of = c
                 THEN p[i] = p[i - 1] + 1 /\ p[i] <= Len(s) /\ q[i].item = s[p[i]]
                 ELSE p[i] = p[i - 1]
  BY DEF Carries
<1>2. ASSUME NEW i \in 1..Len(q), q[i].item.of = c
      PROVE  p[i] <= Len(Append(s, x)) /\ q[i].item = Append(s, x)[p[i]]
  <2>1. i - 1 \in 0..Len(q) /\ i \in 0..Len(q) /\ Len(s) \in Nat
    OBVIOUS
  <2>2. p[i - 1] \in Nat /\ p[i] = p[i - 1] + 1 /\ p[i] <= Len(s) /\ q[i].item = s[p[i]]
    BY <1>1, <1>2, <2>1
  <2>3. p[i] \in 1..Len(s)
    BY <2>1, <2>2
  <2> QED
    BY <2>2, <2>3
<1> QED
  BY <1>1, <1>2 DEF Carries

\* A frame behind the others: of another call, or with the next item of c.
LEMMA CarriesAppend ==
    ASSUME NEW c, NEW s, NEW q \in Seq(Frames), NEW f \in Frames, NEW a, NEW b \in Nat,
           Carries(c, s, q, a, b)
    PROVE  /\ f.item.of # c => Carries(c, s, Append(q, f), a, b)
           /\ f.item.of = c /\ b + 1 <= Len(s) /\ f.item = s[b + 1]
                 => Carries(c, s, Append(q, f), a, b + 1)
<1>1. PICK p \in [0..Len(q) -> Nat] :
        /\ p[0] = a /\ p[Len(q)] = b
        /\ \A i \in 1..Len(q) :
              IF q[i].item.of = c
                 THEN p[i] = p[i - 1] + 1 /\ p[i] <= Len(s) /\ q[i].item = s[p[i]]
                 ELSE p[i] = p[i - 1]
  BY DEF Carries
<1> DEFINE r == Append(q, f)
<1>2. /\ Len(r) = Len(q) + 1 /\ Len(q) \in Nat
      /\ \A i \in 1..Len(q) : r[i] = q[i]
      /\ r[Len(q) + 1] = f
  OBVIOUS
<1> HIDE DEF r
<1>3. ASSUME NEW d \in Nat,
             IF f.item.of = c THEN d = b + 1 /\ d <= Len(s) /\ f.item = s[d] ELSE d = b
      PROVE  Carries(c, s, r, a, d)
  <2> DEFINE o == [i \in 0..Len(r) |-> IF i <= Len(q) THEN p[i] ELSE d]
  <2>1. /\ o \in [0..Len(r) -> Nat] /\ o[0] = a /\ o[Len(r)] = d
        /\ \A i \in 0..Len(q) : o[i] = p[i]
    BY <1>1, <1>2
  <2> HIDE DEF o
  <2>2. ASSUME NEW i \in 1..Len(r)
        PROVE  IF r[i].item.of = c
                  THEN o[i] = o[i - 1] + 1 /\ o[i] <= Len(s) /\ r[i].item = s[o[i]]
                  ELSE o[i] = o[i - 1]
    <3>1. CASE i <= Len(q)
      <4>1. i \in 1..Len(q) /\ i - 1 \in 0..Len(q) /\ i \in 0..Len(q)
        BY <1>2, <3>1
      <4> QED
        BY <1>1, <1>2, <2>1, <4>1
    <3>2. CASE i = Len(r)
      <4>1. i - 1 = Len(q) /\ Len(q) \in 0..Len(q)
        BY <1>2, <3>2
      <4>2. r[i] = f /\ o[i] = d /\ o[i - 1] = b
        BY <1>1, <1>2, <2>1, <3>2, <4>1
      <4> QED
        BY <1>3, <4>2
    <3> QED
      BY <1>2, <3>1, <3>2
  <2> QED
    BY <2>1, <2>2 DEF Carries
<1> QED
  BY <1>3 DEF r

\* The frame at the head is of another call, or holds the next item of c.
LEMMA CarriesTail ==
    ASSUME NEW c, NEW s, NEW q \in Seq(Frames), q # <<>>, NEW a \in Nat, NEW b,
           Carries(c, s, q, a, b)
    PROVE  IF Head(q).item.of = c
              THEN /\ a + 1 <= Len(s) /\ Head(q).item = s[a + 1]
                   /\ Carries(c, s, Tail(q), a + 1, b)
              ELSE Carries(c, s, Tail(q), a, b)
<1>1. PICK p \in [0..Len(q) -> Nat] :
        /\ p[0] = a /\ p[Len(q)] = b
        /\ \A i \in 1..Len(q) :
              IF q[i].item.of = c
                 THEN p[i] = p[i - 1] + 1 /\ p[i] <= Len(s) /\ q[i].item = s[p[i]]
                 ELSE p[i] = p[i - 1]
  BY DEF Carries
<1> DEFINE r == Tail(q)
           o == [i \in 0..Len(r) |-> p[i + 1]]
<1>2. /\ Len(q) \in Nat \ {0} /\ Len(r) = Len(q) - 1 /\ Head(q) = q[1]
      /\ \A i \in 1..Len(r) : r[i] = q[i + 1]
  OBVIOUS
<1> HIDE DEF r
<1>3. /\ o \in [0..Len(r) -> Nat] /\ o[Len(r)] = b /\ o[0] = p[1]
      /\ \A i \in 0..Len(r) : o[i] = p[i + 1]
  BY <1>1, <1>2
<1> HIDE DEF o
<1>4. ASSUME NEW i \in 1..Len(r)
      PROVE  IF r[i].item.of = c
                THEN o[i] = o[i - 1] + 1 /\ o[i] <= Len(s) /\ r[i].item = s[o[i]]
                ELSE o[i] = o[i - 1]
  <2>1. i + 1 \in 1..Len(q) /\ (i + 1) - 1 = i /\ i - 1 \in 0..Len(r) /\ i \in 0..Len(r) /\ (i - 1) + 1 = i
    BY <1>2
  <2>2. r[i] = q[i + 1] /\ o[i] = p[i + 1] /\ o[i - 1] = p[i]
    BY <1>2, <1>3, <2>1
  <2> QED
    BY <1>1, <2>1, <2>2
<1>5. Carries(c, s, r, p[1], b)
  BY <1>3, <1>4 DEF Carries
<1>6. IF Head(q).item.of = c THEN p[1] = a + 1 /\ p[1] <= Len(s) /\ Head(q).item = s[p[1]]
                             ELSE p[1] = a
  <2>1. 1 \in 1..Len(q) /\ 1 - 1 = 0
    BY <1>2
  <2> QED
    BY <1>1, <1>2, <2>1
<1> QED
  BY <1>5, <1>6 DEF r

\* Of what is lost from the end the beginning is still in order.
LEMMA CarriesPrefix ==
    ASSUME NEW c, NEW s, NEW q \in Seq(Frames), NEW n \in Nat, n <= Len(q), NEW a, NEW b,
           Carries(c, s, q, a, b)
    PROVE  \E d \in Nat : Carries(c, s, SubSeq(q, 1, n), a, d)
<1>1. PICK p \in [0..Len(q) -> Nat] :
        /\ p[0] = a /\ p[Len(q)] = b
        /\ \A i \in 1..Len(q) :
              IF q[i].item.of = c
                 THEN p[i] = p[i - 1] + 1 /\ p[i] <= Len(s) /\ q[i].item = s[p[i]]
                 ELSE p[i] = p[i - 1]
  BY DEF Carries
<1> DEFINE r == SubSeq(q, 1, n)
           o == [i \in 0..n |-> p[i]]
<1>2. Len(r) = n /\ \A i \in 1..n : r[i] = q[i] /\ i \in 1..Len(q)
  OBVIOUS
<1> HIDE DEF r
<1>3. /\ o \in [0..n -> Nat] /\ o[0] = a /\ o[n] \in Nat
      /\ \A i \in 0..n : o[i] = p[i]
  BY <1>1
<1> HIDE DEF o
<1>4. ASSUME NEW i \in 1..n PROVE i \in 0..n /\ i - 1 \in 0..n
  OBVIOUS
<1>5. ASSUME NEW i \in 1..Len(r)
      PROVE  IF r[i].item.of = c
                THEN o[i] = o[i - 1] + 1 /\ o[i] <= Len(s) /\ r[i].item = s[o[i]]
                ELSE o[i] = o[i - 1]
  BY <1>1, <1>2, <1>3, <1>4
<1>6. Carries(c, s, r, a, o[n])
  BY <1>2, <1>3, <1>5 DEF Carries
<1> QED
  BY <1>3, <1>6 DEF r

\* Frames on their way from end e: of a call that was made, and with its id,
\* save that the error for a foreign request has none.
Own(e) == {f \in Frames : /\ call[f.item.of].pc # "new"
                          /\ f.mux = IF e = "daemon" /\ call[f.item.of].kind = "foreign"
                                        THEN 0 ELSE call[f.item.of].id}

OnTheWay == \A e \in Ends : /\ tx[e] \in Seq(Own(e))
                            /\ wire[e] \in Seq(Own(e))
                            /\ unmatched[Peer(e)] \in Seq(Own(e))

\* Only what was asked is handled, under the id it was asked with.
Served ==
    \A c \in Calls :
        /\ IF handler[c].pc = "none" THEN handler[c].sent = <<>>
                                     ELSE call[c].pc # "new" /\ handler[c].mux = call[c].id
        /\ handler[c].pc \in {"registered", "forwarding"} => call[c].kind = "stream"

\* A call is registered for its id exactly as long as it is open.
Waits ==
    \A c \in Calls :
        LET open == call[c].pc \in {"registered", "waiting", "streaming"}
        IN  /\ pending[call[c].id] = c <=> open /\ call[c].kind # "stream"
            /\ streams[call[c].id] = c <=> open /\ call[c].kind = "stream"

\* What c received, what is on the wire for it, and what is queued for it
\* unless nobody will read it, are a beginning of what was sent for it; all of
\* it while the daemon writes.
Ordered(c) ==
    \E b \in Nat :
        /\ Carries(c, handler[c].sent, wire["daemon"], Len(call[c].got), b)
        /\ ~PeerGone("daemon") =>
              \E e \in Nat : /\ Carries(c, handler[c].sent, tx["daemon"], b, e)
                             /\ writer["daemon"] = "up" => e = Len(handler[c].sent)

Expects(c) == call[c].kind # "foreign" /\ call[c].pc \notin {"done", "failed"}

InOrder == \A c \in Calls : Expects(c) => Ordered(c)

RInv == IInv /\ OnTheWay /\ Served /\ Waits /\ InOrder

\* The step of the promise that a step of the connection is, or none.
Refined == [Promise!Next]_(Promise!callVars)

-----------------------------------------------------------------------------
\* At the beginning nothing was asked, sent or received.
LEMMA InitRInv == Init => RInv /\ Promise!Init
<1> SUFFICES ASSUME Init PROVE RInv /\ Promise!Init
  OBVIOUS
<1>1. /\ IInv /\ "daemon" \in Ends /\ "client" \in Ends
      /\ \A c \in Calls : /\ call[c].pc = "new" /\ call[c].id = 0 /\ call[c].got = <<>>
                          /\ handler[c].pc = "none" /\ handler[c].sent = <<>>
  BY InitIInv DEF Init, Ends
<1>2. OnTheWay
  BY EmptySeq DEF Init, OnTheWay, Ends, Peer
<1>3. Served
  BY <1>1 DEF Served
<1>4. Waits
  <2>1. 0 \in Ids /\ \A i \in Ids : pending[i] = NoCall /\ streams[i] = NoCall
    <3>1. pending = [i \in Ids |-> NoCall] /\ streams = [i \in Ids |-> NoCall] /\ 0 \in Ids
      BY DEF Init, Ids
    <3> QED
      BY <3>1
  <2> SUFFICES ASSUME NEW c \in Calls
               PROVE  /\ pending[call[c].id] # c /\ streams[call[c].id] # c
                      /\ call[c].pc \notin {"registered", "waiting", "streaming"}
    BY DEF Waits
  <2> QED
    BY <1>1, <2>1
<1>5. ASSUME NEW c \in Calls PROVE Ordered(c)
  <2>1. Carries(c, <<>>, <<>>, 0, 0) /\ Len(<<>>) = 0
    BY CarriesNothing
  <2> QED
    BY <1>1, <2>1 DEF Init, Ordered
<1>6. InOrder
  BY <1>5 DEF InOrder
<1>7. Promise!Init
  BY <1>1 DEF Promise!Init, Stage
<1> QED
  BY <1>1, <1>2, <1>3, <1>4, <1>6, <1>7 DEF RInv

\* A step that changes one call for its caller, or none, is a step of the promise
\* if that change is.
LEMMA OneCall ==
    ASSUME NEW c \in Calls,
           \A d \in Calls : d # c => /\ call'[d].pc = call[d].pc /\ call'[d].got = call[d].got
                                     /\ handler'[d].sent = handler[d].sent,
           \/ /\ Stage(c)' = Stage(c) /\ call'[c].got = call[c].got /\ handler'[c].sent = handler[c].sent
           \/ /\ Stage(c) = "unasked" /\ Stage(c)' = "open"
              /\ call'[c].got = call[c].got /\ handler'[c].sent = handler[c].sent
           \/ /\ Stage(c) = "open" /\ Stage(c)' = "closed"
              /\ call'[c].got = call[c].got /\ handler'[c].sent = handler[c].sent
           \/ /\ Stage(c) # "unasked" /\ Stage(c)' = Stage(c) /\ call'[c].got = call[c].got
              /\ \E i \in Items : handler'[c].sent = Append(handler[c].sent, i)
           \/ /\ Stage(c) = "open" /\ Stage(c)' \in {"open", "closed"}
              /\ handler'[c].sent = handler[c].sent
              /\ Len(call[c].got) < Len(handler[c].sent)
              /\ call'[c].got = Append(call[c].got, handler[c].sent[Len(call[c].got) + 1])
    PROVE  Refined
<1> DEFINE stage == [d \in Calls |-> Stage(d)]
           issued == [d \in Calls |-> handler[d].sent]
           received == [d \in Calls |-> call[d].got]
<1>1. \A d \in Calls : d # c => Stage(d)' = Stage(d)
  BY DEF Stage
<1>2. /\ stage' = [stage EXCEPT ![c] = Stage(c)']
      /\ issued' = [issued EXCEPT ![c] = handler'[c].sent]
      /\ received' = [received EXCEPT ![c] = call'[c].got]
  <2>1. /\ \A d \in Calls : stage'[d] = [stage EXCEPT ![c] = Stage(c)'][d]
        /\ stage' = [d \in Calls |-> stage'[d]]
    BY <1>1
  <2>2. \A d \in Calls : issued'[d] = [issued EXCEPT ![c] = handler'[c].sent][d]
    OBVIOUS
  <2>3. \A d \in Calls : received'[d] = [received EXCEPT ![c] = call'[c].got][d]
    OBVIOUS
  <2> QED
    BY <2>1, <2>2, <2>3
<1>3. /\ stage = [d \in Calls |-> stage[d]] /\ stage[c] = Stage(c)
      /\ issued = [d \in Calls |-> issued[d]] /\ issued[c] = handler[c].sent
      /\ received = [d \in Calls |-> received[d]] /\ received[c] = call[c].got
  OBVIOUS
<1>4. CASE stage' = stage /\ issued' = issued /\ received' = received
  BY <1>4 DEF Refined, Promise!callVars
<1>5. ASSUME Promise!Ask(c) \/ Promise!Issue(c) \/ Promise!Deliver(c) \/ Promise!Close(c)
      PROVE  Refined
  BY <1>5 DEF Refined, Promise!Next
<1> HIDE DEF stage, issued, received
<1>6. CASE /\ Stage(c)' = Stage(c) /\ call'[c].got = call[c].got
           /\ handler'[c].sent = handler[c].sent
  <2>1. stage' = stage /\ issued' = issued /\ received' = received
    BY <1>2, <1>3, <1>6
  <2> QED
    BY <1>4, <2>1
<1>7. CASE /\ \/ Stage(c) = "unasked" /\ Stage(c)' = "open"
              \/ Stage(c) = "open" /\ Stage(c)' = "closed"
           /\ call'[c].got = call[c].got /\ handler'[c].sent = handler[c].sent
  <2>1. /\ \/ stage[c] = "unasked" /\ stage' = [stage EXCEPT ![c] = "open"]
           \/ stage[c] = "open" /\ stage' = [stage EXCEPT ![c] = "closed"]
        /\ issued' = issued /\ received' = received
    BY <1>2, <1>3, <1>7
  <2>2. Promise!Ask(c) \/ Promise!Close(c)
    BY <2>1 DEF Promise!Ask, Promise!Close, stage, issued, received
  <2> QED
    BY <1>5, <2>2
<1>8. CASE /\ Stage(c) # "unasked" /\ Stage(c)' = Stage(c) /\ call'[c].got = call[c].got
           /\ \E i \in Items : handler'[c].sent = Append(handler[c].sent, i)
  <2>1. PICK i \in Items : handler'[c].sent = Append(handler[c].sent, i)
    BY <1>8
  <2>2. /\ stage[c] # "unasked" /\ stage' = stage /\ received' = received
        /\ issued' = [issued EXCEPT ![c] = Append(issued[c], i)]
    BY <1>2, <1>3, <1>8, <2>1
  <2>3. Promise!Issue(c)
    BY <2>2 DEF Promise!Issue, stage, issued, received
  <2> QED
    BY <1>5, <2>3
<1>9. CASE /\ Stage(c) = "open" /\ Stage(c)' \in {"open", "closed"}
           /\ handler'[c].sent = handler[c].sent
           /\ Len(call[c].got) < Len(handler[c].sent)
           /\ call'[c].got = Append(call[c].got, handler[c].sent[Len(call[c].got) + 1])
  <2>1. /\ stage[c] = "open" /\ \E s \in {"open", "closed"} : stage' = [stage EXCEPT ![c] = s]
        /\ issued' = issued /\ Len(received[c]) < Len(issued[c])
        /\ received' = [received EXCEPT ![c] = Append(received[c], issued[c][Len(received[c]) + 1])]
    BY <1>2, <1>3, <1>9
  <2>2. Promise!Deliver(c)
    BY <2>1 DEF Promise!Deliver, stage, issued, received
  <2> QED
    BY <1>5, <2>2
<1> QED
  BY <1>6, <1>7, <1>8, <1>9

-----------------------------------------------------------------------------
(* The connection *)

\* What is left of the frames from the daemon keeps their order.
LEMMA PipeOrdered ==
    ASSUME IInv, NEW c \in Calls, Ordered(c),
           \/ DropSocket \/ WriterDrained \/ ReadDaemon \/ Cut
           \/ \E e \in Ends : WriteFrame(e) \/ WriteFails(e) \/ ReadEnds(e)
    PROVE  Ordered(c)'
<1> DEFINE s == handler[c].sent
           a == Len(call[c].got)
           w == wire["daemon"]
           q == tx["daemon"]
<1>1. /\ "client" \in Ends /\ "daemon" \in Ends /\ Peer("daemon") = "client"
      /\ w \in Seq(Frames) /\ q \in Seq(Frames) /\ a \in Nat
      /\ tx = [e \in Ends |-> tx[e]] /\ wire = [e \in Ends |-> wire[e]]
  <2>1. call[c].got \in Seq(ItemsOf(c)) /\ "client" \in Ends /\ "daemon" \in Ends
    BY Known DEF Ends
  <2> QED
    BY <2>1, Known DEF Peer
<1>2. PICK b \in Nat :
         /\ Carries(c, s, w, a, b)
         /\ ~PeerGone("daemon") => \E e \in Nat : Carries(c, s, q, b, e) /\ (writer["daemon"] = "up" => e = Len(s))
  BY DEF Ordered
<1>3. s' = s /\ a' = a
  BY DEF DropSocket, WriterDrained, ReadDaemon, Cut, WriteFrame, WriteFails, ReadEnds, clientVars, daemonVars
<1>4. PeerGone("daemon") => PeerGone("daemon")'
  <2>1. /\ reader \in [Ends -> {"up", "ended", "aborted"}] /\ writer \in [Ends -> {"up", "ended"}]
    BY DEF IInv, TypeOK
  <2> QED
    BY <1>1, <2>1 DEF DropSocket, WriterDrained, ReadDaemon, Cut, WriteFrame, WriteFails, ReadEnds, PeerGone
<1> HIDE DEF s, a
<1>5. CASE w' = w /\ q' = q /\ writer'["daemon"] = writer["daemon"]
  BY <1>2, <1>3, <1>4, <1>5 DEF Ordered, s, a
<1>6. CASE WriteFrame("daemon")
  <2> DEFINE f == Head(q)
  <2>1. f \in Frames /\ q # <<>> /\ tx' = [tx EXCEPT !["daemon"] = Tail(q)] /\ writer' = writer
        /\ wire' = IF PeerGone("daemon") THEN wire ELSE [wire EXCEPT !["daemon"] = Append(w, f)]
    BY <1>1, <1>6 DEF WriteFrame
  <2>2. q' = Tail(q)
    BY <1>1, <2>1
  <2>3. CASE PeerGone("daemon")
    BY <1>2, <1>3, <1>4, <2>1, <2>3 DEF Ordered, s, a
  <2>4. CASE ~PeerGone("daemon")
    <3>1. PICK e \in Nat : Carries(c, s, q, b, e) /\ (writer["daemon"] = "up" => e = Len(s))
      BY <1>2, <2>4
    <3>2. w' = Append(w, f)
      BY <1>1, <2>1, <2>4
    <3>3. \E d \in Nat : Carries(c, s, Append(w, f), a, d) /\ Carries(c, s, Tail(q), d, e)
      <4>1. IF f.item.of = c THEN /\ b + 1 <= Len(s) /\ f.item = s[b + 1]
                                  /\ Carries(c, s, Tail(q), b + 1, e)
                             ELSE Carries(c, s, Tail(q), b, e)
        BY <1>1, <2>1, <3>1, CarriesTail
      <4>2. /\ f.item.of # c => Carries(c, s, Append(w, f), a, b)
            /\ f.item.of = c /\ b + 1 <= Len(s) /\ f.item = s[b + 1]
                  => Carries(c, s, Append(w, f), a, b + 1)
        BY <1>1, <1>2, <2>1, CarriesAppend
      <4> QED
        BY <4>1, <4>2
    <3> QED
      BY <1>3, <2>1, <2>2, <3>1, <3>2, <3>3 DEF Ordered, s, a
  <2> QED
    BY <2>3, <2>4
<1>7. CASE WriteFails("daemon")
  <2>1. q' = <<>> /\ w' = w /\ writer'["daemon"] = "ended"
    <3>1. writer \in [Ends -> {"up", "ended"}]
      BY DEF IInv, TypeOK
    <3> QED
      BY <1>1, <1>7, <3>1 DEF WriteFails
  <2>2. Carries(c, s, <<>>, b, b)
    BY <1>2, CarriesNothing
  <2> QED
    BY <1>2, <1>3, <2>1, <2>2 DEF Ordered, s, a
<1>8. CASE Cut
  <2>1. PICK m \in Nat : m <= Len(w) /\ w' = SubSeq(w, 1, m)
    <3>1. PICK n, m \in Nat :
             /\ n <= Len(wire["client"]) /\ m <= Len(wire["daemon"])
             /\ wire' = [e \in Ends |-> SubSeq(wire[e], 1, IF e = "client" THEN n ELSE m)]
      BY <1>8 DEF Cut
    <3> QED
      BY <1>1, <3>1
  <2>2. PICK d \in Nat : Carries(c, s, w', a, d)
    BY <1>1, <1>2, <2>1, CarriesPrefix
  <2>3. PeerGone("daemon")'
    BY <1>8 DEF Cut, PeerGone
  <2> QED
    BY <1>3, <2>2, <2>3 DEF Ordered, s, a
<1>9. CASE \/ DropSocket \/ WriterDrained \/ ReadDaemon \/ WriteFrame("client") \/ WriteFails("client")
           \/ \E e \in Ends : ReadEnds(e)
  <2>1. writer \in [Ends -> {"up", "ended"}]
    BY DEF IInv, TypeOK
  <2>2. w' = w /\ q' = q /\ writer'["daemon"] = writer["daemon"]
    BY <1>1, <1>9, <2>1 DEF DropSocket, WriterDrained, ReadDaemon, WriteFrame, WriteFails, ReadEnds
  <2> QED
    BY <1>5, <2>2
<1> QED
  BY <1>6, <1>7, <1>8, <1>9 DEF Ends

\* A call that was made has an id.
LEMMA HasId == ASSUME IInv, NEW c \in Calls, call[c].pc # "new" PROVE call[c].id # 0
<1>1. nextId \in Nat /\ call[c].id \in 1..(nextId - 1)
  BY DEF IInv, TypeOK, IdsDiffer
<1> QED
  BY <1>1

\* A call that was made keeps its id: its frames stay its own.
LEMMA OwnGrows ==
    ASSUME \A c \in Calls : call[c].pc # "new" => /\ call'[c].pc # "new" /\ call'[c].id = call[c].id
                                                  /\ call'[c].kind = call[c].kind
    PROVE  \A e \in Ends : Own(e) \subseteq Own(e)'
BY DEF Own, Frames, Items

\* A step no caller sees, and that sends nothing, is none of the promise.
LEMMA Unseen ==
    ASSUME \A c \in Calls : /\ call'[c].pc = call[c].pc /\ call'[c].got = call[c].got
                            /\ handler'[c].sent = handler[c].sent
    PROVE  Refined
<1>1. \A c \in Calls : Stage(c)' = Stage(c)
  BY DEF Stage
<1> QED
  BY <1>1 DEF Refined, Promise!callVars

\* The connection moves and loses frames: no caller sees it.
LEMMA PipeRInv ==
    ASSUME RInv,
           \/ DropSocket \/ WriterDrained \/ ReadDaemon \/ Cut
           \/ \E e \in Ends : WriteFrame(e) \/ WriteFails(e) \/ ReadEnds(e)
    PROVE  RInv' /\ Refined
<1>1. IInv /\ OnTheWay /\ Served /\ Waits /\ InOrder
  BY DEF RInv
<1>2. IInv'
  BY <1>1, PipeIInv
<1>3. call' = call /\ pending' = pending /\ streams' = streams /\ handler' = handler
  BY DEF DropSocket, WriterDrained, ReadDaemon, Cut, WriteFrame, WriteFails, ReadEnds, clientVars, daemonVars
<1>4. OnTheWay'
  <2> DEFINE S == [e \in Ends |-> Own(e)]
  <2>1. \A e \in Ends : S[e] = Own(e) /\ Own(e)' = Own(e)
    BY <1>3 DEF Own
  <2> HIDE DEF S
  <2>2. \A e \in Ends : /\ tx[e] \in Seq(S[e]) /\ wire[e] \in Seq(S[e])
                        /\ unmatched[Peer(e)] \in Seq(S[e])
    BY <1>1, <2>1 DEF OnTheWay
  <2>3. \A e \in Ends : /\ tx'[e] \in Seq(S[e]) /\ wire'[e] \in Seq(S[e])
                        /\ unmatched'[Peer(e)] \in Seq(S[e])
    BY <1>1, <2>2, PipeMoves
  <2> QED
    BY <2>1, <2>3 DEF OnTheWay
<1>5. Served' /\ Waits'
  BY <1>1, <1>3 DEF Served, Waits
<1>6. InOrder'
  <2>1. ASSUME NEW c \in Calls, Expects(c)' PROVE Ordered(c)'
    BY <1>1, <1>3, <2>1, PipeOrdered DEF InOrder, Expects
  <2> QED
    BY <2>1 DEF InOrder
<1>7. Refined
  BY <1>3, Unseen
<1> QED
  BY <1>2, <1>4, <1>5, <1>6, <1>7 DEF RInv

-----------------------------------------------------------------------------
(* The client *)

\* Where a client's step only adds to what is queued for the daemon, what comes
\* from it stays in order for every call that still expects it.
LEMMA ClientOrdered ==
    ASSUME InOrder, UNCHANGED <<wire, reader, linked, writer, handler>>, tx'["daemon"] = tx["daemon"],
           \A c \in Calls : /\ Expects(c)' => Expects(c)
                            /\ call'[c].got = call[c].got
    PROVE  InOrder'
<1>1. PeerGone("daemon")' = PeerGone("daemon")
  BY DEF PeerGone
<1>2. ASSUME NEW c \in Calls, Expects(c)' PROVE Ordered(c)'
  BY <1>1, <1>2 DEF InOrder, Ordered
<1> QED
  BY <1>2 DEF InOrder

\* A call is registered before it can be asked: this is the promise's Ask.
LEMMA StartRInv == ASSUME RInv, NEW c \in Calls, Start(c) PROVE RInv' /\ Refined
<1>1. IInv /\ OnTheWay /\ Served /\ Waits /\ InOrder
  BY DEF RInv
<1>2. IInv'
  BY <1>1, StartIInv
<1>3. /\ call \in [Calls -> [pc : CallPcs, kind : Kinds, id : Ids, got : Seq(Items)]]
      /\ nextId \in Ids /\ nextId # 0 /\ call[c].pc = "new" /\ call[c].id = 0
      /\ pending \in [Ids -> Calls \cup {NoCall}] /\ streams \in [Ids -> Calls \cup {NoCall}]
      /\ UNCHANGED <<tx, wire, unmatched, reader, linked, writer, handler>>
  <2>1. /\ nextId \in 1..MaxId /\ call[c].pc = "new"
        /\ UNCHANGED <<tx, wire, unmatched, reader, linked, writer, handler>>
    BY <1>1 DEF IInv, TypeOK, Start, pipeVars, daemonVars
  <2>2. call[c].id = 0
    BY <1>1, <2>1 DEF IInv, IdsDiffer
  <2>3. nextId \in Ids /\ nextId # 0
    BY <2>1, SocketAssumption DEF Ids
  <2> QED
    BY <1>1, <2>1, <2>2, <2>3 DEF IInv, TypeOK
<1>4. /\ call'[c].pc = "registered" /\ call'[c].id = nextId
      /\ call'[c].kind = call[c].kind /\ call'[c].got = call[c].got
      /\ \A d \in Calls : d # c => call'[d] = call[d]
  BY <1>3 DEF Start
<1>5. OnTheWay'
  <2>1. \A e \in Ends : Own(e) \subseteq Own(e)'
    BY <1>3, <1>4, OwnGrows
  <2> QED
    BY <1>1, <1>3, <2>1, SeqMonotone DEF OnTheWay
<1>6. Served'
  BY <1>1, <1>3, <1>4 DEF Served
<1>7. Waits'
  <2>1. ASSUME NEW d \in Calls, d # c PROVE call[d].id # nextId
    <3>1. call[d].id = 0 \/ call[d].id \in 1..(nextId - 1)
      BY <1>1 DEF IInv, IdsDiffer
    <3>2. nextId \in Nat /\ nextId # 0
      BY <1>3 DEF Ids
    <3> QED
      BY <3>1, <3>2
  <2>2. /\ pending' = IF call[c].kind = "stream" THEN pending ELSE [pending EXCEPT ![nextId] = c]
        /\ streams' = IF call[c].kind = "stream" THEN [streams EXCEPT ![nextId] = c] ELSE streams
    BY DEF Start
  <2>3. pending[nextId] # c /\ streams[nextId] # c
    BY <1>1, <1>3 DEF IInv, Registered
  <2>4. \A d \in Calls : call[d].id \in Ids
    BY <1>3
  <2>5. ASSUME NEW d \in Calls
        PROVE  LET open == call'[d].pc \in {"registered", "waiting", "streaming"}
               IN  /\ pending'[call'[d].id] = d <=> open /\ call'[d].kind # "stream"
                   /\ streams'[call'[d].id] = d <=> open /\ call'[d].kind = "stream"
    <3>1. CASE d = c
      BY <1>3, <1>4, <2>2, <2>3, <3>1
    <3>2. CASE d # c
      <4>1. call'[d] = call[d] /\ pending'[call[d].id] = pending[call[d].id]
            /\ streams'[call[d].id] = streams[call[d].id]
        BY <1>3, <1>4, <2>1, <2>2, <2>4, <3>2
      <4> QED
        BY <1>1, <4>1 DEF Waits
    <3> QED
      BY <3>1, <3>2
  <2> QED
    BY <2>5 DEF Waits
<1>8. InOrder'
  <2>1. \A d \in Calls : (Expects(d)' => Expects(d)) /\ call'[d].got = call[d].got
    BY <1>3, <1>4 DEF Expects
  <2> QED
    BY <1>1, <1>3, <2>1, ClientOrdered
<1>9. Refined
  <2>1. Stage(c) = "unasked" /\ Stage(c)' = "open"
    BY <1>3, <1>4 DEF Stage
  <2> QED
    BY <1>3, <1>4, <2>1, OneCall
<1> QED
  BY <1>2, <1>5, <1>6, <1>7, <1>8, <1>9 DEF RInv

\* The request is queued; or the caller is told that it can not be, or drops
\* its stream: the promise's Close.
LEMMA EnqueueRInv ==
    ASSUME RInv, NEW c \in Calls, Enqueue(c) \/ DropStream(c) PROVE RInv' /\ Refined
<1>1. IInv /\ OnTheWay /\ Served /\ Waits /\ InOrder
  BY DEF RInv
<1>2. IInv'
  BY <1>1, EnqueueIInv
<1>3. /\ call \in [Calls -> [pc : CallPcs, kind : Kinds, id : Ids, got : Seq(Items)]]
      /\ tx \in [Ends -> Seq(Frames)] /\ "client" \in Ends /\ "daemon" \in Ends
      /\ pending \in [Ids -> Calls \cup {NoCall}] /\ streams \in [Ids -> Calls \cup {NoCall}]
      /\ call[c].pc \in {"registered", "streaming"}
      /\ UNCHANGED <<wire, unmatched, reader, linked, writer, handler>>
  BY <1>1 DEF IInv, TypeOK, Enqueue, DropStream, Ends, pipeVars, daemonVars
<1>4. PICK p \in {"waiting", "streaming", "done", "failed"} :
         /\ call' = [call EXCEPT ![c].pc = p]
         /\ p \in {"waiting", "streaming"} => /\ pending' = pending /\ streams' = streams
         /\ p \in {"done", "failed"} => Deregister(c) /\ tx' = tx
  BY DEF Enqueue, DropStream, pipeVars
<1>5. /\ \A d \in Calls : /\ call'[d].id = call[d].id /\ call'[d].kind = call[d].kind
                          /\ call'[d].got = call[d].got
                          /\ d # c => call'[d].pc = call[d].pc
                          /\ call'[d].pc = "new" <=> call[d].pc = "new"
      /\ call'[c].pc = p
  BY <1>3, <1>4
<1>6. OnTheWay'
  <2>1. \A e \in Ends : Own(e) \subseteq Own(e)'
    BY <1>5, OwnGrows
  <2> DEFINE f == [mux |-> call[c].id, item |-> Item(c, "ask")]
  <2>2. f \in Own("client")
    <3>1. f \in Frames
      BY <1>3 DEF Frames, Item, Items, Bodies
    <3>2. f.item.of = c /\ f.mux = call[c].id
      BY DEF Item
    <3> QED
      BY <1>3, <3>1, <3>2 DEF Own
  <2> HIDE DEF f
  <2>3. tx' = tx \/ tx' = [tx EXCEPT !["client"] = Append(@, f)]
    BY DEF Enqueue, DropStream, pipeVars, f
  <2>4. ASSUME NEW e \in Ends PROVE tx'[e] \in Seq(Own(e))
    <3>1. tx[e] \in Seq(Own(e)) /\ tx["client"] \in Seq(Own("client"))
      BY <1>1, <1>3 DEF OnTheWay
    <3>2. Append(tx["client"], f) \in Seq(Own("client"))
      BY <2>2, <3>1
    <3> QED
      BY <1>3, <2>3, <3>1, <3>2
  <2> QED
    BY <1>1, <1>3, <2>1, <2>4, SeqMonotone DEF OnTheWay
<1>7. Served'
  BY <1>1, <1>3, <1>5 DEF Served
<1>8. Waits'
  <2>1. ASSUME NEW d \in Calls
        PROVE  LET open == call'[d].pc \in {"registered", "waiting", "streaming"}
               IN  /\ pending'[call'[d].id] = d <=> open /\ call'[d].kind # "stream"
                   /\ streams'[call'[d].id] = d <=> open /\ call'[d].kind = "stream"
    <3>1. call[d].id \in Ids /\ call[c].id \in Ids /\ d # NoCall
      BY <1>3
    <3>2. CASE p \in {"waiting", "streaming"}
      BY <1>1, <1>3, <1>4, <1>5, <3>2 DEF Waits
    <3>3. CASE p \in {"done", "failed"}
      <4>1. /\ pending' = [pending EXCEPT ![call[c].id] = NoCall]
            /\ streams' = [streams EXCEPT ![call[c].id] = NoCall]
        BY <1>4, <3>3 DEF Deregister
      <4>2. CASE d = c
        BY <1>3, <1>5, <3>1, <3>3, <4>1, <4>2
      <4>3. CASE d # c
        <5>1. call[d].id # call[c].id \/ (call[d].id = 0 /\ call[c].id = 0)
          BY <1>1, <4>3 DEF IInv, IdsDiffer
        <5>2. call[c].id # 0
          BY <1>1, <1>3, HasId
        <5>3. pending'[call[d].id] = pending[call[d].id] /\ streams'[call[d].id] = streams[call[d].id]
          BY <1>3, <3>1, <4>1, <5>1, <5>2
        <5>4. call'[d].id = call[d].id /\ call'[d].kind = call[d].kind /\ call'[d].pc = call[d].pc
          BY <1>5, <4>3
        <5>5. LET open == call[d].pc \in {"registered", "waiting", "streaming"}
              IN  /\ pending[call[d].id] = d <=> open /\ call[d].kind # "stream"
                  /\ streams[call[d].id] = d <=> open /\ call[d].kind = "stream"
          BY <1>1 DEF Waits
        <5> QED
          BY <5>3, <5>4, <5>5
      <4> QED
        BY <4>2, <4>3
    <3> QED
      BY <3>2, <3>3
  <2> QED
    BY <2>1 DEF Waits
<1>9. InOrder'
  <2>1. \A d \in Calls : (Expects(d)' => Expects(d)) /\ call'[d].got = call[d].got
    BY <1>3, <1>5 DEF Expects
  <2>2. tx'["daemon"] = tx["daemon"]
    BY <1>3 DEF Enqueue, DropStream, pipeVars
  <2> QED
    BY <1>1, <1>3, <2>1, <2>2, ClientOrdered
<1>10. Refined
  <2>1. Stage(c) = "open" /\ (Stage(c)' = "open" \/ Stage(c)' = "closed")
    BY <1>3, <1>5 DEF Stage
  <2> QED
    BY <1>3, <1>5, <2>1, OneCall
<1> QED
  BY <1>2, <1>6, <1>7, <1>8, <1>9, <1>10 DEF RInv

-----------------------------------------------------------------------------
(* The read task of the client *)

\* What is read for a call that expects it is its next item, and what is left
\* stays in order.
LEMMA ReadOrdered ==
    ASSUME IInv, ReadClient, NEW d \in Calls, Ordered(d)
    PROVE  LET f == Head(wire["daemon"])
               n == Len(call[d].got)
           IN  /\ f.item.of = d => n < Len(handler[d].sent) /\ f.item = handler[d].sent[n + 1]
               /\ Len(call'[d].got) = (IF f.item.of = d THEN n + 1 ELSE n) => Ordered(d)'
<1> DEFINE w == wire["daemon"]
           s == handler[d].sent
           n == Len(call[d].got)
<1>1. /\ "daemon" \in Ends /\ w \in Seq(Frames) /\ w # <<>> /\ n \in Nat /\ Len(s) \in Nat
      /\ wire = [e \in Ends |-> wire[e]]
  <2>1. "daemon" \in Ends /\ handler[d].sent \in Seq(Items)
    BY DEF Ends, IInv, TypeOK
  <2>2. n \in Nat
    <3>1. call[d].got \in Seq(ItemsOf(d))
      BY Known
    <3> QED
      BY <3>1
  <2>3. w # <<>>
    BY DEF ReadClient
  <2> QED
    BY <2>1, <2>2, <2>3, Known
<1>2. PICK b \in Nat :
         /\ Carries(d, s, w, n, b)
         /\ ~PeerGone("daemon") => \E e \in Nat : Carries(d, s, tx["daemon"], b, e) /\ (writer["daemon"] = "up" => e = Len(s))
  BY DEF Ordered
<1>3. /\ w' = Tail(w)
      /\ s' = s /\ tx' = tx /\ writer' = writer /\ PeerGone("daemon")' = PeerGone("daemon")
  <2>1. /\ wire' = [wire EXCEPT !["daemon"] = Tail(w)]
        /\ UNCHANGED <<tx, writer, reader, linked, handler>>
    BY DEF ReadClient, daemonVars
  <2> QED
    BY <1>1, <2>1 DEF PeerGone
<1>4. IF Head(w).item.of = d
         THEN /\ n + 1 <= Len(s) /\ Head(w).item = s[n + 1]
              /\ Carries(d, s, Tail(w), n + 1, b)
         ELSE Carries(d, s, Tail(w), n, b)
  BY <1>1, <1>2, CarriesTail
<1>5. ASSUME Len(call'[d].got) = IF Head(w).item.of = d THEN n + 1 ELSE n
      PROVE  Ordered(d)'
  <2>1. Carries(d, s', w', Len(call'[d].got), b)
    BY <1>3, <1>4, <1>5
  <2> QED
    BY <1>2, <1>3, <2>1 DEF Ordered
<1> HIDE DEF s
<1> QED
  BY <1>1, <1>4, <1>5 DEF s

\* The frame goes to the call it is of if that call is still open: the
\* promise's Deliver; else no caller sees it.
LEMMA ReadRInv == ASSUME RInv, ReadClient PROVE RInv' /\ Refined
<1> DEFINE f == Head(wire["daemon"])
           c == f.item.of
           waiting == IF f.mux = 0 THEN NoCall ELSE pending[f.mux]
           stream == IF f.mux = 0 THEN NoCall ELSE streams[f.mux]
<1>1. IInv /\ OnTheWay /\ Served /\ Waits /\ InOrder
  BY DEF RInv
<1>2. IInv'
  BY <1>1, ReadIInv
<1>3. /\ call \in [Calls -> [pc : CallPcs, kind : Kinds, id : Ids, got : Seq(Items)]]
      /\ pending \in [Ids -> Calls \cup {NoCall}] /\ streams \in [Ids -> Calls \cup {NoCall}]
      /\ "daemon" \in Ends /\ "client" \in Ends
      /\ wire \in [Ends -> Seq(Frames)] /\ unmatched \in [Ends -> Seq(Frames)]
      /\ wire["daemon"] \in Seq(Own("daemon")) /\ wire["daemon"] # <<>>
      /\ unmatched["client"] \in Seq(Own("daemon"))
  <2>1. Peer("daemon") = "client" /\ "daemon" \in Ends /\ "client" \in Ends
    BY DEF Peer, Ends
  <2> QED
    BY <1>1, <2>1 DEF IInv, TypeOK, OnTheWay, ReadClient
<1>4. f \in Own("daemon") /\ Tail(wire["daemon"]) \in Seq(Own("daemon"))
      /\ Append(unmatched["client"], f) \in Seq(Own("daemon"))
  BY <1>3, HeadMoves
<1>5. /\ c \in Calls /\ f.mux \in Ids /\ call[c].pc # "new"
      /\ f.mux = IF call[c].kind = "foreign" THEN 0 ELSE call[c].id
  BY <1>4 DEF Own, Frames, Items
<1>6. waiting \in {c, NoCall} /\ stream \in {c, NoCall}
  <2>1. ASSUME NEW d \in Calls, f.mux # 0, call[d].id = f.mux PROVE d = c
    BY <1>1, <1>5, <2>1 DEF IInv, IdsDiffer
  <2>2. \A i \in Ids : /\ pending[i] = NoCall \/ (pending[i] \in Calls /\ call[pending[i]].id = i)
                       /\ streams[i] = NoCall \/ (streams[i] \in Calls /\ call[streams[i]].id = i)
    BY <1>1, <1>3 DEF IInv, Registered
  <2> QED
    BY <1>5, <2>1, <2>2
<1>7. LET open == call[c].pc \in {"registered", "waiting", "streaming"}
          answered == call[c].kind # "foreign" /\ open
      IN  /\ waiting = c <=> answered /\ call[c].kind # "stream"
          /\ stream = c <=> answered /\ call[c].kind = "stream"
  <2>1. call[c].id # 0 /\ c # NoCall /\ call[c].id \in Ids
    BY <1>1, <1>3, <1>5, HasId
  <2>2. LET open == call[c].pc \in {"registered", "waiting", "streaming"}
        IN  /\ pending[call[c].id] = c <=> open /\ call[c].kind # "stream"
            /\ streams[call[c].id] = c <=> open /\ call[c].kind = "stream"
    BY <1>1, <1>5 DEF Waits
  <2> QED
    BY <1>5, <2>1, <2>2
<1>8. /\ wire' = [wire EXCEPT !["daemon"] = Tail(@)]
      /\ UNCHANGED <<streams, tx, handler>>
      /\ \/ /\ waiting = c
            /\ pending' = [pending EXCEPT ![f.mux] = NoCall]
            /\ call' = [call EXCEPT ![c].got = Append(@, f.item), ![c].pc = "done"]
            /\ unmatched' = unmatched
         \/ /\ waiting = NoCall /\ stream = c
            /\ call' = [call EXCEPT ![c].got = Append(@, f.item)]
            /\ pending' = pending /\ unmatched' = unmatched
         \/ /\ waiting = NoCall /\ stream = NoCall
            /\ unmatched' = [unmatched EXCEPT !["client"] = Append(@, f)]
            /\ pending' = pending /\ call' = call
  <2>1. c # NoCall
    BY <1>5
  <2>2. /\ wire' = [wire EXCEPT !["daemon"] = Tail(@)]
        /\ UNCHANGED <<streams, tx, handler>>
    BY DEF ReadClient, daemonVars
  <2> QED
    BY <1>6, <2>1, <2>2 DEF ReadClient
<1> HIDE DEF f, c, waiting, stream
<1>9. /\ \A d \in Calls : /\ d # c => call'[d] = call[d]
                          /\ call'[d].id = call[d].id /\ call'[d].kind = call[d].kind
                          /\ call'[d].pc = "new" <=> call[d].pc = "new"
      /\ call'[c].got = IF waiting = c \/ stream = c THEN Append(call[c].got, f.item) ELSE call[c].got
      /\ call'[c].pc = IF waiting = c THEN "done" ELSE call[c].pc
  <2>1. c # NoCall
    BY <1>5
  <2>2. CASE waiting = c /\ call' = [call EXCEPT ![c].got = Append(@, f.item), ![c].pc = "done"]
    BY <1>3, <1>5, <2>2
  <2>3. CASE waiting = NoCall /\ stream = c /\ call' = [call EXCEPT ![c].got = Append(@, f.item)]
    BY <1>3, <1>5, <2>1, <2>3
  <2>4. CASE waiting = NoCall /\ stream = NoCall /\ call' = call
    BY <1>5, <2>1, <2>4
  <2> QED
    BY <1>8, <2>2, <2>3, <2>4
<1>10. OnTheWay'
  <2>1. \A e \in Ends : Own(e) \subseteq Own(e)'
    BY <1>9, OwnGrows
  <2>2. ASSUME NEW e \in Ends
        PROVE  tx'[e] \in Seq(Own(e)) /\ wire'[e] \in Seq(Own(e)) /\ unmatched'[Peer(e)] \in Seq(Own(e))
    <3>1. tx[e] \in Seq(Own(e)) /\ wire[e] \in Seq(Own(e)) /\ unmatched[Peer(e)] \in Seq(Own(e))
      BY <1>1 DEF OnTheWay
    <3>2. /\ Peer(e) \in Ends /\ (Peer(e) = "client" <=> e = "daemon")
      BY DEF Peer, Ends
    <3> QED
      BY <1>3, <1>4, <1>8, <3>1, <3>2
  <2> QED
    BY <2>1, <2>2, SeqMonotone DEF OnTheWay
<1>11. Served'
  <2>1. handler' = handler
    BY <1>8
  <2>2. \A d \in Calls : /\ call'[d].id = call[d].id /\ call'[d].kind = call[d].kind
                         /\ call'[d].pc = "new" <=> call[d].pc = "new"
    BY <1>9
  <2> QED
    <3> SUFFICES ASSUME NEW d \in Calls
                 PROVE  /\ IF handler[d].pc = "none" THEN handler[d].sent = <<>>
                            ELSE call'[d].pc # "new" /\ handler[d].mux = call'[d].id
                        /\ handler[d].pc \in {"registered", "forwarding"} => call'[d].kind = "stream"
      BY <2>1 DEF Served
    <3>1. /\ IF handler[d].pc = "none" THEN handler[d].sent = <<>>
              ELSE call[d].pc # "new" /\ handler[d].mux = call[d].id
          /\ handler[d].pc \in {"registered", "forwarding"} => call[d].kind = "stream"
      BY <1>1 DEF Served
    <3>2. /\ call'[d].id = call[d].id /\ call'[d].kind = call[d].kind
          /\ call'[d].pc = "new" <=> call[d].pc = "new"
      BY <2>2
    <3> QED
      BY <3>1, <3>2
<1>12. Waits'
  <2>1. ASSUME NEW d \in Calls
        PROVE  LET open == call'[d].pc \in {"registered", "waiting", "streaming"}
               IN  /\ pending'[call'[d].id] = d <=> open /\ call'[d].kind # "stream"
                   /\ streams'[call'[d].id] = d <=> open /\ call'[d].kind = "stream"
    <3>1. LET open == call[d].pc \in {"registered", "waiting", "streaming"}
          IN  /\ pending[call[d].id] = d <=> open /\ call[d].kind # "stream"
              /\ streams[call[d].id] = d <=> open /\ call[d].kind = "stream"
      BY <1>1 DEF Waits
    <3>2. call[d].id \in Ids /\ d # NoCall
      BY <1>3
    <3>3. CASE waiting = c
      <4>1. pending' = [pending EXCEPT ![f.mux] = NoCall] /\ f.mux = call[c].id /\ call[c].kind # "stream"
            /\ streams' = streams /\ call[c].id # 0
        BY <1>1, <1>5, <1>7, <1>8, <3>3, HasId
      <4>2. CASE d = c
        BY <1>3, <1>9, <3>1, <3>2, <3>3, <4>1, <4>2
      <4>3. CASE d # c
        <5>1. call[d].id # call[c].id
          BY <1>1, <1>5, <4>1, <4>3 DEF IInv, IdsDiffer
        <5>2. pending'[call[d].id] = pending[call[d].id]
          BY <1>3, <1>5, <3>2, <4>1, <5>1
        <5> QED
          BY <1>9, <3>1, <4>1, <4>3, <5>2
      <4> QED
        BY <4>2, <4>3
    <3>4. CASE waiting # c
      <4>1. pending' = pending /\ streams' = streams /\ call'[d].pc = call[d].pc
            /\ call'[d].id = call[d].id /\ call'[d].kind = call[d].kind
        BY <1>8, <1>9, <3>4
      <4> QED
        BY <3>1, <4>1
    <3> QED
      BY <3>3, <3>4
  <2> QED
    BY <2>1 DEF Waits
<1>13. InOrder'
  <2>1. ASSUME NEW d \in Calls, Expects(d)' PROVE Ordered(d)'
    <3>1. Expects(d)
      BY <1>9, <2>1 DEF Expects
    <3>2. Ordered(d)
      BY <1>1, <3>1 DEF InOrder
    <3>3. Len(call'[d].got) = IF c = d THEN Len(call[d].got) + 1 ELSE Len(call[d].got)
      <4>1. CASE d # c
        BY <1>9, <4>1
      <4>2. CASE d = c
        <5>1. waiting = c \/ stream = c
          BY <1>3, <1>5, <1>7, <3>1, <4>2 DEF Expects, CallPcs
        <5>2. call[c].got \in Seq(Items) /\ call'[c].got = Append(call[c].got, f.item)
          BY <1>3, <1>5, <1>9, <5>1
        <5> QED
          BY <4>2, <5>2
      <4> QED
        BY <4>1, <4>2
    <3> QED
      BY <1>1, <3>2, <3>3, ReadOrdered DEF f, c
  <2> QED
    BY <2>1 DEF InOrder
<1>14. Refined
  <2>1. CASE waiting # c /\ stream # c
    <3>1. \A d \in Calls : call'[d].pc = call[d].pc /\ call'[d].got = call[d].got
      BY <1>9, <2>1
    <3> QED
      BY <1>8, <3>1, Unseen
  <2>2. CASE waiting = c \/ stream = c
    <3>1. call[c].pc \in {"registered", "waiting", "streaming"} /\ call[c].kind # "foreign"
      BY <1>7, <2>2
    <3>2. Ordered(c)
      BY <1>1, <1>5, <3>1 DEF InOrder, Expects
    <3>3. /\ Len(call[c].got) < Len(handler[c].sent)
          /\ f.item = handler[c].sent[Len(call[c].got) + 1]
      BY <1>1, <1>5, <3>2, ReadOrdered DEF f, c
    <3>4. call'[c].got = Append(call[c].got, handler[c].sent[Len(call[c].got) + 1])
      BY <1>9, <2>2, <3>3
    <3>5. PICK k \in Calls : k = c
      BY <1>5
    <3>6. Stage(k) = "open" /\ Stage(k)' \in {"open", "closed"}
      <4>1. call[k].pc \in {"registered", "waiting", "streaming"}
            /\ call'[k].pc \in {"registered", "waiting", "streaming", "done"}
        BY <1>9, <3>1, <3>5
      <4> QED
        BY <4>1 DEF Stage
    <3>7. \A d \in Calls : d # k => call'[d] = call[d]
      BY <1>9, <3>5
    <3> QED
      BY <1>8, <3>3, <3>4, <3>5, <3>6, <3>7, OneCall
  <2> QED
    BY <2>1, <2>2
<1> QED
  BY <1>2, <1>10, <1>11, <1>12, <1>13, <1>14 DEF RInv

-----------------------------------------------------------------------------
(* The daemon *)

\* The daemon's socket takes the next item of a call: the promise's Issue.
LEMMA IssueRInv ==
    ASSUME RInv, IInv', NEW c \in Calls, NEW x \in Items, x.of = c,
           handler[c].pc # "none", writer["daemon"] = "up",
           tx' = [tx EXCEPT !["daemon"] =
                     Append(@, [mux |-> IF call[c].kind = "foreign" THEN 0 ELSE handler[c].mux, item |-> x])],
           handler'[c].pc # "none", handler'[c].mux = handler[c].mux,
           handler'[c].pc \in {"registered", "forwarding"} => call[c].kind = "stream",
           handler'[c].sent = Append(handler[c].sent, x),
           \A d \in Calls : d # c => handler'[d] = handler[d],
           UNCHANGED <<writer, wire, reader, unmatched, linked, clientVars>>
    PROVE  RInv' /\ Refined
<1> DEFINE f == [mux |-> IF call[c].kind = "foreign" THEN 0 ELSE handler[c].mux, item |-> x]
           s == handler[c].sent
<1>1. IInv /\ OnTheWay /\ Served /\ Waits /\ InOrder
  BY DEF RInv
<1>2. call[c].pc # "new" /\ handler[c].mux = call[c].id
  BY <1>1 DEF Served
<1>3. /\ s \in Seq(Items) /\ Len(s) \in Nat /\ call[c].id \in Ids
      /\ tx \in [Ends -> Seq(Frames)] /\ wire["daemon"] \in Seq(Frames)
      /\ "daemon" \in Ends /\ "client" \in Ends /\ 0 \in Ids
  <2>1. 0 \in Ids /\ "daemon" \in Ends /\ "client" \in Ends
    BY DEF Ids, Ends
  <2>2. s \in Seq(Items) /\ tx \in [Ends -> Seq(Frames)]
    BY <1>1 DEF IInv, TypeOK
  <2>3. call[c].id \in Ids /\ wire["daemon"] \in Seq(Frames)
    BY <1>1, <2>1, Known
  <2>4. Len(s) \in Nat
    BY <2>2
  <2> QED
    BY <2>1, <2>2, <2>3, <2>4
<1>4. f \in Own("daemon") /\ f \in Frames /\ f.item = x
  BY <1>2, <1>3 DEF Own, Frames
<1> HIDE DEF f
<1>5. call' = call /\ pending' = pending /\ streams' = streams
      /\ UNCHANGED <<writer, wire, reader, unmatched, linked>>
      /\ tx' = [tx EXCEPT !["daemon"] = Append(@, f)]
  BY DEF clientVars, f
<1>6. OnTheWay'
  <2>1. \A e \in Ends : Own(e)' = Own(e)
    BY <1>5 DEF Own
  <2>2. tx["daemon"] \in Seq(Own("daemon"))
    BY <1>1, <1>3 DEF OnTheWay
  <2>3. Append(tx["daemon"], f) \in Seq(Own("daemon"))
    BY <1>4, <2>2
  <2>4. ASSUME NEW e \in Ends PROVE tx'[e] \in Seq(Own(e))
    BY <1>1, <1>3, <1>5, <2>3 DEF OnTheWay
  <2> QED
    BY <1>1, <1>5, <2>1, <2>4 DEF OnTheWay
<1>7. Served' /\ Waits'
  <2>1. Served'
    BY <1>1, <1>2, <1>5 DEF Served
  <2>2. Waits'
    BY <1>1, <1>5 DEF Waits
  <2> QED
    BY <2>1, <2>2
<1>8. InOrder'
  <2> SUFFICES ASSUME NEW d \in Calls, Expects(d)' PROVE Ordered(d)'
    BY DEF InOrder
  <2>1. Ordered(d) /\ PeerGone("daemon")' = PeerGone("daemon") /\ call'[d].got = call[d].got
    BY <1>1, <1>5 DEF InOrder, Expects, PeerGone
  <2>2. PICK b \in Nat :
           /\ Carries(d, handler[d].sent, wire["daemon"], Len(call[d].got), b)
           /\ ~PeerGone("daemon") =>
                 \E e \in Nat : /\ Carries(d, handler[d].sent, tx["daemon"], b, e)
                                /\ writer["daemon"] = "up" => e = Len(handler[d].sent)
    BY <2>1 DEF Ordered
  <2>3. tx["daemon"] \in Seq(Frames) /\ tx'["daemon"] = Append(tx["daemon"], f)
    BY <1>3, <1>5
  <2>4. CASE d # c
    <3>1. f.item.of # d /\ handler'[d].sent = handler[d].sent
      BY <1>4, <2>4
    <3>2. ~PeerGone("daemon") =>
             \E e \in Nat : /\ Carries(d, handler[d].sent, tx'["daemon"], b, e)
                            /\ writer["daemon"] = "up" => e = Len(handler[d].sent)
      <4> SUFFICES ASSUME ~PeerGone("daemon")
                   PROVE  \E e \in Nat : /\ Carries(d, handler[d].sent, tx'["daemon"], b, e)
                                         /\ writer["daemon"] = "up" => e = Len(handler[d].sent)
        OBVIOUS
      <4>1. PICK e \in Nat : /\ Carries(d, handler[d].sent, tx["daemon"], b, e)
                             /\ writer["daemon"] = "up" => e = Len(handler[d].sent)
        BY <2>2
      <4>2. Carries(d, handler[d].sent, Append(tx["daemon"], f), b, e)
        BY <1>4, <2>3, <3>1, <4>1, CarriesAppend
      <4> QED
        BY <2>3, <4>1, <4>2
    <3> QED
      BY <1>5, <2>1, <2>2, <3>1, <3>2 DEF Ordered
  <2>5. CASE d = c
    <3> DEFINE r == Append(s, x)
    <3>1. /\ handler'[c].sent = r /\ Len(r) = Len(s) + 1 /\ Len(s) + 1 \in Nat
          /\ r[Len(s) + 1] = f.item /\ f.item.of = c
      BY <1>3, <1>4
    <3>2. Carries(c, r, wire["daemon"], Len(call[c].got), b)
      BY <1>3, <2>2, <2>5, CarriesMore
    <3>3. ~PeerGone("daemon") => Carries(c, r, tx["daemon"], b, Len(s))
      <4>1. ~PeerGone("daemon") => Carries(c, s, tx["daemon"], b, Len(s))
        BY <2>2, <2>5
      <4> QED
        BY <1>3, <2>3, <4>1, CarriesMore
    <3> HIDE DEF r, s
    <3>4. ~PeerGone("daemon") => Carries(c, r, Append(tx["daemon"], f), b, Len(s) + 1)
      <4>1. Len(s) + 1 <= Len(r)
        BY <1>3, <3>1
      <4> QED
        BY <1>3, <1>4, <2>3, <3>1, <3>3, <4>1, CarriesAppend
    <3>5. /\ Carries(c, handler'[c].sent, wire'["daemon"], Len(call'[c].got), b)
          /\ ~PeerGone("daemon")' => /\ Carries(c, handler'[c].sent, tx'["daemon"], b, Len(s) + 1)
                                    /\ Len(s) + 1 = Len(handler'[c].sent)
      BY <1>5, <2>1, <2>3, <2>5, <3>1, <3>2, <3>4
    <3> QED
      BY <2>5, <3>1, <3>5 DEF Ordered
  <2> QED
    BY <2>4, <2>5
<1>9. Refined
  <2>1. Stage(c) # "unasked" /\ Stage(c)' = Stage(c)
    BY <1>2, <1>5 DEF Stage
  <2> QED
    BY <1>5, <2>1, OneCall
<1> QED
  BY <1>6, <1>7, <1>8, <1>9 DEF RInv

\* A step of the daemon that sends nothing: no caller sees it.
LEMMA QuietRInv ==
    ASSUME RInv, IInv', Served', UNCHANGED <<tx, writer, wire, reader, linked, clientVars>>,
           \A c \in Calls : handler'[c].sent = handler[c].sent,
           unmatched'["client"] = unmatched["client"], unmatched'["daemon"] \in Seq(Own("client"))
    PROVE  RInv' /\ Refined
<1>1. OnTheWay /\ Waits /\ InOrder
  BY DEF RInv
<1>2. UNCHANGED <<call, pending, streams, tx, writer, wire, reader, linked>>
  BY DEF clientVars
<1>3. OnTheWay'
  <2>1. \A e \in Ends : Own(e)' = Own(e)
    BY <1>2 DEF Own
  <2> QED
    BY <1>1, <1>2, <2>1 DEF OnTheWay, Ends, Peer
<1>4. Waits'
  BY <1>1, <1>2 DEF Waits
<1>5. InOrder'
  <2>1. \A c \in Calls : Expects(c)' => Ordered(c)'
    BY <1>1, <1>2 DEF InOrder, Expects, Ordered, PeerGone
  <2> QED
    BY <2>1 DEF InOrder
<1>6. Refined
  BY <1>2, Unseen
<1> QED
  BY <1>3, <1>4, <1>5, <1>6 DEF RInv

\* What Sends queues is issued, unless the write task has ended.
LEMMA SendsRInv ==
    ASSUME RInv, IInv', NEW c \in Calls, NEW mux, NEW body \in Bodies,
           mux = IF call[c].kind = "foreign" THEN 0 ELSE handler[c].mux,
           NEW sent \in HandlerPcs \ {"none"},
           sent \in {"registered", "forwarding"} => call[c].kind = "stream",
           handler[c].pc # "none", Sends(c, mux, body, sent, "done"),
           UNCHANGED <<writer, wire, reader, unmatched, linked, clientVars>>
    PROVE  RInv' /\ Refined
<1>1. handler \in [Calls -> HandlerRecords] /\ handler[c] \in HandlerRecords
  BY DEF RInv, IInv, TypeOK, HandlerRecords
<1>2. Item(c, body) \in Items /\ Item(c, body).of = c
  BY DEF Item, Items
<1>3. CASE writer["daemon"] = "up"
  <2>1. /\ tx' = [tx EXCEPT !["daemon"] = Append(@, [mux |-> mux, item |-> Item(c, body)])]
        /\ handler' = [handler EXCEPT ![c].pc = sent, ![c].sent = Append(@, Item(c, body))]
    BY <1>3 DEF Sends
  <2>2. /\ handler'[c].pc = sent /\ handler'[c].mux = handler[c].mux
        /\ handler'[c].sent = Append(handler[c].sent, Item(c, body))
        /\ \A d \in Calls : d # c => handler'[d] = handler[d]
    BY <1>1, <2>1 DEF HandlerRecords
  <2> QED
    BY <1>2, <1>3, <2>1, <2>2, IssueRInv
<1>4. CASE writer["daemon"] # "up"
  <2>1. tx' = tx /\ handler' = [handler EXCEPT ![c].pc = "done", ![c].chan = <<>>]
    BY <1>4 DEF Sends
  <2>2. /\ \A d \in Calls : handler'[d].sent = handler[d].sent /\ handler'[d].mux = handler[d].mux
        /\ \A d \in Calls : handler'[d].pc = handler[d].pc \/ (handler[d].pc # "none" /\ handler'[d].pc = "done")
    BY <1>1, <2>1 DEF HandlerRecords
  <2>3. Served'
    BY <2>2 DEF RInv, Served, clientVars
  <2>4. unmatched["daemon"] \in Seq(Own("client"))
    BY DEF RInv, OnTheWay, Ends, Peer
  <2> QED
    BY <2>1, <2>2, <2>3, <2>4, QuietRInv
<1> QED
  BY <1>3, <1>4

\* Answers, refusals, and the frames around a stream's rows.
LEMMA AnswerRInv ==
    ASSUME RInv, NEW c \in Calls,
           Answer(c) \/ RefuseStream(c) \/ StreamStarted(c) \/ FinishStream(c)
    PROVE  RInv' /\ Refined
<1>1. IInv'
  BY AnswerIInv DEF RInv
<1>2. handler[c].pc # "none" /\ UNCHANGED <<writer, wire, reader, unmatched, linked, clientVars>>
  BY DEF Answer, RefuseStream, StreamStarted, FinishStream
<1>3. \E body \in Bodies, sent \in {"done", "forwarding"} :
         /\ Sends(c, IF call[c].kind = "foreign" THEN 0 ELSE handler[c].mux, body, sent, "done")
         /\ sent = "forwarding" => call[c].kind = "stream"
  <2>1. CASE Answer(c)
    BY <2>1 DEF Answer, Bodies
  <2>2. CASE RefuseStream(c) \/ StreamStarted(c) \/ FinishStream(c)
    <3>1. call[c].kind = "stream"
      BY <2>2 DEF RefuseStream, StreamStarted, FinishStream, RInv, Served
    <3> QED
      BY <2>2, <3>1 DEF RefuseStream, StreamStarted, FinishStream, Bodies
  <2> QED
    BY <2>1, <2>2
<1> QED
  BY <1>1, <1>2, <1>3, SendsRInv DEF HandlerPcs

\* A row is the next item of its stream, unless the write task has ended.
LEMMA ForwardRInv == ASSUME RInv, NEW c \in Calls, ForwardRow(c) PROVE RInv' /\ Refined
<1> DEFINE x == Row(c, Head(handler[c].chan))
<1>1. IInv' /\ handler \in [Calls -> HandlerRecords] /\ handler[c] \in HandlerRecords
  BY ForwardIInv DEF RInv, IInv, TypeOK, HandlerRecords
<1>2. /\ handler[c].pc = "forwarding" /\ handler[c].chan # <<>> /\ call[c].kind = "stream"
      /\ UNCHANGED <<writer, wire, reader, unmatched, linked, clientVars>>
  BY DEF ForwardRow, RInv, Served
<1>3. x \in Items /\ x.of = c
  <2>1. Head(handler[c].chan) \in 1..MaxRows
    BY <1>1, <1>2 DEF HandlerRecords
  <2> QED
    BY <2>1 DEF Row, Items, Bodies
<1>4. CASE writer["daemon"] = "up"
  <2>1. /\ tx' = [tx EXCEPT !["daemon"] = Append(@, [mux |-> handler[c].mux, item |-> x])]
        /\ handler' = [handler EXCEPT ![c].chan = Tail(@), ![c].sent = Append(@, x)]
    BY <1>4 DEF ForwardRow
  <2> HIDE DEF x
  <2>2. /\ handler'[c].pc = "forwarding" /\ handler'[c].mux = handler[c].mux
        /\ handler'[c].sent = Append(handler[c].sent, x)
        /\ \A d \in Calls : d # c => handler'[d] = handler[d]
    BY <1>1, <1>2, <2>1 DEF HandlerRecords
  <2>3. PICK y \in Items : y = x
    BY <1>3
  <2> QED
    BY <1>1, <1>2, <1>3, <1>4, <2>1, <2>2, <2>3, IssueRInv
<1>5. CASE writer["daemon"] # "up"
  <2>1. tx' = tx /\ handler' = [handler EXCEPT ![c].pc = "done", ![c].chan = <<>>]
    BY <1>5 DEF ForwardRow
  <2>2. /\ \A d \in Calls : handler'[d].sent = handler[d].sent /\ handler'[d].mux = handler[d].mux
        /\ \A d \in Calls : handler'[d].pc = handler[d].pc \/ (handler[d].pc # "none" /\ handler'[d].pc = "done")
    BY <1>1, <1>2, <2>1 DEF HandlerRecords
  <2>3. Served'
    BY <1>2, <2>2 DEF RInv, Served, clientVars
  <2>4. unmatched["daemon"] \in Seq(Own("client"))
    BY DEF RInv, OnTheWay, Ends, Peer
  <2> QED
    BY <1>1, <1>2, <2>1, <2>2, <2>3, <2>4, QuietRInv
<1> QED
  BY <1>4, <1>5

\* A request is taken up, a callback registered, a row produced, the playbook
\* stopped: nothing is sent.
LEMMA DaemonRInv ==
    ASSUME RInv, Accept \/ StopPlaybook \/ ProduceRow \/ \E c \in Calls : RegisterCallback(c)
    PROVE  RInv' /\ Refined
<1>1. IInv' /\ handler \in [Calls -> HandlerRecords]
  BY DaemonIInv, ForwardIInv DEF RInv, IInv, TypeOK, HandlerRecords
<1>2. /\ Served /\ unmatched \in [Ends -> Seq(Frames)] /\ unmatched["daemon"] \in Seq(Own("client"))
      /\ "daemon" \in Ends /\ "client" \in Ends
  BY DEF RInv, OnTheWay, Ends, Peer, IInv, TypeOK
<1>3. UNCHANGED <<tx, writer, wire, reader, linked, clientVars>>
  BY DEF Accept, StopPlaybook, ProduceRow, RegisterCallback, pipeVars
<1>4. CASE Accept
  <2>1. unmatched["daemon"] # <<>>
    BY <1>4 DEF Accept
  <2>2. Head(unmatched["daemon"]) \in Own("client") /\ Tail(unmatched["daemon"]) \in Seq(Own("client"))
    BY <1>2, <2>1, HeadMoves
  <2>3. PICK f \in Own("client") : f = Head(unmatched["daemon"])
    BY <2>2
  <2>4. f.item.of \in Calls /\ call[f.item.of].pc # "new" /\ f.mux = call[f.item.of].id
    BY DEF Own, Frames, Items
  <2>5. /\ handler' = [handler EXCEPT ![f.item.of].pc = "running", ![f.item.of].mux = f.mux]
        /\ unmatched' = [unmatched EXCEPT !["daemon"] = Tail(@)]
    BY <1>4, <2>3 DEF Accept
  <2>6. \A c \in Calls : /\ handler'[c].sent = handler[c].sent
                         /\ c # f.item.of => handler'[c] = handler[c]
                         /\ c = f.item.of => handler'[c].pc = "running" /\ handler'[c].mux = f.mux
    BY <1>1, <2>4, <2>5 DEF HandlerRecords
  <2>7. Served'
    BY <1>2, <1>3, <2>4, <2>6 DEF Served, clientVars
  <2>8. unmatched'["client"] = unmatched["client"] /\ unmatched'["daemon"] \in Seq(Own("client"))
    BY <1>2, <2>2, <2>5
  <2> QED
    BY <1>1, <1>3, <2>6, <2>7, <2>8, QuietRInv
<1>5. CASE StopPlaybook \/ ProduceRow \/ \E c \in Calls : RegisterCallback(c)
  <2>1. unmatched' = unmatched
    BY <1>5 DEF StopPlaybook, ProduceRow, RegisterCallback, pipeVars
  <2>2. ASSUME NEW c \in Calls
        PROVE  /\ handler'[c].sent = handler[c].sent /\ handler'[c].mux = handler[c].mux
               /\ \/ handler'[c].pc = handler[c].pc
                  \/ /\ handler[c].pc = "running" /\ handler'[c].pc = "registered"
                     /\ call[c].kind = "stream"
    <3>1. CASE StopPlaybook
      BY <3>1 DEF StopPlaybook
    <3>2. CASE ProduceRow
      <4>1. handler'[c] = handler[c] \/ handler'[c] = [handler[c] EXCEPT !.chan = Append(@, rows + 1)]
        BY <3>2 DEF ProduceRow
      <4> QED
        BY <1>1, <4>1 DEF HandlerRecords
    <3>3. ASSUME NEW d \in Calls, RegisterCallback(d)
          PROVE  /\ handler'[c].sent = handler[c].sent /\ handler'[c].mux = handler[c].mux
                 /\ \/ handler'[c].pc = handler[c].pc
                    \/ /\ handler[c].pc = "running" /\ handler'[c].pc = "registered"
                       /\ call[c].kind = "stream"
      BY <1>1, <3>3 DEF RegisterCallback, HandlerRecords
    <3> QED
      BY <1>5, <3>1, <3>2, <3>3
  <2>3. Served'
    BY <1>2, <1>3, <2>2 DEF Served, clientVars
  <2> QED
    BY <1>1, <1>2, <1>3, <2>1, <2>2, <2>3, QuietRInv
<1> QED
  BY <1>4, <1>5

\* Every step keeps the order, and is a step of the promise or none of it.
LEMMA NextRInv == RInv /\ [Next]_vars => RInv' /\ Refined
<1> SUFFICES ASSUME RInv, [Next]_vars PROVE RInv' /\ Refined
  OBVIOUS
<1>1. CASE Next
  BY <1>1, StartRInv, EnqueueRInv, PipeRInv, ReadRInv, AnswerRInv, ForwardRInv, DaemonRInv DEF Next
<1>2. CASE UNCHANGED vars
  <2>1. UNCHANGED <<tx, writer, wire, reader, linked, clientVars, unmatched, handler>>
    BY <1>2 DEF vars, pipeVars, daemonVars
  <2>2. IInv'
    BY <1>2, NextIInv DEF RInv
  <2>3. Served'
    BY <2>1 DEF RInv, Served, clientVars
  <2>4. unmatched["daemon"] \in Seq(Own("client"))
    BY DEF RInv, OnTheWay, Ends, Peer
  <2> QED
    BY <2>1, <2>2, <2>3, <2>4, QuietRInv
<1> QED
  BY <1>1, <1>2

\* The connection implements a reliable ordered channel for every call: what a
\* caller has received is always a beginning of what the daemon issued for its
\* call, each item once and in order, whatever the other calls do and wherever
\* the connection is cut.
THEOREM ChannelPerCall == Spec => ImplementsRemoteCalls
<1>1. Init => RInv /\ Promise!Init
  BY InitRInv
<1>2. RInv /\ [Next]_vars => RInv' /\ [Promise!Next]_(Promise!callVars)
  BY NextRInv DEF Refined
<1> QED
  BY <1>1, <1>2, PTL DEF Spec, ImplementsRemoteCalls, Promise!Spec

=============================================================================
