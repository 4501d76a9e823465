---------------------------- MODULE WalManager ----------------------------
(***************************************************************************)
(* The write-ahead log of pyroduct (lib/pyroduct/src/format/wal.rs).       *)
(*                                                                         *)
(* Any number of tasks call send(); each clones the current channel        *)
(* sender, waits for room in the bounded channel and then counts its       *)
(* record in total_len.  One background loop per channel takes records off *)
(* it and appends them, synced, to the .pyrowal file of that channel.      *)
(* rotate() swaps in a new channel, waits for the old loop to end, and     *)
(* only then publishes the new file and starts its loop; interrupt() asks  *)
(* the loop to stop and waits for it.  The two hold the `inner` mutex.     *)
(*                                                                         *)
(* Channel c, its loop and its file belong together, so all three are      *)
(* indexed by c: 0 is the channel of WalManager::new, c + 1 the one made   *)
(* by the rotation that replaced c.                                        *)
(***************************************************************************)
EXTENDS Integers, Sequences

CONSTANTS
  Senders,        \* the tasks that call send()
  Bound,          \* capacity of a channel (WalManager::bound)
  MaxSends,       \* bound: calls of send() by one task
  MaxRotations,   \* bound: calls of rotate()
  None            \* the None of Option

ASSUME BoundAssumption == Bound \in Nat \ {0}
ASSUME MaxSendsAssumption == MaxSends \in Nat
ASSUME MaxRotationsAssumption == MaxRotations \in Nat
ASSUME NoneAssumption == None \notin Nat

Channels == 0 .. MaxRotations
Records == Senders \X (0 .. MaxSends)

VARIABLES
  cur,         \* the channel `sender` leads to
  pc,          \* where each task is in send()
  held,        \* the channel whose sender the task cloned
  calls,       \* number of send() calls the task has begun
  queue,       \* records in a channel, oldest first
  loop,        \* state of a channel's background loop
  file,        \* records in a channel's .pyrowal file
  accepted,    \* history: the records a channel took, in order
  path,        \* the channel whose file wal_path names
  handle,      \* inner.join_handle
  shutdownTx,  \* inner.shutdown_tx
  signalled,   \* channels whose loop was sent the shutdown signal
  op,          \* what the holder of the `inner` mutex is doing
  totalLen     \* total_len

senderVars == <<pc, held, calls>>
loopVars == <<loop, file>>
innerVars == <<cur, path, handle, shutdownTx, signalled, op>>
walVars == <<cur, pc, held, calls, queue, loop, file, accepted, path, handle,
          shutdownTx, signalled, op, totalLen>>

-----------------------------------------------------------------------------
(***************************************************************************)
(* A loop is "unspawned" between the swap and the spawn of a rotation,     *)
(* "running" in its select loop, "draining" after it, "dropping" when      *)
(* try_recv found nothing but the receiver still exists.  "ended" and      *)
(* "failed" loops have dropped their receiver; a "failed" one returned an  *)
(* I/O error, and an "abandoned" channel lost its receiver because rotate  *)
(* returned early.                                                         *)
(***************************************************************************)
LoopStates ==
  {"unspawned", "running", "draining", "dropping", "ended", "failed", "abandoned"}

Finished == {"ended", "failed", "abandoned"}

(***************************************************************************)
(* Definitions marked "Mutant" are plausible bugs: PROJECT.json names the   *)
(* definition each would replace.  No specification uses them.             *)
(***************************************************************************)
\* Senders that are still inside send() do not keep the channel open.
ReferencedByCurrentOnly(c) == c = cur

\* rotate() keeps its copy of the old sender.
ReferencedForever(c) == c <= cur

\* A sender clone of channel c is alive.
Referenced(c) == c = cur \/ \E s \in Senders : pc[s] # "idle" /\ held[s] = c

WalInit ==
  /\ cur = 0
  /\ pc = [s \in Senders |-> "idle"]
  /\ held = [s \in Senders |-> 0]
  /\ calls = [s \in Senders |-> 0]
  /\ queue = [c \in Channels |-> <<>>]
  /\ loop = [c \in Channels |-> IF c = 0 THEN "running" ELSE "unspawned"]
  /\ file = [c \in Channels |-> <<>>]
  /\ accepted = [c \in Channels |-> <<>>]
  /\ path = 0
  /\ handle = 0
  /\ shutdownTx = 0
  /\ signalled = {}
  /\ op = "idle"
  /\ totalLen = 0

-----------------------------------------------------------------------------
(* send() *)

\* self.sender.read().unwrap().clone()
SendClone(s) ==
  /\ pc[s] = "idle"
  /\ calls[s] < MaxSends
  /\ calls' = [calls EXCEPT ![s] = @ + 1]
  /\ held' = [held EXCEPT ![s] = cur]
  /\ pc' = [pc EXCEPT ![s] = "sending"]
  /\ UNCHANGED <<queue, loopVars, accepted, innerVars, totalLen>>

\* sender.send((index, record)).await succeeds: there is room and a receiver.
SendEnqueue(s) ==
  LET c == held[s]
      r == <<s, calls[s]>>
  IN /\ pc[s] = "sending"
     /\ loop[c] \notin Finished
     /\ Len(queue[c]) < Bound
     /\ queue' = [queue EXCEPT ![c] = Append(@, r)]
     /\ accepted' = [accepted EXCEPT ![c] = Append(@, r)]
     /\ pc' = [pc EXCEPT ![s] = "counting"]
     /\ UNCHANGED <<held, calls, loopVars, innerVars, totalLen>>

\* Mutant: the failed send is taken back from a count it never entered.
SendErrorUncounts(s) ==
  /\ pc[s] = "sending"
  /\ loop[held[s]] \in Finished
  /\ pc' = [pc EXCEPT ![s] = "idle"]
  /\ totalLen' = totalLen - 1
  /\ UNCHANGED <<held, calls, queue, loopVars, accepted, innerVars>>

\* The receiver is gone: send() returns SendError and counts nothing.
SendError(s) ==
  /\ pc[s] = "sending"
  /\ loop[held[s]] \in Finished
  /\ pc' = [pc EXCEPT ![s] = "idle"]
  /\ UNCHANGED <<held, calls, queue, loopVars, accepted, innerVars, totalLen>>

\* total_len.fetch_add(1), then the clone is dropped as send() returns Ok.
SendCount(s) ==
  /\ pc[s] = "counting"
  /\ totalLen' = totalLen + 1
  /\ pc' = [pc EXCEPT ![s] = "idle"]
  /\ UNCHANGED <<held, calls, queue, loopVars, accepted, innerVars>>

-----------------------------------------------------------------------------
(* The background loop *)

\* A record taken by recv() or try_recv() is appended and synced.
LoopAppend(c) ==
  /\ loop[c] \in {"running", "draining"}
  /\ queue[c] # <<>>
  /\ file' = [file EXCEPT ![c] = Append(@, Head(queue[c]))]
  /\ queue' = [queue EXCEPT ![c] = Tail(@)]
  /\ UNCHANGED <<senderVars, loop, accepted, innerVars, totalLen>>

\* The append fails: `?` ends the task, and the receiver goes with the queue.
LoopAppendFails(c) ==
  /\ loop[c] \in {"running", "draining"}
  /\ queue[c] # <<>>
  /\ loop' = [loop EXCEPT ![c] = "failed"]
  /\ queue' = [queue EXCEPT ![c] = <<>>]
  /\ UNCHANGED <<senderVars, file, accepted, innerVars, totalLen>>

\* Mutant: leaving the select loop closes the queue with its contents.
LoopBreakDropsQueue(c) ==
  /\ loop[c] = "running"
  /\ (queue[c] = <<>> /\ ~Referenced(c)) \/ c \in signalled
  /\ loop' = [loop EXCEPT ![c] = "draining"]
  /\ queue' = [queue EXCEPT ![c] = <<>>]
  /\ UNCHANGED <<senderVars, file, accepted, innerVars, totalLen>>

\* recv() yields None (empty, no sender left), or select! picks the signal.
LoopBreak(c) ==
  /\ loop[c] = "running"
  /\ (queue[c] = <<>> /\ ~Referenced(c)) \/ c \in signalled
  /\ loop' = [loop EXCEPT ![c] = "draining"]
  /\ UNCHANGED <<senderVars, queue, file, accepted, innerVars, totalLen>>

\* try_recv() finds the queue empty.
LoopDrained(c) ==
  /\ loop[c] = "draining"
  /\ queue[c] = <<>>
  /\ loop' = [loop EXCEPT ![c] = "dropping"]
  /\ UNCHANGED <<senderVars, queue, file, accepted, innerVars, totalLen>>

\* The task returns Ok(()) and drops its receiver, with what came in since.
LoopEnd(c) ==
  /\ loop[c] = "dropping"
  /\ loop' = [loop EXCEPT ![c] = "ended"]
  /\ queue' = [queue EXCEPT ![c] = <<>>]
  /\ UNCHANGED <<senderVars, file, accepted, innerVars, totalLen>>

-----------------------------------------------------------------------------
(* rotate() and interrupt(), one at a time under the `inner` mutex *)

\* Steps 1-4: swap the sender and drop the old one; then await the handle.
RotateSwap ==
  /\ op = "idle"
  /\ cur < MaxRotations
  /\ cur' = cur + 1
  /\ op' = "rotateJoin"
  /\ UNCHANGED <<senderVars, queue, loopVars, accepted, path, handle, shutdownTx,
                 signalled, totalLen>>

\* Mutant: the old loop is not awaited.
RotateSpawnWithoutJoin ==
  /\ op = "rotateJoin"
  /\ path' = cur
  /\ loop' = [loop EXCEPT ![cur] = "running"]
  /\ handle' = cur
  /\ shutdownTx' = cur
  /\ op' = "rotateStore"
  /\ UNCHANGED <<senderVars, cur, queue, file, accepted, signalled, totalLen>>

\* Mutant: the new loop is not spawned.
RotateSpawnsNothing ==
  /\ op = "rotateJoin"
  /\ handle # None => loop[handle] = "ended"
  /\ path' = cur
  /\ handle' = None
  /\ shutdownTx' = cur
  /\ op' = "rotateStore"
  /\ UNCHANGED <<senderVars, cur, queue, loopVars, accepted, signalled, totalLen>>

\* Steps 6-9: the old loop has ended (or was joined before); publish the new
\* path, spawn the new loop and store its handles.
RotateSpawn ==
  /\ op = "rotateJoin"
  /\ handle # None => loop[handle] = "ended"
  /\ path' = cur
  /\ loop' = [loop EXCEPT ![cur] = "running"]
  /\ handle' = cur
  /\ shutdownTx' = cur
  /\ op' = "rotateStore"
  /\ UNCHANGED <<senderVars, cur, queue, file, accepted, signalled, totalLen>>

\* The old loop returned an error: so does rotate, dropping the new receiver.
RotateFails ==
  /\ op = "rotateJoin"
  /\ handle # None
  /\ loop[handle] = "failed"
  /\ handle' = None
  /\ loop' = [loop EXCEPT ![cur] = "abandoned"]
  /\ queue' = [queue EXCEPT ![cur] = <<>>]
  /\ op' = "idle"
  /\ UNCHANGED <<senderVars, cur, file, accepted, path, shutdownTx, signalled,
                 totalLen>>

\* Step 10: total_len.store(new_records_written), which is 0 for a new writer.
RotateStore ==
  /\ op = "rotateStore"
  /\ totalLen' = 0
  /\ op' = "idle"
  /\ UNCHANGED <<senderVars, cur, queue, loopVars, accepted, path, handle,
                 shutdownTx, signalled>>

\* shutdown_tx.take() and send; then await the handle.
Interrupt ==
  /\ op = "idle"
  /\ shutdownTx # None
  /\ signalled' = signalled \cup {shutdownTx}
  /\ shutdownTx' = None
  /\ op' = "interruptJoin"
  /\ UNCHANGED <<senderVars, cur, queue, loopVars, accepted, path, handle, totalLen>>

\* The loop has ended, with or without an error, or there was none to await.
InterruptJoined ==
  /\ op = "interruptJoin"
  /\ handle # None => loop[handle] \in Finished
  /\ handle' = None
  /\ op' = "idle"
  /\ UNCHANGED <<senderVars, cur, queue, loopVars, accepted, path, shutdownTx,
                 signalled, totalLen>>

-----------------------------------------------------------------------------
Send(s) == SendClone(s) \/ SendEnqueue(s) \/ SendError(s) \/ SendCount(s)

LoopStep(c) == LoopAppend(c) \/ LoopBreak(c) \/ LoopDrained(c) \/ LoopEnd(c)

Join == RotateSpawn \/ RotateFails \/ RotateStore \/ InterruptJoined

WalNext ==
  \/ \E s \in Senders : Send(s)
  \/ \E c \in Channels : LoopStep(c) \/ LoopAppendFails(c)
  \/ RotateSwap
  \/ Interrupt
  \/ Join

WalSpec == WalInit /\ [][WalNext]_walVars

(***************************************************************************)
(* Tokio polls every ready task: a send() that has begun, a loop with work *)
(* and a rotate() or interrupt() whose handle is ready are run again.      *)
(* Nobody promises that send(), rotate() or interrupt() is ever called.    *)
(***************************************************************************)
WalFairness ==
  /\ \A s \in Senders : WF_walVars(SendEnqueue(s) \/ SendError(s) \/ SendCount(s))
  /\ \A c \in Channels : WF_walVars(LoopStep(c))
  /\ WF_walVars(Join)

WalFairSpec == WalSpec /\ WalFairness

-----------------------------------------------------------------------------
WalTypeOK ==
  /\ cur \in Channels
  /\ pc \in [Senders -> {"idle", "sending", "counting"}]
  /\ held \in [Senders -> Channels]
  /\ calls \in [Senders -> 0 .. MaxSends]
  /\ queue \in [Channels -> Seq(Records)]
  /\ loop \in [Channels -> LoopStates]
  /\ file \in [Channels -> Seq(Records)]
  /\ accepted \in [Channels -> Seq(Records)]
  /\ path \in Channels
  /\ handle \in Channels \cup {None}
  /\ shutdownTx \in Channels \cup {None}
  /\ signalled \in SUBSET Channels
  /\ op \in {"idle", "rotateJoin", "rotateStore", "interruptJoin"}
  /\ totalLen \in Nat

\* s is a prefix of t.
Precedes(s, t) == Len(s) <= Len(t) /\ s = SubSeq(t, 1, Len(s))

\* A .pyrowal file holds the records its channel took, in the order it took
\* them and none twice, whatever sends, rotations and stops interleave.
WrittenInOrder == \A c \in Channels : Precedes(file[c], accepted[c])

\* A loop that ended without a shutdown signal or an I/O error has written
\* every record its channel accepted: the promise of rotate's "ensuring
\* complete draining of all messages", on which flush_wal relies when it
\* deletes the rotated file.
RotationDrains ==
  \A c \in Channels :
    loop[c] = "ended" /\ c \notin signalled => file[c] = accepted[c]

\* While its loop is alive a channel has lost nothing: what it accepted is
\* in its file or still queued for it.
AliveKeepsAll ==
  \A c \in Channels : loop[c] \notin Finished => accepted[c] = file[c] \o queue[c]

\* When wal_path names a file, the loops of all earlier files are over.
OneWriterPerPath ==
  \A c \in Channels : c < path => loop[c] \in Finished

\* A file that wal_path has moved past never grows again.
SealedStaysSealed ==
  [][\A c \in Channels : c < path => file'[c] = file[c]]_walVars

\* Every record a channel accepted, from whichever task and however late, is
\* written, unless its loop fails or is interrupted: the file catches up with
\* the channel whenever more was accepted.
AcceptedIsWritten ==
  \A c \in Channels :
    []<>( \/ file[c] = accepted[c]
         \/ loop[c] \in {"failed", "abandoned"}
         \/ c \in signalled )

\* rotate() and interrupt() return: no task waits for a loop that waits for it.
JoinReturns == op # "idle" ~> op = "idle"

=============================================================================
