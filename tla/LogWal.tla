------------------------------ MODULE LogWal ------------------------------
(***************************************************************************)
(* The execution log of a pipeline (lib/pyroduct/src/format/log_wal.rs):   *)
(* segment files N.pyrolog of `capacity` entries, each with an index file  *)
(* N.pyrolog.idx of offsets.  Global index i is entry i % capacity of      *)
(* segment i / capacity.  All operations run under the pipeline's mutex;   *)
(* the process may end between any two writes.                             *)
(*                                                                         *)
(* append(e) is append_batch(<<e>>): both write offsets and entries        *)
(* through buffered writers and flush the index first.  An offset is the   *)
(* number of entries before it in the segment.                             *)
(*                                                                         *)
(* A frame is written in three pieces through a buffer of 8 KB, so that    *)
(* the end of the process may leave one that is cut short.  Nothing cuts   *)
(* it off again: open() does not count it and appends behind it, and a     *)
(* reader takes what follows for its rest and ends with an error.  What    *)
(* the index says of a segment with a cut frame is left out: reads by      *)
(* index are claimed only of a log whose process never ended in an append. *)
(***************************************************************************)
EXTENDS Integers, Sequences, FiniteSets, SequencesExt

CONSTANTS
  Capacity,     \* entries of a segment
  BatchSizes,   \* sizes of the batches appended
  Keeps,        \* arguments of delete_older_than
  MaxEntries,   \* bound: entries appended
  MaxSegments,  \* bound: segment numbers
  MaxCrashes,   \* bound: ends of the process
  Absent        \* a missing file, and the None of Option

ASSUME CapacityAssumption == Capacity \in Nat \ {0}
ASSUME SizesAssumption == BatchSizes \subseteq Nat \ {0} /\ Keeps \subseteq Nat
ASSUME BoundsAssumption == MaxEntries \in Nat /\ MaxSegments \in Nat /\ MaxCrashes \in Nat
ASSUME AbsentAssumption == Absent \notin Nat \cup Seq(Nat)

Segments == 0 .. MaxSegments
Entries == 1 .. MaxEntries

VARIABLES
  seg, idx,            \* the files of each segment: whole entries, offsets, or Absent
  torn,                \* torn[n]: whole entries of n before its first cut frame, or Absent
  up,                  \* a LogWal is open
  currentFileIndex, oldestFileIndex, currentEntries, totalEntries,
  logBuf, idxBuf,      \* what the buffered writers hold
  todo,                \* entries of the batch still to be written
  doomed,              \* segments delete_older_than has still to remove
  stage,               \* "idle", or the step of append_batch or delete_older_than
  sent,                \* history: the number of entries handed to append
  batch,               \* history: the entries of the batch being appended
  acked,               \* history: entries of the batches that returned Ok
  removable,           \* history: entries a deletion was allowed to remove
  hidden,              \* history: entries handed in while a cut frame was in the log
  dirty,               \* history: the process ended inside an append or a deletion
  miscounted,          \* history: open() counted entries behind a cut frame
  purged,              \* history: a full purge of a segment after 0, since open
  crashes

fileVars == <<seg, idx, torn>>
memVars == <<currentFileIndex, oldestFileIndex, currentEntries, totalEntries>>
bufVars == <<logBuf, idxBuf>>
historyVars == <<sent, batch, acked, removable, hidden, dirty, miscounted, purged, crashes>>
logVars == <<fileVars, up, memVars, bufVars, todo, doomed, stage, historyVars>>

-----------------------------------------------------------------------------
Present(files) == {n \in Segments : files[n] # Absent}
NewFile(f) == IF f = Absent THEN <<>> ELSE f
Offsets(entries) == [k \in 1 .. Len(entries) |-> k - 1]

\* ensure_index_file(n): an index that is missing, or empty beside entries, is rebuilt.
EnsuredIndex(files, index, n) ==
  IF files[n] # Absent /\ (index[n] = Absent \/ (index[n] = <<>> /\ files[n] # <<>>))
  THEN Offsets(files[n])
  ELSE index[n]

\* LogWalReader::get(i)
Get(i) ==
  LET n == i \div Capacity
      k == i % Capacity
      offsets == EnsuredIndex(seg, idx, n)
  IN IF n \notin Present(seg) \/ offsets = Absent \/ k >= Len(offsets) THEN Absent
     ELSE IF offsets[k + 1] >= Len(seg[n]) THEN Absent
     ELSE seg[n][offsets[k + 1] + 1]

\* The places of the whole entries on disk
Places == UNION {{<<n, k>> : k \in 1 .. Len(seg[n])} : n \in Present(seg)}

\* LogWalReader::next goes segment after segment, each from its beginning, ...
ReadBefore(p, q) == p[1] < q[1] \/ (p[1] = q[1] /\ p[2] < q[2])

EntryAt(p) == seg[p[1]][p[2]]

OnDisk == {EntryAt(p) : p \in Places}

\* ... up to the first frame that was cut short.
BehindTear(p) == \E m \in Present(seg) : torn[m] # Absent /\ (m < p[1] \/ (m = p[1] /\ torn[m] < p[2]))

ReadAll == {EntryAt(p) : p \in {q \in Places : ~BehindTear(q)}}

\* All on disk but the last `keep` entries
AllBut(keep) == {EntryAt(p) : p \in {p \in Places : Cardinality({q \in Places : ReadBefore(p, q)}) >= keep}}

\* oldest_log() and youngest_log()
OldestLog == IF totalEntries = 0 THEN Absent ELSE oldestFileIndex * Capacity
YoungestLog == IF totalEntries = 0 THEN Absent ELSE totalEntries - 1

-----------------------------------------------------------------------------
LogInit ==
  /\ seg = [n \in Segments |-> IF n = 0 THEN <<>> ELSE Absent]
  /\ idx = [n \in Segments |-> IF n = 0 THEN <<>> ELSE Absent]
  /\ torn = [n \in Segments |-> Absent]
  /\ up = TRUE
  /\ currentFileIndex = 0 /\ oldestFileIndex = 0
  /\ currentEntries = 0 /\ totalEntries = 0
  /\ logBuf = <<>> /\ idxBuf = <<>>
  /\ todo = <<>> /\ doomed = {} /\ stage = "idle"
  /\ sent = 0 /\ batch = {} /\ acked = {} /\ removable = {} /\ hidden = {}
  /\ dirty = FALSE /\ miscounted = FALSE /\ purged = FALSE /\ crashes = 0

-----------------------------------------------------------------------------
(* append, append_batch, rotate *)

\* append_batch(records) begins, with the next n entries.
AppendBatch(n) ==
  /\ up /\ stage = "idle"
  /\ sent + n <= MaxEntries
  /\ todo' = [k \in 1 .. n |-> sent + k]
  /\ sent' = sent + n
  /\ batch' = sent + 1 .. sent + n
  /\ hidden' = IF \E m \in Segments : torn[m] # Absent THEN hidden \cup batch' ELSE hidden
  /\ stage' = "write"
  /\ UNCHANGED <<fileVars, up, memVars, bufVars, doomed, acked, removable, dirty, miscounted,
                 purged, crashes>>

\* The segment takes no more entries.
Full == currentEntries >= Capacity

\* One record goes to the two buffers.
BufferEntry ==
  /\ stage = "write" /\ todo # <<>> /\ ~Full
  /\ idxBuf' = Append(idxBuf, currentEntries)
  /\ logBuf' = Append(logBuf, Head(todo))
  /\ todo' = Tail(todo)
  /\ currentEntries' = currentEntries + 1
  /\ totalEntries' = totalEntries + 1
  /\ UNCHANGED <<fileVars, up, currentFileIndex, oldestFileIndex, doomed, stage, historyVars>>

\* A full BufWriter writes early; the offsets are too small to do so.
SpillLog ==
  /\ stage = "write" /\ logBuf # <<>>
  /\ seg' = [seg EXCEPT ![currentFileIndex] = @ \o logBuf]
  /\ logBuf' = <<>>
  /\ UNCHANGED <<idx, torn, up, memVars, idxBuf, todo, doomed, stage, historyVars>>

\* rotate(): the entries are flushed first, ...
RotateFlushLog ==
  /\ stage = "write" /\ todo # <<>> /\ Full
  /\ currentFileIndex < MaxSegments
  /\ seg' = [seg EXCEPT ![currentFileIndex] = @ \o logBuf]
  /\ logBuf' = <<>>
  /\ stage' = "rotate"
  /\ UNCHANGED <<idx, torn, up, memVars, idxBuf, todo, doomed, historyVars>>

\* Mutant: rotate() forgets the buffered offsets.
FlushedIndexLost == idx

\* The index file once the buffered offsets are flushed.
FlushedIndex == [idx EXCEPT ![currentFileIndex] = @ \o idxBuf]

\* ... then the offsets, and the next segment is opened.
RotateOpenNext ==
  LET next == currentFileIndex + 1
  IN /\ stage = "rotate"
     /\ idx' = [FlushedIndex EXCEPT ![next] = NewFile(@)]
     /\ idxBuf' = <<>>
     /\ seg' = [seg EXCEPT ![next] = NewFile(@)]
     /\ currentFileIndex' = next
     /\ currentEntries' = 0
     /\ stage' = "write"
     /\ UNCHANGED <<torn, up, oldestFileIndex, totalEntries, logBuf, todo, doomed, historyVars>>

\* flush(): the offsets, ...
FlushIndex ==
  /\ stage = "write" /\ todo = <<>>
  /\ idx' = FlushedIndex
  /\ idxBuf' = <<>>
  /\ stage' = "flush"
  /\ UNCHANGED <<seg, torn, up, memVars, logBuf, todo, doomed, historyVars>>

\* ... then the entries, and the batch returns Ok.
FlushLog ==
  /\ stage = "flush"
  /\ seg' = [seg EXCEPT ![currentFileIndex] = @ \o logBuf]
  /\ acked' = acked \cup batch
  /\ logBuf' = <<>>
  /\ stage' = "idle"
  /\ UNCHANGED <<idx, torn, up, memVars, idxBuf, todo, doomed, sent, batch, removable, hidden,
                 dirty, miscounted, purged, crashes>>

-----------------------------------------------------------------------------
(* delete_older_than *)

Cutoff(keep) == IF totalEntries > keep THEN totalEntries - keep ELSE 0

\* Mutant: a segment goes when its first entry is old enough.
OldByFirstEntry(n, cutoff) == n < currentFileIndex /\ n * Capacity <= cutoff

\* Every entry of segment n is older than the cutoff, and it is not the active one.
OldSegment(n, cutoff) == n < currentFileIndex /\ (n + 1) * Capacity <= cutoff

Doomed(cutoff) == {n \in Present(seg) : OldSegment(n, cutoff)}

\* What a deletion is asked to remove: where open() miscounted, what its numbers say.
AskedToRemove(keep) ==
  AllBut(keep) \cup (IF miscounted THEN {EntryAt(p) : p \in {q \in Places : q[1] \in Doomed(Cutoff(keep))}}
                                  ELSE {})

\* delete_older_than(keep) collects the old segments, ...
DeleteOlderThan(keep) ==
  /\ up /\ stage = "idle"
  /\ keep = 0 \/ Cutoff(keep) # 0
  /\ keep = 0 \/ Doomed(Cutoff(keep)) # {}
  /\ doomed' = Doomed(Cutoff(keep))
  /\ stage' = IF keep = 0 THEN "purge" ELSE "delete"
  /\ removable' = removable \cup AskedToRemove(keep)
  /\ UNCHANGED <<fileVars, up, memVars, bufVars, todo, sent, batch, acked, hidden, dirty,
                 miscounted, purged, crashes>>

\* ... removes them in the order of the directory, ...
RemoveSegment(n) ==
  /\ stage \in {"delete", "purge"} /\ n \in doomed
  /\ seg' = [seg EXCEPT ![n] = Absent]
  /\ idx' = [idx EXCEPT ![n] = Absent]
  /\ torn' = [torn EXCEPT ![n] = Absent]
  /\ doomed' = doomed \ {n}
  /\ UNCHANGED <<up, memVars, bufVars, todo, stage, historyVars>>

\* The first segment that is left.
OldestLeft == Min(Present(seg))

\* ... and finds the oldest segment that is left,
EndDeletion ==
  /\ stage = "delete" /\ doomed = {}
  /\ oldestFileIndex' = OldestLeft
  /\ stage' = "idle"
  /\ UNCHANGED <<fileVars, up, currentFileIndex, currentEntries, totalEntries, bufVars, todo,
                 doomed, historyVars>>

\* or, when nothing is kept, empties the active segment: its entries ...
TruncateLog ==
  /\ stage = "purge" /\ doomed = {}
  /\ seg' = [seg EXCEPT ![currentFileIndex] = <<>>]
  /\ torn' = [torn EXCEPT ![currentFileIndex] = Absent]
  /\ stage' = "truncate"
  /\ UNCHANGED <<idx, up, memVars, bufVars, todo, doomed, historyVars>>

\* The index files after the truncation
OffsetsCleared == [idx EXCEPT ![currentFileIndex] = <<>>]

\* ... and its offsets.
TruncateIndex ==
  /\ stage = "truncate"
  /\ idx' = OffsetsCleared
  /\ currentEntries' = 0 /\ totalEntries' = 0
  /\ oldestFileIndex' = currentFileIndex
  /\ stage' = "idle"
  /\ purged' = (purged \/ currentFileIndex > 0)
  /\ UNCHANGED <<seg, torn, up, currentFileIndex, bufVars, todo, doomed, sent, batch, acked,
                 removable, hidden, dirty, miscounted, crashes>>

-----------------------------------------------------------------------------
(* The end of the process and open *)

\* The process ends, and a frame that was on its way may be cut short.
Crash(cut) ==
  /\ up /\ crashes < MaxCrashes
  /\ cut => logBuf # <<>>
  /\ torn' = IF cut /\ torn[currentFileIndex] = Absent
             THEN [torn EXCEPT ![currentFileIndex] = Len(seg[currentFileIndex])] ELSE torn
  /\ up' = FALSE
  /\ crashes' = crashes + 1
  /\ dirty' = (dirty \/ stage # "idle")
  /\ logBuf' = <<>> /\ idxBuf' = <<>> /\ todo' = <<>> /\ doomed' = {} /\ stage' = "idle"
  /\ UNCHANGED <<seg, idx, memVars, sent, batch, acked, removable, hidden, miscounted, purged>>

\* total_entries of a log whose active segment n has that many entries
TotalOf(n, entries) == n * Capacity + entries

\* There are frames behind a cut one.
Swallows(n) == torn[n] # Absent /\ torn[n] < Len(seg[n])

\* How many entries open() counts: behind a cut frame that depends on its length.
Counts(n) == IF Swallows(n) THEN torn[n] .. Len(seg[n]) + 1 ELSE {Len(seg[n])}

\* LogWal::open, which counts the entries of the last segment
Open(counted) ==
  LET last == Max(Present(seg))
      full == counted >= Capacity
      cur == IF full THEN last + 1 ELSE last
      entries == IF full THEN 0 ELSE counted
      files == [seg EXCEPT ![cur] = NewFile(@)]
  IN /\ ~up
     /\ counted \in Counts(last)
     /\ cur <= MaxSegments
     /\ up' = TRUE
     /\ seg' = files
     /\ idx' = [n \in Segments |-> IF n = cur THEN NewFile(EnsuredIndex(files, idx, n))
                                   ELSE EnsuredIndex(files, idx, n)]
     /\ currentFileIndex' = cur
     /\ oldestFileIndex' = Min(Present(seg))
     /\ currentEntries' = entries
     /\ totalEntries' = TotalOf(cur, entries)
     /\ miscounted' = (miscounted \/ Swallows(last))
     /\ purged' = FALSE
     /\ UNCHANGED <<torn, bufVars, todo, doomed, stage, sent, batch, acked, removable, hidden,
                    dirty, crashes>>

LogNext ==
  \/ \E n \in BatchSizes : AppendBatch(n)
  \/ BufferEntry \/ SpillLog \/ RotateFlushLog \/ RotateOpenNext \/ FlushIndex \/ FlushLog
  \/ \E keep \in Keeps : DeleteOlderThan(keep)
  \/ \E n \in Segments : RemoveSegment(n)
  \/ EndDeletion \/ TruncateLog \/ TruncateIndex
  \/ \E cut \in BOOLEAN : Crash(cut)
  \/ \E counted \in 0 .. MaxEntries + 1 : Open(counted)

LogSpec == LogInit /\ [][LogNext]_logVars

-----------------------------------------------------------------------------
(* Properties *)

\* Every variable has its type; no segment is given more than capacity entries
\* after those that open() counted.
LogTypeOK ==
  /\ seg \in [Segments -> Seq(Entries) \cup {Absent}]
  /\ idx \in [Segments -> Seq(Nat) \cup {Absent}]
  /\ torn \in [Segments -> Nat \cup {Absent}]
  /\ up \in BOOLEAN
  /\ currentFileIndex \in Segments /\ oldestFileIndex \in Segments
  /\ currentEntries \in 0 .. Capacity /\ totalEntries \in Nat
  /\ logBuf \in Seq(Entries) /\ idxBuf \in Seq(Nat) /\ todo \in Seq(Entries)
  /\ doomed \subseteq Segments
  /\ stage \in {"idle", "write", "rotate", "flush", "delete", "purge", "truncate"}
  /\ sent \in 0 .. MaxEntries /\ batch \subseteq Entries /\ acked \subseteq Entries /\ removable \subseteq Entries
  /\ hidden \subseteq Entries
  /\ dirty \in BOOLEAN /\ miscounted \in BOOLEAN /\ purged \in BOOLEAN /\ crashes \in 0 .. MaxCrashes

Settled == up /\ stage = "idle"

GetAgreesWithLog ==
  \A n \in Present(seg) : \A k \in 1 .. Len(seg[n]) : Get(n * Capacity + k - 1) = seg[n][k]

\* get(i) reads the entry a sequential read finds at place i, as long as the
\* process never ended inside an append or a deletion.
GetReadsEntry == ~dirty => GetAgreesWithLog

\* No crash, rotation or deletion loses an entry whose append returned Ok, but
\* those a deletion was asked to remove: it is in a segment, and a reader finds it
\* there unless it was handed in while a cut frame was in the log.  Entries are
\* read in the order appended.
AckedEntriesKept ==
  Settled =>
    /\ acked \ removable \subseteq OnDisk
    /\ acked \ (removable \cup hidden) \subseteq ReadAll
    /\ \A p, q \in Places : ReadBefore(p, q) => EntryAt(p) < EntryAt(q)

\* total_entries is the global index of the next entry, so that oldest_log and
\* youngest_log are indices get() answers, until a full purge of a later segment,
\* or an open that counted entries behind a cut frame.
BoundsAreReadable ==
  ~purged /\ ~miscounted =>
    /\ totalEntries = currentFileIndex * Capacity + Len(seg[currentFileIndex])
    /\ totalEntries # 0 /\ YoungestLog >= OldestLog /\ ~dirty =>
         Get(OldestLog) # Absent /\ Get(YoungestLog) # Absent

\* The segments present are consecutive and end with the active one: nothing
\* is lost between two segments that are kept, as long as no deletion was cut short.
SegmentsAreConsecutive ==
  ~purged /\ ~dirty => Present(seg) = oldestFileIndex .. currentFileIndex

\* The three ways to find an entry agree once an operation has returned: its index,
\* the bounds that are given out, and the segments on disk.
IndexFindsEntries ==
  /\ LogTypeOK
  /\ Settled => GetReadsEntry /\ BoundsAreReadable /\ SegmentsAreConsecutive
=============================================================================
