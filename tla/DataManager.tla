---------------------------- MODULE DataManager ----------------------------
(***************************************************************************)
(* The row store of a pipeline (lib/pyroduct/src/pipeline/data.rs).        *)
(*                                                                         *)
(* A pushed row goes to the in-memory PreBatch and, through the background *)
(* writer, to wal_N.pyrowal.  A full WAL is flushed to batch_N.arrow, and  *)
(* enough of those are rolled out to one rollout_M.parquet.  SQLite maps a *)
(* row index to its WAL and a WAL to its Parquet file.  push_record,       *)
(* flush_wal, rollout_to_parquet and every read hold the `state` lock; the *)
(* background writer, the guards of SQL providers (a mutex of their own)   *)
(* and the end of the process do not.                                      *)
(*                                                                         *)
(* The background writer is the one of module WalManager, reduced to what  *)
(* its theorems say: a FIFO that a rotation drains.                        *)
(***************************************************************************)
EXTENDS Integers, Sequences, FiniteSets, SequencesExt

CONSTANTS
  Indices,          \* row indices the pipeline pushes
  Providers,        \* SQL table providers
  WalCapacity,      \* rows in a WAL (wal_capacity)
  IpcCapacity,      \* Arrow files in a rollout (ipc_capacity)
  ReuseIndices,     \* whether an index may be pushed twice
  MaxRows,          \* bound: rows pushed
  MaxWals,          \* bound: WAL ids
  MaxHalts,         \* bound: ends of the process, errors among them
  MaxFaults,        \* bound: I/O or SQLite errors
  None              \* None of Option, a missing file or table row

ASSUME CapacityAssumption == WalCapacity \in Nat \ {0} /\ IpcCapacity \in Nat \ {0}
ASSUME ProvidersAssumption == IsFiniteSet(Providers)
ASSUME BoundsAssumption == MaxRows \in Nat /\ MaxWals \in Nat \ {0}
                           /\ MaxHalts \in Nat /\ MaxFaults \in Nat

WalIds == 1 .. MaxWals
Rows == Indices \X (1 .. MaxRows)       \* a row: its index and its place in the history

ASSUME NoneAssumption == None \notin Nat \cup Seq(Rows) \cup (WalIds \X Nat)

VARIABLES
  wal, arrow, parquet,        \* files by id: their rows, or None
  walIndex, walToParquet,     \* the SQLite tables wal_index and wal_to_parquet
  up,                         \* a manager exists
  walOpen, sink,              \* wal_manager.is_some(), and the WAL its writer appends to
  writer,                     \* the background writer: running, failed with nobody told, or gone
  currentWalId, prebatch, currentWalRows,
  queue,                      \* rows sent to the background writer
  ipcFiles, ipcRowCounts, ipcFilePaths,
  totalParquetRows, parquetRowCounts, parquetFilePaths,
  activeReaders, pendingDeletions,
  guards,                     \* the IpcFileGuards each provider holds
  op,                         \* the step the holder of the state lock is at
  flight,                     \* the batch and the index map rotate() returned
  rolling,                    \* the local variables of rollout_to_parquet_inner
  pushed,                     \* history: every row appended
  before,                     \* history: how many of them a fresh manager left behind
  trouble,                    \* history: the errors and crashes that met this directory, and
                              \* whether a manager was restored after one, or after a fresh manager
  halts, faults

diskVars == <<wal, arrow, parquet, walIndex, walToParquet>>
walVars == <<walOpen, sink, currentWalId, prebatch, currentWalRows>>
ipcVars == <<ipcFiles, ipcRowCounts, ipcFilePaths>>
parquetVars == <<totalParquetRows, parquetRowCounts, parquetFilePaths>>
readerVars == <<activeReaders, pendingDeletions, guards>>
boundVars == <<writer, before, trouble, halts, faults>>
vars == <<diskVars, up, walVars, queue, ipcVars, parquetVars, readerVars, op,
          flight, rolling, pushed, boundVars>>

-----------------------------------------------------------------------------
NoRows == [i \in Indices |-> None]
NoFlight == [batch |-> <<>>, rows |-> NoRows]
NoRollout == [files |-> <<>>, next |-> 1, rows |-> <<>>, count |-> 0]
NoCounts == [n \in WalIds |-> None]
NoReaders == [n \in WalIds |-> 0]

\* The last place of each index among rows, from 0 (recover_current_data).
RowMap(rows) ==
  [i \in Indices |->
     LET at == {k \in 1 .. Len(rows) : rows[k][1] = i}
     IN IF at = {} THEN None ELSE Max(at) - 1]

\* "batch_1.arrow" < "batch_10.arrow" < "batch_2.arrow": paths sort as text (ids below 100).
PathKey(n) == IF n < 10 THEN 20 * n ELSE 2 * n + 1

\* Ids in the order of their keys; by number, by path.
InOrder(ids, key) ==
  CHOOSE s \in [1 .. Cardinality(ids) -> ids] :
    \A j, k \in 1 .. Cardinality(ids) : j < k => key[s[j]] < key[s[k]]

SortedIds(ids) == InOrder(ids, [n \in WalIds |-> n])
SortedPaths(ids) == InOrder(ids, [n \in WalIds |-> PathKey(n)])

Existing(files) == {n \in WalIds : files[n] # None}
Concatenate(files, ids) == FlattenSeq([k \in 1 .. Len(ids) |-> files[ids[k]]])
SumCounts(counts) == SumFunctionOnSet(counts, Existing(counts))

-----------------------------------------------------------------------------
(* What the reads return when the state lock is free. *)

\* len()
ManagerLen ==
  totalParquetRows + SumCounts(ipcRowCounts) + (IF walOpen THEN Len(prebatch) ELSE 0)

\* Mutant: the Arrow files come before the older Parquet files.
VisibleRowsIpcFirst ==
  Concatenate(arrow, ipcFilePaths) \o Concatenate(parquet, parquetFilePaths)
    \o (IF walOpen THEN prebatch ELSE <<>>)

\* get_batches(), and the rows sql_provider() copies
VisibleRows ==
  Concatenate(parquet, parquetFilePaths) \o Concatenate(arrow, ipcFilePaths)
    \o (IF walOpen THEN prebatch ELSE <<>>)

\* local_offset: where the slice begins in a source that begins at row `at`.
LocalOffset(offset, at) == IF offset > at THEN offset - at ELSE 0

\* get_batch_slice(offset, limit)
GetBatchSlice(offset, limit) ==
  LET CountOf(counts, n) == IF counts[n] = None THEN 0 ELSE counts[n]
      sources == [k \in 1 .. Len(parquetFilePaths) |->
                     LET n == parquetFilePaths[k]
                     IN [rows |-> parquet[n], count |-> CountOf(parquetRowCounts, n)]]
                 \o [k \in 1 .. Len(ipcFilePaths) |->
                     LET n == ipcFilePaths[k]
                     IN [rows |-> arrow[n], count |-> CountOf(ipcRowCounts, n)]]
                 \o (IF walOpen THEN << [rows |-> prebatch, count |-> Len(prebatch)] >> ELSE <<>>)
      Slice(acc, s) ==
        LET local == LocalOffset(offset, acc.at)
            taken == Min({s.count - local, offset + limit - (acc.at + local)})
            overlaps == acc.at < offset + limit /\ acc.at + s.count > offset
        IN [at |-> acc.at + s.count,
            out |-> IF overlaps /\ taken > 0
                    THEN acc.out \o SubSeq(s.rows, local + 1, local + taken)
                    ELSE acc.out]
  IN FoldLeft(Slice, [at |-> 0, out |-> <<>>], sources).out

\* SELECT MIN(wal_index) FROM wal_index WHERE wal_id IN ids
MinWalIndex(ids) == Min({walIndex[j][2] : j \in {i \in Indices :
                            walIndex[i] # None /\ walIndex[i][1] \in ids}})

\* Row k (from 0) of a file; None stands for an error or NotFound.
RowAt(file, k) == IF k < Len(file) THEN file[k + 1] ELSE None

\* get_record(i)
GetRecord(i) ==
  IF walOpen /\ currentWalRows[i] # None THEN prebatch[currentWalRows[i] + 1]
  ELSE IF walIndex[i] = None THEN None
  ELSE LET w == walIndex[i][1]
           q == walToParquet[w]
       IN IF arrow[w] # None THEN RowAt(arrow[w], walIndex[i][2] - MinWalIndex({w}))
          ELSE IF q = None \/ parquet[q] = None THEN None
          ELSE RowAt(parquet[q],
                     walIndex[i][2] - MinWalIndex({v \in WalIds : walToParquet[v] = q}))

-----------------------------------------------------------------------------
(* What restore() finds in the directory. *)

LastId == Max({0} \cup Existing(wal) \cup Existing(arrow))

\* The WAL with the last id is there to be recovered.
RecoversWal == LastId > 0 /\ wal[LastId] # None

\* recover_current_data
RecoveredRows == IF RecoversWal THEN wal[LastId] ELSE <<>>

\* Row counts of the files found.
CountsOf(files) == [n \in WalIds |-> IF files[n] = None THEN None ELSE Len(files[n])]

Init ==
  /\ wal = NoCounts /\ arrow = NoCounts /\ parquet = NoCounts
  /\ walIndex = NoRows /\ walToParquet = NoCounts
  /\ up = TRUE
  /\ walOpen = FALSE /\ sink = 0 /\ currentWalId = 0
  /\ prebatch = <<>> /\ currentWalRows = NoRows /\ queue = <<>>
  /\ ipcFiles = <<>> /\ ipcRowCounts = NoCounts /\ ipcFilePaths = <<>>
  /\ totalParquetRows = 0 /\ parquetRowCounts = NoCounts /\ parquetFilePaths = <<>>
  /\ activeReaders = NoReaders /\ pendingDeletions = {}
  /\ guards = [p \in Providers |-> {}]
  /\ op = "idle" /\ flight = NoFlight /\ rolling = NoRollout
  /\ pushed = <<>> /\ before = 0
  /\ writer = "running" /\ trouble = "none" /\ halts = 0 /\ faults = 0

-----------------------------------------------------------------------------
(* Errors, each of which stays with the directory. *)

\* History: an error has met the directory.
MeetsError == trouble' = IF trouble = "none" THEN "met" ELSE trouble

\* Bound: errors and ends of the process.
MayFail == faults < MaxFaults /\ halts + faults < MaxHalts
AfterError == MeetsError /\ faults' = faults + 1 /\ UNCHANGED <<before, halts>>

-----------------------------------------------------------------------------
(* push_record *)

\* push_record(i): ensure_wal_manager, append, and the choice to flush.  The
\* channel to the writer holds wal_capacity rows.
PushRecord(i) ==
  LET id == IF walOpen THEN currentWalId ELSE currentWalId + 1
      row == <<i, Len(pushed) + 1>>
  IN /\ up /\ op = "idle"
     /\ Len(pushed) < MaxRows
     /\ currentWalId < MaxWals - 1
     /\ ~ReuseIndices => \A k \in 1 .. Len(pushed) : pushed[k][1] # i
     /\ Len(queue) < WalCapacity /\ writer = "running"
     /\ walOpen' = TRUE
     /\ currentWalId' = id
     /\ sink' = IF walOpen THEN sink ELSE id
     /\ wal' = IF walOpen \/ wal[id] # None THEN wal ELSE [wal EXCEPT ![id] = <<>>]
     /\ currentWalRows' = [currentWalRows EXCEPT ![i] = Len(prebatch)]
     /\ prebatch' = Append(prebatch, row)
     /\ queue' = Append(queue, row)
     /\ pushed' = Append(pushed, row)
     /\ op' = IF Len(prebatch) + 1 >= WalCapacity THEN "open" ELSE "idle"
     /\ UNCHANGED <<arrow, parquet, walIndex, walToParquet, up, ipcVars, parquetVars,
                    readerVars, flight, rolling, boundVars>>

\* The background writer appends the next row to its file.
WriteRow ==
  /\ queue # <<>> /\ writer = "running"
  /\ wal' = [wal EXCEPT ![sink] = Append(@, Head(queue))]
  /\ queue' = Tail(queue)
  /\ UNCHANGED <<arrow, parquet, walIndex, walToParquet, up, walVars, ipcVars,
                 parquetVars, readerVars, op, flight, rolling, pushed, boundVars>>

\* ensure_wal_manager counts the id up before it opens the file: the id is
\* skipped when the open fails.
EnsureFails ==
  /\ up /\ op = "idle" /\ ~walOpen
  /\ currentWalId < MaxWals - 1
  /\ MayFail
  /\ currentWalId' = currentWalId + 1
  /\ AfterError
  /\ UNCHANGED <<diskVars, up, walOpen, sink, prebatch, currentWalRows, queue, ipcVars,
                 parquetVars, readerVars, op, flight, rolling, pushed, writer>>

\* An append of the writer fails: the task ends, and what is queued goes with
\* its channel.  Nobody is told before the next send or rotation.
WriterFails ==
  /\ queue # <<>> /\ writer = "running"
  /\ MayFail
  /\ writer' = "failed"
  /\ queue' = <<>>
  /\ AfterError
  /\ UNCHANGED <<diskVars, up, walVars, ipcVars, parquetVars, readerVars, op, flight,
                 rolling, pushed>>

\* push_record(i) on a channel without a writer: the row is in the PreBatch
\* when the send fails, and the error returns before the choice to flush.
PushFails(i) ==
  LET row == <<i, Len(pushed) + 1>>
  IN /\ up /\ op = "idle" /\ walOpen
     /\ writer # "running"
     /\ Len(pushed) < MaxRows
     /\ ~ReuseIndices => \A k \in 1 .. Len(pushed) : pushed[k][1] # i
     /\ currentWalRows' = [currentWalRows EXCEPT ![i] = Len(prebatch)]
     /\ prebatch' = Append(prebatch, row)
     /\ pushed' = Append(pushed, row)
     /\ MeetsError
     /\ UNCHANGED <<diskVars, up, walOpen, sink, currentWalId, queue, ipcVars, parquetVars,
                    readerVars, op, flight, rolling, writer, before, halts, faults>>

-----------------------------------------------------------------------------
(* flush_wal_inner *)

\* flush_wal() by a caller.  Bound: no caller flushes an empty WAL.
FlushWal ==
  /\ up /\ op = "idle"
  /\ walOpen /\ prebatch # <<>>
  /\ currentWalId < MaxWals
  /\ op' = "open"
  /\ UNCHANGED <<diskVars, up, walVars, queue, ipcVars, parquetVars, readerVars,
                 flight, rolling, pushed, boundVars>>

\* 1. WalWriter::open(wal_{n + 1}), which appends to a file that exists.
OpenNext ==
  /\ op = "open"
  /\ wal' = [wal EXCEPT ![currentWalId + 1] = IF @ = None THEN <<>> ELSE @]
  /\ op' = "rotate"
  /\ UNCHANGED <<arrow, parquet, walIndex, walToParquet, up, walVars, queue, ipcVars,
                 parquetVars, readerVars, flight, rolling, pushed, boundVars>>

\* The background writer wrote every row it was sent.
Drained == queue = <<>>

\* Mutant: the PreBatch is not reset.
SamePreBatch == prebatch

\* PreBatch::new
NewPreBatch == <<>>

\* 2. rotate(): takes the batch and the map, once the old loop wrote its rows.
\* After a rotation that failed there is no old loop.
Rotate ==
  /\ op = "rotate"
  /\ Drained /\ writer # "failed"
  /\ flight' = [batch |-> prebatch, rows |-> currentWalRows]
  /\ prebatch' = NewPreBatch
  /\ currentWalRows' = NoRows
  /\ sink' = currentWalId + 1
  /\ writer' = "running"
  /\ op' = "write_ipc"
  /\ UNCHANGED <<diskVars, up, walOpen, currentWalId, queue, ipcVars, parquetVars,
                 readerVars, rolling, pushed, before, trouble, halts, faults>>

\* rotate() meets the error of the old loop: the batch and the map it took go
\* with it, and the channel it made has no loop.
RotateFails ==
  /\ op = "rotate"
  /\ writer = "failed"
  /\ prebatch' = NewPreBatch
  /\ currentWalRows' = NoRows
  /\ writer' = "gone"
  /\ op' = "idle"
  /\ MeetsError
  /\ UNCHANGED <<diskVars, up, walOpen, sink, currentWalId, queue, ipcVars, parquetVars,
                 readerVars, flight, rolling, pushed, before, halts, faults>>

\* Mutant: a failed write of the Arrow file goes unnoticed.
WriteArrowIpcLost ==
  /\ op = "write_ipc"
  /\ op' = "index"
  /\ UNCHANGED <<diskVars, up, walVars, queue, ipcVars, parquetVars, readerVars, flight,
                 rolling, pushed, boundVars>>

\* 3. write_arrow_ipc(n, batch)
WriteArrowIpc ==
  /\ op = "write_ipc"
  /\ arrow' = [arrow EXCEPT ![currentWalId] = flight.batch]
  /\ op' = "index"
  /\ UNCHANGED <<wal, parquet, walIndex, walToParquet, up, walVars, queue, ipcVars,
                 parquetVars, readerVars, flight, rolling, pushed, boundVars>>

\* 4. the transaction of INSERT OR REPLACE INTO wal_index
IndexRows ==
  /\ op = "index"
  /\ walIndex' = [i \in Indices |->
       IF flight.rows[i] = None THEN walIndex[i] ELSE <<currentWalId, flight.rows[i]>>]
  /\ op' = "delete_wal"
  /\ UNCHANGED <<wal, arrow, parquet, walToParquet, up, walVars, queue, ipcVars,
                 parquetVars, readerVars, flight, rolling, pushed, boundVars>>

\* 5. remove_file(wal_n)
DeleteWal ==
  /\ op = "delete_wal"
  /\ wal' = [wal EXCEPT ![currentWalId] = None]
  /\ op' = "track"
  /\ UNCHANGED <<arrow, parquet, walIndex, walToParquet, up, walVars, queue, ipcVars,
                 parquetVars, readerVars, flight, rolling, pushed, boundVars>>

\* 6. the tracking variables, and the choice to roll out
Track ==
  LET files == Append(ipcFiles, currentWalId)
      full == Len(files) >= IpcCapacity
  IN /\ op = "track"
     /\ currentWalId' = currentWalId + 1
     /\ ipcRowCounts' = [ipcRowCounts EXCEPT ![currentWalId] = Len(flight.batch)]
     /\ ipcFilePaths' = Append(ipcFilePaths, currentWalId)
     /\ flight' = NoFlight
     /\ ipcFiles' = IF full THEN <<>> ELSE files
     /\ rolling' = IF full THEN [NoRollout EXCEPT !.files = files] ELSE rolling
     /\ op' = IF full THEN "roll" ELSE "idle"
     /\ UNCHANGED <<diskVars, up, walOpen, sink, prebatch, currentWalRows, queue,
                    parquetVars, readerVars, pushed, boundVars>>

-----------------------------------------------------------------------------
(* rollout_to_parquet_inner *)

\* rollout_to_parquet() by a caller; it returns at once when nothing is pending.
RolloutToParquet ==
  /\ up /\ op = "idle"
  /\ ipcFiles # <<>>
  /\ rolling' = [NoRollout EXCEPT !.files = ipcFiles]
  /\ ipcFiles' = <<>>
  /\ op' = "roll"
  /\ UNCHANGED <<diskVars, up, walVars, queue, ipcRowCounts, ipcFilePaths, parquetVars,
                 readerVars, flight, pushed, boundVars>>

\* Mutant: no reader is looked for.
NeverRead(b) == FALSE

\* active_readers has an entry for batch b.
BeingRead(b) == activeReaders[b] > 0

\* ipc_row_counts without batch b
DropCount(b) == [ipcRowCounts EXCEPT ![b] = None]

\* One file of the rollout: a missing file is skipped, and one that is being
\* read is only marked for deletion.  A path is listed once.
RollFile ==
  LET b == rolling.files[rolling.next]
      found == arrow[b] # None
  IN /\ op = "roll"
     /\ rolling.next <= Len(rolling.files)
     /\ rolling' = [rolling EXCEPT
          !.next = @ + 1,
          !.rows = IF found THEN @ \o arrow[b] ELSE @,
          !.count = IF found /\ ipcRowCounts[b] # None THEN @ + ipcRowCounts[b] ELSE @]
     /\ ipcRowCounts' = IF found THEN DropCount(b) ELSE ipcRowCounts
     /\ ipcFilePaths' = IF found THEN RemoveFirst(ipcFilePaths, b) ELSE ipcFilePaths
     /\ arrow' = [arrow EXCEPT ![b] = IF BeingRead(b) THEN @ ELSE None]
     /\ pendingDeletions' = IF found /\ BeingRead(b) THEN pendingDeletions \cup {b}
                            ELSE pendingDeletions
     /\ UNCHANGED <<wal, parquet, walIndex, walToParquet, up, walVars, queue, ipcFiles,
                    parquetVars, activeReaders, guards, op, flight, pushed, boundVars>>

\* The Parquet file and its bookkeeping, unless no Arrow file was found.
WriteParquet ==
  LET q == currentWalId
      any == rolling.rows # <<>>
  IN /\ op = "roll"
     /\ rolling.next > Len(rolling.files)
     /\ parquet' = IF any THEN [parquet EXCEPT ![q] = rolling.rows] ELSE parquet
     /\ totalParquetRows' = totalParquetRows + rolling.count
     /\ parquetRowCounts' = IF any THEN [parquetRowCounts EXCEPT ![q] = rolling.count]
                            ELSE parquetRowCounts
     /\ parquetFilePaths' = IF any THEN Append(parquetFilePaths, q) ELSE parquetFilePaths
     /\ walToParquet' = [n \in WalIds |->
          IF any /\ n \in Range(rolling.files) THEN q ELSE walToParquet[n]]
     /\ rolling' = NoRollout
     /\ op' = "idle"
     /\ UNCHANGED <<wal, arrow, walIndex, up, walVars, queue, ipcVars, readerVars, flight,
                    pushed, boundVars>>

-----------------------------------------------------------------------------
(* Every step of a flush or a rollout returns its own errors with `?`, undoing
   nothing; one of rotate is a batch that can not be built (flush of the PreBatch). *)
Fail ==
  /\ op \in {"open", "rotate", "write_ipc", "index", "delete_wal", "roll"}
  /\ MayFail
  /\ op' = "idle"
  /\ flight' = NoFlight
  /\ rolling' = NoRollout
  /\ AfterError
  /\ UNCHANGED <<diskVars, up, walVars, queue, ipcVars, parquetVars, readerVars,
                 pushed, writer>>

-----------------------------------------------------------------------------
(* SQL providers *)

\* sql_provider(): a guard for every Arrow file, whose rows are then copied.
SqlProvider(p) ==
  /\ up /\ op = "idle"
  /\ guards[p] = {} /\ ipcFilePaths # <<>>
  /\ guards' = [guards EXCEPT ![p] = Range(ipcFilePaths)]
  /\ activeReaders' = [n \in WalIds |->
       activeReaders[n] + (IF n \in Range(ipcFilePaths) THEN 1 ELSE 0)]
  /\ UNCHANGED <<diskVars, up, walVars, queue, ipcVars, parquetVars, pendingDeletions,
                 op, flight, rolling, pushed, boundVars>>

\* The reader that leaves is the last one of batch b.
IsLastReader(b) == activeReaders[b] = 1

\* pending_deletions names batch b.
IsDeferred(b) == b \in pendingDeletions

\* Drop of one IpcFileGuard: remove_reader.
DropGuard(p, b) ==
  LET deletes == IsLastReader(b) /\ IsDeferred(b)
  IN /\ b \in guards[p]
     /\ guards' = [guards EXCEPT ![p] = @ \ {b}]
     /\ activeReaders' = [activeReaders EXCEPT ![b] = IF IsLastReader(b) THEN 0 ELSE @ - 1]
     /\ pendingDeletions' = IF deletes THEN pendingDeletions \ {b} ELSE pendingDeletions
     /\ arrow' = IF deletes THEN [arrow EXCEPT ![b] = None] ELSE arrow
     /\ UNCHANGED <<wal, parquet, walIndex, walToParquet, up, walVars, queue, ipcVars,
                    parquetVars, op, flight, rolling, pushed, boundVars>>

-----------------------------------------------------------------------------
(* The end of the process, and the next manager on the same directory. *)

\* A clean halt comes between operations, after the writer was interrupted and
\* the queries let go of their providers.
CleanHalt == op = "idle" /\ queue = <<>> /\ \A p \in Providers : guards[p] = {}

\* The memory is gone.
Halt ==
  /\ up
  /\ halts + faults < MaxHalts
  /\ trouble' = IF trouble = "none" /\ ~CleanHalt THEN "met" ELSE trouble
  /\ up' = FALSE
  /\ halts' = halts + 1
  /\ walOpen' = FALSE /\ sink' = 0 /\ currentWalId' = 0
  /\ prebatch' = <<>> /\ currentWalRows' = NoRows /\ queue' = <<>>
  /\ ipcFiles' = <<>> /\ ipcRowCounts' = NoCounts /\ ipcFilePaths' = <<>>
  /\ totalParquetRows' = 0 /\ parquetRowCounts' = NoCounts /\ parquetFilePaths' = <<>>
  /\ activeReaders' = NoReaders /\ pendingDeletions' = {}
  /\ guards' = [p \in Providers |-> {}]
  /\ op' = "idle" /\ flight' = NoFlight /\ rolling' = NoRollout
  /\ writer' = "running"
  /\ UNCHANGED <<diskVars, pushed, before, faults>>

\* DataManager::new alone: what PipelineServer builds its pipelines with.
StartFresh ==
  /\ ~up
  /\ up' = TRUE
  /\ before' = Len(pushed)
  /\ UNCHANGED <<diskVars, walVars, queue, ipcVars, parquetVars, readerVars, op, flight,
                 rolling, pushed, writer, trouble, halts, faults>>

\* DataManager::new and restore(): what the queries of a stopped playbook do.
StartRestored ==
  /\ ~up
  /\ up' = TRUE
  /\ trouble' = IF trouble = "met" \/ before # 0 THEN "restored" ELSE trouble
  /\ currentWalId' = LastId
  /\ walOpen' = RecoversWal
  /\ sink' = IF RecoversWal THEN LastId ELSE 0
  /\ prebatch' = RecoveredRows
  /\ currentWalRows' = RowMap(RecoveredRows)
  /\ ipcFiles' = SortedIds(Existing(arrow))
  /\ ipcRowCounts' = CountsOf(arrow)
  /\ ipcFilePaths' = SortedPaths(Existing(arrow))
  /\ totalParquetRows' = SumCounts(CountsOf(parquet))
  /\ parquetRowCounts' = CountsOf(parquet)
  /\ parquetFilePaths' = SortedPaths(Existing(parquet))
  /\ UNCHANGED <<diskVars, queue, readerVars, op, flight, rolling, pushed, writer, before,
                 halts, faults>>

Next ==
  \/ \E i \in Indices : PushRecord(i)
  \/ \E i \in Indices : PushFails(i)
  \/ EnsureFails \/ WriteRow \/ WriterFails
  \/ FlushWal \/ OpenNext \/ Rotate \/ RotateFails \/ WriteArrowIpc \/ IndexRows \/ DeleteWal \/ Track
  \/ RolloutToParquet \/ RollFile \/ WriteParquet
  \/ Fail
  \/ \E p \in Providers : SqlProvider(p)
  \/ \E p \in Providers, b \in WalIds : DropGuard(p, b)
  \/ Halt \/ StartFresh \/ StartRestored

Spec == Init /\ [][Next]_vars

-----------------------------------------------------------------------------
(* Properties *)

Steps == {"idle", "open", "rotate", "write_ipc", "index", "delete_wal", "track", "roll"}
Optional(S) == S \cup {None}

\* Every variable has its type: files hold rows, tables and maps hold what the code stores.
TypeOK ==
  /\ wal \in [WalIds -> Optional(Seq(Rows))]
  /\ arrow \in [WalIds -> Optional(Seq(Rows))]
  /\ parquet \in [WalIds -> Optional(Seq(Rows))]
  /\ walIndex \in [Indices -> Optional(WalIds \X Nat)]
  /\ walToParquet \in [WalIds -> Optional(WalIds)]
  /\ up \in BOOLEAN /\ walOpen \in BOOLEAN
  /\ sink \in 0 .. MaxWals /\ currentWalId \in 0 .. MaxWals
  /\ prebatch \in Seq(Rows) /\ queue \in Seq(Rows) /\ pushed \in Seq(Rows)
  /\ currentWalRows \in [Indices -> Optional(Nat)]
  /\ ipcFiles \in Seq(WalIds) /\ ipcFilePaths \in Seq(WalIds) /\ parquetFilePaths \in Seq(WalIds)
  /\ ipcRowCounts \in [WalIds -> Optional(Nat)] /\ parquetRowCounts \in [WalIds -> Optional(Nat)]
  /\ totalParquetRows \in Nat
  /\ activeReaders \in [WalIds -> Nat] /\ pendingDeletions \subseteq WalIds
  /\ guards \in [Providers -> SUBSET WalIds]
  /\ op \in Steps
  /\ flight \in [batch : Seq(Rows), rows : [Indices -> Optional(Nat)]]
  /\ rolling \in [files : Seq(WalIds), next : Nat \ {0}, rows : Seq(Rows), count : Nat]
  /\ writer \in {"running", "failed", "gone"}
  /\ before \in Nat /\ trouble \in {"none", "met", "restored"} /\ halts \in 0 .. MaxHalts /\ faults \in 0 .. MaxFaults

\* No error and no crash has met the directory.
Clean == trouble = "none"

\* Rows of this manager: all rows, but those a fresh manager left in its directory.
OwnRows == SubSeq(pushed, before + 1, Len(pushed))

\* get_batches() and sql_provider() see every row of the manager, once and in push
\* order, and no leftover of an earlier run.
RowsInPushOrder == VisibleRows = OwnRows

\* len() is the number of those rows: the three kinds of counters move together.
LenCountsRows == ManagerLen = Len(OwnRows)

\* get_batch_slice(offset, limit) is that window of the rows, whatever files it spans.
SliceIsWindow ==
  \A offset \in 0 .. MaxRows, limit \in 1 .. MaxRows :
    GetBatchSlice(offset, limit) =
      SubSeq(OwnRows, offset + 1, Min({offset + limit, Len(OwnRows)}))

\* The row an index stands for: the last one pushed with it.
LastPushed(i) ==
  LET at == {k \in 1 .. Len(pushed) : pushed[k][1] = i}
  IN IF at = {} THEN None ELSE pushed[Max(at)]

\* The row of index i was rolled out behind the rows of an earlier WAL.
RolledBehind(i) ==
  /\ walIndex[i] # None /\ arrow[walIndex[i][1]] = None
  /\ LET w == walIndex[i][1]
     IN \E v \in WalIds : v < w /\ walToParquet[v] # None /\ walToParquet[v] = walToParquet[w]

\* get_record(i) finds the row of index i, or nothing when none was pushed, but
\* for a row of any WAL except the first of its Parquet file: there the code
\* takes the row of the first WAL at the same place.
GetRecordFindsRow == \A i \in Indices : ~RolledBehind(i) => GetRecord(i) = LastPushed(i)

\* The rows of the WAL under flush: an empty WAL with a later id hides it, and
\* its Arrow file is not written.
UnderFlush == IF op \in {"rotate", "write_ipc"} THEN wal[currentWalId] ELSE <<>>

\* get_batches() of a manager restored from the directory at any moment, by a
\* query or the next process, has the rows of the Parquet files, the Arrow files
\* and the last WAL.  To be the rows pushed, once and in order, they lack
\* exactly what a rollout has read and not written (rolling.rows), what a flush
\* has not written yet and what the writer has queued; and what is listed too
\* much are the rolled-out Arrow files whose deletion is deferred.
RestoreSeesRows ==
  Clean /\ before = 0 =>
    Concatenate(parquet, SortedPaths(Existing(parquet))) \o rolling.rows
      \o Concatenate(arrow, SortedPaths(Existing(arrow) \ pendingDeletions))
      \o UnderFlush \o RecoveredRows \o queue = pushed

\* Through flushes, rollouts and clean restarts every way to read the manager
\* agrees on the rows that were pushed: the whole, the count, any window and, in
\* a manager that was restored, the one row of an index, unless it was rolled
\* out behind another WAL.  At any moment, in the middle of a flush or a rollout
\* too, a restore from the directory misses and repeats what RestoreSeesRows
\* names and nothing else.
ReadsSeePushes ==
  /\ TypeOK
  /\ up /\ op = "idle" /\ Clean =>
       /\ RowsInPushOrder /\ LenCountsRows /\ SliceIsWindow
       /\ before = 0 => GetRecordFindsRow
  /\ RestoreSeesRows

\* An Arrow file stays as it is while a guard taken on it is held.
GuardedFileStays ==
  [][\A p \in Providers : \A b \in guards[p] \cap guards'[p] : arrow'[b] = arrow[b]]_vars

\* The rows in the files of one kind, and in any file.
RowsIn(files) == UNION {Range(files[n]) : n \in Existing(files)}
OnDisk == RowsIn(wal) \cup RowsIn(arrow) \cup RowsIn(parquet)

\* Outside a rollout every pushed row is in some file or still queued for the
\* writer, whatever step of a flush is under way, unless a manager that was not
\* restored went over the directory.
RowsOnDisk == op # "roll" /\ Clean /\ before = 0 => Range(pushed) \subseteq OnDisk \cup Range(queue)

\* Errors and ends of the process lose rows but never double one, unless a
\* manager is restored after them, or after one that was not restored: the WAL
\* ids of that one began at 1 again.
NoRowTwice ==
  trouble # "restored" => \A j, k \in 1 .. Len(VisibleRows) : VisibleRows[j] = VisibleRows[k] => j = k

=============================================================================
