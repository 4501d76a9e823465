----------------------------- MODULE RowBuffer -----------------------------
(***************************************************************************)
(* The rows a data manager holds between two roll-outs (PreBatch and the   *)
(* arrow WalManager over it): a row is repaired to the schema, kept in     *)
(* memory and logged as it came; a roll-out turns the rows in memory into  *)
(* one Arrow batch, column by column, and starts the next log; opening a   *)
(* log repairs its rows again; wal-to-parquet makes a batch of a log       *)
(* without its schema.  The writer of the log is the module WalManager,    *)
(* its bytes the module WalFrames; a row read from it is the archive of    *)
(* the row that was logged.                                                *)
(* An Arrow array is the sequence of its cells.  The Arrow library refuses *)
(* or panics at a null where its type has none and at an array whose type  *)
(* is not its field's: both are Err, the roll-out does not happen.         *)
(***************************************************************************)
EXTENDS ModuleTypes, WalFrames

CONSTANTS
    Schemas,    \* the fields a manager may be opened with
    Rows,       \* the rows pushed
    Params,     \* the Rust types a module's parameter may have
    FirstIndex, \* the row index of the first row
    CutSchemas, \* bound: the schemas of managers whose last append may be cut short
    MaxCuts,    \* bound: appends cut short
    MaxRows     \* bound: rows taken

ASSUME BoundsAssumption ==
    FirstIndex \in Nat /\ CutSchemas \subseteq Schemas /\ MaxCuts \in Nat /\ MaxRows \in Nat

VARIABLES
    fields,     \* the schema
    rows,       \* PreBatch.rows: repaired rows
    wal,        \* history: the rows of PreBatch, as they came
    frames,     \* the frames appended to the open log, and what is left of them
    cuts,       \* appends cut short
    batches,    \* batches rolled out: sequences of rows of cells
    given       \* history: the rows taken, repaired

vars == <<fields, rows, wal, frames, cuts, batches, given>>

-----------------------------------------------------------------------------
\* to_arrow: a list of primitives is a list whose elements may be null.
RECURSIVE ToArrow(_)
ToArrow(type) ==
    CASE type.k = "PrimList" -> ListType(Prim(type.p), TRUE)
      [] type.k = "List" -> ListType(ToArrow(type.of), type.nullable)
      [] type.k = "Group" ->
            GroupType([f \in DOMAIN type.fields |->
                Field(ToArrow(type.fields[f].type), type.fields[f].nullable)])
      [] OTHER -> type

\* PyroField::from_arrow and PyroSchema::from_arrow: whether the elements of a
\* list of primitives may be null is forgotten.
RECURSIVE FromArrow(_)

FieldsFromArrow(dt) ==
    [f \in DOMAIN dt.fields |-> Field(FromArrow(dt.fields[f].type), dt.fields[f].nullable)]

FromArrow(dt) ==
    CASE dt.k = "List" ->
            IF dt.of.k = "Prim" THEN PrimListType(dt.of.p)
            ELSE ListType(FromArrow(dt.of), dt.nullable)
      [] dt.k = "Group" -> GroupType(FieldsFromArrow(dt))
      [] dt.k = "Map" -> MapType(FromArrow(dt.key), FromArrow(dt.value))
      [] OTHER -> dt

\* Arrow types build_array has an arm for
RECURSIVE Buildable(_)
Buildable(dt) ==
    CASE dt.k \in {"FixedList", "Map"} -> FALSE
      [] dt.k = "List" -> Buildable(dt.of)
      [] dt.k = "Group" -> \A f \in DOMAIN dt.fields : Buildable(dt.fields[f].type)
      [] OTHER -> TRUE

HasNull(cells) == \E i \in DOMAIN cells : cells[i] = Null

\* build_list_primitive: the list builder's elements are nullable, whatever
\* the schema says of them.
\* Mutant: null elements are skipped.
PrimListCellSkipsNulls(dt, v) ==
    CASE ~dt.nullable -> Err
      [] dt.nullable /\ v.t = "PrimList" /\ v.p = dt.of.p -> List(Scalars(v))
      [] dt.nullable /\ v.t = "List" ->
            IF \A i \in DOMAIN v.items :
                    v.items[i] = Null \/ (v.items[i].t = "Prim" /\ v.items[i].p = dt.of.p)
            THEN List(SelectSeq(v.items, LAMBDA c : c # Null)) ELSE Err
      [] OTHER -> Err

PrimListCell(dt, v) ==
    CASE ~dt.nullable -> Err
      [] dt.nullable /\ v.t = "PrimList" /\ v.p = dt.of.p -> List(Scalars(v))
      [] dt.nullable /\ v.t = "List" ->
            IF \A i \in DOMAIN v.items :
                    v.items[i] = Null \/ (v.items[i].t = "Prim" /\ v.items[i].p = dt.of.p)
            THEN v ELSE Err
      [] OTHER -> Err

\* build_array: the cell of a value in an array of type dt
RECURSIVE Cell(_, _)

GroupCell(dt, v) ==
    LET cell == [f \in DOMAIN dt.fields |->
            Cell(dt.fields[f].type, IF f \in DOMAIN v.row THEN v.row[f] ELSE Null)]
    IN IF \E f \in DOMAIN cell : cell[f] = Null /\ ~dt.fields[f].nullable
       THEN Err ELSE GroupOf(cell)

GenericListCell(dt, v) ==
    LET items == IF v.t = "List" THEN v.items ELSE Scalars(v)
        cells == [i \in DOMAIN items |-> Cell(dt.of, items[i])]
    IN IF HasNull(cells) /\ ~dt.nullable THEN Err ELSE ListOf(cells)

Cell(dt, v) ==
    CASE v = Null -> Null
      [] dt.k = "Null" -> Null
      [] v # Null /\ dt.k = "Prim" -> IF v.t = "Prim" /\ v.p = dt.p THEN v ELSE Err
      [] v # Null /\ dt.k = "Str" -> IF v.t = "Str" THEN v ELSE Err
      [] v # Null /\ dt.k = "Time" -> IF v.t = "Time" THEN Time(Wrap("I64", v.v)) ELSE Err
      [] v # Null /\ dt.k = "Group" -> IF v.t = "Group" THEN GroupCell(dt, v) ELSE Err
      [] v # Null /\ dt.k = "List" ->
            IF dt.of.k = "Prim" /\ dt.of.p \notin {"Bool", "F16"} THEN PrimListCell(dt, v)
            ELSE IF v.t \in {"List", "PrimList"} THEN GenericListCell(dt, v) ELSE Err

\* PreBatch::to_record_batch: the rows of the batch, or Err if one value of one
\* column cannot be built.
ToRecordBatch(schema, buffer) ==
    LET dt == ToArrow(GroupType(schema))
        batch == [i \in DOMAIN buffer |-> Cell(dt, buffer[i])]
    IN IF ~Buildable(dt) \/ AnyErr(batch) THEN Err ELSE List(batch)

\* clone_as_list: elements with no null among them are a list of primitives, but
\* for Bools.
IsPrimList(dt, cells) == dt.of.k = "Prim" /\ dt.of.p # "Bool" /\ ~HasNull(cells)

\* ScalarValuable::scalar: the value of a cell
RECURSIVE Value(_, _)

ListValue(dt, cells) ==
    IF IsPrimList(dt, cells)
    THEN PrimList(dt.of.p, [i \in DOMAIN cells |-> cells[i].v])
    ELSE List([i \in DOMAIN cells |-> Value(dt.of, cells[i])])

Value(dt, cell) ==
    CASE cell = Null -> Null
      [] cell # Null /\ dt.k = "Group" ->
            Group([f \in DOMAIN dt.fields |-> Value(dt.fields[f].type, cell.row[f])])
      [] cell # Null /\ dt.k = "List" -> ListValue(dt, cell.items)
      [] OTHER -> cell

\* Rowable::row of the rows of a batch
ReadRows(schema, batch) ==
    [i \in DOMAIN batch |-> Value(ToArrow(GroupType(schema)), batch[i])]

-----------------------------------------------------------------------------
Init ==
    /\ fields \in Schemas
    /\ rows = <<>> /\ wal = <<>> /\ frames = <<>> /\ cuts = 0
    /\ batches = <<>> /\ given = <<>>

\* WalManager::append: a row the schema cannot take is refused before it is
\* logged; the log gets the row as it came.
PushRow(row) ==
    /\ Len(given) < MaxRows
    /\ LET repaired == ProjectRepair(row, fields)
       IN IF repaired = Err
          THEN UNCHANGED <<rows, wal, frames, given>>
          ELSE /\ rows' = Append(rows, repaired)
               /\ wal' = Append(wal, row)
               /\ frames' = Append(frames, Complete(NewFrame(row, FirstIndex + Len(given))))
               /\ given' = Append(given, repaired)
    /\ UNCHANGED <<fields, cuts, batches>>

\* WalManager::rotate: PreBatch::flush, and the next log.  If the batch cannot
\* be built everything stays as it was.
Rotate ==
    /\ rows # <<>>
    /\ LET batch == ToRecordBatch(fields, rows)
       IN IF batch = Err
          THEN UNCHANGED <<rows, wal, frames, batches>>
          ELSE /\ batches' = Append(batches, batch.items)
               /\ rows' = <<>> /\ wal' = <<>> /\ frames' = <<>>
    /\ UNCHANGED <<fields, cuts, given>>

\* recover_current_data pushes the rows of the log again.
RecoveredRows(log, schema) ==
    [i \in DOMAIN log |-> ProjectRepair(ArchivedRow(log[i]), schema)]

\* The log after a process ended that had still to write that many words.
Cut(lost) ==
    [frames EXCEPT ![Len(frames)].kept = @ - lost]

\* What the process that ended may have left of the last append.
Losses ==
    IF frames # <<>> /\ fields \in CutSchemas /\ frames[Len(frames)].kept = WordsOf(frames[Len(frames)])
    THEN 0 .. WordsOf(frames[Len(frames)]) ELSE {0}

RowsOf(found) == [i \in DOMAIN found.ids |-> frames[found.ids[i]].row]

\* open_with_recovery, after the end of the process: it fails with the log's
\* first packet that is no row, and with the first row that is refused.
Restart(lost) ==
    /\ frames # <<>>
    /\ lost # 0 => cuts < MaxCuts
    /\ cuts' = IF lost = 0 THEN cuts ELSE cuts + 1
    /\ frames' = Cut(lost)
    /\ \E found \in Recover(Cut(lost)) :
          LET log == RowsOf(found)
              recovered == RecoveredRows(log, fields)
          IN /\ found.result = "rows" /\ ~AnyErr(recovered)
             /\ wal' = log
             /\ rows' = recovered
             /\ given' = SubSeq(given, 1, Len(given) - Len(rows)) \o recovered
    /\ UNCHANGED <<fields, batches>>

Next ==
    \/ \E row \in Rows : PushRow(row)
    \/ Rotate
    \/ \E lost \in Losses : Restart(lost)

Spec == Init /\ [][Next]_vars

\* The wal-to-parquet command: the schema is inferred from the logged rows, and
\* the rows are pushed unchecked.
ReadLog(log) == [i \in DOMAIN log |-> ArchivedRow(log[i])]

Export(log, schema) ==
    IF schema = NoType THEN Err
    ELSE ToRecordBatch(schema, [i \in DOMAIN log |-> Group(ReadLog(log)[i])])

-----------------------------------------------------------------------------
\* One logical value has several forms: a list of primitives or a list, a null
\* or no field at all.
RECURSIVE Logical(_)
Logical(v) ==
    CASE v.t = "PrimList" -> List(Scalars(v))
      [] v.t = "List" -> List([i \in DOMAIN v.items |-> Logical(v.items[i])])
      [] v.t = "Group" -> Group([f \in {g \in DOMAIN v.row : v.row[g] # Null} |->
                                    Logical(v.row[f])])
      [] OTHER -> v

\* A timestamp is in it that has more than 64 bits: an Arrow array keeps the low
\* ones.
RECURSIVE HasLongTime(_)
HasLongTime(v) ==
    CASE v.t = "Time" -> ~InRange("I64", v.v)
      [] v.t = "List" -> \E i \in DOMAIN v.items : HasLongTime(v.items[i])
      [] v.t = "Group" -> \E f \in DOMAIN v.row : HasLongTime(v.row[f])
      [] v.t = "Map" ->
            \E i \in DOMAIN v.pairs : HasLongTime(v.pairs[i][1]) \/ HasLongTime(v.pairs[i][2])
      [] OTHER -> FALSE

\* The rows read from a table are those that were stored, but for timestamps of
\* more than 64 bits.
SameRows(s, u) ==
    Len(s) = Len(u) /\ \A i \in DOMAIN s : HasLongTime(u[i]) \/ Logical(s[i]) = Logical(u[i])

RECURSIVE Flatten(_)
Flatten(s) == IF s = <<>> THEN <<>> ELSE Head(s) \o Flatten(Tail(s))

\* Rows that repair takes and no array can be built of: a null where the type
\* has none, any list of numbers that may not be null, and anything in a column
\* of a type with a fixed list or a map in it.
RECURSIVE Blocks(_, _)
Blocks(type, v) ==
    \/ type.k = "Group" /\ v # Null /\ \E f \in DOMAIN type.fields :
          \/ v.row[f] = Null /\ ~type.fields[f].nullable
          \/ Blocks(type.fields[f].type, v.row[f])
    \/ type.k = "List" /\ v # Null /\ type.of.k = "Prim" /\ ~type.nullable
    \/ type.k = "List" /\ v # Null /\ type.of.k # "Prim" /\ v.t = "List" /\
          \E i \in DOMAIN v.items :
             \/ v.items[i] = Null /\ ~type.nullable
             \/ Blocks(type.of, v.items[i])

\* The rows in memory and in the log are the same rows, after those of the batches.
TypeOK ==
    /\ fields \in Schemas
    /\ Len(rows) = Len(wal)
    /\ \A i \in DOMAIN rows : rows[i].t = "Group" /\ DOMAIN rows[i].row = DOMAIN fields
    /\ rows = SubSeq(given, Len(given) - Len(rows) + 1, Len(given))

\* A list of Bools is in it: the archive does not give those back.
RECURSIVE HasBools(_)
HasBools(v) ==
    CASE v.t = "PrimList" -> v.p = "Bool"
      [] v.t = "List" -> \E i \in DOMAIN v.items : HasBools(v.items[i])
      [] v.t = "Group" -> \E f \in DOMAIN v.row : HasBools(v.row[f])
      [] v.t = "Map" ->
            \E i \in DOMAIN v.pairs : HasBools(v.pairs[i][1]) \/ HasBools(v.pairs[i][2])
      [] OTHER -> FALSE

\* What stands in the way of a roll-out stands in the way of all that follow:
\* the rows stay in the buffer, and restart with it from the log.  Only rows
\* that Blocks names do, and tables whose schema has a fixed list or a map; all
\* else that repair lets through can be built into a batch.  It is taken again
\* from the log as well, unless a list of Bools is in it.
AcceptedRowsFlush ==
    /\ ToRecordBatch(fields, rows) = Err <=>
            \/ ~Buildable(ToArrow(GroupType(fields)))
            \/ \E i \in DOMAIN rows : Blocks(GroupType(fields), rows[i])
    /\ \A i \in DOMAIN wal :
            ~HasBools(Group(wal[i])) => RecoveredRows(wal, fields)[i] = rows[i]

\* A row reads the same from a batch as it did in memory, but for the form of
\* its lists: no value is lost, cut or taken for another on the way through
\* the columns, unless it is a timestamp of more than 64 bits.
BatchesReadBack ==
    SameRows(Flatten([i \in DOMAIN batches |-> ReadRows(fields, batches[i])]) \o rows, given)

\* What the log gives after the process ended in an append.  The first such end
\* costs the row it was writing and no other, unless only padding is missing;
\* the rows written behind what is left are lost, or the log with them, but
\* none is taken for another, or read out of its turn.
LogReadsBack ==
    \A lost \in Losses : \A found \in Recover(Cut(lost)) :
        LET n == Len(frames) IN
        /\ found.result = "rows" => IsPrefix(RowsOf(found), wal)
        /\ cuts = 0 /\ lost = 0 => found.result = "rows" /\ RowsOf(found) = wal
        /\ cuts = 0 /\ lost # 0 /\ Cut(lost)[n].kept < PacketEnd(frames[n]) =>
              found.result = "rows" /\ RowsOf(found) = Front(wal)

\* A row that was taken reads the same wherever it is stored.
StoredRowsReadBack ==
    /\ TypeOK
    /\ BatchesReadBack
    /\ fields \in CutSchemas /\ frames # <<>> => LogReadsBack

\* The number a number or a text stands for, in halves.
Amount(v) ==
    CASE v.t = "Prim" -> IF v.p \in Floats THEN v.v ELSE 2 * v.v
      [] v.t = "Str" /\ "num" \in DOMAIN v.s -> v.s.num
      [] OTHER -> IF v.s \in {Word("true"), Word("yes")} THEN 2 ELSE 0

\* A Bool says whether the number is zero; a float is cut to an integer, or to
\* the limit of the type; the rest stays the number, or the text, it was.
SameScalar(v, r) ==
    CASE r.t = "Str" /\ v.t = "Str" -> r = v
      [] r.t = "Prim" /\ r.p = "Bool" -> r.v = 1 <=> Amount(v) # 0
      [] r.t = "Prim" /\ r.p \in Ints /\ v.t = "Prim" /\ v.p \in Floats ->
            \/ Amount(r) - v.v \in -1 .. 1
            \/ v.v > Amount(r) /\ r.v = Highest(r.p)
            \/ v.v < Amount(r) /\ r.v = Lowest(r.p)
      [] OTHER -> Amount(r) = Amount(v)

Elements(v) ==
    CASE v.t = "PrimList" -> Scalars(v) [] v.t = "List" -> v.items [] OTHER -> <<v>>

\* Elements of a list of integers are cast with `as`: beyond the limits they wrap.
Wraps(v, n, r) == v.t = "PrimList" /\ v.p \in Ints /\ r.p \in Ints /\ ~InRange(r.p, n)

\* r is the value v, in another form perhaps; but nulls of a list that becomes a
\* list of numbers are gone, and numbers of a list may wrap.
RECURSIVE SameValue(_, _)
SameValue(v, r) ==
    CASE v = Null \/ r = Null -> v = r
      [] v # Null /\ r # Null /\ r.t \in {"PrimList", "List"} ->
            LET came == IF r.t = "PrimList" THEN SelectSeq(Elements(v), LAMBDA c : c # Null)
                                            ELSE Elements(v)
                kept == Elements(r)
            IN /\ Len(came) = Len(kept)
               /\ \A i \in DOMAIN kept :
                     \/ r.t = "PrimList" /\ Wraps(v, came[i].v, r)
                     \/ SameValue(came[i], kept[i])
      [] v # Null /\ r # Null /\ r.t = "Group" ->
            \A f \in DOMAIN r.row :
                SameValue(IF f \in DOMAIN v.row THEN v.row[f] ELSE Null, r.row[f])
      [] v # Null /\ r # Null /\ r.t = "Map" ->
            /\ Len(v.pairs) = Len(r.pairs)
            /\ \A i \in DOMAIN r.pairs, j \in 1 .. 2 : SameValue(v.pairs[i][j], r.pairs[i][j])
      [] v # Null /\ r # Null /\ r.t = "Time" -> r = v
      [] OTHER -> SameScalar(v, r)

CoercedAsRepaired(v, repaired, type) ==
    LET coerced == TryCoerce(v, type)
    IN v.t \in {"Null", "Prim", "Str", "PrimList"} =>
          /\ coerced # Err => coerced = repaired
          /\ v.t \in {"Prim", "Str"} /\ type.k \in {"Prim", "Str"} => coerced # Err

\* A value of the type: no null where it has no Option.  Left out are the types
\* the spec of a module describes otherwise than TryFrom reads them: usize, the
\* lists of Options and of Bools.
RECURSIVE Holds(_, _)
Holds(T, v) ==
    CASE T.r = "Option" -> v = Null \/ Holds(T.of, v)
      [] T.r = "usize" -> FALSE
      [] T.r = "Vec" ->
            /\ T.of.r # "Option" /\ T.of # Num("Bool")
            /\ v.t = "List" => \A i \in DOMAIN v.items : Holds(T.of, v.items[i])
            /\ v # Null
      [] T.r = "Struct" ->
            v # Null /\ \A f \in DOMAIN T.fields :
                Holds(T.fields[f], IF f \in DOMAIN v.row THEN v.row[f] ELSE Null)
      [] T.r = "HashMap" ->
            v # Null /\ \A i \in DOMAIN v.pairs :
                Holds(T.key, v.pairs[i][1]) /\ Holds(T.value, v.pairs[i][2])
      [] OTHER -> v # Null

\* Modules with a parameter x of type T that answer with its value: alone, in a
\* tuple, or as a struct; and sessions of both kinds, one of them not well typed.
Echo(T) == Func([x |-> T], T, {"x"}, FALSE)
Twice(T) == Func([x |-> T], [x |-> T, y |-> T], {"x", "y"}, FALSE)
Whole(T) == Func([x |-> T], T, {}, FALSE)
Borrowing(T) == Func([x |-> MapTypeToRef(T)], T, {"x"}, FALSE)
Session(prior, T) ==
    Func([prior |-> prior, input |-> T], T, IF T.r = "Struct" THEN {} ELSE {"x"}, TRUE)
SessionDiff(T) ==
    Func([prior_input |-> Vec(T), prior_output |-> Vec(T), input |-> T], T,
         IF T.r = "Struct" THEN {} ELSE {"x"}, TRUE)
Sessions(T) == {Session(T, T), Session(Vec(T), T), SessionDiff(T)}

\* What the function returns, and the row it is.
Answers(T, got) ==
    {[func |-> Echo(T), value |-> got, row |-> [x |-> got]],
     [func |-> Twice(T), value |-> [x |-> got, y |-> got], row |-> [x |-> got, y |-> got]]}
    \cup IF T.r = "Struct" THEN {[func |-> Whole(T), value |-> got, row |-> got.row]} ELSE {}

StoredAsGiven(answer) ==
    LET row == ArchivedRow(OutputRow(answer.func, answer.value))
        stored == ProjectRepair(row, OutputSchema(answer.func))
    IN stored # Err /\ Logical(stored) = Logical(Group(answer.row))

\* The row of a closed session and its schema, and the turns who reads it finds.
ClosedRow(func, inputs, outputs) ==
    IF Kind(func) = "SessionDiff" THEN DiffRow(inputs, outputs)
    ELSE SessionRow(inputs \o outputs)

ClosedSchema(func) ==
    IF Kind(func) = "SessionDiff" THEN DiffSchema(func) ELSE SessionSchema(func)

TurnsIn(func, row) ==
    IF Kind(func) = "SessionDiff" THEN UnpackDiff(row)["inputs"] \o UnpackDiff(row)["outputs"]
    ELSE UnpackSession(row)

\* Left out: the inputs of a session_diff that are structs, whose group in the
\* schema has only a field "input"; and, from a batch, turns that are numbers,
\* which come back as a list of primitives.
KeepsTurns(func) == Kind(func) = "SessionDiff" => func.params["input"].r # "Struct"
UnpacksBatch(func) == Kind(func) = "Session" => func.params["input"].r # "Num"

\* A session of one exchange, input and answer both the value got.  The function
\* sees every turn as that value, and so does who reads the row the closed
\* session became, before and after its roll-out.
SessionHolds(func, input, got) ==
    LET output == OutputRow(func, got)
        isDiff == Kind(func) = "SessionDiff"
        args == SessionArguments(func, IF isDiff THEN <<input>> ELSE <<input, output>>,
                                 <<output>>, input)
        schema == ClosedSchema(func)
        closed == ProjectRepair(ClosedRow(func, <<input>>, <<output>>), schema)
        batch == ToRecordBatch(schema, <<closed>>)
        TurnsHold(row) ==
            FromRows(func.params["input"], TurnsIn(func, row)) = List(<<got, got>>)
    IN /\ args["input"] = got
       /\ \A f \in DOMAIN args \ {"input"} :
              args[f] = List(IF isDiff THEN <<got>> ELSE <<got, got>>)
       /\ KeepsTurns(func) =>
              /\ closed # Err /\ TurnsHold(closed.row)
              /\ UnpacksBatch(func) /\ batch # Err /\ ~HasLongTime(closed) =>
                    TurnsHold(ReadRows(schema, batch.items)[1].row)

\* A function that borrows a struct gets what one that takes it gets, but for its
\* lists of numbers: repair leaves some of them generic lists, which cannot be
\* borrowed.
BorrowsTheSame(T, repaired, got) ==
    LET borrowed == Arguments(Borrowing(T), [x |-> repaired])["x"]
    IN /\ InputSchema(Borrowing(T)) = InputSchema(Echo(T))
       /\ borrowed \in {got, Err}
       /\ borrowed = Err => \E f \in DOMAIN repaired.row : repaired.row[f].t = "List"

\* The two descriptions of T agree; a function with a parameter x of type T gets
\* the repaired value, and its answer is stored as that value; a session's
\* function gets the same.
CalledWithRepaired(T, v, repaired) ==
    LET got == Arguments(Echo(T), [x |-> repaired])["x"]
        json == IF T.r = "Struct" THEN ToJson(v) ELSE JObject([input |-> ToJson(v)])
    IN Holds(T, repaired) =>
          /\ repaired # Null => ResolveType(T) = PyroType(T)
          /\ Logical(got) = Logical(repaired)
          /\ T.r = "Struct" => BorrowsTheSame(T, repaired, got)
          /\ T.r # "HashMap" => \A answer \in Answers(T, got) : StoredAsGiven(answer)
          /\ ~IsOption(T) =>
                \A func \in {f \in Sessions(T) : ExpandsSession(f)} :
                    CallRow(func, json) # Err => SessionHolds(func, CallRow(func, json).row, got)

\* On the way from a request to a stored row no value is taken for another, with
\* the exceptions that SameValue states: nulls vanish from lists of numbers, and
\* integers in lists wrap.  A row repaired to its schema holds the values it came
\* with.  What a module's own values are coerced to is what the same values would
\* be repaired to, and for a scalar target coercion refuses nothing that repair
\* takes; a request whose JSON is taken holds the values that were written; the
\* function of a module whose spec is the schema gets them, and its answer is
\* stored as it gave it.
ConversionsAgree ==
    \A i \in DOMAIN wal :
        LET sent == RepairedPayload(ToJson(Group(wal[i])), fields)
        IN /\ SameValue(Group(wal[i]), rows[i])
           /\ \A f \in DOMAIN fields \cap DOMAIN wal[i] :
                CoercedAsRepaired(wal[i][f], rows[i].row[f], fields[f].type)
           /\ sent # Err => Logical(sent) = Logical(rows[i])
           /\ \A T \in Params :
                InputSchema(Echo(T)) = fields /\ "x" \in DOMAIN wal[i] =>
                    CalledWithRepaired(T, wal[i]["x"], rows[i].row["x"])

\* A null is among the elements of a list in it.
RECURSIVE HasNulls(_)
HasNulls(v) ==
    CASE v.t = "List" -> \E i \in DOMAIN v.items : v.items[i] = Null \/ HasNulls(v.items[i])
      [] v.t = "Group" -> \E f \in DOMAIN v.row : HasNulls(v.row[f])
      [] OTHER -> FALSE

\* The rows of the export and, taken by a manager with the schema the table is
\* read back with, the same rows again.
ReadAgain(schema, exported) ==
    LET readBack == FieldsFromArrow(ToArrow(GroupType(schema)))
    IN [i \in DOMAIN exported |-> ProjectRepair(exported[i].row, readBack)]

RowsKept(exported, again) ==
    /\ SameRows(exported, [i \in DOMAIN wal |-> Archived(Group(wal[i]))])
    /\ \A i \in DOMAIN again :
           HasNulls(exported[i]) \/ Logical(again[i]) = Logical(exported[i])

TableKept(schema, exported) == RowsKept(exported, ReadAgain(schema, exported))

ExportKeeps(schema) ==
    LET batch == Export(wal, schema)
    IN batch # Err => TableKept(schema, ReadRows(schema, batch.items))

\* A log exported without its schema has every row, as the log gives it, or the
\* export fails: the inferred types lose nothing.  Nor does the schema that is
\* read back from the table: a manager opened with it takes the table's rows
\* and keeps them, but for nulls in lists.
ExportKeepsRows ==
    wal # <<>> => ExportKeeps(InferSchema(ReadLog(wal)))

=============================================================================
