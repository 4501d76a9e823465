---------------------------- MODULE ModuleTypes ----------------------------
(***************************************************************************)
(* How the row of a call reaches the Rust function of a module and how its *)
(* answer comes back (pyro-macro's module, format and struct_doc; pyroduct *)
(* format/value; the call of pyro-daemon's playbook manager).  The spec of *)
(* a module is read from its source by SchemaBuilder, the same types are   *)
(* described to the running program by Typeable.  The JSON of a request    *)
(* becomes a row, the row is repaired to the spec, archived into the       *)
(* guest's memory, and each parameter takes its value by name.             *)
(* A Rust value is written as the value it is made from: a Vec is a list,  *)
(* a struct a group, None is Null.                                         *)
(***************************************************************************)
EXTENDS RowValues

LOCAL INSTANCE SequencesExt

\* Rust types
Num(p) == [r |-> "Num", p |-> p]
Text == [r |-> "String"]
DateTime == [r |-> "DateTime"]
Size == [r |-> "usize"]
Option(T) == [r |-> "Option", of |-> T]
Vec(T) == [r |-> "Vec", of |-> T]
HashMap(K, V) == [r |-> "HashMap", key |-> K, value |-> V]
Struct(fields) == [r |-> "Struct", fields |-> fields]

\* Borrowed types: a slice of numbers, and the Ref struct the macro derives from
\* a struct, written with that struct's fields.
Slice(p) == [r |-> "Slice", p |-> p]
Ref(fields) == [r |-> "Ref", fields |-> fields]

IsOption(T) == T.r = "Option"

-----------------------------------------------------------------------------
\* Typeable::pyro_type and primitive_data_type
RECURSIVE PrimitiveDataType(_)
PrimitiveDataType(T) ==
    CASE T.r = "Num" -> T.p
      [] T.r = "usize" -> "U64"
      [] T.r = "Option" -> PrimitiveDataType(T.of)
      [] OTHER -> "None"

RECURSIVE PyroType(_)
PyroType(T) ==
    CASE T.r \in {"Num", "usize"} -> Prim(PrimitiveDataType(T))
      [] T.r = "String" -> StrType
      [] T.r = "DateTime" -> TimeType
      [] T.r = "Option" -> PyroType(T.of)
      [] T.r = "Vec" ->
            IF PrimitiveDataType(T.of) # "None" /\ ~IsOption(T.of)
            THEN PrimListType(PrimitiveDataType(T.of))
            ELSE ListType(PyroType(T.of), IsOption(T.of))
      [] T.r = "HashMap" -> MapType(PyroType(T.key), PyroType(T.value))
      [] T.r = "Struct" ->
            GroupType([f \in DOMAIN T.fields |->
                Field(PyroType(T.fields[f]), IsOption(T.fields[f]))])

\* SchemaBuilder::resolve_type: a name it does not know, usize among them, is a
\* group without fields; elements are never nullable; a Ref is its struct; a
\* slice has no name at all.
RECURSIVE ResolveType(_)

ResolveFields(fields) ==
    [f \in DOMAIN fields |-> Field(ResolveType(fields[f]), IsOption(fields[f]))]

ResolveType(T) ==
    CASE T.r = "Num" -> Prim(T.p)
      [] T.r = "String" -> StrType
      [] T.r = "DateTime" -> TimeType
      [] T.r = "usize" -> GroupType(<<>>)
      [] T.r = "Option" -> ResolveType(T.of)
      [] T.r = "Vec" ->
            LET inner == ResolveType(T.of)
            IN IF inner.k = "Prim" THEN PrimListType(inner.p) ELSE ListType(inner, FALSE)
      [] T.r = "HashMap" -> MapType(ResolveType(T.key), ResolveType(T.value))
      [] T.r = "Slice" -> NullType
      [] T.r \in {"Struct", "Ref"} -> GroupType(ResolveFields(T.fields))

-----------------------------------------------------------------------------
\* A module's function: its parameters, the type it returns, the fields its
\* output attribute names (one, several for a tuple, or none for a struct), and
\* whether it is a session's.
Func(params, returns, output, session) ==
    [params |-> params, returns |-> returns, output |-> output, session |-> session]

\* ModuleSpecBuilder::build
InputSchema(func) == ResolveFields(func.params)

OutputSchema(func) ==
    CASE func.output = {} -> ResolveFields(func.returns.fields)
      [] Cardinality(func.output) = 1 ->
            [f \in func.output |-> Field(ResolveType(func.returns), IsOption(func.returns))]
      [] OTHER -> ResolveFields([f \in func.output |-> func.returns[f]])

Kind(func) ==
    CASE ~func.session -> "Normal"
      [] func.session /\ Cardinality(DOMAIN func.params) = 2 -> "Session"
      [] func.session /\ Cardinality(DOMAIN func.params) = 3 -> "SessionDiff"
      [] OTHER -> "Normal"

-----------------------------------------------------------------------------
\* From<&ArchivedPyroValue>, the value an archive is read as: the lists of Bools
\* become lists of U8s.
ArchivedList(l) == IF l.p = "Bool" THEN PrimList("U8", l.items) ELSE l

RECURSIVE Archived(_)
Archived(v) ==
    CASE v.t = "PrimList" -> ArchivedList(v)
      [] v.t = "List" -> List([i \in DOMAIN v.items |-> Archived(v.items[i])])
      [] v.t = "Group" -> Group([f \in DOMAIN v.row |-> Archived(v.row[f])])
      [] v.t = "Map" ->
            Map([i \in DOMAIN v.pairs |-> <<Archived(v.pairs[i][1]), Archived(v.pairs[i][2])>>])
      [] OTHER -> v

ArchivedRow(row) == Archived(Group(row)).row

-----------------------------------------------------------------------------
\* TryFrom<PyroValue>: the Rust value of type T, or Err.  Nothing is cast: the
\* variant must be the type's own.
TryToNum(p, v) == IF v.t = "Prim" /\ v.p = p THEN v ELSE Err

TryToSize(v) == IF v.t = "Prim" /\ v.p \in {"U64", "U32"} THEN Scalar("U64", v.v) ELSE Err

RECURSIVE TryTo(_, _)

TryToOption(T, v) == IF v = Null THEN Null ELSE TryTo(T.of, v)

\* The items of a Vec: a list of primitives is taken as it is if it is of the
\* element's type, any other list item by item.
TryToVec(T, v) ==
    IF v.t = "PrimList" /\ v.p = PrimitiveDataType(T.of) /\ ~IsOption(T.of)
    THEN List(Scalars(v))
    ELSE IF v.t = "List"
    THEN ListOf([i \in DOMAIN v.items |-> TryTo(T.of, v.items[i])])
    ELSE Err

\* Of two entries with one key the later stays.
TryToHashMap(T, v) ==
    LET keys == [i \in DOMAIN v.pairs |-> TryTo(T.key, v.pairs[i][1])]
        vals == [i \in DOMAIN v.pairs |-> TryTo(T.value, v.pairs[i][2])]
        last == {i \in DOMAIN keys : ~\E j \in DOMAIN keys : j > i /\ keys[j] = keys[i]}
    IN IF AnyErr(keys) \/ AnyErr(vals) THEN Err
       ELSE Map(SetToSeq({<<keys[i], vals[i]>> : i \in last}))

\* A slice borrows the list, which must be one of its own type.
TryToSlice(p, v) == IF v.t = "PrimList" /\ v.p = p THEN List(Scalars(v)) ELSE Err

\* map_type_to_ref: the borrowed form of the type of a struct's field
RECURSIVE MapTypeToRef(_)
MapTypeToRef(T) ==
    CASE T.r = "Vec" ->
            IF T.of.r \in {"Num", "usize"} THEN Slice(PrimitiveDataType(T.of))
            ELSE Vec(MapTypeToRef(T.of))
      [] T.r = "Option" -> Option(MapTypeToRef(T.of))
      [] T.r = "Struct" -> Ref(T.fields)
      [] OTHER -> T

\* A field of a struct: only an Option may be missing.
FromField(T, row, f) ==
    IF IsOption(T) /\ (f \notin DOMAIN row \/ row[f] = Null) THEN Null
    ELSE IF f \notin DOMAIN row THEN Err
    ELSE TryTo(IF IsOption(T) THEN T.of ELSE T, row[f])

FromRefField(T, row, f) == FromField(MapTypeToRef(T), row, f)

\* The derived TryFrom<PyroRow> of a struct, and of its Ref.
FromRow(fields, row) == GroupOf([f \in DOMAIN fields |-> FromField(fields[f], row, f)])
RefFromRow(fields, row) == GroupOf([f \in DOMAIN fields |-> FromRefField(fields[f], row, f)])

TryTo(T, v) ==
    CASE T.r = "Num" -> TryToNum(T.p, v)
      [] T.r = "usize" -> TryToSize(v)
      [] T.r = "String" -> IF v.t = "Str" THEN v ELSE Err
      [] T.r = "DateTime" -> IF v.t = "Time" THEN v ELSE Err
      [] T.r = "Option" -> TryToOption(T, v)
      [] T.r = "Vec" -> TryToVec(T, v)
      [] T.r = "HashMap" -> IF v.t = "Map" THEN TryToHashMap(T, v) ELSE Err
      [] T.r = "Slice" -> TryToSlice(T.p, v)
      [] T.r = "Struct" -> IF v.t = "Group" THEN FromRow(T.fields, v.row) ELSE Err
      [] T.r = "Ref" -> IF v.t = "Group" THEN RefFromRow(T.fields, v.row) ELSE Err

\* TryFrom<PyroRow>: the struct of the row, or the value of its only column.
FromOnlyColumn(T, row) ==
    IF Cardinality(DOMAIN row) = 1 THEN TryTo(T, row[CHOOSE f \in DOMAIN row : TRUE]) ELSE Err

TryFromRow(T, row) ==
    IF T.r = "Struct" THEN FromRow(T.fields, row)
    ELSE IF T.r = "Ref" THEN RefFromRow(T.fields, row)
    ELSE FromOnlyColumn(T, row)

\* PyroRow::get_value: a missing name is an error even for an Option.
GetValue(T, row, f) == IF f \in DOMAIN row THEN TryTo(T, row[f]) ELSE Err

-----------------------------------------------------------------------------
\* From<T> for PyroValue, and ToRow of a struct.  There is none for a HashMap.
RECURSIVE FromValue(_, _)

ToRow(fields, x) == [f \in DOMAIN fields |-> FromValue(fields[f], x.row[f])]

\* A Vec of numbers becomes a list of primitives, any other a list.
FromNumbers(p, x) == PrimList(p, [i \in DOMAIN x.items |-> x.items[i].v])
FromItems(T, x) == List([i \in DOMAIN x.items |-> FromValue(T, x.items[i])])

FromValue(T, x) ==
    CASE T.r = "Option" -> IF x = Null THEN Null ELSE FromValue(T.of, x)
      [] T.r = "Vec" -> IF T.of.r = "Num" THEN FromNumbers(T.of.p, x) ELSE FromItems(T.of, x)
      [] T.r = "Struct" -> Group(ToRow(T.fields, x))
      [] OTHER -> x

\* The row a function answers with: the struct itself, or the struct __Output the
\* macro generates for its fields.
OutputRow(func, x) ==
    CASE func.output = {} -> ToRow(func.returns.fields, x)
      [] Cardinality(func.output) = 1 ->
            [f \in func.output |-> FromValue(func.returns, x)]
      [] OTHER -> [f \in func.output |-> FromValue(func.returns[f], x[f])]

-----------------------------------------------------------------------------
\* JSON, as serde reads and writes it.  A date is a text [date |-> n].
JNull == [j |-> "null"]
JBool(b) == [j |-> "bool", v |-> b]
JInt(n) == [j |-> "int", v |-> n]
JFloat(h) == [j |-> "float", v |-> h]
JText(s) == [j |-> "text", s |-> s]
JArray(s) == [j |-> "array", items |-> s]
JObject(row) == [j |-> "object", row |-> row]
Date(n) == [date |-> n]

JNumber(p, n) ==
    IF p = "Bool" THEN JBool(n) ELSE IF p \in Floats THEN JFloat(n) ELSE JInt(n)

\* F16 is not written as a number: left out.
RECURSIVE ToJson(_)
ToJson(v) ==
    CASE v.t = "Null" -> JNull
      [] v.t = "Prim" -> JNumber(v.p, v.v)
      [] v.t = "Str" -> JText(v.s)
      [] v.t = "Time" -> JText(Date(v.v))
      [] v.t = "PrimList" -> JArray([i \in DOMAIN v.items |-> JNumber(v.p, v.items[i])])
      [] v.t = "List" -> JArray([i \in DOMAIN v.items |-> ToJson(v.items[i])])
      [] v.t = "Group" -> JObject([f \in DOMAIN v.row |-> ToJson(v.row[f])])
      [] v.t = "Map" ->
            JArray([i \in DOMAIN v.pairs |->
                JArray(<<ToJson(v.pairs[i][1]), ToJson(v.pairs[i][2])>>)])

\* The variants are tried in their order: the first integer type a number fits.
FirstOf(types, numbers) ==
    LET fits == SelectSeq(types, LAMBDA p : \A n \in numbers : InRange(p, n))
    IN IF fits = <<>> THEN "None" ELSE Head(fits)

ScalarOrder == <<"I8", "I16", "I32", "I64", "U8", "U16", "U32", "U64">>
ListOrder == <<"U8", "U16", "U32", "U64", "I8", "I16", "I32", "I64">>

AllAre(items, kinds) == \A i \in DOMAIN items : items[i].j \in kinds
CellsOf(items) == [i \in DOMAIN items |-> items[i].v]
IsEntry(item) == item.j = "array" /\ Len(item.items) = 2 /\ item.items[1].j = "text"

RECURSIVE FromJson(_)

NumberFromJson(j) ==
    LET p == FirstOf(ScalarOrder, {j.v})
    IN IF j.j = "float" THEN Scalar("F32", j.v)
       ELSE IF p = "None" THEN Scalar("F32", 2 * j.v) ELSE Scalar(p, j.v)

\* An array of Bools, then of integers of one type, then of floats; an array of
\* entries is an object; anything else is a list.  An entry's name is a word.
ArrayFromJson(items) ==
    LET p == FirstOf(ListOrder, {items[i].v : i \in DOMAIN items})
    IN CASE AllAre(items, {"bool"}) -> PrimList("Bool", CellsOf(items))
      [] ~AllAre(items, {"bool"}) /\ AllAre(items, {"int"}) /\ p # "None" ->
            PrimList(p, CellsOf(items))
      [] ~AllAre(items, {"bool"}) /\ AllAre(items, {"int", "float"})
         /\ (~AllAre(items, {"int"}) \/ p = "None") ->
            PrimList("F32", [i \in DOMAIN items |->
                IF items[i].j = "int" THEN 2 * items[i].v ELSE items[i].v])
      [] items # <<>> /\ \A i \in DOMAIN items : IsEntry(items[i]) ->
            Group([w \in {items[i].items[1].s.word : i \in DOMAIN items} |->
                FromJson((CHOOSE e \in {items[i].items : i \in DOMAIN items} :
                            e[1].s.word = w)[2])])
      [] OTHER -> List([i \in DOMAIN items |-> FromJson(items[i])])

\* A text that is a date in any of the formats Time takes is a time.
FromJson(j) ==
    CASE j.j = "null" -> Null
      [] j.j = "bool" -> Scalar("Bool", j.v)
      [] j.j \in {"int", "float"} -> NumberFromJson(j)
      [] j.j = "text" -> IF "date" \in DOMAIN j.s THEN Time(j.s.date) ELSE Str(j.s)
      [] j.j = "array" -> ArrayFromJson(j.items)
      [] j.j = "object" -> Group([f \in DOMAIN j.row |-> FromJson(j.row[f])])

-----------------------------------------------------------------------------
\* The payload of a request as a row for the pipeline: call_playbook_record.  A
\* session's struct is sent bare, any other input under the name "input".
RowFromJson(j) ==
    IF j.j \in {"object", "array"} /\ FromJson(j).t = "Group" THEN FromJson(j).row ELSE Err

RepairedPayload(j, fields) ==
    IF RowFromJson(j) = Err THEN Err ELSE ProjectRepair(RowFromJson(j), fields)

SessionPayload(func, j) ==
    LET field == InputSchema(func)["input"]
        named == j.j = "object" /\ "input" \in DOMAIN j.row
    IN IF field.type.k = "Group" THEN RepairedPayload(j, field.type.fields)
       ELSE RepairedPayload(IF named THEN j ELSE JObject([input |-> j]), [input |-> field])

CallRow(func, j) ==
    IF Kind(func) = "Normal" THEN RepairedPayload(j, InputSchema(func)) ELSE SessionPayload(func, j)

\* What the generated call_extern makes of the row in the guest's memory: the
\* value of each parameter.
Arguments(func, row) ==
    LET arrived == ArchivedRow(row)
    IN [f \in DOMAIN func.params |-> GetValue(func.params[f], arrived, f)]

\* What expand_session takes for a session: one type for its turns, or the types
\* of its inputs and of its outputs.
ExpandsSession(func) ==
    LET T == func.params["input"]
    IN \/ func.params = [prior |-> Vec(T), input |-> T] /\ func.returns = T
       \/ func.params = [prior_input |-> Vec(T), prior_output |-> Vec(func.returns), input |-> T]

\* What the generated call_session_extern makes of the rows the host has kept for
\* the session: its earlier turns, and the input.
FromRows(T, turns) == ListOf([i \in DOMAIN turns |-> TryFromRow(T, ArchivedRow(turns[i]))])

SessionArguments(func, inputs, outputs, input) ==
    LET T == func.params["input"]
        new == TryFromRow(T, ArchivedRow(input))
    IN IF Kind(func) = "Session"
       THEN [prior |-> FromRows(T, inputs), input |-> new]
       ELSE [prior_input |-> FromRows(T, inputs), prior_output |-> FromRows(func.returns, outputs),
             input |-> new]

-----------------------------------------------------------------------------
\* The row a closed session becomes, and its schema: all its turns as one list.
\* A row of one column is its value.
RollupItem(row) ==
    IF Cardinality(DOMAIN row) = 1 THEN row[CHOOSE f \in DOMAIN row : TRUE] ELSE Group(row)

SessionRow(turns) == [session |-> List([i \in DOMAIN turns |-> RollupItem(turns[i])])]

SessionSchema(func) ==
    [session |-> Field(ListType(InputSchema(func)["input"].type, TRUE), FALSE)]

\* A session_diff: its inputs and its outputs, each a group.
Groups(turns) == List([i \in DOMAIN turns |-> Group(turns[i])])

DiffRow(inputs, outputs) == [inputs |-> Groups(inputs), outputs |-> Groups(outputs)]

DiffSchema(func) ==
    LET input == Field(InputSchema(func)["input"].type, TRUE)
        output == [f \in DOMAIN OutputSchema(func) |->
                    IF OutputSchema(func)[f].type = GroupType(<<>>)
                    THEN Field(input.type, OutputSchema(func)[f].nullable)
                    ELSE OutputSchema(func)[f]]
    IN [inputs |-> Field(ListType(GroupType([input |-> input]), FALSE), FALSE),
        outputs |-> Field(ListType(GroupType(output), FALSE), FALSE)]

\* unpack_session and unpack_session_diff: the turns of a stored row.  Only a
\* generic list has any.
UnpackSession(row) ==
    IF row["session"].t # "List" THEN <<>>
    ELSE LET turns == row["session"].items
         IN [i \in DOMAIN turns |->
                IF turns[i].t = "Group" THEN turns[i].row ELSE [value |-> turns[i]]]

UnpackDiff(row) ==
    LET turns(f) == IF row[f].t = "List"
                    THEN [i \in DOMAIN row[f].items |-> row[f].items[i].row] ELSE <<>>
    IN [inputs |-> turns("inputs"), outputs |-> turns("outputs")]

=============================================================================
