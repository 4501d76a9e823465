----------------------------- MODULE RowValues -----------------------------
(***************************************************************************)
(* Values, their types and the conversions between them (pyroduct          *)
(* format/value, pyro-spec).  Repair turns a value a caller sent into the  *)
(* type a schema asks for; TryCoerce does the same for a value a module's  *)
(* own Rust code produced; InferSchema finds a schema for rows.            *)
(* A row is a function from names to values: the code keeps the order of   *)
(* its schema.  A number is an integer; a float is counted in halves, so   *)
(* 3 is 1.5.  NaN, the infinities and rounding are left out.  A text is    *)
(* a word or the decimal form of a number, also counted in halves.         *)
(***************************************************************************)
EXTENDS Integers, Sequences, FiniteSets

CONSTANT Bits     \* Bits[p]: the width of each integer type, scaled down

Signed == {"I8", "I16", "I32", "I64"}
Unsigned == {"U8", "U16", "U32", "U64"}
Ints == Signed \cup Unsigned
Floats == {"F16", "F32", "F64"}
ASSUME BitsAssumption ==
    /\ Bits \in [Ints -> Nat \ {0}]
    /\ Bits["I8"] < Bits["I16"] /\ Bits["I16"] < Bits["I32"] /\ Bits["I32"] < Bits["I64"]
    /\ Bits["U8"] < Bits["U16"] /\ Bits["U16"] < Bits["U32"] /\ Bits["U32"] < Bits["U64"]

Lowest(p) == IF p \in Signed THEN -(2^(Bits[p] - 1)) ELSE 0
Highest(p) == IF p \in Signed THEN 2^(Bits[p] - 1) - 1 ELSE 2^Bits[p] - 1
InRange(p, n) == Lowest(p) <= n /\ n <= Highest(p)

-----------------------------------------------------------------------------
\* PyroValue.  A cell of a Bool is 0 or 1.
Null == [t |-> "Null"]
Err == [t |-> "Err"]
Scalar(p, n) == [t |-> "Prim", p |-> p, v |-> n]
Str(s) == [t |-> "Str", s |-> s]
Word(w) == [word |-> w]
Numeral(h) == [num |-> h]
Time(n) == [t |-> "Time", v |-> n]
PrimList(p, s) == [t |-> "PrimList", p |-> p, items |-> s]
List(s) == [t |-> "List", items |-> s]
Group(row) == [t |-> "Group", row |-> row]
Map(pairs) == [t |-> "Map", pairs |-> pairs]

Scalars(l) == [i \in DOMAIN l.items |-> Scalar(l.p, l.items[i])]
AnyErr(s) == \E i \in DOMAIN s : s[i] = Err
ListOf(s) == IF AnyErr(s) THEN Err ELSE List(s)
GroupOf(row) == IF AnyErr(row) THEN Err ELSE Group(row)

\* PyroType and PyroField
NullType == [k |-> "Null"]
Prim(p) == [k |-> "Prim", p |-> p]
StrType == [k |-> "Str"]
TimeType == [k |-> "Time"]
PrimListType(p) == [k |-> "PrimList", p |-> p]
FixedListType(p, n) == [k |-> "FixedList", p |-> p, size |-> n]
ListType(of, nullable) == [k |-> "List", of |-> of, nullable |-> nullable]
GroupType(fields) == [k |-> "Group", fields |-> fields]
MapType(key, value) == [k |-> "Map", key |-> key, value |-> value]
Field(type, nullable) == [type |-> type, nullable |-> nullable]
NoType == [k |-> "None"]

-----------------------------------------------------------------------------
\* Numbers.  `as` wraps between integers and saturates from a float.
Wrap(p, n) ==
    LET m == n % 2^Bits[p]
    IN IF p \in Signed /\ m > Highest(p) THEN m - 2^Bits[p] ELSE m

Truncate(h) == IF h >= 0 THEN h \div 2 ELSE -((-h) \div 2)

Saturate(p, h) ==
    IF Truncate(h) < Lowest(p) THEN Lowest(p)
    ELSE IF Truncate(h) > Highest(p) THEN Highest(p) ELSE Truncate(h)

As(p, q, n) ==
    CASE p \in Floats /\ q \in Ints -> Saturate(q, n)
      [] p \notin Floats /\ q \in Floats -> 2 * n
      [] p \in Floats /\ q \in Floats -> n
      [] OTHER -> Wrap(q, n)

\* Integers are checked, floats are not: a float too large becomes the limit.
Cast(p, q, n) ==
    IF p \in Ints /\ q \in Ints /\ ~InRange(q, n) THEN Err ELSE Scalar(q, As(p, q, n))

Parse(s, q) ==
    IF q = "Bool"
    THEN IF s \in {Word("true"), Numeral(2), Word("yes")} THEN Scalar("Bool", 1)
         ELSE IF s \in {Word("false"), Numeral(0), Word("no")} THEN Scalar("Bool", 0)
         ELSE Err
    ELSE IF "num" \notin DOMAIN s \/ q = "F16" THEN Err
    ELSE IF q \in Floats THEN Scalar(q, s.num)
    ELSE IF s.num % 2 = 0 /\ InRange(q, s.num \div 2) THEN Scalar(q, s.num \div 2)
    ELSE Err

TextOf(v) ==
    IF v.p = "Bool" THEN Word(IF v.v = 1 THEN "true" ELSE "false")
    ELSE Numeral(IF v.p \in Floats THEN v.v ELSE 2 * v.v)

-----------------------------------------------------------------------------
\* Repair of a scalar.  Only three integer types become a Bool, and F16 is
\* neither source nor target.
RepairToBool(v) ==
    CASE v.t = "Null" -> Null
      [] v.t = "Str" -> Parse(v.s, "Bool")
      [] v.t = "Prim" /\ v.p = "Bool" -> v
      [] v.t = "Prim" /\ v.p \in {"I8", "I32", "I64"} ->
            Scalar("Bool", IF v.v # 0 THEN 1 ELSE 0)
      [] OTHER -> Err

RepairToInt(v, q) ==
    CASE v.t = "Null" -> Null
      [] v.t = "Str" -> Parse(v.s, q)
      [] v.t = "Prim" /\ v.p # "F16" -> Cast(v.p, q, v.v)
      [] OTHER -> Err

RepairToFloat(v, q) ==
    CASE v.t = "Null" -> Null
      [] v.t = "Str" -> Parse(v.s, q)
      [] v.t = "Prim" /\ v.p # "F16" -> Scalar(q, As(v.p, q, v.v))
      [] OTHER -> Err

RepairScalar(v, q) ==
    IF q = "Bool" THEN RepairToBool(v)
    ELSE IF q = "F16" THEN Err
    ELSE IF q \in Ints THEN RepairToInt(v, q) ELSE RepairToFloat(v, q)

RepairToUtf8(v) ==
    CASE v.t \in {"Null", "Str"} -> v
      [] v.t = "Prim" /\ v.p # "F16" -> Str(TextOf(v))
      [] OTHER -> Err

\* Repair of lists.  Elements are cast with `as`; the size of a list that has
\* the type already is not looked at.
Casts == ((Ints \cup {"F32", "F64"}) \X {"I32", "I64"})
         \cup {<<"F64", "F32">>, <<"I64", "F32">>, <<"I32", "F32">>,
               <<"F32", "F64">>, <<"I64", "F64">>, <<"I32", "F64">>}

RepairElements(l, q, size) ==
    IF l.p = q /\ q # "F16" THEN l
    ELSE IF <<l.p, q>> \notin Casts \/ Len(l.items) \notin size THEN Err
    ELSE PrimList(q, [i \in DOMAIN l.items |-> As(l.p, q, l.items[i])])

\* pack_primitive_list: nulls vanish from six of the types; the others come
\* back as a generic list.
\* Mutant: the types left to the generic list are not repaired.
PackUnrepaired(items, q) ==
    LET cells == [i \in DOMAIN items |->
                    IF items[i] = Null THEN Null ELSE RepairScalar(items[i], q)]
        full == SelectSeq(cells, LAMBDA c : c # Null)
    IN IF q \notin {"I32", "I64", "F64", "F32", "Bool", "U8"} THEN List(items)
       ELSE IF AnyErr(cells) THEN Err
       ELSE PrimList(q, [i \in DOMAIN full |-> full[i].v])

Pack(items, q) ==
    LET cells == [i \in DOMAIN items |->
                    IF items[i] = Null THEN Null ELSE RepairScalar(items[i], q)]
        full == SelectSeq(cells, LAMBDA c : c # Null)
    IN IF q \notin {"I32", "I64", "F64", "F32", "Bool", "U8"} THEN ListOf(cells)
       ELSE IF AnyErr(cells) THEN Err
       ELSE PrimList(q, [i \in DOMAIN full |-> full[i].v])

RepairPrimList(v, q, size) ==
    CASE v.t = "PrimList" -> RepairElements(v, q, size)
      [] v.t = "List" -> IF Len(v.items) \in size THEN Pack(v.items, q) ELSE Err
      [] v.t \notin {"PrimList", "List"} ->
            IF 1 \notin size \/ RepairScalar(v, q) = Err THEN Err
            ELSE Pack(<<RepairScalar(v, q)>>, q)

RECURSIVE Repair(_, _)
Repair(v, type) ==
    IF v = Null THEN Null
    ELSE CASE type.k = "Null" -> Null
      [] type.k = "Prim" -> RepairScalar(v, type.p)
      [] type.k = "Str" -> RepairToUtf8(v)
      [] type.k = "Time" -> IF v.t = "Time" THEN v ELSE Err
      [] type.k = "PrimList" -> RepairPrimList(v, type.p, Nat)
      [] type.k = "FixedList" -> RepairPrimList(v, type.p, {type.size})
      [] type.k = "List" ->
            LET items == IF v.t = "List" THEN v.items ELSE <<v>>
            IN ListOf([i \in DOMAIN items |-> Repair(items[i], type.of)])
      [] type.k = "Group" ->
            IF v.t # "Group" THEN Err
            ELSE LET value(f) == IF f \in DOMAIN v.row THEN v.row[f] ELSE Null
                 IN GroupOf([f \in DOMAIN type.fields |->
                        IF f \notin DOMAIN v.row /\ ~type.fields[f].nullable THEN Err
                        ELSE Repair(value(f), type.fields[f].type)])
      [] type.k = "Map" ->
            IF v.t # "Map" THEN Err
            ELSE LET keys == [i \in DOMAIN v.pairs |-> Repair(v.pairs[i][1], type.key)]
                     vals == [i \in DOMAIN v.pairs |-> Repair(v.pairs[i][2], type.value)]
                 IN IF AnyErr(keys) \/ AnyErr(vals) THEN Err
                    ELSE Map([i \in DOMAIN v.pairs |-> <<keys[i], vals[i]>>])

\* PyroRow::project_repair: the row the schema asks for.  A missing column must
\* be nullable; a null that is there is taken in any column.
ProjectRepair(row, fields) == Repair(Group(row), GroupType(fields))

-----------------------------------------------------------------------------
\* IntoPyroValue::try_coerce_to, for a bool, a number, a text, an option, a slice
CoerceBool(v, type) ==
    CASE type.k = "Prim" ->
            IF type.p = "F16" THEN Err
            ELSE IF type.p = "Bool" THEN v
            ELSE Scalar(type.p, As("Bool", type.p, v.v))
      [] type.k = "Str" -> Str(TextOf(v))
      [] type.k = "Null" -> Null
      [] OTHER -> Err

CoerceNumber(v, type) ==
    CASE type.k = "Prim" ->
            IF type.p = "F16" THEN Err
            ELSE IF type.p = "Bool" THEN Scalar("Bool", IF v.v # 0 THEN 1 ELSE 0)
            ELSE Cast(v.p, type.p, v.v)
      [] type.k = "Str" -> Str(TextOf(v))
      [] type.k = "Null" -> Null
      [] OTHER -> Err

CoerceF16(v, type) ==
    IF type = Prim("F16") THEN v ELSE IF type.k = "Null" THEN Null ELSE Err

\* Mutant: only the words of Rust's own parser make a Bool.
CoerceStrStrictly(v, type) ==
    CASE type.k = "Str" -> v
      [] type.k = "Prim" ->
            IF type.p = "Bool" /\ v.s \notin {Word("true"), Word("false")} THEN Err
            ELSE Parse(v.s, type.p)
      [] type.k = "Null" -> Null
      [] OTHER -> Err

CoerceStr(v, type) ==
    CASE type.k = "Str" -> v
      [] type.k = "Prim" -> Parse(v.s, type.p)
      [] type.k = "Null" -> Null
      [] OTHER -> Err

CoerceSlice(v, type) ==
    IF type.k \notin {"PrimList", "FixedList"} THEN Err
    ELSE LET size == IF type.k = "FixedList" THEN {type.size} ELSE Nat
         IN IF type.p # v.p THEN RepairElements(v, type.p, size)
            ELSE IF Len(v.items) \in size THEN v ELSE Err

TryCoerce(v, type) ==
    CASE v.t = "Null" -> Null
      [] v.t = "Prim" -> IF v.p = "F16" THEN CoerceF16(v, type)
                         ELSE IF v.p = "Bool" THEN CoerceBool(v, type)
                         ELSE CoerceNumber(v, type)
      [] v.t = "Str" -> CoerceStr(v, type)
      [] v.t = "PrimList" -> CoerceSlice(v, type)

-----------------------------------------------------------------------------
\* coerce_pyro_types: the type that holds the values of both, or NoType
Wider(p, q) ==
    CASE p = q -> p
      [] p # q /\ {p, q} \subseteq Signed -> IF Bits[p] < Bits[q] THEN q ELSE p
      [] p # q /\ {p, q} \subseteq Unsigned -> IF Bits[p] < Bits[q] THEN q ELSE p
      [] p # q /\ {p, q} = {"F16", "F32"} -> "F32"
      [] p # q /\ "F64" \in {p, q} /\ "Bool" \notin {p, q} -> "F64"
      [] OTHER -> "None"

WiderPrims(p, q, type(_)) == IF Wider(p, q) = "None" THEN NoType ELSE type(Wider(p, q))

RECURSIVE CoerceTypes(_, _)
CoerceTypes(a, b) ==
    CASE a = b -> a
      [] a # b /\ NullType \in {a, b} -> IF a = NullType THEN b ELSE a
      [] a # b /\ a.k = "Prim" /\ b.k = "Prim" -> WiderPrims(a.p, b.p, Prim)
      [] a # b /\ {a.k, b.k} \subseteq {"PrimList", "FixedList"} ->
            IF a.k = b.k /\ a.k = "FixedList" /\ a.size = b.size
            THEN WiderPrims(a.p, b.p, LAMBDA p : FixedListType(p, a.size))
            ELSE WiderPrims(a.p, b.p, PrimListType)
      [] a # b /\ a.k = "List" /\ b.k = "List" ->
            LET of == CoerceTypes(a.of, b.of)
            IN IF of = NoType THEN NoType ELSE ListType(of, a.nullable \/ b.nullable)
      [] a # b /\ a.k = "Group" /\ b.k = "Group" ->
            LET both == DOMAIN a.fields \cap DOMAIN b.fields
                type(f) == IF f \in both
                           THEN CoerceTypes(a.fields[f].type, b.fields[f].type)
                           ELSE IF f \in DOMAIN a.fields THEN a.fields[f].type
                           ELSE b.fields[f].type
            IN IF \E f \in both : type(f) = NoType THEN NoType
               ELSE GroupType([f \in DOMAIN a.fields \cup DOMAIN b.fields |->
                        Field(type(f), TRUE)])
      [] a # b /\ a.k = "Map" /\ b.k = "Map" ->
            IF NoType \in {CoerceTypes(a.key, b.key), CoerceTypes(a.value, b.value)}
            THEN NoType
            ELSE MapType(CoerceTypes(a.key, b.key), CoerceTypes(a.value, b.value))
      [] OTHER -> NoType

\* The type of the values met so far: one that does not fit is passed over.
OrElse(type, other) == IF type = NoType THEN other ELSE type
Merge(a, b) == OrElse(CoerceTypes(a, b), a)

RECURSIVE DataType(_)
DataType(v) ==
    CASE v.t = "Null" -> NullType
      [] v.t = "Prim" -> Prim(v.p)
      [] v.t = "Str" -> StrType
      [] v.t = "Time" -> TimeType
      [] v.t = "PrimList" -> PrimListType(v.p)
      [] v.t = "List" ->
            LET merged[n \in 0..Len(v.items)] ==
                    IF n = 0 THEN NullType ELSE Merge(merged[n - 1], DataType(v.items[n]))
            IN ListType(merged[Len(v.items)], \E i \in DOMAIN v.items : v.items[i] = Null)
      [] v.t = "Group" ->
            GroupType([f \in DOMAIN v.row |-> Field(DataType(v.row[f]), TRUE)])
      [] v.t = "Map" ->
            LET merged[j \in 1..2, n \in 0..Len(v.pairs)] ==
                    IF n = 0 THEN NullType ELSE Merge(merged[j, n - 1], DataType(v.pairs[n][j]))
                key == merged[1, Len(v.pairs)]
            IN MapType(IF key = NullType THEN StrType ELSE key, merged[2, Len(v.pairs)])

\* PyroFieldAccumulator: the type of the values of a column, NoType where two of
\* them do not go together.
Observed(values) ==
    LET type[n \in 0..Len(values)] ==
            IF n = 0 THEN NullType
            ELSE IF type[n - 1] = NoType THEN NoType
            ELSE CoerceTypes(type[n - 1], DataType(values[n]))
    IN type[Len(values)]

Column(rows, f) ==
    [i \in DOMAIN rows |-> IF f \in DOMAIN rows[i] THEN rows[i][f] ELSE Null]

FieldsOf(types, rows) ==
    IF \E f \in DOMAIN types : types[f] = NoType THEN NoType
    ELSE [f \in DOMAIN types |->
            Field(types[f], \E i \in DOMAIN rows : Column(rows, f)[i] = Null)]

SchemaOf(names, rows) == FieldsOf([f \in names |-> Observed(Column(rows, f))], rows)

\* PyroRow::infer_schema: the fields of rows
\* Mutant: only the columns of the first row, as PyroRow::schema finds them.
InferFirstSchema(rows) == SchemaOf(DOMAIN rows[1], rows)

InferSchema(rows) == SchemaOf(UNION {DOMAIN rows[i] : i \in DOMAIN rows}, rows)

=============================================================================
