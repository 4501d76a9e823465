---------------------------- MODULE MCRowBuffer ----------------------------
(* One column "x" of every kind of type, nullable or not, and values of     *)
(* every kind, at and beyond the limits of the scaled integer types.        *)
EXTENDS RowBuffer

MCBits == [p \in Ints |-> CASE p \in {"I8", "U8"} -> 2 [] p \in {"I16", "U16"} -> 3
                            [] p \in {"I32", "U32"} -> 4 [] OTHER -> 5]

ab(a, b) == [a |-> a, b |-> b]
Pair(na, nb) == GroupType(ab(Field(Prim("I32"), na), Field(PrimListType("I8"), nb)))

Types ==
    {Prim(p) : p \in {"Bool", "I8", "I32", "I64", "U8", "F32", "F64", "F16"}}
    \cup {PrimListType(p) : p \in {"Bool", "I8", "I32", "F64"}}
    \cup {FixedListType("I32", 2), ListType(Prim("I32"), TRUE), ListType(Prim("I32"), FALSE),
          ListType(StrType, TRUE), ListType(StrType, FALSE), StrType, TimeType,
          Pair(TRUE, TRUE), Pair(FALSE, TRUE), MapType(StrType, Prim("I64"))}

MCSchemas ==
    {[x |-> Field(type, TRUE)] : type \in Types}
    \cup {[x |-> Field(type, FALSE)] : type \in {Prim("I32"), Pair(TRUE, TRUE)}}

\* Rust types whose specs are among the schemas, and one the spec has no name for.
MCParams ==
    {Num(p) : p \in {"Bool", "I8", "I32", "I64", "U8", "F32", "F64"}}
    \cup {Vec(Num(p)) : p \in {"Bool", "I8", "I32", "F64"}}
    \cup {Vec(Text), Text, DateTime, HashMap(Text, Num("I64")), Vec(Option(Num("I32"))), Size,
          Struct(ab(Option(Num("I32")), Option(Vec(Num("I8"))))),
          Struct(ab(Num("I32"), Option(Vec(Num("I8")))))}

MCTypes == MCParams \cup {Option(T) : T \in MCParams}

Values ==
    {Null, Scalar("Bool", 1), Scalar("I8", 1), Scalar("I32", 7), Scalar("I64", -16),
     Scalar("U64", 31), Scalar("F16", 2), Scalar("F32", 3),
     Scalar("F64", -41), Str(Word("yes")), Str(Numeral(2)),
     Str(Date(4)), Time(9), Time(20),
     PrimList("I32", <<7, -8>>), PrimList("I64", <<15>>),
     PrimList("F64", <<5>>), PrimList("Bool", <<1, 0>>), PrimList("I8", <<>>),
     List(<<Scalar("I32", 1), Null>>), List(<<Scalar("I8", 1), Scalar("I64", 7)>>),
     List(<<Str(Word("yes"))>>), List(<<>>),
     Group([a |-> Scalar("I64", 5)]), Group([a |-> Null, b |-> PrimList("I8", <<1>>)]),
     Group(ab(Str(Numeral(4)), List(<<Scalar("U8", 1), Null>>))),
     Map(<<<<Str(Word("yes")), Scalar("I32", 1)>>>>)}

\* A column of timestamps: few of the values are taken.
MCCutSchemas == {[x |-> Field(TimeType, TRUE)]}

\* Archives of three lengths: a frame with padding, one without, and one longer
\* than the frames that may follow it.
MCArchiveSize(row) ==
    IF "x" \notin DOMAIN row THEN 16
    ELSE IF row["x"].t = "Time" THEN 64 ELSE 8

MCRows == {[x |-> v] : v \in Values} \cup {[y |-> Scalar("I32", 1)]}
=============================================================================
