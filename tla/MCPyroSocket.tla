---------------------------- MODULE MCPyroSocket ----------------------------
(* Instances of PyroSocket for TLC: workloads of two calls, one of each     *)
(* pair that differs only by the order of the calls.                        *)
EXTENDS PyroSocket
CONSTANTS c1, c2
With(k, l) == [c \in Calls |-> IF c = c1 THEN k ELSE l]
TwoCalls ==
    {With("stream", k) : k \in {"unary", "huge"}} \cup
    {With("unary", k) : k \in Kinds \ {"stream"}}
Streams == {With("stream", "unary")}
=============================================================================
