---------------------------- MODULE RemoteCalls ----------------------------
(***************************************************************************)
(* What the users of a shared connection are promised: every call is a     *)
(* reliable, ordered channel of its own from the service to the caller,    *)
(* whatever the other calls on the connection do.  PyroSocket implements   *)
(* it with one queue per direction and an id in every frame.               *)
(***************************************************************************)
EXTENDS Naturals, Sequences

CONSTANTS
    Calls,      \* calls made on the connection
    Items       \* what the service can issue for a call

VARIABLES
    stage,      \* stage[c]: "unasked", "open" or "closed", seen by the caller
    issued,     \* issued[c]: what the service has issued for c, in order
    got         \* got[c]: what the caller of c has received, in order

callVars == <<stage, issued, got>>

Stages == {"unasked", "open", "closed"}

TypeOK ==
    /\ stage \in [Calls -> Stages]
    /\ issued \in [Calls -> Seq(Items)]
    /\ got \in [Calls -> Seq(Items)]

Init ==
    /\ stage = [c \in Calls |-> "unasked"]
    /\ issued = [c \in Calls |-> <<>>]
    /\ got = [c \in Calls |-> <<>>]

Ask(c) ==
    /\ stage[c] = "unasked"
    /\ stage' = [stage EXCEPT ![c] = "open"]
    /\ UNCHANGED <<issued, got>>

\* The service does not know whether the caller still waits.
Issue(c) ==
    /\ stage[c] # "unasked"
    /\ \E i \in Items : issued' = [issued EXCEPT ![c] = Append(@, i)]
    /\ UNCHANGED <<stage, got>>

\* The next item, no other; a call with a single answer is closed by it.
Deliver(c) ==
    /\ stage[c] = "open"
    /\ Len(got[c]) < Len(issued[c])
    /\ got' = [got EXCEPT ![c] = Append(@, issued[c][Len(@) + 1])]
    /\ \E s \in {"open", "closed"} : stage' = [stage EXCEPT ![c] = s]
    /\ UNCHANGED issued

\* The caller gives up, or is told that the connection is gone.
Close(c) ==
    /\ stage[c] = "open"
    /\ stage' = [stage EXCEPT ![c] = "closed"]
    /\ UNCHANGED <<issued, got>>

Next == \E c \in Calls : Ask(c) \/ Issue(c) \/ Deliver(c) \/ Close(c)

Spec == Init /\ [][Next]_callVars
=============================================================================
