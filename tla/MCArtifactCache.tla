--------------------------- MODULE MCArtifactCache ---------------------------
(* Two anonymous sources, one with a dependency and the capability, and two *)
(* that a named author ships under one version.  No two share their code.   *)
EXTENDS ArtifactCache, TLC

Plain == [author |-> "anon", code |-> "a", deps |-> {}, caps |-> FALSE]
Rich == [author |-> "anon", code |-> "b", deps |-> {"serde"}, caps |-> TRUE]
Old == [author |-> "team", code |-> "c", deps |-> {}, caps |-> FALSE]
New == [author |-> "team", code |-> "d", deps |-> {}, caps |-> FALSE]
AllSources == {Plain, Rich, Old, New}
Interchangeable == Permutations(Builders) \cup Permutations(Slots)
=============================================================================
