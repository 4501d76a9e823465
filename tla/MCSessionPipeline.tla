------------------------- MODULE MCSessionPipeline -------------------------
EXTENDS SessionPipeline

\* Clients are interchangeable: each only stands for its own rows.
ClientSymmetry == Permutations(Clients)
=============================================================================
