------------------------- MODULE MCPlaybooksManager -------------------------
EXTENDS PlaybooksManager

CONSTANTS caller, target

\* One playbook calls the other.
MCNeeds == [n \in Names |-> IF n = caller THEN target ELSE None]

\* Clients are interchangeable: each only carries requests.
ClientSymmetry == Permutations(Clients)
=============================================================================
