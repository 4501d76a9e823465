---------------------------- MODULE MCModuleHost ----------------------------
\* ModuleHost with two sessions, which are interchangeable: no action and no
\* property names one of them.
EXTENDS ModuleHost, TLC

Symmetry == Permutations(Sessions)
=============================================================================
