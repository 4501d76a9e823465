------------------------------ MODULE MCReplay ------------------------------
(* Two or three requests for one playbook; the handle is shared by all.     *)
EXTENDS Replay, TLC

Interchangeable == Permutations(Requests)
=============================================================================
