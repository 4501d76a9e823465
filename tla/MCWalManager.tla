--------------------------- MODULE MCWalManager ---------------------------
(* The instance of WalManager that TLC checks; its constants are given in WalManager.cfg. *)
EXTENDS WalManager
=============================================================================
