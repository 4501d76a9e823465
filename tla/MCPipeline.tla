----------------------------- MODULE MCPipeline -----------------------------
(* Two or three calls on two shards; one stream with room for one row.       *)
EXTENDS Pipeline, TLC
=============================================================================
