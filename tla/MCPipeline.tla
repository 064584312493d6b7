----------------------------- MODULE MCPipeline -----------------------------
(* Pipeline on small instances: two shards, short queues, few events. *)
EXTENDS Pipeline
=============================================================================
