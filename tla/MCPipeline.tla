----------------------------- MODULE MCPipeline -----------------------------
(* Pipeline for TLC: the bounds are in the configuration.                    *)
EXTENDS Pipeline

MCLogicalTimes == {1, 2}
=============================================================================
