----------------------------- MODULE MCPipeline -----------------------------
(* The pipeline for every chain of up to three middlewares.                 *)
EXTENDS Pipeline

AnyChain == UNION {[1..n -> Kinds] : n \in 0..3}
=============================================================================
