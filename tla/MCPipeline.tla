----------------------------- MODULE MCPipeline -----------------------------
(* Values of the constants of Pipeline for TLC. *)
EXTENDS Pipeline, TLC

CONSTANTS t1, t2, qa, qb

OneTx == t1 :> qa
TwoQueues == t1 :> qa @@ t2 :> qb
OneWeight == qa :> 1
TwoWeights == qa :> 3 @@ qb :> 1

=============================================================================
