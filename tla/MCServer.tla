------------------------------ MODULE MCServer ------------------------------
(* Values of the constants of Server for TLC. *)
EXTENDS Server, TLC

CONSTANTS t1, t2, t3, qa, qd

BothChained == t1 :> qa @@ t2 :> qa
ChainedAndDefault == t1 :> qa @@ t2 :> qa @@ t3 :> qd

=============================================================================
