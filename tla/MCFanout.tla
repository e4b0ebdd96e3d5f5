------------------------------ MODULE MCFanout ------------------------------
(* Values of the constants of Fanout for TLC. *)
EXTENDS Fanout, TLC

CONSTANTS qa, qb, qc

(* The weights of the documentation's example; qc is not configured. *)
ThreeAndTwo == qa :> 3 @@ qb :> 2

=============================================================================
