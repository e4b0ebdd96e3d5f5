----------------------------- MODULE MCNetwork -----------------------------
(* Addresses and windows for the instances of Network. *)
EXTENDS Network, TLC

CONSTANTS a1, a2, a3

Windows == [a \in Addr |-> IF a = a1 THEN 2 ELSE 1]

=============================================================================
