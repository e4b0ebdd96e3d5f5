---------------------------- MODULE TxLifecycle ----------------------------
(***************************************************************************)
(* What the pipeline promises about the life of a transaction, whoever     *)
(* carries out the steps: the statuses of src/storage/mod.rs and the only  *)
(* moves between them.  A move may take several transactions at once, as   *)
(* the batch updates do, but never in two directions.                      *)
(***************************************************************************)
CONSTANT Tx

VARIABLES
    status,     \* the status of each transaction
    sent        \* the transactions that were broadcast at least once

Move(S, from, to) ==
    /\ S \subseteq {t \in Tx : status[t] = from}
    /\ status' = [t \in Tx |-> IF t \in S THEN to ELSE status[t]]
    /\ UNCHANGED sent

Init == status = [t \in Tx |-> "absent"] /\ sent = {}

Submit(S) == Move(S, "absent", "pending")
Reject(S) == Move(S, "pending", "failed")
Accept(S) == S \subseteq sent /\ Move(S, "pending", "inflight")
Confirm(S) == Move(S, "inflight", "confirmed")
Expire(S) == Move(S, "inflight", "pending")
Rollback(S) == Move(S, "confirmed", "inflight")

(* Only a pending transaction is handed to the peers. *)
Broadcast(t) == status[t] = "pending" /\ sent' = sent \cup {t} /\ UNCHANGED status

Next ==
    \/ \E S \in SUBSET Tx :
         Submit(S) \/ Reject(S) \/ Accept(S) \/ Confirm(S) \/ Expire(S) \/ Rollback(S)
    \/ \E t \in Tx : Broadcast(t)

Spec == Init /\ [][Next]_<<status, sent>>

=============================================================================
