------------------------------- MODULE Gasket -------------------------------
(***************************************************************************)
(* The stage runtime (crate gasket, external) as src/pipeline uses it.     *)
(*                                                                         *)
(* A stage alternates schedule and execute.  WorkerError::Retry makes the  *)
(* runtime call the same function again with the same unit; Restart runs   *)
(* bootstrap again; a panic, or a stage that ends, ends the process        *)
(* (Daemon::block returns), and a supervisor starts it again.              *)
(*                                                                         *)
(* What the outside may do to the process is a set of kinds of faults,     *)
(* each fault costing one unit of a budget:                                *)
(*   crash        the process is killed at any point                       *)
(*   dbMonitor    a database call of the monitor returns an error          *)
(*   dbIngest     a database call of ingest returns an error               *)
(*   u5cCheck     the UTxO RPC service fails while a transaction is checked *)
(*   u5cTip       the UTxO RPC service fails when the tip is read          *)
(*   stream       the follow_tip stream yields an error                    *)
(*   eof          the follow_tip stream ends                               *)
(*   signer       the signing service returns an error                     *)
(*   nopeer       the broadcast channel has no receiver                    *)
(***************************************************************************)
EXTENDS Integers

CONSTANTS
    Faults,         \* the kinds of faults of this instance
    MaxFaults       \* how many of them may happen

ASSUME GasketAssumption ==
    /\ Faults \subseteq {"crash", "dbMonitor", "dbIngest", "u5cCheck", "u5cTip",
                      "stream", "eof", "signer", "nopeer"}
    /\ MaxFaults \in Nat

VARIABLES
    up,             \* the process runs
    faults          \* number of faults so far

GasketInit == up = FALSE /\ faults = 0

Fault(k) == k \in Faults /\ faults < MaxFaults /\ faults' = faults + 1
NoFault == UNCHANGED faults

(* A panic of a stage, or a stage that ends: the process goes down. *)
Panic == up' = FALSE

GasketTypeOK == up \in BOOLEAN /\ faults \in Nat

=============================================================================
