------------------------------- MODULE Ingest -------------------------------
(***************************************************************************)
(* The ingest stage (src/pipeline/ingest.rs): takes pending transactions   *)
(* by priority, signs and validates each, broadcasts it to the peers and   *)
(* marks it in flight, or failed.                                          *)
(*                                                                         *)
(* The unit is a copy of rows made by schedule.  execute works through it  *)
(* one transaction at a time and awaits several calls for each, between    *)
(* which the monitor runs.  An error mapped to Retry makes the runtime run *)
(* execute again, from the first transaction of the same copy.             *)
(***************************************************************************)
EXTENDS U5C, Gasket, Priority

CONSTANTS
    Cap,                \* CAP, the capacity of the broadcast channel
    SigningQueues,      \* the configured queues with server_signing
    HasSigner,          \* a signing adapter is configured
    BadTx               \* transactions that no chain state makes valid

ASSUME IngestAssumption ==
    /\ Cap \in Nat \ {0}
    /\ SigningQueues \subseteq Configured
    /\ HasSigner \in BOOLEAN
    /\ BadTx \subseteq Tx

VARIABLES
    ipc,                \* control point of the stage
    counts,             \* the pending rows of each queue, as schedule counted
    unit,               \* the unit: copies of rows, in order
    pos,                \* the transaction of the unit that execute is at
    tip,                \* the slot returned by fetch_tip
    sent                \* history: the transactions broadcast so far

ingestVars == <<ipc, counts, unit, pos, tip>>

Copy == [id : Tx, slot : Slot]

NoCounts == [q \in {} |-> 0]

IngestReset ==
    /\ ipc' = "schedule" /\ counts' = NoCounts
    /\ unit' = <<>> /\ pos' = 1 /\ tip' = NoSlot

IngestInit ==
    /\ ipc = "schedule" /\ counts = NoCounts
    /\ unit = <<>> /\ pos = 1 /\ tip = NoSlot
    /\ sent = {}

CurrentId == unit[pos].id

(* Slip: the loop runs one round too many. *)
NextTx_OneMore ==
    IF pos <= Len(unit)
    THEN ipc' = "check" /\ pos' = pos + 1 /\ tip' = NoSlot /\ UNCHANGED <<counts, unit>>
    ELSE IngestReset

(* The end of one round of the loop in execute. *)
NextTx ==
    IF pos < Len(unit)
    THEN ipc' = "check" /\ pos' = pos + 1 /\ tip' = NoSlot /\ UNCHANGED <<counts, unit>>
    ELSE IngestReset

(* WorkerError::Retry *)
RunAgain == ipc' = "check" /\ pos' = 1 /\ tip' = NoSlot /\ UNCHANGED <<counts, unit>>

-----------------------------------------------------------------------------
(* schedule: Priority::next first counts the pending rows of each queue.   *)
(* Without capacity in the channel, and without a pending row, the stage   *)
(* is idle: nothing changes.                                               *)
CountPending ==
    /\ ipc = "schedule"
    /\ DOMAIN State("pending") # {}
    /\ counts' = State("pending")
    /\ ipc' = "next"
    /\ UNCHANGED <<unit, pos, tip, sent, table>> /\ NoFault

(* Then it reads the rows, in a query of its own: rows may have become     *)
(* pending in between.  CAP minus the messages queued in the channel,      *)
(* which depends on the peers, is any capacity from 1 to CAP.  Limits that *)
(* are all zero select no row: the stage is idle.                          *)
NextUnit ==
    /\ ipc = "next"
    /\ \E cap \in 1..Cap :
         \E limit \in QueueLimits(counts, cap) :
           \E ids \in NextTxs("pending", limit) :
             /\ unit' = [i \in 1..Len(ids) |->
                            [id |-> ids[i], slot |-> table[ids[i]].slot]]
             /\ ipc' = IF ids # <<>> THEN "check" ELSE "schedule"
    /\ counts' = NoCounts /\ pos' = 1
    /\ UNCHANGED <<tip, sent, table>> /\ NoFault

(* The second query fails: schedule is called again.  (When the first one  *)
(* fails, nothing has changed yet.)                                        *)
ScheduleDbError ==
    /\ ipc = "next"
    /\ Fault("dbIngest")
    /\ IngestReset
    /\ UNCHANGED <<sent, table>>

(* The guard of signing and of the queue lookup: ok_or(Retry). *)
Processable(t) ==
    /\ QueueOf[t] \in Configured
    /\ QueueOf[t] \in SigningQueues => HasSigner

(* validate_tx and evaluate_tx against the chain of this moment: a         *)
(* transaction that is on chain has spent its inputs.                      *)
Validates(t) == t \notin BadTx /\ t \notin OnChain

CheckRetry ==
    /\ ipc = "check"
    /\ ~ Processable(CurrentId)
    /\ RunAgain
    /\ UNCHANGED <<sent, table>> /\ NoFault

CheckTx ==
    /\ ipc = "check"
    /\ Processable(CurrentId)
    /\ ipc' = IF Validates(CurrentId) THEN "send" ELSE "fail"
    /\ UNCHANGED <<counts, unit, pos, tip, sent, table>> /\ NoFault

SignError ==
    /\ ipc = "check"
    /\ Processable(CurrentId)
    /\ QueueOf[CurrentId] \in SigningQueues
    /\ Fault("signer")
    /\ RunAgain
    /\ UNCHANGED <<sent, table>>

(* Any error inside validate_tx or evaluate_tx counts as a failed check. *)
CheckU5cError ==
    /\ ipc = "check"
    /\ Processable(CurrentId)
    /\ Fault("u5cCheck")
    /\ ipc' = "fail"
    /\ UNCHANGED <<counts, unit, pos, tip, sent, table>>

(* Slip: the failed transaction is passed over, not marked. *)
FailTx_Skip ==
    /\ ipc = "fail"
    /\ NextTx
    /\ UNCHANGED <<sent, table>> /\ NoFault

FailTx ==
    /\ ipc = "fail"
    /\ Update(CurrentId, "failed", unit[pos].slot)
    /\ NextTx
    /\ UNCHANGED sent /\ NoFault

(* output.send *)
SendTx ==
    /\ ipc = "send"
    /\ sent' = sent \cup {CurrentId}
    /\ ipc' = "tip"
    /\ UNCHANGED <<counts, unit, pos, tip, table>> /\ NoFault

(* Slip: an error of the channel is not told from success. *)
SendNoPeer_Ignored ==
    /\ ipc = "send"
    /\ Fault("nopeer")
    /\ ipc' = "tip"
    /\ UNCHANGED <<counts, unit, pos, tip, sent, table>>

(* No receiver: the error is logged and the transaction stays pending. *)
SendNoPeer ==
    /\ ipc = "send"
    /\ Fault("nopeer")
    /\ NextTx
    /\ UNCHANGED <<sent, table>>

FetchTip ==
    /\ ipc = "tip"
    /\ tip' = Tip.slot
    /\ ipc' = "mark"
    /\ UNCHANGED <<counts, unit, pos, sent, table>> /\ NoFault

FetchTipError ==
    /\ ipc = "tip"
    /\ Fault("u5cTip")
    /\ RunAgain
    /\ UNCHANGED <<sent, table>>

(* Slip: the slot is not recorded. *)
MarkInFlight_NoSlot ==
    /\ ipc = "mark"
    /\ Update(CurrentId, "inflight", unit[pos].slot)
    /\ NextTx
    /\ UNCHANGED sent /\ NoFault

MarkInFlight ==
    /\ ipc = "mark"
    /\ Update(CurrentId, "inflight", tip)
    /\ NextTx
    /\ UNCHANGED sent /\ NoFault

IngestDbError ==
    /\ ipc \in {"fail", "mark"}
    /\ Fault("dbIngest")
    /\ RunAgain
    /\ UNCHANGED <<sent, table>>

IngestStep ==
    \/ CountPending \/ NextUnit \/ CheckRetry \/ CheckTx
    \/ FailTx \/ SendTx \/ FetchTip \/ MarkInFlight

IngestFault ==
    \/ ScheduleDbError \/ SignError \/ CheckU5cError \/ SendNoPeer
    \/ FetchTipError \/ IngestDbError

(* The position of execute stays inside its unit. *)
IngestTypeOK ==
    /\ ipc \in {"schedule", "next", "check", "fail", "send", "tip", "mark"}
    /\ DOMAIN counts \subseteq Queue /\ \A q \in DOMAIN counts : counts[q] \in Nat
    /\ unit \in Seq(Copy) /\ tip \in Slot
    /\ pos \in Nat \ {0} /\ (ipc \in {"schedule", "next"} <=> pos > Len(unit))
    /\ sent \subseteq Tx

=============================================================================
