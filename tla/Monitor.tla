------------------------------ MODULE Monitor ------------------------------
(***************************************************************************)
(* The monitor stage (src/pipeline/monitor.rs): follows the chain, marks   *)
(* in-flight transactions confirmed, sends unconfirmed ones back to        *)
(* pending, handles rollbacks, and stores the cursor.  Every database call *)
(* of execute is a step; the ingest stage runs between any two of them.    *)
(***************************************************************************)
EXTENDS U5C, Gasket

CONSTANTS
    RetrySlotDiff,      \* monitor.retry_slot_diff
    SlotModulus,        \* 2^64, the range of u64; smaller in the instances
    OverflowChecks      \* TRUE: debug build, FALSE: release build

ASSUME MonitorAssumption ==
    /\ RetrySlotDiff \in Nat
    /\ SlotModulus \in Nat /\ SlotModulus > MaxSlot
    /\ OverflowChecks \in BOOLEAN

VARIABLES
    mpc,                \* control point of the stage
    event,              \* the unit: the event that execute works on
    snap                \* the rows that execute has fetched

monitorVars == <<mpc, event, snap>>

Events == [kind : {"none", "forward", "rollback"}, block : Block]
NoEvent == [kind |-> "none", block |-> Genesis]
NoRows == [t \in {} |-> NoSlot]

(* bootstrap, at process start and after a Restart error *)
MonitorReset == mpc' = "schedule" /\ event' = NoEvent /\ snap' = NoRows

MonitorInit == mpc = "schedule" /\ event = NoEvent /\ snap = NoRows

(* u64 subtraction: wraps in a release build *)
SlotDiff(a, b) == (a - b) % SlotModulus

-----------------------------------------------------------------------------
(* schedule *)

ScheduleForward ==
    /\ mpc = "schedule"
    /\ StreamApply
    /\ event' = [kind |-> "forward", block |-> chain[Len(view) + 1]]
    /\ mpc' = "find"
    /\ UNCHANGED <<snap, boot, table, cursor, up>> /\ NoFault

ScheduleRollback ==
    /\ mpc = "schedule"
    /\ StreamUndo
    /\ event' = [kind |-> "rollback", block |-> view[Len(view)]]
    /\ mpc' = "find"
    /\ UNCHANGED <<snap, boot, table, cursor, up>> /\ NoFault

(* try_next fails: or_restart runs bootstrap, which opens a new stream at  *)
(* the cursor that the adapter read when the process started, and which    *)
(* panics when that fails.                                                 *)
StreamRestart ==
    /\ mpc = "schedule"
    /\ Fault("stream")
    /\ IF Intersects(boot) THEN OpenStream(boot) /\ UNCHANGED up
                           ELSE Panic /\ UNCHANGED view
    /\ MonitorReset
    /\ UNCHANGED <<boot, table, cursor>>

(* The stream ends: try_next returns None from now on, the stage is idle. *)
StreamEnd ==
    /\ mpc = "schedule"
    /\ Fault("eof")
    /\ mpc' = "idle"
    /\ UNCHANGED <<event, snap, view, boot, table, cursor, up>>

-----------------------------------------------------------------------------
(* execute *)

(* Slip: pending rows are fetched with the in-flight ones. *)
FindRows_Pending ==
    /\ mpc = "find"
    /\ snap' = Rows(IF event.kind = "forward"
                    THEN Find("inflight") \cup Find("pending")
                    ELSE FindToRollback(event.block.slot))
    /\ mpc' = IF event.kind = "forward" THEN "confirm" ELSE "rollback"
    /\ UNCHANGED <<event, view, boot, table, cursor, up>> /\ NoFault

(* Slip: the cursor is stored before the event's updates. *)
FindRows_CursorFirst ==
    /\ mpc = "find"
    /\ snap' = Rows(IF event.kind = "forward"
                    THEN Find("inflight")
                    ELSE FindToRollback(event.block.slot))
    /\ mpc' = IF event.kind = "forward" THEN "confirm" ELSE "rollback"
    /\ SetCursor(PointOf(event.block))
    /\ UNCHANGED <<event, view, boot, table, up>> /\ NoFault

(* find(InFlight), or find_to_rollback(slot) *)
FindRows ==
    /\ mpc = "find"
    /\ snap' = Rows(IF event.kind = "forward"
                    THEN Find("inflight")
                    ELSE FindToRollback(event.block.slot))
    /\ mpc' = IF event.kind = "forward" THEN "confirm" ELSE "rollback"
    /\ UNCHANGED <<event, view, boot, table, cursor, up>> /\ NoFault

TxsConfirm == {t \in DOMAIN snap : t \in event.block.txs}

(* Slip: the confirmed row keeps the slot at which it was sent. *)
ConfirmTxs_SentSlot ==
    /\ mpc = "confirm"
    /\ UpdateBatch([t \in TxsConfirm |-> [status |-> "confirmed", slot |-> snap[t].slot]])
    /\ mpc' = "retry"
    /\ UNCHANGED <<event, snap, view, boot, cursor, up>> /\ NoFault

ConfirmTxs ==
    /\ mpc = "confirm"
    /\ UpdateBatch([t \in TxsConfirm |->
                      [status |-> "confirmed", slot |-> event.block.slot]])
    /\ mpc' = "retry"
    /\ UNCHANGED <<event, snap, view, boot, cursor, up>> /\ NoFault

(* The filter of txs_retry subtracts the recorded slot of every row of the *)
(* snapshot: unwrap panics on None, the subtraction on underflow if the    *)
(* build checks it.                                                        *)
FilterPanics ==
    \E t \in DOMAIN snap :
        \/ snap[t].slot = NoSlot
        \/ OverflowChecks /\ event.block.slot < snap[t].slot

(* Slip: rows confirmed by this very block are retried as well. *)
TxsRetry_Confirmed ==
    {t \in DOMAIN snap : SlotDiff(event.block.slot, snap[t].slot) > RetrySlotDiff}

(* Slip: one slot late. *)
TxsRetry_Late ==
    {t \in DOMAIN snap \ TxsConfirm :
        SlotDiff(event.block.slot, snap[t].slot) > RetrySlotDiff + 1}

TxsRetry ==
    {t \in DOMAIN snap \ TxsConfirm :
        SlotDiff(event.block.slot, snap[t].slot) > RetrySlotDiff}

(* Slip: the slot of the failed attempt stays in the row. *)
RetryTxs_KeepSlot ==
    /\ mpc = "retry"
    /\ ~ FilterPanics
    /\ UpdateBatch([t \in TxsRetry |-> [status |-> "pending", slot |-> snap[t].slot]])
    /\ mpc' = "cursor" /\ snap' = NoRows
    /\ UNCHANGED <<event, view, boot, cursor, up>> /\ NoFault

RetryTxs ==
    /\ mpc = "retry"
    /\ ~ FilterPanics
    /\ UpdateBatch([t \in TxsRetry |-> [status |-> "pending", slot |-> NoSlot]])
    /\ mpc' = "cursor" /\ snap' = NoRows
    /\ UNCHANGED <<event, view, boot, cursor, up>> /\ NoFault

RetryPanic ==
    /\ mpc = "retry"
    /\ FilterPanics
    /\ Panic
    /\ MonitorReset
    /\ UNCHANGED <<view, boot, table, cursor>> /\ NoFault

(* Every row of find_to_rollback lies above the slot, so the second branch *)
(* of the map (tx.slot = Some(slot)) is never taken.                       *)
RollbackTxs ==
    /\ mpc = "rollback"
    /\ UpdateBatch([t \in DOMAIN snap |->
          IF snap[t].slot > event.block.slot
          THEN [status |-> "inflight", slot |-> NoSlot]
          ELSE [status |-> snap[t].status, slot |-> event.block.slot]])
    /\ mpc' = "cursor" /\ snap' = NoRows
    /\ UNCHANGED <<event, view, boot, cursor, up>> /\ NoFault

StoreCursor ==
    /\ mpc = "cursor"
    /\ SetCursor(PointOf(event.block))
    /\ MonitorReset
    /\ UNCHANGED <<view, boot, table, up>> /\ NoFault

(* A database call fails: or_retry, execute runs again with the same       *)
(* event.  An empty confirm or retry batch makes no call.                  *)
MonitorDbError ==
    /\ mpc \in {"find", "confirm", "retry", "rollback", "cursor"}
    /\ mpc = "confirm" => TxsConfirm # {}
    /\ mpc = "retry" => ~ FilterPanics /\ TxsRetry # {}
    /\ Fault("dbMonitor")
    /\ mpc' = "find"
    /\ snap' = NoRows
    /\ UNCHANGED <<event, view, boot, table, cursor, up>>

MonitorStep ==
    \/ ScheduleForward \/ ScheduleRollback
    \/ FindRows \/ ConfirmTxs \/ RetryTxs \/ RollbackTxs \/ StoreCursor
    \/ RetryPanic

MonitorFault == StreamRestart \/ StreamEnd \/ MonitorDbError

MonitorTypeOK ==
    /\ mpc \in {"schedule", "idle", "find", "confirm", "retry", "rollback", "cursor"}
    /\ event \in Events
    /\ DOMAIN snap \subseteq Tx /\ \A t \in DOMAIN snap : snap[t] \in Row

=============================================================================
