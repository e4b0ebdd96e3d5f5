------------------------------ MODULE Pipeline ------------------------------
(***************************************************************************)
(* The boros process: the database, the ingest and the monitor stage, the  *)
(* chain they talk to, submissions that arrive through the gRPC server,    *)
(* and crashes.  (src/main.rs, src/pipeline/mod.rs)                        *)
(***************************************************************************)
EXTENDS Monitor, Ingest

CONSTANT MaxBatch       \* bound on the transactions of one request

ASSUME PipelineAssumption == MaxBatch \in Nat

VARIABLES
    delivered,          \* history: the blocks that were rolled forward to
    applied,            \* history: the blocks whose cursor was stored, and
                        \* those on the chain when the first stream started
    skipped             \* history: the blocks not applied when a later stream
                        \* started at the tip, for want of a cursor

historyVars == <<delivered, applied, skipped>>

storageVars == <<table, cursor>>
chainVars == <<chain, forks>>
adapterVars == <<view, boot>>
vars == <<table, cursor, chain, forks, view, boot, up, faults,
          mpc, event, snap, ipc, counts, unit, pos, tip, sent,
          delivered, applied, skipped>>

Init ==
    /\ StorageInit /\ ChainInit /\ GasketInit /\ MonitorInit /\ IngestInit
    /\ view = <<>> /\ boot = NoCursor
    /\ delivered = {} /\ applied = {} /\ skipped = {}

Blocks == {chain[i] : i \in DOMAIN chain}
FirstStart == applied = {}

(* main: the adapter keeps the cursor of this moment for its lifetime, the *)
(* stages bootstrap; opening the stream panics without an intersection, so *)
(* such a start does not get anywhere.                                     *)
Start ==
    /\ ~ up
    /\ Intersects(CurrentCursor)
    /\ up' = TRUE
    /\ boot' = CurrentCursor
    /\ OpenStream(CurrentCursor)
    /\ applied' = IF FirstStart THEN Blocks ELSE applied
    /\ skipped' = IF CurrentCursor = NoCursor /\ ~ FirstStart
                  THEN skipped \cup (Blocks \ applied) ELSE skipped
    /\ UNCHANGED <<storageVars, chainVars, faults, monitorVars, ingestVars,
                   sent, delivered>>

(* The process is killed: its memory is gone, the database stays. *)
Crash ==
    /\ up
    /\ Fault("crash")
    /\ up' = FALSE
    /\ MonitorReset /\ IngestReset
    /\ UNCHANGED <<storageVars, chainVars, adapterVars, sent, historyVars>>

(* The server stores the transactions of one request.  They were stamped   *)
(* in their order, but another request may have been stamped later and     *)
(* stored before.  Only the order of the stamps matters.                   *)
Stamp == 1..Cardinality(Tx)
Fresh(at) ==
    /\ \A i, j \in DOMAIN at : i < j => at[i] < at[j]
    /\ \A i \in DOMAIN at, t \in Existing : at[i] # table[t].created

Submit ==
    /\ up
    /\ \E n \in 1..MaxBatch : \E ts \in [1..n -> Tx], at \in [1..n -> Stamp] :
          Fresh(at) /\ Create(ts, at)
    /\ UNCHANGED <<cursor, chainVars, adapterVars, up, faults, monitorVars,
                   ingestVars, sent, historyVars>>

(* schedule fails and the stream is opened again. *)
Reopens == mpc = "schedule" /\ mpc' = "schedule"

(* Steps of the monitor, which keep the history; a panic of the monitor     *)
(* takes the ingest stage down with it.                                    *)
MonitorActs(step) ==
    /\ up
    /\ step
    /\ IF up' THEN UNCHANGED ingestVars ELSE IngestReset
    /\ delivered' = IF mpc = "schedule" /\ event'.kind = "forward"
                    THEN delivered \cup {event'.block} ELSE delivered
    /\ applied' = IF mpc = "cursor" /\ mpc' = "schedule" /\ event.kind = "forward"
                  THEN applied \cup {event.block} ELSE applied
    /\ skipped' = IF Reopens /\ boot = NoCursor
                  THEN skipped \cup (Blocks \ applied) ELSE skipped
    /\ UNCHANGED <<chainVars, sent>>

IngestActs(step) ==
    /\ up
    /\ step
    /\ UNCHANGED <<cursor, chainVars, adapterVars, up, monitorVars, historyVars>>

(* The chain moves on whether the process runs or not. *)
ChainActs ==
    /\ \/ \E n \in 1..MaxSlot, ts \in SUBSET sent : Forge(n, ts)
       \/ \E n \in 1..MaxSlot : SwitchFork(n)
    /\ UNCHANGED <<storageVars, adapterVars, up, faults, monitorVars,
                   ingestVars, sent, historyVars>>

Next ==
    \/ Start \/ Crash \/ Submit
    \/ MonitorActs(MonitorStep) \/ MonitorActs(MonitorFault)
    \/ IngestActs(IngestStep) \/ IngestActs(IngestFault)
    \/ ChainActs

Spec == Init /\ [][Next]_vars

(* Each stage runs on a thread of its own and is polled for ever; a         *)
(* supervisor starts the process again.  The channel is not full for ever  *)
(* (see OnlyBrokenStalls of Network).  Nothing is assumed of clients,      *)
(* faults or the chain.                                                    *)
Fairness ==
    /\ WF_vars(Start)
    /\ WF_vars(MonitorActs(MonitorStep))
    /\ WF_vars(IngestActs(IngestStep))

LiveSpec == Spec /\ Fairness

-----------------------------------------------------------------------------
(* Type invariant of the whole: the parts are stated with the components. *)
TypeOK ==
    /\ StorageTypeOK /\ U5CTypeOK /\ GasketTypeOK /\ MonitorTypeOK /\ IngestTypeOK
    /\ delivered \subseteq Block /\ applied \subseteq Block /\ skipped \subseteq Block

(* A row is in flight or confirmed only if its transaction was handed to   *)
(* the broadcast channel: ingest sends before it marks, in every           *)
(* interleaving with the monitor, and across crashes and retries.          *)
SentBeforeInFlight ==
    \A t \in Tx : table[t].status \in {"inflight", "confirmed"} => t \in sent

(* The slot column tells what the status allows: a confirmed row carries   *)
(* the slot that find_to_rollback compares, and a row that is to be sent   *)
(* (again) carries none, whichever stage wrote it last.                    *)
SlotDiscipline ==
    \A t \in Tx :
        /\ table[t].status \in {"absent", "pending", "failed"} => table[t].slot = NoSlot
        /\ table[t].status = "confirmed" => table[t].slot # NoSlot

(* The monitor confirms a transaction with the slot of a block that the    *)
(* stream delivered and that holds the transaction, even when the batch    *)
(* is written long after the snapshot, or the block is replayed.           *)
ConfirmedInBlock ==
    \A t \in Tx : table[t].status = "confirmed" =>
        \E b \in delivered : t \in b.txs /\ table[t].slot = b.slot

(* Crash recovery: the stored cursor never runs ahead of the work.  Every  *)
(* block that the open stream counts as delivered was processed up to its  *)
(* cursor, in this or an earlier life of the process, except the one in    *)
(* execute, and except the blocks passed over when the stream was opened   *)
(* again without a cursor: by a start that follows a crash before the      *)
(* first cursor was stored, or by a stream error in a process that had     *)
(* started without one.                                                    *)
InExecute(b) == event = [kind |-> "forward", block |-> b]

SkipsOnlyWithoutCursor ==
    up => \A i \in DOMAIN view :
             InExecute(view[i]) \/ view[i] \in applied \cup skipped

(* No block is passed over at all, as docs/app/design has it: the process  *)
(* "can be started again without losing the state".  It does not hold of   *)
(* the code as it stands, see ReopensAtCursor.                             *)
NoBlockSkipped ==
    up => \A i \in DOMAIN view : InExecute(view[i]) \/ view[i] \in applied

(* Every stream but the first is opened at a cursor. *)
ReopensAtCursor ==
    [][/\ Start => FirstStart \/ cursor # NoCursor
       /\ MonitorActs(StreamRestart) => boot # NoCursor]_vars

(* Replaying blocks after a crash, a retry or a stream restart never moves *)
(* a confirmation to another slot.                                         *)
ConfirmedSlotStable ==
    [][\A t \in Tx :
          table[t].status = "confirmed" /\ table'[t].status = "confirmed"
             => table'[t].slot = table[t].slot]_vars

(* In a release build the unwrap of the retry filter can only meet a row   *)
(* without slot after the chain has switched forks.                        *)
PanicNeedsRollback ==
    mpc = "retry" /\ FilterPanics /\ ~ OverflowChecks => forks > 0

(* What the copy in execute says of the transactions it has not got to yet *)
(* is what the database says, and the monitor holds no row of them.        *)
UnitIsCurrent ==
    \A i \in DOMAIN unit : i >= pos =>
        /\ table[unit[i].id].status = "pending"
        /\ table[unit[i].id].slot = unit[i].slot
        /\ unit[i].id \notin DOMAIN snap

(* What the monitor's snapshot says of a row is still true of it when the  *)
(* monitor writes the row.                                                 *)
SnapIsCurrent ==
    /\ mpc \notin {"confirm", "retry", "rollback"} => DOMAIN snap = {}
    /\ mpc = "confirm" => \A t \in DOMAIN snap : table[t].status = "inflight"
    /\ mpc = "retry" => \A t \in DOMAIN snap :
          table[t].status = IF t \in TxsConfirm THEN "confirmed" ELSE "inflight"
    /\ mpc = "rollback" => \A t \in DOMAIN snap : table[t].status = "confirmed"

(* No error makes the runtime run ingest's execute again: the database and *)
(* the services it awaits answer, and every queue can be processed.        *)
NoIngestRetry ==
    /\ Faults \cap {"dbIngest", "u5cTip", "signer"} = {}
    /\ \A t \in Tx : Processable(t)

(* The pipeline moves every transaction along its life cycle only.         *)
Lifecycle == INSTANCE TxLifecycle WITH status <- [t \in Tx |-> table[t].status]
LifecycleSpec == Lifecycle!Spec

(* Every pending transaction is eventually sent or rejected. *)
PendingHandled ==
    \A t \in Tx : table[t].status = "pending" ~> table[t].status # "pending"

(* A transaction whose retry is due by a block still to come does not stay *)
(* in flight with that slot, crashes included.  (Until the first cursor is *)
(* stored, a crash makes the next start skip to the tip.)                  *)
WaitsSince(t, n) == table[t].status = "inflight" /\ table[t].slot = n
RetryDue(n) ==
    \E i \in DOMAIN chain : i > Len(view) /\ chain[i].slot - n > RetrySlotDiff

StuckIsRetried ==
    \A t \in Tx, n \in 0..MaxSlot :
        WaitsSince(t, n) /\ RetryDue(n) /\ cursor # NoCursor ~> ~ WaitsSince(t, n)

-----------------------------------------------------------------------------
(* Statements of the documentation that the code does not keep. *)

(* docs/app/configuration: "If (slot_current_block - slot_tx_sent) >        *)
(* retry_slot_diff, the transaction will be retried."                      *)
RetryOnlyAfterDiff ==
    [][\A t \in Tx :
          table[t].status = "inflight" /\ table'[t].status = "pending"
             => event.block.slot - table[t].slot > RetrySlotDiff]_vars

(* README: the retry mechanism handles rolled back transactions; here: no  *)
(* row that a rollback leaves behind makes the next block panic.           *)
RollbackIsRetried == mpc = "retry" => ~ FilterPanics

(* README: rollbacks update the status of each transaction in real time;   *)
(* here: between two events a confirmed transaction is on the chain as far *)
(* as the stream has told.                                                 *)
ConfirmedIsOnStream ==
    mpc = "schedule" => \A t \in Tx : table[t].status = "confirmed" =>
        \E i \in DOMAIN view : t \in view[i].txs

(* docs/app/priority: "Transactions with unknown queues are processed using *)
(* the default weight."                                                    *)
UnknownQueueProcessed ==
    \A t \in Tx :
        QueueOf[t] \notin Configured /\ table[t].status = "pending"
            ~> table[t].status # "pending"

=============================================================================
