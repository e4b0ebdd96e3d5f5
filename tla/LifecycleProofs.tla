-------------------------- MODULE LifecycleProofs --------------------------
(***************************************************************************)
(* Pipeline implements TxLifecycle as long as no error makes the runtime   *)
(* run ingest's execute again (NoIngestRetry): with crashes, rollbacks,    *)
(* stream restarts, failed database calls of the monitor and every         *)
(* interleaving of the two stages.                                         *)
(***************************************************************************)
EXTENDS PipelineProofs

(* The stages work on copies of rows and write by id only.  What makes     *)
(* that safe: no transaction is twice in a unit, and neither stage's copy  *)
(* is out of date when it is written back.                                 *)
UnitDistinct == \A i, j \in DOMAIN unit : i # j => unit[i].id # unit[j].id

CopyInv == UnitDistinct /\ UnitIsCurrent /\ SnapIsCurrent

LEMMA CopyInit == Init => CopyInv
  BY DEF Init, StorageInit, MonitorInit, IngestInit, NoRows,
         CopyInv, UnitDistinct, UnitIsCurrent, SnapIsCurrent

(* The transaction that execute is at. *)
LEMMA CurrentPending ==
    ASSUME Inv, CopyInv, ipc \notin {"schedule", "next"}
    PROVE  /\ pos \in DOMAIN unit /\ CurrentId \in Tx
           /\ table[CurrentId].status = "pending" /\ CurrentId \notin DOMAIN snap
<1>1. pos \in Nat \ {0} /\ unit \in Seq(Copy) /\ ~ (pos > Len(unit))
  BY DEF Inv, TypeOK, IngestTypeOK
<1>2. pos \in DOMAIN unit
  BY <1>1
<1>3. unit[pos] \in Copy
  BY <1>1, <1>2
<1>4. table[unit[pos].id].status = "pending" /\ unit[pos].id \notin DOMAIN snap
  BY <1>1, <1>2 DEF CopyInv, UnitIsCurrent
<1>5. QED
  BY <1>2, <1>3, <1>4 DEF Copy, CurrentId

(* Ids of the unit are transactions. *)
LEMMA UnitIds == ASSUME Inv, NEW i \in DOMAIN unit PROVE unit[i].id \in Tx /\ i \in Nat
<1>1. unit \in Seq(Copy)
  BY DEF Inv, TypeOK, IngestTypeOK
<1>2. unit[i] \in Copy /\ i \in Nat
  BY <1>1
<1>3. QED
  BY <1>2 DEF Copy

(* A step of the monitor writes only rows of its snapshot, so it leaves    *)
(* the rows alone that ingest has still to process.                        *)
LEMMA UnitKept ==
    ASSUME Inv, CopyInv, unit' = unit, pos' = pos,
           DOMAIN snap' \subseteq DOMAIN snap,
           \A t \in Tx \ DOMAIN snap : table'[t] = table[t]
    PROVE  UnitDistinct' /\ UnitIsCurrent'
<1>1. UnitDistinct'
  BY DEF CopyInv, UnitDistinct
<1>2. ASSUME NEW i \in DOMAIN unit', i >= pos'
      PROVE  /\ table'[unit'[i].id].status = "pending"
             /\ table'[unit'[i].id].slot = unit'[i].slot
             /\ unit'[i].id \notin DOMAIN snap'
  <2>1. /\ table[unit[i].id].status = "pending"
        /\ table[unit[i].id].slot = unit[i].slot
        /\ unit[i].id \notin DOMAIN snap
    BY <1>2 DEF CopyInv, UnitIsCurrent
  <2>2. table'[unit[i].id] = table[unit[i].id]
    BY <2>1, UnitIds
  <2>3. QED
    BY <2>1, <2>2
<1>3. QED
  BY <1>1, <1>2 DEF UnitIsCurrent

(* An empty unit has nothing to say. *)
LEMMA UnitEmpty == ASSUME unit' = <<>> PROVE UnitDistinct' /\ UnitIsCurrent'
  BY DEF UnitDistinct, UnitIsCurrent

-----------------------------------------------------------------------------
(* The copies stay current. *)

LEMMA CopyMonitor ==
    ASSUME Inv, CopyInv, MonitorActs(MonitorStep)
    PROVE  CopyInv'
<1>0. MonitorStep /\ (UNCHANGED ingestVars \/ IngestReset)
  BY DEF MonitorActs
<1>1. CASE ScheduleForward \/ ScheduleRollback \/ StoreCursor \/ RetryPanic
  <2>1. /\ table' = table /\ (snap' = snap \/ snap' = NoRows)
        /\ mpc \in {"schedule", "cursor", "retry"} /\ mpc' \in {"find", "schedule"}
        /\ mpc = "retry" => snap' = NoRows
    BY <1>1 DEF ScheduleForward, ScheduleRollback, StoreCursor, RetryPanic, MonitorReset
  <2>2. SnapIsCurrent'
    BY <2>1 DEF CopyInv, SnapIsCurrent, NoRows
  <2>3. DOMAIN snap' \subseteq DOMAIN snap
    BY <2>1 DEF NoRows
  <2>4. UnitDistinct' /\ UnitIsCurrent'
    BY <1>0, <2>1, <2>3, UnitKept, UnitEmpty DEF ingestVars, IngestReset
  <2>5. QED
    BY <2>2, <2>4 DEF CopyInv
<1>2. CASE FindRows
  <2>1. table' = table /\ event' = event /\ UNCHANGED ingestVars
    BY <1>0, <1>2 DEF FindRows, MonitorActs, Inv, TypeOK, GasketTypeOK
  <2>2. SnapIsCurrent'
    BY <1>2, <2>1 DEF FindRows, Rows, Find, FindToRollback, SnapIsCurrent
  <2>3. \A t \in DOMAIN snap' : table[t].status \in {"inflight", "confirmed"}
    BY <1>2 DEF FindRows, Rows, Find, FindToRollback
  <2>4. UnitDistinct' /\ UnitIsCurrent'
    BY <2>1, <2>3 DEF ingestVars, CopyInv, UnitDistinct, UnitIsCurrent
  <2>5. QED
    BY <2>2, <2>4 DEF CopyInv
<1>3. CASE ConfirmTxs
  <2> DEFINE upd == [t \in TxsConfirm |-> [status |-> "confirmed", slot |-> event.block.slot]]
  <2>1. /\ UpdateBatch(upd) /\ snap' = snap /\ event' = event
        /\ mpc = "confirm" /\ mpc' = "retry" /\ TxsConfirm \subseteq DOMAIN snap
        /\ UNCHANGED ingestVars
    BY <1>0, <1>3 DEF ConfirmTxs, TxsConfirm, MonitorActs, Inv, TypeOK, GasketTypeOK
  <2>2. DOMAIN snap \subseteq Tx
    BY DEF Inv, TypeOK, MonitorTypeOK
  <2>3. TxsConfirm' = TxsConfirm
    BY <2>1 DEF TxsConfirm
  <2>4. SnapIsCurrent'
    BY <2>1, <2>2, <2>3, UpdateBatchRows DEF CopyInv, SnapIsCurrent
  <2>5. \A t \in Tx \ DOMAIN snap : table'[t] = table[t]
    BY <2>1, UpdateBatchRows
  <2>6. UnitDistinct' /\ UnitIsCurrent'
    BY <2>1, <2>5, UnitKept DEF ingestVars
  <2>7. QED
    BY <2>4, <2>6 DEF CopyInv
<1>4. CASE RetryTxs
  <2> DEFINE upd == [t \in TxsRetry |-> [status |-> "pending", slot |-> NoSlot]]
  <2>1. /\ UpdateBatch(upd) /\ DOMAIN snap' = {} /\ mpc' = "cursor"
        /\ TxsRetry \subseteq DOMAIN snap /\ UNCHANGED ingestVars
    BY <1>0, <1>4 DEF RetryTxs, TxsRetry, NoRows, MonitorActs, Inv, TypeOK, GasketTypeOK
  <2>2. SnapIsCurrent'
    BY <2>1 DEF SnapIsCurrent
  <2>3. \A t \in Tx \ DOMAIN snap : table'[t] = table[t]
    BY <2>1, UpdateBatchRows
  <2>4. UnitDistinct' /\ UnitIsCurrent'
    BY <2>1, <2>3, UnitKept DEF ingestVars
  <2>5. QED
    BY <2>2, <2>4 DEF CopyInv
<1>5. CASE RollbackTxs
  <2> DEFINE upd == [t \in DOMAIN snap |->
                       IF snap[t].slot > event.block.slot
                       THEN [status |-> "inflight", slot |-> NoSlot]
                       ELSE [status |-> snap[t].status, slot |-> event.block.slot]]
  <2>1. /\ UpdateBatch(upd) /\ DOMAIN snap' = {} /\ mpc' = "cursor"
        /\ DOMAIN upd = DOMAIN snap /\ UNCHANGED ingestVars
    BY <1>0, <1>5 DEF RollbackTxs, NoRows, MonitorActs, Inv, TypeOK, GasketTypeOK
  <2> HIDE DEF upd
  <2>2. SnapIsCurrent'
    BY <2>1 DEF SnapIsCurrent
  <2>3. \A t \in Tx \ DOMAIN snap : table'[t] = table[t]
    BY <2>1, UpdateBatchRows
  <2>4. UnitDistinct' /\ UnitIsCurrent'
    BY <2>1, <2>3, UnitKept DEF ingestVars
  <2>5. QED
    BY <2>2, <2>4 DEF CopyInv
<1>6. QED
  BY <1>0, <1>1, <1>2, <1>3, <1>4, <1>5 DEF MonitorStep

LEMMA CopyIngest ==
    ASSUME Inv, CopyInv, NoIngestRetry, IngestActs(IngestStep)
    PROVE  CopyInv'
<1>0. IngestStep /\ snap' = snap /\ mpc' = mpc /\ event' = event
  BY DEF IngestActs, monitorVars
<1>1. TxsConfirm' = TxsConfirm
  BY <1>0 DEF TxsConfirm
<1>2. CASE NextUnit
  <2>1. table' = table
    BY <1>2 DEF NextUnit
  <2>2. SnapIsCurrent'
    BY <1>0, <1>1, <2>1 DEF CopyInv, SnapIsCurrent
  <2>3. \A t \in DOMAIN snap : table[t].status # "pending"
    BY DEF CopyInv, SnapIsCurrent, Inv, TypeOK, MonitorTypeOK
  <2>4. UnitDistinct' /\ UnitIsCurrent'
    BY <1>0, <1>2, <2>1, <2>3, ScheduledUnit DEF Inv, UnitDistinct, UnitIsCurrent
  <2>5. QED
    BY <2>2, <2>4 DEF CopyInv
<1>3. CASE CheckRetry
  <2>1. ~ Processable(CurrentId) /\ ipc \notin {"schedule", "next"}
    BY <1>3 DEF CheckRetry
  <2>2. QED
    BY <2>1, CurrentPending DEF NoIngestRetry
<1>4. CASE CountPending \/ CheckTx \/ SendTx \/ FetchTip
  <2>1. table' = table /\ unit' = unit /\ pos' = pos
    BY <1>4 DEF CountPending, CheckTx, SendTx, FetchTip
  <2>2. SnapIsCurrent'
    BY <1>0, <1>1, <2>1 DEF CopyInv, SnapIsCurrent
  <2>3. QED
    BY <1>0, <2>1, <2>2, UnitKept DEF CopyInv
<1>5. CASE FailTx \/ MarkInFlight
  <2>1. ipc \notin {"schedule", "next"} /\ NextTx
    BY <1>5 DEF FailTx, MarkInFlight
  <2>2. \A t \in Tx : t # CurrentId => table'[t] = table[t]
    BY <1>5, UpdateRows DEF FailTx, MarkInFlight
  <2>3. SnapIsCurrent'
    <3>1. DOMAIN snap \subseteq Tx /\ CurrentId \notin DOMAIN snap
      BY <2>1, CurrentPending DEF Inv, TypeOK, MonitorTypeOK
    <3>2. \A t \in DOMAIN snap : table'[t] = table[t]
      BY <2>2, <3>1
    <3>3. QED
      BY <1>0, <1>1, <3>2 DEF CopyInv, SnapIsCurrent
  <2>4. CASE unit' = <<>>
    BY <2>3, <2>4, UnitEmpty DEF CopyInv
  <2>5. CASE unit' = unit /\ pos' = pos + 1
    <3>1. UnitDistinct'
      BY <2>5 DEF CopyInv, UnitDistinct
    <3>2. ASSUME NEW i \in DOMAIN unit', i >= pos'
          PROVE  /\ table'[unit'[i].id].status = "pending"
                 /\ table'[unit'[i].id].slot = unit'[i].slot
                 /\ unit'[i].id \notin DOMAIN snap'
      <4>1. pos \in DOMAIN unit /\ pos \in Nat /\ i \in Nat /\ unit[i].id \in Tx
        BY <2>1, <2>5, CurrentPending, UnitIds
      <4>2. i > pos
        BY <2>5, <3>2, <4>1
      <4>3. unit[i].id # CurrentId
        BY <2>5, <4>1, <4>2 DEF CurrentId, CopyInv, UnitDistinct
      <4>4. /\ table[unit[i].id].status = "pending"
            /\ table[unit[i].id].slot = unit[i].slot
            /\ unit[i].id \notin DOMAIN snap
        BY <2>5, <4>1, <4>2 DEF CopyInv, UnitIsCurrent
      <4>5. QED
        BY <1>0, <2>2, <2>5, <4>1, <4>3, <4>4
    <3>3. UnitIsCurrent'
      BY <3>2 DEF UnitIsCurrent
    <3>4. QED
      BY <2>3, <3>1, <3>3 DEF CopyInv
  <2>6. QED
    BY <2>1, <2>4, <2>5, NextTxUnit
<1>6. QED
  BY <1>0, <1>2, <1>3, <1>4, <1>5 DEF IngestStep

LEMMA CopyFault ==
    ASSUME Inv, CopyInv, NoIngestRetry,
           MonitorActs(MonitorFault) \/ IngestActs(IngestFault)
    PROVE  CopyInv'
<1>1. CASE MonitorActs(MonitorFault)
  <2>1. /\ table' = table /\ (UNCHANGED ingestVars \/ IngestReset)
        /\ mpc' \in {"schedule", "idle", "find"}
        /\ \/ snap' = NoRows
           \/ snap' = snap /\ mpc = "schedule"
    BY <1>1
    DEF MonitorActs, MonitorFault, StreamRestart, StreamEnd, MonitorDbError, MonitorReset
  <2>2. SnapIsCurrent' /\ DOMAIN snap' \subseteq DOMAIN snap
    BY <2>1 DEF CopyInv, SnapIsCurrent, NoRows
  <2>3. UnitDistinct' /\ UnitIsCurrent'
    BY <2>1, <2>2, UnitKept, UnitEmpty DEF ingestVars, IngestReset
  <2>4. QED
    BY <2>2, <2>3 DEF CopyInv
<1>2. CASE IngestActs(IngestFault)
  <2>1. CheckU5cError \/ SendNoPeer
    BY <1>2
    DEF IngestActs, IngestFault, ScheduleDbError, SignError, FetchTipError, IngestDbError,
        Fault, NoIngestRetry
  <2>2. table' = table /\ snap' = snap /\ mpc' = mpc /\ event' = event
    BY <1>2, <2>1 DEF IngestActs, monitorVars, CheckU5cError, SendNoPeer
  <2>3. TxsConfirm' = TxsConfirm
    BY <2>2 DEF TxsConfirm
  <2>4. SnapIsCurrent'
    BY <2>2, <2>3 DEF CopyInv, SnapIsCurrent
  <2>5. pos \in Nat
    BY DEF Inv, TypeOK, IngestTypeOK
  <2>6. (unit' = unit /\ pos' \in {pos, pos + 1}) \/ unit' = <<>>
    BY <2>1, NextTxUnit DEF CheckU5cError, SendNoPeer
  <2>7. CASE unit' = unit /\ pos' \in {pos, pos + 1}
    <3>1. UnitDistinct'
      BY <2>7 DEF CopyInv, UnitDistinct
    <3>2. \A i \in DOMAIN unit : i \in Nat
      BY UnitIds
    <3>3. UnitIsCurrent'
      BY <2>2, <2>5, <2>7, <3>2 DEF CopyInv, UnitIsCurrent
    <3>4. QED
      BY <2>4, <3>1, <3>3 DEF CopyInv
  <2>8. QED
    BY <2>4, <2>6, <2>7, UnitEmpty DEF CopyInv
<1>3. QED
  BY <1>1, <1>2

(* A submitted transaction is new: no copy speaks of it. *)
LEMMA CopyProcess ==
    ASSUME Inv, CopyInv, Start \/ Crash \/ Submit \/ ChainActs \/ UNCHANGED vars
    PROVE  CopyInv'
<1>1. CASE Start \/ ChainActs \/ UNCHANGED vars
  <2>1. UNCHANGED <<table, monitorVars, ingestVars>>
    BY <1>1 DEF Start, ChainActs, vars, storageVars, monitorVars, ingestVars
  <2>2. TxsConfirm' = TxsConfirm
    BY <2>1 DEF TxsConfirm, monitorVars
  <2>3. QED
    BY <2>1, <2>2
    DEF monitorVars, ingestVars, CopyInv, UnitDistinct, UnitIsCurrent, SnapIsCurrent
<1>2. CASE Crash
  <2>1. unit' = <<>> /\ mpc' = "schedule" /\ DOMAIN snap' = {}
    BY <1>2 DEF Crash, MonitorReset, IngestReset, NoRows
  <2>2. QED
    BY <2>1, UnitEmpty DEF CopyInv, SnapIsCurrent
<1>3. CASE Submit
  <2>1. /\ UNCHANGED <<monitorVars, ingestVars>>
        /\ \A t \in Tx : table'[t] = table[t] \/ table[t].status = "absent"
    BY <1>3 DEF Submit, Create, Existing
  <2>2. TxsConfirm' = TxsConfirm
    BY <2>1 DEF TxsConfirm, monitorVars
  <2>3. DOMAIN snap \subseteq Tx /\ mpc \in {"schedule", "idle", "find", "confirm",
                                              "retry", "rollback", "cursor"}
    BY DEF Inv, TypeOK, MonitorTypeOK
  <2>4. \A t \in DOMAIN snap : table'[t] = table[t]
    BY <2>1, <2>3 DEF CopyInv, SnapIsCurrent
  <2>5. SnapIsCurrent'
    BY <2>1, <2>2, <2>4 DEF monitorVars, CopyInv, SnapIsCurrent
  <2>6. \A i \in DOMAIN unit : i >= pos => table'[unit[i].id] = table[unit[i].id]
    BY <2>1, UnitIds DEF CopyInv, UnitIsCurrent
  <2>7. UnitDistinct' /\ UnitIsCurrent'
    BY <2>1, <2>6 DEF monitorVars, ingestVars, CopyInv, UnitDistinct, UnitIsCurrent
  <2>8. QED
    BY <2>5, <2>7 DEF CopyInv
<1>4. QED
  BY <1>1, <1>2, <1>3

LEMMA CopyStep == NoIngestRetry /\ Inv /\ CopyInv /\ [Next]_vars => CopyInv'
<1> SUFFICES ASSUME NoIngestRetry, Inv, CopyInv, [Next]_vars PROVE CopyInv'
  OBVIOUS
<1>1. QED
  BY CopyProcess, CopyMonitor, CopyIngest, CopyFault DEF Next

LEMMA CopyHolds == ASSUME NoIngestRetry PROVE Spec => []CopyInv
<1>1. Init => CopyInv
  BY CopyInit
<1>2. Inv /\ CopyInv /\ [Next]_vars => CopyInv'
  BY CopyStep
<1>3. QED
  BY <1>1, <1>2, InvHolds, PTL DEF Spec

(* Unless an error makes execute run again, the copy that ingest works on  *)
(* is what the database says, although the monitor writes rows meanwhile.  *)
THEOREM UnitIsCurrentHolds == ASSUME NoIngestRetry PROVE Spec => []UnitIsCurrent
<1>1. CopyInv => UnitIsCurrent
  BY DEF CopyInv
<1>2. QED
  BY <1>1, CopyHolds, PTL

(* What the monitor's snapshot says of a row is still true when the        *)
(* monitor writes the row, although ingest writes rows meanwhile.          *)
THEOREM SnapIsCurrentHolds == ASSUME NoIngestRetry PROVE Spec => []SnapIsCurrent
<1>1. CopyInv => SnapIsCurrent
  BY DEF CopyInv
<1>2. QED
  BY <1>1, CopyHolds, PTL

-----------------------------------------------------------------------------
(* Every step of the pipeline is a move of the life cycle, or none. *)

StatusOf == [t \in Tx |-> table[t].status]
LifecycleStep == [Lifecycle!Next]_<<StatusOf, sent>>

(* Rows that change their status together and in one direction. *)
LEMMA MoveRows ==
    ASSUME NEW S \in SUBSET Tx, NEW from, NEW to, sent' = sent,
           \A t \in S : table[t].status = from /\ table'[t].status = to,
           \A t \in Tx \ S : table'[t].status = table[t].status
    PROVE  Lifecycle!Move(S, from, to)
  BY DEF Lifecycle!Move

(* The status column is left alone. *)
LEMMA Stutter ==
    ASSUME sent' = sent, \A t \in Tx : table'[t].status = table[t].status
    PROVE  LifecycleStep
  BY DEF LifecycleStep, StatusOf

LEMMA RefineMonitor ==
    ASSUME Inv, CopyInv, MonitorActs(MonitorStep)
    PROVE  LifecycleStep
<1>0. MonitorStep /\ sent' = sent
  BY DEF MonitorActs
<1>1. DOMAIN snap \subseteq Tx
  BY DEF Inv, TypeOK, MonitorTypeOK
<1>2. CASE ConfirmTxs
  <2> DEFINE upd == [t \in TxsConfirm |-> [status |-> "confirmed", slot |-> event.block.slot]]
  <2>1. UpdateBatch(upd) /\ mpc = "confirm" /\ TxsConfirm \subseteq DOMAIN snap
    BY <1>2 DEF ConfirmTxs, TxsConfirm
  <2>2. Lifecycle!Move(TxsConfirm, "inflight", "confirmed")
    BY <1>0, <1>1, <2>1, UpdateBatchRows, MoveRows DEF CopyInv, SnapIsCurrent
  <2>3. QED
    BY <1>1, <2>1, <2>2 DEF LifecycleStep, Lifecycle!Next, Lifecycle!Confirm
<1>3. CASE RetryTxs
  <2> DEFINE upd == [t \in TxsRetry |-> [status |-> "pending", slot |-> NoSlot]]
  <2>1. UpdateBatch(upd) /\ mpc = "retry" /\ TxsRetry \subseteq DOMAIN snap \ TxsConfirm
    BY <1>3 DEF RetryTxs, TxsRetry
  <2>2. Lifecycle!Move(TxsRetry, "inflight", "pending")
    BY <1>0, <1>1, <2>1, UpdateBatchRows, MoveRows DEF CopyInv, SnapIsCurrent
  <2>3. QED
    BY <1>1, <2>1, <2>2 DEF LifecycleStep, Lifecycle!Next, Lifecycle!Expire
<1>4. CASE RollbackTxs
  <2> DEFINE upd == [t \in DOMAIN snap |->
                       IF snap[t].slot > event.block.slot
                       THEN [status |-> "inflight", slot |-> NoSlot]
                       ELSE [status |-> snap[t].status, slot |-> event.block.slot]]
  <2>1. UpdateBatch(upd) /\ mpc = "rollback" /\ DOMAIN upd = DOMAIN snap
    BY <1>4 DEF RollbackTxs
  <2>2. \A t \in DOMAIN upd : upd[t].status = "inflight"
    BY <1>4 DEF RollbackTxs, Inv, SlotInv
  <2> HIDE DEF upd
  <2>3. Lifecycle!Move(DOMAIN snap, "confirmed", "inflight")
    BY <1>0, <1>1, <2>1, <2>2, UpdateBatchRows, MoveRows DEF CopyInv, SnapIsCurrent
  <2>4. QED
    BY <1>1, <2>3 DEF LifecycleStep, Lifecycle!Next, Lifecycle!Rollback
<1>5. CASE ScheduleForward \/ ScheduleRollback \/ FindRows \/ StoreCursor \/ RetryPanic
  <2>1. table' = table
    BY <1>5 DEF ScheduleForward, ScheduleRollback, FindRows, StoreCursor, RetryPanic
  <2>2. QED
    BY <1>0, <2>1, Stutter
<1>6. QED
  BY <1>0, <1>2, <1>3, <1>4, <1>5 DEF MonitorStep

LEMMA RefineIngest ==
    ASSUME Inv, CopyInv, IngestActs(IngestStep)
    PROVE  LifecycleStep
<1>0. IngestStep
  BY DEF IngestActs
<1>1. CASE CountPending \/ NextUnit \/ CheckRetry \/ CheckTx \/ FetchTip
  <2>1. table' = table /\ sent' = sent
    BY <1>1 DEF CountPending, NextUnit, CheckRetry, CheckTx, FetchTip
  <2>2. QED
    BY <2>1, Stutter
<1>2. CASE FailTx
  <2>1. /\ Update(CurrentId, "failed", unit[pos].slot) /\ sent' = sent
        /\ CurrentId \in Tx /\ table[CurrentId].status = "pending"
    BY <1>2, CurrentPending DEF FailTx
  <2>2. Lifecycle!Move({CurrentId}, "pending", "failed")
    BY <2>1, UpdateRows, MoveRows
  <2>3. QED
    BY <2>1, <2>2 DEF LifecycleStep, Lifecycle!Next, Lifecycle!Reject
<1>3. CASE SendTx
  <2>1. /\ sent' = sent \cup {CurrentId} /\ table' = table
        /\ CurrentId \in Tx /\ table[CurrentId].status = "pending"
    BY <1>3, CurrentPending DEF SendTx
  <2>2. Lifecycle!Broadcast(CurrentId)
    BY <2>1 DEF Lifecycle!Broadcast
  <2>3. QED
    BY <2>1, <2>2 DEF LifecycleStep, Lifecycle!Next
<1>4. CASE MarkInFlight
  <2>1. /\ Update(CurrentId, "inflight", tip) /\ sent' = sent /\ CurrentId \in sent
        /\ CurrentId \in Tx /\ table[CurrentId].status = "pending"
    BY <1>4, CurrentPending DEF MarkInFlight, Inv, SendInv
  <2>2. Lifecycle!Move({CurrentId}, "pending", "inflight")
    BY <2>1, UpdateRows, MoveRows
  <2>3. QED
    BY <2>1, <2>2 DEF LifecycleStep, Lifecycle!Next, Lifecycle!Accept
<1>5. QED
  BY <1>0, <1>1, <1>2, <1>3, <1>4 DEF IngestStep

LEMMA RefineRest ==
    ASSUME \/ Start \/ Crash \/ Submit \/ ChainActs \/ UNCHANGED vars
           \/ MonitorActs(MonitorFault) \/ IngestActs(IngestFault)
    PROVE  LifecycleStep
<1>1. CASE Start \/ Crash \/ ChainActs \/ UNCHANGED vars
  BY <1>1, Stutter DEF Start, Crash, ChainActs, vars, storageVars
<1>2. CASE MonitorActs(MonitorFault) \/ IngestActs(IngestFault)
  <2>1. table' = table /\ sent' = sent
    BY <1>2
    DEF MonitorActs, MonitorFault, StreamRestart, StreamEnd, MonitorDbError,
        IngestActs, IngestFault, SignError, CheckU5cError, SendNoPeer, FetchTipError,
        IngestDbError, ScheduleDbError
  <2>2. QED
    BY <2>1, Stutter
<1>3. CASE Submit
  <2>1. PICK n \in 1..MaxBatch :
           \E ts \in [1..n -> Tx], at \in [1..n -> Stamp] : Create(ts, at)
    BY <1>3 DEF Submit
  <2>2. PICK ts \in [1..n -> Tx], at \in [1..n -> Stamp] : Create(ts, at)
    BY <2>1
  <2> DEFINE ids == {ts[i] : i \in DOMAIN ts}
  <2>3. ids \in SUBSET Tx /\ sent' = sent
    BY <1>3 DEF Submit
  <2>4. /\ \A t \in ids : table[t].status = "absent" /\ table'[t].status = "pending"
        /\ \A t \in Tx \ ids : table'[t].status = table[t].status
    BY <2>2, <2>3 DEF Create, Existing
  <2> HIDE DEF ids
  <2>5. Lifecycle!Move(ids, "absent", "pending")
    BY <2>3, <2>4, MoveRows
  <2>6. QED
    BY <2>3, <2>5 DEF LifecycleStep, Lifecycle!Next, Lifecycle!Submit
<1>4. QED
  BY <1>1, <1>2, <1>3

(* The pipeline implements the life cycle: unless an error makes execute   *)
(* run again, no interleaving, crash, rollback or replay of blocks moves a *)
(* transaction otherwise than the life cycle allows.                       *)
THEOREM PipelineImplementsLifecycle == ASSUME NoIngestRetry PROVE Spec => LifecycleSpec
<1>1. Init => Lifecycle!Init
  BY DEF Init, StorageInit, IngestInit, Lifecycle!Init
<1>2. Inv /\ CopyInv /\ [Next]_vars => LifecycleStep
  BY RefineMonitor, RefineIngest, RefineRest DEF Next
<1>3. QED
  BY <1>1, <1>2, InvHolds, CopyHolds, PTL
  DEF Spec, LifecycleSpec, Lifecycle!Spec, LifecycleStep, StatusOf

=============================================================================
