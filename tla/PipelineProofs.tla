--------------------------- MODULE PipelineProofs ---------------------------
(***************************************************************************)
(* Theorems about Pipeline, for every set of transactions, every queue     *)
(* configuration, every retry distance and every budget of faults.         *)
(***************************************************************************)
EXTENDS Pipeline, FiniteSetTheorems, TLAPS

(* A batch update keeps the table well typed and leaves the rows outside   *)
(* the batch alone.                                                        *)
LEMMA UpdateBatchType ==
    ASSUME NEW upd, table \in [Tx -> Row], UpdateBatch(upd),
           \A t \in DOMAIN upd : upd[t].status \in Status /\ upd[t].slot \in Slot
    PROVE  table' \in [Tx -> Row]
  BY DEF UpdateBatch, Row

LEMMA UpdateType ==
    ASSUME NEW t, NEW s \in Status, NEW n \in Slot, table \in [Tx -> Row], Update(t, s, n)
    PROVE  table' \in [Tx -> Row]
<1> DEFINE upd == [x \in {t} |-> [status |-> s, slot |-> n]]
<1>1. \A x \in DOMAIN upd : upd[x].status \in Status /\ upd[x].slot \in Slot
  OBVIOUS
<1>2. UpdateBatch(upd)
  BY DEF Update
<1>3. QED
  BY <1>1, <1>2, UpdateBatchType

(* The rows of storage.next are distinct transactions of the queried       *)
(* status, in a finite sequence.                                           *)
LEMMA NextTxsType ==
    ASSUME NEW s, NEW limit, NEW ids \in NextTxs(s, limit)
    PROVE  /\ ids \in Seq(Find(s))
           /\ \A i, j \in DOMAIN ids : i # j => ids[i] # ids[j]
<1> DEFINE rows == UNION {Oldest(s, q, limit[q]) : q \in DOMAIN limit}
           n == Cardinality(rows)
<1>1. rows \subseteq Find(s)
  BY DEF Oldest, InQueue
<1>2. IsFiniteSet(rows)
  <2>1. Find(s) \subseteq Tx
    BY DEF Find
  <2>2. QED
    BY <1>1, <2>1, FS_Subset, StorageAssumption
<1>3. n \in Nat
  BY <1>2, FS_CardinalityType
<1>4. /\ ids \in [1..n -> rows]
      /\ \A i, j \in 1..n : i < j => ids[i] # ids[j]
  BY DEF NextTxs
<1> HIDE DEF rows, n
<1>5. ids \in Seq(Find(s))
  BY <1>1, <1>3, <1>4
<1>6. \A i, j \in DOMAIN ids : i # j => ids[i] # ids[j]
  BY <1>3, <1>4
<1>7. QED
  BY <1>5, <1>6

-----------------------------------------------------------------------------
(* Type correctness: one lemma per group of steps. *)

LEMMA TypeInit == Init => TypeOK
<1> SUFFICES ASSUME Init PROVE TypeOK
  OBVIOUS
<1> USE DEF Init, TypeOK
<1>1. StorageTypeOK
  BY DEF StorageInit, StorageTypeOK, Row, Status, Slot, NoSlot, Point, NoCursor
<1>2. U5CTypeOK
  <2>1. Genesis \in Block
    BY DEF Genesis, Block
  <2>2. chain \in Seq(Block) \ {<<>>}
    BY <2>1 DEF ChainInit
  <2>3. QED
    BY <2>2 DEF U5CTypeOK, ChainInit, Point, Slot, NoSlot, NoCursor
<1>3. GasketTypeOK
  BY DEF GasketInit, GasketTypeOK
<1>4. MonitorTypeOK
  BY DEF MonitorInit, MonitorTypeOK, NoEvent, Events, Genesis, Block, NoRows
<1>5. IngestTypeOK
  BY DEF IngestInit, IngestTypeOK, NoCounts, Slot, NoSlot
<1>6. QED
  BY <1>1, <1>2, <1>3, <1>4, <1>5

(* The registers of the stages after bootstrap. *)
LEMMA MonitorResetType == MonitorReset => MonitorTypeOK'
  BY DEF MonitorReset, MonitorTypeOK, NoEvent, Events, Genesis, Block, NoRows

LEMMA IngestResetType == IngestReset /\ sent' \subseteq Tx => IngestTypeOK'
  BY DEF IngestReset, IngestTypeOK, NoCounts, Slot, NoSlot

(* The two ways an ingest step leaves the transaction it is at. *)
LEMMA NextTxType ==
    ASSUME IngestTypeOK, ipc \notin {"schedule", "next"}, NextTx, sent' \subseteq Tx
    PROVE  IngestTypeOK'
<1>1. CASE pos < Len(unit)
  BY <1>1 DEF NextTx, IngestTypeOK, Slot, NoSlot
<1>2. CASE ~ (pos < Len(unit))
  BY <1>2, IngestResetType DEF NextTx
<1>3. QED
  BY <1>1, <1>2

LEMMA RunAgainType ==
    ASSUME IngestTypeOK, ipc \notin {"schedule", "next"}, RunAgain, sent' = sent
    PROVE  IngestTypeOK'
  BY DEF RunAgain, IngestTypeOK, Slot, NoSlot

LEMMA FaultType == ASSUME NEW k, GasketTypeOK, Fault(k) PROVE faults' \in Nat
  BY DEF GasketTypeOK, Fault

(* A stream opened at a point of the chain has delivered a prefix of it. *)
LEMMA OpenStreamType ==
    ASSUME NEW p, U5CTypeOK, OpenStream(p)
    PROVE  view' \in Seq(Block)
<1>1. CASE p = NoCursor
  BY <1>1 DEF OpenStream, U5CTypeOK
<1>2. CASE p # NoCursor
  <2>1. PICK i \in DOMAIN chain : view' = SubSeq(chain, 1, i)
    BY <1>2 DEF OpenStream
  <2>2. QED
    BY <2>1 DEF U5CTypeOK
<1>3. QED
  BY <1>1, <1>2

LEMMA BlocksType == U5CTypeOK => Blocks \subseteq Block
  BY DEF U5CTypeOK, Blocks

LEMMA PointOfType == ASSUME NEW b \in Block PROVE PointOf(b) \in Point
  BY DEF PointOf, Block, Point, Slot

LEMMA TypeMonitor ==
    ASSUME TypeOK, MonitorActs(MonitorStep)
    PROVE  TypeOK'
<1> USE DEF TypeOK
<1>0. /\ up \in BOOLEAN /\ faults \in Nat
      /\ chain' = chain /\ forks' = forks /\ sent' = sent
      /\ IF up' THEN UNCHANGED ingestVars ELSE IngestReset
      /\ MonitorStep
  BY DEF MonitorActs, chainVars, GasketTypeOK
<1>1. event.block \in Block
  BY DEF MonitorTypeOK, Events
<1>2. StorageTypeOK' /\ U5CTypeOK' /\ GasketTypeOK' /\ MonitorTypeOK'
  <2>1. CASE ScheduleForward
    <3>1. view' \in Seq(Block) /\ chain[Len(view) + 1] \in Block
      BY <2>1 DEF ScheduleForward, StreamApply, U5CTypeOK
    <3>2. MonitorTypeOK'
      BY <2>1, <3>1 DEF ScheduleForward, MonitorTypeOK, Events
    <3>3. QED
      BY <1>0, <2>1, <3>1, <3>2
      DEF ScheduleForward, NoFault, StorageTypeOK, U5CTypeOK, GasketTypeOK
  <2>2. CASE ScheduleRollback
    <3>1. view \in Seq(Block) /\ Len(view) > 0
      BY <2>2 DEF ScheduleRollback, StreamUndo, U5CTypeOK, IsPrefixOf
    <3>2. view' \in Seq(Block) /\ view[Len(view)] \in Block
      BY <2>2, <3>1 DEF ScheduleRollback, StreamUndo
    <3>3. MonitorTypeOK'
      BY <2>2, <3>2 DEF ScheduleRollback, MonitorTypeOK, Events
    <3>4. QED
      BY <1>0, <2>2, <3>2, <3>3
      DEF ScheduleRollback, NoFault, StorageTypeOK, U5CTypeOK, GasketTypeOK
  <2>3. CASE FindRows
    <3>1. DOMAIN snap' \subseteq Tx /\ \A t \in DOMAIN snap' : snap'[t] \in Row
      BY <2>3 DEF FindRows, Rows, Find, FindToRollback, StorageTypeOK
    <3>2. QED
      BY <1>0, <2>3, <3>1
      DEF FindRows, NoFault, StorageTypeOK, U5CTypeOK, GasketTypeOK, MonitorTypeOK
  <2>4. CASE ConfirmTxs
    <3>1. table' \in [Tx -> Row]
      BY <1>1, <2>4, UpdateBatchType
      DEF ConfirmTxs, StorageTypeOK, Status, Slot, Block
    <3>2. QED
      BY <1>0, <2>4, <3>1
      DEF ConfirmTxs, NoFault, StorageTypeOK, U5CTypeOK, GasketTypeOK, MonitorTypeOK
  <2>5. CASE RetryTxs
    <3>1. table' \in [Tx -> Row]
      BY <2>5, UpdateBatchType DEF RetryTxs, StorageTypeOK, Status, Slot
    <3>2. QED
      BY <1>0, <2>5, <3>1
      DEF RetryTxs, NoRows, NoFault, StorageTypeOK, U5CTypeOK, GasketTypeOK, MonitorTypeOK
  <2>6. CASE RollbackTxs
    <3> DEFINE upd == [t \in DOMAIN snap |->
                         IF snap[t].slot > event.block.slot
                         THEN [status |-> "inflight", slot |-> NoSlot]
                         ELSE [status |-> snap[t].status, slot |-> event.block.slot]]
    <3>1. \A t \in DOMAIN upd : upd[t].status \in Status /\ upd[t].slot \in Slot
      BY <1>1 DEF MonitorTypeOK, Row, Status, Slot, Block
    <3>2. UpdateBatch(upd)
      BY <2>6 DEF RollbackTxs
    <3>3. table' \in [Tx -> Row]
      BY <3>1, <3>2, UpdateBatchType DEF StorageTypeOK
    <3>4. QED
      BY <1>0, <2>6, <3>3
      DEF RollbackTxs, NoRows, NoFault, StorageTypeOK, U5CTypeOK, GasketTypeOK, MonitorTypeOK
  <2>7. CASE StoreCursor
    BY <1>0, <1>1, <2>7, PointOfType, MonitorResetType
    DEF StoreCursor, SetCursor, NoFault, StorageTypeOK, U5CTypeOK, GasketTypeOK
  <2>8. CASE RetryPanic
    BY <1>0, <2>8, MonitorResetType
    DEF RetryPanic, Panic, NoFault, StorageTypeOK, U5CTypeOK, GasketTypeOK
  <2>9. QED
    BY <1>0, <2>1, <2>2, <2>3, <2>4, <2>5, <2>6, <2>7, <2>8 DEF MonitorStep
<1>3. IngestTypeOK'
  BY <1>0, IngestResetType DEF IngestTypeOK, ingestVars
<1>4. delivered' \subseteq Block /\ applied' \subseteq Block /\ skipped' \subseteq Block
  <2>1. event'.block \in Block
    BY <1>2 DEF MonitorTypeOK, Events
  <2>2. QED
    BY <1>1, <2>1, BlocksType DEF MonitorActs
<1>5. QED
  BY <1>2, <1>3, <1>4

LEMMA TypeMonitorFault ==
    ASSUME TypeOK, MonitorActs(MonitorFault)
    PROVE  TypeOK'
<1> USE DEF TypeOK
<1>0. /\ up \in BOOLEAN
      /\ chain' = chain /\ forks' = forks /\ sent' = sent
      /\ IF up' THEN UNCHANGED ingestVars ELSE IngestReset
      /\ MonitorFault
  BY DEF MonitorActs, chainVars, GasketTypeOK
<1>1. StorageTypeOK' /\ U5CTypeOK' /\ GasketTypeOK' /\ MonitorTypeOK'
  <2>1. CASE StreamRestart
    <3>1. faults' \in Nat /\ MonitorTypeOK'
      BY <2>1, FaultType, MonitorResetType DEF StreamRestart
    <3>2. view' \in Seq(Block) /\ up' \in BOOLEAN
      BY <1>0, <2>1, OpenStreamType DEF StreamRestart, Panic, U5CTypeOK
    <3>3. QED
      BY <1>0, <2>1, <3>1, <3>2 DEF StreamRestart, StorageTypeOK, U5CTypeOK, GasketTypeOK
  <2>2. CASE StreamEnd
    BY <1>0, <2>2, FaultType
    DEF StreamEnd, StorageTypeOK, U5CTypeOK, GasketTypeOK, MonitorTypeOK
  <2>3. CASE MonitorDbError
    BY <1>0, <2>3, FaultType
    DEF MonitorDbError, NoRows, StorageTypeOK, U5CTypeOK, GasketTypeOK, MonitorTypeOK
  <2>4. QED
    BY <1>0, <2>1, <2>2, <2>3 DEF MonitorFault
<1>2. IngestTypeOK'
  BY <1>0, IngestResetType DEF IngestTypeOK, ingestVars
<1>3. delivered' \subseteq Block /\ applied' \subseteq Block /\ skipped' \subseteq Block
  <2>1. event.block \in Block /\ event'.block \in Block
    BY <1>1 DEF MonitorTypeOK, Events
  <2>2. QED
    BY <2>1, BlocksType DEF MonitorActs
<1>4. QED
  BY <1>1, <1>2, <1>3

(* What schedule hands to execute: copies of distinct pending rows. *)
LEMMA ScheduledUnit ==
    ASSUME TypeOK, NextUnit
    PROVE  /\ unit' \in Seq(Copy)
           /\ ipc' = IF Len(unit') > 0 THEN "check" ELSE "schedule"
           /\ Len(unit') = 0 => unit' = <<>>
           /\ \A i \in DOMAIN unit' :
                /\ table[unit'[i].id].status = "pending"
                /\ unit'[i].slot = table[unit'[i].id].slot
           /\ \A i, j \in DOMAIN unit' : i # j => unit'[i].id # unit'[j].id
<1>1. PICK cap \in 1..Cap : \E limit \in QueueLimits(counts, cap) :
         \E ids \in NextTxs("pending", limit) :
           /\ unit' = [i \in 1..Len(ids) |->
                          [id |-> ids[i], slot |-> table[ids[i]].slot]]
           /\ ipc' = IF ids # <<>> THEN "check" ELSE "schedule"
  BY DEF NextUnit
<1>2. PICK limit \in QueueLimits(counts, cap) :
         \E ids \in NextTxs("pending", limit) :
           /\ unit' = [i \in 1..Len(ids) |->
                          [id |-> ids[i], slot |-> table[ids[i]].slot]]
           /\ ipc' = IF ids # <<>> THEN "check" ELSE "schedule"
  BY <1>1
<1>3. PICK ids \in NextTxs("pending", limit) :
           /\ unit' = [i \in 1..Len(ids) |->
                          [id |-> ids[i], slot |-> table[ids[i]].slot]]
           /\ ipc' = IF ids # <<>> THEN "check" ELSE "schedule"
  BY <1>2
<1>4. /\ ids \in Seq(Find("pending"))
      /\ \A i, j \in DOMAIN ids : i # j => ids[i] # ids[j]
  BY NextTxsType
<1>5. Len(ids) \in Nat /\ (Len(ids) > 0 <=> ids # <<>>) /\ DOMAIN ids = 1..Len(ids)
  BY <1>4
<1>6. \A i \in 1..Len(ids) : ids[i] \in Tx /\ table[ids[i]].status = "pending"
  BY <1>4, <1>5 DEF Find
<1>7. unit' \in Seq(Copy) /\ Len(unit') = Len(ids) /\ DOMAIN unit' = 1..Len(ids)
  BY <1>3, <1>5, <1>6 DEF TypeOK, StorageTypeOK, Row, Copy
<1>8. Len(unit') = 0 => unit' = <<>>
  BY <1>7
<1>9. QED
  BY <1>3, <1>4, <1>5, <1>6, <1>7, <1>8

(* The counts that schedule reads. *)
LEMMA CountsType ==
    ASSUME NEW s
    PROVE  DOMAIN State(s) \subseteq Queue /\ \A q \in DOMAIN State(s) : State(s)[q] \in Nat
<1>1. \A q : Cardinality(InQueue(s, q)) \in Nat
  BY FS_Subset, FS_CardinalityType, StorageAssumption DEF InQueue, Find
<1>2. QED
  BY <1>1, StorageAssumption DEF State, Find

LEMMA TypeIngest ==
    ASSUME TypeOK, IngestActs(IngestStep)
    PROVE  TypeOK'
<1> USE DEF TypeOK
<1>0. /\ cursor' = cursor /\ U5CTypeOK' /\ up' = up /\ MonitorTypeOK'
      /\ delivered' \subseteq Block /\ applied' \subseteq Block /\ skipped' \subseteq Block
      /\ IngestStep
  BY DEF IngestActs, chainVars, adapterVars, monitorVars, historyVars, U5CTypeOK, MonitorTypeOK
<1>1. ASSUME ipc \notin {"schedule", "next"} PROVE pos \in DOMAIN unit /\ unit[pos] \in Copy /\ CurrentId \in Tx
  <2>1. pos \in Nat \ {0} /\ unit \in Seq(Copy) /\ ~ (pos > Len(unit))
    BY <1>1 DEF IngestTypeOK
  <2>2. pos \in DOMAIN unit
    BY <2>1
  <2>3. unit[pos] \in Copy
    BY <2>1, <2>2
  <2>4. QED
    BY <2>2, <2>3 DEF Copy, CurrentId
<1>2. StorageTypeOK' /\ GasketTypeOK' /\ IngestTypeOK'
  <2>0. CASE CountPending
    BY <1>0, <2>0, CountsType
    DEF CountPending, NoFault, StorageTypeOK, GasketTypeOK, IngestTypeOK
  <2>1. CASE NextUnit
    <3>1. /\ unit' \in Seq(Copy)
          /\ ipc' = IF Len(unit') > 0 THEN "check" ELSE "schedule"
      BY <2>1, ScheduledUnit
    <3>2. QED
      BY <1>0, <2>1, <3>1
      DEF NextUnit, NoCounts, NoFault, StorageTypeOK, GasketTypeOK, IngestTypeOK
  <2>2. CASE CheckRetry
    BY <1>0, <2>2, RunAgainType DEF CheckRetry, NoFault, StorageTypeOK, GasketTypeOK
  <2>3. CASE CheckTx
    BY <1>0, <2>3 DEF CheckTx, NoFault, StorageTypeOK, GasketTypeOK, IngestTypeOK
  <2>4. CASE FailTx
    <3>1. table' \in [Tx -> Row]
      BY <1>1, <2>4, UpdateType DEF FailTx, StorageTypeOK, Status, Copy
    <3>2. IngestTypeOK'
      BY <2>4, NextTxType DEF FailTx, IngestTypeOK
    <3>3. QED
      BY <1>0, <2>4, <3>1, <3>2 DEF FailTx, NoFault, StorageTypeOK, GasketTypeOK
  <2>5. CASE SendTx
    BY <1>0, <1>1, <2>5 DEF SendTx, NoFault, StorageTypeOK, GasketTypeOK, IngestTypeOK
  <2>6. CASE FetchTip
    <3>1. Tip \in Block
      BY DEF Tip, U5CTypeOK
    <3>2. QED
      BY <1>0, <2>6, <3>1
      DEF FetchTip, NoFault, StorageTypeOK, GasketTypeOK, IngestTypeOK, Block, Slot
  <2>7. CASE MarkInFlight
    <3>1. table' \in [Tx -> Row]
      BY <1>1, <2>7, UpdateType DEF MarkInFlight, StorageTypeOK, IngestTypeOK, Status
    <3>2. IngestTypeOK'
      BY <2>7, NextTxType DEF MarkInFlight, IngestTypeOK
    <3>3. QED
      BY <1>0, <2>7, <3>1, <3>2 DEF MarkInFlight, NoFault, StorageTypeOK, GasketTypeOK
  <2>8. QED
    BY <1>0, <2>0, <2>1, <2>2, <2>3, <2>4, <2>5, <2>6, <2>7 DEF IngestStep
<1>3. QED
  BY <1>0, <1>2

LEMMA TypeIngestFault ==
    ASSUME TypeOK, IngestActs(IngestFault)
    PROVE  TypeOK'
<1> USE DEF TypeOK
<1>0. /\ cursor' = cursor /\ U5CTypeOK' /\ up' = up /\ MonitorTypeOK'
      /\ delivered' \subseteq Block /\ applied' \subseteq Block /\ skipped' \subseteq Block
      /\ IngestFault
  BY DEF IngestActs, chainVars, adapterVars, monitorVars, historyVars, U5CTypeOK, MonitorTypeOK
<1>1. /\ table' = table /\ sent' = sent /\ faults' \in Nat
      /\ ipc \notin {"schedule", "next"} \/ ScheduleDbError
  BY <1>0, FaultType
  DEF IngestFault, ScheduleDbError, SignError, CheckU5cError, SendNoPeer, FetchTipError, IngestDbError
<1>2. IngestTypeOK'
  <2>1. CASE SignError \/ FetchTipError \/ IngestDbError
    BY <1>1, <2>1, RunAgainType DEF SignError, FetchTipError, IngestDbError
  <2>2. CASE CheckU5cError
    BY <1>1, <2>2 DEF CheckU5cError, IngestTypeOK
  <2>3. CASE SendNoPeer
    BY <1>1, <2>3, NextTxType DEF SendNoPeer, IngestTypeOK
  <2>4. CASE ScheduleDbError
    BY <1>1, <2>4, IngestResetType DEF ScheduleDbError, IngestTypeOK
  <2>5. QED
    BY <1>0, <2>1, <2>2, <2>3, <2>4 DEF IngestFault
<1>3. QED
  BY <1>0, <1>1, <1>2 DEF StorageTypeOK, GasketTypeOK

LEMMA TypeProcess ==
    ASSUME TypeOK, Start \/ Crash \/ Submit
    PROVE  TypeOK'
<1> USE DEF TypeOK
<1>1. CASE Start
  <2>1. view' \in Seq(Block)
    BY <1>1, OpenStreamType DEF Start
  <2>2. applied' \subseteq Block /\ skipped' \subseteq Block
    BY <1>1, BlocksType DEF Start
  <2>3. QED
    BY <1>1, <2>1, <2>2
    DEF Start, CurrentCursor, storageVars, chainVars, monitorVars, ingestVars,
        StorageTypeOK, U5CTypeOK, GasketTypeOK, MonitorTypeOK, IngestTypeOK
<1>2. CASE Crash
  <2>1. MonitorTypeOK' /\ faults' \in Nat
    BY <1>2, MonitorResetType, FaultType DEF Crash
  <2>2. IngestTypeOK'
    BY <1>2, IngestResetType DEF Crash, IngestTypeOK
  <2>3. QED
    BY <1>2, <2>1, <2>2
    DEF Crash, storageVars, chainVars, adapterVars, historyVars,
        StorageTypeOK, U5CTypeOK, GasketTypeOK
<1>3. CASE Submit
  <2>1. PICK n \in 1..MaxBatch :
           \E ts \in [1..n -> Tx], at \in [1..n -> Stamp] : Create(ts, at)
    BY <1>3 DEF Submit
  <2>2. PICK ts \in [1..n -> Tx], at \in [1..n -> Stamp] : Create(ts, at)
    BY <2>1
  <2>3. Stamp \subseteq Nat
    BY DEF Stamp
  <2>4. \A t \in Tx : (\E i \in DOMAIN ts : ts[i] = t) => Position(ts, t) \in 1..n
    BY DEF Position
  <2>5. table' \in [Tx -> Row]
    BY <2>2, <2>3, <2>4 DEF Create, StorageTypeOK, Row, Status, Slot
  <2>6. QED
    BY <1>3, <2>5
    DEF Submit, chainVars, adapterVars, monitorVars, ingestVars, historyVars,
        StorageTypeOK, U5CTypeOK, GasketTypeOK, MonitorTypeOK, IngestTypeOK
<1>4. QED
  BY <1>1, <1>2, <1>3

LEMMA TypeChain ==
    ASSUME TypeOK, ChainActs
    PROVE  TypeOK'
<1> USE DEF TypeOK
<1>1. chain' \in Seq(Block) \ {<<>>} /\ forks' \in Nat
  <2>1. ASSUME NEW n \in 1..MaxSlot, NEW ts \in SUBSET sent, Forge(n, ts)
        PROVE  chain' \in Seq(Block) \ {<<>>} /\ forks' \in Nat
    <3>1. [slot |-> n, fork |-> forks, txs |-> ts] \in Block
      BY U5CAssumption DEF Block, U5CTypeOK, IngestTypeOK
    <3>2. QED
      BY <2>1, <3>1 DEF Forge, U5CTypeOK
  <2>2. ASSUME NEW n \in 1..MaxSlot, SwitchFork(n)
        PROVE  chain' \in Seq(Block) \ {<<>>} /\ forks' \in Nat
    BY <2>2 DEF SwitchFork, U5CTypeOK
  <2>3. QED
    BY <2>1, <2>2 DEF ChainActs
<1>2. QED
  BY <1>1
  DEF ChainActs, storageVars, adapterVars, monitorVars, ingestVars, historyVars,
      StorageTypeOK, U5CTypeOK, GasketTypeOK, MonitorTypeOK, IngestTypeOK

LEMMA TypeStep == TypeOK /\ [Next]_vars => TypeOK'
<1> SUFFICES ASSUME TypeOK, [Next]_vars PROVE TypeOK'
  OBVIOUS
<1>1. CASE Next
  BY <1>1, TypeProcess, TypeMonitor, TypeMonitorFault, TypeIngest, TypeIngestFault, TypeChain
  DEF Next
<1>2. CASE UNCHANGED vars
  BY <1>2 DEF vars, TypeOK, StorageTypeOK, U5CTypeOK, GasketTypeOK, MonitorTypeOK, IngestTypeOK
<1>3. QED
  BY <1>1, <1>2

(* Every value that the database, the adapter and the two stages hold has   *)
(* its type, and execute of ingest never runs past the end of its unit.    *)
THEOREM PipelineTypeCorrect == Spec => []TypeOK
<1>1. Init => TypeOK
  BY TypeInit
<1>2. TypeOK /\ [Next]_vars => TypeOK'
  BY TypeStep
<1>3. QED
  BY <1>1, <1>2, PTL DEF Spec

-----------------------------------------------------------------------------
(* Sent before in flight, and the slot column: safety with every fault.    *)

(* Inductive strengthening of SentBeforeInFlight: the monitor fetches only *)
(* rows of transactions that were sent, and ingest has sent the            *)
(* transaction that it is about to mark.                                   *)
SendInv ==
    /\ SentBeforeInFlight
    /\ DOMAIN snap \subseteq sent
    /\ ipc \in {"tip", "mark"} => CurrentId \in sent

(* Inductive strengthening of SlotDiscipline: the copies of ingest carry no *)
(* slot, the tip is known when it is recorded, and the rows fetched for a  *)
(* rollback lie above its slot.                                            *)
SlotInv ==
    /\ SlotDiscipline
    /\ \A i \in DOMAIN unit : unit[i].slot = NoSlot
    /\ ipc = "mark" => tip # NoSlot
    /\ mpc = "rollback" => \A t \in DOMAIN snap : snap[t].slot > event.block.slot

Inv == TypeOK /\ SendInv /\ SlotInv

(* What a batch update does to each row. *)
LEMMA UpdateBatchRows ==
    ASSUME NEW upd, UpdateBatch(upd), NEW t \in Tx
    PROVE  /\ t \in DOMAIN upd => /\ table'[t].status = upd[t].status
                                  /\ table'[t].slot = upd[t].slot
           /\ t \notin DOMAIN upd => table'[t] = table[t]
  BY DEF UpdateBatch

LEMMA UpdateRows ==
    ASSUME NEW id, NEW s, NEW n, Update(id, s, n), NEW t \in Tx
    PROVE  /\ t = id => table'[t].status = s /\ table'[t].slot = n
           /\ t # id => table'[t] = table[t]
  BY DEF Update, UpdateBatch

LEMMA InvInit == Init => Inv
<1> SUFFICES ASSUME Init PROVE SendInv /\ SlotInv
  BY TypeInit DEF Inv
<1>1. SendInv
  BY DEF Init, StorageInit, MonitorInit, IngestInit, NoRows, SendInv, SentBeforeInFlight
<1>2. SlotInv
  BY DEF Init, StorageInit, MonitorInit, IngestInit, SlotInv, SlotDiscipline
<1>3. QED
  BY <1>1, <1>2

LEMMA InvMonitor ==
    ASSUME Inv, MonitorActs(MonitorStep)
    PROVE  SendInv' /\ SlotInv'
<1> USE DEF Inv, TypeOK
<1>0. MonitorStep /\ sent' = sent /\ (UNCHANGED ingestVars \/ IngestReset)
  BY DEF MonitorActs
<1>1. event.block.slot \in Nat /\ NoSlot \notin Nat
  BY DEF MonitorTypeOK, Events, Block, NoSlot
<1>2. /\ ipc' \in {"tip", "mark"} => CurrentId' \in sent'
      /\ \A i \in DOMAIN unit' : unit'[i].slot = NoSlot
      /\ ipc' = "mark" => tip' # NoSlot
  BY <1>0 DEF ingestVars, IngestReset, SendInv, SlotInv, CurrentId
<1>3. SentBeforeInFlight' /\ DOMAIN snap' \subseteq sent' /\ SlotDiscipline'
      /\ (mpc' = "rollback" => \A t \in DOMAIN snap' : snap'[t].slot > event'.block.slot)
  <2>1. CASE ScheduleForward \/ ScheduleRollback
    BY <1>0, <2>1
    DEF ScheduleForward, ScheduleRollback, SendInv, SlotInv, SentBeforeInFlight, SlotDiscipline
  <2>2. CASE FindRows
    <3>1. table' = table /\ event' = event
      BY <2>2 DEF FindRows
    <3>2. SentBeforeInFlight' /\ SlotDiscipline'
      BY <1>0, <3>1 DEF SendInv, SlotInv, SentBeforeInFlight, SlotDiscipline
    <3>3. DOMAIN snap' \subseteq sent'
      BY <1>0, <2>2 DEF FindRows, Rows, Find, FindToRollback, SendInv, SentBeforeInFlight
    <3>4. mpc' = "rollback" => \A t \in DOMAIN snap' : snap'[t].slot > event'.block.slot
      BY <2>2, <3>1 DEF FindRows, Rows, FindToRollback
    <3>5. QED
      BY <3>2, <3>3, <3>4
  <2>3. CASE ConfirmTxs
    <3> DEFINE upd == [t \in TxsConfirm |-> [status |-> "confirmed", slot |-> event.block.slot]]
    <3>1. UpdateBatch(upd) /\ snap' = snap /\ mpc' = "retry" /\ TxsConfirm \subseteq DOMAIN snap
      BY <2>3 DEF ConfirmTxs, TxsConfirm
    <3>2. SentBeforeInFlight'
      BY <1>0, <3>1, UpdateBatchRows DEF SendInv, SentBeforeInFlight
    <3>3. SlotDiscipline'
      BY <1>1, <3>1, UpdateBatchRows DEF SlotInv, SlotDiscipline
    <3>4. QED
      BY <1>0, <3>1, <3>2, <3>3 DEF SendInv
  <2>4. CASE RetryTxs
    <3> DEFINE upd == [t \in TxsRetry |-> [status |-> "pending", slot |-> NoSlot]]
    <3>1. UpdateBatch(upd) /\ DOMAIN snap' = {} /\ mpc' = "cursor"
      BY <2>4 DEF RetryTxs, NoRows
    <3>2. SentBeforeInFlight'
      BY <1>0, <3>1, UpdateBatchRows DEF SendInv, SentBeforeInFlight
    <3>3. SlotDiscipline'
      BY <3>1, UpdateBatchRows DEF SlotInv, SlotDiscipline
    <3>4. QED
      BY <3>1, <3>2, <3>3
  <2>5. CASE RollbackTxs
    <3> DEFINE upd == [t \in DOMAIN snap |->
                         IF snap[t].slot > event.block.slot
                         THEN [status |-> "inflight", slot |-> NoSlot]
                         ELSE [status |-> snap[t].status, slot |-> event.block.slot]]
    <3>1. UpdateBatch(upd) /\ DOMAIN snap' = {} /\ mpc' = "cursor"
      BY <2>5 DEF RollbackTxs, NoRows
    <3>2. \A t \in DOMAIN upd : upd[t].status = "inflight"
      BY <2>5 DEF RollbackTxs, SlotInv
    <3>3. DOMAIN upd \subseteq sent
      BY DEF SendInv
    <3> HIDE DEF upd
    <3>4. SentBeforeInFlight'
      BY <1>0, <3>1, <3>3, UpdateBatchRows DEF SendInv, SentBeforeInFlight
    <3>5. SlotDiscipline'
      BY <3>1, <3>2, UpdateBatchRows DEF SlotInv, SlotDiscipline
    <3>6. QED
      BY <3>1, <3>4, <3>5
  <2>6. CASE StoreCursor \/ RetryPanic
    BY <1>0, <2>6
    DEF StoreCursor, RetryPanic, MonitorReset, NoRows, SendInv, SlotInv,
        SentBeforeInFlight, SlotDiscipline
  <2>7. QED
    BY <1>0, <2>1, <2>2, <2>3, <2>4, <2>5, <2>6 DEF MonitorStep
<1>4. QED
  BY <1>2, <1>3 DEF SendInv, SlotInv

(* After a round of the loop the unit is the same or gone. *)
LEMMA NextTxUnit ==
    ASSUME NextTx
    PROVE  /\ ipc' \in {"check", "schedule"}
           /\ (unit' = unit /\ pos' = pos + 1) \/ (unit' = <<>> /\ pos' = 1)
<1>1. CASE pos < Len(unit)
  BY <1>1 DEF NextTx
<1>2. CASE ~ (pos < Len(unit))
  BY <1>2 DEF NextTx, IngestReset
<1>3. QED
  BY <1>1, <1>2

LEMMA InvIngest ==
    ASSUME Inv, IngestActs(IngestStep)
    PROVE  SendInv' /\ SlotInv'
<1> USE DEF Inv, TypeOK
<1>0. /\ IngestStep /\ snap' = snap /\ mpc' = mpc /\ event' = event
      /\ mpc' = "rollback" => \A t \in DOMAIN snap' : snap'[t].slot > event'.block.slot
  BY DEF IngestActs, monitorVars, SlotInv
<1>1. ASSUME ipc \notin {"schedule", "next"} PROVE pos \in DOMAIN unit
  <2>1. pos \in Nat \ {0} /\ unit \in Seq(Copy) /\ ~ (pos > Len(unit))
    BY <1>1 DEF IngestTypeOK
  <2>2. QED
    BY <2>1
<1>a. CASE CountPending
  BY <1>0, <1>a
  DEF CountPending, SendInv, SlotInv, SentBeforeInFlight, SlotDiscipline
<1>2. CASE NextUnit
  <2>1. table' = table /\ sent' = sent /\ ipc' \in {"check", "schedule"}
    BY <1>2 DEF NextUnit
  <2>2. \A i \in DOMAIN unit' : unit'[i].slot = NoSlot
    <3> SUFFICES ASSUME NEW i \in DOMAIN unit' PROVE unit'[i].slot = NoSlot
      OBVIOUS
    <3>1. /\ unit' \in Seq(Copy) /\ table[unit'[i].id].status = "pending"
          /\ unit'[i].slot = table[unit'[i].id].slot
      BY <1>2, ScheduledUnit
    <3>2. unit'[i].id \in Tx
      <4>1. unit'[i] \in Copy
        BY <3>1
      <4>2. QED
        BY <4>1 DEF Copy
    <3>3. QED
      BY <3>1, <3>2 DEF SlotInv, SlotDiscipline
  <2>3. QED
    BY <1>0, <2>1, <2>2 DEF SendInv, SlotInv, SentBeforeInFlight, SlotDiscipline
<1>3. CASE CheckRetry \/ CheckTx
  BY <1>0, <1>3
  DEF CheckRetry, CheckTx, RunAgain, SendInv, SlotInv, SentBeforeInFlight, SlotDiscipline
<1>4. CASE FailTx
  <2>1. /\ Update(CurrentId, "failed", NoSlot) /\ sent' = sent
        /\ ipc' \in {"check", "schedule"} /\ (unit' = unit \/ unit' = <<>>)
    BY <1>1, <1>4, NextTxUnit DEF FailTx, SlotInv
  <2>2. SentBeforeInFlight'
    BY <2>1, UpdateRows DEF SendInv, SentBeforeInFlight
  <2>3. SlotDiscipline'
    BY <2>1, UpdateRows DEF SlotInv, SlotDiscipline
  <2>4. QED
    BY <1>0, <2>1, <2>2, <2>3 DEF SendInv, SlotInv
<1>5. CASE SendTx
  BY <1>0, <1>5
  DEF SendTx, SendInv, SlotInv, SentBeforeInFlight, SlotDiscipline, CurrentId
<1>6. CASE FetchTip
  <2>1. Tip.slot \in Nat
    <3>1. Tip \in Block
      BY DEF Tip, U5CTypeOK
    <3>2. QED
      BY <3>1 DEF Block
  <2>2. QED
    BY <1>0, <1>6, <2>1
    DEF FetchTip, SendInv, SlotInv, SentBeforeInFlight, SlotDiscipline, CurrentId, NoSlot
<1>7. CASE MarkInFlight
  <2>1. /\ Update(CurrentId, "inflight", tip) /\ sent' = sent
        /\ ipc' \in {"check", "schedule"} /\ (unit' = unit \/ unit' = <<>>)
    BY <1>7, NextTxUnit DEF MarkInFlight
  <2>2. CurrentId \in sent
    BY <1>7 DEF MarkInFlight, SendInv
  <2>3. SentBeforeInFlight'
    BY <2>1, <2>2, UpdateRows DEF SendInv, SentBeforeInFlight
  <2>4. SlotDiscipline'
    BY <2>1, UpdateRows DEF SlotInv, SlotDiscipline
  <2>5. QED
    BY <1>0, <2>1, <2>3, <2>4 DEF SendInv, SlotInv
<1>8. QED
  BY <1>0, <1>a, <1>2, <1>3, <1>4, <1>5, <1>6, <1>7 DEF IngestStep

LEMMA InvFault ==
    ASSUME Inv, MonitorActs(MonitorFault) \/ IngestActs(IngestFault)
    PROVE  SendInv' /\ SlotInv'
<1> USE DEF Inv
<1>1. CASE MonitorActs(MonitorFault)
  <2>1. /\ sent' = sent /\ (UNCHANGED ingestVars \/ IngestReset)
        /\ table' = table
        /\ mpc' # "rollback" /\ (snap' = snap \/ snap' = NoRows)
    BY <1>1
    DEF MonitorActs, MonitorFault, StreamRestart, StreamEnd, MonitorDbError, MonitorReset
  <2>2. QED
    BY <2>1
    DEF SendInv, SlotInv, SentBeforeInFlight, SlotDiscipline, ingestVars, IngestReset,
        CurrentId, NoRows
<1>2. CASE IngestActs(IngestFault)
  <2>1. /\ table' = table /\ sent' = sent /\ snap' = snap /\ mpc' = mpc /\ event' = event
        /\ ipc' \in {"check", "schedule", "fail"} /\ (unit' = unit \/ unit' = <<>>)
    BY <1>2, NextTxUnit
    DEF IngestActs, monitorVars, IngestFault, ScheduleDbError, SignError, CheckU5cError,
        SendNoPeer, FetchTipError, IngestDbError, RunAgain, IngestReset
  <2>2. QED
    BY <2>1 DEF SendInv, SlotInv, SentBeforeInFlight, SlotDiscipline
<1>3. QED
  BY <1>1, <1>2

LEMMA InvProcess ==
    ASSUME Inv, Start \/ Crash \/ Submit \/ ChainActs \/ UNCHANGED vars
    PROVE  SendInv' /\ SlotInv'
<1> USE DEF Inv
<1>1. CASE Start \/ ChainActs \/ UNCHANGED vars
  <2>1. UNCHANGED <<table, monitorVars, ingestVars, sent>>
    BY <1>1 DEF Start, ChainActs, vars, storageVars, monitorVars, ingestVars
  <2>2. QED
    BY <2>1
    DEF monitorVars, ingestVars, SendInv, SlotInv, SentBeforeInFlight, SlotDiscipline, CurrentId
<1>2. CASE Crash
  BY <1>2
  DEF Crash, storageVars, MonitorReset, IngestReset, NoRows,
      SendInv, SlotInv, SentBeforeInFlight, SlotDiscipline
<1>3. CASE Submit
  <2>1. /\ UNCHANGED <<monitorVars, ingestVars, sent>>
        /\ \A t \in Tx : \/ table'[t] = table[t]
                         \/ table'[t].status = "pending" /\ table'[t].slot = NoSlot
    BY <1>3 DEF Submit, Create
  <2>2. SentBeforeInFlight' /\ SlotDiscipline'
    BY <2>1 DEF SendInv, SlotInv, SentBeforeInFlight, SlotDiscipline
  <2>3. QED
    BY <2>1, <2>2 DEF monitorVars, ingestVars, SendInv, SlotInv, CurrentId
<1>4. QED
  BY <1>1, <1>2, <1>3

LEMMA InvStep == Inv /\ [Next]_vars => Inv'
<1> SUFFICES ASSUME Inv, [Next]_vars PROVE Inv'
  OBVIOUS
<1>1. TypeOK'
  BY TypeStep DEF Inv
<1>2. SendInv' /\ SlotInv'
  BY InvProcess, InvMonitor, InvIngest, InvFault DEF Next
<1>3. QED
  BY <1>1, <1>2 DEF Inv

LEMMA InvHolds == Spec => []Inv
<1>1. Init => Inv
  BY InvInit
<1>2. Inv /\ [Next]_vars => Inv'
  BY InvStep
<1>3. QED
  BY <1>1, <1>2, PTL DEF Spec

(* Whatever fails and however the stages interleave, a transaction is in   *)
(* flight or confirmed only after ingest handed it to the peers.           *)
THEOREM SentBeforeInFlightHolds == Spec => []SentBeforeInFlight
<1>1. Inv => SentBeforeInFlight
  BY DEF Inv, SendInv
<1>2. QED
  BY <1>1, InvHolds, PTL

(* Whatever fails and however the stages interleave, confirmed rows carry  *)
(* a slot and pending and failed rows carry none.                          *)
THEOREM SlotDisciplineHolds == Spec => []SlotDiscipline
<1>1. Inv => SlotDiscipline
  BY DEF Inv, SlotInv
<1>2. QED
  BY <1>1, InvHolds, PTL

=============================================================================
