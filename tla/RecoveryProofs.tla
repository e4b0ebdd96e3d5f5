--------------------------- MODULE RecoveryProofs ---------------------------
(***************************************************************************)
(* What the monitor promises across crashes, retries and forks: a          *)
(* confirmation names a block that was delivered and does not move, no     *)
(* block is skipped, and the unwrap of the retry filter needs a rollback.  *)
(***************************************************************************)
EXTENDS PipelineProofs

-----------------------------------------------------------------------------
(* Confirmations. *)

(* What execute of the monitor works on at each of its control points. *)
EventInv ==
    /\ mpc \in {"schedule", "idle"} => event = NoEvent
    /\ mpc \notin {"schedule", "idle"} => event.kind \in {"forward", "rollback"}
    /\ ~ up => mpc = "schedule"
    /\ event.kind = "forward" => event.block \in delivered
    /\ mpc \in {"confirm", "retry"} => event.kind = "forward"
    /\ mpc = "rollback" => event.kind = "rollback"

(* Nobody but the monitor confirms, so what it found in flight is not yet  *)
(* confirmed when it writes the batch.                                     *)
ConfirmInv ==
    /\ ConfirmedInBlock
    /\ mpc = "confirm" => \A t \in DOMAIN snap : table[t].status # "confirmed"

(* The steps that are not the monitor's. *)
Others ==
    \/ Start \/ Crash \/ Submit \/ ChainActs
    \/ IngestActs(IngestStep) \/ IngestActs(IngestFault) \/ UNCHANGED vars

(* They leave the monitor alone or reset it with the process. *)
LEMMA OthersFrame ==
    ASSUME Others
    PROVE  /\ delivered' = delivered
           /\ \/ UNCHANGED monitorVars /\ (up => up')
              \/ MonitorReset
<1>1. CASE Start
  BY <1>1 DEF Start, GasketTypeOK
<1>2. CASE Crash
  BY <1>2 DEF Crash, historyVars
<1>3. CASE Submit \/ ChainActs
  BY <1>3 DEF Submit, ChainActs, historyVars
<1>4. CASE IngestActs(IngestStep) \/ IngestActs(IngestFault)
  BY <1>4 DEF IngestActs, historyVars
<1>5. CASE UNCHANGED vars
  BY <1>5 DEF vars, monitorVars
<1> QED
  BY <1>1, <1>2, <1>3, <1>4, <1>5 DEF Others

(* They confirm nothing. *)
LEMMA OthersRows ==
    ASSUME Others, NEW t \in Tx
    PROVE  table'[t] = table[t] \/ table'[t].status # "confirmed"
<1>1. CASE Start \/ Crash \/ ChainActs \/ UNCHANGED vars
  BY <1>1 DEF Start, Crash, ChainActs, vars, storageVars
<1>2. CASE Submit
  BY <1>2 DEF Submit, Create
<1>3. CASE IngestActs(IngestStep)
  <2>1. \/ table' = table
        \/ \E id, n : Update(id, "failed", n) \/ Update(id, "inflight", n)
    BY <1>3 DEF IngestActs, IngestStep, CountPending, NextUnit, CheckRetry, CheckTx, FailTx, SendTx,
                FetchTip, MarkInFlight
  <2> QED
    BY <2>1, UpdateRows
<1>4. CASE IngestActs(IngestFault)
  BY <1>4 DEF IngestActs, IngestFault, SignError, CheckU5cError, SendNoPeer,
              FetchTipError, IngestDbError, ScheduleDbError
<1> QED
  BY <1>1, <1>2, <1>3, <1>4 DEF Others

(* The control points of the monitor and its event move together. *)
LEMMA EventStep ==
    ASSUME EventInv, [Next]_vars
    PROVE  EventInv'
<1>1. CASE Others
  <2>1. CASE MonitorReset
    BY <2>1 DEF EventInv, MonitorReset, NoEvent
  <2>2. CASE UNCHANGED monitorVars /\ (up => up')
    BY <1>1, <2>2, OthersFrame DEF EventInv, monitorVars
  <2> QED
    BY <1>1, <2>1, <2>2, OthersFrame
<1>2. CASE MonitorActs(MonitorStep)
  <2>0. up /\ MonitorStep
    BY <1>2 DEF MonitorActs
  <2>1. delivered' = IF mpc = "schedule" /\ event'.kind = "forward"
                     THEN delivered \cup {event'.block} ELSE delivered
    BY <1>2 DEF MonitorActs
  <2>2. CASE ScheduleForward \/ ScheduleRollback
    <3>1. /\ mpc = "schedule" /\ mpc' = "find" /\ up' = up
          /\ event'.kind \in {"forward", "rollback"}
      BY <2>2 DEF ScheduleForward, ScheduleRollback
    <3>2. event'.kind = "forward" => event'.block \in delivered'
      BY <2>1, <3>1
    <3> QED
      BY <2>0, <3>1, <3>2 DEF EventInv
  <2>3. CASE FindRows
    <3>1. /\ mpc = "find" /\ event' = event /\ up' = up
          /\ mpc' = IF event.kind = "forward" THEN "confirm" ELSE "rollback"
      BY <2>3 DEF FindRows
    <3>2. delivered' = delivered
      BY <2>1, <3>1
    <3>3. event.kind \in {"forward", "rollback"}
      BY <3>1 DEF EventInv
    <3> QED
      BY <2>0, <3>1, <3>2, <3>3 DEF EventInv
  <2>4. CASE ConfirmTxs \/ RetryTxs \/ RollbackTxs
    <3>1. /\ mpc \in {"confirm", "retry", "rollback"} /\ event' = event /\ up' = up
          /\ mpc' = IF mpc = "confirm" THEN "retry" ELSE "cursor"
      BY <2>4 DEF ConfirmTxs, RetryTxs, RollbackTxs
    <3>2. delivered' = delivered
      BY <2>1, <3>1
    <3> QED
      BY <2>0, <3>1, <3>2 DEF EventInv
  <2>5. CASE StoreCursor \/ RetryPanic
    <3>1. MonitorReset
      BY <2>5 DEF StoreCursor, RetryPanic
    <3> QED
      BY <3>1 DEF MonitorReset, NoEvent, EventInv
  <2> QED
    BY <2>0, <2>2, <2>3, <2>4, <2>5 DEF MonitorStep
<1>3. CASE MonitorActs(MonitorFault)
  <2>0. up /\ MonitorFault
    BY <1>3 DEF MonitorActs
  <2>1. delivered' = IF mpc = "schedule" /\ event'.kind = "forward"
                     THEN delivered \cup {event'.block} ELSE delivered
    BY <1>3 DEF MonitorActs
  <2>2. CASE StreamRestart
    BY <2>2 DEF StreamRestart, MonitorReset, NoEvent, EventInv
  <2>3. CASE StreamEnd
    <3>1. mpc = "schedule" /\ mpc' = "idle" /\ event' = event /\ up' = up
      BY <2>3 DEF StreamEnd
    <3>2. event.kind = "none"
      BY <3>1 DEF EventInv, NoEvent
    <3> QED
      BY <2>0, <2>1, <3>1, <3>2 DEF EventInv
  <2>4. CASE MonitorDbError
    <3>1. /\ mpc \notin {"schedule", "idle"} /\ mpc' = "find"
          /\ event' = event /\ up' = up
      BY <2>4 DEF MonitorDbError
    <3>2. delivered' = delivered
      BY <2>1, <3>1
    <3> QED
      BY <2>0, <3>1, <3>2 DEF EventInv
  <2> QED
    BY <2>0, <2>2, <2>3, <2>4 DEF MonitorFault
<1> QED
  BY <1>1, <1>2, <1>3 DEF Next, Others

(* A confirmed row names a delivered block. *)
LEMMA ConfirmStep ==
    ASSUME Inv, EventInv, ConfirmInv, [Next]_vars
    PROVE  /\ ConfirmInv'
           /\ \A t \in Tx : table[t].status = "confirmed" /\ table'[t].status = "confirmed"
                               => table'[t].slot = table[t].slot
<1>a. delivered \subseteq delivered'
  BY OthersFrame DEF Next, Others, MonitorActs
<1>b. ASSUME \A t \in Tx : table'[t] = table[t] \/ table'[t].status # "confirmed"
      PROVE  /\ ConfirmedInBlock'
             /\ \A t \in Tx : table[t].status = "confirmed" /\ table'[t].status = "confirmed"
                                 => table'[t].slot = table[t].slot
  BY <1>a, <1>b DEF ConfirmInv, ConfirmedInBlock
<1>1. CASE Others
  <2>1. \A t \in Tx : table'[t] = table[t] \/ table'[t].status # "confirmed"
    BY <1>1, OthersRows
  <2>2. mpc' = "confirm" => \A t \in DOMAIN snap' : table'[t].status # "confirmed"
    <3>1. DOMAIN snap \subseteq Tx
      BY DEF Inv, TypeOK, MonitorTypeOK
    <3> QED
      BY <1>1, <2>1, <3>1, OthersFrame DEF MonitorReset, monitorVars, ConfirmInv
  <2> QED
    BY <2>1, <2>2, <1>b DEF ConfirmInv
<1>2. CASE MonitorActs(MonitorStep)
  <2>0. up /\ MonitorStep
    BY <1>2 DEF MonitorActs
  <2>1. CASE ConfirmTxs
    <3> DEFINE upd == [t \in TxsConfirm |-> [status |-> "confirmed", slot |-> event.block.slot]]
    <3>1. UpdateBatch(upd) /\ mpc' # "confirm" /\ event.block \in delivered /\ mpc = "confirm"
      BY <2>1 DEF ConfirmTxs, EventInv
    <3>2. \A t \in TxsConfirm : t \in event.block.txs /\ table[t].status # "confirmed"
      BY <3>1 DEF TxsConfirm, ConfirmInv
    <3>3. DOMAIN upd = TxsConfirm
          /\ \A t \in TxsConfirm : upd[t].status = "confirmed" /\ upd[t].slot = event.block.slot
      OBVIOUS
    <3> HIDE DEF upd
    <3>4. \A t \in Tx :
             /\ t \in TxsConfirm => table'[t].slot = event.block.slot
             /\ t \notin TxsConfirm => table'[t] = table[t]
      BY <3>1, <3>3, UpdateBatchRows
    <3>5. ConfirmedInBlock'
      BY <1>a, <3>1, <3>2, <3>4 DEF ConfirmInv, ConfirmedInBlock
    <3> QED
      BY <3>1, <3>2, <3>4, <3>5 DEF ConfirmInv
  <2>2. CASE RetryTxs
    <3> DEFINE upd == [t \in TxsRetry |-> [status |-> "pending", slot |-> NoSlot]]
    <3>1. UpdateBatch(upd) /\ mpc' # "confirm"
      BY <2>2 DEF RetryTxs
    <3>2. \A t \in Tx : table'[t] = table[t] \/ table'[t].status # "confirmed"
      BY <3>1, UpdateBatchRows
    <3> QED
      BY <3>1, <3>2, <1>b DEF ConfirmInv
  <2>3. CASE RollbackTxs
    <3> DEFINE upd == [t \in DOMAIN snap |->
                         IF snap[t].slot > event.block.slot
                         THEN [status |-> "inflight", slot |-> NoSlot]
                         ELSE [status |-> snap[t].status, slot |-> event.block.slot]]
    <3>1. UpdateBatch(upd) /\ mpc' # "confirm"
      BY <2>3 DEF RollbackTxs
    <3>2. \A t \in DOMAIN upd : upd[t].status = "inflight"
      BY <2>3 DEF RollbackTxs, Inv, SlotInv
    <3> HIDE DEF upd
    <3>3. \A t \in Tx : table'[t] = table[t] \/ table'[t].status # "confirmed"
      BY <3>1, <3>2, UpdateBatchRows
    <3> QED
      BY <3>1, <3>3, <1>b DEF ConfirmInv
  <2>4. CASE FindRows
    <3>1. table' = table
      BY <2>4 DEF FindRows
    <3>2. mpc' = "confirm" => \A t \in DOMAIN snap' : table[t].status # "confirmed"
      BY <2>4 DEF FindRows, Rows, Find
    <3> QED
      BY <3>1, <3>2, <1>b DEF ConfirmInv
  <2>5. CASE ScheduleForward \/ ScheduleRollback \/ StoreCursor \/ RetryPanic
    <3>1. table' = table /\ mpc' # "confirm"
      BY <2>5 DEF ScheduleForward, ScheduleRollback, StoreCursor, RetryPanic, MonitorReset
    <3> QED
      BY <3>1, <1>b DEF ConfirmInv
  <2> QED
    BY <2>0, <2>1, <2>2, <2>3, <2>4, <2>5 DEF MonitorStep
<1>3. CASE MonitorActs(MonitorFault)
  <2>1. table' = table /\ mpc' # "confirm"
    BY <1>3 DEF MonitorActs, MonitorFault, StreamRestart, StreamEnd, MonitorDbError, MonitorReset
  <2> QED
    BY <2>1, <1>b DEF ConfirmInv
<1> QED
  BY <1>1, <1>2, <1>3 DEF Next, Others

(* The invariants hold at the start, and always. *)
LEMMA ConfirmInit == Init => EventInv /\ ConfirmInv
BY DEF Init, StorageInit, MonitorInit, NoEvent, EventInv, ConfirmInv, ConfirmedInBlock

(* Together with the invariant of the pipeline both are inductive. *)
LEMMA ConfirmHolds == Spec => [](Inv /\ EventInv /\ ConfirmInv)
<1>1. Init => Inv /\ EventInv /\ ConfirmInv
  BY InvInit, ConfirmInit
<1>2. Inv /\ EventInv /\ ConfirmInv /\ [Next]_vars => (Inv /\ EventInv /\ ConfirmInv)'
  BY InvStep, EventStep, ConfirmStep
<1> QED
  BY <1>1, <1>2, PTL DEF Spec

(* Whatever fails, and however the chain forks, a transaction counts as    *)
(* confirmed only at the slot of a block that the stream delivered and     *)
(* that holds it.                                                          *)
THEOREM ConfirmedInBlockHolds == Spec => []ConfirmedInBlock
<1>1. ConfirmInv => ConfirmedInBlock
  BY DEF ConfirmInv
<1> QED
  BY <1>1, ConfirmHolds, PTL

(* Whatever is replayed after a crash, a retry or a stream restart, no     *)
(* step moves a confirmation to another slot.                              *)
THEOREM ConfirmedSlotStableHolds == Spec => ConfirmedSlotStable
<1> DEFINE Stays == \A t \in Tx :
               table[t].status = "confirmed" /\ table'[t].status = "confirmed"
                  => table'[t].slot = table[t].slot
<1>1. Inv /\ EventInv /\ ConfirmInv /\ [Next]_vars => [Stays]_vars
  BY ConfirmStep
<1>2. Spec => [][Stays]_vars
  BY <1>1, ConfirmHolds, PTL DEF Spec
<1> QED
  BY <1>2 DEF ConfirmedSlotStable

-----------------------------------------------------------------------------
(* The stream and the chain. *)

(* Slots grow along the chain, and no block is of a fork to come. *)
Ordered ==
    /\ \A i, j \in DOMAIN chain : i < j => chain[i].slot < chain[j].slot
    /\ \A i \in DOMAIN chain : chain[i].fork <= forks

(* No block that is still to be forged will have this point. *)
Past(p) == p.hash <= forks /\ (p.hash = forks => p.slot <= Tip.slot)

(* So it is with every point that the process remembers. *)
PointsPast ==
    /\ Past(cursor) /\ Past(boot) /\ Past(PointOf(event.block))
    /\ \A i \in DOMAIN view : Past(PointOf(view[i]))

(* A block of the stream that is on the chain has the stream's history. *)
Consistent ==
    \A i \in DOMAIN view, j \in DOMAIN chain :
        PointOf(view[i]) = PointOf(chain[j])
           => i = j /\ \A k \in 1..i : view[k] = chain[k]

(* The event in execute is the last of the stream, or undone for good. *)
EventOnStream ==
    /\ event.kind = "forward" => Len(view) > 0 /\ event.block = view[Len(view)]
    /\ event.kind = "rollback" =>
          \A i \in DOMAIN chain : PointOf(chain[i]) # PointOf(event.block)

StreamInv == Ordered /\ PointsPast /\ Consistent /\ EventOnStream

(* The shape of the chain and the stream that the proofs below work with. *)
LEMMA Shapes ==
    ASSUME TypeOK
    PROVE  /\ Len(chain) \in Nat /\ Len(chain) > 0 /\ DOMAIN chain = 1..Len(chain)
           /\ \A i \in DOMAIN chain : chain[i] \in Block
           /\ Len(view) \in Nat /\ DOMAIN view = 1..Len(view)
           /\ \A i \in DOMAIN view : view[i] \in Block
           /\ forks \in Nat /\ event.block \in Block /\ Tip \in Block
           /\ boot \in Point /\ cursor \in Point
<1>1. chain \in Seq(Block) /\ chain # <<>> /\ view \in Seq(Block)
  BY DEF TypeOK, U5CTypeOK
<1>2. Len(chain) \in Nat /\ Len(chain) > 0 /\ DOMAIN chain = 1..Len(chain)
  BY <1>1
<1>3. /\ \A i \in DOMAIN chain : chain[i] \in Block
      /\ Len(view) \in Nat /\ DOMAIN view = 1..Len(view)
      /\ \A i \in DOMAIN view : view[i] \in Block
  BY <1>1
<1>4. Tip \in Block
  BY <1>2, <1>3 DEF Tip
<1> QED
  BY <1>2, <1>3, <1>4 DEF TypeOK, U5CTypeOK, StorageTypeOK, MonitorTypeOK, Events

(* Every block of the chain is past. *)
LEMMA ChainPast ==
    ASSUME TypeOK, Ordered, NEW i \in DOMAIN chain
    PROVE  Past(PointOf(chain[i]))
<1>1. /\ Len(chain) \in DOMAIN chain /\ i <= Len(chain)
      /\ chain[i].slot \in Nat /\ Tip.slot \in Nat
  BY Shapes DEF Block
<1>2. chain[i].slot <= Tip.slot
  <2>1. CASE i = Len(chain)
    BY <1>1, <2>1 DEF Tip
  <2>2. CASE i < Len(chain)
    BY <1>1, <2>2 DEF Tip, Ordered
  <2> QED
    BY <1>1, <2>1, <2>2, Shapes
<1> QED
  BY <1>2 DEF Past, PointOf, Ordered

(* A point names at most one block of the chain. *)
LEMMA PointsDistinct ==
    ASSUME TypeOK, Ordered, NEW i \in DOMAIN chain, NEW j \in DOMAIN chain,
           PointOf(chain[i]) = PointOf(chain[j])
    PROVE  i = j
<1>1. chain[i].slot = chain[j].slot /\ chain[i].slot \in Nat
  BY Shapes DEF PointOf, Block
<1>2. i \in Nat /\ j \in Nat
  BY Shapes
<1> QED
  BY <1>1, <1>2 DEF Ordered

(* What a step of the chain does: it appends a block above the tip, or     *)
(* cuts the chain and counts the fork.                                     *)
LEMMA ChainMoves ==
    ASSUME TypeOK, ChainActs
    PROVE  \/ \E b \in Block :
                /\ chain' = Append(chain, b) /\ forks' = forks
                /\ b.fork = forks /\ b.slot > Tip.slot
           \/ \E n \in 1..(Len(chain) - 1) :
                chain' = SubSeq(chain, 1, n) /\ forks' = forks + 1
<1>1. ASSUME NEW n \in 1..MaxSlot, NEW ts \in SUBSET sent, Forge(n, ts)
      PROVE  \E b \in Block :
                /\ chain' = Append(chain, b) /\ forks' = forks
                /\ b.fork = forks /\ b.slot > Tip.slot
  <2> DEFINE b == [slot |-> n, fork |-> forks, txs |-> ts]
  <2>1. b \in Block
    BY Shapes, U5CAssumption DEF Block, TypeOK, IngestTypeOK
  <2>2. b.fork = forks /\ b.slot > Tip.slot
    BY <1>1, Shapes, U5CAssumption DEF Forge, Block
  <2> QED
    BY <1>1, <2>1, <2>2 DEF Forge
<1>2. ASSUME NEW n \in 1..MaxSlot, SwitchFork(n)
      PROVE  \E k \in 1..(Len(chain) - 1) :
                chain' = SubSeq(chain, 1, k) /\ forks' = forks + 1
  BY <1>2 DEF SwitchFork
<1> QED
  BY <1>1, <1>2 DEF ChainActs

(* The blocks of the new chain are those of the old one, in place, and at  *)
(* most one new block, whose point is not past.                            *)
LEMMA ChainBlocks ==
    ASSUME TypeOK, Ordered, ChainActs
    PROVE  /\ Ordered'
           /\ \A p \in Point : Past(p) => Past(p)'
           /\ \A p \in Point, i \in DOMAIN chain' : Past(p) /\ PointOf(chain'[i]) = p =>
                 /\ i \in DOMAIN chain /\ PointOf(chain[i]) = p
                 /\ \A j \in 1..i : j \in DOMAIN chain /\ chain'[j] = chain[j]
<1>a. Tip.slot \in Nat /\ forks \in Nat
  BY Shapes DEF Block
<1>b. \A p \in Point : p.hash \in Nat /\ p.slot \in Int
  BY DEF Point, Slot, NoSlot
<1>c. \A i \in DOMAIN chain : chain[i].slot \in Nat /\ chain[i].fork \in Nat
  BY Shapes DEF Block
<1>1. ASSUME NEW b \in Block, chain' = Append(chain, b), forks' = forks,
             b.fork = forks, b.slot > Tip.slot
      PROVE  /\ Ordered'
             /\ \A p \in Point : Past(p) => Past(p)'
             /\ \A p \in Point, i \in DOMAIN chain' : Past(p) /\ PointOf(chain'[i]) = p =>
                   /\ i \in DOMAIN chain /\ PointOf(chain[i]) = p
                   /\ \A j \in 1..i : j \in DOMAIN chain /\ chain'[j] = chain[j]
  <2>0. chain \in Seq(Block) /\ b.slot \in Nat
    BY DEF TypeOK, U5CTypeOK, Block
  <2>1. /\ Len(chain') = Len(chain) + 1 /\ DOMAIN chain' = 1..(Len(chain) + 1)
        /\ chain'[Len(chain) + 1] = b
        /\ \A i \in DOMAIN chain : chain'[i] = chain[i]
    BY <1>1, <2>0
  <2>2. \A i \in DOMAIN chain' : i \in DOMAIN chain \/ i = Len(chain) + 1
    BY <2>1, Shapes
  <2>3. \A i \in DOMAIN chain : chain[i].slot <= Tip.slot /\ i < Len(chain) + 1
    <3> SUFFICES ASSUME NEW i \in DOMAIN chain
                 PROVE  chain[i].slot <= Tip.slot /\ i < Len(chain) + 1
      OBVIOUS
    <3>1. i \in 1..Len(chain) /\ Len(chain) \in DOMAIN chain
      BY Shapes
    <3>2. CASE i = Len(chain)
      BY <3>1, <3>2, <1>a, Shapes DEF Tip
    <3>3. CASE i < Len(chain)
      BY <3>1, <3>3, <1>a, <1>c, Shapes DEF Tip, Ordered
    <3> QED
      BY <3>1, <3>2, <3>3, Shapes
  <2>4. Tip' = b
    BY <2>1 DEF Tip
  <2>5. Ordered'
    <3>1. \A i \in DOMAIN chain' : chain'[i].fork <= forks'
      BY <1>1, <1>a, <2>1, <2>2 DEF Ordered
    <3>2. ASSUME NEW i \in DOMAIN chain', NEW j \in DOMAIN chain', i < j
          PROVE  chain'[i].slot < chain'[j].slot
      <4>1. i \in DOMAIN chain
        BY <2>1, <2>2, <3>2, Shapes
      <4>2. CASE j \in DOMAIN chain
        BY <2>1, <3>2, <4>1, <4>2 DEF Ordered
      <4>3. CASE j = Len(chain) + 1
        BY <1>1, <1>a, <1>c, <2>0, <2>1, <2>3, <4>1, <4>3
      <4> QED
        BY <2>2, <4>2, <4>3
    <3> QED
      BY <3>1, <3>2 DEF Ordered
  <2>6. ASSUME NEW p \in Point, Past(p) PROVE Past(p)'
    BY <1>1, <1>a, <1>b, <2>0, <2>4, <2>6 DEF Past
  <2>7. ASSUME NEW p \in Point, NEW i \in DOMAIN chain', Past(p), PointOf(chain'[i]) = p
        PROVE  /\ i \in DOMAIN chain /\ PointOf(chain[i]) = p
               /\ \A j \in 1..i : j \in DOMAIN chain /\ chain'[j] = chain[j]
    <3>1. i # Len(chain) + 1
      BY <1>1, <1>a, <2>0, <2>1, <2>7 DEF Past, PointOf
    <3>2. i \in DOMAIN chain
      BY <2>2, <3>1
    <3>3. \A j \in 1..i : j \in DOMAIN chain
      BY <3>2, Shapes
    <3> QED
      BY <2>1, <2>7, <3>2, <3>3
  <2> QED
    BY <2>5, <2>6, <2>7
<1>2. ASSUME NEW n \in 1..(Len(chain) - 1), chain' = SubSeq(chain, 1, n), forks' = forks + 1
      PROVE  /\ Ordered'
             /\ \A p \in Point : Past(p) => Past(p)'
             /\ \A p \in Point, i \in DOMAIN chain' : Past(p) /\ PointOf(chain'[i]) = p =>
                   /\ i \in DOMAIN chain /\ PointOf(chain[i]) = p
                   /\ \A j \in 1..i : j \in DOMAIN chain /\ chain'[j] = chain[j]
  <2>0. chain \in Seq(Block) /\ Len(chain) \in Nat
    BY DEF TypeOK, U5CTypeOK
  <2>1. DOMAIN chain' = 1..n /\ \A i \in 1..n : i \in DOMAIN chain /\ chain'[i] = chain[i]
    BY <1>2, <2>0
  <2>2. Ordered'
    BY <1>2, <1>a, <1>c, <2>1 DEF Ordered
  <2>3. ASSUME NEW p \in Point, Past(p) PROVE Past(p)'
    BY <1>2, <1>a, <1>b, <2>3 DEF Past
  <2>4. ASSUME NEW i \in DOMAIN chain'
        PROVE  i \in DOMAIN chain /\ \A j \in 1..i : j \in DOMAIN chain /\ chain'[j] = chain[j]
    BY <1>2, <2>0, <2>1
  <2> QED
    BY <2>1, <2>2, <2>3, <2>4
<1> QED
  BY <1>1, <1>2, ChainMoves

(* A stream opens on a prefix of the chain that ends at the given point. *)
LEMMA OpensPrefix ==
    ASSUME TypeOK, NEW p, OpenStream(p)
    PROVE  /\ IsPrefixOf(view', chain) /\ view' \in Seq(Block)
           /\ p # NoCursor => \E i \in DOMAIN chain :
                                 PointOf(chain[i]) = p /\ view' = SubSeq(chain, 1, i)
<1>0. chain \in Seq(Block) /\ view' \in Seq(Block)
  BY OpenStreamType DEF TypeOK, U5CTypeOK
<1>1. CASE p = NoCursor
  BY <1>0, <1>1 DEF OpenStream, IsPrefixOf
<1>2. CASE p # NoCursor
  <2>1. PICK i \in DOMAIN chain : PointOf(chain[i]) = p /\ view' = SubSeq(chain, 1, i)
    BY <1>2 DEF OpenStream
  <2>2. Len(view') = i /\ \A k \in 1..i : view'[k] = chain[k]
    BY <1>0, <2>1
  <2>3. IsPrefixOf(view', chain)
    BY <1>0, <2>1, <2>2 DEF IsPrefixOf
  <2> QED
    BY <1>0, <2>1, <2>3
<1> QED
  BY <1>1, <1>2

(* A stream that is a prefix of the chain is consistent with it. *)
LEMMA PrefixConsistent ==
    ASSUME TypeOK, Ordered, UNCHANGED chainVars, view' \in Seq(Block), IsPrefixOf(view', chain)
    PROVE  Consistent' /\ \A i \in DOMAIN view' : Past(PointOf(view'[i]))
<1>1. \A i \in DOMAIN view' : i \in DOMAIN chain /\ view'[i] = chain[i]
  BY Shapes DEF IsPrefixOf
<1>2. \A i \in DOMAIN view' : Past(PointOf(view'[i]))
  BY <1>1, ChainPast
<1>3. chain' = chain /\ DOMAIN view' = 1..Len(view') /\ Len(view') \in Nat
  BY DEF chainVars
<1>4. ASSUME NEW i \in DOMAIN view', NEW j \in DOMAIN chain, PointOf(view'[i]) = PointOf(chain[j])
      PROVE  i = j /\ \A k \in 1..i : view'[k] = chain[k]
  <2>1. i = j
    BY <1>1, <1>4, PointsDistinct
  <2>2. \A k \in 1..i : k \in DOMAIN view'
    BY <1>3
  <2> QED
    BY <1>1, <2>1, <2>2
<1>5. Consistent'
  BY <1>3, <1>4 DEF Consistent
<1> QED
  BY <1>2, <1>5

-----------------------------------------------------------------------------
(* The steps, as the stream sees them. *)

(* The stream stays as it is; the event ends or goes on. *)
Quiet ==
    /\ UNCHANGED <<chainVars, adapterVars>>
    /\ event' = event \/ event' = NoEvent
    /\ cursor' = cursor \/ cursor' = PointOf(event.block)

(* The stream is opened, between two events. *)
Opens ==
    /\ UNCHANGED <<chainVars, cursor, event>> /\ event = NoEvent
    /\ \E p : OpenStream(p)
    /\ boot' = boot \/ boot' = cursor

(* Every step is of one of five kinds, as far as the chain and the stream  *)
(* go.                                                                     *)
LEMMA StepKinds ==
    ASSUME EventInv, [Next]_vars
    PROVE  \/ ChainActs \/ Quiet \/ Opens
           \/ MonitorActs(ScheduleForward) \/ MonitorActs(ScheduleRollback)
<1>1. CASE Start
  <2>1. event = NoEvent
    BY <1>1 DEF Start, EventInv
  <2> QED
    BY <1>1, <2>1 DEF Start, Opens, CurrentCursor, storageVars, monitorVars
<1>2. CASE Crash
  BY <1>2 DEF Crash, MonitorReset, Quiet, storageVars
<1>3. CASE Submit
  BY <1>3 DEF Submit, Quiet, monitorVars
<1>4. CASE IngestActs(IngestStep) \/ IngestActs(IngestFault)
  BY <1>4 DEF IngestActs, Quiet, monitorVars
<1>5. CASE UNCHANGED vars
  BY <1>5 DEF vars, Quiet, chainVars, adapterVars
<1>6. CASE MonitorActs(MonitorStep)
  <2>1. CASE ScheduleForward \/ ScheduleRollback
    BY <1>6, <2>1 DEF MonitorActs
  <2>2. CASE FindRows \/ ConfirmTxs \/ RetryTxs \/ RollbackTxs
    BY <1>6, <2>2
    DEF MonitorActs, Quiet, adapterVars, FindRows, ConfirmTxs, RetryTxs, RollbackTxs
  <2>3. CASE StoreCursor \/ RetryPanic
    BY <1>6, <2>3
    DEF MonitorActs, Quiet, adapterVars, StoreCursor, SetCursor, RetryPanic, MonitorReset
  <2> QED
    BY <1>6, <2>1, <2>2, <2>3 DEF MonitorActs, MonitorStep
<1>7. CASE MonitorActs(MonitorFault)
  <2>1. CASE StreamRestart
    <3>1. event = NoEvent /\ event' = NoEvent /\ UNCHANGED <<boot, cursor, chainVars>>
      BY <1>7, <2>1 DEF MonitorActs, StreamRestart, MonitorReset, EventInv
    <3>2. CASE Intersects(boot)
      BY <2>1, <3>1, <3>2 DEF StreamRestart, Opens
    <3>3. CASE ~ Intersects(boot)
      BY <2>1, <3>1, <3>3 DEF StreamRestart, Quiet, adapterVars
    <3> QED
      BY <3>2, <3>3
  <2>2. CASE StreamEnd \/ MonitorDbError
    BY <1>7, <2>2 DEF MonitorActs, Quiet, adapterVars, StreamEnd, MonitorDbError
  <2> QED
    BY <1>7, <2>1, <2>2 DEF MonitorActs, MonitorFault
<1> QED
  BY <1>1, <1>2, <1>3, <1>4, <1>5, <1>6, <1>7 DEF Next

(* Point of a block, and the points the process holds, are points. *)
LEMMA PointTypes ==
    ASSUME TypeOK
    PROVE  /\ cursor \in Point /\ boot \in Point /\ PointOf(event.block) \in Point
           /\ \A i \in DOMAIN view : PointOf(view[i]) \in Point
  BY Shapes, PointOfType

(* New blocks and forks: points of the past stay in the past, and the      *)
(* stream keeps what it has delivered.                                     *)
LEMMA StreamChain ==
    ASSUME TypeOK, StreamInv, ChainActs
    PROVE  StreamInv'
<1> USE DEF StreamInv
<1>0. cursor' = cursor /\ boot' = boot /\ event' = event /\ view' = view
  BY DEF ChainActs, storageVars, adapterVars, monitorVars
<1>1. \A p \in Point : Past(p) =>
         p.hash <= forks' /\ (p.hash = forks' => p.slot <= Tip'.slot)
  BY ChainBlocks DEF Past
<1>2. PointsPast'
  BY <1>0, <1>1, PointTypes DEF PointsPast, Past, PointOf
<1>3. Consistent'
  <2> SUFFICES ASSUME NEW i \in DOMAIN view, NEW j \in DOMAIN chain',
                      PointOf(view[i]) = PointOf(chain'[j])
               PROVE  i = j /\ \A k \in 1..i : view[k] = chain'[k]
    BY <1>0 DEF Consistent, PointOf
  <2>1. /\ j \in DOMAIN chain /\ PointOf(chain[j]) = PointOf(view[i])
        /\ \A k \in 1..j : chain'[k] = chain[k]
    BY PointTypes, ChainBlocks DEF PointsPast
  <2> QED
    BY <2>1 DEF Consistent
<1>4. EventOnStream'
  <2>1. event.kind = "rollback" =>
           \A i \in DOMAIN chain' : PointOf(chain'[i]) # PointOf(event.block)
    BY PointTypes, ChainBlocks DEF PointsPast, EventOnStream
  <2> QED
    BY <1>0, <2>1 DEF EventOnStream, PointOf
<1> QED
  BY <1>2, <1>3, <1>4, ChainBlocks

(* While the chain rests, a point stays past. *)
LEMMA PastStays ==
    ASSUME UNCHANGED chainVars, NEW p, Past(p)
    PROVE  p.hash <= forks' /\ (p.hash = forks' => p.slot <= Tip'.slot)
  BY DEF chainVars, Past, Tip

(* The genesis block is past: NoEvent carries it. *)
LEMMA GenesisPast ==
    ASSUME TypeOK
    PROVE  Past(PointOf(NoEvent.block)) /\ NoEvent.kind = "none"
<1>1. forks \in Nat /\ Tip.slot \in Nat
  BY Shapes DEF Block
<1> QED
  BY <1>1 DEF Past, PointOf, NoEvent, Genesis

(* Steps that leave chain and stream alone may store the point of the      *)
(* event at hand, which is in the past.                                    *)
LEMMA StreamQuiet ==
    ASSUME TypeOK, StreamInv, Quiet
    PROVE  StreamInv'
<1> USE DEF StreamInv
<1>0. /\ chain' = chain /\ forks' = forks /\ view' = view /\ boot' = boot
      /\ UNCHANGED chainVars
      /\ event' = event \/ event' = NoEvent
      /\ cursor' = cursor \/ cursor' = PointOf(event.block)
  BY DEF Quiet, chainVars, adapterVars
<1>1. Ordered' /\ Consistent'
  BY <1>0 DEF Ordered, Consistent
<1>2. Past(cursor)' /\ Past(boot)'
  BY <1>0, PastStays DEF PointsPast, Past
<1>3. Past(PointOf(event.block))'
  <2>1. Past(PointOf(event'.block))
    BY <1>0, GenesisPast DEF PointsPast
  <2> QED
    BY <1>0, <2>1, PastStays DEF Past, PointOf
<1>4. (\A i \in DOMAIN view : Past(PointOf(view[i])))'
  BY <1>0, PastStays DEF PointsPast, Past, PointOf
<1>5. EventOnStream'
  BY <1>0, GenesisPast DEF EventOnStream
<1> QED
  BY <1>1, <1>2, <1>3, <1>4, <1>5 DEF PointsPast

(* A stream that is opened has delivered a part of the chain as it is. *)
LEMMA StreamOpens ==
    ASSUME TypeOK, StreamInv, Opens
    PROVE  StreamInv'
<1> USE DEF StreamInv
<1>0. /\ chain' = chain /\ forks' = forks /\ cursor' = cursor
      /\ event' = event /\ event = NoEvent /\ UNCHANGED chainVars
      /\ boot' = boot \/ boot' = cursor
  BY DEF Opens, chainVars
<1>1. IsPrefixOf(view', chain) /\ view' \in Seq(Block)
  BY OpensPrefix DEF Opens
<1>2. Consistent' /\ \A i \in DOMAIN view' : Past(PointOf(view'[i]))
  BY <1>0, <1>1, PrefixConsistent
<1>3. Ordered'
  BY <1>0 DEF Ordered
<1>4. Past(cursor)' /\ Past(boot)' /\ Past(PointOf(event.block))'
  BY <1>0, PastStays DEF PointsPast, Past, PointOf
<1>5. (\A i \in DOMAIN view : Past(PointOf(view[i])))'
  BY <1>0, <1>2, PastStays DEF Past, PointOf
<1>6. EventOnStream'
  BY <1>0, GenesisPast DEF EventOnStream
<1> QED
  BY <1>2, <1>3, <1>4, <1>5, <1>6 DEF PointsPast

(* An Apply delivers the block that follows the stream on the chain. *)
LEMMA StreamForward ==
    ASSUME TypeOK, StreamInv, MonitorActs(ScheduleForward)
    PROVE  /\ StreamInv'
           /\ IsPrefixOf(view', chain) /\ Len(view') = Len(view) + 1
           /\ \A i \in DOMAIN view' : \/ i \in DOMAIN view /\ view'[i] = view[i]
                                      \/ view'[i] = event'.block
<1> USE DEF StreamInv
<1>0. /\ chain' = chain /\ forks' = forks /\ cursor' = cursor /\ boot' = boot
      /\ UNCHANGED chainVars
      /\ IsPrefixOf(view, chain) /\ Len(view) < Len(chain)
      /\ view' = Append(view, chain[Len(view) + 1])
      /\ event' = [kind |-> "forward", block |-> chain[Len(view) + 1]]
  BY DEF MonitorActs, ScheduleForward, StreamApply, chainVars
<1>1. Len(view) + 1 \in DOMAIN chain /\ view \in Seq(Block) /\ Len(view) \in Nat
  BY <1>0, Shapes DEF TypeOK, U5CTypeOK
<1>2. chain[Len(view) + 1] \in Block
  BY <1>1, Shapes
<1>3. /\ view' \in Seq(Block) /\ Len(view') = Len(view) + 1
      /\ \A i \in DOMAIN view : view'[i] = view[i]
      /\ view'[Len(view) + 1] = chain[Len(view) + 1]
      /\ DOMAIN view' = 1..(Len(view) + 1) /\ DOMAIN view = 1..Len(view)
  BY <1>0, <1>1, <1>2
<1>4. \A i \in DOMAIN view' : i \in DOMAIN view \/ i = Len(view) + 1
  BY <1>1, <1>3
<1>5. IsPrefixOf(view', chain)
  <2>1. Len(view') <= Len(chain)
    BY <1>0, <1>3, Shapes
  <2>2. \A i \in DOMAIN view' : view'[i] = chain[i]
    BY <1>0, <1>3, <1>4 DEF IsPrefixOf
  <2> QED
    BY <2>1, <2>2 DEF IsPrefixOf
<1>6. Consistent' /\ \A i \in DOMAIN view' : Past(PointOf(view'[i]))
  BY <1>0, <1>3, <1>5, PrefixConsistent
<1>7. Ordered'
  BY <1>0 DEF Ordered
<1>8. Past(PointOf(event'.block))
  BY <1>0, <1>1, ChainPast
<1>9. PointsPast'
  BY <1>0, <1>6, <1>8, PastStays DEF PointsPast, Past, PointOf
<1>10. EventOnStream'
  BY <1>0, <1>1, <1>3 DEF EventOnStream
<1>11. \A i \in DOMAIN view' : \/ i \in DOMAIN view /\ view'[i] = view[i]
                               \/ view'[i] = event'.block
  BY <1>0, <1>3, <1>4
<1> QED
  BY <1>3, <1>5, <1>6, <1>7, <1>9, <1>10, <1>11

(* An Undo takes back a block that is not on the chain. *)
LEMMA StreamBack ==
    ASSUME TypeOK, StreamInv, MonitorActs(ScheduleRollback)
    PROVE  /\ StreamInv'
           /\ \A i \in DOMAIN view' : \/ i \in DOMAIN view /\ view'[i] = view[i]
<1> USE DEF StreamInv
<1>0. /\ chain' = chain /\ forks' = forks /\ cursor' = cursor /\ boot' = boot
      /\ UNCHANGED chainVars
      /\ ~ IsPrefixOf(view, chain)
      /\ view' = SubSeq(view, 1, Len(view) - 1)
      /\ event' = [kind |-> "rollback", block |-> view[Len(view)]]
  BY DEF MonitorActs, ScheduleRollback, StreamUndo, chainVars
<1>1. view \in Seq(Block) /\ Len(view) \in Nat /\ DOMAIN view = 1..Len(view)
  BY DEF TypeOK, U5CTypeOK
<1>2. Len(view) > 0 /\ Len(view) \in DOMAIN view
  BY <1>0, <1>1, Shapes DEF IsPrefixOf
<1>3. /\ DOMAIN view' = 1..(Len(view) - 1)
      /\ \A i \in DOMAIN view' : i \in DOMAIN view /\ view'[i] = view[i]
  BY <1>0, <1>1, <1>2
<1>4. Ordered'
  BY <1>0 DEF Ordered
<1>5. Past(PointOf(event'.block)) /\ \A i \in DOMAIN view' : Past(PointOf(view'[i]))
  BY <1>0, <1>2, <1>3 DEF PointsPast
<1>6. PointsPast'
  BY <1>0, <1>5, PastStays DEF PointsPast, Past, PointOf
<1>7. Consistent'
  <2> SUFFICES ASSUME NEW i \in DOMAIN view', NEW j \in DOMAIN chain,
                      PointOf(view'[i]) = PointOf(chain[j])
               PROVE  i = j /\ \A k \in 1..i : view'[k] = chain[k]
    BY <1>0 DEF Consistent
  <2>1. i = j /\ \A k \in 1..i : view[k] = chain[k]
    BY <1>3 DEF Consistent
  <2>2. \A k \in 1..i : k \in DOMAIN view'
    BY <1>1, <1>3
  <2> QED
    BY <1>3, <2>1, <2>2
<1>8. ASSUME NEW i \in DOMAIN chain, PointOf(chain[i]) = PointOf(view[Len(view)])
      PROVE  FALSE
  <2>1. Len(view) = i /\ \A k \in 1..Len(view) : view[k] = chain[k]
    BY <1>2, <1>8 DEF Consistent
  <2>2. IsPrefixOf(view, chain)
    BY <1>1, <2>1, Shapes DEF IsPrefixOf
  <2> QED
    BY <1>0, <2>2
<1>9. EventOnStream'
  BY <1>0, <1>8 DEF EventOnStream
<1> QED
  BY <1>3, <1>4, <1>6, <1>7, <1>9

(* Every step keeps the stream in order. *)
LEMMA StreamStep ==
    ASSUME TypeOK, EventInv, StreamInv, [Next]_vars
    PROVE  StreamInv'
BY StepKinds, StreamChain, StreamQuiet, StreamOpens, StreamForward, StreamBack

(* Before the first start there is only the genesis block and no stream. *)
LEMMA StreamInit == Init => StreamInv
<1> SUFFICES ASSUME Init PROVE StreamInv
  OBVIOUS
<1>1. TypeOK
  BY TypeInit
<1>2. chain = <<Genesis>> /\ forks = 0 /\ view = <<>> /\ boot = NoCursor /\ cursor = NoCursor
      /\ event = NoEvent
  BY DEF Init, ChainInit, StorageInit, MonitorInit
<1>3. Len(chain) = 1 /\ DOMAIN chain = {1} /\ chain[1] = Genesis /\ DOMAIN view = {}
  BY <1>2
<1>4. Ordered
  BY <1>2, <1>3 DEF Ordered, Genesis
<1>5. PointsPast
  BY <1>1, <1>2, <1>3, GenesisPast DEF PointsPast, Past, NoCursor, NoSlot, Tip, Genesis
<1>6. Consistent /\ EventOnStream
  BY <1>1, <1>2, <1>3, GenesisPast DEF Consistent, EventOnStream
<1> QED
  BY <1>4, <1>5, <1>6 DEF StreamInv

-----------------------------------------------------------------------------
(* No block is skipped but for want of a cursor. *)

(* The blocks that were processed, or passed over for want of a cursor. *)
Handled == applied \cup skipped

(* Where the next stream opens, everything before is handled. *)
Covered(p) ==
    \A i \in DOMAIN chain : PointOf(chain[i]) = p => \A j \in 1..i : chain[j] \in Handled

SkipInv == SkipsOnlyWithoutCursor /\ Covered(cursor) /\ Covered(boot)

(* NoCursor is no point of the chain, and always covered. *)
LEMMA NoCursorOffChain ==
    ASSUME TypeOK, NEW i \in DOMAIN chain
    PROVE  PointOf(chain[i]) # NoCursor
<1>1. chain[i].slot \in Nat
  BY Shapes DEF Block
<1> QED
  BY <1>1 DEF PointOf, NoCursor, NoSlot

(* Blocks that were handled stay handled. *)
LEMMA HandledGrows == ASSUME [Next]_vars PROVE Handled \subseteq Handled'
<1> USE DEF Handled
<1>1. CASE Start
  BY <1>1 DEF Start, FirstStart
<1>2. CASE Crash \/ Submit \/ ChainActs \/ IngestActs(IngestStep) \/ IngestActs(IngestFault)
  BY <1>2 DEF Crash, Submit, ChainActs, IngestActs, historyVars
<1>3. CASE MonitorActs(MonitorStep) \/ MonitorActs(MonitorFault)
  BY <1>3 DEF MonitorActs
<1> QED
  BY <1>1, <1>2, <1>3 DEF Next, vars

(* Steps that leave the stream and the cursor alone, or end the process. *)
LEMMA SkipRest ==
    ASSUME SkipInv, UNCHANGED <<cursor, boot, chain>>, Handled \subseteq Handled',
           ~ up' \/ UNCHANGED <<event, view, up>>
    PROVE  SkipInv'
<1>1. Covered(cursor)' /\ Covered(boot)'
  BY DEF SkipInv, Covered
<1>2. SkipsOnlyWithoutCursor'
  BY DEF SkipInv, SkipsOnlyWithoutCursor, InExecute, Handled
<1> QED
  BY <1>1, <1>2 DEF SkipInv

(* The chain below a stored point is unchanged by new blocks and forks     *)
(* that leave the point on it.                                             *)
LEMMA SkipChain ==
    ASSUME TypeOK, StreamInv, SkipInv, ChainActs
    PROVE  SkipInv'
<1>0. /\ cursor' = cursor /\ boot' = boot /\ event' = event /\ view' = view
      /\ up' = up /\ Handled' = Handled
  BY DEF Handled, ChainActs, storageVars, adapterVars, monitorVars, historyVars
<1>1. ASSUME NEW p \in Point, Past(p), Covered(p), NEW i \in DOMAIN chain', PointOf(chain'[i]) = p
      PROVE  \A j \in 1..i : chain'[j] \in Handled
  <2>1. /\ i \in DOMAIN chain /\ PointOf(chain[i]) = p
        /\ \A j \in 1..i : chain'[j] = chain[j]
    BY <1>1, ChainBlocks DEF StreamInv
  <2> QED
    BY <1>1, <2>1 DEF Covered
<1>2. Covered(cursor)' /\ Covered(boot)'
  BY <1>0, <1>1, PointTypes DEF Covered, SkipInv, StreamInv, PointsPast
<1>3. SkipsOnlyWithoutCursor'
  BY <1>0 DEF SkipInv, SkipsOnlyWithoutCursor, InExecute, Handled
<1> QED
  BY <1>2, <1>3 DEF SkipInv

(* A stream opened at a covered point has delivered processed blocks. *)
LEMMA OpensCovered ==
    ASSUME TypeOK, NEW p, OpenStream(p), p # NoCursor, Covered(p)
    PROVE  \A i \in DOMAIN view' : view'[i] \in Handled
<1>0. chain \in Seq(Block)
  BY DEF TypeOK, U5CTypeOK
<1>1. PICK i \in DOMAIN chain : PointOf(chain[i]) = p /\ view' = SubSeq(chain, 1, i)
  BY OpensPrefix
<1>2. DOMAIN view' = 1..i /\ \A k \in 1..i : view'[k] = chain[k]
  BY <1>0, <1>1
<1> QED
  BY <1>1, <1>2 DEF Covered

(* A start resumes at the stored cursor, all blocks up to which were       *)
(* handled; without one it starts at the tip.                              *)
LEMMA SkipStart ==
    ASSUME TypeOK, SkipInv, Start
    PROVE  SkipInv'
<1>0. /\ cursor' = cursor /\ boot' = cursor /\ chain' = chain /\ OpenStream(cursor)
      /\ Handled \subseteq Handled'
      /\ cursor = NoCursor => Blocks \subseteq Handled'
  BY DEF Start, CurrentCursor, storageVars, chainVars, FirstStart, Handled
<1>1. Covered(cursor)' /\ Covered(boot)'
  BY <1>0 DEF SkipInv, Covered
<1>2. \A i \in DOMAIN view' : view'[i] \in Handled'
  <2>1. CASE cursor = NoCursor
    BY <1>0, <2>1 DEF OpenStream, Blocks
  <2>2. CASE cursor # NoCursor
    BY <1>0, <2>2, OpensCovered DEF SkipInv
  <2> QED
    BY <2>1, <2>2
<1>3. SkipsOnlyWithoutCursor'
  BY <1>2 DEF SkipsOnlyWithoutCursor, Handled
<1> QED
  BY <1>1, <1>3 DEF SkipInv

(* The cursor of a block that was rolled forward to is stored when all of  *)
(* its history was; the cursor of an undone block covers nothing.          *)
LEMMA SkipStore ==
    ASSUME TypeOK, EventInv, StreamInv, SkipInv, MonitorActs(StoreCursor)
    PROVE  SkipInv'
<1>0. /\ chain' = chain /\ view' = view /\ boot' = boot /\ cursor' = PointOf(event.block)
      /\ up /\ mpc = "cursor" /\ mpc' = "schedule"
      /\ Handled' = IF event.kind = "forward" THEN Handled \cup {event.block} ELSE Handled
  BY DEF Handled, Reopens, MonitorActs, StoreCursor, SetCursor, MonitorReset, chainVars
<1>1. event.kind \in {"forward", "rollback"}
  BY <1>0 DEF EventInv
<1>2. Handled \subseteq Handled'
  BY <1>0
<1>3. \A i \in DOMAIN view : view[i] \in Handled'
  <2> SUFFICES ASSUME NEW i \in DOMAIN view, event = [kind |-> "forward", block |-> view[i]]
               PROVE  view[i] \in Handled'
    BY <1>0, <1>2 DEF SkipInv, SkipsOnlyWithoutCursor, InExecute, Handled
  <2>1. event.kind = "forward" /\ event.block = view[i]
    OBVIOUS
  <2> QED
    BY <1>0, <2>1
<1>4. SkipsOnlyWithoutCursor'
  BY <1>0, <1>3 DEF SkipsOnlyWithoutCursor, Handled
<1>5. Covered(boot)'
  BY <1>0, <1>2 DEF SkipInv, Covered
<1>6. ASSUME NEW i \in DOMAIN chain, PointOf(chain[i]) = PointOf(event.block), NEW j \in 1..i
      PROVE  chain[j] \in Handled'
  <2>1. /\ event.kind = "forward" /\ Len(view) > 0 /\ event.block = view[Len(view)]
    BY <1>1, <1>6 DEF StreamInv, EventOnStream
  <2>2. Len(view) \in DOMAIN view /\ DOMAIN view = 1..Len(view)
    BY <2>1, Shapes
  <2>3. Len(view) = i /\ \A k \in 1..Len(view) : view[k] = chain[k]
    BY <1>6, <2>1, <2>2 DEF StreamInv, Consistent
  <2> QED
    BY <1>3, <2>2, <2>3
<1>7. Covered(cursor)'
  BY <1>0, <1>6 DEF Covered, PointOf
<1> QED
  BY <1>4, <1>5, <1>7 DEF SkipInv

(* Every step keeps the cursor behind the blocks handled. *)
LEMMA SkipStep ==
    ASSUME TypeOK, EventInv, StreamInv, SkipInv, [Next]_vars
    PROVE  SkipInv'
<1>a. Handled \subseteq Handled'
  BY HandledGrows
<1>1. CASE Start \/ ChainActs
  BY <1>1, SkipStart, SkipChain
<1>2. CASE Crash
  BY <1>2, <1>a, SkipRest DEF Crash, storageVars, chainVars, adapterVars
<1>3. CASE Submit \/ IngestActs(IngestStep) \/ IngestActs(IngestFault) \/ UNCHANGED vars
  <2>1. UNCHANGED <<cursor, boot, chain>> /\ UNCHANGED <<event, view, up>>
    BY <1>3 DEF Submit, IngestActs, vars, chainVars, adapterVars, monitorVars
  <2> QED
    BY <1>a, <2>1, SkipRest
<1>4. CASE MonitorActs(MonitorStep)
  <2>0. MonitorStep /\ chain' = chain /\ up
    BY <1>4 DEF MonitorActs, chainVars
  <2>1. CASE ScheduleForward \/ ScheduleRollback
    <3>1. /\ cursor' = cursor /\ boot' = boot /\ event = NoEvent
      BY <2>1 DEF ScheduleForward, ScheduleRollback, EventInv
    <3>2. Covered(cursor)' /\ Covered(boot)'
      BY <1>a, <2>0, <3>1 DEF SkipInv, Covered
    <3>3. \A i \in DOMAIN view : view[i] \in Handled
      BY <2>0, <3>1 DEF SkipInv, SkipsOnlyWithoutCursor, InExecute, Handled, NoEvent
    <3>4. CASE ScheduleForward
      <4>1. \A i \in DOMAIN view' : \/ i \in DOMAIN view /\ view'[i] = view[i]
                                    \/ view'[i] = event'.block
        BY <1>4, <3>4, StreamForward DEF MonitorActs
      <4>2. event' = [kind |-> "forward", block |-> event'.block]
        BY <3>4 DEF ScheduleForward
      <4>3. SkipsOnlyWithoutCursor'
        BY <1>a, <3>3, <4>1, <4>2 DEF SkipsOnlyWithoutCursor, InExecute, Handled
      <4> QED
        BY <3>2, <4>3 DEF SkipInv
    <3>5. CASE ScheduleRollback
      <4>1. \A i \in DOMAIN view' : i \in DOMAIN view /\ view'[i] = view[i]
        BY <1>4, <3>5, StreamBack DEF MonitorActs
      <4>2. SkipsOnlyWithoutCursor'
        BY <1>a, <3>3, <4>1 DEF SkipsOnlyWithoutCursor, Handled
      <4> QED
        BY <3>2, <4>2 DEF SkipInv
    <3> QED
      BY <2>1, <3>4, <3>5
  <2>2. CASE FindRows \/ ConfirmTxs \/ RetryTxs \/ RollbackTxs
    BY <1>a, <2>0, <2>2, SkipRest DEF FindRows, ConfirmTxs, RetryTxs, RollbackTxs
  <2>3. CASE StoreCursor
    BY <1>4, <2>3, SkipStore DEF MonitorActs
  <2>4. CASE RetryPanic
    BY <1>a, <2>0, <2>4, SkipRest DEF RetryPanic, Panic
  <2> QED
    BY <2>0, <2>1, <2>2, <2>3, <2>4 DEF MonitorStep
<1>5. CASE MonitorActs(MonitorFault)
  <2>0. MonitorFault /\ chain' = chain
    BY <1>5 DEF MonitorActs, chainVars
  <2>1. CASE StreamRestart /\ Intersects(boot)
    <3>1. OpenStream(boot) /\ cursor' = cursor /\ boot' = boot
      BY <2>1 DEF StreamRestart
    <3>2. \A i \in DOMAIN view' : view'[i] \in Handled'
      <4>1. CASE boot = NoCursor
        <5>1. mpc = "schedule" /\ mpc' = "schedule" /\ view' = chain
          BY <2>1, <3>1, <4>1 DEF StreamRestart, MonitorReset, OpenStream
        <5>2. Blocks \subseteq Handled'
          BY <1>5, <4>1, <5>1 DEF MonitorActs, Reopens, Handled
        <5> QED
          BY <5>1, <5>2 DEF Blocks
      <4>2. CASE boot # NoCursor
        BY <1>a, <3>1, <4>2, OpensCovered DEF SkipInv
      <4> QED
        BY <4>1, <4>2
    <3>3. SkipsOnlyWithoutCursor'
      BY <3>2 DEF SkipsOnlyWithoutCursor, Handled
    <3> QED
      BY <1>a, <2>0, <3>1, <3>3 DEF SkipInv, Covered
  <2>2. CASE StreamRestart /\ ~ Intersects(boot)
    BY <1>a, <2>0, <2>2, SkipRest DEF StreamRestart, Panic
  <2>3. CASE StreamEnd \/ MonitorDbError
    BY <1>a, <2>0, <2>3, SkipRest DEF StreamEnd, MonitorDbError
  <2> QED
    BY <2>0, <2>1, <2>2, <2>3 DEF MonitorFault
<1> QED
  BY <1>1, <1>2, <1>3, <1>4, <1>5 DEF Next

(* Nothing is stored yet and no block is skipped. *)
LEMMA SkipInit == Init => SkipInv
<1> SUFFICES ASSUME Init PROVE SkipInv
  OBVIOUS
<1>1. TypeOK
  BY TypeInit
<1>2. cursor = NoCursor /\ boot = NoCursor /\ view = <<>>
  BY DEF Init, StorageInit
<1> QED
  BY <1>1, <1>2, NoCursorOffChain DEF SkipInv, SkipsOnlyWithoutCursor, Covered

(* The stream, the chain and the event agree in every reachable state. *)
LEMMA StreamHolds == Spec => [](Inv /\ EventInv /\ StreamInv)
<1>1. Init => Inv /\ EventInv /\ StreamInv
  BY InvInit, ConfirmInit, StreamInit
<1>2. Inv /\ EventInv /\ StreamInv /\ [Next]_vars => (Inv /\ EventInv /\ StreamInv)'
  BY InvStep, EventStep, StreamStep DEF Inv
<1> QED
  BY <1>1, <1>2, PTL DEF Spec

(* The cursor never runs ahead of the work, whatever fails and however the *)
(* chain forks: the only blocks a stream leaves out are those on the chain *)
(* when it was opened again without a cursor.                              *)
THEOREM SkipsOnlyWithoutCursorHolds == Spec => []SkipsOnlyWithoutCursor
<1>1. Init => SkipInv
  BY SkipInit
<1>2. Inv /\ EventInv /\ StreamInv /\ SkipInv /\ [Next]_vars => SkipInv'
  BY SkipStep DEF Inv
<1>3. SkipInv => SkipsOnlyWithoutCursor
  BY DEF SkipInv
<1> QED
  BY <1>1, <1>2, <1>3, StreamHolds, PTL DEF Spec

(* A stream that is opened at a cursor passes over nothing. *)
LEMMA NothingSkipped ==
    ASSUME [Next]_vars, skipped = {},
           Start => FirstStart \/ cursor # NoCursor,
           MonitorActs(StreamRestart) => boot # NoCursor
    PROVE  skipped' = {}
<1>1. CASE Start
  BY <1>1 DEF Start, CurrentCursor
<1>2. CASE \/ Crash \/ Submit \/ ChainActs \/ UNCHANGED vars
           \/ IngestActs(IngestStep) \/ IngestActs(IngestFault)
  BY <1>2 DEF Crash, Submit, ChainActs, IngestActs, historyVars, vars
<1>3. CASE MonitorActs(MonitorStep)
  <2>1. ~ Reopens
    BY <1>3
    DEF MonitorActs, MonitorStep, ScheduleForward, ScheduleRollback, FindRows, ConfirmTxs,
        RetryTxs, RollbackTxs, StoreCursor, RetryPanic, Reopens
  <2> QED
    BY <1>3, <2>1 DEF MonitorActs
<1>4. CASE MonitorActs(MonitorFault)
  <2>1. StreamRestart \/ ~ Reopens
    BY <1>4 DEF MonitorActs, MonitorFault, StreamEnd, MonitorDbError, Reopens
  <2>2. StreamRestart => boot # NoCursor
    BY <1>4 DEF MonitorActs
  <2> QED
    BY <1>4, <2>1, <2>2 DEF MonitorActs
<1> QED
  BY <1>1, <1>2, <1>3, <1>4 DEF Next

(* No block is skipped at all, whatever fails and however the chain forks, *)
(* as long as every stream but the first is opened at a cursor: no process *)
(* ends, and no stream fails, before the first cursor was stored and read. *)
THEOREM NoBlockSkippedHolds == Spec /\ ReopensAtCursor => []NoBlockSkipped
<1> DEFINE AtCursor == /\ Start => FirstStart \/ cursor # NoCursor
                       /\ MonitorActs(StreamRestart) => boot # NoCursor
<1>1. Init => skipped = {}
  BY DEF Init
<1>2. skipped = {} /\ [Next]_vars /\ [AtCursor]_vars => (skipped = {})'
  <2> SUFFICES ASSUME skipped = {}, [Next]_vars, [AtCursor]_vars PROVE skipped' = {}
    OBVIOUS
  <2>1. CASE UNCHANGED vars
    BY <2>1 DEF vars
  <2>2. CASE AtCursor
    BY <2>2, NothingSkipped
  <2> QED
    BY <2>1, <2>2
<1>3. Spec /\ [][AtCursor]_vars => [](skipped = {})
  BY <1>1, <1>2, PTL DEF Spec
<1>4. skipped = {} /\ SkipsOnlyWithoutCursor => NoBlockSkipped
  BY DEF SkipsOnlyWithoutCursor, NoBlockSkipped
<1> QED
  BY <1>3, <1>4, SkipsOnlyWithoutCursorHolds, PTL DEF ReopensAtCursor

-----------------------------------------------------------------------------
(* The unwrap of the retry filter. *)

(* As long as the chain has not switched forks, the stream is a prefix of  *)
(* the chain and nothing is undone.                                        *)
StreamWhole == forks = 0 => IsPrefixOf(view, chain) /\ event.kind # "rollback"

(* So no row in flight loses its slot, in the table or in the snapshot. *)
SlotsKept ==
    forks = 0 =>
        /\ \A t \in Tx : table[t].status = "inflight" => table[t].slot # NoSlot
        /\ \A t \in DOMAIN snap : snap[t].slot # NoSlot

(* A fork is never taken back. *)
LEMMA ForksGrow ==
    ASSUME TypeOK, EventInv, [Next]_vars, forks' = 0
    PROVE  forks = 0
<1>1. CASE ChainActs
  BY <1>1, ChainMoves, Shapes
<1>2. CASE Quiet \/ Opens \/ MonitorActs(ScheduleForward) \/ MonitorActs(ScheduleRollback)
  BY <1>2 DEF Quiet, Opens, MonitorActs, chainVars
<1> QED
  BY <1>1, <1>2, StepKinds

(* As long as no fork has happened the stream only moves forward along the *)
(* chain.                                                                  *)
LEMMA WholeStep ==
    ASSUME TypeOK, EventInv, StreamInv, StreamWhole, [Next]_vars
    PROVE  StreamWhole'
<1> SUFFICES ASSUME forks' = 0 PROVE IsPrefixOf(view', chain') /\ event'.kind # "rollback"
  BY DEF StreamWhole, IsPrefixOf
<1>0. IsPrefixOf(view, chain) /\ event.kind # "rollback"
  BY ForksGrow DEF StreamWhole
<1>1. CASE ChainActs
  <2>1. view' = view /\ event' = event
    BY <1>1 DEF ChainActs, adapterVars, monitorVars
  <2>2. PICK b \in Block : chain' = Append(chain, b)
    BY <1>1, ChainMoves, Shapes
  <2>3. chain \in Seq(Block) /\ view \in Seq(Block)
    BY DEF TypeOK, U5CTypeOK
  <2>4. Len(chain') = Len(chain) + 1 /\ \A i \in 1..Len(chain) : chain'[i] = chain[i]
    BY <2>2, <2>3
  <2>5. Len(view) <= Len(chain) /\ \A i \in 1..Len(view) : i \in 1..Len(chain)
    BY <1>0, <2>3 DEF IsPrefixOf
  <2>6. IsPrefixOf(view, chain')
    BY <1>0, <2>3, <2>4, <2>5 DEF IsPrefixOf
  <2> QED
    BY <1>0, <2>1, <2>6
<1>2. CASE Quiet
  BY <1>0, <1>2, GenesisPast DEF Quiet, chainVars, adapterVars
<1>3. CASE Opens
  BY <1>0, <1>3, OpensPrefix DEF Opens, chainVars
<1>4. CASE MonitorActs(ScheduleForward)
  BY <1>4, StreamForward DEF MonitorActs, ScheduleForward, chainVars
<1>5. CASE MonitorActs(ScheduleRollback)
  BY <1>0, <1>5 DEF MonitorActs, ScheduleRollback, StreamUndo
<1> QED
  BY <1>1, <1>2, <1>3, <1>4, <1>5, StepKinds

(* A slot of a row in flight is lost in a rollback only. *)
LEMMA KeptStep ==
    ASSUME Inv, EventInv, StreamWhole, SlotsKept, [Next]_vars
    PROVE  SlotsKept'
<1> SUFFICES ASSUME forks' = 0
             PROVE  /\ \A t \in Tx : table'[t].status = "inflight" => table'[t].slot # NoSlot
                    /\ \A t \in DOMAIN snap' : snap'[t].slot # NoSlot
  BY DEF SlotsKept
<1>0. /\ TypeOK /\ event.kind # "rollback" /\ mpc # "rollback"
      /\ \A t \in Tx : table[t].status = "inflight" => table[t].slot # NoSlot
      /\ \A t \in DOMAIN snap : snap[t].slot # NoSlot
  BY ForksGrow DEF Inv, StreamWhole, SlotsKept, EventInv
<1>1. ASSUME \A t \in Tx : \/ table'[t] = table[t] \/ table'[t].status # "inflight"
                           \/ table'[t].slot # NoSlot,
             snap' = snap \/ snap' = NoRows
      PROVE  /\ \A t \in Tx : table'[t].status = "inflight" => table'[t].slot # NoSlot
             /\ \A t \in DOMAIN snap' : snap'[t].slot # NoSlot
  BY <1>0, <1>1 DEF NoRows
<1>2. CASE Start \/ Crash \/ ChainActs \/ UNCHANGED vars
  BY <1>1, <1>2
  DEF Start, Crash, ChainActs, vars, storageVars, monitorVars, MonitorReset
<1>3. CASE Submit
  <2>1. snap' = snap /\ \A t \in Tx : table'[t] = table[t] \/ table'[t].status = "pending"
    BY <1>3 DEF Submit, Create, monitorVars
  <2> QED
    BY <1>1, <2>1
<1>4. CASE IngestActs(IngestStep)
  <2>1. /\ snap' = snap
        /\ \/ table' = table
           \/ \E id, n : Update(id, "failed", n)
           \/ \E id : Update(id, "inflight", tip) /\ tip # NoSlot
    BY <1>4
    DEF IngestActs, IngestStep, CountPending, NextUnit, CheckRetry, CheckTx, FailTx, SendTx,
        FetchTip, MarkInFlight, monitorVars, Inv, SlotInv
  <2>2. \A t \in Tx : \/ table'[t] = table[t] \/ table'[t].status # "inflight"
                      \/ table'[t].slot # NoSlot
    BY <2>1, UpdateRows
  <2> QED
    BY <1>1, <2>1, <2>2
<1>5. CASE IngestActs(IngestFault)
  BY <1>1, <1>5
  DEF IngestActs, IngestFault, SignError, CheckU5cError, SendNoPeer, FetchTipError,
      IngestDbError, ScheduleDbError, monitorVars
<1>6. CASE MonitorActs(MonitorStep)
  <2>0. MonitorStep
    BY <1>6 DEF MonitorActs
  <2>1. CASE FindRows
    <3>1. table' = table /\ snap' = Rows(Find("inflight"))
      BY <1>0, <2>1 DEF FindRows, EventInv
    <3> QED
      BY <1>0, <3>1 DEF Rows, Find
  <2>2. CASE ConfirmTxs
    <3> DEFINE upd == [t \in TxsConfirm |-> [status |-> "confirmed", slot |-> event.block.slot]]
    <3>1. UpdateBatch(upd) /\ snap' = snap
      BY <2>2 DEF ConfirmTxs
    <3>2. \A t \in Tx : table'[t] = table[t] \/ table'[t].status # "inflight"
      BY <3>1, UpdateBatchRows
    <3> QED
      BY <1>1, <3>1, <3>2
  <2>3. CASE RetryTxs
    <3> DEFINE upd == [t \in TxsRetry |-> [status |-> "pending", slot |-> NoSlot]]
    <3>1. UpdateBatch(upd) /\ snap' = NoRows
      BY <2>3 DEF RetryTxs
    <3>2. \A t \in Tx : table'[t] = table[t] \/ table'[t].status # "inflight"
      BY <3>1, UpdateBatchRows
    <3> QED
      BY <1>1, <3>1, <3>2
  <2>4. CASE ScheduleForward \/ ScheduleRollback \/ StoreCursor \/ RetryPanic
    BY <1>1, <2>4
    DEF ScheduleForward, ScheduleRollback, StoreCursor, RetryPanic, MonitorReset
  <2>5. ~ RollbackTxs
    BY <1>0 DEF RollbackTxs
  <2> QED
    BY <2>0, <2>1, <2>2, <2>3, <2>4, <2>5 DEF MonitorStep
<1>7. CASE MonitorActs(MonitorFault)
  BY <1>1, <1>7
  DEF MonitorActs, MonitorFault, StreamRestart, StreamEnd, MonitorDbError, MonitorReset
<1> QED
  BY <1>2, <1>3, <1>4, <1>5, <1>6, <1>7 DEF Next

(* Initially no row has a slot to lose. *)
LEMMA KeptInit == Init => StreamWhole /\ SlotsKept
<1> SUFFICES ASSUME Init PROVE StreamWhole /\ SlotsKept
  OBVIOUS
<1>1. /\ view = <<>> /\ chain = <<Genesis>> /\ event = NoEvent /\ snap = NoRows
      /\ \A t \in Tx : table[t].status = "absent"
  BY DEF Init, ChainInit, MonitorInit, StorageInit
<1>2. IsPrefixOf(view, chain)
  BY <1>1 DEF IsPrefixOf
<1> QED
  BY <1>1, <1>2 DEF StreamWhole, SlotsKept, NoEvent, NoRows

(* In a release build the unwrap of the retry filter meets a row without   *)
(* slot only after the chain has switched forks: neither crashes, nor      *)
(* retries, nor the interleaving with ingest lead there.                   *)
THEOREM PanicNeedsRollbackHolds == Spec => []PanicNeedsRollback
<1>1. Init => StreamWhole /\ SlotsKept
  BY KeptInit
<1>2. Inv /\ EventInv /\ StreamInv /\ StreamWhole /\ SlotsKept /\ [Next]_vars
         => (StreamWhole /\ SlotsKept)'
  BY WholeStep, KeptStep DEF Inv
<1>3. Inv /\ SlotsKept => PanicNeedsRollback
  <2> SUFFICES ASSUME Inv, SlotsKept, FilterPanics, ~ OverflowChecks PROVE forks > 0
    BY DEF PanicNeedsRollback
  <2>1. forks \in Nat /\ forks # 0
    BY Shapes DEF Inv, SlotsKept, FilterPanics
  <2> QED
    BY <2>1
<1> QED
  BY <1>1, <1>2, <1>3, StreamHolds, PTL DEF Spec

=============================================================================
