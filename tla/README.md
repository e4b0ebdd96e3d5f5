# A TLA+ model of Boros

Boros stores transactions that clients submit over gRPC, sends them to Cardano
nodes by priority, follows the chain through a UTxO RPC service, and confirms,
retries or rolls back what it sent. This directory holds TLA+ modules for the
parts of Boros that carry state, TLC configurations that check them on small
instances, and proofs that TLAPS checks for every instance. Paths below are
relative to the repository; the Rust code is in `src/`.

## The system

| Part | State it keeps | Operations | Talks to |
|---|---|---|---|
| Storage (`storage/`) | SQLite tables `tx` and `cursor` | create, find, find_to_rollback, latest, state, next, update, update_batch; cursor set and current | called by all others |
| Submit service (`server/submit.rs`) | one task per request | submit_tx, lock_state | validation, chaining, storage |
| Chaining (`queue/chaining.rs`) | per chained queue: two channels, a worker task, the current token | lock, unlock, is_valid_token, the worker loop with a 30 s timeout | storage, response streams |
| Priority (`queue/priority.rs`) | none | quota, next | storage |
| Ingest stage (`pipeline/ingest.rs`) | the unit: copies of rows | schedule, execute (sign, validate, broadcast, mark) | priority, signing, UTxO RPC, storage, broadcast channel |
| Monitor stage (`pipeline/monitor.rs`) | the event at hand, rows it has fetched | bootstrap, schedule, execute (confirm, retry, roll back, store cursor) | chain stream, storage |
| UTxO RPC adapter (`ledger/u5c/`) | the cursor read at process start | fetch_tip, stream, fetch_utxos, fetch_pparams | external service |
| Stage runtime (crate gasket) | per stage: bootstrapped, unit | retry, restart, panic | the stages |
| Broadcast channel (`pipeline/mod.rs`, crates tokio and gasket) | a ring of the last messages, a position per receiver | send, len, subscribe, recv | ingest, peers |
| Peers (`network/peer.rs`, `network/mempool.rs`) | connection, task, mempool of what the node has not acknowledged | the request loop, collect_transactions with two timeouts, receive_raw, acknowledge, find_inflight | broadcast channel, nodes |
| Peer manager, discovery stage (`network/peer_manager.rs`, `pipeline/peer_discovery/`) | the map of peers with their flags, a count of units under way | init, add_peer, pick_peer_rand, connected_peers_count; schedule, execute | peers, relay list |

The stages and the tasks of the server run in parallel and share only the
database, the broadcast channel and the token map. What is hard about that:

- ingest and monitor copy rows, await other calls, and write back **by id**,
  whatever the row has become;
- a failed call makes the runtime run `execute` again with the **same** copy;
- the rows and the cursor are written by separate calls, and the process may
  die between any two; blocks are then delivered again;
- the chain changes forks, the stream undoes blocks, breaks, or ends;
- slots are `u64`, capacities `u16`, shares `f32`;
- a lock token is checked long before the rows are stored, and unlock messages
  carry no token;
- ingest fills the channel by what it holds when a unit is scheduled, while
  peers subscribe, read, lag or die;
- a node acknowledges by count, so the mempool of its peer must hold what the
  node was offered in the same order, also after a timeout has cancelled a
  collection half way;
- the discovery stage counts peers long before a new one is connected.

PROJECT.json lists these as hazards, each at its line.

## Modules

| Module | Models |
|---|---|
| `Storage` | the database: rows with status, slot and creation order; every query as an operator |
| `Gasket` | the runtime and the faults that may happen (external) |
| `U5C` | the adapter, and the chain behind it (external): blocks, forks, and a stream that remembers what it has delivered |
| `Priority` | quota and next, as operators |
| `Monitor` | the monitor stage: one action per call that `execute` awaits, `mpc` is the point it has reached, `snap` the rows fetched |
| `Ingest` | the ingest stage likewise: `ipc`, `unit`, `pos`, `tip` |
| `Pipeline` | the process: both stages, submissions, start and crash, the chain; the properties |
| `TxLifecycle` | abstract: the statuses and the only moves between them |
| `Chaining` | the lock workers, their channels and tokens |
| `Server` | concurrent submit_tx and lock_state calls on top of `Chaining`; the properties |
| `Fanout` | how full the broadcast channel is, and the scheduler that fills it; the properties |
| `Broadcast` | the broadcast channel (external) |
| `Mempool` | the mempool of a peer, as operators on its list |
| `Peer` | the task of each peer and the node behind it (external): `task` is the point it has reached |
| `PeerManager` | the manager's map and the discovery stage: `dpc` is the point it has reached |
| `Network` | start-up of the peers, ingest filling the channel, all peers and the discovery stage together; the properties |
| `PipelineProofs`, `LifecycleProofs`, `RecoveryProofs` | theorems about `Pipeline` |
| `ServerProofs` | theorems about `Server` |
| `FanoutProofs` | theorems about `Fanout` |
| `NetworkProofs`, `MempoolProofs` | theorems about `Network` |
| `MCPipeline`, `MCServer`, `MCFanout`, `MCNetwork` | constants for TLC |

Operators whose comment begins with "Slip" are wrong variants of the operator
below them. No specification uses them; each one, put in the place of its
neighbour, makes TLC report the property that PROJECT.json names with it.

### Correspondence and abstractions

- A step ends where the code awaits something that another task can influence.
  One SQL statement or database transaction is one step. For the monitor the
  steps of `execute` are `FindRows`, `ConfirmTxs`, `RetryTxs`, `RollbackTxs`,
  `StoreCursor`; for ingest they are `CountPending` and `NextUnit` (the two queries
  of `schedule`), `CheckTx`, `FailTx`, `SendTx`, `FetchTip`, `MarkInFlight`.
  `or_retry` is `MonitorDbError`, `ScheduleDbError`, `RunAgain`; `or_restart` is
  `StreamRestart`; the `unwrap` of the retry filter is `RetryPanic`.
- A transaction is its id. Validity is: not in `BadTx`, and not on the chain
  already (its inputs are spent then). An error of the service inside
  validation counts as invalid, as in the code.
- A block is a slot, a fork number (its hash) and a set of transactions that
  were broadcast. Forks of any depth happen, `MaxForks` times.
- A wrapping difference of slots is taken modulo `SlotModulus` (2^64 in the
  program). `OverflowChecks` chooses between a release and a debug build; the
  Dockerfile builds a release.
- `f32` shares: for 8-bit weights and capacities up to 50 the program's
  rounding gives the nearest integer, except at exact ties, where either
  neighbour comes out. The model takes the nearest integer and leaves ties open.
- `HashMap` iteration order is any order.
- In `Pipeline` the server's part is reduced to the row insertion, and the
  capacity that ingest asks for is any value from 1 to `Cap`; with a capacity of 0
  the stage idles, which changes nothing. `Server`, `Fanout` and `Network` have the
  details.
- `created_at` is the clock when `Transaction::new` runs, before the INSERT, so
  another call may store a later row first. In `Server` each accepted transaction
  takes a stamp beyond all stamps in use (`IsNow`, at most `MaxStamp`), and the rows
  get them when they are stored. In `Pipeline` the stamps of a request are any new
  ones in order (`Fresh`). The clock is taken to move on between two stamps.
- `applied` holds the blocks whose cursor was stored, and those on the chain when
  the very first stream was opened, which Boros never means to read. A stream that
  is opened again without a cursor starts at the tip, be it by a start after a
  crash or by a stream error: the blocks it leaves out are in `skipped`.
- In `Server` a client sends the same token for all transactions of a queue in
  one request; tokens are never made twice. A timeout may come at any moment.
  The field `chained` of a call is `chained_queues` of `submit_tx`: one entry for
  each accepted transaction of a chained queue, and one unlock message each.
- In `Network` a transaction is the number of its message. The channel keeps
  the last `RingSize` messages (the capacity rounded up to a power of two); a
  receiver that is further behind learns that it lags and goes on with the
  oldest. Ingest is reduced to the size of its unit (`unit`, `togo`), the sending
  and the errors: `Rerun` is the `or_retry` of `execute`, before the send
  (`CheckError`) or after it (in `SendTx`), and starts the same unit again. How the
  unit is composed is in `Fanout`; `Overshoot` is what `OvershootBounded` allows
  there. `room` is what is left of the capacity that the unit was scheduled for,
  and `exceeded` tells that a message was sent without any left.
- Both timeouts of `collect_transactions` are counted in ticks, which pass only
  while nothing is there to receive; when both are due, either comes first. The
  cancelled collection loses what it had taken from the channel.
- The node keeps what it was offered and has not acknowledged, at most `Window`
  ids, chosen per node; a request for ids is blocking if and only if that
  leaves nothing (ADR 004). Requests for bodies change nothing and are no
  action: `ToSend` is their answer. `MempoolCap` is 100 in the program.
- A connection breaks at most `MaxLost` times. The task notices when it waits
  for the next request. A panic in `drain` ends the task alone; the connection,
  the receiver and `is_alive` stay.
- `add_peer` subscribes before it connects, so the receiver of a peer that has
  no task yet counts in the length of the channel. The differences of `u8` and
  `u16` wrap, as in a release build.
- `sent`, `delivered`, `applied`, `skipped`, `grants`, `expired`, `by`, `room` and
  `exceeded` are history: no guard reads them, except that the chain takes its transactions
  from `sent`, clients send tokens they were granted, and tokens are numbered by
  `grants`.

## Runs

All bounds are small; each is chosen so that the case the run is about happens.

| Run | Instance | Shows |
|---|---|---|
| `pipeline_lifecycle` | 2 transactions in 2 queues, one signed by the server and one invalid, 2 slots, no fork; one crash or failed monitor call; fairness | `TypeOK`; the copies of both stages stay current (`UnitIsCurrent`, `SnapIsCurrent`); refinement of `TxLifecycle` (`LifecycleSpec`); `PendingHandled`, `StuckIsRetried` |
| `pipeline_rollback` | 1 transaction, 3 slots, one fork switch, one crash, failed monitor call or stream error | `ConfirmedInBlock`, `SkipsOnlyWithoutCursor`, `ConfirmedSlotStable` |
| `pipeline_faults` | 2 transactions, one in a queue that is not configured, two faults of every kind | `SentBeforeInFlight`, `SlotDiscipline`; the retry filter meets no row without slot unless a fork happened (`PanicNeedsRollback`) |
| `chaining` | 2 transactions in one chained queue, 2 clients, 2 concurrent requests of up to 2 transactions, 2 locks, an unlock channel of 1, 3 stamps | `TypeOK`, `TokenOnlyWhileHeld`, `ChainLinear`, and `LockAnswered` under fairness |
| `priority` | weights 3, 2 and one queue not configured, backlogs to 6, capacity 6, ring 8 | `TypeOK`, `ShareGuaranteed`, `ProportionalWhenFull`, `OvershootBounded` |
| `network` | one configured peer with a window of 2 and a mempool of 1, two that can be discovered (one is a relay), two desired; capacity 1, ring 2, `u16` of 4 values, 3 messages; one error that runs `execute` again; ticks 1 and 2; one connection breaks; fairness | `TypeOK`, `MempoolMirrorsNode`, `FifoOrder`, `ChannelWithinCap`, `ConnectedWithinDesired`; `NonBlockingAnswered`, `OnlyBrokenStalls`, `KeepsLooking` |

Two transactions are enough for the pipeline, because the stages treat the
transactions of a unit one by one, and interference needs one transaction at
hand and one waiting. Two slots with `RetrySlotDiff` = 0, or three with 1, leave
room for a block that confirms, a block that is late, and one by which a retry
is due. One fault
interrupts every step once; two let a second fault hit the recovery from the
first. Three stamps let one call take its time before another one stores a row
and after it.

In `network` the ring is larger than the capacity, as in the program (64 and
50). One error after a send is enough for the rest: the unit is sent again, the
channel holds more than `Cap`, the next capacity wraps, and the unit scheduled
for it makes a receiver lag. `Overshoot` is 0 there, since a unit that rounding
made too large exceeds the capacity by the same steps; the theorem has any
`Overshoot`. A window beyond the mempool makes it drop and `drain` panic, the
outer timeout is due after the inner one has fired with or without a message, and
a third address is left over when two peers are connected. The windows of the
discovered peers are within the mempool, so that both sides of
`MempoolMirrorsNode` are met. Deadlock is not checked where the bounds end the
behaviours.

Six runs are expected to be violated: each states what the documentation or a
test says and finds the behaviour of the code that contradicts it (findings in
PROJECT.json).

| Run | Statement | What happens |
|---|---|---|
| `retry_underflow` | configuration: a retry needs more than `retry_slot_diff` slots | ingest records a tip newer than the block the monitor is at; the difference wraps |
| `rollback_retry` | README: rolled back transactions are retried | the rolled back row has no slot; the next block panics, again after every start |
| `rollback_confirmed` | README: rollbacks update the status | `slot > n` leaves out the transactions of the undone block itself |
| `unknown_queue` | priority: unknown queues use the default weight | `execute` returns Retry for ever |
| `stale_unlock` | test `it_should_wait_timeout_to_lock_queue` | an unlock left in the channel releases the next holder's lock |
| `stuck_peer` | ADR 004: one peer's trouble does not disrupt the distribution | the receiver of a peer whose task has ended is never dropped; the channel stays full and nothing is sent to the other peer |

### Fairness

`Pipeline!LiveSpec`: weak fairness of the monitor's and of ingest's own steps
(each stage has a thread that polls it for ever) and of `Start` (a supervisor
starts the process again; without one a crash ends everything). No fairness for
faults, clients or the chain. `PendingHandled` needs that the other queues run
empty eventually, which the bounded submissions give; under a steady load a
queue whose share rounds to zero may wait for ever. Ingest finds capacity in the channel
again and again, which `OnlyBrokenStalls` is about. `StuckIsRetried` starts
from a stored cursor: before the first one, a restart skips to the tip.

`Server!LiveSpec`: weak fairness of each worker, whose timer always fires; none
for clients and requests.

`Network!LiveSpec`: weak fairness of ingest, of the spawning of the stages, and
of the steps of the discovery stage that need no answer (`StageStep`; the call of
`add_peer` gives up after five seconds). For each peer, weak fairness of its task
together with its node: the task is polled and its timers fire, and a node whose
connection is up asks again. No fairness at all for the answer to
`discover_peers`, for which `peer.rs` waits without a timeout, nor for its error:
`KeepsLooking` names a peer that never answers as a way in which discovery
stops. Of `random_bool` it is assumed that it does not fall on the side without an
address for ever: strong fairness of a step of the stage that ends with an
address, and, if peers answer infinitely often, infinitely many answers that
end with one. No fairness for connections that break, for configured peers that
come up, or for errors of ingest, of which `MaxErrors` bounds the number.

## Proofs

TLAPS proves, for every value of the constants that satisfies the ASSUMEs:

- `PipelineTypeCorrect`: `Spec => []TypeOK`.
- `SentBeforeInFlightHolds`, `SlotDisciplineHolds`: with every kind and number
  of faults. Neither is inductive: the monitor writes rows it fetched earlier,
  and ingest marks the transaction it sent two steps before. `SendInv` adds that
  fetched rows belong to sent transactions and that ingest at `tip` or `mark` has
  sent its transaction; `SlotInv` adds that copies carry no slot, that the tip is
  known at `mark`, and that rows fetched for a rollback lie above its slot.
- `UnitIsCurrentHolds`, `SnapIsCurrentHolds` and `PipelineImplementsLifecycle`: `Spec =>
  LifecycleSpec`, with crashes, rollbacks, broken streams and failed calls of the
  monitor, under the assumption `NoIngestRetry` (no error runs ingest's
  `execute` again). The invariant is `CopyInv`: ids in a unit are distinct, what
  is left of the unit is pending and not in the monitor's hands, and the
  monitor's rows have the status it fetched them with. The two halves need each
  other: the monitor fetches only rows in flight or confirmed, ingest only
  pending ones, and each moves rows out of its own set only. Every step then
  maps to one move of `TxLifecycle` or to none.
- `NetworkTypeCorrect`: `Spec => []TypeOK` for `Network`, with `PeersOK`: a task
  exists only for a peer that is alive and has a receiver, no receiver is ahead
  of the channel, and the stage asks only peers that are alive and connects only
  addresses that nobody knows.
- `ChannelNeverOverfull`: `ChannelWithinCap` is not inductive, since the rest of
  the unit is still to come. `RoomFits` adds it: as long as `exceeded` is false,
  what a receiver has not taken and what is left of the capacity the unit was
  scheduled for are together within `Cap`, however often the unit runs. So
  `CAP - queued_len` does not wrap, and no receiver is overrun, before some unit
  has sent more than its capacity. After that both happen in the model and in the
  program.
- `NeverTooManyPeers`: `RoomForTarget` says that there is room for one more peer
  from the moment the stage has counted until it is done with the address.
- `MempoolMirrors`, `OfferedInOrder` (`MempoolProofs`): `AllOffered` bounds what
  the node holds together with what is collected for it by its window, whichever
  way a collection ends, and says that nothing is left of a collection that is
  over. Lemmas on ends of lists (`NewestOfConcat`, `NewestOfDropBoth`,
  `ReceiveAllNewest`) and on ordered lists (`InOrderPart`, `InOrderAppend`) carry
  the steps.
- `ConfirmedInBlockHolds`, `ConfirmedSlotStableHolds` (`RecoveryProofs`): with all
  faults and forks. `EventInv` ties the event to the point that `execute` has
  reached; `ConfirmInv` adds that what the monitor found in flight is not
  confirmed when it writes the batch, because nobody else confirms.
- `SkipsOnlyWithoutCursorHolds`: with all faults and forks and no hypothesis. The
  property says nothing of the points at which a stream will be opened, so it is
  not inductive. `SkipInv` adds that everything below the stored cursor and below
  the cursor read at the start is handled or known to be skipped, if that point is
  on the chain. To keep this through forks, `StreamInv` relates stream and chain:
  slots grow along the chain, no remembered point is one of a block still to be
  forged, a delivered block that is on the chain has the chain's history, and an
  undone block never returns.
- `NoBlockSkippedHolds`: nothing is skipped at all under `ReopensAtCursor`, that
  is, if every stream but the first is opened at a cursor. The hypothesis is not
  one the code guarantees. A crash after the first blocks were delivered and
  before the first cursor is stored, or a stream error in a process that started
  without a cursor, makes `bootstrap` go to the tip once more and leaves blocks out
  (hazards at `monitor.rs` 52 and 58).
- `PanicNeedsRollbackHolds`: `StreamWhole` (without forks the stream is a prefix
  of the chain and undoes nothing) and `SlotsKept` (then rows in flight, in the
  table and in the monitor's copy, have a slot).
- `ServerTypeCorrect`, `TokensExpire` (`ServerProofs`): `TokenInv`. The token in
  the map was made for its queue and has reached its client exactly while the
  worker waits; calls and rows carry only tokens that clients got, and those of
  accepted transactions belong to the queue.
- `ChainsAreLinear`: `ChainInv` adds, for a queue that is used as intended
  (`Disciplined`), that at most one unlock is in the channel or still owed by a
  call, and then the lock is held with a used token (`OneOwed`); that the holder
  of an unused lock was told what is still the latest row (`BaseOK`); that
  all other tokens are used (`SpentOK`); and that what a call has
  accepted with an unused token was stamped after every row of the queue
  (`StampsOK`), so that `latest()` by `created_at` is the row stored last. So a call that has passed the token
  check with a token already replaced cannot store a first transaction for it.
  Discipline once lost does not come back, so each step may assume it of the
  state before.
- `FanoutTypeCorrect`, `ShareGuaranteedHolds`, `ProportionalWhenFullHolds`,
  `OvershootBoundedHolds` (`FanoutProofs`): for any number of queues and any
  capacity, every iteration order and every way to round a tie. The model rounds
  exact quotients; that `f32` does the same is argued above for the program's
  ranges only. `TypeOK` is inductive, since a limit is at most what waits. The
  sum over a set and the leftover carried along the loop are recursive functions;
  the lemmas on them (`SumExists`, `SumRemove`, `LeftExists`, `LeftNat`,
  `LimitsWithinQuotas`, `QuotasBounded`) argue about a least counterexample,
  which needs only that naturals and subsets of a finite set are well founded.
  The overshoot then follows: limits add up to at most the quotas, each quota is
  within half a transaction of its share, and the shares add up to the capacity.

Without `NoIngestRetry` the refinement does not hold: a second pass over the
copy broadcasts and marks transactions that have moved on. All other theorems
about the pipeline survive that.

Every invariant and every action property of the passing runs is a theorem.
`NoBlockSkipped` is a theorem without a run, because it needs its hypothesis.
Only model-checked: liveness (`PendingHandled`, `StuckIsRetried`, `LockAnswered`,
`NonBlockingAnswered`, `OnlyBrokenStalls`, `KeepsLooking`), because temporal
reasoning with fairness is beyond the prover.

## Not modelled

Ledger validation rules, the mapping of protocol parameters, signing and key
derivation: data without control that Boros keeps state of; the model has
their outcomes. The relay adapter is a mock, `server/utxorpc.rs` is not compiled,
the mock submission server belongs to the tests. Reset messages of the stream
are ignored by the code and by the model. The notifications of the mempool
have no subscriber. IPv6 addresses in an answer to a share request count as no
address. That `Daemon::block` keeps the thread which also polls the server is
noted as a hazard only: the order of two futures on one thread has no state that
the other modules share.

## Plan

Done: the pipeline (`Storage`, `U5C`, `Gasket`, `Monitor`, `Ingest`, `Pipeline`,
`TxLifecycle`), the server (`Chaining`, `Server`), the scheduler (`Priority`,
`Fanout`), the network (`Broadcast`, `Mempool`, `Peer`, `PeerManager`,
`Network`), and the proofs above.

Left:

1. Start-up order of pipeline and server.
2. More of the theorems under weaker hypotheses: which part of the life cycle
   survives a second run of ingest's `execute`, and by how much the channel can
   exceed `Cap` if only rounding does it, as bounded by `OvershootBoundedHolds`.
