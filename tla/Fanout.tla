------------------------------- MODULE Fanout -------------------------------
(***************************************************************************)
(* The way of transactions from the priority queues into the broadcast     *)
(* channel: schedule of src/pipeline/ingest.rs asks the scheduler for as   *)
(* many transactions as CAP leaves beside the messages still queued.  The  *)
(* transactions are only counted.  The channel is tokio's: a ring of the   *)
(* next power of two of the size asked for, which overwrites its oldest    *)
(* message when it is full.                                                *)
(***************************************************************************)
EXTENDS Priority

CONSTANTS
    Queue,          \* the queues that transactions arrive for
    Cap,            \* CAP
    RingSize,       \* what the channel really holds
    U16,            \* 2^16, the range of u16; smaller in the instances
    MaxBacklog      \* bound on the pending transactions of a queue

ASSUME FanoutAssumption ==
    /\ IsFiniteSet(Queue) /\ MaxBacklog \in Nat
    /\ Cap \in Nat \ {0} /\ RingSize \in Nat /\ Cap <= RingSize
    /\ U16 \in Nat /\ RingSize < U16

VARIABLES
    backlog,        \* pending transactions of each queue
    queued          \* messages in the channel that some peer has not received

vars == <<backlog, queued>>

Init == backlog = [q \in Queue |-> 0] /\ queued = 0

(* CAP - queued_len, in u16: wraps around when the channel holds more. *)
CurrentCap == (Cap - queued) % U16

Total(f) == MapThenSumSet(LAMBDA q : f[q], DOMAIN f)
Waiting == [q \in {p \in Queue : backlog[p] > 0} |-> backlog[q]]

Arrive(q) ==
    /\ backlog[q] < MaxBacklog
    /\ backlog' = [backlog EXCEPT ![q] = @ + 1]
    /\ UNCHANGED queued

(* schedule and execute: some of the unit fail their validation and are    *)
(* not sent.                                                               *)
Ingest ==
    /\ CurrentCap # 0 /\ DOMAIN Waiting # {}
    /\ \E limit \in QueueLimits(Waiting, CurrentCap) :
         /\ backlog' = [q \in Queue |->
                          IF q \in DOMAIN limit THEN backlog[q] - limit[q] ELSE backlog[q]]
         /\ \E n \in 0..Total(limit) : queued' = Smaller(queued + n, RingSize)

(* The slowest peer receives a message. *)
Receive ==
    /\ queued > 0
    /\ queued' = queued - 1
    /\ UNCHANGED backlog

Next == (\E q \in Queue : Arrive(q)) \/ Ingest \/ Receive

Spec == Init /\ [][Next]_vars

-----------------------------------------------------------------------------
(* Type invariant. *)
TypeOK == backlog \in [Queue -> 0..MaxBacklog] /\ queued \in 0..RingSize

Taken(q) == backlog[q] - backlog'[q]
TakesUnit == \E q \in Queue : backlog'[q] < backlog[q]
TotalWeight == MapThenSumSet(WeightOf, DOMAIN Waiting)

(* docs/app/priority: a queue never gets less than its share by weight of  *)
(* the capacity, counted in whole transactions, as long as it has that     *)
(* many: whatever the order of the map, and whatever others leave over.    *)
ShareGuaranteed ==
    [][TakesUnit =>
         \A q \in DOMAIN Waiting :
            Taken(q) >= Smaller(backlog[q], (WeightOf(q) * CurrentCap) \div TotalWeight)]_vars

(* When no queue leaves anything over, the slots are distributed by weight *)
(* to the nearest transaction.                                             *)
ProportionalWhenFull ==
    [][TakesUnit /\ (\A q \in DOMAIN Waiting : backlog'[q] > 0) =>
         \A q \in DOMAIN Waiting :
            2 * (Taken(q) * TotalWeight - WeightOf(q) * CurrentCap)
               \in -TotalWeight .. TotalWeight]_vars

(* Rounding hands out more than the capacity, but never more than half a   *)
(* transaction for every queue.                                            *)
OvershootBounded ==
    [][TakesUnit =>
         MapThenSumSet(LAMBDA q : Taken(q), DOMAIN Waiting)
            <= CurrentCap + Cardinality(DOMAIN Waiting) \div 2]_vars

=============================================================================
