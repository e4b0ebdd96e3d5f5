------------------------------ MODULE Priority ------------------------------
(***************************************************************************)
(* The queue scheduler of src/queue/priority.rs: how many transactions of  *)
(* each queue the next unit of work may hold.                              *)
(*                                                                         *)
(* A queue's quota is its share of the capacity by weight, rounded in      *)
(* 32-bit floating point.  For 8-bit weights and capacities up to 50 that  *)
(* arithmetic gives the nearest integer, and at an exact tie either        *)
(* neighbour (13/22 * 11 is rounded down, 1/4 * 50 up): a tie is a choice. *)
(* The quotas are visited in the iteration order of a HashMap (the sort in *)
(* quota() is lost when its result is collected), that is in any order.    *)
(***************************************************************************)
EXTENDS Integers, FiniteSets, FiniteSetsExt

CONSTANT Weight         \* the configured queues: name -> weight

ASSUME PriorityAssumption == \A q \in DOMAIN Weight : Weight[q] \in 0..255

DefaultWeight == 1
Configured == DOMAIN Weight

WeightOf(q) == IF q \in Configured THEN Weight[q] ELSE DefaultWeight

(* Slip: the share is cut instead of rounded. *)
Share_Floor(w, total, cap) == IF total = 0 THEN {0} ELSE {(w * cap) \div total}

(* ((weight / total) * cap).round() as u16; 0/0 is NaN, and NaN as u16 is 0 *)
Share(w, total, cap) ==
    IF total = 0
    THEN {0}
    ELSE {n \in 0..cap : 2 * w * cap - 2 * n * total \in -total .. total}

Quotas(qs, cap) ==
    LET total == MapThenSumSet(WeightOf, qs)
    IN  {quota \in [qs -> 0..cap] :
           /\ \A q \in qs : quota[q] \in Share(WeightOf(q), total, cap)
           /\ \A p, q \in qs : WeightOf(p) = WeightOf(q) => quota[p] = quota[q]}

Orders(qs) ==
    LET n == Cardinality(qs)
    IN  {ord \in [1..n -> qs] : \A i, j \in 1..n : i # j => ord[i] # ord[j]}

Smaller(a, b) == IF a < b THEN a ELSE b

(* Slip: a quota that was used is handed on as well. *)
Leftover_Kept(count, quota, ord) ==
    LET leftover[i \in 0..Cardinality(DOMAIN ord)] ==
          IF i = 0 THEN 0 ELSE quota[ord[i]] + leftover[i - 1]
    IN  leftover

(* The loop of next: leftover[i] is what the first i queues did not use. *)
Leftover(count, quota, ord) ==
    LET leftover[i \in 0..Cardinality(DOMAIN ord)] ==
          IF i = 0
          THEN 0
          ELSE LET current == quota[ord[i]] + leftover[i - 1]
               IN  current - Smaller(count[ord[i]], current)
    IN  leftover

(* Slip: a queue gets the leftover instead of its quota. *)
QueueLimit_LeftoverOnly(count, quota, ord) ==
    LET leftover == Leftover(count, quota, ord)
    IN  [q \in DOMAIN quota |->
           LET i == CHOOSE k \in DOMAIN ord : ord[k] = q
           IN  Smaller(count[q], IF leftover[i - 1] > 0 THEN leftover[i - 1] ELSE quota[q])]

(* Slip: a queue uses its whole quota, whether it has the transactions. *)
QueueLimit_WholeQuota(count, quota, ord) ==
    LET leftover == Leftover(count, quota, ord)
    IN  [q \in DOMAIN quota |->
           LET i == CHOOSE k \in DOMAIN ord : ord[k] = q IN quota[q] + leftover[i - 1]]

QueueLimit(count, quota, ord) ==
    LET leftover == Leftover(count, quota, ord)
    IN  [q \in DOMAIN quota |->
           LET i == CHOOSE k \in DOMAIN ord : ord[k] = q
           IN  Smaller(count[q], quota[q] + leftover[i - 1])]

(* What next may pass on to the storage for these counts and capacity. *)
QueueLimits(count, cap) ==
    {QueueLimit(count, quota, ord) :
        quota \in Quotas(DOMAIN count, cap), ord \in Orders(DOMAIN count)}

=============================================================================
