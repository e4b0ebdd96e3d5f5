------------------------------ MODULE Mempool ------------------------------
(***************************************************************************)
(* The mempool that every peer owns (src/network/mempool.rs), as operators *)
(* on its list of transactions in flight, oldest first.  A transaction is  *)
(* the number of the message it came in.  Nobody subscribes to the         *)
(* mempool's notifications, so they are left out.                          *)
(***************************************************************************)
EXTENDS Integers, Sequences

CONSTANT MempoolCap     \* CAP of the mempool

ASSUME MempoolAssumption == MempoolCap \in Nat \ {0}

Elements(s) == {s[i] : i \in DOMAIN s}

(* Slip: at the limit the new transactions are refused, not the old ones. *)
ReceiveAll_Refuse(s, txs) ==
    LET all == s \o txs
    IN  IF Len(all) > MempoolCap THEN SubSeq(all, 1, MempoolCap) ELSE all

(* receive_raw for each of txs: append, and drop the oldest at the limit. *)
ReceiveAll(s, txs) ==
    LET all == s \o txs
        excess == Len(all) - MempoolCap
    IN  IF excess > 0 THEN SubSeq(all, excess + 1, Len(all)) ELSE all

(* acknowledge: drain(..count), which panics unless Drainable. *)
Drainable(s, count) == count <= Len(s)
Acknowledge(s, count) == SubSeq(s, count + 1, Len(s))

(* find_inflight, for each of ids. *)
FindInflight(s, ids) == ids \cap Elements(s)

=============================================================================
