----------------------------- MODULE Broadcast -----------------------------
(***************************************************************************)
(* The broadcast channel from ingest to the peers: tokio's channel behind  *)
(* gasket's ports (external), as src/pipeline/mod.rs creates it and the    *)
(* peers subscribe to it.                                                  *)
(*                                                                         *)
(* Messages are numbered 1, 2, ... as they are sent.  The channel keeps    *)
(* the last RingSize of them; a receiver that is further behind learns     *)
(* that it lags and goes on with the oldest message that is left.          *)
(***************************************************************************)
EXTENDS Integers

CONSTANTS
    Addr,           \* peer addresses
    RingSize        \* what the channel holds: CAP up to a power of two

ASSUME BroadcastAssumption == RingSize \in Nat \ {0}

VARIABLES
    head,           \* number of the last message that was sent
    cur             \* number of the last message each receiver has passed

NoReceiver == -1
Receivers == {a \in Addr : cur[a] # NoReceiver}

BroadcastInit == head = 0 /\ cur = [a \in Addr |-> NoReceiver]

(* Sender::subscribe: a new receiver sees what is sent from now on. *)
Subscribe(a) == cur' = [cur EXCEPT ![a] = head]
Unsubscribe(a) == cur' = [cur EXCEPT ![a] = NoReceiver]

Behind(a) == head - cur[a]
Nothing(a) == Behind(a) = 0
Lags(a) == Behind(a) > RingSize

TakeNext(a) == cur' = [cur EXCEPT ![a] = @ + 1]
SkipToOldest(a) == cur' = [cur EXCEPT ![a] = head - RingSize]

(* Sender::len: a message counts until every receiver has passed it, or    *)
(* the ring has dropped it.  Queued(n) says that the length is n.          *)
Kept(a) == IF Lags(a) THEN RingSize ELSE Behind(a)
Queued(n) ==
    /\ \A a \in Receivers : Kept(a) <= n
    /\ n = 0 \/ \E a \in Receivers : Kept(a) = n

BroadcastTypeOK == head \in Nat /\ cur \in [Addr -> Nat \cup {NoReceiver}]

=============================================================================
