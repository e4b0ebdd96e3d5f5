-------------------------------- MODULE Peer --------------------------------
(***************************************************************************)
(* The background task of a peer (src/network/peer.rs): answers the        *)
(* requests of a node with transactions taken from the broadcast channel.  *)
(*                                                                         *)
(* The node is external.  It keeps the ids that it was offered and has not *)
(* acknowledged yet (window), never more than its Window, and follows the  *)
(* rule that docs/app/design/adrs/004-fanout repeats: a request for ids is *)
(* blocking if and only if that leaves nothing unacknowledged.             *)
(*                                                                         *)
(* Both timeouts are counted in ticks.  Time passes only while the task    *)
(* waits for a message: what is there is taken before a timeout is looked  *)
(* at.  When both timeouts are due, either may come first.                 *)
(***************************************************************************)
EXTENDS Broadcast, Mempool

CONSTANTS
    Window,         \* the most ids that each node leaves unacknowledged
    InnerTicks,     \* 500 ms, the timeout of one receive
    OuterTicks      \* 1 s, the timeout of a non-blocking collection

ASSUME PeerAssumption ==
    /\ Window \in [Addr -> Nat \ {0}]
    /\ InnerTicks \in Nat \ {0} /\ OuterTicks \in Nat /\ InnerTicks < OuterTicks

VARIABLES
    task,           \* where the task of each peer is
    link,           \* the connection is up
    req,            \* the request being answered
    got,            \* the messages collected for it
    inner,          \* ticks of the receive under way
    outer,          \* ticks of the non-blocking collection under way
    inflight,       \* the mempool
    window          \* the node: ids offered and not acknowledged

peerVars == <<task, link, req, got, inner, outer, inflight, window>>

NoRequest == [kind |-> "none", n |-> 0]

(* Peer::new: no task yet. *)
PeerInit ==
    /\ task = [a \in Addr |-> "none"] /\ link = [a \in Addr |-> FALSE]
    /\ req = [a \in Addr |-> NoRequest] /\ got = [a \in Addr |-> <<>>]
    /\ inner = [a \in Addr |-> 0] /\ outer = [a \in Addr |-> 0]
    /\ inflight = [a \in Addr |-> <<>>] /\ window = [a \in Addr |-> <<>>]

(* Peer::init: connected, the task is spawned. *)
Connect(a) ==
    /\ task' = [task EXCEPT ![a] = "next"]
    /\ link' = [link EXCEPT ![a] = TRUE]
    /\ UNCHANGED <<req, got, inner, outer, inflight, window>>

-----------------------------------------------------------------------------
(* Requests.  TxIds and TxIdsNonBlocking: acknowledge first; a panic in    *)
(* drain ends the task, but neither the connection nor the receiver.       *)
RequestTxIds(a) ==
    /\ task[a] = "next" /\ link[a]
    /\ \E ack \in 0..Len(window[a]) :
         LET rest == SubSeq(window[a], ack + 1, Len(window[a]))
             kind == IF rest = <<>> THEN "block" ELSE "nonblock"
         IN
         \E n \in 0..Window[a] - Len(rest) :
           /\ n = 0 => ack > 0 /\ kind = "nonblock"
           /\ window' = [window EXCEPT ![a] = rest]
           /\ IF Drainable(inflight[a], ack)
              THEN /\ inflight' = [inflight EXCEPT ![a] = Acknowledge(@, ack)]
                   /\ req' = [req EXCEPT ![a] = [kind |-> kind, n |-> n]]
                   /\ task' = [task EXCEPT ![a] = IF n = 0 THEN "offer" ELSE "collect"]
              ELSE /\ task' = [task EXCEPT ![a] = "panic"]
                   /\ UNCHANGED <<inflight, req>>
    /\ UNCHANGED <<head, cur, link, got, inner, outer>>

(* Txs: the bodies of the ids that are found in the mempool are sent.      *)
(* Nothing changes, whether the reply succeeds or not: the request needs   *)
(* no action, only its answer counts.                                      *)
ToSend(a, ids) == FindInflight(inflight[a], ids)

-----------------------------------------------------------------------------
(* collect_transactions: "collect" is the loop, "wait" the receive without *)
(* a timeout that follows when a timeout found nothing collected.          *)

(* The collection is over with these messages. *)
Collected(a, msgs) ==
    /\ got' = [got EXCEPT ![a] = msgs]
    /\ task' = [task EXCEPT ![a] = "offer"]
    /\ inner' = [inner EXCEPT ![a] = 0] /\ outer' = [outer EXCEPT ![a] = 0]

(* Slip: the message is put in front. *)
Pushed_Front(a) == <<cur[a] + 1>> \o got[a]
Pushed(a) == Append(got[a], cur[a] + 1)

Receive(a) ==
    /\ task[a] \in {"collect", "wait"} /\ ~ Nothing(a) /\ ~ Lags(a)
    /\ TakeNext(a)
    /\ LET msgs == Pushed(a) IN
       IF task[a] = "wait" \/ Len(msgs) = req[a].n
       THEN Collected(a, msgs)
       ELSE /\ got' = [got EXCEPT ![a] = msgs]
            /\ inner' = [inner EXCEPT ![a] = 0]
            /\ UNCHANGED <<task, outer>>
    /\ UNCHANGED <<head, link, req, inflight, window>>

(* Lagged: the loop goes on; outside of it, the error ends the collection  *)
(* with nothing.                                                           *)
ReceiveLagged(a) ==
    /\ task[a] \in {"collect", "wait"} /\ Lags(a)
    /\ SkipToOldest(a)
    /\ IF task[a] = "wait"
       THEN Collected(a, <<>>)
       ELSE inner' = [inner EXCEPT ![a] = 0] /\ UNCHANGED <<task, got, outer>>
    /\ UNCHANGED <<head, link, req, inflight, window>>

InnerTimeout(a) ==
    /\ task[a] = "collect" /\ Nothing(a) /\ inner[a] = InnerTicks
    /\ IF got[a] = <<>>
       THEN /\ task' = [task EXCEPT ![a] = "wait"]
            /\ inner' = [inner EXCEPT ![a] = 0]
            /\ UNCHANGED <<got, outer>>
       ELSE Collected(a, got[a])
    /\ UNCHANGED <<head, cur, link, req, inflight, window>>

(* Slip: the receive without a timeout of its own is not covered. *)
OuterTimeout_LoopOnly(a) ==
    /\ task[a] = "collect" /\ req[a].kind = "nonblock"
    /\ Nothing(a) /\ outer[a] = OuterTicks
    /\ Collected(a, <<>>)
    /\ UNCHANGED <<head, cur, link, req, inflight, window>>

(* The timeout around a non-blocking collection drops its future, with     *)
(* what it has collected.                                                  *)
OuterTimeout(a) ==
    /\ task[a] \in {"collect", "wait"} /\ req[a].kind = "nonblock"
    /\ Nothing(a) /\ outer[a] = OuterTicks
    /\ Collected(a, <<>>)
    /\ UNCHANGED <<head, cur, link, req, inflight, window>>

(* Slip: a timer that is due is not looked at. *)
Tick_Overdue(a) ==
    /\ task[a] = "collect" /\ Nothing(a)
    /\ inner' = [inner EXCEPT ![a] = @ + 1]
    /\ outer' = [outer EXCEPT ![a] = IF req[a].kind = "nonblock" THEN @ + 1 ELSE @]
    /\ UNCHANGED <<head, cur, task, link, req, got, inflight, window>>

Tick(a) ==
    LET inLoop == task[a] = "collect"
        bounded == req[a].kind = "nonblock"
    IN
    /\ inLoop \/ (task[a] = "wait" /\ bounded)
    /\ Nothing(a)
    /\ inLoop => inner[a] < InnerTicks
    /\ bounded => outer[a] < OuterTicks
    /\ inner' = [inner EXCEPT ![a] = IF inLoop THEN @ + 1 ELSE @]
    /\ outer' = [outer EXCEPT ![a] = IF bounded THEN @ + 1 ELSE @]
    /\ UNCHANGED <<head, cur, task, link, req, got, inflight, window>>

(* propagate_txs: a reply that fails is only logged. *)
PropagateTxs(a, txs) ==
    window' = [window EXCEPT ![a] = IF link[a] THEN @ \o txs ELSE @]

(* receive_raw of what was collected, and the reply. *)
Offer(a) ==
    /\ task[a] = "offer"
    /\ inflight' = [inflight EXCEPT ![a] = ReceiveAll(@, got[a])]
    /\ PropagateTxs(a, got[a])
    /\ got' = [got EXCEPT ![a] = <<>>]
    /\ task' = [task EXCEPT ![a] = "next"]
    /\ req' = [req EXCEPT ![a] = NoRequest]
    /\ UNCHANGED <<head, cur, link, inner, outer>>

-----------------------------------------------------------------------------
(* The connection breaks (external), and what the node knew of it is gone; *)
(* the task notices when it waits for the next request, leaves its loop    *)
(* and aborts the multiplexer.                                             *)
LoseLink(a) ==
    /\ link[a]
    /\ link' = [link EXCEPT ![a] = FALSE]
    /\ window' = [window EXCEPT ![a] = <<>>]
    /\ UNCHANGED <<head, cur, task, req, got, inner, outer, inflight>>

NextRequestError(a) ==
    /\ task[a] = "next" /\ ~ link[a]
    /\ task' = [task EXCEPT ![a] = "ended"]
    /\ UNCHANGED <<head, cur, link, req, got, inner, outer, inflight, window>>

TaskStep(a) ==
    \/ Receive(a) \/ ReceiveLagged(a) \/ InnerTimeout(a) \/ OuterTimeout(a) \/ Tick(a)
    \/ Offer(a) \/ NextRequestError(a)

PeerTypeOK ==
    /\ task \in [Addr -> {"none", "next", "collect", "wait", "offer", "panic", "ended"}]
    /\ link \in [Addr -> BOOLEAN]
    /\ req \in [Addr -> [kind : {"none", "block", "nonblock"}, n : Nat]]
    /\ got \in [Addr -> Seq(Nat)]
    /\ inner \in [Addr -> 0..InnerTicks] /\ outer \in [Addr -> 0..OuterTicks]
    /\ inflight \in [Addr -> Seq(Nat)] /\ window \in [Addr -> Seq(Nat)]

=============================================================================
