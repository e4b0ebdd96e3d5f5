--------------------------- MODULE NetworkProofs ---------------------------
(***************************************************************************)
(* Theorems about Network, for every finite set of addresses, every        *)
(* capacity of the channel and of the mempools, every window of the nodes  *)
(* and every number of connections that break: types, the back-pressure of *)
(* the channel and the number of peers.                                    *)
(***************************************************************************)
EXTENDS Network, FiniteSetTheorems, TLAPS

USE DEF NoReceiver, NoAddr, ingestVars

(* What the discovery stage is at, and what becomes of the peers.          *)
(* A task exists for the peers that are alive, and it has a receiver; the  *)
(* stage asks a peer that is alive, and connects one that nobody knows.    *)
PeersOK ==
    /\ Configured \subseteq known
    /\ \A a \in Addr : a \notin alive => task[a] = "none"
    /\ \A a \in Addr : task[a] # "none" => cur[a] # NoReceiver
    /\ \A a \in Addr : cur[a] <= head
    /\ dpc = "share" => target \in alive
    /\ dpc \in {"execute", "connect"} => target \in Addr
    /\ dpc = "connect" => target \notin known /\ cur[target] # NoReceiver

Inv == TypeOK /\ PeersOK

LEMMA InvInit == Init => Inv
<1> SUFFICES ASSUME Init PROVE Inv
  OBVIOUS
<1>1. BroadcastTypeOK /\ PeerTypeOK
  BY PeerAssumption DEF Init, BroadcastInit, BroadcastTypeOK, PeerInit, PeerTypeOK, NoRequest
<1>2. ManagerTypeOK
  BY PeerManagerAssumption DEF Init, ManagerInit, ManagerTypeOK
<1>3. PeersOK
  BY DEF Init, ManagerInit, PeerInit, BroadcastInit, PeersOK
<1>4. unit \in Nat /\ togo \in 0..unit /\ errors \in 0..MaxErrors /\ room \in Nat
  BY NetworkAssumption, SMT DEF Init
<1>5. exceeded \in BOOLEAN /\ phase \in {"init", "run", "exit"}
  BY Zenon DEF Init
<1>6. QED
  BY <1>1, <1>2, <1>3, <1>4, <1>5, Zenon DEF Inv, TypeOK

LEMMA EmptyType == <<>> \in Seq(Nat)
  OBVIOUS

(* The mempool's operations return lists of transactions. *)
LEMMA ReceiveAllType ==
    ASSUME NEW s \in Seq(Nat), NEW txs \in Seq(Nat)
    PROVE  ReceiveAll(s, txs) \in Seq(Nat)
<1> DEFINE all == s \o txs
           excess == Len(all) - MempoolCap
<1>1. all \in Seq(Nat) /\ Len(all) \in Nat
  OBVIOUS
<1>2. CASE excess > 0
  <2>1. excess + 1 \in 1..Len(all) + 1
    BY <1>1, <1>2, MempoolAssumption
  <2> HIDE DEF all
  <2>2. SubSeq(all, excess + 1, Len(all)) \in Seq(Nat)
    BY <1>1, <2>1
  <2>3. QED
    BY <1>2, <2>2 DEF ReceiveAll, all
<1>3. CASE ~ (excess > 0)
  BY <1>1, <1>3 DEF ReceiveAll
<1>4. QED
  BY <1>2, <1>3

(* The part of the type invariant that the end of a collection touches. *)
CollectTypeOK ==
    /\ task \in [Addr -> {"none", "next", "collect", "wait", "offer", "panic", "ended"}]
    /\ got \in [Addr -> Seq(Nat)]
    /\ inner \in [Addr -> 0..InnerTicks] /\ outer \in [Addr -> 0..OuterTicks]

(* The end of a collection. *)
LEMMA CollectedType ==
    ASSUME NEW a \in Addr, NEW msgs \in Seq(Nat), CollectTypeOK, Collected(a, msgs)
    PROVE  CollectTypeOK'
  BY PeerAssumption DEF CollectTypeOK, Collected

(* A step of a peer keeps the types of the peers and of the channel. *)
LEMMA TypeTask ==
    ASSUME Inv, NEW a \in Addr, TaskStep(a) \/ RequestTxIds(a) \/ LoseLink(a)
    PROVE  BroadcastTypeOK' /\ PeerTypeOK'
<1>0. /\ head \in Nat /\ cur \in [Addr -> Nat \cup {-1}] /\ CollectTypeOK
      /\ link \in [Addr -> BOOLEAN]
      /\ req \in [Addr -> [kind : {"none", "block", "nonblock"}, n : Nat]]
      /\ inflight \in [Addr -> Seq(Nat)] /\ window \in [Addr -> Seq(Nat)]
  BY DEF Inv, TypeOK, BroadcastTypeOK, PeerTypeOK, CollectTypeOK
<1> SUFFICES /\ head' \in Nat /\ cur' \in [Addr -> Nat \cup {-1}] /\ CollectTypeOK'
             /\ link' \in [Addr -> BOOLEAN]
             /\ req' \in [Addr -> [kind : {"none", "block", "nonblock"}, n : Nat]]
             /\ inflight' \in [Addr -> Seq(Nat)] /\ window' \in [Addr -> Seq(Nat)]
  BY DEF BroadcastTypeOK, PeerTypeOK, CollectTypeOK
<1>1. CASE Receive(a)
  <2>0. cur[a] + 1 \in Nat
    <3>1. cur[a] \in Nat \/ cur[a] = -1
      BY <1>0
    <3>2. QED
      BY <3>1
  <2>1. cur' \in [Addr -> Nat \cup {-1}] /\ UNCHANGED <<head, link, req, inflight, window>>
    <3>1. cur' = [cur EXCEPT ![a] = cur[a] + 1]
      BY <1>1 DEF Receive, TakeNext
    <3>2. QED
      BY <1>0, <1>1, <2>0, <3>1 DEF Receive
  <2>2. Pushed(a) \in Seq(Nat)
    BY <1>0, <2>0 DEF Pushed, CollectTypeOK
  <2>3. CollectTypeOK'
    <3>1. CASE Collected(a, Pushed(a))
      BY <3>1, <1>0, <2>2, CollectedType
    <3>2. CASE /\ got' = [got EXCEPT ![a] = Pushed(a)]
               /\ inner' = [inner EXCEPT ![a] = 0]
               /\ UNCHANGED <<task, outer>>
      BY <3>2, <1>0, <2>2, PeerAssumption DEF CollectTypeOK
    <3>3. QED
      BY <1>1, <3>1, <3>2 DEF Receive
  <2>4. QED
    BY <1>0, <2>1, <2>3
<1>2. CASE ReceiveLagged(a)
  <2>0. head - RingSize \in Nat
    <3>1. cur[a] \in Nat \cup {-1} /\ head - cur[a] > RingSize
      BY <1>0, <1>2 DEF ReceiveLagged, Lags, Behind
    <3>2. QED
      BY <1>0, <3>1, BroadcastAssumption
  <2>1. cur' \in [Addr -> Nat \cup {-1}] /\ UNCHANGED <<head, link, req, inflight, window>>
    BY <1>0, <1>2, <2>0 DEF ReceiveLagged, SkipToOldest
  <2>2. CollectTypeOK'
    <3>1. CASE Collected(a, <<>>)
      BY <3>1, <1>0, EmptyType, CollectedType
    <3>2. CASE inner' = [inner EXCEPT ![a] = 0] /\ UNCHANGED <<task, got, outer>>
      BY <3>2, <1>0, PeerAssumption DEF CollectTypeOK
    <3>3. QED
      BY <1>2, <3>1, <3>2 DEF ReceiveLagged
  <2>3. QED
    BY <1>0, <2>1, <2>2
<1>3. CASE InnerTimeout(a)
  <2>1. UNCHANGED <<head, cur, link, req, inflight, window>>
    BY <1>3 DEF InnerTimeout
  <2>2. CollectTypeOK'
    <3>1. CASE Collected(a, got[a])
      BY <3>1, <1>0, CollectedType DEF CollectTypeOK
    <3>2. CASE /\ task' = [task EXCEPT ![a] = "wait"]
               /\ inner' = [inner EXCEPT ![a] = 0]
               /\ UNCHANGED <<got, outer>>
      BY <3>2, <1>0, PeerAssumption DEF CollectTypeOK
    <3>3. QED
      BY <1>3, <3>1, <3>2 DEF InnerTimeout
  <2>3. QED
    BY <1>0, <2>1, <2>2
<1>4. CASE OuterTimeout(a)
  <2>1. Collected(a, <<>>) /\ UNCHANGED <<head, cur, link, req, inflight, window>>
    BY <1>4 DEF OuterTimeout
  <2>2. CollectTypeOK'
    BY <1>0, <2>1, EmptyType, CollectedType
  <2>3. QED
    BY <1>0, <2>1, <2>2
<1>5. CASE Tick(a)
  <2>1. UNCHANGED <<head, cur, link, req, inflight, window, task, got>>
    BY <1>5 DEF Tick
  <2>2. inner' \in [Addr -> 0..InnerTicks] /\ outer' \in [Addr -> 0..OuterTicks]
    BY <1>0, <1>5, PeerAssumption DEF Tick, CollectTypeOK
  <2>3. QED
    BY <1>0, <2>1, <2>2 DEF CollectTypeOK
<1>6. CASE Offer(a)
  <2>1. UNCHANGED <<head, cur, link, inner, outer>>
    BY <1>6 DEF Offer
  <2>2. ReceiveAll(inflight[a], got[a]) \in Seq(Nat) /\ window[a] \o got[a] \in Seq(Nat)
    BY <1>0, ReceiveAllType DEF CollectTypeOK
  <2>3. inflight' \in [Addr -> Seq(Nat)] /\ window' \in [Addr -> Seq(Nat)]
    BY <1>0, <1>6, <2>2 DEF Offer, PropagateTxs
  <2>4. CollectTypeOK' /\ req' \in [Addr -> [kind : {"none", "block", "nonblock"}, n : Nat]]
    BY <1>0, <1>6 DEF Offer, CollectTypeOK, NoRequest
  <2>5. QED
    BY <1>0, <2>1, <2>3, <2>4
<1>7. CASE NextRequestError(a)
  BY <1>0, <1>7 DEF CollectTypeOK, NextRequestError
<1>8. CASE RequestTxIds(a)
  <2>1. UNCHANGED <<head, cur, link, got, inner, outer>>
    BY <1>8 DEF RequestTxIds
  <2>2. PICK ack \in 0..Len(window[a]) :
          \E n \in 0..Window[a] - Len(SubSeq(window[a], ack + 1, Len(window[a]))) :
            /\ window' = [window EXCEPT ![a] = SubSeq(window[a], ack + 1, Len(window[a]))]
            /\ \/ /\ Drainable(inflight[a], ack)
                  /\ inflight' = [inflight EXCEPT ![a] = Acknowledge(@, ack)]
                  /\ \E kind \in {"block", "nonblock"} :
                       req' = [req EXCEPT ![a] = [kind |-> kind, n |-> n]]
                  /\ task' = [task EXCEPT ![a] = IF n = 0 THEN "offer" ELSE "collect"]
               \/ /\ task' = [task EXCEPT ![a] = "panic"]
                  /\ UNCHANGED <<inflight, req>>
    BY <1>8 DEF RequestTxIds
  <2>3. SubSeq(window[a], ack + 1, Len(window[a])) \in Seq(Nat)
    BY <1>0
  <2>4. Drainable(inflight[a], ack) => Acknowledge(inflight[a], ack) \in Seq(Nat)
    BY <1>0 DEF Acknowledge, Drainable
  <2>5. window' \in [Addr -> Seq(Nat)] /\ inflight' \in [Addr -> Seq(Nat)]
    BY <1>0, <2>2, <2>3, <2>4
  <2>6. req' \in [Addr -> [kind : {"none", "block", "nonblock"}, n : Nat]]
    <3>1. \A n \in 0..Window[a] - Len(SubSeq(window[a], ack + 1, Len(window[a]))) : n \in Nat
      <4>1. Window[a] \in Nat /\ Len(SubSeq(window[a], ack + 1, Len(window[a]))) \in Nat
        BY <2>3, PeerAssumption
      <4>2. QED
        BY <4>1
    <3>2. PICK n \in 0..Window[a] - Len(SubSeq(window[a], ack + 1, Len(window[a]))) :
            \/ \E kind \in {"block", "nonblock"} :
                 req' = [req EXCEPT ![a] = [kind |-> kind, n |-> n]]
            \/ req' = req
      BY <2>2
    <3>3. \A kind \in {"block", "nonblock"} :
            [kind |-> kind, n |-> n] \in [kind : {"none", "block", "nonblock"}, n : Nat]
      BY <3>1, <3>2
    <3>4. QED
      BY <1>0, <3>2, <3>3
  <2>7. CollectTypeOK'
    BY <1>0, <2>1, <2>2 DEF CollectTypeOK
  <2>8. QED
    BY <1>0, <2>1, <2>5, <2>6, <2>7
<1>9. CASE LoseLink(a)
  BY <1>0, <1>9 DEF LoseLink, CollectTypeOK
<1>10. QED
  BY <1>1, <1>2, <1>3, <1>4, <1>5, <1>6, <1>7, <1>8, <1>9 DEF TaskStep

-----------------------------------------------------------------------------
(* What a step of a peer does to the channel: its receiver, if anything,   *)
(* moves on, at most to the last message.  No task appears or vanishes.    *)
LEMMA TaskEffect ==
    ASSUME Inv, NEW a \in Addr, TaskStep(a) \/ RequestTxIds(a) \/ LoseLink(a)
    PROVE  /\ head' = head
           /\ \A b \in Addr : task'[b] = "none" <=> task[b] = "none"
           /\ \A b \in Addr : cur'[b] = cur[b] \/ (task[b] # "none" /\ cur[b] < cur'[b])
           /\ \A b \in Addr : cur'[b] <= head
<1>0. /\ head \in Nat /\ cur \in [Addr -> Nat \cup {-1}]
      /\ task \in [Addr -> {"none", "next", "collect", "wait", "offer", "panic", "ended"}]
      /\ \A b \in Addr : cur[b] <= head
  BY DEF Inv, TypeOK, BroadcastTypeOK, PeerTypeOK, PeersOK
<1>1. cur[a] \in Int
  BY <1>0
<1>2. CASE Receive(a)
  <2>1. /\ head' = head /\ task[a] \in {"collect", "wait"}
        /\ cur' = [cur EXCEPT ![a] = cur[a] + 1] /\ head - cur[a] # 0
    BY <1>2 DEF Receive, TakeNext, Nothing, Behind
  <2>2. task' = task \/ task' = [task EXCEPT ![a] = "offer"]
    BY <1>2 DEF Receive, Collected
  <2>3. cur[a] + 1 <= head
    BY <1>0, <1>1, <2>1
  <2>4. QED
    BY <1>0, <1>1, <2>1, <2>2, <2>3
<1>3. CASE ReceiveLagged(a)
  <2>1. /\ head' = head /\ task[a] \in {"collect", "wait"}
        /\ cur' = [cur EXCEPT ![a] = head - RingSize] /\ head - cur[a] > RingSize
    BY <1>3 DEF ReceiveLagged, SkipToOldest, Lags, Behind
  <2>2. task' = task \/ task' = [task EXCEPT ![a] = "offer"]
    BY <1>3 DEF ReceiveLagged, Collected
  <2>3. cur[a] < head - RingSize /\ head - RingSize <= head
    BY <1>0, <1>1, <2>1, BroadcastAssumption
  <2>4. QED
    BY <1>0, <1>1, <2>1, <2>2, <2>3
<1>4. CASE InnerTimeout(a)
  BY <1>0, <1>4 DEF InnerTimeout, Collected
<1>5. CASE OuterTimeout(a)
  BY <1>0, <1>5 DEF OuterTimeout, Collected
<1>6. CASE Tick(a)
  BY <1>0, <1>6 DEF Tick
<1>7. CASE Offer(a)
  BY <1>0, <1>7 DEF Offer
<1>8. CASE NextRequestError(a)
  BY <1>0, <1>8 DEF NextRequestError
<1>9. CASE RequestTxIds(a)
  <2>1. /\ head' = head /\ cur' = cur /\ task[a] = "next"
        /\ \E s \in {"offer", "collect", "panic"} : task' = [task EXCEPT ![a] = s]
    BY <1>9 DEF RequestTxIds
  <2>2. QED
    BY <1>0, <2>1
<1>10. CASE LoseLink(a)
  BY <1>0, <1>10 DEF LoseLink
<1>11. QED
  BY <1>2, <1>3, <1>4, <1>5, <1>6, <1>7, <1>8, <1>9, <1>10 DEF TaskStep

(* A step of a peer keeps the invariant. *)
LEMMA InvPeer ==
    ASSUME Inv, NEW a \in Addr, TaskStep(a) \/ RequestTxIds(a) \/ LoseLink(a),
           UNCHANGED <<managerVars, stageVars, phase, ingestVars>>
    PROVE  Inv'
<1>1. BroadcastTypeOK' /\ PeerTypeOK'
  BY TypeTask
<1>2. ManagerTypeOK'
  BY DEF Inv, TypeOK, ManagerTypeOK, managerVars, stageVars
<1>3. PeersOK'
  <2>1. \A b \in Addr : cur[b] \in Int /\ cur'[b] \in Int /\ -1 <= cur[b]
    BY <1>1 DEF Inv, TypeOK, BroadcastTypeOK
  <2>2. \A b \in Addr : cur[b] # -1 => cur'[b] # -1
    BY <2>1, TaskEffect
  <2>3. QED
    BY <2>2, TaskEffect DEF Inv, PeersOK, managerVars, stageVars
<1>4. QED
  BY <1>1, <1>2, <1>3 DEF Inv, TypeOK

-----------------------------------------------------------------------------
LEMMA ConnectType == ASSUME NEW a \in Addr, PeerTypeOK, Connect(a) PROVE PeerTypeOK'
  BY DEF PeerTypeOK, Connect

(* The manager connects a configured peer. *)
LEMMA InvInitPeer ==
    ASSUME Inv, NEW a \in Addr, InitPeer(a), UNCHANGED <<phase, ingestVars>>
    PROVE  Inv'
<1>1. /\ Connect(a) /\ head' = head /\ cur' = [cur EXCEPT ![a] = head]
      /\ known' = known /\ alive' = alive \cup {a} /\ a \in Configured /\ busy' = busy
      /\ sharing' \in {sharing, sharing \cup {a}} /\ UNCHANGED <<dpc, dq, target>>
  BY DEF InitPeer, QueryPeerSharingMode, Subscribe, stageVars
<1>2. PeerTypeOK'
  BY <1>1, ConnectType DEF Inv, TypeOK
<1>3. BroadcastTypeOK'
  BY <1>1 DEF Inv, TypeOK, BroadcastTypeOK
<1>4. ManagerTypeOK'
  BY <1>1 DEF Inv, TypeOK, ManagerTypeOK, PeersOK
<1>5. PeersOK'
  <2>1. /\ task' = [task EXCEPT ![a] = "next"] /\ head \in Nat
        /\ cur \in [Addr -> Nat \cup {-1}]
        /\ task \in [Addr -> {"none", "next", "collect", "wait", "offer", "panic", "ended"}]
    BY <1>1 DEF Connect, Inv, TypeOK, BroadcastTypeOK, PeerTypeOK
  <2>2. /\ \A b \in Addr : b \notin alive' => task'[b] = "none"
        /\ \A b \in Addr : task'[b] # "none" => cur'[b] # -1
        /\ \A b \in Addr : cur'[b] <= head'
    BY <1>1, <2>1 DEF Inv, PeersOK
  <2>3. dpc' = "connect" => target' \notin known' /\ cur'[target'] # -1
    BY <1>1, <2>1 DEF Inv, PeersOK
  <2>4. QED
    BY <1>1, <2>2, <2>3 DEF Inv, PeersOK
<1>6. QED
  BY <1>2, <1>3, <1>4, <1>5 DEF Inv, TypeOK

(* Where Choose may lead. *)
LEMMA ChooseEffect ==
    ASSUME Inv, NEW shared \in SUBSET Addr, Choose(shared)
    PROVE  /\ dpc' \in {"execute", "schedule"} /\ dq' \in 0 .. U8 - 1
           /\ target' \in Addr \cup {NoAddr} /\ (dpc' = "execute" => target' \in Addr)
<1>1. dq \in 0 .. U8 - 1 /\ U8 \in Nat \ {0} /\ Relay \subseteq Addr
  BY PeerManagerAssumption DEF Inv, TypeOK, ManagerTypeOK
<1>2. (dq + 1) % U8 \in 0 .. U8 - 1
  BY <1>1
<1>3. QED
  BY <1>1, <1>2 DEF Choose

(* The stage schedules a unit of work. *)
LEMMA InvSchedule ==
    ASSUME Inv, SchedulePeers \/ ShareAnswer \/ ShareError \/ ShareNoAgency,
           UNCHANGED <<phase, ingestVars>>
    PROVE  Inv'
<1>1. UNCHANGED <<head, cur, peerVars, known, alive>>
  BY DEF SchedulePeers, ShareAnswer, ShareError, ShareNoAgency, managerVars
<1>2. /\ sharing' \subseteq alive /\ busy' \subseteq alive
      /\ dpc' \in {"schedule", "share", "execute"}
      /\ dq' \in 0 .. U8 - 1 /\ target' \in Addr \cup {NoAddr}
      /\ dpc' = "share" => target' \in alive
      /\ dpc' = "execute" => target' \in Addr
  <2>1. /\ sharing \subseteq alive /\ busy \subseteq alive /\ alive \subseteq Addr
        /\ dq \in 0 .. U8 - 1 /\ (dpc = "share" => target \in alive)
    BY DEF Inv, TypeOK, ManagerTypeOK, PeersOK
  <2>2. CASE SchedulePeers
    <3>1. CASE Choose({})
      BY <2>1, <2>2, <3>1, ChooseEffect DEF SchedulePeers, managerVars
    <3>2. CASE target' \in Candidates /\ dpc' = "share" /\ UNCHANGED dq
      BY <2>1, <2>2, <3>2 DEF SchedulePeers, managerVars, Candidates
    <3>3. QED
      BY <2>2, <3>1, <3>2 DEF SchedulePeers
  <2>3. CASE ShareAnswer
    <3>1. PICK shared \in SUBSET Addr : Choose(shared)
      BY <2>3 DEF ShareAnswer
    <3>2. QED
      BY <2>1, <2>3, <3>1, ChooseEffect DEF ShareAnswer, managerVars
  <2>4. CASE ShareError
    BY <2>1, <2>4 DEF ShareError
  <2>5. CASE ShareNoAgency
    <3>1. Choose({})
      BY <2>5 DEF ShareNoAgency
    <3>2. QED
      BY <2>1, <2>5, <3>1, ChooseEffect DEF ShareNoAgency
  <2>6. QED
    BY <2>2, <2>3, <2>4, <2>5
<1>3. BroadcastTypeOK' /\ PeerTypeOK'
  BY <1>1 DEF Inv, TypeOK, BroadcastTypeOK, PeerTypeOK, peerVars
<1>4. ManagerTypeOK'
  BY <1>1, <1>2 DEF Inv, TypeOK, ManagerTypeOK
<1>5. PeersOK'
  BY <1>1, <1>2 DEF Inv, PeersOK, peerVars
<1>6. QED
  BY <1>3, <1>4, <1>5 DEF Inv, TypeOK

(* The stage adds a peer, or gives it up. *)
LEMMA InvExecute ==
    ASSUME Inv, AddKnown \/ AddPeer \/ AddPeerOk \/ AddPeerFails,
           UNCHANGED <<phase, ingestVars>>
    PROVE  Inv'
<1>a. /\ head \in Nat /\ cur \in [Addr -> Nat \cup {-1}]
       /\ task \in [Addr -> {"none", "next", "collect", "wait", "offer", "panic", "ended"}]
       /\ dq \in 0 .. U8 - 1 /\ U8 \in Nat \ {0} /\ known \subseteq Addr /\ alive \subseteq known
       /\ sharing \subseteq alive /\ busy \subseteq alive
  BY PeerManagerAssumption DEF Inv, TypeOK, BroadcastTypeOK, PeerTypeOK, ManagerTypeOK
<1>b. (dq - 1) % U8 \in 0 .. U8 - 1
  BY <1>a
<1>0. /\ head \in Nat /\ cur \in [Addr -> Nat \cup {-1}]
      /\ task \in [Addr -> {"none", "next", "collect", "wait", "offer", "panic", "ended"}]
      /\ dq \in 0 .. U8 - 1 /\ U8 \in Nat \ {0} /\ known \subseteq Addr /\ alive \subseteq known
      /\ sharing \subseteq alive /\ busy \subseteq alive
      /\ (dq - 1) % U8 \in 0 .. U8 - 1
  BY <1>a, <1>b
<1>1. target \in Addr
  BY DEF AddKnown, AddPeer, AddPeerOk, AddPeerFails, Inv, PeersOK
<1>2. CASE AddKnown
  <2>1. /\ UNCHANGED <<head, cur, peerVars, managerVars>>
        /\ dpc' = "schedule" /\ target' = NoAddr /\ dq' \in 0 .. U8 - 1
    BY <1>0, <1>2 DEF AddKnown, Executed
  <2>2. TypeOK'
    BY <1>0, <2>1 DEF Inv, TypeOK, BroadcastTypeOK, PeerTypeOK, ManagerTypeOK, peerVars, managerVars
  <2>3. PeersOK'
    BY <2>1 DEF Inv, PeersOK, peerVars, managerVars
  <2>4. QED
    BY <2>2, <2>3 DEF Inv
<1>3. CASE AddPeer
  <2>1. /\ UNCHANGED <<head, peerVars, managerVars, dq, target>> /\ dpc' = "connect"
        /\ cur' = [cur EXCEPT ![target] = head] /\ target \notin known
    BY <1>3 DEF AddPeer, Subscribe
  <2>2. TypeOK'
    BY <1>0, <2>1 DEF Inv, TypeOK, BroadcastTypeOK, PeerTypeOK, ManagerTypeOK, peerVars, managerVars
  <2>3. PeersOK'
    BY <1>0, <1>1, <2>1 DEF Inv, PeersOK, peerVars, managerVars
  <2>4. QED
    BY <2>2, <2>3 DEF Inv
<1>4. CASE AddPeerOk
  <2>1. /\ UNCHANGED <<head, cur, sharing, busy>> /\ Connect(target)
        /\ known' = known \cup {target} /\ alive' = alive \cup {target}
        /\ dpc' = "schedule" /\ target' = NoAddr /\ dq' \in 0 .. U8 - 1 /\ dpc = "connect"
    BY <1>0, <1>4 DEF AddPeerOk, Executed
  <2>2. PeerTypeOK'
    BY <1>1, <2>1, ConnectType DEF Inv, TypeOK
  <2>3. TypeOK'
    BY <1>0, <1>1, <2>1, <2>2 DEF Inv, TypeOK, BroadcastTypeOK, ManagerTypeOK
  <2>4. task' = [task EXCEPT ![target] = "next"]
    BY <2>1 DEF Connect
  <2>5. PeersOK'
    BY <1>0, <1>1, <2>1, <2>4 DEF Inv, PeersOK
  <2>6. QED
    BY <2>3, <2>5 DEF Inv
<1>5. CASE AddPeerFails
  <2>1. /\ UNCHANGED <<head, peerVars, managerVars>> /\ cur' = [cur EXCEPT ![target] = -1]
        /\ dpc' = "schedule" /\ target' = NoAddr /\ dq' \in 0 .. U8 - 1 /\ dpc = "connect"
    BY <1>0, <1>5 DEF AddPeerFails, Executed, Unsubscribe
  <2>2. TypeOK'
    BY <1>0, <2>1 DEF Inv, TypeOK, BroadcastTypeOK, PeerTypeOK, ManagerTypeOK, peerVars, managerVars
  <2>3. task[target] = "none"
    BY <1>0, <1>1, <2>1 DEF Inv, PeersOK
  <2>4. PeersOK'
    BY <1>0, <1>1, <2>1, <2>3 DEF Inv, PeersOK, peerVars, managerVars
  <2>5. QED
    BY <2>2, <2>4 DEF Inv
<1>6. QED
  BY <1>2, <1>3, <1>4, <1>5

(* The types of what ingest works on. *)
UnitTypeOK ==
    /\ unit \in Nat /\ togo \in 0..unit /\ errors \in 0..MaxErrors
    /\ room \in Nat /\ exceeded \in BOOLEAN

(* The unit that ingest schedules. *)
LEMMA UnitType == ASSUME Inv, ScheduleUnit PROVE UnitTypeOK'
<1>0. errors \in 0..MaxErrors /\ exceeded \in BOOLEAN
  BY DEF Inv, TypeOK
<1>1. PICK n \in 0..RingSize :
        unit' \in 1 .. CurrentCap(n) + Overshoot /\ room' = CurrentCap(n)
  BY DEF ScheduleUnit
<1>2. n \in Nat /\ U16 \in Nat \ {0} /\ Cap \in Nat /\ Overshoot \in Nat
  BY <1>1, NetworkAssumption, BroadcastAssumption
<1>3. CurrentCap(n) \in Nat
  BY <1>2 DEF CurrentCap
<1>4. unit' \in Nat /\ room' \in Nat
  BY <1>1, <1>2, <1>3
<1>5. QED
  BY <1>0, <1>4 DEF ScheduleUnit, UnitTypeOK

(* The round of execute for one transaction, or an error. *)
LEMMA UnitMoves == ASSUME Inv, SendTx \/ CheckError PROVE UnitTypeOK'
<1>0. /\ unit \in Nat /\ togo \in 0..unit /\ errors \in 0..MaxErrors /\ MaxErrors \in Nat
      /\ room \in Nat /\ exceeded \in BOOLEAN /\ togo > 0
  BY NetworkAssumption DEF Inv, TypeOK, SendTx, CheckError
<1>1. unit' \in Nat /\ togo' \in 0..unit' /\ errors' \in 0..MaxErrors
  <2>1. CASE Visited
    BY <1>0, <2>1 DEF Visited
  <2>2. CASE Rerun
    BY <1>0, <2>2 DEF Rerun
  <2>3. QED
    BY <2>1, <2>2 DEF SendTx, CheckError
<1>2. room' \in {0, room, room - 1} /\ (room' = room - 1 => room' = room \/ room' = 0 \/ room > 0)
  BY DEF SendTx, CheckError
<1>3. room' \in Nat
  BY <1>0, <1>2
<1>4. exceeded' \in BOOLEAN
  BY <1>0 DEF SendTx, CheckError
<1>5. QED
  BY <1>1, <1>3, <1>4 DEF UnitTypeOK

(* Ingest schedules a unit, sends a transaction or fails. *)
LEMMA InvIngest == ASSUME Inv, IngestStep \/ CheckError PROVE Inv'
<1>0. head \in Nat /\ cur \in [Addr -> Nat \cup {-1}]
  BY DEF Inv, TypeOK, BroadcastTypeOK
<1>1. UNCHANGED <<cur, peerVars, managerVars, stageVars, phase>>
  BY DEF IngestStep, ScheduleUnit, SendTx, CheckError
<1>2. head' \in Nat /\ head <= head'
  BY <1>0 DEF IngestStep, ScheduleUnit, SendTx, CheckError
<1>3. UnitTypeOK'
  BY UnitType, UnitMoves DEF IngestStep
<1>4. BroadcastTypeOK' /\ PeerTypeOK' /\ ManagerTypeOK'
  BY <1>0, <1>1, <1>2
  DEF Inv, TypeOK, BroadcastTypeOK, PeerTypeOK, ManagerTypeOK, peerVars, managerVars, stageVars
<1>5. \A b \in Addr : cur'[b] <= head'
  <2>1. \A b \in Addr : cur[b] \in Int /\ cur[b] <= head
    BY <1>0 DEF Inv, PeersOK
  <2>2. QED
    BY <1>0, <1>1, <1>2, <2>1
<1>6. PeersOK'
  BY <1>1, <1>5 DEF Inv, PeersOK, peerVars, managerVars, stageVars
<1>7. QED
  BY <1>1, <1>3, <1>4, <1>6 DEF Inv, TypeOK, UnitTypeOK

(* Every step keeps the invariant. *)
LEMMA InvStep == Inv /\ [Next]_vars => Inv'
<1> SUFFICES ASSUME Inv, [Next]_vars PROVE Inv'
  OBVIOUS
<1>1. CASE Connecting
  BY <1>1, InvInitPeer DEF Connecting
<1>2. CASE InitFails
  BY <1>2 DEF InitFails, Inv, TypeOK, PeersOK, BroadcastTypeOK, PeerTypeOK, ManagerTypeOK,
              peerVars, managerVars, stageVars
<1>3. CASE SpawnStages
  BY <1>3 DEF SpawnStages, Inv, TypeOK, PeersOK, BroadcastTypeOK, PeerTypeOK, ManagerTypeOK,
              peerVars, managerVars
<1>4. CASE IngestStep \/ CheckError
  BY <1>4, InvIngest
<1>5. CASE Discovery(DiscoveryStep)
  BY <1>5, InvSchedule, InvExecute DEF Discovery, DiscoveryStep, StageStep
<1>6. CASE BreakLink
  BY <1>6, InvPeer DEF BreakLink, PeerActs
<1>7. CASE \E a \in Addr : PeerActs(a, TaskStep(a) \/ RequestTxIds(a))
  BY <1>7, InvPeer DEF PeerActs
<1>8. CASE UNCHANGED vars
  BY <1>8 DEF vars, Inv, TypeOK, PeersOK, BroadcastTypeOK, PeerTypeOK, ManagerTypeOK,
              peerVars, managerVars, stageVars
<1>9. QED
  BY <1>1, <1>2, <1>3, <1>4, <1>5, <1>6, <1>7, <1>8 DEF Next

LEMMA InvHolds == Spec => []Inv
<1>1. QED
  BY InvInit, InvStep, PTL DEF Spec

(* Every variable of the network keeps its type, whatever the peers, the   *)
(* nodes, ingest and the discovery stage do (src/network,                  *)
(* src/pipeline/peer_discovery).                                           *)
THEOREM NetworkTypeCorrect == Spec => []TypeOK
<1>1. Inv => TypeOK
  BY DEF Inv
<1>2. QED
  BY <1>1, InvHolds, PTL

-----------------------------------------------------------------------------
(* ChannelWithinCap is not inductive: what is left of the capacity that   *)
(* the unit of ingest was scheduled for may still come on top of what a    *)
(* receiver has not taken.                                                 *)
RoomFits ==
    ~ exceeded => /\ room <= Cap
                  /\ \A a \in Receivers : Behind(a) + room <= Cap

(* Receivers that only move on, are new or vanish leave the room. *)
LEMMA RoomFitsKept ==
    ASSUME Inv, Inv', RoomFits, UNCHANGED <<head, room, exceeded>>,
           \A b \in Addr : \/ cur'[b] \in {NoReceiver, head}
                           \/ cur[b] # NoReceiver /\ cur[b] <= cur'[b]
    PROVE  RoomFits'
<1>1. /\ head \in Nat /\ room \in Nat /\ Cap \in Nat
      /\ \A b \in Addr : cur[b] \in Int /\ cur'[b] \in Int
  BY NetworkAssumption DEF Inv, TypeOK, BroadcastTypeOK
<1>2. SUFFICES ASSUME ~ exceeded, NEW b \in Addr, cur'[b] # NoReceiver
               PROVE  (head - cur'[b]) + room <= Cap
  BY DEF RoomFits, Receivers, Behind
<1>3. room <= Cap
  BY <1>2 DEF RoomFits
<1>4. cur[b] # NoReceiver => (head - cur[b]) + room <= Cap
  BY <1>2 DEF RoomFits, Receivers, Behind
<1>5. QED
  BY <1>1, <1>2, <1>3, <1>4

(* The capacity that schedule computes is free.  The length of the channel *)
(* is at most Cap then, so that the difference does not wrap.              *)
LEMMA RoomFitsScheduled == ASSUME Inv, RoomFits, ScheduleUnit PROVE RoomFits'
<1>0. /\ head \in Nat /\ room \in Nat
      /\ Cap \in Nat /\ Cap <= RingSize /\ RingSize \in Nat
      /\ U16 \in Nat /\ RingSize < U16
      /\ head' = head /\ cur' = cur /\ exceeded' = exceeded
      /\ \A b \in Addr : cur[b] \in Int
  BY NetworkAssumption, BroadcastAssumption
  DEF Inv, TypeOK, BroadcastTypeOK, ScheduleUnit
<1>1. PICK n \in 0..RingSize : Queued(n) /\ room' = CurrentCap(n)
  BY DEF ScheduleUnit
<1> SUFFICES ASSUME ~ exceeded
             PROVE  /\ room' <= Cap
                    /\ \A b \in Addr : cur[b] # NoReceiver => (head - cur[b]) + room' <= Cap
  BY <1>0 DEF RoomFits, Receivers, Behind
<1>3. \A b \in Receivers : Kept(b) = head - cur[b] /\ Kept(b) \in Int /\ Kept(b) <= Cap
  <2> SUFFICES ASSUME NEW b \in Receivers
               PROVE  Kept(b) = head - cur[b] /\ Kept(b) \in Int /\ Kept(b) <= Cap
    OBVIOUS
  <2>1. b \in Addr /\ cur[b] \in Int /\ (head - cur[b]) + room <= Cap
    BY <1>0 DEF Receivers, RoomFits, Behind
  <2>2. QED
    BY <1>0, <2>1 DEF Kept, Lags, Behind
<1>4. n \in Nat /\ n <= Cap
  BY <1>0, <1>1, <1>3 DEF Queued
<1>5. CurrentCap(n) = Cap - n
  <2>1. Cap - n \in 0 .. U16 - 1
    BY <1>0, <1>4
  <2>2. (Cap - n) % U16 = Cap - n
    BY <1>0, <2>1
  <2>3. QED
    BY <2>2 DEF CurrentCap
<1>6. room' = Cap - n
  BY <1>1, <1>5
<1>7. \A b \in Addr : cur[b] # NoReceiver => head - cur[b] <= n
  BY <1>1, <1>3 DEF Queued, Receivers
<1>8. QED
  BY <1>0, <1>4, <1>6, <1>7

(* What a receiver has in addition, the room has no more; without room the *)
(* message is one too many.                                                *)
LEMMA RoomFitsSent == ASSUME Inv, RoomFits, SendTx PROVE RoomFits'
<1>0. /\ head \in Nat /\ room \in Nat /\ Cap \in Nat /\ cur' = cur
      /\ \A b \in Addr : cur[b] \in Int
  BY NetworkAssumption DEF Inv, TypeOK, BroadcastTypeOK, SendTx
<1>a. /\ head' = IF Receivers # {} THEN head + 1 ELSE head
      /\ exceeded' = (exceeded \/ (Receivers # {} /\ room = 0))
  BY DEF SendTx
<1>b. \/ room' = 0
      \/ room' = room /\ ~ (Receivers # {} /\ room > 0)
      \/ room' = room - 1 /\ room > 0
  <2>1. room' = CASE unit' = 0 -> 0
                  [] Receivers # {} /\ room > 0 -> room - 1
                  [] OTHER -> room
    BY DEF SendTx
  <2>2. QED
    BY <2>1
<1> SUFFICES ASSUME ~ exceeded'
             PROVE  /\ room' <= Cap
                    /\ \A b \in Addr : cur[b] # NoReceiver => (head' - cur[b]) + room' <= Cap
  BY <1>0 DEF RoomFits, Receivers, Behind
<1>2. ~ exceeded /\ (Receivers # {} => room > 0)
  <2>1. ~ (exceeded \/ (Receivers # {} /\ room = 0))
    BY <1>a, Zenon
  <2>2. QED
    BY <2>1, <1>0
<1>3. room <= Cap /\ \A b \in Addr : cur[b] # NoReceiver => (head - cur[b]) + room <= Cap
  BY <1>2 DEF RoomFits, Receivers, Behind
<1>4. room' \in Int /\ room' <= room
  BY <1>0, <1>a, <1>b
<1>5. ASSUME NEW b \in Addr, cur[b] # NoReceiver PROVE (head' - cur[b]) + room' <= Cap
  <2>1. Receivers # {}
    BY <1>5 DEF Receivers
  <2>2. head' = head + 1 /\ room > 0 /\ room' <= room - 1
    BY <2>1, <1>0, <1>a, <1>b, <1>2
  <2>3. cur[b] \in Int /\ (head - cur[b]) + room <= Cap
    BY <1>0, <1>3, <1>5
  <2>4. QED
    BY <2>2, <2>3, <1>0, <1>4
<1>6. QED
  BY <1>0, <1>3, <1>4, <1>5

(* Every step keeps RoomFits. *)
LEMMA RoomFitsStep == Inv /\ Inv' /\ RoomFits /\ [Next]_vars => RoomFits'
<1> SUFFICES ASSUME Inv, Inv', RoomFits, [Next]_vars PROVE RoomFits'
  OBVIOUS
<1>0. cur \in [Addr -> Nat \cup {NoReceiver}]
  BY DEF Inv, TypeOK, BroadcastTypeOK
<1>1. CASE IngestStep
  BY <1>1, RoomFitsScheduled, RoomFitsSent DEF IngestStep
<1>2. ASSUME NEW a \in Addr, TaskStep(a) \/ RequestTxIds(a) \/ LoseLink(a),
             UNCHANGED <<room, exceeded>>
      PROVE  RoomFits'
  <2>1. head' = head /\ \A b \in Addr : \/ cur'[b] = cur[b]
                                        \/ task[b] # "none" /\ cur[b] < cur'[b]
    BY <1>2, TaskEffect
  <2>2. \A b \in Addr : task[b] # "none" => cur[b] # NoReceiver
    BY DEF Inv, PeersOK
  <2>3. \A b \in Addr : cur[b] \in Int /\ cur'[b] \in Int
    BY DEF Inv, TypeOK, BroadcastTypeOK
  <2>4. \A b \in Addr : \/ cur'[b] \in {NoReceiver, head}
                        \/ cur[b] # NoReceiver /\ cur[b] <= cur'[b]
    BY <2>1, <2>2, <2>3
  <2>5. QED
    BY <1>2, <2>1, <2>4, RoomFitsKept
<1>3. ASSUME UNCHANGED <<head, room, exceeded>>,
             \/ cur' = cur
             \/ \E a \in Addr : cur' \in {[cur EXCEPT ![a] = head], [cur EXCEPT ![a] = NoReceiver]}
      PROVE  RoomFits'
  <2>1. \A b \in Addr : cur[b] \in Int
    BY <1>0
  <2>2. \A b \in Addr : cur'[b] \in {NoReceiver, head, cur[b]}
    BY <1>0, <1>3
  <2>3. \A b \in Addr : \/ cur'[b] \in {NoReceiver, head}
                        \/ cur[b] # NoReceiver /\ cur[b] <= cur'[b]
    BY <2>1, <2>2
  <2>4. QED
    BY <1>3, <2>3, RoomFitsKept
<1>4. CASE Connecting
  BY <1>3, <1>4 DEF Connecting, InitPeer, Subscribe
<1>5. CASE InitFails \/ SpawnStages \/ CheckError \/ UNCHANGED vars
  BY <1>3, <1>5 DEF InitFails, SpawnStages, CheckError, vars
<1>6. CASE Discovery(DiscoveryStep)
  <2>1. target \in Addr \/ cur' = cur
    BY <1>6 DEF Discovery, DiscoveryStep, StageStep, SchedulePeers, ShareAnswer, ShareError, ShareNoAgency,
                AddKnown, AddPeer, AddPeerOk, AddPeerFails, Inv, PeersOK
  <2>2. \/ cur' = cur
        \/ cur' \in {[cur EXCEPT ![target] = head], [cur EXCEPT ![target] = NoReceiver]}
    BY <1>6 DEF Discovery, DiscoveryStep, StageStep, SchedulePeers, ShareAnswer, ShareError, ShareNoAgency,
                AddKnown, AddPeer, AddPeerOk, AddPeerFails, Subscribe, Unsubscribe
  <2>3. UNCHANGED <<head, room, exceeded>>
    BY <1>6 DEF Discovery, DiscoveryStep, StageStep, SchedulePeers, ShareAnswer, ShareError, ShareNoAgency,
                AddKnown, AddPeer, AddPeerOk, AddPeerFails
  <2>4. QED
    BY <1>3, <2>1, <2>2, <2>3
<1>7. CASE BreakLink
  BY <1>2, <1>7 DEF BreakLink, PeerActs
<1>8. CASE \E a \in Addr : PeerActs(a, TaskStep(a) \/ RequestTxIds(a))
  BY <1>2, <1>8 DEF PeerActs
<1>9. QED
  BY <1>1, <1>4, <1>5, <1>6, <1>7, <1>8 DEF Next

(* As long as execute sends no more messages than the capacity that its    *)
(* unit was scheduled for, the channel holds at most CAP, for any number   *)
(* of peers, also those that subscribe while a unit is being sent:         *)
(* current_cap of schedule in src/pipeline/ingest.rs does not wrap and is  *)
(* back-pressure enough.  Rounding, and an error that makes execute run    *)
(* again, are the only ways out.                                           *)
THEOREM ChannelNeverOverfull == Spec => []ChannelWithinCap
<1>1. Init => RoomFits
  BY NetworkAssumption DEF Init, BroadcastInit, RoomFits, Receivers
<1>2. Inv /\ RoomFits => ChannelWithinCap
  <2> SUFFICES ASSUME Inv, RoomFits, ~ exceeded, NEW a \in Receivers PROVE Behind(a) <= Cap
    BY DEF ChannelWithinCap
  <2>1. head \in Nat /\ room \in Nat /\ Cap \in Nat /\ cur[a] \in Int
    BY NetworkAssumption DEF Inv, TypeOK, BroadcastTypeOK, Receivers
  <2>2. (head - cur[a]) + room <= Cap
    BY DEF RoomFits, Behind
  <2>3. QED
    BY <2>1, <2>2 DEF Behind
<1>3. QED
  BY <1>1, <1>2, RoomFitsStep, InvHolds, PTL DEF Spec

-----------------------------------------------------------------------------
(* ConnectedWithinDesired rests on the stage working on one peer at a      *)
(* time: from the moment it has counted the peers until it is done with    *)
(* the new one, nobody else adds a peer.                                   *)
RoomForTarget ==
    /\ phase = "init" => dpc = "off" /\ alive \subseteq Configured
    /\ Cardinality(Configured) <= Desired =>
          /\ Cardinality(alive) <= Desired
          /\ dpc \in {"share", "execute", "connect"} => Cardinality(alive) < Desired

(* The numbers that are compared. *)
LEMMA FiniteAlive ==
    ASSUME Inv
    PROVE  /\ IsFiniteSet(alive) /\ Cardinality(alive) \in Nat
           /\ IsFiniteSet(Configured) /\ Cardinality(Configured) \in Nat /\ Desired \in Nat
<1>1. alive \subseteq Addr /\ Configured \subseteq Addr /\ IsFiniteSet(Addr) /\ Desired \in Nat
  BY PeerManagerAssumption DEF Inv, TypeOK, ManagerTypeOK
<1>2. IsFiniteSet(alive) /\ IsFiniteSet(Configured)
  BY <1>1, FS_Subset
<1>3. QED
  BY <1>1, <1>2, FS_CardinalityType

(* The difference of schedule does not wrap around while there is room. *)
LEMMA RoomWhenScheduled ==
    ASSUME Inv, Cardinality(alive) <= Desired, SchedulePeers
    PROVE  Cardinality(alive) < Desired
<1>1. /\ Cardinality(alive) \in Nat /\ Desired \in 0 .. U8 - 1 /\ U8 \in Nat \ {0}
      /\ dq \in 0 .. U8 - 1 /\ dq < (Desired - Cardinality(alive)) % U8
  BY FiniteAlive, PeerManagerAssumption DEF Inv, TypeOK, ManagerTypeOK, SchedulePeers, Required
<1>2. Desired - Cardinality(alive) \in 0 .. U8 - 1
  BY <1>1
<1>3. (Desired - Cardinality(alive)) % U8 = Desired - Cardinality(alive)
  BY <1>1, <1>2
<1>4. QED
  BY <1>1, <1>3

(* Every step keeps RoomForTarget. *)
LEMMA RoomStep == Inv /\ RoomForTarget /\ [Next]_vars => RoomForTarget'
<1> SUFFICES ASSUME Inv, RoomForTarget, [Next]_vars PROVE RoomForTarget'
  OBVIOUS
<1>1. ASSUME UNCHANGED <<phase, managerVars, stageVars>> PROVE RoomForTarget'
  BY <1>1 DEF RoomForTarget, managerVars, stageVars
<1>2. CASE Connecting
  <2>1. PICK a \in Addr : InitPeer(a)
    BY <1>2 DEF Connecting
  <2>2. /\ phase = "init" /\ phase' = phase /\ dpc' = dpc
        /\ alive' = alive \cup {a} /\ a \in Configured
    BY <1>2, <2>1 DEF Connecting, InitPeer, stageVars
  <2>3. dpc' = "off" /\ alive' \subseteq Configured
    BY <2>2 DEF RoomForTarget
  <2>4. Cardinality(alive') <= Cardinality(Configured) /\ Cardinality(alive') \in Nat
    BY <2>3, FiniteAlive, FS_Subset, FS_CardinalityType
  <2>5. QED
    BY <2>3, <2>4, FiniteAlive DEF RoomForTarget
<1>3. CASE InitFails
  BY <1>3 DEF InitFails, RoomForTarget, managerVars, stageVars
<1>4. CASE SpawnStages
  BY <1>4 DEF SpawnStages, RoomForTarget, managerVars
<1>5. CASE IngestStep \/ CheckError
  BY <1>1, <1>5 DEF IngestStep, ScheduleUnit, SendTx, CheckError
<1>6. CASE Discovery(DiscoveryStep)
  <2>0. phase' = "run"
    BY <1>6 DEF Discovery
  <2> SUFFICES ASSUME Cardinality(Configured) <= Desired
               PROVE  /\ Cardinality(alive') <= Desired
                      /\ dpc' \in {"share", "execute", "connect"} => Cardinality(alive') < Desired
    BY <2>0 DEF RoomForTarget
  <2>1. /\ Cardinality(alive) <= Desired
        /\ dpc \in {"share", "execute", "connect"} => Cardinality(alive) < Desired
    BY DEF RoomForTarget
  <2>2. CASE SchedulePeers
    <3>1. alive' = alive
      BY <2>2 DEF SchedulePeers, managerVars
    <3>2. QED
      BY <2>1, <2>2, <3>1, RoomWhenScheduled
  <2>3. CASE ShareAnswer \/ ShareError \/ ShareNoAgency \/ AddKnown \/ AddPeer \/ AddPeerFails
    <3>1. alive' = alive /\ dpc \in {"share", "execute", "connect"}
      BY <2>3 DEF ShareAnswer, ShareError, ShareNoAgency, AddKnown, AddPeer, AddPeerFails, managerVars
    <3>2. QED
      BY <2>1, <3>1
  <2>4. CASE AddPeerOk
    <3>1. alive' = alive \cup {target} /\ dpc = "connect" /\ dpc' = "schedule"
      BY <2>4 DEF AddPeerOk, Executed
    <3>2. Cardinality(alive') <= Cardinality(alive) + 1
      <4>1. IsFiniteSet(alive) /\ Cardinality(alive) \in Nat
        BY FiniteAlive
      <4>2. Cardinality(alive \cup {target}) =
              IF target \in alive THEN Cardinality(alive) ELSE Cardinality(alive) + 1
        BY <4>1, FS_AddElement
      <4>3. QED
        BY <3>1, <4>1, <4>2
    <3>3. Cardinality(alive') \in Nat
      BY <3>1, FiniteAlive, FS_AddElement, FS_CardinalityType
    <3>4. QED
      BY <2>1, <3>1, <3>2, <3>3, FiniteAlive
  <2>5. QED
    BY <1>6, <2>2, <2>3, <2>4 DEF Discovery, DiscoveryStep, StageStep
<1>7. CASE BreakLink \/ \E a \in Addr : PeerActs(a, TaskStep(a) \/ RequestTxIds(a))
  BY <1>1, <1>7 DEF BreakLink, PeerActs
<1>8. CASE UNCHANGED vars
  BY <1>1, <1>8 DEF vars
<1>9. QED
  BY <1>2, <1>3, <1>4, <1>5, <1>6, <1>7, <1>8 DEF Next

(* If no more peers are configured than desired, no more are ever          *)
(* connected: schedule of src/pipeline/peer_discovery/mod.rs counts the    *)
(* peers, and the count is still good when add_peer is done.               *)
THEOREM NeverTooManyPeers == Spec => []ConnectedWithinDesired
<1>1. Init => RoomForTarget
  BY FS_EmptySet, PeerManagerAssumption DEF Init, ManagerInit, RoomForTarget
<1>2. RoomForTarget => ConnectedWithinDesired
  BY DEF RoomForTarget, ConnectedWithinDesired
<1>3. QED
  BY <1>1, <1>2, RoomStep, InvHolds, PTL DEF Spec

=============================================================================
