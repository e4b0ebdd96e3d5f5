---------------------------- MODULE PeerManager ----------------------------
(***************************************************************************)
(* The peer manager (src/network/peer_manager.rs) and the stage that looks *)
(* for more peers (src/pipeline/peer_discovery/mod.rs).                    *)
(*                                                                         *)
(* Only the stage uses the manager once the configured peers are           *)
(* connected, one call at a time, so the manager's lock is never           *)
(* contended.  Nothing ever clears is_alive or removes a peer, and the     *)
(* manager keeps the receiver of a peer whose task has ended.              *)
(***************************************************************************)
EXTENDS Peer, FiniteSets

CONSTANTS
    Configured,     \* the configured peers
    Relay,          \* what the relay adapter returns
    Desired,        \* desired_peer_count
    U8              \* 2^8, the range of u8; smaller in the instances

ASSUME PeerManagerAssumption ==
    /\ IsFiniteSet(Addr) /\ Configured \subseteq Addr /\ Relay \subseteq Addr
    /\ U8 \in Nat \ {0} /\ Desired \in 0 .. U8 - 1

VARIABLES
    known,          \* keys of the manager's map
    alive,          \* peers with is_alive
    sharing,        \* peers with is_peer_sharing_enabled
    busy,           \* peers whose peer sharing client has no agency
    dpc,            \* control point of the discovery stage
    dq,             \* peer_discovery_queue
    target          \* the peer that is asked, or the address to add

managerVars == <<known, alive, sharing, busy>>
stageVars == <<dpc, dq, target>>

NoAddr == "none"

(* PeerManager::new, Worker::bootstrap *)
ManagerInit ==
    /\ known = Configured /\ alive = {} /\ sharing = {} /\ busy = {}
    /\ dpc = "off" /\ dq = 0 /\ target = NoAddr

(* query_peer_sharing_mode: the node says whether it shares peers. *)
QueryPeerSharingMode(a) == sharing' \in {sharing, sharing \cup {a}}

(* One round of PeerManager::init; the configured peers come in any order. *)
InitPeer(a) ==
    /\ a \in Configured \ alive
    /\ Subscribe(a)
    /\ Connect(a)
    /\ alive' = alive \cup {a}
    /\ QueryPeerSharingMode(a)
    /\ UNCHANGED <<head, known, busy, stageVars>>

-----------------------------------------------------------------------------
(* Slip: the stage looks for one peer too many. *)
Required_OneMore == (Desired + 1 - Cardinality(alive)) % U8

(* schedule.  The difference is taken in usize and cut to u8: it wraps     *)
(* around when more peers are connected than desired.                      *)
Required == (Desired - Cardinality(alive)) % U8

(* pick_peer_rand: the peers that can be asked for others. *)
Candidates == alive \cap sharing

(* The address is a relay or what a peer has answered; random_bool may     *)
(* choose the side that has none.                                          *)
Choose(shared) ==
    \/ \E b \in Relay \cup shared :
         /\ target' = b /\ dq' = (dq + 1) % U8 /\ dpc' = "execute"
    \/ /\ Relay = {} \/ shared = {}
       /\ target' = NoAddr /\ dpc' = "schedule" /\ UNCHANGED dq

SchedulePeers ==
    /\ dpc = "schedule" /\ dq < Required
    /\ IF Candidates = {}
       THEN Choose({})
       ELSE /\ target' \in Candidates
            /\ dpc' = "share" /\ UNCHANGED dq
    /\ UNCHANGED <<head, cur, peerVars, managerVars>>

(* discover_peers: the peer answers with addresses, one is picked.  A peer *)
(* that does not answer keeps the stage waiting.                           *)
ShareAnswer ==
    /\ dpc = "share" /\ target \notin busy
    /\ link[target] /\ task[target] # "ended"
    /\ \E shared \in SUBSET Addr : Cardinality(shared) <= 1 /\ Choose(shared)
    /\ UNCHANGED <<head, cur, peerVars, managerVars>>

(* The request cannot be sent, or the answer does not come: or_retry.  In  *)
(* the second case the agency stays with the other side.                   *)
ShareError ==
    /\ dpc = "share" /\ target \notin busy /\ ~ link[target]
    /\ \/ UNCHANGED busy
       \/ task[target] # "ended" /\ busy' = busy \cup {target}
    /\ dpc' = "schedule" /\ target' = NoAddr
    /\ UNCHANGED <<head, cur, peerVars, known, alive, sharing, dq>>

ShareNoAgency ==
    /\ dpc = "share" /\ target \in busy
    /\ sharing' = sharing \ {target}
    /\ Choose({})
    /\ UNCHANGED <<head, cur, peerVars, known, alive, busy>>

-----------------------------------------------------------------------------
(* Slip: the unit of work is not taken off the count. *)
Executed_KeepCount == dpc' = "schedule" /\ target' = NoAddr /\ UNCHANGED dq

(* execute, after add_peer. *)
Executed == dpc' = "schedule" /\ target' = NoAddr /\ dq' = (dq - 1) % U8

AddKnown ==
    /\ dpc = "execute" /\ target \in known
    /\ Executed
    /\ UNCHANGED <<head, cur, peerVars, managerVars>>

(* add_peer subscribes before it connects. *)
AddPeer ==
    /\ dpc = "execute" /\ target \notin known
    /\ Subscribe(target)
    /\ dpc' = "connect"
    /\ UNCHANGED <<head, peerVars, managerVars, dq, target>>

AddPeerOk ==
    /\ dpc = "connect"
    /\ Connect(target)
    /\ known' = known \cup {target} /\ alive' = alive \cup {target}
    /\ Executed
    /\ UNCHANGED <<head, cur, sharing, busy>>

(* Slip: the receiver of the peer that was not added lives on. *)
AddPeerFails_KeepReceiver ==
    /\ dpc = "connect"
    /\ Executed
    /\ UNCHANGED <<head, cur, peerVars, managerVars>>

(* An error, or the timeout of five seconds: the new peer is dropped. *)
AddPeerFails ==
    /\ dpc = "connect"
    /\ Unsubscribe(target)
    /\ Executed
    /\ UNCHANGED <<head, peerVars, managerVars>>

(* The steps that need no answer of another peer. *)
StageStep ==
    \/ SchedulePeers \/ ShareNoAgency
    \/ AddKnown \/ AddPeer \/ AddPeerOk \/ AddPeerFails

DiscoveryStep == StageStep \/ ShareAnswer \/ ShareError

ManagerTypeOK ==
    /\ known \subseteq Addr /\ alive \subseteq known
    /\ sharing \subseteq alive /\ busy \subseteq alive
    /\ dpc \in {"off", "schedule", "share", "execute", "connect"}
    /\ dq \in 0 .. U8 - 1 /\ target \in Addr \cup {NoAddr}

=============================================================================
