------------------------------ MODULE Network ------------------------------
(***************************************************************************)
(* From ingest to the nodes: ingest fills the broadcast channel as far as  *)
(* it allows, every peer empties it for its node, and the discovery stage  *)
(* adds peers meanwhile.  (src/pipeline/mod.rs, schedule and the broadcast *)
(* of src/pipeline/ingest.rs)                                              *)
(***************************************************************************)
EXTENDS PeerManager

CONSTANTS
    Cap,            \* CAP of src/pipeline/mod.rs
    U16,            \* 2^16, the range of u16; smaller in the instances
    Overshoot,      \* how far rounding lets a unit exceed the capacity
    MaxMsgs,        \* number of messages to send
    MaxErrors,      \* bound on the errors that make execute run again
    MaxLost         \* bound on the connections that break

ASSUME NetworkAssumption ==
    /\ Cap \in Nat \ {0} /\ Cap <= RingSize /\ RingSize < U16 /\ U16 \in Nat
    /\ Overshoot \in Nat /\ MaxMsgs \in Nat /\ MaxErrors \in Nat /\ MaxLost \in Nat

VARIABLES
    phase,          \* "init": connecting peers, "run": stages run, "exit"
    unit,           \* number of transactions in the unit of ingest
    togo,           \* those that execute has still to visit
    errors,         \* number of errors so far
    room,           \* history: what is left of the capacity the unit is for
    exceeded        \* history: a message was sent beyond that capacity

ingestVars == <<unit, togo, errors, room, exceeded>>
vars == <<head, cur, peerVars, managerVars, stageVars, phase, ingestVars>>

Init ==
    /\ BroadcastInit /\ PeerInit /\ ManagerInit
    /\ phase = "init"
    /\ unit = 0 /\ togo = 0 /\ errors = 0 /\ room = 0 /\ exceeded = FALSE

(* pipeline::run: a configured peer that cannot be connected ends the      *)
(* process; when all are connected the stages are spawned.                 *)
Connecting ==
    /\ phase = "init"
    /\ \E a \in Addr : InitPeer(a)
    /\ UNCHANGED <<phase, ingestVars>>

InitFails ==
    /\ phase = "init" /\ Configured \ alive # {}
    /\ phase' = "exit"
    /\ UNCHANGED <<head, cur, peerVars, managerVars, stageVars, ingestVars>>

SpawnStages ==
    /\ phase = "init" /\ Configured \subseteq alive
    /\ phase' = "run" /\ dpc' = "schedule"
    /\ UNCHANGED <<head, cur, peerVars, managerVars, dq, target, ingestVars>>

-----------------------------------------------------------------------------
(* Slip: the length of the channel is left out. *)
CurrentCap_Whole(n) == Cap

(* CAP - queued_len, in u16: wraps around when the channel holds more. *)
CurrentCap(n) == (Cap - n) % U16

(* schedule of ingest: transactions that are left, up to the capacity.     *)
(* Those that execute finds invalid send nothing and are left out.         *)
ScheduleUnit ==
    /\ phase = "run" /\ togo = 0
    /\ \E n \in 0..RingSize :
         /\ Queued(n) /\ CurrentCap(n) # 0
         /\ unit' \in 1 .. CurrentCap(n) + Overshoot
         /\ unit' <= MaxMsgs - head
         /\ room' = CurrentCap(n)
    /\ togo' = unit'
    /\ UNCHANGED <<head, cur, peerVars, managerVars, stageVars, phase, errors, exceeded>>

Visited ==
    /\ togo' = togo - 1
    /\ unit' = IF togo = 1 THEN 0 ELSE unit
    /\ UNCHANGED errors

(* WorkerError::Retry: execute runs again, from the first transaction. *)
Rerun ==
    /\ errors < MaxErrors
    /\ errors' = errors + 1 /\ togo' = unit
    /\ UNCHANGED unit

(* output.send, then fetch_tip and update, which may fail.  Without a      *)
(* receiver nothing is sent and the transaction stays pending.             *)
SendTx ==
    LET sent == Receivers # {} IN
    /\ togo > 0 /\ head < MaxMsgs
    /\ head' = IF sent THEN head + 1 ELSE head
    /\ Visited \/ (sent /\ Rerun)
    /\ room' = CASE unit' = 0         -> 0
                 [] sent /\ room > 0  -> room - 1
                 [] OTHER            -> room
    /\ exceeded' = (exceeded \/ (sent /\ room = 0))
    /\ UNCHANGED <<cur, peerVars, managerVars, stageVars, phase>>

(* What precedes send fails: the queue, the signer or an update. *)
CheckError ==
    /\ togo > 0
    /\ Rerun
    /\ UNCHANGED <<head, cur, peerVars, managerVars, stageVars, phase, room, exceeded>>

IngestStep == ScheduleUnit \/ SendTx

Lost == {a \in alive : ~ link[a]}

PeerActs(a, step) ==
    /\ phase # "exit"
    /\ step
    /\ UNCHANGED <<managerVars, stageVars, phase, ingestVars>>

Discovery(step) ==
    /\ phase = "run"
    /\ step
    /\ UNCHANGED <<phase, ingestVars>>

BreakLink == Cardinality(Lost) < MaxLost /\ \E a \in Addr : PeerActs(a, LoseLink(a))

Next ==
    \/ Connecting \/ InitFails \/ SpawnStages
    \/ IngestStep \/ CheckError \/ Discovery(DiscoveryStep) \/ BreakLink
    \/ \E a \in Addr : PeerActs(a, TaskStep(a) \/ RequestTxIds(a))

Spec == Init /\ [][Next]_vars

(* The tasks of the peers and the stages are polled for ever, and timers   *)
(* fire (add_peer gives up after five seconds).  Of the nodes: a node      *)
(* whose connection is up keeps asking for ids; it need not answer         *)
(* discover_peers, which waits without a timeout.  random_bool falls on    *)
(* the side that has an address again and again, if it is called as often. *)
PeerAnswers == Discovery(ShareAnswer)
Found == dpc' = "execute"

Fairness ==
    /\ WF_vars(IngestStep) /\ WF_vars(SpawnStages) /\ WF_vars(Discovery(StageStep))
    /\ \A a \in Addr : WF_vars(PeerActs(a, TaskStep(a) \/ RequestTxIds(a)))
    /\ SF_vars(Discovery(StageStep) /\ Found)
    /\ []<><<PeerAnswers>>_vars => []<><<PeerAnswers /\ Found>>_vars

LiveSpec == Spec /\ Fairness

-----------------------------------------------------------------------------
(* Type invariant of the whole. *)
TypeOK ==
    /\ BroadcastTypeOK /\ PeerTypeOK /\ ManagerTypeOK
    /\ phase \in {"init", "run", "exit"}
    /\ unit \in Nat /\ togo \in 0..unit /\ errors \in 0..MaxErrors
    /\ room \in Nat /\ exceeded \in BOOLEAN

(* The mempool of a peer is what its node has not acknowledged, so that an *)
(* acknowledgement by count hits the right transactions, drain(..count)    *)
(* does not panic and every body asked for is found - as long as a node    *)
(* leaves no more ids unacknowledged than the mempool holds.  Beyond that  *)
(* the mempool is still the newest part of what the node waits for.        *)
NewestOf(s, t) == \E k \in 0..Len(t) : s = SubSeq(t, k + 1, Len(t))

MempoolMirrorsNode ==
    \A a \in Addr :
        /\ link[a] /\ task[a] # "panic" => NewestOf(inflight[a], window[a])
        /\ Window[a] <= MempoolCap =>
              /\ task[a] # "panic"
              /\ link[a] => /\ inflight[a] = window[a]
                            /\ \A ids \in SUBSET Elements(window[a]) :
                                  ToSend(a, ids) = ids

(* A node is offered the messages of the channel in the order of their     *)
(* broadcast and none of them twice, whatever a peer misses by lagging or  *)
(* by a timeout.  (A transaction that ingest sends again is a new message.) *)
FifoOrder ==
    \A a \in Addr :
        LET msgs == window[a] \o got[a] IN
        /\ \A i, j \in DOMAIN msgs : i < j => msgs[i] < msgs[j]
        /\ \A i \in DOMAIN msgs : msgs[i] <= cur[a]

(* The channel never holds more than CAP, so that CAP - queued_len does    *)
(* not wrap and no receiver is overrun, until execute sends more messages  *)
(* than the capacity its unit was scheduled for, because of rounding or of *)
(* a rerun: what was queued when the unit was scheduled and what is sent   *)
(* of it fit, also for peers that subscribe meanwhile and have no task     *)
(* that reads yet.                                                         *)
ChannelWithinCap == ~ exceeded => \A a \in Receivers : Behind(a) <= Cap

(* The stage never adds a peer beyond the desired number, although it      *)
(* counts the peers long before add_peer has connected the new one.        *)
ConnectedWithinDesired ==
    Cardinality(Configured) <= Desired => Cardinality(alive) <= Desired

(* A non-blocking request is answered even if no transaction ever comes.   *)
Collecting(a) == task[a] \in {"collect", "wait"}
NonBlockingAnswered ==
    \A a \in Addr :
        phase = "run" /\ Collecting(a) /\ req[a].kind = "nonblock" ~> ~ Collecting(a)

(* The connection of a peer is down, or its task has panicked. *)
Broken == \E a \in alive : ~ link[a] \/ task[a] = "panic"

(* Back-pressure does not stall ingest while all peers are well: slow and  *)
(* new peers, lagging and timeouts hold it up only for a while.            *)
OnlyBrokenStalls == phase = "run" ~> head = MaxMsgs \/ Broken

(* While peers are missing, the stage tries one address after the other,   *)
(* also when add_peer fails or times out or knows the address, unless a    *)
(* peer that it asks for addresses never answers or a peer is broken.      *)
KeepsLooking ==
    \/ []<>(dpc = "execute" \/ Cardinality(alive) >= Desired \/ phase # "run")
    \/ <>[](dpc = "share")
    \/ <>[]Broken

-----------------------------------------------------------------------------
(* A statement of the documentation that the code does not keep.           *)
(* docs/app/design/adrs/004-fanout: "issues with one peer connection do    *)
(* not disrupt the entire distribution process"; here: every transaction   *)
(* is broadcast to the peers that are left.                                *)
BroadcastGoesOn == phase = "run" ~> head = MaxMsgs

=============================================================================
