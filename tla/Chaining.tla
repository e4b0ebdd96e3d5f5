------------------------------ MODULE Chaining ------------------------------
(***************************************************************************)
(* The lock of a chained queue (src/queue/chaining.rs).  One worker task   *)
(* per chained queue hands out the lock: it takes the next request from a  *)
(* channel, makes a token, reads the latest transaction of the queue,      *)
(* answers, and then waits for an unlock message or for LOCK_TIMEOUT.      *)
(*                                                                         *)
(* A token is 8 random letters; here the tokens are numbered, none is ever *)
(* made twice.  LOCK_TIMEOUT may pass at any moment: nothing bounds how    *)
(* long a client, a validation or a database call takes.                   *)
(***************************************************************************)
EXTENDS Storage, Sequences

CONSTANTS
    Chained,        \* the queues configured with chained = true
    Client,         \* callers of lock_state
    LockCap,        \* capacity of the channel of lock requests: 256
    UnlockCap,      \* capacity of the channel of unlock messages: 64
    MaxLocks        \* bound on the number of lock requests

ASSUME ChainingAssumption ==
    /\ Chained \subseteq Queue
    /\ LockCap \in Nat \ {0} /\ UnlockCap \in Nat \ {0} /\ MaxLocks \in Nat

VARIABLES
    lockq,          \* channel tx_lock of each queue
    unlockq,        \* number of messages in the channel tx_unlock
    state,          \* the current token of each queue, NoToken if none
    wpc,            \* control point of the worker
    serving,        \* the client whose request the worker has taken, if any
    stream,         \* the response stream of each client
    asked,          \* number of lock requests so far
    grants,         \* history: every token made, with what its holder was told
    expired         \* history: queues whose lock has timed out

chainingVars == <<lockq, unlockq, state, wpc, serving, stream, asked, grants, expired>>

NoToken == 0
Grant == [queue : Chained, base : SUBSET Tx, delivered : BOOLEAN]

ChainingInit ==
    /\ lockq = [q \in Chained |-> <<>>]
    /\ unlockq = [q \in Chained |-> 0]
    /\ state = [q \in Chained |-> NoToken]
    /\ wpc = [q \in Chained |-> "recv"]
    /\ serving = [q \in Chained |-> {}]
    /\ stream = [c \in Client |-> "idle"]
    /\ asked = 0 /\ grants = <<>> /\ expired = {}

IsChainedQueue(q) == q \in Chained
IsValidToken(q, k) == state[q] # NoToken /\ state[q] = k

-----------------------------------------------------------------------------
(* Calls of the server. *)

(* lock_state: a response stream is opened and lock() queues the request. *)
Lock(c, q) ==
    /\ IsChainedQueue(q)
    /\ stream[c] = "idle" /\ asked < MaxLocks
    /\ Len(lockq[q]) < LockCap
    /\ lockq' = [lockq EXCEPT ![q] = Append(@, c)]
    /\ stream' = [stream EXCEPT ![c] = "waiting"]
    /\ asked' = asked + 1
    /\ UNCHANGED <<unlockq, state, wpc, serving, grants, expired>>

(* The client goes away before it is answered; its request stays queued. *)
Hangup(c) ==
    /\ stream[c] = "waiting"
    /\ stream' = [stream EXCEPT ![c] = "gone"]
    /\ UNCHANGED <<lockq, unlockq, state, wpc, serving, asked, grants, expired>>

(* Slip: the channel is taken to be unbounded. *)
Unlock_Unbounded(q) == unlockq' = [unlockq EXCEPT ![q] = @ + 1]

(* unlock(): waits while the channel is full. *)
Unlock(q) ==
    /\ unlockq[q] < UnlockCap
    /\ unlockq' = [unlockq EXCEPT ![q] = @ + 1]

-----------------------------------------------------------------------------
(* The worker. *)

RecvLock(q) ==
    /\ wpc[q] = "recv" /\ lockq[q] # <<>>
    /\ serving' = [serving EXCEPT ![q] = {Head(lockq[q])}]
    /\ lockq' = [lockq EXCEPT ![q] = Tail(@)]
    /\ grants' = Append(grants, [queue |-> q, base |-> {}, delivered |-> FALSE])
    /\ state' = [state EXCEPT ![q] = Len(grants) + 1]
    /\ wpc' = [wpc EXCEPT ![q] = "latest"]
    /\ UNCHANGED <<unlockq, stream, asked, expired>>

(* The answer closes the stream; a client that is gone gets none. *)
Answered(q) ==
    /\ stream' = [c \in Client |-> IF c \in serving[q] THEN "idle" ELSE stream[c]]
    /\ serving' = [serving EXCEPT ![q] = {}]

Listens(q) == \A c \in serving[q] : stream[c] = "waiting"

Deliver(q) ==
    grants' = [grants EXCEPT ![state[q]] =
                 [queue |-> q, base |-> Latest(q), delivered |-> TRUE]]

(* Slip: the worker takes the next request without waiting for the unlock. *)
Respond_NoWait(q) ==
    /\ wpc[q] = "latest"
    /\ Answered(q)
    /\ IF Listens(q) THEN Deliver(q) ELSE UNCHANGED grants
    /\ wpc' = [wpc EXCEPT ![q] = "recv"]
    /\ UNCHANGED <<lockq, unlockq, state, asked, expired>>

(* Slip: the worker returns when the client is gone. *)
Respond_Return(q) ==
    /\ wpc[q] = "latest"
    /\ Answered(q)
    /\ \/ /\ Listens(q)
          /\ Deliver(q)
          /\ wpc' = [wpc EXCEPT ![q] = "held"]
       \/ /\ ~ Listens(q)
          /\ wpc' = [wpc EXCEPT ![q] = "ended"]
          /\ UNCHANGED grants
    /\ UNCHANGED <<lockq, unlockq, state, asked, expired>>

(* latest() and the send of the answer.  When the client is gone the next  *)
(* request is served; the token that nobody got stays in the map.          *)
Respond(q) ==
    /\ wpc[q] = "latest"
    /\ Answered(q)
    /\ \/ /\ Listens(q)
          /\ Deliver(q)
          /\ wpc' = [wpc EXCEPT ![q] = "held"]
       \/ /\ ~ Listens(q)
          /\ wpc' = [wpc EXCEPT ![q] = "recv"]
          /\ UNCHANGED grants
    /\ UNCHANGED <<lockq, unlockq, state, asked, expired>>

(* latest() fails: the client gets an error, the token stays in the map. *)
LatestError(q) ==
    /\ wpc[q] = "latest"
    /\ Answered(q)
    /\ wpc' = [wpc EXCEPT ![q] = "recv"]
    /\ UNCHANGED <<lockq, unlockq, state, asked, grants, expired>>

(* select!: whichever comes first takes the token out of the map. *)
ReleaseByUnlock(q) ==
    /\ wpc[q] = "held" /\ unlockq[q] > 0
    /\ unlockq' = [unlockq EXCEPT ![q] = @ - 1]
    /\ state' = [state EXCEPT ![q] = NoToken]
    /\ wpc' = [wpc EXCEPT ![q] = "recv"]
    /\ UNCHANGED <<lockq, serving, stream, asked, grants, expired>>

(* Slip: the token stays valid after the timeout. *)
ReleaseByTimeout_KeepToken(q) ==
    /\ wpc[q] = "held"
    /\ wpc' = [wpc EXCEPT ![q] = "recv"]
    /\ expired' = expired \cup {q}
    /\ UNCHANGED <<lockq, unlockq, state, serving, stream, asked, grants>>

ReleaseByTimeout(q) ==
    /\ wpc[q] = "held"
    /\ state' = [state EXCEPT ![q] = NoToken]
    /\ wpc' = [wpc EXCEPT ![q] = "recv"]
    /\ expired' = expired \cup {q}
    /\ UNCHANGED <<lockq, unlockq, serving, stream, asked, grants>>

WorkerStep(q) ==
    \/ RecvLock(q) \/ Respond(q) \/ LatestError(q)
    \/ ReleaseByUnlock(q) \/ ReleaseByTimeout(q)

ChainingTypeOK ==
    /\ lockq \in [Chained -> Seq(Client)]
    /\ unlockq \in [Chained -> 0..UnlockCap]
    /\ state \in [Chained -> 0..Len(grants)]
    /\ wpc \in [Chained -> {"recv", "latest", "held"}]
    /\ serving \in [Chained -> SUBSET Client]
    /\ stream \in [Client -> {"idle", "waiting", "gone"}]
    /\ asked \in Nat /\ grants \in Seq(Grant) /\ expired \subseteq Chained

=============================================================================
