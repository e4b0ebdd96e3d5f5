------------------------------- MODULE Server -------------------------------
(***************************************************************************)
(* The submit service (src/server/submit.rs) with the locks of the chained *)
(* queues behind it.  Requests run concurrently, each in its own task:     *)
(* every transaction of a request is validated, stamped with the time and  *)
(* its token checked, then all are stored in one database transaction,     *)
(* then one unlock message is sent for every chained transaction.          *)
(* Validation calls other services and may find a transaction valid or     *)
(* not.  The clock does not go back or give the same time twice.           *)
(***************************************************************************)
EXTENDS Chaining

CONSTANTS
    Request,            \* concurrent submit_tx calls
    MaxBatch,           \* bound on the transactions of one request
    MaxStamp,           \* bound on the values of created_at
    Configured,         \* the configured queues
    SigningQueues,      \* those with server_signing
    DefaultQueue,       \* DEFAULT_QUEUE
    Unnamed             \* transactions whose request names no queue

ASSUME ServerAssumption ==
    /\ MaxBatch \in Nat /\ MaxStamp \in Nat
    /\ SigningQueues \subseteq Configured /\ Chained \subseteq Configured
    /\ Unnamed \subseteq Tx /\ \A t \in Unnamed : QueueOf[t] = DefaultQueue

VARIABLES
    req,                \* the request that each call works on
    by                  \* history: the token each stored transaction came with

storageVars == <<table, cursor>>
vars == <<storageVars, chainingVars, req, by>>

(* The transactions that the loop has still to visit, the token that the   *)
(* client sends for each chained queue, the transactions accepted, the     *)
(* created_at of each, and the chained queues they are for, one entry per  *)
(* transaction; in the last phase chained is what is left to unlock.       *)
NoTokens == [q \in Chained |-> NoToken]
NoRequest == [pc |-> "idle", todo |-> <<>>, tokens |-> NoTokens, accepted |-> <<>>,
              stamps |-> <<>>, chained |-> <<>>]

Init ==
    /\ StorageInit /\ ChainingInit
    /\ req = [r \in Request |-> NoRequest]
    /\ by = [t \in Tx |-> NoToken]

(* Tokens that clients know of, and the empty one. *)
KnownTokens == {NoToken} \cup {k \in DOMAIN grants : grants[k].delivered}

ShouldValidate(t) ==
    \/ t \in Unnamed
    \/ (IF QueueOf[t] \in Configured THEN QueueOf[t] ELSE DefaultQueue) \notin SigningQueues

NeedsToken(t) == t \notin Unnamed /\ IsChainedQueue(QueueOf[t])

(* Utc::now() in Transaction::new: later than every stamp that is in use.  *)
(* Only the order of the stamps matters, so the next number will do.       *)
Stamps ==
    {table[t].created : t \in Existing}
      \cup UNION {{req[r].stamps[i] : i \in DOMAIN req[r].stamps} : r \in Request}
IsNow(n) == (\A m \in Stamps : m < n) /\ (n = 1 \/ n - 1 \in Stamps)

InLoop(r) == req[r].pc = "check" /\ req[r].todo # <<>>
Current(r) == Head(req[r].todo)
TokenValid(r) == IsValidToken(QueueOf[Current(r)], req[r].tokens[QueueOf[Current(r)]])
LoopDone(r) == req[r].pc = "check" /\ req[r].todo = <<>>
Return(r) == req' = [req EXCEPT ![r] = NoRequest]

ReceiveRequest(r) ==
    /\ req[r].pc = "idle"
    /\ \E n \in 1..MaxBatch : \E ts \in [1..n -> Tx], ks \in [Chained -> KnownTokens] :
          req' = [req EXCEPT ![r] =
                    [NoRequest EXCEPT !.pc = "check", !.todo = ts, !.tokens = ks]]
    /\ UNCHANGED <<storageVars, chainingVars, by>>

(* A transaction that fails its validation is left out. *)
SkipTx(r) ==
    /\ InLoop(r)
    /\ ShouldValidate(Current(r))
    /\ req' = [req EXCEPT ![r].todo = Tail(@)]
    /\ UNCHANGED <<storageVars, chainingVars, by>>

AcceptTx(r) ==
    /\ InLoop(r)
    /\ NeedsToken(Current(r)) => TokenValid(r)
    /\ \E now \in 1..MaxStamp :
         /\ IsNow(now)
         /\ req' = [req EXCEPT ![r].todo = Tail(@),
                               ![r].accepted = Append(@, Current(r)),
                               ![r].stamps = Append(@, now),
                               ![r].chained = IF NeedsToken(Current(r))
                                              THEN Append(@, QueueOf[Current(r)]) ELSE @]
    /\ UNCHANGED <<storageVars, chainingVars, by>>

(* One wrong token refuses the request. *)
DenyTx(r) ==
    /\ InLoop(r)
    /\ NeedsToken(Current(r)) /\ ~ TokenValid(r)
    /\ Return(r)
    /\ UNCHANGED <<storageVars, chainingVars, by>>

StoreTxs(r) ==
    /\ LoopDone(r)
    /\ Create(req[r].accepted, req[r].stamps)
    /\ by' = [t \in Tx |->
                IF NeedsToken(t) /\ \E j \in DOMAIN req[r].accepted : req[r].accepted[j] = t
                THEN req[r].tokens[QueueOf[t]] ELSE by[t]]
    /\ req' = [req EXCEPT ![r] =
                 [NoRequest EXCEPT !.pc = "unlock", !.chained = req[r].chained]]
    /\ UNCHANGED <<cursor, chainingVars>>

(* create fails, for a stored id or any other reason: no unlock is sent. *)
StoreError(r) ==
    /\ LoopDone(r)
    /\ Return(r)
    /\ UNCHANGED <<storageVars, chainingVars, by>>

UnlockNext(r) ==
    /\ req[r].pc = "unlock" /\ req[r].chained # <<>>
    /\ Unlock(Head(req[r].chained))
    /\ req' = [req EXCEPT ![r].chained = Tail(@)]
    /\ UNCHANGED <<storageVars, lockq, state, wpc, serving, stream, asked, grants,
                   expired, by>>

ReturnRefs(r) ==
    /\ req[r].pc = "unlock" /\ req[r].chained = <<>>
    /\ Return(r)
    /\ UNCHANGED <<storageVars, chainingVars, by>>

SubmitTx(r) ==
    \/ ReceiveRequest(r) \/ SkipTx(r) \/ AcceptTx(r) \/ DenyTx(r)
    \/ StoreTxs(r) \/ StoreError(r) \/ UnlockNext(r) \/ ReturnRefs(r)

LockState ==
    /\ \E c \in Client : Hangup(c) \/ \E q \in Chained : Lock(c, q)
    /\ UNCHANGED <<storageVars, req, by>>

Worker(q) == WorkerStep(q) /\ UNCHANGED <<storageVars, req, by>>

Next ==
    \/ \E r \in Request : SubmitTx(r)
    \/ LockState
    \/ \E q \in Chained : Worker(q)

Spec == Init /\ [][Next]_vars

(* A worker is a task that the runtime keeps polling, and its timer fires. *)
LiveSpec == Spec /\ \A q \in Chained : WF_vars(Worker(q))

-----------------------------------------------------------------------------
(* Type invariant: in particular the channels keep within their capacity. *)
TypeOK ==
    /\ StorageTypeOK /\ ChainingTypeOK
    /\ by \in [Tx -> 0..Len(grants)]
    /\ \A r \in Request :
         /\ req[r].pc \in {"idle", "check", "unlock"}
         /\ req[r].todo \in Seq(Tx) /\ req[r].accepted \in Seq(Tx)
         /\ req[r].stamps \in Seq(Nat) /\ req[r].chained \in Seq(Chained)
         /\ req[r].tokens \in [Chained -> 0..Len(grants)]

(* A token that some client knows is accepted only while the worker still  *)
(* waits for that client: the tokens that the error paths of the worker    *)
(* leave in the map are known to nobody.                                   *)
TokenOnlyWhileHeld ==
    \A q \in Chained : state[q] \in KnownTokens \ {NoToken} =>
        wpc[q] = "held" /\ grants[state[q]].queue = q

(* The use that chaining is made for: no lock of the queue has timed out,  *)
(* every token was used for one transaction and no transaction came        *)
(* without a token.                                                        *)
Disciplined(q) ==
    /\ q \notin expired
    /\ \A t, u \in InQueueEver(q) : by[t] # NoToken /\ (by[t] = by[u] => t = u)

Previous(t) ==
    LET before == {u \in InQueueEver(QueueOf[t]) : table[u].created < table[t].created}
    IN  {u \in before : \A v \in before : table[v].created <= table[u].created}

(* Then the queue is one chain: every stored transaction was built on the  *)
(* one stored just before it, although the token is checked long before    *)
(* the rows are written, clients hang up, and calls fail half way.         *)
ChainLinear ==
    \A q \in Chained : Disciplined(q) =>
        \A t \in InQueueEver(q) : grants[by[t]].base = Previous(t)

(* Every lock request is answered, unless its client goes away first. *)
LockAnswered == \A c \in Client : stream[c] = "waiting" ~> stream[c] # "waiting"

-----------------------------------------------------------------------------
(* A statement of the tests that the code does not keep. *)

(* chaining.rs, it_should_wait_timeout_to_lock_queue: a lock that its       *)
(* holder does not use is held until LOCK_TIMEOUT.                         *)
HeldUntilUsed ==
    [][\A q \in Chained :
          wpc[q] = "held" /\ wpc'[q] # "held" /\ unlockq'[q] # unlockq[q]
             => \E t \in Tx : by[t] = state[q]]_vars

=============================================================================
