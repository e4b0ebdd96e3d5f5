---------------------------- MODULE ServerProofs ----------------------------
(***************************************************************************)
(* Proofs about the submit service and the locks of the chained queues:    *)
(* type correctness, that a token a client knows is accepted only while    *)
(* the lock is held, and that a queue used as chaining is meant to be used *)
(* is one chain.                                                           *)
(***************************************************************************)
EXTENDS Server, FiniteSetTheorems, SequenceTheorems, TLAPS

-----------------------------------------------------------------------------
(* Types. *)

Call ==
    [pc : {"idle", "check", "unlock"}, todo : Seq(Tx), tokens : [Chained -> Nat],
     accepted : Seq(Tx), stamps : Seq(Nat), chained : Seq(Chained)]

(* Every accepted transaction has its created_at. *)
Stamped == \A r \in Request : Len(req[r].stamps) = Len(req[r].accepted)

(* The types of the variables, the numbers of the tokens left unbounded. *)
Shape ==
    /\ table \in [Tx -> Row] /\ cursor \in Point
    /\ lockq \in [Chained -> Seq(Client)]
    /\ unlockq \in [Chained -> 0..UnlockCap]
    /\ state \in [Chained -> Nat]
    /\ wpc \in [Chained -> {"recv", "latest", "held"}]
    /\ serving \in [Chained -> SUBSET Client]
    /\ stream \in [Client -> {"idle", "waiting", "gone"}]
    /\ asked \in Nat /\ grants \in Seq(Grant) /\ expired \subseteq Chained
    /\ by \in [Tx -> Nat]
    /\ req \in [Request -> Call] /\ Stamped

(* The token in the map is one that was made for the queue, and its client *)
(* has got it exactly while the worker waits.                              *)
TokenOf(q) ==
    /\ state[q] <= Len(grants)
    /\ wpc[q] \in {"latest", "held"} => state[q] # NoToken
    /\ state[q] # NoToken =>
         /\ grants[state[q]].queue = q
         /\ grants[state[q]].delivered <=> wpc[q] = "held"
TokensOwned == \A q \in Chained : TokenOf(q)

-----------------------------------------------------------------------------
(* The rows that create writes are rows. *)
LEMMA CreateTyped ==
    ASSUME table \in [Tx -> Row], NEW ts \in Seq(Tx), NEW at \in Seq(Nat),
           Len(at) = Len(ts), Create(ts, at)
    PROVE  table' \in [Tx -> Row]
<1>3. ASSUME NEW t \in {ts[i] : i \in DOMAIN ts}
      PROVE  Position(ts, t) \in 1..Len(ts) /\ ts[Position(ts, t)] = t
  BY <1>3 DEF Position
<1>4. ASSUME NEW t \in {ts[i] : i \in DOMAIN ts}
      PROVE  at[Position(ts, t)] \in Nat
  BY <1>3
<1> QED
  BY <1>4 DEF Create, Row, Status, Slot, NoSlot

(* The initial state has the types. *)
LEMMA ShapeInit == Init => Shape /\ TokensOwned
<1> USE DEF Init, StorageInit, ChainingInit
<1>1. ASSUME Init PROVE table \in [Tx -> Row] /\ cursor \in Point
  BY <1>1 DEF Row, Status, Slot, NoSlot, Point, NoCursor
<1>2. ASSUME Init PROVE req \in [Request -> Call]
  BY <1>2 DEF Call, NoRequest, NoTokens, NoToken
<1>6. ASSUME Init PROVE Stamped
  BY <1>6 DEF Stamped, NoRequest
<1>3. ASSUME Init PROVE unlockq \in [Chained -> 0..UnlockCap]
  BY <1>3, ChainingAssumption
<1>4. Init => Shape
  BY <1>1, <1>2, <1>3, <1>6 DEF Shape, NoToken
<1>5. Init => TokensOwned
  BY DEF TokensOwned, TokenOf, NoToken
<1> QED
  BY <1>4, <1>5

(* A call that accepts a transaction gives it a stamp. *)
LEMMA AcceptCall ==
    ASSUME req \in [Request -> Call], NEW r \in Request, AcceptTx(r)
    PROVE  \E now \in Nat :
             LET t == Current(r) IN
             /\ IsNow(now) /\ t \in Tx /\ req'[r].pc = "check"
             /\ req'[r].todo = Tail(req[r].todo) /\ req'[r].tokens = req[r].tokens
             /\ req'[r].accepted = Append(req[r].accepted, t)
             /\ req'[r].stamps = Append(req[r].stamps, now)
             /\ req'[r].chained = IF NeedsToken(t) THEN Append(req[r].chained, QueueOf[t])
                                                   ELSE req[r].chained
             /\ req'[r] \in Call
             /\ req' = [req EXCEPT ![r] = req'[r]]
<1>a. req[r] \in Call /\ req[r].todo \in Seq(Tx) /\ req[r].todo # <<>>
  BY DEF AcceptTx, InLoop, Call
<1>b. Current(r) \in Tx /\ Tail(req[r].todo) \in Seq(Tx) /\ req[r].pc = "check"
  BY <1>a DEF AcceptTx, InLoop, Current
<1>1. PICK now \in 1..MaxStamp :
        /\ IsNow(now)
        /\ req' = [req EXCEPT ![r].todo = Tail(@),
                              ![r].accepted = Append(@, Current(r)),
                              ![r].stamps = Append(@, now),
                              ![r].chained = IF NeedsToken(Current(r))
                                             THEN Append(@, QueueOf[Current(r)]) ELSE @]
  BY Zenon DEF AcceptTx
<1> DEFINE t == Current(r)
           ch == IF NeedsToken(t) THEN Append(req[r].chained, QueueOf[t]) ELSE req[r].chained
           new == [req[r] EXCEPT !.todo = Tail(@), !.accepted = Append(@, t),
                                 !.stamps = Append(@, now), !.chained = ch]
<1>2. req' = [req EXCEPT ![r] = new]
  BY <1>1
<1>3. now \in Nat
  BY <1>1, ServerAssumption
<1>4. ch \in Seq(Chained) /\ Append(req[r].accepted, t) \in Seq(Tx)
  BY <1>a, <1>b DEF Call, NeedsToken, IsChainedQueue
<1>5. Append(req[r].stamps, now) \in Seq(Nat)
  BY <1>a, <1>3 DEF Call
<1> HIDE DEF ch, t
<1>6. /\ new \in Call /\ new.pc = "check" /\ new.todo = Tail(req[r].todo)
      /\ new.tokens = req[r].tokens /\ new.accepted = Append(req[r].accepted, t)
      /\ new.stamps = Append(req[r].stamps, now) /\ new.chained = ch
  BY <1>a, <1>b, <1>4, <1>5 DEF Call
<1> HIDE DEF new
<1>7. req'[r] = new
  BY <1>2
<1> QED
  BY <1>1, <1>b, <1>2, <1>3, <1>6, <1>7 DEF ch, t

(* A call does not touch the others. *)
LEMMA OtherCalls ==
    ASSUME req \in [Request -> Call], NEW r \in Request, SubmitTx(r)
    PROVE  \A p \in Request \ {r} : req'[p] = req[p]
<1>1. CASE AcceptTx(r)
  <2>1. req' = [req EXCEPT ![r] = req'[r]]
    BY <1>1, AcceptCall
  <2> QED
    BY <2>1
<1> QED
  BY <1>1 DEF SubmitTx, ReceiveRequest, SkipTx, DenyTx, StoreTxs, StoreError,
              UnlockNext, ReturnRefs, Return

(* Every step of a call keeps the stamps in step with the transactions. *)
LEMMA StampedStep ==
    ASSUME Shape, NEW r \in Request, SubmitTx(r)
    PROVE  Stamped'
<1>a. req \in [Request -> Call] /\ req[r] \in Call /\ Stamped
  BY DEF Shape
<1>b. \A p \in Request \ {r} : req'[p] = req[p]
  BY <1>a, OtherCalls
<1>1. ASSUME Len(req'[r].stamps) = Len(req'[r].accepted) PROVE Stamped'
  BY <1>1, <1>a, <1>b DEF Stamped
<1>2. CASE SkipTx(r) \/ UnlockNext(r)
  <2>1. req'[r].stamps = req[r].stamps /\ req'[r].accepted = req[r].accepted
    BY <1>2, <1>a DEF SkipTx, UnlockNext, Call
  <2> QED
    BY <2>1, <1>1, <1>a DEF Stamped
<1>3. CASE AcceptTx(r)
  <2>1. PICK now \in Nat :
          /\ Current(r) \in Tx
          /\ req'[r].accepted = Append(req[r].accepted, Current(r))
          /\ req'[r].stamps = Append(req[r].stamps, now)
    BY <1>3, <1>a, AcceptCall
  <2>2. /\ req[r].accepted \in Seq(Tx) /\ req[r].stamps \in Seq(Nat)
        /\ Len(req[r].stamps) = Len(req[r].accepted)
    BY <1>a DEF Call, Stamped
  <2>3. Len(req'[r].stamps) = Len(req'[r].accepted)
    BY <2>1, <2>2
  <2> QED
    BY <2>3, <1>1
<1>4. CASE ReceiveRequest(r) \/ DenyTx(r) \/ StoreTxs(r) \/ StoreError(r) \/ ReturnRefs(r)
  <2>1. req'[r].stamps = <<>> /\ req'[r].accepted = <<>>
    <3>1. CASE ReceiveRequest(r)
      BY <3>1, <1>a DEF ReceiveRequest, NoRequest
    <3>2. CASE DenyTx(r) \/ StoreError(r) \/ ReturnRefs(r)
      BY <3>2, <1>a DEF DenyTx, StoreError, ReturnRefs, Return, NoRequest
    <3>3. CASE StoreTxs(r)
      BY <3>3, <1>a DEF StoreTxs, NoRequest
    <3> QED
      BY <1>4, <3>1, <3>2, <3>3
  <2> QED
    BY <2>1, <1>1
<1> QED
  BY <1>2, <1>3, <1>4 DEF SubmitTx

(* The steps of a call keep the types. *)
LEMMA ShapeSubmit ==
    ASSUME Shape, NEW r \in Request, SubmitTx(r)
    PROVE  Shape'
<1>s. Stamped'
  BY StampedStep
<1> USE DEF Shape
<1>a. /\ req[r] \in Call
      /\ NoRequest \in Call
  BY DEF Call, NoRequest, NoTokens, NoToken
<1>b. ASSUME InLoop(r)
      PROVE  Current(r) \in Tx /\ Tail(req[r].todo) \in Seq(Tx)
  BY <1>a, <1>b DEF InLoop, Current, Call
<1>1. CASE ReceiveRequest(r)
  <2>1. KnownTokens \subseteq Nat
    BY DEF KnownTokens, NoToken
  <2>2. PICK n \in 1..MaxBatch : \E ts \in [1..n -> Tx], ks \in [Chained -> KnownTokens] :
          req' = [req EXCEPT ![r] = [NoRequest EXCEPT !.pc = "check", !.todo = ts, !.tokens = ks]]
    BY <1>1 DEF ReceiveRequest
  <2>3. PICK ts \in [1..n -> Tx], ks \in [Chained -> KnownTokens] :
          req' = [req EXCEPT ![r] = [NoRequest EXCEPT !.pc = "check", !.todo = ts, !.tokens = ks]]
    BY <2>2
  <2>4. n \in Nat /\ ts \in Seq(Tx)
    BY ServerAssumption
  <2>5. ks \in [Chained -> Nat]
    BY <2>1
  <2>6. [NoRequest EXCEPT !.pc = "check", !.todo = ts, !.tokens = ks] \in Call
    BY <2>4, <2>5, <1>a DEF Call
  <2>7. req' \in [Request -> Call]
    BY <2>3, <2>6
  <2> QED
    BY <1>1, <1>s, <2>7 DEF ReceiveRequest, storageVars, chainingVars
<1>2. CASE SkipTx(r)
  <2>1. [req[r] EXCEPT !.todo = Tail(@)] \in Call
    BY <1>2, <1>a, <1>b DEF SkipTx, Call
  <2>2. req' = [req EXCEPT ![r] = [req[r] EXCEPT !.todo = Tail(@)]]
    BY <1>2 DEF SkipTx
  <2> QED
    BY <1>2, <1>s, <2>1, <2>2 DEF SkipTx, storageVars, chainingVars
<1>3. CASE AcceptTx(r)
  <2>1. req' \in [Request -> Call]
    <3>1. req'[r] \in Call /\ req' = [req EXCEPT ![r] = req'[r]]
      BY <1>3, AcceptCall
    <3> HIDE DEF Shape
    <3> QED
      BY <3>1 DEF Shape
  <2> QED
    BY <1>3, <1>s, <2>1 DEF AcceptTx, storageVars, chainingVars
<1>4. CASE DenyTx(r) \/ StoreError(r) \/ ReturnRefs(r)
  BY <1>4, <1>s, <1>a DEF DenyTx, StoreError, ReturnRefs, Return, storageVars, chainingVars
<1>5. CASE StoreTxs(r)
  <2>1. table' \in [Tx -> Row]
    <3>1. /\ req[r].accepted \in Seq(Tx) /\ req[r].stamps \in Seq(Nat)
          /\ Len(req[r].stamps) = Len(req[r].accepted)
      BY <1>a DEF Call, Stamped
    <3> QED
      BY <1>5, <3>1, CreateTyped DEF StoreTxs
  <2>2. by' \in [Tx -> Nat]
    BY <1>5, <1>a DEF StoreTxs, Call, NeedsToken, IsChainedQueue
  <2>3. [NoRequest EXCEPT !.pc = "unlock", !.chained = req[r].chained] \in Call
    BY <1>a DEF Call
  <2>4. req' \in [Request -> Call]
    BY <1>5, <2>3 DEF StoreTxs
  <2>5. UNCHANGED <<cursor, chainingVars>>
    BY <1>5 DEF StoreTxs
  <2> QED
    BY <1>s, <2>1, <2>2, <2>4, <2>5 DEF chainingVars
<1>6. CASE UnlockNext(r)
  <2>1. /\ Head(req[r].chained) \in Chained
        /\ Tail(req[r].chained) \in Seq(Chained)
    BY <1>6, <1>a DEF UnlockNext, Call
  <2>2. [req[r] EXCEPT !.chained = Tail(@)] \in Call
    BY <2>1, <1>a DEF Call
  <2>3. req' = [req EXCEPT ![r] = [req[r] EXCEPT !.chained = Tail(@)]]
    BY <1>6 DEF UnlockNext
  <2>4. unlockq' \in [Chained -> 0..UnlockCap]
    <3> DEFINE q == Head(req[r].chained)
    <3>1. unlockq[q] \in 0..UnlockCap /\ unlockq[q] < UnlockCap /\ UnlockCap \in Nat
      BY <1>6, <2>1, ChainingAssumption DEF UnlockNext, Unlock
    <3>2. unlockq[q] + 1 \in 0..UnlockCap
      BY <3>1
    <3>3. unlockq' = [unlockq EXCEPT ![q] = unlockq[q] + 1]
      BY <1>6 DEF UnlockNext, Unlock
    <3> QED
      BY <2>1, <3>2, <3>3
  <2> QED
    BY <1>6, <1>s, <2>2, <2>3, <2>4 DEF UnlockNext, storageVars
<1> QED
  BY <1>1, <1>2, <1>3, <1>4, <1>5, <1>6 DEF SubmitTx

(* The steps of the callers of lock_state and of the workers keep them. *)
LEMMA ShapeLock ==
    ASSUME Shape, LockState \/ \E q \in Chained : Worker(q)
    PROVE  Shape'
<1>s. Stamped'
  <2>1. UNCHANGED req /\ Stamped
    BY DEF Shape, LockState, Worker
  <2> QED
    BY <2>1 DEF Stamped
<1> USE <1>s DEF Shape, storageVars
<1>1. CASE LockState
  <2>1. ASSUME NEW c \in Client, Hangup(c) PROVE Shape'
    BY <1>1, <2>1 DEF LockState, Hangup
  <2>2. ASSUME NEW c \in Client, NEW q \in Chained, Lock(c, q) PROVE Shape'
    BY <1>1, <2>2 DEF LockState, Lock
  <2> QED
    BY <1>1, <2>1, <2>2 DEF LockState
<1>2. ASSUME NEW q \in Chained, Worker(q) PROVE Shape'
  <2> USE <1>2 DEF Worker
  <2>1. CASE RecvLock(q)
    <3>1. Head(lockq[q]) \in Client /\ Tail(lockq[q]) \in Seq(Client)
      BY <2>1 DEF RecvLock
    <3>2. grants' \in Seq(Grant)
      BY <2>1 DEF RecvLock, Grant
    <3> QED
      BY <2>1, <3>1, <3>2 DEF RecvLock
  <2>2. ASSUME Respond(q) \/ LatestError(q) PROVE Shape'
    <3>1. grants' \in Seq(Grant)
      <4>1. [queue |-> q, base |-> Latest(q), delivered |-> TRUE] \in Grant
        BY DEF Grant, Latest, InQueueEver, Existing
      <4>2. grants' = grants \/ Deliver(q)
        BY <2>2 DEF Respond, LatestError
      <4>3. grants \in [1..Len(grants) -> Grant]
        OBVIOUS
      <4> HIDE DEF Shape
      <4>4. ASSUME Deliver(q) PROVE grants' \in [1..Len(grants) -> Grant]
        <5> DEFINE new == [queue |-> q, base |-> Latest(q), delivered |-> TRUE]
        <5>1. grants' = [grants EXCEPT ![state[q]] = new]
          BY <4>4 DEF Deliver
        <5> HIDE DEF new, Grant
        <5> QED
          BY <5>1, <4>1, <4>3 DEF new
      <4>5. Len(grants) \in Nat /\ grants \in Seq(Grant)
        BY DEF Shape
      <4>6. ASSUME Deliver(q) PROVE grants' \in Seq(Grant)
        <5> HIDE DEF Grant
        <5> QED
          BY <4>4, <4>5, <4>6
      <4> QED
        BY <4>2, <4>5, <4>6
    <3> QED
      BY <2>2, <3>1 DEF Respond, LatestError, Answered
  <2>3. CASE ReleaseByUnlock(q)
    BY <2>3, ChainingAssumption DEF ReleaseByUnlock, NoToken
  <2>4. CASE ReleaseByTimeout(q)
    BY <2>4 DEF ReleaseByTimeout, NoToken
  <2> QED
    BY <2>1, <2>2, <2>3, <2>4 DEF WorkerStep
<1> QED
  BY <1>1, <1>2

-----------------------------------------------------------------------------
(* Tokens. *)

(* What a step may do to the history of the grants: add one, or fill in    *)
(* one that nobody has got yet.                                            *)
GrantsKept ==
    /\ Len(grants) <= Len(grants')
    /\ \A k \in 1..Len(grants) :
         /\ grants'[k].queue = grants[k].queue
         /\ grants[k].delivered => grants'[k] = grants[k]

(* A worker keeps the tokens of its own queue and the history in order. *)
LEMMA WorkerGrants ==
    ASSUME Shape, TokensOwned, NEW q \in Chained, WorkerStep(q)
    PROVE  /\ GrantsKept
           /\ TokenOf(q)'
           /\ \A p \in Chained \ {q} : state'[p] = state[p] /\ wpc'[p] = wpc[p]
           /\ \A k \in 1..Len(grants) : k # state[q] => grants'[k] = grants[k]
<1>a. /\ Len(grants) \in Nat /\ grants \in Seq(Grant)
      /\ state \in [Chained -> Nat] /\ wpc \in [Chained -> {"recv", "latest", "held"}]
      /\ state[q] \in Nat /\ state[q] <= Len(grants)
  BY DEF Shape, TokensOwned, TokenOf
<1>b. TokenOf(q)
  BY DEF TokensOwned
<1>1. CASE RecvLock(q)
  <2>1. /\ grants' = Append(grants, [queue |-> q, base |-> {}, delivered |-> FALSE])
        /\ state' = [state EXCEPT ![q] = Len(grants) + 1]
        /\ wpc' = [wpc EXCEPT ![q] = "latest"]
    BY <1>1 DEF RecvLock
  <2>2. Len(grants') = Len(grants) + 1
    BY <2>1, <1>a
  <2>3. \A k \in 1..Len(grants) : grants'[k] = grants[k]
    BY <2>1, <1>a
  <2>4. grants'[Len(grants) + 1] = [queue |-> q, base |-> {}, delivered |-> FALSE]
    BY <2>1, <1>a
  <2>5. state'[q] = Len(grants) + 1 /\ wpc'[q] = "latest"
    BY <2>1, <1>a
  <2>6. GrantsKept
    BY <2>2, <2>3, <1>a DEF GrantsKept
  <2>7. TokenOf(q)'
    BY <2>2, <2>4, <2>5, <1>a DEF TokenOf, NoToken
  <2> QED
    BY <2>1, <2>2, <2>3, <2>5, <2>6, <2>7, <1>a
<1>2. CASE Respond(q) /\ Deliver(q) /\ wpc' = [wpc EXCEPT ![q] = "held"]
  <2> DEFINE new == [queue |-> q, base |-> Latest(q), delivered |-> TRUE]
             k == state[q]
  <2>1. k \in 1..Len(grants) /\ grants[k].queue = q /\ ~ grants[k].delivered
    BY <1>2, <1>a, <1>b DEF Respond, TokenOf, NoToken
  <2>2. grants' = [grants EXCEPT ![k] = new] /\ state' = state
    BY <1>2 DEF Respond, Deliver
  <2> HIDE DEF new
  <2>3. Len(grants') = Len(grants) /\ grants'[k] = new
    BY <2>1, <2>2, <1>a
  <2>4. \A j \in 1..Len(grants) : j # k => grants'[j] = grants[j]
    BY <2>1, <2>2, <1>a
  <2>5. grants'[k].queue = q /\ grants'[k].delivered
    BY <2>3 DEF new
  <2>6. GrantsKept
    BY <2>1, <2>3, <2>4, <2>5, <1>a DEF GrantsKept
  <2>7. wpc'[q] = "held"
    BY <1>2, <1>a
  <2>8. TokenOf(q)'
    BY <2>1, <2>2, <2>3, <2>5, <2>7, <1>a DEF TokenOf, NoToken
  <2> QED
    BY <1>2, <2>2, <2>3, <2>4, <2>6, <2>8, <1>a
<1>3. CASE UNCHANGED <<grants, state>> /\ wpc[q] = "latest" /\ wpc' = [wpc EXCEPT ![q] = "recv"]
  <2>1. TokenOf(q)'
    BY <1>3, <1>a, <1>b DEF TokenOf, NoToken
  <2> QED
    BY <1>3, <2>1, <1>a DEF GrantsKept
<1>4. CASE /\ UNCHANGED grants /\ state' = [state EXCEPT ![q] = NoToken]
           /\ wpc' = [wpc EXCEPT ![q] = "recv"]
  <2>1. TokenOf(q)'
    BY <1>4, <1>a DEF TokenOf, NoToken
  <2> QED
    BY <1>4, <2>1, <1>a DEF GrantsKept, NoToken
<1> QED
  BY <1>1, <1>2, <1>3, <1>4
  DEF WorkerStep, Respond, LatestError, ReleaseByUnlock, ReleaseByTimeout

(* No step forgets a grant or changes one that a client has got. *)
LEMMA GrantsGrow ==
    ASSUME Shape, TokensOwned, [Next]_vars
    PROVE  GrantsKept
<1>1. ASSUME UNCHANGED grants PROVE GrantsKept
  BY <1>1 DEF GrantsKept, Shape
<1>2. ASSUME NEW r \in Request, SubmitTx(r) PROVE UNCHANGED grants
  BY <1>2 DEF SubmitTx, ReceiveRequest, SkipTx, AcceptTx, DenyTx, StoreTxs, StoreError,
              UnlockNext, ReturnRefs, chainingVars
<1>3. LockState => UNCHANGED grants
  BY DEF LockState, Lock, Hangup
<1>4. UNCHANGED vars => UNCHANGED grants
  BY DEF vars, chainingVars
<1>5. ASSUME NEW q \in Chained, Worker(q) PROVE GrantsKept
  BY <1>5, WorkerGrants DEF Worker
<1> QED
  BY <1>1, <1>2, <1>3, <1>4, <1>5 DEF Next

(* The token in the map stays one made for its queue. *)
LEMMA TokensOwnedStep ==
    ASSUME Shape, TokensOwned, [Next]_vars
    PROVE  TokensOwned'
<1>1. ASSUME UNCHANGED <<grants, state, wpc>>
      PROVE  TokensOwned'
  BY <1>1 DEF TokensOwned, TokenOf
<1>2. ASSUME NEW r \in Request, SubmitTx(r) PROVE UNCHANGED <<grants, state, wpc>>
  BY <1>2 DEF SubmitTx, ReceiveRequest, SkipTx, AcceptTx, DenyTx, StoreTxs, StoreError,
              UnlockNext, ReturnRefs, chainingVars
<1>3. LockState => UNCHANGED <<grants, state, wpc>>
  BY DEF LockState, Lock, Hangup
<1>4. UNCHANGED vars => UNCHANGED <<grants, state, wpc>>
  BY DEF vars, chainingVars
<1>5. ASSUME NEW q \in Chained, Worker(q)
      PROVE  TokensOwned'
  <2>1. WorkerStep(q)
    BY <1>5 DEF Worker
  <2>2. /\ GrantsKept
        /\ TokenOf(q)'
        /\ \A p \in Chained \ {q} : state'[p] = state[p] /\ wpc'[p] = wpc[p]
        /\ \A k \in 1..Len(grants) : k # state[q] => grants'[k] = grants[k]
    BY <2>1, WorkerGrants
  <2>3. Len(grants) \in Nat /\ Len(grants') \in Nat /\ state \in [Chained -> Nat]
    BY <1>5, ShapeLock DEF Shape
  <2>4. ASSUME NEW p \in Chained, p # q PROVE TokenOf(p)'
    <3>1. TokenOf(p) /\ TokenOf(q)
      BY DEF TokensOwned
    <3>2. state'[p] = state[p] /\ wpc'[p] = wpc[p]
      BY <2>2, <2>4
    <3>3. CASE state[p] = NoToken
      BY <3>1, <3>2, <3>3, <2>2, <2>3 DEF TokenOf, NoToken, GrantsKept
    <3>4. CASE state[p] # NoToken
      <4>1. state[p] \in 1..Len(grants) /\ grants[state[p]].queue = p
        BY <3>1, <3>4, <2>3 DEF TokenOf, NoToken
      <4>2. state[p] # state[q]
        BY <4>1, <3>1, <2>4, <2>3 DEF TokenOf, NoToken
      <4>3. grants'[state[p]] = grants[state[p]]
        BY <4>1, <4>2, <2>2
      <4>4. state[p] <= Len(grants')
        BY <4>1, <2>2, <2>3 DEF GrantsKept
      <4> QED
        BY <3>1, <3>2, <4>3, <4>4 DEF TokenOf
    <3> QED
      BY <3>3, <3>4
  <2> QED
    BY <2>2, <2>4 DEF TokensOwned
<1> QED
  BY <1>1, <1>2, <1>3, <1>4, <1>5 DEF Next

-----------------------------------------------------------------------------
(* The tokens of the calls and of the rows. *)

(* Clients send only tokens they have got, and an accepted transaction for *)
(* a chained queue came with a token of that queue.                        *)
CallOK(r) ==
    /\ \A q \in Chained :
         /\ req[r].tokens[q] <= Len(grants)
         /\ req[r].tokens[q] # NoToken => grants[req[r].tokens[q]].delivered
    /\ \A j \in 1..Len(req[r].accepted) :
         LET q == QueueOf[req[r].accepted[j]] IN
         NeedsToken(req[r].accepted[j]) =>
            req[r].tokens[q] # NoToken /\ grants[req[r].tokens[q]].queue = q
CallsOK == \A r \in Request : CallOK(r)

(* A row with a token came with a token of its queue that a client got. *)
RowOK(t) ==
    /\ by[t] <= Len(grants)
    /\ by[t] # NoToken =>
         t \in Existing /\ grants[by[t]].delivered /\ grants[by[t]].queue = QueueOf[t]
RowsOK == \A t \in Tx : RowOK(t)

(* A call that does not move stays in order. *)
LEMMA CallKept ==
    ASSUME Shape, Shape', GrantsKept, NEW r \in Request, CallOK(r), req'[r] = req[r]
    PROVE  CallOK(r)'
<1>1. /\ Len(grants) \in Nat /\ Len(grants') \in Nat
      /\ req[r].tokens \in [Chained -> Nat] /\ req[r].accepted \in Seq(Tx)
  BY DEF Shape, Call
<1>2. ASSUME NEW q \in Chained
      PROVE  /\ req[r].tokens[q] <= Len(grants')
             /\ req[r].tokens[q] # NoToken =>
                  /\ grants'[req[r].tokens[q]].delivered
                  /\ grants'[req[r].tokens[q]].queue = grants[req[r].tokens[q]].queue
  <2>1. req[r].tokens[q] \in Nat /\ req[r].tokens[q] <= Len(grants)
    BY <1>1 DEF CallOK
  <2>2. CASE req[r].tokens[q] = NoToken
    BY <2>1, <2>2, <1>1 DEF GrantsKept
  <2>3. CASE req[r].tokens[q] # NoToken
    <3>1. req[r].tokens[q] \in 1..Len(grants) /\ grants[req[r].tokens[q]].delivered
      BY <2>1, <2>3 DEF NoToken, CallOK
    <3>2. grants'[req[r].tokens[q]] = grants[req[r].tokens[q]]
      BY <3>1 DEF GrantsKept
    <3> QED
      BY <2>1, <3>1, <3>2, <1>1 DEF GrantsKept
  <2> QED
    BY <2>2, <2>3
<1>3. ASSUME NEW j \in 1..Len(req[r].accepted), NeedsToken(req[r].accepted[j])
      PROVE  LET q == QueueOf[req[r].accepted[j]] IN
             req[r].tokens[q] # NoToken /\ grants'[req[r].tokens[q]].queue = q
  <2>1. QueueOf[req[r].accepted[j]] \in Chained
    BY <1>3 DEF NeedsToken, IsChainedQueue
  <2> QED
    BY <1>2, <1>3, <2>1 DEF CallOK
<1> QED
  BY <1>2, <1>3 DEF CallOK, NeedsToken, IsChainedQueue

(* So does a row whose token stays. *)
LEMMA RowKept ==
    ASSUME Shape, Shape', GrantsKept, NEW t \in Tx, RowOK(t), by'[t] = by[t],
           t \in Existing => t \in Existing'
    PROVE  RowOK(t)'
<1>1. Len(grants) \in Nat /\ Len(grants') \in Nat /\ by[t] \in Nat
  BY DEF Shape
<1>2. CASE by[t] = NoToken
  BY <1>1, <1>2 DEF RowOK, GrantsKept, NoToken
<1>3. CASE by[t] # NoToken
  <2>1. by[t] \in 1..Len(grants) /\ grants[by[t]].delivered
    BY <1>1, <1>3 DEF RowOK, NoToken
  <2>2. grants'[by[t]] = grants[by[t]]
    BY <2>1 DEF GrantsKept
  <2> QED
    BY <1>1, <1>3, <2>1, <2>2 DEF RowOK, GrantsKept
<1> QED
  BY <1>2, <1>3

(* A call that moves stays in order: a token is accepted only when it is   *)
(* the one in the map, hence one of the queue.                             *)
LEMMA CallMoves ==
    ASSUME Shape, TokensOwned, NEW r \in Request, CallOK(r), SubmitTx(r)
    PROVE  CallOK(r)' /\ \A p \in Request \ {r} : req'[p] = req[p]
<1>a. /\ req \in [Request -> Call] /\ req[r] \in Call
      /\ req[r].tokens \in [Chained -> Nat] /\ req[r].accepted \in Seq(Tx)
      /\ req[r].todo \in Seq(Tx)
      /\ Len(grants) \in Nat /\ grants \in Seq(Grant)
  BY DEF Shape, Call
<1>b. UNCHANGED <<grants, state>>
  BY DEF SubmitTx, ReceiveRequest, SkipTx, AcceptTx, DenyTx, StoreTxs, StoreError,
         UnlockNext, ReturnRefs, chainingVars
<1>c. \A p \in Request \ {r} : req'[p] = req[p]
  BY <1>a, OtherCalls
<1>d. ASSUME NEW new, req' = [req EXCEPT ![r] = new],
             new.tokens = req[r].tokens \/ new.tokens = NoTokens
                                        \/ new.tokens \in [Chained -> KnownTokens],
             new.accepted = <<>>
      PROVE  CallOK(r)'
  <2>1. req'[r] = new
    BY <1>d, <1>a
  <2>2. ASSUME NEW q \in Chained
        PROVE  /\ new.tokens[q] <= Len(grants)
               /\ new.tokens[q] # NoToken => grants[new.tokens[q]].delivered
    <3>1. CASE new.tokens = req[r].tokens
      BY <3>1 DEF CallOK
    <3>2. CASE new.tokens = NoTokens
      BY <3>2, <1>a DEF NoTokens, NoToken
    <3>3. CASE new.tokens \in [Chained -> KnownTokens]
      <4>1. new.tokens[q] \in KnownTokens
        BY <3>3
      <4> QED
        BY <4>1, <1>a DEF KnownTokens, NoToken
    <3> QED
      BY <1>d, <3>1, <3>2, <3>3
  <2> QED
    BY <2>1, <2>2, <1>b, <1>d DEF CallOK
<1>e. ASSUME req'[r].tokens = req[r].tokens, req'[r].accepted = req[r].accepted
      PROVE  CallOK(r)'
  BY <1>b, <1>e DEF CallOK, NeedsToken, IsChainedQueue
<1>1. CASE ReceiveRequest(r)
  <2>1. PICK n \in 1..MaxBatch : \E ts \in [1..n -> Tx], ks \in [Chained -> KnownTokens] :
          req' = [req EXCEPT ![r] = [NoRequest EXCEPT !.pc = "check", !.todo = ts, !.tokens = ks]]
    BY <1>1 DEF ReceiveRequest
  <2>2. PICK ts \in [1..n -> Tx], ks \in [Chained -> KnownTokens] :
          req' = [req EXCEPT ![r] = [NoRequest EXCEPT !.pc = "check", !.todo = ts, !.tokens = ks]]
    BY <2>1
  <2> DEFINE new == [NoRequest EXCEPT !.pc = "check", !.todo = ts, !.tokens = ks]
  <2>3. new.tokens = ks /\ new.accepted = <<>>
    BY DEF NoRequest
  <2>4. req' = [req EXCEPT ![r] = new]
    BY <2>2
  <2> HIDE DEF new
  <2>5. CallOK(r)'
    BY <2>3, <2>4, <1>d
  <2> QED
    BY <2>5, <1>c
<1>2. CASE SkipTx(r) \/ UnlockNext(r)
  <2>1. req'[r].tokens = req[r].tokens /\ req'[r].accepted = req[r].accepted
    BY <1>2, <1>a DEF SkipTx, UnlockNext, Call
  <2> QED
    BY <2>1, <1>c, <1>e
<1>3. CASE DenyTx(r) \/ StoreError(r) \/ ReturnRefs(r)
  <2>1. req' = [req EXCEPT ![r] = NoRequest]
    BY <1>3 DEF DenyTx, StoreError, ReturnRefs, Return
  <2>2. NoRequest.tokens = NoTokens /\ NoRequest.accepted = <<>>
    BY DEF NoRequest
  <2>3. CallOK(r)'
    BY <2>1, <2>2, <1>d
  <2> QED
    BY <2>3, <1>c
<1>4. CASE StoreTxs(r)
  <2> DEFINE new == [NoRequest EXCEPT !.pc = "unlock", !.chained = req[r].chained]
  <2>1. req' = [req EXCEPT ![r] = new]
    BY <1>4 DEF StoreTxs
  <2>2. new.tokens = NoTokens /\ new.accepted = <<>>
    BY DEF NoRequest
  <2> HIDE DEF new
  <2>3. CallOK(r)'
    BY <2>1, <2>2, <1>d
  <2> QED
    BY <2>3, <1>c
<1>5. CASE AcceptTx(r)
  <2> DEFINE t == Current(r)
             n == Len(req[r].accepted)
             acc == req'[r].accepted
  <2>1. t \in Tx /\ n \in Nat
    BY <1>5, <1>a DEF AcceptTx, InLoop, Current
  <2>2. req'[r].tokens = req[r].tokens /\ acc = Append(req[r].accepted, t)
    BY <1>5, <1>a, AcceptCall
  <2>3. Len(acc) = n + 1 /\ acc[n + 1] = t /\ \A j \in 1..n : acc[j] = req[r].accepted[j]
    BY <2>1, <2>2, <1>a
  <2>4. ASSUME NeedsToken(t)
        PROVE  /\ req[r].tokens[QueueOf[t]] # NoToken
               /\ grants[req[r].tokens[QueueOf[t]]].queue = QueueOf[t]
    <3>1. QueueOf[t] \in Chained
      BY <2>4 DEF NeedsToken, IsChainedQueue
    <3>2. state[QueueOf[t]] # NoToken /\ state[QueueOf[t]] = req[r].tokens[QueueOf[t]]
      BY <1>5, <2>4 DEF AcceptTx, TokenValid, IsValidToken
    <3> QED
      BY <3>1, <3>2 DEF TokensOwned, TokenOf
  <2> HIDE DEF t, n, acc
  <2>5. ASSUME NEW j \in 1..Len(acc), NeedsToken(acc[j])
        PROVE  /\ req[r].tokens[QueueOf[acc[j]]] # NoToken
               /\ grants[req[r].tokens[QueueOf[acc[j]]]].queue = QueueOf[acc[j]]
    <3>1. CASE j = n + 1
      BY <2>3, <2>4, <2>5, <3>1
    <3>2. CASE j \in 1..n
      BY <2>3, <2>5, <3>2 DEF CallOK, n
    <3> QED
      BY <2>1, <2>3, <3>1, <3>2
  <2>6. \A q \in Chained :
          /\ req[r].tokens[q] <= Len(grants)
          /\ req[r].tokens[q] # NoToken => grants[req[r].tokens[q]].delivered
    BY DEF CallOK
  <2>7. CallOK(r)'
    BY <2>2, <2>5, <2>6, <1>b DEF CallOK, acc, NeedsToken, IsChainedQueue
  <2> QED
    BY <2>7, <1>c
<1> QED
  BY <1>1, <1>2, <1>3, <1>4, <1>5 DEF SubmitTx

(* create stores the rows of a request, each with its stamp. *)
LEMMA CreateRows ==
    ASSUME Shape, NEW ts \in Seq(Tx), NEW at, Create(ts, at)
    PROVE  LET ids == {ts[i] : i \in 1..Len(ts)} IN
           /\ ids \in SUBSET Tx /\ ids \cap Existing = {}
           /\ Existing' = Existing \cup ids
           /\ \A t \in Tx \ ids : table'[t] = table[t]
           /\ \A i \in 1..Len(ts) : table'[ts[i]].created = at[i]
           /\ \A i, j \in 1..Len(ts) : i # j => ts[i] # ts[j]
<1> DEFINE ids == {ts[i] : i \in 1..Len(ts)}
           n == Len(ts)
<1>1. /\ n \in Nat /\ ts \in [1..n -> Tx] /\ DOMAIN ts = 1..n
      /\ ids \in SUBSET Tx /\ table \in [Tx -> Row]
  BY DEF Shape
<1>2. /\ \A i, j \in 1..n : i # j => ts[i] # ts[j]
      /\ ids \cap Existing = {}
      /\ table' = [t \in Tx |->
            IF t \in ids
            THEN [status |-> "pending", slot |-> NoSlot, created |-> at[Position(ts, t)]]
            ELSE table[t]]
  BY <1>1 DEF Create
<1>3. \A t \in ids : /\ table'[t].status = "pending"
                     /\ table'[t].created = at[Position(ts, t)]
  BY <1>1, <1>2
<1>4. \A t \in Tx \ ids : table'[t] = table[t]
  BY <1>2
<1>5. Existing' = Existing \cup ids
  BY <1>1, <1>3, <1>4 DEF Existing
<1>6. ASSUME NEW i \in 1..n PROVE Position(ts, ts[i]) = i
  <2>1. Position(ts, ts[i]) \in 1..n /\ ts[Position(ts, ts[i])] = ts[i]
    BY <1>1 DEF Position
  <2> QED
    BY <2>1, <1>2
<1>7. \A i \in 1..n : table'[ts[i]].created = at[i]
  BY <1>3, <1>6
<1> QED
  BY <1>1, <1>2, <1>4, <1>5, <1>7

(* Only create writes rows, and only a call's StoreTxs runs it. *)
LEMMA RowsWritten ==
    ASSUME [Next]_vars
    PROVE  \/ UNCHANGED <<table, by>>
           \/ \E r \in Request : StoreTxs(r)
<1>1. ASSUME NEW r \in Request, SubmitTx(r), ~ StoreTxs(r) PROVE UNCHANGED <<table, by>>
  BY <1>1 DEF SubmitTx, ReceiveRequest, SkipTx, AcceptTx, DenyTx, StoreError,
              UnlockNext, ReturnRefs, storageVars
<1>2. LockState => UNCHANGED <<table, by>>
  BY DEF LockState, storageVars
<1>3. ASSUME NEW q \in Chained, Worker(q) PROVE UNCHANGED <<table, by>>
  BY <1>3 DEF Worker, storageVars
<1> QED
  BY <1>1, <1>2, <1>3 DEF Next, vars, storageVars

(* Every row keeps its token, and gets one only when it is stored. *)
LEMMA RowsStep ==
    ASSUME Shape, Shape', CallsOK, RowsOK, GrantsKept, [Next]_vars
    PROVE  RowsOK'
<1>1. CASE UNCHANGED <<table, by>>
  BY <1>1, RowKept DEF RowsOK, Existing
<1>2. ASSUME NEW r \in Request, StoreTxs(r) PROVE RowsOK'
  <2> DEFINE acc == req[r].accepted
             ids == {acc[i] : i \in 1..Len(acc)}
  <2>1. acc \in Seq(Tx) /\ Create(acc, req[r].stamps) /\ UNCHANGED grants
    BY <1>2 DEF StoreTxs, Shape, Call, chainingVars
  <2>2. Existing' = Existing \cup ids
    BY <2>1, CreateRows
  <2>3. DOMAIN acc = 1..Len(acc) /\ acc \in Seq(Tx)
    BY <2>1
  <2>4. ASSUME NEW t \in Tx PROVE RowOK(t)'
    <3>1. CASE by'[t] = by[t]
      BY <3>1, <2>2, RowKept DEF RowsOK
    <3>2. CASE by'[t] # by[t]
      <4>1. NeedsToken(t) /\ t \in ids /\ by'[t] = req[r].tokens[QueueOf[t]]
        BY <1>2, <3>2, <2>3 DEF StoreTxs
      <4>2. QueueOf[t] \in Chained
        BY <4>1 DEF NeedsToken, IsChainedQueue
      <4>3. PICK j \in 1..Len(acc) : acc[j] = t
        BY <4>1
      <4>4. CallOK(r)
        BY DEF CallsOK
      <4> HIDE DEF acc, ids
      <4>5. by'[t] <= Len(grants) /\ (by'[t] # NoToken => grants[by'[t]].delivered)
        BY <4>1, <4>2, <4>4 DEF CallOK
      <4>6. grants[by'[t]].queue = QueueOf[t]
        BY <4>1, <4>3, <4>4 DEF CallOK, acc
      <4> QED
        BY <4>1, <4>5, <4>6, <2>1, <2>2 DEF RowOK
    <3> QED
      BY <3>1, <3>2
  <2> QED
    BY <2>4 DEF RowsOK
<1> QED
  BY <1>1, <1>2, RowsWritten

(* No call loses a token it was sent. *)
LEMMA CallsStep ==
    ASSUME Shape, Shape', TokensOwned, CallsOK, GrantsKept, [Next]_vars
    PROVE  CallsOK'
<1>1. CASE UNCHANGED req
  BY <1>1, CallKept DEF CallsOK
<1>2. ASSUME NEW r \in Request, SubmitTx(r) PROVE CallsOK'
  <2>1. CallOK(r)' /\ \A p \in Request \ {r} : req'[p] = req[p]
    BY <1>2, CallMoves DEF CallsOK
  <2>2. ASSUME NEW p \in Request, p # r PROVE CallOK(p)'
    BY <2>1, <2>2, CallKept DEF CallsOK
  <2> QED
    BY <2>1, <2>2 DEF CallsOK
<1>3. LockState \/ (\E q \in Chained : Worker(q)) \/ UNCHANGED vars => UNCHANGED req
  BY DEF LockState, Worker, vars
<1> QED
  BY <1>1, <1>2, <1>3 DEF Next

-----------------------------------------------------------------------------
(* The invariant of the tokens, and the first two theorems. *)

TokenInv == Shape /\ TokensOwned /\ CallsOK /\ RowsOK

(* The invariant holds at the start. *)
LEMMA TokenInvInit == Init => TokenInv
<1>1. ASSUME Init PROVE CallsOK
  BY <1>1 DEF Init, ChainingInit, CallsOK, CallOK, NoRequest, NoTokens, NoToken
<1>2. ASSUME Init PROVE RowsOK
  BY <1>2 DEF Init, ChainingInit, RowsOK, RowOK, NoToken
<1> QED
  BY <1>1, <1>2, ShapeInit DEF TokenInv

(* Every step keeps it. *)
LEMMA TokenInvStep == TokenInv /\ [Next]_vars => TokenInv'
<1> SUFFICES ASSUME TokenInv, [Next]_vars PROVE TokenInv'
  OBVIOUS
<1>1. Shape'
  <2>1. CASE UNCHANGED vars
    BY <2>1 DEF TokenInv, Shape, Stamped, vars, storageVars, chainingVars
  <2> QED
    BY <2>1, ShapeSubmit, ShapeLock DEF TokenInv, Next
<1>2. GrantsKept
  BY GrantsGrow DEF TokenInv
<1>3. TokensOwned'
  BY TokensOwnedStep DEF TokenInv
<1> QED
  BY <1>1, <1>2, <1>3, RowsStep, CallsStep DEF TokenInv

(* So it always holds. *)
LEMMA TokenInvHolds == Spec => []TokenInv
BY TokenInvInit, TokenInvStep, PTL DEF Spec

(* Type correctness: every variable keeps its type, the channels keep      *)
(* within their capacity, and no call, row or queue ever mentions a token  *)
(* that no worker has made.                                                *)
THEOREM ServerTypeCorrect == Spec => []TypeOK
<1>1. ASSUME TokenInv PROVE TypeOK
  <2>1. StorageTypeOK
    BY <1>1 DEF TokenInv, Shape, StorageTypeOK
  <2>2. Len(grants) \in Nat /\ state \in [Chained -> Nat] /\ by \in [Tx -> Nat]
    BY <1>1 DEF TokenInv, Shape
  <2>3. \A q \in Chained : state[q] \in 0..Len(grants)
    BY <1>1, <2>2 DEF TokenInv, TokensOwned, TokenOf
  <2>4. ChainingTypeOK
    BY <1>1, <2>2, <2>3 DEF TokenInv, Shape, ChainingTypeOK
  <2>5. \A t \in Tx : by[t] \in 0..Len(grants)
    BY <1>1, <2>2 DEF TokenInv, RowsOK, RowOK
  <2>6. ASSUME NEW r \in Request
        PROVE  /\ req[r].pc \in {"idle", "check", "unlock"}
               /\ req[r].todo \in Seq(Tx) /\ req[r].accepted \in Seq(Tx)
               /\ req[r].stamps \in Seq(Nat) /\ req[r].chained \in Seq(Chained)
               /\ req[r].tokens \in [Chained -> 0..Len(grants)]
    <3>1. req[r] \in Call /\ CallOK(r)
      BY <1>1 DEF TokenInv, Shape, CallsOK
    <3>2. req[r].tokens \in [Chained -> Nat]
      BY <3>1 DEF Call
    <3>3. \A q \in Chained : req[r].tokens[q] \in 0..Len(grants)
      BY <3>1, <3>2, <2>2 DEF CallOK
    <3> QED
      BY <3>1, <3>2, <3>3 DEF Call
  <2> QED
    BY <2>1, <2>2, <2>4, <2>5, <2>6 DEF TypeOK
<1> QED
  BY <1>1, TokenInvHolds, PTL

(* A token that a client knows opens the queue only while the worker holds *)
(* the lock for that client: is_valid_token accepts no token left behind   *)
(* by the error paths of the worker, and none of another queue.            *)
THEOREM TokensExpire == Spec => []TokenOnlyWhileHeld
<1>1. ASSUME TokenInv PROVE TokenOnlyWhileHeld
  BY <1>1 DEF TokenInv, TokensOwned, TokenOf, TokenOnlyWhileHeld, KnownTokens, NoToken
<1> QED
  BY <1>1, TokenInvHolds, PTL

-----------------------------------------------------------------------------
(* Chains. *)

(* The i-th unlock message that call r has still to send is for queue q. *)
Owes(r, i, q) ==
    req[r].pc = "unlock" /\ i \in 1..Len(req[r].chained) /\ req[r].chained[i] = q

(* Some row of the queue came with token k. *)
Used(q, k) == \E t \in InQueueEver(q) : by[t] = k

(* At most one unlock message is sent or to be sent for the queue, and     *)
(* then the lock is held with a token that has been used.                  *)
OneOwed(q) ==
    /\ unlockq[q] <= 1
    /\ unlockq[q] > 0 => wpc[q] = "held" /\ Used(q, state[q])
    /\ \A r \in Request : \A i \in Nat : Owes(r, i, q) =>
         unlockq[q] = 0 /\ wpc[q] = "held" /\ Used(q, state[q])
    /\ \A r, s \in Request : \A i, j \in Nat :
         Owes(r, i, q) /\ Owes(s, j, q) => r = s /\ i = j

(* The holder of an unused lock was told what is still the latest row. *)
BaseOK(q) == wpc[q] = "held" /\ ~ Used(q, state[q]) => grants[state[q]].base = Latest(q)

(* Every token that a client got is used, except the one of the lock held. *)
SpentOK(q) ==
    \A k \in 1..Len(grants) : grants[k].delivered /\ grants[k].queue = q =>
        Used(q, k) \/ (wpc[q] = "held" /\ state[q] = k)

LinearOK(q) == \A t \in InQueueEver(q) : grants[by[t]].base = Previous(t)

ChainOK(q) == Disciplined(q) => OneOwed(q) /\ BaseOK(q) /\ SpentOK(q) /\ LinearOK(q)

(* Call r has still to store its j-th transaction, with a token of q. *)
ToStore(r, j, q) ==
    /\ j \in 1..Len(req[r].accepted)
    /\ NeedsToken(req[r].accepted[j]) /\ QueueOf[req[r].accepted[j]] = q

(* A transaction whose token is unused was stamped after every row of the  *)
(* queue, although the stamp is older than the INSERT.                     *)
StampsOK(q) ==
    \A r \in Request, j \in Nat : ToStore(r, j, q) /\ ~ Used(q, req[r].tokens[q]) =>
        \A t \in InQueueEver(q) : table[t].created < req[r].stamps[j]

(* Each entry of chained stands for an accepted transaction of its own. *)
Matches(r, f) ==
    /\ \A i, j \in 1..Len(req[r].chained) : f[i] = f[j] => i = j
    /\ \A i \in 1..Len(req[r].chained) : req[r].chained[i] = QueueOf[req[r].accepted[f[i]]]
Matched(r) ==
    req[r].pc = "check" =>
       \E f \in [1..Len(req[r].chained) -> 1..Len(req[r].accepted)] : Matches(r, f)

ChainInv ==
    /\ TokenInv
    /\ \A r \in Request : Matched(r)
    /\ \A q \in Chained : ChainOK(q) /\ (Disciplined(q) => StampsOK(q))

-----------------------------------------------------------------------------
(* What depends on the rows only. *)
LEMMA SameRows ==
    ASSUME UNCHANGED <<table, by>>
    PROVE  /\ Existing' = Existing
           /\ \A q : InQueueEver(q)' = InQueueEver(q)
           /\ \A q : Latest(q)' = Latest(q)
           /\ \A q, k : Used(q, k)' <=> Used(q, k)
           /\ \A t \in Tx : Previous(t)' = Previous(t)
<1>1. Existing' = Existing
  BY DEF Existing
<1>2. \A q : InQueueEver(q)' = InQueueEver(q)
  BY <1>1 DEF InQueueEver
<1>3. \A q : Latest(q)' = Latest(q)
  BY <1>2 DEF Latest
<1>4. \A q, k : Used(q, k)' <=> Used(q, k)
  BY <1>2 DEF Used
<1>5. \A t \in Tx : Previous(t)' = Previous(t)
  BY <1>2 DEF Previous
<1> QED
  BY <1>1, <1>2, <1>3, <1>4, <1>5

(* A disciplined queue was disciplined before a step that writes no row,   *)
(* and its chain stays.                                                    *)
LEMMA LinearKept ==
    ASSUME TokenInv, UNCHANGED <<table, by>>, expired \subseteq expired', GrantsKept,
           NEW q \in Chained, ChainOK(q), Disciplined(q)'
    PROVE  Disciplined(q) /\ LinearOK(q)'
<1>1. Disciplined(q)
  BY SameRows DEF Disciplined
<1>2. ASSUME NEW t \in InQueueEver(q) PROVE grants'[by[t]] = grants[by[t]]
  <2>1. t \in Tx /\ by[t] # NoToken
    BY <1>1 DEF Disciplined, InQueueEver, Existing
  <2>2. RowOK(t) /\ by[t] \in Nat /\ Len(grants) \in Nat
    BY <2>1 DEF TokenInv, RowsOK, Shape
  <2>3. by[t] \in 1..Len(grants) /\ grants[by[t]].delivered
    BY <2>1, <2>2 DEF RowOK, NoToken
  <2> QED
    BY <2>3 DEF GrantsKept
<1>3. \A t \in InQueueEver(q) : t \in Tx /\ grants[by[t]].base = Previous(t)
  BY <1>1 DEF ChainOK, LinearOK, InQueueEver, Existing
<1> QED
  BY <1>1, <1>2, <1>3, SameRows DEF LinearOK

(* A step that does not concern the queue keeps its chain. *)
LEMMA ChainKept ==
    ASSUME TokenInv, UNCHANGED <<table, by>>, expired \subseteq expired', GrantsKept,
           NEW q \in Chained, ChainOK(q),
           wpc'[q] = wpc[q], state'[q] = state[q], unlockq'[q] = unlockq[q],
           \A k \in 1..Len(grants') : grants'[k].delivered /\ grants'[k].queue = q =>
              k \in 1..Len(grants) /\ grants[k] = grants'[k],
           \A r \in Request : \A i \in Nat : Owes(r, i, q)' => Owes(r, i, q)
    PROVE  ChainOK(q)'
<1> SUFFICES ASSUME Disciplined(q)'
             PROVE  OneOwed(q)' /\ BaseOK(q)' /\ SpentOK(q)' /\ LinearOK(q)'
  BY DEF ChainOK
<1>1. Disciplined(q) /\ LinearOK(q)'
  BY LinearKept
<1>2. OneOwed(q) /\ BaseOK(q) /\ SpentOK(q)
  BY <1>1 DEF ChainOK
<1>3. \A k : Used(q, k)' <=> Used(q, k)
  BY SameRows
<1>4. OneOwed(q)'
  BY <1>2, <1>3 DEF OneOwed
<1>5. BaseOK(q)'
  <2> SUFFICES ASSUME wpc[q] = "held", ~ Used(q, state[q])
               PROVE  grants'[state[q]].base = Latest(q)
    BY <1>3, SameRows DEF BaseOK
  <2>1. grants[state[q]].base = Latest(q)
    BY <1>2 DEF BaseOK
  <2>2. TokenOf(q) /\ state[q] \in Nat /\ Len(grants) \in Nat
    BY DEF TokenInv, TokensOwned, Shape
  <2>3. state[q] \in 1..Len(grants) /\ grants[state[q]].delivered
    BY <2>2 DEF TokenOf, NoToken
  <2> QED
    BY <2>1, <2>3 DEF GrantsKept
<1>6. SpentOK(q)'
  BY <1>2, <1>3 DEF SpentOK
<1> QED
  BY <1>1, <1>4, <1>5, <1>6

(* The only grant that a worker's step delivers is that of its own token. *)
LEMMA WorkerDelivers ==
    ASSUME Shape, TokensOwned, NEW q \in Chained, WorkerStep(q)
    PROVE  \A k \in 1..Len(grants') :
              grants'[k].delivered /\ (k # state[q] \/ ~ Deliver(q)) =>
                 k \in 1..Len(grants) /\ grants[k] = grants'[k]
<1>a. Len(grants) \in Nat /\ grants \in Seq(Grant) /\ state[q] \in Nat
  BY DEF Shape
<1>1. CASE RecvLock(q)
  <2>1. grants' = Append(grants, [queue |-> q, base |-> {}, delivered |-> FALSE])
    BY <1>1 DEF RecvLock
  <2>2. Len(grants') = Len(grants) + 1
    BY <2>1, <1>a
  <2>3. \A k \in 1..Len(grants) : grants'[k] = grants[k]
    BY <2>1, <1>a
  <2>4. ~ grants'[Len(grants) + 1].delivered
    BY <2>1, <1>a
  <2> QED
    BY <2>2, <2>3, <2>4, <1>a
<1>2. CASE Deliver(q)
  <2> DEFINE new == [queue |-> q, base |-> Latest(q), delivered |-> TRUE]
  <2>1. grants' = [grants EXCEPT ![state[q]] = new]
    BY <1>2 DEF Deliver
  <2> HIDE DEF new
  <2>2. Len(grants') = Len(grants)
    BY <2>1, <1>a
  <2>3. \A k \in 1..Len(grants) : k # state[q] => grants'[k] = grants[k]
    BY <2>1, <1>a
  <2> QED
    BY <1>2, <2>2, <2>3
<1>3. CASE UNCHANGED grants
  BY <1>3
<1> QED
  BY <1>1, <1>2, <1>3
  DEF WorkerStep, Respond, LatestError, ReleaseByUnlock, ReleaseByTimeout

(* The worker of another queue leaves this one alone. *)
LEMMA ChainOtherWorker ==
    ASSUME TokenInv, NEW p \in Chained, Worker(p), NEW q \in Chained, q # p, ChainOK(q)
    PROVE  ChainOK(q)'
<1>1. WorkerStep(p) /\ UNCHANGED <<table, by, req>> /\ Shape /\ TokensOwned
  BY DEF Worker, storageVars, TokenInv
<1>2. GrantsKept /\ state'[q] = state[q] /\ wpc'[q] = wpc[q]
  BY <1>1, WorkerGrants
<1>3. unlockq'[q] = unlockq[q] /\ expired \subseteq expired'
  BY <1>1 DEF WorkerStep, RecvLock, Respond, LatestError, ReleaseByUnlock,
              ReleaseByTimeout, Shape
<1>4. ASSUME NEW k \in 1..Len(grants'), grants'[k].delivered, grants'[k].queue = q
      PROVE  k \in 1..Len(grants) /\ grants[k] = grants'[k]
  <2>1. CASE k # state[p] \/ ~ Deliver(p)
    BY <1>1, <1>4, <2>1, WorkerDelivers
  <2>2. CASE k = state[p] /\ Deliver(p)
    <3>1. grants \in Seq(Grant) /\ Len(grants) \in Nat
      BY <1>1 DEF Shape
    <3>2. Len(grants') = Len(grants)
      BY <2>2, <3>1 DEF Deliver
    <3>3. grants'[k].queue = p
      BY <2>2, <3>1, <3>2 DEF Deliver
    <3> QED
      BY <1>4, <3>3
  <2> QED
    BY <2>1, <2>2
<1>5. \A r \in Request : \A i \in Nat : Owes(r, i, q)' => Owes(r, i, q)
  BY <1>1 DEF Owes
<1> QED
  BY <1>1, <1>2, <1>3, <1>4, <1>5, ChainKept

(* The worker of the queue keeps its chain: it takes the lock only when no *)
(* unlock is owed, answers with the latest row, and releases a lock that   *)
(* has been used.                                                          *)
LEMMA ChainWorker ==
    ASSUME TokenInv, NEW q \in Chained, Worker(q), ChainOK(q)
    PROVE  ChainOK(q)'
<1>a. /\ WorkerStep(q) /\ UNCHANGED <<table, by, req>> /\ Shape /\ TokensOwned
      /\ TokenOf(q)
  BY DEF Worker, storageVars, TokenInv, TokensOwned
<1>b. GrantsKept
  BY <1>a, WorkerGrants
<1>c. expired \subseteq expired'
  BY <1>a DEF WorkerStep, RecvLock, Respond, LatestError, ReleaseByUnlock,
              ReleaseByTimeout, Shape
<1>d. \A r \in Request : \A i \in Nat : Owes(r, i, q)' <=> Owes(r, i, q)
  BY <1>a DEF Owes
<1>e. /\ state \in [Chained -> Nat] /\ wpc \in [Chained -> {"recv", "latest", "held"}]
      /\ unlockq \in [Chained -> 0..UnlockCap] /\ unlockq[q] \in Nat
      /\ state[q] \in Nat /\ Len(grants) \in Nat /\ grants \in Seq(Grant)
  BY <1>a, ChainingAssumption DEF Shape
<1> SUFFICES ASSUME Disciplined(q)'
             PROVE  OneOwed(q)' /\ BaseOK(q)' /\ SpentOK(q)' /\ LinearOK(q)'
  BY DEF ChainOK
<1>f. Disciplined(q) /\ LinearOK(q)'
  BY <1>a, <1>b, <1>c, LinearKept
<1>g. OneOwed(q) /\ BaseOK(q) /\ SpentOK(q)
  BY <1>f DEF ChainOK
<1>h. \A k : Used(q, k)' <=> Used(q, k)
  BY <1>a, SameRows
<1>i. ASSUME wpc[q] # "held", unlockq'[q] = unlockq[q] PROVE OneOwed(q)'
  <2>1. unlockq[q] = 0 /\ \A r \in Request : \A i \in Nat : ~ Owes(r, i, q)
    BY <1>e, <1>g, <1>i DEF OneOwed
  <2> QED
    BY <1>d, <1>i, <2>1 DEF OneOwed
<1>j. ASSUME wpc[q] # "held", wpc'[q] # "held", ~ Deliver(q) PROVE SpentOK(q)'
  BY <1>a, <1>g, <1>h, <1>j, WorkerDelivers DEF SpentOK
<1>1. CASE RecvLock(q) \/ LatestError(q) \/ (Respond(q) /\ UNCHANGED grants /\ ~ Listens(q))
  <2>1. /\ wpc[q] # "held" /\ wpc'[q] # "held" /\ unlockq'[q] = unlockq[q]
    BY <1>1, <1>e DEF RecvLock, LatestError, Respond
  <2>2. ~ Deliver(q)
    <3>1. CASE RecvLock(q)
      <4>1. Len(grants') = Len(grants) + 1
        BY <3>1, <1>e DEF RecvLock
      <4>2. Deliver(q) => Len(grants') = Len(grants)
        BY <1>e DEF Deliver
      <4> QED
        BY <4>1, <4>2, <1>e
    <3>2. CASE UNCHANGED grants /\ wpc[q] = "latest"
      <4>1. state[q] \in 1..Len(grants) /\ ~ grants[state[q]].delivered
        BY <3>2, <1>a, <1>e DEF TokenOf, NoToken
      <4>2. Deliver(q) => grants'[state[q]].delivered
        BY <4>1, <1>e DEF Deliver
      <4> QED
        BY <3>2, <4>1, <4>2
    <3> QED
      BY <1>1, <3>1, <3>2 DEF LatestError, Respond
  <2>3. BaseOK(q)'
    BY <2>1 DEF BaseOK
  <2> QED
    BY <2>1, <2>2, <2>3, <1>f, <1>i, <1>j
<1>2. CASE Respond(q) /\ Deliver(q) /\ wpc' = [wpc EXCEPT ![q] = "held"]
  <2>1. /\ wpc[q] = "latest" /\ wpc'[q] = "held" /\ UNCHANGED <<state, unlockq>>
    BY <1>2, <1>e DEF Respond
  <2>2. state[q] \in 1..Len(grants)
    BY <2>1, <1>a, <1>e DEF TokenOf, NoToken
  <2>3. grants'[state[q]].base = Latest(q)
    BY <1>2, <2>2, <1>e DEF Deliver
  <2>4. BaseOK(q)'
    BY <2>1, <2>3, <1>a, SameRows DEF BaseOK
  <2>5. SpentOK(q)'
    BY <2>1, <1>a, <1>g, <1>h, WorkerDelivers DEF SpentOK
  <2> QED
    BY <2>1, <2>4, <2>5, <1>f, <1>i
<1>3. CASE ReleaseByUnlock(q)
  <2>1. /\ wpc[q] = "held" /\ unlockq[q] > 0 /\ unlockq'[q] = unlockq[q] - 1
        /\ state'[q] = NoToken /\ wpc'[q] = "recv" /\ UNCHANGED grants
    BY <1>3, <1>e DEF ReleaseByUnlock
  <2>2. /\ unlockq'[q] = 0 /\ Used(q, state[q])
        /\ \A r \in Request : \A i \in Nat : ~ Owes(r, i, q)
    BY <2>1, <1>e, <1>g DEF OneOwed
  <2>3. OneOwed(q)'
    BY <2>2, <1>d DEF OneOwed
  <2>4. SpentOK(q)'
    BY <2>1, <2>2, <1>g, <1>h DEF SpentOK
  <2>5. BaseOK(q)'
    BY <2>1 DEF BaseOK
  <2> QED
    BY <2>3, <2>4, <2>5, <1>f
<1>4. CASE ReleaseByTimeout(q)
  BY <1>4 DEF ReleaseByTimeout, Disciplined
<1> QED
  BY <1>1, <1>2, <1>3, <1>4, <1>a DEF WorkerStep, Respond

(* Sending an unlock message moves it from the call to the channel. *)
LEMMA ChainUnlock ==
    ASSUME TokenInv, NEW r \in Request, UnlockNext(r), NEW q \in Chained, ChainOK(q)
    PROVE  ChainOK(q)'
<1> DEFINE p == Head(req[r].chained)
           ch == req[r].chained
<1>a. /\ Shape /\ req \in [Request -> Call] /\ ch \in Seq(Chained)
      /\ ch # <<>> /\ req[r].pc = "unlock"
      /\ UNCHANGED <<table, by, state, wpc, grants, expired>>
      /\ unlockq \in [Chained -> 0..UnlockCap] /\ unlockq[q] \in Nat
  <2>1. /\ Shape /\ req \in [Request -> Call]
        /\ unlockq \in [Chained -> 0..UnlockCap] /\ unlockq[q] \in Nat
    BY ChainingAssumption DEF TokenInv, Shape
  <2>2. ch \in Seq(Chained)
    BY <2>1 DEF Call
  <2> QED
    BY <2>1, <2>2 DEF UnlockNext, storageVars
<1>b. /\ Len(ch) \in Nat /\ Len(ch) >= 1 /\ ch[1] = p /\ p \in Chained
      /\ Len(Tail(ch)) = Len(ch) - 1
      /\ \A i \in 1..(Len(ch) - 1) : Tail(ch)[i] = ch[i + 1]
  BY <1>a
<1>c. /\ unlockq' = [unlockq EXCEPT ![p] = @ + 1]
      /\ req'[r].chained = Tail(ch) /\ req'[r].pc = "unlock"
      /\ \A s \in Request \ {r} : req'[s] = req[s]
  BY <1>a DEF UnlockNext, Unlock, Call
<1> HIDE DEF p, ch
<1>d. GrantsKept
  BY <1>a DEF GrantsKept, Shape
<1>e. \A s \in Request \ {r} : \A i \in Nat : Owes(s, i, q)' <=> Owes(s, i, q)
  BY <1>c DEF Owes
<1>f. \A i \in Nat : Owes(r, i, q)' => Owes(r, i + 1, q) /\ i >= 1
  <2> SUFFICES ASSUME NEW i \in Nat, Owes(r, i, q)' PROVE Owes(r, i + 1, q) /\ i >= 1
    OBVIOUS
  <2>1. i \in 1..(Len(ch) - 1) /\ Tail(ch)[i] = q
    BY <1>b, <1>c DEF Owes
  <2>2. i + 1 \in 1..Len(ch) /\ ch[i + 1] = q /\ i >= 1
    BY <2>1, <1>b
  <2> QED
    BY <2>2, <1>a DEF Owes, ch
<1> SUFFICES ASSUME Disciplined(q)'
             PROVE  OneOwed(q)' /\ BaseOK(q)' /\ SpentOK(q)' /\ LinearOK(q)'
  BY DEF ChainOK
<1>g. Disciplined(q) /\ LinearOK(q)'
  BY <1>a, <1>d, LinearKept
<1>h. OneOwed(q) /\ BaseOK(q) /\ SpentOK(q)
  BY <1>g DEF ChainOK
<1>i. \A k : Used(q, k)' <=> Used(q, k)
  BY <1>a, SameRows
<1>1. BaseOK(q)' /\ SpentOK(q)'
  BY <1>a, <1>h, <1>i, SameRows DEF BaseOK, SpentOK
<1>2. OneOwed(q)'
  <2>1. CASE q # p
    <3>1. unlockq'[q] = unlockq[q]
      BY <2>1, <1>a, <1>c
    <3>2. \A s \in Request : \A i \in Nat : Owes(s, i, q)' =>
             unlockq'[q] = 0 /\ wpc'[q] = "held" /\ Used(q, state[q])'
      BY <3>1, <1>a, <1>e, <1>f, <1>h, <1>i DEF OneOwed
    <3>3. ASSUME NEW s \in Request, NEW u \in Request, NEW i \in Nat, NEW j \in Nat,
                 Owes(s, i, q)', Owes(u, j, q)'
          PROVE  s = u /\ i = j
      <4>1. PICK i1 \in Nat : Owes(s, i1, q) /\ i1 = IF s = r THEN i + 1 ELSE i
        BY <3>3, <1>e, <1>f
      <4>2. PICK j1 \in Nat : Owes(u, j1, q) /\ j1 = IF u = r THEN j + 1 ELSE j
        BY <3>3, <1>e, <1>f
      <4>3. s = u /\ i1 = j1
        BY <4>1, <4>2, <1>h DEF OneOwed
      <4> QED
        BY <4>1, <4>2, <4>3
    <3> QED
      BY <3>1, <3>2, <3>3, <1>a, <1>h, <1>i DEF OneOwed
  <2>2. CASE q = p
    <3>1. Owes(r, 1, q)
      BY <2>2, <1>a, <1>b DEF Owes, ch
    <3>2. unlockq[q] = 0 /\ wpc[q] = "held" /\ Used(q, state[q])
      BY <3>1, <1>h DEF OneOwed
    <3>3. unlockq'[q] = 1
      BY <3>2, <2>2, <1>a, <1>c
    <3>4. ASSUME NEW s \in Request, NEW i \in Nat, Owes(s, i, q)' PROVE FALSE
      <4>1. s = r
        BY <3>1, <3>4, <1>e, <1>h DEF OneOwed
      <4>2. Owes(r, i + 1, q) /\ i >= 1 /\ i + 1 \in Nat
        BY <3>4, <4>1, <1>f
      <4>3. i + 1 = 1
        BY <3>1, <4>2, <1>h DEF OneOwed
      <4> QED
        BY <4>2, <4>3
    <3> QED
      BY <3>2, <3>3, <3>4, <1>a, <1>i DEF OneOwed
  <2> QED
    BY <2>1, <2>2
<1> QED
  BY <1>g, <1>1, <1>2

(* The other steps of a call write nothing and send nothing. *)
LEMMA ChainCall ==
    ASSUME TokenInv, NEW r \in Request, SubmitTx(r), ~ StoreTxs(r), ~ UnlockNext(r),
           NEW q \in Chained, ChainOK(q)
    PROVE  ChainOK(q)'
<1>1. UNCHANGED <<table, by, chainingVars>>
  BY DEF SubmitTx, ReceiveRequest, SkipTx, AcceptTx, DenyTx, StoreError, ReturnRefs,
         storageVars
<1>2. req \in [Request -> Call] /\ req[r] \in Call
  BY DEF TokenInv, Shape
<1>3. /\ \A s \in Request \ {r} : req'[s] = req[s]
      /\ req'[r].pc # "unlock"
  <2>1. CASE ReceiveRequest(r)
    BY <2>1, <1>2 DEF ReceiveRequest, NoRequest
  <2>2. CASE SkipTx(r)
    BY <2>2, <1>2 DEF SkipTx, InLoop, Call
  <2>3. CASE AcceptTx(r)
    <3>1. req'[r].pc = "check"
      BY <2>3, <1>2, AcceptCall
    <3> QED
      BY <3>1, <1>2, OtherCalls
  <2>4. CASE DenyTx(r) \/ StoreError(r) \/ ReturnRefs(r)
    BY <2>4, <1>2 DEF DenyTx, StoreError, ReturnRefs, Return, NoRequest
  <2> QED
    BY <2>1, <2>2, <2>3, <2>4 DEF SubmitTx
<1>4. \A s \in Request : \A i \in Nat : Owes(s, i, q)' => Owes(s, i, q)
  BY <1>3 DEF Owes
<1>5. GrantsKept
  BY <1>1 DEF GrantsKept, TokenInv, Shape, chainingVars
<1> QED
  BY <1>1, <1>4, <1>5, ChainKept DEF chainingVars

(* Nor do the callers of lock_state. *)
LEMMA ChainQuiet ==
    ASSUME TokenInv, LockState \/ UNCHANGED vars, NEW q \in Chained, ChainOK(q)
    PROVE  ChainOK(q)'
<1>1. UNCHANGED <<table, by, req, unlockq, state, wpc, grants, expired>>
  BY DEF LockState, Lock, Hangup, vars, storageVars, chainingVars
<1>2. \A s \in Request : \A i \in Nat : Owes(s, i, q)' => Owes(s, i, q)
  BY <1>1 DEF Owes
<1>3. GrantsKept
  BY <1>1 DEF GrantsKept, TokenInv, Shape
<1> QED
  BY <1>1, <1>2, <1>3, ChainKept

(* The rows that a call stores, and those of one queue. *)
Stored(r) == {req[r].accepted[i] : i \in 1..Len(req[r].accepted)}
StoredIn(r, q) == {t \in Stored(r) : QueueOf[t] = q}

(* What a call's StoreTxs does to the rows of a queue. *)
LEMMA StoreRows ==
    ASSUME TokenInv, NEW r \in Request, StoreTxs(r), NEW q \in Chained
    PROVE  /\ InQueueEver(q)' = InQueueEver(q) \cup StoredIn(r, q)
           /\ InQueueEver(q) \cap StoredIn(r, q) = {}
           /\ \A t \in InQueueEver(q) : table'[t] = table[t] /\ by'[t] = by[t]
           /\ \A t \in InQueueEver(q), u \in StoredIn(r, q) :
                 table[t].created \in Nat /\ table'[u].created \in Nat
           /\ \A t \in StoredIn(r, q) : \E j \in 1..Len(req[r].accepted) :
                 req[r].accepted[j] = t /\ table'[t].created = req[r].stamps[j]
           /\ \A t \in StoredIn(r, q) :
                 by'[t] = IF NeedsToken(t) THEN req[r].tokens[q] ELSE NoToken
<1> DEFINE acc == req[r].accepted
           at == req[r].stamps
<1>1. /\ Shape /\ RowsOK /\ acc \in Seq(Tx) /\ at \in Seq(Nat) /\ Len(at) = Len(acc)
      /\ Create(acc, at) /\ DOMAIN acc = 1..Len(acc) /\ table \in [Tx -> Row]
  <2>1. Shape /\ RowsOK /\ req[r] \in Call /\ Stamped /\ table \in [Tx -> Row]
    BY DEF TokenInv, Shape
  <2> QED
    BY <2>1 DEF Call, Stamped, StoreTxs
<1>2. /\ Stored(r) \in SUBSET Tx /\ Stored(r) \cap Existing = {}
      /\ Existing' = Existing \cup Stored(r)
      /\ \A t \in Tx \ Stored(r) : table'[t] = table[t]
      /\ \A i \in 1..Len(acc) : table'[acc[i]].created = at[i]
  BY <1>1, CreateRows DEF Stored
<1>3. table' \in [Tx -> Row]
  BY <1>1, CreateTyped
<1>4. \A t \in Tx : by'[t] = IF NeedsToken(t) /\ t \in Stored(r)
                              THEN req[r].tokens[QueueOf[t]] ELSE by[t]
  BY <1>1 DEF StoreTxs, Stored
<1>5. \A t \in StoredIn(r, q) : \E j \in 1..Len(acc) :
         acc[j] = t /\ table'[t].created = at[j]
  BY <1>2 DEF StoredIn, Stored
<1> HIDE DEF acc, at
<1>6. \A t \in Tx : table[t].created \in Nat /\ table'[t].created \in Nat
  BY <1>1, <1>3 DEF Row
<1>7. InQueueEver(q)' = InQueueEver(q) \cup StoredIn(r, q)
  BY <1>2 DEF InQueueEver, StoredIn
<1>8. \A t \in InQueueEver(q) : t \in Tx /\ t \in Existing /\ t \notin Stored(r)
  BY <1>2 DEF InQueueEver, Existing
<1>9. \A t \in InQueueEver(q) : table'[t] = table[t] /\ by'[t] = by[t]
  BY <1>2, <1>4, <1>8
<1>10. \A t \in InQueueEver(q), u \in StoredIn(r, q) :
          table[t].created \in Nat /\ table'[u].created \in Nat
  BY <1>2, <1>6, <1>8 DEF StoredIn
<1>11. ASSUME NEW t \in StoredIn(r, q)
       PROVE  by'[t] = IF NeedsToken(t) THEN req[r].tokens[q] ELSE NoToken
  <2>1. t \in Tx /\ t \in Stored(r) /\ t \notin Existing /\ QueueOf[t] = q
    BY <1>2 DEF StoredIn
  <2>2. by[t] = NoToken
    BY <1>1, <2>1 DEF RowsOK, RowOK
  <2> QED
    BY <1>4, <2>1, <2>2
<1> QED
  BY <1>5, <1>7, <1>8, <1>9, <1>10, <1>11 DEF StoredIn, acc, at

(* In a disciplined queue an accepted transaction whose token is unused    *)
(* has the token of the lock held.                                         *)
LEMMA UnusedIsHeld ==
    ASSUME TokenInv, NEW q \in Chained, SpentOK(q), NEW r \in Request, NEW j \in Nat,
           ToStore(r, j, q), ~ Used(q, req[r].tokens[q])
    PROVE  wpc[q] = "held" /\ state[q] = req[r].tokens[q]
<1>1. CallOK(r) /\ Len(grants) \in Nat /\ req[r] \in Call
  BY DEF TokenInv, CallsOK, Shape
<1>2. PICK k : k = req[r].tokens[q]
  OBVIOUS
<1>3. k \in Nat /\ k <= Len(grants) /\ (k # NoToken => grants[k].delivered)
  BY <1>1, <1>2 DEF CallOK, Call
<1>4. k # NoToken /\ grants[k].queue = q
  BY <1>1, <1>2 DEF CallOK, ToStore
<1>5. k \in 1..Len(grants)
  BY <1>1, <1>3, <1>4 DEF NoToken
<1> QED
  BY <1>2, <1>3, <1>4, <1>5 DEF SpentOK

(* Storing rows keeps a chain: what is stored in a disciplined queue is    *)
(* one transaction, with the token of the lock held, which nobody has used *)
(* yet, so it was built on the latest row.                                 *)
LEMMA ChainStore ==
    ASSUME TokenInv, NEW r \in Request, Matched(r), StoreTxs(r),
           NEW q \in Chained, ChainOK(q), Disciplined(q) => StampsOK(q)
    PROVE  ChainOK(q)'
<1> DEFINE new == StoredIn(r, q)
           ever == InQueueEver(q)
<1>a. /\ InQueueEver(q)' = ever \cup new /\ ever \cap new = {}
      /\ \A t \in ever : table'[t] = table[t] /\ by'[t] = by[t]
      /\ \A t \in ever, u \in new : table[t].created \in Nat /\ table'[u].created \in Nat
      /\ \A t \in new : \E j \in 1..Len(req[r].accepted) :
            req[r].accepted[j] = t /\ table'[t].created = req[r].stamps[j]
      /\ \A t \in new : by'[t] = IF NeedsToken(t) THEN req[r].tokens[q] ELSE NoToken
  BY StoreRows
<1>b. UNCHANGED <<unlockq, state, wpc, grants, expired>>
  BY DEF StoreTxs, chainingVars
<1>c. \A t \in ever \cup new : t \in Tx /\ QueueOf[t] = q
  <2>1. req[r].accepted \in Seq(Tx)
    BY DEF TokenInv, Shape, Call
  <2> QED
    BY <2>1 DEF InQueueEver, Existing, StoredIn, Stored
<1>d. req \in [Request -> Call] /\ CallOK(r) /\ req[r].tokens[q] \in Nat
  BY DEF TokenInv, CallsOK, Shape, Call
<1>e. /\ \A s \in Request \ {r} : req'[s] = req[s]
      /\ req'[r].chained = req[r].chained
  BY <1>d DEF StoreTxs, NoRequest
<1> SUFFICES ASSUME Disciplined(q)'
             PROVE  OneOwed(q)' /\ BaseOK(q)' /\ SpentOK(q)' /\ LinearOK(q)'
  BY DEF ChainOK
<1>f. /\ q \notin expired
      /\ \A t, u \in ever \cup new : by'[t] # NoToken /\ (by'[t] = by'[u] => t = u)
  BY <1>a, <1>b DEF Disciplined
<1>g. Disciplined(q)
  BY <1>a, <1>f DEF Disciplined
<1>h. OneOwed(q) /\ BaseOK(q) /\ SpentOK(q) /\ LinearOK(q) /\ StampsOK(q)
  BY <1>g DEF ChainOK
<1>i. \A k : Used(q, k)' <=> Used(q, k) \/ \E t \in new : by'[t] = k
  BY <1>a DEF Used
<1>j. \A s \in Request \ {r} : \A i \in Nat : Owes(s, i, q)' => Owes(s, i, q)
  BY <1>e DEF Owes
<1>k. PICK f \in [1..Len(req[r].chained) -> 1..Len(req[r].accepted)] : Matches(r, f)
  BY DEF Matched, StoreTxs, LoopDone
<1>l. ASSUME NEW i \in Nat, Owes(r, i, q)'
      PROVE  i \in 1..Len(req[r].chained) /\ req[r].accepted[f[i]] \in new
  <2>1. i \in 1..Len(req[r].chained) /\ req[r].chained[i] = q
    BY <1>e, <1>l DEF Owes
  <2> QED
    BY <2>1, <1>k DEF Matches, StoredIn, Stored
<1>m. ASSUME NEW t \in ever,
             \A u \in new : \A v \in ever : table[v].created < table'[u].created
      PROVE  Previous(t)' = Previous(t)
  <2> DEFINE before == {u \in ever : table[u].created < table[t].created}
  <2>1. QueueOf[t] = q
    BY <1>c
  <2>2. Previous(t) = {u \in before : \A v \in before : table[v].created <= table[u].created}
    BY <2>1 DEF Previous
  <2>3. Previous(t)' = LET b == {u \in ever \cup new : table'[u].created < table'[t].created}
                       IN  {u \in b : \A v \in b : table'[v].created <= table'[u].created}
    BY <2>1, <1>a DEF Previous
  <2>4. {u \in ever \cup new : table'[u].created < table'[t].created} = before
    <3>1. \A u \in ever : table'[u].created = table[u].created
      BY <1>a
    <3>2. ASSUME NEW u \in new PROVE ~ (table'[u].created < table'[t].created)
      <4>1. table[t].created < table'[u].created /\ table'[t].created = table[t].created
        BY <1>m, <3>1
      <4>2. table[t].created \in Nat /\ table'[u].created \in Nat
        BY <1>a
      <4> QED
        BY <4>1, <4>2
    <3> HIDE DEF new, ever
    <3> QED
      BY <3>1, <3>2
  <2>5. \A u \in before : table'[u] = table[u]
    BY <1>a
  <2> HIDE DEF before, ever, new
  <2> QED
    BY <2>2, <2>3, <2>4, <2>5
<1> HIDE DEF new, ever
<1>1. CASE new = {}
  <2>1. InQueueEver(q)' = ever /\ \A k : Used(q, k)' <=> Used(q, k)
    BY <1>1, <1>a, <1>i
  <2>2. Latest(q)' = Latest(q)
    BY <2>1, <1>a DEF Latest, ever
  <2>3. \A i \in Nat : ~ Owes(r, i, q)'
    BY <1>1, <1>l
  <2>4. OneOwed(q)'
    BY <2>1, <2>3, <1>b, <1>h, <1>j DEF OneOwed
  <2>5. BaseOK(q)' /\ SpentOK(q)'
    BY <2>1, <2>2, <1>b, <1>h DEF BaseOK, SpentOK
  <2>6. LinearOK(q)'
    BY <1>1, <2>1, <1>a, <1>b, <1>h, <1>m DEF LinearOK, ever
  <2> QED
    BY <2>4, <2>5, <2>6
<1>2. ASSUME NEW t \in new
      PROVE  OneOwed(q)' /\ BaseOK(q)' /\ SpentOK(q)' /\ LinearOK(q)'
  <2>0. PICK k : k = req[r].tokens[q]
    OBVIOUS
  <2>1. NeedsToken(t) /\ by'[t] = k /\ k # NoToken
    BY <2>0, <1>a, <1>f
  <2>2. new = {t}
    <3>1. ASSUME NEW u \in new PROVE u = t
      BY <2>0, <2>1, <1>a, <1>f
    <3> QED
      BY <3>1
  <2>3. ~ Used(q, k)
    <3> SUFFICES ASSUME NEW u \in ever, by[u] = k PROVE FALSE
      BY DEF Used, ever
    <3>1. by'[u] = by'[t] /\ u \in ever \cup new /\ t \in ever \cup new
      BY <2>1, <1>a
    <3>2. u = t
      BY <3>1, <1>f
    <3> QED
      BY <3>2, <1>a
  <2>4. PICK j \in 1..Len(req[r].accepted) :
          req[r].accepted[j] = t /\ table'[t].created = req[r].stamps[j]
    BY <1>a
  <2>j. j \in Nat /\ ToStore(r, j, q)
    BY <2>1, <2>4, <1>c DEF ToStore
  <2>5. wpc[q] = "held" /\ state[q] = k
    BY <2>0, <2>3, <2>j, <1>h, UnusedIsHeld
  <2>s. \A u \in new : \A v \in ever : table[v].created < table'[u].created
    <3>1. \A v \in ever : table[v].created < req[r].stamps[j]
      BY <2>0, <2>3, <2>j, <1>h DEF StampsOK, ever
    <3> QED
      BY <2>2, <2>4, <3>1
  <2>6. /\ unlockq[q] = 0
        /\ \A s \in Request : \A i \in Nat : ~ Owes(s, i, q)
    <3>1. unlockq[q] \in Nat
      BY ChainingAssumption DEF TokenInv, Shape
    <3> QED
      BY <2>3, <2>5, <3>1, <1>h DEF OneOwed
  <2>7. grants[k].base = Latest(q)
    BY <2>3, <2>5, <1>h DEF BaseOK
  <2>8. Used(q, k)'
    BY <2>1, <1>i
  <2>9. OneOwed(q)'
    <3>1. ASSUME NEW x \in Nat, NEW y \in Nat, Owes(r, x, q)', Owes(r, y, q)' PROVE x = y
      <4>1. /\ x \in 1..Len(req[r].chained) /\ y \in 1..Len(req[r].chained)
            /\ req[r].accepted[f[x]] = t /\ req[r].accepted[f[y]] = t
        BY <2>2, <3>1, <1>l
      <4>2. f[x] = f[y]
        <5>1. /\ req[r].accepted \in Seq(Tx) /\ Shape
              /\ Create(req[r].accepted, req[r].stamps)
          BY <1>d DEF Call, StoreTxs, TokenInv
        <5>2. \A a, b \in 1..Len(req[r].accepted) :
                 a # b => req[r].accepted[a] # req[r].accepted[b]
          BY <5>1, CreateRows
        <5> QED
          BY <4>1, <5>2
      <4> QED
        BY <4>1, <4>2, <1>k DEF Matches
    <3> QED
      BY <2>5, <2>6, <2>8, <3>1, <1>b, <1>j DEF OneOwed
  <2>10. BaseOK(q)' /\ SpentOK(q)'
    BY <2>5, <2>8, <1>b, <1>h, <1>i DEF BaseOK, SpentOK
  <2>11. Previous(t)' = Latest(q)
    <3>1. QueueOf[t] = q
      BY <1>c
    <3>2. Previous(t)' = LET b == {u \in ever \cup new : table'[u].created < table'[t].created}
                         IN  {u \in b : \A v \in b : table'[v].created <= table'[u].created}
      BY <3>1, <1>a DEF Previous
    <3>3. {u \in ever \cup new : table'[u].created < table'[t].created} = ever
      <4>1. t \in new
        OBVIOUS
      <4>2. \A u \in ever : table'[u].created < table'[t].created
        BY <4>1, <2>s, <1>a
      <4>3. ~ (table'[t].created < table'[t].created)
        <5>1. table'[t].created \in Nat
          <6>1. t \in Tx /\ TokenInv'
            BY <1>c, TokenInvStep DEF Next, SubmitTx
          <6> QED
            BY <6>1 DEF TokenInv, Shape, Row
        <5> QED
          BY <5>1
      <4> QED
        BY <2>2, <4>2, <4>3
    <3>4. Latest(q) = {u \in ever : \A v \in ever : table[v].created <= table[u].created}
      BY DEF Latest, ever
    <3> QED
      BY <3>2, <3>3, <3>4, <1>a
  <2>12. LinearOK(q)'
    <3> SUFFICES ASSUME NEW u \in ever \cup new PROVE grants'[by'[u]].base = Previous(u)'
      BY <1>a DEF LinearOK
    <3>1. CASE u \in ever
      BY <2>s, <3>1, <1>a, <1>b, <1>h, <1>m DEF LinearOK, ever
    <3>2. CASE u = t
      BY <3>2, <2>1, <2>7, <2>11, <1>b
    <3> QED
      BY <3>1, <3>2, <2>2
  <2> QED
    BY <2>9, <2>10, <2>12
<1> QED
  BY <1>1, <1>2

(* Without a new row the stamps stay in order: the only new one is that of *)
(* a transaction just accepted, which is later than every row.             *)
LEMMA StampsQuiet ==
    ASSUME TokenInv, [Next]_vars, UNCHANGED <<table, by>>,
           NEW q \in Chained, Disciplined(q) => StampsOK(q), Disciplined(q)'
    PROVE  StampsOK(q)'
<1>a. req \in [Request -> Call] /\ Stamped
  BY DEF TokenInv, Shape
<1>b. expired \subseteq expired'
  <2>1. ASSUME NEW r \in Request, SubmitTx(r) PROVE UNCHANGED expired
    BY <2>1 DEF SubmitTx, ReceiveRequest, SkipTx, AcceptTx, DenyTx, StoreTxs, StoreError,
                UnlockNext, ReturnRefs, chainingVars
  <2>2. LockState \/ UNCHANGED vars => UNCHANGED expired
    BY DEF LockState, Lock, Hangup, vars, chainingVars
  <2>3. ASSUME NEW p \in Chained, Worker(p) PROVE expired \subseteq expired'
    BY <2>3 DEF Worker, WorkerStep, RecvLock, Respond, LatestError, ReleaseByUnlock,
                ReleaseByTimeout
  <2> QED
    BY <2>1, <2>2, <2>3 DEF Next
<1>c. StampsOK(q)
  BY <1>b, SameRows DEF Disciplined
<1> SUFFICES ASSUME NEW r \in Request, NEW j \in Nat, ToStore(r, j, q)',
                    ~ Used(q, req'[r].tokens[q])
             PROVE  \A t \in InQueueEver(q) : table[t].created < req'[r].stamps[j]
  BY SameRows DEF StampsOK
<1>1. ASSUME req'[r].accepted = req[r].accepted, req'[r].tokens = req[r].tokens,
             req'[r].stamps = req[r].stamps
      PROVE  \A t \in InQueueEver(q) : table[t].created < req'[r].stamps[j]
  BY <1>1, <1>c DEF StampsOK, ToStore, NeedsToken, IsChainedQueue
<1>2. CASE req'[r] = req[r]
  BY <1>1, <1>2
<1>3. CASE SkipTx(r) \/ UnlockNext(r)
  <2>1. /\ req'[r].accepted = req[r].accepted /\ req'[r].tokens = req[r].tokens
        /\ req'[r].stamps = req[r].stamps
    BY <1>3, <1>a DEF SkipTx, UnlockNext, Call
  <2> QED
    BY <2>1, <1>1
<1>4. CASE ReceiveRequest(r) \/ DenyTx(r) \/ StoreTxs(r) \/ StoreError(r) \/ ReturnRefs(r)
  <2>1. req'[r].accepted = <<>>
    <3>1. CASE ReceiveRequest(r)
      BY <3>1, <1>a DEF ReceiveRequest, NoRequest
    <3>2. CASE DenyTx(r) \/ StoreError(r) \/ ReturnRefs(r)
      BY <3>2, <1>a DEF DenyTx, StoreError, ReturnRefs, Return, NoRequest
    <3>3. CASE StoreTxs(r)
      BY <3>3, <1>a DEF StoreTxs, NoRequest
    <3> QED
      BY <1>4, <3>1, <3>2, <3>3
  <2>2. j \in 1..0
    BY <2>1 DEF ToStore
  <2> QED
    BY <2>2
<1>5. CASE AcceptTx(r)
  <2>0. PICK n : n = Len(req[r].accepted)
    OBVIOUS
  <2>1. /\ req[r].accepted \in Seq(Tx) /\ req[r].stamps \in Seq(Nat)
        /\ n \in Nat /\ Len(req[r].stamps) = n
    BY <2>0, <1>a DEF Call, Stamped
  <2>2. PICK now \in Nat :
          /\ IsNow(now) /\ Current(r) \in Tx /\ req'[r].tokens = req[r].tokens
          /\ req'[r].accepted = Append(req[r].accepted, Current(r))
          /\ req'[r].stamps = Append(req[r].stamps, now)
    BY <1>5, <1>a, AcceptCall
  <2>3. j \in 1..(n + 1)
    BY <2>0, <2>1, <2>2 DEF ToStore
  <2>4. CASE j = n + 1
    <3>1. req'[r].stamps[j] = now
      BY <2>1, <2>2, <2>4
    <3>2. \A t \in InQueueEver(q) : table[t].created < now
      BY <2>2 DEF IsNow, Stamps, InQueueEver
    <3> QED
      BY <3>1, <3>2
  <2>5. CASE j \in 1..n
    <3>1. req'[r].stamps[j] = req[r].stamps[j] /\ req'[r].accepted[j] = req[r].accepted[j]
      BY <2>0, <2>1, <2>2, <2>5
    <3>2. ToStore(r, j, q)
      BY <2>0, <2>5, <3>1 DEF ToStore, NeedsToken, IsChainedQueue
    <3> QED
      BY <2>2, <3>1, <3>2, <1>c DEF StampsOK
  <2> QED
    BY <2>1, <2>3, <2>4, <2>5
<1>6. SubmitTx(r) \/ req'[r] = req[r]
  <2>1. ASSUME NEW s \in Request, SubmitTx(s), s # r PROVE req'[r] = req[r]
    BY <2>1, <1>a, OtherCalls
  <2>2. LockState \/ (\E p \in Chained : Worker(p)) \/ UNCHANGED vars => UNCHANGED req
    BY DEF LockState, Worker, vars
  <2> QED
    BY <2>1, <2>2 DEF Next
<1> QED
  BY <1>2, <1>3, <1>4, <1>5, <1>6 DEF SubmitTx

(* Nor does a new row come behind a stamp that still counts: it uses up    *)
(* the token of the lock held, which every other unused one is.            *)
LEMMA StampsStore ==
    ASSUME TokenInv, NEW r \in Request, StoreTxs(r), NEW q \in Chained, ChainOK(q),
           Disciplined(q) => StampsOK(q), Disciplined(q)'
    PROVE  StampsOK(q)'
<1> DEFINE new == StoredIn(r, q)
           ever == InQueueEver(q)
<1>a. /\ InQueueEver(q)' = ever \cup new /\ ever \cap new = {}
      /\ \A t \in ever : table'[t] = table[t] /\ by'[t] = by[t]
      /\ \A t \in new : \E j \in 1..Len(req[r].accepted) : req[r].accepted[j] = t
      /\ \A t \in new : by'[t] = IF NeedsToken(t) THEN req[r].tokens[q] ELSE NoToken
  BY StoreRows
<1>b. /\ q \notin expired
      /\ \A t, u \in ever \cup new : by'[t] # NoToken /\ (by'[t] = by'[u] => t = u)
  BY <1>a DEF Disciplined, StoreTxs, chainingVars
<1>c. Disciplined(q)
  BY <1>a, <1>b DEF Disciplined
<1>d. SpentOK(q) /\ StampsOK(q)
  BY <1>c DEF ChainOK
<1>e. \A k : Used(q, k)' <=> Used(q, k) \/ \E t \in new : by'[t] = k
  BY <1>a DEF Used
<1>f. req \in [Request -> Call] /\ req'[r].accepted = <<>>
  BY DEF TokenInv, Shape, StoreTxs, NoRequest
<1> SUFFICES ASSUME NEW s \in Request, NEW j \in Nat, ToStore(s, j, q)',
                    ~ Used(q, req[s].tokens[q])'
             PROVE  \A t \in InQueueEver(q)' : table'[t].created < req'[s].stamps[j]
  BY DEF StampsOK
<1>1. s # r
  <2>1. ASSUME s = r PROVE j \in 1..0
    BY <2>1, <1>f DEF ToStore
  <2> QED
    BY <2>1
<1>2. req'[s] = req[s]
  BY <1>1, <1>f, OtherCalls DEF SubmitTx
<1>3. ToStore(s, j, q) /\ ~ Used(q, req[s].tokens[q])
  BY <1>2, <1>e DEF ToStore, NeedsToken, IsChainedQueue
<1>4. \A t \in ever : table[t].created < req[s].stamps[j]
  BY <1>3, <1>d DEF StampsOK
<1>5. ASSUME NEW t \in new PROVE FALSE
  <2>0. PICK k : k = req[r].tokens[q]
    OBVIOUS
  <2>1. NeedsToken(t) /\ by'[t] = k
    BY <2>0, <1>a, <1>b
  <2>2. ~ Used(q, k)
    <3> SUFFICES ASSUME NEW u \in ever, by[u] = k PROVE FALSE
      BY DEF Used
    <3>1. by'[u] = by'[t] /\ u \in ever \cup new /\ t \in ever \cup new
      BY <2>1, <1>a
    <3> QED
      BY <3>1, <1>a, <1>b
  <2>3. PICK i \in 1..Len(req[r].accepted) : req[r].accepted[i] = t
    BY <1>a
  <2>4. i \in Nat /\ ToStore(r, i, q)
    BY <2>1, <2>3 DEF ToStore, StoredIn
  <2>5. state[q] = k /\ state[q] = req[s].tokens[q]
    BY <2>0, <2>2, <2>4, <1>3, <1>d, UnusedIsHeld
  <2> QED
    BY <2>1, <2>5, <1>2, <1>e
<1> HIDE DEF new, ever
<1> QED
  BY <1>2, <1>4, <1>5, <1>a

(* Every entry that a call adds to chained comes with a transaction. *)
LEMMA MatchedStep ==
    ASSUME TokenInv, NEW r \in Request, Matched(r), SubmitTx(r)
    PROVE  Matched(r)'
<1>a. /\ req \in [Request -> Call] /\ req[r] \in Call
      /\ req[r].chained \in Seq(Chained) /\ req[r].accepted \in Seq(Tx)
      /\ Len(req[r].chained) \in Nat /\ Len(req[r].accepted) \in Nat
  BY DEF TokenInv, Shape, Call
<1>b. ASSUME req'[r].chained = req[r].chained, req'[r].accepted = req[r].accepted,
             req'[r].pc = req[r].pc
      PROVE  Matched(r)'
  BY <1>b DEF Matched, Matches
<1>1. CASE ReceiveRequest(r)
  <2>1. req'[r].chained = <<>> /\ req'[r].accepted = <<>>
    BY <1>1, <1>a DEF ReceiveRequest, NoRequest
  <2>2. Len(req'[r].chained) = 0 /\ Len(req'[r].accepted) = 0
    BY <2>1
  <2> DEFINE f == [i \in 1..0 |-> 1]
  <2>3. f \in [1..Len(req'[r].chained) -> 1..Len(req'[r].accepted)]
    BY <2>2
  <2>4. 1..Len(req'[r].chained) = {}
    BY <2>2
  <2> HIDE DEF f
  <2>5. Matches(r, f)'
    BY <2>4 DEF Matches
  <2> QED
    BY <2>3, <2>5 DEF Matched
<1>2. CASE SkipTx(r) \/ UnlockNext(r)
  <2>1. \/ /\ req'[r].chained = req[r].chained /\ req'[r].accepted = req[r].accepted
           /\ req'[r].pc = req[r].pc
        \/ req'[r].pc = "unlock"
    BY <1>2, <1>a DEF SkipTx, UnlockNext, Call
  <2> QED
    BY <2>1, <1>b DEF Matched
<1>3. CASE DenyTx(r) \/ StoreError(r) \/ ReturnRefs(r) \/ StoreTxs(r)
  <2>1. ASSUME DenyTx(r) \/ StoreError(r) \/ ReturnRefs(r) PROVE req'[r].pc = "idle"
    BY <2>1, <1>a DEF DenyTx, StoreError, ReturnRefs, Return, NoRequest
  <2>2. ASSUME StoreTxs(r) PROVE req'[r].pc = "unlock"
    BY <2>2, <1>a DEF StoreTxs, NoRequest
  <2> QED
    BY <1>3, <2>1, <2>2 DEF Matched
<1>4. CASE AcceptTx(r)
  <2> DEFINE t == Current(r)
             m == Len(req[r].chained)
             n == Len(req[r].accepted)
  <2>1. /\ req'[r].accepted = Append(req[r].accepted, t) /\ t \in Tx
        /\ req'[r].chained = IF NeedsToken(t) THEN Append(req[r].chained, QueueOf[t])
                                              ELSE req[r].chained
        /\ req[r].pc = "check"
    <3>1. req[r].pc = "check"
      BY <1>4 DEF AcceptTx, InLoop
    <3> HIDE DEF m, n
    <3> QED
      BY <3>1, <1>4, <1>a, AcceptCall
  <2>2. PICK f \in [1..m -> 1..n] : Matches(r, f)
    BY <2>1 DEF Matched
  <2> HIDE DEF t
  <2>3. /\ Len(req'[r].accepted) = n + 1 /\ req'[r].accepted[n + 1] = t
        /\ \A i \in 1..n : req'[r].accepted[i] = req[r].accepted[i]
    BY <2>1, <1>a
  <2>4. CASE ~ NeedsToken(t)
    <3>1. req'[r].chained = req[r].chained
      BY <2>1, <2>4
    <3>2. f \in [1..m -> 1..(n + 1)]
      BY <2>2, <1>a
    <3>3. \A i \in 1..m : req'[r].accepted[f[i]] = req[r].accepted[f[i]]
      BY <2>2, <2>3
    <3>4. Matches(r, f)'
      BY <2>2, <3>1, <3>3 DEF Matches
    <3> QED
      BY <2>3, <3>1, <3>2, <3>4 DEF Matched
  <2>5. CASE NeedsToken(t)
    <3>1. /\ Len(req'[r].chained) = m + 1 /\ req'[r].chained[m + 1] = QueueOf[t]
          /\ \A i \in 1..m : req'[r].chained[i] = req[r].chained[i]
      <4>1. QueueOf[t] \in Chained
        BY <2>5 DEF NeedsToken, IsChainedQueue
      <4> QED
        BY <2>1, <2>5, <4>1, <1>a
    <3> DEFINE g == [i \in 1..(m + 1) |-> IF i = m + 1 THEN n + 1 ELSE f[i]]
    <3> HIDE DEF m, n
    <3>2. m \in Nat /\ n \in Nat
      BY <1>a DEF m, n
    <3>3. g \in [1..(m + 1) -> 1..(n + 1)]
      BY <2>2, <3>2
    <3>4. g[m + 1] = n + 1 /\ \A i \in 1..m : g[i] = f[i] /\ f[i] \in 1..n
      BY <2>2, <3>2
    <3>5. \A i \in 1..(m + 1) : i = m + 1 \/ i \in 1..m
      BY <3>2
    <3> HIDE DEF g
    <3>6. ASSUME NEW i \in 1..(m + 1), NEW j \in 1..(m + 1), g[i] = g[j] PROVE i = j
      <4>1. CASE i \in 1..m /\ j \in 1..m
        BY <4>1, <3>4, <3>6, <2>2 DEF Matches, m
      <4>2. CASE i = m + 1 /\ j \in 1..m
        BY <4>2, <3>2, <3>4, <3>6
      <4>3. CASE i \in 1..m /\ j = m + 1
        BY <4>3, <3>2, <3>4, <3>6
      <4> QED
        BY <3>5, <4>1, <4>2, <4>3
    <3>7. ASSUME NEW i \in 1..(m + 1)
          PROVE  req'[r].chained[i] = QueueOf[req'[r].accepted[g[i]]]
      <4>1. CASE i \in 1..m
        <5>1. req[r].chained[i] = QueueOf[req[r].accepted[f[i]]]
          BY <4>1, <2>2 DEF Matches, m
        <5> QED
          BY <4>1, <5>1, <2>3, <3>1, <3>4
      <4>2. CASE i = m + 1
        BY <4>2, <2>3, <3>1, <3>4
      <4> QED
        BY <3>5, <4>1, <4>2
    <3> QED
      BY <2>3, <3>1, <3>3, <3>6, <3>7 DEF Matched, Matches
  <2> QED
    BY <2>4, <2>5
<1> QED
  BY <1>1, <1>2, <1>3, <1>4 DEF SubmitTx

(* The whole invariant holds at the start. *)
LEMMA ChainInvInit == Init => ChainInv
<1> SUFFICES ASSUME Init PROVE ChainInv
  OBVIOUS
<1>1. Existing = {}
  BY DEF Init, StorageInit, Existing
<1>2. \A q \in Chained : StampsOK(q)
  BY <1>1 DEF StampsOK, InQueueEver
<1>3. \A r \in Request : req[r].pc = "idle"
  BY DEF Init, NoRequest
<1>4. \A r \in Request : Matched(r)
  BY <1>3 DEF Matched
<1>5. ASSUME NEW q \in Chained PROVE ChainOK(q)
  <2>1. unlockq[q] = 0 /\ wpc[q] = "recv" /\ grants = <<>>
    BY DEF Init, ChainingInit
  <2>2. OneOwed(q)
    BY <2>1, <1>3 DEF OneOwed, Owes
  <2>3. BaseOK(q) /\ SpentOK(q)
    BY <2>1 DEF BaseOK, SpentOK
  <2>4. LinearOK(q)
    BY <1>1 DEF LinearOK, InQueueEver
  <2> QED
    BY <2>2, <2>3, <2>4 DEF ChainOK
<1> QED
  BY <1>2, <1>4, <1>5, TokenInvInit DEF ChainInv

(* Every step keeps it. *)
LEMMA ChainInvStep == ChainInv /\ [Next]_vars => ChainInv'
<1> SUFFICES ASSUME ChainInv, [Next]_vars PROVE ChainInv'
  OBVIOUS
<1>a. TokenInv /\ TokenInv'
  BY TokenInvStep DEF ChainInv
<1>1. ASSUME NEW q \in Chained, Disciplined(q)' PROVE StampsOK(q)'
  <2>1. ChainOK(q) /\ (Disciplined(q) => StampsOK(q))
    BY DEF ChainInv
  <2> QED
    BY <1>1, <2>1, <1>a, RowsWritten, StampsQuiet, StampsStore
<1>2. ASSUME NEW r \in Request PROVE Matched(r)'
  <2>1. Matched(r) /\ req \in [Request -> Call]
    BY <1>a DEF ChainInv, TokenInv, Shape
  <2>2. CASE SubmitTx(r)
    BY <2>1, <2>2, <1>a, MatchedStep
  <2>3. CASE req'[r] = req[r]
    BY <2>1, <2>3 DEF Matched, Matches
  <2>4. SubmitTx(r) \/ req'[r] = req[r]
    <3>1. ASSUME NEW s \in Request, SubmitTx(s), s # r PROVE req'[r] = req[r]
      BY <3>1, <1>a, CallMoves DEF TokenInv, CallsOK
    <3>2. LockState \/ (\E q \in Chained : Worker(q)) \/ UNCHANGED vars => UNCHANGED req
      BY DEF LockState, Worker, vars
    <3> QED
      BY <3>1, <3>2 DEF Next
  <2> QED
    BY <2>2, <2>3, <2>4
<1>3. ASSUME NEW q \in Chained PROVE ChainOK(q)'
  <2>1. ChainOK(q)
    BY DEF ChainInv
  <2>2. ASSUME NEW r \in Request, SubmitTx(r) PROVE ChainOK(q)'
    <3>1. Matched(r) /\ (Disciplined(q) => StampsOK(q))
      BY DEF ChainInv
    <3> QED
      BY <2>1, <2>2, <3>1, <1>a, ChainStore, ChainUnlock, ChainCall
  <2>3. CASE LockState \/ UNCHANGED vars
    BY <2>1, <2>3, <1>a, ChainQuiet
  <2>4. ASSUME NEW p \in Chained, Worker(p) PROVE ChainOK(q)'
    BY <2>1, <2>4, <1>a, ChainWorker, ChainOtherWorker
  <2> QED
    BY <2>2, <2>3, <2>4 DEF Next
<1> QED
  BY <1>a, <1>1, <1>2, <1>3 DEF ChainInv

(* So it always holds. *)
LEMMA ChainInvHolds == Spec => []ChainInv
BY ChainInvInit, ChainInvStep, PTL DEF Spec

(* The promise of transaction chaining: in a queue whose lock never timed  *)
(* out and whose clients use a token for one transaction each, every       *)
(* transaction stored was built on the one stored just before it.  Between *)
(* the token check and the INSERT of submit_tx any number of other steps   *)
(* may happen; calls may fail or be refused, clients may hang up and       *)
(* latest() may fail, in any number of queues and requests.                *)
THEOREM ChainsAreLinear == Spec => []ChainLinear
<1>1. ASSUME ChainInv PROVE ChainLinear
  BY <1>1 DEF ChainInv, ChainOK, LinearOK, ChainLinear
<1> QED
  BY <1>1, ChainInvHolds, PTL

=============================================================================
