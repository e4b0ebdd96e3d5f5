------------------------------ MODULE Storage ------------------------------
(***************************************************************************)
(* The SQLite database of src/storage: table `tx' and the one-row table    *)
(* `cursor'.  It is what survives a crash; every other variable of the     *)
(* project is memory of the process or state of the outside world.         *)
(*                                                                         *)
(* Every query is one statement or one database transaction, hence one     *)
(* atomic step of its caller.  The operators below are the queries; the    *)
(* callers (Ingest, Monitor, the gRPC server) run them in their actions.   *)
(* The columns `raw', `updated_at' and the table tx_dependence carry data  *)
(* that no operation branches on and are left out.  The status `validated' *)
(* exists in the enum, but no code writes it.                              *)
(***************************************************************************)
EXTENDS Integers, FiniteSets

CONSTANTS
    Tx,         \* transaction ids (body hashes, primary key of table tx)
    Queue,      \* queue names that clients use
    QueueOf     \* the queue a client names for each transaction

ASSUME StorageAssumption == IsFiniteSet(Tx) /\ QueueOf \in [Tx -> Queue]

VARIABLES
    table,      \* table tx: one row per id; status "absent" = no such row
    cursor      \* table cursor: the point last stored by the monitor

NoSlot == -1                            \* Option<u64>::None, SQL NULL
Slot == Nat \cup {NoSlot}
Status == {"absent", "pending", "inflight", "confirmed", "failed"}
Row == [status : Status, slot : Slot, created : Nat]
Point == [slot : Slot, hash : Nat]
NoCursor == [slot |-> NoSlot, hash |-> 0]       \* the table is empty

StorageInit ==
    /\ table = [t \in Tx |-> [status |-> "absent", slot |-> NoSlot, created |-> 0]]
    /\ cursor = NoCursor

Existing == {t \in Tx : table[t].status # "absent"}

(* The INSERT of create: a request's transactions are inserted in one      *)
(* database transaction, so one duplicate id fails all of them (no row is  *)
(* written).  ts is the request's sequence of ids, at[i] the created_at    *)
(* that Transaction::new gave the i-th of them, some time before.          *)
Position(ts, t) == CHOOSE i \in DOMAIN ts : ts[i] = t

Create(ts, at) ==
    LET ids == {ts[i] : i \in DOMAIN ts} IN
    /\ \A i, j \in DOMAIN ts : i # j => ts[i] # ts[j]
    /\ ids \cap Existing = {}
    /\ table' = [t \in Tx |->
          IF t \in ids
          THEN [status |-> "pending", slot |-> NoSlot,
                created |-> at[Position(ts, t)]]
          ELSE table[t]]

(* SELECT ... WHERE status = s *)
Find(s) == {t \in Tx : table[t].status = s}

(* Slip: the condition on the slot is missing. *)
FindToRollback_All(n) == Find("confirmed")

(* SELECT ... WHERE status = 'confirmed' AND slot > n *)
FindToRollback(n) == {t \in Find("confirmed") : table[t].slot > n}

(* The rows a query hands to its caller: a snapshot, not a reference. *)
Rows(ids) == [t \in ids |-> table[t]]

InQueue(s, q) == {t \in Find(s) : QueueOf[t] = q}

(* SELECT ... WHERE queue = q ORDER BY created_at DESC LIMIT 1: one row or *)
(* none, whatever its status.                                              *)
InQueueEver(q) == {t \in Existing : QueueOf[t] = q}
Latest(q) ==
    {t \in InQueueEver(q) : \A u \in InQueueEver(q) : table[u].created <= table[t].created}

(* SELECT queue, COUNT( * ) ... GROUP BY queue *)
State(s) == [q \in {QueueOf[t] : t \in Find(s)} |-> Cardinality(InQueue(s, q))]

(* One branch of the UNION ALL of next: ORDER BY created_at LIMIT n. *)
Oldest(s, q, n) ==
    {t \in InQueue(s, q) :
        Cardinality({u \in InQueue(s, q) : table[u].created < table[t].created}) < n}

(* The UNION ALL: a block of rows per queue, oldest first inside a block;  *)
(* the blocks come in the iteration order of a HashMap, that is any order. *)
NextTxs(s, limit) ==
    LET rows == UNION {Oldest(s, q, limit[q]) : q \in DOMAIN limit}
        n == Cardinality(rows)
    IN  {u \in [1..n -> rows] :
           /\ \A i, j \in 1..n : i < j =>
                /\ u[i] # u[j]
                /\ QueueOf[u[i]] = QueueOf[u[j]] =>
                      table[u[i]].created < table[u[j]].created
           /\ \A i, j, k \in 1..n :
                i < j /\ j < k /\ QueueOf[u[i]] = QueueOf[u[k]] =>
                   QueueOf[u[j]] = QueueOf[u[k]]}

(* UPDATE tx SET status, slot WHERE id, for every id of upd, in one        *)
(* database transaction.  The WHERE clause names only the id: whatever     *)
(* status the row has by now is overwritten.                               *)
UpdateBatch(upd) ==
    table' = [t \in Tx |->
        IF t \in DOMAIN upd
        THEN [status |-> upd[t].status, slot |-> upd[t].slot,
              created |-> table[t].created]
        ELSE table[t]]

Update(t, s, n) == UpdateBatch([x \in {t} |-> [status |-> s, slot |-> n]])

(* INSERT OR REPLACE INTO cursor, and SELECT at start-up. *)
SetCursor(p) == cursor' = p
CurrentCursor == cursor

StorageTypeOK == table \in [Tx -> Row] /\ cursor \in Point

=============================================================================
