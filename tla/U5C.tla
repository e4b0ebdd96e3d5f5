-------------------------------- MODULE U5C --------------------------------
(***************************************************************************)
(* The UTxO RPC adapter (src/ledger/u5c) and, behind it, the chain that    *)
(* the service follows (external).                                         *)
(*                                                                         *)
(* The chain is a sequence of blocks that grows at its end and may lose    *)
(* its last blocks to a fork.  A stream keeps, on the service's side, the  *)
(* blocks it has delivered and not undone (view).  The next event is an    *)
(* Apply of the block after view when view is a prefix of the chain, and   *)
(* an Undo of the last block of view when it is not.                       *)
(***************************************************************************)
EXTENDS Storage, Sequences

CONSTANTS
    MaxSlot,        \* bound on the slots of the chain
    MaxForks        \* bound on the number of chain switches

ASSUME U5CAssumption == MaxSlot \in Nat /\ MaxForks \in Nat

VARIABLES
    chain,          \* the service's best chain, genesis first
    forks,          \* number of chain switches so far
    view,           \* the blocks the open stream has delivered and not undone
    boot            \* U5cDataAdapterImpl::cursor, read once per process

(* A block's hash: its slot together with the fork it was forged on. *)
Block == [slot : Nat, fork : Nat, txs : SUBSET Tx]
Genesis == [slot |-> 0, fork |-> 0, txs |-> {}]
PointOf(b) == [slot |-> b.slot, hash |-> b.fork]

Tip == chain[Len(chain)]                \* fetch_tip
OnChain == UNION {chain[i].txs : i \in DOMAIN chain}

ChainInit == chain = <<Genesis>> /\ forks = 0

(* A node forges a block; it can hold transactions that were broadcast and *)
(* are not on its chain yet (their inputs are spent after that).           *)
Forge(n, ts) ==
    /\ n \in Tip.slot + 1 .. MaxSlot
    /\ ts \cap OnChain = {}
    /\ chain' = Append(chain, [slot |-> n, fork |-> forks, txs |-> ts])
    /\ UNCHANGED forks

(* The node leaves its last blocks for another fork, which Forge extends. *)
SwitchFork(n) ==
    /\ n \in 1 .. Len(chain) - 1
    /\ forks < MaxForks
    /\ chain' = SubSeq(chain, 1, n)
    /\ forks' = forks + 1

IsPrefixOf(s, t) == Len(s) <= Len(t) /\ \A i \in DOMAIN s : s[i] = t[i]

(* stream(): follow_tip from the adapter's cursor, or from the tip when    *)
(* there is none.  A cursor that is not a point of the chain has no        *)
(* intersection: the call fails.                                           *)
Intersects(p) == p = NoCursor \/ \E i \in DOMAIN chain : PointOf(chain[i]) = p

OpenStream(p) ==
    IF p = NoCursor
    THEN view' = chain
    ELSE \E i \in DOMAIN chain :
            PointOf(chain[i]) = p /\ view' = SubSeq(chain, 1, i)

(* The events of the stream.  An Apply yields RollForward with the block;  *)
(* an Undo yields Rollback with the point of the block that is undone.     *)
StreamApply ==
    /\ IsPrefixOf(view, chain)
    /\ Len(view) < Len(chain)
    /\ view' = Append(view, chain[Len(view) + 1])

StreamUndo ==
    /\ ~ IsPrefixOf(view, chain)
    /\ view' = SubSeq(view, 1, Len(view) - 1)

(* The chain never loses its genesis block. *)
U5CTypeOK ==
    /\ chain \in Seq(Block) \ {<<>>} /\ forks \in Nat
    /\ view \in Seq(Block) /\ boot \in Point

=============================================================================
