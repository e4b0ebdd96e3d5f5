--------------------------- MODULE MempoolProofs ---------------------------
(***************************************************************************)
(* Theorems about what a peer offers to its node: the mempool follows the  *)
(* node's acknowledgements, and transactions come in order, for every      *)
(* window, capacity and timeout.  They rest on the invariant of            *)
(* NetworkProofs.                                                          *)
(***************************************************************************)
EXTENDS NetworkProofs, SequenceTheorems

USE DEF NoReceiver, NoAddr

(* What a node is offered.  The messages of a list rise, up to the last    *)
(* one that the receiver has passed.                                       *)
InOrder(s, last) ==
    /\ \A i, j \in DOMAIN s : i < j => s[i] < s[j]
    /\ \A i \in DOMAIN s : s[i] <= last

(* The same over the positions of the list. *)
LEMMA InOrderByIndex ==
    ASSUME NEW s \in Seq(Nat), NEW c \in Int
    PROVE  InOrder(s, c) <=> /\ \A i, j \in 1..Len(s) : i < j => s[i] < s[j]
                             /\ \A i \in 1..Len(s) : s[i] <= c
<1>1. DOMAIN s = 1..Len(s)
  BY LenProperties
<1>2. QED
  BY <1>1 DEF InOrder

(* A part of a list that begins later and goes on without a gap is in      *)
(* order if the list is.                                                   *)
LEMMA InOrderPart ==
    ASSUME NEW s \in Seq(Nat), NEW t \in Seq(Nat), NEW k \in Nat, NEW c \in Int, NEW d \in Int,
           InOrder(s, c), c <= d, Len(t) + k <= Len(s),
           \A i \in 1..Len(t) : t[i] = s[i + k]
    PROVE  InOrder(t, d)
<1>0. Len(s) \in Nat /\ Len(t) \in Nat
  BY LenProperties
<1>1. /\ \A i, j \in 1..Len(s) : i < j => s[i] < s[j]
      /\ \A i \in 1..Len(s) : s[i] <= c
  BY InOrderByIndex
<1>2. \A i \in 1..Len(t) : i + k \in 1..Len(s)
  BY <1>0
<1>3. ASSUME NEW i \in 1..Len(t), NEW j \in 1..Len(t), i < j PROVE t[i] < t[j]
  <2>1. i + k \in 1..Len(s) /\ j + k \in 1..Len(s) /\ i + k < j + k
    BY <1>0, <1>2, <1>3
  <2>2. s[i + k] < s[j + k]
    BY <1>1, <2>1
  <2>3. t[i] = s[i + k] /\ t[j] = s[j + k]
    OBVIOUS
  <2>4. QED
    BY <2>2, <2>3
<1>4. ASSUME NEW i \in 1..Len(t) PROVE t[i] <= d
  <2>1. i + k \in 1..Len(s)
    BY <1>2
  <2>2. s[i + k] <= c /\ s[i + k] \in Nat /\ t[i] = s[i + k]
    BY <1>1, <2>1, ElementOfSeq
  <2>3. QED
    BY <2>2
<1>5. QED
  BY <1>3, <1>4, InOrderByIndex

(* The next message of the channel, at the end. *)
LEMMA InOrderAppend ==
    ASSUME NEW w \in Seq(Nat), NEW g \in Seq(Nat), NEW c \in Int, c + 1 \in Nat,
           InOrder(w \o g, c)
    PROVE  InOrder(w \o Append(g, c + 1), c + 1)
<1> DEFINE s == w \o g
           t == w \o Append(g, c + 1)
<1>1. /\ s \in Seq(Nat) /\ t \in Seq(Nat) /\ Len(t) = Len(s) + 1 /\ Len(s) \in Nat
      /\ t[Len(s) + 1] = c + 1 /\ \A i \in 1..Len(s) : t[i] = s[i]
  OBVIOUS
<1>2. InOrder(s, c)
  OBVIOUS
<1> HIDE DEF s, t
<1>3. /\ \A i, j \in 1..Len(s) : i < j => s[i] < s[j]
      /\ \A i \in 1..Len(s) : s[i] <= c
  BY <1>1, <1>2, InOrderByIndex
<1>4. \A i \in 1..Len(s) : s[i] \in Nat /\ s[i] < c + 1
  BY <1>1, <1>3, ElementOfSeq
<1>5. ASSUME NEW i \in 1..Len(s) + 1 PROVE i \in 1..Len(s) \/ i = Len(s) + 1
  BY <1>1
<1>6. ASSUME NEW i \in 1..Len(s) + 1 PROVE t[i] <= c + 1
  <2>1. CASE i \in 1..Len(s)
    <3>1. t[i] = s[i] /\ s[i] \in Nat /\ s[i] < c + 1
      BY <1>1, <1>4, <2>1
    <3>2. QED
      BY <3>1
  <2>2. CASE i = Len(s) + 1
    BY <1>1, <2>2
  <2>3. QED
    BY <1>5, <2>1, <2>2
<1>7. ASSUME NEW i \in 1..Len(s) + 1, NEW j \in 1..Len(s) + 1, i < j PROVE t[i] < t[j]
  <2>1. i \in 1..Len(s)
    BY <1>1, <1>7
  <2>2. t[i] = s[i]
    BY <1>1, <2>1
  <2>3. CASE j \in 1..Len(s)
    BY <1>1, <1>3, <1>7, <2>1, <2>2, <2>3
  <2>4. CASE j = Len(s) + 1
    <3>1. t[j] = c + 1
      BY <1>1, <2>4
    <3>2. QED
      BY <1>4, <2>1, <2>2, <3>1
  <2>5. QED
    BY <1>5, <2>3, <2>4
<1>8. InOrder(t, c + 1)
  <2>1. c + 1 \in Int
    OBVIOUS
  <2>2. /\ \A i, j \in 1..Len(t) : i < j => t[i] < t[j]
        /\ \A i \in 1..Len(t) : t[i] <= c + 1
    BY <1>1, <1>6, <1>7
  <2>3. QED
    BY <1>1, <2>1, <2>2, InOrderByIndex
<1>9. QED
  BY <1>8 DEF t

(* What is left of a list without its m oldest. *)
LEMMA DropProperties ==
    ASSUME NEW s \in Seq(Nat), NEW m \in 0..Len(s)
    PROVE  /\ SubSeq(s, m + 1, Len(s)) \in Seq(Nat)
           /\ Len(SubSeq(s, m + 1, Len(s))) = Len(s) - m
           /\ \A i \in 1..Len(s) - m : SubSeq(s, m + 1, Len(s))[i] = s[i + m]
  OBVIOUS

(* s is an end of t. *)
LEMMA NewestOfByIndex ==
    ASSUME NEW s \in Seq(Nat), NEW t \in Seq(Nat)
    PROVE  NewestOf(s, t) <=>
             \E k \in 0..Len(t) : Len(s) = Len(t) - k /\ \A i \in 1..Len(s) : s[i] = t[i + k]
<1>0. Len(s) \in Nat /\ Len(t) \in Nat
  BY LenProperties
<1>1. ASSUME NEW k \in 0..Len(t)
      PROVE  s = SubSeq(t, k + 1, Len(t)) <=>
               Len(s) = Len(t) - k /\ \A i \in 1..Len(s) : s[i] = t[i + k]
  <2> DEFINE u == SubSeq(t, k + 1, Len(t))
  <2>1. u \in Seq(Nat) /\ Len(u) = Len(t) - k /\ \A i \in 1..Len(t) - k : u[i] = t[i + k]
    BY DropProperties
  <2> HIDE DEF u
  <2>2. ASSUME s = u PROVE Len(s) = Len(t) - k /\ \A i \in 1..Len(s) : s[i] = t[i + k]
    BY <2>1, <2>2
  <2>3. ASSUME Len(s) = Len(t) - k, \A i \in 1..Len(s) : s[i] = t[i + k] PROVE s = u
    <3>1. Len(s) = Len(u) /\ \A i \in 1..Len(s) : s[i] = u[i]
      BY <2>1, <2>3
    <3>2. QED
      BY <2>1, <3>1, SeqEqual
  <2>4. QED
    BY <2>2, <2>3 DEF u
<1>2. QED
  BY <1>1 DEF NewestOf

(* Both lists grow by the same messages. *)
LEMMA NewestOfConcat ==
    ASSUME NEW s \in Seq(Nat), NEW t \in Seq(Nat), NEW g \in Seq(Nat), NewestOf(s, t)
    PROVE  NewestOf(s \o g, t \o g)
<1>1. PICK k \in 0..Len(t) : Len(s) = Len(t) - k /\ \A i \in 1..Len(s) : s[i] = t[i + k]
  BY NewestOfByIndex
<1>2. /\ s \o g \in Seq(Nat) /\ t \o g \in Seq(Nat)
      /\ Len(s \o g) = Len(s) + Len(g) /\ Len(t \o g) = Len(t) + Len(g)
      /\ Len(s) \in Nat /\ Len(t) \in Nat /\ Len(g) \in Nat
  BY LenProperties, ConcatProperties
<1>3. ASSUME NEW i \in 1..Len(s \o g) PROVE (s \o g)[i] = (t \o g)[i + k]
  <2>1. i \in 1..Len(s) + Len(g) /\ i + k \in 1..Len(t) + Len(g)
    BY <1>1, <1>2
  <2>2. /\ (s \o g)[i] = IF i <= Len(s) THEN s[i] ELSE g[i - Len(s)]
        /\ (t \o g)[i + k] = IF i + k <= Len(t) THEN t[i + k] ELSE g[i + k - Len(t)]
    BY <2>1, ConcatProperties
  <2>3. CASE i <= Len(s)
    BY <1>1, <1>2, <2>1, <2>2, <2>3
  <2>4. CASE ~ (i <= Len(s))
    <3>1. i + k - Len(t) = i - Len(s) /\ ~ (i + k <= Len(t))
      BY <1>1, <1>2, <2>1, <2>4
    <3>2. QED
      BY <2>2, <2>4, <3>1
  <2>5. QED
    BY <2>3, <2>4
<1>4. k \in 0..Len(t \o g) /\ Len(s \o g) = Len(t \o g) - k
  BY <1>1, <1>2
<1>5. QED
  BY <1>2, <1>3, <1>4, NewestOfByIndex

(* The oldest of the first list are dropped. *)
LEMMA NewestOfDrop ==
    ASSUME NEW s \in Seq(Nat), NEW t \in Seq(Nat), NewestOf(s, t), NEW m \in 0..Len(s)
    PROVE  /\ SubSeq(s, m + 1, Len(s)) \in Seq(Nat)
           /\ NewestOf(SubSeq(s, m + 1, Len(s)), t)
<1> DEFINE u == SubSeq(s, m + 1, Len(s))
<1>1. PICK k \in 0..Len(t) : Len(s) = Len(t) - k /\ \A i \in 1..Len(s) : s[i] = t[i + k]
  BY NewestOfByIndex
<1>2. /\ u \in Seq(Nat) /\ Len(u) = Len(s) - m /\ \A i \in 1..Len(s) - m : u[i] = s[i + m]
      /\ Len(s) \in Nat /\ Len(t) \in Nat
  OBVIOUS
<1> HIDE DEF u
<1>3. k + m \in 0..Len(t) /\ Len(u) = Len(t) - (k + m)
  BY <1>1, <1>2
<1>4. ASSUME NEW i \in 1..Len(u) PROVE u[i] = t[i + (k + m)]
  <2>1. i + m \in 1..Len(s) /\ (i + m) + k = i + (k + m)
    BY <1>1, <1>2
  <2>2. QED
    BY <1>1, <1>2, <2>1
<1>5. NewestOf(u, t)
  BY <1>2, <1>3, <1>4, NewestOfByIndex
<1>6. QED
  BY <1>2, <1>5 DEF u

(* Both lists lose as many of their oldest. *)
LEMMA NewestOfDropBoth ==
    ASSUME NEW s \in Seq(Nat), NEW t \in Seq(Nat), NewestOf(s, t), NEW m \in 0..Len(s)
    PROVE  NewestOf(SubSeq(s, m + 1, Len(s)), SubSeq(t, m + 1, Len(t)))
<1> DEFINE u == SubSeq(s, m + 1, Len(s))
           v == SubSeq(t, m + 1, Len(t))
<1>1. PICK k \in 0..Len(t) : Len(s) = Len(t) - k /\ \A i \in 1..Len(s) : s[i] = t[i + k]
  BY NewestOfByIndex
<1>2. /\ u \in Seq(Nat) /\ Len(u) = Len(s) - m /\ \A i \in 1..Len(s) - m : u[i] = s[i + m]
      /\ Len(s) \in Nat /\ Len(t) \in Nat
  OBVIOUS
<1>3. /\ v \in Seq(Nat) /\ Len(v) = Len(t) - m /\ \A i \in 1..Len(t) - m : v[i] = t[i + m]
      /\ m \in 0..Len(t)
  BY <1>1
<1> HIDE DEF u, v
<1>4. k \in 0..Len(v) /\ Len(u) = Len(v) - k
  BY <1>1, <1>2, <1>3
<1>5. ASSUME NEW i \in 1..Len(u) PROVE u[i] = v[i + k]
  <2>1. /\ i \in 1..Len(s) - m /\ i + k \in 1..Len(t) - m /\ i + m \in 1..Len(s)
        /\ (i + k) + m = (i + m) + k
    BY <1>1, <1>2
  <2>2. QED
    BY <1>1, <1>2, <1>3, <2>1
<1>6. NewestOf(u, v)
  BY <1>2, <1>3, <1>4, <1>5, NewestOfByIndex
<1>7. QED
  BY <1>6 DEF u, v

(* receive_raw: the mempool stays an end of what the node has been         *)
(* offered, and drops nothing while everything fits.                       *)
LEMMA ReceiveAllNewest ==
    ASSUME NEW s \in Seq(Nat), NEW t \in Seq(Nat), NEW g \in Seq(Nat), NewestOf(s, t)
    PROVE  /\ NewestOf(ReceiveAll(s, g), t \o g)
           /\ Len(s \o g) <= MempoolCap => ReceiveAll(s, g) = s \o g
<1> DEFINE all == s \o g
           excess == Len(all) - MempoolCap
<1>1. all \in Seq(Nat) /\ t \o g \in Seq(Nat) /\ Len(all) \in Nat /\ MempoolCap \in Nat
  BY MempoolAssumption
<1>2. NewestOf(all, t \o g)
  BY NewestOfConcat
<1>3. ReceiveAll(s, g) = IF excess > 0 THEN SubSeq(all, excess + 1, Len(all)) ELSE all
  BY DEF ReceiveAll
<1> HIDE DEF all
<1>4. CASE excess > 0
  <2>1. excess \in 0..Len(all) /\ ~ (Len(all) <= MempoolCap)
    BY <1>1, <1>4
  <2>2. NewestOf(SubSeq(all, excess + 1, Len(all)), t \o g)
    BY <1>1, <1>2, <2>1, NewestOfDrop
  <2>3. QED
    BY <1>3, <1>4, <2>1, <2>2 DEF all
<1>5. CASE ~ (excess > 0)
  BY <1>2, <1>3, <1>5 DEF all
<1>6. QED
  BY <1>4, <1>5

-----------------------------------------------------------------------------
(* MempoolMirrorsNode and FifoOrder, and what they rest on: the node and   *)
(* the messages collected for it never exceed its window, whichever way a  *)
(* collection ends, and nothing is left of a collection that is over.      *)
Offered(a) ==
    /\ task[a] = "none" => window[a] = <<>> /\ inflight[a] = <<>>
    /\ task[a] \notin {"collect", "offer"} => got[a] = <<>>
    /\ task[a] \in {"collect", "wait"} =>
          Len(window[a]) + req[a].n <= Window[a] /\ Len(got[a]) < req[a].n
    /\ Len(window[a]) + Len(got[a]) <= Window[a]
    /\ InOrder(window[a] \o got[a], cur[a])
    /\ link[a] /\ task[a] # "panic" => NewestOf(inflight[a], window[a])
    /\ Window[a] <= MempoolCap => /\ task[a] # "panic"
                                  /\ link[a] => inflight[a] = window[a]

AllOffered == \A a \in Addr : Offered(a)

(* The types of what belongs to one peer. *)
Typed(a) ==
    /\ window[a] \in Seq(Nat) /\ got[a] \in Seq(Nat) /\ inflight[a] \in Seq(Nat)
    /\ Len(window[a]) \in Nat /\ Len(got[a]) \in Nat /\ Len(inflight[a]) \in Nat
    /\ window[a] \o got[a] \in Seq(Nat)
    /\ Len(window[a] \o got[a]) = Len(window[a]) + Len(got[a])
    /\ Window[a] \in Nat /\ cur[a] \in Int /\ cur[a] + 1 \in Nat
    /\ req[a].n \in Nat /\ MempoolCap \in Nat

LEMMA PeerTypes == ASSUME Inv, NEW a \in Addr PROVE Typed(a)
<1>1. /\ window[a] \in Seq(Nat) /\ got[a] \in Seq(Nat) /\ inflight[a] \in Seq(Nat)
      /\ req[a].n \in Nat
  BY DEF Inv, TypeOK, PeerTypeOK
<1>2. Window[a] \in Nat /\ MempoolCap \in Nat
  BY PeerAssumption, MempoolAssumption
<1>3. cur[a] \in Nat \cup {-1}
  BY DEF Inv, TypeOK, BroadcastTypeOK
<1>4. cur[a] \in Int /\ cur[a] + 1 \in Nat
  <2>1. CASE cur[a] \in Nat
    BY <2>1
  <2>2. CASE cur[a] = -1
    BY <2>2
  <2>3. QED
    BY <1>3, <2>1, <2>2
<1>5. QED
  BY <1>1, <1>2, <1>4, LenProperties, ConcatProperties DEF Typed

(* The lists of a node that has nothing. *)
LEMMA EmptyLists ==
    /\ Len(<<>>) = 0 /\ <<>> \o <<>> = <<>> /\ NewestOf(<<>>, <<>>)
    /\ \A c \in Int : InOrder(<<>>, c)
<1>1. Len(<<>>) = 0 /\ <<>> \o <<>> = <<>>
  OBVIOUS
<1>2. NewestOf(<<>>, <<>>)
  <2>1. SubSeq(<<>>, 0 + 1, Len(<<>>)) = <<>>
    BY <1>1, SubSeqEmpty
  <2>2. QED
    BY <1>1, <2>1 DEF NewestOf
<1>3. \A c \in Int : InOrder(<<>>, c)
  BY DEF InOrder
<1>4. QED
  BY <1>1, <1>2, <1>3

(* Nothing but the control point and the receiver of a peer change. *)
LEMMA OfferedKept ==
    ASSUME Inv, Inv', NEW a \in Addr, Offered(a),
           window'[a] = window[a], got'[a] = got[a], inflight'[a] = inflight[a],
           link'[a] = link[a], req'[a] = req[a],
           cur[a] <= cur'[a] \/ window[a] \o got[a] = <<>>,
           \/ task'[a] = task[a]
           \/ task[a] \in {"collect", "wait"} /\ task'[a] = "offer"
           \/ task[a] = "collect" /\ task'[a] = "wait" /\ got[a] = <<>>
           \/ task[a] = "next" /\ task'[a] = "ended"
    PROVE  Offered(a)'
<1>1. InOrder(window[a] \o got[a], cur'[a])
  <2> DEFINE msgs == window[a] \o got[a]
  <2>0. cur'[a] \in Int
    BY DEF Inv, TypeOK, BroadcastTypeOK
  <2>1. msgs \in Seq(Nat) /\ cur[a] \in Int /\ cur'[a] \in Int /\ Len(msgs) \in Nat
    BY <2>0, PeerTypes, LenProperties DEF Typed
  <2>2. InOrder(msgs, cur[a])
    BY DEF Offered
  <2> HIDE DEF msgs
  <2>3. CASE cur[a] <= cur'[a]
    <3>1. \A i \in 1..Len(msgs) : msgs[i] = msgs[i + 0]
      BY <2>1
    <3>2. Len(msgs) + 0 <= Len(msgs)
      BY <2>1
    <3>3. QED
      BY <2>1, <2>2, <2>3, <3>1, <3>2, InOrderPart DEF msgs
  <2>4. CASE msgs = <<>>
    BY <2>1, <2>4, EmptyLists DEF msgs
  <2>5. QED
    BY <2>3, <2>4 DEF msgs
<1>2. QED
  BY <1>1 DEF Offered

(* Peer::init: a peer that is connected has nothing yet. *)
LEMMA OfferedConnect ==
    ASSUME Inv, Inv', NEW a \in Addr, Offered(a), Connect(a), task[a] = "none"
    PROVE  Offered(a)'
<1>1. PeerTypeOK
  BY DEF Inv, TypeOK
<1>2. /\ window'[a] = <<>> /\ got'[a] = <<>> /\ inflight'[a] = <<>>
      /\ task'[a] = "next" /\ req'[a] = req[a]
  BY <1>1 DEF Offered, Connect, PeerTypeOK
<1>3. Window[a] \in Nat /\ cur'[a] \in Int
  BY PeerTypes DEF Typed, Inv, TypeOK, BroadcastTypeOK
<1>4. QED
  BY <1>2, <1>3, EmptyLists DEF Offered

(* The steps that touch the lists of a peer, one by one. *)
LEMMA OfferedReceive ==
    ASSUME Inv, NEW a \in Addr, Offered(a), Receive(a) PROVE Offered(a)'
<1>0. Typed(a)
  BY PeerTypes
<1>1. /\ cur' = [cur EXCEPT ![a] = cur[a] + 1] /\ task[a] \in {"collect", "wait"}
      /\ got' = [got EXCEPT ![a] = Append(got[a], cur[a] + 1)]
      /\ UNCHANGED <<link, req, inflight, window>>
      /\ IF task[a] = "wait" \/ Len(Append(got[a], cur[a] + 1)) = req[a].n
         THEN task' = [task EXCEPT ![a] = "offer"]
         ELSE task' = task
  BY DEF Receive, TakeNext, Pushed, Collected
<1>2. /\ got'[a] = Append(got[a], cur[a] + 1) /\ cur'[a] = cur[a] + 1
      /\ task'[a] = "offer" \/ (task'[a] = "collect" /\ Len(got'[a]) # req[a].n)
  BY <1>1 DEF Inv, TypeOK, PeerTypeOK, BroadcastTypeOK
<1>3. Len(got'[a]) = Len(got[a]) + 1
  BY <1>0, <1>2 DEF Typed
<1>4. Len(window[a]) + req[a].n <= Window[a] /\ Len(got[a]) < req[a].n
  BY <1>1 DEF Offered
<1>5. /\ Len(window[a]) + Len(got'[a]) <= Window[a]
      /\ task'[a] = "collect" => Len(got'[a]) < req[a].n
  <2>1. /\ window \in [Addr -> Seq(Nat)] /\ got \in [Addr -> Seq(Nat)]
        /\ Window \in [Addr -> Nat] /\ req[a].n \in Nat
    BY <1>0, PeerAssumption DEF Typed, Inv, TypeOK, PeerTypeOK
  <2>2. QED
    BY <1>2, <1>3, <1>4, <2>1
<1>6. InOrder(window[a] \o got'[a], cur'[a])
  <2>1. InOrder(window[a] \o got[a], cur[a])
    BY DEF Offered
  <2>2. QED
    BY <1>0, <1>2, <2>1, InOrderAppend DEF Typed
<1>7. QED
  BY <1>1, <1>2, <1>4, <1>5, <1>6 DEF Offered

(* The list of a peer without the messages collected for its node, and the *)
(* messages without what the node has.                                     *)
LEMMA InOrderParts ==
    ASSUME Inv, NEW a \in Addr, Offered(a)
    PROVE  InOrder(window[a], cur[a]) /\ InOrder(got[a], cur[a])
<1>0. Typed(a)
  BY PeerTypes
<1> DEFINE w == window[a]
           g == got[a]
           msgs == w \o g
<1>1. /\ \A i \in 1..Len(w) : msgs[i] = w[i]
      /\ \A i \in 1..Len(g) : msgs[i + Len(w)] = g[i]
      /\ w \in Seq(Nat) /\ g \in Seq(Nat) /\ msgs \in Seq(Nat) /\ Len(msgs) = Len(w) + Len(g)
      /\ Len(w) \in Nat /\ Len(g) \in Nat /\ cur[a] \in Int
  <2>1. w \in Seq(Nat) /\ g \in Seq(Nat) /\ cur[a] \in Int
    BY <1>0 DEF Typed
  <2> HIDE DEF w, g
  <2>2. QED
    BY <2>1
<1>2. InOrder(msgs, cur[a])
  BY DEF Offered
<1> HIDE DEF w, g, msgs
<1>3. InOrder(w, cur[a])
  <2>1. \A i \in 1..Len(w) : w[i] = msgs[i + 0]
    BY <1>1
  <2>2. Len(w) + 0 <= Len(msgs) /\ cur[a] <= cur[a]
    BY <1>1
  <2>3. QED
    BY <1>1, <1>2, <2>1, <2>2, InOrderPart
<1>4. InOrder(g, cur[a])
  <2>1. Len(g) + Len(w) <= Len(msgs) /\ cur[a] <= cur[a]
    BY <1>1
  <2>2. QED
    BY <1>1, <1>2, <2>1, InOrderPart
<1>5. QED
  BY <1>3, <1>4 DEF w, g

(* The future of the collection is dropped with its messages. *)
LEMMA OfferedOuterTimeout ==
    ASSUME Inv, NEW a \in Addr, Offered(a), OuterTimeout(a) PROVE Offered(a)'
<1>0. Typed(a)
  BY PeerTypes
<1>1. /\ got'[a] = <<>> /\ task'[a] = "offer"
      /\ UNCHANGED <<cur, link, req, inflight, window>> /\ task[a] # "panic"
  BY DEF OuterTimeout, Collected, Inv, TypeOK, PeerTypeOK
<1>2. Len(window[a]) + Len(got[a]) <= Window[a]
  BY DEF Offered
<1>3. Len(window[a]) + Len(<<>>) <= Window[a]
  <2>1. window \in [Addr -> Seq(Nat)] /\ got \in [Addr -> Seq(Nat)] /\ Window \in [Addr -> Nat]
    BY PeerAssumption DEF Inv, TypeOK, PeerTypeOK
  <2>2. QED
    BY <1>2, <2>1, EmptyLists
<1>4. InOrder(window[a] \o <<>>, cur[a])
  BY <1>0, InOrderParts, ConcatEmptySeq DEF Typed
<1>5. QED
  BY <1>1, <1>3, <1>4 DEF Offered

(* The reply, to a node that is there or not. *)
LEMMA OfferedOffer ==
    ASSUME Inv, NEW a \in Addr, Offered(a), Offer(a) PROVE Offered(a)'
<1>0. Typed(a)
  BY PeerTypes
<1>1. /\ got'[a] = <<>> /\ task'[a] = "next" /\ UNCHANGED <<cur, link>> /\ task[a] = "offer"
      /\ inflight'[a] = ReceiveAll(inflight[a], got[a])
      /\ window'[a] = IF link[a] THEN window[a] \o got[a] ELSE window[a]
  BY DEF Offer, PropagateTxs, Inv, TypeOK, PeerTypeOK
<1>2. Len(window[a]) + Len(got[a]) <= Window[a]
  BY DEF Offered
<1>3. Len(window'[a]) + Len(got'[a]) <= Window[a]
  <2>1. window \in [Addr -> Seq(Nat)] /\ got \in [Addr -> Seq(Nat)] /\ Window \in [Addr -> Nat]
    BY PeerAssumption DEF Inv, TypeOK, PeerTypeOK
  <2>2. Len(window'[a]) \in {Len(window[a]), Len(window[a]) + Len(got[a])} /\ Len(got'[a]) = 0
    BY <1>0, <1>1, EmptyLists DEF Typed
  <2>3. QED
    BY <1>2, <2>1, <2>2
<1>4. CASE link[a]
  <2>1. (window[a] \o got[a]) \o <<>> = window[a] \o got[a]
    BY <1>0, ConcatEmptySeq DEF Typed
  <2>2. InOrder(window'[a] \o got'[a], cur'[a])
    BY <1>1, <1>4, <2>1 DEF Offered
  <2>3. /\ NewestOf(inflight[a], window[a])
        /\ Window[a] <= MempoolCap => inflight[a] = window[a]
    BY <1>1, <1>4 DEF Offered
  <2>4. /\ NewestOf(inflight'[a], window'[a])
        /\ Len(inflight[a] \o got[a]) <= MempoolCap => inflight'[a] = inflight[a] \o got[a]
    <3>1. window[a] \in Seq(Nat) /\ got[a] \in Seq(Nat) /\ inflight[a] \in Seq(Nat)
      BY <1>0 DEF Typed
    <3>2. /\ NewestOf(ReceiveAll(inflight[a], got[a]), window[a] \o got[a])
          /\ Len(inflight[a] \o got[a]) <= MempoolCap =>
                ReceiveAll(inflight[a], got[a]) = inflight[a] \o got[a]
      BY <2>3, <3>1, ReceiveAllNewest
    <3>3. QED
      BY <1>1, <1>4, <3>2
  <2>5. Window[a] <= MempoolCap => inflight'[a] = window'[a]
    <3>1. Window[a] <= MempoolCap => Len(window[a] \o got[a]) <= MempoolCap
      <4>1. /\ window \in [Addr -> Seq(Nat)] /\ got \in [Addr -> Seq(Nat)] /\ Window \in [Addr -> Nat]
            /\ Len(window[a] \o got[a]) = Len(window[a]) + Len(got[a]) /\ MempoolCap \in Nat
        BY <1>0, PeerAssumption DEF Typed, Inv, TypeOK, PeerTypeOK
      <4>2. QED
        BY <1>2, <4>1
    <3>2. QED
      BY <1>1, <1>4, <2>3, <2>4, <3>1
  <2>6. QED
    BY <1>1, <1>3, <2>2, <2>4, <2>5 DEF Offered
<1>5. CASE ~ link[a]
  <2>1. InOrder(window[a] \o <<>>, cur[a])
    BY <1>0, InOrderParts, ConcatEmptySeq DEF Typed
  <2>2. QED
    BY <1>1, <1>3, <1>5, <2>1 DEF Offered
<1>6. QED
  BY <1>4, <1>5

(* Acknowledging drops the oldest from what the node waits for, and as     *)
(* many from the mempool.                                                  *)
LEMMA OfferedRequest ==
    ASSUME Inv, NEW a \in Addr, Offered(a), RequestTxIds(a) PROVE Offered(a)'
<1>0. Typed(a)
  BY PeerTypes
<1>1. /\ UNCHANGED <<cur, link, got>> /\ link[a] /\ task[a] = "next" /\ got[a] = <<>>
      /\ NewestOf(inflight[a], window[a])
      /\ Window[a] <= MempoolCap => inflight[a] = window[a]
  BY DEF RequestTxIds, Offered
<1> DEFINE rest(ack) == SubSeq(window[a], ack + 1, Len(window[a]))
           mempool(ack) == SubSeq(inflight[a], ack + 1, Len(inflight[a]))
<1> DEFINE Answered(ack, n) ==
             /\ window' = [window EXCEPT ![a] = rest(ack)]
             /\ IF Drainable(inflight[a], ack)
                THEN /\ inflight' = [inflight EXCEPT ![a] = mempool(ack)]
                     /\ \E kind \in {"block", "nonblock"} :
                          req' = [req EXCEPT ![a] = [kind |-> kind, n |-> n]]
                     /\ task' = [task EXCEPT ![a] = IF n = 0 THEN "offer" ELSE "collect"]
                ELSE task' = [task EXCEPT ![a] = "panic"] /\ UNCHANGED <<inflight, req>>
<1>a. PICK ack \in 0..Len(window[a]) : \E n \in 0..Window[a] - Len(rest(ack)) : Answered(ack, n)
  BY DEF RequestTxIds, Acknowledge
<1>2. PICK n \in 0..Window[a] - Len(rest(ack)) : Answered(ack, n)
  BY <1>a
<1>3. /\ rest(ack) \in Seq(Nat) /\ Len(rest(ack)) = Len(window[a]) - ack
      /\ \A i \in 1..Len(window[a]) - ack : rest(ack)[i] = window[a][i + ack]
  BY <1>0, DropProperties DEF Typed
<1>4. ack \in 0..Len(inflight[a]) => NewestOf(mempool(ack), rest(ack))
  BY <1>0, <1>1, NewestOfDropBoth DEF Typed
<1>5. inflight[a] = window[a] => mempool(ack) = rest(ack)
  OBVIOUS
<1> HIDE DEF rest, mempool
<1>6. window'[a] = rest(ack)
  BY <1>2 DEF Inv, TypeOK, PeerTypeOK
<1>7. InOrder(window'[a] \o got'[a], cur'[a])
  <2>1. rest(ack) \o <<>> = rest(ack)
    BY <1>3, ConcatEmptySeq
  <2>2. Len(rest(ack)) + ack <= Len(window[a]) /\ ack \in Nat /\ cur[a] <= cur[a]
    BY <1>0, <1>3 DEF Typed
  <2>3. \A i \in 1..Len(rest(ack)) : rest(ack)[i] = window[a][i + ack]
    BY <1>3
  <2>4. InOrder(rest(ack), cur[a])
    BY <1>0, <1>3, <2>2, <2>3, InOrderParts, InOrderPart DEF Typed
  <2>5. QED
    BY <1>1, <1>6, <2>1, <2>4
<1>8. n \in Nat /\ Len(rest(ack)) + n <= Window[a] /\ Len(rest(ack)) \in Nat
  BY <1>0, <1>2, <1>3 DEF Typed
<1>9. got'[a] = <<>> /\ Len(got'[a]) = 0 /\ Len(window'[a]) + Len(got'[a]) <= Window[a]
  BY <1>0, <1>1, <1>6, <1>8, EmptyLists DEF Typed
<1>10. CASE Drainable(inflight[a], ack)
  <2>1. inflight' = [inflight EXCEPT ![a] = mempool(ack)]
    BY <1>2, <1>10
  <2>2. inflight'[a] = mempool(ack)
    BY <2>1 DEF Inv, TypeOK, PeerTypeOK
  <2>3. task'[a] = IF n = 0 THEN "offer" ELSE "collect"
    BY <1>2, <1>10 DEF Inv, TypeOK, PeerTypeOK
  <2>4. req'[a].n = n
    BY <1>2, <1>10 DEF Inv, TypeOK, PeerTypeOK
  <2>5. task'[a] = "collect" => Len(window'[a]) + req'[a].n <= Window[a] /\ Len(got'[a]) < req'[a].n
    BY <1>6, <1>8, <1>9, <2>3, <2>4
  <2>6. NewestOf(inflight'[a], window'[a])
    <3>1. ack \in 0..Len(inflight[a])
      BY <1>0, <1>2, <1>10 DEF Drainable, Typed
    <3>2. QED
      BY <1>4, <1>6, <2>2, <3>1
  <2>7. Window[a] <= MempoolCap => inflight'[a] = window'[a]
    BY <1>1, <1>5, <1>6, <2>2
  <2>8. task'[a] \in {"offer", "collect"}
    BY <2>3
  <2>9. QED
    BY <1>7, <1>9, <2>5, <2>6, <2>7, <2>8 DEF Offered
<1>11. CASE ~ Drainable(inflight[a], ack)
  <2>1. task'[a] = "panic"
    BY <1>2, <1>11 DEF Inv, TypeOK, PeerTypeOK
  <2>2. ~ (Window[a] <= MempoolCap)
    BY <1>0, <1>1, <1>2, <1>11 DEF Drainable, Typed
  <2>3. QED
    BY <1>7, <1>9, <2>1, <2>2 DEF Offered
<1>12. QED
  BY <1>10, <1>11

(* The connection breaks. *)
LEMMA OfferedLoseLink ==
    ASSUME Inv, NEW a \in Addr, Offered(a), LoseLink(a) PROVE Offered(a)'
<1>0. Typed(a)
  BY PeerTypes
<1>1. /\ UNCHANGED <<cur, task, req, got, inflight>> /\ window'[a] = <<>> /\ ~ link'[a]
      /\ task[a] = "none" => inflight[a] = <<>>
  BY DEF LoseLink, Inv, TypeOK, PeerTypeOK, Offered
<1>2. InOrder(window'[a] \o got'[a], cur'[a])
  BY <1>0, <1>1, InOrderParts, ConcatEmptySeq DEF Typed
<1>3. /\ Len(window[a]) + Len(got[a]) <= Window[a]
      /\ task[a] \in {"collect", "wait"} => Len(window[a]) + req[a].n <= Window[a]
  BY DEF Offered
<1>4. /\ Len(window'[a]) + Len(got'[a]) <= Window[a]
      /\ task[a] \in {"collect", "wait"} => Len(window'[a]) + req[a].n <= Window[a]
  <2>1. /\ window \in [Addr -> Seq(Nat)] /\ got \in [Addr -> Seq(Nat)]
        /\ Window \in [Addr -> Nat] /\ req[a].n \in Nat
    BY <1>0, PeerAssumption DEF Typed, Inv, TypeOK, PeerTypeOK
  <2>2. Len(window'[a]) = 0 /\ Len(got'[a]) = Len(got[a])
    BY <1>1, EmptyLists
  <2>3. QED
    BY <1>3, <2>1, <2>2
<1>5. QED
  BY <1>1, <1>2, <1>4 DEF Offered

(* A step of one peer leaves the others alone. *)
LEMMA TaskFrame ==
    ASSUME Inv, NEW a \in Addr, TaskStep(a) \/ RequestTxIds(a) \/ LoseLink(a),
           NEW b \in Addr, b # a
    PROVE  /\ window'[b] = window[b] /\ got'[b] = got[b] /\ inflight'[b] = inflight[b]
           /\ link'[b] = link[b] /\ req'[b] = req[b] /\ task'[b] = task[b]
<1>0. PeerTypeOK
  BY DEF Inv, TypeOK
<1>1. CASE Receive(a)
  BY <1>0, <1>1 DEF Receive, Collected, PeerTypeOK
<1>2. CASE ReceiveLagged(a)
  BY <1>0, <1>2 DEF ReceiveLagged, Collected, PeerTypeOK
<1>3. CASE InnerTimeout(a)
  BY <1>0, <1>3 DEF InnerTimeout, Collected, PeerTypeOK
<1>4. CASE OuterTimeout(a)
  BY <1>0, <1>4 DEF OuterTimeout, Collected, PeerTypeOK
<1>5. CASE Tick(a)
  BY <1>5 DEF Tick
<1>6. CASE Offer(a)
  BY <1>0, <1>6 DEF Offer, PropagateTxs, PeerTypeOK
<1>7. CASE NextRequestError(a)
  BY <1>0, <1>7 DEF NextRequestError, PeerTypeOK
<1>8. CASE RequestTxIds(a)
  BY <1>0, <1>8 DEF RequestTxIds, PeerTypeOK
<1>9. CASE LoseLink(a)
  BY <1>0, <1>9 DEF LoseLink, PeerTypeOK
<1>10. QED
  BY <1>1, <1>2, <1>3, <1>4, <1>5, <1>6, <1>7, <1>8, <1>9 DEF TaskStep

(* A step of any peer. *)
LEMMA OfferedPeer ==
    ASSUME Inv, Inv', AllOffered, NEW a \in Addr, TaskStep(a) \/ RequestTxIds(a) \/ LoseLink(a)
    PROVE  AllOffered'
<1>1. \A b \in Addr : cur[b] \in Int /\ cur'[b] \in Int
  BY DEF Inv, TypeOK, BroadcastTypeOK
<1>2. \A b \in Addr : cur[b] <= cur'[b]
  BY <1>1, TaskEffect
<1>3. ASSUME NEW b \in Addr, b # a PROVE Offered(b)'
  <2>1. Offered(b)
    BY DEF AllOffered
  <2>2. QED
    BY <1>2, <1>3, <2>1, TaskFrame, OfferedKept
<1>4. Offered(a)'
  <2>0. Offered(a) /\ PeerTypeOK
    BY DEF AllOffered, Inv, TypeOK
  <2>1. CASE Receive(a)
    BY <2>0, <2>1, OfferedReceive
  <2>2. CASE OuterTimeout(a)
    BY <2>0, <2>2, OfferedOuterTimeout
  <2>3. CASE Offer(a)
    BY <2>0, <2>3, OfferedOffer
  <2>4. CASE RequestTxIds(a)
    BY <2>0, <2>4, OfferedRequest
  <2>5. CASE LoseLink(a)
    BY <2>0, <2>5, OfferedLoseLink
  <2>6. CASE ReceiveLagged(a)
    <3>1. /\ UNCHANGED <<link, req, inflight, window>> /\ task[a] \in {"collect", "wait"}
          /\ IF task[a] = "wait" THEN got'[a] = <<>> /\ task'[a] = "offer"
                                 ELSE got' = got /\ task' = task
      BY <2>0, <2>6 DEF ReceiveLagged, Collected, PeerTypeOK
    <3>2. got'[a] = got[a] /\ (task'[a] = task[a] \/ task'[a] = "offer")
      BY <2>0, <3>1 DEF Offered
    <3>3. QED
      BY <1>2, <2>0, <3>1, <3>2, OfferedKept
  <2>7. CASE InnerTimeout(a)
    <3>1. /\ UNCHANGED <<link, req, inflight, window>> /\ task[a] = "collect"
          /\ got'[a] = got[a]
          /\ task'[a] = "offer" \/ (task'[a] = "wait" /\ got[a] = <<>>)
      BY <2>0, <2>7 DEF InnerTimeout, Collected, PeerTypeOK
    <3>2. QED
      BY <1>2, <2>0, <3>1, OfferedKept
  <2>8. CASE Tick(a)
    BY <1>2, <2>0, <2>8, OfferedKept DEF Tick
  <2>9. CASE NextRequestError(a)
    <3>1. /\ UNCHANGED <<link, req, got, inflight, window>>
          /\ task[a] = "next" /\ task'[a] = "ended"
      BY <2>0, <2>9 DEF NextRequestError, PeerTypeOK
    <3>2. QED
      BY <1>2, <2>0, <3>1, OfferedKept
  <2>10. QED
    BY <2>1, <2>2, <2>3, <2>4, <2>5, <2>6, <2>7, <2>8, <2>9 DEF TaskStep
<1>5. QED
  BY <1>3, <1>4 DEF AllOffered

(* Every other step connects a peer that has no task yet, or leaves the    *)
(* peers alone.                                                            *)
LEMMA OfferedNewPeer ==
    ASSUME Inv, Inv', AllOffered, NEW a \in Addr, Connect(a), task[a] = "none",
           \A b \in Addr : b # a => cur'[b] = cur[b]
    PROVE  AllOffered'
<1>1. Offered(a)'
  BY OfferedConnect DEF AllOffered
<1>2. ASSUME NEW b \in Addr, b # a PROVE Offered(b)'
  <2>1. /\ UNCHANGED <<req, got, inflight, window>> /\ link'[b] = link[b] /\ task'[b] = task[b]
    BY <1>2 DEF Connect, Inv, TypeOK, PeerTypeOK
  <2>2. cur[b] <= cur'[b] /\ Offered(b)
    BY <1>2 DEF Inv, TypeOK, BroadcastTypeOK, AllOffered
  <2>3. QED
    BY <2>1, <2>2, OfferedKept
<1>3. QED
  BY <1>1, <1>2 DEF AllOffered

(* A step that at most moves a receiver. *)
LEMMA OfferedQuiet ==
    ASSUME Inv, Inv', AllOffered, UNCHANGED peerVars,
           \A b \in Addr : cur[b] <= cur'[b] \/ task[b] = "none"
    PROVE  AllOffered'
<1> SUFFICES ASSUME NEW b \in Addr PROVE Offered(b)'
  BY DEF AllOffered
<1>1. UNCHANGED <<task, link, req, got, inflight, window>> /\ Offered(b)
  BY DEF peerVars, AllOffered
<1>2. task[b] = "none" => window[b] \o got[b] = <<>>
  BY <1>1, EmptyLists DEF Offered
<1>3. QED
  BY <1>1, <1>2, OfferedKept

(* Every step keeps AllOffered. *)
LEMMA OfferedStep == Inv /\ Inv' /\ AllOffered /\ [Next]_vars => AllOffered'
<1> SUFFICES ASSUME Inv, Inv', AllOffered, [Next]_vars PROVE AllOffered'
  OBVIOUS
<1>0. /\ cur \in [Addr -> Nat \cup {-1}] /\ head \in Nat
      /\ \A b \in Addr : cur[b] \in Int /\ cur[b] <= cur[b] /\ cur[b] <= head
  BY DEF Inv, TypeOK, BroadcastTypeOK, PeersOK
<1>1. ASSUME UNCHANGED <<cur, peerVars>> PROVE AllOffered'
  BY <1>0, <1>1, OfferedQuiet
<1>2. CASE Connecting
  <2>1. PICK a \in Addr : InitPeer(a)
    BY <1>2 DEF Connecting
  <2>2. Connect(a) /\ a \notin alive /\ cur' = [cur EXCEPT ![a] = head]
    BY <2>1 DEF InitPeer, Subscribe
  <2>3. task[a] = "none"
    BY <2>2 DEF Inv, PeersOK
  <2>4. \A b \in Addr : b # a => cur'[b] = cur[b]
    BY <1>0, <2>2
  <2>5. QED
    BY <2>2, <2>3, <2>4, OfferedNewPeer
<1>3. CASE InitFails \/ SpawnStages \/ IngestStep \/ CheckError \/ UNCHANGED vars
  BY <1>1, <1>3 DEF InitFails, SpawnStages, IngestStep, ScheduleUnit, SendTx, CheckError, vars
<1>4. CASE Discovery(DiscoveryStep)
  <2>1. CASE SchedulePeers \/ ShareAnswer \/ ShareError \/ ShareNoAgency \/ AddKnown
    BY <1>1, <2>1 DEF SchedulePeers, ShareAnswer, ShareError, ShareNoAgency, AddKnown
  <2>2. CASE AddPeer
    <3>1. UNCHANGED peerVars /\ cur' = [cur EXCEPT ![target] = head]
      BY <2>2 DEF AddPeer, Subscribe
    <3>2. \A b \in Addr : cur[b] <= cur'[b]
      BY <1>0, <3>1
    <3>3. QED
      BY <3>1, <3>2, OfferedQuiet
  <2>3. CASE AddPeerOk
    <3>1. /\ target \in Addr /\ Connect(target) /\ task[target] = "none"
          /\ cur' = cur
      BY <2>3 DEF AddPeerOk, Inv, TypeOK, ManagerTypeOK, PeersOK
    <3>2. QED
      BY <3>1, OfferedNewPeer
  <2>4. CASE AddPeerFails
    <3>1. /\ UNCHANGED peerVars /\ cur' = [cur EXCEPT ![target] = -1]
          /\ target \in Addr /\ task[target] = "none"
      BY <2>4 DEF AddPeerFails, Unsubscribe, Inv, TypeOK, ManagerTypeOK, PeersOK
    <3>2. \A b \in Addr : cur[b] <= cur'[b] \/ task[b] = "none"
      BY <1>0, <3>1
    <3>3. QED
      BY <3>1, <3>2, OfferedQuiet
  <2>5. QED
    BY <1>4, <2>1, <2>2, <2>3, <2>4 DEF Discovery, DiscoveryStep, StageStep
<1>5. CASE BreakLink
  BY <1>5, OfferedPeer DEF BreakLink, PeerActs
<1>6. CASE \E a \in Addr : PeerActs(a, TaskStep(a) \/ RequestTxIds(a))
  BY <1>6, OfferedPeer DEF PeerActs
<1>7. QED
  BY <1>2, <1>3, <1>4, <1>5, <1>6 DEF Next

LEMMA OfferedInit == Init => AllOffered
<1> SUFFICES ASSUME Init, NEW a \in Addr PROVE Offered(a)
  BY DEF AllOffered
<1>1. /\ task[a] = "none" /\ window[a] = <<>> /\ got[a] = <<>> /\ inflight[a] = <<>>
      /\ cur[a] = -1 /\ Window[a] \in Nat
  BY PeerAssumption DEF Init, PeerInit, BroadcastInit
<1>2. QED
  BY <1>1, EmptyLists DEF Offered

LEMMA OfferedHolds == Spec => []AllOffered
<1>1. QED
  BY OfferedInit, OfferedStep, InvHolds, PTL DEF Spec

(* The mempool of a peer is always an end of what its node has not         *)
(* acknowledged, and all of it if the node's window is within the capacity *)
(* of the mempool: then drain of src/network/mempool.rs never panics, and  *)
(* every transaction the node asks for is found - whatever the timeouts of *)
(* collect_transactions drop and whatever the receiver misses.             *)
THEOREM MempoolMirrors == Spec => []MempoolMirrorsNode
<1>1. AllOffered => MempoolMirrorsNode
  <2> SUFFICES ASSUME AllOffered, NEW a \in Addr
               PROVE  /\ link[a] /\ task[a] # "panic" => NewestOf(inflight[a], window[a])
                      /\ Window[a] <= MempoolCap =>
                            /\ task[a] # "panic"
                            /\ link[a] => /\ inflight[a] = window[a]
                                          /\ \A ids \in SUBSET Elements(window[a]) :
                                                ToSend(a, ids) = ids
    BY DEF MempoolMirrorsNode
  <2>1. /\ link[a] /\ task[a] # "panic" => NewestOf(inflight[a], window[a])
        /\ Window[a] <= MempoolCap => /\ task[a] # "panic"
                                      /\ link[a] => inflight[a] = window[a]
    BY DEF AllOffered, Offered
  <2>2. inflight[a] = window[a] =>
          \A ids \in SUBSET Elements(window[a]) : ToSend(a, ids) = ids
    BY DEF ToSend, FindInflight
  <2>3. QED
    BY <2>1, <2>2
<1>2. QED
  BY <1>1, OfferedHolds, PTL

(* A node is offered transactions in the order in which ingest has         *)
(* broadcast them and none twice, although collect_transactions may be     *)
(* cancelled or lag at any point (src/network/peer.rs).                    *)
THEOREM OfferedInOrder == Spec => []FifoOrder
<1>1. AllOffered => FifoOrder
  BY DEF AllOffered, Offered, InOrder, FifoOrder
<1>2. QED
  BY <1>1, OfferedHolds, PTL

=============================================================================
