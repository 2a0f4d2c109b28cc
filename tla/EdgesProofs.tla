---------------------------- MODULE EdgesProofs ----------------------------
(***************************************************************************)
(* Proofs about the edges of the own vertices in Rounds.                   *)
(*                                                                         *)
(* ConnectionsQuorum: the round was complete when it was started, and the  *)
(* DAG only grows; what has to be shown is that every round on its way to  *)
(* the proposal, through both channels and both goroutines, was started    *)
(* so.  OwnNotForgotten follows an own vertex from its delivery to the     *)
(* queue and from there to an edge.                                        *)
(***************************************************************************)
EXTENDS RoundsProofs, FiniteSetTheorems

\* Rounds that have been started and for which the DAG has the strong edges.
Ready(s) ==
    {r \in 1..MaxRound : /\ r <= s.currRound
                         /\ r = 1 \/ Cardinality(InRound(s.DAG, r - 1)) >= N - F}
ReadyBlock(s) == {b \in P!BlockInfo : b.Round \in Ready(s)}

Certified(s) == s.DAG \cup s.virtualVertexBuffer \subseteq s.certs

Quorums ==
    /\ Certified(node)
    /\ announcing \in Seq(Ready(node)) /\ tryProposeChan \in Seq(Ready(node))
    /\ sending \in Seq(ReadyBlock(node)) /\ proposeChan \in Seq(ReadyBlock(node))
    /\ ConnectionsQuorum

----------------------------------------------------------------------------
(***************************************************************************)
(* The functions of the node.                                              *)
(***************************************************************************)
LEMMA FiniteRounds ==
    /\ IsFiniteSet(Vertex) /\ N \in Nat /\ F \in Nat
    /\ \A r \in Nat, vs \in SUBSET Vertex :
          /\ IsFiniteSet(InRound(vs, r)) /\ Cardinality(InRound(vs, r)) \in 0..N
<1>1. N \in Nat /\ F \in Nat /\ MaxVertexRound \in Nat
  BY RoundsAssumption
<1>2. IsFiniteSet(Node) /\ Cardinality(Node) = N /\ IsFiniteSet(1..MaxVertexRound)
  BY <1>1, FS_Interval DEF Node
<1>3. IsFiniteSet(Vertex)
  BY <1>2, FS_Product DEF Vertex
<1>4. ASSUME NEW r \in Nat, NEW vs \in SUBSET Vertex
      PROVE  IsFiniteSet(InRound(vs, r)) /\ Cardinality(InRound(vs, r)) \in 0..N
  <2>1. IsFiniteSet({r}) /\ Cardinality({r}) = 1
    BY FS_Singleton
  <2>2. IsFiniteSet({r} \X Node) /\ Cardinality({r} \X Node) = 1 * N
    BY <1>2, <2>1, FS_Product
  <2>3. InRound(vs, r) \in SUBSET ({r} \X Node)
    BY DEF InRound, Vertex
  <2>4. IsFiniteSet(InRound(vs, r)) /\ Cardinality(InRound(vs, r)) <= Cardinality({r} \X Node)
    BY <2>2, <2>3, FS_Subset
  <2>5. Cardinality(InRound(vs, r)) \in Nat
    BY <2>4, FS_CardinalityType
  <2> QED
    BY <1>1, <2>2, <2>4, <2>5
<1> QED
  BY <1>1, <1>3, <1>4

LEMMA CurrRound ==
    ASSUME NEW s, NodeOK(s)
    PROVE  s.currRound \in Nat /\ s.currRound >= 1
  BY Bounds DEF NodeOK, NodeState

LEMMA ReadyGrows ==
    ASSUME NEW s, NEW t, NodeOK(s), NodeOK(t), s.DAG \subseteq t.DAG, s.currRound <= t.currRound
    PROVE  Ready(s) \subseteq Ready(t) /\ ReadyBlock(s) \subseteq ReadyBlock(t)
<1>1. /\ s.currRound \in Nat /\ t.currRound \in Nat
      /\ \A r \in Ready(s) : r \in 1..MaxRound /\ r \in Nat /\ r <= t.currRound
  BY Bounds DEF Ready, NodeOK, NodeState
<1>2. ASSUME NEW r \in Ready(s), r # 1 PROVE r \in Ready(t)
  <2>1. r \in 1..MaxRound /\ r - 1 \in Nat /\ Cardinality(InRound(s.DAG, r - 1)) >= N - F
    BY <1>1, <1>2, Bounds DEF Ready
  <2>2. s.DAG \in SUBSET Vertex /\ t.DAG \in SUBSET Vertex
    BY DEF NodeOK, NodeState
  <2>3. InRound(s.DAG, r - 1) \in SUBSET InRound(t.DAG, r - 1)
    BY DEF InRound
  <2>4. IsFiniteSet(InRound(t.DAG, r - 1))
    BY <2>1, <2>2, FiniteRounds
  <2>5. Cardinality(InRound(s.DAG, r - 1)) <= Cardinality(InRound(t.DAG, r - 1))
    BY <2>3, <2>4, FS_Subset
  <2>6. /\ Cardinality(InRound(s.DAG, r - 1)) \in 0..N
        /\ Cardinality(InRound(t.DAG, r - 1)) \in 0..N
    BY <2>1, <2>2, FiniteRounds
  <2>7. Cardinality(InRound(t.DAG, r - 1)) >= N - F
    BY <2>1, <2>5, <2>6, FiniteRounds
  <2> QED
    BY <1>1, <2>1, <2>7 DEF Ready
<1>3. Ready(s) \subseteq Ready(t)
  BY <1>1, <1>2 DEF Ready
<1> QED
  BY <1>3 DEF ReadyBlock

\* What a function of the node may change.
Advances(s, t) ==
    /\ s.DAG \subseteq t.DAG /\ s.certs \subseteq t.certs /\ Certified(t)
    /\ s.currRound <= t.currRound
    /\ t.currRound = s.currRound \/ t.currRound \in Ready(t)

LEMMA AdvancesComposed ==
    ASSUME NEW s, NEW t, NEW u, NodeOK(s), NodeOK(t), NodeOK(u), Advances(s, t), Advances(t, u)
    PROVE  Advances(s, u)
<1>1. s.currRound \in Nat /\ t.currRound \in Nat /\ u.currRound \in Nat
  BY CurrRound
<1>2. s.currRound <= u.currRound
  BY <1>1 DEF Advances
<1> QED
  BY <1>2, ReadyGrows DEF Advances

LEMMA tryAddDAGAdvances ==
    ASSUME NEW s, NodeOK(s), Certified(s), NEW r \in 0..MaxVertexRound,
           NEW vs \in SUBSET Vertex, vs \subseteq s.certs
    PROVE  Advances(s, tryAddDAG(s, vs, r))
<1> DEFINE new == vs \ s.DAG
           t == [s EXCEPT !.DAG = @ \cup new, !.weakCerts = @ \ new,
                          !.virtualVertexBuffer = @ \ new]
           u == newRound(t, r + 1)
<1>1. /\ t.currRound = s.currRound /\ t.DAG = s.DAG \cup new /\ t.certs = s.certs
      /\ t.virtualVertexBuffer \subseteq s.virtualVertexBuffer
      /\ NodeOK(t) /\ t \in NodeState
  BY DEF NodeOK, NodeState
<1>2. tryAddDAG(s, vs, r) = IF new # {} /\ RoundOver(t, r) THEN u ELSE t
  BY DEF tryAddDAG
<1> HIDE DEF t
<1>3. Advances(s, t)
  BY <1>1, CurrRound DEF Advances, Certified
<1>4. NodeOK(u) /\ Raises(t, u, r + 1)
  <2>1. r + 1 \in 1..MaxRound
    BY Bounds
  <2> QED
    BY <1>1, <2>1, newRoundOK
<1>5. ASSUME RoundOver(t, r) PROVE Advances(t, u)
  <2>1. /\ u.DAG = t.DAG /\ u.certs = t.certs /\ u.virtualVertexBuffer = t.virtualVertexBuffer
    BY <1>1 DEF newRound, NodeState
  <2>2. r + 1 \in 1..MaxRound /\ (r + 1) - 1 = r /\ r \in Nat
    BY Bounds
  <2>3. Cardinality(InRound(t.DAG, r)) \in 0..N
    BY <1>1, <2>2, FiniteRounds DEF NodeState
  <2>4. Cardinality(InRound(t.DAG, r)) >= N - F
    BY <1>5, <2>3, FiniteRounds DEF RoundOver
  <2>5. u.currRound = r + 1 => r + 1 \in Ready(u)
    BY <2>1, <2>2, <2>4 DEF Ready
  <2> HIDE DEF u
  <2>6. t.currRound <= u.currRound
    BY <1>1, <1>4, <2>2, CurrRound DEF Raises
  <2> QED
    BY <1>3, <1>4, <2>1, <2>5, <2>6 DEF Advances, Certified, Raises
<1> HIDE DEF u
<1> QED
  BY <1>1, <1>2, <1>3, <1>4, <1>5, AdvancesComposed

LEMMA TentAdvances ==
    ASSUME NEW s, NodeOK(s), Certified(s), NEW v \in Vertex
    PROVE  Advances(s, Tent(s, v))
  BY CurrRound DEF Advances, Certified, Tent, NodeOK, NodeState

LEMMA onReceiveDeliverAdvances ==
    ASSUME NEW s, NodeOK(s), Certified(s), NEW v \in Vertex
    PROVE  Advances(s, onReceiveDeliver(s, v))
<1> DEFINE late == v[1] < s.currRound \/ (v[1] = s.currRound /\ Own(v))
           t == [s EXCEPT !.HRBCTerminated = @ \cup {v}, !.certs = @ \cup {v}]
           u == IF late /\ v \notin t.hasWeak
                THEN [t EXCEPT !.weakWait = @ \cup {v}, !.hasWeak = @ \cup {v}] ELSE t
<1>1. /\ NodeOK(t) /\ t.currRound = s.currRound /\ t.DAG = s.DAG /\ t.certs = s.certs \cup {v}
      /\ t.virtualVertexBuffer = s.virtualVertexBuffer
  BY DEF NodeOK, NodeState
<1>2. onReceiveDeliver(s, v) = tryAddDAG(u, {v}, v[1])
  BY DEF onReceiveDeliver
<1> HIDE DEF t, late
<1>3. /\ NodeOK(u) /\ u.currRound = s.currRound /\ u.DAG = s.DAG /\ u.certs = s.certs \cup {v}
      /\ u.virtualVertexBuffer = s.virtualVertexBuffer
  BY <1>1 DEF NodeOK, NodeState
<1> HIDE DEF u
<1>4. Advances(s, u) /\ Certified(u)
  BY <1>3, CurrRound DEF Advances, Certified
<1>5. v[1] \in 0..MaxVertexRound /\ {v} \in SUBSET Vertex /\ {v} \subseteq u.certs
  BY <1>3, Bounds
<1>6. NodeOK(tryAddDAG(u, {v}, v[1])) /\ Advances(u, tryAddDAG(u, {v}, v[1]))
  BY <1>3, <1>4, <1>5, tryAddDAGOK, tryAddDAGAdvances
<1> QED
  BY <1>2, <1>3, <1>4, <1>6, AdvancesComposed

LEMMA addQCsAdvances ==
    ASSUME NEW s, NodeOK(s), Certified(s), NEW r \in 0..MaxVertexRound, NEW qcs \in SUBSET Vertex
    PROVE  Advances(s, addQCs(s, qcs, r))
<1> DEFINE t == [s EXCEPT !.certs = @ \cup qcs,
                          !.virtualVertexBuffer = @ \cup (qcs \ (s.DAG \cup s.valDAG))]
<1>1. /\ NodeOK(t) /\ t.currRound = s.currRound /\ t.DAG = s.DAG /\ t.certs = s.certs \cup qcs
      /\ t.virtualVertexBuffer \subseteq s.virtualVertexBuffer \cup qcs
  BY DEF NodeOK, NodeState
<1>2. addQCs(s, qcs, r) = tryAddDAG(t, qcs \cap s.valDAG, r)
  BY DEF addQCs
<1> HIDE DEF t
<1>3. Advances(s, t) /\ Certified(t)
  BY <1>1, CurrRound DEF Advances, Certified
<1>4. LET u == tryAddDAG(t, qcs \cap s.valDAG, r) IN NodeOK(u) /\ Advances(t, u)
  BY <1>1, <1>3, tryAddDAGOK, tryAddDAGAdvances
<1> QED
  BY <1>1, <1>2, <1>3, <1>4, AdvancesComposed

LEMMA handleValAdvances ==
    ASSUME NEW s, NodeOK(s), Certified(s), NEW v \in Vertex, NEW echoes
    PROVE  Advances(s, handleVal(s, v, echoes))
<1> DEFINE t == [s EXCEPT !.valDAG = @ \cup {v}]
           u == IF echoes = "none" THEN t ELSE Tent(t, v)
           w == IF v \in u.virtualVertexBuffer THEN tryAddDAG(u, {v}, v[1]) ELSE u
<1>1. NodeOK(t) /\ Advances(s, t) /\ Certified(t)
  BY CurrRound DEF NodeOK, NodeState, Advances, Certified
<1>2. handleVal(s, v, echoes) = IF echoes = "full" THEN onReceiveDeliver(w, v) ELSE w
  BY DEF handleVal
<1> HIDE DEF t
<1>3. NodeOK(u) /\ Advances(t, u)
  BY <1>1, TentOK, TentAdvances DEF Advances
<1>4. Advances(s, u) /\ Certified(u)
  BY <1>1, <1>3, AdvancesComposed DEF Advances
<1> HIDE DEF u
<1>5. v[1] \in 0..MaxVertexRound /\ {v} \in SUBSET Vertex
  BY Bounds
<1>6. NodeOK(w) /\ Advances(u, w)
  <2>1. CASE v \in u.virtualVertexBuffer
    <3>1. {v} \subseteq u.certs
      BY <1>4, <2>1 DEF Certified
    <3> QED
      BY <1>3, <1>4, <1>5, <2>1, <3>1, tryAddDAGOK, tryAddDAGAdvances
  <2>2. CASE v \notin u.virtualVertexBuffer
    BY <1>3, <1>4, <2>2, CurrRound DEF Advances
  <2> QED
    BY <2>1, <2>2
<1> HIDE DEF w
<1>7. Advances(s, w) /\ Certified(w)
  BY <1>3, <1>4, <1>6, AdvancesComposed DEF Advances
<1>8. NodeOK(onReceiveDeliver(w, v)) /\ Advances(w, onReceiveDeliver(w, v))
  BY <1>6, <1>7, onReceiveDeliverOK, onReceiveDeliverAdvances
<1> QED
  BY <1>2, <1>6, <1>7, <1>8, AdvancesComposed

----------------------------------------------------------------------------
(***************************************************************************)
(* The rounds on their way.                                                *)
(***************************************************************************)
LEMMA Pieces ==
    ASSUME NEW S, NEW s \in Seq(S), NEW c \in Nat, c <= Len(s)
    PROVE  SubSeq(s, 1, c) \in Seq(S) /\ SubSeq(s, c + 1, Len(s)) \in Seq(S)
<1>1. Len(s) \in Nat /\ \A i \in 1..Len(s) : s[i] \in S
  BY LenProperties, ElementOfSeq
<1>2. \A i \in 1..c : s[i] \in S
  BY <1>1
<1>3. \A i \in (c + 1)..Len(s) : s[i] \in S
  BY <1>1
<1> QED
  BY <1>1, <1>2, <1>3, SubSeqProperties

LEMMA newRoundAnnounces ==
    ASSUME NEW S, tryProposeChan \in Seq(S), NEW rounds \in Seq(S), P!newRound(rounds)
    PROVE  tryProposeChan' \in Seq(S) /\ announcing' \in Seq(S)
<1> DEFINE all == tryProposeChan \o rounds
           room == IF Len(all) <= TryCap THEN Len(all) ELSE TryCap
<1>1. all \in Seq(S) /\ Len(all) \in Nat
  <2>1. all \in Seq(S)
    BY ConcatProperties
  <2> QED
    BY <2>1, LenProperties
<1>2. tryProposeChan' = SubSeq(all, 1, room) /\ announcing' = SubSeq(all, room + 1, Len(all))
  BY DEF P!newRound
<1>3. room \in Nat /\ room <= Len(all)
  BY <1>1, ChannelsAssumption DEF P!ProposerAssumption
<1> HIDE DEF all, room
<1> QED
  BY <1>1, <1>2, <1>3, Pieces

LEMMA HandleQuorums ==
    ASSUME NodeOK(node), Quorums, NEW t, NEW u, NodeOK(t), NodeOK(u),
           Advances(node, t), Advances(t, u), Handle(t, u)
    PROVE  Quorums'
<1> DEFINE rounds == Started(node, t, u)
<1>1. /\ P!MainIdle /\ node' = u /\ UNCHANGED <<conns, sending, proposeChan>>
      /\ \/ UNCHANGED <<announcing, tryProposeChan>>
         \/ P!newRound(rounds)
  BY DEF Handle, otherProposerVars
<1>2. Advances(node, u)
  BY AdvancesComposed
<1>3. /\ Ready(node) \subseteq Ready(u) /\ ReadyBlock(node) \subseteq ReadyBlock(u)
      /\ Ready(t) \subseteq Ready(u)
  BY <1>2, ReadyGrows DEF Advances
<1>4. /\ announcing \in Seq(Ready(u)) /\ tryProposeChan \in Seq(Ready(u))
      /\ sending \in Seq(ReadyBlock(u)) /\ proposeChan \in Seq(ReadyBlock(u))
  BY <1>3, SeqMonotonic DEF Quorums
<1>5. rounds \in Seq(Ready(u))
  <2> DEFINE first == IF t.currRound # node.currRound THEN <<t.currRound>> ELSE << >>
             second == IF u.currRound # t.currRound THEN <<u.currRound>> ELSE << >>
  <2>1. first \in Seq(Ready(u)) /\ second \in Seq(Ready(u))
    BY <1>3 DEF Advances
  <2>2. rounds = first \o second
    BY DEF Started
  <2> HIDE DEF first, second, rounds
  <2> QED
    BY <2>1, <2>2, ConcatProperties
<1> HIDE DEF rounds
<1>6. announcing' \in Seq(Ready(u)) /\ tryProposeChan' \in Seq(Ready(u))
  BY <1>1, <1>4, <1>5, newRoundAnnounces
<1>7. ConnectionsQuorum'
  BY <1>1, <1>2 DEF Quorums, ConnectionsQuorum, Proposed, Advances
<1>8. Ready(u) = Ready(node)' /\ ReadyBlock(u) = ReadyBlock(node)'
  BY <1>1 DEF Ready, ReadyBlock
<1>9. Certified(node)'
  BY <1>1, <1>2 DEF Advances, Certified
<1> QED
  BY <1>1, <1>4, <1>6, <1>7, <1>8, <1>9 DEF Quorums

LEMMA ReceiveValQuorums ==
    ASSUME IInv, Quorums, NEW v \in Vertex, ReceiveVal(v)
    PROVE  Quorums'
<1>1. PICK qcs \in Parents(v[1]), echoes \in {"none", "tent", "full"} :
         LET t == addQCs(node, qcs, v[1] - 1) IN Handle(t, handleVal(t, v, echoes))
  BY DEF ReceiveVal
<1> DEFINE t == addQCs(node, qcs, v[1] - 1)
           u == handleVal(t, v, echoes)
<1>2. v[1] \in 1..MaxVertexRound /\ v[1] - 1 \in 0..MaxVertexRound
  BY Bounds
<1>3. qcs \in SUBSET Vertex
  <2>1. CASE v[1] = 1
    BY <2>1 DEF Parents
  <2>2. CASE v[1] # 1
    <3>1. v[1] - 1 \in 1..MaxVertexRound
      BY <1>2, <2>2, Bounds
    <3>2. qcs \subseteq {v[1] - 1} \X Node
      BY <2>2 DEF Parents
    <3> QED
      BY <3>1, <3>2 DEF Vertex
  <2> QED
    BY <2>1, <2>2
<1>4. NodeOK(node) /\ Certified(node)
  BY DEF IInv, Quorums
<1>5. NodeOK(t) /\ Advances(node, t)
  BY <1>2, <1>3, <1>4, addQCsOK, addQCsAdvances
<1>6. Handle(t, u)
  BY <1>1
<1> HIDE DEF t
<1>7. NodeOK(u) /\ Advances(t, u)
  BY <1>5, handleValOK, handleValAdvances DEF Advances
<1> HIDE DEF u
<1> QED
  BY <1>4, <1>5, <1>6, <1>7, HandleQuorums

LEMMA ReceiveEchoQuorums ==
    ASSUME IInv, Quorums, NEW v \in Vertex, ReceiveEcho(v)
    PROVE  Quorums'
<1>1. NodeOK(node) /\ Certified(node) /\ Advances(node, node)
  BY CurrRound DEF IInv, Quorums, Advances
<1>2. CASE Handle(node, onReceiveDeliver(node, v))
  BY <1>1, <1>2, onReceiveDeliverOK, onReceiveDeliverAdvances, HandleQuorums
<1>3. CASE Handle(node, Tent(node, v))
  BY <1>1, <1>3, TentOK, TentAdvances, HandleQuorums
<1> QED
  BY <1>2, <1>3 DEF ReceiveEcho

----------------------------------------------------------------------------
(***************************************************************************)
(* The queue hands out no more weak edges than there is room for: those    *)
(* that are used come before one another in different numbers.             *)
(***************************************************************************)
LEMMA BeforeIsOrder ==
    /\ \A u, v \in Vertex : u = v \/ Before(u, v) \/ Before(v, u)
    /\ \A u \in Vertex : ~Before(u, u)
    /\ \A u, v, w \in Vertex : Before(u, v) /\ Before(v, w) => Before(u, w)
<1>1. \A v \in Vertex : v[1] \in Nat /\ v[2] \in Nat /\ v = <<v[1], v[2]>>
  BY RoundsAssumption DEF Vertex, Node
<1> QED
  BY <1>1 DEF Before

LEMMA WeakRoom ==
    ASSUME NEW s, NodeOK(s), NEW hasConn, NEW room \in Nat
    PROVE  Cardinality(Popped(s, hasConn, room) \cap Usable(s, hasConn)) \in 0..room
<1> DEFINE usable == Usable(s, hasConn)
           earlier(v) == {u \in usable : Before(u, v)}
           used == Popped(s, hasConn, room) \cap usable
           f == [v \in used |-> Cardinality(earlier(v))]
<1>1. usable \in SUBSET Vertex /\ IsFiniteSet(usable)
  <2>1. usable \in SUBSET Vertex
    BY DEF Usable, NodeOK, NodeState
  <2> QED
    BY <2>1, FiniteRounds, FS_Subset
<1>2. \A v : IsFiniteSet(earlier(v)) /\ Cardinality(earlier(v)) \in Nat
  <2>1. \A v : earlier(v) \in SUBSET usable
    OBVIOUS
  <2> QED
    BY <1>1, <2>1, FS_Subset, FS_CardinalityType
<1>3. \A v \in used : v \in usable /\ Cardinality(earlier(v)) < room
  BY DEF Popped
<1> HIDE DEF usable, used
<1>4. ASSUME NEW v \in used, NEW w \in used, Before(v, w)
      PROVE  Cardinality(earlier(v)) < Cardinality(earlier(w))
  <2>1. earlier(v) \in SUBSET earlier(w)
    BY <1>1, <1>3, <1>4, BeforeIsOrder
  <2>2. v \in earlier(w) /\ v \notin earlier(v)
    BY <1>1, <1>3, <1>4, BeforeIsOrder
  <2>3. /\ Cardinality(earlier(v)) <= Cardinality(earlier(w))
        /\ Cardinality(earlier(w)) = Cardinality(earlier(v)) => earlier(w) = earlier(v)
    BY <1>2, <2>1, FS_Subset
  <2> QED
    BY <1>2, <2>2, <2>3
<1>5. f \in [used -> 0..(room - 1)]
  <2>1. \A v \in used : Cardinality(earlier(v)) \in 0..(room - 1)
    BY <1>2, <1>3
  <2> HIDE DEF earlier
  <2> QED
    BY <2>1
<1>6. \A v, w \in used : v # w => f[v] # f[w]
  <2> SUFFICES ASSUME NEW v \in used, NEW w \in used, v # w PROVE f[v] # f[w]
    OBVIOUS
  <2>1. Before(v, w) \/ Before(w, v)
    BY <1>1, <1>3, BeforeIsOrder
  <2>2. Cardinality(earlier(v)) # Cardinality(earlier(w))
    BY <1>2, <1>4, <2>1
  <2> QED
    BY <2>2
<1> HIDE DEF f
<1>7. f \in Injection(used, 0..(room - 1))
  BY <1>5, <1>6 DEF Injection, IsInjective
<1>8. IsFiniteSet(0..(room - 1)) /\ Cardinality(0..(room - 1)) = room
  BY FS_Interval
<1>9. IsFiniteSet(used) /\ Cardinality(used) <= room
  BY <1>7, <1>8, FS_Injection
<1> QED
  BY <1>9, FS_CardinalityType DEF used, usable

LEMMA ProposeQuorums ==
    ASSUME IInv, Quorums, P!ProposerTypeOK, Propose
    PROVE  Quorums'
<1> DEFINE block == Head(proposeChan)
           r == block.Round
           e == Edges(node, r)
           c == [proposed |-> TRUE, at |-> e.at, strong |-> e.strong, weak |-> e.weak]
<1>1. /\ node' = [node EXCEPT !.hasConn = e.hasConn, !.weakWait = @ \ e.popped]
      /\ conns' = [conns EXCEPT ![r] = c]
      /\ proposeChan # << >> /\ proposeChan' = Tail(proposeChan)
      /\ UNCHANGED <<announcing, tryProposeChan, sending>>
  BY DEF Propose, P!Propose
<1>2. block \in ReadyBlock(node) /\ proposeChan' \in Seq(ReadyBlock(node))
  BY <1>1, HeadTailProperties DEF Quorums
<1>3. r \in Ready(node) /\ r \in 1..MaxRound
  BY <1>2 DEF ReadyBlock, Ready
<1> HIDE DEF block
<1>4. /\ e.strong \cup e.weak \subseteq node.certs
      /\ r # 1 => /\ Cardinality(e.strong) >= N - F
                  /\ Cardinality(e.strong) + Cardinality(e.weak) <= N
  <2> DEFINE strong == IF r = 1 THEN {} ELSE getConnections(node, r)
             hasConn == node.hasConn \cup {v[1] : v \in {x \in strong : Own(x)}}
             popped == IF r = 1 THEN {} ELSE Popped(node, hasConn, N - Cardinality(strong))
  <2>1. e = [proposed |-> TRUE, at |-> node.currRound, strong |-> strong,
             weak |-> popped \cap Usable(node, hasConn), popped |-> popped, hasConn |-> hasConn]
    BY DEF Edges
  <2> HIDE DEF e
  <2>2. strong \subseteq node.certs
    BY DEF getConnections, InRound, Quorums, Certified
  <2>3. popped \cap Usable(node, hasConn) \subseteq node.certs
    BY DEF Usable
  <2>4. ASSUME r # 1
        PROVE  /\ Cardinality(strong) >= N - F
               /\ Cardinality(strong) + Cardinality(popped \cap Usable(node, hasConn)) <= N
    <3>1. strong = InRound(node.DAG, r - 1) /\ r - 1 \in Nat
      BY <1>3, <2>4, Bounds DEF getConnections
    <3>2. Cardinality(strong) >= N - F
      BY <1>3, <2>4, <3>1 DEF Ready
    <3>3. node.DAG \in SUBSET Vertex
      BY DEF IInv, NodeOK, NodeState
    <3>4. Cardinality(strong) \in 0..N /\ N \in Nat
      BY <3>1, <3>3, FiniteRounds
    <3> DEFINE room == N - Cardinality(strong)
    <3>5. room \in Nat
      BY <3>4
    <3>6. popped = Popped(node, hasConn, room)
      BY <2>4
    <3> HIDE DEF strong, hasConn, popped, room
    <3>7. Cardinality(Popped(node, hasConn, room) \cap Usable(node, hasConn)) \in 0..room
      BY <3>5, WeakRoom DEF IInv
    <3>8. room = N - Cardinality(strong)
      BY DEF room
    <3> QED
      BY <3>2, <3>4, <3>5, <3>6, <3>7, <3>8
  <2> HIDE DEF strong, hasConn, popped
  <2> QED
    BY <2>1, <2>2, <2>3, <2>4
<1> HIDE DEF e
<1>5. /\ node'.DAG = node.DAG /\ node'.certs = node.certs /\ node'.currRound = node.currRound
      /\ node'.virtualVertexBuffer = node.virtualVertexBuffer
  BY <1>1 DEF IInv, NodeOK, NodeState
<1>6. Ready(node)' = Ready(node) /\ ReadyBlock(node)' = ReadyBlock(node)
  BY <1>5 DEF Ready, ReadyBlock
<1>7. Certified(node)'
  BY <1>5 DEF Quorums, Certified
<1>8. conns' = [x \in 1..MaxRound |-> IF x = r THEN c ELSE conns[x]]
  BY <1>1 DEF IInv
<1>9. ConnectionsQuorum'
  <2> SUFFICES ASSUME NEW x \in 2..MaxRound, conns'[x].proposed
               PROVE  /\ Cardinality(conns'[x].strong) >= N - F
                      /\ conns'[x].strong \cup conns'[x].weak \subseteq node'.certs
                      /\ Cardinality(conns'[x].strong) + Cardinality(conns'[x].weak) <= N
    BY DEF ConnectionsQuorum, Proposed
  <2>1. x \in 1..MaxRound /\ x # 1
    BY Bounds
  <2>2. CASE x = r
    BY <1>4, <1>5, <1>8, <2>1, <2>2
  <2>3. CASE x # r
    <3>1. conns'[x] = conns[x]
      BY <1>8, <2>1, <2>3
    <3> QED
      BY <1>5, <3>1 DEF Quorums, ConnectionsQuorum, Proposed
  <2> QED
    BY <2>2, <2>3
<1> QED
  BY <1>1, <1>2, <1>6, <1>7, <1>9 DEF Quorums

\* The block that getBatch cuts is of the round it is asked for.
LEMMA getBatchRound ==
    ASSUME P!ProposerTypeOK', NEW r \in Ready(node), P!getBatch(r), UNCHANGED node
    PROVE  sending' \in Seq(ReadyBlock(node))
<1>1. PICK block : sending' = <<block>> /\ block.Round = r
  BY DEF P!getBatch
<1>2. block \in P!BlockInfo
  <2>1. sending' \in Seq(P!BlockInfo) /\ Len(sending') = 1
    BY <1>1 DEF P!ProposerTypeOK, P!BlockInfo, P!Round, P!Request
  <2> QED
    BY <1>1, <2>1, ElementOfSeq
<1> QED
  BY <1>1, <1>2 DEF ReadyBlock

LEMMA ProposeLoopQuorums ==
    ASSUME IInv, Quorums, P!ProposerTypeOK, P!ProposerTypeOK', ProposeLoop
    PROVE  Quorums'
<1>1. UNCHANGED <<node, conns>>
  BY DEF ProposeLoop
<1>2. /\ Ready(node)' = Ready(node) /\ ReadyBlock(node)' = ReadyBlock(node)
      /\ Certified(node)' /\ ConnectionsQuorum'
  BY <1>1 DEF Ready, ReadyBlock, Certified, ConnectionsQuorum, Proposed, Quorums
<1>3. /\ announcing \in Seq(Ready(node)) /\ tryProposeChan \in Seq(Ready(node))
      /\ sending \in Seq(ReadyBlock(node)) /\ proposeChan \in Seq(ReadyBlock(node))
  BY DEF Quorums
<1> SUFFICES /\ announcing' \in Seq(Ready(node)) /\ tryProposeChan' \in Seq(Ready(node))
             /\ sending' \in Seq(ReadyBlock(node)) /\ proposeChan' \in Seq(ReadyBlock(node))
  BY <1>2 DEF Quorums
<1>4. ASSUME NEW k \in P!Request, P!ReceiveRequest(k)
      PROVE  UNCHANGED <<announcing, tryProposeChan, sending, proposeChan>>
  BY <1>4 DEF P!ReceiveRequest
<1>5. CASE P!TimerFires
  <2>1. UNCHANGED <<announcing, tryProposeChan, proposeChan>>
    BY <1>5 DEF P!TimerFires
  <2>2. 1 \in Ready(node)
    BY Bounds, CurrRound DEF Ready, IInv
  <2>3. P!getBatch(1) \/ UNCHANGED sending
    BY <1>5 DEF P!TimerFires
  <2> QED
    BY <1>1, <1>3, <2>1, <2>2, <2>3, getBatchRound
<1>6. CASE P!TakeRequest
  BY <1>3, <1>6 DEF P!TakeRequest
<1>7. CASE P!TakeRound
  <2>1. /\ tryProposeChan # << >> /\ tryProposeChan' = Tail(tryProposeChan)
        /\ P!getBatch(Head(tryProposeChan)) /\ UNCHANGED <<announcing, proposeChan>>
    BY <1>7 DEF P!TakeRound
  <2>2. Head(tryProposeChan) \in Ready(node) /\ tryProposeChan' \in Seq(Ready(node))
    BY <1>3, <2>1, HeadTailProperties
  <2> QED
    BY <1>1, <1>3, <2>1, <2>2, getBatchRound
<1>8. CASE P!SendBlock
  <2>1. /\ proposeChan' = proposeChan \o sending /\ sending' = << >>
        /\ UNCHANGED <<announcing, tryProposeChan>>
    BY <1>8 DEF P!SendBlock
  <2> QED
    BY <1>3, <2>1, ConcatProperties
<1>9. CASE P!Announce
  <2>1. /\ announcing # << >> /\ tryProposeChan' = Append(tryProposeChan, Head(announcing))
        /\ announcing' = Tail(announcing) /\ UNCHANGED <<sending, proposeChan>>
    BY <1>9 DEF P!Announce
  <2>2. Head(announcing) \in Ready(node) /\ announcing' \in Seq(Ready(node))
    BY <1>3, <2>1, HeadTailProperties
  <2> QED
    BY <1>3, <2>1, <2>2, AppendProperties
<1> QED
  BY <1>3, <1>4, <1>5, <1>6, <1>7, <1>8, <1>9 DEF ProposeLoop

LEMMA InitQuorums == RoundsInit => Quorums
<1> SUFFICES ASSUME RoundsInit PROVE Quorums
  OBVIOUS
<1>1. Certified(node)
  BY DEF RoundsInit, Certified
<1>2. announcing = << >> /\ tryProposeChan = << >> /\ sending = << >> /\ proposeChan = << >>
  BY DEF RoundsInit, P!ProposerInit
<1>3. ConnectionsQuorum
  BY DEF RoundsInit, ConnectionsQuorum, Proposed, NotProposed
<1> QED
  BY <1>1, <1>2, <1>3 DEF Quorums

LEMMA NextQuorums ==
    /\ IInv /\ Quorums /\ P!ProposerTypeOK /\ P!ProposerTypeOK'
    /\ [RoundsNext]_roundsVars
    => Quorums'
<1> SUFFICES ASSUME IInv, Quorums, P!ProposerTypeOK, P!ProposerTypeOK', [RoundsNext]_roundsVars
             PROVE  Quorums'
  OBVIOUS
<1>1. ASSUME NEW v \in Vertex, ReceiveVal(v) \/ ReceiveEcho(v) PROVE Quorums'
  BY <1>1, ReceiveValQuorums, ReceiveEchoQuorums
<1>2. CASE UNCHANGED roundsVars
  BY <1>2 DEF roundsVars, otherProposerVars, Quorums, Certified, Ready, ReadyBlock,
              ConnectionsQuorum, Proposed
<1> QED
  BY <1>1, <1>2, ProposeQuorums, ProposeLoopQuorums DEF RoundsNext

(***************************************************************************)
(* Every vertex of a round after the first is proposed with N-F certified  *)
(* vertices of the round before, with certified ones only, and with no     *)
(* more than N edges, whatever the node handled since it started the round.*)
(***************************************************************************)
THEOREM EdgesAreQuorums == RoundsSpec => []ConnectionsQuorum
<1>1. Quorums => ConnectionsQuorum
  BY DEF Quorums
<1> QED
  BY <1>1, RoundsAreProposed, InitIInv, NextIInv, InitQuorums, NextQuorums, PTL DEF RoundsSpec

----------------------------------------------------------------------------
(***************************************************************************)
(* OwnNotForgotten.  An own vertex that is delivered is proposed, so that  *)
(* it is not of a later round than the node is in, and is queued.  It      *)
(* leaves the queue for a weak edge, or because hasConn has its round,     *)
(* which means that it has a strong one.                                   *)
(***************************************************************************)
Strongly(v) == \E r \in 2..MaxRound : Proposed(r) /\ v \in conns[r].strong
Weakly(v)   == \E r \in 2..MaxRound : Proposed(r) /\ v \in conns[r].weak

Kept(s) ==
    /\ s.weakWait \subseteq s.certs
    /\ \A v \in s.HRBCTerminated : Own(v) => v \in s.hasWeak

Remembered ==
    /\ Kept(node)
    /\ \A r \in 1..MaxRound : Proposed(r) =>
          /\ r <= node.currRound
          /\ \A v \in conns[r].strong : v[1] = r - 1
          /\ \A v \in conns[r].weak : Own(v) => v[1] < r
    /\ \A v \in node.hasWeak : Own(v) => v \in node.weakWait \/ Strongly(v) \/ Weakly(v)
    /\ \A v \in Vertex : Own(v) => (v[1] \in node.hasConn <=> Strongly(v))
    /\ \A v \in Vertex : Own(v) => ~(Strongly(v) /\ Weakly(v))

\* What a function of the node leaves of the queue of weak edges.
Keeps(s, t) ==
    /\ Kept(t) /\ s.currRound <= t.currRound
    /\ t.hasConn = s.hasConn /\ s.weakWait \subseteq t.weakWait
    /\ \A x \in t.hasWeak : x \in s.hasWeak \/ x \in t.weakWait

LEMMA KeepsComposed ==
    ASSUME NEW s, NEW t, NEW u, NodeOK(s), NodeOK(t), NodeOK(u), Keeps(s, t), Keeps(t, u)
    PROVE  Keeps(s, u)
<1>1. s.currRound \in Nat /\ t.currRound \in Nat /\ u.currRound \in Nat
  BY CurrRound
<1>2. s.currRound <= u.currRound
  BY <1>1 DEF Keeps
<1> QED
  BY <1>2 DEF Keeps

LEMMA tryAddDAGKeeps ==
    ASSUME NEW s, NodeOK(s), Kept(s), NEW r \in 0..MaxVertexRound, NEW vs \in SUBSET Vertex
    PROVE  Keeps(s, tryAddDAG(s, vs, r))
<1> DEFINE new == vs \ s.DAG
           t == [s EXCEPT !.DAG = @ \cup new, !.weakCerts = @ \ new,
                          !.virtualVertexBuffer = @ \ new]
           u == newRound(t, r + 1)
<1>1. /\ t.hasConn = s.hasConn /\ t.weakWait = s.weakWait /\ t.hasWeak = s.hasWeak
      /\ t.certs = s.certs /\ t.HRBCTerminated = s.HRBCTerminated /\ t \in NodeState
  BY DEF NodeOK, NodeState
<1>2. tryAddDAG(s, vs, r) \in {t, u}
  BY DEF tryAddDAG
<1> HIDE DEF t
<1>3. /\ u.hasConn = t.hasConn /\ u.weakWait = t.weakWait /\ u.hasWeak = t.hasWeak
      /\ u.certs = t.certs /\ u.HRBCTerminated = t.HRBCTerminated
  BY <1>1 DEF newRound, NodeState
<1> HIDE DEF u
<1>4. Raises(s, tryAddDAG(s, vs, r), r + 1) /\ NodeOK(tryAddDAG(s, vs, r))
  BY tryAddDAGOK
<1>5. s.currRound <= tryAddDAG(s, vs, r).currRound
  BY <1>4, CurrRound DEF Raises
<1> QED
  BY <1>1, <1>2, <1>3, <1>5 DEF Keeps, Kept

LEMMA TentKeeps ==
    ASSUME NEW s, NodeOK(s), Kept(s), NEW v \in Vertex
    PROVE  Keeps(s, Tent(s, v))
  BY CurrRound DEF Keeps, Kept, Tent, NodeOK, NodeState

LEMMA onReceiveDeliverKeeps ==
    ASSUME NEW s, NodeOK(s), Kept(s), NEW v \in Vertex, Own(v) => v[1] <= s.currRound
    PROVE  Keeps(s, onReceiveDeliver(s, v))
<1> DEFINE late == v[1] < s.currRound \/ (v[1] = s.currRound /\ Own(v))
           t == [s EXCEPT !.HRBCTerminated = @ \cup {v}, !.certs = @ \cup {v}]
           u == IF late /\ v \notin t.hasWeak
                THEN [t EXCEPT !.weakWait = @ \cup {v}, !.hasWeak = @ \cup {v}] ELSE t
<1>1. /\ NodeOK(t) /\ t.currRound = s.currRound /\ t.hasConn = s.hasConn
      /\ t.weakWait = s.weakWait /\ t.hasWeak = s.hasWeak
      /\ t.certs = s.certs \cup {v} /\ t.HRBCTerminated = s.HRBCTerminated \cup {v}
  BY DEF NodeOK, NodeState
<1>2. onReceiveDeliver(s, v) = tryAddDAG(u, {v}, v[1])
  BY DEF onReceiveDeliver
<1>3. Own(v) => late
  BY CurrRound, Bounds DEF Own
<1> HIDE DEF t, late
<1>4. /\ NodeOK(u) /\ u.currRound = s.currRound /\ u.hasConn = s.hasConn
      /\ u.certs = t.certs /\ u.HRBCTerminated = t.HRBCTerminated
      /\ \/ u.weakWait = t.weakWait /\ u.hasWeak = t.hasWeak /\ (Own(v) => v \in u.hasWeak)
         \/ u.weakWait = t.weakWait \cup {v} /\ u.hasWeak = t.hasWeak \cup {v}
  BY <1>1, <1>3 DEF NodeOK, NodeState
<1> HIDE DEF u
<1>5. Kept(u)
  BY <1>1, <1>4 DEF Kept
<1>6. Keeps(s, u)
  BY <1>1, <1>4, <1>5, CurrRound DEF Keeps
<1>7. v[1] \in 0..MaxVertexRound /\ {v} \in SUBSET Vertex
  BY Bounds
<1>8. NodeOK(tryAddDAG(u, {v}, v[1])) /\ Keeps(u, tryAddDAG(u, {v}, v[1]))
  BY <1>4, <1>5, <1>7, tryAddDAGOK, tryAddDAGKeeps
<1> QED
  BY <1>2, <1>4, <1>6, <1>8, KeepsComposed

LEMMA addQCsKeeps ==
    ASSUME NEW s, NodeOK(s), Kept(s), NEW r \in 0..MaxVertexRound, NEW qcs \in SUBSET Vertex
    PROVE  Keeps(s, addQCs(s, qcs, r))
<1> DEFINE t == [s EXCEPT !.certs = @ \cup qcs,
                          !.virtualVertexBuffer = @ \cup (qcs \ (s.DAG \cup s.valDAG))]
<1>1. /\ NodeOK(t) /\ t.currRound = s.currRound /\ t.hasConn = s.hasConn
      /\ t.weakWait = s.weakWait /\ t.hasWeak = s.hasWeak
      /\ t.certs = s.certs \cup qcs /\ t.HRBCTerminated = s.HRBCTerminated
  BY DEF NodeOK, NodeState
<1>2. addQCs(s, qcs, r) = tryAddDAG(t, qcs \cap s.valDAG, r)
  BY DEF addQCs
<1> HIDE DEF t
<1>3. Kept(t) /\ Keeps(s, t)
  BY <1>1, CurrRound DEF Keeps, Kept
<1>4. LET u == tryAddDAG(t, qcs \cap s.valDAG, r) IN NodeOK(u) /\ Keeps(t, u)
  BY <1>1, <1>3, tryAddDAGOK, tryAddDAGKeeps
<1> QED
  BY <1>1, <1>2, <1>3, <1>4, KeepsComposed

LEMMA handleValKeeps ==
    ASSUME NEW s, NodeOK(s), Kept(s), NEW v \in Vertex, NEW echoes, Own(v) => v[1] <= s.currRound
    PROVE  Keeps(s, handleVal(s, v, echoes))
<1> DEFINE t == [s EXCEPT !.valDAG = @ \cup {v}]
           u == IF echoes = "none" THEN t ELSE Tent(t, v)
           w == IF v \in u.virtualVertexBuffer THEN tryAddDAG(u, {v}, v[1]) ELSE u
<1>1. NodeOK(t) /\ Keeps(s, t)
  BY CurrRound DEF NodeOK, NodeState, Keeps, Kept
<1>2. handleVal(s, v, echoes) = IF echoes = "full" THEN onReceiveDeliver(w, v) ELSE w
  BY DEF handleVal
<1> HIDE DEF t
<1>3. NodeOK(u) /\ Keeps(t, u)
  BY <1>1, TentOK, TentKeeps, CurrRound DEF Keeps
<1>4. Keeps(s, u)
  BY <1>1, <1>3, KeepsComposed
<1> HIDE DEF u
<1>5. v[1] \in 0..MaxVertexRound /\ {v} \in SUBSET Vertex
  BY Bounds
<1>6. NodeOK(w) /\ Keeps(u, w)
  BY <1>3, <1>4, <1>5, tryAddDAGOK, tryAddDAGKeeps, CurrRound DEF Keeps
<1> HIDE DEF w
<1>7. Keeps(s, w)
  BY <1>3, <1>4, <1>6, KeepsComposed
<1>8. Kept(w) /\ (Own(v) => v[1] <= w.currRound)
  BY <1>5, <1>6, <1>7, CurrRound DEF Keeps
<1>9. NodeOK(onReceiveDeliver(w, v)) /\ Keeps(w, onReceiveDeliver(w, v))
  BY <1>6, <1>8, onReceiveDeliverOK, onReceiveDeliverKeeps
<1> QED
  BY <1>2, <1>6, <1>7, <1>9, KeepsComposed

LEMMA HandleRemembers ==
    ASSUME IInv, Remembered, NEW u, NodeOK(u), Keeps(node, u), node' = u, UNCHANGED conns
    PROVE  Remembered'
<1>1. /\ \A v : Strongly(v)' <=> Strongly(v)
      /\ \A v : Weakly(v)' <=> Weakly(v)
      /\ \A r : Proposed(r)' <=> Proposed(r)
  BY DEF Strongly, Weakly, Proposed
<1>2. \A r \in 1..MaxRound : r <= node.currRound => r <= u.currRound
  BY CurrRound, Bounds DEF Keeps, IInv
<1>3. Kept(node')
  BY DEF Keeps
<1>4. \A r \in 1..MaxRound : Proposed(r)' =>
          /\ r <= node'.currRound
          /\ \A v \in conns'[r].strong : v[1] = r - 1
          /\ \A v \in conns'[r].weak : Own(v) => v[1] < r
  BY <1>1, <1>2 DEF Remembered
<1>5. \A v \in node'.hasWeak : Own(v) => v \in node'.weakWait \/ Strongly(v)' \/ Weakly(v)'
  BY <1>1 DEF Remembered, Keeps
<1>6. \A v \in Vertex : Own(v) => /\ v[1] \in node'.hasConn <=> Strongly(v)'
                                  /\ ~(Strongly(v)' /\ Weakly(v)')
  BY <1>1 DEF Remembered, Keeps
<1> QED
  BY <1>3, <1>4, <1>5, <1>6 DEF Remembered, Kept, Own

LEMMA ReceiveRemembers ==
    ASSUME IInv, Back, Remembered, NEW v \in Vertex, ReceiveVal(v) \/ ReceiveEcho(v)
    PROVE  Remembered'
<1>1. NodeOK(node) /\ Kept(node) /\ v[1] \in 1..MaxRound
  BY Bounds DEF IInv, Remembered
<1>2. Own(v) => v[1] <= node.currRound
  <2>1. Own(v) => Proposed(v[1])
    BY DEF ReceiveVal, ReceiveEcho, Exists, Back
  <2> QED
    BY <1>1, <2>1 DEF Remembered
<1>3. CASE ReceiveVal(v)
  <2>1. PICK qcs \in Parents(v[1]), echoes \in {"none", "tent", "full"} :
           LET t == addQCs(node, qcs, v[1] - 1) IN Handle(t, handleVal(t, v, echoes))
    BY <1>3 DEF ReceiveVal
  <2> DEFINE t == addQCs(node, qcs, v[1] - 1)
             u == handleVal(t, v, echoes)
  <2>2. v[1] \in 1..MaxVertexRound /\ v[1] - 1 \in 0..MaxVertexRound
    BY Bounds
  <2>3. qcs \in SUBSET Vertex
    <3>1. CASE v[1] = 1
      BY <3>1 DEF Parents
    <3>2. CASE v[1] # 1
      <4>1. v[1] - 1 \in 1..MaxVertexRound
        BY <2>2, <3>2, Bounds
      <4>2. qcs \subseteq {v[1] - 1} \X Node
        BY <3>2 DEF Parents
      <4> QED
        BY <4>1, <4>2 DEF Vertex
    <3> QED
      BY <3>1, <3>2
  <2>4. NodeOK(t) /\ Keeps(node, t)
    BY <1>1, <2>2, <2>3, addQCsOK, addQCsKeeps
  <2>5. node' = u /\ UNCHANGED conns
    BY <2>1 DEF Handle
  <2> HIDE DEF t
  <2>6. Kept(t) /\ (Own(v) => v[1] <= t.currRound)
    BY <1>1, <1>2, <2>2, <2>4, CurrRound DEF Keeps
  <2>7. NodeOK(u) /\ Keeps(t, u)
    BY <2>4, <2>6, handleValOK, handleValKeeps
  <2> HIDE DEF u
  <2> QED
    BY <1>1, <2>4, <2>5, <2>7, KeepsComposed, HandleRemembers
<1>4. CASE ReceiveEcho(v)
  <2>1. PICK u \in {onReceiveDeliver(node, v), Tent(node, v)} : Handle(node, u)
    BY <1>4 DEF ReceiveEcho
  <2>2. NodeOK(u) /\ Keeps(node, u)
    BY <1>1, <1>2, onReceiveDeliverOK, onReceiveDeliverKeeps, TentOK, TentKeeps
  <2>3. node' = u /\ UNCHANGED conns
    BY <2>1 DEF Handle
  <2> QED
    BY <2>2, <2>3, HandleRemembers
<1> QED
  BY <1>3, <1>4

\* An own vertex is given by its round.
LEMMA OwnOfRound == \A v, w \in Vertex : Own(v) /\ Own(w) /\ v[1] = w[1] => v = w
<1>1. \A v \in Vertex : v = <<v[1], v[2]>>
  BY DEF Vertex
<1> QED
  BY <1>1 DEF Own

\* What Propose does for the edges.
LEMMA EdgesRemember ==
    ASSUME IInv, Kept(node), NEW r \in 1..MaxRound
    PROVE  LET e == Edges(node, r) IN
           /\ e.strong \in SUBSET Vertex /\ \A v \in e.strong : v[1] = r - 1
           /\ r = 1 => e.strong = {} /\ e.weak = {}
           /\ e.weak \subseteq node.weakWait
           /\ \A v \in node.weakWait \cap e.popped :
                 v \in e.weak \/ (Own(v) /\ v[1] \in e.hasConn)
           /\ \A v \in e.weak : Own(v) => v[1] \notin e.hasConn
           /\ e.hasConn = node.hasConn \cup {v[1] : v \in {x \in e.strong : Own(x)}}
<1> DEFINE strong == IF r = 1 THEN {} ELSE getConnections(node, r)
           hasConn == node.hasConn \cup {v[1] : v \in {x \in strong : Own(x)}}
           popped == IF r = 1 THEN {} ELSE Popped(node, hasConn, N - Cardinality(strong))
           e == Edges(node, r)
<1>1. e = [proposed |-> TRUE, at |-> node.currRound, strong |-> strong,
           weak |-> popped \cap Usable(node, hasConn), popped |-> popped, hasConn |-> hasConn]
  BY DEF Edges
<1> HIDE DEF e
<1>2. /\ e.strong = strong /\ e.weak = popped \cap Usable(node, hasConn)
      /\ e.popped = popped /\ e.hasConn = hasConn
  BY <1>1
<1>3. strong \in SUBSET Vertex /\ \A v \in strong : v[1] = r - 1
  BY DEF getConnections, InRound, IInv, NodeOK, NodeState
<1>4. r = 1 => strong = {} /\ popped = {}
  OBVIOUS
<1> HIDE DEF strong, popped
<1>5. Usable(node, hasConn) \subseteq node.weakWait
  BY DEF Usable
<1>6. \A v \in node.weakWait : v \in Usable(node, hasConn) \/ (Own(v) /\ v[1] \in hasConn)
  BY DEF Usable, Kept
<1>7. \A v \in Usable(node, hasConn) : Own(v) => v[1] \notin hasConn
  BY DEF Usable
<1>8. hasConn = node.hasConn \cup {v[1] : v \in {x \in strong : Own(x)}}
  OBVIOUS
<1> HIDE DEF hasConn
<1> QED
  BY <1>2, <1>3, <1>4, <1>5, <1>6, <1>7, <1>8 DEF e

LEMMA ProposeRemembers ==
    ASSUME IInv, Back, Quorums, Remembered, P!RoundsInOrder, P!ProposerTypeOK, Propose
    PROVE  Remembered'
<1> DEFINE block == Head(proposeChan)
           r == block.Round
           e == Edges(node, r)
           c == [proposed |-> TRUE, at |-> e.at, strong |-> e.strong, weak |-> e.weak]
<1>1. /\ node' = [node EXCEPT !.hasConn = e.hasConn, !.weakWait = @ \ e.popped]
      /\ conns' = [conns EXCEPT ![r] = c] /\ proposeChan # << >>
  BY DEF Propose, P!Propose
<1>2. block \in ReadyBlock(node)
  BY <1>1, HeadTailProperties DEF Quorums
<1>3. r \in 1..MaxRound /\ r \in Nat /\ r <= node.currRound
  BY <1>2, Bounds DEF ReadyBlock, Ready
\* The round is a new one, later than those proposed.
<1>4. \A x \in 1..MaxRound : Proposed(x) => x < r
  BY <1>1, FirstOfRound DEF Back
<1> HIDE DEF block
<1>5. Kept(node) /\ NodeOK(node)
  BY DEF Remembered, IInv
<1>6. /\ e.strong \in SUBSET Vertex /\ \A v \in e.strong : v[1] = r - 1
      /\ r = 1 => e.strong = {} /\ e.weak = {}
      /\ e.weak \subseteq node.weakWait
      /\ \A v \in node.weakWait \cap e.popped : v \in e.weak \/ (Own(v) /\ v[1] \in e.hasConn)
      /\ \A v \in e.weak : Own(v) => v[1] \notin e.hasConn
      /\ e.hasConn = node.hasConn \cup {v[1] : v \in {x \in e.strong : Own(x)}}
  BY <1>3, <1>5, EdgesRemember
<1> HIDE DEF e
<1>7. /\ node'.hasConn = e.hasConn /\ node'.weakWait = node.weakWait \ e.popped
      /\ node'.hasWeak = node.hasWeak /\ node'.certs = node.certs
      /\ node'.HRBCTerminated = node.HRBCTerminated /\ node'.currRound = node.currRound
  BY <1>1, <1>5 DEF NodeOK, NodeState
<1>8. conns' = [x \in 1..MaxRound |-> IF x = r THEN c ELSE conns[x]]
  BY <1>1 DEF IInv
<1>9. /\ conns'[r].proposed /\ conns'[r].strong = e.strong /\ conns'[r].weak = e.weak
      /\ \A x \in 1..MaxRound : x # r => conns'[x] = conns[x]
      /\ ~Proposed(r)
  BY <1>3, <1>4, <1>8
<1> HIDE DEF c, r
<1>10. \A x \in 2..MaxRound : x \in 1..MaxRound
  BY Bounds
<1>11. \A v : /\ Strongly(v)' <=> Strongly(v) \/ v \in e.strong
              /\ Weakly(v)' <=> Weakly(v) \/ v \in e.weak
  <2>1. e.strong \cup e.weak # {} => r \in 2..MaxRound
    BY <1>3, <1>6, Bounds
  <2> SUFFICES ASSUME NEW v
               PROVE  /\ (\E x \in 2..MaxRound : conns'[x].proposed /\ v \in conns'[x].strong)
                            <=> Strongly(v) \/ v \in e.strong
                      /\ (\E x \in 2..MaxRound : conns'[x].proposed /\ v \in conns'[x].weak)
                            <=> Weakly(v) \/ v \in e.weak
    BY DEF Strongly, Weakly, Proposed
  <2> QED
    BY <1>9, <1>10, <2>1 DEF Strongly, Weakly, Proposed
<1>12. node.weakWait \subseteq Vertex /\ node.weakWait \subseteq node.hasWeak
  BY <1>5 DEF NodeOK, NodeState
<1>13. Kept(node')
  BY <1>5, <1>7 DEF Kept
\* A weak edge to an own vertex leads back: it was proposed before.
<1>14. \A v \in e.weak : Own(v) => v[1] < r
  BY <1>4, <1>6, <1>12, Bounds DEF Back
<1>15. \A x \in 1..MaxRound : conns'[x].proposed =>
           /\ x <= node'.currRound
           /\ \A v \in conns'[x].strong : v[1] = x - 1
           /\ \A v \in conns'[x].weak : Own(v) => v[1] < x
  <2> SUFFICES ASSUME NEW x \in 1..MaxRound, conns'[x].proposed
               PROVE  /\ x <= node'.currRound
                      /\ \A v \in conns'[x].strong : v[1] = x - 1
                      /\ \A v \in conns'[x].weak : Own(v) => v[1] < x
    OBVIOUS
  <2>1. CASE x = r
    BY <1>3, <1>6, <1>7, <1>9, <1>14, <2>1
  <2>2. CASE x # r
    BY <1>7, <1>9, <2>2 DEF Remembered, Proposed
  <2> QED
    BY <2>1, <2>2
\* hasConn has the rounds of the own vertices with a strong edge.
<1>16. \A v \in Vertex : Own(v) => (v[1] \in node'.hasConn <=> Strongly(v)')
  <2> SUFFICES ASSUME NEW v \in Vertex, Own(v)
               PROVE  v[1] \in node'.hasConn <=> Strongly(v) \/ v \in e.strong
    BY <1>11
  <2>1. v[1] \in node.hasConn <=> Strongly(v)
    BY DEF Remembered
  <2>2. v[1] \in {w[1] : w \in {x \in e.strong : Own(x)}} <=> v \in e.strong
    BY <1>6, OwnOfRound
  <2> QED
    BY <1>6, <1>7, <2>1, <2>2
<1>17. \A v \in node'.hasWeak : Own(v) => v \in node'.weakWait \/ Strongly(v)' \/ Weakly(v)'
  <2> SUFFICES ASSUME NEW v \in node.hasWeak, Own(v), v \notin node'.weakWait
               PROVE  Strongly(v)' \/ Weakly(v)'
    BY <1>7
  <2>1. CASE Strongly(v) \/ Weakly(v)
    BY <1>11, <2>1
  <2>2. CASE v \in node.weakWait
    <3>1. v \in e.weak \/ v[1] \in e.hasConn
      BY <1>6, <1>7, <2>2
    <3> QED
      BY <1>7, <1>11, <1>12, <1>16, <2>2, <3>1
  <2> QED
    BY <2>1, <2>2 DEF Remembered
<1>18. \A v \in Vertex : Own(v) => ~(Strongly(v)' /\ Weakly(v)')
  <2> SUFFICES ASSUME NEW v \in Vertex, Own(v),
                      Strongly(v) \/ v \in e.strong, Weakly(v) \/ v \in e.weak
               PROVE  FALSE
    BY <1>11
  <2>1. CASE v \in e.weak
    BY <1>6, <1>7, <1>11, <1>16, <2>1
  <2>2. CASE v \in e.strong /\ Weakly(v)
    <3>1. PICK x \in 2..MaxRound : Proposed(x) /\ v \in conns[x].weak
      BY <2>2 DEF Weakly
    <3>2. x < r /\ v[1] < x /\ v[1] = r - 1
      BY <1>4, <1>6, <1>10, <2>2, <3>1 DEF Remembered
    <3> QED
      BY <1>3, <3>2, Bounds
  <2>3. CASE Strongly(v) /\ Weakly(v)
    BY <2>3 DEF Remembered
  <2> QED
    BY <2>1, <2>2, <2>3
<1> QED
  BY <1>13, <1>15, <1>16, <1>17, <1>18 DEF Remembered, Kept, Own, Proposed

LEMMA NextRemembered ==
    /\ IInv /\ Back /\ Quorums /\ Remembered /\ P!RoundsInOrder /\ P!ProposerTypeOK
    /\ [RoundsNext]_roundsVars
    => Remembered'
<1> SUFFICES ASSUME IInv, Back, Quorums, Remembered, P!RoundsInOrder, P!ProposerTypeOK,
                    [RoundsNext]_roundsVars
             PROVE  Remembered'
  OBVIOUS
<1>1. ASSUME UNCHANGED <<node, conns>> PROVE Remembered'
  BY <1>1 DEF Remembered, Kept, Own, Strongly, Weakly, Proposed
<1>2. CASE ProposeLoop \/ UNCHANGED roundsVars
  BY <1>1, <1>2 DEF ProposeLoop, roundsVars
<1> QED
  BY <1>2, ReceiveRemembers, ProposeRemembers DEF RoundsNext

LEMMA InitRemembered == RoundsInit => Remembered
  BY DEF RoundsInit, NotProposed, Remembered, Kept, Strongly, Weakly, Proposed

(***************************************************************************)
(* A certified own vertex waits in the queue or has an edge from a later   *)
(* own vertex, a strong or a weak one and never both, whatever the order   *)
(* of messages and the lag of the proposals.                               *)
(***************************************************************************)
THEOREM OwnIsRemembered == RoundsSpec => []OwnNotForgotten
<1>1. IInv /\ Remembered => OwnNotForgotten
  <2> SUFFICES ASSUME IInv, Remembered, NEW v \in node.HRBCTerminated, Own(v)
               PROVE  /\ v \in node.weakWait \/ Strongly(v) \/ Weakly(v)
                      /\ ~(Strongly(v) /\ Weakly(v))
    BY DEF OwnNotForgotten, Strongly, Weakly
  <2>1. v \in Vertex
    BY DEF IInv, NodeOK, NodeState
  <2> QED
    BY <2>1 DEF Remembered, Kept
<1> QED
  BY <1>1, RoundsAreProposed, InitIInv, NextIInv, InitBack, NextBack, InitQuorums, NextQuorums,
     InitRemembered, NextRemembered, PTL DEF RoundsSpec
=============================================================================
