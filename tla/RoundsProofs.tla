--------------------------- MODULE RoundsProofs ---------------------------
(***************************************************************************)
(* Proofs about Rounds, for any number of nodes, either form of adaptive   *)
(* wait and any order of messages: the types, that the node is the main    *)
(* loop that Proposer describes, so that what ProposerProofs proves holds  *)
(* of it, and where weak edges lead.                                       *)
(***************************************************************************)
EXTENDS Rounds, TLAPS, SequenceTheorems

\* The theorems about Proposer, of the instance P.
PP == INSTANCE ProposerProofs WITH currRound <- node.currRound

NodeOK(s) ==
    /\ s \in NodeState
    /\ s.weakCerts \subseteq s.hasTent /\ s.weakWait \subseteq s.hasWeak

IInv ==
    /\ NodeOK(node)
    /\ conns = [r \in 1..MaxRound |-> conns[r]]
    /\ \A r \in 1..MaxRound : Proposed(r) =>
          conns[r].strong \subseteq Vertex /\ conns[r].weak \subseteq Vertex

\* A handler that can start one round only, r.
Raises(s, t, r) ==
    \/ t.currRound = s.currRound
    \/ s.currRound < r /\ t.currRound = r

LEMMA Bounds ==
    /\ MaxVertexRound \in Nat /\ MaxVertexRound >= 1 /\ MaxVertexRound < MaxRound
    /\ MaxRound \in Nat /\ 1 \in 1..MaxRound
    /\ \A r \in 0..MaxVertexRound : r \in Nat /\ r + 1 \in 1..MaxRound
    /\ \A v \in Vertex : v[1] \in 1..MaxVertexRound
  BY RoundsAssumption DEF Vertex

LEMMA Two ==
    ASSUME NEW a \in Nat, NEW b \in Nat
    PROVE  <<a>> \o <<b>> = <<a, b>>
<1>1. /\ <<a>> \in Seq(Nat) /\ Len(<<a>>) = 1 /\ <<b>> \in Seq(Nat) /\ Len(<<b>>) = 1
      /\ <<a, b>> \in Seq(Nat) /\ Len(<<a, b>>) = 2
  OBVIOUS
<1>2. /\ <<a>> \o <<b>> \in Seq(Nat) /\ Len(<<a>> \o <<b>>) = 2
      /\ \A i \in 1..2 : (<<a>> \o <<b>>)[i] = IF i <= 1 THEN <<a>>[i] ELSE <<b>>[i - 1]
  BY <1>1, ConcatProperties
<1>3. \A i \in 1..2 : (<<a>> \o <<b>>)[i] = <<a, b>>[i]
  <2>1. \A i \in 1..2 : i = 1 \/ i = 2
    OBVIOUS
  <2> QED
    BY <1>2, <2>1
<1> QED
  BY <1>1, <1>2, <1>3, SeqEqual

LEMMA Composed ==
    ASSUME NEW s, NEW t, NEW u, NEW r, Raises(s, t, r), Raises(t, u, r)
    PROVE  Raises(s, u, r)
  BY DEF Raises

LEMMA newRoundOK ==
    ASSUME NEW s, NodeOK(s), NEW r \in 1..MaxRound
    PROVE  NodeOK(newRound(s, r)) /\ Raises(s, newRound(s, r), r)
<1>1. CASE s.currRound >= r
  BY <1>1 DEF newRound, Raises
<1>2. CASE ~(s.currRound >= r)
  <2>1. s.currRound < r
    BY <1>2, Bounds DEF NodeOK, NodeState
  <2>2. newRound(s, r) = [s EXCEPT !.currRound = r]
    BY <1>2 DEF newRound
  <2> QED
    BY <2>1, <2>2 DEF NodeOK, NodeState, Raises
<1> QED
  BY <1>1, <1>2

LEMMA tryAddDAGOK ==
    ASSUME NEW s, NodeOK(s), NEW r \in 0..MaxVertexRound, NEW vs \in SUBSET Vertex
    PROVE  NodeOK(tryAddDAG(s, vs, r)) /\ Raises(s, tryAddDAG(s, vs, r), r + 1)
<1> DEFINE new == vs \ s.DAG
           t == [s EXCEPT !.DAG = @ \cup new, !.weakCerts = @ \ new,
                          !.virtualVertexBuffer = @ \ new]
<1>1. NodeOK(t) /\ t.currRound = s.currRound
  BY DEF NodeOK, NodeState
<1>2. tryAddDAG(s, vs, r) \in {t, newRound(t, r + 1)}
  BY DEF tryAddDAG
<1> HIDE DEF t
<1>3. NodeOK(newRound(t, r + 1)) /\ Raises(t, newRound(t, r + 1), r + 1)
  BY <1>1, Bounds, newRoundOK
<1> QED
  BY <1>1, <1>2, <1>3 DEF Raises

LEMMA TentOK ==
    ASSUME NEW s, NodeOK(s), NEW v \in Vertex
    PROVE  NodeOK(Tent(s, v)) /\ Tent(s, v).currRound = s.currRound
  BY DEF Tent, NodeOK, NodeState

LEMMA onReceiveDeliverOK ==
    ASSUME NEW s, NodeOK(s), NEW v \in Vertex
    PROVE  /\ NodeOK(onReceiveDeliver(s, v))
           /\ Raises(s, onReceiveDeliver(s, v), v[1] + 1)
<1> DEFINE late == v[1] < s.currRound \/ (v[1] = s.currRound /\ Own(v))
           t == [s EXCEPT !.HRBCTerminated = @ \cup {v}, !.certs = @ \cup {v}]
           u == IF late /\ v \notin t.hasWeak
                THEN [t EXCEPT !.weakWait = @ \cup {v}, !.hasWeak = @ \cup {v}] ELSE t
<1>1. NodeOK(t) /\ t.currRound = s.currRound
  BY DEF NodeOK, NodeState
<1>2. onReceiveDeliver(s, v) = tryAddDAG(u, {v}, v[1])
  BY DEF onReceiveDeliver
<1> HIDE DEF t, late
<1>3. NodeOK(u) /\ u.currRound = s.currRound
  BY <1>1 DEF NodeOK, NodeState
<1> HIDE DEF u
<1>4. v[1] \in 0..MaxVertexRound /\ {v} \in SUBSET Vertex
  BY Bounds
<1>5. NodeOK(tryAddDAG(u, {v}, v[1])) /\ Raises(u, tryAddDAG(u, {v}, v[1]), v[1] + 1)
  BY <1>3, <1>4, tryAddDAGOK
<1> QED
  BY <1>2, <1>3, <1>5 DEF Raises

LEMMA addQCsOK ==
    ASSUME NEW s, NodeOK(s), NEW r \in 0..MaxVertexRound, NEW qcs \in SUBSET Vertex
    PROVE  NodeOK(addQCs(s, qcs, r)) /\ Raises(s, addQCs(s, qcs, r), r + 1)
<1> DEFINE t == [s EXCEPT !.certs = @ \cup qcs,
                          !.virtualVertexBuffer = @ \cup (qcs \ (s.DAG \cup s.valDAG))]
<1>1. NodeOK(t) /\ t.currRound = s.currRound
  BY DEF NodeOK, NodeState
<1>2. addQCs(s, qcs, r) = tryAddDAG(t, qcs \cap s.valDAG, r)
  BY DEF addQCs
<1> HIDE DEF t
<1>3. LET x == tryAddDAG(t, qcs \cap s.valDAG, r) IN NodeOK(x) /\ Raises(t, x, r + 1)
  BY <1>1, tryAddDAGOK
<1> QED
  BY <1>1, <1>2, <1>3 DEF Raises

LEMMA handleValOK ==
    ASSUME NEW s, NodeOK(s), NEW v \in Vertex, NEW echoes
    PROVE  /\ NodeOK(handleVal(s, v, echoes))
           /\ Raises(s, handleVal(s, v, echoes), v[1] + 1)
<1> DEFINE t == [s EXCEPT !.valDAG = @ \cup {v}]
           u == IF echoes = "none" THEN t ELSE Tent(t, v)
           w == IF v \in u.virtualVertexBuffer THEN tryAddDAG(u, {v}, v[1]) ELSE u
<1>1. NodeOK(t) /\ t.currRound = s.currRound
  BY DEF NodeOK, NodeState
<1>2. handleVal(s, v, echoes) = IF echoes = "full" THEN onReceiveDeliver(w, v) ELSE w
  BY DEF handleVal
<1> HIDE DEF t
<1>3. NodeOK(u) /\ u.currRound = s.currRound
  BY <1>1, TentOK
<1> HIDE DEF u
<1>4. v[1] \in 0..MaxVertexRound /\ {v} \in SUBSET Vertex
  BY Bounds
<1>5. NodeOK(w) /\ Raises(u, w, v[1] + 1)
  BY <1>3, <1>4, tryAddDAGOK DEF Raises
<1> HIDE DEF w
<1>6. Raises(s, w, v[1] + 1)
  BY <1>3, <1>5 DEF Raises
<1>7. /\ NodeOK(onReceiveDeliver(w, v))
      /\ Raises(w, onReceiveDeliver(w, v), v[1] + 1)
  BY <1>5, onReceiveDeliverOK
<1> QED
  BY <1>2, <1>5, <1>6, <1>7, Composed

----------------------------------------------------------------------------
(***************************************************************************)
(* A handler that may start round r and then round r + 1: what it          *)
(* announces is what the main loop of Proposer may announce.               *)
(***************************************************************************)
LEMMA HandleStep ==
    ASSUME NodeOK(node), NEW t, NEW u, NodeOK(t), NodeOK(u), NEW r \in 1..MaxVertexRound,
           Raises(node, t, r), Raises(t, u, r + 1), Handle(t, u)
    PROVE  /\ NodeOK(node') /\ UNCHANGED conns
           /\ [P!ProposerNext]_(P!proposerVars)
<1> DEFINE rounds == Started(node, t, u)
<1>1. /\ P!MainIdle /\ node' = u /\ UNCHANGED conns
      /\ \/ rounds = << >> /\ UNCHANGED otherProposerVars
         \/ /\ P!newRound(rounds)
            /\ UNCHANGED <<received, clientChan, currBatch, reqNum, startId, fired, proposeflag,
                           sending, proposeChan, myBlocks>>
  BY DEF Handle
<1>2. /\ node.currRound \in Nat /\ t.currRound \in Nat /\ u.currRound \in Nat
      /\ r \in P!Round /\ r + 1 \in P!Round /\ r < MaxRound /\ r \in Nat
  BY Bounds DEF NodeOK, NodeState, P!Round
<1>3. \/ rounds = << >> /\ u.currRound = node.currRound
      \/ rounds \in P!Rises /\ node.currRound < rounds[1] /\ rounds # << >>
  <2>1. CASE t.currRound = node.currRound /\ u.currRound = t.currRound
    BY <2>1 DEF Started
  <2>2. CASE t.currRound = node.currRound /\ u.currRound # t.currRound
    <3>1. u.currRound = r + 1 /\ t.currRound < r + 1
      BY <2>2 DEF Raises
    <3>2. rounds = <<r + 1>>
      BY <2>2, <3>1 DEF Started
    <3>3. <<r + 1>> \in P!Rises
      BY <1>2 DEF P!Rises
    <3> QED
      BY <2>2, <3>1, <3>2, <3>3
  <2>3. CASE t.currRound # node.currRound /\ u.currRound = t.currRound
    <3>1. t.currRound = r /\ node.currRound < r
      BY <2>3 DEF Raises
    <3>2. rounds = <<r>>
      BY <2>3, <3>1 DEF Started
    <3>3. <<r>> \in P!Rises
      BY <1>2 DEF P!Rises
    <3> QED
      BY <3>1, <3>2, <3>3
  <2>4. CASE t.currRound # node.currRound /\ u.currRound # t.currRound
    <3>1. t.currRound = r /\ node.currRound < r /\ u.currRound = r + 1
      BY <2>4 DEF Raises
    <3>2. rounds = <<r, r + 1>>
      <4>1. rounds = <<r>> \o <<r + 1>>
        BY <2>4, <3>1 DEF Started
      <4> QED
        BY <1>2, <4>1, Two
    <3>3. <<r, r + 1>> \in P!Rises
      BY <1>2 DEF P!Rises
    <3> QED
      BY <3>1, <3>2, <3>3
  <2> QED
    BY <2>1, <2>2, <2>3, <2>4
<1> HIDE DEF rounds
<1>4. [P!ProposerNext]_(P!proposerVars)
  <2>1. CASE rounds = << >> /\ UNCHANGED otherProposerVars /\ u.currRound = node.currRound
    BY <1>1, <2>1 DEF otherProposerVars, P!proposerVars, P!clientVars, P!batchVars
  <2>2. CASE rounds \in P!Rises /\ node.currRound < rounds[1] /\ P!newRound(rounds)
              /\ UNCHANGED <<received, clientChan, currBatch, reqNum, startId, fired, proposeflag,
                             sending, proposeChan, myBlocks>>
    <3>1. P!StartRounds(rounds)
      BY <1>1, <2>2 DEF P!StartRounds, P!clientVars, P!batchVars
    <3> QED
      BY <2>2, <3>1 DEF P!ProposerNext
  <2>3. CASE rounds = << >> /\ P!newRound(rounds) /\ u.currRound = node.currRound
    BY <1>1, <2>1, <2>3 DEF rounds, Handle
  <2> QED
    BY <1>1, <1>3, <2>1, <2>2, <2>3
<1> QED
  BY <1>1, <1>4

LEMMA InitIInv == RoundsInit => IInv
<1> SUFFICES ASSUME RoundsInit PROVE IInv
  OBVIOUS
<1>1. NodeOK(node)
  BY Bounds DEF RoundsInit, NodeOK, NodeState
<1> QED
  BY <1>1 DEF RoundsInit, IInv, Proposed, NotProposed

LEMMA ReceiveValStep ==
    ASSUME IInv, NEW v \in Vertex, ReceiveVal(v)
    PROVE  NodeOK(node') /\ UNCHANGED conns /\ [P!ProposerNext]_(P!proposerVars)
<1>1. PICK qcs \in Parents(v[1]), echoes \in {"none", "tent", "full"} :
         LET t == addQCs(node, qcs, v[1] - 1) IN Handle(t, handleVal(t, v, echoes))
  BY DEF ReceiveVal
<1> DEFINE t == addQCs(node, qcs, v[1] - 1)
           u == handleVal(t, v, echoes)
<1>2. v[1] \in 1..MaxVertexRound /\ v[1] - 1 \in 0..MaxVertexRound /\ (v[1] - 1) + 1 = v[1]
  BY Bounds
<1>3. qcs \in SUBSET Vertex
  <2>1. CASE v[1] = 1
    BY <2>1 DEF Parents
  <2>2. CASE v[1] # 1
    <3>1. v[1] - 1 \in 1..MaxVertexRound
      BY <1>2, <2>2, Bounds
    <3>2. qcs \subseteq {v[1] - 1} \X Node
      BY <2>2 DEF Parents
    <3> QED
      BY <3>1, <3>2 DEF Vertex
  <2> QED
    BY <2>1, <2>2
<1>4. NodeOK(t) /\ Raises(node, t, (v[1] - 1) + 1)
  BY <1>2, <1>3, addQCsOK DEF IInv
<1> HIDE DEF t
<1>5. NodeOK(u) /\ Raises(t, u, v[1] + 1)
  BY <1>4, handleValOK
<1>6. Handle(t, u)
  BY <1>1 DEF t
<1> HIDE DEF u
<1> QED
  BY <1>2, <1>4, <1>5, <1>6, HandleStep DEF IInv

LEMMA ReceiveEchoStep ==
    ASSUME IInv, NEW v \in Vertex, ReceiveEcho(v)
    PROVE  NodeOK(node') /\ UNCHANGED conns /\ [P!ProposerNext]_(P!proposerVars)
<1>1. NodeOK(node) /\ v[1] \in 1..MaxVertexRound /\ Raises(node, node, v[1])
  BY Bounds DEF IInv, Raises
<1>2. CASE Handle(node, onReceiveDeliver(node, v))
  BY <1>1, <1>2, onReceiveDeliverOK, HandleStep
<1>3. CASE Handle(node, Tent(node, v))
  <2>1. NodeOK(Tent(node, v)) /\ Raises(node, Tent(node, v), v[1] + 1)
    BY <1>1, TentOK DEF Raises
  <2> QED
    BY <1>1, <1>3, <2>1, HandleStep
<1> QED
  BY <1>2, <1>3 DEF ReceiveEcho

LEMMA ProposeStep ==
    ASSUME IInv, Propose
    PROVE  IInv' /\ [P!ProposerNext]_(P!proposerVars)
<1> DEFINE r == Head(proposeChan).Round
           e == Edges(node, r)
           c == [proposed |-> TRUE, at |-> e.at, strong |-> e.strong, weak |-> e.weak]
<1>1. /\ node' = [node EXCEPT !.hasConn = e.hasConn, !.weakWait = @ \ e.popped]
      /\ conns' = [conns EXCEPT ![r] = c]
      /\ P!Propose
  BY DEF Propose
<1>2. /\ e.strong \subseteq Vertex /\ e.weak \subseteq Vertex
      /\ e.hasConn \subseteq 1..MaxVertexRound
  <2> DEFINE strong == IF r = 1 THEN {} ELSE getConnections(node, r)
             hasConn == node.hasConn \cup {v[1] : v \in {x \in strong : Own(x)}}
             popped == IF r = 1 THEN {} ELSE Popped(node, hasConn, N - Cardinality(strong))
  <2>1. strong \subseteq Vertex
    BY DEF getConnections, InRound, IInv, NodeOK, NodeState
  <2>2. hasConn \subseteq 1..MaxVertexRound
    BY <2>1, Bounds DEF IInv, NodeOK, NodeState
  <2>3. popped \subseteq Vertex
    BY DEF Popped, IInv, NodeOK, NodeState
  <2>4. e = [proposed |-> TRUE, at |-> node.currRound, strong |-> strong,
             weak |-> popped \cap Usable(node, hasConn), popped |-> popped, hasConn |-> hasConn]
    BY DEF Edges
  <2> HIDE DEF e, strong, hasConn, popped
  <2> QED
    BY <2>1, <2>2, <2>3, <2>4
<1> HIDE DEF e
<1>3. NodeOK(node')
  BY <1>1, <1>2 DEF IInv, NodeOK, NodeState
<1>4. /\ conns' = [x \in 1..MaxRound |-> IF x = r THEN c ELSE conns[x]]
  BY <1>1 DEF IInv
<1>5. conns' = [x \in 1..MaxRound |-> conns'[x]]
  BY <1>4
<1>6. \A x \in 1..MaxRound : conns'[x].proposed =>
          conns'[x].strong \subseteq Vertex /\ conns'[x].weak \subseteq Vertex
  BY <1>2, <1>4 DEF IInv, Proposed
<1> QED
  BY <1>1, <1>3, <1>5, <1>6 DEF IInv, Proposed, P!ProposerNext

LEMMA NextIInv ==
    IInv /\ [RoundsNext]_roundsVars => IInv' /\ [P!ProposerNext]_(P!proposerVars)
<1> SUFFICES ASSUME IInv, [RoundsNext]_roundsVars
             PROVE  IInv' /\ [P!ProposerNext]_(P!proposerVars)
  OBVIOUS
<1>1. ASSUME NodeOK(node'), UNCHANGED conns PROVE IInv'
  BY <1>1 DEF IInv, Proposed
<1>2. ASSUME NEW v \in Vertex, ReceiveVal(v) \/ ReceiveEcho(v)
      PROVE  IInv' /\ [P!ProposerNext]_(P!proposerVars)
  BY <1>1, <1>2, ReceiveValStep, ReceiveEchoStep
<1>3. CASE Propose
  BY <1>3, ProposeStep
<1>4. CASE ProposeLoop
  <2>1. IInv'
    BY <1>1, <1>4 DEF ProposeLoop, IInv
  <2> QED
    BY <1>4, <2>1 DEF ProposeLoop, P!ProposerNext
<1>5. CASE UNCHANGED roundsVars
  <2>1. UNCHANGED <<node, conns, otherProposerVars>>
    BY <1>5 DEF roundsVars
  <2>2. IInv'
    BY <1>1, <2>1 DEF IInv
  <2> QED
    BY <2>1, <2>2 DEF otherProposerVars, P!proposerVars, P!clientVars, P!batchVars
<1> QED
  BY <1>2, <1>3, <1>4, <1>5 DEF RoundsNext

----------------------------------------------------------------------------
(***************************************************************************)
(* The maps of the node and the edges of its vertices have their types.    *)
(***************************************************************************)
THEOREM TypeCorrect == RoundsSpec => []RoundsTypeOK
<1>1. IInv => RoundsTypeOK
  BY DEF IInv, NodeOK, RoundsTypeOK
<1> QED
  BY <1>1, InitIInv, NextIInv, PTL DEF RoundsSpec

(***************************************************************************)
(* The node with its DAG implements Proposer: newRound, whichever vertex   *)
(* completes a round, starts only what the main loop there may start.      *)
(***************************************************************************)
THEOREM ImplementsProposer == RoundsSpec => RoundsOnlyRise
<1>1. RoundsInit => P!ProposerInit
  BY DEF RoundsInit
<1> QED
  BY <1>1, InitIInv, NextIInv, PTL DEF RoundsSpec, RoundsOnlyRise, P!ProposerSpec

----------------------------------------------------------------------------
(***************************************************************************)
(* What is proved of Proposer holds here.  P is the instance of Proposer   *)
(* in Rounds, PP that in ProposerProofs; their definitions are the same.   *)
(***************************************************************************)
LEMMA SameNext == [P!ProposerNext]_(P!proposerVars) => [PP!ProposerNext]_(PP!proposerVars)
<1>1. \A k : P!ReceiveRequest(k) <=> PP!ReceiveRequest(k)
  BY DEF P!ReceiveRequest, PP!ReceiveRequest, P!batchVars, PP!batchVars
<1>2. P!TimerFires <=> PP!TimerFires
  BY DEF P!TimerFires, PP!TimerFires, P!clientVars, PP!clientVars, P!Selecting, PP!Selecting,
         P!Started, PP!Started, P!getBatch, PP!getBatch
<1>3. P!TakeRequest <=> PP!TakeRequest
  BY DEF P!TakeRequest, PP!TakeRequest, P!Selecting, PP!Selecting, P!Started, PP!Started
<1>4. P!TakeRound <=> PP!TakeRound
  BY DEF P!TakeRound, PP!TakeRound, P!clientVars, PP!clientVars, P!Selecting, PP!Selecting,
         P!Started, PP!Started, P!getBatch, PP!getBatch
<1>5. P!SendBlock <=> PP!SendBlock
  BY DEF P!SendBlock, PP!SendBlock, P!clientVars, PP!clientVars, P!batchVars, PP!batchVars
<1>6. P!Announce <=> PP!Announce
  BY DEF P!Announce, PP!Announce, P!clientVars, PP!clientVars, P!batchVars, PP!batchVars
<1>7. P!Propose <=> PP!Propose
  BY DEF P!Propose, PP!Propose, P!clientVars, PP!clientVars, P!batchVars, PP!batchVars,
         P!MainIdle, PP!MainIdle, P!Started, PP!Started
<1>8. \A rounds : P!StartRounds(rounds) <=> PP!StartRounds(rounds)
  BY DEF P!StartRounds, PP!StartRounds, P!clientVars, PP!clientVars, P!batchVars, PP!batchVars,
         P!MainIdle, PP!MainIdle, P!Started, PP!Started, P!newRound, PP!newRound
<1>9. P!Rises = PP!Rises /\ P!Request = PP!Request
  BY DEF P!Rises, PP!Rises, P!Request, PP!Request, P!Round, PP!Round
<1>10. UNCHANGED P!proposerVars <=> UNCHANGED PP!proposerVars
  BY DEF P!proposerVars, PP!proposerVars, P!clientVars, PP!clientVars, P!batchVars, PP!batchVars
<1>11. P!ProposerNext <=> PP!ProposerNext
  BY <1>1, <1>2, <1>3, <1>4, <1>5, <1>6, <1>7, <1>8, <1>9 DEF P!ProposerNext, PP!ProposerNext
<1> QED
  BY <1>10, <1>11

LEMMA RoundsAreProposed == RoundsSpec => []P!ProposerTypeOK /\ []P!RoundsInOrder
<1>1. PP!ProposerAssumption
  BY ChannelsAssumption DEF P!ProposerAssumption, PP!ProposerAssumption
<1>2. RoundsSpec => PP!ProposerSpec
  <2>1. RoundsInit => PP!ProposerInit
    BY DEF RoundsInit, P!ProposerInit, PP!ProposerInit
  <2>2. IInv /\ [RoundsNext]_roundsVars => IInv' /\ [PP!ProposerNext]_(PP!proposerVars)
    BY NextIInv, SameNext
  <2> QED
    BY <2>1, <2>2, InitIInv, PTL DEF RoundsSpec, PP!ProposerSpec
<1>3. PP!ProposerSpec => []PP!ProposerTypeOK
  BY <1>1, PP!TypeCorrect
<1>4. PP!ProposerSpec => []PP!RoundsInOrder
  BY <1>1, PP!ProposalsInOrder
<1>5. PP!ProposerTypeOK => P!ProposerTypeOK
  BY DEF P!ProposerTypeOK, PP!ProposerTypeOK, P!BlockInfo, PP!BlockInfo, P!Round, PP!Round,
         P!Request, PP!Request
<1>6. PP!RoundsInOrder => P!RoundsInOrder
  BY DEF P!RoundsInOrder, PP!RoundsInOrder, P!Blocks, PP!Blocks
<1>7. []PP!ProposerTypeOK => []P!ProposerTypeOK
  BY <1>5, PTL
<1>8. []PP!RoundsInOrder => []P!RoundsInOrder
  BY <1>6, PTL
<1> QED
  BY <1>2, <1>3, <1>4, <1>7, <1>8

----------------------------------------------------------------------------
(***************************************************************************)
(* Weak edges.  What waits for one is of an earlier round, or the own      *)
(* vertex of the current one, which has been proposed then: it could only  *)
(* get an edge from itself if its round were proposed twice.               *)
(***************************************************************************)
Late(s, v) == v[1] < s.currRound \/ (v[1] = s.currRound /\ Own(v))

Back ==
    /\ \A v \in node.weakWait : Late(node, v)
    /\ \A v \in node.weakWait \cup node.valDAG : Own(v) => Proposed(v[1])
    /\ \A r \in 1..MaxRound : Proposed(r) => \E i \in 1..Len(myBlocks) : myBlocks[i].Round = r
    /\ WeaksPointBack

\* What a handler for a message of v adds.
Adds(s, t, v) ==
    /\ s.currRound <= t.currRound
    /\ t.valDAG \subseteq s.valDAG \cup {v}
    /\ \A x \in t.weakWait : x \in s.weakWait \/ (x = v /\ Late(t, v))

LEMMA AddsComposed ==
    ASSUME NEW s, NEW t, NEW u, NodeOK(s), NodeOK(t), NodeOK(u), NEW v \in Vertex,
           Adds(s, t, v), Adds(t, u, v)
    PROVE  Adds(s, u, v)
<1>1. /\ s.currRound \in Nat /\ t.currRound \in Nat /\ u.currRound \in Nat /\ v[1] \in Nat
      /\ s.currRound <= t.currRound /\ t.currRound <= u.currRound
  BY Bounds DEF NodeOK, NodeState, Adds
<1>2. Late(t, v) => Late(u, v)
  BY <1>1 DEF Late
<1> QED
  BY <1>1, <1>2 DEF Adds

LEMMA tryAddDAGAdds ==
    ASSUME NEW s, NodeOK(s), NEW r \in 0..MaxVertexRound, NEW vs \in SUBSET Vertex, NEW v
    PROVE  Adds(s, tryAddDAG(s, vs, r), v)
<1> DEFINE new == vs \ s.DAG
           t == [s EXCEPT !.DAG = @ \cup new, !.weakCerts = @ \ new,
                          !.virtualVertexBuffer = @ \ new]
<1>1. /\ t.currRound = s.currRound /\ t.valDAG = s.valDAG /\ t.weakWait = s.weakWait
      /\ t \in NodeState
  BY DEF NodeOK, NodeState
<1>2. tryAddDAG(s, vs, r) \in {t, newRound(t, r + 1)}
  BY DEF tryAddDAG
<1> HIDE DEF t
<1>3. /\ newRound(t, r + 1).valDAG = t.valDAG /\ newRound(t, r + 1).weakWait = t.weakWait
  BY <1>1 DEF newRound, NodeState
<1>4. Raises(s, tryAddDAG(s, vs, r), r + 1) /\ NodeOK(tryAddDAG(s, vs, r))
  BY tryAddDAGOK
<1>5. s.currRound <= tryAddDAG(s, vs, r).currRound
  BY <1>4, Bounds DEF Raises, NodeOK, NodeState
<1> QED
  BY <1>1, <1>2, <1>3, <1>5 DEF Adds

LEMMA onReceiveDeliverAdds ==
    ASSUME NEW s, NodeOK(s), NEW v \in Vertex
    PROVE  Adds(s, onReceiveDeliver(s, v), v)
<1> DEFINE late == v[1] < s.currRound \/ (v[1] = s.currRound /\ Own(v))
           t == [s EXCEPT !.HRBCTerminated = @ \cup {v}, !.certs = @ \cup {v}]
           u == IF late /\ v \notin t.hasWeak
                THEN [t EXCEPT !.weakWait = @ \cup {v}, !.hasWeak = @ \cup {v}] ELSE t
<1>1. NodeOK(t) /\ t.currRound = s.currRound /\ t.valDAG = s.valDAG /\ t.weakWait = s.weakWait
  BY DEF NodeOK, NodeState
<1>2. onReceiveDeliver(s, v) = tryAddDAG(u, {v}, v[1])
  BY DEF onReceiveDeliver
<1>3. late = Late(s, v)
  BY DEF Late
<1> HIDE DEF t, late
<1>4. /\ NodeOK(u) /\ u.currRound = s.currRound /\ u.valDAG = s.valDAG
      /\ \A x \in u.weakWait : x \in s.weakWait \/ (x = v /\ late)
  BY <1>1 DEF NodeOK, NodeState
<1> HIDE DEF u
<1>5. s.currRound \in Nat /\ v[1] \in 0..MaxVertexRound /\ {v} \in SUBSET Vertex
  BY Bounds DEF NodeOK, NodeState
<1>6. Adds(s, u, v)
  <2>1. Late(s, v) => Late(u, v)
    BY <1>4 DEF Late
  <2>2. \A x \in u.weakWait : x \in s.weakWait \/ (x = v /\ Late(u, v))
    BY <1>3, <1>4, <2>1
  <2>3. s.currRound <= u.currRound
    BY <1>4, <1>5
  <2> QED
    BY <1>4, <2>2, <2>3 DEF Adds
<1>7. Adds(u, tryAddDAG(u, {v}, v[1]), v) /\ NodeOK(tryAddDAG(u, {v}, v[1]))
  BY <1>4, <1>5, tryAddDAGAdds, tryAddDAGOK
<1> QED
  BY <1>2, <1>4, <1>6, <1>7, AddsComposed

LEMMA TentAdds ==
    ASSUME NEW s, NodeOK(s), NEW v \in Vertex, NEW x
    PROVE  Adds(s, Tent(s, v), x)
  BY Bounds DEF Adds, Tent, NodeOK, NodeState

LEMMA addQCsAdds ==
    ASSUME NEW s, NodeOK(s), NEW r \in 0..MaxVertexRound, NEW qcs \in SUBSET Vertex, NEW v \in Vertex
    PROVE  Adds(s, addQCs(s, qcs, r), v)
<1> DEFINE t == [s EXCEPT !.certs = @ \cup qcs,
                          !.virtualVertexBuffer = @ \cup (qcs \ (s.DAG \cup s.valDAG))]
<1>1. NodeOK(t) /\ t.currRound = s.currRound /\ t.valDAG = s.valDAG /\ t.weakWait = s.weakWait
  BY DEF NodeOK, NodeState
<1>2. addQCs(s, qcs, r) = tryAddDAG(t, qcs \cap s.valDAG, r)
  BY DEF addQCs
<1> HIDE DEF t
<1>3. Adds(t, tryAddDAG(t, qcs \cap s.valDAG, r), v)
  BY <1>1, tryAddDAGAdds
<1> QED
  BY <1>1, <1>2, <1>3 DEF Adds

LEMMA handleValAdds ==
    ASSUME NEW s, NodeOK(s), NEW v \in Vertex, NEW echoes
    PROVE  Adds(s, handleVal(s, v, echoes), v)
<1> DEFINE t == [s EXCEPT !.valDAG = @ \cup {v}]
           u == IF echoes = "none" THEN t ELSE Tent(t, v)
           w == IF v \in u.virtualVertexBuffer THEN tryAddDAG(u, {v}, v[1]) ELSE u
<1>1. NodeOK(t)
  BY DEF NodeOK, NodeState
<1>2. Adds(s, t, v)
  BY Bounds DEF Adds, NodeOK, NodeState
<1>3. handleVal(s, v, echoes) = IF echoes = "full" THEN onReceiveDeliver(w, v) ELSE w
  BY DEF handleVal
<1> HIDE DEF t
<1>4. \A x : NodeOK(x) => Adds(x, x, v)
  BY Bounds DEF Adds, NodeOK, NodeState
<1>5. NodeOK(u) /\ Adds(t, u, v)
  BY <1>1, <1>4, TentOK, TentAdds
<1> HIDE DEF u
<1>6. v[1] \in 0..MaxVertexRound /\ {v} \in SUBSET Vertex
  BY Bounds
<1>7. NodeOK(w) /\ Adds(u, w, v)
  BY <1>4, <1>5, <1>6, tryAddDAGOK, tryAddDAGAdds
<1> HIDE DEF w
<1>8. Adds(s, w, v)
  BY <1>1, <1>2, <1>5, <1>7, AddsComposed
<1>9. NodeOK(onReceiveDeliver(w, v)) /\ Adds(w, onReceiveDeliver(w, v), v)
  BY <1>7, onReceiveDeliverOK, onReceiveDeliverAdds
<1> QED
  BY <1>3, <1>7, <1>8, <1>9, AddsComposed

LEMMA HandleBack ==
    ASSUME IInv, Back, NEW v \in Vertex, Own(v) => Proposed(v[1]),
           NEW u, NodeOK(u), Adds(node, u, v),
           node' = u, UNCHANGED <<conns, myBlocks>>
    PROVE  Back'
<1>1. \A x \in node.weakWait : Late(node, x) => Late(u, x)
  BY Bounds DEF Late, Adds, IInv, NodeOK, NodeState
<1>2. \A x \in u.weakWait : Late(u, x) /\ (Own(x) => Proposed(x[1]))
  BY <1>1 DEF Adds, Back
<1>3. \A x \in u.valDAG : Own(x) => Proposed(x[1])
  BY DEF Adds, Back
<1>4. \A x \in node'.weakWait : Late(node', x)
  BY <1>2
<1> QED
  BY <1>2, <1>3, <1>4 DEF Back, Proposed, WeaksPointBack, Late

LEMMA ReceiveBack ==
    ASSUME IInv, Back, NEW v \in Vertex, ReceiveVal(v) \/ ReceiveEcho(v)
    PROVE  Back'
<1>1. CASE ReceiveVal(v)
  <2>1. PICK qcs \in Parents(v[1]), echoes \in {"none", "tent", "full"} :
           LET t == addQCs(node, qcs, v[1] - 1) IN Handle(t, handleVal(t, v, echoes))
    BY <1>1 DEF ReceiveVal
  <2> DEFINE t == addQCs(node, qcs, v[1] - 1)
             u == handleVal(t, v, echoes)
  <2>2. v[1] - 1 \in 0..MaxVertexRound
    BY Bounds
  <2>3. qcs \in SUBSET Vertex
    <3>1. CASE v[1] = 1
      BY <3>1 DEF Parents
    <3>2. CASE v[1] # 1
      <4>1. v[1] - 1 \in 1..MaxVertexRound
        BY <3>2, Bounds
      <4>2. qcs \subseteq {v[1] - 1} \X Node
        BY <3>2 DEF Parents
      <4> QED
        BY <4>1, <4>2 DEF Vertex
    <3> QED
      BY <3>1, <3>2
  <2>4. NodeOK(t) /\ Adds(node, t, v)
    BY <2>2, <2>3, addQCsOK, addQCsAdds DEF IInv
  <2>5. node' = u /\ UNCHANGED <<conns, myBlocks>>
    BY <2>1 DEF Handle, otherProposerVars
  <2> HIDE DEF t
  <2>6. NodeOK(u) /\ Adds(t, u, v)
    BY <2>4, handleValOK, handleValAdds
  <2> HIDE DEF u
  <2>7. Adds(node, u, v)
    BY <2>4, <2>6, AddsComposed DEF IInv
  <2>8. Own(v) => Proposed(v[1])
    BY <1>1 DEF ReceiveVal, Exists
  <2> QED
    BY <2>5, <2>6, <2>7, <2>8, HandleBack
<1>2. CASE ReceiveEcho(v)
  <2>1. v \in node.valDAG
    BY <1>2 DEF ReceiveEcho
  <2>2. PICK u \in {onReceiveDeliver(node, v), Tent(node, v)} : Handle(node, u)
    BY <1>2 DEF ReceiveEcho
  <2>3. NodeOK(u) /\ Adds(node, u, v)
    BY onReceiveDeliverOK, onReceiveDeliverAdds, TentOK, TentAdds DEF IInv
  <2>4. node' = u /\ UNCHANGED <<conns, myBlocks>>
    BY <2>2 DEF Handle, otherProposerVars
  <2>5. Own(v) => Proposed(v[1])
    BY <2>1 DEF Back
  <2> QED
    BY <2>3, <2>4, <2>5, HandleBack
<1> QED
  BY <1>1, <1>2

\* A block is not proposed in a round that has been proposed.
LEMMA FirstOfRound ==
    ASSUME P!RoundsInOrder, P!ProposerTypeOK, proposeChan # << >>,
           NEW i \in 1..Len(myBlocks)
    PROVE  myBlocks[i].Round < Head(proposeChan).Round
<1> DEFINE n == Len(myBlocks)
           s == myBlocks \o proposeChan
<1>1. /\ myBlocks \in Seq(P!BlockInfo) /\ proposeChan \in Seq(P!BlockInfo)
      /\ sending \in Seq(P!BlockInfo)
  BY DEF P!ProposerTypeOK
<1>2. n \in Nat /\ Len(proposeChan) \in Nat \ {0} /\ Len(sending) \in Nat
  BY <1>1, LenProperties, EmptySeq
<1>3. /\ s \in Seq(P!BlockInfo) /\ Len(s) = n + Len(proposeChan)
      /\ \A j \in 1..(n + Len(proposeChan)) : s[j] = IF j <= n THEN myBlocks[j] ELSE proposeChan[j - n]
  BY <1>1, ConcatProperties
<1>4. s[i] = myBlocks[i] /\ s[n + 1] = Head(proposeChan)
  <2>1. /\ i \in 1..(n + Len(proposeChan)) /\ i <= n
        /\ n + 1 \in 1..(n + Len(proposeChan)) /\ ~(n + 1 <= n) /\ (n + 1) - n = 1
    BY <1>2
  <2> QED
    BY <1>1, <1>3, <2>1
<1> HIDE DEF s
<1>5. /\ Len(s \o sending) = Len(s) + Len(sending) /\ s \o sending \in Seq(P!BlockInfo)
      /\ \A j \in 1..(Len(s) + Len(sending)) :
            (s \o sending)[j] = IF j <= Len(s) THEN s[j] ELSE sending[j - Len(s)]
  <2>1. s \in Seq(P!BlockInfo) /\ sending \in Seq(P!BlockInfo)
    BY <1>1, <1>3
  <2> QED
    BY <2>1, ConcatProperties
<1>6. P!Blocks = s \o sending
  BY DEF P!Blocks, s
<1>7. /\ i \in 1..(Len(s) + Len(sending)) /\ i <= Len(s)
      /\ n + 1 \in 1..(Len(s) + Len(sending)) /\ n + 1 <= Len(s) /\ i < n + 1
  BY <1>2, <1>3
<1>8. /\ i \in DOMAIN P!Blocks /\ n + 1 \in DOMAIN P!Blocks
      /\ P!Blocks[i] = myBlocks[i] /\ P!Blocks[n + 1] = Head(proposeChan)
  BY <1>4, <1>5, <1>6, <1>7, LenProperties
<1> QED
  BY <1>7, <1>8 DEF P!RoundsInOrder

LEMMA ProposeBack ==
    ASSUME IInv, Back, P!RoundsInOrder, P!ProposerTypeOK, Propose
    PROVE  Back'
<1> DEFINE block == Head(proposeChan)
           r == block.Round
           e == Edges(node, r)
           c == [proposed |-> TRUE, at |-> e.at, strong |-> e.strong, weak |-> e.weak]
<1>1. /\ node' = [node EXCEPT !.hasConn = e.hasConn, !.weakWait = @ \ e.popped]
      /\ conns' = [conns EXCEPT ![r] = c]
      /\ myBlocks' = Append(myBlocks, block) /\ proposeChan # << >>
  BY DEF Propose, P!Propose
<1>2. e.at = node.currRound /\ e.weak \subseteq node.weakWait
  BY DEF Edges, Usable
<1> HIDE DEF e
<1>3. /\ node'.currRound = node.currRound /\ node'.valDAG = node.valDAG
      /\ node'.weakWait \subseteq node.weakWait
  BY <1>1 DEF IInv, NodeOK, NodeState
<1>4. conns' = [x \in 1..MaxRound |-> IF x = r THEN c ELSE conns[x]]
  BY <1>1 DEF IInv
<1>5. /\ myBlocks \in Seq(P!BlockInfo) /\ block \in P!BlockInfo
  BY <1>1, HeadTailProperties DEF P!ProposerTypeOK
<1>6. /\ Len(myBlocks) \in Nat /\ Len(myBlocks') = Len(myBlocks) + 1
      /\ myBlocks'[Len(myBlocks) + 1] = block
      /\ \A i \in 1..Len(myBlocks) : myBlocks'[i] = myBlocks[i]
  BY <1>1, <1>5, AppendProperties, LenProperties
<1> HIDE DEF block
<1>7. /\ \A x \in 1..MaxRound : conns[x].proposed \/ x = r => conns'[x].proposed
      /\ \A x \in 1..MaxRound : conns'[x].proposed => x = r \/ conns[x].proposed
      /\ \A x \in 1..MaxRound : x # r => conns'[x] = conns[x]
  BY <1>4
<1>8. \A v \in node'.weakWait : Late(node', v)
  BY <1>3 DEF Back, Late
<1>9. \A v \in node'.weakWait \cup node'.valDAG : Own(v) => conns'[v[1]].proposed
  <2>1. \A v \in Vertex : v[1] \in 1..MaxRound
    BY Bounds
  <2>2. node.weakWait \subseteq Vertex /\ node.valDAG \subseteq Vertex
    BY DEF IInv, NodeOK, NodeState
  <2> QED
    BY <1>3, <1>7, <2>1, <2>2 DEF Back, Proposed
<1>10. \A x \in 1..MaxRound : conns'[x].proposed =>
           \E i \in 1..Len(myBlocks') : myBlocks'[i].Round = x
  <2> SUFFICES ASSUME NEW x \in 1..MaxRound, conns'[x].proposed
               PROVE  \E i \in 1..Len(myBlocks') : myBlocks'[i].Round = x
    OBVIOUS
  <2>1. CASE x = r
    <3>1. Len(myBlocks) + 1 \in 1..Len(myBlocks')
      BY <1>6
    <3> QED
      BY <1>6, <2>1, <3>1
  <2>2. CASE x # r
    <3>1. PICK i \in 1..Len(myBlocks) : myBlocks[i].Round = x
      BY <1>7, <2>2 DEF Back, Proposed
    <3>2. i \in 1..Len(myBlocks')
      BY <1>6
    <3> QED
      BY <1>6, <3>1, <3>2
  <2> QED
    BY <2>1, <2>2
<1>11. r \in 1..MaxRound /\ conns[r].proposed => FALSE
  <2> SUFFICES ASSUME r \in 1..MaxRound, conns[r].proposed PROVE FALSE
    OBVIOUS
  <2>1. PICK i \in 1..Len(myBlocks) : myBlocks[i].Round = r
    BY DEF Back, Proposed
  <2>2. myBlocks[i].Round < r
    BY <1>1, FirstOfRound DEF block
  <2>3. r \in Nat
    BY Bounds
  <2> QED
    BY <2>1, <2>2, <2>3
<1>12. ASSUME NEW x \in 1..MaxRound, conns'[x].proposed, conns'[x].at = x,
              NEW v \in conns'[x].weak
       PROVE  v[1] < x
  <2>1. CASE x = r
    <3>1. v \in node.weakWait /\ x = node.currRound
      BY <1>2, <1>4, <1>12, <2>1
    <3>2. CASE v[1] < node.currRound
      BY <3>1, <3>2
    <3>3. CASE v[1] = node.currRound /\ Own(v)
      BY <1>11, <2>1, <3>1, <3>3 DEF Back, Proposed
    <3> QED
      BY <3>1, <3>2, <3>3 DEF Back, Late
  <2>2. CASE x # r
    BY <1>7, <1>12, <2>2 DEF Back, WeaksPointBack, Proposed
  <2> QED
    BY <2>1, <2>2
<1> QED
  BY <1>8, <1>9, <1>10, <1>12 DEF Back, WeaksPointBack, Proposed, Late

LEMMA NextBack ==
    /\ IInv /\ Back /\ P!RoundsInOrder /\ P!ProposerTypeOK
    /\ [RoundsNext]_roundsVars
    => Back'
<1> SUFFICES ASSUME IInv, Back, P!RoundsInOrder, P!ProposerTypeOK, [RoundsNext]_roundsVars
             PROVE  Back'
  OBVIOUS
<1>1. ASSUME UNCHANGED <<node, conns, myBlocks>> PROVE Back'
  BY <1>1 DEF Back, Proposed, WeaksPointBack, Late
<1>2. CASE ProposeLoop
  BY <1>1, <1>2 DEF ProposeLoop, P!ReceiveRequest, P!TimerFires, P!TakeRequest, P!TakeRound,
                    P!SendBlock, P!Announce
<1>3. CASE UNCHANGED roundsVars
  BY <1>1, <1>3 DEF roundsVars, otherProposerVars
<1> QED
  BY <1>2, <1>3, ReceiveBack, ProposeBack DEF RoundsNext

LEMMA InitBack == RoundsInit => Back
  BY DEF RoundsInit, NotProposed, Back, Proposed, WeaksPointBack

(***************************************************************************)
(* No vertex that is proposed in its own round has a weak edge to that     *)
(* round or a later one, in particular none to itself.                     *)
(***************************************************************************)
THEOREM WeakEdgesPointBack == RoundsSpec => []WeaksPointBack
<1>1. Back => WeaksPointBack
  BY DEF Back
<1> QED
  BY <1>1, RoundsAreProposed, InitIInv, NextIInv, InitBack, NextBack, PTL DEF RoundsSpec
=============================================================================
