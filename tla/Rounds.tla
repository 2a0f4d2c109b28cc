------------------------------ MODULE Rounds ------------------------------
(***************************************************************************)
(* The rounds of one node, Self: how the vertices of all nodes reach its   *)
(* DAG (each by a certified broadcast, HRBC), when it starts a round       *)
(* (adaptive wait), and the edges of the vertices it proposes.  Between    *)
(* the start of a round and the proposal in it lie the channels and the    *)
(* batching loop of Proposer, and messages are handled meanwhile.          *)
(*                                                                         *)
(* Of the broadcast of a vertex the module keeps what the rounds depend    *)
(* on: the VAL, the weak certificate, the certificate, and the entry into  *)
(* the DAG by a certificate that a next-round VAL carries.                 *)
(***************************************************************************)
EXTENDS Naturals, Sequences, FiniteSets

CONSTANTS
    N, F,           \* cfg.N, cfg.F; the nodes are 1..N
    Self,           \* the node
    Absent,         \* nodes never started
    attackSim,      \* option -a: wait for all N vertices
    Split,          \* vertices whose messages are handled one by one; of the
                    \* others the VAL comes last and completes everything
    MaxVertexRound, \* bound: rounds of the vertices that reach the DAG
    Interval, MaxBatchSize, TryCap, ProposeCap, MaxRequest, MaxRound

Node == 1..N
Vertex == (1..MaxVertexRound) \X Node
Own(v) == v[2] = Self

ASSUME RoundsAssumption ==
    /\ N \in Nat /\ F \in Nat /\ 3 * F < N
    /\ Self \in Node /\ Absent \subseteq Node \ {Self} /\ Cardinality(Absent) <= F
    /\ attackSim \in BOOLEAN /\ Split \subseteq Vertex
    /\ MaxVertexRound \in Nat \ {0} /\ MaxRound \in Nat /\ MaxRound > MaxVertexRound

VARIABLES
    node,           \* the maps of the Node struct that the rounds depend on
    conns,          \* conns[r]: the edges of the own vertex of round r
    received, clientChan, currBatch, reqNum, startId, fired, proposeflag,
    sending, tryProposeChan, proposeChan, announcing, myBlocks

P == INSTANCE Proposer WITH currRound <- node.currRound

ASSUME ChannelsAssumption == P!ProposerAssumption

otherProposerVars ==
    <<received, clientChan, currBatch, reqNum, startId, fired, proposeflag,
      sending, tryProposeChan, proposeChan, announcing, myBlocks>>
roundsVars == <<node, conns, otherProposerVars>>

NodeState ==
    [currRound: 1..MaxRound,
     valDAG: SUBSET Vertex,              \* VAL handled
     hasTent: SUBSET Vertex,             \* weak certificate built, once
     weakCerts: SUBSET Vertex,           \* and waited for
     HRBCTerminated: SUBSET Vertex,      \* delivered
     certs: SUBSET Vertex,               \* certificate known
     virtualVertexBuffer: SUBSET Vertex, \* certificate known, VAL not handled
     DAG: SUBSET Vertex,
     weakWait: SUBSET Vertex, hasWeak: SUBSET Vertex,
     hasConn: SUBSET (1..MaxVertexRound)]

NotProposed == [proposed |-> FALSE]

RoundsInit ==
    /\ node = [currRound |-> 1, valDAG |-> {}, hasTent |-> {}, weakCerts |-> {},
               HRBCTerminated |-> {}, certs |-> {}, virtualVertexBuffer |-> {}, DAG |-> {},
               weakWait |-> {}, hasWeak |-> {}, hasConn |-> {}]
    /\ conns = [r \in 1..MaxRound |-> NotProposed]
    /\ P!ProposerInit

----------------------------------------------------------------------------
(***************************************************************************)
(* The functions of node.go, on the record s of the node.                  *)
(***************************************************************************)
InRound(vs, r) == {v \in vs : v[1] = r}

\* Adaptive wait: N-F vertices in the DAG, and none that has a weak certificate missing.
RoundOver(s, r) ==
    IF attackSim THEN Cardinality(InRound(s.DAG, r)) = N
    ELSE /\ Cardinality(InRound(s.DAG, r)) >= N - F
         /\ InRound(s.weakCerts, r) = {}

\* Also back to a round that is over.
newRound_X(s, r) == [s EXCEPT !.currRound = r]

newRound(s, r) == IF s.currRound >= r THEN s ELSE [s EXCEPT !.currRound = r]

\* The round after the next one.
tryAddDAG_X(s, vs, r) ==
    LET new == vs \ s.DAG
        t == [s EXCEPT !.DAG = @ \cup new, !.weakCerts = @ \ new,
                       !.virtualVertexBuffer = @ \ new]
    IN  IF new # {} /\ RoundOver(t, r) THEN newRound(t, r + 2) ELSE t

\* The vertices vs, of one round r, enter the DAG one after the other.
tryAddDAG(s, vs, r) ==
    LET new == vs \ s.DAG
        t == [s EXCEPT !.DAG = @ \cup new, !.weakCerts = @ \ new,
                       !.virtualVertexBuffer = @ \ new]
    IN  IF new # {} /\ RoundOver(t, r) THEN newRound(t, r + 1) ELSE t

\* F+1 echoes: the weak certificate is built, also when the vertex is in the DAG.
Tent(s, v) ==
    IF v \in s.hasTent THEN s
    ELSE [s EXCEPT !.hasTent = @ \cup {v}, !.weakCerts = @ \cup {v}]

\* Vertices of later rounds are queued as well.
onReceiveDeliver_X(s, v) ==
    LET late == v[1] # s.currRound \/ Own(v)
        t == [s EXCEPT !.HRBCTerminated = @ \cup {v}, !.certs = @ \cup {v}]
        u == IF late /\ v \notin t.hasWeak
             THEN [t EXCEPT !.weakWait = @ \cup {v}, !.hasWeak = @ \cup {v}] ELSE t
    IN  tryAddDAG(u, {v}, v[1])

\* The own vertex is queued only if its round is over.
onReceiveDeliver_own_X(s, v) ==
    LET late == v[1] < s.currRound /\ ~(Own(v) /\ v \in s.DAG)
        t == [s EXCEPT !.HRBCTerminated = @ \cup {v}, !.certs = @ \cup {v}]
        u == IF late /\ v \notin t.hasWeak
             THEN [t EXCEPT !.weakWait = @ \cup {v}, !.hasWeak = @ \cup {v}] ELSE t
    IN  tryAddDAG(u, {v}, v[1])

\* N-F echoes: certified.  A vertex that comes too late for a strong edge, and
\* the own one, which may miss it, is queued for a weak edge.
onReceiveDeliver(s, v) ==
    LET late == v[1] < s.currRound \/ (v[1] = s.currRound /\ Own(v))
        t == [s EXCEPT !.HRBCTerminated = @ \cup {v}, !.certs = @ \cup {v}]
        u == IF late /\ v \notin t.hasWeak
             THEN [t EXCEPT !.weakWait = @ \cup {v}, !.hasWeak = @ \cup {v}] ELSE t
    IN  tryAddDAG(u, {v}, v[1])

\* The certificates that a VAL of round r + 1 carries for the vertices qcs.
addQCs(s, qcs, r) ==
    LET t == [s EXCEPT !.certs = @ \cup qcs,
                       !.virtualVertexBuffer = @ \cup (qcs \ (s.DAG \cup s.valDAG))]
    IN  tryAddDAG(t, qcs \cap s.valDAG, r)

\* The VAL of v is handled when echoes for a weak certificate (tent), or for
\* a certificate (full), are there already, or neither.
handleVal(s, v, echoes) ==
    LET t == [s EXCEPT !.valDAG = @ \cup {v}]
        u == IF echoes = "none" THEN t ELSE Tent(t, v)
        w == IF v \in u.virtualVertexBuffer THEN tryAddDAG(u, {v}, v[1]) ELSE u
    IN  IF echoes = "full" THEN onReceiveDeliver(w, v) ELSE w

\* The strong edges of the own vertex of round r.
getConnections(s, r) == InRound(s.DAG, r - 1)

\* The priority queue hands out vertices by round, then by node.
Before(u, v) == u[1] < v[1] \/ (u[1] = v[1] /\ u[2] < v[2])

\* What getWeakConnect pops while a vertex has room for more edges: own vertices
\* with a strong edge are popped and dropped.
Usable(s, hasConn) == {v \in s.weakWait : v \in s.certs /\ ~(Own(v) /\ v[1] \in hasConn)}
Popped(s, hasConn, room) ==
    {v \in s.weakWait : Cardinality({u \in Usable(s, hasConn) : Before(u, v)}) < room}

\* The room is counted without the strong edges.
Edges_X(s, r) ==
    LET strong == IF r = 1 THEN {} ELSE getConnections(s, r)
        hasConn == s.hasConn \cup {v[1] : v \in {x \in strong : Own(x)}}
        popped == IF r = 1 THEN {} ELSE Popped(s, hasConn, N - F)
    IN  [proposed |-> TRUE, at |-> s.currRound, strong |-> strong,
         weak |-> popped \cap Usable(s, hasConn), popped |-> popped, hasConn |-> hasConn]

\* The edges of the own vertex of round r, proposed while the node is in round at.
Edges(s, r) ==
    LET strong == IF r = 1 THEN {} ELSE getConnections(s, r)
        hasConn == s.hasConn \cup {v[1] : v \in {x \in strong : Own(x)}}
        popped == IF r = 1 THEN {} ELSE Popped(s, hasConn, N - Cardinality(strong))
    IN  [proposed |-> TRUE, at |-> s.currRound, strong |-> strong,
         weak |-> popped \cap Usable(s, hasConn), popped |-> popped, hasConn |-> hasConn]

----------------------------------------------------------------------------
(***************************************************************************)
(* The vertices of the others.  A node proposes in round r when it has N-F *)
(* certified vertices of round r - 1; if there are not as many without     *)
(* Self, its own must be among them.                                       *)
(***************************************************************************)
Live == Node \ Absent
Proposed(r) == conns[r].proposed
Exists(v) ==
    IF Own(v) THEN Proposed(v[1])
    ELSE /\ v[2] \in Live
         /\ Cardinality(Live \ {Self}) >= N - F \/ \A r \in 1..(v[1] - 1) : Proposed(r)

\* The sets of vertices a VAL of round r may list.
Parents(r) ==
    IF r = 1 THEN {{}}
    ELSE {qcs \in SUBSET ({r - 1} \X Node) :
             Cardinality(qcs) >= N - F /\ \A u \in qcs : Exists(u)}

\* The rounds that a handler starts which goes from s over t to u.
Started(s, t, u) ==
    (IF t.currRound # s.currRound THEN <<t.currRound>> ELSE << >>)
       \o (IF u.currRound # t.currRound THEN <<u.currRound>> ELSE << >>)

\* mainLoop handles a message, which takes the node over t to u.
Handle(t, u) ==
    /\ P!MainIdle
    /\ node' = u
    /\ IF Started(node, t, u) = << >> THEN UNCHANGED otherProposerVars
       ELSE /\ P!newRound(Started(node, t, u))
            /\ UNCHANGED <<received, clientChan, currBatch, reqNum, startId, fired, proposeflag,
                           sending, proposeChan, myBlocks>>
    /\ UNCHANGED conns

ReceiveVal(v) ==
    /\ Exists(v) /\ v \notin node.valDAG
    /\ \E qcs \in Parents(v[1]), echoes \in {"none", "tent", "full"} :
          /\ v \notin Split => echoes = "full"
          /\ LET t == addQCs(node, qcs, v[1] - 1) IN Handle(t, handleVal(t, v, echoes))

\* The echo that completes the weak certificate, or the certificate.
ReceiveEcho(v) ==
    /\ v \in node.valDAG \ node.HRBCTerminated
    /\ IF v \in node.hasTent THEN Handle(node, onReceiveDeliver(node, v))
       ELSE Handle(node, Tent(node, v))

Propose ==
    /\ proposeChan # << >>
    /\ LET r == Head(proposeChan).Round
           e == Edges(node, r)
       IN  /\ node' = [node EXCEPT !.hasConn = e.hasConn, !.weakWait = @ \ e.popped]
           /\ conns' = [conns EXCEPT ![r] =
                          [proposed |-> TRUE, at |-> e.at, strong |-> e.strong, weak |-> e.weak]]
    /\ P!Propose

ProposeLoop ==
    /\ UNCHANGED <<node, conns>>
    /\ \/ \E k \in P!Request : P!ReceiveRequest(k)
       \/ P!TimerFires \/ P!TakeRequest \/ P!TakeRound \/ P!SendBlock \/ P!Announce

RoundsNext ==
    \/ \E v \in Vertex : ReceiveVal(v) \/ ReceiveEcho(v)
    \/ Propose \/ ProposeLoop

RoundsSpec == RoundsInit /\ [][RoundsNext]_roundsVars

(***************************************************************************)
(* Live nodes send what they have to, the network delivers it, and both    *)
(* loops of the node go on: every VAL and every echo of a vertex comes.    *)
(***************************************************************************)
RoundsFairness ==
    /\ \A v \in Vertex : WF_roundsVars(ReceiveVal(v)) /\ WF_roundsVars(ReceiveEcho(v))
    /\ WF_roundsVars(Propose) /\ WF_roundsVars(ProposeLoop)

RoundsFairSpec == RoundsSpec /\ RoundsFairness

----------------------------------------------------------------------------
RoundsTypeOK ==
    /\ node \in NodeState
    /\ node.weakCerts \subseteq node.hasTent /\ node.weakWait \subseteq node.hasWeak
    /\ \A r \in 1..MaxRound : Proposed(r) =>
          conns[r].strong \subseteq Vertex /\ conns[r].weak \subseteq Vertex

(***************************************************************************)
(* A vertex is proposed with the certificates of N-F vertices of the round *)
(* before, and with at most N edges, although the round was found complete *)
(* by another handler, two channels and a goroutine earlier.  The decision *)
(* rests on it (ValidGraph of Decide).                                     *)
(***************************************************************************)
ConnectionsQuorum ==
    \A r \in 2..MaxRound : Proposed(r) =>
        /\ Cardinality(conns[r].strong) >= N - F
        /\ conns[r].strong \cup conns[r].weak \subseteq node.certs
        /\ Cardinality(conns[r].strong) + Cardinality(conns[r].weak) <= N

(***************************************************************************)
(* A node does not forget its own vertices: one that has been certified    *)
(* has a strong edge from its next vertex, has a weak edge from a later    *)
(* one, or still waits in the queue; and it never has both edges.          *)
(***************************************************************************)
OwnNotForgotten ==
    \A v \in node.HRBCTerminated : Own(v) =>
        LET strongly == \E r \in 2..MaxRound : Proposed(r) /\ v \in conns[r].strong
            weakly   == \E r \in 2..MaxRound : Proposed(r) /\ v \in conns[r].weak
        IN  /\ v \in node.weakWait \/ strongly \/ weakly
            /\ ~(strongly /\ weakly)

(***************************************************************************)
(* A node that proposes in the round it is in gives weak edges to earlier  *)
(* rounds only, and none to its own vertex: this is WeaksPointDown, which  *)
(* the commit rests on.  A node may have started a further round by the    *)
(* time the proposal comes out of proposeLoop; then nothing holds.         *)
(***************************************************************************)
WeaksPointBack ==
    \A r \in 1..MaxRound : Proposed(r) =>
        (conns[r].at = r => \A v \in conns[r].weak : v[1] < r)

(***************************************************************************)
(* To proposeLoop the node is the main loop Proposer describes: a handler  *)
(* starts one round, or two that follow each other, and only rounds beyond *)
(* the current one, although any vertex of any round may complete it.      *)
(***************************************************************************)
RoundsOnlyRise == P!ProposerSpec

(***************************************************************************)
(* With N-F live nodes every round ends, whatever the order in which       *)
(* messages come: adaptive wait only waits for vertices that will come.    *)
(***************************************************************************)
AdaptiveWaitEnds == \A r \in 1..MaxVertexRound : <>(node.currRound > r)
=============================================================================
