------------------------------ MODULE Decide ------------------------------
(***************************************************************************)
(* How every node decides, on its own copy of the DAG, which vertices are  *)
(* committed: the fast path (addDirectConn) and the coin path              *)
(* (tryCoinPass, coinPass).                                                *)
(*                                                                         *)
(* A vertex <<round, id>> never changes once it is certified, so the DAG   *)
(* of the whole system is fixed in Init, as the connections of each of     *)
(* its vertices, and so is the leader each coin elects.  A node adds the   *)
(* vertices to its DAG in the order their certificates and VALs come:      *)
(* tryAddDAG does not wait for the parents of a vertex.  Support and       *)
(* rejection, which the code keeps in the maps directSupport,              *)
(* tentativeSupport and tentativeReject, are functions of the DAG          *)
(* (TentConnect is always empty, so that the two supports are equal).      *)
(***************************************************************************)
EXTENDS Integers, FiniteSets

CONSTANTS
    Node,       \* the identifiers 1..cfg.N, as model values
    F,          \* cfg.F
    MaxRound,   \* bound on the rounds of the DAG
    Observers,  \* the nodes whose decisions are followed
    Graphs,     \* the DAGs to choose from: conn of each
    Leaders,    \* the leaders to choose from: leader of each
    attackSim   \* the -a option of a node: no fast path

N == Cardinality(Node)
Round == 1..MaxRound
Vertex == Round \X Node

\* A graph gives each of its vertices the ids it connects to in the round
\* before, at least N-F of them and all in the graph (newRound, getConnections).
ValidGraph(g) ==
    /\ DOMAIN g \subseteq Vertex
    /\ \A v \in DOMAIN g :
          IF v[1] = 1 THEN g[v] = {}
          ELSE /\ g[v] \subseteq {i \in Node : <<v[1] - 1, i>> \in DOMAIN g}
               /\ Cardinality(g[v]) >= N - F

ASSUME DecideAssumption ==
    /\ IsFiniteSet(Node) /\ F \in Nat /\ 3 * F < N
    /\ MaxRound \in Nat \ {0, 1} /\ Observers \subseteq Node /\ attackSim \in BOOLEAN
    /\ \A g \in Graphs : ValidGraph(g)
    /\ Leaders \subseteq [Round -> Node]

VARIABLES
    conn,       \* conn[v]: the connections of the vertex v
    leader,     \* leader[r]: the node the coin of round r elects
    node        \* node[p]: the entries of observer p

vars == <<conn, leader, node>>

NodeState ==
    [DAG: SUBSET Vertex,
     decideState2: [Round -> [Node -> 0..2]],  \* 0: none; 1: decided 0; 2: decided 1
     FirstRound: -1..MaxRound,        \* the last odd round the coin has closed
     SecondRound: 0..MaxRound,        \* the last even one
     coinsBuffer: SUBSET Round,       \* rounds whose coin has been recovered
     coinRound: 2..MaxRound,          \* coins holds the leaders of 3..coinRound
     byPath: SUBSET Vertex]           \* not in the code: what Close decided
                                      \* through a leader of a later round

Blank ==
    [DAG |-> {}, decideState2 |-> [r \in Round |-> [i \in Node |-> 0]],
     FirstRound |-> -1, SecondRound |-> 0, coinsBuffer |-> {}, coinRound |-> 2,
     byPath |-> {}]

----------------------------------------------------------------------------
(***************************************************************************)
(* The edges of a DAG D.                                                   *)
(***************************************************************************)
Present(D, r) == {i \in Node : <<r, i>> \in D}

directSupport(D, r, i) == {v \in Present(D, r + 1) : i \in conn[<<r + 1, v>>]}
tentativeReject(D, r, i) == {v \in Present(D, r + 1) : i \notin conn[<<r + 1, v>>]}

\* The search goes from v1 by way of ids, one round further with each step,
\* yet it looks all of its edges up in round r1.
Path(D, r1, v1, r2, v2) ==
    /\ r1 <= r2
    /\ \E s \in [r1..r2 -> Node] :
          /\ s[r1] = v1 /\ s[r2] = v2
          /\ \A r \in r1..(r2 - 1) : s[r + 1] \in directSupport(D, r1, s[r])

----------------------------------------------------------------------------
(***************************************************************************)
(* The functions of node.go, on the record o of an observer.  An operator  *)
(* whose name ends in _X is a seeded fault of the next one, which a        *)
(* property must detect; no specification uses it.                         *)
(***************************************************************************)

\* FirstRound or SecondRound, by parity, and the next leader to wait for.
Closed(o, r) == IF r % 2 = 1 THEN o.FirstRound ELSE o.SecondRound
currLeaderRound(o, r) == Closed(o, r) + 4

\* The decisions that stand are kept, whoever made them.
Merge(old, new) == [i \in Node |-> IF old[i] # 0 THEN old[i] ELSE new[i]]

\* The vertex v, just added, is the last to support or to reject each i.
addDirectConn(o, v) ==
    LET r == v[1] - 1
        fast == [i \in Node |->
            CASE i \in conn[v] /\ Cardinality(directSupport(o.DAG, r, i)) >= N - F -> 2
              [] i \notin conn[v] /\ Cardinality(tentativeReject(o.DAG, r, i)) >= N - F -> 1
              [] OTHER -> 0]
    IN  IF r = 0 \/ attackSim THEN o
        ELSE [o EXCEPT !.decideState2[r] = Merge(@, fast)]

\* A quorum of linked supporters is asked for.
CoinDecide_X(o, r, l) ==
    LET linked(i) == {id \in directSupport(o.DAG, r, i) :
                         Path(o.DAG, r + 1, id, l, leader[l])}
        coin == [i \in Node |-> IF Cardinality(linked(i)) >= N - F THEN 2 ELSE 1]
    IN  Merge(o.decideState2[r], coin)

\* Round r by the leader of round l: F+1 supporters with a path to the leader.
CoinDecide(o, r, l) ==
    LET linked(i) == {id \in directSupport(o.DAG, r, i) :
                         Path(o.DAG, r + 1, id, l, leader[l])}
        coin == [i \in Node |-> IF Cardinality(linked(i)) >= F + 1 THEN 2 ELSE 1]
    IN  Merge(o.decideState2[r], coin)

\* The parents are not looked for.
Known_X(o, r, V) == \A id \in V : <<r + 2, id>> \in o.DAG

\* The vertices V of round r+2 and all of their parents are in the DAG.
Known(o, r, V) ==
    \A id \in V : /\ <<r + 2, id>> \in o.DAG
                  /\ \A c \in conn[<<r + 2, id>>] : <<r + 1, c>> \in o.DAG

\* The grandparents of the vertices V of round r+2.
Back(r, V) ==
    UNION {conn[<<r + 1, c>>] : c \in UNION {conn[<<r + 2, id>>] : id \in V}}

\* No round of this parity is open before r.
NothingBefore(o, r) == r <= 2 \/ r = Closed(o, r) + 2

\* The rounds decided before r make way for r itself, by the leader of l.
Then(rounds, r, l) == IF rounds = {} THEN {} ELSE rounds \cup {<<r, l>>}

(***************************************************************************)
(* The rounds r-2, r-4, ... that coinPass decides before r, each with the  *)
(* leader round that decides it; {} if it gives up.  Round r is decided by *)
(* the leader of l, through the vertices V of round r+2.                   *)
(***************************************************************************)
Before(o, r0, l0, V0) ==
    LET plan[call \in Round \X Round \X SUBSET Node] ==
            LET r == call[1]
                l == call[2]
                by(k, W) ==
                    IF ~Known(o, r - 2, W) THEN {}
                    ELSE IF NothingBefore(o, r - 2) THEN {<<r - 2, k>>}
                    ELSE Then(plan[<<r - 2, k, W>>], r - 2, k)
            IN  IF Path(o.DAG, r, leader[r], l, leader[l])
                THEN by(r, {leader[r]}) ELSE by(l, Back(r, call[3]))
    IN  plan[<<r0, l0, V0>>]

\* The rounds the leader of round l lets coinPass decide, {} if it fails.
coinPass(o, l) ==
    IF \/ Cardinality(directSupport(o.DAG, l, leader[l])) < F + 1
       \/ ~Known(o, l - 2, {leader[l]})
    THEN {}
    ELSE IF NothingBefore(o, l - 2) THEN {<<l - 2, l>>}
    ELSE Then(Before(o, l - 2, l, {leader[l]}), l - 2, l)

\* What todo newly decides in a round r by the leader of another round than
\* r+2: coinPass then counts on paths of several rounds (Path).
FarDecided(o, todo) ==
    {v \in Vertex : /\ o.decideState2[v[1]][v[2]] = 0
                    /\ \E k \in Round : k # v[1] + 2 /\ <<v[1], k>> \in todo}

\* The rounds of todo are decided, and l-2, the last of them, is closed.
Close(o, l, todo) ==
    LET decided == [r \in Round |->
            IF \E k \in Round : <<r, k>> \in todo
            THEN CoinDecide(o, r, CHOOSE k \in Round : <<r, k>> \in todo)
            ELSE o.decideState2[r]]
        closed == [o EXCEPT !.decideState2 = decided,
                            !.byPath = @ \cup FarDecided(o, todo)]
    IN  IF todo = {} THEN o
        ELSE IF l % 2 = 1 THEN [closed EXCEPT !.FirstRound = l - 2]
        ELSE [closed EXCEPT !.SecondRound = l - 2]

\* Nothing but the last of them is decided.
tryCoinPass_X(o, l) ==
    IF l > o.coinRound \/ coinPass(o, l) = {} THEN o ELSE Close(o, l, {<<l - 2, l>>})

tryCoinPass(o, l) == IF l > o.coinRound THEN o ELSE Close(o, l, coinPass(o, l))

\* The leader of round l, if its turn has come.
Trigger(o, l) == IF currLeaderRound(o, l) <= l THEN tryCoinPass(o, l) ELSE o

(***************************************************************************)
(* A new vertex v may be a supporter of a leader, a leader itself, or a    *)
(* parent of a leader.                                                     *)
(***************************************************************************)
Supports(o, v) == Trigger(o, v[1] - 1)

Leads(o, v) ==
    IF v[1] <= o.coinRound /\ leader[v[1]] = v[2] THEN Trigger(o, v[1]) ELSE o

IsParent(o, v) ==
    IF /\ v[1] + 1 <= o.coinRound
       /\ leader[v[1] + 1] \in directSupport(o.DAG, v[1], v[2])
    THEN Trigger(o, v[1] + 1) ELSE o

\* A parent that comes after the leader is forgotten.
addInDirectConn_X(o, v) == IF v[1] >= 4 THEN Leads(Supports(o, v), v) ELSE o

addInDirectConn(o, v) == IF v[1] >= 4 THEN IsParent(Leads(Supports(o, v), v), v) ELSE o

tryAddDAG(o, v) ==
    addInDirectConn(addDirectConn([o EXCEPT !.DAG = @ \cup {v}], v), v)

----------------------------------------------------------------------------
Init ==
    /\ conn \in Graphs
    /\ leader \in Leaders
    /\ node = [p \in Observers |-> Blank]

(***************************************************************************)
(* onReceiveCoin takes the coins out of coinsBuffer in the order of their  *)
(* rounds.  The steps of its loop are steps of the model; the node does    *)
(* nothing else until the loop ends.                                       *)
(***************************************************************************)
Draining(p) == node[p].coinRound + 1 \in node[p].coinsBuffer

\* A vertex has been certified and its VAL received.  A node proposes its
\* own vertices on top of its DAG.
AddVertex(p, v) ==
    /\ ~Draining(p)
    /\ v \notin node[p].DAG
    /\ v[2] = p => \A c \in conn[v] : <<v[1] - 1, c>> \in node[p].DAG
    /\ node' = [node EXCEPT ![p] = tryAddDAG(@, v)]
    /\ UNCHANGED <<conn, leader>>

\* getCoin: a node sends its share for round r when its DAG has N-F vertices
\* of the next round; the nodes that are not followed may have sent theirs.
Sharers(r) ==
    {q \in Node : q \in Observers => Cardinality(Present(node[q].DAG, r + 1)) >= N - F}

\* The share that completes the coin of round r.
ReceiveCoin(p, r) ==
    /\ ~Draining(p)
    /\ r >= 3 /\ r \notin node[p].coinsBuffer
    /\ Cardinality(Present(DOMAIN conn, r + 1)) >= N - F
    /\ Cardinality(Sharers(r)) >= N - F
    /\ node' = [node EXCEPT ![p].coinsBuffer = @ \cup {r}]
    /\ UNCHANGED <<conn, leader>>

\* The loop runs on when the next coin is not in coinsBuffer.
TakeCoin_X(p) ==
    LET r == node[p].coinRound + 1
    IN  /\ node' = [node EXCEPT ![p] = Trigger([@ EXCEPT !.coinRound = r], r)]
        /\ UNCHANGED <<conn, leader>>

TakeCoin(p) ==
    LET r == node[p].coinRound + 1
    IN  /\ Draining(p)
        /\ node' = [node EXCEPT ![p] = Trigger([@ EXCEPT !.coinRound = r], r)]
        /\ UNCHANGED <<conn, leader>>

Next ==
    \E p \in Observers :
        \/ \E v \in DOMAIN conn : AddVertex(p, v)
        \/ \E r \in Round : ReceiveCoin(p, r)
        \/ TakeCoin(p)

Spec == Init /\ [][Next]_vars

----------------------------------------------------------------------------
TypeOK ==
    /\ conn \in Graphs
    /\ leader \in Leaders
    /\ node \in [Observers -> NodeState]

(***************************************************************************)
(* No two nodes decide differently on a vertex, in whatever order the      *)
(* vertices and the coins reach them and whichever of the two paths each   *)
(* of them takes.  This is what the protocol promises; the recursion of    *)
(* coinPass breaks it.                                                     *)
(***************************************************************************)
Agreement ==
    \A p, q \in Observers : \A r \in Round : \A i \in Node :
        LET a == node[p].decideState2[r][i]
            b == node[q].decideState2[r][i]
        IN  a # 0 /\ b # 0 => a = b

\* The decision of node p on a vertex, if it was not made through a leader of
\* a later round than the next but one.
Near(p, r, i) == IF <<r, i>> \in node[p].byPath THEN 0 ELSE node[p].decideState2[r][i]

(***************************************************************************)
(* The part of Agreement that the code keeps: no two nodes decide          *)
(* differently on a vertex of round r by the fast path or by the leader of *)
(* round r+2, a leader the recursion of coinPass has reached included,     *)
(* whatever the rounds further up were decided by.                         *)
(***************************************************************************)
NearDecisionsAgree ==
    \A p, q \in Observers : \A r \in Round : \A i \in Node :
        Near(p, r, i) # 0 /\ Near(q, r, i) # 0 => Near(p, r, i) = Near(q, r, i)

(***************************************************************************)
(* Once N-F vertices of the whole DAG agree on a vertex, a node may decide *)
(* by the fast path; no other node decides against them by the leader of   *)
(* the next round but one, not even by a leader it has while most of those *)
(* N-F are still unknown.                                                  *)
(***************************************************************************)
FastIsFinal ==
    \A p \in Observers : \A r \in Round : \A i \in Node :
        /\ Cardinality(directSupport(DOMAIN conn, r, i)) >= N - F => Near(p, r, i) # 1
        /\ Cardinality(tentativeReject(DOMAIN conn, r, i)) >= N - F => Near(p, r, i) # 2

(***************************************************************************)
(* tryCommit walks through decideState2 one vertex after the other and     *)
(* stops at a missing one: a round the coin path has closed, and every     *)
(* round of its parity before, has a decision on all N vertices.           *)
(***************************************************************************)
ClosedIsDecided ==
    \A p \in Observers : \A r \in Round :
        r <= Closed(node[p], r) => \A i \in Node : node[p].decideState2[r][i] # 0

(***************************************************************************)
(* Whichever comes last of the coin, a supporter of the leader, the leader *)
(* itself and its parents, its arrival closes the round, from the leader   *)
(* of round 5 on and when no round of its parity is open before: the three *)
(* triggers of addInDirectConn and the one of onReceiveCoin leave no order *)
(* of arrival out.                                                         *)
(***************************************************************************)
Waiting(o, l) == l <= o.coinRound /\ currLeaderRound(o, l) <= l /\ coinPass(o, l) # {}

LeaderTriggers ==
    [][\A p \in Observers : \A l \in Round :
          /\ l >= 5 /\ NothingBefore(node[p], l - 2)
          /\ ~Waiting(node[p], l)
          => ~Waiting(node'[p], l)]_vars

(***************************************************************************)
(* What the nodes know of the decisions, as one outcome for each vertex,   *)
(* those through the leaders of later rounds left out.                     *)
(***************************************************************************)
decisions == [p \in Observers |-> [r \in Round |-> [i \in Node |-> Near(p, r, i)]]]
DecidedBy(r, i) == {p \in Observers : Near(p, r, i) # 0}
outcomes ==
    [r \in Round |-> [i \in Node |->
        IF DecidedBy(r, i) = {} THEN 0
        ELSE Near(CHOOSE p \in DecidedBy(r, i) : TRUE, r, i)]]

O == INSTANCE Outcome WITH Node <- Observers, Id <- Node, outcome <- outcomes, known <- decisions

(***************************************************************************)
(* The fast path, the coins and the retroactive decisions implement one    *)
(* outcome for each vertex: every step of a node teaches that node         *)
(* outcomes, and none revises a decision, decides against another node or  *)
(* makes a decision one through a path after the fact.                     *)
(***************************************************************************)
OneOutcome == [][O!Next]_(O!vars)
=============================================================================
