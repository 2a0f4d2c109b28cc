---------------------------- MODULE CommitProofs ----------------------------
(***************************************************************************)
(* Proofs about Commit, for every N and F, every DAG and every order of    *)
(* arrival: Commit implements Decide, and as long as weak edges lead to    *)
(* earlier rounds, no vertex is executed twice and none is robbed of its   *)
(* payload before tryCommit comes to it.  As long as a node is clear, it   *)
(* executes by each commit the same vertices as the others, and Commit     *)
(* implements TotalOrder.                                                  *)
(*                                                                         *)
(* The argument: what has been executed either is of a round before that   *)
(* of the next commit, or has been committed itself; and the order of the  *)
(* commits meets each vertex once, round after round.                      *)
(*                                                                         *)
(* For the agreement of the replicas an execution that has missed no edges *)
(* is described as a walk through the DAG of the whole system, whatever    *)
(* part of it the node has.  The walk is a function of its                 *)
(* start, so that two nodes that have executed the same and commit the     *)
(* same vertex end in the same state, and by induction on the commits they *)
(* always have.                                                            *)
(***************************************************************************)
EXTENDS Commit, DecideProofs

\* What getWeakConnect returns if the proposer is not behind its own DAG.
WeaksPointDown ==
    \A w \in Weaks : \A v \in Vertex : \A i \in DOMAIN w[v] : w[v][i][1] < v[1]

----------------------------------------------------------------------------
(***************************************************************************)
(* The order of the commits.                                               *)
(***************************************************************************)
LEMMA Positive == N \in Nat /\ N >= 1 /\ MaxRound \in Nat /\ MaxRound >= 2 /\ MaxVertex \in Nat
<1>1. N >= 1
  BY Numbers
<1> QED
  BY <1>1, Numbers DEF MaxVertex

LEMMA Division ==
    ASSUME NEW a \in Nat
    PROVE  /\ a \div N \in Nat /\ a % N \in 0..(N - 1)
           /\ a = N * (a \div N) + (a % N)
BY Positive

\* Less than n apart and of the same rest, two numbers are equal.
LEMMA SameRest ==
    ASSUME NEW n \in Nat, n >= 1, NEW a \in Nat, NEW q \in Nat, NEW b \in Nat, NEW r \in Nat,
           NEW rest \in Nat, a = n * q + rest, b = n * r + rest, a <= b, b < a + n
    PROVE  a = b
<1>1. CASE r > q
  <2>1. n * r = n * q + n * (r - q)
    OBVIOUS
  <2>2. n * (r - q) >= n
    BY <1>1
  <2> QED
    BY <2>1, <2>2
<1>2. CASE r <= q
  <2>1. n * q = n * r + n * (q - r)
    OBVIOUS
  <2>2. n * (q - r) >= 0
    BY <1>2
  <2> QED
    BY <2>1, <2>2
<1> QED
  BY <1>1, <1>2

\* A larger number has no smaller quotient.
LEMMA Quotients ==
    ASSUME NEW a \in Nat, NEW b \in Nat, a <= b
    PROVE  a \div N <= b \div N
<1> DEFINE q == a \div N
           r == b \div N
<1>1. /\ q \in Nat /\ r \in Nat /\ N \in Nat /\ N >= 1
      /\ N * q <= a /\ b < N * r + N
  BY Division, Positive
<1> HIDE DEF q, r
<1>2. CASE r < q
  <2>1. N * q = N * r + N * (q - r)
    BY <1>1
  <2>2. N * (q - r) >= N
    BY <1>1, <1>2
  <2> QED
    BY <1>1, <2>1, <2>2
<1>3. CASE ~(r < q)
  BY <1>1, <1>3 DEF q, r
<1> QED
  BY <1>2, <1>3

\* The rounds of the positions do not decrease.
LEMMA RoundsGrow ==
    ASSUME NEW j \in Nat, NEW k \in Nat, 1 <= j, j <= k
    PROVE  /\ getVertexRound(j) \in Nat /\ getVertexRound(j) >= 1
           /\ getVertexRound(j) <= getVertexRound(k)
<1>1. j - 1 \in Nat /\ k - 1 \in Nat /\ j - 1 <= k - 1
  OBVIOUS
<1> QED
  BY <1>1, Division, Quotients DEF getVertexRound

LEMMA PositionIsVertex ==
    ASSUME NEW k \in 1..MaxVertex
    PROVE  VertexAt(k) \in Vertex
<1> DEFINE q == (k - 1) \div N
<1>1. k - 1 \in Nat /\ q \in Nat /\ N * q <= k - 1 /\ k - 1 < N * MaxRound
  BY Division, Positive DEF MaxVertex
<1>2. q < MaxRound
  <2> HIDE DEF q
  <2>1. CASE q >= MaxRound
    <3>1. N * q = N * MaxRound + N * (q - MaxRound)
      BY <1>1, Positive
    <3>2. N * (q - MaxRound) >= 0
      BY <1>1, <2>1, Positive
    <3> QED
      BY <1>1, <3>1, <3>2, Positive
  <2> QED
    BY <1>1, <2>1, Positive
<1>3. getVertexRound(k) = q + 1
  BY DEF getVertexRound
<1>4. k + (q + 1) - 2 \in Nat
  BY <1>1
<1>5. (k + (q + 1) - 2) % N \in 0..(N - 1)
  BY <1>4, Division
<1>6. getRandomVertexId(k) \in 1..N
  BY <1>3, <1>5, Positive DEF getRandomVertexId
<1> QED
  BY <1>1, <1>2, <1>3, <1>6, Positive, CommitAssumption DEF VertexAt, Vertex, Round

\* No vertex has two positions.
LEMMA PositionsDiffer ==
    ASSUME NEW j \in Nat, NEW k \in Nat, 1 <= j, j < k
    PROVE  VertexAt(j) # VertexAt(k)
<1> SUFFICES ASSUME VertexAt(j) = VertexAt(k) PROVE FALSE
  OBVIOUS
<1> DEFINE q == (j - 1) \div N
           a == j + q - 1
           b == k + q - 1
<1>1. j - 1 \in Nat /\ k - 1 \in Nat
  OBVIOUS
<1>2. q \in Nat /\ q = (k - 1) \div N
  <2>1. q \in Nat /\ (k - 1) \div N \in Nat
    BY <1>1, Division
  <2>2. q + 1 = ((k - 1) \div N) + 1
    BY DEF VertexAt, getVertexRound
  <2> QED
    BY <2>1, <2>2
<1>3. a \in Nat /\ b \in Nat
  BY <1>2
<1>4. j - 1 = N * q + ((j - 1) % N) /\ k - 1 = N * q + ((k - 1) % N)
  BY <1>1, <1>2, Division
<1>5. b < a + N /\ a < b
  <2>1. (j - 1) % N \in 0..(N - 1) /\ (k - 1) % N \in 0..(N - 1) /\ N * q \in Nat
    BY <1>1, <1>2, Division, Positive
  <2> QED
    BY <1>2, <1>4, <2>1, Positive
<1>6. a % N = b % N
  <2>1. j + (q + 1) - 2 = a /\ k + (q + 1) - 2 = b
    BY <1>2
  <2>2. getVertexRound(j) = q + 1 /\ getVertexRound(k) = q + 1
    BY <1>2 DEF getVertexRound
  <2>3. (a % N) + 1 = (b % N) + 1
    BY <2>1, <2>2 DEF VertexAt, getRandomVertexId
  <2> QED
    BY <1>3, <2>3, Division
<1> HIDE DEF a, b
<1>7. /\ a \div N \in Nat /\ b \div N \in Nat /\ a % N \in Nat
      /\ a = N * (a \div N) + (a % N)
      /\ b = N * (b \div N) + (a % N)
  BY <1>3, <1>6, Division
<1>8. a = b
  BY <1>3, <1>5, <1>7, Positive, SameRest
<1> QED
  BY <1>3, <1>5, <1>8

----------------------------------------------------------------------------
(***************************************************************************)
(* What the functions of Commit do to the entries x of a node.             *)
(***************************************************************************)
Noted(x, t) == t.gaps \in {x.gaps, x.gaps \cup {x.committedVertex + 1}}

Same(x, t) ==
    /\ t \in ExecEntries /\ Noted(x, t)
    /\ t.payloads = x.payloads /\ t.arrived = x.arrived /\ t.execState = x.execState
    /\ t.committedVertex = x.committedVertex /\ t.executing = x.executing

\* t is x after the vertices of W have been executed.
Ran(x, t, W) ==
    /\ t \in ExecEntries /\ Noted(x, t)
    /\ t.arrived = x.arrived /\ t.committedVertex = x.committedVertex
    /\ t.executing = x.executing /\ t.round = x.round
    /\ t.fathers = x.fathers /\ t.mp = x.mp /\ t.flag = x.flag
    /\ t.payloads = x.payloads \ W
    /\ \A v \in Vertex :
          t.execState[v] = IF v \in W THEN x.committedVertex + 1 ELSE x.execState[v]

LEMMA NoteKeeps ==
    ASSUME NEW x \in ExecEntries, x.committedVertex < MaxVertex, NEW S
    PROVE  LET t == Note(x, S)
           IN  /\ t \in ExecEntries /\ Noted(x, t)
               /\ S # {} => x.committedVertex + 1 \in t.gaps
               /\ t.payloads = x.payloads /\ t.arrived = x.arrived
               /\ t.execState = x.execState /\ t.committedVertex = x.committedVertex
               /\ t.committing = x.committing /\ t.executing = x.executing
               /\ t.round = x.round /\ t.fathers = x.fathers /\ t.mp = x.mp
               /\ t.flag = x.flag
<1>1. x.committedVertex + 1 \in 1..MaxVertex
  BY Positive DEF ExecEntries
<1>2. CASE S = {}
  BY <1>2 DEF Note, Noted
<1>3. CASE S # {}
  <2>1. Note(x, S) = [x EXCEPT !.gaps = x.gaps \cup {x.committedVertex + 1}]
    BY <1>3 DEF Note
  <2> DEFINE G == x.gaps \cup {x.committedVertex + 1}
  <2>2. G \in SUBSET (1..MaxVertex) /\ x.committedVertex + 1 \in G
    BY <1>1 DEF ExecEntries
  <2>3. G = x.gaps \cup {x.committedVertex + 1}
    OBVIOUS
  <2> HIDE DEF G
  <2>4. Note(x, S) = [x EXCEPT !.gaps = G]
    BY <2>1, <2>3
  <2>5. Note(x, S).gaps = G
    BY <2>4 DEF ExecEntries
  <2>6. Noted(x, Note(x, S))
    BY <2>3, <2>5 DEF Noted
  <2> QED
    BY <2>2, <2>4, <2>5, <2>6 DEF ExecEntries
<1> QED
  BY <1>2, <1>3

LEMMA executeRuns ==
    ASSUME NEW x \in ExecEntries, x.committedVertex < MaxVertex, NEW W
    PROVE  Ran(x, execute(x, W), W)
<1> DEFINE es == [v \in Vertex |-> IF v \in W THEN x.committedVertex + 1 ELSE x.execState[v]]
<1>1. es \in [Vertex -> 0..MaxVertex]
  BY Positive DEF ExecEntries
<1>2. execute(x, W) = [x EXCEPT !.payloads = @ \ W, !.execState = es]
  BY DEF execute
<1>3. \A v \in Vertex : es[v] = IF v \in W THEN x.committedVertex + 1 ELSE x.execState[v]
  OBVIOUS
<1> HIDE DEF es
<1> QED
  BY <1>1, <1>2, <1>3 DEF Ran, Noted, ExecEntries

LEMMA weakExcRuns ==
    ASSUME NEW x \in ExecEntries, x.committedVertex < MaxVertex, NEW D, NEW v
    PROVE  \E W : /\ Ran(x, weakExc(x, D, v), W)
                  /\ W \cap Executed(x) = {}
                  /\ \A u \in W : \E i \in DOMAIN weak[v] : u = weak[v][i]
<1>1. CASE v \notin D
  <2> DEFINE t == Note(x, {w \in {v} : weak[w] # <<>>})
  <2>1. /\ t \in ExecEntries /\ Noted(x, t)
        /\ t.payloads = x.payloads /\ t.arrived = x.arrived
        /\ t.execState = x.execState /\ t.committedVertex = x.committedVertex
        /\ t.executing = x.executing /\ t.round = x.round
        /\ t.fathers = x.fathers /\ t.mp = x.mp /\ t.flag = x.flag
    BY NoteKeeps
  <2>2. weakExc(x, D, v) = t
    BY <1>1 DEF weakExc
  <2> HIDE DEF t
  <2>3. Ran(x, t, {})
    BY <2>1 DEF Ran
  <2> QED
    BY <2>2, <2>3
<1>2. CASE v \in D
  <2> DEFINE W == WeakParents(Executed(x), weak[v]) \ Executed(x)
  <2>1. \A u \in W : \E i \in DOMAIN weak[v] : u = weak[v][i]
    BY DEF WeakParents
  <2>2. Ran(x, execute(x, W), W)
    BY executeRuns
  <2>3. W \cap Executed(x) = {}
    OBVIOUS
  <2> HIDE DEF W
  <2> QED
    BY <1>2, <2>1, <2>2, <2>3 DEF weakExc, W
<1> QED
  BY <1>1, <1>2

LEMMA LeaveKeeps ==
    ASSUME NEW x \in ExecEntries
    PROVE  Same(x, Leave(x)) /\ Leave(x).round = 0
<1>1. 0 \in 0..MaxRound /\ {} \in SUBSET Node /\ FALSE \in BOOLEAN
  BY Positive
<1> QED
  BY <1>1 DEF Leave, Same, Noted, ExecEntries

LEMMA executeBackKeeps ==
    ASSUME conn \in Graphs, NEW x \in ExecEntries, x.committedVertex < MaxVertex,
           NEW D \in SUBSET DOMAIN conn, NEW r \in 0..MaxRound, NEW fathers \in SUBSET Node
    PROVE  /\ Same(x, executeBack(x, D, r, fathers))
           /\ executeBack(x, D, r, fathers).round \in {0, r}
<1>1. \A v \in DOMAIN conn : conn[v] \subseteq Node
  BY DecideAssumption DEF ValidGraph
<1>2. Connected(D, r, fathers) \in SUBSET Node
  BY <1>1 DEF Connected
<1>3. 0 \in 0..MaxRound
  BY Positive
<1> DEFINE C == Connected(D, r, fathers)
<1> HIDE DEF C
<1>4. CASE r = 0 \/ Full(Executed(x), r)
  <2>1. executeBack(x, D, r, fathers) = Leave(x)
    BY <1>4 DEF executeBack
  <2> QED
    BY <1>4, <2>1, LeaveKeeps
<1>5. CASE ~(r = 0 \/ Full(Executed(x), r))
  <2> DEFINE y == Note(x, FatherNodes(r, fathers) \ D)
  <2>1. executeBack(x, D, r, fathers) =
           [y EXCEPT !.round = r, !.fathers = fathers, !.mp = C, !.flag = FALSE]
    BY <1>5 DEF executeBack, C
  <2>2. C \in SUBSET Node
    BY <1>2 DEF C
  <2>3. /\ y \in ExecEntries /\ Noted(x, y)
        /\ y.payloads = x.payloads /\ y.arrived = x.arrived
        /\ y.execState = x.execState /\ y.committedVertex = x.committedVertex
        /\ y.executing = x.executing
    BY NoteKeeps
  <2> HIDE DEF y
  <2> QED
    BY <2>1, <2>2, <2>3 DEF Same, Noted, ExecEntries
<1> QED
  BY <1>4, <1>5

----------------------------------------------------------------------------
(***************************************************************************)
(* Commit implements Decide: tryCommit leaves what decides alone.          *)
(***************************************************************************)
LEMMA StepsDecide == [CommitNext]_commitVars => [Next]_vars
BY DEF CommitNext, commitVars, vars, Next, DeliverVertex, ReceiveVal, ReceivePayload,
       CoinShare, ReleaseCoin, tryCommit

THEOREM ImplementsDecide == CommitSpec => Spec
BY StepsDecide, PTL DEF CommitSpec, CommitInit, Spec

\* A node's DAG is a part of the DAG of the system.
Held == \A p \in Observers : node[p].DAG \subseteq DOMAIN conn

LEMMA HeldStep == TypeOK /\ Held /\ [Next]_vars => Held'
<1> SUFFICES ASSUME TypeOK, Held, [Next]_vars PROVE Held'
  OBVIOUS
<1>1. conn' = conn
  BY DEF Next, AddVertex, ReceiveCoin, TakeCoin, vars
<1>2. CASE UNCHANGED vars
  BY <1>2 DEF vars, Held
<1>3. ASSUME NEW p \in Observers, NEW v \in DOMAIN conn, AddVertex(p, v) PROVE Held'
  <2>1. v \in Vertex
    BY DecideAssumption DEF ValidGraph, TypeOK
  <2>2. tryAddDAG(node[p], v).DAG = node[p].DAG \cup {v}
    BY <2>1, tryAddDAGType DEF TypeOK
  <2> QED
    BY <1>1, <1>3, <2>2 DEF AddVertex, TypeOK, Held
<1>4. ASSUME NEW p \in Observers, NEW r \in Round, ReceiveCoin(p, r) PROVE Held'
  <2>1. node' = [node EXCEPT ![p] = [node[p] EXCEPT !.coinsBuffer = @ \cup {r}]]
    BY <1>4 DEF ReceiveCoin
  <2>2. [node[p] EXCEPT !.coinsBuffer = @ \cup {r}].DAG = node[p].DAG
    BY DEF TypeOK, NodeState
  <2> QED
    BY <1>1, <2>1, <2>2 DEF TypeOK, Held
<1>5. ASSUME NEW p \in Observers, TakeCoin(p) PROVE Held'
  <2> DEFINE r == node[p].coinRound + 1
             o == [node[p] EXCEPT !.coinRound = r]
  <2>1. o \in NodeState /\ o.DAG = node[p].DAG /\ r \in Int /\ r >= 3
    BY <1>5, TakenLemma DEF TakenType, TakeCoin
  <2>2. node' = [node EXCEPT ![p] = Trigger(o, r)]
    BY <1>5 DEF TakeCoin
  <2> HIDE DEF o, r
  <2>3. Trigger(o, r).DAG = node[p].DAG
    BY <2>1, TriggerType DEF Step
  <2> QED
    BY <1>1, <2>2, <2>3 DEF TypeOK, Held
<1> QED
  BY <1>2, <1>3, <1>4, <1>5 DEF Next

----------------------------------------------------------------------------
(***************************************************************************)
(* A step of tryCommit, from the entries x of its node to t: it goes on or *)
(* returns, it starts to execute a vertex, or it executes the vertices W   *)
(* of its history, which are of rounds before.                             *)
(***************************************************************************)
Progress(x) ==
    /\ x.executing => x.committedVertex < MaxVertex
    /\ x.round # 0 => x.executing /\ x.round < Pending(x)[1]

Passes(x, t) ==
    /\ t \in ExecEntries /\ ~x.executing /\ ~t.executing /\ t.round = 0
    /\ t.payloads = x.payloads /\ t.arrived = x.arrived /\ t.execState = x.execState
    /\ t.gaps = x.gaps
    /\ t.committedVertex \in {x.committedVertex, x.committedVertex + 1}

Starts(x, t) ==
    /\ t \in ExecEntries /\ Noted(x, t) /\ ~x.executing /\ t.executing
    /\ x.committedVertex < MaxVertex /\ t.committedVertex = x.committedVertex
    /\ t.round \in {0, Pending(x)[1] - 1}
    /\ t.arrived = x.arrived /\ t.payloads = x.payloads \ {Pending(x)}
    /\ \A v \in Vertex : t.execState[v] =
          IF v = Pending(x) THEN x.committedVertex + 1 ELSE x.execState[v]

Goes(x, t) ==
    \/ /\ t.executing /\ t.committedVertex = x.committedVertex
       /\ t.round # 0 => x.round # 0 /\ t.round \in {x.round, x.round - 1}
    \/ ~t.executing /\ t.committedVertex = x.committedVertex + 1 /\ t.round = 0

Runs(x, t) ==
    /\ t \in ExecEntries /\ Noted(x, t) /\ x.executing /\ Goes(x, t)
    /\ t.arrived = x.arrived
    /\ \E W : /\ W \cap Executed(x) = {}
              /\ WeaksPointDown => \A u \in W : u[1] < Pending(x)[1]
              /\ t.payloads = x.payloads \ W
              /\ \A v \in Vertex : t.execState[v] =
                    IF v \in W THEN x.committedVertex + 1 ELSE x.execState[v]

CommitType ==
    /\ CommitTypeOK /\ Held
    /\ \A p \in Observers : Progress(exec[p])

LEMMA PendingIsVertex ==
    ASSUME NEW x \in ExecEntries, x.committedVertex < MaxVertex
    PROVE  /\ Pending(x) \in Vertex /\ Pending(x)[1] \in Round /\ Pending(x)[2] \in Node
           /\ x.committedVertex + 1 \in 1..MaxVertex
<1>1. x.committedVertex + 1 \in 1..MaxVertex
  BY Positive DEF ExecEntries
<1> QED
  BY <1>1, PositionIsVertex DEF Pending, Vertex

LEMMA WeakBelow ==
    ASSUME weak \in Weaks, WeaksPointDown, NEW v \in Vertex, NEW i \in DOMAIN weak[v]
    PROVE  weak[v][i][1] \in Int /\ weak[v][i][1] < v[1]
<1>1. weak[v] \in Seq(Vertex)
  BY CommitAssumption
<1>2. weak[v][i] \in Vertex
  BY <1>1
<1> QED
  BY <1>2 DEF WeaksPointDown, Vertex, Round

LEMMA SkipPasses ==
    ASSUME CommitType, NEW p \in Observers, Skip(p) \/ Return(p)
    PROVE  Passes(exec[p], exec'[p])
<1> DEFINE x == exec[p]
<1>1. x \in ExecEntries /\ Progress(x)
  BY DEF CommitType, CommitTypeOK
<1>2. ~x.executing /\ x.round = 0
  BY <1>1 DEF Skip, Return, InLoop, Progress
<1>3. CASE Skip(p)
  <2>1. x.committedVertex + 1 \in 0..MaxVertex
    BY <1>1, <1>3, Positive DEF Skip, Decision, ExecEntries
  <2>2. exec'[p] = [x EXCEPT !.committedVertex = @ + 1]
    BY <1>3 DEF Skip, CommitType, CommitTypeOK
  <2> QED
    BY <1>1, <1>2, <2>1, <2>2 DEF Passes, ExecEntries
<1>4. CASE Return(p)
  <2>1. exec'[p] = [x EXCEPT !.committing = FALSE]
    BY <1>4 DEF Return, CommitType, CommitTypeOK
  <2> QED
    BY <1>1, <1>2, <2>1 DEF Passes, ExecEntries
<1> QED
  BY <1>3, <1>4

LEMMA CommitStarts ==
    ASSUME CommitType, NEW p \in Observers, CommitVertex(p)
    PROVE  Starts(exec[p], exec'[p])
<1> DEFINE x == exec[p]
           v == Pending(x)
           y == execute(x, {v})
           z == [y EXCEPT !.executing = TRUE]
<1>1. x \in ExecEntries /\ conn \in Graphs /\ node[p].DAG \in SUBSET DOMAIN conn
  BY DEF CommitType, CommitTypeOK, TypeOK, Held
<1>2. ~x.executing /\ x.committedVertex < MaxVertex
  BY <1>1, Positive DEF CommitVertex, InLoop, Committable, Decision, ExecEntries
<1>3. exec'[p] = executeBack(z, node[p].DAG, v[1] - 1, {v[2]})
  BY DEF CommitVertex, CommitType, CommitTypeOK
<1>4. Ran(x, y, {v})
  BY <1>1, <1>2, executeRuns
<1>5. v[1] - 1 \in 0..MaxRound /\ {v[2]} \in SUBSET Node
  BY <1>1, <1>2, PendingIsVertex, Positive DEF Round
<1> HIDE DEF y, v
<1>6. /\ z \in ExecEntries /\ z.executing
      /\ z.payloads = y.payloads /\ z.arrived = y.arrived /\ z.execState = y.execState
      /\ z.committedVertex = y.committedVertex /\ z.gaps = y.gaps
  BY <1>4 DEF Ran, ExecEntries
<1>8. y.committedVertex = x.committedVertex /\ y.gaps = x.gaps
  BY <1>1 DEF y, execute, ExecEntries
<1> HIDE DEF z
<1>7. Same(z, exec'[p]) /\ exec'[p].round \in {0, v[1] - 1}
  BY <1>1, <1>2, <1>3, <1>5, <1>6, <1>8, executeBackKeeps
<1>9. Noted(x, exec'[p])
  BY <1>6, <1>7, <1>8 DEF Same, Noted
<1> QED
  BY <1>2, <1>4, <1>6, <1>7, <1>9 DEF Starts, Same, Ran, v

LEMMA VisitRuns ==
    ASSUME CommitType, NEW p \in Observers, NEW i \in Node, Visit(p, i)
    PROVE  Runs(exec[p], exec'[p])
<1> DEFINE x == exec[p]
           v == <<x.round, i>>
           y == execute(x, {v})
           z == weakExc(y, node[p].DAG, v)
<1>1. /\ x \in ExecEntries /\ weak \in Weaks
      /\ x.round # 0 /\ x.executing /\ x.committedVertex < MaxVertex
      /\ x.round < Pending(x)[1]
  BY DEF CommitType, CommitTypeOK, Progress, Visit
<1>2. v \in Vertex /\ v \notin Executed(x)
  BY <1>1 DEF Visit, ToCheck, Executed, Vertex, Round, ExecEntries
<1>3. exec'[p] = [z EXCEPT !.flag = TRUE]
  BY DEF Visit, CommitType, CommitTypeOK
<1>4. Ran(x, y, {v})
  BY <1>1, executeRuns
<1> HIDE DEF y
<1>5. y \in ExecEntries /\ y.committedVertex < MaxVertex
  BY <1>1, <1>4 DEF Ran
<1>6. PICK W : /\ Ran(y, z, W) /\ W \cap Executed(y) = {}
               /\ \A u \in W : \E j \in DOMAIN weak[v] : u = weak[v][j]
  BY <1>5, weakExcRuns
<1> HIDE DEF z
<1>7. /\ exec'[p] \in ExecEntries /\ exec'[p].executing = z.executing
      /\ exec'[p].payloads = z.payloads /\ exec'[p].arrived = z.arrived
      /\ exec'[p].execState = z.execState /\ exec'[p].round = z.round
      /\ exec'[p].committedVertex = z.committedVertex /\ exec'[p].gaps = z.gaps
  BY <1>3, <1>6 DEF Ran, ExecEntries
<1>8. Goes(x, exec'[p]) /\ exec'[p].arrived = x.arrived
  BY <1>1, <1>4, <1>6, <1>7 DEF Ran, Goes
<1>9. \E U : /\ U \cap Executed(x) = {}
             /\ WeaksPointDown => \A u \in U : u[1] < Pending(x)[1]
             /\ z.payloads = x.payloads \ U
             /\ \A u \in Vertex : z.execState[u] =
                   IF u \in U THEN x.committedVertex + 1 ELSE x.execState[u]
  <2> DEFINE U == W \cup {v}
  <2>1. Executed(x) \subseteq Executed(y)
    BY <1>1, <1>4 DEF Ran, Executed, ExecEntries
  <2>2. U \cap Executed(x) = {}
    BY <1>2, <1>6, <2>1
  <2>3. ASSUME WeaksPointDown, NEW u \in U PROVE u[1] < Pending(x)[1]
    <3>1. CASE u = v
      BY <1>1, <3>1
    <3>2. CASE u \in W
      <4>1. u[1] \in Int /\ u[1] < v[1]
        BY <1>1, <1>2, <1>6, <2>3, <3>2, WeakBelow
      <4>2. v[1] \in Int /\ Pending(x)[1] \in Int
        BY <1>1, <1>2, PendingIsVertex DEF Vertex, Round
      <4> QED
        BY <1>1, <4>1, <4>2
    <3> QED
      BY <2>3, <3>1, <3>2
  <2>4. z.payloads = x.payloads \ U
    BY <1>4, <1>6 DEF Ran
  <2>5. \A u \in Vertex : z.execState[u] =
           IF u \in U THEN x.committedVertex + 1 ELSE x.execState[u]
    BY <1>4, <1>6 DEF Ran
  <2> QED
    BY <2>2, <2>3, <2>4, <2>5
<1>10. Noted(x, exec'[p])
  <2>1. y.gaps = x.gaps /\ y.committedVertex = x.committedVertex
    BY <1>1 DEF y, execute, ExecEntries
  <2> QED
    BY <1>6, <1>7, <2>1 DEF Ran, Noted
<1> QED
  BY <1>1, <1>7, <1>8, <1>9, <1>10 DEF Runs

LEMMA NextRoundRuns ==
    ASSUME CommitType, NEW p \in Observers, NextRound(p)
    PROVE  Runs(exec[p], exec'[p])
<1> DEFINE x == exec[p]
           t == exec'[p]
<1>1. /\ x \in ExecEntries /\ x.round # 0 /\ x.executing /\ x.committedVertex < MaxVertex
      /\ conn \in Graphs /\ node[p].DAG \in SUBSET DOMAIN conn
  BY DEF CommitType, CommitTypeOK, TypeOK, Held, Progress, NextRound
<1>2. x.round - 1 \in 0..MaxRound
  BY <1>1, Positive DEF ExecEntries
<1>3. Same(x, t) /\ t.round \in {0, x.round - 1}
  <2>1. CASE x.flag
    <3>1. t = executeBack(x, node[p].DAG, x.round - 1, x.mp)
      BY <2>1 DEF NextRound, CommitType, CommitTypeOK
    <3>2. x.mp \in SUBSET Node
      BY <1>1 DEF ExecEntries
    <3> QED
      BY <1>1, <1>2, <3>1, <3>2, executeBackKeeps
  <2>2. CASE ~x.flag
    <3>1. t = Leave(x)
      BY <2>2 DEF NextRound, CommitType, CommitTypeOK
    <3> QED
      BY <1>1, <3>1, LeaveKeeps
  <2> QED
    BY <2>1, <2>2
<1> HIDE DEF t
<1>4. \E W : /\ W \cap Executed(x) = {}
             /\ WeaksPointDown => \A u \in W : u[1] < Pending(x)[1]
             /\ t.payloads = x.payloads \ W
             /\ \A v \in Vertex : t.execState[v] =
                   IF v \in W THEN x.committedVertex + 1 ELSE x.execState[v]
  <2>1. t.payloads = x.payloads \ {} /\ t.execState = x.execState
    BY <1>3 DEF Same
  <2>2. {} \cap Executed(x) = {} /\ \A u \in {} : u[1] < Pending(x)[1]
    OBVIOUS
  <2>3. \A v \in Vertex : t.execState[v] =
           IF v \in {} THEN x.committedVertex + 1 ELSE x.execState[v]
    BY <2>1
  <2> WITNESS {}
  <2> QED
    BY <2>1, <2>2, <2>3
<1> QED
  BY <1>1, <1>3, <1>4 DEF Runs, Goes, Same, t

LEMMA FinishRuns ==
    ASSUME CommitType, NEW p \in Observers, Finish(p)
    PROVE  Runs(exec[p], exec'[p])
<1> DEFINE x == exec[p]
           v == Pending(x)
           z == weakExc(x, node[p].DAG, v)
<1>1. /\ x \in ExecEntries /\ weak \in Weaks /\ x.executing /\ x.round = 0
      /\ x.committedVertex < MaxVertex
  BY DEF CommitType, CommitTypeOK, Progress, Finish
<1>2. v \in Vertex /\ x.committedVertex + 1 \in 0..MaxVertex
  BY <1>1, PendingIsVertex
<1>3. exec'[p] = [z EXCEPT !.committedVertex = @ + 1, !.executing = FALSE]
  BY DEF Finish, CommitType, CommitTypeOK
<1>4. PICK W : /\ Ran(x, z, W) /\ W \cap Executed(x) = {}
               /\ \A u \in W : \E j \in DOMAIN weak[v] : u = weak[v][j]
  BY <1>1, weakExcRuns
<1>5. WeaksPointDown => \A u \in W : u[1] < v[1]
  BY <1>1, <1>2, <1>4, WeakBelow
<1> HIDE DEF z, v
<1>6. /\ exec'[p] \in ExecEntries /\ ~exec'[p].executing
      /\ exec'[p].payloads = z.payloads /\ exec'[p].arrived = z.arrived
      /\ exec'[p].execState = z.execState /\ exec'[p].round = z.round
      /\ exec'[p].committedVertex = x.committedVertex + 1 /\ exec'[p].gaps = z.gaps
  <2>1. z \in ExecEntries /\ z.committedVertex = x.committedVertex
    BY <1>4 DEF Ran
  <2>2. FALSE \in BOOLEAN
    OBVIOUS
  <2> QED
    BY <1>2, <1>3, <2>1, <2>2 DEF ExecEntries
<1>7. Goes(x, exec'[p]) /\ Noted(x, exec'[p])
  BY <1>1, <1>4, <1>6 DEF Goes, Ran, Noted
<1> QED
  BY <1>1, <1>4, <1>5, <1>6, <1>7 DEF Runs, Ran, v

\* Every step of tryCommit is one of the three, at one node.
LEMMA tryCommitMoves ==
    ASSUME CommitType, NEW p \in Observers, tryCommit(p)
    PROVE  /\ \/ Passes(exec[p], exec'[p]) \/ Starts(exec[p], exec'[p])
              \/ Runs(exec[p], exec'[p])
           /\ exec' = [exec EXCEPT ![p] = exec'[p]]
<1>1. exec' = [exec EXCEPT ![p] = exec'[p]]
  BY DEF tryCommit, Skip, CommitVertex, Return, Visit, NextRound, Finish,
         CommitType, CommitTypeOK
<1> QED
  BY <1>1, SkipPasses, CommitStarts, VisitRuns, NextRoundRuns, FinishRuns DEF tryCommit

\* The other steps execute nothing and wait for tryCommit to return.
Waits(x, t) ==
    /\ t \in ExecEntries /\ t.execState = x.execState /\ t.gaps = x.gaps
    /\ t.committedVertex = x.committedVertex /\ t.executing = x.executing
    /\ t.round = x.round /\ t.fathers = x.fathers /\ t.mp = x.mp /\ t.flag = x.flag
    /\ \E S \in SUBSET Vertex :
          t.payloads = x.payloads \cup S /\ t.arrived = x.arrived \cup S

LEMMA OthersWait ==
    ASSUME CommitType, [CommitNext]_commitVars, NEW q \in Observers
    PROVE  \/ Waits(exec[q], exec'[q])
           \/ tryCommit(q)
<1> DEFINE x == exec[q]
<1>1. x \in ExecEntries
  BY DEF CommitType, CommitTypeOK
<1>2. x.payloads = x.payloads \cup {} /\ x.arrived = x.arrived \cup {}
  OBVIOUS
<1>3. ASSUME exec'[q] = x PROVE Waits(x, exec'[q])
  BY <1>1, <1>2, <1>3 DEF Waits
<1>4. ASSUME NEW b \in BOOLEAN, exec'[q] = [x EXCEPT !.committing = b]
      PROVE  Waits(x, exec'[q])
  <2>1. /\ exec'[q] \in ExecEntries /\ exec'[q].execState = x.execState
        /\ exec'[q].committedVertex = x.committedVertex
        /\ exec'[q].executing = x.executing /\ exec'[q].round = x.round
        /\ exec'[q].fathers = x.fathers /\ exec'[q].mp = x.mp /\ exec'[q].flag = x.flag
        /\ exec'[q].payloads = x.payloads /\ exec'[q].arrived = x.arrived
        /\ exec'[q].gaps = x.gaps
    BY <1>1, <1>4 DEF ExecEntries
  <2> QED
    BY <1>2, <2>1 DEF Waits
<1>5. ASSUME NEW p \in Observers, NEW v \in DOMAIN conn, DeliverVertex(p, v)
      PROVE  Waits(x, exec'[q])
  <2>1. PICK byVal \in BOOLEAN : exec' = [exec EXCEPT ![p].committing = byVal \/ v[1] > 1]
    BY <1>5 DEF DeliverVertex
  <2> DEFINE b == byVal \/ v[1] > 1
  <2>2. b \in BOOLEAN /\ exec' = [exec EXCEPT ![p].committing = b]
    BY <2>1
  <2> HIDE DEF b
  <2>3. exec'[q] = x \/ exec'[q] = [x EXCEPT !.committing = b]
    BY <2>2 DEF CommitType, CommitTypeOK
  <2> QED
    BY <1>3, <1>4, <2>2, <2>3
<1>6. ASSUME NEW p \in Observers, ReleaseCoin(p)
      PROVE  Waits(x, exec'[q])
  <2> DEFINE r == node[p].coinRound + 1
             b == Closed(node'[p], r) # Closed(node[p], r)
  <2>1. exec'[q] = x \/ exec'[q] = [x EXCEPT !.committing = b]
    BY <1>6 DEF ReleaseCoin, CommitType, CommitTypeOK
  <2>2. b \in BOOLEAN
    OBVIOUS
  <2> HIDE DEF b
  <2> QED
    BY <1>3, <1>4, <2>1, <2>2
<1>7. ASSUME NEW p \in Observers, NEW v \in DOMAIN conn, ReceivePayload(p, v)
      PROVE  Waits(x, exec'[q])
  <2>1. v \in Vertex
    BY DecideAssumption DEF ValidGraph, CommitType, CommitTypeOK, TypeOK
  <2> DEFINE t == [x EXCEPT !.payloads = @ \cup {v}, !.arrived = @ \cup {v}]
  <2>2. exec'[q] = x \/ exec'[q] = t
    BY <1>7 DEF ReceivePayload, CommitType, CommitTypeOK
  <2>3. Waits(x, t)
    <3>1. /\ t \in ExecEntries /\ t.execState = x.execState
          /\ t.committedVertex = x.committedVertex
          /\ t.executing = x.executing /\ t.round = x.round
          /\ t.fathers = x.fathers /\ t.mp = x.mp /\ t.flag = x.flag
          /\ t.payloads = x.payloads \cup {v} /\ t.arrived = x.arrived \cup {v}
          /\ t.gaps = x.gaps
      BY <1>1, <2>1 DEF ExecEntries
    <3>2. {v} \in SUBSET Vertex
      BY <2>1
    <3> QED
      BY <3>1, <3>2 DEF Waits
  <2> QED
    BY <1>3, <2>2, <2>3
<1>8. ASSUME NEW p \in Observers, tryCommit(p), p # q
      PROVE  Waits(x, exec'[q])
  <2>1. exec'[q] = x
    BY <1>8, tryCommitMoves DEF CommitType, CommitTypeOK
  <2> QED
    BY <1>3, <2>1
<1>9. ASSUME UNCHANGED commitVars PROVE Waits(x, exec'[q])
  BY <1>3, <1>9 DEF commitVars
<1>10. ASSUME NEW p \in Observers, NEW r \in Round, CoinShare(p, r)
       PROVE  Waits(x, exec'[q])
  BY <1>3, <1>10 DEF CoinShare
<1>11. ASSUME NEW p \in Observers, NEW v \in DOMAIN conn, ReceiveVal(p, v)
       PROVE  Waits(x, exec'[q])
  <2>1. exec'[q] = x \/ exec'[q] = [x EXCEPT !.committing = TRUE]
    BY <1>11 DEF ReceiveVal, CommitType, CommitTypeOK
  <2> QED
    BY <1>3, <1>4, <2>1
<1> QED
  BY <1>5, <1>6, <1>7, <1>8, <1>9, <1>10, <1>11 DEF CommitNext

----------------------------------------------------------------------------
(***************************************************************************)
(* Type correctness.                                                       *)
(***************************************************************************)
LEMMA ProgressStep ==
    ASSUME NEW x \in ExecEntries, Progress(x), NEW t,
           Passes(x, t) \/ Starts(x, t) \/ Runs(x, t) \/ Waits(x, t)
    PROVE  t \in ExecEntries /\ Progress(t)
<1>1. CASE Passes(x, t)
  BY <1>1 DEF Passes, Progress
<1>2. CASE Starts(x, t)
  <2>1. Pending(t) = Pending(x) /\ Pending(x)[1] \in Int
    BY <1>2, PendingIsVertex DEF Starts, Pending, Round
  <2> QED
    BY <1>2, <2>1 DEF Starts, Progress
<1>3. CASE Waits(x, t)
  <2>1. Pending(t) = Pending(x)
    BY <1>3 DEF Waits, Pending
  <2> QED
    BY <1>3, <2>1 DEF Waits, Progress
<1>4. CASE Runs(x, t)
  <2>1. t \in ExecEntries /\ x.executing /\ Goes(x, t)
    BY <1>4 DEF Runs
  <2>2. CASE ~t.executing /\ t.round = 0
    BY <2>1, <2>2 DEF Progress
  <2>3. CASE t.executing /\ t.committedVertex = x.committedVertex
    <3>1. Pending(t) = Pending(x) /\ Pending(x)[1] \in Int /\ x.round \in Int
      BY <2>1, <2>3, PendingIsVertex DEF Pending, Round, Progress, ExecEntries
    <3>2. t.round # 0 => x.round # 0 /\ t.round \in {x.round, x.round - 1}
      BY <2>1, <2>3 DEF Goes
    <3> QED
      BY <2>1, <2>3, <3>1, <3>2 DEF Progress
  <2> QED
    BY <2>1, <2>2, <2>3 DEF Goes
<1> QED
  BY <1>1, <1>2, <1>3, <1>4

LEMMA NoCommitType ==
    ASSUME NEW p \in Observers
    PROVE  NoCommit(p) \in ExecEntries /\ Progress(NoCommit(p))
BY Positive DEF NoCommit, ExecEntries, OwnPayloads, Progress

LEMMA CommitInitType == CommitInit => CommitType
<1> SUFFICES ASSUME CommitInit PROVE CommitType
  OBVIOUS
<1>1. TypeOK
  BY InitType DEF CommitInit
<1>2. Held
  BY DEF CommitInit, Init, Held, Blank
<1>3. \A p \in Observers : exec[p] = NoCommit(p)
  BY DEF CommitInit
<1> QED
  BY <1>1, <1>2, <1>3, NoCommitType DEF CommitInit, CommitType, CommitTypeOK

LEMMA CommitNextType == CommitType /\ [CommitNext]_commitVars => CommitType'
<1> SUFFICES ASSUME CommitType, [CommitNext]_commitVars PROVE CommitType'
  OBVIOUS
<1>1. TypeOK' /\ Held'
  BY StepsDecide, NextType, HeldStep DEF CommitType, CommitTypeOK
<1>2. weak' \in Weaks
  BY DEF CommitType, CommitTypeOK, CommitNext, commitVars, DeliverVertex, ReceiveVal,
         ReceivePayload, CoinShare, ReleaseCoin, tryCommit
<1>3. \A q \in Observers : exec'[q] \in ExecEntries /\ Progress(exec'[q])
  BY OthersWait, tryCommitMoves, ProgressStep DEF CommitType, CommitTypeOK
<1>4. exec' \in [Observers -> ExecEntries]
  <2>1. \E f : exec' = [q \in Observers |-> f[q]]
    <3>1. exec = [q \in Observers |-> exec[q]]
      BY DEF CommitType, CommitTypeOK
    <3>2. ASSUME NEW p \in Observers, NEW t, exec' = [exec EXCEPT ![p] = t]
          PROVE  exec' = [q \in Observers |-> exec'[q]]
      BY <3>1, <3>2
    <3>3. ASSUME NEW p \in Observers, tryCommit(p)
          PROVE  exec' = [q \in Observers |-> exec'[q]]
      BY <3>2, <3>3, tryCommitMoves
    <3>4. ASSUME exec' = exec PROVE exec' = [q \in Observers |-> exec'[q]]
      BY <3>1, <3>4
    <3> QED
      BY <3>1, <3>3, <3>4 DEF CommitNext, commitVars, DeliverVertex, ReceiveVal,
                              ReceivePayload, CoinShare, ReleaseCoin
  <2> QED
    BY <1>3, <2>1
<1> QED
  BY <1>1, <1>2, <1>3, <1>4 DEF CommitType, CommitTypeOK

(***************************************************************************)
(* tryCommit never goes beyond the last vertex and executeBack never       *)
(* leaves the rounds there are, whatever is decided and in the DAG.        *)
(***************************************************************************)
THEOREM CommitTypeCorrect == CommitSpec => []CommitTypeOK
<1>1. CommitType => CommitTypeOK
  BY DEF CommitType
<1> QED
  BY <1>1, CommitInitType, CommitNextType, PTL DEF CommitSpec

----------------------------------------------------------------------------
(***************************************************************************)
(* What has been executed has been committed, or is of a round before.     *)
(***************************************************************************)
Past(x, v) ==
    \/ v[1] < Pending(x)[1]
    \/ \E k \in 1..x.committedVertex : v = VertexAt(k)
    \/ x.executing /\ v = Pending(x)

OnlyPast(x) == \A v \in Vertex : x.execState[v] # 0 => Past(x, v)

\* A payload that has come and gone has been executed.
NotLost(x) == \A v \in x.arrived : x.execState[v] = 0 => v \in x.payloads

OrderInv == \A p \in Observers : OnlyPast(exec[p]) /\ NotLost(exec[p])

\* tryCommit has not executed the vertex it comes to.
LEMMA PendingIsNew ==
    ASSUME NEW x \in ExecEntries, OnlyPast(x), ~x.executing, x.committedVertex < MaxVertex
    PROVE  x.execState[Pending(x)] = 0
<1>1. Pending(x) \in Vertex /\ Pending(x)[1] \in Int
  BY PendingIsVertex DEF Round
<1>2. \A k \in 1..x.committedVertex : Pending(x) # VertexAt(k)
  BY PositionsDiffer DEF Pending, ExecEntries
<1> QED
  BY <1>1, <1>2 DEF OnlyPast, Past

\* The round of the next commit does not decrease.
LEMMA PastStays ==
    ASSUME NEW x \in ExecEntries, NEW t \in ExecEntries, NEW v \in Vertex, Past(x, v),
           \/ t.committedVertex = x.committedVertex /\ (x.executing => t.executing)
           \/ t.committedVertex = x.committedVertex + 1
    PROVE  Past(t, v)
<1>1. v[1] \in Int /\ x.committedVertex \in Nat
  BY DEF Vertex, Round, ExecEntries
<1>2. CASE t.committedVertex = x.committedVertex /\ (x.executing => t.executing)
  BY <1>2 DEF Past, Pending
<1>3. CASE t.committedVertex = x.committedVertex + 1
  <2>1. /\ Pending(x)[1] \in Int /\ Pending(t)[1] \in Int
        /\ Pending(x)[1] <= Pending(t)[1]
    <3>1. Pending(x)[1] = getVertexRound(x.committedVertex + 1)
      BY DEF Pending, VertexAt
    <3>2. Pending(t)[1] = getVertexRound(x.committedVertex + 2)
      BY <1>1, <1>3 DEF Pending, VertexAt
    <3> DEFINE j == x.committedVertex + 1
               k == x.committedVertex + 2
    <3>3. j \in Nat /\ k \in Nat /\ 1 <= j /\ j <= k /\ 1 <= k /\ k <= k
      BY <1>1
    <3>4. getVertexRound(j) \in Nat /\ getVertexRound(k) \in Nat
          /\ getVertexRound(j) <= getVertexRound(k)
      <4> HIDE DEF j, k
      <4> QED
        BY <3>3, RoundsGrow
    <3> QED
      BY <3>1, <3>2, <3>4
  <2>2. CASE v[1] < Pending(x)[1]
    BY <1>1, <2>1, <2>2 DEF Past
  <2>3. CASE \E k \in 1..x.committedVertex : v = VertexAt(k)
    BY <1>1, <1>3, <2>3 DEF Past
  <2>4. CASE v = Pending(x)
    <3>1. x.committedVertex + 1 \in 1..t.committedVertex
      BY <1>1, <1>3
    <3> QED
      BY <2>4, <3>1 DEF Past, Pending
  <2> QED
    BY <2>2, <2>3, <2>4 DEF Past
<1> QED
  BY <1>2, <1>3

LEMMA OrderStep ==
    ASSUME WeaksPointDown, NEW x \in ExecEntries, Progress(x), OnlyPast(x), NotLost(x),
           NEW t, Passes(x, t) \/ Starts(x, t) \/ Runs(x, t) \/ Waits(x, t)
    PROVE  OnlyPast(t) /\ NotLost(t)
<1>1. x.arrived \subseteq Vertex /\ t \in ExecEntries
  BY ProgressStep DEF ExecEntries
<1>2. \A v \in Vertex : x.execState[v] # 0 => Past(x, v)
  BY DEF OnlyPast
<1>3. ASSUME NEW v \in Vertex, Past(x, v) PROVE Past(t, v)
  <2>1. \/ t.committedVertex = x.committedVertex /\ (x.executing => t.executing)
        \/ t.committedVertex = x.committedVertex + 1
    BY DEF Passes, Starts, Runs, Goes, Waits
  <2> QED
    BY <1>1, <1>3, <2>1, PastStays
<1>4. CASE Passes(x, t)
  BY <1>2, <1>3, <1>4 DEF Passes, OnlyPast, NotLost
<1>5. CASE Starts(x, t)
  <2>1. Past(t, Pending(x))
    BY <1>5 DEF Starts, Past, Pending
  <2>2. OnlyPast(t)
    BY <1>2, <1>3, <1>5, <2>1 DEF Starts, OnlyPast
  <2>3. ASSUME NEW v \in t.arrived, t.execState[v] = 0 PROVE v \in t.payloads
    <3>1. v \in Vertex /\ v \in x.arrived
      BY <1>1, <1>5 DEF Starts
    <3>2. x.committedVertex + 1 # 0
      BY DEF ExecEntries
    <3>3. v # Pending(x) /\ x.execState[v] = 0
      BY <1>5, <2>3, <3>1, <3>2 DEF Starts
    <3> QED
      BY <1>5, <3>1, <3>3 DEF Starts, NotLost
  <2> QED
    BY <2>2, <2>3 DEF NotLost
<1>6. CASE Runs(x, t)
  <2>1. PICK W : /\ \A u \in W : u[1] < Pending(x)[1]
                 /\ t.payloads = x.payloads \ W
                 /\ \A v \in Vertex : t.execState[v] =
                       IF v \in W THEN x.committedVertex + 1 ELSE x.execState[v]
    BY <1>6 DEF Runs
  <2>2. ASSUME NEW v \in Vertex, t.execState[v] # 0 PROVE Past(t, v)
    <3>1. CASE v \in W
      BY <1>3, <2>1, <3>1 DEF Past
    <3>2. CASE v \notin W
      BY <1>2, <1>3, <2>1, <2>2, <3>2
    <3> QED
      BY <3>1, <3>2
  <2>3. ASSUME NEW v \in t.arrived, t.execState[v] = 0 PROVE v \in t.payloads
    <3>1. v \in Vertex /\ v \in x.arrived
      BY <1>1, <1>6 DEF Runs
    <3>2. x.committedVertex + 1 # 0
      BY DEF ExecEntries
    <3>3. v \notin W /\ x.execState[v] = 0
      BY <2>1, <2>3, <3>1, <3>2
    <3> QED
      BY <2>1, <3>1, <3>3 DEF NotLost
  <2> QED
    BY <2>2, <2>3 DEF OnlyPast, NotLost
<1>7. CASE Waits(x, t)
  <2>1. OnlyPast(t)
    BY <1>2, <1>3, <1>7 DEF Waits, OnlyPast
  <2>2. NotLost(t)
    BY <1>7 DEF Waits, NotLost
  <2> QED
    BY <2>1, <2>2
<1> QED
  BY <1>4, <1>5, <1>6, <1>7

LEMMA OrderInit == CommitInit => OrderInv
<1> SUFFICES ASSUME CommitInit, NEW p \in Observers
             PROVE  OnlyPast(exec[p]) /\ NotLost(exec[p])
  BY DEF OrderInv
<1>1. exec[p] = NoCommit(p)
  BY DEF CommitInit
<1> QED
  BY <1>1 DEF NoCommit, OnlyPast, NotLost

LEMMA OrderNext ==
    WeaksPointDown /\ CommitType /\ OrderInv /\ [CommitNext]_commitVars => OrderInv'
<1> SUFFICES ASSUME WeaksPointDown, CommitType, OrderInv, [CommitNext]_commitVars,
                    NEW q \in Observers
             PROVE  (OnlyPast(exec[q]) /\ NotLost(exec[q]))'
  BY DEF OrderInv
<1>1. \/ Passes(exec[q], exec'[q]) \/ Starts(exec[q], exec'[q])
      \/ Runs(exec[q], exec'[q]) \/ Waits(exec[q], exec'[q])
  BY OthersWait, tryCommitMoves
<1>2. exec[q] \in ExecEntries /\ Progress(exec[q]) /\ OnlyPast(exec[q]) /\ NotLost(exec[q])
  BY DEF CommitType, CommitTypeOK, OrderInv
<1>3. OnlyPast(exec'[q]) /\ NotLost(exec'[q])
  BY <1>1, <1>2, OrderStep
<1> QED
  BY <1>3 DEF OnlyPast, NotLost, Past

LEMMA Ordered == WeaksPointDown => (CommitSpec => [](CommitType /\ OrderInv))
<1>1. CommitSpec => []CommitType
  BY CommitInitType, CommitNextType, PTL DEF CommitSpec
<1> SUFFICES ASSUME WeaksPointDown PROVE CommitSpec => [](CommitType /\ OrderInv)
  OBVIOUS
<1>2. CommitType /\ OrderInv /\ [CommitNext]_commitVars => OrderInv'
  BY OrderNext
<1> QED
  BY <1>1, <1>2, OrderInit, PTL DEF CommitSpec

(***************************************************************************)
(* No commit and no walk through a history (tryCommit, executeBack,        *)
(* weakExc) executes a vertex that has been executed, although tryCommit   *)
(* does not look: for every DAG, every decision and every order in which   *)
(* vertices, coins and payloads come, if no weak edge leads to the round   *)
(* of its own vertex or a later one.                                       *)
(***************************************************************************)
THEOREM ExecutesOnce == ASSUME WeaksPointDown PROVE CommitSpec => ExecutedOnce
<1> DEFINE A == \A p \in Observers : \A v \in Vertex :
                  exec[p].execState[v] # 0 => exec'[p].execState[v] = exec[p].execState[v]
<1>1. CommitType /\ OrderInv /\ [CommitNext]_commitVars => A
  <2> SUFFICES ASSUME CommitType, OrderInv, [CommitNext]_commitVars, NEW p \in Observers,
                      NEW v \in Vertex, exec[p].execState[v] # 0
               PROVE  exec'[p].execState[v] = exec[p].execState[v]
    OBVIOUS
  <2> DEFINE x == exec[p]
             t == exec'[p]
  <2>1. Passes(x, t) \/ Starts(x, t) \/ Runs(x, t) \/ Waits(x, t)
    BY OthersWait, tryCommitMoves
  <2>2. x \in ExecEntries /\ OnlyPast(x) /\ v \in Executed(x)
    BY DEF CommitType, CommitTypeOK, OrderInv, Executed
  <2>3. CASE Passes(x, t) \/ Waits(x, t)
    BY <2>3 DEF Passes, Waits
  <2>4. CASE Starts(x, t)
    <3>1. v # Pending(x)
      BY <2>2, <2>4, PendingIsNew DEF Starts
    <3> QED
      BY <2>4, <3>1 DEF Starts
  <2>5. CASE Runs(x, t)
    BY <2>2, <2>5 DEF Runs
  <2> QED
    BY <2>1, <2>3, <2>4, <2>5
<1>2. CommitType /\ OrderInv /\ [CommitNext]_commitVars => [A]_commitVars
  BY <1>1
<1>3. WeaksPointDown
  OBVIOUS
<1>4. CommitSpec => [](CommitType /\ OrderInv)
  BY <1>3, Ordered
<1> QED
  BY <1>2, <1>4, PTL DEF CommitSpec, ExecutedOnce

(***************************************************************************)
(* weakExc and executeBack never delete the payload of a vertex that       *)
(* tryCommit has still to come to (it would return there for ever), under  *)
(* the same assumption on the weak edges.                                  *)
(***************************************************************************)
THEOREM PayloadsAreKept == ASSUME WeaksPointDown PROVE CommitSpec => []PayloadKept
<1>1. CommitType /\ OrderInv => PayloadKept
  <2> SUFFICES ASSUME CommitType, OrderInv, NEW p \in Observers, NEW k \in 1..MaxVertex,
                      k > exec[p].committedVertex, VertexAt(k) \in exec[p].arrived,
                      exec[p].executing => k # exec[p].committedVertex + 1,
                      VertexAt(k) \notin exec[p].payloads
               PROVE  FALSE
    BY DEF PayloadKept
  <2> DEFINE x == exec[p]
             c == x.committedVertex
             v == VertexAt(k)
  <2>1. x \in ExecEntries /\ c \in Nat /\ k \in Nat /\ v \in Vertex
    BY Positive, PositionIsVertex DEF CommitType, CommitTypeOK, ExecEntries
  <2>2. Past(x, v)
    BY <2>1 DEF OrderInv, OnlyPast, NotLost
  <2>3. CASE v[1] < Pending(x)[1]
    <3>1. v[1] = getVertexRound(k) /\ Pending(x)[1] = getVertexRound(c + 1)
      BY DEF VertexAt, Pending
    <3>2. c + 1 \in Nat /\ 1 <= c + 1 /\ c + 1 <= k /\ 1 <= k /\ k <= k
      BY <2>1
    <3>3. /\ getVertexRound(c + 1) \in Nat /\ getVertexRound(k) \in Nat
          /\ getVertexRound(c + 1) <= getVertexRound(k)
      <4> DEFINE j == c + 1
      <4>1. j \in Nat /\ 1 <= j /\ j <= k
        BY <3>2
      <4> HIDE DEF j
      <4>2. getVertexRound(j) \in Nat /\ getVertexRound(j) <= getVertexRound(k)
        BY <2>1, <4>1, RoundsGrow
      <4>3. getVertexRound(k) \in Nat
        BY <2>1, <3>2, RoundsGrow
      <4> QED
        BY <4>2, <4>3 DEF j
    <3> QED
      BY <2>3, <3>1, <3>3
  <2>4. CASE \E j \in 1..c : v = VertexAt(j)
    <3>1. PICK j \in 1..c : v = VertexAt(j)
      BY <2>4
    <3>2. j \in Nat /\ 1 <= j /\ j < k
      BY <2>1, <3>1
    <3> QED
      BY <2>1, <3>1, <3>2, PositionsDiffer
  <2>5. CASE x.executing /\ v = Pending(x)
    <3> DEFINE j == c + 1
    <3>1. j \in Nat /\ 1 <= j /\ j < k
      BY <2>1, <2>5
    <3>2. v = VertexAt(j)
      BY <2>5 DEF Pending
    <3> HIDE DEF j
    <3> QED
      BY <2>1, <3>1, <3>2, PositionsDiffer
  <2> QED
    BY <2>2, <2>3, <2>4, <2>5 DEF Past
<1>2. WeaksPointDown
  OBVIOUS
<1>3. CommitSpec => [](CommitType /\ OrderInv)
  BY <1>2, Ordered
<1> QED
  BY <1>1, <1>3, PTL

----------------------------------------------------------------------------
(***************************************************************************)
(* One execution as a walk: what executeBack does to what has been         *)
(* executed and to its own variables, in a DAG g with the weak edges w,    *)
(* when no vertex that it comes to is missing.  It is a function of where  *)
(* it starts, and the copy of the DAG and the commits do not matter.       *)
(***************************************************************************)
Views ==
    [E: SUBSET Vertex, round: 0..(MaxRound - 1), fathers: SUBSET Node, mp: SUBSET Node, flag: BOOLEAN]

View(x) ==
    [E |-> Executed(x), round |-> x.round, fathers |-> x.fathers, mp |-> x.mp, flag |-> x.flag]

Halt(E) == [E |-> E, round |-> 0, fathers |-> {}, mp |-> {}, flag |-> FALSE]

ParentsOf(g, round, fathers) == UNION {g[<<round + 1, f>>] : f \in fathers}

Enter(g, E, round, fathers) ==
    IF round = 0 \/ Full(E, round) THEN Halt(E)
    ELSE [E |-> E, round |-> round, fathers |-> fathers,
          mp |-> ParentsOf(g, round, fathers), flag |-> FALSE]

Start(g, E, v) == Enter(g, E \cup {v}, v[1] - 1, {v[2]})

Unseen(c) == {i \in c.mp : <<c.round, i>> \notin c.E}

\* ComesFirst in the whole DAG.
First(g, c, i, j) ==
    \E f \in c.fathers : /\ i \in g[<<c.round + 1, f>>]
                         /\ \A h \in c.fathers : j \in g[<<c.round + 1, h>>] =>
                              \/ f < h
                              \/ f = h /\ Place[<<c.round + 1, f>>][i] <= Place[<<c.round + 1, f>>][j]

\* What has been executed after the vertex v and its weak edges.
With(E, v, w) == (E \cup {v}) \cup WeakParents(E \cup {v}, w[v])

Sees(g, w, c, d) ==
    \E i \in Unseen(c) :
        /\ \A j \in Unseen(c) : First(g, c, i, j)
        /\ d = [E |-> With(c.E, <<c.round, i>>, w), round |-> c.round,
                fathers |-> c.fathers, mp |-> c.mp, flag |-> TRUE]

Sinks(g, c, d) ==
    /\ Unseen(c) = {}
    /\ d = IF c.flag THEN Enter(g, c.E, c.round - 1, c.mp) ELSE Halt(c.E)

Walks(g, w, c, d) == c.round # 0 /\ (Sees(g, w, c, d) \/ Sinks(g, c, d))

\* b is in every set that has a and that no walk leaves.
Keeps(g, w, Z) == \A c \in Z : \A d \in Views : Walks(g, w, c, d) => d \in Z
Reach(g, w, a, b) == \A Z \in SUBSET Views : a \in Z /\ Keeps(g, w, Z) => b \in Z

\* The execution of v turns E into G.
Executes(g, w, E, v, G) ==
    /\ v \in DOMAIN g
    /\ \E c \in Views :
          /\ c.round = 0 /\ Reach(g, w, Start(g, E, v), c)
          /\ G = c.E \cup WeakParents(c.E, w[v])

\* The loops of executeBack come to one vertex first.
LEMMA FirstIsOne ==
    ASSUME NEW g, NEW c \in Views, NEW i \in Node, NEW j \in Node, First(g, c, i, j), First(g, c, j, i)
    PROVE  i = j
<1>1. c.fathers \subseteq Node /\ Node \subseteq Int
  BY CommitAssumption DEF Views
<1>2. PICK f \in c.fathers :
        /\ i \in g[<<c.round + 1, f>>]
        /\ \A h \in c.fathers : j \in g[<<c.round + 1, h>>] =>
              \/ f < h
              \/ f = h /\ Place[<<c.round + 1, f>>][i] <= Place[<<c.round + 1, f>>][j]
  BY DEF First
<1>3. PICK h \in c.fathers :
        /\ j \in g[<<c.round + 1, h>>]
        /\ \A k \in c.fathers : i \in g[<<c.round + 1, k>>] =>
              \/ h < k
              \/ h = k /\ Place[<<c.round + 1, h>>][j] <= Place[<<c.round + 1, h>>][i]
  BY DEF First
<1> DEFINE v == <<c.round + 1, f>>
<1>4. v \in Vertex
  BY <1>1, Positive DEF Vertex, Round, Views
<1>5. f = h /\ Place[v][i] <= Place[v][j] /\ Place[v][j] <= Place[v][i]
  <2>1. f < h \/ (f = h /\ Place[v][i] <= Place[v][j])
    BY <1>2, <1>3
  <2>2. h < f \/ (h = f /\ Place[<<c.round + 1, h>>][j] <= Place[<<c.round + 1, h>>][i])
    BY <1>2, <1>3
  <2>3. f \in Int /\ h \in Int
    BY <1>1
  <2> QED
    BY <2>1, <2>2, <2>3
<1> HIDE DEF v
<1>6. Place[v][i] \in Nat /\ Place[v][j] \in Nat
  <2>1. Place[v] \in [Node -> Nat]
    BY <1>4, CommitAssumption
  <2> QED
    BY <2>1
<1>7. Place[v][i] = Place[v][j]
  BY <1>5, <1>6
<1> QED
  BY <1>4, <1>7, CommitAssumption

LEMMA WalksIsFunction ==
    ASSUME NEW g, NEW w, NEW c \in Views, NEW d, NEW e,
           Walks(g, w, c, d), Walks(g, w, c, e)
    PROVE  d = e
<1>1. c.round # 0 /\ Unseen(c) \subseteq Node
  BY DEF Walks, Unseen, Views
<1>2. CASE Unseen(c) = {}
  BY <1>2 DEF Walks, Sees, Sinks
<1>3. CASE Unseen(c) # {}
  <2>1. Sees(g, w, c, d) /\ Sees(g, w, c, e)
    BY <1>3 DEF Walks, Sinks
  <2>2. PICK i \in Unseen(c) :
          /\ \A k \in Unseen(c) : First(g, c, i, k)
          /\ d = [E |-> With(c.E, <<c.round, i>>, w), round |-> c.round,
                fathers |-> c.fathers, mp |-> c.mp, flag |-> TRUE]
    BY <2>1 DEF Sees
  <2>3. PICK j \in Unseen(c) :
          /\ \A k \in Unseen(c) : First(g, c, j, k)
          /\ e = [E |-> With(c.E, <<c.round, j>>, w), round |-> c.round,
                  fathers |-> c.fathers, mp |-> c.mp, flag |-> TRUE]
    BY <2>1 DEF Sees
  <2>4. i = j
    BY <1>1, <2>2, <2>3, FirstIsOne
  <2> QED
    BY <2>2, <2>3, <2>4
<1> QED
  BY <1>2, <1>3

\* Views of a DAG: what the walks need to know of g and w.
LEMMA HaltIsView == ASSUME NEW E \in SUBSET Vertex PROVE Halt(E) \in Views
BY Positive DEF Halt, Views

LEMMA StartIsView ==
    ASSUME NEW g \in Graphs, NEW E \in SUBSET Vertex, NEW v \in DOMAIN g
    PROVE  v \in Vertex /\ Start(g, E, v) \in Views
<1>1. v \in Vertex /\ v[1] \in Round /\ v[2] \in Node
  BY DecideAssumption DEF ValidGraph, Vertex
<1>2. v = <<(v[1] - 1) + 1, v[2]>>
  BY <1>1 DEF Vertex, Round
<1>3. g[v] \subseteq Node
  BY DecideAssumption DEF ValidGraph
<1>4. ParentsOf(g, v[1] - 1, {v[2]}) = g[v]
  BY <1>2 DEF ParentsOf
<1>5. E \cup {v} \in SUBSET Vertex
  BY <1>1
<1>6. v[1] - 1 \in 0..(MaxRound - 1)
  BY <1>1, Positive DEF Round
<1>7. CASE v[1] - 1 = 0 \/ Full(E \cup {v}, v[1] - 1)
  <2>1. Start(g, E, v) = Halt(E \cup {v})
    BY <1>7 DEF Start, Enter
  <2> QED
    BY <1>1, <1>5, <2>1, HaltIsView
<1>8. CASE ~(v[1] - 1 = 0 \/ Full(E \cup {v}, v[1] - 1))
  <2>1. Start(g, E, v) = [E |-> E \cup {v}, round |-> v[1] - 1, fathers |-> {v[2]},
                          mp |-> g[v], flag |-> FALSE]
    BY <1>4, <1>8 DEF Start, Enter
  <2> QED
    BY <1>1, <1>3, <1>5, <1>6, <2>1 DEF Views
<1> QED
  BY <1>7, <1>8

LEMMA ReachSelf == ASSUME NEW g, NEW w, NEW a PROVE Reach(g, w, a, a)
BY DEF Reach

LEMMA ReachStep ==
    ASSUME NEW g, NEW w, NEW a, NEW b, NEW c \in Views, Reach(g, w, a, b), Walks(g, w, b, c)
    PROVE  Reach(g, w, a, c)
BY DEF Reach, Keeps

\* What has been executed stays.
LEMMA ReachGrows ==
    ASSUME NEW g, NEW w, NEW a \in Views, NEW b, Reach(g, w, a, b)
    PROVE  a.E \subseteq b.E
<1> DEFINE Z == {c \in Views : a.E \subseteq c.E}
<1>1. ASSUME NEW c \in Views, NEW d \in Views, a.E \subseteq c.E, Walks(g, w, c, d)
      PROVE  a.E \subseteq d.E
  <2>1. CASE Sees(g, w, c, d)
    <3>1. PICK i : d = [E |-> With(c.E, <<c.round, i>>, w), round |-> c.round,
                        fathers |-> c.fathers, mp |-> c.mp, flag |-> TRUE]
      BY <2>1 DEF Sees
    <3>2. d.E = With(c.E, <<c.round, i>>, w)
      BY <3>1
    <3> QED
      BY <1>1, <3>2 DEF With
  <2>2. CASE Sinks(g, c, d)
    BY <1>1, <2>2 DEF Sinks, Enter, Halt
  <2> QED
    BY <1>1, <2>1, <2>2 DEF Walks
<1>2. Keeps(g, w, Z)
  BY <1>1 DEF Keeps
<1>3. Z \in SUBSET Views /\ a \in Z
  OBVIOUS
<1> HIDE DEF Z
<1>4. b \in Z
  BY <1>2, <1>3 DEF Reach
<1> QED
  BY <1>4 DEF Z

\* A walk that has ended stays where it is.
LEMMA ReachEnds ==
    ASSUME NEW g, NEW w, NEW a \in Views, a.round = 0, NEW b, Reach(g, w, a, b)
    PROVE  b = a
<1>1. Keeps(g, w, {a})
  BY DEF Keeps, Walks
<1>2. {a} \in SUBSET Views /\ a \in {a}
  OBVIOUS
<1>3. b \in {a}
  BY <1>1, <1>2 DEF Reach
<1> QED
  BY <1>3

\* A walk that has come to c goes on to where every walk from its start ends.
LEMMA ReachJoins ==
    ASSUME NEW g, NEW w, NEW a \in Views, NEW b \in Views, NEW c, b.round = 0,
           Reach(g, w, a, b), Reach(g, w, a, c)
    PROVE  c \in Views /\ Reach(g, w, c, b)
<1> DEFINE Z == {d \in Views : Reach(g, w, d, b)}
<1>1. ASSUME NEW d \in Views, NEW e \in Views, Reach(g, w, d, b), Walks(g, w, d, e)
      PROVE  Reach(g, w, e, b)
  <2> SUFFICES ASSUME NEW Y \in SUBSET Views, e \in Y, Keeps(g, w, Y) PROVE b \in Y
    BY DEF Reach
  <2> DEFINE Y1 == Y \cup {d}
  <2>1. Keeps(g, w, Y1)
    <3> SUFFICES ASSUME NEW f \in Y1, NEW h \in Views, Walks(g, w, f, h) PROVE h \in Y1
      BY DEF Keeps
    <3>1. CASE f \in Y
      BY <3>1 DEF Keeps
    <3>2. CASE f = d
      BY <1>1, <3>2, WalksIsFunction
    <3> QED
      BY <3>1, <3>2
  <2>2. Y1 \in SUBSET Views /\ d \in Y1
    OBVIOUS
  <2>3. b \in Y1
    <3> HIDE DEF Y1
    <3> QED
      BY <1>1, <2>1, <2>2 DEF Reach
  <2>4. b # d
    BY <1>1 DEF Walks
  <2> QED
    BY <2>3, <2>4
<1>2. Keeps(g, w, Z)
  BY <1>1 DEF Keeps
<1>3. Z \in SUBSET Views /\ a \in Z
  OBVIOUS
<1> HIDE DEF Z
<1>4. c \in Z
  BY <1>2, <1>3 DEF Reach
<1> QED
  BY <1>4 DEF Z

\* An execution is a function of what has been executed before.
LEMMA ExecutesOneWay ==
    ASSUME NEW g \in Graphs, NEW w, NEW E \in SUBSET Vertex, NEW v, NEW G, NEW H,
           Executes(g, w, E, v, G), Executes(g, w, E, v, H)
    PROVE  G = H
<1>1. Start(g, E, v) \in Views
  BY StartIsView DEF Executes
<1>2. PICK b \in Views : /\ b.round = 0 /\ Reach(g, w, Start(g, E, v), b)
                         /\ G = b.E \cup WeakParents(b.E, w[v])
  BY DEF Executes
<1>3. PICK c \in Views : /\ c.round = 0 /\ Reach(g, w, Start(g, E, v), c)
                         /\ H = c.E \cup WeakParents(c.E, w[v])
  BY DEF Executes
<1>4. Reach(g, w, c, b)
  BY <1>1, <1>2, <1>3, ReachJoins
<1>5. b = c
  BY <1>3, <1>4, ReachEnds
<1> QED
  BY <1>2, <1>3, <1>5

\* An execution under way has executed nothing that it will not have executed.
LEMMA ExecutesMore ==
    ASSUME NEW g \in Graphs, NEW w, NEW E \in SUBSET Vertex, NEW v, NEW G,
           Executes(g, w, E, v, G), NEW c, Reach(g, w, Start(g, E, v), c)
    PROVE  c.E \subseteq G
<1>1. Start(g, E, v) \in Views
  BY StartIsView DEF Executes
<1>2. PICK b \in Views : /\ b.round = 0 /\ Reach(g, w, Start(g, E, v), b)
                         /\ G = b.E \cup WeakParents(b.E, w[v])
  BY DEF Executes
<1>3. c \in Views /\ Reach(g, w, c, b)
  BY <1>1, <1>2, ReachJoins
<1> QED
  BY <1>2, <1>3, ReachGrows

----------------------------------------------------------------------------
(***************************************************************************)
(* tryCommit walks: what its steps do to the view of the entries x.        *)
(***************************************************************************)
\* What had been executed after the k-th commit.
Done(x, k) == {v \in Vertex : x.execState[v] \in 1..k}

Grows(x, t) ==
    /\ t \in ExecEntries /\ Noted(x, t)
    /\ \A v \in Vertex : \/ t.execState[v] = x.execState[v]
                         \/ x.execState[v] = 0 /\ t.execState[v] = x.committedVertex + 1

\* executeBack finds the vertices of its fathers and all that they connect to.
Attached(g, D, x) ==
    x.round # 0 => /\ \A f \in x.fathers : <<x.round + 1, f>> \in D
                   /\ x.mp = ParentsOf(g, x.round, x.fathers)

LEMMA ViewIsView ==
    ASSUME NEW x \in ExecEntries, Progress(x)
    PROVE  View(x) \in Views
<1>1. x.round \in 0..(MaxRound - 1)
  <2>1. x.round # 0 => x.round < Pending(x)[1] /\ Pending(x)[1] \in Round
    BY PendingIsVertex DEF Progress
  <2> QED
    BY <2>1, Positive DEF ExecEntries, Round
<1> QED
  BY <1>1 DEF View, Views, Executed, ExecEntries

LEMMA ViewFields ==
    ASSUME NEW x
    PROVE  /\ View(x).E = Executed(x) /\ View(x).round = x.round
           /\ View(x).fathers = x.fathers /\ View(x).mp = x.mp /\ View(x).flag = x.flag
BY DEF View

LEMMA WeakParentsType ==
    ASSUME NEW E, NEW w \in Seq(Vertex)
    PROVE  WeakParents(E, w) \subseteq Vertex
BY DEF WeakParents

LEMMA RanExecutes ==
    ASSUME NEW x \in ExecEntries, NEW t, NEW W \in SUBSET Vertex, Ran(x, t, W)
    PROVE  /\ Executed(t) = Executed(x) \cup W
           /\ W \cap Executed(x) = {} => Grows(x, t)
<1>1. x.committedVertex + 1 # 0
  BY Positive DEF ExecEntries
<1> QED
  BY <1>1 DEF Ran, Executed, Grows

\* Without weak edges nothing is executed.
LEMMA NoWeakParents == ASSUME NEW E PROVE WeakParents(E, <<>>) = {}
<1>1. DOMAIN <<>> = {}
  OBVIOUS
<1> QED
  BY <1>1 DEF WeakParents

\* If it notes no gap, weakExc executes all the weak edges of v there are.
LEMMA weakExcFinds ==
    ASSUME weak \in Weaks, NEW x \in ExecEntries, x.committedVertex < MaxVertex,
           NEW D, NEW v \in Vertex
    PROVE  /\ \E W : Ran(x, weakExc(x, D, v), W)
           /\ Grows(x, weakExc(x, D, v))
           /\ x.committedVertex + 1 \notin weakExc(x, D, v).gaps =>
                 Executed(weakExc(x, D, v)) = Executed(x) \cup WeakParents(Executed(x), weak[v])
<1> DEFINE z == weakExc(x, D, v)
<1>1. CASE v \in D
  <2> DEFINE W == WeakParents(Executed(x), weak[v]) \ Executed(x)
  <2>1. weak[v] \in Seq(Vertex)
    BY CommitAssumption
  <2>2. W \in SUBSET Vertex /\ W \cap Executed(x) = {}
    BY <2>1, WeakParentsType
  <2>3. z = execute(x, W)
    BY <1>1 DEF weakExc
  <2>4. Executed(x) \cup W = Executed(x) \cup WeakParents(Executed(x), weak[v])
    OBVIOUS
  <2> HIDE DEF W, z
  <2>5. Ran(x, z, W)
    BY <2>3, executeRuns
  <2>6. Executed(z) = Executed(x) \cup W /\ Grows(x, z)
    BY <2>2, <2>5, RanExecutes
  <2> QED
    BY <2>4, <2>5, <2>6 DEF z
<1>2. CASE v \notin D
  <2> DEFINE S == {u \in {v} : weak[u] # <<>>}
  <2>1. z = Note(x, S)
    BY <1>2 DEF weakExc
  <2> HIDE DEF z, S
  <2>2. /\ z \in ExecEntries /\ Noted(x, z)
        /\ S # {} => x.committedVertex + 1 \in z.gaps
        /\ z.payloads = x.payloads /\ z.arrived = x.arrived
        /\ z.execState = x.execState /\ z.committedVertex = x.committedVertex
        /\ z.executing = x.executing
        /\ z.round = x.round /\ z.fathers = x.fathers /\ z.mp = x.mp
        /\ z.flag = x.flag
    BY <2>1, NoteKeeps
  <2>3. Ran(x, z, {}) /\ Grows(x, z) /\ Executed(z) = Executed(x)
    BY <2>2 DEF Ran, Grows, Executed
  <2>4. S = {} => weak[v] = <<>>
    BY DEF S
  <2>5. S = {} => WeakParents(Executed(x), weak[v]) = {}
    BY <2>4, NoWeakParents
  <2> QED
    BY <2>2, <2>3, <2>5 DEF z
<1> QED
  BY <1>1, <1>2

\* If it notes no gap, a call of executeBack finds the vertices of its fathers.
LEMMA executeBackEnters ==
    ASSUME NEW x \in ExecEntries, x.committedVertex < MaxVertex, NEW D, NEW r, NEW fathers,
           x.committedVertex + 1 \notin executeBack(x, D, r, fathers).gaps
    PROVE  /\ View(executeBack(x, D, r, fathers)) = Enter(conn, Executed(x), r, fathers)
           /\ Attached(conn, D, executeBack(x, D, r, fathers))
<1> DEFINE t == executeBack(x, D, r, fathers)
<1>1. CASE r = 0 \/ Full(Executed(x), r)
  <2>1. t = Leave(x)
    BY <1>1 DEF executeBack
  <2>2. /\ t.round = 0 /\ t.fathers = {} /\ t.mp = {} /\ t.flag = FALSE
        /\ t.execState = x.execState
    BY <2>1 DEF Leave, ExecEntries
  <2>3. View(t) = Halt(Executed(x))
    BY <2>2 DEF View, Halt, Executed
  <2> QED
    BY <1>1, <2>2, <2>3 DEF Enter, Attached
<1>2. CASE ~(r = 0 \/ Full(Executed(x), r))
  <2> DEFINE C == Connected(D, r, fathers)
             S == FatherNodes(r, fathers) \ D
             y == Note(x, S)
  <2>1. t = [y EXCEPT !.round = r, !.fathers = fathers, !.mp = C, !.flag = FALSE]
    BY <1>2 DEF executeBack
  <2>2. /\ y \in ExecEntries /\ y.execState = x.execState
        /\ S # {} => x.committedVertex + 1 \in y.gaps
    <3> HIDE DEF S
    <3> QED
      BY NoteKeeps
  <2> HIDE DEF C, S, y
  <2>3. /\ t.round = r /\ t.fathers = fathers /\ t.mp = C /\ t.flag = FALSE
        /\ t.execState = x.execState /\ t.gaps = y.gaps
    BY <2>1, <2>2 DEF ExecEntries
  <2>4. S = {}
    BY <2>2, <2>3
  <2>5. \A f \in fathers : <<r + 1, f>> \in D
    BY <2>4 DEF S, FatherNodes
  <2>6. C = ParentsOf(conn, r, fathers)
    <3>1. FatherNodes(r, fathers) \cap D = FatherNodes(r, fathers)
      BY <2>4 DEF S
    <3>2. C = UNION {conn[v] : v \in FatherNodes(r, fathers)}
      BY <3>1 DEF C, Connected
    <3> QED
      BY <3>2 DEF ParentsOf, FatherNodes
  <2> HIDE DEF t
  <2>7. View(t) = Enter(conn, Executed(x), r, fathers)
    BY <1>2, <2>3, <2>6 DEF View, Enter, Executed
  <2>8. Attached(conn, D, t)
    BY <1>2, <2>3, <2>5, <2>6 DEF Attached
  <2> QED
    BY <2>7, <2>8 DEF t
<1> QED
  BY <1>1, <1>2

LEMMA ToCheckIsUnseen ==
    ASSUME NEW x \in ExecEntries, x.round # 0
    PROVE  Unseen(View(x)) = ToCheck(x)
BY DEF Unseen, View, ToCheck, Executed, Vertex, Round, ExecEntries

LEMMA ComesFirstIsFirst ==
    ASSUME NEW x \in ExecEntries, x.round # 0, NEW D, Attached(conn, D, x), NEW i, NEW j,
           ComesFirst(x, D, i, j)
    PROVE  First(conn, View(x), i, j)
<1>1. \A f \in x.fathers : <<x.round + 1, f>> \in D
  BY DEF Attached
<1>2. \A k : FathersOf(x, D, k) = {f \in x.fathers : k \in conn[<<x.round + 1, f>>]}
  BY <1>1 DEF FathersOf
<1>3. PICK f \in FathersOf(x, D, i) : \A h \in FathersOf(x, D, j) :
        f < h \/ (f = h /\ Place[<<x.round + 1, f>>][i] <= Place[<<x.round + 1, f>>][j])
  BY DEF ComesFirst
<1>4. f \in x.fathers /\ i \in conn[<<x.round + 1, f>>]
  BY <1>2, <1>3
<1>5. \A h \in x.fathers : j \in conn[<<x.round + 1, h>>] =>
        f < h \/ (f = h /\ Place[<<x.round + 1, f>>][i] <= Place[<<x.round + 1, f>>][j])
  BY <1>2, <1>3
<1> QED
  BY <1>4, <1>5, ViewFields DEF First

\* What no step inside an execution changes.
StillIn(x, t) ==
    t.committedVertex = x.committedVertex /\ t.executing = x.executing

LEMMA VisitWalks ==
    ASSUME CommitType, NEW p \in Observers, NEW i \in Node, Visit(p, i)
    PROVE  /\ Grows(exec[p], exec'[p]) /\ StillIn(exec[p], exec'[p])
           /\ /\ Attached(conn, node[p].DAG, exec[p])
              /\ exec[p].committedVertex + 1 \notin exec'[p].gaps
              => /\ Walks(conn, weak, View(exec[p]), View(exec'[p]))
                 /\ Attached(conn, node[p].DAG, exec'[p])
<1> DEFINE x == exec[p]
           t == exec'[p]
           D == node[p].DAG
           v == <<x.round, i>>
           y == execute(x, {v})
           z == weakExc(y, D, v)
<1>1. /\ x \in ExecEntries /\ weak \in Weaks /\ x.executing
      /\ x.round # 0 /\ x.committedVertex < MaxVertex
      /\ i \in ToCheck(x) /\ \A j \in ToCheck(x) : ComesFirst(x, D, i, j)
  BY DEF CommitType, CommitTypeOK, Progress, Visit
<1>2. v \in Vertex /\ v \notin Executed(x)
  BY <1>1 DEF ToCheck, Executed, Vertex, Round, ExecEntries
<1>3. t = [z EXCEPT !.flag = TRUE]
  BY DEF Visit, CommitType, CommitTypeOK
<1>4. Ran(x, y, {v})
  BY <1>1, executeRuns
<1>5. y.gaps = x.gaps /\ y.committedVertex = x.committedVertex
  BY <1>1 DEF execute, ExecEntries
<1>6. Executed(y) = Executed(x) \cup {v} /\ Grows(x, y)
  BY <1>1, <1>2, <1>4, RanExecutes
<1>7. y \in ExecEntries /\ y.committedVertex < MaxVertex
  BY <1>1, <1>4 DEF Ran
<1> HIDE DEF y
<1>8. /\ \E W : Ran(y, z, W)
      /\ Grows(y, z)
      /\ y.committedVertex + 1 \notin z.gaps =>
            Executed(z) = Executed(y) \cup WeakParents(Executed(y), weak[v])
  BY <1>1, <1>2, <1>7, weakExcFinds
<1> HIDE DEF z, v
<1>9. /\ t \in ExecEntries /\ t.executing = z.executing /\ t.execState = z.execState
      /\ t.round = z.round /\ t.committedVertex = z.committedVertex /\ t.gaps = z.gaps
      /\ t.fathers = z.fathers /\ t.mp = z.mp /\ t.flag = TRUE
  BY <1>3, <1>8 DEF Ran, ExecEntries
<1> HIDE DEF t
<1>10. /\ t.round = x.round /\ t.fathers = x.fathers /\ t.mp = x.mp /\ StillIn(x, t)
  BY <1>4, <1>8, <1>9 DEF Ran, StillIn
<1>11. Grows(x, t)
  <2>1. x.committedVertex + 1 # 0
    BY <1>1, Positive DEF ExecEntries
  <2>2. Noted(x, t)
    BY <1>5, <1>8, <1>9 DEF Grows, Noted
  <2> QED
    BY <1>5, <1>6, <1>8, <1>9, <2>1, <2>2 DEF Grows
<1>12. ASSUME Attached(conn, D, x), x.committedVertex + 1 \notin t.gaps
       PROVE  Walks(conn, weak, View(x), View(t)) /\ Attached(conn, D, t)
  <2>1. Executed(t) = With(Executed(x), v, weak)
    <3>1. Executed(z) = Executed(y) \cup WeakParents(Executed(y), weak[v])
      BY <1>5, <1>8, <1>9, <1>12
    <3> QED
      BY <1>6, <1>9, <3>1 DEF With, Executed
  <2>2. i \in Unseen(View(x)) /\ \A j \in Unseen(View(x)) : First(conn, View(x), i, j)
    <3>1. Unseen(View(x)) = ToCheck(x)
      BY <1>1, ToCheckIsUnseen
    <3>2. \A j \in ToCheck(x) : First(conn, View(x), i, j)
      BY <1>1, <1>12, ComesFirstIsFirst
    <3> QED
      BY <1>1, <3>1, <3>2
  <2>3. View(t) = [E |-> With(View(x).E, <<View(x).round, i>>, weak), round |-> View(x).round,
                   fathers |-> View(x).fathers, mp |-> View(x).mp, flag |-> TRUE]
    BY <1>9, <1>10, <2>1 DEF View, v
  <2>4. Sees(conn, weak, View(x), View(t))
    BY <2>2, <2>3 DEF Sees
  <2>5. Attached(conn, D, t)
    BY <1>10, <1>12 DEF Attached
  <2> QED
    BY <1>1, <2>4, <2>5, ViewFields DEF Walks
<1> QED
  BY <1>10, <1>11, <1>12 DEF t

LEMMA NextRoundWalks ==
    ASSUME CommitType, NEW p \in Observers, NextRound(p)
    PROVE  /\ Grows(exec[p], exec'[p]) /\ StillIn(exec[p], exec'[p])
           /\ exec[p].committedVertex + 1 \notin exec'[p].gaps =>
                 /\ Walks(conn, weak, View(exec[p]), View(exec'[p]))
                 /\ Attached(conn, node[p].DAG, exec'[p])
<1> DEFINE x == exec[p]
           t == exec'[p]
           D == node[p].DAG
<1>1. /\ x \in ExecEntries /\ x.round # 0 /\ ToCheck(x) = {} /\ x.committedVertex < MaxVertex
      /\ conn \in Graphs /\ D \in SUBSET DOMAIN conn
  BY DEF CommitType, CommitTypeOK, TypeOK, Held, Progress, NextRound
<1>2. Unseen(View(x)) = {}
  BY <1>1, ToCheckIsUnseen
<1>3. CASE x.flag
  <2>1. t = executeBack(x, D, x.round - 1, x.mp)
    BY <1>3 DEF NextRound, CommitType, CommitTypeOK
  <2>2. x.round - 1 \in 0..MaxRound /\ x.mp \in SUBSET Node
    BY <1>1, Positive DEF ExecEntries
  <2>3. Same(x, t)
    BY <1>1, <2>1, <2>2, executeBackKeeps
  <2>4. Grows(x, t) /\ StillIn(x, t)
    BY <2>3 DEF Same, Grows, StillIn
  <2>5. ASSUME x.committedVertex + 1 \notin t.gaps
        PROVE  Walks(conn, weak, View(x), View(t)) /\ Attached(conn, D, t)
    <3>1. View(t) = Enter(conn, Executed(x), x.round - 1, x.mp) /\ Attached(conn, D, t)
      BY <1>1, <2>1, <2>5, executeBackEnters
    <3> HIDE DEF t
    <3>2. Sinks(conn, View(x), View(t))
      BY <1>2, <1>3, <3>1, ViewFields DEF Sinks
    <3> QED
      BY <1>1, <3>1, <3>2, ViewFields DEF Walks
  <2> QED
    BY <2>4, <2>5
<1>4. CASE ~x.flag
  <2>1. t = Leave(x)
    BY <1>4 DEF NextRound, CommitType, CommitTypeOK
  <2>2. /\ t.round = 0 /\ t.fathers = {} /\ t.mp = {} /\ t.flag = FALSE
        /\ t.execState = x.execState
    BY <1>1, <2>1 DEF Leave, ExecEntries
  <2>3. Same(x, t)
    BY <1>1, <2>1, LeaveKeeps
  <2> HIDE DEF t
  <2>4. View(t) = Halt(Executed(x))
    BY <2>2 DEF View, Halt, Executed
  <2>5. Sinks(conn, View(x), View(t))
    BY <1>2, <1>4, <2>4, ViewFields DEF Sinks
  <2> QED
    BY <1>1, <2>2, <2>3, <2>5, ViewFields DEF Walks, Same, Grows, StillIn, Attached, t
<1> QED
  BY <1>3, <1>4

LEMMA CommitVertexEnters ==
    ASSUME CommitType, OrderInv, NEW p \in Observers, CommitVertex(p)
    PROVE  LET x == exec[p]
               t == exec'[p]
               v == Pending(exec[p])
           IN  /\ x.committedVertex + 1 \notin t.gaps =>
                     /\ View(t) = Start(conn, Executed(x), v)
                     /\ Attached(conn, node[p].DAG, t)
               /\ Grows(x, t) /\ t.committedVertex = x.committedVertex /\ t.executing
               /\ v \in node[p].DAG /\ node[p].decideState2[v[1]][v[2]] = 2
               /\ x.committedVertex < MaxVertex /\ ~x.executing
<1> DEFINE x == exec[p]
           t == exec'[p]
           v == Pending(x)
           D == node[p].DAG
           y == execute(x, {v})
           z == [y EXCEPT !.executing = TRUE]
<1>1. x \in ExecEntries /\ OnlyPast(x)
  BY DEF CommitType, CommitTypeOK, OrderInv
<1>2. ~x.executing /\ x.committedVertex < MaxVertex
  BY <1>1, Positive DEF CommitVertex, InLoop, Committable, Decision, ExecEntries
<1>3. v \in D /\ node[p].decideState2[v[1]][v[2]] = 2
  BY <1>2 DEF CommitVertex, Committable, Decision
<1>4. t = executeBack(z, D, v[1] - 1, {v[2]})
  BY DEF CommitVertex, CommitType, CommitTypeOK
<1>5. v \in Vertex /\ v[1] \in Round /\ v[2] \in Node /\ x.execState[v] = 0
  BY <1>1, <1>2, PendingIsVertex, PendingIsNew
<1>7. Ran(x, y, {v})
  BY <1>1, <1>2, executeRuns
<1>8. Executed(y) = Executed(x) \cup {v} /\ Grows(x, y)
  BY <1>1, <1>5, <1>7, RanExecutes DEF Executed
<1>6. y.gaps = x.gaps
  BY <1>1 DEF execute, ExecEntries
<1> HIDE DEF y
<1>9. /\ z \in ExecEntries /\ z.executing /\ z.execState = y.execState
      /\ z.committedVertex = x.committedVertex /\ z.gaps = x.gaps
  BY <1>6, <1>7 DEF Ran, ExecEntries
<1> HIDE DEF z
<1>10. Executed(z) = Executed(x) \cup {v}
  BY <1>8, <1>9 DEF Executed
<1> HIDE DEF v
<1>12. ASSUME x.committedVertex + 1 \notin t.gaps
       PROVE  View(t) = Enter(conn, Executed(z), v[1] - 1, {v[2]}) /\ Attached(conn, D, t)
  BY <1>2, <1>4, <1>9, <1>12, executeBackEnters
<1>13. v[1] - 1 \in 0..MaxRound /\ {v[2]} \in SUBSET Node /\ conn \in Graphs
       /\ D \in SUBSET DOMAIN conn
  BY <1>5, Positive DEF Round, CommitType, CommitTypeOK, TypeOK, Held
<1>14. Same(z, t)
  BY <1>2, <1>4, <1>9, <1>13, executeBackKeeps
<1> HIDE DEF t
<1>15. Grows(x, t) /\ t.committedVertex = x.committedVertex /\ t.executing
  <2>1. Noted(x, t)
    BY <1>9, <1>14 DEF Same, Noted
  <2> QED
    BY <1>8, <1>9, <1>14, <2>1 DEF Same, Grows
<1> QED
  BY <1>2, <1>3, <1>10, <1>12, <1>15 DEF Start, t, v

LEMMA FinishEnds ==
    ASSUME CommitType, NEW p \in Observers, Finish(p)
    PROVE  LET x == exec[p]
               t == exec'[p]
               v == Pending(exec[p])
           IN  /\ x.committedVertex + 1 \notin t.gaps =>
                     Executed(t) = Executed(x) \cup WeakParents(Executed(x), weak[v])
               /\ Grows(x, t) /\ t.committedVertex = x.committedVertex + 1
               /\ ~t.executing /\ x.executing /\ x.round = 0
<1> DEFINE x == exec[p]
           t == exec'[p]
           v == Pending(x)
           z == weakExc(x, node[p].DAG, v)
<1>1. /\ x \in ExecEntries /\ weak \in Weaks /\ x.executing /\ x.round = 0
      /\ x.committedVertex < MaxVertex
  BY DEF CommitType, CommitTypeOK, Progress, Finish
<1>2. v \in Vertex /\ x.committedVertex + 1 \in 0..MaxVertex
  BY <1>1, PendingIsVertex
<1>3. t = [z EXCEPT !.committedVertex = @ + 1, !.executing = FALSE]
  BY DEF Finish, CommitType, CommitTypeOK
<1>4. /\ \E W : Ran(x, z, W)
      /\ Grows(x, z)
      /\ x.committedVertex + 1 \notin z.gaps =>
            Executed(z) = Executed(x) \cup WeakParents(Executed(x), weak[v])
  BY <1>1, <1>2, weakExcFinds
<1> HIDE DEF z, v
<1>5. /\ t \in ExecEntries /\ ~t.executing /\ t.execState = z.execState
      /\ t.committedVertex = x.committedVertex + 1 /\ t.gaps = z.gaps
  <2>1. z \in ExecEntries /\ z.committedVertex = x.committedVertex
    BY <1>4 DEF Ran
  <2>2. FALSE \in BOOLEAN
    OBVIOUS
  <2> QED
    BY <1>2, <1>3, <2>1, <2>2 DEF ExecEntries
<1> HIDE DEF t
<1>6. Grows(x, t) /\ Executed(t) = Executed(z)
  BY <1>4, <1>5 DEF Grows, Noted, Executed
<1> QED
  BY <1>1, <1>4, <1>5, <1>6 DEF t, v

----------------------------------------------------------------------------
(***************************************************************************)
(* The log of a node: each commit that it is past was passed over or, if   *)
(* it is without gaps, is the execution of its vertex, from what had been  *)
(* executed by the commit before; and so far an execution under way is on  *)
(* its walk.                                                               *)
(***************************************************************************)
Entry(g, w, o, x, k) ==
    LET v == VertexAt(k)
        d == o.decideState2[v[1]][v[2]]
    IN  \/ d = 1 /\ Done(x, k) = Done(x, k - 1)
        \/ d = 2 /\ (k \notin x.gaps => Executes(g, w, Done(x, k - 1), v, Done(x, k)))

UnderWay(g, w, o, x) ==
    LET v == Pending(x)
    IN  /\ v \in o.DAG /\ o.decideState2[v[1]][v[2]] = 2
        /\ x.committedVertex + 1 \notin x.gaps =>
              /\ Reach(g, w, Start(g, Done(x, x.committedVertex), v), View(x))
              /\ Attached(g, o.DAG, x)

Log(g, w, o, x) ==
    /\ \A v \in Vertex : \/ x.execState[v] <= x.committedVertex
                         \/ x.executing /\ x.execState[v] = x.committedVertex + 1
    /\ \A k \in 1..x.committedVertex : Entry(g, w, o, x, k)
    /\ x.executing => UnderWay(g, w, o, x)

LogInv == \A p \in Observers : Log(conn, weak, node[p], exec[p])

LEMMA KeptDecision ==
    ASSUME NEW o, NEW n, Kept(o, n), NEW k \in 1..MaxVertex,
           o.decideState2[VertexAt(k)[1]][VertexAt(k)[2]] # 0
    PROVE  /\ n.decideState2[VertexAt(k)[1]][VertexAt(k)[2]] =
                  o.decideState2[VertexAt(k)[1]][VertexAt(k)[2]]
           /\ VertexAt(k) \in n.byPath <=> VertexAt(k) \in o.byPath
<1> DEFINE r == VertexAt(k)[1]
           i == VertexAt(k)[2]
<1>1. r \in Round /\ i \in Node
  BY PositionIsVertex DEF Vertex
<1>2. VertexAt(k) = <<r, i>>
  BY DEF VertexAt
<1> HIDE DEF r, i
<1>3. o.decideState2[r][i] # 0
  BY DEF r, i
<1>4. /\ n.decideState2[r][i] = o.decideState2[r][i]
      /\ <<r, i>> \in n.byPath <=> <<r, i>> \in o.byPath
  BY <1>1, <1>3 DEF Kept
<1> QED
  BY <1>2, <1>4 DEF r, i

\* The commits that a node is past stay what they were.
LEMMA DoneStays ==
    ASSUME NEW x \in ExecEntries, NEW t, Grows(x, t), NEW k \in 0..x.committedVertex
    PROVE  Done(t, k) = Done(x, k)
<1>1. \A v \in Vertex : x.execState[v] \in Int
  BY DEF ExecEntries
<1>2. x.committedVertex \in Nat /\ k \in Nat /\ k <= x.committedVertex
  BY DEF ExecEntries
<1> QED
  BY <1>1, <1>2 DEF Done, Grows

LEMMA EntryStays ==
    ASSUME NEW g, NEW w, NEW o, NEW x \in ExecEntries, NEW n, NEW t, Kept(o, n), Grows(x, t),
           NEW k \in 1..x.committedVertex, Entry(g, w, o, x, k)
    PROVE  Entry(g, w, n, t, k)
<1>1. k \in 0..x.committedVertex /\ k - 1 \in 0..x.committedVertex /\ k \in 1..MaxVertex
  BY Positive DEF ExecEntries
<1>2. Done(t, k) = Done(x, k) /\ Done(t, k - 1) = Done(x, k - 1)
  BY <1>1, DoneStays
<1> DEFINE v == VertexAt(k)
<1>4. o.decideState2[v[1]][v[2]] \in {1, 2}
  BY DEF Entry
<1>5. n.decideState2[v[1]][v[2]] = o.decideState2[v[1]][v[2]]
  BY <1>1, <1>4, KeptDecision
<1>6. k \in t.gaps <=> k \in x.gaps
  <2>1. k # x.committedVertex + 1
    BY DEF ExecEntries
  <2> QED
    BY <2>1 DEF Grows, Noted
<1> QED
  BY <1>2, <1>5, <1>6 DEF Entry

\* Between two commits, what has been executed is what the commits did.
LEMMA AllDone ==
    ASSUME NEW x \in ExecEntries, NEW k \in Nat, \A v \in Vertex : x.execState[v] <= k
    PROVE  Done(x, k) = Executed(x)
<1>1. \A v \in Vertex : x.execState[v] \in Nat
  BY Positive DEF ExecEntries
<1> QED
  BY <1>1 DEF Done, Executed

\* The node waits, its DAG and its decisions grow.
LEMMA LogWaits ==
    ASSUME NEW g, NEW w, NEW o, NEW x \in ExecEntries, Progress(x), Log(g, w, o, x), NEW n, NEW t,
           Kept(o, n), o.DAG \subseteq n.DAG, Waits(x, t)
    PROVE  Log(g, w, n, t)
<1>1. Grows(x, t) /\ t.committedVertex = x.committedVertex /\ t.executing = x.executing
  BY DEF Waits, Grows, Noted
<1>2. \A v \in Vertex : \/ t.execState[v] <= t.committedVertex
                        \/ t.executing /\ t.execState[v] = t.committedVertex + 1
  BY DEF Waits, Log
<1>3. \A k \in 1..t.committedVertex : Entry(g, w, n, t, k)
  BY <1>1, EntryStays DEF Log
<1>4. ASSUME t.executing PROVE UnderWay(g, w, n, t)
  <2> DEFINE v == Pending(x)
  <2>1. UnderWay(g, w, o, x) /\ x.committedVertex < MaxVertex
    BY <1>1, <1>4 DEF Log, Progress
  <2>2. v = Pending(t) /\ v[1] \in Round /\ v[2] \in Node
    BY <1>1, <2>1, PendingIsVertex DEF Pending
  <2>3. n.decideState2[v[1]][v[2]] = 2
    <3>1. o.decideState2[v[1]][v[2]] = 2
      BY <2>1 DEF UnderWay
    <3>2. x.committedVertex + 1 \in 1..MaxVertex
      BY <2>1, Positive DEF ExecEntries
    <3> QED
      BY <3>1, <3>2, KeptDecision DEF Pending
  <2>4. View(t) = View(x)
    BY DEF Waits, View, Executed
  <2>5. x.committedVertex \in 0..x.committedVertex
    BY Positive DEF ExecEntries
  <2>6. Done(t, t.committedVertex) = Done(x, x.committedVertex)
    BY <1>1, <2>5, DoneStays
  <2>7. t.gaps = x.gaps
    BY DEF Waits
  <2>8. Attached(g, o.DAG, x) => Attached(g, n.DAG, t)
    BY DEF Attached, Waits
  <2>9. v \in n.DAG
    BY <2>1 DEF UnderWay
  <2> HIDE DEF v
  <2> QED
    BY <1>1, <2>1, <2>2, <2>3, <2>4, <2>6, <2>7, <2>8, <2>9 DEF UnderWay, v
<1> QED
  BY <1>2, <1>3, <1>4 DEF Log

LEMMA LogSkips ==
    ASSUME CommitType, NEW p \in Observers, Skip(p), Log(conn, weak, node[p], exec[p])
    PROVE  Log(conn, weak, node[p], exec'[p])
<1> DEFINE x == exec[p]
           t == exec'[p]
           o == node[p]
           v == Pending(x)
<1>1. x \in ExecEntries /\ x.committedVertex \in Nat
  BY DEF CommitType, CommitTypeOK, ExecEntries
<1>2. ~x.executing /\ x.committedVertex < MaxVertex /\ o.decideState2[v[1]][v[2]] = 1
  BY <1>1, Positive DEF Skip, InLoop, Decision, ExecEntries
<1>3. t = [x EXCEPT !.committedVertex = @ + 1]
  BY DEF Skip, CommitType, CommitTypeOK
<1>4. x.committedVertex + 1 \in 0..MaxVertex
  BY <1>1, <1>2, Positive
<1>5. /\ t \in ExecEntries /\ t.execState = x.execState /\ ~t.executing
      /\ t.committedVertex = x.committedVertex + 1 /\ t.gaps = x.gaps
  BY <1>1, <1>2, <1>3, <1>4 DEF ExecEntries
<1> HIDE DEF t
<1>6. Grows(x, t)
  BY <1>5 DEF Grows, Noted
<1>7. \A u \in Vertex : x.execState[u] <= x.committedVertex /\ x.execState[u] \in Nat
  BY <1>1, <1>2, Positive DEF Log, ExecEntries
<1>8. \A u \in Vertex : t.execState[u] <= t.committedVertex
  BY <1>1, <1>5, <1>7
<1>9. \A k \in 1..x.committedVertex : Entry(conn, weak, o, t, k)
  BY <1>1, <1>6, EntryStays, KeptSelf DEF Log
<1>10. Entry(conn, weak, o, t, t.committedVertex)
  <2>1. Done(t, t.committedVertex) = Executed(t)
    BY <1>1, <1>5, <1>8, AllDone
  <2>2. Done(t, t.committedVertex - 1) = Executed(t)
    BY <1>1, <1>5, <1>7, AllDone
  <2>3. VertexAt(t.committedVertex) = v
    BY <1>5 DEF Pending
  <2> QED
    BY <1>2, <2>1, <2>2, <2>3 DEF Entry
<1>11. \A k \in 1..t.committedVertex : Entry(conn, weak, o, t, k)
  <2> SUFFICES ASSUME NEW k \in 1..t.committedVertex PROVE Entry(conn, weak, o, t, k)
    OBVIOUS
  <2>1. k \in 1..x.committedVertex \/ k = t.committedVertex
    BY <1>1, <1>5
  <2> QED
    BY <1>9, <1>10, <2>1
<1> QED
  BY <1>5, <1>8, <1>11 DEF Log, t

LEMMA LogStarts ==
    ASSUME CommitType, OrderInv, NEW p \in Observers, CommitVertex(p),
           Log(conn, weak, node[p], exec[p])
    PROVE  Log(conn, weak, node[p], exec'[p])
<1> DEFINE x == exec[p]
           t == exec'[p]
           o == node[p]
           v == Pending(x)
<1>1. x \in ExecEntries /\ x.committedVertex \in Nat
  BY DEF CommitType, CommitTypeOK, ExecEntries
<1>2. /\ x.committedVertex + 1 \notin t.gaps =>
            View(t) = Start(conn, Executed(x), v) /\ Attached(conn, o.DAG, t)
      /\ Grows(x, t) /\ t.committedVertex = x.committedVertex /\ t.executing
      /\ v \in o.DAG /\ o.decideState2[v[1]][v[2]] = 2 /\ ~x.executing
  BY CommitVertexEnters
<1> HIDE DEF t
<1>3. Pending(t) = v
  BY <1>2 DEF Pending
<1>4. \A u \in Vertex : x.execState[u] <= x.committedVertex
  BY <1>2 DEF Log
<1>5. \A u \in Vertex : \/ t.execState[u] <= t.committedVertex
                        \/ t.executing /\ t.execState[u] = t.committedVertex + 1
  BY <1>2, <1>4 DEF Grows
<1>6. \A k \in 1..t.committedVertex : Entry(conn, weak, o, t, k)
  BY <1>1, <1>2, EntryStays, KeptSelf DEF Log
<1>7. Done(t, t.committedVertex) = Executed(x)
  <2>1. Done(x, x.committedVertex) = Executed(x)
    BY <1>1, <1>4, AllDone
  <2>2. x.committedVertex \in 0..x.committedVertex
    BY <1>1
  <2> QED
    BY <1>1, <1>2, <2>1, <2>2, DoneStays
<1>8. UnderWay(conn, weak, o, t)
  <2> HIDE DEF v
  <2> QED
    BY <1>2, <1>3, <1>7, ReachSelf DEF UnderWay
<1> QED
  BY <1>5, <1>6, <1>8 DEF Log, t

\* A step inside an execution.
LEMMA LogWalks ==
    ASSUME NEW g, NEW w, NEW o, NEW x \in ExecEntries, x.executing, Log(g, w, o, x),
           NEW t \in ExecEntries, Progress(t), Grows(x, t), StillIn(x, t),
           /\ Attached(g, o.DAG, x)
           /\ x.committedVertex + 1 \notin t.gaps
           => Walks(g, w, View(x), View(t)) /\ Attached(g, o.DAG, t)
    PROVE  Log(g, w, o, t)
<1>1. t.committedVertex = x.committedVertex /\ t.executing /\ x.committedVertex \in Nat
  BY DEF StillIn, ExecEntries
<1>2. \A u \in Vertex : \/ t.execState[u] <= t.committedVertex
                        \/ t.executing /\ t.execState[u] = t.committedVertex + 1
  BY <1>1 DEF Log, Grows
<1>3. \A k \in 1..t.committedVertex : Entry(g, w, o, t, k)
  BY <1>1, EntryStays, KeptSelf DEF Log
<1>4. Pending(t) = Pending(x) /\ UnderWay(g, w, o, x)
  BY <1>1 DEF Pending, Log
<1>5. Done(t, t.committedVertex) = Done(x, x.committedVertex)
  <2>1. x.committedVertex \in 0..x.committedVertex
    BY <1>1
  <2> QED
    BY <1>1, <2>1, DoneStays
<1>6. View(t) \in Views
  BY ViewIsView
<1>7. ASSUME x.committedVertex + 1 \notin t.gaps
      PROVE  /\ Reach(g, w, Start(g, Done(x, x.committedVertex), Pending(x)), View(t))
             /\ Attached(g, o.DAG, t)
  <2>1. x.committedVertex + 1 \notin x.gaps
    BY <1>7 DEF Grows, Noted
  <2>2. /\ Reach(g, w, Start(g, Done(x, x.committedVertex), Pending(x)), View(x))
        /\ Attached(g, o.DAG, x)
    BY <1>4, <2>1 DEF UnderWay
  <2> QED
    BY <1>6, <1>7, <2>2, ReachStep
<1>8. UnderWay(g, w, o, t)
  BY <1>1, <1>4, <1>5, <1>7 DEF UnderWay
<1> QED
  BY <1>2, <1>3, <1>8 DEF Log

LEMMA LogEnds ==
    ASSUME CommitType, NEW p \in Observers, Finish(p), Log(conn, weak, node[p], exec[p])
    PROVE  Log(conn, weak, node[p], exec'[p])
<1> DEFINE x == exec[p]
           t == exec'[p]
           o == node[p]
           v == Pending(x)
<1>1. /\ x \in ExecEntries /\ x.committedVertex \in Nat /\ Progress(x)
      /\ conn \in Graphs /\ o.DAG \subseteq DOMAIN conn
  BY DEF CommitType, CommitTypeOK, TypeOK, Held, ExecEntries
<1>2. UnderWay(conn, weak, o, x)
  BY DEF Log, Finish
<1>3. v \in o.DAG /\ o.decideState2[v[1]][v[2]] = 2
  BY <1>2 DEF UnderWay
<1>4. /\ x.committedVertex + 1 \notin t.gaps =>
            Executed(t) = Executed(x) \cup WeakParents(Executed(x), weak[v])
      /\ Grows(x, t) /\ t.committedVertex = x.committedVertex + 1
      /\ ~t.executing /\ x.executing /\ x.round = 0
  BY FinishEnds
<1> HIDE DEF t
<1>5. \A u \in Vertex : t.execState[u] <= t.committedVertex /\ t.execState[u] \in Nat
  <2>1. \A u \in Vertex : x.execState[u] <= x.committedVertex + 1
    BY <1>1 DEF Log, ExecEntries
  <2>2. t \in ExecEntries
    BY <1>4 DEF Grows
  <2> QED
    BY <1>1, <1>4, <2>1, <2>2, Positive DEF Grows, ExecEntries
<1>6. \A k \in 1..x.committedVertex : Entry(conn, weak, o, t, k)
  BY <1>1, <1>4, EntryStays, KeptSelf DEF Log
<1>7. Entry(conn, weak, o, t, t.committedVertex)
  <2>1. t \in ExecEntries /\ t.committedVertex \in Nat
    BY <1>1, <1>4 DEF Grows
  <2>2. Done(t, t.committedVertex) = Executed(t)
    BY <1>5, <2>1, AllDone
  <2>3. Done(t, t.committedVertex - 1) = Done(x, x.committedVertex)
    <3>1. x.committedVertex \in 0..x.committedVertex /\ t.committedVertex - 1 = x.committedVertex
      BY <1>1, <1>4
    <3> QED
      BY <1>1, <1>4, <3>1, DoneStays
  <2>4. VertexAt(t.committedVertex) = v
    BY <1>4 DEF Pending
  <2>5. View(x) \in Views /\ View(x).round = 0 /\ View(x).E = Executed(x)
    BY <1>1, <1>4, ViewIsView, ViewFields
  <2> HIDE DEF v
  <2>6. ASSUME t.committedVertex \notin t.gaps
        PROVE  Executes(conn, weak, Done(x, x.committedVertex), v, Executed(t))
    <3>1. x.committedVertex + 1 \notin t.gaps /\ x.committedVertex + 1 \notin x.gaps
      BY <1>4, <2>6 DEF Grows, Noted
    <3>2. Reach(conn, weak, Start(conn, Done(x, x.committedVertex), v), View(x))
      BY <1>2, <3>1 DEF UnderWay, v
    <3> QED
      BY <1>1, <1>3, <1>4, <2>5, <3>1, <3>2 DEF Executes
  <2> QED
    BY <1>3, <2>2, <2>3, <2>4, <2>6 DEF Entry
<1>8. \A k \in 1..t.committedVertex : Entry(conn, weak, o, t, k)
  <2> SUFFICES ASSUME NEW k \in 1..t.committedVertex PROVE Entry(conn, weak, o, t, k)
    OBVIOUS
  <2>1. k \in 1..x.committedVertex \/ k = t.committedVertex
    BY <1>1, <1>4
  <2> QED
    BY <1>6, <1>7, <2>1
<1> QED
  BY <1>4, <1>5, <1>8 DEF Log, t

\* A node forgets no vertex and no decision.
LEMMA NodesKeep ==
    ASSUME TypeOK, [Next]_vars, NEW q \in Observers
    PROVE  Kept(node[q], node'[q]) /\ node[q].DAG \subseteq node'[q].DAG
<1>1. Kept(node[q], node'[q])
  <2>1. CASE UNCHANGED vars
    BY <2>1 DEF vars, Kept
  <2>2. CASE Next
    <3>1. PICK p \in Observers, t \in NodeState :
             node' = [node EXCEPT ![p] = t] /\ Kept(node[p], t)
      BY <2>2, NextKeeps
    <3> QED
      BY <3>1, KeptSelf DEF TypeOK
  <2> QED
    BY <2>1, <2>2
<1>2. node[q].DAG \subseteq node'[q].DAG
  <2>1. CASE UNCHANGED vars
    BY <2>1 DEF vars
  <2>2. ASSUME NEW p \in Observers, NEW v \in DOMAIN conn, AddVertex(p, v)
        PROVE  node[q].DAG \subseteq node'[q].DAG
    <3>1. v \in Vertex
      BY DecideAssumption DEF ValidGraph, TypeOK
    <3>2. tryAddDAG(node[p], v).DAG = node[p].DAG \cup {v}
      BY <3>1, tryAddDAGType DEF TypeOK
    <3>3. node'[q] = node[q] \/ (q = p /\ node'[q] = tryAddDAG(node[p], v))
      BY <2>2 DEF AddVertex, TypeOK
    <3> QED
      BY <3>2, <3>3
  <2>3. ASSUME NEW p \in Observers, NEW r \in Round, ReceiveCoin(p, r)
        PROVE  node[q].DAG \subseteq node'[q].DAG
    <3>1. node' = [node EXCEPT ![p] = [node[p] EXCEPT !.coinsBuffer = @ \cup {r}]]
      BY <2>3 DEF ReceiveCoin
    <3>2. [node[p] EXCEPT !.coinsBuffer = @ \cup {r}].DAG = node[p].DAG
      BY DEF TypeOK, NodeState
    <3> QED
      BY <3>1, <3>2 DEF TypeOK
  <2>4. ASSUME NEW p \in Observers, TakeCoin(p) PROVE node[q].DAG \subseteq node'[q].DAG
    <3> DEFINE r == node[p].coinRound + 1
               o == [node[p] EXCEPT !.coinRound = r]
    <3>1. o \in NodeState /\ o.DAG = node[p].DAG /\ r \in Int /\ r >= 3
      BY <2>4, TakenLemma DEF TakenType, TakeCoin
    <3>2. node' = [node EXCEPT ![p] = Trigger(o, r)]
      BY <2>4 DEF TakeCoin
    <3> HIDE DEF o, r
    <3>3. Trigger(o, r).DAG = node[p].DAG
      BY <3>1, TriggerType DEF Step
    <3> QED
      BY <3>2, <3>3 DEF TypeOK
  <2> QED
    BY <2>1, <2>2, <2>3, <2>4 DEF Next
<1> QED
  BY <1>1, <1>2

LEMMA LogInit == CommitInit => LogInv
<1> SUFFICES ASSUME CommitInit, NEW p \in Observers PROVE Log(conn, weak, node[p], exec[p])
  BY DEF LogInv
<1>1. exec[p] = NoCommit(p)
  BY DEF CommitInit
<1> QED
  BY <1>1 DEF NoCommit, Log

LEMMA LogNext ==
    ASSUME CommitType, OrderInv, LogInv, [CommitNext]_commitVars
    PROVE  LogInv'
<1>1. conn' = conn /\ weak' = weak
  BY DEF CommitNext, DeliverVertex, ReceiveVal, ReceivePayload, CoinShare, ReleaseCoin,
         tryCommit, AddVertex, ReceiveCoin, TakeCoin, commitVars
<1>2. ASSUME NEW q \in Observers PROVE Log(conn, weak, node'[q], exec'[q])
  <2> DEFINE x == exec[q]
             t == exec'[q]
             o == node[q]
  <2>1. x \in ExecEntries /\ Progress(x) /\ Log(conn, weak, o, x)
    BY DEF CommitType, CommitTypeOK, LogInv
  <2>2. t \in ExecEntries /\ Progress(t)
    BY <2>1, OthersWait, tryCommitMoves, ProgressStep
  <2>3. CASE Waits(x, t)
    BY <2>1, <2>3, StepsDecide, NodesKeep, LogWaits DEF CommitType, CommitTypeOK
  <2>4. CASE tryCommit(q)
    <3>1. node'[q] = o
      BY <2>4 DEF tryCommit
    <3>2. CASE Skip(q)
      BY <2>1, <3>1, <3>2, LogSkips
    <3>3. CASE CommitVertex(q)
      BY <2>1, <3>1, <3>3, LogStarts
    <3>4. CASE Return(q)
      <4>1. t = [x EXCEPT !.committing = FALSE]
        BY <3>4 DEF Return, CommitType, CommitTypeOK
      <4>2. /\ t.execState = x.execState /\ t.committedVertex = x.committedVertex
            /\ t.executing = x.executing /\ t.round = x.round
            /\ t.fathers = x.fathers /\ t.mp = x.mp /\ t.flag = x.flag
            /\ t.payloads = x.payloads \cup {} /\ t.arrived = x.arrived \cup {}
            /\ t.gaps = x.gaps
        BY <2>1, <4>1 DEF ExecEntries
      <4> HIDE DEF t
      <4>3. Waits(x, t)
        BY <2>2, <4>2 DEF Waits
      <4> QED
        BY <2>1, <3>1, <4>3, KeptSelf, LogWaits DEF t
    <3>5. CASE \E i \in Node : Visit(q, i)
      <4>1. PICK i \in Node : Visit(q, i)
        BY <3>5
      <4>2. x.executing
        BY <2>1, <4>1 DEF Visit, Progress
      <4> QED
        BY <2>1, <2>2, <3>1, <4>1, <4>2, VisitWalks, LogWalks
    <3>6. CASE NextRound(q)
      <4>1. x.executing
        BY <2>1, <3>6 DEF NextRound, Progress
      <4> QED
        BY <2>1, <2>2, <3>1, <3>6, <4>1, NextRoundWalks, LogWalks
    <3>7. CASE Finish(q)
      BY <2>1, <3>1, <3>7, LogEnds
    <3> QED
      BY <2>4, <3>2, <3>3, <3>4, <3>5, <3>6, <3>7 DEF tryCommit
  <2> QED
    BY <2>3, <2>4, OthersWait
<1>3. \A q \in Observers : Log(conn', weak', node'[q], exec'[q])
  BY <1>1, <1>2
<1> QED
  BY <1>3 DEF LogInv

----------------------------------------------------------------------------
(***************************************************************************)
(* The logs of two nodes agree as far as both go and are clear.            *)
(***************************************************************************)
\* Clear, of a node o and its entries x.
Clean(o, x, k) ==
    /\ \A j \in x.gaps : k < j
    /\ \A v \in o.byPath : \A j \in 1..k : VertexAt(j) # v

LEMMA CleanBefore ==
    ASSUME NEW o, NEW x \in ExecEntries, NEW k \in Nat, Clean(o, x, k), NEW j \in Nat, j <= k
    PROVE  Clean(o, x, j)
<1>1. x.gaps \subseteq Nat
  BY Positive DEF ExecEntries
<1>2. 1..j \subseteq 1..k
  OBVIOUS
<1> QED
  BY <1>1, <1>2 DEF Clean

LEMMA DoneAgrees ==
    ASSUME conn \in Graphs, NEW o, NEW x \in ExecEntries, Log(conn, weak, o, x),
           NEW n, NEW y \in ExecEntries, Log(conn, weak, n, y),
           \A k \in 1..MaxVertex :
               LET v == VertexAt(k)
                   a == o.decideState2[v[1]][v[2]]
                   b == n.decideState2[v[1]][v[2]]
               IN  a # 0 /\ b # 0 /\ v \notin o.byPath /\ v \notin n.byPath => a = b
    PROVE  \A k \in Nat :
              /\ k <= x.committedVertex /\ Clean(o, x, k)
              /\ k <= y.committedVertex /\ Clean(n, y, k)
              => Done(x, k) = Done(y, k)
<1> DEFINE Apart == {k \in Nat : /\ k <= x.committedVertex /\ Clean(o, x, k)
                             /\ k <= y.committedVertex /\ Clean(n, y, k)
                             /\ Done(x, k) # Done(y, k)}
<1>1. Apart \in SUBSET Nat
  OBVIOUS
<1>2. x.committedVertex \in Nat /\ x.committedVertex <= MaxVertex /\ y.committedVertex \in Nat
  BY Positive DEF ExecEntries
<1>3. ASSUME NEW k \in Apart, \A j \in Apart : k <= j PROVE FALSE
  <2>1. /\ k \in Nat /\ k <= x.committedVertex /\ k <= y.committedVertex
        /\ Clean(o, x, k) /\ Clean(n, y, k)
    OBVIOUS
  <2>2. k # 0
    <3>1. 1..0 = {}
      OBVIOUS
    <3>2. Done(x, 0) = {} /\ Done(y, 0) = {}
      BY <3>1 DEF Done
    <3> QED
      BY <3>2
  <2>3. k - 1 \in Nat /\ k - 1 \notin Apart
    BY <1>3, <2>1, <2>2
  <2>4. Done(x, k - 1) = Done(y, k - 1)
    <3>1. Clean(o, x, k - 1) /\ Clean(n, y, k - 1)
      BY <2>1, <2>3, CleanBefore
    <3> QED
      BY <1>2, <2>1, <2>3, <3>1
  <2>5. k \in 1..x.committedVertex /\ k \in 1..y.committedVertex /\ k \in 1..MaxVertex /\ k \in 1..k
    BY <1>2, <2>1, <2>2, Positive
  <2>6. Entry(conn, weak, o, x, k) /\ Entry(conn, weak, n, y, k)
    BY <2>5 DEF Log
  <2> DEFINE v == VertexAt(k)
             a == o.decideState2[v[1]][v[2]]
             b == n.decideState2[v[1]][v[2]]
  <2>7. a \in {1, 2} /\ b \in {1, 2}
    BY <2>6 DEF Entry
  <2>8. a = b
    <3>1. v \notin o.byPath /\ v \notin n.byPath
      BY <2>1, <2>5 DEF Clean
    <3> QED
      BY <2>5, <2>7, <3>1
  <2>9. Done(x, k - 1) \in SUBSET Vertex
    BY DEF Done
  <2>10. CASE a = 1
    BY <2>4, <2>6, <2>8, <2>10 DEF Entry
  <2>11. CASE a = 2
    <3>0. k \notin x.gaps /\ k \notin y.gaps
      BY <2>1 DEF Clean
    <3>1. /\ Executes(conn, weak, Done(x, k - 1), v, Done(x, k))
          /\ Executes(conn, weak, Done(x, k - 1), v, Done(y, k))
      BY <2>4, <2>6, <2>8, <2>11, <3>0 DEF Entry
    <3> HIDE DEF v
    <3>2. Done(x, k) = Done(y, k)
      BY <2>9, <3>1, ExecutesOneWay
    <3> QED
      BY <3>2
  <2> QED
    BY <2>7, <2>10, <2>11
<1> HIDE DEF Apart
<1>4. Apart = {}
  BY <1>1, <1>3, LeastNat
<1> QED
  BY <1>4 DEF Apart

LEMMA LogsAgree ==
    ASSUME CommitType, LogInv, NearDecisionsAgree
    PROVE  ClearCommitsAgree
<1> SUFFICES ASSUME NEW p \in Observers, NEW q \in Observers, NEW v \in Vertex,
                    exec[p].execState[v] # 0,
                    exec[p].execState[v] <= exec[q].committedVertex,
                    Clear(p, exec[p].execState[v]), Clear(q, exec[p].execState[v])
             PROVE  exec[q].execState[v] = exec[p].execState[v]
  BY DEF ClearCommitsAgree
<1> DEFINE x == exec[p]
           y == exec[q]
           k == x.execState[v]
           u == VertexAt(k)
<1>1. /\ x \in ExecEntries /\ y \in ExecEntries /\ conn \in Graphs
      /\ Log(conn, weak, node[p], x) /\ Log(conn, weak, node[q], y)
      /\ Progress(x)
  BY DEF CommitType, CommitTypeOK, TypeOK, LogInv
<1>2. \A j \in 1..MaxVertex :
         LET w == VertexAt(j)
             a == node[p].decideState2[w[1]][w[2]]
             b == node[q].decideState2[w[1]][w[2]]
         IN  a # 0 /\ b # 0 /\ w \notin node[p].byPath /\ w \notin node[q].byPath => a = b
  <2> SUFFICES ASSUME NEW j \in 1..MaxVertex
               PROVE  LET w == VertexAt(j)
                          a == node[p].decideState2[w[1]][w[2]]
                          b == node[q].decideState2[w[1]][w[2]]
                      IN  a # 0 /\ b # 0 /\ w \notin node[p].byPath /\ w \notin node[q].byPath
                          => a = b
    OBVIOUS
  <2> DEFINE r == VertexAt(j)[1]
             i == VertexAt(j)[2]
  <2>1. r \in Round /\ i \in Node /\ VertexAt(j) = <<r, i>>
    BY PositionIsVertex DEF Vertex, VertexAt
  <2> HIDE DEF r, i
  <2>2. Near(p, r, i) # 0 /\ Near(q, r, i) # 0 => Near(p, r, i) = Near(q, r, i)
    BY <2>1 DEF NearDecisionsAgree
  <2>3. /\ node[p].decideState2[r][i] # 0 /\ node[q].decideState2[r][i] # 0
        /\ <<r, i>> \notin node[p].byPath /\ <<r, i>> \notin node[q].byPath
        => node[p].decideState2[r][i] = node[q].decideState2[r][i]
    BY <2>2 DEF Near
  <2> QED
    BY <2>1, <2>3 DEF r, i
<1>0. Clean(node[p], x, k) /\ Clean(node[q], y, k)
  BY DEF Clear, Clean
<1> HIDE DEF x, y
<1>3. \A j \in Nat :
         /\ j <= x.committedVertex /\ Clean(node[p], x, j)
         /\ j <= y.committedVertex /\ Clean(node[q], y, j)
         => Done(x, j) = Done(y, j)
  BY <1>1, <1>2, DoneAgrees DEF x, y
<1>4. /\ k \in Nat /\ k # 0 /\ k <= y.committedVertex /\ k <= MaxVertex
      /\ y.committedVertex <= MaxVertex
      /\ x.committedVertex \in Nat /\ y.committedVertex \in Nat /\ y.execState[v] \in Nat
  BY <1>1, Positive DEF ExecEntries, x, y
<1>5. k <= x.committedVertex \/ (x.executing /\ k = x.committedVertex + 1)
  BY <1>1 DEF Log
<1>6. /\ k - 1 \in Nat /\ k - 1 <= x.committedVertex /\ k - 1 <= y.committedVertex
      /\ k - 1 <= k
  BY <1>4, <1>5
<1>7. v \notin Done(x, k - 1) /\ Done(x, k - 1) = Done(y, k - 1)
  <2>1. v \notin Done(x, k - 1)
    BY <1>4 DEF Done
  <2>2. Clean(node[p], x, k - 1) /\ Clean(node[q], y, k - 1)
    BY <1>0, <1>1, <1>4, <1>6, CleanBefore
  <2> QED
    BY <1>3, <1>6, <2>1, <2>2
<1>8. v \in Done(y, k)
  <2>1. CASE k <= x.committedVertex
    <3>1. v \in Done(x, k)
      BY <1>4 DEF Done
    <3>2. Done(x, k) = Done(y, k)
      BY <1>0, <1>3, <1>4, <2>1
    <3> QED
      BY <3>1, <3>2
  <2>2. CASE x.executing /\ k = x.committedVertex + 1
    <3>1. UnderWay(conn, weak, node[p], x)
      BY <1>1, <2>2 DEF Log
    <3>2. u = Pending(x) /\ x.committedVertex = k - 1
      BY <1>4, <2>2 DEF Pending
    <3>0. k \notin x.gaps /\ k \notin y.gaps
      BY <1>0, <1>4 DEF Clean
    <3>3. /\ node[p].decideState2[u[1]][u[2]] = 2
          /\ Reach(conn, weak, Start(conn, Done(x, k - 1), u), View(x))
      BY <2>2, <3>0, <3>1, <3>2 DEF UnderWay
    <3>4. k \in 1..MaxVertex /\ k \in 1..y.committedVertex /\ k \in 1..k
      BY <1>4
    <3>5. Entry(conn, weak, node[q], y, k)
      BY <1>1, <3>4 DEF Log
    <3>6. node[q].decideState2[u[1]][u[2]] \in {1, 2}
      BY <3>5 DEF Entry
    <3>7. node[q].decideState2[u[1]][u[2]] = 2
      <4>1. u \notin node[p].byPath /\ u \notin node[q].byPath
        BY <1>0, <3>4 DEF Clean
      <4> QED
        BY <1>2, <3>3, <3>4, <3>6, <4>1
    <3>8. Executes(conn, weak, Done(y, k - 1), u, Done(y, k))
      BY <3>0, <3>5, <3>7 DEF Entry
    <3>9. Done(y, k - 1) \in SUBSET Vertex
      BY DEF Done
    <3> HIDE DEF k, u
    <3>10. View(x).E \subseteq Done(y, k)
      BY <1>1, <1>7, <3>3, <3>8, <3>9, ExecutesMore
    <3>11. v \in Executed(x)
      BY <1>4 DEF Executed, k
    <3> QED
      BY <3>10, <3>11, ViewFields
  <2> QED
    BY <1>5, <2>1, <2>2
<1>9. y.execState[v] = k
  <2>1. y.execState[v] \in 1..k /\ ~(y.execState[v] \in 1..(k - 1))
    BY <1>7, <1>8 DEF Done
  <2> HIDE DEF k
  <2> QED
    BY <1>4, <2>1
<1> QED
  BY <1>9 DEF x, y

(***************************************************************************)
(* State machine replication, for every number of rounds and every order   *)
(* of arrival: tryCommit, executeBack and weakExc execute at all nodes the *)
(* same vertices by the same commit, in the middle of an execution too, as *)
(* long as neither node has asked for the edges of a vertex it does not    *)
(* have or come to a decision through the leader of a later round.         *)
(***************************************************************************)
THEOREM ReplicasAgree ==
    ASSUME WeaksPointDown
    PROVE  CommitSpec => []ClearCommitsAgree
<1>1. WeaksPointDown
  OBVIOUS
<1>2. CommitSpec => [](CommitType /\ OrderInv)
  BY <1>1, Ordered
<1>3. CommitType /\ OrderInv /\ LogInv /\ [CommitNext]_commitVars => LogInv'
  BY LogNext
<1>4. CommitType /\ LogInv /\ NearDecisionsAgree => ClearCommitsAgree
  BY LogsAgree
<1>5. CommitSpec => []NearDecisionsAgree
  BY ImplementsDecide, DecisionsAgree, PTL
<1> QED
  BY <1>2, <1>3, <1>4, <1>5, LogInit, PTL DEF CommitSpec

----------------------------------------------------------------------------
(***************************************************************************)
(* Commit implements TotalOrder.  The entry of the log is what any node    *)
(* that is past the commit, and was clear then, has executed by it.        *)
(***************************************************************************)
\* The definitions of Commit for the nodes n and their entries e.
PastIn(n, e, k) == {q \in Observers : k <= e[q].committedVertex /\ Clean(n[q], e[q], k)}
LogIn(n, e) ==
    [k \in {j \in 1..MaxVertex : PastIn(n, e, j) # {}} |->
        UNION {BatchOf(e[q], k) : q \in PastIn(n, e, k)}]
StrayIn(n, e) == {q \in Observers : ~Clean(n[q], e[q], Current(e[q]))}

SameIn(n, e) ==
    \A p, q \in Observers : \A v \in Vertex :
        LET k == e[p].execState[v]
        IN  /\ k # 0 /\ k <= e[q].committedVertex
            /\ Clean(n[p], e[p], k) /\ Clean(n[q], e[q], k)
            => e[q].execState[v] = k

LEMMA InTermsOfEntries ==
    /\ CommonLog = LogIn(node, exec) /\ CommonLog' = LogIn(node', exec')
    /\ Strayed = StrayIn(node, exec) /\ Strayed' = StrayIn(node', exec')
    /\ ClearCommitsAgree => SameIn(node, exec)
    /\ ClearCommitsAgree' => SameIn(node', exec')
<1>1. CommonLog = LogIn(node, exec)
  BY DEF CommonLog, PastCommit, Clear, LogIn, PastIn, Clean
<1>2. CommonLog' = LogIn(node', exec')
  BY DEF CommonLog, PastCommit, Clear, LogIn, PastIn, Clean
<1>3. Strayed = StrayIn(node, exec)
  BY DEF Strayed, Clear, StrayIn, Clean
<1>4. Strayed' = StrayIn(node', exec')
  BY DEF Strayed, Clear, StrayIn, Clean
<1>5. ClearCommitsAgree => SameIn(node, exec)
  BY DEF ClearCommitsAgree, Clear, SameIn, Clean
<1>6. ClearCommitsAgree' => SameIn(node', exec')
  BY DEF ClearCommitsAgree, Clear, SameIn, Clean
<1> QED
  BY <1>1, <1>2, <1>3, <1>4, <1>5, <1>6

LEMMA LogIsBatch ==
    ASSUME NEW n, NEW e, \A q \in Observers : e[q] \in ExecEntries, SameIn(n, e),
           NEW p \in Observers, NEW k \in 1..e[p].committedVertex, Clean(n[p], e[p], k)
    PROVE  k \in DOMAIN LogIn(n, e) /\ LogIn(n, e)[k] = BatchOf(e[p], k)
<1>1. k \in Nat /\ k # 0 /\ k <= e[p].committedVertex /\ k \in 1..MaxVertex
  BY Positive DEF ExecEntries
<1>2. p \in PastIn(n, e, k)
  BY <1>1 DEF PastIn
<1>3. k \in DOMAIN LogIn(n, e) /\ LogIn(n, e)[k] = UNION {BatchOf(e[q], k) : q \in PastIn(n, e, k)}
  BY <1>1, <1>2 DEF LogIn
<1>4. ASSUME NEW q \in PastIn(n, e, k), NEW v \in BatchOf(e[q], k)
      PROVE  v \in BatchOf(e[p], k)
  BY <1>1, <1>4 DEF BatchOf, SameIn, PastIn
<1> QED
  BY <1>2, <1>3, <1>4

\* Nobody has executed anything but in the commits up to its own.
Ahead(x) ==
    /\ \A v \in Vertex : \/ x.execState[v] <= x.committedVertex
                         \/ x.executing /\ x.execState[v] = x.committedVertex + 1
    /\ x.executing => x.execState[Pending(x)] = x.committedVertex + 1

LEMMA AheadStep ==
    ASSUME NEW x \in ExecEntries, Progress(x), Ahead(x), NEW t,
           Passes(x, t) \/ Starts(x, t) \/ Runs(x, t) \/ Waits(x, t)
    PROVE  Ahead(t)
<1>1. x.committedVertex \in Nat /\ \A v \in Vertex : x.execState[v] \in Nat
  BY Positive DEF ExecEntries
<1>2. CASE Passes(x, t)
  BY <1>1, <1>2 DEF Passes, Ahead
<1>3. CASE Waits(x, t)
  BY <1>3 DEF Waits, Ahead, Pending
<1>4. CASE Starts(x, t)
  <2>1. Pending(t) = Pending(x) /\ Pending(x) \in Vertex
    BY <1>4, PendingIsVertex DEF Starts, Pending
  <2> QED
    BY <1>1, <1>4, <2>1 DEF Starts, Ahead
<1>5. CASE Runs(x, t)
  <2>1. x.executing /\ x.committedVertex < MaxVertex /\ Pending(x) \in Vertex
    BY <1>5, PendingIsVertex DEF Runs, Progress
  <2>2. PICK W : /\ W \cap Executed(x) = {}
                 /\ \A v \in Vertex : t.execState[v] =
                       IF v \in W THEN x.committedVertex + 1 ELSE x.execState[v]
    BY <1>5 DEF Runs
  <2>3. \A v \in Vertex : t.execState[v] <= x.committedVertex \/ t.execState[v] = x.committedVertex + 1
    BY <1>1, <2>2 DEF Ahead
  <2>4. t.execState[Pending(x)] = x.committedVertex + 1
    BY <1>1, <2>1, <2>2 DEF Ahead, Executed
  <2>5. CASE t.executing /\ t.committedVertex = x.committedVertex
    BY <2>3, <2>4, <2>5 DEF Ahead, Pending
  <2>6. CASE ~t.executing /\ t.committedVertex = x.committedVertex + 1
    <3>1. \A v \in Vertex : t.execState[v] \in Nat
      BY <1>5, Positive DEF Runs, ExecEntries
    <3> QED
      BY <1>1, <2>3, <2>6, <3>1 DEF Ahead
  <2> QED
    BY <1>5, <2>5, <2>6 DEF Runs, Goes
<1> QED
  BY <1>2, <1>3, <1>4, <1>5

AheadInv == \A p \in Observers : Ahead(exec[p])

LEMMA AheadInit == CommitInit => AheadInv
BY Positive DEF CommitInit, AheadInv, Ahead, NoCommit

LEMMA AheadNext == CommitType /\ AheadInv /\ [CommitNext]_commitVars => AheadInv'
<1> SUFFICES ASSUME CommitType, AheadInv, [CommitNext]_commitVars, NEW p \in Observers
             PROVE  Ahead(exec'[p])
  BY DEF AheadInv
<1> QED
  BY OthersWait, tryCommitMoves, AheadStep DEF CommitType, CommitTypeOK, AheadInv

\* A step executes new vertices in the commit of its node, or nothing.
LEMMA MovesGrow ==
    ASSUME NEW x \in ExecEntries, OnlyPast(x), NEW t,
           Passes(x, t) \/ Starts(x, t) \/ Runs(x, t)
    PROVE  /\ Grows(x, t) /\ Current(x) <= Current(t)
           /\ \/ t.committedVertex = x.committedVertex
              \/ /\ t.committedVertex = x.committedVertex + 1 /\ ~t.executing
                 /\ x.executing \/ t.execState = x.execState
<1>1. x.committedVertex \in Nat
  BY Positive DEF ExecEntries
<1>2. CASE Passes(x, t)
  BY <1>1, <1>2 DEF Passes, Grows, Noted, Current
<1>4. CASE Starts(x, t)
  <2>1. x.execState[Pending(x)] = 0
    BY <1>4, PendingIsNew DEF Starts
  <2> QED
    BY <1>1, <1>4, <2>1 DEF Starts, Grows, Current
<1>5. CASE Runs(x, t)
  <2>1. PICK W : /\ W \cap Executed(x) = {}
                 /\ \A v \in Vertex : t.execState[v] =
                       IF v \in W THEN x.committedVertex + 1 ELSE x.execState[v]
    BY <1>5 DEF Runs
  <2>2. \A v \in Vertex : v \in W => x.execState[v] = 0
    BY <2>1 DEF Executed
  <2>3. t \in ExecEntries /\ x.executing /\ Goes(x, t) /\ Noted(x, t)
    BY <1>5 DEF Runs
  <2>4. Current(x) <= Current(t)
    BY <1>1, <2>3 DEF Goes, Current
  <2> QED
    BY <2>1, <2>2, <2>3, <2>4 DEF Grows, Goes
<1> QED
  BY <1>2, <1>4, <1>5

\* From the entries e to f, where only p moves.
MovesOn(n, e, f, p) ==
    LET c == e[p].committedVertex
    IN  /\ \A q \in Observers : e[q] \in ExecEntries /\ f[q] \in ExecEntries
        /\ \A q \in Observers \ {p} : f[q] = e[q]
        /\ SameIn(n, e) /\ SameIn(n, f) /\ Ahead(e[p]) /\ Ahead(f[p])
        /\ Grows(e[p], f[p]) /\ Current(e[p]) <= Current(f[p])
        /\ \/ f[p].committedVertex = c
           \/ /\ f[p].committedVertex = c + 1 /\ ~f[p].executing
              /\ e[p].executing \/ f[p].execState = e[p].execState

LEMMA BatchesStay ==
    ASSUME NEW n, NEW e, NEW f, NEW p \in Observers, MovesOn(n, e, f, p),
           NEW q \in Observers, NEW k \in 1..e[q].committedVertex
    PROVE  /\ BatchOf(f[q], k) = BatchOf(e[q], k) /\ k \in 1..f[q].committedVertex
           /\ Clean(n[q], f[q], k) <=> Clean(n[q], e[q], k)
<1>1. CASE q # p
  BY <1>1 DEF MovesOn
<1>2. CASE q = p
  <2> DEFINE x == e[p]
             t == f[p]
  <2>1. /\ x \in ExecEntries /\ t \in ExecEntries /\ Grows(x, t)
        /\ t.committedVertex \in {x.committedVertex, x.committedVertex + 1}
    BY DEF MovesOn
  <2>2. x.committedVertex \in Nat /\ k \in Nat /\ k # 0 /\ k <= x.committedVertex
    BY <1>2, <2>1, Positive DEF ExecEntries
  <2>3. k \in 1..t.committedVertex
    BY <2>1, <2>2
  <2>4. \A v \in Vertex : t.execState[v] = k <=> x.execState[v] = k
    BY <2>1, <2>2 DEF Grows
  <2>5. Clean(n[p], t, k) <=> Clean(n[p], x, k)
    <3>1. t.gaps \in {x.gaps, x.gaps \cup {x.committedVertex + 1}} /\ k < x.committedVertex + 1
      BY <2>1, <2>2 DEF Grows, Noted
    <3> HIDE DEF x, t
    <3> QED
      BY <3>1 DEF Clean
  <2> QED
    BY <1>2, <2>3, <2>4, <2>5 DEF BatchOf
<1> QED
  BY <1>1, <1>2

\* Who is clear after the step was so before.
LEMMA CleanWas ==
    ASSUME NEW n, NEW e, NEW f, NEW p \in Observers, MovesOn(n, e, f, p),
           Clean(n[p], f[p], Current(f[p]))
    PROVE  /\ Clean(n[p], e[p], Current(e[p]))
           /\ Clean(n[p], e[p], e[p].committedVertex)
<1>1. /\ e[p] \in ExecEntries /\ f[p] \in ExecEntries
      /\ Current(e[p]) <= Current(f[p]) /\ e[p].gaps \subseteq f[p].gaps
  BY DEF MovesOn, Grows, Noted
<1>2. /\ Current(e[p]) \in Nat /\ Current(f[p]) \in Nat
      /\ e[p].committedVertex \in Nat /\ e[p].committedVertex <= Current(e[p])
  BY <1>1, Positive DEF Current, ExecEntries
<1>3. Clean(n[p], f[p], Current(e[p]))
  BY <1>1, <1>2, CleanBefore
<1>4. Clean(n[p], e[p], Current(e[p]))
  BY <1>1, <1>3 DEF Clean
<1> QED
  BY <1>1, <1>2, <1>4, CleanBefore

\* The commit that p ends in the step, if it is clear.
NewEntry(n, e, f, p) ==
    {k \in {e[p].committedVertex + 1} :
        k = f[p].committedVertex /\ Clean(n[p], f[p], k)}

LEMMA LogGrows ==
    ASSUME NEW n, NEW e, NEW f, NEW p \in Observers, MovesOn(n, e, f, p)
    PROVE  /\ DOMAIN LogIn(n, f) = DOMAIN LogIn(n, e) \cup NewEntry(n, e, f, p)
           /\ \A k \in DOMAIN LogIn(n, e) : LogIn(n, f)[k] = LogIn(n, e)[k]
<1> DEFINE c == e[p].committedVertex
<1>1. /\ c \in Nat /\ f[p].committedVertex \in 0..MaxVertex
      /\ f[p].committedVertex \in {c, c + 1}
      /\ \A q \in Observers \ {p} : f[q] = e[q]
      /\ \A q \in Observers : e[q].committedVertex \in Nat
  BY Positive DEF MovesOn, ExecEntries
<1>2. /\ DOMAIN LogIn(n, e) = {k \in 1..MaxVertex : PastIn(n, e, k) # {}}
      /\ DOMAIN LogIn(n, f) = {k \in 1..MaxVertex : PastIn(n, f, k) # {}}
  BY DEF LogIn
<1>3. ASSUME NEW k \in DOMAIN LogIn(n, e)
      PROVE  k \in DOMAIN LogIn(n, f) /\ LogIn(n, f)[k] = LogIn(n, e)[k]
  <2>1. PICK q \in Observers : k \in 1..e[q].committedVertex /\ Clean(n[q], e[q], k)
    <3>1. k \in 1..MaxVertex /\ \E q \in Observers : k <= e[q].committedVertex /\ Clean(n[q], e[q], k)
      BY <1>2, <1>3 DEF PastIn
    <3> QED
      BY <1>1, <3>1, Positive
  <2>2. /\ BatchOf(f[q], k) = BatchOf(e[q], k) /\ k \in 1..f[q].committedVertex
        /\ Clean(n[q], f[q], k)
    BY <2>1, BatchesStay
  <2>3. LogIn(n, e)[k] = BatchOf(e[q], k)
    BY <2>1, LogIsBatch DEF MovesOn
  <2>4. k \in DOMAIN LogIn(n, f) /\ LogIn(n, f)[k] = BatchOf(f[q], k)
    BY <2>1, <2>2, LogIsBatch DEF MovesOn
  <2> QED
    BY <2>2, <2>3, <2>4
<1>4. ASSUME NEW k \in DOMAIN LogIn(n, f), k \notin DOMAIN LogIn(n, e)
      PROVE  k = c + 1 /\ k = f[p].committedVertex /\ Clean(n[p], f[p], k)
  <2>1. PICK q \in Observers : /\ k \in 1..MaxVertex /\ k <= f[q].committedVertex
                               /\ Clean(n[q], f[q], k)
    BY <1>2 DEF PastIn
  <2>2. ~(k <= e[q].committedVertex /\ Clean(n[q], e[q], k))
    BY <1>2, <1>4, <2>1 DEF PastIn
  <2>3. q = p
    BY <1>1, <2>1, <2>2
  <2>4. ~(k <= c)
    <3>1. ASSUME k <= c PROVE k \in 1..e[p].committedVertex
      BY <1>1, <2>1, <3>1, Positive
    <3> QED
      BY <2>1, <2>2, <2>3, <3>1, BatchesStay
  <2>5. k \in Nat
    BY <2>1, Positive
  <2> HIDE DEF c
  <2> QED
    BY <1>1, <2>1, <2>3, <2>4, <2>5
<1>5. ASSUME c + 1 = f[p].committedVertex, Clean(n[p], f[p], c + 1)
      PROVE  c + 1 \in DOMAIN LogIn(n, f)
  <2> DEFINE k == c + 1
  <2>1. k \in 1..MaxVertex /\ k <= f[p].committedVertex /\ Clean(n[p], f[p], k)
    BY <1>1, <1>5, Positive
  <2> HIDE DEF k
  <2>2. k \in DOMAIN LogIn(n, f)
    BY <1>2, <2>1 DEF PastIn
  <2> QED
    BY <2>2 DEF k
<1> HIDE DEF c
<1> QED
  BY <1>3, <1>4, <1>5 DEF c, NewEntry

LEMMA LogGrowsHere ==
    ASSUME NEW p \in Observers, MovesOn(node, exec, exec', p)
    PROVE  /\ DOMAIN LogIn(node, exec') = DOMAIN LogIn(node, exec) \cup NewEntry(node, exec, exec', p)
           /\ \A j \in DOMAIN LogIn(node, exec) : LogIn(node, exec')[j] = LogIn(node, exec)[j]
BY LogGrows

\* What p has executed after the step in its commit k may be there.
Fits(n, e, p, S) ==
    LET k == e[p].committedVertex + 1
    IN  /\ k \in 1..MaxVertex /\ VertexAt(k) \in S
        /\ BatchOf(e[p], k) \subseteq S /\ S \subseteq Vertex
        /\ \A j \in 1..e[p].committedVertex : S \cap LogIn(n, e)[j] = {}
        /\ k \in DOMAIN LogIn(n, e) => S \subseteq LogIn(n, e)[k]

LEMMA NewFits ==
    ASSUME NEW n, NEW e, NEW f, NEW p \in Observers, MovesOn(n, e, f, p),
           Clean(n[p], f[p], Current(f[p])),
           NEW k, k = e[p].committedVertex + 1, NEW S, S = BatchOf(f[p], k)
    PROVE  BatchOf(e[p], k) \subseteq S /\ (S # {} => Fits(n, e, p, S))
<1> DEFINE x == e[p]
           t == f[p]
           c == x.committedVertex
<1>1. /\ x \in ExecEntries /\ t \in ExecEntries /\ Grows(x, t) /\ Ahead(x) /\ Ahead(t)
      /\ c \in Nat /\ k \in Nat /\ k # 0 /\ ~(k <= c)
      /\ Clean(n[p], x, c)
  BY CleanWas, Positive DEF MovesOn, ExecEntries
<1>2. BatchOf(x, k) \subseteq S
  BY <1>1 DEF BatchOf, Grows
<1>3. ASSUME S # {} PROVE Fits(n, e, p, S)
  <2>1. PICK v \in Vertex : t.execState[v] = k
    BY <1>3 DEF BatchOf
  <2>2. k \in 1..MaxVertex
    <3>1. t.execState[v] \in 0..MaxVertex
      BY <1>1 DEF ExecEntries
    <3> QED
      BY <1>1, <2>1, <3>1, Positive
  <2>3. VertexAt(k) \in S
    <3>0. VertexAt(k) \in Vertex
      BY <2>2, PositionIsVertex
    <3>1. CASE t.committedVertex = c
      <4>1. t.executing
        BY <1>1, <2>1, <3>1 DEF Ahead
      <4>2. Pending(t) = VertexAt(k)
        BY <3>1 DEF Pending
      <4> QED
        BY <1>1, <3>0, <3>1, <4>1, <4>2 DEF Ahead, BatchOf
    <3>2. CASE x.executing
      <4>1. Pending(x) = VertexAt(k) /\ x.execState[Pending(x)] = k
        BY <1>1, <3>2 DEF Ahead, Pending
      <4>2. VertexAt(k) \in BatchOf(x, k)
        BY <3>0, <4>1 DEF BatchOf
      <4> QED
        BY <1>2, <4>2
    <3>3. CASE ~x.executing /\ t.execState = x.execState
      BY <1>1, <2>1, <3>3 DEF Ahead
    <3> QED
      BY <3>1, <3>2, <3>3 DEF MovesOn
  <2>4. ASSUME NEW j \in 1..c PROVE S \cap LogIn(n, e)[j] = {}
    <3>0. Clean(n[p], x, j)
      BY <1>1, CleanBefore
    <3>1. LogIn(n, e)[j] = BatchOf(x, j)
      BY <3>0, LogIsBatch DEF MovesOn
    <3>2. BatchOf(t, j) = BatchOf(x, j)
      BY BatchesStay
    <3>3. j # k
      BY <1>1
    <3> HIDE DEF t, x, c
    <3>4. S = BatchOf(t, k)
      BY DEF t
    <3> QED
      BY <3>1, <3>2, <3>3, <3>4 DEF BatchOf
  <2>5. ASSUME k \in DOMAIN LogIn(n, e) PROVE S \subseteq LogIn(n, e)[k]
    <3>0. Clean(n[p], t, k)
      <4>1. k <= Current(t) /\ Current(t) \in Nat
        BY <1>1, <2>1, Positive DEF Ahead, Current, ExecEntries
      <4> QED
        BY <1>1, <4>1, CleanBefore
    <3>1. PICK q \in Observers : k <= e[q].committedVertex /\ Clean(n[q], e[q], k)
      BY <2>5 DEF LogIn, PastIn
    <3>2. q # p
      BY <1>1, <3>1
    <3>3. f[q] = e[q] /\ SameIn(n, f) /\ e[q].committedVertex \in Nat
      BY <3>2, Positive DEF MovesOn, ExecEntries
    <3>4. k \in 1..e[q].committedVertex
      BY <1>1, <3>1, <3>3
    <3>5. LogIn(n, e)[k] = BatchOf(e[q], k)
      BY <3>1, <3>4, LogIsBatch DEF MovesOn
    <3>6. \A u \in Vertex : t.execState[u] = k => e[q].execState[u] = k
      BY <1>1, <3>0, <3>1, <3>3 DEF SameIn
    <3> QED
      BY <3>5, <3>6 DEF BatchOf
  <2>6. S \subseteq Vertex
    BY DEF BatchOf
  <2> QED
    BY <1>2, <2>2, <2>3, <2>4, <2>5, <2>6 DEF Fits
<1> QED
  BY <1>2, <1>3

LEMMA FitsIsMay ==
    ASSUME NEW p \in Observers, NEW S, Fits(node, exec, p, S)
    PROVE  T!May(p, S)
<1> DEFINE k == exec[p].committedVertex + 1
<1>1. /\ k \in 1..MaxVertex /\ VertexAt(k) \in S
      /\ BatchOf(exec[p], k) \subseteq S /\ S \subseteq Vertex
      /\ \A j \in 1..exec[p].committedVertex : S \cap CommonLog[j] = {}
      /\ k \in DOMAIN CommonLog => S \subseteq CommonLog[k]
  BY InTermsOfEntries DEF Fits
<1>2. S \cap T!Past(p) = {}
  BY <1>1 DEF T!Past
<1> QED
  BY <1>1, <1>2 DEF T!May

\* The node p stays clear: it is so before and after, and the others do not move.
LEMMA StraysStay ==
    ASSUME NEW p \in Observers, MovesOn(node, exec, exec', p), node' = node,
           Clean(node[p], exec'[p], Current(exec'[p]))
    PROVE  p \notin Strayed /\ Strayed' = Strayed
<1>1. Clean(node[p], exec[p], Current(exec[p]))
  BY CleanWas
<1>2. \A q \in Observers \ {p} : exec'[q] = exec[q]
  BY DEF MovesOn
<1>3. p \notin StrayIn(node, exec) /\ StrayIn(node', exec') = StrayIn(node, exec)
  BY <1>1, <1>2 DEF StrayIn
<1> QED
  BY <1>3, InTermsOfEntries

\* The node p goes on in its commit.
LEMMA StepExecutes ==
    ASSUME NEW p \in Observers, MovesOn(node, exec, exec', p), node' = node,
           Clean(node[p], exec'[p], Current(exec'[p])),
           exec'[p].committedVertex = exec[p].committedVertex
    PROVE  [T!Next]_(T!vars)
<1> DEFINE k == exec[p].committedVertex + 1
           S == BatchOf(exec'[p], k)
<1>1. \A q \in Observers : exec'[q].committedVertex = exec[q].committedVertex
  BY DEF MovesOn
<1>2. CommonLog' = CommonLog
  <2>1. exec[p].committedVertex + 1 # exec[p].committedVertex
    BY Positive DEF MovesOn, ExecEntries
  <2>2. /\ DOMAIN LogIn(node, exec') = DOMAIN LogIn(node, exec)
        /\ \A j \in DOMAIN LogIn(node, exec) : LogIn(node, exec')[j] = LogIn(node, exec)[j]
    <3>1. NewEntry(node, exec, exec', p) = {}
      BY <2>1 DEF NewEntry
    <3>2. /\ DOMAIN LogIn(node, exec') = DOMAIN LogIn(node, exec) \cup NewEntry(node, exec, exec', p)
          /\ \A j \in DOMAIN LogIn(node, exec) : LogIn(node, exec')[j] = LogIn(node, exec)[j]
      BY LogGrowsHere
    <3> QED
      BY <3>1, <3>2
  <2>3. \A e : LogIn(node, e) = [j \in DOMAIN LogIn(node, e) |-> LogIn(node, e)[j]]
    BY DEF LogIn
  <2>4. LogIn(node, exec') = LogIn(node, exec)
    BY <2>2, <2>3
  <2> QED
    BY <2>4, InTermsOfEntries
<1>3. \A q \in Observers \ {p} :
         BatchOf(exec'[q], exec'[q].committedVertex + 1) = BatchOf(exec[q], exec[q].committedVertex + 1)
  BY DEF MovesOn
<1>4. S = BatchOf(exec'[p], exec'[p].committedVertex + 1)
  OBVIOUS
<1>5. BatchOf(exec[p], k) \subseteq S /\ (S # {} => Fits(node, exec, p, S))
  BY NewFits
<1> HIDE DEF S
<1>6. UNCHANGED <<CommonLog, Strayed, [q \in Observers |-> exec[q].committedVertex]>>
  BY <1>1, <1>2, StraysStay
<1>7. CASE S = BatchOf(exec[p], k)
  <2>1. UNCHANGED [q \in Observers |-> BatchOf(exec[q], exec[q].committedVertex + 1)]
    BY <1>3, <1>4, <1>7
  <2> QED
    BY <1>6, <2>1 DEF T!vars
<1>8. CASE S # BatchOf(exec[p], k)
  <2>1. T!May(p, S) /\ p \notin Strayed
    BY <1>5, <1>8, FitsIsMay, StraysStay
  <2>2. [q \in Observers |-> BatchOf(exec[q], exec[q].committedVertex + 1)]' =
           [[q \in Observers |-> BatchOf(exec[q], exec[q].committedVertex + 1)] EXCEPT ![p] = S]
    BY <1>3, <1>4
  <2>3. T!Execute(p)
    BY <1>4, <1>6, <1>8, <2>1, <2>2 DEF T!Execute
  <2> QED
    BY <2>3 DEF T!Next
<1> QED
  BY <1>7, <1>8

\* The node p comes to the end of its commit.
LEMMA StepCommits ==
    ASSUME NEW p \in Observers, MovesOn(node, exec, exec', p), node' = node,
           Clean(node[p], exec'[p], Current(exec'[p])),
           exec'[p].committedVertex = exec[p].committedVertex + 1
    PROVE  T!Next
<1> DEFINE k == exec[p].committedVertex + 1
           S == BatchOf(exec'[p], k)
<1>0. /\ k \in 1..exec'[p].committedVertex /\ k \in Nat
      /\ exec'[p].committedVertex \in Nat /\ ~exec'[p].executing /\ Ahead(exec'[p])
      /\ exec'[p] \in ExecEntries
  <2>1. exec[p].committedVertex \in Nat /\ exec'[p].committedVertex \in Nat
    BY Positive DEF MovesOn, ExecEntries
  <2>2. exec'[p].committedVertex # exec[p].committedVertex
    BY <2>1
  <2> QED
    BY <2>1, <2>2 DEF MovesOn
<1>10. Clean(node[p], exec'[p], k)
  BY <1>0 DEF Current
<1>1. /\ DOMAIN CommonLog' = DOMAIN CommonLog \cup {k}
      /\ \A j \in DOMAIN CommonLog : CommonLog'[j] = CommonLog[j]
  <2>1. NewEntry(node, exec, exec', p) = {k}
    BY <1>10 DEF NewEntry
  <2>2. /\ DOMAIN LogIn(node, exec') = DOMAIN LogIn(node, exec) \cup NewEntry(node, exec, exec', p)
        /\ \A j \in DOMAIN LogIn(node, exec) : LogIn(node, exec')[j] = LogIn(node, exec)[j]
    BY LogGrowsHere
  <2> QED
    BY <2>1, <2>2, InTermsOfEntries
<1>2. CommonLog'[k] = S
  <2>1. LogIn(node, exec')[k] = S
    BY <1>0, <1>10, LogIsBatch DEF MovesOn
  <2> QED
    BY <2>1, InTermsOfEntries
<1>3. BatchOf(exec[p], k) \subseteq S /\ (S # {} => Fits(node, exec, p, S))
  BY NewFits
<1>4. BatchOf(exec'[p], exec'[p].committedVertex + 1) = {}
  BY <1>0 DEF BatchOf, Ahead, ExecEntries
<1>5. \A q \in Observers \ {p} : exec'[q] = exec[q]
  BY DEF MovesOn
<1> HIDE DEF S
<1>6. T!May(p, S) \/ (S = {} /\ BatchOf(exec[p], k) = {})
  BY <1>3, FitsIsMay
<1>7. [q \in Observers |-> exec[q].committedVertex]' =
         [[q \in Observers |-> exec[q].committedVertex] EXCEPT ![p] = k]
  BY <1>5
<1>8. [q \in Observers |-> BatchOf(exec[q], exec[q].committedVertex + 1)]' =
         [[q \in Observers |-> BatchOf(exec[q], exec[q].committedVertex + 1)] EXCEPT ![p] = {}]
  BY <1>4, <1>5
<1>9. p \notin Strayed /\ Strayed' = Strayed
  BY StraysStay
<1>11. T!Commit(p)
  BY <1>1, <1>2, <1>6, <1>7, <1>8, <1>9 DEF T!Commit
<1> QED
  BY <1>11 DEF T!Next

\* The node p strays, or has strayed before.
LEMMA StepStrays ==
    ASSUME NEW p \in Observers, MovesOn(node, exec, exec', p), node' = node,
           ~Clean(node[p], exec'[p], Current(exec'[p]))
    PROVE  T!Next
<1>1. \A q \in Observers \ {p} : exec'[q] = exec[q]
  BY DEF MovesOn
<1>2. Strayed' = Strayed \cup {p}
  <2>1. StrayIn(node', exec') = StrayIn(node, exec) \cup {p}
    BY <1>1 DEF StrayIn
  <2> QED
    BY <2>1, InTermsOfEntries
<1>3. CommonLog' = CommonLog
  <2>1. NewEntry(node, exec, exec', p) = {}
    <3>1. ASSUME exec'[p].committedVertex = exec[p].committedVertex + 1
          PROVE  Current(exec'[p]) = exec[p].committedVertex + 1
      <4>1. exec[p].committedVertex \in Nat
        BY Positive DEF MovesOn, ExecEntries
      <4>2. ~exec'[p].executing
        BY <3>1, <4>1 DEF MovesOn
      <4> QED
        BY <3>1, <4>1, <4>2 DEF Current
    <3> QED
      BY <3>1 DEF NewEntry
  <2>2. /\ DOMAIN LogIn(node, exec') = DOMAIN LogIn(node, exec) \cup NewEntry(node, exec, exec', p)
        /\ \A j \in DOMAIN LogIn(node, exec) : LogIn(node, exec')[j] = LogIn(node, exec)[j]
    BY LogGrowsHere
  <2>3. \A e : LogIn(node, e) = [j \in DOMAIN LogIn(node, e) |-> LogIn(node, e)[j]]
    BY DEF LogIn
  <2>4. LogIn(node, exec') = LogIn(node, exec)
    BY <2>1, <2>2, <2>3
  <2> QED
    BY <2>4, InTermsOfEntries
<1>4. \A q \in Observers \ {p} :
         /\ [i \in Observers |-> exec[i].committedVertex]'[q] =
               [i \in Observers |-> exec[i].committedVertex][q]
         /\ [i \in Observers |-> BatchOf(exec[i], exec[i].committedVertex + 1)]'[q] =
               [i \in Observers |-> BatchOf(exec[i], exec[i].committedVertex + 1)][q]
  BY <1>1
<1>5. T!Stray(p)
  BY <1>2, <1>3, <1>4 DEF T!Stray
<1> QED
  BY <1>5 DEF T!Next

\* What a node that waits has committed stays clear: it was decided before.
LEMMA CleanWaits ==
    ASSUME NEW g, NEW w, NEW o, NEW x \in ExecEntries, Progress(x), Log(g, w, o, x),
           NEW n, NEW t, Kept(o, n), Waits(x, t), NEW k \in 0..Current(x)
    PROVE  Clean(n, t, k) <=> Clean(o, x, k)
<1>1. x.committedVertex \in Nat /\ x.committedVertex <= MaxVertex /\ Current(x) \in Nat
  BY Positive DEF ExecEntries, Current
<1>2. ASSUME NEW j \in 1..k
      PROVE  VertexAt(j) \in n.byPath <=> VertexAt(j) \in o.byPath
  <2> DEFINE d == o.decideState2[VertexAt(j)[1]][VertexAt(j)[2]]
  <2>1. j \in Nat /\ j # 0 /\ k \in Nat /\ j <= Current(x)
    BY <1>1
  <2>2. d # 0 /\ j <= MaxVertex
    <3>1. CASE j <= x.committedVertex
      <4>1. j \in 1..x.committedVertex
        BY <1>1, <2>1, <3>1
      <4>2. Entry(g, w, o, x, j)
        BY <4>1 DEF Log
      <4> QED
        BY <1>1, <2>1, <3>1, <4>2, Positive DEF Entry
    <3>2. CASE ~(j <= x.committedVertex)
      <4>1. x.executing /\ j = x.committedVertex + 1
        BY <1>1, <2>1, <3>2 DEF Current
      <4>2. UnderWay(g, w, o, x) /\ x.committedVertex < MaxVertex
        BY <4>1 DEF Log, Progress
      <4>3. Pending(x) = VertexAt(j)
        BY <4>1 DEF Pending
      <4>4. d = 2
        BY <4>2, <4>3 DEF UnderWay
      <4> QED
        BY <1>1, <4>1, <4>2, <4>4, Positive
    <3> QED
      BY <3>1, <3>2
  <2>3. j \in 1..MaxVertex
    BY <2>1, <2>2, Positive
  <2> QED
    BY <2>2, <2>3, KeptDecision
<1>3. t.gaps = x.gaps
  BY DEF Waits
<1> QED
  BY <1>2, <1>3 DEF Clean

LEMMA OthersStutter ==
    ASSUME CommitType, LogInv, [CommitNext]_commitVars,
           \A q \in Observers : Waits(exec[q], exec'[q])
    PROVE  UNCHANGED T!vars
<1>1. \A q \in Observers : /\ exec'[q].execState = exec[q].execState
                           /\ exec'[q].committedVertex = exec[q].committedVertex
                           /\ Current(exec'[q]) = Current(exec[q])
  BY DEF Waits, Current
<1>2. \A q \in Observers : \A k : BatchOf(exec'[q], k) = BatchOf(exec[q], k)
  BY <1>1 DEF BatchOf
<1>3. ASSUME NEW q \in Observers, NEW k \in 0..Current(exec[q])
      PROVE  Clean(node'[q], exec'[q], k) <=> Clean(node[q], exec[q], k)
  <2>1. exec[q] \in ExecEntries /\ Progress(exec[q]) /\ Log(conn, weak, node[q], exec[q])
    BY DEF CommitType, CommitTypeOK, LogInv
  <2>2. Kept(node[q], node'[q])
    BY StepsDecide, NodesKeep DEF CommitType, CommitTypeOK
  <2> QED
    BY <2>1, <2>2, CleanWaits
<1>4. ASSUME NEW q \in Observers
      PROVE  /\ Current(exec[q]) \in Nat /\ exec[q].committedVertex \in Nat
             /\ exec[q].committedVertex <= Current(exec[q])
  BY Positive DEF CommitType, CommitTypeOK, ExecEntries, Current
<1>5. CommonLog' = CommonLog
  <2>1. ASSUME NEW k \in 1..MaxVertex PROVE PastIn(node', exec', k) = PastIn(node, exec, k)
    <3>1. ASSUME NEW q \in Observers, k <= exec[q].committedVertex
          PROVE  Clean(node'[q], exec'[q], k) <=> Clean(node[q], exec[q], k)
      <4>1. k \in 0..Current(exec[q])
        BY <1>4, <3>1, Positive
      <4> QED
        BY <1>3, <4>1
    <3> QED
      BY <1>1, <3>1 DEF PastIn
  <2>2. {j \in 1..MaxVertex : PastIn(node', exec', j) # {}} =
           {j \in 1..MaxVertex : PastIn(node, exec, j) # {}}
    BY <2>1
  <2>3. ASSUME NEW k \in 1..MaxVertex
        PROVE  UNION {BatchOf(exec'[q], k) : q \in PastIn(node', exec', k)} =
               UNION {BatchOf(exec[q], k) : q \in PastIn(node, exec, k)}
    <3>1. PastIn(node, exec, k) \subseteq Observers
      BY DEF PastIn
    <3> QED
      BY <1>2, <2>1, <3>1
  <2>4. LogIn(node', exec') = LogIn(node, exec)
    BY <2>2, <2>3 DEF LogIn
  <2> QED
    BY <2>4, InTermsOfEntries
<1>6. Strayed' = Strayed
  <2>1. ASSUME NEW q \in Observers
        PROVE  Clean(node'[q], exec'[q], Current(exec'[q])) <=> Clean(node[q], exec[q], Current(exec[q]))
    <3>1. Current(exec[q]) \in 0..Current(exec[q])
      BY <1>4
    <3> QED
      BY <1>1, <1>3, <3>1
  <2>2. StrayIn(node', exec') = StrayIn(node, exec)
    BY <2>1 DEF StrayIn
  <2> QED
    BY <2>2, InTermsOfEntries
<1>7. UNCHANGED [q \in Observers |-> exec[q].committedVertex]
  BY <1>1
<1>8. UNCHANGED [q \in Observers |-> BatchOf(exec[q], exec[q].committedVertex + 1)]
  BY <1>1, <1>2
<1> QED
  BY <1>5, <1>6, <1>7, <1>8 DEF T!vars

LEMMA StepLogs ==
    /\ CommitType /\ OrderInv /\ LogInv /\ AheadInv /\ ClearCommitsAgree
    /\ CommitType' /\ AheadInv' /\ ClearCommitsAgree'
    /\ [CommitNext]_commitVars
    => [T!Next]_(T!vars)
<1> SUFFICES ASSUME CommitType, OrderInv, LogInv, AheadInv, ClearCommitsAgree,
                    CommitType', AheadInv', ClearCommitsAgree',
                    [CommitNext]_commitVars
             PROVE  [T!Next]_(T!vars)
  OBVIOUS
<1>1. CASE \A q \in Observers : Waits(exec[q], exec'[q])
  BY <1>1, OthersStutter
<1>2. ASSUME NEW p \in Observers, tryCommit(p) PROVE [T!Next]_(T!vars)
  <2> DEFINE x == exec[p]
             t == exec'[p]
  <2>1. x \in ExecEntries /\ OnlyPast(x)
    BY DEF CommitType, CommitTypeOK, OrderInv
  <2>2. /\ Passes(x, t) \/ Starts(x, t) \/ Runs(x, t)
        /\ exec' = [exec EXCEPT ![p] = t]
    BY <1>2, tryCommitMoves
  <2>3. /\ Grows(x, t) /\ Current(x) <= Current(t)
        /\ \/ t.committedVertex = x.committedVertex
           \/ /\ t.committedVertex = x.committedVertex + 1 /\ ~t.executing
              /\ x.executing \/ t.execState = x.execState
    BY <2>1, <2>2, MovesGrow
  <2>4. \A q \in Observers : exec[q] \in ExecEntries /\ exec'[q] \in ExecEntries
    BY DEF CommitType, CommitTypeOK
  <2>5. \A q \in Observers \ {p} : exec'[q] = exec[q]
    BY <2>2 DEF CommitType, CommitTypeOK
  <2>6. node' = node
    BY <1>2 DEF tryCommit
  <2>7. SameIn(node, exec) /\ SameIn(node, exec')
    BY <2>6, InTermsOfEntries
  <2>8. Ahead(x) /\ Ahead(t)
    BY DEF AheadInv
  <2>9. MovesOn(node, exec, exec', p)
    BY <2>3, <2>4, <2>5, <2>7, <2>8 DEF MovesOn
  <2>10. CASE Clean(node[p], t, Current(t))
    BY <2>3, <2>6, <2>9, <2>10, StepExecutes, StepCommits
  <2>11. CASE ~Clean(node[p], t, Current(t))
    BY <2>6, <2>9, <2>11, StepStrays
  <2> QED
    BY <2>10, <2>11
<1> QED
  BY <1>1, <1>2, OthersWait

LEMMA InitLogs == CommitInit => T!Init
<1> SUFFICES ASSUME CommitInit PROVE T!Init
  OBVIOUS
<1>1. \A p \in Observers : /\ exec[p].committedVertex = 0 /\ exec[p].execState = [v \in Vertex |-> 0]
                           /\ ~exec[p].executing /\ exec[p].gaps = {}
  BY DEF CommitInit, NoCommit
<1>2. \A p \in Observers : BatchOf(exec[p], 1) = {}
  BY <1>1 DEF BatchOf
<1>3. CommonLog = << >>
  <2>1. {j \in 1..MaxVertex : PastCommit(j) # {}} = {}
    BY <1>1, Positive DEF PastCommit
  <2>2. DOMAIN CommonLog = {}
    BY <2>1 DEF CommonLog
  <2> QED
    BY <2>2 DEF CommonLog
<1>4. \A p \in Observers : exec[p].committedVertex + 1 = 1
  BY <1>1
<1>5. Strayed = {}
  <2>1. 1..0 = {} /\ \A p \in Observers : Current(exec[p]) = 0
    BY <1>1 DEF Current
  <2> QED
    BY <1>1, <2>1 DEF Strayed, Clear
<1> QED
  BY <1>1, <1>2, <1>3, <1>4, <1>5 DEF T!Init

(***************************************************************************)
(* Commit implements TotalOrder, for every number of rounds: the steps of  *)
(* tryCommit, executeBack and weakExc at all nodes that have not strayed   *)
(* are the execution of one log, entry by entry.                           *)
(***************************************************************************)
THEOREM ImplementsTotalOrder ==
    ASSUME WeaksPointDown
    PROVE  CommitSpec => T!Init /\ OneLog
<1>1. WeaksPointDown
  OBVIOUS
<1>2. CommitSpec => [](CommitType /\ OrderInv)
  BY <1>1, Ordered
<1>3. CommitSpec => []ClearCommitsAgree
  BY <1>1, ReplicasAgree
<1>4. CommitType /\ OrderInv /\ LogInv /\ [CommitNext]_commitVars => LogInv'
  BY LogNext
<1> QED
  BY <1>2, <1>3, <1>4, LogInit, AheadInit, AheadNext, InitLogs, StepLogs, PTL DEF CommitSpec, OneLog
=============================================================================
