------------------------------- MODULE Commit -------------------------------
(***************************************************************************)
(* How a node executes what it has decided: tryCommit takes the vertices   *)
(* one by one, round after round, and executes each that is decided 1      *)
(* together with its history, along the edges (executeBack) and the weak   *)
(* edges (weakExc) of the node's own copy of the DAG.                      *)
(*                                                                         *)
(* The decisions are those of Decide: every step of this module that adds  *)
(* a vertex or takes a coin is a step of that one.  The handler that calls *)
(* tryCommit is split into the vertices it executes; nothing else happens  *)
(* at the node meanwhile, and since handlers of different nodes have no    *)
(* state in common, nothing else happens at the other nodes either.        *)
(***************************************************************************)
EXTENDS Decide, Sequences

CONSTANTS
    Weaks,      \* the weak edges to choose from: weak of each
    Place       \* Place[v][i]: where i stands in the Connections of the vertex v

MaxVertex == N * MaxRound

ASSUME CommitAssumption ==
    /\ Node = 1..N
    /\ Weaks \subseteq [Vertex -> Seq(Vertex)]
    /\ Place \in [Vertex -> [Node -> Nat]]
    /\ \A v \in Vertex : \A i, j \in Node : Place[v][i] = Place[v][j] => i = j

VARIABLES
    weak,       \* weak[v]: the WeakConnect of the vertex v
    exec        \* exec[p]: the entries of observer p that tryCommit works on

commitVars == <<conn, leader, node, weak, exec>>

ExecEntries ==
    [payloads: SUBSET Vertex,
     arrived: SUBSET Vertex,             \* the payloads the network has brought
     execState: [Vertex -> 0..MaxVertex],\* 0: none; else the commit it was executed by
     committedVertex: 0..MaxVertex,
     committing: BOOLEAN,                \* inside tryCommit
     executing: BOOLEAN,                 \* ... between its lines 1887 and 1901
     round: 0..MaxRound,                 \* inside executeBack of this round, 0: of none
     fathers: SUBSET Node,               \* fatherNodes, vertices of the round after
     mp: SUBSET Node,                    \* the vertices of that round they connect to
     flag: BOOLEAN,                      \* it has executed one of them
     gaps: SUBSET (1..MaxVertex)]        \* not in the code: the commits for which the
                                         \* edges of a vertex not in the DAG were asked

----------------------------------------------------------------------------
(***************************************************************************)
(* The order of the commits: round after round, and in each round from     *)
(* another node on.                                                        *)
(***************************************************************************)
getVertexRound(pos) == ((pos - 1) \div N) + 1
getRandomVertexId(pos) == ((pos + getVertexRound(pos) - 2) % N) + 1
VertexAt(pos) == <<getVertexRound(pos), getRandomVertexId(pos)>>

Pending(x) == VertexAt(x.committedVertex + 1)
Executed(x) == {v \in Vertex : x.execState[v] # 0}

\* len(execState[round]) == N: nothing is left to execute in the round.
Full(E, round) == \A i \in Node : <<round, i>> \in E

\* The vertices of W are executed and their payloads deleted.
execute(x, W) ==
    [x EXCEPT !.payloads = @ \ W,
              !.execState = [v \in Vertex |-> IF v \in W THEN x.committedVertex + 1 ELSE @[v]]]

\* Of the weak edges w of a vertex those before the first into a round that is
\* full by then.
WeakParents(E, w) ==
    {w[i] : i \in {k \in DOMAIN w : \A j \in 1..k :
        ~Full(E \cup {w[h] : h \in 1..(j - 1)}, w[j][1])}}

\* What the commit has left out for want of a vertex, if anything, is noted.
Note(x, missing) ==
    IF missing = {} THEN x ELSE [x EXCEPT !.gaps = @ \cup {x.committedVertex + 1}]

weakExc(x, D, v) ==
    IF v \notin D THEN Note(x, {w \in {v} : weak[w] # <<>>})
    ELSE execute(x, WeakParents(Executed(x), weak[v]) \ Executed(x))

\* The fathers are vertices of round+1.
FatherNodes(round, fathers) == {<<round + 1, i>> : i \in fathers}

\* The connections of those that are in the DAG.
Connected(D, round, fathers) == UNION {conn[v] : v \in FatherNodes(round, fathers) \cap D}

\* executeBack returns: its local variables are gone.
Leave(x) == [x EXCEPT !.round = 0, !.fathers = {}, !.mp = {}, !.flag = FALSE]

\* The unused entry 0 of toCheck is taken for a vertex.
executeBack_X(x, D, round, fathers) ==
    IF round = 0 \/ Full(Executed(x), round) THEN Leave(x)
    ELSE [Note(x, FatherNodes(round, fathers) \ D) EXCEPT
                   !.round = round, !.fathers = fathers,
                   !.mp = Connected(D, round, fathers) \cup {0}, !.flag = FALSE]

\* The call of executeBack, up to its loops.
executeBack(x, D, round, fathers) ==
    IF round = 0 \/ Full(Executed(x), round) THEN Leave(x)
    ELSE [Note(x, FatherNodes(round, fathers) \ D) EXCEPT
                   !.round = round, !.fathers = fathers,
                   !.mp = Connected(D, round, fathers), !.flag = FALSE]

----------------------------------------------------------------------------
(***************************************************************************)
(* Inside tryCommit.                                                       *)
(***************************************************************************)
Decision(p) ==
    IF exec[p].committedVertex = MaxVertex THEN 0
    ELSE LET v == Pending(exec[p]) IN node[p].decideState2[v[1]][v[2]]

Committable(p) ==
    Decision(p) = 2 /\ Pending(exec[p]) \in node[p].DAG \cap exec[p].payloads

InLoop(p) == exec[p].committing /\ ~exec[p].executing

\* An undecided vertex is skipped like one decided 0.
Skip_X(p) ==
    /\ InLoop(p) /\ exec[p].committedVertex < MaxVertex /\ Decision(p) # 2
    /\ exec' = [exec EXCEPT ![p].committedVertex = @ + 1]

\* Decided 0: the vertex is passed over.
Skip(p) ==
    /\ InLoop(p) /\ Decision(p) = 1
    /\ exec' = [exec EXCEPT ![p].committedVertex = @ + 1]

\* The history starts in the round of the vertex itself.
CommitVertex_X(p) ==
    LET x == exec[p]
        v == Pending(x)
    IN  /\ InLoop(p) /\ Committable(p)
        /\ exec' = [exec EXCEPT ![p] =
                      executeBack([execute(x, {v}) EXCEPT !.executing = TRUE],
                                  node[p].DAG, v[1], {v[2]})]

\* Decided 1: the vertex is executed, whatever execState says, then its history.
CommitVertex(p) ==
    LET x == exec[p]
        v == Pending(x)
    IN  /\ InLoop(p) /\ Committable(p)
        /\ exec' = [exec EXCEPT ![p] =
                      executeBack([execute(x, {v}) EXCEPT !.executing = TRUE],
                                  node[p].DAG, v[1] - 1, {v[2]})]

\* Not decided, or VAL or payload missing: tryCommit returns.
Return(p) ==
    /\ InLoop(p) /\ Decision(p) # 1 /\ ~Committable(p)
    /\ exec' = [exec EXCEPT ![p].committing = FALSE]

\* execState is not asked.
ToCheck_X(x) == x.mp

\* The vertices of mp that the loops of executeBack still have to execute.
ToCheck(x) == {i \in x.mp : x.execState[<<x.round, i>>] = 0}

(***************************************************************************)
(* The loops go through the fathers by their ids, and through the          *)
(* Connections of each in the order the proposer has put them in.  They    *)
(* come to i before they come to j.                                        *)
(***************************************************************************)
FathersOf(x, D, i) == {f \in x.fathers : <<x.round + 1, f>> \in D /\ i \in conn[<<x.round + 1, f>>]}

ComesFirst(x, D, i, j) ==
    \E f \in FathersOf(x, D, i) : \A g \in FathersOf(x, D, j) :
        f < g \/ (f = g /\ Place[<<x.round + 1, f>>][i] <= Place[<<x.round + 1, f>>][j])

Visit(p, i) ==
    LET x == exec[p]
        v == <<x.round, i>>
    IN  /\ x.round # 0 /\ i \in ToCheck(x)
        /\ \A j \in ToCheck(x) : ComesFirst(x, node[p].DAG, i, j)
        /\ exec' = [exec EXCEPT ![p] =
                      [weakExc(execute(x, {v}), node[p].DAG, v) EXCEPT !.flag = TRUE]]

\* The round is done; executeBack goes on with the round before if anything was new.
NextRound(p) ==
    LET x == exec[p]
    IN  /\ x.round # 0 /\ ToCheck(x) = {}
        /\ exec' = [exec EXCEPT ![p] =
                      IF x.flag THEN executeBack(x, node[p].DAG, x.round - 1, x.mp)
                      ELSE Leave(x)]

\* The weak edges come after the step to the next position.
Finish_X(p) ==
    LET x == exec[p]
    IN  /\ x.executing /\ x.round = 0
        /\ exec' = [exec EXCEPT ![p] =
                      weakExc([x EXCEPT !.committedVertex = @ + 1, !.executing = FALSE],
                              node[p].DAG, Pending(x))]

\* executeBack has returned: the weak edges of the committed vertex itself.
Finish(p) ==
    LET x == exec[p]
    IN  /\ x.executing /\ x.round = 0
        /\ exec' = [exec EXCEPT ![p] =
                      [weakExc(x, node[p].DAG, Pending(x)) EXCEPT
                         !.committedVertex = @ + 1, !.executing = FALSE]]

tryCommit(p) ==
    /\ \/ Skip(p) \/ CommitVertex(p) \/ Return(p)
       \/ \E i \in Node : Visit(p, i)
       \/ NextRound(p) \/ Finish(p)
    /\ UNCHANGED <<conn, leader, node, weak>>

----------------------------------------------------------------------------
\* A node has its own payloads when it proposes them.
OwnPayloads(p) == {v \in Vertex : v[2] = p}

NoCommit(p) ==
    [payloads |-> OwnPayloads(p), arrived |-> {},
     execState |-> [v \in Vertex |-> 0], committedVertex |-> 0,
     committing |-> FALSE, executing |-> FALSE,
     round |-> 0, fathers |-> {}, mp |-> {}, flag |-> FALSE, gaps |-> {}]

CommitInit ==
    /\ Init
    /\ weak \in Weaks
    /\ exec = [p \in Observers |-> NoCommit(p)]

Idle == \A p \in Observers : ~exec[p].committing

(***************************************************************************)
(* The certificate and the VAL of v are there; either may have come last.  *)
(* addDirectConn calls tryCommit, except for vertices of the first round,  *)
(* and onReceiveReady calls it after every VAL.  A round that the vertex   *)
(* closes is decided in the same handler.                                  *)
(***************************************************************************)
DeliverVertex(p, v) ==
    /\ Idle
    /\ AddVertex(p, v)
    /\ \E byVal \in BOOLEAN : exec' = [exec EXCEPT ![p].committing = byVal \/ v[1] > 1]
    /\ UNCHANGED weak

\* The VAL of a vertex whose certificate has not come.  Which VALs a node has
\* is not followed: it may come any number of times.
ReceiveVal(p, v) ==
    /\ Idle
    /\ ~Draining(p)
    /\ v \in DOMAIN conn \ node[p].DAG
    /\ exec' = [exec EXCEPT ![p].committing = TRUE]
    /\ UNCHANGED <<conn, leader, node, weak>>

CoinShare(p, r) ==
    /\ Idle
    /\ ReceiveCoin(p, r)
    /\ UNCHANGED <<weak, exec>>

\* tryCoinPass calls tryCommit when it has closed a round.
ReleaseCoin(p) ==
    LET r == node[p].coinRound + 1
    IN  /\ Idle
        /\ TakeCoin(p)
        /\ exec' = [exec EXCEPT ![p].committing = Closed(node'[p], r) # Closed(node[p], r)]
        /\ UNCHANGED weak

\* The payload is kept, also when the vertex has been executed before, and
\* nothing is tried.
ReceivePayload(p, v) ==
    /\ Idle
    /\ ~Draining(p)
    /\ v \in DOMAIN conn \ exec[p].arrived
    /\ exec' = [exec EXCEPT ![p].payloads = @ \cup {v}, ![p].arrived = @ \cup {v}]
    /\ UNCHANGED <<conn, leader, node, weak>>

CommitNext ==
    \E p \in Observers :
        \/ \E v \in DOMAIN conn :
              DeliverVertex(p, v) \/ ReceiveVal(p, v) \/ ReceivePayload(p, v)
        \/ \E r \in Round : CoinShare(p, r)
        \/ ReleaseCoin(p)
        \/ tryCommit(p)

CommitSpec == CommitInit /\ [][CommitNext]_commitVars

----------------------------------------------------------------------------
CommitTypeOK ==
    /\ TypeOK
    /\ weak \in Weaks
    /\ exec \in [Observers -> ExecEntries]

(***************************************************************************)
(* A vertex is executed once.  tryCommit does not look at execState before *)
(* it executes a vertex (1887-1895), only at its payload (1882), which the *)
(* first execution has deleted, unless it came later; a second blockBack   *)
(* of an own vertex would find its block gone.                             *)
(***************************************************************************)
ExecutedOnce ==
    [][\A p \in Observers : \A v \in Vertex :
          exec[p].execState[v] # 0 => exec'[p].execState[v] = exec[p].execState[v]]_commitVars

(***************************************************************************)
(* No execution takes the payload of a vertex that tryCommit has still to  *)
(* come to: were it decided 1, tryCommit would return there for ever.      *)
(***************************************************************************)
PayloadKept ==
    \A p \in Observers : \A k \in 1..MaxVertex :
        /\ k > exec[p].committedVertex
        /\ VertexAt(k) \in exec[p].arrived
        /\ exec[p].executing => k # exec[p].committedVertex + 1
        => VertexAt(k) \in exec[p].payloads

(***************************************************************************)
(* State machine replication: what one node has executed by its k-th       *)
(* commit, every node that has come so far has executed by the same one.   *)
(* The code does not keep it: it commits a vertex whose ancestors it lacks *)
(* and takes those it does not have for executed.                          *)
(***************************************************************************)
SameOrder ==
    \A p, q \in Observers : \A v \in Vertex :
        LET k == exec[p].execState[v]
        IN  k # 0 /\ k <= exec[q].committedVertex => exec[q].execState[v] = k

(***************************************************************************)
(* A commit is clear at p if neither it nor one before it has missed edges *)
(* or was decided through the leader of a later round than the next but    *)
(* one (Near).                                                             *)
(***************************************************************************)
Clear(p, k) ==
    /\ \A j \in exec[p].gaps : k < j
    /\ \A v \in node[p].byPath : \A j \in 1..k : VertexAt(j) # v

(***************************************************************************)
(* What is left of it: as long as two nodes have every edge they ask for,  *)
(* they execute the same vertices by the same commits, whatever else of    *)
(* the DAG each of them has and whatever it is told in between.            *)
(***************************************************************************)
ClearCommitsAgree ==
    \A p, q \in Observers : \A v \in Vertex :
        LET k == exec[p].execState[v]
        IN  k # 0 /\ k <= exec[q].committedVertex /\ Clear(p, k) /\ Clear(q, k)
            => exec[q].execState[v] = k

----------------------------------------------------------------------------
\* What the k-th commit has executed at the node with the entries x.
BatchOf(x, k) == {v \in Vertex : x.execState[v] = k}

\* The nodes past a clear k-th commit; what they have executed is its entry.
PastCommit(k) == {p \in Observers : k <= exec[p].committedVertex /\ Clear(p, k)}
CommonLog ==
    [k \in {j \in 1..MaxVertex : PastCommit(j) # {}} |->
        UNION {BatchOf(exec[p], k) : p \in PastCommit(k)}]

\* The commit that a node with the entries x is in, or the last one.
Current(x) == x.committedVertex + (IF x.executing THEN 1 ELSE 0)

\* The nodes that are not clear any more.
Strayed == {p \in Observers : ~Clear(p, Current(exec[p]))}

T == INSTANCE TotalOrder WITH
        Replica <- Observers, Item <- Vertex,
        Main <- [k \in 1..MaxVertex |-> VertexAt(k)],
        log <- CommonLog,
        stray <- Strayed,
        done <- [p \in Observers |-> exec[p].committedVertex],
        doing <- [p \in Observers |-> BatchOf(exec[p], exec[p].committedVertex + 1)]

(***************************************************************************)
(* The nodes execute one log until they stray from it: the step of a node  *)
(* extends what it has executed in its commit, within the entry of the log *)
(* if another node was there before it, and ends the commit with that      *)
(* entry complete.  A commit executes nothing or its own vertex with       *)
(* others, none of which an earlier commit has executed.  A node strays    *)
(* when it misses edges or comes to a decision through the leader of a     *)
(* later round.                                                            *)
(***************************************************************************)
OneLog == [][T!Next]_(T!vars)
=============================================================================
