----------------------------- MODULE MCDecide -----------------------------
(***************************************************************************)
(* Decide on four nodes, F = 1: the DAGs, the leaders and the vertices     *)
(* that come late.                                                         *)
(***************************************************************************)
EXTENDS Decide, TLC, SequencesExt
CONSTANTS
    n1, n2, n3, n4,
    Scenes      \* the DAGs of Graphs and the leaders of Leaders, in the combinations
                \* to check, and for each observer the vertices not yet in its DAG

\* Every vertex connects to all of the round before, but for the edges cut.
Graph(cut) == [v \in Vertex |-> IF v[1] = 1 THEN {} ELSE {i \in Node : <<v, i>> \notin cut}]

\* The vertices S of round r do not connect to i.
Omit(r, S, i) == {<<<<r, s>>, i>> : s \in S}

(***************************************************************************)
(* An observer has added the early vertices, round after round.            *)
(***************************************************************************)
EarlyOf(p, late) ==
    LET Add(o, v) == IF v[2] = p /\ \E c \in conn[v] : <<v[1] - 1, c>> \notin o.DAG
                     THEN o ELSE tryAddDAG(o, v)
        ids == SetToSeq(Node)
        seq == [k \in 1..(MaxRound * Len(ids)) |->
                   <<1 + ((k - 1) \div Len(ids)), ids[1 + ((k - 1) % Len(ids))]>>]
    IN  FoldLeft(Add, Blank, SelectSeq(seq, LAMBDA v : v \in DOMAIN conn \ late))

Starts(s) ==
    /\ conn = s.conn
    /\ leader = s.leader
    /\ node = [p \in Observers |-> EarlyOf(p, s.late[p])]

MCInit == \E s \in Scenes : Starts(s)

MCSpec == MCInit /\ [][Next]_vars

\* The rounds of a DAG up to r.
Upto(r, g) == [v \in {w \in DOMAIN g : w[1] <= r} |-> g[v]]
\* Some DAGs with the same leaders and the same late vertices.
ForAll(late) == [p \in Observers |-> late]
AnyLeader(l) == [r \in Round |-> l]
ScenesOf(graphs, lead, late) ==
    {[conn |-> g, leader |-> lead, late |-> late] : g \in graphs}
SceneGraphs == {s.conn : s \in Scenes}
SceneLeaders == {s.leader : s \in Scenes}

\* Five rounds.  <1, n4> has N-F supporters, F+1 of them, or N-F who reject it;
\* in the last graph F+1 vertices support it and F+1 the leader <3, n3>.
AgreeGraphs ==
    {Upto(5, Graph(cut)) :
        cut \in {Omit(2, S, n4) \cup Omit(3, {n3}, n4) : S \in {{n1}, {n1, n2}, {n1, n2, n3}}}
                \cup {Omit(2, {n1, n2}, n4) \cup Omit(4, {n1, n2}, n3)}}
AgreeLate == {<<2, n3>>, <<2, n4>>, <<3, n3>>}
AgreeScenes ==
    ScenesOf(AgreeGraphs, AnyLeader(n3),
             [p \in Observers |-> IF p = n1 THEN AgreeLate \cup {<<4, n4>>} ELSE AgreeLate])

\* Six rounds: the leader <<5, n3>>, its parents and its supporters come late to
\* n1, and so does the leader <<3, n3>>.  In the last graph <<1, n4>> needs a coin.
TriggerGraphs ==
    {Graph(cut) :
        cut \in {Omit(6, {n4}, n3), Omit(2, {n1, n2}, n4) \cup Omit(5, {n3}, n1)}}
TriggerLate ==
    {<<3, n3>>, <<4, n4>>, <<5, n3>>, <<6, n2>>, <<6, n3>>, <<6, n4>>}
TriggerScenes ==
    ScenesOf(TriggerGraphs, AnyLeader(n3),
             [p \in Observers |-> IF p = n1 THEN TriggerLate ELSE {}])

(***************************************************************************)
(* Six rounds: <<1, n4>> has two supporters, of which the leader <<3, n3>> *)
(* has one parent; that leader has two supporters, of which the leader     *)
(* <<5, n4>> has one parent, and the other one is late.                    *)
(***************************************************************************)
ForkGraph ==
    Graph(Omit(2, {n1, n2}, n4) \cup Omit(3, {n3}, n4) \cup
          Omit(4, {n1, n2}, n3) \cup Omit(5, {n4}, n4))
ForkLeader == [r \in Round |-> IF r = 5 THEN n4 ELSE n3]
ForkScenes == ScenesOf({ForkGraph}, ForkLeader, ForAll({<<4, n4>>, <<5, n4>>}))

AllScenes == AgreeScenes \cup TriggerScenes \cup ForkScenes
=============================================================================
