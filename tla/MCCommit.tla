----------------------------- MODULE MCCommit -----------------------------
(***************************************************************************)
(* Commit on four nodes, F = 1, over the DAGs of MCDecide and a few more.  *)
(***************************************************************************)
EXTENDS Commit, MCDecide

\* To a scene of MCDecide belong the weak edges, one of weaks, and the payloads
\* not yet received.
With(weaks, payloads, scenes) ==
    {[weak |-> w, payloads |-> payloads] @@ s : w \in weaks, s \in scenes}
SceneWeaks == {s.weak : s \in Scenes}

(***************************************************************************)
(* The last of the early vertices has just been added, when all the early  *)
(* payloads were there; it calls tryCommit.                                *)
(***************************************************************************)
MCCommitInit ==
    \E s \in Scenes :
        /\ Starts(s)
        /\ weak = s.weak
        /\ exec = [p \in Observers |->
                     [NoCommit(p) EXCEPT !.committing = TRUE,
                                         !.arrived = DOMAIN conn \ s.payloads,
                                         !.payloads = @ \cup (DOMAIN conn \ s.payloads)]]

MCCommitSpec == MCCommitInit /\ [][CommitNext]_commitVars

\* The Connections of each vertex start with another id.
Turned == [v \in Vertex |-> [i \in Node |-> (i + v[2]) % N]]

\* No vertex has a weak edge but those of w.
WeakEdges(w) == [v \in Vertex |-> IF v \in DOMAIN w THEN w[v] ELSE <<>>]

NoWeaks == {WeakEdges(<<>>)}

\* Only node 4 refers to its own vertices of rounds 1 and 2.
HermitCut == Omit(2, {n1, n2, n3}, n4) \cup Omit(3, {n1, n2, n3}, n4)
HermitScenes ==
    With(NoWeaks, {},
         ScenesOf({Graph(HermitCut)}, AnyLeader(n2), ForAll({<<2, n4>>, <<4, n3>>, <<4, n4>>})))

\* Weak edges to what the proposer's vertices of the rounds before leave out;
\* a proposer adds them only while the vertex has less than N edges.
DownWeaks ==
    {WeakEdges(<<3, n2>> :> <<<<1, n4>>>> @@ <<4, n1>> :> <<<<1, n4>>>>),
     WeakEdges(<<3, n1>> :> <<<<1, n4>>>> @@ <<3, n3>> :> <<<<1, n4>>>> @@ <<4, n1>> :> <<<<2, n4>>>>)}
HasRoom(s) == \A v \in Vertex : Len(s.weak[v]) # 0 => Cardinality(s.conn[v]) + Len(s.weak[v]) <= N

\* <<1, n4>> is decided by the coin of round 3, or is left out; in either case
\* vertices of later rounds have room for a weak edge to it.
WeakScenes ==
    {s \in With(DownWeaks, {<<1, n3>>, <<2, n4>>},
          ScenesOf({Upto(4, Graph(Omit(4, {n1}, n4) \cup Omit(2, {n1, n2}, n4) \cup Omit(3, {n2, n3}, n1)))},
                   AnyLeader(n3),
                   [p \in Observers |-> IF p = n1 THEN {<<3, n4>>, <<4, n4>>}
                                        ELSE {<<2, n4>>, <<4, n3>>}])
          \cup
          ScenesOf({Upto(4, Graph(Omit(4, {n1}, n4) \cup HermitCut))}, AnyLeader(n3),
                   [p \in Observers |-> IF p = n1 THEN {<<2, n4>>, <<4, n4>>}
                                        ELSE {<<3, n4>>, <<4, n3>>}])) : HasRoom(s)}

\* The nodes decide <<1, n4>> by leaders of different rounds.
FarScenes ==
    With(NoWeaks, {},
         ScenesOf({ForkGraph}, ForkLeader,
                  [p \in Observers |-> IF p = n1 THEN {<<4, n4>>} ELSE {<<5, n4>>}]))

LogScenes == WeakScenes \cup FarScenes
=============================================================================
