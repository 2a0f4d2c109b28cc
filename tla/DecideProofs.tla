--------------------------- MODULE DecideProofs ---------------------------
(***************************************************************************)
(* Proofs about Decide, for every N and F, every DAG, every choice of      *)
(* leaders and every order of arrival.                                     *)
(*                                                                         *)
(* Type correctness; agreement on every decision made by the fast path or  *)
(* by the leader of the next round but one.  (What coinPass decides        *)
(* through the leader of a later round is set apart, as byPath: agreement  *)
(* fails there, see the run decide_fork.)  The argument ties each decision *)
(* of a node to a fact of the DAG of the whole system, which is fixed:     *)
(* For1 and For0 below.  What a node has of that DAG suffices for the      *)
(* decisions it makes, however far the recursion of coinPass goes back,    *)
(* and no vertex has both facts, because any two sets of N-F nodes have    *)
(* F+1 nodes in common.  The refinement of Outcome follows.                *)
(*                                                                         *)
(* Besides: coinPass leaves no round open before the one                   *)
(* it closes, whatever recursion it goes through, and no order of arrival  *)
(* leaves a leader without a trigger.                                      *)
(***************************************************************************)
EXTENDS Decide, TLAPS, FiniteSetTheorems, WellFoundedInduction

\* The DAG of the whole system.
All == DOMAIN conn

\* The leader of round r+2 and its parents that support <<r, i>>.
Ready(r) == r + 2 \in Round /\ <<r + 2, leader[r + 2]>> \in All
Linked(r, i) ==
    {id \in Node : id \in conn[<<r + 2, leader[r + 2]>>] /\ i \in conn[<<r + 1, id>>]}

\* The grounds for a decision 1, and for a decision 0.
For1(r, i) ==
    \/ Cardinality(directSupport(All, r, i)) >= N - F
    \/ Ready(r) /\ Cardinality(Linked(r, i)) >= F + 1
For0(r, i) ==
    \/ Cardinality(tentativeReject(All, r, i)) >= N - F
    \/ Ready(r) /\ ~(Cardinality(Linked(r, i)) >= F + 1)

\* Every decision of the record o has its ground, byPath apart.
Sound(o) ==
    \A r \in Round : \A i \in Node : <<r, i>> \notin o.byPath =>
        /\ o.decideState2[r][i] = 2 => For1(r, i)
        /\ o.decideState2[r][i] = 1 => For0(r, i)

RecordInv(o) == o \in NodeState /\ o.DAG \subseteq All /\ Sound(o)

IInv ==
    /\ conn \in Graphs /\ leader \in Leaders
    /\ node \in [Observers -> NodeState]
    /\ \A p \in Observers : RecordInv(node[p])

----------------------------------------------------------------------------
(***************************************************************************)
(* A set of numbers that is not empty has a least member: induction,       *)
(* without an operator as a parameter.                                     *)
(***************************************************************************)
Less == {s \in Nat \X Nat : s[1] < s[2]}

LEMMA LessWF == IsWellFoundedOn(Less, Nat)
<1>1. IsWellFoundedOn(OpToRel(<, Nat), Nat)
  BY NatLessThanWellFounded
<1> QED
  BY <1>1 DEF OpToRel, Less

LEMMA LeastNat ==
    ASSUME NEW T \in SUBSET Nat, T # {}
    PROVE  \E n \in T : \A m \in T : n <= m
<1>1. PICK n \in T : \A m \in T : ~ (<<m, n>> \in Less)
  BY LessWF, WFMin
<1>2. \A m \in T : ~(m < n)
  BY <1>1 DEF Less
<1> QED
  BY <1>2

----------------------------------------------------------------------------
LEMMA Numbers ==
    /\ N \in Nat /\ F \in Nat /\ 3 * F < N
    /\ MaxRound \in Nat /\ MaxRound >= 2
    /\ \A S \in SUBSET Node : IsFiniteSet(S) /\ Cardinality(S) \in Nat
    /\ \A T \in SUBSET Node : \A S \in SUBSET T : Cardinality(S) <= Cardinality(T)
<1>1. IsFiniteSet(Node) /\ F \in Nat /\ 3 * F < N /\ MaxRound \in Nat \ {0, 1}
  BY DecideAssumption
<1>2. \A S \in SUBSET Node : IsFiniteSet(S) /\ Cardinality(S) \in Nat
  BY <1>1, FS_Subset, FS_CardinalityType
<1>3. N \in Nat
  BY <1>1, FS_CardinalityType DEF N
<1>4. \A T \in SUBSET Node : \A S \in SUBSET T : Cardinality(S) <= Cardinality(T)
  BY <1>2, FS_Subset
<1> QED
  BY <1>1, <1>2, <1>3, <1>4

\* Two sets of nodes have at least |S| + |T| - N nodes in common.
LEMMA Overlap ==
    ASSUME NEW S \in SUBSET Node, NEW T \in SUBSET Node
    PROVE  Cardinality(S) + Cardinality(T) <= N + Cardinality(S \cap T)
<1>1. IsFiniteSet(S) /\ IsFiniteSet(T)
  BY Numbers
<1>2. Cardinality(S \cup T) = Cardinality(S) + Cardinality(T) - Cardinality(S \cap T)
  BY <1>1, FS_Union
<1>3. Cardinality(S \cup T) <= N
  <2>1. S \cup T \in SUBSET Node /\ Node \in SUBSET Node
    OBVIOUS
  <2> QED
    BY <2>1, Numbers DEF N
<1>4. S \cup T \in SUBSET Node /\ S \cap T \in SUBSET Node
  OBVIOUS
<1> QED
  BY <1>2, <1>3, <1>4, Numbers

\* A larger DAG has more edges.
LEMMA MoreEdges ==
    ASSUME NEW D, NEW G, D \subseteq G, NEW r, NEW i
    PROVE  /\ Cardinality(directSupport(D, r, i)) <= Cardinality(directSupport(G, r, i))
           /\ Cardinality(tentativeReject(D, r, i)) <= Cardinality(tentativeReject(G, r, i))
           /\ Cardinality(directSupport(D, r, i)) \in Nat
           /\ Cardinality(directSupport(G, r, i)) \in Nat
           /\ Cardinality(tentativeReject(D, r, i)) \in Nat
           /\ Cardinality(tentativeReject(G, r, i)) \in Nat
<1>1. /\ directSupport(D, r, i) \in SUBSET directSupport(G, r, i)
      /\ directSupport(G, r, i) \in SUBSET Node
  BY DEF directSupport, Present
<1>2. /\ tentativeReject(D, r, i) \in SUBSET tentativeReject(G, r, i)
      /\ tentativeReject(G, r, i) \in SUBSET Node
  BY DEF tentativeReject, Present
<1>3. directSupport(D, r, i) \in SUBSET Node /\ tentativeReject(D, r, i) \in SUBSET Node
  BY <1>1, <1>2
<1> QED
  BY <1>1, <1>2, <1>3, Numbers

----------------------------------------------------------------------------
(***************************************************************************)
(* No vertex has grounds for both decisions.                               *)
(***************************************************************************)
LEMMA Exclusive ==
    ASSUME conn \in Graphs, NEW r \in Round, NEW i \in Node, For1(r, i), For0(r, i)
    PROVE  FALSE
<1> DEFINE sup == directSupport(All, r, i)
           rej == tentativeReject(All, r, i)
           par == conn[<<r + 2, leader[r + 2]>>]
           lnk == Linked(r, i)
<1>1. sup \in SUBSET Node /\ rej \in SUBSET Node /\ lnk \in SUBSET Node
  BY DEF directSupport, tentativeReject, Present, Linked
<1>2. ValidGraph(conn)
  BY DecideAssumption
<1>3. sup \cap rej = {}
  BY DEF directSupport, tentativeReject
<1>4. Cardinality({}) = 0
  BY FS_EmptySet
<1>5. CASE Cardinality(sup) >= N - F /\ Cardinality(rej) >= N - F
  <2>1. Cardinality(sup) + Cardinality(rej) <= N + 0
    BY <1>1, <1>3, <1>4, Overlap
  <2> QED
    BY <1>1, <1>5, <2>1, Numbers
<1>6. ASSUME Ready(r) PROVE /\ par \in SUBSET Node
                            /\ Cardinality(par) >= N - F
                            /\ sup \cap par \subseteq lnk
                            /\ lnk \cap rej = {}
  <2>1. <<r + 2, leader[r + 2]>> \in DOMAIN conn /\ r + 2 # 1 /\ (r + 2) - 1 = r + 1
    BY <1>6, Numbers DEF Ready, All, Round
  <2>2. /\ par \subseteq {j \in Node : <<r + 1, j>> \in DOMAIN conn}
        /\ Cardinality(par) >= N - F
    BY <1>2, <2>1 DEF ValidGraph
  <2>3. sup \cap par \subseteq lnk
    BY DEF directSupport, Present, Linked
  <2>4. lnk \cap rej = {}
    BY DEF tentativeReject, Linked
  <2> QED
    BY <2>2, <2>3, <2>4
<1>7. CASE Ready(r) /\ Cardinality(sup) >= N - F /\ ~(Cardinality(lnk) >= F + 1)
  <2>1. Cardinality(sup) + Cardinality(par) <= N + Cardinality(sup \cap par)
    BY <1>1, <1>6, <1>7, Overlap
  <2>2. Cardinality(sup \cap par) <= Cardinality(lnk)
    BY <1>1, <1>6, <1>7, Numbers
  <2>3. sup \cap par \in SUBSET Node
    BY <1>1
  <2> QED
    BY <1>1, <1>6, <1>7, <2>1, <2>2, <2>3, Numbers
<1>8. CASE Ready(r) /\ Cardinality(lnk) >= F + 1 /\ Cardinality(rej) >= N - F
  <2>1. Cardinality(lnk) + Cardinality(rej) <= N + 0
    BY <1>1, <1>4, <1>6, <1>8, Overlap
  <2> QED
    BY <1>1, <1>8, <2>1, Numbers
<1> QED
  BY <1>5, <1>7, <1>8 DEF For1, For0

----------------------------------------------------------------------------
(***************************************************************************)
(* The types of what the functions of node.go return.                      *)
(***************************************************************************)
LEMMA CoinDecideType ==
    ASSUME NEW o \in NodeState, NEW r \in Round, NEW l
    PROVE  CoinDecide(o, r, l) \in [Node -> 0..2]
<1>1. o.decideState2[r] \in [Node -> 0..2]
  BY DEF NodeState
<1> QED
  BY <1>1 DEF CoinDecide, Merge

LEMMA addDirectConnType ==
    ASSUME NEW o \in NodeState, NEW v \in Vertex
    PROVE  /\ addDirectConn(o, v) \in NodeState
           /\ addDirectConn(o, v).DAG = o.DAG
<1> DEFINE r == v[1] - 1
<1>1. r = 0 \/ r \in Round
  BY Numbers DEF Vertex, Round
<1>2. CASE r = 0 \/ attackSim
  BY <1>2 DEF addDirectConn
<1>3. CASE r \in Round /\ ~attackSim /\ r # 0
  <2>1. o.decideState2[r] \in [Node -> 0..2]
    BY <1>3 DEF NodeState
  <2> DEFINE Fast(i) ==
            CASE i \in conn[v] /\ Cardinality(directSupport(o.DAG, r, i)) >= N - F -> 2
              [] i \notin conn[v] /\ Cardinality(tentativeReject(o.DAG, r, i)) >= N - F -> 1
              [] OTHER -> 0
         d == [i \in Node |-> IF o.decideState2[r][i] # 0 THEN o.decideState2[r][i] ELSE Fast(i)]
  <2>2. \A i : Fast(i) \in 0..2
    OBVIOUS
  <2>3. d \in [Node -> 0..2]
    BY <2>1, <2>2
  <2>4. addDirectConn(o, v) = [o EXCEPT !.decideState2[r] = d]
    BY <1>3 DEF addDirectConn, Merge
  <2> HIDE DEF d
  <2> QED
    BY <1>3, <2>3, <2>4 DEF NodeState
<1> QED
  BY <1>1, <1>2, <1>3

\* What coinPass has decided, round by round.
DecidedAfter(o, todo) ==
    [r \in Round |->
        IF \E k \in Round : <<r, k>> \in todo
        THEN CoinDecide(o, r, CHOOSE k \in Round : <<r, k>> \in todo)
        ELSE o.decideState2[r]]

\* Close, as a whole and field by field.
ClosedRecord(o, l, todo) ==
    [o EXCEPT !.decideState2 = DecidedAfter(o, todo),
              !.byPath = o.byPath \cup FarDecided(o, todo),
              !.FirstRound = IF l % 2 = 1 THEN l - 2 ELSE o.FirstRound,
              !.SecondRound = IF l % 2 = 1 THEN o.SecondRound ELSE l - 2]

LEMMA CloseRecord ==
    ASSUME NEW o \in NodeState, NEW l \in Int, NEW todo, todo # {}
    PROVE  Close(o, l, todo) = ClosedRecord(o, l, todo)
<1> DEFINE d == DecidedAfter(o, todo)
           b == o.byPath \cup FarDecided(o, todo)
           c == [o EXCEPT !.decideState2 = d, !.byPath = b]
<1>1. Close(o, l, todo) = IF l % 2 = 1 THEN [c EXCEPT !.FirstRound = l - 2]
                          ELSE [c EXCEPT !.SecondRound = l - 2]
  BY DEF Close, DecidedAfter
<1>2. ClosedRecord(o, l, todo) =
         [o EXCEPT !.decideState2 = d, !.byPath = b,
                   !.FirstRound = IF l % 2 = 1 THEN l - 2 ELSE o.FirstRound,
                   !.SecondRound = IF l % 2 = 1 THEN o.SecondRound ELSE l - 2]
  BY DEF ClosedRecord
<1> HIDE DEF d, b
<1> QED
  BY <1>1, <1>2 DEF NodeState

LEMMA CloseFields ==
    ASSUME NEW o \in NodeState, NEW l \in Int, NEW todo, todo # {}
    PROVE  /\ Close(o, l, todo).decideState2 = DecidedAfter(o, todo)
           /\ Close(o, l, todo).byPath = o.byPath \cup FarDecided(o, todo)
           /\ Close(o, l, todo).FirstRound = (IF l % 2 = 1 THEN l - 2 ELSE o.FirstRound)
           /\ Close(o, l, todo).SecondRound = (IF l % 2 = 1 THEN o.SecondRound ELSE l - 2)
           /\ Close(o, l, todo).DAG = o.DAG
           /\ Close(o, l, todo).coinRound = o.coinRound
<1> DEFINE d == DecidedAfter(o, todo)
           b == o.byPath \cup FarDecided(o, todo)
           t == Close(o, l, todo)
<1>1. t = [o EXCEPT !.decideState2 = d, !.byPath = b,
                    !.FirstRound = IF l % 2 = 1 THEN l - 2 ELSE o.FirstRound,
                    !.SecondRound = IF l % 2 = 1 THEN o.SecondRound ELSE l - 2]
  BY CloseRecord DEF ClosedRecord
<1> HIDE DEF d, b, t
<1>2. /\ t.decideState2 = d /\ t.byPath = b
      /\ t.FirstRound = (IF l % 2 = 1 THEN l - 2 ELSE o.FirstRound)
      /\ t.SecondRound = (IF l % 2 = 1 THEN o.SecondRound ELSE l - 2)
      /\ t.DAG = o.DAG /\ t.coinRound = o.coinRound
  BY <1>1 DEF NodeState
<1> QED
  BY <1>2 DEF d, b, t

LEMMA CloseType ==
    ASSUME NEW o \in NodeState, NEW l \in Int, l - 2 \in 0..MaxRound, NEW todo
    PROVE  /\ Close(o, l, todo) \in NodeState
           /\ Close(o, l, todo).DAG = o.DAG
           /\ Close(o, l, todo).coinRound = o.coinRound
<1> DEFINE d == DecidedAfter(o, todo)
           b == o.byPath \cup FarDecided(o, todo)
<1>1. d \in [Round -> [Node -> 0..2]]
  <2>1. o.decideState2 \in [Round -> [Node -> 0..2]]
    BY DEF NodeState
  <2> QED
    BY <2>1, CoinDecideType DEF DecidedAfter
<1>2. b \in SUBSET Vertex
  BY DEF NodeState, FarDecided
<1>3. CASE todo = {}
  BY <1>3 DEF Close
<1>4. CASE todo # {}
  <2>1. l - 2 \in -1..MaxRound
    BY Numbers
  <2>2. Close(o, l, todo) =
           [o EXCEPT !.decideState2 = d, !.byPath = b,
                     !.FirstRound = IF l % 2 = 1 THEN l - 2 ELSE o.FirstRound,
                     !.SecondRound = IF l % 2 = 1 THEN o.SecondRound ELSE l - 2]
    BY <1>4, CloseRecord DEF ClosedRecord
  <2>3. /\ Close(o, l, todo).DAG = o.DAG
        /\ Close(o, l, todo).coinRound = o.coinRound
    BY <1>4, CloseFields
  <2> HIDE DEF d, b
  <2>4. Close(o, l, todo) \in NodeState
    BY <1>1, <1>2, <2>1, <2>2 DEF NodeState
  <2> QED
    BY <2>3, <2>4
<1> QED
  BY <1>3, <1>4

LEMMA tryCoinPassType ==
    ASSUME NEW o \in NodeState, NEW l \in Int, l >= 3
    PROVE  /\ tryCoinPass(o, l) \in NodeState
           /\ tryCoinPass(o, l).DAG = o.DAG
           /\ tryCoinPass(o, l).coinRound = o.coinRound
<1>1. CASE l > o.coinRound
  BY <1>1 DEF tryCoinPass
<1>2. CASE ~(l > o.coinRound)
  <2>1. l - 2 \in 0..MaxRound
    BY <1>2, Numbers DEF NodeState
  <2> QED
    BY <1>2, <2>1, CloseType DEF tryCoinPass
<1> QED
  BY <1>1, <1>2

\* The trigger of a leader, and the three of a new vertex.
Step(o, t) ==
    t \in NodeState /\ t.DAG = o.DAG /\ t.coinRound = o.coinRound

LEMMA TriggerType ==
    ASSUME NEW o \in NodeState, NEW l \in Int, l >= 3
    PROVE  Step(o, Trigger(o, l))
BY tryCoinPassType DEF Trigger, Step

LEMMA addInDirectConnType ==
    ASSUME NEW o \in NodeState, NEW v \in Vertex
    PROVE  Step(o, addInDirectConn(o, v))
<1> DEFINE a == Supports(o, v)
           b == Leads(a, v)
           c == IsParent(b, v)
<1>1. CASE ~(v[1] >= 4)
  BY <1>1 DEF addInDirectConn, Step
<1>2. CASE v[1] >= 4
  <2>1. /\ v[1] \in Int /\ v[1] - 1 \in Int /\ v[1] + 1 \in Int
        /\ v[1] - 1 >= 3 /\ v[1] >= 3 /\ v[1] + 1 >= 3
    BY <1>2, Numbers DEF Vertex, Round
  <2>2. Step(o, a)
    BY <2>1, TriggerType DEF Supports
  <2>3. Step(a, b)
    <3> HIDE DEF a
    <3> QED
      BY <2>1, <2>2, TriggerType DEF Leads, Step
  <2>4. Step(b, c)
    <3> HIDE DEF b
    <3> QED
      BY <2>1, <2>3, TriggerType DEF IsParent, Step
  <2>5. addInDirectConn(o, v) = c
    BY <1>2 DEF addInDirectConn
  <2> HIDE DEF a, b, c
  <2> QED
    BY <2>2, <2>3, <2>4, <2>5 DEF Step
<1> QED
  BY <1>1, <1>2

LEMMA tryAddDAGType ==
    ASSUME NEW o \in NodeState, NEW v \in Vertex
    PROVE  /\ tryAddDAG(o, v) \in NodeState
           /\ tryAddDAG(o, v).DAG = o.DAG \cup {v}
<1> DEFINE t == [o EXCEPT !.DAG = @ \cup {v}]
<1>1. t \in NodeState /\ t.DAG = o.DAG \cup {v}
  BY DEF NodeState
<1> HIDE DEF t
<1>2. addDirectConn(t, v) \in NodeState /\ addDirectConn(t, v).DAG = t.DAG
  BY <1>1, addDirectConnType
<1>3. Step(addDirectConn(t, v), addInDirectConn(addDirectConn(t, v), v))
  BY <1>2, addInDirectConnType
<1>4. tryAddDAG(o, v) = addInDirectConn(addDirectConn(t, v), v)
  BY DEF tryAddDAG, t
<1> QED
  BY <1>1, <1>2, <1>3, <1>4 DEF Step

----------------------------------------------------------------------------
(***************************************************************************)
(* What coinPass decides when it goes back over several rounds.  Before is *)
(* defined by a recursive function; that there is one is shown by          *)
(* induction over the rounds.                                              *)
(***************************************************************************)
Calls == Round \X Round \X SUBSET Node

\* One call, where the calls for round r-2 are those of f.
By(o, f, r, k, W) ==
    IF ~Known(o, r - 2, W) THEN {}
    ELSE IF NothingBefore(o, r - 2) THEN {<<r - 2, k>>}
    ELSE Then(f[<<r - 2, k, W>>], r - 2, k)

PlanAt(o, f, c) ==
    IF Path(o.DAG, c[1], leader[c[1]], c[2], leader[c[2]])
    THEN By(o, f, c[1], c[1], {leader[c[1]]}) ELSE By(o, f, c[1], c[2], Back(c[1], c[3]))

IsPlan(o, f) == f = [c \in Calls |-> PlanAt(o, f, c)]

\* f is right up to round n.
Covers(o, f, n) == \A c \in Calls : c[1] <= n => f[c] = PlanAt(o, f, c)

LEMMA KnownIsNode ==
    ASSUME NEW o \in NodeState, NEW r \in Int, NEW W, Known(o, r, W)
    PROVE  W \in SUBSET Node /\ (W # {} => r + 2 \in Round)
<1>1. o.DAG \subseteq Vertex
  BY DEF NodeState
<1>2. \A id \in W : <<r + 2, id>> \in Vertex
  BY <1>1 DEF Known
<1> QED
  BY <1>2 DEF Vertex

LEMMA PlanStep ==
    ASSUME NEW o \in NodeState, NEW f, NEW n \in Nat, Covers(o, f, n)
    PROVE  \E g : /\ g = [c \in Calls |-> PlanAt(o, f, c)]
                  /\ \A c \in Calls : c[1] <= n + 1 => PlanAt(o, f, c) = PlanAt(o, g, c)
                  /\ Covers(o, g, n + 1)
<1> DEFINE g == [c \in Calls |-> PlanAt(o, f, c)]
<1>1. \A c \in Calls : g[c] = PlanAt(o, f, c)
  OBVIOUS
<1> HIDE DEF g
<1>2. ASSUME NEW r \in Round, NEW k \in Round, NEW W, r <= n + 1
      PROVE  By(o, f, r, k, W) = By(o, g, r, k, W)
  <2>1. CASE ~Known(o, r - 2, W) \/ NothingBefore(o, r - 2)
    BY <2>1 DEF By
  <2>2. CASE Known(o, r - 2, W) /\ ~NothingBefore(o, r - 2)
    <3>1. r \in Int /\ r - 2 \in Int /\ r - 2 > 2 /\ r - 2 <= n /\ r - 2 \in Round
      BY <1>2, <2>2, Numbers DEF NothingBefore, Round
    <3>2. W \in SUBSET Node
      BY <2>2, <3>1, KnownIsNode
    <3> DEFINE c == <<r - 2, k, W>>
    <3>3. c \in Calls /\ c[1] = r - 2
      BY <3>1, <3>2 DEF Calls
    <3> HIDE DEF c
    <3>4. f[c] = g[c]
      BY <1>1, <3>1, <3>3 DEF Covers
    <3> QED
      BY <2>2, <3>4 DEF By, c
  <2> QED
    BY <2>1, <2>2
<1>3. ASSUME NEW c \in Calls, c[1] <= n + 1 PROVE PlanAt(o, f, c) = PlanAt(o, g, c)
  <2>1. c[1] \in Round /\ c[2] \in Round
    BY DEF Calls
  <2> QED
    BY <1>2, <1>3, <2>1 DEF PlanAt
<1>4. Covers(o, g, n + 1)
  BY <1>1, <1>3 DEF Covers
<1> QED
  BY <1>3, <1>4 DEF g

LEMMA PlanExists ==
    ASSUME NEW o \in NodeState
    PROVE  \E f : IsPlan(o, f)
<1> DEFINE T == {n \in Nat : ~ \E f : Covers(o, f, n)}
<1>1. T \in SUBSET Nat
  OBVIOUS
<1>2. ASSUME NEW n \in T, \A m \in T : n <= m PROVE FALSE
  <2>1. n \in Nat /\ ~ \E f : Covers(o, f, n)
    OBVIOUS
  <2>2. n # 0
    <3>1. \A c \in Calls : ~(c[1] <= 0)
      BY DEF Calls, Round
    <3>2. Covers(o, {}, 0)
      BY <3>1 DEF Covers
    <3> QED
      BY <2>1, <3>2
  <2> DEFINE m == n - 1
  <2>3. m \in Nat /\ ~(n <= m) /\ m + 1 = n
    BY <2>1, <2>2
  <2> HIDE DEF m
  <2>4. m \notin T
    BY <1>2, <2>3
  <2>5. PICK f : Covers(o, f, m)
    BY <2>3, <2>4
  <2>6. \E g : Covers(o, g, m + 1)
    BY <2>3, <2>5, PlanStep
  <2> QED
    BY <2>1, <2>3, <2>6
<1> HIDE DEF T
<1>3. T = {}
  BY <1>1, <1>2, LeastNat
<1>4. MaxRound \in Nat
  BY Numbers
<1>5. PICK f : Covers(o, f, MaxRound)
  BY <1>3, <1>4 DEF T
<1> DEFINE n == MaxRound
<1> HIDE DEF n
<1>6. PICK g :
        /\ g = [c \in Calls |-> PlanAt(o, f, c)]
        /\ \A c \in Calls : c[1] <= n + 1 => PlanAt(o, f, c) = PlanAt(o, g, c)
  BY <1>4, <1>5, PlanStep DEF n
<1>7. \A c \in Calls : c[1] <= n + 1
  BY <1>4 DEF Calls, Round, n
<1>8. IsPlan(o, g)
  BY <1>6, <1>7 DEF IsPlan
<1> QED
  BY <1>8

LEMMA BeforeIsPlan ==
    ASSUME NEW o \in NodeState, NEW r0, NEW l0, NEW V0
    PROVE  \E f : /\ \A c \in Calls : f[c] = PlanAt(o, f, c)
                  /\ Before(o, r0, l0, V0) = f[<<r0, l0, V0>>]
<1> DEFINE p == CHOOSE f : IsPlan(o, f)
<1>1. IsPlan(o, p)
  BY PlanExists
<1>2. Before(o, r0, l0, V0) = p[<<r0, l0, V0>>]
  BY Zenon DEF Before, IsPlan, PlanAt, By, Calls
<1> HIDE DEF p
<1>3. \A c \in Calls : p[c] = PlanAt(o, p, c)
  BY <1>1 DEF IsPlan
<1> QED
  BY <1>2, <1>3

\* A round decided by the leader of the next but one: that leader and all of
\* its parents are in the DAG.
Sighted(o, todo) ==
    \A r \in Round : <<r, r + 2>> \in todo => Known(o, r, {leader[r + 2]})

LEMMA BySighted ==
    ASSUME NEW o \in NodeState, NEW f, NEW r \in Round, NEW k \in Round, NEW W,
           k = r => W = {leader[r]},
           \A c \in Calls : c[1] = r - 2 => Sighted(o, f[c])
    PROVE  Sighted(o, By(o, f, r, k, W))
<1>1. r \in Int /\ r >= 1 /\ r <= MaxRound /\ MaxRound \in Nat
  BY Numbers DEF Round
<1>2. CASE ~Known(o, r - 2, W)
  BY <1>2 DEF By, Sighted
<1>3. ASSUME Known(o, r - 2, W), NEW q \in Round, <<q, q + 2>> = <<r - 2, k>>
      PROVE  Known(o, q, {leader[q + 2]})
  <2>1. q = r - 2 /\ q + 2 = k
    BY <1>3
  <2>2. q + 2 = r
    BY <1>1, <2>1
  <2> QED
    BY <1>3, <2>1, <2>2
<1>4. CASE Known(o, r - 2, W) /\ NothingBefore(o, r - 2)
  <2>1. By(o, f, r, k, W) = {<<r - 2, k>>}
    BY <1>4 DEF By
  <2> QED
    BY <1>3, <1>4, <2>1 DEF Sighted
<1>5. CASE Known(o, r - 2, W) /\ ~NothingBefore(o, r - 2)
  <2> DEFINE c == <<r - 2, k, W>>
  <2>1. By(o, f, r, k, W) = Then(f[c], r - 2, k)
    BY <1>5 DEF By
  <2>2. r - 2 \in Round
    BY <1>1, <1>5 DEF NothingBefore, Round
  <2>3. W \in SUBSET Node
    BY <1>1, <1>5, KnownIsNode
  <2>4. c \in Calls /\ c[1] = r - 2
    BY <2>2, <2>3 DEF Calls
  <2> HIDE DEF c
  <2>5. Sighted(o, f[c])
    BY <2>4
  <2>6. Sighted(o, {})
    BY DEF Sighted
  <2>7. Sighted(o, f[c] \cup {<<r - 2, k>>})
    BY <1>3, <1>5, <2>5 DEF Sighted
  <2> QED
    BY <2>1, <2>6, <2>7 DEF Then
<1> QED
  BY <1>2, <1>4, <1>5

LEMMA PlanSighted ==
    ASSUME leader \in Leaders, NEW o \in NodeState,
           NEW f, \A c \in Calls : f[c] = PlanAt(o, f, c)
    PROVE  \A c \in Calls : Sighted(o, f[c])
<1> DEFINE T == {r \in Nat : \E c \in Calls : c[1] = r /\ ~Sighted(o, f[c])}
<1>1. T \in SUBSET Nat
  OBVIOUS
<1>2. ASSUME NEW r \in T, \A m \in T : r <= m PROVE FALSE
  <2>1. PICK c \in Calls : c[1] = r /\ ~Sighted(o, f[c])
    OBVIOUS
  <2>2. r \in Round /\ c[2] \in Round /\ r \in Int /\ r >= 1
    BY <2>1 DEF Calls, Round
  <2>3. \A d \in Calls : d[1] = r - 2 => Sighted(o, f[d])
    <3> SUFFICES ASSUME NEW d \in Calls, d[1] = r - 2 PROVE Sighted(o, f[d])
      OBVIOUS
    <3>1. r - 2 \in Nat
      BY <2>2 DEF Calls, Round
    <3> DEFINE m == r - 2
    <3>2. m \in Nat /\ ~(r <= m) /\ d[1] = m
      BY <2>2, <3>1
    <3> HIDE DEF m
    <3>3. m \notin T
      BY <1>2, <3>2
    <3> QED
      BY <3>2, <3>3
  <2> HIDE DEF T
  <2>4. CASE Path(o.DAG, r, leader[r], c[2], leader[c[2]])
    <3>1. f[c] = By(o, f, r, r, {leader[r]})
      BY <2>1, <2>4 DEF PlanAt
    <3>2. Sighted(o, By(o, f, r, r, {leader[r]}))
      BY <2>2, <2>3, BySighted
    <3> QED
      BY <2>1, <3>1, <3>2
  <2>5. CASE ~Path(o.DAG, r, leader[r], c[2], leader[c[2]])
    <3>1. f[c] = By(o, f, r, c[2], Back(r, c[3]))
      BY <2>1, <2>5 DEF PlanAt
    <3>2. leader[r] \in Node
      BY <2>2, DecideAssumption
    <3>3. Path(o.DAG, r, leader[r], r, leader[r])
      <4> DEFINE s == [j \in r..r |-> leader[r]]
      <4>1. s \in [r..r -> Node] /\ s[r] = leader[r]
        BY <2>2, <3>2
      <4>2. r..(r - 1) = {} /\ r <= r
        BY <2>2
      <4> HIDE DEF s
      <4> QED
        BY <4>1, <4>2 DEF Path
    <3>4. c[2] # r
      BY <2>5, <3>3
    <3> DEFINE W == Back(r, c[3])
               k == c[2]
    <3>5. k \in Round /\ k # r
      BY <2>2, <3>4
    <3> HIDE DEF W, k
    <3>6. Sighted(o, By(o, f, r, k, W))
      BY <2>2, <2>3, <3>5, BySighted
    <3> QED
      BY <2>1, <3>1, <3>6 DEF W, k
  <2> QED
    BY <2>4, <2>5
<1> HIDE DEF T
<1>3. T = {}
  BY <1>1, <1>2, LeastNat
<1> SUFFICES ASSUME NEW c \in Calls, ~Sighted(o, f[c]) PROVE FALSE
  OBVIOUS
<1>4. c[1] \in Nat
  BY DEF Calls, Round
<1> QED
  BY <1>3, <1>4 DEF T

\* However far the leader of round l lets coinPass go back.
LEMMA coinPassSighted ==
    ASSUME leader \in Leaders, NEW o \in NodeState, NEW l \in Round, l >= 3
    PROVE  Sighted(o, coinPass(o, l))
<1>1. CASE coinPass(o, l) = {}
  BY <1>1 DEF Sighted
<1>2. CASE coinPass(o, l) # {}
  <2>1. /\ Known(o, l - 2, {leader[l]})
        /\ coinPass(o, l) = IF NothingBefore(o, l - 2) THEN {<<l - 2, l>>}
                            ELSE Then(Before(o, l - 2, l, {leader[l]}), l - 2, l)
    BY <1>2 DEF coinPass
  <2>2. l \in Int /\ l - 2 \in Round
    BY Numbers DEF Round
  <2>3. ASSUME NEW q \in Round, <<q, q + 2>> = <<l - 2, l>>
        PROVE  Known(o, q, {leader[q + 2]})
    <3>1. q = l - 2 /\ q + 2 = l
      BY <2>3
    <3> QED
      BY <2>1, <3>1
  <2>4. CASE NothingBefore(o, l - 2)
    BY <2>1, <2>3, <2>4 DEF Sighted
  <2>5. CASE ~NothingBefore(o, l - 2)
    <3> DEFINE V == {leader[l]}
               c == <<l - 2, l, V>>
    <3>1. V \in SUBSET Node
      BY <2>1, <2>2, KnownIsNode
    <3>2. coinPass(o, l) = Then(Before(o, l - 2, l, V), l - 2, l)
      BY <2>1, <2>5
    <3> HIDE DEF V
    <3>3. PICK f : /\ \A d \in Calls : f[d] = PlanAt(o, f, d)
                   /\ Before(o, l - 2, l, V) = f[c]
      BY BeforeIsPlan
    <3>4. c \in Calls
      BY <2>2, <3>1 DEF Calls
    <3> HIDE DEF c
    <3>5. Sighted(o, f[c])
      BY <3>3, <3>4, PlanSighted
    <3>6. coinPass(o, l) = f[c] \cup {<<l - 2, l>>}
      BY <1>2, <3>2, <3>3 DEF Then
    <3> QED
      BY <2>3, <3>5, <3>6 DEF Sighted
  <2> QED
    BY <2>4, <2>5
<1> QED
  BY <1>1, <1>2

----------------------------------------------------------------------------
(***************************************************************************)
(* Every decision has its ground.                                          *)
(***************************************************************************)
LEMMA addDirectConnSound ==
    ASSUME NEW o \in NodeState, NEW v \in Vertex, o.DAG \subseteq All, Sound(o)
    PROVE  Sound(addDirectConn(o, v))
<1> DEFINE r == v[1] - 1
           t == addDirectConn(o, v)
<1>1. r = 0 \/ r \in Round
  BY Numbers DEF Vertex, Round
<1>2. CASE r = 0 \/ attackSim
  BY <1>2 DEF addDirectConn
<1>3. CASE r \in Round /\ ~attackSim /\ r # 0
  <2> DEFINE Fast(i) ==
            CASE i \in conn[v] /\ Cardinality(directSupport(o.DAG, r, i)) >= N - F -> 2
              [] i \notin conn[v] /\ Cardinality(tentativeReject(o.DAG, r, i)) >= N - F -> 1
              [] OTHER -> 0
         d == [i \in Node |-> IF o.decideState2[r][i] # 0 THEN o.decideState2[r][i] ELSE Fast(i)]
  <2>1. \A i \in Node : /\ Fast(i) = 2 => For1(r, i)
                        /\ Fast(i) = 1 => For0(r, i)
    <3> TAKE i \in Node
    <3>1. Fast(i) = 2 => Cardinality(directSupport(o.DAG, r, i)) >= N - F
      OBVIOUS
    <3>2. Fast(i) = 1 => Cardinality(tentativeReject(o.DAG, r, i)) >= N - F
      OBVIOUS
    <3> HIDE DEF Fast
    <3> QED
      BY <3>1, <3>2, MoreEdges, Numbers DEF For1, For0
  <2>2. t = [o EXCEPT !.decideState2[r] = d]
    BY <1>3 DEF addDirectConn, Merge
  <2>3. o.decideState2 \in [Round -> [Node -> 0..2]]
    BY DEF NodeState
  <2>4. \A s \in Round : t.decideState2[s] = IF s = r THEN d ELSE o.decideState2[s]
    <3> HIDE DEF d
    <3> QED
      BY <1>3, <2>2, <2>3 DEF NodeState
  <2>5. \A i \in Node : d[i] = IF o.decideState2[r][i] # 0 THEN o.decideState2[r][i] ELSE Fast(i)
    OBVIOUS
  <2>6. t.byPath = o.byPath
    <3> HIDE DEF d
    <3> QED
      BY <2>2 DEF NodeState
  <2> HIDE DEF t, d, Fast
  <2> QED
    BY <1>3, <2>1, <2>4, <2>5, <2>6 DEF Sound, t
<1> QED
  BY <1>1, <1>2, <1>3

\* With one hop to go, Path finds the edges there are.
LEMMA OneHop ==
    ASSUME NEW D, NEW r \in Int, NEW id \in Node, NEW ld \in Node
    PROVE  Path(D, r, id, r + 1, ld) <=> ld \in directSupport(D, r, id)
<1>1. ASSUME Path(D, r, id, r + 1, ld) PROVE ld \in directSupport(D, r, id)
  <2>1. PICK s \in [r..(r + 1) -> Node] :
           /\ s[r] = id /\ s[r + 1] = ld
           /\ \A k \in r..((r + 1) - 1) : s[k + 1] \in directSupport(D, r, s[k])
    BY <1>1 DEF Path
  <2>2. r \in r..((r + 1) - 1)
    OBVIOUS
  <2> QED
    BY <2>1, <2>2
<1>2. ASSUME ld \in directSupport(D, r, id) PROVE Path(D, r, id, r + 1, ld)
  <2> DEFINE s == [k \in r..(r + 1) |-> IF k = r THEN id ELSE ld]
  <2>1. s \in [r..(r + 1) -> Node] /\ s[r] = id /\ s[r + 1] = ld
    OBVIOUS
  <2>2. \A k \in r..((r + 1) - 1) : k = r
    OBVIOUS
  <2>3. \A k \in r..((r + 1) - 1) : s[k + 1] \in directSupport(D, r, s[k])
    BY <1>2, <2>1, <2>2
  <2> HIDE DEF s
  <2> QED
    BY <2>1, <2>3 DEF Path
<1> QED
  BY <1>1, <1>2

\* A coin decides a round two below its own on the grounds of the whole DAG.
LEMMA CoinDecideSound ==
    ASSUME conn \in Graphs, leader \in Leaders,
           NEW o \in NodeState, o.DAG \subseteq All, Sound(o),
           NEW r \in Round, r + 2 \in Round, Known(o, r, {leader[r + 2]})
    PROVE  \A i \in Node : <<r, i>> \notin o.byPath =>
              /\ CoinDecide(o, r, r + 2)[i] = 2 => For1(r, i)
              /\ CoinDecide(o, r, r + 2)[i] = 1 => For0(r, i)
<1> DEFINE ld == leader[r + 2]
           linked(i) == {id \in directSupport(o.DAG, r, i) : Path(o.DAG, r + 1, id, r + 2, ld)}
           Coin(i) == IF Cardinality(linked(i)) >= F + 1 THEN 2 ELSE 1
<1>1. ld \in Node /\ r \in Int /\ (r + 1) + 1 = r + 2
  BY DecideAssumption, Numbers DEF Round
<1>2. /\ <<r + 2, ld>> \in o.DAG
      /\ \A c \in conn[<<r + 2, ld>>] : <<r + 1, c>> \in o.DAG
  BY DEF Known
<1>3. Ready(r)
  BY <1>2 DEF Ready
<1>4. \A i \in Node : linked(i) = Linked(r, i)
  <2> TAKE i \in Node
  <2>1. \A id \in Node : Path(o.DAG, r + 1, id, r + 2, ld) <=> id \in conn[<<r + 2, ld>>]
    <3> TAKE id \in Node
    <3>1. Path(o.DAG, r + 1, id, (r + 1) + 1, ld) <=> ld \in directSupport(o.DAG, r + 1, id)
      BY <1>1, OneHop
    <3>2. ld \in directSupport(o.DAG, r + 1, id) <=> id \in conn[<<r + 2, ld>>]
      BY <1>1, <1>2 DEF directSupport, Present
    <3> QED
      BY <1>1, <3>1, <3>2
  <2>2. directSupport(o.DAG, r, i) \subseteq Node
    BY DEF directSupport, Present
  <2> QED
    BY <1>2, <2>1, <2>2 DEF directSupport, Present, Linked
<1>5. \A i \in Node : CoinDecide(o, r, r + 2)[i] =
                         IF o.decideState2[r][i] # 0 THEN o.decideState2[r][i] ELSE Coin(i)
  BY DEF CoinDecide, Merge
<1>6. \A i \in Node : /\ Coin(i) = 2 => Cardinality(Linked(r, i)) >= F + 1
                      /\ Coin(i) = 1 => ~(Cardinality(Linked(r, i)) >= F + 1)
  <2> TAKE i \in Node
  <2>1. linked(i) = Linked(r, i)
    BY <1>4
  <2> HIDE DEF linked
  <2> QED
    BY <2>1
<1> HIDE DEF Coin, linked
<1> QED
  BY <1>3, <1>5, <1>6 DEF Sound, For1, For0

(***************************************************************************)
(* The leader of round l may let coinPass go back over any number of       *)
(* rounds: each of them is marked, or its own leader decides it.           *)
(***************************************************************************)
LEMMA tryCoinPassSound ==
    ASSUME conn \in Graphs, leader \in Leaders,
           NEW o, RecordInv(o), NEW l \in Int, l >= 3
    PROVE  Sound(tryCoinPass(o, l))
<1> DEFINE t == tryCoinPass(o, l)
           todo == coinPass(o, l)
           decided == DecidedAfter(o, todo)
<1>1. o \in NodeState /\ o.DAG \subseteq All /\ Sound(o)
  BY DEF RecordInv
<1>2. CASE l > o.coinRound \/ todo = {}
  BY <1>1, <1>2 DEF tryCoinPass, Close
<1>3. CASE ~(l > o.coinRound \/ todo = {})
  <2>1. l \in Round
    BY <1>1, <1>3, Numbers DEF NodeState, Round
  <2>2. Sighted(o, todo)
    BY <1>1, <2>1, coinPassSighted
  <2>3. t.decideState2 = decided /\ t.byPath = o.byPath \cup FarDecided(o, todo)
    <3>1. t = Close(o, l, todo) /\ todo # {}
      BY <1>3 DEF tryCoinPass
    <3> HIDE DEF t, todo
    <3>2. /\ Close(o, l, todo).decideState2 = DecidedAfter(o, todo)
          /\ Close(o, l, todo).byPath = o.byPath \cup FarDecided(o, todo)
      BY <1>1, <3>1, CloseFields
    <3> QED
      BY <3>1, <3>2
  <2> HIDE DEF t, todo
  <2>4. SUFFICES ASSUME NEW r \in Round, NEW i \in Node, <<r, i>> \notin t.byPath
                 PROVE  /\ decided[r][i] = 2 => For1(r, i)
                        /\ decided[r][i] = 1 => For0(r, i)
    BY <2>3 DEF Sound, t
  <2>5. <<r, i>> \notin o.byPath /\ <<r, i>> \notin FarDecided(o, todo)
    BY <2>3, <2>4
  <2>6. decided[r] = IF \E k \in Round : <<r, k>> \in todo
                     THEN CoinDecide(o, r, CHOOSE k \in Round : <<r, k>> \in todo)
                     ELSE o.decideState2[r]
    BY DEF DecidedAfter
  <2> HIDE DEF decided
  <2>7. CASE ~\E k \in Round : <<r, k>> \in todo
    BY <1>1, <2>5, <2>6, <2>7 DEF Sound
  <2>8. CASE /\ \E k \in Round : <<r, k>> \in todo
             /\ o.decideState2[r][i] # 0
    <3>1. \A k : CoinDecide(o, r, k)[i] = o.decideState2[r][i]
      BY <2>8 DEF CoinDecide, Merge
    <3> QED
      BY <1>1, <2>5, <2>6, <3>1 DEF Sound
  <2>9. CASE /\ \E k \in Round : <<r, k>> \in todo
             /\ o.decideState2[r][i] = 0
    <3>1. \A k \in Round : <<r, k>> \in todo => k = r + 2
      BY <2>5, <2>9 DEF FarDecided, Vertex
    <3>2. (CHOOSE k \in Round : <<r, k>> \in todo) = r + 2
      BY <2>9, <3>1
    <3>3. r + 2 \in Round /\ <<r, r + 2>> \in todo
      BY <2>9, <3>1
    <3>4. Known(o, r, {leader[r + 2]})
      BY <2>2, <3>3 DEF Sighted
    <3>5. /\ CoinDecide(o, r, r + 2)[i] = 2 => For1(r, i)
          /\ CoinDecide(o, r, r + 2)[i] = 1 => For0(r, i)
      BY <1>1, <2>5, <3>3, <3>4, CoinDecideSound
    <3> QED
      BY <2>6, <2>9, <3>2, <3>5
  <2> QED
    BY <2>7, <2>8, <2>9
<1> QED
  BY <1>2, <1>3

LEMMA TriggerSound ==
    ASSUME conn \in Graphs, leader \in Leaders,
           NEW o, RecordInv(o), NEW l \in Int, l >= 3
    PROVE  RecordInv(Trigger(o, l))
<1>1. o \in NodeState /\ o.DAG \subseteq All /\ Sound(o)
  BY DEF RecordInv
<1>2. Step(o, Trigger(o, l))
  BY <1>1, TriggerType
<1>3. Sound(Trigger(o, l))
  BY <1>1, tryCoinPassSound DEF Trigger
<1> QED
  BY <1>1, <1>2, <1>3 DEF RecordInv, Step

LEMMA addInDirectConnSound ==
    ASSUME conn \in Graphs, leader \in Leaders,
           NEW o, RecordInv(o), NEW v \in Vertex
    PROVE  RecordInv(addInDirectConn(o, v))
<1> DEFINE a == Supports(o, v)
           b == Leads(a, v)
           c == IsParent(b, v)
<1>1. CASE ~(v[1] >= 4)
  BY <1>1 DEF addInDirectConn
<1>2. CASE v[1] >= 4
  <2>1. /\ v[1] \in Int /\ v[1] - 1 \in Int /\ v[1] + 1 \in Int
        /\ v[1] - 1 >= 3 /\ v[1] >= 3 /\ v[1] + 1 >= 3
    BY <1>2, Numbers DEF Vertex, Round
  <2>2. RecordInv(a)
    BY <2>1, TriggerSound DEF Supports
  <2>3. RecordInv(b)
    <3> HIDE DEF a
    <3> QED
      BY <2>1, <2>2, TriggerSound DEF Leads
  <2>4. RecordInv(c)
    <3> HIDE DEF b
    <3> QED
      BY <2>1, <2>3, TriggerSound DEF IsParent
  <2>5. addInDirectConn(o, v) = c
    BY <1>2 DEF addInDirectConn
  <2> QED
    BY <2>4, <2>5
<1> QED
  BY <1>1, <1>2

LEMMA tryAddDAGSound ==
    ASSUME conn \in Graphs, leader \in Leaders,
           NEW o, RecordInv(o), NEW v \in All
    PROVE  RecordInv(tryAddDAG(o, v))
<1> DEFINE t == [o EXCEPT !.DAG = @ \cup {v}]
<1>1. v \in Vertex
  BY DecideAssumption DEF ValidGraph, All
<1>2. RecordInv(t)
  BY <1>1 DEF RecordInv, NodeState, Sound
<1> HIDE DEF t
<1>3. RecordInv(addDirectConn(t, v))
  BY <1>1, <1>2, addDirectConnType, addDirectConnSound DEF RecordInv
<1>4. tryAddDAG(o, v) = addInDirectConn(addDirectConn(t, v), v)
  BY DEF tryAddDAG, t
<1> QED
  BY <1>1, <1>3, <1>4, addInDirectConnSound

----------------------------------------------------------------------------
(***************************************************************************)
(* The two invariants: the types, and the grounds of the decisions.        *)
(***************************************************************************)
\* What Trigger is given when the next coin is taken.
TakenType ==
    \A p \in Observers : Draining(p) =>
        LET o == [node[p] EXCEPT !.coinRound = node[p].coinRound + 1]
        IN  /\ o \in NodeState /\ o.DAG = node[p].DAG
            /\ o.decideState2 = node[p].decideState2 /\ o.byPath = node[p].byPath
            /\ node[p].coinRound + 1 \in Int /\ node[p].coinRound + 1 >= 3

LEMMA TakenLemma == TypeOK => TakenType
<1> SUFFICES ASSUME TypeOK, NEW p \in Observers, Draining(p)
             PROVE  LET o == [node[p] EXCEPT !.coinRound = node[p].coinRound + 1]
                    IN  /\ o \in NodeState /\ o.DAG = node[p].DAG
                        /\ o.decideState2 = node[p].decideState2
                        /\ o.byPath = node[p].byPath
                        /\ node[p].coinRound + 1 \in Int /\ node[p].coinRound + 1 >= 3
  BY DEF TakenType
<1>1. node[p] \in NodeState
  BY DEF TypeOK
<1>2. /\ node[p].coinRound \in 2..MaxRound
      /\ node[p].coinRound + 1 \in 1..MaxRound
  BY <1>1 DEF NodeState, Draining, Round
<1> QED
  BY <1>1, <1>2, Numbers DEF NodeState

LEMMA InitType == Init => TypeOK
<1> SUFFICES ASSUME Init PROVE Blank \in NodeState
  BY DEF Init, TypeOK
<1> QED
  BY Numbers DEF Blank, NodeState

LEMMA NextType == TypeOK /\ [Next]_vars => TypeOK'
<1> SUFFICES ASSUME TypeOK, [Next]_vars PROVE TypeOK'
  OBVIOUS
<1> USE DEF TypeOK
<1>1. CASE UNCHANGED vars
  BY <1>1 DEF vars
<1>2. ASSUME NEW p \in Observers, NEW v \in DOMAIN conn, AddVertex(p, v) PROVE TypeOK'
  <2>1. v \in Vertex
    BY DecideAssumption DEF ValidGraph
  <2>2. tryAddDAG(node[p], v) \in NodeState
    BY <2>1, tryAddDAGType
  <2> QED
    BY <1>2, <2>2 DEF AddVertex
<1>3. ASSUME NEW p \in Observers, NEW r \in Round, ReceiveCoin(p, r) PROVE TypeOK'
  <2>1. [node[p] EXCEPT !.coinsBuffer = @ \cup {r}] \in NodeState
    BY DEF NodeState
  <2> QED
    BY <1>3, <2>1 DEF ReceiveCoin
<1>4. ASSUME NEW p \in Observers, TakeCoin(p) PROVE TypeOK'
  <2> DEFINE r == node[p].coinRound + 1
             o == [node[p] EXCEPT !.coinRound = r]
  <2>1. o \in NodeState /\ r \in Int /\ r >= 3
    BY <1>4, TakenLemma DEF TakenType, TakeCoin
  <2>2. node' = [node EXCEPT ![p] = Trigger(o, r)]
    BY <1>4 DEF TakeCoin
  <2> HIDE DEF o, r
  <2>3. Trigger(o, r) \in NodeState
    BY <2>1, TriggerType DEF Step
  <2> QED
    BY <1>4, <2>2, <2>3 DEF TakeCoin
<1> QED
  BY <1>1, <1>2, <1>3, <1>4 DEF Next

(***************************************************************************)
(* The decisions of a node stay decisions on the N vertices of each round, *)
(* whatever recursion coinPass goes through.                               *)
(***************************************************************************)
THEOREM TypeCorrect == Spec => []TypeOK
BY InitType, NextType, PTL DEF Spec

LEMMA InitSound == Init => IInv
<1> SUFFICES ASSUME Init PROVE IInv
  OBVIOUS
<1>1. TypeOK
  BY InitType
<1>2. Blank.DAG = {} /\ \A r \in Round : \A i \in Node : Blank.decideState2[r][i] = 0
  BY DEF Blank
<1>3. \A p \in Observers : node[p] = Blank
  BY DEF Init
<1> QED
  BY <1>1, <1>2, <1>3 DEF IInv, TypeOK, RecordInv, Sound

\* The grounds do not change: conn and leader do not.
LEMMA Fixed ==
    ASSUME conn' = conn, leader' = leader, NEW o, RecordInv(o)
    PROVE  RecordInv(o)'
BY DEF RecordInv, Sound, For1, For0, Ready, Linked, All, directSupport, tentativeReject

LEMMA NextSound == IInv /\ [Next]_vars => IInv'
<1> SUFFICES ASSUME IInv, [Next]_vars PROVE IInv'
  OBVIOUS
<1>1. TypeOK /\ TypeOK'
  BY NextType DEF IInv, TypeOK
<1>2. \A p \in Observers : RecordInv(node[p])
  BY DEF IInv
<1>3. conn' = conn /\ leader' = leader
  BY DEF Next, AddVertex, ReceiveCoin, TakeCoin, vars
<1>4. SUFFICES ASSUME NEW q \in Observers PROVE RecordInv(node'[q])
  <2>1. \A p \in Observers : RecordInv(node'[p])
    BY <1>4
  <2> QED
    BY <1>1, <1>3, <2>1, Fixed DEF IInv, TypeOK
<1>5. CASE UNCHANGED vars
  BY <1>2, <1>5 DEF vars
<1>6. ASSUME NEW p \in Observers, NEW v \in DOMAIN conn, AddVertex(p, v)
      PROVE  RecordInv(node'[q])
  <2>1. RecordInv(tryAddDAG(node[p], v))
    BY <1>1, <1>2, tryAddDAGSound DEF TypeOK, All
  <2> QED
    BY <1>1, <1>2, <1>6, <2>1 DEF AddVertex, TypeOK
<1>7. ASSUME NEW p \in Observers, NEW r \in Round, ReceiveCoin(p, r)
      PROVE  RecordInv(node'[q])
  <2>1. RecordInv([node[p] EXCEPT !.coinsBuffer = @ \cup {r}])
    BY <1>2 DEF RecordInv, NodeState, Sound
  <2> QED
    BY <1>1, <1>2, <1>7, <2>1 DEF ReceiveCoin, TypeOK
<1>8. ASSUME NEW p \in Observers, TakeCoin(p) PROVE RecordInv(node'[q])
  <2> DEFINE r == node[p].coinRound + 1
             o == [node[p] EXCEPT !.coinRound = r]
  <2>1. /\ o \in NodeState /\ o.DAG = node[p].DAG
        /\ o.decideState2 = node[p].decideState2 /\ o.byPath = node[p].byPath
        /\ r \in Int /\ r >= 3
    BY <1>1, <1>8, TakenLemma DEF TakenType, TakeCoin
  <2>2. node' = [node EXCEPT ![p] = Trigger(o, r)]
    BY <1>8 DEF TakeCoin
  <2> HIDE DEF o, r
  <2>3. RecordInv(o)
    BY <1>2, <2>1 DEF RecordInv, Sound
  <2>4. RecordInv(Trigger(o, r))
    BY <1>1, <2>1, <2>3, TriggerSound DEF TypeOK
  <2> QED
    BY <1>1, <1>2, <2>2, <2>4 DEF TypeOK
<1> QED
  BY <1>5, <1>6, <1>7, <1>8 DEF Next

LEMMA SoundHolds == Spec => []IInv
BY InitSound, NextSound, PTL DEF Spec

(***************************************************************************)
(* For any number of rounds and any order in which vertices and coins      *)
(* come: no two nodes decide a vertex of a round r differently, by the     *)
(* fast path or by the leader of round r+2.                                *)
(***************************************************************************)
THEOREM DecisionsAgree == Spec => []NearDecisionsAgree
<1>1. ASSUME IInv PROVE NearDecisionsAgree
  <2> SUFFICES ASSUME NEW p \in Observers, NEW q \in Observers,
                      NEW r \in Round, NEW i \in Node,
                      Near(p, r, i) # 0, Near(q, r, i) # 0
               PROVE  Near(p, r, i) = Near(q, r, i)
    BY DEF NearDecisionsAgree
  <2>1. \A x \in {p, q} : Near(x, r, i) # 0 =>
           /\ Near(x, r, i) = node[x].decideState2[r][i]
           /\ <<r, i>> \notin node[x].byPath
    BY DEF Near
  <2>2. \A x \in {p, q} :
           /\ Near(x, r, i) \in 1..2
           /\ Near(x, r, i) = 2 => For1(r, i)
           /\ Near(x, r, i) = 1 => For0(r, i)
    BY <1>1, <2>1 DEF IInv, RecordInv, Sound, NodeState
  <2>3. ~(For1(r, i) /\ For0(r, i))
    BY <1>1, Exclusive DEF IInv
  <2> QED
    BY <2>2, <2>3
<1> QED
  BY <1>1, SoundHolds, PTL

(***************************************************************************)
(* What N-F vertices of the whole DAG say of a vertex of round r is never  *)
(* decided against by the leader of round r+2, by a node that has seen few *)
(* of them.                                                                *)
(***************************************************************************)
THEOREM FastDecisionsAreFinal == Spec => []FastIsFinal
<1>1. ASSUME IInv PROVE FastIsFinal
  <2> SUFFICES ASSUME NEW p \in Observers, NEW r \in Round, NEW i \in Node
               PROVE  /\ Cardinality(directSupport(All, r, i)) >= N - F
                            => Near(p, r, i) # 1
                      /\ Cardinality(tentativeReject(All, r, i)) >= N - F
                            => Near(p, r, i) # 2
    BY DEF FastIsFinal, All
  <2>1. /\ Near(p, r, i) = 2 => For1(r, i)
        /\ Near(p, r, i) = 1 => For0(r, i)
    BY <1>1 DEF IInv, RecordInv, Sound, Near
  <2>2. ~(For1(r, i) /\ For0(r, i))
    BY <1>1, Exclusive DEF IInv
  <2> QED
    BY <2>1, <2>2 DEF For1, For0
<1> QED
  BY <1>1, SoundHolds, PTL

----------------------------------------------------------------------------
(***************************************************************************)
(* No function of node.go revises a decision: t keeps those of o, and how  *)
(* they were made.                                                         *)
(***************************************************************************)
Kept(o, t) ==
    \A r \in Round : \A i \in Node : o.decideState2[r][i] # 0 =>
        /\ t.decideState2[r][i] = o.decideState2[r][i]
        /\ <<r, i>> \in t.byPath <=> <<r, i>> \in o.byPath

LEMMA KeptSelf == \A o : Kept(o, o)
BY DEF Kept

LEMMA addDirectConnKeeps ==
    ASSUME NEW o \in NodeState, NEW v \in Vertex
    PROVE  Kept(o, addDirectConn(o, v))
<1> DEFINE r == v[1] - 1
           Fast(i) ==
               CASE i \in conn[v] /\ Cardinality(directSupport(o.DAG, r, i)) >= N - F -> 2
                 [] i \notin conn[v] /\ Cardinality(tentativeReject(o.DAG, r, i)) >= N - F -> 1
                 [] OTHER -> 0
           d == [i \in Node |-> IF o.decideState2[r][i] # 0 THEN o.decideState2[r][i] ELSE Fast(i)]
<1>1. addDirectConn(o, v) = o \/ addDirectConn(o, v) = [o EXCEPT !.decideState2[r] = d]
  BY DEF addDirectConn, Merge
<1>2. \A i \in Node : o.decideState2[r][i] # 0 => d[i] = o.decideState2[r][i]
  OBVIOUS
<1>3. o.decideState2 \in [Round -> [Node -> 0..2]]
  BY DEF NodeState
<1> HIDE DEF d
<1>4. addDirectConn(o, v).byPath = o.byPath
  BY <1>1 DEF NodeState
<1> QED
  BY <1>1, <1>2, <1>3, <1>4 DEF Kept, NodeState

LEMMA CloseKeeps ==
    ASSUME NEW o \in NodeState, NEW l \in Int, NEW todo
    PROVE  Kept(o, Close(o, l, todo))
<1> DEFINE t == Close(o, l, todo)
<1>1. CASE todo = {}
  BY <1>1 DEF Close, Kept
<1>2. CASE todo # {}
  <2>1. /\ t.decideState2 = DecidedAfter(o, todo)
        /\ t.byPath = o.byPath \cup FarDecided(o, todo)
    BY <1>2, CloseFields
  <2>2. ASSUME NEW r \in Round, NEW i \in Node, o.decideState2[r][i] # 0
        PROVE  /\ DecidedAfter(o, todo)[r][i] = o.decideState2[r][i]
               /\ <<r, i>> \notin FarDecided(o, todo)
    <3>1. \A k : CoinDecide(o, r, k)[i] = o.decideState2[r][i]
      BY <2>2 DEF CoinDecide, Merge
    <3>2. DecidedAfter(o, todo)[r][i] = o.decideState2[r][i]
      BY <3>1 DEF DecidedAfter
    <3>3. <<r, i>> \notin FarDecided(o, todo)
      BY <2>2 DEF FarDecided
    <3> QED
      BY <3>2, <3>3
  <2> HIDE DEF t
  <2> QED
    BY <2>1, <2>2 DEF Kept, t
<1> QED
  BY <1>1, <1>2

LEMMA TriggerKeeps ==
    ASSUME NEW o \in NodeState, NEW l \in Int
    PROVE  Kept(o, Trigger(o, l))
BY CloseKeeps DEF Trigger, tryCoinPass, Kept

LEMMA addInDirectConnKeeps ==
    ASSUME NEW o \in NodeState, NEW v \in Vertex
    PROVE  Kept(o, addInDirectConn(o, v))
<1> DEFINE a == Supports(o, v)
           b == Leads(a, v)
           c == IsParent(b, v)
<1>1. CASE ~(v[1] >= 4)
  BY <1>1 DEF addInDirectConn, Kept
<1>2. CASE v[1] >= 4
  <2>1. /\ v[1] \in Int /\ v[1] - 1 \in Int /\ v[1] + 1 \in Int
        /\ v[1] - 1 >= 3 /\ v[1] >= 3 /\ v[1] + 1 >= 3
    BY <1>2, Numbers DEF Vertex, Round
  <2>2. a \in NodeState /\ Kept(o, a)
    BY <2>1, TriggerType, TriggerKeeps DEF Supports, Step
  <2>3. b \in NodeState /\ Kept(a, b)
    <3> HIDE DEF a
    <3> QED
      BY <2>1, <2>2, TriggerType, TriggerKeeps, KeptSelf DEF Leads, Step
  <2>4. Kept(b, c)
    <3> HIDE DEF b
    <3> QED
      BY <2>1, <2>3, TriggerKeeps, KeptSelf DEF IsParent
  <2>5. addInDirectConn(o, v) = c
    BY <1>2 DEF addInDirectConn
  <2> HIDE DEF a, b, c
  <2> QED
    BY <2>2, <2>3, <2>4, <2>5 DEF Kept
<1> QED
  BY <1>1, <1>2

LEMMA tryAddDAGKeeps ==
    ASSUME NEW o \in NodeState, NEW v \in Vertex
    PROVE  Kept(o, tryAddDAG(o, v))
<1> DEFINE t == [o EXCEPT !.DAG = @ \cup {v}]
<1>1. t \in NodeState /\ t.decideState2 = o.decideState2 /\ t.byPath = o.byPath
  BY DEF NodeState
<1>2. tryAddDAG(o, v) = addInDirectConn(addDirectConn(t, v), v)
  BY DEF tryAddDAG
<1> HIDE DEF t
<1>3. addDirectConn(t, v) \in NodeState /\ Kept(t, addDirectConn(t, v))
  BY <1>1, addDirectConnType, addDirectConnKeeps
<1>4. Kept(addDirectConn(t, v), addInDirectConn(addDirectConn(t, v), v))
  BY <1>3, addInDirectConnKeeps
<1> QED
  BY <1>1, <1>2, <1>3, <1>4 DEF Kept

\* A step changes one node, and that node keeps its decisions.
LEMMA NextKeeps ==
    ASSUME TypeOK, Next
    PROVE  \E p \in Observers : \E t \in NodeState : node' = [node EXCEPT ![p] = t] /\ Kept(node[p], t)
<1>0. node \in [Observers -> NodeState]
  BY DEF TypeOK
<1>1. ASSUME NEW p \in Observers, NEW v \in DOMAIN conn, AddVertex(p, v)
      PROVE  \E t \in NodeState : node' = [node EXCEPT ![p] = t] /\ Kept(node[p], t)
  <2>1. v \in Vertex
    BY DecideAssumption DEF ValidGraph, TypeOK
  <2>2. tryAddDAG(node[p], v) \in NodeState /\ Kept(node[p], tryAddDAG(node[p], v))
    BY <1>0, <2>1, tryAddDAGType, tryAddDAGKeeps
  <2>3. node' = [node EXCEPT ![p] = tryAddDAG(node[p], v)]
    BY <1>1 DEF AddVertex
  <2> QED
    BY <2>2, <2>3
<1>2. ASSUME NEW p \in Observers, NEW r \in Round, ReceiveCoin(p, r)
      PROVE  \E t \in NodeState : node' = [node EXCEPT ![p] = t] /\ Kept(node[p], t)
  <2> DEFINE t == [node[p] EXCEPT !.coinsBuffer = @ \cup {r}]
  <2>1. t \in NodeState /\ t.decideState2 = node[p].decideState2 /\ t.byPath = node[p].byPath
    BY <1>0 DEF NodeState
  <2>2. node' = [node EXCEPT ![p] = t]
    BY <1>2 DEF ReceiveCoin
  <2> QED
    BY <2>1, <2>2 DEF Kept
<1>3. ASSUME NEW p \in Observers, TakeCoin(p)
      PROVE  \E t \in NodeState : node' = [node EXCEPT ![p] = t] /\ Kept(node[p], t)
  <2> DEFINE r == node[p].coinRound + 1
             o == [node[p] EXCEPT !.coinRound = r]
  <2>1. /\ o \in NodeState /\ o.decideState2 = node[p].decideState2
        /\ o.byPath = node[p].byPath /\ r \in Int /\ r >= 3
    BY <1>3, TakenLemma DEF TakenType, TakeCoin
  <2>2. node' = [node EXCEPT ![p] = Trigger(o, r)]
    BY <1>3 DEF TakeCoin
  <2> HIDE DEF o, r
  <2>3. Trigger(o, r) \in NodeState /\ Kept(o, Trigger(o, r))
    BY <2>1, TriggerType, TriggerKeeps DEF Step
  <2>4. Kept(node[p], Trigger(o, r))
    BY <2>1, <2>3 DEF Kept
  <2> QED
    BY <2>2, <2>3, <2>4
<1> QED
  BY <1>1, <1>2, <1>3 DEF Next

\* What the node knows of a vertex, and that a step does not change it.
NearOf(o, r, i) == IF <<r, i>> \in o.byPath THEN 0 ELSE o.decideState2[r][i]

LEMMA NearType ==
    ASSUME TypeOK, NEW p \in Observers, NEW r \in Round, NEW i \in Node
    PROVE  Near(p, r, i) \in 0..2 /\ Near(p, r, i) = NearOf(node[p], r, i)
BY DEF TypeOK, NodeState, Near, NearOf

LEMMA NearKept ==
    ASSUME NEW o, NEW t, Kept(o, t), NEW r \in Round, NEW i \in Node, NearOf(o, r, i) # 0
    PROVE  NearOf(t, r, i) = NearOf(o, r, i)
BY DEF Kept, NearOf

\* With agreement a vertex that any node has decided has that outcome.
OutcomeOf(r, i) ==
    /\ outcomes[r][i] \in 0..2
    /\ \A p \in Observers : Near(p, r, i) # 0 => outcomes[r][i] = Near(p, r, i)
    /\ outcomes[r][i] # 0 => \E p \in Observers : Near(p, r, i) = outcomes[r][i]

OutcomeOK == \A r \in Round : \A i \in Node : OutcomeOf(r, i)

LEMMA OutcomeIsDecision == TypeOK /\ NearDecisionsAgree => OutcomeOK
<1> SUFFICES ASSUME TypeOK, NearDecisionsAgree, NEW r \in Round, NEW i \in Node
             PROVE  OutcomeOf(r, i)
  BY DEF OutcomeOK
<1> USE DEF OutcomeOf
<1>1. \A p \in Observers : Near(p, r, i) \in 0..2
  BY NearType
<1>2. CASE DecidedBy(r, i) = {}
  <2>1. outcomes[r][i] = 0
    BY <1>2 DEF outcomes
  <2>2. \A p \in Observers : Near(p, r, i) = 0
    BY <1>2 DEF DecidedBy
  <2> QED
    BY <2>1, <2>2
<1>3. CASE DecidedBy(r, i) # {}
  <2>1. PICK p \in DecidedBy(r, i) : p = CHOOSE q \in DecidedBy(r, i) : TRUE
    BY <1>3
  <2>2. outcomes[r][i] = Near(p, r, i)
    BY <1>3, <2>1 DEF outcomes
  <2>3. p \in Observers /\ Near(p, r, i) # 0
    BY <2>1 DEF DecidedBy
  <2> QED
    BY <1>1, <2>2, <2>3 DEF NearDecisionsAgree
<1> QED
  BY <1>2, <1>3

LEMMA InitOutcome == Init => O!Init
<1> SUFFICES ASSUME Init PROVE O!Init
  OBVIOUS
<1>1. \A p \in Observers : \A r \in Round : \A i \in Node : Near(p, r, i) = 0
  BY DEF Init, Blank, Near
<1>2. \A r \in Round : \A i \in Node : DecidedBy(r, i) = {}
  BY <1>1 DEF DecidedBy
<1>3. outcomes = O!Nothing
  BY <1>2 DEF O!Nothing, outcomes
<1>4. decisions = [p \in Observers |-> O!Nothing]
  BY <1>1 DEF O!Nothing, decisions
<1> QED
  BY <1>3, <1>4 DEF O!Init

LEMMA NextOutcome ==
    ASSUME TypeOK, TypeOK', NearDecisionsAgree, NearDecisionsAgree', [Next]_vars
    PROVE  [O!Next]_(O!vars)
<1>0. \A p \in Observers : \A r \in Round : \A i \in Node :
         /\ decisions[p][r][i] = Near(p, r, i)
         /\ decisions'[p][r][i] = Near(p, r, i)'
  BY DEF decisions
<1>1. CASE decisions' = decisions
  <2>1. \A p \in Observers : \A r \in Round : \A i \in Node :
           Near(p, r, i)' = Near(p, r, i)
    BY <1>0, <1>1
  <2>2. \A r \in Round : \A i \in Node : DecidedBy(r, i)' = DecidedBy(r, i)
    BY <2>1 DEF DecidedBy
  <2>3. ASSUME NEW r \in Round, NEW i \in Node
        PROVE  outcomes'[r][i] = outcomes[r][i]
    <3>1. CASE DecidedBy(r, i) = {}
      BY <2>2, <3>1 DEF outcomes
    <3>2. CASE DecidedBy(r, i) # {}
      <4>1. PICK p \in DecidedBy(r, i) : p = CHOOSE q \in DecidedBy(r, i) : TRUE
        BY <3>2
      <4>2. outcomes[r][i] = Near(p, r, i)
        BY <3>2, <4>1 DEF outcomes
      <4>3. p = CHOOSE q \in DecidedBy(r, i)' : TRUE
        BY <2>2, <4>1
      <4>4. outcomes'[r][i] = Near(p, r, i)'
        BY <2>2, <3>2, <4>3 DEF outcomes
      <4>5. p \in Observers
        BY DEF DecidedBy
      <4> QED
        BY <2>1, <4>2, <4>4, <4>5
    <3> QED
      BY <3>1, <3>2
  <2>4. outcomes' = outcomes
    BY <2>3 DEF outcomes
  <2> QED
    BY <1>1, <2>4 DEF O!vars
<1>2. CASE decisions' # decisions
  <2>0. OutcomeOK'
    BY OutcomeIsDecision, PTL
  <2>1. Next
    BY <1>2 DEF vars, decisions, Near
  <2>2. PICK p \in Observers, t \in NodeState :
           node' = [node EXCEPT ![p] = t] /\ Kept(node[p], t)
    BY <2>1, NextKeeps
  <2> DEFINE learnt == decisions'[p]
  <2>3. /\ node \in [Observers -> NodeState] /\ node' \in [Observers -> NodeState]
        /\ node'[p] = t /\ \A q \in Observers \ {p} : node'[q] = node[q]
    BY <2>2 DEF TypeOK
  <2>4. ASSUME NEW r \in Round, NEW i \in Node
        PROVE  /\ learnt[r][i] = Near(p, r, i)' /\ learnt[r][i] \in 0..2
               /\ Near(p, r, i) # 0 => learnt[r][i] = Near(p, r, i)
               /\ \A q \in Observers \ {p} : Near(q, r, i)' = Near(q, r, i)
    <3>1. learnt[r][i] = NearOf(t, r, i)
      BY <1>0, <2>3 DEF Near, NearOf
    <3>2. Near(p, r, i) = NearOf(node[p], r, i)
      BY DEF Near, NearOf
    <3>3. NearOf(t, r, i) \in 0..2
      BY DEF NearOf, NodeState
    <3>4. Near(p, r, i) # 0 => learnt[r][i] = Near(p, r, i)
      BY <2>2, <3>1, <3>2, NearKept
    <3>5. \A q \in Observers \ {p} : Near(q, r, i)' = Near(q, r, i)
      BY <2>3 DEF Near
    <3>6. learnt[r][i] = Near(p, r, i)'
      BY <1>0
    <3> QED
      BY <3>1, <3>3, <3>4, <3>5, <3>6
  <2>5. decisions' = [decisions EXCEPT ![p] = learnt]
    <3>1. ASSUME NEW q \in Observers \ {p} PROVE decisions'[q] = decisions[q]
      BY <2>4 DEF decisions
    <3> HIDE DEF learnt
    <3> QED
      BY <3>1 DEF decisions, learnt
  <2>6. learnt # decisions[p]
    BY <1>2, <2>5 DEF decisions
  <2>7. learnt \in [Round -> [Node -> 0..2]]
    <3>1. learnt = [r \in Round |-> [i \in Node |-> Near(p, r, i)']]
      BY DEF decisions
    <3> HIDE DEF learnt
    <3> QED
      BY <2>4, <3>1
  <2>8. outcomes' \in [Round -> [Node -> 0..2]]
    <3>1. \A r \in Round : \A i \in Node : outcomes'[r][i] \in 0..2
      BY <2>0 DEF OutcomeOK, OutcomeOf
    <3> QED
      BY <3>1 DEF outcomes
  <2>9. ASSUME NEW r \in Round, NEW i \in Node
        PROVE  /\ decisions[p][r][i] # 0 => learnt[r][i] = decisions[p][r][i]
               /\ learnt[r][i] \in {0, outcomes'[r][i]}
               /\ outcomes'[r][i] = IF outcomes[r][i] # 0 THEN outcomes[r][i] ELSE learnt[r][i]
    <3>1. decisions[p][r][i] # 0 => learnt[r][i] = decisions[p][r][i]
      BY <1>0, <2>4
    <3>2. OutcomeOf(r, i)
      BY OutcomeIsDecision DEF OutcomeOK
    <3>3. /\ \A q \in Observers : Near(q, r, i)' # 0 => outcomes'[r][i] = Near(q, r, i)'
          /\ outcomes'[r][i] # 0 => \E q \in Observers : Near(q, r, i)' = outcomes'[r][i]
      BY <2>0 DEF OutcomeOK, OutcomeOf
    <3> USE DEF OutcomeOf
    <3>4. learnt[r][i] = Near(p, r, i)'
      BY <2>4
    <3>5. learnt[r][i] \in {0, outcomes'[r][i]}
      BY <3>3, <3>4
    <3>6. CASE outcomes[r][i] # 0
      <4>1. PICK q \in Observers : Near(q, r, i) = outcomes[r][i]
        BY <3>2, <3>6
      <4>2. Near(q, r, i)' = outcomes[r][i]
        BY <2>4, <3>4, <3>6, <4>1
      <4> QED
        BY <3>1, <3>3, <3>5, <3>6, <4>2
    <3>7. CASE outcomes[r][i] = 0
      <4>1. \A q \in Observers \ {p} : Near(q, r, i)' = 0
        BY <2>4, <3>2, <3>7
      <4>2. outcomes'[r][i] = learnt[r][i]
        BY <3>3, <3>4, <4>1
      <4> QED
        BY <3>1, <3>5, <3>7, <4>2
    <3> QED
      BY <3>6, <3>7
  <2>10. O!Learn(p)
    <3> HIDE DEF learnt
    <3> QED
      BY <2>5, <2>6, <2>7, <2>8, <2>9 DEF O!Learn, O!Decisions, learnt
  <2> QED
    BY <2>10 DEF O!Next
<1> QED
  BY <1>1, <1>2

(***************************************************************************)
(* For any number of rounds the fast path and the coins of the next round  *)
(* but one implement one outcome for each vertex: a node only learns       *)
(* outcomes, and no decision is ever revised, nor how it was made.         *)
(***************************************************************************)
THEOREM ImplementsOutcome == Spec => O!Init /\ OneOutcome
<1>1. Spec => []TypeOK /\ []NearDecisionsAgree
  BY TypeCorrect, DecisionsAgree, PTL
<1> QED
  BY <1>1, InitOutcome, NextOutcome, PTL DEF Spec, OneOutcome

----------------------------------------------------------------------------
(***************************************************************************)
(* The rounds that coinPass decides when it goes back.                     *)
(***************************************************************************)
\* The rounds of the parity of r that are open before r.
Open(o, r) == {q \in Round : q % 2 = r % 2 /\ Closed(o, r) < q /\ q < r}

\* Each of them is decided by a leader.
Decides(todo, R) == \A q \in R : \E k \in Round : <<q, k>> \in todo

Parities(o) == o.FirstRound % 2 = 1 /\ o.SecondRound % 2 = 0

LEMMA ClosedParity ==
    ASSUME NEW o \in NodeState, Parities(o), NEW r \in Int
    PROVE  /\ Closed(o, r) \in Int /\ Closed(o, r) >= -1 /\ Closed(o, r) % 2 = r % 2
           /\ Closed(o, r - 2) = Closed(o, r)
BY DEF Closed, Parities, NodeState

\* Round r-2 is the first open one, or there are more before it.
LEMMA OpenRounds ==
    ASSUME NEW o \in NodeState, Parities(o), NEW r \in Int, r - 2 \in Round
    PROVE  /\ NothingBefore(o, r - 2) => Open(o, r) \subseteq {r - 2}
           /\ Open(o, r) \subseteq Open(o, r - 2) \cup {r - 2}
<1>1. /\ Closed(o, r) \in Int /\ Closed(o, r) % 2 = r % 2
      /\ Closed(o, r - 2) = Closed(o, r)
  BY ClosedParity
<1> DEFINE c == Closed(o, r)
<1> HIDE DEF c
<1>2. ASSUME NEW q \in Open(o, r) PROVE q \in Round /\ q % 2 = r % 2 /\ c < q /\ q <= r - 2
  <2>1. q \in Round /\ q \in Int /\ q >= 1 /\ q % 2 = r % 2 /\ c < q /\ q < r
    BY DEF Open, Round, c
  <2>2. q <= r - 2
    BY <2>1
  <2> QED
    BY <2>1, <2>2
<1>3. ASSUME NothingBefore(o, r - 2), NEW q \in Open(o, r) PROVE q = r - 2
  <2>1. r - 2 <= 2 \/ r - 2 = c + 2
    BY <1>1, <1>3 DEF NothingBefore, c
  <2>2. q \in Int /\ q >= 1 /\ q % 2 = r % 2 /\ c < q /\ q <= r - 2 /\ c \in Int /\ c % 2 = r % 2
    BY <1>1, <1>2 DEF Round, c
  <2> QED
    BY <2>1, <2>2
<1>4. ASSUME NEW q \in Open(o, r), q # r - 2 PROVE q \in Open(o, r - 2)
  <2>1. (r - 2) % 2 = r % 2
    OBVIOUS
  <2>2. q \in Round /\ q % 2 = r % 2 /\ c < q /\ q < r - 2
    BY <1>2, <1>4 DEF Round
  <2> QED
    BY <1>1, <2>1, <2>2 DEF Open, c
<1> QED
  BY <1>3, <1>4

\* One call decides the round before and what the next call decides.
LEMMA ByDecides ==
    ASSUME NEW o \in NodeState, Parities(o), NEW f, NEW r \in Round, NEW k \in Round, NEW W,
           \A c \in Calls : c[1] = r - 2 /\ f[c] # {} => Decides(f[c], Open(o, r - 2)),
           By(o, f, r, k, W) # {}
    PROVE  Decides(By(o, f, r, k, W), Open(o, r))
<1>1. r \in Int /\ r >= 1 /\ r <= MaxRound /\ MaxRound \in Nat
  BY Numbers DEF Round
<1>2. Known(o, r - 2, W)
  BY DEF By
<1>3. CASE r - 2 \notin Round
  <2>1. Open(o, r) = {}
    <3> SUFFICES ASSUME NEW q \in Open(o, r) PROVE FALSE
      OBVIOUS
    <3>1. q \in Int /\ q >= 1 /\ q % 2 = r % 2 /\ q < r
      BY DEF Open, Round
    <3>2. r <= 2
      BY <1>1, <1>3 DEF Round
    <3> QED
      BY <1>1, <3>1, <3>2
  <2> QED
    BY <2>1 DEF Decides
<1>4. CASE r - 2 \in Round /\ NothingBefore(o, r - 2)
  <2>1. By(o, f, r, k, W) = {<<r - 2, k>>}
    BY <1>2, <1>4 DEF By
  <2> QED
    BY <1>1, <1>4, <2>1, OpenRounds DEF Decides
<1>5. CASE r - 2 \in Round /\ ~NothingBefore(o, r - 2)
  <2> DEFINE c == <<r - 2, k, W>>
  <2>1. By(o, f, r, k, W) = Then(f[c], r - 2, k)
    BY <1>2, <1>5 DEF By
  <2>2. W \in SUBSET Node
    BY <1>1, <1>2, KnownIsNode
  <2>3. c \in Calls /\ c[1] = r - 2
    BY <1>5, <2>2 DEF Calls
  <2> HIDE DEF c
  <2>4. f[c] # {} /\ By(o, f, r, k, W) = f[c] \cup {<<r - 2, k>>}
    BY <2>1 DEF Then
  <2>5. Decides(f[c], Open(o, r - 2))
    BY <2>3, <2>4
  <2>6. Open(o, r) \subseteq Open(o, r - 2) \cup {r - 2}
    BY <1>1, <1>5, OpenRounds
  <2> QED
    BY <2>4, <2>5, <2>6 DEF Decides
<1> QED
  BY <1>3, <1>4, <1>5

LEMMA PlanDecides ==
    ASSUME NEW o \in NodeState, Parities(o), NEW f, \A c \in Calls : f[c] = PlanAt(o, f, c)
    PROVE  \A c \in Calls : f[c] # {} => Decides(f[c], Open(o, c[1]))
<1> DEFINE T == {r \in Nat : \E c \in Calls : /\ c[1] = r /\ f[c] # {}
                                              /\ ~Decides(f[c], Open(o, r))}
<1>1. T \in SUBSET Nat
  OBVIOUS
<1>2. ASSUME NEW r \in T, \A m \in T : r <= m PROVE FALSE
  <2>1. PICK c \in Calls : c[1] = r /\ f[c] # {} /\ ~Decides(f[c], Open(o, r))
    OBVIOUS
  <2>2. r \in Round /\ c[2] \in Round /\ r \in Int /\ r >= 1
    BY <2>1 DEF Calls, Round
  <2>3. ASSUME NEW d \in Calls, d[1] = r - 2, f[d] # {} PROVE Decides(f[d], Open(o, r - 2))
    <3>1. r - 2 \in Nat
      BY <2>2, <2>3 DEF Calls, Round
    <3> DEFINE m == r - 2
    <3>2. m \in Nat /\ ~(r <= m)
      BY <2>2, <3>1
    <3> HIDE DEF m
    <3>3. m \notin T
      BY <1>2, <3>2
    <3> QED
      BY <2>3, <3>2, <3>3 DEF m
  <2> HIDE DEF T
  <2>4. f[c] = By(o, f, r, r, {leader[r]}) \/ f[c] = By(o, f, r, c[2], Back(r, c[3]))
    BY <2>1 DEF PlanAt
  <2>5. \A d \in Calls : d[1] = r - 2 /\ f[d] # {} => Decides(f[d], Open(o, r - 2))
    BY <2>3
  <2>6. ASSUME NEW k \in Round, NEW W, f[c] = By(o, f, r, k, W) PROVE Decides(f[c], Open(o, r))
    <3>1. By(o, f, r, k, W) # {}
      BY <2>1, <2>6
    <3>2. Decides(By(o, f, r, k, W), Open(o, r))
      BY <2>2, <2>5, <3>1, ByDecides
    <3> QED
      BY <2>6, <3>2
  <2> QED
    BY <2>1, <2>2, <2>4, <2>6
<1> HIDE DEF T
<1>3. T = {}
  BY <1>1, <1>2, LeastNat
<1> SUFFICES ASSUME NEW c \in Calls, f[c] # {}, ~Decides(f[c], Open(o, c[1])) PROVE FALSE
  OBVIOUS
<1>4. c[1] \in Nat
  BY DEF Calls, Round
<1> QED
  BY <1>3, <1>4 DEF T

\* What the leader of round l lets coinPass decide leaves nothing open before l.
LEMMA coinPassDecides ==
    ASSUME NEW o \in NodeState, Parities(o), NEW l \in Round, l >= 3, coinPass(o, l) # {}
    PROVE  Decides(coinPass(o, l), Open(o, l))
<1>1. /\ Known(o, l - 2, {leader[l]})
      /\ coinPass(o, l) = IF NothingBefore(o, l - 2) THEN {<<l - 2, l>>}
                          ELSE Then(Before(o, l - 2, l, {leader[l]}), l - 2, l)
  BY DEF coinPass
<1>2. l \in Int /\ l - 2 \in Round
  BY Numbers DEF Round
<1>3. CASE NothingBefore(o, l - 2)
  BY <1>1, <1>2, <1>3, OpenRounds DEF Decides
<1>4. CASE ~NothingBefore(o, l - 2)
  <2> DEFINE c == <<l - 2, l, {leader[l]}>>
  <2>1. PICK f : /\ \A d \in Calls : f[d] = PlanAt(o, f, d)
                 /\ Before(o, l - 2, l, {leader[l]}) = f[c]
    <3> DEFINE V == {leader[l]}
    <3> HIDE DEF V
    <3>1. \E f : /\ \A d \in Calls : f[d] = PlanAt(o, f, d)
                 /\ Before(o, l - 2, l, V) = f[<<l - 2, l, V>>]
      BY BeforeIsPlan
    <3> QED
      BY <3>1 DEF V
  <2>2. {leader[l]} \in SUBSET Node
    BY <1>1, <1>2, KnownIsNode
  <2>3. c \in Calls /\ c[1] = l - 2
    BY <1>2, <2>2 DEF Calls
  <2>4. coinPass(o, l) = Then(f[c], l - 2, l)
    BY <1>1, <1>4, <2>1
  <2> HIDE DEF c
  <2>5. f[c] # {} /\ coinPass(o, l) = f[c] \cup {<<l - 2, l>>}
    BY <2>4 DEF Then
  <2>6. Decides(f[c], Open(o, l - 2))
    BY <2>1, <2>3, <2>5, PlanDecides
  <2> QED
    BY <1>2, <2>5, <2>6, OpenRounds DEF Decides
<1> QED
  BY <1>3, <1>4

----------------------------------------------------------------------------
(***************************************************************************)
(* What is closed stays decided, and what is closed anew is decided.       *)
(***************************************************************************)
Settled(o) ==
    \A r \in Round : r <= Closed(o, r) => \A i \in Node : o.decideState2[r][i] # 0

SettledInv(o) == o \in NodeState /\ Parities(o) /\ Settled(o)

\* Nothing is closed, no decision is lost.
LEMMA SettledStays ==
    ASSUME NEW o, SettledInv(o), NEW t \in NodeState, Kept(o, t),
           t.FirstRound = o.FirstRound, t.SecondRound = o.SecondRound
    PROVE  SettledInv(t)
<1>1. \A r : Closed(t, r) = Closed(o, r)
  BY DEF Closed
<1>2. Settled(t)
  BY <1>1 DEF SettledInv, Settled, Kept
<1> QED
  BY <1>2 DEF SettledInv, Parities

LEMMA CoinDecides ==
    ASSUME NEW o \in NodeState, NEW r, NEW l, NEW i \in Node
    PROVE  CoinDecide(o, r, l)[i] # 0
<1> DEFINE C(j) == IF Cardinality({id \in directSupport(o.DAG, r, j) :
                                     Path(o.DAG, r + 1, id, l, leader[l])}) >= F + 1
                   THEN 2 ELSE 1
<1>1. CoinDecide(o, r, l)[i] = IF o.decideState2[r][i] # 0 THEN o.decideState2[r][i] ELSE C(i)
  BY DEF CoinDecide, Merge
<1>2. C(i) # 0
  OBVIOUS
<1> HIDE DEF C
<1> QED
  BY <1>1, <1>2

LEMMA tryCoinPassSettles ==
    ASSUME NEW o, SettledInv(o), NEW l \in Int, l >= 3
    PROVE  SettledInv(tryCoinPass(o, l))
<1> DEFINE t == tryCoinPass(o, l)
           todo == coinPass(o, l)
           decided == DecidedAfter(o, todo)
<1>1. o \in NodeState /\ Parities(o) /\ Settled(o)
  BY DEF SettledInv
<1>2. CASE l > o.coinRound \/ todo = {}
  BY <1>2 DEF tryCoinPass, Close
<1>3. CASE ~(l > o.coinRound \/ todo = {})
  <2>1. l \in Round
    BY <1>1, <1>3, Numbers DEF NodeState, Round
  <2>2. Decides(todo, Open(o, l))
    BY <1>1, <1>3, <2>1, coinPassDecides
  <2>3. t = Close(o, l, todo)
    BY <1>3 DEF tryCoinPass
  <2>4. t \in NodeState
    BY <1>1, tryCoinPassType
  <2>5. ASSUME NEW r \in Round, NEW i \in Node,
               o.decideState2[r][i] # 0 \/ \E k \in Round : <<r, k>> \in todo
        PROVE  decided[r][i] # 0
    <3>1. CASE \E k \in Round : <<r, k>> \in todo
      BY <1>1, <3>1, CoinDecides DEF DecidedAfter
    <3>2. CASE ~\E k \in Round : <<r, k>> \in todo
      BY <2>5, <3>2 DEF DecidedAfter
    <3> QED
      BY <3>1, <3>2
  <2> HIDE DEF decided
  <2>6. /\ t.decideState2 = decided
        /\ l % 2 = 1 => t.FirstRound = l - 2 /\ t.SecondRound = o.SecondRound
        /\ l % 2 # 1 => t.FirstRound = o.FirstRound /\ t.SecondRound = l - 2
    <3>1. todo # {}
      BY <1>3
    <3> HIDE DEF todo, t
    <3>2. /\ Close(o, l, todo).decideState2 = DecidedAfter(o, todo)
          /\ Close(o, l, todo).FirstRound = (IF l % 2 = 1 THEN l - 2 ELSE o.FirstRound)
          /\ Close(o, l, todo).SecondRound = (IF l % 2 = 1 THEN o.SecondRound ELSE l - 2)
      BY <1>1, <3>1, CloseFields
    <3> QED
      BY <2>3, <3>2 DEF decided
  <2> HIDE DEF t
  <2>7. l % 2 = 1 \/ l % 2 = 0
    OBVIOUS
  <2>8. Parities(t)
    BY <1>1, <2>6, <2>7 DEF Parities
  <2>9. ASSUME NEW r \in Round, r <= Closed(t, r), NEW i \in Node PROVE decided[r][i] # 0
    <3>1. r \in Int /\ (r % 2 = 1 \/ r % 2 = 0)
      BY DEF Round
    <3>2. CASE r <= Closed(o, r)
      BY <1>1, <2>5, <3>2 DEF Settled
    <3>3. CASE ~(r <= Closed(o, r))
      <4>1. Closed(t, r) = l - 2 /\ r % 2 = l % 2 /\ Closed(o, r) = Closed(o, l)
        BY <2>6, <2>7, <2>9, <3>1, <3>3 DEF Closed
      <4>2. Closed(o, l) \in Int
        BY <1>1, ClosedParity
      <4>3. r \in Open(o, l)
        BY <2>9, <3>1, <3>3, <4>1, <4>2 DEF Open
      <4> QED
        BY <2>2, <2>5, <4>3 DEF Decides
    <3> QED
      BY <3>2, <3>3
  <2>10. Settled(t)
    BY <2>6, <2>9 DEF Settled
  <2> QED
    BY <2>4, <2>8, <2>10 DEF SettledInv, t
<1> QED
  BY <1>2, <1>3

LEMMA TriggerSettles ==
    ASSUME NEW o, SettledInv(o), NEW l \in Int, l >= 3
    PROVE  SettledInv(Trigger(o, l))
BY tryCoinPassSettles DEF Trigger

LEMMA addInDirectConnSettles ==
    ASSUME NEW o, SettledInv(o), NEW v \in Vertex
    PROVE  SettledInv(addInDirectConn(o, v))
<1> DEFINE a == Supports(o, v)
           b == Leads(a, v)
           c == IsParent(b, v)
<1>1. CASE ~(v[1] >= 4)
  BY <1>1 DEF addInDirectConn
<1>2. CASE v[1] >= 4
  <2>1. /\ v[1] \in Int /\ v[1] - 1 \in Int /\ v[1] + 1 \in Int
        /\ v[1] - 1 >= 3 /\ v[1] >= 3 /\ v[1] + 1 >= 3
    BY <1>2, Numbers DEF Vertex, Round
  <2>2. SettledInv(a)
    BY <2>1, TriggerSettles DEF Supports
  <2>3. SettledInv(b)
    <3> HIDE DEF a
    <3> QED
      BY <2>1, <2>2, TriggerSettles DEF Leads
  <2>4. SettledInv(c)
    <3> HIDE DEF b
    <3> QED
      BY <2>1, <2>3, TriggerSettles DEF IsParent
  <2>5. addInDirectConn(o, v) = c
    BY <1>2 DEF addInDirectConn
  <2> HIDE DEF a, b, c
  <2> QED
    BY <2>4, <2>5
<1> QED
  BY <1>1, <1>2

LEMMA tryAddDAGSettles ==
    ASSUME NEW o, SettledInv(o), NEW v \in Vertex
    PROVE  SettledInv(tryAddDAG(o, v))
<1> DEFINE n == [o EXCEPT !.DAG = @ \cup {v}]
           t == addDirectConn(n, v)
<1>1. o \in NodeState
  BY DEF SettledInv
<1>2. /\ n \in NodeState /\ n.decideState2 = o.decideState2 /\ n.byPath = o.byPath
      /\ n.FirstRound = o.FirstRound /\ n.SecondRound = o.SecondRound
  BY <1>1 DEF NodeState
<1>3. SettledInv(n)
  <2> HIDE DEF n
  <2> QED
    BY <1>2, SettledStays DEF Kept
<1> HIDE DEF n
<1>4. t \in NodeState /\ Kept(n, t)
  BY <1>2, addDirectConnType, addDirectConnKeeps
<1>5. t.FirstRound = n.FirstRound /\ t.SecondRound = n.SecondRound
  <2>1. t = n \/ \E d : t = [n EXCEPT !.decideState2 = d]
    BY DEF addDirectConn
  <2> HIDE DEF t
  <2> QED
    BY <1>2, <2>1 DEF NodeState
<1> HIDE DEF t
<1>6. SettledInv(t)
  BY <1>3, <1>4, <1>5, SettledStays
<1>7. tryAddDAG(o, v) = addInDirectConn(t, v)
  BY DEF tryAddDAG, n, t
<1> QED
  BY <1>6, <1>7, addInDirectConnSettles

ClosedInv == \A p \in Observers : SettledInv(node[p])

LEMMA InitSettled == Init => ClosedInv
<1> SUFFICES ASSUME Init, NEW p \in Observers PROVE SettledInv(node[p])
  BY DEF ClosedInv
<1>1. node[p] = Blank
  BY DEF Init
<1>2. Blank \in NodeState
  BY <1>1, InitType DEF TypeOK
<1>3. Parities(Blank) /\ \A r \in Round : ~(r <= Closed(Blank, r))
  <2>1. Blank.FirstRound = -1 /\ Blank.SecondRound = 0
    BY DEF Blank
  <2>2. Blank.FirstRound % 2 = 1 /\ 0 % 2 = 0
    <3> DEFINE a == Blank.FirstRound
    <3>1. a \in Int /\ a + 2 = 1
      BY <2>1
    <3> HIDE DEF a
    <3>2. a % 2 = 1
      BY <3>1
    <3> QED
      BY <3>2 DEF a
  <2>3. \A r \in Round : Closed(Blank, r) \in {-1, 0} /\ r \in Int /\ r >= 1
    BY <2>1 DEF Closed, Round
  <2> QED
    BY <2>1, <2>2, <2>3 DEF Parities
<1> QED
  BY <1>1, <1>2, <1>3 DEF SettledInv, Settled

LEMMA NextSettled == TypeOK /\ ClosedInv /\ [Next]_vars => ClosedInv'
<1> SUFFICES ASSUME TypeOK, ClosedInv, [Next]_vars, NEW q \in Observers
             PROVE  SettledInv(node[q])'
  BY DEF ClosedInv
<1> USE DEF TypeOK
<1>0. SettledInv(node[q])
  BY DEF ClosedInv
<1>1. SettledInv(node'[q])
  <2>1. CASE UNCHANGED vars
    BY <1>0, <2>1 DEF vars
  <2>2. ASSUME NEW p \in Observers, NEW v \in DOMAIN conn, AddVertex(p, v)
        PROVE  SettledInv(node'[q])
    <3>1. v \in Vertex
      BY DecideAssumption DEF ValidGraph
    <3>2. node'[q] = node[q] \/ (q = p /\ node'[q] = tryAddDAG(node[p], v))
      BY <2>2 DEF AddVertex
    <3> QED
      BY <1>0, <3>1, <3>2, tryAddDAGSettles
  <2>3. ASSUME NEW p \in Observers, NEW r \in Round, ReceiveCoin(p, r)
        PROVE  SettledInv(node'[q])
    <3> DEFINE t == [node[p] EXCEPT !.coinsBuffer = @ \cup {r}]
    <3>1. node'[q] = node[q] \/ (q = p /\ node'[q] = t)
      BY <2>3 DEF ReceiveCoin
    <3>2. /\ t \in NodeState /\ t.decideState2 = node[p].decideState2
          /\ t.byPath = node[p].byPath
          /\ t.FirstRound = node[p].FirstRound /\ t.SecondRound = node[p].SecondRound
      BY DEF NodeState
    <3> HIDE DEF t
    <3>3. Kept(node[p], t)
      BY <3>2 DEF Kept
    <3> QED
      BY <1>0, <3>1, <3>2, <3>3, SettledStays
  <2>4. ASSUME NEW p \in Observers, TakeCoin(p) PROVE SettledInv(node'[q])
    <3> DEFINE r == node[p].coinRound + 1
               o == [node[p] EXCEPT !.coinRound = r]
    <3>1. o \in NodeState /\ r \in Int /\ r >= 3
      BY <2>4, TakenLemma DEF TakenType, TakeCoin
    <3>2. node'[q] = node[q] \/ (q = p /\ node'[q] = Trigger(o, r))
      BY <2>4 DEF TakeCoin
    <3>3. /\ o.decideState2 = node[p].decideState2 /\ o.byPath = node[p].byPath
          /\ o.FirstRound = node[p].FirstRound /\ o.SecondRound = node[p].SecondRound
      BY DEF NodeState
    <3> HIDE DEF o, r
    <3>4. Kept(node[p], o)
      BY <3>3 DEF Kept
    <3>5. SettledInv(node[p]) => SettledInv(Trigger(o, r))
      BY <3>1, <3>3, <3>4, SettledStays, TriggerSettles
    <3> QED
      BY <1>0, <3>2, <3>5
  <2> QED
    BY <2>1, <2>2, <2>3, <2>4 DEF Next
<1> QED
  BY <1>1 DEF SettledInv, Settled, Parities, Closed

(***************************************************************************)
(* coinPass leaves no gap: every round up to the last that FirstRound or   *)
(* SecondRound says is closed has a decision on each vertex, however many  *)
(* rounds a coin decides at once and in whatever order they come.          *)
(***************************************************************************)
THEOREM ClosedRoundsAreDecided == Spec => []ClosedIsDecided
<1>1. ClosedInv => ClosedIsDecided
  BY DEF ClosedInv, SettledInv, Settled, ClosedIsDecided
<1> QED
  BY <1>1, TypeCorrect, InitSettled, NextSettled, PTL DEF Spec

----------------------------------------------------------------------------
(***************************************************************************)
(* The triggers leave no order of arrival out.                             *)
(***************************************************************************)
\* What the DAG D must have for the leader of round l to decide.
Passable(D, l) ==
    /\ Cardinality(directSupport(D, l, leader[l])) >= F + 1
    /\ <<l, leader[l]>> \in D
    /\ \A c \in conn[<<l, leader[l]>>] : <<l - 1, c>> \in D

LEMMA PassableIsEnough ==
    ASSUME NEW o, NEW l \in Int, NothingBefore(o, l - 2)
    PROVE  coinPass(o, l) # {} <=> Passable(o.DAG, l)
<1>1. Known(o, l - 2, {leader[l]}) <=> /\ <<l, leader[l]>> \in o.DAG
                                       /\ \A c \in conn[<<l, leader[l]>>] : <<l - 1, c>> \in o.DAG
  <2>1. (l - 2) + 2 = l /\ (l - 2) + 1 = l - 1
    OBVIOUS
  <2> QED
    BY <2>1 DEF Known
<1> DEFINE s == Cardinality(directSupport(o.DAG, l, leader[l]))
<1>2. s \in Nat /\ F \in Nat
  BY MoreEdges, Numbers
<1>3. s < F + 1 <=> ~(s >= F + 1)
  <2> HIDE DEF s
  <2> QED
    BY <1>2
<1>4. coinPass(o, l) = IF s < F + 1 \/ ~Known(o, l - 2, {leader[l]}) THEN {} ELSE {<<l - 2, l>>}
  BY DEF coinPass
<1> HIDE DEF s
<1>5. coinPass(o, l) # {} <=> ~(s < F + 1 \/ ~Known(o, l - 2, {leader[l]}))
  BY <1>4
<1> QED
  BY <1>1, <1>3, <1>5 DEF Passable, s

\* FirstRound and SecondRound only rise.
Raises(o, t) == \A r \in Int : Closed(t, r) >= Closed(o, r)

LEMMA TriggerRaises ==
    ASSUME NEW o \in NodeState, NEW l \in Int, l >= 3
    PROVE  /\ Raises(o, Trigger(o, l))
           /\ currLeaderRound(o, l) <= l /\ l <= o.coinRound /\ coinPass(o, l) # {}
                => Closed(Trigger(o, l), l) > Closed(o, l)
<1> DEFINE t == Trigger(o, l)
           todo == coinPass(o, l)
<1>1. /\ o.FirstRound \in Int /\ o.SecondRound \in Int /\ o.coinRound \in Int
      /\ \A r \in Int : Closed(o, r) \in Int
  BY Numbers DEF NodeState, Closed
<1>2. CASE ~(currLeaderRound(o, l) <= l) \/ l > o.coinRound \/ todo = {}
  <2>1. t = o
    BY <1>2 DEF Trigger, tryCoinPass, Close
  <2> QED
    BY <1>1, <1>2, <2>1 DEF Raises
<1>3. CASE ~(~(currLeaderRound(o, l) <= l) \/ l > o.coinRound \/ todo = {})
  <2>1. t = Close(o, l, todo)
    BY <1>3 DEF Trigger, tryCoinPass
  <2>2. /\ Close(o, l, todo).FirstRound = (IF l % 2 = 1 THEN l - 2 ELSE o.FirstRound)
        /\ Close(o, l, todo).SecondRound = (IF l % 2 = 1 THEN o.SecondRound ELSE l - 2)
    BY <1>3, CloseFields
  <2> HIDE DEF t
  <2>3. /\ l % 2 = 1 => t.FirstRound = l - 2 /\ t.SecondRound = o.SecondRound
        /\ l % 2 # 1 => t.FirstRound = o.FirstRound /\ t.SecondRound = l - 2
    BY <2>1, <2>2
  <2>4. Closed(o, l) + 4 <= l
    BY <1>3 DEF currLeaderRound
  <2>5. Closed(t, l) = l - 2
    BY <2>3 DEF Closed
  <2>6. \A r \in Int : \/ Closed(t, r) = l - 2 /\ Closed(o, r) = Closed(o, l)
                       \/ Closed(t, r) = Closed(o, r)
    BY <2>3 DEF Closed
  <2>7. Raises(o, t)
    BY <1>1, <2>4, <2>6 DEF Raises
  <2> QED
    BY <1>1, <2>4, <2>5, <2>7 DEF t
<1> QED
  BY <1>2, <1>3

\* The rounds closed are those right before the leader of l.
Awaits(o, l) == Closed(o, l) = l - 4

LEMMA AwaitsLemma ==
    ASSUME NEW o \in NodeState, NEW l \in Int, l >= 5
    PROVE  /\ NothingBefore(o, l - 2) <=> Awaits(o, l)
           /\ Awaits(o, l) => /\ currLeaderRound(o, l) = l
                              /\ Waiting(o, l) <=> l <= o.coinRound /\ Passable(o.DAG, l)
           /\ Waiting(o, l) => Closed(o, l) <= l - 4
<1>1. Closed(o, l) \in Int /\ Closed(o, l - 2) = Closed(o, l)
  <2>1. (l - 2) % 2 = l % 2
    OBVIOUS
  <2> QED
    BY <2>1, Numbers DEF Closed, NodeState
<1>2. NothingBefore(o, l - 2) <=> Awaits(o, l)
  <2>1. ~(l - 2 <= 2)
    OBVIOUS
  <2>2. l - 2 = Closed(o, l) + 2 <=> Closed(o, l) = l - 4
    BY <1>1
  <2> QED
    BY <1>1, <2>1, <2>2 DEF NothingBefore, Awaits
<1>3. Awaits(o, l) => currLeaderRound(o, l) = l
  BY DEF Awaits, currLeaderRound
<1>4. Awaits(o, l) => (Waiting(o, l) <=> l <= o.coinRound /\ Passable(o.DAG, l))
  BY <1>2, <1>3, PassableIsEnough DEF Waiting
<1>5. Waiting(o, l) => Closed(o, l) <= l - 4
  BY <1>1 DEF Waiting, currLeaderRound
<1> QED
  BY <1>2, <1>3, <1>4, <1>5

\* The leader of l is used by the trigger, or it is not waiting.
LEMMA TriggerUses ==
    ASSUME NEW o \in NodeState, NEW l \in Int, l >= 5, Awaits(o, l), l <= o.coinRound,
           Passable(o.DAG, l)
    PROVE  ~Awaits(Trigger(o, l), l)
<1>1. currLeaderRound(o, l) <= l /\ coinPass(o, l) # {}
  BY AwaitsLemma, PassableIsEnough
<1>2. Closed(Trigger(o, l), l) > Closed(o, l)
  BY <1>1, TriggerRaises
<1>3. Closed(o, l) = l - 4
  BY DEF Awaits
<1>4. Closed(Trigger(o, l), l) \in Int
  BY TriggerType, Numbers DEF Step, Closed, NodeState
<1> QED
  BY <1>2, <1>3, <1>4 DEF Awaits

\* The vertex that completes the leader's part of the DAG.
LEMMA LastVertex ==
    ASSUME NEW D, NEW l \in Int, NEW v \in Vertex, Passable(D \cup {v}, l), ~Passable(D, l)
    PROVE  \/ v[1] = l + 1
           \/ v = <<l, leader[l]>>
           \/ v = <<l - 1, v[2]>> /\ v[2] \in conn[<<l, leader[l]>>]
<1> SUFFICES ASSUME v[1] # l + 1, v # <<l, leader[l]>>,
                    ~(v = <<l - 1, v[2]>> /\ v[2] \in conn[<<l, leader[l]>>])
             PROVE  Passable(D, l)
  OBVIOUS
<1>1. directSupport(D \cup {v}, l, leader[l]) = directSupport(D, l, leader[l])
  BY DEF directSupport, Present
<1>2. <<l, leader[l]>> \in D
  BY DEF Passable
<1>3. \A c \in conn[<<l, leader[l]>>] : <<l - 1, c>> \in D
  BY DEF Passable
<1> QED
  BY <1>1, <1>2, <1>3 DEF Passable

\* No trigger fires.
LEMMA StepsBack == ASSUME NEW o \in NodeState PROVE Step(o, o) /\ Raises(o, o)
<1>1. \A r \in Int : Closed(o, r) \in Int
  BY Numbers DEF NodeState, Closed
<1>2. Raises(o, o)
  BY <1>1 DEF Raises
<1>3. Step(o, o)
  BY Numbers DEF Step, NodeState
<1> QED
  BY <1>2, <1>3

LEMMA AddLeavesNothing ==
    ASSUME NEW o \in NodeState, NEW l \in Round, l >= 5, NothingBefore(o, l - 2),
           ~Waiting(o, l), NEW v \in Vertex
    PROVE  ~Waiting(tryAddDAG(o, v), l)
<1> DEFINE n == [o EXCEPT !.DAG = @ \cup {v}]
           m == addDirectConn(n, v)
           a == Supports(m, v)
           b == Leads(a, v)
           c == IsParent(b, v)
           t == tryAddDAG(o, v)
           D == o.DAG \cup {v}
<1> SUFFICES ASSUME Waiting(t, l) PROVE FALSE
  OBVIOUS
<1>1. l \in Int /\ v[1] \in Int
  BY DEF Round, Vertex
<1>2. /\ n \in NodeState /\ n.DAG = D /\ n.coinRound = o.coinRound
      /\ n.FirstRound = o.FirstRound /\ n.SecondRound = o.SecondRound
  BY DEF NodeState
<1> HIDE DEF n
<1>3. /\ m \in NodeState /\ m.DAG = D /\ m.coinRound = o.coinRound
      /\ m.FirstRound = o.FirstRound /\ m.SecondRound = o.SecondRound
  <2>1. m \in NodeState /\ m.DAG = n.DAG
    BY <1>2, addDirectConnType
  <2>2. m = n \/ \E d : m = [n EXCEPT !.decideState2 = d]
    BY DEF addDirectConn
  <2> HIDE DEF m
  <2> QED
    BY <1>2, <2>1, <2>2 DEF NodeState
<1>4. t = addInDirectConn(m, v)
  BY DEF tryAddDAG, m, n
<1> HIDE DEF m
<1>5. Awaits(o, l) /\ Awaits(m, l)
  BY <1>1, <1>3, AwaitsLemma DEF Awaits, Closed
<1>6. CASE ~(v[1] >= 4)
  <2>1. t = m
    BY <1>4, <1>6 DEF addInDirectConn
  <2>2. l <= o.coinRound /\ Passable(D, l) /\ ~Passable(o.DAG, l)
    BY <1>1, <1>3, <1>5, <2>1, AwaitsLemma
  <2>3. \/ v[1] = l + 1
        \/ v = <<l, leader[l]>>
        \/ v = <<l - 1, v[2]>>
    BY <1>1, <2>2, LastVertex
  <2>4. v = <<l, leader[l]>> => v[1] = l
    OBVIOUS
  <2>5. v = <<l - 1, v[2]>> => v[1] = l - 1
    OBVIOUS
  <2> QED
    BY <1>1, <1>6, <2>3, <2>4, <2>5
<1>7. CASE v[1] >= 4
  <2>0. /\ v[1] - 1 \in Int /\ v[1] + 1 \in Int
        /\ v[1] - 1 >= 3 /\ v[1] >= 3 /\ v[1] + 1 >= 3
    BY <1>1, <1>7
  <2>1. t = c
    BY <1>4, <1>7 DEF addInDirectConn
  <2> HIDE DEF t
  <2>2. Step(m, a) /\ Raises(m, a)
    BY <1>3, <2>0, TriggerType, TriggerRaises DEF Supports
  <2>3. Step(a, b) /\ Raises(a, b)
    <3> HIDE DEF a
    <3>1. a \in NodeState
      BY <2>2 DEF Step
    <3>2. b = a \/ b = Trigger(a, v[1])
      BY DEF Leads
    <3> HIDE DEF b
    <3> QED
      BY <1>1, <2>0, <3>1, <3>2, TriggerType, TriggerRaises, StepsBack
  <2>4. Step(b, c) /\ Raises(b, c)
    <3> HIDE DEF b
    <3>1. b \in NodeState
      BY <2>3 DEF Step
    <3>2. c = b \/ c = Trigger(b, v[1] + 1)
      BY DEF IsParent
    <3> HIDE DEF c
    <3> QED
      BY <2>0, <3>1, <3>2, TriggerType, TriggerRaises, StepsBack
  <2>5. c \in NodeState /\ c.DAG = D /\ c.coinRound = o.coinRound
    BY <1>3, <2>2, <2>3, <2>4 DEF Step
  <2>6. Awaits(a, l) /\ Awaits(b, l) /\ Awaits(c, l)
    <3>1. Closed(c, l) <= l - 4
      BY <1>1, <2>1, <2>5, AwaitsLemma
    <3>2. Closed(m, l) = l - 4
      BY <1>5 DEF Awaits
    <3>3. Closed(a, l) >= Closed(m, l) /\ Closed(b, l) >= Closed(a, l) /\ Closed(c, l) >= Closed(b, l)
      BY <1>1, <2>2, <2>3, <2>4 DEF Raises
    <3>4. Closed(a, l) \in Int /\ Closed(b, l) \in Int /\ Closed(c, l) \in Int
      BY <1>1, <2>2, <2>3, <2>4, Numbers DEF Step, NodeState, Closed
    <3> QED
      BY <1>1, <3>1, <3>2, <3>3, <3>4 DEF Awaits
  <2>7. l <= o.coinRound /\ Passable(D, l) /\ ~Passable(o.DAG, l)
    BY <1>1, <1>5, <2>1, <2>5, <2>6, AwaitsLemma
  <2>8. CASE v[1] = l + 1
    <3>1. a = Trigger(m, l)
      BY <1>1, <2>8 DEF Supports
    <3> QED
      BY <1>1, <1>3, <1>5, <2>6, <2>7, <3>1, TriggerUses
  <2>9. CASE v = <<l, leader[l]>>
    <3> HIDE DEF a
    <3>1. a \in NodeState /\ a.DAG = D /\ a.coinRound = o.coinRound
      BY <1>3, <2>2 DEF Step
    <3>2. b = Trigger(a, l)
      BY <2>7, <2>9, <3>1 DEF Leads
    <3> QED
      BY <1>1, <2>6, <2>7, <3>1, <3>2, TriggerUses
  <2>10. CASE v = <<l - 1, v[2]>> /\ v[2] \in conn[<<l, leader[l]>>]
    <3> HIDE DEF b
    <3>1. b \in NodeState /\ b.DAG = D /\ b.coinRound = o.coinRound
      BY <1>3, <2>2, <2>3 DEF Step
    <3>2. v[1] = l - 1 /\ v[1] + 1 = l
      BY <1>1, <2>10
    <3>3. <<l, leader[l]>> \in Vertex /\ <<l, leader[l]>> \in D
      BY <2>7, <3>1 DEF Passable, NodeState
    <3>4. leader[l] \in directSupport(D, l - 1, v[2])
      <4>1. (l - 1) + 1 = l /\ leader[l] \in Node
        BY <1>1, <3>3 DEF Vertex
      <4> QED
        BY <2>10, <3>3, <4>1 DEF directSupport, Present
    <3>5. c = Trigger(b, l)
      BY <2>7, <3>1, <3>2, <3>4 DEF IsParent
    <3> QED
      BY <1>1, <2>6, <2>7, <3>1, <3>5, TriggerUses
  <2> QED
    BY <1>1, <2>7, <2>8, <2>9, <2>10, LastVertex
<1> QED
  BY <1>6, <1>7

LEMMA CoinLeavesNothing ==
    ASSUME NEW o \in NodeState, NEW l \in Round, l >= 5, NothingBefore(o, l - 2),
           ~Waiting(o, l), NEW t \in NodeState, t.DAG = o.DAG, t.coinRound = o.coinRound + 1,
           t.FirstRound = o.FirstRound, t.SecondRound = o.SecondRound
    PROVE  ~Waiting(Trigger(t, t.coinRound), l)
<1> DEFINE r == t.coinRound
           n == Trigger(t, r)
<1> SUFFICES ASSUME Waiting(n, l) PROVE FALSE
  OBVIOUS
<1>1. l \in Int /\ r \in Int /\ r >= 3
  BY Numbers DEF Round, NodeState
<1>2. Step(t, n) /\ Raises(t, n)
  BY <1>1, TriggerType, TriggerRaises
<1> HIDE DEF n
<1>3. n \in NodeState /\ n.DAG = o.DAG /\ n.coinRound = r
  BY <1>2 DEF Step
<1>4. Awaits(o, l) /\ Awaits(t, l)
  BY <1>1, AwaitsLemma DEF Awaits, Closed
<1>5. Awaits(n, l)
  <2>1. Closed(n, l) <= l - 4
    BY <1>1, <1>3, AwaitsLemma
  <2>2. Closed(n, l) >= Closed(t, l) /\ Closed(t, l) = l - 4
    BY <1>1, <1>2, <1>4 DEF Raises, Awaits
  <2>3. Closed(n, l) \in Int
    BY <1>3, Numbers DEF NodeState, Closed
  <2> QED
    BY <1>1, <2>1, <2>2, <2>3 DEF Awaits
<1>6. l <= r /\ Passable(o.DAG, l)
  BY <1>1, <1>3, <1>5, AwaitsLemma
<1>7. ~(l <= o.coinRound)
  BY <1>1, <1>4, <1>6, AwaitsLemma
<1>8. l = r
  BY <1>1, <1>6, <1>7 DEF NodeState
<1>9. ~Awaits(Trigger(t, l), l)
  BY <1>1, <1>4, <1>6, TriggerUses
<1> QED
  BY <1>5, <1>8, <1>9 DEF n

(***************************************************************************)
(* From the leader of round 5 on, and as long as no round of its parity is *)
(* open before, the triggers of addInDirectConn and onReceiveCoin never    *)
(* leave a leader waiting that has its coin, F+1 supporters and all of its *)
(* parents: whichever of them comes last closes the round.                 *)
(***************************************************************************)
THEOREM TriggersAreComplete == Spec => LeaderTriggers
<1> DEFINE A == \A p \in Observers : \A l \in Round :
                  /\ l >= 5 /\ NothingBefore(node[p], l - 2)
                  /\ ~Waiting(node[p], l)
                  => ~Waiting(node'[p], l)
<1>1. TypeOK /\ [Next]_vars => [A]_vars
  <2> SUFFICES ASSUME TypeOK, Next, NEW q \in Observers, NEW l \in Round,
                      l >= 5, NothingBefore(node[q], l - 2), ~Waiting(node[q], l)
               PROVE  ~Waiting(node'[q], l)
    OBVIOUS
  <2>0. node \in [Observers -> NodeState] /\ node[q] \in NodeState
    BY DEF TypeOK
  <2>1. ASSUME NEW p \in Observers, NEW v \in DOMAIN conn, AddVertex(p, v)
        PROVE  ~Waiting(node'[q], l)
    <3>1. v \in Vertex
      BY DecideAssumption DEF ValidGraph, TypeOK
    <3>2. node'[q] = node[q] \/ (q = p /\ node'[q] = tryAddDAG(node[p], v))
      BY <2>0, <2>1 DEF AddVertex
    <3> QED
      BY <2>0, <3>1, <3>2, AddLeavesNothing
  <2>2. ASSUME NEW p \in Observers, NEW r \in Round, ReceiveCoin(p, r)
        PROVE  ~Waiting(node'[q], l)
    <3> DEFINE t == [node[p] EXCEPT !.coinsBuffer = @ \cup {r}]
    <3>1. node'[q] = node[q] \/ (q = p /\ node'[q] = t)
      BY <2>0, <2>2 DEF ReceiveCoin
    <3>2. /\ t \in NodeState /\ t.DAG = node[p].DAG /\ t.coinRound = node[p].coinRound
          /\ t.FirstRound = node[p].FirstRound /\ t.SecondRound = node[p].SecondRound
      BY <2>0 DEF NodeState
    <3>3. l \in Int
      BY DEF Round
    <3> HIDE DEF t
    <3>4. q = p => Awaits(t, l) /\ Awaits(node[p], l)
      BY <2>0, <3>2, <3>3, AwaitsLemma DEF Awaits, Closed
    <3>5. q = p => ~Waiting(t, l)
      BY <2>0, <3>2, <3>3, <3>4, AwaitsLemma
    <3> QED
      BY <3>1, <3>5
  <2>3. ASSUME NEW p \in Observers, TakeCoin(p) PROVE ~Waiting(node'[q], l)
    <3> DEFINE r == node[p].coinRound + 1
               t == [node[p] EXCEPT !.coinRound = r]
    <3>1. t \in NodeState
      BY <2>3, TakenLemma DEF TakenType, TakeCoin
    <3>2. node'[q] = node[q] \/ (q = p /\ node'[q] = Trigger(t, r))
      BY <2>0, <2>3 DEF TakeCoin
    <3>3. /\ t.DAG = node[p].DAG /\ t.coinRound = r
          /\ t.FirstRound = node[p].FirstRound /\ t.SecondRound = node[p].SecondRound
      BY <2>0 DEF NodeState
    <3> HIDE DEF t
    <3>4. q = p => ~Waiting(Trigger(t, t.coinRound), l)
      BY <2>0, <3>1, <3>3, CoinLeavesNothing
    <3> QED
      BY <3>2, <3>3, <3>4
  <2> QED
    BY <2>1, <2>2, <2>3 DEF Next
<1> QED
  BY <1>1, TypeCorrect, PTL DEF Spec, LeaderTriggers
=============================================================================
