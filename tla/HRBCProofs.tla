---------------------------- MODULE HRBCProofs ----------------------------
(***************************************************************************)
(* Proofs of the safety of HRBC, for every number of nodes, every F below  *)
(* N/3 and every choice of Byz, Absent and the other sets.                 *)
(*                                                                         *)
(* The handlers are operators from a node's record to its next one, so     *)
(* the proof has two layers: one lemma for every operator, on a record s   *)
(* of the node p and the set E of the nodes whose ECHO may be in use; and  *)
(* one step for every action, which turns the lemma of its handler into    *)
(* the invariant of the whole system.  The last part lifts the same lemmas *)
(* to steps of CertifiedBroadcast.                                         *)
(***************************************************************************)
EXTENDS HRBC, TLAPS, FiniteSetTheorems

----------------------------------------------------------------------------
(***************************************************************************)
(* What holds of a record at every point of every handler.                 *)
(***************************************************************************)
Weak(qc, p, E) == Cardinality(qc) >= F + 1 /\ qc \subseteq E \cup {p}
Strong(qc, E)  == Cardinality(qc) >= N - F /\ qc \subseteq E

Base(s, p, E) ==
    /\ s \in NodeState
    /\ s.echos \subseteq s.echoed
    /\ s.echoed \subseteq E
    /\ ~s.HRBCTerminated => s.echos = s.echoed
    /\ p \in s.echoed => s.selfEcho
    /\ p \in s.hasTent => s.selfEcho
    /\ s.hasTent # {} => Weak(s.hasTent, p, E)
    /\ s.certs # {} => Strong(s.certs, E)
    /\ s.DAG \/ s.vertexBuffer \/ s.virtualVertexBuffer => s.certs # {}
    /\ s.HRBCTerminated => s.hasTent # {}
    /\ s.DAG => s.valDAG

\* What holds of a record between the handlers, in addition.
Stage(s) ==
    /\ s.vals => s.valDAG
    /\ s.valDAG /\ ~s.vals => s.HRBCTerminated /\ s.selfEcho
    /\ s.HRBCTerminated => s.valDAG /\ s.DAG
    /\ s.valDAG /\ Cardinality(s.echoed) >= F + 1 => s.hasTent # {}

RecordInv(s, p, E) == Base(s, p, E) /\ Stage(s)

\* What has been certified stays certified, what is in the DAG stays there.
Keeps(s, t) == (s.certs # {} => t.certs # {}) /\ (s.DAG => t.DAG)

\* A handler never takes back an ECHO, a VAL or a payload, a certificate or a
\* vertex, and it echoes for one of two reasons.
Grow(s, t) ==
    /\ Keeps(s, t)
    /\ s.selfEcho => t.selfEcho
    /\ s.valDAG => t.valDAG
    /\ s.payloads # "none" => t.payloads # "none"
    /\ t.selfEcho /\ ~s.selfEcho => \/ t.valDAG /\ t.payloads # "none"
                                    \/ Cardinality(t.echoed) >= F + 1

\* The record t differs from s in nothing that Grow looks at.
Quiet(s, t) ==
    /\ Keeps(s, t)
    /\ t.selfEcho = s.selfEcho /\ t.valDAG = s.valDAG
    /\ t.payloads = s.payloads /\ t.echoed = s.echoed

----------------------------------------------------------------------------
LEMMA NodeFacts ==
    /\ N \in Nat /\ F \in Nat /\ N - F >= F + 1
    /\ \A S \in SUBSET Node : IsFiniteSet(S) /\ Cardinality(S) \in Nat
    /\ \A T \in SUBSET Node : \A S \in SUBSET T : Cardinality(S) <= Cardinality(T)
    /\ \A S \in SUBSET Node : \A x \in Node : x \notin S =>
          Cardinality(S \cup {x}) = Cardinality(S) + 1
    /\ Cardinality({}) = 0
<1>1. IsFiniteSet(Node) /\ F \in Nat /\ 3 * F < N
  BY HRBCAssumption
<1>2. \A S \in SUBSET Node : IsFiniteSet(S) /\ Cardinality(S) \in Nat
  BY <1>1, FS_Subset, FS_CardinalityType
<1>3. N \in Nat
  BY <1>1, FS_CardinalityType DEF N
<1>4. \A T \in SUBSET Node : \A S \in SUBSET T : Cardinality(S) <= Cardinality(T)
  BY <1>2, FS_Subset
<1>5. \A S \in SUBSET Node : \A x \in Node : x \notin S =>
          Cardinality(S \cup {x}) = Cardinality(S) + 1
  BY <1>2, FS_AddElement
<1>6. Cardinality({}) = 0
  BY FS_EmptySet
<1>7. N - F >= F + 1
  BY <1>1, <1>3
<1> QED
  BY <1>1, <1>2, <1>3, <1>4, <1>5, <1>6, <1>7

----------------------------------------------------------------------------
(***************************************************************************)
(* One lemma for every operator of HRBC.                                   *)
(***************************************************************************)
\* The fields that neither Tent nor tryAddDAG nor Grow is about.
Same(s, t) ==
    /\ t.vals = s.vals /\ t.HRBCTerminated = s.HRBCTerminated
    /\ t.echos = s.echos /\ t.certs = s.certs

LEMMA TentLemma ==
    ASSUME NEW p \in Node, NEW E \in SUBSET Node, NEW s, Base(s, p, E),
           NEW sigs \in SUBSET Node, Weak(sigs, p, E), p \in sigs => s.selfEcho
    PROVE  /\ Base(Tent(s, sigs), p, E)
           /\ Quiet(s, Tent(s, sigs)) /\ Same(s, Tent(s, sigs))
           /\ Tent(s, sigs).DAG = s.DAG
           /\ Tent(s, sigs).hasTent # {}
<1> DEFINE t == Tent(s, sigs)
<1>1. s \in NodeState
  BY DEF Base
<1>2. /\ t \in NodeState /\ t.hasTent = sigs
      /\ Quiet(s, t) /\ Same(s, t) /\ t.DAG = s.DAG
      /\ t.vertexBuffer = s.vertexBuffer /\ t.virtualVertexBuffer = s.virtualVertexBuffer
  BY <1>1 DEF Tent, NodeState, Quiet, Same, Keeps
<1>3. sigs # {}
  BY NodeFacts DEF Weak
<1>4. Base(t, p, E)
  BY <1>2, <1>3 DEF Base, Quiet, Same, Keeps
<1> QED
  BY <1>2, <1>3, <1>4

LEMMA TryTentLemma ==
    ASSUME NEW p \in Node, NEW E \in SUBSET Node, NEW s, Base(s, p, E)
    PROVE  /\ Base(TryTent(s), p, E)
           /\ Quiet(s, TryTent(s)) /\ Same(s, TryTent(s))
           /\ TryTent(s).DAG = s.DAG
           /\ s.hasTent # {} => TryTent(s).hasTent # {}
           /\ s.vals /\ Cardinality(s.echoed) >= F + 1 => TryTent(s).hasTent # {}
<1>1. CASE s.hasTent = {} /\ s.vals /\ Cardinality(s.echoed) >= F + 1
  <2>1. s.echos = s.echoed /\ s.echos \in SUBSET Node
    BY <1>1 DEF Base, NodeState
  <2>2. Weak(s.echos, p, E) /\ (p \in s.echos => s.selfEcho)
    BY <1>1, <2>1 DEF Base, Weak
  <2>3. TryTent(s) = Tent(s, s.echos)
    BY <1>1 DEF TryTent
  <2> QED
    BY <2>1, <2>2, <2>3, TentLemma
<1>2. CASE ~(s.hasTent = {} /\ s.vals /\ Cardinality(s.echoed) >= F + 1)
  BY <1>2 DEF TryTent, Quiet, Same, Keeps
<1> QED
  BY <1>1, <1>2

LEMMA SendEchoLemma ==
    ASSUME NEW p \in Node, NEW E \in SUBSET Node, NEW s, Base(s, p, E)
    PROVE  /\ Base(SendEcho(s, p), p, E)
           /\ Quiet([s EXCEPT !.selfEcho = TRUE], SendEcho(s, p))
           /\ Same(s, SendEcho(s, p))
           /\ SendEcho(s, p).DAG = s.DAG
           /\ s.hasTent # {} => SendEcho(s, p).hasTent # {}
<1> DEFINE t == [s EXCEPT !.selfEcho = TRUE]
<1>1. s \in NodeState
  BY DEF Base
<1>2. CASE s.selfEcho
  <2>1. SendEcho(s, p) = s
    BY <1>2 DEF SendEcho
  <2>2. s = t
    BY <1>1, <1>2 DEF NodeState
  <2> QED
    BY <2>1, <2>2 DEF Quiet, Same, Keeps
<1>3. CASE ~s.selfEcho
  <2>1. Base(t, p, E) /\ Same(s, t) /\ t.hasTent = s.hasTent /\ t.DAG = s.DAG
        /\ t.selfEcho /\ t.echoed = s.echoed
    BY <1>1 DEF Base, NodeState, Same
  <2>2. CASE t.hasTent = {} /\ Cardinality(t.echoed) >= F
    <3>1. t.echos = t.echoed /\ t.echos \in SUBSET Node /\ p \notin t.echos
      BY <1>3, <2>1, <2>2 DEF Base, NodeState, Same
    <3>2. Cardinality(t.echos \cup {p}) >= F + 1
      <4>1. Cardinality(t.echos \cup {p}) = Cardinality(t.echos) + 1
        BY <3>1, NodeFacts
      <4>2. Cardinality(t.echos) \in Nat /\ Cardinality(t.echos) >= F /\ F \in Nat
        BY <2>2, <3>1, NodeFacts
      <4> QED
        BY <4>1, <4>2
    <3>3. Weak(t.echos \cup {p}, p, E) /\ t.echos \cup {p} \in SUBSET Node
      BY <2>1, <3>1, <3>2 DEF Base, Weak
    <3>4. SendEcho(s, p) = Tent(t, t.echos \cup {p})
      BY <1>3, <2>2 DEF SendEcho
    <3>5. /\ Base(SendEcho(s, p), p, E) /\ Quiet(t, SendEcho(s, p))
          /\ Same(t, SendEcho(s, p)) /\ SendEcho(s, p).DAG = t.DAG
          /\ SendEcho(s, p).hasTent # {}
      <4> HIDE DEF t
      <4> QED
        BY <2>1, <3>3, <3>4, TentLemma
    <3> QED
      BY <2>1, <3>5 DEF Same
  <2>3. CASE ~(t.hasTent = {} /\ Cardinality(t.echoed) >= F)
    <3>1. SendEcho(s, p) = t
      BY <1>3, <2>3 DEF SendEcho
    <3> QED
      BY <2>1, <3>1 DEF Quiet, Keeps
  <2> QED
    BY <2>2, <2>3
<1> QED
  BY <1>2, <1>3

LEMMA TryAddDAGLemma ==
    ASSUME NEW p \in Node, NEW E \in SUBSET Node, NEW s, Base(s, p, E), s.certs # {}
    PROVE  /\ Base(tryAddDAG(s), p, E) /\ Quiet(s, tryAddDAG(s))
           /\ Same(s, tryAddDAG(s))
           /\ tryAddDAG(s).hasTent = s.hasTent
           /\ s.DAG \/ s.valDAG => tryAddDAG(s).DAG
<1>1. s \in NodeState
  BY DEF Base
<1>2. CASE s.DAG
  BY <1>2 DEF tryAddDAG, Quiet, Same, Keeps
<1>3. CASE ~s.DAG /\ ~s.valDAG
  <2>1. tryAddDAG(s) = [s EXCEPT !.vertexBuffer = TRUE]
    BY <1>3 DEF tryAddDAG
  <2> QED
    BY <1>1, <1>3, <2>1 DEF Base, NodeState, Quiet, Same, Keeps
<1>4. CASE ~s.DAG /\ s.valDAG
  <2>1. tryAddDAG(s) = [s EXCEPT !.DAG = TRUE, !.weakCerts = {},
                            !.vertexBuffer = FALSE, !.virtualVertexBuffer = FALSE]
    BY <1>4 DEF tryAddDAG
  <2> QED
    BY <1>1, <1>4, <2>1 DEF Base, NodeState, Quiet, Same, Keeps
<1> QED
  BY <1>2, <1>3, <1>4

LEMMA FreeLemma ==
    ASSUME NEW p \in Node, NEW E \in SUBSET Node, NEW s,
           RecordInv(s, p, E), s.HRBCTerminated
    PROVE  RecordInv(Free(s, p), p, E) /\ Quiet(s, Free(s, p))
<1> DEFINE t == [s EXCEPT !.vals = FALSE, !.echos = {}]
<1>1. s \in NodeState
  BY DEF RecordInv, Base
<1>2. CASE p \in s.echos
  <2>1. Free(s, p) = t
    BY <1>2 DEF Free
  <2>2. s.selfEcho
    BY <1>2 DEF RecordInv, Base
  <2>3. Base(t, p, E)
    BY <1>1 DEF RecordInv, Base, NodeState
  <2>4. Stage(t) /\ Quiet(s, t)
    BY <1>1, <2>2 DEF RecordInv, Stage, NodeState, Quiet, Keeps
  <2> QED
    BY <2>1, <2>3, <2>4 DEF RecordInv
<1>3. CASE p \notin s.echos
  BY <1>3 DEF Free, Quiet, Keeps
<1> QED
  BY <1>2, <1>3

LEMMA TryDeliverLemma ==
    ASSUME NEW p \in Node, NEW E \in SUBSET Node, NEW s, RecordInv(s, p, E)
    PROVE  RecordInv(TryDeliver(s, p), p, E) /\ Quiet(s, TryDeliver(s, p))
<1>1. s \in NodeState
  BY DEF RecordInv, Base
<1>2. CASE ~s.HRBCTerminated /\ s.vals /\ Cardinality(s.echos) >= N - F
  <2> DEFINE t == [[s EXCEPT !.HRBCTerminated = TRUE] EXCEPT !.certs = s.echos]
             u == tryAddDAG(t)
  <2>1. TryDeliver(s, p) = Free(u, p)
    <3>1. [s EXCEPT !.HRBCTerminated = TRUE].echos = s.echos
      BY <1>1 DEF NodeState
    <3> QED
      BY <1>2, <3>1 DEF TryDeliver, onReceiveDeliver
  <2>2. s.echos # {} /\ Strong(s.echos, E)
    <3>1. N \in Nat /\ F \in Nat /\ N - F >= 1 /\ Cardinality({}) = 0
      BY NodeFacts
    <3>2. s.echos # {}
      BY <1>2, <3>1
    <3> QED
      BY <1>2, <3>2 DEF RecordInv, Base, Strong
  <2>3. s.valDAG /\ s.hasTent # {}
    <3>1. s.echoed \in SUBSET Node /\ s.echos \in SUBSET s.echoed
      BY <1>1 DEF RecordInv, Base, NodeState
    <3>2. Cardinality(s.echos) <= Cardinality(s.echoed)
      BY <3>1, NodeFacts
    <3>3. Cardinality(s.echos) \in Nat /\ Cardinality(s.echoed) \in Nat
      BY <3>1, NodeFacts
    <3>4. Cardinality(s.echoed) >= F + 1
      BY <1>2, <3>2, <3>3, NodeFacts
    <3> QED
      BY <1>2, <3>4 DEF RecordInv, Stage
  <2>4. /\ t \in NodeState /\ t.certs = s.echos /\ t.HRBCTerminated
        /\ Quiet(s, t) /\ t.vals = s.vals /\ t.echos = s.echos
        /\ t.hasTent = s.hasTent /\ t.DAG = s.DAG
        /\ t.vertexBuffer = s.vertexBuffer
        /\ t.virtualVertexBuffer = s.virtualVertexBuffer
    BY <1>1, <2>2 DEF NodeState, Quiet, Keeps
  <2>5. Base(t, p, E)
    BY <2>2, <2>3, <2>4 DEF RecordInv, Base, Quiet, Keeps
  <2>6. /\ Base(u, p, E) /\ Quiet(t, u) /\ Same(t, u)
        /\ u.hasTent = t.hasTent /\ u.DAG
    <3> HIDE DEF t
    <3> QED
      BY <2>2, <2>3, <2>4, <2>5, TryAddDAGLemma DEF Quiet, Keeps
  <2>7. RecordInv(u, p, E) /\ u.HRBCTerminated
    BY <1>2, <2>3, <2>4, <2>6 DEF RecordInv, Stage, Quiet, Same, Keeps
  <2>8. RecordInv(Free(u, p), p, E) /\ Quiet(u, Free(u, p))
    <3> HIDE DEF u
    <3> QED
      BY <2>7, FreeLemma
  <2> QED
    BY <2>1, <2>4, <2>6, <2>8 DEF Quiet, Keeps
<1>3. CASE ~(~s.HRBCTerminated /\ s.vals /\ Cardinality(s.echos) >= N - F)
  BY <1>3 DEF TryDeliver, Quiet, Keeps
<1> QED
  BY <1>2, <1>3

LEMMA HandlePayloadLemma ==
    ASSUME NEW p \in Node, NEW E \in SUBSET Node, NEW s,
           RecordInv(s, p, E), s.payloads # "none"
    PROVE  RecordInv(handlePayload(s, p), p, E) /\ Grow(s, handlePayload(s, p))
<1>1. s \in NodeState
  BY DEF RecordInv, Base
<1>2. CASE s.valDAG
  <2> DEFINE t == SendEcho(s, p)
  <2>1. Quiet([s EXCEPT !.selfEcho = TRUE], t)
    BY SendEchoLemma DEF RecordInv
  <2>2. /\ t.selfEcho /\ t.valDAG = s.valDAG /\ t.payloads = s.payloads
        /\ t.echoed = s.echoed
    BY <1>1, <2>1 DEF Quiet, NodeState, Keeps
  <2>3. /\ Base(t, p, E) /\ Same(s, t) /\ t.DAG = s.DAG
        /\ s.hasTent # {} => t.hasTent # {}
    BY SendEchoLemma DEF RecordInv
  <2>4. RecordInv(t, p, E)
    BY <2>2, <2>3 DEF RecordInv, Stage, Same
  <2>5. RecordInv(TryDeliver(t, p), p, E) /\ Quiet(t, TryDeliver(t, p))
    <3> HIDE DEF t
    <3> QED
      BY <2>4, TryDeliverLemma
  <2>6. handlePayload(s, p) = TryDeliver(t, p)
    BY <1>2 DEF handlePayload
  <2> QED
    BY <1>2, <2>2, <2>3, <2>5, <2>6 DEF Grow, Quiet, Keeps, Same
<1>3. CASE ~s.valDAG
  BY <1>3 DEF handlePayload, Grow, Keeps
<1> QED
  BY <1>2, <1>3

----------------------------------------------------------------------------
(***************************************************************************)
(* The message handlers.                                                   *)
(***************************************************************************)
LEMMA ReceivePayloadLemma ==
    ASSUME NEW p \in Node, NEW E \in SUBSET Node, NEW s, RecordInv(s, p, E),
           NEW k \in Slice
    PROVE  /\ RecordInv(onReceivePayload(s, p, k), p, E)
           /\ Grow(s, onReceivePayload(s, p, k))
<1> DEFINE t == [s EXCEPT !.mergeMsg = @ \cup {k}]
           u == [t EXCEPT !.mergeMsg = {}, !.payloads = "held"]
<1>1. s \in NodeState
  BY DEF RecordInv, Base
<1>2. RecordInv(t, p, E) /\ Quiet(s, t) /\ t \in NodeState
  BY <1>1 DEF RecordInv, Base, Stage, Quiet, NodeState, Keeps
<1>3. /\ RecordInv(u, p, E) /\ u.payloads = "held" /\ u.selfEcho = t.selfEcho
      /\ u.valDAG = t.valDAG /\ u.echoed = t.echoed
  <2> HIDE DEF t
  <2> QED
    BY <1>2 DEF RecordInv, Base, Stage, NodeState
<1>4. CASE t.mergeMsg # Slice \/ t.payloads = "held"
  <2>1. onReceivePayload(s, p, k) = t
    BY <1>4 DEF onReceivePayload
  <2> QED
    BY <1>2, <2>1 DEF Grow, Quiet, Keeps
<1>5. CASE ~(t.mergeMsg # Slice \/ t.payloads = "held") /\ u.HRBCTerminated
  <2>1. onReceivePayload(s, p, k) = u
    BY <1>5 DEF onReceivePayload
  <2> QED
    BY <1>2, <1>3, <2>1 DEF Grow, Quiet, Keeps
<1>6. CASE ~(t.mergeMsg # Slice \/ t.payloads = "held") /\ ~u.HRBCTerminated
  <2>1. onReceivePayload(s, p, k) = handlePayload(u, p)
    BY <1>6 DEF onReceivePayload
  <2>2. RecordInv(handlePayload(u, p), p, E) /\ Grow(u, handlePayload(u, p))
    <3> HIDE DEF u
    <3> QED
      BY <1>3, HandlePayloadLemma
  <2> QED
    BY <1>2, <1>3, <2>1, <2>2 DEF Grow, Quiet, Keeps
<1> QED
  BY <1>4, <1>5, <1>6

LEMMA AddVirtualConnLemma ==
    ASSUME NEW p \in Node, NEW E \in SUBSET Node, NEW s,
           Base(s, p, E), s.vals, ~s.HRBCTerminated
    PROVE  /\ RecordInv(addVirtualConn(s, p), p, E)
           /\ Grow(s, addVirtualConn(s, p))
<1> DEFINE s1 == [s EXCEPT !.valDAG = TRUE]
           t == TryTent(s1)
           u == IF t.payloads = "held" THEN SendEcho(t, p) ELSE t
           w == IF u.vertexBuffer \/ u.virtualVertexBuffer THEN tryAddDAG(u) ELSE u
<1>1. /\ Base(s1, p, E) /\ s1.vals /\ s1.valDAG /\ ~s1.HRBCTerminated
      /\ s1.selfEcho = s.selfEcho /\ s1.payloads = s.payloads /\ s1.echoed = s.echoed
      /\ Keeps(s, s1)
  BY DEF Base, NodeState, Keeps
<1>2. /\ Base(t, p, E) /\ Quiet(s1, t) /\ Same(s1, t)
      /\ Cardinality(t.echoed) >= F + 1 => t.hasTent # {}
  <2> HIDE DEF s1
  <2>1. /\ Base(t, p, E) /\ Quiet(s1, t) /\ Same(s1, t)
        /\ Cardinality(s1.echoed) >= F + 1 => t.hasTent # {}
    BY <1>1, TryTentLemma
  <2> QED
    BY <2>1 DEF Quiet, Keeps
<1>3. RecordInv(t, p, E) /\ t.vals /\ t.valDAG /\ ~t.HRBCTerminated
  BY <1>1, <1>2 DEF RecordInv, Stage, Quiet, Same, Keeps
<1>4. RecordInv(u, p, E) /\ Grow(t, u) /\ u.valDAG
  <2> HIDE DEF t
  <2>1. CASE t.payloads = "held"
    <3>1. /\ Base(u, p, E) /\ Quiet([t EXCEPT !.selfEcho = TRUE], u) /\ Same(t, u)
          /\ u.DAG = t.DAG
          /\ t.hasTent # {} => u.hasTent # {}
      BY <1>2, <2>1, SendEchoLemma
    <3>2. /\ u.selfEcho /\ u.valDAG = t.valDAG /\ u.payloads = t.payloads
          /\ u.echoed = t.echoed
      BY <1>2, <3>1 DEF Base, NodeState, Quiet, Keeps
    <3> QED
      <4> HIDE DEF u
      <4>1. u.valDAG /\ u.vals /\ ~u.HRBCTerminated
        BY <1>3, <3>1, <3>2 DEF Same
      <4>2. Stage(u)
        BY <1>3, <3>1, <3>2, <4>1 DEF RecordInv, Stage
      <4>3. Grow(t, u)
        BY <2>1, <3>1, <3>2, <4>1 DEF Grow, Keeps, Same
      <4> QED
        BY <3>1, <4>1, <4>2, <4>3 DEF RecordInv
  <2>2. CASE t.payloads # "held"
    BY <1>3, <2>2 DEF Grow, Keeps
  <2> QED
    BY <2>1, <2>2
<1>5. RecordInv(w, p, E) /\ Quiet(u, w)
  <2> HIDE DEF u
  <2>1. CASE u.vertexBuffer \/ u.virtualVertexBuffer
    <3>1. u.certs # {}
      BY <1>4, <2>1 DEF RecordInv, Base
    <3>2. /\ Base(w, p, E) /\ Quiet(u, w) /\ Same(u, w) /\ w.hasTent = u.hasTent /\ w.DAG
      BY <1>4, <2>1, <3>1, TryAddDAGLemma DEF RecordInv
    <3> QED
      BY <1>4, <3>2 DEF RecordInv, Stage, Quiet, Same, Keeps
  <2>2. CASE ~(u.vertexBuffer \/ u.virtualVertexBuffer)
    BY <1>4, <2>2 DEF Quiet, Keeps
  <2> QED
    BY <2>1, <2>2
<1>6. addVirtualConn(s, p) = w
  BY DEF addVirtualConn
<1> QED
  <2> HIDE DEF s1, t, u, w
  <2> QED
    BY <1>1, <1>2, <1>3, <1>4, <1>5, <1>6 DEF Grow, Quiet, Keeps

LEMMA ReceiveValLemma ==
    ASSUME NEW p \in Node, NEW E \in SUBSET Node, NEW s, RecordInv(s, p, E)
    PROVE  RecordInv(onReceiveVal(s, p), p, E) /\ Grow(s, onReceiveVal(s, p))
<1> DEFINE t == [s EXCEPT !.vals = TRUE]
           u == addVirtualConn(t, p)
<1>1. CASE s.HRBCTerminated \/ s.vals
  BY <1>1 DEF onReceiveVal, Grow, Keeps
<1>2. CASE ~(s.HRBCTerminated \/ s.vals)
  <2>1. Base(t, p, E) /\ t.vals /\ ~t.HRBCTerminated /\ Quiet(s, t)
    BY <1>2 DEF RecordInv, Base, NodeState, Quiet, Keeps
  <2>2. RecordInv(u, p, E) /\ Grow(t, u)
    <3> HIDE DEF t
    <3> QED
      BY <2>1, AddVirtualConnLemma
  <2>3. RecordInv(TryDeliver(u, p), p, E) /\ Quiet(u, TryDeliver(u, p))
    <3> HIDE DEF u
    <3> QED
      BY <2>2, TryDeliverLemma
  <2>4. onReceiveVal(s, p) = TryDeliver(u, p)
    BY <1>2 DEF onReceiveVal
  <2> QED
    <3> HIDE DEF t, u
    <3> QED
      BY <2>1, <2>2, <2>3, <2>4 DEF Grow, Quiet, Keeps
<1> QED
  BY <1>1, <1>2
LEMMA ReceiveEchoLemma ==
    ASSUME NEW p \in Node, NEW E \in SUBSET Node, NEW s, RecordInv(s, p, E),
           NEW q \in E, p \in E => s.selfEcho
    PROVE  RecordInv(onReceiveEcho(s, p, q), p, E) /\ Grow(s, onReceiveEcho(s, p, q))
<1> DEFINE s1 == [s EXCEPT !.echos = @ \cup {q}, !.echoed = @ \cup {q}]
           t == TryTent(s1)
           u == Amplify(t)
<1>1. Base(s1, p, E) /\ s1 \in NodeState
  BY DEF RecordInv, Base, NodeState
<1>2. /\ s1.selfEcho = s.selfEcho /\ s1.valDAG = s.valDAG /\ s1.vals = s.vals
      /\ s1.payloads = s.payloads /\ s1.HRBCTerminated = s.HRBCTerminated
      /\ s1.DAG = s.DAG /\ s1.hasTent = s.hasTent /\ s1.certs = s.certs
  BY DEF RecordInv, Base, NodeState
<1>3. /\ Base(t, p, E) /\ Quiet(s1, t) /\ Same(s1, t) /\ t.DAG = s1.DAG
      /\ s1.hasTent # {} => t.hasTent # {}
      /\ s1.vals /\ Cardinality(s1.echoed) >= F + 1 => t.hasTent # {}
  <2> HIDE DEF s1
  <2> QED
    BY <1>1, TryTentLemma
<1>4. Stage(t)
  <2> HIDE DEF s1, t
  <2>1. t.vals => t.valDAG
    BY <1>2, <1>3 DEF RecordInv, Stage, Quiet, Same, Keeps
  <2>2. t.valDAG /\ ~t.vals => t.HRBCTerminated /\ t.selfEcho
    BY <1>2, <1>3 DEF RecordInv, Stage, Quiet, Same, Keeps
  <2>3. t.HRBCTerminated => t.valDAG /\ t.DAG
    BY <1>2, <1>3 DEF RecordInv, Stage, Quiet, Same, Keeps
  <2>4. t.valDAG /\ Cardinality(t.echoed) >= F + 1 => t.hasTent # {}
    BY <1>3, <2>2 DEF Quiet, Same, Base, Keeps
  <2> QED
    BY <2>1, <2>2, <2>3, <2>4 DEF Stage
<1>5. /\ RecordInv(u, p, E) /\ u.valDAG = t.valDAG /\ u.payloads = t.payloads
      /\ u.echoed = t.echoed
      /\ Keeps(t, u)
      /\ t.selfEcho => u.selfEcho
      /\ u.selfEcho /\ ~t.selfEcho => Cardinality(u.echoed) >= F + 1
  <2> HIDE DEF t
  <2>1. /\ u \in NodeState /\ u.echoed = t.echoed
        /\ u.selfEcho = (t.selfEcho \/ Cardinality(t.echoed) >= F + 1)
        /\ Same(t, u) /\ u.valDAG = t.valDAG /\ u.payloads = t.payloads
        /\ u.hasTent = t.hasTent /\ u.DAG = t.DAG
        /\ u.vertexBuffer = t.vertexBuffer
        /\ u.virtualVertexBuffer = t.virtualVertexBuffer
    BY <1>3 DEF Base, NodeState, Amplify, Same
  <2> HIDE DEF u
  <2>2. Base(u, p, E)
    BY <1>3, <2>1 DEF Base, Same
  <2>3. Stage(u)
    BY <1>4, <2>1 DEF Stage, Same
  <2> QED
    BY <2>1, <2>2, <2>3 DEF RecordInv, Keeps, Same
<1>6. Grow(s, u)
  <2> HIDE DEF s1, t, u
  <2> QED
    BY <1>2, <1>3, <1>5 DEF Grow, Quiet, Keeps
<1>7. CASE q \in s.echoed
  BY <1>7 DEF onReceiveEcho, Grow, Keeps
<1>8. CASE q \notin s.echoed /\ u.HRBCTerminated
  <2>1. onReceiveEcho(s, p, q) = Free(u, p)
    BY <1>8 DEF onReceiveEcho
  <2> HIDE DEF u
  <2>2. RecordInv(Free(u, p), p, E) /\ Quiet(u, Free(u, p))
    BY <1>5, <1>8, FreeLemma
  <2> QED
    BY <1>6, <2>1, <2>2 DEF Grow, Quiet, Keeps
<1>9. CASE q \notin s.echoed /\ ~u.HRBCTerminated
  <2>1. onReceiveEcho(s, p, q) = TryDeliver(u, p)
    BY <1>9 DEF onReceiveEcho
  <2> HIDE DEF u
  <2>2. RecordInv(TryDeliver(u, p), p, E) /\ Quiet(u, TryDeliver(u, p))
    BY <1>5, TryDeliverLemma
  <2> QED
    BY <1>6, <2>1, <2>2 DEF Grow, Quiet, Keeps
<1> QED
  BY <1>7, <1>8, <1>9

LEMMA AddQCLemma ==
    ASSUME NEW p \in Node, NEW E \in SUBSET Node, NEW s, RecordInv(s, p, E),
           NEW qc \in SUBSET Node, Strong(qc, E)
    PROVE  RecordInv(addQC(s, qc), p, E) /\ Grow(s, addQC(s, qc))
<1> DEFINE t == IF s.certs = {} THEN [s EXCEPT !.certs = qc] ELSE s
<1>1. qc # {}
  <2>1. N \in Nat /\ F \in Nat /\ N - F >= 1 /\ Cardinality({}) = 0
    BY NodeFacts
  <2> QED
    BY <2>1 DEF Strong
<1>2. /\ t \in NodeState /\ t.certs # {} /\ Strong(t.certs, E)
      /\ Quiet(s, t) /\ t.vals = s.vals /\ t.HRBCTerminated = s.HRBCTerminated
      /\ t.echos = s.echos /\ t.hasTent = s.hasTent /\ t.DAG = s.DAG
      /\ t.vertexBuffer = s.vertexBuffer
      /\ t.virtualVertexBuffer = s.virtualVertexBuffer
  BY <1>1 DEF RecordInv, Base, NodeState, Quiet, Keeps
<1>3. Base(t, p, E) /\ Stage(t)
  <2> HIDE DEF t
  <2>1. Base(t, p, E)
    BY <1>2 DEF RecordInv, Base, Quiet, Keeps
  <2>2. Stage(t)
    BY <1>2 DEF RecordInv, Stage, Quiet, Keeps
  <2> QED
    BY <2>1, <2>2
<1>4. CASE t.DAG
  <2>1. addQC(s, qc) = t
    BY <1>4 DEF addQC
  <2> QED
    BY <1>2, <1>3, <2>1 DEF RecordInv, Grow, Quiet, Keeps
<1>5. CASE ~t.DAG /\ t.vals
  <2>1. addQC(s, qc) = tryAddDAG(t)
    BY <1>5 DEF addQC
  <2> HIDE DEF t
  <2> DEFINE u == tryAddDAG(t)
  <2>2. /\ Base(u, p, E) /\ Quiet(t, u) /\ Same(t, u) /\ u.hasTent = t.hasTent
        /\ t.DAG \/ t.valDAG => u.DAG
    BY <1>2, <1>3, TryAddDAGLemma
  <2> HIDE DEF u
  <2>3. Stage(u)
    BY <1>3, <2>2 DEF Stage, Quiet, Same, Keeps
  <2> QED
    BY <1>2, <2>1, <2>2, <2>3 DEF u, RecordInv, Grow, Quiet, Keeps
<1>6. CASE ~t.DAG /\ ~t.vals
  <2>1. addQC(s, qc) = [t EXCEPT !.virtualVertexBuffer = TRUE]
    BY <1>6 DEF addQC
  <2> HIDE DEF t
  <2> DEFINE u == [t EXCEPT !.virtualVertexBuffer = TRUE]
  <2>2. Base(u, p, E) /\ Stage(u) /\ Quiet(t, u)
    BY <1>2, <1>3 DEF Base, Stage, Quiet, NodeState, Keeps
  <2> QED
    BY <1>2, <2>1, <2>2 DEF RecordInv, Grow, Quiet, Keeps
<1> QED
  BY <1>4, <1>5, <1>6

----------------------------------------------------------------------------
(***************************************************************************)
(* The inductive invariant: the records are sound for the nodes that have  *)
(* echoed, and so is every message; and either all of these nodes hold the *)
(* VAL and the payload, or F+1 nodes do.                                   *)
(***************************************************************************)
MessagesSound ==
    /\ \A p, q \in Node : Echo(p, q) \in msgs => q \in Echoers
    /\ \A p \in Node : \A qc \in SUBSET Node :
          /\ Sync(p, qc) \in msgs => qc \subseteq Echoers
          /\ NextVal(p, qc) \in msgs => Strong(qc, Echoers)

EnoughHolders == Echoers \subseteq Holders \/ Cardinality(Holders) >= F + 1

IInv ==
    /\ TypeOK
    /\ \A p \in Node : RecordInv(state[p], p, Echoers)
    /\ MessagesSound
    /\ EnoughHolders

LEMMA RecordMono ==
    ASSUME NEW p \in Node, NEW s, NEW E \in SUBSET Node, NEW G \in SUBSET Node,
           E \subseteq G, RecordInv(s, p, E)
    PROVE  RecordInv(s, p, G)
BY DEF RecordInv, Base, Weak, Strong

\* The part of a step that a handler's lemma leaves to prove.
LEMMA HandleLemma ==
    ASSUME IInv, NEW p \in Node, NEW m, NEW t, Handle(p, m, t),
           RecordInv(t, p, Echoers), Grow(state[p], t)
    PROVE  IInv'
<1>1. /\ t \in NodeState /\ state \in [Node -> NodeState]
      /\ state' = [state EXCEPT ![p] = t]
      /\ msgs' = (msgs \ {m}) \cup BroadcastMessage(p, state[p], t)
      /\ UNCHANGED <<proposed, successors, crashed>>
  BY DEF IInv, TypeOK, Handle, RecordInv, Base
<1>2. state'[p] = t /\ \A q \in Node \ {p} : state'[q] = state[q]
  BY <1>1
<1>3. /\ Echoers \subseteq Echoers' /\ Echoers' \subseteq Echoers \cup {p}
      /\ p \in Echoers' <=> p \notin Byz /\ t.selfEcho
  BY <1>1, <1>2 DEF Echoers, Grow, Keeps
<1>4. Echoers \in SUBSET Node /\ Echoers' \in SUBSET Node
  BY DEF Echoers
<1>5. Holders \subseteq Holders' /\ Holders \in SUBSET Node /\ Holders' \in SUBSET Node
  BY <1>1, <1>2 DEF Holders, Grow, Keeps
<1>6. TypeOK'
  <2>1. state' \in [Node -> NodeState]
    BY <1>1
  <2>2. BroadcastMessage(p, state[p], t) \subseteq Message
    BY <1>1 DEF BroadcastMessage, Message, NodeState
  <2> QED
    BY <1>1, <2>1, <2>2 DEF IInv, TypeOK
<1>7. ASSUME NEW q \in Node PROVE RecordInv(state'[q], q, Echoers')
  <2>1. RecordInv(state'[q], q, Echoers)
    BY <1>2 DEF IInv
  <2> QED
    BY <1>3, <1>4, <2>1, RecordMono
<1>8. MessagesSound'
  <2>1. ASSUME NEW a \in Node, NEW b \in Node, Echo(a, b) \in msgs' PROVE b \in Echoers'
    <3>1. Echo(a, b) \in msgs \/ (b = p /\ p \notin Byz /\ t.selfEcho)
      BY <1>1, <2>1 DEF BroadcastMessage, Echo, Sync
    <3>2. Echo(a, b) \in msgs => b \in Echoers
      BY DEF IInv, MessagesSound
    <3> QED
      BY <1>3, <3>1, <3>2
  <2>2. ASSUME NEW a \in Node, NEW qc \in SUBSET Node, Sync(a, qc) \in msgs'
        PROVE  qc \subseteq Echoers'
    <3>1. \/ Sync(a, qc) \in msgs
          \/ p \notin Byz /\ qc = t.hasTent /\ t.hasTent # {}
      BY <1>1, <2>2 DEF BroadcastMessage, Echo, Sync
    <3>2. t.hasTent # {} => t.hasTent \subseteq Echoers \cup {p} /\ (p \in t.hasTent => t.selfEcho)
      BY DEF RecordInv, Base, Weak
    <3> QED
      BY <1>3, <3>1, <3>2 DEF IInv, MessagesSound
  <2>3. ASSUME NEW a \in Node, NEW qc \in SUBSET Node, NextVal(a, qc) \in msgs'
        PROVE  Strong(qc, Echoers')
    <3>1. NextVal(a, qc) \in msgs
      BY <1>1, <2>3 DEF BroadcastMessage, Echo, Sync, NextVal
    <3> QED
      BY <1>3, <3>1 DEF IInv, MessagesSound, Strong
  <2> QED
    BY <2>1, <2>2, <2>3 DEF MessagesSound
<1>9. EnoughHolders'
  <2>1. CASE Cardinality(Holders) >= F + 1
    <3>1. Cardinality(Holders') >= F + 1
      BY <1>5, <2>1, NodeFacts
    <3> QED
      BY <3>1 DEF EnoughHolders
  <2>2. CASE Echoers \subseteq Holders /\ (p \in Echoers' => p \in Echoers)
    BY <1>3, <1>5, <2>2 DEF EnoughHolders
  <2>3. CASE Echoers \subseteq Holders /\ p \in Echoers' /\ p \notin Echoers
    <3>1. t.selfEcho /\ ~state[p].selfEcho
      BY <1>3, <2>3 DEF Echoers
    <3>2. CASE t.valDAG /\ t.payloads # "none"
      <4>1. p \in Holders'
        BY <1>2, <3>2 DEF Holders
      <4> QED
        BY <1>3, <1>5, <2>3, <4>1 DEF EnoughHolders
    <3>3. CASE Cardinality(t.echoed) >= F + 1
      <4>1. t.echoed \in SUBSET Holders'
        BY <1>5, <2>3 DEF RecordInv, Base
      <4>2. /\ Cardinality(t.echoed) <= Cardinality(Holders')
            /\ Cardinality(t.echoed) \in Nat /\ Cardinality(Holders') \in Nat
        BY <1>5, <4>1, NodeFacts
      <4> QED
        BY <3>3, <4>2, NodeFacts DEF EnoughHolders
    <3> QED
      BY <3>1, <3>2, <3>3 DEF Grow, Keeps
  <2> QED
    BY <2>1, <2>2, <2>3 DEF IInv, EnoughHolders
<1> QED
  BY <1>6, <1>7, <1>8, <1>9 DEF IInv
----------------------------------------------------------------------------
LEMMA InitInv == Init => IInv
<1> SUFFICES ASSUME Init PROVE IInv
  OBVIOUS
<1>1. Blank \in NodeState
  BY DEF Blank, NodeState
<1>2. TypeOK
  BY <1>1, HRBCAssumption DEF Init, TypeOK
<1>3. Echoers = {}
  BY DEF Init, Echoers, Blank
<1>4. ASSUME NEW p \in Node PROVE RecordInv(state[p], p, Echoers)
  <2>1. state[p] = Blank
    BY DEF Init
  <2>2. ~(Cardinality({}) >= F + 1)
    BY NodeFacts
  <2> QED
    BY <1>1, <1>3, <2>1, <2>2 DEF Blank, RecordInv, Base, Stage
<1>5. MessagesSound
  BY DEF Init, MessagesSound
<1>6. EnoughHolders
  BY <1>3 DEF EnoughHolders
<1> QED
  BY <1>2, <1>4, <1>5, <1>6 DEF IInv

\* A step that changes no record.
LEMMA SameRecords ==
    ASSUME IInv, state' = state, TypeOK', MessagesSound'
    PROVE  IInv'
<1>1. Echoers' = Echoers /\ Holders' = Holders
  BY DEF Echoers, Holders
<1>2. \A p \in Node : RecordInv(state'[p], p, Echoers')
  BY <1>1 DEF IInv
<1>3. EnoughHolders'
  BY <1>1 DEF IInv, EnoughHolders
<1> QED
  BY <1>2, <1>3 DEF IInv

\* A step that changes only the payload of p, which it has had before.
LEMMA PayloadStep ==
    ASSUME IInv, TypeOK', MessagesSound', NEW p \in Node, NEW v \in {"held", "executed"},
           state' = [state EXCEPT ![p].payloads = v]
    PROVE  IInv'
<1>1. state \in [Node -> NodeState]
  BY DEF IInv, TypeOK
<1>2. \A q \in Node : /\ state'[q].selfEcho = state[q].selfEcho
                      /\ state'[q].valDAG = state[q].valDAG
                      /\ state[q].payloads # "none" => state'[q].payloads # "none"
  BY <1>1 DEF NodeState
<1>3. Echoers' = Echoers /\ Holders \subseteq Holders'
  BY <1>2 DEF Echoers, Holders
<1>4. ASSUME NEW q \in Node PROVE RecordInv(state'[q], q, Echoers')
  <2> DEFINE s == state[q]
             t == state'[q]
  <2>1. RecordInv(s, q, Echoers)
    BY DEF IInv
  <2>2. /\ t.vals = s.vals /\ t.valDAG = s.valDAG /\ t.echos = s.echos
        /\ t.echoed = s.echoed /\ t.selfEcho = s.selfEcho /\ t.hasTent = s.hasTent
        /\ t.certs = s.certs /\ t.HRBCTerminated = s.HRBCTerminated
        /\ t.vertexBuffer = s.vertexBuffer
        /\ t.virtualVertexBuffer = s.virtualVertexBuffer /\ t.DAG = s.DAG
    BY <1>1 DEF NodeState
  <2>3. t \in NodeState
    BY DEF TypeOK
  <2> HIDE DEF s, t
  <2>4. Base(t, q, Echoers)
    BY <2>1, <2>2, <2>3 DEF RecordInv, Base
  <2>5. Stage(t)
    BY <2>1, <2>2 DEF RecordInv, Stage
  <2> QED
    BY <1>3, <2>4, <2>5 DEF RecordInv, t
<1>5. EnoughHolders'
  <2>1. Holders' \in SUBSET Node /\ Holders \in SUBSET Holders'
    BY <1>3 DEF Holders
  <2>2. /\ Cardinality(Holders) \in Nat /\ Cardinality(Holders') \in Nat
        /\ Cardinality(Holders) <= Cardinality(Holders')
    BY <2>1, NodeFacts
  <2> QED
    BY <1>3, <2>2, NodeFacts DEF IInv, EnoughHolders
<1> QED
  BY <1>4, <1>5 DEF IInv

LEMMA NextInv == IInv /\ [Next]_vars => IInv'
<1> SUFFICES ASSUME IInv, [Next]_vars PROVE IInv'
  OBVIOUS
<1> USE DEF IInv
<1>1. Echoers \in SUBSET Node
  BY DEF Echoers
<1>2. \A p \in Node : p \in Echoers => state[p].selfEcho
  BY DEF Echoers
<1>3. CASE Propose
  <2>1. state' = [state EXCEPT ![Sender].payloads = "held"] /\ Sender \in Node
    BY <1>3, HRBCAssumption DEF Propose
  <2>2. TypeOK'
    BY <1>3, HRBCAssumption DEF Propose, TypeOK, NodeState, Message
  <2>3. state \in [Node -> NodeState]
    BY DEF TypeOK
  <2>4. Echoers' = Echoers
    BY <2>1, <2>3 DEF Echoers, NodeState
  <2>5. MessagesSound'
    <3>1. \A m \in msgs' \ msgs : m.type \in {"VAL", "PAYLOAD"}
      BY <1>3 DEF Propose, Val, Payload
    <3>2. \A a, x : /\ Echo(a, x).type = "ECHO" /\ Sync(a, x).type = "SYNC"
                    /\ NextVal(a, x).type = "NEXT"
      BY DEF Echo, Sync, NextVal
    <3>3. \A a, x : /\ Echo(a, x) \in msgs' => Echo(a, x) \in msgs
                    /\ Sync(a, x) \in msgs' => Sync(a, x) \in msgs
                    /\ NextVal(a, x) \in msgs' => NextVal(a, x) \in msgs
      BY <3>1, <3>2
    <3> QED
      BY <2>4, <3>3 DEF MessagesSound, Strong
  <2> QED
    BY <2>1, <2>2, <2>5, PayloadStep
<1>4. ASSUME NEW p \in Node, ReceiveVal(p) PROVE IInv'
  BY <1>1, <1>4, ReceiveValLemma, HandleLemma DEF ReceiveVal
<1>5. ASSUME NEW p \in Node, NEW k \in Slice, ReceivePayload(p, k) PROVE IInv'
  BY <1>1, <1>5, ReceivePayloadLemma, HandleLemma DEF ReceivePayload
<1>6. ASSUME NEW p \in Node, NEW q \in Node, ReceiveEcho(p, q) PROVE IInv'
  <2>1. q \in Echoers
    BY <1>6 DEF ReceiveEcho, Handle, MessagesSound
  <2> QED
    BY <1>1, <1>2, <1>6, <2>1, ReceiveEchoLemma, HandleLemma DEF ReceiveEcho
<1>7. ASSUME NEW p \in Node, NEW qc \in SUBSET Node, ReceiveNextVal(p, qc) PROVE IInv'
  <2>1. Strong(qc, Echoers)
    BY <1>7 DEF ReceiveNextVal, Handle, MessagesSound
  <2> QED
    BY <1>1, <1>7, <2>1, AddQCLemma, HandleLemma DEF ReceiveNextVal
<1>8. ASSUME NEW p \in Node, NEW qc \in SUBSET Node, ReceiveSync(p, qc) PROVE IInv'
  <2>1. state' = state /\ Echoers' = Echoers
    BY <1>8 DEF ReceiveSync, Echoers
  <2>2. qc \subseteq Echoers
    BY <1>8 DEF ReceiveSync, MessagesSound
  <2>3. TypeOK'
    BY <1>8 DEF ReceiveSync, TypeOK, Message
  <2>4. MessagesSound'
    BY <1>8, <2>1, <2>2 DEF ReceiveSync, MessagesSound, Echo, Sync, NextVal, Strong
  <2> QED
    BY <2>1, <2>3, <2>4, SameRecords
<1>9. ASSUME NEW q \in Node, ProposeNext(q) PROVE IInv'
  <2>1. state' = state /\ Echoers' = Echoers
    BY <1>9 DEF ProposeNext, Echoers
  <2>2. Strong(state[q].certs, Echoers) /\ state[q].certs \in SUBSET Node
    BY <1>9 DEF ProposeNext, RecordInv, Base, NodeState
  <2>3. TypeOK'
    BY <1>9, <2>2 DEF ProposeNext, TypeOK, Message
  <2>4. MessagesSound'
    BY <1>9, <2>1, <2>2 DEF ProposeNext, MessagesSound, Echo, Sync, NextVal, Strong
  <2> QED
    BY <2>1, <2>3, <2>4, SameRecords
<1>10. ASSUME NEW p \in Node, Execute(p) PROVE IInv'
  <2>1. state' = [state EXCEPT ![p].payloads = "executed"] /\ UNCHANGED msgs
    BY <1>10 DEF Execute
  <2>2. TypeOK'
    BY <1>10 DEF Execute, TypeOK, NodeState
  <2>3. state \in [Node -> NodeState]
    BY DEF TypeOK
  <2>4. Echoers' = Echoers
    BY <2>1, <2>3 DEF Echoers, NodeState
  <2>5. MessagesSound'
    BY <2>1, <2>4 DEF MessagesSound, Strong
  <2> QED
    BY <2>1, <2>2, <2>5, PayloadStep
<1>11. ASSUME NEW p \in Node, Crash(p) PROVE IInv'
  <2>1. state' = state /\ UNCHANGED msgs /\ Echoers' = Echoers
    BY <1>11 DEF Crash, Echoers
  <2>2. TypeOK'
    BY <1>11 DEF Crash, TypeOK
  <2>3. MessagesSound'
    BY <2>1 DEF MessagesSound, Strong
  <2> QED
    BY <2>1, <2>2, <2>3, SameRecords
<1>12. CASE UNCHANGED vars
  <2>1. state' = state /\ UNCHANGED msgs /\ Echoers' = Echoers /\ TypeOK'
    BY <1>12 DEF vars, Echoers, TypeOK
  <2>2. MessagesSound'
    BY <2>1 DEF MessagesSound, Strong
  <2> QED
    BY <2>1, <2>2, SameRecords
<1> QED
  BY <1>3, <1>4, <1>5, <1>6, <1>7, <1>8, <1>9, <1>10, <1>11, <1>12 DEF Next
THEOREM InvariantHolds == Spec => []IInv
BY InitInv, NextInv, PTL DEF Spec

----------------------------------------------------------------------------
(***************************************************************************)
(* The messages and the entries of the maps of every node have their types *)
(* in every reachable state, for any number of nodes.                      *)
(***************************************************************************)
THEOREM TypeCorrect == Spec => []TypeOK
<1>1. IInv => TypeOK
  BY DEF IInv
<1> QED
  BY <1>1, InvariantHolds, PTL

(***************************************************************************)
(* Every certificate a node stores carries N-F signatures of nodes that    *)
(* echoed the vertex, and a vertex in the DAG has a certificate, although  *)
(* the signatures are freed while echoes still come in.                    *)
(***************************************************************************)
THEOREM CertificatesAreQuorums == Spec => []CertQuorum
<1>1. IInv => CertQuorum
  BY DEF IInv, RecordInv, Base, Strong, CertQuorum
<1> QED
  BY <1>1, InvariantHolds, PTL

(***************************************************************************)
(* A weak certificate has F+1 signatures, of nodes that echoed and of the  *)
(* node that built it, whichever handler built it.                         *)
(***************************************************************************)
THEOREM WeakCertificatesAreSound == Spec => []WeakCertSound
<1>1. IInv => WeakCertSound
  BY DEF IInv, RecordInv, Base, Weak, WeakCertSound
<1> QED
  BY <1>1, InvariantHolds, PTL

(***************************************************************************)
(* handlePayload, addVirtualConn and handleEcho never find a nil VAL.      *)
(***************************************************************************)
THEOREM ValIsRetained == Spec => []ValRetained
<1>1. IInv => ValRetained
  BY DEF IInv, RecordInv, Base, Stage, ValRetained
<1> QED
  BY <1>1, InvariantHolds, PTL

(***************************************************************************)
(* Whatever amplification does, a certified vertex has its VAL and payload *)
(* at F+1 nodes at least.                                                  *)
(***************************************************************************)
THEOREM CertifiedIsAvailable == Spec => []CertAvailable
<1>1. ASSUME IInv PROVE CertAvailable
  <2> SUFFICES ASSUME NEW p \in Node, state[p].certs # {}
               PROVE  Cardinality(Holders) >= F + 1
    BY DEF CertAvailable
  <2> DEFINE qc == state[p].certs
  <2>1. Strong(qc, Echoers)
    BY <1>1 DEF IInv, RecordInv, Base
  <2>2. CASE Echoers \subseteq Holders
    <3>1. Holders \in SUBSET Node /\ qc \in SUBSET Holders
      BY <2>1, <2>2 DEF Holders, Strong
    <3>2. /\ Cardinality(qc) <= Cardinality(Holders)
          /\ Cardinality(qc) \in Nat /\ Cardinality(Holders) \in Nat
      BY <3>1, NodeFacts
    <3> QED
      BY <2>1, <3>2, NodeFacts DEF Strong
  <2> QED
    BY <1>1, <2>2 DEF IInv, EnoughHolders
<1> QED
  BY <1>1, InvariantHolds, PTL

----------------------------------------------------------------------------
(***************************************************************************)
(* The refinement of CertifiedBroadcast.                                   *)
(***************************************************************************)
LEMMA InitBroadcasts == Init => CB!Init
BY DEF Init, Blank, CB!Init, Echoers

\* What the handling of a message at p does to the other nodes is nothing.
LEMMA HandleBroadcasts ==
    ASSUME IInv, NEW p \in Node, NEW t, state' = [state EXCEPT ![p] = t],
           RecordInv(t, p, Echoers), Grow(state[p], t)
    PROVE  CB!Next
<1> DEFINE known == {q \in Node : state[q].valDAG}
           held == {q \in Node : state[q].payloads # "none"}
           cert == [q \in Node |-> state[q].certs]
           delivered == {q \in Node : state[q].DAG}
<1>1. state \in [Node -> NodeState] /\ t \in NodeState
  BY DEF IInv, TypeOK, RecordInv, Base
<1>2. state'[p] = t /\ \A q \in Node \ {p} : state'[q] = state[q]
  BY <1>1
<1>3. CB!Obtain(p)
  <2>1. known' \in {known, known \cup {p}} /\ held' \in {held, held \cup {p}}
    BY <1>2 DEF Grow
  <2> QED
    BY <2>1 DEF CB!Obtain
<1>4. CB!Vote(p)
  <2>1. Echoers' = Echoers \/ (Echoers' = Echoers \cup {p} /\ t.selfEcho /\ ~state[p].selfEcho)
    BY <1>2 DEF Echoers, Grow
  <2>2. CASE t.valDAG /\ t.payloads # "none"
    <3>1. p \in known' \cap held'
      BY <1>2, <2>2
    <3> QED
      BY <2>1, <3>1 DEF CB!Vote
  <2>3. CASE Cardinality(t.echoed) >= F + 1
    <3>1. t.echoed \in SUBSET Echoers /\ Echoers \in SUBSET Node
      BY DEF RecordInv, Base, Echoers
    <3>2. /\ Cardinality(t.echoed) <= Cardinality(Echoers)
          /\ Cardinality(t.echoed) \in Nat /\ Cardinality(Echoers) \in Nat /\ F \in Nat
      BY <3>1, NodeFacts
    <3>3. Echoers \in SUBSET Node /\ Cardinality(Echoers) >= F + 1
      BY <2>3, <3>1, <3>2
    <3> QED
      BY <2>1, <3>3 DEF CB!Vote
  <2>4. CASE Echoers' = Echoers
    BY <2>4 DEF CB!Vote
  <2> QED
    BY <2>1, <2>2, <2>3, <2>4 DEF Grow
<1>5. CB!Certify(p)
  <2>1. cert' = [cert EXCEPT ![p] = t.certs]
    <3>1. cert' = [q \in Node |-> IF q = p THEN t.certs ELSE state[q].certs]
      BY <1>2
    <3> QED
      BY <3>1
  <2>2. CASE t.certs = {}
    <3>1. state[p].certs = {}
      BY <2>2 DEF Grow, Keeps
    <3>2. cert' = cert
      BY <1>2, <2>2, <3>1
    <3> QED
      BY <3>2 DEF CB!Certify
  <2>3. CASE t.certs # {}
    <3>1. /\ t.certs \in {Q \in SUBSET Node : Cardinality(Q) >= N - F}
          /\ t.certs \subseteq Echoers
      BY <1>1, <2>3 DEF RecordInv, Base, Strong, NodeState
    <3> QED
      BY <2>1, <3>1 DEF CB!Certify
  <2> QED
    BY <2>2, <2>3
<1>6. CB!Deliver(p)
  <2>1. delivered' = delivered \/ (delivered' = delivered \cup {p} /\ t.DAG)
    BY <1>2 DEF Grow, Keeps
  <2>2. CASE t.DAG
    <3>1. p \in known' /\ cert'[p] # {}
      BY <1>2, <2>2 DEF RecordInv, Base
    <3> QED
      BY <2>1, <2>2, <3>1 DEF CB!Deliver
  <2>3. CASE delivered' = delivered
    BY <2>3 DEF CB!Deliver
  <2> QED
    BY <2>1, <2>2, <2>3
<1> QED
  BY <1>3, <1>4, <1>5, <1>6 DEF CB!Next

\* A step that only changes the payload of p.
LEMMA PayloadBroadcasts ==
    ASSUME IInv, NEW p \in Node, NEW v \in {"held", "executed"},
           state' = [state EXCEPT ![p].payloads = v]
    PROVE  CB!Next
<1>1. state \in [Node -> NodeState]
  BY DEF IInv, TypeOK
<1>2. \A q \in Node : /\ state'[q].selfEcho = state[q].selfEcho
                      /\ state'[q].valDAG = state[q].valDAG
                      /\ state'[q].certs = state[q].certs
                      /\ state'[q].DAG = state[q].DAG
                      /\ q # p => state'[q].payloads = state[q].payloads
  BY <1>1 DEF NodeState
<1>3. state'[p].payloads = v
  BY <1>1 DEF NodeState
<1>4. CB!Obtain(p)
  <2>1. {q \in Node : state'[q].valDAG} = {q \in Node : state[q].valDAG}
    BY <1>2
  <2>2. {q \in Node : state'[q].payloads # "none"} = {q \in Node : state[q].payloads # "none"} \cup {p}
    BY <1>2, <1>3
  <2> QED
    BY <2>1, <2>2 DEF CB!Obtain
<1>5. Echoers' = Echoers
  BY <1>2 DEF Echoers
<1>6. /\ [q \in Node |-> state'[q].certs] = [q \in Node |-> state[q].certs]
      /\ {q \in Node : state'[q].DAG} = {q \in Node : state[q].DAG}
  BY <1>2
<1>7. CB!Vote(p) /\ CB!Certify(p) /\ CB!Deliver(p)
  BY <1>5, <1>6 DEF CB!Vote, CB!Certify, CB!Deliver
<1> QED
  BY <1>4, <1>7 DEF CB!Next

LEMMA SameStateStutters == state' = state => UNCHANGED CB!vars
BY DEF CB!vars, Echoers

LEMMA NextBroadcasts == IInv /\ [Next]_vars => [CB!Next]_(CB!vars)
<1> SUFFICES ASSUME IInv, [Next]_vars PROVE CB!Next \/ UNCHANGED CB!vars
  OBVIOUS
<1>0. /\ \A p \in Node : RecordInv(state[p], p, Echoers)
      /\ MessagesSound /\ Echoers \in SUBSET Node
      /\ \A p \in Node : p \in Echoers => state[p].selfEcho
  BY DEF IInv, Echoers
<1>1. CASE Propose
  BY <1>1, PayloadBroadcasts, HRBCAssumption DEF Propose
<1>2. ASSUME NEW p \in Node, ReceiveVal(p) PROVE CB!Next
  BY <1>0, <1>2, ReceiveValLemma, HandleBroadcasts DEF ReceiveVal, Handle
<1>3. ASSUME NEW p \in Node, NEW k \in Slice, ReceivePayload(p, k) PROVE CB!Next
  BY <1>0, <1>3, ReceivePayloadLemma, HandleBroadcasts DEF ReceivePayload, Handle
<1>4. ASSUME NEW p \in Node, NEW q \in Node, ReceiveEcho(p, q) PROVE CB!Next
  <2>1. q \in Echoers
    BY <1>0, <1>4 DEF ReceiveEcho, Handle, MessagesSound
  <2> QED
    BY <1>0, <1>4, <2>1, ReceiveEchoLemma, HandleBroadcasts DEF ReceiveEcho, Handle
<1>5. ASSUME NEW p \in Node, NEW qc \in SUBSET Node, ReceiveNextVal(p, qc) PROVE CB!Next
  <2>1. Strong(qc, Echoers)
    BY <1>0, <1>5 DEF ReceiveNextVal, Handle, MessagesSound
  <2> QED
    BY <1>0, <1>5, <2>1, AddQCLemma, HandleBroadcasts DEF ReceiveNextVal, Handle
<1>6. ASSUME NEW p \in Node, Execute(p) PROVE CB!Next
  BY <1>6, PayloadBroadcasts DEF Execute
<1>7. ASSUME NEW p \in Node,
             \/ \E qc \in SUBSET Node : ReceiveSync(p, qc)
             \/ ProposeNext(p) \/ Crash(p)
      PROVE  UNCHANGED CB!vars
  BY <1>7, SameStateStutters DEF ReceiveSync, ProposeNext, Crash
<1>8. CASE UNCHANGED vars
  BY <1>8, SameStateStutters DEF vars
<1> QED
  BY <1>1, <1>2, <1>3, <1>4, <1>5, <1>6, <1>7, <1>8 DEF Next

(***************************************************************************)
(* HRBC implements CertifiedBroadcast: whatever order VAL, PAYLOAD, ECHO,  *)
(* SYNC, certificates of the next round, deletions and crashes come in,    *)
(* each step is one node obtaining, voting, certifying or delivering on    *)
(* the grounds the abstract broadcast asks for, and nothing is taken back. *)
(***************************************************************************)
THEOREM ImplementsBroadcast == Spec => CB!Init /\ OneBroadcast
BY InvariantHolds, InitBroadcasts, NextBroadcasts, PTL DEF Spec, OneBroadcast
=============================================================================
