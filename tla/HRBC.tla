------------------------------- MODULE HRBC -------------------------------
(***************************************************************************)
(* The certified broadcast of ONE vertex <round, Sender> (the code calls   *)
(* the instance HRBC, after the map HRBCTerminated): VAL and PAYLOAD       *)
(* messages from the proposer, ECHO messages between all nodes, the SYNC   *)
(* message that forwards a weak certificate, and the entry of the vertex   *)
(* into the DAG of every node.                                             *)
(*                                                                         *)
(* A node keeps, for every vertex, one entry in each of the maps of type   *)
(* map[round]map[sender]...; state[p] is the record of node p's entries    *)
(* for this vertex, under the names of the maps.  The handlers of node.go  *)
(* run to completion in mainLoop, one message at a time, so each of them   *)
(* is an operator from such a record to the next one, and each action is   *)
(* the handling of one message.                                            *)
(***************************************************************************)
EXTENDS Naturals, FiniteSets

CONSTANTS
    Node,       \* the identifiers 1..cfg.N, as model values
    Sender,     \* the proposer of the vertex
    F,          \* cfg.F
    Byz,        \* nodes started with -b 1: they broadcast VAL and PAYLOAD only
    Absent,     \* nodes never started (the crash nodes, -w, of the test)
    SyncNodes,  \* nodes at which tryBroadcastSync finds its round condition true
    Successors, \* nodes that may propose a next-round vertex listing this one
    Executors,  \* nodes that may execute the vertex within the behaviour
    SliceNum,   \* number of slices, hence of connections, of a payload
    MaxCrash    \* bound on the number of nodes that are down, Absent included

N == Cardinality(Node)

ASSUME HRBCAssumption ==
    /\ IsFiniteSet(Node) /\ Sender \in Node
    /\ F \in Nat /\ 3 * F < N
    /\ Byz \subseteq Node /\ Absent \subseteq Node /\ SyncNodes \subseteq Node
    /\ Successors \subseteq Node /\ Executors \subseteq Node
    /\ SliceNum \in Nat \ {0} /\ MaxCrash \in Nat

VARIABLES
    state,      \* state[p]: node p's entries for the vertex
    msgs,       \* messages sent and not yet handled by their receiver
    proposed,   \* the Sender has run propose() for this round
    successors, \* the Successors that have proposed in the next round
    crashed     \* nodes whose process does not run

vars == <<state, msgs, proposed, successors, crashed>>

Slice == 1..SliceNum

NodeState ==
    [vals: BOOLEAN,                 \* the VAL message is stored
     valDAG: BOOLEAN,               \* the VAL message has been handled
     payloads: {"none", "held", "executed"},  \* "executed": held, then deleted
     mergeMsg: SUBSET Slice,        \* slices waiting for the others
     echos: SUBSET Node,            \* signatures kept for a certificate
     echoed: SUBSET Node,           \* nodes whose ECHO has been counted
     selfEcho: BOOLEAN,             \* the node's own ECHO has been broadcast
     hasTent: SUBSET Node,          \* signers of the weak certificate, {} if none yet
     weakCerts: SUBSET Node,        \* that certificate while adaptive wait holds it
     certs: SUBSET Node,            \* signers of the certificate, {} if none yet
     HRBCTerminated: BOOLEAN,
     vertexBuffer: BOOLEAN,         \* certified, VAL not handled (tryAddDAG)
     virtualVertexBuffer: BOOLEAN,  \* known from a successor, VAL not received
     DAG: BOOLEAN]

Blank ==
    [vals |-> FALSE, valDAG |-> FALSE, payloads |-> "none", mergeMsg |-> {},
     echos |-> {}, echoed |-> {}, selfEcho |-> FALSE, hasTent |-> {},
     weakCerts |-> {}, certs |-> {}, HRBCTerminated |-> FALSE,
     vertexBuffer |-> FALSE, virtualVertexBuffer |-> FALSE, DAG |-> FALSE]

Val(p)        == [type |-> "VAL", to |-> p]
Payload(p, k) == [type |-> "PAYLOAD", to |-> p, slice |-> k]
Echo(p, q)    == [type |-> "ECHO", to |-> p, from |-> q]
Sync(p, qc)   == [type |-> "SYNC", to |-> p, qc |-> qc]
NextVal(p, qc) == [type |-> "NEXT", to |-> p, qc |-> qc]

Message ==
    {Val(p) : p \in Node} \cup {Payload(p, k) : p \in Node, k \in Slice}
      \cup {Echo(p, q) : p \in Node, q \in Node}
      \cup {Sync(p, qc) : p \in Node, qc \in SUBSET Node}
      \cup {NextVal(p, qc) : p \in Node, qc \in SUBSET Node}

----------------------------------------------------------------------------
(***************************************************************************)
(* The functions of node.go, on the record s of the node p.  An operator   *)
(* whose name ends in _X is a seeded fault of the next one, which a        *)
(* property must detect; no specification uses it.                         *)
(***************************************************************************)

\* The weak certificate is built once, from the signatures sigs.
Tent(s, sigs) == [s EXCEPT !.hasTent = sigs, !.weakCerts = sigs]

\* F+1 counted echoes make a weak certificate.
TryTent(s) ==
    IF s.hasTent = {} /\ s.vals /\ Cardinality(s.echoed) >= F + 1
    THEN Tent(s, s.echos) ELSE s

\* The own signature is not added to the F counted ones.
SendEcho_X(s, p) ==
    IF s.selfEcho THEN s
    ELSE LET t == [s EXCEPT !.selfEcho = TRUE]
         IN  IF t.hasTent = {} /\ Cardinality(t.echoed) >= F
             THEN Tent(t, t.echos) ELSE t

\* Broadcast the own ECHO once; F echoes of others and this one are a weak
\* certificate too.
SendEcho(s, p) ==
    IF s.selfEcho THEN s
    ELSE LET t == [s EXCEPT !.selfEcho = TRUE]
         IN  IF t.hasTent = {} /\ Cardinality(t.echoed) >= F
             THEN Tent(t, t.echos \cup {p}) ELSE t

tryAddDAG(s) ==
    CASE s.DAG -> s
      [] ~s.DAG /\ ~s.valDAG -> [s EXCEPT !.vertexBuffer = TRUE]
      [] OTHER -> [s EXCEPT !.DAG = TRUE, !.weakCerts = {},
                            !.vertexBuffer = FALSE, !.virtualVertexBuffer = FALSE]

\* The VAL and the signatures are freed once the own ECHO has come back.
Free(s, p) ==
    IF p \in s.echos THEN [s EXCEPT !.vals = FALSE, !.echos = {}] ELSE s

\* The signatures are freed before the certificate is built from them.
onReceiveDeliver_X(s, p) == LET t == Free(s, p) IN tryAddDAG([t EXCEPT !.certs = t.echos])

onReceiveDeliver(s, p) == Free(tryAddDAG([s EXCEPT !.certs = s.echos]), p)

\* The check that ends handlePayload, handleVal and handleEcho.
TryDeliver(s, p) ==
    IF ~s.HRBCTerminated /\ s.vals /\ Cardinality(s.echos) >= N - F
    THEN onReceiveDeliver([s EXCEPT !.HRBCTerminated = TRUE], p) ELSE s

handlePayload(s, p) ==
    IF s.valDAG THEN TryDeliver(SendEcho(s, p), p) ELSE s

onReceivePayload(s, p, k) ==
    LET t == [s EXCEPT !.mergeMsg = @ \cup {k}]
        u == [t EXCEPT !.mergeMsg = {}, !.payloads = "held"]
    IN  IF t.mergeMsg # Slice \/ t.payloads = "held" THEN t
        ELSE IF u.HRBCTerminated THEN u ELSE handlePayload(u, p)

\* A node that has the payload already does not echo when the VAL comes.
addVirtualConn_X(s, p) ==
    LET t == TryTent([s EXCEPT !.valDAG = TRUE])
    IN  IF t.vertexBuffer \/ t.virtualVertexBuffer THEN tryAddDAG(t) ELSE t

\* The own ECHO does not wait for the payload.
addVirtualConn_early_X(s, p) ==
    LET t == SendEcho(TryTent([s EXCEPT !.valDAG = TRUE]), p)
    IN  IF t.vertexBuffer \/ t.virtualVertexBuffer THEN tryAddDAG(t) ELSE t

addVirtualConn(s, p) ==
    LET t == TryTent([s EXCEPT !.valDAG = TRUE])
        u == IF t.payloads = "held" THEN SendEcho(t, p) ELSE t
    IN  IF u.vertexBuffer \/ u.virtualVertexBuffer THEN tryAddDAG(u) ELSE u

onReceiveVal(s, p) ==
    IF s.HRBCTerminated \/ s.vals THEN s
    ELSE TryDeliver(addVirtualConn([s EXCEPT !.vals = TRUE], p), p)

\* One echo too few, and no amplification at all.
Amplify_X(s) == [s EXCEPT !.selfEcho = @ \/ Cardinality(s.echoed) >= F]
Amplify_none_X(s) == s

\* F+1 counted echoes make a node echo, with or without VAL and payload.
Amplify(s) == [s EXCEPT !.selfEcho = @ \/ Cardinality(s.echoed) >= F + 1]

\* VAL and signatures are freed without the check of HRBCTerminated.
onReceiveEcho_X(s, p, q) ==
    LET t == TryTent([s EXCEPT !.echos = @ \cup {q}, !.echoed = @ \cup {q}])
    IN  IF q \in s.echoed THEN s ELSE Free(TryDeliver(Amplify(t), p), p)

onReceiveEcho(s, p, q) ==
    LET t == TryTent([s EXCEPT !.echos = @ \cup {q}, !.echoed = @ \cup {q}])
        u == Amplify(t)
    IN  IF q \in s.echoed THEN s
        ELSE IF u.HRBCTerminated THEN Free(u, p) ELSE TryDeliver(u, p)

\* A verified VAL of the next round lists the vertex with certificate qc.
addQC(s, qc) ==
    LET t == IF s.certs = {} THEN [s EXCEPT !.certs = qc] ELSE s
    IN  CASE t.DAG -> t
          [] ~t.DAG /\ t.vals -> tryAddDAG(t)
          [] OTHER -> [t EXCEPT !.virtualVertexBuffer = TRUE]

----------------------------------------------------------------------------
Init ==
    /\ state = [p \in Node |-> Blank]
    /\ msgs = {}
    /\ proposed = FALSE
    /\ successors = {}
    /\ crashed = Absent

(***************************************************************************)
(* What p broadcasts when its record goes from s to t.  BroadcastMessage   *)
(* drops everything but VAL and PAYLOAD at a byzantine node, and sends to  *)
(* the node itself as well.                                                *)
(***************************************************************************)
BroadcastMessage(p, s, t) ==
    IF p \in Byz THEN {}
    ELSE {Echo(q, p) : q \in {x \in Node : t.selfEcho /\ ~s.selfEcho}}
           \cup {Sync(q, t.hasTent) :
                   q \in {x \in Node : p \in SyncNodes /\ s.hasTent = {} /\ t.hasTent # {}}}

\* Node p handles m, which takes its record to t.
Handle(p, m, t) ==
    /\ p \notin crashed
    /\ m \in msgs
    /\ state' = [state EXCEPT ![p] = t]
    /\ msgs' = (msgs \ {m}) \cup BroadcastMessage(p, state[p], t)
    /\ UNCHANGED <<proposed, successors, crashed>>

\* Slices numbered from 0.
Propose_X ==
    /\ ~proposed /\ Sender \notin crashed
    /\ proposed' = TRUE
    /\ state' = [state EXCEPT ![Sender].payloads = "held"]
    /\ msgs' = msgs \cup {Val(p) : p \in Node} \cup {Payload(p, k - 1) : p \in Node, k \in Slice}
    /\ UNCHANGED <<successors, crashed>>

Propose ==
    /\ ~proposed /\ Sender \notin crashed
    /\ proposed' = TRUE
    /\ state' = [state EXCEPT ![Sender].payloads = "held"]
    /\ msgs' = msgs \cup {Val(p) : p \in Node} \cup {Payload(p, k) : p \in Node, k \in Slice}
    /\ UNCHANGED <<successors, crashed>>

ReceiveVal(p)        == Handle(p, Val(p), onReceiveVal(state[p], p))
ReceivePayload(p, k) == Handle(p, Payload(p, k), onReceivePayload(state[p], p, k))
ReceiveEcho(p, q)    == Handle(p, Echo(p, q), onReceiveEcho(state[p], p, q))

\* onReceiveSync posts the echoes it has not counted to the node's own channel.
ReceiveSync(p, qc) ==
    /\ p \notin crashed
    /\ Sync(p, qc) \in msgs
    /\ msgs' = (msgs \ {Sync(p, qc)}) \cup {Echo(p, q) : q \in qc \ state[p].echoed}
    /\ UNCHANGED <<state, proposed, successors, crashed>>

\* q has the vertex in its DAG when it proposes in the next round.
ProposeNext(q) ==
    /\ q \in Successors \ (successors \cup crashed)
    /\ state[q].DAG
    /\ successors' = successors \cup {q}
    /\ msgs' = msgs \cup {NextVal(p, state[q].certs) : p \in Node}
    /\ UNCHANGED <<state, proposed, crashed>>

ReceiveNextVal(p, qc) == Handle(p, NextVal(p, qc), addQC(state[p], qc))

(***************************************************************************)
(* tryCommit, executeBack and weakExc delete the payload of the vertex     *)
(* they execute.  They run at the end of handlers, of this or of another   *)
(* vertex, when some descendant with a certificate for it is committed.    *)
(***************************************************************************)
Execute(p) ==
    /\ p \in Executors \ crashed
    /\ state[p].payloads = "held"
    /\ \E q \in Node : state[q].certs # {}
    /\ state' = [state EXCEPT ![p].payloads = "executed"]
    /\ UNCHANGED <<msgs, proposed, successors, crashed>>

Crash(p) ==
    /\ p \notin crashed /\ Cardinality(crashed) < MaxCrash
    /\ crashed' = crashed \cup {p}
    /\ UNCHANGED <<state, msgs, proposed, successors>>

Next ==
    \/ Propose
    \/ \E p \in Node :
          \/ ReceiveVal(p)
          \/ \E k \in Slice : ReceivePayload(p, k)
          \/ \E q \in Node : ReceiveEcho(p, q)
          \/ \E qc \in SUBSET Node : ReceiveSync(p, qc) \/ ReceiveNextVal(p, qc)
          \/ ProposeNext(p)
          \/ Execute(p)
          \/ Crash(p)

(***************************************************************************)
(* The messages a live node can count on: its mainLoop keeps handling its  *)
(* channel, and what a live node broadcasts reaches every live node.  Of a *)
(* node that has crashed nothing is promised: its goroutines may not have  *)
(* sent everything.  There are finitely many messages about a vertex, so   *)
(* that handling some message again and again handles them all.            *)
(***************************************************************************)
HandleOwed(p) ==
    \/ Sender \notin crashed /\ (ReceiveVal(p) \/ \E k \in Slice : ReceivePayload(p, k))
    \/ \E q \in Node \ crashed : ReceiveEcho(p, q)

Fairness == \A p \in Node : WF_vars(HandleOwed(p))

Spec == Init /\ [][Next]_vars
FairSpec == Spec /\ Fairness

----------------------------------------------------------------------------
TypeOK ==
    /\ state \in [Node -> NodeState]
    /\ msgs \subseteq Message
    /\ proposed \in BOOLEAN
    /\ successors \subseteq Successors
    /\ crashed \subseteq Node

Echoers == {p \in Node \ Byz : state[p].selfEcho}

(***************************************************************************)
(* A certificate has the signatures of N-F nodes, each of which did echo   *)
(* the vertex, and a vertex in the DAG has one.  The signatures come from  *)
(* echos, which the handlers free and fill again, and certs is written at  *)
(* three places, before or after the vertex enters the DAG: a certificate  *)
(* could come out short, and getConnections would put a nil one in a VAL.  *)
(***************************************************************************)
CertQuorum ==
    \A p \in Node :
        /\ state[p].DAG => state[p].certs # {}
        /\ state[p].certs # {} => /\ Cardinality(state[p].certs) >= N - F
                                 /\ state[p].certs \subseteq Echoers

(***************************************************************************)
(* A weak certificate, which a node forwards in SYNC and which holds back  *)
(* its next round, carries F+1 signatures of nodes that echoed, although   *)
(* echoed decides that it is built and echos what goes into it.  A node    *)
(* with -b 1 counts its own echo, which it never broadcasts.               *)
(***************************************************************************)
WeakCertSound ==
    \A p \in Node : state[p].hasTent # {} =>
        /\ Cardinality(state[p].hasTent) >= F + 1
        /\ state[p].hasTent \subseteq Echoers \cup {p}

(***************************************************************************)
(* The VAL that handlePayload, addVirtualConn and handleEcho dereference   *)
(* is freed only after the vertex is in the DAG, its certificate stored    *)
(* and the own ECHO sent: no handler can find valDAG set and a nil VAL.    *)
(***************************************************************************)
ValRetained ==
    \A p \in Node : state[p].valDAG /\ ~state[p].vals =>
        /\ state[p].HRBCTerminated /\ state[p].selfEcho
        /\ state[p].DAG /\ state[p].certs # {}

(***************************************************************************)
(* A certificate means that F+1 nodes have had both the VAL and the        *)
(* payload: a node echoes without them only after F+1 others have echoed,  *)
(* so amplification cannot certify a vertex nobody can execute.            *)
(***************************************************************************)
Holders == {p \in Node : state[p].valDAG /\ state[p].payloads # "none"}

CertAvailable ==
    (\E p \in Node : state[p].certs # {}) => Cardinality(Holders) >= F + 1

(***************************************************************************)
(* While the proposer is up, every live node gets the vertex into its DAG, *)
(* whatever at most F nodes withhold (-b 1) or crash.                      *)
(***************************************************************************)
Delivered(p) == p \in crashed \/ state[p].DAG

Validity ==
    proposed ~> (Sender \in crashed \/ \A p \in Node : Delivered(p))

(***************************************************************************)
(* When the proposer crashes half way, amplification still brings every    *)
(* live node that got the VAL to the vertex, once anyone is certain of it. *)
(***************************************************************************)
Totality ==
    \A p \in Node :
        (state[p].valDAG /\ \E q \in Node : state[q].certs # {}) ~> Delivered(p)

----------------------------------------------------------------------------
CB == INSTANCE CertifiedBroadcast WITH
        Quorum <- {Q \in SUBSET Node : Cardinality(Q) >= N - F},
        Support <- {S \in SUBSET Node : Cardinality(S) >= F + 1},
        known <- {p \in Node : state[p].valDAG},
        held <- {p \in Node : state[p].payloads # "none"},
        voted <- Echoers,
        cert <- [p \in Node |-> state[p].certs],
        delivered <- {p \in Node : state[p].DAG}

(***************************************************************************)
(* Every handler is a step of one node in CertifiedBroadcast: it echoes    *)
(* with VAL and payload or after F+1 others, stores only certificates of   *)
(* echoes that have been sent, adds to its DAG only what it has the VAL    *)
(* and a certificate of, and takes nothing back, whatever it frees.        *)
(***************************************************************************)
OneBroadcast == [][CB!Next]_(CB!vars)
=============================================================================
