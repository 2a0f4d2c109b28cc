------------------------ MODULE CertifiedBroadcast ------------------------
(***************************************************************************)
(* What the broadcast of a vertex promises to the rest of the protocol,    *)
(* without its messages: a certificate stands for a quorum that voted, a   *)
(* node votes for what it holds or what enough others have voted for, and  *)
(* what a node has obtained, certified or delivered it never loses.        *)
(***************************************************************************)
CONSTANTS
    Node,
    Quorum,     \* the sets of nodes whose votes make a certificate
    Support     \* the sets of nodes whose votes another node may follow

VARIABLES
    known,      \* the nodes that know the vertex
    held,       \* the nodes that have had its payload
    voted,      \* the nodes that have voted for it in public
    cert,       \* cert[p]: the signers of the certificate of p, {} if none yet
    delivered   \* the nodes that have the vertex in their DAG

vars == <<known, held, voted, cert, delivered>>

Init ==
    /\ known = {} /\ held = {} /\ voted = {} /\ delivered = {}
    /\ cert = [p \in Node |-> {}]

(***************************************************************************)
(* A node does any of these at a time, each or none.                       *)
(***************************************************************************)
Obtain(p) == known' \in {known, known \cup {p}} /\ held' \in {held, held \cup {p}}

Vote(p) ==
    \/ voted' = voted
    \/ /\ p \in known' \cap held' \/ voted \in Support
       /\ voted' = voted \cup {p}

\* A certificate may be replaced by another.
Certify(p) ==
    \/ cert' = cert
    \/ \E Q \in Quorum : Q \subseteq voted /\ cert' = [cert EXCEPT ![p] = Q]

Deliver(p) ==
    \/ delivered' = delivered
    \/ /\ p \in known' /\ cert'[p] # {}
       /\ delivered' = delivered \cup {p}

Next == \E p \in Node : Obtain(p) /\ Vote(p) /\ Certify(p) /\ Deliver(p)

Spec == Init /\ [][Next]_vars
=============================================================================
