------------------------------ MODULE MCHRBC ------------------------------
(* HRBC on four nodes, F = 1: the nodes that no constant singles out are   *)
(* interchangeable, but for n4, which OneDown names.                       *)
EXTENDS HRBC, TLC
CONSTANTS n1, n2, n3, n4

NodeSymmetry ==
    Permutations(Node \ (UNION {{Sender, n4}, Byz, Absent, SyncNodes, Successors, Executors}))

\* The only node that crashes is n4, before the vertex is proposed.
OneDown == crashed \subseteq {n4} /\ (proposed => n4 \in crashed)

(***************************************************************************)
(* The sender crashes after all but n4 have echoed its vertex: what        *)
(* Propose and Crash(Sender), with the VAL and the PAYLOAD of the others   *)
(* handled between them, lead to from Init.  The PAYLOAD for n4 is lost;   *)
(* the VAL for n4 and the sender's ECHO to each node may or may not come.  *)
(***************************************************************************)
CrashedSenderInit ==
    LET Held == [Blank EXCEPT !.payloads = "held"]
    IN  /\ state = [p \in Node |-> IF p = n4 THEN Blank ELSE onReceiveVal(Held, p)]
        /\ msgs = {Echo(p, q) : p \in Node, q \in Node \ {n4}} \cup {Val(n4)}
        /\ proposed = TRUE
        /\ successors = {}
        /\ crashed = {Sender}

CrashedSenderSpec == CrashedSenderInit /\ [][Next]_vars /\ Fairness
=============================================================================
