------------------------------ MODULE Outcome ------------------------------
(***************************************************************************)
(* What the decision promises to the commit, whatever paths it takes:      *)
(* every vertex of the DAG has one outcome, fixed by the first node that   *)
(* decides it; the nodes learn outcomes one by one or many at once, each   *)
(* in an order of its own, and never revise one.                           *)
(***************************************************************************)
EXTENDS Naturals

CONSTANTS
    Node,       \* the nodes that learn
    Round, Id   \* the vertices are <<r, i>> with these

VARIABLES
    outcome,    \* outcome[r][i]: 0 while nobody has decided the vertex, else 1 or 2
    known       \* known[p][r][i]: what p knows of it

vars == <<outcome, known>>

Decisions == [Round -> [Id -> 0..2]]
Nothing == [r \in Round |-> [i \in Id |-> 0]]

Init == outcome = Nothing /\ known = [p \in Node |-> Nothing]

\* What p learns is the outcome, and it becomes the outcome if there was none.
Learn(p) ==
    LET before == outcome
        after == outcome'
        learnt == known'[p]
    IN  /\ learnt # known[p]
        /\ after \in Decisions /\ learnt \in Decisions
        /\ known' = [known EXCEPT ![p] = learnt]
        /\ \A r \in Round, i \in Id :
              /\ known[p][r][i] # 0 => learnt[r][i] = known[p][r][i]
              /\ learnt[r][i] \in {0, after[r][i]}
              /\ after[r][i] = IF before[r][i] # 0 THEN before[r][i] ELSE learnt[r][i]

Next == \E p \in Node : Learn(p)

Spec == Init /\ [][Next]_vars
=============================================================================
