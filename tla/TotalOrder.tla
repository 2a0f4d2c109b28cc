---------------------------- MODULE TotalOrder ----------------------------
(***************************************************************************)
(* What committing promises to the clients, whatever a replica has         *)
(* received so far: there is one log.  Its k-th entry is what the k-th     *)
(* commit executes, nothing or a set of items with the one the commit is   *)
(* for.  The first replica that finishes the commit fixes the entry; every *)
(* other executes those items, in several steps, and no other.  A replica  *)
(* may stray from the log, once and for all; it then adds nothing to it.   *)
(***************************************************************************)
EXTENDS Naturals

CONSTANTS
    Replica,
    Item,
    Main        \* Main[k]: the item that the k-th commit is for

VARIABLES
    log,        \* log[k]: what the k-th commit executes, if a replica that had not
                \* strayed is past it
    stray,      \* the replicas that no longer follow the log
    done,       \* done[p]: the commits that the replica p is past
    doing       \* doing[p]: what p has executed in the commit it is in

vars == <<log, stray, done, doing>>

Init ==
    /\ log = << >>
    /\ stray = {}
    /\ done = [p \in Replica |-> 0]
    /\ doing = [p \in Replica |-> {}]

Past(p) == UNION {log[k] : k \in 1..done[p]}

\* p may have executed the items S in the commit it is in.
May(p, S) ==
    LET k == done[p] + 1
    IN  /\ k \in DOMAIN Main /\ Main[k] \in S
        /\ doing[p] \subseteq S /\ S \subseteq Item /\ S \cap Past(p) = {}
        /\ k \in DOMAIN log => S \subseteq log[k]

Execute(p) ==
    LET now == doing'[p]
    IN  /\ p \notin stray
        /\ now # doing[p] /\ May(p, now)
        /\ doing' = [doing EXCEPT ![p] = now]
        /\ UNCHANGED <<log, stray, done>>

\* The end of a commit, with the last of its items.
Commit(p) ==
    LET k == done[p] + 1
        entry == log'[k]
    IN  /\ p \notin stray
        /\ DOMAIN log' = DOMAIN log \cup {k}
        /\ \A j \in DOMAIN log : log'[j] = log[j]
        /\ May(p, entry) \/ (entry = {} /\ doing[p] = {})
        /\ done' = [done EXCEPT ![p] = k]
        /\ doing' = [doing EXCEPT ![p] = {}]
        /\ UNCHANGED stray

\* A stray replica executes what it likes, and no other notices.
Stray(p) ==
    /\ stray' = stray \cup {p}
    /\ \A q \in Replica \ {p} : done'[q] = done[q] /\ doing'[q] = doing[q]
    /\ UNCHANGED log

Next == \E p \in Replica : Execute(p) \/ Commit(p) \/ Stray(p)

Spec == Init /\ [][Next]_vars
=============================================================================
