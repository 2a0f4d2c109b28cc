----------------------------- MODULE ValVerify -----------------------------
(***************************************************************************)
(* How a node checks the certificates that a VAL carries before it handles *)
(* the VAL.  The check of a VAL runs in goroutines of its own, one for the *)
(* VAL (run) and one for each signature (Verify); mainLoop goes on and     *)
(* gets the VAL a second time when they are done.  VALs of one round carry *)
(* certificates for the same vertices: a signature that another VAL or a   *)
(* SYNC has handed to a goroutine is not handed out again.                 *)
(***************************************************************************)
EXTENDS Naturals, FiniteSets

CONSTANTS
    Signature,  \* echo signatures of the vertices of one round
    Val,        \* VALs of the next round, one from each sender
    Sigs,       \* Sigs[v]: signatures in the certificates v carries
    Syncs,      \* the weak certificates that come in SYNC messages
    Echoes,     \* signatures that also come in an ECHO of their own
    Invalid     \* signatures that do not check

ASSUME ValVerifyAssumption ==
    /\ IsFiniteSet(Signature)
    /\ Sigs \in [Val -> SUBSET Signature]
    /\ Invalid \subseteq Signature
    \* Correct nodes put only signatures into a weak certificate that they have checked.
    /\ Syncs \subseteq SUBSET (Signature \ Invalid)
    /\ Echoes \subseteq Signature \ Invalid

VARIABLES
    msgChan,    \* messages that wait in msgChan or are still on their way
    echoed,     \* signatures counted as echoes
    verified,   \* signatures handed to some goroutine
    verify,     \* verify[v]: the ValVerify of v and its goroutines
    verifying,  \* signatures in verifyEcho
    handled     \* VALs handled

vars == <<msgChan, echoed, verified, verify, verifying, handled>>

VAL(v)  == <<"VAL", v>>
ECHO(s) == <<"ECHO", s>>
SYNC(q) == <<"SYNC", q>>
Message == {VAL(v) : v \in Val} \cup {ECHO(s) : s \in Signature} \cup {SYNC(q) : q \in Syncs}

NoVerify ==
    [exists |-> FALSE, running |-> FALSE, sigNum |-> 0, resNum |-> 0,
     sigChan |-> {}, checking |-> {}, resChan |-> {}]

Init ==
    /\ msgChan = {VAL(v) : v \in Val} \cup {ECHO(s) : s \in Echoes} \cup {SYNC(q) : q \in Syncs}
    /\ echoed = {} /\ verified = {} /\ verifying = {} /\ handled = {}
    /\ verify = [v \in Val |-> NoVerify]

----------------------------------------------------------------------------
\* The signatures that are handed to others are counted as well.
Counted_X(v) == Sigs[v] \ echoed

\* The signatures whose results run waits for.
Counted(v) == Sigs[v] \ (echoed \cup verified)

\* Handed out although another goroutine has it.
Handed_X(v) == Sigs[v] \ echoed

\* The signatures put into sigChan, one by one, in a second loop.
Handed(v) == Sigs[v] \ (echoed \cup verified)

\* First arrival: start the goroutines.
NewValVerify(v) ==
    /\ VAL(v) \in msgChan /\ ~verify[v].exists
    /\ msgChan' = msgChan \ {VAL(v)}
    /\ verify' = [verify EXCEPT ![v] =
                    [exists |-> TRUE, running |-> TRUE, sigNum |-> Cardinality(Counted(v)), resNum |-> 0,
                     sigChan |-> Handed(v), checking |-> {}, resChan |-> {}]]
    /\ verified' = verified \cup Handed(v)
    /\ UNCHANGED <<echoed, verifying, handled>>

\* Second arrival: handle it.
handleVal(v) ==
    /\ VAL(v) \in msgChan /\ verify[v].exists
    /\ msgChan' = msgChan \ {VAL(v)}
    /\ verify' = [verify EXCEPT ![v].exists = FALSE]
    /\ handled' = handled \cup {v}
    /\ UNCHANGED <<echoed, verified, verifying>>

\* run sends the VAL to mainLoop and ends.
Done(v) ==
    /\ msgChan' = msgChan \cup {VAL(v)}
    /\ UNCHANGED <<echoed, verified, verifying, handled>>

runNothing(v) ==
    /\ verify[v].running /\ verify[v].sigNum = 0
    /\ verify' = [verify EXCEPT ![v].running = FALSE]
    /\ Done(v)

runSig(v, s) ==
    /\ verify[v].running /\ verify[v].sigNum # 0
    /\ s \in verify[v].sigChan
    /\ verify' = [verify EXCEPT ![v].sigChan = @ \ {s}, ![v].checking = @ \cup {s}]
    /\ UNCHANGED <<msgChan, echoed, verified, verifying, handled>>

\* Every result counts.
runRes_X(v, s) ==
    LET resNum == verify[v].resNum + 1
    IN  /\ verify[v].running /\ verify[v].sigNum # 0
        /\ s \in verify[v].resChan
        /\ verify' = [verify EXCEPT ![v].resChan = @ \ {s}, ![v].resNum = resNum,
                                    ![v].running = resNum # verify[v].sigNum]
        /\ IF resNum = verify[v].sigNum THEN Done(v)
           ELSE UNCHANGED <<msgChan, echoed, verified, verifying, handled>>

\* A result: one that is negative is logged, and then the VAL is never handled.
runRes(v, s) ==
    LET resNum == verify[v].resNum + IF s \in Invalid THEN 0 ELSE 1
        last == s \notin Invalid /\ resNum = verify[v].sigNum
    IN  /\ verify[v].running /\ verify[v].sigNum # 0
        /\ s \in verify[v].resChan
        /\ verify' = [verify EXCEPT ![v].resChan = @ \ {s}, ![v].resNum = resNum, ![v].running = ~last]
        /\ IF last THEN Done(v)
           ELSE UNCHANGED <<msgChan, echoed, verified, verifying, handled>>

Verify(v, s) ==
    /\ s \in verify[v].checking
    /\ verify' = [verify EXCEPT ![v].checking = @ \ {s}, ![v].resChan = @ \cup {s}]
    /\ UNCHANGED <<msgChan, echoed, verified, verifying, handled>>

----------------------------------------------------------------------------
\* The signatures are not marked.
onReceiveSync_X(q) ==
    /\ SYNC(q) \in msgChan
    /\ LET new == q \ echoed
       IN  /\ msgChan' = (msgChan \ {SYNC(q)}) \cup {ECHO(s) : s \in new \cap verified}
           /\ verifying' = verifying \cup (new \ verified)
    /\ UNCHANGED <<echoed, verified, verify, handled>>

\* The signatures of a weak certificate: those that nobody has are checked,
\* those another goroutine has, or has checked, count as echoes.
onReceiveSync(q) ==
    /\ SYNC(q) \in msgChan
    /\ LET new == q \ echoed
       IN  /\ msgChan' = (msgChan \ {SYNC(q)}) \cup {ECHO(s) : s \in new \cap verified}
           /\ verifying' = verifying \cup (new \ verified)
           /\ verified' = verified \cup new
    /\ UNCHANGED <<echoed, verify, handled>>

verifyEcho(s) ==
    /\ s \in verifying
    /\ verifying' = verifying \ {s}
    /\ msgChan' = msgChan \cup {ECHO(s)}
    /\ UNCHANGED <<echoed, verified, verify, handled>>

onReceiveEcho(s) ==
    /\ ECHO(s) \in msgChan
    /\ msgChan' = msgChan \ {ECHO(s)}
    /\ echoed' = echoed \cup {s}
    /\ UNCHANGED <<verified, verify, verifying, handled>>

run(v) ==
    \/ runNothing(v)
    \/ \E s \in Signature : runSig(v, s) \/ runRes(v, s)

Next ==
    \/ \E v \in Val : NewValVerify(v) \/ handleVal(v) \/ run(v)
    \/ \E v \in Val, s \in Signature : Verify(v, s)
    \/ \E q \in Syncs : onReceiveSync(q)
    \/ \E s \in Signature : verifyEcho(s) \/ onReceiveEcho(s)

\* mainLoop goes on as long as there is a message, and so do the goroutines.
Fairness ==
    \A v \in Val :
        /\ WF_vars(NewValVerify(v)) /\ WF_vars(handleVal(v)) /\ WF_vars(run(v))
        /\ \A s \in Signature : WF_vars(Verify(v, s))

Spec == Init /\ [][Next]_vars /\ Fairness

----------------------------------------------------------------------------
\* The signatures on their way through the goroutines of v.
Pending(v) == verify[v].sigChan \cup verify[v].checking \cup verify[v].resChan

TypeOK ==
    /\ msgChan \subseteq Message
    /\ echoed \subseteq Signature /\ verified \subseteq Signature /\ verifying \subseteq verified
    /\ verify \in [Val -> [exists : BOOLEAN, running : BOOLEAN, sigNum : Nat, resNum : Nat,
                           sigChan : SUBSET Signature, checking : SUBSET Signature,
                           resChan : SUBSET Signature]]
    /\ handled \subseteq Val

(***************************************************************************)
(* Both channels of a ValVerify have room for sigNum entries, and none of  *)
(* their senders has to wait: mainLoop, which fills sigChan, would stop    *)
(* the whole node, and Verify would never end.  That is so although the    *)
(* entries are counted in one loop and made in another.                    *)
(***************************************************************************)
ChannelsHaveRoom ==
    \A v \in Val : Cardinality(Pending(v)) + verify[v].resNum <= verify[v].sigNum

(***************************************************************************)
(* No signature is checked twice by the VALs and SYNCs that share it, and  *)
(* one that is with a goroutine is marked so that nobody else takes it.    *)
(***************************************************************************)
CheckedOnce ==
    /\ \A v \in Val : Pending(v) \subseteq verified \ verifying
    /\ \A v, w \in Val : v # w => Pending(v) \cap Pending(w) = {}

(***************************************************************************)
(* When a VAL is handled its own goroutines have checked every signature   *)
(* they were given and nothing is left behind in the channels; a VAL with  *)
(* an invalid signature that no other VAL carries is never handled.        *)
(***************************************************************************)
HandledIsChecked ==
    \A v \in Val : VAL(v) \in msgChan \/ v \in handled =>
        \/ ~verify[v].exists /\ v \notin handled
        \/ /\ Pending(v) = {} /\ ~verify[v].running
           /\ verify[v].resNum = verify[v].sigNum
           /\ \A s \in Sigs[v] \cap Invalid : \E w \in Val \ {v} : s \in Sigs[w]

(***************************************************************************)
(* Every VAL with valid signatures is handled in the end, also when other  *)
(* VALs or SYNCs have taken its signatures, before it comes or while it is *)
(* being checked, and also when such a VAL carries an invalid one besides. *)
(***************************************************************************)
ValIsHandled ==
    \A v \in Val : (Sigs[v] \cap Invalid = {}) => <>(v \in handled)
=============================================================================
