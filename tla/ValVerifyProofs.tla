-------------------------- MODULE ValVerifyProofs --------------------------
(***************************************************************************)
(* Proofs about ValVerify, for any number of VALs, SYNCs and signatures.   *)
(***************************************************************************)
EXTENDS ValVerify, TLAPS, FiniteSetTheorems

(***************************************************************************)
(* A signature is at one stage of the goroutines of a VAL at a time, or    *)
(* the results could outnumber the signatures that were counted.           *)
(***************************************************************************)
Stages ==
    \A v \in Val : /\ verify[v].sigChan \cap verify[v].checking = {}
                   /\ verify[v].sigChan \cap verify[v].resChan = {}
                   /\ verify[v].checking \cap verify[v].resChan = {}

IInv == TypeOK /\ Stages /\ ChannelsHaveRoom /\ CheckedOnce

VerifyState ==
    [exists : BOOLEAN, running : BOOLEAN, sigNum : Nat, resNum : Nat,
     sigChan : SUBSET Signature, checking : SUBSET Signature, resChan : SUBSET Signature]

\* What the invariant says of one VAL.
Sound(record) ==
    /\ record \in VerifyState
    /\ record.sigChan \cap record.checking = {}
    /\ record.sigChan \cap record.resChan = {}
    /\ record.checking \cap record.resChan = {}
    /\ Cardinality(record.sigChan \cup record.checking \cup record.resChan) + record.resNum
          <= record.sigNum

With(record) == record.sigChan \cup record.checking \cup record.resChan

LEMMA Parts ==
    IInv <=> /\ msgChan \subseteq Message /\ handled \subseteq Val
             /\ echoed \subseteq Signature /\ verified \subseteq Signature /\ verifying \subseteq verified
             /\ verify \in [Val -> VerifyState]
             /\ \A v \in Val : Sound(verify[v])
             /\ \A v \in Val : With(verify[v]) \subseteq verified \ verifying
             /\ \A v, w \in Val : v # w => With(verify[v]) \cap With(verify[w]) = {}
  BY DEF IInv, TypeOK, Stages, ChannelsHaveRoom, CheckedOnce, Pending, Sound, With, VerifyState

LEMMA InitIInv == Init => IInv
<1> SUFFICES ASSUME Init PROVE IInv
  OBVIOUS
<1>1. NoVerify \in VerifyState /\ With(NoVerify) = {} /\ Cardinality({}) = 0
  BY FS_EmptySet DEF NoVerify, VerifyState, With
<1>2. Sound(NoVerify)
  BY <1>1 DEF Sound, With, NoVerify
<1>3. msgChan \subseteq Message
  BY ValVerifyAssumption DEF Init, Message
<1> QED
  BY <1>1, <1>2, <1>3, Parts DEF Init

\* A step that replaces the record of one VAL by one with no more signatures.
LEMMA Replace ==
    ASSUME IInv, NEW v \in Val, NEW record, Sound(record),
           verify' = [verify EXCEPT ![v] = record],
           With(record) \subseteq With(verify[v]),
           msgChan' \subseteq Message, handled' \subseteq Val,
           UNCHANGED <<echoed, verified, verifying>>
    PROVE  IInv'
<1> USE Parts
<1>1. /\ verify' \in [Val -> VerifyState] /\ verify'[v] = record
      /\ \A w \in Val \ {v} : verify'[w] = verify[w]
  BY DEF Sound
<1>2. \A w \in Val : Sound(verify'[w]) /\ With(verify'[w]) \subseteq With(verify[w])
  BY <1>1
<1>3. /\ \A w \in Val : With(verify'[w]) \subseteq verified' \ verifying'
      /\ \A w, x \in Val : w # x => With(verify'[w]) \cap With(verify'[x]) = {}
  BY <1>2
<1>4. echoed' \subseteq Signature /\ verified' \subseteq Signature /\ verifying' \subseteq verified'
  OBVIOUS
<1> QED
  BY <1>1, <1>2, <1>3, <1>4 DEF IInv, TypeOK, Stages, ChannelsHaveRoom, CheckedOnce, Pending, Sound,
                                With, VerifyState

LEMMA Small ==
    ASSUME IInv, NEW v \in Val
    PROVE  /\ verify[v] \in VerifyState /\ Sound(verify[v])
           /\ IsFiniteSet(With(verify[v])) /\ IsFiniteSet(verified)
<1>1. verify[v] \in VerifyState /\ Sound(verify[v]) /\ verified \subseteq Signature
  BY Parts
<1>2. With(verify[v]) \subseteq Signature
  BY <1>1 DEF VerifyState, With
<1> QED
  BY <1>1, <1>2, ValVerifyAssumption, FS_Subset

\* A VAL that goes back to mainLoop, or a state that stays.
LEMMA DoneType ==
    ASSUME IInv, NEW v \in Val,
           \/ Done(v)
           \/ UNCHANGED <<msgChan, echoed, verified, verifying, handled>>
    PROVE  /\ msgChan' \subseteq Message /\ handled' \subseteq Val
           /\ UNCHANGED <<echoed, verified, verifying>>
  BY Parts DEF Done, Message

LEMMA NewValVerifyInv ==
    ASSUME IInv, NEW v \in Val, NewValVerify(v)
    PROVE  IInv'
<1> DEFINE new == Sigs[v] \ (echoed \cup verified)
           record == [exists |-> TRUE, running |-> TRUE, sigNum |-> Cardinality(new), resNum |-> 0,
                      sigChan |-> new, checking |-> {}, resChan |-> {}]
<1>1. new \subseteq Signature /\ IsFiniteSet(new) /\ Cardinality(new) \in Nat
  <2>1. Sigs[v] \subseteq Signature
    BY ValVerifyAssumption
  <2>2. new \subseteq Signature
    BY <2>1
  <2> QED
    BY <2>2, ValVerifyAssumption, FS_Subset, FS_CardinalityType
<1>2. /\ verify' = [verify EXCEPT ![v] = record]
      /\ verified' = verified \cup new
      /\ msgChan' \subseteq msgChan
      /\ UNCHANGED <<echoed, verifying, handled>>
  BY DEF NewValVerify, Counted, Handed
<1> HIDE DEF new
<1>3. record \in VerifyState /\ With(record) = new
  BY <1>1 DEF VerifyState, With
<1>4. Sound(record)
  BY <1>1, <1>3 DEF Sound, With
<1> HIDE DEF record
<1>5. /\ verify' \in [Val -> VerifyState] /\ verify'[v] = record
      /\ \A w \in Val \ {v} : verify'[w] = verify[w]
  BY <1>2, <1>3, Parts
<1>6. new \cap verified = {}
  BY DEF new
<1>7. /\ \A w \in Val : Sound(verify'[w]) /\ With(verify'[w]) \subseteq verified' \ verifying'
      /\ \A w, x \in Val : w # x => With(verify'[w]) \cap With(verify'[x]) = {}
  BY <1>2, <1>3, <1>4, <1>5, <1>6, Parts
<1>8. /\ msgChan' \subseteq Message /\ handled' \subseteq Val
      /\ echoed' \subseteq Signature /\ verified' \subseteq Signature /\ verifying' \subseteq verified'
  BY <1>1, <1>2, Parts
<1> QED
  BY <1>5, <1>7, <1>8 DEF IInv, TypeOK, Stages, ChannelsHaveRoom, CheckedOnce, Pending, Sound,
                          With, VerifyState

LEMMA handleValInv ==
    ASSUME IInv, NEW v \in Val, handleVal(v)
    PROVE  IInv'
<1> DEFINE record == [verify[v] EXCEPT !.exists = FALSE]
<1>1. /\ verify' = [verify EXCEPT ![v] = record]
      /\ msgChan' \subseteq Message /\ handled' \subseteq Val
      /\ UNCHANGED <<echoed, verified, verifying>>
  BY Parts DEF handleVal
<1>2. Sound(record) /\ With(record) = With(verify[v])
  BY Small DEF Sound, With, VerifyState
<1> HIDE DEF record
<1> QED
  BY <1>1, <1>2, Replace

LEMMA runInv ==
    ASSUME IInv, NEW v \in Val, run(v)
    PROVE  IInv'
<1>1. CASE runNothing(v)
  <2> DEFINE record == [verify[v] EXCEPT !.running = FALSE]
  <2>1. verify' = [verify EXCEPT ![v] = record] /\ Done(v)
    BY <1>1, Parts DEF runNothing
  <2>2. Sound(record) /\ With(record) = With(verify[v])
    BY Small DEF Sound, With, VerifyState
  <2> HIDE DEF record
  <2> QED
    BY <2>1, <2>2, DoneType, Replace
<1>2. ASSUME NEW s \in Signature, runSig(v, s) PROVE IInv'
  <2> DEFINE record == [verify[v] EXCEPT !.sigChan = @ \ {s}, !.checking = @ \cup {s}]
  <2>1. /\ verify' = [verify EXCEPT ![v] = record] /\ s \in verify[v].sigChan
        /\ UNCHANGED <<msgChan, echoed, verified, verifying, handled>>
    BY <1>2, Parts DEF runSig
  <2>2. record \in VerifyState
    BY Small DEF VerifyState
  <2>3. With(record) = With(verify[v])
    BY <2>1, Small DEF With, VerifyState
  <2>4. Sound(record)
    <3>1. /\ record.sigChan \cap record.checking = {}
          /\ record.sigChan \cap record.resChan = {}
          /\ record.checking \cap record.resChan = {}
          /\ record.resNum = verify[v].resNum /\ record.sigNum = verify[v].sigNum
      BY <2>1, Small DEF Sound, VerifyState
    <3> HIDE DEF record
    <3> QED
      BY <2>2, <2>3, <3>1, Small DEF Sound, With
  <2> HIDE DEF record
  <2> QED
    BY <2>1, <2>3, <2>4, DoneType, Replace
<1>3. ASSUME NEW s \in Signature, runRes(v, s) PROVE IInv'
  <2> DEFINE num == verify[v].resNum + IF s \in Invalid THEN 0 ELSE 1
             last == s \notin Invalid /\ num = verify[v].sigNum
             record == [verify[v] EXCEPT !.resChan = @ \ {s}, !.resNum = num, !.running = ~last]
  <2>1. /\ verify' = [verify EXCEPT ![v] = record] /\ s \in verify[v].resChan
        /\ Done(v) \/ UNCHANGED <<msgChan, echoed, verified, verifying, handled>>
    BY <1>3, Parts DEF runRes
  <2>2. num \in Nat /\ num <= verify[v].resNum + 1 /\ verify[v].resNum \in Nat
    BY Small DEF VerifyState
  <2> HIDE DEF num, last
  <2>3. record \in VerifyState
    BY <2>2, Small DEF VerifyState, last
  <2>4. With(record) = With(verify[v]) \ {s} /\ s \in With(verify[v])
    BY <2>1, Small DEF With, Sound, VerifyState
  <2>5. /\ Cardinality(With(record)) = Cardinality(With(verify[v])) - 1
        /\ Cardinality(With(verify[v])) \in Nat
    <3>1. IsFiniteSet(With(verify[v]))
      BY Small
    <3> HIDE DEF record
    <3> QED
      BY <2>4, <3>1, FS_RemoveElement, FS_CardinalityType
  <2>6. Sound(record)
    <3>1. /\ record.sigChan \cap record.checking = {}
          /\ record.sigChan \cap record.resChan = {}
          /\ record.checking \cap record.resChan = {}
          /\ record.resNum = num /\ record.sigNum = verify[v].sigNum
      BY Small DEF Sound, VerifyState
    <3>2. /\ Cardinality(With(verify[v])) + verify[v].resNum <= verify[v].sigNum
          /\ verify[v].sigNum \in Nat
      BY Small DEF Sound, With, VerifyState
    <3> HIDE DEF record
    <3>3. Cardinality(With(record)) + record.resNum <= record.sigNum
      BY <2>2, <2>5, <3>1, <3>2
    <3> QED
      BY <2>3, <3>1, <3>3 DEF Sound, With
  <2> HIDE DEF record
  <2> QED
    BY <2>1, <2>4, <2>6, DoneType, Replace
<1> QED
  BY <1>1, <1>2, <1>3 DEF run

LEMMA VerifyInv ==
    ASSUME IInv, NEW v \in Val, NEW s \in Signature, Verify(v, s)
    PROVE  IInv'
<1> DEFINE record == [verify[v] EXCEPT !.checking = @ \ {s}, !.resChan = @ \cup {s}]
<1>1. /\ verify' = [verify EXCEPT ![v] = record] /\ s \in verify[v].checking
      /\ UNCHANGED <<msgChan, echoed, verified, verifying, handled>>
  BY Parts DEF Verify
<1>2. record \in VerifyState
  BY Small DEF VerifyState
<1>3. With(record) = With(verify[v])
  BY <1>1, Small DEF With, VerifyState
<1>4. Sound(record)
  <2>1. /\ record.sigChan \cap record.checking = {}
        /\ record.sigChan \cap record.resChan = {}
        /\ record.checking \cap record.resChan = {}
        /\ record.resNum = verify[v].resNum /\ record.sigNum = verify[v].sigNum
    BY <1>1, Small DEF Sound, VerifyState
  <2> HIDE DEF record
  <2> QED
    BY <1>2, <1>3, <2>1, Small DEF Sound, With
<1> HIDE DEF record
<1> QED
  BY <1>1, <1>3, <1>4, DoneType, Replace

LEMMA onReceiveSyncInv ==
    ASSUME IInv, NEW q \in Syncs, onReceiveSync(q)
    PROVE  IInv'
<1> DEFINE new == q \ echoed
<1>1. new \subseteq Signature
  BY ValVerifyAssumption
<1>2. /\ msgChan' = (msgChan \ {SYNC(q)}) \cup {ECHO(s) : s \in new \cap verified}
      /\ verifying' = verifying \cup (new \ verified) /\ verified' = verified \cup new
      /\ UNCHANGED <<echoed, verify, handled>>
  BY DEF onReceiveSync
<1> HIDE DEF new
<1>3. msgChan' \subseteq Message
  BY <1>1, <1>2, Parts DEF Message
<1>4. /\ verified' \subseteq Signature /\ verifying' \subseteq verified'
      /\ verified \ verifying \subseteq verified' \ verifying'
  BY <1>1, <1>2, Parts
<1> QED
  BY <1>2, <1>3, <1>4 DEF IInv, TypeOK, Stages, ChannelsHaveRoom, CheckedOnce, Pending

LEMMA EchoInv ==
    ASSUME IInv, NEW s \in Signature, verifyEcho(s) \/ onReceiveEcho(s)
    PROVE  IInv'
<1>1. /\ msgChan' \subseteq msgChan \cup {ECHO(s)}
      /\ verifying' \subseteq verifying /\ echoed' \subseteq echoed \cup {s}
      /\ UNCHANGED <<verified, verify, handled>>
  BY DEF verifyEcho, onReceiveEcho
<1>2. msgChan' \subseteq Message
  BY <1>1, Parts DEF Message
<1> QED
  BY <1>1, <1>2 DEF IInv, TypeOK, Stages, ChannelsHaveRoom, CheckedOnce, Pending

LEMMA NextIInv == IInv /\ [Next]_vars => IInv'
<1> SUFFICES ASSUME IInv, [Next]_vars PROVE IInv'
  OBVIOUS
<1>1. CASE Next
  BY <1>1, NewValVerifyInv, handleValInv, runInv, VerifyInv, onReceiveSyncInv, EchoInv DEF Next
<1>2. CASE UNCHANGED vars
  BY <1>2 DEF vars, IInv, TypeOK, Stages, ChannelsHaveRoom, CheckedOnce, Pending
<1> QED
  BY <1>1, <1>2

LEMMA SpecIInv == Spec => []IInv
  BY InitIInv, NextIInv, PTL DEF Spec

----------------------------------------------------------------------------
(***************************************************************************)
(* Messages, marks and the goroutines of the VALs have their types.        *)
(***************************************************************************)
THEOREM TypeCorrect == Spec => []TypeOK
<1>1. IInv => TypeOK
  BY DEF IInv
<1> QED
  BY <1>1, SpecIInv, PTL

(***************************************************************************)
(* No channel of a ValVerify is ever full, so that neither mainLoop nor a  *)
(* goroutine waits on it, whatever the VALs share and however SYNCs and    *)
(* ECHOs come in between.                                                  *)
(***************************************************************************)
THEOREM RoomInChannels == Spec => []ChannelsHaveRoom
<1>1. IInv => ChannelsHaveRoom
  BY DEF IInv
<1> QED
  BY <1>1, SpecIInv, PTL

(***************************************************************************)
(* No two goroutines check the same signature.                             *)
(***************************************************************************)
THEOREM SignaturesCheckedOnce == Spec => []CheckedOnce
<1>1. IInv => CheckedOnce
  BY DEF IInv
<1> QED
  BY <1>1, SpecIInv, PTL

----------------------------------------------------------------------------
(***************************************************************************)
(* HandledIsChecked.  Each VAL goes through three stages: it waits for its *)
(* first pass, its goroutines run, it is checked.  While they run, an      *)
(* invalid signature that no other VAL carries is still on its way, or has *)
(* left the results one short of sigNum for good.  That it is among the    *)
(* signatures handed out rests on Clean and Marked: whatever counts as     *)
(* checked elsewhere is valid, or comes from another VAL.                  *)
(***************************************************************************)
Shared(v, s) == \E w \in Val \ {v} : s \in Sigs[w]
Total(record) == Cardinality(With(record)) + record.resNum

Fresh(v) ==
    /\ VAL(v) \in msgChan /\ v \notin handled
    /\ ~verify[v].exists /\ ~verify[v].running /\ With(verify[v]) = {}

Wary(v, record) ==
    \A s \in Sigs[v] \cap Invalid :
        Shared(v, s) \/ s \in With(record) \/ Total(record) < record.sigNum

Runs(v) ==
    /\ VAL(v) \notin msgChan /\ v \notin handled
    /\ verify[v].exists /\ verify[v].running /\ Wary(v, verify[v])

Checked(v) ==
    /\ verify[v].exists => VAL(v) \in msgChan /\ v \notin handled
    /\ ~verify[v].exists => VAL(v) \notin msgChan /\ v \in handled
    /\ ~verify[v].running /\ With(verify[v]) = {} /\ verify[v].resNum = verify[v].sigNum
    /\ \A s \in Sigs[v] \cap Invalid : Shared(v, s)

Clean ==
    /\ echoed \cap Invalid = {} /\ verifying \cap Invalid = {}
    /\ \A s \in Signature : ECHO(s) \in msgChan => s \notin Invalid

Marked == \A s \in verified \cap Invalid : \E w \in Val : s \in Sigs[w] /\ ~Fresh(w)

CInv ==
    /\ Clean /\ Marked
    /\ \A v \in Val : Fresh(v) \/ Runs(v) \/ Checked(v)

LEMMA Tags ==
    /\ \A v, w : VAL(v) = VAL(w) => v = w
    /\ \A s, t : ECHO(s) = ECHO(t) => s = t
    /\ \A v, s : VAL(v) # ECHO(s)
    /\ \A v, q : VAL(v) # SYNC(q)
    /\ \A s, q : ECHO(s) # SYNC(q)
  BY DEF VAL, ECHO, SYNC

LEMMA InitCInv == Init => CInv
<1> SUFFICES ASSUME Init PROVE CInv
  OBVIOUS
<1>1. Clean
  BY Tags, ValVerifyAssumption DEF Clean, Init
<1>2. Marked
  BY DEF Marked, Init
<1>3. \A v \in Val : Fresh(v)
  BY DEF Fresh, Init, NoVerify, With
<1> QED
  BY <1>1, <1>2, <1>3 DEF CInv

\* A step that concerns the VAL v alone.
Alone(v) ==
    \A w \in Val \ {v} :
        /\ verify'[w] = verify[w]
        /\ VAL(w) \in msgChan' <=> VAL(w) \in msgChan
        /\ w \in handled' <=> w \in handled

LEMMA StageOfOne ==
    ASSUME CInv, NEW v \in Val, Alone(v), Fresh(v)' => Fresh(v),
           Fresh(v)' \/ Runs(v)' \/ Checked(v)'
    PROVE  /\ \A w \in Val : Fresh(w)' \/ Runs(w)' \/ Checked(w)'
           /\ \A w \in Val : Fresh(w)' => Fresh(w)
<1>1. ASSUME NEW w \in Val \ {v}
      PROVE  (Fresh(w)' => Fresh(w)) /\ (Fresh(w)' \/ Runs(w)' \/ Checked(w)')
  <2>1. /\ verify'[w] = verify[w]
        /\ VAL(w) \in msgChan' <=> VAL(w) \in msgChan
        /\ w \in handled' <=> w \in handled
    BY DEF Alone
  <2>2. Fresh(w) \/ Runs(w) \/ Checked(w)
    BY DEF CInv
  <2>3. CASE Fresh(w)
    BY <2>1, <2>3 DEF Fresh
  <2>4. CASE Runs(w)
    BY <2>1, <2>4 DEF Fresh, Runs
  <2>5. CASE Checked(w)
    BY <2>1, <2>5 DEF Fresh, Checked
  <2> QED
    BY <2>2, <2>3, <2>4, <2>5
<1> QED
  BY <1>1

\* A step of the goroutines of v, or the second pass.
LEMMA StepOfOne ==
    ASSUME CInv, NEW v \in Val, Alone(v), ~Fresh(v), Runs(v)' \/ Checked(v)',
           UNCHANGED <<echoed, verified, verifying>>, msgChan' \subseteq msgChan \cup {VAL(v)}
    PROVE  CInv'
<1>1. ~Fresh(v)'
  BY DEF Fresh, Runs, Checked
<1>2. /\ \A w \in Val : Fresh(w)' \/ Runs(w)' \/ Checked(w)'
      /\ \A w \in Val : Fresh(w)' => Fresh(w)
  BY <1>1, StageOfOne
<1>3. Marked'
  BY <1>2 DEF CInv, Marked
<1>4. Clean'
  BY Tags DEF CInv, Clean
<1> QED
  BY <1>2, <1>3, <1>4 DEF CInv
LEMMA NewValVerifyCInv ==
    ASSUME IInv, CInv, NEW v \in Val, NewValVerify(v)
    PROVE  CInv'
<1> DEFINE new == Sigs[v] \ (echoed \cup verified)
           record == [exists |-> TRUE, running |-> TRUE, sigNum |-> Cardinality(new), resNum |-> 0,
                      sigChan |-> new, checking |-> {}, resChan |-> {}]
<1>1. /\ VAL(v) \in msgChan /\ ~verify[v].exists
      /\ verify' = [verify EXCEPT ![v] = record] /\ verified' = verified \cup new
      /\ msgChan' = msgChan \ {VAL(v)}
      /\ UNCHANGED <<echoed, verifying, handled>>
  BY DEF NewValVerify, Counted, Handed
<1>2. new \subseteq Sigs[v] /\ \A s \in Sigs[v] : s \in echoed \cup verified \cup new
  OBVIOUS
<1>3. With(record) = new /\ record.exists /\ record.running
  BY DEF With
<1> HIDE DEF new, record
<1>4. Fresh(v)
  BY <1>1 DEF CInv, Runs, Checked
<1>5. verify'[v] = record /\ Alone(v)
  BY <1>1, Tags, Parts DEF Alone
<1>6. Wary(v, record)
  <2>1. ASSUME NEW s \in Sigs[v] \cap Invalid, s \in verified
        PROVE  Shared(v, s)
    BY <1>4, <2>1 DEF CInv, Marked, Shared
  <2> QED
    BY <1>2, <1>3, <2>1 DEF CInv, Clean, Wary
<1>7. Runs(v)' /\ ~Fresh(v)'
  BY <1>1, <1>3, <1>4, <1>5, <1>6 DEF Runs, Fresh, Wary
<1>8. /\ \A w \in Val : Fresh(w)' \/ Runs(w)' \/ Checked(w)'
      /\ \A w \in Val : Fresh(w)' => Fresh(w)
  BY <1>5, <1>7, StageOfOne
<1>9. Marked'
  BY <1>1, <1>2, <1>7, <1>8 DEF CInv, Marked
<1>10. Clean'
  BY <1>1 DEF CInv, Clean
<1> QED
  BY <1>8, <1>9, <1>10 DEF CInv

LEMMA handleValCInv ==
    ASSUME IInv, CInv, NEW v \in Val, handleVal(v)
    PROVE  CInv'
<1> DEFINE record == [verify[v] EXCEPT !.exists = FALSE]
<1>1. /\ VAL(v) \in msgChan /\ verify[v].exists
      /\ verify' = [verify EXCEPT ![v] = record]
      /\ msgChan' = msgChan \ {VAL(v)} /\ handled' = handled \cup {v}
      /\ UNCHANGED <<echoed, verified, verifying>>
  BY DEF handleVal
<1>2. /\ With(record) = With(verify[v]) /\ ~record.exists /\ record.running = verify[v].running
      /\ record.resNum = verify[v].resNum /\ record.sigNum = verify[v].sigNum
  BY Small DEF With, VerifyState
<1> HIDE DEF record
<1>3. verify'[v] = record /\ Alone(v)
  BY <1>1, Tags, Parts DEF Alone
<1>4. Checked(v) /\ ~Fresh(v)
  BY <1>1 DEF CInv, Fresh, Runs
<1>5. Checked(v)'
  BY <1>1, <1>2, <1>3, <1>4 DEF Checked
<1> QED
  BY <1>1, <1>3, <1>4, <1>5, StepOfOne

\* The record of a VAL whose goroutines run is replaced by another.
LEMMA RunOn ==
    ASSUME IInv, CInv, NEW v \in Val, Runs(v), NEW record, record \in VerifyState,
           verify' = [verify EXCEPT ![v] = record], record.exists,
           \/ /\ record.running /\ Wary(v, record)
              /\ UNCHANGED <<msgChan, echoed, verified, verifying, handled>>
           \/ /\ ~record.running /\ Done(v) /\ With(record) = {} /\ record.resNum = record.sigNum
              /\ \A s \in Sigs[v] \cap Invalid : Shared(v, s)
    PROVE  CInv'
<1>1. verify'[v] = record /\ Alone(v)
  BY Tags, Parts DEF Alone, Done
<1>2. Runs(v)' \/ Checked(v)'
  BY <1>1 DEF Runs, Checked, Done, Wary
<1>3. /\ UNCHANGED <<echoed, verified, verifying>> /\ msgChan' \subseteq msgChan \cup {VAL(v)}
      /\ ~Fresh(v)
  BY DEF Done, Runs, Fresh
<1> QED
  BY <1>1, <1>2, <1>3, StepOfOne

LEMMA runCInv ==
    ASSUME IInv, CInv, NEW v \in Val, run(v)
    PROVE  CInv'
<1>1. verify[v].running /\ Runs(v)
  BY DEF run, runNothing, runSig, runRes, CInv, Fresh, Checked
<1>2. /\ verify[v] \in VerifyState /\ verify[v].exists /\ Wary(v, verify[v])
      /\ IsFiniteSet(With(verify[v])) /\ Cardinality(With(verify[v])) \in Nat
      /\ verify[v].resNum \in Nat /\ verify[v].sigNum \in Nat
      /\ Total(verify[v]) <= verify[v].sigNum
  BY <1>1, Small, FS_CardinalityType DEF Runs, Sound, Total, VerifyState, With
<1>3. CASE runNothing(v)
  <2> DEFINE record == [verify[v] EXCEPT !.running = FALSE]
  <2>1. verify' = [verify EXCEPT ![v] = record] /\ Done(v) /\ verify[v].sigNum = 0
    BY <1>3, Parts DEF runNothing
  <2>2. /\ record \in VerifyState /\ With(record) = With(verify[v]) /\ ~record.running /\ record.exists
        /\ record.resNum = verify[v].resNum /\ record.sigNum = verify[v].sigNum
    BY <1>2 DEF With, VerifyState
  <2> HIDE DEF record
  <2>3. verify[v].resNum = 0 /\ Cardinality(With(verify[v])) = 0 /\ Total(verify[v]) = 0
    BY <1>2, <2>1 DEF Total
  <2>4. With(verify[v]) = {}
    BY <1>2, <2>3, FS_EmptySet
  <2>5. \A s \in Sigs[v] \cap Invalid : Shared(v, s)
    BY <1>2, <2>1, <2>3, <2>4 DEF Wary
  <2> QED
    BY <1>1, <2>1, <2>2, <2>3, <2>4, <2>5, RunOn
<1>4. ASSUME NEW s \in Signature, runSig(v, s) PROVE CInv'
  <2> DEFINE record == [verify[v] EXCEPT !.sigChan = @ \ {s}, !.checking = @ \cup {s}]
  <2>1. /\ verify' = [verify EXCEPT ![v] = record] /\ s \in verify[v].sigChan
        /\ UNCHANGED <<msgChan, echoed, verified, verifying, handled>>
    BY <1>4, Parts DEF runSig
  <2>2. /\ record \in VerifyState /\ With(record) = With(verify[v]) /\ record.running /\ record.exists
        /\ record.resNum = verify[v].resNum /\ record.sigNum = verify[v].sigNum
    BY <1>1, <1>2, <2>1 DEF With, VerifyState
  <2> HIDE DEF record
  <2>3. Wary(v, record)
    BY <1>2, <2>2 DEF Wary, Total
  <2> QED
    BY <1>1, <2>1, <2>2, <2>3, RunOn
<1>5. ASSUME NEW s \in Signature, runRes(v, s) PROVE CInv'
  <2> DEFINE num == verify[v].resNum + IF s \in Invalid THEN 0 ELSE 1
             last == s \notin Invalid /\ num = verify[v].sigNum
             record == [verify[v] EXCEPT !.resChan = @ \ {s}, !.resNum = num, !.running = ~last]
  <2>1. /\ verify' = [verify EXCEPT ![v] = record] /\ s \in verify[v].resChan
        /\ last => Done(v)
        /\ ~last => UNCHANGED <<msgChan, echoed, verified, verifying, handled>>
    BY <1>5, Parts DEF runRes
  <2>2. num \in Nat /\ num = verify[v].resNum + IF s \in Invalid THEN 0 ELSE 1
    BY <1>2
  <2>3. last \in BOOLEAN /\ (last <=> s \notin Invalid /\ num = verify[v].sigNum)
    OBVIOUS
  <2> HIDE DEF num, last
  <2>4. /\ record \in VerifyState /\ (record.running <=> ~last) /\ record.exists
        /\ record.resNum = num /\ record.sigNum = verify[v].sigNum
    BY <1>2, <2>2, <2>3 DEF VerifyState
  <2>5. With(record) = With(verify[v]) \ {s} /\ s \in With(verify[v])
    BY <2>1, Small DEF With, Sound, VerifyState
  <2> HIDE DEF record
  <2>6. /\ IsFiniteSet(With(record))
        /\ Cardinality(With(record)) = Cardinality(With(verify[v])) - 1
        /\ Cardinality(With(record)) \in Nat
    BY <1>2, <2>5, FS_RemoveElement, FS_CardinalityType
  <2>7. CASE s \in Invalid
    <3>1. Total(record) < record.sigNum
      BY <1>2, <2>2, <2>4, <2>6, <2>7 DEF Total
    <3>2. Wary(v, record) /\ ~last
      BY <2>3, <2>7, <3>1 DEF Wary
    <3> QED
      BY <1>1, <2>1, <2>4, <3>2, RunOn
  <2>8. CASE s \notin Invalid
    <3>1. Total(record) = Total(verify[v])
      BY <1>2, <2>2, <2>4, <2>6, <2>8 DEF Total
    <3>2. Wary(v, record)
      BY <1>2, <2>4, <2>5, <2>8, <3>1 DEF Wary
    <3>3. CASE ~last
      BY <1>1, <2>1, <2>4, <3>2, <3>3, RunOn
    <3>4. CASE last
      <4>1. record.resNum = record.sigNum
        BY <2>3, <2>4, <3>4
      <4>2. Cardinality(With(record)) = 0 /\ Total(record) = record.sigNum
        BY <1>2, <2>2, <2>4, <2>6, <3>1, <4>1 DEF Total
      <4>3. With(record) = {}
        BY <2>6, <4>2, FS_EmptySet
      <4>4. \A t \in Sigs[v] \cap Invalid : Shared(v, t)
        BY <1>2, <2>4, <3>2, <4>2, <4>3 DEF Wary
      <4> QED
        BY <1>1, <2>1, <2>4, <3>4, <4>1, <4>3, <4>4, RunOn
    <3> QED
      BY <3>3, <3>4
  <2> QED
    BY <2>7, <2>8
<1> QED
  BY <1>3, <1>4, <1>5 DEF run
LEMMA VerifyCInv ==
    ASSUME IInv, CInv, NEW v \in Val, NEW s \in Signature, Verify(v, s)
    PROVE  CInv'
<1> DEFINE record == [verify[v] EXCEPT !.checking = @ \ {s}, !.resChan = @ \cup {s}]
<1>1. /\ verify' = [verify EXCEPT ![v] = record] /\ s \in With(verify[v])
      /\ UNCHANGED <<msgChan, echoed, verified, verifying, handled>>
  BY Parts DEF Verify, With
<1>2. Runs(v) /\ verify[v] \in VerifyState
  BY <1>1, Small DEF CInv, Fresh, Checked
<1>3. s \in verify[v].checking
  BY DEF Verify
<1>4. /\ record \in VerifyState /\ With(record) = With(verify[v]) /\ record.running /\ record.exists
      /\ record.resNum = verify[v].resNum /\ record.sigNum = verify[v].sigNum
  BY <1>2, <1>3 DEF With, VerifyState, Runs
<1> HIDE DEF record
<1>5. Wary(v, record)
  BY <1>2, <1>4 DEF Runs, Wary, Total
<1> QED
  BY <1>1, <1>2, <1>4, <1>5, RunOn

\* A step that concerns no VAL.
LEMMA NoVal ==
    ASSUME CInv, UNCHANGED <<verify, handled>>,
           \A v \in Val : VAL(v) \in msgChan' <=> VAL(v) \in msgChan,
           verified' \cap Invalid \subseteq verified, Clean'
    PROVE  CInv'
<1>1. ASSUME NEW v \in Val
      PROVE  /\ Fresh(v)' <=> Fresh(v)
             /\ Fresh(v)' \/ Runs(v)' \/ Checked(v)'
  <2>1. Fresh(v) \/ Runs(v) \/ Checked(v)
    BY DEF CInv
  <2> QED
    BY <2>1 DEF Fresh, Runs, Checked
<1>2. Marked'
  BY <1>1 DEF CInv, Marked
<1> QED
  BY <1>1, <1>2 DEF CInv

LEMMA onReceiveSyncCInv ==
    ASSUME CInv, NEW q \in Syncs, onReceiveSync(q)
    PROVE  CInv'
<1>1. q \cap Invalid = {}
  BY ValVerifyAssumption
<1>2. /\ \A v \in Val : VAL(v) \in msgChan' <=> VAL(v) \in msgChan
      /\ \A s \in Signature : ECHO(s) \in msgChan' => ECHO(s) \in msgChan \/ s \in q
      /\ verifying' \subseteq verifying \cup q /\ verified' \subseteq verified \cup q
      /\ UNCHANGED <<echoed, verify, handled>>
  BY Tags DEF onReceiveSync
<1>3. Clean'
  BY <1>1, <1>2 DEF CInv, Clean
<1> QED
  BY <1>1, <1>2, <1>3, NoVal

LEMMA EchoCInv ==
    ASSUME CInv, NEW s \in Signature, verifyEcho(s) \/ onReceiveEcho(s)
    PROVE  CInv'
<1>1. s \notin Invalid
  BY DEF CInv, Clean, verifyEcho, onReceiveEcho
<1>2. /\ \A v \in Val : VAL(v) \in msgChan' <=> VAL(v) \in msgChan
      /\ \A t \in Signature : ECHO(t) \in msgChan' => ECHO(t) \in msgChan \/ t = s
      /\ verifying' \subseteq verifying /\ echoed' \subseteq echoed \cup {s}
      /\ UNCHANGED <<verified, verify, handled>>
  BY Tags DEF verifyEcho, onReceiveEcho
<1>3. Clean'
  BY <1>1, <1>2 DEF CInv, Clean
<1> QED
  BY <1>2, <1>3, NoVal

LEMMA NextCInv == IInv /\ CInv /\ [Next]_vars => CInv'
<1> SUFFICES ASSUME IInv, CInv, [Next]_vars PROVE CInv'
  OBVIOUS
<1>1. CASE Next
  BY <1>1, NewValVerifyCInv, handleValCInv, runCInv, VerifyCInv, onReceiveSyncCInv, EchoCInv DEF Next
<1>2. CASE UNCHANGED vars
  BY <1>2 DEF vars, CInv, Clean, Marked, Fresh, Runs, Checked
<1> QED
  BY <1>1, <1>2

(***************************************************************************)
(* A VAL goes back to mainLoop only after all the signatures it was        *)
(* charged with have been found valid, and never with an invalid one that  *)
(* no other VAL carries, however VALs and SYNCs share signatures.          *)
(***************************************************************************)
THEOREM HandledAreChecked == Spec => []HandledIsChecked
<1>1. CInv => HandledIsChecked
  <2> SUFFICES ASSUME CInv, NEW v \in Val, VAL(v) \in msgChan \/ v \in handled
               PROVE  \/ ~verify[v].exists /\ v \notin handled
                      \/ /\ Pending(v) = {} /\ ~verify[v].running
                         /\ verify[v].resNum = verify[v].sigNum
                         /\ \A s \in Sigs[v] \cap Invalid : \E w \in Val \ {v} : s \in Sigs[w]
    BY DEF HandledIsChecked
  <2>1. Fresh(v) \/ Checked(v)
    BY DEF CInv, Runs
  <2> QED
    BY <2>1 DEF Fresh, Checked, Pending, With, Shared
<1> QED
  BY <1>1, InitIInv, NextIInv, InitCInv, NextCInv, PTL DEF Spec
=============================================================================
