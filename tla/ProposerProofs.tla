-------------------------- MODULE ProposerProofs --------------------------
(***************************************************************************)
(* Proofs about Proposer, for every interval, batch size and capacity of   *)
(* the channels and any number of requests and rounds.                     *)
(*                                                                         *)
(* The blocks cut so far (Blocks) and the rounds announced but not yet     *)
(* taken (Queue) form one pipeline.  Most steps only move its parts from   *)
(* one channel to the next; what is left is proved about the two           *)
(* sequences: a block is cut for the first round of the queue, a round is  *)
(* put at its end.                                                         *)
(***************************************************************************)
EXTENDS Proposer, TLAPS, SequenceTheorems, FiniteSetTheorems

Queue == tryProposeChan \o announcing


\* The steps as the pipeline sees them.
Cut(round) ==
    /\ \E b \in BlockInfo : /\ Blocks' = Append(Blocks, b)
                            /\ b.Round = round /\ b.StartID = startId
                            /\ startId' = startId + b.ReqNum
    /\ proposeflag' = FALSE

PipelineStep ==
    \/ UNCHANGED <<Blocks, Queue, currRound, proposeflag, startId>>
    \/ proposeflag /\ Cut(1) /\ UNCHANGED <<Queue, currRound>>
    \/ Queue # << >> /\ Cut(Head(Queue)) /\ Queue' = Tail(Queue) /\ UNCHANGED currRound
    \/ \E rounds \in Rises :
          /\ currRound < rounds[1]
          /\ Queue' = Queue \o rounds /\ currRound' = rounds[Len(rounds)]
          /\ UNCHANGED <<Blocks, proposeflag, startId>>

(***************************************************************************)
(* The rounds along the pipeline, blocks first.  They rise by at least one *)
(* from place to place, up to the current round; the rounds of the queue   *)
(* leave room for the timer's round 1 before them.                         *)
(***************************************************************************)
Line == [i \in 1..(Len(Blocks) + Len(Queue)) |->
            IF i <= Len(Blocks) THEN Blocks[i].Round ELSE Queue[i - Len(Blocks)]]

Rising(line, n, top) ==
    /\ line \in [1..n -> Nat] /\ top \in Nat
    /\ \A i, j \in 1..n : i <= j => line[j] >= line[i] + (j - i)
    /\ \A i \in 1..n : top >= line[i] + (n - i)

Pipeline ==
    /\ Rising(Line, Len(Blocks) + Len(Queue), currRound)
    /\ \A j \in 1..Len(Queue) : Queue[j] >= 1 + j
    /\ proposeflag => Blocks = << >>

----------------------------------------------------------------------------
LEMMA Rise ==
    ASSUME NEW rounds \in Rises
    PROVE  /\ rounds \in Seq(Round) /\ Len(rounds) \in {1, 2}
           /\ rounds[1] \in Round /\ rounds[Len(rounds)] \in Round
           /\ Len(rounds) = 2 => rounds[2] = rounds[1] + 1
<1>1. \/ \E r \in Round : rounds = <<r>>
      \/ \E r \in Round : rounds = <<r, r + 1>> /\ r < MaxRound
  BY DEF Rises
<1>2. CASE \E r \in Round : rounds = <<r>>
  BY <1>2
<1>3. CASE \E r \in Round : rounds = <<r, r + 1>> /\ r < MaxRound
  <2>1. PICK r \in Round : rounds = <<r, r + 1>> /\ r < MaxRound
    BY <1>3
  <2>2. r + 1 \in Round
    BY <2>1, ProposerAssumption DEF Round
  <2> QED
    BY <2>1, <2>2
<1> QED
  BY <1>1, <1>2, <1>3

\* The two pieces of a sequence.
LEMMA Pieces ==
    ASSUME NEW S, NEW s \in Seq(S), NEW c \in Nat, c <= Len(s)
    PROVE  /\ SubSeq(s, 1, c) \in Seq(S) /\ Len(SubSeq(s, 1, c)) = c
           /\ SubSeq(s, c + 1, Len(s)) \in Seq(S) /\ Len(SubSeq(s, c + 1, Len(s))) = Len(s) - c
           /\ SubSeq(s, 1, c) \o SubSeq(s, c + 1, Len(s)) = s
<1>1. Len(s) \in Nat /\ \A i \in 1..Len(s) : s[i] \in S
  BY LenProperties, ElementOfSeq
<1>2. SubSeq(s, 1, c) \in Seq(S) /\ Len(SubSeq(s, 1, c)) = c
  <2>1. \A i \in 1..c : s[i] \in S
    BY <1>1
  <2> QED
    BY <2>1, SubSeqProperties
<1>3. /\ SubSeq(s, c + 1, Len(s)) \in Seq(S)
      /\ Len(SubSeq(s, c + 1, Len(s))) = Len(s) - c
  <2>1. \A i \in (c + 1)..Len(s) : s[i] \in S
    BY <1>1
  <2>2. Len(SubSeq(s, c + 1, Len(s))) = IF c + 1 <= Len(s) THEN Len(s) - (c + 1) + 1 ELSE 0
    BY <1>1, <2>1, SubSeqProperties
  <2> QED
    BY <1>1, <2>1, <2>2, SubSeqProperties
<1>4. SubSeq(s, 1, c) \o SubSeq(s, c + 1, Len(s)) = SubSeq(s, 1, Len(s))
  <2>1. /\ 1 \in 1..(Len(s) + 1) /\ c \in (1 - 1)..Len(s) /\ Len(s) \in c..Len(s)
    BY <1>1
  <2> QED
    BY <2>1, ConcatAdjacentSubSeq
<1>5. SubSeq(s, 1, Len(s)) = s
  BY SubSeqFull
<1> QED
  BY <1>2, <1>3, <1>4, <1>5

LEMMA Division ==
    ASSUME NEW len \in Nat, NEW m \in Nat, MaxBatchSize < m, m <= Interval * len
    PROVE  /\ MaxBatchSize \div Interval \in Nat
           /\ MaxBatchSize \div Interval <= len
           /\ m - MaxBatchSize <= Interval * (len - (MaxBatchSize \div Interval))
<1> DEFINE q == MaxBatchSize \div Interval
<1>1. /\ q \in Nat
      /\ MaxBatchSize = Interval * q + (MaxBatchSize % Interval)
      /\ MaxBatchSize % Interval \in Nat
  BY ProposerAssumption
<1> HIDE DEF q
<1>2. Interval * q <= MaxBatchSize /\ Interval * q \in Nat /\ Interval * len \in Nat
  BY <1>1, ProposerAssumption
<1>3. q <= len
  <2> SUFFICES ASSUME len < q PROVE FALSE
    BY <1>1
  <2>1. Interval * len <= Interval * q
    BY <1>1, ProposerAssumption
  <2> QED
    BY <1>2, <2>1, ProposerAssumption
<1>4. Interval * (len - q) = Interval * len - Interval * q
  BY <1>1, ProposerAssumption
<1> QED
  BY <1>1, <1>2, <1>3, <1>4, ProposerAssumption DEF q

----------------------------------------------------------------------------
(***************************************************************************)
(* Types.  Accounting comes with them: a cut is a part of the batch only   *)
(* because the number accounted for is never more than there is.           *)
(***************************************************************************)
TypeInv ==
    /\ ProposerTypeOK
    /\ reqNum <= Interval * Len(currBatch)

LEMMA getBatchType ==
    ASSUME TypeInv, NEW round \in Round, getBatch(round)
    PROVE  \E b \in BlockInfo, cut \in 0..Len(currBatch) :
              /\ sending' = <<b>> /\ b.Round = round /\ b.StartID = startId
              /\ b.Payload = SubSeq(currBatch, 1, cut)
              /\ currBatch' = SubSeq(currBatch, cut + 1, Len(currBatch))
              /\ startId' = startId + b.ReqNum /\ startId' \in Nat
              /\ currBatch' \in Seq(Request) /\ reqNum' \in Nat
              /\ reqNum' <= Interval * Len(currBatch')
              /\ reqNum' = reqNum - b.ReqNum
              /\ IsCut(b) \/ (cut = Len(currBatch) /\ reqNum' = 0)
<1> DEFINE full == reqNum > MaxBatchSize
           cut == IF full THEN MaxBatchSize \div Interval ELSE Len(currBatch)
           num == IF full THEN MaxBatchSize ELSE reqNum
           b == [StartID |-> startId, Round |-> round, ReqNum |-> num,
                 Payload |-> SubSeq(currBatch, 1, cut)]
<1>1. /\ currBatch \in Seq(Request) /\ reqNum \in Nat /\ startId \in Nat
      /\ Len(currBatch) \in Nat /\ reqNum <= Interval * Len(currBatch)
  BY LenProperties DEF TypeInv, ProposerTypeOK
<1>2. cut \in Nat /\ cut <= Len(currBatch) /\ num \in Nat /\ num <= reqNum
  BY <1>1, Division, ProposerAssumption
<1>3. reqNum - num <= Interval * (Len(currBatch) - cut)
  <2>1. CASE full
    BY <1>1, <2>1, Division, ProposerAssumption
  <2>2. CASE ~full
    BY <1>1, <2>2, ProposerAssumption
  <2> QED
    BY <2>1, <2>2
<1>4. /\ sending' = <<b>> /\ startId' = startId + num /\ reqNum' = reqNum - num
      /\ currBatch' = SubSeq(currBatch, cut + 1, Len(currBatch))
  BY DEF getBatch
<1> HIDE DEF full, cut, num
<1>5. /\ SubSeq(currBatch, 1, cut) \in Seq(Request) /\ Len(SubSeq(currBatch, 1, cut)) = cut
      /\ currBatch' \in Seq(Request) /\ Len(currBatch') = Len(currBatch) - cut
  <2>1. currBatch \in Seq(Request) /\ cut \in Nat /\ cut <= Len(currBatch)
    BY <1>1, <1>2
  <2> QED
    BY <1>4, <2>1, Pieces
<1>6. b \in BlockInfo
  BY <1>1, <1>2, <1>5 DEF BlockInfo
<1>8. reqNum - num \in Nat /\ startId + num \in Nat
  BY <1>1, <1>2
<1>9. reqNum' <= Interval * Len(currBatch')
  BY <1>3, <1>4, <1>5
<1>10. cut \in 0..Len(currBatch)
  BY <1>1, <1>2
<1>11. reqNum' = reqNum - b.ReqNum /\ (IsCut(b) \/ (cut = Len(currBatch) /\ reqNum' = 0))
  <2>1. b.ReqNum = num /\ Len(b.Payload) = cut
    BY <1>5
  <2>2. CASE full
    <3>1. num = MaxBatchSize /\ cut = MaxBatchSize \div Interval
      BY <2>2 DEF num, cut
    <3> QED
      BY <1>4, <2>1, <3>1 DEF IsCut
  <2>3. CASE ~full
    <3>1. num = reqNum /\ cut = Len(currBatch)
      BY <2>3 DEF num, cut
    <3> HIDE DEF b
    <3> QED
      BY <1>1, <1>4, <2>1, <3>1
  <2> QED
    BY <2>2, <2>3
<1> QED
  BY <1>3, <1>4, <1>5, <1>6, <1>8, <1>9, <1>10, <1>11

LEMMA InitType == ProposerInit => TypeInv
<1> SUFFICES ASSUME ProposerInit PROVE TypeInv
  OBVIOUS
<1>1. /\ << >> \in Seq(Request) /\ << >> \in Seq(Round) /\ << >> \in Seq(BlockInfo)
      /\ Len(<< >>) = 0
  BY EmptySeq
<1>2. Interval * 0 = 0 /\ 1 \in Round /\ TryCap \in Nat /\ ProposeCap \in Nat
  BY ProposerAssumption DEF Round
<1>3. ProposerTypeOK
  <2>1. received \subseteq Request /\ clientChan \in Seq(Request)
    BY <1>1 DEF ProposerInit
  <2>2. currBatch \in Seq(Request) /\ reqNum \in Nat /\ startId \in Nat
    BY <1>1 DEF ProposerInit
  <2>3. fired \in BOOLEAN /\ proposeflag \in BOOLEAN
    BY DEF ProposerInit
  <2>4. tryProposeChan \in Seq(Round) /\ Len(tryProposeChan) <= TryCap
    BY <1>1, <1>2 DEF ProposerInit
  <2>5. /\ proposeChan \in Seq(BlockInfo) /\ Len(proposeChan) <= ProposeCap
        /\ sending \in Seq(BlockInfo) /\ Len(sending) <= 1 /\ myBlocks \in Seq(BlockInfo)
    BY <1>1, <1>2 DEF ProposerInit
  <2>6. currRound \in Round /\ announcing \in Seq(Round) /\ Len(announcing) <= 2
    BY <1>1, <1>2 DEF ProposerInit
  <2> QED
    BY <2>1, <2>2, <2>3, <2>4, <2>5, <2>6 DEF ProposerTypeOK
<1> QED
  BY <1>1, <1>2, <1>3 DEF ProposerInit, TypeInv

\* Room for the rounds that are announced.
LEMMA newRoundType ==
    ASSUME TypeInv, NEW rounds \in Rises, announcing = << >>, newRound(rounds)
    PROVE  /\ tryProposeChan' \in Seq(Round) /\ Len(tryProposeChan') <= TryCap
           /\ announcing' \in Seq(Round) /\ Len(announcing') <= 2
           /\ currRound' \in Round
           /\ tryProposeChan' \o announcing' = tryProposeChan \o rounds
<1> DEFINE all == tryProposeChan \o rounds
<1>1. /\ tryProposeChan \in Seq(Round) /\ Len(tryProposeChan) \in Nat /\ Len(tryProposeChan) <= TryCap
      /\ TryCap \in Nat
  BY ProposerAssumption, LenProperties DEF TypeInv, ProposerTypeOK
<1>2. all \in Seq(Round) /\ Len(all) = Len(tryProposeChan) + Len(rounds) /\ Len(all) \in Nat
  BY <1>1, Rise, ConcatProperties
<1>4. Len(rounds) \in {1, 2} /\ rounds[Len(rounds)] \in Round
  BY Rise
<1> DEFINE room == IF Len(all) <= TryCap THEN Len(all) ELSE TryCap
<1>5. /\ room \in Nat /\ room <= Len(all) /\ room <= TryCap
      /\ Len(all) - room <= 2
  <2>1. Len(rounds) \in Nat /\ Len(rounds) <= 2
    BY <1>4
  <2>2. Len(all) <= TryCap + 2
    BY <1>1, <1>2, <2>1
  <2> HIDE DEF all
  <2>3. CASE Len(all) <= TryCap
    BY <1>2, <2>3
  <2>4. CASE ~(Len(all) <= TryCap)
    BY <1>1, <1>2, <2>2, <2>4
  <2> QED
    BY <2>3, <2>4
<1>6. /\ currRound' = rounds[Len(rounds)]
      /\ tryProposeChan' = SubSeq(all, 1, room)
      /\ announcing' = SubSeq(all, room + 1, Len(all))
  BY DEF newRound
<1> HIDE DEF all, room
<1>7. /\ SubSeq(all, 1, room) \in Seq(Round) /\ Len(SubSeq(all, 1, room)) = room
      /\ SubSeq(all, room + 1, Len(all)) \in Seq(Round)
      /\ Len(SubSeq(all, room + 1, Len(all))) = Len(all) - room
      /\ SubSeq(all, 1, room) \o SubSeq(all, room + 1, Len(all)) = all
  BY <1>2, <1>5, Pieces
<1> QED
  BY <1>4, <1>5, <1>6, <1>7 DEF all

LEMMA NextType == TypeInv /\ [ProposerNext]_proposerVars => TypeInv'
<1> SUFFICES ASSUME TypeInv, [ProposerNext]_proposerVars PROVE TypeInv'
  OBVIOUS
<1>0. /\ TryCap \in Nat \ {0} /\ ProposeCap \in Nat \ {0} /\ Interval \in Nat \ {0}
      /\ 1 \in Round
  BY ProposerAssumption DEF Round
<1>1. ASSUME NEW k \in Request, ReceiveRequest(k) PROVE TypeInv'
  <2>1. Append(clientChan, k) \in Seq(Request)
    BY AppendProperties DEF TypeInv, ProposerTypeOK
  <2> QED
    BY <1>1, <2>1 DEF ReceiveRequest, TypeInv, ProposerTypeOK, batchVars
<1>2. CASE TimerFires
  <2>1. CASE proposeflag /\ getBatch(1) /\ proposeflag' = FALSE
    <3>1. PICK b \in BlockInfo : sending' = <<b>>
      BY <1>0, <2>1, getBatchType
    <3>2. /\ startId' \in Nat /\ currBatch' \in Seq(Request) /\ reqNum' \in Nat
          /\ reqNum' <= Interval * Len(currBatch')
      BY <1>0, <2>1, getBatchType
    <3>3. sending' \in Seq(BlockInfo) /\ Len(sending') <= 1
      BY <3>1
    <3>4. /\ UNCHANGED <<received, clientChan, tryProposeChan, proposeChan, currRound, announcing, myBlocks>>
          /\ fired' = TRUE /\ proposeflag' = FALSE
      BY <1>2, <2>1 DEF TimerFires, clientVars
    <3>5. ProposerTypeOK'
      BY <3>2, <3>3, <3>4 DEF TypeInv, ProposerTypeOK
    <3> QED
      BY <3>2, <3>5 DEF TypeInv
  <2>2. CASE ~proposeflag /\ UNCHANGED <<sending, currBatch, reqNum, startId, proposeflag>>
    BY <1>2, <2>2 DEF TimerFires, TypeInv, ProposerTypeOK, clientVars
  <2> QED
    BY <1>2, <2>1, <2>2 DEF TimerFires
<1>3. CASE TakeRequest
  <2>1. Tail(clientChan) \in Seq(Request) /\ Head(clientChan) \in Request
    BY <1>3, HeadTailProperties DEF TakeRequest, TypeInv, ProposerTypeOK
  <2>2. /\ currBatch' \in Seq(Request) /\ Len(currBatch') = Len(currBatch) + 1
    BY <1>3, <2>1, AppendProperties DEF TakeRequest, TypeInv, ProposerTypeOK
  <2>3. Len(currBatch) \in Nat
    BY LenProperties DEF TypeInv, ProposerTypeOK
  <2>4. Interval * Len(currBatch') = Interval * Len(currBatch) + Interval
    BY <1>0, <2>2, <2>3
  <2>5. Interval * Len(currBatch) \in Nat
    BY <1>0, <2>3
  <2>6. /\ reqNum' = reqNum + Interval /\ clientChan' = Tail(clientChan)
        /\ UNCHANGED <<received, startId, fired, proposeflag, sending, tryProposeChan,
                       proposeChan, currRound, announcing, myBlocks>>
    BY <1>3 DEF TakeRequest
  <2>7. /\ reqNum' \in Nat /\ reqNum' <= Interval * Len(currBatch')
    <3> DEFINE old == Interval * Len(currBatch)
               new == Interval * Len(currBatch')
    <3>1. old \in Nat /\ new = old + Interval /\ Interval \in Nat
      BY <1>0, <2>4, <2>5
    <3>2. reqNum \in Nat /\ reqNum <= old
      BY DEF TypeInv, ProposerTypeOK
    <3> HIDE DEF old, new
    <3>3. reqNum' \in Nat /\ reqNum' <= new
      BY <2>6, <3>1, <3>2
    <3> QED
      BY <3>3 DEF new
  <2>8. ProposerTypeOK'
    BY <2>1, <2>2, <2>6, <2>7 DEF TypeInv, ProposerTypeOK
  <2> QED
    BY <2>7, <2>8 DEF TypeInv
<1>4. CASE TakeRound
  <2>1. /\ Head(tryProposeChan) \in Round /\ tryProposeChan' \in Seq(Round)
        /\ Len(tryProposeChan') = Len(tryProposeChan) - 1 /\ Len(tryProposeChan) \in Nat
    BY <1>4, HeadTailProperties, LenProperties DEF TakeRound, TypeInv, ProposerTypeOK
  <2>2. getBatch(Head(tryProposeChan))
    BY <1>4 DEF TakeRound
  <2>3. PICK b \in BlockInfo : sending' = <<b>>
    BY <2>1, <2>2, getBatchType
  <2>4. /\ startId' \in Nat /\ currBatch' \in Seq(Request) /\ reqNum' \in Nat
        /\ reqNum' <= Interval * Len(currBatch')
    BY <2>1, <2>2, getBatchType
  <2>5. sending' \in Seq(BlockInfo) /\ Len(sending') <= 1
    BY <2>3
  <2>6. /\ UNCHANGED <<received, clientChan, fired, proposeChan, currRound, announcing, myBlocks>>
        /\ proposeflag' = FALSE
    BY <1>4 DEF TakeRound, clientVars
  <2>7. Len(tryProposeChan') <= TryCap
    BY <1>0, <2>1 DEF TypeInv, ProposerTypeOK
  <2>8. ProposerTypeOK'
    BY <2>1, <2>4, <2>5, <2>6, <2>7 DEF TypeInv, ProposerTypeOK
  <2> QED
    BY <2>4, <2>8 DEF TypeInv
<1>5. CASE SendBlock
  <2>1. /\ proposeChan \o sending \in Seq(BlockInfo)
        /\ Len(proposeChan \o sending) = Len(proposeChan) + Len(sending)
        /\ Len(proposeChan) \in Nat /\ Len(sending) \in Nat /\ Len(sending) <= 1
    BY ConcatProperties, LenProperties DEF TypeInv, ProposerTypeOK
  <2>2. << >> \in Seq(BlockInfo) /\ Len(<< >>) = 0
    BY EmptySeq
  <2> QED
    BY <1>0, <1>5, <2>1, <2>2 DEF SendBlock, TypeInv, ProposerTypeOK, clientVars, batchVars
<1>6. ASSUME NEW rounds \in Rises, StartRounds(rounds) PROVE TypeInv'
  <2>1. announcing = << >> /\ newRound(rounds)
    BY <1>6 DEF StartRounds, MainIdle
  <2>2. /\ tryProposeChan' \in Seq(Round) /\ Len(tryProposeChan') <= TryCap
        /\ announcing' \in Seq(Round) /\ Len(announcing') <= 2
        /\ currRound' \in Round
    BY <2>1, newRoundType
  <2> QED
    BY <1>6, <2>2 DEF StartRounds, TypeInv, ProposerTypeOK, clientVars, batchVars
<1>7. CASE Announce
  <2>1. /\ Head(announcing) \in Round /\ Tail(announcing) \in Seq(Round)
        /\ Len(Tail(announcing)) = Len(announcing) - 1 /\ Len(announcing) \in Nat
    BY <1>7, HeadTailProperties, LenProperties DEF Announce, TypeInv, ProposerTypeOK
  <2>2. /\ tryProposeChan' \in Seq(Round) /\ Len(tryProposeChan') = Len(tryProposeChan) + 1
        /\ Len(tryProposeChan) \in Nat
    BY <1>7, <2>1, AppendProperties, LenProperties DEF Announce, TypeInv, ProposerTypeOK
  <2> QED
    BY <1>0, <1>7, <2>1, <2>2 DEF Announce, TypeInv, ProposerTypeOK, clientVars, batchVars
<1>8. CASE Propose
  <2>1. /\ Head(proposeChan) \in BlockInfo /\ Tail(proposeChan) \in Seq(BlockInfo)
        /\ Len(Tail(proposeChan)) = Len(proposeChan) - 1 /\ Len(proposeChan) \in Nat
    BY <1>8, HeadTailProperties, LenProperties DEF Propose, TypeInv, ProposerTypeOK
  <2>2. myBlocks' \in Seq(BlockInfo)
    BY <1>8, <2>1, AppendProperties DEF Propose, TypeInv, ProposerTypeOK
  <2> QED
    BY <1>0, <1>8, <2>1, <2>2 DEF Propose, TypeInv, ProposerTypeOK, clientVars, batchVars
<1>9. CASE UNCHANGED proposerVars
  BY <1>9 DEF TypeInv, ProposerTypeOK, proposerVars, clientVars, batchVars
<1> QED
  BY <1>1, <1>2, <1>3, <1>4, <1>5, <1>6, <1>7, <1>8, <1>9 DEF ProposerNext

----------------------------------------------------------------------------
\* What the steps do to the pipeline.
LEMMA Moved ==
    ASSUME NEW S, NEW s \in Seq(S), NEW t \in Seq(S), t # << >>
    PROVE  Append(s, Head(t)) \o Tail(t) = s \o t
<1>1. /\ Head(t) \in S /\ Tail(t) \in Seq(S) /\ <<Head(t)>> \in Seq(S)
      /\ t = <<Head(t)>> \o Tail(t)
  <2>1. Head(t) \in S /\ Tail(t) \in Seq(S) /\ Len(Tail(t)) = Len(t) - 1 /\ Len(t) \in Nat \ {0}
    BY HeadTailProperties, LenProperties, EmptySeq
  <2>2. <<Head(t)>> \in Seq(S) /\ Len(<<Head(t)>>) = 1 /\ <<Head(t)>>[1] = Head(t)
    BY <2>1
  <2>3. t = <<Head(t)>> \o Tail(t)
    BY <2>1, <2>2
  <2> QED
    BY <2>1, <2>2, <2>3
<1>2. Append(s, Head(t)) = s \o <<Head(t)>>
  BY <1>1, AppendIsConcat
<1>3. (s \o <<Head(t)>>) \o Tail(t) = s \o (<<Head(t)>> \o Tail(t))
  BY <1>1, ConcatAssociative
<1> QED
  BY <1>1, <1>2, <1>3

LEMMA HeadTailOfConcat ==
    ASSUME NEW S, NEW s \in Seq(S), NEW t \in Seq(S), s # << >>
    PROVE  /\ s \o t # << >> /\ Head(s \o t) = Head(s)
           /\ Tail(s \o t) = Tail(s) \o t
<1>1. /\ Tail(s) \in Seq(S) /\ Len(Tail(s)) = Len(s) - 1 /\ Len(s) \in Nat \ {0}
      /\ \A i \in 1..(Len(s) - 1) : Tail(s)[i] = s[i + 1]
  BY HeadTailProperties, LenProperties, EmptySeq
<1>2. /\ s \o t \in Seq(S) /\ Len(s \o t) = Len(s) + Len(t) /\ Len(t) \in Nat
      /\ \A i \in 1..(Len(s) + Len(t)) : (s \o t)[i] = IF i <= Len(s) THEN s[i] ELSE t[i - Len(s)]
  BY ConcatProperties, LenProperties
<1>3. s \o t # << >> /\ Head(s \o t) = Head(s)
  BY <1>1, <1>2, EmptySeq
<1>4. /\ Tail(s \o t) \in Seq(S) /\ Len(Tail(s \o t)) = (Len(s) + Len(t)) - 1
      /\ \A i \in 1..((Len(s) + Len(t)) - 1) : Tail(s \o t)[i] = (s \o t)[i + 1]
  BY <1>1, <1>2, <1>3, HeadTailProperties
<1>5. /\ Tail(s) \o t \in Seq(S) /\ Len(Tail(s) \o t) = (Len(s) - 1) + Len(t)
      /\ \A i \in 1..((Len(s) - 1) + Len(t)) :
            (Tail(s) \o t)[i] = IF i <= Len(s) - 1 THEN Tail(s)[i] ELSE t[i - (Len(s) - 1)]
  BY <1>1, <1>2, ConcatProperties
<1>6. ASSUME NEW i \in 1..((Len(s) + Len(t)) - 1)
      PROVE  Tail(s \o t)[i] = (Tail(s) \o t)[i]
  <2>1. CASE i <= Len(s) - 1
    BY <1>1, <1>2, <1>4, <1>5, <2>1
  <2>2. CASE ~(i <= Len(s) - 1)
    <3>1. (s \o t)[i + 1] = t[(i + 1) - Len(s)]
      BY <1>1, <1>2, <2>2
    <3>2. (Tail(s) \o t)[i] = t[i - (Len(s) - 1)]
      BY <1>1, <1>2, <1>5, <2>2
    <3>3. (i + 1) - Len(s) = i - (Len(s) - 1)
      BY <1>1
    <3> QED
      BY <1>4, <3>1, <3>2, <3>3
  <2> QED
    BY <2>1, <2>2
<1>7. Tail(s \o t) = Tail(s) \o t
  BY <1>1, <1>2, <1>4, <1>5, <1>6, SeqEqual
<1> QED
  BY <1>3, <1>7

\* How the blocks go on: one is cut, or one moves to the next place.
LEMMA BlockIsCut ==
    ASSUME TypeInv, NEW round \in Round, getBatch(round), sending = << >>,
           UNCHANGED <<myBlocks, proposeChan>>
    PROVE  \E b \in BlockInfo, cut \in 0..Len(currBatch) :
              /\ Blocks' = Append(Blocks, b) /\ b.Round = round /\ b.StartID = startId
              /\ b.Payload = SubSeq(currBatch, 1, cut)
              /\ currBatch' = SubSeq(currBatch, cut + 1, Len(currBatch))
              /\ startId' = startId + b.ReqNum
              /\ reqNum' = reqNum - b.ReqNum
              /\ IsCut(b) \/ (cut = Len(currBatch) /\ reqNum' = 0)
<1>1. PICK b \in BlockInfo, cut \in 0..Len(currBatch) :
              /\ sending' = <<b>> /\ b.Round = round /\ b.StartID = startId
              /\ b.Payload = SubSeq(currBatch, 1, cut)
              /\ currBatch' = SubSeq(currBatch, cut + 1, Len(currBatch))
              /\ startId' = startId + b.ReqNum
              /\ reqNum' = reqNum - b.ReqNum
              /\ IsCut(b) \/ (cut = Len(currBatch) /\ reqNum' = 0)
  BY getBatchType
<1>2. myBlocks \o proposeChan \in Seq(BlockInfo)
  BY ConcatProperties DEF TypeInv, ProposerTypeOK
<1>3. Blocks = myBlocks \o proposeChan
  BY <1>2, ConcatEmptySeq DEF Blocks
<1>4. Blocks' = Blocks \o <<b>>
  BY <1>1, <1>3 DEF Blocks
<1>5. Blocks' = Append(Blocks, b)
  BY <1>2, <1>3, <1>4, AppendIsConcat
<1> QED
  BY <1>1, <1>5

LEMMA BlockIsSent ==
    ASSUME TypeInv, SendBlock
    PROVE  Blocks' = Blocks
<1>1. /\ myBlocks \in Seq(BlockInfo) /\ proposeChan \in Seq(BlockInfo) /\ sending \in Seq(BlockInfo)
      /\ proposeChan' = proposeChan \o sending /\ sending' = << >> /\ myBlocks' = myBlocks
  BY DEF TypeInv, ProposerTypeOK, SendBlock
<1>2. proposeChan \o sending \in Seq(BlockInfo)
  BY <1>1, ConcatProperties
<1>3. myBlocks \o (proposeChan \o sending) \in Seq(BlockInfo)
  BY <1>1, <1>2, ConcatProperties
<1>4. Blocks' = myBlocks \o (proposeChan \o sending)
  BY <1>1, <1>3, ConcatEmptySeq DEF Blocks
<1>5. Blocks = myBlocks \o (proposeChan \o sending)
  BY <1>1, ConcatAssociative DEF Blocks
<1> QED
  BY <1>4, <1>5

LEMMA BlockIsProposed ==
    ASSUME TypeInv, Propose
    PROVE  Blocks' = Blocks
  BY Moved DEF TypeInv, ProposerTypeOK, Propose, Blocks

LEMMA NextIsPipelineStep == TypeInv /\ [ProposerNext]_proposerVars => PipelineStep
<1> SUFFICES ASSUME TypeInv, [ProposerNext]_proposerVars PROVE PipelineStep
  OBVIOUS
<1>0. /\ myBlocks \in Seq(BlockInfo) /\ proposeChan \in Seq(BlockInfo) /\ sending \in Seq(BlockInfo)
      /\ tryProposeChan \in Seq(Round) /\ announcing \in Seq(Round)
      /\ 1 \in Round
  BY ProposerAssumption DEF TypeInv, ProposerTypeOK, Round
<1>1. ASSUME NEW round \in Round, getBatch(round), sending = << >>, proposeflag' = FALSE,
             UNCHANGED <<myBlocks, proposeChan>>
      PROVE  Cut(round)
  BY <1>1, BlockIsCut DEF Cut
<1>2. CASE UNCHANGED <<myBlocks, proposeChan, sending, tryProposeChan, announcing,
                       currRound, proposeflag, startId>>
  BY <1>2 DEF PipelineStep, Blocks, Queue
<1>3. ASSUME NEW k \in Request, ReceiveRequest(k) PROVE PipelineStep
  BY <1>2, <1>3 DEF ReceiveRequest, batchVars
<1>4. CASE TimerFires
  <2>1. CASE proposeflag /\ getBatch(1) /\ proposeflag' = FALSE
    <3>1. /\ sending = << >>
          /\ UNCHANGED <<myBlocks, proposeChan, tryProposeChan, announcing, currRound>>
      BY <1>4 DEF TimerFires, Selecting
    <3>2. Cut(1)
      BY <1>0, <1>1, <2>1, <3>1
    <3> QED
      BY <2>1, <3>1, <3>2 DEF PipelineStep, Queue
  <2>2. CASE ~proposeflag /\ UNCHANGED <<sending, currBatch, reqNum, startId, proposeflag>>
    BY <1>2, <1>4, <2>2 DEF TimerFires
  <2> QED
    BY <1>4, <2>1, <2>2 DEF TimerFires
<1>5. CASE TakeRequest
  BY <1>2, <1>5 DEF TakeRequest
<1>6. CASE TakeRound
  <2>1. /\ tryProposeChan # << >> /\ sending = << >> /\ getBatch(Head(tryProposeChan))
        /\ tryProposeChan' = Tail(tryProposeChan) /\ proposeflag' = FALSE
        /\ UNCHANGED <<myBlocks, proposeChan, announcing, currRound>>
    BY <1>6 DEF TakeRound, Selecting
  <2>2. /\ Head(tryProposeChan) \in Round /\ Tail(tryProposeChan) \in Seq(Round)
    BY <1>0, <2>1, HeadTailProperties
  <2>3. Cut(Head(tryProposeChan))
    BY <1>1, <2>1, <2>2
  <2>4. Queue # << >> /\ Head(Queue) = Head(tryProposeChan)
        /\ Tail(Queue) = Tail(tryProposeChan) \o announcing
    BY <1>0, <2>1, HeadTailOfConcat DEF Queue
  <2> QED
    BY <2>1, <2>3, <2>4 DEF PipelineStep, Queue
<1>7. CASE SendBlock
  <2>1. /\ proposeChan' = proposeChan \o sending /\ sending' = << >>
        /\ UNCHANGED <<myBlocks, tryProposeChan, announcing, currRound, proposeflag, startId>>
    BY <1>7 DEF SendBlock, batchVars
  <2>2. Blocks' = Blocks
    BY <1>7, BlockIsSent
  <2> QED
    BY <2>1, <2>2 DEF PipelineStep, Queue
<1>8. ASSUME NEW rounds \in Rises, StartRounds(rounds) PROVE PipelineStep
  <2>1. /\ currRound < rounds[1] /\ announcing = << >> /\ newRound(rounds)
        /\ UNCHANGED <<myBlocks, proposeChan, sending, proposeflag, startId>>
    BY <1>8 DEF StartRounds, MainIdle, batchVars
  <2>2. currRound' = rounds[Len(rounds)]
    BY <2>1 DEF newRound
  <2>3. Queue = tryProposeChan
    BY <1>0, <2>1, ConcatEmptySeq DEF Queue
  <2>4. Queue' = Queue \o rounds
    BY <2>1, <2>3, newRoundType DEF Queue
  <2> QED
    BY <2>1, <2>2, <2>4 DEF PipelineStep, Blocks
<1>9. CASE Announce
  <2>1. /\ announcing # << >>
        /\ tryProposeChan' = Append(tryProposeChan, Head(announcing))
        /\ announcing' = Tail(announcing)
        /\ UNCHANGED <<myBlocks, proposeChan, sending, currRound, proposeflag, startId>>
    BY <1>9 DEF Announce, batchVars
  <2>2. Queue' = Queue
    BY <1>0, <2>1, Moved DEF Queue
  <2> QED
    BY <2>1, <2>2 DEF PipelineStep, Blocks
<1>10. CASE Propose
  <2>1. /\ proposeChan # << >>
        /\ myBlocks' = Append(myBlocks, Head(proposeChan))
        /\ proposeChan' = Tail(proposeChan)
        /\ UNCHANGED <<sending, tryProposeChan, announcing, currRound, proposeflag, startId>>
    BY <1>10 DEF Propose, batchVars
  <2>2. Blocks' = Blocks
    BY <1>10, BlockIsProposed
  <2> QED
    BY <2>1, <2>2 DEF PipelineStep, Queue
<1>11. CASE UNCHANGED proposerVars
  BY <1>2, <1>11 DEF proposerVars, batchVars
<1> QED
  BY <1>3, <1>4, <1>5, <1>6, <1>7, <1>8, <1>9, <1>10, <1>11 DEF ProposerNext

----------------------------------------------------------------------------
Contiguous ==
    /\ \A i \in 1..Len(Blocks) :
          Blocks[i].StartID + Blocks[i].ReqNum =
              IF i = Len(Blocks) THEN startId ELSE Blocks[i + 1].StartID

Inv == TypeInv /\ Pipeline /\ Contiguous

LEMMA PipelineType ==
    TypeInv => /\ Blocks \in Seq(BlockInfo) /\ Len(Blocks) \in Nat
               /\ Queue \in Seq(Round) /\ Len(Queue) \in Nat
               /\ \A i \in 1..Len(Blocks) : /\ Blocks[i] \in BlockInfo
                                            /\ Blocks[i].Round \in Nat
               /\ \A j \in 1..Len(Queue) : Queue[j] \in Nat
               /\ currRound \in Nat /\ currRound >= 1
<1> SUFFICES ASSUME TypeInv
             PROVE  /\ Blocks \in Seq(BlockInfo) /\ Len(Blocks) \in Nat
                    /\ Queue \in Seq(Round) /\ Len(Queue) \in Nat
                    /\ \A i \in 1..Len(Blocks) : Blocks[i] \in BlockInfo /\ Blocks[i].Round \in Nat
                    /\ \A j \in 1..Len(Queue) : Queue[j] \in Nat
                    /\ currRound \in Nat /\ currRound >= 1
  OBVIOUS
<1>1. \A r \in Round : r \in Nat /\ r >= 1
  BY ProposerAssumption DEF Round
<1>2. currRound \in Round
  BY DEF TypeInv, ProposerTypeOK
<1>3. Queue \in Seq(Round) /\ Len(Queue) \in Nat
  BY ConcatProperties, LenProperties DEF TypeInv, ProposerTypeOK, Queue
<1>4. myBlocks \o proposeChan \in Seq(BlockInfo) /\ sending \in Seq(BlockInfo)
  BY ConcatProperties DEF TypeInv, ProposerTypeOK
<1>5. Blocks \in Seq(BlockInfo) /\ Len(Blocks) \in Nat
  BY <1>4, ConcatProperties, LenProperties DEF Blocks
<1>6. \A b \in BlockInfo : b.Round \in Round
  BY DEF BlockInfo
<1>7. \A i \in 1..Len(Blocks) : Blocks[i] \in BlockInfo
  BY <1>5, ElementOfSeq
<1>8. \A j \in 1..Len(Queue) : Queue[j] \in Round
  BY <1>3, ElementOfSeq
<1> QED
  BY <1>1, <1>2, <1>3, <1>5, <1>6, <1>7, <1>8

\* A block that is cut comes last.
LEMMA CutLast ==
    ASSUME TypeInv, NEW b \in BlockInfo, Blocks' = Append(Blocks, b)
    PROVE  /\ Len(Blocks') = Len(Blocks) + 1
           /\ Blocks'[Len(Blocks) + 1] = b /\ b.Round \in Nat
           /\ \A i \in 1..Len(Blocks) : Blocks'[i] = Blocks[i]
<1>1. Blocks \in Seq(BlockInfo)
  BY PipelineType
<1>2. b.Round \in Nat
  BY ProposerAssumption DEF BlockInfo, Round
<1> QED
  BY <1>1, <1>2, AppendProperties

\* Rounds above the top at the end of the line, and round 1 at its head.
LEMMA RisingAppend ==
    ASSUME NEW n \in Nat, NEW line, NEW top, Rising(line, n, top),
           NEW l \in {1, 2}, NEW r \in Nat, top < r
    PROVE  Rising([i \in 1..(n + l) |-> IF i <= n THEN line[i] ELSE r + (i - n - 1)],
                  n + l, r + (l - 1))
<1> DEFINE new == [i \in 1..(n + l) |-> IF i <= n THEN line[i] ELSE r + (i - n - 1)]
<1>0. /\ line \in [1..n -> Nat] /\ top \in Nat
      /\ \A i, j \in 1..n : i <= j => line[j] >= line[i] + (j - i)
      /\ \A i \in 1..n : top >= line[i] + (n - i)
  BY DEF Rising
<1>1. \A i \in 1..n : i \in 1..(n + l) /\ new[i] = line[i] /\ new[i] \in Nat
  BY <1>0
<1>2. \A i \in 1..(n + l) : ~(i <= n) => new[i] = r + (i - n - 1) /\ new[i] \in Nat
  BY <1>0
<1>3. new \in [1..(n + l) -> Nat]
  BY <1>0
<1> HIDE DEF new
<1>4. ASSUME NEW i \in 1..(n + l), NEW j \in 1..(n + l), i <= j
      PROVE  new[j] >= new[i] + (j - i)
  <2>1. CASE j <= n
    <3>1. i \in 1..n /\ j \in 1..n
      BY <1>4, <2>1
    <3> QED
      BY <1>0, <1>1, <1>4, <3>1
  <2>2. CASE ~(j <= n) /\ i <= n
    <3>1. i \in 1..n
      BY <2>2
    <3>2. top >= line[i] + (n - i) /\ new[i] = line[i] /\ line[i] \in Nat
      BY <1>0, <1>1, <3>1
    <3>3. new[j] = r + (j - n - 1)
      BY <1>2, <2>2
    <3> QED
      BY <1>0, <3>2, <3>3
  <2>3. CASE ~(j <= n) /\ ~(i <= n)
    BY <1>2, <2>3
  <2> QED
    BY <2>1, <2>2, <2>3
<1>5. ASSUME NEW i \in 1..(n + l)
      PROVE  r + (l - 1) >= new[i] + (n + l - i)
  <2>1. CASE i <= n
    <3>1. i \in 1..n
      BY <2>1
    <3>2. top >= line[i] + (n - i) /\ new[i] = line[i] /\ line[i] \in Nat
      BY <1>0, <1>1, <3>1
    <3> QED
      BY <1>0, <3>2
  <2>2. CASE ~(i <= n)
    BY <1>2, <2>2
  <2> QED
    BY <2>1, <2>2
<1>6. r + (l - 1) \in Nat
  OBVIOUS
<1>7. Rising(new, n + l, r + (l - 1))
  BY <1>3, <1>4, <1>5, <1>6 DEF Rising
<1> QED
  BY <1>7 DEF new

LEMMA RisingCons ==
    ASSUME NEW n \in Nat, NEW line, NEW top, Rising(line, n, top), top >= 1,
           \A i \in 1..n : line[i] >= 1 + i
    PROVE  Rising([i \in 1..(n + 1) |-> IF i <= 1 THEN 1 ELSE line[i - 1]], n + 1, top)
<1> DEFINE new == [i \in 1..(n + 1) |-> IF i <= 1 THEN 1 ELSE line[i - 1]]
<1>0. /\ line \in [1..n -> Nat] /\ top \in Nat
      /\ \A i, j \in 1..n : i <= j => line[j] >= line[i] + (j - i)
      /\ \A i \in 1..n : top >= line[i] + (n - i)
  BY DEF Rising
<1>1. \A i \in 1..(n + 1) : ~(i <= 1) => i - 1 \in 1..n /\ new[i] = line[i - 1] /\ new[i] \in Nat
  BY <1>0
<1>2. 1 \in 1..(n + 1) /\ new[1] = 1 /\ \A i \in 1..(n + 1) : i <= 1 => i = 1
  OBVIOUS
<1>3. new \in [1..(n + 1) -> Nat]
  BY <1>0
<1> HIDE DEF new
<1>4. ASSUME NEW i \in 1..(n + 1), NEW j \in 1..(n + 1), i <= j
      PROVE  new[j] >= new[i] + (j - i)
  <2>1. CASE j <= 1
    BY <1>2, <1>4, <2>1
  <2>2. CASE ~(j <= 1) /\ i <= 1
    <3>1. j - 1 \in 1..n /\ new[j] = line[j - 1] /\ line[j - 1] \in Nat
      BY <1>1, <2>2
    <3>2. line[j - 1] >= 1 + (j - 1)
      BY <3>1
    <3>3. i = 1 /\ new[i] = 1
      BY <1>2, <2>2
    <3> QED
      BY <3>1, <3>2, <3>3
  <2>3. CASE ~(j <= 1) /\ ~(i <= 1)
    <3>1. /\ j - 1 \in 1..n /\ new[j] = line[j - 1] /\ new[j] \in Nat
          /\ i - 1 \in 1..n /\ new[i] = line[i - 1] /\ new[i] \in Nat
      BY <1>1, <2>3
    <3>2. i - 1 <= j - 1
      BY <1>4
    <3>3. line[j - 1] >= line[i - 1] + ((j - 1) - (i - 1))
      BY <1>0, <3>1, <3>2
    <3> QED
      BY <3>1, <3>3
  <2> QED
    BY <2>1, <2>2, <2>3
<1>5. ASSUME NEW i \in 1..(n + 1)
      PROVE  top >= new[i] + (n + 1 - i)
  <2>1. CASE i <= 1
    <3>1. i = 1 /\ new[i] = 1
      BY <1>2, <2>1
    <3>2. CASE n = 0
      BY <1>0, <3>1, <3>2
    <3>3. CASE n # 0
      <4>1. n \in 1..n
        BY <3>3
      <4>2. line[n] >= 1 + n /\ top >= line[n] + (n - n) /\ line[n] \in Nat
        BY <1>0, <4>1
      <4> QED
        BY <1>0, <3>1, <4>2
    <3> QED
      BY <3>2, <3>3
  <2>2. CASE ~(i <= 1)
    <3>1. i - 1 \in 1..n /\ new[i] = line[i - 1] /\ line[i - 1] \in Nat
      BY <1>1, <2>2
    <3>2. top >= line[i - 1] + (n - (i - 1))
      BY <1>0, <3>1
    <3> QED
      BY <1>0, <3>1, <3>2
  <2> QED
    BY <2>1, <2>2
<1>6. Rising(new, n + 1, top)
  BY <1>0, <1>3, <1>4, <1>5 DEF Rising
<1> QED
  BY <1>6 DEF new

LEMMA NextPipeline == TypeInv /\ Pipeline /\ PipelineStep => Pipeline'
<1> SUFFICES ASSUME TypeInv, Pipeline, PipelineStep PROVE Pipeline'
  OBVIOUS
<1> DEFINE m == Len(Blocks)
           q == Len(Queue)
<1>0. /\ m \in Nat /\ q \in Nat
      /\ \A i \in 1..m : Blocks[i].Round \in Nat
      /\ \A j \in 1..q : Queue[j] \in Nat
      /\ currRound \in Nat /\ currRound >= 1
  BY PipelineType
<1>5. /\ Rising(Line, m + q, currRound)
      /\ \A j \in 1..q : Queue[j] >= 1 + j
      /\ proposeflag => Blocks = << >>
  BY DEF Pipeline
<1>6. Line = [i \in 1..(m + q) |-> IF i <= m THEN Blocks[i].Round ELSE Queue[i - m]]
  BY DEF Line
<1>1. CASE UNCHANGED <<Blocks, Queue, currRound, proposeflag, startId>>
  BY <1>1 DEF Pipeline, Line
<1>2. CASE proposeflag /\ Cut(1) /\ UNCHANGED <<Queue, currRound>>
  <2>1. m = 0
    BY <1>2, <1>5, EmptySeq
  <2>2. PICK b \in BlockInfo : Blocks' = Append(Blocks, b) /\ b.Round = 1
    BY <1>2 DEF Cut
  <2>3. Len(Blocks') = 1 /\ Blocks'[1].Round = 1
    BY <2>1, <2>2, CutLast
  <2>4. proposeflag' = FALSE
    BY <1>2 DEF Cut
  <2> HIDE DEF m
  <2>5. Line = [i \in 1..q |-> Queue[i]]
    BY <1>0, <1>6, <2>1
  <2>6. \A i \in 1..q : Line[i] >= 1 + i
    BY <1>5, <2>5
  <2>7. Rising([i \in 1..(q + 1) |-> IF i <= 1 THEN 1 ELSE Line[i - 1]], q + 1, currRound)
    BY <1>0, <1>5, <2>1, <2>6, RisingCons
  <2>8. Line' = [i \in 1..(1 + q) |-> IF i <= 1 THEN Blocks'[i].Round ELSE Queue[i - 1]]
    BY <1>2, <2>3 DEF Line
  <2>9. Line' = [i \in 1..(q + 1) |-> IF i <= 1 THEN 1 ELSE Line[i - 1]]
    <3>1. 1..(1 + q) = 1..(q + 1)
      BY <1>0
    <3>2. \A i \in 1..(q + 1) : (IF i <= 1 THEN Blocks'[i].Round ELSE Queue[i - 1])
                                    = (IF i <= 1 THEN 1 ELSE Line[i - 1])
      BY <1>0, <2>3, <2>5
    <3> QED
      BY <2>8, <3>1, <3>2
  <2>10. Rising(Line', Len(Blocks') + Len(Queue'), currRound')
    <3>1. Len(Blocks') + Len(Queue') = q + 1 /\ currRound' = currRound
      BY <1>0, <1>2, <2>3
    <3> QED
      BY <2>7, <2>9, <3>1
  <2> QED
    BY <1>2, <1>5, <2>4, <2>10 DEF Pipeline
<1>3. CASE Queue # << >> /\ Cut(Head(Queue)) /\ Queue' = Tail(Queue) /\ UNCHANGED currRound
  <2>1. PICK b \in BlockInfo : Blocks' = Append(Blocks, b) /\ b.Round = Head(Queue)
    BY <1>3 DEF Cut
  <2>2. /\ Len(Blocks') = m + 1 /\ Blocks'[m + 1].Round = Queue[1]
        /\ \A i \in 1..m : Blocks'[i].Round = Blocks[i].Round
    BY <2>1, CutLast
  <2>3. /\ q >= 1 /\ Len(Queue') = q - 1
        /\ \A j \in 1..(q - 1) : Queue'[j] = Queue[j + 1]
    BY <1>0, <1>3, PipelineType, HeadTailProperties, EmptySeq
  <2>4. proposeflag' = FALSE /\ currRound' = currRound
    BY <1>3 DEF Cut
  <2> HIDE DEF m, q
  <2>5. Line' = [i \in 1..((m + 1) + (q - 1)) |->
                    IF i <= m + 1 THEN Blocks'[i].Round ELSE Queue'[i - (m + 1)]]
    BY <2>2, <2>3 DEF Line
  <2>6. (m + 1) + (q - 1) = m + q
    BY <1>0
  <2>7. ASSUME NEW i \in 1..(m + q)
        PROVE  (IF i <= m + 1 THEN Blocks'[i].Round ELSE Queue'[i - (m + 1)])
                 = (IF i <= m THEN Blocks[i].Round ELSE Queue[i - m])
    <3>1. CASE i <= m
      BY <1>0, <2>2, <3>1
    <3>2. CASE i = m + 1
      <4>1. i - m = 1 /\ ~(i <= m) /\ i <= m + 1
        BY <1>0, <3>2
      <4> QED
        BY <2>2, <3>2, <4>1
    <3>3. CASE i > m + 1
      <4>1. i - (m + 1) \in 1..(q - 1) /\ (i - (m + 1)) + 1 = i - m
        BY <1>0, <2>3, <3>3
      <4>2. Queue'[i - (m + 1)] = Queue[i - m]
        BY <2>3, <4>1
      <4>3. ~(i <= m) /\ ~(i <= m + 1)
        BY <1>0, <3>3
      <4> QED
        BY <4>2, <4>3
    <3> QED
      BY <1>0, <3>1, <3>2, <3>3
  <2>8. Line' = Line
    BY <1>6, <2>5, <2>6, <2>7
  <2>9. Rising(Line', Len(Blocks') + Len(Queue'), currRound')
    BY <1>5, <2>2, <2>3, <2>4, <2>6, <2>8
  <2>10. \A j \in 1..(q - 1) : Queue'[j] >= 1 + j
    <3> SUFFICES ASSUME NEW j \in 1..(q - 1) PROVE Queue'[j] >= 1 + j
      OBVIOUS
    <3>1. j + 1 \in 1..q /\ j \in Nat
      BY <1>0, <2>3
    <3>2. Queue'[j] = Queue[j + 1] /\ Queue[j + 1] >= 1 + (j + 1) /\ Queue[j + 1] \in Nat
      BY <1>0, <1>5, <2>3, <3>1
    <3> QED
      BY <3>1, <3>2
  <2> QED
    BY <2>3, <2>4, <2>9, <2>10 DEF Pipeline
<1>4. ASSUME NEW rounds \in Rises, currRound < rounds[1],
             Queue' = Queue \o rounds, currRound' = rounds[Len(rounds)],
             UNCHANGED <<Blocks, proposeflag, startId>>
      PROVE  Pipeline'
  <2> DEFINE l == Len(rounds)
             r == rounds[1]
  <2>1. l \in {1, 2} /\ r \in Nat /\ (l = 2 => rounds[2] = r + 1)
    BY Rise, ProposerAssumption DEF Round
  <2>2. /\ Len(Queue') = q + l
        /\ \A j \in 1..(q + l) : Queue'[j] = IF j <= q THEN Queue[j] ELSE rounds[j - q]
    <3>1. rounds \in Seq(Round) /\ Queue \in Seq(Round)
      BY PipelineType, Rise
    <3> QED
      BY <1>4, <3>1, ConcatProperties
  <2>3. currRound' = r + (l - 1) /\ currRound < r
    <3>1. CASE l = 1
      BY <1>4, <2>1, <3>1
    <3>2. CASE l = 2
      BY <1>4, <2>1, <3>2
    <3> QED
      BY <2>1, <3>1, <3>2
  <2>4. \A k \in 1..l : rounds[k] = r + (k - 1)
    <3>1. CASE l = 1
      BY <2>1, <3>1
    <3>2. CASE l = 2
      <4>1. \A k \in 1..l : k = 1 \/ k = 2
        BY <3>2
      <4> QED
        BY <2>1, <3>2, <4>1
    <3> QED
      BY <2>1, <3>1, <3>2
  <2> HIDE DEF m, q, l, r
  <2>5. Line' = [i \in 1..(m + (q + l)) |-> IF i <= m THEN Blocks[i].Round ELSE Queue'[i - m]]
    BY <1>4, <2>2 DEF Line, m
  <2>6. m + (q + l) = (m + q) + l
    BY <1>0, <2>1
  <2>7. ASSUME NEW i \in 1..((m + q) + l)
        PROVE  (IF i <= m THEN Blocks[i].Round ELSE Queue'[i - m])
                 = (IF i <= m + q THEN Line[i] ELSE r + (i - (m + q) - 1))
    <3>1. CASE i <= m
      BY <1>0, <1>6, <3>1
    <3>2. CASE ~(i <= m) /\ i <= m + q
      <4>1. i - m \in 1..(q + l) /\ i - m <= q /\ i \in 1..(m + q)
        BY <1>0, <2>1, <3>2
      <4> QED
        BY <1>6, <2>2, <3>2, <4>1
    <3>3. CASE ~(i <= m + q)
      <4>1. i - m \in 1..(q + l) /\ ~(i - m <= q) /\ (i - m) - q \in 1..l /\ ~(i <= m)
        BY <1>0, <2>1, <3>3
      <4>2. Queue'[i - m] = r + (((i - m) - q) - 1)
        BY <2>2, <2>4, <4>1
      <4>3. (i - m) - q = i - (m + q)
        BY <1>0
      <4> QED
        BY <3>3, <4>1, <4>2, <4>3
    <3> QED
      BY <1>0, <3>1, <3>2, <3>3
  <2>8. Line' = [i \in 1..((m + q) + l) |-> IF i <= m + q THEN Line[i] ELSE r + (i - (m + q) - 1)]
    BY <2>5, <2>6, <2>7
  <2>9. Rising(Line', (m + q) + l, currRound')
    <3>1. m + q \in Nat
      BY <1>0
    <3> QED
      BY <1>5, <2>1, <2>3, <2>8, <3>1, RisingAppend
  <2>10. Len(Blocks') + Len(Queue') = (m + q) + l
    BY <1>4, <2>2, <2>6 DEF m
  <2>11. r >= 2 + q
    <3>1. CASE q = 0
      BY <1>0, <2>1, <2>3, <3>1
    <3>2. CASE q # 0
      <4>1. q \in 1..q /\ m + q \in 1..(m + q) /\ (m + q) - m = q /\ ~(m + q <= m)
        BY <1>0, <3>2
      <4>2. Line[m + q] = Queue[q] /\ Queue[q] >= 1 + q /\ Queue[q] \in Nat
        BY <1>0, <1>5, <1>6, <4>1
      <4>3. currRound >= Line[m + q] + ((m + q) - (m + q))
        BY <1>5, <4>1 DEF Rising
      <4> QED
        BY <1>0, <2>1, <2>3, <4>2, <4>3
    <3> QED
      BY <3>1, <3>2
  <2>12. ASSUME NEW j \in 1..(q + l) PROVE Queue'[j] >= 1 + j
    <3>1. CASE j <= q
      <4>1. j \in 1..q
        BY <3>1
      <4> QED
        BY <1>5, <2>2, <3>1, <4>1
    <3>2. CASE ~(j <= q)
      <4>1. j - q \in 1..l
        BY <1>0, <2>1, <3>2
      <4>2. Queue'[j] = r + ((j - q) - 1)
        BY <2>2, <2>4, <3>2, <4>1
      <4> QED
        BY <1>0, <2>1, <2>11, <4>2
    <3> QED
      BY <3>1, <3>2
  <2>13. Blocks' = Blocks /\ proposeflag' = proposeflag
    BY <1>4
  <2> QED
    BY <1>5, <2>2, <2>9, <2>10, <2>12, <2>13 DEF Pipeline
<1> QED
  BY <1>1, <1>2, <1>3, <1>4 DEF PipelineStep

LEMMA NextContiguous ==
    TypeInv /\ Pipeline /\ Contiguous /\ PipelineStep => Contiguous'
<1> SUFFICES ASSUME TypeInv, Pipeline, Contiguous, PipelineStep PROVE Contiguous'
  OBVIOUS
<1>1. CASE UNCHANGED <<Blocks, startId>>
  BY <1>1 DEF Contiguous
<1>2. ASSUME NEW round, Cut(round) PROVE Contiguous'
  <2> DEFINE m == Len(Blocks)
  <2>1. PICK b \in BlockInfo :
              /\ Blocks' = Append(Blocks, b) /\ b.StartID = startId
              /\ startId' = startId + b.ReqNum
    BY <1>2 DEF Cut
  <2>2. /\ Len(Blocks') = m + 1 /\ Blocks'[m + 1] = b /\ m \in Nat
        /\ \A i \in 1..m : Blocks'[i] = Blocks[i]
    BY <2>1, CutLast, PipelineType
  <2>3. /\ \A i \in 1..m : Blocks[i].StartID + Blocks[i].ReqNum =
                               IF i = m THEN startId ELSE Blocks[i + 1].StartID
    BY DEF Contiguous
  <2> HIDE DEF m
  <2>4. ASSUME NEW i \in 1..(m + 1)
        PROVE  /\ Blocks'[i].StartID + Blocks'[i].ReqNum =
                      IF i = m + 1 THEN startId' ELSE Blocks'[i + 1].StartID
    <3>1. CASE i = m + 1
      BY <2>1, <2>2, <3>1
    <3>2. CASE i = m
      <4>1. i \in 1..m /\ i # m + 1
        BY <2>2, <3>2
      <4>2. Blocks'[i] = Blocks[i] /\ Blocks'[i + 1] = b
        BY <2>2, <3>2, <4>1
      <4> QED
        BY <2>1, <2>3, <3>2, <4>1, <4>2
    <3>3. CASE i < m
      <4>1. i \in 1..m /\ i + 1 \in 1..m /\ i # m + 1 /\ i # m
        BY <2>2, <3>3
      <4>2. Blocks'[i] = Blocks[i] /\ Blocks'[i + 1] = Blocks[i + 1]
        BY <2>2, <4>1
      <4> QED
        BY <2>3, <4>1, <4>2
    <3> QED
      BY <2>2, <3>1, <3>2, <3>3
  <2> QED
    BY <2>2, <2>4 DEF Contiguous
<1> QED
  BY <1>1, <1>2 DEF PipelineStep

LEMMA InitInv == ProposerInit => Inv
<1> SUFFICES ASSUME ProposerInit PROVE Inv
  OBVIOUS
<1>1. TypeInv
  BY InitType
<1>2. << >> \in Seq(Round) /\ Len(<< >>) = 0
  BY EmptySeq
<1>3. Blocks = << >> /\ Queue = << >>
  BY <1>2, ConcatEmptySeq DEF ProposerInit, Blocks, Queue
<1>4. Rising(Line, Len(Blocks) + Len(Queue), currRound)
  <2>1. Line = [i \in 1..(0 + 0) |-> IF i <= 0 THEN Blocks[i].Round ELSE Queue[i - 0]]
    BY <1>2, <1>3 DEF Line
  <2>2. 1..(0 + 0) = {} /\ 0 + 0 = 0
    OBVIOUS
  <2>3. Line \in [{} -> Nat]
    BY <2>1, <2>2
  <2>4. currRound = 1 /\ Len(Blocks) + Len(Queue) = 0
    BY <1>2, <1>3 DEF ProposerInit
  <2> QED
    BY <2>2, <2>3, <2>4 DEF Rising
<1>5. Pipeline /\ Contiguous
  <2>1. 1..0 = {}
    OBVIOUS
  <2> QED
    BY <1>2, <1>3, <1>4, <2>1 DEF Pipeline, Contiguous
<1> QED
  BY <1>1, <1>5 DEF Inv

LEMMA NextInv == Inv /\ [ProposerNext]_proposerVars => Inv'
  BY NextType, NextIsPipelineStep, NextPipeline, NextContiguous DEF Inv

----------------------------------------------------------------------------
(***************************************************************************)
(* The batch, the channels and the blocks have their types: no channel     *)
(* holds more than its capacity, and no cut is out of the batch.           *)
(***************************************************************************)
THEOREM TypeCorrect == ProposerSpec => []ProposerTypeOK
<1>1. Inv => ProposerTypeOK
  BY DEF Inv, TypeInv
<1> QED
  BY <1>1, InitInv, NextInv, PTL DEF ProposerSpec

LEMMA InvInOrder == Inv => RoundsInOrder
<1> SUFFICES ASSUME Inv PROVE RoundsInOrder
  OBVIOUS
<1>1. /\ Len(Blocks) \in Nat /\ Len(Queue) \in Nat /\ DOMAIN Blocks = 1..Len(Blocks)
      /\ \A i \in 1..Len(Blocks) : Blocks[i].Round \in Nat
  BY PipelineType, LenProperties DEF Inv
<1>2. ASSUME NEW i \in 1..Len(Blocks), NEW j \in 1..Len(Blocks), i < j
      PROVE  Blocks[i].Round < Blocks[j].Round
  <2>1. /\ i \in 1..(Len(Blocks) + Len(Queue)) /\ j \in 1..(Len(Blocks) + Len(Queue)) /\ i <= j
        /\ i <= Len(Blocks) /\ j <= Len(Blocks)
    BY <1>1, <1>2
  <2>2. Line[j] >= Line[i] + (j - i)
    BY <2>1 DEF Inv, Pipeline, Rising
  <2>3. Line[i] = Blocks[i].Round /\ Line[j] = Blocks[j].Round
    BY <2>1 DEF Line
  <2> QED
    BY <1>1, <1>2, <2>2, <2>3
<1> QED
  BY <1>1, <1>2 DEF RoundsInOrder

(***************************************************************************)
(* A node proposes no round twice and none before an earlier one.          *)
(***************************************************************************)
THEOREM ProposalsInOrder == ProposerSpec => []RoundsInOrder
  BY InvInOrder, InitInv, NextInv, PTL DEF ProposerSpec

LEMMA InvLag == Inv => WaitNeedsLag
<1> SUFFICES ASSUME Inv, MutualWait
             PROVE  currRound >= LastProposed + TryCap + ProposeCap + 2
  BY DEF WaitNeedsLag
<1> DEFINE k == Len(myBlocks)
           n == Len(Blocks) + Len(Queue)
<1>1. /\ myBlocks \in Seq(BlockInfo) /\ proposeChan \in Seq(BlockInfo) /\ sending \in Seq(BlockInfo)
      /\ tryProposeChan \in Seq(Round) /\ announcing \in Seq(Round)
  BY DEF Inv, TypeInv, ProposerTypeOK
<1>2. /\ Len(tryProposeChan) = TryCap /\ Len(proposeChan) = ProposeCap
      /\ Len(sending) >= 1 /\ Len(announcing) >= 1 /\ Len(sending) \in Nat /\ Len(announcing) \in Nat
      /\ k \in Nat /\ TryCap \in Nat /\ ProposeCap \in Nat
  BY <1>1, EmptySeq, LenProperties, ProposerAssumption DEF MutualWait
<1>3. /\ Len(Queue) = TryCap + Len(announcing)
      /\ Len(myBlocks \o proposeChan) = k + ProposeCap
      /\ myBlocks \o proposeChan \in Seq(BlockInfo)
      /\ \A i \in 1..k : (myBlocks \o proposeChan)[i] = myBlocks[i]
  <2>1. Len(Queue) = TryCap + Len(announcing)
    BY <1>1, <1>2, ConcatProperties DEF Queue
  <2>2. /\ myBlocks \o proposeChan \in Seq(BlockInfo)
        /\ Len(myBlocks \o proposeChan) = k + ProposeCap
        /\ \A i \in 1..(k + ProposeCap) : (myBlocks \o proposeChan)[i] =
              IF i <= k THEN myBlocks[i] ELSE proposeChan[i - k]
    BY <1>1, <1>2, ConcatProperties
  <2>3. \A i \in 1..k : i \in 1..(k + ProposeCap) /\ i <= k
    BY <1>2
  <2> QED
    BY <2>1, <2>2, <2>3
<1>4. /\ Len(Blocks) = k + ProposeCap + Len(sending)
      /\ \A i \in 1..k : Blocks[i] = myBlocks[i]
  <2> DEFINE s == myBlocks \o proposeChan
  <2>1. /\ Len(s \o sending) = Len(s) + Len(sending)
        /\ \A i \in 1..(Len(s) + Len(sending)) : (s \o sending)[i] =
              IF i <= Len(s) THEN s[i] ELSE sending[i - Len(s)]
    BY <1>1, <1>3, ConcatProperties
  <2>2. \A i \in 1..k : i \in 1..(Len(s) + Len(sending)) /\ i <= Len(s)
    BY <1>2, <1>3
  <2> QED
    BY <1>3, <2>1, <2>2 DEF Blocks
<1>5. n >= k + TryCap + ProposeCap + 2 /\ n \in Nat
  BY <1>2, <1>3, <1>4
<1>6. /\ \A i \in 1..n : currRound >= Line[i] + (n - i) /\ Line[i] \in Nat
      /\ currRound \in Nat
  BY DEF Inv, Pipeline, Rising
<1>7. CASE k = 0
  <2>1. LastProposed = 0
    BY <1>1, <1>7, EmptySeq DEF LastProposed
  <2>2. 1 \in 1..n /\ Line[1] = Blocks[1].Round /\ Blocks[1].Round >= 1
    <3>1. 1 \in 1..n /\ 1 <= Len(Blocks) /\ Blocks[1] \in BlockInfo
      BY <1>2, <1>4, <1>5, PipelineType DEF Inv
    <3> QED
      BY <3>1, ProposerAssumption DEF Line, BlockInfo, Round
  <2>3. currRound >= Line[1] + (n - 1)
    BY <1>6, <2>2
  <2> HIDE DEF n
  <2> QED
    BY <1>2, <1>5, <1>6, <1>7, <2>1, <2>2, <2>3
<1>8. CASE k # 0
  <2>1. LastProposed = myBlocks[k].Round
    BY <1>1, <1>8, EmptySeq DEF LastProposed
  <2>2. k \in 1..k /\ k \in 1..n /\ k <= Len(Blocks)
    BY <1>2, <1>4, <1>5, <1>8
  <2>3. Line[k] = myBlocks[k].Round
    BY <1>4, <2>2 DEF Line
  <2>4. currRound >= Line[k] + (n - k) /\ Line[k] \in Nat
    BY <1>6, <2>2
  <2> HIDE DEF n, k
  <2> QED
    BY <1>2, <1>5, <1>6, <2>1, <2>3, <2>4
<1> QED
  BY <1>7, <1>8

(***************************************************************************)
(* mainLoop and proposeLoop can only wait for one another when the node    *)
(* has opened as many rounds beyond its last proposal as both channels     *)
(* and both goroutines hold, whatever their capacities.                    *)
(***************************************************************************)
THEOREM LagBeforeWait == ProposerSpec => []WaitNeedsLag
  BY InvLag, InitInv, NextInv, PTL DEF ProposerSpec

----------------------------------------------------------------------------
(***************************************************************************)
(* NothingLost.  A step adds a request to the channel, takes the first one *)
(* of the channel to the batch, or cuts the batch; each step moves the     *)
(* places of a request by a function (Relocated).                          *)
(***************************************************************************)
RequestStep ==
    \/ UNCHANGED <<received, clientChan, currBatch, Blocks, startId, reqNum>>
    \/ \E x \in Request \ received :
          /\ received' = received \cup {x} /\ clientChan' = Append(clientChan, x)
          /\ UNCHANGED <<currBatch, Blocks, startId, reqNum>>
    \/ /\ clientChan # << >>
       /\ clientChan' = Tail(clientChan) /\ currBatch' = Append(currBatch, Head(clientChan))
       /\ reqNum' = reqNum + Interval
       /\ UNCHANGED <<received, Blocks, startId>>
    \/ \E b \in BlockInfo, cut \in 0..Len(currBatch) :
          /\ Blocks' = Append(Blocks, b) /\ b.Payload = SubSeq(currBatch, 1, cut)
          /\ currBatch' = SubSeq(currBatch, cut + 1, Len(currBatch))
          /\ b.StartID = startId /\ startId' = startId + b.ReqNum /\ reqNum' = reqNum - b.ReqNum
          /\ IsCut(b) \/ (cut = Len(currBatch) /\ reqNum' = 0)
          /\ UNCHANGED <<received, clientChan>>

LEMMA NextIsRequestStep == TypeInv /\ [ProposerNext]_proposerVars => RequestStep
<1> SUFFICES ASSUME TypeInv, [ProposerNext]_proposerVars PROVE RequestStep
  OBVIOUS
<1>1. ASSUME NEW x \in Request, ReceiveRequest(x) PROVE RequestStep
  BY <1>1 DEF ReceiveRequest, batchVars, RequestStep, Blocks
<1>2. CASE TimerFires
  <2>1. CASE getBatch(1)
    <3>1. 1 \in Round
      BY ProposerAssumption DEF Round
    <3>2. sending = << >> /\ UNCHANGED <<received, clientChan, myBlocks, proposeChan>>
      BY <1>2 DEF TimerFires, Selecting, clientVars
    <3> QED
      BY <2>1, <3>1, <3>2, BlockIsCut DEF RequestStep
  <2>2. CASE UNCHANGED <<sending, currBatch, reqNum, startId, proposeflag>>
    BY <1>2, <2>2 DEF TimerFires, clientVars, RequestStep, Blocks
  <2> QED
    BY <1>2, <2>1, <2>2 DEF TimerFires
<1>3. CASE TakeRequest
  BY <1>3 DEF TakeRequest, RequestStep, Blocks
<1>4. CASE TakeRound
  <2>1. /\ tryProposeChan # << >> /\ sending = << >> /\ getBatch(Head(tryProposeChan))
        /\ UNCHANGED <<received, clientChan, myBlocks, proposeChan>>
    BY <1>4 DEF TakeRound, Selecting, clientVars
  <2>2. Head(tryProposeChan) \in Round
    BY <2>1, HeadTailProperties DEF TypeInv, ProposerTypeOK
  <2> QED
    BY <2>1, <2>2, BlockIsCut DEF RequestStep
<1>5. CASE SendBlock
  BY <1>5, BlockIsSent DEF SendBlock, clientVars, batchVars, RequestStep
<1>6. ASSUME NEW rounds \in Rises, StartRounds(rounds) PROVE RequestStep
  BY <1>6 DEF StartRounds, clientVars, batchVars, RequestStep, Blocks
<1>7. CASE Announce
  BY <1>7 DEF Announce, clientVars, batchVars, RequestStep, Blocks
<1>8. CASE Propose
  BY <1>8, BlockIsProposed DEF Propose, clientVars, batchVars, RequestStep
<1>9. CASE UNCHANGED proposerVars
  BY <1>9 DEF proposerVars, clientVars, batchVars, RequestStep, Blocks
<1> QED
  BY <1>1, <1>2, <1>3, <1>4, <1>5, <1>6, <1>7, <1>8, <1>9 DEF ProposerNext

Holds(s, i, k) == i \in 1..Len(s) /\ s[i] = k

At(p, k) ==
    \/ \E i \in Nat : p = <<"channel", 0, i>> /\ Holds(clientChan, i, k)
    \/ \E i \in Nat : p = <<"batch", 0, i>> /\ Holds(currBatch, i, k)
    \/ \E b, i \in Nat : /\ p = <<"block", b, i>> /\ b \in 1..Len(Blocks)
                         /\ Holds(Blocks[b].Payload, i, k)

LEMMA PlacesAt == TypeInv => \A k, p : p \in Places(k) <=> At(p, k)
<1> SUFFICES ASSUME TypeInv, NEW k PROVE \A p : p \in Places(k) <=> At(p, k)
  OBVIOUS
<1>1. /\ DOMAIN clientChan = 1..Len(clientChan) /\ DOMAIN currBatch = 1..Len(currBatch)
      /\ Len(clientChan) \in Nat /\ Len(currBatch) \in Nat
  BY LenProperties DEF TypeInv, ProposerTypeOK
<1>2. DOMAIN Blocks = 1..Len(Blocks) /\ Len(Blocks) \in Nat
  BY PipelineType, LenProperties
<1>3. \A b \in 1..Len(Blocks) : /\ DOMAIN Blocks[b].Payload = 1..Len(Blocks[b].Payload)
                                /\ Len(Blocks[b].Payload) \in Nat
  <2>1. \A b \in 1..Len(Blocks) : Blocks[b].Payload \in Seq(Request)
    BY PipelineType DEF BlockInfo
  <2> QED
    BY <2>1, LenProperties
<1>4. \A n \in Nat : \A i \in 1..n : i \in Nat
  OBVIOUS
<1>5. \A p : p \in {<<"channel", 0, i>> : i \in {x \in DOMAIN clientChan : clientChan[x] = k}}
                <=> \E i \in Nat : p = <<"channel", 0, i>> /\ Holds(clientChan, i, k)
  BY <1>1, <1>4 DEF Holds
<1>6. \A p : p \in {<<"batch", 0, i>> : i \in {x \in DOMAIN currBatch : currBatch[x] = k}}
                <=> \E i \in Nat : p = <<"batch", 0, i>> /\ Holds(currBatch, i, k)
  BY <1>1, <1>4 DEF Holds
<1>7. \A p : (\E b \in DOMAIN Blocks :
                 p \in {<<"block", b, i>> : i \in {x \in DOMAIN Blocks[b].Payload :
                                                     Blocks[b].Payload[x] = k}})
                <=> \E b, i \in Nat : /\ p = <<"block", b, i>> /\ b \in 1..Len(Blocks)
                                      /\ Holds(Blocks[b].Payload, i, k)
  BY <1>2, <1>3, <1>4 DEF Holds
<1> QED
  BY <1>5, <1>6, <1>7 DEF Places, At

LEMMA PlacesAtNext == TypeInv' => (\A k, p : p \in Places(k) <=> At(p, k))'
  BY PlacesAt, PTL

Placed ==
    \A k \in Request : IF k \in received THEN \E p : Places(k) = {p} ELSE Places(k) = {}

LEMMA Relocated ==
    ASSUME NEW k, NEW g,
           \A p \in Places(k) : g[p] \in Places(k)',
           \A q \in Places(k)' : \E p \in Places(k) : q = g[p]
    PROVE  /\ (\E p : Places(k) = {p}) => \E q : Places(k)' = {q}
           /\ Places(k) = {} => Places(k)' = {}
<1>1. ASSUME NEW p, Places(k) = {p} PROVE Places(k)' = {g[p]}
  BY <1>1
<1> QED
  BY <1>1

\* Parts of sequences.
LEMMA AppendHolds ==
    ASSUME NEW S, NEW s \in Seq(S), NEW x \in S, NEW k, NEW i \in Nat
    PROVE  Holds(Append(s, x), i, k) <=> Holds(s, i, k) \/ (i = Len(s) + 1 /\ x = k)
<1>1. /\ Len(s) \in Nat /\ Len(Append(s, x)) = Len(s) + 1
      /\ \A j \in 1..Len(s) : Append(s, x)[j] = s[j]
      /\ Append(s, x)[Len(s) + 1] = x
  BY AppendProperties, LenProperties
<1>2. i \in 1..(Len(s) + 1) <=> i \in 1..Len(s) \/ i = Len(s) + 1
  BY <1>1
<1>3. Len(s) + 1 \notin 1..Len(s)
  BY <1>1
<1> QED
  BY <1>1, <1>2, <1>3 DEF Holds

LEMMA PiecesHold ==
    ASSUME NEW S, NEW s \in Seq(S), NEW c \in 0..Len(s), NEW k, NEW i \in Nat
    PROVE  /\ Holds(SubSeq(s, 1, c), i, k) <=> i <= c /\ Holds(s, i, k)
           /\ Holds(SubSeq(s, c + 1, Len(s)), i, k) <=> i >= 1 /\ Holds(s, i + c, k)
<1>1. Len(s) \in Nat /\ c \in Nat /\ c <= Len(s) /\ \A j \in 1..Len(s) : s[j] \in S
  BY LenProperties, ElementOfSeq
<1>2. /\ Len(SubSeq(s, 1, c)) = c
      /\ Len(SubSeq(s, c + 1, Len(s))) = Len(s) - c
  BY <1>1, Pieces
<1>3. \A j \in 1..c : SubSeq(s, 1, c)[j] = s[j]
  <2>1. \A j \in 1..c : s[j] \in S
    BY <1>1
  <2>2. \A j \in 1..(c - 1 + 1) : SubSeq(s, 1, c)[j] = s[1 + j - 1]
    BY <1>1, <2>1, SubSeqProperties
  <2>3. \A j \in 1..c : j \in 1..(c - 1 + 1) /\ 1 + j - 1 = j
    BY <1>1
  <2> QED
    BY <2>2, <2>3
<1>4. \A j \in 1..(Len(s) - c) : SubSeq(s, c + 1, Len(s))[j] = s[j + c]
  <2>1. \A j \in (c + 1)..Len(s) : s[j] \in S
    BY <1>1
  <2>2. \A j \in 1..(Len(s) - (c + 1) + 1) : SubSeq(s, c + 1, Len(s))[j] = s[(c + 1) + j - 1]
    BY <1>1, <2>1, SubSeqProperties
  <2>3. \A j \in 1..(Len(s) - c) : j \in 1..(Len(s) - (c + 1) + 1) /\ (c + 1) + j - 1 = j + c
    BY <1>1
  <2> QED
    BY <2>2, <2>3
<1>5. /\ i \in 1..c <=> i <= c /\ i \in 1..Len(s)
      /\ i \in 1..(Len(s) - c) <=> i >= 1 /\ i + c \in 1..Len(s)
  BY <1>1
<1> QED
  BY <1>2, <1>3, <1>4, <1>5 DEF Holds

LEMMA TailHolds ==
    ASSUME NEW S, NEW s \in Seq(S), s # << >>, NEW k, NEW i \in Nat
    PROVE  Holds(Tail(s), i, k) <=> i >= 1 /\ Holds(s, i + 1, k)
<1>1. /\ Len(s) \in Nat \ {0} /\ Len(Tail(s)) = Len(s) - 1
      /\ \A j \in 1..(Len(s) - 1) : Tail(s)[j] = s[j + 1]
  BY HeadTailProperties, LenProperties, EmptySeq
<1>2. i \in 1..(Len(s) - 1) <=> i >= 1 /\ i + 1 \in 1..Len(s)
  BY <1>1
<1> QED
  BY <1>1, <1>2 DEF Holds

LEMMA RequestAdded ==
    ASSUME TypeInv, TypeInv', Placed, NEW x \in Request \ received,
           received' = received \cup {x}, clientChan' = Append(clientChan, x),
           UNCHANGED <<currBatch, Blocks>>
    PROVE  Placed'
<1> DEFINE new == <<"channel", 0, Len(clientChan) + 1>>
<1>1. clientChan \in Seq(Request) /\ Len(clientChan) \in Nat
  BY LenProperties DEF TypeInv, ProposerTypeOK
<1>2. \A k, p : At(p, k)' <=> At(p, k) \/ (p = new /\ x = k)
  <2> SUFFICES ASSUME NEW k, NEW p
               PROVE  (\E i \in Nat : p = <<"channel", 0, i>> /\ Holds(clientChan', i, k))
                         <=> \/ \E i \in Nat : p = <<"channel", 0, i>> /\ Holds(clientChan, i, k)
                             \/ p = new /\ x = k
    BY DEF At, Holds
  <2>1. \A i \in Nat : Holds(clientChan', i, k) <=>
                          Holds(clientChan, i, k) \/ (i = Len(clientChan) + 1 /\ x = k)
    BY <1>1, AppendHolds
  <2>2. Len(clientChan) + 1 \in Nat
    BY <1>1
  <2> QED
    BY <2>1, <2>2
<1>3. \A k, p : p \in Places(k)' <=> p \in Places(k) \/ (p = new /\ x = k)
  BY <1>2, PlacesAt, PlacesAtNext
<1>4. ASSUME NEW k \in Request
      PROVE  IF k \in received' THEN \E p : Places(k)' = {p} ELSE Places(k)' = {}
  <2>1. CASE k = x
    <3>1. Places(k) = {}
      BY <2>1 DEF Placed
    <3>2. Places(k)' = {new}
      BY <1>3, <2>1, <3>1
    <3> QED
      BY <2>1, <3>2
  <2>2. CASE k # x
    <3>1. \A p : p \in Places(k)' <=> p \in Places(k)
      BY <1>3, <2>2
    <3> QED
      BY <2>2, <3>1 DEF Placed
  <2> QED
    BY <2>1, <2>2
<1> QED
  BY <1>4 DEF Placed

LEMMA RequestTaken ==
    ASSUME TypeInv, TypeInv', NEW k, clientChan # << >>,
           clientChan' = Tail(clientChan), currBatch' = Append(currBatch, Head(clientChan)),
           Blocks' = Blocks
    PROVE  /\ (\E p : Places(k) = {p}) => \E q : Places(k)' = {q}
           /\ Places(k) = {} => Places(k)' = {}
<1> DEFINE n == Len(currBatch)
           g == [p \in Places(k) |->
                    IF p[1] = "channel"
                    THEN IF p[3] = 1 THEN <<"batch", 0, n + 1>> ELSE <<"channel", 0, p[3] - 1>>
                    ELSE p]
<1>1. /\ clientChan \in Seq(Request) /\ currBatch \in Seq(Request) /\ n \in Nat
      /\ Head(clientChan) \in Request /\ Head(clientChan) = clientChan[1] /\ 1 \in 1..Len(clientChan)
      /\ Len(clientChan) \in Nat
  BY LenProperties, HeadTailProperties, EmptySeq DEF TypeInv, ProposerTypeOK
<1>2. \A i \in Nat : Holds(clientChan', i, k) <=> i >= 1 /\ Holds(clientChan, i + 1, k)
  BY <1>1, TailHolds
<1>3. \A i \in Nat : Holds(currBatch', i, k) <=>
                        Holds(currBatch, i, k) \/ (i = n + 1 /\ clientChan[1] = k)
  BY <1>1, AppendHolds
<1>4. \A p : p \in Places(k) <=> At(p, k)
  BY PlacesAt
<1>5. \A p : p \in Places(k)' <=>
                \/ \E i \in Nat : p = <<"channel", 0, i>> /\ Holds(clientChan', i, k)
                \/ \E i \in Nat : p = <<"batch", 0, i>> /\ Holds(currBatch', i, k)
                \/ \E b, i \in Nat : /\ p = <<"block", b, i>> /\ b \in 1..Len(Blocks)
                                     /\ Holds(Blocks[b].Payload, i, k)
  <2>1. \A p : p \in Places(k)' <=> At(p, k)'
    BY PlacesAtNext
  <2>2. \A p : At(p, k)' <=>
                \/ \E i \in Nat : p = <<"channel", 0, i>> /\ Holds(clientChan', i, k)
                \/ \E i \in Nat : p = <<"batch", 0, i>> /\ Holds(currBatch', i, k)
                \/ \E b, i \in Nat : /\ p = <<"block", b, i>> /\ b \in 1..Len(Blocks')
                                     /\ Holds(Blocks'[b].Payload, i, k)
    BY DEF At, Holds
  <2> QED
    BY <2>1, <2>2
<1>6. \A i \in Nat : Holds(clientChan, i, k) => i >= 1
  BY <1>1 DEF Holds
<1>7. Holds(clientChan, 1, k) <=> clientChan[1] = k
  BY <1>1 DEF Holds
<1>8. ASSUME NEW p \in Places(k) PROVE g[p] \in Places(k)'
  <2>1. CASE \E i \in Nat : p = <<"channel", 0, i>> /\ Holds(clientChan, i, k)
    <3>1. PICK i \in Nat : p = <<"channel", 0, i>> /\ Holds(clientChan, i, k)
      BY <2>1
    <3>2. CASE i = 1
      <4>1. g[p] = <<"batch", 0, n + 1>> /\ n + 1 \in Nat
        BY <1>1, <3>1, <3>2
      <4> QED
        BY <1>3, <1>5, <1>7, <3>1, <3>2, <4>1
    <3>3. CASE i # 1
      <4>1. g[p] = <<"channel", 0, i - 1>> /\ i - 1 \in Nat /\ i - 1 >= 1 /\ (i - 1) + 1 = i
        BY <1>6, <3>1, <3>3
      <4> QED
        BY <1>2, <1>5, <3>1, <4>1
    <3> QED
      BY <3>2, <3>3
  <2>2. CASE \E i \in Nat : p = <<"batch", 0, i>> /\ Holds(currBatch, i, k)
    BY <1>3, <1>5, <2>2
  <2>3. CASE \E b, i \in Nat : /\ p = <<"block", b, i>> /\ b \in 1..Len(Blocks)
                               /\ Holds(Blocks[b].Payload, i, k)
    BY <1>5, <2>3
  <2> QED
    BY <1>4, <2>1, <2>2, <2>3 DEF At
<1>9. ASSUME NEW q \in Places(k)' PROVE \E p \in Places(k) : q = g[p]
  <2>1. CASE \E i \in Nat : q = <<"channel", 0, i>> /\ Holds(clientChan', i, k)
    <3>1. PICK i \in Nat : q = <<"channel", 0, i>> /\ i >= 1 /\ Holds(clientChan, i + 1, k)
      BY <1>2, <2>1
    <3>2. <<"channel", 0, i + 1>> \in Places(k)
      BY <1>4, <3>1 DEF At
    <3>3. g[<<"channel", 0, i + 1>>] = q
      BY <3>1, <3>2
    <3> QED
      BY <3>2, <3>3
  <2>2. CASE \E i \in Nat : q = <<"batch", 0, i>> /\ Holds(currBatch', i, k)
    <3>1. PICK i \in Nat : /\ q = <<"batch", 0, i>>
                           /\ Holds(currBatch, i, k) \/ (i = n + 1 /\ clientChan[1] = k)
      BY <1>3, <2>2
    <3>2. CASE Holds(currBatch, i, k)
      <4>1. q \in Places(k)
        BY <1>4, <3>1, <3>2 DEF At
      <4>2. g[q] = q
        BY <3>1, <4>1
      <4> QED
        BY <4>1, <4>2
    <3>3. CASE i = n + 1 /\ clientChan[1] = k
      <4>1. <<"channel", 0, 1>> \in Places(k)
        BY <1>4, <1>7, <3>3 DEF At
      <4>2. g[<<"channel", 0, 1>>] = q
        BY <3>1, <3>3, <4>1
      <4> QED
        BY <4>1, <4>2
    <3> QED
      BY <3>1, <3>2, <3>3
  <2>3. CASE \E b, i \in Nat : /\ q = <<"block", b, i>> /\ b \in 1..Len(Blocks)
                               /\ Holds(Blocks[b].Payload, i, k)
    <3>1. q \in Places(k)
      BY <1>4, <2>3 DEF At
    <3>2. g[q] = q
      BY <2>3, <3>1
    <3> QED
      BY <3>1, <3>2
  <2> QED
    BY <1>5, <2>1, <2>2, <2>3
<1> HIDE DEF g
<1> QED
  BY <1>8, <1>9, Relocated

LEMMA BatchCut ==
    ASSUME TypeInv, TypeInv', NEW k, NEW block \in BlockInfo, NEW cut \in 0..Len(currBatch),
           Blocks' = Append(Blocks, block), block.Payload = SubSeq(currBatch, 1, cut),
           currBatch' = SubSeq(currBatch, cut + 1, Len(currBatch)), clientChan' = clientChan
    PROVE  /\ (\E p : Places(k) = {p}) => \E q : Places(k)' = {q}
           /\ Places(k) = {} => Places(k)' = {}
<1> DEFINE n == Len(Blocks)
           g == [p \in Places(k) |->
                    IF p[1] = "batch"
                    THEN IF p[3] <= cut THEN <<"block", n + 1, p[3]>> ELSE <<"batch", 0, p[3] - cut>>
                    ELSE p]
<1>1. /\ currBatch \in Seq(Request) /\ Len(currBatch) \in Nat /\ cut \in Nat
      /\ Blocks \in Seq(BlockInfo) /\ n \in Nat
  BY PipelineType, LenProperties DEF TypeInv, ProposerTypeOK
<1>2. \A i \in Nat : /\ Holds(block.Payload, i, k) <=> i <= cut /\ Holds(currBatch, i, k)
                     /\ Holds(currBatch', i, k) <=> i >= 1 /\ Holds(currBatch, i + cut, k)
  <2> SUFFICES ASSUME NEW i \in Nat
               PROVE  /\ Holds(block.Payload, i, k) <=> i <= cut /\ Holds(currBatch, i, k)
                      /\ Holds(currBatch', i, k) <=> i >= 1 /\ Holds(currBatch, i + cut, k)
    OBVIOUS
  <2> DEFINE first == SubSeq(currBatch, 1, cut)
             rest == SubSeq(currBatch, cut + 1, Len(currBatch))
  <2>1. /\ Holds(first, i, k) <=> i <= cut /\ Holds(currBatch, i, k)
        /\ Holds(rest, i, k) <=> i >= 1 /\ Holds(currBatch, i + cut, k)
    BY <1>1, PiecesHold
  <2>2. block.Payload = first /\ currBatch' = rest
    OBVIOUS
  <2> HIDE DEF first, rest
  <2> QED
    BY <2>1, <2>2
<1>3. /\ Len(Blocks') = n + 1 /\ Blocks'[n + 1] = block
      /\ \A b \in 1..n : Blocks'[b] = Blocks[b]
  BY <1>1, AppendProperties
<1>4. \A p : p \in Places(k) <=> At(p, k)
  BY PlacesAt
<1>5. \A p : p \in Places(k)' <=>
                \/ \E i \in Nat : p = <<"channel", 0, i>> /\ Holds(clientChan, i, k)
                \/ \E i \in Nat : p = <<"batch", 0, i>> /\ Holds(currBatch', i, k)
                \/ \E b, i \in Nat : /\ p = <<"block", b, i>> /\ b \in 1..Len(Blocks')
                                     /\ Holds(Blocks'[b].Payload, i, k)
  <2>1. \A p : p \in Places(k)' <=> At(p, k)'
    BY PlacesAtNext
  <2>2. \A p : At(p, k)' <=>
                \/ \E i \in Nat : p = <<"channel", 0, i>> /\ Holds(clientChan', i, k)
                \/ \E i \in Nat : p = <<"batch", 0, i>> /\ Holds(currBatch', i, k)
                \/ \E b, i \in Nat : /\ p = <<"block", b, i>> /\ b \in 1..Len(Blocks')
                                     /\ Holds(Blocks'[b].Payload, i, k)
    BY DEF At, Holds
  <2> QED
    BY <2>1, <2>2
<1> HIDE DEF n
<1>6. \A b \in Nat : b \in 1..Len(Blocks') <=> b \in 1..n \/ b = n + 1
  BY <1>1, <1>3
<1>7. n + 1 \in Nat /\ n + 1 \in 1..Len(Blocks')
  BY <1>1, <1>3
<1>8. ASSUME NEW p \in Places(k) PROVE g[p] \in Places(k)'
  <2>1. CASE \E i \in Nat : p = <<"channel", 0, i>> /\ Holds(clientChan, i, k)
    BY <1>5, <2>1
  <2>2. CASE \E i \in Nat : p = <<"batch", 0, i>> /\ Holds(currBatch, i, k)
    <3>1. PICK i \in Nat : p = <<"batch", 0, i>> /\ Holds(currBatch, i, k)
      BY <2>2
    <3>2. CASE i <= cut
      <4>1. g[p] = <<"block", n + 1, i>> /\ Holds(Blocks'[n + 1].Payload, i, k)
        BY <1>2, <1>3, <3>1, <3>2
      <4> QED
        BY <1>5, <1>7, <4>1
    <3>3. CASE ~(i <= cut)
      <4>1. i - cut \in Nat /\ i - cut >= 1 /\ (i - cut) + cut = i
        BY <1>1, <3>3
      <4>2. g[p] = <<"batch", 0, i - cut>>
        BY <3>1, <3>3
      <4>3. Holds(currBatch', i - cut, k)
        BY <1>2, <3>1, <4>1
      <4> QED
        BY <1>5, <4>1, <4>2, <4>3
    <3> QED
      BY <3>2, <3>3
  <2>3. CASE \E b, i \in Nat : /\ p = <<"block", b, i>> /\ b \in 1..Len(Blocks)
                               /\ Holds(Blocks[b].Payload, i, k)
    <3>1. g[p] = p
      BY <2>3
    <3> QED
      BY <1>3, <1>5, <1>6, <2>3, <3>1 DEF n
  <2> QED
    BY <1>4, <2>1, <2>2, <2>3 DEF At
<1>9. ASSUME NEW q \in Places(k)' PROVE \E p \in Places(k) : q = g[p]
  <2>1. CASE \E i \in Nat : q = <<"channel", 0, i>> /\ Holds(clientChan, i, k)
    <3>1. q \in Places(k)
      BY <1>4, <2>1 DEF At
    <3>2. g[q] = q
      BY <2>1, <3>1
    <3> QED
      BY <3>1, <3>2
  <2>2. CASE \E i \in Nat : q = <<"batch", 0, i>> /\ Holds(currBatch', i, k)
    <3>1. PICK i \in Nat : q = <<"batch", 0, i>> /\ i >= 1 /\ Holds(currBatch, i + cut, k)
      BY <1>2, <2>2
    <3>2. i + cut \in Nat /\ ~(i + cut <= cut) /\ (i + cut) - cut = i
      BY <1>1, <3>1
    <3>3. <<"batch", 0, i + cut>> \in Places(k)
      BY <1>4, <3>1, <3>2 DEF At
    <3>4. g[<<"batch", 0, i + cut>>] = q
      BY <3>1, <3>2, <3>3
    <3> QED
      BY <3>3, <3>4
  <2>3. CASE \E b, i \in Nat : /\ q = <<"block", b, i>> /\ b \in 1..Len(Blocks')
                               /\ Holds(Blocks'[b].Payload, i, k)
    <3>1. PICK b \in Nat, i \in Nat : /\ q = <<"block", b, i>> /\ b \in 1..Len(Blocks')
                                      /\ Holds(Blocks'[b].Payload, i, k)
      BY <2>3
    <3>2. CASE b \in 1..n
      <4>1. q \in Places(k)
        BY <1>3, <1>4, <3>1, <3>2 DEF At, n
      <4>2. g[q] = q
        BY <3>1, <4>1
      <4> QED
        BY <4>1, <4>2
    <3>3. CASE b = n + 1
      <4>1. i <= cut /\ Holds(currBatch, i, k)
        BY <1>2, <1>3, <3>1, <3>3
      <4>2. <<"batch", 0, i>> \in Places(k)
        BY <1>4, <4>1 DEF At
      <4>3. g[<<"batch", 0, i>>] = q
        BY <3>1, <3>3, <4>1, <4>2
      <4> QED
        BY <4>2, <4>3
    <3> QED
      BY <1>6, <3>1, <3>2, <3>3
  <2> QED
    BY <1>5, <2>1, <2>2, <2>3
<1> HIDE DEF g
<1> QED
  BY <1>8, <1>9, Relocated

LEMMA NextPlaced == TypeInv /\ Placed /\ [ProposerNext]_proposerVars => Placed'
<1> SUFFICES ASSUME TypeInv, Placed, [ProposerNext]_proposerVars PROVE Placed'
  OBVIOUS
<1>1. TypeInv'
  BY NextType
<1>2. ASSUME UNCHANGED received,
             \A k : /\ (\E p : Places(k) = {p}) => \E q : Places(k)' = {q}
                    /\ Places(k) = {} => Places(k)' = {}
      PROVE  Placed'
  BY <1>2 DEF Placed
<1>3. CASE UNCHANGED <<received, clientChan, currBatch, Blocks>>
  <2>1. \A k : Places(k)' = Places(k)
    BY <1>3 DEF Places
  <2> QED
    BY <1>3, <2>1 DEF Placed
<1>4. CASE \E x \in Request \ received :
              /\ received' = received \cup {x} /\ clientChan' = Append(clientChan, x)
              /\ UNCHANGED <<currBatch, Blocks>>
  BY <1>1, <1>4, RequestAdded
<1>5. CASE /\ clientChan # << >>
           /\ clientChan' = Tail(clientChan) /\ currBatch' = Append(currBatch, Head(clientChan))
           /\ UNCHANGED <<received, Blocks>>
  BY <1>1, <1>2, <1>5, RequestTaken
<1>6. CASE \E b \in BlockInfo, cut \in 0..Len(currBatch) :
              /\ Blocks' = Append(Blocks, b) /\ b.Payload = SubSeq(currBatch, 1, cut)
              /\ currBatch' = SubSeq(currBatch, cut + 1, Len(currBatch))
              /\ UNCHANGED <<received, clientChan>>
  BY <1>1, <1>2, <1>6, BatchCut
<1> QED
  BY <1>3, <1>4, <1>5, <1>6, NextIsRequestStep DEF RequestStep

LEMMA InitPlaced == ProposerInit => Placed
<1> SUFFICES ASSUME ProposerInit PROVE Placed
  OBVIOUS
<1>1. Len(<< >>) = 0 /\ 1..0 = {}
  BY EmptySeq
<1>2. Blocks = << >> /\ clientChan = << >> /\ currBatch = << >> /\ received = {}
  BY <1>1, ConcatEmptySeq, EmptySeq DEF ProposerInit, Blocks
<1>3. \A k, p : ~At(p, k)
  BY <1>1, <1>2 DEF At, Holds
<1> QED
  BY <1>2, <1>3, InitType, PlacesAt DEF Placed

(***************************************************************************)
(* Every request that has come in is in exactly one place, whatever the    *)
(* interval and the batch size: no cut loses or repeats one.               *)
(***************************************************************************)
THEOREM NoRequestLost == ProposerSpec => []NothingLost
<1>1. TypeInv /\ Placed => NothingLost
  <2> SUFFICES ASSUME TypeInv, Placed, NEW k \in received PROVE Cardinality(Places(k)) = 1
    BY DEF NothingLost
  <2>1. k \in Request
    BY DEF TypeInv, ProposerTypeOK
  <2> QED
    BY <2>1, FS_Singleton DEF Placed
<1> QED
  BY <1>1, InitType, InitPlaced, NextType, NextPlaced, PTL DEF ProposerSpec

----------------------------------------------------------------------------
(***************************************************************************)
(* Accounting.  The numbers and the requests are counted together: what    *)
(* has come in is in the channel, the batch or a block, and every request  *)
(* taken is Interval transactions more of the account.                     *)
(***************************************************************************)
\* The numbers start from 1.
FirstInv ==
    \/ startId = 1 /\ Blocks = << >>
    \/ Len(Blocks) >= 1 /\ Blocks[1].StartID = 1

LEMMA NextFirst == TypeInv /\ FirstInv /\ [ProposerNext]_proposerVars => FirstInv'
<1> SUFFICES ASSUME TypeInv, FirstInv, [ProposerNext]_proposerVars PROVE FirstInv'
  OBVIOUS
<1>1. CASE UNCHANGED <<Blocks, startId>>
  BY <1>1 DEF FirstInv
<1>2. ASSUME NEW round, Cut(round) PROVE FirstInv'
  <2>1. PICK b \in BlockInfo : Blocks' = Append(Blocks, b) /\ b.StartID = startId
    BY <1>2 DEF Cut
  <2>2. /\ Len(Blocks') = Len(Blocks) + 1 /\ Len(Blocks) \in Nat
        /\ Blocks'[Len(Blocks) + 1] = b
        /\ \A i \in 1..Len(Blocks) : Blocks'[i] = Blocks[i]
    BY <2>1, CutLast, PipelineType
  <2>3. CASE startId = 1 /\ Blocks = << >>
    <3>1. Len(Blocks) = 0
      BY <2>3, EmptySeq
    <3> QED
      BY <2>1, <2>2, <2>3, <3>1 DEF FirstInv
  <2>4. CASE Len(Blocks) >= 1 /\ Blocks[1].StartID = 1
    <3>1. 1 \in 1..Len(Blocks)
      BY <2>2, <2>4
    <3> QED
      BY <2>2, <2>4, <3>1 DEF FirstInv
  <2> QED
    BY <2>3, <2>4 DEF FirstInv
<1> QED
  BY <1>1, <1>2, NextIsPipelineStep DEF PipelineStep

LEMMA PayloadType ==
    ASSUME TypeInv, NEW i \in 1..Len(Blocks)
    PROVE  /\ Blocks[i] \in BlockInfo /\ Blocks[i].Payload \in Seq(Request)
           /\ Len(Blocks[i].Payload) \in Nat
           /\ DOMAIN Blocks[i].Payload = 1..Len(Blocks[i].Payload)
           /\ \A x \in 1..Len(Blocks[i].Payload) : Blocks[i].Payload[x] \in Request
<1>1. Blocks[i] \in BlockInfo
  BY PipelineType
<1>2. Blocks[i].Payload \in Seq(Request)
  BY <1>1 DEF BlockInfo
<1> QED
  BY <1>1, <1>2, LenProperties, ElementOfSeq

\* A request goes into one block, and once.
LEMMA InOneBlock ==
    ASSUME TypeInv, Placed, NEW i \in 1..Len(Blocks), NEW j \in 1..Len(Blocks),
           NEW x \in 1..Len(Blocks[i].Payload), NEW y \in 1..Len(Blocks[j].Payload),
           Blocks[i].Payload[x] = Blocks[j].Payload[y]
    PROVE  i = j /\ x = y /\ Blocks[i].Payload[x] \in received
<1> DEFINE k == Blocks[i].Payload[x]
<1>1. k \in Request /\ Len(Blocks[i].Payload) \in Nat /\ Len(Blocks[j].Payload) \in Nat
  BY PayloadType
<1>2. Len(Blocks) \in Nat /\ i \in Nat /\ j \in Nat /\ x \in Nat /\ y \in Nat
  BY <1>1, PipelineType
<1>3. At(<<"block", i, x>>, k) /\ At(<<"block", j, y>>, k)
  BY <1>2 DEF At, Holds
<1>4. <<"block", i, x>> \in Places(k) /\ <<"block", j, y>> \in Places(k)
  BY <1>3, PlacesAt
<1> HIDE DEF k
<1>5. k \in received /\ \E p : Places(k) = {p}
  BY <1>1, <1>4 DEF Placed
<1>6. <<"block", i, x>> = <<"block", j, y>>
  BY <1>4, <1>5
<1> QED
  BY <1>5, <1>6 DEF k

LEMMA RequestsOfBlocks ==
    ASSUME TypeInv, Placed, NEW i \in 0..Len(Blocks)
    PROVE  Requests(i) \subseteq received /\ IsFiniteSet(Requests(i)) /\ Cardinality(Requests(i)) \in Nat
<1>1. Len(Blocks) \in Nat
  BY PipelineType
<1>2. ASSUME NEW j \in 1..i PROVE Range(Blocks[j].Payload) \subseteq received
  <2>1. j \in 1..Len(Blocks)
    BY <1>1
  <2>2. DOMAIN Blocks[j].Payload = 1..Len(Blocks[j].Payload)
    BY <2>1, PayloadType
  <2>3. \A x \in 1..Len(Blocks[j].Payload) : Blocks[j].Payload[x] \in received
    BY <2>1, InOneBlock
  <2> QED
    BY <2>2, <2>3 DEF Range
<1>3. Requests(i) \subseteq received
  BY <1>2 DEF Requests
<1>4. IsFiniteSet(received)
  <2>1. IsFiniteSet(Request)
    BY ProposerAssumption, FS_Interval DEF Request
  <2> QED
    BY <2>1, FS_Subset DEF TypeInv, ProposerTypeOK
<1> QED
  BY <1>3, <1>4, FS_Subset, FS_CardinalityType

\* The requests of a block are new, and as many as its payload is long.
LEMMA RequestsGrow ==
    ASSUME TypeInv, Placed, NEW i \in 1..Len(Blocks)
    PROVE  /\ i - 1 \in 0..Len(Blocks) /\ i \in 0..Len(Blocks)
           /\ Requests(i) = Requests(i - 1) \cup Range(Blocks[i].Payload)
           /\ Requests(i - 1) \cap Range(Blocks[i].Payload) = {}
           /\ Cardinality(Requests(i)) = Cardinality(Requests(i - 1)) + Len(Blocks[i].Payload)
<1> DEFINE p == Blocks[i].Payload
<1>1. Len(Blocks) \in Nat
  BY PipelineType
<1>2. i - 1 \in 0..Len(Blocks) /\ i \in 0..Len(Blocks)
  BY <1>1
<1>3. Len(p) \in Nat /\ DOMAIN p = 1..Len(p)
  BY PayloadType
<1>4. Requests(i) = Requests(i - 1) \cup Range(p)
  <2>1. 1..i = 1..(i - 1) \cup {i}
    BY <1>1
  <2> QED
    BY <2>1 DEF Requests
<1>5. Requests(i - 1) \cap Range(p) = {}
  <2> SUFFICES ASSUME NEW k, k \in Requests(i - 1), k \in Range(p) PROVE FALSE
    OBVIOUS
  <2>1. PICK x \in 1..Len(p) : p[x] = k
    BY <1>3 DEF Range
  <2>2. PICK j \in 1..(i - 1) : k \in Range(Blocks[j].Payload)
    BY DEF Requests
  <2>3. j \in 1..Len(Blocks) /\ j # i
    BY <1>1, <2>2
  <2>4. PICK y \in 1..Len(Blocks[j].Payload) : Blocks[j].Payload[y] = k
    BY <2>2, <2>3, PayloadType DEF Range
  <2> QED
    BY <2>1, <2>3, <2>4, InOneBlock
<1>6. IsFiniteSet(Range(p)) /\ Cardinality(Range(p)) = Len(p)
  <2>1. \A x, y \in 1..Len(p) : p[x] = p[y] => x = y
    BY InOneBlock
  <2>2. p \in Bijection(1..Len(p), Range(p))
    <3>1. p \in [1..Len(p) -> Range(p)]
      <4>1. \A x \in 1..Len(p) : p[x] \in Range(p)
        BY <1>3 DEF Range
      <4>2. p = [x \in 1..Len(p) |-> p[x]]
        BY PayloadType
      <4> HIDE DEF p
      <4> QED
        BY <4>1, <4>2
    <3>2. \A k \in Range(p) : \E x \in 1..Len(p) : p[x] = k
      BY <1>3 DEF Range
    <3> HIDE DEF p
    <3> QED
      BY <1>3, <2>1, <3>1, <3>2 DEF Bijection, Injection, Surjection, IsInjective
  <2>3. ExistsBijection(1..Len(p), Range(p))
    BY <2>2 DEF ExistsBijection
  <2> HIDE DEF p
  <2>4. IsFiniteSet(1..Len(p)) /\ Cardinality(1..Len(p)) = Len(p)
    <3> DEFINE n == Len(p)
    <3>1. n \in Nat /\ n \in Int /\ 1 \in Int
      BY <1>3
    <3>2. IsFiniteSet(1..n) /\ Cardinality(1..n) = IF 1 > n THEN 0 ELSE (n - 1) + 1
      <4> HIDE DEF n
      <4> QED
        BY <3>1, FS_Interval
    <3> HIDE DEF n
    <3>3. (IF 1 > n THEN 0 ELSE (n - 1) + 1) = n
      BY <3>1
    <3> QED
      BY <3>2, <3>3 DEF n
  <2> QED
    BY <2>3, <2>4, FS_Bijection
<1>7. IsFiniteSet(Requests(i - 1)) /\ Cardinality(Requests(i - 1)) \in Nat
  BY <1>2, RequestsOfBlocks
<1>8. Cardinality(Requests(i)) = Cardinality(Requests(i - 1)) + Len(p)
  <2> HIDE DEF p
  <2>1. Cardinality(Requests(i - 1) \cup Range(p)) =
            Cardinality(Requests(i - 1)) + Cardinality(Range(p)) - Cardinality({})
    BY <1>5, <1>6, <1>7, FS_Union
  <2>2. Cardinality({}) = 0
    BY FS_EmptySet
  <2> QED
    BY <1>3, <1>4, <1>6, <1>7, <2>1, <2>2
<1> QED
  BY <1>2, <1>4, <1>5, <1>8


CountInv ==
    /\ FirstInv
    /\ startId + reqNum + Interval * Len(clientChan) = 1 + Interval * Cardinality(received)
    /\ Cardinality(received) = Len(clientChan) + Len(currBatch) + Cardinality(Requests(Len(Blocks)))
    /\ \A i \in 1..Len(Blocks) :
          IsCut(Blocks[i]) \/ Blocks[i].StartID + Blocks[i].ReqNum = 1 + Interval * Cardinality(Requests(i))

LEMMA AllGrow ==
    TypeInv /\ Placed => \A i \in 1..Len(Blocks) :
        Cardinality(Requests(i)) = Cardinality(Requests(i - 1)) + Len(Blocks[i].Payload)
  BY RequestsGrow

LEMMA AllGrowNext ==
    TypeInv' /\ Placed' => (\A i \in 1..Len(Blocks) :
        Cardinality(Requests(i)) = Cardinality(Requests(i - 1)) + Len(Blocks[i].Payload))'
  BY AllGrow, PTL

LEMMA ReceivedFinite ==
    ASSUME TypeInv
    PROVE  IsFiniteSet(received) /\ Cardinality(received) \in Nat
<1>1. IsFiniteSet(Request)
  BY ProposerAssumption, FS_Interval DEF Request
<1> QED
  BY <1>1, FS_Subset, FS_CardinalityType DEF TypeInv, ProposerTypeOK

LEMMA NextCount ==
    TypeInv /\ Placed /\ CountInv /\ [ProposerNext]_proposerVars => CountInv'
<1> SUFFICES ASSUME TypeInv, Placed, CountInv, [ProposerNext]_proposerVars PROVE CountInv'
  OBVIOUS
<1>1. TypeInv' /\ Placed' /\ FirstInv' /\ RequestStep
  BY NextType, NextPlaced, NextFirst, NextIsRequestStep DEF CountInv
<1> DEFINE ch == Len(clientChan)
           ba == Len(currBatch)
           m == Len(Blocks)
           re == Cardinality(received)
           bl == Cardinality(Requests(m))
<1>2. /\ ch \in Nat /\ ba \in Nat /\ m \in Nat /\ re \in Nat /\ bl \in Nat
      /\ reqNum \in Nat /\ startId \in Nat /\ Interval \in Nat
      /\ clientChan \in Seq(Request) /\ currBatch \in Seq(Request)
  <2>1. m \in Nat
    BY PipelineType
  <2>2. m \in 0..m
    BY <2>1
  <2>3. bl \in Nat
    BY <2>2, RequestsOfBlocks
  <2>4. clientChan \in Seq(Request) /\ currBatch \in Seq(Request) /\ reqNum \in Nat /\ startId \in Nat
    BY DEF TypeInv, ProposerTypeOK
  <2> QED
    BY <2>1, <2>3, <2>4, LenProperties, ReceivedFinite, ProposerAssumption
<1>3. CASE UNCHANGED <<received, clientChan, currBatch, Blocks, startId, reqNum>>
  <2>1. \A i : Requests(i)' = Requests(i)
    BY <1>3 DEF Requests
  <2> QED
    BY <1>1, <1>3, <2>1 DEF CountInv, IsCut
<1>4. ASSUME NEW x \in Request \ received,
             received' = received \cup {x}, clientChan' = Append(clientChan, x),
             UNCHANGED <<currBatch, Blocks, startId, reqNum>>
      PROVE  CountInv'
  <2>1. \A i : Requests(i)' = Requests(i)
    BY <1>4 DEF Requests
  <2>2. Cardinality(received') = re + 1
    BY <1>4, ReceivedFinite, FS_AddElement
  <2>3. Len(clientChan') = ch + 1
    BY <1>2, <1>4, AppendProperties
  <2>4. startId + reqNum + Interval * ch = 1 + Interval * re /\ re = ch + ba + bl
    BY DEF CountInv
  <2>5. Interval * (re + 1) = Interval * re + Interval /\ Interval * (ch + 1) = Interval * ch + Interval
    <3> HIDE DEF re, ch
    <3> QED
      BY <1>2
  <2>6. Interval * re \in Nat /\ Interval * ch \in Nat
    <3> HIDE DEF re, ch
    <3> QED
      BY <1>2
  <2>7. startId + reqNum + Interval * (ch + 1) = 1 + Interval * (re + 1) /\ re + 1 = (ch + 1) + ba + bl
    <3> DEFINE u == Interval * re
               v == Interval * ch
    <3>1. /\ u \in Nat /\ v \in Nat /\ startId + reqNum + v = 1 + u
          /\ Interval * (re + 1) = u + Interval /\ Interval * (ch + 1) = v + Interval
      BY <2>4, <2>5, <2>6
    <3> HIDE DEF u, v, re, ch, ba, bl
    <3> QED
      BY <1>2, <2>4, <3>1
  <2> HIDE DEF re, ch, ba, bl, m
  <2>8. /\ startId' + reqNum' + Interval * Len(clientChan)' = 1 + Interval * Cardinality(received)'
        /\ Cardinality(received)' = Len(clientChan)' + Len(currBatch)' + Cardinality(Requests(Len(Blocks)))'
    BY <1>4, <2>1, <2>2, <2>3, <2>7 DEF ba, bl, m
  <2> QED
    BY <1>1, <1>4, <2>1, <2>8 DEF CountInv, IsCut
<1>5. ASSUME clientChan # << >>, clientChan' = Tail(clientChan),
             currBatch' = Append(currBatch, Head(clientChan)), reqNum' = reqNum + Interval,
             UNCHANGED <<received, Blocks, startId>>
      PROVE  CountInv'
  <2>1. \A i : Requests(i)' = Requests(i)
    BY <1>5 DEF Requests
  <2>2. Len(clientChan') = ch - 1 /\ Len(currBatch') = ba + 1 /\ ch >= 1
    <3>1. Head(clientChan) \in Request /\ Len(Tail(clientChan)) = ch - 1 /\ ch # 0
      BY <1>2, <1>5, HeadTailProperties, EmptySeq
    <3> QED
      BY <1>2, <1>5, <3>1, AppendProperties
  <2>3. startId + reqNum + Interval * ch = 1 + Interval * re /\ re = ch + ba + bl
    BY DEF CountInv
  <2>4. Interval * (ch - 1) = Interval * ch - Interval /\ Interval * ch \in Nat
    <3> HIDE DEF ch
    <3> QED
      BY <1>2, <2>2
  <2>5. startId + (reqNum + Interval) + Interval * (ch - 1) = 1 + Interval * re
    <3> DEFINE v == Interval * ch
               u == Interval * re
    <3>1. v \in Nat /\ startId + reqNum + v = 1 + u /\ Interval * (ch - 1) = v - Interval
      BY <2>3, <2>4
    <3> HIDE DEF u, v, ch, re
    <3>2. startId + (reqNum + Interval) + (v - Interval) = 1 + u
      BY <1>2, <3>1
    <3> QED
      BY <3>1, <3>2 DEF u
  <2>6. re = (ch - 1) + (ba + 1) + bl
    <3> HIDE DEF ch, re, ba, bl
    <3> QED
      BY <1>2, <2>3
  <2> HIDE DEF re, ch, ba, bl, m
  <2>7. /\ startId' + reqNum' + Interval * Len(clientChan)' = 1 + Interval * Cardinality(received)'
        /\ Cardinality(received)' = Len(clientChan)' + Len(currBatch)' + Cardinality(Requests(Len(Blocks)))'
    BY <1>5, <2>1, <2>2, <2>5, <2>6 DEF re, bl, m
  <2> QED
    BY <1>1, <1>5, <2>1, <2>7 DEF CountInv, IsCut
<1>6. ASSUME NEW b \in BlockInfo, NEW cut \in 0..ba,
             Blocks' = Append(Blocks, b), b.Payload = SubSeq(currBatch, 1, cut),
             currBatch' = SubSeq(currBatch, cut + 1, ba),
             b.StartID = startId, startId' = startId + b.ReqNum, reqNum' = reqNum - b.ReqNum,
             IsCut(b) \/ (cut = ba /\ reqNum' = 0),
             UNCHANGED <<received, clientChan>>
      PROVE  CountInv'
  <2>0. PICK k \in Nat : k = m
    BY <1>2
  <2>1. /\ Len(Blocks') = k + 1 /\ Blocks'[k + 1] = b
        /\ \A i \in 1..k : Blocks'[i] = Blocks[i]
    BY <1>6, <2>0, CutLast, PipelineType
  <2>2. ASSUME NEW i \in 0..k PROVE Requests(i)' = Requests(i)
    <3>1. \A j \in 1..i : Blocks'[j] = Blocks[j]
      <4>1. \A j \in 1..i : j \in 1..k
        BY <1>2
      <4> QED
        BY <2>1, <4>1
    <3> QED
      BY <3>1 DEF Requests
  <2>3. /\ Len(b.Payload) = cut /\ Len(currBatch') = ba - cut /\ cut \in Nat /\ cut <= ba
    <3>1. cut \in Nat /\ cut <= ba
      BY <1>2
    <3> QED
      BY <1>2, <1>6, <3>1, Pieces
  <2>4. Cardinality(Requests(k + 1)') = bl + cut
    <3>1. (\A i \in 1..Len(Blocks) :
               Cardinality(Requests(i)) = Cardinality(Requests(i - 1)) + Len(Blocks[i].Payload))'
      BY <1>1, AllGrowNext
    <3>2. k + 1 \in 1..Len(Blocks') /\ (k + 1) - 1 = k /\ k \in 0..k
      BY <1>2, <2>1
    <3>3. Cardinality(Requests(k + 1)') = Cardinality(Requests((k + 1) - 1)') + Len(Blocks'[k + 1].Payload)
      BY <3>1, <3>2
    <3>4. Requests(k)' = Requests(k) /\ bl = Cardinality(Requests(k))
      BY <2>0, <2>2, <3>2
    <3>5. Cardinality(Requests((k + 1) - 1)') = bl
      BY <3>2, <3>4
    <3>6. Len(Blocks'[k + 1].Payload) = cut
      BY <2>1, <2>3
    <3> HIDE DEF bl
    <3> QED
      BY <3>3, <3>5, <3>6
  <2>5. b.ReqNum \in Nat /\ reqNum' \in Nat
    <3>1. reqNum' \in Nat
      BY <1>1 DEF TypeInv, ProposerTypeOK
    <3> QED
      BY <3>1 DEF BlockInfo
  <2>6. startId + reqNum + Interval * ch = 1 + Interval * re /\ re = ch + ba + bl
    BY DEF CountInv
  <2>7. Interval * ch \in Nat /\ Interval * re \in Nat
    <3> HIDE DEF ch, re
    <3> QED
      BY <1>2
  <2>8. startId' + reqNum' + Interval * ch = 1 + Interval * re
    <3> DEFINE v == Interval * ch
               u == Interval * re
    <3>1. v \in Nat /\ u \in Nat /\ startId + reqNum + v = 1 + u
      BY <2>6, <2>7
    <3> HIDE DEF u, v, ch, re
    <3>2. startId' = startId + b.ReqNum /\ reqNum' = reqNum - b.ReqNum
      BY <1>6
    <3>3. startId \in Nat /\ reqNum \in Nat /\ b.ReqNum \in Nat
      BY <1>2, <2>5
    <3>4. ASSUME NEW n \in Nat, NEW x, NEW y, x = startId + n, y = reqNum - n PROVE x + y + v = 1 + u
      BY <3>1, <3>3, <3>4
    <3>5. startId' + reqNum' + v = 1 + u
      BY <3>2, <3>3, <3>4
    <3> QED
      BY <3>5 DEF u, v
  <2>9. re = ch + (ba - cut) + (bl + cut)
    <3> HIDE DEF ch, re, ba, bl
    <3> QED
      BY <1>2, <2>3, <2>6
  <2>10. ASSUME cut = ba, reqNum' = 0
         PROVE  b.StartID + b.ReqNum = 1 + Interval * (bl + cut)
    <3>1. bl + cut = re - ch /\ re - ch \in Nat
      <4> HIDE DEF ch, re, ba, bl
      <4> QED
        BY <1>2, <2>3, <2>6, <2>10
    <3>2. Interval * (re - ch) = Interval * re - Interval * ch
      <4> HIDE DEF ch, re
      <4> QED
        BY <1>2
    <3> DEFINE v == Interval * ch
               u == Interval * re
    <3>3. v \in Nat /\ u \in Nat /\ startId' + 0 + v = 1 + u /\ Interval * (bl + cut) = u - v
      BY <2>7, <2>8, <2>10, <3>1, <3>2
    <3> HIDE DEF u, v, ch, re, bl
    <3>4. startId' \in Nat /\ startId' = b.StartID + b.ReqNum
      BY <1>2, <1>6, <2>5
    <3> QED
      BY <3>3, <3>4
  <2>11. ASSUME NEW i \in 1..Len(Blocks')
         PROVE  IsCut(Blocks'[i]) \/ Blocks'[i].StartID + Blocks'[i].ReqNum =
                                         1 + Interval * Cardinality(Requests(i)')
    <3>1. CASE i = k + 1
      BY <1>6, <2>1, <2>4, <2>10, <3>1
    <3>2. CASE i # k + 1
      <4>1. i \in 1..k /\ i \in 0..k
        BY <1>2, <2>1, <3>2
      <4>2. Blocks'[i] = Blocks[i] /\ Requests(i)' = Requests(i)
        BY <2>1, <2>2, <4>1
      <4> QED
        BY <2>0, <4>1, <4>2 DEF CountInv
    <3> QED
      BY <3>1, <3>2
  <2> HIDE DEF re, ch, ba, bl
  <2>12. Cardinality(Requests(Len(Blocks)))' = bl + cut
    BY <2>1, <2>4
  <2>13. /\ startId' + reqNum' + Interval * Len(clientChan)' = 1 + Interval * Cardinality(received)'
         /\ Cardinality(received)' = Len(clientChan)' + Len(currBatch)' + Cardinality(Requests(Len(Blocks)))'
    BY <1>6, <2>3, <2>8, <2>9, <2>12 DEF re, ch
  <2> QED
    BY <1>1, <2>11, <2>13 DEF CountInv, IsCut
<1> QED
  BY <1>1, <1>3, <1>4, <1>5, <1>6 DEF RequestStep

LEMMA InitCount == ProposerInit => CountInv
<1> SUFFICES ASSUME ProposerInit PROVE CountInv
  OBVIOUS
<1>1. /\ startId = 1 /\ reqNum = 0 /\ received = {} /\ clientChan = << >> /\ currBatch = << >>
      /\ myBlocks = << >> /\ proposeChan = << >> /\ sending = << >>
  BY DEF ProposerInit
<1>2. Blocks = << >> /\ Len(<< >>) = 0
  BY <1>1, ConcatEmptySeq, EmptySeq DEF Blocks
<1>3. Len(Blocks) = 0 /\ Len(clientChan) = 0 /\ Len(currBatch) = 0
  BY <1>1, <1>2
<1>4. 1..0 = {} /\ Cardinality({}) = 0 /\ Interval * 0 = 0
  BY FS_EmptySet, ProposerAssumption
<1>5. Requests(0) = {}
  BY <1>4 DEF Requests
<1>6. FirstInv
  BY <1>1, <1>2, Zenon DEF FirstInv
<1>7. Cardinality(received) = 0 /\ Cardinality(Requests(Len(Blocks))) = 0
  BY <1>1, <1>3, <1>4, <1>5
<1> QED
  BY <1>1, <1>3, <1>4, <1>6, <1>7 DEF CountInv

LEMMA InvAccounting == Inv /\ CountInv => Accounting
<1> SUFFICES ASSUME Inv, CountInv PROVE Accounting
  OBVIOUS
<1>1. DOMAIN Blocks = 1..Len(Blocks) /\ Blocks \in Seq(BlockInfo) /\ Len(Blocks) \in Nat
  BY PipelineType, LenProperties DEF Inv
<1>2. IF Blocks = << >> THEN startId = 1 ELSE Blocks[1].StartID = 1
  <2>1. Len(Blocks) >= 1 => Blocks # << >>
    BY <1>1, EmptySeq
  <2> QED
    BY <2>1 DEF CountInv, FirstInv
<1>3. reqNum <= Interval * Len(currBatch)
  BY DEF Inv, TypeInv
<1>4. startId + reqNum + Interval * Len(clientChan) = 1 + Interval * Cardinality(received)
  BY DEF CountInv
<1>5. ASSUME NEW i \in DOMAIN Blocks
      PROVE  LET next == Blocks[i].StartID + Blocks[i].ReqNum
             IN  /\ next = IF i = Len(Blocks) THEN startId ELSE Blocks[i + 1].StartID
                 /\ IsCut(Blocks[i]) \/ next = 1 + Interval * Cardinality(Requests(i))
  BY <1>1 DEF CountInv, Inv, Contiguous
<1> QED
  BY <1>2, <1>3, <1>4, <1>5 DEF Accounting

(***************************************************************************)
(* The account never loses a transaction taken from the client, for every  *)
(* interval and batch size, and is square after a block that is not cut.   *)
(***************************************************************************)
THEOREM Accounted == ProposerSpec => []Accounting
<1> DEFINE I == Inv /\ Placed /\ CountInv
<1>1. ProposerInit => I
  BY InitInv, InitPlaced, InitCount
<1>2. I /\ [ProposerNext]_proposerVars => I'
  BY NextInv, NextPlaced, NextCount DEF Inv
<1>3. I => Accounting
  BY InvAccounting
<1> QED
  BY <1>1, <1>2, <1>3, PTL DEF ProposerSpec

=============================================================================
