----------------------------- MODULE Proposer -----------------------------
(***************************************************************************)
(* How a node comes to its proposals.  Three kinds of goroutines:          *)
(*   - one for each call of Node.Request by the client,                    *)
(*   - proposeLoop, which batches requests and cuts a block when mainLoop  *)
(*     announces a round; the block of round 1 is cut when a timer fires,  *)
(*   - mainLoop, which announces rounds (newRound) and takes the blocks.   *)
(* Between them are the channels clientChan, tryProposeChan and            *)
(* proposeChan.  A request stands for cfg interval of the client's         *)
(* transactions; requests are numbered in the order the client sends them. *)
(***************************************************************************)
EXTENDS Naturals, Sequences, FiniteSets, Functions

CONSTANTS
    Interval,       \* ReqNum of every request, n.interval
    MaxBatchSize,   \* cfg.MaxBatchSize
    TryCap,         \* capacity of tryProposeChan (1024)
    ProposeCap,     \* capacity of proposeChan (1024)
    MaxRequest,     \* bound: requests the client sends
    MaxRound        \* bound: rounds that are announced

ASSUME ProposerAssumption ==
    /\ Interval \in Nat \ {0} /\ MaxBatchSize \in Nat \ {0}
    /\ TryCap \in Nat \ {0} /\ ProposeCap \in Nat \ {0}
    /\ MaxRequest \in Nat /\ MaxRound \in Nat \ {0}

VARIABLES
    received,       \* requests that have come in
    clientChan,     \* those that proposeLoop has not taken
    currBatch,      \* those it has taken, currBatch.Reqs
    reqNum, startId,
    fired,          \* the timer of proposeLoop has fired
    proposeflag,
    sending,        \* <<block>> while proposeLoop sends it on proposeChan, else << >>
    tryProposeChan, \* rounds announced
    proposeChan,    \* blocks for mainLoop
    currRound,
    announcing,     \* rounds newRound has to announce, while tryProposeChan is full
    myBlocks        \* the blocks proposed, in this order

clientVars == <<received, clientChan>>
batchVars  == <<currBatch, reqNum, startId, fired, proposeflag>>
proposerVars ==
    <<clientVars, batchVars, sending, tryProposeChan, proposeChan, currRound, announcing, myBlocks>>

Request == 1..MaxRequest
Round   == 1..MaxRound
Rises   == {<<r>> : r \in Round} \cup {<<r, r + 1>> : r \in {x \in Round : x < MaxRound}}
BlockInfo == [StartID: Nat, Round: Round, ReqNum: Nat, Payload: Seq(Request)]

ProposerInit ==
    /\ received = {} /\ clientChan = << >>
    /\ currBatch = << >> /\ reqNum = 0 /\ startId = 1
    /\ fired = FALSE /\ proposeflag = TRUE
    /\ sending = << >> /\ tryProposeChan = << >> /\ proposeChan = << >>
    /\ currRound = 1 /\ announcing = << >>
    /\ myBlocks = << >>

----------------------------------------------------------------------------
\* Node.Request: every call runs in a goroutine of its own, so that requests
\* may overtake each other.  The first one starts both loops.
ReceiveRequest(k) ==
    /\ k \notin received
    /\ received' = received \cup {k}
    /\ clientChan' = Append(clientChan, k)
    /\ UNCHANGED <<batchVars, sending, tryProposeChan, proposeChan, currRound, announcing, myBlocks>>

Started == 1 \in received

\* proposeLoop waits in its select.
Selecting == Started /\ sending = << >>

\* The first request that is left goes into no block.
getBatch_lost_X(round) ==
    LET full == reqNum > MaxBatchSize
        cut == IF full THEN MaxBatchSize \div Interval ELSE Len(currBatch)
        num == IF full THEN MaxBatchSize ELSE reqNum
    IN  /\ sending' = <<[StartID |-> startId, Round |-> round, ReqNum |-> num,
                         Payload |-> SubSeq(currBatch, 1, cut)]>>
        /\ currBatch' = SubSeq(currBatch, cut + 2, Len(currBatch))
        /\ startId' = startId + num
        /\ reqNum' = reqNum - num

\* The block gets its number after the number has been advanced.
getBatch_start_X(round) ==
    LET full == reqNum > MaxBatchSize
        cut == IF full THEN MaxBatchSize \div Interval ELSE Len(currBatch)
        num == IF full THEN MaxBatchSize ELSE reqNum
    IN  /\ sending' = <<[StartID |-> startId + num, Round |-> round, ReqNum |-> num,
                         Payload |-> SubSeq(currBatch, 1, cut)]>>
        /\ currBatch' = SubSeq(currBatch, cut + 1, Len(currBatch))
        /\ startId' = startId + num
        /\ reqNum' = reqNum - num

\* A block that is cut short does not keep the accounting and the batch together.
getBatch_X(round) ==
    LET full == reqNum > MaxBatchSize
        cut == IF full THEN MaxBatchSize \div Interval ELSE Len(currBatch)
        num == IF full THEN MaxBatchSize ELSE reqNum
    IN  /\ sending' = <<[StartID |-> startId, Round |-> round, ReqNum |-> num,
                         Payload |-> SubSeq(currBatch, 1, cut)]>>
        /\ currBatch' = SubSeq(currBatch, cut + 1, Len(currBatch))
        /\ startId' = startId + num
        /\ reqNum' = IF full THEN 0 ELSE reqNum - num

\* Cut a block: the whole batch, or MaxBatchSize transactions of it.
getBatch(round) ==
    LET full == reqNum > MaxBatchSize
        cut == IF full THEN MaxBatchSize \div Interval ELSE Len(currBatch)
        num == IF full THEN MaxBatchSize ELSE reqNum
    IN  /\ sending' = <<[StartID |-> startId, Round |-> round, ReqNum |-> num,
                         Payload |-> SubSeq(currBatch, 1, cut)]>>
        /\ currBatch' = SubSeq(currBatch, cut + 1, Len(currBatch))
        /\ startId' = startId + num
        /\ reqNum' = reqNum - num

\* timeflag, which the timer sets when it comes too late, is never read.
TimerFires ==
    /\ Selecting /\ ~fired
    /\ fired' = TRUE
    /\ \/ proposeflag /\ getBatch(1) /\ proposeflag' = FALSE
       \/ ~proposeflag /\ UNCHANGED <<sending, currBatch, reqNum, startId, proposeflag>>
    /\ UNCHANGED <<clientVars, tryProposeChan, proposeChan, currRound, announcing, myBlocks>>

\* A node started with -b 1 would drop it: the module is about the others.
TakeRequest ==
    /\ Selecting /\ clientChan # << >>
    /\ clientChan' = Tail(clientChan)
    /\ currBatch' = Append(currBatch, Head(clientChan))
    /\ reqNum' = reqNum + Interval
    /\ UNCHANGED <<received, startId, fired, proposeflag, sending, tryProposeChan,
                   proposeChan, currRound, announcing, myBlocks>>

\* The timer may still propose round 1 afterwards.
TakeRound_X ==
    /\ Selecting /\ tryProposeChan # << >>
    /\ tryProposeChan' = Tail(tryProposeChan)
    /\ getBatch(Head(tryProposeChan))
    /\ UNCHANGED <<clientVars, fired, proposeflag, proposeChan, currRound, announcing, myBlocks>>

TakeRound ==
    /\ Selecting /\ tryProposeChan # << >>
    /\ tryProposeChan' = Tail(tryProposeChan)
    /\ getBatch(Head(tryProposeChan))
    /\ proposeflag' = FALSE
    /\ UNCHANGED <<clientVars, fired, proposeChan, currRound, announcing, myBlocks>>

\* The send never waits.
SendBlock_X ==
    /\ sending # << >>
    /\ proposeChan' = proposeChan \o sending
    /\ sending' = << >>
    /\ UNCHANGED <<clientVars, batchVars, tryProposeChan, currRound, announcing, myBlocks>>

SendBlock ==
    /\ sending # << >> /\ Len(proposeChan) < ProposeCap
    /\ proposeChan' = proposeChan \o sending
    /\ sending' = << >>
    /\ UNCHANGED <<clientVars, batchVars, tryProposeChan, currRound, announcing, myBlocks>>

----------------------------------------------------------------------------
\* mainLoop is not in the middle of newRound.
MainIdle == Started /\ announcing = << >>

\* newRound, called with these rounds one after the other in one handler:
\* start and announce them; the send blocks while the channel is full.
newRound(rounds) ==
    LET all == tryProposeChan \o rounds
        room == IF Len(all) <= TryCap THEN Len(all) ELSE TryCap
    IN  /\ currRound' = rounds[Len(rounds)]
        /\ tryProposeChan' = SubSeq(all, 1, room)
        /\ announcing' = SubSeq(all, room + 1, Len(all))

Announce ==
    /\ announcing # << >> /\ Len(tryProposeChan) < TryCap
    /\ tryProposeChan' = Append(tryProposeChan, Head(announcing))
    /\ announcing' = Tail(announcing)
    /\ UNCHANGED <<clientVars, batchVars, sending, proposeChan, currRound, myBlocks>>

\* The check of the current round left out.
StartRounds_X(rounds) ==
    /\ MainIdle
    /\ newRound(rounds)
    /\ UNCHANGED <<clientVars, batchVars, sending, proposeChan, myBlocks>>

\* N-F vertices of some round in the DAG start the next one, whatever the
\* round the node is in, and rounds may be left out.  One VAL can complete a
\* round by its certificates and the next one by itself.
StartRounds(rounds) ==
    /\ MainIdle /\ currRound < rounds[1]
    /\ newRound(rounds)
    /\ UNCHANGED <<clientVars, batchVars, sending, proposeChan, myBlocks>>

Propose ==
    /\ MainIdle /\ proposeChan # << >>
    /\ myBlocks' = Append(myBlocks, Head(proposeChan))
    /\ proposeChan' = Tail(proposeChan)
    /\ UNCHANGED <<clientVars, batchVars, sending, tryProposeChan, currRound, announcing>>

ProposerNext ==
    \/ \E k \in Request : ReceiveRequest(k)
    \/ TimerFires \/ TakeRequest \/ TakeRound \/ SendBlock
    \/ \E rounds \in Rises : StartRounds(rounds)
    \/ Announce \/ Propose

ProposerSpec == ProposerInit /\ [][ProposerNext]_proposerVars

----------------------------------------------------------------------------
\* All blocks cut so far, the last one last.
Blocks == myBlocks \o proposeChan \o sending

ProposerTypeOK ==
    /\ received \subseteq Request /\ clientChan \in Seq(Request)
    /\ currBatch \in Seq(Request) /\ reqNum \in Nat /\ startId \in Nat
    /\ fired \in BOOLEAN /\ proposeflag \in BOOLEAN
    /\ tryProposeChan \in Seq(Round) /\ Len(tryProposeChan) <= TryCap
    /\ proposeChan \in Seq(BlockInfo) /\ Len(proposeChan) <= ProposeCap
    /\ sending \in Seq(BlockInfo) /\ Len(sending) <= 1
    /\ currRound \in Round
    /\ announcing \in Seq(Round) /\ Len(announcing) <= 2
    /\ myBlocks \in Seq(BlockInfo)

(***************************************************************************)
(* A node proposes a round at most once and never goes back to an earlier  *)
(* one, although round 1 is proposed by a timer and the others by          *)
(* announcements, and both may be ready at once: a second vertex of a      *)
(* round would be an equivocation, which HRBC does not guard against.      *)
(***************************************************************************)
RoundsInOrder ==
    \A i, j \in DOMAIN Blocks : i < j => Blocks[i].Round < Blocks[j].Round

\* The requests of the first i blocks.
Requests(i) == UNION {Range(Blocks[j].Payload) : j \in 1..i}

IsCut(b) == b.ReqNum = MaxBatchSize /\ Len(b.Payload) = MaxBatchSize \div Interval

(***************************************************************************)
(* getBatch cuts the batch by whole requests and the account of its        *)
(* transactions by MaxBatchSize, which drift apart when Interval does not  *)
(* divide MaxBatchSize.  The account never loses a transaction taken from  *)
(* the client: the numbers of the blocks follow one another from 1, what   *)
(* they and reqNum count is what has been taken, and after a block that is *)
(* not cut they count exactly the requests that the blocks hold.  A cut    *)
(* never exceeds the batch, which in Go would be a slice out of range.     *)
(***************************************************************************)
Accounting ==
    /\ startId + reqNum + Interval * Len(clientChan) = 1 + Interval * Cardinality(received)
    /\ reqNum <= Interval * Len(currBatch)
    /\ IF Blocks = << >> THEN startId = 1 ELSE Blocks[1].StartID = 1
    /\ \A i \in DOMAIN Blocks :
          LET next == Blocks[i].StartID + Blocks[i].ReqNum
          IN  /\ next = IF i = Len(Blocks) THEN startId ELSE Blocks[i + 1].StartID
              /\ IsCut(Blocks[i]) \/ next = 1 + Interval * Cardinality(Requests(i))

(***************************************************************************)
(* Every request that has come in is in exactly one place: once in the     *)
(* channel, the batch or a block.  getBatch cuts the batch without a look  *)
(* at how many requests the number it accounts for stands for.             *)
(***************************************************************************)
Places(k) ==
    {<<"channel", 0, i>> : i \in {x \in DOMAIN clientChan : clientChan[x] = k}}
       \cup {<<"batch", 0, i>> : i \in {x \in DOMAIN currBatch : currBatch[x] = k}}
       \cup UNION {{<<"block", b, i>> : i \in {x \in DOMAIN Blocks[b].Payload : Blocks[b].Payload[x] = k}}
                     : b \in DOMAIN Blocks}

NothingLost == \A k \in received : Cardinality(Places(k)) = 1

(***************************************************************************)
(* mainLoop and proposeLoop each wait for the other to make room.  The     *)
(* node must then have opened as many rounds beyond the last one it        *)
(* proposed as there is room for in the two channels and the two           *)
(* goroutines: more than 2000 with the capacities of the code.             *)
(***************************************************************************)
MutualWait ==
    /\ announcing # << >> /\ Len(tryProposeChan) = TryCap
    /\ sending # << >> /\ Len(proposeChan) = ProposeCap

LastProposed == IF myBlocks = << >> THEN 0 ELSE myBlocks[Len(myBlocks)].Round

WaitNeedsLag == MutualWait => currRound >= LastProposed + TryCap + ProposeCap + 2
=============================================================================
