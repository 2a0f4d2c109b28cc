------------------------------- MODULE Bench -------------------------------
(***************************************************************************)
(* A test run as the client of one node and the coordinator see it.  The   *)
(* client sends requests to its node (Proposer); the node reports each of  *)
(* its blocks when it has been executed and, at the end of the test, asks  *)
(* the client for its statistics, which the client sends to the            *)
(* coordinator.  Consensus itself is left open: the node's blocks are      *)
(* executed in any order, or not at all.                                   *)
(***************************************************************************)
EXTENDS Proposer, FiniteSetsExt

CONSTANTS
    Self,       \* the node of this client
    Others,     \* the other nodes; their clients only report
    Reported,   \* numbers of executed transactions they may report
    MaxReport   \* bound: blocks of the node that are executed

ASSUME BenchAssumption == Self \notin Others /\ IsFiniteSet(Others) /\ Reported \subseteq Nat /\ MaxReport \in Nat

VARIABLES
    startTime,  \* length of client.startTime: requests sent so far
    steady,     \* the ten seconds of warm-up are over
    calls,      \* calls[r]: NodeFinish for the block of round r
    counters,   \* blockNum, finishNum, allTime of the client
    stopping,   \* the node: "no", "yes" (in StopClient), "exited"
    stats,      \* what Client.Stop has read so far
    executionNumber, curr, totalExecutionNum,   \* of the coordinator
    stop,       \* the coordinator's channel stop holds its signal
    printed,    \* the coordinator: "no", "yes", "panic"
    alone       \* history, not in the code: rounds whose calls no other one overlaps

clientSide == <<startTime, calls, counters, stats, alone>>
coorSide == <<executionNumber, curr, totalExecutionNum, stop, printed>>
benchVars == <<proposerVars, clientSide, steady, stopping, coorSide>>

Counter == <<"blockNum", "finishNum", "allTime">>
NoCall == [state |-> "none"]

BenchInit ==
    /\ ProposerInit
    /\ startTime = 0 /\ steady = FALSE
    /\ calls = [r \in Round |-> NoCall]
    /\ counters = [c \in {Counter[i] : i \in 1..3} |-> 0]
    /\ stopping = "no" /\ stats = << >>
    /\ executionNumber = << >> /\ curr = 0 /\ totalExecutionNum = 0 /\ stop = FALSE
    /\ printed = "no"
    /\ alone = {}

----------------------------------------------------------------------------
\* Rounds whose block has been executed and reported.
Running == {r \in Round : calls[r].state # "none"}

\* One turn of the client's loop.  The call of Node.Request runs in a
\* goroutine; its answer is many network round trips away.
SendRequest ==
    /\ startTime < MaxRequest
    /\ startTime' = startTime + 1
    /\ UNCHANGED <<proposerVars, steady, calls, counters, stopping, stats, alone, coorSide>>

\* The steps of the node's own loops, until its process exits.
NodeStep ==
    /\ stopping # "exited"
    /\ \/ \E k \in 1..startTime : ReceiveRequest(k)
       \/ TimerFires \/ TakeRequest \/ TakeRound \/ SendBlock \/ Announce
       \/ stopping = "no" /\ (Propose \/ \E rounds \in Rises : StartRounds(rounds))
    /\ UNCHANGED <<clientSide, steady, stopping, coorSide>>

WarmUpEnds ==
    /\ ~steady /\ steady' = TRUE
    /\ UNCHANGED <<proposerVars, clientSide, stopping, coorSide>>

\* Calls that are under way and count.
Busy == {r \in Running : calls[r].state = "running" /\ calls[r].steady}

\* The block of a round is executed: report it, marked if the warm-up is over.
blockBack(i) ==
    /\ MainIdle /\ stopping = "no"
    /\ calls[myBlocks[i].Round] = NoCall /\ Cardinality(Running) < MaxReport
    /\ calls' = [calls EXCEPT ![myBlocks[i].Round] =
                    [state |-> "running", block |-> myBlocks[i], steady |-> steady,
                     next |-> 1, loaded |-> << >>]]
    /\ alone' = (alone \ Busy) \cup (IF steady /\ Busy = {} THEN {myBlocks[i].Round} ELSE {})
    /\ UNCHANGED <<proposerVars, startTime, counters, steady, stopping, stats, coorSide>>

\* What NodeFinish adds to the counters, in this order: a block, its
\* transactions, and one latency (counted as 1) for each of its requests,
\* times their transactions.
Updates(b) ==
    <<[counter |-> "blockNum", by |-> 1], [counter |-> "finishNum", by |-> b.ReqNum]>>
       \o [i \in 1..(b.ReqNum \div Interval) |-> [counter |-> "allTime", by |-> Interval]]

\* The warm-up is counted as well.
NodeFinish_X(r) ==
    LET call == calls[r]
        up == Updates(call.block)
    IN  /\ call.state = "running"
        /\ \/ /\ call.loaded = << >> /\ call.next <= Len(up)
              /\ calls' = [calls EXCEPT ![r].loaded = <<counters[up[call.next].counter]>>]
              /\ UNCHANGED counters
           \/ /\ call.loaded # << >>
              /\ counters' = [counters EXCEPT ![up[call.next].counter] = call.loaded[1] + up[call.next].by]
              /\ calls' = [calls EXCEPT ![r].loaded = << >>, ![r].next = @ + 1]
           \/ /\ (call.loaded = << >> /\ call.next > Len(up))
              /\ calls' = [calls EXCEPT ![r].state = "done"]
              /\ UNCHANGED counters
        /\ UNCHANGED <<proposerVars, startTime, steady, stopping, stats, alone, coorSide>>

\* A call starts the count anew.
NodeFinish_lost_X(r) ==
    LET call == calls[r]
        up == Updates(call.block)
    IN  /\ call.state = "running"
        /\ \/ /\ call.steady /\ call.loaded = << >> /\ call.next <= Len(up)
              /\ calls' = [calls EXCEPT ![r].loaded = <<counters[up[call.next].counter]>>]
              /\ UNCHANGED counters
           \/ /\ call.loaded # << >>
              /\ counters' = [counters EXCEPT ![up[call.next].counter] = up[call.next].by]
              /\ calls' = [calls EXCEPT ![r].loaded = << >>, ![r].next = @ + 1]
           \/ /\ ~call.steady \/ (call.loaded = << >> /\ call.next > Len(up))
              /\ calls' = [calls EXCEPT ![r].state = "done"]
              /\ UNCHANGED counters
        /\ UNCHANGED <<proposerVars, startTime, steady, stopping, stats, alone, coorSide>>

\* net/rpc runs every call in a goroutine, and nothing protects the counters:
\* each addition is a load and a store.  An index of startTime that is out of
\* range would end the client; the properties say which entries are read.
NodeFinish(r) ==
    LET call == calls[r]
        up == Updates(call.block)
    IN  /\ call.state = "running"
        /\ \/ /\ call.steady /\ call.loaded = << >> /\ call.next <= Len(up)
              /\ calls' = [calls EXCEPT ![r].loaded = <<counters[up[call.next].counter]>>]
              /\ UNCHANGED counters
           \/ /\ call.loaded # << >>
              /\ counters' = [counters EXCEPT ![up[call.next].counter] = call.loaded[1] + up[call.next].by]
              /\ calls' = [calls EXCEPT ![r].loaded = << >>, ![r].next = @ + 1]
           \/ /\ ~call.steady \/ (call.loaded = << >> /\ call.next > Len(up))
              /\ calls' = [calls EXCEPT ![r].state = "done"]
              /\ UNCHANGED counters
        /\ UNCHANGED <<proposerVars, startTime, steady, stopping, stats, alone, coorSide>>

\* The test time is over: mainLoop calls the client and waits for it.
StopClient ==
    /\ MainIdle /\ steady /\ stopping = "no"
    /\ stopping' = "yes"
    /\ UNCHANGED <<proposerVars, clientSide, steady, coorSide>>

\* Client.Stop reads the counters one after the other.
Stop ==
    /\ stopping = "yes" /\ Len(stats) < 3
    /\ stats' = Append(stats, counters[Counter[Len(stats) + 1]])
    /\ UNCHANGED <<proposerVars, startTime, calls, counters, alone, steady, stopping, coorSide>>

\* A client that has executed nothing is not counted as finished.
Finish_X(id, number) ==
    /\ executionNumber' = [x \in DOMAIN executionNumber \cup {id} |-> IF x = id THEN number ELSE executionNumber[x]]
    /\ curr' = IF number = 0 THEN curr ELSE curr + 1
    /\ totalExecutionNum' = totalExecutionNum + number
    /\ stop' = (stop \/ curr' = Cardinality(Others) + 1)

\* Coordinator.Finish, under its mutex: coor.total clients have been started.
Finish(id, number) ==
    /\ executionNumber' = [x \in DOMAIN executionNumber \cup {id} |-> IF x = id THEN number ELSE executionNumber[x]]
    /\ curr' = curr + 1
    /\ totalExecutionNum' = totalExecutionNum + number
    /\ stop' = (stop \/ curr' = Cardinality(Others) + 1)

SelfFinishes ==
    /\ stopping = "yes" /\ Len(stats) = 3
    /\ Finish(Self, stats[2])
    /\ stopping' = "exited"
    /\ UNCHANGED <<proposerVars, clientSide, steady, printed>>

\* The client of another node is stopped once.
OtherFinishes(id) ==
    /\ id \notin DOMAIN executionNumber
    /\ \E number \in Reported : Finish(id, number)
    /\ UNCHANGED <<proposerVars, clientSide, steady, stopping, printed>>

\* The signal wakes main, which divides by the total and returns.
PrintReport ==
    /\ stop /\ stop' = FALSE
    /\ printed' = IF totalExecutionNum = 0 THEN "panic" ELSE "yes"
    /\ UNCHANGED <<proposerVars, clientSide, steady, stopping, executionNumber, curr, totalExecutionNum>>

BenchNext ==
    \/ SendRequest \/ NodeStep \/ WarmUpEnds
    \/ \E i \in DOMAIN myBlocks : blockBack(i)
    \/ \E r \in Round : NodeFinish(r)
    \/ StopClient \/ Stop \/ SelfFinishes
    \/ \E id \in Others : OtherFinishes(id)
    \/ PrintReport

(***************************************************************************)
(* Calls that have been made are answered, and the coordinator runs.  The  *)
(* clients of the other nodes report in the end, as this one must.         *)
(***************************************************************************)
BenchFairness ==
    /\ WF_benchVars(Stop) /\ WF_benchVars(SelfFinishes) /\ WF_benchVars(PrintReport)
    /\ \A id \in Others : WF_benchVars(OtherFinishes(id))

BenchSpec == BenchInit /\ [][BenchNext]_benchVars /\ BenchFairness

----------------------------------------------------------------------------
\* The entries of startTime that NodeFinish reads for a block, from 0.
Charged(b) == {(b.StartID \div Interval) + i : i \in 0..((b.ReqNum \div Interval) - 1)}

\* No request of the first i blocks has been overtaken by a later one.
InOrder(i) == Requests(i) = 1..Cardinality(Requests(i))

\* Rounds whose block is reported after the warm-up: those NodeFinish counts.
Timed == {r \in Running : calls[r].steady}

\* Requests of two blocks never share an entry, and none is charged that the
\* client has not sent; a block is charged with its own requests when none has
\* overtaken another and the blocks before it count whole requests.  Entries
\* are those of the requests, shifted.
Charges(shift) ==
    \A i \in DOMAIN myBlocks :
        LET b == myBlocks[i]
        IN  b.Round \in Timed =>
              /\ Charged(b) \subseteq shift..(startTime - 1 + shift)
              /\ \A s \in Timed \ {b.Round} : Charged(b) \cap Charged(calls[s].block) = {}
              /\ (/\ InOrder(i - 1) /\ InOrder(i)
                  /\ b.StartID = 1 + Interval * Cardinality(Requests(i - 1)))
                    => Charged(b) = {k - 1 + shift : k \in Range(b.Payload)}

(***************************************************************************)
(* The latency of a block is computed from the times its own requests were *)
(* sent: the node only tells the number of the first transaction, and the  *)
(* client indexes startTime by it.                                         *)
(***************************************************************************)
LatencyOfOwnRequests == Charges(0)

(***************************************************************************)
(* What the code does for every interval and batch size: the entries are   *)
(* those of the block's own requests, except that with Interval = 1, the   *)
(* default of the coordinator, each of them is the one of the next         *)
(* request, which may not have been sent.                                  *)
(***************************************************************************)
LatencyIndex == Charges(1 \div Interval)

\* The transactions of all blocks reported after the warm-up.
SteadyNumber ==
    LET number(r) == calls[r].block.ReqNum
    IN  MapThenSumSet(number, Timed)

(***************************************************************************)
(* NodeFinish races with itself and with Stop.  Additions may be lost, but *)
(* the number of transactions the coordinator reports for this client, and *)
(* the latencies in allTime, never exceed what was executed after the      *)
(* warm-up.                                                                *)
(***************************************************************************)
NeverOvercounts ==
    /\ counters["finishNum"] <= SteadyNumber /\ counters["allTime"] <= SteadyNumber
    /\ Self \in DOMAIN executionNumber => executionNumber[Self] <= SteadyNumber

\* The transactions of the blocks that alone calls have added.
AloneNumber ==
    LET number(r) == calls[r].block.ReqNum
    IN  MapThenSumSet(number, {r \in alone : calls[r].next > 2})

(***************************************************************************)
(* Only additions of calls that overlap another one may be lost.  The      *)
(* others stay counted, however many calls race before and after them:     *)
(* even a call for an empty block stores what it has loaded, and what it   *)
(* has loaded must not be older than theirs.                               *)
(***************************************************************************)
AloneIsCounted == counters["finishNum"] >= AloneNumber

(***************************************************************************)
(* Once a node has stopped its client, the coordinator ends, also when     *)
(* some client has nothing to report.                                      *)
(***************************************************************************)
ReportComes == (stopping = "yes") ~> (printed # "no")
=============================================================================
