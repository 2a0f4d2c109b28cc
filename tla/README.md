# ChituBFT in TLA+

ChituBFT is a BFT consensus protocol on a DAG. `N` nodes work in rounds; in each
round every node broadcasts one *vertex*, with a payload of client requests and
references to at least `N-F` certified vertices of the round before. No further
messages decide what is committed: each node reads it from the shape of its own
copy of the DAG, by a fast path and, when that does not apply, with the help of a
common coin. This directory models the protocol core, `src/ChituBFT/consensus/node.go`,
the goroutines around it (`consensus/verify.go`, the proposer), and the client and the
coordinator that measure it. All line numbers below are of `node.go` unless another
file is named.

Contents: [the system](#the-system) · [hazards](#what-is-hard) ·
[modules](#the-modules) · [runs](#the-runs) · [findings](#findings) ·
[proofs](#the-proofs) · [not modelled](#what-is-not-modelled) · [plan](#plan)

## The system

A node is one process. `mainLoop` (268) handles, one at a time and to completion,
the messages of `msgChan` and the blocks of `proposeChan`; everything in the `Node`
struct that the protocol reads is touched by this goroutine only. Around it run
`proposeLoop` (293, batches requests), one goroutine per received message
(`network/noise.go`, which checks the signature of an ECHO before it queues it),
one per VAL whose certificates are being checked (`verify.go`), and one per message
sent.

| Part | State | Operations | Correct when |
|---|---|---|---|
| **HRBC**, the broadcast of a vertex (409-970, 1501-1610, 2074-2103) | `vals`, `payloads`, `mergeMsg`, `echos`, `echoed`, `selfEcho`, `hasTent`, `weakCerts`, `certs`, `HRBCTerminated`, `vertexBuffer`, `virtualVertexBuffer`, `valDAG`, `DAG` | `propose`, `onReceiveVal/Payload/Echo/Sync/Deliver`, `handle...`, `addVirtualConn`, `addQC` | certificates are quorums of echoes; what is certified can be obtained; live nodes deliver |
| **Rounds** and adaptive wait (1038-1298) | `currRound`, `DAG`, `weakCerts`, `weakWait`, `hasWeak`, `hasConn` | `newRound`, `tryAddDAG`, `getConnections`, `getWeakConnect` | every vertex has `N-F` certified parents; rounds go on |
| **Decision** (972-1008, 1302-1499, 1687-1830) | `directSupport`, `tentativeSupport`, `tentativeReject`, `decideState2`, `coinMsgs`, `coinsBuffer`, `coins`, `coinRound`, `FirstRound`, `SecondRound` | `addDirectConn`, `addInDirectConn`, `onReceiveCoin`, `tryCoinPass`, `coinPass`, `Path` | all nodes decide alike; every vertex is decided in the end |
| **Commit and execution** (1832-2048) | `committedVertex`, `execState`, `payloads`, `blockInfos` | `tryCommit`, `executeBack`, `weakExc`, `blockBack` | all nodes execute the same vertices in the same order, each once |
| **Proposer** (250-406) | `currBatch`, `reqNum`, `startId`, `proposeflag`, `timeflag`, the channels | `Request`, `proposeLoop`, `getBatch` | each round is proposed once; no request is lost or counted twice |
| **ValVerify** (`verify.go`, 743-788) | `verify`, `verified`, `sigChan`, `resChan` | `NewValVerify`, `run`, `Verify` | a VAL is handled once, after its certificates have been checked |
| **Network** (`network/noise.go`) | connections | `BroadcastMessage`, `Handler`, `OnReceiveMessage` | what a live node sends reaches every live node |
| **Client**, **coordinator** (`client/`, `coordinator/`) | statistics | `NodeFinish`, `Finish` | the reported numbers are those of the test |

How they interact: HRBC hands a certified vertex to `tryAddDAG`; this updates the
decision (`addConn`), which calls `tryCommit`; it may open the next round
(`newRound`, over `tryProposeChan` to the proposer, which answers over
`proposeChan`), and it sends the coin share of the round before (`getCoin`). A VAL
of round `r+1` carries certificates of round `r`, so HRBC of one round feeds HRBC
of the round before. Execution deletes payloads that HRBC still looks at.

Faults the program knows of: nodes never started (option `-w` of `test/main.go`),
nodes that stop, nodes started with `-b 1` that broadcast VAL and PAYLOAD only
(`noise.go:113`), and the option `-a`, which switches the fast path off.

## What is hard

The hazards are listed one by one, with their lines, in `PROJECT.json`. They fall in four
groups: the order in which VAL, PAYLOAD, ECHO, next-round certificates and
deletions reach the entries of one vertex; decisions made by different nodes, on
different parts of the DAG, by different rules; triggers that must fire whichever
of several things comes last; and state that one component deletes, forgets or marks while
another still needs it. Around the protocol there are goroutines that share bounded channels
(the two loops of the proposer, the checks of a VAL) and counters that no lock protects
(the client).

## The modules

| Module | What it is |
|---|---|
| `HRBC` | the broadcast of one vertex, at all nodes |
| `CertifiedBroadcast` | abstract: what a broadcast promises; `HRBC` implements it |
| `MCHRBC` | HRBC on four nodes, a symmetry set, and the instances' initial states and faults |
| `HRBCProofs` | theorems about HRBC, among them that it implements CertifiedBroadcast |
| `Decide` | the decisions of several nodes on a fixed DAG |
| `Outcome` | abstract: each vertex has one outcome; `Decide` implements it |
| `MCDecide` | the DAGs, leaders and late vertices of the instances |
| `DecideProofs` | theorems about Decide |
| `Commit` | extends `Decide`: each observer executes what it has decided |
| `TotalOrder` | abstract: the nodes execute one log; `Commit` implements it |
| `MCCommit` | its DAGs, weak edges, late vertices and payloads |
| `CommitProofs` | theorems about Commit, among them that it implements Decide and TotalOrder |
| `Proposer` | requests, batches, blocks and the channels of one node |
| `ProposerProofs` | theorems about Proposer |
| `Rounds` | the rounds and edges of one node; implements `Proposer`, whose `currRound` it computes |
| `MCRounds` | the vertices whose messages the instances handle one by one |
| `RoundsProofs` | theorems about Rounds, among them the refinement |
| `EdgesProofs` | theorems about the edges of the node's own vertices in Rounds |
| `ValVerify` | the check of the certificates that VALs carry |
| `MCValVerify` | three VALs that share signatures |
| `ValVerifyProofs` | theorems about ValVerify |
| `Bench` | extends `Proposer` with its client and the coordinator |
| `MCBench` | the bound of its instance |
| `BenchProofs` | theorems about Bench, among them that it extends Proposer |

In all components a handler is an operator from the record of a node's entries to
its next record, under the name of the Go function, and an action handles one
message with it: the atomicity of `mainLoop`. Operators whose name ends in `_X` are
seeded faults: each is the definition below it with a plausible mistake, no
specification uses them, and the properties are tested by putting them in.

**HRBC.** `state[p]` has one field for each map of the `Node` struct, restricted to
this vertex. A signature is its signer's name, a certificate the set of its
signers, a hash nothing at all (there is one honest content per vertex: a proposer,
also with `-b 1`, sends the same VAL to all). `msgs` is the set of messages on
their way: a message is taken out when it is handled, in any order. Delivery at
most once is what the network gives; a second ECHO can come out of SYNC, and is.
What other vertices do to this one is given by constants, each over-approximating the code:
`Successors` may send a next-round VAL that lists the vertex as soon as it is in their DAG,
`Executors` may execute its payload once a certificate exists, at `SyncNodes` the
round test of `tryBroadcastSync` holds (elsewhere it does not). `onReceiveVal`'s
detour through the check of the certificates, for rounds above 1, only delays the VAL: it
is module `ValVerify`.

| Action | Code |
|---|---|
| `Propose` | `propose`, `broadcastPayload` |
| `ReceiveVal` | `onReceiveVal` from 816, `handleVal`, `addVirtualConn` |
| `ReceivePayload` | `onReceivePayload`, `handlePayload` |
| `ReceiveEcho` | `onReceiveEcho`, `handleEcho`, `onReceiveDeliver` |
| `ReceiveSync` | `onReceiveSync`, `verifyEcho` |
| `ProposeNext`, `ReceiveNextVal` | `getConnections`; `onReceiveVal` 790-813, `addQC` |
| `Execute` | the deletion of a payload in `tryCommit`, `executeBack`, `weakExc` |
| `Crash` | the process stops |

**CertifiedBroadcast.** What the rest of the protocol needs of HRBC, without messages. A node knows the vertex
(VAL), holds its payload, votes (its ECHO), has a certificate and has delivered (`DAG`), and keeps all of this
for good, although the code frees VAL, signatures and payload again. It votes with both VAL and payload, or after a set in
`Support` (any `F+1` nodes) has; a certificate is a `Quorum` (any `N-F`) of nodes that have voted; it delivers with VAL and
certificate, the payload may come later. One handler may do several of these, and one node moves at a time (`OneBroadcast`).
A `-b 1` node's own echo never leaves it and is no vote.

**Decide.** A certified vertex has one content, so the DAG of the whole system is a
constant of a behaviour: `conn` gives each vertex its parents, `leader` each round
the outcome of its coin, both chosen in `Init`. A node's `DAG` is a growing part of
it. The support and reject maps are functions of that part (`directSupport`,
`tentativeReject`); `TentConnect` is always empty (429), so tentative and direct
support are the same. `AddVertex` takes any vertex in any order, because `tryAddDAG`
does not wait for parents; only a node's own vertex waits for the parents it lists.
`ReceiveCoin` is the share that completes a coin, possible once `N-F` nodes have seen
`N-F` vertices of the next round; `TakeCoin` is one turn of the loop in
`onReceiveCoin`, which nothing else of that node interrupts. `Before` computes the
recursion of `coinPass` as the list of rounds it decides, each with the leader that
decides it: `coinPass` writes only if all of the recursion succeeds. `byPath` is not in the code: it is the set of
vertices the node has decided through the leader of a later round than the next but one (`FarDecided`), those for
which `Path` looks over more than one hop. A decision on any other vertex is a *near* one (`Near`).

**Outcome.** What the commit needs of the decision: `outcome` is fixed by the first node that
decides a vertex, `known[p]` grows towards it, by one vertex or many at a time, and is never
revised. In `Decide`, `known` is the near part of `decideState2`, and `outcome` is what anyone has decided so.

**Commit.** `exec[p]` holds the entries that `tryCommit` works on. The commits go
through the positions 1, 2, ... of `VertexAt`, `N` per round, from another node on in
each. `execState` keeps the number of the commit that executed a vertex, where the
code keeps a 1: this is what the order properties compare. `gaps` is not in the code either: it is the set of the commits
in which the node asked for edges of a vertex it did not have (`Note`). A handler that calls
`tryCommit` (`addDirectConn` for rounds above 1; `onReceiveReady` after any VAL, 933; `tryCoinPass` when it closes a round) sets `committing`; then `tryCommit` runs
by itself, one step per executed vertex, because nothing else happens at the node
before it returns (`Idle`), and because the handlers of different nodes share nothing,
the other nodes may wait too. Where the code calls `tryCommit` several times within one
handler the model calls it at the end of the handler: it goes on until it meets something
undecided or missing, and nothing else that happens in between concerns it. The loops of
`executeBack` go through the fathers by their ids and through the `Connections` of each in their order,
and that order matters: a vertex's weak edges are executed at once and may fill the round of the
next one's. The order of `Connections` is that of a Go map at the proposer (1160), the same at
all nodes once the VAL is sent: it is the constant `Place`, any injection, and `ComesFirst` says which vertex
the loops come to first.

| Action | Code |
|---|---|
| `DeliverVertex`, `CoinShare`, `ReleaseCoin` | `AddVertex`, `ReceiveCoin`, `TakeCoin` of `Decide`, and the call of `tryCommit` at their end |
| `ReceiveVal` | `onReceiveReady` (922-934) for a VAL whose vertex does not enter the DAG yet |
| `ReceivePayload` | `onReceivePayload` up to the entry in `payloads` (641) |
| `Skip`, `Return` | decided 0 (1864-1877); undecided or something missing (1859, 1879-1886) |
| `CommitVertex` | decided 1 (1887-1898), up to the loop of `executeBack` |
| `Visit` | the next new vertex of `executeBack`'s loops with its `weakExc` (1996-2021) |
| `NextRound` | the recursion of `executeBack`, or its end (2022-2024) |
| `Finish` | `weakExc` of the committed vertex, the next position (1899-1903) |

The test for a VAL in 1879 is the test whether the vertex is in the DAG: a vertex decided 1
has a child, the child's certificate for it has been stored, and so it is in the
DAG as soon as its VAL is there. Own payloads are there from the start, because
`broadcastPayload` enters them before anything else of the vertex (484).

**TotalOrder.** What committing promises to the clients of all nodes: `log[k]` is what the `k`-th commit
executes, nothing or a set of items with the one the commit is for. The first node that ends
the commit fixes the entry; another executes its items in steps of its own (`doing`), none but these and in the
end all of them. No item is in two entries. A node may stray from the log (`stray`); it then adds nothing to it, and
the others go on. In `Commit`, `doing[p]` is what `p` has marked in `execState` for the
commit it is in, and `log` is what anyone who was clear then has marked for the commits he is past. A node strays when
the commit it is in, or one before, has a gap or is of a vertex in `byPath` (`Clear`, `Strayed`): these two are what the code does not prevent, as
the findings 1 and 2 show. That two nodes have different
vertices, and walk through them at different times, is what the refinement (`OneLog`) abstracts from.

**Proposer.** A request is its number in the order of the client; it stands for `Interval`
transactions. The goroutines are `Node.Request` (one per call, so that requests overtake each
other), `proposeLoop`, and `mainLoop` as far as it announces rounds and takes blocks. A
send that may have to wait is a step of its own (`SendBlock`, `Announce`), and its
goroutine does nothing else meanwhile (`Selecting`, `MainIdle`). Which rounds start is open here:
any that rise, by one call of `newRound` or by two in one handler (`Rises`).

| Action | Code |
|---|---|
| `ReceiveRequest` | `Request` (256) |
| `TimerFires`, `TakeRequest`, `TakeRound` | the cases of `proposeLoop`'s select (300-322), with `getBatch` |
| `SendBlock` | the send at the end of `getBatch` (366, 381) |
| `StartRounds`, `Announce` | `newRound` (1038), its send on `tryProposeChan` (1048) |
| `Propose` | `mainLoop` takes a block (283) |

**Rounds.** One node, `Self`, and the vertices of all nodes. Of a broadcast it keeps the VAL,
the weak certificate (`hasTent`, `weakCerts`), the certificate and the delivery; which echoes are
there is a choice (`echoes`). A VAL of round `r` comes with certificates of any `N-F` vertices of
round `r-1` that can exist (`Parents`, `Exists`), so a vertex may enter the DAG by another's VAL. The
operators have the names of the Go functions and work on the record `node`. The channels
are those of `Proposer`, instantiated with `currRound <- node.currRound`, so that proposals come out
of `proposeLoop` late and in the round they were cut for. `conns[r]` keeps the edges of the own vertex of
round `r` and the round the node was in (`at`). The priority queue is the set `weakWait`, whose least
vertices `getWeakConnect` pops (`Before`, `Popped`). Of vertices outside `Split` the VAL comes
last, which keeps the instances small; the proofs do not assume it of any vertex.

| Action | Code |
|---|---|
| `ReceiveVal` | the second pass of `onReceiveVal` (786-815), with `addQC`, `handleVal`, `addVirtualConn` and, with enough echoes, `onReceiveDeliver` |
| `ReceiveEcho` | the echo that completes a weak certificate or a certificate (867, 819) |
| `Propose` | `propose`, `getConnections`, `getWeakConnect` |
| `ProposeLoop` | the steps of `Proposer` that are not `mainLoop`'s handlers |

**ValVerify.** A VAL is handled twice: the first time its unchecked signatures are counted
(`Counted`), then sent one by one (`Handed`), and marked in `verified`; the second time, after
`run` has put it back into `msgChan`, it is processed. `sigChan`, `checking` and `resChan` are the signatures
in the channels of one `ValVerify` and with its `Verify` goroutines. A SYNC hands its
signatures to `verifyEcho`, or counts those that someone else has as echoes at once. The two
loops of `onReceiveVal` are one step of `mainLoop`; since certificates of one VAL are for different
vertices, no signature occurs twice in it.

| Action | Code |
|---|---|
| `NewValVerify`, `handleVal` | `onReceiveVal`, first and second pass (747-788) |
| `runNothing`, `runSig`, `runRes` | `ValVerify.run` (`verify.go:37`) |
| `Verify` | `ValVerify.Verify` (`verify.go:63`) |
| `onReceiveSync`, `verifyEcho`, `onReceiveEcho` | the functions of these names |

**Bench.** A node's client and the coordinator, with `Proposer` inside; consensus is left
open: own blocks are executed in any order or not at all (`blockBack`). Each addition of `NodeFinish` is a load
and a store, because nothing protects the counters; `Stop` reads them one after the other.
`allTime` counts latencies instead of adding times. The coordinator counts the calls of `Finish` in `curr`, and the one that
makes it `coor.total` signals `stop`, which wakes its `main`. The clients of the other nodes report any
number. `alone` is not in the code: the rounds whose call of `NodeFinish` has not overlapped another one that counts.

| Action | Code |
|---|---|
| `SendRequest` | the loop of the client (`client/main.go:69`) |
| `blockBack`, `StopClient` | `blockBack` (2029), `StopClient` (387) |
| `NodeFinish`, `Stop` | `client/main.go:112`, `:144` |
| `Finish` in `SelfFinishes`, `OtherFinishes` | `Coordinator.Finish` (`coordinator/main.go:162`) |
| `PrintReport` | the end of its `main`, from `<-coor.stop` on (`:123`) |

## The runs

On four nodes and `F = 1`, the smallest system with a fault: every threshold
(`F`, `F+1`, `N-F`) is then a different number, and two quorums share two nodes.
Where `CHECK_DEADLOCK` is `FALSE` the model ends when all messages, or all vertices and coins,
have been handled; the real system would go on with the next vertex.

| Run | Instance | Shows |
|---|---|---|
| `hrbc_down` | `n4` stops before the proposal, two payload slices; SYNC, a next-round VAL and early execution at the proposer, which may get its payload again; `n2` and `n3` are interchangeable (`NodeSymmetry`); 1,054,884 states | `TypeOK`, `CertQuorum`, `WeakCertSound`, `CertAvailable`, `ValRetained`, and `OneBroadcast`: `HRBC` implements `CertifiedBroadcast` |
| `hrbc_live` | `n4` absent, successor, execution; fair | `Validity`: every live node delivers |
| `hrbc_total` | the proposer crashed after three nodes echoed; fair | `Totality`: one certificate brings all who have the VAL there |
| `decide_agree` | two nodes; 5 rounds, 4 DAGs, up to four late vertices; 6 rounds, 2 DAGs, six late vertices; and the DAG of `decide_fork`; 155,283 states | `TypeOK`, `NearDecisionsAgree`, `FastIsFinal`, `ClosedIsDecided`, `LeaderTriggers`, and `OneOutcome`: `Decide` implements `Outcome` |
| `commit_log` | two nodes; 4 rounds, 2 DAGs with weak edges downwards, two late vertices at each node, others at one than at the other, two late payloads; and the DAG of `decide_fork`; 255,824 states | `CommitTypeOK`, `PayloadKept`, `ExecutedOnce`, `ClearCommitsAgree`, and `OneLog`: `Commit` implements `TotalOrder` |
| `rounds_edges` | one of four nodes, vertices of 2 rounds, 3 rounds announced, channels of capacity 1; 506,482 states | `RoundsTypeOK`, `ConnectionsQuorum`, `OwnNotForgotten`, `WeaksPointBack`, and `RoundsOnlyRise`: `Rounds` implements `Proposer` |
| `verify` | three VALs that share four signatures, one invalid, a SYNC, two ECHOs | `TypeOK`, `ChannelsHaveRoom`, `CheckedOnce`, `HandledIsChecked`, `ValIsHandled` |
| `bench_report` | an interval of 2 and batches of 3, two requests, four rounds, channels of capacity 1, two clients; 300,178 states | `ProposerTypeOK`, `RoundsInOrder`, `Accounting`, `NothingLost`, `WaitNeedsLag`, `LatencyIndex`, `NeverOvercounts`, `AloneIsCounted`, `ReportComes` |
| `decide_fork`, `commit_order`, `rounds_stall`, `bench_latency` | see the findings | violations |

Why these bounds. In HRBC the vertex, its messages and the nodes are finite, and nothing else is
bounded but `MaxCrash` and `SliceNum`; two slices are enough for a payload to be
incomplete. In Decide a round is decided by a leader two rounds above with
supporters one above that: four rounds are the least that decide anything by coin,
five have two leaders of different parity, six the first recursion of `coinPass`.
The DAGs of the instances cut the edges that decide: a vertex with each number of supporters
from one to all, a leader without the decisive parent, a leader without enough
supporters. The six-round DAG of `decide_fork` is among them, so that the properties of `decide_agree` have passed the very
recursion that breaks `Agreement`. `late` lists the vertices whose order of arrival is explored; the
others have come before, round after round (`EarlyOf` adds them with the model's
own `tryAddDAG`). The scenes of `commit_log` with weak edges have the 16 positions of four rounds, three of the
rounds decided in some behaviours. Their DAGs have vertices that are decided 0
and executed by the history of a later commit, by edges (`HermitCut`: only node 4 refers
to its own vertices) or by weak edges (`DownWeaks`); a late payload makes `tryCommit`
return in between. Vertices come in any order, before their parents too, so that nodes do stray in this run; `FarScenes`
adds a node that strays by a decision through the leader of a later round. With four nodes a proposer has room for one weak edge per vertex
(1197), and only if it has left a parent out (`HasRoom`); `<3, n3>` is
committed itself with a weak edge to what nothing else leads to. `Turned` is an order of the edges that is another one
in each vertex; with so few nodes it has nothing to decide, because at most one vertex of a
round is left to the walks of later commits, and it is the proof of `ClearCommitsAgree` that is about larger systems.

Rounds needs two rounds of vertices: one that ends, one whose proposal takes edges from it, and
the start of the third; the messages of the own and of one other vertex of round 1 come one by one (`FirstTwo`).
With capacity 1 the channels fill and `newRound` waits in its second announcement (`announcing`), which with 1024 takes as
many rounds; nothing else in the model depends on the capacity. In Bench an `Interval` of 2 does not divide a batch
of 3: `getBatch` then cuts one request out of two and accounts for three transactions, the case that `Accounting` and
`NothingLost` are about. Two requests can overtake each other, and four rounds with
capacity 1 are what `MutualWait` needs; `Short` gives the larger rounds to behaviours with a single
request only. In ValVerify every two VALs share a signature, two of these come in an ECHO too and two in the
SYNC, and the invalid one is carried by one VAL only.

*Fairness.* `HandleOwed(p)` of HRBC: a live node handles again and again some message that
it is owed, that is an ECHO of a live node, or the VAL and PAYLOAD of a live proposer.
This is `mainLoop` reading its channel and the network delivering what live nodes
sent. Nothing is promised of a crashed node's messages, nor that anyone proposes,
crashes, executes, proposes in the next round or sends SYNC: liveness does not rest
on these. `RoundsFairness`: every VAL and every echo of a live node's vertex comes, and both
loops of the node go on; it is the ground on which the stall of finding 3 is one.
ValVerify's `Fairness`: `mainLoop` takes every VAL from `msgChan`, and `run` and
`Verify` go on; nothing is promised of SYNC or ECHO. `BenchFairness`: RPCs that have been made are answered,
and every other client reports in the end; not that anyone executes a block or that the warm-up ends.

## Findings

1. **Two nodes decide a vertex differently** (1704; run `decide_fork`). `Path` advances
   `startRound` but reads `directSupport[r1]` for every hop, so that beyond one hop its answer is
   unrelated to the question in its comment (1686). `coinPass` asks it over more than one hop
   when it decides a round by a later leader (1788, 1810).
   In the run, one node has the leader `<3, n3>` with its two supporters in time and decides
   `<1, n4>` by it as 0, since only one supporter of `<1, n4>` is a parent of that leader. The other node lacks one of the leader's
   supporters, takes the leader `<5, n4>` and decides round 1 on the way: `Path` reports a path for both supporters, and `<1, n4>`
   becomes 1. With the lookup in the round of the hop the same instance has no disagreement. Decisions by the next
   leader but one, those the recursion makes included, do agree (`NearDecisionsAgree`).
2. **Execution depends on arrival** (2001; run `commit_order`). `executeBack` executes
   every vertex it finds an edge to, but follows the edges of those only that are in the
   local DAG. A vertex that has been executed without being there is
   not looked at again, so that its history is left out at this node and executed at
   another. `tryAddDAG` does not wait for parents, so this needs no fault. As long as a node has the
   vertices whose edges a commit asks for, it executes what the others do (`ClearCommitsAgree`).
3. **Adaptive wait without end** (1280; run `rounds_stall`). A round is over when `N-F` vertices are
   in the DAG and no weak certificate of the round is left. A weak certificate is deleted when
   its vertex enters the DAG (1274). But a vertex enters by a certificate in a next-round VAL too,
   as soon as its own VAL is there (800, 1608); when its `F+1`-st echo comes after that, the weak certificate is
   built (891) and stays, since `tryAddDAG` returns at 1227 from then on. With `N-F` live
   nodes the others cannot go on without this one, so no vertex of the next round
   lifts it over. With more live nodes their vertices of the next round may carry it over.
4. **Latency of the next request** (`client/main.go:124`; run `bench_latency`). `NodeFinish` indexes `startTime` by
   `StartID/interval`. `StartID` counts from 1 (215), the index from 0, so that the quotient is the block's first request if
   `interval` is at least 2. The default of the coordinator is 1 (`coordinator/main.go:50`): then the entry is that of the request after it, which
   may not have been sent, and the client stops with an index out of range. `LatencyIndex` states what the code does for every interval.

Two situations the models led to are not runs. A leader without a trigger (1443):
`addInDirectConn` does nothing for a vertex of round 3, so if the leader of round 3,
or a parent of the leader of round 4, comes last, the coin path waits for a leader two rounds
later; from the leader of round 5 on no order of arrival is left out (`LeaderTriggers`),
provided no earlier round of its parity is open. And a commit robbed of its payload (1965): `weakExc`
executes any weak edge, also one within a round whose vertex is committed later; that
commit then finds no payload (1883) and the node commits nothing more. Such an edge can exist
only if a proposal comes out of `proposeLoop` after the node has started a further round:
954 then queues vertices of the round that is about to be proposed. `WeaksPointBack` shows that
it does not exist otherwise, and `PayloadsAreKept` that the payload is then safe.

## The proofs

`tlapm` checks all eight proof modules completely, for every value of the constants that
satisfies the assumptions named in the components: `Node` is finite, `3F < N`,
the special sets are sets of nodes (`HRBCAssumption`); every DAG has vertices with
`N-F` parents that are in it (`DecideAssumption`); nodes are the numbers
from 1 to `N`, weak edges are sequences of vertices, the edges of a vertex have an order (`CommitAssumption`); intervals, batch sizes and
capacities are positive (`ProposerAssumption`, and `ChannelsAssumption` where `Rounds` instantiates it); at most `F` nodes are absent and rounds are bounded
(`RoundsAssumption`); signatures are finitely many, and correct nodes put only checked ones into SYNC
and ECHO (`ValVerifyAssumption`); the other clients are not this one and report natural numbers (`BenchAssumption`).

| Theorem | States |
|---|---|
| `HRBCProofs!TypeCorrect` | `Spec => []TypeOK` |
| `HRBCProofs!CertificatesAreQuorums` | `Spec => []CertQuorum` |
| `HRBCProofs!WeakCertificatesAreSound` | `Spec => []WeakCertSound` |
| `HRBCProofs!ValIsRetained` | `Spec => []ValRetained` |
| `HRBCProofs!CertifiedIsAvailable` | `Spec => []CertAvailable` |
| `HRBCProofs!ImplementsBroadcast` | `Spec => CB!Init /\ OneBroadcast`, the refinement of `CertifiedBroadcast` |
| `DecideProofs!TypeCorrect` | `Spec => []TypeOK` |
| `DecideProofs!DecisionsAgree` | `Spec => []NearDecisionsAgree` |
| `DecideProofs!FastDecisionsAreFinal` | `Spec => []FastIsFinal` |
| `DecideProofs!ClosedRoundsAreDecided` | `Spec => []ClosedIsDecided` |
| `DecideProofs!TriggersAreComplete` | `Spec => LeaderTriggers` |
| `DecideProofs!ImplementsOutcome` | `Spec => O!Init /\ OneOutcome`, the refinement of `Outcome` |
| `CommitProofs!ImplementsDecide` | `CommitSpec => Spec` |
| `CommitProofs!CommitTypeCorrect` | `CommitSpec => []CommitTypeOK` |
| `CommitProofs!ExecutesOnce` | `WeaksPointDown` implies `CommitSpec => ExecutedOnce` |
| `CommitProofs!PayloadsAreKept` | `WeaksPointDown` implies `CommitSpec => []PayloadKept` |
| `CommitProofs!ReplicasAgree` | `WeaksPointDown` implies `CommitSpec => []ClearCommitsAgree` |
| `CommitProofs!ImplementsTotalOrder` | `WeaksPointDown` implies `CommitSpec => T!Init /\ OneLog`, the refinement of `TotalOrder` |
| `ProposerProofs!TypeCorrect` | `ProposerSpec => []ProposerTypeOK` |
| `ProposerProofs!ProposalsInOrder` | `ProposerSpec => []RoundsInOrder` |
| `ProposerProofs!Accounted` | `ProposerSpec => []Accounting` |
| `ProposerProofs!LagBeforeWait` | `ProposerSpec => []WaitNeedsLag` |
| `ProposerProofs!NoRequestLost` | `ProposerSpec => []NothingLost` |
| `RoundsProofs!TypeCorrect` | `RoundsSpec => []RoundsTypeOK` |
| `RoundsProofs!ImplementsProposer` | `RoundsSpec => RoundsOnlyRise`, the refinement of `Proposer` |
| `RoundsProofs!WeakEdgesPointBack` | `RoundsSpec => []WeaksPointBack` |
| `EdgesProofs!EdgesAreQuorums` | `RoundsSpec => []ConnectionsQuorum` |
| `EdgesProofs!OwnIsRemembered` | `RoundsSpec => []OwnNotForgotten` |
| `ValVerifyProofs!TypeCorrect` | `Spec => []TypeOK` |
| `ValVerifyProofs!RoomInChannels` | `Spec => []ChannelsHaveRoom` |
| `ValVerifyProofs!SignaturesCheckedOnce` | `Spec => []CheckedOnce` |
| `ValVerifyProofs!HandledAreChecked` | `Spec => []HandledIsChecked` |
| `BenchProofs!NodeIsProposer` | `BenchSpec => ProposerSpec` |
| `BenchProofs!CountsAreBounded` | `BenchSpec => []NeverOvercounts` |
| `BenchProofs!AloneCallsCount` | `BenchSpec => []AloneIsCounted` |
| `BenchProofs!LatenciesAreOwn` | `BenchSpec => []LatencyIndex` |

*HRBC.* None of the four properties is inductive. The invariant `IInv` says of each
record, at any point inside a handler (`Base`), that kept signatures are counted echoes,
that counted echoes were sent, that nothing is freed before `HRBCTerminated`, and
that a weak certificate precedes the certificate; between handlers (`Stage`)
also that a freed VAL means the vertex is in the DAG and the own ECHO out. One lemma
per operator carries `Base` through the handlers, one step per action lifts it to the
system. For `CertAvailable` the invariant adds that either all who echoed hold the
vertex, or `F+1` hold it: the node that echoes without holding it has counted `F+1`
echoes before. The same lemmas show of every handler what it leaves and on what ground it echoes (`Grow`, `Keeps`); with the
invariant before the step this is a step of `CertifiedBroadcast` (`HandleBroadcasts`).

*Decide.* `NearDecisionsAgree` speaks of two nodes; the invariant (`RecordInv`) speaks of one:
each near decision has its ground in the DAG of the whole system, which does not change.
`For1`: `N-F` vertices support the vertex, or `F+1` of its supporters are parents of
the leader two rounds up; `For0`: `N-F` reject it, or the leader has at most `F`
such parents. A node's part of the DAG can only have fewer edges, which suffices for
the fast path; for the coin path `Known` makes sure that it has all parents of the
leader. `Exclusive` shows by counting that no vertex has both grounds. The number of rounds is not bounded. What the
recursion of `coinPass` decides is near if the leader it has come to by then is the next but one:
there `Path` looks over one hop, in the round it should (`OneHop`), and that leader had its parents checked
on the way (`PlanSighted`, `coinPassSighted`). All other decisions of the recursion are in `byPath` (`FarDecided`); of these
nothing can be promised, by finding 1.

`ClosedIsDecided` and `LeaderTriggers` are about the recursion of `coinPass` and hold for every `MaxRound`.
`Before` looks up a plan that `CHOOSE` takes from the functions with the recursive law; that there is one
(`PlanExists`) and that it covers all open rounds before the leader (`PlanDecides`) are inductions on the round, which are done
without an induction principle: a set of numbers that is not empty has a least member (`LeastNat`), so a
counterexample would have a least round. The invariant (`SettledInv`) adds that `FirstRound` is odd and `SecondRound` even. For
`LeaderTriggers` three arrivals can complete a leader of round `l`: the `F+1`-st supporter, the leader or
a parent, the coin. Each calls `tryCoinPass` for `l` (`AddLeavesNothing`, `CoinLeavesNothing`), and a call with
everything there closes a round (`TriggerUses`).
The refinement of `Outcome` follows from `NearDecisionsAgree` and from decisions being final, near ones also as near ones (`NearKept`): a step
of one node either makes no near decision, a stutter, or is `Learn` for all that it makes.

*Commit.* Every step of `Commit` is a step of `Decide` or leaves its variables
unchanged, so the theorems about `Decide` hold of `CommitSpec`. For the rest, each step
of `tryCommit` is one of three moves (`Passes`, `Starts`, `Runs`), and every other step
`Waits`; the moves hide the walk and keep what matters of it: it executes only what has
not been executed, of rounds before that of the commit. `ExecutedOnce` needs to
know that `tryCommit` itself, which does not look, finds its vertex new. The invariant
(`OrderInv`) is that what has been executed is `Past`: of a round before that of the next
commit, or committed. `PositionsDiffer` and `RoundsGrow`, two facts about division by `N`,
show that the next position is not `Past`. Weak edges must lead to earlier rounds
(`WeaksPointDown`), which is what `RoundsProofs` shows of a node that proposes in its own round.

`ClearCommitsAgree` compares two nodes that walk through different copies of the DAG at different times. If no commit so far
has asked for the edges of a vertex that is not there (`gaps`), what a walk sees of the node's copy is what the whole system's DAG says, so that one execution is
a walk that depends on nothing but the vertex and what had been executed before (`Walks`, `Executes`): `Reach` is the least relation
closed under its steps, and since the loops visit in a fixed order (`FirstIsOne`, from the injective `Place`), the walk is a function
(`WalksIsFunction`) and ends in one set (`ExecutesOneWay`). The invariant is the
log of a node (`Log`): each commit that it is past and that has no gap either passed its vertex over or was such an execution, from
what the commit before had left, and an execution under way is on its walk. Two logs are then equal up to
the shorter one, as far as both are clear, by induction on the commit (`DoneAgrees`), and a walk under way cannot execute what the
other's finished walk has not (`ExecutesMore`). That the vertices of these commits are decided alike is `DecisionsAgree`. Nothing is
assumed of the order of arrival. The number of weak edges of a vertex is not bounded, so that the early return of `weakExc` (1961) is covered.

The refinement of `TotalOrder` is a statement about steps. `LogIn` takes an entry from the nodes that are past it and were clear, so
that with `ClearCommitsAgree` it is the batch of any of them (`LogIsBatch`). A step of `p` leaves all batches but that of its own commit
as they are (`BatchesStay`), since it marks with the number of the commit it is in what had no mark (`MovesGrow`), and nothing
is marked ahead of it (`Ahead`). What it marks fits into the log (`NewFits`): it is new to all entries that `p` is past,
it comes with the committed vertex, and where the entry exists `ClearCommitsAgree` after the step bounds it. A step that stays in its commit is then
`Execute` or a stutter (`StepExecutes`), one that ends it is `Commit` (`StepCommits`), both if `p` is clear after it, and so was before (`CleanWas`); if it is not,
the step is `Stray` (`StepStrays`), and the log is what it was.

*Proposer.* The blocks cut and the rounds announced but not yet cut are one pipeline (`Blocks`,
`Queue`): most steps move its parts from channel to channel, which leaves the two sequences as they
are, and the rest (`PipelineStep`) cut a block for the first round of the queue or add
rounds at its end. The invariant is that the rounds rise along the pipeline up to `currRound`, that those of the queue leave room
for the timer's round 1 before them, which `proposeflag` allows only before the first block, and that the
block numbers are contiguous. `RoundsInOrder` is part of it. `WaitNeedsLag` counts it: a node in `MutualWait` has both channels and
both goroutines full of rising rounds. For `NothingLost` every step is a `RequestStep`: a request
enters the channel, moves from channel to batch, or moves from the batch into the next block.
Each of these moves the places of a request by a function (`Relocated`), so that one
place stays one; `Placed` adds that a request not yet received has none. `Accounting` comes from both (`CountInv`): the pipeline tells which number
a block starts with, `Placed` how many requests the first blocks hold, and `reqNum` is never more than the batch stands for, whether
`Interval` divides `MaxBatchSize` or not.

*Rounds.* Every handler raises `currRound` to a given round or leaves it (`Raises`), which lifts
each step to one of `Proposer`, `StartRounds` with one or two rounds, or a stutter. For
`WeakEdgesPointBack` the invariant (`Back`) is that the queue of weak edges holds only vertices of
rounds up to the current one, of the current one only the own vertex, and own vertices only once
proposed. A node that proposes in its round has not proposed in it before, by `RoundsInOrder`, so that
its queue has earlier rounds only. `RoundsInOrder` is not proved again: `ProposerProofs` is
instantiated for the node (`PP`), and `RoundsAreProposed` takes its theorems over the refinement.

`ConnectionsQuorum` needs to know, at the proposal, what another handler saw much earlier. The
invariant (`Quorums`) says of every round in `tryProposeChan`, `proposeChan` and the two goroutines that
it has been started and that the DAG has `N-F` vertices of the round before (`Ready`). The DAG only grows
and `currRound` only rises (`ReadyGrows`), and the vertices of the DAG have certificates (`Certified`);
`WeakRoom` counts that strong and weak edges together stay within `N`. `OwnNotForgotten` needs
(`Remembered`) that an own vertex that is delivered was proposed, so that its delivery queued it,
and that `hasConn` has exactly the rounds of the own vertices with a strong edge.

*ValVerify.* `ChannelsHaveRoom` needs `Stages`: a signature is in one of `sigChan`, `checking` and `resChan`
at a time, or moving it on would add to their number. `CheckedOnce` needs that what is pending is marked.
For `HandledIsChecked` each VAL is before its first pass, running, or checked (`CInv`). While it runs, an
invalid signature that no other VAL carries is still with its goroutines, or the results have been left one
short of `sigNum` (`Wary`), so that the count is never complete. What the first pass leaves out it may leave out:
only correct signatures are `echoed` or `verifying` (`Clean`), and an invalid one in `verified` comes from
a VAL that has had its first pass (`Marked`).

*Bench.* What the client and the coordinator count are sums over sets, which `MapThenSumSet` computes by a fold: the
first part of `BenchProofs` shows, again with `LeastNat`, that the function `CHOOSE`n there exists and that the sum does not depend on
the order of the members (`SumsExist`, `AnyOrder`), and so how it changes with one summand (`SumUpdate`). For `NeverOvercounts` a
counter is compared with what the calls have stored in it so far (`Stored`) and this with what they were asked to
count (`Asked`); a call between its load and its store holds a value that was no larger than what was stored, and
what was stored only grows (`CallsInv`). A lost addition leaves the counter lower, and `Stop` reads values of different times,
both on the safe side. `AloneIsCounted` bounds the same counter from below: `AloneInv` says that the blocks of the calls that overlap no other are in
it, and also in every value that a call has loaded and not yet stored, so that no store takes them back. Neither rests on a
bound. For `LatencyIndex` the numbers of a block's transactions are counted along the pipeline of
`ProposerProofs`, which is `Accounting`: they start where those of the block before end, and `DivLemma` and `Floor` make of them the entries of
`startTime`, with the shift by one that an interval of 1 brings. `NothingLost` says that the requests of the blocks are distinct and were sent. All of this applies because `Bench` changes no variable of
Proposer in another way (`NodeIsProposer`).

The theorems of HRBC hold for every set `Byz` of nodes started with `-b 1`; the runs have none.

Every invariant and every safety property that a run checks is a theorem. Only model-checked are the liveness properties `Validity`,
`Totality`, `ValIsHandled` and `ReportComes`, because liveness under fairness is out of the prover's reach, and the four
violations, which are counterexamples. Where a definition is recursive the proofs use the law its function satisfies and a
least counterexample, never the induction theorems of the library that take an operator.

## What is not modelled

Cryptography, encoding, connections and logging; the counts of fast and coin path, and the figures
the coordinator only prints; the generated `message.pb.go`; deployment scripts. Equivocation is not a
behaviour of this program: a `-b 1` node withholds messages, it does not lie. Such a node also drops its
requests (310), so that its batches are empty; `Proposer` is about the other nodes.
Each module abstracts from the others where the text above says so: HRBC has one vertex,
Decide a DAG that grows in any order, Rounds a single node. That `msgChan` never fills
is assumed everywhere (1032).

## Plan

The modules came in the order HRBC, Decide, Commit; Proposer, Rounds, ValVerify, Bench; then the abstract
specifications, Outcome, TotalOrder and CertifiedBroadcast. What would come next:

1. A leads-to property for the commit of a decided prefix, with the wake-up that a late payload does not
   give (641, 1886).
2. The rounds of several nodes at once, over certified broadcast, for the liveness of the whole.
