------------------------------ MODULE MCBench ------------------------------
(* A bounded instance of Bench for TLC. *)
EXTENDS Bench

(***************************************************************************)
(* The node opens more than two rounds only while a single request has     *)
(* been sent and nothing is reported: enough for mainLoop and proposeLoop  *)
(* to fill the channels between them.  None of the actions under fairness  *)
(* starts a round.                                                         *)
(***************************************************************************)
Short == currRound <= 2 \/ (startTime <= 1 /\ Running = {})

MCBenchSpec == BenchInit /\ [][BenchNext /\ Short']_benchVars /\ BenchFairness
=============================================================================
