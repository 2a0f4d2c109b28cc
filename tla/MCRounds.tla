----------------------------- MODULE MCRounds -----------------------------
(* Instances of Rounds for TLC. *)
EXTENDS Rounds

\* The vertices whose messages come one by one: an own one and another.
FirstTwo == {<<1, 1>>, <<1, 2>>}
=============================================================================
