---------------------------- MODULE MCCollector ----------------------------
(***************************************************************************)
(* An instance of Collector for TLC: cards are exchangeable.               *)
(***************************************************************************)
EXTENDS Collector, TLC

CardSymmetry == Permutations(Card)
=============================================================================
