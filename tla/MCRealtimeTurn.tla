--------------------------- MODULE MCRealtimeTurn ---------------------------
(* RealtimeTurn on small instances. *)
EXTENDS RealtimeTurn, TLC

(* Turns are interchangeable: sound for the runs without liveness. *)
TurnSymmetry == Permutations(Turns)
=============================================================================
