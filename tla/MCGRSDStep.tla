----------------------------- MODULE MCGRSDStep -----------------------------
(* Small instances of GRSDStep for TLC. *)
EXTENDS GRSDStep

MCScores  == {0, 3}
MCScores3 == {0, 1, 3}
=============================================================================
