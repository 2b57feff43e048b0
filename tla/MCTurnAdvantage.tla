--------------------------- MODULE MCTurnAdvantage ---------------------------
(* A batch of three rows in up to two groups for TLC; the first row has two  *)
(* tokens, the second of which may be padding.  100 stands for 1.0.          *)
EXTENDS TurnAdvantage, TLC

CONSTANTS r1, r2, r3, c1, d1, c2, c3, g1, g2

MCRows    == {r1, r2, r3}
MCCells   == {c1, d1, c2, c3}
MCRowOf   == c1 :> r1 @@ d1 :> r1 @@ c2 :> r2 @@ c3 :> r3
MCFirst   == {c1, c2, c3}
MCUids    == {g1, g2}
MCScores  == {-1, 0, 10}
MCGaps    == {-3, 0, 2}
MCExpm1   == [q \in -2..2 |-> CASE q = -2 -> -86 [] q = -1 -> -63 [] q = 0 -> 0
                                [] q = 1 -> 172 [] q = 2 -> 639]
MCLambdas == {10, 50}
MCNorms   == {"group", "none"}

BatchSymmetry == Permutations(MCUids)
=============================================================================
