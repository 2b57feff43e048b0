--------------------------- MODULE MCHybridEngine ---------------------------
(* A small instance of HybridEngine for TLC. *)
EXTENDS HybridEngine

(* One row and five are padded, twelve are balanced. *)
MCBatches == {<<3>>, <<1, 3, 1, 1, 3>>, <<3, 3, 3, 1, 1, 2, 4, 1, 3, 1, 2, 4>>}
=============================================================================
