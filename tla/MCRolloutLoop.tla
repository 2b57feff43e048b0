---------------------------- MODULE MCRolloutLoop ----------------------------
(* Small instances of RolloutLoop for TLC. *)
EXTENDS RolloutLoop, TLC

CONSTANTS k1, k2

MCKinds == {k1, k2}
BothModes == BOOLEAN
Dynamic == {TRUE}
AllEnvs == {"search", "alfworld", "webshop"}
SearchOnly == {"search"}
KindSymmetry == Permutations(MCKinds)
=============================================================================
