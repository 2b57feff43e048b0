--------------------------- MODULE MCSGLangRollout ---------------------------
(* Small instances of SGLangRollout for TLC. *)
EXTENDS SGLangRollout

MCTools      == {Code, Search}
MCCallLists  == {<<Code>>, <<Search, Code>>}
MCLens       == {3}
MCTrain      == {"train"}
MCValidate   == {"validate"}
=============================================================================
