----------------------------- MODULE MCSupport -----------------------------
(* Support for TLC.                                                        *)
EXTENDS Support, TLC

\* Texts and lines are only compared, so TLC may take them for one another.
SupportSymmetry == Permutations(Text) \cup Permutations(Line)
=============================================================================
