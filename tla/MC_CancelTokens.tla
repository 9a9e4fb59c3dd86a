--------------------------- MODULE MC_CancelTokens ---------------------------
(* Instances of CancelTokens for TLC: three calls over a few ids. *)
EXTENDS CancelTokens

CONSTANTS c1, c2, c3, i1, i2, i3

ThreeCalls == {c1, c2, c3}
TwoIds == {i1, i2}
ThreeIds == {i1, i2, i3}

\* Nothing distinguishes one call from another, or one id from another.
CallsAndIdsAlike == Permutations(ThreeCalls) \cup Permutations(ThreeIds)
==============================================================================
