--------------------------- MODULE MCRecoveryCodes ---------------------------
(* Instances of RecoveryCodes for TLC.                                     *)
EXTENDS RecoveryCodes, TLC

CONSTANTS c1, c2, c3, c4, one, two

MCFour == {c1, c2, c3, c4}
MCThree == {c1, c2, c3}
MCSlot == {one, two}

Symmetry == Permutations(Call) \cup Permutations(Slot)
=============================================================================
