--------------------------- MODULE MCPlatformState ---------------------------
(***************************************************************************)
(* Instances of PlatformState for TLC.  Calls that try to change one thing *)
(* at a time need two components, of which one is an AI, and one flag.     *)
(***************************************************************************)
EXTENDS PlatformState, TLC

CONSTANTS c1, c2, c3, c4, ai, service, f1, v1, v2

MCCall == {c1, c2, c3, c4}
MCComponent == {ai, service}
MCAI == {ai}
MCFlag == {f1}
MCVersion == {v1, v2}

Symmetry == Permutations(Call) \cup Permutations(Version)
=============================================================================
