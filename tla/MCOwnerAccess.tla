---------------------------- MODULE MCOwnerAccess ----------------------------
(***************************************************************************)
(* Three runs of the commands, one acceptable password of two, and a clock *)
(* that reaches the end of a window of logins.                             *)
(***************************************************************************)
EXTENDS OwnerAccess, TLC

CONSTANTS c1, c2, c3, good, weak

MCCall == {c1, c2, c3}
MCPassword == {good, weak}
MCRefused == {weak}
MCFaults == {"io", "crash"}
MCSymmetry == Permutations(MCCall)
=============================================================================
