-------------------------- MODULE MCOwnerBootstrap --------------------------
(***************************************************************************)
(* Instances of OwnerBootstrap for TLC: r1 and r2 load one input file, and *)
(* r3 another.                                                             *)
(***************************************************************************)
EXTENDS OwnerBootstrap, TLC

CONSTANTS r1, r2, r3

MCProc == {r1, r2, r3}
MCCeremonyOf == [p \in Proc |-> IF p = r3 THEN "second" ELSE "first"]
MCCeremony == {"first", "second"}

(* r1 and r2 are interchangeable.                                          *)
Symmetry == Permutations({r1, r2})
=============================================================================
