--------------------------- MODULE MCKernelGateway ---------------------------
(* Instances of KernelGateway for TLC.                                     *)
EXTENDS KernelGateway

CONSTANTS r1, r2, flags, registry

MCTwo == {r1, r2}
MCPort == {flags, registry}
=============================================================================
