----------------------------- MODULE MCAuditLog -----------------------------
(* Instances of AuditLog for TLC.                                          *)
EXTENDS AuditLog

CONSTANTS s1, s2, e1, e2, e3, e4

MCStore == {s1, s2}
MCEvent == {e1, e2, e3, e4}
MCMalformed == {e4}
=============================================================================
