-------------------------- MODULE MCOwnerOperations --------------------------
(***************************************************************************)
(* One request of any form: requests share nothing but the session, which  *)
(* they do not change.  A session may start before its time, end within it,*)
(* or be one that does not authenticate an Owner.                          *)
(***************************************************************************)
EXTENDS OwnerOperations

CONSTANT r1

MCRequest == {r1}

Of(role, multiFactor) ==
  [role |-> role, multiFactor |-> multiFactor, capable |-> FALSE,
   reauthenticatedAt |-> Never]
From(subject, authenticatedAt, expiresAt) ==
  [status |-> "active", subject |-> subject, authenticatedAt |-> authenticatedAt,
   expiresAt |-> expiresAt]

MCSessions ==
  {From(Of("owner", TRUE), 0, 2), From(Of("owner", TRUE), 1, 4),
   From(Of("owner", FALSE), 0, 4), From(Of("operational-administrator", TRUE), 0, 4)}
=============================================================================
