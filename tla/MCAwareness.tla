---------------------------- MODULE MCAwareness ----------------------------
(* One inspection of any kind, again and again: inspections share nothing. *)
(* Two dependencies, one of them required; two targets, which Haley and    *)
(* the dashboard read; and the listing, with a list of each outcome.       *)
EXTENDS Awareness

MCLists ==
  {{}, {"healthy"}, {"healthy", "unknown"}, {"healthy", "degraded"},
   {"degraded", "unhealthy"}}
=============================================================================
