---------------------------- MODULE MCScaleRules ----------------------------
(* Small instances of ScaleRules. *)
EXTENDS ScaleRules, TLC

CONSTANTS a, b, c, q1

TicketSymmetry == Permutations(Tickets \ Outbound)
=============================================================================
