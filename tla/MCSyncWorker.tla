--------------------------- MODULE MCSyncWorker ---------------------------
(* Small instances of SyncWorker. *)
EXTENDS SyncWorker, TLC

CONSTANTS w1, w2, p1, q1, q2, c1, c2

(* Tickets of the gate differ in nothing but their names. *)
TicketSymmetry == Permutations(WebTickets)
=============================================================================
