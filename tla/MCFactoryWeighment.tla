------------------------- MODULE MCFactoryWeighment -------------------------
(* Small instances of FactoryWeighment. *)
EXTENDS FactoryWeighment, TLC

CONSTANTS w1, w2, p1, q1, q2, c1, c2

(* Requests of one server are interchangeable. *)
RequestSymmetry == Permutations(Requests)

(* The ticket of a PC has the table to itself here, and one number; run     *)
(* sync puts it beside one of the gate.                                     *)
PcAlone ==
    \A p \in PcTickets : Present(p) =>
        rows[p].ticket = 1 /\ \A t \in Tickets \ PcTickets : ~Present(t)
=============================================================================
