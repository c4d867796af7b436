-------------------------- MODULE MCDispatchBilling --------------------------
(* Small instances of DispatchBilling. *)
EXTENDS DispatchBilling

CONSTANTS t1, m1, x1, r1, r2
=============================================================================
