--------------------------- MODULE MCBankPayments ---------------------------
(* Small instances of BankPayments. *)
EXTENDS BankPayments, TLC

CONSTANTS i1, i2, b1, q1, q2, u1, u2, u3, a1, a2

OfOne == (i1 :> 1) @@ (i2 :> 1)
Accounts == (i1 :> a1) @@ (i2 :> a2)

(* Requests of one server are interchangeable. *)
BankSymmetry == Permutations(Requests)
=============================================================================
