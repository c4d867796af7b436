---------------------------- MODULE MCPoInbound ----------------------------
(* Small instances of PoInbound. *)
EXTENDS PoInbound, TLC

CONSTANTS t1, t2, t3, r1, r2

(* Pushes run in interchangeable slots; trucks differ in nothing but their *)
(* names.                                                                  *)
PushSymmetry == Permutations(Runs) \union Permutations(Trucks)
=============================================================================
