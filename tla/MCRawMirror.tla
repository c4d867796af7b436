----------------------------- MODULE MCRawMirror -----------------------------
(* Small instances of RawMirror. *)
EXTENDS RawMirror

CONSTANTS t1, t2
=============================================================================
