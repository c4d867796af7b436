------------------------ MODULE MCAttendancePunches ------------------------
(* Small instances of AttendancePunches. *)
EXTENDS AttendancePunches

CONSTANTS u1, w1, nobody, q1
=============================================================================
