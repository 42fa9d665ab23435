---------------------------- MODULE MC_LabSandbox ----------------------------
(* LabSandbox on a small instance. *)
EXTENDS LabSandbox

CONSTANTS u1, r1, r2, s1
=============================================================================
