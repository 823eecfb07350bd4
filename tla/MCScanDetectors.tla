-------------------------- MODULE MCScanDetectors --------------------------
(* Instances of ScanDetectors for TLC. *)
EXTENDS ScanDetectors

CONSTANTS s1, s2, r1, r2, c1, c2, c3
=============================================================================
