-------------------------- MODULE MCPingDetectors --------------------------
(* Instances of PingDetectors for TLC. *)
EXTENDS PingDetectors

CONSTANTS h1, h2, p1, p2
=============================================================================
