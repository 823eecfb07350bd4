--------------------------- MODULE MCAlarmEngine ---------------------------
(* Instances of AlarmEngine for TLC. *)
EXTENDS AlarmEngine, TLC

CONSTANTS k1, k2, k3, ping, counters, op, boot

\* one alarm the ping task owns and the janitor may clear
OneOwned   == (k1 :> {ping})
OneJanitor == (k1 :> {counters})
OneNoJanitor == (k1 :> {})

\* k1 as above, k2 a new_mac notice, k3 a subject of an old version
ThreeOwned   == (k1 :> {ping} @@ k2 :> {ping} @@ k3 :> {})
ThreeJanitor == (k1 :> {counters} @@ k2 :> {} @@ k3 :> {})
=============================================================================
