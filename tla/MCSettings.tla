----------------------------- MODULE MCSettings -----------------------------
(* An instance of Settings for TLC: a plain setting and a table of two     *)
(* alarm types; config.yaml has no settings, or a valid and an unknown     *)
(* value of each.                                                          *)
EXTENDS Settings

MCWidth(k)  == IF k = "table" THEN 2 ELSE 1
MCInFile(k) == {None} \cup IF k = "table" THEN {<<1, Bad>>} ELSE {<<1>>, <<Bad>>}
=============================================================================
