----------------------------- MODULE MCRecords -----------------------------
(***************************************************************************)
(* The records, and the map over its scans, in one run.                    *)
(***************************************************************************)
EXTENDS MCMapScans, Records

CONSTANTS s1, s2, s3, admin1, admin2

\* Spanning: every tree of three switches, and every way their agents speak
MCSwitches == {s1, s2, s3}

\* LoopDetection: a switch read as a probe, behind a branch that answers the
\* scalar and has no table; one read by sysObjectID with the rows one number
\* off; and one of no branch
MCFamilies == <<"f", "g">>
Model(object, own, shift, others) ==
    [object |-> object, own |-> own, shift |-> shift, others |-> others]
MCModels == {Model("g", "f", 0, "bare"), Model("f", "f", 1, "foreign"),
             Model("f", "neither", 0, "bare")}

\* Settings: a plain setting and a table of two alarm types, two
\* administrators; config.yaml has no settings, or bad values among them
MCWidth(k)  == IF k = "table" THEN 2 ELSE 1
MCInFile(k) == {<<>>} \cup IF k = "table" THEN {<<1, 2>>} ELSE {<<2>>}
MCEditors   == {admin1, admin2}

\* Notes: a device and a room's switch; CSV files of one or two lines
Line    == [mac : {"h", "bad"}, cells : SUBSET {"label"}]
MCFiles == UNION {[1..k -> Line] : k \in 1..2}

\* Layout: a switch, another below it, and a device behind one of them or gone
MCHangings == {[s |-> "nothing", t |-> "s", h |-> x] : x \in {"s", "t", "gone"}}

partVars == <<vars, recordVars>>

\* the parts a behaviour is not about begin in one state of theirs
MCInit ==
    /\ record \in {"map", "tree", "loops", "settings", "notes", "layout"}
    /\ IF record = "map" THEN Init
       ELSE Init /\ net = CHOOSE n \in Plain : TRUE
    /\ IF record = "tree" THEN SP!Init
       ELSE /\ tree = [b \in Switches |-> "off"] /\ verdict = SP!Unjudged
            /\ answer = [b \in Switches |-> CHOOSE a \in SP!Mute : TRUE]
    /\ LD!Init /\ (record # "loops" =>
                     /\ model = Model("g", "f", 0, "bare") /\ table = N
                     /\ truth = [on |-> TRUE, watched |-> 1..N, loops |-> {}])
    /\ ST!Init /\ (record # "settings" =>
                     \A k \in SettingKeys : file[k] = <<>> /\ stored[k] = <<>>)
    /\ NT!Init /\ (record # "notes" => \A n \in {"h", "p"} : shown[n] = "gone")
    /\ LY!Init /\ (record # "layout" => hangs["h"] = "s")

Scans == record = "map" /\ Next /\ UNCHANGED recordVars

MCNext == Scans \/ (RecordsNext /\ UNCHANGED vars)

MCSpec == MCInit /\ [][MCNext]_partVars

----------------------------------------------------------------------------
(* Properties *)

\* MapScans: rings are explained, nothing falls off the tree.
MapHangsTogether == RingsExplained /\ NothingFallsOff

\* MapScans: the cables drawn are direct, and stay drawn over the scans.
CablesAreDrawn == []DirectCables /\ CablesStay
=============================================================================
