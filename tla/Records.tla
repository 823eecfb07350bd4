------------------------------ MODULE Records ------------------------------
(***************************************************************************)
(* Five modules side by side: the spanning-tree verdict, a switch's own    *)
(* loop detection, the settings, the notes and the layout.  `record' says  *)
(* which of them a behaviour is about; the others stay as they began, for  *)
(* they share no state that the properties are about.                      *)
(***************************************************************************)
EXTENDS Naturals, Sequences, FiniteSets

CONSTANTS
    Switches, Outside,                          \* Spanning
    Families, N, Models,                        \* LoopDetection
    SettingKeys, Width(_), InFile(_), Editors,  \* Settings
    Devices, Rooms, MissingScans, Writers, Importers,
    Fields, Files,                              \* Notes
    Drawable, Pages, Hangings                   \* Layout

VARIABLES
    record,
    tree, answer, verdict,
    model, truth, table, reading, alarmed, off,
    file, stored, live, change, sure, lastReset,
    shown, notes, request, absent,
    layout, hangs, page, purger, pins

SP == INSTANCE Spanning WITH Bridges <- Switches
LD == INSTANCE LoopDetection WITH data <- reading
ST == INSTANCE Settings
NT == INSTANCE Notes WITH Places <- Rooms, Editors <- Writers, drawn <- shown
LY == INSTANCE Layout WITH Trees <- Hangings

ASSUME RecordsAssumption ==
    /\ SP!SpanningAssumption /\ LD!LoopAssumption /\ ST!SettingsAssumption
    /\ NT!NotesAssumption /\ LY!LayoutAssumption

treeVars    == <<tree, answer, verdict>>
loopVars    == <<model, truth, table, reading, alarmed, off>>
settingVars == <<file, stored, live, change, sure, lastReset>>
noteVars    == <<shown, notes, request, absent>>
placeVars   == <<layout, hangs, page, purger, pins>>
recordVars  == <<record, treeVars, loopVars, settingVars, noteVars, placeVars>>

RecordsInit ==
    /\ record \in {"tree", "loops", "settings", "notes", "layout"}
    /\ SP!Init /\ LD!Init /\ ST!Init /\ NT!Init /\ LY!Init

OnlyRecord(p) ==
    /\ record = p /\ record' = record
    /\ p # "tree" => UNCHANGED treeVars
    /\ p # "loops" => UNCHANGED loopVars
    /\ p # "settings" => UNCHANGED settingVars
    /\ p # "notes" => UNCHANGED noteVars
    /\ p # "layout" => UNCHANGED placeVars

Judges    == OnlyRecord("tree") /\ SP!Next
Detects   == OnlyRecord("loops") /\ LD!Next
Sets      == OnlyRecord("settings") /\ ST!Next
Annotates == OnlyRecord("notes") /\ NT!Next
LaysOut   == OnlyRecord("layout") /\ LY!Next

RecordsNext == Judges \/ Detects \/ Sets \/ Annotates \/ LaysOut

RecordsSpec == RecordsInit /\ [][RecordsNext]_recordVars

----------------------------------------------------------------------------
(* Properties *)

\* Spanning: the verdict on the network's trees.
VerdictIsTrue == SP!VerdictIsTrue

\* LoopDetection: what is said and alarmed of a switch's loops is true of it.
LoopsAreTold == LD!LoopsAreTold

\* Settings: what is live is what the next start loads.
LiveIsKept == ST!LiveIsKept

\* Notes: a note is missing only after its node was, and what a person wrote
\* is not imported over.
NotesAreKept == []NT!MissingIsTrue /\ NT!HandKept

\* Layout: what a person pinned stays pinned.
PinsStand == LY!PinsStand
=============================================================================
