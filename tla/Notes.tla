------------------------------- MODULE Notes -------------------------------
(***************************************************************************)
(* Names and notes on the nodes of the map (moonlan/notes.py and the notes *)
(* table).  A note outlives its node: after a scan that some switch        *)
(* answered, the scans without the node are counted, and a note whose node *)
(* is gone is offered to be moved.  Writing, deleting, moving and a CSV    *)
(* import are requests of the API; each reads what is there, waits, and    *)
(* writes, while others do the same.                                       *)
(*                                                                         *)
(* A place is a switch without SNMP: when its devices are all off, a group *)
(* of offline devices stands in for it on the map.  What a note says is    *)
(* the set of its fields that are filled in.                               *)
(***************************************************************************)
EXTENDS Naturals, Sequences, FiniteSets

CONSTANTS
    Devices,       \* nodes with a MAC: an import can name them
    Places,        \* pseudo switches
    MissingScans,  \* MISSING_SCANS
    Editors,       \* requests to write or move that can be under way at once
    Importers,     \* imports that can be under way at once
    Fields,        \* what a note has: a label, a text
    Files          \* the CSV files: sequences of lines [mac, cells]

\* what is assumed of the constants
NotesAssumption ==
    /\ Devices \cap Places = {} /\ IsFiniteSet(Devices \cup Places)
    /\ Editors \cap Importers = {}
    /\ MissingScans \in Nat \ {0}
    /\ \A f \in Files : \A i \in DOMAIN f : f[i].cells \subseteq Fields

VARIABLES
    drawn,       \* "drawn", "stood in" (a group, for a place) or "gone"
    notes,       \* the table, by node
    request,     \* the request each handler is in
    absent       \* history: answered scans in a row that left the node out

notesVars == <<drawn, notes, request, absent>>

Nodes  == Devices \cup Places
Requests == Editors \cup Importers
None   == [fields |-> {}]
Rows   == [fields : SUBSET Fields \ {{}}, byHand : BOOLEAN,
           scans : 0..MissingScans, seen : BOOLEAN]
Idle   == [does |-> "nothing"]

Has(n)  == notes[n] # None
Hand(n) == Has(n) /\ notes[n].byHand

\* _noted_node_ids: a group that stands in keeps its place present
OnMap(n) == drawn[n] # "gone"

Missing(n) == Has(n) /\ notes[n].seen /\ notes[n].scans >= MissingScans

Init ==
    /\ drawn \in [Nodes -> {"drawn", "gone"}]
    /\ notes = [n \in Nodes |-> None]
    /\ request = [q \in Requests |-> Idle]
    /\ absent = [n \in Nodes |-> 0]

----------------------------------------------------------------------------
(* Scans *)

More(k) == IF k < MissingScans THEN k + 1 ELSE k

\* mutant: a stand-in does not keep its place present
ReconciledDrawn(r, n, map) ==
    IF r = None THEN None
    ELSE IF map[n] = "drawn" THEN [r EXCEPT !.scans = 0, !.seen = TRUE]
    ELSE [r EXCEPT !.scans = More(r.scans)]

\* reconcile_notes (counts beyond MissingScans tell nothing more)
Reconciled(r, n, map) ==
    IF r = None THEN None
    ELSE IF map[n] # "gone" THEN [r EXCEPT !.scans = 0, !.seen = TRUE]
    ELSE [r EXCEPT !.scans = More(r.scans)]

\* the map a scan leaves, as the topology drew it
Maps == {m \in [Nodes -> {"drawn", "stood in", "gone"}] :
            \A d \in Devices : m[d] # "stood in"}

ScanAnswered ==
    /\ drawn' \in Maps
    /\ notes' = [n \in Nodes |-> Reconciled(notes[n], n, drawn')]
    /\ absent' = [n \in Nodes |-> IF drawn'[n] = "gone" THEN More(absent[n]) ELSE 0]
    /\ UNCHANGED request

\* a scan that no switch answered says nothing about where the nodes are
ScanSilent ==
    /\ drawn' \in Maps
    /\ UNCHANGED <<notes, request, absent>>

----------------------------------------------------------------------------
(* A person writes, deletes and moves *)

\* set_note: nothing to keep deletes; a new row counts from now; a row that is
\* there keeps its count
Written(r, fields, byHand, seen) ==
    IF fields = {} THEN None
    ELSE IF r = None
         THEN [fields |-> fields, byHand |-> byHand, scans |-> 0, seen |-> seen]
    ELSE [r EXCEPT !.fields = fields, !.byHand = byHand]

Begins(q, what) == request[q] = Idle /\ request' = [request EXCEPT ![q] = what]
Ends(q) == request' = [request EXCEPT ![q] = Idle]

\* the note is read before it is written
PutReads(q) ==
    \E n \in Nodes, fs \in SUBSET Fields :
       /\ Begins(q, [does |-> "put", at |-> n, fields |-> fs, had |-> Has(n)])
       /\ UNCHANGED <<drawn, notes, absent>>

\* a note is written on a node the map has, or over one that was there
PutWrites(q) ==
    /\ request[q].does = "put"
    /\ \E r \in {request[q]} :
          notes' = IF r.had \/ OnMap(r.at)
                   THEN [notes EXCEPT ![r.at] = Written(@, r.fields, TRUE, TRUE)]
                   ELSE notes
    /\ Ends(q) /\ UNCHANGED <<drawn, absent>>

Delete ==
    /\ \E n \in Nodes : Has(n) /\ notes' = [notes EXCEPT ![n] = None]
    /\ UNCHANGED <<drawn, request, absent>>

\* the target is on the map, and has no note unless it is to be replaced
MoveReads(q) ==
    \E from, to \in Nodes, replace \in BOOLEAN :
       /\ from # to /\ Has(from) /\ OnMap(to) /\ (replace \/ ~Has(to))
       /\ Begins(q, [does |-> "move", at |-> to, from |-> from])
       /\ UNCHANGED <<drawn, notes, absent>>

\* mutant: the count of the old place comes along
MovedAsIs(r) == r
\* move_note: the target counts as seen
Moved(r) == [r EXCEPT !.scans = 0, !.seen = TRUE]

MoveWrites(q) ==
    /\ request[q].does = "move"
    /\ \E r \in {request[q]} :
          notes' = IF Has(r.from)
                   THEN [notes EXCEPT ![r.at] = Moved(notes[r.from]), ![r.from] = None]
                   ELSE notes
    /\ Ends(q) /\ UNCHANGED <<drawn, absent>>

----------------------------------------------------------------------------
(* An import *)

\* parse_csv: a line without a MAC or without a cell is an error; of two with
\* one MAC the last one counts
ImportRows(file) ==
    [d \in {file[i].mac : i \in {j \in DOMAIN file :
                file[j].mac \in Devices /\ file[j].cells # {}}} |->
        LET good == {j \in DOMAIN file : file[j].mac = d /\ file[j].cells # {}}
        IN file[CHOOSE j \in good : \A k \in good : k <= j].cells]

Imports == {ImportRows(f) : f \in Files}

\* mutant: a note somebody wrote by hand is written over too
PlannedAll(rows) == [d \in DOMAIN rows |-> [fields |-> rows[d] \cup notes[d].fields,
                                            found |-> OnMap(d)]]
\* plan_import: an empty cell leaves what is there
Planned(rows) ==
    [d \in {e \in DOMAIN rows : ~Hand(e)} |->
        [fields |-> rows[d] \cup notes[d].fields, found |-> OnMap(d)]]

ImportReads(q) ==
    \E rows \in Imports :
       /\ Begins(q, [does |-> "import", plan |-> Planned(rows),
                     byHand |-> {n \in Nodes : Hand(n)}])
       /\ UNCHANGED <<drawn, notes, absent>>

\* one row at a time, each in a thread of its own
ImportWrites(q) ==
    /\ request[q].does = "import"
    /\ \E p \in {request[q].plan} : \E d \in DOMAIN p :
          /\ notes' = [notes EXCEPT ![d] = Written(@, p[d].fields, FALSE, p[d].found)]
          /\ request' = [request EXCEPT ![q].plan = [e \in DOMAIN p \ {d} |-> p[e]]]
    /\ UNCHANGED <<drawn, absent>>

ImportEnds(q) ==
    /\ request[q].does = "import" /\ request[q].plan = <<>>
    /\ Ends(q) /\ UNCHANGED <<drawn, notes, absent>>

Next ==
    \/ ScanAnswered \/ ScanSilent \/ Delete
    \/ \E q \in Editors :
          \/ PutReads(q) \/ PutWrites(q) \/ MoveReads(q) \/ MoveWrites(q)
    \/ \E q \in Importers :
          \/ ImportReads(q) \/ ImportWrites(q) \/ ImportEnds(q)

Spec == Init /\ [][Next]_notesVars

----------------------------------------------------------------------------
(* Properties *)

TypeOK ==
    /\ drawn \in Maps
    /\ notes \in [Nodes -> Rows \cup {None}]
    /\ absent \in [Nodes -> 0..MissingScans]

\* A note is called missing only when its node has been left out of that many
\* scans in a row, which some switch answered: whatever requests wrote, moved
\* or replaced it meanwhile, and though the devices of a room are off (the
\* group stands in for its place).
MissingIsTrue == \A n \in Nodes : Missing(n) => absent[n] >= MissingScans

Moving(n) == \E q \in Requests : request[q].does = "move" /\ request[q].at = n
Importing(n) == \E q \in Requests :
    /\ request[q].does = "import" /\ n \in DOMAIN request[q].plan
    /\ n \notin request[q].byHand

\* A note somebody wrote by hand becomes an imported one only when somebody
\* moves such a note over it, or by an import that read the notes before it
\* was written.
HandKept ==
    [][\A n \in Nodes :
          Hand(n) /\ notes'[n] # None /\ ~notes'[n].byHand => Moving(n) \/ Importing(n)
      ]_notesVars
=============================================================================
