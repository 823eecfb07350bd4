------------------------------- MODULE Layout -------------------------------
(***************************************************************************)
(* The saved layout of the map (the layout table of moonlan/db.py and the  *)
(* requests of server.py that write it).  A row is where a node stands:    *)
(* pinned by a person, an offset from a pinned node (its anchor), or only  *)
(* where the page's physics left it.  Pages write rows, release them and   *)
(* clear them, each database call in a thread of its own; the purge        *)
(* forgets the rows that are old and whose node is gone, and the offsets   *)
(* of nodes that hang off another one by now; a start forgets what nobody  *)
(* placed.  Positions are left out: what matters is whose row is kept.     *)
(***************************************************************************)
EXTENDS FiniteSets

CONSTANTS
    Drawable,    \* the nodes of the map
    Pages,       \* requests that place or release nodes by hand, at once
    Trees        \* the maps: what each node hangs off, Root or Gone

Root == "nothing"      \* hangs off nothing
Gone == "gone"         \* not on the map

VARIABLES
    layout,      \* the table, by node
    hangs,       \* the map now
    page,        \* what a page's request has still to write
    purger,      \* what the purge has looked at
    pins         \* history: the nodes people want pinned

layoutVars == <<layout, hangs, page, purger, pins>>

NoAnchor == "no anchor"
NoRow == [pinned |-> FALSE, anchor |-> "no row", old |-> FALSE]
Row(pinned, anchor) == [pinned |-> pinned, anchor |-> anchor, old |-> FALSE]

\* what is assumed of the constants
LayoutAssumption ==
    /\ IsFiniteSet(Drawable)
    /\ {Root, Gone, NoAnchor, NoRow.anchor} \cap Drawable = {}
    /\ Trees \subseteq [Drawable -> Drawable \cup {Root, Gone}]

Placed(n) == layout[n] # NoRow
Pinned(n) == layout[n].pinned
IsOffset(n) == layout[n].anchor \in Drawable

Done  == [anchor |-> NoAnchor, around |-> {}]
Rests == [step |-> "rests", seen |-> {}]
OnMap == {n \in Drawable : hangs[n] # Gone}

Init ==
    /\ layout = [n \in Drawable |-> NoRow]
    /\ hangs \in Trees
    /\ page = [p \in Pages |-> Done]
    /\ purger = Rests
    /\ pins = {}

\* rows of these nodes and the offsets measured from them
Without(ns) == [n \in Drawable |-> IF n \in ns \/ layout[n].anchor \in ns
                                   THEN NoRow ELSE layout[n]]

----------------------------------------------------------------------------
(* Whole pictures *)

\* mutant: a full save unpins what it does not say is pinned
KeptNot(n, said) == said = "yes"
\* a node already pinned stays pinned unless the caller says otherwise
Kept(n, said) == said = "yes" \/ (said = "same" /\ Pinned(n))

SaveAll ==
    /\ \E ns \in SUBSET Drawable \ {{}}, said \in {"yes", "no", "same"} :
          /\ layout' = [n \in Drawable |->
                IF n \in ns THEN Row(Kept(n, said), NoAnchor) ELSE layout[n]]
          /\ pins' = CASE said = "yes" -> pins \cup ns
                       [] said = "no" -> pins \ ns
                       [] said = "same" -> pins
    /\ UNCHANGED <<hangs, page, purger>>

\* mutant: what the page drew is written over what is there
NewAny(ns) == ns
\* add_new_positions: only nodes that have no row, decided in the transaction
New(ns) == {n \in ns : ~Placed(n)}

SaveNew ==
    /\ \E ns \in SUBSET Drawable \ {{}} : \E pinned \in BOOLEAN :
          /\ layout' = [n \in Drawable |->
                IF n \in New(ns) THEN Row(pinned, NoAnchor) ELSE layout[n]]
          /\ pins' = IF pinned THEN pins \cup {n \in ns : ~Placed(n)}
                     ELSE pins \ {n \in ns : ~Placed(n)}
    /\ UNCHANGED <<hangs, page, purger>>

----------------------------------------------------------------------------
(* Placed and released by hand *)

\* save_layout, for a node a hand has put somewhere; then the nodes around it
\* are told, in a transaction of their own
Places(p) ==
    /\ page[p] = Done
    /\ \E n \in Drawable : \E around \in SUBSET (Drawable \ {n}) :
          /\ layout' = [layout EXCEPT ![n] = Row(TRUE, NoAnchor)]
          /\ page' = [page EXCEPT ![p] = [anchor |-> n, around |-> around]]
          /\ pins' = pins \cup {n}
    /\ UNCHANGED <<hangs, purger>>

\* forget_positions, and forget_node_position of an older page
Releases ==
    /\ \E ns \in SUBSET Drawable \ {{}} :
          layout' = Without(ns) /\ pins' = pins \ ns
    /\ UNCHANGED <<hangs, page, purger>>

\* mutant: a node that is itself pinned becomes an offset too
AroundAll(n, a) == layout[a].pinned
\* set_neighbours: nothing for an anchor that is not pinned; a pin stays a pin
Around(n, a) == layout[a].pinned /\ ~layout[n].pinned

\* the whole set replaces what was recorded around the anchor
Neighbours(p) ==
    /\ page[p] # Done
    /\ \E a \in {page[p].anchor} :
          layout' = [n \in Drawable |->
             IF n \in page[p].around /\ Around(n, a) THEN Row(FALSE, a)
             ELSE IF Pinned(a) /\ layout[n].anchor = a /\ ~Pinned(n) THEN NoRow
             ELSE layout[n]]
    /\ page' = [page EXCEPT ![p] = Done]
    /\ UNCHANGED <<hangs, purger, pins>>

Clear ==
    /\ layout' = [n \in Drawable |-> NoRow] /\ pins' = {}
    /\ UNCHANGED <<hangs, page, purger>>

----------------------------------------------------------------------------
(* Housekeeping *)

\* purge_layout: the nodes that are on the map are looked up, then the
\* transaction runs
PurgeLooks ==
    /\ purger = Rests
    /\ purger' = [step |-> "old", seen |-> OnMap]
    /\ UNCHANGED <<layout, hangs, page, pins>>

\* mutant: age alone decides
OldAnyway(n) == layout[n].old
\* old and gone
OldAndGone(n) == layout[n].old /\ n \notin purger.seen

PurgeOld ==
    /\ purger.step = "old"
    /\ layout' = [n \in Drawable |-> IF OldAndGone(n) THEN NoRow ELSE layout[n]]
    /\ pins' = {n \in pins : ~(layout[n].old /\ n \notin purger.seen)}
    /\ purger' = [step |-> "misplaced", seen |-> {}]
    /\ UNCHANGED <<hangs, page>>

\* hangs off the anchor it was measured from, or off nothing
AtAnchor(n) == hangs[n] \in {Root, Gone, layout[n].anchor}

\* drop_misplaced_offsets
DropMisplaced ==
    /\ purger.step = "misplaced"
    /\ layout' = [n \in Drawable |->
          IF IsOffset(n) /\ ~(Pinned(layout[n].anchor) /\ AtAnchor(n))
          THEN NoRow ELSE layout[n]]
    /\ purger' = Rests
    /\ UNCHANGED <<hangs, page, pins>>

\* a stop, and drop_unpinned_positions at the start after it
Restart ==
    /\ layout' = [n \in Drawable |-> IF Pinned(n) \/ IsOffset(n)
                                     THEN layout[n] ELSE NoRow]
    /\ page' = [p \in Pages |-> Done] /\ purger' = Rests
    /\ UNCHANGED <<hangs, pins>>

\* a row nobody wrote for layout_keep_days
Ages ==
    /\ \E n \in Drawable : Placed(n) /\ layout' = [layout EXCEPT ![n].old = TRUE]
    /\ UNCHANGED <<hangs, page, purger, pins>>

MapChanges ==
    /\ hangs' \in Trees /\ UNCHANGED <<layout, page, purger, pins>>

Next == \/ SaveAll \/ SaveNew \/ Releases \/ Clear
        \/ \E p \in Pages : Places(p) \/ Neighbours(p)
        \/ PurgeLooks \/ PurgeOld \/ DropMisplaced
        \/ Restart \/ Ages \/ MapChanges

Spec == Init /\ [][Next]_layoutVars

----------------------------------------------------------------------------
(* Properties *)

TypeOK ==
    /\ layout \in [Drawable -> [pinned : BOOLEAN, old : BOOLEAN,
                                anchor : Drawable \cup {NoAnchor}] \cup {NoRow}]
    /\ hangs \in Trees /\ pins \subseteq Drawable

\* What a person pinned is pinned until a person says otherwise, whatever
\* older pages save, the neighbours of other nodes record and the housekeeping
\* forgets; and what is forgotten was old, and off the map when the purge
\* looked.
PinsStand == \A n \in pins : Pinned(n)
=============================================================================
