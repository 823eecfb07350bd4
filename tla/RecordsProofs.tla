---------------------------- MODULE RecordsProofs ----------------------------
(***************************************************************************)
(* The safety of the parts that Records puts side by side, and of the map,  *)
(* for any number of requests, nodes, walks, notes, saves, switches and    *)
(* devices: first each part by itself, then the composition.               *)
(***************************************************************************)
EXTENDS Records, MapScans, FiniteSetTheorems, FunctionTheorems,
        WellFoundedInduction, TLAPS

-----------------------------------------------------------------------------
(* Layout *)

LayoutRows == [pinned : BOOLEAN, old : BOOLEAN,
               anchor : Drawable \cup {LY!NoAnchor}] \cup {LY!NoRow}

\* A row that is pinned is measured from nothing: no anchor takes it along.
PinnedAlone == \A n \in Drawable : layout[n].pinned => layout[n].anchor = LY!NoAnchor

LayoutInv == LY!TypeOK /\ PinnedAlone /\ LY!PinsStand

\* The rows a step writes are rows, and a pinned row is written with no anchor.
Writes(new) == /\ new \in [Drawable -> LayoutRows]
               /\ \A n \in Drawable : new[n].pinned => new[n].anchor = LY!NoAnchor

LEMMA LayoutParts ==
    ASSUME LayoutInv, LY!LayoutAssumption
    PROVE  /\ layout \in [Drawable -> LayoutRows] /\ hangs \in Hangings
           /\ pins \subseteq Drawable
           /\ \A n \in Drawable : layout[n].pinned => layout[n].anchor = LY!NoAnchor
           /\ \A n \in pins : layout[n].pinned
           /\ LY!NoAnchor \notin Drawable
<1>1. LY!NoAnchor \notin Drawable
  BY DEF LY!LayoutAssumption
<1> QED
  BY <1>1 DEF LayoutInv, LY!TypeOK, PinnedAlone, LY!PinsStand, LY!Pinned, LayoutRows

LEMMA LayoutWhole ==
    ASSUME Writes(layout'), hangs' \in Hangings, pins' \subseteq Drawable,
           \A n \in pins' : layout'[n].pinned
    PROVE  LayoutInv'
  BY DEF Writes, LayoutInv, LY!TypeOK, PinnedAlone, LY!PinsStand, LY!Pinned,
         LayoutRows

LEMMA LayoutShapes ==
    /\ LY!NoRow \in LayoutRows /\ ~LY!NoRow.pinned
    /\ \A b \in BOOLEAN : /\ LY!Row(b, LY!NoAnchor) \in LayoutRows
                          /\ LY!Row(b, LY!NoAnchor).pinned = b
                          /\ LY!Row(b, LY!NoAnchor).anchor = LY!NoAnchor
    /\ \A a \in Drawable : /\ LY!Row(FALSE, a) \in LayoutRows
                           /\ ~LY!Row(FALSE, a).pinned
  BY DEF LayoutRows, LY!NoRow, LY!Row

\* What one row keeps of another.
LEMMA Kept ==
    ASSUME NEW old \in [Drawable -> LayoutRows], NEW new \in [Drawable -> LayoutRows],
           \A n \in Drawable : old[n].pinned => old[n].anchor = LY!NoAnchor,
           \A n \in Drawable : \/ new[n] = old[n] \/ ~new[n].pinned
                               \/ new[n].anchor = LY!NoAnchor
    PROVE  Writes(new)
  BY DEF Writes

LEMMA LayoutInit == LY!Init => LayoutInv
<1>1. ASSUME LY!Init PROVE LayoutInv
  <2>1. layout = [n \in Drawable |-> LY!NoRow] /\ hangs \in Hangings /\ pins = {}
    BY <1>1 DEF LY!Init
  <2>2. layout \in [Drawable -> LayoutRows] /\ \A n \in Drawable : ~layout[n].pinned
    BY <2>1, LayoutShapes
  <2> QED
    BY <2>1, <2>2 DEF LayoutInv, LY!TypeOK, PinnedAlone, LY!PinsStand, LY!Pinned,
                      LayoutRows
<1> QED
  BY <1>1

-----------------------------------------------------------------------------
(* Each write of the layout *)

LEMMA SaveAllKeeps ==
    ASSUME LayoutInv, LY!LayoutAssumption, LY!SaveAll PROVE LayoutInv'
<1>1. PICK ns \in SUBSET Drawable, said \in {"yes", "no", "same"} :
         /\ layout' = [n \in Drawable |->
               IF n \in ns THEN LY!Row(LY!Kept(n, said), LY!NoAnchor) ELSE layout[n]]
         /\ pins' = CASE said = "yes" -> pins \cup ns
                      [] said = "no" -> pins \ ns
                      [] said = "same" -> pins
  BY DEF LY!SaveAll
<1>2. /\ layout \in [Drawable -> LayoutRows] /\ hangs' = hangs /\ hangs \in Hangings
      /\ pins \subseteq Drawable
      /\ \A n \in Drawable : layout[n].pinned => layout[n].anchor = LY!NoAnchor
      /\ \A n \in pins : layout[n].pinned
  BY LayoutParts DEF LY!SaveAll
<1>3. \A n \in Drawable : LY!Kept(n, said) \in BOOLEAN
  BY DEF LY!Kept
<1>4. ASSUME NEW n \in Drawable
      PROVE  /\ layout'[n] \in LayoutRows
             /\ layout'[n].pinned => layout'[n].anchor = LY!NoAnchor
  <2>1. CASE n \in ns
    <3>1. layout'[n] = LY!Row(LY!Kept(n, said), LY!NoAnchor)
      BY <1>1, <2>1
    <3> QED
      BY <1>3, <3>1, LayoutShapes
  <2>2. CASE n \notin ns
    <3>1. layout'[n] = layout[n]
      BY <1>1, <2>2
    <3> QED
      BY <1>2, <3>1
  <2> QED
    BY <2>1, <2>2
<1>5. layout' = [n \in Drawable |-> layout'[n]]
  BY <1>1
<1>6. pins' \subseteq pins \cup ns
  BY <1>1
<1>7. ASSUME NEW n \in pins' PROVE layout'[n].pinned
  <2>1. n \in Drawable
    BY <1>2, <1>6
  <2>2. CASE n \notin ns
    <3>1. n \in pins /\ layout'[n] = layout[n]
      BY <1>1, <1>6, <2>1, <2>2
    <3> QED
      BY <1>2, <3>1
  <2>3. CASE n \in ns
    <3>1. layout'[n].pinned = LY!Kept(n, said)
      BY <1>1, <1>3, <2>1, <2>3, LayoutShapes
    <3>2. LY!Kept(n, said)
      BY <1>1, <1>2, <1>7, <2>3 DEF LY!Kept, LY!Pinned
    <3> QED
      BY <3>1, <3>2
  <2> QED
    BY <2>2, <2>3
<1>8. Writes(layout')
  BY <1>4, <1>5 DEF Writes
<1> QED
  BY <1>2, <1>6, <1>7, <1>8, LayoutWhole

LEMMA SaveNewKeeps ==
    ASSUME LayoutInv, LY!LayoutAssumption, LY!SaveNew PROVE LayoutInv'
<1>1. PICK ns \in SUBSET Drawable, pinned \in BOOLEAN :
         /\ layout' = [n \in Drawable |->
               IF n \in LY!New(ns) THEN LY!Row(pinned, LY!NoAnchor) ELSE layout[n]]
         /\ pins' = IF pinned THEN pins \cup {n \in ns : ~LY!Placed(n)}
                    ELSE pins \ {n \in ns : ~LY!Placed(n)}
  BY DEF LY!SaveNew
<1>2. /\ layout \in [Drawable -> LayoutRows] /\ hangs' = hangs /\ hangs \in Hangings
      /\ pins \subseteq Drawable
      /\ \A n \in Drawable : layout[n].pinned => layout[n].anchor = LY!NoAnchor
      /\ \A n \in pins : layout[n].pinned
  BY LayoutParts DEF LY!SaveNew
<1>3. LY!New(ns) = {n \in ns : ~LY!Placed(n)}
  BY DEF LY!New
<1>4. ASSUME NEW n \in Drawable
      PROVE  /\ layout'[n] \in LayoutRows
             /\ layout'[n].pinned => layout'[n].anchor = LY!NoAnchor
             /\ n \in LY!New(ns) => layout'[n].pinned = pinned
             /\ n \notin LY!New(ns) => layout'[n] = layout[n]
  <2>1. CASE n \in LY!New(ns)
    <3>1. layout'[n] = LY!Row(pinned, LY!NoAnchor)
      BY <1>1, <2>1
    <3> QED
      BY <2>1, <3>1, LayoutShapes
  <2>2. CASE n \notin LY!New(ns)
    <3>1. layout'[n] = layout[n]
      BY <1>1, <2>2
    <3> QED
      BY <1>2, <2>2, <3>1
  <2> QED
    BY <2>1, <2>2
<1>5. Writes(layout')
  <2>1. layout' = [n \in Drawable |-> layout'[n]]
    BY <1>1
  <2> QED
    BY <1>4, <2>1 DEF Writes
<1>6. ASSUME NEW n \in pins' PROVE n \in Drawable /\ layout'[n].pinned
  BY <1>1, <1>2, <1>3, <1>4, <1>6
<1> QED
  BY <1>2, <1>5, <1>6, LayoutWhole

LEMMA PlacesKeeps ==
    ASSUME LayoutInv, LY!LayoutAssumption, NEW p, LY!Places(p) PROVE LayoutInv'
<1>1. PICK a \in Drawable : /\ layout' = [layout EXCEPT ![a] = LY!Row(TRUE, LY!NoAnchor)]
                            /\ pins' = pins \cup {a}
  BY DEF LY!Places
<1>2. /\ layout \in [Drawable -> LayoutRows] /\ hangs' = hangs /\ hangs \in Hangings
      /\ pins \subseteq Drawable
      /\ \A n \in Drawable : layout[n].pinned => layout[n].anchor = LY!NoAnchor
      /\ \A n \in pins : layout[n].pinned
  BY LayoutParts DEF LY!Places
<1>3. /\ LY!Row(TRUE, LY!NoAnchor) \in LayoutRows
      /\ LY!Row(TRUE, LY!NoAnchor).pinned = TRUE
      /\ LY!Row(TRUE, LY!NoAnchor).anchor = LY!NoAnchor
  BY LayoutShapes
<1>4. Writes(layout')
  BY <1>1, <1>2, <1>3 DEF Writes
<1>5. pins' \subseteq Drawable /\ \A n \in pins' : layout'[n].pinned
  BY <1>1, <1>2, <1>3
<1> QED
  BY <1>2, <1>4, <1>5, LayoutWhole

\* Rows that go: a step that empties rows and leaves the others alone keeps the
\* pins whose rows stay.
LEMMA Emptied ==
    ASSUME LayoutInv, LY!LayoutAssumption, NEW dropped \in SUBSET Drawable,
           layout' = [n \in Drawable |-> IF n \in dropped THEN LY!NoRow ELSE layout[n]],
           hangs' = hangs, pins' \subseteq pins \ dropped
    PROVE  LayoutInv'
<1>1. /\ layout \in [Drawable -> LayoutRows] /\ hangs \in Hangings
      /\ pins \subseteq Drawable
      /\ \A n \in Drawable : layout[n].pinned => layout[n].anchor = LY!NoAnchor
      /\ \A n \in pins : layout[n].pinned
  BY LayoutParts
<1>2. LY!NoRow \in LayoutRows /\ ~LY!NoRow.pinned
  BY LayoutShapes
<1>3. Writes(layout')
  BY <1>1, <1>2 DEF Writes
<1>4. pins' \subseteq Drawable /\ \A n \in pins' : layout'[n].pinned
  BY <1>1
<1> QED
  BY <1>1, <1>3, <1>4, LayoutWhole

LEMMA ReleasesKeeps ==
    ASSUME LayoutInv, LY!LayoutAssumption, LY!Releases PROVE LayoutInv'
<1>1. PICK ns \in SUBSET Drawable : layout' = LY!Without(ns) /\ pins' = pins \ ns
  BY DEF LY!Releases
<1> DEFINE dropped == {n \in Drawable : n \in ns \/ layout[n].anchor \in ns}
<1>2. layout' = [n \in Drawable |-> IF n \in dropped THEN LY!NoRow ELSE layout[n]]
  BY <1>1 DEF LY!Without
<1>3. pins' \subseteq pins \ dropped
  <2>1. ASSUME NEW n \in pins', n \in dropped PROVE FALSE
    <3>1. n \in pins /\ n \notin ns /\ layout[n].anchor \in ns
      BY <1>1, <2>1
    <3>2. layout[n].anchor = LY!NoAnchor /\ LY!NoAnchor \notin Drawable
      BY <3>1, LayoutParts
    <3> QED
      BY <3>1, <3>2
  <2> QED
    BY <1>1, <2>1
<1>4. hangs' = hangs /\ dropped \in SUBSET Drawable
  BY DEF LY!Releases
<1> HIDE DEF dropped
<1> QED
  BY <1>2, <1>3, <1>4, Emptied

LEMMA NeighboursKeeps ==
    ASSUME LayoutInv, LY!LayoutAssumption, NEW p, LY!Neighbours(p),
           page[p].anchor \in Drawable
    PROVE  LayoutInv'
<1>1. PICK a \in {page[p].anchor} :
          layout' = [n \in Drawable |->
             IF n \in page[p].around /\ LY!Around(n, a) THEN LY!Row(FALSE, a)
             ELSE IF LY!Pinned(a) /\ layout[n].anchor = a /\ ~LY!Pinned(n) THEN LY!NoRow
             ELSE layout[n]]
  BY DEF LY!Neighbours
<1>2. /\ layout \in [Drawable -> LayoutRows] /\ hangs' = hangs /\ hangs \in Hangings
      /\ pins \subseteq Drawable /\ pins' = pins
      /\ \A n \in Drawable : layout[n].pinned => layout[n].anchor = LY!NoAnchor
      /\ \A n \in pins : layout[n].pinned
  BY LayoutParts DEF LY!Neighbours
<1>3. /\ LY!NoRow \in LayoutRows /\ ~LY!NoRow.pinned
      /\ LY!Row(FALSE, a) \in LayoutRows /\ ~LY!Row(FALSE, a).pinned
  BY LayoutShapes
<1>4. ASSUME NEW n \in Drawable
      PROVE  /\ layout'[n] \in LayoutRows
             /\ layout'[n].pinned => layout'[n].anchor = LY!NoAnchor
             /\ layout[n].pinned => layout'[n] = layout[n]
  <2>1. CASE layout[n].pinned
    <3>1. layout'[n] = layout[n]
      BY <1>1, <2>1 DEF LY!Around, LY!Pinned
    <3> QED
      BY <1>2, <3>1
  <2>2. CASE ~layout[n].pinned
    <3>1. layout'[n] \in {LY!Row(FALSE, a), LY!NoRow, layout[n]}
      BY <1>1
    <3> QED
      BY <1>2, <1>3, <2>2, <3>1
  <2> QED
    BY <2>1, <2>2
<1>5. Writes(layout')
  <2>1. layout' = [n \in Drawable |-> layout'[n]]
    BY <1>1
  <2> QED
    BY <1>4, <2>1 DEF Writes
<1>6. pins' \subseteq Drawable /\ \A n \in pins' : layout'[n].pinned
  BY <1>2, <1>4
<1> QED
  BY <1>2, <1>5, <1>6, LayoutWhole

LEMMA PurgeOldKeeps ==
    ASSUME LayoutInv, LY!LayoutAssumption, LY!PurgeOld PROVE LayoutInv'
<1> DEFINE dropped == {n \in Drawable : LY!OldAndGone(n)}
<1>1. /\ layout' = [n \in Drawable |-> IF n \in dropped THEN LY!NoRow ELSE layout[n]]
      /\ hangs' = hangs
  BY DEF LY!PurgeOld
<1>2. pins' \subseteq pins \ dropped
  BY DEF LY!PurgeOld, LY!OldAndGone
<1>3. dropped \in SUBSET Drawable
  OBVIOUS
<1> HIDE DEF dropped
<1> QED
  BY <1>1, <1>2, <1>3, Emptied

LEMMA DropMisplacedKeeps ==
    ASSUME LayoutInv, LY!LayoutAssumption, LY!DropMisplaced PROVE LayoutInv'
<1> DEFINE dropped == {n \in Drawable : LY!IsOffset(n) /\ ~(LY!Pinned(layout[n].anchor)
                                                         /\ LY!AtAnchor(n))}
<1>1. /\ layout' = [n \in Drawable |-> IF n \in dropped THEN LY!NoRow ELSE layout[n]]
      /\ hangs' = hangs /\ pins' = pins
  BY DEF LY!DropMisplaced
<1>2. pins' \subseteq pins \ dropped
  <2>1. ASSUME NEW n \in pins, n \in dropped PROVE FALSE
    <3>1. layout[n].anchor \in Drawable
      BY <2>1 DEF LY!IsOffset
    <3>2. layout[n].anchor = LY!NoAnchor /\ LY!NoAnchor \notin Drawable
      BY LayoutParts
    <3> QED
      BY <3>1, <3>2
  <2> QED
    BY <1>1, <2>1
<1>3. dropped \in SUBSET Drawable
  OBVIOUS
<1> HIDE DEF dropped
<1> QED
  BY <1>1, <1>2, <1>3, Emptied

LEMMA LayoutRestartKeeps ==
    ASSUME LayoutInv, LY!LayoutAssumption, LY!Restart PROVE LayoutInv'
<1> DEFINE dropped == {n \in Drawable : ~(LY!Pinned(n) \/ LY!IsOffset(n))}
<1>1. /\ layout' = [n \in Drawable |-> IF n \in dropped THEN LY!NoRow ELSE layout[n]]
      /\ hangs' = hangs /\ pins' = pins
  BY DEF LY!Restart
<1>2. pins' \subseteq pins \ dropped
  BY <1>1, LayoutParts DEF LY!Pinned
<1>3. dropped \in SUBSET Drawable
  OBVIOUS
<1> HIDE DEF dropped
<1> QED
  BY <1>1, <1>2, <1>3, Emptied

LEMMA AgesKeeps ==
    ASSUME LayoutInv, LY!LayoutAssumption, LY!Ages PROVE LayoutInv'
<1>1. PICK a \in Drawable : /\ layout[a] # LY!NoRow
                            /\ layout' = [layout EXCEPT ![a].old = TRUE]
  BY DEF LY!Ages, LY!Placed
<1>2. /\ layout \in [Drawable -> LayoutRows] /\ hangs' = hangs /\ hangs \in Hangings
      /\ pins \subseteq Drawable /\ pins' = pins
      /\ \A n \in Drawable : layout[n].pinned => layout[n].anchor = LY!NoAnchor
      /\ \A n \in pins : layout[n].pinned
  BY LayoutParts DEF LY!Ages
<1>3. layout[a] \in [pinned : BOOLEAN, old : BOOLEAN,
                     anchor : Drawable \cup {LY!NoAnchor}]
  BY <1>1, <1>2 DEF LayoutRows
<1>4. /\ layout'[a] \in LayoutRows
      /\ layout'[a].pinned = layout[a].pinned
      /\ layout'[a].anchor = layout[a].anchor
  BY <1>1, <1>2, <1>3 DEF LayoutRows
<1>5. \A n \in Drawable \ {a} : layout'[n] = layout[n]
  BY <1>1, <1>2
<1>6. Writes(layout')
  <2>1. layout' = [n \in Drawable |-> layout'[n]]
    BY <1>1, <1>2
  <2>2. \A n \in Drawable : layout'[n] \in LayoutRows
    BY <1>2, <1>4, <1>5
  <2>3. \A n \in Drawable : layout'[n].pinned => layout'[n].anchor = LY!NoAnchor
    BY <1>2, <1>4, <1>5
  <2> QED
    BY <2>1, <2>2, <2>3 DEF Writes
<1>7. pins' \subseteq Drawable /\ \A n \in pins' : layout'[n].pinned
  BY <1>2, <1>4, <1>5
<1> QED
  BY <1>2, <1>6, <1>7, LayoutWhole

-----------------------------------------------------------------------------
(* Every step of the layout *)

\* A request that has still to record neighbours has placed a node of the map.
PagesNamed == page \in [Pages -> {LY!Done} \cup [anchor : Drawable,
                                                 around : SUBSET Drawable]]

LEMMA PagesKept ==
    ASSUME PagesNamed, [LY!Next]_LY!layoutVars PROVE PagesNamed'
<1>1. CASE page' = page
  BY <1>1 DEF PagesNamed
<1>2. ASSUME NEW p \in Pages, LY!Places(p) PROVE PagesNamed'
  <2>1. PICK n \in Drawable : \E around \in SUBSET (Drawable \ {n}) :
           page' = [page EXCEPT ![p] = [anchor |-> n, around |-> around]]
    BY <1>2 DEF LY!Places
  <2>2. PICK around \in SUBSET (Drawable \ {n}) :
           page' = [page EXCEPT ![p] = [anchor |-> n, around |-> around]]
    BY <2>1
  <2>3. [anchor |-> n, around |-> around] \in [anchor : Drawable, around : SUBSET Drawable]
    OBVIOUS
  <2> QED
    BY <2>2, <2>3 DEF PagesNamed
<1>3. ASSUME NEW p \in Pages, LY!Neighbours(p) PROVE PagesNamed'
  BY <1>3 DEF LY!Neighbours, PagesNamed
<1>4. ASSUME LY!Restart PROVE PagesNamed'
  BY <1>4 DEF LY!Restart, PagesNamed
<1>5. ASSUME \/ LY!SaveAll \/ LY!SaveNew \/ LY!Releases \/ LY!Clear
             \/ LY!PurgeLooks \/ LY!PurgeOld \/ LY!DropMisplaced
             \/ LY!Ages \/ LY!MapChanges \/ UNCHANGED LY!layoutVars
      PROVE  page' = page
  BY <1>5 DEF LY!SaveAll, LY!SaveNew, LY!Releases, LY!Clear, LY!PurgeLooks,
     LY!PurgeOld, LY!DropMisplaced, LY!Ages, LY!MapChanges, LY!layoutVars
<1> QED
  BY <1>1, <1>2, <1>3, <1>4, <1>5 DEF LY!Next

LEMMA LayoutStep ==
    ASSUME LayoutInv, PagesNamed, LY!LayoutAssumption, [LY!Next]_LY!layoutVars
    PROVE  LayoutInv'
<1>1. ASSUME LY!Clear PROVE LayoutInv'
  <2>1. layout' = [n \in Drawable |-> LY!NoRow] /\ pins' = {} /\ hangs' = hangs
    BY <1>1 DEF LY!Clear
  <2>2. Writes(layout')
    BY <2>1, LayoutShapes DEF Writes
  <2> QED
    BY <2>1, <2>2, LayoutParts, LayoutWhole
<1>2. ASSUME layout' = layout, pins' = pins, hangs' \in Hangings PROVE LayoutInv'
  BY <1>2 DEF LayoutInv, LY!TypeOK, PinnedAlone, LY!PinsStand, LY!Pinned
<1>3. ASSUME NEW p \in Pages, LY!Neighbours(p) PROVE LayoutInv'
  <2>1. page[p].anchor \in Drawable
    BY <1>3 DEF LY!Neighbours, PagesNamed
  <2> QED
    BY <1>3, <2>1, NeighboursKeeps
<1>4. ASSUME \/ LY!PurgeLooks \/ LY!MapChanges \/ UNCHANGED LY!layoutVars
      PROVE  layout' = layout /\ pins' = pins /\ hangs' \in Hangings
  <2>1. hangs \in Hangings
    BY LayoutParts
  <2> QED
    BY <1>4, <2>1 DEF LY!PurgeLooks, LY!MapChanges, LY!layoutVars
<1> QED
  BY <1>1, <1>2, <1>3, <1>4, SaveAllKeeps, SaveNewKeeps, PlacesKeeps, ReleasesKeeps,
     PurgeOldKeeps, DropMisplacedKeeps, LayoutRestartKeeps, AgesKeeps DEF LY!Next

\* However many pages write, release and clear rows at once, and whatever the
\* purge and the starts forget between: what a person pinned stays pinned until
\* a person says otherwise, or the purge found its node old and off the map.
LEMMA LayoutPins ==
    LY!LayoutAssumption => (LY!Spec => []LY!PinsStand)
<1> SUFFICES ASSUME LY!LayoutAssumption PROVE LY!Spec => []LY!PinsStand
  OBVIOUS
<1>1. LY!Init => LayoutInv /\ PagesNamed
  BY LayoutInit DEF LY!Init, PagesNamed
<1>2. LayoutInv /\ PagesNamed /\ [LY!Next]_LY!layoutVars => (LayoutInv /\ PagesNamed)'
  BY LayoutStep, PagesKept
<1>3. LayoutInv => LY!PinsStand
  BY DEF LayoutInv
<1> QED
  BY <1>1, <1>2, <1>3, PTL DEF LY!Spec

-----------------------------------------------------------------------------
(* Settings *)

\* the values of a setting that are in its range
Proper(k) == [1..Width(k) -> ST!Valid]
Goods == {g \in UNION {[ks -> UNION {Proper(k) : k \in SettingKeys}] :
                          ks \in SUBSET SettingKeys} :
             \A k \in DOMAIN g : g[k] \in Proper(k)}
Changes == {ST!Idle} \cup [step : {"save", "apply"}, good : Goods]

SettingsTyped ==
    /\ stored = [k \in SettingKeys |-> stored[k]]
    /\ \A k \in SettingKeys :
          stored[k] = ST!None \/ stored[k] \in [1..Width(k) -> ST!Valid \cup {ST!Bad}]
    /\ \A k \in SettingKeys : live[k] \in Proper(k)
    /\ change \in [Editors -> Changes]
    /\ sure \in [SettingKeys -> BOOLEAN] /\ lastReset \in [SettingKeys -> BOOLEAN]

\* A change that runs by itself is the only one of its setting, and between its
\* transaction and its call of the live config the row is what it will apply.
ChangeInv(k) ==
    sure[k] = TRUE =>
       /\ \A e, f \in ST!InFlight(k) : e = f
       /\ ST!InFlight(k) = {} /\ ~(lastReset[k] /\ ST!Moves(k))
             => live[k] = ST!Loaded(k)
       /\ \A e \in ST!InFlight(k) : change[e].step = "apply" =>
             \/ stored[k] = change[e].good[k]
             \/ /\ stored[k] = ST!None /\ lastReset[k] = TRUE
                /\ change[e].good[k] = ST!Default(k)

SettingsInv == SettingsTyped /\ \A k \in SettingKeys : ChangeInv(k)

LEMMA ProperIs ==
    ASSUME ST!SettingsAssumption, NEW k \in SettingKeys, NEW v \in Proper(k)
    PROVE  v # ST!None /\ ST!Checked(v)
           /\ v \in [1..Width(k) -> ST!Valid \cup {ST!Bad}]
<1>1. Width(k) \in Nat \ {0}
  BY DEF ST!SettingsAssumption
<1>2. 1 \in DOMAIN v
  BY <1>1 DEF Proper
<1>3. v # ST!None
  BY <1>2 DEF ST!None
<1> QED
  BY <1>3 DEF Proper, ST!Checked, ST!Valid, ST!Bad

LEMMA DefaultProper ==
    ASSUME NEW k \in SettingKeys
    PROVE  ST!Default(k) \in Proper(k) /\ ST!FromFile(k) \in Proper(k)
  BY DEF Proper, ST!Default, ST!FromFile, ST!Valid

LEMMA LoadedProper ==
    ASSUME NEW k \in SettingKeys,
           \/ stored[k] = ST!None
           \/ stored[k] \in [1..Width(k) -> ST!Valid \cup {ST!Bad}]
    PROVE  ST!Loaded(k) \in Proper(k)
<1>1. CASE stored[k] # ST!None /\ ST!Checked(stored[k])
  <2>1. stored[k] \in [1..Width(k) -> ST!Valid \cup {ST!Bad}]
    BY <1>1
  <2>2. stored[k] \in Proper(k)
    BY <1>1, <2>1 DEF Proper, ST!Checked
  <2> QED
    BY <1>1, <2>2 DEF ST!Loaded
<1>2. CASE ~(stored[k] # ST!None /\ ST!Checked(stored[k]))
  BY <1>2, DefaultProper DEF ST!Loaded
<1> QED
  BY <1>1, <1>2

LEMMA ChangeShape ==
    ASSUME SettingsTyped, NEW e \in Editors, change[e].step # "idle"
    PROVE  /\ change[e].step \in {"save", "apply"} /\ change[e].good \in Goods
           /\ change[e] = [step |-> change[e].step, good |-> change[e].good]
           /\ DOMAIN change[e].good \subseteq SettingKeys
           /\ \A k \in DOMAIN change[e].good : change[e].good[k] \in Proper(k)
<1>1. change[e] \in Changes /\ change[e] # ST!Idle
  BY DEF SettingsTyped, ST!Idle
<1>2. change[e] \in [step : {"save", "apply"}, good : Goods]
  BY <1>1 DEF Changes
<1> QED
  BY <1>2 DEF Goods

\* Who has a change of a setting in flight after one editor's step.
LEMMA FlightOf ==
    ASSUME SettingsTyped, NEW e \in Editors, NEW c,
           change' = [change EXCEPT ![e] = c], NEW k \in SettingKeys
    PROVE  /\ change'[e] = c
           /\ \A f \in Editors \ {e} : change'[f] = change[f]
           /\ \A f \in Editors \ {e} : f \in ST!InFlight(k)' <=> f \in ST!InFlight(k)
           /\ e \in ST!InFlight(k)' <=> c.step # "idle" /\ k \in DOMAIN c.good
           /\ ST!InFlight(k) \subseteq Editors /\ ST!InFlight(k)' \subseteq Editors
<1>1. change'[e] = c /\ \A f \in Editors \ {e} : change'[f] = change[f]
  BY DEF SettingsTyped
<1> QED
  BY <1>1 DEF ST!InFlight

LEMMA LoadKeeps ==
    ASSUME SettingsTyped, ST!SettingsAssumption, ST!Restart PROVE SettingsInv'
<1>1. /\ live' = [k \in SettingKeys |-> ST!Loaded(k)]
      /\ stored' = [k \in SettingKeys |-> IF ST!Moves(k) THEN ST!FromFile(k) ELSE stored[k]]
      /\ change' = [e \in Editors |-> ST!Idle]
      /\ sure' = [k \in SettingKeys |-> TRUE]
      /\ file' = file /\ lastReset' = lastReset
  BY DEF ST!Restart, ST!Load
<1>2. ASSUME NEW k \in SettingKeys
      PROVE  /\ stored'[k] = ST!None
                \/ stored'[k] \in [1..Width(k) -> ST!Valid \cup {ST!Bad}]
             /\ live'[k] \in Proper(k) /\ live'[k] = ST!Loaded(k)'
  <2>1. live'[k] = ST!Loaded(k) /\ ST!Loaded(k) \in Proper(k)
    BY <1>1, LoadedProper DEF SettingsTyped
  <2>2. CASE ST!Moves(k)
    <3>1. stored'[k] = ST!FromFile(k) /\ stored[k] = ST!None
      BY <1>1, <2>2 DEF ST!Moves
    <3>2. /\ ST!FromFile(k) \in Proper(k) /\ ST!FromFile(k) # ST!None
          /\ ST!Checked(ST!FromFile(k))
          /\ ST!FromFile(k) \in [1..Width(k) -> ST!Valid \cup {ST!Bad}]
      BY DefaultProper, ProperIs
    <3>3. ST!Loaded(k) = ST!FromFile(k)
      BY <2>2, <3>1 DEF ST!Loaded
    <3>4. ST!Loaded(k)' = stored'[k]
      BY <3>1, <3>2 DEF ST!Loaded
    <3> QED
      BY <2>1, <3>1, <3>2, <3>3, <3>4
  <2>3. CASE ~ST!Moves(k)
    <3>1. stored'[k] = stored[k]
      BY <1>1, <2>3
    <3>2. ST!Moves(k)' <=> ST!Moves(k)
      BY <1>1, <3>1 DEF ST!Moves
    <3>3. ST!Loaded(k)' = ST!Loaded(k)
      BY <2>3, <3>1, <3>2 DEF ST!Loaded
    <3> QED
      BY <2>1, <3>1, <3>3 DEF SettingsTyped
  <2> QED
    BY <2>2, <2>3
<1>3. SettingsTyped'
  <2>1. stored' = [k \in SettingKeys |-> stored'[k]]
    BY <1>1
  <2>2. change' \in [Editors -> Changes]
    BY <1>1 DEF Changes
  <2>3. sure' \in [SettingKeys -> BOOLEAN] /\ lastReset' \in [SettingKeys -> BOOLEAN]
    BY <1>1 DEF SettingsTyped
  <2> QED
    BY <1>2, <2>1, <2>2, <2>3 DEF SettingsTyped
<1>4. ASSUME NEW k \in SettingKeys PROVE ChangeInv(k)'
  <2>1. ST!InFlight(k)' = {}
    BY <1>1 DEF ST!InFlight, ST!Idle
  <2> QED
    BY <1>2, <2>1 DEF ChangeInv
<1> QED
  BY <1>3, <1>4 DEF SettingsInv

LEMMA SettingsInit == ASSUME ST!SettingsAssumption, ST!Init PROVE SettingsInv
<1>0. PICK k \in SettingKeys :
         \E v \in {ST!None, [i \in 1..Width(k) |-> ST!Bad]} :
            stored = [[j \in SettingKeys |-> ST!None] EXCEPT ![k] = v]
  BY DEF ST!Init
<1>1. PICK v \in {ST!None, [i \in 1..Width(k) |-> ST!Bad]} :
         stored = [[j \in SettingKeys |-> ST!None] EXCEPT ![k] = v]
  BY <1>0
<1>2. /\ live = [j \in SettingKeys |-> ST!Loaded(j)]
      /\ change = [e \in Editors |-> ST!Idle]
      /\ sure = [j \in SettingKeys |-> stored[j] # ST!None \/ ~ST!Moves(j)]
      /\ lastReset = [j \in SettingKeys |-> FALSE]
  BY DEF ST!Init
<1>3. ASSUME NEW j \in SettingKeys
      PROVE  \/ stored[j] = ST!None
             \/ stored[j] \in [1..Width(j) -> ST!Valid \cup {ST!Bad}]
  <2>1. CASE j = k
    <3>1. stored[j] = v
      BY <1>1, <2>1
    <3> QED
      BY <2>1, <3>1 DEF ST!Bad
  <2>2. CASE j # k
    BY <1>1, <2>2
  <2> QED
    BY <2>1, <2>2
<1>4. SettingsTyped
  <2>1. stored = [j \in SettingKeys |-> stored[j]]
    BY <1>1
  <2>2. \A j \in SettingKeys : live[j] \in Proper(j)
    BY <1>2, <1>3, LoadedProper
  <2>3. change \in [Editors -> Changes]
    BY <1>2 DEF Changes
  <2>4. sure \in [SettingKeys -> BOOLEAN] /\ lastReset \in [SettingKeys -> BOOLEAN]
    <3>1. \A j \in SettingKeys : (stored[j] # ST!None \/ ~ST!Moves(j)) \in BOOLEAN
      OBVIOUS
    <3> QED
      BY <1>2, <3>1
  <2> QED
    BY <1>3, <2>1, <2>2, <2>3, <2>4 DEF SettingsTyped
<1>5. ASSUME NEW j \in SettingKeys PROVE ChangeInv(j)
  <2>1. ST!InFlight(j) = {} /\ live[j] = ST!Loaded(j)
    BY <1>2 DEF ST!InFlight, ST!Idle
  <2> QED
    BY <2>1 DEF ChangeInv
<1> QED
  BY <1>4, <1>5 DEF SettingsInv

\* A change that is checked: its values are the live ones but for what it names.
LEMMA NormalProper ==
    ASSUME SettingsTyped, ST!SettingsAssumption, NEW k \in SettingKeys, NEW r,
           r.at \in {1, 2}, r.to \in ST!Valid
    PROVE  ST!Normal(k, r) \in Proper(k)
<1>1. Width(k) \in Nat \ {0} /\ live[k] \in [1..Width(k) -> ST!Valid]
  BY DEF SettingsTyped, ST!SettingsAssumption, Proper
<1> QED
  BY <1>1 DEF ST!Normal, Proper

LEMMA SaveCheckedKeeps ==
    ASSUME SettingsInv, ST!SettingsAssumption, NEW e \in Editors, ST!SaveChecked(e)
    PROVE  SettingsInv'
<1>1. SettingsTyped
  BY DEF SettingsInv
<1>2. PICK r \in ST!Requests :
         /\ \A k \in DOMAIN r : r[k].to \in ST!Valid
         /\ \E ks \in {{k \in DOMAIN r : ST!Normal(k, r[k]) # live[k]}} :
               /\ change' = [change EXCEPT ![e] =
                     [step |-> "save", good |-> [k \in ks |-> ST!Normal(k, r[k])]]]
               /\ sure' = [k \in SettingKeys |->
                     IF k \in ks /\ ST!InFlight(k) # {} THEN FALSE ELSE sure[k]]
  BY DEF ST!SaveChecked
<1>3. PICK ks \in SUBSET (DOMAIN r) :
         /\ change' = [change EXCEPT ![e] =
               [step |-> "save", good |-> [k \in ks |-> ST!Normal(k, r[k])]]]
         /\ sure' = [k \in SettingKeys |->
               IF k \in ks /\ ST!InFlight(k) # {} THEN FALSE ELSE sure[k]]
  <2>1. {k \in DOMAIN r : ST!Normal(k, r[k]) # live[k]} \in SUBSET (DOMAIN r)
    OBVIOUS
  <2> QED
    BY <1>2, <2>1
<1>4. UNCHANGED <<file, stored, live, lastReset>> /\ change[e] = ST!Idle
  BY DEF ST!SaveChecked
<1>5. /\ DOMAIN r \subseteq SettingKeys
      /\ \A k \in DOMAIN r : r[k].at \in {1, 2}
  BY DEF ST!Requests
<1> DEFINE good == [k \in ks |-> ST!Normal(k, r[k])]
           c == [step |-> "save", good |-> good]
<1>6. good \in Goods
  <2>1. \A k \in ks : ST!Normal(k, r[k]) \in Proper(k)
    BY <1>1, <1>2, <1>5, NormalProper
  <2>2. ks \in SUBSET SettingKeys
    BY <1>5
  <2>3. good \in [ks -> UNION {Proper(k) : k \in SettingKeys}]
    BY <2>1, <2>2
  <2>4. \A k \in DOMAIN good : good[k] \in Proper(k)
    BY <2>1
  <2> HIDE DEF good
  <2> QED
    BY <2>2, <2>3, <2>4 DEF Goods
<1>7. c \in Changes /\ c.step = "save" /\ c.good = good /\ DOMAIN good = ks
  BY <1>6 DEF Changes
<1>8. change' = [change EXCEPT ![e] = c]
  BY <1>3
<1> HIDE DEF c, good
<1>9. SettingsTyped'
  <2>1. change' \in [Editors -> Changes]
    BY <1>1, <1>7, <1>8 DEF SettingsTyped
  <2>2. sure' \in [SettingKeys -> BOOLEAN]
    BY <1>1, <1>3 DEF SettingsTyped
  <2> QED
    BY <1>1, <1>4, <2>1, <2>2 DEF SettingsTyped
<1>10. ASSUME NEW k \in SettingKeys, sure'[k] = TRUE
       PROVE  /\ \A f, g \in ST!InFlight(k)' : f = g
              /\ ST!InFlight(k)' = {} /\ ~(lastReset'[k] /\ ST!Moves(k)')
                    => live'[k] = ST!Loaded(k)'
              /\ \A f \in ST!InFlight(k)' : change'[f].step = "apply" =>
                    \/ stored'[k] = change'[f].good[k]
                    \/ /\ stored'[k] = ST!None /\ lastReset'[k] = TRUE
                       /\ change'[f].good[k] = ST!Default(k)'
  <2>1. sure[k] = TRUE /\ (k \in ks => ST!InFlight(k) = {})
    BY <1>3, <1>10
  <2>2. /\ change'[e] = c
        /\ \A f \in Editors \ {e} : change'[f] = change[f]
        /\ \A f \in Editors \ {e} : f \in ST!InFlight(k)' <=> f \in ST!InFlight(k)
        /\ e \in ST!InFlight(k)' <=> k \in ks
        /\ ST!InFlight(k) \subseteq Editors /\ ST!InFlight(k)' \subseteq Editors
    BY <1>1, <1>7, <1>8, FlightOf
  <2>3. e \notin ST!InFlight(k)
    BY <1>4 DEF ST!InFlight, ST!Idle
  <2>4. /\ \A f, g \in ST!InFlight(k) : f = g
        /\ ST!InFlight(k) = {} /\ ~(lastReset[k] /\ ST!Moves(k))
              => live[k] = ST!Loaded(k)
        /\ \A f \in ST!InFlight(k) : change[f].step = "apply" =>
              \/ stored[k] = change[f].good[k]
              \/ /\ stored[k] = ST!None /\ lastReset[k] = TRUE
                 /\ change[f].good[k] = ST!Default(k)
    BY <2>1 DEF SettingsInv, ChangeInv
  <2>5. \A f, g \in ST!InFlight(k)' : f = g
    BY <2>1, <2>2, <2>4
  <2>6. /\ ST!Moves(k)' <=> ST!Moves(k)
        /\ ST!Loaded(k)' = ST!Loaded(k)
        /\ ST!Default(k)' = ST!Default(k)
    BY <1>4 DEF ST!Moves, ST!Loaded, ST!FromFile, ST!Default
  <2>7. ST!InFlight(k)' = {} => ST!InFlight(k) = {}
    BY <2>2, <2>3
  <2>8. ASSUME NEW f \in ST!InFlight(k)', change'[f].step = "apply"
        PROVE  f # e /\ f \in ST!InFlight(k) /\ change'[f] = change[f]
    <3>1. f # e
      BY <1>7, <2>2, <2>8
    <3> QED
      BY <2>2, <3>1
  <2>9. \A f \in ST!InFlight(k)' : change'[f].step = "apply" =>
                    \/ stored'[k] = change'[f].good[k]
                    \/ /\ stored'[k] = ST!None /\ lastReset'[k] = TRUE
                       /\ change'[f].good[k] = ST!Default(k)'
    BY <1>4, <2>4, <2>6, <2>8
  <2> QED
    BY <1>4, <2>4, <2>5, <2>6, <2>7, <2>9
<1> QED
  BY <1>9, <1>10 DEF SettingsInv, ChangeInv

\* A transaction of a change: the row is what will apply, and the change is sure
\* if it is alone.
LEMMA WrittenKeeps ==
    ASSUME SettingsInv, ST!SettingsAssumption, NEW e \in Editors, NEW c \in Changes,
           c.step = "apply", change' = [change EXCEPT ![e] = c],
           file' = file, live' = live, SettingsTyped',
           \A k \in SettingKeys \ DOMAIN c.good :
              /\ k \notin DOMAIN change[e].good \/ change[e].step = "idle"
              /\ stored'[k] = stored[k] /\ sure'[k] = sure[k]
              /\ lastReset'[k] = lastReset[k],
           \A k \in DOMAIN c.good :
              /\ sure'[k] = TRUE => ST!InFlight(k) \subseteq {e}
              /\ \/ stored'[k] = c.good[k]
                 \/ /\ stored'[k] = ST!None /\ lastReset'[k] = TRUE
                    /\ c.good[k] = ST!Default(k)
    PROVE  SettingsInv'
<1>1. SettingsTyped
  BY DEF SettingsInv
<1>2. ASSUME NEW k \in SettingKeys, sure'[k] = TRUE
      PROVE  /\ \A f, g \in ST!InFlight(k)' : f = g
             /\ ST!InFlight(k)' = {} /\ ~(lastReset'[k] /\ ST!Moves(k)')
                   => live'[k] = ST!Loaded(k)'
             /\ \A f \in ST!InFlight(k)' : change'[f].step = "apply" =>
                   \/ stored'[k] = change'[f].good[k]
                   \/ /\ stored'[k] = ST!None /\ lastReset'[k] = TRUE
                      /\ change'[f].good[k] = ST!Default(k)'
  <2>1. /\ change'[e] = c
        /\ \A f \in Editors \ {e} : change'[f] = change[f]
        /\ \A f \in Editors \ {e} : f \in ST!InFlight(k)' <=> f \in ST!InFlight(k)
        /\ e \in ST!InFlight(k)' <=> k \in DOMAIN c.good
        /\ ST!InFlight(k) \subseteq Editors /\ ST!InFlight(k)' \subseteq Editors
    BY <1>1, FlightOf
  <2>2. ST!Default(k)' = ST!Default(k)
    BY DEF ST!Default
  <2>3. CASE k \in DOMAIN c.good
    <3>1. ST!InFlight(k)' = {e}
      BY <1>2, <2>1, <2>3
    <3> QED
      BY <2>1, <2>2, <2>3, <3>1
  <2>4. CASE k \notin DOMAIN c.good
    <3>1. /\ stored'[k] = stored[k] /\ sure'[k] = sure[k]
          /\ lastReset'[k] = lastReset[k] /\ e \notin ST!InFlight(k)
      BY <2>4 DEF ST!InFlight
    <3>2. ST!InFlight(k)' = ST!InFlight(k)
      <4>1. ASSUME NEW f \in Editors PROVE f \in ST!InFlight(k)' <=> f \in ST!InFlight(k)
        BY <2>1, <2>4, <3>1
      <4> QED
        BY <2>1, <4>1
    <3>3. /\ \A f, g \in ST!InFlight(k) : f = g
          /\ ST!InFlight(k) = {} /\ ~(lastReset[k] /\ ST!Moves(k))
                => live[k] = ST!Loaded(k)
          /\ \A f \in ST!InFlight(k) : change[f].step = "apply" =>
                \/ stored[k] = change[f].good[k]
                \/ /\ stored[k] = ST!None /\ lastReset[k] = TRUE
                   /\ change[f].good[k] = ST!Default(k)
      BY <1>2, <3>1 DEF SettingsInv, ChangeInv
    <3>4. /\ ST!Moves(k)' <=> ST!Moves(k)
          /\ ST!Loaded(k)' = ST!Loaded(k)
      BY <3>1 DEF ST!Moves, ST!Loaded, ST!FromFile, ST!Default
    <3>5. \A f \in ST!InFlight(k) : change'[f] = change[f]
      BY <2>1, <3>1
    <3>6. \A f \in ST!InFlight(k)' : change'[f].step = "apply" =>
                   \/ stored'[k] = change'[f].good[k]
                   \/ /\ stored'[k] = ST!None /\ lastReset'[k] = TRUE
                      /\ change'[f].good[k] = ST!Default(k)'
      BY <2>2, <3>1, <3>2, <3>3, <3>5
    <3> QED
      BY <3>1, <3>2, <3>3, <3>4, <3>6
  <2> QED
    BY <2>3, <2>4
<1> QED
  BY <1>2 DEF SettingsInv, ChangeInv

LEMMA SaveStoredKeeps ==
    ASSUME SettingsInv, ST!SettingsAssumption, NEW e \in Editors, ST!SaveStored(e)
    PROVE  SettingsInv'
<1>1. SettingsTyped
  BY DEF SettingsInv
<1>2. /\ change[e].step = "save" /\ UNCHANGED <<file, live>>
      /\ stored' = [k \in SettingKeys |->
            IF k \in DOMAIN change[e].good THEN change[e].good[k] ELSE stored[k]]
      /\ change' = [change EXCEPT ![e].step = "apply"]
      /\ lastReset' = [k \in SettingKeys |->
            lastReset[k] /\ k \notin DOMAIN change[e].good]
      /\ sure' = [k \in SettingKeys |->
            IF k \in DOMAIN change[e].good THEN ST!InFlight(k) = {e} ELSE sure[k]]
  BY DEF ST!SaveStored, ST!Settled
<1> DEFINE good == change[e].good
           c == [step |-> "apply", good |-> good]
<1>3. /\ good \in Goods /\ DOMAIN good \subseteq SettingKeys
      /\ change[e] = [step |-> "save", good |-> good]
      /\ \A k \in DOMAIN good : good[k] \in Proper(k)
  <2>1. change[e].step # "idle"
    BY <1>2
  <2> QED
    BY <1>1, <1>2, <2>1, ChangeShape
<1>4. change' = [change EXCEPT ![e] = c]
  <2>1. [change[e] EXCEPT !.step = "apply"] = c
    BY <1>3
  <2> QED
    BY <1>2, <2>1
<1>5. c \in Changes /\ c.step = "apply" /\ c.good = good
  BY <1>3 DEF Changes
<1> HIDE DEF c
<1>6. SettingsTyped'
  <2>1. stored' = [k \in SettingKeys |-> stored'[k]]
    BY <1>2
  <2>2. ASSUME NEW k \in SettingKeys
        PROVE  \/ stored'[k] = ST!None
               \/ stored'[k] \in [1..Width(k) -> ST!Valid \cup {ST!Bad}]
    <3>1. CASE k \in DOMAIN good
      <4>1. stored'[k] = good[k] /\ good[k] \in Proper(k)
        BY <1>2, <1>3, <3>1
      <4> QED
        BY <4>1, ProperIs
    <3>2. CASE k \notin DOMAIN good
      <4>1. stored'[k] = stored[k]
        BY <1>2, <3>2
      <4> QED
        BY <1>1, <4>1 DEF SettingsTyped
    <3> QED
      BY <3>1, <3>2
  <2>3. change' \in [Editors -> Changes]
    BY <1>1, <1>4, <1>5 DEF SettingsTyped
  <2>4. sure' \in [SettingKeys -> BOOLEAN]
    <3>1. \A k \in SettingKeys : (ST!InFlight(k) = {e}) \in BOOLEAN /\ sure[k] \in BOOLEAN
      BY <1>1 DEF SettingsTyped
    <3> QED
      BY <1>2, <3>1
  <2>5. lastReset' \in [SettingKeys -> BOOLEAN]
    <3>1. \A k \in SettingKeys : (lastReset[k] /\ k \notin DOMAIN change[e].good) \in BOOLEAN
      OBVIOUS
    <3> QED
      BY <1>2, <3>1
  <2>6. \A k \in SettingKeys : live'[k] \in Proper(k)
    BY <1>1, <1>2 DEF SettingsTyped
  <2> QED
    BY <2>1, <2>2, <2>3, <2>4, <2>5, <2>6 DEF SettingsTyped
<1>7. ASSUME NEW k \in SettingKeys \ DOMAIN c.good
      PROVE  /\ k \notin DOMAIN change[e].good \/ change[e].step = "idle"
             /\ stored'[k] = stored[k] /\ sure'[k] = sure[k]
             /\ lastReset'[k] = lastReset[k]
  <2>1. k \notin DOMAIN good
    BY <1>5
  <2>2. lastReset[k] \in BOOLEAN
    BY <1>1 DEF SettingsTyped
  <2>3. lastReset'[k] = (lastReset[k] /\ TRUE)
    BY <1>2, <2>1
  <2> QED
    BY <1>2, <2>1, <2>2, <2>3
<1>8. ASSUME NEW k \in DOMAIN c.good
      PROVE  /\ sure'[k] = TRUE => ST!InFlight(k) \subseteq {e}
             /\ stored'[k] = c.good[k]
  <2>1. k \in DOMAIN good /\ k \in SettingKeys
    BY <1>3, <1>5
  <2>2. sure'[k] = (ST!InFlight(k) = {e})
    BY <1>2, <2>1
  <2> QED
    BY <1>2, <1>5, <2>1, <2>2
<1> HIDE DEF good
<1>9. /\ c.step = "apply" /\ change' = [change EXCEPT ![e] = c]
      /\ file' = file /\ live' = live
  BY <1>2, <1>4, <1>5
<1>10. \A k \in DOMAIN c.good :
          /\ sure'[k] = TRUE => ST!InFlight(k) \subseteq {e}
          /\ \/ stored'[k] = c.good[k]
             \/ /\ stored'[k] = ST!None /\ lastReset'[k] = TRUE
                /\ c.good[k] = ST!Default(k)
  BY <1>8
<1>11. c \in Changes
  BY <1>5
<1> QED
  BY <1>6, <1>7, <1>9, <1>10, <1>11, WrittenKeeps

LEMMA ResetKeeps ==
    ASSUME SettingsInv, ST!SettingsAssumption, NEW e \in Editors,
           NEW k \in SettingKeys, ST!Reset(e, k)
    PROVE  SettingsInv'
<1>1. SettingsTyped
  BY DEF SettingsInv
<1> DEFINE good == [j \in {k} |-> ST!Default(k)]
           c == [step |-> "apply", good |-> good]
<1>2. /\ change[e] = ST!Idle /\ UNCHANGED <<file, live>>
      /\ stored' = [stored EXCEPT ![k] = ST!None]
      /\ change' = [change EXCEPT ![e] = c]
      /\ lastReset' = [lastReset EXCEPT ![k] = TRUE]
      /\ sure' = [sure EXCEPT ![k] = ST!InFlight(k) = {}]
  BY DEF ST!Reset
<1>3. good \in Goods /\ DOMAIN good = {k} /\ good[k] = ST!Default(k)
  <2>1. ST!Default(k) \in Proper(k)
    BY DefaultProper
  <2>2. good \in [{k} -> UNION {Proper(j) : j \in SettingKeys}]
    BY <2>1
  <2>3. \A j \in DOMAIN good : good[j] \in Proper(j)
    BY <2>1
  <2>4. DOMAIN good = {k} /\ good[k] = ST!Default(k) /\ {k} \in SUBSET SettingKeys
    OBVIOUS
  <2> HIDE DEF good
  <2> QED
    BY <2>2, <2>3, <2>4 DEF Goods
<1>4. c \in Changes /\ c.step = "apply" /\ c.good = good
  BY <1>3 DEF Changes
<1> HIDE DEF c, good
<1>5. SettingsTyped'
  <2>1. stored' = [j \in SettingKeys |-> stored'[j]]
    BY <1>1, <1>2 DEF SettingsTyped
  <2>2. ASSUME NEW j \in SettingKeys
        PROVE  \/ stored'[j] = ST!None
               \/ stored'[j] \in [1..Width(j) -> ST!Valid \cup {ST!Bad}]
    <3>1. stored'[j] = ST!None \/ stored'[j] = stored[j]
      BY <1>1, <1>2 DEF SettingsTyped
    <3> QED
      BY <1>1, <3>1 DEF SettingsTyped
  <2>3. change' \in [Editors -> Changes]
    BY <1>1, <1>2, <1>4 DEF SettingsTyped
  <2>4. sure' \in [SettingKeys -> BOOLEAN] /\ lastReset' \in [SettingKeys -> BOOLEAN]
    <3>1. (ST!InFlight(k) = {}) \in BOOLEAN
      OBVIOUS
    <3> QED
      BY <1>1, <1>2, <3>1 DEF SettingsTyped
  <2>5. \A j \in SettingKeys : live'[j] \in Proper(j)
    BY <1>1, <1>2 DEF SettingsTyped
  <2> QED
    BY <2>1, <2>2, <2>3, <2>4, <2>5 DEF SettingsTyped
<1>6. ASSUME NEW j \in SettingKeys \ DOMAIN c.good
      PROVE  /\ j \notin DOMAIN change[e].good \/ change[e].step = "idle"
             /\ stored'[j] = stored[j] /\ sure'[j] = sure[j]
             /\ lastReset'[j] = lastReset[j]
  <2>1. j # k
    BY <1>3, <1>4
  <2>2. change[e].step = "idle"
    BY <1>2 DEF ST!Idle
  <2>3. /\ stored = [i \in SettingKeys |-> stored[i]]
        /\ sure \in [SettingKeys -> BOOLEAN] /\ lastReset \in [SettingKeys -> BOOLEAN]
    BY <1>1 DEF SettingsTyped
  <2> QED
    BY <1>2, <2>1, <2>2, <2>3
<1>7. ASSUME NEW j \in DOMAIN c.good
      PROVE  /\ sure'[j] = TRUE => ST!InFlight(j) \subseteq {e}
             /\ stored'[j] = ST!None /\ lastReset'[j] = TRUE
             /\ c.good[j] = ST!Default(j)
  <2>1. j = k
    BY <1>3, <1>4
  <2>2. /\ stored = [i \in SettingKeys |-> stored[i]]
        /\ sure \in [SettingKeys -> BOOLEAN] /\ lastReset \in [SettingKeys -> BOOLEAN]
    BY <1>1 DEF SettingsTyped
  <2>3. sure'[k] = (ST!InFlight(k) = {})
    BY <1>2, <2>2
  <2> QED
    BY <1>2, <1>3, <1>4, <2>1, <2>2, <2>3
<1> QED
  BY <1>2, <1>4, <1>5, <1>6, <1>7, WrittenKeeps

LEMMA AppliedKeeps ==
    ASSUME SettingsInv, ST!SettingsAssumption, NEW e \in Editors, ST!Applied(e)
    PROVE  SettingsInv'
<1>1. SettingsTyped
  BY DEF SettingsInv
<1> DEFINE good == change[e].good
<1>2. /\ change[e].step = "apply" /\ UNCHANGED <<file, stored, sure, lastReset>>
      /\ live' = [k \in SettingKeys |-> IF k \in DOMAIN good THEN good[k] ELSE live[k]]
      /\ change' = [change EXCEPT ![e] = ST!Idle]
  BY DEF ST!Applied
<1>3. DOMAIN good \subseteq SettingKeys /\ \A k \in DOMAIN good : good[k] \in Proper(k)
  <2>1. change[e].step # "idle"
    BY <1>2
  <2> QED
    BY <1>1, <2>1, ChangeShape
<1>4. SettingsTyped'
  <2>1. \A k \in SettingKeys : live'[k] \in Proper(k)
    BY <1>1, <1>2, <1>3 DEF SettingsTyped
  <2>2. change' \in [Editors -> Changes]
    <3>1. ST!Idle \in Changes
      BY DEF Changes
    <3> QED
      BY <1>1, <1>2, <3>1 DEF SettingsTyped
  <2> QED
    BY <1>1, <1>2, <2>1, <2>2 DEF SettingsTyped
<1>5. ASSUME NEW k \in SettingKeys, sure'[k] = TRUE
      PROVE  /\ \A f, g \in ST!InFlight(k)' : f = g
             /\ ST!InFlight(k)' = {} /\ ~(lastReset'[k] /\ ST!Moves(k)')
                   => live'[k] = ST!Loaded(k)'
             /\ \A f \in ST!InFlight(k)' : change'[f].step = "apply" =>
                   \/ stored'[k] = change'[f].good[k]
                   \/ /\ stored'[k] = ST!None /\ lastReset'[k] = TRUE
                      /\ change'[f].good[k] = ST!Default(k)'
  <2>1. /\ \A f \in Editors \ {e} : change'[f] = change[f]
        /\ \A f \in Editors \ {e} : f \in ST!InFlight(k)' <=> f \in ST!InFlight(k)
        /\ e \notin ST!InFlight(k)'
        /\ ST!InFlight(k) \subseteq Editors /\ ST!InFlight(k)' \subseteq Editors
    <3>1. ST!Idle.step = "idle"
      BY DEF ST!Idle
    <3> QED
      BY <1>1, <1>2, <3>1, FlightOf
  <2>2. /\ \A f, g \in ST!InFlight(k) : f = g
        /\ ST!InFlight(k) = {} /\ ~(lastReset[k] /\ ST!Moves(k))
              => live[k] = ST!Loaded(k)
        /\ \A f \in ST!InFlight(k) : change[f].step = "apply" =>
              \/ stored[k] = change[f].good[k]
              \/ /\ stored[k] = ST!None /\ lastReset[k] = TRUE
                 /\ change[f].good[k] = ST!Default(k)
    BY <1>2, <1>5 DEF SettingsInv, ChangeInv
  <2>3. /\ ST!Moves(k)' <=> ST!Moves(k)
        /\ ST!Loaded(k)' = ST!Loaded(k) /\ ST!Default(k)' = ST!Default(k)
    BY <1>2 DEF ST!Moves, ST!Loaded, ST!FromFile, ST!Default
  <2>4. e \in ST!InFlight(k) <=> k \in DOMAIN good
    BY <1>2 DEF ST!InFlight
  <2>5. CASE k \in DOMAIN good
    <3>1. ST!InFlight(k)' = {}
      BY <2>1, <2>2, <2>4, <2>5
    <3>2. live'[k] = good[k] /\ good[k] \in Proper(k)
      BY <1>2, <1>3, <2>5
    <3>3. \/ stored[k] = good[k]
          \/ /\ stored[k] = ST!None /\ lastReset[k] = TRUE
             /\ good[k] = ST!Default(k)
      BY <1>2, <2>2, <2>4, <2>5
    <3>4. CASE stored[k] = good[k]
      <4>1. stored[k] # ST!None /\ ST!Checked(stored[k])
        BY <3>2, <3>4, ProperIs
      <4>2. ST!Loaded(k) = stored[k]
        BY <4>1 DEF ST!Loaded
      <4> QED
        BY <2>3, <3>1, <3>2, <3>4, <4>2
    <3>5. CASE /\ stored[k] = ST!None /\ lastReset[k] = TRUE
               /\ good[k] = ST!Default(k)
      <4>1. ~ST!Moves(k) => ST!Loaded(k) = ST!Default(k)
        BY <3>5 DEF ST!Loaded
      <4> QED
        BY <1>2, <2>3, <3>1, <3>2, <3>5, <4>1
    <3> QED
      BY <3>3, <3>4, <3>5
  <2>6. CASE k \notin DOMAIN good
    <3>1. ST!InFlight(k)' = ST!InFlight(k) /\ live'[k] = live[k]
      BY <1>2, <2>1, <2>4, <2>6
    <3>2. \A f \in ST!InFlight(k) : change'[f] = change[f]
      BY <2>1, <2>4, <2>6
    <3> QED
      BY <1>2, <2>2, <2>3, <3>1, <3>2
  <2> QED
    BY <2>5, <2>6
<1> QED
  BY <1>4, <1>5 DEF SettingsInv, ChangeInv

\* However many requests save and reset at once and wherever the service stops:
\* what is live is what the next start loads, but for changes side by side and a
\* setting that was reset while the file still has it.
LEMMA SettingsLive ==
    ST!SettingsAssumption => (ST!Spec => []ST!LiveIsKept)
<1> SUFFICES ASSUME ST!SettingsAssumption PROVE ST!Spec => []ST!LiveIsKept
  OBVIOUS
<1>1. ST!Init => SettingsInv
  BY SettingsInit
<1>2. SettingsInv /\ [ST!Next]_ST!settingsVars => SettingsInv'
  <2>1. ASSUME SettingsInv, UNCHANGED ST!settingsVars PROVE SettingsInv'
    <3>1. /\ file' = file /\ stored' = stored /\ live' = live /\ change' = change
          /\ sure' = sure /\ lastReset' = lastReset
      BY <2>1 DEF ST!settingsVars
    <3>2. SettingsTyped'
      BY <2>1, <3>1 DEF SettingsInv, SettingsTyped
    <3>3. \A k \in SettingKeys : ChangeInv(k)' <=> ChangeInv(k)
      BY <3>1 DEF ChangeInv, ST!InFlight, ST!Moves, ST!Loaded, ST!FromFile, ST!Default
    <3> QED
      BY <2>1, <3>2, <3>3 DEF SettingsInv
  <2>2. ASSUME SettingsInv, ST!Restart PROVE SettingsInv'
    BY <2>2, LoadKeeps DEF SettingsInv
  <2> QED
    BY <2>1, <2>2, SaveCheckedKeeps, SaveStoredKeeps, AppliedKeeps, ResetKeeps
       DEF ST!Next
<1>3. SettingsInv => ST!LiveIsKept
  <2>1. ASSUME SettingsInv, NEW k \in SettingKeys, sure[k], ST!InFlight(k) = {},
               ~(lastReset[k] /\ ST!Moves(k))
        PROVE  live[k] = ST!Loaded(k)
    <3>1. sure[k] = TRUE
      BY <2>1 DEF SettingsInv, SettingsTyped
    <3> QED
      BY <2>1, <3>1 DEF SettingsInv, ChangeInv
  <2> QED
    BY <2>1 DEF ST!LiveIsKept
<1> QED
  BY <1>1, <1>2, <1>3, PTL DEF ST!Spec

-----------------------------------------------------------------------------
(* Notes *)

\* What a note says, and how many misses it has counted: not more than most.
AsRow(r, most) ==
    \E fields, byHand, met : \E misses \in 0..most :
       r = [fields |-> fields, byHand |-> byHand, scans |-> misses, seen |-> met]

\* The plan of an import has no note that it found written by hand.
AsImport(x) ==
    \E plan, byHand : /\ x = [does |-> "import", plan |-> plan, byHand |-> byHand]
                      /\ DOMAIN plan \subseteq Devices /\ DOMAIN plan \cap byHand = {}

\* The requests name nodes; a move names two.
AsRequest(x) ==
    /\ x.does = "import" => AsImport(x)
    /\ x.does \in {"put", "move"} => x.at \in NT!Nodes
    /\ x.does = "move" => x.from \in NT!Nodes /\ x.from # x.at

\* A row has not counted more misses than its node has been left out of.
NoteInv ==
    \A n \in NT!Nodes : /\ absent[n] \in 0..MissingScans
                        /\ notes[n] = NT!None \/ AsRow(notes[n], absent[n])

RequestInv == \A q \in NT!Requests : AsRequest(request[q])

NotesInv ==
    /\ notes = [n \in NT!Nodes |-> notes[n]]
    /\ absent = [n \in NT!Nodes |-> absent[n]]
    /\ request = [q \in NT!Requests |-> request[q]]
    /\ NoteInv /\ RequestInv

\* What a row is made of.
LEMMA RowParts ==
    ASSUME NEW r, NEW most, AsRow(r, most)
    PROVE  /\ r.scans \in 0..most
           /\ r = [fields |-> r.fields, byHand |-> r.byHand,
                   scans |-> r.scans, seen |-> r.seen]
<1>1. PICK fields, byHand, met : \E misses \in 0..most :
         r = [fields |-> fields, byHand |-> byHand, scans |-> misses, seen |-> met]
  BY DEF AsRow
<1>2. PICK misses \in 0..most :
         r = [fields |-> fields, byHand |-> byHand, scans |-> misses, seen |-> met]
  BY <1>1
<1> QED
  BY <1>2

LEMMA RowMade ==
    ASSUME NEW fields, NEW byHand, NEW met, NEW most, NEW misses \in 0..most
    PROVE  AsRow([fields |-> fields, byHand |-> byHand, scans |-> misses,
                  seen |-> met], most)
  BY DEF AsRow

\* A request that begins, ends or goes on leaves the others as they are.
LEMMA RequestKept ==
    ASSUME NotesInv, NEW q \in NT!Requests, NEW what,
           request' = [request EXCEPT ![q] = what],
           AsRequest(what)
    PROVE  RequestInv' /\ request' = [p \in NT!Requests |-> request'[p]]
<1>1. request = [p \in NT!Requests |-> request[p]] /\ RequestInv
  BY DEF NotesInv
<1>2. request' = [p \in NT!Requests |-> IF p = q THEN what ELSE request[p]]
  BY <1>1
<1>3. request' = [p \in NT!Requests |-> request'[p]]
  BY <1>2
<1>4. ASSUME NEW p \in NT!Requests
      PROVE  AsRequest(request'[p])
  <2>1. CASE p = q
    <3>1. request'[p] = what
      BY <1>2, <2>1
    <3> QED
      BY <1>4, <3>1
  <2>2. CASE p # q
    <3>1. request'[p] = request[p]
      BY <1>2, <2>2
    <3> QED
      BY <1>1, <1>4, <3>1 DEF RequestInv
  <2> QED
    BY <2>1, <2>2
<1>5. RequestInv'
  BY <1>4 DEF RequestInv
<1> QED
  BY <1>3, <1>5

\* What set_note leaves: a row that is there keeps its count, a new one has
\* none, and it is by hand as the writer says.
LEMMA WrittenRow ==
    ASSUME NEW r, NEW most \in Nat, r = NT!None \/ AsRow(r, most),
           NEW fields, NEW byHand, NEW met
    PROVE  \/ NT!Written(r, fields, byHand, met) = NT!None
           \/ /\ NT!Written(r, fields, byHand, met).byHand = byHand
              /\ AsRow(NT!Written(r, fields, byHand, met), most)
<1>1. CASE fields = {}
  BY <1>1 DEF NT!Written
<1>2. CASE fields # {} /\ r = NT!None
  <2>1. NT!Written(r, fields, byHand, met)
           = [fields |-> fields, byHand |-> byHand, scans |-> 0, seen |-> met]
    BY <1>2 DEF NT!Written
  <2>2. AsRow([fields |-> fields, byHand |-> byHand, scans |-> 0, seen |-> met], most)
    BY RowMade
  <2> QED
    BY <2>1, <2>2
<1>3. CASE fields # {} /\ r # NT!None
  <2>1. AsRow(r, most)
    BY <1>3
  <2>2. /\ r.scans \in 0..most
        /\ r = [fields |-> r.fields, byHand |-> r.byHand,
                scans |-> r.scans, seen |-> r.seen]
    BY <2>1, RowParts
  <2>3. NT!Written(r, fields, byHand, met)
           = [r EXCEPT !.fields = fields, !.byHand = byHand]
    BY <1>3 DEF NT!Written
  <2>4. NT!Written(r, fields, byHand, met)
           = [fields |-> fields, byHand |-> byHand, scans |-> r.scans, seen |-> r.seen]
    BY <2>2, <2>3
  <2>5. AsRow([fields |-> fields, byHand |-> byHand, scans |-> r.scans,
               seen |-> r.seen], most)
    BY <2>2, RowMade
  <2>6. NT!Written(r, fields, byHand, met).byHand = byHand
    BY <2>4
  <2>7. AsRow(NT!Written(r, fields, byHand, met), most)
    BY <2>4, <2>5
  <2> QED
    BY <2>6, <2>7, Zenon
<1> QED
  BY <1>1, <1>2, <1>3

\* A row read by a move, written at another place.
LEMMA MovedRow ==
    ASSUME NEW r, NEW most \in Nat, NEW other \in Nat, AsRow(r, other)
    PROVE  AsRow(NT!Moved(r), most)
<1>1. r = [fields |-> r.fields, byHand |-> r.byHand, scans |-> r.scans, seen |-> r.seen]
  BY RowParts
<1>2. NT!Moved(r) = [fields |-> r.fields, byHand |-> r.byHand, scans |-> 0, seen |-> TRUE]
  <2>1. NT!Moved(r) = [r EXCEPT !.scans = 0, !.seen = TRUE]
    BY DEF NT!Moved
  <2> QED
    BY <1>1, <2>1
<1>3. AsRow([fields |-> r.fields, byHand |-> r.byHand, scans |-> 0, seen |-> TRUE], most)
  BY RowMade
<1> QED
  BY <1>2, <1>3

\* The misses a node has been left out of, after one more.
LeftOut(most, n, screen) == IF screen[n] = "gone" THEN NT!More(most) ELSE 0

\* A scan that left the node out counts one more on both sides; one that did
\* not leaves nothing counted.
LEMMA ReconciledRow ==
    ASSUME NT!NotesAssumption, NEW r, NEW n, NEW most \in 0..MissingScans,
           r = NT!None \/ AsRow(r, most), NEW screen
    PROVE  /\ LeftOut(most, n, screen) \in 0..MissingScans
           /\ \/ NT!Reconciled(r, n, screen) = NT!None
              \/ AsRow(NT!Reconciled(r, n, screen), LeftOut(most, n, screen))
           /\ r = NT!None => NT!Reconciled(r, n, screen) = NT!None
           /\ r # NT!None => NT!Reconciled(r, n, screen).byHand = r.byHand
<1> DEFINE left == LeftOut(most, n, screen)
<1>1. MissingScans \in Nat
  BY DEF NT!NotesAssumption
<1>2. left \in 0..MissingScans
  BY <1>1 DEF NT!More, LeftOut
<1>3. CASE r = NT!None
  BY <1>2, <1>3 DEF NT!Reconciled
<1>4. CASE r # NT!None
  <2>1. /\ r.scans \in 0..most
        /\ r = [fields |-> r.fields, byHand |-> r.byHand,
                scans |-> r.scans, seen |-> r.seen]
    BY <1>4, RowParts
  <2>2. CASE screen[n] = "gone"
    <3>1. NT!Reconciled(r, n, screen) = [r EXCEPT !.scans = NT!More(r.scans)]
      BY <1>4, <2>2 DEF NT!Reconciled
    <3>2. NT!Reconciled(r, n, screen) = [fields |-> r.fields, byHand |-> r.byHand,
                                      scans |-> NT!More(r.scans), seen |-> r.seen]
      BY <2>1, <3>1
    <3>3. NT!More(r.scans) \in 0..left
      BY <1>1, <2>1, <2>2 DEF NT!More, LeftOut
    <3>4. AsRow([fields |-> r.fields, byHand |-> r.byHand,
                 scans |-> NT!More(r.scans), seen |-> r.seen], left)
      BY <3>3, RowMade
    <3> QED
      BY <1>2, <1>4, <3>2, <3>4
  <2>3. CASE screen[n] # "gone"
    <3>1. NT!Reconciled(r, n, screen) = [r EXCEPT !.scans = 0, !.seen = TRUE]
      BY <1>4, <2>3 DEF NT!Reconciled
    <3>2. NT!Reconciled(r, n, screen) = [fields |-> r.fields, byHand |-> r.byHand,
                                      scans |-> 0, seen |-> TRUE]
      BY <2>1, <3>1
    <3>3. 0 \in 0..left
      BY <1>1, <1>2
    <3>4. AsRow([fields |-> r.fields, byHand |-> r.byHand,
                 scans |-> 0, seen |-> TRUE], left)
      BY <3>3, RowMade
    <3> QED
      BY <1>2, <1>4, <3>2, <3>4
  <2> QED
    BY <2>2, <2>3
<1> QED
  BY <1>3, <1>4

\* One row is written, or none: the others stay.
LEMMA NoteWritten ==
    ASSUME NotesInv, NEW n \in NT!Nodes, NEW row, absent' = absent,
           notes' = [notes EXCEPT ![n] = row],
           row = NT!None \/ AsRow(row, absent[n])
    PROVE  /\ NoteInv' /\ notes' = [m \in NT!Nodes |-> notes'[m]]
           /\ absent' = [m \in NT!Nodes |-> absent'[m]]
           /\ notes'[n] = row /\ \A m \in NT!Nodes \ {n} : notes'[m] = notes[m]
<1>1. /\ notes = [m \in NT!Nodes |-> notes[m]] /\ absent = [m \in NT!Nodes |-> absent[m]]
      /\ \A m \in NT!Nodes : /\ absent[m] \in 0..MissingScans
                             /\ notes[m] = NT!None \/ AsRow(notes[m], absent[m])
  BY DEF NotesInv, NoteInv
<1>2. notes' = [m \in NT!Nodes |-> IF m = n THEN row ELSE notes[m]]
  BY <1>1
<1>3. notes'[n] = row /\ \A m \in NT!Nodes \ {n} : notes'[m] = notes[m]
  BY <1>2
<1>4. ASSUME NEW m \in NT!Nodes
      PROVE  /\ absent'[m] \in 0..MissingScans
             /\ notes'[m] = NT!None \/ AsRow(notes'[m], absent'[m])
  <2>1. absent'[m] = absent[m]
    OBVIOUS
  <2>2. CASE m = n
    BY <1>1, <1>3, <2>1, <2>2
  <2>3. CASE m # n
    BY <1>1, <1>3, <2>1, <2>3
  <2> QED
    BY <2>2, <2>3
<1>5. NoteInv'
  BY <1>4 DEF NoteInv
<1>6. notes' = [m \in NT!Nodes |-> notes'[m]]
  BY <1>2
<1> QED
  BY <1>1, <1>3, <1>5, <1>6

LEMMA NotesStart == NT!NotesAssumption /\ NT!Init => NotesInv
<1> SUFFICES ASSUME NT!NotesAssumption, NT!Init
             PROVE  NotesInv
  OBVIOUS
<1>1. /\ \A n \in NT!Nodes : notes[n] = NT!None /\ absent[n] = 0
      /\ \A q \in NT!Requests : request[q] = [does |-> "nothing"]
      /\ notes = [n \in NT!Nodes |-> notes[n]] /\ absent = [n \in NT!Nodes |-> absent[n]]
      /\ request = [q \in NT!Requests |-> request[q]]
  BY DEF NT!Init, NT!Idle
<1>2. NoteInv
  BY <1>1 DEF NoteInv, NT!NotesAssumption
<1>3. RequestInv
  BY <1>1 DEF RequestInv, AsRequest
<1> QED
  BY <1>1, <1>2, <1>3 DEF NotesInv

\* What the second property asks of one step.
HandStep ==
    \A n \in NT!Nodes :
       NT!Hand(n) /\ notes'[n] # NT!None /\ ~notes'[n].byHand
          => NT!Moving(n) \/ NT!Importing(n)

\* Every step keeps the invariant, and by it what is written by hand.
LEMMA ScanKeeps ==
    ASSUME NT!NotesAssumption, NotesInv, NT!ScanAnswered
    PROVE  NotesInv' /\ HandStep
<1>1. /\ notes = [m \in NT!Nodes |-> notes[m]] /\ absent = [m \in NT!Nodes |-> absent[m]]
      /\ request = [q \in NT!Requests |-> request[q]] /\ RequestInv
      /\ \A m \in NT!Nodes : /\ absent[m] \in 0..MissingScans
                             /\ notes[m] = NT!None \/ AsRow(notes[m], absent[m])
  BY DEF NotesInv, NoteInv
<1>2. /\ notes' = [n \in NT!Nodes |-> NT!Reconciled(notes[n], n, shown')]
      /\ absent' = [n \in NT!Nodes |-> IF shown'[n] = "gone"
                                       THEN NT!More(absent[n]) ELSE 0]
      /\ request' = request
  BY DEF NT!ScanAnswered
<1>3. ASSUME NEW n \in NT!Nodes
      PROVE  /\ absent'[n] \in 0..MissingScans
             /\ notes'[n] = NT!None \/ AsRow(notes'[n], absent'[n])
             /\ notes[n] = NT!None => notes'[n] = NT!None
             /\ notes[n] # NT!None => notes'[n].byHand = notes[n].byHand
  <2>1. notes'[n] = NT!Reconciled(notes[n], n, shown')
    BY <1>2
  <2>2. absent'[n] = LeftOut(absent[n], n, shown')
    BY <1>2 DEF LeftOut
  <2>3. /\ LeftOut(absent[n], n, shown') \in 0..MissingScans
        /\ \/ NT!Reconciled(notes[n], n, shown') = NT!None
           \/ AsRow(NT!Reconciled(notes[n], n, shown'), LeftOut(absent[n], n, shown'))
        /\ notes[n] = NT!None => NT!Reconciled(notes[n], n, shown') = NT!None
        /\ notes[n] # NT!None =>
              NT!Reconciled(notes[n], n, shown').byHand = notes[n].byHand
    <3>1. absent[n] \in 0..MissingScans
      BY <1>1
    <3>2. notes[n] = NT!None \/ AsRow(notes[n], absent[n])
      BY <1>1
    <3> QED
      BY <3>1, <3>2, ReconciledRow
  <2> QED
    BY <2>1, <2>2, <2>3
<1>4. NoteInv'
  BY <1>3 DEF NoteInv
<1>5. RequestInv'
  BY <1>1, <1>2 DEF RequestInv
<1>6. HandStep
  BY <1>3 DEF HandStep, NT!Hand, NT!Has
<1> QED
  BY <1>1, <1>2, <1>4, <1>5, <1>6 DEF NotesInv

\* A step of a request that leaves the notes alone.
LEMMA ReadKeeps ==
    ASSUME NotesInv, notes' = notes, absent' = absent, NEW q \in NT!Requests, NEW what,
           request' = [request EXCEPT ![q] = what],
           AsRequest(what)
    PROVE  NotesInv' /\ HandStep
<1>1. RequestInv' /\ request' = [p \in NT!Requests |-> request'[p]]
  BY RequestKept
<1>2. NoteInv' /\ notes' = [m \in NT!Nodes |-> notes'[m]]
      /\ absent' = [m \in NT!Nodes |-> absent'[m]]
  BY DEF NotesInv, NoteInv
<1>3. HandStep
  BY DEF HandStep, NT!Hand
<1> QED
  BY <1>1, <1>2, <1>3 DEF NotesInv

LEMMA IdleRequest == AsRequest(NT!Idle)
  BY DEF AsRequest, NT!Idle

LEMMA PutKeeps ==
    ASSUME NT!NotesAssumption, NotesInv, NEW q \in NT!Requests, NT!PutWrites(q)
    PROVE  NotesInv' /\ HandStep
<1> DEFINE r == request[q]
           row == NT!Written(notes[r.at], r.fields, TRUE, TRUE)
<1>1. absent' = absent /\ request' = [request EXCEPT ![q] = NT!Idle]
  BY DEF NT!PutWrites, NT!Ends
<1>2. notes' = [notes EXCEPT ![r.at] = row] \/ notes' = notes
  BY DEF NT!PutWrites
<1>3. RequestInv' /\ request' = [p \in NT!Requests |-> request'[p]]
  BY <1>1, RequestKept, IdleRequest
<1>4. r.at \in NT!Nodes
  BY DEF NotesInv, RequestInv, AsRequest, NT!PutWrites
<1>5. /\ absent[r.at] \in Nat
      /\ notes[r.at] = NT!None \/ AsRow(notes[r.at], absent[r.at])
  BY <1>4 DEF NotesInv, NoteInv
<1>6. row = NT!None \/ (row.byHand = TRUE /\ AsRow(row, absent[r.at]))
  BY <1>5, WrittenRow, Zenon
<1> HIDE DEF row
<1>7. CASE notes' = [notes EXCEPT ![r.at] = row]
  <2>1. row = NT!None \/ AsRow(row, absent[r.at])
    BY <1>6
  <2>2. /\ NoteInv' /\ notes' = [m \in NT!Nodes |-> notes'[m]]
        /\ absent' = [m \in NT!Nodes |-> absent'[m]]
        /\ notes'[r.at] = row /\ \A m \in NT!Nodes \ {r.at} : notes'[m] = notes[m]
    BY <1>1, <1>4, <1>7, <2>1, NoteWritten
  <2>3. ASSUME NEW n \in NT!Nodes, NT!Hand(n), notes'[n] # NT!None
        PROVE  notes'[n].byHand
    <3>1. CASE n = r.at
      BY <1>6, <2>2, <2>3, <3>1
    <3>2. CASE n # r.at
      BY <2>2, <2>3, <3>2 DEF NT!Hand
    <3> QED
      BY <3>1, <3>2
  <2>4. HandStep
    BY <2>3 DEF HandStep
  <2> QED
    BY <1>3, <2>2, <2>4 DEF NotesInv
<1>8. CASE notes' = notes
  BY <1>1, <1>8, ReadKeeps, IdleRequest
<1> QED
  BY <1>2, <1>7, <1>8

LEMMA DeleteKeeps ==
    ASSUME NT!NotesAssumption, NotesInv, NT!Delete
    PROVE  NotesInv' /\ HandStep
<1>1. PICK n \in NT!Nodes : notes' = [notes EXCEPT ![n] = NT!None]
  BY DEF NT!Delete
<1>2. absent' = absent /\ request' = request
  BY DEF NT!Delete
<1>3. /\ NoteInv' /\ notes' = [m \in NT!Nodes |-> notes'[m]]
      /\ absent' = [m \in NT!Nodes |-> absent'[m]]
      /\ notes'[n] = NT!None /\ \A m \in NT!Nodes \ {n} : notes'[m] = notes[m]
  BY <1>1, <1>2, NoteWritten
<1>4. RequestInv' /\ request' = [p \in NT!Requests |-> request'[p]]
  BY <1>2 DEF NotesInv, RequestInv
<1>5. HandStep
  BY <1>3 DEF HandStep, NT!Hand
<1> QED
  BY <1>3, <1>4, <1>5 DEF NotesInv

LEMMA MoveKeeps ==
    ASSUME NT!NotesAssumption, NotesInv, NEW q \in NT!Requests, NT!MoveWrites(q)
    PROVE  NotesInv' /\ HandStep
<1> DEFINE r == request[q]
           row == NT!Moved(notes[r.from])
<1>1. absent' = absent /\ request' = [request EXCEPT ![q] = NT!Idle]
  BY DEF NT!MoveWrites, NT!Ends
<1>2. \/ /\ NT!Has(r.from)
         /\ notes' = [notes EXCEPT ![r.at] = row, ![r.from] = NT!None]
      \/ notes' = notes
  BY DEF NT!MoveWrites
<1>3. RequestInv' /\ request' = [p \in NT!Requests |-> request'[p]]
  BY <1>1, RequestKept, IdleRequest
<1>4. r.at \in NT!Nodes /\ r.from \in NT!Nodes /\ r.does = "move"
  BY DEF NotesInv, RequestInv, AsRequest, NT!MoveWrites
<1>5. CASE NT!Has(r.from) /\ notes' = [notes EXCEPT ![r.at] = row, ![r.from] = NT!None]
  <2>1. /\ notes = [m \in NT!Nodes |-> notes[m]]
        /\ absent = [m \in NT!Nodes |-> absent[m]]
        /\ \A m \in NT!Nodes : /\ absent[m] \in 0..MissingScans
                               /\ notes[m] = NT!None \/ AsRow(notes[m], absent[m])
    BY DEF NotesInv, NoteInv
  <2>2. AsRow(notes[r.from], absent[r.from])
    BY <1>4, <1>5, <2>1 DEF NT!Has
  <2>3. absent[r.at] \in Nat /\ absent[r.from] \in Nat
    BY <1>4, <2>1
  <2>4. AsRow(row, absent[r.at])
    BY <2>2, <2>3, MovedRow
  <2> HIDE DEF row
  <2>5. notes' = [m \in NT!Nodes |-> IF m = r.from THEN NT!None
                                     ELSE IF m = r.at THEN row ELSE notes[m]]
    BY <1>4, <1>5, <2>1
  <2>6. ASSUME NEW m \in NT!Nodes
        PROVE  /\ absent'[m] \in 0..MissingScans
               /\ notes'[m] = NT!None \/ AsRow(notes'[m], absent'[m])
    <3>1. absent'[m] = absent[m]
      BY <1>1
    <3>2. CASE m = r.from
      BY <2>1, <2>5, <3>1, <3>2
    <3>3. CASE m # r.from /\ m = r.at
      <4>1. notes'[m] = row
        BY <2>5, <3>3
      <4> QED
        BY <2>1, <2>4, <3>1, <3>3, <4>1
    <3>4. CASE m # r.from /\ m # r.at
      <4>1. notes'[m] = notes[m]
        BY <2>5, <3>4
      <4> QED
        BY <2>1, <3>1, <4>1
    <3> QED
      BY <3>2, <3>3, <3>4
  <2>7. NoteInv'
    BY <2>6 DEF NoteInv
  <2>8. notes' = [m \in NT!Nodes |-> notes'[m]] /\ absent' = [m \in NT!Nodes |-> absent'[m]]
    BY <1>1, <2>1, <2>5
  <2>9. ASSUME NEW n \in NT!Nodes, NT!Hand(n), notes'[n] # NT!None, ~notes'[n].byHand
        PROVE  NT!Moving(n)
    <3>1. n # r.from
      BY <2>5, <2>9
    <3>2. n = r.at
      BY <2>5, <2>9, <3>1 DEF NT!Hand
    <3> QED
      BY <1>4, <3>2 DEF NT!Moving
  <2>10. HandStep
    BY <2>9 DEF HandStep
  <2> QED
    BY <1>3, <2>7, <2>8, <2>10 DEF NotesInv
<1>6. CASE notes' = notes
  BY <1>1, <1>6, ReadKeeps, IdleRequest
<1> QED
  BY <1>2, <1>5, <1>6

\* What an import has planned is what it did not find written by hand.
LEMMA PlannedImport ==
    ASSUME NT!NotesAssumption, NEW lines \in NT!Imports, NEW what,
           what = [does |-> "import", plan |-> NT!Planned(lines),
                   byHand |-> {n \in NT!Nodes : NT!Hand(n)}]
    PROVE  AsRequest(what)
<1>1. DOMAIN lines \subseteq Devices
  <2>1. PICK csv \in Files : lines = NT!ImportRows(csv)
    BY DEF NT!Imports
  <2>2. DOMAIN lines = {csv[i].mac : i \in {j \in DOMAIN csv :
                          csv[j].mac \in Devices /\ csv[j].cells # {}}}
    BY <2>1 DEF NT!ImportRows
  <2> QED
    BY <2>2
<1> DEFINE plan == NT!Planned(lines)
           byHand == {n \in NT!Nodes : NT!Hand(n)}
<1>2. DOMAIN plan = {e \in DOMAIN lines : ~NT!Hand(e)}
  BY DEF NT!Planned
<1>3. DOMAIN plan \subseteq Devices /\ DOMAIN plan \cap byHand = {}
  BY <1>1, <1>2
<1>4. what = [does |-> "import", plan |-> plan, byHand |-> byHand]
  OBVIOUS
<1> HIDE DEF plan, byHand
<1>5. AsImport(what)
  BY <1>3, <1>4 DEF AsImport
<1>6. what.does = "import"
  BY <1>4
<1> QED
  BY <1>5, <1>6 DEF AsRequest

\* One row fewer to write.
LEMMA ImportGoesOn ==
    ASSUME NEW x, AsImport(x), NEW d \in DOMAIN x.plan
    PROVE  /\ AsRequest([x EXCEPT !.plan = [e \in DOMAIN x.plan \ {d} |-> x.plan[e]]])
           /\ d \in Devices /\ d \notin x.byHand /\ x.does = "import"
<1>1. PICK plan, byHand :
         /\ x = [does |-> "import", plan |-> plan, byHand |-> byHand]
         /\ DOMAIN plan \subseteq Devices /\ DOMAIN plan \cap byHand = {}
  BY DEF AsImport
<1> DEFINE rest == [e \in DOMAIN x.plan \ {d} |-> x.plan[e]]
           y == [x EXCEPT !.plan = rest]
<1>2. x.plan = plan /\ x.byHand = byHand /\ x.does = "import"
  BY <1>1
<1>3. DOMAIN rest \subseteq Devices /\ DOMAIN rest \cap byHand = {}
  BY <1>1, <1>2
<1> HIDE DEF rest
<1>4. y = [does |-> "import", plan |-> rest, byHand |-> byHand]
  BY <1>1
<1> HIDE DEF y
<1>5. AsImport(y)
  BY <1>3, <1>4 DEF AsImport
<1>6. y.does = "import"
  BY <1>4
<1>7. AsRequest(y)
  BY <1>5, <1>6 DEF AsRequest
<1>8. d \in Devices /\ d \notin x.byHand
  BY <1>1, <1>2
<1> QED
  BY <1>2, <1>7, <1>8 DEF y, rest

LEMMA ImportKeeps ==
    ASSUME NT!NotesAssumption, NotesInv, NEW q \in NT!Requests, NT!ImportWrites(q)
    PROVE  NotesInv' /\ HandStep
<1>0. PICK p \in {request[q].plan} : \E d \in DOMAIN p :
         /\ notes' = [notes EXCEPT ![d] =
                        NT!Written(notes[d], p[d].fields, FALSE, p[d].found)]
         /\ request' = [request EXCEPT ![q].plan = [e \in DOMAIN p \ {d} |-> p[e]]]
  BY DEF NT!ImportWrites
<1>1. PICK d \in DOMAIN p :
         /\ notes' = [notes EXCEPT ![d] =
                        NT!Written(notes[d], p[d].fields, FALSE, p[d].found)]
         /\ request' = [request EXCEPT ![q].plan = [e \in DOMAIN p \ {d} |-> p[e]]]
  BY <1>0
<1> DEFINE r == request[q]
           row == NT!Written(notes[d], p[d].fields, FALSE, p[d].found)
           rest == [r EXCEPT !.plan = [e \in DOMAIN r.plan \ {d} |-> r.plan[e]]]
<1>2. absent' = absent
  BY DEF NT!ImportWrites
<1>3. AsImport(r)
  BY DEF NotesInv, RequestInv, AsRequest, NT!ImportWrites
<1>4. AsRequest(rest) /\ d \in Devices /\ d \notin r.byHand /\ r.does = "import"
  BY <1>1, <1>3, ImportGoesOn
<1>5. request' = [request EXCEPT ![q] = rest]
  <2>1. p = r.plan
    OBVIOUS
  <2> QED
    BY <1>1, <2>1
<1> HIDE DEF rest
<1>6. RequestInv' /\ request' = [u \in NT!Requests |-> request'[u]]
  BY <1>4, <1>5, RequestKept
<1>7. d \in NT!Nodes
  BY <1>4 DEF NT!Nodes
<1>8. /\ absent[d] \in Nat
      /\ notes[d] = NT!None \/ AsRow(notes[d], absent[d])
  BY <1>7 DEF NotesInv, NoteInv
<1>9. row = NT!None \/ AsRow(row, absent[d])
  BY <1>8, WrittenRow, Zenon
<1>10. notes' = [notes EXCEPT ![d] = row]
  BY <1>1
<1> HIDE DEF row
<1>11. /\ NoteInv' /\ notes' = [m \in NT!Nodes |-> notes'[m]]
       /\ absent' = [m \in NT!Nodes |-> absent'[m]]
       /\ notes'[d] = row /\ \A m \in NT!Nodes \ {d} : notes'[m] = notes[m]
  BY <1>2, <1>7, <1>9, <1>10, NoteWritten
<1>12. NT!Importing(d)
  BY <1>1, <1>4 DEF NT!Importing
<1>13. ASSUME NEW n \in NT!Nodes, NT!Hand(n), notes'[n] # NT!None, ~notes'[n].byHand
       PROVE  NT!Importing(n)
  <2>1. CASE n = d
    BY <1>12, <2>1
  <2>2. CASE n # d
    BY <1>11, <1>13, <2>2 DEF NT!Hand
  <2> QED
    BY <2>1, <2>2
<1>14. HandStep
  BY <1>13 DEF HandStep
<1> QED
  BY <1>6, <1>11, <1>14 DEF NotesInv

LEMMA NotesStep == NT!NotesAssumption /\ NotesInv /\ [NT!Next]_(NT!notesVars) =>
                      NotesInv' /\ (HandStep \/ UNCHANGED NT!notesVars)
<1> SUFFICES ASSUME NT!NotesAssumption, NotesInv, NT!Next \/ UNCHANGED NT!notesVars
             PROVE  NotesInv' /\ (HandStep \/ UNCHANGED NT!notesVars)
  OBVIOUS
<1>1. CASE NT!ScanAnswered
  BY <1>1, ScanKeeps
<1>2. CASE NT!ScanSilent
  <2>1. notes' = notes /\ request' = request /\ absent' = absent
    BY <1>2 DEF NT!ScanSilent
  <2>2. NotesInv'
    BY <2>1 DEF NotesInv, NoteInv, RequestInv
  <2>3. HandStep
    BY <2>1 DEF HandStep, NT!Hand
  <2> QED
    BY <2>2, <2>3
<1>3. CASE NT!Delete
  BY <1>3, DeleteKeeps
<1>4. ASSUME NEW q \in Writers, NT!PutReads(q) \/ NT!MoveReads(q)
      PROVE  NotesInv' /\ HandStep
  <2>1. q \in NT!Requests
    BY DEF NT!Requests
  <2>2. PICK what : /\ request' = [request EXCEPT ![q] = what]
                    /\ AsRequest(what) /\ notes' = notes /\ absent' = absent
    <3>1. CASE NT!PutReads(q)
      BY <3>1 DEF NT!PutReads, NT!Begins, AsRequest
    <3>2. CASE NT!MoveReads(q)
      BY <3>2 DEF NT!MoveReads, NT!Begins, AsRequest
    <3> QED
      BY <1>4, <3>1, <3>2
  <2> QED
    BY <2>1, <2>2, ReadKeeps
<1>5. ASSUME NEW q \in Writers, NT!PutWrites(q) \/ NT!MoveWrites(q)
      PROVE  NotesInv' /\ HandStep
  <2>1. q \in NT!Requests
    BY DEF NT!Requests
  <2> QED
    BY <1>5, <2>1, PutKeeps, MoveKeeps
<1>6. ASSUME NEW q \in Importers, NT!ImportReads(q)
      PROVE  NotesInv' /\ HandStep
  <2>1. q \in NT!Requests
    BY DEF NT!Requests
  <2>2. PICK lines \in NT!Imports :
           request' = [request EXCEPT ![q] =
              [does |-> "import", plan |-> NT!Planned(lines),
               byHand |-> {n \in NT!Nodes : NT!Hand(n)}]]
    BY <1>6 DEF NT!ImportReads, NT!Begins
  <2>3. notes' = notes /\ absent' = absent
    BY <1>6 DEF NT!ImportReads
  <2>4. AsRequest([does |-> "import", plan |-> NT!Planned(lines),
                   byHand |-> {n \in NT!Nodes : NT!Hand(n)}])
    BY PlannedImport
  <2> QED
    BY <2>1, <2>2, <2>3, <2>4, ReadKeeps
<1>7. ASSUME NEW q \in Importers, NT!ImportWrites(q)
      PROVE  NotesInv' /\ HandStep
  BY <1>7, ImportKeeps DEF NT!Requests
<1>8. ASSUME NEW q \in Importers, NT!ImportEnds(q)
      PROVE  NotesInv' /\ HandStep
  <2>1. q \in NT!Requests
    BY DEF NT!Requests
  <2>2. /\ request' = [request EXCEPT ![q] = NT!Idle]
        /\ notes' = notes /\ absent' = absent
    BY <1>8 DEF NT!ImportEnds, NT!Ends
  <2> QED
    BY <2>1, <2>2, IdleRequest, ReadKeeps
<1>9. CASE UNCHANGED NT!notesVars
  BY <1>9 DEF NT!notesVars, NotesInv, NoteInv, RequestInv
<1> QED
  BY <1>1, <1>2, <1>3, <1>4, <1>5, <1>6, <1>7, <1>8, <1>9 DEF NT!Next

LEMMA NotesInvImplies == NotesInv /\ NT!NotesAssumption => NT!MissingIsTrue
<1> SUFFICES ASSUME NotesInv, NT!NotesAssumption, NEW n \in NT!Nodes, NT!Missing(n)
             PROVE  absent[n] >= MissingScans
  BY DEF NT!MissingIsTrue
<1>1. AsRow(notes[n], absent[n]) /\ absent[n] \in 0..MissingScans
  BY DEF NotesInv, NoteInv, NT!Missing, NT!Has
<1>2. notes[n].scans \in 0..absent[n]
  BY <1>1, RowParts
<1>3. MissingScans \in Nat /\ notes[n].scans >= MissingScans
  BY DEF NT!Missing, NT!NotesAssumption
<1> QED
  BY <1>1, <1>2, <1>3

\* A note is called missing only when its node has been left out of that many
\* answered misses in a row, and what somebody wrote by hand becomes an imported
\* note only by a move over it or an import that read before it was written.
LEMMA NotesKept ==
    NT!NotesAssumption => (NT!Spec => []NT!MissingIsTrue /\ NT!HandKept)
<1> SUFFICES ASSUME NT!NotesAssumption
             PROVE  NT!Spec => []NT!MissingIsTrue /\ NT!HandKept
  OBVIOUS
<1>1. NT!Init => NotesInv
  BY NotesStart
<1>2. NotesInv /\ [NT!Next]_(NT!notesVars) => NotesInv'
  BY NotesStep
<1>3. NotesInv /\ [NT!Next]_(NT!notesVars) =>
        [\A n \in NT!Nodes :
            NT!Hand(n) /\ notes'[n] # NT!None /\ ~notes'[n].byHand
               => NT!Moving(n) \/ NT!Importing(n)]_(NT!notesVars)
  BY NotesStep DEF HandStep
<1>4. NotesInv => NT!MissingIsTrue
  BY NotesInvImplies
<1> QED
  BY <1>1, <1>2, <1>3, <1>4, PTL DEF NT!Spec, NT!HandKept

-----------------------------------------------------------------------------
(* Spanning *)

JudgedNow == [kind |-> IF SP!Groups = {} THEN "not_operating"
                       ELSE IF SP!Cardinality(SP!Groups) = 1 THEN "single"
                       ELSE "fragmented",
              groups |-> SP!Groups]

\* A verdict is about the network that is there; every agent speaks of its
\* switch in one of the ways it may.
SpanningInv ==
    /\ tree \in SP!Trees
    /\ DOMAIN answer = Switches
    /\ \A b \in Switches : answer[b] \in SP!SaysOf(b, tree[b])
    /\ verdict = SP!Unjudged \/ verdict = JudgedNow

\* What is behind the answer of a switch that operates.
LEMMA OperatesInTree ==
    ASSUME SP!SpanningAssumption, SpanningInv, NEW b \in Switches, SP!Operating(b)
    PROVE  /\ answer[b] \in SP!Plain(b, tree[b])
           /\ answer[b].root # SP!NoRoot
           /\ tree[b] # SP!Off => answer[b].root = tree[b]
           /\ tree[b] = SP!Off => answer[b].root = b /\ answer[b].changes
<1>1. answer[b] \in SP!Plain(b, tree[b]) \cup SP!Zeros \cup SP!Rootless \cup SP!Mute
  BY DEF SpanningInv, SP!SaysOf
<1>2. answer[b] \notin SP!Zeros /\ answer[b] \notin SP!Rootless /\ answer[b] \notin SP!Mute
  BY DEF SP!Operating, SP!Zeros, SP!Rootless, SP!Mute, SP!Foreign, SP!ReportsNothing
<1>3. answer[b] \in SP!Plain(b, tree[b])
  BY <1>1, <1>2
<1>4. answer[b].root = (IF tree[b] = SP!Off THEN b ELSE tree[b])
  BY <1>3 DEF SP!Plain
<1>5. answer[b].root # SP!NoRoot
  BY DEF SP!Operating, SP!Foreign
<1>6. ASSUME tree[b] = SP!Off PROVE answer[b].changes
  BY <1>4, <1>6 DEF SP!Operating, SP!Foreign
<1> QED
  BY <1>3, <1>4, <1>5, <1>6

\* Two switches of one group are in one tree, the root's own agent included.
LEMMA RootIsTree ==
    ASSUME SP!SpanningAssumption, SpanningInv, NEW b \in Switches, SP!InTree(b)
    PROVE  \/ tree[b] # SP!Off /\ SP!EffectiveRoot(b) = tree[b]
           \/ tree[b] = SP!Off /\ SP!EffectiveRoot(b) = b /\ answer[b].changes
<1>1. CASE SP!ConfirmedRoot(b)
  <2>1. PICK w \in Switches \ {b} : SP!Operating(w) /\ answer[w].root = b
    BY <1>1 DEF SP!ConfirmedRoot
  <2>2. tree[w] = b
    <3>1. b # w
      BY <2>1
    <3> QED
      BY <2>1, <3>1, OperatesInTree
  <2>3. tree[b] = b
    BY <2>2 DEF SpanningInv, SP!Trees
  <2>4. b # SP!Off
    BY DEF SP!SpanningAssumption
  <2> QED
    BY <1>1, <2>3, <2>4 DEF SP!EffectiveRoot
<1>2. CASE ~SP!ConfirmedRoot(b)
  BY <1>2, OperatesInTree DEF SP!InTree, SP!EffectiveRoot
<1> QED
  BY <1>1, <1>2

LEMMA SameTree ==
    ASSUME SP!SpanningAssumption, SpanningInv, NEW b \in Switches, NEW c \in Switches,
           SP!InTree(b), SP!InTree(c), SP!EffectiveRoot(b) = SP!EffectiveRoot(c)
    PROVE  tree[b] = tree[c]
<1>1. \A x \in Switches : tree[x] \in Switches => tree[tree[x]] = tree[x]
  BY DEF SpanningInv, SP!Trees
<1>2. SP!Off \notin Switches
  BY DEF SP!SpanningAssumption
<1>3. \/ tree[b] # SP!Off /\ SP!EffectiveRoot(b) = tree[b]
      \/ tree[b] = SP!Off /\ SP!EffectiveRoot(b) = b
  BY RootIsTree
<1>4. \/ tree[c] # SP!Off /\ SP!EffectiveRoot(c) = tree[c]
      \/ tree[c] = SP!Off /\ SP!EffectiveRoot(c) = c
  BY RootIsTree
<1> QED
  BY <1>1, <1>2, <1>3, <1>4

LEMMA GroupsFinite ==
    ASSUME SP!SpanningAssumption
    PROVE  IsFiniteSet(SP!Groups)
<1>1. IsFiniteSet(Switches)
  BY DEF SP!SpanningAssumption, SP!IsFiniteSet, IsFiniteSet
<1>2. SP!Groups \subseteq SUBSET Switches
  BY DEF SP!Groups
<1>3. IsFiniteSet(SUBSET Switches)
  BY <1>1, FS_SUBSET
<1> QED
  BY <1>2, <1>3, FS_Subset

LEMMA VerdictHolds ==
    ASSUME SP!SpanningAssumption, SpanningInv
    PROVE  SP!VerdictIsTrue
<1> SUFFICES ASSUME verdict # SP!Unjudged
             PROVE  /\ verdict.kind = "fragmented" =>
                         \/ \E b, c \in Switches : /\ tree[b] # tree[c]
                                                   /\ SP!Off \notin {tree[b], tree[c]}
                         \/ \E b \in Switches : tree[b] = SP!Off /\ answer[b].changes
                    /\ \A g \in verdict.groups : \A b, c \in g : tree[b] = tree[c]
                    /\ \A b \in Switches : SP!Speaks(b) /\ tree[b] \notin {SP!Off, b} =>
                         \E g \in verdict.groups : {b, tree[b]} \ {Outside} \subseteq g
  BY DEF SP!VerdictIsTrue
<1>1. verdict = JudgedNow /\ verdict.groups = SP!Groups
  BY DEF SpanningInv, JudgedNow
<1>2. ASSUME NEW g \in SP!Groups, NEW b \in g, NEW c \in g PROVE tree[b] = tree[c]
  <2>1. PICK r : g = {x \in Switches : SP!InTree(x) /\ SP!EffectiveRoot(x) = r}
    BY DEF SP!Groups
  <2>2. /\ b \in Switches /\ SP!InTree(b) /\ SP!EffectiveRoot(b) = r
        /\ c \in Switches /\ SP!InTree(c) /\ SP!EffectiveRoot(c) = r
    BY <2>1
  <2> QED
    BY <2>2, SameTree
<1>3. ASSUME verdict.kind = "fragmented"
      PROVE  \/ \E b, c \in Switches : /\ tree[b] # tree[c]
                                       /\ SP!Off \notin {tree[b], tree[c]}
             \/ \E b \in Switches : tree[b] = SP!Off /\ answer[b].changes
  <2>1. SP!Groups # {} /\ SP!Cardinality(SP!Groups) # 1
    BY <1>1, <1>3 DEF JudgedNow
  <2>2. PICK g, h : g \in SP!Groups /\ h \in SP!Groups /\ g # h
    <3>1. PICK g \in SP!Groups : TRUE
      BY <2>1
    <3>2. CASE SP!Groups = {g}
      <4>1. Cardinality(SP!Groups) = 1
        BY <3>2, FS_Singleton
      <4> QED
        BY <2>1, <4>1 DEF SP!Cardinality, Cardinality
    <3>3. CASE SP!Groups # {g}
      BY <3>1, <3>3
    <3> QED
      BY <3>2, <3>3
  <2>3. PICK b \in Switches :
           /\ SP!InTree(b)
           /\ g = {x \in Switches : SP!InTree(x) /\ SP!EffectiveRoot(x) = SP!EffectiveRoot(b)}
    BY <2>2 DEF SP!Groups
  <2>4. PICK c \in Switches :
           /\ SP!InTree(c)
           /\ h = {x \in Switches : SP!InTree(x) /\ SP!EffectiveRoot(x) = SP!EffectiveRoot(c)}
    BY <2>2 DEF SP!Groups
  <2>5. SP!EffectiveRoot(b) # SP!EffectiveRoot(c)
    BY <2>2, <2>3, <2>4
  <2>6. \/ tree[b] # SP!Off /\ SP!EffectiveRoot(b) = tree[b]
        \/ tree[b] = SP!Off /\ answer[b].changes
    BY <2>3, RootIsTree
  <2>7. \/ tree[c] # SP!Off /\ SP!EffectiveRoot(c) = tree[c]
        \/ tree[c] = SP!Off /\ answer[c].changes
    BY <2>4, RootIsTree
  <2> QED
    BY <2>5, <2>6, <2>7
<1>4. ASSUME NEW b \in Switches, SP!Speaks(b), tree[b] \notin {SP!Off, b}
      PROVE  \E g \in SP!Groups : {b, tree[b]} \ {Outside} \subseteq g
  <2>1. /\ answer[b].supported /\ answer[b].root = tree[b] /\ answer[b].far
        /\ tree[b] \in Switches \cup {Outside, SP!Off}
    BY <1>4 DEF SP!Speaks, SP!Plain, SpanningInv, SP!Trees
  <2>2. tree[b] # SP!NoRoot
    BY <1>4, <2>1 DEF SP!SpanningAssumption
  <2>3. SP!Operating(b)
    BY <1>4, <2>1, <2>2 DEF SP!Operating, SP!Foreign
  <2>4. SP!InTree(b) /\ SP!EffectiveRoot(b) = tree[b]
    BY <2>1, <2>3 DEF SP!InTree, SP!EffectiveRoot, SP!ConfirmedRoot
  <2> DEFINE g == {x \in Switches : SP!InTree(x) /\ SP!EffectiveRoot(x) = tree[b]}
  <2>5. g \in SP!Groups /\ b \in g
    BY <2>4 DEF SP!Groups
  <2>6. ASSUME tree[b] # Outside PROVE tree[b] \in g
    <3> DEFINE r == tree[b]
    <3>1. r \in Switches /\ r # b
      BY <1>4, <2>1, <2>6
    <3>2. tree[r] = r
      BY <3>1 DEF SpanningInv, SP!Trees
    <3>3. CASE SP!Operating(r)
      <4>1. SP!InTree(r)
        BY <3>3 DEF SP!InTree
      <4>2. SP!EffectiveRoot(r) = r
        BY <1>4, <3>1, <3>2, <4>1, RootIsTree
      <4> QED
        BY <3>1, <4>1, <4>2
    <3>4. CASE ~SP!Operating(r)
      <4>1. IsFiniteSet(Switches)
        BY DEF SP!SpanningAssumption, SP!IsFiniteSet, IsFiniteSet
      <4>2. Cardinality(Switches) >= 2
        <5>1. IsFiniteSet({r, b}) /\ Cardinality({r, b}) = 2
          <6>1. IsFiniteSet({b}) /\ Cardinality({b}) = 1
            BY FS_Singleton
          <6>2. {r, b} = {b} \cup {r} /\ r \notin {b}
            BY <3>1
          <6> QED
            BY <6>1, <6>2, FS_AddElement
        <5>2. {r, b} \subseteq Switches
          BY <3>1
        <5>3. Cardinality(Switches) \in Nat /\ Cardinality({r, b}) <= Cardinality(Switches)
          BY <4>1, <5>2, FS_Subset, FS_CardinalityType
        <5> QED
          BY <5>1, <5>3
      <4>3. SP!Cardinality(Switches) >= 2
        BY <4>2 DEF SP!Cardinality, Cardinality
      <4>4. SP!ConfirmedRoot(r)
        BY <2>1, <2>3, <3>1, <3>4, <4>3 DEF SP!ConfirmedRoot
      <4> QED
        BY <3>1, <4>4 DEF SP!InTree, SP!EffectiveRoot
    <3> QED
      BY <3>3, <3>4
  <2> QED
    BY <2>5, <2>6
<1> QED
  BY <1>1, <1>2, <1>3, <1>4

LEMMA SameNetwork ==
    ASSUME answer' = answer
    PROVE  JudgedNow' = JudgedNow
<1>1. \A b \in Switches : SP!Operating(b)' <=> SP!Operating(b)
  BY DEF SP!Operating, SP!Foreign, SP!ReportsNothing
<1>2. \A b \in Switches : SP!ConfirmedRoot(b)' <=> SP!ConfirmedRoot(b)
  BY <1>1 DEF SP!ConfirmedRoot
<1>3. \A b \in Switches : SP!InTree(b)' <=> SP!InTree(b)
  BY <1>1, <1>2 DEF SP!InTree
<1>4. \A b \in Switches : SP!EffectiveRoot(b)' = SP!EffectiveRoot(b)
  BY <1>2 DEF SP!EffectiveRoot
<1>5. SP!Groups' = SP!Groups
  <2> DEFINE roots == {SP!EffectiveRoot(b) : b \in {c \in Switches : SP!InTree(c)}}
             roots2 == {SP!EffectiveRoot(b)' : b \in {c \in Switches : SP!InTree(c)'}}
             group(r) == {b \in Switches : SP!InTree(b) /\ SP!EffectiveRoot(b) = r}
             group2(r) == {b \in Switches : SP!InTree(b)' /\ SP!EffectiveRoot(b)' = r}
  <2>1. SP!Groups = {group(r) : r \in roots} /\ SP!Groups' = {group2(r) : r \in roots2}
    BY DEF SP!Groups
  <2>2. roots2 = roots /\ \A r : group2(r) = group(r)
    BY <1>3, <1>4
  <2> HIDE DEF roots, roots2, group, group2
  <2> QED
    BY <2>1, <2>2
<1> QED
  BY <1>5 DEF JudgedNow

\* The verdict is about the network that is there, for any number of switches.
LEMMA SpanningVerdict ==
    SP!SpanningAssumption => (SP!Spec => []SP!VerdictIsTrue)
<1> SUFFICES ASSUME SP!SpanningAssumption PROVE SP!Spec => []SP!VerdictIsTrue
  OBVIOUS
<1>1. SP!Init => SpanningInv
  BY DEF SP!Init, SpanningInv
<1>2. SpanningInv /\ [SP!Next]_SP!spanningVars => SpanningInv'
  <2> SUFFICES ASSUME SpanningInv, SP!Next \/ UNCHANGED SP!spanningVars
               PROVE  SpanningInv'
    OBVIOUS
  <2>1. CASE UNCHANGED SP!spanningVars
    BY <2>1, SameNetwork DEF SP!spanningVars, SpanningInv
  <2>2. CASE SP!Judged
    <3>1. tree' = tree /\ answer' = answer /\ verdict' = JudgedNow
      BY <2>2 DEF SP!Judged, JudgedNow
    <3>2. JudgedNow' = JudgedNow
      BY <3>1, SameNetwork
    <3> QED
      BY <3>1, <3>2 DEF SpanningInv
  <2>3. CASE SP!SwitchChanges
    <3>1. verdict' = SP!Unjudged /\ tree' \in SP!Trees
      BY <2>3 DEF SP!SwitchChanges
    <3>2. PICK b \in Switches, t \in Switches \cup {Outside, SP!Off} :
             /\ tree' = [tree EXCEPT ![b] = t]
             /\ \E a \in SP!SaysOf(b, t) : answer' = [answer EXCEPT ![b] = a]
      BY <2>3 DEF SP!SwitchChanges
    <3>3. PICK a \in SP!SaysOf(b, t) : answer' = [answer EXCEPT ![b] = a]
      BY <3>2
    <3>4. /\ tree'[b] = t /\ \A c \in Switches \ {b} : tree'[c] = tree[c]
          /\ answer'[b] = a /\ \A c \in Switches \ {b} : answer'[c] = answer[c]
          /\ DOMAIN answer' = Switches
      BY <3>2, <3>3 DEF SpanningInv, SP!Trees
    <3>5. \A c \in Switches : answer'[c] \in SP!SaysOf(c, tree'[c])
      <4> TAKE c \in Switches
      <4>1. CASE c = b
        BY <3>4, <4>1
      <4>2. CASE c # b
        BY <3>4, <4>2 DEF SpanningInv
      <4> QED
        BY <4>1, <4>2
    <3>6. SP!Unjudged' = SP!Unjudged
      BY DEF SP!Unjudged
    <3> QED
      BY <3>1, <3>4, <3>5 DEF SpanningInv
  <2> QED
    BY <2>1, <2>2, <2>3 DEF SP!Next
<1>3. SpanningInv => SP!VerdictIsTrue
  BY VerdictHolds
<1> QED
  BY <1>1, <1>2, <1>3, PTL DEF SP!Spec

-----------------------------------------------------------------------------
(* LoopDetection *)

LoopTyped == model \in Models /\ truth \in LD!Truths /\ table \in LD!Ports

LEMMA LoopParts ==
    ASSUME LD!LoopAssumption, LoopTyped
    PROVE  /\ N \in Nat \ {0} /\ table \in Nat /\ table >= 1 /\ table <= N
           /\ truth.on \in BOOLEAN /\ truth.watched \subseteq 1..N
           /\ truth.loops \subseteq 1..N /\ model.shift \in Nat
<1>1. N \in Nat \ {0} /\ \A m \in Models : m.shift \in Nat
  BY DEF LD!LoopAssumption
<1>2. truth \in [on : BOOLEAN, watched : SUBSET (1..N), loops : SUBSET (1..N)]
      /\ table \in 1..N /\ model \in Models
  BY DEF LoopTyped, LD!Truths, LD!Ports
<1> QED
  BY <1>1, <1>2

LEMMA AnswerParts ==
    ASSUME LD!LoopAssumption, NEW a \in LD!Answers
    PROVE  a.index \in 0..N /\ a.enabled \in 0..N /\ a.status \in 0..N
<1>1. N \in Nat \ {0}
  BY DEF LD!LoopAssumption
<1>2. CASE a \in [gets : {TRUE}, index : 1..N, enabled : 0..N, status : 0..N]
  BY <1>1, <1>2
<1>3. CASE a \in [gets : BOOLEAN, index : {0}, enabled : {0}, status : {0}]
  BY <1>1, <1>3
<1> QED
  BY <1>2, <1>3 DEF LD!Answers, LD!Ports

\* As many rows as the longest of the three columns brought.
LEMMA RowCountParts ==
    ASSUME LD!LoopAssumption, NEW a \in LD!Answers
    PROVE  /\ LD!RowCount(a) \in 0..N
           /\ a.index <= LD!RowCount(a) /\ a.status <= LD!RowCount(a)
<1> DEFINE S == {a.index, a.enabled, a.status}
           Top(k) == \A j \in S : j <= k
<1>1. a.index \in 0..N /\ a.enabled \in 0..N /\ a.status \in 0..N /\ N \in Nat
  BY AnswerParts DEF LD!LoopAssumption
<1>2. \E k \in S : Top(k)
  <2>1. Top(a.index) \/ Top(a.enabled) \/ Top(a.status)
    BY <1>1
  <2> QED
    BY <2>1
<1>3. LD!RowCount(a) = CHOOSE k \in S : Top(k)
  BY DEF LD!RowCount
<1>4. LD!RowCount(a) \in S /\ Top(LD!RowCount(a))
  <2> HIDE DEF S, Top
  <2> QED
    BY <1>2, <1>3
<1> QED
  BY <1>1, <1>4

\* A reading of the switch's own branch.
LEMMA ReadingParts ==
    ASSUME LD!LoopAssumption, LoopTyped, NEW a \in LD!Answers, LD!Chosen(a) # {}
    PROVE  LET d == LD!Reading(a)
           IN  /\ d.polled = TRUE /\ d.supported = TRUE
               /\ d.branch = model.own /\ d.enabled = truth.on
               /\ DOMAIN d.ports = LD!RowNumbers(a) \cap 1..table
               /\ \A p \in DOMAIN d.ports : d.ports[p] = LD!RowOf(p, a)
               /\ d.mismatch = LD!Mismatch(LD!RowNumbers(a))
               /\ d.truncated = (a.status \in 1..(N - 1))
               /\ a.index > 0
<1> DEFINE d == LD!Reading(a)
           numbers == LD!RowNumbers(a)
           own == CHOOSE f \in LD!Chosen(a) : TRUE
<1>1. \A f \in LD!Chosen(a) : f = model.own /\ a.index > 0
  BY DEF LD!Chosen, LD!Accepted, LD!HasRows
<1>2. own \in LD!Chosen(a)
  OBVIOUS
<1>3. own = model.own /\ a.index > 0
  BY <1>1, <1>2
<1>4. d = [polled |-> TRUE, supported |-> TRUE,
           branch |-> own, enabled |-> truth.on,
           ports |-> [r \in LD!Mapped(numbers) |-> LD!RowOf(r, a)],
           mismatch |-> LD!Mismatch(numbers),
           truncated |-> a.status \in 1..(N - 1)]
  BY DEF LD!Reading
<1> HIDE DEF own, d
<1>5. LD!Mapped(numbers) = numbers \cap 1..table
  BY DEF LD!Mapped
<1> HIDE DEF numbers
<1>6. /\ d.polled = TRUE /\ d.supported = TRUE /\ d.branch = own /\ d.enabled = truth.on
      /\ d.ports = [r \in LD!Mapped(numbers) |-> LD!RowOf(r, a)]
      /\ d.mismatch = LD!Mismatch(numbers)
      /\ d.truncated = (a.status \in 1..(N - 1))
  BY <1>4
<1>7. /\ DOMAIN d.ports = numbers \cap 1..table
      /\ \A p \in DOMAIN d.ports : d.ports[p] = LD!RowOf(p, a)
  BY <1>5, <1>6
<1> QED
  BY <1>3, <1>6, <1>7 DEF d, numbers

\* Where nothing is amiss with the numbers, row p is port p.
LEMMA RowsMatch ==
    ASSUME LD!LoopAssumption, LoopTyped, NEW a \in LD!Answers, a.index > 0,
           ~LD!Mismatch(LD!RowNumbers(a))
    PROVE  /\ model.shift = 0 /\ LD!RowNumbers(a) = 1..table
           /\ table = LD!RowCount(a)
<1> DEFINE n == LD!RowCount(a)
           numbers == LD!RowNumbers(a)
<1>1. n \in Nat /\ n >= 1
  BY RowCountParts, AnswerParts, LoopParts
<1>2. model.shift \in Nat /\ table \in Nat
  BY LoopParts
<1>3. numbers = (1 + model.shift)..(n + model.shift)
  <2> DEFINE sh == model.shift
  <2>1. numbers = {k + sh : k \in 1..n}
    BY DEF LD!RowNumbers
  <2>2. sh \in Nat
    BY <1>2
  <2> HIDE DEF n, numbers, sh
  <2>3. ASSUME NEW x \in (1 + sh)..(n + sh) PROVE x \in numbers
    <3>1. x - sh \in 1..n /\ x = (x - sh) + sh
      BY <1>1, <2>2
    <3> QED
      BY <2>1, <3>1
  <2>4. ASSUME NEW x \in numbers PROVE x \in (1 + sh)..(n + sh)
    BY <1>1, <2>1, <2>2
  <2>5. numbers = (1 + sh)..(n + sh)
    BY <2>3, <2>4
  <2> QED
    BY <2>5 DEF sh
<1>4. numbers \subseteq 1..table /\ LD!Cardinality(numbers) = table
  BY DEF LD!Mismatch
<1>5. Cardinality(numbers) = table
  BY <1>4 DEF LD!Cardinality, Cardinality
<1> HIDE DEF n, numbers
<1>6. model.shift = 0 /\ n = table /\ numbers = 1..table
  <2> DEFINE sh == model.shift
  <2>1. sh \in Nat /\ numbers = (1 + sh)..(n + sh)
    BY <1>2, <1>3
  <2> HIDE DEF sh
  <2>2. 1 + sh \in Int /\ n + sh \in Int /\ 1 + sh <= n + sh
    BY <1>1, <2>1
  <2>3. Cardinality((1 + sh)..(n + sh)) = (n + sh) - (1 + sh) + 1
    <3> DEFINE lo == 1 + sh
               hi == n + sh
    <3>1. lo \in Int /\ hi \in Int /\ ~(lo > hi)
      BY <2>2
    <3> HIDE DEF lo, hi
    <3>2. Cardinality(lo..hi) = IF lo > hi THEN 0 ELSE hi - lo + 1
      BY <3>1, FS_Interval
    <3>3. Cardinality(lo..hi) = hi - lo + 1
      BY <3>1, <3>2
    <3> QED
      BY <3>3 DEF lo, hi
  <2>4. Cardinality(numbers) = (n + sh) - (1 + sh) + 1
    BY <2>1, <2>3
  <2>5. n = table
    BY <1>1, <1>2, <1>5, <2>1, <2>4
  <2>6. n + sh \in numbers
    BY <2>1, <2>2
  <2>7. n + sh <= table
    <3>1. n + sh \in 1..table
      BY <1>4, <2>6
    <3> QED
      BY <3>1, <1>1, <1>2, <2>1
  <2>8. sh = 0
    BY <1>1, <2>1, <2>5, <2>7
  <2>9. numbers = 1..table
    BY <1>1, <2>1, <2>5, <2>8
  <2> QED
    BY <2>5, <2>8, <2>9 DEF sh
<1> QED
  BY <1>6 DEF n, numbers

LEMMA RowSays ==
    ASSUME LD!LoopAssumption, LoopTyped, NEW a \in LD!Answers, NEW r
    PROVE  /\ LD!RowOf(r, a).looped \in {"yes", "no", "unknown"}
           /\ LD!RowOf(r, a).looped = "yes"
                 <=> r - model.shift <= a.status /\ r - model.shift \in truth.loops
           /\ LD!RowOf(r, a).looped = "no"
                 <=> r - model.shift <= a.status /\ r - model.shift \notin truth.loops
           /\ LD!RowOf(r, a).looped = "unknown" <=> ~(r - model.shift <= a.status)
           /\ LD!RowOf(r, a).watched = "no" => r - model.shift \notin truth.watched
<1> DEFINE k == r - model.shift
           w == IF k <= a.enabled THEN LD!YesNo(k \in truth.watched) ELSE "unknown"
           l == IF k <= a.status THEN LD!YesNo(k \in truth.loops) ELSE "unknown"
<1>1. LD!RowOf(r, a) = [watched |-> w, looped |-> l]
  BY DEF LD!RowOf
<1>2. /\ l \in {"yes", "no", "unknown"}
      /\ l = "yes" <=> k <= a.status /\ k \in truth.loops
      /\ l = "no" <=> k <= a.status /\ k \notin truth.loops
      /\ l = "unknown" <=> ~(k <= a.status)
      /\ w = "no" => k \notin truth.watched
  BY DEF LD!YesNo
<1> HIDE DEF w, l
<1> QED
  BY <1>1, <1>2

LEMMA OwnReading ==
    ASSUME LD!LoopAssumption, LoopTyped, NEW a \in LD!Answers, reading' = LD!Reading(a)
    PROVE  LD!OwnBranch
<1>1. CASE LD!Chosen(a) = {}
  BY <1>1 DEF LD!OwnBranch, LD!Reading, LD!Unsupported, LD!Supported
<1>2. CASE LD!Chosen(a) # {}
  BY <1>2, ReadingParts DEF LD!OwnBranch
<1> QED
  BY <1>1, <1>2

LEMMA ClearReading ==
    ASSUME LD!LoopAssumption, LoopTyped, NEW a \in LD!Answers, reading' = LD!Reading(a)
    PROVE  LD!AllClearIsTrue
<1>1. CASE LD!Chosen(a) = {}
  BY <1>1 DEF LD!AllClearIsTrue, LD!Reading, LD!Unsupported, LD!Supported
<1>2. CASE LD!Chosen(a) # {}
  <2> DEFINE d == reading'
             numbers == LD!RowNumbers(a)
  <2>1. /\ d.enabled = truth.on
        /\ DOMAIN d.ports = numbers \cap 1..table
        /\ \A p \in DOMAIN d.ports : d.ports[p] = LD!RowOf(p, a)
        /\ d.mismatch = LD!Mismatch(numbers)
        /\ d.truncated = (a.status \in 1..(N - 1))
        /\ a.index > 0
    BY <1>2, ReadingParts
  <2>2. /\ N \in Nat \ {0} /\ table \in Nat /\ table <= N
        /\ truth.loops \subseteq 1..N /\ a.status \in 0..N
    BY LoopParts, AnswerParts
  <2>3. ASSUME ~d.mismatch
        PROVE  /\ model.shift = 0 /\ table = LD!RowCount(a) /\ DOMAIN d.ports = 1..table
               /\ \A p \in 1..table : /\ p - model.shift = p
                                      /\ d.ports[p] = LD!RowOf(p, a)
    <3>1. model.shift = 0 /\ numbers = 1..table /\ table = LD!RowCount(a)
      BY <2>1, <2>3, RowsMatch
    <3>2. DOMAIN d.ports = 1..table
      BY <2>1, <3>1
    <3>3. \A p \in 1..table : p - model.shift = p
      BY <3>1, <2>2
    <3> QED
      BY <2>1, <3>1, <3>2, <3>3
  <2> HIDE DEF d, numbers
  <2>4. ASSUME LD!Word(d) = "ok",
               NEW q \in DOMAIN d.ports, d.ports[q].looped # "unknown",
               NEW p \in truth.loops \cap truth.watched
        PROVE  FALSE
    <3>1. LD!LoopedPorts(d) = {} /\ ~d.truncated /\ ~d.mismatch
      BY <2>4 DEF LD!Word
    <3>2. q \in 1..table /\ q <= a.status
      <4>1. q \in 1..table /\ q - model.shift = q /\ d.ports[q] = LD!RowOf(q, a)
        BY <2>3, <2>4, <3>1
      <4>2. q - model.shift <= a.status
        BY <2>4, <4>1, RowSays
      <4> QED
        BY <4>1, <4>2
    <3>3. a.status \notin 1..(N - 1)
      BY <2>1, <3>1
    <3>4. a.status = N
      BY <2>2, <3>2, <3>3
    <3>5. table = N
      BY <2>2, <2>3, <3>1, <3>4, RowCountParts
    <3>6. p \in 1..table /\ p <= a.status /\ p \in truth.loops /\ p \in truth.watched
      BY <2>2, <2>4, <3>4, <3>5
    <3>7. /\ p \in DOMAIN d.ports /\ p - model.shift = p
          /\ d.ports[p] = LD!RowOf(p, a)
      BY <2>3, <3>1, <3>6
    <3>8. LD!RowOf(p, a).looped = "yes" /\ LD!RowOf(p, a).watched # "no"
      BY <3>6, <3>7, RowSays
    <3>9. p \in LD!LoopedPorts(d)
      BY <3>7, <3>8 DEF LD!LoopedPorts
    <3> QED
      BY <3>1, <3>9
  <2>5. ASSUME NEW p \in LD!Ports, LD!PortWord(d, p) = "ok", ~d.mismatch
        PROVE  p \notin truth.loops
    <3>1. p \in DOMAIN d.ports
      BY <2>5 DEF LD!PortWord
    <3>2. p - model.shift = p /\ d.ports[p] = LD!RowOf(p, a)
      BY <2>3, <2>5, <3>1
    <3>3. d.ports[p].looped \in {"yes", "no", "unknown"}
      BY <3>2, RowSays
    <3>4. d.ports[p].looped = "no"
      BY <2>5, <3>1, <3>3 DEF LD!PortWord
    <3> QED
      BY <3>2, <3>4, RowSays
  <2>6. LD!Word(d) = "ok" /\ (\E q \in DOMAIN d.ports : d.ports[q].looped # "unknown")
           => truth.loops \cap truth.watched = {}
    BY <2>4
  <2>7. \A p \in LD!Ports : LD!PortWord(d, p) = "ok" /\ ~d.mismatch => p \notin truth.loops
    BY <2>5
  <2> QED
    BY <2>6, <2>7 DEF d, LD!AllClearIsTrue
<1> QED
  BY <1>1, <1>2

LEMMA AlarmsOfReading ==
    ASSUME LD!LoopAssumption, LoopTyped, LD!CycleReads
    PROVE  LD!LoopAlarmsFollow
<1>1. PICK a \in LD!Answers : reading' = LD!Reading(a)
  BY DEF LD!CycleReads
<1>2. CASE ~LD!Supported(reading')
  <2>1. off' = off /\ alarmed' = alarmed
    BY <1>2 DEF LD!CycleReads
  <2> QED
    BY <2>1 DEF LD!LoopAlarmsFollow
<1>3. CASE LD!Supported(reading')
  <2> DEFINE d == reading'
             numbers == LD!RowNumbers(a)
  <2>1. off' = ~d.enabled
        /\ alarmed' = (alarmed \cup LD!Says(d, "yes")) \ LD!Says(d, "no")
    BY <1>3 DEF LD!CycleReads
  <2>2. LD!Chosen(a) # {}
    BY <1>1, <1>3 DEF LD!Reading, LD!Unsupported, LD!Supported
  <2>3. /\ d.enabled = truth.on
        /\ DOMAIN d.ports = numbers \cap 1..table
        /\ \A p \in DOMAIN d.ports : d.ports[p] = LD!RowOf(p, a)
        /\ d.mismatch = LD!Mismatch(numbers)
        /\ a.index > 0
    BY <1>1, <2>2, ReadingParts
  <2>4. table \in Nat
    BY LoopParts
  <2>5. ASSUME NEW p \in DOMAIN d.ports, ~d.mismatch
        PROVE  /\ d.ports[p].looped = "yes" => p \in truth.loops
               /\ d.ports[p].looped = "no" => p \notin truth.loops
    <3>1. model.shift = 0
      BY <2>3, <2>5, RowsMatch
    <3>2. p - model.shift = p /\ d.ports[p] = LD!RowOf(p, a)
      BY <2>3, <2>4, <2>5, <3>1
    <3> QED
      BY <3>2, RowSays
  <2> HIDE DEF d
  <2>6. ASSUME NEW p \in alarmed' \ alarmed PROVE p \in truth.loops \/ d.mismatch
    <3>1. p \in LD!Says(d, "yes")
      BY <2>1, <2>6
    <3> QED
      BY <3>1, <2>5 DEF LD!Says
  <2>7. ASSUME NEW p \in alarmed \ alarmed' PROVE p \notin truth.loops \/ d.mismatch
    <3>1. p \in LD!Says(d, "no")
      BY <2>1, <2>7
    <3> QED
      BY <3>1, <2>5 DEF LD!Says
  <2>8. off' = ~truth.on
    BY <2>1, <2>3
  <2> QED
    BY <2>6, <2>7, <2>8 DEF d, LD!LoopAlarmsFollow
<1> QED
  BY <1>2, <1>3

LEMMA LoopTypedKept ==
    ASSUME LD!LoopAssumption, LoopTyped, [LD!Next]_(LD!loopVars)
    PROVE  LoopTyped'
<1>1. CASE LD!SwitchChanges
  <2>1. truth \in LD!Truths
    BY DEF LoopTyped
  <2>2. truth' \in LD!Truths
    <3>1. CASE truth' = [truth EXCEPT !.on = ~@]
      BY <2>1, <3>1 DEF LD!Truths
    <3>2. ASSUME NEW p \in LD!Ports, NEW S \in SUBSET LD!Ports
          PROVE  LD!Toggled(S, p) \in SUBSET LD!Ports
      BY DEF LD!Toggled
    <3>3. CASE \E p \in LD!Ports : truth' = [truth EXCEPT !.loops = LD!Toggled(@, p)]
      <4>1. PICK p \in LD!Ports : truth' = [truth EXCEPT !.loops = LD!Toggled(@, p)]
        BY <3>3
      <4> QED
        BY <2>1, <3>2, <4>1 DEF LD!Truths
    <3>4. CASE \E p \in LD!Ports : truth' = [truth EXCEPT !.watched = LD!Toggled(@, p)]
      <4>1. PICK p \in LD!Ports : truth' = [truth EXCEPT !.watched = LD!Toggled(@, p)]
        BY <3>4
      <4> QED
        BY <2>1, <3>2, <4>1 DEF LD!Truths
    <3> QED
      BY <1>1, <3>1, <3>3, <3>4 DEF LD!SwitchChanges
  <2> QED
    BY <1>1, <2>2 DEF LoopTyped, LD!SwitchChanges, LD!Ports
<1>2. CASE ~LD!SwitchChanges
  <2>1. model' = model /\ truth' = truth /\ table' \in {table} \cup LD!Ports
    BY <1>2 DEF LD!Next, LD!CycleReads, LD!ScanReads, LD!Restart, LD!ManualClear, LD!loopVars
  <2> QED
    BY <2>1 DEF LoopTyped, LD!Truths, LD!Ports
<1> QED
  BY <1>1, <1>2

LEMMA LoopSteps ==
    ASSUME LD!LoopAssumption, LoopTyped, [LD!Next]_(LD!loopVars),
           reading' # reading, reading'.polled
    PROVE  LD!OwnBranch /\ LD!AllClearIsTrue /\ LD!LoopAlarmsFollow
<1>1. ~LD!Restart
  BY DEF LD!Restart, LD!NotPolled
<1>2. LD!CycleReads
  BY <1>1 DEF LD!Next, LD!SwitchChanges, LD!ScanReads, LD!ManualClear, LD!loopVars
<1>3. PICK a \in LD!Answers : reading' = LD!Reading(a)
  BY <1>2 DEF LD!CycleReads
<1> QED
  BY <1>2, <1>3, OwnReading, ClearReading, AlarmsOfReading

LEMMA LoopsTold ==
    ASSUME LD!LoopAssumption
    PROVE  LD!Spec => LD!LoopsAreTold
<1>1. LD!Init => LoopTyped
  BY DEF LD!Init, LoopTyped
<1>2. LoopTyped /\ [LD!Next]_(LD!loopVars) => LoopTyped'
  BY LoopTypedKept
<1>3. LoopTyped /\ [LD!Next]_(LD!loopVars)
        => [reading' # reading /\ reading'.polled =>
               LD!OwnBranch /\ LD!AllClearIsTrue /\ LD!LoopAlarmsFollow]_(LD!loopVars)
  BY LoopSteps
<1> QED
  BY <1>1, <1>2, <1>3, PTL DEF LD!Spec, LD!LoopsAreTold

-----------------------------------------------------------------------------
(* MapScans: what the tables hold *)

\* Where a table has another node, it has it on the way there.
AtHop(a, entries) == \A m \in (DOMAIN entries \cap Nodes) \ {a} : entries[m] = net.hop[a][m]
CacheAtHop(a, cache) ==
    \A m \in (DOMAIN cache \cap Nodes) \ {a} : cache[m][1] = net.hop[a][m]

\* The port on which a switch has a device that is plugged in at `at'.
From(a, at) == IF at[1] = a THEN at[2] ELSE net.hop[a][at[1]]

\* What a scan read: the nodes where they are, and each device, as far as the
\* tables are this scan's, from one place.
PollTrue ==
    /\ DOMAIN poll = {"switches", "table", "late", "fdb", "lldp", "sources", "blocked"}
    /\ poll.switches \subseteq net.polled
    /\ \A a \in poll.switches : /\ AtHop(a, poll.table[a]) /\ AtHop(a, poll.fdb[a])
                                /\ poll.lldp[a] = net.lldp[a]
    /\ \A d \in DOMAIN net.home : \E at : /\ IsPlace(net, at)
          /\ \A a \in poll.switches \ poll.late :
                d \in DOMAIN poll.table[a] => poll.table[a][d] = From(a, at)

MapInv ==
    /\ IsNetwork(net)
    /\ \A a \in net.polled : CacheAtHop(a, kept[a]) /\ AtHop(a, last[a])
    /\ stage # "idle" => PollTrue
    /\ stage = "drawn" => IsDrawing(drawn, poll)

\* Of a network only the places of its devices change.
NetworkStands ==
    /\ DOMAIN net' = DOMAIN net /\ net'.polled = net.polled /\ net'.foreign = net.foreign
    /\ net'.hop = net.hop /\ net'.lldp = net.lldp /\ net'.spare = net.spare
    /\ DOMAIN net'.home = DOMAIN net.home
    /\ \A d \in DOMAIN net.home : net'.home[d] = net.home[d] \/ net'.home[d] \in net.spare

LEMMA NetworkKept ==
    ASSUME IsNetwork(net), NetworkStands
    PROVE  /\ IsNetwork(net') /\ Nodes' = Nodes
           /\ \A a, m : From(a, m)' = From(a, m)
           /\ \A a, f : AtHop(a, f)' = AtHop(a, f)
           /\ \A a, f : CacheAtHop(a, f)' = CacheAtHop(a, f)
           /\ \A at : IsPlace(net', at) = IsPlace(net, at)
<1>1. Nodes' = Nodes
  BY DEF NetworkStands, Nodes
<1>2. \A a : Leading(net', a) = Leading(net, a)
  BY DEF NetworkStands, Leading
<1>3. \A at : IsPlace(net', at) = IsPlace(net, at)
  BY <1>2 DEF NetworkStands, IsPlace
<1>4. \A at \in {net'.home[d] : d \in DOMAIN net'.home} \cup net'.spare : IsPlace(net', at)
  BY <1>3 DEF NetworkStands, IsNetwork
<1>5. IsNetwork(net')
  BY <1>4 DEF NetworkStands, IsNetwork
<1> QED
  BY <1>1, <1>3, <1>5 DEF NetworkStands, From, AtHop, CacheAtHop

LEMMA OnlyHomesMove == ASSUME IsNetwork(net), [Next]_vars PROVE NetworkStands
<1>1. ASSUME net' = net PROVE NetworkStands
  BY <1>1 DEF NetworkStands
<1>2. ASSUME NEW d \in DOMAIN net.home, NEW at \in net.spare, Replug(d, at)
      PROVE  NetworkStands
  <2>1. net' = [net EXCEPT !.home[d] = at, !.moves = @ - 1]
    BY <1>2 DEF Replug
  <2>2. /\ DOMAIN net' = DOMAIN net /\ net'.home = [net.home EXCEPT ![d] = at]
        /\ \A f \in DOMAIN net \ {"home", "moves"} : net'[f] = net[f]
    BY <2>1 DEF IsNetwork
  <2>3. /\ net'.polled = net.polled /\ net'.foreign = net.foreign
        /\ net'.hop = net.hop /\ net'.lldp = net.lldp /\ net'.spare = net.spare
    BY <2>2 DEF IsNetwork
  <2> QED
    BY <2>2, <2>3 DEF NetworkStands
<1> QED
  BY <1>1, <1>2 DEF Next, Poll, Draw, Show, vars

\* The tables of a scan, and what the ones before leave of them.
LEMMA TableAtHop ==
    ASSUME IsNetwork(net), NEW a \in net.polled, NEW mode,
           NEW talking \in SUBSET DOMAIN net.home
    PROVE  AtHop(a, Table(a, mode, talking))
<1>1. talking \cap Nodes = {}
  BY DEF IsNetwork, Nodes
<1>2. \A m \in Nodes : Toward(a, m) = net.hop[a][m]
  BY DEF Toward
<1> QED
  BY <1>1, <1>2 DEF AtHop, Table

LEMMA CacheMerged ==
    ASSUME NEW a, NEW cache, NEW entries, NEW fresh \in BOOLEAN,
           CacheAtHop(a, cache), AtHop(a, entries)
    PROVE  CacheAtHop(a, MergedCache(cache, entries, fresh))
<1>1. CacheAtHop(a, Aged(cache))
  BY DEF CacheAtHop, Aged
<1>2. CASE ~fresh
  BY <1>1, <1>2 DEF MergedCache
<1>3. CASE fresh
  <2>1. MergedCache(cache, entries, fresh)
           = Over([m \in DOMAIN entries |-> <<entries[m], TTL>>], Aged(cache))
    BY <1>3 DEF MergedCache
  <2> DEFINE old == Aged(cache)
             new == [m \in DOMAIN entries |-> <<entries[m], TTL>>]
  <2> HIDE DEF old
  <2>2. \A m \in DOMAIN entries : Over(new, old)[m] = <<entries[m], TTL>>
    BY DEF Over
  <2>3. \A m \in DOMAIN old \ DOMAIN entries : Over(new, old)[m] = old[m]
    BY DEF Over
  <2>4. DOMAIN Over(new, old) = DOMAIN entries \cup DOMAIN old
    BY DEF Over
  <2>5. CacheAtHop(a, old)
    BY <1>1 DEF old
  <2> HIDE DEF new
  <2>6. CacheAtHop(a, Over(new, old))
    BY <2>2, <2>3, <2>4, <2>5 DEF CacheAtHop, AtHop
  <2> QED
    BY <2>1, <2>6 DEF old, new
<1> QED
  BY <1>2, <1>3

LEMMA SmoothedAtHop ==
    ASSUME NEW a, NEW cache, NEW entries, CacheAtHop(a, cache), AtHop(a, entries)
    PROVE  AtHop(a, Smoothed(cache, entries))
<1> DEFINE old == [m \in DOMAIN cache |-> cache[m][1]]
<1>1. DOMAIN Over(entries, old) = DOMAIN entries \cup DOMAIN old
  BY DEF Over
<1>2. \A m \in DOMAIN entries : Over(entries, old)[m] = entries[m]
  BY DEF Over
<1>3. \A m \in DOMAIN cache \ DOMAIN entries : Over(entries, old)[m] = cache[m][1]
  BY DEF Over
<1> QED
  BY <1>1, <1>2, <1>3 DEF Smoothed, AtHop, CacheAtHop

LEMMA PollKept ==
    ASSUME MapInv, NEW modes, NEW talking \in SUBSET DOMAIN net.home, Poll(modes, talking)
    PROVE  MapInv'
<1> DEFINE read == Answered(modes)
           entries == [a \in read |-> Reading(a, modes, talking)]
           cache == [a \in net.polled |->
                        IF a \in read
                        THEN MergedCache(kept[a], entries[a], modes[a] # "late")
                        ELSE kept[a]]
<1>1. /\ stage' = "polled" /\ net' = net
      /\ kept' = cache
      /\ last' = [a \in net.polled |-> IF a \in read THEN entries[a] ELSE <<>>]
      /\ poll' = [switches |-> read, table |-> entries,
                  late |-> {a \in read : modes[a] = "late"},
                  fdb |-> [a \in read |-> Smoothed(cache[a], entries[a])],
                  lldp |-> [a \in read |-> net.lldp[a]],
                  sources |-> net.sources, blocked |-> net.blocked]
  BY DEF Poll
<1>2. read \subseteq net.polled
  BY DEF Answered
<1>3. IsNetwork(net) /\ \A a \in net.polled : CacheAtHop(a, kept[a]) /\ AtHop(a, last[a])
  BY DEF MapInv
<1>4. \A a \in read : AtHop(a, entries[a])
  BY <1>2, <1>3, TableAtHop DEF Reading
<1>5. ASSUME NEW a \in net.polled PROVE CacheAtHop(a, cache[a])
  BY <1>2, <1>3, <1>4, CacheMerged
<1>6. \A a \in read : AtHop(a, Smoothed(cache[a], entries[a]))
  BY <1>2, <1>4, <1>5, SmoothedAtHop
<1>7. ASSUME NEW d \in DOMAIN net.home
      PROVE  /\ IsPlace(net, net.home[d])
             /\ \A a \in read \ {b \in read : modes[b] = "late"} :
                   d \in DOMAIN entries[a] => entries[a][d] = From(a, net.home[d])
  <2>1. d \notin Nodes /\ IsPlace(net, net.home[d])
    BY <1>3 DEF IsNetwork, Nodes
  <2>2. \A a : Toward(a, d) = From(a, net.home[d])
    BY <2>1 DEF Toward, From
  <2> QED
    BY <2>1, <2>2 DEF Reading, Table
<1> HIDE DEF read, entries, cache
<1>8. \A a \in net.polled : CacheAtHop(a, kept'[a])
  BY <1>1, <1>5
<1>9. \A a : AtHop(a, <<>>)
  BY DEF AtHop
<1>10. \A a \in net.polled : AtHop(a, last'[a])
  BY <1>1, <1>4, <1>9
<1>11. /\ DOMAIN poll' = {"switches", "table", "late", "fdb", "lldp", "sources", "blocked"}
       /\ poll'.switches = read /\ poll'.table = entries
       /\ poll'.late = {a \in read : modes[a] = "late"}
       /\ \A a \in read : poll'.fdb[a] = Smoothed(cache[a], entries[a])
       /\ \A a \in read : poll'.lldp[a] = net.lldp[a]
  BY <1>1
<1>12. /\ Nodes' = Nodes /\ \A a, f : AtHop(a, f)' = AtHop(a, f)
       /\ \A a, f : CacheAtHop(a, f)' = CacheAtHop(a, f)
       /\ \A a, m : From(a, m)' = From(a, m)
       /\ \A at : IsPlace(net', at) = IsPlace(net, at)
  BY <1>1 DEF Nodes, AtHop, CacheAtHop, From
<1>13. PollTrue'
  BY <1>1, <1>2, <1>4, <1>6, <1>7, <1>11, <1>12 DEF PollTrue
<1> QED
  BY <1>1, <1>3, <1>8, <1>10, <1>12, <1>13 DEF MapInv

LEMMA MapInductive == Spec => []MapInv
<1>1. ASSUME Init PROVE MapInv
  <2>1. \A a : CacheAtHop(a, <<>>) /\ AtHop(a, <<>>)
    BY DEF AtHop, CacheAtHop
  <2> QED
    BY <1>1, <2>1, MapAssumption DEF Init, MapInv, MapAssumption
<1>2. ASSUME MapInv, [Next]_vars PROVE MapInv'
  <2>1. NetworkStands /\ IsNetwork(net)
    BY <1>2, OnlyHomesMove DEF MapInv
  <2>2. /\ IsNetwork(net') /\ Nodes' = Nodes
        /\ \A a, m : From(a, m)' = From(a, m)
        /\ \A a, f : AtHop(a, f)' = AtHop(a, f)
        /\ \A a, f : CacheAtHop(a, f)' = CacheAtHop(a, f)
        /\ \A at : IsPlace(net', at) = IsPlace(net, at)
    BY <2>1, NetworkKept
  <2>3. /\ net'.polled = net.polled /\ net'.lldp = net.lldp
        /\ DOMAIN net'.home = DOMAIN net.home
    BY <2>1 DEF NetworkStands
  <2>4. ASSUME kept' = kept, last' = last
        PROVE  \A a \in net'.polled : CacheAtHop(a, kept[a])' /\ AtHop(a, last[a])'
    BY <1>2, <2>2, <2>3, <2>4 DEF MapInv
  <2>5. ASSUME poll' = poll, PollTrue PROVE PollTrue'
    BY <2>2, <2>3, <2>5 DEF PollTrue
  <2>6. ASSUME NEW modes \in net.modes, NEW talking \in SUBSET DOMAIN net.home,
               Poll(modes, talking)
        PROVE  MapInv'
    BY <1>2, <2>6, PollKept
  <2>7. ASSUME Draw PROVE MapInv'
    <3>1. /\ stage = "polled" /\ stage' = "drawn" /\ IsDrawing(drawn', poll)
          /\ kept' = kept /\ last' = last /\ poll' = poll
      BY <2>7 DEF Draw
    <3>2. IsDrawing(drawn', poll') /\ PollTrue'
      BY <1>2, <2>5, <3>1 DEF MapInv
    <3>3. IsDrawing(drawn, poll)'
      BY <3>2
    <3> QED
      BY <2>2, <2>4, <3>1, <3>2, <3>3 DEF MapInv
  <2>8. ASSUME Show PROVE MapInv'
    <3>1. stage' = "idle" /\ kept' = kept /\ last' = last
      BY <2>8 DEF Show
    <3> QED
      BY <2>2, <2>4, <3>1 DEF MapInv
  <2>9. ASSUME NEW d, NEW at, Replug(d, at) PROVE MapInv'
    <3>1. /\ stage' = stage /\ kept' = kept /\ last' = last /\ poll' = poll
          /\ drawn' = drawn
      BY <2>9 DEF Replug
    <3> QED
      BY <1>2, <2>2, <2>4, <2>5, <3>1 DEF MapInv
  <2>10. ASSUME UNCHANGED vars PROVE MapInv'
    BY <1>2, <2>10 DEF vars, MapInv, PollTrue, AtHop, CacheAtHop, From, Nodes
  <2> QED
    BY <1>2, <2>6, <2>7, <2>8, <2>9, <2>10 DEF Next
<1> QED
  BY <1>1, <1>2, PTL DEF Spec

-----------------------------------------------------------------------------
(* MapScans: trunks *)

\* The least of some numbers.
LEMMA LeastOf == ASSUME NEW T \in SUBSET Nat, T # {} PROVE \E x \in T : \A y \in T : x <= y
<1> DEFINE R == {ss \in Nat \X Nat : ss[1] < ss[2]}
<1>1. IsWellFoundedOn(R, Nat)
  BY NatLessThanWellFounded DEF OpToRel
<1>2. PICK x \in T : \A y \in T : ~(<<y, x>> \in R)
  <2> HIDE DEF R
  <2> QED
    BY <1>1, WFMin
<1>3. \A y \in T : ~(y < x)
  BY <1>2
<1> QED
  BY <1>3

\* The port most often named is one of those named.
LEMMA MostCommonIsNamed ==
    ASSUME NEW f, IsFiniteSet(DOMAIN f), \A x \in DOMAIN f : f[x] \in Nat
    PROVE  MostCommon(f) = 0 \/ \E x \in DOMAIN f : MostCommon(f) = f[x]
<1> DEFINE ports == {f[x] : x \in DOMAIN f}
           at(p) == {x \in DOMAIN f : f[x] = p}
           times(p) == Cardinality(at(p))
<1> SUFFICES ASSUME ports # {} PROVE \E x \in DOMAIN f : MostCommon(f) = f[x]
  BY DEF MostCommon
<1>1. Cardinality(DOMAIN f) \in Nat
  BY FS_CardinalityType
<1>2. \A p \in ports : times(p) \in Nat /\ times(p) <= Cardinality(DOMAIN f)
  <2> TAKE p \in ports
  <2>1. at(p) \subseteq DOMAIN f
    OBVIOUS
  <2> HIDE DEF at
  <2> QED
    BY <2>1, FS_Subset, FS_CardinalityType
<1> DEFINE bounds == {n \in Nat : \A p \in ports : times(p) <= n}
<1>3. Cardinality(DOMAIN f) \in bounds
  BY <1>1, <1>2
<1>4. PICK most \in bounds : \A n \in bounds : most <= n
  <2>1. bounds \in SUBSET Nat /\ bounds # {}
    BY <1>3
  <2> HIDE DEF bounds
  <2> QED
    BY <2>1, LeastOf
<1> HIDE DEF times
<1>5. \E p \in ports : times(p) = most
  <2> SUFFICES ASSUME \A p \in ports : times(p) # most PROVE FALSE
    OBVIOUS
  <2>1. \A p \in ports : times(p) <= most /\ times(p) < most /\ most \in Nat
    BY <1>2, <1>4
  <2>2. PICK p \in ports : TRUE
    OBVIOUS
  <2>3. most > 0
    BY <1>2, <2>1, <2>2
  <2>4. most - 1 \in bounds
    BY <1>2, <2>1, <2>3
  <2> QED
    BY <1>4, <2>4
<1> DEFINE winners == {p \in ports : times(p) = most}
<1>6. PICK p \in winners : \A q \in winners : p <= q
  <2>1. winners \in SUBSET Nat /\ winners # {}
    BY <1>5
  <2> HIDE DEF winners
  <2> QED
    BY <2>1, LeastOf
<1>7. \A q \in ports : times(p) > times(q) \/ (times(p) = times(q) /\ p <= q)
  BY <1>2, <1>4, <1>6
<1>8. \E r \in ports : \A q \in ports : times(r) > times(q) \/ (times(r) = times(q) /\ r <= q)
  BY <1>6, <1>7
<1>9. MostCommon(f) = CHOOSE r \in ports :
          \A q \in ports : times(r) > times(q) \/ (times(r) = times(q) /\ r <= q)
  BY DEF MostCommon, times
<1>10. MostCommon(f) \in ports
  BY <1>8, <1>9
<1> QED
  BY <1>10

\* The cable LLDP confirms is one that is heard.
LEMMA ChosenIsHeard ==
    ASSUME NEW n, NEW a, NEW b, Heard(n, a, b) # {},
           \A x \in Heard(n, a, b) : x.port \in Nat
    PROVE  ChosenCable(n, a, b) \in Heard(n, a, b)
<1> DEFINE heard == Heard(n, a, b)
           held(x) == IF x.port \in n.blocked[a] THEN 1 ELSE 0
           free == {x \in heard : x.port \notin n.blocked[a]}
           first == IF free # {} THEN free ELSE heard
<1> HIDE DEF heard
<1>1. heard # {} /\ \A x \in heard : x.port \in Nat
  BY DEF heard
<1>2. first # {} /\ first \subseteq heard
  BY <1>1
<1>3. \A x \in first, y \in heard : held(x) < held(y) \/ (held(x) = held(y) /\ y \in first)
  OBVIOUS
<1> HIDE DEF first, held
<1>4. PICK p \in {x.port : x \in first} : \A q \in {x.port : x \in first} : p <= q
  <2>1. {x.port : x \in first} \in SUBSET Nat /\ {x.port : x \in first} # {}
    BY <1>1, <1>2
  <2> QED
    BY <2>1, LeastOf
<1>5. PICK x \in first : p = x.port
  OBVIOUS
<1>6. \A y \in first : x.port <= y.port
  BY <1>4, <1>5
<1>7. /\ x \in heard
      /\ \A m \in heard : held(x) < held(m) \/ (held(x) = held(m) /\ x.port <= m.port)
  BY <1>2, <1>3, <1>5, <1>6
<1>8. ChosenCable(n, a, b) = CHOOSE x0 \in heard : \A m \in heard :
          held(x0) < held(m) \/ (held(x0) = held(m) /\ x0.port <= m.port)
  BY DEF ChosenCable, heard, held
<1>9. ChosenCable(n, a, b) \in heard
  BY <1>7, <1>8
<1> QED
  BY <1>9 DEF heard

\* The network as the links are drawn from it: what was read, and which LLDP is
\* not of the cable it came over.
Drawn(n) == /\ n.switches = poll.switches /\ n.fdb = poll.fdb /\ n.lldp = poll.lldp

LEMMA JudgedIsDrawn ==
    ASSUME PollTrue, NEW forwarded
    PROVE  Drawn(Judged(poll, forwarded))
<1> DEFINE unclear == [unclear |->
               [a \in poll.switches |-> forwarded[a] \cup CrowdedOn(poll, a)]]
<1>1. Judged(poll, forwarded) = Over(unclear, poll)
  BY DEF Judged
<1>2. DOMAIN unclear = {"unclear"}
  OBVIOUS
<1> HIDE DEF unclear
<1>3. \A f \in {"switches", "fdb", "lldp"} : Over(unclear, poll)[f] = poll[f]
  BY <1>2 DEF Over, PollTrue
<1> QED
  BY <1>1, <1>3 DEF Drawn

\* What LLDP says of a port between two switches: it leads from one to the other.
LEMMA HeardLeads ==
    ASSUME MapInv, PollTrue, NEW n, Drawn(n),
           NEW a \in poll.switches, NEW b \in poll.switches, NEW x \in Heard(n, a, b)
    PROVE  /\ x.port \in Leading(net, a) /\ x.port \in Nat
           /\ x.remote \in Leading(net, b)
<1>1. x \in net.lldp[a] /\ x.chassis = b /\ a \in net.polled /\ b \in net.polled
  BY DEF Heard, Named, Drawn, PollTrue
<1> QED
  BY <1>1 DEF Leading, MapInv, IsNetwork

LEMMA SideLeads ==
    ASSUME MapInv, PollTrue, NEW n, Drawn(n), NEW a, NEW b,
           <<a, b>> \in DOMAIN LldpPairs(n)
    PROVE  LldpPairs(n)[<<a, b>>].port \in Leading(net, a)
<1>1. /\ a \in poll.switches /\ b \in poll.switches
      /\ Heard(n, a, b) # {} \/ Heard(n, b, a) # {}
  BY DEF LldpPairs, Drawn
<1>2. LldpPairs(n)[<<a, b>>] = Side(n, a, b)
  BY DEF LldpPairs
<1>3. CASE Heard(n, a, b) # {}
  <2>1. ChosenCable(n, a, b) \in Heard(n, a, b)
    BY <1>1, <1>3, HeardLeads, ChosenIsHeard
  <2>2. Side(n, a, b).port = ChosenCable(n, a, b).port
    BY <1>3 DEF Side
  <2> QED
    BY <1>1, <1>2, <2>1, <2>2, HeardLeads
<1>4. CASE Heard(n, a, b) = {}
  <2>1. ChosenCable(n, b, a) \in Heard(n, b, a)
    BY <1>1, <1>4, HeardLeads, ChosenIsHeard
  <2>2. Side(n, a, b).port = ChosenCable(n, b, a).remote
    BY <1>4 DEF Side
  <2> QED
    BY <1>1, <1>2, <2>1, <2>2, HeardLeads
<1> QED
  BY <1>3, <1>4

\* The ends of every further cable lead from one switch to another.
LEMMA ParallelLeads ==
    ASSUME MapInv, PollTrue, NEW n, Drawn(n), NEW links, NEW k \in Parallel(n, links)
    PROVE  k.pa \in Leading(net, k.a) /\ k.pb \in Leading(net, k.b)
<1> DEFINE heardA(l) == {<<x.port, x.remote>> : x \in Heard(n, l.a, l.b)}
           heardB(l) == {<<x.remote, x.port>> : x \in Heard(n, l.b, l.a)}
           mine(l, c) == {d[2] : d \in {e \in heardB(l) : e[1] = c[1]}}
           fromA(l) == {<<c[1], IF mine(l, c) # {} THEN CHOOSE p \in mine(l, c) : TRUE
                                ELSE c[2]>> : c \in heardA(l)}
           fromB(l) == {c \in heardB(l) : /\ \A d \in fromA(l) : d[2] # c[2]
                                          /\ \A d \in heardA(l) : d[1] # c[1]}
<1>1. PICK l \in {m \in LinksOf(links) : Ends(m) \subseteq n.switches} :
         \E c \in fromA(l) \cup fromB(l) : k = Link(l.a, c[1], l.b, c[2], "lldp")
  BY DEF Parallel
<1>2. PICK c \in fromA(l) \cup fromB(l) : k = Link(l.a, c[1], l.b, c[2], "lldp")
  BY <1>1
<1>3. l.a \in poll.switches /\ l.b \in poll.switches
  BY <1>1 DEF Ends, Drawn
<1>4. \A e \in heardA(l) : e[1] \in Leading(net, l.a) /\ e[2] \in Leading(net, l.b)
  BY <1>3, HeardLeads
<1>5. \A e \in heardB(l) : e[1] \in Leading(net, l.a) /\ e[2] \in Leading(net, l.b)
  BY <1>3, HeardLeads
<1> HIDE DEF heardA, heardB
<1>6. \A e \in heardA(l) : mine(l, e) # {} => (CHOOSE p \in mine(l, e) : TRUE) \in mine(l, e)
  OBVIOUS
<1>7. \A e \in heardA(l) : mine(l, e) \subseteq Leading(net, l.b)
  BY <1>5
<1> HIDE DEF mine
<1>8. \A e \in fromA(l) : e[1] \in Leading(net, l.a) /\ e[2] \in Leading(net, l.b)
  BY <1>4, <1>6, <1>7
<1>9. c[1] \in Leading(net, l.a) /\ c[2] \in Leading(net, l.b)
  BY <1>2, <1>5, <1>8
<1> QED
  BY <1>2, <1>9 DEF Link

\* What the map takes for a trunk of a switch leads to another node, and the way
\* to each switch that is in its table is a trunk.
LEMMA TrunksLead ==
    ASSUME MapInv, stage = "drawn", NEW a \in poll.switches
    PROVE  /\ drawn.trunks[a] \subseteq Leading(net, a)
           /\ \A b \in (poll.switches \cap DOMAIN poll.fdb[a]) \ {a} :
                 net.hop[a][b] \in drawn.trunks[a]
<1>1. PollTrue /\ IsDrawing(drawn, poll) /\ IsNetwork(net)
  BY DEF MapInv
<1>2. PICK forwarded \in {Forwarded(poll)}, n \in {Judged(poll, Forwarded(poll))} :
         \E pairs \in {LldpPairs(n)} : \E t \in {Frame(n, pairs)} :
         \E links \in {Settled(n, t)} : \E extra \in {Parallel(n, links)} :
             drawn = Drawing(n, t, forwarded, links, extra)
  BY <1>1 DEF IsDrawing
<1>3. PICK t \in {Frame(n, LldpPairs(n))}, links \in {Settled(n, Frame(n, LldpPairs(n)))} :
         drawn = Drawing(n, t, forwarded, links, Parallel(n, links))
  BY <1>2
<1>4. Drawn(n)
  BY <1>1, <1>2, JudgedIsDrawn
<1>5. /\ t.sees = Sees(n) /\ t.pairs = LldpPairs(n)
      /\ t.uplinks = Uplinks(n, t.sees, t.root)
  BY <1>3 DEF Frame
<1> DEFINE extra == Parallel(n, links)
<1>6. drawn.trunks[a] = TrunkPorts(n, t)[a] \cup (ExtraEnds(extra, a) \ {0})
  BY <1>3, <1>4 DEF Drawing, Drawn
<1>7. TrunkPorts(n, t)[a] = ({t.sees[a][b] : b \in DOMAIN t.sees[a]} \cup {At(t.uplinks, a)}
         \cup {Adjacent(t.pairs, a, b) : b \in n.switches}) \ {0}
  BY <1>4 DEF TrunkPorts, Drawn
<1>8. /\ a \in net.polled /\ a \in n.switches
      /\ t.sees[a] = [b \in (poll.switches \cap DOMAIN poll.fdb[a]) \ {a} |-> poll.fdb[a][b]]
  BY <1>1, <1>4, <1>5 DEF Sees, Drawn, PollTrue
<1>9. \A b \in DOMAIN t.sees[a] :
         /\ b \in poll.switches /\ b # a /\ t.sees[a][b] = net.hop[a][b]
         /\ t.sees[a][b] \in Leading(net, a) /\ t.sees[a][b] \in Nat \ {0}
  BY <1>1, <1>8 DEF PollTrue, AtHop, Nodes, Leading, IsNetwork
<1>10. At(t.uplinks, a) \in Leading(net, a) \cup {0}
  <2>1. CASE a \notin DOMAIN t.uplinks
    BY <2>1 DEF At
  <2>2. CASE a \in DOMAIN t.uplinks
    <3> DEFINE inside == IF a \in DOMAIN t.sees[t.root]
                         THEN Branch(t.sees, t.root, t.sees[t.root][a]) ELSE {}
               outside == DOMAIN t.sees[a] \ inside
               f == [b \in outside |-> t.sees[a][b]]
    <3>1. At(t.uplinks, a) = MostCommon(f)
      BY <1>5, <2>2 DEF At, Uplinks
    <3>2. outside \subseteq net.polled
      BY <1>1, <1>9 DEF PollTrue
    <3>3. IsFiniteSet(outside)
      BY <1>1, <3>2, FS_Subset DEF IsNetwork
    <3>4. /\ DOMAIN f = outside
          /\ \A b \in outside : f[b] = t.sees[a][b] /\ b \in DOMAIN t.sees[a]
      OBVIOUS
    <3> HIDE DEF f, outside
    <3>5. MostCommon(f) = 0 \/ \E b \in DOMAIN f : MostCommon(f) = f[b]
      BY <1>9, <3>3, <3>4, MostCommonIsNamed
    <3> QED
      BY <1>9, <3>1, <3>4, <3>5
  <2> QED
    BY <2>1, <2>2
<1>11. \A b \in n.switches : Adjacent(t.pairs, a, b) \in Leading(net, a) \cup {0}
  BY <1>1, <1>4, <1>5, SideLeads DEF Adjacent
<1>12. \A k \in extra : k.pa \in Leading(net, k.a) /\ k.pb \in Leading(net, k.b)
  BY <1>1, <1>4, ParallelLeads
<1> HIDE DEF extra
<1>13. ExtraEnds(extra, a) \subseteq Leading(net, a)
  BY <1>12 DEF ExtraEnds
<1>14. drawn.trunks[a] \subseteq Leading(net, a)
  BY <1>6, <1>7, <1>9, <1>10, <1>11, <1>13
<1>15. \A b \in (poll.switches \cap DOMAIN poll.fdb[a]) \ {a} :
          net.hop[a][b] \in drawn.trunks[a]
  BY <1>6, <1>7, <1>8, <1>9
<1> QED
  BY <1>14, <1>15

-----------------------------------------------------------------------------
(* MapScans: devices *)

\* What PlacedAtHome asks of a device's place, and what KeptAtHome does.
AtHome(d, at) ==
    /\ at = net.home[d] /\ at[1] \in poll.switches \ poll.late
    /\ d \in DOMAIN poll.table[at[1]] /\ poll.table[at[1]][d] = at[2]
    /\ \A a \in poll.late : d \in DOMAIN poll.table[a] => poll.table[a][d] = Toward(a, d)

TowardHome(d, at) ==
    /\ at = net.home[d] /\ at[1] \in poll.switches
    /\ \A a \in poll.switches : d \in DOMAIN poll.table[a] => poll.table[a][d] = Toward(a, d)

\* A device that its own switch has where it is, the others have on the way there.
LEMMA HeardTowardHome ==
    ASSUME MapInv, stage = "drawn", NEW d \in DOMAIN net.home, NEW at, AtHome(d, at)
    PROVE  TowardHome(d, at)
<1>1. PollTrue /\ IsNetwork(net)
  BY DEF MapInv
<1>2. d \notin Nodes /\ IsPlace(net, at) /\ at = net.home[d]
  BY <1>1 DEF IsNetwork, Nodes, AtHome
<1>3. at[1] \in net.polled /\ at[2] \notin Leading(net, at[1])
  BY <1>1, <1>2 DEF AtHome, PollTrue, IsPlace
<1>4. \A m \in Nodes \ {at[1]} : net.hop[at[1]][m] \in Leading(net, at[1])
  BY DEF Leading, Nodes
<1>5. PICK read : /\ IsPlace(net, read)
         /\ \A a \in poll.switches \ poll.late :
               d \in DOMAIN poll.table[a] => poll.table[a][d] = From(a, read)
  BY <1>1 DEF PollTrue
<1>6. read[1] = at[1]
  <2> SUFFICES ASSUME read[1] # at[1] PROVE FALSE
    OBVIOUS
  <2>1. at[2] = net.hop[at[1]][read[1]]
    BY <1>5 DEF AtHome, From
  <2>2. read[1] \in Nodes
    BY <1>5 DEF IsPlace, Nodes
  <2> QED
    BY <1>3, <1>4, <2>1, <2>2
<1>7. ASSUME NEW a \in poll.switches, d \in DOMAIN poll.table[a]
      PROVE  poll.table[a][d] = Toward(a, d)
  <2>1. CASE a \in poll.late
    BY <1>7, <2>1 DEF AtHome
  <2>2. CASE a \notin poll.late /\ a = at[1]
    BY <1>2, <2>2 DEF AtHome, Toward
  <2>3. CASE a \notin poll.late /\ a # at[1]
    BY <1>2, <1>5, <1>6, <1>7, <2>3 DEF From, Toward
  <2> QED
    BY <2>1, <2>2, <2>3
<1> QED
  BY <1>2, <1>7 DEF AtHome, TowardHome

\* A device's own port is no trunk, and wherever else it is seen is one.
LEMMA OneSeat ==
    ASSUME MapInv, stage = "drawn", Informed,
           NEW d \in DOMAIN net.home, NEW at, TowardHome(d, at)
    PROVE  /\ at[2] \notin drawn.trunks[at[1]]
           /\ Seats(d) = IF d \in DOMAIN poll.table[at[1]]
                         THEN {<<Crowd(poll.table, at[1], at[2]), at[1], at[2]>>} ELSE {}
<1>1. PollTrue /\ IsNetwork(net)
  BY DEF MapInv
<1>2. d \notin Nodes /\ IsPlace(net, at) /\ at = net.home[d]
  BY <1>1 DEF IsNetwork, Nodes, TowardHome
<1>3. at[1] \in net.polled /\ at[2] \notin Leading(net, at[1])
  BY <1>1, <1>2 DEF TowardHome, PollTrue, IsPlace
<1>4. at[2] \notin drawn.trunks[at[1]]
  BY <1>3, TrunksLead DEF TowardHome
<1>5. ASSUME NEW a \in poll.switches, a # at[1], d \in DOMAIN poll.table[a]
      PROVE  poll.table[a][d] \in drawn.trunks[a]
  <2>1. poll.table[a][d] = net.hop[a][at[1]]
    BY <1>2, <1>5 DEF TowardHome, Toward
  <2>2. at[1] \in (poll.switches \cap DOMAIN poll.fdb[a]) \ {a}
    BY <1>5 DEF Informed, TowardHome
  <2> QED
    BY <2>1, <2>2, TrunksLead
<1>6. d \in DOMAIN poll.table[at[1]] => poll.table[at[1]][d] = at[2]
  BY <1>2 DEF TowardHome, Toward
<1> DEFINE seated == {b \in poll.switches : d \in DOMAIN poll.table[b]
                 /\ poll.table[b][d] \notin drawn.trunks[b]}
<1>7. seated = IF d \in DOMAIN poll.table[at[1]] THEN {at[1]} ELSE {}
  BY <1>4, <1>5, <1>6 DEF TowardHome
<1>8. Seats(d) = {<<Crowd(poll.table, a, poll.table[a][d]), a, poll.table[a][d]>> :
                      a \in seated}
  BY DEF Seats
<1> HIDE DEF seated
<1>9. CASE d \in DOMAIN poll.table[at[1]]
  BY <1>4, <1>6, <1>7, <1>8, <1>9
<1>10. CASE d \notin DOMAIN poll.table[at[1]]
  BY <1>4, <1>7, <1>8, <1>10
<1> QED
  BY <1>9, <1>10

LEMMA LeastOfOne == ASSUME NEW x PROVE Least({x}) = x
  BY DEF Least

LEMMA PlacedThere ==
    ASSUME MapInv, stage = "drawn", Informed,
           NEW d \in DOMAIN net.home, NEW at, TowardHome(d, at), NEW uplinks, NEW depth,
           d \in DOMAIN poll.table[at[1]]
    PROVE  Placed(uplinks, depth, d) = [at |-> at, how |-> "seen"]
<1> DEFINE seat == <<Crowd(poll.table, at[1], at[2]), at[1], at[2]>>
<1>1. Seats(d) = {seat}
  BY OneSeat
<1>2. Least(Seats(d)) = seat
  BY <1>1, LeastOfOne
<1>3. at = <<at[1], at[2]>>
  BY DEF MapInv, IsNetwork, IsPlace, TowardHome
<1>4. Placed(uplinks, depth, d) = [at |-> <<seat[2], seat[3]>>, how |-> "seen"]
  <2> HIDE DEF seat
  <2> QED
    BY <1>1, <1>2 DEF Placed
<1> QED
  BY <1>3, <1>4

\* Not seen on its own port, it is where the database has it.
LEMMA RememberedThere ==
    ASSUME MapInv, stage = "drawn", Informed,
           NEW d \in DOMAIN net.home \cap DOMAIN rows, NEW at, TowardHome(d, at),
           rows[d].place = at, NEW uplinks, NEW depth, d \notin DOMAIN poll.table[at[1]]
    PROVE  Placed(uplinks, depth, d) = [at |-> at, how |-> "remembered"]
<1>1. Seats(d) = {} /\ at[2] \notin drawn.trunks[at[1]]
  BY OneSeat
<1>2. IsPlace(net, at)
  BY DEF MapInv, IsNetwork, TowardHome
<1>3. at # Nowhere
  BY <1>2 DEF IsPlace, Nowhere
<1>4. Remembers(d)
  BY <1>1, <1>3 DEF Remembers, TowardHome
<1> QED
  BY <1>1, <1>4 DEF Placed

\* Either way the database has it there after the scan.
LEMMA RowStays ==
    ASSUME NEW places, NEW d, NEW at, d \in DOMAIN places \cup DOMAIN rows,
           d \in DOMAIN places => /\ places[d].at = at
                                  /\ places[d].how \in {"seen", "remembered"},
           \/ d \in DOMAIN rows /\ rows[d].place = at
           \/ d \in DOMAIN places /\ Sighted(places, d)
    PROVE  Upserted(places)[d].place = at
<1> DEFINE seen == {e \in DOMAIN places : Sighted(places, e)}
           new == [e \in seen |-> NewRow(places, e)]
           old == [e \in DOMAIN rows |-> Older(rows[e])]
<1>1. Upserted(places) = Over(new, old)
  BY DEF Upserted
<1>2. CASE d \in seen
  <2>1. Over(new, old)[d] = NewRow(places, d)
    BY <1>2 DEF Over
  <2>2. NewRow(places, d).place = at
    BY <1>2 DEF NewRow
  <2> QED
    BY <1>1, <2>1, <2>2
<1>3. CASE d \notin seen
  <2>1. d \in DOMAIN rows /\ rows[d].place = at
    BY <1>3
  <2>2. Over(new, old)[d] = Older(rows[d])
    BY <1>3, <2>1 DEF Over
  <2>3. Older(rows[d]).place = at
    BY <2>1 DEF Older
  <2> QED
    BY <1>1, <2>2, <2>3
<1> QED
  BY <1>2, <1>3

-----------------------------------------------------------------------------
(* Side by side *)

\* A behaviour of the composition is one of each of its parts.
LEMMA SettingsInPlace == RecordsSpec => ST!Spec
<1>1. RecordsInit => ST!Init
  BY DEF RecordsInit
<1>2. [RecordsNext]_recordVars => [ST!Next]_(ST!settingsVars)
  BY DEF RecordsNext, Detects, Judges, Sets, Annotates, LaysOut, OnlyRecord, recordVars,
     settingVars, ST!settingsVars
<1> QED
  BY <1>1, <1>2, PTL DEF RecordsSpec, ST!Spec

LEMMA NotesInPlace == RecordsSpec => NT!Spec
<1>1. RecordsInit => NT!Init
  BY DEF RecordsInit
<1>2. [RecordsNext]_recordVars => [NT!Next]_(NT!notesVars)
  BY DEF RecordsNext, Detects, Judges, Sets, Annotates, LaysOut, OnlyRecord, recordVars,
     noteVars, NT!notesVars
<1> QED
  BY <1>1, <1>2, PTL DEF RecordsSpec, NT!Spec

LEMMA LayoutInPlace == RecordsSpec => LY!Spec
<1>1. RecordsInit => LY!Init
  BY DEF RecordsInit
<1>2. [RecordsNext]_recordVars => [LY!Next]_(LY!layoutVars)
  BY DEF RecordsNext, Detects, Judges, Sets, Annotates, LaysOut, OnlyRecord, recordVars,
     placeVars, LY!layoutVars
<1> QED
  BY <1>1, <1>2, PTL DEF RecordsSpec, LY!Spec

LEMMA SpanningInPlace == RecordsSpec => SP!Spec
<1>1. RecordsInit => SP!Init
  BY DEF RecordsInit
<1>2. [RecordsNext]_recordVars => [SP!Next]_(SP!spanningVars)
  BY DEF RecordsNext, Detects, Judges, Sets, Annotates, LaysOut, OnlyRecord, recordVars,
     treeVars, SP!spanningVars
<1> QED
  BY <1>1, <1>2, PTL DEF RecordsSpec, SP!Spec

LEMMA LoopDetectionInPlace == RecordsSpec => LD!Spec
<1>1. RecordsInit => LD!Init
  BY DEF RecordsInit
<1>2. [RecordsNext]_recordVars => [LD!Next]_(LD!loopVars)
  BY DEF RecordsNext, Judges, Detects, Sets, Annotates, LaysOut, OnlyRecord,
     recordVars, loopVars, LD!loopVars
<1> QED
  BY <1>1, <1>2, PTL DEF RecordsSpec, LD!Spec

\* A placed node keeps its pin, whatever the drags, resets, anchors and purges
\* under way have read before.
THEOREM PinsAreKept == RecordsSpec => []PinsStand
<1>1. LY!LayoutAssumption
  BY RecordsAssumption
<1> QED
  BY <1>1, LayoutPins, LayoutInPlace, PTL DEF PinsStand

\* The value in force is what the next start loads, up to the saves and resets
\* under way.
THEOREM LiveStaysKept == RecordsSpec => []LiveIsKept
<1>1. ST!SettingsAssumption
  BY RecordsAssumption
<1> QED
  BY <1>1, SettingsLive, SettingsInPlace, PTL DEF LiveIsKept

\* A note is called missing only after that many answered scans without its
\* node, and handwriting becomes an imported note only by a move over it or an
\* import that had read before.
THEOREM NotesStayKept == RecordsSpec => NotesAreKept
<1>1. NT!NotesAssumption
  BY RecordsAssumption
<1> QED
  BY <1>1, NotesKept, NotesInPlace, PTL DEF NotesAreKept

\* The verdict of the spanning tree is about the trees there are.
THEOREM VerdictStaysTrue == RecordsSpec => []VerdictIsTrue
<1>1. SP!SpanningAssumption
  BY RecordsAssumption
<1> QED
  BY <1>1, SpanningVerdict, SpanningInPlace, PTL DEF VerdictIsTrue

\* Whatever the walks over a vendor's port table bring, a switch is read from
\* its own branch, called free of loops only when it is, and its alarms rise
\* and end on what its own rows say.
THEOREM LoopsStayTold == RecordsSpec => LoopsAreTold
<1>1. LD!LoopAssumption
  BY RecordsAssumption
<1> QED
  BY <1>1, LoopsTold, LoopDetectionInPlace, PTL DEF LoopsAreTold

\* A device that its own switch has in its table is placed there, and that is what
\* the database learns, whatever else the scan missed; and where the database has
\* it, it stays while no table has it elsewhere than on the way: trunks are told
\* from the ports devices are on.
THEOREM DevicesStayHome == Spec => DevicesAtHome
<1>1. ASSUME MapInv, Next, stage = "drawn", stage' = "idle"
      PROVE  \E depth, uplinks :
                /\ map'.places = [e \in Visible |-> Placed(uplinks, depth, e)]
                /\ rows' = Upserted(map'.places)
  <2>1. Show
    BY <1>1 DEF Next, Poll, Draw, Replug
  <2>2. PICK depth \in {TreeDepth}, uplinks \in {UplinkPorts(TreeDepth)} :
           \E places \in {[e \in Visible |-> Placed(uplinks, depth, e)]} :
           \E after \in {Upserted(places)} :
              /\ rows' = after
              /\ \E bridges \in {Bridges} :
                 \E pseudo \in {{x \in Pseudo(places) : AloneOn(bridges, x) = {}}} :
                    Assembled(places, after, bridges, pseudo, Quiet(places, after))
    BY <2>1 DEF Show
  <2> DEFINE places == [e \in Visible |-> Placed(uplinks, depth, e)]
  <2>3. /\ rows' = Upserted(places)
        /\ \E bridges, pseudo :
              Assembled(places, Upserted(places), bridges, pseudo,
                        Quiet(places, Upserted(places)))
    BY <2>2
  <2>4. map'.places = places
    <3> HIDE DEF places
    <3> QED
      BY <2>3 DEF Assembled
  <2> QED
    BY <2>3, <2>4
<1>2. ASSUME MapInv, Next, stage = "drawn", stage' = "idle", Informed,
             NEW d \in DOMAIN net.home, NEW at, AtHome(d, at)
      PROVE  map'.places[d].at = at /\ rows'[d].place = at
  <2>1. PICK depth, uplinks :
           /\ map'.places = [e \in Visible |-> Placed(uplinks, depth, e)]
           /\ rows' = Upserted(map'.places)
    BY <1>1, <1>2
  <2>2. d \in Visible
    <3>1. PollTrue /\ d \notin Nodes
      BY <1>2 DEF MapInv, IsNetwork, Nodes
    <3> QED
      BY <1>2, <3>1 DEF Visible, AtHome, PollTrue, Nodes
  <2>3. map'.places[d] = [at |-> at, how |-> "seen"] /\ d \in DOMAIN map'.places
    BY <1>2, <2>1, <2>2, HeardTowardHome, PlacedThere DEF AtHome
  <2>4. Sighted(map'.places, d)
    BY <1>2, <2>3 DEF Sighted, AtHome
  <2>5. Upserted(map'.places)[d].place = at
    BY <2>3, <2>4, RowStays
  <2> QED
    BY <2>1, <2>3, <2>5
<1>3. ASSUME MapInv, Next, stage = "drawn", stage' = "idle", Informed,
             NEW d \in DOMAIN net.home \cap DOMAIN rows, NEW at, TowardHome(d, at),
             rows[d].place = at
      PROVE  rows'[d].place = at /\ (d \in DOMAIN map'.places => map'.places[d].at = at)
  <2>1. PICK depth, uplinks :
           /\ map'.places = [e \in Visible |-> Placed(uplinks, depth, e)]
           /\ rows' = Upserted(map'.places)
    BY <1>1, <1>3
  <2>2. Placed(uplinks, depth, d).at = at
        /\ Placed(uplinks, depth, d).how \in {"seen", "remembered"}
    BY <1>3, PlacedThere, RememberedThere
  <2>3. d \in DOMAIN map'.places => /\ map'.places[d].at = at
                                    /\ map'.places[d].how \in {"seen", "remembered"}
    BY <2>1, <2>2
  <2>4. Upserted(map'.places)[d].place = at
    BY <1>3, <2>3, RowStays
  <2> QED
    BY <2>1, <2>3, <2>4
<1>4. ASSUME MapInv, [Next]_vars
      PROVE  [stage = "drawn" /\ stage' = "idle" /\ Informed =>
                \A d \in DOMAIN net.home :
                    LET at == net.home[d] IN
                    /\ at[1] \in poll.switches \ poll.late
                    /\ d \in DOMAIN poll.table[at[1]] /\ poll.table[at[1]][d] = at[2]
                    /\ \A a \in poll.late : d \in DOMAIN poll.table[a]
                                             => poll.table[a][d] = Toward(a, d)
                    => map'.places[d].at = at /\ rows'[d].place = at]_vars
  BY <1>2, <1>4 DEF AtHome
<1>5. ASSUME MapInv, [Next]_vars
      PROVE  [stage = "drawn" /\ stage' = "idle" /\ Informed =>
                \A d \in DOMAIN net.home \cap DOMAIN rows :
                    LET at == net.home[d] IN
                    /\ rows[d].place = at /\ at[1] \in poll.switches
                    /\ \A a \in poll.switches : d \in DOMAIN poll.table[a]
                                                 => poll.table[a][d] = Toward(a, d)
                    => /\ rows'[d].place = at
                       /\ d \in DOMAIN map'.places => map'.places[d].at = at]_vars
  BY <1>3, <1>5 DEF TowardHome
<1>6. Spec => PlacedAtHome
  BY <1>4, MapInductive, PTL DEF Spec, PlacedAtHome
<1>7. Spec => KeptAtHome
  BY <1>5, MapInductive, PTL DEF Spec, KeptAtHome
<1> QED
  BY <1>6, <1>7 DEF DevicesAtHome
=============================================================================
