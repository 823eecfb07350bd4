-------------------------- MODULE InventoryProofs --------------------------
(***************************************************************************)
(* The safety of the hosts table for any addresses, switches' pollings,    *)
(* ARP tables, thresholds and bounds: what a row says at any moment, and   *)
(* what the steps of a scan make of the table and the map though a cleanup *)
(* comes between any two of them.                                          *)
(***************************************************************************)
EXTENDS Inventory, TLAPS

Locals == [confirmScans : {1, ConfirmScans}, suspects : SUBSET Macs,
           pending : SUBSET Macs, marks : SUBSET (Macs \X Macs),
           unconfirmed : SUBSET Macs, release : SUBSET Macs,
           draft : SUBSET Macs]

\* The variables' shapes, but for how often a row was journalled.
Typed ==
    /\ rows \in [Macs -> Row \cup {NoRow}] /\ notices \in [Macs -> Nat]
    /\ stage \in Stages /\ input \in Inputs \cup {NoInput} /\ local \in Locals
    /\ map \subseteq Macs /\ cleaning \in BOOLEAN
    /\ proof \in [Macs -> 0..ConfirmScans]

-----------------------------------------------------------------------------
(* Rows and inputs *)

LEMMA RowParts ==
    ASSUME Typed, NEW m \in Macs
    PROVE  /\ m \in Rows <=> rows[m] \in Row
           /\ m \notin Rows => rows[m] = NoRow
BY NoRowAssumption DEF Typed, Rows

LEMMA InputParts ==
    ASSUME Typed
    PROVE  input.sight \in [Macs -> Sights] /\ input.arp \in [Macs -> IPs \cup {NoIP}]
<1>1. CASE input \in Inputs
  BY <1>1 DEF Inputs
<1>2. CASE input = NoInput
  BY <1>2 DEF NoInput, Sights
<1> QED
  BY <1>1, <1>2 DEF Typed

\* A poll that found nothing, and an ARP table without entries.
LEMMA NoArp ==
    ASSUME Typed
    PROVE  /\ [NoInput EXCEPT !.sight = input.sight] \in Inputs \cup {NoInput}
           /\ [NoInput EXCEPT !.sight = input.sight].sight = input.sight
           /\ \A m \in Macs : NoInput.sight[m] = "absent"
<1> DEFINE i == [NoInput EXCEPT !.sight = input.sight]
<1>1. /\ i.sight = input.sight /\ i.arp = [m \in Macs |-> NoIP]
      /\ i.last = [a \in IPs |-> Some]
      /\ i = [sight |-> input.sight, arp |-> [m \in Macs |-> NoIP],
              last |-> [a \in IPs |-> Some]]
  BY DEF NoInput
<1>2. CASE Macs = {}
  <2>1. input.sight = [m \in Macs |-> "absent"]
    BY <1>2, InputParts
  <2> QED
    BY <1>1, <2>1 DEF NoInput
<1>3. CASE Macs # {}
  <2>1. Some \in Macs
    BY <1>3 DEF Some
  <2>2. i \in [sight : [Macs -> Sights], arp : [Macs -> IPs \cup {NoIP}],
               last : [IPs -> Macs]]
    BY <1>1, <2>1, InputParts
  <2>3. ASSUME NEW a \in IPs
        PROVE  i.last[a] \in IF {m \in Macs : i.arp[m] = a} = {} THEN {Some}
                             ELSE {m \in Macs : i.arp[m] = a}
    <3>1. i.last[a] = Some
      BY <1>1
    <3>2. CASE a = NoIP
      BY <1>1, <2>1, <3>1, <3>2
    <3>3. CASE a # NoIP
      BY <1>1, <3>1, <3>3
    <3> QED
      BY <3>2, <3>3
  <2> QED
    BY <1>1, <2>2, <2>3 DEF Inputs, NoInput
<1> QED
  BY <1>1, <1>2, <1>3 DEF NoInput

LEMMA NothingTyped == Nothing \in Locals
BY DEF Nothing, Locals

\* A sighting is counted; the rest of a row it leaves as it was.
LEMMA SightedShape ==
    ASSUME Typed, NEW m \in Macs
    PROVE  /\ Sighted(m) \in Row
           /\ m \in Rows => /\ Sighted(m).ip = rows[m].ip
                            /\ Sighted(m).confirmed = rows[m].confirmed
                            /\ Sighted(m).copyOf = rows[m].copyOf
                            /\ Sighted(m).seen = IF rows[m].seen > CopySightings
                                                 THEN rows[m].seen
                                                 ELSE rows[m].seen + 1
           /\ m \notin Rows => /\ Sighted(m).ip = NoIP /\ Sighted(m).seen = 1
                               /\ Sighted(m).confirmed = FALSE
                               /\ Sighted(m).copyOf = NoRow
<1> USE InventoryAssumption
<1>1. CASE m \in Rows
  <2>1. rows[m] \in Row
    BY <1>1, RowParts
  <2>2. PICK here \in BOOLEAN : here = (rows[m].here \/ input.sight[m] = "bound")
    BY Zenon
  <2>3. PICK seen \in 0..CopySightings + 1 :
          seen = IF rows[m].seen > CopySightings THEN rows[m].seen
                 ELSE rows[m].seen + 1
    BY <2>1 DEF Row
  <2>4. Sighted(m) = [rows[m] EXCEPT !.fdb = 0, !.here = here, !.seen = seen]
    BY <1>1, <2>2, <2>3 DEF Sighted
  <2>5. 0 \in Ages
    BY DEF Ages, Never
  <2>6. [rows[m] EXCEPT !.fdb = 0, !.here = here, !.seen = seen] \in Row
    BY <2>1, <2>5 DEF Row
  <2>7. LET r == [rows[m] EXCEPT !.fdb = 0, !.here = here, !.seen = seen]
        IN  /\ r.ip = rows[m].ip /\ r.confirmed = rows[m].confirmed
            /\ r.copyOf = rows[m].copyOf /\ r.seen = seen
    BY <2>1 DEF Row
  <2> QED
    BY <1>1, <2>3, <2>4, <2>6, <2>7
<1>2. CASE m \notin Rows
  <2>1. PICK here \in BOOLEAN : here = (input.sight[m] = "bound")
    BY Zenon
  <2>2. Sighted(m) = [seen |-> 1, ip |-> NoIP, confirmed |-> FALSE,
                      copyOf |-> NoRow, here |-> here, fdb |-> 0, arp |-> Never]
    BY <1>2, <2>1 DEF Sighted
  <2>3. /\ 0 \in Ages /\ Never \in Ages /\ 1 \in 0..CopySightings + 1
        /\ NoIP \in IPs \cup {NoIP} /\ NoRow \in Macs \cup {NoRow}
    BY DEF Ages, Never
  <2>4. Sighted(m) \in Row
    BY <2>2, <2>3 DEF Row
  <2>5. /\ Sighted(m).ip = NoIP /\ Sighted(m).seen = 1
        /\ Sighted(m).confirmed = FALSE /\ Sighted(m).copyOf = NoRow
    BY <2>2
  <2> QED
    BY <1>2, <2>4, <2>5
<1> QED
  BY <1>1, <1>2

\* What an ARP entry makes of a row.
LEMMA AddressShape ==
    ASSUME Typed, NEW m \in ArpKnows
    PROVE  /\ WithAddress(m) \in Row
           /\ WithAddress(m).ip = IF Claimed(m) THEN input.arp[m] ELSE NoIP
           /\ m \in Rows => /\ WithAddress(m).seen = rows[m].seen
                            /\ WithAddress(m).confirmed = rows[m].confirmed
           /\ m \notin Rows => /\ WithAddress(m).seen = 0
                               /\ WithAddress(m).confirmed = FALSE
<1> USE InventoryAssumption
<1>0. m \in Macs /\ 0 \in Ages /\ Never \in Ages
  BY DEF ArpKnows, Ages, Never
<1>1. PICK ip \in IPs \cup {NoIP} :
        ip = IF Claimed(m) THEN input.arp[m] ELSE NoIP
  BY <1>0, InputParts
<1>2. CASE m \in Rows
  <2>1. rows[m] \in Row
    BY <1>0, <1>2, RowParts
  <2>2. WithAddress(m) = [rows[m] EXCEPT !.ip = ip, !.arp = 0, !.copyOf = NoRow]
    BY <1>1, <1>2 DEF WithAddress
  <2> QED
    BY <1>0, <1>1, <1>2, <2>1, <2>2 DEF Row
<1>3. CASE m \notin Rows
  <2> DEFINE none == [seen |-> 0, ip |-> NoIP, confirmed |-> FALSE,
                      copyOf |-> NoRow, here |-> FALSE, fdb |-> Never,
                      arp |-> Never]
  <2>1. WithAddress(m) = [none EXCEPT !.ip = ip, !.arp = 0, !.copyOf = NoRow]
    BY <1>1, <1>3 DEF WithAddress
  <2>2. none \in Row /\ none.seen = 0 /\ none.confirmed = FALSE
    BY <1>0 DEF Row
  <2> HIDE DEF none
  <2>3. LET r == [none EXCEPT !.ip = ip, !.arp = 0, !.copyOf = NoRow]
        IN  r \in Row /\ r.ip = ip /\ r.seen = none.seen
            /\ r.confirmed = none.confirmed
    BY <1>0, <2>2 DEF Row
  <2> QED
    BY <1>1, <1>3, <2>1, <2>2, <2>3
<1> QED
  BY <1>2, <1>3

\* Confirming changes nothing else, nor does losing an address.
LEMMA SmallChanges ==
    ASSUME NEW r \in Row
    PROVE  /\ Confirmed(r) \in Row /\ Confirmed(r).confirmed = TRUE
           /\ Confirmed(r).ip = r.ip /\ Confirmed(r).seen = r.seen
           /\ Confirmed(r).copyOf = r.copyOf
           /\ [r EXCEPT !.ip = NoIP] \in Row /\ [r EXCEPT !.ip = NoIP].ip = NoIP
           /\ [r EXCEPT !.ip = NoIP].seen = r.seen
           /\ [r EXCEPT !.ip = NoIP].confirmed = r.confirmed
           /\ [r EXCEPT !.ip = NoIP].copyOf = r.copyOf
BY DEF Row, Confirmed

\* A day older, a row is what it was.
LEMMA AgedShape ==
    ASSUME NEW r \in Row
    PROVE  LET aged == [r EXCEPT !.fdb = Older(r.fdb), !.arp = Older(r.arp)]
           IN  /\ aged \in Row /\ aged.seen = r.seen /\ aged.ip = r.ip
               /\ aged.confirmed = r.confirmed
<1>1. \A age \in Ages : Older(age) \in Ages
  BY InventoryAssumption DEF Ages, Never, Older
<1>2. PICK fdb \in Ages, arp \in Ages : fdb = Older(r.fdb) /\ arp = Older(r.arp)
  BY <1>1 DEF Row
<1>3. LET aged == [r EXCEPT !.fdb = fdb, !.arp = arp]
      IN  /\ aged \in Row /\ aged.seen = r.seen /\ aged.ip = r.ip
          /\ aged.confirmed = r.confirmed
  BY DEF Row
<1> QED
  BY <1>2, <1>3

\* Marking touches rows without an address, and nothing of them but the mark.
LEMMA MarkedShape ==
    ASSUME Typed, NEW marks \in SUBSET (Macs \X Macs), NEW m \in Macs
    PROVE  \/ Marked(marks)[m] = rows[m]
           \/ /\ m \in Rows /\ Marked(marks)[m] \in Row
              /\ Marked(marks)[m].ip = rows[m].ip
              /\ Marked(marks)[m].confirmed = rows[m].confirmed
              /\ Marked(marks)[m].seen = rows[m].seen
<1> SUFFICES ASSUME Marked(marks)[m] # rows[m]
             PROVE  /\ m \in Rows /\ Marked(marks)[m] \in Row
                    /\ Marked(marks)[m].ip = rows[m].ip
                    /\ Marked(marks)[m].confirmed = rows[m].confirmed
                    /\ Marked(marks)[m].seen = rows[m].seen
  OBVIOUS
<1>1. /\ m \in Rows /\ \E s \in Macs : <<m, s>> \in marks
      /\ Marked(marks)[m] = [rows[m] EXCEPT !.copyOf =
                               CHOOSE s \in Macs : <<m, s>> \in marks]
  BY DEF Marked
<1>2. PICK s \in Macs : s = CHOOSE n \in Macs : <<m, n>> \in marks
  BY <1>1
<1>3. rows[m] \in Row
  BY <1>1, RowParts
<1> QED
  BY <1>1, <1>2, <1>3 DEF Row

\* The samples of the copies found are addresses.
LEMMA SamplesFound ==
    {<<m, SampleOf(m)>> : m \in ConfirmedCopies} \in SUBSET (Macs \X Macs)
<1> SUFFICES ASSUME NEW m \in ConfirmedCopies
             PROVE  m \in Macs /\ SampleOf(m) \in Macs
  OBVIOUS
<1>1. m \in Macs /\ \E s \in Crowded : m \in CopiesOf(s)
  BY DEF ConfirmedCopies, Rows
<1>2. SampleOf(m) \in Crowded
  BY <1>1 DEF SampleOf
<1> QED
  BY <1>1, <1>2 DEF Crowded, Rows

-----------------------------------------------------------------------------
(* Types *)

Marking == MarkCopies \/ StartHidesCopies
Purging == PurgeOld \/ PurgeCopies \/ Restart
Thinking == \/ \E i \in Inputs : ScanCollects(i)
            \/ ReadHosts \/ Project \/ FindCopies \/ ReadUnconfirmed \/ Reread
            \/ Released \/ Publish \/ ScanFails

\* Every step is one of these.
LEMMA StepKinds ==
    ASSUME [Next]_vars
    PROVE  \/ Thinking \/ UpsertHosts \/ SetIps \/ ConfirmHostsWithIp \/ Marking
           \/ (\E m \in Macs : ReleaseIp(m)) \/ Purging \/ DayPasses
           \/ UNCHANGED vars
BY DEF Next, Marking, Purging, Thinking

\* A cleanup takes rows away and leaves the others.
LEMMA PurgeShape ==
    ASSUME Purging
    PROVE  \E gone \in SUBSET Rows :
              /\ rows' = [m \in Macs |-> IF m \in gone THEN NoRow ELSE rows[m]]
              /\ notices' = [m \in Macs |-> IF m \in gone THEN 0 ELSE notices[m]]
              /\ \/ /\ proof' = [m \in Macs |-> IF m \in gone THEN 0 ELSE proof[m]]
                    /\ stage' = "start"
                 \/ /\ UNCHANGED <<stage, input, local>>
                    /\ proof' = [m \in Macs |->
                          IF m \notin gone THEN proof[m]
                          ELSE IF stage \in {"read", "project", "upsert"}
                                  /\ m \in Observed
                               THEN 1 ELSE 0]
<1>1. Old \in SUBSET Rows /\ Copies \in SUBSET Rows
  BY DEF Old, Copies
<1> QED
  BY <1>1 DEF Purging, PurgeOld, PurgeCopies, Restart, Delete, Forgotten

LEMMA RowsTypedStep ==
    ASSUME Typed, [Next]_vars
    PROVE  /\ rows' \in [Macs -> Row \cup {NoRow}] /\ notices' \in [Macs -> Nat]
           /\ proof' \in [Macs -> 0..ConfirmScans]
<1> USE InventoryAssumption
<1>0. /\ rows \in [Macs -> Row \cup {NoRow}] /\ notices \in [Macs -> Nat]
      /\ proof \in [Macs -> 0..ConfirmScans]
      /\ ConfirmScans \in Nat \ {0}
  BY DEF Typed
<1>1. \A new : Noticed(new) \in [Macs -> Nat]
  BY <1>0 DEF Noticed
<1>2. CASE Thinking
  <2>1. UNCHANGED <<rows, notices>>
    BY <1>2 DEF Thinking, ScanCollects, ReadHosts, Project, FindCopies,
       ReadUnconfirmed, Reread, Released, Publish, ScanFails
  <2>2. proof' \in [Macs -> 0..ConfirmScans]
    <3>1. ASSUME NEW i \in Inputs, ScanCollects(i)
          PROVE  proof' \in [Macs -> 0..ConfirmScans]
      BY <1>0, <3>1 DEF ScanCollects
    <3>2. CASE ReadHosts
      BY <1>0, <3>2 DEF ReadHosts
    <3> QED
      BY <1>0, <1>2, <3>1, <3>2 DEF Thinking, Project, FindCopies,
         ReadUnconfirmed, Reread, Released, Publish, ScanFails
  <2> QED
    BY <1>0, <2>1, <2>2
<1>3. CASE UpsertHosts
  <2>1. PICK new \in SUBSET Observed :
           /\ rows' = [m \in Macs |->
                 IF m \in new THEN Confirmed(Sighted(m))
                 ELSE IF m \in Observed THEN Sighted(m) ELSE rows[m]]
           /\ notices' = Noticed(new) /\ UNCHANGED proof
    BY <1>3 DEF UpsertHosts
  <2>2. \A m \in Macs : Sighted(m) \in Row /\ Confirmed(Sighted(m)) \in Row
    BY SightedShape, SmallChanges
  <2> QED
    BY <1>0, <1>1, <2>1, <2>2
<1>4. CASE SetIps
  <2>1. \A m \in Macs : m \in ArpKnows => WithAddress(m) \in Row
    BY AddressShape
  <2>2. \A m \in Macs : HasIP(m) => [rows[m] EXCEPT !.ip = NoIP] \in Row
    BY RowParts, SmallChanges DEF HasIP
  <2>3. rows' \in [Macs -> Row \cup {NoRow}]
    BY <1>0, <1>4, <2>1, <2>2 DEF SetIps
  <2>4. notices' = notices /\ proof' \in [Macs -> 0..ConfirmScans]
    BY <1>0, <1>4 DEF SetIps
  <2> QED
    BY <1>0, <2>3, <2>4
<1>5. CASE ConfirmHostsWithIp
  <2>1. \A m \in Vouched : Confirmed(rows[m]) \in Row
    BY RowParts, SmallChanges DEF Vouched, Rows
  <2> QED
    BY <1>0, <1>1, <1>5, <2>1 DEF ConfirmHostsWithIp
<1>6. CASE Marking
  <2>1. PICK marks \in SUBSET (Macs \X Macs) :
          rows' = Marked(marks) /\ UNCHANGED <<notices, proof>>
    BY <1>6, SamplesFound DEF Marking, MarkCopies, StartHidesCopies, Typed, Locals
  <2>2. \A m \in Macs : Marked(marks)[m] \in Row \cup {NoRow}
    BY <1>0, MarkedShape
  <2>3. Marked(marks) \in [Macs -> Row \cup {NoRow}]
    BY <2>2 DEF Marked
  <2> QED
    BY <1>0, <2>1, <2>3
<1>7. ASSUME NEW m \in Macs, ReleaseIp(m)
      PROVE  /\ rows' \in [Macs -> Row \cup {NoRow}] /\ notices' \in [Macs -> Nat]
             /\ proof' \in [Macs -> 0..ConfirmScans]
  <2>1. HasIP(m) => [rows[m] EXCEPT !.ip = NoIP] \in Row
    BY RowParts, SmallChanges DEF HasIP
  <2>2. rows' = rows \/ (HasIP(m) /\ rows' = [rows EXCEPT ![m] =
                                             [rows[m] EXCEPT !.ip = NoIP]])
    BY <1>7 DEF ReleaseIp
  <2>3. UNCHANGED <<notices, proof>>
    BY <1>7 DEF ReleaseIp
  <2> QED
    BY <1>0, <2>1, <2>2, <2>3
<1>8. CASE Purging
  BY <1>0, <1>8, PurgeShape
<1>9. CASE DayPasses
  <2>2. \A r \in Row : [r EXCEPT !.fdb = Older(r.fdb), !.arp = Older(r.arp)] \in Row
    BY AgedShape
  <2>3. \A m \in Macs : m \in Rows => rows[m] \in Row
    BY RowParts
  <2> QED
    BY <1>0, <1>9, <2>2, <2>3 DEF DayPasses
<1>10. CASE UNCHANGED vars
  BY <1>0, <1>10 DEF vars
<1> QED
  BY <1>2, <1>3, <1>4, <1>5, <1>6, <1>7, <1>8, <1>9, <1>10, StepKinds

\* What the scan has read stays in its shape.
LEMMA LocalTypedStep == ASSUME Typed, [Next]_vars PROVE local' \in Locals
<1> USE InventoryAssumption
<1>1. local \in Locals /\ Nothing \in Locals
  BY NothingTyped DEF Typed
<1>2. CASE \/ UpsertHosts \/ Publish \/ ScanFails \/ Restart \/ SetIps
           \/ ConfirmHostsWithIp \/ Released \/ PurgeOld \/ PurgeCopies
           \/ DayPasses \/ StartHidesCopies \/ UNCHANGED vars
           \/ \E i \in Inputs : ScanCollects(i)
  <2>1. [Nothing EXCEPT !.suspects = local.suspects] \in Locals
    BY <1>1 DEF Locals
  <2> QED
    BY <1>1, <1>2, <2>1 DEF UpsertHosts, Publish, ScanFails, Restart, SetIps,
       ConfirmHostsWithIp, Released, PurgeOld, PurgeCopies, DayPasses,
       StartHidesCopies, vars, ScanCollects
<1>3. CASE ReadHosts
  <2>1. PICK n \in {1, ConfirmScans}, held \in SUBSET Macs :
          local' = [local EXCEPT !.confirmScans = n, !.suspects = held]
    <3>1. Suspects(IF Rows = {} THEN {} ELSE Candidates, Samples) \in SUBSET Macs
      BY DEF Suspects, In
    <3>2. (IF Rows = {} THEN 1 ELSE ConfirmScans) \in {1, ConfirmScans}
      OBVIOUS
    <3> QED
      BY <1>3, <3>1, <3>2 DEF ReadHosts
  <2> QED
    BY <1>1, <2>1 DEF Locals
<1>4. CASE Project
  <2>1. PICK some \in SUBSET Macs : local' = [local EXCEPT !.pending = some]
    BY <1>4 DEF Project, In
  <2> QED
    BY <1>1, <2>1 DEF Locals
<1>5. CASE FindCopies
  <2>1. PICK some \in SUBSET (Macs \X Macs) : local' = [local EXCEPT !.marks = some]
    BY <1>5, SamplesFound DEF FindCopies
  <2> QED
    BY <1>1, <2>1 DEF Locals
<1>6. CASE MarkCopies
  BY <1>1, <1>6 DEF MarkCopies, Locals
<1>7. CASE ReadUnconfirmed
  <2>1. PICK some \in SUBSET Macs : local' = [local EXCEPT !.unconfirmed = some]
    BY <1>7 DEF ReadUnconfirmed, Rows
  <2> QED
    BY <1>1, <2>1 DEF Locals
<1>8. CASE Reread
  <2>1. PICK drawn \in SUBSET Macs, gone \in SUBSET Macs :
          local' = [Nothing EXCEPT !.draft = drawn, !.release = gone]
    <3>1. \A out : Drawn(out) \in SUBSET Macs
      BY DEF Drawn, In, Rows
    <3> QED
      BY <1>8, <3>1 DEF Reread, Rows
  <2> QED
    BY <1>1, <2>1 DEF Locals
<1>9. ASSUME NEW m \in Macs, ReleaseIp(m) PROVE local' \in Locals
  BY <1>1, <1>9 DEF ReleaseIp, Locals
<1> QED
  BY <1>2, <1>3, <1>4, <1>5, <1>6, <1>7, <1>8, <1>9 DEF Next

LEMMA TypedStep == ASSUME Typed, [Next]_vars PROVE Typed'
<1>1. stage' \in Stages
  BY DEF Typed, Next, Step, Stages, ScanCollects, ReadHosts, Project, UpsertHosts,
     SetIps, ConfirmHostsWithIp, FindCopies, MarkCopies, ReadUnconfirmed, Reread,
     ReleaseIp, Released, Publish, ScanFails, PurgeOld, PurgeCopies, DayPasses,
     Restart, StartHidesCopies, vars
<1>2. input' \in Inputs \cup {NoInput}
  BY NoArp DEF Typed, Next, ScanCollects, ReadHosts, Project, UpsertHosts,
     SetIps, ConfirmHostsWithIp, FindCopies, MarkCopies, ReadUnconfirmed, Reread,
     ReleaseIp, Released, Publish, ScanFails, PurgeOld, PurgeCopies, DayPasses,
     Restart, StartHidesCopies, vars
<1>3. map' \subseteq Macs /\ cleaning' \in BOOLEAN
  <2>1. map \subseteq Macs /\ cleaning \in BOOLEAN /\ local.draft \subseteq Macs
    BY DEF Typed, Locals
  <2> QED
    BY <2>1 DEF Keep, Next, ScanCollects, ReadHosts, Project, UpsertHosts,
       SetIps, ConfirmHostsWithIp, FindCopies, MarkCopies, ReadUnconfirmed, Reread,
       ReleaseIp, Released, Publish, ScanFails, PurgeOld, PurgeCopies, DayPasses,
       Restart, StartHidesCopies, vars
<1> QED
  BY <1>1, <1>2, <1>3, LocalTypedStep, RowsTypedStep DEF Typed

-----------------------------------------------------------------------------
(* What the writers make of a row *)

LEMMA UpsertRows ==
    ASSUME Typed, UpsertHosts, NEW m \in Macs
    PROVE  /\ m \in Rows' <=> m \in Rows \/ m \in Observed
           /\ m \notin Observed => rows'[m] = rows[m] /\ notices'[m] = notices[m]
           /\ m \in Observed => /\ rows'[m].seen = Sighted(m).seen
                                /\ rows'[m].ip = Sighted(m).ip
           /\ m \in Observed /\ Accepted(m) =>
                 /\ rows'[m].confirmed = TRUE /\ Sighted(m).confirmed = FALSE
                 /\ notices'[m] = notices[m] + 1
           /\ m \in Observed /\ ~Accepted(m) =>
                 /\ rows'[m].confirmed = Sighted(m).confirmed
                 /\ notices'[m] = notices[m]
<1>0. m \in Rows <=> rows[m] \in Row
  BY RowParts
<1>1. /\ Sighted(m) \in Row /\ Confirmed(Sighted(m)) \in Row
      /\ Confirmed(Sighted(m)).seen = Sighted(m).seen
      /\ Confirmed(Sighted(m)).ip = Sighted(m).ip
      /\ Confirmed(Sighted(m)).confirmed = TRUE
  BY SightedShape, SmallChanges
<1>2. rows'[m] = IF m \in Observed /\ Accepted(m) THEN Confirmed(Sighted(m))
                 ELSE IF m \in Observed THEN Sighted(m) ELSE rows[m]
  BY DEF UpsertHosts
<1>3. notices'[m] = IF m \in Observed /\ Accepted(m) THEN notices[m] + 1
                    ELSE notices[m]
  <2>1. notices[m] \in Nat
    BY DEF Typed
  <2> QED
    BY <2>1 DEF UpsertHosts, Noticed
<1>4. m \in Rows' <=> rows'[m] # NoRow
  BY DEF Rows
<1>5. Accepted(m) => Sighted(m).confirmed = FALSE
  BY <1>1 DEF Accepted, Row
<1> QED
  BY <1>0, <1>1, <1>2, <1>3, <1>4, <1>5, NoRowAssumption, RowParts

LEMMA AddressRows ==
    ASSUME Typed, SetIps, NEW m \in Macs
    PROVE  /\ m \in Rows' <=> m \in Rows \/ m \in ArpKnows
           /\ m \in ArpKnows =>
                 /\ rows'[m].ip = IF Claimed(m) THEN input.arp[m] ELSE NoIP
                 /\ m \in Rows => /\ rows'[m].seen = rows[m].seen
                                  /\ rows'[m].confirmed = rows[m].confirmed
                 /\ m \notin Rows => /\ rows'[m].seen = 0
                                     /\ rows'[m].confirmed = FALSE
           /\ m \notin ArpKnows /\ m \in Rows =>
                 /\ rows'[m].seen = rows[m].seen
                 /\ rows'[m].confirmed = rows[m].confirmed
                 /\ rows'[m].ip = NoIP
                    \/ /\ rows'[m].ip = rows[m].ip
                       /\ \A n \in ArpKnows : input.arp[n] # rows[m].ip
<1>0. (m \in Rows <=> rows[m] \in Row) /\ (m \notin Rows => rows[m] = NoRow)
  BY RowParts
<1>1. m \in Rows' <=> rows'[m] # NoRow
  BY DEF Rows
<1>2. CASE m \in ArpKnows
  <2>1. rows'[m] = WithAddress(m)
    BY <1>2 DEF SetIps
  <2> QED
    BY <1>0, <1>1, <1>2, <2>1, AddressShape, NoRowAssumption
<1>3. CASE m \notin ArpKnows
  <2>1. rows'[m] = IF HasIP(m) /\ \E n \in ArpKnows : input.arp[n] = rows[m].ip
                   THEN [rows[m] EXCEPT !.ip = NoIP]
                   ELSE rows[m]
    BY <1>3 DEF SetIps
  <2>2. CASE HasIP(m) /\ \E n \in ArpKnows : input.arp[n] = rows[m].ip
    <3>1. rows[m] \in Row /\ m \in Rows
      BY <1>0, <2>2 DEF HasIP
    <3>2. rows'[m] = [rows[m] EXCEPT !.ip = NoIP]
      BY <2>1, <2>2
    <3>3. PICK r \in Row : r = rows[m]
      BY <3>1
    <3>4. /\ rows'[m] \in Row /\ rows'[m].ip = NoIP /\ rows'[m].seen = r.seen
          /\ rows'[m].confirmed = r.confirmed
      BY <3>2, <3>3, SmallChanges
    <3> QED
      BY <1>1, <1>3, <3>1, <3>3, <3>4, NoRowAssumption
  <2>3. CASE ~(HasIP(m) /\ \E n \in ArpKnows : input.arp[n] = rows[m].ip)
    <3>1. rows'[m] = rows[m]
      BY <2>1, <2>3
    <3> QED
      BY <1>0, <1>1, <1>3, <2>3, <3>1, NoRowAssumption DEF HasIP
  <2> QED
    BY <2>2, <2>3
<1> QED
  BY <1>2, <1>3

\* The writers that only confirm, mark, release or age leave the rest.
LEMMA OtherRows ==
    ASSUME Typed, NEW m \in Macs,
           \/ ConfirmHostsWithIp \/ Marking \/ DayPasses
           \/ \E n \in Macs : ReleaseIp(n)
    PROVE  /\ m \in Rows' <=> m \in Rows
           /\ m \in Rows =>
                 /\ rows'[m].seen = rows[m].seen
                 /\ rows'[m].ip = rows[m].ip
                    \/ (rows'[m].ip = NoIP /\ stage = "release")
                 /\ \/ /\ rows'[m].confirmed = rows[m].confirmed
                       /\ notices'[m] = notices[m]
                    \/ /\ rows[m].confirmed = FALSE /\ rows'[m].confirmed = TRUE
                       /\ rows[m].ip # NoIP /\ notices'[m] = notices[m] + 1
           /\ m \notin Rows => notices'[m] = notices[m]
           /\ UNCHANGED proof
<1>0. /\ (m \in Rows <=> rows[m] \in Row) /\ (m \notin Rows => rows[m] = NoRow)
      /\ notices[m] \in Nat /\ (m \in Rows' <=> rows'[m] # NoRow)
  BY RowParts DEF Typed, Rows
<1>1. CASE ConfirmHostsWithIp
  <2>1. /\ rows'[m] = IF m \in Vouched THEN Confirmed(rows[m]) ELSE rows[m]
        /\ notices'[m] = IF m \in Vouched THEN notices[m] + 1 ELSE notices[m]
        /\ UNCHANGED proof
    BY <1>0, <1>1 DEF ConfirmHostsWithIp, Noticed
  <2>2. CASE m \in Vouched
    <3>1. /\ m \in Rows /\ rows[m] \in Row /\ rows[m].ip # NoIP
          /\ rows[m].confirmed = FALSE
      BY <1>0, <2>2 DEF Vouched, Row
    <3>2. PICK r \in Row : r = rows[m]
      BY <3>1
    <3>3. rows'[m] = Confirmed(r) /\ notices'[m] = notices[m] + 1
      <4>1. rows'[m] = Confirmed(rows[m]) /\ notices'[m] = notices[m] + 1
        BY <2>1, <2>2
      <4> QED
        BY <3>2, <4>1, Zenon
    <3>4. /\ rows'[m] \in Row /\ rows'[m].ip = r.ip /\ rows'[m].seen = r.seen
          /\ rows'[m].confirmed = TRUE
      <4>1. /\ Confirmed(r) \in Row /\ Confirmed(r).ip = r.ip
            /\ Confirmed(r).seen = r.seen /\ Confirmed(r).confirmed = TRUE
        BY SmallChanges
      <4> QED
        BY <3>3, <4>1
    <3> QED
      BY <1>0, <2>1, <3>1, <3>2, <3>3, <3>4, NoRowAssumption
  <2>3. CASE m \notin Vouched
    BY <1>0, <2>1, <2>3, NoRowAssumption
  <2> QED
    BY <2>2, <2>3
<1>2. CASE Marking
  <2>1. PICK marks \in SUBSET (Macs \X Macs) :
          rows' = Marked(marks) /\ UNCHANGED <<notices, proof>>
    BY <1>2, SamplesFound DEF Marking, MarkCopies, StartHidesCopies, Typed, Locals
  <2> QED
    BY <1>0, <2>1, MarkedShape, NoRowAssumption
<1>3. CASE DayPasses
  <2>1. UNCHANGED <<notices, proof>>
    BY <1>3 DEF DayPasses
  <2>2. CASE m \in Rows
    <3>1. PICK r \in Row : r = rows[m]
      BY <1>0, <2>2
    <3>2. rows'[m] = [r EXCEPT !.fdb = Older(r.fdb), !.arp = Older(r.arp)]
      BY <1>3, <2>2, <3>1 DEF DayPasses
    <3>3. /\ rows'[m] \in Row /\ rows'[m].seen = r.seen /\ rows'[m].ip = r.ip
          /\ rows'[m].confirmed = r.confirmed
      BY <3>2, AgedShape
    <3> QED
      BY <1>0, <2>1, <2>2, <3>1, <3>3, NoRowAssumption
  <2>3. CASE m \notin Rows
    BY <1>0, <1>3, <2>1, <2>3 DEF DayPasses
  <2> QED
    BY <2>2, <2>3
<1>4. ASSUME NEW n \in Macs, ReleaseIp(n)
      PROVE  /\ m \in Rows' <=> m \in Rows
             /\ m \in Rows =>
                   /\ rows'[m].seen = rows[m].seen
                   /\ rows'[m].ip = rows[m].ip
                      \/ (rows'[m].ip = NoIP /\ stage = "release")
                   /\ rows'[m].confirmed = rows[m].confirmed
             /\ notices'[m] = notices[m] /\ UNCHANGED proof
  <2>1. \/ rows'[m] = rows[m]
        \/ /\ m \in Rows /\ rows'[m] = [rows[m] EXCEPT !.ip = NoIP]
    BY <1>0, <1>4 DEF ReleaseIp, HasIP, Typed
  <2>2. UNCHANGED <<notices, proof>> /\ stage = "release"
    BY <1>4 DEF ReleaseIp
  <2> QED
    BY <1>0, <2>1, <2>2, SmallChanges, NoRowAssumption
<1> QED
  BY <1>1, <1>2, <1>3, <1>4

-----------------------------------------------------------------------------
(* One owner, one notice *)

Owners == \A m, n \in Rows : rows[m].ip = rows[n].ip /\ HasIP(m) => m = n
Notices ==
    \A m \in Macs : notices[m] = IF m \in Rows /\ rows[m].confirmed THEN 1 ELSE 0

\* A step that gives no address to anybody leaves each address its one host.
LEMMA OwnersKept ==
    ASSUME Owners,
           \A m \in Rows' : \/ rows'[m].ip = NoIP
                           \/ (m \in Rows /\ rows'[m].ip = rows[m].ip)
    PROVE  Owners'
BY DEF Owners, HasIP

LEMMA OwnersStep == ASSUME Typed, Owners, [Next]_vars PROVE Owners'
<1>1. CASE SetIps
  <2> SUFFICES ASSUME NEW m \in Rows', NEW n \in Rows',
                      rows'[m].ip = rows'[n].ip, rows'[m].ip # NoIP
               PROVE  m = n
    BY DEF Owners, HasIP
  <2>1. m \in Macs /\ n \in Macs
    BY DEF Rows
  <2>2. CASE m \in ArpKnows /\ n \in ArpKnows
    <3>1. /\ rows'[m].ip = IF Claimed(m) THEN input.arp[m] ELSE NoIP
          /\ rows'[n].ip = IF Claimed(n) THEN input.arp[n] ELSE NoIP
      BY <1>1, <2>1, <2>2, AddressRows
    <3>2. Claimed(m) /\ Claimed(n) /\ input.arp[m] = input.arp[n]
      BY <3>1
    <3> QED
      BY <3>2 DEF Claimed, Owner
  <2>3. CASE m \notin ArpKnows /\ n \notin ArpKnows
    BY <1>1, <2>1, <2>3, AddressRows DEF Owners, HasIP
  <2>4. CASE m \in ArpKnows /\ n \notin ArpKnows
    BY <1>1, <2>1, <2>4, AddressRows
  <2>5. CASE m \notin ArpKnows /\ n \in ArpKnows
    BY <1>1, <2>1, <2>5, AddressRows
  <2> QED
    BY <2>2, <2>3, <2>4, <2>5
<1>2. CASE UpsertHosts
  <2>1. ASSUME NEW m \in Rows'
        PROVE  \/ rows'[m].ip = NoIP
               \/ (m \in Rows /\ rows'[m].ip = rows[m].ip)
    <3>1. m \in Macs
      BY DEF Rows
    <3> QED
      BY <1>2, <3>1, UpsertRows, SightedShape
  <2> QED
    BY <2>1, OwnersKept
<1>3. CASE \/ ConfirmHostsWithIp \/ Marking \/ DayPasses
           \/ \E n \in Macs : ReleaseIp(n)
  <2>1. ASSUME NEW m \in Rows'
        PROVE  \/ rows'[m].ip = NoIP
               \/ (m \in Rows /\ rows'[m].ip = rows[m].ip)
    <3>1. m \in Macs
      BY DEF Rows
    <3> QED
      BY <1>3, <3>1, OtherRows
  <2> QED
    BY <2>1, OwnersKept
<1>4. CASE Thinking \/ UNCHANGED vars
  <2>1. UNCHANGED rows
    BY <1>4 DEF Thinking, ScanCollects, ReadHosts, Project, FindCopies,
       ReadUnconfirmed, Reread, Released, Publish, ScanFails, vars
  <2> QED
    BY <2>1 DEF Owners, Rows, HasIP
<1>5. CASE Purging
  <2>1. \A m \in Rows' : m \in Rows /\ rows'[m] = rows[m]
    BY <1>5, PurgeShape DEF Rows
  <2> QED
    BY <2>1, OwnersKept
<1> QED
  BY <1>1, <1>2, <1>3, <1>4, <1>5, StepKinds

LEMMA NoticesStep == ASSUME Typed, Notices, [Next]_vars PROVE Notices'
<1> SUFFICES ASSUME NEW m \in Macs
             PROVE  notices'[m] = IF m \in Rows' /\ rows'[m].confirmed THEN 1 ELSE 0
  BY DEF Notices
<1>1. notices[m] = IF m \in Rows /\ rows[m].confirmed THEN 1 ELSE 0
  BY DEF Notices
<1>2. CASE SetIps
  <2>1. notices' = notices
    BY <1>2 DEF SetIps
  <2>2. CASE m \in Rows
    BY <1>1, <1>2, <2>1, <2>2, AddressRows
  <2>3. CASE m \notin Rows
    BY <1>1, <1>2, <2>1, <2>3, AddressRows
  <2> QED
    BY <2>2, <2>3
<1>3. CASE UpsertHosts
  <2>1. CASE m \in Observed
    <3>1. Accepted(m) => ~(m \in Rows /\ rows[m].confirmed)
      BY <1>3, <2>1, UpsertRows, SightedShape
    <3>2. ~Accepted(m) => (rows'[m].confirmed <=> m \in Rows /\ rows[m].confirmed)
      <4>1. ~Accepted(m) => rows'[m].confirmed = Sighted(m).confirmed
        BY <1>3, <2>1, UpsertRows
      <4>2. /\ m \in Rows => Sighted(m).confirmed = rows[m].confirmed
            /\ m \notin Rows => Sighted(m).confirmed = FALSE
        BY SightedShape
      <4> QED
        BY <4>1, <4>2
    <3>3. /\ m \in Rows'
          /\ Accepted(m) => rows'[m].confirmed = TRUE /\ notices'[m] = notices[m] + 1
          /\ ~Accepted(m) => notices'[m] = notices[m]
      BY <1>3, <2>1, UpsertRows
    <3> QED
      BY <1>1, <3>1, <3>2, <3>3
  <2>2. CASE m \notin Observed
    <3>1. /\ m \in Rows' <=> m \in Rows
          /\ rows'[m] = rows[m] /\ notices'[m] = notices[m]
      BY <1>3, <2>2, UpsertRows
    <3> QED
      BY <1>1, <3>1
  <2> QED
    BY <2>1, <2>2
<1>4. CASE \/ ConfirmHostsWithIp \/ Marking \/ DayPasses
           \/ \E n \in Macs : ReleaseIp(n)
  <2>1. CASE m \in Rows
    <3>1. /\ m \in Rows'
          /\ \/ /\ rows'[m].confirmed = rows[m].confirmed
                /\ notices'[m] = notices[m]
             \/ /\ rows[m].confirmed = FALSE /\ rows'[m].confirmed = TRUE
                /\ notices'[m] = notices[m] + 1
      BY <1>4, <2>1, OtherRows
    <3> QED
      BY <1>1, <2>1, <3>1
  <2>2. CASE m \notin Rows
    BY <1>1, <1>4, <2>2, OtherRows
  <2> QED
    BY <2>1, <2>2
<1>5. CASE Thinking \/ UNCHANGED vars
  <2>1. UNCHANGED <<rows, notices>>
    BY <1>5 DEF Thinking, ScanCollects, ReadHosts, Project, FindCopies,
       ReadUnconfirmed, Reread, Released, Publish, ScanFails, vars
  <2> QED
    BY <1>1, <2>1 DEF Rows
<1>6. CASE Purging
  <2>1. PICK gone \in SUBSET Rows :
          /\ rows' = [n \in Macs |-> IF n \in gone THEN NoRow ELSE rows[n]]
          /\ notices' = [n \in Macs |-> IF n \in gone THEN 0 ELSE notices[n]]
    BY <1>6, PurgeShape
  <2>2. m \in Rows' <=> m \in Rows /\ m \notin gone
    BY <2>1 DEF Rows
  <2> QED
    BY <1>1, <2>1, <2>2
<1> QED
  BY <1>2, <1>3, <1>4, <1>5, <1>6, StepKinds

-----------------------------------------------------------------------------
(* What speaks for a row *)

Deciding == stage \in {"project", "upsert"}
Enough(m) == proof[m] >= ConfirmScans

\* How often a row has been seen, and whether the scan is about to see it.
Counted(m) == IF m \in Rows THEN rows[m].seen ELSE 0
Polled(m) == stage \in {"read", "project", "upsert"} /\ m \in Observed
Owed(m) == Counted(m) + (IF Polled(m) THEN 1 ELSE 0)

\* A confirmed row and one with an address have enough to show for it; any
\* other has been in as many polls as it has sightings, the one that the scan
\* has not written yet included.
EvidenceInv ==
    \A m \in Macs :
        /\ m \in Rows /\ (rows[m].confirmed \/ rows[m].ip # NoIP) => Enough(m)
        /\ Enough(m) \/ Owed(m) <= proof[m]

\* A scan that asks for one sighting found the table empty, and it still is.
FirstInv ==
    Deciding /\ local.confirmScans # ConfirmScans
        => Rows = {} /\ \A m \in Observed : Enough(m)

\* Who may come to, or stay at, the steps that decide.
LEMMA DecidingSteps ==
    ASSUME [Next]_vars, stage' \in {"project", "upsert"}
    PROVE  ReadHosts \/ Project \/ PurgeOld \/ PurgeCopies \/ UNCHANGED vars
BY DEF Next, Step, ScanCollects, UpsertHosts,
   SetIps, ConfirmHostsWithIp, FindCopies, MarkCopies, ReadUnconfirmed, Reread,
   ReleaseIp, Released, Publish, ScanFails, DayPasses, Restart, StartHidesCopies

LEMMA FirstStep == ASSUME Typed, FirstInv, [Next]_vars PROVE FirstInv'
<1> SUFFICES ASSUME Deciding', local'.confirmScans # ConfirmScans
             PROVE  Rows' = {} /\ \A m \in Observed' : Enough(m)'
  BY DEF FirstInv
<1>0. ReadHosts \/ Project \/ PurgeOld \/ PurgeCopies \/ UNCHANGED vars
  BY DecidingSteps DEF Deciding
<1>1. CASE ReadHosts
  <2>1. Rows = {}
    <3>1. PICK n, held : /\ local' = [local EXCEPT !.confirmScans = n, !.suspects = held]
                         /\ n = IF Rows = {} THEN 1 ELSE ConfirmScans
      BY <1>1 DEF ReadHosts
    <3>2. local'.confirmScans = n
      BY <3>1 DEF Typed, Locals
    <3> QED
      BY <3>1, <3>2
  <2>2. Rows' = {} /\ Observed' = Observed
    BY <1>1, <2>1 DEF ReadHosts, Rows, Observed, In
  <2>3. \A m \in Observed : m \in Macs /\ proof'[m] = ConfirmScans
    BY <1>1, <2>1 DEF ReadHosts, Observed, In
  <2> QED
    BY <2>2, <2>3, InventoryAssumption DEF Enough
<1>2. CASE Project
  <2>1. UNCHANGED <<rows, input, proof>> /\ Deciding
    BY <1>2 DEF Project, Step, Deciding
  <2>2. local'.confirmScans = local.confirmScans
    <3>1. PICK some : local' = [local EXCEPT !.pending = some]
      BY <1>2 DEF Project
    <3> QED
      BY <3>1 DEF Typed, Locals
  <2> QED
    BY <2>1, <2>2 DEF FirstInv, Rows, Observed, In, Enough
<1>3. CASE PurgeOld \/ PurgeCopies
  <2>1. UNCHANGED <<stage, input, local>>
    BY <1>3 DEF PurgeOld, PurgeCopies
  <2>2. Rows = {} /\ \A m \in Observed : Enough(m)
    BY <2>1 DEF FirstInv, Deciding
  <2>3. Old = {} /\ Copies = {}
    BY <2>2 DEF Old, Copies
  <2>4. rows' = rows /\ proof' = proof
    BY <1>3, <2>3 DEF PurgeOld, PurgeCopies, Delete, Forgotten, Typed
  <2> QED
    BY <2>1, <2>2, <2>4 DEF Rows, Observed, In, Enough
<1>4. CASE UNCHANGED vars
  BY <1>4 DEF FirstInv, Deciding, Rows, Observed, In, Enough, vars
<1> QED
  BY <1>0, <1>1, <1>2, <1>3, <1>4

LEMMA EvidenceStep ==
    ASSUME Typed, EvidenceInv, FirstInv, [Next]_vars PROVE EvidenceInv'
<1> USE InventoryAssumption
<1> SUFFICES ASSUME NEW m \in Macs
             PROVE  /\ m \in Rows' /\ (rows'[m].confirmed \/ rows'[m].ip # NoIP)
                         => Enough(m)'
                    /\ Enough(m)' \/ Owed(m)' <= proof'[m]
  BY DEF EvidenceInv
<1>1. /\ m \in Rows /\ (rows[m].confirmed \/ rows[m].ip # NoIP) => Enough(m)
      /\ Enough(m) \/ Owed(m) <= proof[m]
  BY DEF EvidenceInv
<1>2. /\ proof[m] \in 0..ConfirmScans /\ ConfirmScans \in Nat \ {0}
      /\ Counted(m) \in Nat /\ CopySightings \in Nat /\ ConfirmScans <= CopySightings
      /\ proof'[m] \in Nat
  <2>1. m \in Rows => rows[m].seen \in Nat
    BY RowParts DEF Row
  <2> QED
    BY <2>1, RowsTypedStep DEF Typed, Counted
<1>3. ASSUME NEW i \in Inputs, ScanCollects(i)
      PROVE  /\ m \in Rows' /\ (rows'[m].confirmed \/ rows'[m].ip # NoIP)
                   => Enough(m)'
             /\ Enough(m)' \/ Owed(m)' <= proof'[m]
  <2>1. Rows' = Rows /\ rows' = rows /\ Counted(m)' = Counted(m) /\ ~Polled(m)
    BY <1>3 DEF ScanCollects, Rows, Counted, Polled, Step
  <2>2. Polled(m)' <=> i.sight[m] \in {"bound", "uplink"}
    BY <1>3 DEF ScanCollects, Polled, Step, Observed, In
  <2>3. proof'[m] = IF i.sight[m] \in {"bound", "uplink"} /\ proof[m] < ConfirmScans
                    THEN proof[m] + 1 ELSE proof[m]
    BY <1>3 DEF ScanCollects
  <2> QED
    BY <1>1, <1>2, <2>1, <2>2, <2>3 DEF Enough, Owed
<1>4. CASE ReadHosts
  <2>1. Rows' = Rows /\ rows' = rows /\ Counted(m)' = Counted(m)
        /\ (Polled(m)' <=> Polled(m))
    BY <1>4 DEF ReadHosts, Rows, Counted, Polled, Step, Observed, In
  <2>2. proof'[m] = proof[m] \/ proof'[m] = ConfirmScans
    BY <1>4 DEF ReadHosts
  <2> QED
    BY <1>1, <1>2, <2>1, <2>2 DEF Enough, Owed
<1>5. CASE \/ Project \/ FindCopies \/ ReadUnconfirmed \/ Reread \/ Released
           \/ Publish \/ ScanFails \/ UNCHANGED vars
  <2>1. Rows' = Rows /\ rows' = rows /\ Counted(m)' = Counted(m) /\ proof' = proof
    BY <1>5 DEF Project, FindCopies, ReadUnconfirmed, Reread, Released, Publish,
       ScanFails, vars, Rows, Counted
  <2>2. Polled(m)' => Polled(m)
    BY <1>5 DEF Project, FindCopies, ReadUnconfirmed, Reread, Released, Publish,
       ScanFails, vars, Polled, Step, Observed, In
  <2> QED
    BY <1>1, <1>2, <2>1, <2>2 DEF Enough, Owed
<1>6. CASE UpsertHosts
  <2>1. stage = "upsert" /\ ~Polled(m)' /\ proof' = proof
    BY <1>6 DEF UpsertHosts, Step, Polled
  <2>2. CASE m \in Observed
    <3>1. /\ m \in Rows' /\ rows'[m].seen = Sighted(m).seen
          /\ rows'[m].ip = Sighted(m).ip
      BY <1>6, <2>2, UpsertRows
    <3>2. Sighted(m).seen \in Nat /\ Sighted(m).seen <= Counted(m) + 1
          /\ (Sighted(m).seen = Counted(m) + 1 \/ Counted(m) > CopySightings)
      <4>1. CASE m \in Rows
        <5>1. Sighted(m).seen = IF rows[m].seen > CopySightings THEN rows[m].seen
                                ELSE rows[m].seen + 1
          BY <4>1, SightedShape
        <5>2. Counted(m) = rows[m].seen
          BY <4>1 DEF Counted
        <5> QED
          BY <1>2, <5>1, <5>2
      <4>2. CASE m \notin Rows
        <5>1. Sighted(m).seen = 1 /\ Counted(m) = 0
          BY <4>2, SightedShape DEF Counted
        <5> QED
          BY <5>1
      <4> QED
        BY <4>1, <4>2
    <3>3. Sighted(m).ip # NoIP => m \in Rows /\ rows[m].ip # NoIP
      BY SightedShape
    <3>4. Counted(m)' = Sighted(m).seen
      BY <3>1 DEF Counted
    <3>5. Enough(m) \/ Counted(m) + 1 <= proof[m]
      BY <1>1, <2>1, <2>2 DEF Owed, Polled
    <3>6. rows'[m].confirmed => Enough(m)
      <4>1. CASE Accepted(m)
        <5>1. \/ Sighted(m).ip # NoIP
              \/ Sighted(m).seen >= local.confirmScans
          BY <4>1 DEF Accepted
        <5>2. CASE local.confirmScans = ConfirmScans
          BY <1>1, <1>2, <3>2, <3>3, <3>5, <5>1, <5>2 DEF Enough
        <5>3. CASE local.confirmScans # ConfirmScans
          BY <2>1, <2>2, <5>3 DEF FirstInv, Deciding
        <5> QED
          BY <5>2, <5>3
      <4>2. CASE ~Accepted(m)
        <5>1. rows'[m].confirmed = Sighted(m).confirmed
          BY <1>6, <2>2, <4>2, UpsertRows
        <5>2. /\ m \in Rows => Sighted(m).confirmed = rows[m].confirmed
              /\ m \notin Rows => Sighted(m).confirmed = FALSE
          BY SightedShape
        <5> QED
          BY <1>1, <5>1, <5>2
      <4> QED
        BY <4>1, <4>2
    <3> QED
      BY <1>1, <1>2, <2>1, <3>1, <3>2, <3>3, <3>4, <3>5, <3>6 DEF Enough, Owed
  <2>3. CASE m \notin Observed
    <3>1. rows'[m] = rows[m] /\ (m \in Rows' <=> m \in Rows)
      BY <1>6, <2>3, UpsertRows
    <3>2. Counted(m)' = Counted(m) /\ ~Polled(m)
      BY <2>3, <3>1 DEF Counted, Polled
    <3> QED
      BY <1>1, <1>2, <2>1, <3>1, <3>2 DEF Enough, Owed
  <2> QED
    BY <2>2, <2>3
<1>7. CASE SetIps
  <2>1. ~Polled(m)' /\ proof'[m] = IF m \in ArpKnows THEN ConfirmScans ELSE proof[m]
    BY <1>7 DEF SetIps, Step, Polled
  <2>2. CASE m \in ArpKnows
    BY <1>2, <2>1, <2>2 DEF Enough
  <2>3. CASE m \notin ArpKnows
    <3>1. (m \in Rows' <=> m \in Rows)
          /\ (m \in Rows => /\ rows'[m].seen = rows[m].seen
                           /\ rows'[m].confirmed = rows[m].confirmed
                           /\ (rows'[m].ip = NoIP \/ rows'[m].ip = rows[m].ip))
      BY <1>7, <2>3, AddressRows
    <3>2. Counted(m)' = Counted(m)
      BY <3>1 DEF Counted
    <3> QED
      BY <1>1, <1>2, <2>1, <2>3, <3>1, <3>2 DEF Enough, Owed
  <2> QED
    BY <2>2, <2>3
<1>8. CASE \/ ConfirmHostsWithIp \/ Marking \/ DayPasses
           \/ \E n \in Macs : ReleaseIp(n)
  <2>1. ~Polled(m)'
    BY <1>8 DEF ConfirmHostsWithIp, Marking, MarkCopies, StartHidesCopies,
       DayPasses, ReleaseIp, Step, Polled
  <2>2. (m \in Rows' <=> m \in Rows) /\ proof' = proof
        /\ (m \in Rows => /\ rows'[m].seen = rows[m].seen
                         /\ (rows'[m].ip = NoIP \/ rows'[m].ip = rows[m].ip)
                         /\ (rows'[m].confirmed = rows[m].confirmed
                               \/ rows[m].ip # NoIP))
    BY <1>8, OtherRows
  <2>3. Counted(m)' = Counted(m)
    BY <2>2 DEF Counted
  <2> QED
    BY <1>1, <1>2, <2>1, <2>2, <2>3 DEF Enough, Owed
<1>9. CASE Purging
  <2>1. PICK gone \in SUBSET Rows :
          /\ rows' = [n \in Macs |-> IF n \in gone THEN NoRow ELSE rows[n]]
          /\ \/ /\ proof' = [n \in Macs |-> IF n \in gone THEN 0 ELSE proof[n]]
                /\ stage' = "start"
             \/ /\ UNCHANGED <<stage, input, local>>
                /\ proof' = [n \in Macs |->
                      IF n \notin gone THEN proof[n]
                      ELSE IF stage \in {"read", "project", "upsert"}
                              /\ n \in Observed
                           THEN 1 ELSE 0]
    BY <1>9, PurgeShape
  <2>2. m \in Rows' <=> m \in Rows /\ m \notin gone
    BY <2>1 DEF Rows
  <2>3. Polled(m)' => Polled(m) /\ stage' = stage
    BY <2>1 DEF Polled, Observed, In
  <2>4. CASE m \in gone
    <3>1. Counted(m)' = 0
      BY <2>2, <2>4 DEF Counted
    <3>2. Polled(m)' => proof'[m] = 1
      BY <2>1, <2>3, <2>4 DEF Polled
    <3> QED
      BY <1>2, <2>2, <2>4, <3>1, <3>2 DEF Owed
  <2>5. CASE m \notin gone
    <3>1. rows'[m] = rows[m] /\ proof'[m] = proof[m] /\ Counted(m)' = Counted(m)
      BY <2>1, <2>2, <2>5 DEF Counted
    <3> QED
      BY <1>1, <1>2, <2>2, <2>3, <3>1 DEF Owed, Enough
  <2> QED
    BY <2>4, <2>5
<1> QED
  BY <1>3, <1>4, <1>5, <1>6, <1>7, <1>8, <1>9, StepKinds DEF Thinking

-----------------------------------------------------------------------------
(* What the scan decides, and what it draws *)

\* A waiting address bound to a port near one that is known here is held, since
\* the hosts were read: a cleanup only takes rows away.
Held(m) ==
    /\ input.sight[m] = "bound" /\ m \notin ArpKnows
    /\ m \in Rows /\ ~rows[m].confirmed /\ rows[m].ip = NoIP
HeldInv ==
    Deciding =>
        \A m, r \in Macs : Held(m) /\ <<m, r>> \in Near /\ KnownHere(r)
                           => m \in local.suspects

\* What was projected to stay unconfirmed still lacks a poll.
PendingInv ==
    stage = "upsert" =>
        \A m \in local.pending :
            /\ local.confirmScans > 1
            /\ m \in Rows => /\ ~rows[m].confirmed /\ rows[m].ip = NoIP
                             /\ rows[m].seen + 1 < local.confirmScans

\* What is drawn is shown, or its row is gone.
DraftInv ==
    /\ stage = "reread" =>
          \A m \in Rows : rows[m].confirmed \/ m \in local.unconfirmed
    /\ stage \in {"release", "publish"} =>
          \A m \in local.draft : m \in Rows => m \in Shown

LEMMA RowsOnlyGo ==
    ASSUME Purging
    PROVE  \A m \in Rows' : m \in Rows /\ rows'[m] = rows[m]
BY PurgeShape DEF Rows

LEMMA HeldStep == ASSUME Typed, HeldInv, [Next]_vars PROVE HeldInv'
<1> SUFFICES ASSUME Deciding', NEW m \in Macs, NEW r \in Macs, Held(m)',
                    <<m, r>> \in Near, KnownHere(r)'
             PROVE  m \in local'.suspects
  BY DEF HeldInv
<1>0. ReadHosts \/ Project \/ PurgeOld \/ PurgeCopies \/ UNCHANGED vars
  BY DecidingSteps DEF Deciding
<1>1. CASE ReadHosts
  <2>1. Held(m) /\ KnownHere(r)
    BY <1>1 DEF ReadHosts, Held, KnownHere, Rows, ArpKnows, In
  <2>2. Rows # {} /\ r \in Samples
    BY <2>1 DEF KnownHere, Samples, Real
  <2>3. m \in Candidates /\ m \in In({"bound", "saved"})
    BY <2>1 DEF Held, Candidates, Real, In
  <2>4. m \in Suspects(Candidates, Samples)
    BY <2>2, <2>3 DEF Suspects
  <2>5. local'.suspects = Suspects(Candidates, Samples)
    <3>1. PICK n, held : /\ local' = [local EXCEPT !.confirmScans = n, !.suspects = held]
                         /\ held = Suspects(IF Rows = {} THEN {} ELSE Candidates,
                                            Samples)
      BY <1>1 DEF ReadHosts
    <3>2. local'.suspects = held
      BY <3>1 DEF Typed, Locals
    <3> QED
      BY <2>2, <3>1, <3>2
  <2> QED
    BY <2>4, <2>5
<1>2. CASE Project
  <2>1. Held(m) /\ KnownHere(r) /\ Deciding
    BY <1>2 DEF Project, Step, Deciding, Held, KnownHere, Rows, ArpKnows
  <2>2. local'.suspects = local.suspects
    <3>1. PICK some : local' = [local EXCEPT !.pending = some]
      BY <1>2 DEF Project
    <3> QED
      BY <3>1 DEF Typed, Locals
  <2> QED
    BY <2>1, <2>2 DEF HeldInv
<1>3. CASE PurgeOld \/ PurgeCopies
  <2>1. UNCHANGED <<stage, input, local>>
    BY <1>3 DEF PurgeOld, PurgeCopies
  <2>2. /\ m \in Rows' => m \in Rows /\ rows'[m] = rows[m]
        /\ r \in Rows' => r \in Rows /\ rows'[r] = rows[r]
    BY <1>3, RowsOnlyGo DEF Purging
  <2>3. Held(m) /\ KnownHere(r) /\ Deciding
    BY <2>1, <2>2 DEF Deciding, Held, KnownHere, ArpKnows
  <2> QED
    BY <2>1, <2>3 DEF HeldInv
<1>4. CASE UNCHANGED vars
  BY <1>4 DEF vars, HeldInv, Deciding, Held, KnownHere, Rows, ArpKnows
<1> QED
  BY <1>0, <1>1, <1>2, <1>3, <1>4

LEMMA PendingStep == ASSUME Typed, PendingInv, [Next]_vars PROVE PendingInv'
<1> SUFFICES ASSUME stage' = "upsert", NEW m \in local'.pending
             PROVE  /\ local'.confirmScans > 1
                    /\ m \in Rows' => /\ ~rows'[m].confirmed /\ rows'[m].ip = NoIP
                                      /\ rows'[m].seen + 1 < local'.confirmScans
  BY DEF PendingInv
<1>0. Project \/ PurgeOld \/ PurgeCopies \/ UNCHANGED vars
  BY DecidingSteps DEF ReadHosts, Step
<1>1. CASE Project
  <2>1. PICK some : /\ local' = [local EXCEPT !.pending = some]
                    /\ some = IF local.confirmScans <= 1 THEN {}
                              ELSE {n \in In({"bound", "uplink"}) :
                                      \/ n \notin Rows
                                      \/ /\ ~rows[n].confirmed /\ rows[n].ip = NoIP
                                         /\ rows[n].seen + 1 < local.confirmScans}
    BY <1>1 DEF Project
  <2>2. local'.pending = some /\ local'.confirmScans = local.confirmScans
        /\ local.confirmScans \in Nat
    BY <2>1, InventoryAssumption DEF Typed, Locals
  <2>3. Rows' = Rows /\ rows' = rows
    BY <1>1 DEF Project, Rows
  <2> QED
    BY <2>1, <2>2, <2>3
<1>2. CASE PurgeOld \/ PurgeCopies
  <2>1. UNCHANGED <<stage, input, local>>
    BY <1>2 DEF PurgeOld, PurgeCopies
  <2>2. m \in Rows' => m \in Rows /\ rows'[m] = rows[m]
    BY <1>2, RowsOnlyGo DEF Purging
  <2> QED
    BY <2>1, <2>2 DEF PendingInv
<1>3. CASE UNCHANGED vars
  BY <1>3 DEF vars, PendingInv, Rows
<1> QED
  BY <1>0, <1>1, <1>2, <1>3

LEMMA DraftStep == ASSUME Typed, DraftInv, [Next]_vars PROVE DraftInv'
<1>1. ASSUME stage' = "reread", NEW m \in Rows'
      PROVE  rows'[m].confirmed \/ m \in local'.unconfirmed
  <2>1. ReadUnconfirmed \/ PurgeOld \/ PurgeCopies \/ UNCHANGED vars
    BY <1>1 DEF Next, Step, ScanCollects, ReadHosts, Project, UpsertHosts,
       SetIps, ConfirmHostsWithIp, FindCopies, MarkCopies, Reread, ReleaseIp,
       Released, Publish, ScanFails, DayPasses, Restart, StartHidesCopies
  <2>2. CASE ReadUnconfirmed
    <3>1. PICK some : /\ local' = [local EXCEPT !.unconfirmed = some]
                      /\ some = {n \in Rows : ~rows[n].confirmed}
      BY <2>2 DEF ReadUnconfirmed
    <3>2. local'.unconfirmed = some /\ Rows' = Rows /\ rows' = rows
      BY <2>2, <3>1 DEF Typed, Locals, ReadUnconfirmed, Rows
    <3> QED
      BY <1>1, <3>1, <3>2
  <2>3. CASE PurgeOld \/ PurgeCopies
    <3>1. UNCHANGED <<stage, local>>
      BY <2>3 DEF PurgeOld, PurgeCopies
    <3>2. m \in Rows /\ rows'[m] = rows[m]
      BY <1>1, <2>3, RowsOnlyGo DEF Purging
    <3> QED
      BY <1>1, <3>1, <3>2 DEF DraftInv
  <2>4. CASE UNCHANGED vars
    BY <1>1, <2>4 DEF vars, DraftInv, Rows
  <2> QED
    BY <2>1, <2>2, <2>3, <2>4
<1>2. ASSUME stage' \in {"release", "publish"}, NEW m \in local'.draft, m \in Rows'
      PROVE  m \in Shown'
  <2>1. \/ Reread \/ Released \/ PurgeOld \/ PurgeCopies \/ UNCHANGED vars
        \/ \E n \in Macs : ReleaseIp(n)
    BY <1>2 DEF Next, Step, ScanCollects, ReadHosts, Project, UpsertHosts,
       SetIps, ConfirmHostsWithIp, FindCopies, MarkCopies, ReadUnconfirmed,
       Publish, ScanFails, DayPasses, Restart, StartHidesCopies
  <2>2. CASE Reread
    <3> DEFINE out == local.unconfirmed \cup local.suspects
                        \cup {n \in Rows : rows[n].copyOf # NoRow}
    <3>1. PICK drawn, gone : /\ local' = [Nothing EXCEPT !.draft = drawn,
                                                         !.release = gone]
                             /\ drawn = Drawn(out)
      BY <2>2 DEF Reread
    <3>2. local'.draft = drawn
      BY <3>1 DEF Nothing
    <3>3. m \in Rows /\ rows' = rows /\ stage = "reread" /\ Rows' = Rows
      BY <1>2, <2>2 DEF Reread, Step, Rows
    <3>4. m \notin out
      BY <1>2, <3>1, <3>2 DEF Drawn
    <3>5. rows[m].confirmed /\ rows[m].copyOf = NoRow
      BY <3>3, <3>4 DEF DraftInv
    <3> QED
      BY <3>3, <3>5 DEF Shown
  <2>3. CASE Released \/ UNCHANGED vars
    BY <1>2, <2>3 DEF Released, Step, vars, DraftInv, Shown, Rows
  <2>4. CASE PurgeOld \/ PurgeCopies
    <3>1. UNCHANGED <<stage, local>>
      BY <2>4 DEF PurgeOld, PurgeCopies
    <3>2. m \in Rows /\ rows'[m] = rows[m]
      BY <1>2, <2>4, RowsOnlyGo DEF Purging
    <3> QED
      BY <1>2, <3>1, <3>2 DEF DraftInv, Shown
  <2>5. ASSUME NEW n \in Macs, ReleaseIp(n) PROVE m \in Shown'
    <3>1. local'.draft = local.draft /\ UNCHANGED stage
      <4>1. PICK some : local' = [local EXCEPT !.release = some]
        BY <2>5 DEF ReleaseIp
      <4> QED
        BY <2>5, <4>1 DEF ReleaseIp, Typed, Locals
    <3>2. m \in Macs /\ (rows'[m] = rows[m]
            \/ (m \in Rows /\ rows'[m] = [rows[m] EXCEPT !.ip = NoIP]))
      BY <1>2, <2>5 DEF ReleaseIp, HasIP, Typed, Rows
    <3>3. m \in Rows /\ rows[m] \in Row
      BY <1>2, <3>2, RowParts DEF Rows
    <3>4. rows'[m].confirmed = rows[m].confirmed /\ rows'[m].copyOf = rows[m].copyOf
      BY <3>2, <3>3 DEF Row
    <3> QED
      BY <1>2, <3>1, <3>3, <3>4 DEF DraftInv, Shown
  <2> QED
    BY <2>1, <2>2, <2>3, <2>4, <2>5
<1> QED
  BY <1>1, <1>2 DEF DraftInv

-----------------------------------------------------------------------------
(* The theorems *)

TableInv ==
    /\ Typed /\ Owners /\ Notices /\ EvidenceInv /\ FirstInv
    /\ HeldInv /\ PendingInv /\ DraftInv

LEMMA TableInit == Init => TableInv
<1> SUFFICES ASSUME Init PROVE TableInv
  OBVIOUS
<1> USE InventoryAssumption DEF Init
<1>1. Typed
  <2>1. rows \in [Macs -> Row \cup {NoRow}] /\ notices \in [Macs -> Nat]
    OBVIOUS
  <2>2. proof \in [Macs -> 0..ConfirmScans]
    OBVIOUS
  <2>3. /\ stage \in Stages /\ input \in Inputs \cup {NoInput} /\ local \in Locals
        /\ map \subseteq Macs /\ cleaning \in BOOLEAN
    BY NothingTyped DEF Stages
  <2> QED
    BY <2>1, <2>2, <2>3 DEF Typed
<1>2. Rows = {} /\ \A m \in Macs : ~Polled(m)
  BY DEF Rows, Polled
<1>3. Owners /\ Notices /\ FirstInv /\ HeldInv /\ PendingInv /\ DraftInv
  BY <1>2 DEF Owners, Notices, FirstInv, Deciding, HeldInv, PendingInv, DraftInv
<1>4. EvidenceInv
  BY <1>2 DEF EvidenceInv, Owed, Counted
<1> QED
  BY <1>1, <1>3, <1>4 DEF TableInv

LEMMA TableStep == TableInv /\ [Next]_vars => TableInv'
BY TypedStep, OwnersStep, NoticesStep, EvidenceStep, FirstStep, HeldStep,
   PendingStep, DraftStep DEF TableInv

LEMMA TableHolds == Spec => []TableInv
BY TableInit, TableStep, PTL DEF Spec

\* At any moment, between any two transactions of the scan, the cleanup and the
\* start: an address has one host, and a device was confirmed on evidence and
\* journalled once, for any number of addresses and any thresholds.
THEOREM RowsStayTrue == Spec => []RowsAreTrue
<1>1. ASSUME TableInv PROVE RowsAreTrue
  <2> USE <1>1, InventoryAssumption DEF TableInv
  <2>1. notices \in [Macs -> 0..1]
    BY DEF Typed, Notices
  <2>2. TypeOK
    BY <2>1 DEF TypeOK, Typed, Locals
  <2>3. OneOwnerOneNotice
    BY DEF OneOwnerOneNotice, Owners, Notices
  <2>4. ConfirmedOnEvidence
    BY DEF ConfirmedOnEvidence, EvidenceInv, Enough, Rows
  <2> QED
    BY <2>2, <2>3, <2>4 DEF RowsAreTrue
<1> QED
  BY <1>1, TableHolds, PTL

\* What the sightings of a scan decide for an address: of a damaged copy,
\* nothing, and of what was projected, what the projection says.
LEMMA UpsertDecides ==
    ASSUME TableInv, [Next]_vars, stage = "upsert", stage' = "arp", NEW m \in Macs
    PROVE  /\ /\ ConfirmScans > 1
              /\ input.sight[m] = "bound" /\ m \notin ArpKnows
              /\ m \notin Shown /\ ~HasIP(m) /\ (m \in Rows => ~rows[m].confirmed)
              /\ \E r \in Macs : <<m, r>> \in Near /\ KnownHere(r)
              => ~rows'[m].confirmed
           /\ m \in local.pending /\ m \in Rows' => ~rows'[m].confirmed
<1>1. UpsertHosts
  BY DEF Next, Step, ScanCollects, ReadHosts, Project,
     SetIps, ConfirmHostsWithIp, FindCopies, MarkCopies, ReadUnconfirmed, Reread,
     ReleaseIp, Released, Publish, ScanFails, PurgeOld, PurgeCopies, DayPasses,
     Restart, StartHidesCopies, vars
<1>2. /\ local.confirmScans \in {1, ConfirmScans} /\ ConfirmScans \in Nat
      /\ m \in Rows => rows[m].seen \in Nat
  BY InventoryAssumption, RowParts DEF TableInv, Typed, Locals, Row
<1>3. /\ m \in Observed /\ Accepted(m) => Sighted(m).confirmed = FALSE
      /\ m \in Observed /\ ~Accepted(m)
            => rows'[m].confirmed = Sighted(m).confirmed
      /\ m \notin Observed => rows'[m] = rows[m] /\ (m \in Rows' <=> m \in Rows)
  BY <1>1, UpsertRows DEF TableInv
<1>4. /\ m \in Rows => /\ Sighted(m).ip = rows[m].ip
                       /\ Sighted(m).confirmed = rows[m].confirmed
      /\ m \notin Rows => /\ Sighted(m).ip = NoIP /\ Sighted(m).seen = 1
                          /\ Sighted(m).confirmed = FALSE
      /\ m \in Rows => Sighted(m).seen <= rows[m].seen + 1
  <2>1. Typed
    BY DEF TableInv
  <2>2. CASE m \in Rows
    <3>1. Sighted(m).seen = IF rows[m].seen > CopySightings THEN rows[m].seen
                            ELSE rows[m].seen + 1
      BY <2>1, <2>2, SightedShape
    <3>2. Sighted(m).seen <= rows[m].seen + 1
      BY <1>2, <2>2, <3>1
    <3> QED
      BY <2>1, <2>2, <3>2, SightedShape
  <2>3. CASE m \notin Rows
    BY <2>1, <2>3, SightedShape
  <2> QED
    BY <2>2, <2>3
<1>5. ASSUME ConfirmScans > 1, input.sight[m] = "bound", m \notin ArpKnows,
             m \notin Shown, ~HasIP(m), m \in Rows => ~rows[m].confirmed,
             NEW r \in Macs, <<m, r>> \in Near, KnownHere(r)
      PROVE  ~rows'[m].confirmed
  <2>1. m \in Observed
    BY <1>5 DEF Observed, In
  <2>2. local.confirmScans = ConfirmScans
    BY <1>5 DEF TableInv, FirstInv, Deciding, KnownHere
  <2>3. ~Accepted(m)
    <3>1. CASE m \in Rows
      <4>1. Held(m)
        BY <1>5, <3>1 DEF Held, HasIP
      <4>2. m \in local.suspects
        BY <1>5, <4>1 DEF TableInv, HeldInv, Deciding
      <4>3. Sighted(m).ip = NoIP
        BY <1>4, <3>1, <4>1 DEF Held
      <4> QED
        BY <4>2, <4>3 DEF Accepted
    <3>2. CASE m \notin Rows
      BY <1>2, <1>4, <1>5, <2>2, <3>2 DEF Accepted
    <3> QED
      BY <3>1, <3>2
  <2> QED
    BY <1>3, <1>4, <1>5, <2>1, <2>3
<1>6. ASSUME m \in local.pending, m \in Rows' PROVE ~rows'[m].confirmed
  <2>1. /\ local.confirmScans > 1
        /\ m \in Rows => /\ ~rows[m].confirmed /\ rows[m].ip = NoIP
                         /\ rows[m].seen + 1 < local.confirmScans
    BY <1>6 DEF TableInv, PendingInv
  <2>2. m \in Observed => ~Accepted(m)
    <3>1. CASE m \in Rows
      <4>1. Sighted(m).seen \in Nat
        <5>1. Typed
          BY DEF TableInv
        <5>2. Sighted(m) \in Row
          BY <5>1, SightedShape
        <5> QED
          BY <5>2, InventoryAssumption DEF Row
      <4> QED
        BY <1>2, <1>4, <2>1, <3>1, <4>1 DEF Accepted
    <3>2. CASE m \notin Rows
      BY <1>2, <1>4, <2>1, <3>2 DEF Accepted
    <3> QED
      BY <3>1, <3>2
  <2> QED
    BY <1>3, <1>4, <1>6, <2>1, <2>2
<1> QED
  BY <1>1, <1>5, <1>6

\* Whatever a cleanup takes away between the steps of a scan, the verdict the
\* topology was built on is the one the table reaches, and the map that is
\* published shows nothing that waits and no copy.
THEOREM MapStaysClean == Spec => ProjectionHolds /\ MapIsClean
<1>1. TableInv /\ [Next]_vars
        => [stage = "upsert" /\ stage' = "arp" =>
              \A m \in local.pending : m \in Rows' => ~rows'[m].confirmed]_vars
  <2>1. TableInv => local.pending \subseteq Macs
    BY DEF TableInv, Typed, Locals
  <2> QED
    BY <2>1, UpsertDecides
<1>2. TableInv /\ [Next]_vars
        => [map' # map => \A m \in map' : m \in Rows => m \in Shown]_vars
  <2> SUFFICES ASSUME TableInv, Next, map' # map, NEW m \in map', m \in Rows
               PROVE  m \in Shown
    OBVIOUS
  <2>1. Publish \/ Restart
    BY DEF Next, ScanCollects, ReadHosts, Project, UpsertHosts,
       SetIps, ConfirmHostsWithIp, FindCopies, MarkCopies, ReadUnconfirmed, Reread,
       ReleaseIp, Released, ScanFails, PurgeOld, PurgeCopies, DayPasses,
       StartHidesCopies
  <2>2. ~Restart
    BY DEF Restart
  <2> QED
    BY <2>1, <2>2 DEF Publish, Step, TableInv, DraftInv
<1> QED
  BY <1>1, <1>2, TableHolds, PTL DEF Spec, ProjectionHolds, MapIsClean

\* And with more than one poll asked for, what may be a damaged copy is not
\* confirmed by being seen again.  (With one, an address that had a row when the
\* hosts were read and lost it to the cleanup is new, and one poll is enough.)
THEOREM ScansStayTrue == ASSUME ConfirmScans > 1 PROVE Spec => ScansAreTrue
<1>1. TableInv /\ [Next]_vars
        => [stage = "upsert" /\ stage' = "arp" =>
              \A m \in Macs :
                  /\ input.sight[m] = "bound" /\ m \notin ArpKnows
                  /\ m \notin Shown /\ ~HasIP(m) /\ (m \in Rows => ~rows[m].confirmed)
                  /\ \E r \in Macs : <<m, r>> \in Near /\ KnownHere(r)
                  => ~rows'[m].confirmed]_vars
  BY UpsertDecides
<1> QED
  BY <1>1, MapStaysClean, TableHolds, PTL DEF Spec, ScansAreTrue, CopiesAreHeld
=============================================================================
