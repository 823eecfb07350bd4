----------------------------- MODULE Inventory -----------------------------
(***************************************************************************)
(* The hosts table of moonlan/db.py and the three who write it: the scan   *)
(* of moonlan/server.py, which counts sightings, confirms devices, hides   *)
(* damaged copies and releases addresses in a dozen transactions with      *)
(* awaits between them; the daily cleanup, which may come between any two; *)
(* and the start of the service.  A transaction is atomic (one lock, one   *)
(* connection); what the scan has read is its own until it writes.         *)
(*                                                                         *)
(* Ages are in days: a row seen today is inside host_grace_hours and       *)
(* ip_confirm_hours, one of yesterday is outside both, and one of Retention *)
(* days ago is past host_retention_days.                                   *)
(***************************************************************************)
EXTENDS Naturals, FiniteSets

CONSTANTS
    Macs,
    Near,            \* pairs within thresholds.corruption_hamming_bits, one
                     \* switch
    IPs,
    NoRow, NoIP,     \* no record of an address, no address of a record
    Noted,           \* hosts with a label, a note, a name or the watch flag
    ConfirmScans,    \* new_host_confirm_scans
    CopySightings,   \* corruption.MAX_COPY_SIGHTINGS
    Crowd,           \* thresholds.corruption_macs_threshold
    Retention,       \* host_retention_days
    MaxScans, MaxDays, MaxStops   \* bounds: scans, days, failures and stops

ASSUME InventoryAssumption ==
    /\ IsFiniteSet(Macs) /\ Near \subseteq Macs \X Macs /\ Noted \subseteq Macs
    /\ \A m \in Macs : <<m, m>> \notin Near
    /\ {ConfirmScans, CopySightings, Crowd, Retention} \subseteq Nat \ {0}
    /\ ConfirmScans <= CopySightings
    /\ {MaxScans, MaxDays, MaxStops} \subseteq Nat

VARIABLES
    rows,       \* the hosts table
    notices,    \* journal: new_mac entries of a row since it was created
    stage,      \* the scan's next step
    input,      \* what this scan's polls and ARP tables delivered
    local,      \* what the scan has read and computed, while a step will use it
    map,        \* the devices on the published map
    cleaning,   \* the cleanup is between its two transactions
    proof,      \* history: what speaks for a row, ConfirmScans and more: enough
    count       \* scans, days and stops so far

vars == <<rows, notices, stage, input, local, map, cleaning, proof, count>>

Never == Retention + 1
Ages  == 0..Never
Today(age) == age = 0

\* here: switch_ip of the row is a polled switch
Row == [seen : 0..CopySightings + 1, ip : IPs \cup {NoIP}, confirmed : BOOLEAN,
        copyOf : Macs \cup {NoRow}, here : BOOLEAN, fdb : Ages, arp : Ages]

\* no record is none of them
ASSUME NoRowAssumption == NoRow \notin Row

Rows  == {m \in Macs : rows[m] # NoRow}
HasIP(m) == m \in Rows /\ rows[m].ip # NoIP

\* one poll's view of an address: bound to a port, bound to a port by the
\* table of a switch past its budget, only on uplinks, or not there
Sights == {"bound", "saved", "uplink", "absent"}
\* last: the entry of an address that comes last in the merged ARP table
Some == CHOOSE m \in Macs : TRUE
Inputs ==
    {i \in [sight : [Macs -> Sights], arp : [Macs -> IPs \cup {NoIP}],
             last : [IPs -> Macs]] :
        \A a \in IPs :
            LET claims == {m \in Macs : i.arp[m] = a} IN
            i.last[a] \in IF claims = {} THEN {Some} ELSE claims}
In(s) == {m \in Macs : input.sight[m] \in s}
ArpKnows == {m \in Macs : input.arp[m] # NoIP}

Nothing == [confirmScans |-> 1, suspects |-> {}, pending |-> {}, marks |-> {},
            unconfirmed |-> {}, release |-> {}, draft |-> {}]
NoInput == [sight |-> [m \in Macs |-> "absent"], arp |-> [m \in Macs |-> NoIP],
            last |-> [a \in IPs |-> Some]]

Stages == {"none", "read", "project", "upsert", "arp", "vouch", "copies",
           "mark", "pending", "reread", "release", "publish", "start"}

Step(from, to) == stage = from /\ stage' = to
Keep == UNCHANGED <<cleaning, count>>

----------------------------------------------------------------------------
\* _real: accepted before this poll; with_ip are this poll's ARP addresses
Real(m) ==
    \/ m \in ArpKnows
    \/ m \in Rows /\ rows[m].copyOf = NoRow
       /\ (rows[m].confirmed \/ rows[m].ip # NoIP)

\* mutant: only what is bound in this poll
SamplesBound == {m \in In({"bound", "saved"}) : Real(m)}

\* samples_by_switch: the real addresses the database has had here today,
\* and the ones bound in this poll
Samples == {m \in Rows : Real(m) /\ rows[m].here /\ Today(rows[m].fdb)}
           \cup {m \in In({"bound", "saved"}) : Real(m)}

Candidates == {m \in In({"bound", "saved", "uplink"}) : ~Real(m)}

\* find_suspects: candidates bound to a port, near something real
Suspects(candidates, samples) ==
    {m \in candidates \cap In({"bound", "saved"}) :
        \E r \in samples : <<m, r>> \in Near}

NeverAddressed(m) ==
    /\ rows[m].confirmed /\ rows[m].here
    /\ rows[m].ip = NoIP /\ rows[m].arp = Never
    /\ rows[m].seen <= CopySightings /\ m \notin Noted

\* confirmed_copies: a crowd around an address with an IP, marked ones
\* counted in
CopiesOf(sample) ==
    {m \in Rows : \/ rows[m].copyOf = sample
                  \/ /\ rows[m].copyOf = NoRow /\ NeverAddressed(m)
                     /\ <<m, sample>> \in Near}

Crowded == {s \in Rows : HasIP(s) /\ rows[s].here
                         /\ Cardinality(CopiesOf(s)) >= Crowd}

ConfirmedCopies ==
    {m \in Rows : rows[m].copyOf = NoRow /\ \E s \in Crowded : m \in CopiesOf(s)}

\* the sample of a copy: the nearest one, any of the near ones here
SampleOf(m) == CHOOSE s \in Crowded : m \in CopiesOf(s)

Confirmed(r) == [r EXCEPT !.confirmed = TRUE]
Noticed(new) == [m \in Macs |-> notices[m] + IF m \in new THEN 1 ELSE 0]

Shown == {m \in Rows : rows[m].confirmed /\ rows[m].copyOf = NoRow}

----------------------------------------------------------------------------
\* A scan has polled every switch and every router.
ScanCollects(i) ==
    /\ Step("none", "read") /\ count.scans < MaxScans
    /\ count' = [count EXCEPT !.scans = @ + 1]
    /\ input' = i /\ local' = Nothing
    /\ proof' = [m \in Macs |->
          IF i.sight[m] \in {"bound", "uplink"} /\ proof[m] < ConfirmScans
          THEN proof[m] + 1 ELSE proof[m]]
    /\ UNCHANGED <<rows, notices, map, cleaning>>

\* hosts_by_mac: an empty table is the initial inventory
ReadHosts ==
    /\ Step("read", "project")
    /\ local' = [local EXCEPT
          !.confirmScans = IF Rows = {} THEN 1 ELSE ConfirmScans,
          !.suspects = Suspects(IF Rows = {} THEN {} ELSE Candidates, Samples)]
    /\ proof' = [m \in Macs |->
          IF Rows = {} /\ m \in In({"bound", "uplink"}) THEN ConfirmScans
          ELSE proof[m]]
    /\ Keep /\ UNCHANGED <<rows, notices, input, map>>

\* projected_unconfirmed, of the addresses read this cycle
Project ==
    /\ Step("project", "upsert")
    /\ local' = [local EXCEPT !.pending =
          IF local.confirmScans <= 1 THEN {}
          ELSE {m \in In({"bound", "uplink"}) :
                   \/ m \notin Rows
                   \/ /\ ~rows[m].confirmed /\ rows[m].ip = NoIP
                      /\ rows[m].seen + 1 < local.confirmScans}]
    /\ Keep /\ UNCHANGED <<rows, notices, input, map, proof>>

\* the row of an address after its sighting is counted
Sighted(m) ==
    LET here == input.sight[m] = "bound" IN
    IF m \in Rows
    THEN [rows[m] EXCEPT !.fdb = 0, !.here = @ \/ here,
                         !.seen = IF @ > CopySightings THEN @ ELSE @ + 1]
    ELSE [seen |-> 1, ip |-> NoIP, confirmed |-> FALSE, copyOf |-> NoRow,
          here |-> here, fdb |-> 0, arp |-> Never]

\* mutant: a saved table counts as a poll
ObservedSaved == In({"bound", "saved", "uplink"})

Observed == In({"bound", "uplink"})

\* mutant: confirmed one poll early
AcceptedEarly(m) ==
    /\ ~Sighted(m).confirmed
    /\ \/ Sighted(m).ip # NoIP
       \/ m \notin local.suspects /\ Sighted(m).seen + 1 >= local.confirmScans

\* upsert_hosts: confirmed by an address, or by sightings unless held
Accepted(m) ==
    /\ ~Sighted(m).confirmed
    /\ \/ Sighted(m).ip # NoIP
       \/ m \notin local.suspects /\ Sighted(m).seen >= local.confirmScans

UpsertHosts ==
    /\ Step("upsert", "arp")
    /\ LET new == {m \in Observed : Accepted(m)} IN
       /\ rows' = [m \in Macs |->
             IF m \in new THEN Confirmed(Sighted(m))
             ELSE IF m \in Observed THEN Sighted(m) ELSE rows[m]]
       /\ notices' = Noticed(new)
    /\ local' = [Nothing EXCEPT !.suspects = local.suspects]
    /\ Keep /\ UNCHANGED <<input, map, proof>>

\* set_ips with create_missing: the last entry of an address in the merged
\* table keeps it, and whoever had it before loses it
Owner(i) == input.last[i]
\* mutant: every entry of an address keeps it
ClaimedByAll(m) == m \in ArpKnows

Claimed(m) == m \in ArpKnows /\ Owner(input.arp[m]) = m

WithAddress(m) ==
    LET old == IF m \in Rows THEN rows[m]
               ELSE [seen |-> 0, ip |-> NoIP, confirmed |-> FALSE,
                     copyOf |-> NoRow, here |-> FALSE, fdb |-> Never,
                     arp |-> Never] IN
    [old EXCEPT !.ip = IF Claimed(m) THEN input.arp[m] ELSE NoIP,
                !.arp = 0, !.copyOf = NoRow]

SetIps ==
    /\ Step("arp", "vouch")
    /\ rows' = [m \in Macs |->
          IF m \in ArpKnows THEN WithAddress(m)
          ELSE IF HasIP(m) /\ \E n \in ArpKnows : input.arp[n] = rows[m].ip
               THEN [rows[m] EXCEPT !.ip = NoIP]
               ELSE rows[m]]
    /\ proof' = [m \in Macs |->
          IF m \in ArpKnows THEN ConfirmScans ELSE proof[m]]
    /\ input' = [NoInput EXCEPT !.sight = input.sight]
    /\ Keep /\ UNCHANGED <<notices, local, map>>

\* mutant: every host with an address is confirmed again
VouchedAgain == {m \in Rows : rows[m].ip # NoIP}

\* confirm_hosts_with_ip
Vouched == {m \in Rows : ~rows[m].confirmed /\ rows[m].ip # NoIP}

ConfirmHostsWithIp ==
    /\ Step("vouch", "copies")
    /\ rows' = [m \in Macs |->
          IF m \in Vouched THEN Confirmed(rows[m]) ELSE rows[m]]
    /\ notices' = Noticed(Vouched)
    /\ Keep /\ UNCHANGED <<input, local, map, proof>>

\* hide_confirmed_copies: hosts are read, then the batches are written
FindCopies ==
    /\ Step("copies", "mark")
    /\ local' = [local EXCEPT !.marks =
          {<<m, SampleOf(m)>> : m \in ConfirmedCopies}]
    /\ Keep /\ UNCHANGED <<rows, notices, input, map, proof>>

Marked(marks) ==
    [m \in Macs |->
        IF m \in Rows /\ (\E s \in Macs : <<m, s>> \in marks)
           /\ rows[m].copyOf = NoRow /\ rows[m].ip = NoIP
        THEN [rows[m] EXCEPT !.copyOf = CHOOSE s \in Macs : <<m, s>> \in marks]
        ELSE rows[m]]

MarkCopies ==
    /\ Step("mark", "pending")
    /\ rows' = Marked(local.marks)
    /\ local' = [local EXCEPT !.marks = {}]
    /\ Keep /\ UNCHANGED <<notices, input, map, proof>>

\* unconfirmed_macs
ReadUnconfirmed ==
    /\ Step("pending", "reread")
    /\ local' = [local EXCEPT !.unconfirmed =
          {m \in Rows : ~rows[m].confirmed}]
    /\ Keep /\ UNCHANGED <<rows, notices, input, map, proof>>

\* mutant: the quiet hosts of today are drawn whatever is held against them
DrawnQuiet(out) ==
    (In({"bound", "saved"}) \ out)
        \cup {m \in Rows \ In({"uplink"}) : rows[m].here /\ Today(rows[m].fdb)}

\* hosts_by_mac again: what is drawn (_assemble_hosts: this poll's hosts, and
\* the located ones of today) and what loses its address
Drawn(out) ==
    (In({"bound", "saved"}) \ out)
        \cup {m \in Rows \ (out \cup In({"uplink"})) :
                 rows[m].here /\ Today(rows[m].fdb)}

Reread ==
    /\ Step("reread", "release")
    /\ LET out == local.unconfirmed \cup local.suspects
                    \cup {m \in Rows : rows[m].copyOf # NoRow} IN
       local' = [Nothing EXCEPT
          !.draft = Drawn(out),
          !.release = {m \in Rows : HasIP(m) /\ ~Today(rows[m].arp)
                                    /\ m \notin In({"bound", "saved"}) \ out}]
    /\ input' = NoInput
    /\ Keep /\ UNCHANGED <<rows, notices, map, proof>>

\* _release_unconfirmed_ips: release_ip, one transaction a host
ReleaseIp(m) ==
    /\ stage = "release" /\ m \in local.release
    /\ local' = [local EXCEPT !.release = @ \ {m}]
    /\ rows' = IF HasIP(m) THEN [rows EXCEPT ![m].ip = NoIP] ELSE rows
    /\ Keep /\ UNCHANGED <<notices, stage, input, map, proof>>

Released == local.release = {} /\ Step("release", "publish")
            /\ Keep /\ UNCHANGED <<rows, notices, input, local, map, proof>>

\* state.update, and the end of the scan: the alarms it raises are the
\* detectors' subject
Publish ==
    /\ Step("publish", "none")
    /\ map' = local.draft
    /\ input' = NoInput /\ local' = Nothing
    /\ Keep /\ UNCHANGED <<rows, notices, proof>>

\* a transaction fails: the rest of the scan is not done
ScanFails ==
    /\ stage \notin {"none", "start"} /\ count.stops < MaxStops
    /\ count' = [count EXCEPT !.stops = @ + 1]
    /\ stage' = "none" /\ input' = NoInput /\ local' = Nothing
    /\ UNCHANGED <<rows, notices, map, cleaning, proof>>

----------------------------------------------------------------------------
\* what is left of a history once the row is gone: a sighting of the scan
\* under way that is not written yet
Forgotten(gone) ==
    /\ notices' = [m \in Macs |-> IF m \in gone THEN 0 ELSE notices[m]]
    /\ proof' = [m \in Macs |->
          IF m \notin gone THEN proof[m]
          ELSE IF stage \in {"read", "project", "upsert"} /\ m \in Observed
               THEN 1 ELSE 0]

Delete(gone) ==
    /\ rows' = [m \in Macs |-> IF m \in gone THEN NoRow ELSE rows[m]]
    /\ Forgotten(gone)

Old == {m \in Rows : rows[m].fdb >= Retention /\ rows[m].arp >= Retention}
Copies == {m \in Rows : rows[m].copyOf # NoRow}

\* periodic_cleanup: purge_old_hosts, then purge_copies
PurgeOld ==
    /\ ~cleaning /\ cleaning' = TRUE /\ stage # "start"
    /\ Old \cup Copies # {}
    /\ Delete(Old)
    /\ UNCHANGED <<stage, input, local, map, count>>

PurgeCopies ==
    /\ cleaning /\ cleaning' = FALSE
    /\ Delete(Copies)
    /\ UNCHANGED <<stage, input, local, map, count>>

Older(age) == IF age >= Retention THEN age ELSE age + 1

\* (a scan takes a minute or two: the day is over before or after it)
DayPasses ==
    /\ stage = "none" /\ count.days < MaxDays
    /\ count' = [count EXCEPT !.days = @ + 1]
    /\ rows' = [m \in Macs |->
          IF m \in Rows THEN [rows[m] EXCEPT !.fdb = Older(@), !.arp = Older(@)]
          ELSE NoRow]
    /\ UNCHANGED <<notices, stage, input, local, map, cleaning, proof>>

\* a stop at any moment, and a start (lifespan), which cleans up at once and
\* hides copies before anything else runs
Restart ==
    /\ count.stops < MaxStops
    /\ count' = [count EXCEPT !.stops = @ + 1]
    /\ stage' = "start" /\ input' = NoInput /\ local' = Nothing
    /\ map' = {} /\ cleaning' = FALSE
    /\ LET gone == Old \cup Copies IN
       /\ rows' = [m \in Macs |-> IF m \in gone THEN NoRow ELSE rows[m]]
       /\ notices' = [m \in Macs |-> IF m \in gone THEN 0 ELSE notices[m]]
       /\ proof' = [m \in Macs |-> IF m \in gone THEN 0 ELSE proof[m]]

StartHidesCopies ==
    /\ Step("start", "none")
    /\ rows' = Marked({<<m, SampleOf(m)>> : m \in ConfirmedCopies})
    /\ Keep /\ UNCHANGED <<notices, input, local, map, proof>>

----------------------------------------------------------------------------
Init ==
    /\ rows = [m \in Macs |-> NoRow] /\ notices = [m \in Macs |-> 0]
    /\ stage = "none" /\ input = NoInput /\ local = Nothing
    /\ map = {} /\ cleaning = FALSE
    /\ proof = [m \in Macs |-> 0]
    /\ count = [scans |-> 0, days |-> 0, stops |-> 0]

Next ==
    \/ \E i \in Inputs : ScanCollects(i)
    \/ ReadHosts \/ Project \/ UpsertHosts \/ SetIps \/ ConfirmHostsWithIp
    \/ FindCopies \/ MarkCopies \/ ReadUnconfirmed \/ Reread
    \/ (\E m \in Macs : ReleaseIp(m)) \/ Released \/ Publish
    \/ ScanFails
    \/ PurgeOld \/ PurgeCopies \/ DayPasses \/ Restart \/ StartHidesCopies

Spec == Init /\ [][Next]_vars

----------------------------------------------------------------------------
\* The variables stay in their ranges.
TypeOK ==
    /\ rows \in [Macs -> Row \cup {NoRow}] /\ notices \in [Macs -> 0..1]
    /\ stage \in Stages /\ input \in Inputs \cup {NoInput}
    /\ local.confirmScans \in {1, ConfirmScans}
    /\ local.release \subseteq Macs /\ local.marks \subseteq Macs \X Macs
    /\ map \subseteq Macs /\ cleaning \in BOOLEAN
    /\ proof \in [Macs -> 0..ConfirmScans]

\* An address belongs to one host at a time, whatever two ARP tables say
\* (db.py:550-553), and a row is journalled as a new device once, when it is
\* confirmed, by sightings or by ARP (db.py:466-499).
OneOwnerOneNotice ==
    /\ \A m, n \in Rows : rows[m].ip = rows[n].ip /\ HasIP(m) => m = n
    /\ \A m \in Macs :
          notices[m] = IF m \in Rows /\ rows[m].confirmed THEN 1 ELSE 0

\* A row is a device only when ConfirmScans polls have found the address
\* since the row exists, or ARP has vouched for it, or it is part of the
\* initial inventory: a table read once and kept is no second poll
\* (server.py:444-462, db.py:390-394), and a cleanup in the middle of a scan
\* starts the count again.
ConfirmedOnEvidence ==
    \A m \in Rows : rows[m].confirmed => proof[m] >= ConfirmScans

\* What a damaged frame makes of a known address is not confirmed by being
\* seen again (server.py:463-472, 519-530): no step of the scan confirms an
\* address bound to a port while one it may be a copy of is accepted, here
\* and seen today.
KnownHere(r) == r \in Rows /\ rows[r].here /\ Today(rows[r].fdb)
                /\ rows[r].copyOf = NoRow /\ rows[r].confirmed

CopiesAreHeld ==
    [][stage = "upsert" /\ stage' = "arp" =>
        \A m \in Macs :
            /\ input.sight[m] = "bound" /\ m \notin ArpKnows
            /\ m \notin Shown /\ ~HasIP(m) /\ (m \in Rows => ~rows[m].confirmed)
            /\ \E r \in Macs : <<m, r>> \in Near /\ KnownHere(r)
            => ~rows'[m].confirmed]_vars

\* The verdict that keeps an address from counting as a device on its port,
\* reached before the topology is built, is the one the database reaches
\* afterwards (db.py:507-516).
ProjectionHolds ==
    [][stage = "upsert" /\ stage' = "arp" =>
        \A m \in local.pending : m \in Rows' => ~rows'[m].confirmed]_vars

\* What a scan publishes shows no address that waits for confirmation and no
\* copy that was taken off the map (server.py:706-740), though rows come and
\* go between its reads.
MapIsClean ==
    [][map' # map => \A m \in map' : m \in Rows => m \in Shown]_vars

\* What the table says at any moment: each address has one host, each device
\* was confirmed on evidence and journalled once.
RowsAreTrue == TypeOK /\ OneOwnerOneNotice /\ ConfirmedOnEvidence

\* What the steps of a scan make of the table and the map, though rows come and
\* go between them: copies are held back, the verdict reached before the
\* topology is the one the table reaches, and the map shows neither.
ScansAreTrue == CopiesAreHeld /\ ProjectionHolds /\ MapIsClean
=============================================================================
