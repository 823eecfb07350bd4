------------------------------ MODULE MapScans ------------------------------
(***************************************************************************)
(* The map from scan to scan: the smoothed MAC tables                      *)
(* (FdbStability), the links of module Topology, the place of every        *)
(* device, what the database remembers of it, and the nodes standing on    *)
(* the ports (build_topology 3-5, run_scan, _assemble_hosts).              *)
(*                                                                         *)
(* The network itself is given: which switches are polled, over which port *)
(* each node reaches each other one, who announces itself by LLDP, which   *)
(* ports a tree blocks, which bridges nobody polls, which ports leave the  *)
(* network.  A scan reads each switch in full, after its table lost the    *)
(* other switches or the devices, not in time (the reading before is       *)
(* used), or not at all.  MACs are numbers: a node's own, and the          *)
(* devices'.  Every MAC is confirmed here; module Inventory has that.      *)
(***************************************************************************)
EXTENDS Topology

CONSTANTS
    Networks,    \* the networks, with the place of each device, the ways a
                 \* scan may read them, and how many scans follow (bounds)
    TTL,         \* FdbStability.ttl
    Threshold,   \* unmanaged_threshold
    GroupFrom,   \* offline_group_threshold
    TrunkFrom,   \* trunk_group_threshold
    Grace        \* host_grace_hours, in scans

\* the ports of a switch that lead to another node: its hops and cables, and what
\* LLDP says of them at either end
Leading(n, a) ==
    {n.hop[a][m] : m \in (n.polled \cup n.foreign) \ {a}}
    \cup {r.port : r \in n.lldp[a]}
    \cup UNION {{r.remote : r \in {x \in n.lldp[b] : x.chassis = a}} : b \in n.polled}

\* where a device can be plugged in: a port that leads to no other node
IsPlace(n, at) ==
    /\ at \in (n.polled \cup n.foreign) \X (Nat \ {0})
    /\ at[1] \in n.polled => at[2] \notin Leading(n, at[1])

\* A network's switches are finitely many, its ports count from 1, and its
\* devices are none of its nodes and plugged in at places.
IsNetwork(n) ==
    /\ DOMAIN n = {"polled", "foreign", "hop", "beside", "sources", "lldp", "blocked",
                   "exits", "home", "spare", "moves", "modes", "scans"}
    /\ IsFiniteSet(n.polled) /\ DOMAIN n.home \cap (n.polled \cup n.foreign) = {}
    /\ \A a \in n.polled :
          /\ \A m \in (n.polled \cup n.foreign) \ {a} : n.hop[a][m] \in Nat \ {0}
          /\ \A r \in n.lldp[a] : r.port \in Nat
    /\ \A at \in {n.home[d] : d \in DOMAIN n.home} \cup n.spare : IsPlace(n, at)

ASSUME MapAssumption ==
    /\ {TTL, Threshold, GroupFrom, TrunkFrom} \subseteq Nat
    /\ Grace \in Nat \ {0}
    /\ \A n \in Networks : IsNetwork(n)

VARIABLES
    stage,     \* how far run_scan is: "idle", "polled", "drawn"
    net,       \* the network
    kept,      \* FdbStability._cache: switch -> MAC -> <<port, scans left>>
    last,      \* switch_data: the last table of each switch
    poll,      \* what this scan read: module Topology's network
    drawn,     \* its links
    rows,      \* hosts in the database: MAC -> place, scans since it was seen
    map,       \* the map on screen
    scans

vars == <<stage, net, kept, last, poll, drawn, rows, map, scans>>

Nowhere == <<0, 0>>

----------------------------------------------------------------------------
\* The network: what each switch's table can hold, and the tables of one scan.
Nodes == net.polled \cup net.foreign
Toward(a, d) ==
    IF d \in Nodes THEN net.hop[a][d]
    ELSE IF net.home[d][1] = a THEN net.home[d][2] ELSE net.hop[a][net.home[d][1]]

Table(a, mode, talking) ==
    [m \in (IF mode = "aged" THEN {} ELSE talking)
            \cup (IF mode = "quiet" THEN {} ELSE Nodes \ {a}) |-> Toward(a, m)]

\* what a link may be drawn for: a way no other switch of S is on, or one of
\* the cables beside the tree
Inside(a, b) == {x \in Nodes \ {a, b} : net.hop[x][a] # net.hop[x][b]}
Ways(S) ==
    {[a |-> p[1], pa |-> net.hop[p[1]][p[2]], b |-> p[2], pb |-> net.hop[p[2]][p[1]]] :
        p \in {q \in S \X S : q[1] # q[2] /\ Inside(q[1], q[2]) \cap S = {}}}
    \cup {w \in net.beside : {w.a, w.b} \subseteq S}

\* run_scan: the reading of a switch that was not in time is the last one
Reading(a, modes, talking) ==
    IF modes[a] = "late" THEN last[a] ELSE Table(a, modes[a], talking)

Answered(modes) ==
    {a \in net.polled : modes[a] # "silent" /\ (modes[a] = "late" => last[a] # <<>>)}

\* FdbStability.merge: entries of the scans before live on for ttl scans; a
\* reading that is not this scan's is shown, and renews nothing
Aged(cache) ==
    [m \in {k \in DOMAIN cache : cache[k][2] > 0} |-> <<cache[m][1], cache[m][2] - 1>>]

MergedCache(cache, table, fresh) ==
    IF fresh THEN Over([m \in DOMAIN table |-> <<table[m], TTL>>], Aged(cache))
    ELSE Aged(cache)

\* mutant: a table is this scan's alone
SmoothedNot(cache, table) == table

Smoothed(cache, table) == Over(table, [m \in DOMAIN cache |-> cache[m][1]])

----------------------------------------------------------------------------
\* Depth of every linked switch, and the port of each toward the root: the
\* deeper end of a link that is drawn.
TreeDepth ==
    LET links == LinksOf(drawn.links)
        reached[level \in Nat] ==
            IF level = 0 THEN drawn.root :> 0
            ELSE LET depth == reached[level - 1]
                     next == {b \in UNION {Ends(l) : l \in links} \ DOMAIN depth :
                                \E l \in links : b \in Ends(l)
                                    /\ Ends(l) \ {b} \subseteq DOMAIN depth}
                 IN Over([b \in next |-> level], depth)
    IN reached[Cardinality(poll.switches)]

UplinkPorts(depth) ==
    LET known(l) == Ends(l) \subseteq DOMAIN depth /\ depth[l.a] # depth[l.b]
        child(l) == IF depth[l.b] > depth[l.a] THEN <<l.b, l.pb>> ELSE <<l.a, l.pa>>
        take(ups, l) == IF known(l) /\ child(l)[2] # 0
                        THEN Over(child(l)[1] :> child(l)[2], ups) ELSE ups IN
    FoldLeft(take, drawn.uplinks, drawn.links)

\* <<x1, ..>> before <<y1, ..>>
Before(x, y) == \E k \in DOMAIN x : /\ x[k] < y[k]
                                    /\ \A j \in 1..(k - 1) : x[j] = y[j]
Least(S) == CHOOSE x \in S : \A y \in S : x = y \/ Before(x, y)
Greatest(S) == CHOOSE x \in S : \A y \in S : x = y \/ Before(y, x)

\* 3. the port with the fewest neighbours, trunks left out
Crowd(table, a, p) == Cardinality({m \in DOMAIN table[a] : table[a][m] = p})
\* mutant: a trunk seats devices too
SeatsAnywhere(d) ==
    {<<Crowd(poll.table, a, poll.table[a][d]), a, poll.table[a][d]>> :
        a \in {b \in poll.switches : d \in DOMAIN poll.table[b]}}

Seats(d) ==
    {<<Crowd(poll.table, a, poll.table[a][d]), a, poll.table[a][d]>> :
        a \in {b \in poll.switches : d \in DOMAIN poll.table[b]
                  /\ poll.table[b][d] \notin drawn.trunks[b]}}

\* 3a. seen through trunks only: where the database remembers it, or on the
\* deepest downlink, and never on an uplink
Claims(uplinks, depth, d) ==
    {<<IF poll.table[a][d] = At(uplinks, a) THEN 0 ELSE 1, At(depth, a), a,
       poll.table[a][d]>> : a \in {b \in poll.switches : d \in DOMAIN poll.table[b]}}

Remembers(d) ==
    /\ d \in DOMAIN rows /\ rows[d].place # Nowhere
    /\ rows[d].place[1] \in poll.switches
    /\ rows[d].place[2] \notin drawn.trunks[rows[d].place[1]]

Placed(uplinks, depth, d) ==
    LET seats == Seats(d)
        claim == Greatest(Claims(uplinks, depth, d))
        seat == Least(seats) IN
    IF seats # {} THEN [at |-> <<seat[2], seat[3]>>, how |-> "seen"]
    ELSE IF Remembers(d) THEN [at |-> rows[d].place, how |-> "remembered"]
    ELSE IF claim[1] = 0 THEN [at |-> Nowhere, how |-> "uplinks"]
    ELSE [at |-> <<claim[3], claim[4]>>, how |-> "approximate"]

Visible ==
    (UNION {DOMAIN poll.table[a] : a \in poll.switches}) \ poll.switches

----------------------------------------------------------------------------
\* 4. many devices on a port that is no trunk: an unmanaged switch behind it;
\* a port that had one keeps it while a device answers there
On(places, at) == {d \in DOMAIN places : places[d].at = at /\ places[d].how # "uplinks"}
Voting(places, at) == {d \in On(places, at) : places[d].how # "approximate"}
KnownOn(at) ==
    IF at[1] \notin poll.switches THEN {}
    ELSE {d \in DOMAIN rows : rows[d].place = at /\ rows[d].age < Grace}

IsTrunk(at) == at[2] \in drawn.trunks[at[1]]

Pseudo(places) ==
    {at \in {places[d].at : d \in DOMAIN places} \ {Nowhere} :
        /\ ~IsTrunk(at) /\ at \notin net.exits
        /\ Voting(places, at) # {}
        /\ \/ Cardinality(Voting(places, at)) > Threshold
           \/ Cardinality(KnownOn(at)) > Threshold
           \/ at \in map.pseudo}

\* 5. bridges nobody polls: one place for each, an untainted port first, then
\* one that is no trunk
BridgeAt(f) ==
    LET bit(b) == IF b THEN 1 ELSE 0
        claims == UNION {{<<bit(p \in drawn.forwarded[a]), bit(p \in drawn.trunks[a]), a, p>> :
                             p \in PortsOf(poll, a, f)} : a \in poll.switches} IN
    IF claims = {} THEN Nowhere
    ELSE LET best == Least(claims) IN <<best[3], best[4]>>

\* alone on its port, a bridge takes the place of the unmanaged switch there
Bridges ==
    [f \in {g \in net.foreign : BridgeAt(g) # Nowhere} |->
        BridgeAt(f)]
Alone(bridges, f) ==
    /\ ~IsTrunk(bridges[f])
    /\ \A g \in DOMAIN bridges \ {f} : bridges[g] # bridges[f]
AloneOn(bridges, at) ==
    {f \in DOMAIN bridges : bridges[f] = at /\ Alone(bridges, f)}

\* what the device hangs off on the map: a port that leaves the network, the
\* bridge alone on the port, the unmanaged switch, the port itself
Via(bridges, pseudo, at) ==
    LET alone == AloneOn(bridges, at) IN
    IF at \in net.exits THEN <<"external", at>>
    ELSE IF alone # {} THEN <<"bridge", CHOOSE f \in alone : TRUE>>
    ELSE IF at \in pseudo THEN <<"pseudo", at>>
    ELSE <<"port", at>>

\* a bridge that sources frames on its own port is one node, not two
MergedInto(bridges, d, at) == d \in DOMAIN bridges /\ bridges[d] = at

----------------------------------------------------------------------------
\* upsert_hosts: a guess never overwrites a place; a saved reading is no
\* sighting
Sighted(places, d) ==
    IF places[d].how = "uplinks"
    THEN \E a \in poll.switches \ poll.late : d \in DOMAIN poll.table[a]
    ELSE places[d].at[1] \notin poll.late

OldPlace(d) == IF d \in DOMAIN rows THEN rows[d].place ELSE Nowhere
NewRow(places, d) ==
    [place |-> CASE places[d].how = "uplinks" -> OldPlace(d)
                 [] places[d].how = "approximate" /\ OldPlace(d) # Nowhere -> OldPlace(d)
                 [] OTHER -> places[d].at,
     age |-> 0]

Older(row) == [row EXCEPT !.age = IF @ < Grace THEN @ + 1 ELSE @]
Upserted(places) ==
    LET seen == {d \in DOMAIN places : Sighted(places, d)} IN
    Over([d \in seen |-> NewRow(places, d)], [d \in DOMAIN rows |-> Older(rows[d])])

\* _assemble_hosts: the quiet devices of the grace window at their last place
Quiet(places, after) ==
    {d \in DOMAIN after \ (DOMAIN places \cup poll.switches) :
        after[d].place[1] \in poll.switches /\ after[d].age < Grace}

QuietVia(pseudo, at) == IF at \in pseudo THEN <<"pseudo", at>> ELSE <<"port", at>>

\* group_beyond_trunk, then _group_offline: whoever has no node of its own yet
Grouped(members, kind, from, vias, places) ==
    LET free == {d \in members : vias[d][1] = "port"}
        peers(d) == {e \in free : places[e] = places[d]} IN
    [d \in DOMAIN vias |->
        IF d \in free /\ from > 0 /\ Cardinality(peers(d)) >= from
        THEN <<kind, places[d]>> ELSE vias[d]]

\* _nodes_on_port: what a group of the port hangs off
Parent(bridges, pseudo, at) ==
    IF at \in pseudo THEN <<"pseudo", at>>
    ELSE IF AloneOn(bridges, at) # {}
         THEN <<"bridge", CHOOSE f \in AloneOn(bridges, at) : TRUE>>
         ELSE <<"port", at>>

\* the device's node: where it answers, or where it last did
NodeAt(places, after, d) ==
    IF d \in DOMAIN places THEN places[d].at ELSE after[d].place

Live(places) == {d \in DOMAIN places : places[d].how # "uplinks"}

Assembled(places, after, bridges, pseudo, quiet) ==
    \E merged \in {{d \in Live(places) : MergedInto(bridges, d, places[d].at)}} :
    \E at \in {[d \in Live(places) \cup quiet |-> NodeAt(places, after, d)]} :
    \E vias \in {[d \in DOMAIN at \ merged |->
                     IF d \in quiet THEN QuietVia(pseudo, at[d])
                     ELSE Via(bridges, pseudo, at[d])]} :
    \E trunk \in {Grouped({d \in DOMAIN vias : IsTrunk(at[d])},
                         "trunk", TrunkFrom, vias, at)} :
    \E all \in {Grouped(quiet, "offline", GroupFrom, trunk, at)} :
        map' = [links |-> drawn.links, parallel |-> drawn.parallel,
                trunks |-> drawn.trunks, places |-> places, pseudo |-> pseudo,
                bridges |-> bridges, merged |-> merged, quiet |-> quiet, via |-> all,
                above |-> [g \in {v \in Range(all) : v[1] \in {"trunk", "offline"}} |->
                              Parent(bridges, pseudo, g[2])]]

----------------------------------------------------------------------------
\* run_scan, in three steps: the switches are read; the links are drawn; the
\* devices are placed, remembered and shown
Poll(modes, talking) ==
    LET answered == Answered(modes) IN
    /\ stage = "idle" /\ scans < net.scans /\ answered # {}
    /\ \E table \in {[a \in answered |-> Reading(a, modes, talking)]} :
       \E cache \in {[a \in net.polled |->
                         IF a \in answered
                         THEN MergedCache(kept[a], table[a], modes[a] # "late")
                         ELSE kept[a]]} :
        /\ kept' = cache
        /\ last' = [a \in net.polled |-> IF a \in answered THEN table[a] ELSE <<>>]
        /\ poll' = [switches |-> answered, table |-> table,
                    late |-> {a \in answered : modes[a] = "late"},
                    fdb |-> [a \in answered |-> Smoothed(cache[a], table[a])],
                    lldp |-> [a \in answered |-> net.lldp[a]],
                    sources |-> net.sources, blocked |-> net.blocked]
    /\ stage' = "polled" /\ scans' = scans + 1
    /\ UNCHANGED <<net, drawn, rows, map>>

Draw ==
    /\ stage = "polled" /\ stage' = "drawn"
    /\ IsDrawing(drawn', poll)
    /\ UNCHANGED <<net, kept, last, poll, rows, map, scans>>

Show ==
    /\ stage = "drawn" /\ stage' = "idle"
    /\ \E depth \in {TreeDepth} : \E uplinks \in {UplinkPorts(depth)} :
       \E places \in {[d \in Visible |-> Placed(uplinks, depth, d)]} :
       \E after \in {Upserted(places)} :
        /\ rows' = after
        /\ \E bridges \in {Bridges} :
           \E pseudo \in {{at \in Pseudo(places) : AloneOn(bridges, at) = {}}} :
              Assembled(places, after, bridges, pseudo, Quiet(places, after))
    /\ poll' = <<>> /\ drawn' = <<>>
    /\ UNCHANGED <<net, kept, last, scans>>

\* a device is plugged in somewhere else
Replug(d, at) ==
    /\ net.moves > 0 /\ net.home[d] # at
    /\ net' = [net EXCEPT !.home[d] = at, !.moves = @ - 1]
    /\ UNCHANGED <<stage, kept, last, poll, drawn, rows, map, scans>>

Empty == [links |-> <<>>, parallel |-> <<>>, trunks |-> <<>>, places |-> <<>>,
          pseudo |-> {}, bridges |-> <<>>, merged |-> {}, quiet |-> {},
          via |-> <<>>, above |-> <<>>]

Init ==
    /\ net \in Networks
    /\ kept = [a \in net.polled |-> <<>>] /\ last = [a \in net.polled |-> <<>>]
    /\ stage = "idle" /\ poll = <<>> /\ drawn = <<>>
    /\ rows = <<>> /\ map = Empty /\ scans = 0

Next ==
    \/ \E modes \in net.modes, talking \in SUBSET DOMAIN net.home : Poll(modes, talking)
    \/ Draw
    \/ Show
    \/ \E d \in DOMAIN net.home : \E at \in net.spare : Replug(d, at)

Spec == Init /\ [][Next]_vars

----------------------------------------------------------------------------
\* The switches know of each other: nothing is missing from a table
Informed ==
    \A a, b \in poll.switches : a # b => b \in DOMAIN poll.fdb[a]

\* From complete tables, the map draws a switch-to-switch link only when it is
\* direct, on the ports of a cable between the two, unless it marks the cable
\* as unknown (topology.py: infer_tree, merge_lldp_links,
\* drop_impossible_links; docs/FEATURES.md:19).
DirectCables ==
    stage = "drawn" /\ Informed => \A l \in LinksOf(drawn.links) :
        l.unknown \/ \E w \in Ways(poll.switches) :
            w.a = l.a /\ w.b = l.b /\ l.pa \in {0, w.pa} /\ l.pb \in {0, w.pb}

\* Leaving out the links held in blocking and those of a ring marked as
\* unexplained, nothing drawn forms a ring (resolve_cycles).
RingsExplained ==
    stage = "drawn" =>
        FindCycle(SelectSeq(drawn.links, LAMBDA l : ~l.blocking /\ ~l.unresolved), {}) = {}

\* Dropping impossible links and cutting rings never leaves a switch that
\* answered off the map's one tree, when there is any link at all.
NothingFallsOff ==
    stage = "drawn" /\ drawn.links # <<>> =>
        DOMAIN TreeDepth = poll.switches

\* Every cable is drawn, none is twice
Complete(links) ==
    /\ \A l \in LinksOf(links) : ~l.unknown
    /\ {<<l.a, l.pa, l.b, l.pb>> : l \in LinksOf(links)}
          \cup {<<l.b, l.pb, l.a, l.pa>> : l \in LinksOf(links)}
       = {<<w.a, w.pa, w.b, w.pb>> : w \in Ways(net.polled)}

\* Once every cable is on the map, a scan that every switch answers keeps them
\* all, although a table has just forgotten the other switches or is the one
\* of the scan before (FdbStability, the saved readings of run_scan).
CablesStay ==
    [][stage = "polled" /\ stage' = "drawn" /\ poll.switches = net.polled /\ Complete(map.links)
          => Complete(drawn'.links)]_vars

\* A device that its own switch has in its table is placed there, and that is
\* what the database learns, though another switch is silent, and though a
\* table, this time, does not hold the switches it held the scan before.  (A
\* reading saved before the device was moved still speaks against it.)
\* (trunk_ports, build_topology 3, upsert_hosts).
PlacedAtHome ==
    [][stage = "drawn" /\ stage' = "idle" /\ Informed =>
        \A d \in DOMAIN net.home :
            LET at == net.home[d] IN
            /\ at[1] \in poll.switches \ poll.late
            /\ d \in DOMAIN poll.table[at[1]] /\ poll.table[at[1]][d] = at[2]
            /\ \A a \in poll.late : d \in DOMAIN poll.table[a]
                                     => poll.table[a][d] = Toward(a, d)
            => map'.places[d].at = at /\ rows'[d].place = at]_vars

\* A device that is where the database has it stays there, and is shown there if
\* it is seen at all, while its switch answers and the tables have it on the way
\* there or not at all: its own switch may have forgotten it, a guess of its place
\* never moves it.
\* (trunk_ports, build_topology 3a, upsert_hosts).
KeptAtHome ==
    [][stage = "drawn" /\ stage' = "idle" /\ Informed =>
        \A d \in DOMAIN net.home \cap DOMAIN rows :
            LET at == net.home[d] IN
            /\ rows[d].place = at /\ at[1] \in poll.switches
            /\ \A a \in poll.switches : d \in DOMAIN poll.table[a]
                                         => poll.table[a][d] = Toward(a, d)
            => /\ rows'[d].place = at
               /\ d \in DOMAIN map'.places => map'.places[d].at = at]_vars

\* No device is lost to a trunk, nor moved by a guess: both of the above.
DevicesAtHome == PlacedAtHome /\ KeptAtHome
=============================================================================
