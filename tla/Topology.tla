------------------------------ MODULE Topology ------------------------------
(***************************************************************************)
(* The links of the map: what moonlan/topology.py makes of the MAC tables  *)
(* and the LLDP neighbours of one scan.  Switches are numbers in the order *)
(* of their addresses, a port is a number (0: not known), and a network    *)
(* is a record                                                             *)
(*    switches  the switches that answered,                                *)
(*    table     switch -> MAC -> port, this scan's, and                    *)
(*    fdb       the same with the entries of the scans before kept; a      *)
(*              switch's own MAC is its number, aggregates are one port,   *)
(*    lldp      switch -> set of [port, chassis, remote, by],              *)
(*    sources   who sends frames from the MAC it names itself by in LLDP,    *)
(*    blocked   switch -> the ports an operating tree holds in blocking.   *)
(* Speeds, aggregates' members and wording are left out.  What ties are    *)
(* broken by (the order of a dictionary) is the smallest port here.        *)
(***************************************************************************)
EXTENDS Integers, FiniteSets, SequencesExt

\* the value of a partial function, 0 where there is none
At(f, x) == IF x \in DOMAIN f THEN f[x] ELSE 0

\* one partial function, and another one where it has no value
Over(f, g) ==
    [x \in DOMAIN f \cup DOMAIN g |-> IF x \in DOMAIN f THEN f[x] ELSE g[x]]

Ascending(S) == SetToSortSeq(S, <)

\* the port most often named in f, the smallest of those
MostCommon(f) ==
    LET ports == {f[x] : x \in DOMAIN f}
        Times(p) == Cardinality({x \in DOMAIN f : f[x] = p}) IN
    IF ports = {} THEN 0
    ELSE CHOOSE p \in ports :
            \A q \in ports : Times(p) > Times(q) \/ (Times(p) = Times(q) /\ p <= q)

----------------------------------------------------------------------------
\* switch_sightings: where each switch sees each other one
Sees(net) ==
    [a \in net.switches |->
        [b \in (net.switches \cap DOMAIN net.fdb[a]) \ {a} |-> net.fdb[a][b]]]

Link(a, pa, b, pb, source) ==
    [a |-> a, pa |-> pa, b |-> b, pb |-> pb, source |-> source,
     unknown |-> FALSE, blocking |-> FALSE, unresolved |-> FALSE]
Ends(link) == {link.a, link.b}
LinksOf(links) == {links[i] : i \in DOMAIN links}

----------------------------------------------------------------------------
\* analyse_ports: a neighbour on two ports, or in the MAC table on another one,
\* did not come from the cable (forwarded); several neighbours on one port are
\* behind something (crowded)
PortsOf(net, a, chassis) == {n.port : n \in {m \in net.lldp[a] : m.chassis = chassis}}

ForwardedOn(net, a) ==
    {n.port : n \in {m \in net.lldp[a] :
        \/ Cardinality(PortsOf(net, a, m.chassis)) > 1
        \/ m.chassis \in net.sources \cap DOMAIN net.table[a]
           /\ net.table[a][m.chassis] # m.port}}

CrowdedOn(net, a) ==
    {n.port : n \in {m \in net.lldp[a] : \E k \in net.lldp[a] :
                         k.port = m.port /\ k.chassis # m.chassis}}
    \ ForwardedOn(net, a)

\* second_cables: the ports taken for forwarded LLDP that are a second cable
Named(net, a, b) ==
    {n \in net.lldp[a] : n.chassis = b}
PortsTo(net, a, b) == {n.port : n \in Named(net, a, b)}
Talkers(net, a, p) == {n.chassis : n \in {m \in net.lldp[a] : m.port = p}}
Behind(net, a, b) == IF b \in DOMAIN net.table[a] THEN {net.table[a][b]} ELSE {}

\* _port_for_port: each of our ports names one of theirs, which names it back
PortForPort(net, a, b) ==
    /\ \A n \in Named(net, a, b) :
          /\ n.remote # 0
          /\ \A m \in Named(net, a, b) : m.port = n.port => m.remote = n.remote
          /\ {m.remote : m \in {x \in Named(net, b, a) : x.port = n.remote}}
                = {n.port}
    /\ {n.remote : n \in Named(net, a, b)} = PortsTo(net, b, a)

SecondCable(net, a, b) ==
    LET ours == PortsTo(net, a, b)
        theirs == PortsTo(net, b, a) IN
    /\ Cardinality(ours) >= 2 /\ Cardinality(theirs) = Cardinality(ours)
    /\ PortForPort(net, a, b)
    /\ \A p \in ours : Cardinality(Talkers(net, a, p)) = 1
    /\ \A p \in theirs : Cardinality(Talkers(net, b, p)) = 1
    /\ Behind(net, a, b) \subseteq ours /\ Behind(net, b, a) \subseteq theirs
    /\ ours \cap net.blocked[a] # {} \/ theirs \cap net.blocked[b] # {}

SecondCables(net) ==
    [a \in net.switches |->
        UNION {PortsTo(net, a, b) :
                  b \in {c \in net.switches \ {a} : SecondCable(net, a, c)}}]

----------------------------------------------------------------------------
\* lldp_link_candidates: a switch of ours on a port with neither forwarded
\* frames nor a crowd; of two cables the one that is not blocked
Heard(net, a, b) == {n \in Named(net, a, b) : n.port \notin net.unclear[a]}

ChosenCable(net, a, b) ==
    CHOOSE n \in Heard(net, a, b) : \A m \in Heard(net, a, b) :
        LET held(x) == IF x.port \in net.blocked[a] THEN 1 ELSE 0 IN
        held(n) < held(m) \/ (held(n) = held(m) /\ n.port <= m.port)

Side(net, a, b) ==
    IF Heard(net, a, b) # {}
    THEN LET n == ChosenCable(net, a, b) IN [port |-> n.port, by |-> n.by]
    ELSE [port |-> ChosenCable(net, b, a).remote, by |-> "remote"]

\* <<a, b>> and <<b, a>> for every pair LLDP confirms: the end at a
LldpPairs(net) ==
    [p \in {q \in net.switches \X net.switches :
               q[1] # q[2] /\ Heard(net, q[1], q[2]) \cup Heard(net, q[2], q[1]) # {}}
        |-> Side(net, p[1], p[2])]

\* lldp_adjacency: this switch's own port toward its neighbour
Adjacent(pairs, a, b) ==
    IF <<a, b>> \in DOMAIN pairs THEN pairs[<<a, b>>].port ELSE 0

\* places_behind: `near` has `far` on a port that is not its way to the root
PlacesBehind(pairs, uplinks, near, far, root) ==
    LET port == Adjacent(pairs, near, far) IN
    /\ port # 0
    /\ near = root \/ (At(uplinks, near) # 0 /\ port # At(uplinks, near))

----------------------------------------------------------------------------
\* infer_tree.  The root sees the most switches, then the most addresses.
RootOf(net) ==
    LET sees == Sees(net)
        seen(a) == Cardinality(DOMAIN sees[a])
        size(a) == Cardinality(DOMAIN net.fdb[a]) IN
    CHOOSE r \in net.switches : \A a \in net.switches :
        \/ seen(r) > seen(a)
        \/ seen(r) = seen(a) /\ (size(r) > size(a) \/ (size(r) = size(a) /\ r >= a))

\* what the root sees on one port is one branch; a switch's uplink is where
\* it sees switches outside its own branch
Branch(sees, root, port) ==
    {a \in DOMAIN sees[root] : sees[root][a] = port}
Uplinks(net, sees, root) ==
    [a \in net.switches \ {root} |->
        LET inside == IF a \in DOMAIN sees[root]
                      THEN Branch(sees, root, sees[root][a]) ELSE {}
            outside == DOMAIN sees[a] \ inside IN
        MostCommon([b \in outside |-> sees[a][b]])]

\* A tree under construction: what the recursion below reads and never changes
ChildPort(t, parent, child) ==
    IF parent \in DOMAIN t.sees[child] THEN t.sees[child][parent]
    ELSE At(t.uplinks, child)

\* branch_uplinks: inside a branch the port toward the parent is the way out
BranchUplinks(t, parent, members) ==
    [a \in members |-> IF parent \in DOMAIN t.sees[a] THEN t.sees[a][parent]
                       ELSE At(t.uplinks, a)]

\* lldp_chain: who is behind whom; of two claims that exclude each other none
SitsBehind(t, uplinks, members) ==
    LET claims(near, far) ==
            PlacesBehind(t.pairs, uplinks, near, far, t.root)
        hosts(far) == {near \in members \ {far} :
                          claims(near, far) /\ ~claims(far, near)} IN
    [far \in {m \in members : hosts(m) # {}} |->
        CHOOSE h \in hosts(far) : \A g \in hosts(far) : g <= h]

Descend(t, behind, top) ==
    LET below[host \in DOMAIN t.sees] ==
            LET children == Ascending({c \in DOMAIN behind : behind[c] = host})
                hang(links, c) ==
                    links \o <<Link(host, t.pairs[<<host, c>>].port, c,
                                    ChildPort(t, host, c), "fdb")>>
                          \o below[c] IN
            FoldLeft(hang, <<>>, children)
    IN below[top]

\* _attach_front: the nearest member sees all the others away from its uplink
Nearest(t, uplinks, members) ==
    LET near(c) == \A m \in members \ {c} :
                      m \in DOMAIN t.sees[c] /\ t.sees[c][m] # uplinks[c]
        all == {c \in members : near(c)}
        sure == IF Cardinality(all) > 1 THEN {c \in all : uplinks[c] # 0} ELSE all
        count(c) == Cardinality(DOMAIN t.sees[c]) IN
    IF sure = {} THEN 0
    ELSE CHOOSE c \in sure : \A d \in sure :
            count(c) > count(d) \/ (count(c) = count(d) /\ c >= d)

Direct(t, parent, port, child, unknown) ==
    [Link(parent, port, child, ChildPort(t, parent, child), "fdb")
        EXCEPT !.unknown = unknown]

\* attached[parent, port, members] is what Attach makes of a group further on
AttachFront(t, parent, port, members, uplinks, attached) ==
    LET nearest == Nearest(t, uplinks, members)
        rest == members \ {nearest}
        near == t.sees[nearest]
        stranded == rest \ DOMAIN near
        groups == Ascending({near[m] : m \in rest \ stranded})
        direct(links, m) == Append(links, Direct(t, parent, port, m, TRUE))
        group(links, p) == links \o
            attached[nearest, p, {m \in rest \ stranded : near[m] = p}] IN
    IF Cardinality(members) = 1
    THEN <<Direct(t, parent, port, CHOOSE m \in members : TRUE, FALSE)>>
    ELSE IF nearest = 0 THEN FoldLeft(direct, <<>>, Ascending(members))
    ELSE FoldLeft(direct,
           FoldLeft(group, <<Direct(t, parent, port, nearest, FALSE)>>, groups),
           Ascending(stranded))

\* attach: what LLDP puts behind another member hangs off that member, the
\* front is ordered by the MAC tables
Attach(t, front, way, group) ==
    LET attached[parent \in DOMAIN t.sees, port \in Int,
                 members \in SUBSET DOMAIN t.sees] ==
            LET uplinks == BranchUplinks(t, parent, members)
                local == [a \in DOMAIN t.uplinks |->
                             IF a \in members THEN uplinks[a] ELSE t.uplinks[a]]
                claimed == SitsBehind(t, local, members)
                behind == IF DOMAIN claimed = members THEN <<>> ELSE claimed
                first == members \ DOMAIN behind
                hang(links, m) == links \o Descend(t, behind, m) IN
            IF members = {} THEN <<>>
            ELSE FoldLeft(hang, AttachFront(t, parent, port, first, uplinks, attached),
                          Ascending(first))
    IN attached[front, way, group]

\* the switches the root does not see hang off what they see themselves
AttachUnseen(t, a) ==
    IF t.root \in DOMAIN t.sees[a]
    THEN <<Link(t.root, 0, a, t.sees[a][t.root], "fdb")>>
    ELSE IF DOMAIN t.sees[a] = {} THEN <<>>
    ELSE LET anchor == CHOOSE b \in DOMAIN t.sees[a] : \A c \in DOMAIN t.sees[a] : b <= c IN
         <<Link(anchor, 0, a, t.sees[a][anchor], "fdb")>>

Frame(net, pairs) ==
    LET sees == Sees(net) root == RootOf(net) IN
    [sees |-> sees, root |-> root, pairs |-> pairs,
     uplinks |-> Uplinks(net, sees, root)]

InferTree(net, t) ==
    LET ports == Ascending({t.sees[t.root][a] : a \in DOMAIN t.sees[t.root]})
        branch(links, p) == links \o Attach(t, t.root, p, Branch(t.sees, t.root, p))
        unseen(links, a) == links \o AttachUnseen(t, a) IN
    FoldLeft(unseen, FoldLeft(branch, <<>>, ports),
             Ascending((net.switches \ {t.root}) \ DOMAIN t.sees[t.root]))

----------------------------------------------------------------------------
\* merge_lldp_links: the ends LLDP reports, but for a port only guessed at
\* that the MAC tables contradict; and the links the MAC tables do not show
Reported(pairs, link, at, other, port) ==
    LET side == pairs[<<at, other>>] IN
    IF side.by \in {"num", "remote"} THEN port ELSE side.port

MergeLldp(links, pairs) ==
    LET merged == [i \in DOMAIN links |->
            LET l == links[i] IN
            IF <<l.a, l.b>> \notin DOMAIN pairs THEN l
            ELSE [l EXCEPT !.source = "both",
                           !.pa = Reported(pairs, l, l.a, l.b, @),
                           !.pb = Reported(pairs, l, l.b, l.a, @)]]
        missing == {p \in DOMAIN pairs :
                       p[1] < p[2] /\ ~\E i \in DOMAIN links : Ends(links[i]) = {p[1], p[2]}}
        order == SetToSortSeq(missing, LAMBDA p, q :
                       p[1] < q[1] \/ (p[1] = q[1] /\ p[2] < q[2])) IN
    merged \o [i \in DOMAIN order |->
        LET p == order[i] IN
        Link(p[1], pairs[p].port, p[2], pairs[<<p[2], p[1]>>].port, "lldp")]

\* drop_impossible_links: an inferred link to a switch LLDP puts behind another
DropImpossible(links, t) ==
    LET forbidden(kept, l) ==
            /\ l.source = "fdb"
            /\ \E near \in DOMAIN t.sees \ Ends(l) :
                  /\ PlacesBehind(t.pairs, t.uplinks, near, l.b, t.root)
                  /\ \E k \in LinksOf(kept) : Ends(k) = {near, l.b}
        judge(kept, l) == IF forbidden(kept, l)
                          THEN SelectSeq(kept, LAMBDA k : k # l) ELSE kept IN
    FoldLeft(judge, links, links)

\* mark_stp_blocking
MarkBlocking(links, net) ==
    [i \in DOMAIN links |->
        LET l == links[i] IN
        [l EXCEPT !.blocking = l.pa \in net.blocked[l.a] \/ l.pb \in net.blocked[l.b]]]

----------------------------------------------------------------------------
\* find_cycle: the first link that joins two switches already joined, with
\* the path between them, unless every link of it has been decided on
Key(l) == <<l.a, l.b, l.pa, l.pb>>
NoWay == {Link(0, 0, 0, 0, "none")}

PathFrom(forest, a, b) ==
    LET way[rest \in SUBSET forest, at \in Int] ==
            LET next == {l \in rest : at \in Ends(l)}
                onward == [l \in next |->
                              way[rest \ next, CHOOSE e \in Ends(l) : e # at]]
                ways == {l \in next : onward[l] # NoWay} IN
            IF at = b THEN {}
            ELSE IF ways = {} THEN NoWay
            ELSE LET l == CHOOSE w \in ways : TRUE IN {l} \cup onward[l]
    IN way[forest, a]

FindCycle(links, decided) ==
    LET grow(acc, l) ==
            IF acc.cycle # {} THEN acc
            ELSE LET path == PathFrom(acc.forest, l.a, l.b) IN
                 IF path = NoWay THEN [acc EXCEPT !.forest = @ \cup {l}]
                 ELSE IF {Key(k) : k \in path \cup {l}} \subseteq decided THEN acc
                 ELSE [acc EXCEPT !.cycle = path \cup {l}] IN
    FoldLeft(grow, [forest |-> {}, cycle |-> {}], links).cycle

\* resolve_cycles: a ring with a blocked port is drawn, another one loses its
\* weakest link, and where nothing tells them apart every link is marked
Strength(l) == CASE l.source = "lldp" -> 3 [] l.source = "both" -> 2 [] OTHER -> 1

Weakest(cycle, t) ==
    LET weak == {l \in cycle : \A k \in cycle : Strength(l) <= Strength(k)}
        impossible == {l \in weak : \E near \in DOMAIN t.sees \ Ends(l) :
                          PlacesBehind(t.pairs, t.uplinks, near, l.b, t.root)} IN
    IF Cardinality(weak) = 1 THEN weak
    ELSE IF Cardinality(impossible) = 1 THEN impossible ELSE {}

\* mutant: a ring LLDP confirms in part is left as it is
ResolveInferred(links, decided, t) ==
    IF \E l \in FindCycle(links, decided) : l.source = "lldp" THEN links
    ELSE SelectSeq(links, LAMBDA l : l \notin Weakest(FindCycle(links, decided), t))

Unresolved(l) == [l EXCEPT !.unresolved = TRUE]

ResolveCycles(links, decided, t) ==
    LET forms == LinksOf(links) \cup {Unresolved(l) : l \in LinksOf(links)}
        settle[left \in Seq(forms), known \in SUBSET {Key(l) : l \in forms}] ==
            LET cycle == FindCycle(left, known)
                more == known \cup {Key(l) : l \in cycle}
                victim == Weakest(cycle, t)
                marked == [i \in DOMAIN left |->
                    IF left[i] \in cycle THEN Unresolved(left[i]) ELSE left[i]] IN
            IF cycle = {} THEN left
            ELSE IF \E l \in cycle : l.blocking THEN settle[left, more]
            ELSE IF victim = {} THEN settle[marked, more]
            ELSE settle[SelectSeq(left, LAMBDA l : l \notin victim), known]
    IN settle[links, decided]

----------------------------------------------------------------------------
\* parallel_links: every further cable LLDP shows between two linked switches
Parallel(net, links) ==
    UNION {LET heardA == {<<n.port, n.remote>> : n \in Heard(net, l.a, l.b)}
               heardB == {<<n.remote, n.port>> : n \in Heard(net, l.b, l.a)}
               mine(c) == {d[2] : d \in {e \in heardB : e[1] = c[1]}}
               fromA == {<<c[1], IF mine(c) # {} THEN CHOOSE p \in mine(c) : TRUE
                                 ELSE c[2]>> : c \in heardA}
               fromB == {c \in heardB : /\ \A d \in fromA : d[2] # c[2]
                                        /\ \A d \in heardA : d[1] # c[1]} IN
           {Link(l.a, c[1], l.b, c[2], "lldp") :
              c \in {d \in (fromA \cup fromB) :
                        /\ d[1] # l.pa /\ d[2] # l.pb
                        /\ ~(0 \in {d[1], d[2]} /\ 0 \in {l.pa, l.pb})}}
           : l \in {k \in LinksOf(links) : Ends(k) \subseteq net.switches}}

\* trunk_ports: a switch is visible there, the way to the root, an LLDP link
TrunkPorts(net, t) ==
    [a \in net.switches |->
        ({t.sees[a][b] : b \in DOMAIN t.sees[a]} \cup {At(t.uplinks, a)}
         \cup {Adjacent(t.pairs, a, b) : b \in net.switches}) \ {0}]

\* build_topology's links, step by step: forwarded LLDP is told from second
\* cables; the tree; LLDP's corrections and the rings; the second cables
Forwarded(poll) ==
    [a \in poll.switches |-> ForwardedOn(poll, a) \ SecondCables(poll)[a]]

Judged(poll, forwarded) ==
    Over([unclear |-> [a \in poll.switches |-> forwarded[a] \cup CrowdedOn(poll, a)]],
         poll)

Settled(net, t) ==
    ResolveCycles(MarkBlocking(DropImpossible(MergeLldp(InferTree(net, t), t.pairs), t), net),
                  {}, t)

ExtraEnds(extra, a) ==
    {l.pa : l \in {k \in extra : k.a = a}} \cup {l.pb : l \in {k \in extra : k.b = a}}

Drawing(net, t, forwarded, links, extra) ==
    [links |-> links, parallel |-> MarkBlocking(SetToSeq(extra), net),
     root |-> t.root, uplinks |-> t.uplinks, forwarded |-> forwarded,
     trunks |-> [a \in net.switches |->
                    TrunkPorts(net, t)[a] \cup (ExtraEnds(extra, a) \ {0})]]

\* each step's result is bound once and read by the next ones
IsDrawing(drawn, poll) ==
    \E forwarded \in {Forwarded(poll)} : \E net \in {Judged(poll, forwarded)} :
    \E pairs \in {LldpPairs(net)} : \E t \in {Frame(net, pairs)} :
    \E links \in {Settled(net, t)} : \E extra \in {Parallel(net, links)} :
        drawn = Drawing(net, t, forwarded, links, extra)
=============================================================================
