----------------------------- MODULE MCMapScans -----------------------------
EXTENDS MapScans

All == 1..4
Pairs == {e \in SUBSET All : Cardinality(e) = 2}

RECURSIVE Grow(_, _)
Grow(reached, cables) ==
    LET next == UNION {e \in cables : e \cap reached # {}} IN
    IF next \subseteq reached THEN reached ELSE Grow(reached \cup next, cables)
Trees == {t \in SUBSET Pairs : Cardinality(t) = 3 /\ Grow({1}, t) = All}
Chain == {{1, 2}, {2, 3}, {3, 4}}
Twisted == {{1, 4}, {1, 3}, {2, 3}}
Star == {{1, 2}, {2, 3}, {2, 4}}

\* a's port to its neighbour b is number b; a second cable between them, 10+b
Beyond(t, a, b) == Grow({b}, t \ {{a, b}})
Hop(t) == [a \in All |-> [m \in All \ {a} |->
              CHOOSE b \in All \ {a} : {a, b} \in t /\ m \in Beyond(t, a, b)]]
Amid(hop, a, b) == {x \in All \ {a, b} : hop[x][a] # hop[x][b]}

Cable(a, b, shift) == [a |-> a, pa |-> b + shift, b |-> b, pb |-> a + shift]
Both(e, shift) == {Cable(a, b, shift) : a \in e, b \in e} \cap
                  {w \in [a : All, pa : 1..14, b : All, pb : 1..14] : w.a # w.b}

\* an announcement is heard over a cable, and past those that forward it
Lldp(hop, beside, speak, forward, a) ==
    {[port |-> hop[a][x], chassis |-> x, remote |-> hop[x][a], by |-> "name"] :
        x \in {y \in speak \ {a} : a \in speak /\ Amid(hop, a, y) \subseteq forward}}
    \cup {[port |-> w.pa, chassis |-> w.b, remote |-> w.pb, by |-> "name"] :
        w \in {v \in beside : v.a = a /\ {a, v.b} \subseteq speak}}

Net(t, polled, speak, forward, sources, spare, blocked, modes, n, moves) ==
    LET hop == Hop(t)
        extra == UNION {Both(e, IF e \in t THEN 10 ELSE 0) : e \in spare} IN
    [polled |-> polled, foreign |-> All \ polled, hop |-> hop,
     beside |-> extra, sources |-> sources,
     lldp |-> [a \in polled |-> Lldp(hop, extra, speak, forward, a)],
     blocked |-> [a \in polled |-> {w.pa : w \in {v \in extra : v.a = a /\ v.b < a /\ blocked}}],
     exits |-> IF speak = {} THEN {<<3, 7>>} ELSE {}, home |-> (101 :> <<1, 7>>) @@ (102 :> <<3, 7>>),
     spare |-> {<<2, 8>>}, moves |-> moves, modes |-> modes, scans |-> n]

Full(polled) == {[a \in polled |-> "full"]}
Odd(polled) == Full(polled) \cup
    {[a \in polled |-> IF a = x THEN m ELSE "full"] :
        x \in polled, m \in {"quiet", "aged", "late", "silent"}}

\* every tree, the fourth node polled or not, nobody or everybody in LLDP
Plain == {Net(t, p, s, {}, All, {}, FALSE, Full(p), 1, 0) :
            t \in Trees, p \in {All, {1, 2, 3}}, s \in {{}, All}}
\* LLDP frames forwarded by a node
Passed == {Net(t, p, All, {f}, q, {}, FALSE, Full(p), 1, 0) :
            t \in Trees, p \in {All, {1, 2, 3}}, f \in {2, 4},
                q \in {{}, All}}
\* a ring, or a second cable, with its blocked port known or not
Ringed == {Net(t, All, All, {}, q, {e}, TRUE, Full(All), 1, 0) :
               t \in {Chain, Star}, q \in {{}, All}, e \in Pairs}
          \cup {Net(t, All, All, {}, q, {e}, FALSE, Full(All), 1, 0) :
               t \in {Chain, Star}, q \in {{}, All}, e \in Pairs \ (Chain \cup Star)}
\* two scans, one switch read badly in each, and a device that moves
Unsteady == {Net(t, All, s, {}, All, {}, FALSE, Odd(All), 2, 1) :
            t \in {Chain, Twisted}, s \in {{}, All}}

MCNetworks == Plain \cup Passed \cup Ringed \cup Unsteady
=============================================================================
