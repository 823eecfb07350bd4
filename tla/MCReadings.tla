----------------------------- MODULE MCReadings -----------------------------
EXTENDS Readings, TLC

CONSTANTS k1, k2, m1, m2

\* FlapDamping: short settings with a cooldown no longer than the alarm's cycle
\* or the quiet time; damping switched off and a cooldown that swallows repeats
Quick == [count |-> 2, window |-> 2, quiet |-> 2, cooldown |-> 2]
Off   == [count |-> 0, window |-> 2, quiet |-> 2, cooldown |-> 3]
MCConfigs == {Quick, Off}

\* Collector: a row of a table, and the answer that there is none
R(i, v) == [at |-> i, val |-> v, there |-> TRUE]
NoSuch(i) == [at |-> i, val |-> 0, there |-> FALSE]

\* three kinds of switch.  "lag": ports 2 and 3 are a LAG-MIB aggregate 4;
\* "dlink": ports 2 and 3 are a trunk the bridge numbers 3 and does not map;
\* "edge": the membership column holds a number of no interface, and then one
\* that is the whole switch
MCTables(a) ==
    CASE a.kind = "lag" ->
        [descr |-> <<R(1, 1), R(2, 1), R(3, 1), R(4, 1)>>,
         type |-> <<R(1, "ether"), R(2, "ether"), R(3, "ether"), R(4, "lag")>>,
         lag |-> <<R(1, 1), R(2, 4), R(3, 4)>>,
         map |-> <<R(1, 1), R(2, 2), R(3, 3), R(4, 4)>>,
         fdb |-> <<R("group", 1), R("a", 1), R("b", 4)>>,
         hc |-> <<R(1, 1), R(2, 1), R(3, 1)>>,
         c32 |-> <<R(1, 1), R(2, 1), R(3, 1)>>]
      [] a.kind = "dlink" ->
        [descr |-> <<R(1, 1), R(2, 1), R(3, 1), R(5, 1)>>,
         type |-> <<R(1, "ether"), R(2, "ether"), R(3, "ether"), R(5, "cpu")>>,
         lag |-> <<NoSuch(1)>>,
         map |-> <<R(1, 1)>>,
         fdb |-> <<R("a", 1), R("b", 3), R("c", 0)>>,
         hc |-> <<NoSuch(1), R(2, 1), R(3, 1)>>,
         c32 |-> <<R(1, 1), R(2, 1), R(3, 1)>>]
      [] a.kind = "edge" ->
        [descr |-> <<R(1, 1), R(2, 1), R(3, 1), R(4, 1)>>,
         type |-> <<R(1, "ether"), R(2, "ether"), R(3, "ether"), R(4, "cpu")>>,
         lag |-> <<R(1, a.claim), R(2, a.claim), R(3, a.claim)>>,
         map |-> <<R(1, 1), R(2, 2), R(3, 3)>>,
         fdb |-> <<R("a", 1), R("b", 2)>>,
         hc |-> <<>>,
         c32 |-> <<R(1, 1), R(2, 1)>>]

Agent(kind, claim, answers, deaf, weak) ==
    [kind |-> kind, claim |-> claim, up |-> answers, deaf |-> deaf, weak |-> weak,
     trunk |-> IF kind = "edge" THEN <<1, 2, 3>> ELSE <<1, 2, 2>>,
     home |-> [a |-> 1, b |-> 2]]

Walks == {"descr", "type", "lag", "map", "fdb", "hc", "c32"}
MCAgents ==
    {Agent("lag", 0, TRUE, {}, {}), Agent("lag", 0, TRUE, {}, {"descr", "fdb"}),
     Agent("dlink", 0, TRUE, {}, {}), Agent("dlink", 0, FALSE, Walks, {}),
     Agent("dlink", 0, TRUE, {"lag"}, {"map", "hc"}),
     Agent("edge", 9, TRUE, {}, {}), Agent("edge", 9, TRUE, {"hc"}, {"c32"}),
     Agent("edge", 4, TRUE, {}, {"lag"}), Agent("edge", 4, TRUE, {"map"}, {"type"})}

ASSUME AgentsAreTrue == \A a \in MCAgents : CO!TrueSwitch(a)

\* PortRules: every type of alarm, and a LAG of two ports
MCRules   == {"port_flapping", "lag_degraded", "port_util", "port_errors",
              "loop_detected"}
MCMembers == {m1, m2}

\* the parts a behaviour is not about begin in one state of theirs
MCInit ==
    /\ ReadingsInit
    /\ subject # "flap" => cfg = Quick
    /\ subject # "collector" => agent = Agent("lag", 0, TRUE, {}, {})
    /\ subject # "ports" => rule = "port_flapping"

\* the alarms of ports have a run of their own
ReadInit  == MCInit /\ subject # "ports"
PortsInit == MCInit /\ subject = "ports"

PortsSpec == PortsInit /\ [][ReadingsNext]_readingVars /\ PollsFairness
MCSpec    == ReadInit /\ [][ReadingsNext]_readingVars /\ ReadingsFairness
=============================================================================
