--------------------------- MODULE PingDetectors ---------------------------
(***************************************************************************)
(* What the ping cycle of moonlan/server.py tells the alarm engine, and    *)
(* the two alarms moonlan/alarms.py makes of it: host_down for a monitored *)
(* host that missed three pings, port_hosts_down for a port whose hosts    *)
(* went silent in one cycle.                                               *)
(*                                                                         *)
(* Between two cycles the inventory moves under the detectors: the scan    *)
(* relocates hosts, loses sight of them, gives them addresses and takes    *)
(* them away; the retention cleanup deletes them; the service restarts.    *)
(* Addresses are unique in the inventory, so a host is a device of its own.*)
(***************************************************************************)
EXTENDS Naturals, FiniteSets, Sequences

CONSTANTS
    Hosts, Ports,
    MassDownHosts,  \* thresholds.mass_down_hosts
    Restless,       \* bound: the hosts that change between pings
    MaxRestarts     \* bound: restarts of the service

ASSUME PingAssumption ==
    /\ MassDownHosts \in Nat \ {0} /\ MaxRestarts \in Nat
    /\ IsFiniteSet(Hosts) /\ Restless \subseteq Hosts

HostDownAfter == 3
MinUpStreak   == 2
Nowhere       == "nowhere"   \* a host no switch port has shown

VARIABLES
    known,       \* hosts the inventory has
    place,       \* the port the inventory has a host on
    fresh,       \* fdb_macs: hosts the last scan found
    monitored,   \* hosts the operator wants to hear of
    targets,     \* hosts with an address
    active,      \* the alarms that are open
    fails,       \* _ping_fails
    upStreak,    \* _up_streak
    massSets,    \* _mass_sets: port -> affected hosts
    heard,       \* history: a host's last pings since the start, newest first
    answering,   \* history: the targets that answered the last ping
    beat,        \* parity of the cycles: a cycle that finds nothing new is a step
    restarts

inventory == <<known, place, fresh, monitored, targets>>
memory    == <<fails, upStreak, massSets>>
vars      == <<inventory, active, memory, heard, answering, beat, restarts>>

HostDown(h)   == <<"host_down", h>>
PortDown(p)   == <<"port_hosts_down", p>>
Alarms        == {HostDown(h) : h \in Hosts} \cup {PortDown(p) : p \in Ports}
AtMost(n, bound) == IF n < bound THEN n ELSE bound

\* a located host missing from the latest FDB is not confirmed present
Stale(h) == place[h] # Nowhere /\ h \notin fresh

-----------------------------------------------------------------------------
(* on_ping *)

\* (mutant: a success does not end the row of misses)
FailsSticky(up) ==
    [h \in Hosts |-> IF h \in targets \ up
                     THEN AtMost(fails[h] + 1, HostDownAfter) ELSE fails[h]]

Fails(up) ==
    [h \in Hosts |-> IF h \in up THEN 0
                     ELSE IF h \in targets
                     THEN AtMost(fails[h] + 1, HostDownAfter) ELSE fails[h]]

\* (mutant: a miss does not end the row of answers)
UpStreakSticky(up) ==
    [h \in Hosts |-> IF h \in up THEN AtMost(upStreak[h] + 1, MinUpStreak)
                     ELSE upStreak[h]]

UpStreak(up) ==
    [h \in Hosts |-> IF h \in up THEN AtMost(upStreak[h] + 1, MinUpStreak)
                     ELSE IF h \in targets THEN 0 ELSE upStreak[h]]

\* hosts that had been answering steadily and are silent now
NewlyDown(p, up) ==
    {h \in targets \ up : /\ upStreak[h] >= MinUpStreak /\ ~Stale(h)
                          /\ place[h] = p}

Outages(up) == {p \in Ports : Cardinality(NewlyDown(p, up)) >= MassDownHosts}

\* (mutant: who is affected is judged anew in every cycle)
AffectedNow(up) ==
    [p \in Outages(up) \cup {q \in Ports : PortDown(q) \in active} |->
        {h \in targets \ up : place[h] = p}]

\* the affected hosts: those of earlier outages and of this one; a port whose
\* alarm predates a restart gets the hosts silent on it now
Affected(up) ==
    LET counted   == DOMAIN massSets \cup Outages(up)
        rebuilt == {p \in Ports \ counted : PortDown(p) \in active}
    IN [p \in counted \cup rebuilt |->
          IF p \in rebuilt
          THEN {h \in targets \ up : place[h] = p}
          ELSE (IF p \in DOMAIN massSets THEN massSets[p] ELSE {})
               \cup (IF p \in Outages(up) THEN NewlyDown(p, up) ELSE {})]

\* (mutant: nobody known to be affected counts as everybody back)
RecoveredEmpty(affected, up) ==
    {p \in DOMAIN affected :
        Cardinality(affected[p] \cap up) * 2 >= Cardinality(affected[p])}

\* at least half of a non-empty set answers again
Recovered(affected, up) ==
    {p \in DOMAIN affected :
        /\ affected[p] # {}
        /\ Cardinality(affected[p] \cap up) * 2 >= Cardinality(affected[p])}

\* one ping cycle; a cycle without targets does not reach the engine
Ping ==
    /\ targets # {}
    /\ \E up \in SUBSET targets :
         LET affected == Affected(up)
             silent   == {h \in targets \ up : /\ Fails(up)[h] >= HostDownAfter
                                               /\ h \in monitored /\ ~Stale(h)}
             standing == (active \ {HostDown(h) : h \in up})
                           \cup {HostDown(h) : h \in silent}
                           \cup {PortDown(p) : p \in Outages(up)}
             open     == {p \in DOMAIN affected : PortDown(p) \in standing}
             over     == Recovered(affected, up) \cap open
         IN /\ fails' = Fails(up)
            /\ upStreak' = UpStreak(up)
            /\ massSets' = [p \in open \ over |-> affected[p]]
            /\ active' = standing \ {PortDown(p) : p \in over}
            /\ heard' = [h \in Hosts |->
                           IF h \in targets
                           THEN <<h \in up>> \o SubSeq(heard[h], 1,
                                    AtMost(Len(heard[h]), HostDownAfter - 1))
                           ELSE heard[h]]
            /\ answering' = up /\ beat' = ~beat
    /\ UNCHANGED <<inventory, restarts>>

-----------------------------------------------------------------------------
(* What happens between two cycles *)

Between == UNCHANGED <<memory, heard, answering, beat, restarts>>

\* the scan finds a host on another port, or loses sight of one
Move(h, p) ==
    /\ place[h] # p
    /\ known' = known \cup {h}
    /\ place' = [place EXCEPT ![h] = p]
    /\ fresh' = fresh \cup {h}
    /\ Between /\ UNCHANGED <<monitored, targets, active>>

Age(h) ==
    /\ h \in known /\ place[h] # Nowhere
    /\ fresh' = IF h \in fresh THEN fresh \ {h} ELSE fresh \cup {h}
    /\ Between /\ UNCHANGED <<known, place, monitored, targets, active>>

\* set_ips gives an address, release_ip takes one away
Readdress(h) ==
    /\ known' = known \cup {h}
    /\ targets' = IF h \in targets THEN targets \ {h} ELSE targets \cup {h}
    /\ Between /\ UNCHANGED <<place, fresh, monitored, active>>

Monitor(h) ==
    /\ h \in known
    /\ monitored' = IF h \in monitored THEN monitored \ {h}
                    ELSE monitored \cup {h}
    /\ Between /\ UNCHANGED <<known, place, fresh, targets, active>>

\* (mutant: the deleted host's alarm stays)
DeleteOnly(h) ==
    /\ h \in known
    /\ known' = known \ {h}
    /\ place' = [place EXCEPT ![h] = Nowhere]
    /\ fresh' = fresh \ {h} /\ targets' = targets \ {h}
    /\ monitored' = monitored \ {h}
    /\ Between /\ UNCHANGED active

\* the daily cleanup deletes a host, then clear_missing_hosts its alarm
Delete(h) ==
    /\ h \in known
    /\ known' = known \ {h}
    /\ place' = [place EXCEPT ![h] = Nowhere]
    /\ fresh' = fresh \ {h} /\ targets' = targets \ {h}
    /\ monitored' = monitored \ {h}
    /\ active' = active \ {HostDown(h)}
    /\ Between

\* manual_clear: the detectors' memory does not hear of it
ManualClear(a) ==
    /\ a \in active
    /\ active' = active \ {a}
    /\ Between /\ UNCHANGED inventory

\* load() brings the alarms back; the counters start from nothing
Restart ==
    /\ restarts < MaxRestarts
    /\ restarts' = restarts + 1
    /\ fails' = [h \in Hosts |-> 0]
    /\ upStreak' = [h \in Hosts |-> 0]
    /\ massSets' = [p \in {} |-> {}]
    /\ heard' = [h \in Hosts |-> <<>>]
    /\ UNCHANGED <<inventory, active, answering, beat>>

Init ==
    /\ known = Hosts
    /\ \E p \in Ports : place = [h \in Hosts |-> p]
    /\ fresh = Hosts /\ monitored = Hosts /\ targets = Hosts
    /\ active = {} /\ answering = {} /\ beat = FALSE
    /\ fails = [h \in Hosts |-> 0]
    /\ upStreak = [h \in Hosts |-> 0]
    /\ massSets = [p \in {} |-> {}]
    /\ heard = [h \in Hosts |-> <<>>]
    /\ restarts = 0

Next ==
    \/ Ping \/ Restart
    \/ \E h \in Restless : Age(h) \/ Readdress(h) \/ Monitor(h) \/ Delete(h)
    \/ \E h \in Restless, p \in Ports : Move(h, p)
    \/ \E a \in Alarms : ManualClear(a)

\* periodic_ping runs for as long as the service does
Spec     == Init /\ [][Next]_vars
FairSpec == Spec /\ WF_vars(Ping)

-----------------------------------------------------------------------------
(* Properties *)

\* the shape of the inventory and of the detectors' memory; no host is in a row
\* of misses and in a row of answers at once
TypeOK ==
    /\ known \subseteq Hosts /\ place \in [Hosts -> Ports \cup {Nowhere}]
    /\ fresh \subseteq Hosts /\ monitored \subseteq Hosts
    /\ targets \subseteq Hosts /\ answering \subseteq Hosts
    /\ active \subseteq Alarms
    /\ fails \in [Hosts -> 0..HostDownAfter]
    /\ upStreak \in [Hosts -> 0..MinUpStreak]
    /\ \A h \in Hosts : fails[h] = 0 \/ upStreak[h] = 0
    /\ DOMAIN massSets \subseteq Ports
    /\ \A p \in DOMAIN massSets : massSets[p] \subseteq Hosts
    /\ \A h \in Hosts : heard[h] \in Seq(BOOLEAN)
    /\ beat \in BOOLEAN /\ restarts \in 0..MaxRestarts

\* A host in the row of the last n pings it was sent
Missed(h, n)   == Len(heard[h]) >= n /\ \A j \in 1..n : ~heard[h][j]
WentSilent(h)  == Len(heard[h]) > MinUpStreak /\ ~heard[h][1]
                  /\ \A j \in 2..(MinUpStreak + 1) : heard[h][j]

\* host_down is raised on three pings missed in a row since the start, of a
\* monitored host that is where the inventory has it; port_hosts_down on
\* mass_down_hosts hosts of that port that answered twice and then, in one and
\* the same cycle, did not.  Neither a success forgotten nor a restart nor a
\* host that moved away may stand in for one of them.
RaisedOnEvidence ==
    [][/\ \A h \in Hosts : HostDown(h) \in active' \ active =>
            Missed(h, HostDownAfter)' /\ h \in monitored /\ ~Stale(h)
       /\ \A p \in Ports : PortDown(p) \in active' \ active =>
            Cardinality({h \in Hosts : WentSilent(h)' /\ place[h] = p})
               >= MassDownHosts
      ]_vars

\* port_hosts_down is closed by a ping only when a host that was counted among
\* its hosts answers, and did not answer in the cycle before; never on the
\* strength of a restart alone, or of hosts nobody asks any more.
ClearedByAnswer ==
    [][Ping => \A p \in Ports : PortDown(p) \in active \ active' =>
          /\ p \in DOMAIN massSets
          /\ \E h \in massSets[p] : h \in answering' \ answering]_vars

\* A monitored host that stays silent is alarmed on again and again; the alarm
\* of one that answers for good, or that the retention cleanup has deleted for
\* good, is closed for good; whatever restarts and manual clears come between.
HostDownFollows ==
    \A h \in Hosts :
        /\ <>[](h \in (targets \cap monitored) \ answering /\ ~Stale(h))
              => []<>(HostDown(h) \in active)
        /\ <>[](h \in targets \cap answering)
              => <>[](HostDown(h) \notin active)
        /\ <>[](h \notin known) => <>[](HostDown(h) \notin active)

AllAnswer == targets = Hosts /\ answering = Hosts

\* When every host answers for good, port_hosts_down is closed for good; in a
\* service that has not been restarted since.
PortDownEnds ==
    <>[](AllAnswer /\ restarts = 0)
        => \A p \in Ports : <>[](PortDown(p) \notin active)

\* Neither alarm of a ping cycle comes or goes without its evidence, and the
\* memory of the cycles keeps its bounds.
AlarmsFollowAnswers == []TypeOK /\ RaisedOnEvidence /\ ClearedByAnswer

\* What a ping cycle alarms on is alarmed on while it lasts, and is over in the
\* end when it is over, for a host and for a port.
OutagesAreFollowed == HostDownFollows /\ PortDownEnds
=============================================================================
