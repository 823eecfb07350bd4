--------------------------- MODULE ScanDetectors ---------------------------
(***************************************************************************)
(* What the scan cycle of moonlan/server.py tells the alarm engine, and    *)
(* what the detectors of moonlan/alarms.py make of it: switch_down,        *)
(* switch_stale, the three spanning-tree alarms, port_frame_corruption and *)
(* unmanaged_bridge_detected.                                              *)
(*                                                                         *)
(* A detector is memory between scans, and all of that memory is gone      *)
(* after a restart, while the alarms are loaded back from the database.    *)
(* A scan is one step here: what its awaits let in between is the subject  *)
(* of AlarmEngine.  The detectors share nothing but the scan, so a         *)
(* behaviour follows one family of them, chosen at the start.              *)
(***************************************************************************)
EXTENDS Naturals, FiniteSets, Sequences

CONSTANTS
    Families,         \* subset of {"polls", "trees", "copies", "bridge"}
    Switches,         \* config.switches
    Roots,            \* bridge ids a switch may name as its root
    StaleScans,       \* config.stale_switch_scans
    Copies,           \* damaged addresses behind one port
    CopiesThreshold,  \* thresholds.corruption_macs_threshold
    Window,           \* notifications.flap_window_seconds, in scans
    MaxRestarts       \* bound: restarts of the service

SwitchDownAfter == 2

Off     == "off"         \* the tree of the switch is not operating
Nothing == "nothing"     \* no reading of the switch, no root remembered

ASSUME ScanAssumption ==
    /\ Families \subseteq {"polls", "trees", "copies", "bridge"}
    /\ {Off, Nothing} \cap Roots = {} /\ IsFiniteSet(Copies)
    /\ StaleScans \in Nat \ {0} /\ CopiesThreshold \in Nat \ {0}
    /\ Window \in Nat /\ MaxRestarts \in Nat

Trees   == Roots \cup {Off}

\* one switch's part of a scan: a complete reading, a poll past its budget,
\* or no answer
Readings == [kind : {"full"}, tree : Trees]
Silence  == [kind |-> "silent"]
Partial  == [kind |-> "partial"]
Plain    == [kind |-> "full", tree |-> Off]

Answers == [polls  |-> {Plain, Partial, Silence},
            trees  |-> Readings \cup {Partial, Silence},
            copies |-> {Plain}, bridge |-> {Plain}]

\* where LLDP shows the one bridge: behind an access port, somewhere no
\* alarm is due (a trunk, no capabilities, a port that leaves the network),
\* where the configuration has declared it known, or nowhere
Sights == {"access", "exempt", "suppressed", "none"}

\* what a scan collects: the answers, the copies in the port's MAC table and
\* whether the port's error counters agree, and the bridge
Inputs(f) ==
    [answer    : [Switches -> Answers[f]],
     found     : IF f = "copies" THEN SUBSET Copies ELSE {{}},
     confirmed : IF f = "copies" THEN BOOLEAN ELSE {FALSE},
     sight     : IF f = "bridge" THEN Sights ELSE {"none"}]

SwitchAlarms == {"switch_down", "switch_stale", "stp_root_changed",
                 "stp_topology_change"} \X Switches
Fragmented   == <<"stp_fragmented", "network">>
Corruption   == <<"port_frame_corruption", "port">>
Bridge       == <<"unmanaged_bridge_detected", "bridge">>
Alarms       == SwitchAlarms \cup {Fragmented, Corruption, Bridge}

VARIABLES
    family,
    input,      \* what the last scan collected
    active,     \* the alarms that are open
    critical,   \* severity of the corruption alarm
    saved,      \* switch_data: the tree in the reading kept of each switch
    misses,     \* _snmp_fails
    streak,     \* SwitchData.over_budget_scans
    listed,     \* _stale_switches
    root,       \* _stp_root; a switch has _stp_changes iff it has a root
    cycles,     \* _stp_fragmented_cycles
    seen,       \* _corrupt and _bridges_seen: thing -> its age in scans
    past,       \* history: the evidence of the last scans, newest first
    beat,       \* parity of the scans: a scan that finds nothing new is a step
    restarts

memory  == <<saved, misses, streak, listed, root, cycles, seen>>
vars    == <<family, input, active, critical, memory, past, beat, restarts>>

Kind(i, s)  == i.answer[s].kind
AtMost(n, bound) == IF n < bound THEN n ELSE bound

\* raises and clears of one scan; no detector does both to one alarm
Settle(raised, cleared) == active' = (active \ cleared) \cup raised

-----------------------------------------------------------------------------
(* switch_down and switch_stale: run_scan, on_scan, on_stale_switches *)

\* (mutant: a switch past its budget counts as a missed poll)
MissesAny(i, s) ==
    IF Kind(i, s) = "full" THEN 0 ELSE AtMost(misses[s] + 1, SwitchDownAfter)

\* a switch past its budget is not reported to on_scan at all
Misses(i, s) ==
    IF Kind(i, s) = "full" THEN 0
    ELSE IF Kind(i, s) = "silent" THEN AtMost(misses[s] + 1, SwitchDownAfter)
    ELSE misses[s]

\* (mutant: the count is not carried from reading to reading)
StreakLost(i, s) == IF Kind(i, s) = "partial" THEN 1 ELSE 0

\* over_budget_scans goes on in the reading that is kept, and a new reading
\* (or none: an unreachable switch is a new, empty one) starts at zero
Streak(i, s) ==
    IF Kind(i, s) = "partial" THEN AtMost(streak[s] + 1, StaleScans) ELSE 0

PollScan(i) ==
    /\ misses' = [s \in Switches |-> Misses(i, s)]
    /\ streak' = [s \in Switches |-> Streak(i, s)]
    /\ listed' = {s \in Switches : streak'[s] >= StaleScans}
    /\ LET down    == {s \in Switches : Kind(i, s) = "silent"
                                        /\ misses'[s] >= SwitchDownAfter}
           up      == {s \in Switches : Kind(i, s) = "full"}
       IN Settle({"switch_down"} \X down \cup {"switch_stale"} \X listed',
                 {"switch_down"} \X up
                    \cup {"switch_stale"} \X (listed \ listed'))
    /\ UNCHANGED <<saved, root, cycles, seen, critical>>

-----------------------------------------------------------------------------
(* The spanning-tree alarms: _stp_report and on_stp *)

\* what switch_data holds after the scan: a poll past its budget keeps the
\* reading there is, a silent switch leaves none
Keep(i, s) == CASE Kind(i, s) = "full"    -> i.answer[s].tree
                []  Kind(i, s) = "partial" -> saved[s]
                []  Kind(i, s) = "silent"  -> Nothing

Operating(readings) == {s \in Switches : readings[s] \in Roots}

\* network_verdict: operating switches that name two roots or more
Split(readings) ==
    Cardinality({readings[s] : s \in Operating(readings)}) > 1

\* growth of dot1dStpTopChanges since the scan before: the counter of the
\* switch started again, at most stp_changes_per_cycle, or more
Churn == {"reset", "few", "many"}

\* a kept reading shows no change
Deltas(i) == {d \in [Switches -> Churn] :
                \A s \in Switches : Kind(i, s) # "full" => d[s] = "few"}

Cycles(readings) == IF Split(readings) THEN AtMost(cycles + 1, 2) ELSE 0

\* (mutant: the first root a switch names stays the one to compare with)
RememberFirst(readings) ==
    [s \in Switches |-> IF s \notin Operating(readings) THEN Nothing
                        ELSE IF root[s] = Nothing THEN readings[s] ELSE root[s]]

\* a switch that stopped operating must not keep a root in memory
Remember(readings) ==
    [s \in Switches |-> IF s \in Operating(readings) THEN readings[s]
                        ELSE Nothing]

TreeScan(i) ==
    /\ saved' = [s \in Switches |-> Keep(i, s)]
    /\ root' = Remember(saved')
    /\ cycles' = Cycles(saved')
    /\ \E delta \in Deltas(i) :
       LET known   == {s \in Operating(saved') : root[s] # Nothing}
           moved   == {s \in known : root[s] # saved'[s]}
           left    == {s \in Switches \ Operating(saved') : root[s] # Nothing}
           busy    == {s \in known : delta[s] = "many"}
           calm    == {s \in known : delta[s] = "few"}
       IN Settle({"stp_root_changed"} \X moved
                    \cup {"stp_topology_change"} \X busy
                    \cup {a \in {Fragmented} : cycles' = 2},
                 {"stp_root_changed"} \X ((known \ moved) \cup left)
                    \cup {"stp_topology_change"} \X (calm \cup left)
                    \cup {a \in {Fragmented} : cycles' = 0})
    /\ UNCHANGED <<misses, streak, listed, seen, critical>>

-----------------------------------------------------------------------------
(* port_frame_corruption: on_corruption *)

\* a copy enters once and ages from there, seen again or not
Aged(found) ==
    [c \in DOMAIN seen \cup found |-> IF c \in DOMAIN seen THEN seen[c] + 1
                                      ELSE 0]

\* (mutant: nothing leaves the window)
WithinNever(ages) == ages

\* what is older than the window is dropped
Within(ages) ==
    [c \in {x \in DOMAIN ages : ages[x] <= Window} |-> ages[c]]

CopiesScan(i) ==
    LET enough == Cardinality(DOMAIN seen') >= CopiesThreshold IN
    /\ seen' = Within(Aged(i.found))
    /\ Settle({a \in {Corruption} : enough},
              {a \in {Corruption} : DOMAIN Aged(i.found) # {}
                                    /\ DOMAIN seen' = {}})
    /\ critical' = IF ~enough THEN critical
                   ELSE i.confirmed \/ (Corruption \in active /\ critical)
    /\ UNCHANGED <<saved, misses, streak, listed, root, cycles>>

-----------------------------------------------------------------------------
(* unmanaged_bridge_detected: clear_suppressed, then on_bridges *)

\* (mutant: a bridge this scan does not show is gone)
SightingsNow(i) == [b \in {x \in {Bridge} : i.sight = "access"} |-> 0]

\* when the bridge was last where an alarm is due; a known one is forgotten
Sightings(i) ==
    CASE i.sight = "access"     -> Within([b \in {Bridge} |-> 0])
      [] i.sight = "suppressed" -> Within([b \in {} |-> 0])
      [] OTHER -> Within([b \in DOMAIN seen |-> seen[b] + 1])

BridgeScan(i) ==
    /\ seen' = Sightings(i)
    /\ Settle({b \in {Bridge} : i.sight = "access"},
              {b \in {Bridge} : i.sight = "suppressed"}
                 \cup (DOMAIN seen \ DOMAIN seen'))
    /\ UNCHANGED <<saved, misses, streak, listed, root, cycles, critical>>

-----------------------------------------------------------------------------

\* history: how far back the evidence of a family reaches
Depth == CASE family = "polls"  -> StaleScans + 1
           [] family = "trees"  -> 2
           [] OTHER             -> Window + 2

Evidence(i) == [kinds |-> [s \in Switches |->
                            IF family = "polls" THEN Kind(i, s) ELSE "full"],
                split |-> Split(saved'), found |-> i.found,
                sight |-> i.sight]

Scan ==
    \E i \in Inputs(family) :
        /\ input' = i
        /\ \/ family = "polls"  /\ PollScan(i)
           \/ family = "trees"  /\ TreeScan(i)
           \/ family = "copies" /\ CopiesScan(i)
           \/ family = "bridge" /\ BridgeScan(i)
        /\ past' = <<Evidence(i)>> \o SubSeq(past, 1, AtMost(Len(past), Depth - 1))
        /\ beat' = ~beat
        /\ UNCHANGED <<family, restarts>>

\* manual_clear: the detectors' memory does not hear of it
ManualClear(a) ==
    /\ a \in active
    /\ active' = active \ {a}
    /\ UNCHANGED <<family, input, critical, memory, past, beat, restarts>>

\* the service stops and starts again: load() brings the alarms back, and
\* nothing brings back what the detectors knew
Restart ==
    /\ restarts < MaxRestarts
    /\ restarts' = restarts + 1
    /\ saved'  = [s \in Switches |-> Nothing]
    /\ misses' = [s \in Switches |-> 0]
    /\ streak' = [s \in Switches |-> 0]
    /\ listed' = {}
    /\ root'   = [s \in Switches |-> Nothing]
    /\ cycles' = 0
    /\ seen'   = [x \in {} |-> 0]
    /\ past'   = <<>>
    /\ UNCHANGED <<family, input, active, critical, beat>>

Init ==
    /\ family \in Families
    /\ input \in Inputs(family)
    /\ active = {} /\ critical = FALSE
    /\ saved  = [s \in Switches |-> Nothing]
    /\ misses = [s \in Switches |-> 0]
    /\ streak = [s \in Switches |-> 0]
    /\ listed = {}
    /\ root   = [s \in Switches |-> Nothing]
    /\ cycles = 0
    /\ seen   = [x \in {} |-> 0]
    /\ past   = <<>>
    /\ beat = FALSE /\ restarts = 0

Next == Scan \/ Restart \/ \E a \in Alarms : ManualClear(a)

\* periodic_scan runs for as long as the service does
Spec     == Init /\ [][Next]_vars
FairSpec == Spec /\ WF_vars(Scan)

-----------------------------------------------------------------------------
(* Properties *)

\* the shape of the detectors' memory; no age outgrows its window
TypeOK ==
    /\ family \in Families /\ input \in Inputs(family)
    /\ active \subseteq Alarms /\ critical \in BOOLEAN
    /\ saved \in [Switches -> Trees \cup {Nothing}]
    /\ misses \in [Switches -> 0..SwitchDownAfter]
    /\ streak \in [Switches -> 0..StaleScans]
    /\ listed \subseteq Switches
    /\ root \in [Switches -> Roots \cup {Nothing}]
    /\ cycles \in 0..2
    /\ DOMAIN seen \subseteq Copies \cup {Bridge}
    /\ \A x \in DOMAIN seen : seen[x] \in 0..Window
    /\ Len(past) <= Depth /\ beat \in BOOLEAN /\ restarts \in 0..MaxRestarts

Scans(n)       == 1..AtMost(n, Len(past))
FoundWithin(n) == UNION {past[j].found : j \in Scans(n)}

\* s failed its last two polls, scans that ran out of budget not counted (the
\* first of the two may lie beyond the history)
TwiceSilent(s) ==
    /\ past[1].kinds[s] = "silent"
    /\ \/ \E j \in 2..Len(past) :
            /\ past[j].kinds[s] = "silent"
            /\ \A k \in 2..(j - 1) : past[k].kinds[s] = "partial"
       \/ /\ Len(past) = Depth
          /\ \A k \in 2..Depth : past[k].kinds[s] = "partial"

NeverFinished(s) == /\ Len(past) >= StaleScans
                    /\ \A j \in Scans(StaleScans) : past[j].kinds[s] = "partial"

\* what the scans since the start have to show for an alarm to be raised
Backed(a) ==
    /\ a = Fragmented => Len(past) >= 2 /\ past[1].split /\ past[2].split
    /\ a = Corruption =>
          Cardinality(FoundWithin(Window + 1)) >= CopiesThreshold
    /\ a = Bridge => past[1].sight = "access"
    /\ a[1] = "switch_down"  => TwiceSilent(a[2])
    /\ a[1] = "switch_stale" => NeverFinished(a[2])
    /\ a[1] \in {"stp_root_changed", "stp_topology_change"} =>
          Kind(input, a[2]) = "full"

\* Every alarm is raised on the evidence its rule names, all of it collected
\* since the service started: two polls missed in a row, a budget missed
\* stale_switch_scans times running, two scans that both saw two trees, copies
\* inside one flap window, a reading made in this very scan.
RaisedOnEvidence ==
    [][\A a \in active' \ active : Backed(a)']_vars

\* what the scans have to show for an alarm to be cleared by one of them
Refuted(a) ==
    /\ a = Fragmented => ~past[1].split
    /\ a = Corruption =>
          past[1].found \subseteq
              UNION {past[j].found : j \in Scans(Window + 2) \ {1}}
    /\ a = Bridge => \/ past[1].sight = "suppressed"
                     \/ \A j \in Scans(Window + 1) : past[j].sight # "access"
    /\ a[1] = "switch_down"  => past[1].kinds[a[2]] = "full"
    /\ a[1] = "switch_stale" => past[1].kinds[a[2]] # "partial"

\* No scan closes an alarm without a reason in what it collected: a poll past
\* its budget does not say that a switch is up, a bridge seen inside the flap
\* window is not gone, a port with a new damaged copy is not quiet.
ClearedOnEvidence ==
    [][Scan => \A a \in active \ active' : Refuted(a)']_vars

InFamily(f, P) == family = f /\ P

\* A condition that lasts is alarmed on again and again, whatever the
\* operator clears by hand and however the service is restarted.
PersistentIsAlarmed ==
    /\ \A s \in Switches :
         /\ <>[]InFamily("polls", Kind(input, s) = "silent")
               => []<>(<<"switch_down", s>> \in active)
         /\ <>[]InFamily("polls", Kind(input, s) = "partial")
               => []<>(<<"switch_stale", s>> \in active)
    /\ <>[]Split(saved) => []<>(Fragmented \in active)
    /\ <>[](Cardinality(input.found) >= CopiesThreshold)
          => []<>(Corruption \in active)
    /\ <>[](input.sight = "access") => []<>(Bridge \in active)

Untouched == restarts = 0

\* The alarm of a condition that is over is closed for good: switch_down,
\* stp_root_changed, stp_fragmented and a bridge the configuration declares
\* known through any restart, the alarms that wait for a memory to run out
\* only in a service that has not been restarted.
OverIsCleared ==
    /\ \A s \in Switches :
         /\ <>[]InFamily("polls", Kind(input, s) = "full")
               => <>[](<<"switch_down", s>> \notin active)
         /\ <>[]InFamily("polls", Kind(input, s) # "partial" /\ Untouched)
               => <>[](<<"switch_stale", s>> \notin active)
         /\ \A r \in Roots :
              <>[](Kind(input, s) = "full" /\ input.answer[s].tree = r)
                 => <>[](<<"stp_root_changed", s>> \notin active)
    /\ <>[](~Split(saved)) => <>[](Fragmented \notin active)
    /\ <>[](input.found = {} /\ Untouched) => <>[](Corruption \notin active)
    /\ <>[](input.sight = "suppressed") => <>[](Bridge \notin active)
    /\ <>[](input.sight # "access" /\ Untouched) => <>[](Bridge \notin active)

\* No scan alarm comes or goes without its evidence, whatever the scans, the
\* operator and the restarts bring, and the detectors' memory keeps its bounds.
AlarmsFollowEvidence == []TypeOK /\ RaisedOnEvidence /\ ClearedOnEvidence
=============================================================================
