------------------------------ MODULE PortRules ------------------------------
(***************************************************************************)
(* The alarms of the counters cycle on one subject, a port or a LAG:       *)
(* run_counters and what it calls in moonlan/server.py, the flap tracker   *)
(* of moonlan/counters.py, and the rules and the janitor of                *)
(* moonlan/alarms.py.  CounterRates has the utilization of a single port.  *)
(*                                                                         *)
(* Each behaviour is about one type of alarm, chosen in Init.  Time is     *)
(* counted in counters intervals; the two members of a LAG have links of   *)
(* the same speed.                                                         *)
(***************************************************************************)
EXTENDS Naturals, Sequences, FiniteSets, Functions

CONSTANTS
    Rules,         \* the types of alarm this instance looks at
    Members,       \* the ports of the LAG
    Window,        \* thresholds.flap_window_minutes
    Threshold,     \* thresholds.flaps_per_window
    FlapHistory,   \* FLAP_HISTORY
    Cycles,        \* thresholds.port_alarm_cycles
    JanitorCycles, \* JANITOR_CYCLES
    MaxGap         \* bound: cycles in a row that do not read the port

AllRules == {"port_flapping", "lag_degraded", "port_util", "port_errors",
             "loop_detected"}
JanitorTypes == AllRules \ {"loop_detected"}

PortRulesAssumption ==
    /\ Rules \subseteq AllRules /\ IsFiniteSet(Members)
    /\ Window \in Nat /\ MaxGap \in Nat
    /\ {Threshold, Cycles, JanitorCycles, FlapHistory} \subseteq Nat \ {0}
    /\ Threshold <= FlapHistory

VARIABLES
    rule,     \* the alarm this behaviour is about
    scanned,  \* switch_data has been filled since the service started
    present,  \* ... and has the subject in it
    open,     \* the alarm is active
    missing,  \* _missing of the janitor
    agent,    \* the port's link and the agent's clock
    tracker,  \* FlapTracker, of this port
    seen,     \* members whose oper_up in switch_data is true
    sample,   \* columns of the last sample in the counter store
    since,    \* kinds of traffic since that sample
    over,     \* _over or _lag_over
    under,    \* _under
    past,     \* history: what the last intervals or verdicts were about
    absent,   \* history: cycles in a row without the subject
    lost,     \* history: the tracker has lost the transitions of the alarm
    beat      \* parity of the cycles: one that finds nothing new is a step

memory  == <<tracker, seen, sample, over, under>>
vars == <<rule, scanned, present, open, missing, agent, memory, since, past,
          absent, lost, beat>>

AtMost(n, bound) == IF n < bound THEN n ELSE bound
Latest(seq, n)   == SubSeq(seq, 1, AtMost(Len(seq), n))
All(seq, test(_)) == \A j \in DOMAIN seq : test(seq[j])

-----------------------------------------------------------------------------
(* janitor, at the end of the cycle: see Poll *)

\* cycles in a row the janitor has missed the subject of an open alarm
Missed == IF present THEN 0 ELSE missing + 1

Gone == rule \in JanitorTypes /\ open /\ ~present /\ Missed >= JanitorCycles

\* the janitor has the last word on an alarm its cycle left open
Becomes(isOpen) == open' = (isOpen /\ ~Gone)
Stays == Becomes(open)

\* no verdict on the subject in this cycle
Nothing == Stays /\ UNCHANGED <<over, under, past>>

-----------------------------------------------------------------------------
(* Link transitions: FlapTracker.update, _check_flaps and on_flaps *)

NoTracker == [known |-> FALSE, zero |-> FALSE, tracked |-> FALSE, events |-> <<>>]

FlapInputs == [flips : 0..2, reboot : BOOLEAN,
               poll : {"none", "others", "read"}]

\* the agent since the tracker read it: a restart sets its clock, and with it
\* ifLastChange, to zero; odd says that the status is not the one read
Moved(i) ==
    [odd      |-> agent.odd # (i.flips = 1),
     zero     |-> (agent.zero \/ i.reboot) /\ i.flips = 0,
     rebooted |-> agent.rebooted \/ i.reboot,
     changed  |-> (agent.changed /\ ~i.reboot) \/ i.flips > 0,
     unread   |-> agent.unread + 1]

\* how ifLastChange compares with the last one read
Compared(a) ==
    CASE ~a.rebooted /\ ~a.changed -> {"same"}
      [] ~a.rebooted /\ a.changed  -> {"later"}
      [] a.rebooted /\ ~a.changed  -> {IF tracker.zero THEN "same" ELSE "earlier"}
      [] a.rebooted /\ a.changed   -> IF tracker.zero THEN {"later"}
                                      ELSE {"same", "earlier", "later"}

\* (mutant: a moved ifLastChange is two transitions whatever the status says)
TransitionsTwice(odd, stamp) ==
    CASE stamp = "later" -> 2
      [] stamp = "same"  -> IF odd THEN 1 ELSE 0
      [] OTHER           -> 0

\* ifLastChange moved and the status did not: down and up again unseen
Transitions(odd, stamp) ==
    CASE stamp = "later" -> IF odd THEN 1 ELSE 2
      [] stamp = "same"  -> IF odd THEN 1 ELSE 0
      [] OTHER           -> 0

\* one interval later; newest first: what is older than the window is dropped
\* from the end
Aged(events) ==
    [j \in 1..Cardinality({k \in DOMAIN events : events[k] < Window}) |->
        events[j] + 1]

\* (mutant: the deque grows)
RecordedAll(n, events) == [j \in 1..n |-> 0] \o events

\* newest first; the deque forgets its oldest entries
Recorded(n, events) == Latest([j \in 1..n |-> 0] \o events, FlapHistory)

Tracked(a, stamp) ==
    LET older == Aged(tracker.events)
        n     == Transitions(a.odd, stamp)
        base  == [tracker EXCEPT !.known = TRUE, !.zero = a.zero]
    IN IF ~tracker.known THEN base
       ELSE IF stamp = "earlier"
            THEN [base EXCEPT !.tracked = FALSE, !.events = <<>>]
            ELSE [base EXCEPT !.tracked = @ \/ n > 0,
                              !.events  = Recorded(n, older)]

\* (mutant: a port whose window is empty is not reported on)
ReportedBusy == tracker'.events # <<>> /\ present

\* a port the tracker has ever counted a transition of
Reported == tracker'.tracked /\ present

Flaps == Len(tracker'.events)

\* the alarm of a port the tracker reports on
OnFlaps ==
    Becomes(\/ Reported /\ Flaps >= Threshold
            \/ open /\ ~(Reported /\ Flaps = 0))

CheckFlaps(i) ==
    LET a == Moved(i)
    IN /\ i.poll # "read" => agent.unread < MaxGap
       /\ IF i.poll = "read"
          THEN \E stamp \in Compared(a) :
                 /\ tracker' = Tracked(a, stamp)
                 /\ lost' = ((lost \/ stamp = "earlier") /\ tracker'.events = <<>>)
          ELSE /\ tracker' = [tracker EXCEPT !.events = Aged(@)]
               /\ UNCHANGED lost
       /\ agent' = IF i.poll = "read"
                   THEN [a EXCEPT !.odd = FALSE, !.rebooted = FALSE,
                                  !.changed = FALSE, !.unread = 0]
                   ELSE a
       /\ IF i.poll = "none" THEN Stays ELSE OnFlaps
       /\ past' = Latest(<<[flips |-> i.flips,
                            plain |-> i.poll = "read" /\ ~a.rebooted]>> \o past,
                         Window + MaxGap + 1)
       /\ UNCHANGED <<seen, sample, since, over, under>>

-----------------------------------------------------------------------------
(* The members of a LAG: _port_metrics, _lag_rule and the utilization rule *)

\* what one interval and its poll say of the members: who is up and loaded,
\* whose status was read, and what is known of a member's rate; "none" is no
\* rate point at all (no earlier sample, or an implausible one)
LagInputs ==
    {i \in [up : SUBSET Members, loaded : SUBSET Members, read : SUBSET Members,
            rates : [Members -> {"known", "unknown", "none"}]] :
        i.loaded \subseteq i.up}

\* the rates do not matter to lag_degraded
LinkInputs ==
    {i \in LagInputs : i.loaded = {} /\ \A m \in Members : i.rates[m] = "known"}

\* oper_up of the members of this cycle's poll is fresh, the rest is kept
SeenNow(i) == (seen \ i.read) \cup (i.up \cap i.read)
Stale(i)   == SeenNow(i) # i.up

LagRule(i) ==
    LET down == SeenNow(i) # Members
    IN /\ over' = IF down THEN AtMost(over + 1, Cycles) ELSE 0
       /\ Becomes(down /\ (open \/ over' >= Cycles))
       /\ past' = Latest(<<[mayRaise |-> i.up # Members \/ Stale(i),
                            mayClear |-> i.up = Members \/ Stale(i)]>> \o past,
                         Cycles)
       /\ UNCHANGED under

\* (mutant: a member whose column is unknown is summed as zero)
LagRateZero(i) == IF SeenNow(i) = {} THEN {}
                  ELSE {Cardinality({m \in i.loaded : i.rates[m] = "known"})}

\* _sum_known over the members that have a rate point: the total, or nothing.
\* A member without a point is left out of the sum.
LagRate(i) ==
    IF (\E m \in Members : i.rates[m] = "unknown") \/ SeenNow(i) = {} THEN {}
    ELSE {Cardinality({m \in i.loaded : i.rates[m] = "known"})}

\* half of what the members up can carry
LagOver(load, up) == 2 * load > Cardinality(up)

\* _hysteresis
Hysteresis(high, truth) ==
    /\ over'  = IF high THEN AtMost(over + 1, Cycles) ELSE 0
    /\ under' = IF high THEN 0 ELSE AtMost(under + 1, Cycles)
    /\ Becomes(over' >= Cycles \/ (open /\ under' < Cycles))
    /\ past'  = Latest(<<truth>> \o past, Cycles)

LagUtilRule(i) ==
    LET high    == LagOver(Cardinality(i.loaded), i.up)
        partial == \E m \in Members : i.rates[m] = "none"
    IN IF LagRate(i) = {} THEN Nothing
       ELSE \E load \in LagRate(i) :
              Hysteresis(LagOver(load, SeenNow(i)),
                         [mayRaise |-> high \/ Stale(i),
                          mayClear |-> ~high \/ partial \/ Stale(i)])

\* a poll that returned no sample at all leaves the switch for the next cycle
LagCycle(i) ==
    /\ IF i.read = {} THEN Nothing /\ UNCHANGED seen
       ELSE /\ seen' = SeenNow(i)
            /\ IF ~present THEN Nothing
               ELSE IF rule = "lag_degraded" THEN LagRule(i) ELSE LagUtilRule(i)
    /\ UNCHANGED <<agent, tracker, sample, since, lost>>

-----------------------------------------------------------------------------
(* Damaged frames: _error_rule over the error and packet counters *)

\* "busy" has errors over the threshold in a small share of its frames, "dead"
\* carries damaged frames only
NoSample == {"none"}
Missing  == {"missed"}
Traffic  == {"clean", "busy", "faulty", "dead"}
ErrorInputs == [traffic : Traffic, reset : BOOLEAN,
                poll : {Missing, {"errors"}, {"packets"}, {"errors", "packets"}}]

\* both samples have the column: _counter_delta and _error_ratio have a value
Known(column, i) ==
    sample # NoSample /\ column \in sample /\ column \in i.poll

\* what the frames since the last sample may look like on average
Interval(i) ==
    LET kinds == since \cup {i.traffic}
    IN IF i.reset \/ "reset" \in since THEN {"reset"}
       ELSE IF Cardinality(kinds) = 1 THEN kinds
       ELSE {"busy", "faulty"} \cup (kinds \cap {"clean"})

\* the rate is over the threshold and so is the share, where one is known: not
\* on a port without a packet counter, nor where no good frame was counted
ErrorsOver(kind, i) == kind # "clean" /\ (kind = "busy" => ~Known("packets", i))

\* a counter that went down has no rate; one that was reset and has passed its
\* old value again shows any rate at all
ErrorRule(i) ==
    IF ~Known("errors", i) THEN Nothing
    ELSE IF Interval(i) = {"reset"}
       THEN \/ Nothing
            \/ \E high \in BOOLEAN :
                 Hysteresis(high, [mayRaise |-> TRUE, mayClear |-> TRUE])
       ELSE \E kind \in Interval(i) :
              Hysteresis(ErrorsOver(kind, i),
                         [mayRaise |-> kind \in {"faulty", "dead"}
                                       \/ (kind = "busy" /\ "packets" \notin i.poll \cap sample),
                          mayClear |-> kind \in {"clean", "busy"}])

\* since is never emptied before a first sample: nothing is compared with it
ErrorCycle(i) ==
    /\ IF i.poll = Missing
       THEN /\ since' = IF sample = NoSample THEN {} ELSE Interval(i)
            /\ Nothing /\ UNCHANGED sample
       ELSE /\ since' = {} /\ sample' = i.poll
            /\ IF present THEN ErrorRule(i)
               ELSE Nothing
    /\ UNCHANGED <<agent, tracker, seen, lost>>

-----------------------------------------------------------------------------
(* A switch's own loop detection: on_loop_detection *)

Tri == {"yes", "no", "unknown"}
LoopInputs == [supported : BOOLEAN, watched : Tri, looped : Tri]

\* a port that is not watched or whose status did not arrive says nothing, nor
\* does a row the interface table has no port for
LoopSpeaks(i) ==
    i.supported /\ present /\ i.looped # "unknown" /\ i.watched # "no"

LoopCycle(i) ==
    /\ IF LoopSpeaks(i) THEN Becomes(i.looped = "yes") ELSE Stays
    /\ past' = <<[mayRaise |-> i.looped = "yes",
                  mayClear |-> i.looped = "no" /\ i.watched # "no"]>>
    /\ UNCHANGED <<agent, tracker, seen, sample, since, over, under, lost>>

-----------------------------------------------------------------------------
(* run_counters *)

Inputs == CASE rule = "port_flapping" -> FlapInputs
          []  rule = "lag_degraded" -> LinkInputs
          []  rule = "port_util" -> LagInputs
          []  rule = "port_errors" -> ErrorInputs
          []  rule = "loop_detected" -> LoopInputs

\* what this cycle's rules make of open, before the janitor looks at it
Judge(i) ==
    CASE rule = "port_flapping" -> CheckFlaps(i)
      [] rule \in {"lag_degraded", "port_util"} -> LagCycle(i)
      [] rule = "port_errors" -> ErrorCycle(i)
      [] rule = "loop_detected" -> LoopCycle(i)

\* a switch that is not in switch_data is not judged; the alarm of a subject
\* that is gone is left to the janitor
Poll(i) ==
    /\ scanned
    /\ Judge(i)
    /\ missing' = CASE rule \in JanitorTypes /\ Gone   -> 0
                    [] rule \in JanitorTypes /\ open'  -> Missed
                    [] OTHER                           -> missing
    /\ absent' = IF present THEN 0 ELSE AtMost(absent + 1, JanitorCycles)
    /\ beat' = ~beat
    /\ UNCHANGED <<rule, scanned, present>>

RunCounters == \E i \in Inputs : Poll(i)

-----------------------------------------------------------------------------
(* What happens to the subject between two counters cycles *)

\* run_scan publishes new switch data, with the subject in it or without
RunScan ==
    /\ scanned' = TRUE /\ present' \in BOOLEAN
    /\ <<scanned, present>>' # <<scanned, present>>
    /\ seen' \in SUBSET Members
    /\ rule \notin {"lag_degraded", "port_util"} => seen' = seen
    /\ UNCHANGED <<rule, open, missing, agent, tracker, sample, since, over,
                   under, past, absent, lost, beat>>

ManualClear ==
    /\ open
    /\ open' = FALSE /\ missing' = 0
    /\ UNCHANGED <<rule, scanned, present, agent, memory, since, past, absent,
                   lost, beat>>

\* the service starts again: load() brings the alarm back, and nothing else
Restart ==
    /\ scanned' = FALSE /\ present' = FALSE
    /\ missing' = 0 /\ over' = 0 /\ under' = 0 /\ absent' = 0
    /\ tracker' = NoTracker /\ sample' = NoSample /\ since' = {}
    /\ past' = IF rule = "port_flapping" THEN past ELSE <<>>
    /\ lost' = (rule = "port_flapping")
    /\ UNCHANGED <<rule, open, agent, seen, beat>>

Init ==
    /\ rule \in Rules
    /\ scanned = FALSE /\ present = FALSE /\ open = FALSE /\ missing = 0
    /\ agent = [odd |-> FALSE, zero |-> TRUE, rebooted |-> FALSE,
                changed |-> FALSE, unread |-> 0]
    /\ tracker = NoTracker /\ seen = Members
    /\ sample = NoSample /\ since = {} /\ over = 0 /\ under = 0
    /\ past = <<>> /\ absent = 0 /\ lost = FALSE /\ beat = FALSE

Next == RunCounters \/ RunScan \/ ManualClear \/ Restart

\* periodic_counters runs for as long as the service does
Spec     == Init /\ [][Next]_vars
FairSpec == Spec /\ WF_vars(RunCounters)

-----------------------------------------------------------------------------
(* Properties *)

\* the shape of the rules' memory, and what bounds it: no port has more
\* transitions than FLAP_HISTORY, none of them older than the window
TypeOK ==
    /\ rule \in Rules
    /\ {scanned, present, open, lost, beat, agent.odd, agent.zero} \subseteq BOOLEAN
    /\ missing \in 0..(JanitorCycles - 1) /\ absent \in 0..JanitorCycles
    /\ agent.unread \in 0..MaxGap
    /\ Len(tracker.events) <= FlapHistory
    /\ \A e \in Range(tracker.events) : e \in 0..Window
    /\ tracker.events # <<>> => tracker.tracked /\ tracker.known
    /\ seen \subseteq Members
    /\ sample \in {NoSample} \cup SUBSET {"errors", "packets"}
    /\ over \in 0..Cycles /\ under \in 0..Cycles
    /\ over = 0 \/ under = 0
    /\ Len(past) <= Window + MaxGap + 1 + Cycles

Row(seq, test(_)) == Len(seq) = Cycles /\ All(seq, test)
LoudPoint(t)  == t.mayRaise
QuietPoint(t) == t.mayClear

\* the transitions of the intervals, each once
Steps(seq)   == {s \in (1..Len(seq)) \X (1..2) : s[2] <= seq[s[1]].flips}
FlipsOf(seq) == Cardinality(Steps(seq))

Loud == CASE rule = "port_flapping" -> FlipsOf(past) >= Threshold
        []  rule = "loop_detected"  -> All(past, LoudPoint)
        []  OTHER                   -> Row(past, LoudPoint)

\* one interval with every member up is enough for a LAG
Quiet == CASE rule = "port_flapping" ->
                  \/ FlipsOf(Latest(past, Window + 1)) = 0
                  \/ \E j \in DOMAIN Latest(past, Window + 1) : ~past[j].plain
         []  rule = "port_util" \/ rule = "port_errors" -> Row(past, QuietPoint)
         []  OTHER -> past[1].mayClear

\* No rule raises an alarm of a port or a LAG unless what it stands for really
\* went on: as many transitions as the threshold within the window and the
\* cycles that did not read the port, a row of intervals that were over, a loop
\* the switch reports on a port it watches.
RaisedOnEvidence == [][open' /\ ~open => Loud']_vars

\* A cycle ends an alarm only when what it stands for is over, as far as the
\* cycle could read it, or when its subject has been missing for JANITOR_CYCLES
\* cycles in a row; and never ends loop_detected for being gone.
ClearedOnEvidence ==
    [][open /\ ~open' /\ RunCounters =>
         \/ present /\ Quiet'
         \/ rule \in JanitorTypes /\ absent' = JanitorCycles]_vars

\* a cycle that reads all there is to read, and finds nothing wrong
Calm(i) ==
    CASE rule = "port_flapping" -> i.flips = 0 /\ ~i.reboot /\ i.poll = "read"
      [] rule \in {"lag_degraded", "port_util"} ->
            i.up = Members /\ i.read = Members /\ i.loaded = {}
            /\ \A m \in Members : i.rates[m] # "unknown"
      [] rule = "port_errors" -> i.traffic = "clean" /\ "errors" \in i.poll /\ ~i.reset
      [] rule = "loop_detected" -> i.supported /\ i.watched = "yes" /\ i.looped = "no"

Well == present /\ (ManualClear \/ \E i \in {x \in Inputs : Calm(x)} : Poll(i))

\* An alarm ends once nothing is wrong any more and stays so; one whose subject
\* is gone for good ends too, but for a loop.  port_flapping has an exception:
\* after a start of the service, or of the agent's clock, the tracker has
\* nothing to say of the port until its link moves again.
OverIsCleared ==
    /\ <>[][Well]_vars /\ <>[]present => <>[](open => lost)
    /\ <>[](scanned /\ ~present) => <>[](open => rule \notin JanitorTypes)

\* No alarm of a port or a LAG comes or goes without its evidence, and no rule
\* remembers more than its bound.
AlarmsFollowPolls == []TypeOK /\ RaisedOnEvidence /\ ClearedOnEvidence
=============================================================================
