---------------------------- MODULE CounterRates ----------------------------
(***************************************************************************)
(* From the octet counter of a port to its port_util alarm: the samples    *)
(* moonlan/counters.py takes in every counters cycle, the rate             *)
(* CounterStore.update makes of two of them, and the hysteresis of         *)
(* moonlan/alarms.py over the rates.                                       *)
(*                                                                         *)
(* The agent counts octets in 64 bits; when the wide column does not       *)
(* answer for a port, its low 32 bits are read.  Time is counted in        *)
(* counters intervals and a rate in octets, so a link of Speed carries at  *)
(* most Speed octets in an interval.                                       *)
(***************************************************************************)
EXTENDS Naturals, Integers, Sequences

CONSTANTS
    Speed,     \* the link's speed, known and not zero
    Loads,     \* bound: what the link may carry in one interval
    Percent,   \* thresholds.port_utilization_percent
    Cycles,    \* thresholds.port_alarm_cycles
    Wrap,      \* 2^32
    MaxGap,    \* bound: intervals between two samples
    Limit      \* bound: a counter this high is taken back by one Wrap

\* far beyond Limit - Wrap a counter's distance from the last sample decides
\* alone: a 32-bit sample lies too far below for any plausible rate, a 64-bit
\* one too far above a 32-bit reading
RatesAssumption ==
    /\ Speed \in Nat \ {0} /\ Loads \subseteq 0..Speed
    /\ Percent \in 1..100 /\ Cycles \in Nat \ {0}
    /\ Wrap \in Nat \ {0} /\ MaxGap \in Nat \ {0}
    /\ Limit \in Nat /\ Limit >= 3 * Wrap + 2 * Speed * MaxGap

Unknown == -1                 \* None in the code

VARIABLES
    total,     \* octets the agent has counted
    last,      \* CounterStore._last: [octets, hc]
    age,       \* intervals since that sample, this one not counted
    carried,   \* octets the link has carried since then
    restarted, \* the agent has started again since then
    rate,      \* octets of the rate point of the last cycle, or Unknown
    over,      \* _over and _under of the alarm
    under,
    raised,    \* the alarm is open
    points,    \* history: what the last rate points should have said
    beat       \* parity of the cycles: one that finds nothing new is a step

hysteresis == <<over, under, raised>>
vars == <<total, last, age, carried, restarted, rate, hysteresis, points, beat>>

AtMost(n, bound) == IF n < bound THEN n ELSE bound

\* what a counters cycle finds: the interval's load, whether the agent started
\* again, which column answered for the port, and whether another column of
\* the port is implausible
Inputs == [load : Loads, reboot : BOOLEAN,
           read : {"missed", "empty", "hc", "c32"}, spoiled : BOOLEAN]

-----------------------------------------------------------------------------
(* The agent *)

Counted(i) == IF i.reboot THEN i.load ELSE total + i.load
Excess(i)  == IF Counted(i) >= Limit THEN Wrap ELSE 0
Total(i)   == Counted(i) - Excess(i)

\* what the poll reads: the wide column, the low 32 bits, or neither
Reading(i) == CASE i.read = "hc"    -> Total(i)
                []  i.read = "c32"   -> Total(i) % Wrap
                []  i.read = "empty" -> Unknown

\* the sample before this one, in the terms of Total
Previous(i) == IF last.hc /\ last.octets # Unknown
               THEN last.octets - Excess(i) ELSE last.octets

-----------------------------------------------------------------------------
(* CounterStore.update *)

\* (mutant: a counter that went down has carried nothing)
OctetDeltaZero(prev, cur, hc) ==
    IF prev = Unknown \/ cur = Unknown THEN Unknown
    ELSE IF cur >= prev THEN cur - prev ELSE 0

\* (mutant: a counter that stands still is taken for one that was reset)
OctetDeltaPositive(prev, cur, hc) ==
    IF prev = Unknown \/ cur = Unknown THEN Unknown
    ELSE IF cur > prev THEN cur - prev
    ELSE IF ~hc /\ cur + Wrap > prev /\ cur # prev THEN cur + Wrap - prev
    ELSE Unknown

\* _octet_delta: a 32-bit counter that went down has wrapped once
OctetDelta(prev, cur, hc) ==
    IF prev = Unknown \/ cur = Unknown THEN Unknown
    ELSE IF cur >= prev THEN cur - prev
    ELSE IF ~hc /\ cur + Wrap >= prev THEN cur + Wrap - prev
    ELSE Unknown

\* (mutant: nothing is implausible)
ImplausibleNever(delta, dt) == FALSE

\* above 1.2 times the link's speed
Implausible(delta, dt) == delta * 10 > 12 * Speed * dt

\* (mutant: a rate is per interval, however long ago the last sample was)
ElapsedOne == 1

Elapsed == age + 1

Rate(i) ==
    LET delta == OctetDelta(Previous(i), Reading(i), i.read = "hc")
    IN IF i.spoiled \/ Implausible(delta, Elapsed) THEN Unknown ELSE delta

-----------------------------------------------------------------------------
(* on_counters and _hysteresis *)

IsOver(octets, dt) == octets * 100 > Percent * Speed * dt

\* (mutant: a rate over the threshold does not end the row of quiet ones)
JudgeSticky(octets) ==
    LET high == IsOver(octets, Elapsed)
    IN /\ over'  = IF high THEN AtMost(over + 1, Cycles) ELSE 0
       /\ under' = IF high THEN under ELSE AtMost(under + 1, Cycles)
       /\ raised' = (over' >= Cycles \/ (raised /\ under' < Cycles))

\* a rate that is not known counts in neither row
Judge(octets) ==
    LET high == IsOver(octets, Elapsed)
    IN /\ over'  = IF high THEN AtMost(over + 1, Cycles) ELSE 0
       /\ under' = IF high THEN 0 ELSE AtMost(under + 1, Cycles)
       /\ raised' = (over' >= Cycles \/ (raised /\ under' < Cycles))

-----------------------------------------------------------------------------

\* history: what a rate point may say of the interval behind it.  A 32-bit
\* counter that started again, and a wide one that comes back past 2^32, show
\* octets nobody sent; a counter that started again or wrapped twice hides some.
Truth(i) ==
    LET sent     == carried + i.load
        reset    == restarted \/ i.reboot
        inflated == \/ reset /\ i.read = "c32"
                    \/ i.read = "hc" /\ ~last.hc /\ Total(i) >= Wrap
        hidden   == reset \/ (i.read = "c32" /\ sent >= Wrap)
    IN [mayRaise |-> IsOver(sent, age + 1) \/ inflated,
        mayClear |-> ~IsOver(sent, age + 1) \/ hidden]

\* the cycle skips the switch, or the poll returned nothing for the port
Miss(i) ==
    /\ i.read = "missed" /\ ~i.spoiled
    /\ age + 1 < MaxGap \/ last.octets = Unknown
    /\ last' = [last EXCEPT !.octets = Previous(i)]
    /\ IF last.octets = Unknown THEN UNCHANGED <<age, carried, restarted>>
       ELSE /\ age' = age + 1 /\ carried' = carried + i.load
            /\ restarted' = (restarted \/ i.reboot)
    /\ rate' = Unknown
    /\ UNCHANGED <<hysteresis, points>>

\* the sample becomes the baseline whatever becomes of the rate
Take(i) ==
    /\ i.read # "missed"
    /\ last' = [octets |-> Reading(i), hc |-> i.read # "c32"]
    /\ age' = 0 /\ carried' = 0 /\ restarted' = FALSE
    /\ rate' = Rate(i)
    /\ IF Rate(i) = Unknown THEN UNCHANGED <<hysteresis, points>>
       ELSE /\ Judge(Rate(i))
            /\ points' = <<Truth(i)>>
                           \o SubSeq(points, 1, AtMost(Len(points), Cycles - 1))

Poll(i) == /\ Miss(i) \/ Take(i)
           /\ total' = Total(i)
           /\ beat' = ~beat

Cycle == \E i \in Inputs : Poll(i)

\* the detectors' memory does not hear of a manual clear
ManualClear ==
    /\ raised /\ raised' = FALSE
    /\ UNCHANGED <<total, last, age, carried, restarted, rate, over, under,
                   points, beat>>

NoSample == [octets |-> Unknown, hc |-> TRUE]

\* the service starts again: load() brings the alarm back
Restart ==
    /\ last' = NoSample
    /\ age' = 0 /\ carried' = 0 /\ restarted' = FALSE
    /\ rate' = Unknown
    /\ over' = 0 /\ under' = 0 /\ points' = <<>>
    /\ UNCHANGED <<total, raised, beat>>

Init ==
    /\ total = 0
    /\ last = NoSample
    /\ age = 0 /\ carried = 0 /\ restarted = FALSE
    /\ rate = Unknown
    /\ over = 0 /\ under = 0 /\ raised = FALSE
    /\ points = <<>> /\ beat = FALSE

Next == Cycle \/ ManualClear \/ Restart

\* periodic_counters runs for as long as the service does
Spec     == Init /\ [][Next]_vars
FairSpec == Spec /\ WF_vars(Cycle)

-----------------------------------------------------------------------------
(* Properties *)

\* the shape of the store; no rate is above 1.2 times the link's speed
TypeOK ==
    /\ total \in 0..(Limit - 1)
    /\ last.octets \in {Unknown} \cup 0..(Limit - 1) /\ last.hc \in BOOLEAN
    /\ age \in 0..(MaxGap - 1) /\ carried \in 0..(Speed * MaxGap)
    /\ restarted \in BOOLEAN
    /\ rate = Unknown \/ rate \in 0..((12 * Speed * MaxGap) \div 10)
    /\ over \in 0..Cycles /\ under \in 0..Cycles
    /\ over = 0 \/ under = 0
    /\ raised \in BOOLEAN /\ beat \in BOOLEAN
    /\ Len(points) <= Cycles

Row(test(_)) == Len(points) = Cycles /\ \A j \in 1..Cycles : test(points[j])
LoudPoint(t)  == t.mayRaise
QuietPoint(t) == t.mayClear

\* port_util is raised only after port_alarm_cycles measured intervals in a row
\* whose traffic really was over the threshold, however long they were, and
\* whatever wrapped, was missed or did not answer in between; but for the two
\* readings that show octets nobody sent.
RaisedOnLoad == [][raised' /\ ~raised => Row(LoudPoint)']_vars

\* A cycle clears port_util only after port_alarm_cycles measured intervals in
\* a row that really were below, but for the two readings that hide octets.
ClearedOnQuiet ==
    [][Cycle /\ raised /\ ~raised' => Row(QuietPoint)']_vars

\* the same column answers in every cycle, and the link is as loaded each time
Steady(w, high) ==
    \/ \E i \in Inputs : /\ i.read = w /\ ~i.reboot /\ ~i.spoiled
                         /\ IsOver(i.load, 1) = high
                         /\ Poll(i)
    \/ ManualClear

\* A link that is loaded for good is alarmed on again and again, over the wraps
\* of a 32-bit counter and manual clears, as long as an interval's traffic is
\* less than 2^32 octets.
LoadIsAlarmed ==
    \A w \in {x \in {"hc", "c32"} : x = "c32" => Speed < Wrap} :
        <>[][Steady(w, TRUE)]_vars => []<>raised

\* The alarm of a link that is quiet for good is closed for good, also when the
\* service was restarted after it was raised.
QuietIsCleared ==
    \A w \in {"hc", "c32"} :
        <>[][Steady(w, FALSE)]_vars => <>[]~raised
=============================================================================
