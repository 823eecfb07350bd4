------------------------------ MODULE Readings ------------------------------
(***************************************************************************)
(* Four modules side by side: flap damping, the counters, the collector    *)
(* and the alarms of ports.  `subject' says which of them a behaviour is   *)
(* about; the others stay as they began, for they share no state that the  *)
(* properties are about.                                                   *)
(***************************************************************************)
EXTENDS Naturals, Sequences, FiniteSets

CONSTANTS
    Speed, Loads, Percent, Cycles, Wrap, MaxGap, Limit,     \* CounterRates
    Keys, PingKeys, Configs, PingTargets, MaxAge,           \* FlapDamping
    Agents, Tables(_), RetriesOnBreak, Strikes, Cooldown,   \* Collector
    Rules, Members, Window, Threshold, FlapHistory,
    JanitorCycles                                           \* PortRules

VARIABLES
    subject,
    total, last, age, carried, restarted, rate, over, under, raised, points, beat,
    cfg, up, raises, muted, quietFor, lastSent, evaluated, swept, ending,
    pending, heard, told,
    agent, job, todo, walk, got, status, dead, data, samples, silence, unasked,
    rule, scanned, present, open, missing, link, tracker, seen, sample, since,
    above, below, past, gone, lost, parity

CR == INSTANCE CounterRates
FD == INSTANCE FlapDamping
CO == INSTANCE Collector
PR == INSTANCE PortRules WITH agent <- link, over <- above, under <- below,
                              absent <- gone, beat <- parity

ASSUME ReadingsAssumption ==
    /\ CR!RatesAssumption /\ FD!DampingAssumption /\ CO!CollectorAssumption
    /\ PR!PortRulesAssumption

ratesVars == <<total, last, age, carried, restarted, rate, over, under, raised,
               points, beat>>
flapVars  == <<cfg, up, raises, muted, quietFor, lastSent, evaluated, swept,
               ending, pending, heard, told>>
walkVars  == <<agent, job, todo, walk, got, status, dead, data, samples,
               silence, unasked>>
portVars  == <<rule, scanned, present, open, missing, link, tracker, seen,
               sample, since, above, below, past, gone, lost, parity>>
readingVars == <<subject, ratesVars, flapVars, walkVars, portVars>>

ReadingsInit ==
    /\ subject \in {"rates", "flap", "collector", "ports"}
    /\ CR!Init /\ FD!Init /\ CO!Init /\ PR!Init

OnlyReading(p) ==
    /\ subject = p /\ subject' = subject
    /\ p # "rates" => UNCHANGED ratesVars
    /\ p # "flap" => UNCHANGED flapVars
    /\ p # "collector" => UNCHANGED walkVars
    /\ p # "ports" => UNCHANGED portVars

Rates    == OnlyReading("rates") /\ CR!Next
Flapping == OnlyReading("flap") /\ FD!Next
Collects == OnlyReading("collector") /\ CO!Next
Polls    == OnlyReading("ports") /\ PR!Next

ReadingsNext == Rates \/ Flapping \/ Collects \/ Polls

PollsFairness == WF_readingVars(OnlyReading("ports") /\ PR!RunCounters)

\* the fairness of each part: see Fairness of its module
ReadingsFairness ==
    /\ WF_readingVars(OnlyReading("rates") /\ CR!Cycle)
    /\ WF_readingVars(OnlyReading("flap") /\ FD!Sweep)
    /\ WF_readingVars(OnlyReading("flap") /\ FD!Tick)
    /\ \A c \in FD!Coroutines : WF_readingVars(OnlyReading("flap") /\ FD!Deliver(c))
    /\ \A k \in Keys : WF_readingVars(OnlyReading("flap") /\ FD!SweepOn(k))
    /\ SF_readingVars(OnlyReading("collector") /\ CO!BeginScan)
    /\ WF_readingVars(OnlyReading("collector") /\ CO!Work)
    /\ PollsFairness

ReadingsSpec == ReadingsInit /\ [][ReadingsNext]_readingVars /\ ReadingsFairness

----------------------------------------------------------------------------
(* Properties *)

\* FlapDamping: at most count - 1 raises are heard in a window, a mute and its
\* end are announced, nobody is left with a raise that is over, and nothing of a
\* muted alarm is sent but the notice of its end.
MutesAreTold ==
    /\ [](FD!RaiseBudget /\ FD!MuteAnnounced /\ FD!ClearIsHeard /\ FD!EndIsHeard)
    /\ FD!SilentWhileMuted

\* FlapDamping: an alarm that stays quiet is not muted for ever.
MuteEnds == FD!MuteEnds

\* CounterRates: port_util is raised and cleared only on intervals whose
\* traffic really was that high or that low.
RatesAreTrue == CR!RaisedOnLoad /\ CR!ClearedOnQuiet

\* CounterRates: lasting load is alarmed on again and again, lasting quiet
\* closes the alarm for good.
LoadIsAnswered == subject = "rates" => CR!LoadIsAlarmed /\ CR!QuietIsCleared

\* Collector: every row of a table is read once and in order, and a table is
\* left alone only while its agent was silent.
WalksAreRead == CO!ReadOnce /\ CO!PausedForSilence

\* Collector: what the reading makes of the tables - which ports are one trunk,
\* which address is at which port, which column a sample is from.
TablesAreTrue == CO!CablesKeptApart /\ CO!SamplesAreTrue

\* Collector: a table the agent answers again is read again.
LearnsAgain == subject = "collector" => CO!LearnsAgain

\* PortRules: no alarm of a port or a LAG comes or goes without its evidence,
\* and no rule remembers more than its bound.
AlarmsFollowPolls == PR!AlarmsFollowPolls

\* PortRules: an alarm whose cause is over, or whose subject is gone, ends.
OverIsCleared == subject = "ports" => PR!OverIsCleared
=============================================================================
