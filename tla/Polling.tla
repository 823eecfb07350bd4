------------------------------ MODULE Polling ------------------------------
(***************************************************************************)
(* The polling loops of moonlan/server.py: the topology scan and the       *)
(* counters cycle, which want the same switches and take one lock per      *)
(* switch; the budget of a scan's poll and the wait of a counters poll;    *)
(* what a scan keeps of a switch that ran past its budget; and the sleep   *)
(* between two runs, which a changed interval cuts short.                  *)
(*                                                                         *)
(* An agent answers one request after another for as long as it likes, so  *)
(* nothing says that a scan's poll ends by itself: the budget ends it.  A  *)
(* counters poll has no budget of its own once it holds the lock; it is a  *)
(* fixed number of requests, each with a timeout, and ends.                *)
(***************************************************************************)
EXTENDS Naturals, FiniteSets

CONSTANTS
    Switches,      \* config.switches
    StaleScans,    \* config.stale_switch_scans
    Intervals      \* the intervals an administrator sets for the scan,
                   \* in clock steps; 0: only on request

ASSUME PollingAssumption ==
    /\ IsFiniteSet(Switches) /\ Switches # {}
    /\ StaleScans \in Nat \ {0}
    /\ Intervals \subseteq Nat /\ Intervals # {}
    /\ \E longest \in Intervals : \A i \in Intervals : i <= longest

VARIABLES
    stage,      \* where the running scan is: "none", "polls", "arp", "work"
    runner,     \* whose scan it is: "loop" (periodic_scan) or "page"
    scanPoll,   \* a scan's poll of each switch
    ctrCycle,   \* is a counters cycle running
    ctrPoll,    \* a counters cycle's poll of each switch
    lock,       \* _host_locks: who holds the switch
    reading,    \* switch_data
    late,       \* history: polls past the budget since the last reading kept
    loop,       \* the scan loop: "running", or its sleep in progress
    interval,   \* config.scan_interval_minutes
    changed,    \* interval_changed["scan_interval_minutes"]
    saving      \* a changed interval is written and nobody is told yet

scans == <<stage, runner, scanPoll>>
cycles == <<ctrCycle, ctrPoll>>
conf  == <<interval, saving>>
vars  == <<stage, runner, scanPoll, ctrCycle, ctrPoll, lock, reading, late,
           loop, interval, changed, saving>>

Free == "free"
OnRequest == 0
Longest == CHOOSE i \in Intervals \cup {0} : \A j \in Intervals : j <= i

\* a poll of the scan: not started, queued for the lock, under way, or how
\* it ended
\* (a poll that raises leaves the scan what one without an answer leaves it,
\* and the counters cycle what a missed turn leaves it)
ScanPolls == {"idle", "queued", "polling", "full", "silent", "late"}
CtrPolls  == {"idle", "queued", "polling", "done", "missed"}
Ended(p) == p \in {"full", "silent", "late", "done", "missed"}

\* SwitchData, as far as the next scan and the counters cycle look at it
Empty == [reachable |-> FALSE, over |-> FALSE, streak |-> 0, loops |-> FALSE]
Fresh == [Empty EXCEPT !.reachable = TRUE]
Unread == [Empty EXCEPT !.streak = StaleScans + 2]  \* not in switch_data yet
Readings == [reachable : BOOLEAN, over : BOOLEAN, loops : BOOLEAN,
             streak : 0..StaleScans + 1]
Counted(n) == IF n > StaleScans THEN n ELSE n + 1   \* capped past the limit

Awake == [at |-> "running", slept |-> 0, due |-> 0]
Sleeps == [at : {"running", "asleep"}, slept : 0..Longest, due : 0..Longest]

----------------------------------------------------------------------------
\* run_scan: a second one while the first runs returns at once
ScanStarts(who) ==
    /\ stage = "none"
    /\ stage' = "polls" /\ runner' = who
    /\ scanPoll' = [s \in Switches |-> "queued"]
    /\ UNCHANGED <<cycles, lock, reading, late, changed, conf>>

LoopStartsScan == loop = Awake /\ ScanStarts("loop") /\ UNCHANGED loop

PageStartsScan == ScanStarts("page") /\ UNCHANGED loop

\* sleep_interval, from its start or from the start it remembers: forget the
\* event, read the interval, sleep until it is due
SleepsFor(slept) ==
    /\ changed' = FALSE
    /\ loop' = IF interval # OnRequest /\ interval <= slept THEN Awake
               ELSE [at |-> "asleep", slept |-> slept, due |-> interval]

\* the loop's turn comes while the page's scan runs: run_scan returns and
\* the loop sleeps its interval
LoopFindsScanning ==
    /\ loop = Awake /\ stage # "none" /\ runner = "page"
    /\ SleepsFor(0)
    /\ UNCHANGED <<scans, cycles, lock, reading, late, conf>>

\* _collect_locked gets the lock
ScanTakesLock(s) ==
    /\ scanPoll[s] = "queued" /\ lock[s] = Free
    /\ lock' = [lock EXCEPT ![s] = "scan"]
    /\ scanPoll' = [scanPoll EXCEPT ![s] = "polling"]
    /\ UNCHANGED <<stage, runner, cycles, reading, late, loop, changed, conf>>

\* collector.collect returns, with an answer or without, or raises
ScanPollEnds(s) ==
    /\ scanPoll[s] = "polling"
    /\ \E end \in {"full", "silent"} :
          scanPoll' = [scanPoll EXCEPT ![s] = end]
    /\ lock' = [lock EXCEPT ![s] = Free]
    /\ UNCHANGED <<stage, runner, cycles, reading, late, loop, changed, conf>>

\* mutant: the budget bounds the wait for the lock alone
BudgetEndsWait(s) ==
    /\ scanPoll[s] = "queued"
    /\ scanPoll' = [scanPoll EXCEPT ![s] = "late"]
    /\ UNCHANGED <<stage, runner, cycles, lock, reading, late, loop, changed, conf>>

\* the budget, which counts the wait for the lock, is over
BudgetEnds(s) ==
    /\ scanPoll[s] \in {"queued", "polling"}
    /\ scanPoll' = [scanPoll EXCEPT ![s] = "late"]
    /\ lock' = IF scanPoll[s] = "polling"
               THEN [lock EXCEPT ![s] = Free] ELSE lock
    /\ UNCHANGED <<stage, runner, cycles, reading, late, loop, changed, conf>>

Known(s) == reading[s] # Unread

\* a reading the scan keeps for a switch past its budget: the same object,
\* marked where it lies in switch_data, before anything else of the scan
Kept(s) == scanPoll[s] = "late" /\ Known(s) /\ reading[s].reachable

Gathered ==
    /\ stage = "polls" /\ \A s \in Switches : Ended(scanPoll[s])
    /\ stage' = "arp"
    /\ reading' = [s \in Switches |->
          IF Kept(s) THEN [reading[s] EXCEPT !.over = TRUE,
                                             !.streak = Counted(@)]
          ELSE reading[s]]
    /\ late' = [s \in Switches |->
          IF scanPoll[s] = "late" THEN Counted(late[s]) ELSE late[s]]
    /\ UNCHANGED <<runner, scanPoll, cycles, lock, loop, changed, conf>>

\* mutant: a full reading takes over the count of the one before it
CollectedCounting(s) ==
    IF scanPoll[s] = "full" /\ Known(s)
    THEN [Fresh EXCEPT !.streak = reading[s].streak]
    ELSE Empty

\* mutant: the count goes on from a reading that was never made
CollectedUnread(s) ==
    CASE scanPoll[s] = "full" -> Fresh
      [] scanPoll[s] = "late" ->
            [Empty EXCEPT !.over = TRUE, !.streak = Counted(reading[s].streak)]
      [] OTHER -> Empty

\* what the scan has of a switch it keeps no reading of
Collected(s) ==
    CASE scanPoll[s] = "full" -> Fresh
      [] scanPoll[s] = "late" ->
            [Empty EXCEPT !.over = TRUE,
                          !.streak = IF Known(s) THEN Counted(reading[s].streak)
                                     ELSE 1]
      [] OTHER -> Empty

\* a scan's own reading has no loop detection: the last one stays
CarriedOver(s, new) ==
    IF Known(s) THEN [new EXCEPT !.loops = reading[s].loops] ELSE new

Installed ==
    /\ stage = "arp" /\ stage' = "work"
    /\ reading' = [s \in Switches |->
          IF Kept(s) THEN reading[s] ELSE CarriedOver(s, Collected(s))]
    /\ late' = [s \in Switches |->
          IF scanPoll[s] = "late" THEN late[s] ELSE 0]
    /\ UNCHANGED <<runner, scanPoll, cycles, lock, loop, changed, conf>>

\* scan_ended, after the last step of the scan or an exception anywhere
ScanEnds ==
    /\ stage \in {"arp", "work"}
    /\ stage' = "none" /\ runner' = "loop"
    /\ scanPoll' = [s \in Switches |-> "idle"]
    /\ IF runner = "loop" THEN SleepsFor(0) ELSE UNCHANGED <<loop, changed>>
    /\ UNCHANGED <<cycles, lock, reading, late, conf>>

----------------------------------------------------------------------------
\* run_counters: nothing before the first scan has left its readings.  The
\* sleep before it is of any length
CyclePolls ==
    /\ ~ctrCycle /\ \E s \in Switches : Known(s)
    /\ ctrCycle' = TRUE
    /\ ctrPoll' = [s \in Switches |-> "queued"]
    /\ UNCHANGED <<scans, lock, reading, late, loop, changed, conf>>

CycleTakesLock(s) ==
    /\ ctrPoll[s] = "queued" /\ lock[s] = Free
    /\ lock' = [lock EXCEPT ![s] = "counters"]
    /\ ctrPoll' = [ctrPoll EXCEPT ![s] = "polling"]
    /\ UNCHANGED <<scans, ctrCycle, reading, late, loop, changed, conf>>

\* mutant: the way out releases the lock, taken or not
WaitReleases(s) ==
    /\ ctrPoll[s] = "queued"
    /\ ctrPoll' = [ctrPoll EXCEPT ![s] = "missed"]
    /\ lock' = [lock EXCEPT ![s] = Free]
    /\ UNCHANGED <<scans, ctrCycle, reading, late, loop, changed, conf>>

\* _counters_wait_budget is over: the switch misses this cycle
WaitEnds(s) ==
    /\ ctrPoll[s] = "queued"
    /\ ctrPoll' = [ctrPoll EXCEPT ![s] = "missed"]
    /\ UNCHANGED <<scans, ctrCycle, lock, reading, late, loop,
                   changed, conf>>

CyclePollEnds(s) ==
    /\ ctrPoll[s] = "polling"
    /\ \E end \in {"done", "missed"} :
          ctrPoll' = [ctrPoll EXCEPT ![s] = end]
    /\ lock' = [lock EXCEPT ![s] = Free]
    /\ UNCHANGED <<scans, ctrCycle, reading, late, loop, changed, conf>>

\* the readings as switch_data has them now get the loop detection read
CycleEnds ==
    /\ ctrCycle /\ \A s \in Switches : Ended(ctrPoll[s])
    /\ ctrCycle' = FALSE
    /\ ctrPoll' = [s \in Switches |-> "idle"]
    /\ \E seen \in SUBSET {s \in Switches : ctrPoll[s] = "done" /\ Known(s)} :
          reading' = [s \in Switches |->
              IF s \in seen THEN [reading[s] EXCEPT !.loops = TRUE]
              ELSE reading[s]]
    /\ UNCHANGED <<scans, lock, late, loop, changed, conf>>

----------------------------------------------------------------------------
\* an administrator saves another interval (a thread writes it), and the
\* event loop is told after the thread is back
SaveInterval(i) ==
    /\ ~saving /\ i # interval
    /\ interval' = i /\ saving' = TRUE
    /\ UNCHANGED <<scans, cycles, lock, reading, late, loop, changed>>

\* mutant: the save tells nobody
AppliedSilently ==
    /\ saving /\ saving' = FALSE
    /\ UNCHANGED <<scans, cycles, lock, reading, late, loop, changed, interval>>

SettingsApplied ==
    /\ saving /\ saving' = FALSE /\ changed' = TRUE
    /\ UNCHANGED <<scans, cycles, lock, reading, late, loop, interval>>

\* mutant: the sleep goes on to the moment it was due before
WokenForNothing ==
    /\ loop.at = "asleep" /\ changed
    /\ changed' = FALSE
    /\ UNCHANGED <<scans, cycles, lock, reading, late, loop, conf>>

\* the event wakes the sleep: due is counted again from the same start
SleepWoken ==
    /\ loop.at = "asleep" /\ changed
    /\ SleepsFor(loop.slept)
    /\ UNCHANGED <<scans, cycles, lock, reading, late, conf>>

Due(sleep) == sleep.due # OnRequest /\ sleep.slept >= sleep.due

SleepOver ==
    /\ loop.at = "asleep" /\ Due(loop)
    /\ loop' = Awake
    /\ UNCHANGED <<scans, cycles, lock, reading, late, changed, conf>>

\* time passes; a sleep that is due is over before the next step of it
Tick ==
    /\ ~(loop.at = "asleep" /\ Due(loop))
    /\ loop.at = "asleep" /\ loop.slept < Longest
    /\ loop' = [loop EXCEPT !.slept = @ + 1]
    /\ UNCHANGED <<scans, cycles, lock, reading, late, changed, conf>>

----------------------------------------------------------------------------
Init ==
    /\ stage = "none" /\ runner = "loop"
    /\ scanPoll = [s \in Switches |-> "idle"]
    /\ ctrCycle = FALSE /\ ctrPoll = [s \in Switches |-> "idle"]
    /\ lock = [s \in Switches |-> Free]
    /\ reading = [s \in Switches |-> Unread]
    /\ late = [s \in Switches |-> 0]
    /\ loop = Awake
    /\ interval \in Intervals /\ changed = FALSE /\ saving = FALSE

LoopTurn == LoopStartsScan \/ LoopFindsScanning

ScanStep == Gathered \/ Installed \/ ScanEnds

Cycle == CyclePolls \/ CycleEnds

Next ==
    \/ LoopTurn \/ ScanStep \/ Cycle \/ PageStartsScan
    \/ \E s \in Switches :
          \/ ScanTakesLock(s) \/ ScanPollEnds(s) \/ BudgetEnds(s)
          \/ CycleTakesLock(s) \/ WaitEnds(s) \/ CyclePollEnds(s)
    \/ \E i \in Intervals : SaveInterval(i)
    \/ SettingsApplied \/ SleepWoken \/ SleepOver \/ Tick

Spec == Init /\ [][Next]_vars

\* the event loop runs what is ready and its timers fire, a counters poll is
\* a fixed number of requests with a timeout each; a scan's poll need never
\* end by itself, no page asks for a scan and no administrator saves
Fairness ==
    /\ WF_vars(LoopTurn) /\ WF_vars(ScanStep) /\ WF_vars(Cycle)
    /\ \A s \in Switches :
          /\ WF_vars(BudgetEnds(s)) /\ WF_vars(WaitEnds(s))
          /\ WF_vars(CyclePollEnds(s))
    /\ WF_vars(SettingsApplied) /\ WF_vars(SleepWoken)
    /\ WF_vars(SleepOver) /\ WF_vars(Tick)

FairSpec == Spec /\ Fairness

----------------------------------------------------------------------------
\* The variables stay in their ranges.
TypeOK ==
    /\ stage \in {"none", "polls", "arp", "work"} /\ runner \in {"loop", "page"}
    /\ scanPoll \in [Switches -> ScanPolls] /\ ctrPoll \in [Switches -> CtrPolls]
    /\ ctrCycle \in BOOLEAN
    /\ lock \in [Switches -> {Free, "scan", "counters"}]
    /\ reading \in [Switches -> Readings \cup {Unread}]
    /\ late \in [Switches -> 0..StaleScans + 1]
    /\ loop \in Sleeps /\ interval \in Intervals
    /\ changed \in BOOLEAN /\ saving \in BOOLEAN

\* One poll per switch at a time (server.py:206-209): the lock of a switch
\* is held by exactly the poll that is talking to it, whichever of the two
\* timeouts ended the other's wait.
OnePoll ==
    \A s \in Switches :
        /\ lock[s] = "scan" <=> scanPoll[s] = "polling"
        /\ lock[s] = "counters" <=> ctrPoll[s] = "polling"

\* A switch is said to be past its budget only as often as it was since the
\* last reading of it that was kept, and an old reading stays in use only
\* while nothing newer came (server.py:372-394, 622-638), through scans that
\* fail halfway included.
StreakIsTrue ==
    \A s \in Switches : Known(s) =>
        /\ reading[s].streak <= late[s]
        /\ reading[s].over <=> reading[s].streak > 0
        /\ reading[s].reachable => reading[s].streak = late[s]

\* What a scan knows of loop detection is never forgotten by the scans that
\* come after it (server.py:408-417).
LoopDetectionKept ==
    [][\A s \in Switches : reading[s].loops => reading'[s].loops]_vars

\* A changed interval is never lost (server.py:1590-1613): unless the news is
\* still on its way, the loop sleeps until the interval in force is due,
\* counted from the moment it began to sleep.
DueIsCurrent ==
    loop.at = "asleep" /\ ~changed /\ ~saving => loop.due = interval

\* Every scan ends, whatever the switches do (server.py:241-271).
ScansEnd == stage # "none" ~> stage = "none"

\* The scan loop comes round for ever, unless the last interval set is
\* "only on request" (server.py:1616-1633).
ScansGoOn == <>[](interval # OnRequest) => []<>(stage = "polls")

\* The safety of a scan, a cycle and a change of settings that overlap: one
\* poll per switch, true counts of the budgets that ran out, no interval and
\* no loop detection lost.
PollsAreApart ==
    [](TypeOK /\ OnePoll /\ StreakIsTrue /\ DueIsCurrent) /\ LoopDetectionKept

\* Scans end and come again for ever.
ScansRecur == ScansEnd /\ ScansGoOn
=============================================================================
