---------------------------- MODULE ReadingsProofs ----------------------------
(***************************************************************************)
(* The safety of the parts that Readings puts side by side, and of the polling *)
(* they are read in: first each part by itself, for any number of ports, walks, *)
(* alarms and samples, then the composition.                               *)
(***************************************************************************)
EXTENDS Readings, Polling, Integers, FiniteSets, Sequences, FiniteSetTheorems,
        FunctionTheorems, TLAPS

-----------------------------------------------------------------------------
(* Polling *)

\* The polls of a scan and of a cycle are where the scan and the cycle are.
PollsInStage ==
    /\ stage = "none" <=> \A s \in Switches : scanPoll[s] = "idle"
    /\ stage # "none" => \A s \in Switches : scanPoll[s] # "idle"
    /\ stage \in {"arp", "work"} => \A s \in Switches : Ended(scanPoll[s])
    /\ ~ctrCycle => \A s \in Switches : ctrPoll[s] = "idle"

\* Between the two steps that count a late poll, in `late` and in the
\* reading, the reading is behind by this poll.
CountIsBehind ==
    stage = "arp" => \A s \in Switches : scanPoll[s] = "late" =>
        /\ late[s] > 0
        /\ Known(s) /\ ~reading[s].reachable
             => Counted(reading[s].streak) <= late[s]

PollInv == /\ TypeOK /\ OnePoll /\ StreakIsTrue /\ DueIsCurrent
           /\ PollsInStage /\ CountIsBehind

-----------------------------------------------------------------------------
(* The operators *)

LEMMA LongestBounds ==
    Longest \in Nat /\ \A i \in Intervals : i \in 0..Longest
<1>1. \E i \in Intervals \cup {0} : \A j \in Intervals : j <= i
  BY PollingAssumption
<1>2. Longest \in Intervals \cup {0} /\ \A j \in Intervals : j <= Longest
  BY <1>1 DEF Longest
<1> QED
  BY <1>2, PollingAssumption

\* A switch without a reading has none of what a reading says.
LEMMA UnreadSaysNothing ==
    /\ ~Unread.reachable /\ ~Unread.over /\ ~Unread.loops
    /\ Unread \notin Readings
BY PollingAssumption DEF Unread, Empty, Readings

\* The count of late polls grows, keeps its order and stops past the limit.
LEMMA CountedGrows == \A m, n \in 0..StaleScans + 1 :
    /\ Counted(n) \in 1..StaleScans + 1
    /\ n <= Counted(n)
    /\ m <= n => Counted(m) <= Counted(n)
BY PollingAssumption DEF Counted

LEMMA KnownIsReading ==
    ASSUME TypeOK, NEW s \in Switches PROVE Known(s) <=> reading[s] \in Readings
BY UnreadSaysNothing DEF TypeOK, Known

-----------------------------------------------------------------------------
(* Every step preserves its part of the invariant *)

LEMMA InitInv == Init => PollInv
<1> SUFFICES ASSUME Init PROVE PollInv
  OBVIOUS
<1> USE PollingAssumption DEF Init
<1>1. TypeOK
  <2>1. loop \in Sleeps
    BY LongestBounds DEF Awake, Sleeps
  <2>2. late \in [Switches -> 0..StaleScans + 1]
    OBVIOUS
  <2> QED
    BY <2>1, <2>2 DEF TypeOK, ScanPolls, CtrPolls
<1>2. OnePoll
  BY DEF OnePoll, Free
<1>3. StreakIsTrue
  BY DEF StreakIsTrue, Known
<1>4. DueIsCurrent /\ PollsInStage /\ CountIsBehind
  BY DEF DueIsCurrent, PollsInStage, CountIsBehind, Awake
<1> QED
  BY <1>1, <1>2, <1>3, <1>4 DEF PollInv

\* The sleep of the loop is due at an interval somebody set.
LEMMA SleepsForTyped ==
    ASSUME TypeOK, NEW slept \in 0..Longest, SleepsFor(slept)
    PROVE  loop' \in Sleeps /\ changed' \in BOOLEAN
<1>1. 0 \in 0..Longest /\ interval \in 0..Longest
  BY LongestBounds DEF TypeOK
<1> QED
  BY <1>1 DEF SleepsFor, Sleeps, Awake

LEMMA SleepsForIsCurrent ==
    ASSUME NEW slept, SleepsFor(slept), UNCHANGED conf PROVE DueIsCurrent'
BY DEF SleepsFor, DueIsCurrent, Awake, conf

\* The six steps of one switch's polls hand the lock on; readings, counts and
\* the sleep stay.
LEMMA LockSteps ==
    ASSUME PollInv, NEW s \in Switches,
           \/ ScanTakesLock(s) \/ ScanPollEnds(s) \/ BudgetEnds(s)
           \/ CycleTakesLock(s) \/ WaitEnds(s) \/ CyclePollEnds(s)
    PROVE  PollInv'
<1> USE DEF PollInv, ScanTakesLock, ScanPollEnds, BudgetEnds, CycleTakesLock,
            WaitEnds, CyclePollEnds, conf, cycles, scans, Free
<1>1. TypeOK'
  BY DEF TypeOK, ScanPolls, CtrPolls
<1>2. OnePoll'
  BY DEF OnePoll, TypeOK
<1>3. StreakIsTrue' /\ DueIsCurrent'
  BY DEF StreakIsTrue, DueIsCurrent, Known
<1>4. stage = stage' /\ (scanPoll' # scanPoll => stage = "polls")
  <2>1. stage \in {"arp", "work"} => scanPoll[s] \notin {"queued", "polling"}
    BY DEF PollsInStage, Ended
  <2>2. stage = "none" => scanPoll[s] \notin {"queued", "polling"}
    BY DEF PollsInStage
  <2> QED
    BY <2>1, <2>2 DEF TypeOK
<1>5. PollsInStage'
  BY <1>4 DEF PollsInStage, TypeOK, Ended
<1>6. CountIsBehind'
  BY <1>4 DEF CountIsBehind, Known
<1> QED
  BY <1>1, <1>2, <1>3, <1>5, <1>6

LEMMA ScanStartsStep ==
    ASSUME PollInv, LoopStartsScan \/ PageStartsScan PROVE PollInv'
<1>1. PICK who \in {"loop", "page"} : ScanStarts(who) /\ UNCHANGED loop
  BY DEF LoopStartsScan, PageStartsScan
<1> USE <1>1 DEF PollInv, ScanStarts, conf, cycles
<1>2. TypeOK'
  BY DEF TypeOK, ScanPolls
<1>3. OnePoll'
  BY DEF OnePoll, PollsInStage
<1>4. StreakIsTrue' /\ DueIsCurrent'
  BY DEF StreakIsTrue, DueIsCurrent, Known
<1>5. PollsInStage' /\ CountIsBehind'
  BY PollingAssumption DEF PollsInStage, CountIsBehind
<1> QED
  BY <1>2, <1>3, <1>4, <1>5

\* A poll past its budget is counted twice: in `late`, and in the reading the
\* scan keeps in its place.
LEMMA GatheredStep == ASSUME PollInv, Gathered PROVE PollInv'
<1> USE PollingAssumption DEF PollInv
<1>0. /\ stage = "polls" /\ stage' = "arp"
      /\ \A s \in Switches : Ended(scanPoll[s])
      /\ UNCHANGED <<runner, scanPoll, ctrCycle, ctrPoll, lock, loop, changed,
                     interval, saving>>
      /\ reading' = [s \in Switches |-> IF Kept(s) THEN
             [reading[s] EXCEPT !.over = TRUE, !.streak = Counted(reading[s].streak)]
           ELSE reading[s]]
      /\ late' = [s \in Switches |->
            IF scanPoll[s] = "late" THEN Counted(late[s]) ELSE late[s]]
  BY DEF Gathered, conf, cycles
<1>1. \A s \in Switches : late[s] \in 0..StaleScans + 1
  BY DEF TypeOK
<1>2. ASSUME NEW s \in Switches, Kept(s)
      PROVE  /\ reading[s] \in Readings /\ reading[s].reachable
             /\ reading[s].streak = late[s] /\ scanPoll[s] = "late"
             /\ reading[s].streak \in 0..StaleScans + 1
  BY <1>2, KnownIsReading DEF Kept, StreakIsTrue, Readings
<1>3. ASSUME NEW s \in Switches, Kept(s)
      PROVE  /\ reading'[s] \in Readings /\ reading'[s].reachable
             /\ reading'[s].over /\ reading'[s].streak = Counted(late[s])
             /\ late'[s] = Counted(late[s])
  <2>1. PICK n \in 0..StaleScans + 1 : n = Counted(late[s])
    BY <1>1 DEF Counted
  <2>2. PICK r \in Readings : r = reading[s] /\ r.reachable /\ r.streak = late[s]
    BY <1>2, <1>3
  <2>3. reading'[s] = [r EXCEPT !.over = TRUE, !.streak = n]
    BY <1>0, <1>3, <2>1, <2>2
  <2>4. late'[s] = n
    BY <1>0, <1>2, <1>3, <2>1
  <2>5. /\ reading'[s] \in Readings /\ reading'[s].over
        /\ reading'[s].streak = n /\ reading'[s].reachable
    BY <2>2, <2>3 DEF Readings
  <2> QED
    BY <2>1, <2>4, <2>5
<1>4. ASSUME NEW s \in Switches, ~Kept(s)
      PROVE  /\ reading'[s] = reading[s]
             /\ late'[s] = late[s] \/ (late'[s] = Counted(late[s])
                                        /\ scanPoll[s] = "late")
             /\ scanPoll[s] = "late" => late'[s] = Counted(late[s])
             /\ late[s] <= late'[s] /\ late'[s] \in 0..StaleScans + 1
  <2>1. /\ reading'[s] = reading[s]
        /\ late'[s] = IF scanPoll[s] = "late" THEN Counted(late[s]) ELSE late[s]
    BY <1>0, <1>4
  <2> QED
    BY <1>1, <2>1 DEF Counted
<1>5. TypeOK'
  <2>1. \A s \in Switches : /\ reading'[s] \in Readings \cup {Unread}
                           /\ late'[s] \in 0..StaleScans + 1
    <3> SUFFICES ASSUME NEW s \in Switches
                 PROVE  /\ reading'[s] \in Readings \cup {Unread}
                        /\ late'[s] \in 0..StaleScans + 1
      OBVIOUS
    <3>1. Counted(late[s]) \in 0..StaleScans + 1
      BY <1>1 DEF Counted
    <3> QED
      BY <1>3, <1>4, <3>1 DEF TypeOK
  <2> QED
    BY <1>0, <2>1 DEF TypeOK
<1>6. OnePoll' /\ DueIsCurrent'
  BY <1>0 DEF OnePoll, DueIsCurrent
<1>7. StreakIsTrue'
  <2> SUFFICES ASSUME NEW s \in Switches, Known(s)'
               PROVE  /\ reading'[s].streak <= late'[s]
                      /\ reading'[s].over <=> reading'[s].streak > 0
                      /\ reading'[s].reachable => reading'[s].streak = late'[s]
    BY DEF StreakIsTrue
  <2>1. CASE Kept(s)
    BY <1>1, <1>3, <2>1 DEF Counted
  <2>2. CASE ~Kept(s)
    <3>1. Known(s) /\ reading[s].streak \in 0..StaleScans + 1
      BY <1>4, <2>2, KnownIsReading DEF Known, Readings
    <3>2. reading[s].reachable => scanPoll[s] # "late"
      BY <2>2, <3>1 DEF Kept
    <3> QED
      BY <1>1, <1>4, <2>2, <3>1, <3>2 DEF StreakIsTrue, Counted
  <2> QED
    BY <2>1, <2>2
<1>8. PollsInStage'
  BY <1>0 DEF PollsInStage, Ended
<1>9. CountIsBehind'
  <2> SUFFICES ASSUME NEW s \in Switches, scanPoll[s] = "late"
               PROVE  /\ late'[s] > 0
                      /\ Known(s)' /\ ~reading'[s].reachable
                           => Counted(reading'[s].streak) <= late'[s]
    BY <1>0 DEF CountIsBehind
  <2>1. CASE Kept(s)
    BY <1>1, <1>3, <2>1 DEF Counted
  <2>2. CASE ~Kept(s)
    <3>1. Known(s)' => Known(s) /\ reading[s].streak \in 0..StaleScans + 1
                                /\ reading[s].streak <= late[s]
      BY <1>4, <2>2, KnownIsReading DEF Known, Readings, StreakIsTrue
    <3> QED
      BY <1>1, <1>4, <2>2, <3>1 DEF Counted
  <2> QED
    BY <2>1, <2>2
<1> QED
  BY <1>5, <1>6, <1>7, <1>8, <1>9

\* What a scan has of a switch it keeps no reading of counts the poll that
\* has just run past its budget, and with it the ones since the last reading.
LEMMA CollectedCounts ==
    ASSUME PollInv, stage = "arp", NEW s \in Switches, ~Kept(s)
    PROVE  LET new == CarriedOver(s, Collected(s))
           IN  /\ new \in Readings
               /\ new.over <=> new.streak > 0
               /\ scanPoll[s] = "late" => ~new.reachable /\ new.streak <= late[s]
               /\ scanPoll[s] # "late" => new.streak = 0
               /\ reading[s].loops => new.loops
<1> USE PollingAssumption DEF PollInv
<1> DEFINE made == Collected(s)
<1>1. /\ late[s] \in 0..StaleScans + 1
      /\ scanPoll[s] = "late" => late[s] > 0
      /\ Known(s) => reading[s] \in Readings
      /\ reading[s] \in Readings \cup {Unread}
  BY KnownIsReading DEF TypeOK, CountIsBehind
<1>2. /\ made \in Readings /\ ~made.loops
      /\ made.over <=> made.streak > 0
      /\ scanPoll[s] = "late" => ~made.reachable /\ made.streak <= late[s]
      /\ scanPoll[s] # "late" => made.streak = 0
  <2>1. CASE scanPoll[s] = "late" /\ Known(s)
    <3>1. /\ reading[s].streak \in 0..StaleScans + 1
          /\ Counted(reading[s].streak) <= late[s]
      BY <1>1, <2>1 DEF Kept, CountIsBehind, Readings
    <3>2. PICK n \in 1..StaleScans + 1 :
            n = Counted(reading[s].streak) /\ n <= late[s]
      BY <3>1 DEF Counted
    <3>3. made = [reachable |-> FALSE, over |-> TRUE, streak |-> n, loops |-> FALSE]
      BY <2>1, <3>2 DEF Collected, Empty
    <3> QED
      BY <2>1, <3>2, <3>3 DEF Readings
  <2>2. CASE scanPoll[s] = "late" /\ ~Known(s)
    <3>1. made = [reachable |-> FALSE, over |-> TRUE, streak |-> 1, loops |-> FALSE]
      BY <2>2 DEF Collected, Empty
    <3> QED
      BY <1>1, <2>2, <3>1 DEF Readings
  <2>3. CASE scanPoll[s] # "late"
    <3>1. \E answered \in BOOLEAN : made =
            [reachable |-> answered, over |-> FALSE, streak |-> 0, loops |-> FALSE]
      BY <2>3 DEF Collected, Fresh, Empty
    <3> QED
      BY <2>3, <3>1 DEF Readings
  <2> QED
    BY <2>1, <2>2, <2>3
<1> HIDE DEF made
<1>3. CASE ~Known(s)
  <2>1. ~reading[s].loops
    BY <1>3, UnreadSaysNothing DEF Known
  <2>2. CarriedOver(s, made) = made
    BY <1>3 DEF CarriedOver
  <2> QED
    BY <1>2, <2>1, <2>2 DEF made
<1>4. CASE Known(s)
  <2>1. PICK b \in BOOLEAN : b = reading[s].loops
    BY <1>1, <1>4 DEF Readings
  <2>2. CarriedOver(s, made) = [made EXCEPT !.loops = b]
    BY <1>4, <2>1 DEF CarriedOver
  <2>3. LET new == [made EXCEPT !.loops = b]
        IN  /\ new \in Readings /\ new.loops = b /\ new.over = made.over
            /\ new.streak = made.streak /\ new.reachable = made.reachable
    BY <1>2 DEF Readings
  <2> QED
    BY <1>2, <2>1, <2>2, <2>3 DEF made
<1> QED
  BY <1>3, <1>4

LEMMA InstalledStep ==
    ASSUME PollInv, Installed PROVE PollInv' /\
           \A s \in Switches : reading[s].loops => reading'[s].loops
<1> USE PollingAssumption DEF PollInv
<1>1. /\ stage = "arp" /\ stage' = "work"
      /\ UNCHANGED <<runner, scanPoll, ctrCycle, ctrPoll, lock, loop, changed,
                     interval, saving>>
      /\ reading' = [s \in Switches |-> IF Kept(s) THEN reading[s]
                                        ELSE CarriedOver(s, Collected(s))]
      /\ late' = [s \in Switches |-> IF scanPoll[s] = "late" THEN late[s] ELSE 0]
  BY DEF Installed, conf, cycles
<1>2. ASSUME NEW s \in Switches, Kept(s)
      PROVE  reading'[s] = reading[s] /\ late'[s] = late[s]
  BY <1>1, <1>2 DEF Kept
<1>3. ASSUME NEW s \in Switches, ~Kept(s)
      PROVE  /\ reading'[s] \in Readings
             /\ reading'[s].over <=> reading'[s].streak > 0
             /\ late'[s] = IF scanPoll[s] = "late" THEN late[s] ELSE 0
             /\ scanPoll[s] = "late"
                  => ~reading'[s].reachable /\ reading'[s].streak <= late[s]
             /\ scanPoll[s] # "late" => reading'[s].streak = 0
             /\ reading[s].loops => reading'[s].loops
  <2>1. reading'[s] = CarriedOver(s, Collected(s))
    BY <1>1, <1>3
  <2> QED
    BY <1>1, <1>3, <2>1, CollectedCounts
<1>4. \A s \in Switches : late[s] \in 0..StaleScans + 1
  BY DEF TypeOK
<1>5. TypeOK'
  <2>1. \A s \in Switches : reading'[s] \in Readings \cup {Unread}
    BY <1>2, <1>3 DEF TypeOK
  <2> QED
    BY <1>1, <1>4, <2>1 DEF TypeOK
<1>6. OnePoll' /\ DueIsCurrent' /\ PollsInStage' /\ CountIsBehind'
  BY <1>1 DEF OnePoll, DueIsCurrent, PollsInStage, CountIsBehind
<1>7. StreakIsTrue'
  <2> SUFFICES ASSUME NEW s \in Switches, Known(s)'
               PROVE  /\ reading'[s].streak <= late'[s]
                      /\ reading'[s].over <=> reading'[s].streak > 0
                      /\ reading'[s].reachable => reading'[s].streak = late'[s]
    BY DEF StreakIsTrue
  <2>1. CASE Kept(s)
    BY <1>2, <2>1 DEF StreakIsTrue, Known
  <2>2. CASE ~Kept(s)
    BY <1>3, <1>4, <2>2
  <2> QED
    BY <2>1, <2>2
<1> QED
  BY <1>2, <1>3, <1>5, <1>6, <1>7

LEMMA ScanEndsStep == ASSUME PollInv, ScanEnds PROVE PollInv'
<1> USE PollingAssumption DEF PollInv
<1>1. /\ stage \in {"arp", "work"} /\ stage' = "none" /\ runner' = "loop"
      /\ scanPoll' = [s \in Switches |-> "idle"]
      /\ UNCHANGED <<ctrCycle, ctrPoll, lock, reading, late, interval, saving>>
      /\ SleepsFor(0) \/ UNCHANGED <<loop, changed>>
  BY DEF ScanEnds, conf, cycles
<1>2. loop' \in Sleeps /\ changed' \in BOOLEAN
  BY <1>1, LongestBounds, SleepsForTyped DEF TypeOK
<1>3. TypeOK'
  BY <1>1, <1>2 DEF TypeOK, ScanPolls
<1>4. OnePoll'
  BY <1>1 DEF OnePoll, PollsInStage, Ended
<1>5. StreakIsTrue' /\ CountIsBehind' /\ PollsInStage'
  BY <1>1 DEF StreakIsTrue, Known, CountIsBehind, PollsInStage
<1>6. DueIsCurrent'
  BY <1>1, SleepsForIsCurrent DEF DueIsCurrent, conf
<1> QED
  BY <1>3, <1>4, <1>5, <1>6

LEMMA CyclePollsStep == ASSUME PollInv, CyclePolls PROVE PollInv'
<1> USE DEF PollInv, CyclePolls, scans, conf
<1>1. TypeOK'
  BY DEF TypeOK, CtrPolls
<1>2. OnePoll' /\ PollsInStage'
  BY DEF OnePoll, PollsInStage
<1>3. StreakIsTrue' /\ CountIsBehind' /\ DueIsCurrent'
  BY DEF StreakIsTrue, CountIsBehind, DueIsCurrent, Known
<1> QED
  BY <1>1, <1>2, <1>3

\* A cycle marks readings as they lie in switch_data when it ends, between
\* the steps of a scan or within them.
LEMMA CycleEndsStep ==
    ASSUME PollInv, CycleEnds PROVE PollInv' /\
           \A s \in Switches : reading[s].loops => reading'[s].loops
<1> USE DEF PollInv
<1>1. PICK marked \in SUBSET {s \in Switches : Known(s)} :
        reading' = [s \in Switches |->
            IF s \in marked THEN [reading[s] EXCEPT !.loops = TRUE] ELSE reading[s]]
  BY DEF CycleEnds
<1>2. /\ ctrCycle /\ ctrCycle' = FALSE /\ ctrPoll' = [s \in Switches |-> "idle"]
      /\ \A s \in Switches : Ended(ctrPoll[s])
      /\ UNCHANGED <<stage, runner, scanPoll, lock, late, loop, changed,
                     interval, saving>>
  BY DEF CycleEnds, scans, conf
<1>3. ASSUME NEW s \in marked
      PROVE  /\ reading[s] \in Readings /\ reading'[s] \in Readings
             /\ reading'[s].loops /\ reading'[s].over = reading[s].over
             /\ reading'[s].streak = reading[s].streak
             /\ reading'[s].reachable = reading[s].reachable
  <2>1. s \in Switches /\ reading[s] \in Readings
    BY <1>1, <1>3, KnownIsReading
  <2>2. reading'[s] = [reading[s] EXCEPT !.loops = TRUE]
    BY <1>1, <1>3, <2>1
  <2> QED
    BY <2>1, <2>2 DEF Readings
<1>4. \A s \in Switches \ marked : reading'[s] = reading[s]
  BY <1>1
<1>5. \A s \in Switches :
        /\ Known(s)' <=> Known(s)
        /\ reading'[s].over = reading[s].over
        /\ reading'[s].streak = reading[s].streak
        /\ reading'[s].reachable = reading[s].reachable
        /\ reading[s].loops => reading'[s].loops
  BY <1>3, <1>4, UnreadSaysNothing DEF Known
<1>6. TypeOK'
  <2>1. \A s \in Switches : reading'[s] \in Readings \cup {Unread}
    BY <1>3, <1>4 DEF TypeOK
  <2>2. reading' \in [Switches -> Readings \cup {Unread}]
    BY <1>1, <2>1
  <2>3. ctrPoll' \in [Switches -> CtrPolls]
    BY <1>2 DEF CtrPolls
  <2> QED
    BY <1>2, <2>2, <2>3 DEF TypeOK
<1>7. OnePoll' /\ PollsInStage' /\ DueIsCurrent'
  BY <1>2 DEF OnePoll, PollsInStage, DueIsCurrent, Ended
<1>8. StreakIsTrue' /\ CountIsBehind'
  BY <1>2, <1>5 DEF StreakIsTrue, CountIsBehind
<1> QED
  BY <1>5, <1>6, <1>7, <1>8

\* The sleep of the loop, and the settings that change while it sleeps.
LEMMA SleepSteps ==
    ASSUME PollInv, \/ LoopFindsScanning \/ SleepWoken \/ SleepOver \/ Tick
                    \/ SettingsApplied \/ \E i \in Intervals : SaveInterval(i)
    PROVE  PollInv'
<1> USE DEF PollInv
<1>1. UNCHANGED <<stage, runner, scanPoll, ctrCycle, ctrPoll, lock, reading, late>>
  BY DEF LoopFindsScanning, SleepWoken, SleepOver, Tick, SettingsApplied,
         SaveInterval, scans, cycles
<1>2. OnePoll' /\ StreakIsTrue' /\ PollsInStage' /\ CountIsBehind'
  BY <1>1 DEF OnePoll, StreakIsTrue, PollsInStage, CountIsBehind, Known
<1>3. CASE LoopFindsScanning \/ SleepWoken
  <2>1. PICK slept \in 0..Longest : SleepsFor(slept) /\ UNCHANGED conf
    BY <1>3, LongestBounds DEF LoopFindsScanning, SleepWoken, TypeOK, Sleeps
  <2>2. DueIsCurrent' /\ loop' \in Sleeps /\ changed' \in BOOLEAN
    BY <2>1, SleepsForTyped, SleepsForIsCurrent
  <2> QED
    BY <1>1, <1>2, <2>1, <2>2 DEF TypeOK, conf
<1>4. CASE SleepOver
  BY <1>1, <1>2, <1>4, LongestBounds DEF SleepOver, TypeOK, DueIsCurrent,
     Awake, Sleeps, conf
<1>5. CASE Tick
  BY <1>1, <1>2, <1>5, LongestBounds DEF Tick, TypeOK, DueIsCurrent, Sleeps, conf
<1>6. CASE SettingsApplied \/ \E i \in Intervals : SaveInterval(i)
  BY <1>1, <1>2, <1>6 DEF SettingsApplied, SaveInterval, TypeOK, DueIsCurrent
<1> QED
  BY <1>3, <1>4, <1>5, <1>6

-----------------------------------------------------------------------------
(* The theorem *)

LEMMA StepInv ==
    PollInv /\ [Next]_vars
        => PollInv' /\ \A s \in Switches : reading[s].loops => reading'[s].loops
<1> SUFFICES ASSUME PollInv, [Next]_vars
             PROVE  /\ PollInv'
                    /\ \A s \in Switches : reading[s].loops => reading'[s].loops
  OBVIOUS
<1>1. CASE Installed
  BY <1>1, InstalledStep
<1>2. CASE CycleEnds
  BY <1>2, CycleEndsStep
<1>3. CASE Gathered
  <2>1. \A s \in Switches : reading[s].loops => reading'[s].loops
    BY <1>3, KnownIsReading DEF Gathered, Kept, PollInv, Readings
  <2> QED
    BY <1>3, <2>1, GatheredStep
<1>4. CASE \/ LoopStartsScan \/ PageStartsScan \/ ScanEnds \/ CyclePolls
           \/ \E s \in Switches :
                \/ ScanTakesLock(s) \/ ScanPollEnds(s) \/ BudgetEnds(s)
                \/ CycleTakesLock(s) \/ WaitEnds(s) \/ CyclePollEnds(s)
           \/ LoopFindsScanning \/ SleepWoken \/ SleepOver \/ Tick
           \/ SettingsApplied \/ \E i \in Intervals : SaveInterval(i)
  <2>1. reading' = reading
    BY <1>4 DEF LoopStartsScan, PageStartsScan, ScanStarts, ScanEnds,
       CyclePolls, ScanTakesLock, ScanPollEnds, BudgetEnds, CycleTakesLock,
       WaitEnds, CyclePollEnds, LoopFindsScanning, SleepWoken, SleepOver, Tick,
       SettingsApplied, SaveInterval
  <2>2. PollInv'
    BY <1>4, ScanStartsStep, ScanEndsStep, CyclePollsStep, LockSteps, SleepSteps
  <2> QED
    BY <2>1, <2>2
<1>5. CASE UNCHANGED vars
  BY <1>5 DEF vars, PollInv, TypeOK, OnePoll, StreakIsTrue, DueIsCurrent,
     PollsInStage, CountIsBehind, Known
<1> QED
  BY <1>1, <1>2, <1>3, <1>4, <1>5 DEF Next, LoopTurn, ScanStep, Cycle

\* Scans, counters cycles and changes of settings that overlap keep apart: one
\* poll per switch at a time, true counts of the budgets that ran out, no
\* changed interval and no loop detection lost.
THEOREM PollsStayApart == Spec => PollsAreApart
<1>1. PollInv => TypeOK /\ OnePoll /\ StreakIsTrue /\ DueIsCurrent
  BY DEF PollInv
<1>2. PollInv /\ [Next]_vars
        => [\A s \in Switches : reading[s].loops => reading'[s].loops]_vars
  BY StepInv
<1> QED
  BY InitInv, StepInv, <1>1, <1>2, PTL DEF Spec, PollsAreApart, LoopDetectionKept

-----------------------------------------------------------------------------
(* Collector *)

OIDs == {"descr", "type", "lag", "map", "fdb", "hc", "c32"}

\* what a job may have left to walk
Lists == [idle     |-> {<<>>},
          scan     |-> {<<"descr", "type", "lag", "map", "fdb">>,
                        <<"type", "lag", "map", "fdb">>, <<"lag", "map", "fdb">>,
                        <<"map", "fdb">>, <<"fdb">>, <<>>},
          counters |-> {<<"hc">>, <<>>},
          narrow   |-> {<<"c32">>, <<>>}]
Jobs == {"idle", "scan", "counters", "narrow"}

In(list) == {list[n] : n \in 1..Len(list)}

WalksTyped ==
    /\ job \in Jobs /\ todo \in Lists[job]
    /\ walk \in [oid : OIDs \cup {"none"}, last : Nat, resumes : Nat]
    /\ dead \in [OIDs -> [strikes : 0..Strikes, skip : BOOLEAN, left : 0..Cooldown]]
    /\ silence \in [OIDs -> 0..Strikes] /\ unasked \in [OIDs -> 0..(Cooldown - 1)]

\* A walk under way is the next of the job, of a table that is not paused and
\* that was asked for in this scan.
WalkInv == walk # CO!NoWalk => /\ todo # <<>> /\ walk.oid = Head(todo)
                               /\ dead[walk.oid].skip = FALSE
                               /\ unasked[walk.oid] = 0

\* The strikes are the walks in a row that found silence, and those for which a
\* table is paused bring it to Strikes.
StrikesInv ==
    \A o \in OIDs :
       /\ silence[o] = dead[o].strikes
       /\ dead[o].skip = TRUE => dead[o].strikes = Strikes
       /\ dead[o].skip = FALSE => dead[o].left = 0

\* What a pause has lasted and what is left of it make one Cooldown, the scan
\* that has not come to the table yet counted.
PauseInv ==
    \A o \in OIDs :
       dead[o].left > 0 =>
          /\ unasked[o] + dead[o].left <= Cooldown
          /\ job = "scan" /\ o \in In(todo) => unasked[o] + dead[o].left < Cooldown

WalksInv == WalksTyped /\ WalkInv /\ StrikesInv /\ PauseInv

LEMMA ListShape ==
    ASSUME NEW j \in Jobs, NEW t \in Lists[j], t # <<>>
    PROVE  /\ Head(t) \in OIDs /\ Tail(t) \in Lists[j]
           /\ Head(t) \notin In(Tail(t)) /\ In(Tail(t)) \subseteq In(t)
           /\ Head(t) \in In(t)
<1>1. j # "idle"
  BY DEF Lists, Jobs
<1>2. ASSUME NEW u, t = <<u>>, u \in OIDs, <<>> \in Lists[j]
      PROVE  /\ Head(t) \in OIDs /\ Tail(t) \in Lists[j]
             /\ Head(t) \notin In(Tail(t)) /\ In(Tail(t)) \subseteq In(t)
             /\ Head(t) \in In(t)
  <2>1. Head(t) = u /\ Tail(t) = <<>> /\ Len(t) = 1 /\ t[1] = u
    BY <1>2
  <2>2. In(<<>>) = {}
    BY DEF In
  <2>3. u \in In(t)
    BY <2>1 DEF In
  <2> QED
    BY <1>2, <2>1, <2>2, <2>3
<1>3. CASE j \in {"counters", "narrow"}
  <2>1. \/ t = <<"hc">> \/ t = <<"c32">>
    BY <1>3 DEF Lists
  <2>2. <<>> \in Lists[j]
    BY <1>3 DEF Lists
  <2> QED
    BY <1>2, <2>1, <2>2 DEF OIDs
<1>4. /\ In(<<"type", "lag", "map", "fdb">>) = {"type", "lag", "map", "fdb"}
      /\ In(<<"lag", "map", "fdb">>) = {"lag", "map", "fdb"}
      /\ In(<<"map", "fdb">>) = {"map", "fdb"}
      /\ In(<<"fdb">>) = {"fdb"}
  BY DEF In
<1>5. CASE j = "scan"
  <2>1. t \in Lists["scan"] \ {<<>>}
    BY <1>5
  <2>2. CASE t = <<"descr", "type", "lag", "map", "fdb">>
    <3>1. Head(t) = "descr" /\ Tail(t) = <<"type", "lag", "map", "fdb">>
      BY <2>2
    <3>2. In(Tail(t)) = {"type", "lag", "map", "fdb"}
      BY <1>4, <3>1
    <3>3. In(t) = {"descr", "type", "lag", "map", "fdb"}
      BY <2>2 DEF In
    <3> QED
      BY <1>5, <3>1, <3>2, <3>3 DEF Lists, OIDs
  <2>3. CASE t = <<"type", "lag", "map", "fdb">>
    <3>1. Head(t) = "type" /\ Tail(t) = <<"lag", "map", "fdb">>
      BY <2>3
    <3>2. In(Tail(t)) = {"lag", "map", "fdb"}
      BY <1>4, <3>1
    <3>3. In(t) = {"type", "lag", "map", "fdb"}
      BY <2>3 DEF In
    <3> QED
      BY <1>5, <3>1, <3>2, <3>3 DEF Lists, OIDs
  <2>4. CASE t = <<"lag", "map", "fdb">>
    <3>1. Head(t) = "lag" /\ Tail(t) = <<"map", "fdb">>
      BY <2>4
    <3>2. In(Tail(t)) = {"map", "fdb"}
      BY <1>4, <3>1
    <3>3. In(t) = {"lag", "map", "fdb"}
      BY <2>4 DEF In
    <3> QED
      BY <1>5, <3>1, <3>2, <3>3 DEF Lists, OIDs
  <2>5. CASE t = <<"map", "fdb">>
    <3>1. Head(t) = "map" /\ Tail(t) = <<"fdb">>
      BY <2>5
    <3>2. In(Tail(t)) = {"fdb"}
      BY <1>4, <3>1
    <3>3. In(t) = {"map", "fdb"}
      BY <2>5 DEF In
    <3> QED
      BY <1>5, <3>1, <3>2, <3>3 DEF Lists, OIDs
  <2>6. CASE t = <<"fdb">>
    <3>1. <<>> \in Lists[j]
      BY <1>5 DEF Lists
    <3> QED
      BY <1>2, <2>6, <3>1 DEF OIDs
  <2> QED
    BY <2>1, <2>2, <2>3, <2>4, <2>5, <2>6 DEF Lists
<1> QED
  BY <1>1, <1>3, <1>5 DEF Jobs

LEMMA WalkNames ==
    /\ CO!OIDs = OIDs
    /\ CO!ScanWalks = <<"descr", "type", "lag", "map", "fdb">>
    /\ CO!NoWalk \in [oid : OIDs \cup {"none"}, last : Nat, resumes : Nat]
    /\ CO!NoWalk.oid = "none"
    /\ \A o : [CO!NoWalk EXCEPT !.oid = o].oid = o
    /\ \A o \in OIDs : [CO!NoWalk EXCEPT !.oid = o]
                           \in [oid : OIDs \cup {"none"}, last : Nat, resumes : Nat]
    /\ CO!Lively = [strikes |-> 0, skip |-> FALSE, left |-> 0]
<1>1. CO!Range(CO!ScanWalks) = {"descr", "type", "lag", "map", "fdb"}
  BY DEF CO!Range, CO!ScanWalks
<1>2. CO!OIDs = OIDs
  BY <1>1 DEF CO!OIDs, CO!Columns, OIDs
<1> QED
  BY <1>2 DEF CO!ScanWalks, CO!NoWalk, CO!Lively, OIDs

\* What a table's record may become.
LEMMA LivelyTyped ==
    ASSUME CO!CollectorAssumption
    PROVE  /\ CO!Lively \in [strikes : 0..Strikes, skip : BOOLEAN, left : 0..Cooldown]
           /\ CO!Lively.strikes = 0 /\ CO!Lively.skip = FALSE /\ CO!Lively.left = 0
           /\ Strikes \in Nat /\ Cooldown \in Nat \ {0}
<1>1. Strikes \in Nat /\ Cooldown \in Nat \ {0}
  BY DEF CO!CollectorAssumption
<1> QED
  BY <1>1, WalkNames

LEMMA WalksInit == ASSUME CO!CollectorAssumption, CO!Init PROVE WalksInv
<1>1. /\ job = "idle" /\ todo = <<>> /\ walk = CO!NoWalk
      /\ dead = [o \in OIDs |-> CO!Lively]
      /\ silence = [o \in OIDs |-> 0] /\ unasked = [o \in OIDs |-> 0]
  BY WalkNames DEF CO!Init
<1>2. WalksTyped
  BY <1>1, WalkNames, LivelyTyped DEF WalksTyped, Jobs, Lists
<1>3. \A o \in OIDs : /\ dead[o].strikes = 0 /\ dead[o].skip = FALSE
                      /\ dead[o].left = 0 /\ silence[o] = 0
  BY <1>1, LivelyTyped
<1>4. WalkInv
  BY <1>1 DEF WalkInv
<1>5. StrikesInv /\ PauseInv
  BY <1>3 DEF StrikesInv, PauseInv
<1> QED
  BY <1>2, <1>4, <1>5 DEF WalksInv

\* The lists of a new job, or of none, are walked from their beginning.
LEMMA BeginScanKeeps ==
    ASSUME WalksInv, CO!CollectorAssumption, CO!BeginScan PROVE WalksInv'
<1>1. /\ job = "idle" /\ dead' = CO!OneScanLess(dead)
      /\ UNCHANGED <<silence, unasked>>
      /\ \/ /\ job' = "scan" /\ todo' = CO!ScanWalks /\ walk' = CO!NoWalk
         \/ UNCHANGED <<job, todo, walk>>
  BY DEF CO!BeginScan, CO!Walks, CO!reading
<1>2. WalksTyped /\ StrikesInv /\ PauseInv
  BY DEF WalksInv
<1>3. /\ dead \in [OIDs -> [strikes : 0..Strikes, skip : BOOLEAN, left : 0..Cooldown]]
      /\ unasked \in [OIDs -> 0..(Cooldown - 1)]
      /\ Strikes \in Nat /\ Cooldown \in Nat \ {0}
  BY <1>2, LivelyTyped DEF WalksTyped
<1>4. ASSUME NEW o \in OIDs
      PROVE  /\ dead'[o] \in [strikes : 0..Strikes, skip : BOOLEAN, left : 0..Cooldown]
             /\ dead'[o].strikes = dead[o].strikes /\ dead'[o].skip = dead[o].skip
             /\ dead[o].left = 0 => dead'[o].left = 0
             /\ dead[o].left > 0 => dead'[o].left = dead[o].left - 1
  <2>1. dead'[o] = IF dead[o].left > 0 THEN [dead[o] EXCEPT !.left = @ - 1]
                   ELSE dead[o]
    BY <1>1, WalkNames DEF CO!OneScanLess
  <2>2. dead[o] \in [strikes : 0..Strikes, skip : BOOLEAN, left : 0..Cooldown]
    BY <1>3
  <2> QED
    BY <1>3, <2>1, <2>2
<1>5. dead' = [o \in OIDs |-> dead'[o]]
  BY <1>1, WalkNames DEF CO!OneScanLess
<1>6. WalksTyped'
  <2>1. dead' \in [OIDs -> [strikes : 0..Strikes, skip : BOOLEAN, left : 0..Cooldown]]
    BY <1>4, <1>5
  <2>2. job' \in Jobs /\ todo' \in Lists[job']
    BY <1>1, <1>2, WalkNames DEF WalksTyped, Jobs, Lists
  <2>3. walk' \in [oid : OIDs \cup {"none"}, last : Nat, resumes : Nat]
    BY <1>1, <1>2, WalkNames DEF WalksTyped
  <2> QED
    BY <1>1, <1>2, <2>1, <2>2, <2>3 DEF WalksTyped
<1>7. WalkInv'
  BY <1>1, <1>4 DEF WalksInv, WalkInv, WalksTyped, Lists
<1>8. StrikesInv'
  BY <1>1, <1>2, <1>4 DEF StrikesInv
<1>9. PauseInv'
  <2>1. ASSUME NEW o \in OIDs, dead'[o].left > 0
        PROVE  unasked'[o] + dead'[o].left < Cooldown
    <3>1. dead[o].left \in 0..Cooldown /\ unasked[o] \in 0..(Cooldown - 1)
      BY <1>3
    <3>2. dead[o].left > 0 /\ dead'[o].left = dead[o].left - 1
      BY <1>3, <1>4, <2>1, <3>1
    <3>3. unasked[o] + dead[o].left <= Cooldown
      BY <1>2, <3>2 DEF PauseInv
    <3> QED
      BY <1>1, <1>3, <3>1, <3>2, <3>3
  <2>2. ASSUME NEW o \in OIDs, dead'[o].left > 0
        PROVE  unasked'[o] + dead'[o].left <= Cooldown
    <3>1. dead'[o].left \in Int /\ unasked'[o] \in Int
      BY <1>1, <1>3, <1>4
    <3> QED
      BY <1>3, <2>1, <2>2, <3>1
  <2> QED
    BY <2>1, <2>2 DEF PauseInv
<1> QED
  BY <1>6, <1>7, <1>8, <1>9 DEF WalksInv

\* A job that is over, or a counters cycle: nothing is counted.
LEMMA OtherJobKeeps ==
    ASSUME WalksInv, CO!CollectorAssumption, UNCHANGED <<dead, silence, unasked>>,
           job' \in Jobs, todo' \in Lists[job'],
           job' = "scan" => job = "scan" /\ todo' = todo,
           walk' = CO!NoWalk
    PROVE  WalksInv'
<1>1. WalksTyped /\ StrikesInv /\ PauseInv
  BY DEF WalksInv
<1>2. WalksTyped'
  BY <1>1, WalkNames DEF WalksTyped
<1>3. WalkInv' /\ StrikesInv'
  BY <1>1 DEF WalkInv, StrikesInv
<1>4. PauseInv'
  BY <1>1 DEF PauseInv
<1> QED
  BY <1>2, <1>3, <1>4 DEF WalksInv

LEMMA OpenWalkKeeps ==
    ASSUME WalksInv, CO!CollectorAssumption, CO!OpenWalk PROVE WalksInv'
<1> DEFINE o == Head(todo)
<1>1. /\ todo # <<>> /\ ~(dead[o].skip /\ dead[o].left > 0)
      /\ dead' = IF dead[o].skip THEN [dead EXCEPT ![o] = CO!Lively] ELSE dead
      /\ silence' = IF dead[o].skip THEN [silence EXCEPT ![o] = 0] ELSE silence
      /\ walk' = [CO!NoWalk EXCEPT !.oid = o]
      /\ unasked' = [unasked EXCEPT ![o] = 0]
      /\ job' = job /\ todo' = todo
  BY DEF CO!OpenWalk, CO!Skipped, CO!PauseOver
<1>2. WalksTyped /\ StrikesInv /\ PauseInv
  BY DEF WalksInv
<1>3. o \in OIDs
  BY <1>1, <1>2, ListShape DEF WalksTyped
<1> HIDE DEF o
<1>4. /\ dead \in [OIDs -> [strikes : 0..Strikes, skip : BOOLEAN, left : 0..Cooldown]]
      /\ silence \in [OIDs -> 0..Strikes] /\ unasked \in [OIDs -> 0..(Cooldown - 1)]
      /\ Strikes \in Nat /\ Cooldown \in Nat \ {0}
  BY <1>2, LivelyTyped DEF WalksTyped
<1>5. /\ CO!Lively \in [strikes : 0..Strikes, skip : BOOLEAN, left : 0..Cooldown]
      /\ CO!Lively.strikes = 0 /\ CO!Lively.skip = FALSE /\ CO!Lively.left = 0
  BY LivelyTyped
<1>6. /\ dead' \in [OIDs -> [strikes : 0..Strikes, skip : BOOLEAN, left : 0..Cooldown]]
      /\ silence' \in [OIDs -> 0..Strikes] /\ unasked' \in [OIDs -> 0..(Cooldown - 1)]
  BY <1>1, <1>3, <1>4, <1>5
<1>7. WalksTyped'
  BY <1>1, <1>2, <1>3, <1>6, WalkNames DEF WalksTyped
<1>8. dead'[o].skip = FALSE /\ dead'[o].left = 0 /\ dead'[o].strikes = silence'[o]
      /\ unasked'[o] = 0
  <2>1. dead[o].skip \in BOOLEAN /\ silence[o] = dead[o].strikes
        /\ (dead[o].skip = FALSE => dead[o].left = 0)
    BY <1>2, <1>3, <1>4 DEF StrikesInv
  <2> QED
    BY <1>1, <1>3, <1>4, <1>5, <2>1
<1>9. \A p \in OIDs \ {o} : /\ dead'[p] = dead[p] /\ silence'[p] = silence[p]
                            /\ unasked'[p] = unasked[p]
  BY <1>1, <1>3, <1>4
<1>10. WalkInv'
  BY <1>1, <1>8, WalkNames DEF WalkInv, o
<1>11. StrikesInv'
  BY <1>2, <1>8, <1>9 DEF StrikesInv
<1>12. PauseInv'
  <2>1. ~(dead'[o].left > 0)
    BY <1>8
  <2> QED
    BY <1>1, <1>2, <1>9, <2>1 DEF PauseInv
<1> QED
  BY <1>7, <1>10, <1>11, <1>12 DEF WalksInv

LEMMA SkipWalkKeeps ==
    ASSUME WalksInv, CO!CollectorAssumption, CO!SkipWalk PROVE WalksInv'
<1> DEFINE o == Head(todo)
<1>1. /\ todo # <<>> /\ walk = CO!NoWalk /\ dead[o].skip /\ dead[o].left > 0
      /\ todo' = Tail(todo) /\ UNCHANGED <<job, walk, dead, silence>>
      /\ unasked' = IF job = "scan" /\ unasked[o] < Cooldown
                    THEN [unasked EXCEPT ![o] = @ + 1] ELSE unasked
  BY DEF CO!SkipWalk, CO!Skipped
<1>2. WalksTyped /\ StrikesInv /\ PauseInv
  BY DEF WalksInv
<1>3. /\ o \in OIDs /\ Tail(todo) \in Lists[job] /\ o \notin In(Tail(todo))
      /\ In(Tail(todo)) \subseteq In(todo) /\ o \in In(todo)
  BY <1>1, <1>2, ListShape DEF WalksTyped
<1> HIDE DEF o
<1>4. /\ dead \in [OIDs -> [strikes : 0..Strikes, skip : BOOLEAN, left : 0..Cooldown]]
      /\ unasked \in [OIDs -> 0..(Cooldown - 1)] /\ Cooldown \in Nat \ {0}
  BY <1>2, LivelyTyped DEF WalksTyped
<1>5. dead[o].left \in 0..Cooldown /\ unasked[o] \in 0..(Cooldown - 1)
  BY <1>3, <1>4
<1>6. /\ unasked' \in [OIDs -> 0..(Cooldown - 1)]
      /\ unasked'[o] + dead[o].left <= Cooldown
      /\ \A p \in OIDs \ {o} : unasked'[p] = unasked[p]
  <2>1. CASE job = "scan"
    <3>1. unasked[o] + dead[o].left < Cooldown
      BY <1>1, <1>2, <1>3, <2>1 DEF PauseInv
    <3>2. unasked' = [unasked EXCEPT ![o] = unasked[o] + 1]
      BY <1>1, <1>4, <1>5, <2>1
    <3>3. unasked[o] + 1 \in 0..(Cooldown - 1)
          /\ (unasked[o] + 1) + dead[o].left <= Cooldown
      BY <1>1, <1>4, <1>5, <3>1
    <3> QED
      BY <1>3, <1>4, <3>2, <3>3
  <2>2. CASE job # "scan"
    BY <1>1, <1>2, <1>3, <1>4, <2>2 DEF PauseInv
  <2> QED
    BY <2>1, <2>2
<1>7. WalksTyped'
  BY <1>1, <1>2, <1>3, <1>6 DEF WalksTyped
<1>8. WalkInv' /\ StrikesInv'
  BY <1>1, <1>2 DEF WalkInv, StrikesInv
<1>9. PauseInv'
  <2>1. ASSUME NEW p \in OIDs, dead'[p].left > 0
        PROVE  /\ unasked'[p] + dead'[p].left <= Cooldown
               /\ job' = "scan" /\ p \in In(todo') => unasked'[p] + dead'[p].left < Cooldown
    <3>1. CASE p = o
      BY <1>1, <1>3, <1>6, <3>1
    <3>2. CASE p # o
      BY <1>1, <1>2, <1>3, <1>6, <2>1, <3>2 DEF PauseInv
    <3> QED
      BY <3>1, <3>2
  <2> QED
    BY <2>1 DEF PauseInv
<1> QED
  BY <1>7, <1>8, <1>9 DEF WalksInv

\* A walk that goes on is the same walk.
LEMMA WalkGoesOn ==
    ASSUME WalksInv, UNCHANGED <<job, todo, dead, silence, unasked>>,
           walk # CO!NoWalk, walk' \in [oid : OIDs \cup {"none"}, last : Nat, resumes : Nat],
           walk'.oid = walk.oid
    PROVE  WalksInv'
<1>1. WalksTyped /\ WalkInv /\ StrikesInv /\ PauseInv
  BY DEF WalksInv
<1>2. WalksTyped'
  BY <1>1 DEF WalksTyped
<1>3. WalkInv'
  BY <1>1 DEF WalkInv
<1>4. StrikesInv' /\ PauseInv'
  BY <1>1 DEF StrikesInv, PauseInv
<1> QED
  BY <1>2, <1>3, <1>4 DEF WalksInv

LEMMA RowKeeps == ASSUME WalksInv, CO!Row PROVE WalksInv'
<1>1. /\ walk # CO!NoWalk /\ walk' = [walk EXCEPT !.last = @ + 1]
      /\ UNCHANGED <<job, todo, dead, silence, unasked>>
  BY DEF CO!Row
<1>2. walk \in [oid : OIDs \cup {"none"}, last : Nat, resumes : Nat]
  BY DEF WalksInv, WalksTyped
<1>3. walk'.oid = walk.oid
      /\ walk' \in [oid : OIDs \cup {"none"}, last : Nat, resumes : Nat]
  BY <1>1, <1>2
<1> QED
  BY <1>1, <1>3, WalkGoesOn

LEMMA BreakResumedKeeps == ASSUME WalksInv, CO!BreakResumed PROVE WalksInv'
<1>1. /\ walk # CO!NoWalk /\ walk' = [walk EXCEPT !.resumes = @ + 1]
      /\ UNCHANGED <<job, todo, dead, silence, unasked>>
  BY DEF CO!BreakResumed, CO!Resumed
<1>2. walk \in [oid : OIDs \cup {"none"}, last : Nat, resumes : Nat]
  BY DEF WalksInv, WalksTyped
<1>3. walk'.oid = walk.oid
      /\ walk' \in [oid : OIDs \cup {"none"}, last : Nat, resumes : Nat]
  BY <1>1, <1>2
<1> QED
  BY <1>1, <1>3, WalkGoesOn

\* The end of a walk: the strikes and the silence grow together, and a pause
\* that begins has all of its scans before it.
LEMMA WalkOverKeeps ==
    ASSUME WalksInv, CO!CollectorAssumption, walk # CO!NoWalk, NEW error,
           CO!WalkOver(error), UNCHANGED <<job, unasked>>
    PROVE  WalksInv'
<1> DEFINE o == walk.oid
           quiet == CO!Silent(o, error)
<1>1. WalksTyped /\ WalkInv /\ StrikesInv /\ PauseInv
  BY DEF WalksInv
<1>2. todo # <<>> /\ o = Head(todo) /\ dead[o].skip = FALSE /\ unasked[o] = 0
  BY <1>1 DEF WalkInv
<1>3. /\ o \in OIDs /\ Tail(todo) \in Lists[job] /\ o \notin In(Tail(todo))
      /\ In(Tail(todo)) \subseteq In(todo)
  BY <1>1, <1>2, ListShape DEF WalksTyped
<1>4. /\ walk' = CO!NoWalk /\ todo' = Tail(todo)
      /\ silence' = [silence EXCEPT ![o] = IF ~quiet THEN 0
                         ELSE IF silence[o] < Strikes THEN silence[o] + 1
                         ELSE silence[o]]
      /\ dead' = IF ~quiet THEN [dead EXCEPT ![o] = CO!Lively]
                 ELSE IF Strikes = 0 THEN dead
                 ELSE IF dead[o].strikes + 1 < Strikes
                 THEN [dead EXCEPT ![o].strikes = dead[o].strikes + 1]
                 ELSE [dead EXCEPT ![o] = [strikes |-> Strikes, skip |-> TRUE,
                                           left |-> Cooldown]]
  <2>1. silence \in [OIDs -> 0..Strikes]
        /\ dead \in [OIDs -> [strikes : 0..Strikes, skip : BOOLEAN, left : 0..Cooldown]]
    BY <1>1 DEF WalksTyped
  <2> QED
    BY <2>1, <1>3 DEF CO!WalkOver, CO!Noted
<1> HIDE DEF o, quiet
<1>5. /\ dead \in [OIDs -> [strikes : 0..Strikes, skip : BOOLEAN, left : 0..Cooldown]]
      /\ silence \in [OIDs -> 0..Strikes] /\ unasked \in [OIDs -> 0..(Cooldown - 1)]
      /\ Strikes \in Nat /\ Cooldown \in Nat \ {0}
  BY <1>1, LivelyTyped DEF WalksTyped
<1>6. /\ dead[o] \in [strikes : 0..Strikes, skip : BOOLEAN, left : 0..Cooldown]
      /\ silence[o] = dead[o].strikes /\ dead[o].left = 0
      /\ silence[o] \in 0..Strikes
  BY <1>1, <1>2, <1>3, <1>5 DEF StrikesInv
<1>7. /\ dead'[o] \in [strikes : 0..Strikes, skip : BOOLEAN, left : 0..Cooldown]
      /\ silence'[o] = dead'[o].strikes /\ silence'[o] \in 0..Strikes
      /\ dead'[o].skip = TRUE => dead'[o].strikes = Strikes
      /\ dead'[o].skip = FALSE => dead'[o].left = 0
  <2>1. CASE ~quiet
    <3>1. dead'[o] = CO!Lively /\ silence'[o] = 0
      BY <1>3, <1>4, <1>5, <2>1
    <3> QED
      BY <1>5, <3>1, LivelyTyped
  <2>2. CASE quiet /\ Strikes = 0
    <3>1. dead'[o] = dead[o] /\ silence'[o] = silence[o]
      BY <1>3, <1>4, <1>5, <1>6, <2>2
    <3> QED
      BY <1>2, <1>6, <3>1
  <2>3. CASE quiet /\ Strikes # 0 /\ dead[o].strikes + 1 < Strikes
    <3>1. dead'[o] = [dead[o] EXCEPT !.strikes = dead[o].strikes + 1]
      BY <1>3, <1>4, <1>5, <2>3
    <3>2. silence'[o] = silence[o] + 1
      BY <1>3, <1>4, <1>5, <1>6, <2>3
    <3>3. dead[o].strikes + 1 \in 0..Strikes
      BY <1>5, <1>6, <2>3
    <3> QED
      BY <1>2, <1>6, <3>1, <3>2, <3>3
  <2>4. CASE quiet /\ Strikes # 0 /\ ~(dead[o].strikes + 1 < Strikes)
    <3>1. dead'[o] = [strikes |-> Strikes, skip |-> TRUE, left |-> Cooldown]
      BY <1>3, <1>4, <1>5, <2>4
    <3>2. silence'[o] = Strikes
      BY <1>3, <1>4, <1>5, <1>6, <2>4
    <3> QED
      BY <1>5, <3>1, <3>2
  <2> QED
    BY <2>1, <2>2, <2>3, <2>4
<1>8. \A p \in OIDs \ {o} : dead'[p] = dead[p] /\ silence'[p] = silence[p]
  BY <1>3, <1>4, <1>5
<1>9. dead' \in [OIDs -> [strikes : 0..Strikes, skip : BOOLEAN, left : 0..Cooldown]]
      /\ silence' \in [OIDs -> 0..Strikes]
  <2>1. dead' = [p \in OIDs |-> dead'[p]] /\ silence' = [p \in OIDs |-> silence'[p]]
    BY <1>4, <1>5
  <2>2. \A p \in OIDs :
           /\ dead'[p] \in [strikes : 0..Strikes, skip : BOOLEAN, left : 0..Cooldown]
           /\ silence'[p] \in 0..Strikes
    BY <1>5, <1>7, <1>8
  <2> QED
    BY <2>1, <2>2
<1>10. WalksTyped'
  BY <1>1, <1>3, <1>4, <1>9, WalkNames DEF WalksTyped
<1>11. WalkInv'
  BY <1>4 DEF WalkInv
<1>12. StrikesInv'
  BY <1>1, <1>7, <1>8 DEF StrikesInv
<1>13. PauseInv'
  <2>1. ASSUME NEW p \in OIDs, dead'[p].left > 0
        PROVE  /\ unasked'[p] + dead'[p].left <= Cooldown
               /\ job' = "scan" /\ p \in In(todo') => unasked'[p] + dead'[p].left < Cooldown
    <3>1. CASE p = o
      BY <1>2, <1>3, <1>4, <1>5, <1>7, <3>1
    <3>2. CASE p # o
      BY <1>1, <1>3, <1>4, <1>8, <2>1, <3>2 DEF PauseInv
    <3> QED
      BY <3>1, <3>2
  <2> QED
    BY <2>1 DEF PauseInv
<1> QED
  BY <1>10, <1>11, <1>12, <1>13 DEF WalksInv

LEMMA WalkEndsKeep ==
    ASSUME WalksInv, CO!CollectorAssumption, CO!Finished \/ CO!BreakEnds
    PROVE  WalksInv'
<1>1. CASE CO!Finished
  <2>1. /\ walk # CO!NoWalk /\ CO!WalkOver(status[walk.oid].error)
        /\ UNCHANGED <<job, unasked>>
    BY <1>1 DEF CO!Finished
  <2> QED
    BY <2>1, WalkOverKeeps
<1>2. CASE CO!BreakEnds
  <2>1. PICK error \in CO!Breaks : CO!WalkOver(error)
    BY <1>2 DEF CO!BreakEnds
  <2>2. walk # CO!NoWalk /\ UNCHANGED <<job, unasked>>
    BY <1>2 DEF CO!BreakEnds
  <2> QED
    BY <2>1, <2>2, WalkOverKeeps
<1> QED
  BY <1>1, <1>2

LEMMA WalksKept ==
    ASSUME WalksInv, CO!CollectorAssumption, [CO!Next]_CO!collectorVars
    PROVE  WalksInv'
<1>1. WalksTyped
  BY DEF WalksInv
<1>2. CASE UNCHANGED CO!collectorVars \/ CO!AgentChanges
  <2>1. UNCHANGED <<job, todo, walk, dead, silence, unasked>>
    BY <1>2 DEF CO!collectorVars, CO!reading, CO!AgentChanges
  <2> QED
    BY <2>1 DEF WalksInv, WalksTyped, WalkInv, StrikesInv, PauseInv
<1>3. CASE CO!BudgetEnds \/ CO!CollectEnds \/ CO!SamplesTaken
  <2>1. /\ job' = "idle" /\ todo' = <<>> /\ walk' = CO!NoWalk
        /\ UNCHANGED <<dead, silence, unasked>>
    BY <1>3 DEF CO!BudgetEnds, CO!CollectEnds, CO!SamplesTaken, CO!Walks
  <2>2. job' \in Jobs /\ todo' \in Lists[job']
    BY <2>1 DEF Jobs, Lists
  <2> QED
    BY <2>1, <2>2, OtherJobKeeps
<1>4. CASE CO!BeginCounters
  <2>1. /\ job' = "counters" /\ todo' = <<"hc">> /\ walk' = CO!NoWalk
        /\ UNCHANGED <<dead, silence, unasked>>
    BY <1>4 DEF CO!BeginCounters, CO!Walks
  <2>2. job' \in Jobs /\ todo' \in Lists[job']
    BY <2>1 DEF Jobs, Lists
  <2> QED
    BY <2>1, <2>2, OtherJobKeeps
<1>5. CASE CO!NarrowInstead
  <2>1. /\ job' = "narrow" /\ todo' = <<"c32">> /\ walk' = CO!NoWalk
        /\ UNCHANGED <<dead, silence, unasked>>
    BY <1>5 DEF CO!NarrowInstead
  <2>2. job' \in Jobs /\ todo' \in Lists[job']
    BY <2>1 DEF Jobs, Lists
  <2> QED
    BY <2>1, <2>2, OtherJobKeeps
<1> QED
  BY <1>2, <1>3, <1>4, <1>5, BeginScanKeeps, OpenWalkKeeps, SkipWalkKeeps, RowKeeps,
     BreakResumedKeeps, WalkEndsKeep DEF CO!Next, CO!Work

\* What a job has asked for once it is over, and what an agent may send.
Asked == [idle |-> {}, scan |-> {"descr", "type", "lag", "map", "fdb"},
          counters |-> {"hc"}, narrow |-> {"hc", "c32"}]
Entries == UNION {UNION {CO!Range(Tables(a)[o]) : o \in OIDs} : a \in Agents}
Statuses == [error : {"none", "timeout", "refused", "skipped"}, truncated : BOOLEAN]

\* a walk that has yielded what there is among the first k entries of a table
There(rows, k) == {j \in 1..k : rows[j].there}
Faithful(rows, yield, k) ==
    /\ Len(yield) = Cardinality(There(rows, k))
    /\ \A j \in There(rows, k) : yield[Cardinality(There(rows, j))] = rows[j]

\* The walk under way has yielded the rows up to the last that came, a table
\* that has been walked without an error all of them, and one that is still to
\* be walked none.
ReadTyped == /\ agent \in Agents /\ got \in [OIDs -> Seq(Entries)]
             /\ status \in [OIDs -> Statuses]
UnderWay == walk # CO!NoWalk =>
    /\ walk.last <= Len(Tables(agent)[walk.oid])
    /\ Faithful(Tables(agent)[walk.oid], got[walk.oid], walk.last)
Settled(o) ==
    /\ o \notin Asked[job] \/ o \in In(todo) =>
          got[o] = <<>> /\ status[o] = CO!Blank
    /\ o \in Asked[job] /\ o \notin In(todo) /\ status[o] = CO!Blank =>
          Faithful(Tables(agent)[o], got[o], Len(Tables(agent)[o]))
ReadInv == ReadTyped /\ UnderWay /\ \A o \in OIDs : o # walk.oid => Settled(o)

LEMMA NothingYet == \A t : Faithful(t, <<>>, 0)
<1> SUFFICES ASSUME NEW t PROVE Faithful(t, <<>>, 0)
  OBVIOUS
<1>1. There(t, 0) = {}
  BY DEF There
<1> QED
  BY <1>1, FS_EmptySet DEF Faithful

\* One entry more, which is a row or is not.
LEMMA OneEntryMore ==
    ASSUME NEW S, NEW t \in Seq(S), NEW y \in Seq(S), NEW k \in Nat, k < Len(t),
           Faithful(t, y, k)
    PROVE  /\ t[k + 1].there => Faithful(t, Append(y, t[k + 1]), k + 1)
           /\ ~t[k + 1].there => Faithful(t, y, k + 1)
<1>1. \A j \in Nat : IsFiniteSet(There(t, j)) /\ Cardinality(There(t, j)) \in Nat
  <2>1. ASSUME NEW j \in Nat
        PROVE  IsFiniteSet(There(t, j)) /\ Cardinality(There(t, j)) \in Nat
    <3>1. There(t, j) \in SUBSET (1..j)
      BY DEF There
    <3>0. IsFiniteSet(1..j)
      BY FS_Interval
    <3>2. IsFiniteSet(There(t, j))
      BY <3>0, <3>1, FS_Subset
    <3> QED
      BY <3>2, FS_CardinalityType
  <2> QED
    BY <2>1
<1>2. CASE ~t[k + 1].there
  <2>1. There(t, k + 1) = There(t, k)
    BY <1>2 DEF There
  <2> QED
    BY <1>2, <2>1 DEF Faithful
<1>3. CASE t[k + 1].there
  <2>1. There(t, k + 1) = There(t, k) \cup {k + 1} /\ k + 1 \notin There(t, k)
    BY <1>3 DEF There
  <2>2. Cardinality(There(t, k + 1)) = Cardinality(There(t, k)) + 1
    BY <1>1, <2>1, FS_AddElement
  <2>3. Len(y) = Cardinality(There(t, k))
    BY DEF Faithful
  <2>4. t[k + 1] \in S
    OBVIOUS
  <2>5. Len(Append(y, t[k + 1])) = Cardinality(There(t, k + 1))
    BY <2>2, <2>3, <2>4
  <2>6. ASSUME NEW j \in There(t, k + 1)
        PROVE  Append(y, t[k + 1])[Cardinality(There(t, j))] = t[j]
    <3>1. CASE j = k + 1
      BY <2>2, <2>3, <2>4, <3>1
    <3>2. CASE j # k + 1
      <4>1. j \in There(t, k) /\ j \in Nat /\ j <= k
        BY <2>1, <3>2 DEF There
      <4>2. There(t, j) \in SUBSET There(t, k) /\ j \in There(t, j)
        BY <4>1 DEF There
      <4>3. Cardinality(There(t, j)) <= Cardinality(There(t, k))
        BY <1>1, <4>2, FS_Subset
      <4>4. Cardinality(There(t, j)) # 0
        BY <1>1, <4>1, <4>2, FS_EmptySet
      <4>5. Cardinality(There(t, j)) \in 1..Len(y)
        BY <1>1, <2>3, <4>1, <4>3, <4>4
      <4>6. y[Cardinality(There(t, j))] = t[j]
        BY <4>1 DEF Faithful
      <4> QED
        BY <2>4, <4>5, <4>6
    <3> QED
      BY <3>1, <3>2
  <2> QED
    BY <1>3, <2>5, <2>6 DEF Faithful
<1> QED
  BY <1>2, <1>3

\* A job's list is part of what it asks for.
LEMMA ListAsked ==
    ASSUME NEW j \in Jobs, NEW t \in Lists[j]
    PROVE  /\ In(t) \subseteq Asked[j] /\ Asked[j] \subseteq OIDs
           /\ t # <<>> => In(t) = {Head(t)} \cup In(Tail(t))
<1>1. /\ In(<<"descr", "type", "lag", "map", "fdb">>) = {"descr", "type", "lag", "map", "fdb"}
      /\ In(<<"type", "lag", "map", "fdb">>) = {"type", "lag", "map", "fdb"}
      /\ In(<<"lag", "map", "fdb">>) = {"lag", "map", "fdb"}
      /\ In(<<"map", "fdb">>) = {"map", "fdb"} /\ In(<<"fdb">>) = {"fdb"}
      /\ In(<<"hc">>) = {"hc"} /\ In(<<"c32">>) = {"c32"} /\ In(<<>>) = {}
  BY DEF In
<1>2. Asked[j] \subseteq OIDs
  BY DEF Asked, Jobs, OIDs
<1>3. In(t) \subseteq Asked[j]
  <2>1. CASE j = "scan"
    BY <1>1, <2>1 DEF Asked, Lists
  <2>2. CASE j # "scan"
    BY <1>1, <2>2 DEF Asked, Lists, Jobs
  <2> QED
    BY <2>1, <2>2
<1>4. ASSUME t # <<>> PROVE In(t) = {Head(t)} \cup In(Tail(t))
  <2>1. t \in {<<"descr", "type", "lag", "map", "fdb">>, <<"type", "lag", "map", "fdb">>,
               <<"lag", "map", "fdb">>, <<"map", "fdb">>, <<"fdb">>, <<"hc">>, <<"c32">>}
    BY <1>4 DEF Lists, Jobs
  <2>2. ASSUME NEW u, t = <<u>> PROVE In(t) = {Head(t)} \cup In(Tail(t))
    <3>1. Head(t) = u /\ Tail(t) = <<>> /\ Len(t) = 1 /\ t[1] = u
      BY <2>2
    <3>2. In(t) = {u}
      BY <3>1 DEF In
    <3> QED
      BY <1>1, <3>1, <3>2
  <2>3. CASE t = <<"map", "fdb">>
    <3>1. Head(t) = "map" /\ Tail(t) = <<"fdb">>
      BY <2>3
    <3> QED
      BY <1>1, <2>3, <3>1
  <2>4. CASE t = <<"lag", "map", "fdb">>
    <3>1. Head(t) = "lag" /\ Tail(t) = <<"map", "fdb">>
      BY <2>4
    <3> QED
      BY <1>1, <2>4, <3>1
  <2>5. CASE t = <<"type", "lag", "map", "fdb">>
    <3>1. Head(t) = "type" /\ Tail(t) = <<"lag", "map", "fdb">>
      BY <2>5
    <3> QED
      BY <1>1, <2>5, <3>1
  <2>6. CASE t = <<"descr", "type", "lag", "map", "fdb">>
    <3>1. Head(t) = "descr" /\ Tail(t) = <<"type", "lag", "map", "fdb">>
      BY <2>6
    <3> QED
      BY <1>1, <2>6, <3>1
  <2> QED
    BY <2>1, <2>2, <2>3, <2>4, <2>5, <2>6
<1> QED
  BY <1>2, <1>3, <1>4

\* What the agents may have in their tables.
LEMMA TableParts ==
    ASSUME CO!CollectorAssumption, NEW a \in Agents, NEW o \in OIDs
    PROVE  /\ Tables(a)[o] \in Seq(Entries) /\ Len(Tables(a)[o]) \in Nat
           /\ \A r \in CO!Range(Tables(a)["c32"]) : r.at \in Nat \ {0}
<1>1. /\ Tables(a)[o] \in Seq(CO!Range(Tables(a)[o]))
      /\ \A r \in CO!Range(Tables(a)["c32"]) : r.at \in Nat \ {0}
  BY WalkNames DEF CO!CollectorAssumption
<1>2. CO!Range(Tables(a)[o]) \subseteq Entries
  BY DEF Entries
<1>3. Len(Tables(a)[o]) \in Nat
  BY <1>1
<1>4. Tables(a)[o] \in Seq(Entries)
  BY <1>1, <1>2, <1>3
<1> QED
  BY <1>1, <1>3, <1>4

\* A table nobody has asked for, and a job that begins or is over.
LEMMA ReadAfresh ==
    ASSUME ReadInv, WalksInv', CO!CollectorAssumption, agent' = agent,
           got' = CO!Unread, status' = CO!Fine, walk' = CO!NoWalk,
           job' \in Jobs, Asked[job'] \subseteq In(todo')
    PROVE  ReadInv'
<1>1. got' = [o \in OIDs |-> <<>>] /\ status' = [o \in OIDs |-> CO!Blank]
  BY WalkNames DEF CO!Unread, CO!Fine
<1>2. CO!Blank \in Statuses /\ <<>> \in Seq(Entries)
  BY DEF CO!Blank, Statuses
<1>3. ReadTyped'
  BY <1>1, <1>2 DEF ReadInv, ReadTyped
<1>4. UnderWay' /\ \A o \in OIDs : Settled(o)'
  BY <1>1 DEF UnderWay, Settled
<1> QED
  BY <1>3, <1>4 DEF ReadInv

LEMMA JobLists ==
    /\ In(<<"descr", "type", "lag", "map", "fdb">>) = Asked["scan"]
    /\ In(<<"hc">>) = Asked["counters"] /\ In(<<"c32">>) = {"c32"}
    /\ In(<<>>) = {} /\ Asked["idle"] = {} /\ Asked["narrow"] = {"hc", "c32"}
    /\ Asked["counters"] = {"hc"}
BY DEF In, Asked

LEMMA ReadJobs ==
    ASSUME ReadInv, WalksInv', CO!CollectorAssumption,
           \/ CO!BudgetEnds \/ CO!CollectEnds \/ CO!SamplesTaken \/ CO!BeginCounters
           \/ (CO!BeginScan /\ ~UNCHANGED CO!reading)
    PROVE  ReadInv'
<1>1. PICK kind \in Jobs, list \in {<<>>, <<"hc">>, CO!ScanWalks} :
         /\ CO!Walks(kind, list) /\ Asked[kind] \subseteq In(list)
         /\ agent' = agent
  <2>1. CASE CO!BudgetEnds \/ CO!CollectEnds \/ CO!SamplesTaken
    <3>1. CO!Walks("idle", <<>>) /\ agent' = agent
      BY <2>1 DEF CO!BudgetEnds, CO!CollectEnds, CO!SamplesTaken
    <3> QED
      BY <3>1, JobLists DEF Jobs
  <2>2. CASE CO!BeginCounters
    <3>1. CO!Walks("counters", <<"hc">>) /\ agent' = agent
      BY <2>2 DEF CO!BeginCounters
    <3> QED
      BY <3>1, JobLists DEF Jobs
  <2>3. CASE CO!BeginScan /\ ~UNCHANGED CO!reading
    <3>1. CO!Walks("scan", CO!ScanWalks) /\ agent' = agent
      BY <2>3 DEF CO!BeginScan
    <3> QED
      BY <3>1, JobLists, WalkNames DEF Jobs
  <2> QED
    BY <2>1, <2>2, <2>3
<1> QED
  BY <1>1, ReadAfresh DEF CO!Walks

\* Nothing that is read or has been is touched, and the switch has the tables
\* it had.
LEMMA ReadStays ==
    ASSUME ReadInv, agent' \in Agents, Tables(agent') = Tables(agent),
           UNCHANGED <<job, todo, walk, got, status>>
    PROVE  ReadInv'
<1>1. ReadTyped' /\ UnderWay'
  BY DEF ReadInv, ReadTyped, UnderWay
<1>2. \A o \in OIDs : Settled(o)' = Settled(o)
  BY DEF Settled
<1> QED
  BY <1>1, <1>2 DEF ReadInv

LEMMA ReadOpens ==
    ASSUME WalksInv, ReadInv, CO!CollectorAssumption, CO!OpenWalk PROVE ReadInv'
<1> DEFINE o == Head(todo)
<1>1. /\ job # "idle" /\ walk = CO!NoWalk /\ todo # <<>>
      /\ walk' = [CO!NoWalk EXCEPT !.oid = o]
      /\ UNCHANGED <<agent, job, todo, got, status>>
  BY DEF CO!OpenWalk
<1>2. job \in Jobs /\ todo \in Lists[job]
  BY DEF WalksInv, WalksTyped
<1>3. o \in OIDs /\ o \in In(todo)
  BY <1>1, <1>2, ListShape
<1> HIDE DEF o
<1>4. walk'.oid = o /\ walk'.last = 0 /\ walk.oid = "none"
  BY <1>1, WalkNames DEF CO!NoWalk
<1>5. \A p \in OIDs : Settled(p) /\ (Settled(p)' = Settled(p))
  BY <1>1, <1>4 DEF ReadInv, Settled, OIDs
<1>6. got[o] = <<>>
  BY <1>3, <1>5 DEF Settled
<1>7. Len(Tables(agent)[o]) \in Nat
  BY <1>3, TableParts DEF ReadInv, ReadTyped
<1>8. UnderWay'
  BY <1>1, <1>4, <1>6, <1>7, NothingYet DEF UnderWay
<1>9. ReadTyped'
  BY <1>1 DEF ReadInv, ReadTyped
<1> QED
  BY <1>5, <1>8, <1>9 DEF ReadInv

LEMMA ReadSkips ==
    ASSUME WalksInv, ReadInv, CO!CollectorAssumption, CO!SkipWalk PROVE ReadInv'
<1> DEFINE o == Head(todo)
<1>1. /\ walk = CO!NoWalk /\ todo # <<>> /\ todo' = Tail(todo)
      /\ status' = [status EXCEPT ![o].error = "skipped"]
      /\ UNCHANGED <<agent, job, walk, got>>
  BY DEF CO!SkipWalk
<1>2. job \in Jobs /\ todo \in Lists[job]
  BY DEF WalksInv, WalksTyped
<1>3. /\ o \in OIDs /\ o \in In(todo) /\ o \notin In(todo')
      /\ In(todo) = {o} \cup In(todo') /\ o \in Asked[job]
  BY <1>1, <1>2, ListShape, ListAsked
<1> HIDE DEF o
<1>4. status \in [OIDs -> Statuses]
  BY DEF ReadInv, ReadTyped
<1>5. /\ status'[o].error = "skipped" /\ status'[o] \in Statuses
      /\ \A p \in OIDs \ {o} : status'[p] = status[p]
      /\ status' \in [OIDs -> Statuses]
  <2>1. status[o] \in Statuses
    BY <1>3, <1>4
  <2>2. [status[o] EXCEPT !.error = "skipped"] \in Statuses
    BY <2>1 DEF Statuses
  <2>3. status' = [status EXCEPT ![o] = [status[o] EXCEPT !.error = "skipped"]]
    BY <1>1, <1>3, <1>4
  <2>4. status'[o] = [status[o] EXCEPT !.error = "skipped"]
    BY <1>3, <1>4, <2>3
  <2>5. status'[o].error = "skipped"
    BY <2>1, <2>4 DEF Statuses
  <2> QED
    BY <1>3, <1>4, <2>2, <2>3, <2>4, <2>5
<1>6. status'[o] # CO!Blank
  BY <1>5 DEF CO!Blank
<1>7. walk.oid \notin OIDs
  BY <1>1, WalkNames DEF OIDs
<1>8. ASSUME NEW p \in OIDs PROVE Settled(p)'
  <2>1. Settled(p)
    BY <1>7 DEF ReadInv
  <2>2. CASE p = o
    BY <1>1, <1>3, <1>6, <2>2 DEF Settled
  <2>3. CASE p # o
    BY <1>1, <1>3, <1>5, <2>1, <2>3 DEF Settled
  <2> QED
    BY <2>2, <2>3
<1>9. ReadTyped' /\ UnderWay'
  BY <1>1, <1>5 DEF ReadInv, ReadTyped, UnderWay
<1> QED
  BY <1>8, <1>9 DEF ReadInv

\* The table of the walk under way is the next one, and asked for.
LEMMA ItsTable ==
    ASSUME WalksInv, CO!CollectorAssumption, ReadInv, walk # CO!NoWalk
    PROVE  /\ walk.oid \in OIDs /\ walk.oid \in In(todo) /\ walk.oid \in Asked[job]
           /\ walk.oid \notin In(Tail(todo))
           /\ In(todo) = {walk.oid} \cup In(Tail(todo))
           /\ walk.last \in Nat /\ walk.last <= Len(Tables(agent)[walk.oid])
           /\ Len(Tables(agent)[walk.oid]) \in Nat
           /\ Tables(agent)[walk.oid] \in Seq(Entries)
           /\ Faithful(Tables(agent)[walk.oid], got[walk.oid], walk.last)
<1>1. job \in Jobs /\ todo \in Lists[job] /\ todo # <<>> /\ walk.oid = Head(todo)
      /\ walk.last \in Nat
  BY DEF WalksInv, WalksTyped, WalkInv
<1>2. walk.oid \in OIDs /\ walk.oid \in In(todo) /\ walk.oid \in Asked[job]
      /\ walk.oid \notin In(Tail(todo))
      /\ In(todo) = {walk.oid} \cup In(Tail(todo))
  BY <1>1, ListShape, ListAsked
<1>3. walk.last <= Len(Tables(agent)[walk.oid])
      /\ Faithful(Tables(agent)[walk.oid], got[walk.oid], walk.last)
  BY DEF ReadInv, UnderWay
<1>4. Len(Tables(agent)[walk.oid]) \in Nat /\ Tables(agent)[walk.oid] \in Seq(Entries)
  BY <1>2, TableParts DEF ReadInv, ReadTyped
<1> QED
  BY <1>1, <1>2, <1>3, <1>4

LEMMA ReadRow ==
    ASSUME WalksInv, ReadInv, CO!CollectorAssumption, CO!Row PROVE ReadInv'
<1> DEFINE o == walk.oid
           t == Tables(agent)[o]
<1>1. /\ walk # CO!NoWalk /\ walk.last < Len(t)
      /\ walk' = [walk EXCEPT !.last = walk.last + 1]
      /\ got' = IF t[walk.last + 1].there
                THEN [got EXCEPT ![o] = Append(got[o], t[walk.last + 1])] ELSE got
      /\ UNCHANGED <<agent, job, todo, status>>
  <2>1. walk # CO!NoWalk
    BY DEF CO!Row
  <2>2. walk.oid \in OIDs /\ got \in [OIDs -> Seq(Entries)]
    BY <2>1, ItsTable DEF ReadInv, ReadTyped
  <2>3. [got EXCEPT ![o] = Append(@, t[walk.last + 1])]
           = [got EXCEPT ![o] = Append(got[o], t[walk.last + 1])]
    BY <2>2
  <2>4. walk \in [oid : OIDs \cup {"none"}, last : Nat, resumes : Nat]
    BY DEF WalksInv, WalksTyped
  <2> QED
    BY <2>3, <2>4 DEF CO!Row, CO!Rows, CO!IsRow
<1>2. /\ o \in OIDs /\ walk.last \in Nat /\ Len(t) \in Nat /\ t \in Seq(Entries)
      /\ Faithful(t, got[o], walk.last)
  BY <1>1, ItsTable
<1>3. got \in [OIDs -> Seq(Entries)] /\ got[o] \in Seq(Entries)
  BY <1>2 DEF ReadInv, ReadTyped
<1>4. walk'.oid = o /\ walk'.last = walk.last + 1
  <2>1. walk \in [oid : OIDs \cup {"none"}, last : Nat, resumes : Nat]
    BY DEF WalksInv, WalksTyped
  <2> QED
    BY <1>1, <2>1
<1> HIDE DEF o, t
<1>5. t[walk.last + 1] \in Entries
  BY <1>1, <1>2
<1>6. /\ got' \in [OIDs -> Seq(Entries)]
      /\ \A p \in OIDs \ {o} : got'[p] = got[p]
      /\ Faithful(t, got'[o], walk.last + 1)
  <2>1. CASE t[walk.last + 1].there
    <3>1. Append(got[o], t[walk.last + 1]) \in Seq(Entries)
      BY <1>3, <1>5
    <3>2. got' = [got EXCEPT ![o] = Append(got[o], t[walk.last + 1])]
      BY <1>1, <2>1
    <3>3. Faithful(t, Append(got[o], t[walk.last + 1]), walk.last + 1)
      BY <1>1, <1>2, <1>3, <2>1, OneEntryMore
    <3> QED
      BY <1>2, <1>3, <3>1, <3>2, <3>3
  <2>2. CASE ~t[walk.last + 1].there
    <3>1. got' = got
      BY <1>1, <2>2
    <3>2. Faithful(t, got[o], walk.last + 1)
      BY <1>1, <1>2, <1>3, <2>2, OneEntryMore
    <3> QED
      BY <1>3, <3>1, <3>2
  <2> QED
    BY <2>1, <2>2
<1>7. ReadTyped'
  BY <1>1, <1>6 DEF ReadInv, ReadTyped
<1>8. UnderWay'
  <2>1. walk.last + 1 <= Len(t)
    BY <1>1, <1>2
  <2> QED
    BY <1>1, <1>4, <1>6, <2>1 DEF UnderWay, t
<1>9. ASSUME NEW p \in OIDs, p # walk'.oid PROVE Settled(p)'
  <2>1. Settled(p) /\ got'[p] = got[p]
    BY <1>4, <1>6, <1>9 DEF ReadInv, o
  <2> QED
    BY <1>1, <2>1 DEF Settled
<1> QED
  BY <1>7, <1>8, <1>9 DEF ReadInv

LEMMA ReadResumes ==
    ASSUME WalksInv, ReadInv, CO!CollectorAssumption, CO!BreakResumed PROVE ReadInv'
<1> DEFINE o == walk.oid
<1>1. PICK error \in CO!Breaks : status' = [status EXCEPT ![o].error = error]
  BY DEF CO!BreakResumed
<1>2. /\ walk # CO!NoWalk /\ walk' = [walk EXCEPT !.resumes = @ + 1]
      /\ UNCHANGED <<agent, job, todo, got>>
  BY DEF CO!BreakResumed, CO!Resumed
<1>3. /\ walk'.oid = o /\ walk'.last = walk.last
  <2>1. walk \in [oid : OIDs \cup {"none"}, last : Nat, resumes : Nat]
    BY DEF WalksInv, WalksTyped
  <2> QED
    BY <1>2, <2>1
<1>4. error \in {"timeout", "refused"}
  BY DEF CO!Breaks
<1>5. status \in [OIDs -> Statuses] /\ o \in OIDs
  BY <1>2, ItsTable DEF ReadInv, ReadTyped
<1>6. status' \in [OIDs -> Statuses] /\ \A p \in OIDs \ {o} : status'[p] = status[p]
  <2>1. [status[o] EXCEPT !.error = error] \in Statuses
    BY <1>4, <1>5 DEF Statuses
  <2> QED
    BY <1>1, <1>5, <2>1
<1>7. ReadTyped'
  BY <1>2, <1>6 DEF ReadInv, ReadTyped
<1>8. UnderWay'
  BY <1>2, <1>3 DEF ReadInv, UnderWay
<1>9. ASSUME NEW p \in OIDs, p # walk'.oid PROVE Settled(p)'
  <2>1. Settled(p) /\ status'[p] = status[p]
    BY <1>3, <1>6, <1>9 DEF ReadInv
  <2> QED
    BY <1>2, <2>1 DEF Settled
<1> QED
  BY <1>7, <1>8, <1>9 DEF ReadInv

LEMMA ReadEnds ==
    ASSUME WalksInv, ReadInv, CO!CollectorAssumption, CO!Finished \/ CO!BreakEnds
    PROVE  ReadInv'
<1> DEFINE o == walk.oid
<1>1. /\ walk # CO!NoWalk /\ walk' = CO!NoWalk /\ todo' = Tail(todo)
      /\ UNCHANGED <<agent, job, got>>
  BY DEF CO!Finished, CO!BreakEnds, CO!WalkOver
<1>2. /\ o \in OIDs /\ o \in In(todo) /\ o \in Asked[job] /\ o \notin In(todo')
      /\ In(todo) = {o} \cup In(todo')
      /\ Faithful(Tables(agent)[o], got[o], walk.last)
  BY <1>1, ItsTable
<1>3. status \in [OIDs -> Statuses]
  BY DEF ReadInv, ReadTyped
<1>4. /\ status' \in [OIDs -> Statuses] /\ \A p \in OIDs \ {o} : status'[p] = status[p]
      /\ status'[o] # CO!Blank \/ walk.last = Len(Tables(agent)[o])
  <2>1. CASE CO!Finished
    <3>1. status' = status /\ walk.last = Len(Tables(agent)[o])
      BY <2>1 DEF CO!Finished, CO!Rows
    <3> QED
      BY <1>3, <3>1
  <2>2. CASE CO!BreakEnds
    <3>1. PICK error \in CO!Breaks : status' = [status EXCEPT ![o] =
              [error |-> error, truncated |-> got[o] # <<>>]]
      BY <2>2 DEF CO!BreakEnds
    <3>2. error \in {"timeout", "refused"}
      BY DEF CO!Breaks
    <3> DEFINE s == [error |-> error, truncated |-> got[o] # <<>>]
    <3>3. s \in Statuses /\ s # CO!Blank
      BY <3>2 DEF Statuses, CO!Blank
    <3>4. status' = [status EXCEPT ![o] = s]
      BY <3>1
    <3> HIDE DEF s
    <3> QED
      BY <1>2, <1>3, <3>3, <3>4
  <2> QED
    BY <2>1, <2>2
<1>5. walk'.oid \notin OIDs
  BY <1>1, WalkNames DEF OIDs
<1>6. ASSUME NEW p \in OIDs PROVE Settled(p)'
  <2>1. CASE p = o
    BY <1>1, <1>2, <1>4, <2>1 DEF Settled
  <2>2. CASE p # o
    <3>1. Settled(p) /\ status'[p] = status[p]
      BY <1>4, <2>2 DEF ReadInv
    <3> QED
      BY <1>1, <1>2, <2>2, <3>1 DEF Settled
  <2> QED
    BY <2>1, <2>2
<1>7. ReadTyped' /\ UnderWay'
  BY <1>1, <1>4 DEF ReadInv, ReadTyped, UnderWay
<1> QED
  BY <1>6, <1>7 DEF ReadInv

LEMMA ReadNarrow ==
    ASSUME WalksInv, ReadInv, CO!CollectorAssumption, CO!NarrowInstead PROVE ReadInv'
<1>1. /\ job = "counters" /\ walk = CO!NoWalk /\ todo = <<>>
      /\ todo' = <<"c32">> /\ job' = "narrow" /\ UNCHANGED <<agent, walk, got, status>>
  BY DEF CO!NarrowInstead
<1>2. walk.oid \notin OIDs
  BY <1>1, WalkNames DEF OIDs
<1>3. ASSUME NEW p \in OIDs PROVE Settled(p)'
  <2>1. Settled(p)
    BY <1>2 DEF ReadInv
  <2> QED
    BY <1>1, <2>1, JobLists DEF Settled
<1>4. ReadTyped' /\ UnderWay'
  BY <1>1 DEF ReadInv, ReadTyped, UnderWay
<1> QED
  BY <1>3, <1>4 DEF ReadInv

LEMMA ReadKept ==
    ASSUME WalksInv, ReadInv, CO!CollectorAssumption, [CO!Next]_CO!collectorVars
    PROVE  ReadInv'
<1>1. WalksInv'
  BY WalksKept
<1>2. CASE \/ UNCHANGED CO!collectorVars \/ CO!AgentChanges
           \/ (CO!BeginScan /\ UNCHANGED CO!reading)
  <2>1. agent' \in Agents /\ Tables(agent') = Tables(agent)
        /\ UNCHANGED <<job, todo, walk, got, status>>
    BY <1>2 DEF CO!collectorVars, CO!reading, CO!AgentChanges, CO!SameSwitch,
       CO!BeginScan, ReadInv, ReadTyped
  <2> QED
    BY <2>1, ReadStays
<1> QED
  BY <1>1, <1>2, ReadJobs, ReadOpens, ReadSkips, ReadRow, ReadResumes, ReadEnds,
     ReadNarrow DEF CO!Next, CO!Work

LEMMA ReadBegin == ASSUME CO!CollectorAssumption, CO!Init PROVE ReadInv
<1>1. /\ job = "idle" /\ todo = <<>> /\ walk = CO!NoWalk /\ agent \in Agents
      /\ got = [o \in OIDs |-> <<>>] /\ status = [o \in OIDs |-> CO!Blank]
  BY WalkNames DEF CO!Init, CO!Unread, CO!Fine
<1>2. CO!Blank \in Statuses /\ <<>> \in Seq(Entries)
  BY DEF CO!Blank, Statuses
<1>3. ReadTyped /\ UnderWay
  BY <1>1, <1>2 DEF ReadTyped, UnderWay
<1>4. \A o \in OIDs : Settled(o)
  BY <1>1, JobLists DEF Settled
<1> QED
  BY <1>3, <1>4 DEF ReadInv

\* A row is yielded once and in order.
LEMMA OnceInOrder == ASSUME WalksInv, ReadInv, CO!CollectorAssumption PROVE CO!ReadOnce
<1>1. ASSUME NEW o, NEW k, Faithful(Tables(agent)[o], got[o], k) PROVE CO!Yielded(o, k)
  <2>1. \A j : CO!RowsTo(o, j) = There(Tables(agent)[o], j)
    BY DEF There, CO!RowsTo, CO!Rows, CO!IsRow
  <2> DEFINE t == Tables(agent)[o]
  <2>2. /\ Len(got[o]) = Cardinality(There(t, k))
        /\ \A j \in There(t, k) : got[o][Cardinality(There(t, j))] = t[j]
    BY <1>1 DEF Faithful
  <2>0. \A S : CO!Cardinality(S) = Cardinality(S)
    BY DEF CO!Cardinality, CO!IsFiniteSet, Cardinality, IsFiniteSet
  <2>3. Len(got[o]) = CO!Cardinality(CO!RowsTo(o, k))
    BY <2>0, <2>1, <2>2
  <2>4. ASSUME NEW j \in CO!RowsTo(o, k)
        PROVE  got[o][CO!Cardinality(CO!RowsTo(o, j))] = CO!Rows(o)[j]
    BY <2>0, <2>1, <2>2 DEF CO!Rows
  <2> QED
    BY <2>3, <2>4 DEF CO!Yielded
<1>2. walk # CO!NoWalk => CO!Yielded(walk.oid, walk.last)
  BY <1>1 DEF ReadInv, UnderWay
<1>3. ASSUME NEW o \in OIDs, o # walk.oid, CO!Complete(o), got[o] # <<>>
      PROVE  CO!Yielded(o, Len(CO!Rows(o)))
  <2>1. Faithful(Tables(agent)[o], got[o], Len(Tables(agent)[o]))
    BY <1>3 DEF ReadInv, Settled, CO!Complete
  <2> QED
    BY <1>1, <2>1 DEF CO!Rows
<1> QED
  BY <1>2, <1>3, WalkNames DEF CO!ReadOnce

\* What a faithful yield has of a row.
LEMMA RowYielded ==
    ASSUME NEW S, NEW t \in Seq(S), NEW y \in Seq(S), NEW r \in CO!Range(t), r.there,
           Faithful(t, y, Len(t))
    PROVE  r \in CO!Range(y)
<1>1. PICK j \in 1..Len(t) : t[j] = r
  BY DEF CO!Range
<1>2. /\ j \in There(t, Len(t)) /\ j \in There(t, j)
      /\ There(t, j) \in SUBSET There(t, Len(t)) /\ There(t, Len(t)) \in SUBSET (1..Len(t))
  BY <1>1 DEF There
<1>3. IsFiniteSet(1..Len(t))
  BY FS_Interval
<1>4. IsFiniteSet(There(t, Len(t)))
  BY <1>2, <1>3, FS_Subset
<1>5. IsFiniteSet(There(t, j)) /\ Cardinality(There(t, j)) <= Cardinality(There(t, Len(t)))
  BY <1>2, <1>4, FS_Subset
<1>6. Cardinality(There(t, j)) \in Nat /\ Cardinality(There(t, j)) # 0
  BY <1>2, <1>5, FS_CardinalityType, FS_EmptySet
<1>7. Cardinality(There(t, j)) \in 1..Len(y) /\ y[Cardinality(There(t, j))] = r
  BY <1>1, <1>2, <1>5, <1>6 DEF Faithful
<1> QED
  BY <1>7 DEF CO!Range

\* The samples of a cycle, after the columns it walked.
LEMMA SamplesRight ==
    ASSUME WalksInv, ReadInv, CO!CollectorAssumption, CO!SamplesTaken
    PROVE  /\ \A i \in DOMAIN samples' : (samples'[i] = "hc") = (i \in CO!At("hc"))
           /\ "c32" \notin agent.deaf /\ CO!Complete("c32") =>
                \A i \in data.ports :
                   (\E r \in CO!Range(CO!Rows("c32")) : r.at = i /\ CO!IsRow(r))
                   => \/ i \in DOMAIN samples'
                      \/ got["hc"] # <<>> /\ ~status["hc"].truncated
<1>1. /\ walk = CO!NoWalk /\ todo = <<>>
      /\ \/ job = "counters" /\ got["hc"] # <<>>
         \/ job = "narrow"
      /\ samples' = [i \in CO!At("hc") \cup CO!At("c32") \cup CO!Gaps |->
                         IF i \in CO!At("hc") THEN "hc" ELSE "c32"]
  BY DEF CO!SamplesTaken, CO!Samples
<1>2. \A i \in DOMAIN samples' : (samples'[i] = "hc") = (i \in CO!At("hc"))
  BY <1>1
<1>3. ASSUME "c32" \notin agent.deaf, CO!Complete("c32"), NEW i \in data.ports,
             NEW r \in CO!Range(CO!Rows("c32")), r.at = i, CO!IsRow(r),
             ~(got["hc"] # <<>> /\ ~status["hc"].truncated)
      PROVE  i \in DOMAIN samples'
  <2>1. /\ agent \in Agents /\ Tables(agent)["c32"] \in Seq(Entries)
        /\ got["c32"] \in Seq(Entries) /\ "c32" \in OIDs
        /\ r \in CO!Range(Tables(agent)["c32"]) /\ r.there /\ r.at \in Nat \ {0}
    BY <1>3, TableParts DEF ReadInv, ReadTyped, OIDs, CO!Rows, CO!IsRow
  <2>2. CASE job = "narrow"
    <3>1. walk.oid # "c32" /\ "c32" \in Asked[job] /\ "c32" \notin In(todo)
      BY <1>1, <2>2, JobLists, WalkNames
    <3>2. Faithful(Tables(agent)["c32"], got["c32"], Len(Tables(agent)["c32"]))
      BY <1>3, <2>1, <3>1 DEF ReadInv, Settled, CO!Complete
    <3>3. r \in CO!Read("c32")
      BY <2>1, <3>2, RowYielded DEF CO!Read
    <3>4. i \in CO!At("c32")
      BY <1>3, <3>3 DEF CO!At
    <3> QED
      BY <1>1, <3>4
  <2>3. CASE job # "narrow"
    <3>1. got["hc"] # <<>> /\ status["hc"].truncated
      <4>1. status["hc"] \in Statuses
        BY DEF ReadInv, ReadTyped, OIDs
      <4> QED
        BY <1>1, <1>3, <2>3, <4>1 DEF Statuses
    <3>2. i \in CO!At("hc") \/ i \in CO!Missed
      BY <1>3, <2>1 DEF CO!Missed
    <3>3. i \in CO!At("hc") \/ i \in CO!Gaps
      BY <1>3, <3>1, <3>2 DEF CO!Gaps
    <3> QED
      BY <1>1, <3>3
  <2> QED
    BY <2>2, <2>3
<1> QED
  BY <1>2, <1>3

\* However its walks broke and were opened again, a table's rows are read once
\* and in order; and a table is left alone only after Strikes walks in a row
\* found it silent, and for fewer than Cooldown scans in a row
\* (snmp_collector.py: _walk, _skipping, _note_walk_outcome, begin_scan_cycle).
LEMMA CollectorReads ==
    CO!CollectorAssumption => (CO!Spec => [](CO!ReadOnce /\ CO!PausedForSilence))
<1> SUFFICES ASSUME CO!CollectorAssumption
             PROVE  CO!Spec => [](CO!ReadOnce /\ CO!PausedForSilence)
  OBVIOUS
<1>1. CO!Init => WalksInv /\ ReadInv
  BY WalksInit, ReadBegin
<1>2. WalksInv /\ ReadInv /\ [CO!Next]_CO!collectorVars => WalksInv' /\ ReadInv'
  BY WalksKept, ReadKept
<1>3. WalksInv /\ ReadInv => CO!ReadOnce /\ CO!PausedForSilence
  <2>1. ASSUME WalksInv, NEW o \in OIDs
        PROVE  /\ CO!Skipped(o) => silence[o] >= Strikes
               /\ unasked[o] < Cooldown
    <3>1. /\ dead[o].skip \in BOOLEAN /\ unasked[o] \in 0..(Cooldown - 1)
          /\ Strikes \in Nat /\ Cooldown \in Nat
      BY <2>1, LivelyTyped DEF WalksInv, WalksTyped
    <3>2. dead[o].skip => silence[o] = Strikes
      BY <2>1, <3>1 DEF WalksInv, StrikesInv
    <3> QED
      BY <3>1, <3>2 DEF CO!Skipped
  <2> QED
    BY <2>1, WalkNames, OnceInOrder DEF CO!PausedForSilence
<1> QED
  BY <1>1, <1>2, <1>3, PTL DEF CO!Spec

\* The samples a counters cycle keeps say which column they are from, and no
\* port the agent counts is left out of a column read to its end
\* (snmp_collector.py: collect_samples, fill_gaps).
LEMMA CollectorSamples == CO!CollectorAssumption => (CO!Spec => CO!SamplesAreTrue)
<1> SUFFICES ASSUME CO!CollectorAssumption PROVE CO!Spec => CO!SamplesAreTrue
  OBVIOUS
<1>1. CO!Init => WalksInv /\ ReadInv
  BY WalksInit, ReadBegin
<1>2. WalksInv /\ ReadInv /\ [CO!Next]_CO!collectorVars => WalksInv' /\ ReadInv'
  BY WalksKept, ReadKept
<1> DEFINE Right ==
      /\ \A i \in DOMAIN samples' : (samples'[i] = "hc") = (i \in CO!At("hc"))
      /\ "c32" \notin agent.deaf /\ CO!Complete("c32") =>
           \A i \in data.ports :
              (\E r \in CO!Range(CO!Rows("c32")) : r.at = i /\ CO!IsRow(r))
              => \/ i \in DOMAIN samples'
                 \/ got["hc"] # <<>> /\ ~status["hc"].truncated
<1>3. WalksInv /\ ReadInv => [CO!SamplesTaken => Right]_CO!collectorVars
  BY SamplesRight
<1> QED
  BY <1>1, <1>2, <1>3, PTL DEF CO!Spec, CO!SamplesAreTrue

\* What has been read of a table is of the table, also where it broke off.
HeldInv == \A o \in OIDs : CO!Range(got[o]) \subseteq CO!Held(agent, o)

LEMMA HeldKept ==
    ASSUME WalksInv, ReadInv, HeldInv, CO!CollectorAssumption,
           [CO!Next]_CO!collectorVars
    PROVE  HeldInv'
<1>1. CASE got' = got /\ Tables(agent') = Tables(agent)
  BY <1>1 DEF HeldInv, CO!Held, CO!IsRow
<1>2. CASE got' = CO!Unread
  <2>1. \A o \in OIDs : got'[o] = <<>>
    BY <1>2, WalkNames DEF CO!Unread
  <2> QED
    BY <2>1 DEF HeldInv, CO!Range
<1>3. CASE CO!Row
  <2> DEFINE o == walk.oid
             t == Tables(agent)[o]
  <2>1. /\ walk # CO!NoWalk /\ walk.last < Len(t) /\ agent' = agent
        /\ got' = IF t[walk.last + 1].there
                  THEN [got EXCEPT ![o] = Append(got[o], t[walk.last + 1])] ELSE got
    BY <1>3 DEF CO!Row, CO!Rows, CO!IsRow
  <2>2. /\ o \in OIDs /\ walk.last \in Nat /\ t \in Seq(Entries) /\ Len(t) \in Nat
        /\ got \in [OIDs -> Seq(Entries)]
    BY <2>1, ItsTable DEF ReadInv, ReadTyped
  <2>3. t[walk.last + 1] \in CO!Range(t) /\ t[walk.last + 1] \in Entries
    BY <2>1, <2>2 DEF CO!Range
  <2>4. CASE ~t[walk.last + 1].there
    BY <1>1, <2>1, <2>4
  <2>5. CASE t[walk.last + 1].there
    <3>1. t[walk.last + 1] \in CO!Held(agent, o)
      BY <2>3, <2>5 DEF CO!Held, CO!IsRow
    <3>2. \A p \in OIDs \ {o} : got'[p] = got[p]
      BY <2>1, <2>2, <2>5
    <3>3. got'[o] = Append(got[o], t[walk.last + 1]) /\ got[o] \in Seq(Entries)
      BY <2>1, <2>2, <2>5
    <3>4. CO!Range(got'[o]) \subseteq CO!Range(got[o]) \cup {t[walk.last + 1]}
      BY <2>3, <3>3 DEF CO!Range
    <3>5. \A p \in OIDs : CO!Held(agent', p) = CO!Held(agent, p)
      BY <2>1
    <3> QED
      BY <3>1, <3>2, <3>4, <3>5 DEF HeldInv
  <2> QED
    BY <2>4, <2>5
<1>4. \/ got' = got /\ Tables(agent') = Tables(agent)
      \/ got' = CO!Unread
      \/ CO!Row
  <2>1. CASE CO!Work
    BY <2>1 DEF CO!Work, CO!OpenWalk, CO!SkipWalk, CO!Finished, CO!BreakResumed,
       CO!BreakEnds, CO!CollectEnds, CO!NarrowInstead, CO!SamplesTaken, CO!Walks
  <2>2. CASE ~CO!Work
    BY <2>2 DEF CO!Next, CO!AgentChanges, CO!SameSwitch, CO!BeginScan,
       CO!BeginCounters, CO!BudgetEnds, CO!Walks, CO!collectorVars, CO!reading
  <2> QED
    BY <2>1, <2>2
<1> QED
  BY <1>1, <1>2, <1>3, <1>4

LEMMA HeldBegin == ASSUME CO!CollectorAssumption, CO!Init PROVE HeldInv
<1>1. \A o \in OIDs : got[o] = <<>>
  BY WalkNames DEF CO!Init, CO!Unread
<1> QED
  BY <1>1 DEF HeldInv, CO!Range

\* What a scan's poll has of a table when all its walks are over.
LEMMA WhatIsRead ==
    ASSUME WalksInv, ReadInv, HeldInv, CO!CollectorAssumption, CO!CollectEnds
    PROVE  /\ \A o \in OIDs : CO!Read(o) \subseteq CO!Held(agent, o)
           /\ \A o \in {"type", "lag", "map"} :
                 CO!Complete(o) => CO!Read(o) = CO!Held(agent, o)
<1>1. \A o \in OIDs : CO!Read(o) \subseteq CO!Held(agent, o)
  BY DEF HeldInv, CO!Read
<1>2. ASSUME NEW o \in {"type", "lag", "map"}, CO!Complete(o)
      PROVE  CO!Held(agent, o) \subseteq CO!Read(o)
  <2>1. job = "scan" /\ walk = CO!NoWalk /\ todo = <<>>
    BY DEF CO!CollectEnds
  <2>2. o \in OIDs /\ o # walk.oid /\ o \in Asked[job] /\ o \notin In(todo)
    BY <2>1, WalkNames, JobLists DEF OIDs, Asked
  <2>3. Faithful(Tables(agent)[o], got[o], Len(Tables(agent)[o]))
    BY <1>2, <2>2 DEF ReadInv, Settled, CO!Complete
  <2>4. /\ Tables(agent)[o] \in Seq(Entries) /\ got[o] \in Seq(Entries)
        /\ agent \in Agents
    BY <2>2, TableParts DEF ReadInv, ReadTyped
  <2> QED
    BY <2>3, <2>4, RowYielded DEF CO!Held, CO!IsRow, CO!Read
<1>3. ASSUME NEW o \in {"type", "lag", "map"}, CO!Complete(o)
      PROVE  CO!Read(o) = CO!Held(agent, o)
  <2>1. CO!Read(o) \subseteq CO!Held(agent, o)
    BY <1>1 DEF OIDs
  <2>2. CO!Held(agent, o) \subseteq CO!Read(o)
    BY <1>2, <1>3
  <2> QED
    BY <2>1, <2>2
<1> QED
  BY <1>1, <1>3

\* A switch whose tables have one row for each of their subjects.
LEMMA OneRowEach ==
    ASSUME CO!TrueSwitch(agent), NEW o \in OIDs,
           CO!Read(o) \subseteq CO!Held(agent, o), NEW r \in CO!Read(o)
    PROVE  CO!ValueAt(o, r.at) = r.val
<1>1. \A x, y \in CO!Held(agent, o) : x.at = y.at => x = y
  BY WalkNames DEF CO!TrueSwitch
<1>2. \A x \in CO!Read(o) : x.at = r.at => x = r
  BY <1>1
<1> QED
  BY <1>2 DEF CO!ValueAt

LEMMA PhysicalIsEther ==
    ASSUME WalksInv, ReadInv, HeldInv, CO!CollectorAssumption, CO!CollectEnds,
           CO!TrueSwitch(agent), CO!Complete("type")
    PROVE  /\ CO!Interfaces \subseteq CO!Ports(agent)
           /\ CO!Physical \subseteq CO!Ether(agent)
           /\ CO!Ports(agent) \subseteq Nat \ {0}
           /\ CO!Ether(agent) \subseteq CO!Ports(agent)
<1>1. CO!Read("descr") \subseteq CO!Held(agent, "descr")
  BY WhatIsRead DEF OIDs
<1>2. CO!Interfaces \subseteq CO!Ports(agent)
  BY <1>1 DEF CO!Interfaces, CO!At, CO!Ports
<1>3. ASSUME NEW i \in CO!Physical, NEW r \in CO!Held(agent, "type"), r.at = i
      PROVE  r.val = "ether"
  <2>1. r \in CO!Read("type") /\ CO!Read("type") \subseteq CO!Held(agent, "type")
    BY <1>3, WhatIsRead
  <2>2. i \in CO!At("type")
    BY <1>3, <2>1 DEF CO!At
  <2>3. CO!ValueAt("type", i) = "ether"
    BY <1>3, <2>2 DEF CO!Physical
  <2>4. CO!ValueAt("type", r.at) = r.val
    BY <2>1, OneRowEach DEF OIDs
  <2> QED
    BY <1>3, <2>3, <2>4
<1>4. CO!Physical \subseteq CO!Interfaces
  BY DEF CO!Physical
<1> QED
  BY <1>2, <1>3, <1>4 DEF CO!Ether, CO!TrueSwitch

\* What sane_lag_members leaves of the membership column.
LEMMA ClaimsLeft ==
    ASSUME NEW m \in DOMAIN CO!Sane(CO!Claims)
    PROVE  \E r \in CO!Read("lag") :
              /\ r.at = m /\ r.val = CO!Sane(CO!Claims)[m] /\ r.val # m
              /\ r.val \in CO!Interfaces
              /\ CO!Physical = {} \/ \E p \in CO!Physical :
                    \A x \in CO!Read("lag") : ~(x.at = p /\ x.val = r.val /\ x.at # x.val)
<1> DEFINE known == {r \in CO!Claims : r.val \in CO!Interfaces}
           members(a) == {r.at : r \in {k \in known : k.val = a}}
           kept == {r \in known : CO!Physical = {} \/ ~(CO!Physical \subseteq members(r.val))}
<1>1. CO!Sane(CO!Claims) = [n \in {r.at : r \in kept} |-> (CHOOSE r \in kept : r.at = n).val]
  BY DEF CO!Sane
<1>2. \E r \in kept : r.at = m
  BY <1>1
<1> DEFINE row == CHOOSE r \in kept : r.at = m
<1>3. row \in kept /\ row.at = m
  BY <1>2
<1>4. CO!Sane(CO!Claims)[m] = row.val
  BY <1>1, <1>2
<1>5. row \in CO!Read("lag") /\ row.val # row.at /\ row.val \in CO!Interfaces
  BY <1>3 DEF CO!Claims
<1>6. ASSUME CO!Physical # {}
      PROVE  \E p \in CO!Physical :
                \A x \in CO!Read("lag") : ~(x.at = p /\ x.val = row.val /\ x.at # x.val)
  <2>1. PICK p \in CO!Physical : p \notin members(row.val)
    BY <1>3, <1>6
  <2>2. \A x \in CO!Read("lag") : ~(x.at = p /\ x.val = row.val /\ x.at # x.val)
    BY <1>5, <2>1 DEF CO!Claims
  <2> QED
    BY <2>2
<1> HIDE DEF row
<1> QED
  BY <1>3, <1>4, <1>5, <1>6

\* What infer_lag_groups makes a trunk of.
LEMMA GroupsLoose ==
    ASSUME NEW t \in DOMAIN CO!Groups, NEW p \in CO!Groups[t],
           CO!Physical \subseteq CO!Ether(agent), CO!Read("map") = CO!Held(agent, "map")
    PROVE  t \in CO!Loose(agent) /\ p \in CO!Loose(agent)
<1>1. t \in CO!Missing /\ p \in CO!Missing
  BY DEF CO!Groups, CO!Trunks
<1> QED
  BY <1>1 DEF CO!Missing, CO!Loose, CO!At

\* The three ways a physical port has to the port it stands for.
Logical(p) == CO!AggregatePort(data', p)
Member(p)  == /\ Logical(p) \in CO!Ports(agent) /\ p \in CO!Claim(agent, Logical(p))
              /\ \A q \in CO!Physical \cap (CO!Claim(agent, Logical(p)) \cup {Logical(p)}) :
                    agent.trunk[q] = agent.trunk[p]
Grouped(p) == \E t \in CO!Loose(agent) : Logical(p) = -t /\ p \in CO!Loose(agent)

LEMMA StandsFor ==
    ASSUME WalksInv, ReadInv, HeldInv, CO!CollectorAssumption, CO!CollectEnds,
           CO!TrueSwitch(agent), CO!Complete("type"), CO!Complete("map"),
           CO!Complete("lag") \/ CO!TrueMembership, NEW p \in CO!Physical
    PROVE  Member(p) \/ Grouped(p) \/ Logical(p) = p
<1>1. /\ data'.lag = CO!Sane(CO!Claims) /\ data'.groups = CO!Groups
      /\ data'.physical = CO!Physical
  BY DEF CO!CollectEnds
<1>2. CASE p \in DOMAIN CO!Sane(CO!Claims)
  <2>1. PICK r \in CO!Read("lag") :
              /\ r.at = p /\ r.val = CO!Sane(CO!Claims)[p] /\ r.val # p
              /\ r.val \in CO!Interfaces
              /\ CO!Physical = {} \/ \E q \in CO!Physical :
                    \A x \in CO!Read("lag") : ~(x.at = q /\ x.val = r.val /\ x.at # x.val)
    BY <1>2, ClaimsLeft
  <2>2. Logical(p) = r.val
    BY <1>1, <1>2, <2>1 DEF Logical, CO!AggregatePort
  <2>3. CO!Read("lag") \subseteq CO!Held(agent, "lag")
    BY WhatIsRead DEF OIDs
  <2>4. r.val \in CO!Ports(agent) /\ p \in CO!Claim(agent, r.val)
    BY <2>1, <2>3, PhysicalIsEther DEF CO!Claim
  <2>5. /\ CO!Physical \subseteq CO!Ether(agent) /\ p \in CO!Ether(agent)
    BY PhysicalIsEther
  <2>6. \/ CO!Ether(agent) \subseteq CO!Claim(agent, r.val)
        \/ \A q \in CO!Ether(agent) \cap (CO!Claim(agent, r.val) \cup {r.val}) :
              agent.trunk[q] = agent.trunk[p]
    BY <2>4, <2>5 DEF CO!TrueSwitch
  <2>7. CASE CO!Complete("lag")
    <3>1. PICK q \in CO!Physical :
             \A x \in CO!Read("lag") : ~(x.at = q /\ x.val = r.val /\ x.at # x.val)
      BY <2>1
    <3>2. CO!Read("lag") = CO!Held(agent, "lag")
      BY <2>7, WhatIsRead
    <3>3. q \notin CO!Claim(agent, r.val)
      BY <3>1, <3>2 DEF CO!Claim
    <3> QED
      BY <2>2, <2>4, <2>5, <2>6, <3>3 DEF Member
  <2>8. CASE CO!TrueMembership
    <3>1. ASSUME NEW q \in CO!Claim(agent, r.val)
          PROVE  agent.trunk[q] = agent.trunk[p]
      <4>1. PICK s \in CO!Held(agent, "lag") : s.at = q /\ s.val = r.val
        BY <3>1 DEF CO!Claim
      <4> QED
        BY <2>1, <2>3, <2>8, <4>1 DEF CO!TrueMembership
    <3>2. ASSUME r.val \in CO!Physical, r.val \notin CO!Claim(agent, r.val)
          PROVE  agent.trunk[r.val] = agent.trunk[p]
      BY <2>5, <2>6, <3>2
    <3> QED
      BY <2>2, <2>4, <3>1, <3>2 DEF Member
  <2> QED
    BY <2>7, <2>8
<1>3. CASE p \notin DOMAIN CO!Sane(CO!Claims) /\ \E t \in DOMAIN CO!Groups : p \in CO!Groups[t]
  <2> DEFINE trunk == CHOOSE t \in DOMAIN CO!Groups : p \in CO!Groups[t]
  <2>1. trunk \in DOMAIN CO!Groups /\ p \in CO!Groups[trunk]
    BY <1>3
  <2>2. Logical(p) = -trunk
    BY <1>1, <1>3 DEF Logical, CO!AggregatePort
  <2>3. CO!Read("map") = CO!Held(agent, "map")
    BY WhatIsRead
  <2> HIDE DEF trunk
  <2> QED
    BY <2>1, <2>2, <2>3, GroupsLoose, PhysicalIsEther DEF Grouped
<1>4. CASE p \notin DOMAIN CO!Sane(CO!Claims) /\ ~\E t \in DOMAIN CO!Groups : p \in CO!Groups[t]
  BY <1>1, <1>4 DEF Logical, CO!AggregatePort
<1> QED
  BY <1>2, <1>3, <1>4

\* Where an address is, and the ports that stand there.
LEMMA AddressesRight ==
    ASSUME WalksInv, ReadInv, HeldInv, CO!CollectorAssumption, CO!CollectEnds,
           CO!TrueSwitch(agent), CO!Complete("type"), CO!Complete("map"),
           CO!Complete("lag") \/ CO!TrueMembership, NEW m \in DOMAIN data'.fdb,
           NEW p \in CO!Physical, Logical(p) = data'.fdb[m]
    PROVE  agent.trunk[p] = agent.home[m]
<1>1. data'.fdb = CO!Fdb
  BY DEF CO!CollectEnds
<1>2. PICK r \in CO!Read("fdb") : r.at = m /\ CO!Station(r)
  BY <1>1 DEF CO!Fdb
<1>3. CO!Read("fdb") \subseteq CO!Held(agent, "fdb") /\ CO!Read("map") = CO!Held(agent, "map")
  BY WhatIsRead DEF OIDs
<1>4. Logical(p) = CO!PortOf(r.val)
  <2>1. CO!ValueAt("fdb", m) = r.val
    BY <1>2, <1>3, OneRowEach DEF OIDs
  <2> QED
    BY <1>1, <2>1 DEF CO!Fdb
<1>5. /\ r.val \in Nat \ {0} /\ r \in CO!Held(agent, "fdb")
      /\ \A q \in CO!Spoken(agent, r) : agent.trunk[q] = agent.home[m]
  BY <1>2, <1>3 DEF CO!TrueSwitch, CO!Station
<1>6. /\ p \in CO!Ether(agent) /\ CO!Ports(agent) \subseteq Nat \ {0}
      /\ CO!Ether(agent) \subseteq CO!Ports(agent)
      /\ CO!Loose(agent) \subseteq CO!Ether(agent)
  BY PhysicalIsEther DEF CO!Loose
<1>7. Member(p) \/ Grouped(p) \/ Logical(p) = p
  BY StandsFor
<1>8. CASE r.val \in CO!At("map")
  <2>1. PICK y \in CO!Held(agent, "map") : y.at = r.val
    BY <1>3, <1>8 DEF CO!At
  <2>2. Logical(p) = y.val /\ y.val \in Nat
    BY <1>3, <1>4, <1>8, <2>1, OneRowEach DEF CO!PortOf, CO!TrueSwitch, OIDs
  <2>3. ~Grouped(p)
    BY <1>6, <2>2 DEF Grouped
  <2>4. p = y.val \/ p \in CO!Claim(agent, y.val)
    BY <1>7, <2>2, <2>3 DEF Member
  <2> QED
    BY <1>5, <1>6, <2>1, <2>4 DEF CO!Spoken
<1>9. CASE r.val \notin CO!At("map")
  <2>1. Logical(p) = -r.val
    BY <1>4, <1>9 DEF CO!PortOf
  <2>2. ~Member(p) /\ Logical(p) # p
    BY <1>5, <1>6, <2>1 DEF Member
  <2>3. PICK t \in CO!Loose(agent) : Logical(p) = -t /\ p \in CO!Loose(agent)
    BY <1>7, <2>2 DEF Grouped
  <2>4. t = r.val
    BY <1>5, <1>6, <2>1, <2>3
  <2> QED
    BY <1>5, <1>6, <2>3, <2>4 DEF CO!Spoken
<1> QED
  BY <1>8, <1>9

LEMMA CablesRight ==
    ASSUME WalksInv, ReadInv, HeldInv, CO!CollectorAssumption, CO!CollectEnds,
           CO!TrueSwitch(agent), CO!Complete("map"), CO!Complete("type"),
           CO!Complete("lag") \/ CO!TrueMembership
    PROVE  CO!CablesApart(data')
<1>1. data'.physical = CO!Physical
  BY DEF CO!CollectEnds
<1>2. /\ CO!Physical \subseteq CO!Ports(agent) /\ CO!Ports(agent) \subseteq Nat \ {0}
      /\ CO!Loose(agent) \subseteq CO!Ports(agent)
  BY PhysicalIsEther DEF CO!Loose
<1>3. ASSUME NEW p \in CO!Physical, NEW q \in CO!Physical, Logical(p) = Logical(q)
      PROVE  agent.trunk[p] = agent.trunk[q]
  <2>1. \A x \in {p, q} : Member(x) \/ Grouped(x) \/ Logical(x) = x
    BY StandsFor
  <2>2. \A x, y \in {p, q} : Member(x) /\ (Member(y) \/ Logical(y) = y) =>
                               agent.trunk[y] = agent.trunk[x]
    BY <1>3 DEF Member
  <2>3. \A x, y \in {p, q} : Grouped(x) => ~Member(y) /\ Logical(y) # y
    BY <1>2, <1>3 DEF Member, Grouped
  <2>4. Grouped(p) /\ Grouped(q) => agent.trunk[p] = agent.trunk[q]
    BY DEF Grouped, CO!TrueSwitch
  <2> QED
    BY <1>3, <2>1, <2>2, <2>3, <2>4
<1>4. ASSUME NEW m \in DOMAIN data'.fdb, NEW p \in CO!Physical,
             Logical(p) = data'.fdb[m]
      PROVE  agent.trunk[p] = agent.home[m]
  BY <1>4, AddressesRight
<1>5. agent' = agent
  BY DEF CO!CollectEnds
<1> QED
  BY <1>1, <1>3, <1>4 DEF CO!CablesApart, Logical

\* Of a switch whose tables are true up to the troubles the code knows, two ports
\* are taken for one only if they are one trunk, and an address is at the port it is
\* behind, wherever the other tables broke off
\* (snmp_collector.py: collect, sane_lag_members, infer_lag_groups).
LEMMA CollectorCables == CO!CollectorAssumption => (CO!Spec => CO!CablesKeptApart)
<1> SUFFICES ASSUME CO!CollectorAssumption PROVE CO!Spec => CO!CablesKeptApart
  OBVIOUS
<1> DEFINE Inv == WalksInv /\ ReadInv /\ HeldInv
<1>1. CO!Init => Inv
  BY WalksInit, ReadBegin, HeldBegin
<1>2. Inv /\ [CO!Next]_CO!collectorVars => Inv'
  BY WalksKept, ReadKept, HeldKept
<1> DEFINE Premise == /\ CO!CollectEnds /\ CO!TrueSwitch(agent)
                      /\ CO!Complete("map") /\ CO!Complete("type")
                      /\ CO!Complete("lag") \/ CO!TrueMembership
<1>3. Inv => [Premise => CO!CablesApart(data')]_CO!collectorVars
  BY CablesRight
<1> QED
  BY <1>1, <1>2, <1>3, PTL DEF CO!Spec, CO!CablesKeptApart

-----------------------------------------------------------------------------
(* FlapDamping *)

Ages == 0..(MaxAge - 1)

FlapTyped ==
    /\ cfg \in FD!Settings
    /\ up \subseteq Keys /\ muted \subseteq Keys /\ evaluated \subseteq Keys
    /\ ending \subseteq Keys /\ swept \in BOOLEAN
    /\ raises \in [Keys -> SUBSET Ages] /\ told \in [Keys -> SUBSET Ages]
    /\ quietFor \in [Keys -> 0..MaxAge]
    /\ lastSent \in [Keys -> [FD!Heads -> 0..MaxAge]]
    /\ heard \in [Keys -> FD!Notices \cup {"none"}]
    /\ pending \in [FD!Coroutines -> {FD!Nothing} \cup [key : Keys, notice : FD!Notices]]

Tells(c, k, notice) == pending[c] = [key |-> k, notice |-> notice]

\* A second mute cannot follow on the first before the cooldown is over
SparseMutes == cfg.count > 1 /\ cfg.cooldown <= 2 * (cfg.count - 1)

\* What a notice under way says is so, whoever else moves meanwhile; and those
\* of a mute are not swallowed.
RaiseSaid(k) == \A c \in FD!Coroutines : Tells(c, k, "raise") =>
    /\ c = FD!Owner(k) /\ k \in up \ muted /\ k \in evaluated
    /\ cfg.count # 1 /\ (cfg.count > 0 => 0 \in raises[k])
ClearSaid(k) == \A c \in FD!Coroutines : Tells(c, k, "clear") =>
    /\ c = FD!Owner(k) /\ k \notin up /\ k \notin muted /\ k \in evaluated
    /\ cfg.cooldown <= 2 => lastSent[k]["clear"] >= cfg.cooldown
MuteSaid(k) == \A c \in FD!Coroutines : Tells(c, k, "flapping") =>
    /\ c = FD!Owner(k) /\ k \in muted /\ k \in evaluated /\ quietFor[k] = 0
    /\ SparseMutes => lastSent[k]["FLAPPING"] >= cfg.cooldown
EndSaid(k) == \A c \in FD!Coroutines : Tells(c, k, "ended") =>
    /\ c = "ping" /\ raises[k] \subseteq {0}
    /\ k \in muted => cfg.count <= 1 /\ quietFor[k] = 0
    /\ k \notin muted /\ cfg.cooldown <= cfg.quiet =>
          lastSent[k]["FLAPPING"] >= cfg.cooldown

\* What the mutes the loop has still to end are like.
EndingInv(k) == k \in ending =>
    /\ k \in muted /\ lastSent[k]["FLAPPING"] >= cfg.quiet
    /\ \A c \in FD!Coroutines : ~Tells(c, k, "flapping") /\ ~Tells(c, k, "ended")

\* Whoever is not muted has fewer raises than count behind it, those that were
\* heard among them.
InWindow(ages) == {a \in ages : a <= cfg.window}
BudgetInv(k) ==
    /\ cfg.count = 0 => k \notin muted
    /\ cfg.count > 0 =>
          /\ Cardinality(InWindow(told[k])) < cfg.count
          /\ k \notin muted => /\ InWindow(told[k]) \subseteq raises[k]
                               /\ Cardinality(InWindow(raises[k])) < cfg.count

\* The raises of an alarm are two intervals apart, and none is older than the
\* last word about a mute.
SpacedInv(k) ==
    /\ \A a, b \in raises[k] : a < b => a + 2 <= b
    /\ 0 \in raises[k] => k \in up /\ k \in evaluated
    /\ 1 \in raises[k] => k \in up \/ k \in evaluated
    /\ k \notin muted => \A a \in raises[k] : a <= lastSent[k]["FLAPPING"]

QuietInv(k) == k \in muted => quietFor[k] <= lastSent[k]["FLAPPING"]

\* The clears of an alarm are two intervals apart.
ClearGap(k) == cfg.cooldown <= 2 =>
    /\ k \in up /\ k \notin evaluated => lastSent[k]["clear"] >= cfg.cooldown
    /\ (k \in up <=> k \in evaluated) => lastSent[k]["clear"] + 1 >= cfg.cooldown

HeardInv(k) ==
    /\ cfg.count = 1 => heard[k] # "raise"
    /\ cfg.cooldown <= 2 /\ k \notin up /\ k \notin muted =>
          heard[k] # "raise" \/ Tells(FD!Owner(k), k, "clear")
    /\ SparseMutes /\ k \in muted =>
          heard[k] = "flapping" \/ Tells(FD!Owner(k), k, "flapping")
    /\ cfg.cooldown <= cfg.quiet /\ k \notin muted =>
          heard[k] # "flapping" \/ Tells("ping", k, "ended")

NoticesTrue(k) == RaiseSaid(k) /\ ClearSaid(k) /\ MuteSaid(k) /\ EndSaid(k)
KeyInv(k) == /\ NoticesTrue(k) /\ EndingInv(k) /\ BudgetInv(k) /\ SpacedInv(k)
             /\ QuietInv(k) /\ ClearGap(k) /\ HeardInv(k)
FlapInv == FlapTyped /\ \A k \in Keys : KeyInv(k)

LEMMA SameCount == \A S : FD!Cardinality(S) = Cardinality(S)
  BY DEF FD!Cardinality, Cardinality

LEMMA FlapAt ==
    ASSUME FlapTyped, FD!DampingAssumption, NEW k \in Keys
    PROVE  /\ raises[k] \subseteq Ages /\ told[k] \subseteq Ages
           /\ quietFor[k] \in 0..MaxAge
           /\ \A h \in FD!Heads : lastSent[k][h] \in 0..MaxAge
           /\ lastSent[k]["clear"] \in 0..MaxAge
           /\ lastSent[k]["FLAPPING"] \in 0..MaxAge
           /\ cfg.count \in Nat /\ cfg.window \in 0..(MaxAge - 1)
           /\ cfg.quiet \in 1..MaxAge /\ cfg.cooldown \in 0..MaxAge
           /\ MaxAge \in Nat \ {0}
           /\ FD!Owner(k) \in FD!Coroutines /\ FD!Coroutines = {"ping", "counters"}
<1>1. MaxAge \in Nat \ {0}
  BY DEF FD!DampingAssumption
<1>2. FD!Owner(k) \in FD!Coroutines /\ FD!Coroutines = {"ping", "counters"}
  BY DEF FD!Owner, FD!Coroutines
<1>3. /\ cfg.count \in Nat /\ cfg.window \in 0..(MaxAge - 1)
      /\ cfg.quiet \in 1..MaxAge /\ cfg.cooldown \in 0..MaxAge
  BY DEF FlapTyped, FD!Settings
<1>4. lastSent[k] \in [FD!Heads -> 0..MaxAge]
  BY DEF FlapTyped
<1>5. "clear" \in FD!Heads /\ "FLAPPING" \in FD!Heads
  BY DEF FD!Heads
<1>6. raises[k] \subseteq Ages /\ told[k] \subseteq Ages /\ quietFor[k] \in 0..MaxAge
  BY DEF FlapTyped
<1> QED
  BY <1>1, <1>2, <1>3, <1>4, <1>5, <1>6

\* Sets of ages.
LEMMA AgesFinite ==
    ASSUME FD!DampingAssumption, NEW S, S \subseteq Ages
    PROVE  /\ IsFiniteSet(S) /\ Cardinality(S) \in Nat
           /\ \A T : T \subseteq S => Cardinality(T) <= Cardinality(S)
<1>1. MaxAge \in Nat
  BY DEF FD!DampingAssumption
<1>2. IsFiniteSet(Ages)
  BY <1>1, FS_Interval DEF Ages
<1>3. IsFiniteSet(S)
  BY <1>2, FS_Subset
<1>4. Cardinality(S) \in Nat
  BY <1>3, FS_CardinalityType
<1>5. ASSUME NEW T, T \subseteq S PROVE Cardinality(T) <= Cardinality(S)
  BY <1>3, <1>5, FS_Subset
<1> QED
  BY <1>3, <1>4, <1>5

\* Nothing comes into the window by growing older.
LEMMA OlderInWindow ==
    ASSUME FD!DampingAssumption, cfg.window \in Nat, NEW S, S \subseteq Ages
    PROVE  /\ FD!OlderAll(S) \subseteq Ages
           /\ \A a \in FD!OlderAll(S) : a - 1 \in S /\ a \in Nat \ {0}
           /\ Cardinality(InWindow(FD!OlderAll(S))) <= Cardinality(InWindow(S))
<1> DEFINE T == InWindow(FD!OlderAll(S))
           R == InWindow(S)
           f == [a \in T |-> a - 1]
<1>1. MaxAge \in Nat
  BY DEF FD!DampingAssumption
<1>2. ASSUME NEW a \in FD!OlderAll(S)
      PROVE  a \in Ages /\ a - 1 \in S /\ a \in Nat \ {0}
  <2>1. PICK b \in S : a = b + 1 /\ b + 1 < MaxAge
    BY <1>2 DEF FD!OlderAll
  <2>2. b \in 0..(MaxAge - 1)
    BY DEF Ages
  <2> QED
    BY <1>1, <2>1, <2>2 DEF Ages
<1>3. ASSUME NEW a \in T PROVE a \in Int /\ a - 1 \in R
  <2>1. a \in FD!OlderAll(S) /\ a <= cfg.window
    BY <1>3 DEF InWindow
  <2>2. a \in Int /\ a - 1 \in S
    BY <1>2, <2>1
  <2>3. a - 1 <= cfg.window
    BY <2>1, <2>2
  <2> QED
    BY <2>2, <2>3 DEF InWindow
<1>4. f \in Injection(T, R)
  <2>1. f \in [T -> R]
    BY <1>3
  <2>2. ASSUME NEW a \in T, NEW b \in T, f[a] = f[b] PROVE a = b
    BY <1>3, <2>2
  <2> QED
    BY <2>1, <2>2, Fun_IsInj
<1>5. IsFiniteSet(R)
  BY AgesFinite DEF InWindow
<1>6. Cardinality(T) <= Cardinality(R)
  BY <1>4, <1>5, FS_Injection
<1> QED
  BY <1>2, <1>6

\* Ages two apart reach as far back as there are many.
LEMMA Spread ==
    ASSUME NEW S, S \subseteq Nat, \A a, b \in S : a < b => a + 2 <= b,
           NEW n \in Nat, n > 1, Cardinality(S) >= n
    PROVE  \E a \in S : a >= 2 * (n - 1)
<1> SUFFICES ASSUME \A a \in S : a < 2 * (n - 1) PROVE FALSE
  OBVIOUS
<1> DEFINE H == 0..(n - 2)
           f == [a \in S |-> a \div 2]
<1>1. ASSUME NEW a \in S
      PROVE  a \div 2 \in H /\ 2 * (a \div 2) <= a /\ a < 2 * (a \div 2) + 2
  BY a < 2 * (n - 1), a \in Nat
<1>2. f \in [S -> H]
  BY <1>1
<1>3. ASSUME NEW a \in S, NEW b \in S, f[a] = f[b] PROVE a = b
  <2>1. a \in Nat /\ b \in Nat /\ a \div 2 = b \div 2
    BY <1>3
  <2>2. ~(a < b) /\ ~(b < a)
    <3>1. a < b => a + 2 <= b
      OBVIOUS
    <3>2. b < a => b + 2 <= a
      OBVIOUS
    <3>3. a \div 2 \in Int
      BY <1>1
    <3>4. a < 2 * (a \div 2) + 2 /\ 2 * (a \div 2) <= a
      BY <1>1
    <3>5. b < 2 * (a \div 2) + 2 /\ 2 * (a \div 2) <= b
      BY <1>1, <2>1
    <3> HIDE DEF f
    <3> DEFINE q == 2 * (a \div 2)
    <3>6. q \in Int
      BY <3>3
    <3>7. a < q + 2 /\ q <= a /\ b < q + 2 /\ q <= b
      BY <3>4, <3>5
    <3> HIDE DEF q
    <3> QED
      BY <2>1, <3>1, <3>2, <3>6, <3>7
  <2> QED
    BY <2>1, <2>2
<1>4. f \in Injection(S, H)
  BY <1>2, <1>3, Fun_IsInj
<1>5. IsFiniteSet(H) /\ Cardinality(H) = n - 1
  BY FS_Interval
<1>6. Cardinality(S) <= n - 1 /\ IsFiniteSet(S)
  BY <1>4, <1>5, FS_Injection
<1>7. Cardinality(S) \in Nat
  BY <1>6, FS_CardinalityType
<1> QED
  BY <1>6, <1>7

\* A key that a step is not about.
SameKey(k) ==
    /\ cfg' = cfg /\ raises'[k] = raises[k] /\ told'[k] = told[k]
    /\ quietFor'[k] = quietFor[k] /\ lastSent'[k] = lastSent[k] /\ heard'[k] = heard[k]
    /\ (k \in up') = (k \in up) /\ (k \in muted') = (k \in muted)
    /\ (k \in evaluated') = (k \in evaluated)
    /\ \A c \in FD!Coroutines, notice \in FD!Notices :
          Tells(c, k, notice)' = Tells(c, k, notice)

LEMMA OtherKey ==
    ASSUME FlapTyped, FD!DampingAssumption, NEW k \in Keys, KeyInv(k), SameKey(k),
           EndingInv(k)'
    PROVE  KeyInv(k)'
<1>1. NoticesTrue(k)'
  <2>1. ASSUME NEW c \in FD!Coroutines
        PROVE  /\ Tells(c, k, "raise")' = Tells(c, k, "raise")
               /\ Tells(c, k, "clear")' = Tells(c, k, "clear")
               /\ Tells(c, k, "flapping")' = Tells(c, k, "flapping")
               /\ Tells(c, k, "ended")' = Tells(c, k, "ended")
    BY DEF SameKey, FD!Notices
  <2>2. RaiseSaid(k)'
    BY <2>1 DEF KeyInv, NoticesTrue, RaiseSaid, SameKey
  <2>3. ClearSaid(k)'
    BY <2>1 DEF KeyInv, NoticesTrue, ClearSaid, SameKey
  <2>4. MuteSaid(k)'
    BY <2>1 DEF KeyInv, NoticesTrue, MuteSaid, SameKey, SparseMutes
  <2>5. EndSaid(k)'
    BY <2>1 DEF KeyInv, NoticesTrue, EndSaid, SameKey
  <2> QED
    BY <2>2, <2>3, <2>4, <2>5 DEF NoticesTrue
<1>2. BudgetInv(k)' /\ SpacedInv(k)' /\ QuietInv(k)' /\ ClearGap(k)'
  BY DEF KeyInv, SameKey, BudgetInv, SpacedInv, QuietInv, ClearGap, InWindow
<1>3. HeardInv(k)'
  <2>1. FD!Owner(k) \in FD!Coroutines /\ "ping" \in FD!Coroutines
    BY FlapAt
  <2>2. /\ Tells(FD!Owner(k), k, "clear")' = Tells(FD!Owner(k), k, "clear")
        /\ Tells(FD!Owner(k), k, "flapping")' = Tells(FD!Owner(k), k, "flapping")
        /\ Tells("ping", k, "ended")' = Tells("ping", k, "ended")
    BY <2>1 DEF SameKey, FD!Notices
  <2> QED
    BY <2>2 DEF KeyInv, SameKey, HeardInv, SparseMutes
<1> QED
  BY <1>1, <1>2, <1>3 DEF KeyInv

\* A step that is about key k alone.
LEMMA OneKey ==
    ASSUME FlapInv, FD!DampingAssumption, NEW k \in Keys, FlapTyped', KeyInv(k)',
           \A j \in Keys \ {k} : SameKey(j) /\ EndingInv(j)'
    PROVE  FlapInv'
<1>1. ASSUME NEW j \in Keys \ {k} PROVE KeyInv(j)'
  BY OtherKey DEF FlapInv
<1> QED
  BY <1>1 DEF FlapInv

\* A coroutine that is free begins to say something of k.
LEMMA SaysOf ==
    ASSUME FlapTyped, NEW c \in FD!Coroutines, NEW k \in Keys, NEW notice \in FD!Notices,
           FD!Free(c), FD!Say(c, k, notice)
    PROVE  /\ Tells(c, k, notice)'
           /\ \A n \in FD!Notices \ {notice} : ~Tells(c, k, n)'
           /\ \A d \in FD!Coroutines \ {c}, n \in FD!Notices :
                 Tells(d, k, n)' = Tells(d, k, n)
           /\ \A d \in FD!Coroutines, j \in Keys \ {k}, n \in FD!Notices :
                 Tells(d, j, n)' = Tells(d, j, n)
           /\ \A n \in FD!Notices : ~Tells(c, k, n)
           /\ pending' \in [FD!Coroutines -> {FD!Nothing} \cup [key : Keys, notice : FD!Notices]]
<1>1. /\ pending \in [FD!Coroutines -> {FD!Nothing} \cup [key : Keys, notice : FD!Notices]]
      /\ pending' = [pending EXCEPT ![c] = [key |-> k, notice |-> notice]]
      /\ pending[c].notice = "none"
  BY DEF FlapTyped, FD!Say, FD!Free
<1>2. pending'[c] = [key |-> k, notice |-> notice]
      /\ \A d \in FD!Coroutines \ {c} : pending'[d] = pending[d]
  BY <1>1
<1>3. \A j, n : pending[c] = [key |-> j, notice |-> n] => n = "none"
  BY <1>1
<1>4. "none" \notin FD!Notices
  BY DEF FD!Notices
<1>5. \A j, n : [key |-> k, notice |-> notice] = [key |-> j, notice |-> n]
                   => j = k /\ n = notice
  <2> TAKE j, n
  <2> HAVE [key |-> k, notice |-> notice] = [key |-> j, notice |-> n]
  <2>1. [key |-> k, notice |-> notice].key = [key |-> j, notice |-> n].key
        /\ [key |-> k, notice |-> notice].notice = [key |-> j, notice |-> n].notice
    OBVIOUS
  <2> QED
    BY <2>1
<1>6. pending' \in [FD!Coroutines -> {FD!Nothing} \cup [key : Keys, notice : FD!Notices]]
  <2>1. [key |-> k, notice |-> notice] \in [key : Keys, notice : FD!Notices]
    OBVIOUS
  <2> QED
    BY <1>1, <2>1
<1>7. \A d \in FD!Coroutines \ {c}, j \in Keys, n \in FD!Notices :
         Tells(d, j, n)' = Tells(d, j, n)
  BY <1>2 DEF Tells
<1>8. \A j \in Keys, n \in FD!Notices : Tells(c, j, n) = FALSE
  BY <1>3, <1>4 DEF Tells
<1>9. \A j \in Keys, n \in FD!Notices :
         Tells(c, j, n)' <=> (j = k /\ n = notice)
  BY <1>2, <1>5 DEF Tells
<1>10. \A j \in Keys \ {k}, n \in FD!Notices : Tells(c, j, n)' = FALSE
  BY <1>9 DEF Tells
<1>11. Tells(c, k, notice)' /\ \A n \in FD!Notices \ {notice} : ~Tells(c, k, n)'
  BY <1>9
<1>12. ASSUME NEW d \in FD!Coroutines, NEW j \in Keys \ {k}, NEW n \in FD!Notices
       PROVE  Tells(d, j, n)' = Tells(d, j, n)
  BY <1>7, <1>8, <1>10
<1> QED
  BY <1>6, <1>7, <1>8, <1>11, <1>12

\* What is known of an alarm that is down and was not evaluated yet: nothing but
\* the end of its mute is under way, and its raises are two intervals behind.
LEMMA BeforeRaise ==
    ASSUME FlapTyped, FD!DampingAssumption, NEW k \in Keys, KeyInv(k),
           k \notin up, k \notin evaluated
    PROVE  /\ \A c \in FD!Coroutines, n \in FD!Notices : Tells(c, k, n) => n = "ended"
           /\ FD!Recent(k) \subseteq Ages /\ 0 \in FD!Recent(k)
           /\ FD!Recent(k) = {0} \cup InWindow(raises[k])
           /\ \A a \in FD!Recent(k) : a # 1
           /\ \A a, b \in FD!Recent(k) : a < b => a + 2 <= b
           /\ InWindow(FD!Recent(k)) = FD!Recent(k)
           /\ k \notin muted => \A a \in FD!Recent(k) : a <= lastSent[k]["FLAPPING"]
           /\ Cardinality(FD!Recent(k)) \in Nat \ {0}
<1>1. \A c \in FD!Coroutines, n \in FD!Notices : Tells(c, k, n) => n = "ended"
  BY DEF KeyInv, NoticesTrue, RaiseSaid, ClearSaid, MuteSaid, FD!Notices
<1>2. FD!Recent(k) = {0} \cup InWindow(raises[k])
  BY DEF FD!Recent, InWindow
<1>3. /\ raises[k] \subseteq Ages /\ cfg.window \in Nat /\ MaxAge \in Nat \ {0}
      /\ lastSent[k]["FLAPPING"] \in Nat
  BY FlapAt
<1>4. InWindow(raises[k]) \subseteq raises[k]
  BY DEF InWindow
<1>5. FD!Recent(k) \subseteq Ages /\ 0 \in FD!Recent(k)
  BY <1>2, <1>3, <1>4 DEF Ages
<1>6. /\ 0 \notin raises[k] /\ 1 \notin raises[k]
      /\ \A a, b \in raises[k] : a < b => a + 2 <= b
      /\ k \notin muted => \A a \in raises[k] : a <= lastSent[k]["FLAPPING"]
  BY DEF KeyInv, SpacedInv
<1>7. \A a \in FD!Recent(k) : a = 0 \/ (a \in raises[k] /\ a >= 2 /\ a \in Nat)
  BY <1>2, <1>3, <1>4, <1>6 DEF Ages
<1>8. \A a, b \in FD!Recent(k) : a < b => a + 2 <= b
  BY <1>6, <1>7
<1>9. k \notin muted => \A a \in FD!Recent(k) : a <= lastSent[k]["FLAPPING"]
  BY <1>3, <1>6, <1>7
<1>10. InWindow(FD!Recent(k)) = FD!Recent(k)
  BY <1>2, <1>3 DEF InWindow
<1>11. Cardinality(FD!Recent(k)) \in Nat \ {0}
  <2>1. IsFiniteSet(FD!Recent(k)) /\ Cardinality(FD!Recent(k)) \in Nat
    BY <1>5, AgesFinite
  <2> QED
    BY <1>5, <2>1, FS_EmptySet
<1>12. \A a \in FD!Recent(k) : a # 1
  BY <1>7
<1> HIDE DEF FD!Recent
<1> QED
  BY <1>1, <1>2, <1>5, <1>8, <1>9, <1>10, <1>11, <1>12

\* The raise that makes count of them: the last word about a mute is older
\* than the oldest of them.
LEMMA CountedBack ==
    ASSUME FlapTyped, FD!DampingAssumption, NEW k \in Keys, KeyInv(k),
           k \notin up, k \notin evaluated, k \notin muted, SparseMutes,
           Cardinality(FD!Recent(k)) >= cfg.count
    PROVE  lastSent[k]["FLAPPING"] >= cfg.cooldown
<1>1. cfg.count \in Nat /\ cfg.cooldown \in Nat /\ lastSent[k]["FLAPPING"] \in Nat
  BY FlapAt
<1>2. cfg.count > 1 /\ cfg.cooldown <= 2 * (cfg.count - 1)
  BY DEF SparseMutes
<1>3. FD!Recent(k) \subseteq Nat
  BY BeforeRaise DEF Ages
<1>4. \A a, b \in FD!Recent(k) : a < b => a + 2 <= b
  BY BeforeRaise
<1>5. PICK a \in FD!Recent(k) : a >= 2 * (cfg.count - 1)
  BY <1>1, <1>2, <1>3, <1>4, Spread
<1>6. a <= lastSent[k]["FLAPPING"] /\ a \in Nat
  BY <1>3, BeforeRaise
<1> QED
  BY <1>1, <1>2, <1>5, <1>6

\* The keys a coroutine's step is not about.
LEMMA OthersKept ==
    ASSUME FlapInv, FD!DampingAssumption, NEW k \in Keys, cfg' = cfg, ending' = ending,
           lastSent' = lastSent, heard' = heard, told' = told,
           \A j \in Keys \ {k} : /\ raises'[j] = raises[j] /\ quietFor'[j] = quietFor[j]
                                 /\ (j \in up') = (j \in up)
                                 /\ (j \in muted') = (j \in muted)
                                 /\ (j \in evaluated') = (j \in evaluated),
           \A c \in FD!Coroutines, j \in Keys \ {k}, notice \in FD!Notices :
              Tells(c, j, notice)' = Tells(c, j, notice)
    PROVE  \A j \in Keys \ {k} : SameKey(j) /\ EndingInv(j)'
<1> TAKE j \in Keys \ {k}
<1>1. SameKey(j)
  BY DEF SameKey
<1>2. EndingInv(j)
  BY DEF FlapInv, KeyInv
<1>3. \A c \in FD!Coroutines : /\ Tells(c, j, "flapping")' = Tells(c, j, "flapping")
                               /\ Tells(c, j, "ended")' = Tells(c, j, "ended")
  BY DEF FD!Notices
<1>4. EndingInv(j)'
  BY <1>1, <1>2, <1>3 DEF EndingInv, SameKey
<1> QED
  BY <1>1, <1>4

\* A raise whose notice is sent.
LEMMA RaiseTold ==
    ASSUME FlapInv, FD!DampingAssumption, NEW k \in Keys,
           k \notin up, k \notin evaluated, FD!Free(FD!Owner(k)),
           up' = up \cup {k}, evaluated' = evaluated \cup {k},
           UNCHANGED <<cfg, lastSent, swept, ending, heard, told, muted, quietFor>>,
           FD!Say(FD!Owner(k), k, "raise"),
           \/ cfg.count = 0 /\ raises' = raises
           \/ /\ cfg.count > 0 /\ raises' = [raises EXCEPT ![k] = FD!Recent(k)]
              /\ k \notin muted /\ Cardinality(FD!Recent(k)) < cfg.count
    PROVE  FlapInv'
<1> DEFINE c == FD!Owner(k)
<1>1. FlapTyped /\ KeyInv(k)
  BY DEF FlapInv
<1>2. c \in FD!Coroutines /\ "raise" \in FD!Notices /\ cfg.count \in Nat
  BY <1>1, FlapAt DEF FD!Notices
<1>3. k \notin muted
  BY <1>1 DEF KeyInv, BudgetInv
<1>4. /\ raises \in [Keys -> SUBSET Ages]
      /\ FD!Recent(k) \in SUBSET Ages /\ 0 \in FD!Recent(k)
  BY <1>1, BeforeRaise DEF FlapTyped
<1>5. /\ Tells(c, k, "raise")'
      /\ \A n \in FD!Notices \ {"raise"} : ~Tells(c, k, n)'
      /\ \A d \in FD!Coroutines \ {c}, n \in FD!Notices : Tells(d, k, n)' = Tells(d, k, n)
      /\ \A d \in FD!Coroutines, j \in Keys \ {k}, n \in FD!Notices :
            Tells(d, j, n)' = Tells(d, j, n)
      /\ \A n \in FD!Notices : ~Tells(c, k, n)
      /\ pending' \in [FD!Coroutines -> {FD!Nothing} \cup [key : Keys, notice : FD!Notices]]
  BY <1>1, <1>2, SaysOf
<1>6. \A d \in FD!Coroutines, n \in FD!Notices : Tells(d, k, n) => n = "ended"
  BY <1>1, BeforeRaise
<1> HIDE DEF c
<1>7. FlapTyped'
  <2>1. raises' \in [Keys -> SUBSET Ages]
    BY <1>4
  <2> QED
    BY <1>1, <1>5, <2>1 DEF FlapTyped
<1>8. \A j \in Keys \ {k} : SameKey(j) /\ EndingInv(j)'
  <2>1. \A j \in Keys \ {k} : raises'[j] = raises[j]
    BY <1>4
  <2>2. \A j \in Keys \ {k} : /\ (j \in up') = (j \in up)
                              /\ (j \in evaluated') = (j \in evaluated)
    OBVIOUS
  <2> QED
    BY <1>5, <2>1, <2>2, OthersKept
<1>9. raises'[k] = IF cfg.count = 0 THEN raises[k] ELSE FD!Recent(k)
  BY <1>2, <1>4
<1>10. NoticesTrue(k)'
  <2>1. RaiseSaid(k)'
    <3>1. \A d \in FD!Coroutines : Tells(d, k, "raise")' => d = c
      BY <1>5, <1>6 DEF FD!Notices
    <3>2. cfg.count # 1
      BY <1>1, <1>2, BeforeRaise
    <3>3. cfg.count > 0 => 0 \in raises'[k]
      BY <1>4, <1>9
    <3> QED
      BY <1>3, <3>1, <3>2, <3>3 DEF RaiseSaid, c
  <2>2. ClearSaid(k)' /\ MuteSaid(k)'
    <3>1. \A d \in FD!Coroutines : ~Tells(d, k, "clear")' /\ ~Tells(d, k, "flapping")'
      BY <1>5, <1>6 DEF FD!Notices
    <3> QED
      BY <3>1 DEF ClearSaid, MuteSaid
  <2>3. EndSaid(k)'
    <3>1. \A d \in FD!Coroutines : Tells(d, k, "ended")' => Tells(d, k, "ended")
      BY <1>5 DEF FD!Notices
    <3>2. EndSaid(k)
      BY <1>1 DEF KeyInv, NoticesTrue
    <3>3. raises[k] \subseteq {0} => raises'[k] \subseteq {0}
      BY <1>1, <1>9, BeforeRaise DEF InWindow
    <3> QED
      BY <3>1, <3>2, <3>3 DEF EndSaid
  <2> QED
    BY <2>1, <2>2, <2>3 DEF NoticesTrue
<1>11. EndingInv(k)'
  BY <1>1, <1>3 DEF KeyInv, EndingInv
<1>12. BudgetInv(k)'
  <2>1. CASE cfg.count = 0
    BY <1>2, <1>3, <2>1 DEF BudgetInv
  <2>2. CASE cfg.count > 0
    <3>1. Cardinality(InWindow(told[k])) < cfg.count /\ InWindow(told[k]) \subseteq raises[k]
      BY <1>1, <1>3, <2>2 DEF KeyInv, BudgetInv
    <3>2. raises'[k] = FD!Recent(k)
      BY <1>9, <2>2
    <3>3. InWindow(told[k]) \subseteq FD!Recent(k)
      BY <1>1, <3>1, BeforeRaise DEF InWindow
    <3>4. InWindow(FD!Recent(k)) = FD!Recent(k)
      BY <1>1, BeforeRaise
    <3>5. InWindow(told[k])' = InWindow(told[k])
          /\ InWindow(raises[k])' = InWindow(FD!Recent(k))
      BY <3>2 DEF InWindow
    <3> QED
      BY <1>2, <2>2, <3>1, <3>2, <3>3, <3>4, <3>5 DEF BudgetInv
  <2> QED
    BY <1>2, <2>1, <2>2
<1>13. SpacedInv(k)'
  <2>1. CASE cfg.count = 0
    BY <1>1, <1>9, <2>1 DEF KeyInv, SpacedInv
  <2>2. CASE cfg.count # 0
    <3>1. raises'[k] = FD!Recent(k)
      BY <1>9, <2>2
    <3> QED
      BY <1>1, <1>3, <3>1, BeforeRaise DEF SpacedInv
  <2> QED
    BY <2>1, <2>2
<1>14. QuietInv(k)' /\ ClearGap(k)'
  BY <1>1, <1>3 DEF KeyInv, QuietInv, ClearGap
<1>15. HeardInv(k)'
  <2>1. HeardInv(k)
    BY <1>1 DEF KeyInv
  <2>2. Tells("ping", k, "ended") => Tells("ping", k, "ended")'
    <3>1. "ping" \in FD!Coroutines /\ "ended" \in FD!Notices
      BY DEF FD!Coroutines, FD!Notices
    <3> QED
      BY <1>5, <3>1
  <2> QED
    BY <1>3, <2>1, <2>2 DEF HeardInv
<1> QED
  BY <1>7, <1>8, <1>10, <1>11, <1>12, <1>13, <1>14, <1>15, OneKey DEF KeyInv

\* A raise of an alarm that is muted: the quiet time begins again.
LEMMA RaiseMuted ==
    ASSUME FlapInv, FD!DampingAssumption, NEW k \in Keys,
           k \notin up, k \notin evaluated, k \in muted, cfg.count > 0,
           up' = up \cup {k}, evaluated' = evaluated \cup {k},
           UNCHANGED <<cfg, lastSent, swept, ending, heard, told, muted, pending>>,
           quietFor' = [quietFor EXCEPT ![k] = 0],
           raises' = [raises EXCEPT ![k] = FD!Recent(k)]
    PROVE  FlapInv'
<1>1. FlapTyped /\ KeyInv(k)
  BY DEF FlapInv
<1>2. /\ raises \in [Keys -> SUBSET Ages] /\ FD!Recent(k) \in SUBSET Ages
      /\ quietFor \in [Keys -> 0..MaxAge] /\ MaxAge \in Nat /\ cfg.count \in Nat
  BY <1>1, BeforeRaise, FlapAt DEF FlapTyped
<1>3. /\ raises'[k] = FD!Recent(k) /\ quietFor'[k] = 0
      /\ \A j \in Keys \ {k} : raises'[j] = raises[j] /\ quietFor'[j] = quietFor[j]
  BY <1>2
<1>4. \A d \in FD!Coroutines, n \in FD!Notices : Tells(d, k, n) => n = "ended"
  BY <1>1, BeforeRaise
<1>5. \A d, j, n : Tells(d, j, n)' = Tells(d, j, n)
  BY DEF Tells
<1>6. FlapTyped'
  <2>1. raises' \in [Keys -> SUBSET Ages] /\ quietFor' \in [Keys -> 0..MaxAge]
    BY <1>2
  <2> QED
    BY <1>1, <2>1 DEF FlapTyped
<1>7. \A j \in Keys \ {k} : SameKey(j) /\ EndingInv(j)'
  <2>1. \A j \in Keys \ {k} : /\ (j \in up') = (j \in up)
                              /\ (j \in muted') = (j \in muted)
                              /\ (j \in evaluated') = (j \in evaluated)
    OBVIOUS
  <2> QED
    BY <1>3, <1>5, <2>1, OthersKept
<1>8. NoticesTrue(k)'
  <2>1. RaiseSaid(k)' /\ ClearSaid(k)' /\ MuteSaid(k)'
    <3>1. \A d \in FD!Coroutines : /\ ~Tells(d, k, "clear")' /\ ~Tells(d, k, "flapping")'
                                   /\ ~Tells(d, k, "raise")'
      BY <1>4, <1>5 DEF FD!Notices
    <3> QED
      BY <3>1 DEF RaiseSaid, ClearSaid, MuteSaid
  <2>2. EndSaid(k)'
    <3>1. EndSaid(k)
      BY <1>1 DEF KeyInv, NoticesTrue
    <3>2. raises[k] \subseteq {0} => raises'[k] \subseteq {0}
      BY <1>1, <1>3, BeforeRaise DEF InWindow
    <3> QED
      BY <1>3, <1>5, <3>1, <3>2 DEF EndSaid
  <2> QED
    BY <2>1, <2>2 DEF NoticesTrue
<1>9. EndingInv(k)'
  BY <1>1, <1>5 DEF KeyInv, EndingInv
<1>10. BudgetInv(k)'
  <2>1. InWindow(told[k])' = InWindow(told[k])
    BY DEF InWindow
  <2> QED
    BY <1>1, <1>2, <2>1 DEF KeyInv, BudgetInv
<1>11. SpacedInv(k)'
  BY <1>1, <1>3, BeforeRaise DEF SpacedInv
<1>12. QuietInv(k)' /\ ClearGap(k)'
  <2>1. lastSent[k]["FLAPPING"] \in Nat
    BY <1>1, FlapAt
  <2> QED
    BY <1>1, <1>3, <2>1 DEF KeyInv, QuietInv, ClearGap
<1>13. HeardInv(k)'
  BY <1>1, <1>5 DEF KeyInv, HeardInv, SparseMutes
<1> QED
  BY <1>6, <1>7, <1>8, <1>9, <1>10, <1>11, <1>12, <1>13, OneKey DEF KeyInv

\* The raise that begins a mute.
LEMMA RaiseMutes ==
    ASSUME FlapInv, FD!DampingAssumption, NEW k \in Keys,
           k \notin up, k \notin evaluated, k \notin muted, cfg.count > 0,
           FD!Free(FD!Owner(k)), Cardinality(FD!Recent(k)) >= cfg.count,
           up' = up \cup {k}, evaluated' = evaluated \cup {k}, muted' = muted \cup {k},
           UNCHANGED <<cfg, lastSent, swept, ending, heard, told>>,
           quietFor' = [quietFor EXCEPT ![k] = 0],
           raises' = [raises EXCEPT ![k] = FD!Recent(k)],
           FD!Say(FD!Owner(k), k, "flapping")
    PROVE  FlapInv'
<1> DEFINE c == FD!Owner(k)
<1>1. FlapTyped /\ KeyInv(k)
  BY DEF FlapInv
<1>2. /\ raises \in [Keys -> SUBSET Ages] /\ FD!Recent(k) \in SUBSET Ages
      /\ quietFor \in [Keys -> 0..MaxAge] /\ MaxAge \in Nat /\ cfg.count \in Nat
      /\ c \in FD!Coroutines /\ "flapping" \in FD!Notices
  BY <1>1, BeforeRaise, FlapAt DEF FlapTyped, FD!Notices
<1>3. /\ raises'[k] = FD!Recent(k) /\ quietFor'[k] = 0
      /\ \A j \in Keys \ {k} : raises'[j] = raises[j] /\ quietFor'[j] = quietFor[j]
  BY <1>2
<1>4. \A d \in FD!Coroutines, n \in FD!Notices : Tells(d, k, n) => n = "ended"
  BY <1>1, BeforeRaise
<1>5. /\ Tells(c, k, "flapping")'
      /\ \A n \in FD!Notices \ {"flapping"} : ~Tells(c, k, n)'
      /\ \A d \in FD!Coroutines \ {c}, n \in FD!Notices : Tells(d, k, n)' = Tells(d, k, n)
      /\ \A d \in FD!Coroutines, j \in Keys \ {k}, n \in FD!Notices :
            Tells(d, j, n)' = Tells(d, j, n)
      /\ \A n \in FD!Notices : ~Tells(c, k, n)
      /\ pending' \in [FD!Coroutines -> {FD!Nothing} \cup [key : Keys, notice : FD!Notices]]
  BY <1>1, <1>2, SaysOf
<1> HIDE DEF c
<1>6. FlapTyped'
  <2>1. raises' \in [Keys -> SUBSET Ages] /\ quietFor' \in [Keys -> 0..MaxAge]
    BY <1>2
  <2> QED
    BY <1>1, <1>5, <2>1 DEF FlapTyped
<1>7. \A j \in Keys \ {k} : SameKey(j) /\ EndingInv(j)'
  <2>1. \A j \in Keys \ {k} : /\ (j \in up') = (j \in up)
                              /\ (j \in muted') = (j \in muted)
                              /\ (j \in evaluated') = (j \in evaluated)
    OBVIOUS
  <2> QED
    BY <1>3, <1>5, <2>1, OthersKept
<1>8. NoticesTrue(k)'
  <2>1. RaiseSaid(k)' /\ ClearSaid(k)'
    <3>1. \A d \in FD!Coroutines : ~Tells(d, k, "clear")' /\ ~Tells(d, k, "raise")'
      BY <1>4, <1>5 DEF FD!Notices
    <3> QED
      BY <3>1 DEF RaiseSaid, ClearSaid
  <2>2. MuteSaid(k)'
    <3>1. \A d \in FD!Coroutines : Tells(d, k, "flapping")' => d = c
      BY <1>4, <1>5 DEF FD!Notices
    <3>2. SparseMutes => lastSent[k]["FLAPPING"] >= cfg.cooldown
      BY <1>1, CountedBack
    <3>3. SparseMutes' = SparseMutes
      BY DEF SparseMutes
    <3> QED
      BY <1>3, <3>1, <3>2, <3>3 DEF MuteSaid, c
  <2>3. EndSaid(k)'
    <3>1. ASSUME NEW d \in FD!Coroutines, Tells(d, k, "ended")'
          PROVE  d = "ping" /\ raises'[k] \subseteq {0} /\ cfg.count <= 1
      <4>1. Tells(d, k, "ended")
        BY <1>5, <3>1 DEF FD!Notices
      <4>2. d = "ping" /\ raises[k] \subseteq {0}
        BY <1>1, <4>1 DEF KeyInv, NoticesTrue, EndSaid
      <4>3. FD!Recent(k) = {0}
        BY <1>1, <4>2, BeforeRaise DEF InWindow
      <4>4. Cardinality({0}) = 1
        BY FS_Singleton
      <4> QED
        BY <1>2, <1>3, <4>2, <4>3, <4>4
    <3> QED
      BY <1>3, <3>1 DEF EndSaid
  <2> QED
    BY <2>1, <2>2, <2>3 DEF NoticesTrue
<1>9. EndingInv(k)'
  BY <1>1 DEF KeyInv, EndingInv
<1>10. BudgetInv(k)'
  <2>1. InWindow(told[k])' = InWindow(told[k])
    BY DEF InWindow
  <2> QED
    BY <1>1, <1>2, <2>1 DEF KeyInv, BudgetInv
<1>11. SpacedInv(k)'
  BY <1>1, <1>3, BeforeRaise DEF SpacedInv
<1>12. QuietInv(k)' /\ ClearGap(k)'
  <2>1. lastSent[k]["FLAPPING"] \in Nat
    BY <1>1, FlapAt
  <2> QED
    BY <1>1, <1>3, <2>1 DEF KeyInv, QuietInv, ClearGap
<1>13. HeardInv(k)'
  BY <1>1, <1>5 DEF KeyInv, HeardInv, c
<1> QED
  BY <1>6, <1>7, <1>8, <1>9, <1>10, <1>11, <1>12, <1>13, OneKey DEF KeyInv

LEMMA RaiseKeeps ==
    ASSUME FlapInv, FD!DampingAssumption, NEW k \in Keys, FD!Raise(k)
    PROVE  FlapInv'
<1>1. /\ k \notin up /\ k \notin evaluated /\ FD!Free(FD!Owner(k))
      /\ up' = up \cup {k} /\ evaluated' = evaluated \cup {k}
      /\ UNCHANGED <<cfg, lastSent, swept, ending, heard, told>>
  BY DEF FD!Raise, FD!MayEvaluate
<1>2. cfg.count \in Nat /\ Cardinality(FD!Recent(k)) \in Nat
  BY <1>1, FlapAt, BeforeRaise DEF FlapInv
<1>3. CASE cfg.count = 0
  BY <1>1, <1>3, RaiseTold DEF FD!Raise
<1>4. CASE cfg.count > 0 /\ k \in muted
  BY <1>1, <1>4, RaiseMuted DEF FD!Raise
<1>5. CASE cfg.count > 0 /\ k \notin muted /\ Cardinality(FD!Recent(k)) >= cfg.count
  <2>1. /\ muted' = muted \cup {k} /\ quietFor' = [quietFor EXCEPT ![k] = 0]
        /\ raises' = [raises EXCEPT ![k] = FD!Recent(k)]
        /\ FD!Say(FD!Owner(k), k, "flapping")
    BY <1>2, <1>5, SameCount DEF FD!Raise
  <2> QED
    BY <1>1, <1>5, <2>1, RaiseMutes
<1>6. CASE cfg.count > 0 /\ k \notin muted /\ Cardinality(FD!Recent(k)) < cfg.count
  <2>1. /\ UNCHANGED <<muted, quietFor>> /\ FD!Say(FD!Owner(k), k, "raise")
        /\ raises' = [raises EXCEPT ![k] = FD!Recent(k)]
    BY <1>2, <1>6, SameCount DEF FD!Raise
  <2> QED
    BY <1>1, <1>6, <2>1, RaiseTold
<1> QED
  BY <1>2, <1>3, <1>4, <1>5, <1>6

LEMMA ClearKeeps ==
    ASSUME FlapInv, FD!DampingAssumption, NEW k \in Keys, FD!Clear(k)
    PROVE  FlapInv'
<1> DEFINE c == FD!Owner(k)
<1>1. FlapTyped /\ KeyInv(k)
  BY DEF FlapInv
<1>2. /\ k \in up /\ k \notin evaluated /\ FD!Free(c)
      /\ up' = up \ {k} /\ evaluated' = evaluated \cup {k}
      /\ UNCHANGED <<cfg, raises, muted, quietFor, lastSent, swept, ending, heard, told>>
      /\ IF k \in muted THEN UNCHANGED pending ELSE FD!Say(c, k, "clear")
  BY DEF FD!Clear, FD!MayEvaluate
<1>3. c \in FD!Coroutines /\ "clear" \in FD!Notices
  BY <1>1, FlapAt DEF FD!Notices
<1>4. \A d \in FD!Coroutines, n \in FD!Notices : Tells(d, k, n) => n = "ended"
  BY <1>1, <1>2 DEF KeyInv, NoticesTrue, RaiseSaid, ClearSaid, MuteSaid, FD!Notices
<1>5. /\ \A d \in FD!Coroutines : Tells(d, k, "clear")' => d = c
      /\ \A d \in FD!Coroutines : /\ ~Tells(d, k, "raise")' /\ ~Tells(d, k, "flapping")'
                                  /\ Tells(d, k, "ended")' = Tells(d, k, "ended")
      /\ IF k \in muted THEN \A d \in FD!Coroutines : ~Tells(d, k, "clear")'
         ELSE Tells(c, k, "clear")'
      /\ \A d \in FD!Coroutines, j \in Keys \ {k}, n \in FD!Notices :
            Tells(d, j, n)' = Tells(d, j, n)
      /\ pending' \in [FD!Coroutines -> {FD!Nothing} \cup [key : Keys, notice : FD!Notices]]
  <2>1. CASE k \in muted
    <3>1. \A d, j, n : Tells(d, j, n)' = Tells(d, j, n)
      BY <1>2, <2>1 DEF Tells
    <3>2. pending' = pending
      BY <1>2, <2>1
    <3> QED
      BY <1>1, <1>4, <2>1, <3>1, <3>2 DEF FD!Notices, FlapTyped
  <2>2. CASE k \notin muted
    <3>1. FD!Say(c, k, "clear")
      BY <1>2, <2>2
    <3>2. /\ Tells(c, k, "clear")'
          /\ \A n \in FD!Notices \ {"clear"} : ~Tells(c, k, n)'
          /\ \A d \in FD!Coroutines \ {c}, n \in FD!Notices :
                Tells(d, k, n)' = Tells(d, k, n)
          /\ \A d \in FD!Coroutines, j \in Keys \ {k}, n \in FD!Notices :
                Tells(d, j, n)' = Tells(d, j, n)
          /\ \A n \in FD!Notices : ~Tells(c, k, n)
          /\ pending' \in [FD!Coroutines -> {FD!Nothing}
                                            \cup [key : Keys, notice : FD!Notices]]
      BY <1>1, <1>2, <1>3, <3>1, SaysOf
    <3> HIDE DEF c
    <3>3. ASSUME NEW d \in FD!Coroutines
          PROVE  /\ Tells(d, k, "clear")' => d = c
                 /\ ~Tells(d, k, "raise")' /\ ~Tells(d, k, "flapping")'
                 /\ Tells(d, k, "ended")' = Tells(d, k, "ended")
      <4>1. CASE d = c
        <5>1. ~Tells(d, k, "ended")' /\ ~Tells(d, k, "ended")
          BY <3>2, <4>1 DEF FD!Notices
        <5>2. Tells(d, k, "ended")' = FALSE /\ Tells(d, k, "ended") = FALSE
          BY <5>1 DEF Tells
        <5> QED
          BY <3>2, <4>1, <5>2 DEF FD!Notices
      <4>2. CASE d # c
        BY <1>4, <3>2, <4>2 DEF FD!Notices
      <4> QED
        BY <4>1, <4>2
    <3> QED
      BY <2>2, <3>2, <3>3
  <2> QED
    BY <2>1, <2>2
<1> HIDE DEF c
<1>6. FlapTyped'
  BY <1>1, <1>2, <1>5 DEF FlapTyped
<1>7. \A j \in Keys \ {k} : SameKey(j) /\ EndingInv(j)'
  <2>1. \A j \in Keys \ {k} : /\ (j \in up') = (j \in up)
                              /\ (j \in evaluated') = (j \in evaluated)
    BY <1>2
  <2> QED
    BY <1>2, <1>5, <2>1, OthersKept
<1>8. NoticesTrue(k)'
  <2>1. RaiseSaid(k)' /\ MuteSaid(k)'
    BY <1>5 DEF RaiseSaid, MuteSaid
  <2>2. ClearSaid(k)'
    <3>1. cfg.cooldown <= 2 => lastSent[k]["clear"] >= cfg.cooldown
      BY <1>1, <1>2 DEF KeyInv, ClearGap
    <3> QED
      BY <1>2, <1>5, <3>1 DEF ClearSaid, c
  <2>3. EndSaid(k)'
    BY <1>1, <1>2, <1>5 DEF KeyInv, NoticesTrue, EndSaid
  <2> QED
    BY <2>1, <2>2, <2>3 DEF NoticesTrue
<1>9. EndingInv(k)'
  BY <1>1, <1>2, <1>5 DEF KeyInv, EndingInv
<1>10. BudgetInv(k)' /\ QuietInv(k)'
  BY <1>1, <1>2 DEF KeyInv, BudgetInv, QuietInv, InWindow
<1>11. SpacedInv(k)' /\ ClearGap(k)'
  BY <1>1, <1>2 DEF KeyInv, SpacedInv, ClearGap
<1>12. HeardInv(k)'
  <2>1. "ping" \in FD!Coroutines
    BY DEF FD!Coroutines
  <2>2. k \in muted /\ SparseMutes => heard[k] = "flapping"
    BY <1>1, <1>3, <1>4 DEF KeyInv, HeardInv, FD!Notices, c
  <2> QED
    BY <1>1, <1>2, <1>5, <2>1, <2>2 DEF KeyInv, HeardInv, SparseMutes, c
<1> QED
  BY <1>6, <1>7, <1>8, <1>9, <1>10, <1>11, <1>12, OneKey DEF KeyInv

\* The end of a mute, of a key the loop has in its copy or takes first.
LEMMA EndKeeps ==
    ASSUME FlapInv, FD!DampingAssumption, NEW k \in Keys, FD!End(k), FD!Free("ping"),
           UNCHANGED <<cfg, up, quietFor, lastSent, evaluated, heard>>,
           swept' \in BOOLEAN, ending' \subseteq Keys \ {k}, k \in muted,
           lastSent[k]["FLAPPING"] >= cfg.quiet,
           \A c \in FD!Coroutines : ~Tells(c, k, "flapping"),
           \A j \in Keys : j \in ending' /\ j \notin ending =>
                              j \in muted /\ quietFor[j] >= cfg.quiet
    PROVE  FlapInv'
<1>1. FlapTyped /\ KeyInv(k)
  BY DEF FlapInv
<1>2. /\ muted' = muted \ {k} /\ raises' = [raises EXCEPT ![k] = {}]
      /\ told' = [told EXCEPT ![k] = {}] /\ FD!Say("ping", k, "ended")
  BY DEF FD!End
<1>3. "ping" \in FD!Coroutines /\ "ended" \in FD!Notices
  BY DEF FD!Coroutines, FD!Notices
<1>4. /\ Tells("ping", k, "ended")'
      /\ \A n \in FD!Notices \ {"ended"} : ~Tells("ping", k, n)'
      /\ \A d \in FD!Coroutines \ {"ping"}, n \in FD!Notices :
            Tells(d, k, n)' = Tells(d, k, n)
      /\ \A d \in FD!Coroutines, j \in Keys \ {k}, n \in FD!Notices :
            Tells(d, j, n)' = Tells(d, j, n)
      /\ \A n \in FD!Notices : ~Tells("ping", k, n)
      /\ pending' \in [FD!Coroutines -> {FD!Nothing} \cup [key : Keys, notice : FD!Notices]]
  BY <1>1, <1>2, <1>3, SaysOf
<1>5. \A d \in FD!Coroutines : /\ ~Tells(d, k, "raise")' /\ ~Tells(d, k, "clear")'
                               /\ ~Tells(d, k, "flapping")'
                               /\ Tells(d, k, "ended")' => d = "ping"
  <2>1. \A d \in FD!Coroutines : /\ ~Tells(d, k, "raise") /\ ~Tells(d, k, "clear")
                                 /\ Tells(d, k, "ended") => d = "ping"
    BY <1>1 DEF KeyInv, NoticesTrue, RaiseSaid, ClearSaid, EndSaid
  <2> QED
    BY <1>4, <2>1 DEF FD!Notices
<1>6. /\ raises \in [Keys -> SUBSET Ages] /\ told \in [Keys -> SUBSET Ages]
      /\ {} \in SUBSET Ages
  BY <1>1 DEF FlapTyped
<1>7. /\ raises'[k] = {} /\ told'[k] = {}
      /\ \A j \in Keys \ {k} : raises'[j] = raises[j] /\ told'[j] = told[j]
      /\ raises' \in [Keys -> SUBSET Ages] /\ told' \in [Keys -> SUBSET Ages]
  BY <1>2, <1>6
<1>8. FlapTyped'
  BY <1>1, <1>2, <1>4, <1>7 DEF FlapTyped
<1>9. ASSUME NEW j \in Keys \ {k} PROVE SameKey(j) /\ EndingInv(j)'
  <2>1. SameKey(j)
    <3>1. (j \in muted') = (j \in muted)
      BY <1>2
    <3> QED
      BY <1>4, <1>7, <3>1 DEF SameKey
  <2>2. KeyInv(j) /\ j \in Keys
    BY DEF FlapInv
  <2>3. \A c \in FD!Coroutines : /\ Tells(c, j, "flapping")' = Tells(c, j, "flapping")
                                 /\ Tells(c, j, "ended")' = Tells(c, j, "ended")
    BY <1>4 DEF FD!Notices
  <2>4. CASE j \in ending
    BY <1>2, <2>1, <2>2, <2>3, <2>4 DEF KeyInv, EndingInv
  <2>5. CASE j \in ending' /\ j \notin ending
    <3>1. j \in muted /\ quietFor[j] >= cfg.quiet
      BY <2>5
    <3>2. quietFor[j] \in Nat /\ cfg.quiet \in Nat \ {0} /\ lastSent[j]["FLAPPING"] \in Nat
      BY <1>1, FlapAt
    <3>3. quietFor[j] <= lastSent[j]["FLAPPING"]
      BY <2>2, <3>1 DEF KeyInv, QuietInv
    <3>4. \A c \in FD!Coroutines : ~Tells(c, j, "flapping")
      BY <2>2, <3>1, <3>2 DEF KeyInv, NoticesTrue, MuteSaid
    <3>5. \A c \in FD!Coroutines : ~Tells(c, j, "ended")
      BY <2>2, <3>1, <3>2 DEF KeyInv, NoticesTrue, EndSaid
    <3>6. lastSent[j]["FLAPPING"] >= cfg.quiet
      BY <3>1, <3>2, <3>3
    <3> QED
      BY <1>2, <2>1, <2>3, <3>1, <3>4, <3>5, <3>6 DEF EndingInv
  <2>6. CASE j \notin ending'
    BY <2>1, <2>6 DEF EndingInv
  <2> QED
    BY <2>4, <2>5, <2>6
<1>10. NoticesTrue(k)'
  <2>1. RaiseSaid(k)' /\ ClearSaid(k)' /\ MuteSaid(k)'
    BY <1>5 DEF RaiseSaid, ClearSaid, MuteSaid
  <2>2. lastSent[k]["FLAPPING"] \in Nat /\ cfg.quiet \in Nat /\ cfg.cooldown \in Nat
    BY <1>1, FlapAt
  <2>3. EndSaid(k)'
    BY <1>2, <1>5, <1>7, <2>2 DEF EndSaid
  <2> QED
    BY <2>1, <2>3 DEF NoticesTrue
<1>11. EndingInv(k)'
  BY DEF EndingInv
<1>12. BudgetInv(k)'
  <2>1. cfg.count \in Nat
    BY <1>1, FlapAt
  <2>2. InWindow(told[k])' = {} /\ InWindow(raises[k])' = {}
    BY <1>7 DEF InWindow
  <2> QED
    BY <1>2, <2>1, <2>2, FS_EmptySet DEF BudgetInv
<1>13. SpacedInv(k)' /\ QuietInv(k)' /\ ClearGap(k)'
  <2>1. SpacedInv(k)'
    BY <1>7 DEF SpacedInv
  <2>2. QuietInv(k)' /\ ClearGap(k)'
    BY <1>1, <1>2 DEF KeyInv, QuietInv, ClearGap
  <2> QED
    BY <2>1, <2>2
<1>14. HeardInv(k)'
  <2>1. HeardInv(k) /\ BudgetInv(k)
    BY <1>1 DEF KeyInv
  <2>2. cfg.count \in Nat /\ cfg.cooldown \in Nat /\ FD!Owner(k) \in FD!Coroutines
    BY <1>1, FlapAt
  <2>3. cfg.cooldown <= 2 => heard[k] # "raise"
    <3>1. cfg.count # 0
      BY <2>1 DEF BudgetInv
    <3>2. CASE cfg.count = 1
      BY <2>1, <3>2 DEF HeardInv
    <3>3. CASE cfg.count > 1 /\ cfg.cooldown <= 2
      <4>1. SparseMutes
        BY <2>2, <3>3 DEF SparseMutes
      <4> QED
        BY <2>1, <2>2, <4>1 DEF HeardInv
    <3> QED
      BY <2>2, <3>1, <3>2, <3>3
  <2> QED
    BY <1>2, <1>4, <2>1, <2>3 DEF HeardInv
<1> QED
  BY <1>8, <1>9, <1>10, <1>11, <1>12, <1>13, <1>14, OneKey DEF KeyInv

LEMMA SweepKeeps ==
    ASSUME FlapInv, FD!DampingAssumption, FD!Sweep
    PROVE  FlapInv'
<1>1. /\ FD!Free("ping") /\ ending = {} /\ swept' = TRUE
      /\ UNCHANGED <<cfg, up, quietFor, lastSent, evaluated, heard>>
  BY DEF FD!Sweep
<1>2. CASE \E k \in FD!Quietened : FD!End(k) /\ ending' = FD!Quietened \ {k}
  <2>1. PICK k \in FD!Quietened : FD!End(k) /\ ending' = FD!Quietened \ {k}
    BY <1>2
  <2>2. FD!Quietened \subseteq Keys /\ \A j \in FD!Quietened : j \in muted
                                                 /\ quietFor[j] >= cfg.quiet
    BY DEF FD!Quietened, FlapInv, FlapTyped
  <2>3. k \in Keys /\ k \in muted /\ quietFor[k] >= cfg.quiet /\ KeyInv(k)
    BY <2>2 DEF FlapInv
  <2>4. quietFor[k] \in Nat /\ cfg.quiet \in Nat \ {0} /\ lastSent[k]["FLAPPING"] \in Nat
    BY <2>3, FlapAt DEF FlapInv
  <2>5. lastSent[k]["FLAPPING"] >= cfg.quiet
    BY <2>3, <2>4 DEF KeyInv, QuietInv
  <2>6. \A c \in FD!Coroutines : ~Tells(c, k, "flapping")
    BY <2>3, <2>4 DEF KeyInv, NoticesTrue, MuteSaid
  <2>7. ending' \subseteq Keys \ {k}
    BY <2>1, <2>2
  <2>8. \A j \in Keys : j \in ending' => j \in muted /\ quietFor[j] >= cfg.quiet
    BY <2>1, <2>2
  <2> QED
    BY <1>1, <2>1, <2>3, <2>5, <2>6, <2>7, <2>8, EndKeeps
<1>3. CASE UNCHANGED <<muted, raises, told, ending, pending>>
  <2>1. \A d, j, n : Tells(d, j, n)' = Tells(d, j, n)
    BY <1>3 DEF Tells
  <2>2. FlapTyped'
    BY <1>1, <1>3 DEF FlapInv, FlapTyped
  <2>3. ASSUME NEW j \in Keys PROVE KeyInv(j)'
    <3>1. KeyInv(j) /\ FlapTyped
      BY DEF FlapInv
    <3>2. SameKey(j)
      BY <1>1, <1>3, <2>1 DEF SameKey
    <3>3. EndingInv(j)'
      BY <1>1, <1>3 DEF EndingInv
    <3> QED
      BY <3>1, <3>2, <3>3, OtherKey
  <2> QED
    BY <2>2, <2>3 DEF FlapInv
<1> QED
  BY <1>2, <1>3 DEF FD!Sweep

LEMMA SweepOnKeeps ==
    ASSUME FlapInv, FD!DampingAssumption, NEW k \in Keys, FD!SweepOn(k)
    PROVE  FlapInv'
<1>1. /\ k \in ending /\ FD!Free("ping") /\ FD!End(k) /\ ending' = ending \ {k}
      /\ UNCHANGED <<cfg, up, quietFor, lastSent, evaluated, swept, heard>>
  BY DEF FD!SweepOn
<1>2. /\ k \in muted /\ lastSent[k]["FLAPPING"] >= cfg.quiet
      /\ \A c \in FD!Coroutines : ~Tells(c, k, "flapping")
  BY <1>1 DEF FlapInv, KeyInv, EndingInv
<1>3. swept' \in BOOLEAN /\ ending' \subseteq Keys \ {k}
  BY <1>1 DEF FlapInv, FlapTyped
<1>4. UNCHANGED <<cfg, up, quietFor, lastSent, evaluated, heard>>
  BY <1>1
<1> QED
  BY <1>1, <1>2, <1>3, <1>4, EndKeeps

\* A coroutine that has sent its notice, or swallowed it, is silent.
Silenced(c) == pending' = [pending EXCEPT ![c] = FD!Nothing]
Unmoved == UNCHANGED <<cfg, up, raises, muted, quietFor, evaluated, swept, ending>>

LEMMA FallsSilent ==
    ASSUME FlapTyped, NEW c \in FD!Coroutines, Silenced(c)
    PROVE  /\ \A k \in Keys, n \in FD!Notices : ~Tells(c, k, n)'
           /\ \A d \in FD!Coroutines \ {c}, k \in Keys, n \in FD!Notices :
                 Tells(d, k, n)' = Tells(d, k, n)
           /\ \A d \in FD!Coroutines, k \in Keys, n \in FD!Notices :
                 Tells(d, k, n)' => Tells(d, k, n)
           /\ pending' \in [FD!Coroutines -> {FD!Nothing} \cup [key : Keys, notice : FD!Notices]]
<1>1. pending \in [FD!Coroutines -> {FD!Nothing} \cup [key : Keys, notice : FD!Notices]]
  BY DEF FlapTyped
<1>2. pending'[c] = FD!Nothing /\ \A d \in FD!Coroutines \ {c} : pending'[d] = pending[d]
  BY <1>1 DEF Silenced
<1>3. FD!Nothing.notice = "none" /\ "none" \notin FD!Notices
  BY DEF FD!Nothing, FD!Notices
<1>4. \A k \in Keys, n \in FD!Notices : ~Tells(c, k, n)'
  <2>1. ASSUME NEW k \in Keys, NEW n \in FD!Notices,
               FD!Nothing = [key |-> k, notice |-> n]
        PROVE  FALSE
    BY <1>3, <2>1
  <2> QED
    BY <1>2, <2>1 DEF Tells
<1>5. \A d \in FD!Coroutines \ {c}, k \in Keys, n \in FD!Notices :
         Tells(d, k, n)' = Tells(d, k, n)
  BY <1>2 DEF Tells
<1>6. pending' \in [FD!Coroutines -> {FD!Nothing} \cup [key : Keys, notice : FD!Notices]]
  BY <1>1 DEF Silenced
<1>7. ASSUME NEW d \in FD!Coroutines, NEW k \in Keys, NEW n \in FD!Notices, Tells(d, k, n)'
      PROVE  Tells(d, k, n)
  BY <1>4, <1>5, <1>7
<1> QED
  BY <1>4, <1>5, <1>6, <1>7

\* The keys a delivery is not about.
LEMMA DeliveryOthers ==
    ASSUME FlapInv, FD!DampingAssumption, NEW c \in FD!Coroutines, NEW k \in Keys,
           NEW notice \in FD!Notices, Tells(c, k, notice), Silenced(c), Unmoved,
           \A j \in Keys \ {k} : /\ lastSent'[j] = lastSent[j] /\ heard'[j] = heard[j]
                                 /\ told'[j] = told[j]
    PROVE  \A j \in Keys \ {k} : SameKey(j) /\ EndingInv(j)'
<1> TAKE j \in Keys \ {k}
<1>1. FlapTyped /\ KeyInv(j)
  BY DEF FlapInv
<1>2. \A n \in FD!Notices : ~Tells(c, j, n)
  <2>1. ASSUME NEW n \in FD!Notices, Tells(c, j, n) PROVE FALSE
    <3>1. [key |-> k, notice |-> notice].key = [key |-> j, notice |-> n].key
      BY <2>1 DEF Tells
    <3> QED
      BY <3>1
  <2> QED
    BY <2>1
<1>3. ASSUME NEW d \in FD!Coroutines, NEW n \in FD!Notices
      PROVE  Tells(d, j, n)' = Tells(d, j, n)
  <2>1. CASE d = c
    <3>1. ~Tells(d, j, n) /\ ~Tells(d, j, n)'
      BY <1>1, <1>2, <2>1, FallsSilent
    <3>2. Tells(d, j, n)' = FALSE /\ Tells(d, j, n) = FALSE
      BY <3>1 DEF Tells
    <3> QED
      BY <3>2
  <2>2. CASE d # c
    BY <1>1, <2>2, FallsSilent
  <2> QED
    BY <2>1, <2>2
<1>4. SameKey(j)
  BY <1>3 DEF SameKey, Unmoved
<1>5. EndingInv(j)'
  <2>1. \A d \in FD!Coroutines : /\ Tells(d, j, "flapping")' = Tells(d, j, "flapping")
                                 /\ Tells(d, j, "ended")' = Tells(d, j, "ended")
    BY <1>3 DEF FD!Notices
  <2> QED
    BY <1>1, <1>4, <2>1 DEF KeyInv, EndingInv, SameKey, Unmoved
<1> QED
  BY <1>4, <1>5

\* One notice at a time.
LEMMA OneNotice ==
    ASSUME NEW c, NEW k, NEW n, NEW m, Tells(c, k, n), Tells(c, k, m)
    PROVE  n = m
<1>1. [key |-> k, notice |-> n].notice = [key |-> k, notice |-> m].notice
  BY DEF Tells
<1> QED
  BY <1>1

\* The cooldown swallows only what need not be heard.
LEMMA SwallowKeeps ==
    ASSUME FlapInv, FD!DampingAssumption, NEW c \in FD!Coroutines, NEW k \in Keys,
           NEW notice \in FD!Notices, Tells(c, k, notice), Silenced(c), Unmoved,
           UNCHANGED <<lastSent, heard, told>>,
           lastSent[k][FD!Throttle(notice)] < cfg.cooldown
    PROVE  FlapInv'
<1>1. FlapTyped /\ KeyInv(k)
  BY DEF FlapInv
<1>2. /\ \A n \in FD!Notices : ~Tells(c, k, n)'
      /\ \A d \in FD!Coroutines \ {c}, n \in FD!Notices : Tells(d, k, n)' = Tells(d, k, n)
      /\ \A d \in FD!Coroutines, n \in FD!Notices : Tells(d, k, n)' => Tells(d, k, n)
      /\ pending' \in [FD!Coroutines -> {FD!Nothing} \cup [key : Keys, notice : FD!Notices]]
  BY <1>1, FallsSilent
<1>3. FlapTyped'
  BY <1>1, <1>2 DEF FlapTyped, Unmoved
<1>4. \A j \in Keys \ {k} : SameKey(j) /\ EndingInv(j)'
  BY DeliveryOthers
<1>5. \A d \in FD!Coroutines :
         /\ Tells(d, k, "raise")' => Tells(d, k, "raise")
         /\ Tells(d, k, "clear")' => Tells(d, k, "clear")
         /\ Tells(d, k, "flapping")' => Tells(d, k, "flapping")
         /\ Tells(d, k, "ended")' => Tells(d, k, "ended")
  BY <1>2 DEF FD!Notices
<1>6. NoticesTrue(k)'
  <2>1. RaiseSaid(k)' /\ ClearSaid(k)'
    BY <1>1, <1>5 DEF KeyInv, NoticesTrue, RaiseSaid, ClearSaid, Unmoved
  <2>2. MuteSaid(k)'
    BY <1>1, <1>5 DEF KeyInv, NoticesTrue, MuteSaid, Unmoved, SparseMutes
  <2>3. EndSaid(k)'
    BY <1>1, <1>5 DEF KeyInv, NoticesTrue, EndSaid, Unmoved
  <2> QED
    BY <2>1, <2>2, <2>3 DEF NoticesTrue
<1>7. EndingInv(k)'
  BY <1>1, <1>5 DEF KeyInv, EndingInv, Unmoved
<1>8. BudgetInv(k)' /\ SpacedInv(k)' /\ QuietInv(k)' /\ ClearGap(k)'
  BY <1>1 DEF KeyInv, BudgetInv, SpacedInv, QuietInv, ClearGap, InWindow, Unmoved
<1>9. HeardInv(k)'
  <2>1. HeardInv(k) /\ RaiseSaid(k) /\ ClearSaid(k) /\ MuteSaid(k) /\ EndSaid(k)
    BY <1>1 DEF KeyInv, NoticesTrue
  <2>2. /\ lastSent[k]["clear"] \in Nat /\ lastSent[k]["FLAPPING"] \in Nat
        /\ cfg.cooldown \in Nat /\ FD!Owner(k) \in FD!Coroutines /\ "ping" \in FD!Coroutines
    BY <1>1, FlapAt
  <2>3. \A d \in FD!Coroutines, n \in FD!Notices :
           Tells(d, k, n) => Tells(d, k, n)' \/ (d = c /\ n = notice)
    BY <1>2, OneNotice
  <2>4. /\ Tells(FD!Owner(k), k, "clear") => Tells(FD!Owner(k), k, "clear")'
                                             \/ (c = FD!Owner(k) /\ notice = "clear")
        /\ Tells(FD!Owner(k), k, "flapping") => Tells(FD!Owner(k), k, "flapping")'
                                             \/ (c = FD!Owner(k) /\ notice = "flapping")
        /\ Tells("ping", k, "ended") => Tells("ping", k, "ended")'
                                             \/ (c = "ping" /\ notice = "ended")
    BY <2>2, <2>3 DEF FD!Notices
  <2>5. notice = "clear" => ~(cfg.cooldown <= 2)
    BY <2>1, <2>2 DEF ClearSaid, FD!Throttle
  <2>6. notice = "flapping" => ~SparseMutes
    BY <2>1, <2>2 DEF MuteSaid, FD!Throttle
  <2>7. notice = "ended" => ~(k \notin muted /\ cfg.cooldown <= cfg.quiet)
    BY <2>1, <2>2 DEF EndSaid, FD!Throttle
  <2>8. HeardInv(k)' <=>
          /\ cfg.count = 1 => heard[k] # "raise"
          /\ cfg.cooldown <= 2 /\ k \notin up /\ k \notin muted =>
                heard[k] # "raise" \/ Tells(FD!Owner(k), k, "clear")'
          /\ SparseMutes /\ k \in muted =>
                heard[k] = "flapping" \/ Tells(FD!Owner(k), k, "flapping")'
          /\ cfg.cooldown <= cfg.quiet /\ k \notin muted =>
                heard[k] # "flapping" \/ Tells("ping", k, "ended")'
    BY DEF HeardInv, Unmoved, SparseMutes
  <2> QED
    BY <2>1, <2>4, <2>5, <2>6, <2>7, <2>8 DEF HeardInv
<1> QED
  BY <1>1, <1>3, <1>4, <1>6, <1>7, <1>8, <1>9, OneKey DEF KeyInv

\* What a notice that is sent leaves behind.
Sent(k, notice) ==
    /\ lastSent' = [lastSent EXCEPT ![k][FD!Throttle(notice)] = 0]
    /\ heard' = [heard EXCEPT ![k] = notice]
    /\ told' = IF notice = "raise" THEN [told EXCEPT ![k] = @ \cup {0}] ELSE told

LEMMA SentAt ==
    ASSUME FlapTyped, FD!DampingAssumption, NEW k \in Keys, NEW notice \in FD!Notices,
           Sent(k, notice)
    PROVE  /\ heard'[k] = notice
           /\ lastSent'[k]["clear"] = IF notice = "clear" THEN 0 ELSE lastSent[k]["clear"]
           /\ lastSent'[k]["FLAPPING"] = IF notice \in {"flapping", "ended"} THEN 0
                                         ELSE lastSent[k]["FLAPPING"]
           /\ told'[k] = IF notice = "raise" THEN told[k] \cup {0} ELSE told[k]
           /\ \A j \in Keys \ {k} : /\ lastSent'[j] = lastSent[j] /\ heard'[j] = heard[j]
                                    /\ told'[j] = told[j]
           /\ told' \in [Keys -> SUBSET Ages]
           /\ lastSent' \in [Keys -> [FD!Heads -> 0..MaxAge]]
           /\ heard' \in [Keys -> FD!Notices \cup {"none"}]
<1> DEFINE h == FD!Throttle(notice)
<1>1. /\ h \in FD!Heads /\ "clear" \in FD!Heads /\ "FLAPPING" \in FD!Heads
      /\ h = "clear" <=> notice = "clear"
      /\ h = "FLAPPING" <=> notice \in {"flapping", "ended"}
  BY DEF FD!Throttle, FD!Heads, FD!Notices
<1>2. /\ lastSent \in [Keys -> [FD!Heads -> 0..MaxAge]]
      /\ heard \in [Keys -> FD!Notices \cup {"none"}] /\ told \in [Keys -> SUBSET Ages]
      /\ MaxAge \in Nat \ {0}
  BY DEF FlapTyped, FD!DampingAssumption
<1>3. lastSent' = [lastSent EXCEPT ![k][h] = 0]
  BY DEF Sent
<1> HIDE DEF h
<1>4. lastSent'[k] = [lastSent[k] EXCEPT ![h] = 0]
  BY <1>2, <1>3
<1>5. lastSent[k] \in [FD!Heads -> 0..MaxAge] /\ 0 \in 0..MaxAge
  BY <1>2
<1>6. /\ lastSent'[k]["clear"] = IF notice = "clear" THEN 0 ELSE lastSent[k]["clear"]
      /\ lastSent'[k]["FLAPPING"] = IF notice \in {"flapping", "ended"} THEN 0
                                    ELSE lastSent[k]["FLAPPING"]
  BY <1>1, <1>4, <1>5
<1>7. lastSent'[k] \in [FD!Heads -> 0..MaxAge]
  BY <1>4, <1>5
<1>8. \A j \in Keys \ {k} : lastSent'[j] = lastSent[j]
  BY <1>2, <1>3
<1>9. lastSent' = [lastSent EXCEPT ![k] = lastSent'[k]]
  BY <1>2, <1>3, <1>4
<1>10. lastSent' \in [Keys -> [FD!Heads -> 0..MaxAge]]
  BY <1>2, <1>7, <1>9
<1>11. 0 \in Ages
  BY <1>2 DEF Ages
<1>12. /\ told'[k] = IF notice = "raise" THEN told[k] \cup {0} ELSE told[k]
       /\ \A j \in Keys \ {k} : told'[j] = told[j]
       /\ told' \in [Keys -> SUBSET Ages]
  <2>1. CASE notice = "raise"
    <3>1. told' = [told EXCEPT ![k] = told[k] \cup {0}]
      BY <1>2, <2>1 DEF Sent
    <3>2. told[k] \cup {0} \in SUBSET Ages
      BY <1>2, <1>11
    <3> QED
      BY <1>2, <2>1, <3>1, <3>2
  <2>2. CASE notice # "raise"
    <3>1. told' = told
      BY <2>2 DEF Sent
    <3> QED
      BY <1>2, <2>2, <3>1
  <2> QED
    BY <2>1, <2>2
<1>13. /\ heard'[k] = notice /\ \A j \in Keys \ {k} : heard'[j] = heard[j]
       /\ heard' \in [Keys -> FD!Notices \cup {"none"}]
  BY <1>2 DEF Sent
<1> QED
  BY <1>6, <1>8, <1>10, <1>12, <1>13

LEMMA SendKeeps ==
    ASSUME FlapInv, FD!DampingAssumption, NEW c \in FD!Coroutines, NEW k \in Keys,
           NEW notice \in FD!Notices, Tells(c, k, notice), Silenced(c), Unmoved,
           Sent(k, notice)
    PROVE  FlapInv'
<1>1. FlapTyped /\ KeyInv(k)
  BY DEF FlapInv
<1>2. /\ RaiseSaid(k) /\ ClearSaid(k) /\ MuteSaid(k) /\ EndSaid(k)
      /\ EndingInv(k) /\ BudgetInv(k) /\ SpacedInv(k) /\ QuietInv(k) /\ ClearGap(k)
      /\ HeardInv(k)
  BY <1>1 DEF KeyInv, NoticesTrue
<1>3. /\ heard'[k] = notice
      /\ lastSent'[k]["clear"] = IF notice = "clear" THEN 0 ELSE lastSent[k]["clear"]
      /\ lastSent'[k]["FLAPPING"] = IF notice \in {"flapping", "ended"} THEN 0
                                    ELSE lastSent[k]["FLAPPING"]
      /\ told'[k] = IF notice = "raise" THEN told[k] \cup {0} ELSE told[k]
      /\ \A j \in Keys \ {k} : /\ lastSent'[j] = lastSent[j] /\ heard'[j] = heard[j]
                               /\ told'[j] = told[j]
      /\ told' \in [Keys -> SUBSET Ages]
      /\ lastSent' \in [Keys -> [FD!Heads -> 0..MaxAge]]
      /\ heard' \in [Keys -> FD!Notices \cup {"none"}]
  BY <1>1, SentAt
<1>4. /\ \A n \in FD!Notices : ~Tells(c, k, n)'
      /\ \A d \in FD!Coroutines, n \in FD!Notices : Tells(d, k, n)' => Tells(d, k, n)
      /\ pending' \in [FD!Coroutines -> {FD!Nothing} \cup [key : Keys, notice : FD!Notices]]
  BY <1>1, FallsSilent
<1>5. FlapTyped'
  BY <1>1, <1>3, <1>4 DEF FlapTyped, Unmoved
<1>6. \A j \in Keys \ {k} : SameKey(j) /\ EndingInv(j)'
  BY <1>3, DeliveryOthers
<1>7. \A d \in FD!Coroutines :
         /\ Tells(d, k, "raise")' => Tells(d, k, "raise") /\ d # c
         /\ Tells(d, k, "clear")' => Tells(d, k, "clear") /\ d # c
         /\ Tells(d, k, "flapping")' => Tells(d, k, "flapping") /\ d # c
         /\ Tells(d, k, "ended")' => Tells(d, k, "ended") /\ d # c
  BY <1>4 DEF FD!Notices
<1>8. /\ cfg.cooldown \in Nat /\ cfg.quiet \in Nat /\ cfg.count \in Nat
      /\ quietFor[k] \in Nat /\ raises[k] \subseteq Nat
      /\ lastSent[k]["FLAPPING"] \in Nat /\ lastSent[k]["clear"] \in Nat
      /\ told[k] \subseteq Ages /\ raises[k] \subseteq Ages /\ cfg.window \in Nat
  BY <1>1, FlapAt DEF Ages
<1>9. notice \in {"raise", "clear", "flapping", "ended"}
  BY DEF FD!Notices
<1>10. RaiseSaid(k)'
  BY <1>2, <1>7 DEF RaiseSaid, Unmoved
<1>11. ClearSaid(k)'
  <2>1. notice = "clear" => \A d \in FD!Coroutines : ~Tells(d, k, "clear")'
    BY <1>2, <1>7 DEF ClearSaid
  <2> QED
    BY <1>2, <1>3, <1>7, <2>1 DEF ClearSaid, Unmoved
<1>12. MuteSaid(k)'
  <2>1. notice = "flapping" => \A d \in FD!Coroutines : ~Tells(d, k, "flapping")'
    BY <1>2, <1>7 DEF MuteSaid
  <2>2. notice = "ended" /\ SparseMutes => k \notin muted
    BY <1>2, <1>8 DEF EndSaid, SparseMutes
  <2>3. SparseMutes' = SparseMutes
    BY DEF SparseMutes, Unmoved
  <2> QED
    BY <1>2, <1>3, <1>7, <2>1, <2>2, <2>3 DEF MuteSaid, Unmoved
<1>13. EndSaid(k)'
  <2>1. notice = "ended" => \A d \in FD!Coroutines : ~Tells(d, k, "ended")'
    BY <1>2, <1>7 DEF EndSaid
  <2>2. notice = "flapping" => k \in muted
    BY <1>2 DEF MuteSaid
  <2> QED
    BY <1>2, <1>3, <1>7, <2>1, <2>2 DEF EndSaid, Unmoved
<1>14. EndingInv(k)'
  <2>1. notice \in {"flapping", "ended"} => k \notin ending
    BY <1>2 DEF EndingInv
  <2> QED
    BY <1>2, <1>3, <1>7, <2>1 DEF EndingInv, Unmoved
<1>15. BudgetInv(k)'
  <2>1. CASE notice = "raise"
    <3>1. k \notin muted /\ (cfg.count > 0 => 0 \in raises[k])
      BY <1>2, <2>1 DEF RaiseSaid
    <3>2. InWindow(told[k])' = InWindow(told[k]) \cup {0}
      BY <1>3, <1>8, <2>1 DEF InWindow, Unmoved
    <3>3. InWindow(raises[k])' = InWindow(raises[k])
      BY DEF InWindow, Unmoved
    <3>4. CASE cfg.count = 0
      BY <1>8, <3>1, <3>4 DEF BudgetInv, Unmoved
    <3>5. CASE cfg.count > 0
      <4>1. /\ InWindow(told[k]) \subseteq raises[k]
            /\ Cardinality(InWindow(raises[k])) < cfg.count
        BY <1>2, <3>1, <3>5 DEF BudgetInv
      <4>2. InWindow(told[k]) \cup {0} \subseteq InWindow(raises[k])
        BY <1>8, <3>1, <3>5, <4>1 DEF InWindow
      <4>3. InWindow(raises[k]) \subseteq raises[k]
        BY DEF InWindow
      <4>4. /\ Cardinality(InWindow(raises[k])) \in Nat
            /\ Cardinality(InWindow(told[k]) \cup {0})
                  <= Cardinality(InWindow(raises[k]))
        BY <1>8, <4>2, <4>3, AgesFinite
      <4>5. InWindow(told[k]) \cup {0} \subseteq Ages
        BY <1>8, <4>2, <4>3
      <4>6. Cardinality(InWindow(told[k]) \cup {0}) \in Nat
        BY <4>5, AgesFinite
      <4>7. Cardinality(InWindow(told[k]) \cup {0}) < cfg.count
        BY <1>8, <4>1, <4>4, <4>6
      <4> QED
        BY <3>2, <3>3, <3>5, <4>1, <4>2, <4>3, <4>7 DEF BudgetInv, Unmoved
    <3> QED
      BY <1>8, <3>4, <3>5
  <2>2. CASE notice # "raise"
    BY <1>2, <1>3, <2>2 DEF BudgetInv, InWindow, Unmoved
  <2> QED
    BY <2>1, <2>2
<1>16. SpacedInv(k)'
  <2>1. notice = "flapping" => k \in muted
    BY <1>2 DEF MuteSaid
  <2>2. notice = "ended" => raises[k] \subseteq {0}
    BY <1>2 DEF EndSaid
  <2>3. k \notin muted => \A a \in raises[k] : a <= lastSent'[k]["FLAPPING"]
    BY <1>2, <1>3, <1>8, <2>1, <2>2 DEF SpacedInv
  <2> QED
    BY <1>2, <2>3 DEF SpacedInv, Unmoved
<1>17. QuietInv(k)'
  <2>1. notice \in {"flapping", "ended"} /\ k \in muted => quietFor[k] = 0
    BY <1>2 DEF MuteSaid, EndSaid
  <2> QED
    BY <1>2, <1>3, <1>8, <2>1 DEF QuietInv, Unmoved
<1>18. ClearGap(k)'
  <2>1. notice = "clear" => k \notin up /\ k \in evaluated
    BY <1>2 DEF ClearSaid
  <2> QED
    BY <1>2, <1>3, <2>1 DEF ClearGap, Unmoved
<1>19. HeardInv(k)'
  <2>1. notice = "raise" => k \in up /\ k \notin muted /\ cfg.count # 1
    BY <1>2 DEF RaiseSaid
  <2>2. notice = "clear" => k \notin muted
    BY <1>2 DEF ClearSaid
  <2>3. notice = "flapping" => k \in muted
    BY <1>2 DEF MuteSaid
  <2>4. notice = "ended" /\ SparseMutes => k \notin muted
    BY <1>2, <1>8 DEF EndSaid, SparseMutes
  <2>5. SparseMutes' = SparseMutes
    BY DEF SparseMutes, Unmoved
  <2> QED
    BY <1>3, <1>9, <2>1, <2>2, <2>3, <2>4, <2>5 DEF HeardInv, Unmoved
<1> QED
  BY <1>1, <1>5, <1>6, <1>10, <1>11, <1>12, <1>13, <1>14, <1>15, <1>16, <1>17, <1>18,
     <1>19, OneKey DEF KeyInv, NoticesTrue

LEMMA DeliverKeeps ==
    ASSUME FlapInv, FD!DampingAssumption, NEW c \in FD!Coroutines, FD!Deliver(c)
    PROVE  FlapInv'
<1>1. pending[c] \in {FD!Nothing} \cup [key : Keys, notice : FD!Notices]
  BY DEF FlapInv, FlapTyped
<1>2. pending[c].notice # "none"
  BY DEF FD!Deliver, FD!Free
<1>3. FD!Nothing.notice = "none"
  BY DEF FD!Nothing
<1>4. pending[c] \in [key : Keys, notice : FD!Notices]
  BY <1>1, <1>2, <1>3
<1>5. PICK k \in Keys, notice \in FD!Notices : pending[c] = [key |-> k, notice |-> notice]
  BY <1>4
<1>6. Tells(c, k, notice) /\ pending[c].key = k /\ pending[c].notice = notice
  BY <1>5 DEF Tells
<1>7. Silenced(c) /\ Unmoved
  BY DEF FD!Deliver, Silenced, Unmoved
<1>8. \/ /\ lastSent[k][FD!Throttle(notice)] < cfg.cooldown
         /\ UNCHANGED <<lastSent, heard, told>>
      \/ Sent(k, notice)
  BY <1>6 DEF FD!Deliver, Sent
<1> QED
  BY <1>6, <1>7, <1>8, SwallowKeeps, SendKeeps

LEMMA TickKeeps ==
    ASSUME FlapInv, FD!DampingAssumption, FD!Tick
    PROVE  FlapInv'
<1>1. FlapTyped
  BY DEF FlapInv
<1>2. /\ UNCHANGED <<cfg, up, muted, ending, pending, heard>>
      /\ ending = {} /\ evaluated' = {} /\ swept' = FALSE
      /\ raises' = [k \in Keys |-> FD!OlderAll(raises[k])]
      /\ told' = [k \in Keys |-> FD!OlderAll(told[k])]
      /\ quietFor' = [k \in Keys |-> FD!Older(quietFor[k])]
      /\ lastSent' = [k \in Keys |-> [h \in FD!Heads |-> FD!Older(lastSent[k][h])]]
  BY DEF FD!Tick
<1>3. \A c \in FD!Coroutines : pending[c].notice = "none"
  BY DEF FD!Tick, FD!Free
<1>4. \A c \in FD!Coroutines, k \in Keys, n \in FD!Notices :
         ~Tells(c, k, n) /\ ~Tells(c, k, n)'
  <2>1. ASSUME NEW c \in FD!Coroutines, NEW k \in Keys, NEW n \in FD!Notices, Tells(c, k, n)
        PROVE  FALSE
    <3>1. pending[c].notice = n /\ n # "none"
      BY <2>1 DEF Tells, FD!Notices
    <3> QED
      BY <1>3, <3>1
  <2>2. \A c, k, n : Tells(c, k, n)' = Tells(c, k, n)
    BY <1>2 DEF Tells
  <2> QED
    BY <2>1, <2>2
<1>5. MaxAge \in Nat \ {0} /\ cfg.window \in Nat
  BY <1>1 DEF FD!DampingAssumption, FlapTyped, FD!Settings
<1>6. ASSUME NEW a \in 0..MaxAge
      PROVE  /\ FD!Older(a) \in 0..MaxAge
             /\ FD!Older(a) = IF a < MaxAge THEN a + 1 ELSE MaxAge
  BY <1>5 DEF FD!Older
<1>7. FlapTyped'
  <2>1. raises' \in [Keys -> SUBSET Ages] /\ told' \in [Keys -> SUBSET Ages]
    <3>1. \A k \in Keys : /\ FD!OlderAll(raises[k]) \subseteq Ages
                          /\ FD!OlderAll(told[k]) \subseteq Ages
      BY <1>1, <1>5, FlapAt, OlderInWindow
    <3> QED
      BY <1>2, <3>1
  <2>2. quietFor' \in [Keys -> 0..MaxAge]
    BY <1>1, <1>2, <1>6 DEF FlapTyped
  <2>3. lastSent' \in [Keys -> [FD!Heads -> 0..MaxAge]]
    BY <1>1, <1>2, <1>6 DEF FlapTyped
  <2> QED
    BY <1>1, <1>2, <2>1, <2>2, <2>3 DEF FlapTyped
<1>8. ASSUME NEW k \in Keys PROVE KeyInv(k)'
  <2>1. EndingInv(k) /\ BudgetInv(k) /\ SpacedInv(k) /\ QuietInv(k) /\ ClearGap(k)
        /\ HeardInv(k)
    BY DEF FlapInv, KeyInv
  <2>2. /\ quietFor[k] \in 0..MaxAge /\ lastSent[k]["clear"] \in 0..MaxAge
        /\ lastSent[k]["FLAPPING"] \in 0..MaxAge
        /\ raises[k] \subseteq Ages /\ told[k] \subseteq Ages
        /\ cfg.count \in Nat /\ cfg.cooldown \in 0..MaxAge
        /\ FD!Owner(k) \in FD!Coroutines /\ "ping" \in FD!Coroutines
    BY <1>1, FlapAt
  <2>3. /\ raises'[k] = FD!OlderAll(raises[k]) /\ told'[k] = FD!OlderAll(told[k])
        /\ quietFor'[k] = FD!Older(quietFor[k])
        /\ lastSent'[k]["clear"] = FD!Older(lastSent[k]["clear"])
        /\ lastSent'[k]["FLAPPING"] = FD!Older(lastSent[k]["FLAPPING"])
    BY <1>2 DEF FD!Heads
  <2>4. /\ \A a \in raises'[k] : a - 1 \in raises[k] /\ a \in Nat \ {0} /\ a < MaxAge
        /\ \A a \in told'[k] : a - 1 \in told[k] /\ a \in Nat \ {0} /\ a < MaxAge
        /\ Cardinality(InWindow(raises'[k])) <= Cardinality(InWindow(raises[k]))
        /\ Cardinality(InWindow(told'[k])) <= Cardinality(InWindow(told[k]))
        /\ raises'[k] \subseteq Ages /\ told'[k] \subseteq Ages
    <3>1. /\ \A a \in raises'[k] : a - 1 \in raises[k] /\ a \in Nat \ {0}
          /\ Cardinality(InWindow(raises'[k])) <= Cardinality(InWindow(raises[k]))
          /\ raises'[k] \subseteq Ages
      BY <1>5, <2>2, <2>3, OlderInWindow
    <3>2. /\ \A a \in told'[k] : a - 1 \in told[k] /\ a \in Nat \ {0}
          /\ Cardinality(InWindow(told'[k])) <= Cardinality(InWindow(told[k]))
          /\ told'[k] \subseteq Ages
      BY <1>5, <2>2, <2>3, OlderInWindow
    <3>3. \A a \in Ages : a < MaxAge
      BY <1>5 DEF Ages
    <3> QED
      BY <3>1, <3>2, <3>3
  <2>5. NoticesTrue(k)'
    <3>1. \A c \in FD!Coroutines : /\ ~Tells(c, k, "raise")' /\ ~Tells(c, k, "clear")'
                                   /\ ~Tells(c, k, "flapping")' /\ ~Tells(c, k, "ended")'
      BY <1>4 DEF FD!Notices
    <3> QED
      BY <3>1 DEF NoticesTrue, RaiseSaid, ClearSaid, MuteSaid, EndSaid
  <2>6. EndingInv(k)'
    BY <1>2 DEF EndingInv
  <2>7. BudgetInv(k)'
    <3>1. InWindow(told[k])' = InWindow(told'[k]) /\ InWindow(raises[k])' = InWindow(raises'[k])
      BY <1>2 DEF InWindow
    <3>2. CASE cfg.count = 0
      BY <1>2, <2>1, <2>2, <3>2 DEF BudgetInv
    <3>3. CASE cfg.count > 0
      <4>1. /\ Cardinality(InWindow(told[k])) < cfg.count
            /\ k \notin muted => /\ InWindow(told[k]) \subseteq raises[k]
                                 /\ Cardinality(InWindow(raises[k])) < cfg.count
        BY <2>1, <3>3 DEF BudgetInv
      <4>2. /\ InWindow(told[k]) \subseteq Ages /\ InWindow(raises[k]) \subseteq Ages
            /\ InWindow(told'[k]) \subseteq Ages /\ InWindow(raises'[k]) \subseteq Ages
        BY <2>2, <2>4 DEF InWindow
      <4>3. /\ Cardinality(InWindow(told[k])) \in Nat
            /\ Cardinality(InWindow(raises[k])) \in Nat
            /\ Cardinality(InWindow(told'[k])) \in Nat
            /\ Cardinality(InWindow(raises'[k])) \in Nat
        BY <4>2, AgesFinite
      <4>4. /\ Cardinality(InWindow(told'[k])) < cfg.count
            /\ k \notin muted => Cardinality(InWindow(raises'[k])) < cfg.count
        BY <2>2, <2>4, <4>1, <4>3
      <4>5. ASSUME k \notin muted, NEW b \in InWindow(told'[k]) PROVE b \in raises'[k]
        <5>1. b \in told'[k] /\ b <= cfg.window /\ cfg.window \in Nat
          BY <1>5, <4>5 DEF InWindow
        <5>2. b - 1 \in told[k] /\ b \in Nat \ {0} /\ b < MaxAge
          BY <2>4, <5>1
        <5>3. b - 1 <= cfg.window
          BY <5>1, <5>2
        <5>4. b - 1 \in raises[k]
          BY <4>1, <4>5, <5>2, <5>3 DEF InWindow
        <5>5. b = (b - 1) + 1 /\ (b - 1) + 1 < MaxAge
          BY <5>2
        <5>6. b \in FD!OlderAll(raises[k])
          BY <5>4, <5>5 DEF FD!OlderAll
        <5> QED
          BY <2>3, <5>6
      <4> QED
        BY <1>2, <3>1, <3>3, <4>4, <4>5 DEF BudgetInv
    <3> QED
      BY <2>2, <3>2, <3>3
  <2>8. SpacedInv(k)'
    <3>1. ASSUME NEW a \in raises'[k], NEW b \in raises'[k], a < b PROVE a + 2 <= b
      <4>1. a - 1 \in raises[k] /\ b - 1 \in raises[k] /\ a \in Nat /\ b \in Nat
        BY <2>4
      <4>2. a - 1 < b - 1
        BY <3>1, <4>1
      <4>3. (a - 1) + 2 <= b - 1
        BY <2>1, <4>1, <4>2 DEF SpacedInv
      <4> QED
        BY <4>1, <4>3
    <3>2. 0 \notin raises'[k]
      BY <2>4
    <3>3. 1 \in raises'[k] => k \in up
      <4>1. 1 \in raises'[k] => 1 - 1 \in raises[k]
        BY <2>4
      <4> QED
        BY <2>1, <4>1 DEF SpacedInv
    <3>4. ASSUME k \notin muted, NEW a \in raises'[k]
          PROVE  a <= lastSent'[k]["FLAPPING"]
      <4>1. a - 1 \in raises[k] /\ a \in Nat /\ a < MaxAge
        BY <2>4
      <4>2. a - 1 <= lastSent[k]["FLAPPING"]
        BY <2>1, <3>4, <4>1 DEF SpacedInv
      <4> QED
        BY <1>5, <1>6, <2>2, <2>3, <4>1, <4>2
    <3> QED
      BY <1>2, <3>1, <3>2, <3>3, <3>4 DEF SpacedInv
  <2>9. QuietInv(k)'
    <3>1. \A a, b \in 0..MaxAge : a <= b => FD!Older(a) <= FD!Older(b)
      BY <1>5 DEF FD!Older
    <3>2. k \in muted => quietFor[k] <= lastSent[k]["FLAPPING"]
      BY <2>1 DEF QuietInv
    <3>3. quietFor'[k] = FD!Older(quietFor[k])
      BY <2>3
    <3>4. lastSent'[k]["FLAPPING"] = FD!Older(lastSent[k]["FLAPPING"])
      BY <2>3
    <3>5. muted' = muted
      BY <1>2
    <3> QED
      BY <2>2, <3>1, <3>2, <3>3, <3>4, <3>5 DEF QuietInv
  <2>10. ClearGap(k)'
    <3>1. ASSUME cfg.cooldown <= 2
          PROVE  /\ k \in up => FD!Older(lastSent[k]["clear"]) >= cfg.cooldown
                 /\ FD!Older(lastSent[k]["clear"]) + 1 >= cfg.cooldown
      <4>1. k \in up => lastSent[k]["clear"] + 1 >= cfg.cooldown
        BY <2>1, <2>2, <3>1 DEF ClearGap
      <4> QED
        BY <1>5, <1>6, <2>2, <3>1, <4>1
    <3> QED
      BY <1>2, <2>3, <3>1 DEF ClearGap
  <2>11. HeardInv(k)'
    <3>1. /\ ~Tells(FD!Owner(k), k, "clear") /\ ~Tells(FD!Owner(k), k, "flapping")
          /\ ~Tells("ping", k, "ended")
      BY <1>4, <2>2 DEF FD!Notices
    <3> QED
      BY <1>2, <2>1, <3>1 DEF HeardInv, SparseMutes
  <2> QED
    BY <2>5, <2>6, <2>7, <2>8, <2>9, <2>10, <2>11 DEF KeyInv
<1> QED
  BY <1>7, <1>8 DEF FlapInv

LEMMA FlapInit == ASSUME FD!DampingAssumption, FD!Init PROVE FlapInv
<1>1. MaxAge \in Nat \ {0} /\ cfg \in FD!Settings
  BY DEF FD!DampingAssumption, FD!Init
<1>2. /\ up = {} /\ muted = {} /\ evaluated = {} /\ ending = {} /\ swept = FALSE
      /\ raises = [k \in Keys |-> {}] /\ told = [k \in Keys |-> {}]
      /\ quietFor = [k \in Keys |-> MaxAge]
      /\ lastSent = [k \in Keys |-> [h \in FD!Heads |-> MaxAge]]
      /\ pending = [c \in FD!Coroutines |-> FD!Nothing]
      /\ heard = [k \in Keys |-> "none"]
  BY DEF FD!Init
<1>3. FlapTyped
  <2>1. lastSent \in [Keys -> [FD!Heads -> 0..MaxAge]] /\ quietFor \in [Keys -> 0..MaxAge]
    BY <1>1, <1>2
  <2> QED
    BY <1>1, <1>2, <2>1 DEF FlapTyped
<1>4. ASSUME NEW k \in Keys PROVE KeyInv(k)
  <2>1. \A c \in FD!Coroutines, n \in FD!Notices : ~Tells(c, k, n)
    <3>1. ASSUME NEW c \in FD!Coroutines, NEW n \in FD!Notices, Tells(c, k, n) PROVE FALSE
      <4>1. FD!Nothing.notice = [key |-> k, notice |-> n].notice
        BY <1>2, <3>1 DEF Tells
      <4> QED
        BY <4>1 DEF FD!Nothing, FD!Notices
    <3> QED
      BY <3>1
  <2>2. \A c \in FD!Coroutines : /\ ~Tells(c, k, "raise") /\ ~Tells(c, k, "clear")
                                 /\ ~Tells(c, k, "flapping") /\ ~Tells(c, k, "ended")
    BY <2>1 DEF FD!Notices
  <2>3. NoticesTrue(k)
    BY <2>2 DEF NoticesTrue, RaiseSaid, ClearSaid, MuteSaid, EndSaid
  <2>4. /\ raises[k] = {} /\ told[k] = {} /\ heard[k] = "none"
        /\ lastSent[k]["clear"] = MaxAge
    BY <1>2 DEF FD!Heads
  <2>5. cfg.cooldown \in 0..MaxAge /\ cfg.count \in Nat
    BY <1>1 DEF FD!Settings
  <2>6. InWindow(told[k]) = {} /\ InWindow(raises[k]) = {}
    BY <2>4 DEF InWindow
  <2>7. EndingInv(k) /\ QuietInv(k) /\ SpacedInv(k)
    BY <1>2, <2>4 DEF EndingInv, QuietInv, SpacedInv
  <2>8. BudgetInv(k)
    BY <1>2, <2>5, <2>6, FS_EmptySet DEF BudgetInv
  <2>9. ClearGap(k)
    BY <1>1, <1>2, <2>4, <2>5 DEF ClearGap
  <2>10. HeardInv(k)
    BY <1>2, <2>4 DEF HeardInv
  <2> QED
    BY <2>3, <2>7, <2>8, <2>9, <2>10 DEF KeyInv
<1> QED
  BY <1>3, <1>4 DEF FlapInv

LEMMA FlapStep ==
    ASSUME FlapInv, FD!DampingAssumption, [FD!Next]_FD!vars PROVE FlapInv'
<1>1. CASE UNCHANGED FD!vars
  <2>1. UNCHANGED <<cfg, up, raises, muted, quietFor, lastSent, evaluated, swept,
                    ending, pending, heard, told>>
    BY <1>1 DEF FD!vars
  <2>2. FlapTyped'
    BY <2>1 DEF FlapInv, FlapTyped
  <2>3. ASSUME NEW k \in Keys PROVE KeyInv(k)'
    <3>1. KeyInv(k) /\ FlapTyped
      BY DEF FlapInv
    <3>2. \A c, j, n : Tells(c, j, n)' = Tells(c, j, n)
      BY <2>1 DEF Tells
    <3>3. SameKey(k)
      BY <2>1, <3>2 DEF SameKey
    <3>4. EndingInv(k)'
      BY <2>1, <3>1, <3>2 DEF KeyInv, EndingInv
    <3> QED
      BY <3>1, <3>3, <3>4, OtherKey
  <2> QED
    BY <2>2, <2>3 DEF FlapInv
<1> QED
  BY <1>1, RaiseKeeps, ClearKeeps, SweepOnKeeps, SweepKeeps, DeliverKeeps, TickKeeps
     DEF FD!Next

\* However the alarms of the network flap, and however their notices race: an
\* alarm is heard of fewer than flap_count times in a window, who stops hearing
\* of one was told so last and is told when it ends, and nobody is left with a
\* raise that is over; each as long as the cooldown allows it
\* (alarms.py: _flap_on_raise, flap_maintenance; notify.py: notify).
LEMMA FlapNotices ==
    FD!DampingAssumption =>
        (FD!Spec => [](/\ FD!RaiseBudget /\ FD!MuteAnnounced
                       /\ FD!ClearIsHeard /\ FD!EndIsHeard))
<1> SUFFICES ASSUME FD!DampingAssumption
             PROVE  FD!Spec => [](/\ FD!RaiseBudget /\ FD!MuteAnnounced
                                  /\ FD!ClearIsHeard /\ FD!EndIsHeard)
  OBVIOUS
<1>1. FD!Init => FlapInv
  BY FlapInit
<1>2. FlapInv /\ [FD!Next]_FD!vars => FlapInv'
  BY FlapStep
<1>3. FlapInv => FD!RaiseBudget /\ FD!MuteAnnounced /\ FD!ClearIsHeard /\ FD!EndIsHeard
  <2> SUFFICES ASSUME FlapInv
               PROVE  FD!RaiseBudget /\ FD!MuteAnnounced /\ FD!ClearIsHeard /\ FD!EndIsHeard
    OBVIOUS
  <2>1. \A k \in Keys : KeyInv(k)
    BY DEF FlapInv
  <2>2. FD!RaiseBudget
    <3>1. ASSUME cfg.count > 0, NEW k \in Keys
          PROVE  FD!Cardinality({a \in told[k] : a <= cfg.window}) < cfg.count
      <4>1. Cardinality(InWindow(told[k])) < cfg.count
        BY <2>1, <3>1 DEF KeyInv, BudgetInv
      <4> QED
        BY <4>1, SameCount DEF InWindow
    <3> QED
      BY <3>1 DEF FD!RaiseBudget
  <2>3. \A k \in Keys, n \in FD!Notices, c \in FD!Coroutines :
           Tells(c, k, n) => FD!Sending(k)
    <3>1. ASSUME NEW k \in Keys, NEW n \in FD!Notices, NEW c \in FD!Coroutines,
                 Tells(c, k, n)
          PROVE  FD!Sending(k)
      <4>1. pending[c].key = k /\ pending[c].notice # "none"
        BY <3>1 DEF Tells, FD!Notices
      <4> QED
        BY <4>1 DEF FD!Sending, FD!Free
    <3> QED
      BY <3>1
  <2>4. ASSUME NEW k \in Keys
        PROVE  /\ Tells(FD!Owner(k), k, "clear") => FD!Sending(k)
               /\ Tells(FD!Owner(k), k, "flapping") => FD!Sending(k)
               /\ Tells("ping", k, "ended") => FD!Sending(k)
    <3>1. FD!Owner(k) \in FD!Coroutines /\ "ping" \in FD!Coroutines
      BY DEF FD!Owner, FD!Coroutines
    <3> QED
      BY <2>3, <3>1 DEF FD!Notices
  <2>5. FD!MuteAnnounced
    <3>1. ASSUME cfg.count > 1, cfg.cooldown <= 2 * (cfg.count - 1), NEW k \in muted
          PROVE  FD!Sending(k) \/ heard[k] = "flapping"
      <4>1. k \in Keys
        BY DEF FlapInv, FlapTyped
      <4> QED
        BY <2>1, <2>4, <3>1, <4>1 DEF KeyInv, HeardInv, SparseMutes
    <3> QED
      BY <3>1 DEF FD!MuteAnnounced, FD!ShortestCycle
  <2>6. FD!ClearIsHeard
    BY <2>1, <2>4 DEF KeyInv, HeardInv, FD!ClearIsHeard, FD!Unheard, FD!ShortestCycle
  <2>7. FD!EndIsHeard
    BY <2>1, <2>4 DEF KeyInv, HeardInv, FD!EndIsHeard
  <2> QED
    BY <2>2, <2>5, <2>6, <2>7
<1> QED
  BY <1>1, <1>2, <1>3, PTL DEF FD!Spec

\* Nothing of a muted alarm is sent but the notice that the mute is over
\* (alarms.py: _flap_on_raise, _clear, flap_maintenance).
LEMMA FlapSilence ==
    FD!DampingAssumption => (FD!Spec => FD!SilentWhileMuted)
<1> SUFFICES ASSUME FD!DampingAssumption PROVE FD!Spec => FD!SilentWhileMuted
  OBVIOUS
<1> DEFINE Quiet == \A k \in muted, c \in FD!Coroutines :
                       pending'[c] # pending[c] /\ pending'[c].key = k
                          => pending'[c].notice \in {"none", "ended"}
<1>1. FD!Init => FlapInv
  BY FlapInit
<1>2. FlapInv /\ [FD!Next]_FD!vars => FlapInv'
  BY FlapStep
<1>3. FlapInv /\ [FD!Next]_FD!vars => [Quiet]_FD!vars
  <2> SUFFICES ASSUME FlapInv, FD!Next PROVE Quiet
    OBVIOUS
  <2>1. pending \in [FD!Coroutines -> {FD!Nothing} \cup [key : Keys, notice : FD!Notices]]
        /\ FD!Nothing.notice = "none"
    BY DEF FlapInv, FlapTyped, FD!Nothing
  <2>2. \A k \in Keys : FD!Owner(k) \in FD!Coroutines /\ "ping" \in FD!Coroutines
    BY DEF FD!Owner, FD!Coroutines
  <2>3. ASSUME NEW k \in Keys, NEW c \in FD!Coroutines, NEW n, FD!Say(c, k, n),
               k \in muted => n = "ended"
        PROVE  Quiet
    <3>1. /\ pending'[c] = [key |-> k, notice |-> n]
          /\ \A d \in FD!Coroutines \ {c} : pending'[d] = pending[d]
      BY <2>1, <2>3 DEF FD!Say
    <3> QED
      BY <2>3, <3>1
  <2>4. ASSUME pending' = pending PROVE Quiet
    BY <2>4
  <2>5. ASSUME NEW k \in Keys, FD!Raise(k) PROVE Quiet
    <3>1. cfg.count = 0 => k \notin muted
      BY DEF FlapInv, KeyInv, BudgetInv
    <3>2. \/ pending' = pending
          \/ k \notin muted /\ \E n \in FD!Notices : FD!Say(FD!Owner(k), k, n)
      BY <2>5, <3>1 DEF FD!Raise, FD!Notices
    <3> QED
      BY <2>2, <2>3, <2>4, <3>2
  <2>6. ASSUME NEW k \in Keys, FD!Clear(k) PROVE Quiet
    <3>1. pending' = pending \/ (k \notin muted /\ FD!Say(FD!Owner(k), k, "clear"))
      BY <2>6 DEF FD!Clear
    <3> QED
      BY <2>2, <2>3, <2>4, <3>1
  <2>7. ASSUME NEW k \in Keys, FD!End(k) PROVE Quiet
    <3>1. FD!Say("ping", k, "ended")
      BY <2>7 DEF FD!End
    <3> QED
      BY <2>2, <2>3, <3>1
  <2>8. ASSUME FD!Sweep PROVE Quiet
    <3>1. FD!Quietened \subseteq Keys
      BY DEF FD!Quietened, FlapInv, FlapTyped
    <3>2. pending' = pending \/ \E k \in FD!Quietened : FD!End(k)
      BY <2>8 DEF FD!Sweep
    <3> QED
      BY <2>4, <2>7, <3>1, <3>2
  <2>9. ASSUME NEW c \in FD!Coroutines, FD!Deliver(c) PROVE Quiet
    <3>1. pending' = [pending EXCEPT ![c] = FD!Nothing]
      BY <2>9 DEF FD!Deliver
    <3>2. pending'[c] = FD!Nothing /\ \A d \in FD!Coroutines \ {c} : pending'[d] = pending[d]
      BY <2>1, <3>1
    <3> QED
      BY <2>1, <3>2
  <2>10. FD!Tick => Quiet
    BY <2>4 DEF FD!Tick
  <2> QED
    BY <2>5, <2>6, <2>7, <2>8, <2>9, <2>10 DEF FD!Next, FD!SweepOn
<1> QED
  BY <1>1, <1>2, <1>3, PTL DEF FD!Spec, FD!SilentWhileMuted

-----------------------------------------------------------------------------
(* CounterRates *)

PointRecords == [mayRaise : BOOLEAN, mayClear : BOOLEAN]
Loud         == {t \in PointRecords : t.mayRaise}
Quiet        == {t \in PointRecords : t.mayClear}

RatesTyped ==
    /\ total \in Nat /\ last \in [octets : {-1} \cup Nat, hc : BOOLEAN]
    /\ age \in Nat /\ age < MaxGap /\ carried \in Nat /\ restarted \in BOOLEAN
    /\ over \in 0..Cycles /\ under \in 0..Cycles /\ raised \in BOOLEAN
    /\ points \in Seq(PointRecords)

\* Whole turns of a 32-bit counter.
Turns == {Wrap * k : k \in Int}

\* What the last sample has to do with the counter: the octets carried since
\* lie between them, up to the wraps of a 32-bit sample, or the agent has
\* started again in between.
SampleInv ==
    /\ last.octets = -1 => age = 0 /\ carried = 0 /\ restarted = FALSE
    /\ last.octets # -1 =>
          /\ carried <= Speed * age
          /\ restarted => total <= carried
          /\ ~restarted => carried <= total
          /\ ~restarted /\ last.hc => last.octets = total - carried
          /\ ~last.hc => last.octets < Wrap
          /\ ~restarted /\ ~last.hc => total - carried - last.octets \in Turns

\* The rows the alarm counts are rows of points that say as much.
RowsInv ==
    /\ over <= Len(points) /\ under <= Len(points) /\ Len(points) <= Cycles
    /\ \A j \in 1..over : points[j] \in Loud
    /\ \A j \in 1..under : points[j] \in Quiet

RatesInv == RatesTyped /\ SampleInv /\ RowsInv

LEMMA RatesNumbers ==
    ASSUME CR!RatesAssumption
    PROVE  /\ Speed \in Nat \ {0} /\ Wrap \in Nat \ {0} /\ MaxGap \in Nat \ {0}
           /\ Cycles \in Nat \ {0} /\ Percent \in Nat /\ Limit \in Nat
           /\ Speed * MaxGap \in Nat /\ Speed * MaxGap >= Speed
           /\ Limit >= 3 * Wrap + 2 * (Speed * MaxGap)
<1>1. /\ Speed \in Nat \ {0} /\ Wrap \in Nat \ {0} /\ MaxGap \in Nat \ {0}
      /\ Cycles \in Nat \ {0} /\ Percent \in Nat /\ Limit \in Nat
      /\ Limit >= 3 * Wrap + 2 * Speed * MaxGap
  BY DEF CR!RatesAssumption
<1>2. 2 * Speed * MaxGap = 2 * (Speed * MaxGap)
  BY <1>1
<1>3. Speed * MaxGap \in Nat /\ Speed * MaxGap >= Speed
  BY <1>1
<1> QED
  BY <1>1, <1>2, <1>3

LEMMA InputParts ==
    ASSUME CR!RatesAssumption, NEW i \in CR!Inputs
    PROVE  /\ i.load \in Nat /\ i.load <= Speed /\ i.reboot \in BOOLEAN
           /\ i.spoiled \in BOOLEAN /\ i.read \in {"missed", "empty", "hc", "c32"}
<1>1. i \in [load : Loads, reboot : BOOLEAN,
             read : {"missed", "empty", "hc", "c32"}, spoiled : BOOLEAN]
  BY DEF CR!Inputs
<1>2. /\ i.load \in Loads /\ i.reboot \in BOOLEAN /\ i.spoiled \in BOOLEAN
      /\ i.read \in {"missed", "empty", "hc", "c32"}
  BY <1>1
<1>3. Speed \in Nat /\ Loads \subseteq 0..Speed
  BY DEF CR!RatesAssumption
<1>4. i.load \in 0..Speed
  BY <1>2, <1>3
<1> QED
  BY <1>2, <1>3, <1>4

-----------------------------------------------------------------------------
(* Whole turns of a counter *)

LEMMA Multiples ==
    ASSUME NEW w \in Nat \ {0}, NEW k \in Int
    PROVE  /\ w * k \in Int
           /\ k > 0 => w * k >= w
           /\ k < 0 => w * k <= -w
           /\ k = 0 => w * k = 0
<1>1. w * k \in Int
  OBVIOUS
<1>2. ASSUME k > 0 PROVE w * k >= w
  BY <1>2
<1>3. ASSUME k < 0 PROVE w * k <= -w
  BY <1>3
<1> QED
  BY <1>1, <1>2, <1>3

\* A number of whole turns is none or at least one, either way.
LEMMA TurnParts ==
    ASSUME Wrap \in Nat \ {0}, NEW t \in Turns
    PROVE  t \in Int /\ (t <= -Wrap \/ t = 0 \/ t >= Wrap)
<1>1. PICK k \in Int : t = Wrap * k
  BY DEF Turns
<1>2. /\ Wrap * k \in Int
      /\ k > 0 => Wrap * k >= Wrap
      /\ k < 0 => Wrap * k <= -Wrap
      /\ k = 0 => Wrap * k = 0
  BY Multiples
<1>3. k > 0 \/ k < 0 \/ k = 0
  BY <1>1
<1> QED
  BY <1>1, <1>2, <1>3

LEMMA TurnSums ==
    ASSUME Wrap \in Nat \ {0}, NEW s \in Turns, NEW t \in Turns
    PROVE  s - t \in Turns /\ s - Wrap \in Turns /\ 0 \in Turns
<1>1. PICK k \in Int : s = Wrap * k
  BY DEF Turns
<1>2. PICK j \in Int : t = Wrap * j
  BY DEF Turns
<1>3. s - t = Wrap * (k - j) /\ k - j \in Int
  BY <1>1, <1>2
<1>4. s - Wrap = Wrap * (k - 1) /\ k - 1 \in Int
  BY <1>1
<1>5. 0 = Wrap * 0
  OBVIOUS
<1>6. \A m \in Int : Wrap * m \in Turns
  BY DEF Turns
<1>7. s - t \in Turns
  BY <1>3, <1>6
<1>8. s - Wrap \in Turns
  BY <1>4, <1>6
<1>9. 0 \in Turns
  BY <1>5, <1>6
<1> QED
  BY <1>7, <1>8, <1>9

\* The low 32 bits of a counter differ from it by whole turns.
LEMMA LowBits ==
    ASSUME Wrap \in Nat \ {0}, NEW x \in Nat
    PROVE  /\ x % Wrap \in Nat /\ x % Wrap < Wrap
           /\ x - (x % Wrap) \in Turns
<1>1. x = Wrap * (x \div Wrap) + (x % Wrap) /\ x \div Wrap \in Int
  OBVIOUS
<1>2. x % Wrap \in Nat /\ x % Wrap < Wrap
  OBVIOUS
<1>3. x - (x % Wrap) = Wrap * (x \div Wrap)
  BY <1>1, <1>2
<1> QED
  BY <1>1, <1>2, <1>3 DEF Turns

LEMMA DeltaParts ==
    ASSUME Wrap \in Nat \ {0}, NEW prev \in Nat, NEW cur \in Nat, NEW wide \in BOOLEAN,
           CR!OctetDelta(prev, cur, wide) # -1
    PROVE  \/ cur >= prev /\ CR!OctetDelta(prev, cur, wide) = cur - prev
           \/ /\ ~wide /\ cur < prev /\ cur + Wrap >= prev
              /\ CR!OctetDelta(prev, cur, wide) = cur + Wrap - prev
  BY DEF CR!OctetDelta, CR!Unknown

\* A 32-bit reading: the rate is never more than what was sent, and what was
\* sent if that is less than one turn.
LEMMA NarrowDelta ==
    ASSUME Wrap \in Nat \ {0}, NEW prev \in Nat, NEW cur \in Nat, NEW sent \in Nat,
           cur < Wrap, sent - (cur - prev) \in Turns,
           CR!OctetDelta(prev, cur, FALSE) # -1
    PROVE  LET delta == CR!OctetDelta(prev, cur, FALSE)
           IN  delta \in Nat /\ delta <= sent /\ (sent < Wrap => delta = sent)
<1> DEFINE delta == CR!OctetDelta(prev, cur, FALSE)
<1>1. \/ cur >= prev /\ delta = cur - prev
      \/ cur < prev /\ cur + Wrap >= prev /\ delta = cur + Wrap - prev
  BY DeltaParts
<1> HIDE DEF delta
<1>2. PICK t \in Turns : t = sent - (cur - prev)
  OBVIOUS
<1>3. t - Wrap \in Turns
  BY TurnSums
<1>4. t \in Int /\ (t <= -Wrap \/ t = 0 \/ t >= Wrap)
  BY TurnParts
<1>5. t - Wrap <= -Wrap \/ t - Wrap = 0 \/ t - Wrap >= Wrap
  BY <1>3, TurnParts
<1>6. ASSUME cur >= prev, delta = cur - prev
      PROVE  delta \in Nat /\ delta <= sent /\ (sent < Wrap => delta = sent)
  BY <1>2, <1>4, <1>6
<1>7. ASSUME cur < prev, cur + Wrap >= prev, delta = cur + Wrap - prev
      PROVE  delta \in Nat /\ delta <= sent /\ (sent < Wrap => delta = sent)
  BY <1>2, <1>4, <1>5, <1>7
<1>8. delta \in Nat /\ delta <= sent /\ (sent < Wrap => delta = sent)
  BY <1>1, <1>6, <1>7
<1> QED
  BY <1>8 DEF delta

\* A 64-bit reading after a 32-bit one: the turns before it are counted too.
LEMMA WideAfterNarrow ==
    ASSUME Wrap \in Nat \ {0}, NEW prev \in Nat, NEW cur \in Nat, NEW sent \in Nat,
           prev < Wrap, sent <= cur, cur - sent - prev \in Turns,
           CR!OctetDelta(prev, cur, TRUE) # -1
    PROVE  LET delta == CR!OctetDelta(prev, cur, TRUE)
           IN  delta \in Nat /\ delta >= sent /\ (cur < Wrap => delta = sent)
<1> DEFINE delta == CR!OctetDelta(prev, cur, TRUE)
<1>1. delta = cur - prev /\ cur >= prev
  BY DeltaParts
<1> HIDE DEF delta
<1>2. PICK t \in Turns : t = cur - sent - prev
  OBVIOUS
<1>3. t \in Int /\ (t <= -Wrap \/ t = 0 \/ t >= Wrap)
  BY TurnParts
<1>4. delta \in Nat /\ delta >= sent /\ (cur < Wrap => delta = sent)
  BY <1>1, <1>2, <1>3
<1> QED
  BY <1>4 DEF delta

-----------------------------------------------------------------------------
(* What a cycle counts *)

LEMMA Elapses ==
    ASSUME CR!RatesAssumption, NEW a \in Nat, a < MaxGap, NEW c \in Nat,
           c <= Speed * a, NEW load \in Nat, load <= Speed
    PROVE  c + load <= Speed * (a + 1) /\ c + load <= Speed * MaxGap
<1> DEFINE before == Speed * a
           now    == Speed * (a + 1)
           most   == Speed * MaxGap
<1>1. Speed \in Nat /\ MaxGap \in Nat
  BY RatesNumbers
<1>2. now = before + Speed /\ before \in Nat /\ now \in Nat /\ most \in Nat
  BY <1>1
<1>3. \A m, n \in Nat : m <= n => Speed * m <= Speed * n
  BY <1>1
<1>4. now <= most
  BY <1>1, <1>3
<1>5. c <= before
  OBVIOUS
<1> HIDE DEF before, now, most
<1>6. c + load <= now /\ c + load <= most
  BY <1>1, <1>2, <1>4, <1>5
<1> QED
  BY <1>6 DEF now, most

LEMMA TotalParts ==
    ASSUME CR!RatesAssumption, RatesTyped, NEW i \in CR!Inputs
    PROVE  /\ CR!Total(i) \in Nat /\ CR!Excess(i) \in {0, Wrap}
           /\ CR!Total(i) = CR!Counted(i) - CR!Excess(i)
           /\ CR!Excess(i) = Wrap => CR!Counted(i) >= Limit
           /\ CR!Counted(i) = IF i.reboot THEN i.load ELSE total + i.load
<1>1. /\ i.load \in Nat /\ i.reboot \in BOOLEAN /\ total \in Nat
  BY InputParts DEF RatesTyped
<1>2. /\ Wrap \in Nat /\ Limit \in Nat /\ Limit >= 3 * Wrap + 2 * (Speed * MaxGap)
      /\ Speed * MaxGap \in Nat
  BY RatesNumbers
<1>3. CR!Counted(i) \in Nat
      /\ CR!Counted(i) = IF i.reboot THEN i.load ELSE total + i.load
  BY <1>1 DEF CR!Counted
<1>4. CR!Excess(i) = IF CR!Counted(i) >= Limit THEN Wrap ELSE 0
  BY DEF CR!Excess
<1>5. CR!Total(i) = CR!Counted(i) - CR!Excess(i)
  BY DEF CR!Total
<1>6. Limit >= Wrap
  <2>1. \A m \in Nat : Limit >= 3 * Wrap + 2 * m => Limit >= Wrap
    BY <1>2
  <2> QED
    BY <1>2, <2>1
<1>7. Wrap \in Nat /\ Limit \in Nat
  BY <1>2
<1>8. CR!Total(i) \in Nat /\ CR!Excess(i) \in {0, Wrap}
  BY <1>3, <1>4, <1>5, <1>6, <1>7
<1>9. CR!Excess(i) = Wrap => CR!Counted(i) >= Limit \/ Wrap = 0
  BY <1>4
<1>10. Wrap # 0
  BY RatesNumbers
<1> QED
  BY <1>3, <1>5, <1>8, <1>9, <1>10

\* The sample before this cycle's and the octets sent since, whether or not the
\* agent has started again and whichever column the sample is from.
LEMMA AgentCounts ==
    ASSUME CR!RatesAssumption, RatesTyped, SampleInv, NEW i \in CR!Inputs,
           last.octets # -1
    PROVE  LET sent  == carried + i.load
               reset == restarted \/ i.reboot
           IN  /\ sent \in Nat /\ sent <= Speed * (age + 1)
               /\ CR!Previous(i) \in Nat
               /\ ~last.hc => CR!Previous(i) = last.octets /\ last.octets < Wrap
               /\ reset => CR!Total(i) <= sent /\ CR!Previous(i) = last.octets
               /\ ~reset => sent <= CR!Total(i)
               /\ ~reset /\ last.hc => CR!Previous(i) = CR!Total(i) - sent
               /\ ~reset /\ ~last.hc =>
                     CR!Total(i) - sent - CR!Previous(i) \in Turns
<1> DEFINE sent  == carried + i.load
           reset == restarted \/ i.reboot
           T == CR!Total(i)
           E == CR!Excess(i)
           P == CR!Previous(i)
           most == Speed * MaxGap
<1>1. /\ i.load \in Nat /\ i.load <= Speed /\ i.reboot \in BOOLEAN
  BY InputParts
<1>2. /\ total \in Nat /\ carried \in Nat /\ restarted \in BOOLEAN /\ age \in Nat
      /\ age < MaxGap /\ last.octets \in Nat /\ last.hc \in BOOLEAN
  BY DEF RatesTyped
<1>3. /\ carried <= Speed * age
      /\ restarted => total <= carried
      /\ ~restarted => carried <= total
      /\ ~restarted /\ last.hc => last.octets = total - carried
      /\ ~last.hc => last.octets < Wrap
      /\ ~restarted /\ ~last.hc => total - carried - last.octets \in Turns
  BY DEF SampleInv
<1>4. /\ Wrap \in Nat \ {0} /\ Limit \in Nat /\ Speed \in Nat \ {0} /\ most \in Nat
      /\ most >= Speed /\ Limit >= 3 * Wrap + 2 * most
  BY RatesNumbers
<1>5. sent <= Speed * (age + 1) /\ sent <= most
  BY <1>1, <1>2, <1>3, Elapses
<1>6. /\ T \in Nat /\ E \in {0, Wrap} /\ T = CR!Counted(i) - E
      /\ E = Wrap => CR!Counted(i) >= Limit
      /\ CR!Counted(i) = IF i.reboot THEN i.load ELSE total + i.load
  BY TotalParts
<1>7. P = IF last.hc THEN last.octets - E ELSE last.octets
  BY DEF CR!Previous, CR!Unknown
<1>8. sent \in Nat /\ (reset => restarted \/ i.reboot) /\ (~reset => ~restarted /\ ~i.reboot)
      /\ sent = carried + i.load
  BY <1>1, <1>2
<1> HIDE DEF sent, reset, T, E, P, most
<1>9. ASSUME reset PROVE T <= sent /\ P = last.octets
  <2>1. CR!Counted(i) <= sent /\ CR!Counted(i) \in Nat
    BY <1>1, <1>2, <1>3, <1>6, <1>8, <1>9
  <2>2. E # Wrap
    BY <2>1, <1>4, <1>5, <1>6, <1>8
  <2>3. E = 0
    BY <2>2, <1>6
  <2> QED
    BY <2>1, <2>3, <1>2, <1>6, <1>7
<1>10. ASSUME ~reset PROVE /\ T = total + i.load - E /\ sent <= T
                           /\ ~(last.hc /\ last.octets = T - sent + E /\ last.octets - E < 0)
  <2>1. CR!Counted(i) = total + i.load
    BY <1>6, <1>8, <1>10
  <2>2. CASE E = 0
    BY <2>1, <2>2, <1>1, <1>2, <1>3, <1>6, <1>8, <1>10
  <2>3. CASE E = Wrap
    BY <2>1, <2>3, <1>1, <1>2, <1>3, <1>4, <1>5, <1>6, <1>8, <1>10
  <2> QED
    BY <2>2, <2>3, <1>6
<1>11. ASSUME ~reset, last.hc PROVE P = T - sent
  BY <1>1, <1>2, <1>3, <1>4, <1>6, <1>7, <1>8, <1>10, <1>11
<1>12. ASSUME ~reset, ~last.hc PROVE T - sent - P \in Turns
  <2>1. total - carried - last.octets \in Turns
    BY <1>3, <1>8, <1>12
  <2>2. PICK s \in Turns : s = total - carried - last.octets
    BY <2>1
  <2>3. s - Wrap \in Turns
    BY <1>4, TurnSums
  <2>4. s \in Int
    BY <1>4, TurnParts
  <2>5. P = last.octets /\ T = total + i.load - E
    BY <1>7, <1>10, <1>12
  <2>6. CASE E = 0
    <3>1. T - sent - P = s
      BY <2>2, <2>5, <2>6, <1>1, <1>2, <1>8
    <3> QED
      BY <3>1
  <2>7. CASE E = Wrap
    <3>1. T - sent - P = s - Wrap
      BY <2>2, <2>5, <2>7, <1>1, <1>2, <1>4, <1>8
    <3> QED
      BY <3>1, <2>3
  <2> QED
    BY <2>6, <2>7, <1>6
<1>13. P \in Nat
  <2>1. CASE ~last.hc \/ reset
    BY <2>1, <1>2, <1>7, <1>9
  <2>2. CASE last.hc /\ ~reset
    BY <2>2, <1>6, <1>8, <1>10, <1>11
  <2> QED
    BY <2>1, <2>2
<1>14. ~last.hc => P = last.octets
  BY <1>7
<1>15. ~reset => sent <= T
  BY <1>10
<1> QED
  BY <1>3, <1>5, <1>8, <1>9, <1>11, <1>12, <1>13, <1>14, <1>15 DEF sent, reset, T, E, P, most

LEMMA OverGrows ==
    ASSUME CR!RatesAssumption, NEW dt \in Nat, NEW a \in Nat, NEW b \in Nat,
           a <= b, CR!IsOver(a, dt)
    PROVE  CR!IsOver(b, dt)
<1> DEFINE bar == Percent * Speed * dt
<1>1. Percent \in Nat /\ Speed \in Nat
  BY RatesNumbers
<1>2. bar \in Int
  <2>1. Percent * Speed \in Int
    BY <1>1
  <2> QED
    BY <2>1
<1>3. a * 100 > bar
  BY DEF CR!IsOver
<1> HIDE DEF bar
<1>4. b * 100 > bar
  BY <1>2, <1>3
<1> QED
  BY <1>4 DEF bar, CR!IsOver

\* A rate is what was sent: never more but for the readings that show octets
\* nobody sent, never less but for those that hide some.
LEMMA RateIsSent ==
    ASSUME CR!RatesAssumption, RatesTyped, SampleInv, NEW i \in CR!Inputs,
           i.read # "missed", CR!Rate(i) # -1
    PROVE  LET sent  == carried + i.load
               reset == restarted \/ i.reboot
           IN  /\ CR!Rate(i) \in Nat /\ sent \in Nat
               /\ \/ CR!Rate(i) <= sent
                  \/ reset /\ i.read = "c32"
                  \/ i.read = "hc" /\ ~last.hc /\ CR!Total(i) >= Wrap
               /\ \/ sent <= CR!Rate(i)
                  \/ reset
                  \/ i.read = "c32" /\ sent >= Wrap
<1> DEFINE sent  == carried + i.load
           reset == restarted \/ i.reboot
           T == CR!Total(i)
           P == CR!Previous(i)
           cur == CR!Reading(i)
           delta == CR!Rate(i)
           Honest ==
             /\ delta \in Nat
             /\ \/ delta <= sent
                \/ reset /\ i.read = "c32"
                \/ i.read = "hc" /\ ~last.hc /\ T >= Wrap
             /\ \/ sent <= delta
                \/ reset
                \/ i.read = "c32" /\ sent >= Wrap
<1>1. delta = CR!OctetDelta(P, cur, i.read = "hc")
  BY DEF CR!Rate, CR!Unknown
<1>2. P # -1 /\ cur # -1
  BY <1>1 DEF CR!OctetDelta, CR!Unknown
<1>3. last.octets # -1
  BY <1>2 DEF CR!Previous, CR!Unknown
<1>4. i.read = "hc" \/ i.read = "c32"
  <2>1. i.read \in {"missed", "empty", "hc", "c32"}
    BY InputParts
  <2>2. i.read = "empty" => cur = -1
    BY DEF CR!Reading, CR!Unknown
  <2> QED
    BY <2>1, <2>2, <1>2
<1>5. (i.read = "hc" => cur = T) /\ (i.read = "c32" => cur = T % Wrap)
  BY DEF CR!Reading
<1>6. /\ sent \in Nat /\ P \in Nat
      /\ ~last.hc => P = last.octets /\ last.octets < Wrap
      /\ reset => T <= sent
      /\ ~reset => sent <= T
      /\ ~reset /\ last.hc => P = T - sent
      /\ ~reset /\ ~last.hc => T - sent - P \in Turns
  BY <1>3, AgentCounts
<1>7. T \in Nat
  BY TotalParts
<1>8. Wrap \in Nat \ {0}
  BY RatesNumbers
<1>9. T % Wrap \in Nat /\ T % Wrap < Wrap /\ T - (T % Wrap) \in Turns
  BY <1>7, <1>8, LowBits
<1>10. delta # -1
  OBVIOUS
<1>11. cur \in Nat
  BY <1>4, <1>5, <1>7, <1>9
<1> HIDE DEF sent, reset, T, P, cur, delta
<1>12. ASSUME i.read = "hc" PROVE Honest
  <2>1. delta = CR!OctetDelta(P, cur, TRUE)
    BY <1>1, <1>12
  <2>2. cur = T
    BY <1>5, <1>12
  <2>3. P \in Nat /\ sent \in Nat
    BY <1>6
  <2>4. cur >= P /\ delta = cur - P
    BY <2>1, <2>3, <1>8, <1>10, <1>11, DeltaParts
  <2>5. T >= P /\ delta = T - P /\ delta \in Nat /\ delta <= T
    BY <2>2, <2>3, <2>4, <1>7
  <2>6. CASE reset
    <3>1. T <= sent
      BY <2>6, <1>6
    <3>2. delta <= sent
      BY <3>1, <2>3, <2>5, <1>7
    <3> QED
      BY <2>5, <2>6, <3>2 DEF Honest
  <2>7. CASE ~reset /\ last.hc
    <3>1. P = T - sent
      BY <2>7, <1>6
    <3>2. delta = sent
      BY <3>1, <2>3, <2>5, <1>7
    <3> QED
      BY <2>3, <3>2 DEF Honest
  <2>8. CASE ~reset /\ ~last.hc
    <3>1. P < Wrap /\ sent <= cur /\ cur - sent - P \in Turns
      BY <2>2, <2>8, <1>6
    <3>2. delta \in Nat /\ delta >= sent /\ (cur < Wrap => delta = sent)
      BY <3>1, <2>1, <2>3, <1>8, <1>10, <1>11, WideAfterNarrow
    <3>3. cur < Wrap \/ T >= Wrap
      BY <2>2, <1>7, <1>8
    <3>4. sent <= delta /\ (delta <= sent \/ T >= Wrap)
      BY <2>3, <3>2, <3>3
    <3> QED
      BY <3>2, <3>4, <2>8, <1>12 DEF Honest
  <2> QED
    BY <2>6, <2>7, <2>8
<1>13. ASSUME i.read = "c32" PROVE Honest
  <2>1. delta = CR!OctetDelta(P, cur, FALSE)
    BY <1>1, <1>13
  <2>2. cur < Wrap /\ T - cur \in Turns
    BY <1>5, <1>9, <1>13
  <2>3. CASE reset
    <3>1. P \in Nat
      BY <1>6
    <3>2. \/ cur >= P /\ delta = cur - P
          \/ cur + Wrap >= P /\ delta = cur + Wrap - P
      BY <3>1, <2>1, <1>8, <1>10, <1>11, DeltaParts
    <3>3. delta \in Nat
      BY <3>1, <3>2, <1>8, <1>11
    <3> QED
      BY <3>3, <2>3, <1>13 DEF Honest
  <2>4. CASE ~reset
    <3>1. sent - (cur - P) \in Turns
      <4>1. CASE last.hc
        <5>1. sent - (cur - P) = T - cur
          BY <4>1, <2>4, <1>6, <1>7, <1>11
        <5> QED
          BY <5>1, <2>2
      <4>2. CASE ~last.hc
        <5>1. T - sent - P \in Turns
          BY <4>2, <2>4, <1>6
        <5>2. (T - cur) - (T - sent - P) \in Turns
          BY <5>1, <2>2, <1>8, TurnSums
        <5>3. (T - cur) - (T - sent - P) = sent - (cur - P)
          BY <1>6, <1>7, <1>11
        <5> QED
          BY <5>2, <5>3
      <4> QED
        BY <4>1, <4>2
    <3>2. delta \in Nat /\ delta <= sent /\ (sent < Wrap => delta = sent)
      BY <3>1, <2>1, <2>2, <1>6, <1>8, <1>10, <1>11, NarrowDelta
    <3> QED
      BY <3>2, <1>6, <1>8, <1>13 DEF Honest
  <2> QED
    BY <2>3, <2>4
<1>14. Honest
  BY <1>4, <1>12, <1>13
<1> QED
  BY <1>6, <1>14 DEF Honest, sent, reset, T, P, cur, delta

LEMMA PointIsTrue ==
    ASSUME CR!RatesAssumption, RatesTyped, SampleInv, NEW i \in CR!Inputs,
           i.read # "missed", CR!Rate(i) # -1
    PROVE  /\ CR!Truth(i) \in [mayRaise : BOOLEAN, mayClear : BOOLEAN]
           /\ CR!IsOver(CR!Rate(i), CR!Elapsed) => CR!Truth(i).mayRaise
           /\ ~CR!IsOver(CR!Rate(i), CR!Elapsed) => CR!Truth(i).mayClear
<1> DEFINE sent  == carried + i.load
           reset == restarted \/ i.reboot
<1>1. /\ CR!Rate(i) \in Nat /\ sent \in Nat
      /\ \/ CR!Rate(i) <= sent
         \/ reset /\ i.read = "c32"
         \/ i.read = "hc" /\ ~last.hc /\ CR!Total(i) >= Wrap
      /\ \/ sent <= CR!Rate(i)
         \/ reset
         \/ i.read = "c32" /\ sent >= Wrap
  BY RateIsSent
<1>2. age + 1 \in Nat /\ CR!Elapsed = age + 1
  BY DEF RatesTyped, CR!Elapsed
<1>3. CR!Truth(i) =
        [mayRaise |-> CR!IsOver(sent, age + 1)
                      \/ (\/ reset /\ i.read = "c32"
                          \/ i.read = "hc" /\ ~last.hc /\ CR!Total(i) >= Wrap),
         mayClear |-> ~CR!IsOver(sent, age + 1)
                      \/ (reset \/ (i.read = "c32" /\ sent >= Wrap))]
  BY DEF CR!Truth
<1> HIDE DEF sent, reset
<1> DEFINE loud  == \/ CR!IsOver(sent, age + 1)
                    \/ \/ reset /\ i.read = "c32"
                       \/ i.read = "hc" /\ ~last.hc /\ CR!Total(i) >= Wrap
           quiet == \/ ~CR!IsOver(sent, age + 1)
                    \/ reset \/ (i.read = "c32" /\ sent >= Wrap)
<1>4. CR!Truth(i).mayRaise = loud /\ CR!Truth(i).mayClear = quiet
  <2>1. CR!Truth(i) = [mayRaise |-> loud, mayClear |-> quiet]
    BY <1>3
  <2> HIDE DEF loud, quiet
  <2> QED
    BY <2>1
<1>5. CR!Rate(i) <= sent /\ CR!IsOver(CR!Rate(i), age + 1) => CR!IsOver(sent, age + 1)
  BY <1>1, <1>2, OverGrows
<1>6. sent <= CR!Rate(i) /\ CR!IsOver(sent, age + 1) => CR!IsOver(CR!Rate(i), age + 1)
  BY <1>1, <1>2, OverGrows
<1>7. CR!Truth(i) \in [mayRaise : BOOLEAN, mayClear : BOOLEAN]
  <2>1. CR!IsOver(sent, age + 1) \in BOOLEAN
    BY DEF CR!IsOver
  <2> QED
    BY <1>3
<1> QED
  BY <1>1, <1>2, <1>4, <1>5, <1>6, <1>7

-----------------------------------------------------------------------------
(* The rows of points, and the steps *)

LEMMA PointsPush ==
    ASSUME Cycles \in Nat \ {0}, NEW S, NEW p \in S, NEW q \in Seq(S), Len(q) <= Cycles
    PROVE  LET kept == CR!AtMost(Len(q), Cycles - 1)
               new  == <<p>> \o SubSeq(q, 1, kept)
           IN  /\ new \in Seq(S) /\ Len(new) = kept + 1 /\ Len(new) <= Cycles
               /\ kept \in Nat /\ kept <= Len(q) /\ (kept = Len(q) \/ kept = Cycles - 1)
               /\ new[1] = p
               /\ \A j \in 2..Len(new) : new[j] = q[j - 1]
<1> DEFINE kept == CR!AtMost(Len(q), Cycles - 1)
           old  == SubSeq(q, 1, kept)
           new  == <<p>> \o old
<1>1. Len(q) \in Nat
  OBVIOUS
<1>2. /\ kept \in Nat /\ kept <= Len(q) /\ kept <= Cycles - 1
      /\ kept = Len(q) \/ kept = Cycles - 1
  BY <1>1 DEF CR!AtMost
<1> HIDE DEF kept
<1>3. old \in Seq(S) /\ Len(old) = kept /\ \A j \in 1..kept : old[j] = q[j]
  BY <1>1, <1>2
<1> HIDE DEF old
<1>4. new \in Seq(S) /\ Len(new) = kept + 1
  BY <1>2, <1>3
<1>5. new[1] = p
  BY <1>2, <1>3
<1>6. ASSUME NEW j \in 2..Len(new) PROVE new[j] = q[j - 1]
  <2>1. j \in Nat /\ j >= 2 /\ j <= kept + 1 /\ j - 1 \in 1..kept
    BY <1>2, <1>4
  <2>2. new[j] = old[j - 1]
    BY <2>1, <1>2, <1>3
  <2> QED
    BY <2>1, <2>2, <1>3
<1>7. Len(new) <= Cycles
  BY <1>2, <1>4
<1> QED
  BY <1>2, <1>4, <1>5, <1>6, <1>7 DEF old, kept

LEMMA AtMostParts ==
    ASSUME NEW n \in Nat, NEW bound \in Nat
    PROVE  CR!AtMost(n, bound) \in 0..bound /\ CR!AtMost(n, bound) <= n
BY DEF CR!AtMost

\* A row that grows by one with a point that says as much, or starts again.
LEMMA RowGrows ==
    ASSUME Cycles \in Nat \ {0}, NEW Says, NEW p \in Says, NEW q, NEW n, NEW row \in 0..Cycles,
           Len(q) \in Nat, row <= Len(q), Len(n) \in Nat,
           \/ Len(n) = Len(q) + 1
           \/ Len(n) = Cycles,
           n[1] = p, \A j \in 2..Len(n) : n[j] = q[j - 1],
           \A j \in 1..row : q[j] \in Says
    PROVE  LET more == CR!AtMost(row + 1, Cycles)
           IN  /\ more \in 0..Cycles /\ more <= Len(n)
               /\ \A j \in 1..more : n[j] \in Says
<1> DEFINE more == CR!AtMost(row + 1, Cycles)
<1>1. more \in 0..Cycles /\ more <= row + 1
  <2>1. row + 1 \in Nat /\ Cycles \in Nat
    OBVIOUS
  <2> QED
    BY <2>1, AtMostParts
<1> HIDE DEF more
<1>2. more <= Len(n)
  BY <1>1
<1>3. ASSUME NEW j \in 1..more PROVE n[j] \in Says
  <2>1. CASE j = 1
    BY <2>1
  <2>2. CASE j # 1
    <3>1. j \in 2..Len(n) /\ j - 1 \in 1..row
      BY <2>2, <1>1, <1>2
    <3>2. n[j] = q[j - 1] /\ q[j - 1] \in Says
      BY <3>1
    <3> QED
      BY <3>2
  <2> QED
    BY <2>1, <2>2
<1> QED
  BY <1>1, <1>2, <1>3 DEF more

LEMMA MissKeeps ==
    ASSUME CR!RatesAssumption, RatesInv, NEW i \in CR!Inputs, CR!Miss(i),
           total' = CR!Total(i)
    PROVE  RatesInv'
<1>1. RatesTyped /\ SampleInv /\ RowsInv
  BY DEF RatesInv
<1>2. /\ last' = [last EXCEPT !.octets = CR!Previous(i)]
      /\ IF last.octets = -1 THEN UNCHANGED <<age, carried, restarted>>
         ELSE /\ age' = age + 1 /\ carried' = carried + i.load
              /\ restarted' = (restarted \/ i.reboot)
      /\ age + 1 < MaxGap \/ last.octets = -1
      /\ UNCHANGED <<over, under, raised, points>>
  BY DEF CR!Miss, CR!Unknown, CR!hysteresis
<1>3. last \in [octets : {-1} \cup Nat, hc : BOOLEAN]
  BY <1>1 DEF RatesTyped
<1>4. last'.octets = CR!Previous(i) /\ last'.hc = last.hc
  BY <1>2, <1>3
<1>5. CR!Total(i) \in Nat
  BY <1>1, TotalParts
<1>6. RowsInv'
  BY <1>1, <1>2 DEF RowsInv
<1>7. CASE last.octets = -1
  <2>1. CR!Previous(i) = -1
    BY <1>7 DEF CR!Previous, CR!Unknown
  <2>2. RatesTyped'
    BY <1>1, <1>2, <1>5, <1>7, <2>1 DEF RatesTyped
  <2>3. SampleInv'
    BY <1>1, <1>2, <1>4, <1>7, <2>1 DEF SampleInv
  <2> QED
    BY <1>6, <2>2, <2>3 DEF RatesInv
<1>8. CASE last.octets # -1
  <2> DEFINE sent  == carried + i.load
             reset == restarted \/ i.reboot
             P == CR!Previous(i)
             T == CR!Total(i)
  <2>1. /\ sent \in Nat /\ sent <= Speed * (age + 1)
        /\ P \in Nat
        /\ ~last.hc => P = last.octets /\ last.octets < Wrap
        /\ reset => T <= sent
        /\ ~reset => sent <= T
        /\ ~reset /\ last.hc => P = T - sent
        /\ ~reset /\ ~last.hc => T - sent - P \in Turns
    BY <1>1, <1>8, AgentCounts
  <2>2. i.reboot \in BOOLEAN /\ restarted \in BOOLEAN /\ age \in Nat
    BY <1>1, InputParts DEF RatesTyped
  <2>3. age' = age + 1 /\ carried' = sent /\ restarted' = reset /\ age' < MaxGap
    BY <1>2, <1>8
  <2>4. RatesTyped'
    <3>1. last' \in [octets : {-1} \cup Nat, hc : BOOLEAN]
      BY <1>2, <1>3, <2>1
    <3>2. reset \in BOOLEAN /\ age + 1 \in Nat
      BY <2>2
    <3> QED
      BY <1>1, <1>2, <1>5, <2>1, <2>3, <3>1, <3>2 DEF RatesTyped
  <2>5. last'.octets = P /\ last'.octets # -1
    BY <1>4, <2>1
  <2> HIDE DEF sent, reset, P, T
  <2>6. SampleInv'
    <3>1. total' = T
      BY DEF T
    <3>2. carried' <= Speed * age'
      BY <2>1, <2>3
    <3>3. ~last'.hc => last'.octets < Wrap
      BY <1>4, <2>1, <2>5
    <3>4. ~restarted' /\ last'.hc => last'.octets = total' - carried'
      BY <1>4, <2>1, <2>3, <2>5, <3>1
    <3>5. ~restarted' /\ ~last'.hc => total' - carried' - last'.octets \in Turns
      BY <1>4, <2>1, <2>3, <2>5, <3>1
    <3>6. /\ restarted' => total' <= carried'
          /\ ~restarted' => carried' <= total'
      BY <2>1, <2>3, <3>1
    <3>7. Turns' = Turns
      BY DEF Turns
    <3> QED
      BY <2>5, <3>2, <3>3, <3>4, <3>5, <3>6, <3>7 DEF SampleInv
  <2> QED
    BY <1>6, <2>4, <2>6 DEF RatesInv
<1> QED
  BY <1>7, <1>8

LEMMA JudgeKeeps ==
    ASSUME CR!RatesAssumption, RatesInv, NEW i \in CR!Inputs, CR!Take(i), CR!Rate(i) # -1
    PROVE  /\ over' \in 0..Cycles /\ under' \in 0..Cycles /\ raised' \in BOOLEAN
           /\ points' \in Seq(PointRecords) /\ RowsInv'
           /\ raised' <=> over' >= Cycles \/ (raised /\ under' < Cycles)
<1> DEFINE high == CR!IsOver(CR!Rate(i), CR!Elapsed)
           kept == CR!AtMost(Len(points), Cycles - 1)
<1>1. /\ over \in 0..Cycles /\ under \in 0..Cycles /\ points \in Seq(PointRecords)
      /\ over <= Len(points) /\ under <= Len(points) /\ Len(points) <= Cycles
      /\ \A j \in 1..over : points[j] \in Loud
      /\ \A j \in 1..under : points[j] \in Quiet
  BY DEF RatesInv, RatesTyped, RowsInv
<1>2. /\ over'  = IF high THEN CR!AtMost(over + 1, Cycles) ELSE 0
      /\ under' = IF high THEN 0 ELSE CR!AtMost(under + 1, Cycles)
      /\ raised' = (over' >= Cycles \/ (raised /\ under' < Cycles))
      /\ points' = <<CR!Truth(i)>> \o SubSeq(points, 1, kept)
  BY DEF CR!Take, CR!Judge, CR!Unknown
<1>3. /\ CR!Truth(i) \in PointRecords
      /\ high => CR!Truth(i).mayRaise
      /\ ~high => CR!Truth(i).mayClear
  <2>1. RatesTyped /\ SampleInv
    BY DEF RatesInv
  <2>2. i.read # "missed"
    BY DEF CR!Take
  <2> QED
    BY <2>1, <2>2, PointIsTrue DEF PointRecords
<1>4. Cycles \in Nat \ {0}
  BY RatesNumbers
<1>5. /\ points' \in Seq(PointRecords) /\ Len(points') = kept + 1 /\ Len(points') <= Cycles
      /\ kept \in Nat /\ (kept = Len(points) \/ kept = Cycles - 1)
      /\ points'[1] = CR!Truth(i)
      /\ \A j \in 2..Len(points') : points'[j] = points[j - 1]
  BY <1>1, <1>2, <1>3, <1>4, PointsPush
<1>6. /\ Len(points) \in Nat /\ Len(points') \in Nat
      /\ Len(points') = Len(points) + 1 \/ Len(points') = Cycles
  BY <1>1, <1>4, <1>5
<1>7. (high => CR!Truth(i) \in Loud) /\ (~high => CR!Truth(i) \in Quiet)
  BY <1>3 DEF Loud, Quiet
<1> HIDE DEF high, kept
<1>8. /\ over' \in 0..Cycles /\ over' <= Len(points')
      /\ \A j \in 1..over' : points'[j] \in Loud
  <2>1. CASE high
    <3> DEFINE more == CR!AtMost(over + 1, Cycles)
    <3>1. /\ more \in 0..Cycles /\ more <= Len(points')
          /\ \A j \in 1..more : points'[j] \in Loud
      BY <2>1, <1>1, <1>4, <1>5, <1>6, <1>7, RowGrows
    <3> QED
      BY <2>1, <3>1, <1>2
  <2>2. CASE ~high
    <3>1. over' = 0 /\ 1..0 = {}
      BY <2>2, <1>2
    <3> QED
      BY <3>1, <1>4, <1>6
  <2> QED
    BY <2>1, <2>2
<1>9. /\ under' \in 0..Cycles /\ under' <= Len(points')
      /\ \A j \in 1..under' : points'[j] \in Quiet
  <2>1. CASE ~high
    <3> DEFINE more == CR!AtMost(under + 1, Cycles)
    <3>1. /\ more \in 0..Cycles /\ more <= Len(points')
          /\ \A j \in 1..more : points'[j] \in Quiet
      BY <2>1, <1>1, <1>4, <1>5, <1>6, <1>7, RowGrows
    <3> QED
      BY <2>1, <3>1, <1>2
  <2>2. CASE high
    <3>1. under' = 0 /\ 1..0 = {}
      BY <2>2, <1>2
    <3> QED
      BY <3>1, <1>4, <1>6
  <2> QED
    BY <2>1, <2>2
<1>10. RowsInv'
  <2>1. Loud' = Loud /\ Quiet' = Quiet
    BY DEF Loud, Quiet, PointRecords
  <2> QED
    BY <1>5, <1>8, <1>9, <2>1 DEF RowsInv
<1>11. /\ raised' \in BOOLEAN
       /\ raised' <=> over' >= Cycles \/ (raised /\ under' < Cycles)
  BY <1>2
<1> QED
  BY <1>5, <1>8, <1>9, <1>10, <1>11

LEMMA TakeKeeps ==
    ASSUME CR!RatesAssumption, RatesInv, NEW i \in CR!Inputs, CR!Take(i),
           total' = CR!Total(i)
    PROVE  RatesInv'
<1>1. RatesTyped /\ RowsInv
  BY DEF RatesInv
<1>2. /\ i.read # "missed"
      /\ last' = [octets |-> CR!Reading(i), hc |-> i.read # "c32"]
      /\ age' = 0 /\ carried' = 0 /\ restarted' = FALSE
  BY DEF CR!Take
<1>3. total' \in Nat /\ Wrap \in Nat \ {0} /\ Speed \in Nat /\ MaxGap \in Nat \ {0}
  BY <1>1, TotalParts, RatesNumbers
<1>4. i.read \in {"empty", "hc", "c32"}
  BY <1>2, InputParts
<1>5. /\ i.read = "hc" => CR!Reading(i) = total'
      /\ i.read = "c32" => CR!Reading(i) = total' % Wrap
      /\ i.read = "empty" => CR!Reading(i) = -1
  BY DEF CR!Reading, CR!Unknown
<1>6. total' % Wrap \in Nat /\ total' % Wrap < Wrap /\ total' - (total' % Wrap) \in Turns
  BY <1>3, LowBits
<1>7. last'.octets = CR!Reading(i) /\ (last'.hc <=> i.read # "c32")
  BY <1>2
<1>8. CR!Reading(i) \in {-1} \cup Nat
  BY <1>3, <1>4, <1>5, <1>6
<1>9. SampleInv'
  <2>1. Turns' = Turns
    BY DEF Turns
  <2>2. Speed * age' = 0
    BY <1>2, <1>3
  <2>3. ~last'.hc => i.read = "c32"
    BY <1>7
  <2>4. ~last'.hc => last'.octets < Wrap /\ total' - carried' - last'.octets \in Turns
    <3>1. total' - 0 = total'
      BY <1>3
    <3> QED
      BY <1>2, <1>5, <1>6, <1>7, <2>3, <3>1
  <2>5. last'.hc /\ last'.octets # -1 => last'.octets = total' - carried'
    BY <1>2, <1>3, <1>4, <1>5, <1>7
  <2> QED
    BY <1>2, <1>3, <2>1, <2>2, <2>4, <2>5 DEF SampleInv
<1>10. /\ over' \in 0..Cycles /\ under' \in 0..Cycles /\ raised' \in BOOLEAN
       /\ points' \in Seq(PointRecords) /\ RowsInv'
  <2>1. CASE CR!Rate(i) = -1
    <3>1. UNCHANGED <<over, under, raised, points>>
      BY <2>1 DEF CR!Take, CR!hysteresis, CR!Unknown
    <3> QED
      BY <3>1, <1>1 DEF RatesTyped, RowsInv, Loud, Quiet, PointRecords
  <2>2. CASE CR!Rate(i) # -1
    BY <2>2, JudgeKeeps
  <2> QED
    BY <2>1, <2>2
<1>11. RatesTyped'
  <2>1. last' \in [octets : {-1} \cup Nat, hc : BOOLEAN]
    <3>1. (i.read # "c32") \in BOOLEAN
      OBVIOUS
    <3>2. \A o \in {-1} \cup Nat : \A h \in BOOLEAN :
             [octets |-> o, hc |-> h] \in [octets : {-1} \cup Nat, hc : BOOLEAN]
      OBVIOUS
    <3> QED
      BY <3>1, <3>2, <1>2, <1>8
  <2>2. age' \in Nat /\ age' < MaxGap /\ carried' \in Nat /\ restarted' \in BOOLEAN
    <3>1. age' = 0 /\ carried' = 0 /\ restarted' = FALSE
      BY <1>2
    <3>2. MaxGap > 0 /\ 0 \in Nat
      BY <1>3
    <3>3. restarted' \in BOOLEAN
      BY <3>1
    <3> QED
      BY <3>1, <3>2, <3>3
  <2> QED
    BY <1>3, <1>10, <2>1, <2>2 DEF RatesTyped, PointRecords
<1> QED
  BY <1>9, <1>10, <1>11 DEF RatesInv

LEMMA RatesKeep ==
    ASSUME CR!RatesAssumption, RatesInv, [CR!Next]_(CR!vars)
    PROVE  RatesInv'
<1>1. RatesTyped /\ SampleInv /\ RowsInv
  BY DEF RatesInv
<1>2. CASE CR!Cycle
  <2>1. PICK i \in CR!Inputs : (CR!Miss(i) \/ CR!Take(i)) /\ total' = CR!Total(i)
    BY <1>2 DEF CR!Cycle, CR!Poll
  <2> QED
    BY <2>1, MissKeeps, TakeKeeps
<1>3. CASE CR!ManualClear
  <2>1. /\ UNCHANGED <<total, last, age, carried, restarted, over, under, points>>
        /\ raised' = FALSE
    BY <1>3 DEF CR!ManualClear
  <2> QED
    BY <2>1, <1>1 DEF RatesInv, RatesTyped, SampleInv, RowsInv
<1>4. CASE CR!Restart
  <2>1. /\ last' = [octets |-> -1, hc |-> TRUE]
        /\ age' = 0 /\ carried' = 0 /\ restarted' = FALSE
        /\ over' = 0 /\ under' = 0 /\ points' = <<>>
        /\ UNCHANGED <<total, raised>>
    BY <1>4 DEF CR!Restart, CR!NoSample, CR!Unknown
  <2>2. Cycles \in Nat /\ MaxGap \in Nat \ {0}
    BY RatesNumbers
  <2>3. RatesTyped'
    <3>1. last' \in [octets : {-1} \cup Nat, hc : BOOLEAN]
      BY <2>1
    <3>2. points' \in Seq(PointRecords')
      BY <2>1
    <3>3. over' \in 0..Cycles /\ under' \in 0..Cycles
      BY <2>1, <2>2
    <3>4. age' \in Nat /\ age' < MaxGap /\ carried' \in Nat /\ restarted' \in BOOLEAN
      <4>1. age' = 0 /\ carried' = 0 /\ restarted' = FALSE
        BY <2>1
      <4>2. MaxGap > 0 /\ 0 \in Nat
        BY <2>2
      <4>3. restarted' \in BOOLEAN
        BY <4>1
      <4> QED
        BY <4>1, <4>2, <4>3
    <3>5. total' \in Nat /\ raised' \in BOOLEAN
      BY <2>1, <1>1 DEF RatesTyped
    <3> QED
      BY <3>1, <3>2, <3>3, <3>4, <3>5 DEF RatesTyped
  <2>4. SampleInv'
    BY <2>1 DEF SampleInv
  <2>5. RowsInv'
    BY <2>1, <2>2 DEF RowsInv
  <2> QED
    BY <2>3, <2>4, <2>5 DEF RatesInv
<1>5. CASE UNCHANGED CR!vars
  <2>1. UNCHANGED <<total, last, age, carried, restarted, over, under, raised, points>>
    BY <1>5 DEF CR!vars, CR!hysteresis
  <2> QED
    BY <2>1, <1>1 DEF RatesInv, RatesTyped, SampleInv, RowsInv
<1> QED
  BY <1>2, <1>3, <1>4, <1>5 DEF CR!Next

\* What the two action properties ask of a step.
LEMMA RowsDecide ==
    ASSUME CR!RatesAssumption, RatesInv, [CR!Next]_(CR!vars)
    PROVE  /\ raised' /\ ~raised => CR!Row(CR!LoudPoint)'
           /\ CR!Cycle /\ raised /\ ~raised' => CR!Row(CR!QuietPoint)'
<1>1. RatesInv'
  BY RatesKeep
<1>2. /\ over' \in 0..Cycles /\ under' \in 0..Cycles
      /\ over' <= Len(points') /\ under' <= Len(points') /\ Len(points') <= Cycles
      /\ \A j \in 1..over' : points'[j] \in Loud'
      /\ \A j \in 1..under' : points'[j] \in Quiet'
      /\ Len(points') \in Nat
  <2>1. points' \in Seq(PointRecords)'
    BY <1>1 DEF RatesInv, RatesTyped
  <2>2. Len(points') \in Nat
    BY <2>1
  <2> QED
    BY <1>1, <2>2 DEF RatesInv, RatesTyped, RowsInv
<1>3. Cycles \in Nat \ {0} /\ raised \in BOOLEAN
  BY RatesNumbers DEF RatesInv, RatesTyped
<1>4. ASSUME over' >= Cycles PROVE CR!Row(CR!LoudPoint)'
  <2>1. over' = Cycles /\ Len(points') = Cycles
    BY <1>2, <1>3, <1>4
  <2>2. \A j \in 1..Cycles : points'[j].mayRaise
    BY <1>2, <2>1 DEF Loud
  <2> QED
    BY <2>1, <2>2 DEF CR!Row, CR!LoudPoint
<1>5. ASSUME under' >= Cycles PROVE CR!Row(CR!QuietPoint)'
  <2>1. under' = Cycles /\ Len(points') = Cycles
    BY <1>2, <1>3, <1>5
  <2>2. \A j \in 1..Cycles : points'[j].mayClear
    BY <1>2, <2>1 DEF Quiet
  <2> QED
    BY <2>1, <2>2 DEF CR!Row, CR!QuietPoint
<1>6. ASSUME CR!Cycle
      PROVE  \/ raised' = raised
             \/ raised' <=> over' >= Cycles \/ (raised /\ under' < Cycles)
  <2>1. PICK i \in CR!Inputs : CR!Miss(i) \/ CR!Take(i)
    BY <1>6 DEF CR!Cycle, CR!Poll
  <2>2. CASE CR!Miss(i)
    BY <2>2 DEF CR!Miss, CR!hysteresis
  <2>3. CASE CR!Take(i) /\ CR!Rate(i) = -1
    BY <2>3 DEF CR!Take, CR!hysteresis, CR!Unknown
  <2>4. CASE CR!Take(i) /\ CR!Rate(i) # -1
    BY <2>4, JudgeKeeps
  <2> QED
    BY <2>1, <2>2, <2>3, <2>4
<1>7. ASSUME raised', ~raised PROVE CR!Row(CR!LoudPoint)'
  <2>1. CR!Cycle
    <3>1. ~CR!ManualClear
      BY <1>7 DEF CR!ManualClear
    <3>2. ~CR!Restart
      BY <1>7 DEF CR!Restart
    <3>3. ~UNCHANGED CR!vars
      BY <1>7 DEF CR!vars, CR!hysteresis
    <3> QED
      BY <3>1, <3>2, <3>3 DEF CR!Next
  <2> QED
    BY <2>1, <1>4, <1>6, <1>7
<1>8. ASSUME CR!Cycle, raised, ~raised' PROVE CR!Row(CR!QuietPoint)'
  <2>1. ~(under' < Cycles)
    BY <1>6, <1>8
  <2>2. under' >= Cycles
    BY <2>1, <1>2, <1>3
  <2> QED
    BY <2>2, <1>5
<1> QED
  BY <1>7, <1>8

LEMMA RatesBegin ==
    ASSUME CR!RatesAssumption, CR!Init
    PROVE  RatesInv
<1>1. /\ total = 0 /\ last = [octets |-> -1, hc |-> TRUE]
      /\ age = 0 /\ carried = 0 /\ restarted = FALSE
      /\ over = 0 /\ under = 0 /\ raised = FALSE /\ points = <<>>
  BY DEF CR!Init, CR!NoSample, CR!Unknown
<1>2. Cycles \in Nat /\ MaxGap \in Nat /\ MaxGap > 0
  BY RatesNumbers
<1>3. last \in [octets : {-1} \cup Nat, hc : BOOLEAN] /\ points \in Seq(PointRecords)
  BY <1>1
<1>4. age \in Nat /\ age < MaxGap /\ carried \in Nat /\ total \in Nat
  BY <1>1, <1>2
<1>5. over \in 0..Cycles /\ under \in 0..Cycles
  BY <1>1, <1>2
<1>6. restarted \in BOOLEAN /\ raised \in BOOLEAN
  BY <1>1
<1>7. RatesTyped
  BY <1>3, <1>4, <1>5, <1>6 DEF RatesTyped
<1>8. SampleInv
  BY <1>1 DEF SampleInv
<1>9. RowsInv
  BY <1>1, <1>2 DEF RowsInv
<1> QED
  BY <1>7, <1>8, <1>9 DEF RatesInv

LEMMA RatesOfLoad ==
    ASSUME CR!RatesAssumption
    PROVE  CR!Spec => CR!RaisedOnLoad /\ CR!ClearedOnQuiet
<1>1. CR!Init => RatesInv
  BY RatesBegin
<1>2. RatesInv /\ [CR!Next]_(CR!vars) => RatesInv'
  BY RatesKeep
<1>3. RatesInv /\ [CR!Next]_(CR!vars)
         => [raised' /\ ~raised => CR!Row(CR!LoudPoint)']_(CR!vars)
  BY RowsDecide
<1>4. RatesInv /\ [CR!Next]_(CR!vars)
         => [CR!Cycle /\ raised /\ ~raised' => CR!Row(CR!QuietPoint)']_(CR!vars)
  BY RowsDecide
<1> QED
  BY <1>1, <1>2, <1>3, <1>4, PTL DEF CR!Spec, CR!RaisedOnLoad, CR!ClearedOnQuiet

-----------------------------------------------------------------------------
(* PortRules *)

LEMMA CountsAlike == \A S : PR!Cardinality(S) = Cardinality(S)
  BY DEF PR!Cardinality, Cardinality

LEMMA UpTo == \A n \in Nat : IsFiniteSet(1..n) /\ Cardinality(1..n) = n
<1> SUFFICES ASSUME NEW n \in Nat PROVE IsFiniteSet(1..n) /\ Cardinality(1..n) = n
  OBVIOUS
<1>1. IsFiniteSet(1..n) /\ Cardinality(1..n) = IF 1 > n THEN 0 ELSE n - 1 + 1
  BY FS_Interval
<1> QED
  BY <1>1

\* What is noted first and kept for so long.
LEMMA LatestParts ==
    ASSUME NEW S, NEW s \in Seq(S), NEW n \in Nat
    PROVE  /\ PR!Latest(s, n) \in Seq(S) /\ Len(PR!Latest(s, n)) = PR!AtMost(Len(s), n)
           /\ Len(PR!Latest(s, n)) <= Len(s) /\ Len(PR!Latest(s, n)) <= n
           /\ \A j \in 1..Len(PR!Latest(s, n)) : PR!Latest(s, n)[j] = s[j]
<1> DEFINE m == PR!AtMost(Len(s), n)
<1>1. m \in Nat /\ m <= Len(s) /\ m <= n
  BY DEF PR!AtMost
<1>2. PR!Latest(s, n) = SubSeq(s, 1, m)
  BY DEF PR!Latest
<1> HIDE DEF m
<1>3. /\ SubSeq(s, 1, m) \in Seq(S) /\ Len(SubSeq(s, 1, m)) = m
      /\ \A j \in 1..m : SubSeq(s, 1, m)[j] = s[j]
  BY <1>1
<1> QED
  BY <1>1, <1>2, <1>3 DEF m

Noted(x, s, n) == PR!Latest(<<x>> \o s, n)
Headed(t, x, s, n) ==
    /\ Len(t) \in Nat /\ Len(t) <= n
    /\ Len(t) = Len(s) + 1 \/ (Len(t) = n /\ n <= Len(s) + 1)
    /\ t[1] = x /\ Len(t) >= 1
    /\ \A j \in 2..Len(t) : j - 1 \in 1..Len(s) /\ t[j] = s[j - 1]

LEMMA NotedFirst ==
    ASSUME NEW S, NEW s \in Seq(S), NEW x \in S, NEW n \in Nat \ {0}
    PROVE  Noted(x, s, n) \in Seq(S) /\ Headed(Noted(x, s, n), x, s, n)
<1> DEFINE all == <<x>> \o s
           t == PR!Latest(all, n)
<1>1. Len(s) \in Nat
  OBVIOUS
<1>2. /\ all \in Seq(S) /\ Len(all) = Len(s) + 1 /\ all[1] = x
      /\ \A j \in 2..Len(all) : all[j] = s[j - 1]
  <2>1. all \in Seq(S) /\ Len(all) = Len(s) + 1
    OBVIOUS
  <2>2. all[1] = x
    BY <1>1
  <2>3. ASSUME NEW j \in 2..Len(all) PROVE all[j] = s[j - 1]
    BY <1>1, <2>1
  <2> QED
    BY <2>1, <2>2, <2>3
<1> HIDE DEF all
<1>3. /\ t \in Seq(S) /\ Len(t) = PR!AtMost(Len(all), n) /\ Len(t) <= Len(all)
      /\ Len(t) <= n /\ \A j \in 1..Len(t) : t[j] = all[j]
  BY <1>2, LatestParts
<1> HIDE DEF t
<1>4. Len(t) = Len(s) + 1 \/ (Len(t) = n /\ n <= Len(s) + 1)
  BY <1>1, <1>2, <1>3 DEF PR!AtMost
<1>5. Len(t) \in Nat /\ Len(t) >= 1
  BY <1>1, <1>4
<1>6. t[1] = x
  BY <1>2, <1>3, <1>5
<1>7. ASSUME NEW j \in 2..Len(t) PROVE j - 1 \in 1..Len(s) /\ t[j] = s[j - 1]
  BY <1>1, <1>2, <1>3, <1>5
<1> QED
  BY <1>3, <1>4, <1>5, <1>6, <1>7 DEF t, all, Noted, Headed

\* The transitions of a port, newest first, none older than the window.
Tidy(events) == /\ events \in Seq(0..Window)
                /\ \A i, j \in 1..Len(events) : i < j => events[i] <= events[j]

LEMMA TidyParts ==
    ASSUME NEW events, Tidy(events)
    PROVE  /\ events \in Seq(0..Window) /\ Len(events) \in Nat
           /\ \A i, j \in 1..Len(events) : i < j => events[i] <= events[j]
           /\ \A j \in 1..Len(events) : events[j] \in 0..Window
<1> DEFINE S == 0..Window
<1>1. events \in Seq(S) /\ \A i, j \in 1..Len(events) : i < j => events[i] <= events[j]
  BY DEF Tidy
<1> HIDE DEF S
<1>2. Len(events) \in Nat /\ \A j \in 1..Len(events) : events[j] \in S
  BY <1>1
<1> QED
  BY <1>1, <1>2 DEF S

\* The events of an interval less are as many of the newest, one interval older:
\* all of those that are still in the window.
LEMMA AgedParts ==
    ASSUME Window \in Nat, NEW events, Tidy(events)
    PROVE  LET older == PR!Aged(events)
           IN  /\ Tidy(older) /\ Len(older) \in Nat /\ Len(older) <= Len(events)
               /\ \A j \in 1..Len(older) : older[j] = events[j] + 1
               /\ \A j \in 1..Len(events) : events[j] < Window => j <= Len(older)
<1> DEFINE young == {k \in DOMAIN events : events[k] < Window}
           n == Cardinality(young)
           older == [j \in 1..n |-> events[j] + 1]
<1>1. /\ events \in Seq(0..Window) /\ Len(events) \in Nat
      /\ \A i, j \in 1..Len(events) : i < j => events[i] <= events[j]
      /\ \A j \in 1..Len(events) : events[j] \in 0..Window
  BY DEF Tidy
<1>2. young \in SUBSET (1..Len(events))
  BY <1>1
<1>3. IsFiniteSet(1..Len(events)) /\ Cardinality(1..Len(events)) = Len(events)
  BY <1>1, UpTo
<1>4. IsFiniteSet(young) /\ n \in Nat /\ n <= Len(events)
  BY <1>2, <1>3, FS_Subset, FS_CardinalityType
<1>5. PR!Aged(events) = older
  BY CountsAlike DEF PR!Aged
<1>6. ASSUME NEW j \in 1..n PROVE j \in 1..Len(events) /\ events[j] < Window
  <2>1. j \in 1..Len(events)
    BY <1>1, <1>4
  <2>2. SUFFICES ASSUME ~(events[j] < Window) PROVE FALSE
    BY <2>1
  <2>3. ASSUME NEW k \in young PROVE k \in 1..(j - 1)
    <3>1. k \in 1..Len(events) /\ events[k] < Window
      BY <1>1, <2>3
    <3>2. ~(j <= k)
      <4>1. CASE j = k
        BY <2>2, <3>1, <4>1
      <4>2. CASE j < k
        <5>1. events[j] <= events[k] /\ events[j] \in Int /\ events[k] \in Int
          BY <1>1, <2>1, <3>1, <4>2
        <5> QED
          BY <2>2, <3>1, <5>1
      <4> QED
        BY <2>1, <3>1, <4>1, <4>2
    <3> QED
      BY <2>1, <3>1, <3>2
  <2>4. young \in SUBSET (1..(j - 1))
    BY <2>3
  <2>5. IsFiniteSet(1..(j - 1)) /\ Cardinality(1..(j - 1)) = j - 1
    <3>1. j - 1 \in Nat
      BY <2>1
    <3> QED
      BY <3>1, UpTo
  <2>6. n <= j - 1
    BY <2>4, <2>5, FS_Subset
  <2> QED
    BY <1>4, <2>6
<1>7. ASSUME NEW j \in 1..Len(events), events[j] < Window PROVE j <= n
  <2>1. ASSUME NEW k \in 1..j PROVE k \in young
    <3>1. k \in 1..Len(events)
      BY <1>1
    <3>2. events[k] <= events[j] /\ events[k] \in Int /\ events[j] \in Int
      <4>1. CASE k = j
        BY <1>1, <4>1
      <4>2. CASE k < j
        BY <1>1, <3>1, <4>2
      <4> QED
        BY <4>1, <4>2
    <3> QED
      BY <1>1, <1>7, <3>1, <3>2
  <2>2. (1..j) \in SUBSET young
    BY <2>1
  <2>3. Cardinality(1..j) = j
    BY UpTo
  <2>4. Cardinality(1..j) <= n
    BY <1>4, <2>2, FS_Subset
  <2> QED
    BY <2>3, <2>4
<1> HIDE DEF n, young
<1>8. older \in Seq(0..Window) /\ Len(older) = n
  <2>1. \A j \in 1..n : events[j] + 1 \in 0..Window
    BY <1>1, <1>6
  <2> QED
    BY <1>4, <2>1
<1>9. \A i, j \in 1..Len(older) : i < j => older[i] <= older[j]
  <2>1. ASSUME NEW i \in 1..n, NEW j \in 1..n, i < j PROVE older[i] <= older[j]
    <3>1. events[i] <= events[j] /\ events[i] \in Int /\ events[j] \in Int
      BY <1>1, <1>6, <2>1
    <3> QED
      BY <3>1
  <2> QED
    BY <1>8, <2>1
<1> QED
  BY <1>4, <1>5, <1>7, <1>8, <1>9 DEF Tidy

\* Every event kept is one transition of its own of the intervals behind it, of
\* one that had been read when it was counted: not longer ago than the port may
\* have been left unread.
Backing(f, events, intervals, unread) ==
    /\ f \in [1..Len(events) -> PR!Steps(intervals)]
    /\ \A e \in 1..Len(events) : /\ f[e][1] > unread /\ f[e][1] > events[e]
                                 /\ f[e][1] <= events[e] + 1 + MaxGap
    /\ \A e, g \in 1..Len(events) : f[e] = f[g] => e = g
Backed(events, intervals, unread) ==
    \E f \in [1..Len(events) -> PR!Steps(intervals)] :
        Backing(f, events, intervals, unread)

\* An interval of the window that was read and in which the link moved has left
\* an event, or the port is not followed yet.
Shown(events, intervals) ==
    \A j \in 1..Len(intervals) :
        j <= Window + 1 /\ intervals[j].plain /\ intervals[j].flips > 0
        => \E e \in 1..Len(events) : events[e] < j

Marks == [flips : 0..2, plain : BOOLEAN]
Span  == Window + MaxGap + 1

LEMMA StepParts ==
    ASSUME NEW intervals
    PROVE  \A s : s \in PR!Steps(intervals) <=>
              /\ s \in (1..Len(intervals)) \X (1..2)
              /\ s[2] <= intervals[s[1]].flips
BY DEF PR!Steps

LEMMA BackedNone == \A intervals, unread : Backed(<<>>, intervals, unread)
<1> SUFFICES ASSUME NEW intervals, NEW unread PROVE Backed(<<>>, intervals, unread)
  OBVIOUS
<1> DEFINE f == [e \in 1..0 |-> <<1, 1>>]
<1>1. f \in [1..Len(<<>>) -> PR!Steps(intervals)]
  OBVIOUS
<1>2. Backing(f, <<>>, intervals, unread)
  BY <1>1 DEF Backing
<1> QED
  BY <1>1, <1>2 DEF Backed

\* An interval later.
LEMMA BackedAged ==
    ASSUME PR!PortRulesAssumption, NEW events, Tidy(events),
           NEW p \in Seq(Marks), NEW mark \in Marks, NEW unread \in Nat,
           Backed(events, p, unread)
    PROVE  Backed(PR!Aged(events), Noted(mark, p, Span), unread + 1)
<1> DEFINE older == PR!Aged(events)
           q == Noted(mark, p, Span)
<1>1. Window \in Nat /\ MaxGap \in Nat
  BY DEF PR!PortRulesAssumption
<1>2. PICK f \in [1..Len(events) -> PR!Steps(p)] : Backing(f, events, p, unread)
  BY DEF Backed
<1>3. /\ Tidy(older) /\ Len(older) \in Nat /\ Len(older) <= Len(events)
      /\ \A j \in 1..Len(older) : older[j] = events[j] + 1
  BY <1>1, AgedParts
<1>4. Span \in Nat \ {0}
  BY <1>1 DEF Span
<1>5a. q \in Seq(Marks) /\ Headed(q, mark, p, Span)
  BY <1>4, NotedFirst
<1>5. /\ q \in Seq(Marks) /\ Len(q) \in Nat /\ Len(q) <= Span
      /\ Len(q) = Len(p) + 1 \/ (Len(q) = Span /\ Span <= Len(p) + 1)
      /\ \A j \in 2..Len(q) : j - 1 \in 1..Len(p) /\ q[j] = p[j - 1]
  BY <1>5a DEF Headed
<1> HIDE DEF older, q
<1> DEFINE g == [e \in 1..Len(older) |-> <<f[e][1] + 1, f[e][2]>>]
<1>6. ASSUME NEW e \in 1..Len(older)
      PROVE  /\ g[e] \in PR!Steps(q) /\ g[e][1] = f[e][1] + 1 /\ g[e][2] = f[e][2]
             /\ f[e] = <<f[e][1], f[e][2]>> /\ f[e][1] \in Nat
             /\ g[e][1] > unread + 1 /\ g[e][1] > older[e]
             /\ g[e][1] <= older[e] + 1 + MaxGap
  <2>1. e \in 1..Len(events) /\ events[e] \in 0..Window /\ older[e] = events[e] + 1
    BY <1>3, TidyParts
  <2>2. older[e] \in 0..Window
    BY <1>3, TidyParts
  <2>3. /\ f[e] \in PR!Steps(p) /\ f[e][1] > unread /\ f[e][1] > events[e]
        /\ f[e][1] <= events[e] + 1 + MaxGap
    BY <1>2, <2>1 DEF Backing
  <2>4. /\ f[e] \in (1..Len(p)) \X (1..2) /\ f[e][2] <= p[f[e][1]].flips
    BY <2>3, StepParts
  <2>5. /\ f[e][1] \in 1..Len(p) /\ f[e][2] \in 1..2 /\ f[e] = <<f[e][1], f[e][2]>>
    BY <2>4
  <2>6. f[e][1] + 1 <= Span
    BY <1>1, <2>1, <2>2, <2>3, <2>5 DEF Span
  <2>7. f[e][1] + 1 \in 2..Len(q)
    BY <1>5, <2>5, <2>6
  <2>8. q[f[e][1] + 1] = p[f[e][1]]
    BY <1>5, <2>5, <2>7
  <2>9. g[e] = <<f[e][1] + 1, f[e][2]>>
    OBVIOUS
  <2>10. g[e] \in (1..Len(q)) \X (1..2) /\ g[e][1] = f[e][1] + 1 /\ g[e][2] = f[e][2]
    BY <2>5, <2>7, <2>9
  <2>11. g[e] \in PR!Steps(q)
    BY <2>4, <2>8, <2>10, StepParts
  <2> HIDE DEF g
  <2>12. f[e][1] \in Nat /\ events[e] \in Nat
    BY <1>1, <2>1, <2>5
  <2>13. f[e][1] + 1 > unread + 1
    BY <2>3, <2>12
  <2>14. f[e][1] + 1 > older[e] /\ f[e][1] + 1 <= older[e] + 1 + MaxGap
    BY <1>1, <2>1, <2>3, <2>12
  <2>15. /\ g[e][1] > unread + 1 /\ g[e][1] > older[e]
         /\ g[e][1] <= older[e] + 1 + MaxGap
    BY <2>10, <2>13, <2>14
  <2> QED
    BY <2>5, <2>10, <2>11, <2>12, <2>15
<1>7. ASSUME NEW e \in 1..Len(older), NEW h \in 1..Len(older), g[e] = g[h] PROVE e = h
  <2>1. f[e][1] + 1 = f[h][1] + 1 /\ f[e][2] = f[h][2]
        /\ f[e][1] \in Nat /\ f[h][1] \in Nat
    BY <1>6, <1>7
  <2>2. f[e] = <<f[e][1], f[e][2]>> /\ f[h] = <<f[h][1], f[h][2]>>
    BY <1>6
  <2>4. f[e][1] = f[h][1]
    BY <2>1
  <2>5. f[e] = f[h]
    BY <2>1, <2>2, <2>4
  <2>3. e \in 1..Len(events) /\ h \in 1..Len(events)
    BY <1>3
  <2> QED
    BY <1>2, <2>5, <2>3 DEF Backing
<1>8. g \in [1..Len(older) -> PR!Steps(q)]
  BY <1>6
<1>9. Backing(g, older, q, unread + 1)
  BY <1>6, <1>7, <1>8 DEF Backing
<1> QED
  BY <1>8, <1>9 DEF Backed, older, q

\* n new events, for as many transitions that had not been read.
LEMMA BackedNew ==
    ASSUME PR!PortRulesAssumption, NEW events, Tidy(events),
           NEW p \in Seq(Marks), NEW unread \in 0..(MaxGap + 1),
           Backed(events, p, unread), NEW n \in 0..2,
           NEW s, NEW t, n = 2 => s # t,
           n > 0 => s \in PR!Steps(p) /\ s[1] <= unread,
           n > 1 => t \in PR!Steps(p) /\ t[1] <= unread
    PROVE  LET more == [j \in 1..n |-> 0] \o events
           IN  Tidy(more) /\ Backed(more, p, 0)
<1> DEFINE zeros == [j \in 1..n |-> 0]
           more == zeros \o events
<1>1. Window \in Nat /\ MaxGap \in Nat
  BY DEF PR!PortRulesAssumption
<1>2. PICK f \in [1..Len(events) -> PR!Steps(p)] : Backing(f, events, p, unread)
  BY DEF Backed
<1>3. /\ events \in Seq(0..Window) /\ Len(events) \in Nat
      /\ \A i, j \in 1..Len(events) : i < j => events[i] <= events[j]
      /\ \A j \in 1..Len(events) : events[j] \in 0..Window
  BY TidyParts
<1>4. zeros \in Seq(0..Window) /\ Len(zeros) = n /\ \A j \in 1..n : zeros[j] = 0
  BY <1>1
<1> HIDE DEF zeros
<1>5. /\ more \in Seq(0..Window) /\ Len(more) = n + Len(events)
      /\ \A j \in 1..n : more[j] = 0
      /\ \A j \in (n + 1)..Len(more) : j - n \in 1..Len(events) /\ more[j] = events[j - n]
      /\ \A j \in 1..Len(more) : more[j] \in 0..Window
  <2>1. more \in Seq(0..Window) /\ Len(more) = n + Len(events)
    BY <1>3, <1>4
  <2>2. \A j \in 1..n : more[j] = 0
    BY <1>3, <1>4, <2>1
  <2>3. \A j \in (n + 1)..Len(more) : j - n \in 1..Len(events) /\ more[j] = events[j - n]
    BY <1>3, <1>4, <2>1
  <2> HIDE DEF more
  <2>4. \A j \in 1..Len(more) : more[j] \in 0..Window
    BY <1>1, <2>1
  <2> QED
    BY <2>1, <2>2, <2>3, <2>4
<1> HIDE DEF more
<1>6. Tidy(more)
  <2>1. ASSUME NEW i \in 1..Len(more), NEW j \in 1..Len(more), i < j
        PROVE  more[i] <= more[j]
    <3>1. CASE i <= n
      <4>1. more[i] = 0 /\ more[j] \in 0..Window
        BY <1>5, <2>1, <3>1
      <4> QED
        BY <4>1
    <3>2. CASE i > n
      <4>1. i \in (n + 1)..Len(more) /\ j \in (n + 1)..Len(more)
        BY <1>3, <1>5, <2>1, <3>2
      <4>2. /\ i - n \in 1..Len(events) /\ j - n \in 1..Len(events) /\ i - n < j - n
            /\ more[i] = events[i - n] /\ more[j] = events[j - n]
        BY <1>5, <2>1, <4>1
      <4> QED
        BY <1>3, <4>2
    <3> QED
      BY <3>1, <3>2
  <2> QED
    BY <1>5, <2>1 DEF Tidy
<1> DEFINE g == [e \in 1..Len(more) |-> IF e = 1 /\ n > 0 THEN s
                                        ELSE IF e = 2 /\ n > 1 THEN t ELSE f[e - n]]
<1>7. ASSUME NEW e \in 1..Len(more)
      PROVE  /\ g[e] \in PR!Steps(p) /\ g[e][1] > 0 /\ g[e][1] > more[e]
             /\ g[e][1] <= more[e] + 1 + MaxGap
             /\ e <= n => g[e][1] <= unread
             /\ e > n => /\ e - n \in 1..Len(events) /\ g[e] = f[e - n]
                         /\ g[e][1] > unread
  <2>1. CASE e <= n
    <3>1. more[e] = 0
      BY <1>5, <2>1
    <3>2. g[e] \in PR!Steps(p) /\ g[e][1] <= unread
      <4>1. CASE e = 1
        BY <2>1, <4>1
      <4>2. CASE e # 1
        <5>1. e = 2 /\ n > 1
          BY <2>1, <4>2
        <5> QED
          BY <5>1
      <4> QED
        BY <4>1, <4>2
    <3>3. g[e][1] \in 1..Len(p)
      BY <3>2, StepParts
    <3> QED
      BY <1>1, <2>1, <3>1, <3>2, <3>3
  <2>2. CASE e > n
    <3>1. e \in (n + 1)..Len(more)
      BY <1>3, <1>5, <2>2
    <3>2. e - n \in 1..Len(events) /\ more[e] = events[e - n]
      BY <1>5, <3>1
    <3>3. g[e] = f[e - n]
      BY <2>2, <3>1
    <3>4. /\ f[e - n] \in PR!Steps(p) /\ f[e - n][1] > unread
          /\ f[e - n][1] > events[e - n] /\ f[e - n][1] <= events[e - n] + 1 + MaxGap
      BY <1>2, <3>2 DEF Backing
    <3>5. f[e - n][1] \in 1..Len(p)
      BY <3>4, StepParts
    <3> QED
      BY <2>2, <3>2, <3>3, <3>4, <3>5
  <2> QED
    BY <1>3, <1>5, <2>1, <2>2
<1>8. ASSUME NEW e \in 1..Len(more), NEW h \in 1..Len(more), g[e] = g[h] PROVE e = h
  <2>1. g[e][1] \in Nat /\ g[h][1] \in Nat
    BY <1>7, StepParts
  <2>2. e <= n <=> h <= n
    BY <1>7, <1>8, <2>1
  <2>3. CASE e <= n /\ h <= n
    BY <1>8, <2>3
  <2>4. CASE e > n /\ h > n
    <3>1. e - n \in 1..Len(events) /\ h - n \in 1..Len(events) /\ f[e - n] = f[h - n]
      BY <1>7, <1>8, <2>4
    <3>2. e - n = h - n
      BY <1>2, <3>1 DEF Backing
    <3> QED
      BY <3>2
  <2> QED
    BY <2>2, <2>3, <2>4
<1>9. g \in [1..Len(more) -> PR!Steps(p)]
  BY <1>7
<1>10. Backing(g, more, p, 0)
  <2> HIDE DEF g
  <2> QED
    BY <1>7, <1>8, <1>9 DEF Backing
<1>11. Backed(more, p, 0)
  BY <1>9, <1>10 DEF Backed
<1> QED
  BY <1>6, <1>11 DEF more, zeros

\* The oldest are forgotten.
LEMMA BackedLatest ==
    ASSUME PR!PortRulesAssumption, NEW events, Tidy(events), NEW p,
           NEW unread, Backed(events, p, unread), NEW m \in Nat
    PROVE  Tidy(PR!Latest(events, m)) /\ Backed(PR!Latest(events, m), p, unread)
<1> DEFINE few == PR!Latest(events, m)
<1>1. PICK f \in [1..Len(events) -> PR!Steps(p)] : Backing(f, events, p, unread)
  BY DEF Backed
<1>2. /\ few \in Seq(0..Window) /\ Len(few) <= Len(events)
      /\ \A j \in 1..Len(few) : few[j] = events[j]
  BY LatestParts DEF Tidy
<1> HIDE DEF few
<1>3. Len(few) \in Nat /\ Len(events) \in Nat /\ \A j \in 1..Len(few) : j \in 1..Len(events)
  <2>1. Len(few) \in Nat /\ Len(events) \in Nat
    BY <1>2 DEF Tidy
  <2> QED
    BY <1>2, <2>1
<1>4. Tidy(few)
  <2>1. \A i, j \in 1..Len(few) : i < j => few[i] <= few[j]
    BY <1>2, <1>3 DEF Tidy
  <2> QED
    BY <1>2, <2>1 DEF Tidy
<1> DEFINE g == [e \in 1..Len(few) |-> f[e]]
<1>5. g \in [1..Len(few) -> PR!Steps(p)]
  BY <1>3
<1>6. Backing(g, few, p, unread)
  <2>1. \A e \in 1..Len(few) : /\ g[e][1] > unread /\ g[e][1] > few[e]
                               /\ g[e][1] <= few[e] + 1 + MaxGap
    BY <1>1, <1>2, <1>3 DEF Backing
  <2>2. \A e, h \in 1..Len(few) : g[e] = g[h] => e = h
    BY <1>1, <1>3 DEF Backing
  <2> QED
    BY <1>5, <2>1, <2>2 DEF Backing
<1> QED
  BY <1>4, <1>5, <1>6 DEF Backed, few

\* What is backed is no more than there was.
LEMMA BackedCount ==
    ASSUME NEW S, NEW events \in Seq(S), NEW p \in Seq(Marks), NEW unread,
           Backed(events, p, unread)
    PROVE  Len(events) <= PR!FlipsOf(p) /\ PR!FlipsOf(p) \in Nat
<1>1. PICK f \in [1..Len(events) -> PR!Steps(p)] : Backing(f, events, p, unread)
  BY DEF Backed
<1>2. f \in Injection(1..Len(events), PR!Steps(p))
  BY <1>1 DEF Backing, Injection, IsInjective
<1>3. IsFiniteSet(PR!Steps(p))
  <2>0. Len(p) \in Nat
    OBVIOUS
  <2>1. IsFiniteSet(1..Len(p)) /\ IsFiniteSet(1..2)
    BY <2>0, UpTo
  <2>2. IsFiniteSet((1..Len(p)) \X (1..2))
    BY <2>1, FS_Product
  <2>3. PR!Steps(p) \in SUBSET ((1..Len(p)) \X (1..2))
    BY StepParts
  <2> QED
    BY <2>2, <2>3, FS_Subset
<1>4. Cardinality(1..Len(events)) <= Cardinality(PR!Steps(p))
      /\ Cardinality(PR!Steps(p)) \in Nat
  BY <1>2, <1>3, FS_Injection, FS_CardinalityType
<1>5. Cardinality(1..Len(events)) = Len(events)
  BY UpTo
<1> QED
  BY <1>4, <1>5, CountsAlike DEF PR!FlipsOf

\* What has not been read of the link: the transitions since, and what the
\* status and its change say of them.
Unseen(intervals, unread) == {s \in PR!Steps(intervals) : s[1] <= unread}
LinkTrue(odd, moved, unread, intervals) ==
    /\ odd \/ moved => Unseen(intervals, unread) # {}
    /\ ~odd => \A s \in Unseen(intervals, unread) :
                  \E t \in Unseen(intervals, unread) : t # s

\* One interval more: what went unseen before is one interval older.
LEMMA UnseenLater ==
    ASSUME PR!PortRulesAssumption, NEW p \in Seq(Marks), NEW mark \in Marks,
           NEW unread \in 0..MaxGap
    PROVE  LET q == Noted(mark, p, Span)
           IN  /\ \A k \in 1..2 : k <= mark.flips => <<1, k>> \in Unseen(q, unread + 1)
               /\ \A s \in Unseen(p, unread) :
                     /\ s[1] \in 1..MaxGap /\ s[2] \in 1..2 /\ s = <<s[1], s[2]>>
                     /\ <<s[1] + 1, s[2]>> \in Unseen(q, unread + 1)
               /\ \A u \in Unseen(q, unread + 1) :
                     /\ u[1] \in Nat /\ u[2] \in 1..2 /\ u = <<u[1], u[2]>>
                     /\ u[1] = 1 => u[2] <= mark.flips
                     /\ u[1] # 1 => <<u[1] - 1, u[2]>> \in Unseen(p, unread)
<1> DEFINE q == Noted(mark, p, Span)
<1>1. Window \in Nat /\ MaxGap \in Nat
  BY DEF PR!PortRulesAssumption
<1>0. Span \in Nat \ {0}
  BY <1>1 DEF Span
<1>2. Span >= MaxGap + 1
  BY <1>1 DEF Span
<1>3a. q \in Seq(Marks) /\ Headed(q, mark, p, Span)
  BY <1>0, NotedFirst
<1>3. /\ q \in Seq(Marks) /\ Len(q) \in Nat /\ Len(q) <= Span
      /\ Len(q) = Len(p) + 1 \/ (Len(q) = Span /\ Span <= Len(p) + 1)
      /\ q[1] = mark /\ Len(q) >= 1
      /\ \A j \in 2..Len(q) : j - 1 \in 1..Len(p) /\ q[j] = p[j - 1]
  BY <1>3a DEF Headed
<1>4. Len(p) \in Nat
  OBVIOUS
<1> HIDE DEF q
<1>5. ASSUME NEW k \in 1..2, k <= mark.flips PROVE <<1, k>> \in Unseen(q, unread + 1)
  <2>1. <<1, k>> \in (1..Len(q)) \X (1..2) /\ <<1, k>>[1] = 1 /\ <<1, k>>[2] = k
    BY <1>3
  <2>2. <<1, k>> \in PR!Steps(q)
    BY <1>3, <1>5, <2>1, StepParts
  <2> QED
    BY <2>1, <2>2 DEF Unseen
<1>6. ASSUME NEW s \in Unseen(p, unread)
      PROVE  /\ s[1] \in 1..MaxGap /\ s[2] \in 1..2 /\ s = <<s[1], s[2]>>
             /\ <<s[1] + 1, s[2]>> \in Unseen(q, unread + 1)
  <2>1. s \in PR!Steps(p) /\ s[1] <= unread
    BY DEF Unseen
  <2>2. s \in (1..Len(p)) \X (1..2) /\ s[2] <= p[s[1]].flips
    BY <2>1, StepParts
  <2>3. s[1] \in 1..Len(p) /\ s[2] \in 1..2 /\ s = <<s[1], s[2]>>
    BY <2>2
  <2>4. s[1] \in 1..MaxGap
    BY <1>1, <2>1, <2>3
  <2>5. s[1] + 1 \in 2..Len(q)
    <3> DEFINE x == s[1]
    <3>1. x \in 1..Len(p) /\ x \in 1..MaxGap
      BY <2>3, <2>4
    <3> HIDE DEF x
    <3>2. x + 1 <= Len(q)
      BY <1>0, <1>1, <1>2, <1>3, <1>4, <3>1
    <3>3. x + 1 \in 2..Len(q)
      BY <1>3, <3>1, <3>2
    <3> QED
      BY <3>3 DEF x
  <2>6. q[s[1] + 1] = p[s[1]]
    BY <1>3, <2>3, <2>5
  <2> DEFINE x == s[1] + 1
             y == s[2]
             u == <<x, y>>
  <2>7. u[1] = x /\ u[2] = y
    OBVIOUS
  <2>8. x \in 1..Len(q) /\ y \in 1..2 /\ y <= q[x].flips /\ x <= unread + 1
    BY <1>1, <2>1, <2>2, <2>3, <2>5, <2>6
  <2>9. u \in (1..Len(q)) \X (1..2)
    BY <2>8
  <2> HIDE DEF x, y
  <2>10. u \in PR!Steps(q)
    BY <2>7, <2>8, <2>9, StepParts
  <2>11. u \in Unseen(q, unread + 1)
    BY <2>7, <2>8, <2>10 DEF Unseen
  <2> QED
    BY <2>3, <2>4, <2>11 DEF x, y
<1>7. ASSUME NEW u \in Unseen(q, unread + 1)
      PROVE  /\ u[1] \in Nat /\ u[2] \in 1..2 /\ u = <<u[1], u[2]>>
             /\ u[1] = 1 => u[2] <= mark.flips
             /\ u[1] # 1 => <<u[1] - 1, u[2]>> \in Unseen(p, unread)
  <2>1. u \in PR!Steps(q) /\ u[1] <= unread + 1
    BY DEF Unseen
  <2>2. u \in (1..Len(q)) \X (1..2) /\ u[2] <= q[u[1]].flips
    BY <2>1, StepParts
  <2>3. u[1] \in 1..Len(q) /\ u[2] \in 1..2 /\ u = <<u[1], u[2]>>
    BY <2>2
  <2>4. ASSUME u[1] # 1 PROVE <<u[1] - 1, u[2]>> \in Unseen(p, unread)
    <3> DEFINE x == u[1] - 1
               y == u[2]
               s == <<x, y>>
    <3>1. u[1] \in 2..Len(q)
      BY <2>3, <2>4
    <3>2. x \in 1..Len(p) /\ q[u[1]] = p[x]
      BY <1>3, <3>1
    <3>3. s[1] = x /\ s[2] = y
      OBVIOUS
    <3>4. s \in (1..Len(p)) \X (1..2) /\ x <= unread /\ y <= p[x].flips
      BY <2>1, <2>2, <2>3, <3>1, <3>2
    <3> HIDE DEF x, y
    <3>5. s \in PR!Steps(p)
      BY <3>3, <3>4, StepParts
    <3>6. s \in Unseen(p, unread)
      BY <3>3, <3>4, <3>5 DEF Unseen
    <3> QED
      BY <3>6 DEF x, y
  <2> QED
    BY <1>3, <2>2, <2>3, <2>4
<1> QED
  BY <1>5, <1>6, <1>7 DEF q

LEMMA LinkMoves ==
    ASSUME PR!PortRulesAssumption, NEW p \in Seq(Marks), NEW mark \in Marks,
           NEW unread \in 0..MaxGap,
           NEW odd \in BOOLEAN, NEW moved \in BOOLEAN, LinkTrue(odd, moved, unread, p),
           NEW odd2 \in BOOLEAN, NEW moved2 \in BOOLEAN,
           odd2 <=> (odd # (mark.flips = 1)),
           moved2 => moved \/ mark.flips > 0
    PROVE  LinkTrue(odd2, moved2, unread + 1, Noted(mark, p, Span))
<1> DEFINE q == Noted(mark, p, Span)
           old == Unseen(p, unread)
           now == Unseen(q, unread + 1)
<1>1. /\ \A k \in 1..2 : k <= mark.flips => <<1, k>> \in now
      /\ \A s \in old : /\ s[1] \in 1..MaxGap /\ s[2] \in 1..2 /\ s = <<s[1], s[2]>>
                        /\ <<s[1] + 1, s[2]>> \in now
      /\ \A u \in now : /\ u[1] \in Nat /\ u[2] \in 1..2 /\ u = <<u[1], u[2]>>
                        /\ u[1] = 1 => u[2] <= mark.flips
                        /\ u[1] # 1 => <<u[1] - 1, u[2]>> \in old
  BY UnseenLater
<1>2. MaxGap \in Nat /\ mark.flips \in 0..2
  BY DEF PR!PortRulesAssumption, Marks
<1>3. /\ odd \/ moved => old # {}
      /\ ~odd => \A s \in old : \E t \in old : t # s
  BY DEF LinkTrue
<1> HIDE DEF q, old, now
<1>4. mark.flips > 0 => <<1, 1>> \in now
  BY <1>1, <1>2
<1>5. old # {} => \E u \in now : u[1] # 1
  <2>1. SUFFICES ASSUME NEW s \in old PROVE \E u \in now : u[1] # 1
    OBVIOUS
  <2>2. <<s[1] + 1, s[2]>> \in now /\ s[1] \in 1..MaxGap
    BY <1>1
  <2>3. <<s[1] + 1, s[2]>>[1] # 1
    BY <2>2
  <2> QED
    BY <2>2, <2>3
<1>6. odd2 \/ moved2 => now # {}
  BY <1>2, <1>3, <1>4, <1>5
<1>7. ASSUME ~odd2, NEW u \in now PROVE \E t \in now : t # u
  <2>1. CASE mark.flips = 1
    <3>1. <<1, 1>> \in now /\ (\E w \in now : w[1] # 1)
      BY <1>2, <1>3, <1>4, <1>5, <1>7, <2>1
    <3>2. PICK w \in now : w[1] # 1
      BY <3>1
    <3>3. <<1, 1>>[1] = 1
      OBVIOUS
    <3>4. w # <<1, 1>>
      BY <3>2, <3>3
    <3> QED
      BY <3>1, <3>4
  <2>2. CASE mark.flips = 2
    <3>1. <<1, 1>> \in now /\ <<1, 2>> \in now /\ <<1, 1>> # <<1, 2>>
      BY <1>1, <2>2
    <3> QED
      BY <3>1
  <2>3. CASE mark.flips = 0
    <3>0. u[1] \in Nat /\ u[2] \in 1..2 /\ u = <<u[1], u[2]>>
          /\ (u[1] = 1 => u[2] <= mark.flips)
      BY <1>1
    <3>1. u[1] \in Nat /\ u[2] \in 1..2 /\ u = <<u[1], u[2]>> /\ u[1] # 1
      BY <2>3, <3>0
    <3> DEFINE s == <<u[1] - 1, u[2]>>
    <3>2. s \in old /\ s[1] = u[1] - 1 /\ s[2] = u[2]
      BY <1>1, <3>1
    <3>3. PICK t \in old : t # s
      <4>1. ~odd
        BY <1>7, <2>3
      <4> QED
        BY <1>3, <3>2, <4>1
    <3>4. t = <<t[1], t[2]>> /\ t[1] \in 1..MaxGap /\ <<t[1] + 1, t[2]>> \in now
      BY <1>1
    <3>5. ASSUME <<t[1] + 1, t[2]>> = u PROVE FALSE
      <4>1. t[1] + 1 = u[1] /\ t[2] = u[2]
        BY <3>5
      <4>2. t[1] = u[1] - 1
        BY <3>1, <3>4, <4>1
      <4> QED
        BY <3>3, <3>4, <4>1, <4>2
    <3> QED
      BY <3>4, <3>5
  <2> QED
    BY <1>2, <2>1, <2>2, <2>3
<1> QED
  BY <1>6, <1>7 DEF LinkTrue, q, now

LEMMA LinkRead ==
    ASSUME NEW p PROVE LinkTrue(FALSE, FALSE, 0, p)
<1>1. ASSUME NEW s \in Unseen(p, 0) PROVE FALSE
  <2>1. s \in (1..Len(p)) \X (1..2) /\ s[1] <= 0
    BY StepParts DEF Unseen
  <2> QED
    BY <2>1
<1> QED
  BY <1>1 DEF LinkTrue

\* An interval later, with nothing in it that has been seen.
LEMMA ShownAged ==
    ASSUME PR!PortRulesAssumption, NEW events, Tidy(events),
           NEW p \in Seq(Marks), NEW mark \in Marks, mark.plain => mark.flips = 0,
           Shown(events, p)
    PROVE  Shown(PR!Aged(events), Noted(mark, p, Span))
<1> DEFINE older == PR!Aged(events)
           q == Noted(mark, p, Span)
<1>1. Window \in Nat /\ MaxGap \in Nat
  BY DEF PR!PortRulesAssumption
<1>0. Span \in Nat \ {0}
  BY <1>1 DEF Span
<1>2. /\ Len(older) \in Nat /\ Len(older) <= Len(events)
      /\ \A j \in 1..Len(older) : older[j] = events[j] + 1
      /\ \A j \in 1..Len(events) : events[j] < Window => j <= Len(older)
  BY <1>1, AgedParts
<1>3a. q \in Seq(Marks) /\ Headed(q, mark, p, Span)
  BY <1>0, NotedFirst
<1>3. /\ q \in Seq(Marks) /\ Len(q) \in Nat /\ Len(q) <= Span
      /\ Len(q) = Len(p) + 1 \/ (Len(q) = Span /\ Span <= Len(p) + 1)
      /\ q[1] = mark /\ Len(q) >= 1
      /\ \A j \in 2..Len(q) : j - 1 \in 1..Len(p) /\ q[j] = p[j - 1]
  BY <1>3a DEF Headed
<1>4. Len(events) \in Nat /\ \A j \in 1..Len(events) : events[j] \in 0..Window
  BY TidyParts
<1> HIDE DEF older, q
<1>5. ASSUME NEW j \in 1..Len(q), j <= Window + 1, q[j].plain, q[j].flips > 0
      PROVE  \E e \in 1..Len(older) : older[e] < j
  <2>1. j \in 2..Len(q)
    <3>1. j # 1
      BY <1>3, <1>5
    <3> QED
      BY <3>1
  <2>2. j - 1 \in 1..Len(p) /\ q[j] = p[j - 1] /\ j - 1 <= Window + 1
    BY <1>1, <1>3, <1>5, <2>1
  <2>3. PICK e \in 1..Len(events) : events[e] < j - 1
    BY <1>5, <2>2 DEF Shown
  <2>4. events[e] \in 0..Window /\ events[e] < Window
    BY <1>1, <1>4, <1>5, <2>1, <2>3
  <2>5. e \in 1..Len(older)
    BY <1>2, <1>4, <2>4
  <2>6. older[e] = events[e] + 1 /\ events[e] + 1 < j
    BY <1>2, <2>1, <2>3, <2>4, <2>5
  <2> QED
    BY <2>5, <2>6
<1> QED
  BY <1>5 DEF Shown, older, q

LEMMA ShownNew ==
    ASSUME NEW events, Len(events) >= 1, Len(events) \in Nat, events[1] = 0, NEW p
    PROVE  Shown(events, p)
<1>1. 1 \in 1..Len(events)
  OBVIOUS
<1>2. \A j \in 1..Len(p) : events[1] < j
  OBVIOUS
<1> QED
  BY <1>1, <1>2 DEF Shown

\* The newest is kept.
LEMMA ShownLatest ==
    ASSUME NEW events, Tidy(events), NEW p, Shown(events, p), NEW m \in Nat \ {0}
    PROVE  Shown(PR!Latest(events, m), p)
<1> DEFINE few == PR!Latest(events, m)
<1>1. /\ Len(events) \in Nat
      /\ \A i, j \in 1..Len(events) : i < j => events[i] <= events[j]
      /\ \A j \in 1..Len(events) : events[j] \in 0..Window
  BY TidyParts
<1>2. /\ Len(few) = PR!AtMost(Len(events), m)
      /\ \A j \in 1..Len(few) : few[j] = events[j]
  BY LatestParts DEF Tidy
<1> HIDE DEF few
<1>3. ASSUME NEW j \in 1..Len(p), NEW e \in 1..Len(events), events[e] < j
      PROVE  \E g \in 1..Len(few) : few[g] < j
  <2>1. Len(few) \in Nat /\ Len(few) >= 1 /\ 1 \in 1..Len(events)
    BY <1>1, <1>2 DEF PR!AtMost
  <2>2. few[1] = events[1]
    BY <1>2, <2>1
  <2>3. events[1] <= events[e] /\ events[1] \in 0..Window /\ events[e] \in 0..Window
    <3>1. CASE e = 1
      BY <1>1, <3>1
    <3>2. CASE e # 1
      BY <1>1, <2>1, <3>2
    <3> QED
      BY <3>1, <3>2
  <2>4. few[1] < j
    BY <1>3, <2>2, <2>3
  <2> QED
    BY <2>1, <2>4
<1> QED
  BY <1>3 DEF Shown, few

Links    == [odd : BOOLEAN, zero : BOOLEAN, rebooted : BOOLEAN, changed : BOOLEAN,
             unread : 0..MaxGap]
Trackers == [known : BOOLEAN, zero : BOOLEAN, tracked : BOOLEAN,
             events : Seq(0..Window)]

TrackerKept ==
    /\ tracker \in Trackers /\ Tidy(tracker.events)
    /\ Len(tracker.events) <= FlapHistory
    /\ tracker.tracked => tracker.known
    /\ tracker.events # <<>> => tracker.tracked
FlapsKept ==
    /\ past \in Seq(Marks) /\ Len(past) <= Span
    /\ LinkTrue(link.odd, link.changed, link.unread, past)
    /\ Backed(tracker.events, past, link.unread)
    /\ tracker.tracked => Shown(tracker.events, past)

\* What a cycle may make of the alarm.
Judged ==
    /\ open' \in BOOLEAN
    /\ ~present => open' = (open /\ ~PR!Gone)
    /\ open' /\ ~open => PR!Loud'
    /\ open /\ ~open' => PR!Gone \/ (present /\ PR!Quiet')

LEMMA BecomesJudged ==
    ASSUME open \in BOOLEAN, NEW b \in BOOLEAN, PR!Becomes(b),
           ~present => b = open, b /\ ~open => PR!Loud',
           open /\ ~b => present /\ PR!Quiet'
    PROVE  Judged
<1>1. open' = (b /\ ~PR!Gone) /\ PR!Gone \in BOOLEAN
  BY DEF PR!Becomes, PR!Gone
<1> QED
  BY <1>1, Zenon DEF Judged

LEMMA StaysJudged ==
    ASSUME open \in BOOLEAN, PR!Stays PROVE Judged
BY BecomesJudged DEF PR!Stays

\* A port of which nothing was shown has had no transitions, or was not read.
LEMMA NoneShown ==
    ASSUME Window \in Nat, NEW p \in Seq(Marks), Shown(<<>>, p)
    PROVE  \/ PR!FlipsOf(PR!Latest(p, Window + 1)) = 0
           \/ \E j \in DOMAIN PR!Latest(p, Window + 1) : ~p[j].plain
<1> DEFINE q == PR!Latest(p, Window + 1)
<1>1. /\ q \in Seq(Marks) /\ Len(q) <= Len(p) /\ Len(q) <= Window + 1
      /\ \A j \in 1..Len(q) : q[j] = p[j]
  BY LatestParts
<1>2. Len(p) \in Nat
  OBVIOUS
<1> HIDE DEF q
<1>3. DOMAIN q = 1..Len(q) /\ Len(q) \in Nat
  BY <1>1
<1>4. SUFFICES ASSUME \A j \in 1..Len(q) : p[j].plain PROVE PR!FlipsOf(q) = 0
  BY <1>3 DEF q
<1>5. ASSUME NEW s \in PR!Steps(q) PROVE FALSE
  <2>1. s \in (1..Len(q)) \X (1..2) /\ s[2] <= q[s[1]].flips
    BY <1>5, StepParts
  <2> DEFINE j == s[1]
  <2>2. j \in 1..Len(q) /\ q[j].flips > 0
    <3>1. s[1] \in 1..Len(q) /\ s[2] \in 1..2
      BY <2>1
    <3>2. q[s[1]] \in Marks
      BY <1>1, <3>1
    <3>3. q[s[1]].flips \in 0..2
      BY <3>2 DEF Marks
    <3> QED
      BY <2>1, <3>1, <3>3
  <2> HIDE DEF j
  <2>3. j \in 1..Len(p) /\ j <= Window + 1 /\ p[j].plain /\ p[j].flips > 0
    BY <1>1, <1>2, <1>3, <1>4, <2>2
  <2>4. PICK e \in 1..Len(<<>>) : TRUE
    BY <2>3 DEF Shown
  <2> QED
    BY <2>4
<1>6. PR!Steps(q) = {}
  BY <1>5
<1> QED
  BY <1>6, CountsAlike, FS_EmptySet DEF PR!FlipsOf

\* How ifLastChange compares, and what is made of it.
LEMMA ComparedParts ==
    ASSUME NEW a, a.rebooted \in BOOLEAN, a.changed \in BOOLEAN,
           NEW stamp \in PR!Compared(a)
    PROVE  /\ stamp \in {"same", "earlier", "later"}
           /\ stamp = "later" => a.changed
           /\ ~a.rebooted /\ a.changed => stamp = "later"
<1>1. CASE ~a.rebooted /\ ~a.changed
  BY <1>1 DEF PR!Compared
<1>2. CASE ~a.rebooted /\ a.changed
  BY <1>2 DEF PR!Compared
<1>3. CASE a.rebooted /\ ~a.changed
  BY <1>3 DEF PR!Compared
<1>4. CASE a.rebooted /\ a.changed
  BY <1>4 DEF PR!Compared
<1> QED
  BY <1>1, <1>2, <1>3, <1>4

LEMMA TransitionsParts ==
    ASSUME NEW odd \in BOOLEAN, NEW stamp \in {"same", "earlier", "later"}
    PROVE  LET n == PR!Transitions(odd, stamp)
           IN  /\ n \in 0..2
               /\ stamp = "later" => n > 0
               /\ n > 0 /\ stamp # "later" => odd
               /\ n > 1 => stamp = "later" /\ ~odd
BY DEF PR!Transitions

\* The events of an interval later with those the cycle has read.
LEMMA RecordedKept ==
    ASSUME PR!PortRulesAssumption, NEW events, Tidy(events),
           NEW p \in Seq(Marks), NEW mark \in Marks, NEW unread \in 0..MaxGap,
           Backed(events, p, unread),
           NEW odd \in BOOLEAN, NEW moved \in BOOLEAN,
           LinkTrue(odd, moved, unread + 1, Noted(mark, p, Span)),
           NEW stamp \in {"same", "earlier", "later"}, stamp = "later" => moved
    PROVE  LET n    == PR!Transitions(odd, stamp)
               more == PR!Recorded(n, PR!Aged(events))
               q    == Noted(mark, p, Span)
           IN  /\ more \in Seq(0..Window) /\ Tidy(more) /\ Len(more) <= FlapHistory
               /\ Backed(more, q, 0)
               /\ n > 0 => Shown(more, q)
               /\ Shown(events, p) /\ (mark.plain => mark.flips = 0)
                     => Shown(more, q)
               /\ events = <<>> /\ ~(n > 0) => more = <<>>
<1> DEFINE n     == PR!Transitions(odd, stamp)
           older == PR!Aged(events)
           all   == [j \in 1..n |-> 0] \o older
           more  == PR!Recorded(n, older)
           q     == Noted(mark, p, Span)
<1>1. MaxGap \in Nat /\ Window \in Nat /\ FlapHistory \in Nat \ {0} /\ Span \in Nat \ {0}
  BY DEF PR!PortRulesAssumption, Span
<1>2. /\ n \in 0..2 /\ (n > 0 /\ stamp # "later" => odd)
      /\ n > 1 => stamp = "later" /\ ~odd
  BY TransitionsParts
<1>3. /\ Tidy(older) /\ Len(older) \in Nat /\ Len(older) <= Len(events)
  BY <1>1, AgedParts
<1>4. unread + 1 \in 0..(MaxGap + 1) /\ unread + 1 \in Nat /\ unread \in Nat
  BY <1>1
<1>5. Backed(older, q, unread + 1)
  BY <1>4, BackedAged
<1>6. q \in Seq(Marks)
  <2>1. Span \in Nat \ {0}
    BY <1>1
  <2> QED
    BY <2>1, NotedFirst
<1>7. more = PR!Latest(all, FlapHistory)
  BY DEF PR!Recorded
<1> HIDE DEF n, q, older, more
<1>8. Tidy(all) /\ Backed(all, q, 0)
  <2>1. CASE n = 0
    <3>1. n # 2 /\ ~(n > 0) /\ ~(n > 1) /\ n \in 0..2
      BY <2>1
    <3> QED
      BY <1>3, <1>4, <1>5, <1>6, <3>1, BackedNew
  <2>2. CASE n > 0
    <3>1. odd \/ moved
      BY <1>2, <2>2
    <3>2. PICK s \in Unseen(q, unread + 1) : TRUE
      BY <3>1 DEF LinkTrue, q
    <3>3. s \in PR!Steps(q) /\ s[1] <= unread + 1
      BY DEF Unseen
    <3>4. CASE n > 1
      <4>1. PICK t \in Unseen(q, unread + 1) : t # s
        BY <1>2, <3>4 DEF LinkTrue, q
      <4>2. t \in PR!Steps(q) /\ t[1] <= unread + 1
        BY DEF Unseen
      <4> QED
        BY <1>2, <1>3, <1>4, <1>5, <1>6, <3>3, <4>1, <4>2, BackedNew
    <3>5. CASE ~(n > 1)
      <4>1. n # 2
        BY <3>5
      <4> QED
        BY <1>2, <1>3, <1>4, <1>5, <1>6, <3>3, <3>5, <4>1, BackedNew
    <3> QED
      BY <3>4, <3>5
  <2> QED
    BY <1>2, <2>1, <2>2
<1>9. Tidy(more) /\ Backed(more, q, 0)
  BY <1>1, <1>7, <1>8, BackedLatest
<1>10. /\ all \in Seq(0..Window)
       /\ n > 0 => Len(all) >= 1 /\ Len(all) \in Nat /\ all[1] = 0
       /\ n = 0 => all = older
  <2>1. older \in Seq(0..Window) /\ Len(older) \in Nat
    BY <1>3 DEF Tidy
  <2> DEFINE zeros == [j \in 1..n |-> 0]
  <2>2. zeros \in Seq(0..Window) /\ Len(zeros) = n /\ (n > 0 => zeros[1] = 0)
    BY <1>1, <1>2
  <2>3. n = 0 => zeros = <<>>
    BY <2>2
  <2>5. all = zeros \o older
    OBVIOUS
  <2> HIDE DEF zeros, all
  <2>4. n > 0 => Len(all) >= 1 /\ Len(all) \in Nat /\ all[1] = 0
    BY <1>2, <2>1, <2>2, <2>5
  <2>6. n = 0 => all = older
    BY <2>1, <2>3, <2>5
  <2>7. all \in Seq(0..Window)
    BY <1>8 DEF Tidy
  <2> QED
    BY <2>4, <2>6, <2>7
<1> HIDE DEF all
<1>11. more \in Seq(0..Window) /\ Len(more) <= FlapHistory /\ Len(more) <= Len(all)
  <2>1. FlapHistory \in Nat
    BY <1>1
  <2> QED
    BY <1>7, <1>10, <2>1, LatestParts
<1>12. n > 0 => Shown(more, q)
  <2>1. n > 0 => Shown(all, q)
    BY <1>10, ShownNew
  <2> QED
    BY <1>1, <1>7, <1>8, <2>1, ShownLatest
<1>13. Shown(events, p) /\ (mark.plain => mark.flips = 0) => Shown(more, q)
  <2>1. SUFFICES ASSUME n = 0, Shown(events, p), mark.plain => mark.flips = 0
                 PROVE  Shown(more, q)
    BY <1>2, <1>12
  <2>2. Shown(older, q)
    BY <2>1, ShownAged DEF older, q
  <2> QED
    BY <1>1, <1>3, <1>7, <1>10, <2>1, <2>2, ShownLatest
<1>14. events = <<>> /\ ~(n > 0) => more = <<>>
  <2>1. SUFFICES ASSUME events = <<>>, n = 0 PROVE more = <<>>
    BY <1>2
  <2>2. Len(more) = 0
    <3>1. Len(more) \in Nat /\ Len(events) = 0
      BY <1>11, <2>1
    <3> QED
      BY <1>3, <1>10, <1>11, <2>1, <3>1
  <2> QED
    BY <1>11, <2>2
<1> QED
  BY <1>9, <1>11, <1>12, <1>13, <1>14 DEF more, n, older, q

\* The tracker, when the cycle has read the port.
LEMMA TrackerReads ==
    ASSUME PR!PortRulesAssumption, TrackerKept, FlapsKept, NEW unread \in 0..MaxGap,
           unread = link.unread,
           NEW a, a.odd \in BOOLEAN, a.zero \in BOOLEAN, a.rebooted \in BOOLEAN,
           a.changed \in BOOLEAN,
           NEW mark \in Marks, mark.plain => ~a.rebooted,
           mark.flips > 0 => a.changed,
           LinkTrue(a.odd, a.changed, unread + 1, Noted(mark, past, Span)),
           NEW stamp \in PR!Compared(a)
    PROVE  LET t == PR!Tracked(a, stamp)
               q == Noted(mark, past, Span)
           IN  /\ t \in Trackers /\ Tidy(t.events) /\ Len(t.events) <= FlapHistory
               /\ t.tracked => t.known
               /\ t.events # <<>> => t.tracked
               /\ Backed(t.events, q, 0)
               /\ t.tracked => Shown(t.events, q)
<1> DEFINE n     == PR!Transitions(a.odd, stamp)
           older == PR!Aged(tracker.events)
           more  == PR!Recorded(n, older)
           q     == Noted(mark, past, Span)
           base  == [tracker EXCEPT !.known = TRUE, !.zero = a.zero]
           t     == PR!Tracked(a, stamp)
<1>1. /\ stamp \in {"same", "earlier", "later"}
      /\ stamp = "later" => a.changed
      /\ ~a.rebooted /\ a.changed => stamp = "later"
  BY ComparedParts
<1>2. /\ tracker \in Trackers /\ Tidy(tracker.events)
      /\ tracker.tracked => tracker.known
      /\ tracker.events # <<>> => tracker.tracked
      /\ Len(tracker.events) <= FlapHistory
  BY DEF TrackerKept
<1>3. past \in Seq(Marks) /\ Backed(tracker.events, past, unread)
      /\ (tracker.tracked => Shown(tracker.events, past))
  BY DEF FlapsKept
<1>4. /\ more \in Seq(0..Window) /\ Tidy(more) /\ Len(more) <= FlapHistory
      /\ Backed(more, q, 0)
      /\ n > 0 => Shown(more, q)
      /\ Shown(tracker.events, past) /\ (mark.plain => mark.flips = 0) => Shown(more, q)
      /\ tracker.events = <<>> /\ ~(n > 0) => more = <<>>
  BY <1>1, <1>2, <1>3, RecordedKept
<1>5. stamp = "later" => n > 0
  BY <1>1, TransitionsParts
<1>6. ~(n > 0) => (mark.plain => mark.flips = 0)
  <2>1. mark.flips \in 0..2
    BY DEF Marks
  <2> QED
    BY <1>1, <1>5, <2>1
<1>7. t = IF ~tracker.known THEN base
          ELSE IF stamp = "earlier"
               THEN [base EXCEPT !.tracked = FALSE, !.events = <<>>]
               ELSE [base EXCEPT !.tracked = @ \/ n > 0, !.events = more]
  BY Zenon DEF PR!Tracked
<1> HIDE DEF n, older, more, q, t
<1>8. base \in Trackers /\ base.known = TRUE /\ base.tracked = tracker.tracked
      /\ base.events = tracker.events
  BY <1>2 DEF Trackers
<1> HIDE DEF base
<1>9. <<>> \in Seq(0..Window) /\ Tidy(<<>>) /\ Len(<<>>) = 0
  BY DEF Tidy
<1>10. CASE ~tracker.known
  <2>1. t = base /\ tracker.events = <<>> /\ ~tracker.tracked
    BY <1>2, <1>7, <1>10
  <2> QED
    BY <1>2, <1>8, <2>1, BackedNone DEF t, q
<1>11. CASE tracker.known /\ stamp = "earlier"
  <2>1. t = [base EXCEPT !.tracked = FALSE, !.events = <<>>]
    BY <1>7, <1>11
  <2>2. t \in Trackers /\ ~t.tracked /\ t.events = <<>>
    BY <1>8, <1>9, <2>1 DEF Trackers
  <2>3. FlapHistory \in Nat
    BY DEF PR!PortRulesAssumption
  <2> QED
    BY <1>9, <2>2, <2>3, BackedNone DEF t, q
<1>12. CASE tracker.known /\ stamp # "earlier"
  <2>1. t = [base EXCEPT !.tracked = @ \/ n > 0, !.events = more]
    BY <1>7, <1>12
  <2>2. t \in Trackers /\ t.tracked = (tracker.tracked \/ n > 0) /\ t.events = more
        /\ t.known
    BY <1>4, <1>8, <2>1 DEF Trackers
  <2>3. tracker.tracked \in BOOLEAN /\ (n > 0) \in BOOLEAN
    BY <1>2 DEF Trackers
  <2>4. t.events # <<>> => t.tracked
    BY <1>2, <1>4, <2>2, <2>3
  <2>5. t.tracked => Shown(t.events, q)
    BY <1>3, <1>4, <1>6, <2>2, <2>3
  <2> QED
    BY <1>4, <2>2, <2>4, <2>5 DEF t, q
<1> QED
  BY <1>10, <1>11, <1>12

\* ... and when it has not.
LEMMA TrackerAges ==
    ASSUME PR!PortRulesAssumption, TrackerKept, FlapsKept, NEW unread \in 0..MaxGap,
           unread = link.unread, NEW mark \in Marks, ~mark.plain
    PROVE  LET t == [tracker EXCEPT !.events = PR!Aged(@)]
               q == Noted(mark, past, Span)
           IN  /\ t \in Trackers /\ Tidy(t.events) /\ Len(t.events) <= FlapHistory
               /\ t.tracked => t.known
               /\ t.events # <<>> => t.tracked
               /\ Backed(t.events, q, unread + 1)
               /\ t.tracked => Shown(t.events, q)
<1> DEFINE older == PR!Aged(tracker.events)
           q     == Noted(mark, past, Span)
           t     == [tracker EXCEPT !.events = PR!Aged(@)]
<1>1. Window \in Nat /\ FlapHistory \in Nat /\ MaxGap \in Nat
  BY DEF PR!PortRulesAssumption
<1>2. /\ tracker \in Trackers /\ Tidy(tracker.events)
      /\ tracker.tracked => tracker.known
      /\ tracker.events # <<>> => tracker.tracked
      /\ Len(tracker.events) <= FlapHistory
  BY DEF TrackerKept
<1>3. past \in Seq(Marks) /\ Backed(tracker.events, past, unread)
      /\ (tracker.tracked => Shown(tracker.events, past))
  BY DEF FlapsKept
<1>4. Tidy(older) /\ Len(older) \in Nat /\ Len(older) <= Len(tracker.events)
  BY <1>1, <1>2, AgedParts
<1>5. Backed(older, q, unread + 1)
  <2>1. unread \in Nat
    BY <1>1
  <2> QED
    BY <1>2, <1>3, <2>1, BackedAged
<1>6. tracker.tracked => Shown(older, q)
  BY <1>2, <1>3, ShownAged
<1>7. tracker.events = <<>> => older = <<>>
  <2>1. older \in Seq(0..Window)
    BY <1>4 DEF Tidy
  <2>2. tracker.events = <<>> => Len(older) = 0
    BY <1>4
  <2> QED
    BY <2>1, <2>2
<1> HIDE DEF q
<1>8. t = [tracker EXCEPT !.events = older]
  OBVIOUS
<1> HIDE DEF older, t
<1>9. /\ t \in Trackers /\ t.events = older /\ t.tracked = tracker.tracked
      /\ t.known = tracker.known
  <2>1. older \in Seq(0..Window)
    BY <1>4 DEF Tidy
  <2> QED
    BY <1>2, <1>8, <2>1 DEF Trackers
<1>10. Len(older) <= FlapHistory
  <2>1. Len(tracker.events) \in Nat
    BY <1>2, TidyParts
  <2> QED
    BY <1>1, <1>2, <1>4, <2>1
<1> QED
  BY <1>2, <1>4, <1>5, <1>6, <1>7, <1>9, <1>10 DEF t, q

\* What the port has been through since it was read last.
LEMMA MovedParts ==
    ASSUME PR!PortRulesAssumption, link \in Links, NEW i \in PR!FlapInputs
    PROVE  LET a == PR!Moved(i)
           IN  /\ a.odd \in BOOLEAN /\ a.zero \in BOOLEAN /\ a.rebooted \in BOOLEAN
               /\ a.changed \in BOOLEAN /\ a.unread = link.unread + 1
               /\ a.odd <=> (link.odd # (i.flips = 1))
               /\ a.changed => link.changed \/ i.flips > 0
               /\ i.flips > 0 => a.changed
               /\ a = [odd |-> a.odd, zero |-> a.zero, rebooted |-> a.rebooted,
                       changed |-> a.changed, unread |-> a.unread]
<1>1. /\ link.odd \in BOOLEAN /\ link.zero \in BOOLEAN /\ link.rebooted \in BOOLEAN
      /\ link.changed \in BOOLEAN /\ link.unread \in 0..MaxGap
  BY DEF Links
<1>2. i.flips \in 0..2 /\ i.reboot \in BOOLEAN
  BY DEF PR!FlapInputs
<1> DEFINE b == i.flips = 1
           c == i.flips = 0
           d == i.flips > 0
<1>3. b \in BOOLEAN /\ c \in BOOLEAN /\ d \in BOOLEAN
  OBVIOUS
<1>4. PR!Moved(i) = [odd |-> link.odd # b, zero |-> (link.zero \/ i.reboot) /\ c,
                     rebooted |-> link.rebooted \/ i.reboot,
                     changed |-> (link.changed /\ ~i.reboot) \/ d,
                     unread |-> link.unread + 1]
  BY DEF PR!Moved
<1> HIDE DEF b, c, d
<1> DEFINE a == PR!Moved(i)
<1>5. /\ a.odd = (link.odd # b) /\ a.zero = ((link.zero \/ i.reboot) /\ c)
      /\ a.rebooted = (link.rebooted \/ i.reboot)
      /\ a.changed = ((link.changed /\ ~i.reboot) \/ d) /\ a.unread = link.unread + 1
      /\ a = [odd |-> a.odd, zero |-> a.zero, rebooted |-> a.rebooted,
              changed |-> a.changed, unread |-> a.unread]
  BY <1>4
<1> HIDE DEF a
<1>6. /\ a.odd \in BOOLEAN /\ a.zero \in BOOLEAN /\ a.rebooted \in BOOLEAN
      /\ a.changed \in BOOLEAN
  BY <1>1, <1>2, <1>3, <1>5, Zenon
<1>7. (a.odd <=> (link.odd # b)) /\ (a.changed => link.changed \/ d) /\ (d => a.changed)
  BY <1>1, <1>2, <1>3, <1>5, Zenon
<1> QED
  BY <1>5, <1>6, <1>7, Zenon DEF a, b, d

LEMMA FlapsFollow ==
    ASSUME PR!PortRulesAssumption, rule = "port_flapping", rule' = rule,
           open \in BOOLEAN, lost \in BOOLEAN, present \in BOOLEAN,
           link \in Links, TrackerKept, FlapsKept,
           NEW i \in PR!FlapInputs, PR!CheckFlaps(i)
    PROVE  Judged /\ link' \in Links /\ TrackerKept' /\ FlapsKept' /\ lost' \in BOOLEAN
<1> DEFINE a    == PR!Moved(i)
           mark == [flips |-> i.flips, plain |-> i.poll = "read" /\ ~a.rebooted]
           q    == Noted(mark, past, Span)
           unread == link.unread
<1>1. /\ a.odd \in BOOLEAN /\ a.zero \in BOOLEAN /\ a.rebooted \in BOOLEAN
      /\ a.changed \in BOOLEAN /\ a.unread = link.unread + 1
      /\ a.odd <=> (link.odd # (i.flips = 1))
      /\ a.changed => link.changed \/ i.flips > 0
      /\ i.flips > 0 => a.changed
      /\ a = [odd |-> a.odd, zero |-> a.zero, rebooted |-> a.rebooted,
              changed |-> a.changed, unread |-> a.unread]
  BY MovedParts
<1>2. /\ i.poll # "read" => unread < MaxGap
      /\ IF i.poll = "read"
         THEN \E stamp \in PR!Compared(a) :
                /\ tracker' = PR!Tracked(a, stamp)
                /\ lost' = ((lost \/ stamp = "earlier") /\ tracker'.events = <<>>)
         ELSE /\ tracker' = [tracker EXCEPT !.events = PR!Aged(@)]
              /\ lost' = lost
      /\ link' = IF i.poll = "read"
                 THEN [a EXCEPT !.odd = FALSE, !.rebooted = FALSE,
                                !.changed = FALSE, !.unread = 0]
                 ELSE a
      /\ IF i.poll = "none" THEN PR!Stays ELSE PR!OnFlaps
      /\ past' = q
  BY Zenon DEF PR!CheckFlaps, Noted, Span
<1>3. i.flips \in 0..2 /\ i.poll \in {"none", "others", "read"}
  BY DEF PR!FlapInputs
<1>4. mark \in Marks /\ mark.flips = i.flips /\ (mark.plain => i.poll = "read" /\ ~a.rebooted)
  BY <1>3 DEF Marks
<1>5. /\ Window \in Nat /\ MaxGap \in Nat /\ Span \in Nat \ {0} /\ Threshold \in Nat
  BY DEF PR!PortRulesAssumption, Span
<1>6. link.odd \in BOOLEAN /\ link.changed \in BOOLEAN /\ unread \in 0..MaxGap
  BY DEF Links
<1>7. past \in Seq(Marks) /\ LinkTrue(link.odd, link.changed, unread, past)
  BY DEF FlapsKept
<1> HIDE DEF a, mark, q, unread
<1>8. q \in Seq(Marks) /\ Len(q) <= Span
  <2>1. Span \in Nat \ {0}
    BY <1>5
  <2> QED
    BY <1>4, <1>7, <2>1, NotedFirst DEF q, Headed
<1>9. LinkTrue(a.odd, a.changed, unread + 1, q)
  BY <1>1, <1>4, <1>6, <1>7, LinkMoves DEF q
<1> DEFINE Follows ==
       /\ tracker' \in Trackers /\ Tidy(tracker'.events) /\ Len(tracker'.events) <= FlapHistory
       /\ tracker'.tracked => tracker'.known
       /\ tracker'.events # <<>> => tracker'.tracked
       /\ Backed(tracker'.events, q, link'.unread)
       /\ tracker'.tracked => Shown(tracker'.events, q)
       /\ link' \in Links /\ LinkTrue(link'.odd, link'.changed, link'.unread, q)
       /\ lost' \in BOOLEAN
<1>10. ASSUME i.poll = "read" PROVE Follows
  <2>1. PICK stamp \in PR!Compared(a) :
            /\ tracker' = PR!Tracked(a, stamp)
            /\ lost' = ((lost \/ stamp = "earlier") /\ tracker'.events = <<>>)
    BY <1>2, <1>10
  <2>2. mark.flips > 0 => a.changed
    BY <1>1, <1>4
  <2>3. /\ tracker' \in Trackers /\ Tidy(tracker'.events) /\ Len(tracker'.events) <= FlapHistory
        /\ tracker'.tracked => tracker'.known
        /\ tracker'.events # <<>> => tracker'.tracked
        /\ Backed(tracker'.events, q, 0)
        /\ tracker'.tracked => Shown(tracker'.events, q)
    BY <1>1, <1>4, <1>6, <1>9, <2>1, <2>2, TrackerReads DEF q, unread
  <2>4. /\ link' \in Links /\ link'.odd = FALSE /\ link'.changed = FALSE
        /\ link'.unread = 0
    <3>1. link' = [a EXCEPT !.odd = FALSE, !.rebooted = FALSE, !.changed = FALSE,
                            !.unread = 0]
      BY <1>2, <1>10
    <3>2. link' = [odd |-> FALSE, zero |-> a.zero, rebooted |-> FALSE,
                   changed |-> FALSE, unread |-> 0]
      BY <1>1, <3>1
    <3>3. 0 \in 0..MaxGap
      BY <1>5
    <3> QED
      BY <1>1, <3>2, <3>3 DEF Links
  <2>5. LinkTrue(link'.odd, link'.changed, link'.unread, q)
    BY <2>4, LinkRead
  <2>6. lost' \in BOOLEAN
    BY <2>1
  <2> QED
    BY <2>3, <2>4, <2>5, <2>6
<1>11. ASSUME i.poll # "read" PROVE Follows
  <2>1. tracker' = [tracker EXCEPT !.events = PR!Aged(@)] /\ lost' = lost /\ link' = a
    BY <1>2, <1>11
  <2>2. ~mark.plain
    BY <1>4, <1>11
  <2>3. /\ tracker' \in Trackers /\ Tidy(tracker'.events) /\ Len(tracker'.events) <= FlapHistory
        /\ tracker'.tracked => tracker'.known
        /\ tracker'.events # <<>> => tracker'.tracked
        /\ Backed(tracker'.events, q, unread + 1)
        /\ tracker'.tracked => Shown(tracker'.events, q)
    BY <1>4, <1>6, <2>1, <2>2, TrackerAges DEF q, unread
  <2>4. link' \in Links /\ link'.unread = unread + 1
    <3>1. a.unread \in 0..MaxGap /\ a.unread = unread + 1
      BY <1>1, <1>2, <1>5, <1>6, <1>11 DEF unread
    <3> QED
      BY <1>1, <2>1, <3>1 DEF Links
  <2> QED
    BY <1>9, <2>1, <2>3, <2>4
<1>12. Follows
  BY <1>10, <1>11
<1>13. TrackerKept' /\ FlapsKept'
  BY <1>2, <1>8, <1>12 DEF TrackerKept, FlapsKept
<1>14. Judged
  <2>1. CASE i.poll = "none"
    BY <1>2, <2>1, StaysJudged
  <2>2. CASE i.poll # "none"
    <3> DEFINE Seen == PR!Reported
               high == PR!Flaps >= Threshold
               none == PR!Flaps = 0
               b    == (Seen /\ high) \/ (open /\ ~(Seen /\ none))
    <3>1. Seen \in BOOLEAN /\ (Seen => present /\ tracker'.tracked)
      BY <1>12 DEF PR!Reported, Trackers
    <3>2. PR!Becomes(b)
      BY <1>2, <2>2 DEF PR!OnFlaps
    <3>3. tracker'.events \in Seq(0..Window) /\ PR!Flaps = Len(tracker'.events)
          /\ PR!Flaps \in Nat
      BY <1>12 DEF Tidy, PR!Flaps
    <3>4. high => PR!Loud'
      <4>1. Len(tracker'.events) <= PR!FlipsOf(q) /\ PR!FlipsOf(q) \in Nat
        BY <1>8, <1>12, <3>3, BackedCount
      <4>2. high => PR!FlipsOf(past') >= Threshold
        BY <1>2, <1>5, <3>3, <4>1
      <4> QED
        BY <4>2 DEF PR!Loud
    <3>5. Seen /\ none => PR!Quiet'
      <4>1. SUFFICES ASSUME Seen, none PROVE PR!Quiet'
        OBVIOUS
      <4>2. tracker'.events = <<>>
        <5> DEFINE S == 0..Window
                   e == tracker'.events
        <5>1. e \in Seq(S) /\ Len(e) = 0
          BY <3>3, <4>1
        <5> HIDE DEF S, e
        <5>2. e = <<>>
          BY <5>1
        <5> QED
          BY <5>2 DEF e
      <4>3. Shown(<<>>, q)
        BY <1>12, <3>1, <4>1, <4>2
      <4>4. \/ PR!FlipsOf(PR!Latest(past', Window + 1)) = 0
            \/ \E j \in DOMAIN PR!Latest(past', Window + 1) : ~past'[j].plain
        BY <1>2, <1>5, <1>8, <4>3, NoneShown
      <4> QED
        BY <4>4 DEF PR!Quiet
    <3>6. high \in BOOLEAN /\ none \in BOOLEAN
      OBVIOUS
    <3> HIDE DEF Seen, high, none
    <3>7. b \in BOOLEAN
      OBVIOUS
    <3>8. ~present => b = open
      BY <3>1
    <3>9. b /\ ~open => PR!Loud'
      BY <3>4
    <3>10. open /\ ~b => present /\ PR!Quiet'
      BY <3>1, <3>5
    <3> HIDE DEF b
    <3> QED
      BY <3>2, <3>7, <3>8, <3>9, <3>10, BecomesJudged
  <2> QED
    BY <2>1, <2>2
<1> QED
  BY <1>12, <1>13, <1>14

-----------------------------------------------------------------------------
(* The rows of the other rules *)

CountersTyped == /\ above \in 0..Cycles /\ below \in 0..Cycles
                 /\ above = 0 \/ below = 0
RowsKept ==
    /\ past \in Seq(PointRecords) /\ Len(past) <= Cycles
    /\ above <= Len(past) /\ below <= Len(past)
    /\ \A j \in 1..above : past[j] \in Loud
    /\ \A j \in 1..below : past[j] \in Quiet
    /\ rule = "loop_detected" => above = 0
    /\ rule \in {"loop_detected", "lag_degraded"} => below = 0

LEMMA CountedAlike == \A n, bound : PR!AtMost(n, bound) = CR!AtMost(n, bound)
BY DEF PR!AtMost, CR!AtMost

\* The row of a point that says as much grows.
LEMMA OneMore ==
    ASSUME Cycles \in Nat \ {0}, NEW Says, NEW p \in PointRecords, p \in Says,
           NEW s \in Seq(PointRecords), NEW row \in 0..Cycles, row <= Len(s),
           \A j \in 1..row : s[j] \in Says
    PROVE  LET q    == Noted(p, s, Cycles)
               more == PR!AtMost(row + 1, Cycles)
           IN  /\ more \in 0..Cycles /\ more <= Len(q)
               /\ \A j \in 1..more : q[j] \in Says
<1> DEFINE q == Noted(p, s, Cycles)
<1>0. q \in Seq(PointRecords) /\ Headed(q, p, s, Cycles)
  BY NotedFirst
<1>1. /\ q \in Seq(PointRecords) /\ Len(q) \in Nat /\ Len(q) <= Cycles
      /\ Len(q) = Len(s) + 1 \/ (Len(q) = Cycles /\ Cycles <= Len(s) + 1)
      /\ q[1] = p /\ Len(q) >= 1
      /\ \A j \in 2..Len(q) : j - 1 \in 1..Len(s) /\ q[j] = s[j - 1]
  BY <1>0 DEF Headed
<1>2. Len(s) \in Nat
  OBVIOUS
<1> HIDE DEF q
<1>3. Len(q) = Len(s) + 1 \/ Len(q) = Cycles
  BY <1>1
<1>4. \A j \in 2..Len(q) : q[j] = s[j - 1]
  BY <1>1
<1>5. Len(q) \in Nat /\ q[1] = p
  BY <1>1
<1> QED
  BY <1>2, <1>3, <1>4, <1>5, RowGrows, CountedAlike DEF q

LEMMA FullRow ==
    ASSUME Cycles \in Nat \ {0}, NEW q \in Seq(PointRecords), Len(q) <= Cycles,
           NEW row \in 0..Cycles, row <= Len(q), row >= Cycles
    PROVE  /\ (\A j \in 1..row : q[j] \in Loud) => PR!Row(q, PR!LoudPoint)
           /\ (\A j \in 1..row : q[j] \in Quiet) => PR!Row(q, PR!QuietPoint)
<1>1. Len(q) \in Nat /\ DOMAIN q = 1..Len(q)
  OBVIOUS
<1>2. row = Cycles /\ Len(q) = Cycles
  <2> DEFINE n == Len(q)
  <2>1. n \in Nat /\ row \in Nat /\ n <= Cycles /\ row <= n /\ row >= Cycles
    BY <1>1
  <2> HIDE DEF n
  <2>2. row = Cycles /\ n = Cycles
    BY <2>1
  <2> QED
    BY <2>2 DEF n
<1>3. ASSUME \A j \in 1..row : q[j] \in Loud PROVE PR!Row(q, PR!LoudPoint)
  BY <1>1, <1>2, <1>3 DEF PR!Row, PR!All, PR!LoudPoint, Loud
<1>4. ASSUME \A j \in 1..row : q[j] \in Quiet PROVE PR!Row(q, PR!QuietPoint)
  BY <1>1, <1>2, <1>4 DEF PR!Row, PR!All, PR!QuietPoint, Quiet
<1> QED
  BY <1>3, <1>4

LEMMA HysteresisKeeps ==
    ASSUME PR!PortRulesAssumption, CountersTyped, RowsKept, open \in BOOLEAN,
           present = TRUE, rule \in {"port_util", "port_errors"}, rule' = rule,
           NEW high \in BOOLEAN, NEW point \in PointRecords,
           high => point.mayRaise, ~high => point.mayClear,
           PR!Hysteresis(high, point)
    PROVE  Judged /\ CountersTyped' /\ RowsKept'
<1> DEFINE q == Noted(point, past, Cycles)
<1>1. Cycles \in Nat \ {0}
  BY DEF PR!PortRulesAssumption
<1>2. /\ above' = (IF high THEN PR!AtMost(above + 1, Cycles) ELSE 0)
      /\ below' = (IF high THEN 0 ELSE PR!AtMost(below + 1, Cycles))
      /\ PR!Becomes(above' >= Cycles \/ (open /\ below' < Cycles))
      /\ past' = q
  BY DEF PR!Hysteresis, Noted
<1>3. /\ past \in Seq(PointRecords) /\ above <= Len(past) /\ below <= Len(past)
      /\ above \in 0..Cycles /\ below \in 0..Cycles
      /\ \A j \in 1..above : past[j] \in Loud
      /\ \A j \in 1..below : past[j] \in Quiet
  BY DEF RowsKept, CountersTyped
<1>4. q \in Seq(PointRecords) /\ Len(q) \in Nat /\ Len(q) <= Cycles
  <2>1. q \in Seq(PointRecords) /\ Headed(q, point, past, Cycles)
    BY <1>1, <1>3, NotedFirst
  <2> QED
    BY <2>1 DEF Headed
<1>5. high => /\ PR!AtMost(above + 1, Cycles) \in 0..Cycles
              /\ PR!AtMost(above + 1, Cycles) <= Len(q)
              /\ \A j \in 1..PR!AtMost(above + 1, Cycles) : q[j] \in Loud
  <2>1. high => point \in Loud
    BY DEF Loud
  <2> QED
    BY <1>1, <1>3, <2>1, OneMore
<1>6. ~high => /\ PR!AtMost(below + 1, Cycles) \in 0..Cycles
               /\ PR!AtMost(below + 1, Cycles) <= Len(q)
               /\ \A j \in 1..PR!AtMost(below + 1, Cycles) : q[j] \in Quiet
  <2>1. ~high => point \in Quiet
    BY DEF Quiet
  <2> QED
    BY <1>1, <1>3, <2>1, OneMore
<1> HIDE DEF q
<1>7. /\ above' \in 0..Cycles /\ below' \in 0..Cycles /\ (above' = 0 \/ below' = 0)
      /\ above' <= Len(q) /\ below' <= Len(q)
      /\ \A j \in 1..above' : q[j] \in Loud
      /\ \A j \in 1..below' : q[j] \in Quiet
  <2>1. CASE high
    BY <1>1, <1>2, <1>4, <1>5, <2>1
  <2>2. CASE ~high
    BY <1>1, <1>2, <1>4, <1>6, <2>2
  <2> QED
    BY <2>1, <2>2
<1>8. CountersTyped' /\ RowsKept'
  BY <1>2, <1>4, <1>7 DEF CountersTyped, RowsKept
<1>9. above' >= Cycles => PR!Loud'
  <2>1. above' >= Cycles => PR!Row(past', PR!LoudPoint)
    BY <1>1, <1>2, <1>4, <1>7, FullRow
  <2> QED
    BY <2>1 DEF PR!Loud
<1>10. ~(below' < Cycles) => PR!Quiet'
  <2>1. ~(below' < Cycles) => PR!Row(past', PR!QuietPoint)
    BY <1>1, <1>2, <1>4, <1>7, FullRow
  <2> QED
    BY <2>1 DEF PR!Quiet
<1>11. Judged
  <2> DEFINE b == above' >= Cycles \/ (open /\ below' < Cycles)
  <2>1. b \in BOOLEAN /\ PR!Becomes(b)
    BY <1>2
  <2>2. (b /\ ~open => PR!Loud') /\ (open /\ ~b => present /\ PR!Quiet')
    BY <1>9, <1>10
  <2> HIDE DEF b
  <2> QED
    BY <2>1, <2>2, BecomesJudged
<1> QED
  BY <1>8, <1>11

LEMMA NothingKeeps ==
    ASSUME open \in BOOLEAN, RowsKept, CountersTyped, rule' = rule, PR!Nothing
    PROVE  Judged /\ CountersTyped' /\ RowsKept'
<1>1. PR!Stays /\ above' = above /\ below' = below /\ past' = past
  BY DEF PR!Nothing
<1> QED
  BY <1>1, StaysJudged DEF CountersTyped, RowsKept

LEMMA LagRuleKeeps ==
    ASSUME PR!PortRulesAssumption, CountersTyped, RowsKept, open \in BOOLEAN,
           present = TRUE, rule = "lag_degraded", rule' = rule, NEW i, PR!LagRule(i)
    PROVE  Judged /\ CountersTyped' /\ RowsKept'
<1> DEFINE down  == PR!SeenNow(i) # Members
           point == [mayRaise |-> i.up # Members \/ PR!Stale(i),
                     mayClear |-> i.up = Members \/ PR!Stale(i)]
           q     == Noted(point, past, Cycles)
<1>1. Cycles \in Nat \ {0}
  BY DEF PR!PortRulesAssumption
<1>2. /\ above' = (IF down THEN PR!AtMost(above + 1, Cycles) ELSE 0)
      /\ PR!Becomes(down /\ (open \/ above' >= Cycles))
      /\ past' = q /\ below' = below
  BY DEF PR!LagRule, Noted
<1>3. /\ past \in Seq(PointRecords) /\ above <= Len(past) /\ below <= Len(past)
      /\ above \in 0..Cycles /\ below \in 0..Cycles
      /\ \A j \in 1..above : past[j] \in Loud
  BY DEF RowsKept, CountersTyped
<1>4. point \in PointRecords /\ (down => point.mayRaise) /\ (~down => point.mayClear)
  BY DEF PointRecords, PR!Stale
<1>5. below = 0
  BY DEF RowsKept
<1>6. /\ q \in Seq(PointRecords) /\ Len(q) \in Nat /\ Len(q) <= Cycles
      /\ Len(q) >= 1 /\ q[1] = point
  <2>1. q \in Seq(PointRecords) /\ Headed(q, point, past, Cycles)
    BY <1>1, <1>3, <1>4, NotedFirst
  <2> QED
    BY <2>1 DEF Headed
<1>7. down => /\ PR!AtMost(above + 1, Cycles) \in 0..Cycles
              /\ PR!AtMost(above + 1, Cycles) <= Len(q)
              /\ \A j \in 1..PR!AtMost(above + 1, Cycles) : q[j] \in Loud
  <2>1. down => point \in Loud
    BY <1>4 DEF Loud
  <2> QED
    BY <1>1, <1>3, <1>4, <2>1, OneMore
<1>8. down \in BOOLEAN
  BY DEF down
<1> HIDE DEF point, down, q
<1>9. /\ above' \in 0..Cycles /\ above' <= Len(q)
      /\ \A j \in 1..above' : q[j] \in Loud
  <2>1. CASE down
    BY <1>2, <1>7, <2>1
  <2>2. CASE ~down
    BY <1>1, <1>2, <1>6, <2>2
  <2> QED
    BY <2>1, <2>2
<1>10. CountersTyped' /\ RowsKept'
  BY <1>1, <1>2, <1>5, <1>6, <1>9 DEF CountersTyped, RowsKept
<1>11. above' >= Cycles => PR!Loud'
  <2>1. above' >= Cycles => PR!Row(past', PR!LoudPoint)
    BY <1>1, <1>2, <1>6, <1>9, FullRow
  <2> QED
    BY <2>1 DEF PR!Loud
<1>12. ~down => PR!Quiet'
  <2>1. ~down => past'[1].mayClear
    BY <1>2, <1>4, <1>6
  <2> QED
    BY <2>1 DEF PR!Quiet
<1>13. Judged
  <2> DEFINE b == down /\ (open \/ above' >= Cycles)
  <2>1. b \in BOOLEAN /\ PR!Becomes(b)
    BY <1>2, <1>8
  <2>2. (b /\ ~open => PR!Loud') /\ (open /\ ~b => present /\ PR!Quiet')
    BY <1>11, <1>12
  <2> HIDE DEF b
  <2> QED
    BY <2>1, <2>2, BecomesJudged
<1> QED
  BY <1>10, <1>13

LEMMA LagUtilKeeps ==
    ASSUME PR!PortRulesAssumption, CountersTyped, RowsKept, open \in BOOLEAN,
           present = TRUE, rule = "port_util", rule' = rule,
           NEW i \in PR!LagInputs, PR!LagUtilRule(i)
    PROVE  Judged /\ CountersTyped' /\ RowsKept'
<1> DEFINE known   == {m \in i.loaded : i.rates[m] = "known"}
           high    == PR!LagOver(PR!Cardinality(i.loaded), i.up)
           partial == \E m \in Members : i.rates[m] = "none"
           stale   == PR!Stale(i)
           point   == [mayRaise |-> high \/ stale, mayClear |-> ~high \/ partial \/ stale]
<1>1. /\ i.up \in SUBSET Members /\ i.loaded \in SUBSET Members
      /\ i.rates \in [Members -> {"known", "unknown", "none"}]
  BY DEF PR!LagInputs
<1>2. IsFiniteSet(Members)
  BY DEF PR!PortRulesAssumption, PR!IsFiniteSet, IsFiniteSet
<1>3. /\ IsFiniteSet(i.loaded) /\ IsFiniteSet(i.up) /\ known \in SUBSET i.loaded
      /\ Cardinality(i.loaded) \in Nat /\ Cardinality(i.up) \in Nat
      /\ Cardinality(known) \in Nat /\ Cardinality(known) <= Cardinality(i.loaded)
  BY <1>1, <1>2, FS_Subset, FS_CardinalityType
<1>4. CASE PR!LagRate(i) = {}
  <2>1. PR!Nothing
    BY <1>4 DEF PR!LagUtilRule
  <2> QED
    BY <2>1, NothingKeeps
<1>5. CASE PR!LagRate(i) # {}
  <2>1. PICK load \in PR!LagRate(i) :
            PR!Hysteresis(PR!LagOver(load, PR!SeenNow(i)), point)
    BY <1>5 DEF PR!LagUtilRule
  <2> DEFINE now == PR!LagOver(load, PR!SeenNow(i))
  <2>2. load = Cardinality(known) /\ ~(\E m \in Members : i.rates[m] = "unknown")
    BY CountsAlike DEF PR!LagRate
  <2>3. ~partial => known = i.loaded
    BY <1>1, <2>2
  <2>4. now = (2 * load > Cardinality(PR!SeenNow(i)))
    BY CountsAlike DEF PR!LagOver
  <2>5. high = (2 * Cardinality(i.loaded) > Cardinality(i.up))
    BY CountsAlike DEF PR!LagOver
  <2>6. ~stale => PR!SeenNow(i) = i.up
    BY DEF PR!Stale
  <2> HIDE DEF known
  <2>7. now \in BOOLEAN /\ high \in BOOLEAN /\ partial \in BOOLEAN /\ stale \in BOOLEAN
    BY <2>4, <2>5 DEF PR!Stale
  <2>8. now => high \/ stale
    BY <1>3, <2>2, <2>4, <2>5, <2>6
  <2>9. ~now => ~high \/ partial \/ stale
    BY <1>3, <2>2, <2>3, <2>4, <2>5, <2>6
  <2>10. PR!Hysteresis(now, point)
    BY <2>1
  <2> HIDE DEF now, high, partial, stale
  <2>11. point \in PointRecords /\ (now => point.mayRaise) /\ (~now => point.mayClear)
    BY <2>7, <2>8, <2>9 DEF PointRecords
  <2> HIDE DEF point
  <2> QED
    BY <2>7, <2>10, <2>11, HysteresisKeeps
<1> QED
  BY <1>4, <1>5

LEMMA LagCycleKeeps ==
    ASSUME PR!PortRulesAssumption, CountersTyped, RowsKept, open \in BOOLEAN,
           present \in BOOLEAN, rule \in {"lag_degraded", "port_util"}, rule' = rule,
           seen \in SUBSET Members, NEW i \in PR!LagInputs, PR!LagCycle(i)
    PROVE  Judged /\ CountersTyped' /\ RowsKept' /\ seen' \in SUBSET Members
<1>1. i.up \in SUBSET Members /\ i.read \in SUBSET Members
  BY DEF PR!LagInputs
<1>2. PR!SeenNow(i) \in SUBSET Members
  BY <1>1 DEF PR!SeenNow
<1>3. seen' \in SUBSET Members
  BY <1>2 DEF PR!LagCycle
<1>4. CASE PR!Nothing
  BY <1>3, <1>4, NothingKeeps
<1>5. CASE ~PR!Nothing
  <2>1. /\ present
        /\ IF rule = "lag_degraded" THEN PR!LagRule(i) ELSE PR!LagUtilRule(i)
    BY <1>5 DEF PR!LagCycle
  <2>2. present = TRUE
    BY <2>1
  <2>3. CASE rule = "lag_degraded"
    BY <1>3, <2>1, <2>2, <2>3, LagRuleKeeps
  <2>4. CASE rule # "lag_degraded"
    BY <1>3, <2>1, <2>2, <2>4, LagUtilKeeps
  <2> QED
    BY <2>3, <2>4
<1> QED
  BY <1>4, <1>5

\* The kinds of traffic an interval may have had.
LEMMA IntervalParts ==
    ASSUME since \in SUBSET (PR!Traffic \cup {"reset"}), NEW i \in PR!ErrorInputs
    PROVE  /\ PR!Interval(i) \in SUBSET (PR!Traffic \cup {"reset"})
           /\ PR!Interval(i) # {"reset"} => PR!Interval(i) \in SUBSET PR!Traffic
<1> DEFINE kinds == since \cup {i.traffic}
<1>1. i.traffic \in PR!Traffic /\ i.reset \in BOOLEAN
  BY DEF PR!ErrorInputs
<1>2. CASE i.reset \/ "reset" \in since
  BY <1>2 DEF PR!Interval
<1>3. CASE ~(i.reset \/ "reset" \in since)
  <2>1. kinds \in SUBSET PR!Traffic
    BY <1>1, <1>3
  <2>2. PR!Interval(i) = IF PR!Cardinality(kinds) = 1 THEN kinds
                         ELSE {"busy", "faulty"} \cup (kinds \cap {"clean"})
    BY <1>3 DEF PR!Interval
  <2>3. {"busy", "faulty", "clean"} \in SUBSET PR!Traffic
    BY DEF PR!Traffic
  <2> HIDE DEF kinds
  <2>4. PR!Interval(i) \in SUBSET PR!Traffic
    BY <2>1, <2>2, <2>3
  <2> QED
    BY <2>4
<1> QED
  BY <1>2, <1>3

LEMMA ErrorRuleKeeps ==
    ASSUME PR!PortRulesAssumption, CountersTyped, RowsKept, open \in BOOLEAN,
           present = TRUE, rule = "port_errors", rule' = rule,
           since \in SUBSET (PR!Traffic \cup {"reset"}),
           NEW i \in PR!ErrorInputs, PR!ErrorRule(i)
    PROVE  Judged /\ CountersTyped' /\ RowsKept'
<1>1. CASE PR!Nothing
  BY <1>1, NothingKeeps
<1>2. CASE ~PR!Nothing /\ PR!Interval(i) = {"reset"}
  <2> DEFINE point == [mayRaise |-> TRUE, mayClear |-> TRUE]
  <2>1. PICK high \in BOOLEAN : PR!Hysteresis(high, point)
    BY <1>2, Zenon DEF PR!ErrorRule
  <2>2. point \in PointRecords /\ point.mayRaise /\ point.mayClear
    BY DEF PointRecords
  <2> HIDE DEF point
  <2> QED
    BY <2>1, <2>2, HysteresisKeeps
<1>3. CASE ~PR!Nothing /\ PR!Interval(i) # {"reset"}
  <2>1. PR!Known("errors", i)
    BY <1>3 DEF PR!ErrorRule
  <2>2. PICK kind \in PR!Interval(i) :
            PR!Hysteresis(PR!ErrorsOver(kind, i),
                [mayRaise |-> kind \in {"faulty", "dead"}
                              \/ (kind = "busy" /\ "packets" \notin i.poll \cap sample),
                 mayClear |-> kind \in {"clean", "busy"}])
    BY <1>3, <2>1, Zenon DEF PR!ErrorRule
  <2> DEFINE high  == PR!ErrorsOver(kind, i)
             loud  == kind \in {"faulty", "dead"}
                      \/ (kind = "busy" /\ "packets" \notin i.poll \cap sample)
             quiet == kind \in {"clean", "busy"}
             point == [mayRaise |-> loud, mayClear |-> quiet]
  <2>3. kind \in {"clean", "busy", "faulty", "dead"}
    BY <1>3, IntervalParts DEF PR!Traffic
  <2>4. high \in BOOLEAN /\ loud \in BOOLEAN /\ quiet \in BOOLEAN
    BY DEF PR!ErrorsOver
  <2>5. high => loud
    BY <2>1, <2>3 DEF PR!ErrorsOver, PR!Known
  <2>6. ~high => quiet
    BY <2>1, <2>3 DEF PR!ErrorsOver, PR!Known
  <2>7. PR!Hysteresis(high, point)
    BY <2>2
  <2> HIDE DEF high, loud, quiet
  <2>8. point \in PointRecords /\ (high => point.mayRaise) /\ (~high => point.mayClear)
    BY <2>4, <2>5, <2>6 DEF PointRecords
  <2> HIDE DEF point
  <2> QED
    BY <2>4, <2>7, <2>8, HysteresisKeeps
<1> QED
  BY <1>1, <1>2, <1>3

Samples == {PR!NoSample} \cup SUBSET {"errors", "packets"}

LEMMA ErrorCycleKeeps ==
    ASSUME PR!PortRulesAssumption, CountersTyped, RowsKept, open \in BOOLEAN,
           present \in BOOLEAN, rule = "port_errors", rule' = rule,
           sample \in Samples, since \in SUBSET (PR!Traffic \cup {"reset"}),
           NEW i \in PR!ErrorInputs, PR!ErrorCycle(i)
    PROVE  /\ Judged /\ CountersTyped' /\ RowsKept'
           /\ sample' \in Samples /\ since' \in SUBSET (PR!Traffic \cup {"reset"})
<1>1. PR!Interval(i) \in SUBSET (PR!Traffic \cup {"reset"})
  BY IntervalParts
<1>2. i.poll \in {PR!Missing, {"errors"}, {"packets"}, {"errors", "packets"}}
  BY DEF PR!ErrorInputs
<1>3. sample' \in Samples /\ since' \in SUBSET (PR!Traffic \cup {"reset"})
  <2>1. CASE i.poll = PR!Missing
    BY <1>1, <2>1 DEF PR!ErrorCycle, PR!Nothing
  <2>2. CASE i.poll # PR!Missing
    <3>1. since' = {} /\ sample' = i.poll
      BY <2>2 DEF PR!ErrorCycle
    <3>2. i.poll \in SUBSET {"errors", "packets"}
      BY <1>2, <2>2
    <3> QED
      BY <3>1, <3>2 DEF Samples
  <2> QED
    BY <2>1, <2>2
<1>4. CASE PR!Nothing
  BY <1>3, <1>4, NothingKeeps
<1>5. CASE ~PR!Nothing
  <2>1. present = TRUE /\ PR!ErrorRule(i)
    BY <1>5 DEF PR!ErrorCycle
  <2> QED
    BY <1>3, <2>1, ErrorRuleKeeps
<1> QED
  BY <1>4, <1>5

LEMMA LoopCycleKeeps ==
    ASSUME PR!PortRulesAssumption, CountersTyped, RowsKept, open \in BOOLEAN,
           present \in BOOLEAN, rule = "loop_detected", rule' = rule,
           NEW i \in PR!LoopInputs, PR!LoopCycle(i)
    PROVE  Judged /\ CountersTyped' /\ RowsKept'
<1> DEFINE looped == i.looped = "yes"
           clear  == i.looped = "no" /\ i.watched # "no"
           point  == [mayRaise |-> looped, mayClear |-> clear]
<1>1. Cycles \in Nat \ {0}
  BY DEF PR!PortRulesAssumption
<1>2. /\ IF PR!LoopSpeaks(i) THEN PR!Becomes(looped) ELSE PR!Stays
      /\ past' = <<point>> /\ above' = above /\ below' = below
  BY Zenon DEF PR!LoopCycle
<1>3. point \in PointRecords /\ point.mayRaise = looped /\ point.mayClear = clear
  BY DEF PointRecords
<1>4. above = 0 /\ below = 0
  BY DEF RowsKept
<1>5. looped \in BOOLEAN
  OBVIOUS
<1>6. PR!LoopSpeaks(i) => present /\ (~looped => clear)
  <2>1. i.looped \in {"yes", "no", "unknown"}
    BY DEF PR!LoopInputs, PR!Tri
  <2> QED
    BY <2>1 DEF PR!LoopSpeaks
<1> HIDE DEF looped, clear, point
<1>7. past' \in Seq(PointRecords) /\ Len(past') = 1 /\ past'[1] = point
      /\ DOMAIN past' = 1..1
  BY <1>2, <1>3
<1>8. CountersTyped' /\ RowsKept'
  BY <1>1, <1>2, <1>4, <1>7 DEF CountersTyped, RowsKept
<1>9. Judged
  <2>1. CASE ~PR!LoopSpeaks(i)
    BY <1>2, <2>1, StaysJudged
  <2>2. CASE PR!LoopSpeaks(i)
    <3>1. PR!Becomes(looped)
      BY <1>2, <2>2
    <3>2. looped /\ ~open => PR!Loud'
      <4>1. looped => PR!All(past', PR!LoudPoint)
        <5>1. ASSUME looped, NEW j \in DOMAIN past' PROVE past'[j].mayRaise
          <6>1. j = 1
            BY <1>7, <5>1
          <6> QED
            BY <1>3, <1>7, <5>1, <6>1
        <5> QED
          BY <5>1 DEF PR!All, PR!LoudPoint
      <4> QED
        BY <4>1 DEF PR!Loud
    <3>3. open /\ ~looped => present /\ PR!Quiet'
      <4>1. ~looped => past'[1].mayClear
        BY <1>3, <1>6, <1>7, <2>2
      <4> QED
        BY <1>6, <2>2, <4>1 DEF PR!Quiet
    <3>4. ~present => looped = open
      BY <1>6, <2>2
    <3> QED
      BY <1>5, <3>1, <3>2, <3>3, <3>4, BecomesJudged
  <2> QED
    BY <2>1, <2>2
<1> QED
  BY <1>8, <1>9

-----------------------------------------------------------------------------
(* The cycle, the janitor and the rest *)

RulesKept == IF rule = "port_flapping" THEN FlapsKept ELSE RowsKept
MemoryKept ==
    /\ link \in Links /\ TrackerKept /\ lost \in BOOLEAN
    /\ seen \in SUBSET Members /\ sample \in Samples
    /\ since \in SUBSET (PR!Traffic \cup {"reset"})
    /\ CountersTyped /\ RulesKept
\* The janitor has not missed an open alarm's subject more often than it was gone.
JanitorKept ==
    /\ missing \in 0..(JanitorCycles - 1) /\ gone \in 0..JanitorCycles
    /\ open /\ rule \in PR!JanitorTypes => missing <= gone
PortInv ==
    /\ rule \in Rules /\ scanned \in BOOLEAN /\ present \in BOOLEAN
    /\ open \in BOOLEAN /\ parity \in BOOLEAN
    /\ MemoryKept /\ JanitorKept

LEMMA RulesJudge ==
    ASSUME PR!PortRulesAssumption, rule \in Rules, rule' = rule, present \in BOOLEAN,
           open \in BOOLEAN, MemoryKept, NEW i \in PR!Inputs, PR!Judge(i)
    PROVE  Judged /\ MemoryKept'
<1>1. rule \in {"port_flapping", "lag_degraded", "port_util", "port_errors",
                "loop_detected"}
  BY DEF PR!PortRulesAssumption, PR!AllRules
<1>2. /\ link \in Links /\ TrackerKept /\ lost \in BOOLEAN
      /\ seen \in SUBSET Members /\ sample \in Samples
      /\ since \in SUBSET (PR!Traffic \cup {"reset"})
      /\ CountersTyped
      /\ rule = "port_flapping" => FlapsKept
      /\ rule # "port_flapping" => RowsKept
  BY DEF MemoryKept, RulesKept
<1>3. CASE rule = "port_flapping"
  <2>1. i \in PR!FlapInputs /\ PR!CheckFlaps(i)
    BY <1>3 DEF PR!Inputs, PR!Judge
  <2>2. Judged /\ link' \in Links /\ TrackerKept' /\ FlapsKept' /\ lost' \in BOOLEAN
    BY <1>2, <1>3, <2>1, FlapsFollow
  <2>3. UNCHANGED <<seen, sample, since, above, below>>
    BY <2>1 DEF PR!CheckFlaps
  <2> QED
    BY <1>2, <1>3, <2>2, <2>3 DEF MemoryKept, RulesKept, CountersTyped
<1>4. CASE rule \in {"lag_degraded", "port_util"}
  <2>1. i \in PR!LagInputs /\ PR!LagCycle(i)
    BY <1>4 DEF PR!Inputs, PR!Judge, PR!LinkInputs
  <2>2. Judged /\ CountersTyped' /\ RowsKept' /\ seen' \in SUBSET Members
    BY <1>2, <1>4, <2>1, LagCycleKeeps
  <2>3. UNCHANGED <<link, tracker, sample, since, lost>>
    BY <2>1 DEF PR!LagCycle
  <2> QED
    BY <1>2, <1>4, <2>2, <2>3 DEF MemoryKept, RulesKept, TrackerKept
<1>5. CASE rule = "port_errors"
  <2>1. i \in PR!ErrorInputs /\ PR!ErrorCycle(i)
    BY <1>5 DEF PR!Inputs, PR!Judge
  <2>2. /\ Judged /\ CountersTyped' /\ RowsKept'
        /\ sample' \in Samples /\ since' \in SUBSET (PR!Traffic \cup {"reset"})
    BY <1>2, <1>5, <2>1, ErrorCycleKeeps
  <2>3. UNCHANGED <<link, tracker, seen, lost>>
    BY <2>1 DEF PR!ErrorCycle
  <2> QED
    BY <1>2, <1>5, <2>2, <2>3 DEF MemoryKept, RulesKept, TrackerKept
<1>6. CASE rule = "loop_detected"
  <2>1. i \in PR!LoopInputs /\ PR!LoopCycle(i)
    BY <1>6 DEF PR!Inputs, PR!Judge
  <2>2. Judged /\ CountersTyped' /\ RowsKept'
    BY <1>2, <1>6, <2>1, LoopCycleKeeps
  <2>3. UNCHANGED <<link, tracker, seen, sample, since, lost>>
    BY <2>1 DEF PR!LoopCycle
  <2> QED
    BY <1>2, <1>6, <2>2, <2>3 DEF MemoryKept, RulesKept, TrackerKept
<1> QED
  BY <1>1, <1>3, <1>4, <1>5, <1>6

LEMMA JanitorKeeps ==
    ASSUME PR!PortRulesAssumption, JanitorKept, rule' = rule, present \in BOOLEAN,
           open \in BOOLEAN, Judged, NEW i, PR!Poll(i)
    PROVE  /\ JanitorKept'
           /\ PR!Gone => gone' = JanitorCycles /\ rule \in PR!JanitorTypes
<1> DEFINE followed == rule \in PR!JanitorTypes
           goes     == PR!Gone
<1>1. JanitorCycles \in Nat \ {0}
  BY DEF PR!PortRulesAssumption
<1>2. /\ missing' = (CASE followed /\ goes  -> 0
                       [] followed /\ open' -> PR!Missed
                       [] OTHER -> missing)
      /\ gone' = IF present THEN 0 ELSE PR!AtMost(gone + 1, JanitorCycles)
  BY DEF PR!Poll
<1>3. /\ missing \in 0..(JanitorCycles - 1) /\ gone \in 0..JanitorCycles
      /\ open /\ followed => missing <= gone
  BY DEF JanitorKept
<1>4. goes = (followed /\ open /\ ~present /\ PR!Missed >= JanitorCycles)
  BY DEF PR!Gone
<1>5. PR!Missed = IF present THEN 0 ELSE missing + 1
  BY DEF PR!Missed
<1>6. open' \in BOOLEAN /\ (~present => open' = (open /\ ~goes))
  BY DEF Judged
<1>7. gone' \in 0..JanitorCycles
      /\ (~present => gone' = gone + 1 \/ gone' = JanitorCycles)
      /\ (~present /\ gone + 1 >= JanitorCycles => gone' = JanitorCycles)
  BY <1>1, <1>2, <1>3 DEF PR!AtMost
<1>8. followed \in BOOLEAN /\ goes \in BOOLEAN
  BY <1>4
<1> HIDE DEF followed, goes
<1>9. goes => followed /\ open /\ ~present /\ ~open'
  BY <1>4, <1>6, <1>8
<1>10. CASE goes
  <2>1. missing' = 0 /\ missing + 1 >= JanitorCycles /\ missing <= gone
    BY <1>2, <1>3, <1>4, <1>5, <1>9, <1>10
  <2>2. gone' = JanitorCycles
    BY <1>1, <1>3, <1>7, <1>9, <1>10, <2>1
  <2> QED
    BY <1>1, <1>7, <1>9, <1>10, <2>1, <2>2 DEF JanitorKept, goes, followed
<1>11. CASE ~goes /\ followed /\ open'
  <2>1. missing' = PR!Missed
    BY <1>2, <1>11
  <2>2. CASE present
    BY <1>1, <1>5, <1>7, <1>11, <2>1, <2>2 DEF JanitorKept, goes, followed
  <2>3. CASE ~present
    <3>1. open /\ missing' = missing + 1 /\ missing <= gone /\ missing + 1 < JanitorCycles
      <4>1. open
        BY <1>6, <1>11, <2>3
      <4>2. missing' = missing + 1 /\ missing <= gone
        BY <1>3, <1>5, <1>11, <2>1, <2>3, <4>1
      <4>3. ~(PR!Missed >= JanitorCycles)
        BY <1>4, <1>11, <2>3, <4>1
      <4>4. missing + 1 < JanitorCycles
        BY <1>1, <1>3, <1>5, <2>3, <4>3
      <4> QED
        BY <4>1, <4>2, <4>4
    <3>2. missing' \in 0..(JanitorCycles - 1) /\ missing' <= gone'
      BY <1>1, <1>3, <1>7, <2>3, <3>1
    <3> QED
      BY <1>7, <1>11, <3>2 DEF JanitorKept, goes
  <2> QED
    BY <2>2, <2>3
<1>12. CASE ~goes /\ ~(followed /\ open')
  <2>1. missing' = missing
    BY <1>2, <1>12
  <2>2. ~(rule \in PR!JanitorTypes /\ open')
    BY <1>12 DEF followed
  <2> QED
    BY <1>3, <1>7, <1>12, <2>1, <2>2 DEF JanitorKept, goes
<1> QED
  BY <1>8, <1>10, <1>11, <1>12

LEMMA CycleKeeps ==
    ASSUME PR!PortRulesAssumption, PortInv, NEW i \in PR!Inputs, PR!Poll(i)
    PROVE  /\ PortInv' /\ Judged
           /\ PR!Gone => gone' = JanitorCycles /\ rule \in PR!JanitorTypes
<1>1. /\ PR!Judge(i) /\ parity' = ~parity
      /\ rule' = rule /\ scanned' = scanned /\ present' = present
  BY DEF PR!Poll
<1>2. Judged /\ MemoryKept'
  BY <1>1, RulesJudge DEF PortInv
<1>3. /\ JanitorKept'
      /\ PR!Gone => gone' = JanitorCycles /\ rule \in PR!JanitorTypes
  BY <1>1, <1>2, JanitorKeeps DEF PortInv
<1>4. open' \in BOOLEAN
  BY <1>2 DEF Judged
<1> QED
  BY <1>1, <1>2, <1>3, <1>4 DEF PortInv

LEMMA ForgottenTracker ==
    ASSUME PR!PortRulesAssumption, tracker' = PR!NoTracker
    PROVE  TrackerKept' /\ tracker'.events = <<>> /\ ~tracker'.tracked
<1>1. <<>> \in Seq(0..Window) /\ Tidy(<<>>) /\ Len(<<>>) = 0
  BY DEF Tidy
<1>2. FlapHistory \in Nat
  BY DEF PR!PortRulesAssumption
<1>3. tracker' = [known |-> FALSE, zero |-> FALSE, tracked |-> FALSE, events |-> <<>>]
  BY DEF PR!NoTracker
<1>4. tracker' \in Trackers /\ tracker'.events = <<>> /\ ~tracker'.tracked
  BY <1>1, <1>3 DEF Trackers
<1> QED
  BY <1>1, <1>2, <1>4 DEF TrackerKept

LEMMA PortStep ==
    ASSUME PR!PortRulesAssumption, PortInv, [PR!Next]_(PR!vars)
    PROVE  PortInv'
<1>1. JanitorCycles \in Nat \ {0} /\ Cycles \in Nat \ {0}
  BY DEF PR!PortRulesAssumption
<1>2. CASE PR!RunCounters
  BY <1>2, CycleKeeps DEF PR!RunCounters
<1>3. CASE PR!RunScan
  BY <1>3 DEF PR!RunScan, PortInv, MemoryKept, JanitorKept, RulesKept, TrackerKept,
       FlapsKept, RowsKept, CountersTyped
<1>4. CASE PR!ManualClear
  <2>1. /\ open' = FALSE /\ missing' = 0
        /\ UNCHANGED <<rule, scanned, present, link, tracker, seen, sample, above,
                       below, since, past, gone, lost, parity>>
    BY <1>4 DEF PR!ManualClear, PR!memory
  <2>2. JanitorKept'
    BY <1>1, <2>1 DEF PortInv, JanitorKept
  <2>3. MemoryKept'
    BY <2>1 DEF PortInv, MemoryKept, RulesKept, TrackerKept, FlapsKept, RowsKept,
         CountersTyped
  <2> QED
    BY <2>1, <2>2, <2>3 DEF PortInv
<1>5. CASE PR!Restart
  <2>1. /\ scanned' = FALSE /\ present' = FALSE
        /\ missing' = 0 /\ above' = 0 /\ below' = 0 /\ gone' = 0
        /\ tracker' = PR!NoTracker /\ sample' = PR!NoSample /\ since' = {}
        /\ past' = (IF rule = "port_flapping" THEN past ELSE <<>>)
        /\ lost' = (rule = "port_flapping")
        /\ UNCHANGED <<rule, open, link, seen, parity>>
    BY <1>5 DEF PR!Restart
  <2>2. TrackerKept' /\ tracker'.events = <<>> /\ ~tracker'.tracked
    BY <2>1, ForgottenTracker
  <2>3. RulesKept'
    <3>1. CASE rule = "port_flapping"
      BY <2>1, <2>2, <3>1, BackedNone DEF PortInv, MemoryKept, RulesKept, FlapsKept
    <3>2. CASE rule # "port_flapping"
      <4>1. past' = <<>> /\ <<>> \in Seq(PointRecords) /\ Len(<<>>) = 0
        BY <2>1, <3>2
      <4> QED
        BY <1>1, <2>1, <3>2, <4>1 DEF RulesKept, RowsKept
    <3> QED
      BY <3>1, <3>2
  <2>4. CountersTyped' /\ JanitorKept'
    BY <1>1, <2>1 DEF CountersTyped, JanitorKept
  <2> QED
    BY <2>1, <2>2, <2>3, <2>4 DEF PortInv, MemoryKept, Samples
<1>6. CASE UNCHANGED PR!vars
  <2>1. UNCHANGED <<rule, scanned, present, open, missing, link, tracker, seen, sample,
                    above, below, since, past, gone, lost, parity>>
    BY <1>6 DEF PR!vars, PR!memory
  <2> QED
    BY <2>1 DEF PortInv, MemoryKept, JanitorKept, RulesKept, TrackerKept,
         FlapsKept, RowsKept, CountersTyped
<1> QED
  BY <1>2, <1>3, <1>4, <1>5, <1>6 DEF PR!Next

LEMMA PortBegins ==
    ASSUME PR!PortRulesAssumption, PR!Init PROVE PortInv
<1>1. JanitorCycles \in Nat \ {0} /\ Cycles \in Nat \ {0} /\ FlapHistory \in Nat
      /\ MaxGap \in Nat /\ Window \in Nat
  BY DEF PR!PortRulesAssumption
<1>2. /\ rule \in Rules
      /\ scanned = FALSE /\ present = FALSE /\ open = FALSE /\ missing = 0
      /\ link = [odd |-> FALSE, zero |-> TRUE, rebooted |-> FALSE,
                 changed |-> FALSE, unread |-> 0]
      /\ tracker = PR!NoTracker /\ seen = Members
      /\ sample = PR!NoSample /\ since = {} /\ above = 0 /\ below = 0
      /\ past = <<>> /\ gone = 0 /\ lost = FALSE /\ parity = FALSE
  BY DEF PR!Init
<1>3. <<>> \in Seq(0..Window) /\ Tidy(<<>>) /\ Len(<<>>) = 0
      /\ <<>> \in Seq(Marks) /\ <<>> \in Seq(PointRecords)
  BY DEF Tidy
<1>4. TrackerKept /\ tracker.events = <<>> /\ ~tracker.tracked
  <2>1. tracker \in Trackers /\ tracker.events = <<>> /\ ~tracker.tracked
    BY <1>2, <1>3 DEF PR!NoTracker, Trackers
  <2> QED
    BY <1>1, <1>3, <2>1 DEF TrackerKept
<1>5. link \in Links /\ LinkTrue(link.odd, link.changed, link.unread, past)
  <2>1. 0 \in 0..MaxGap
    BY <1>1
  <2>2. link.odd = FALSE /\ link.changed = FALSE /\ link.unread = 0 /\ link \in Links
    BY <1>2, <2>1 DEF Links
  <2> QED
    BY <2>2, LinkRead
<1>6. FlapsKept
  <2>1. 0 <= Span
    BY <1>1 DEF Span
  <2> QED
    BY <1>2, <1>3, <1>4, <1>5, <2>1, BackedNone DEF FlapsKept
<1>7. RowsKept
  BY <1>1, <1>2, <1>3 DEF RowsKept
<1>8. CountersTyped /\ JanitorKept
  BY <1>1, <1>2 DEF CountersTyped, JanitorKept
<1> QED
  BY <1>2, <1>4, <1>5, <1>6, <1>7, <1>8 DEF PortInv, MemoryKept, RulesKept, Samples

LEMMA PortFits ==
    ASSUME PR!PortRulesAssumption, PortInv PROVE PR!TypeOK
<1>1. /\ link \in Links /\ TrackerKept /\ lost \in BOOLEAN
      /\ seen \in SUBSET Members /\ sample \in Samples /\ CountersTyped /\ RulesKept
  BY DEF PortInv, MemoryKept
<1>2. /\ rule \in Rules /\ scanned \in BOOLEAN /\ present \in BOOLEAN
      /\ open \in BOOLEAN /\ JanitorKept
  BY DEF PortInv
<1>3. link.odd \in BOOLEAN /\ link.zero \in BOOLEAN /\ link.unread \in 0..MaxGap
  BY <1>1 DEF Links
<1>4. Window \in Nat /\ MaxGap \in Nat /\ Cycles \in Nat
  BY DEF PR!PortRulesAssumption
<1>5. \A e \in PR!Range(tracker.events) : e \in 0..Window
  <2>1. /\ tracker.events \in Seq(0..Window)
        /\ \A j \in 1..Len(tracker.events) : tracker.events[j] \in 0..Window
    BY <1>1, TidyParts DEF TrackerKept
  <2> DEFINE s == tracker.events
             S == 0..Window
  <2>2. s \in Seq(S)
    BY <2>1
  <2> HIDE DEF s, S
  <2>3. DOMAIN s = 1..Len(s)
    BY <2>2
  <2> QED
    BY <2>1, <2>3 DEF PR!Range, s
<1>6. Len(past) <= Window + MaxGap + 1 + Cycles
  <2>1. CASE rule = "port_flapping"
    <3>1. past \in Seq(Marks) /\ Len(past) <= Span
      BY <1>1, <2>1 DEF RulesKept, FlapsKept
    <3>2. Len(past) \in Nat
      BY <3>1
    <3> QED
      BY <1>4, <3>1, <3>2 DEF Span
  <2>2. CASE rule # "port_flapping"
    <3>1. past \in Seq(PointRecords) /\ Len(past) <= Cycles
      BY <1>1, <2>2 DEF RulesKept, RowsKept
    <3>2. Len(past) \in Nat
      BY <3>1
    <3> QED
      BY <1>4, <3>1, <3>2
  <2> QED
    BY <2>1, <2>2
<1>7. /\ Len(tracker.events) <= FlapHistory
      /\ tracker.events # <<>> => tracker.tracked /\ tracker.known
  BY <1>1 DEF TrackerKept
<1>8. /\ missing \in 0..(JanitorCycles - 1) /\ gone \in 0..JanitorCycles
      /\ above \in 0..Cycles /\ below \in 0..Cycles /\ (above = 0 \/ below = 0)
  BY <1>1, <1>2 DEF JanitorKept, CountersTyped
<1>9. parity \in BOOLEAN
  BY DEF PortInv
<1> QED
  BY <1>1, <1>2, <1>3, <1>5, <1>6, <1>7, <1>8, <1>9 DEF PR!TypeOK, Samples

\* A cycle is the only step that raises an alarm, and ends one for a reason.
LEMMA PortJudged ==
    ASSUME PR!PortRulesAssumption, PortInv, [PR!Next]_(PR!vars)
    PROVE  /\ open' /\ ~open => PR!Loud'
           /\ open /\ ~open' /\ PR!RunCounters =>
                 \/ present /\ PR!Quiet'
                 \/ rule \in PR!JanitorTypes /\ gone' = JanitorCycles
<1>1. ASSUME PR!RunCounters
      PROVE  /\ Judged
             /\ PR!Gone => gone' = JanitorCycles /\ rule \in PR!JanitorTypes
  <2>1. PICK i \in PR!Inputs : PR!Poll(i)
    BY <1>1 DEF PR!RunCounters
  <2> QED
    BY <2>1, CycleKeeps
<1>2. ~PR!RunCounters => ~(open' /\ ~open)
  <2>1. CASE PR!RunScan
    BY <2>1 DEF PR!RunScan
  <2>2. CASE PR!ManualClear
    BY <2>2 DEF PR!ManualClear
  <2>3. CASE PR!Restart
    BY <2>3 DEF PR!Restart
  <2>4. CASE UNCHANGED PR!vars
    BY <2>4 DEF PR!vars
  <2> QED
    BY <2>1, <2>2, <2>3, <2>4 DEF PR!Next
<1> QED
  BY <1>1, <1>2 DEF Judged

\* No alarm of a port or a LAG comes or goes without its evidence, and no rule
\* remembers more than its bound (_check_flaps, _lag_rule, _error_rule,
\* on_loop_detection and the janitor).
LEMMA PortsFollow ==
    PR!PortRulesAssumption => (PR!Spec => PR!AlarmsFollowPolls)
<1> SUFFICES ASSUME PR!PortRulesAssumption PROVE PR!Spec => PR!AlarmsFollowPolls
  OBVIOUS
<1>1. PR!Init => PortInv
  BY PortBegins
<1>2. PortInv /\ [PR!Next]_(PR!vars) => PortInv'
  BY PortStep
<1>3. PortInv => PR!TypeOK
  BY PortFits
<1>4. PortInv /\ [PR!Next]_(PR!vars) => [open' /\ ~open => PR!Loud']_(PR!vars)
  BY PortJudged
<1>5. PortInv /\ [PR!Next]_(PR!vars) =>
         [open /\ ~open' /\ PR!RunCounters =>
             \/ present /\ PR!Quiet'
             \/ rule \in PR!JanitorTypes /\ gone' = JanitorCycles]_(PR!vars)
  BY PortJudged
<1> QED
  BY <1>1, <1>2, <1>3, <1>4, <1>5, PTL
     DEF PR!Spec, PR!AlarmsFollowPolls, PR!RaisedOnEvidence, PR!ClearedOnEvidence

-----------------------------------------------------------------------------
(* Side by side *)

\* A behaviour of the composition is one of each of its parts.
LEMMA FlapDampingInPlace == ReadingsSpec => FD!Spec
<1>1. ReadingsInit => FD!Init
  BY DEF ReadingsInit
<1>2. [ReadingsNext]_readingVars => [FD!Next]_(FD!vars)
  BY DEF ReadingsNext, Rates, Flapping, Collects, Polls, OnlyReading, readingVars,
     flapVars, FD!vars
<1> QED
  BY <1>1, <1>2, PTL DEF ReadingsSpec, FD!Spec

LEMMA CollectorInPlace == ReadingsSpec => CO!Spec
<1>1. ReadingsInit => CO!Init
  BY DEF ReadingsInit
<1>2. [ReadingsNext]_readingVars => [CO!Next]_(CO!collectorVars)
  BY DEF ReadingsNext, Rates, Flapping, Collects, Polls, OnlyReading, readingVars,
     walkVars, CO!collectorVars, CO!reading
<1> QED
  BY <1>1, <1>2, PTL DEF ReadingsSpec, CO!Spec

LEMMA CounterRatesInPlace == ReadingsSpec => CR!Spec
<1>1. ReadingsInit => CR!Init
  BY DEF ReadingsInit
<1>2. [ReadingsNext]_readingVars => [CR!Next]_(CR!vars)
  BY DEF ReadingsNext, Rates, Flapping, Collects, Polls, OnlyReading, readingVars,
     ratesVars, CR!vars, CR!hysteresis
<1> QED
  BY <1>1, <1>2, PTL DEF ReadingsSpec, CR!Spec

LEMMA PortRulesInPlace == ReadingsSpec => PR!Spec
<1>1. ReadingsInit => PR!Init
  BY DEF ReadingsInit
<1>2. [ReadingsNext]_readingVars => [PR!Next]_(PR!vars)
  BY DEF ReadingsNext, Rates, Flapping, Collects, Polls, OnlyReading, readingVars,
     portVars, PR!vars, PR!memory
<1> QED
  BY <1>1, <1>2, PTL DEF ReadingsSpec, PR!Spec

\* Raises, mutes and their ends are told as the settings promise, whatever the
\* coroutines do between the notices, and of a muted alarm nobody is told but
\* that its mute is over.
THEOREM MutesStayTold == ReadingsSpec => MutesAreTold
<1>1. FD!DampingAssumption
  BY ReadingsAssumption
<1> QED
  BY <1>1, FlapNotices, FlapSilence, FlapDampingInPlace, PTL DEF MutesAreTold

\* However its walks break and resume, every row of a table is read once and in
\* order, and a table is paused only after its agent was silent to as many walks
\* of it and for fewer scans than the cooldown.
THEOREM WalksStayRead == ReadingsSpec => []WalksAreRead
<1>1. CO!CollectorAssumption
  BY ReadingsAssumption
<1> QED
  BY <1>1, CollectorReads, CollectorInPlace, PTL DEF WalksAreRead

\* Whatever of a switch's tables broke off, two ports are taken for one only if they
\* are one trunk and an address is at the port it is behind, if the tables are true up
\* to the troubles the code knows; and the samples of a counters cycle are from the
\* column they say, none of a column read to its end left out.
THEOREM TablesStayTrue == ReadingsSpec => TablesAreTrue
<1>1. CO!CollectorAssumption
  BY ReadingsAssumption
<1> QED
  BY <1>1, CollectorCables, CollectorSamples, CollectorInPlace, PTL DEF TablesAreTrue

\* port_util is raised and cleared only on rows of measured intervals whose
\* traffic really was that high or that low, whatever wrapped, was missed,
\* started again or answered from the other column in between.
THEOREM RatesStayTrue == ReadingsSpec => RatesAreTrue
<1>1. CR!RatesAssumption
  BY ReadingsAssumption
<1> QED
  BY <1>1, RatesOfLoad, CounterRatesInPlace, PTL DEF RatesAreTrue

\* An alarm of the counters cycle is raised only on what really went on and
\* ended only when it is over or its subject is gone, whatever was missed,
\* restarted, flapped unseen or went stale in between; and no rule remembers
\* more than its bound.
THEOREM AlarmsStayFounded == ReadingsSpec => AlarmsFollowPolls
<1>1. PR!PortRulesAssumption
  BY ReadingsAssumption
<1> QED
  BY <1>1, PortsFollow, PortRulesInPlace, PTL DEF AlarmsFollowPolls
=============================================================================
