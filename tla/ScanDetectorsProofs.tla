------------------------ MODULE ScanDetectorsProofs ------------------------
(***************************************************************************)
(* The alarms of a scan for any number of switches, roots and copies and   *)
(* any length of the windows: what each family of detectors remembers is   *)
(* what the scans since the start have collected.                          *)
(***************************************************************************)
EXTENDS ScanDetectors, FiniteSetTheorems, SequenceTheorems, TLAPS

\* One scan's evidence in front, and at most d of them.
Newer(s, e, d) == <<e>> \o SubSeq(s, 1, AtMost(Len(s), d - 1))

LEMMA NewerShape ==
    ASSUME NEW S, NEW s \in Seq(S), NEW e \in S, NEW d \in Nat, d >= 2
    PROVE  /\ Newer(s, e, d) \in Seq(S)
           /\ Len(Newer(s, e, d)) = AtMost(Len(s), d - 1) + 1
           /\ Newer(s, e, d)[1] = e
           /\ \A j \in 2..Len(Newer(s, e, d)) : Newer(s, e, d)[j] = s[j - 1]
<1> DEFINE n == AtMost(Len(s), d - 1)
           t == SubSeq(s, 1, n)
<1>1. Len(s) \in Nat /\ n \in 0..Len(s) /\ n \in Nat
  BY LenProperties DEF AtMost
<1>2. \A j \in 1..n : s[j] \in S
  BY <1>1, ElementOfSeq
<1>3. t \in Seq(S) /\ Len(t) = n /\ \A j \in 1..n : t[j] = s[j]
  <2> HIDE DEF n
  <2>1. /\ SubSeq(s, 1, n) \in Seq(S)
        /\ Len(SubSeq(s, 1, n)) = IF 1 <= n THEN n - 1 + 1 ELSE 0
        /\ \A i \in 1..(n - 1 + 1) : SubSeq(s, 1, n)[i] = s[1 + i - 1]
    BY <1>1, <1>2, SubSeqProperties
  <2> QED
    BY <1>1, <2>1
<1>4. <<e>> \in Seq(S) /\ Len(<<e>>) = 1 /\ <<e>>[1] = e
  OBVIOUS
<1>5. Newer(s, e, d) = <<e>> \o t
  BY DEF Newer
<1> HIDE DEF t, n
<1>6. /\ <<e>> \o t \in Seq(S)
      /\ Len(<<e>> \o t) = 1 + n
      /\ \A i \in 1..(1 + n) : (<<e>> \o t)[i] = IF i <= 1 THEN e ELSE t[i - 1]
  BY <1>3, <1>4, ConcatProperties
<1>7. /\ Len(Newer(s, e, d)) = n + 1 /\ Newer(s, e, d)[1] = e
      /\ \A j \in 2..(n + 1) : Newer(s, e, d)[j] = s[j - 1]
  <2>1. ASSUME NEW j \in 2..(n + 1) PROVE Newer(s, e, d)[j] = s[j - 1]
    <3>1. j \in 1..(1 + n) /\ ~(j <= 1) /\ j - 1 \in 1..n
      BY <1>1
    <3> QED
      BY <1>3, <1>5, <1>6, <3>1
  <2>2. 1 \in 1..(1 + n)
    BY <1>1
  <2> QED
    BY <1>1, <1>5, <1>6, <2>1, <2>2
<1> QED
  BY <1>5, <1>6, <1>7 DEF n

-----------------------------------------------------------------------------
(* The inductive invariant *)

\* What is kept of one scan.
Evidences == [kinds : [Switches -> {"full", "partial", "silent"}],
              split : BOOLEAN, found : SUBSET Copies, sight : Sights]

\* A switch with a missed poll was silent when it last finished one, as far as
\* the history reaches.
LastSilent(s) ==
    \/ \E j \in 1..Len(past) :
          /\ past[j].kinds[s] = "silent"
          /\ \A k \in 1..(j - 1) : past[k].kinds[s] = "partial"
    \/ /\ Len(past) = Depth
       /\ \A k \in 1..Depth : past[k].kinds[s] = "partial"

\* The run of polls past the budget is the run of the history.
RunOfPartials(s) ==
    Len(past) >= streak[s] /\ \A j \in 1..streak[s] : past[j].kinds[s] = "partial"

PollsInv ==
    \A s \in Switches : /\ misses[s] >= 1 => LastSilent(s)
                        /\ RunOfPartials(s)
                        /\ s \in listed <=> streak[s] >= StaleScans

\* Two trees were seen, and every root remembered is that of the reading kept.
TreesInv ==
    /\ cycles >= 1 => Len(past) >= 1 /\ past[1].split = TRUE
    /\ \A s \in Switches : root[s] = IF saved[s] \in Roots THEN saved[s]
                                     ELSE Nothing

\* A copy of some age was found in the scan that many scans ago.
CopiesInv ==
    \A c \in DOMAIN seen : c \in Copies /\ Len(past) > seen[c]
                           /\ c \in past[seen[c] + 1].found

\* No scan since the bridge's age began showed it where an alarm is due.
BridgeInv ==
    /\ DOMAIN seen \subseteq {Bridge}
    /\ \A b \in DOMAIN seen : \A j \in 1..Len(past) :
          j <= seen[b] => past[j].sight # "access"

SInv == /\ TypeOK /\ past \in Seq(Evidences)
        /\ family = "polls" => PollsInv
        /\ family = "trees" => TreesInv
        /\ family = "copies" => CopiesInv
        /\ family = "bridge" => BridgeInv

-----------------------------------------------------------------------------
(* A scan, in its parts *)

Before(i) ==
    /\ i \in Inputs(family) /\ input' = i
    /\ past' = Newer(past, Evidence(i), Depth)
    /\ beat' = ~beat /\ family' = family /\ restarts' = restarts

LEMMA ScanIs ==
    ASSUME Scan
    PROVE  \E i : /\ Before(i)
                  /\ \/ family = "polls"  /\ PollScan(i)
                     \/ family = "trees"  /\ TreeScan(i)
                     \/ family = "copies" /\ CopiesScan(i)
                     \/ family = "bridge" /\ BridgeScan(i)
  BY DEF Scan, Before, Newer

\* What a switch may answer.
LEMMA AnswerShape ==
    ASSUME NEW f \in {"polls", "trees", "copies", "bridge"}, NEW i \in Inputs(f),
           NEW s \in Switches
    PROVE  /\ Kind(i, s) \in {"full", "partial", "silent"}
           /\ Kind(i, s) = "full" => i.answer[s].tree \in Trees
           /\ i.found \subseteq Copies /\ i.sight \in Sights
<1>1. i.answer[s] \in Answers[f]
  BY DEF Inputs
<1>2. Answers[f] \subseteq Readings \cup {Plain, Partial, Silence}
  BY DEF Answers, Readings, Plain
<1>3. i.answer[s] \in Readings \cup {Plain, Partial, Silence}
  BY <1>1, <1>2
<1>4. /\ Kind(i, s) \in {"full", "partial", "silent"}
      /\ Kind(i, s) = "full" => i.answer[s].tree \in Trees
  BY <1>3 DEF Kind, Readings, Plain, Partial, Silence, Trees
<1>5. i.found \subseteq Copies /\ i.sight \in Sights
  BY DEF Inputs, Sights
<1> QED
  BY <1>4, <1>5

LEMMA DepthShape ==
    ASSUME TypeOK
    PROVE  /\ Depth \in Nat /\ Depth >= 2
           /\ family = "polls" => Depth = StaleScans + 1
           /\ family = "trees" => Depth = 2
           /\ family \in {"copies", "bridge"} => Depth = Window + 2
           /\ family \in {"polls", "trees", "copies", "bridge"}
<1>1. family \in {"polls", "trees", "copies", "bridge"}
  BY ScanAssumption DEF TypeOK
<1> QED
  BY <1>1, ScanAssumption DEF Depth

\* The history after a scan.
LEMMA NewPast ==
    ASSUME SInv, NEW i, Before(i)
    PROVE  /\ Evidence(i) \in Evidences /\ past' \in Seq(Evidences)
           /\ Len(past') = AtMost(Len(past), Depth - 1) + 1
           /\ Len(past) \in Nat /\ Len(past) <= Depth /\ Len(past') \in 1..Depth
           /\ Depth' = Depth
           /\ past'[1] = Evidence(i)
           /\ \A j \in 2..Len(past') : past'[j] = past[j - 1]
<1>0. TypeOK /\ past \in Seq(Evidences)
  BY DEF SInv
<1>1. family \in {"polls", "trees", "copies", "bridge"} /\ Depth \in Nat /\ Depth >= 2
  BY <1>0, DepthShape
<1>2. \A s \in Switches : Kind(i, s) \in {"full", "partial", "silent"}
  BY <1>1, AnswerShape DEF Before
<1>3. i.found \subseteq Copies /\ i.sight \in Sights
  BY <1>1 DEF Before, Inputs, Sights
<1>4. Split(saved') \in BOOLEAN
  BY DEF Split
<1>5. Evidence(i) \in Evidences
  BY <1>2, <1>3, <1>4 DEF Evidence, Evidences
<1>6. /\ past' \in Seq(Evidences)
      /\ Len(past') = AtMost(Len(past), Depth - 1) + 1
      /\ past'[1] = Evidence(i)
      /\ \A j \in 2..Len(past') : past'[j] = past[j - 1]
  BY <1>0, <1>1, <1>5, NewerShape DEF Before
<1>7. Len(past) \in Nat /\ Len(past) <= Depth
  BY <1>0, LenProperties DEF TypeOK
<1>8. Len(past') \in 1..Depth
  BY <1>1, <1>6, <1>7 DEF AtMost
<1>9. Depth' = Depth
  BY DEF Before, Depth
<1> QED
  BY <1>5, <1>6, <1>7, <1>8, <1>9

\* The shape of what every scan writes.
LEMMA ScanTyped ==
    ASSUME SInv, NEW i, Before(i)
    PROVE  /\ family' \in Families /\ input' \in Inputs(family')
           /\ Len(past') <= Depth' /\ beat' \in BOOLEAN
           /\ restarts' \in 0..MaxRestarts /\ family' = family
           /\ past' \in Seq(Evidences)
<1>1. family' = family /\ input' = i /\ i \in Inputs(family)
      /\ beat' \in BOOLEAN /\ restarts' = restarts
  BY DEF Before
<1>2. family \in Families /\ restarts \in 0..MaxRestarts
  BY DEF SInv, TypeOK
<1>3. Len(past') <= Depth' /\ past' \in Seq(Evidences)
  <2>1. Len(past') \in 1..Depth /\ Depth' = Depth /\ past' \in Seq(Evidences)
    BY NewPast
  <2>2. Depth \in Nat
    BY DepthShape DEF SInv
  <2> QED
    BY <2>1, <2>2
<1> QED
  BY <1>1, <1>2, <1>3

\* An alarm of a switch and the others are told apart by their kind.
SwitchKinds == {"switch_down", "switch_stale", "stp_root_changed",
                "stp_topology_change"}

LEMMA AlarmKinds ==
    /\ Fragmented[1] = "stp_fragmented" /\ Corruption[1] = "port_frame_corruption"
    /\ Bridge[1] = "unmanaged_bridge_detected"
    /\ Fragmented # Corruption /\ Fragmented # Bridge /\ Corruption # Bridge
    /\ \A k \in SwitchKinds : \A s :
          /\ <<k, s>>[1] = k /\ <<k, s>>[2] = s
          /\ <<k, s>> \notin {Fragmented, Corruption, Bridge}
<1>1. /\ Fragmented[1] = "stp_fragmented" /\ Corruption[1] = "port_frame_corruption"
      /\ Bridge[1] = "unmanaged_bridge_detected"
  BY DEF Fragmented, Corruption, Bridge
<1>2. Fragmented # Corruption /\ Fragmented # Bridge /\ Corruption # Bridge
  BY <1>1
<1>3. ASSUME NEW k \in SwitchKinds, NEW s
      PROVE  /\ <<k, s>>[1] = k /\ <<k, s>>[2] = s
             /\ <<k, s>> \notin {Fragmented, Corruption, Bridge}
  BY <1>1 DEF SwitchKinds
<1> QED
  BY <1>1, <1>2, <1>3

-----------------------------------------------------------------------------
(* switch_down and switch_stale *)

\* What a scan of the polls leaves behind of one switch.
LEMMA PollsOf ==
    ASSUME SInv, NEW i, Before(i), family = "polls", PollScan(i),
           NEW s \in Switches
    PROVE  /\ Kind(i, s) \in {"full", "partial", "silent"}
           /\ past'[1].kinds[s] = Kind(i, s)
           /\ misses'[s] = Misses(i, s) /\ streak'[s] = Streak(i, s)
           /\ s \in listed' <=> streak'[s] >= StaleScans
           /\ misses[s] \in 0..2 /\ streak[s] \in 0..StaleScans
           /\ StaleScans \in Nat \ {0} /\ Depth = StaleScans + 1
<1>1. Kind(i, s) \in {"full", "partial", "silent"}
  BY AnswerShape DEF Before
<1>2. past'[1].kinds[s] = Kind(i, s)
  <2>1. past'[1] = Evidence(i)
    BY NewPast
  <2>2. Evidence(i).kinds[s] = Kind(i, s)
    BY DEF Evidence
  <2> QED
    BY <2>1, <2>2
<1>3. misses[s] \in 0..2 /\ streak[s] \in 0..StaleScans
  BY DEF SInv, TypeOK, SwitchDownAfter
<1>4. StaleScans \in Nat \ {0} /\ Depth = StaleScans + 1
  BY ScanAssumption, DepthShape DEF SInv
<1> QED
  BY <1>1, <1>2, <1>3, <1>4 DEF PollScan

LEMMA PollsTyped ==
    ASSUME SInv, NEW i, Before(i), family = "polls", PollScan(i) PROVE TypeOK'
<1>1. /\ misses' \in [Switches -> 0..SwitchDownAfter]
      /\ streak' \in [Switches -> 0..StaleScans]
  <2>1. ASSUME NEW s \in Switches
        PROVE  Misses(i, s) \in 0..SwitchDownAfter /\ Streak(i, s) \in 0..StaleScans
    BY PollsOf DEF Misses, Streak, AtMost, SwitchDownAfter
  <2> QED
    BY <2>1 DEF PollScan
<1>2. listed' \subseteq Switches
  BY DEF PollScan
<1>3. active' \subseteq Alarms
  <2>1. active \subseteq Alarms
    BY DEF SInv, TypeOK
  <2>2. PICK up, down, gone :
           /\ down \subseteq Switches
           /\ Settle({"switch_down"} \X down \cup {"switch_stale"} \X listed',
                     {"switch_down"} \X up \cup {"switch_stale"} \X gone)
    <3> DEFINE D == {s \in Switches : Kind(i, s) = "silent"
                                      /\ misses'[s] >= SwitchDownAfter}
               U == {s \in Switches : Kind(i, s) = "full"}
    <3>1. /\ D \subseteq Switches
          /\ Settle({"switch_down"} \X D \cup {"switch_stale"} \X listed',
                    {"switch_down"} \X U \cup {"switch_stale"} \X (listed \ listed'))
      BY DEF PollScan
    <3> QED
      BY <3>1
  <2>3. {"switch_down"} \X down \cup {"switch_stale"} \X listed' \subseteq SwitchAlarms
    BY <1>2, <2>2 DEF SwitchAlarms
  <2> QED
    BY <2>1, <2>2, <2>3 DEF Settle, Alarms
<1>4. UNCHANGED <<saved, root, cycles, seen, critical>>
  BY DEF PollScan
<1>5. /\ saved \in [Switches -> Trees \cup {Nothing}]
      /\ root \in [Switches -> Roots \cup {Nothing}]
      /\ cycles \in 0..2 /\ critical \in BOOLEAN
      /\ DOMAIN seen \subseteq Copies \cup {Bridge}
      /\ \A x \in DOMAIN seen : seen[x] \in 0..Window
  BY DEF SInv, TypeOK
<1> QED
  BY <1>1, <1>2, <1>3, <1>4, <1>5, ScanTyped DEF TypeOK

\* A run of polls past the budget grows with the history, or ends.
LEMMA PollsRun ==
    ASSUME SInv, NEW i, Before(i), family = "polls", PollScan(i),
           NEW s \in Switches
    PROVE  RunOfPartials(s)'
<1>1. /\ Len(past) >= streak[s]
      /\ \A j \in 1..streak[s] : past[j].kinds[s] = "partial"
  BY DEF SInv, PollsInv, RunOfPartials
<1>2. /\ past'[1].kinds[s] = Kind(i, s) /\ streak'[s] = Streak(i, s)
      /\ streak[s] \in 0..StaleScans /\ Depth = StaleScans + 1
      /\ StaleScans \in Nat \ {0}
  BY PollsOf
<1>3. /\ Len(past') = AtMost(Len(past), Depth - 1) + 1 /\ Len(past) \in Nat
      /\ \A j \in 2..Len(past') : past'[j] = past[j - 1]
  BY NewPast
<1>4. CASE Kind(i, s) # "partial"
  <2>1. streak'[s] = 0 /\ Len(past') >= 0
    BY <1>2, <1>3, <1>4 DEF Streak, AtMost
  <2> QED
    BY <2>1 DEF RunOfPartials
<1>5. CASE Kind(i, s) = "partial"
  <2>1. streak'[s] = AtMost(streak[s] + 1, StaleScans)
    BY <1>2, <1>5 DEF Streak
  <2>2. Len(past') >= streak'[s]
    BY <1>1, <1>2, <1>3, <2>1 DEF AtMost
  <2>3. ASSUME NEW j \in 1..streak'[s] PROVE past'[j].kinds[s] = "partial"
    <3>1. CASE j = 1
      BY <1>2, <1>5, <3>1
    <3>2. CASE j # 1
      <4>1. j \in 2..Len(past') /\ j - 1 \in 1..streak[s]
        BY <1>1, <1>2, <1>3, <2>1, <2>2, <3>2 DEF AtMost
      <4> QED
        BY <1>1, <1>3, <4>1
    <3> QED
      BY <3>1, <3>2
  <2> QED
    BY <2>2, <2>3 DEF RunOfPartials
<1> QED
  BY <1>4, <1>5

\* Partial polls in front change nothing of what was last finished.
LEMMA PollsLast ==
    ASSUME SInv, NEW i, Before(i), family = "polls", PollScan(i),
           NEW s \in Switches, misses'[s] >= 1
    PROVE  LastSilent(s)'
<1>1. /\ past'[1].kinds[s] = Kind(i, s) /\ misses'[s] = Misses(i, s)
      /\ Kind(i, s) \in {"full", "partial", "silent"}
  BY PollsOf
<1>2. /\ Len(past') = AtMost(Len(past), Depth - 1) + 1 /\ Len(past) \in Nat
      /\ Len(past) <= Depth /\ Depth' = Depth
      /\ \A j \in 2..Len(past') : past'[j] = past[j - 1]
  BY NewPast
<1>3. Depth \in Nat /\ Depth >= 2
  BY DepthShape DEF SInv
<1>4. CASE Kind(i, s) = "full"
  BY <1>1, <1>4 DEF Misses
<1>5. CASE Kind(i, s) = "silent"
  <2>1. 1 \in 1..Len(past') /\ \A k \in 1..(1 - 1) : FALSE
    BY <1>2, <1>3 DEF AtMost
  <2> QED
    BY <1>1, <1>5, <2>1 DEF LastSilent
<1>6. CASE Kind(i, s) = "partial"
  <2>1. LastSilent(s)
    BY <1>1, <1>6 DEF Misses, SInv, PollsInv
  <2>2. ASSUME NEW j \in 1..Len(past), past[j].kinds[s] = "silent",
               \A k \in 1..(j - 1) : past[k].kinds[s] = "partial"
        PROVE  LastSilent(s)'
    <3>1. ASSUME NEW k \in 1..j, k <= Len(past') PROVE past'[k].kinds[s] = "partial"
      <4>1. CASE k = 1
        BY <1>1, <1>6, <4>1
      <4>2. CASE k # 1
        <5>1. k \in 2..Len(past') /\ k - 1 \in 1..(j - 1)
          BY <1>2, <3>1, <4>2
        <5> QED
          BY <1>2, <2>2, <5>1
      <4> QED
        BY <4>1, <4>2
    <3>2. CASE j < Depth
      <4>1. j + 1 \in 2..Len(past') /\ (j + 1) - 1 = j
        BY <1>2, <1>3, <3>2 DEF AtMost
      <4>2. past'[j + 1].kinds[s] = "silent"
        BY <1>2, <2>2, <4>1
      <4>3. \A k \in 1..((j + 1) - 1) : past'[k].kinds[s] = "partial"
        BY <3>1, <4>1
      <4>4. j + 1 \in 1..Len(past')
        BY <4>1
      <4> QED
        BY <4>2, <4>3, <4>4 DEF LastSilent
    <3>3. CASE ~(j < Depth)
      <4>1. j = Depth /\ Len(past') = Depth'
        BY <1>2, <1>3, <3>3 DEF AtMost
      <4>2. \A k \in 1..Depth' : past'[k].kinds[s] = "partial"
        BY <1>2, <1>3, <3>1, <4>1
      <4> QED
        BY <4>1, <4>2 DEF LastSilent
    <3> QED
      BY <3>2, <3>3
  <2>3. ASSUME Len(past) = Depth, \A k \in 1..Depth : past[k].kinds[s] = "partial"
        PROVE  LastSilent(s)'
    <3>1. Len(past') = Depth'
      BY <1>2, <1>3, <2>3 DEF AtMost
    <3>2. ASSUME NEW k \in 1..Depth' PROVE past'[k].kinds[s] = "partial"
      <4>1. CASE k = 1
        BY <1>1, <1>6, <4>1
      <4>2. CASE k # 1
        <5>1. k \in 2..Len(past') /\ k - 1 \in 1..Depth
          BY <1>2, <1>3, <3>1, <4>2
        <5> QED
          BY <1>2, <2>3, <5>1
      <4> QED
        BY <4>1, <4>2
    <3> QED
      BY <3>1, <3>2 DEF LastSilent
  <2> QED
    BY <2>1, <2>2, <2>3 DEF LastSilent
<1> QED
  BY <1>1, <1>4, <1>5, <1>6

\* Every switch is judged down, stale or neither on the polls of the history.
LEMMA PollsKept ==
    ASSUME SInv, NEW i, Before(i), family = "polls", PollScan(i) PROVE PollsInv'
<1>1. ASSUME NEW s \in Switches
      PROVE  /\ misses'[s] >= 1 => LastSilent(s)'
             /\ RunOfPartials(s)'
             /\ s \in listed' <=> streak'[s] >= StaleScans
  BY PollsRun, PollsLast, PollsOf
<1> QED
  BY <1>1 DEF PollsInv

\* What the scan raises and clears of the two alarms.
LEMMA PollsSettled ==
    ASSUME NEW i, PollScan(i), NEW a
    PROVE  /\ a \in active' \ active =>
                 \E s \in Switches :
                    \/ /\ a = <<"switch_down", s>>
                       /\ Kind(i, s) = "silent" /\ misses'[s] >= SwitchDownAfter
                    \/ a = <<"switch_stale", s>> /\ s \in listed'
           /\ a \in active \ active' =>
                 \E s \in Switches \cup listed :
                    \/ a = <<"switch_down", s>> /\ s \in Switches
                       /\ Kind(i, s) = "full"
                    \/ a = <<"switch_stale", s>> /\ s \in listed \ listed'
<1> DEFINE D == {s \in Switches : Kind(i, s) = "silent"
                                  /\ misses'[s] >= SwitchDownAfter}
           U == {s \in Switches : Kind(i, s) = "full"}
<1>1. /\ listed' \subseteq Switches
      /\ active' = (active \ ({"switch_down"} \X U
                                \cup {"switch_stale"} \X (listed \ listed')))
                   \cup ({"switch_down"} \X D \cup {"switch_stale"} \X listed')
  BY DEF PollScan, Settle
<1>2. ASSUME a \in active' \ active
      PROVE  \E s \in Switches :
                    \/ /\ a = <<"switch_down", s>>
                       /\ Kind(i, s) = "silent" /\ misses'[s] >= SwitchDownAfter
                    \/ a = <<"switch_stale", s>> /\ s \in listed'
  <2>1. a \in {"switch_down"} \X D \/ a \in {"switch_stale"} \X listed'
    BY <1>1, <1>2
  <2> QED
    BY <1>1, <2>1
<1>3. ASSUME a \in active \ active'
      PROVE  \E s \in Switches \cup listed :
                    \/ a = <<"switch_down", s>> /\ s \in Switches
                       /\ Kind(i, s) = "full"
                    \/ a = <<"switch_stale", s>> /\ s \in listed \ listed'
  <2>1. a \in {"switch_down"} \X U \/ a \in {"switch_stale"} \X (listed \ listed')
    BY <1>1, <1>3
  <2> QED
    BY <2>1
<1> QED
  BY <1>2, <1>3

LEMMA PollsBacked ==
    ASSUME SInv, NEW i, Before(i), family = "polls", PollScan(i),
           NEW a \in active' \ active
    PROVE  Backed(a)'
<1>1. PICK s \in Switches :
         \/ /\ a = <<"switch_down", s>>
            /\ Kind(i, s) = "silent" /\ misses'[s] >= SwitchDownAfter
         \/ a = <<"switch_stale", s>> /\ s \in listed'
  BY PollsSettled
<1>2. /\ past'[1].kinds[s] = Kind(i, s) /\ misses'[s] = Misses(i, s)
      /\ streak'[s] = Streak(i, s)
      /\ s \in listed' <=> streak'[s] >= StaleScans
      /\ misses[s] \in 0..2 /\ streak[s] \in 0..StaleScans
      /\ StaleScans \in Nat \ {0} /\ Depth = StaleScans + 1
  BY PollsOf
<1>3. /\ Len(past') = AtMost(Len(past), Depth - 1) + 1 /\ Len(past) \in Nat
      /\ Len(past) <= Depth /\ Depth' = Depth
      /\ \A j \in 2..Len(past') : past'[j] = past[j - 1]
  BY NewPast
<1>4. CASE a = <<"switch_stale", s>> /\ s \in listed'
  <2>1. streak'[s] = StaleScans
    <3>1. streak'[s] >= StaleScans
      BY <1>2, <1>4
    <3>2. Streak(i, s) \in 0..StaleScans
      BY <1>2 DEF Streak, AtMost
    <3> QED
      BY <1>2, <3>1, <3>2
  <2>2. /\ Len(past') >= StaleScans
        /\ \A j \in 1..StaleScans : past'[j].kinds[s] = "partial"
    BY <2>1, PollsRun DEF RunOfPartials
  <2>3. Scans(StaleScans)' = 1..StaleScans
    BY <1>2, <1>3, <2>2 DEF Scans, AtMost
  <2>4. NeverFinished(s)'
    BY <2>2, <2>3 DEF NeverFinished
  <2> QED
    BY <1>4, <2>4, AlarmKinds DEF Backed, SwitchKinds
<1>5. CASE /\ a = <<"switch_down", s>>
           /\ Kind(i, s) = "silent" /\ misses'[s] >= SwitchDownAfter
  <2>1. misses[s] >= 1
    BY <1>2, <1>5 DEF Misses, AtMost, SwitchDownAfter
  <2>2. LastSilent(s)
    BY <2>1 DEF SInv, PollsInv
  <2>3. ASSUME NEW j \in 1..Len(past), past[j].kinds[s] = "silent",
               \A k \in 1..(j - 1) : past[k].kinds[s] = "partial"
        PROVE  TwiceSilent(s)'
    <3>1. CASE j < Depth
      <4>1. j + 1 \in 2..Len(past') /\ (j + 1) - 1 = j
        BY <1>2, <1>3, <3>1 DEF AtMost
      <4>2. past'[j + 1].kinds[s] = "silent"
        BY <1>3, <2>3, <4>1
      <4>3. ASSUME NEW k \in 2..((j + 1) - 1) PROVE past'[k].kinds[s] = "partial"
        <5>1. k \in 2..Len(past') /\ k - 1 \in 1..(j - 1)
          BY <4>1, <4>3
        <5> QED
          BY <1>3, <2>3, <5>1
      <4> QED
        BY <1>2, <1>5, <4>1, <4>2, <4>3 DEF TwiceSilent
    <3>2. CASE ~(j < Depth)
      <4>1. j = Depth /\ Len(past') = Depth'
        BY <1>2, <1>3, <3>2 DEF AtMost
      <4>2. ASSUME NEW k \in 2..Depth' PROVE past'[k].kinds[s] = "partial"
        <5>1. k \in 2..Len(past') /\ k - 1 \in 1..(j - 1)
          BY <1>2, <1>3, <4>1, <4>2
        <5> QED
          BY <1>3, <2>3, <5>1
      <4> QED
        BY <1>2, <1>5, <4>1, <4>2 DEF TwiceSilent
    <3> QED
      BY <3>1, <3>2
  <2>4. ASSUME Len(past) = Depth, \A k \in 1..Depth : past[k].kinds[s] = "partial"
        PROVE  TwiceSilent(s)'
    <3>1. Len(past') = Depth'
      BY <1>2, <1>3, <2>4 DEF AtMost
    <3>2. ASSUME NEW k \in 2..Depth' PROVE past'[k].kinds[s] = "partial"
      <4>1. k \in 2..Len(past') /\ k - 1 \in 1..Depth
        BY <1>2, <1>3, <3>1, <3>2
      <4> QED
        BY <1>3, <2>4, <4>1
    <3> QED
      BY <1>2, <1>5, <3>1, <3>2 DEF TwiceSilent
  <2>5. TwiceSilent(s)'
    BY <2>2, <2>3, <2>4 DEF LastSilent
  <2> QED
    BY <1>5, <2>5, AlarmKinds DEF Backed, SwitchKinds
<1> QED
  BY <1>1, <1>4, <1>5

LEMMA PollsRefuted ==
    ASSUME SInv, NEW i, Before(i), family = "polls", PollScan(i),
           NEW a \in active \ active'
    PROVE  Refuted(a)'
<1>1. PICK s \in Switches \cup listed :
         \/ a = <<"switch_down", s>> /\ s \in Switches /\ Kind(i, s) = "full"
         \/ a = <<"switch_stale", s>> /\ s \in listed \ listed'
  BY PollsSettled
<1>2. s \in Switches
  BY <1>1 DEF SInv, TypeOK
<1>3. /\ past'[1].kinds[s] = Kind(i, s) /\ streak'[s] = Streak(i, s)
      /\ s \in listed' <=> streak'[s] >= StaleScans
      /\ streak[s] \in 0..StaleScans /\ StaleScans \in Nat \ {0}
  BY <1>2, PollsOf
<1>4. CASE a = <<"switch_down", s>> /\ Kind(i, s) = "full"
  BY <1>3, <1>4, AlarmKinds DEF Refuted, SwitchKinds
<1>5. CASE a = <<"switch_stale", s>> /\ s \in listed \ listed'
  <2>1. streak[s] >= StaleScans
    BY <1>2, <1>5 DEF SInv, PollsInv
  <2>2. Kind(i, s) # "partial"
    BY <1>3, <1>5, <2>1 DEF Streak, AtMost
  <2> QED
    BY <1>3, <1>5, <2>2, AlarmKinds DEF Refuted, SwitchKinds
<1> QED
  BY <1>1, <1>4, <1>5

-----------------------------------------------------------------------------
(* The spanning-tree alarms *)

\* What a scan of the trees leaves behind of one switch.
LEMMA TreesOf ==
    ASSUME SInv, NEW i, Before(i), family = "trees", TreeScan(i),
           NEW s \in Switches
    PROVE  /\ Kind(i, s) \in {"full", "partial", "silent"}
           /\ saved'[s] = Keep(i, s) /\ saved'[s] \in Trees \cup {Nothing}
           /\ root'[s] = IF saved'[s] \in Roots THEN saved'[s] ELSE Nothing
           /\ root[s] = IF saved[s] \in Roots THEN saved[s] ELSE Nothing
           /\ s \in Operating(saved') <=> saved'[s] \in Roots
<1>1. /\ Kind(i, s) \in {"full", "partial", "silent"}
      /\ Kind(i, s) = "full" => i.answer[s].tree \in Trees
  BY AnswerShape DEF Before
<1>2. saved' = [t \in Switches |-> Keep(i, t)] /\ root' = Remember(saved')
  BY DEF TreeScan
<1>3. saved'[s] = Keep(i, s)
  BY <1>2
<1>4. Keep(i, s) \in Trees \cup {Nothing}
  <2>1. saved[s] \in Trees \cup {Nothing}
    BY DEF SInv, TypeOK
  <2>2. CASE Kind(i, s) = "full"
    BY <1>1, <2>2 DEF Keep
  <2>3. CASE Kind(i, s) = "partial"
    BY <2>1, <2>3 DEF Keep
  <2>4. CASE Kind(i, s) = "silent"
    BY <2>4 DEF Keep
  <2> QED
    BY <1>1, <2>2, <2>3, <2>4
<1>5. s \in Operating(saved') <=> saved'[s] \in Roots
  BY DEF Operating
<1>6. root'[s] = IF saved'[s] \in Roots THEN saved'[s] ELSE Nothing
  <2>1. root'[s] = IF s \in Operating(saved') THEN saved'[s] ELSE Nothing
    BY <1>2 DEF Remember
  <2> QED
    BY <1>5, <2>1
<1>7. root[s] = IF saved[s] \in Roots THEN saved[s] ELSE Nothing
  BY DEF SInv, TreesInv
<1> QED
  BY <1>1, <1>3, <1>4, <1>5, <1>6, <1>7

\* A root that moved was read in this scan, and so was a count that jumped.
LEMMA TreesSettled ==
    ASSUME SInv, NEW i, Before(i), family = "trees", TreeScan(i), NEW a
    PROVE  /\ a \in active' \ active =>
                 \/ a = Fragmented /\ cycles' = 2
                 \/ \E s \in Switches :
                       /\ Kind(i, s) = "full"
                       /\ \/ a = <<"stp_root_changed", s>>
                          \/ a = <<"stp_topology_change", s>>
           /\ a \in active \ active' =>
                 \/ a = Fragmented /\ cycles' = 0
                 \/ \E s \in Switches : \/ a = <<"stp_root_changed", s>>
                                        \/ a = <<"stp_topology_change", s>>
<1>1. PICK delta \in Deltas(i) :
       LET known   == {s \in Operating(saved') : root[s] # Nothing}
           moved   == {s \in known : root[s] # saved'[s]}
           left    == {s \in Switches \ Operating(saved') : root[s] # Nothing}
           busy    == {s \in known : delta[s] = "many"}
           calm    == {s \in known : delta[s] = "few"}
       IN Settle({"stp_root_changed"} \X moved
                    \cup {"stp_topology_change"} \X busy
                    \cup {b \in {Fragmented} : cycles' = 2},
                 {"stp_root_changed"} \X ((known \ moved) \cup left)
                    \cup {"stp_topology_change"} \X (calm \cup left)
                    \cup {b \in {Fragmented} : cycles' = 0})
  BY DEF TreeScan
<1> DEFINE known == {s \in Operating(saved') : root[s] # Nothing}
           moved == {s \in known : root[s] # saved'[s]}
           left  == {s \in Switches \ Operating(saved') : root[s] # Nothing}
           busy  == {s \in known : delta[s] = "many"}
           calm  == {s \in known : delta[s] = "few"}
<1>2. known \subseteq Switches /\ left \subseteq Switches
  BY DEF Operating
<1>3. \A s \in moved : Kind(i, s) = "full"
  <2>1. ASSUME NEW s \in moved, Kind(i, s) # "full" PROVE FALSE
    <3>1. /\ s \in Switches /\ s \in Operating(saved') /\ root[s] # Nothing
          /\ root[s] # saved'[s]
      BY <1>2, <2>1
    <3>2. /\ Kind(i, s) = "partial" \/ Kind(i, s) = "silent"
          /\ saved'[s] = Keep(i, s) /\ saved'[s] \in Roots
          /\ root[s] = IF saved[s] \in Roots THEN saved[s] ELSE Nothing
      BY <2>1, <3>1, TreesOf
    <3>3. CASE Kind(i, s) = "partial"
      BY <3>1, <3>2, <3>3 DEF Keep
    <3>4. CASE Kind(i, s) = "silent"
      <4>1. saved'[s] = Nothing
        BY <3>2, <3>4 DEF Keep
      <4> QED
        BY <3>2, <4>1, ScanAssumption
    <3> QED
      BY <3>2, <3>3, <3>4
  <2> QED
    BY <2>1
<1>4. \A s \in busy : Kind(i, s) = "full"
  BY <1>2 DEF Deltas
<1>5. active' = (active \ ({"stp_root_changed"} \X ((known \ moved) \cup left)
                            \cup {"stp_topology_change"} \X (calm \cup left)
                            \cup {b \in {Fragmented} : cycles' = 0}))
                \cup ({"stp_root_changed"} \X moved
                        \cup {"stp_topology_change"} \X busy
                        \cup {b \in {Fragmented} : cycles' = 2})
  BY <1>1 DEF Settle
<1>6. moved \subseteq Switches /\ busy \subseteq Switches
      /\ (known \ moved) \cup left \subseteq Switches
      /\ calm \cup left \subseteq Switches
  BY <1>2
<1> HIDE DEF known, moved, left, busy, calm
<1>7. ASSUME a \in active' \ active
      PROVE  \/ a = Fragmented /\ cycles' = 2
             \/ \E s \in Switches :
                   /\ Kind(i, s) = "full"
                   /\ \/ a = <<"stp_root_changed", s>>
                      \/ a = <<"stp_topology_change", s>>
  <2>1. \/ a \in {"stp_root_changed"} \X moved
        \/ a \in {"stp_topology_change"} \X busy
        \/ a = Fragmented /\ cycles' = 2
    BY <1>5, <1>7
  <2>2. ASSUME a \in {"stp_root_changed"} \X moved
        PROVE  \E s \in Switches : /\ Kind(i, s) = "full"
                                   /\ a = <<"stp_root_changed", s>>
    BY <1>3, <1>6, <2>2
  <2>3. ASSUME a \in {"stp_topology_change"} \X busy
        PROVE  \E s \in Switches : /\ Kind(i, s) = "full"
                                   /\ a = <<"stp_topology_change", s>>
    BY <1>4, <1>6, <2>3
  <2> QED
    BY <2>1, <2>2, <2>3
<1>8. ASSUME a \in active \ active'
      PROVE  \/ a = Fragmented /\ cycles' = 0
             \/ \E s \in Switches : \/ a = <<"stp_root_changed", s>>
                                    \/ a = <<"stp_topology_change", s>>
  <2>1. \/ a \in {"stp_root_changed"} \X ((known \ moved) \cup left)
        \/ a \in {"stp_topology_change"} \X (calm \cup left)
        \/ a = Fragmented /\ cycles' = 0
    BY <1>5, <1>8
  <2> QED
    BY <1>6, <2>1
<1> QED
  BY <1>7, <1>8

LEMMA TreesTyped ==
    ASSUME SInv, NEW i, Before(i), family = "trees", TreeScan(i) PROVE TypeOK'
<1>1. /\ saved' \in [Switches -> Trees \cup {Nothing}]
      /\ root' \in [Switches -> Roots \cup {Nothing}]
  <2>1. saved' = [s \in Switches |-> Keep(i, s)]
    BY DEF TreeScan
  <2>2. root' = [s \in Switches |-> IF s \in Operating(saved') THEN saved'[s]
                                    ELSE Nothing]
    BY DEF TreeScan, Remember
  <2>3. ASSUME NEW s \in Switches
        PROVE  Keep(i, s) \in Trees \cup {Nothing} /\ root'[s] \in Roots \cup {Nothing}
    BY TreesOf
  <2> QED
    BY <2>1, <2>2, <2>3
<1>2. cycles' \in 0..2
  <2>1. cycles \in 0..2 /\ cycles' = Cycles(saved')
    BY DEF SInv, TypeOK, TreeScan
  <2> QED
    BY <2>1 DEF Cycles, AtMost
<1>3. active' \subseteq Alarms
  <2>1. active \subseteq Alarms
    BY DEF SInv, TypeOK
  <2>2. ASSUME NEW a \in active' \ active PROVE a \in Alarms
    <3>1. \/ a = Fragmented
          \/ \E s \in Switches : \/ a = <<"stp_root_changed", s>>
                                 \/ a = <<"stp_topology_change", s>>
      BY TreesSettled
    <3> QED
      BY <3>1 DEF Alarms, SwitchAlarms
  <2> QED
    BY <2>1, <2>2
<1>4. UNCHANGED <<misses, streak, listed, seen, critical>>
  BY DEF TreeScan
<1>5. /\ misses \in [Switches -> 0..SwitchDownAfter]
      /\ streak \in [Switches -> 0..StaleScans]
      /\ listed \subseteq Switches /\ critical \in BOOLEAN
      /\ DOMAIN seen \subseteq Copies \cup {Bridge}
      /\ \A x \in DOMAIN seen : seen[x] \in 0..Window
  BY DEF SInv, TypeOK
<1> QED
  BY <1>1, <1>2, <1>3, <1>4, <1>5, ScanTyped DEF TypeOK

\* The network is split in this scan, and was in the scan before.
LEMMA TreesCounted ==
    ASSUME SInv, NEW i, Before(i), family = "trees", TreeScan(i)
    PROVE  /\ Len(past') >= 1 /\ past'[1].split = Split(saved')
           /\ cycles' >= 1 => Split(saved')
           /\ cycles' = 0 => ~Split(saved')
           /\ cycles' = 2 => Len(past') >= 2 /\ past'[2].split
<1>1. /\ Len(past') \in 1..Depth /\ past'[1] = Evidence(i)
      /\ Len(past') = AtMost(Len(past), Depth - 1) + 1 /\ Len(past) \in Nat
      /\ \A j \in 2..Len(past') : past'[j] = past[j - 1]
  BY NewPast
<1>2. Depth = 2
  BY DepthShape DEF SInv
<1>3. past'[1].split = Split(saved')
  <2>1. Evidence(i).split = Split(saved')
    BY DEF Evidence
  <2> QED
    BY <1>1, <2>1
<1>4. cycles \in 0..2 /\ cycles' = Cycles(saved')
  BY DEF SInv, TypeOK, TreeScan
<1>5. /\ cycles' >= 1 => Split(saved')
      /\ cycles' = 0 => ~Split(saved')
      /\ cycles' = 2 => cycles >= 1
  BY <1>4 DEF Cycles, AtMost
<1>6. ASSUME cycles' = 2 PROVE Len(past') >= 2 /\ past'[2].split
  <2>1. Len(past) >= 1 /\ past[1].split = TRUE
    BY <1>5, <1>6 DEF SInv, TreesInv
  <2>2. Len(past') = 2
    BY <1>1, <1>2, <2>1 DEF AtMost
  <2>3. past'[2] = past[2 - 1]
    BY <1>1, <2>2
  <2> QED
    BY <2>1, <2>2, <2>3
<1> QED
  BY <1>1, <1>2, <1>3, <1>5, <1>6

LEMMA TreesKept ==
    ASSUME SInv, NEW i, Before(i), family = "trees", TreeScan(i) PROVE TreesInv'
<1>1. cycles' >= 1 => Len(past') >= 1 /\ past'[1].split = TRUE
  <2>1. Split(saved') \in BOOLEAN
    BY DEF Split
  <2> QED
    BY <2>1, TreesCounted
<1>2. \A s \in Switches : root'[s] = IF saved'[s] \in Roots THEN saved'[s]
                                     ELSE Nothing
  BY TreesOf
<1> QED
  BY <1>1, <1>2 DEF TreesInv

LEMMA TreesBacked ==
    ASSUME SInv, NEW i, Before(i), family = "trees", TreeScan(i),
           NEW a \in active' \ active
    PROVE  Backed(a)'
<1>1. CASE a = Fragmented /\ cycles' = 2
  <2>1. Len(past') >= 2 /\ past'[1].split /\ past'[2].split
    BY <1>1, TreesCounted
  <2> QED
    BY <1>1, <2>1, AlarmKinds DEF Backed
<1>2. ASSUME NEW s \in Switches, Kind(i, s) = "full",
             \/ a = <<"stp_root_changed", s>>
             \/ a = <<"stp_topology_change", s>>
      PROVE  Backed(a)'
  <2>1. Kind(input, s)' = "full"
    BY <1>2 DEF Before, Kind
  <2> QED
    BY <1>2, <2>1, AlarmKinds DEF Backed, SwitchKinds
<1> QED
  BY <1>1, <1>2, TreesSettled

LEMMA TreesRefuted ==
    ASSUME SInv, NEW i, Before(i), family = "trees", TreeScan(i),
           NEW a \in active \ active'
    PROVE  Refuted(a)'
<1>1. CASE a = Fragmented /\ cycles' = 0
  <2>1. ~past'[1].split
    BY <1>1, TreesCounted
  <2> QED
    BY <1>1, <2>1, AlarmKinds DEF Refuted
<1>2. ASSUME NEW s \in Switches, \/ a = <<"stp_root_changed", s>>
                                 \/ a = <<"stp_topology_change", s>>
      PROVE  Refuted(a)'
  BY <1>2, AlarmKinds DEF Refuted, SwitchKinds
<1> QED
  BY <1>1, <1>2, TreesSettled

-----------------------------------------------------------------------------
(* port_frame_corruption *)

\* What the copies remembered are after a scan, and since when.
LEMMA CopiesOf ==
    ASSUME SInv, NEW i, Before(i), family = "copies", CopiesScan(i)
    PROVE  /\ DOMAIN seen' \subseteq DOMAIN seen \cup i.found
           /\ \A c \in DOMAIN seen' :
                 /\ seen'[c] = IF c \in DOMAIN seen THEN seen[c] + 1 ELSE 0
                 /\ seen'[c] \in 0..Window
           /\ \A c \in i.found : c \notin DOMAIN seen'
                 => c \in DOMAIN seen /\ seen[c] = Window
           /\ Window \in Nat /\ Depth = Window + 2 /\ i.found \subseteq Copies
           /\ DOMAIN seen \subseteq Copies
           /\ past'[1].found = i.found
<1> DEFINE ages == Aged(i.found)
<1>1. /\ DOMAIN ages = DOMAIN seen \cup i.found
      /\ \A c \in DOMAIN ages :
            ages[c] = IF c \in DOMAIN seen THEN seen[c] + 1 ELSE 0
  BY DEF Aged
<1>2. seen' = [c \in {x \in DOMAIN ages : ages[x] <= Window} |-> ages[c]]
  BY DEF CopiesScan, Within
<1> HIDE DEF ages
<1>3. /\ DOMAIN seen' = {x \in DOMAIN ages : ages[x] <= Window}
      /\ \A c \in DOMAIN seen' : seen'[c] = ages[c]
  BY <1>2
<1>4. Window \in Nat
  BY ScanAssumption
<1>5. \A c \in DOMAIN seen : seen[c] \in 0..Window
  BY DEF SInv, TypeOK
<1>6. ASSUME NEW c \in DOMAIN seen'
      PROVE  /\ seen'[c] = IF c \in DOMAIN seen THEN seen[c] + 1 ELSE 0
             /\ seen'[c] \in 0..Window
  <2>1. c \in DOMAIN ages /\ ages[c] <= Window /\ seen'[c] = ages[c]
    BY <1>3
  <2> QED
    BY <1>1, <1>4, <1>5, <2>1
<1>7. ASSUME NEW c \in i.found, c \notin DOMAIN seen'
      PROVE  c \in DOMAIN seen /\ seen[c] = Window
  <2>1. c \in DOMAIN ages /\ ~(ages[c] <= Window)
    BY <1>1, <1>3, <1>7
  <2> QED
    BY <1>1, <1>4, <1>5, <2>1
<1>8. Depth = Window + 2 /\ i.found \subseteq Copies
  BY DepthShape, AnswerShape DEF SInv, Before, Inputs
<1>9. DOMAIN seen \subseteq Copies
  BY DEF SInv, CopiesInv
<1>10. past'[1].found = i.found
  <2>1. past'[1] = Evidence(i)
    BY NewPast
  <2>2. Evidence(i).found = i.found
    BY DEF Evidence
  <2> QED
    BY <2>1, <2>2
<1> QED
  BY <1>1, <1>3, <1>4, <1>6, <1>7, <1>8, <1>9, <1>10

LEMMA CopiesTyped ==
    ASSUME SInv, NEW i, Before(i), family = "copies", CopiesScan(i) PROVE TypeOK'
<1>1. /\ DOMAIN seen' \subseteq Copies \cup {Bridge}
      /\ \A x \in DOMAIN seen' : seen'[x] \in 0..Window
  BY CopiesOf
<1>2. critical' \in BOOLEAN
  <2>1. critical \in BOOLEAN
    BY DEF SInv, TypeOK
  <2>2. \/ critical' = critical
        \/ critical' = (i.confirmed \/ (Corruption \in active /\ critical))
    BY DEF CopiesScan
  <2> QED
    BY <2>1, <2>2
<1>3. active' \subseteq Alarms
  BY DEF CopiesScan, Settle, Alarms, SInv, TypeOK
<1>4. UNCHANGED <<saved, misses, streak, listed, root, cycles>>
  BY DEF CopiesScan
<1>5. /\ saved \in [Switches -> Trees \cup {Nothing}]
      /\ misses \in [Switches -> 0..SwitchDownAfter]
      /\ streak \in [Switches -> 0..StaleScans] /\ listed \subseteq Switches
      /\ root \in [Switches -> Roots \cup {Nothing}] /\ cycles \in 0..2
  BY DEF SInv, TypeOK
<1> QED
  BY <1>1, <1>2, <1>3, <1>4, <1>5, ScanTyped DEF TypeOK

LEMMA CopiesKept ==
    ASSUME SInv, NEW i, Before(i), family = "copies", CopiesScan(i)
    PROVE  CopiesInv'
<1>1. /\ Len(past') = AtMost(Len(past), Depth - 1) + 1 /\ Len(past) \in Nat
      /\ \A j \in 2..Len(past') : past'[j] = past[j - 1]
  BY NewPast
<1>2. /\ Window \in Nat /\ Depth = Window + 2 /\ past'[1].found = i.found
      /\ DOMAIN seen' \subseteq Copies
  BY CopiesOf
<1>3. ASSUME NEW c \in DOMAIN seen'
      PROVE  Len(past') > seen'[c] /\ c \in past'[seen'[c] + 1].found
  <2>1. /\ seen'[c] = IF c \in DOMAIN seen THEN seen[c] + 1 ELSE 0
        /\ seen'[c] \in 0..Window
        /\ c \in DOMAIN seen \cup i.found
    BY CopiesOf
  <2>2. CASE c \notin DOMAIN seen
    <3>1. seen'[c] = 0 /\ c \in i.found
      BY <2>1, <2>2
    <3>2. Len(past') > 0 /\ seen'[c] + 1 = 1
      BY <1>1, <1>2, <3>1 DEF AtMost
    <3> QED
      BY <1>2, <3>1, <3>2
  <2>3. CASE c \in DOMAIN seen
    <3>1. Len(past) > seen[c] /\ c \in past[seen[c] + 1].found
      BY <2>3 DEF SInv, CopiesInv
    <3>2. seen[c] \in 0..Window
      BY <2>3 DEF SInv, TypeOK
    <3>3. seen'[c] = seen[c] + 1 /\ seen[c] + 1 <= Window
      BY <1>2, <2>1, <2>3
    <3>4. /\ Len(past') > seen'[c] /\ seen'[c] + 1 \in 2..Len(past')
          /\ (seen'[c] + 1) - 1 = seen[c] + 1
      BY <1>1, <1>2, <3>1, <3>2, <3>3 DEF AtMost
    <3>5. past'[seen'[c] + 1] = past[seen[c] + 1]
      BY <1>1, <3>4
    <3> QED
      BY <3>1, <3>4, <3>5
  <2> QED
    BY <2>2, <2>3
<1> QED
  BY <1>2, <1>3 DEF CopiesInv

\* The copies remembered were all found inside the window.
LEMMA CopiesCounted ==
    ASSUME SInv, NEW i, Before(i), family = "copies", CopiesScan(i)
    PROVE  /\ Cardinality(DOMAIN seen') \in Nat
           /\ Cardinality(FoundWithin(Window + 1)') \in Nat
           /\ Cardinality(DOMAIN seen') <= Cardinality(FoundWithin(Window + 1)')
<1>1. Window \in Nat /\ \A c \in DOMAIN seen' : seen'[c] \in 0..Window
  BY CopiesOf
<1>2. Len(past') \in Nat /\ past' \in Seq(Evidences)
  BY NewPast, LenProperties
<1>3. CopiesInv'
  BY CopiesKept
<1>4. FoundWithin(Window + 1)' = UNION {past'[j].found : j \in Scans(Window + 1)'}
  BY DEF FoundWithin
<1>5. Scans(Window + 1)' = 1..AtMost(Window + 1, Len(past'))
  BY DEF Scans
<1>6. DOMAIN seen' \subseteq FoundWithin(Window + 1)'
  <2>1. ASSUME NEW c \in DOMAIN seen' PROVE c \in FoundWithin(Window + 1)'
    <3>1. Len(past') > seen'[c] /\ c \in past'[seen'[c] + 1].found
      BY <1>3 DEF CopiesInv
    <3>2. seen'[c] + 1 \in Scans(Window + 1)'
      BY <1>1, <1>2, <1>5, <3>1 DEF AtMost
    <3> QED
      BY <1>4, <3>1, <3>2
  <2> QED
    BY <2>1
<1>7. FoundWithin(Window + 1)' \subseteq Copies
  <2>1. ASSUME NEW j \in Scans(Window + 1)' PROVE past'[j].found \subseteq Copies
    <3>1. j \in 1..Len(past')
      BY <1>1, <1>2, <1>5 DEF AtMost
    <3>2. past'[j] \in Evidences
      BY <1>2, <3>1, ElementOfSeq
    <3> QED
      BY <3>2 DEF Evidences
  <2> QED
    BY <1>4, <2>1
<1>8. IsFiniteSet(FoundWithin(Window + 1)')
  BY <1>7, FS_Subset, ScanAssumption
<1> QED
  BY <1>6, <1>8, FS_Subset, FS_CardinalityType

LEMMA CopiesBacked ==
    ASSUME SInv, NEW i, Before(i), family = "copies", CopiesScan(i),
           NEW a \in active' \ active
    PROVE  Backed(a)'
<1>1. a = Corruption /\ Cardinality(DOMAIN seen') >= CopiesThreshold
  BY DEF CopiesScan, Settle
<1>2. Cardinality(FoundWithin(Window + 1)') >= CopiesThreshold
  BY <1>1, CopiesCounted, ScanAssumption
<1> QED
  BY <1>1, <1>2, AlarmKinds DEF Backed

LEMMA CopiesRefuted ==
    ASSUME SInv, NEW i, Before(i), family = "copies", CopiesScan(i),
           NEW a \in active \ active'
    PROVE  Refuted(a)'
<1>1. a = Corruption /\ DOMAIN seen' = {}
  BY DEF CopiesScan, Settle
<1>2. /\ Len(past') = AtMost(Len(past), Depth - 1) + 1 /\ Len(past) \in Nat
      /\ \A j \in 2..Len(past') : past'[j] = past[j - 1]
  BY NewPast
<1>3. Window \in Nat /\ Depth = Window + 2 /\ past'[1].found = i.found
  BY CopiesOf
<1>4. Scans(Window + 2)' = 1..AtMost(Window + 2, Len(past'))
  BY DEF Scans
<1>5. ASSUME NEW c \in i.found
      PROVE  c \in UNION {past'[j].found : j \in Scans(Window + 2)' \ {1}}
  <2>1. c \in DOMAIN seen /\ seen[c] = Window
    BY <1>1, CopiesOf
  <2>2. Len(past) > Window /\ c \in past[Window + 1].found
    BY <2>1 DEF SInv, CopiesInv
  <2>3. /\ Window + 2 \in 2..Len(past') /\ (Window + 2) - 1 = Window + 1
        /\ Window + 2 \in Scans(Window + 2)' \ {1}
    BY <1>2, <1>3, <1>4, <2>2 DEF AtMost
  <2>4. past'[Window + 2] = past[Window + 1]
    BY <1>2, <2>3
  <2> QED
    BY <2>2, <2>3, <2>4
<1>6. past'[1].found \subseteq
         UNION {past'[j].found : j \in Scans(Window + 2)' \ {1}}
  BY <1>3, <1>5
<1> QED
  BY <1>1, <1>6, AlarmKinds DEF Refuted

-----------------------------------------------------------------------------
(* unmanaged_bridge_detected *)

\* What is remembered of the bridge after a scan.
LEMMA BridgeOf ==
    ASSUME SInv, NEW i, Before(i), family = "bridge", BridgeScan(i)
    PROVE  /\ DOMAIN seen' \subseteq {Bridge}
           /\ \A b \in DOMAIN seen' :
                 /\ seen'[b] \in 0..Window
                 /\ \/ seen'[b] = 0
                    \/ b \in DOMAIN seen /\ seen'[b] = seen[b] + 1
                       /\ i.sight # "access"
           /\ \A b \in DOMAIN seen \ DOMAIN seen' :
                 \/ i.sight = "suppressed"
                 \/ seen[b] = Window /\ i.sight # "access"
           /\ past'[1].sight = i.sight /\ i.sight \in Sights
           /\ Window \in Nat /\ Depth = Window + 2
<1>1. /\ DOMAIN seen \subseteq {Bridge} /\ Window \in Nat
      /\ \A b \in DOMAIN seen : seen[b] \in 0..Window
  BY ScanAssumption DEF SInv, TypeOK, BridgeInv
<1>2. i.sight \in Sights /\ Depth = Window + 2
  BY DepthShape DEF SInv, Before, Inputs, Sights
<1>3. past'[1].sight = i.sight
  <2>1. past'[1] = Evidence(i)
    BY NewPast
  <2>2. Evidence(i).sight = i.sight
    BY DEF Evidence
  <2> QED
    BY <2>1, <2>2
<1>4. seen' = Sightings(i)
  BY DEF BridgeScan
<1>5. CASE i.sight = "access"
  <2>1. seen' = Within([b \in {Bridge} |-> 0])
    BY <1>4, <1>5 DEF Sightings
  <2>2. DOMAIN seen' = {Bridge} /\ seen'[Bridge] = 0
    BY <1>1, <2>1 DEF Within
  <2> QED
    BY <1>1, <1>2, <1>3, <2>2
<1>6. CASE i.sight = "suppressed"
  <2>1. seen' = Within([b \in {} |-> 0])
    BY <1>4, <1>6 DEF Sightings
  <2>2. DOMAIN seen' = {}
    BY <2>1 DEF Within
  <2> QED
    BY <1>1, <1>2, <1>3, <1>6, <2>2
<1>7. CASE i.sight # "access" /\ i.sight # "suppressed"
  <2>1. seen' = Within([b \in DOMAIN seen |-> seen[b] + 1])
    BY <1>4, <1>7 DEF Sightings
  <2>2. /\ DOMAIN seen' = {b \in DOMAIN seen : seen[b] + 1 <= Window}
        /\ \A b \in DOMAIN seen' : seen'[b] = seen[b] + 1
    BY <2>1 DEF Within
  <2>3. ASSUME NEW b \in DOMAIN seen'
        PROVE  /\ seen'[b] \in 0..Window /\ b \in DOMAIN seen
               /\ seen'[b] = seen[b] + 1
    BY <1>1, <2>2
  <2>4. ASSUME NEW b \in DOMAIN seen \ DOMAIN seen' PROVE seen[b] = Window
    BY <1>1, <2>2
  <2>5. DOMAIN seen' \subseteq {Bridge}
    BY <1>1, <2>2
  <2> QED
    BY <1>1, <1>2, <1>3, <1>7, <2>3, <2>4, <2>5
<1> QED
  BY <1>5, <1>6, <1>7

LEMMA BridgeTyped ==
    ASSUME SInv, NEW i, Before(i), family = "bridge", BridgeScan(i) PROVE TypeOK'
<1>1. /\ DOMAIN seen' \subseteq Copies \cup {Bridge}
      /\ \A x \in DOMAIN seen' : seen'[x] \in 0..Window
  BY BridgeOf
<1>2. active' \subseteq Alarms
  BY DEF BridgeScan, Settle, Alarms, SInv, TypeOK
<1>3. UNCHANGED <<saved, misses, streak, listed, root, cycles, critical>>
  BY DEF BridgeScan
<1>4. /\ saved \in [Switches -> Trees \cup {Nothing}]
      /\ misses \in [Switches -> 0..SwitchDownAfter]
      /\ streak \in [Switches -> 0..StaleScans] /\ listed \subseteq Switches
      /\ root \in [Switches -> Roots \cup {Nothing}] /\ cycles \in 0..2
      /\ critical \in BOOLEAN
  BY DEF SInv, TypeOK
<1> QED
  BY <1>1, <1>2, <1>3, <1>4, ScanTyped DEF TypeOK

\* Scans that did not show the bridge stay behind a scan that does not either.
LEMMA Unseen ==
    ASSUME SInv, NEW i, Before(i), family = "bridge", BridgeScan(i),
           NEW b \in DOMAIN seen, i.sight # "access"
    PROVE  \A j \in 1..Len(past') : j <= seen[b] + 1 => past'[j].sight # "access"
<1>1. /\ Len(past') = AtMost(Len(past), Depth - 1) + 1 /\ Len(past) \in Nat
      /\ \A j \in 2..Len(past') : past'[j] = past[j - 1]
  BY NewPast
<1>2. /\ past'[1].sight = i.sight /\ seen[b] \in 0..Window
      /\ Window \in Nat /\ Depth = Window + 2
  BY BridgeOf DEF SInv, TypeOK
<1>3. \A j \in 1..Len(past) : j <= seen[b] => past[j].sight # "access"
  BY DEF SInv, BridgeInv
<1>4. ASSUME NEW j \in 1..Len(past'), j <= seen[b] + 1
      PROVE  past'[j].sight # "access"
  <2>1. CASE j = 1
    BY <1>2, <2>1
  <2>2. CASE j # 1
    <3>1. j \in 2..Len(past') /\ j - 1 \in 1..Len(past) /\ j - 1 <= seen[b]
      BY <1>1, <1>2, <1>4, <2>2 DEF AtMost
    <3> QED
      BY <1>1, <1>3, <3>1
  <2> QED
    BY <2>1, <2>2
<1> QED
  BY <1>4

LEMMA BridgeKept ==
    ASSUME SInv, NEW i, Before(i), family = "bridge", BridgeScan(i)
    PROVE  BridgeInv'
<1>1. ASSUME NEW b \in DOMAIN seen', NEW j \in 1..Len(past'), j <= seen'[b]
      PROVE  past'[j].sight # "access"
  <2>1. \/ seen'[b] = 0
        \/ b \in DOMAIN seen /\ seen'[b] = seen[b] + 1 /\ i.sight # "access"
    BY BridgeOf
  <2>2. Len(past') \in Nat
    BY NewPast
  <2>3. CASE seen'[b] = 0
    BY <1>1, <2>2, <2>3
  <2>4. CASE b \in DOMAIN seen /\ seen'[b] = seen[b] + 1 /\ i.sight # "access"
    BY <1>1, <2>4, Unseen
  <2> QED
    BY <2>1, <2>3, <2>4
<1>2. DOMAIN seen' \subseteq {Bridge}
  BY BridgeOf
<1> QED
  BY <1>1, <1>2 DEF BridgeInv

LEMMA BridgeBacked ==
    ASSUME SInv, NEW i, Before(i), family = "bridge", BridgeScan(i),
           NEW a \in active' \ active
    PROVE  Backed(a)'
<1>1. a = Bridge /\ i.sight = "access"
  BY DEF BridgeScan, Settle
<1>2. past'[1].sight = "access"
  BY <1>1, BridgeOf
<1> QED
  BY <1>1, <1>2, AlarmKinds DEF Backed

LEMMA BridgeRefuted ==
    ASSUME SInv, NEW i, Before(i), family = "bridge", BridgeScan(i),
           NEW a \in active \ active'
    PROVE  Refuted(a)'
<1>1. \/ a = Bridge /\ i.sight = "suppressed"
      \/ a \in DOMAIN seen \ DOMAIN seen'
  BY DEF BridgeScan, Settle
<1>2. a = Bridge
  BY <1>1 DEF SInv, BridgeInv
<1>3. past'[1].sight = i.sight
  BY BridgeOf
<1>4. CASE i.sight = "suppressed"
  BY <1>2, <1>3, <1>4, AlarmKinds DEF Refuted
<1>5. CASE a \in DOMAIN seen \ DOMAIN seen' /\ i.sight # "suppressed"
  <2>1. seen[a] = Window /\ i.sight # "access" /\ Window \in Nat
    BY <1>5, BridgeOf
  <2>2. Scans(Window + 1)' = 1..AtMost(Window + 1, Len(past')) /\ Len(past') \in Nat
    BY NewPast DEF Scans
  <2>3. \A j \in 1..Len(past') : j <= Window + 1 => past'[j].sight # "access"
    BY <1>5, <2>1, Unseen
  <2>4. \A j \in Scans(Window + 1)' : past'[j].sight # "access"
    BY <2>1, <2>2, <2>3 DEF AtMost
  <2> QED
    BY <1>2, <2>4, AlarmKinds DEF Refuted
<1> QED
  BY <1>1, <1>4, <1>5

-----------------------------------------------------------------------------
(* Every step *)

LEMMA ScanKept ==
    ASSUME SInv, Scan
    PROVE  /\ SInv'
           /\ \A a \in active' \ active : Backed(a)'
           /\ \A a \in active \ active' : Refuted(a)'
<1>1. PICK i : /\ Before(i)
               /\ \/ family = "polls"  /\ PollScan(i)
                  \/ family = "trees"  /\ TreeScan(i)
                  \/ family = "copies" /\ CopiesScan(i)
                  \/ family = "bridge" /\ BridgeScan(i)
  BY ScanIs
<1>2. past' \in Seq(Evidences) /\ family' = family
  BY <1>1, ScanTyped
<1>3. CASE family = "polls" /\ PollScan(i)
  <2>1. SInv'
    BY <1>1, <1>2, <1>3, PollsTyped, PollsKept DEF SInv
  <2> QED
    BY <1>1, <1>3, <2>1, PollsBacked, PollsRefuted
<1>4. CASE family = "trees" /\ TreeScan(i)
  <2>1. SInv'
    BY <1>1, <1>2, <1>4, TreesTyped, TreesKept DEF SInv
  <2> QED
    BY <1>1, <1>4, <2>1, TreesBacked, TreesRefuted
<1>5. CASE family = "copies" /\ CopiesScan(i)
  <2>1. SInv'
    BY <1>1, <1>2, <1>5, CopiesTyped, CopiesKept DEF SInv
  <2> QED
    BY <1>1, <1>5, <2>1, CopiesBacked, CopiesRefuted
<1>6. CASE family = "bridge" /\ BridgeScan(i)
  <2>1. SInv'
    BY <1>1, <1>2, <1>6, BridgeTyped, BridgeKept DEF SInv
  <2> QED
    BY <1>1, <1>6, <2>1, BridgeBacked, BridgeRefuted
<1> QED
  BY <1>1, <1>3, <1>4, <1>5, <1>6

\* Nothing is remembered: the start of the service, and every other one.
LEMMA Forgotten ==
    ASSUME saved = [s \in Switches |-> Nothing], misses = [s \in Switches |-> 0],
           streak = [s \in Switches |-> 0], listed = {},
           root = [s \in Switches |-> Nothing], cycles = 0,
           seen = [x \in {} |-> 0], past = <<>>
    PROVE  /\ past \in Seq(Evidences) /\ Len(past) = 0
           /\ PollsInv /\ TreesInv /\ CopiesInv /\ BridgeInv
           /\ DOMAIN seen = {}
<1>1. past \in Seq(Evidences) /\ Len(past) = 0
  OBVIOUS
<1>2. DOMAIN seen = {}
  OBVIOUS
<1>3. PollsInv
  BY <1>1, ScanAssumption DEF PollsInv, RunOfPartials
<1>4. TreesInv
  BY ScanAssumption DEF TreesInv
<1>5. CopiesInv /\ BridgeInv
  BY <1>2 DEF CopiesInv, BridgeInv
<1> QED
  BY <1>1, <1>2, <1>3, <1>4, <1>5

LEMMA Fits ==
    ASSUME family \in Families PROVE Depth \in Nat
<1>1. family \in {"polls", "trees", "copies", "bridge"}
  BY ScanAssumption
<1> QED
  BY <1>1, ScanAssumption DEF Depth

LEMMA RestartKept == ASSUME SInv, Restart PROVE SInv'
<1>1. /\ past' \in Seq(Evidences) /\ Len(past') = 0
      /\ PollsInv' /\ TreesInv' /\ CopiesInv' /\ BridgeInv'
      /\ DOMAIN seen' = {}
  <2>1. /\ saved' = [s \in Switches |-> Nothing] /\ misses' = [s \in Switches |-> 0]
        /\ streak' = [s \in Switches |-> 0] /\ listed' = {}
        /\ root' = [s \in Switches |-> Nothing] /\ cycles' = 0
        /\ seen' = [x \in {} |-> 0] /\ past' = <<>>
    BY DEF Restart
  <2>2. past' \in Seq(Evidences) /\ Len(past') = 0 /\ DOMAIN seen' = {}
    BY <2>1
  <2>3. PollsInv'
    BY <2>1, <2>2, ScanAssumption DEF PollsInv, RunOfPartials
  <2>4. TreesInv'
    BY <2>1, ScanAssumption DEF TreesInv
  <2>5. CopiesInv' /\ BridgeInv'
    BY <2>2 DEF CopiesInv, BridgeInv
  <2> QED
    BY <2>2, <2>3, <2>4, <2>5
<1>2. TypeOK'
  <2>1. /\ saved' = [s \in Switches |-> Nothing] /\ misses' = [s \in Switches |-> 0]
        /\ streak' = [s \in Switches |-> 0] /\ listed' = {}
        /\ root' = [s \in Switches |-> Nothing] /\ cycles' = 0
        /\ UNCHANGED <<family, input, active, critical, beat>>
        /\ restarts < MaxRestarts /\ restarts' = restarts + 1
    BY DEF Restart
  <2>2. /\ family \in Families /\ input \in Inputs(family)
        /\ active \subseteq Alarms /\ critical \in BOOLEAN /\ beat \in BOOLEAN
        /\ restarts \in 0..MaxRestarts
    BY DEF SInv, TypeOK
  <2>3. Len(past') <= Depth'
    <3>1. Depth' = Depth /\ Depth \in Nat
      BY <2>1, <2>2, Fits DEF Depth
    <3> QED
      BY <1>1, <3>1
  <2>4. restarts' \in 0..MaxRestarts
    BY <2>1, <2>2, ScanAssumption
  <2>5. /\ saved' \in [Switches -> Trees \cup {Nothing}]
        /\ misses' \in [Switches -> 0..SwitchDownAfter]
        /\ streak' \in [Switches -> 0..StaleScans]
        /\ listed' \subseteq Switches
        /\ root' \in [Switches -> Roots \cup {Nothing}] /\ cycles' \in 0..2
    BY <2>1, ScanAssumption DEF SwitchDownAfter
  <2> QED
    BY <1>1, <2>1, <2>2, <2>3, <2>4, <2>5 DEF TypeOK
<1> QED
  BY <1>1, <1>2 DEF SInv

LEMMA InitKept == ASSUME Init PROVE SInv
<1>1. /\ past \in Seq(Evidences) /\ Len(past) = 0
      /\ PollsInv /\ TreesInv /\ CopiesInv /\ BridgeInv
      /\ DOMAIN seen = {}
  BY Forgotten DEF Init
<1>2. TypeOK
  <2>1. Depth \in Nat
    BY Fits DEF Init
  <2>2. /\ family \in Families /\ input \in Inputs(family)
        /\ active = {} /\ critical = FALSE /\ beat = FALSE /\ restarts = 0
    BY DEF Init
  <2>3. /\ saved \in [Switches -> Trees \cup {Nothing}]
        /\ misses \in [Switches -> 0..SwitchDownAfter]
        /\ streak \in [Switches -> 0..StaleScans]
        /\ listed \subseteq Switches
        /\ root \in [Switches -> Roots \cup {Nothing}] /\ cycles \in 0..2
    BY ScanAssumption DEF Init, SwitchDownAfter
  <2>4. Len(past) <= Depth /\ restarts \in 0..MaxRestarts
    BY <1>1, <2>1, <2>2, ScanAssumption
  <2> QED
    BY <1>1, <2>2, <2>3, <2>4 DEF TypeOK
<1> QED
  BY <1>1, <1>2 DEF SInv

\* Nothing a detector remembers changes but by a scan or a start.
LEMMA SInvStable ==
    ASSUME SInv, UNCHANGED <<family, input, critical, memory, past, beat, restarts>>,
           active' \subseteq active
    PROVE  SInv'
<1>1. TypeOK'
  BY DEF SInv, TypeOK, memory, Depth
<1>2. PollsInv' <=> PollsInv
  BY DEF PollsInv, LastSilent, RunOfPartials, Depth, memory
<1>3. /\ TreesInv' <=> TreesInv
      /\ CopiesInv' <=> CopiesInv
      /\ BridgeInv' <=> BridgeInv
  BY DEF TreesInv, CopiesInv, BridgeInv, memory
<1> QED
  BY <1>1, <1>2, <1>3 DEF SInv

LEMMA NextKept ==
    ASSUME SInv, [Next]_vars
    PROVE  /\ SInv'
           /\ \A a \in active' \ active : Backed(a)'
           /\ Scan => \A a \in active \ active' : Refuted(a)'
<1>1. CASE Scan
  BY <1>1, ScanKept
<1>2. CASE Restart
  <2>1. active' = active
    BY <1>2 DEF Restart
  <2> QED
    BY <1>2, <2>1, RestartKept
<1>3. ASSUME NEW a \in Alarms, ManualClear(a)
      PROVE  /\ SInv' /\ active' \subseteq active
  <2>1. /\ UNCHANGED <<family, input, critical, memory, past, beat, restarts>>
        /\ active' \subseteq active
    BY <1>3 DEF ManualClear
  <2> QED
    BY <2>1, SInvStable
<1>4. CASE UNCHANGED vars
  <2>1. UNCHANGED <<family, input, critical, memory, past, beat, restarts>>
        /\ active' = active
    BY <1>4 DEF vars
  <2>2. SInv'
    BY <2>1, SInvStable
  <2> QED
    BY <2>1, <2>2
<1>5. CASE ~Scan /\ ~Restart /\ ~UNCHANGED vars
  <2>1. PICK a \in Alarms : ManualClear(a)
    BY <1>5 DEF Next
  <2> QED
    BY <1>5, <2>1, <1>3
<1> QED
  BY <1>1, <1>2, <1>4, <1>5

\* The detectors remember what the scans since the start have collected.
THEOREM ScanInvariance == Spec => []SInv
<1>1. Init => SInv
  BY InitKept
<1>2. SInv /\ [Next]_vars => SInv'
  BY NextKept
<1> QED
  BY <1>1, <1>2, PTL DEF Spec

\* However many switches, roots and copies there are and however long the
\* windows: no alarm of a scan comes without the evidence its rule names in the
\* scans since the service started, and no scan closes one without a reason.
THEOREM ScanEvidence == Spec => AlarmsFollowEvidence
<1>1. SInv => TypeOK
  BY DEF SInv
<1>2. SInv /\ [Next]_vars => [\A a \in active' \ active : Backed(a)']_vars
  BY NextKept
<1>3. SInv /\ [Next]_vars => [Scan => \A a \in active \ active' : Refuted(a)']_vars
  BY NextKept
<1> QED
  BY <1>1, <1>2, <1>3, ScanInvariance, PTL
    DEF Spec, AlarmsFollowEvidence, RaisedOnEvidence, ClearedOnEvidence
=============================================================================
