------------------------ MODULE PingDetectorsProofs ------------------------
(***************************************************************************)
(* The alarms of a ping cycle for any number of hosts and ports: what the  *)
(* detectors remember is what the pings have said, so neither alarm comes  *)
(* or goes without its evidence.                                           *)
(***************************************************************************)
EXTENDS PingDetectors, FiniteSetTheorems, SequenceTheorems, TLAPS

\* The last answers a host gave, one more in front.
Heard(s, answers) == <<answers>> \o SubSeq(s, 1, AtMost(Len(s), HostDownAfter - 1))

LEMMA HeardShape ==
    ASSUME NEW s \in Seq(BOOLEAN), NEW x \in BOOLEAN
    PROVE  /\ Heard(s, x) \in Seq(BOOLEAN)
           /\ Len(Heard(s, x)) = AtMost(Len(s), 2) + 1
           /\ Heard(s, x)[1] = x
           /\ \A j \in 2..Len(Heard(s, x)) : Heard(s, x)[j] = s[j - 1]
<1> DEFINE n == AtMost(Len(s), 2)
           t == SubSeq(s, 1, n)
<1>1. Len(s) \in Nat /\ n \in 0..Len(s) /\ n \in Nat
  BY LenProperties DEF AtMost
<1>2. \A j \in 1..n : s[j] \in BOOLEAN
  BY <1>1, ElementOfSeq
<1>3. t \in Seq(BOOLEAN) /\ Len(t) = n /\ \A j \in 1..n : t[j] = s[j]
  <2> HIDE DEF n
  <2>1. /\ SubSeq(s, 1, n) \in Seq(BOOLEAN)
        /\ Len(SubSeq(s, 1, n)) = IF 1 <= n THEN n - 1 + 1 ELSE 0
        /\ \A i \in 1..(n - 1 + 1) : SubSeq(s, 1, n)[i] = s[1 + i - 1]
    BY <1>1, <1>2, SubSeqProperties
  <2> QED
    BY <1>1, <2>1
<1>4. <<x>> \in Seq(BOOLEAN) /\ Len(<<x>>) = 1 /\ <<x>>[1] = x
  OBVIOUS
<1>5. Heard(s, x) = <<x>> \o t
  BY DEF Heard, HostDownAfter
<1> HIDE DEF t, n
<1>6. /\ <<x>> \o t \in Seq(BOOLEAN)
      /\ Len(<<x>> \o t) = 1 + n
      /\ \A i \in 1..(1 + n) : (<<x>> \o t)[i] = IF i <= 1 THEN x ELSE t[i - 1]
  BY <1>3, <1>4, ConcatProperties
<1> QED
  BY <1>1, <1>3, <1>5, <1>6 DEF n

-----------------------------------------------------------------------------
(* A cycle, in its parts *)

Silent(up)   == {h \in targets \ up : /\ Fails(up)[h] >= HostDownAfter
                                      /\ h \in monitored /\ ~Stale(h)}
Standing(up) == (active \ {HostDown(h) : h \in up})
                   \cup {HostDown(h) : h \in Silent(up)}
                   \cup {PortDown(p) : p \in Outages(up)}
Open(up)     == {p \in DOMAIN Affected(up) : PortDown(p) \in Standing(up)}
Over(up)     == Recovered(Affected(up), up) \cap Open(up)

PingWith(up) ==
    /\ up \subseteq targets
    /\ fails' = Fails(up) /\ upStreak' = UpStreak(up)
    /\ massSets' = [p \in Open(up) \ Over(up) |-> Affected(up)[p]]
    /\ active' = Standing(up) \ {PortDown(p) : p \in Over(up)}
    /\ heard' = [h \in Hosts |-> IF h \in targets THEN Heard(heard[h], h \in up)
                                 ELSE heard[h]]
    /\ answering' = up /\ beat' = ~beat
    /\ UNCHANGED <<inventory, restarts>>

LEMMA PingIs == ASSUME Ping PROVE \E up : PingWith(up)
<1>1. PICK up \in SUBSET targets :
         LET affected == Affected(up)
             silent   == {h \in targets \ up : /\ Fails(up)[h] >= HostDownAfter
                                               /\ h \in monitored /\ ~Stale(h)}
             standing == (active \ {HostDown(h) : h \in up})
                           \cup {HostDown(h) : h \in silent}
                           \cup {PortDown(p) : p \in Outages(up)}
             open     == {p \in DOMAIN affected : PortDown(p) \in standing}
             over     == Recovered(affected, up) \cap open
         IN /\ fails' = Fails(up)
            /\ upStreak' = UpStreak(up)
            /\ massSets' = [p \in open \ over |-> affected[p]]
            /\ active' = standing \ {PortDown(p) : p \in over}
            /\ heard' = [h \in Hosts |->
                           IF h \in targets
                           THEN <<h \in up>> \o SubSeq(heard[h], 1,
                                    AtMost(Len(heard[h]), HostDownAfter - 1))
                           ELSE heard[h]]
            /\ answering' = up /\ beat' = ~beat
  BY DEF Ping
<1>2. UNCHANGED <<inventory, restarts>>
  BY DEF Ping
<1>3. PingWith(up)
  BY <1>1, <1>2 DEF PingWith, Silent, Standing, Open, Over, Heard
<1> QED
  BY <1>3

\* No host's alarm is a port's, and each alarm says whose it is.
LEMMA AlarmsDiffer ==
    /\ \A h, g : HostDown(h) = HostDown(g) => h = g
    /\ \A p, q : PortDown(p) = PortDown(q) => p = q
    /\ \A h, p : HostDown(h) # PortDown(p)
  BY DEF HostDown, PortDown

-----------------------------------------------------------------------------
(* The inductive invariant *)

\* A row of misses and a row of answers are in what the host was heard to say.
Tells(s, misses, answers) ==
    /\ Len(s) >= misses /\ \A j \in 1..misses : s[j] = FALSE
    /\ Len(s) >= answers /\ \A j \in 1..answers : s[j] = TRUE

Remembers(h) == Tells(heard[h], fails[h], upStreak[h])

\* Of the hosts counted in an outage fewer than half answered the last cycle:
\* it would be over otherwise.
FewAnswer(p) ==
    massSets[p] # {}
       => Cardinality(massSets[p] \cap answering) * 2 < Cardinality(massSets[p])

PInv == /\ TypeOK
        /\ \A h \in Hosts : Remembers(h)
        /\ \A p \in DOMAIN massSets : FewAnswer(p)

LEMMA CountersTyped ==
    ASSUME TypeOK, NEW up, up \subseteq targets
    PROVE  /\ Fails(up) \in [Hosts -> 0..HostDownAfter]
           /\ UpStreak(up) \in [Hosts -> 0..MinUpStreak]
           /\ \A h \in Hosts : Fails(up)[h] = 0 \/ UpStreak(up)[h] = 0
<1>1. /\ fails \in [Hosts -> 0..3] /\ upStreak \in [Hosts -> 0..2]
      /\ \A h \in Hosts : fails[h] = 0 \/ upStreak[h] = 0
  BY DEF TypeOK, HostDownAfter, MinUpStreak
<1>2. ASSUME NEW h \in Hosts
      PROVE  /\ Fails(up)[h] \in 0..3 /\ UpStreak(up)[h] \in 0..2
             /\ Fails(up)[h] = 0 \/ UpStreak(up)[h] = 0
  BY <1>1 DEF Fails, UpStreak, AtMost, HostDownAfter, MinUpStreak
<1> QED
  BY <1>2 DEF Fails, UpStreak, HostDownAfter, MinUpStreak

LEMMA AffectedTyped ==
    ASSUME TypeOK, NEW up, up \subseteq targets
    PROVE  /\ DOMAIN Affected(up) \subseteq Ports
           /\ \A p \in DOMAIN Affected(up) : Affected(up)[p] \subseteq Hosts
<1> DEFINE counted == DOMAIN massSets \cup Outages(up)
           rebuilt == {p \in Ports \ counted : PortDown(p) \in active}
<1>1. DOMAIN Affected(up) = counted \cup rebuilt
  BY DEF Affected
<1>2. counted \subseteq Ports /\ rebuilt \subseteq Ports
  BY DEF TypeOK, Outages
<1>3. ASSUME NEW p \in DOMAIN Affected(up) PROVE Affected(up)[p] \subseteq Hosts
  <2>1. NewlyDown(p, up) \subseteq Hosts /\ targets \subseteq Hosts
    BY DEF TypeOK, NewlyDown
  <2>2. p \in DOMAIN massSets => massSets[p] \subseteq Hosts
    BY DEF TypeOK
  <2> QED
    BY <2>1, <2>2, <1>3 DEF Affected
<1> QED
  BY <1>1, <1>2, <1>3

\* Who answers in a cycle and is counted in an outage was counted before.
LEMMA AnswersWereCounted ==
    ASSUME NEW up, NEW p \in DOMAIN Affected(up), NEW h \in Affected(up)[p],
           h \in up
    PROVE  p \in DOMAIN massSets /\ h \in massSets[p]
           /\ massSets[p] \subseteq Affected(up)[p]
<1>1. h \notin NewlyDown(p, up) /\ h \notin targets \ up
  BY DEF NewlyDown
<1> QED
  BY <1>1 DEF Affected

\* The shape of everything after a cycle.
LEMMA PingTyped == ASSUME TypeOK, NEW up, PingWith(up) PROVE TypeOK'
<1>1. up \subseteq targets /\ up \subseteq Hosts
  BY DEF PingWith, TypeOK
<1>2. /\ known' \subseteq Hosts /\ place' \in [Hosts -> Ports \cup {Nowhere}]
      /\ fresh' \subseteq Hosts /\ monitored' \subseteq Hosts
      /\ targets' \subseteq Hosts /\ answering' \subseteq Hosts
      /\ beat' \in BOOLEAN /\ restarts' \in 0..MaxRestarts
  BY <1>1 DEF PingWith, TypeOK, inventory
<1>3. active' \subseteq Alarms
  <2>1. active \subseteq Alarms /\ targets \subseteq Hosts
    BY DEF TypeOK
  <2>2. Standing(up) \subseteq Alarms
    BY <2>1 DEF Standing, Silent, Outages, Alarms
  <2> QED
    BY <2>2 DEF PingWith
<1>4. /\ fails' \in [Hosts -> 0..HostDownAfter]
      /\ upStreak' \in [Hosts -> 0..MinUpStreak]
      /\ \A h \in Hosts : fails'[h] = 0 \/ upStreak'[h] = 0
  BY <1>1, CountersTyped DEF PingWith
<1>5. /\ DOMAIN massSets' \subseteq Ports
      /\ \A p \in DOMAIN massSets' : massSets'[p] \subseteq Hosts
  BY <1>1, AffectedTyped DEF PingWith, Open
<1>6. ASSUME NEW h \in Hosts PROVE heard'[h] \in Seq(BOOLEAN)
  <2>1. heard[h] \in Seq(BOOLEAN)
    BY DEF TypeOK
  <2>2. heard'[h] = IF h \in targets THEN Heard(heard[h], h \in up) ELSE heard[h]
    BY DEF PingWith
  <2>3. (h \in up) \in BOOLEAN
    OBVIOUS
  <2>4. Heard(heard[h], h \in up) \in Seq(BOOLEAN)
    BY <2>1, <2>3, HeardShape
  <2> QED
    BY <2>1, <2>2, <2>4
<1> QED
  BY <1>2, <1>3, <1>4, <1>5, <1>6 DEF TypeOK

\* One answer or one miss more, as the counters count them.
LEMMA OneMore ==
    ASSUME NEW s \in Seq(BOOLEAN), NEW f \in 0..3, NEW u \in 0..2, Tells(s, f, u)
    PROVE  /\ Tells(Heard(s, TRUE), 0, AtMost(u + 1, 2))
           /\ Tells(Heard(s, FALSE), AtMost(f + 1, 3), 0)
<1>0. Len(s) \in Nat
  BY LenProperties
<1>1. \A x \in BOOLEAN :
        /\ Len(Heard(s, x)) = AtMost(Len(s), 2) + 1
        /\ Heard(s, x)[1] = x
        /\ \A j \in 2..Len(Heard(s, x)) : Heard(s, x)[j] = s[j - 1]
  BY HeardShape
<1>2. /\ Len(s) >= f /\ \A j \in 1..f : s[j] = FALSE
      /\ Len(s) >= u /\ \A j \in 1..u : s[j] = TRUE
  BY DEF Tells
<1>3. Tells(Heard(s, TRUE), 0, AtMost(u + 1, 2))
  <2> DEFINE t == Heard(s, TRUE)
  <2>1. /\ Len(t) = AtMost(Len(s), 2) + 1 /\ t[1] = TRUE
        /\ \A j \in 2..Len(t) : t[j] = s[j - 1]
    BY <1>1
  <2> HIDE DEF t
  <2>2. Len(t) >= AtMost(u + 1, 2) /\ Len(t) >= 0
    BY <1>0, <1>2, <2>1 DEF AtMost
  <2>3. ASSUME NEW j \in 1..AtMost(u + 1, 2) PROVE t[j] = TRUE
    <3>1. CASE j = 1
      BY <2>1, <3>1
    <3>2. CASE j # 1
      <4>1. j \in 2..Len(t) /\ j - 1 \in 1..u
        BY <1>0, <1>2, <2>1, <2>2, <3>2 DEF AtMost
      <4> QED
        BY <1>2, <2>1, <4>1
    <3> QED
      BY <3>1, <3>2
  <2>4. \A j \in 1..0 : FALSE
    OBVIOUS
  <2>5. Tells(t, 0, AtMost(u + 1, 2))
    BY <2>2, <2>3, <2>4 DEF Tells
  <2> QED
    BY <2>5 DEF t
<1>4. Tells(Heard(s, FALSE), AtMost(f + 1, 3), 0)
  <2> DEFINE t == Heard(s, FALSE)
  <2>1. /\ Len(t) = AtMost(Len(s), 2) + 1 /\ t[1] = FALSE
        /\ \A j \in 2..Len(t) : t[j] = s[j - 1]
    BY <1>1
  <2> HIDE DEF t
  <2>2. Len(t) >= AtMost(f + 1, 3) /\ Len(t) >= 0
    BY <1>0, <1>2, <2>1 DEF AtMost
  <2>3. ASSUME NEW j \in 1..AtMost(f + 1, 3) PROVE t[j] = FALSE
    <3>1. CASE j = 1
      BY <2>1, <3>1
    <3>2. CASE j # 1
      <4>1. j \in 2..Len(t) /\ j - 1 \in 1..f
        BY <1>0, <1>2, <2>1, <2>2, <3>2 DEF AtMost
      <4> QED
        BY <1>2, <2>1, <4>1
    <3> QED
      BY <3>1, <3>2
  <2>4. \A j \in 1..0 : FALSE
    OBVIOUS
  <2>5. Tells(t, AtMost(f + 1, 3), 0)
    BY <2>2, <2>3, <2>4 DEF Tells
  <2> QED
    BY <2>5 DEF t
<1> QED
  BY <1>3, <1>4

\* What a host is remembered for after a cycle it was heard to do.
LEMMA PingRemembers ==
    ASSUME TypeOK, \A h \in Hosts : Remembers(h), NEW up, PingWith(up),
           NEW h \in Hosts
    PROVE  Remembers(h)'
<1>1. heard[h] \in Seq(BOOLEAN) /\ fails[h] \in 0..3 /\ upStreak[h] \in 0..2
  BY DEF TypeOK, HostDownAfter, MinUpStreak
<1>2. Tells(heard[h], fails[h], upStreak[h])
  BY DEF Remembers
<1>3. /\ Tells(Heard(heard[h], TRUE), 0, AtMost(upStreak[h] + 1, 2))
      /\ Tells(Heard(heard[h], FALSE), AtMost(fails[h] + 1, 3), 0)
  BY <1>1, <1>2, OneMore
<1>4. CASE h \notin targets
  <2>1. fails'[h] = fails[h] /\ upStreak'[h] = upStreak[h] /\ heard'[h] = heard[h]
    BY <1>4 DEF PingWith, Fails, UpStreak
  <2> QED
    BY <1>2, <2>1 DEF Remembers
<1>5. CASE h \in targets /\ h \in up
  <2>1. /\ fails'[h] = 0 /\ upStreak'[h] = AtMost(upStreak[h] + 1, 2)
        /\ heard'[h] = Heard(heard[h], h \in up)
    BY <1>5 DEF PingWith, Fails, UpStreak, MinUpStreak
  <2>2. (h \in up) = TRUE
    BY <1>5
  <2>3. heard'[h] = Heard(heard[h], TRUE)
    BY <2>1, <2>2
  <2> QED
    BY <1>3, <2>1, <2>3 DEF Remembers
<1>6. CASE h \in targets \ up
  <2>1. /\ upStreak'[h] = 0 /\ fails'[h] = AtMost(fails[h] + 1, 3)
        /\ heard'[h] = Heard(heard[h], h \in up)
    BY <1>6 DEF PingWith, Fails, UpStreak, HostDownAfter
  <2>2. (h \in up) = FALSE
    BY <1>6
  <2>3. heard'[h] = Heard(heard[h], FALSE)
    BY <2>1, <2>2
  <2> QED
    BY <1>3, <2>1, <2>3 DEF Remembers
<1> QED
  BY <1>4, <1>5, <1>6

\* An outage that is not over has fewer than half of its hosts answering.
LEMMA PingFew ==
    ASSUME TypeOK, NEW up, PingWith(up), NEW p \in DOMAIN massSets'
    PROVE  FewAnswer(p)'
<1>1. /\ p \in Open(up) \ Over(up) /\ massSets'[p] = Affected(up)[p]
      /\ answering' = up
  BY DEF PingWith
<1>2. p \in DOMAIN Affected(up) /\ p \notin Recovered(Affected(up), up)
  BY <1>1 DEF Open, Over
<1>3. /\ Affected(up)[p] \subseteq Hosts /\ IsFiniteSet(Hosts)
  BY <1>2, AffectedTyped, PingAssumption DEF PingWith
<1>4. /\ IsFiniteSet(Affected(up)[p]) /\ IsFiniteSet(Affected(up)[p] \cap up)
  BY <1>3, FS_Subset
<1>5. /\ Cardinality(Affected(up)[p]) \in Nat
      /\ Cardinality(Affected(up)[p] \cap up) \in Nat
  BY <1>4, FS_CardinalityType
<1>6. Affected(up)[p] # {}
        => ~(Cardinality(Affected(up)[p] \cap up) * 2 >= Cardinality(Affected(up)[p]))
  BY <1>2 DEF Recovered
<1> QED
  BY <1>1, <1>5, <1>6 DEF FewAnswer

LEMMA PingInvariant == ASSUME PInv, Ping PROVE PInv'
<1>1. PICK up : PingWith(up)
  BY PingIs
<1>2. TypeOK' /\ (\A h \in Hosts : Remembers(h)')
  BY <1>1, PingTyped, PingRemembers DEF PInv
<1>3. \A p \in DOMAIN massSets' : FewAnswer(p)'
  BY <1>1, PingFew DEF PInv
<1> QED
  BY <1>2, <1>3 DEF PInv

LEMMA InitInvariant == Init => PInv
<1> SUFFICES ASSUME Init PROVE PInv
  OBVIOUS
<1>1. /\ known \subseteq Hosts /\ fresh \subseteq Hosts /\ monitored \subseteq Hosts
      /\ targets \subseteq Hosts /\ answering \subseteq Hosts
      /\ active \subseteq Alarms
  BY DEF Init
<1>5. place \in [Hosts -> Ports \cup {Nowhere}]
  <2>1. PICK p \in Ports : place = [h \in Hosts |-> p]
    BY DEF Init
  <2> QED
    BY <2>1
<1>6. beat \in BOOLEAN /\ restarts \in 0..MaxRestarts
  <2>1. beat = FALSE /\ restarts = 0
    BY DEF Init
  <2>2. 0 \in 0..MaxRestarts
    BY PingAssumption
  <2> QED
    BY <2>1, <2>2
<1>2. /\ fails \in [Hosts -> 0..HostDownAfter]
      /\ upStreak \in [Hosts -> 0..MinUpStreak]
      /\ \A h \in Hosts : /\ fails[h] = 0 /\ upStreak[h] = 0
                          /\ heard[h] \in Seq(BOOLEAN) /\ heard[h] = <<>>
  BY DEF Init, HostDownAfter, MinUpStreak
<1>3. DOMAIN massSets = {}
  BY DEF Init
<1>4. \A h \in Hosts : Remembers(h)
  BY <1>2 DEF Remembers, Tells
<1> QED
  BY <1>1, <1>2, <1>3, <1>4, <1>5, <1>6 DEF PInv, TypeOK

\* What happens between two cycles touches neither the memory nor the history,
\* unless all of the memory goes.
LEMMA BetweenInvariant ==
    ASSUME PInv, Between,
           known' \subseteq Hosts, place' \in [Hosts -> Ports \cup {Nowhere}],
           fresh' \subseteq Hosts, monitored' \subseteq Hosts,
           targets' \subseteq Hosts, active' \subseteq Alarms
    PROVE  PInv'
<1>1. UNCHANGED <<fails, upStreak, massSets, heard, answering, beat, restarts>>
  BY DEF Between, memory
<1>2. TypeOK'
  BY <1>1 DEF PInv, TypeOK
<1>3. \A h \in Hosts : Remembers(h)'
  BY <1>1 DEF PInv, Remembers
<1>4. \A p \in DOMAIN massSets : FewAnswer(p)'
  BY <1>1 DEF PInv, FewAnswer
<1> QED
  BY <1>1, <1>2, <1>3, <1>4 DEF PInv

LEMMA RestartInvariant == ASSUME PInv, Restart PROVE PInv'
<1>1. TypeOK'
  <2>1. /\ fails' \in [Hosts -> 0..HostDownAfter]
        /\ upStreak' \in [Hosts -> 0..MinUpStreak]
        /\ \A h \in Hosts : fails'[h] = 0 \/ upStreak'[h] = 0
        /\ \A h \in Hosts : heard'[h] \in Seq(BOOLEAN)
        /\ DOMAIN massSets' = {}
    BY DEF Restart, HostDownAfter, MinUpStreak
  <2>2. restarts' \in 0..MaxRestarts
    BY PingAssumption DEF Restart, PInv, TypeOK
  <2>3. UNCHANGED <<known, place, fresh, monitored, targets, active, answering, beat>>
    BY DEF Restart, inventory
  <2> QED
    BY <2>1, <2>2, <2>3 DEF PInv, TypeOK
<1>2. ASSUME NEW h \in Hosts PROVE Remembers(h)'
  <2>1. fails'[h] = 0 /\ upStreak'[h] = 0 /\ heard'[h] = <<>>
    BY DEF Restart
  <2> QED
    BY <2>1 DEF Remembers, Tells
<1>3. DOMAIN massSets' = {}
  BY DEF Restart
<1> QED
  BY <1>1, <1>2, <1>3 DEF PInv

LEMMA NextInvariant == PInv /\ [Next]_vars => PInv'
<1> SUFFICES ASSUME PInv, [Next]_vars PROVE PInv'
  OBVIOUS
<1>0. /\ known \subseteq Hosts /\ place \in [Hosts -> Ports \cup {Nowhere}]
      /\ fresh \subseteq Hosts /\ monitored \subseteq Hosts
      /\ targets \subseteq Hosts /\ active \subseteq Alarms
      /\ Restless \subseteq Hosts
  BY PingAssumption DEF PInv, TypeOK
<1>1. ASSUME NEW h \in Restless, Age(h) \/ Readdress(h) \/ Monitor(h) \/ Delete(h)
      PROVE  PInv'
  BY <1>0, <1>1, BetweenInvariant DEF Age, Readdress, Monitor, Delete
<1>2. ASSUME NEW h \in Restless, NEW p \in Ports, Move(h, p) PROVE PInv'
  BY <1>0, <1>2, BetweenInvariant DEF Move
<1>3. ASSUME NEW a \in Alarms, ManualClear(a) PROVE PInv'
  BY <1>0, <1>3, BetweenInvariant DEF ManualClear, inventory
<1>4. CASE UNCHANGED vars
  <2>1. Between
    BY <1>4 DEF vars, Between, memory
  <2> QED
    BY <1>0, <1>4, <2>1, BetweenInvariant DEF vars, inventory
<1> QED
  BY <1>1, <1>2, <1>3, <1>4, PingInvariant, RestartInvariant DEF Next

THEOREM PingInvariance == Spec => []PInv
<1>1. Init => PInv
  BY InitInvariant
<1>2. PInv /\ [Next]_vars => PInv'
  BY NextInvariant
<1> QED
  BY <1>1, <1>2, PTL DEF Spec

-----------------------------------------------------------------------------
(* Raised and cleared *)

\* Nothing but a ping cycle opens an alarm.
LEMMA OnlyPingRaises ==
    ASSUME [Next]_vars, NEW a, a \in active' \ active PROVE Ping
<1>1. ASSUME NEW h, Age(h) \/ Readdress(h) \/ Monitor(h) \/ Delete(h) PROVE FALSE
  BY <1>1 DEF Age, Readdress, Monitor, Delete
<1>2. ASSUME NEW h, NEW p, Move(h, p) PROVE FALSE
  BY <1>2 DEF Move
<1>3. ASSUME NEW b, ManualClear(b) PROVE FALSE
  BY <1>3 DEF ManualClear
<1>4. ~Restart /\ ~UNCHANGED vars
  BY DEF Restart, vars
<1> QED
  BY <1>1, <1>2, <1>3, <1>4 DEF Next

\* A host's alarm is raised on three misses in a row.
LEMMA HostRaised ==
    ASSUME PInv, PInv', NEW up, PingWith(up), NEW h \in Hosts,
           HostDown(h) \in active' \ active
    PROVE  Missed(h, HostDownAfter)' /\ h \in monitored /\ ~Stale(h)
<1>1. HostDown(h) \in Standing(up)
  BY DEF PingWith
<1>2. h \in Silent(up)
  BY <1>1, AlarmsDiffer DEF Standing
<1>3. h \in monitored /\ ~Stale(h) /\ Fails(up)[h] >= 3
  BY <1>2 DEF Silent, HostDownAfter
<1>4. fails'[h] \in 0..3 /\ fails'[h] >= 3
  BY <1>3 DEF PingWith, PInv, TypeOK, HostDownAfter
<1>5. fails'[h] = 3
  BY <1>4
<1>6. Len(heard'[h]) >= 3 /\ \A j \in 1..3 : heard'[h][j] = FALSE
  BY <1>5 DEF PInv, Remembers, Tells
<1>7. Len(heard'[h]) >= 3 /\ \A j \in 1..3 : ~heard'[h][j]
  BY <1>6
<1> QED
  BY <1>3, <1>7 DEF Missed, HostDownAfter

\* A port's alarm on enough hosts of it that went silent in this cycle.
LEMMA PortRaised ==
    ASSUME PInv, NEW up, PingWith(up), NEW p \in Ports,
           PortDown(p) \in active' \ active
    PROVE  Cardinality({h \in Hosts : WentSilent(h)' /\ place[h] = p})
              >= MassDownHosts
<1> DEFINE S == {h \in Hosts : WentSilent(h)' /\ place[h] = p}
<1>1. PortDown(p) \in Standing(up)
  BY DEF PingWith
<1>2. p \in Outages(up)
  BY <1>1, AlarmsDiffer DEF Standing
<1>3. Cardinality(NewlyDown(p, up)) >= MassDownHosts
  BY <1>2 DEF Outages
<1>4. ASSUME NEW h \in NewlyDown(p, up) PROVE h \in S
  <2>1. h \in targets \ up /\ upStreak[h] >= 2 /\ place[h] = p /\ h \in Hosts
    BY <1>4 DEF NewlyDown, MinUpStreak, PInv, TypeOK
  <2>2. heard[h] \in Seq(BOOLEAN) /\ upStreak[h] \in 0..2 /\ Len(heard[h]) \in Nat
    BY <2>1, LenProperties DEF PInv, TypeOK, MinUpStreak
  <2>3. upStreak[h] = 2
    BY <2>1, <2>2
  <2>4. Len(heard[h]) >= 2 /\ \A j \in 1..2 : heard[h][j] = TRUE
    BY <2>1, <2>3 DEF PInv, Remembers, Tells
  <2>5. heard'[h] = Heard(heard[h], FALSE)
    <3>1. heard'[h] = Heard(heard[h], h \in up)
      BY <2>1 DEF PingWith
    <3>2. (h \in up) = FALSE
      BY <2>1
    <3> QED
      BY <3>1, <3>2
  <2>6. /\ Len(heard'[h]) = AtMost(Len(heard[h]), 2) + 1 /\ heard'[h][1] = FALSE
        /\ \A j \in 2..Len(heard'[h]) : heard'[h][j] = heard[h][j - 1]
    <3> DEFINE s == heard[h]
               t == Heard(s, FALSE)
    <3>1. s \in Seq(BOOLEAN) /\ FALSE \in BOOLEAN
      BY <2>2
    <3> HIDE DEF s
    <3>2. /\ Len(t) = AtMost(Len(s), 2) + 1 /\ t[1] = FALSE
          /\ \A j \in 2..Len(t) : t[j] = s[j - 1]
      BY <3>1, HeardShape
    <3>3. heard'[h] = t
      BY <2>5 DEF s
    <3> HIDE DEF t
    <3> QED
      BY <3>2, <3>3 DEF s
  <2>7. Len(heard'[h]) = 3
    BY <2>2, <2>4, <2>6 DEF AtMost
  <2>8. ASSUME NEW j \in 2..3 PROVE heard'[h][j] = TRUE
    <3>1. j - 1 \in 1..2 /\ j \in 2..Len(heard'[h])
      BY <2>7
    <3>2. heard'[h][j] = heard[h][j - 1]
      BY <2>6, <3>1
    <3> QED
      BY <2>4, <3>1, <3>2
  <2>9. WentSilent(h)'
    <3>1. Len(heard'[h]) > 2 /\ ~heard'[h][1] /\ \A j \in 2..3 : heard'[h][j]
      <4>1. Len(heard'[h]) > 2
        BY <2>7
      <4>2. ~heard'[h][1]
        BY <2>6
      <4>3. ASSUME NEW j \in 2..3 PROVE heard'[h][j]
        BY <2>8
      <4> QED
        BY <4>1, <4>2, <4>3
    <3> QED
      BY <3>1 DEF WentSilent, MinUpStreak
  <2> QED
    BY <2>1, <2>9
<1>5. IsFiniteSet(S) /\ S \subseteq Hosts
  BY PingAssumption, FS_Subset
<1>6. NewlyDown(p, up) \subseteq S
  BY <1>4
<1>7. /\ Cardinality(NewlyDown(p, up)) <= Cardinality(S)
      /\ Cardinality(NewlyDown(p, up)) \in Nat /\ Cardinality(S) \in Nat
  BY <1>5, <1>6, FS_Subset, FS_CardinalityType
<1> HIDE DEF S
<1>8. Cardinality(S) >= MassDownHosts
  BY <1>3, <1>7, PingAssumption
<1> QED
  BY <1>8 DEF S

\* A port's alarm is over when enough of the counted hosts answer, and not
\* enough of them did in the cycle before.
LEMMA PortCleared ==
    ASSUME PInv, NEW up, PingWith(up), NEW p \in Ports,
           PortDown(p) \in active \ active'
    PROVE  /\ p \in DOMAIN massSets
           /\ \E h \in massSets[p] : h \in answering' \ answering
<1> DEFINE A == Affected(up)[p]
<1>1. PortDown(p) \in Standing(up)
  BY AlarmsDiffer DEF Standing
<1>2. p \in Over(up)
  BY <1>1, AlarmsDiffer DEF PingWith
<1>3. /\ p \in DOMAIN Affected(up) /\ A # {}
      /\ Cardinality(A \cap up) * 2 >= Cardinality(A)
  BY <1>2 DEF Over, Open, Recovered
<1>4. A \subseteq Hosts
  BY <1>3, AffectedTyped DEF PingWith, PInv
<1>5. IsFiniteSet(A) /\ IsFiniteSet(A \cap up)
  BY <1>4, FS_Subset, PingAssumption
<1>6. Cardinality(A) \in Nat /\ Cardinality(A) # 0 /\ Cardinality(A \cap up) \in Nat
  BY <1>3, <1>5, FS_CardinalityType, FS_EmptySet
<1>7. A \cap up # {}
  BY <1>3, <1>6, FS_EmptySet
<1>8. p \in DOMAIN massSets /\ massSets[p] \subseteq A /\ A \cap up \subseteq massSets[p]
  BY <1>3, <1>7, AnswersWereCounted
<1>9. massSets[p] # {} /\ FewAnswer(p)
  BY <1>7, <1>8 DEF PInv
<1>10. \E h \in massSets[p] : h \in up \ answering
  <2> SUFFICES ASSUME \A h \in massSets[p] : h \in up => h \in answering
               PROVE  FALSE
    OBVIOUS
  <2> HIDE DEF A
  <2>1. A \cap up \subseteq massSets[p] \cap answering
    BY <1>8
  <2>2. IsFiniteSet(massSets[p]) /\ IsFiniteSet(massSets[p] \cap answering)
    BY <1>5, <1>8, FS_Subset
  <2>3. /\ Cardinality(A \cap up) <= Cardinality(massSets[p] \cap answering)
        /\ Cardinality(massSets[p]) <= Cardinality(A)
        /\ Cardinality(massSets[p] \cap answering) \in Nat
        /\ Cardinality(massSets[p]) \in Nat
    BY <1>5, <1>8, <2>1, <2>2, FS_Subset, FS_CardinalityType
  <2>4. Cardinality(massSets[p] \cap answering) * 2 < Cardinality(massSets[p])
    BY <1>9 DEF FewAnswer
  <2> QED
    BY <1>3, <1>6, <2>3, <2>4
<1>11. answering' = up
  BY DEF PingWith
<1> QED
  BY <1>8, <1>10, <1>11

\* Neither alarm of a ping cycle is raised or cleared without its evidence, for
\* any number of hosts and ports and any threshold.  on_ping's counters are what
\* the pings since the start have said (Remembers), and an outage that is not
\* over has fewer than half of its hosts answering (FewAnswer), so that only a
\* host that comes back can close it.
THEOREM PingEvidence == Spec => AlarmsFollowAnswers
<1>1. PInv /\ [Next]_vars => PInv'
  BY NextInvariant
<1>2. PInv /\ PInv' /\ [Next]_vars
        => [/\ \A h \in Hosts : HostDown(h) \in active' \ active =>
                 Missed(h, HostDownAfter)' /\ h \in monitored /\ ~Stale(h)
            /\ \A p \in Ports : PortDown(p) \in active' \ active =>
                 Cardinality({h \in Hosts : WentSilent(h)' /\ place[h] = p})
                    >= MassDownHosts]_vars
  BY OnlyPingRaises, PingIs, HostRaised, PortRaised
<1>3. PInv /\ [Next]_vars
        => [Ping => \A p \in Ports : PortDown(p) \in active \ active' =>
              /\ p \in DOMAIN massSets
              /\ \E h \in massSets[p] : h \in answering' \ answering]_vars
  BY PingIs, PortCleared
<1>4. PInv => TypeOK
  BY DEF PInv
<1>5. Spec => []TypeOK
  BY <1>4, PingInvariance, PTL
<1>6. Spec => RaisedOnEvidence
  BY <1>1, <1>2, PingInvariance, PTL DEF Spec, RaisedOnEvidence
<1>7. Spec => ClearedByAnswer
  BY <1>3, PingInvariance, PTL DEF Spec, ClearedByAnswer
<1> QED
  BY <1>5, <1>6, <1>7, PTL DEF AlarmsFollowAnswers
=============================================================================
