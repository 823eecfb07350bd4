----------------------------- MODULE Collector -----------------------------
(***************************************************************************)
(* How moonlan/snmp_collector.py reads the tables of one switch, and what  *)
(* it makes of them.  A walk asks for one row after another; when the      *)
(* agent falls silent in the middle, the walk is opened again behind the   *)
(* last row that came, RetriesOnBreak times.  A table that Strikes walks   *)
(* in a row find silent from the first row on is left alone for Cooldown   *)
(* scans.  The counters cycle (moonlan/counters.py) walks through the same *)
(* collector and asks port by port for what a broken walk left out.        *)
(*                                                                         *)
(* Of the tables, those are modelled that decide which port an address is  *)
(* on: interfaces and their types, LAG-MIB membership, bridge ports, and   *)
(* the forwarding table.                                                   *)
(***************************************************************************)
EXTENDS Integers, Sequences, FiniteSets, Functions

CONSTANTS
    Agents,          \* the states a switch's agent can be in
    Tables(_),       \* an agent's tables: OID -> sequence of rows
    RetriesOnBreak,  \* snmp.retries_on_break
    Strikes,         \* snmp.dead_oid_strikes; 0 never pauses
    Cooldown         \* snmp.dead_oid_cooldown_scans

\* the walks of collect in their order, then the columns of collect_samples
ScanWalks == <<"descr", "type", "lag", "map", "fdb">>
Columns   == {"hc", "c32"}
OIDs      == Range(ScanWalks) \cup Columns

\* an agent: does it answer at all, which tables it is silent about, and
\* which it may stop answering in the middle of; the counter columns are
\* indexed by ifIndex, which starts at 1
CollectorAssumption ==
    /\ RetriesOnBreak \in Nat /\ Strikes \in Nat /\ Cooldown \in Nat \ {0}
    /\ \A a \in Agents : /\ a.up \in BOOLEAN
                         /\ a.deaf \subseteq OIDs /\ a.weak \subseteq OIDs
                         /\ DOMAIN Tables(a) = OIDs
                         /\ \A o \in OIDs :
                               /\ Tables(a)[o] \in Seq(Range(Tables(a)[o]))
                               /\ \A r \in Range(Tables(a)[o]) : r.there \in BOOLEAN
                         /\ \A r \in Range(Tables(a)["c32"]) : r.at \in Nat \ {0}

NoWalk == [oid |-> "none", last |-> 0, resumes |-> 0]
NoData == [ports |-> {}, physical |-> {}, lag |-> <<>>, groups |-> <<>>,
           fdb |-> <<>>]

VARIABLES
    agent,
    job,       \* "idle", "scan" (collect), "counters" (collect_samples)
    todo,      \* the walks of the job that are left
    walk,      \* the walk under way: its OID, the last row that came, resumes
    got,       \* OID -> the rows its walk has yielded, in this job
    status,    \* _walk_status, of the walks of this job
    dead,      \* _dead_oids: strikes; scans left of a pause; 0 < left: paused
    data,      \* SwitchData, while it is built and until the next scan
    samples,   \* port -> which counter the sample of it is from
    silence,   \* history: walks in a row without a row that timed out
    unasked    \* history: scans in a row that skipped the walk, capped

reading == <<job, todo, walk, got, status>>
collectorVars == <<agent, reading, dead, data, samples, silence, unasked>>

Blank  == [error |-> "none", truncated |-> FALSE]
Unread == [o \in OIDs |-> <<>>]
Fine   == [o \in OIDs |-> Blank]
Lively == [strikes |-> 0, skip |-> FALSE, left |-> 0]

Rows(o) == Tables(agent)[o]
IsRow(r) == r.there             \* FALSE: the agent says noSuchInstance
Complete(o) == status[o] = Blank

Init ==
    /\ agent \in Agents
    /\ job = "idle" /\ todo = <<>> /\ walk = NoWalk
    /\ got = Unread /\ status = Fine
    /\ dead = [o \in OIDs |-> Lively]
    /\ data = NoData /\ samples = <<>>
    /\ silence = [o \in OIDs |-> 0] /\ unasked = [o \in OIDs |-> 0]

----------------------------------------------------------------------------
(* The agent *)

SameSwitch(a, b) == Tables(a) = Tables(b)

\* (bound: between two jobs)
AgentChanges ==
    /\ job = "idle"
    /\ agent' \in {a \in Agents : SameSwitch(a, agent)} \ {agent}
    /\ UNCHANGED <<reading, dead, data, samples, silence, unasked>>

----------------------------------------------------------------------------
(* Jobs *)

\* begin_scan_cycle: every pause is one scan shorter
OneScanLess(d) == [o \in OIDs |->
    IF d[o].left > 0 THEN [d[o] EXCEPT !.left = @ - 1] ELSE d[o]]

Walks(kind, list) ==
    /\ job' = kind /\ todo' = list /\ walk' = NoWalk
    /\ got' = Unread /\ status' = Fine

BeginScan ==
    /\ job = "idle"
    /\ dead' = OneScanLess(dead)
    /\ data' = NoData /\ samples' = <<>>
    /\ IF agent.up THEN Walks("scan", ScanWalks)      \* sysName answers
       ELSE UNCHANGED reading                         \* not reachable
    /\ UNCHANGED <<agent, silence, unasked>>

\* the counters cycle polls a switch the last scan has read
BeginCounters ==
    /\ job = "idle" /\ data # NoData
    /\ Walks("counters", <<"hc">>)
    /\ samples' = <<>>
    /\ UNCHANGED <<agent, dead, data, silence, unasked>>

\* the budget of a scan's poll is over: whatever is under way is cancelled,
\* and no outcome is counted
BudgetEnds ==
    /\ job = "scan"
    /\ Walks("idle", <<>>)
    /\ UNCHANGED <<agent, dead, data, samples, silence, unasked>>

----------------------------------------------------------------------------
(* One walk *)

\* _skipping finds the pause over
PauseOver(o) == [dead EXCEPT ![o] = Lively]

\* mutant: the cycle is not looked at
SkippedForGood(o) == dead[o].skip
Skipped(o) == dead[o].skip /\ dead[o].left > 0

OpenWalk ==
    /\ job # "idle" /\ walk = NoWalk /\ todo # <<>>
    /\ ~Skipped(Head(todo))
    /\ dead' = IF dead[Head(todo)].skip THEN PauseOver(Head(todo)) ELSE dead
    /\ silence' = IF dead[Head(todo)].skip
                  THEN [silence EXCEPT ![Head(todo)] = 0] ELSE silence
    /\ walk' = [NoWalk EXCEPT !.oid = Head(todo)]
    /\ unasked' = [unasked EXCEPT ![Head(todo)] = 0]
    /\ UNCHANGED <<agent, job, todo, got, status, data, samples>>

\* a paused table is not asked for, and does not look like an empty one
SkipWalk ==
    /\ job # "idle" /\ walk = NoWalk /\ todo # <<>>
    /\ Skipped(Head(todo))
    /\ status' = [status EXCEPT ![Head(todo)].error = "skipped"]
    /\ todo' = Tail(todo)
    /\ unasked' = IF job = "scan" /\ unasked[Head(todo)] < Cooldown
                  THEN [unasked EXCEPT ![Head(todo)] = @ + 1] ELSE unasked
    /\ UNCHANGED <<agent, job, walk, got, dead, data, samples, silence>>

\* the next row of the table comes; noSuchInstance moves the walk on and is
\* no row
Row ==
    /\ walk # NoWalk /\ walk.oid \notin agent.deaf
    /\ walk.last < Len(Rows(walk.oid))
    /\ walk' = [walk EXCEPT !.last = @ + 1]
    /\ LET r == Rows(walk.oid)[walk.last + 1]
       IN got' = IF IsRow(r) THEN [got EXCEPT ![walk.oid] = Append(@, r)]
                 ELSE got
    /\ UNCHANGED <<agent, job, todo, status, dead, data, samples, silence,
                   unasked>>

\* _note_walk_outcome: silence is counted, anything else forgets the count
Silent(o, error) == got[o] = <<>> /\ error = "timeout"

\* mutant: a walk that got rows leaves the strikes
NotedSilence(o, error) ==
    IF ~Silent(o, error) \/ Strikes = 0 THEN dead
    ELSE IF dead[o].strikes + 1 < Strikes
    THEN [dead EXCEPT ![o].strikes = @ + 1]
    ELSE [dead EXCEPT ![o] = [strikes |-> Strikes, skip |-> TRUE,
                              left |-> Cooldown]]

Noted(o, error) ==
    IF ~Silent(o, error) THEN [dead EXCEPT ![o] = Lively]
    ELSE IF Strikes = 0 THEN dead
    ELSE IF dead[o].strikes + 1 < Strikes
    THEN [dead EXCEPT ![o].strikes = @ + 1]
    ELSE [dead EXCEPT ![o] = [strikes |-> Strikes, skip |-> TRUE,
                              left |-> Cooldown]]

WalkOver(error) ==
    /\ dead' = Noted(walk.oid, error)
    /\ silence' = [silence EXCEPT ![walk.oid] =
          IF ~Silent(walk.oid, error) THEN 0
          ELSE IF @ < Strikes THEN @ + 1 ELSE @]
    /\ walk' = NoWalk /\ todo' = Tail(todo)

\* the subtree is left, or the agent has no more: the outcome is read off the
\* status, in which the error of a break that was overcome has stayed
Finished ==
    /\ walk # NoWalk /\ walk.oid \notin agent.deaf
    /\ walk.last = Len(Rows(walk.oid))
    /\ WalkOver(status[walk.oid].error)
    /\ UNCHANGED <<agent, job, got, status, data, samples, unasked>>

\* the errors a walk breaks with; only silence is a timeout
Breaks == IF walk.oid \in agent.deaf THEN {"timeout"}
          ELSE IF walk.oid \in agent.weak THEN {"timeout", "refused"} ELSE {}

CanResume == walk.resumes < RetriesOnBreak /\ walk.last > 0

\* mutant: the walk is opened again at its first row
ResumedFromStart ==
    [walk EXCEPT !.resumes = @ + 1, !.last = 0]

Resumed == [walk EXCEPT !.resumes = @ + 1]

BreakResumed ==
    /\ walk # NoWalk /\ CanResume
    /\ \E error \in Breaks :
          status' = [status EXCEPT ![walk.oid].error = error]
    /\ walk' = Resumed
    /\ UNCHANGED <<agent, job, todo, got, dead, data, samples, silence, unasked>>

BreakEnds ==
    /\ walk # NoWalk /\ ~CanResume
    /\ \E error \in Breaks :
          /\ status' = [status EXCEPT ![walk.oid] =
                [error |-> error, truncated |-> got[walk.oid] # <<>>]]
          /\ WalkOver(error)
    /\ UNCHANGED <<agent, job, got, data, samples, unasked>>

----------------------------------------------------------------------------
(* What collect makes of the rows *)

Read(o) == Range(got[o])
At(o)   == {r.at : r \in Read(o)}
ValueAt(o, i) == (CHOOSE r \in Read(o) : r.at = i).val

Interfaces == At("descr")
\* physical unless the type says otherwise
Physical == {i \in Interfaces : i \in At("type") => ValueAt("type", i) = "ether"}

Claims == {r \in Read("lag") : r.val # r.at}
\* mutant: any number is an aggregate
SaneAny(claims) == [m \in {r.at : r \in claims} |->
                       (CHOOSE r \in claims : r.at = m).val]

\* sane_lag_members: an aggregate is an interface, and not the whole switch
Sane(claims) ==
    LET known == {r \in claims : r.val \in Interfaces}
        members(a) == {r.at : r \in {k \in known : k.val = a}}
        kept == {r \in known :
                    Physical = {} \/ ~(Physical \subseteq members(r.val))}
    IN [m \in {r.at : r \in kept} |-> (CHOOSE r \in kept : r.at = m).val]

\* parse_fdb_entry, and the switch's own addresses, at port 0
Station(r) == r.at \notin {"group", "zero"} /\ r.val # 0

\* a bridge port nobody mapped gets an interface of its own
PortOf(b) == IF b \in At("map") THEN ValueAt("map", b) ELSE -b
Fdb == [m \in {r.at : r \in {x \in Read("fdb") : Station(x)}} |->
           PortOf(ValueAt("fdb", m))]
Unmapped == {b \in Range([m \in DOMAIN Fdb |-> ValueAt("fdb", m)]) :
                b \notin At("map")}

\* infer_lag_groups: the physical ports the bridge does not number, each with
\* the unmapped bridge port nearest to it
Missing == {i \in Physical : i > 0} \ At("map")
Trunks  == IF At("map") = {} THEN {} ELSE Unmapped \cap Missing
Apart(i, j) == IF i < j THEN j - i ELSE i - j
NearestTrunk(i) == CHOOSE t \in Trunks : \A u \in Trunks :
    Apart(i, t) < Apart(i, u) \/ (Apart(i, t) = Apart(i, u) /\ t <= u)
Groups == [t \in Trunks |-> {i \in Missing : NearestTrunk(i) = t}]

CollectEnds ==
    /\ job = "scan" /\ walk = NoWalk /\ todo = <<>>
    /\ data' = [ports |-> Interfaces \cup {-b : b \in Unmapped},
                physical |-> Physical, lag |-> Sane(Claims),
                groups |-> Groups, fdb |-> Fdb]
    /\ Walks("idle", <<>>)
    /\ UNCHANGED <<agent, dead, samples, silence, unasked>>

\* aggregate_port
AggregatePort(d, p) ==
    IF p \in DOMAIN d.lag THEN d.lag[p]
    ELSE IF \E t \in DOMAIN d.groups : p \in d.groups[t]
    THEN -(CHOOSE t \in DOMAIN d.groups : p \in d.groups[t])
    ELSE p

----------------------------------------------------------------------------
(* What collect_samples makes of the columns *)

\* the wide column found nothing at all: the narrow one is walked instead
NarrowInstead ==
    /\ job = "counters" /\ walk = NoWalk /\ todo = <<>>
    /\ got["hc"] = <<>> /\ Complete("c32") /\ got["c32"] = <<>>
    /\ todo' = <<"c32">> /\ job' = "narrow"
    /\ UNCHANGED <<agent, walk, got, status, dead, data, samples, silence,
                   unasked>>

\* fill_gaps: a broken wide column, and the narrow one answers a single GET
Missed == {i \in data.ports : i > 0} \ At("hc")
Gaps == IF status["hc"].truncated /\ "c32" \notin agent.deaf
        THEN Missed \cap {r.at : r \in {x \in Range(Rows("c32")) : IsRow(x)}}
        ELSE {}

\* mutant: the sample does not say that it is narrow
SamplesWide ==
    [i \in At("hc") \cup At("c32") \cup Gaps |->
        IF got["hc"] # <<>> THEN "hc" ELSE "c32"]

Samples ==
    [i \in At("hc") \cup At("c32") \cup Gaps |->
        IF i \in At("hc") THEN "hc" ELSE "c32"]

SamplesTaken ==
    /\ \/ job = "counters" /\ got["hc"] # <<>>
       \/ job = "narrow"
    /\ walk = NoWalk /\ todo = <<>>
    /\ samples' = Samples
    /\ Walks("idle", <<>>)
    /\ UNCHANGED <<agent, dead, data, silence, unasked>>

----------------------------------------------------------------------------
Work == \/ OpenWalk \/ SkipWalk \/ Row \/ Finished \/ BreakResumed \/ BreakEnds
        \/ CollectEnds \/ NarrowInstead \/ SamplesTaken

Next == AgentChanges \/ BeginScan \/ BeginCounters \/ BudgetEnds \/ Work

\* a request is answered or times out; scans go on, and the lock they share
\* with the counters cycle serves who waits for it in turn (Polling)
Fairness == SF_collectorVars(BeginScan) /\ WF_collectorVars(Work)

Spec     == Init /\ [][Next]_collectorVars
FairSpec == Spec /\ Fairness

----------------------------------------------------------------------------
(* Properties *)

TypeOK ==
    /\ agent \in Agents /\ job \in {"idle", "scan", "counters", "narrow"}
    /\ todo = <<>> \/ todo[1] \in OIDs
    /\ walk.resumes \in 0..RetriesOnBreak
    /\ \A o \in OIDs : /\ dead[o].strikes \in 0..Strikes
                       /\ dead[o].left \in 0..Cooldown
                       /\ status[o].error \in {"none", "timeout", "refused", "skipped"}
    /\ DOMAIN samples \subseteq data.ports \cup {r.at : r \in
            Range(Rows("hc")) \cup Range(Rows("c32"))}

\* the rows there are among the first k entries of a table
RowsTo(o, k) == {j \in 1..k : IsRow(Rows(o)[j])}

\* each of them has been yielded once, and in the order of the table
Yielded(o, k) ==
    /\ Len(got[o]) = Cardinality(RowsTo(o, k))
    /\ \A j \in RowsTo(o, k) : got[o][Cardinality(RowsTo(o, j))] = Rows(o)[j]

\* However often a walk was broken and opened again, it has yielded every row
\* up to the last that came, once and in order; and a walk that is over and
\* has no error has yielded the whole table.
ReadOnce ==
    /\ walk # NoWalk => Yielded(walk.oid, walk.last)
    /\ \A o \in OIDs \ {walk.oid} :
          (Complete(o) /\ got[o] # <<>>) => Yielded(o, Len(Rows(o)))

\* A table is left alone only after Strikes walks in a row that found it
\* silent, and for fewer than Cooldown scans in a row.
PausedForSilence ==
    \A o \in OIDs : /\ Skipped(o) => silence[o] >= Strikes
                    /\ unasked[o] < Cooldown

\* What a switch has in its tables, however much of them is read: its ports, the
\* members its membership column gives an interface, and the ports its bridge
\* does not number.
Held(a, o)  == {r \in Range(Tables(a)[o]) : IsRow(r)}
Ports(a)    == {r.at : r \in Held(a, "descr")}
Ether(a)    == {p \in Ports(a) : \A r \in Held(a, "type") : r.at = p => r.val = "ether"}
Claim(a, v) == {r.at : r \in {x \in Held(a, "lag") : x.val = v /\ x.at # v}}
Loose(a)    == Ether(a) \ {r.at : r \in Held(a, "map")}

\* the ports an entry of the forwarding table speaks of
Spoken(a, r) ==
    {p \in Ether(a) :
        \/ {p, r.val} \subseteq Loose(a)
        \/ \E x \in Held(a, "map") :
              x.at = r.val /\ (p = x.val \/ p \in Claim(a, x.val))}

\* A switch whose tables are true, up to the troubles the code knows: a number
\* that is no interface, or claimed by every port, may stand in the membership
\* column, and the bridge may leave one trunk unnumbered.  The tables have one
\* row for a port, a bridge port or an address, and ports count from 1.
TrueSwitch(a) ==
    /\ \A o \in OIDs : \A r, s \in Held(a, o) : r.at = s.at => r = s
    /\ Ports(a) \subseteq Nat \ {0} /\ Ether(a) \subseteq DOMAIN a.trunk
    /\ \A v \in Ports(a) :
          \/ Ether(a) \subseteq Claim(a, v)
          \/ \A p, q \in Ether(a) \cap (Claim(a, v) \cup {v}) : a.trunk[p] = a.trunk[q]
    /\ \A p, q \in Loose(a) : a.trunk[p] = a.trunk[q]
    /\ \A r \in Held(a, "map") : r.val \in Nat
    /\ \A r \in {x \in Held(a, "fdb") : Station(x)} :
          r.val \in Nat /\ \A p \in Spoken(a, r) : a.trunk[p] = a.home[r.at]

\* a membership column that names no aggregate the switch does not have
TrueMembership ==
    \A r, s \in Held(agent, "lag") :
        r.val = s.val => agent.trunk[r.at] = agent.trunk[s.at]

\* If the bridge-port and type tables of such a switch were read to their ends,
\* and the membership column too unless it is true, then, wherever the other
\* tables broke off, two ports are taken for one only if they are one trunk, and
\* an address is at the port it really is behind or at none that exists.
CablesApart(d) ==
    LET trunk(p) == agent.trunk[p]
        logical(p) == AggregatePort(d, p)
        standsFor(p) == {q \in d.physical : logical(q) = p}
    IN /\ \A p, q \in DOMAIN agent.trunk \cap d.physical :
             logical(p) = logical(q) => trunk(p) = trunk(q)
       /\ \A m \in DOMAIN d.fdb :
             \/ standsFor(d.fdb[m]) = {}
             \/ \E p \in standsFor(d.fdb[m]) : trunk(p) = agent.home[m]

CablesKeptApart ==
    [][/\ CollectEnds /\ TrueSwitch(agent)
       /\ Complete("map") /\ Complete("type")
       /\ Complete("lag") \/ TrueMembership
       => CablesApart(data')]_collectorVars

\* A sample says which column it is from, and a port the agent counts is left
\* out only if a walk was cut short or the agent was silent.
SamplesAreTrue ==
    [][SamplesTaken =>
        /\ \A i \in DOMAIN samples' : (samples'[i] = "hc") = (i \in At("hc"))
        /\ "c32" \notin agent.deaf /\ Complete("c32") =>
              \A i \in data.ports :
                 (\E r \in Range(Rows("c32")) : r.at = i /\ IsRow(r))
                 => \/ i \in DOMAIN samples'
                    \/ got["hc"] # <<>> /\ ~status["hc"].truncated]_collectorVars

\* A table the agent has learned to answer is read again, again and again,
\* whatever was counted against it.
LearnsAgain ==
    \A o \in Range(ScanWalks) :
        /\ <>[](agent.up /\ o \notin agent.deaf \cup agent.weak)
        /\ <>[][~BudgetEnds]_collectorVars
        => []<>(/\ job = "scan" /\ walk.oid = o
                /\ walk.last = Len(Rows(o)))
=============================================================================
