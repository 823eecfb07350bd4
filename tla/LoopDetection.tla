--------------------------- MODULE LoopDetection ---------------------------
(***************************************************************************)
(* Loop detection of one switch (moonlan/loopdetect.py), read in every     *)
(* counters cycle: which vendor branch is the switch's own, what its       *)
(* per-port table says when the walks over its three columns break off,    *)
(* the word the page shows for it (server.py), and the alarms made of it   *)
(* (AlarmEngine.on_loop_detection).                                        *)
(*                                                                         *)
(* The walks are those of module Collector: a walk brings the first rows   *)
(* of its column, all of them or none.  A status is normal or not, which   *)
(* is all the code knows of it.                                            *)
(***************************************************************************)
EXTENDS Integers, Sequences, FiniteSets, Functions

CONSTANTS
    Families,    \* the branches of the profiles, in their order
    N,           \* physical ports: 1..N
    Models       \* the switches: the branch their sysObjectID names, the one
                 \* they have, what other branches answer, and by how much
                 \* their row numbers differ from port numbers

Neither == "neither"

\* what is assumed of the constants
LoopAssumption ==
    /\ N \in Nat \ {0}
    /\ \A m \in Models : /\ {m.object, m.own} \subseteq Range(Families) \cup {Neither}
                         /\ m.shift \in Nat
                         /\ m.others \in {"silent", "foreign", "bare"}

VARIABLES
    model,       \* the switch
    truth,       \* its state: the global switch, ports watched, ports whose
                 \* status is not the normal one
    table,       \* the last scan read the interfaces 1..table
    data,        \* sw.loop_detection
    alarmed,     \* ports with loop_detected open
    off          \* loop_detection_disabled is open

loopVars == <<model, truth, table, data, alarmed, off>>

Ports == 1..N
Truths == [on : BOOLEAN, watched : SUBSET Ports, loops : SUBSET Ports]
NotPolled == [polled |-> FALSE]
Unsupported == [polled |-> TRUE, supported |-> FALSE]

----------------------------------------------------------------------------
(* One reading *)

\* how far the walks over the index, the enabled and the status column came,
\* and whether the GETs were answered
Answers == [gets : {TRUE}, index : Ports, enabled : 0..N, status : 0..N]
           \cup [gets : BOOLEAN, index : {0}, enabled : {0}, status : {0}]

\* parse_enum of the global scalar: "silent" does not answer, "foreign" answers
\* with something else, "bare" with one of the two values
Parses(f, a) == IF f = model.own THEN a.gets ELSE a.gets /\ model.others = "bare"
\* _read_rows: a branch without an index column has no table
HasRows(f, a) == f = model.own /\ a.index > 0

Accepted(f, a) == Parses(f, a) /\ HasRows(f, a)

\* candidates: the branch sysObjectID names first, then the others as probes
Before(f, g) ==
    \/ f = model.object
    \/ g # model.object /\ \E i, j \in DOMAIN Families :
                              i < j /\ Families[i] = f /\ Families[j] = g
Chosen(a) ==
    LET accepted == {f \in Range(Families) : Accepted(f, a)}
    IN {f \in accepted : \A g \in accepted \ {f} : Before(f, g)}

\* rows are made by whichever column reached them
RowCount(a) == CHOOSE k \in {a.index, a.enabled, a.status} :
                  \A j \in {a.index, a.enabled, a.status} : j <= k
RowNumbers(a) == {k + model.shift : k \in 1..RowCount(a)}

YesNo(is) == IF is THEN "yes" ELSE "no"

\* mutant: what did not arrive is normal
RowOfNormal(r, a) ==
    LET k == r - model.shift IN
    [watched |-> IF k <= a.enabled THEN YesNo(k \in truth.watched) ELSE "unknown",
     looped  |-> YesNo(k <= a.status /\ k \in truth.loops)]

\* what row r says of itself; what did not arrive is unknown, never normal
RowOf(r, a) ==
    LET k == r - model.shift IN
    [watched |-> IF k <= a.enabled THEN YesNo(k \in truth.watched) ELSE "unknown",
     looped  |-> IF k <= a.status THEN YesNo(k \in truth.loops) ELSE "unknown"]

\* map_ports: a row number that is no interface is dropped, and told
Mapped(rows) == rows \cap 1..table
Mismatch(rows) == rows \ 1..table # {} \/ Cardinality(rows) # table

\* collect_loop_detection; without an accepted branch the switch is unread
Reading(a) ==
    IF Chosen(a) = {} THEN Unsupported
    ELSE LET rows == RowNumbers(a) IN
         [polled |-> TRUE, supported |-> TRUE,
          branch |-> CHOOSE f \in Chosen(a) : TRUE,
          enabled |-> truth.on,
          ports |-> [r \in Mapped(rows) |-> RowOf(r, a)],
          mismatch |-> Mismatch(rows),
          truncated |-> a.status \in 1..(N - 1)]

----------------------------------------------------------------------------
(* What is made of it *)

Supported(d) == d.polled /\ d.supported
LoopedPorts(d) == {p \in DOMAIN d.ports : d.ports[p].looped = "yes"
                                          /\ d.ports[p].watched # "no"}

\* LoopDetectionData.status (the global scalar is known once a branch is)
Word(d) ==
    IF LoopedPorts(d) # {} THEN "loop"
    ELSE IF ~d.enabled THEN "disabled"
    ELSE IF d.truncated \/ d.mismatch THEN "partial" ELSE "ok"

\* _loop_port: one port on the panel
PortWord(d, p) ==
    IF p \notin DOMAIN d.ports THEN "unknown"
    ELSE IF d.ports[p].watched = "no" THEN "off"
    ELSE CASE d.ports[p].looped = "yes" -> "loop"
           [] d.ports[p].looped = "no" -> "ok"
           [] d.ports[p].looped = "unknown" -> "unknown"

Says(d, what) == {p \in DOMAIN d.ports : d.ports[p].watched # "no"
                                         /\ d.ports[p].looped = what}

Init ==
    /\ model \in Models /\ truth \in Truths /\ table \in Ports
    /\ data = NotPolled /\ alarmed = {} /\ off = FALSE

\* run_counters: the reading replaces the one before, and the rules see it
CycleReads ==
    /\ \E a \in Answers : data' = Reading(a)
    /\ IF Supported(data')
       THEN /\ off' = ~data'.enabled
            /\ alarmed' = (alarmed \cup Says(data', "yes")) \ Says(data', "no")
       ELSE UNCHANGED <<off, alarmed>>
    /\ UNCHANGED <<model, truth, table>>

Toggled(S, p) == IF p \in S THEN S \ {p} ELSE S \cup {p}

\* loops come and go, and people switch the detection on and off
SwitchChanges ==
    /\ \/ truth' = [truth EXCEPT !.on = ~@]
       \/ \E p \in Ports : \/ truth' = [truth EXCEPT !.loops = Toggled(@, p)]
                           \/ truth' = [truth EXCEPT !.watched = Toggled(@, p)]
    /\ UNCHANGED <<model, table, data, alarmed, off>>

\* a scan reads the interfaces, perhaps not to the end, and keeps the loop
\* detection of the scan before
ScanReads ==
    /\ table' \in Ports
    /\ UNCHANGED <<model, truth, data, alarmed, off>>

\* the open alarms are loaded, the reading is gone
Restart ==
    /\ data' = NotPolled
    /\ UNCHANGED <<model, truth, table, alarmed, off>>

\* an operator closes an alarm
ManualClear ==
    /\ \/ \E p \in alarmed : alarmed' = alarmed \ {p} /\ UNCHANGED off
       \/ off /\ off' = FALSE /\ UNCHANGED alarmed
    /\ UNCHANGED <<model, truth, table, data>>

Next == CycleReads \/ SwitchChanges \/ ScanReads \/ Restart \/ ManualClear

Spec == Init /\ [][Next]_loopVars

----------------------------------------------------------------------------
(* Properties *)

\* A switch is read from its own branch or from none, whatever the branches of
\* other vendors answer; and detection is called disabled only where it was
\* switched off (loopdetect.py: "An unread device must come back unread").
OwnBranch == Supported(data') => /\ data'.branch = model.own
                                 /\ data'.enabled = truth.on

\* The page says that a switch has no loops only if every port that is watched
\* was read and normal, wherever the walks broke off and however little of the
\* interface table is known; and of a port, only if its own row said so.  The
\* status column that brings no row at all is left out: every port is then
\* unknown, and the switch "ok" all the same.
AllClearIsTrue ==
    Supported(data') =>
        /\ Word(data') = "ok" /\ (\E p \in DOMAIN data'.ports :
                                     data'.ports[p].looped # "unknown")
              => truth.loops \cap truth.watched = {}
        /\ \A p \in Ports : PortWord(data', p) = "ok" /\ ~data'.mismatch
              => p \notin truth.loops

\* loop_detected of a port rises only on a loop its own row reports, and no
\* cycle ends it while the row still does, unless the numbers of the rows are
\* known not to match; the alarm of a switched-off detection likewise.
LoopAlarmsFollow ==
    /\ \A p \in alarmed' \ alarmed : p \in truth.loops \/ data'.mismatch
    /\ \A p \in alarmed \ alarmed' : p \notin truth.loops \/ data'.mismatch
    /\ off' # off => off' = ~truth.on

\* What a cycle makes of a new reading is true of the switch it read.
LoopsAreTold ==
    [][data' # data /\ data'.polled =>
          OwnBranch /\ AllClearIsTrue /\ LoopAlarmsFollow]_loopVars
=============================================================================
