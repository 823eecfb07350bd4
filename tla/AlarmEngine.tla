---------------------------- MODULE AlarmEngine ----------------------------
(***************************************************************************)
(* The raise/clear protocol of moonlan/alarms.py: the in-memory set of     *)
(* active alarms, the `alarms` and `journal` tables behind it, and the     *)
(* coroutines that move between the two.                                   *)
(*                                                                         *)
(* The engine runs on one event loop, so the code between two awaits is    *)
(* atomic; every await hands a database call to a thread and lets other    *)
(* coroutines in.  A coroutine is therefore a program counter: "row" and   *)
(* "event" are database calls submitted and not yet executed, "dup" and    *)
(* "back" calls executed whose result the coroutine has not read yet.      *)
(* What the detectors decide (who is down, what is over its threshold) is  *)
(* the environment here: `fault` says whether the condition behind an      *)
(* alarm holds, and a coroutine evaluates it when it starts.               *)
(***************************************************************************)
EXTENDS Naturals, FiniteSets

CONSTANTS
    Keys,          \* (type, subject) pairs
    Instant,       \* keys raised with auto_clear (new_mac)
    Legacy,        \* keys load() clears once (subjects of old versions)
    Confirmable,   \* keys whose standing alarm may be escalated
    Monitors,      \* the coroutines that evaluate conditions
    Operators,     \* HTTP requests that clear an alarm by its id
    Boot,          \* the startup coroutine (lifespan)
    Owners,        \* Owners[k]: the monitors that raise and clear k
    Janitors,      \* Janitors[k]: the monitors that only clear k
    LoadLimit,     \* rows load() asks for (1000 in the code)
    MaxRows,       \* bound: alarm rows ever inserted
    MaxCrashes,    \* bound: crashes
    MaxDbErrors    \* bound: database calls that raise

Procs == Monitors \cup Operators \cup {Boot}
Ids   == 1..MaxRows

ASSUME EngineAssumption ==
    /\ Instant \subseteq Keys /\ Legacy \subseteq Keys
    /\ Confirmable \subseteq Keys \ Instant
    /\ Owners \in [Keys -> SUBSET Monitors]
    /\ Janitors \in [Keys -> SUBSET Monitors]
    /\ LoadLimit \in Nat /\ MaxRows \in Nat \ {0}
    /\ MaxCrashes \in Nat /\ MaxDbErrors \in Nat

Ops   == {"raise", "escalate", "clear", "manual"}
Kinds == {"raised", "escalated", "cleared"}
PCs   == {"idle", "row", "dup", "back", "event", "notify"}

\* the journal entry a transition writes
Kind(op) == IF op = "raise" THEN "raised"
            ELSE IF op = "escalate" THEN "escalated" ELSE "cleared"

VARIABLES
    fault,     \* fault[k]: the condition behind k holds (environment)
    active,    \* AlarmEngine._active
    rows,      \* the alarms table: id -> [key, st, sev]
    nrows,     \* ids handed out so far
    journal,   \* journal[kind][id]: events written about row id
    notices,   \* <<kind, id>> pairs handed to flap damping and notifier
    pc,        \* where each coroutine is
    job,       \* what it is doing: [op, key, row]
    phase,     \* "down", "boot" (lifespan before its yield) or "up"
    crashes,
    dbErrors

faults == <<crashes, dbErrors>>
vars   == <<fault, active, rows, nrows, journal, notices, pc, job, phase,
            crashes, dbErrors>>

Row == [key : Keys, st : {"free", "open", "closed"},
        sev : {"default", "critical"}]
Job == [op : Ops, key : Keys, row : Nat]

IsOpen(i, k) == rows[i].st = "open" /\ rows[i].key = k
Open(k)      == \E i \in Ids : IsOpen(i, k)
OpenIds      == {i \in Ids : rows[i].st = "open"}
OpenKeys     == {rows[i].key : i \in OpenIds}
Inserting    == {p \in Procs : pc[p] = "row" /\ job[p].op = "raise"}
Busy(k)      == \E p \in Procs : pc[p] # "idle" /\ job[p].key = k

-----------------------------------------------------------------------------
(* Coroutine bookkeeping *)

\* a monitor runs in a started service, the boot coroutine before that
MayRun(p) == /\ pc[p] = "idle"
             /\ phase = IF p = Boot THEN "boot" ELSE "up"

Goto(p, label) == pc' = [pc EXCEPT ![p] = label]

Submit(p, op, k, i) ==
    /\ job' = [job EXCEPT ![p] = [op |-> op, key |-> k, row |-> i]]
    /\ Goto(p, "row")

\* the database call returned, about row i
Found(p, label, i) ==
    /\ job' = [job EXCEPT ![p].row = i]
    /\ Goto(p, label)

-----------------------------------------------------------------------------
(* _raise *)

\* up to the first await: a key already active is left alone
StartRaise(m, k) ==
    /\ MayRun(m) /\ m \in Owners[k] /\ fault[k]
    /\ k \notin active \/ k \in Instant
    /\ nrows + Cardinality(Inserting) < MaxRows
    /\ Submit(m, "raise", k, 0)
    /\ UNCHANGED <<fault, active, rows, nrows, journal, notices, phase, faults>>

\* (mutant: the row is inserted without looking for an open one)
InsertRowBlind(p) ==
    LET k == job[p].key IN
    /\ pc[p] = "row" /\ job[p].op = "raise" /\ nrows < MaxRows
    /\ nrows' = nrows + 1
    /\ rows' = [rows EXCEPT ![nrows + 1] =
                  [key |-> k, sev |-> "default", st |-> "open"]]
    /\ Found(p, "back", nrows + 1)
    /\ UNCHANGED <<fault, active, journal, notices, phase, faults>>

\* Database.raise_alarm in its thread: one transaction, no row when one is
\* open already; an auto_clear alarm is inserted closed
InsertRow(p) ==
    LET k == job[p].key IN
    /\ pc[p] = "row" /\ job[p].op = "raise"
    /\ \/ /\ k \notin Instant /\ Open(k)
          /\ Goto(p, "dup")
          /\ UNCHANGED <<rows, nrows, job>>
       \/ /\ k \in Instant \/ ~Open(k)
          /\ nrows < MaxRows
          /\ nrows' = nrows + 1
          /\ rows' = [rows EXCEPT ![nrows + 1] =
                        [key |-> k, sev |-> "default",
                         st |-> IF k \in Instant THEN "closed" ELSE "open"]]
          /\ Found(p, "back", nrows + 1)
    /\ UNCHANGED <<fault, active, journal, notices, phase, faults>>

\* (mutant: a new alarm goes to the notifier without its journal entry)
RaiseReturnsUnwritten(p) ==
    /\ job[p].op = "raise"
    /\ \/ pc[p] = "dup" /\ Goto(p, "idle")
       \/ pc[p] = "back" /\ Goto(p, "notify")
    /\ active' = active \cup {job[p].key}
    /\ UNCHANGED <<fault, rows, nrows, journal, notices, job, phase, faults>>

\* (mutant: the raised key is not made active)
RaiseReturnsForgets(p) ==
    /\ job[p].op = "raise"
    /\ \/ pc[p] = "dup" /\ Goto(p, "idle")
       \/ pc[p] = "back" /\ Goto(p, "event")
    /\ UNCHANGED <<fault, active, rows, nrows, journal, notices, job, phase,
                   faults>>

\* the coroutine resumes: the key is active from here on, and the journal
\* entry of a new row is submitted
RaiseReturns(p) ==
    LET k == job[p].key IN
    /\ job[p].op = "raise"
    /\ \/ pc[p] = "dup" /\ Goto(p, "idle")
       \/ pc[p] = "back" /\ Goto(p, "event")
    /\ active' = IF k \in Instant THEN active ELSE active \cup {k}
    /\ UNCHANGED <<fault, rows, nrows, journal, notices, job, phase, faults>>

-----------------------------------------------------------------------------
(* _clear: the key leaves the active set before the row is closed *)

MayClear(m, k) == \/ m \in Owners[k] /\ ~fault[k]
                  \/ m \in Janitors[k]
                  \/ m = Boot /\ k \in Legacy

StartClear(m, k) ==
    /\ MayRun(m) /\ MayClear(m, k)
    /\ k \in active
    /\ active' = active \ {k}
    /\ Submit(m, "clear", k, 0)
    /\ UNCHANGED <<fault, rows, nrows, journal, notices, phase, faults>>

\* (mutant: the row count of the UPDATE is not looked at)
CloseRowUnchecked(p) ==
    LET k == job[p].key IN
    /\ pc[p] = "row" /\ job[p].op = "clear"
    /\ \E i \in 1..nrows :
         /\ rows[i].key = k /\ Open(k) => IsOpen(i, k)
         /\ rows' = [rows EXCEPT ![i].st = "closed"]
         /\ Found(p, "event", i)
    /\ UNCHANGED <<fault, active, nrows, journal, notices, phase, faults>>

\* Database.clear_alarm closes every open row of the key; False if none
CloseRow(p) ==
    LET k == job[p].key IN
    /\ pc[p] = "row" /\ job[p].op = "clear"
    /\ \/ \E i \in Ids :
            /\ IsOpen(i, k)
            /\ rows' = [j \in Ids |-> IF IsOpen(j, k)
                          THEN [rows[j] EXCEPT !.st = "closed"] ELSE rows[j]]
            /\ Found(p, "event", i)
       \/ ~Open(k) /\ Goto(p, "idle") /\ UNCHANGED <<rows, job>>
    /\ UNCHANGED <<fault, active, nrows, journal, notices, phase, faults>>

-----------------------------------------------------------------------------
(* manual_clear: here the row is closed first *)

StartManual(o, i) ==
    /\ MayRun(o) /\ i <= nrows
    /\ Submit(o, "manual", rows[i].key, i)
    /\ UNCHANGED <<fault, active, rows, nrows, journal, notices, phase, faults>>

\* (mutant: the row is found and returned, the UPDATE forgotten)
CloseByIdUnsaved(p) ==
    LET i == job[p].row IN
    /\ pc[p] = "row" /\ job[p].op = "manual"
    /\ Goto(p, IF rows[i].st = "open" THEN "back" ELSE "idle")
    /\ UNCHANGED <<fault, active, rows, nrows, journal, notices, job, phase,
                   faults>>

\* Database.clear_alarm_by_id; an id that is not active is answered 404
CloseById(p) ==
    LET i == job[p].row IN
    /\ pc[p] = "row" /\ job[p].op = "manual"
    /\ \/ /\ rows[i].st = "open"
          /\ rows' = [rows EXCEPT ![i].st = "closed"]
          /\ Goto(p, "back")
       \/ rows[i].st # "open" /\ Goto(p, "idle") /\ UNCHANGED rows
    /\ UNCHANGED <<fault, active, nrows, journal, notices, job, phase, faults>>

\* (mutant: a manual clear leaves no journal entry)
ManualReturnsSilent(p) ==
    /\ pc[p] = "back" /\ job[p].op = "manual"
    /\ active' = active \ {job[p].key}
    /\ Goto(p, "idle")
    /\ UNCHANGED <<fault, rows, nrows, journal, notices, job, phase, faults>>

ManualReturns(p) ==
    /\ pc[p] = "back" /\ job[p].op = "manual"
    /\ active' = active \ {job[p].key}
    /\ Goto(p, "event")
    /\ UNCHANGED <<fault, rows, nrows, journal, notices, job, phase, faults>>

-----------------------------------------------------------------------------
(* _escalate: a standing alarm confirmed by later evidence *)

StartEscalate(m, k) ==
    /\ MayRun(m) /\ m \in Owners[k] /\ fault[k]
    /\ k \in Confirmable /\ k \in active
    /\ Submit(m, "escalate", k, 0)
    /\ UNCHANGED <<fault, active, rows, nrows, journal, notices, phase, faults>>

\* (mutant: the UPDATE lacks its "AND severity <> ?")
EscalateRowAgain(p) ==
    LET k == job[p].key IN
    /\ pc[p] = "row" /\ job[p].op = "escalate"
    /\ \/ \E i \in Ids :
            /\ IsOpen(i, k)
            /\ rows' = [rows EXCEPT ![i].sev = "critical"]
            /\ Found(p, "event", i)
       \/ ~Open(k) /\ Goto(p, "idle") /\ UNCHANGED <<rows, job>>
    /\ UNCHANGED <<fault, active, nrows, journal, notices, phase, faults>>

\* Database.escalate_alarm: an UPDATE guarded by the severity
EscalateRow(p) ==
    LET k == job[p].key IN
    /\ pc[p] = "row" /\ job[p].op = "escalate"
    /\ \/ \E i \in Ids :
            /\ IsOpen(i, k) /\ rows[i].sev # "critical"
            /\ rows' = [rows EXCEPT ![i].sev = "critical"]
            /\ Found(p, "event", i)
       \/ /\ \A i \in Ids : IsOpen(i, k) => rows[i].sev = "critical"
          /\ Goto(p, "idle") /\ UNCHANGED <<rows, job>>
    /\ UNCHANGED <<fault, active, nrows, journal, notices, phase, faults>>

-----------------------------------------------------------------------------
(* The tail every transition shares: journal, then notifier *)

WriteEvent(p) ==
    LET kind == Kind(job[p].op) IN
    /\ pc[p] = "event"
    /\ journal' = [journal EXCEPT ![kind][job[p].row] = @ + 1]
    /\ Goto(p, "notify")
    /\ UNCHANGED <<fault, active, rows, nrows, notices, job, phase, faults>>

\* (mutant: the notice names the key where the row belongs)
HandOverByKey(p) ==
    /\ pc[p] = "notify"
    /\ notices' = notices \cup {<<Kind(job[p].op), job[p].key>>}
    /\ Goto(p, "idle")
    /\ UNCHANGED <<fault, active, rows, nrows, journal, job, phase, faults>>

HandOver(p) ==
    /\ pc[p] = "notify"
    /\ notices' = notices \cup {<<Kind(job[p].op), job[p].row>>}
    /\ Goto(p, "idle")
    /\ UNCHANGED <<fault, active, rows, nrows, journal, job, phase, faults>>

-----------------------------------------------------------------------------
(* Startup, crashes, failing database calls, the network *)

\* (mutant: load() asks for the cleared alarms)
LoadCleared ==
    /\ phase = "down"
    /\ active' = {rows[i].key : i \in {j \in Ids : rows[j].st = "closed"}}
    /\ phase' = "boot"
    /\ UNCHANGED <<fault, rows, nrows, journal, notices, pc, job, faults>>

\* load(): the newest LoadLimit open alarms become the active set
Load ==
    /\ phase = "down"
    /\ \E S \in SUBSET OpenIds :
         /\ Cardinality(S) = IF Cardinality(OpenIds) <= LoadLimit
                             THEN Cardinality(OpenIds) ELSE LoadLimit
         /\ \A i \in S, j \in OpenIds \ S : j < i
         /\ active' = {rows[i].key : i \in S}
    /\ phase' = "boot"
    /\ UNCHANGED <<fault, rows, nrows, journal, notices, pc, job, faults>>

\* lifespan reaches its yield once load() has closed the legacy alarms
Serve ==
    /\ phase = "boot" /\ pc[Boot] = "idle" /\ active \cap Legacy = {}
    /\ phase' = "up"
    /\ UNCHANGED <<fault, active, rows, nrows, journal, notices, pc, job,
                   faults>>

\* the process dies: rows and journal stay, everything in memory is gone
Crash ==
    /\ phase # "down" /\ crashes < MaxCrashes
    /\ crashes' = crashes + 1
    /\ phase' = "down"
    /\ active' = {}
    /\ pc' = [p \in Procs |-> "idle"]
    /\ UNCHANGED <<fault, rows, nrows, journal, notices, job, dbErrors>>

\* a database call of a started service raises (the console process holds
\* the write lock): the coroutine's cycle is abandoned and logged
DbFails(p) ==
    /\ phase = "up" /\ dbErrors < MaxDbErrors
    /\ pc[p] \in {"row", "event"}
    /\ Goto(p, "idle")
    /\ dbErrors' = dbErrors + 1
    /\ UNCHANGED <<fault, active, rows, nrows, journal, notices, job, phase,
                   crashes>>

FaultChanges(k) ==
    /\ fault' = [fault EXCEPT ![k] = ~@]
    /\ UNCHANGED <<active, rows, nrows, journal, notices, pc, job, phase,
                   faults>>

-----------------------------------------------------------------------------

NewDatabase(k) ==
    /\ rows = [i \in Ids |-> [key |-> k, st |-> "free", sev |-> "default"]]
    /\ nrows = 0
    /\ journal = [e \in Kinds |-> [i \in Ids |-> 0]]

\* a database of an older version, with an alarm load() will close
OldDatabase(k) ==
    /\ k \in Legacy
    /\ rows = [i \in Ids |-> [key |-> k, sev |-> "default",
                              st |-> IF i = 1 THEN "open" ELSE "free"]]
    /\ nrows = 1
    /\ journal = [e \in Kinds |-> [i \in Ids |->
                     IF e = "raised" /\ i = 1 THEN 1 ELSE 0]]

Init ==
    /\ fault \in [Keys -> BOOLEAN]
    /\ active = {}
    /\ \E k \in Keys : OldDatabase(k) \/ NewDatabase(k)
    /\ notices = {}
    /\ pc = [p \in Procs |-> "idle"]
    /\ \E k \in Keys :
         job = [p \in Procs |-> [op |-> "raise", key |-> k, row |-> 0]]
    /\ phase = "down"
    /\ crashes = 0 /\ dbErrors = 0

\* what a coroutine or its database thread does once it is under way
Proceed(p) == \/ InsertRow(p) \/ RaiseReturns(p)
              \/ CloseRow(p) \/ CloseById(p) \/ ManualReturns(p)
              \/ EscalateRow(p) \/ WriteEvent(p) \/ HandOver(p)

Next ==
    \/ \E p \in Procs : Proceed(p) \/ DbFails(p)
    \/ \E m \in Monitors, k \in Keys :
         StartRaise(m, k) \/ StartEscalate(m, k)
    \/ \E m \in Monitors \cup {Boot}, k \in Keys : StartClear(m, k)
    \/ \E o \in Operators, i \in Ids : StartManual(o, i)
    \/ Load \/ Serve \/ Crash
    \/ \E k \in Keys : FaultChanges(k)

\* threads and resumed coroutines run; the task that owns an alarm evaluates
\* it in every one of its cycles (strong: a cycle also works on other alarms,
\* and its coroutine is not idle then); new raises, the janitor, the operator, crashes, database errors and the network owe nothing
Fairness ==
    /\ \A p \in Procs : WF_vars(Proceed(p))
    /\ \A k \in Keys : \A m \in Owners[k] : SF_vars(StartClear(m, k))
    /\ \A k \in Legacy : WF_vars(StartClear(Boot, k))
    /\ WF_vars(Load) /\ WF_vars(Serve)

Spec     == Init /\ [][Next]_vars
FairSpec == Spec /\ Fairness

-----------------------------------------------------------------------------
(* Properties *)

\* the shape of the engine's memory and of its two tables
TypeOK ==
    /\ fault \in [Keys -> BOOLEAN]
    /\ active \subseteq Keys
    /\ rows \in [Ids -> Row]
    /\ nrows \in 0..MaxRows
    /\ journal \in [Kinds -> [Ids -> Nat]]
    /\ notices \subseteq Kinds \X Ids
    /\ pc \in [Procs -> PCs]
    /\ job \in [Procs -> Job]
    /\ phase \in {"down", "boot", "up"}
    /\ crashes \in 0..MaxCrashes /\ dbErrors \in 0..MaxDbErrors

\* However raises, clears, restarts and database errors interleave, a
\* (type, subject) never has two active alarms: the check and the insert of
\* Database.raise_alarm are one transaction.
OneOpenRow == \A i, j \in Ids :
    rows[i].st = "open" /\ rows[j].st = "open" /\ rows[i].key = rows[j].key
        => i = j

\* No alarm is journalled as raised or cleared twice, whatever raced: of two
\* coroutines closing one alarm (the janitor and an operator) only the one
\* whose UPDATE found it writes alarm_cleared.
JournalOnce == \A e \in Kinds, i \in Ids : journal[e][i] <= 1

\* The journal never speaks of something the alarms table does not hold: an
\* alarm_cleared entry belongs to a closed row, any entry to a real one.
JournalNeverAhead == \A i \in Ids :
    /\ \A e \in Kinds : journal[e][i] > 0 => i <= nrows
    /\ journal["cleared"][i] > 0 => rows[i].st = "closed"
    /\ journal["escalated"][i] > 0 => rows[i].sev = "critical"

\* coroutine p has changed a row and not journalled it yet
Carries(p, e, i) == /\ pc[p] \in {"back", "event"}
                    /\ Kind(job[p].op) = e /\ job[p].row = i

\* "Every raise/clear is mirrored into the journal": short of a crash or a
\* failing database call, an alarm row is in the journal or a coroutine is on
\* its way there with it.
Mirrored(e, i) == journal[e][i] > 0 \/ \E p \in Procs : Carries(p, e, i)

ChronicleComplete ==
    crashes = 0 /\ dbErrors = 0 =>
        \A i \in 1..nrows :
            /\ Mirrored("raised", i)
            /\ rows[i].st = "closed" /\ rows[i].key \notin Instant
                 => Mirrored("cleared", i)
            /\ rows[i].sev = "critical" => Mirrored("escalated", i)

\* Nobody is told about a transition the journal does not have.
NoticeJournalled == \A n \in notices : journal[n[1]][n[2]] > 0

\* An open alarm is never forgotten by a running engine: its key is active,
\* or a coroutine is in the middle of raising or closing it.  (A failing
\* clear_alarm breaks this.)
TrackedOpen ==
    phase # "down" /\ dbErrors = 0 =>
        \A i \in OpenIds : rows[i].key \in active \/ Busy(rows[i].key)

\* The alarm of a condition that is over for good is closed for good, through
\* crashes and restarts.
ClearedWhenOver == \A k \in Keys :
    (<>[](~fault[k])) => <>[](~Open(k))

\* The engine, with its coroutines, crashes and failing calls, is an alarm
\* book: see AlarmBook for what that promises.
Promise == INSTANCE AlarmBook WITH
    state <- [i \in Ids |-> rows[i].st],
    about <- [i \in Ids |-> rows[i].key],
    grave <- [i \in Ids |-> rows[i].sev = "critical"],
    chronicle <- {entry \in Kinds \X Ids : journal[entry[1]][entry[2]] > 0}
KeepsTheBook == Promise!BookSpec

-----------------------------------------------------------------------------
(* The inductive strengthening behind the safety theorems *)

Numbered == \A i \in Ids : rows[i].st = "free" <=> i > nrows

JobShape == \A p \in Procs :
    /\ pc[p] \in {"back", "event", "notify"} => job[p].row \in 1..nrows
    /\ pc[p] = "row" /\ job[p].op = "manual" => job[p].row \in 1..nrows
    /\ pc[p] = "notify" => journal[Kind(job[p].op)][job[p].row] > 0

SoleCarrier == \A e \in Kinds, i \in Ids, p, q \in Procs :
    Carries(p, e, i) => /\ journal[e][i] = 0
                        /\ Carries(q, e, i) => p = q

Unspoken(e, i) == journal[e][i] = 0 /\ \A p \in Procs : ~Carries(p, e, i)

NothingEarly == \A i \in Ids :
    /\ i > nrows => \A e \in Kinds : Unspoken(e, i)
    /\ rows[i].st # "closed" => Unspoken("cleared", i)
    /\ rows[i].sev # "critical" => Unspoken("escalated", i)

\* Every safety theorem of the engine follows from this one: who carries an
\* unwritten entry is alone with it, and the row already shows the change.
EngineInv == /\ TypeOK /\ OneOpenRow /\ JournalOnce /\ Numbered
             /\ JobShape /\ SoleCarrier /\ NothingEarly /\ NoticeJournalled
=============================================================================
