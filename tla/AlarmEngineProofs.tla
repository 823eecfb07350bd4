------------------------- MODULE AlarmEngineProofs -------------------------
(***************************************************************************)
(* The safety of the raise/clear protocol for any number of alarms,        *)
(* coroutines, rows, crashes and failing database calls.                   *)
(***************************************************************************)
EXTENDS AlarmEngine, FiniteSetTheorems, TLAPS

\* a step that touches no table and gives no coroutine new entries to carry
Calm ==
    /\ TypeOK'
    /\ rows' = rows /\ nrows' = nrows /\ journal' = journal
    /\ NoticeJournalled'
    /\ \A p \in Procs :
         /\ pc'[p] \in {"back", "event"}
              => pc[p] \in {"back", "event"} /\ job'[p] = job[p]
         /\ pc'[p] = "notify" => pc[p] = "notify" /\ job'[p] = job[p]
         /\ pc'[p] = "row" /\ job'[p].op = "manual" => job'[p].row \in 1..nrows

\* A calm step keeps the invariant: everything it says is about the tables
\* and the coroutines that carry entries.
LEMMA CalmStep == ASSUME EngineInv, Calm PROVE EngineInv'
<1> USE DEF EngineInv, Calm, TypeOK
<1>1. \A p \in Procs, e \in Kinds, i \in Ids :
        Carries(p, e, i)' => Carries(p, e, i)
  BY DEF Carries
<1>2. OneOpenRow' /\ JournalOnce' /\ Numbered'
  BY DEF OneOpenRow, JournalOnce, Numbered
<1>3. JobShape'
  BY DEF JobShape
<1>4. SoleCarrier'
  BY <1>1 DEF SoleCarrier
<1>5. NothingEarly'
  BY <1>1 DEF NothingEarly, Unspoken, Kinds
<1> QED
  BY <1>2, <1>3, <1>4, <1>5

\* The steps of Next that are calm: what coroutines do when they start and
\* resume, the process's life, and the network.
CalmNext ==
    \/ \E p \in Procs : RaiseReturns(p) \/ ManualReturns(p) \/ HandOver(p)
                        \/ DbFails(p)
    \/ \E m \in Monitors, k \in Keys : StartRaise(m, k) \/ StartEscalate(m, k)
    \/ \E m \in Monitors \cup {Boot}, k \in Keys : StartClear(m, k)
    \/ \E o \in Operators, i \in Ids : StartManual(o, i)
    \/ Load \/ Serve \/ Crash
    \/ \E k \in Keys : FaultChanges(k)
    \/ UNCHANGED vars

LEMMA CalmNextIsCalm == ASSUME EngineInv, CalmNext PROVE Calm
<1> USE EngineAssumption DEF EngineInv, TypeOK, Calm, NoticeJournalled, JobShape
<1>1. ASSUME NEW p \in Procs, RaiseReturns(p) PROVE Calm
  BY <1>1 DEF RaiseReturns, Goto, PCs, faults, Job
<1>2. ASSUME NEW p \in Procs, ManualReturns(p) PROVE Calm
  BY <1>2 DEF ManualReturns, Goto, PCs, faults, Job
<1>3. ASSUME NEW p \in Procs, HandOver(p) PROVE Calm
  <2>1. /\ Kind(job[p].op) \in Kinds /\ job[p].row \in Ids
        /\ journal[Kind(job[p].op)][job[p].row] > 0
    BY <1>3 DEF HandOver, JobShape, Kind, Kinds, Ids
  <2>2. NoticeJournalled'
    BY <1>3, <2>1 DEF HandOver
  <2> QED
    BY <1>3, <2>1, <2>2 DEF HandOver, Goto, PCs, faults
<1>4. ASSUME NEW p \in Procs, DbFails(p) PROVE Calm
  BY <1>4 DEF DbFails, Goto, PCs
<1>5. ASSUME NEW m \in Monitors, NEW k \in Keys, StartRaise(m, k) PROVE Calm
  BY <1>5 DEF StartRaise, Submit, Goto, PCs, faults, Job, Ops, Procs
<1>6. ASSUME NEW m \in Monitors, NEW k \in Keys, StartEscalate(m, k)
      PROVE Calm
  BY <1>6 DEF StartEscalate, Submit, Goto, PCs, faults, Job, Ops, Procs
<1>7. ASSUME NEW m \in Monitors \cup {Boot}, NEW k \in Keys, StartClear(m, k)
      PROVE Calm
  BY <1>7 DEF StartClear, Submit, Goto, PCs, faults, Job, Ops, Procs
<1>8. ASSUME NEW o \in Operators, NEW i \in Ids, StartManual(o, i) PROVE Calm
  BY <1>8 DEF StartManual, Submit, Goto, PCs, faults, Job, Ops, Procs, Ids, Row
<1>9. CASE Load
  BY <1>9 DEF Load, faults, OpenIds, Row
<1>10. CASE Serve
  BY <1>10 DEF Serve, faults
<1>11. CASE Crash
  BY <1>11 DEF Crash, PCs
<1>12. ASSUME NEW k \in Keys, FaultChanges(k) PROVE Calm
  BY <1>12 DEF FaultChanges, faults
<1>13. CASE UNCHANGED vars
  BY <1>13 DEF vars
<1> QED
  BY <1>1, <1>2, <1>3, <1>4, <1>5, <1>6, <1>7, <1>8, <1>9, <1>10, <1>11,
     <1>12, <1>13 DEF CalmNext

-----------------------------------------------------------------------------
(* The five steps that write a table *)

\* The coroutine's bookkeeping stays in type when a call returns row i.
LEMMA FoundTyped ==
    ASSUME TypeOK, NEW p \in Procs, NEW i \in Ids, NEW label \in PCs,
           Found(p, label, i)
    PROVE  job' \in [Procs -> Job] /\ pc' \in [Procs -> PCs]
<1>1. i \in Nat
  BY DEF Ids
<1>2. job[p] \in Job
  BY DEF TypeOK
<1>3. [job[p] EXCEPT !.row = i] \in Job
  BY <1>1, <1>2 DEF Job
<1>4. job' = [job EXCEPT ![p] = [job[p] EXCEPT !.row = i]]
  BY DEF Found
<1> QED
  BY <1>3, <1>4 DEF Found, Goto, TypeOK

\* raise_alarm: a new row is the only open one of its key, and its inserter
\* the only one to journal it.
LEMMA InsertRowStep ==
    ASSUME EngineInv, NEW p \in Procs, InsertRow(p) PROVE EngineInv'
<1> DEFINE k == job[p].key
<1> USE EngineAssumption DEF EngineInv
<1>1. CASE k \notin Instant /\ Open(k) /\ Goto(p, "dup")
           /\ UNCHANGED <<rows, nrows, job>>
  <2>1. Calm
    BY <1>1 DEF InsertRow, Goto, Calm, TypeOK, PCs, faults, NoticeJournalled,
                JobShape
  <2> QED
    BY <2>1, CalmStep
<1>2. CASE /\ k \in Instant \/ ~Open(k)
           /\ nrows < MaxRows /\ nrows' = nrows + 1
           /\ rows' = [rows EXCEPT ![nrows + 1] =
                         [key |-> k, sev |-> "default",
                          st |-> IF k \in Instant THEN "closed" ELSE "open"]]
           /\ Found(p, "back", nrows + 1)
  <2> DEFINE n == nrows + 1
  <2>1. /\ n \in Ids /\ k \in Keys /\ nrows \in Nat /\ Kind("raise") = "raised"
        /\ rows \in [Ids -> Row] /\ job[p].op = "raise"
        /\ UNCHANGED <<fault, active, journal, notices, phase, crashes, dbErrors>>
    BY <1>2 DEF TypeOK, Ids, Job, InsertRow, faults, Kind
  <2>2. /\ job' = [job EXCEPT ![p].row = n]
        /\ pc' = [pc EXCEPT ![p] = "back"]
    BY <1>2 DEF Found, Goto
  <2>3. TypeOK'
    <3>1. [key |-> k, sev |-> "default",
           st |-> IF k \in Instant THEN "closed" ELSE "open"] \in Row
      BY <2>1 DEF Row
    <3>2. rows' \in [Ids -> Row]
      BY <1>2, <2>1, <3>1
    <3>3. job' \in [Procs -> Job] /\ pc' \in [Procs -> PCs]
      BY <1>2, <2>1, FoundTyped DEF PCs
    <3>4. nrows' \in 0..MaxRows
      BY <1>2, <2>1
    <3> QED
      BY <2>1, <3>2, <3>3, <3>4 DEF TypeOK
  <2>4. /\ \A i \in Ids : i # n => rows'[i] = rows[i]
        /\ rows'[n].key = k /\ rows'[n].sev = "default" /\ rows'[n].st # "free"
        /\ rows'[n].st = "open" => ~Open(k)
    BY <1>2, <2>1
  <2>5. OneOpenRow'
    BY <2>1, <2>4 DEF OneOpenRow, Open, IsOpen
  <2>6. JournalOnce' /\ NoticeJournalled'
    BY <2>1 DEF JournalOnce, NoticeJournalled
  <2>7. Numbered'
    BY <1>2, <2>1, <2>4 DEF Numbered, Ids
  <2>8. JobShape'
    BY <1>2, <2>1, <2>2 DEF JobShape, TypeOK
  <2>9. \A e \in Kinds, i \in Ids : Unspoken(e, n) /\ rows[n].st = "free"
    BY <2>1 DEF NothingEarly, Numbered
  <2>10. \A q \in Procs, e \in Kinds, i \in Ids :
            Carries(q, e, i)' <=> IF q = p THEN e = "raised" /\ i = n
                                           ELSE Carries(q, e, i)
    BY <2>1, <2>2 DEF Carries, TypeOK
  <2>11. SoleCarrier'
    BY <2>1, <2>9, <2>10 DEF SoleCarrier, Unspoken
  <2>12. NothingEarly'
    BY <1>2, <2>1, <2>4, <2>9, <2>10 DEF NothingEarly, Unspoken, Kinds, Ids
  <2> QED
    BY <2>3, <2>5, <2>6, <2>7, <2>8, <2>11, <2>12
<1> QED
  BY <1>1, <1>2 DEF InsertRow

\* What closing and escalating share: p changes row i, which nobody has
\* spoken about, and is from there on the one who will.
Amend(p, i, label) ==
    /\ rows[i].st = "open"
    /\ Unspoken(Kind(job[p].op), i)
    /\ \A j \in Ids : j # i => rows'[j] = rows[j]
    /\ rows'[i].key = rows[i].key
    /\ \/ /\ Kind(job[p].op) = "cleared"
          /\ rows'[i].st = "closed" /\ rows'[i].sev = rows[i].sev
       \/ /\ Kind(job[p].op) = "escalated"
          /\ rows'[i].st = "open" /\ rows'[i].sev = "critical"
    /\ pc' = [pc EXCEPT ![p] = label]
    /\ job' = [job EXCEPT ![p].row = i]
    /\ UNCHANGED <<nrows, journal, notices>>

LEMMA AmendStep ==
    ASSUME EngineInv, TypeOK', NEW p \in Procs, NEW i \in Ids,
           NEW label \in {"back", "event"}, Amend(p, i, label)
    PROVE  EngineInv'
<1> USE DEF EngineInv, Amend
<1>1. i <= nrows
  BY DEF Numbered, TypeOK, Ids
<1>2. OneOpenRow' /\ JournalOnce' /\ NoticeJournalled' /\ Numbered'
  BY <1>1 DEF OneOpenRow, JournalOnce, NoticeJournalled, Numbered
<1>3. JobShape'
  BY <1>1 DEF JobShape, TypeOK, Ids
<1>4. \A q \in Procs, e \in Kinds, j \in Ids :
        Carries(q, e, j)' <=> IF q = p THEN e = Kind(job[p].op) /\ j = i
                                       ELSE Carries(q, e, j)
  BY DEF Carries, TypeOK, Job
<1>5. SoleCarrier'
  BY <1>4 DEF SoleCarrier, Unspoken
<1>6. \A e \in Kinds, j \in Ids :
        Unspoken(e, j) /\ (e # Kind(job[p].op) \/ j # i) => Unspoken(e, j)'
  BY <1>4 DEF Unspoken
<1>7. Kinds = {"raised", "escalated", "cleared"}
  BY DEF Kinds
<1>8. ASSUME NEW j \in Ids
      PROVE  /\ j > nrows' => \A e \in Kinds : Unspoken(e, j)'
             /\ rows'[j].st # "closed" => Unspoken("cleared", j)'
             /\ rows'[j].sev # "critical" => Unspoken("escalated", j)'
  <2>1. CASE j # i
    BY <2>1, <1>6, <1>7 DEF NothingEarly
  <2>2. CASE j = i
    BY <2>2, <1>1, <1>6, <1>7 DEF NothingEarly, TypeOK, Ids
  <2> QED
    BY <2>1, <2>2
<1>9. NothingEarly'
  BY <1>8 DEF NothingEarly
<1> QED
  BY <1>2, <1>3, <1>5, <1>9

LEMMA CloseRowStep ==
    ASSUME EngineInv, NEW p \in Procs, CloseRow(p) PROVE EngineInv'
<1> DEFINE k == job[p].key
<1> USE DEF EngineInv
<1>1. CASE ~Open(k) /\ Goto(p, "idle") /\ UNCHANGED <<rows, job>>
  <2>1. Calm
    BY <1>1 DEF CloseRow, Goto, Calm, TypeOK, PCs, faults, NoticeJournalled,
                JobShape
  <2> QED
    BY <2>1, CalmStep
<1>2. ASSUME NEW i \in Ids, IsOpen(i, k), Found(p, "event", i),
             rows' = [j \in Ids |-> IF IsOpen(j, k)
                        THEN [rows[j] EXCEPT !.st = "closed"] ELSE rows[j]]
      PROVE  EngineInv'
  <2>1. \A j \in Ids : IsOpen(j, k) <=> j = i
    BY <1>2 DEF OneOpenRow, IsOpen
  <2>2. TypeOK'
    <3>1. rows' \in [Ids -> Row]
      BY <1>2 DEF TypeOK, Row
    <3> QED
      BY <1>2, <3>1, FoundTyped DEF CloseRow, TypeOK, PCs, faults
  <2>3. Amend(p, i, "event")
    BY <1>2, <2>1 DEF Amend, CloseRow, Found, Goto, IsOpen, NothingEarly, Kind,
                      TypeOK, Row
  <2> QED
    BY <2>2, <2>3, AmendStep
<1> QED
  BY <1>1, <1>2 DEF CloseRow

LEMMA CloseByIdStep ==
    ASSUME EngineInv, NEW p \in Procs, CloseById(p) PROVE EngineInv'
<1> DEFINE i == job[p].row
<1> USE DEF EngineInv
<1>1. CASE Goto(p, "idle") /\ UNCHANGED rows
  <2>1. Calm
    BY <1>1 DEF CloseById, Goto, Calm, TypeOK, PCs, faults, NoticeJournalled,
                JobShape
  <2> QED
    BY <2>1, CalmStep
<1>2. CASE /\ rows[i].st = "open" /\ rows' = [rows EXCEPT ![i].st = "closed"]
           /\ Goto(p, "back")
  <2>1. i \in Ids
    BY EngineAssumption DEF CloseById, JobShape, TypeOK, Ids
  <2>2. TypeOK'
    BY <1>2, <2>1 DEF CloseById, Goto, TypeOK, PCs, Row, faults
  <2>3. Amend(p, i, "back")
    BY <1>2, <2>1 DEF Amend, CloseById, Goto, NothingEarly, Kind, TypeOK, Row,
                      Job
  <2> QED
    BY <2>1, <2>2, <2>3, AmendStep
<1> QED
  BY <1>1, <1>2 DEF CloseById

LEMMA EscalateRowStep ==
    ASSUME EngineInv, NEW p \in Procs, EscalateRow(p) PROVE EngineInv'
<1> DEFINE k == job[p].key
<1> USE DEF EngineInv
<1>1. CASE Goto(p, "idle") /\ UNCHANGED <<rows, job>>
  <2>1. Calm
    BY <1>1 DEF EscalateRow, Goto, Calm, TypeOK, PCs, faults, NoticeJournalled,
                JobShape
  <2> QED
    BY <2>1, CalmStep
<1>2. ASSUME NEW i \in Ids, IsOpen(i, k), rows[i].sev # "critical",
             rows' = [rows EXCEPT ![i].sev = "critical"], Found(p, "event", i)
      PROVE  EngineInv'
  <2>1. TypeOK'
    <3>1. rows' \in [Ids -> Row]
      BY <1>2 DEF TypeOK, Row
    <3> QED
      BY <1>2, <3>1, FoundTyped DEF EscalateRow, TypeOK, PCs, faults
  <2>2. Amend(p, i, "event")
    BY <1>2 DEF Amend, EscalateRow, Found, Goto, IsOpen, NothingEarly, Kind,
                TypeOK, Row
  <2> QED
    BY <2>1, <2>2, AmendStep
<1> QED
  BY <1>1, <1>2 DEF EscalateRow

\* add_event: the one carrier of the entry writes it, and stops carrying it.
LEMMA WriteEventStep ==
    ASSUME EngineInv, NEW p \in Procs, WriteEvent(p) PROVE EngineInv'
<1> DEFINE e == Kind(job[p].op)
           i == job[p].row
<1> USE EngineAssumption DEF EngineInv
<1>1. /\ e \in Kinds /\ i \in Ids /\ i <= nrows /\ Carries(p, e, i)
      /\ journal[e][i] = 0
  <2>1. pc[p] = "event" /\ i \in 1..nrows
    BY DEF WriteEvent, JobShape
  <2>2. e \in Kinds /\ i \in Ids /\ i <= nrows /\ Carries(p, e, i)
    BY <2>1 DEF TypeOK, Ids, Kind, Kinds, Carries
  <2> QED
    BY <2>2 DEF SoleCarrier
<1>2. /\ journal' = [journal EXCEPT ![e][i] = journal[e][i] + 1]
      /\ pc' = [pc EXCEPT ![p] = "notify"]
      /\ UNCHANGED <<fault, active, rows, nrows, notices, job, phase, crashes,
                     dbErrors>>
  BY DEF WriteEvent, Goto, faults
<1>3. journal \in [Kinds -> [Ids -> Nat]]
  BY DEF TypeOK
<1>4. \A f \in Kinds, j \in Ids :
        journal'[f][j] = IF f = e /\ j = i THEN 1 ELSE journal[f][j]
  BY <1>1, <1>2, <1>3
<1>5. TypeOK'
  <2>1. journal' \in [Kinds -> [Ids -> Nat]]
    BY <1>1, <1>2, <1>3
  <2> QED
    BY <1>2, <2>1 DEF TypeOK, PCs
<1>6. OneOpenRow' /\ Numbered'
  BY <1>2 DEF OneOpenRow, Numbered
<1>7. JournalOnce'
  BY <1>4 DEF JournalOnce
<1>8. NoticeJournalled'
  BY <1>2, <1>4 DEF NoticeJournalled, TypeOK
<1>9. JobShape'
  <2>1. \A q \in Procs : Kind(job[q].op) \in Kinds
    BY DEF Kind, Kinds
  <2>2. \A q \in Procs : pc[q] = "notify" => job[q].row \in Ids
    BY DEF JobShape, TypeOK, Ids
  <2>3. \A f \in Kinds, j \in Ids : journal[f][j] > 0 => journal'[f][j] > 0
    BY <1>4
  <2>4. journal'[e][i] > 0 /\ i \in 1..nrows
    BY <1>1, <1>4 DEF WriteEvent, JobShape
  <2>5. \A q \in Procs : Kind(job'[q].op) = Kind(job[q].op)
    BY <1>2
  <2>6. ASSUME NEW q \in Procs, pc'[q] = "notify"
        PROVE  journal'[Kind(job'[q].op)][job'[q].row] > 0
    <3>1. CASE q = p
      BY <1>2, <2>4, <2>5, <3>1
    <3>2. CASE q # p
      BY <1>2, <2>1, <2>2, <2>3, <2>5, <2>6, <3>2 DEF JobShape, TypeOK
    <3> QED
      BY <3>1, <3>2
  <2> QED
    BY <1>2, <2>4, <2>6 DEF JobShape, TypeOK
<1>10. \A q \in Procs, f \in Kinds, j \in Ids :
         Carries(q, f, j)' <=> q # p /\ Carries(q, f, j)
  BY <1>2 DEF Carries, TypeOK
<1>11. SoleCarrier'
  BY <1>1, <1>4, <1>10 DEF SoleCarrier
<1>12. NothingEarly'
  <2>1. \A f \in Kinds, j \in Ids : Unspoken(f, j) => Unspoken(f, j)'
    BY <1>1, <1>4, <1>10 DEF Unspoken
  <2> QED
    BY <1>2, <2>1 DEF NothingEarly, Kinds
<1> QED
  BY <1>5, <1>6, <1>7, <1>8, <1>9, <1>11, <1>12

-----------------------------------------------------------------------------
(* The theorems *)

LEMMA InitInv == Init => EngineInv
<1> SUFFICES ASSUME Init PROVE EngineInv
  OBVIOUS
<1> USE EngineAssumption DEF Init
<1>1. PICK k \in Keys : OldDatabase(k) \/ NewDatabase(k)
  OBVIOUS
<1>2. \A p \in Procs : pc[p] = "idle"
  OBVIOUS
<1>3. /\ rows \in [Ids -> Row] /\ nrows \in 0..MaxRows
      /\ journal \in [Kinds -> [Ids -> Nat]]
  BY <1>1 DEF OldDatabase, NewDatabase, Row, Ids
<1>4. TypeOK
  BY <1>3 DEF TypeOK, PCs, Job, Ops
<1>5. OneOpenRow /\ JournalOnce /\ Numbered /\ NoticeJournalled
  BY <1>1 DEF OldDatabase, NewDatabase, OneOpenRow, JournalOnce, Numbered,
              NoticeJournalled, Ids
<1>6. JobShape /\ SoleCarrier
  BY <1>2 DEF JobShape, SoleCarrier, Carries
<1>7. NothingEarly
  BY <1>1, <1>2 DEF OldDatabase, NewDatabase, NothingEarly, Unspoken, Carries,
                    Ids, Kinds
<1> QED
  BY <1>4, <1>5, <1>6, <1>7 DEF EngineInv

LEMMA StepInv == EngineInv /\ [Next]_vars => EngineInv'
<1> SUFFICES ASSUME EngineInv, [Next]_vars PROVE EngineInv'
  OBVIOUS
<1>1. \/ CalmNext
      \/ \E p \in Procs : \/ InsertRow(p) \/ CloseRow(p) \/ CloseById(p)
                          \/ EscalateRow(p) \/ WriteEvent(p)
  BY DEF Next, Proceed, CalmNext
<1>2. CASE CalmNext
  BY <1>2, CalmNextIsCalm, CalmStep
<1>3. CASE \E p \in Procs : \/ InsertRow(p) \/ CloseRow(p) \/ CloseById(p)
                           \/ EscalateRow(p) \/ WriteEvent(p)
  BY <1>3, InsertRowStep, CloseRowStep, CloseByIdStep, EscalateRowStep,
     WriteEventStep
<1> QED
  BY <1>1, <1>2, <1>3

\* The inductive invariant holds in every reachable state of the engine.
THEOREM EngineInvariance == Spec => []EngineInv
<1>1. Init => EngineInv
  BY InitInv
<1>2. EngineInv /\ [Next]_vars => EngineInv'
  BY StepInv
<1> QED
  BY <1>1, <1>2, PTL DEF Spec

\* The engine's memory and tables keep their shape.
THEOREM TypeCorrect == Spec => []TypeOK
<1>1. EngineInv => TypeOK
  BY DEF EngineInv
<1> QED
  BY <1>1, EngineInvariance, PTL

\* A (type, subject) never has two active alarms, however many coroutines
\* raise and clear it, and whatever crashes or fails in between.
THEOREM AtMostOneOpen == Spec => []OneOpenRow
<1>1. EngineInv => OneOpenRow
  BY DEF EngineInv
<1> QED
  BY <1>1, EngineInvariance, PTL

\* No transition of an alarm is journalled twice.
THEOREM JournalledOnce == Spec => []JournalOnce
<1>1. EngineInv => JournalOnce
  BY DEF EngineInv
<1> QED
  BY <1>1, EngineInvariance, PTL

\* The journal says nothing the alarms table does not show.
THEOREM JournalFollowsTable == Spec => []JournalNeverAhead
<1>1. EngineInv => JournalNeverAhead
  <2> SUFFICES ASSUME EngineInv, NEW i \in Ids
               PROVE /\ \A e \in Kinds : journal[e][i] > 0 => i <= nrows
                     /\ journal["cleared"][i] > 0 => rows[i].st = "closed"
                     /\ journal["escalated"][i] > 0 => rows[i].sev = "critical"
    BY DEF JournalNeverAhead
  <2> QED
    BY DEF EngineInv, NothingEarly, Unspoken, Kinds, TypeOK, Ids
<1> QED
  BY <1>1, EngineInvariance, PTL

\* Whoever is told of a transition finds it in the journal.
THEOREM NoticesJournalled == Spec => []NoticeJournalled
<1>1. EngineInv => NoticeJournalled
  BY DEF EngineInv
<1> QED
  BY <1>1, EngineInvariance, PTL
-----------------------------------------------------------------------------
(* The engine implements AlarmBook *)

\* The book's step: one of BookNext, or nothing of the book changes.
BookStep == [Promise!BookNext]_(Promise!bookVars)

LEMMA QuietTables ==
    ASSUME UNCHANGED <<rows, journal>> PROVE BookStep
BY DEF BookStep, Promise!bookVars

\* One step of an alarm in the book: open, close or escalate it.
Moves(i) == \/ \E k \in Keys : Promise!OpenAlarm(i, k)
            \/ Promise!CloseAlarm(i)
            \/ Promise!Escalate(i)

LEMMA MoveIsBookStep == ASSUME NEW i \in Ids, Moves(i) PROVE BookStep
BY DEF BookStep, Moves, Promise!BookNext

\* raise_alarm opens an alarm: its transaction looked for an open one.
LEMMA InsertRowIsOpen ==
    ASSUME EngineInv, NEW p \in Procs, InsertRow(p) PROVE BookStep
<1> USE EngineAssumption
<1>1. CASE UNCHANGED rows
  BY <1>1, QuietTables DEF InsertRow
<1>2. CASE /\ job[p].key \in Instant \/ ~Open(job[p].key)
           /\ nrows < MaxRows
           /\ rows' = [rows EXCEPT ![nrows + 1] =
                         [key |-> job[p].key, sev |-> "default",
                          st |-> IF job[p].key \in Instant THEN "closed"
                                 ELSE "open"]]
  <2>1. PICK n \in Ids, k \in Keys : n = nrows + 1 /\ k = job[p].key
    BY <1>2 DEF EngineInv, TypeOK, Ids, Job
  <2>2. rows \in [Ids -> Row] /\ rows[n].st = "free" /\ UNCHANGED journal
    BY <1>2, <2>1 DEF InsertRow, EngineInv, TypeOK, Ids, Numbered
  <2>3. /\ \A i \in Ids : i # n => rows'[i] = rows[i]
        /\ rows'[n].key = k /\ rows'[n].sev = "default"
        /\ rows'[n].st = IF k \in Instant THEN "closed" ELSE "open"
    BY <1>2, <2>1, <2>2
  <2>4. [i \in Ids |-> rows'[i].key] = [[i \in Ids |-> rows[i].key] EXCEPT ![n] = k]
    BY <2>2, <2>3
  <2>5. [i \in Ids |-> rows'[i].sev = "critical"]
           = [[i \in Ids |-> rows[i].sev = "critical"] EXCEPT ![n] = FALSE]
    BY <2>2, <2>3
  <2>6. [i \in Ids |-> rows'[i].st] = [[i \in Ids |-> rows[i].st] EXCEPT
           ![n] = IF k \in Instant THEN "closed" ELSE "open"]
    BY <2>2, <2>3
  <2>7. k \notin Instant => \A j \in Ids : rows[j].st = "open" => rows[j].key # k
    BY <1>2, <2>1 DEF Open, IsOpen
  <2>8. Promise!OpenAlarm(n, k)
    BY <2>2, <2>4, <2>5, <2>6, <2>7 DEF Promise!OpenAlarm
  <2> QED
    BY <2>8, MoveIsBookStep DEF Moves
<1> QED
  BY <1>1, <1>2 DEF InsertRow

\* What changes an open row closes it or escalates it, and no other row.
LEMMA AmendIsMove ==
    ASSUME EngineInv, NEW p \in Procs, NEW i \in Ids, NEW label,
           Amend(p, i, label), rows' \in [Ids -> Row], rows[i].sev # "critical"
                                             \/ rows'[i].sev = rows[i].sev
    PROVE  BookStep
<1> USE DEF EngineInv, TypeOK
<1>1. rows \in [Ids -> Row] /\ UNCHANGED journal
  BY DEF Amend
<1>2. /\ \A j \in Ids : j # i => rows'[j] = rows[j]
      /\ rows[i].st = "open" /\ rows'[i].key = rows[i].key
  BY DEF Amend
<1>3. [j \in Ids |-> rows'[j].key] = [j \in Ids |-> rows[j].key]
  BY <1>1, <1>2
<1>4. CASE rows'[i].st = "closed" /\ rows'[i].sev = rows[i].sev
  <2>1. [j \in Ids |-> rows'[j].st]
           = [[j \in Ids |-> rows[j].st] EXCEPT ![i] = "closed"]
    BY <1>1, <1>2, <1>4
  <2>2. [j \in Ids |-> rows'[j].sev = "critical"]
           = [j \in Ids |-> rows[j].sev = "critical"]
    BY <1>1, <1>2, <1>4
  <2>3. Promise!CloseAlarm(i)
    BY <1>1, <1>2, <1>3, <2>1, <2>2 DEF Promise!CloseAlarm
  <2> QED
    BY <2>3, MoveIsBookStep DEF Moves
<1>5. CASE rows'[i].st = "open" /\ rows'[i].sev = "critical"
  <2>1. [j \in Ids |-> rows'[j].st] = [j \in Ids |-> rows[j].st]
    BY <1>1, <1>2, <1>5
  <2>2. CASE rows[i].sev # "critical"
    <3>1. [j \in Ids |-> rows'[j].sev = "critical"]
             = [[j \in Ids |-> rows[j].sev = "critical"] EXCEPT ![i] = TRUE]
      BY <1>1, <1>2, <1>5
    <3>2. Promise!Escalate(i)
      BY <1>1, <1>2, <1>3, <2>1, <2>2, <3>1 DEF Promise!Escalate
    <3> QED
      BY <3>2, MoveIsBookStep DEF Moves
  <2>3. CASE rows'[i].sev = rows[i].sev
    <3>1. [j \in Ids |-> rows'[j].sev = "critical"]
             = [j \in Ids |-> rows[j].sev = "critical"]
      BY <1>1, <1>2, <2>3
    <3> QED
      BY <1>1, <1>3, <2>1, <3>1 DEF BookStep, Promise!bookVars
  <2> QED
    BY <2>2, <2>3
<1> QED
  BY <1>4, <1>5 DEF Amend

\* add_event writes an entry that is not there yet, of what the row shows.
LEMMA WriteEventIsRecord ==
    ASSUME EngineInv, NEW p \in Procs, WriteEvent(p) PROVE BookStep
<1> USE EngineAssumption DEF EngineInv
<1>1. PICK e \in Kinds, i \in Ids : e = Kind(job[p].op) /\ i = job[p].row
  <2>1. job[p].row \in 1..nrows
    BY DEF WriteEvent, JobShape
  <2>2. Kind(job[p].op) \in Kinds /\ job[p].row \in Ids
    BY <2>1 DEF TypeOK, Ids, Kind, Kinds
  <2> QED
    BY <2>2
<1>2. /\ journal \in [Kinds -> [Ids -> Nat]] /\ i <= nrows /\ Carries(p, e, i)
      /\ UNCHANGED rows /\ journal' = [journal EXCEPT ![e][i] = journal[e][i] + 1]
  BY <1>1 DEF WriteEvent, JobShape, TypeOK, Carries
<1>3. /\ journal[e][i] = 0 /\ ~Unspoken(e, i)
      /\ \A f \in Kinds, j \in Ids :
           journal'[f][j] = IF f = e /\ j = i THEN 1 ELSE journal[f][j]
  BY <1>2 DEF SoleCarrier, Unspoken
<1>4. \/ e = "raised" /\ rows[i].st # "free"
      \/ e = "escalated" /\ rows[i].sev = "critical"
      \/ e = "cleared" /\ rows[i].st = "closed"
  BY <1>2, <1>3 DEF NothingEarly, Numbered, Kinds
<1>5. LET written == {entry \in Kinds \X Ids : journal[entry[1]][entry[2]] > 0}
      IN  /\ <<e, i>> \notin written
          /\ {entry \in Kinds \X Ids : journal'[entry[1]][entry[2]] > 0}
               = written \cup {<<e, i>>}
  BY <1>3
<1>6. Promise!Record(e, i)
  BY <1>2, <1>4, <1>5 DEF Promise!Record
<1> QED
  BY <1>6 DEF BookStep, Promise!BookNext, Kinds

\* The calls that close or escalate find no row of theirs, or amend one.
LEMMA CallAmends ==
    ASSUME EngineInv, NEW p \in Procs,
           CloseRow(p) \/ CloseById(p) \/ EscalateRow(p)
    PROVE  \/ UNCHANGED <<rows, nrows>>
           \/ \E i \in Ids, label \in {"back", "event"} :
                /\ Amend(p, i, label)
                /\ rows[i].sev # "critical" \/ rows'[i].sev = rows[i].sev
<1> USE EngineAssumption DEF EngineInv
<1>1. UNCHANGED nrows
  BY DEF CloseRow, CloseById, EscalateRow
<1>2. ASSUME NEW i \in Ids, IsOpen(i, job[p].key), Found(p, "event", i),
             rows' = [j \in Ids |-> IF IsOpen(j, job[p].key)
                        THEN [rows[j] EXCEPT !.st = "closed"] ELSE rows[j]],
             CloseRow(p)
      PROVE  Amend(p, i, "event") /\ rows'[i].sev = rows[i].sev
  <2>1. \A j \in Ids : IsOpen(j, job[p].key) <=> j = i
    BY <1>2 DEF OneOpenRow, IsOpen
  <2> QED
    BY <1>2, <2>1 DEF Amend, CloseRow, Found, Goto, IsOpen, NothingEarly, Kind,
                      TypeOK, Row
<1>3. ASSUME CloseById(p), rows[job[p].row].st = "open",
             rows' = [rows EXCEPT ![job[p].row].st = "closed"],
             Goto(p, "back"), NEW i \in Ids, i = job[p].row
      PROVE  Amend(p, i, "back") /\ rows'[i].sev = rows[i].sev
  BY <1>3 DEF Amend, CloseById, Goto, NothingEarly, Kind, TypeOK, Row, Job
<1>4. CloseById(p) => job[p].row \in Ids
  BY DEF CloseById, JobShape, TypeOK, Ids
<1>5. ASSUME NEW i \in Ids, IsOpen(i, job[p].key), rows[i].sev # "critical",
             rows' = [rows EXCEPT ![i].sev = "critical"], Found(p, "event", i),
             EscalateRow(p)
      PROVE  Amend(p, i, "event")
  BY <1>5 DEF Amend, EscalateRow, Found, Goto, IsOpen, NothingEarly, Kind,
              TypeOK, Row
<1>6. CASE CloseRow(p)
  BY <1>1, <1>2, <1>6 DEF CloseRow
<1>7. CASE CloseById(p)
  BY <1>1, <1>3, <1>4, <1>7 DEF CloseById
<1>8. CASE EscalateRow(p)
  BY <1>1, <1>5, <1>8 DEF EscalateRow
<1> QED
  BY <1>6, <1>7, <1>8

LEMMA ChangesAreMoves ==
    ASSUME EngineInv, EngineInv', NEW p \in Procs,
           CloseRow(p) \/ CloseById(p) \/ EscalateRow(p)
    PROVE  BookStep
<1>1. CASE UNCHANGED <<rows, nrows>>
  BY <1>1, QuietTables DEF CloseRow, CloseById, EscalateRow
<1>2. ASSUME NEW i \in Ids, NEW label \in {"back", "event"},
             Amend(p, i, label),
             rows[i].sev # "critical" \/ rows'[i].sev = rows[i].sev
      PROVE  BookStep
  BY <1>2, AmendIsMove DEF EngineInv, TypeOK
<1> QED
  BY <1>1, <1>2, CallAmends

\* The engine, with its coroutines, crashes and failing database calls, keeps
\* the promise of AlarmBook: a reader of its tables sees alarms opened one at a
\* time per key, closed once, and each transition entered once, after it.
THEOREM EngineKeepsTheBook == Spec => KeepsTheBook
<1>1. Init => Promise!BookInit
  <2> SUFFICES ASSUME Init PROVE Promise!BookInit
    OBVIOUS
  <2>1. PICK k \in Keys : OldDatabase(k) \/ NewDatabase(k)
    BY DEF Init
  <2>2. \A i \in Ids : /\ rows[i].st # "closed" /\ rows[i].sev = "default"
                       /\ rows[i].st = "open" => i = 1
    BY <2>1 DEF OldDatabase, NewDatabase
  <2>3. \A e \in Kinds, i \in Ids :
          journal[e][i] > 0 => e = "raised" /\ rows[i].st = "open"
    BY <2>1 DEF OldDatabase, NewDatabase
  <2> QED
    BY <2>2, <2>3 DEF Promise!BookInit
<1>2. EngineInv /\ EngineInv' /\ [Next]_vars => BookStep
  <2> SUFFICES ASSUME EngineInv, EngineInv', [Next]_vars PROVE BookStep
    OBVIOUS
  <2>1. CASE CalmNext
    BY <2>1, CalmNextIsCalm, QuietTables DEF Calm
  <2>2. CASE \E p \in Procs : \/ InsertRow(p) \/ CloseRow(p) \/ CloseById(p)
                              \/ EscalateRow(p) \/ WriteEvent(p)
    BY <2>2, InsertRowIsOpen, ChangesAreMoves, WriteEventIsRecord
  <2> QED
    BY <2>1, <2>2 DEF Next, Proceed, CalmNext
<1> QED
  BY <1>1, <1>2, EngineInvariance, PTL DEF Spec, KeepsTheBook,
     Promise!BookSpec, BookStep
-----------------------------------------------------------------------------
(* The chronicle is complete *)

\* A step without a crash or a failing call loses no entry on its way to the
\* journal, and changes no table.
Careful ==
    /\ rows' = rows /\ nrows' = nrows /\ journal' = journal
    /\ \A p \in Procs, e \in Kinds, i \in Ids :
         Carries(p, e, i) => Carries(p, e, i)'

LEMMA CalmNextIsCareful ==
    ASSUME EngineInv, CalmNext, crashes' = 0, dbErrors' = 0 PROVE Careful
<1> USE EngineAssumption DEF EngineInv, TypeOK, Careful, Carries
<1>1. ASSUME NEW p \in Procs, RaiseReturns(p) PROVE Careful
  BY <1>1 DEF RaiseReturns, Goto
<1>2. ASSUME NEW p \in Procs, ManualReturns(p) PROVE Careful
  BY <1>2 DEF ManualReturns, Goto
<1>3. ASSUME NEW p \in Procs, HandOver(p) PROVE Careful
  BY <1>3 DEF HandOver, Goto
<1>4. ASSUME NEW p \in Procs, DbFails(p) PROVE FALSE
  BY <1>4 DEF DbFails
<1>5. ASSUME NEW m \in Monitors, NEW k \in Keys, StartRaise(m, k) PROVE Careful
  BY <1>5 DEF StartRaise, Submit, Goto, MayRun
<1>6. ASSUME NEW m \in Monitors, NEW k \in Keys, StartEscalate(m, k)
      PROVE Careful
  BY <1>6 DEF StartEscalate, Submit, Goto, MayRun
<1>7. ASSUME NEW m \in Monitors \cup {Boot}, NEW k \in Keys, StartClear(m, k)
      PROVE Careful
  BY <1>7 DEF StartClear, Submit, Goto, MayRun
<1>8. ASSUME NEW o \in Operators, NEW i \in Ids, StartManual(o, i)
      PROVE Careful
  BY <1>8 DEF StartManual, Submit, Goto, MayRun
<1>9. CASE Load \/ Serve
  BY <1>9 DEF Load, Serve
<1>10. CASE Crash
  BY <1>10 DEF Crash
<1>11. CASE (\E k \in Keys : FaultChanges(k)) \/ UNCHANGED vars
  BY <1>11 DEF FaultChanges, vars
<1> QED
  BY <1>1, <1>2, <1>3, <1>4, <1>5, <1>6, <1>7, <1>8, <1>9, <1>10, <1>11
     DEF CalmNext

\* Crashes and failing calls are only ever counted up.
LEMMA CalmKeepsCount ==
    ASSUME EngineInv, CalmNext, crashes' = 0, dbErrors' = 0
    PROVE  crashes = 0 /\ dbErrors = 0
BY EngineAssumption DEF EngineInv, TypeOK, CalmNext, RaiseReturns,
   ManualReturns, HandOver, DbFails, StartRaise, StartEscalate, StartClear,
   StartManual, Load, Serve, Crash, FaultChanges, vars, faults

\* What ChronicleComplete says of one row.
RowTold(i) ==
    /\ Mirrored("raised", i)
    /\ rows[i].st = "closed" /\ rows[i].key \notin Instant
         => Mirrored("cleared", i)
    /\ rows[i].sev = "critical" => Mirrored("escalated", i)

LEMMA CarefulKeepsTold ==
    ASSUME EngineInv, Careful, NEW i \in 1..nrows, RowTold(i) PROVE RowTold(i)'
<1>1. i \in Ids
  BY EngineAssumption DEF EngineInv, TypeOK, Ids
<1>2. \A e \in Kinds : Mirrored(e, i) => Mirrored(e, i)'
  BY <1>1 DEF Mirrored, Careful
<1> QED
  BY <1>2 DEF RowTold, Careful, Kinds

\* A database call that changes a row hands its coroutine the entry to write,
\* and takes no other coroutine's from it.
LEMMA CallKeepsTold ==
    ASSUME EngineInv, NEW p \in Procs,
           InsertRow(p) \/ CloseRow(p) \/ CloseById(p) \/ EscalateRow(p),
           \A i \in 1..nrows : RowTold(i)
    PROVE  \A i \in 1..nrows' : RowTold(i)'
<1> USE EngineAssumption DEF EngineInv, TypeOK
<1>1. /\ \A e \in Kinds, i \in Ids, q \in Procs :
           Carries(q, e, i) => Carries(q, e, i)'
      /\ journal' = journal
  BY DEF Carries, InsertRow, CloseRow, CloseById, EscalateRow, Found, Goto
<1>2. \A e \in Kinds, i \in Ids : Mirrored(e, i) => Mirrored(e, i)'
  BY <1>1 DEF Mirrored
<1>3. \A i \in 1..nrows : i \in Ids
  BY DEF Ids
<1>4. CASE UNCHANGED <<rows, nrows>>
  BY <1>2, <1>3, <1>4 DEF RowTold, Kinds
<1>5. CASE InsertRow(p) /\ nrows < MaxRows /\ nrows' = nrows + 1
           /\ rows' = [rows EXCEPT ![nrows + 1] =
                  [key |-> job[p].key, sev |-> "default",
                   st |-> IF job[p].key \in Instant THEN "closed" ELSE "open"]]
           /\ Found(p, "back", nrows + 1)
  <2>1. PICK n \in Ids : n = nrows + 1
    BY <1>5 DEF Ids
  <2>2. /\ \A i \in Ids : i # n => rows'[i] = rows[i]
        /\ rows'[n].key = job[p].key /\ rows'[n].sev = "default"
        /\ rows'[n].st = "closed" => job[p].key \in Instant
    BY <1>5, <2>1
  <2>3. Carries(p, "raised", n)'
    BY <1>5, <2>1 DEF InsertRow, Carries, Found, Goto, Kind
  <2>4. RowTold(n)'
    BY <2>2, <2>3 DEF RowTold, Mirrored
  <2>5. ASSUME NEW i \in 1..nrows' PROVE RowTold(i)'
    <3>1. CASE i = n
      BY <2>4, <3>1
    <3>2. CASE i # n
      BY <1>2, <1>3, <1>5, <2>1, <2>2, <3>2 DEF RowTold, Kinds
    <3> QED
      BY <3>1, <3>2
  <2> QED
    BY <2>5
<1>6. ASSUME NEW k \in Ids, NEW label \in {"back", "event"}, Amend(p, k, label)
      PROVE  \A i \in 1..nrows' : RowTold(i)'
  <2>1. Carries(p, Kind(job[p].op), k)'
    BY <1>6 DEF Amend, Carries, Kind
  <2>2. ASSUME NEW i \in 1..nrows PROVE RowTold(i)'
    <3>1. CASE i # k
      BY <1>2, <1>3, <1>6, <3>1 DEF Amend, RowTold, Kinds
    <3>2. CASE i = k
      BY <1>2, <1>3, <1>6, <2>1, <3>2 DEF Amend, RowTold, Mirrored, Kinds
    <3> QED
      BY <3>1, <3>2
  <2> QED
    BY <1>6, <2>2 DEF Amend
<1>7. \/ UNCHANGED <<rows, nrows>> \/ InsertRow(p)
      \/ \E k \in Ids, label \in {"back", "event"} : Amend(p, k, label)
  BY CallAmends
<1> QED
  BY <1>4, <1>5, <1>6, <1>7 DEF InsertRow

\* add_event: what its coroutine carried is in the journal now.
LEMMA WriteKeepsTold ==
    ASSUME EngineInv, NEW p \in Procs, WriteEvent(p),
           NEW i \in 1..nrows, RowTold(i)
    PROVE  RowTold(i)'
<1> USE EngineAssumption DEF EngineInv, TypeOK
<1>1. PICK e \in Kinds, n \in Ids : e = Kind(job[p].op) /\ n = job[p].row
  <2>1. job[p].row \in 1..nrows
    BY DEF WriteEvent, JobShape
  <2>2. Kind(job[p].op) \in Kinds /\ job[p].row \in Ids
    BY <2>1 DEF Ids, Kind, Kinds
  <2> QED
    BY <2>2
<1>2. /\ pc' = [pc EXCEPT ![p] = "notify"]
      /\ journal' = [journal EXCEPT ![e][n] = journal[e][n] + 1]
      /\ UNCHANGED <<rows, nrows, job>>
  BY <1>1 DEF WriteEvent, Goto
<1>3. /\ \A f \in Kinds, j \in Ids : journal[f][j] > 0 => journal'[f][j] > 0
      /\ journal'[e][n] > 0
  BY <1>2
<1>4. \A q \in Procs, f \in Kinds, j \in Ids :
        Carries(q, f, j) => Carries(q, f, j)' \/ (f = e /\ j = n)
  BY <1>1, <1>2 DEF Carries
<1>5. i \in Ids
  BY DEF Ids
<1>6. \A f \in Kinds : Mirrored(f, i) => Mirrored(f, i)'
  BY <1>3, <1>4, <1>5 DEF Mirrored
<1> QED
  BY <1>2, <1>6 DEF RowTold, Kinds

\* Short of a crash or a failing database call, every transition of every
\* alarm is in the journal, or its coroutine is on its way there with it.
THEOREM ChronicleIsComplete == Spec => []ChronicleComplete
<1>1. Init => ChronicleComplete
  <2> SUFFICES ASSUME Init, NEW i \in 1..nrows PROVE RowTold(i)
    BY DEF ChronicleComplete, RowTold
  <2>1. PICK k \in Keys : OldDatabase(k) \/ NewDatabase(k)
    BY DEF Init
  <2>2. nrows = 1 /\ i = 1 /\ OldDatabase(k)
    BY <2>1 DEF NewDatabase, OldDatabase
  <2>3. i \in Ids
    BY <2>2, EngineAssumption DEF Ids
  <2>4. journal["raised"][i] > 0 /\ rows[i].st = "open" /\ rows[i].sev = "default"
    BY <2>2, <2>3 DEF OldDatabase, Kinds
  <2> QED
    BY <2>4 DEF RowTold, Mirrored
<1>2. EngineInv /\ EngineInv' /\ ChronicleComplete /\ [Next]_vars
        => ChronicleComplete'
  <2> SUFFICES ASSUME EngineInv, EngineInv', ChronicleComplete, [Next]_vars,
                      crashes' = 0, dbErrors' = 0
               PROVE  \A i \in 1..nrows' : RowTold(i)'
    BY DEF ChronicleComplete, RowTold
  <2>1. CASE CalmNext
    <3>1. Careful /\ crashes = 0 /\ dbErrors = 0
      BY <2>1, CalmNextIsCareful, CalmKeepsCount
    <3>2. \A i \in 1..nrows : RowTold(i)
      BY <3>1 DEF ChronicleComplete, RowTold
    <3>3. nrows' = nrows
      BY <3>1 DEF Careful
    <3> QED
      BY <3>1, <3>2, <3>3, CarefulKeepsTold
  <2>2. ASSUME NEW p \in Procs,
               InsertRow(p) \/ CloseRow(p) \/ CloseById(p) \/ EscalateRow(p)
                 \/ WriteEvent(p)
        PROVE  \A i \in 1..nrows' : RowTold(i)'
    <3>1. crashes = 0 /\ dbErrors = 0
      BY <2>2 DEF InsertRow, CloseRow, CloseById, EscalateRow, WriteEvent, faults
    <3>2. \A i \in 1..nrows : RowTold(i)
      BY <3>1 DEF ChronicleComplete, RowTold
    <3>3. WriteEvent(p) => nrows' = nrows
      BY DEF WriteEvent
    <3> QED
      BY <2>2, <3>2, <3>3, CallKeepsTold, WriteKeepsTold
  <2> QED
    BY <2>1, <2>2 DEF Next, Proceed, CalmNext
<1> QED
  BY <1>1, <1>2, EngineInvariance, PTL DEF Spec
-----------------------------------------------------------------------------
(* No open alarm is forgotten *)

\* load() sees every open alarm: no more are open than it asks for.
LoadFits == Cardinality(OpenIds) <= LoadLimit

\* An operator's request resumes before its key is raised again.  (One that
\* resumes later takes the key of the new alarm out of the active set.)
PromptManual == \A o \in Operators :
    pc[o] = "back" /\ job[o].op = "manual" => ~Open(job[o].key)

\* a coroutine will put k among the active keys, or is closing its row
Holds(p, k) ==
    /\ job[p].key = k
    /\ \/ job[p].op = "raise" /\ pc[p] \in {"dup", "back"} /\ k \notin Instant
       \/ job[p].op = "clear" /\ pc[p] = "row"

Tracked(i) == rows[i].st = "open" =>
    rows[i].key \in active \/ \E p \in Procs : Holds(p, rows[i].key)

ByHand == \A p \in Procs : pc[p] # "idle" /\ job[p].op = "manual" => p \in Operators

\* The strengthening of TrackedOpen that its steps preserve.
TrackInv ==
    /\ ByHand
    /\ phase # "down" /\ dbErrors = 0 => \A i \in Ids : Tracked(i)

\* No row is opened, no active key is lost and no coroutine lets go.
Keeps ==
    /\ \A i \in Ids : rows'[i].st = "open"
                        => rows[i].st = "open" /\ rows'[i].key = rows[i].key
    /\ active \subseteq active'
    /\ \A p \in Procs, k \in Keys : Holds(p, k) => Holds(p, k)'

LEMMA KeepsTracked ==
    ASSUME TypeOK, Keeps, NEW i \in Ids, Tracked(i) PROVE Tracked(i)'
BY DEF Tracked, Keeps, TypeOK, Row

\* Only operators' requests are manual.
LEMMA ByHandStep == ASSUME TypeOK, ByHand, [Next]_vars PROVE ByHand'
<1> USE DEF ByHand, TypeOK
<1>1. ASSUME NEW p \in Procs, Proceed(p) \/ DbFails(p) PROVE ByHand'
  <2>1. pc[p] # "idle"
    BY <1>1 DEF Proceed, DbFails, InsertRow, RaiseReturns, CloseRow, CloseById,
       ManualReturns, EscalateRow, WriteEvent, HandOver
  <2>2. \/ job' = job
        \/ \E i : job' = [job EXCEPT ![p].row = i]
    BY <1>1 DEF Proceed, DbFails, InsertRow, RaiseReturns, CloseRow, CloseById,
       ManualReturns, EscalateRow, WriteEvent, HandOver, Found
  <2>3. \A q \in Procs : job'[q].op = job[q].op
    BY <2>2 DEF Job
  <2>4. \E label : pc' = [pc EXCEPT ![p] = label]
    BY <1>1 DEF Proceed, DbFails, InsertRow, RaiseReturns, CloseRow, CloseById,
       ManualReturns, EscalateRow, WriteEvent, HandOver, Goto, Found
  <2> QED
    BY <2>1, <2>3, <2>4
<1>2. ASSUME NEW m \in Monitors \cup {Boot}, NEW k \in Keys,
             StartRaise(m, k) \/ StartEscalate(m, k) \/ StartClear(m, k)
      PROVE  ByHand'
  BY <1>2 DEF StartRaise, StartEscalate, StartClear, Submit, Goto, Procs
<1>3. ASSUME NEW o \in Operators, NEW i \in Ids, StartManual(o, i)
      PROVE  ByHand'
  BY <1>3 DEF StartManual, Submit, Goto
<1>4. CASE Load \/ Serve \/ Crash \/ (\E k \in Keys : FaultChanges(k))
           \/ UNCHANGED vars
  BY <1>4 DEF Load, Serve, Crash, FaultChanges, vars
<1> QED
  BY <1>1, <1>2, <1>3, <1>4 DEF Next

\* What the coroutines do to a running engine that tracks its alarms.
LEMMA TrackingProceeds ==
    ASSUME EngineInv, PromptManual, ByHand, NEW p \in Procs, Proceed(p),
           \A i \in Ids : Tracked(i), NEW i \in Ids
    PROVE  Tracked(i)'
<1> USE EngineAssumption DEF EngineInv, TypeOK
<1>1. CASE InsertRow(p)
  <2>1. CASE UNCHANGED <<rows, nrows, job>>
    <3>1. Keeps
      BY <1>1, <2>1 DEF InsertRow, Keeps, Holds, Goto
    <3> QED
      BY <3>1, KeepsTracked
  <2>2. CASE /\ nrows < MaxRows /\ Found(p, "back", nrows + 1)
             /\ rows' = [rows EXCEPT ![nrows + 1] =
                  [key |-> job[p].key, sev |-> "default",
                   st |-> IF job[p].key \in Instant THEN "closed" ELSE "open"]]
    <3>1. PICK n \in Ids, k \in Keys : n = nrows + 1 /\ k = job[p].key
      BY <2>2 DEF Ids, Job
    <3>2. /\ \A j \in Ids : j # n => rows'[j] = rows[j]
          /\ rows'[n].key = k
          /\ rows'[n].st = "open" => k \notin Instant
          /\ active' = active
      BY <1>1, <2>2, <3>1 DEF InsertRow
    <3>3. /\ Holds(p, k)' \/ rows'[n].st # "open"
          /\ \A q \in Procs, c \in Keys : Holds(q, c) => Holds(q, c)'
      BY <1>1, <2>2, <3>1, <3>2 DEF InsertRow, Holds, Found, Goto
    <3>4. rows[i].key \in Keys
      BY DEF Row
    <3> QED
      BY <3>2, <3>3, <3>4 DEF Tracked
  <2> QED
    BY <1>1, <2>1, <2>2 DEF InsertRow
<1>2. CASE RaiseReturns(p)
  <2>1. /\ rows' = rows /\ active \subseteq active'
        /\ \A q \in Procs, k \in Keys :
             Holds(q, k) => Holds(q, k)' \/ k \in active'
    BY <1>2 DEF RaiseReturns, Holds, Goto
  <2> QED
    BY <2>1 DEF Tracked, Row
<1>3. CASE CloseRow(p)
  <2>1. /\ active' = active
        /\ rows'[i].st = "open"
             => rows'[i] = rows[i] /\ rows[i].key # job[p].key
    BY <1>3 DEF CloseRow, IsOpen, Open, Row
  <2>2. \A q \in Procs, k \in Keys :
          Holds(q, k) => Holds(q, k)' \/ k = job[p].key
    BY <1>3 DEF CloseRow, Holds, Found, Goto
  <2> QED
    BY <2>1, <2>2 DEF Tracked, Row
<1>4. CASE ManualReturns(p)
  <2>1. ~Open(job[p].key)
    <3>1. pc[p] = "back" /\ job[p].op = "manual" /\ p \in Operators
      BY <1>4 DEF ManualReturns, ByHand
    <3> QED
      BY <3>1 DEF PromptManual
  <2>2. /\ rows' = rows /\ active' = active \ {job[p].key}
        /\ \A q \in Procs, k \in Keys : Holds(q, k) => Holds(q, k)'
    BY <1>4 DEF ManualReturns, Holds, Goto
  <2> QED
    BY <2>1, <2>2 DEF Tracked, Open, IsOpen, Row
<1>5. CASE CloseById(p) \/ EscalateRow(p) \/ WriteEvent(p) \/ HandOver(p)
  <2>1. \A j \in Ids : rows'[j].st = "open"
                        => rows[j].st = "open" /\ rows'[j].key = rows[j].key
    BY <1>5 DEF CloseById, EscalateRow, WriteEvent, HandOver, IsOpen, Row
  <2>2. Keeps
    BY <1>5, <2>1 DEF CloseById, EscalateRow, WriteEvent, HandOver, Keeps,
       Holds, Goto, Found
  <2> QED
    BY <2>2, KeepsTracked
<1> QED
  BY <1>1, <1>2, <1>3, <1>4, <1>5 DEF Proceed

\* Starting a coroutine forgets nothing: the one that takes a key out of the
\* active set is on its way to close the row.
LEMMA TrackingStarts ==
    ASSUME EngineInv, NEW p \in Procs, NEW k \in Keys, NEW n \in Ids,
           \/ StartRaise(p, k) \/ StartEscalate(p, k) \/ StartClear(p, k)
           \/ StartManual(p, n),
           \A i \in Ids : Tracked(i), NEW i \in Ids
    PROVE  Tracked(i)'
<1> USE DEF EngineInv, TypeOK
<1>1. /\ rows' = rows
      /\ \A q \in Procs, c \in Keys : Holds(q, c) => Holds(q, c)'
  BY DEF StartRaise, StartEscalate, StartClear, StartManual, MayRun, Submit,
     Goto, Holds
<1>2. active' = active \/ (active' = active \ {k} /\ Holds(p, k)')
  BY DEF StartRaise, StartEscalate, StartClear, StartManual, Submit, Goto, Holds
<1> QED
  BY <1>1, <1>2 DEF Tracked, Row

\* load() of a database it can read whole makes every open key active.
LEMMA LoadTracks ==
    ASSUME EngineInv, LoadFits, Load, NEW i \in Ids PROVE Tracked(i)'
<1>1. IsFiniteSet(Ids)
  BY EngineAssumption, FS_Interval DEF Ids
<1>2. OpenIds \in SUBSET Ids
  BY DEF OpenIds
<1>3. IsFiniteSet(OpenIds)
  BY <1>1, <1>2, FS_Subset
<1>4. PICK S \in SUBSET OpenIds : /\ Cardinality(S) = Cardinality(OpenIds)
                                  /\ active' = {rows[j].key : j \in S}
  BY DEF Load, LoadFits
<1>5. S = OpenIds
  BY <1>3, <1>4, FS_Subset
<1> QED
  BY <1>4, <1>5 DEF Load, Tracked, OpenIds

\* As long as load() reads every open alarm and every manual clear resumes
\* before its key is raised again, a running engine whose calls did not fail
\* forgets no open alarm: its key is active, or a coroutine is raising or
\* closing it.
THEOREM OpenIsTracked ==
    Spec /\ []LoadFits /\ []PromptManual => []TrackedOpen
<1>1. Init => TrackInv
  BY DEF Init, TrackInv, ByHand
<1>2. EngineInv /\ EngineInv' /\ LoadFits /\ PromptManual /\ TrackInv
        /\ [Next]_vars => TrackInv'
  <2> SUFFICES ASSUME EngineInv, EngineInv', LoadFits, PromptManual, TrackInv,
                      [Next]_vars
               PROVE  TrackInv'
    OBVIOUS
  <2>1. ByHand'
    BY ByHandStep DEF EngineInv, TrackInv
  <2> SUFFICES ASSUME phase' # "down", dbErrors' = 0, NEW i \in Ids
               PROVE  Tracked(i)'
    BY <2>1 DEF TrackInv
  <2>2. CASE Load
    BY <2>2, LoadTracks
  <2>3. CASE Crash
    BY <2>3 DEF Crash
  <2>4. CASE \/ \E p \in Procs : Proceed(p)
             \/ \E p \in Procs, k \in Keys, n \in Ids :
                  StartRaise(p, k) \/ StartEscalate(p, k) \/ StartClear(p, k)
                    \/ StartManual(p, n)
    <3>1. phase' = phase /\ dbErrors' = dbErrors
      BY <2>4 DEF Proceed, InsertRow, RaiseReturns, CloseRow, CloseById,
         ManualReturns, EscalateRow, WriteEvent, HandOver, StartRaise,
         StartEscalate, StartClear, StartManual, faults
    <3> QED
      BY <2>4, <3>1, TrackingProceeds, TrackingStarts DEF TrackInv
  <2>5. CASE Serve \/ (\E k \in Keys : FaultChanges(k)) \/ UNCHANGED vars
    <3>1. Keeps /\ dbErrors' = dbErrors /\ phase # "down"
      BY <2>5 DEF Serve, FaultChanges, vars, faults, Keeps, Holds
    <3> QED
      BY <3>1, KeepsTracked DEF TrackInv, EngineInv
  <2>6. ASSUME NEW p \in Procs, DbFails(p) PROVE FALSE
    BY <2>6 DEF DbFails, EngineInv, TypeOK
  <2>7. Keys # {} /\ Ids # {}
    BY EngineAssumption DEF EngineInv, TypeOK, Ids, Procs, Job
  <2> QED
    BY <2>2, <2>3, <2>4, <2>5, <2>6, <2>7 DEF Next, Procs
<1>3. EngineInv /\ TrackInv => TrackedOpen
  BY DEF EngineInv, TypeOK, Row, TrackInv, Tracked, TrackedOpen, OpenIds, Busy,
     Holds
<1> QED
  BY <1>1, <1>2, <1>3, EngineInvariance, PTL DEF Spec

\* With nobody clearing by hand and rows within what load() asks for, both
\* provisos always hold.
COROLLARY TrackedUnattended ==
    ASSUME Operators = {}, MaxRows <= LoadLimit
    PROVE  Spec => []TrackedOpen
<1>1. LoadFits
  <2>1. IsFiniteSet(Ids) /\ Cardinality(Ids) = MaxRows
    BY EngineAssumption, FS_Interval DEF Ids
  <2>2. OpenIds \in SUBSET Ids
    BY DEF OpenIds
  <2>3. Cardinality(OpenIds) <= Cardinality(Ids) /\ IsFiniteSet(OpenIds)
    BY <2>1, <2>2, FS_Subset
  <2>4. Cardinality(OpenIds) \in Nat
    BY <2>3, FS_CardinalityType
  <2> QED
    BY <2>1, <2>3, <2>4, EngineAssumption DEF LoadFits
<1>2. PromptManual
  BY DEF PromptManual
<1> QED
  BY <1>1, <1>2, OpenIsTracked, PTL
=============================================================================
