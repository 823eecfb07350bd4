----------------------------- MODULE AlarmBook -----------------------------
(***************************************************************************)
(* What the alarm engine promises its readers, without coroutines, threads *)
(* or an active set: an alarm is opened while no other of its key is open, *)
(* closed at most once, and each of its transitions gets one entry in the  *)
(* chronicle, after it happened.                                           *)
(***************************************************************************)
EXTENDS Naturals

CONSTANTS Keys, Ids

VARIABLES
    state,     \* state[i]: "free", "open" or "closed"
    about,     \* about[i]: the key alarm i is about
    grave,     \* grave[i]: alarm i was escalated
    chronicle  \* the <<kind, i>> entries written

bookVars == <<state, about, grave, chronicle>>

BookInit ==
    /\ \A i \in Ids : state[i] # "closed" /\ grave[i] = FALSE
    /\ \A i, j \in Ids : state[i] = "open" /\ state[j] = "open" => i = j
    /\ \A entry \in chronicle : entry[1] = "raised" /\ state[entry[2]] = "open"

\* a new alarm; one that needs no clearing is over at once
OpenAlarm(i, k) ==
    /\ state[i] = "free"
    /\ \/ /\ \A j \in Ids : state[j] = "open" => about[j] # k
          /\ state' = [state EXCEPT ![i] = "open"]
       \/ state' = [state EXCEPT ![i] = "closed"]
    /\ about' = [about EXCEPT ![i] = k]
    /\ grave' = [grave EXCEPT ![i] = FALSE]
    /\ UNCHANGED chronicle

CloseAlarm(i) ==
    /\ state[i] = "open"
    /\ state' = [state EXCEPT ![i] = "closed"]
    /\ UNCHANGED <<about, grave, chronicle>>

Escalate(i) ==
    /\ state[i] = "open" /\ ~grave[i]
    /\ grave' = [grave EXCEPT ![i] = TRUE]
    /\ UNCHANGED <<state, about, chronicle>>

Record(kind, i) ==
    /\ <<kind, i>> \notin chronicle
    /\ \/ kind = "raised" /\ state[i] # "free"
       \/ kind = "escalated" /\ grave[i]
       \/ kind = "cleared" /\ state[i] = "closed"
    /\ chronicle' = chronicle \cup {<<kind, i>>}
    /\ UNCHANGED <<state, about, grave>>

BookNext ==
    \E i \in Ids :
        \/ \E k \in Keys : OpenAlarm(i, k)
        \/ CloseAlarm(i)
        \/ Escalate(i)
        \/ \E kind \in {"raised", "escalated", "cleared"} : Record(kind, i)

BookSpec == BookInit /\ [][BookNext]_bookVars
=============================================================================
