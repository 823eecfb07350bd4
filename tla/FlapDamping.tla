---------------------------- MODULE FlapDamping ----------------------------
(***************************************************************************)
(* Between an alarm's transition and a recipient: flap damping             *)
(* (alarms.py, _flap_on_raise and flap_maintenance) and the notifier's     *)
(* cooldown (notify.py, Notifier.notify).                                  *)
(*                                                                         *)
(* Time is kept as ages: how many polling intervals ago something          *)
(* happened, counted up to MaxAge ("long ago").  A timestamp of the code   *)
(* is an age of 0; a comparison now - ts > d is age > d.  In an interval a *)
(* coroutine evaluates each of its alarms at most once, and a notice is    *)
(* sent (SEND_TIMEOUT bounds it) before the interval is over.              *)
(***************************************************************************)
EXTENDS Naturals, FiniteSets

CONSTANTS
    Keys,          \* alarms of the types in FLAP_TYPES
    PingKeys,      \* those the ping cycle owns; the others are the counters'
    Configs,       \* values the notifications.* settings may have
    PingTargets,   \* some host has an address to ping
    MaxAge         \* bound: an age at which nothing matters any more

Coroutines == {"ping", "counters"}
Owner(k)   == IF k \in PingKeys THEN "ping" ELSE "counters"
OwnedBy(c) == {k \in Keys : Owner(k) = c}

Heads   == {"raise", "clear", "FLAPPING"}
Notices == {"raise", "clear", "flapping", "ended"}

\* (mutant: raises and clears share one cooldown)
ThrottleShared(notice) == IF notice \in {"flapping", "ended"} THEN "FLAPPING"
                          ELSE "raise"

\* the third part of Notifier's throttling key: head or cleared
Throttle(notice) == IF notice \in {"flapping", "ended"} THEN "FLAPPING"
                    ELSE notice

Settings == [count : Nat, window : 0..(MaxAge - 1), quiet : 1..MaxAge,
             cooldown : 0..MaxAge]

\* what is assumed of the constants
DampingAssumption ==
    /\ PingKeys \subseteq Keys /\ PingTargets \in BOOLEAN
    /\ MaxAge \in Nat \ {0}
    /\ Configs \subseteq Settings /\ Configs # {}

VARIABLES
    cfg,        \* the settings in force
    up,         \* the alarms that are raised
    raises,     \* raises[k]: ages in AlarmEngine._raise_times
    muted,      \* the keys of AlarmEngine._flapping
    quietFor,   \* quietFor[k]: age of _flapping[k]
    lastSent,   \* lastSent[k][head]: age of Notifier._last_sent
    evaluated,  \* alarms already evaluated in this interval
    swept,      \* flap_maintenance has run in this interval
    ending,     \* what its loop has still to end
    pending,    \* pending[c]: the notice coroutine c is sending
    heard,      \* heard[k]: the last notice delivered (history)
    told        \* told[k]: ages of the raises delivered since the last
                \*          end of a mute (history)

vars == <<cfg, up, raises, muted, quietFor, lastSent, evaluated, swept, ending,
          pending, heard, told>>

Nothing == [key |-> CHOOSE k \in Keys : TRUE, notice |-> "none"]
Say(c, k, notice) ==
    pending' = [pending EXCEPT ![c] = [key |-> k, notice |-> notice]]
Free(c) == pending[c].notice = "none"

\* a coroutine evaluates an alarm once per interval; the ping cycle does so
\* before its call of flap_maintenance
MayEvaluate(k) ==
    /\ k \notin evaluated /\ Free(Owner(k))
    /\ Owner(k) = "ping" => PingTargets /\ ~swept

-----------------------------------------------------------------------------
(* Transitions *)

\* the raises inside the window, this one included
Recent(k) == {0} \cup {age \in raises[k] : age <= cfg.window}

\* (mutant: one raise too many before the mute)
RaiseLate(k) ==
    /\ MayEvaluate(k) /\ k \notin up
    /\ up' = up \cup {k}
    /\ evaluated' = evaluated \cup {k}
    /\ raises' = [raises EXCEPT ![k] = Recent(k)]
    /\ \/ k \in muted /\ quietFor' = [quietFor EXCEPT ![k] = 0]
          /\ UNCHANGED <<muted, pending>>
       \/ /\ k \notin muted /\ Cardinality(Recent(k)) > cfg.count
          /\ muted' = muted \cup {k} /\ quietFor' = [quietFor EXCEPT ![k] = 0]
          /\ Say(Owner(k), k, "flapping")
       \/ /\ k \notin muted /\ Cardinality(Recent(k)) <= cfg.count
          /\ Say(Owner(k), k, "raise") /\ UNCHANGED <<muted, quietFor>>
    /\ UNCHANGED <<cfg, lastSent, swept, ending, heard, told>>

\* (mutant: the mute starts without its notice)
RaiseUnannounced(k) ==
    /\ MayEvaluate(k) /\ k \notin up
    /\ up' = up \cup {k}
    /\ evaluated' = evaluated \cup {k}
    /\ raises' = [raises EXCEPT ![k] = Recent(k)]
    /\ IF k \in muted \/ Cardinality(Recent(k)) >= cfg.count
       THEN /\ muted' = muted \cup {k}
            /\ quietFor' = [quietFor EXCEPT ![k] = 0]
            /\ UNCHANGED pending
       ELSE Say(Owner(k), k, "raise") /\ UNCHANGED <<muted, quietFor>>
    /\ UNCHANGED <<cfg, lastSent, swept, ending, heard, told>>

\* (mutant: an alarm already muted is sent like any other)
RaiseLeaking(k) ==
    /\ MayEvaluate(k) /\ k \notin up
    /\ up' = up \cup {k}
    /\ evaluated' = evaluated \cup {k}
    /\ raises' = [raises EXCEPT ![k] = Recent(k)]
    /\ IF Cardinality(Recent(k)) >= cfg.count /\ k \notin muted
       THEN /\ muted' = muted \cup {k}
            /\ quietFor' = [quietFor EXCEPT ![k] = 0]
            /\ Say(Owner(k), k, "flapping")
       ELSE Say(Owner(k), k, "raise") /\ UNCHANGED <<muted, quietFor>>
    /\ UNCHANGED <<cfg, lastSent, swept, ending, heard, told>>

\* _raise, from the inserted row on, with _flap_on_raise
Raise(k) ==
    /\ MayEvaluate(k) /\ k \notin up
    /\ up' = up \cup {k}
    /\ evaluated' = evaluated \cup {k}
    /\ \/ /\ cfg.count = 0
          /\ Say(Owner(k), k, "raise")
          /\ UNCHANGED <<raises, muted, quietFor>>
       \/ /\ cfg.count > 0
          /\ raises' = [raises EXCEPT ![k] = Recent(k)]
          /\ \/ /\ k \in muted
                /\ quietFor' = [quietFor EXCEPT ![k] = 0]
                /\ UNCHANGED <<muted, pending>>
             \/ /\ k \notin muted /\ Cardinality(Recent(k)) >= cfg.count
                /\ muted' = muted \cup {k}
                /\ quietFor' = [quietFor EXCEPT ![k] = 0]
                /\ Say(Owner(k), k, "flapping")
             \/ /\ k \notin muted /\ Cardinality(Recent(k)) < cfg.count
                /\ Say(Owner(k), k, "raise")
                /\ UNCHANGED <<muted, quietFor>>
    /\ UNCHANGED <<cfg, lastSent, swept, ending, heard, told>>

\* _clear, from the closed row on
Clear(k) ==
    /\ MayEvaluate(k) /\ k \in up
    /\ up' = up \ {k}
    /\ evaluated' = evaluated \cup {k}
    /\ IF k \in muted THEN UNCHANGED pending ELSE Say(Owner(k), k, "clear")
    /\ UNCHANGED <<cfg, raises, muted, quietFor, lastSent, swept, ending,
                   heard, told>>

-----------------------------------------------------------------------------
(* flap_maintenance, at the end of the ping cycle *)

\* (mutant: an alarm that stays up keeps its mute)
QuietenedDown == {k \in muted : quietFor[k] >= cfg.quiet /\ k \notin up}

Quietened == {k \in muted : quietFor[k] >= cfg.quiet}

\* (mutant: the end of a mute is only logged)
EndSilent(k) ==
    /\ muted' = muted \ {k}
    /\ raises' = [raises EXCEPT ![k] = {}]
    /\ told' = [told EXCEPT ![k] = {}]
    /\ UNCHANGED pending

\* the loop's body up to its await
End(k) ==
    /\ muted' = muted \ {k}
    /\ raises' = [raises EXCEPT ![k] = {}]
    /\ told' = [told EXCEPT ![k] = {}]
    /\ Say("ping", k, "ended")

\* the loop runs over a copy of _flapping taken here
Sweep ==
    /\ PingTargets /\ Free("ping") /\ ending = {} /\ ~swept
    /\ swept' = TRUE
    /\ \/ \E k \in Quietened : End(k) /\ ending' = Quietened \ {k}
       \/ Quietened = {} /\ UNCHANGED <<muted, raises, told, ending, pending>>
    /\ UNCHANGED <<cfg, up, quietFor, lastSent, evaluated, heard>>

\* (mutant: the key stays in the copy the loop runs over)
SweepOnAgain(k) ==
    /\ k \in ending /\ Free("ping")
    /\ End(k)
    /\ UNCHANGED <<cfg, up, quietFor, lastSent, evaluated, swept, ending, heard>>

\* ... and goes on with it after the notice of the previous key
SweepOn(k) ==
    /\ k \in ending /\ Free("ping")
    /\ End(k)
    /\ ending' = ending \ {k}
    /\ UNCHANGED <<cfg, up, quietFor, lastSent, evaluated, swept, heard>>

-----------------------------------------------------------------------------
(* Notifier.notify: the cooldown, then the channels *)

Deliver(c) ==
    LET k      == pending[c].key
        notice == pending[c].notice
        head   == Throttle(notice)
    IN
    /\ ~Free(c)
    /\ pending' = [pending EXCEPT ![c] = Nothing]
    /\ \/ /\ lastSent[k][head] < cfg.cooldown
          /\ UNCHANGED <<lastSent, heard, told>>
       \/ /\ lastSent[k][head] >= cfg.cooldown
          /\ lastSent' = [lastSent EXCEPT ![k][head] = 0]
          /\ heard' = [heard EXCEPT ![k] = notice]
          /\ told' = IF notice = "raise"
                     THEN [told EXCEPT ![k] = @ \cup {0}] ELSE told
    /\ UNCHANGED <<cfg, up, raises, muted, quietFor, evaluated, swept, ending>>

-----------------------------------------------------------------------------
(* Time *)

Older(age)   == IF age < MaxAge THEN age + 1 ELSE MaxAge
OlderAll(S)  == {age + 1 : age \in {a \in S : a + 1 < MaxAge}}

Tick ==
    /\ \A c \in Coroutines : Free(c)
    /\ ending = {} /\ (swept \/ ~PingTargets)
    /\ raises' = [k \in Keys |-> OlderAll(raises[k])]
    /\ told' = [k \in Keys |-> OlderAll(told[k])]
    /\ quietFor' = [k \in Keys |-> Older(quietFor[k])]
    /\ lastSent' = [k \in Keys |-> [h \in Heads |-> Older(lastSent[k][h])]]
    /\ evaluated' = {} /\ swept' = FALSE
    /\ UNCHANGED <<cfg, up, muted, ending, pending, heard>>

Init ==
    /\ cfg \in Configs
    /\ up = {} /\ muted = {} /\ evaluated = {} /\ ending = {}
    /\ swept = FALSE
    /\ raises = [k \in Keys |-> {}]
    /\ told = [k \in Keys |-> {}]
    /\ quietFor = [k \in Keys |-> MaxAge]
    /\ lastSent = [k \in Keys |-> [h \in Heads |-> MaxAge]]
    /\ pending = [c \in Coroutines |-> Nothing]
    /\ heard = [k \in Keys |-> "none"]

Next == \/ \E k \in Keys : Raise(k) \/ Clear(k) \/ SweepOn(k)
        \/ Sweep
        \/ \E c \in Coroutines : Deliver(c)
        \/ Tick

\* the loops come round and finish; alarms and administrators owe nothing
Fairness == /\ WF_vars(Sweep) /\ WF_vars(Tick)
            /\ \A c \in Coroutines : WF_vars(Deliver(c))
            /\ \A k \in Keys : WF_vars(SweepOn(k))

Spec     == Init /\ [][Next]_vars
FairSpec == Spec /\ Fairness

-----------------------------------------------------------------------------
(* Properties *)

\* ages stay in range, notices belong to the coroutine that owns the alarm
TypeOK ==
    /\ cfg \in Configs
    /\ up \subseteq Keys /\ muted \subseteq Keys /\ evaluated \subseteq Keys
    /\ ending \subseteq muted /\ swept \in BOOLEAN
    /\ \A k \in Keys : /\ raises[k] \subseteq 0..(MaxAge - 1)
                       /\ told[k] \subseteq 0..(MaxAge - 1)
                       /\ quietFor[k] \in 0..MaxAge
                       /\ \A h \in Heads : lastSent[k][h] \in 0..MaxAge
    /\ \A c \in Coroutines : /\ pending[c].key \in Keys
                             /\ pending[c].notice \in Notices \cup {"none"}
    /\ heard \in [Keys -> Notices \cup {"none"}]

Sending(k) == \E c \in Coroutines : ~Free(c) /\ pending[c].key = k

\* "An oscillating subject is muted after 3 raises": between two mutes at most
\* count - 1 raises of an alarm reach anybody within the flap window.
RaiseBudget == cfg.count > 0 => \A k \in Keys :
    Cardinality({age \in told[k] : age <= cfg.window}) < cfg.count

\* an alarm needs two intervals to be raised or cleared again
ShortestCycle == 2

\* A mute is announced: whoever stops hearing of an alarm was told so last, as
\* long as the cooldown is over before a second mute can follow on the first.
\* The notices of a mute's end and of the next mute share one cooldown; and
\* where one raise is enough to mute, they may be under way together.
MuteAnnounced ==
    cfg.count > 1 /\ cfg.cooldown <= ShortestCycle * (cfg.count - 1) =>
        \A k \in muted : Sending(k) \/ heard[k] = "flapping"

\* Nothing about a muted alarm is sent but the two notices of the mute.
SilentWhileMuted == [][\A k \in muted, c \in Coroutines :
    pending'[c] # pending[c] /\ pending'[c].key = k
        => pending'[c].notice \in {"none", "ended"}]_vars

\* An alarm that stays quiet is not muted for ever.
MuteEnds == \A k \in Keys : []<>(k \notin muted \/ quietFor[k] = 0)

\* Nobody is left with a raise for an alarm that is over, as long as the
\* cooldown is not longer than the alarm's cycle.
Unheard(k) == k \notin up /\ k \notin muted /\ ~Sending(k) /\ heard[k] = "raise"
ClearIsHeard == cfg.cooldown <= ShortestCycle => \A k \in Keys : ~Unheard(k)

\* The end of a mute is told: its "flapping" is not the last word.
EndIsHeard == cfg.cooldown <= cfg.quiet => \A k \in Keys :
    k \notin muted /\ ~Sending(k) => heard[k] # "flapping"
=============================================================================
