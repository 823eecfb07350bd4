------------------------------ MODULE Settings ------------------------------
(***************************************************************************)
(* The settings of moonlan/settings.py: rows of the database over the      *)
(* defaults, the values an older config.yaml still has, and the live       *)
(* config.  Saves and resets run in threads of their own, one beside the   *)
(* other; what they do to the database is one transaction each, and the    *)
(* live config is changed afterwards.  The service may stop between any    *)
(* two steps.                                                              *)
(*                                                                         *)
(* A value is a sequence: a plain setting has one entry, the table of      *)
(* channels one per alarm type.  A change of the table names some types    *)
(* and keeps the rest of the live table.                                   *)
(***************************************************************************)
EXTENDS Naturals, Sequences, FiniteSets

CONSTANTS
    SettingKeys,   \* SETTINGS
    Width(_),      \* the entries of a setting's value: more than one, a table
    Editors,       \* requests that can be under way at once
    InFile(_)      \* the values config.yaml may still have for a setting

Valid == {0, 1}                   \* in the setting's range
Bad   == 2                        \* out of it, or unknown to this version
None  == <<>>                     \* no row, or not in the file

\* what is assumed of the constants
SettingsAssumption ==
    /\ IsFiniteSet(SettingKeys)
    /\ \A k \in SettingKeys : Width(k) \in Nat \ {0}

VARIABLES
    file,        \* config.yaml's value of each setting, or None
    stored,      \* the settings table
    live,        \* the live config
    change,      \* the change each editor's thread is in
    sure,        \* history: the last change of the setting ran by itself
    lastReset    \* history: the last change of the setting was a reset

settingsVars == <<file, stored, live, change, sure, lastReset>>

Default(k) == [i \in 1..Width(k) |-> 0]
IsTable(k) == Width(k) > 1
Checked(v) == \A i \in DOMAIN v : v[i] \in Valid

Idle == [step |-> "idle", good |-> <<>>]
InFlight(k) == {e \in Editors : /\ change[e].step # "idle"
                                /\ k \in DOMAIN change[e].good}

----------------------------------------------------------------------------
(* load, at every start *)

\* what the file's value becomes: one bad entry of a table keeps its default
FromFile(k) == [i \in 1..Width(k) |->
                   IF file[k][i] \in Valid THEN file[k][i] ELSE Default(k)[i]]
Moves(k) == stored[k] = None /\ file[k] # None /\ (IsTable(k) \/ Checked(file[k]))

Loaded(k) == IF stored[k] # None
             THEN IF Checked(stored[k]) THEN stored[k] ELSE Default(k)
             ELSE IF Moves(k) THEN FromFile(k) ELSE Default(k)

Load ==
    /\ live' = [k \in SettingKeys |-> Loaded(k)]
    /\ stored' = [k \in SettingKeys |-> IF Moves(k) THEN FromFile(k) ELSE stored[k]]
    /\ change' = [e \in Editors |-> Idle]
    /\ sure' = [k \in SettingKeys |-> TRUE]

Init ==
    /\ file \in {f \in [SettingKeys -> UNION {InFile(k) : k \in SettingKeys}] :
                    \A k \in SettingKeys : f[k] \in InFile(k)}
    /\ \E k \in SettingKeys : \E v \in {None, [i \in 1..Width(k) |-> Bad]} :
          stored = [[j \in SettingKeys |-> None] EXCEPT ![k] = v]
    /\ live = [k \in SettingKeys |-> Loaded(k)]
    /\ change = [e \in Editors |-> Idle]
    /\ sure = [k \in SettingKeys |-> stored[k] # None \/ ~Moves(k)]
    /\ lastReset = [k \in SettingKeys |-> FALSE]

\* a stop at any moment and the start after it
Restart == Load /\ UNCHANGED <<file, lastReset>>

----------------------------------------------------------------------------
(* save and reset *)

\* the keys of a request and their values; of the table, one alarm type
Requests == UNION {[ks -> [at : {1, 2}, to : Valid \cup {Bad}]] :
                      ks \in SUBSET SettingKeys \ {{}}}

\* check: a table is completed from the live one
Normal(k, r) == [live[k] EXCEPT ![IF IsTable(k) THEN r.at ELSE 1] = r.to]

\* validate: one bad value refuses the whole save; a value that is the live
\* one already is neither written nor said
SaveChecked(e) ==
    /\ change[e] = Idle
    /\ \E r \in Requests :
          /\ \A k \in DOMAIN r : r[k].to \in Valid
          /\ \E ks \in {{k \in DOMAIN r : Normal(k, r[k]) # live[k]}} :
                /\ ks # {}
                /\ change' = [change EXCEPT ![e] =
                      [step |-> "save", good |-> [k \in ks |-> Normal(k, r[k])]]]
                /\ sure' = [k \in SettingKeys |->
                      IF k \in ks /\ InFlight(k) # {} THEN FALSE ELSE sure[k]]
    /\ UNCHANGED <<file, stored, live, lastReset>>

\* a change is its own only if no other of the setting runs beside it
Settled(e, ks) ==
    sure' = [k \in SettingKeys |->
                IF k \in ks THEN InFlight(k) = {e} ELSE sure[k]]

SaveStored(e) ==
    /\ change[e].step = "save"
    /\ stored' = [k \in SettingKeys |->
          IF k \in DOMAIN change[e].good THEN change[e].good[k] ELSE stored[k]]
    /\ change' = [change EXCEPT ![e].step = "apply"]
    /\ lastReset' = [k \in SettingKeys |->
          lastReset[k] /\ k \notin DOMAIN change[e].good]
    /\ Settled(e, DOMAIN change[e].good)
    /\ UNCHANGED <<file, live>>

\* mutant: the row stays
ResetLive(e, k) ==
    /\ change[e] = Idle
    /\ stored' = stored
    /\ change' = [change EXCEPT ![e] =
          [step |-> "apply", good |-> [j \in {k} |-> Default(k)]]]
    /\ lastReset' = [lastReset EXCEPT ![k] = TRUE]
    /\ sure' = [sure EXCEPT ![k] = InFlight(k) = {}]
    /\ UNCHANGED <<file, live>>

\* the row goes, then the default applies
Reset(e, k) ==
    /\ change[e] = Idle
    /\ stored' = [stored EXCEPT ![k] = None]
    /\ change' = [change EXCEPT ![e] =
          [step |-> "apply", good |-> [j \in {k} |-> Default(k)]]]
    /\ lastReset' = [lastReset EXCEPT ![k] = TRUE]
    /\ sure' = [sure EXCEPT ![k] = InFlight(k) = {}]
    /\ UNCHANGED <<file, live>>

\* the live config is changed; the journal is told
Applied(e) ==
    /\ change[e].step = "apply"
    /\ live' = [k \in SettingKeys |->
          IF k \in DOMAIN change[e].good THEN change[e].good[k] ELSE live[k]]
    /\ change' = [change EXCEPT ![e] = Idle]
    /\ UNCHANGED <<file, stored, sure, lastReset>>

Next == \/ Restart
        \/ \E e \in Editors : \/ SaveChecked(e) \/ SaveStored(e) \/ Applied(e)
                              \/ \E k \in SettingKeys : Reset(e, k)

Spec == Init /\ [][Next]_settingsVars

----------------------------------------------------------------------------
(* Properties *)

\* What is live is what the next start will load, once the changes of the
\* setting are over, unless two of them ran side by side; and but for a
\* setting that was reset while config.yaml still has it.
LiveIsKept ==
    \A k \in SettingKeys :
        /\ sure[k] /\ InFlight(k) = {}
        /\ ~(lastReset[k] /\ Moves(k))
        => live[k] = Loaded(k)

\* settings.py:580: "Back to the default: the row goes, the default applies" -
\* until somebody changes the setting.
ResetStays ==
    \A k \in SettingKeys :
        lastReset[k] /\ sure[k] /\ InFlight(k) = {} => live[k] = Default(k)
=============================================================================
