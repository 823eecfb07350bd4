------------------------------ MODULE Accounts ------------------------------
(***************************************************************************)
(* The accounts of MoonLan: the tables users, sessions and passkeys of     *)
(* moonlan/db.py, the sign-in of moonlan/signin.py that reads and writes   *)
(* them in several transactions, and the accounts console                  *)
(* (moonlan/users.py), a process of its own on the same database.          *)
(*                                                                         *)
(* A Database method is one transaction and one action here.  A request    *)
(* that needs several of them keeps what it read in flow[b]; between two   *)
(* of its steps anybody else may change the account.  A password, a code   *)
(* or a key is right or it is not sent at all; every way a request may be  *)
(* refused or forgotten is Abandon.                                        *)
(***************************************************************************)
EXTENDS Naturals, FiniteSets

CONSTANTS
    Ids,         \* users.id: never given twice
    Signers,     \* bound: the accounts that sign in, have factors and are disabled
    Browsers,    \* each has one cookie and one request at a time
    Codes,       \* the recovery codes of one set
    KeysMax,     \* PASSKEYS_MAX
    MaxStep,     \* bound: thirty-second steps
    MaxSets      \* bound: sets of recovery codes known at one time

ASSUME AccountsAssumption ==
    /\ "nobody" \notin Ids
    /\ Signers \subseteq Ids /\ Codes # {}
    /\ KeysMax \in Nat \ {0} /\ MaxStep \in Nat \ {0} /\ MaxSets \in Nat

VARIABLES
    acct,      \* users and passkeys, by id
    session,   \* sessions, by the browser whose cookie names it
    flow,      \* the request each browser has in the air
    newest,    \* history: the last step of the bound secret that was accepted
    spent      \* history: codes of the present set that opened a session

vars == <<acct, session, flow, newest, spent>>

NoCodes  == [set |-> 0, left |-> {}]          \* recovery = ''
NewCodes(n) == [set |-> n, left |-> Codes]
Left(codes, c) == IF codes.left = {c} THEN NoCodes
                  ELSE [codes EXCEPT !.left = @ \ {c}]
InUse    == {acct[u].codes.set : u \in Ids}
            \cup {flow[b].codes.set : b \in {c \in Browsers : flow[c].at = "recover"}}
SetsLeft == \E n \in 1..MaxSets : n \notin InUse
Fresh    == CHOOSE n \in 1..MaxSets : n \notin InUse   \* new_recovery_codes
NoAccount == [state |-> "none", admin |-> FALSE, change |-> FALSE,
              totp |-> FALSE, pending |-> FALSE, last |-> 0, codes |-> NoCodes,
              keys |-> 0]
NoSession == [user |-> "nobody"]
Idle      == [at |-> "idle"]

Live(u)      == acct[u].state \in {"on", "off"}
Admin(u)     == acct[u].state = "on" /\ acct[u].admin
HasFactor(a) == a.totp \/ a.keys > 0

\* every session of an account, but the one to keep, is closed
Closed(u, keep) ==
    [b \in Browsers |-> IF session[b].user = u /\ b \notin keep
                        THEN NoSession ELSE session[b]]

-----------------------------------------------------------------------------
(* What the guard makes of a cookie *)

\* a session is refused, has a step to do first, or is let in
Standing(b) ==
    LET s == session[b]
        a == acct[s.user]
    IN IF s.user \notin Ids THEN "out"
       ELSE IF a.state # "on" THEN "out"
       ELSE IF a.change THEN "password"
       ELSE IF ~a.admin \/ s.factor THEN "in"
       ELSE IF HasFactor(a) THEN "out" ELSE "totp"

MayBind(b) == flow[b] = Idle /\ Standing(b) \in {"in", "totp"}

\* the guard drops the session it refuses
Drop(b) ==
    /\ session[b] # NoSession /\ Standing(b) = "out"
    /\ session' = [session EXCEPT ![b] = NoSession]
    /\ UNCHANGED <<acct, flow, newest, spent>>

Logout(b) ==
    /\ session[b] # NoSession /\ flow[b] = Idle
    /\ session' = [session EXCEPT ![b] = NoSession]
    /\ UNCHANGED <<acct, flow, newest, spent>>

\* refused, timed out, the ticket expired, or the service restarted
Abandon(b) ==
    /\ flow[b] # Idle
    /\ flow' = [flow EXCEPT ![b] = Idle]
    /\ UNCHANGED <<acct, session, newest, spent>>

-----------------------------------------------------------------------------
(* Signing in *)

Goes(b, f) == flow' = [flow EXCEPT ![b] = f]
Reads      == UNCHANGED <<acct, session, newest, spent>>

\* the right password of an enabled account; the row is read here
Login(b, u) ==
    /\ flow[b] = Idle /\ acct[u].state = "on"
    /\ Goes(b, [at |-> "password", user |-> u, totp |-> acct[u].totp])
    /\ Reads

\* the keys are another read; then a ticket, or a session at once
LoginKeys(b) ==
    /\ flow[b].at = "password"
    /\ LET f == flow[b]
       IN Goes(b, IF f.totp \/ acct[f.user].keys > 0
                  THEN [at |-> "ticket", user |-> f.user]
                  ELSE [at |-> "open", user |-> f.user, factor |-> FALSE])
    /\ Reads

\* the second step reads the row; the code is of a step of its secret, or one
\* of its recovery codes
Code(b, step) ==
    LET u == flow[b].user
    IN /\ flow[b].at = "ticket"
       /\ acct[u].state = "on" /\ acct[u].totp
       /\ Goes(b, [at |-> "spend", user |-> u, step |-> step])
       /\ Reads

Recovery(b, c) ==
    LET u == flow[b].user
    IN /\ flow[b].at = "ticket"
       /\ acct[u].state = "on" /\ c \in acct[u].codes.left
       /\ Goes(b, [at |-> "recover", user |-> u, codes |-> acct[u].codes, code |-> c])
       /\ Reads

\* a key answers: after the password, or alone for whoever it belongs to
KeyAnswer(b, u) ==
    /\ \/ flow[b] = Idle
       \/ /\ flow[b].at = "ticket" /\ flow[b].user = u
    /\ acct[u].state = "on" /\ acct[u].keys > 0
    /\ Goes(b, [at |-> "open", user |-> u, factor |-> TRUE])
    /\ Reads

\* spend_totp_step: one UPDATE with the comparison in its WHERE
Spend(b) ==
    LET f == flow[b]
    IN /\ f.at = "spend"
       /\ IF Live(f.user) /\ acct[f.user].last < f.step
          THEN /\ acct' = [acct EXCEPT ![f.user].last = f.step]
               /\ newest' = [newest EXCEPT ![f.user] = f.step]
               /\ Goes(b, [at |-> "open", user |-> f.user, factor |-> TRUE])
          ELSE UNCHANGED <<acct, newest>>
               /\ Goes(b, [at |-> "ticket", user |-> f.user])
       /\ UNCHANGED <<session, spent>>

\* (mutant: the hashes are replaced whatever became of them)
RecoverBlind(b) ==
    LET f == flow[b]
    IN /\ f.at = "recover"
       /\ acct' = [acct EXCEPT ![f.user].codes = Left(f.codes, f.code)]
       /\ spent' = [spent EXCEPT ![f.user] = @ \cup {f.code}]
       /\ Goes(b, [at |-> "open", user |-> f.user, factor |-> TRUE])
       /\ UNCHANGED <<session, newest>>

\* use_recovery_code: replaced only if nobody changed them in between
Recover(b) ==
    LET f == flow[b]
    IN /\ f.at = "recover"
       /\ IF Live(f.user) /\ acct[f.user].codes = f.codes
          THEN /\ acct' = [acct EXCEPT ![f.user].codes =
                             Left(f.codes, f.code)]
               /\ spent' = [spent EXCEPT ![f.user] = @ \cup {f.code}]
               /\ Goes(b, [at |-> "open", user |-> f.user, factor |-> TRUE])
          ELSE UNCHANGED <<acct, spent>>
               /\ Goes(b, [at |-> "ticket", user |-> f.user])
       /\ UNCHANGED <<session, newest>>

Open(b) ==
    LET f == flow[b]
    IN /\ f.at = "open"
       /\ session' = [session EXCEPT ![b] =
                        [user |-> f.user, factor |-> f.factor]]
       /\ Goes(b, Idle)
       /\ UNCHANGED <<acct, newest, spent>>

-----------------------------------------------------------------------------
(* Binding a factor of one's own *)

\* totp_setup: a secret to scan, not bound yet
Setup(b) ==
    /\ MayBind(b)
    /\ acct' = [acct EXCEPT ![session[b].user].pending = TRUE]
    /\ UNCHANGED <<session, flow, newest, spent>>

\* totp_confirm: the password and a code of the pending secret are right
Confirm(b, step) ==
    LET u == session[b].user
    IN /\ MayBind(b) /\ acct[u].pending
       /\ Goes(b, [at |-> "bind", user |-> u, step |-> step])
       /\ Reads

\* the row enable_totp writes, with the new recovery codes
Bound(u, step) ==
    acct' = [acct EXCEPT ![u] = [@ EXCEPT !.totp = TRUE, !.pending = FALSE,
                !.last = step, !.codes = NewCodes(Fresh)]]

\* the browser's own session has given the factor now
Vouched(b, sessions) ==
    IF sessions[b] = NoSession THEN sessions
    ELSE [sessions EXCEPT ![b].factor = TRUE]

\* (mutant: the code that confirmed the secret is not spent)
BindUnspent(b) ==
    LET f == flow[b]
    IN /\ f.at = "bind" /\ Live(f.user)
       /\ SetsLeft
       /\ Bound(f.user, 0)
       /\ newest' = [newest EXCEPT ![f.user] = f.step]
       /\ session' = Vouched(b, Closed(f.user, {b}))
       /\ spent' = [spent EXCEPT ![f.user] = {}]
       /\ Goes(b, Idle)

\* enable_totp: the step of the confirming code is the last one spent
Bind(b) ==
    LET f == flow[b]
    IN /\ f.at = "bind" /\ Live(f.user)
       /\ SetsLeft
       /\ Bound(f.user, f.step)
       /\ newest' = [newest EXCEPT ![f.user] = f.step]
       /\ session' = Vouched(b, Closed(f.user, {b}))
       /\ spent' = [spent EXCEPT ![f.user] = {}]
       /\ Goes(b, Idle)

\* passkey_add_finish: the key is checked, the row is read; an account without
\* recovery codes is to get a set
KeyChecked(b) ==
    LET u == session[b].user
    IN /\ MayBind(b)
       /\ Goes(b, [at |-> "key", user |-> u,
                   codes |-> acct[u].codes = NoCodes])
       /\ Reads

\* the account's new key and, if it still has none, its recovery codes
WithKey(u, shown) ==
    [acct[u] EXCEPT !.keys = @ + 1,
        !.codes = IF shown /\ @ = NoCodes THEN NewCodes(Fresh) ELSE @]

\* (mutant: the ceiling was checked when the challenge was made)
AddKeyUnchecked(b) ==
    LET f == flow[b]
        first == ~HasFactor(acct[f.user])
    IN /\ f.at = "key" /\ Live(f.user)
       /\ SetsLeft
       /\ acct' = [acct EXCEPT ![f.user] = WithKey(f.user, f.codes)]
       /\ session' = Vouched(b, IF first THEN Closed(f.user, {b}) ELSE session)
       /\ spent' = [spent EXCEPT ![f.user] =
                      IF f.codes /\ acct[f.user].codes = NoCodes THEN {} ELSE @]
       /\ Goes(b, Idle) /\ UNCHANGED newest

\* add_passkey; the other sessions are closed when it is the first factor
AddKey(b) ==
    LET f == flow[b]
        first == ~HasFactor(acct[f.user])
    IN /\ f.at = "key" /\ Live(f.user) /\ acct[f.user].keys < KeysMax
       /\ SetsLeft
       /\ acct' = [acct EXCEPT ![f.user] = WithKey(f.user, f.codes)]
       /\ session' = Vouched(b, IF first THEN Closed(f.user, {b}) ELSE session)
       /\ spent' = [spent EXCEPT ![f.user] =
                      IF f.codes /\ acct[f.user].codes = NoCodes THEN {} ELSE @]
       /\ Goes(b, Idle) /\ UNCHANGED newest

\* change_password: the current password is right; then the new one is set
NewPassword(b) ==
    /\ flow[b] = Idle /\ Standing(b) \in {"in", "password"}
    /\ Goes(b, [at |-> "change", user |-> session[b].user])
    /\ Reads

ChangePassword(b) ==
    LET u == flow[b].user
    IN /\ flow[b].at = "change" /\ Live(u)
       /\ acct' = [acct EXCEPT ![u].change = FALSE]
       /\ session' = Closed(u, {b})
       /\ Goes(b, Idle) /\ UNCHANGED <<newest, spent>>

-----------------------------------------------------------------------------
(* Account changes, from the page or from the console *)

Changes(u, keep) ==
    /\ session' = Closed(u, keep)
    /\ UNCHANGED flow

\* (mutant of KeepAnAdmin: a disabled administrator counts)
KeepAnyAdmin(u) ==
    Admin(u) => \E v \in Ids \ {u} : Live(v) /\ acct[v].admin

\* _keep_an_admin: another enabled administrator is left
KeepAnAdmin(u) == Admin(u) => \E v \in Ids \ {u} : Admin(v)

\* add_user and the changes of the page and the console
AddUser(u, admin, temporary) ==
    /\ acct[u].state = "none"
    /\ acct' = [acct EXCEPT ![u] = [NoAccount EXCEPT !.state = "on",
                  !.admin = admin, !.change = temporary]]
    /\ newest' = [newest EXCEPT ![u] = 0]
    /\ UNCHANGED <<session, flow, spent>>

SetPassword(u, temporary) ==
    /\ Live(u)
    /\ acct' = [acct EXCEPT ![u].change = temporary]
    /\ Changes(u, {}) /\ UNCHANGED <<newest, spent>>

SetRole(u, admin) ==
    /\ Live(u) /\ (~admin => KeepAnAdmin(u))
    /\ acct' = [acct EXCEPT ![u].admin = admin]
    /\ Changes(u, {}) /\ UNCHANGED <<newest, spent>>

\* (mutant: only disabling closes the sessions)
SetDisabledClosing(u, disabled) ==
    /\ Live(u) /\ (disabled => KeepAnAdmin(u))
    /\ acct' = [acct EXCEPT ![u].state = IF disabled THEN "off" ELSE "on"]
    /\ session' = IF disabled THEN Closed(u, {}) ELSE session
    /\ UNCHANGED <<flow, spent, newest>>

SetDisabled(u, disabled) ==
    /\ Live(u) /\ (disabled => KeepAnAdmin(u))
    /\ acct' = [acct EXCEPT ![u].state = IF disabled THEN "off" ELSE "on"]
    /\ Changes(u, {}) /\ UNCHANGED <<newest, spent>>

DeleteUser(u) ==
    /\ Live(u) /\ KeepAnAdmin(u)
    /\ acct' = [acct EXCEPT ![u] = [NoAccount EXCEPT !.state = "gone"]]
    /\ newest' = [newest EXCEPT ![u] = 0]
    /\ spent' = [spent EXCEPT ![u] = {}]
    /\ Changes(u, {})

ResetTotp(u) ==
    /\ Live(u)
    /\ acct' = [acct EXCEPT ![u] = [@ EXCEPT !.totp = FALSE, !.pending = FALSE,
                  !.last = 0, !.codes = NoCodes]]
    /\ newest' = [newest EXCEPT ![u] = 0]
    /\ spent' = [spent EXCEPT ![u] = {}]
    /\ Changes(u, {})

\* the console binds a secret; no code of it is spent
ConsoleTotp(u) ==
    /\ Live(u) /\ SetsLeft
    /\ Bound(u, 0)
    /\ newest' = [newest EXCEPT ![u] = 0]
    /\ spent' = [spent EXCEPT ![u] = {}]
    /\ session' = Closed(u, {})
    /\ UNCHANGED flow

\* (mutant of KeepAFactor: the recovery codes count as a factor)
KeepCodes(u) ==
    acct[u].admin /\ ~acct[u].totp
        => acct[u].keys > 1 \/ acct[u].codes # NoCodes

\* _keep_a_factor: an administrator without TOTP keeps at least one key
KeepAFactor(u) == acct[u].admin /\ ~acct[u].totp => acct[u].keys > 1

\* one's own key, keeping the session, or anybody's as an administrator
RemoveKey(u, keep) ==
    /\ Live(u) /\ acct[u].keys > 0 /\ KeepAFactor(u)
    /\ \A b \in keep : /\ session[b].user = u /\ flow[b] = Idle
                       /\ Standing(b) = "in"
    /\ acct' = [acct EXCEPT ![u].keys = @ - 1]
    /\ Changes(u, keep) /\ UNCHANGED <<newest, spent>>

ResetKeys(u) ==
    /\ Live(u)
    /\ acct' = [acct EXCEPT ![u].keys = 0]
    /\ Changes(u, {}) /\ UNCHANGED <<newest, spent>>

CloseSessions(u) ==
    /\ Live(u)
    /\ Changes(u, {}) /\ UNCHANGED <<acct, newest, spent>>

-----------------------------------------------------------------------------
Init ==
    /\ acct = [u \in Ids |-> NoAccount]
    /\ session = [b \in Browsers |-> NoSession]
    /\ flow = [b \in Browsers |-> Idle]
    /\ newest = [u \in Ids |-> 0]
    /\ spent = [u \in Ids |-> {}]

Browser(b) ==
    \/ Drop(b) \/ Logout(b) \/ Abandon(b)
    \/ \E u \in Signers : Login(b, u) \/ KeyAnswer(b, u)
    \/ LoginKeys(b) \/ Spend(b) \/ Recover(b) \/ Open(b)
    \/ \E s \in 1..MaxStep : Code(b, s) \/ Confirm(b, s)
    \/ \E c \in Codes : Recovery(b, c)
    \/ Setup(b) \/ Bind(b) \/ KeyChecked(b) \/ AddKey(b)
    \/ NewPassword(b) \/ ChangePassword(b)

Own(u) ==
    \/ \E x \in BOOLEAN : SetPassword(u, x) \/ SetDisabled(u, x)
    \/ \E keep \in {{}} \cup {{b} : b \in Browsers} : RemoveKey(u, keep)
    \/ ResetTotp(u) \/ ConsoleTotp(u) \/ ResetKeys(u) \/ CloseSessions(u)

Rights(u) ==
    \/ \E x, y \in BOOLEAN : (y => u \in Signers) /\ AddUser(u, x, y)
    \/ \E x \in BOOLEAN : SetRole(u, x)
    \/ DeleteUser(u)

Next ==
    \/ \E b \in Browsers : Browser(b)
    \/ \E u \in Signers : Own(u)
    \/ \E u \in Ids : Rights(u)

Spec == Init /\ [][Next]_vars
-----------------------------------------------------------------------------
(* Properties *)

CodeSets == {NoCodes} \cup {[set |-> n, left |-> s] :
                n \in 1..MaxSets, s \in (SUBSET Codes) \ {{}}}
Accounts == [state : {"none", "on", "off", "gone"}, admin : BOOLEAN,
             change : BOOLEAN, totp : BOOLEAN, pending : BOOLEAN,
             last : 0..MaxStep, codes : CodeSets, keys : 0..KeysMax]
Flows == {Idle}
    \cup [at : {"password"}, user : Ids, totp : BOOLEAN]
    \cup [at : {"ticket", "change"}, user : Ids]
    \cup [at : {"open"}, user : Ids, factor : BOOLEAN]
    \cup [at : {"spend"}, user : Ids, step : 1..MaxStep]
    \cup [at : {"recover"}, user : Ids, codes : CodeSets, code : Codes]
    \cup [at : {"bind"}, user : Ids, step : 1..MaxStep]
    \cup [at : {"key"}, user : Ids, codes : BOOLEAN]

\* the shape of the tables and of the requests; an account never has more
\* than KeysMax keys, however many requests add one at a time
TypeOK ==
    /\ acct \in [Ids -> Accounts]
    /\ session \in [Browsers -> {NoSession} \cup
                                 [user : Ids, factor : BOOLEAN]]
    /\ flow \in [Browsers -> Flows]
    /\ newest \in [Ids -> 0..MaxStep]
    /\ spent \in [Ids -> SUBSET Codes]

\* Once an enabled administrator exists there is one for good: sign-in never
\* switches itself off, whatever the page and the console do at once.
KeepsAnAdmin ==
    [][(\E u \in Ids : Admin(u)) => (\E u \in Ids : Admin(u)')]_vars

\* An administrator's last second factor is taken away only by the two resets.
KeepsAFactor ==
    [][\A u \in Ids : Admin(u) /\ HasFactor(acct[u]) /\ Admin(u)'
          => HasFactor(acct'[u]) \/ ResetTotp(u) \/ ResetKeys(u)]_vars

\* A thirty-second step is accepted once, and never after a later one, for as
\* long as the account's secret is not bound anew: neither for two requests
\* that read the account at the same time nor for the code that bound it.
StepOnce ==
    [][\A b \in Browsers : flow[b].at = "spend" /\ flow'[b].at = "open"
          => newest[flow[b].user] < flow[b].step]_vars

\* A recovery code opens one session, ever.
RecoveryOnce ==
    [][\A b \in Browsers : flow[b].at = "recover" /\ flow'[b].at = "open"
          => flow[b].code \notin spent[flow[b].user]]_vars

\* A session that was refused or had a step to do first becomes a full one
\* only by what its own browser did: never because a factor was bound or lost,
\* a role changed or the account enabled somewhere else meanwhile.
NobodyElseLetsIn ==
    [][\A b \in Browsers :
          /\ session[b] # NoSession /\ Standing(b) # "in"
          /\ session'[b] # NoSession /\ Standing(b)' = "in"
          => Open(b) \/ Bind(b) \/ AddKey(b) \/ ChangePassword(b)]_vars

\* Every session is earned by what its own browser proved: a recovery code
\* counts once, and nobody else's change lets a waiting session in.
SessionsAreEarned == RecoveryOnce /\ NobodyElseLetsIn
=============================================================================
