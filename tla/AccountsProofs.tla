--------------------------- MODULE AccountsProofs ---------------------------
(***************************************************************************)
(* The safety of the account tables for any number of accounts, browsers,  *)
(* keys, steps and recovery codes.                                         *)
(***************************************************************************)
EXTENDS Accounts, TLAPS

\* What a request in the air carries, by where it stands.
LEMMA FlowShape ==
    ASSUME NEW f \in Flows
    PROVE  /\ f.at # "idle" => f.user \in Ids
           /\ f.at = "open" => f.factor \in BOOLEAN
           /\ f.at \in {"spend", "bind"} => f.step \in 1..MaxStep
           /\ f.at = "recover" => f.codes \in CodeSets /\ f.code \in Codes
           /\ f.at = "key" => f.codes \in BOOLEAN
  BY DEF Flows, Idle

\* Recovery codes stay a set of codes when one is used or a set is made.
LEMMA CodesShape ==
    /\ NoCodes \in CodeSets
    /\ SetsLeft => NewCodes(Fresh) \in CodeSets
    /\ \A s \in CodeSets, c \in Codes : Left(s, c) \in CodeSets
<1>1. NoCodes \in CodeSets
  BY DEF CodeSets
<1>2. ASSUME SetsLeft PROVE NewCodes(Fresh) \in CodeSets
  <2>1. Fresh \in 1..MaxSets
    BY <1>2 DEF SetsLeft, Fresh
  <2> QED
    BY <2>1, AccountsAssumption DEF NewCodes, CodeSets
<1>3. ASSUME NEW s \in CodeSets, NEW c \in Codes PROVE Left(s, c) \in CodeSets
  <2>1. CASE s = NoCodes
    <3>1. Left(s, c) = NoCodes
      BY <2>1 DEF Left, NoCodes
    <3> QED
      BY <1>1, <3>1
  <2>2. CASE s # NoCodes
    <3>1. PICK n \in 1..MaxSets, l \in (SUBSET Codes) \ {{}} : s = [set |-> n, left |-> l]
      BY <2>2 DEF CodeSets
    <3>2. CASE l = {c}
      BY <1>1, <3>1, <3>2 DEF Left
    <3>3. CASE l # {c}
      <4>1. l \ {c} \in (SUBSET Codes) \ {{}}
        BY <3>3
      <4>2. Left(s, c) = [set |-> n, left |-> l \ {c}]
        BY <3>1, <3>3 DEF Left
      <4> QED
        BY <4>1, <4>2 DEF CodeSets
    <3> QED
      BY <3>2, <3>3
  <2> QED
    BY <2>1, <2>2
<1> QED
  BY <1>1, <1>2, <1>3

Sessions == {NoSession} \cup [user : Ids, factor : BOOLEAN]

\* Closing and vouching leave sessions behind.
LEMMA SessionShape ==
    ASSUME NEW s \in [Browsers -> Sessions], NEW b \in Browsers,
           session \in [Browsers -> Sessions], NEW u, NEW keep
    PROVE  /\ Closed(u, keep) \in [Browsers -> Sessions]
           /\ Vouched(b, s) \in [Browsers -> Sessions]
<1>1. Closed(u, keep) \in [Browsers -> Sessions]
  BY DEF Closed, Sessions
<1>2. CASE s[b] = NoSession
  BY <1>1, <1>2 DEF Vouched
<1>3. CASE s[b] # NoSession
  <2>1. s[b] \in [user : Ids, factor : BOOLEAN]
    BY <1>3 DEF Sessions
  <2>2. [s[b] EXCEPT !.factor = TRUE] \in Sessions
    BY <2>1 DEF Sessions
  <2> QED
    BY <1>1, <1>3, <2>2 DEF Vouched
<1> QED
  BY <1>2, <1>3

\* Where a request may go next is a request again.
LEMMA FlowMade ==
    ASSUME NEW u \in Ids
    PROVE  /\ Idle \in Flows
           /\ \A x \in BOOLEAN :
                 /\ [at |-> "password", user |-> u, totp |-> x] \in Flows
                 /\ [at |-> "open", user |-> u, factor |-> x] \in Flows
                 /\ [at |-> "key", user |-> u, codes |-> x] \in Flows
           /\ [at |-> "ticket", user |-> u] \in Flows
           /\ [at |-> "change", user |-> u] \in Flows
           /\ \A s \in 1..MaxStep :
                 /\ [at |-> "spend", user |-> u, step |-> s] \in Flows
                 /\ [at |-> "bind", user |-> u, step |-> s] \in Flows
           /\ \A d \in CodeSets, c \in Codes :
                 [at |-> "recover", user |-> u, codes |-> d, code |-> c] \in Flows
  BY DEF Flows

\* What the page and the console change in a row leaves a row.
LEMMA FlagShape ==
    ASSUME NEW a \in Accounts, NEW x \in BOOLEAN
    PROVE  /\ [a EXCEPT !.change = x] \in Accounts
           /\ [a EXCEPT !.change = x].last = a.last
           /\ [a EXCEPT !.admin = x] \in Accounts
           /\ [a EXCEPT !.admin = x].last = a.last
           /\ \A s \in {"on", "off"} : /\ [a EXCEPT !.state = s] \in Accounts
                                       /\ [a EXCEPT !.state = s].last = a.last
  BY DEF Accounts

LEMMA KeyShape ==
    ASSUME NEW a \in Accounts
    PROVE  /\ a.keys > 0 => [a EXCEPT !.keys = a.keys - 1] \in Accounts
           /\ [a EXCEPT !.keys = a.keys - 1].last = a.last
           /\ [a EXCEPT !.keys = 0] \in Accounts
           /\ [a EXCEPT !.keys = 0].last = a.last
  BY AccountsAssumption DEF Accounts

LEMMA NewShape ==
    /\ \A x, y \in BOOLEAN : [NoAccount EXCEPT !.state = "on", !.admin = x,
                                               !.change = y] \in Accounts
    /\ [NoAccount EXCEPT !.state = "gone"] \in Accounts
    /\ NoAccount \in Accounts
<1>1. NoAccount \in Accounts
  BY AccountsAssumption, CodesShape DEF Accounts, NoAccount
<1>2. ASSUME NEW x \in BOOLEAN, NEW y \in BOOLEAN
      PROVE  [NoAccount EXCEPT !.state = "on", !.admin = x, !.change = y]
                \in Accounts
  BY <1>1 DEF Accounts
<1>3. [NoAccount EXCEPT !.state = "gone"] \in Accounts
  BY <1>1 DEF Accounts
<1> QED
  BY <1>1, <1>2, <1>3

\* The last step an account has accepted is the one its row says.
Newest == \A u \in Ids : newest[u] = acct[u].last

\* One row changed, and the history with it, keeps the accounts and Newest.
LEMMA OneRow ==
    ASSUME acct \in [Ids -> Accounts], newest \in [Ids -> 0..MaxStep], Newest,
           NEW u \in Ids, NEW r \in Accounts,
           acct' = [acct EXCEPT ![u] = r],
           \/ newest' = newest /\ r.last = acct[u].last
           \/ newest' = [newest EXCEPT ![u] = r.last]
    PROVE  acct' \in [Ids -> Accounts] /\ newest' \in [Ids -> 0..MaxStep]
           /\ Newest'
<1>1. r.last \in 0..MaxStep
  BY DEF Accounts
<1> QED
  BY <1>1 DEF Newest

\* The inductive invariant: the tables, and what their history is.
IInv == TypeOK /\ Newest

\* A step that enables, disables, promotes and demotes nobody.
SameRights ==
    \A v \in Ids : /\ acct'[v].state = acct[v].state
                   /\ acct'[v].admin = acct[v].admin

\* A request that only reads keeps it.
LEMMA ReadKeeps ==
    ASSUME IInv, Reads, NEW b, NEW f \in Flows, Goes(b, f)
    PROVE  IInv' /\ SameRights
<1>1. IInv'
  BY DEF IInv, TypeOK, Newest, Reads, Goes
<1> QED
  BY <1>1 DEF SameRights, Reads

\* A transaction that writes one row keeps it.
LEMMA WriteKeeps ==
    ASSUME IInv, NEW u \in Ids, NEW r \in Accounts,
           acct' = [acct EXCEPT ![u] = r],
           \/ newest' = newest /\ r.last = acct[u].last
           \/ newest' = [newest EXCEPT ![u] = r.last],
           session' \in [Browsers -> Sessions], flow' \in [Browsers -> Flows],
           spent' \in [Ids -> SUBSET Codes]
    PROVE  /\ IInv'
           /\ r.state = acct[u].state /\ r.admin = acct[u].admin => SameRights
<1>1. acct' \in [Ids -> Accounts] /\ newest' \in [Ids -> 0..MaxStep] /\ Newest'
  BY OneRow DEF IInv, TypeOK
<1>2. IInv'
  BY <1>1 DEF IInv, TypeOK, Sessions
<1>3. acct \in [Ids -> Accounts]
  BY DEF IInv, TypeOK
<1> QED
  BY <1>2, <1>3 DEF SameRights

\* What the invariant says of one row, one request and one browser.
LEMMA Parts ==
    ASSUME IInv
    PROVE  /\ \A u \in Ids : acct[u] \in Accounts /\ newest[u] = acct[u].last
           /\ flow \in [Browsers -> Flows]
           /\ session \in [Browsers -> Sessions]
           /\ spent \in [Ids -> SUBSET Codes]
           /\ \A b \in Browsers : flow[b] \in Flows
  BY DEF IInv, TypeOK, Newest, Sessions

\* Whoever may act in a session has an account.
LEMMA Somebody ==
    ASSUME NEW b, Standing(b) # "out" PROVE session[b].user \in Ids
  BY DEF Standing

LEMMA SpendKeeps ==
    ASSUME IInv, NEW b \in Browsers, Spend(b) PROVE IInv' /\ SameRights
<1> DEFINE u == flow[b].user
           s == flow[b].step
<1>1. u \in Ids /\ s \in 1..MaxStep
  BY Parts, FlowShape DEF Spend
<1>2. CASE Live(u) /\ acct[u].last < s
  <2>1. acct[u] \in Accounts /\ s \in 0..MaxStep
    BY <1>1, Parts, AccountsAssumption
  <2>2. [acct[u] EXCEPT !.last = s] \in Accounts
    BY <2>1 DEF Accounts
  <2>3. /\ [acct[u] EXCEPT !.last = s].last = s
       /\ [acct[u] EXCEPT !.last = s].state = acct[u].state
       /\ [acct[u] EXCEPT !.last = s].admin = acct[u].admin
    BY <2>1 DEF Accounts
  <2>4. acct' = [acct EXCEPT ![u] = [acct[u] EXCEPT !.last = s]]
    BY <1>2 DEF Spend
  <2>5. newest' = [newest EXCEPT ![u] = s]
    BY <1>2 DEF Spend
  <2>6. flow' \in [Browsers -> Flows]
    BY <1>1, <1>2, FlowMade, Parts DEF Spend, Goes
  <2>7. session' \in [Browsers -> Sessions] /\ spent' \in [Ids -> SUBSET Codes]
    BY Parts DEF Spend
  <2> HIDE DEF u, s
  <2> QED
    BY <1>1, <2>2, <2>3, <2>4, <2>5, <2>6, <2>7, WriteKeeps
<1>3. CASE ~(Live(u) /\ acct[u].last < s)
  <2>1. Reads /\ Goes(b, [at |-> "ticket", user |-> u])
    BY <1>3 DEF Spend, Reads
  <2> QED
    BY <1>1, <2>1, FlowMade, ReadKeeps
<1> QED
  BY <1>2, <1>3

LEMMA RecoverKeeps ==
    ASSUME IInv, NEW b \in Browsers, Recover(b) PROVE IInv' /\ SameRights
<1> DEFINE u == flow[b].user
           d == Left(flow[b].codes, flow[b].code)
<1>1. u \in Ids /\ flow[b].codes \in CodeSets /\ flow[b].code \in Codes
  BY Parts, FlowShape DEF Recover
<1>2. CASE Live(u) /\ acct[u].codes = flow[b].codes
  <2>1. acct[u] \in Accounts /\ d \in CodeSets
    BY <1>1, Parts, CodesShape
  <2>2. [acct[u] EXCEPT !.codes = d] \in Accounts
    BY <2>1 DEF Accounts
  <2>3. /\ [acct[u] EXCEPT !.codes = d].last = acct[u].last
       /\ [acct[u] EXCEPT !.codes = d].state = acct[u].state
       /\ [acct[u] EXCEPT !.codes = d].admin = acct[u].admin
    BY <2>1 DEF Accounts
  <2>4. acct' = [acct EXCEPT ![u] = [acct[u] EXCEPT !.codes = d]]
    BY <1>2 DEF Recover
  <2>5. flow' \in [Browsers -> Flows]
    BY <1>1, <1>2, FlowMade, Parts DEF Recover, Goes
  <2>6. /\ session' \in [Browsers -> Sessions] /\ newest' = newest
        /\ spent' \in [Ids -> SUBSET Codes]
    BY <1>1, <1>2, Parts DEF Recover
  <2> HIDE DEF u, d
  <2> QED
    BY <1>1, <2>2, <2>3, <2>4, <2>5, <2>6, WriteKeeps
<1>3. CASE ~(Live(u) /\ acct[u].codes = flow[b].codes)
  <2>1. Reads /\ Goes(b, [at |-> "ticket", user |-> u])
    BY <1>3 DEF Recover, Reads
  <2> QED
    BY <1>1, <2>1, FlowMade, ReadKeeps
<1> QED
  BY <1>2, <1>3

LEMMA SetupKeeps ==
    ASSUME IInv, NEW b \in Browsers, Setup(b) PROVE IInv' /\ SameRights
<1> DEFINE u == session[b].user
<1>1. u \in Ids
  BY Somebody DEF Setup, MayBind
<1>2. acct[u] \in Accounts
  BY <1>1, Parts
<1>3. [acct[u] EXCEPT !.pending = TRUE] \in Accounts
  BY <1>2 DEF Accounts
<1>4. /\ [acct[u] EXCEPT !.pending = TRUE].last = acct[u].last
      /\ [acct[u] EXCEPT !.pending = TRUE].state = acct[u].state
      /\ [acct[u] EXCEPT !.pending = TRUE].admin = acct[u].admin
  BY <1>2 DEF Accounts
<1>5. acct' = [acct EXCEPT ![u] = [acct[u] EXCEPT !.pending = TRUE]]
      /\ UNCHANGED <<session, flow, newest, spent>>
  BY DEF Setup
<1> HIDE DEF u
<1> QED
  BY <1>1, <1>3, <1>4, <1>5, Parts, WriteKeeps

\* A row bound anew is a row.
LEMMA BoundRow ==
    ASSUME IInv, NEW u \in Ids, NEW s \in 0..MaxStep, SetsLeft, Bound(u, s)
    PROVE  \E r \in Accounts : /\ r.last = s /\ acct' = [acct EXCEPT ![u] = r]
                               /\ r.state = acct[u].state
                               /\ r.admin = acct[u].admin
<1> DEFINE d == NewCodes(Fresh)
           r == [acct[u] EXCEPT !.totp = TRUE, !.pending = FALSE, !.last = s,
                                !.codes = d]
<1>1. acct[u] \in Accounts /\ d \in CodeSets
  BY Parts, CodesShape
<1>2. /\ r \in Accounts /\ r.last = s
      /\ r.state = acct[u].state /\ r.admin = acct[u].admin
  <2> HIDE DEF d
  <2> QED
    BY <1>1 DEF Accounts
<1>3. acct' = [acct EXCEPT ![u] = r]
  BY DEF Bound
<1> QED
  BY <1>2, <1>3

LEMMA BindKeeps ==
    ASSUME IInv, NEW b \in Browsers, Bind(b) PROVE IInv' /\ SameRights
<1> DEFINE u == flow[b].user
           s == flow[b].step
<1>1. u \in Ids /\ s \in 0..MaxStep
  BY Parts, FlowShape, AccountsAssumption DEF Bind
<1>2. PICK r \in Accounts :
         /\ r.last = s /\ acct' = [acct EXCEPT ![u] = r]
         /\ r.state = acct[u].state /\ r.admin = acct[u].admin
  BY <1>1, BoundRow DEF Bind
<1>3. newest' = [newest EXCEPT ![u] = s]
  BY DEF Bind
<1>4. session' \in [Browsers -> Sessions]
  BY Parts, SessionShape DEF Bind
<1>5. flow' \in [Browsers -> Flows] /\ spent' \in [Ids -> SUBSET Codes]
  BY <1>1, Parts, FlowMade DEF Bind, Goes
<1> HIDE DEF u, s
<1> QED
  BY <1>1, <1>2, <1>3, <1>4, <1>5, WriteKeeps

LEMMA AddKeyKeeps ==
    ASSUME IInv, NEW b \in Browsers, AddKey(b) PROVE IInv' /\ SameRights
<1> DEFINE u == flow[b].user
           r == WithKey(u, flow[b].codes)
<1>1. u \in Ids
  BY Parts, FlowShape DEF AddKey
<1>2. /\ r \in Accounts /\ r.last = acct[u].last
      /\ r.state = acct[u].state /\ r.admin = acct[u].admin
  <2> DEFINE k == acct[u].keys + 1
             d == IF flow[b].codes /\ acct[u].codes = NoCodes
                  THEN NewCodes(Fresh) ELSE acct[u].codes
  <2>1. acct[u] \in Accounts
    BY <1>1, Parts
  <2>2. d \in CodeSets
    BY <2>1, CodesShape DEF AddKey, Accounts
  <2>3. k \in 0..KeysMax
    BY <2>1, AccountsAssumption DEF AddKey, Accounts
  <2>4. r = [acct[u] EXCEPT !.keys = k, !.codes = d]
    BY DEF WithKey
  <2> HIDE DEF k, d
  <2> QED
    BY <2>1, <2>2, <2>3, <2>4 DEF Accounts
<1>3. acct' = [acct EXCEPT ![u] = r]
  BY DEF AddKey
<1>4. session' \in [Browsers -> Sessions]
  BY Parts, SessionShape DEF AddKey
<1>5. flow' \in [Browsers -> Flows] /\ newest' = newest
      /\ spent' \in [Ids -> SUBSET Codes]
  BY <1>1, Parts, FlowMade DEF AddKey, Goes
<1> HIDE DEF u, r
<1> QED
  BY <1>1, <1>2, <1>3, <1>4, <1>5, WriteKeeps

LEMMA ChangePasswordKeeps ==
    ASSUME IInv, NEW b \in Browsers, ChangePassword(b)
    PROVE  IInv' /\ SameRights
<1> DEFINE u == flow[b].user
<1>1. u \in Ids
  BY Parts, FlowShape DEF ChangePassword
<1>2. acct[u] \in Accounts
  BY <1>1, Parts
<1>3. [acct[u] EXCEPT !.change = FALSE] \in Accounts
  BY <1>2 DEF Accounts
<1>4. /\ [acct[u] EXCEPT !.change = FALSE].last = acct[u].last
      /\ [acct[u] EXCEPT !.change = FALSE].state = acct[u].state
      /\ [acct[u] EXCEPT !.change = FALSE].admin = acct[u].admin
  BY <1>2 DEF Accounts
<1>5. acct' = [acct EXCEPT ![u] = [acct[u] EXCEPT !.change = FALSE]]
      /\ UNCHANGED <<newest, spent>>
  BY DEF ChangePassword
<1>6. session' \in [Browsers -> Sessions]
  BY Parts, SessionShape DEF ChangePassword
<1>7. flow' \in [Browsers -> Flows]
  BY <1>1, Parts, FlowMade DEF ChangePassword, Goes
<1> HIDE DEF u
<1> QED
  BY <1>1, <1>3, <1>4, <1>5, <1>6, <1>7, Parts, WriteKeeps

\* The steps of a browser keep the inductive invariant.
LEMMA BrowserStep ==
    ASSUME IInv, NEW b \in Browsers, Browser(b)
    PROVE  IInv' /\ SameRights
<1>1. CASE Drop(b)
  BY <1>1 DEF Drop, IInv, TypeOK, Newest, SameRights
<1>2. CASE Logout(b)
  BY <1>2 DEF Logout, IInv, TypeOK, Newest, SameRights
<1>3. CASE Abandon(b)
  BY <1>3 DEF Abandon, Flows, IInv, TypeOK, Newest, SameRights
<1>4. CASE LoginKeys(b)
  <2>1. flow[b].user \in Ids
    BY <1>4, Parts, FlowShape DEF LoginKeys
  <2> QED
    BY <1>4, <2>1, FlowMade, ReadKeeps DEF LoginKeys
<1>5. CASE Spend(b)
  BY <1>5, SpendKeeps
<1>6. CASE Recover(b)
  BY <1>6, RecoverKeeps
<1>7. CASE Open(b)
  <2>1. flow[b].user \in Ids /\ flow[b].factor \in BOOLEAN
    BY <1>7, Parts, FlowShape DEF Open
  <2> QED
    BY <1>7, <2>1 DEF Open, Goes, Flows, IInv, TypeOK, Newest, SameRights
<1>8. CASE Setup(b)
  BY <1>8, SetupKeeps
<1>9. CASE Bind(b)
  BY <1>9, BindKeeps
<1>10. CASE KeyChecked(b)
  <2>1. session[b].user \in Ids
    BY <1>10, Somebody DEF KeyChecked, MayBind
  <2> QED
    BY <1>10, <2>1, FlowMade, ReadKeeps DEF KeyChecked
<1>11. CASE AddKey(b)
  BY <1>11, AddKeyKeeps
<1>12. CASE NewPassword(b)
  <2>1. session[b].user \in Ids
    BY <1>12, Somebody DEF NewPassword
  <2> QED
    BY <1>12, <2>1, FlowMade, ReadKeeps DEF NewPassword
<1>13. CASE ChangePassword(b)
  BY <1>13, ChangePasswordKeeps
<1>14. ASSUME NEW u \in Signers, Login(b, u) PROVE IInv' /\ SameRights
  <2>1. u \in Ids /\ acct[u].totp \in BOOLEAN
    BY Parts, AccountsAssumption DEF Accounts
  <2> QED
    BY <1>14, <2>1, FlowMade, ReadKeeps DEF Login
<1>15. ASSUME NEW u \in Signers, KeyAnswer(b, u) PROVE IInv' /\ SameRights
  BY <1>15, AccountsAssumption, FlowMade, ReadKeeps DEF KeyAnswer
<1>16. ASSUME NEW s \in 1..MaxStep, Code(b, s) PROVE IInv' /\ SameRights
  <2>1. flow[b].user \in Ids
    BY <1>16, Parts, FlowShape DEF Code
  <2> QED
    BY <1>16, <2>1, FlowMade, ReadKeeps DEF Code
<1>17. ASSUME NEW s \in 1..MaxStep, Confirm(b, s) PROVE IInv' /\ SameRights
  <2>1. session[b].user \in Ids
    BY <1>17, Somebody DEF Confirm, MayBind
  <2> QED
    BY <1>17, <2>1, FlowMade, ReadKeeps DEF Confirm
<1>18. ASSUME NEW c \in Codes, Recovery(b, c) PROVE IInv' /\ SameRights
  <2>1. flow[b].user \in Ids
    BY <1>18, Parts, FlowShape DEF Recovery
  <2>2. acct[flow[b].user].codes \in CodeSets
    BY <2>1, Parts DEF Accounts
  <2> QED
    BY <1>18, <2>1, <2>2, FlowMade, ReadKeeps DEF Recovery
<1> QED
  BY <1>1, <1>2, <1>3, <1>4, <1>5, <1>6, <1>7, <1>8, <1>9, <1>10, <1>11, <1>12,
     <1>13, <1>14, <1>15, <1>16, <1>17, <1>18 DEF Browser

\* The changes of the page and the console close sessions and touch no request.
LEMMA ChangesShape ==
    ASSUME IInv, NEW u, NEW keep, Changes(u, keep)
    PROVE  session' \in [Browsers -> Sessions] /\ flow' \in [Browsers -> Flows]
  BY Parts DEF Changes, Closed, Sessions

\* A change that rewrites a row and leaves the history alone keeps it.
LEMMA ChangeKeeps ==
    ASSUME IInv, NEW u \in Ids, NEW keep, Changes(u, keep),
           NEW r \in Accounts, r.last = acct[u].last,
           acct' = [acct EXCEPT ![u] = r], UNCHANGED <<newest, spent>>
    PROVE  IInv'
  BY ChangesShape, Parts, WriteKeeps

\* So does one that starts the history of a row again.
LEMMA RestartKeeps ==
    ASSUME IInv, NEW u \in Ids, NEW keep, Changes(u, keep),
           NEW r \in Accounts, r.last = 0,
           acct' = [acct EXCEPT ![u] = r],
           newest' = [newest EXCEPT ![u] = 0], spent' = [spent EXCEPT ![u] = {}]
    PROVE  IInv'
<1>1. spent' \in [Ids -> SUBSET Codes]
  BY Parts
<1> QED
  BY <1>1, ChangesShape, WriteKeeps

LEMMA OwnStep ==
    ASSUME IInv, NEW u \in Ids, Own(u) PROVE IInv'
<1>0. acct[u] \in Accounts
  BY Parts
<1>1. ASSUME NEW x \in BOOLEAN, SetPassword(u, x) PROVE IInv'
  BY <1>0, <1>1, FlagShape, ChangeKeeps DEF SetPassword
<1>2. ASSUME NEW x \in BOOLEAN, SetDisabled(u, x) PROVE IInv'
  <2> DEFINE s == IF x THEN "off" ELSE "on"
  <2>1. s \in {"on", "off"}
    OBVIOUS
  <2>2. acct' = [acct EXCEPT ![u] = [acct[u] EXCEPT !.state = s]]
        /\ Changes(u, {}) /\ UNCHANGED <<newest, spent>>
    BY <1>2 DEF SetDisabled
  <2> HIDE DEF s
  <2> QED
    BY <1>0, <2>1, <2>2, FlagShape, ChangeKeeps
<1>3. ASSUME NEW keep, RemoveKey(u, keep) PROVE IInv'
  BY <1>0, <1>3, KeyShape, ChangeKeeps DEF RemoveKey
<1>4. CASE ResetTotp(u)
  <2> DEFINE r == [acct[u] EXCEPT !.totp = FALSE, !.pending = FALSE,
                                  !.last = 0, !.codes = NoCodes]
  <2>1. r \in Accounts /\ r.last = 0
    <3>1. NoCodes \in CodeSets /\ 0 \in 0..MaxStep
      BY CodesShape, AccountsAssumption
    <3> QED
      BY <1>0, <3>1 DEF Accounts
  <2>2. acct' = [acct EXCEPT ![u] = r]
        /\ newest' = [newest EXCEPT ![u] = 0]
        /\ spent' = [spent EXCEPT ![u] = {}] /\ Changes(u, {})
    BY <1>4 DEF ResetTotp
  <2> HIDE DEF r
  <2> QED
    BY <2>1, <2>2, RestartKeeps
<1>5. CASE ConsoleTotp(u)
  <2>1. 0 \in 0..MaxStep
    BY AccountsAssumption
  <2>2. PICK r \in Accounts : r.last = 0 /\ acct' = [acct EXCEPT ![u] = r]
    BY <1>5, <2>1, BoundRow DEF ConsoleTotp
  <2>3. newest' = [newest EXCEPT ![u] = 0]
        /\ spent' = [spent EXCEPT ![u] = {}] /\ Changes(u, {})
    BY <1>5 DEF ConsoleTotp, Changes
  <2> QED
    BY <2>2, <2>3, RestartKeeps
<1>6. CASE ResetKeys(u)
  BY <1>0, <1>6, KeyShape, ChangeKeeps DEF ResetKeys
<1>7. CASE CloseSessions(u)
  BY <1>7, ChangesShape DEF CloseSessions, IInv, TypeOK, Newest, Sessions
<1> QED
  BY <1>1, <1>2, <1>3, <1>4, <1>5, <1>6, <1>7 DEF Own

LEMMA RightsStep ==
    ASSUME IInv, NEW u \in Ids, Rights(u) PROVE IInv'
<1>0. acct[u] \in Accounts
  BY Parts
<1>1. ASSUME NEW x \in BOOLEAN, NEW y \in BOOLEAN, AddUser(u, x, y) PROVE IInv'
  <2> DEFINE r == [NoAccount EXCEPT !.state = "on", !.admin = x, !.change = y]
  <2>1. r \in Accounts /\ r.last = 0
    BY NewShape DEF NoAccount
  <2>2. acct' = [acct EXCEPT ![u] = r]
        /\ newest' = [newest EXCEPT ![u] = 0]
        /\ UNCHANGED <<session, flow, spent>>
    BY <1>1 DEF AddUser
  <2> HIDE DEF r
  <2> QED
    BY <2>1, <2>2, Parts, WriteKeeps
<1>2. ASSUME NEW x \in BOOLEAN, SetRole(u, x) PROVE IInv'
  BY <1>0, <1>2, FlagShape, ChangeKeeps DEF SetRole
<1>3. CASE DeleteUser(u)
  <2> DEFINE r == [NoAccount EXCEPT !.state = "gone"]
  <2>1. r \in Accounts /\ r.last = 0
    BY NewShape DEF NoAccount
  <2>2. acct' = [acct EXCEPT ![u] = r]
        /\ newest' = [newest EXCEPT ![u] = 0]
        /\ spent' = [spent EXCEPT ![u] = {}] /\ Changes(u, {})
    BY <1>3 DEF DeleteUser
  <2> HIDE DEF r
  <2> QED
    BY <2>1, <2>2, RestartKeeps
<1> QED
  BY <1>1, <1>2, <1>3 DEF Rights

LEMMA InitInvariant == Init => IInv
<1> SUFFICES ASSUME Init PROVE IInv
  OBVIOUS
<1>1. NoAccount.last = 0
  BY DEF NoAccount
<1>2. NoAccount \in Accounts
  BY NewShape
<1>3. 0 \in 0..MaxStep
  BY AccountsAssumption
<1>4. acct \in [Ids -> Accounts] /\ newest \in [Ids -> 0..MaxStep] /\ Newest
  BY <1>1, <1>2, <1>3 DEF Init, Newest
<1>5. session \in [Browsers -> Sessions]
  BY DEF Init, Sessions
<1>6. flow \in [Browsers -> Flows]
  BY DEF Init, Flows
<1>7. spent \in [Ids -> SUBSET Codes]
  BY DEF Init
<1> QED
  BY <1>4, <1>5, <1>6, <1>7 DEF IInv, TypeOK, Sessions

LEMMA NextInvariant == IInv /\ [Next]_vars => IInv'
<1> SUFFICES ASSUME IInv, [Next]_vars PROVE IInv'
  OBVIOUS
<1>1. ASSUME NEW b \in Browsers, Browser(b) PROVE IInv'
  BY <1>1, BrowserStep
<1>2. ASSUME NEW u \in Signers, Own(u) PROVE IInv'
  BY <1>2, OwnStep, AccountsAssumption
<1>3. ASSUME NEW u \in Ids, Rights(u) PROVE IInv'
  BY <1>3, RightsStep
<1>4. CASE UNCHANGED vars
  BY <1>4 DEF vars, IInv, TypeOK, Newest
<1> QED
  BY <1>1, <1>2, <1>3, <1>4 DEF Next

\* The inductive invariant holds of every behaviour.
THEOREM AccountsInvariance == Spec => []IInv
<1>1. Init => IInv
  BY InitInvariant
<1>2. IInv /\ [Next]_vars => IInv'
  BY NextInvariant
<1> QED
  BY <1>1, <1>2, PTL DEF Spec

\* Every account is a row of the shape the tables have, with at most KeysMax
\* keys, whatever number of requests add one at a time.
THEOREM TypeCorrect == Spec => []TypeOK
<1>1. IInv => TypeOK
  BY DEF IInv
<1> QED
  BY <1>1, AccountsInvariance, PTL

-----------------------------------------------------------------------------
(* Steps *)

\* A request goes on by a step of its own browser only.
LEMMA OwnRequest ==
    ASSUME IInv, [Next]_vars, NEW b \in Browsers, flow'[b] # flow[b]
    PROVE  Browser(b)
<1>1. ASSUME NEW u, Own(u) PROVE FALSE
  BY <1>1 DEF Own, SetPassword, SetDisabled, RemoveKey, ResetTotp, ConsoleTotp,
              ResetKeys, CloseSessions, Changes
<1>2. ASSUME NEW u, Rights(u) PROVE FALSE
  BY <1>2 DEF Rights, AddUser, SetRole, DeleteUser, Changes
<1>3. ASSUME NEW c \in Browsers, Browser(c), c # b PROVE FALSE
  <2>1. \A f : Goes(c, f) => flow'[b] = flow[b]
    BY <1>3, Parts DEF Goes
  <2>2. ASSUME NEW u \in Signers, Login(c, u) \/ KeyAnswer(c, u) PROVE FALSE
    BY <2>1, <2>2 DEF Login, KeyAnswer
  <2>3. ASSUME NEW x \in 1..MaxStep, Code(c, x) \/ Confirm(c, x) PROVE FALSE
    BY <2>1, <2>3 DEF Code, Confirm
  <2>4. ASSUME NEW x \in Codes, Recovery(c, x) PROVE FALSE
    BY <2>1, <2>4 DEF Recovery
  <2>5. CASE Spend(c) \/ Recover(c) \/ Bind(c) \/ AddKey(c) \/ ChangePassword(c)
    BY <2>1, <2>5 DEF Spend, Recover, Bind, AddKey, ChangePassword
  <2>6. CASE LoginKeys(c) \/ Open(c) \/ KeyChecked(c) \/ NewPassword(c)
    BY <2>1, <2>6 DEF LoginKeys, Open, KeyChecked, NewPassword
  <2>7. CASE Drop(c) \/ Logout(c) \/ Abandon(c) \/ Setup(c)
    BY <1>3, <2>7, Parts DEF Drop, Logout, Abandon, Setup
  <2> QED
    BY <1>3, <2>2, <2>3, <2>4, <2>5, <2>6, <2>7 DEF Browser
<1>4. CASE UNCHANGED vars
  BY <1>4 DEF vars
<1> QED
  BY <1>1, <1>2, <1>3, <1>4 DEF Next

\* A request that waits to spend a step opens a session by spending it.
LEMMA SpendingOpens ==
    ASSUME IInv, NEW b \in Browsers, Browser(b),
           flow[b].at = "spend", flow'[b].at = "open"
    PROVE  Spend(b)
<1>1. flow[b] # Idle
  BY DEF Idle
<1>2. ~(\E u \in Signers : Login(b, u) \/ KeyAnswer(b, u))
  BY <1>1 DEF Login, KeyAnswer
<1>3. ~(\E x \in 1..MaxStep : Code(b, x) \/ Confirm(b, x))
  BY <1>1 DEF Code, Confirm, MayBind
<1>4. ~(\E x \in Codes : Recovery(b, x))
  BY DEF Recovery
<1>5. ~Recover(b) /\ ~Bind(b) /\ ~AddKey(b) /\ ~ChangePassword(b)
  BY DEF Recover, Bind, AddKey, ChangePassword
<1>6. ~LoginKeys(b) /\ ~Open(b) /\ ~KeyChecked(b) /\ ~NewPassword(b)
  BY <1>1 DEF LoginKeys, Open, KeyChecked, NewPassword, MayBind
<1>7. ~Drop(b) /\ ~Logout(b) /\ ~Abandon(b) /\ ~Setup(b)
  BY <1>1, Parts DEF Drop, Logout, Abandon, Setup, MayBind, Idle
<1> QED
  BY <1>2, <1>3, <1>4, <1>5, <1>6, <1>7 DEF Browser

\* Each thirty-second step of a bound secret is accepted once, and never after
\* a later one.  spend_totp_step compares with the row in the statement that
\* writes it, and the row holds the newest step accepted (Newest), also after
\* the secret was bound by a code of its own.
THEOREM StepsOnce == Spec => StepOnce
<1>1. ASSUME IInv, [Next]_vars, NEW b \in Browsers,
             flow[b].at = "spend", flow'[b].at = "open"
      PROVE  newest[flow[b].user] < flow[b].step
  <2>1. flow'[b] # flow[b]
    BY <1>1
  <2>2. Spend(b)
    BY <1>1, <2>1, OwnRequest, SpendingOpens
  <2>3. flow[b].user \in Ids
    BY <1>1, Parts, FlowShape
  <2>4. ASSUME ~(Live(flow[b].user) /\ acct[flow[b].user].last < flow[b].step)
        PROVE  FALSE
    BY <1>1, <2>2, <2>4, Parts DEF Spend, Goes
  <2> QED
    BY <1>1, <2>3, <2>4, Parts
<1>2. IInv /\ [Next]_vars
        => [\A b \in Browsers : flow[b].at = "spend" /\ flow'[b].at = "open"
               => newest[flow[b].user] < flow[b].step]_vars
  BY <1>1
<1> QED
  BY <1>2, AccountsInvariance, PTL DEF Spec, StepOnce

-----------------------------------------------------------------------------
(* The last administrator *)

SomeAdmin == \E u \in Ids : Admin(u)

LEMMA SameAdmins == SomeAdmin /\ SameRights => SomeAdmin'
  BY DEF SomeAdmin, SameRights, Admin

\* A row of somebody else's leaves the administrator _keep_an_admin has found.
LEMMA Spared ==
    ASSUME IInv, SomeAdmin, NEW u \in Ids, NEW r,
           acct' = [acct EXCEPT ![u] = r], KeepAnAdmin(u)
    PROVE  SomeAdmin'
<1>1. acct \in [Ids -> Accounts]
  BY DEF IInv, TypeOK
<1>2. PICK v \in Ids \ {u} : Admin(v)
  BY DEF SomeAdmin, KeepAnAdmin
<1>3. acct'[v] = acct[v]
  BY <1>1, <1>2
<1> QED
  BY <1>2, <1>3 DEF SomeAdmin, Admin

\* Nor does a change of one's own account, or of somebody else's.
LEMMA OwnSpares ==
    ASSUME IInv, SomeAdmin, NEW u \in Ids, Own(u) PROVE SomeAdmin'
<1>0. acct[u] \in Accounts /\ acct \in [Ids -> Accounts]
  BY Parts DEF IInv, TypeOK
<1>1. ASSUME NEW x \in BOOLEAN, SetPassword(u, x) PROVE SomeAdmin'
  <2>1. SameRights
    BY <1>0, <1>1 DEF SetPassword, SameRights, Accounts
  <2> QED
    BY <2>1, SameAdmins
<1>2. ASSUME SetDisabled(u, TRUE) PROVE SomeAdmin'
  <2>1. acct' = [acct EXCEPT ![u] = [acct[u] EXCEPT !.state = "off"]]
        /\ KeepAnAdmin(u)
    BY <1>2 DEF SetDisabled
  <2> QED
    BY <2>1, Spared
<1>3. ASSUME SetDisabled(u, FALSE) PROVE SomeAdmin'
  <2>1. acct' = [acct EXCEPT ![u] = [acct[u] EXCEPT !.state = "on"]]
    BY <1>3 DEF SetDisabled
  <2>2. \A v \in Ids : Admin(v) => Admin(v)'
    BY <1>0, <2>1 DEF Admin, Accounts
  <2> QED
    BY <2>2 DEF SomeAdmin
<1>4. ASSUME NEW keep, RemoveKey(u, keep) PROVE SomeAdmin'
  <2>1. SameRights
    BY <1>0, <1>4 DEF RemoveKey, SameRights, Accounts
  <2> QED
    BY <2>1, SameAdmins
<1>5. CASE ResetTotp(u) \/ ConsoleTotp(u)
  <2>1. PICK d : acct' = [acct EXCEPT ![u] = d]
                 /\ d.state = acct[u].state /\ d.admin = acct[u].admin
    <3>1. CASE ResetTotp(u)
      <4> DEFINE r == [acct[u] EXCEPT !.totp = FALSE, !.pending = FALSE,
                                      !.last = 0, !.codes = NoCodes]
      <4>1. acct' = [acct EXCEPT ![u] = r]
        BY <3>1 DEF ResetTotp
      <4>2. r.state = acct[u].state /\ r.admin = acct[u].admin
        BY <1>0 DEF Accounts
      <4> QED
        BY <4>1, <4>2
    <3>2. CASE ConsoleTotp(u)
      BY <3>2, BoundRow, AccountsAssumption DEF ConsoleTotp
    <3> QED
      BY <1>5, <3>1, <3>2
  <2>2. SameRights
    BY <1>0, <2>1 DEF SameRights
  <2> QED
    BY <2>2, SameAdmins
<1>6. CASE ResetKeys(u)
  <2>1. SameRights
    BY <1>0, <1>6 DEF ResetKeys, SameRights, Accounts
  <2> QED
    BY <2>1, SameAdmins
<1>7. CASE CloseSessions(u)
  BY <1>7 DEF CloseSessions, SomeAdmin, Admin
<1> QED
  BY <1>1, <1>2, <1>3, <1>4, <1>5, <1>6, <1>7 DEF Own

LEMMA RightsSpare ==
    ASSUME IInv, SomeAdmin, NEW u \in Ids, Rights(u) PROVE SomeAdmin'
<1>0. acct[u] \in Accounts /\ acct \in [Ids -> Accounts]
  BY Parts DEF IInv, TypeOK
<1>1. ASSUME NEW x \in BOOLEAN, NEW y \in BOOLEAN, AddUser(u, x, y)
      PROVE  SomeAdmin'
  <2> DEFINE r == [NoAccount EXCEPT !.state = "on", !.admin = x, !.change = y]
  <2>1. acct' = [acct EXCEPT ![u] = r]
    BY <1>1 DEF AddUser
  <2>2. KeepAnAdmin(u)
    BY <1>1 DEF AddUser, KeepAnAdmin, Admin
  <2> HIDE DEF r
  <2> QED
    BY <2>1, <2>2, Spared
<1>2. ASSUME SetRole(u, FALSE) PROVE SomeAdmin'
  <2>1. acct' = [acct EXCEPT ![u] = [acct[u] EXCEPT !.admin = FALSE]]
        /\ KeepAnAdmin(u)
    BY <1>2 DEF SetRole
  <2> QED
    BY <2>1, Spared
<1>3. ASSUME SetRole(u, TRUE) PROVE SomeAdmin'
  <2>1. acct' = [acct EXCEPT ![u] = [acct[u] EXCEPT !.admin = TRUE]]
    BY <1>3 DEF SetRole
  <2>2. \A v \in Ids : Admin(v) => Admin(v)'
    BY <1>0, <2>1 DEF Admin, Accounts
  <2> QED
    BY <2>2 DEF SomeAdmin
<1>4. CASE DeleteUser(u)
  BY <1>4, Spared DEF DeleteUser
<1> QED
  BY <1>1, <1>2, <1>3, <1>4 DEF Rights

\* Once there is an enabled administrator there is one for good: every change
\* that could take the last one away checks for another in the transaction that
\* writes it.
THEOREM AdminKept == Spec => KeepsAnAdmin
<1>1. ASSUME IInv, [Next]_vars, SomeAdmin PROVE SomeAdmin'
  <2>1. ASSUME NEW b \in Browsers, Browser(b) PROVE SomeAdmin'
    BY <1>1, <2>1, BrowserStep, SameAdmins
  <2>2. ASSUME NEW u \in Signers, Own(u) PROVE SomeAdmin'
    BY <1>1, <2>2, OwnSpares, AccountsAssumption
  <2>3. ASSUME NEW u \in Ids, Rights(u) PROVE SomeAdmin'
    BY <1>1, <2>3, RightsSpare
  <2>4. CASE UNCHANGED vars
    BY <1>1, <2>4 DEF vars, SomeAdmin, Admin
  <2> QED
    BY <1>1, <2>1, <2>2, <2>3, <2>4 DEF Next
<1>2. IInv /\ [Next]_vars
        => [(\E u \in Ids : Admin(u)) => (\E u \in Ids : Admin(u)')]_vars
  BY <1>1 DEF SomeAdmin
<1> QED
  BY <1>2, AccountsInvariance, PTL DEF Spec, KeepsAnAdmin

-----------------------------------------------------------------------------
(* The last second factor *)

\* A factor the account has is not taken away.
Firm(v) == HasFactor(acct[v]) => HasFactor(acct'[v])

\* What the guard looks at in an account stays as it is.
Footing(v) ==
    /\ acct'[v].state = acct[v].state /\ acct'[v].admin = acct[v].admin
    /\ acct'[v].change = acct[v].change
    /\ HasFactor(acct'[v]) <=> HasFactor(acct[v])

\* A browser's step that neither writes an account nor closes a session reads.
LEMMA Readers ==
    ASSUME NEW b, Browser(b)
    PROVE  \/ UNCHANGED <<acct, session, spent>>
           \/ Drop(b) \/ Logout(b) \/ Spend(b) \/ Recover(b) \/ Open(b)
           \/ Setup(b) \/ Bind(b) \/ AddKey(b) \/ ChangePassword(b)
  BY DEF Browser, Login, KeyAnswer, LoginKeys, Code, Confirm, Recovery,
         KeyChecked, NewPassword, Reads, Abandon

\* One row rewritten leaves every other one.
LEMMA OthersStand ==
    ASSUME IInv, NEW u \in Ids, NEW r, acct' = [acct EXCEPT ![u] = r]
    PROVE  /\ acct'[u] = r
           /\ \A v \in Ids \ {u} : acct'[v] = acct[v] /\ Footing(v) /\ Firm(v)
<1>1. acct \in [Ids -> Accounts]
  BY DEF IInv, TypeOK
<1> QED
  BY <1>1 DEF Footing, Firm

\* What the sign-in writes in a row, the guard does not look at.
LEMMA SpendFooting ==
    ASSUME IInv, NEW b \in Browsers, Spend(b) \/ Recover(b) \/ Setup(b),
           NEW v \in Ids
    PROVE  Footing(v)
<1>1. \A u \in Ids : acct[u] \in Accounts
  BY Parts
<1>2. CASE acct' = acct
  BY <1>2 DEF Footing
<1>3. ASSUME NEW u \in Ids, NEW r, acct' = [acct EXCEPT ![u] = r],
             r.state = acct[u].state, r.admin = acct[u].admin,
             r.change = acct[u].change, r.totp = acct[u].totp,
             r.keys = acct[u].keys
      PROVE  Footing(v)
  BY <1>3, OthersStand DEF Footing, HasFactor
<1>4. CASE Spend(b)
  <2> DEFINE u == flow[b].user
  <2>1. u \in Ids
    BY <1>4, Parts, FlowShape DEF Spend
  <2>2. \/ acct' = acct
        \/ acct' = [acct EXCEPT ![u] = [acct[u] EXCEPT !.last = flow[b].step]]
    BY <1>4 DEF Spend
  <2>3. acct[u] \in Accounts
    BY <1>1, <2>1
  <2> HIDE DEF u
  <2> QED
    BY <1>2, <1>3, <2>1, <2>2, <2>3 DEF Accounts
<1>5. CASE Recover(b)
  <2> DEFINE u == flow[b].user
             d == Left(flow[b].codes, flow[b].code)
  <2>1. u \in Ids
    BY <1>5, Parts, FlowShape DEF Recover
  <2>2. acct' = acct \/ acct' = [acct EXCEPT ![u] = [acct[u] EXCEPT !.codes = d]]
    BY <1>5 DEF Recover
  <2>3. acct[u] \in Accounts
    BY <1>1, <2>1
  <2> HIDE DEF u, d
  <2> QED
    BY <1>2, <1>3, <2>1, <2>2, <2>3 DEF Accounts
<1>6. CASE Setup(b)
  <2> DEFINE u == session[b].user
  <2>1. u \in Ids
    BY <1>6, Somebody DEF Setup, MayBind
  <2>2. acct' = [acct EXCEPT ![u] = [acct[u] EXCEPT !.pending = TRUE]]
    BY <1>6 DEF Setup
  <2>3. acct[u] \in Accounts
    BY <1>1, <2>1
  <2> HIDE DEF u
  <2> QED
    BY <1>3, <2>1, <2>2, <2>3 DEF Accounts
<1> QED
  BY <1>4, <1>5, <1>6

\* What a bound secret, a new key and a new password are in the row.
LEMMA BindRow ==
    ASSUME IInv, NEW b \in Browsers, Bind(b)
    PROVE  \E r : /\ acct' = [acct EXCEPT ![flow[b].user] = r]
                  /\ HasFactor(r)
<1> DEFINE u == flow[b].user
           r == [acct[u] EXCEPT !.totp = TRUE, !.pending = FALSE,
                   !.last = flow[b].step, !.codes = NewCodes(Fresh)]
<1>1. acct' = [acct EXCEPT ![u] = r]
  BY DEF Bind, Bound
<1>2. u \in Ids
  BY Parts, FlowShape DEF Bind
<1>3. acct[u] \in Accounts
  BY <1>2, Parts
<1>4. r.totp = TRUE
  BY <1>3 DEF Accounts
<1> QED
  BY <1>1, <1>4 DEF HasFactor

LEMMA AddKeyRow ==
    ASSUME IInv, NEW b \in Browsers, AddKey(b)
    PROVE  \E r : /\ acct' = [acct EXCEPT ![flow[b].user] = r]
                  /\ HasFactor(r) /\ r.state = acct[flow[b].user].state
                  /\ r.admin = acct[flow[b].user].admin
                  /\ r.change = acct[flow[b].user].change
<1> DEFINE u == flow[b].user
           k == acct[u].keys + 1
           d == IF flow[b].codes /\ acct[u].codes = NoCodes
                THEN NewCodes(Fresh) ELSE acct[u].codes
           r == [acct[u] EXCEPT !.keys = k, !.codes = d]
<1>1. acct' = [acct EXCEPT ![u] = r]
  BY DEF AddKey, WithKey
<1>2. u \in Ids
  BY Parts, FlowShape DEF AddKey
<1>3. acct[u] \in Accounts
  BY <1>2, Parts
<1>4. k > 0
  BY <1>3, AccountsAssumption DEF Accounts
<1>5. r.keys = k /\ r.state = acct[u].state /\ r.admin = acct[u].admin
      /\ r.change = acct[u].change
  <2> HIDE DEF k, d
  <2> QED
    BY <1>3 DEF Accounts
<1>6. HasFactor(r)
  BY <1>4, <1>5 DEF HasFactor
<1> HIDE DEF r
<1> QED
  BY <1>1, <1>5, <1>6

\* No step of a browser takes a factor away.
LEMMA BrowserFirm ==
    ASSUME IInv, NEW b \in Browsers, Browser(b), NEW v \in Ids PROVE Firm(v)
<1>1. CASE UNCHANGED <<acct, session, spent>>
  BY <1>1 DEF Firm
<1>2. CASE Drop(b) \/ Logout(b) \/ Open(b)
  BY <1>2 DEF Drop, Logout, Open, Firm
<1>3. CASE Spend(b) \/ Recover(b) \/ Setup(b)
  BY <1>3, SpendFooting DEF Footing, Firm
<1>4. CASE Bind(b)
  <2>1. PICK r : acct' = [acct EXCEPT ![flow[b].user] = r] /\ HasFactor(r)
    BY <1>4, BindRow
  <2>2. flow[b].user \in Ids
    BY <1>4, Parts, FlowShape DEF Bind
  <2> QED
    BY <2>1, <2>2, OthersStand DEF Firm
<1>5. CASE AddKey(b)
  <2>1. PICK r : acct' = [acct EXCEPT ![flow[b].user] = r] /\ HasFactor(r)
    BY <1>5, AddKeyRow
  <2>2. flow[b].user \in Ids
    BY <1>5, Parts, FlowShape DEF AddKey
  <2> QED
    BY <2>1, <2>2, OthersStand DEF Firm
<1>6. CASE ChangePassword(b)
  <2> DEFINE u == flow[b].user
  <2>1. u \in Ids
    BY <1>6, Parts, FlowShape DEF ChangePassword
  <2>2. acct' = [acct EXCEPT ![u] = [acct[u] EXCEPT !.change = FALSE]]
    BY <1>6 DEF ChangePassword
  <2>3. acct[u] \in Accounts
    BY <2>1, Parts
  <2>4. HasFactor(acct[u]) => HasFactor([acct[u] EXCEPT !.change = FALSE])
    BY <2>3 DEF HasFactor, Accounts
  <2> HIDE DEF u
  <2> QED
    BY <2>1, <2>2, <2>4, OthersStand DEF Firm
<1> QED
  BY <1>1, <1>2, <1>3, <1>4, <1>5, <1>6, Readers

\* Nor a change of an account, but the two resets, as long as it stays an
\* administrator's.
LEMMA OwnFirm ==
    ASSUME IInv, NEW u \in Ids, Own(u), NEW v \in Ids, Admin(v)
    PROVE  Firm(v) \/ ResetTotp(v) \/ ResetKeys(v)
<1>0. acct[u] \in Accounts
  BY Parts
<1>1. ASSUME NEW x \in BOOLEAN, SetPassword(u, x) PROVE Firm(v)
  <2>1. acct' = [acct EXCEPT ![u] = [acct[u] EXCEPT !.change = x]]
    BY <1>1 DEF SetPassword
  <2>2. HasFactor(acct[u]) => HasFactor([acct[u] EXCEPT !.change = x])
    BY <1>0 DEF HasFactor, Accounts
  <2> QED
    BY <2>1, <2>2, OthersStand DEF Firm
<1>2. ASSUME NEW x \in BOOLEAN, SetDisabled(u, x) PROVE Firm(v)
  <2> DEFINE s == IF x THEN "off" ELSE "on"
  <2>1. acct' = [acct EXCEPT ![u] = [acct[u] EXCEPT !.state = s]]
    BY <1>2 DEF SetDisabled
  <2> HIDE DEF s
  <2>2. HasFactor(acct[u]) => HasFactor([acct[u] EXCEPT !.state = s])
    BY <1>0 DEF HasFactor, Accounts
  <2> QED
    BY <2>1, <2>2, OthersStand DEF Firm
<1>3. ASSUME NEW keep, RemoveKey(u, keep) PROVE Firm(v)
  <2>1. acct' = [acct EXCEPT ![u] = [acct[u] EXCEPT !.keys = acct[u].keys - 1]]
    BY <1>3 DEF RemoveKey
  <2>2. CASE v = u
    <3>1. acct[u].totp \/ acct[u].keys > 1
      BY <1>3, <2>2 DEF RemoveKey, KeepAFactor, Admin
    <3>2. HasFactor([acct[u] EXCEPT !.keys = acct[u].keys - 1])
      BY <1>0, <3>1, AccountsAssumption DEF HasFactor, Accounts
    <3> QED
      BY <2>1, <2>2, <3>2, OthersStand DEF Firm
  <2> QED
    BY <2>1, <2>2, OthersStand
<1>4. CASE ResetTotp(u)
  <2>1. PICK r : acct' = [acct EXCEPT ![u] = r]
    BY <1>4 DEF ResetTotp
  <2> QED
    BY <1>4, <2>1, OthersStand
<1>5. CASE ConsoleTotp(u)
  <2> DEFINE r == [acct[u] EXCEPT !.totp = TRUE, !.pending = FALSE, !.last = 0,
                                  !.codes = NewCodes(Fresh)]
  <2>1. acct' = [acct EXCEPT ![u] = r]
    BY <1>5 DEF ConsoleTotp, Bound
  <2>2. r.totp = TRUE
    BY <1>0 DEF Accounts
  <2> HIDE DEF r
  <2> QED
    BY <2>1, <2>2, OthersStand DEF Firm, HasFactor
<1>6. CASE ResetKeys(u)
  <2>1. PICK r : acct' = [acct EXCEPT ![u] = r]
    BY <1>6 DEF ResetKeys
  <2> QED
    BY <1>6, <2>1, OthersStand
<1>7. CASE CloseSessions(u)
  BY <1>7 DEF CloseSessions, Firm
<1> QED
  BY <1>1, <1>2, <1>3, <1>4, <1>5, <1>6, <1>7 DEF Own

LEMMA RightsFirm ==
    ASSUME IInv, NEW u \in Ids, Rights(u), NEW v \in Ids, Admin(v), Admin(v)'
    PROVE  Firm(v)
<1>0. acct[u] \in Accounts
  BY Parts
<1>1. ASSUME NEW x \in BOOLEAN, NEW y \in BOOLEAN, AddUser(u, x, y) PROVE Firm(v)
  <2>1. PICK r : acct' = [acct EXCEPT ![u] = r]
    BY <1>1 DEF AddUser
  <2>2. v # u
    BY <1>1 DEF AddUser, Admin
  <2> QED
    BY <2>1, <2>2, OthersStand
<1>2. ASSUME NEW x \in BOOLEAN, SetRole(u, x) PROVE Firm(v)
  <2>1. acct' = [acct EXCEPT ![u] = [acct[u] EXCEPT !.admin = x]]
    BY <1>2 DEF SetRole
  <2>2. HasFactor(acct[u]) => HasFactor([acct[u] EXCEPT !.admin = x])
    BY <1>0 DEF HasFactor, Accounts
  <2> QED
    BY <2>1, <2>2, OthersStand DEF Firm
<1>3. CASE DeleteUser(u)
  <2> DEFINE r == [NoAccount EXCEPT !.state = "gone"]
  <2>1. acct' = [acct EXCEPT ![u] = r]
    BY <1>3 DEF DeleteUser
  <2>2. r.state = "gone"
    BY DEF NoAccount
  <2> HIDE DEF r
  <2>3. v # u
    BY <2>1, <2>2, OthersStand DEF Admin
  <2> QED
    BY <2>1, <2>3, OthersStand
<1> QED
  BY <1>1, <1>2, <1>3 DEF Rights

\* An administrator's last second factor is taken away by the two resets only:
\* _keep_a_factor looks at the row in the transaction that removes the key, and
\* nothing a browser sends takes a factor away.
THEOREM FactorKept == Spec => KeepsAFactor
<1>1. ASSUME IInv, [Next]_vars, NEW v \in Ids,
             Admin(v), HasFactor(acct[v]), Admin(v)'
      PROVE  HasFactor(acct'[v]) \/ ResetTotp(v) \/ ResetKeys(v)
  <2>1. ASSUME NEW b \in Browsers, Browser(b) PROVE HasFactor(acct'[v])
    BY <1>1, <2>1, BrowserFirm DEF Firm
  <2>2. ASSUME NEW u \in Signers, Own(u)
        PROVE  HasFactor(acct'[v]) \/ ResetTotp(v) \/ ResetKeys(v)
    BY <1>1, <2>2, OwnFirm, AccountsAssumption DEF Firm
  <2>3. ASSUME NEW u \in Ids, Rights(u) PROVE HasFactor(acct'[v])
    BY <1>1, <2>3, RightsFirm DEF Firm
  <2>4. CASE UNCHANGED vars
    BY <1>1, <2>4 DEF vars
  <2> QED
    BY <1>1, <2>1, <2>2, <2>3, <2>4 DEF Next
<1>2. IInv /\ [Next]_vars
        => [\A u \in Ids : Admin(u) /\ HasFactor(acct[u]) /\ Admin(u)'
              => HasFactor(acct'[u]) \/ ResetTotp(u) \/ ResetKeys(u)]_vars
  BY <1>1
<1> QED
  BY <1>2, AccountsInvariance, PTL DEF Spec, KeepsAFactor

-----------------------------------------------------------------------------
(* What earns a session *)

\* A recovery code the account still holds has not opened a session.
SpentInv == \A u \in Ids : acct[u].codes.left \cap spent[u] = {}

\* A request that is about to use a code has read it among the account's.
MeantInv ==
    \A b \in Browsers :
        flow[b].at = "recover" => flow[b].code \in flow[b].codes.left

\* A session and a request are of an account that was added once.
KnownInv ==
    \A b \in Browsers :
        /\ session[b] # NoSession => acct[session[b].user].state # "none"
        /\ flow[b] # Idle => acct[flow[b].user].state # "none"

Earned == IInv /\ SpentInv /\ MeantInv /\ KnownInv

\* What closing and vouching make of each session.
LEMMA ClosedOf ==
    ASSUME NEW b \in Browsers, NEW u, NEW keep
    PROVE  /\ Closed(u, keep)[b] \in {NoSession, session[b]}
           /\ session[b].user = u /\ b \notin keep
                => Closed(u, keep)[b] = NoSession
  BY DEF Closed

LEMMA VouchedOf ==
    ASSUME NEW b \in Browsers, NEW c \in Browsers,
           NEW s \in [Browsers -> Sessions]
    PROVE  /\ b # c => Vouched(c, s)[b] = s[b]
           /\ s[b] = NoSession => Vouched(c, s)[b] = NoSession
           /\ Vouched(c, s)[b].user = s[b].user
<1>1. CASE s[c] = NoSession
  BY <1>1 DEF Vouched
<1>2. CASE s[c] # NoSession
  <2>1. s[c] \in [user : Ids, factor : BOOLEAN]
    BY <1>2 DEF Sessions
  <2>2. [s[c] EXCEPT !.factor = TRUE].user = s[c].user
    BY <2>1
  <2>3. Vouched(c, s) = [s EXCEPT ![c] = [s[c] EXCEPT !.factor = TRUE]]
    BY <1>2 DEF Vouched
  <2> QED
    BY <1>2, <2>2, <2>3
<1> QED
  BY <1>1, <1>2

\* Sessions that are let in already.
AreIn(keep) == \A b \in keep : Standing(b) = "in"

\* A change of the page or the console, as far as a session can tell: the
\* account's row is written, its sessions are closed but those that are let in
\* already, and codes are only ever replaced with their history.
Administers(u) ==
    \E keep, r :
        /\ session' = Closed(u, keep) /\ AreIn(keep)
        /\ flow' = flow
        /\ acct' = [acct EXCEPT ![u] = r] /\ r.state # "none"
        /\ \/ spent' = spent /\ r.codes = acct[u].codes
           \/ spent' = [spent EXCEPT ![u] = {}]

LEMMA Administered ==
    ASSUME NEW u, NEW keep, NEW r,
           Changes(u, keep), AreIn(keep),
           acct' = [acct EXCEPT ![u] = r], r.state # "none",
           \/ spent' = spent /\ r.codes = acct[u].codes
           \/ spent' = [spent EXCEPT ![u] = {}]
    PROVE  Administers(u)
  BY DEF Administers, Changes

LEMMA NobodyIn == AreIn({})
  BY DEF AreIn

LEMMA OwnAdministers ==
    ASSUME IInv, NEW u \in Ids, Own(u) PROVE Administers(u)
<1>0. acct[u] \in Accounts
  BY Parts
<1>1. ASSUME NEW x \in BOOLEAN, SetPassword(u, x) PROVE Administers(u)
  <2> DEFINE r == [acct[u] EXCEPT !.change = x]
  <2>1. acct' = [acct EXCEPT ![u] = r] /\ Changes(u, {}) /\ spent' = spent
    BY <1>1 DEF SetPassword
  <2>2. r.state # "none" /\ r.codes = acct[u].codes
    BY <1>0, <1>1 DEF SetPassword, Live, Accounts
  <2> HIDE DEF r
  <2> QED
    BY <2>1, <2>2, NobodyIn, Administered
<1>2. ASSUME NEW x \in BOOLEAN, SetDisabled(u, x) PROVE Administers(u)
  <2> DEFINE s == IF x THEN "off" ELSE "on"
             r == [acct[u] EXCEPT !.state = s]
  <2>1. acct' = [acct EXCEPT ![u] = r] /\ Changes(u, {}) /\ spent' = spent
    BY <1>2 DEF SetDisabled
  <2>2. r.state # "none" /\ r.codes = acct[u].codes
    BY <1>0 DEF Accounts
  <2> HIDE DEF r
  <2> QED
    BY <2>1, <2>2, NobodyIn, Administered
<1>3. ASSUME NEW keep, RemoveKey(u, keep) PROVE Administers(u)
  <2> DEFINE r == [acct[u] EXCEPT !.keys = acct[u].keys - 1]
  <2>1. /\ acct' = [acct EXCEPT ![u] = r] /\ Changes(u, keep) /\ spent' = spent
        /\ AreIn(keep)
    BY <1>3 DEF RemoveKey, AreIn
  <2>2. r.state # "none" /\ r.codes = acct[u].codes
    BY <1>0, <1>3 DEF RemoveKey, Live, Accounts
  <2> HIDE DEF r
  <2> QED
    BY <2>1, <2>2, Administered
<1>4. CASE ResetTotp(u)
  <2> DEFINE r == [acct[u] EXCEPT !.totp = FALSE, !.pending = FALSE,
                                  !.last = 0, !.codes = NoCodes]
  <2>1. acct' = [acct EXCEPT ![u] = r] /\ Changes(u, {})
        /\ spent' = [spent EXCEPT ![u] = {}]
    BY <1>4 DEF ResetTotp
  <2>2. r.state # "none"
    BY <1>0, <1>4 DEF ResetTotp, Live, Accounts
  <2> HIDE DEF r
  <2> QED
    BY <2>1, <2>2, NobodyIn, Administered
<1>5. CASE ConsoleTotp(u)
  <2>1. 0 \in 0..MaxStep /\ acct[u].state # "none"
    BY <1>5, AccountsAssumption DEF ConsoleTotp, Live
  <2>2. PICK r \in Accounts : acct' = [acct EXCEPT ![u] = r]
                              /\ r.state = acct[u].state
    BY <1>5, <2>1, BoundRow DEF ConsoleTotp
  <2>3. Changes(u, {}) /\ spent' = [spent EXCEPT ![u] = {}]
    BY <1>5 DEF ConsoleTotp, Changes
  <2> QED
    BY <2>1, <2>2, <2>3, NobodyIn, Administered
<1>6. CASE ResetKeys(u)
  <2> DEFINE r == [acct[u] EXCEPT !.keys = 0]
  <2>1. acct' = [acct EXCEPT ![u] = r] /\ Changes(u, {}) /\ spent' = spent
    BY <1>6 DEF ResetKeys
  <2>2. r.state # "none" /\ r.codes = acct[u].codes
    BY <1>0, <1>6 DEF ResetKeys, Live, Accounts
  <2> HIDE DEF r
  <2> QED
    BY <2>1, <2>2, NobodyIn, Administered
<1>7. CASE CloseSessions(u)
  <2>1. acct' = [acct EXCEPT ![u] = acct[u]]
    BY <1>7 DEF CloseSessions, IInv, TypeOK
  <2>2. Changes(u, {}) /\ spent' = spent /\ acct[u].state # "none"
    BY <1>7 DEF CloseSessions, Live
  <2> QED
    BY <2>1, <2>2, NobodyIn, Administered
<1> QED
  BY <1>1, <1>2, <1>3, <1>4, <1>5, <1>6, <1>7 DEF Own

\* A row that nobody has used yet.
Adds(u) ==
    /\ acct[u].state = "none" /\ UNCHANGED <<session, flow, spent>>
    /\ \E r : /\ acct' = [acct EXCEPT ![u] = r]
              /\ r.state = "on" /\ r.codes.left = {}

LEMMA RightsAdminister ==
    ASSUME IInv, NEW u \in Ids, Rights(u) PROVE Administers(u) \/ Adds(u)
<1>0. acct[u] \in Accounts
  BY Parts
<1>1. ASSUME NEW x \in BOOLEAN, NEW y \in BOOLEAN, AddUser(u, x, y) PROVE Adds(u)
  <2> DEFINE r == [NoAccount EXCEPT !.state = "on", !.admin = x, !.change = y]
  <2>1. acct' = [acct EXCEPT ![u] = r] /\ acct[u].state = "none"
        /\ UNCHANGED <<session, flow, spent>>
    BY <1>1 DEF AddUser
  <2>2. r.state = "on" /\ r.codes.left = {}
    BY DEF NoAccount, NoCodes
  <2> HIDE DEF r
  <2> QED
    BY <2>1, <2>2 DEF Adds
<1>2. ASSUME NEW x \in BOOLEAN, SetRole(u, x) PROVE Administers(u)
  <2> DEFINE r == [acct[u] EXCEPT !.admin = x]
  <2>1. acct' = [acct EXCEPT ![u] = r] /\ Changes(u, {}) /\ spent' = spent
    BY <1>2 DEF SetRole
  <2>2. r.state # "none" /\ r.codes = acct[u].codes
    BY <1>0, <1>2 DEF SetRole, Live, Accounts
  <2> HIDE DEF r
  <2> QED
    BY <2>1, <2>2, NobodyIn, Administered
<1>3. CASE DeleteUser(u)
  <2> DEFINE r == [NoAccount EXCEPT !.state = "gone"]
  <2>1. acct' = [acct EXCEPT ![u] = r] /\ Changes(u, {})
        /\ spent' = [spent EXCEPT ![u] = {}]
    BY <1>3 DEF DeleteUser
  <2>2. r.state # "none"
    BY DEF NoAccount
  <2> HIDE DEF r
  <2> QED
    BY <2>1, <2>2, NobodyIn, Administered
<1> QED
  BY <1>1, <1>2, <1>3 DEF Rights

\* An account that was added is never unknown again.
Stays == \A v \in Ids : acct[v].state # "none" => acct'[v].state # "none"

LEMMA AllStay == ASSUME IInv, [Next]_vars PROVE Stays
<1>1. ASSUME NEW b \in Browsers, Browser(b) PROVE Stays
  BY <1>1, BrowserStep DEF SameRights, Stays
<1>2. ASSUME NEW u \in Ids, Administers(u) PROVE Stays
  <2>1. PICK r : acct' = [acct EXCEPT ![u] = r] /\ r.state # "none"
    BY <1>2 DEF Administers
  <2> QED
    BY <2>1, OthersStand DEF Stays
<1>3. ASSUME NEW u \in Ids, Adds(u) PROVE Stays
  <2>1. PICK r : acct' = [acct EXCEPT ![u] = r] /\ r.state = "on"
    BY <1>3 DEF Adds
  <2> QED
    BY <2>1, OthersStand DEF Stays
<1>4. CASE UNCHANGED vars
  BY <1>4 DEF vars, Stays
<1> QED
  BY <1>1, <1>2, <1>3, <1>4, OwnAdministers, RightsAdminister, AccountsAssumption
     DEF Next

\* Where a session and a request come from.
SessionFrom(b) ==
    \/ session'[b] = NoSession
    \/ session[b] # NoSession /\ session'[b].user = session[b].user
    \/ flow[b] # Idle /\ session'[b].user = flow[b].user

FlowFrom(b) ==
    \/ flow'[b] = Idle
    \/ flow[b] # Idle /\ flow'[b].user = flow[b].user
    \/ flow'[b].user \in Ids /\ acct[flow'[b].user].state # "none"

LEMMA BrowserSession ==
    ASSUME IInv, NEW c \in Browsers, Browser(c), NEW b \in Browsers
    PROVE  SessionFrom(b)
<1>0. session \in [Browsers -> Sessions]
  BY Parts
<1>1. CASE session' = session
  BY <1>1 DEF SessionFrom
<1>2. CASE Drop(c) \/ Logout(c)
  <2>1. session'[b] \in {NoSession, session[b]}
    BY <1>0, <1>2 DEF Drop, Logout
  <2> QED
    BY <2>1 DEF SessionFrom
<1>3. CASE Open(c)
  <2>1. session'[b] = IF b = c THEN [user |-> flow[c].user, factor |-> flow[c].factor]
                      ELSE session[b]
    BY <1>0, <1>3 DEF Open
  <2>2. flow[c] # Idle
    BY <1>3 DEF Open, Idle
  <2> QED
    BY <2>1, <2>2 DEF SessionFrom
<1>4. ASSUME NEW u, session' = Closed(u, {c}) PROVE SessionFrom(b)
  BY <1>4, ClosedOf DEF SessionFrom
<1>5. ASSUME NEW s \in [Browsers -> Sessions], s[b] \in {NoSession, session[b]},
             session' = Vouched(c, s)
      PROVE  SessionFrom(b)
  BY <1>5, VouchedOf DEF SessionFrom
<1>6. \A u : /\ Closed(u, {c}) \in [Browsers -> Sessions]
             /\ Closed(u, {c})[b] \in {NoSession, session[b]}
  BY <1>0, ClosedOf, SessionShape
<1>7. CASE Bind(c)
  BY <1>5, <1>6, <1>7 DEF Bind
<1>8. CASE AddKey(c)
  <2>1. \/ session' = Vouched(c, Closed(flow[c].user, {c}))
        \/ session' = Vouched(c, session)
    BY <1>8 DEF AddKey
  <2> QED
    BY <1>0, <1>5, <1>6, <2>1
<1>9. CASE ChangePassword(c)
  BY <1>4, <1>9 DEF ChangePassword
<1>10. CASE Spend(c) \/ Recover(c) \/ Setup(c)
  BY <1>1, <1>10 DEF Spend, Recover, Setup
<1> QED
  BY <1>1, <1>2, <1>3, <1>7, <1>8, <1>9, <1>10, Readers

LEMMA SessionsFrom ==
    ASSUME IInv, [Next]_vars, NEW b \in Browsers PROVE SessionFrom(b)
<1>1. ASSUME NEW u, Administers(u) PROVE SessionFrom(b)
  BY <1>1, ClosedOf DEF Administers, SessionFrom
<1>2. ASSUME NEW u, Adds(u) PROVE SessionFrom(b)
  BY <1>2 DEF Adds, SessionFrom
<1>3. CASE UNCHANGED vars
  BY <1>3 DEF vars, SessionFrom
<1> QED
  BY <1>1, <1>2, <1>3, BrowserSession, OwnAdministers, RightsAdminister,
     AccountsAssumption DEF Next

\* A request that is to use a code has just read it, or is waiting to.
MeantFrom(b) ==
    flow'[b].at = "recover"
        => flow'[b] = flow[b] \/ flow'[b].code \in flow'[b].codes.left

LEMMA BrowserFlow ==
    ASSUME IInv, NEW b \in Browsers, Browser(b)
    PROVE  FlowFrom(b) /\ MeantFrom(b)
<1>0. \A f : Goes(b, f) => flow'[b] = f
  BY Parts DEF Goes
<1>1. ASSUME NEW u \in Ids, acct[u].state # "none", NEW f, Goes(b, f),
             f.user = u, f.at # "recover"
      PROVE  FlowFrom(b) /\ MeantFrom(b)
  BY <1>0, <1>1 DEF FlowFrom, MeantFrom
<1>2. ASSUME flow[b] # Idle, NEW f, Goes(b, f), f.user = flow[b].user,
             f.at # "recover"
      PROVE  FlowFrom(b) /\ MeantFrom(b)
  BY <1>0, <1>2 DEF FlowFrom, MeantFrom
<1>3. CASE flow' = flow
  BY <1>3 DEF FlowFrom, MeantFrom
<1>4. ASSUME Goes(b, Idle) PROVE FlowFrom(b) /\ MeantFrom(b)
  BY <1>0, <1>4 DEF FlowFrom, MeantFrom, Idle
<1>5. flow[b].at # "idle" => flow[b] # Idle
  BY DEF Idle
<1>6. Standing(b) # "out"
        => session[b].user \in Ids /\ acct[session[b].user].state = "on"
  BY DEF Standing
<1>7. CASE Drop(b) \/ Logout(b) \/ Setup(b)
  BY <1>3, <1>7 DEF Drop, Logout, Setup
<1>8. CASE Abandon(b)
  BY <1>4, <1>8 DEF Abandon, Goes
<1>9. ASSUME NEW u \in Signers, Login(b, u) PROVE FlowFrom(b) /\ MeantFrom(b)
  BY <1>1, <1>9, AccountsAssumption DEF Login
<1>10. ASSUME NEW u \in Signers, KeyAnswer(b, u) PROVE FlowFrom(b) /\ MeantFrom(b)
  BY <1>1, <1>10, AccountsAssumption DEF KeyAnswer
<1>11. CASE LoginKeys(b)
  BY <1>2, <1>5, <1>11 DEF LoginKeys
<1>12. ASSUME NEW s, Code(b, s) PROVE FlowFrom(b) /\ MeantFrom(b)
  BY <1>2, <1>5, <1>12 DEF Code
<1>13. ASSUME NEW c, Recovery(b, c) PROVE FlowFrom(b) /\ MeantFrom(b)
  BY <1>0, <1>5, <1>13 DEF Recovery, FlowFrom, MeantFrom
<1>14. CASE Spend(b)
  BY <1>2, <1>5, <1>14 DEF Spend
<1>15. CASE Recover(b)
  BY <1>2, <1>5, <1>15 DEF Recover
<1>16. CASE Open(b) \/ Bind(b) \/ AddKey(b) \/ ChangePassword(b)
  BY <1>4, <1>16 DEF Open, Bind, AddKey, ChangePassword
<1>17. ASSUME NEW s, Confirm(b, s) PROVE FlowFrom(b) /\ MeantFrom(b)
  BY <1>1, <1>6, <1>17 DEF Confirm, MayBind
<1>18. CASE KeyChecked(b)
  BY <1>1, <1>6, <1>18 DEF KeyChecked, MayBind
<1>19. CASE NewPassword(b)
  BY <1>1, <1>6, <1>19 DEF NewPassword
<1> QED
  BY <1>7, <1>8, <1>9, <1>10, <1>11, <1>12, <1>13, <1>14, <1>15, <1>16, <1>17,
     <1>18, <1>19 DEF Browser

LEMMA FlowsFrom ==
    ASSUME IInv, [Next]_vars, NEW b \in Browsers
    PROVE  FlowFrom(b) /\ MeantFrom(b)
<1>1. CASE flow'[b] = flow[b]
  BY <1>1 DEF FlowFrom, MeantFrom
<1>2. CASE flow'[b] # flow[b]
  BY <1>2, OwnRequest, BrowserFlow
<1> QED
  BY <1>1, <1>2

\* Sessions and requests stay those of known accounts, and a request means a
\* code it has read.
LEMMA KnownKept ==
    ASSUME IInv, [Next]_vars, KnownInv, MeantInv PROVE KnownInv' /\ MeantInv'
<1>1. Stays
  BY AllStay
<1>2. \A b \in Browsers : /\ session[b] # NoSession => session[b].user \in Ids
                          /\ flow[b] # Idle => flow[b].user \in Ids
  <2>1. ASSUME NEW b \in Browsers, session[b] # NoSession
        PROVE  session[b].user \in Ids
    BY <2>1, Parts DEF Sessions
  <2>2. ASSUME NEW b \in Browsers, flow[b] # Idle PROVE flow[b].user \in Ids
    <3>1. flow[b] \in Flows
      BY Parts
    <3> QED
      BY <2>2, <3>1 DEF Flows
  <2> QED
    BY <2>1, <2>2
<1>3. ASSUME NEW b \in Browsers, session'[b] # NoSession
      PROVE  acct'[session'[b].user].state # "none"
  BY <1>1, <1>2, <1>3, SessionsFrom DEF SessionFrom, KnownInv, Stays
<1>4. ASSUME NEW b \in Browsers, flow'[b] # Idle
      PROVE  acct'[flow'[b].user].state # "none"
  BY <1>1, <1>2, <1>4, FlowsFrom DEF FlowFrom, KnownInv, Stays
<1>5. MeantInv'
  BY FlowsFrom DEF MeantFrom, MeantInv
<1> QED
  BY <1>3, <1>4, <1>5 DEF KnownInv

\* A row and its history are written together.
LEMMA SpentRow ==
    ASSUME IInv, SpentInv, NEW u \in Ids, NEW r,
           acct' = [acct EXCEPT ![u] = r],
           \/ spent' = spent /\ r.codes = acct[u].codes
           \/ spent' = [spent EXCEPT ![u] = {}]
    PROVE  SpentInv'
<1>1. acct \in [Ids -> Accounts] /\ spent \in [Ids -> SUBSET Codes]
  BY DEF IInv, TypeOK
<1> QED
  BY <1>1 DEF SpentInv

\* A used code leaves the account for the history.
LEMMA LeftOut ==
    ASSUME NEW d \in CodeSets, NEW c
    PROVE  Left(d, c).left = d.left \ {c}
<1>1. CASE d.left = {c}
  BY <1>1 DEF Left, NoCodes
<1>2. CASE d.left # {c}
  BY <1>2 DEF Left, CodeSets, NoCodes
<1> QED
  BY <1>1, <1>2

LEMMA BrowserSpent ==
    ASSUME IInv, SpentInv, NEW b \in Browsers, Browser(b) PROVE SpentInv'
<1>0. acct \in [Ids -> Accounts] /\ spent \in [Ids -> SUBSET Codes]
  BY DEF IInv, TypeOK
<1>1. CASE UNCHANGED <<acct, spent>>
  BY <1>1 DEF SpentInv
<1>2. CASE Drop(b) \/ Logout(b) \/ Open(b)
  BY <1>1, <1>2 DEF Drop, Logout, Open
<1>3. CASE Spend(b)
  <2> DEFINE u == flow[b].user
  <2>1. u \in Ids
    BY <1>3, Parts, FlowShape DEF Spend
  <2>2. /\ \/ acct' = acct
           \/ acct' = [acct EXCEPT ![u] = [acct[u] EXCEPT !.last = flow[b].step]]
        /\ spent' = spent
    BY <1>3 DEF Spend
  <2>3. acct[u] \in Accounts
    BY <2>1, Parts
  <2> HIDE DEF u
  <2> QED
    BY <1>1, <2>1, <2>2, <2>3, SpentRow DEF Accounts
<1>4. CASE Recover(b)
  <2> DEFINE u == flow[b].user
             c == flow[b].code
             d == Left(acct[u].codes, c)
  <2>1. u \in Ids
    BY <1>4, Parts, FlowShape DEF Recover
  <2>2. acct[u] \in Accounts
    BY <2>1, Parts
  <2>3. \/ acct' = acct /\ spent' = spent
        \/ /\ acct' = [acct EXCEPT ![u] = [acct[u] EXCEPT !.codes = d]]
           /\ spent' = [spent EXCEPT ![u] = spent[u] \cup {c}]
    BY <1>4 DEF Recover
  <2>4. acct[u].codes \in CodeSets
    BY <2>2 DEF Accounts
  <2>5. [acct[u] EXCEPT !.codes = d].codes = d
    BY <2>2 DEF Accounts
  <2>6. d.left \cap (spent[u] \cup {c}) = {}
    BY <2>1, <2>4, LeftOut DEF SpentInv
  <2> HIDE DEF u, c, d
  <2> QED
    BY <1>0, <1>1, <2>1, <2>3, <2>5, <2>6 DEF SpentInv
<1>5. CASE Setup(b)
  <2> DEFINE u == session[b].user
  <2>1. u \in Ids
    BY <1>5, Somebody DEF Setup, MayBind
  <2>2. acct' = [acct EXCEPT ![u] = [acct[u] EXCEPT !.pending = TRUE]]
        /\ spent' = spent
    BY <1>5 DEF Setup
  <2>3. acct[u] \in Accounts
    BY <2>1, Parts
  <2> HIDE DEF u
  <2> QED
    BY <2>1, <2>2, <2>3, SpentRow DEF Accounts
<1>6. CASE Bind(b)
  <2>1. flow[b].user \in Ids
    BY <1>6, Parts, FlowShape DEF Bind
  <2>2. PICK r : acct' = [acct EXCEPT ![flow[b].user] = r]
    BY <1>6, BindRow
  <2>3. spent' = [spent EXCEPT ![flow[b].user] = {}]
    BY <1>6 DEF Bind
  <2> QED
    BY <2>1, <2>2, <2>3, SpentRow
<1>7. CASE AddKey(b)
  <2> DEFINE u == flow[b].user
             new == flow[b].codes /\ acct[u].codes = NoCodes
             k == acct[u].keys + 1
             d == IF new THEN NewCodes(Fresh) ELSE acct[u].codes
             r == [acct[u] EXCEPT !.keys = k, !.codes = d]
  <2>1. u \in Ids
    BY <1>7, Parts, FlowShape DEF AddKey
  <2>2. acct[u] \in Accounts
    BY <2>1, Parts
  <2>3. acct' = [acct EXCEPT ![u] = r]
    BY <1>7 DEF AddKey, WithKey
  <2>4. spent' = [spent EXCEPT ![u] = IF new THEN {} ELSE spent[u]]
    BY <1>7 DEF AddKey
  <2>5. new \/ (spent' = spent /\ d = acct[u].codes)
    BY <1>0, <2>4
  <2>6. new => spent' = [spent EXCEPT ![u] = {}]
    BY <2>4
  <2>7. r.codes = d
    <3> HIDE DEF k, d
    <3> QED
      BY <2>2 DEF Accounts
  <2> HIDE DEF u, new, d, r
  <2> QED
    BY <2>1, <2>3, <2>5, <2>6, <2>7, SpentRow
<1>8. CASE ChangePassword(b)
  <2> DEFINE u == flow[b].user
  <2>1. u \in Ids
    BY <1>8, Parts, FlowShape DEF ChangePassword
  <2>2. acct' = [acct EXCEPT ![u] = [acct[u] EXCEPT !.change = FALSE]]
        /\ spent' = spent
    BY <1>8 DEF ChangePassword
  <2>3. acct[u] \in Accounts
    BY <2>1, Parts
  <2> HIDE DEF u
  <2> QED
    BY <2>1, <2>2, <2>3, SpentRow DEF Accounts
<1> QED
  BY <1>1, <1>2, <1>3, <1>4, <1>5, <1>6, <1>7, <1>8, Readers

LEMMA SpentKept == ASSUME IInv, SpentInv, [Next]_vars PROVE SpentInv'
<1>1. ASSUME NEW u \in Ids, Administers(u) PROVE SpentInv'
  BY <1>1, SpentRow DEF Administers
<1>2. ASSUME NEW u \in Ids, Adds(u) PROVE SpentInv'
  <2>1. PICK r : acct' = [acct EXCEPT ![u] = r] /\ r.codes.left = {}
    BY <1>2 DEF Adds
  <2>2. acct \in [Ids -> Accounts] /\ spent' = spent
    BY <1>2 DEF Adds, IInv, TypeOK
  <2> QED
    BY <2>1, <2>2 DEF SpentInv
<1>3. CASE UNCHANGED vars
  BY <1>3 DEF vars, SpentInv
<1> QED
  BY <1>1, <1>2, <1>3, BrowserSpent, OwnAdministers, RightsAdminister,
     AccountsAssumption DEF Next

THEOREM EarnedInvariance == Spec => []Earned
<1>1. Init => Earned
  <2> SUFFICES ASSUME Init PROVE SpentInv /\ MeantInv /\ KnownInv
    BY InitInvariant DEF Earned
  <2>1. SpentInv
    BY DEF Init, SpentInv
  <2>2. MeantInv
    BY DEF Init, MeantInv, Idle
  <2>3. KnownInv
    BY DEF Init, KnownInv
  <2> QED
    BY <2>1, <2>2, <2>3
<1>2. Earned /\ [Next]_vars => Earned'
  BY NextInvariant, SpentKept, KnownKept DEF Earned
<1> QED
  BY <1>1, <1>2, PTL DEF Spec

\* A request that waits to use a code opens a session by using it.
LEMMA RecoveringOpens ==
    ASSUME IInv, NEW b \in Browsers, Browser(b),
           flow[b].at = "recover", flow'[b].at = "open"
    PROVE  Recover(b)
<1>1. flow[b] # Idle
  BY DEF Idle
<1>2. ~(\E u \in Signers : Login(b, u) \/ KeyAnswer(b, u))
  BY <1>1 DEF Login, KeyAnswer
<1>3. ~(\E x \in 1..MaxStep : Code(b, x) \/ Confirm(b, x))
  BY <1>1 DEF Code, Confirm, MayBind
<1>4. ~(\E x \in Codes : Recovery(b, x))
  BY DEF Recovery
<1>5. ~Spend(b) /\ ~Bind(b) /\ ~AddKey(b) /\ ~ChangePassword(b)
  BY DEF Spend, Bind, AddKey, ChangePassword
<1>6. ~LoginKeys(b) /\ ~Open(b) /\ ~KeyChecked(b) /\ ~NewPassword(b)
  BY <1>1 DEF LoginKeys, Open, KeyChecked, NewPassword, MayBind
<1>7. ~Drop(b) /\ ~Logout(b) /\ ~Abandon(b) /\ ~Setup(b)
  BY <1>1, Parts DEF Drop, Logout, Abandon, Setup, MayBind, Idle
<1> QED
  BY <1>2, <1>3, <1>4, <1>5, <1>6, <1>7 DEF Browser

LEMMA CodeOnce ==
    ASSUME Earned, [Next]_vars, NEW b \in Browsers,
           flow[b].at = "recover", flow'[b].at = "open"
    PROVE  flow[b].code \notin spent[flow[b].user]
<1>0. IInv /\ SpentInv /\ MeantInv
  BY DEF Earned
<1>1. Recover(b)
  <2>1. flow'[b] # flow[b]
    OBVIOUS
  <2> QED
    BY <1>0, <2>1, OwnRequest, RecoveringOpens
<1>2. flow[b].user \in Ids
  BY <1>0, Parts, FlowShape
<1>3. acct[flow[b].user].codes = flow[b].codes
  <2> SUFFICES ASSUME acct[flow[b].user].codes # flow[b].codes PROVE FALSE
    OBVIOUS
  <2>1. Goes(b, [at |-> "ticket", user |-> flow[b].user])
    BY <1>1 DEF Recover
  <2> QED
    BY <1>0, <2>1, Parts DEF Goes
<1> QED
  BY <1>0, <1>2, <1>3 DEF MeantInv, SpentInv

\* A session that is as it was, of an account that stands as it did, is treated
\* as it was.
LEMMA SameStanding ==
    ASSUME NEW x \in Browsers, session'[x] = session[x],
           session[x].user \in Ids, Footing(session[x].user)
    PROVE  Standing(x)' = Standing(x)
<1> DEFINE a == acct[session[x].user]
<1>1. /\ a'.state = a.state /\ a'.admin = a.admin /\ a'.change = a.change
      /\ HasFactor(a') <=> HasFactor(a)
  BY DEF Footing
<1>2. Standing(x)' =
        IF session[x].user \notin Ids THEN "out"
        ELSE IF a'.state # "on" THEN "out"
        ELSE IF a'.change THEN "password"
        ELSE IF ~a'.admin \/ session[x].factor THEN "in"
        ELSE IF HasFactor(a') THEN "out" ELSE "totp"
  BY DEF Standing, HasFactor
<1>3. Standing(x) =
        IF session[x].user \notin Ids THEN "out"
        ELSE IF a.state # "on" THEN "out"
        ELSE IF a.change THEN "password"
        ELSE IF ~a.admin \/ session[x].factor THEN "in"
        ELSE IF HasFactor(a) THEN "out" ELSE "totp"
  BY DEF Standing
<1> HIDE DEF a
<1> QED
  BY <1>1, <1>2, <1>3

\* The session that is open and was not let in, and now is.
LetIn(x) == /\ session[x] # NoSession /\ Standing(x) # "in"
            /\ session'[x] # NoSession /\ Standing(x)' = "in"

\* What lets one in: a step of its own browser.
LEMMA OthersLetNobodyIn ==
    ASSUME IInv, NEW u \in Ids, NEW x \in Browsers,
           session[x] # NoSession, session'[x] = session[x],
           \/ acct' = acct
           \/ \E r : acct' = [acct EXCEPT ![u] = r] /\ session[x].user # u
    PROVE  ~LetIn(x)
<1>1. session[x].user \in Ids
  BY Parts DEF Sessions
<1>2. Footing(session[x].user)
  BY <1>1, OthersStand DEF Footing
<1> QED
  BY <1>1, <1>2, SameStanding DEF LetIn

LEMMA BrowserLets ==
    ASSUME IInv, NEW c \in Browsers, Browser(c), NEW x \in Browsers, LetIn(x)
    PROVE  Open(x) \/ Bind(x) \/ AddKey(x) \/ ChangePassword(x)
<1>0. /\ session \in [Browsers -> Sessions] /\ session[x].user \in Ids
      /\ session[x] # NoSession /\ session'[x] # NoSession
  BY Parts DEF LetIn, Sessions
<1>1. CASE UNCHANGED <<acct, session>>
  BY <1>0, <1>1, OthersLetNobodyIn
<1>2. CASE Drop(c) \/ Logout(c)
  <2>1. session'[x] \in {NoSession, session[x]} /\ acct' = acct
    BY <1>0, <1>2 DEF Drop, Logout
  <2> QED
    BY <1>0, <2>1, OthersLetNobodyIn
<1>3. CASE Open(c)
  <2>1. x # c => session'[x] = session[x]
    BY <1>0, <1>3 DEF Open
  <2>2. acct' = acct
    BY <1>3 DEF Open
  <2> QED
    BY <1>0, <1>3, <2>1, <2>2, OthersLetNobodyIn
<1>4. CASE Spend(c) \/ Recover(c) \/ Setup(c)
  <2>1. session' = session
    BY <1>4 DEF Spend, Recover, Setup
  <2>2. Footing(session[x].user)
    BY <1>0, <1>4, SpendFooting
  <2> QED
    BY <1>0, <2>1, <2>2, SameStanding DEF LetIn
<1>5. ASSUME NEW u \in Ids, NEW r, acct' = [acct EXCEPT ![u] = r], x # c,
             session'[x] = Closed(u, {c})[x]
      PROVE  FALSE
  <2>1. session'[x] = session[x] /\ session[x].user # u
    BY <1>0, <1>5, ClosedOf
  <2> QED
    BY <1>0, <1>5, <2>1, OthersLetNobodyIn
<1>6. \A u : Closed(u, {c}) \in [Browsers -> Sessions]
  BY <1>0, SessionShape
<1>7. CASE Bind(c)
  <2>1. flow[c].user \in Ids
    BY <1>7, Parts, FlowShape DEF Bind
  <2>2. PICK r : acct' = [acct EXCEPT ![flow[c].user] = r]
    BY <1>7, BindRow
  <2>3. session' = Vouched(c, Closed(flow[c].user, {c}))
    BY <1>7 DEF Bind
  <2>4. x # c => session'[x] = Closed(flow[c].user, {c})[x]
    BY <1>6, <2>3, VouchedOf
  <2> QED
    BY <1>5, <1>7, <2>1, <2>2, <2>4
<1>8. CASE AddKey(c)
  <2> DEFINE u == flow[c].user
  <2>1. u \in Ids
    BY <1>8, Parts, FlowShape DEF AddKey
  <2>2. PICK r : /\ acct' = [acct EXCEPT ![u] = r] /\ HasFactor(r)
                 /\ r.state = acct[u].state /\ r.admin = acct[u].admin
                 /\ r.change = acct[u].change
    BY <1>8, AddKeyRow
  <2>3. CASE HasFactor(acct[u])
    <3>1. session' = Vouched(c, session)
      BY <1>8, <2>3 DEF AddKey
    <3>2. x # c => session'[x] = session[x]
      BY <1>0, <3>1, VouchedOf
    <3>3. Footing(session[x].user)
      <4> HIDE DEF u
      <4> QED
        BY <1>0, <2>1, <2>2, <2>3, OthersStand DEF Footing
    <3> QED
      BY <1>0, <1>8, <3>2, <3>3, SameStanding DEF LetIn
  <2>4. CASE ~HasFactor(acct[u])
    <3>1. session' = Vouched(c, Closed(u, {c}))
      BY <1>8, <2>4 DEF AddKey
    <3>2. x # c => session'[x] = Closed(u, {c})[x]
      BY <1>6, <3>1, VouchedOf
    <3> QED
      BY <1>5, <1>8, <2>1, <2>2, <3>2
  <2> QED
    BY <2>3, <2>4
<1>9. CASE ChangePassword(c)
  <2>1. flow[c].user \in Ids
    BY <1>9, Parts, FlowShape DEF ChangePassword
  <2>2. PICK r : acct' = [acct EXCEPT ![flow[c].user] = r]
    BY <1>9 DEF ChangePassword
  <2>3. session' = Closed(flow[c].user, {c})
    BY <1>9 DEF ChangePassword
  <2> QED
    BY <1>5, <1>9, <2>1, <2>2, <2>3
<1> QED
  BY <1>1, <1>2, <1>3, <1>4, <1>7, <1>8, <1>9, Readers

LEMMA OnlyItself ==
    ASSUME Earned, [Next]_vars, NEW x \in Browsers, LetIn(x)
    PROVE  Open(x) \/ Bind(x) \/ AddKey(x) \/ ChangePassword(x)
<1>0. IInv /\ KnownInv
  BY DEF Earned
<1>1. session[x] # NoSession /\ session'[x] # NoSession /\ Standing(x) # "in"
  BY DEF LetIn
<1>2. ASSUME NEW u \in Ids, Administers(u) PROVE FALSE
  <2>1. PICK keep, r : /\ session' = Closed(u, keep) /\ AreIn(keep)
                       /\ acct' = [acct EXCEPT ![u] = r]
    BY <1>2 DEF Administers
  <2>2. x \notin keep
    BY <1>1, <2>1 DEF AreIn
  <2>3. session'[x] = session[x] /\ session[x].user # u
    BY <1>1, <2>1, <2>2, ClosedOf
  <2> QED
    BY <1>0, <1>1, <2>1, <2>3, OthersLetNobodyIn
<1>3. ASSUME NEW u \in Ids, Adds(u) PROVE FALSE
  <2>1. PICK r : acct' = [acct EXCEPT ![u] = r]
    BY <1>3 DEF Adds
  <2>2. session'[x] = session[x] /\ session[x].user # u
    BY <1>0, <1>1, <1>3 DEF Adds, KnownInv
  <2> QED
    BY <1>0, <1>1, <2>1, <2>2, OthersLetNobodyIn
<1>4. CASE UNCHANGED vars
  <2>1. Standing(x)' = Standing(x)
    BY <1>4 DEF vars, Standing, HasFactor
  <2> QED
    BY <2>1 DEF LetIn
<1> QED
  BY <1>0, <1>2, <1>3, <1>4, BrowserLets, OwnAdministers, RightsAdminister,
     AccountsAssumption DEF Next

\* Every session is earned by what its own browser proved.  A recovery code is
\* looked for among those the account still holds in the statement that takes
\* it out, so it counts once; and every change that could let a waiting session
\* in - a factor bound or lost, a role, a password, an account enabled - closes
\* it, or was made in the session's own browser.
THEOREM SessionsEarned == Spec => SessionsAreEarned
<1>1. Earned /\ [Next]_vars
        => [\A b \in Browsers : flow[b].at = "recover" /\ flow'[b].at = "open"
              => flow[b].code \notin spent[flow[b].user]]_vars
  BY CodeOnce
<1>2. Earned /\ [Next]_vars
        => [\A b \in Browsers :
              /\ session[b] # NoSession /\ Standing(b) # "in"
              /\ session'[b] # NoSession /\ Standing(b)' = "in"
              => Open(b) \/ Bind(b) \/ AddKey(b) \/ ChangePassword(b)]_vars
  BY OnlyItself DEF LetIn
<1>3. Spec => RecoveryOnce
  BY <1>1, EarnedInvariance, PTL DEF Spec, RecoveryOnce
<1>4. Spec => NobodyElseLetsIn
  BY <1>2, EarnedInvariance, PTL DEF Spec, NobodyElseLetsIn
<1> QED
  BY <1>3, <1>4, PTL DEF SessionsAreEarned
=============================================================================
