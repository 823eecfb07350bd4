--------------------------- MODULE Subscriptions ---------------------------
(***************************************************************************)
(* Personal notifications of moonlan/subscriptions.py for one account: the *)
(* six-digit code that proves a mailbox, with requests of several pages in *)
(* threads of their own, and the link that proves a Telegram chat, read by *)
(* one getUpdates loop that lives while a link waits.                      *)
(*                                                                         *)
(* Every database call is atomic and takes place in a thread; what a       *)
(* request has read is its own until its next call.  The two channels      *)
(* share nothing but the tables, so a behaviour follows one of them.       *)
(***************************************************************************)
EXTENDS Naturals, FiniteSets, Sequences

CONSTANTS
    Channels,      \* subset of {"email", "telegram"}
    Pages,         \* pages the account has open
    Addresses,     \* mailboxes it may name
    CodeAttempts,  \* CODE_ATTEMPTS
    CodesPerHour,  \* CODES_PER_HOUR
    Nobody,        \* no subscription, no code
    MaxCodes,      \* bound: codes and links made
    MaxUpdates,    \* bound: messages to the bot
    MaxStops       \* bound: restarts

ASSUME SubscriptionsAssumption ==
    /\ Channels \subseteq {"email", "telegram"} /\ IsFiniteSet(Pages)
    /\ {CodeAttempts, CodesPerHour} \subseteq Nat \ {0}
    /\ {MaxCodes, MaxUpdates, MaxStops} \subseteq Nat

VARIABLES
    channel,   \* the channel this behaviour is about
    code,      \* subscription_codes: the account's row of the channel
    sub,       \* subscriptions: the confirmed address, or Nobody
    page,      \* what each page's request is doing
    sent,      \* _codes_sent: in the last minute, in the last hour
    made,      \* codes and links made so far: each has a number of its own
    known,     \* what reached the person: <<address, number>>
    proved,    \* history: addresses whose code came back, chats that opened
    asked,     \* history: codes made in the last minute
    poll,      \* the getUpdates loop
    conflict,  \* the bot is somebody else's
    bot,       \* messages to the bot, and how far Telegram has dropped them
    offset,    \* getUpdates' own, one more than the last update seen
    missed,    \* history: a link came as the loop was about to end
    stops

mail == <<sent, asked>>
loop == <<poll, conflict, bot, offset, missed, stops>>
vars == <<channel, code, sub, page, sent, made, known, proved, asked, poll,
          conflict, bot, offset, missed, stops>>

Numbers == 1..MaxCodes
Code(address, n) ==
    [address |-> address, number |-> n, attempts |-> 0, expired |-> FALSE,
     refused |-> FALSE]
CodeRows == [address : Addresses \cup {Nobody}, number : Numbers,
             \* wrong codes cross the burning of the code, or a restart does
             attempts : 0..(CodeAttempts + Cardinality(Pages) * (MaxStops + 1)),
             expired : BOOLEAN, refused : BOOLEAN]

Idle == [at |-> "idle", address |-> Nobody, number |-> 0]
Requests == [at : {"idle", "put", "count", "mail", "undo", "made",
                   "compare", "confirm", "wrong", "burn"},
             address : Addresses \cup {Nobody},
             number : 0..MaxCodes]
Goes(p, request) == page' = [page EXCEPT ![p] = request]

Updates == [number : Numbers, chat : {"private", "group"}]
Quiet == [at |-> "none", batch |-> <<>>, number |-> 0]

\* a link that is not used and not expired
Waits == channel = "telegram" /\ code # Nobody /\ ~code.expired

----------------------------------------------------------------------------
\* send_code: a minute since the last one, and not too many this hour
\* mutant: the hour's limit alone
AllowedByHour == sent.hour < CodesPerHour
CodesAllowed == sent.minute = 0 /\ sent.hour < CodesPerHour

AskCode(p, a) ==
    /\ channel = "email" /\ page[p] = Idle /\ CodesAllowed
    /\ Goes(p, [Idle EXCEPT !.at = "put", !.address = a])
    /\ UNCHANGED <<channel, code, sub, mail, made, known, proved, loop>>

PutCode(p) ==
    /\ page[p].at = "put" /\ made < MaxCodes
    /\ made' = made + 1
    /\ code' = Code(page[p].address, made + 1)
    /\ asked' = asked + 1
    /\ known' = {}
    /\ Goes(p, [page[p] EXCEPT !.at = "count", !.number = made + 1])
    /\ UNCHANGED <<channel, sub, sent, proved, loop>>

\* the time is noted after the code is stored, whether it will arrive or not
CountCode(p) ==
    /\ page[p].at = "count"
    /\ sent' = [minute |-> sent.minute + 1, hour |-> sent.hour + 1]
    /\ Goes(p, [page[p] EXCEPT !.at = "mail"])
    /\ UNCHANGED <<channel, code, sub, made, known, proved, asked, loop>>

\* a code replaced meanwhile is of no use to the person
MailArrives(p) ==
    /\ page[p].at = "mail"
    /\ known' = known \cup {<<page[p].address, n>> :
                   n \in {m \in {page[p].number} : code # Nobody /\ code.number = m}}
    /\ Goes(p, Idle)
    /\ UNCHANGED <<channel, code, sub, mail, made, proved, loop>>

MailFails(p) ==
    /\ page[p].at = "mail"
    /\ Goes(p, [Idle EXCEPT !.at = "undo"])
    /\ UNCHANGED <<channel, code, sub, mail, made, known, proved, loop>>

\* drop_code, whatever code the account has by now
UndoCode(p) ==
    /\ page[p].at = "undo"
    /\ code' = Nobody /\ Goes(p, Idle)
    /\ UNCHANGED <<channel, sub, mail, made, known, proved, loop>>

\* confirm_code: the row is read, and a code the person has, or another one,
\* is compared with it
Reached(n) == \E a \in Addresses : <<a, n>> \in known

EnterCode(p, right) ==
    /\ channel = "email" /\ page[p] = Idle /\ code # Nobody
    /\ right => Reached(code.number)
    /\ IF code.expired
       THEN code' = Nobody /\ UNCHANGED <<page, proved>>
       ELSE /\ UNCHANGED code
            /\ Goes(p, IF right
                       THEN [Idle EXCEPT !.at = "confirm", !.address = code.address]
                       ELSE [Idle EXCEPT !.at = "wrong"])
            /\ proved' = proved \cup
                 {a \in Addresses : right /\ <<a, code.number>> \in known}
    /\ UNCHANGED <<channel, sub, mail, made, known, loop>>

\* confirm_subscription: the address read with the code, and the code gone
\* mutant: the address of the code the account has now
ProvenNow(p) == IF code = Nobody THEN page[p].address ELSE code.address
Proven(p) == page[p].address

ConfirmCode(p) ==
    /\ page[p].at = "confirm"
    /\ sub' = Proven(p) /\ code' = Nobody /\ Goes(p, Idle)
    /\ UNCHANGED <<channel, mail, made, known, proved, loop>>

\* mutant: a wrong code is only counted
WrongNeverBurns(p) ==
    /\ page[p].at = "wrong" /\ Goes(p, Idle)
    /\ code' = IF code = Nobody THEN code ELSE [code EXCEPT !.attempts = @ + 1]
    /\ UNCHANGED <<channel, sub, mail, made, known, proved, loop>>

\* code_failed; the fifth wrong one burns the code
WrongCode(p) ==
    /\ page[p].at = "wrong"
    /\ IF code = Nobody THEN UNCHANGED code /\ Goes(p, Idle)
       ELSE /\ code' = [code EXCEPT !.attempts = @ + 1]
            /\ Goes(p, IF code.attempts + 1 >= CodeAttempts
                       THEN [Idle EXCEPT !.at = "burn"] ELSE Idle)
    /\ UNCHANGED <<channel, sub, mail, made, known, proved, loop>>

BurnCode(p) ==
    /\ page[p].at = "burn"
    /\ code' = Nobody /\ Goes(p, Idle)
    /\ UNCHANGED <<channel, sub, mail, made, known, proved, loop>>

\* remove: the subscription and the code that waits
Remove(p) ==
    /\ page[p] = Idle /\ (sub # Nobody \/ code # Nobody)
    /\ sub' = Nobody /\ code' = Nobody
    /\ UNCHANGED <<channel, page, mail, made, known, proved, loop>>

Expires ==
    /\ code # Nobody /\ ~code.expired
    /\ code' = [code EXCEPT !.expired = TRUE]
    /\ UNCHANGED <<channel, sub, page, mail, made, known, proved, loop>>

MinutePasses ==
    /\ sent.minute > 0 \/ sent.hour > 0
    /\ asked' = 0
    /\ \/ sent' = [sent EXCEPT !.minute = 0]
       \/ sent' = [minute |-> 0, hour |-> 0]
    /\ \A p \in Pages : page[p].at \notin {"put", "count"}
    /\ UNCHANGED <<channel, code, sub, page, made, known, proved, loop>>

----------------------------------------------------------------------------
\* start_link: a key for the person, in place of the one before it
StartLink(p) ==
    /\ channel = "telegram" /\ page[p] = Idle /\ made < MaxCodes
    /\ made' = made + 1
    /\ code' = Code(Nobody, made + 1)
    /\ known' = known \cup {<<Nobody, made + 1>>}
    /\ Goes(p, [Idle EXCEPT !.at = "made"])
    /\ UNCHANGED <<channel, sub, mail, proved, loop>>

\* ensure_polling, back on the event loop
EnsurePolling(p) ==
    /\ page[p].at = "made"
    /\ Goes(p, Idle)
    /\ poll' = IF poll = Quiet THEN [Quiet EXCEPT !.at = "ask"] ELSE poll
    /\ missed' = IF poll = Quiet THEN FALSE
                 ELSE (missed \/ poll.at = "leave")
    /\ UNCHANGED <<channel, code, sub, mail, made, known, proved, conflict,
                   bot, offset, stops>>

\* the person opens a link they were given, in a chat or in a group
PressStart(n, chat) ==
    /\ channel = "telegram" /\ <<Nobody, n>> \in known
    /\ Len(bot.sent) < MaxUpdates
    /\ bot' = [bot EXCEPT !.sent = Append(@, [number |-> n, chat |-> chat])]
    /\ UNCHANGED <<channel, code, sub, page, mail, made, known, proved, poll,
                   conflict, offset, missed, stops>>

\* mutant: a link out of date counts as waiting
AskAnyLink ==
    /\ poll.at = "ask"
    /\ poll' = [poll EXCEPT !.at = IF code # Nobody THEN "get" ELSE "leave"]
    /\ UNCHANGED <<channel, code, sub, page, mail, made, known, proved,
                   conflict, bot, offset, missed, stops>>

\* poll: the links that wait, read in a thread; the loop hears of it after
AskLinks ==
    /\ poll.at = "ask"
    /\ poll' = [poll EXCEPT !.at = IF Waits THEN "get" ELSE "leave"]
    /\ UNCHANGED <<channel, code, sub, page, mail, made, known, proved,
                   conflict, bot, offset, missed, stops>>

LoopEnds ==
    /\ poll.at = "leave" /\ poll' = Quiet
    /\ UNCHANGED <<channel, code, sub, page, mail, made, known, proved,
                   conflict, bot, offset, missed, stops>>

\* getUpdates with the offset: Telegram drops what is below it and answers
\* the rest
Dropped == IF offset > bot.dropped + 1 THEN offset - 1 ELSE bot.dropped

GetUpdates ==
    /\ poll.at = "get"
    /\ bot' = [bot EXCEPT !.dropped = Dropped]
    /\ conflict' = FALSE
    /\ poll' = [poll EXCEPT !.at = "handle",
                  !.batch = [i \in 1..(Len(bot.sent) - Dropped) |-> Dropped + i]]
    /\ UNCHANGED <<channel, code, sub, page, mail, made, known, proved,
                   offset, missed, stops>>

\* an error: again in five seconds; 409 Conflict: the loop ends
GetFails ==
    /\ poll.at = "get" /\ poll' = [poll EXCEPT !.at = "ask"]
    /\ UNCHANGED <<channel, code, sub, page, mail, made, known, proved,
                   conflict, bot, offset, missed, stops>>

Conflict409 ==
    /\ poll.at = "get" /\ poll' = Quiet /\ conflict' = TRUE
    /\ UNCHANGED <<channel, code, sub, page, mail, made, known, proved, bot,
                   offset, missed, stops>>

\* handle_update finds the row of the key: not one of ours, out of date, or
\* opened in a group, and that is all; a private chat is confirmed next
\* mutant: the offset skips the update after the one seen
OffsetSkips(i) == IF i + 2 > offset THEN i + 2 ELSE offset
Seen(i) == IF i + 1 > offset THEN i + 1 ELSE offset
Update(i) == bot.sent[i]
Ours(u) == code # Nobody /\ code.number = u.number

HandleUpdate ==
    /\ poll.at = "handle" /\ poll.batch # <<>>
    /\ LET i == Head(poll.batch)
           u == Update(i)
           private == Ours(u) /\ ~code.expired /\ u.chat = "private" IN
       /\ offset' = Seen(i)
       /\ poll' = [poll EXCEPT !.batch = Tail(@),
                               !.at = IF private THEN "connect" ELSE "handle",
                               !.number = IF private THEN u.number ELSE 0]
       /\ code' = IF Ours(u) /\ ~code.expired /\ u.chat = "group"
                  THEN [code EXCEPT !.refused = TRUE] ELSE code
       /\ proved' = IF private THEN proved \cup {u.number} ELSE proved
    /\ UNCHANGED <<channel, sub, page, mail, made, known, conflict, bot,
                   missed, stops>>

ConnectChat ==
    /\ poll.at = "connect"
    /\ sub' = poll.number /\ code' = Nobody
    /\ poll' = [poll EXCEPT !.at = "handle", !.number = 0]
    /\ UNCHANGED <<channel, page, mail, made, known, proved, conflict, bot,
                   offset, missed, stops>>

BatchDone ==
    /\ poll.at = "handle" /\ poll.batch = <<>>
    /\ poll' = [poll EXCEPT !.at = "ask"]
    /\ UNCHANGED <<channel, code, sub, page, mail, made, known, proved,
                   conflict, bot, offset, missed, stops>>

\* mutant: the loop is not started again
RestartQuiet ==
    /\ stops < MaxStops /\ stops' = stops + 1
    /\ page' = [p \in Pages |-> Idle]
    /\ sent' = [minute |-> 0, hour |-> 0] /\ asked' = 0
    /\ poll' = Quiet
    /\ conflict' = FALSE /\ offset' = 0 /\ missed' = FALSE
    /\ UNCHANGED <<channel, code, sub, made, known, proved, bot>>

\* the service stops anywhere and starts: requests and the loop are gone,
\* and the loop starts again if a link waits
Restart ==
    /\ stops < MaxStops /\ stops' = stops + 1
    /\ page' = [p \in Pages |-> Idle]
    /\ sent' = [minute |-> 0, hour |-> 0] /\ asked' = 0
    /\ poll' = IF Waits THEN [Quiet EXCEPT !.at = "ask"] ELSE Quiet
    /\ conflict' = FALSE /\ offset' = 0 /\ missed' = FALSE
    /\ UNCHANGED <<channel, code, sub, made, known, proved, bot>>

----------------------------------------------------------------------------
Init ==
    /\ channel \in Channels
    /\ code = Nobody /\ sub = Nobody
    /\ page = [p \in Pages |-> Idle]
    /\ sent = [minute |-> 0, hour |-> 0] /\ asked = 0
    /\ made = 0 /\ known = {} /\ proved = {}
    /\ poll = Quiet /\ conflict = FALSE
    /\ bot = [sent |-> <<>>, dropped |-> 0] /\ offset = 0
    /\ missed = FALSE /\ stops = 0

Request(p) ==
    \/ PutCode(p) \/ CountCode(p) \/ MailArrives(p) \/ MailFails(p)
    \/ UndoCode(p) \/ ConfirmCode(p) \/ WrongCode(p) \/ BurnCode(p)
    \/ EnsurePolling(p)

PollStep == AskLinks \/ LoopEnds \/ GetUpdates \/ HandleUpdate \/ ConnectChat
            \/ BatchDone

Next ==
    \/ \E p \in Pages :
          \/ Request(p) \/ Remove(p) \/ StartLink(p)
          \/ \E a \in Addresses : AskCode(p, a)
          \/ \E right \in BOOLEAN : EnterCode(p, right)
    \/ Expires \/ MinutePasses
    \/ \E n \in Numbers, chat \in {"private", "group"} : PressStart(n, chat)
    \/ PollStep \/ GetFails \/ Conflict409 \/ Restart

Spec == Init /\ [][Next]_vars

\* threads and the event loop go on, and an answer of Telegram comes through
\* sooner or later; people do what they like
FairSpec ==
    /\ Spec
    /\ \A p \in Pages : WF_vars(Request(p))
    /\ WF_vars(AskLinks \/ LoopEnds \/ HandleUpdate \/ ConnectChat \/ BatchDone)
    /\ SF_vars(GetUpdates)

----------------------------------------------------------------------------
\* The variables stay in their ranges, and a code or link is one of those made.
TypeOK ==
    /\ channel \in Channels /\ made \in 0..MaxCodes
    /\ code # Nobody => code \in CodeRows /\ code.number <= made
    /\ page \in [Pages -> Requests]
    /\ sent.minute <= sent.hour
    /\ Len(bot.sent) <= MaxUpdates /\ bot.dropped <= Len(bot.sent)
    /\ Len(poll.batch) <= MaxUpdates

\* Nothing is sent to an address but the confirmation until it is confirmed
\* (subscriptions.py:3-6): the address of a subscription is one whose own
\* code came back, or a private chat that opened a link of this account,
\* however requests, removals and new codes cross each other.
AddressProved == sub # Nobody => sub \in proved

\* The limits on codes (subscriptions.py:43-46) hold up to the requests that
\* passed the check together: never more in a minute than pages are open.
CodesBounded ==
    /\ asked <= Cardinality(Pages)
    /\ sent.hour < CodesPerHour + Cardinality(Pages)

\* While a link waits, one getUpdates loop runs (subscriptions.py:12-16,
\* 325-337), through restarts and links made one after another; but for a bot
\* that is somebody else's, and a link made in the moment the loop ends.
LinkIsWatched ==
    Waits /\ (\A p \in Pages : page[p] = Idle)
        => poll # Quiet \/ conflict \/ missed

\* Whoever opens the link that waits in a private chat is connected, unless
\* the link is replaced, removed or out of date before that, or nobody can
\* read the bot.
PressIsAnswered ==
    \A n \in Numbers :
        (Waits /\ code.number = n /\ poll # Quiet
         /\ \E i \in 1..Len(bot.sent) :
               i > bot.dropped /\ i >= offset
               /\ bot.sent[i] = [number |-> n, chat |-> "private"])
        ~> (sub = n \/ code = Nobody \/ conflict \/ missed \/ stops > 0
            \/ (code # Nobody /\ (code.number # n \/ code.expired)))

\* With no link waiting the loop stops (subscriptions.py:13).
LoopStops == <>[](~Waits) => <>[](poll = Quiet)

\* Codes keep their limits and links their loop, whatever crosses what.
CodesAndLinks == TypeOK /\ CodesBounded /\ LinkIsWatched

\* The Telegram loop answers whoever opens the link, and stops when none waits.
LoopServes == PressIsAnswered /\ LoopStops
=============================================================================
