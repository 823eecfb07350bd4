------------------------ MODULE SubscriptionsProofs ------------------------
(***************************************************************************)
(* The safety of personal notifications for any pages, addresses, limits   *)
(* and bounds: what a subscription's address has proved, how many codes    *)
(* are made, and that somebody listens while a link waits.                 *)
(***************************************************************************)
EXTENDS Subscriptions, FiniteSetTheorems, SequenceTheorems, TLAPS

Rows == [address : Addresses \cup {Nobody}, number : Numbers, attempts : Nat,
         expired : BOOLEAN, refused : BOOLEAN]
Loops == [at : {"none", "ask", "leave", "get", "handle", "connect"},
          batch : Seq(Nat), number : Nat]

\* The variables' shapes, but for how many wrong codes a row has seen.
PagesTyped ==
    /\ channel \in Channels /\ made \in 0..MaxCodes /\ stops \in 0..MaxStops
    /\ code # Nobody => code \in Rows /\ code.number <= made
    /\ page \in [Pages -> Requests]
    /\ sent \in [minute : Nat, hour : Nat] /\ sent.minute <= sent.hour
    /\ asked \in Nat

\* Telegram's side: what was dropped, seen and fetched was sent.
LoopTyped ==
    /\ bot \in [sent : Seq(Updates), dropped : Nat]
    /\ Len(bot.sent) <= MaxUpdates /\ bot.dropped <= Len(bot.sent)
    /\ offset \in Nat /\ offset <= Len(bot.sent) + 1
    /\ poll \in Loops /\ (poll.at = "none" => poll = Quiet)
    /\ Len(poll.batch) <= MaxUpdates
    /\ \A i \in 1..Len(poll.batch) : poll.batch[i] \in 1..Len(bot.sent)
    /\ conflict \in BOOLEAN /\ missed \in BOOLEAN

-----------------------------------------------------------------------------
(* Types *)

LEMMA PagesTypedStep == ASSUME PagesTyped, [Next]_vars PROVE PagesTyped'
<1> USE SubscriptionsAssumption DEF PagesTyped, mail, loop
<1>1. Idle \in Requests
  BY DEF Idle, Requests
<1>2. ASSUME NEW p \in Pages, Request(p) PROVE PagesTyped'
  <2>1. page[p] \in Requests
    OBVIOUS
  <2>2. CASE PutCode(p)
    <3>1. code' \in Rows /\ code'.number = made' /\ made' \in 0..MaxCodes
      <4>1. made' = made + 1 /\ made' \in 1..MaxCodes
        BY <2>2 DEF PutCode
      <4>2. page[p].address \in Addresses \cup {Nobody}
        BY <2>1 DEF Requests
      <4>3. code' = [address |-> page[p].address, number |-> made', attempts |-> 0,
                     expired |-> FALSE, refused |-> FALSE]
        BY <2>2, <4>1 DEF PutCode, Code
      <4> QED
        BY <4>1, <4>2, <4>3 DEF Rows, Numbers
    <3>2. [page[p] EXCEPT !.at = "count", !.number = made + 1] \in Requests
      <4>1. PICK n \in 0..MaxCodes : n = made + 1
        BY <2>2 DEF PutCode
      <4>2. [page[p] EXCEPT !.at = "count", !.number = n] \in Requests
        BY <2>1 DEF Requests
      <4> QED
        BY <4>1, <4>2
    <3> QED
      BY <2>2, <3>1, <3>2 DEF PutCode, Goes
  <2>3. CASE CountCode(p)
    <3>1. [page[p] EXCEPT !.at = "mail"] \in Requests
      BY <2>1 DEF Requests
    <3> QED
      BY <2>3, <3>1 DEF CountCode, Goes
  <2>4. CASE MailArrives(p) \/ MailFails(p) \/ UndoCode(p) \/ ConfirmCode(p)
             \/ BurnCode(p) \/ EnsurePolling(p)
    <3>1. [Idle EXCEPT !.at = "undo"] \in Requests
      BY DEF Idle, Requests
    <3>2. page' \in [Pages -> Requests]
      BY <1>1, <2>4, <3>1 DEF MailArrives, MailFails, UndoCode, ConfirmCode,
         BurnCode, EnsurePolling, Goes
    <3> QED
      BY <2>4, <3>2 DEF MailArrives, MailFails, UndoCode, ConfirmCode,
         BurnCode, EnsurePolling
  <2>5. CASE WrongCode(p)
    <3>1. [Idle EXCEPT !.at = "burn"] \in Requests
      BY DEF Idle, Requests
    <3>2. code # Nobody => /\ [code EXCEPT !.attempts = @ + 1] \in Rows
                           /\ [code EXCEPT !.attempts = @ + 1].number = code.number
      BY DEF Rows
    <3>3. page' \in [Pages -> Requests]
      BY <1>1, <2>5, <3>1 DEF WrongCode, Goes
    <3> QED
      BY <2>5, <3>2, <3>3 DEF WrongCode
  <2> QED
    BY <1>2, <2>2, <2>3, <2>4, <2>5 DEF Request
<1>3. ASSUME NEW p \in Pages, Remove(p) PROVE PagesTyped'
  BY <1>3 DEF Remove
<1>4. ASSUME NEW p \in Pages, StartLink(p) PROVE PagesTyped'
  <2>1. code' \in Rows /\ code'.number = made' /\ made' \in 0..MaxCodes
    <3>1. made' = made + 1 /\ made' \in 1..MaxCodes
      BY <1>4 DEF StartLink
    <3>2. code' = [address |-> Nobody, number |-> made', attempts |-> 0,
                   expired |-> FALSE, refused |-> FALSE]
      BY <1>4, <3>1 DEF StartLink, Code
    <3> QED
      BY <3>1, <3>2 DEF Rows, Numbers
  <2>2. [Idle EXCEPT !.at = "made"] \in Requests
    BY DEF Idle, Requests
  <2> QED
    BY <1>4, <2>1, <2>2 DEF StartLink, Goes
<1>5. ASSUME NEW p \in Pages, NEW box \in Addresses, AskCode(p, box)
      PROVE  PagesTyped'
  <2>1. [Idle EXCEPT !.at = "put"] \in Requests
    BY DEF Idle, Requests
  <2>2. [Idle EXCEPT !.at = "put", !.address = box] \in Requests
    BY <2>1 DEF Requests
  <2> QED
    BY <1>5, <2>2 DEF AskCode, Goes
<1>6. ASSUME NEW p \in Pages, NEW right \in BOOLEAN, EnterCode(p, right)
      PROVE  PagesTyped'
  <2>1. /\ code \in Rows
        /\ [Idle EXCEPT !.at = "confirm", !.address = code.address] \in Requests
        /\ [Idle EXCEPT !.at = "wrong"] \in Requests
    BY <1>6 DEF EnterCode, Idle, Requests, Rows
  <2>2. page' \in [Pages -> Requests]
    BY <1>6, <2>1 DEF EnterCode, Goes
  <2> QED
    BY <1>6, <2>2 DEF EnterCode
<1>7. CASE Expires
  <2>1. /\ [code EXCEPT !.expired = TRUE] \in Rows
        /\ [code EXCEPT !.expired = TRUE].number = code.number
    BY <1>7 DEF Expires, Rows
  <2> QED
    BY <1>7, <2>1 DEF Expires
<1>8. CASE MinutePasses
  BY <1>8 DEF MinutePasses
<1>9. CASE HandleUpdate
  <2>1. code # Nobody => /\ [code EXCEPT !.refused = TRUE] \in Rows
                         /\ [code EXCEPT !.refused = TRUE].number = code.number
    BY DEF Rows
  <2>2. code' = code \/ (code # Nobody /\ code' = [code EXCEPT !.refused = TRUE])
    BY <1>9 DEF HandleUpdate, Ours
  <2> QED
    BY <1>9, <2>1, <2>2 DEF HandleUpdate
<1>10. CASE Restart
  BY <1>1, <1>10 DEF Restart
<1>11. CASE \/ AskLinks \/ LoopEnds \/ GetUpdates \/ ConnectChat \/ BatchDone
            \/ GetFails \/ Conflict409 \/ UNCHANGED vars
            \/ \E n \in Numbers, chat \in {"private", "group"} : PressStart(n, chat)
  BY <1>11 DEF AskLinks, LoopEnds, GetUpdates, ConnectChat, BatchDone,
     GetFails, Conflict409, PressStart, vars
<1> QED
  BY <1>2, <1>3, <1>4, <1>5, <1>6, <1>7, <1>8, <1>9, <1>10, <1>11
     DEF Next, PollStep

\* getUpdates answers with what was sent since the last message dropped.
LEMMA FetchedTyped ==
    ASSUME NEW n \in Nat, NEW d \in 0..n
    PROVE  LET batch == [i \in 1..(n - d) |-> d + i]
           IN  /\ batch \in Seq(Nat) /\ Len(batch) = n - d
               /\ \A i \in 1..(n - d) : batch[i] \in 1..n
<1> DEFINE batch == [i \in 1..(n - d) |-> d + i]
<1>1. n - d \in Nat
  OBVIOUS
<1>2. \A i \in 1..(n - d) : batch[i] \in 1..n
  OBVIOUS
<1>3. batch \in [1..(n - d) -> Nat]
  OBVIOUS
<1>4. batch \in Seq(Nat)
  BY <1>1, <1>3, SeqDef
<1>5. 1..Len(batch) = 1..(n - d) /\ Len(batch) \in Nat
  BY <1>4, LenProperties
<1>6. Len(batch) = n - d
  BY <1>1, <1>5
<1> QED
  BY <1>2, <1>4, <1>6

LEMMA QuietTyped ==
    /\ Quiet \in Loops /\ Len(Quiet.batch) = 0 /\ Quiet.at = "none"
    /\ [Quiet EXCEPT !.at = "ask"] \in Loops
    /\ Len([Quiet EXCEPT !.at = "ask"].batch) = 0
    /\ [Quiet EXCEPT !.at = "ask"].at = "ask"
<1>1. <<>> \in Seq(Nat) /\ Len(<<>>) = 0
  BY EmptySeq
<1>2. Quiet \in Loops /\ Quiet.batch = <<>> /\ Quiet.at = "none"
  BY <1>1 DEF Quiet, Loops
<1>3. /\ [Quiet EXCEPT !.at = "ask"] \in Loops
      /\ [Quiet EXCEPT !.at = "ask"].batch = <<>>
      /\ [Quiet EXCEPT !.at = "ask"].at = "ask"
  BY <1>2 DEF Loops
<1> QED
  BY <1>1, <1>2, <1>3

LEMMA LoopTypedStep ==
    ASSUME PagesTyped, LoopTyped, [Next]_vars PROVE LoopTyped'
<1> USE SubscriptionsAssumption DEF LoopTyped, loop
<1> DEFINE n == Len(bot.sent)
<1>1. /\ n \in Nat /\ bot.sent \in Seq(Updates) /\ bot.dropped \in 0..n
      /\ MaxUpdates \in Nat
  <2>1. bot.sent \in Seq(Updates) /\ bot.dropped \in Nat
    OBVIOUS
  <2>2. n \in Nat
    BY <2>1, LenProperties
  <2> QED
    BY <2>1, <2>2
<1>2. ASSUME NEW at \in {"ask", "leave", "get", "handle"}
      PROVE  LET q == [poll EXCEPT !.at = at]
             IN  q \in Loops /\ q.at = at /\ q.batch = poll.batch
  BY DEF Loops
<1>3. CASE \E p \in Pages : EnsurePolling(p)
  <2>1. /\ poll' = poll \/ poll' = [Quiet EXCEPT !.at = "ask"]
        /\ missed' \in BOOLEAN /\ UNCHANGED <<bot, offset, conflict>>
    BY <1>3 DEF EnsurePolling
  <2>2. CASE poll' = poll
    BY <2>1, <2>2
  <2>3. CASE poll' = [Quiet EXCEPT !.at = "ask"]
    <3>1. /\ poll' \in Loops /\ poll'.at = "ask" /\ Len(poll'.batch) = 0
      BY <2>3, QuietTyped
    <3> QED
      BY <1>1, <2>1, <3>1
  <2> QED
    BY <2>1, <2>2, <2>3
<1>4. CASE \E i \in Numbers, chat \in {"private", "group"} : PressStart(i, chat)
  <2>1. PICK u \in Updates : bot' = [bot EXCEPT !.sent = Append(bot.sent, u)]
                            /\ n < MaxUpdates
    BY <1>4 DEF PressStart, Updates
  <2>2. /\ bot'.sent \in Seq(Updates) /\ Len(bot'.sent) = n + 1
        /\ bot'.dropped = bot.dropped /\ bot' \in [sent : Seq(Updates), dropped : Nat]
    <3>1. /\ Append(bot.sent, u) \in Seq(Updates)
          /\ Len(Append(bot.sent, u)) = n + 1
      BY <1>1, AppendProperties
    <3> QED
      BY <2>1, <3>1
  <2>3. UNCHANGED <<poll, conflict, offset, missed>>
    BY <1>4 DEF PressStart
  <2> QED
    BY <1>1, <2>1, <2>2, <2>3
<1>5. CASE AskLinks
  BY <1>2, <1>5 DEF AskLinks
<1>6. CASE LoopEnds \/ Conflict409
  <2>1. /\ poll' = Quiet /\ UNCHANGED <<bot, offset, missed>>
        /\ conflict' \in BOOLEAN
    BY <1>6 DEF LoopEnds, Conflict409
  <2> QED
    BY <1>1, <2>1, QuietTyped
<1>7. CASE GetUpdates
  <2>1. PICK d \in 0..n : d = Dropped
    BY <1>1 DEF Dropped
  <2>2. PICK batch : /\ batch = [i \in 1..(n - d) |-> d + i]
                     /\ poll' = [poll EXCEPT !.at = "handle", !.batch = batch]
    BY <1>7, <2>1 DEF GetUpdates
  <2>3. /\ batch \in Seq(Nat) /\ Len(batch) = n - d
        /\ \A i \in 1..(n - d) : batch[i] \in 1..n
    BY <1>1, <2>2, FetchedTyped
  <2>4. \A i \in 1..Len(batch) : batch[i] \in 1..n
    BY <2>3
  <2>5. poll' \in Loops /\ poll'.at = "handle" /\ poll'.batch = batch
    BY <2>2, <2>3 DEF Loops
  <2>6. /\ bot'.sent = bot.sent /\ bot'.dropped = d
        /\ bot' \in [sent : Seq(Updates), dropped : Nat]
        /\ UNCHANGED <<offset, missed>> /\ conflict' = FALSE
    BY <1>1, <1>7, <2>1 DEF GetUpdates
  <2>7. /\ Len(poll'.batch) = n - d /\ n - d <= MaxUpdates
        /\ poll'.at # "none"
    BY <1>1, <2>3, <2>5
  <2>8. \A i \in 1..Len(poll'.batch) : poll'.batch[i] \in 1..Len(bot'.sent)
    BY <2>4, <2>5, <2>6
  <2>9. /\ Len(bot'.sent) <= MaxUpdates /\ bot'.dropped <= Len(bot'.sent)
        /\ offset' \in Nat /\ offset' <= Len(bot'.sent) + 1
        /\ Len(poll'.batch) <= MaxUpdates
    BY <1>1, <2>6, <2>7
  <2> QED
    BY <2>5, <2>6, <2>7, <2>8, <2>9
<1>8. CASE GetFails \/ BatchDone
  BY <1>2, <1>8 DEF GetFails, BatchDone
<1>9. CASE HandleUpdate
  <2>1. /\ poll.batch \in Seq(Nat) /\ poll.batch # <<>>
        /\ UNCHANGED <<bot, conflict, missed>>
    BY <1>9 DEF HandleUpdate, Loops
  <2>2. PICK i \in 1..n : i = Head(poll.batch)
    <3>1. Len(poll.batch) \in Nat \ {0}
      BY <2>1, EmptySeq
    <3>2. 1 \in 1..Len(poll.batch) /\ Head(poll.batch) = poll.batch[1]
      BY <2>1, <3>1
    <3> QED
      BY <3>2
  <2>3. offset' = Seen(i) /\ offset' \in Nat /\ offset' <= n + 1
    BY <1>1, <1>9, <2>2 DEF HandleUpdate, Seen
  <2>4. /\ Tail(poll.batch) \in Seq(Nat)
        /\ Len(Tail(poll.batch)) = Len(poll.batch) - 1
        /\ \A j \in 1..Len(Tail(poll.batch)) :
              Tail(poll.batch)[j] = poll.batch[j + 1]
        /\ Len(Tail(poll.batch)) \in Nat /\ Len(poll.batch) \in Nat
    BY <2>1, HeadTailProperties, LenProperties
  <2>5. PICK at \in {"connect", "handle"}, num \in Nat :
          poll' = [poll EXCEPT !.batch = Tail(poll.batch), !.at = at, !.number = num]
    <3>1. bot.sent[i] \in Updates /\ bot.sent[i].number \in Nat
      <4>1. bot.sent[i] \in Updates
        BY <1>1, <2>2, ElementOfSeq
      <4> QED
        BY <4>1 DEF Updates, Numbers
    <3> QED
      BY <1>9, <2>2, <3>1 DEF HandleUpdate, Update
  <2>6. poll' \in Loops /\ poll'.at = at /\ poll'.batch = Tail(poll.batch)
    BY <2>4, <2>5 DEF Loops
  <2>7. \A j \in 1..Len(poll'.batch) : poll'.batch[j] \in 1..n
    <3> SUFFICES ASSUME NEW j \in 1..Len(Tail(poll.batch))
                 PROVE  Tail(poll.batch)[j] \in 1..n
      BY <2>6
    <3>1. PICK size \in Nat : size = Len(poll.batch)
      BY <2>4
    <3>2. j \in 1..(size - 1)
      BY <2>4, <3>1
    <3>3. j + 1 \in 1..Len(poll.batch)
      BY <3>1, <3>2
    <3> QED
      BY <2>4, <3>3
  <2> QED
    BY <1>1, <2>1, <2>3, <2>4, <2>6, <2>7
<1>10. CASE ConnectChat
  <2>1. LET q == [poll EXCEPT !.at = "handle", !.number = 0]
        IN  q \in Loops /\ q.at = "handle" /\ q.batch = poll.batch
    BY DEF Loops
  <2> QED
    BY <1>10, <2>1 DEF ConnectChat
<1>11. CASE Restart
  <2>1. /\ poll' = Quiet \/ poll' = [Quiet EXCEPT !.at = "ask"]
        /\ UNCHANGED bot /\ offset' = 0 /\ conflict' = FALSE /\ missed' = FALSE
    BY <1>11 DEF Restart
  <2>2. /\ poll' \in Loops /\ Len(poll'.batch) = 0
        /\ poll'.at = "none" => poll' = Quiet
    BY <2>1, QuietTyped
  <2>3. /\ \A i \in 1..Len(poll'.batch) : poll'.batch[i] \in 1..Len(bot'.sent)
        /\ Len(poll'.batch) <= MaxUpdates
    BY <1>1, <2>2
  <2>4. offset' \in Nat /\ offset' <= Len(bot'.sent) + 1
    BY <1>1, <2>1
  <2> QED
    BY <2>1, <2>2, <2>3, <2>4
<1>12. CASE UNCHANGED <<poll, conflict, bot, offset, missed>>
  BY <1>12
<1>13. ASSUME NEW p \in Pages, Request(p) \/ Remove(p) \/ StartLink(p)
               \/ (\E a \in Addresses : AskCode(p, a))
               \/ (\E right \in BOOLEAN : EnterCode(p, right)),
              ~EnsurePolling(p)
       PROVE  UNCHANGED <<poll, conflict, bot, offset, missed>>
  BY <1>13 DEF Request, PutCode, CountCode, MailArrives, MailFails, UndoCode,
     ConfirmCode, WrongCode, BurnCode, Remove, StartLink, AskCode, EnterCode
<1>14. Expires \/ MinutePasses \/ UNCHANGED vars
         => UNCHANGED <<poll, conflict, bot, offset, missed>>
  BY DEF Expires, MinutePasses, vars
<1> QED
  BY <1>3, <1>4, <1>5, <1>6, <1>7, <1>8, <1>9, <1>10, <1>11, <1>12, <1>13,
     <1>14 DEF Next, PollStep

-----------------------------------------------------------------------------
(* What an address has proved *)

\* What the person knows is true of the code the account has, and a page about
\* to confirm, or the loop about to connect, holds what was proved.
ProvedInv ==
    /\ AddressProved
    /\ \A p \in Pages : page[p].at = "confirm" => page[p].address \in proved
    /\ poll.at = "connect" => poll.number \in proved
    /\ \A pair \in known : pair[2] \in Nat /\ pair[2] <= made
    /\ \A pair \in known : code # Nobody /\ pair[2] = code.number
                            => pair[1] = code.address
    /\ \A p \in Pages : page[p].number <= made
    /\ \A p \in Pages : page[p].at \in {"count", "mail"} /\ code # Nobody
                           /\ page[p].number = code.number
                        => page[p].address = code.address

\* The account's code keeps its number and address, or is gone.
SameCode == code' # Nobody => /\ code # Nobody /\ code'.number = code.number
                              /\ code'.address = code.address

\* What a step leaves alone, the invariant keeps.
LEMMA ProvedCalm ==
    ASSUME PagesTyped, ProvedInv, SameCode, UNCHANGED <<made, known>>,
           proved \subseteq proved',
           sub' = sub \/ sub' = Nobody,
           \A p \in Pages : 
             \/ page'[p] = page[p]
             \/ /\ page'[p].number <= made
                /\ page'[p].at \notin {"confirm", "count", "mail"},
           poll' = poll \/ poll'.at # "connect"
    PROVE  ProvedInv'
BY DEF ProvedInv, SameCode, AddressProved

LEMMA ProvedStep ==
    ASSUME PagesTyped, LoopTyped, ProvedInv, [Next]_vars PROVE ProvedInv'
<1> USE SubscriptionsAssumption DEF PagesTyped, mail, loop
<1>1. /\ made \in Nat
      /\ code # Nobody => code \in Rows /\ code.number \in 1..made
      /\ \A p \in Pages : page[p] \in Requests /\ page[p].number \in Nat
  BY DEF Rows, Requests, Numbers
<1>2. ASSUME NEW p \in Pages, PutCode(p) PROVE ProvedInv'
  <2>1. PICK n \in Nat : n = made + 1 /\ n \in Numbers
    BY <1>1, <1>2 DEF PutCode, Numbers
  <2>2. /\ code' = Code(page[p].address, n) /\ made' = n /\ known' = {}
        /\ UNCHANGED <<sub, proved, poll>>
        /\ page' = [page EXCEPT ![p] = [page[p] EXCEPT !.at = "count", !.number = n]]
    BY <1>2, <2>1 DEF PutCode, Goes
  <2>3. code'.number = n /\ code'.address = page[p].address
    BY <2>2 DEF Code
  <2>4. /\ page'[p].at = "count" /\ page'[p].address = page[p].address
        /\ page'[p].number = n
        /\ \A q \in Pages \ {p} : page'[q] = page[q]
    BY <1>1, <2>2 DEF Requests
  <2>5. \A q \in Pages \ {p} : page[q].number <= made /\ made < n
    BY <1>1, <2>1 DEF ProvedInv
  <2> QED
    BY <1>1, <2>2, <2>3, <2>4, <2>5 DEF ProvedInv, AddressProved
<1>3. ASSUME NEW p \in Pages, CountCode(p) PROVE ProvedInv'
  <2>1. page' = [page EXCEPT ![p] = [page[p] EXCEPT !.at = "mail"]]
    BY <1>3 DEF CountCode, Goes
  <2>2. /\ page[p].at = "count" /\ page'[p].at = "mail"
        /\ page'[p].address = page[p].address
        /\ page'[p].number = page[p].number
        /\ \A q \in Pages \ {p} : page'[q] = page[q]
    BY <1>1, <1>3, <2>1 DEF Requests, CountCode
  <2> QED
    BY <1>3, <2>2 DEF CountCode, ProvedInv, AddressProved
<1>4. ASSUME NEW p \in Pages, MailArrives(p) PROVE ProvedInv'
  <2>1. /\ page[p].at = "mail"
        /\ \A pair \in known' : \/ pair \in known
                                \/ /\ pair = <<page[p].address, page[p].number>>
                                   /\ code # Nobody /\ code.number = page[p].number
        /\ UNCHANGED <<code, sub, made, proved, poll>>
        /\ \A q \in Pages : page'[q] = page[q] \/ page'[q] = Idle
    BY <1>4 DEF MailArrives, Goes
  <2>2. \A q \in Pages : page'[q] = page[q] \/ (page'[q].number = 0
                                                /\ page'[q].at = "idle")
    BY <2>1 DEF Idle
  <2> QED
    BY <1>1, <2>1, <2>2 DEF ProvedInv, AddressProved
<1>5. ASSUME NEW p \in Pages,
             \/ MailFails(p) \/ UndoCode(p) \/ BurnCode(p) \/ EnsurePolling(p)
             \/ WrongCode(p) \/ Remove(p) \/ \E a \in Addresses : AskCode(p, a)
      PROVE  ProvedInv'
  <2>1. SameCode
    <3>1. CASE WrongCode(p)
      BY <1>1, <3>1 DEF WrongCode, SameCode, Rows
    <3>2. CASE \E box \in Addresses : AskCode(p, box)
      BY <3>2 DEF AskCode, SameCode
    <3>3. CASE \/ MailFails(p) \/ UndoCode(p) \/ BurnCode(p) \/ EnsurePolling(p)
               \/ Remove(p)
      BY <3>3 DEF MailFails, UndoCode, BurnCode, EnsurePolling, Remove, SameCode
    <3> QED
      BY <1>5, <3>1, <3>2, <3>3
  <2>2. \A q \in Pages : page'[q] = page[q] \/ (page'[q].number = 0
             /\ page'[q].at \in {"undo", "idle", "burn", "put"})
    <3>1. ASSUME NEW box \in Addresses
          PROVE  /\ [Idle EXCEPT !.at = "put", !.address = box].number = 0
                 /\ [Idle EXCEPT !.at = "put", !.address = box].at = "put"
      BY DEF Idle
    <3>2. CASE \E box \in Addresses : AskCode(p, box)
      <4>1. PICK box \in Addresses :
              page' = [page EXCEPT ![p] = [Idle EXCEPT !.at = "put", !.address = box]]
        BY <3>2 DEF AskCode, Goes
      <4> QED
        BY <3>1, <4>1
    <3>3. CASE WrongCode(p)
      BY <3>3 DEF WrongCode, Goes, Idle
    <3>4. CASE \/ MailFails(p) \/ UndoCode(p) \/ BurnCode(p) \/ EnsurePolling(p)
               \/ Remove(p)
      <4>1. [Idle EXCEPT !.at = "undo"].number = 0 /\ Idle.number = 0
        BY DEF Idle
      <4>2. [Idle EXCEPT !.at = "undo"].at = "undo" /\ Idle.at = "idle"
        BY DEF Idle
      <4>3. \/ page' = page \/ page' = [page EXCEPT ![p] = Idle]
            \/ page' = [page EXCEPT ![p] = [Idle EXCEPT !.at = "undo"]]
        BY <3>4 DEF MailFails, UndoCode, BurnCode, EnsurePolling, Remove, Goes
      <4> QED
        BY <4>1, <4>2, <4>3
    <3> QED
      BY <1>5, <3>2, <3>3, <3>4
  <2>3. poll' = poll \/ poll'.at # "connect"
    BY <1>5 DEF MailFails, UndoCode, BurnCode, EnsurePolling, WrongCode,
       Remove, AskCode, Quiet
  <2>4. UNCHANGED <<made, known, proved>> /\ (sub' = sub \/ sub' = Nobody)
    BY <1>5 DEF MailFails, UndoCode, BurnCode, EnsurePolling, WrongCode,
       Remove, AskCode
  <2> QED
    BY <1>1, <2>1, <2>2, <2>3, <2>4, ProvedCalm
<1>6. ASSUME NEW p \in Pages, NEW right \in BOOLEAN, EnterCode(p, right)
      PROVE  ProvedInv'
  <2>1. /\ code # Nobody /\ SameCode /\ UNCHANGED <<made, known, sub, poll>>
        /\ proved \subseteq proved'
    BY <1>6 DEF EnterCode, SameCode
  <2>2. CASE code.expired \/ ~right
    <3>1. \A q \in Pages : page'[q] = page[q] \/ (page'[q].number = 0
                                                  /\ page'[q].at = "wrong")
      BY <1>6, <2>2 DEF EnterCode, Goes, Idle
    <3> QED
      BY <1>1, <2>1, <3>1, ProvedCalm
  <2>3. CASE ~code.expired /\ right
    <3>1. PICK a \in Addresses : <<a, code.number>> \in known
      BY <1>6, <2>3 DEF EnterCode, Reached
    <3>2. a = code.address
      BY <2>1, <3>1 DEF ProvedInv
    <3>3. a \in proved'
      BY <1>6, <2>3, <3>1 DEF EnterCode
    <3>4. page' = [page EXCEPT ![p] =
                     [Idle EXCEPT !.at = "confirm", !.address = a]]
      BY <1>6, <2>3, <3>2 DEF EnterCode, Goes
    <3>5. LET entered == [Idle EXCEPT !.at = "confirm", !.address = a]
          IN  /\ entered.at = "confirm" /\ entered.address = a
              /\ entered.number = 0
      BY DEF Idle
    <3>6. /\ page'[p].at = "confirm" /\ page'[p].address \in proved'
          /\ page'[p].number = 0
          /\ \A q \in Pages \ {p} : page'[q] = page[q]
      BY <3>3, <3>4, <3>5
    <3> QED
      BY <1>1, <2>1, <3>6 DEF ProvedInv, AddressProved, SameCode
  <2> QED
    BY <2>2, <2>3
<1>7. ASSUME NEW p \in Pages, ConfirmCode(p) PROVE ProvedInv'
  <2>1. /\ sub' = page[p].address /\ page[p].at = "confirm" /\ code' = Nobody
        /\ UNCHANGED <<made, known, proved, poll>>
    BY <1>7 DEF ConfirmCode, Proven
  <2>2. \A q \in Pages : page'[q] = page[q] \/ (page'[q].number = 0
                                                /\ page'[q].at = "idle")
    BY <1>7 DEF ConfirmCode, Goes, Idle
  <2> QED
    BY <1>1, <2>1, <2>2 DEF ProvedInv, AddressProved
<1>8. ASSUME NEW p \in Pages, StartLink(p) PROVE ProvedInv'
  <2>1. PICK n \in Nat : n = made + 1
    BY <1>1
  <2>2. /\ code' = Code(Nobody, n) /\ made' = n
        /\ known' = known \cup {<<Nobody, n>>}
        /\ UNCHANGED <<sub, proved, poll>>
    BY <1>8, <2>1 DEF StartLink
  <2>3. code'.number = n /\ code'.address = Nobody
    BY <2>2 DEF Code
  <2>4. \A q \in Pages : page'[q] = page[q] \/ (page'[q].number = 0
                                                /\ page'[q].at = "made")
    BY <1>8 DEF StartLink, Goes, Idle
  <2>5. \A q \in Pages : page[q].number <= made /\ made < n
    BY <1>1, <2>1 DEF ProvedInv
  <2>6. \A pair \in known : pair[2] \in Nat /\ pair[2] < n
    BY <1>1, <2>1 DEF ProvedInv
  <2> QED
    BY <1>1, <2>2, <2>3, <2>4, <2>5, <2>6 DEF ProvedInv, AddressProved
<1>9. CASE HandleUpdate
  <2>1. /\ SameCode /\ UNCHANGED <<made, known, sub, page>>
        /\ proved \subseteq proved'
    BY <1>1, <1>9 DEF HandleUpdate, SameCode, Ours, Rows
  <2>2. poll'.at = "connect" => poll'.number \in proved'
    BY <1>9 DEF HandleUpdate, LoopTyped, Loops
  <2> QED
    BY <2>1, <2>2 DEF ProvedInv, AddressProved, SameCode
<1>10. CASE ConnectChat
  <2>1. poll'.at = "handle"
    BY <1>10 DEF ConnectChat, LoopTyped, Loops
  <2> QED
    BY <1>10, <2>1 DEF ConnectChat, ProvedInv, AddressProved
<1>11. CASE Restart
  <2>1. \A q \in Pages : page'[q].number = 0 /\ page'[q].at = "idle"
    BY <1>11 DEF Restart, Idle
  <2>2. poll'.at # "connect"
    BY <1>11 DEF Restart, Quiet
  <2> QED
    BY <1>1, <1>11, <2>1, <2>2, ProvedCalm DEF Restart, SameCode
<1>12. CASE \/ AskLinks \/ LoopEnds \/ GetUpdates \/ BatchDone
            \/ GetFails \/ Conflict409 \/ UNCHANGED vars \/ Expires \/ MinutePasses
            \/ \E n \in Numbers, chat \in {"private", "group"} : PressStart(n, chat)
  <2>1. poll' = poll \/ poll'.at # "connect"
    <3>1. \A at : [poll EXCEPT !.at = at].at = at
      BY DEF LoopTyped, Loops
    <3>2. CASE GetUpdates
      <4>1. PICK batch : poll' = [poll EXCEPT !.at = "handle", !.batch = batch]
        BY <3>2 DEF GetUpdates
      <4> QED
        BY <4>1 DEF LoopTyped, Loops
    <3>3. CASE AskLinks \/ LoopEnds \/ BatchDone \/ GetFails \/ Conflict409
      <4>1. /\ poll' = Quiet \/ \E at \in {"get", "leave", "ask"} :
                                poll' = [poll EXCEPT !.at = at]
        BY <3>3 DEF AskLinks, LoopEnds, BatchDone, GetFails, Conflict409
      <4> QED
        BY <3>1, <4>1, QuietTyped
    <3> QED
      BY <1>12, <3>2, <3>3 DEF PressStart, Expires, MinutePasses, vars
  <2>2. SameCode
    <3>1. CASE Expires
      BY <1>1, <3>1 DEF Expires, SameCode, Rows
    <3>2. CASE ~Expires
      BY <1>12, <3>2 DEF AskLinks, LoopEnds, GetUpdates, BatchDone, GetFails,
         Conflict409, PressStart, MinutePasses, vars, SameCode
    <3> QED
      BY <3>1, <3>2
  <2>3. UNCHANGED <<page, made, known, proved, sub>>
    BY <1>12 DEF AskLinks, LoopEnds, GetUpdates, BatchDone, GetFails,
       Conflict409, PressStart, Expires, MinutePasses, vars
  <2> QED
    BY <2>1, <2>2, <2>3, ProvedCalm
<1> QED
  BY <1>2, <1>3, <1>4, <1>5, <1>6, <1>7, <1>8, <1>9, <1>10, <1>11, <1>12
     DEF Next, PollStep, Request

-----------------------------------------------------------------------------
(* How many codes, and how many wrong ones *)

At(label) == {q \in Pages : page[q].at = label}
Tally(label) == Cardinality(At(label))

LEMMA TallyTyped ==
    /\ Cardinality(Pages) \in Nat
    /\ \A label : Tally(label) \in Nat /\ Tally(label) <= Cardinality(Pages)
<1>1. Cardinality(Pages) \in Nat
  BY SubscriptionsAssumption, FS_CardinalityType
<1>2. ASSUME NEW label
      PROVE  Tally(label) \in Nat /\ Tally(label) <= Cardinality(Pages)
  <2>1. At(label) \in SUBSET Pages
    BY DEF At
  <2>2. IsFiniteSet(At(label)) /\ Cardinality(At(label)) <= Cardinality(Pages)
    BY <2>1, SubscriptionsAssumption, FS_Subset
  <2> QED
    BY <2>2, FS_CardinalityType DEF Tally
<1> QED
  BY <1>1, <1>2

\* A page is at one place at a time.
LEMMA TwoTallies ==
    ASSUME NEW l, NEW m, l # m
    PROVE  Tally(l) + Tally(m) <= Cardinality(Pages)
<1>1. At(l) \in SUBSET Pages /\ At(m) \in SUBSET Pages /\ At(l) \cap At(m) = {}
  BY DEF At
<1>2. IsFiniteSet(At(l)) /\ IsFiniteSet(At(m))
  BY <1>1, SubscriptionsAssumption, FS_Subset
<1>3. Cardinality(At(l) \cup At(m)) = Tally(l) + Tally(m) - Cardinality({})
  BY <1>1, <1>2, FS_Union DEF Tally
<1>4. Cardinality({}) = 0
  BY FS_EmptySet
<1>5. Cardinality(At(l) \cup At(m)) <= Cardinality(Pages)
  BY <1>1, SubscriptionsAssumption, FS_Subset
<1>6. Tally(l) \in Nat /\ Tally(m) \in Nat
  BY TallyTyped
<1> QED
  BY <1>3, <1>4, <1>5, <1>6

\* A page that goes on leaves one place and comes to the other.
LEMMA TallyMoves ==
    ASSUME NEW p \in Pages, NEW from, NEW to, from # to,
           page[p].at = from, page'[p].at = to,
           \A q \in Pages \ {p} : page'[q].at = page[q].at
    PROVE  /\ Tally(from)' = Tally(from) - 1 /\ Tally(to)' = Tally(to) + 1
           /\ \A l : l \notin {from, to} => Tally(l)' = Tally(l)
<1>1. At(from)' = At(from) \ {p} /\ p \in At(from)
  BY DEF At
<1>2. At(to)' = At(to) \cup {p} /\ p \notin At(to)
  BY DEF At
<1>3. \A l : l \notin {from, to} => At(l)' = At(l)
  BY DEF At
<1>4. \A l : At(l) \in SUBSET Pages
  BY DEF At
<1>5. IsFiniteSet(At(from)) /\ IsFiniteSet(At(to))
  BY <1>4, SubscriptionsAssumption, FS_Subset
<1>6. Cardinality(At(from) \ {p}) = Tally(from) - 1
  BY <1>1, <1>5, FS_RemoveElement DEF Tally
<1>7. Cardinality(At(to) \cup {p}) = Tally(to) + 1
  BY <1>2, <1>5, FS_AddElement DEF Tally
<1> QED
  BY <1>1, <1>2, <1>3, <1>6, <1>7 DEF Tally

\* The places where codes are counted.
Counts == {"put", "count", "burn"}

LEMMA TallyStays ==
    ASSUME \A q \in Pages, l \in Counts : page'[q].at = l <=> page[q].at = l
    PROVE  \A l \in Counts : Tally(l)' = Tally(l)
<1> SUFFICES ASSUME NEW l \in Counts PROVE Tally(l)' = Tally(l)
  OBVIOUS
<1>1. At(l)' = At(l)
  BY DEF At
<1> QED
  BY <1>1 DEF Tally

CountsInv ==
    /\ code # Nobody => code.attempts <
           CodeAttempts + Tally("burn") + Cardinality(Pages) * stops
    /\ asked + Tally("put") <= Cardinality(Pages)
    /\ sent.minute = 0 => asked <= Tally("count")
    /\ sent.hour + Tally("put") + Tally("count")
           < CodesPerHour + Cardinality(Pages)

\* With the counts as they are, only what the step does to them matters.
LEMMA CountsKept ==
    ASSUME PagesTyped, CountsInv, \A l \in Counts : Tally(l)' = Tally(l),
           UNCHANGED <<asked, sent, stops>>,
           code' # Nobody => code # Nobody /\ code'.attempts = code.attempts
    PROVE  CountsInv'
BY DEF CountsInv, Counts

\* A request that may begin is not at the counts yet.
LEMMA RoomForOne ==
    ASSUME NEW p \in Pages, page[p].at = "idle"
    PROVE  Tally("put") + Tally("count") + 1 <= Cardinality(Pages)
<1>1. /\ At("put") \in SUBSET (Pages \ {p})
      /\ At("count") \in SUBSET (Pages \ {p})
      /\ At("put") \cap At("count") = {}
  BY DEF At
<1>2. /\ IsFiniteSet(Pages \ {p})
      /\ Cardinality(Pages \ {p}) = Cardinality(Pages) - 1
  BY SubscriptionsAssumption, FS_RemoveElement
<1>3. IsFiniteSet(At("put")) /\ IsFiniteSet(At("count"))
  BY <1>1, <1>2, FS_Subset
<1>4. Cardinality(At("put") \cup At("count"))
        = Tally("put") + Tally("count") - Cardinality({})
  BY <1>1, <1>3, FS_Union DEF Tally
<1>5. Cardinality(At("put") \cup At("count")) <= Cardinality(Pages \ {p})
  BY <1>1, <1>2, FS_Subset
<1>6. Cardinality({}) = 0
  BY FS_EmptySet
<1>7. /\ Tally("put") \in Nat /\ Tally("count") \in Nat
      /\ Cardinality(Pages) \in Nat
  BY TallyTyped
<1> QED
  BY <1>2, <1>4, <1>5, <1>6, <1>7

LEMMA CountsStep ==
    ASSUME PagesTyped, CountsInv, [Next]_vars PROVE CountsInv'
<1> USE SubscriptionsAssumption DEF mail, loop
<1>1. /\ Cardinality(Pages) \in Nat /\ stops \in Nat
      /\ Tally("put") \in Nat /\ Tally("count") \in Nat
      /\ Tally("burn") \in Nat /\ Tally("burn") <= Cardinality(Pages)
  BY TallyTyped DEF PagesTyped
<1>2. /\ asked \in Nat /\ sent.minute \in Nat /\ sent.hour \in Nat
      /\ CodeAttempts \in Nat \ {0} /\ CodesPerHour \in Nat \ {0}
      /\ code # Nobody => code.attempts \in Nat
  BY DEF PagesTyped, Rows
<1>3. PICK stopped \in Nat : stopped = Cardinality(Pages) * stops
  BY <1>1
<1>4. /\ code # Nobody => code.attempts < CodeAttempts + Tally("burn") + stopped
      /\ asked + Tally("put") <= Cardinality(Pages)
      /\ sent.minute = 0 => asked <= Tally("count")
      /\ sent.hour + Tally("put") + Tally("count")
            < CodesPerHour + Cardinality(Pages)
  BY <1>3 DEF CountsInv
<1>5. ASSUME UNCHANGED stops,
             code' # Nobody => code'.attempts < CodeAttempts + Tally("burn")' + stopped,
             asked' + Tally("put")' <= Cardinality(Pages),
             sent'.minute = 0 => asked' <= Tally("count")',
             sent'.hour + Tally("put")' + Tally("count")'
               < CodesPerHour + Cardinality(Pages)
      PROVE  CountsInv'
  BY <1>3, <1>5 DEF CountsInv
<1>6. ASSUME NEW p \in Pages, NEW box \in Addresses, AskCode(p, box)
      PROVE  CountsInv'
  <2>1. /\ page[p].at = "idle" /\ page'[p].at = "put"
        /\ \A q \in Pages \ {p} : page'[q].at = page[q].at
    BY <1>6 DEF AskCode, Goes, PagesTyped, Idle
  <2>2. /\ Tally("put")' = Tally("put") + 1
        /\ Tally("count")' = Tally("count") /\ Tally("burn")' = Tally("burn")
    BY <2>1, TallyMoves
  <2>3. /\ sent.minute = 0 /\ sent.hour < CodesPerHour
        /\ UNCHANGED <<code, sent, asked, stops>>
    BY <1>6 DEF AskCode, CodesAllowed
  <2>4. Tally("put") + Tally("count") + 1 <= Cardinality(Pages)
    BY <2>1, RoomForOne
  <2> QED
    BY <1>1, <1>2, <1>4, <1>5, <2>2, <2>3, <2>4
<1>7. ASSUME NEW p \in Pages, PutCode(p) PROVE CountsInv'
  <2>1. /\ page[p].at = "put" /\ page'[p].at = "count"
        /\ \A q \in Pages \ {p} : page'[q].at = page[q].at
    <3>1. PICK n : page' = [page EXCEPT ![p] = [page[p] EXCEPT !.at = "count",
                                                               !.number = n]]
      BY <1>7 DEF PutCode, Goes
    <3>2. page[p] \in Requests
      BY DEF PagesTyped
    <3>3. [page[p] EXCEPT !.at = "count", !.number = n].at = "count"
      BY <3>2 DEF Requests
    <3> QED
      BY <1>7, <3>1, <3>3 DEF PutCode, PagesTyped
  <2>2. /\ Tally("put")' = Tally("put") - 1
        /\ Tally("count")' = Tally("count") + 1 /\ Tally("burn")' = Tally("burn")
    BY <2>1, TallyMoves
  <2>3. /\ asked' = asked + 1 /\ UNCHANGED <<sent, stops>>
        /\ code'.attempts = 0
    BY <1>7 DEF PutCode, Code
  <2> QED
    BY <1>1, <1>2, <1>4, <1>5, <2>2, <2>3
<1>8. ASSUME NEW p \in Pages, CountCode(p) PROVE CountsInv'
  <2>1. /\ page[p].at = "count" /\ page'[p].at = "mail"
        /\ \A q \in Pages \ {p} : page'[q].at = page[q].at
    BY <1>8 DEF CountCode, Goes, PagesTyped, Requests
  <2>2. /\ Tally("count")' = Tally("count") - 1
        /\ Tally("put")' = Tally("put") /\ Tally("burn")' = Tally("burn")
    BY <2>1, TallyMoves
  <2>3. /\ sent'.minute = sent.minute + 1 /\ sent'.hour = sent.hour + 1
        /\ UNCHANGED <<code, asked, stops>>
    BY <1>8 DEF CountCode
  <2> QED
    BY <1>1, <1>2, <1>4, <1>5, <2>2, <2>3
<1>9. ASSUME NEW p \in Pages, WrongCode(p) PROVE CountsInv'
  <2>1. UNCHANGED <<asked, sent, stops>>
    BY <1>9 DEF WrongCode
  <2>2. CASE code # Nobody /\ code.attempts + 1 >= CodeAttempts
    <3>1. /\ page[p].at = "wrong" /\ page'[p].at = "burn"
          /\ \A q \in Pages \ {p} : page'[q].at = page[q].at
      BY <1>9, <2>2 DEF WrongCode, Goes, PagesTyped, Idle
    <3>2. /\ Tally("burn")' = Tally("burn") + 1
          /\ Tally("count")' = Tally("count") /\ Tally("put")' = Tally("put")
      BY <3>1, TallyMoves
    <3>3. code'.attempts = code.attempts + 1
      BY <1>9, <2>2 DEF WrongCode, PagesTyped, Rows
    <3> QED
      BY <1>1, <1>2, <1>4, <1>5, <2>1, <2>2, <3>2, <3>3
  <2>3. CASE ~(code # Nobody /\ code.attempts + 1 >= CodeAttempts)
    <3>1. \A q \in Pages, l \in Counts : page'[q].at = l <=> page[q].at = l
      BY <1>9, <2>3 DEF WrongCode, Goes, PagesTyped, Idle, Counts
    <3>2. /\ Tally("burn")' = Tally("burn")
          /\ Tally("count")' = Tally("count") /\ Tally("put")' = Tally("put")
      BY <3>1, TallyStays DEF Counts
    <3>3. /\ code' # Nobody => code # Nobody
          /\ code # Nobody => code'.attempts = code.attempts + 1
      BY <1>9 DEF WrongCode, PagesTyped, Rows
    <3> QED
      BY <1>1, <1>2, <1>4, <1>5, <2>1, <2>3, <3>2, <3>3
  <2> QED
    BY <2>2, <2>3
<1>10. ASSUME NEW p \in Pages, BurnCode(p) PROVE CountsInv'
  <2>1. /\ page[p].at = "burn" /\ page'[p].at = "idle"
        /\ \A q \in Pages \ {p} : page'[q].at = page[q].at
    BY <1>10 DEF BurnCode, Goes, PagesTyped, Idle
  <2>2. /\ Tally("put")' = Tally("put") /\ Tally("count")' = Tally("count")
    BY <2>1, TallyMoves
  <2>3. code' = Nobody /\ UNCHANGED <<asked, sent, stops>>
    BY <1>10 DEF BurnCode
  <2> QED
    BY <1>4, <1>5, <2>2, <2>3
<1>11. CASE MinutePasses
  <2>1. /\ At("put") = {} /\ At("count") = {}
        /\ At("put")' = {} /\ At("count")' = {} /\ At("burn")' = At("burn")
    BY <1>11 DEF MinutePasses, At
  <2>2. /\ Tally("put")' = 0 /\ Tally("count")' = 0
        /\ Tally("put") = 0 /\ Tally("count") = 0
        /\ Tally("burn")' = Tally("burn")
    BY <2>1, FS_EmptySet DEF Tally
  <2>3. /\ asked' = 0 /\ UNCHANGED <<code, stops>>
        /\ sent'.hour = sent.hour \/ sent'.hour = 0
    BY <1>11 DEF MinutePasses, PagesTyped
  <2> QED
    BY <1>1, <1>2, <1>4, <1>5, <2>2, <2>3
<1>12. CASE Restart
  <2>1. At("put")' = {} /\ At("count")' = {} /\ At("burn")' = {}
    BY <1>12 DEF Restart, At, Idle
  <2>2. Tally("put")' = 0 /\ Tally("count")' = 0 /\ Tally("burn")' = 0
    BY <2>1, FS_EmptySet DEF Tally
  <2>3. Cardinality(Pages) * stops' = stopped + Cardinality(Pages)
    BY <1>1, <1>3, <1>12 DEF Restart
  <2>4. /\ asked' = 0 /\ sent'.minute = 0 /\ sent'.hour = 0 /\ UNCHANGED code
    BY <1>12 DEF Restart
  <2>5. code' # Nobody => code'.attempts <
           CodeAttempts + Tally("burn")' + Cardinality(Pages) * stops'
    BY <1>1, <1>2, <1>4, <2>2, <2>3, <2>4
  <2> QED
    BY <1>1, <1>2, <2>2, <2>4, <2>5 DEF CountsInv
<1>13. ASSUME NEW p \in Pages,
              \/ MailArrives(p) \/ MailFails(p) \/ UndoCode(p)
              \/ ConfirmCode(p) \/ EnsurePolling(p) \/ StartLink(p) \/ Remove(p)
              \/ \E right \in BOOLEAN : EnterCode(p, right)
       PROVE  CountsInv'
  <2>1. \A q \in Pages, l \in Counts : page'[q].at = l <=> page[q].at = l
    <3>1. CASE \E right \in BOOLEAN : EnterCode(p, right)
      <4>1. page[p].at = "idle"
        BY <3>1 DEF EnterCode, Idle
      <4>2. PICK right \in BOOLEAN : EnterCode(p, right)
        BY <3>1
      <4>3. /\ [Idle EXCEPT !.at = "wrong"].at = "wrong"
            /\ [Idle EXCEPT !.at = "confirm", !.address = code.address].at
                 = "confirm"
        BY DEF Idle
      <4>4. \/ page' = page
            \/ page' = [page EXCEPT ![p] = [Idle EXCEPT !.at = "wrong"]]
            \/ page' = [page EXCEPT ![p] =
                 [Idle EXCEPT !.at = "confirm", !.address = code.address]]
        BY <4>2 DEF EnterCode, Goes
      <4>5. /\ page' = page \/ page'[p].at \in {"wrong", "confirm"}
            /\ \A q \in Pages \ {p} : page'[q] = page[q]
        BY <4>3, <4>4 DEF PagesTyped
      <4> QED
        BY <4>1, <4>5 DEF Counts
    <3>2. CASE \/ MailArrives(p) \/ MailFails(p) \/ UndoCode(p)
               \/ ConfirmCode(p) \/ EnsurePolling(p) \/ StartLink(p)
      <4>1. PICK label \in {"idle", "undo", "made"} :
              page' = [page EXCEPT ![p] = [Idle EXCEPT !.at = label]]
        <5>1. [Idle EXCEPT !.at = "idle"] = Idle
          BY DEF Idle
        <5> QED
          BY <3>2, <5>1 DEF MailArrives, MailFails, UndoCode, ConfirmCode,
             EnsurePolling, StartLink, Goes
      <4>2. page[p].at \in {"mail", "undo", "confirm", "made", "idle"}
        <5>1. page[p] = Idle => page[p].at = "idle"
          BY DEF Idle
        <5> QED
          BY <3>2, <5>1 DEF MailArrives, MailFails, UndoCode, ConfirmCode,
             EnsurePolling, StartLink
      <4>3. [Idle EXCEPT !.at = label].at = label
        BY DEF Idle
      <4>4. /\ page'[p].at \in {"idle", "undo", "made"}
            /\ \A q \in Pages \ {p} : page'[q] = page[q]
        BY <4>1, <4>3 DEF PagesTyped
      <4> QED
        BY <4>2, <4>4 DEF Counts
    <3>3. CASE Remove(p)
      BY <3>3 DEF Remove
    <3> QED
      BY <1>13, <3>1, <3>2, <3>3
  <2>2. UNCHANGED <<asked, sent, stops>>
    BY <1>13 DEF MailArrives, MailFails, UndoCode, ConfirmCode, EnsurePolling,
       StartLink, Remove, EnterCode
  <2>3. CASE StartLink(p)
    <3>1. code'.attempts = 0
      BY <2>3 DEF StartLink, Code
    <3>2. \A l \in Counts : Tally(l)' = Tally(l)
      BY <2>1, TallyStays
    <3> QED
      BY <1>1, <1>2, <1>4, <1>5, <2>2, <3>1, <3>2 DEF Counts
  <2>4. CASE ~StartLink(p)
    <3>1. code' # Nobody => code # Nobody /\ code'.attempts = code.attempts
      BY <1>13, <2>4 DEF MailArrives, MailFails, UndoCode, ConfirmCode,
         EnsurePolling, Remove, EnterCode
    <3> QED
      BY <2>1, <2>2, <3>1, TallyStays, CountsKept
  <2> QED
    BY <2>3, <2>4
<1>14. CASE \/ PollStep \/ GetFails \/ Conflict409 \/ UNCHANGED vars \/ Expires
            \/ \E n \in Numbers, chat \in {"private", "group"} : PressStart(n, chat)
  <2>1. UNCHANGED <<asked, sent, stops, page>>
    BY <1>14 DEF PollStep, AskLinks, LoopEnds, GetUpdates, HandleUpdate,
       ConnectChat, BatchDone, GetFails, Conflict409, vars, Expires, PressStart
  <2>2. code' # Nobody => code # Nobody /\ code'.attempts = code.attempts
    <3>1. CASE Expires
      BY <3>1 DEF Expires, PagesTyped, Rows
    <3>2. CASE HandleUpdate
      BY <3>2 DEF HandleUpdate, Ours, PagesTyped, Rows
    <3>3. CASE ~Expires /\ ~HandleUpdate
      BY <1>14, <3>3 DEF PollStep, AskLinks, LoopEnds, GetUpdates,
         ConnectChat, BatchDone, GetFails, Conflict409, vars, PressStart
    <3> QED
      BY <3>1, <3>2, <3>3
  <2> QED
    BY <2>1, <2>2, TallyStays, CountsKept
<1> QED
  BY <1>6, <1>7, <1>8, <1>9, <1>10, <1>11, <1>12, <1>13, <1>14
     DEF Next, Request
-----------------------------------------------------------------------------
(* Somebody listens while a link waits *)

\* A link waits unwatched only until its request is back on the event loop:
\* a loop that found no link ends without looking again, and missed says so.
WatchInv ==
    /\ Waits /\ (\A p \in Pages : page[p].at # "made")
         => conflict \/ missed \/ poll.at \notin {"none", "leave"}
    /\ \A p \in Pages : page[p].at = "put" => channel = "email"

\* A step that makes no link wait and takes no page from the event loop's
\* door leaves the watch to the loop.
LEMMA WatchKept ==
    ASSUME WatchInv, Waits' => Waits,
           \A p \in Pages : page[p].at = "made" => page'[p].at = "made",
           \A p \in Pages : page'[p].at = "put" => channel' = "email",
           \/ UNCHANGED <<conflict, missed, poll>>
           \/ conflict' \/ missed' \/ poll'.at \notin {"none", "leave"}
    PROVE  WatchInv'
BY DEF WatchInv

LEMMA WatchStep ==
    ASSUME PagesTyped, LoopTyped, WatchInv, [Next]_vars PROVE WatchInv'
<1> USE DEF mail, loop
<1>1. ASSUME NEW p \in Pages,
             \/ PutCode(p) \/ CountCode(p) \/ MailArrives(p) \/ MailFails(p)
             \/ UndoCode(p) \/ ConfirmCode(p) \/ WrongCode(p) \/ BurnCode(p)
      PROVE  WatchInv'
  <2>1. /\ page[p].at # "made" /\ page' = [page EXCEPT ![p] = page'[p]]
        /\ page'[p].at # "put"
    <3>1. /\ [Idle EXCEPT !.at = "undo"].at = "undo" /\ Idle.at = "idle"
          /\ [Idle EXCEPT !.at = "burn"].at = "burn"
      BY DEF Idle
    <3>2. [page[p] EXCEPT !.at = "mail"].at = "mail"
      BY DEF PagesTyped, Requests
    <3>3. CASE PutCode(p)
      <4>1. PICK n : n = made + 1
        OBVIOUS
      <4>2. page' = [page EXCEPT ![p] = [page[p] EXCEPT !.at = "count",
                                                        !.number = n]]
        BY <3>3, <4>1 DEF PutCode, Goes
      <4>3. [page[p] EXCEPT !.at = "count", !.number = n].at = "count"
        BY DEF PagesTyped, Requests
      <4> QED
        BY <3>3, <4>2, <4>3 DEF PutCode, PagesTyped
    <3>4. CASE ~PutCode(p)
      BY <1>1, <3>1, <3>2, <3>4 DEF CountCode, MailArrives, MailFails,
         UndoCode, ConfirmCode, WrongCode, BurnCode, Goes, PagesTyped
    <3> QED
      BY <3>3, <3>4
  <2>2. UNCHANGED <<channel, conflict, missed, poll>>
    BY <1>1 DEF PutCode, CountCode, MailArrives, MailFails, UndoCode,
       ConfirmCode, WrongCode, BurnCode
  <2>3. Waits' => Waits
    <3>1. CASE PutCode(p)
      BY <3>1 DEF PutCode, WatchInv, Waits
    <3>2. CASE ~PutCode(p)
      BY <1>1, <3>2 DEF CountCode, MailArrives, MailFails, UndoCode,
         ConfirmCode, WrongCode, BurnCode, Waits, PagesTyped, Rows
    <3> QED
      BY <3>1, <3>2
  <2>4. /\ \A q \in Pages : page[q].at = "made" => page'[q].at = "made"
        /\ \A q \in Pages : page'[q].at = "put" => channel' = "email"
    BY <2>1, <2>2 DEF WatchInv, PagesTyped
  <2> QED
    BY <2>2, <2>3, <2>4, WatchKept
<1>2. ASSUME NEW p \in Pages, EnsurePolling(p) PROVE WatchInv'
  <2>1. /\ UNCHANGED <<channel, code, conflict>>
        /\ \A q \in Pages : page'[q].at = "put" => page[q].at = "put"
    BY <1>2 DEF EnsurePolling, Goes, Idle, PagesTyped
  <2>2. poll'.at \notin {"none", "leave"} \/ missed'
    <3>1. CASE poll = Quiet
      BY <1>2, <3>1 DEF EnsurePolling, Quiet
    <3>2. CASE poll # Quiet
      BY <1>2, <3>2 DEF EnsurePolling, LoopTyped
    <3> QED
      BY <3>1, <3>2
  <2> QED
    BY <2>1, <2>2 DEF WatchInv, Waits
<1>3. ASSUME NEW p \in Pages, StartLink(p) PROVE WatchInv'
  <2>1. page'[p].at = "made" /\ UNCHANGED channel
        /\ \A q \in Pages \ {p} : page'[q] = page[q]
    BY <1>3 DEF StartLink, Goes, PagesTyped, Idle
  <2> QED
    BY <2>1 DEF WatchInv
<1>4. ASSUME NEW p \in Pages, Remove(p) PROVE WatchInv'
  BY <1>4, WatchKept DEF Remove, Waits, WatchInv
<1>5. ASSUME NEW p \in Pages, NEW box \in Addresses, AskCode(p, box)
      PROVE  WatchInv'
  <2>1. ~Waits' /\ channel' = "email"
    BY <1>5 DEF AskCode, Waits
  <2> QED
    BY <2>1 DEF WatchInv
<1>6. ASSUME NEW p \in Pages, NEW right \in BOOLEAN, EnterCode(p, right)
      PROVE  WatchInv'
  <2>1. ~Waits' /\ channel' = "email"
    BY <1>6 DEF EnterCode, Waits
  <2> QED
    BY <2>1 DEF WatchInv
<1>7. CASE Expires
  <2>1. ~Waits' /\ UNCHANGED <<channel, page>>
    BY <1>7 DEF Expires, Waits, PagesTyped, Rows
  <2> QED
    BY <2>1 DEF WatchInv
<1>8. CASE \/ MinutePasses \/ UNCHANGED vars
           \/ \E n \in Numbers, chat \in {"private", "group"} : PressStart(n, chat)
  <2>1. UNCHANGED <<channel, code, page, conflict, missed, poll>>
    BY <1>8 DEF MinutePasses, vars, PressStart
  <2> QED
    BY <2>1 DEF WatchInv, Waits
<1>9. CASE AskLinks
  <2>1. poll'.at = IF Waits THEN "get" ELSE "leave"
    BY <1>9 DEF AskLinks, LoopTyped, Loops
  <2>2. UNCHANGED <<channel, code, page, conflict, missed>>
    BY <1>9 DEF AskLinks
  <2>3. Waits' = Waits
    BY <2>2 DEF Waits
  <2> QED
    BY <2>1, <2>2, <2>3 DEF WatchInv
<1>10. CASE LoopEnds
  <2>1. poll.at = "leave" /\ UNCHANGED <<channel, code, page, conflict, missed>>
    BY <1>10 DEF LoopEnds
  <2> QED
    BY <2>1 DEF WatchInv, Waits
<1>11. CASE GetUpdates
  <2>1. UNCHANGED <<channel, code, page, missed>>
    BY <1>11 DEF GetUpdates
  <2>2. poll'.at = "handle"
    <3>1. PICK batch : poll' = [poll EXCEPT !.at = "handle", !.batch = batch]
      BY <1>11 DEF GetUpdates
    <3> QED
      BY <3>1 DEF LoopTyped, Loops
  <2> QED
    BY <2>1, <2>2 DEF WatchInv
<1>12. CASE Conflict409
  BY <1>12 DEF Conflict409, WatchInv
<1>13. CASE HandleUpdate
  <2>1. UNCHANGED <<channel, page>>
    BY <1>13 DEF HandleUpdate
  <2>2. poll'.at \in {"connect", "handle"}
    BY <1>13 DEF HandleUpdate, LoopTyped, Loops
  <2> QED
    BY <2>1, <2>2 DEF WatchInv
<1>14. CASE ConnectChat
  <2>1. ~Waits' /\ UNCHANGED <<channel, page>>
    BY <1>14 DEF ConnectChat, Waits
  <2> QED
    BY <2>1 DEF WatchInv
<1>15. CASE BatchDone \/ GetFails
  <2>1. UNCHANGED <<channel, page>> /\ poll'.at = "ask"
    BY <1>15 DEF BatchDone, GetFails, LoopTyped, Loops
  <2> QED
    BY <2>1 DEF WatchInv
<1>16. CASE Restart
  <2>1. /\ UNCHANGED <<channel, code>> /\ (Waits => poll'.at = "ask")
        /\ \A q \in Pages : page'[q].at = "idle"
    BY <1>16 DEF Restart, Idle, Quiet
  <2> QED
    BY <2>1 DEF WatchInv, Waits
<1> QED
  BY <1>1, <1>2, <1>3, <1>4, <1>5, <1>6, <1>7, <1>8, <1>9, <1>10, <1>11, <1>12,
     <1>13, <1>14, <1>15, <1>16 DEF Next, PollStep, Request

-----------------------------------------------------------------------------
(* The theorems *)

SubsInv == PagesTyped /\ LoopTyped /\ ProvedInv /\ CountsInv /\ WatchInv

LEMMA SubsInit == Init => SubsInv
<1> SUFFICES ASSUME Init PROVE SubsInv
  OBVIOUS
<1> USE SubscriptionsAssumption DEF Init
<1>1. PagesTyped
  BY DEF PagesTyped, Idle, Requests
<1>2. LoopTyped
  <2>1. bot = [sent |-> <<>>, dropped |-> 0] /\ poll = Quiet /\ offset = 0
    OBVIOUS
  <2>2. <<>> \in Seq(Updates) /\ Len(<<>>) = 0
    OBVIOUS
  <2>3. bot \in [sent : Seq(Updates), dropped : Nat] /\ Len(bot.sent) = 0
        /\ bot.dropped = 0
    BY <2>1, <2>2
  <2>4. poll.batch = <<>> /\ poll \in Loops
    BY <2>1, QuietTyped DEF Quiet
  <2>5. conflict \in BOOLEAN /\ missed \in BOOLEAN
    OBVIOUS
  <2> QED
    BY <2>1, <2>2, <2>3, <2>4, <2>5 DEF LoopTyped
<1>3. ProvedInv
  BY DEF ProvedInv, AddressProved, Idle, Quiet
<1>4. CountsInv
  <2>1. At("put") = {} /\ At("count") = {} /\ At("burn") = {}
    BY DEF At, Idle
  <2>2. Tally("put") = 0 /\ Tally("count") = 0 /\ Tally("burn") = 0
    BY <2>1, FS_EmptySet DEF Tally
  <2> QED
    BY <2>2, TallyTyped DEF CountsInv
<1>5. WatchInv
  BY DEF WatchInv, Waits, Idle
<1> QED
  BY <1>1, <1>2, <1>3, <1>4, <1>5 DEF SubsInv

LEMMA SubsHold == Spec => []SubsInv
<1>1. SubsInv /\ [Next]_vars => SubsInv'
  BY PagesTypedStep, LoopTypedStep, ProvedStep, CountsStep, WatchStep DEF SubsInv
<1> QED
  BY <1>1, SubsInit, PTL DEF Spec

\* The address of a subscription is one whose own code came back, or a private
\* chat that opened a link of this account, whatever crosses what, for any
\* pages and any limits.
THEOREM AddressIsProved == Spec => []AddressProved
<1>1. SubsInv => AddressProved
  BY DEF SubsInv, ProvedInv
<1> QED
  BY <1>1, SubsHold, PTL

\* Codes keep their limits up to the pages open together, a row counts at most
\* the wrong codes of those pages beyond its limit, and while a link waits
\* somebody reads the bot, but for the two cases LinkIsWatched names.
THEOREM LimitsAndLinks == Spec => []CodesAndLinks
<1>1. ASSUME SubsInv PROVE CodesAndLinks
  <2> USE <1>1, SubscriptionsAssumption DEF SubsInv
  <2>1. /\ Cardinality(Pages) \in Nat /\ stops \in Nat /\ stops <= MaxStops
        /\ Tally("put") \in Nat /\ Tally("count") \in Nat
        /\ Tally("burn") \in Nat /\ Tally("burn") <= Cardinality(Pages)
    BY TallyTyped DEF PagesTyped
  <2>2. Cardinality(Pages) * stops <= Cardinality(Pages) * MaxStops
    BY <2>1
  <2>3. code # Nobody => code \in CodeRows
    <3> SUFFICES ASSUME code # Nobody PROVE code \in CodeRows
      OBVIOUS
    <3>1. Cardinality(Pages) * (MaxStops + 1)
            = Cardinality(Pages) * MaxStops + Cardinality(Pages)
      BY <2>1
    <3>2. PICK wrong \in Nat : wrong = Cardinality(Pages) * MaxStops
      BY <2>1
    <3>3. code.attempts \in
            0..(CodeAttempts + Cardinality(Pages) * (MaxStops + 1))
      <4>1. PICK stopped \in Nat : stopped = Cardinality(Pages) * stops
        BY <2>1
      <4>2. code.attempts \in Nat
            /\ code.attempts < CodeAttempts + Tally("burn") + stopped
        BY <4>1 DEF CountsInv, PagesTyped, Rows
      <4> QED
        BY <2>1, <2>2, <3>1, <3>2, <4>1, <4>2
    <3> QED
      BY <3>3 DEF PagesTyped, Rows, CodeRows
  <2>4. TypeOK
    BY <2>3 DEF TypeOK, PagesTyped, LoopTyped
  <2>5. CodesBounded
    BY <2>1 DEF CodesBounded, CountsInv, PagesTyped
  <2>6. LinkIsWatched
    <3>1. Idle.at = "idle" /\ Quiet.at = "none"
      BY DEF Idle, Quiet
    <3> QED
      BY <3>1 DEF LinkIsWatched, WatchInv
  <2> QED
    BY <2>4, <2>5, <2>6 DEF CodesAndLinks
<1> QED
  BY <1>1, SubsHold, PTL
=============================================================================
