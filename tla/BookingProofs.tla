--------------------------- MODULE BookingProofs ---------------------------
(***************************************************************************)
(* What is proved about Booking, for any set of reservations and confirm   *)
(* requests and queues of any length.  None of the four properties is      *)
(* inductive: each rests on what a message in flight still says about the  *)
(* two tables and about the caller it will wake.  The strengthening below  *)
(* states that for requests, for replies and for the sweep.  It assumes no *)
(* order beyond the one a socket keeps: first in, first out.               *)
(***************************************************************************)
EXTENDS Booking, SequenceTheorems, TLAPS

(* The messages of a queue.                                                *)
Msgs(q) == {q[k] : k \in 1..Len(q)}

(* The sweep may be busy with r: it is given up, and, unless two calls     *)
(* worked on it, for good.                                                 *)
GivenUp(r) == /\ row[r] \in {"expired", "confirmed"}
              /\ row[r] = "expired" \/ r \in overtaken

(* What a call, wherever it is, says of the caller that made it.           *)
Sent(r, call) ==
    /\ (call.op = "RESERVE_REQUEST") <=> (call.by = Booker)
    /\ (call.op = "RESERVE_COMMIT") <=> (call.by \in Confirms)
    /\ call.by = Booker => book[r] # "idle"
    /\ call.by \in Confirms => /\ confirm[call.by].pc \notin {"idle", "read"}
                               /\ confirm[call.by].id = r
                               /\ row[r] # None
    /\ call.by = Sweeper => GivenUp(r)

(* A reply is of the kind its request asks for.                            *)
Answers(m) ==
    /\ m.call.by = Booker => m.type \in {"RECEIPT", "DENY"}
    /\ m.call.by \in Confirms => m.type \in {"COMMITTED", "COMMIT_FAILED"}
    /\ m.call.op = "RESERVATION_STATUS_QUERY" => m.type = "RESERVATION_STATUS"
    /\ m.call.op = "RESERVE_RELEASE" => m.type = "RELEASE_ACK"

CallsKnown ==
    /\ \A m \in Msgs(toNode) : Sent(m.id, m.call)
    /\ \A m \in Msgs(toHub) : Sent(m.id, m.call) /\ Answers(m)
    /\ \A r \in Ids : pending[r] # None =>
          /\ Sent(r, pending[r])
          /\ pending[r].by = Sweeper =>
                (pending[r].op = "RESERVE_RELEASE" <=> sweep.pc = "release")

(* A booking asks the node once, and the node has not heard of the id      *)
(* until then.                                                             *)
AskedOnce ==
    /\ \A r \in Ids : /\ row[r] # None => book[r] = "done"
                      /\ book[r] = "idle" => node[r] = None
    /\ \A m \in Msgs(toNode) : m.call.by = Booker => node[m.id] = None
OneRequest == \A j, k \in 1..Len(toNode) :
    toNode[j].call.by = Booker /\ toNode[k].call.by = Booker
        /\ toNode[j].id = toNode[k].id => j = k

(* The hold behind a receipt stands while its TTL lasts.                   *)
ReceiptStands ==
    /\ \A r \in Ids : book[r] = "receipt" /\ ttl[r] = "fresh" => node[r] \in NodeLive
    /\ \A m \in Msgs(toHub) :
          m.type = "RECEIPT" /\ book[m.id] = "asking" /\ ttl[m.id] = "fresh"
              => node[m.id] \in NodeLive

(* A confirm request is about a held row, the sweep about one given up.    *)
Apart ==
    /\ \A c \in Confirms : confirm[c].pc \in InProgress =>
          /\ confirm[c].id \in Ids /\ row[confirm[c].id] # None
          /\ row[confirm[c].id] = "held" \/ confirm[c].id \in overtaken
    /\ \A r \in Ids : r \in sweep.todo \cup {sweep.id} \cup reconciled => GivenUp(r)
    /\ sweep.pc \in {"query", "confirmed", "release", "mark"} => sweep.id \in Ids

(* COMMITTED is still true when it is acted upon.                          *)
CommittedStands == \A c \in Confirms :
    /\ confirm[c].pc = "awaiting" => \A m \in Msgs(toHub) :
          m.call.by = c /\ m.type = "COMMITTED" =>
              m.id \in overtaken \/ node[m.id] = "confirmed"
    /\ confirm[c].pc = "committed" =>
          confirm[c].id \in overtaken \/ node[confirm[c].id] = "confirmed"

(* Nothing on its way can confirm r at the node again.                     *)
Freed(r) == /\ node[r] # "confirmed"
            /\ \A n \in Msgs(toNode) : n.id = r => n.call.by \notin Confirms

FreedStands ==
    /\ \A m \in Msgs(toHub) : m.call.by = Sweeper /\ m.id \notin overtaken =>
          /\ \A n \in Msgs(toNode) : n.id = m.id => n.call.by \notin Confirms
          /\ m.type = "RELEASE_ACK" \/ m.status # "confirmed" => node[m.id] # "confirmed"
    /\ sweep.pc = "mark" /\ sweep.id \notin overtaken => Freed(sweep.id)
    /\ \A r \in reconciled \ overtaken : Freed(r)

(* The sweep asks about a reservation after all commits of it were sent.   *)
NothingBehind == \A j, k \in 1..Len(toNode) :
    j < k /\ toNode[j].call.by = Sweeper /\ toNode[k].id = toNode[j].id
        => toNode[j].id \in overtaken \/ toNode[k].call.by \notin Confirms

IInv == /\ TypeOK /\ OnlyWaitingCallsWake /\ CallsKnown /\ AskedOnce /\ ReceiptStands
        /\ HeldRowIsBacked /\ Apart /\ CommittedStands /\ ChargedIsReservedUnlessOvertaken
        /\ FreedStands /\ OneRequest /\ NothingBehind

(***************************************************************************)
(* The shapes that steps have.                                             *)
(***************************************************************************)

(* A call is registered, and its message sent if the socket still works.   *)
Sending(r, call) ==
    LET m == [id |-> r, call |-> call] IN
    /\ pending' = [pending EXCEPT ![r] = call]
    /\ UNCHANGED <<up, online, toHub>>
    /\ toNode' \in Seq(Request)
    /\ \A n \in Msgs(toNode') : n \in Msgs(toNode) \/ n = m
    /\ Len(toNode) \in Nat
    /\ \A k \in 1..Len(toNode') :
          IF k \in 1..Len(toNode) THEN toNode'[k] = toNode[k]
                                 ELSE k = Len(toNode) + 1 /\ toNode'[k] = m

(* The node takes m from its queue: there is no second request for the id, *)
(* and nothing behind a message of the sweep can confirm it again.         *)
Taking(m) ==
    /\ m \in Msgs(toNode) /\ toNode' \in Seq(Request) /\ OneRequest' /\ NothingBehind'
    /\ \A n \in Msgs(toNode') :
          /\ n \in Msgs(toNode)
          /\ m.call.by = Booker /\ n.call.by = Booker => n.id # m.id
          /\ m.call.by = Sweeper /\ n.id = m.id
                => m.id \in overtaken \/ n.call.by \notin Confirms
    /\ UNCHANGED <<platform, ttl, up, online, calls, overtaken>>

(* It answers.                                                             *)
Replying(m, type, status) ==
    /\ toHub' \in Seq(Reply)
    /\ \A n \in Msgs(toHub') : \/ n \in Msgs(toHub)
          \/ n = [type |-> type, id |-> m.id, status |-> status, call |-> m.call]

(* The hub takes m from the other one.                                     *)
Delivered(m) ==
    /\ m \in Msgs(toHub) /\ toHub' \in Seq(Reply)
    /\ \A n \in Msgs(toHub') : n \in Msgs(toHub)
    /\ pending' = [pending EXCEPT ![m.id] = None]
    /\ overtaken' = IF pending[m.id] \notin {None, m.call} THEN overtaken \cup {m.id}
                                                           ELSE overtaken
    /\ UNCHANGED <<platform, provider, up, online, toNode>>

(* Lapsed rows expire; a confirm request that was at work knows.           *)
Expiring ==
    /\ row' \in [Ids -> {None, "held", "confirmed", "expired"}]
    /\ \A r \in Ids : \/ row'[r] = row[r]
                      \/ row[r] = "held" /\ row'[r] = "expired" /\ ttl[r] = "over"
    /\ overtaken' \subseteq Ids /\ overtaken \subseteq overtaken'
    /\ \A c \in Confirms : \A r \in Ids :
          confirm[c].pc \in InProgress /\ confirm[c].id = r
              => row'[r] = row[r] \/ r \in overtaken'

(* The node lets lapsed holds go.                                          *)
Lapsing ==
    /\ node' \in [Ids -> {None, "held", "confirmed", "released"}]
    /\ \A r \in Ids : \/ node'[r] = node[r]
                      \/ node[r] = "held" /\ ttl[r] # "fresh" /\ node'[r] = "released"

(* The node grants m: what is still in its way has lapsed.                 *)
Granting(m) ==
    /\ node' \in [Ids -> {None, "held", "confirmed", "released"}]
    /\ node'[m.id] = "held"
    /\ \A r \in Ids : r # m.id =>
          \/ node'[r] = node[r]
          \/ node[r] = "held" /\ ttl[r] # "fresh" /\ node'[r] = "released"
    /\ \A r \in Ids : ttl[r] = "fresh" => node[r] \notin NodeLive

(* A call goes on saying something true of its caller while no handler     *)
(* starts over and no row that is given up is taken back.                  *)
Progress ==
    /\ \A r \in Ids : /\ book[r] # "idle" => book'[r] # "idle"
                      /\ row[r] # None => row'[r] # None
                      /\ GivenUp(r) => GivenUp(r)'
    /\ \A c \in Confirms : confirm[c].pc \notin {"idle", "read"} =>
          confirm'[c].pc \notin {"idle", "read"} /\ confirm'[c].id = confirm[c].id

-----------------------------------------------------------------------------
(* What a message at the end of a queue changes.                           *)
LEMMA Appended ==
    ASSUME NEW S, NEW q \in Seq(S), NEW m \in S
    PROVE  /\ Append(q, m) \in Seq(S)
           /\ Len(q) \in Nat /\ Len(Append(q, m)) = Len(q) + 1
           /\ \A k \in 1..Len(Append(q, m)) :
                 IF k \in 1..Len(q) THEN Append(q, m)[k] = q[k]
                                   ELSE k = Len(q) + 1 /\ Append(q, m)[k] = m
           /\ Msgs(Append(q, m)) = Msgs(q) \cup {m}
<1>1. /\ Append(q, m) \in Seq(S)
      /\ Len(q) \in Nat /\ Len(Append(q, m)) = Len(q) + 1
      /\ \A k \in 1..Len(Append(q, m)) :
            IF k \in 1..Len(q) THEN Append(q, m)[k] = q[k]
                              ELSE k = Len(q) + 1 /\ Append(q, m)[k] = m
  OBVIOUS
<1>2. Msgs(Append(q, m)) = Msgs(q) \cup {m}
  BY <1>1 DEF Msgs
<1> QED BY <1>1, <1>2

(* What taking the first message of a queue changes.                       *)
LEMMA Taken ==
    ASSUME NEW S, NEW q \in Seq(S), q # <<>>
    PROVE  /\ Head(q) \in S /\ Head(q) = q[1] /\ Tail(q) \in Seq(S)
           /\ Len(q) \in Nat /\ 1 \in 1..Len(q) /\ Len(Tail(q)) = Len(q) - 1
           /\ \A k \in 1..Len(Tail(q)) : k + 1 \in 1..Len(q) /\ Tail(q)[k] = q[k + 1]
           /\ Head(q) \in Msgs(q)
           /\ \A m \in Msgs(Tail(q)) : m \in Msgs(q)
<1>1. /\ Head(q) \in S /\ Head(q) = q[1] /\ Tail(q) \in Seq(S)
      /\ Len(q) \in Nat /\ 1 \in 1..Len(q) /\ Len(Tail(q)) = Len(q) - 1
      /\ \A k \in 1..Len(Tail(q)) : k + 1 \in 1..Len(q) /\ Tail(q)[k] = q[k + 1]
  OBVIOUS
<1>2. Head(q) \in Msgs(q) /\ \A m \in Msgs(Tail(q)) : m \in Msgs(q)
  BY <1>1 DEF Msgs
<1> QED BY <1>1, <1>2

(* A queue of messages is a set of messages; an empty one has none.        *)
LEMMA MsgsFacts ==
    /\ \A S : \A q \in Seq(S) : \A m \in Msgs(q) : m \in S
    /\ Msgs(<<>>) = {}
<1>1. ASSUME NEW S, NEW q \in Seq(S), NEW m \in Msgs(q) PROVE m \in S
  BY DEF Msgs
<1>2. Msgs(<<>>) = {}
  BY DEF Msgs
<1> QED BY <1>1, <1>2

(* What a call that is sent adds, whether or not the socket still works.   *)
LEMMA SendAwaitFacts ==
    ASSUME TypeOK, NEW r \in Ids, NEW by \in Owner, NEW op \in Requests,
           SendAwait(r, by, op)
    PROVE  Sending(r, [by |-> by, op |-> op])
<1> DEFINE m == [id |-> r, call |-> [by |-> by, op |-> op]]
<1>1. m \in Request /\ toNode \in Seq(Request)
  BY DEF Request, CallRec, TypeOK
<1>2. CASE up
  BY <1>1, <1>2, Appended DEF SendAwait, Sending
<1>3. CASE ~up
  BY <1>1, <1>3 DEF SendAwait, Sending
<1> QED BY <1>2, <1>3 DEF TypeOK

(* What the node takes from its queue: no second request for the id, and   *)
(* nothing behind a message of the sweep can confirm it again.             *)
LEMMA NodeTakes ==
    ASSUME IInv, toNode # <<>>, toNode' = Tail(toNode),
           UNCHANGED <<platform, ttl, up, online, calls, overtaken>>
    PROVE  Head(toNode) \in Request /\ Taking(Head(toNode))
<1> DEFINE m == Head(toNode)
<1>1. toNode \in Seq(Request)
  BY DEF IInv, TypeOK
<1>2. /\ m \in Request /\ m = toNode[1] /\ toNode' \in Seq(Request)
      /\ Len(toNode) \in Nat /\ 1 \in 1..Len(toNode) /\ Len(toNode') = Len(toNode) - 1
      /\ \A k \in 1..Len(toNode') : k + 1 \in 1..Len(toNode) /\ toNode'[k] = toNode[k + 1]
      /\ m \in Msgs(toNode)
      /\ \A n \in Msgs(toNode') : n \in Msgs(toNode)
  BY <1>1, Taken
<1>3. OneRequest' /\ NothingBehind'
  BY <1>2 DEF IInv, OneRequest, NothingBehind
<1>4. ASSUME NEW n \in Msgs(toNode')
      PROVE  /\ m.call.by = Booker /\ n.call.by = Booker => n.id # m.id
             /\ m.call.by = Sweeper /\ n.id = m.id
                   => m.id \in overtaken \/ n.call.by \notin Confirms
  <2>1. PICK k \in 1..Len(toNode') : n = toNode'[k]
    BY <1>4 DEF Msgs
  <2>2. k + 1 \in 1..Len(toNode) /\ n = toNode[k + 1] /\ 1 < k + 1 /\ 1 # k + 1
    BY <1>2, <2>1
  <2>3. m.call.by = Booker /\ n.call.by = Booker => n.id # m.id
    BY <1>2, <2>2 DEF IInv, OneRequest
  <2>4. m.call.by = Sweeper /\ n.id = m.id
            => m.id \in overtaken \/ n.call.by \notin Confirms
    BY <1>2, <2>2 DEF IInv, NothingBehind
  <2> QED BY <2>3, <2>4
<1> QED BY <1>2, <1>3, <1>4 DEF Taking

(* A reply is added to what is on its way to the platform.                 *)
LEMMA AnswerFacts ==
    ASSUME TypeOK, NEW m \in Request, NEW type \in Replies,
           NEW status \in {None, "held", "confirmed", "released"}, Answer(m, type, status)
    PROVE  Replying(m, type, status)
<1> DEFINE n == [type |-> type, id |-> m.id, status |-> status, call |-> m.call]
<1>1. n \in Reply /\ toHub \in Seq(Reply)
  BY DEF Request, Reply, TypeOK
<1> QED BY <1>1, Appended DEF Answer, Replying

(* What expireStaleHolds does, with the history it leaves.                 *)
LEMMA ExpireFacts ==
    ASSUME TypeOK, ExpireRows
    PROVE  Expiring
BY BookingAssumption DEF TypeOK, ExpireRows, BusyElsewhere, Stale, Expiring

(* What letting lapsed holds go does at the node.                          *)
LEMMA NodeExpiredFacts ==
    ASSUME TypeOK
    PROVE  /\ NodeExpired \in [Ids -> {None, "held", "confirmed", "released"}]
           /\ \A r \in Ids : \/ NodeExpired[r] = node[r]
                             \/ /\ node[r] = "held" /\ ttl[r] # "fresh"
                                /\ NodeExpired[r] = "released"
           /\ \A r \in Ids : node[r] = "held" /\ ttl[r] # "fresh"
                                => NodeExpired[r] = "released"
BY DEF TypeOK, NodeExpired, Lapsed

(* What a grant does at the node.                                          *)
LEMMA GrantFacts ==
    ASSUME TypeOK, NEW m \in Request,
           \A r \in Ids : NodeExpired[r] \notin NodeLive,
           node' = [NodeExpired EXCEPT ![m.id] = "held"]
    PROVE  Granting(m)
<1>1. m.id \in Ids
  BY DEF Request
<1> QED BY <1>1, NodeExpiredFacts, BookingAssumption DEF Granting, NodeLive

(* While there is Progress, a call that said something true still does.    *)
LEMMA SentStays ==
    ASSUME Progress, NEW r \in Ids, NEW call \in CallRec, Sent(r, call)
    PROVE  Sent(r, call)'
BY DEF Progress, Sent

(* Every message is about a reservation and carries a call.                *)
LEMMA MsgTypes ==
    ASSUME TypeOK
    PROVE  /\ \A m \in Msgs(toNode) : m \in Request /\ m.id \in Ids /\ m.call \in CallRec
           /\ \A m \in Msgs(toHub) : m \in Reply /\ m.id \in Ids /\ m.call \in CallRec
           /\ \A r \in Ids : pending[r] # None => pending[r] \in CallRec
<1>1. /\ \A m \in Msgs(toNode) : m \in Request
      /\ \A m \in Msgs(toHub) : m \in Reply
  BY MsgsFacts DEF TypeOK
<1>2. /\ \A m \in Request : m.id \in Ids /\ m.call \in CallRec
      /\ \A m \in Reply : m.id \in Ids /\ m.call \in CallRec
  BY DEF Request, Reply
<1> QED BY <1>1, <1>2 DEF TypeOK

(* A booking expires lapsed rows and asks the node, if it is connected.    *)
LEMMA BookAskStep ==
    ASSUME IInv, NEW r \in Ids, BookAsk(r)
    PROVE  IInv'
<1>1. /\ book[r] = "idle" /\ Expiring
      /\ UNCHANGED <<reconciled, captured, provider, confirm, sweep>>
  BY ExpireFacts DEF IInv, BookAsk
<1>2. ASSUME book' = [book EXCEPT ![r] = "asking"],
             Sending(r, [by |-> Booker, op |-> "RESERVE_REQUEST"])
      PROVE  IInv'
  <2>1. TypeOK'
    BY <1>1, <1>2
       DEF IInv, Expiring, Sending, TypeOK, CallRec, Request, Reply, Requests, Owner,
           Replies, provider
  <2>2. OnlyWaitingCallsWake'
    BY <1>1, <1>2, BookingAssumption
       DEF IInv, Expiring, Sending, TypeOK, Booker, Sweeper, OnlyWaitingCallsWake
  <2>3. AskedOnce'
    BY <1>1, <1>2, BookingAssumption
       DEF IInv, Expiring, Sending, TypeOK, provider, AskedOnce
  <2>4. \A x \in Msgs(toHub) : x.id = r => x.type # "RECEIPT"
    BY <1>1, <1>2, BookingAssumption, MsgTypes
       DEF IInv, CallsKnown, Answers, Sent, Reply, CallRec, Requests, Owner, Booker,
           Sweeper
  <2>5. ReceiptStands'
    BY <1>1, <1>2, BookingAssumption, MsgTypes, <2>4
       DEF IInv, Expiring, Sending, ReceiptStands, NodeLive, provider, TypeOK
  <2>6. HeldRowIsBacked'
    BY <1>1, <1>2 DEF IInv, Expiring, Sending, TypeOK, provider, HeldRowIsBacked
  <2>7. Apart'
    BY <1>1, <1>2, BookingAssumption DEF IInv, Expiring, Sending, TypeOK, Apart, GivenUp
  <2>8. Progress
    BY <1>1, <1>2, BookingAssumption
       DEF IInv, Expiring, Sending, TypeOK, InProgress, provider, Progress, GivenUp
  <2>9. \A x \in Ids : \A z \in CallRec : Sent(x, z) => Sent(x, z)'
    BY <2>8, SentStays
  <2>10. Sent(r, [by |-> Booker, op |-> "RESERVE_REQUEST"])'
    BY <1>1, <1>2, BookingAssumption
       DEF IInv, Expiring, Sending, Sent, TypeOK, Apart, GivenUp, InProgress, Booker,
           Sweeper, SetConfirm, Advanced, platform, SweepAt
  <2>11. CallsKnown'
    BY <1>1, <1>2, BookingAssumption, MsgTypes, <2>9, <2>10
       DEF IInv, Expiring, Sending, InProgress, Booker, provider, Sweeper, CallsKnown,
           Answers, TypeOK
  <2>12. (CommittedStands /\ ChargedIsReservedUnlessOvertaken /\ FreedStands)'
    BY <1>1, <1>2, BookingAssumption
       DEF IInv, Expiring, Sending, TypeOK, provider, CommittedStands,
           ChargedIsReservedUnlessOvertaken, FreedStands, Freed
  <2>13. \A x \in Msgs(toNode) : x.id = r => x.call.by # Booker
    BY <1>1, <1>2 DEF IInv, CallsKnown, Sent
  <2>14. OneRequest'
    BY <1>1, <1>2, BookingAssumption, MsgTypes, <2>13 DEF IInv, Sending, OneRequest, Msgs
  <2>15. NothingBehind'
    BY <1>1, <1>2, BookingAssumption, MsgsFacts, SMTT(60)
       DEF IInv, Expiring, Sending, TypeOK, CallRec, Request, Reply, Requests, Owner,
           Replies, NothingBehind
  <2> QED
    BY <2>1, <2>2, <2>3, <2>5, <2>6, <2>7, <2>11, <2>12, <2>14, <2>15 DEF IInv
<1>3. ASSUME book' = [book EXCEPT ![r] = "done"],
             UNCHANGED <<link, pending>>
      PROVE  IInv'
  <2>1. TypeOK'
    BY <1>1, <1>3 DEF IInv, Expiring, TypeOK, provider, link
  <2>2. (OnlyWaitingCallsWake /\ AskedOnce /\ ReceiptStands /\ HeldRowIsBacked)'
    BY <1>1, <1>3, BookingAssumption
       DEF IInv, Expiring, TypeOK, provider, link, OnlyWaitingCallsWake, AskedOnce,
           ReceiptStands, HeldRowIsBacked
  <2>3. Apart'
    BY <1>1, <1>3, BookingAssumption DEF IInv, Expiring, TypeOK, Apart, GivenUp
  <2>4. Progress
    BY <1>1, <1>3, BookingAssumption
       DEF IInv, Expiring, TypeOK, InProgress, provider, link, Progress, GivenUp
  <2>5. \A x \in Ids : \A z \in CallRec : Sent(x, z) => Sent(x, z)'
    BY <2>4, SentStays
  <2>6. CallsKnown'
    BY <1>1, <1>3, BookingAssumption, MsgTypes, <2>5
       DEF IInv, Expiring, InProgress, provider, link, CallsKnown, Answers
  <2>7. (CommittedStands /\ ChargedIsReservedUnlessOvertaken /\ FreedStands)'
    BY <1>1, <1>3
       DEF IInv, Expiring, TypeOK, provider, link, CommittedStands,
           ChargedIsReservedUnlessOvertaken, FreedStands, Freed
  <2>8. (OneRequest /\ NothingBehind)'
    BY <1>1, <1>3 DEF IInv, Expiring, TypeOK, link, OneRequest, NothingBehind
  <2> QED
    BY <2>1, <2>2, <2>3, <2>6, <2>7, <2>8 DEF IInv
<1> QED
  BY <1>2, <1>3, SendAwaitFacts DEF IInv, BookAsk, Owner, Requests

(* Its call may give up waiting.                                           *)
LEMMA BookTimeoutStep ==
    ASSUME IInv, NEW r \in Ids, BookTimeout(r)
    PROVE  IInv'
<1>1. TypeOK'
  BY DEF IInv, BookTimeout, TypeOK, TimerFires, platform, provider, link
<1>2. (OnlyWaitingCallsWake /\ AskedOnce /\ ReceiptStands /\ HeldRowIsBacked)'
  BY DEF IInv, BookTimeout, TypeOK, TimerFires, platform, provider, link,
         OnlyWaitingCallsWake, AskedOnce, ReceiptStands, HeldRowIsBacked
<1>3. Apart'
  BY DEF IInv, BookTimeout, TypeOK, TimerFires, platform, Apart, GivenUp
<1>4. CallsKnown'
  BY DEF IInv, BookTimeout, TypeOK, TimerFires, platform, link, CallsKnown, Sent, Answers,
         GivenUp
<1>5. (CommittedStands /\ ChargedIsReservedUnlessOvertaken /\ FreedStands)'
  BY DEF IInv, BookTimeout, TypeOK, TimerFires, platform, provider, link, CommittedStands,
         ChargedIsReservedUnlessOvertaken, FreedStands, Freed
<1>6. (OneRequest /\ NothingBehind)'
  BY DEF IInv, BookTimeout, TypeOK, TimerFires, link, OneRequest, NothingBehind
<1> QED
  BY <1>1, <1>2, <1>3, <1>4, <1>5, <1>6 DEF IInv

(* The receipt becomes a row while the hold's TTL lasts and the slot is    *)
(* free.                                                                   *)
LEMMA BookInsertStep ==
    ASSUME IInv, NEW r \in Ids, BookInsert(r)
    PROVE  IInv'
<1>1. TypeOK'
  BY DEF IInv, BookInsert, TypeOK, provider, link
<1>2. (OnlyWaitingCallsWake /\ AskedOnce /\ ReceiptStands /\ HeldRowIsBacked)'
  BY DEF IInv, BookInsert, TypeOK, provider, link, OnlyWaitingCallsWake, AskedOnce,
         ReceiptStands, HeldRowIsBacked
<1>3. Apart'
  BY BookingAssumption DEF IInv, BookInsert, TypeOK, Apart, GivenUp, AskedOnce
<1>4. CallsKnown'
  BY BookingAssumption
     DEF IInv, BookInsert, TypeOK, link, CallsKnown, Sent, Answers, GivenUp, AskedOnce
<1>5. (CommittedStands /\ ChargedIsReservedUnlessOvertaken /\ FreedStands)'
  BY DEF IInv, BookInsert, TypeOK, RowLive, provider, link, CommittedStands,
         ChargedIsReservedUnlessOvertaken, FreedStands, Freed
<1>6. (OneRequest /\ NothingBehind)'
  BY DEF IInv, BookInsert, TypeOK, link, OneRequest, NothingBehind
<1> QED
  BY <1>1, <1>2, <1>3, <1>4, <1>5, <1>6 DEF IInv

(* A confirm request reads a held row.                                     *)
LEMMA ConfirmReadStep ==
    ASSUME IInv, NEW c \in Confirms, NEW r \in Ids, ConfirmRead(c, r)
    PROVE  IInv'
<1>1. TypeOK'
  BY DEF IInv, ConfirmRead, TypeOK, InProgress, platform, provider, link
<1>2. (OnlyWaitingCallsWake /\ AskedOnce /\ ReceiptStands /\ HeldRowIsBacked)'
  BY DEF IInv, ConfirmRead, TypeOK, platform, provider, link, OnlyWaitingCallsWake,
         AskedOnce, ReceiptStands, HeldRowIsBacked
<1>3. Apart'
  BY BookingAssumption DEF IInv, ConfirmRead, TypeOK, platform, Apart, GivenUp
<1>4. CallsKnown'
  BY DEF IInv, ConfirmRead, TypeOK, platform, link, CallsKnown, Sent, Answers, GivenUp
<1>5. (CommittedStands /\ ChargedIsReservedUnlessOvertaken /\ FreedStands)'
  BY DEF IInv, ConfirmRead, TypeOK, platform, provider, link, CommittedStands,
         ChargedIsReservedUnlessOvertaken, FreedStands, Freed
<1>6. (OneRequest /\ NothingBehind)'
  BY DEF IInv, ConfirmRead, TypeOK, link, OneRequest, NothingBehind
<1> QED
  BY <1>1, <1>2, <1>3, <1>4, <1>5, <1>6 DEF IInv

(* It asks the node to commit; no sweep has asked about the reservation.   *)
LEMMA ConfirmSendStep ==
    ASSUME IInv, NEW c \in Confirms, ConfirmSend(c)
    PROVE  IInv'
<1>1. /\ confirm[c].pc = "read" /\ confirm[c].id \in Ids
      /\ UNCHANGED <<platform, provider, book, sweep, overtaken>>
  BY DEF IInv, ConfirmSend, Apart, InProgress
<1>2. ASSUME SetConfirm(c, "awaiting"),
             Sending(confirm[c].id, [by |-> c, op |-> "RESERVE_COMMIT"])
      PROVE  IInv'
  <2>1. TypeOK'
    BY <1>1, <1>2
       DEF IInv, Sending, TypeOK, InProgress, CallRec, Request, Reply, Requests, Owner,
           Replies, SetConfirm, platform, provider, Advanced
  <2>2. (OnlyWaitingCallsWake /\ AskedOnce /\ ReceiptStands /\ HeldRowIsBacked)'
    BY <1>1, <1>2, BookingAssumption
       DEF IInv, Sending, TypeOK, SetConfirm, platform, provider, Advanced,
           OnlyWaitingCallsWake, AskedOnce, ReceiptStands, HeldRowIsBacked
  <2>3. Apart'
    BY <1>1, <1>2, SMTT(40)
       DEF IInv, Sending, TypeOK, SetConfirm, platform, Advanced, Apart, GivenUp
  <2>4. CallsKnown'
    BY <1>1, <1>2, BookingAssumption
       DEF IInv, Sending, TypeOK, SetConfirm, platform, Advanced, CallsKnown, Sent,
           Answers, GivenUp, Apart
  <2>5. (CommittedStands /\ ChargedIsReservedUnlessOvertaken /\ FreedStands)'
    BY <1>1, <1>2, BookingAssumption, SMTT(30)
       DEF IInv, Sending, TypeOK, SetConfirm, platform, provider, Advanced,
           CommittedStands, ChargedIsReservedUnlessOvertaken, FreedStands, Freed,
           CallsKnown, Sent, Answers, GivenUp, Apart, Request, CallRec, Requests, Owner,
           Booker, Sweeper
  <2>6. OneRequest'
    BY <1>1, <1>2, BookingAssumption, MsgsFacts
       DEF IInv, Sending, TypeOK, CallRec, Request, Reply, Requests, Owner, Replies,
           SetConfirm, Advanced, OneRequest
  <2>7. \A x \in Msgs(toNode) :
            x.id = confirm[c].id /\ x.call.by = Sweeper => x.id \in overtaken
    BY <1>1, <1>2, BookingAssumption, MsgTypes
       DEF IInv, CallsKnown, Sent, GivenUp, Apart, InProgress
  <2>8. NothingBehind'
    BY <1>1, <1>2, BookingAssumption, MsgTypes, <2>7, SMTT(40)
       DEF IInv, Sending, NothingBehind, Msgs, Booker, Sweeper
  <2> QED
    BY <2>1, <2>2, <2>3, <2>4, <2>5, <2>6, <2>8 DEF IInv
<1>3. ASSUME SetConfirm(c, "lost"),
             UNCHANGED <<link, pending>>
      PROVE  IInv'
  <2>1. TypeOK'
    BY <1>1, <1>3
       DEF IInv, TypeOK, InProgress, SetConfirm, platform, provider, link, Advanced
  <2>2. (OnlyWaitingCallsWake /\ AskedOnce /\ ReceiptStands /\ HeldRowIsBacked)'
    BY <1>1, <1>3
       DEF IInv, TypeOK, SetConfirm, platform, provider, link, Advanced,
           OnlyWaitingCallsWake, AskedOnce, ReceiptStands, HeldRowIsBacked
  <2>3. Apart'
    BY <1>1, <1>3 DEF IInv, TypeOK, SetConfirm, platform, Advanced, Apart, GivenUp
  <2>4. CallsKnown'
    BY <1>1, <1>3
       DEF IInv, TypeOK, SetConfirm, platform, link, Advanced, CallsKnown, Sent, Answers,
           GivenUp
  <2>5. (CommittedStands /\ ChargedIsReservedUnlessOvertaken /\ FreedStands)'
    BY <1>1, <1>3
       DEF IInv, TypeOK, SetConfirm, platform, provider, link, Advanced, CommittedStands,
           ChargedIsReservedUnlessOvertaken, FreedStands, Freed
  <2>6. (OneRequest /\ NothingBehind)'
    BY <1>1, <1>3 DEF IInv, TypeOK, SetConfirm, link, Advanced, OneRequest, NothingBehind
  <2> QED
    BY <2>1, <2>2, <2>3, <2>4, <2>5, <2>6 DEF IInv
<1> QED
  BY <1>1, <1>2, <1>3, SendAwaitFacts DEF IInv, ConfirmSend, Owner, Requests

(* It may give up waiting.                                                 *)
LEMMA ConfirmTimeoutStep ==
    ASSUME IInv, NEW c \in Confirms, ConfirmTimeout(c)
    PROVE  IInv'
<1>1. TypeOK'
  BY DEF IInv, ConfirmTimeout, TypeOK, InProgress, SetConfirm, TimerFires, platform,
         provider, link, Advanced, Apart
<1>2. (OnlyWaitingCallsWake /\ AskedOnce /\ ReceiptStands /\ HeldRowIsBacked)'
  BY DEF IInv, ConfirmTimeout, TypeOK, SetConfirm, TimerFires, platform, provider, link,
         Advanced, OnlyWaitingCallsWake, AskedOnce, ReceiptStands, HeldRowIsBacked
<1>3. Apart'
  BY DEF IInv, ConfirmTimeout, TypeOK, SetConfirm, TimerFires, platform, provider,
         Advanced, Apart, GivenUp
<1>4. CallsKnown'
  BY DEF IInv, ConfirmTimeout, TypeOK, SetConfirm, TimerFires, platform, link, Advanced,
         CallsKnown, Sent, Answers, GivenUp
<1>5. (CommittedStands /\ ChargedIsReservedUnlessOvertaken /\ FreedStands)'
  BY DEF IInv, ConfirmTimeout, TypeOK, SetConfirm, TimerFires, platform, provider, link,
         Advanced, CommittedStands, ChargedIsReservedUnlessOvertaken, FreedStands, Freed
<1>6. (OneRequest /\ NothingBehind)'
  BY DEF IInv, ConfirmTimeout, TypeOK, SetConfirm, TimerFires, link, Advanced, OneRequest,
         NothingBehind
<1> QED
  BY <1>1, <1>2, <1>3, <1>4, <1>5, <1>6 DEF IInv

(* A commit nobody answered expires the row.                               *)
LEMMA ConfirmGiveUpStep ==
    ASSUME IInv, NEW c \in Confirms, ConfirmGiveUp(c)
    PROVE  IInv'
<1>1. TypeOK'
  BY DEF IInv, ConfirmGiveUp, TypeOK, BusyElsewhere, SetConfirm, provider, link, Advanced,
         Apart
<1>2. (OnlyWaitingCallsWake /\ AskedOnce /\ ReceiptStands /\ HeldRowIsBacked)'
  BY DEF IInv, ConfirmGiveUp, TypeOK, BusyElsewhere, SetConfirm, provider, link, Advanced,
         OnlyWaitingCallsWake, AskedOnce, ReceiptStands, HeldRowIsBacked, Apart
<1>3. Apart'
  BY BookingAssumption
     DEF IInv, ConfirmGiveUp, TypeOK, InProgress, BusyElsewhere, SetConfirm, Advanced,
         Apart, GivenUp
<1>4. CallsKnown'
  BY BookingAssumption
     DEF IInv, ConfirmGiveUp, TypeOK, BusyElsewhere, SetConfirm, link, Advanced,
         CallsKnown, Sent, Answers, GivenUp
<1>5. (CommittedStands /\ ChargedIsReservedUnlessOvertaken /\ FreedStands)'
  BY DEF IInv, ConfirmGiveUp, TypeOK, BusyElsewhere, SetConfirm, provider, link, Advanced,
         CommittedStands, ChargedIsReservedUnlessOvertaken, FreedStands, Freed, Apart
<1>6. (OneRequest /\ NothingBehind)'
  BY DEF IInv, ConfirmGiveUp, TypeOK, BusyElsewhere, SetConfirm, link, Advanced,
         OneRequest, NothingBehind
<1> QED
  BY <1>1, <1>2, <1>3, <1>4, <1>5, <1>6 DEF IInv

(* COMMITTED takes the money and confirms the row, unless somebody else    *)
(* did.                                                                    *)
LEMMA ConfirmCaptureStep ==
    ASSUME IInv, NEW c \in Confirms, ConfirmCapture(c)
    PROVE  IInv'
<1>1. TypeOK'
  BY BookingAssumption, SMTT(40)
     DEF IInv, ConfirmCapture, TypeOK, BusyElsewhere, SetConfirm, provider, link,
         Advanced, OnlyWaitingCallsWake, AskedOnce, ReceiptStands, Apart, OneRequest
<1>2. (OnlyWaitingCallsWake /\ AskedOnce /\ ReceiptStands /\ HeldRowIsBacked)'
  BY DEF IInv, ConfirmCapture, TypeOK, BusyElsewhere, SetConfirm, provider, link,
         Advanced, OnlyWaitingCallsWake, AskedOnce, ReceiptStands, HeldRowIsBacked, Apart
<1>3. Apart'
  BY BookingAssumption
     DEF IInv, ConfirmCapture, TypeOK, InProgress, BusyElsewhere, SetConfirm, Advanced,
         Apart, GivenUp
<1>4. Progress
  BY BookingAssumption, MsgsFacts
     DEF IInv, ConfirmCapture, TypeOK, InProgress, CallRec, Request, Reply, Requests,
         Owner, Replies, Booker, Sweeper, RowLive, BusyElsewhere, SetConfirm, provider,
         link, Advanced, Progress, GivenUp, Apart
<1>5. \A x \in Ids : \A z \in CallRec : Sent(x, z) => Sent(x, z)'
  BY <1>4, SentStays
<1>6. CallsKnown'
  BY BookingAssumption, MsgTypes, <1>5
     DEF IInv, ConfirmCapture, RowLive, BusyElsewhere, SetConfirm, provider, link,
         InProgress, Advanced, CallsKnown, Answers
<1>7. (CommittedStands /\ ChargedIsReservedUnlessOvertaken /\ FreedStands)'
  BY SMTT(40) DEF IInv, ConfirmCapture, TypeOK, BusyElsewhere, SetConfirm, provider, link,
         Advanced, CommittedStands, ChargedIsReservedUnlessOvertaken, FreedStands, Freed,
         Apart
<1>8. (OneRequest /\ NothingBehind)'
  BY DEF IInv, ConfirmCapture, TypeOK, BusyElsewhere, SetConfirm, link, Advanced,
         OneRequest, NothingBehind
<1> QED
  BY <1>1, <1>2, <1>3, <1>6, <1>7, <1>8 DEF IInv

(* The sweep takes up the rows that were given up.                         *)
LEMMA SweepStartStep ==
    ASSUME IInv, SweepStart
    PROVE  IInv'
<1>1. TypeOK'
  BY DEF IInv, SweepStart, TypeOK, platform, provider, link
<1>2. (OnlyWaitingCallsWake /\ AskedOnce /\ ReceiptStands /\ HeldRowIsBacked)'
  BY DEF IInv, SweepStart, TypeOK, platform, provider, link, OnlyWaitingCallsWake,
         AskedOnce, ReceiptStands, HeldRowIsBacked
<1>3. Apart'
  BY BookingAssumption DEF IInv, SweepStart, TypeOK, platform, Apart, GivenUp
<1>4. CallsKnown'
  BY DEF IInv, SweepStart, TypeOK, platform, link, CallsKnown, Sent, Answers, GivenUp
<1>5. (CommittedStands /\ ChargedIsReservedUnlessOvertaken /\ FreedStands)'
  BY DEF IInv, SweepStart, TypeOK, platform, provider, link, CommittedStands,
         ChargedIsReservedUnlessOvertaken, FreedStands, Freed
<1>6. (OneRequest /\ NothingBehind)'
  BY DEF IInv, SweepStart, TypeOK, link, OneRequest, NothingBehind
<1> QED
  BY <1>1, <1>2, <1>3, <1>4, <1>5, <1>6 DEF IInv

(* It asks the node about one of them.                                     *)
LEMMA SweepQueryStep ==
    ASSUME IInv, NEW r \in Ids, SweepQuery(r)
    PROVE  IInv'
<1>1. /\ sweep.pc = "next" /\ r \in sweep.todo
      /\ UNCHANGED <<platform, provider, book, confirm, overtaken>>
  BY DEF SweepQuery
<1>2. ASSUME sweep' = [pc |-> "query", id |-> r, todo |-> sweep.todo \ {r}],
             Sending(r, [by |-> Sweeper, op |-> "RESERVATION_STATUS_QUERY"])
      PROVE  IInv'
  <2>1. TypeOK'
    BY <1>1, <1>2
       DEF IInv, Sending, TypeOK, CallRec, Request, Reply, Requests, Owner, Replies,
           platform, provider
  <2>2. (OnlyWaitingCallsWake /\ AskedOnce /\ ReceiptStands /\ HeldRowIsBacked)'
    BY <1>1, <1>2, BookingAssumption
       DEF IInv, Sending, TypeOK, Booker, Sweeper, platform, provider,
           OnlyWaitingCallsWake, AskedOnce, ReceiptStands, HeldRowIsBacked
  <2>3. Apart'
    BY <1>1, <1>2 DEF IInv, Sending, TypeOK, platform, Apart, GivenUp
  <2>4. CallsKnown'
    BY <1>1, <1>2, BookingAssumption
       DEF IInv, Sending, TypeOK, Booker, Sweeper, platform, CallsKnown, Sent, Answers,
           GivenUp, Apart
  <2>5. (CommittedStands /\ ChargedIsReservedUnlessOvertaken /\ FreedStands)'
    BY <1>1, <1>2, BookingAssumption
       DEF IInv, Sending, TypeOK, platform, provider, CommittedStands,
           ChargedIsReservedUnlessOvertaken, FreedStands, Freed
  <2>6. OneRequest'
    BY <1>1, <1>2, BookingAssumption, MsgsFacts, SMTT(60)
       DEF IInv, Sending, TypeOK, Booker, Sweeper, platform, OneRequest, NothingBehind,
           Request, provider, CallRec, Requests, Owner
  <2>7. NothingBehind'
    BY <1>1, <1>2, BookingAssumption, SMTT(40) DEF IInv, Sending, NothingBehind, Booker, Sweeper
  <2> QED
    BY <2>1, <2>2, <2>3, <2>4, <2>5, <2>6, <2>7 DEF IInv
<1>3. ASSUME sweep' = [pc |-> "next", id |-> sweep.id, todo |-> sweep.todo \ {r}],
             UNCHANGED <<link, pending>>
      PROVE  IInv'
  <2>1. TypeOK'
    BY <1>1, <1>3 DEF IInv, TypeOK, platform, provider, link
  <2>2. (OnlyWaitingCallsWake /\ AskedOnce /\ ReceiptStands /\ HeldRowIsBacked)'
    BY <1>1, <1>3
       DEF IInv, TypeOK, platform, provider, link, OnlyWaitingCallsWake, AskedOnce,
           ReceiptStands, HeldRowIsBacked
  <2>3. Apart'
    BY <1>1, <1>3 DEF IInv, TypeOK, platform, Apart, GivenUp
  <2>4. CallsKnown'
    BY <1>1, <1>3 DEF IInv, TypeOK, platform, link, CallsKnown, Sent, Answers, GivenUp
  <2>5. (CommittedStands /\ ChargedIsReservedUnlessOvertaken /\ FreedStands)'
    BY <1>1, <1>3
       DEF IInv, TypeOK, platform, provider, link, CommittedStands,
           ChargedIsReservedUnlessOvertaken, FreedStands, Freed
  <2>6. (OneRequest /\ NothingBehind)'
    BY <1>1, <1>3 DEF IInv, TypeOK, link, OneRequest, NothingBehind
  <2> QED
    BY <2>1, <2>2, <2>3, <2>4, <2>5, <2>6 DEF IInv
<1> QED
  BY <1>2, <1>3, SendAwaitFacts DEF IInv, SweepQuery, Owner, Requests

(* It has a reservation released that the node still confirms.             *)
LEMMA SweepReleaseStep ==
    ASSUME IInv, SweepRelease
    PROVE  IInv'
<1>1. PICK r \in Ids : /\ sweep.pc = "confirmed" /\ sweep.id = r
                     /\ UNCHANGED <<platform, provider, book, confirm, overtaken>>
  BY DEF IInv, Apart, SweepRelease
<1>2. ASSUME sweep' = SweepAt("release"),
             Sending(r, [by |-> Sweeper, op |-> "RESERVE_RELEASE"])
      PROVE  IInv'
  <2>1. TypeOK'
    BY <1>1, <1>2
       DEF IInv, Sending, TypeOK, CallRec, Request, Reply, Requests, Owner, Replies,
           SweepAt, platform, provider
  <2>2. (OnlyWaitingCallsWake /\ AskedOnce /\ ReceiptStands /\ HeldRowIsBacked)'
    BY <1>1, <1>2, BookingAssumption
       DEF IInv, Sending, TypeOK, Booker, Sweeper, SweepAt, platform, provider,
           OnlyWaitingCallsWake, AskedOnce, ReceiptStands, HeldRowIsBacked
  <2>3. Apart'
    BY <1>1, <1>2 DEF IInv, Sending, TypeOK, SweepAt, platform, Apart, GivenUp
  <2>4. Progress
    BY <1>1, <1>2, BookingAssumption
       DEF IInv, Sending, TypeOK, SweepAt, platform, provider, Progress, GivenUp,
           InProgress
  <2>5. \A x \in Ids : \A z \in CallRec : Sent(x, z) => Sent(x, z)'
    BY <2>4, SentStays
  <2>6. Sent(r, [by |-> Sweeper, op |-> "RESERVE_RELEASE"])'
    BY <1>1, <1>2, BookingAssumption
       DEF IInv, Sending, Sent, TypeOK, Apart, GivenUp, InProgress, Booker, Sweeper,
           SetConfirm, Advanced, platform, SweepAt
  <2>7. \A x \in Ids : x # sweep.id /\ pending[x] # None => pending[x].by # Sweeper
    BY DEF IInv, OnlyWaitingCallsWake
  <2>8. \A x \in Ids : pending'[x] # None =>
            \/ x = r /\ pending'[x] = [by |-> Sweeper, op |-> "RESERVE_RELEASE"]
            \/ pending'[x] = pending[x] /\ pending[x] # None /\ pending[x].by # Sweeper
    BY <1>1, <1>2, <2>7 DEF IInv, Sending, TypeOK
  <2>9. CallsKnown'
    BY <1>1, <1>2, BookingAssumption, MsgTypes, <2>5, <2>6, <2>8
       DEF IInv, Sending, CallsKnown, Answers, SweepAt, platform, provider, link
  <2>10. (CommittedStands /\ ChargedIsReservedUnlessOvertaken /\ FreedStands)'
    BY <1>1, <1>2, BookingAssumption
       DEF IInv, Sending, TypeOK, SweepAt, platform, provider, CommittedStands,
           ChargedIsReservedUnlessOvertaken, FreedStands, Freed
  <2>11. OneRequest'
    BY <1>1, <1>2, SMTT(30)
       DEF IInv, Sending, TypeOK, CallRec, Request, Reply, Requests, Owner, Replies,
           Booker, Sweeper, SweepAt, OneRequest, NothingBehind
  <2>12. NothingBehind'
    BY <1>1, <1>2, BookingAssumption, SMTT(40) DEF IInv, Sending, TypeOK, SweepAt, NothingBehind
  <2> QED
    BY <2>1, <2>2, <2>3, <2>9, <2>10, <2>11, <2>12 DEF IInv
<1>3. ASSUME sweep' = NextRow,
             UNCHANGED <<link, pending>>
      PROVE  IInv'
  <2>1. TypeOK'
    BY <1>1, <1>3 DEF IInv, TypeOK, NextRow, platform, provider, link
  <2>2. (OnlyWaitingCallsWake /\ AskedOnce /\ ReceiptStands /\ HeldRowIsBacked)'
    BY <1>1, <1>3
       DEF IInv, TypeOK, NextRow, platform, provider, link, OnlyWaitingCallsWake,
           AskedOnce, ReceiptStands, HeldRowIsBacked
  <2>3. Apart'
    BY <1>1, <1>3, BookingAssumption DEF IInv, TypeOK, NextRow, platform, Apart, GivenUp
  <2>4. CallsKnown'
    BY <1>1, <1>3
       DEF IInv, TypeOK, NextRow, platform, link, CallsKnown, Sent, Answers, GivenUp
  <2>5. (CommittedStands /\ ChargedIsReservedUnlessOvertaken /\ FreedStands)'
    BY <1>1, <1>3
       DEF IInv, TypeOK, NextRow, platform, provider, link, CommittedStands,
           ChargedIsReservedUnlessOvertaken, FreedStands, Freed
  <2>6. (OneRequest /\ NothingBehind)'
    BY <1>1, <1>3 DEF IInv, TypeOK, NextRow, link, OneRequest, NothingBehind
  <2> QED
    BY <2>1, <2>2, <2>3, <2>4, <2>5, <2>6 DEF IInv
<1> QED
  BY <1>1, <1>2, <1>3, SendAwaitFacts DEF IInv, SweepRelease, Owner, Requests

(* It may give up waiting, and goes on with the next row.                  *)
LEMMA SweepTimeoutStep ==
    ASSUME IInv, SweepTimeout
    PROVE  IInv'
<1>1. /\ sweep.pc \in {"query", "release"} /\ sweep.id \in Ids /\ sweep' = NextRow
      /\ UNCHANGED <<platform, provider, link, book, confirm>>
  BY DEF IInv, Apart, SweepTimeout
<1>2. PICK call : TimerFires(sweep.id, call)
  BY DEF SweepTimeout
<1>3. TypeOK'
  BY <1>1, <1>2 DEF IInv, TypeOK, TimerFires, NextRow, platform, provider, link
<1>4. (OnlyWaitingCallsWake /\ AskedOnce /\ ReceiptStands /\ HeldRowIsBacked)'
  BY <1>1, <1>2
     DEF IInv, TypeOK, TimerFires, NextRow, platform, provider, link,
         OnlyWaitingCallsWake, AskedOnce, ReceiptStands, HeldRowIsBacked
<1>5. Apart'
  BY <1>1, <1>2, BookingAssumption
     DEF IInv, TypeOK, TimerFires, NextRow, platform, Apart, GivenUp
<1>6. Progress
  BY <1>1, <1>2, BookingAssumption
     DEF IInv, TypeOK, TimerFires, NextRow, platform, provider, link, Progress, GivenUp,
         InProgress
<1>7. \A x \in Ids : \A z \in CallRec : Sent(x, z) => Sent(x, z)'
  BY <1>6, SentStays
<1>8. \A x \in Ids : x # sweep.id /\ pending[x] # None => pending[x].by # Sweeper
  BY DEF IInv, OnlyWaitingCallsWake
<1>9. \A x \in Ids : pending'[x] # None
          => pending[x] # None /\ pending'[x] = pending[x] /\ pending[x].by # Sweeper
  BY <1>1, <1>2, BookingAssumption, <1>8 DEF IInv, TypeOK, TimerFires
<1>10. CallsKnown'
  BY <1>1, <1>2, BookingAssumption, MsgTypes, <1>7, <1>9
     DEF IInv, CallsKnown, Answers, SweepAt, platform, provider, link
<1>11. (CommittedStands /\ ChargedIsReservedUnlessOvertaken /\ FreedStands)'
  BY <1>1, <1>2
     DEF IInv, TypeOK, TimerFires, NextRow, platform, provider, link, CommittedStands,
         ChargedIsReservedUnlessOvertaken, FreedStands, Freed
<1>12. (OneRequest /\ NothingBehind)'
  BY <1>1, <1>2 DEF IInv, TypeOK, TimerFires, NextRow, link, OneRequest, NothingBehind
<1> QED
  BY <1>3, <1>4, <1>5, <1>10, <1>11, <1>12 DEF IInv

(* What the node no longer confirms is reconciled.                         *)
LEMMA SweepMarkStep ==
    ASSUME IInv, SweepMark
    PROVE  IInv'
<1>1. TypeOK'
  BY DEF IInv, SweepMark, TypeOK, NextRow, provider, link, Apart
<1>2. (OnlyWaitingCallsWake /\ AskedOnce /\ ReceiptStands /\ HeldRowIsBacked)'
  BY DEF IInv, SweepMark, TypeOK, NextRow, provider, link, OnlyWaitingCallsWake,
         AskedOnce, ReceiptStands, HeldRowIsBacked
<1>3. Apart'
  BY BookingAssumption DEF IInv, SweepMark, TypeOK, NextRow, Apart, GivenUp
<1>4. CallsKnown'
  BY DEF IInv, SweepMark, TypeOK, NextRow, link, CallsKnown, Sent, Answers, GivenUp
<1>5. (CommittedStands /\ ChargedIsReservedUnlessOvertaken /\ FreedStands)'
  BY DEF IInv, SweepMark, TypeOK, NextRow, provider, link, CommittedStands,
         ChargedIsReservedUnlessOvertaken, FreedStands, Freed
<1>6. (OneRequest /\ NothingBehind)'
  BY DEF IInv, SweepMark, TypeOK, NextRow, link, OneRequest, NothingBehind
<1> QED
  BY <1>1, <1>2, <1>3, <1>4, <1>5, <1>6 DEF IInv

(* The sweep ends.                                                         *)
LEMMA SweepEndStep ==
    ASSUME IInv, SweepEnd
    PROVE  IInv'
<1>1. TypeOK'
  BY DEF IInv, SweepEnd, TypeOK, SweepAt, platform, provider, link
<1>2. (OnlyWaitingCallsWake /\ AskedOnce /\ ReceiptStands /\ HeldRowIsBacked)'
  BY DEF IInv, SweepEnd, TypeOK, SweepAt, platform, provider, link, OnlyWaitingCallsWake,
         AskedOnce, ReceiptStands, HeldRowIsBacked
<1>3. Apart'
  BY DEF IInv, SweepEnd, TypeOK, SweepAt, platform, Apart, GivenUp
<1>4. CallsKnown'
  BY DEF IInv, SweepEnd, TypeOK, SweepAt, platform, link, CallsKnown, Sent, Answers,
         GivenUp
<1>5. (CommittedStands /\ ChargedIsReservedUnlessOvertaken /\ FreedStands)'
  BY DEF IInv, SweepEnd, TypeOK, SweepAt, platform, provider, link, CommittedStands,
         ChargedIsReservedUnlessOvertaken, FreedStands, Freed
<1>6. (OneRequest /\ NothingBehind)'
  BY DEF IInv, SweepEnd, TypeOK, SweepAt, link, OneRequest, NothingBehind
<1> QED
  BY <1>1, <1>2, <1>3, <1>4, <1>5, <1>6 DEF IInv

(* Lapsed rows expire.                                                     *)
LEMMA ExpireStaleHoldsStep ==
    ASSUME IInv, ExpireStaleHolds
    PROVE  IInv'
<1>1. Expiring
  BY ExpireFacts DEF IInv, ExpireStaleHolds
<1>2. TypeOK'
  BY <1>1 DEF IInv, ExpireStaleHolds, Expiring, TypeOK, provider, link, calls
<1>3. (OnlyWaitingCallsWake /\ AskedOnce /\ ReceiptStands /\ HeldRowIsBacked)'
  BY <1>1, BookingAssumption
     DEF IInv, ExpireStaleHolds, Expiring, TypeOK, provider, link, calls,
         OnlyWaitingCallsWake, AskedOnce, ReceiptStands, HeldRowIsBacked
<1>4. Apart'
  BY <1>1, BookingAssumption
     DEF IInv, ExpireStaleHolds, Expiring, Apart, GivenUp, InProgress, TypeOK, calls
<1>5. Progress
  BY <1>1, BookingAssumption
     DEF IInv, ExpireStaleHolds, Expiring, TypeOK, InProgress, Stale, ExpireRows,
         provider, link, calls, BusyElsewhere, Progress, GivenUp
<1>6. \A x \in Ids : \A z \in CallRec : Sent(x, z) => Sent(x, z)'
  BY <1>5, SentStays
<1>7. CallsKnown'
  BY <1>1, BookingAssumption, MsgTypes, <1>6
     DEF IInv, ExpireStaleHolds, Expiring, InProgress, Stale, ExpireRows, provider, link,
         calls, BusyElsewhere, CallsKnown, Answers
<1>8. (CommittedStands /\ ChargedIsReservedUnlessOvertaken /\ FreedStands)'
  BY <1>1
     DEF IInv, ExpireStaleHolds, Expiring, TypeOK, provider, link, calls, CommittedStands,
         ChargedIsReservedUnlessOvertaken, FreedStands, Freed
<1>9. (OneRequest /\ NothingBehind)'
  BY <1>1 DEF IInv, ExpireStaleHolds, Expiring, TypeOK, link, OneRequest, NothingBehind
<1> QED
  BY <1>2, <1>3, <1>4, <1>7, <1>8, <1>9 DEF IInv

(* A reply wakes whoever the id's entry names, and says something true of  *)
(* it.                                                                     *)
LEMMA HubReceiveStep ==
    ASSUME IInv, HubReceive
    PROVE  IInv'
<1>1. toHub \in Seq(Reply)
  BY DEF IInv, TypeOK
<1>2. PICK m \in Reply : m = Head(toHub) /\ online /\ Delivered(m)
  BY <1>1, Taken DEF HubReceive, Delivered
<1>3. /\ m.id \in Ids /\ m.call \in CallRec /\ Sent(m.id, m.call) /\ Answers(m)
      /\ pending[m.id] # None => pending[m.id].by \in Owner
  BY <1>2, MsgTypes DEF IInv, TypeOK, CallsKnown, Delivered, CallRec
<1>4. /\ book' = IF pending[m.id] # None /\ pending[m.id].by = Booker
                 THEN [book EXCEPT ![m.id] = BookAfter(m)] ELSE book
      /\ confirm' = IF pending[m.id] # None /\ pending[m.id].by \in Confirms
                    THEN Advanced(pending[m.id].by, ConfirmAfter(m)) ELSE confirm
      /\ sweep' = IF pending[m.id] # None /\ pending[m.id].by = Sweeper
                  THEN SweepAt(SweepAfter(m)) ELSE sweep
  BY <1>2 DEF HubReceive
<1>5. ASSUME pending[m.id] # None,
             pending[m.id].by = Booker
      PROVE  IInv'
  <2>1. book[m.id] = "asking" /\ row[m.id] = None
    BY <1>2, <1>5, <1>3 DEF IInv, OnlyWaitingCallsWake, AskedOnce
  <2>2. book[m.id] = "asking" /\ m.type \in {"RECEIPT", "DENY"}
    BY <1>2, <1>5, <1>3, <2>1, BookingAssumption
       DEF Sent, Answers, GivenUp, CallRec, Owner
  <2>3. PICK pc \in {"done", "receipt"} :
            /\ pc = "receipt" => m.type = "RECEIPT"
            /\ book' = [book EXCEPT ![m.id] = pc] /\ UNCHANGED <<confirm, sweep>>
    BY <1>2, <1>5, <1>4, <2>2, BookingAssumption DEF BookAfter, Booker, Sweeper
  <2>4. TypeOK'
    BY <1>2, <1>5, <2>2, <2>3, SMTT(30)
       DEF IInv, Delivered, TypeOK, CallRec, Request, Reply, Requests, Owner, Replies,
           platform, provider
  <2>5. (OnlyWaitingCallsWake /\ AskedOnce /\ ReceiptStands /\ HeldRowIsBacked)'
    <3>1. OnlyWaitingCallsWake'
      BY <1>2, <1>5, <2>2, <2>3, SMTT(30)
         DEF IInv, Delivered, TypeOK, platform, provider, OnlyWaitingCallsWake, AskedOnce,
             Reply, Booker, Replies, CallRec, Requests, Owner, Sweeper
    <3>2. AskedOnce'
      BY <1>2, <1>5, <2>2, <2>3, SMTT(30)
         DEF IInv, Delivered, TypeOK, platform, provider, OnlyWaitingCallsWake, AskedOnce,
             Reply, Booker, Replies, CallRec, Requests, Owner, Sweeper
    <3>3. HeldRowIsBacked'
      BY <1>2, <2>3 DEF IInv, Delivered, platform, provider, HeldRowIsBacked
    <3>4. /\ m \in Msgs(toHub) /\ UNCHANGED <<node, ttl>>
          /\ \A x \in Msgs(toHub') : x \in Msgs(toHub)
          /\ book \in [Ids -> {"idle", "asking", "receipt", "done"}]
      BY <1>2 DEF IInv, TypeOK, Delivered, platform, provider
    <3>5. pc = "receipt" /\ ttl[m.id] = "fresh" => node[m.id] \in NodeLive
      BY <2>1, <2>3, <3>4 DEF IInv, ReceiptStands
    <3>6. ReceiptStands'
      BY <1>3, <2>3, <3>4, <3>5 DEF IInv, ReceiptStands
    <3> QED
      BY <3>1, <3>2, <3>3, <3>6
  <2>6. Apart'
    BY <1>2, <1>5, <2>2, <2>3, SMTT(40) DEF IInv, Delivered, TypeOK, platform, Apart, GivenUp
  <2>7. CallsKnown'
    BY <1>2, <1>5, <2>2, <2>3, SMTT(30)
       DEF IInv, Delivered, TypeOK, platform, CallsKnown, Sent, Answers, GivenUp
  <2>8. (CommittedStands /\ ChargedIsReservedUnlessOvertaken /\ FreedStands)'
    BY <1>2, <1>5, <2>2, <2>3, SMTT(30)
       DEF IInv, Delivered, TypeOK, platform, provider, CommittedStands,
           ChargedIsReservedUnlessOvertaken, FreedStands, Freed
  <2>9. (OneRequest /\ NothingBehind)'
    BY <1>2, <1>5, <2>2, <2>3 DEF IInv, Delivered, TypeOK, OneRequest, NothingBehind
  <2> QED
    BY <2>4, <2>5, <2>6, <2>7, <2>8, <2>9 DEF IInv
<1>6. ASSUME pending[m.id] # None,
             pending[m.id].by \in Confirms
      PROVE  IInv'
  <2>1. confirm[pending[m.id].by] = [pc |-> "awaiting", id |-> m.id]
    BY <1>2, <1>6, <1>3 DEF IInv, OnlyWaitingCallsWake
  <2>2. m.type # "COMMIT_FAILED" =>
            m.id \in overtaken' \/ node[m.id] = "confirmed"
    BY <1>2, <1>6, <1>3, <2>1
       DEF IInv, Delivered, CommittedStands, CallsKnown, Answers, Sent, CallRec, Owner
  <2>3. /\ confirm' = [confirm EXCEPT ![pending[m.id].by] = [pc |-> ConfirmAfter(m), id |-> m.id]]
        /\ UNCHANGED <<book, sweep>>
    BY <1>2, <1>6, <1>4, <2>1, BookingAssumption DEF Advanced, Booker, Sweeper
  <2>4. PICK c \in Confirms, pc \in {"done", "committed"} :
            /\ pending[m.id].by = c /\ confirm[c] = [pc |-> "awaiting", id |-> m.id]
            /\ pc = "committed" => m.id \in overtaken' \/ node[m.id] = "confirmed"
            /\ confirm' = [confirm EXCEPT ![c] = [pc |-> pc, id |-> m.id]]
            /\ UNCHANGED <<book, sweep>>
    BY <1>6, <2>1, <2>2, <2>3 DEF ConfirmAfter
  <2>5. TypeOK'
    BY <1>2, <1>6, <2>4, SMTT(30)
       DEF IInv, Delivered, TypeOK, InProgress, CallRec, Request, Reply, Requests, Owner,
           Replies, platform, provider
  <2>6. (OnlyWaitingCallsWake /\ AskedOnce /\ ReceiptStands /\ HeldRowIsBacked)'
    <3>1. OnlyWaitingCallsWake'
      BY <1>2, <1>6, <2>4, SMTT(30)
         DEF IInv, Delivered, TypeOK, platform, provider, OnlyWaitingCallsWake, AskedOnce
    <3>2. AskedOnce'
      BY <1>2, <1>6, <2>4, SMTT(30)
         DEF IInv, Delivered, TypeOK, platform, provider, OnlyWaitingCallsWake, AskedOnce
    <3>3. (ReceiptStands /\ HeldRowIsBacked)'
      BY <1>2, <1>6, <2>4, SMTT(30)
         DEF IInv, Delivered, TypeOK, platform, provider, ReceiptStands, HeldRowIsBacked
    <3> QED
      BY <3>1, <3>2, <3>3
  <2>7. Apart'
    BY <1>2, <1>6, <2>4, SMTT(40) DEF IInv, Delivered, TypeOK, InProgress, platform, Apart, GivenUp
  <2>8. CallsKnown'
    BY <1>2, <1>6, <2>4, SMTT(30)
       DEF IInv, Delivered, TypeOK, platform, CallsKnown, Sent, Answers, GivenUp
  <2>9. (CommittedStands /\ ChargedIsReservedUnlessOvertaken /\ FreedStands)'
    BY <1>2, <1>6, <2>4, SMTT(30)
       DEF IInv, Delivered, TypeOK, platform, provider, CommittedStands,
           ChargedIsReservedUnlessOvertaken, FreedStands, Freed
  <2>10. (OneRequest /\ NothingBehind)'
    BY <1>2, <1>6, <2>4 DEF IInv, Delivered, TypeOK, OneRequest, NothingBehind
  <2> QED
    BY <2>5, <2>6, <2>7, <2>8, <2>9, <2>10 DEF IInv
<1>7. ASSUME pending[m.id] # None,
             pending[m.id].by = Sweeper
      PROVE  IInv'
  <2>1. sweep.id = m.id /\ sweep.pc \in {"query", "release"}
    BY <1>2, <1>7, <1>3 DEF IInv, OnlyWaitingCallsWake
  <2>2. \/ sweep.pc = "query" /\ m.status = "confirmed"
        \/ m.id \in overtaken'
        \/ Freed(m.id)
    BY <1>2, <1>7, <1>3, <2>1
       DEF IInv, Delivered, FreedStands, Freed, CallsKnown, Answers, Sent
  <2>3. PICK pc \in {"confirmed", "mark"} :
            /\ pc = "mark" => m.id \in overtaken' \/ Freed(m.id)
            /\ sweep' = [pc |-> pc, id |-> sweep.id, todo |-> sweep.todo]
            /\ UNCHANGED <<book, confirm>>
    BY <1>2, <1>7, <1>4, <2>1, <2>2, BookingAssumption
       DEF SweepAfter, SweepAt, Booker, Sweeper
  <2>4. TypeOK'
    BY <1>2, <1>7, <2>1, <2>3
       DEF IInv, Delivered, TypeOK, CallRec, Request, Reply, Requests, Owner, Replies,
           Freed, platform, provider
  <2>5. (OnlyWaitingCallsWake /\ AskedOnce /\ ReceiptStands /\ HeldRowIsBacked)'
    BY <1>2, <1>7, <2>1, <2>3
       DEF IInv, Delivered, TypeOK, Freed, platform, provider, OnlyWaitingCallsWake,
           AskedOnce, ReceiptStands, HeldRowIsBacked
  <2>6. Apart'
    BY <1>2, <1>7, <2>1, <2>3 DEF IInv, Delivered, TypeOK, Freed, platform, Apart, GivenUp
  <2>7. Progress
    BY <1>2, <1>7, <2>1, <2>3, BookingAssumption
       DEF IInv, Delivered, TypeOK, Freed, platform, provider, Progress, GivenUp,
           InProgress
  <2>8. \A x \in Ids : \A z \in CallRec : Sent(x, z) => Sent(x, z)'
    BY <2>7, SentStays
  <2>9. \A x \in Ids : x # sweep.id /\ pending[x] # None => pending[x].by # Sweeper
    BY DEF IInv, OnlyWaitingCallsWake
  <2>10. \A x \in Ids : pending'[x] # None
             => pending[x] # None /\ pending'[x] = pending[x] /\ pending[x].by # Sweeper
    BY <1>2, <1>7, <2>1, <2>3, BookingAssumption, <2>9
       DEF IInv, Delivered, TypeOK, TimerFires
  <2>11. CallsKnown'
    BY <1>2, <1>7, <2>1, <2>3, BookingAssumption, MsgTypes, <2>8, <2>10
       DEF IInv, Delivered, CallsKnown, Answers, SweepAt, platform, provider, link
  <2>12. (CommittedStands /\ ChargedIsReservedUnlessOvertaken /\ FreedStands)'
    BY <1>2, <1>7, <2>1, <2>3
       DEF IInv, Delivered, TypeOK, Freed, platform, provider, CommittedStands,
           ChargedIsReservedUnlessOvertaken, FreedStands
  <2>13. (OneRequest /\ NothingBehind)'
    BY <1>2, <1>7, <2>1, <2>3
       DEF IInv, Delivered, TypeOK, Freed, OneRequest, NothingBehind
  <2> QED
    BY <2>4, <2>5, <2>6, <2>11, <2>12, <2>13 DEF IInv
<1>8. ASSUME pending[m.id] = None
      PROVE  IInv'
  <2>1. UNCHANGED <<book, confirm, sweep>>
    BY <1>2, <1>8, <1>4
  <2>2. TypeOK'
    BY <1>2, <1>8, <2>1
       DEF IInv, Delivered, TypeOK, CallRec, Request, Reply, Requests, Owner, Replies,
           platform, provider
  <2>3. (OnlyWaitingCallsWake /\ AskedOnce /\ ReceiptStands /\ HeldRowIsBacked)'
    BY <1>2, <1>8, <2>1
       DEF IInv, Delivered, TypeOK, platform, provider, OnlyWaitingCallsWake, AskedOnce,
           ReceiptStands, HeldRowIsBacked
  <2>4. Apart'
    BY <1>2, <1>8, <2>1 DEF IInv, Delivered, TypeOK, platform, Apart, GivenUp
  <2>5. CallsKnown'
    BY <1>2, <1>8, <2>1
       DEF IInv, Delivered, TypeOK, platform, CallsKnown, Sent, Answers, GivenUp
  <2>6. (CommittedStands /\ ChargedIsReservedUnlessOvertaken /\ FreedStands)'
    BY <1>2, <1>8, <2>1
       DEF IInv, Delivered, TypeOK, platform, provider, CommittedStands,
           ChargedIsReservedUnlessOvertaken, FreedStands, Freed
  <2>7. (OneRequest /\ NothingBehind)'
    BY <1>2, <1>8, <2>1 DEF IInv, Delivered, TypeOK, OneRequest, NothingBehind
  <2> QED
    BY <2>2, <2>3, <2>4, <2>5, <2>6, <2>7 DEF IInv
<1> QED
  BY <1>3, <1>5, <1>6, <1>7, <1>8 DEF Owner

(* The node answers the next message.                                      *)
LEMMA NodeReceiveStep ==
    ASSUME IInv, NodeReceive
    PROVE  IInv'
<1>1. PICK m \in Request : m = Head(toNode) /\ Taking(m)
  BY NodeTakes DEF NodeReceive
<1>2. /\ m.id \in Ids /\ m.call \in CallRec /\ Sent(m.id, m.call)
      /\ TypeOK
  BY <1>1, MsgTypes DEF IInv, CallsKnown, Taking
<1>3. /\ m.call.by \in Owner /\ m.call.op \in Requests
      /\ node[m.id] \in {None, "held", "confirmed", "released"}
  BY <1>2 DEF TypeOK, CallRec
<1>4. ASSUME m.call.op = "RESERVE_REQUEST",
             Granting(m),
             Replying(m, "RECEIPT", None)
      PROVE  IInv'
  <2>1. m.call.by = Booker /\ node[m.id] = None
    BY <1>1, <1>4, <1>2, <1>3, BookingAssumption
       DEF Sent, CallRec, Requests, Owner, IInv, AskedOnce, Taking
  <2>2. TypeOK'
    BY <1>1, <1>4, <2>1 DEF IInv, Taking, Granting, Replying, TypeOK, platform, calls
  <2>3. OnlyWaitingCallsWake'
    BY <1>1, <1>4, <2>1
       DEF IInv, Taking, Granting, Replying, TypeOK, calls, OnlyWaitingCallsWake
  <2>4. \A x \in Msgs(toNode') : x.call.by = Booker => node'[x.id] = None
    BY <1>1, <1>4, <2>1, BookingAssumption, MsgTypes
       DEF IInv, Taking, Granting, Replying, TypeOK, AskedOnce
  <2>5. \A x \in Ids : book[x] = "idle" => node'[x] = None
    BY <1>1, <1>4, <2>1, BookingAssumption
       DEF IInv, Taking, Granting, Replying, CallsKnown, Sent, TypeOK, AskedOnce
  <2>6. AskedOnce'
    BY <1>1, <1>4, <2>1, <2>4, <2>5 DEF IInv, Taking, AskedOnce, calls, platform
  <2>7. ReceiptStands'
    BY <1>1, <1>4, <2>1, MsgTypes
       DEF IInv, Taking, Granting, Replying, TypeOK, ReceiptStands, NodeLive, calls
  <2>8. HeldRowIsBacked'
    BY <1>1, <1>4, <2>1
       DEF IInv, Taking, Granting, Replying, TypeOK, platform, HeldRowIsBacked
  <2>9. Apart'
    BY <1>1, <1>4, <2>1
       DEF IInv, Taking, Granting, Replying, TypeOK, platform, calls, Apart, GivenUp
  <2>10. CallsKnown'
    BY <1>1, <1>4, <2>1
       DEF IInv, Taking, Granting, Replying, TypeOK, platform, calls, CallsKnown, Sent,
           Answers, GivenUp
  <2>11. \A r \in Ids : node[r] = "confirmed" <=> node'[r] = "confirmed"
    BY <1>1, <1>4, <2>1, BookingAssumption DEF Granting, IInv, TypeOK
  <2>12. CommittedStands'
    BY <1>1, <1>4, <2>1, MsgTypes, <2>11
       DEF IInv, Taking, Replying, CommittedStands, Apart, InProgress, TypeOK, platform,
           calls
  <2>13. ChargedIsReservedUnlessOvertaken'
    BY <1>1, <1>4, <2>1, BookingAssumption, SMTT(40)
       DEF IInv, Taking, Granting, Replying, TypeOK, NodeLive, platform, calls,
           ChargedIsReservedUnlessOvertaken
  <2>14. FreedStands'
    BY <1>1, <1>4, <2>1, MsgTypes, <2>11
       DEF IInv, Taking, Replying, FreedStands, Apart, InProgress, TypeOK, Freed, Sweeper,
           platform, calls
  <2>15. (OneRequest /\ NothingBehind)'
    BY <1>1, <1>4, <2>1 DEF Taking
  <2> QED
    BY <2>2, <2>3, <2>6, <2>7, <2>8, <2>9, <2>10, <2>12, <2>13, <2>14, <2>15 DEF IInv
<1>5. ASSUME m.call.op = "RESERVE_REQUEST",
             Replying(m, "DENY", None),
             UNCHANGED node
      PROVE  IInv'
  <2>1. m.call.by = Booker
    BY <1>1, <1>5, <1>2, <1>3 DEF Sent, Booker, Sweeper
  <2>2. TypeOK'
    BY <1>1, <1>5, <2>1 DEF IInv, Taking, Replying, TypeOK, platform, calls
  <2>3. (OnlyWaitingCallsWake /\ AskedOnce /\ ReceiptStands /\ HeldRowIsBacked)'
    BY <1>1, <1>5, <2>1
       DEF IInv, Taking, Replying, TypeOK, platform, calls, OnlyWaitingCallsWake,
           AskedOnce, ReceiptStands, HeldRowIsBacked
  <2>4. Apart'
    BY <1>1, <1>5, <2>1
       DEF IInv, Taking, Replying, TypeOK, platform, calls, Apart, GivenUp
  <2>5. CallsKnown'
    BY <1>1, <1>5, <2>1
       DEF IInv, Taking, Replying, TypeOK, platform, calls, CallsKnown, Sent, Answers,
           GivenUp
  <2>6. (CommittedStands /\ ChargedIsReservedUnlessOvertaken /\ FreedStands)'
    BY <1>1, <1>5, <2>1
       DEF IInv, Taking, Replying, TypeOK, Booker, Sweeper, platform, calls,
           CommittedStands, ChargedIsReservedUnlessOvertaken, FreedStands, Freed
  <2>7. (OneRequest /\ NothingBehind)'
    BY <1>1, <1>5, <2>1 DEF Taking
  <2> QED
    BY <2>2, <2>3, <2>4, <2>5, <2>6, <2>7 DEF IInv
<1>6. ASSUME m.call.op = "RESERVE_COMMIT",
             node[m.id] = "held",
             node' = [node EXCEPT ![m.id] = "confirmed"],
             Replying(m, "COMMITTED", None)
      PROVE  IInv'
  <2>1. m.call.by \in Confirms
    BY <1>1, <1>6, <1>2, <1>3 DEF Sent, Booker, Sweeper
  <2>2. TypeOK'
    BY <1>1, <1>6, <2>1
       DEF IInv, Taking, Replying, TypeOK, CallRec, Request, Reply, Requests, Owner,
           Replies, platform, calls
  <2>3. (OnlyWaitingCallsWake /\ AskedOnce /\ ReceiptStands /\ HeldRowIsBacked)'
    BY <1>1, <1>6, <2>1, BookingAssumption
       DEF IInv, Taking, Replying, TypeOK, platform, calls, OnlyWaitingCallsWake,
           AskedOnce, ReceiptStands, NodeLive, HeldRowIsBacked
  <2>4. Apart'
    BY <1>1, <1>6, <2>1
       DEF IInv, Taking, Replying, TypeOK, platform, calls, Apart, GivenUp
  <2>5. CallsKnown'
    BY <1>1, <1>6, <2>1
       DEF IInv, Taking, Replying, TypeOK, platform, calls, CallsKnown, Sent, Answers,
           GivenUp
  <2>6. (CommittedStands /\ ChargedIsReservedUnlessOvertaken /\ FreedStands)'
    BY <1>1, <1>6, <2>1, BookingAssumption, MsgsFacts
       DEF IInv, Taking, Replying, TypeOK, InProgress, CallRec, Request, Reply, Requests,
           Owner, Replies, Booker, Sweeper, platform, calls, CommittedStands,
           ChargedIsReservedUnlessOvertaken, FreedStands, Freed
  <2>7. (OneRequest /\ NothingBehind)'
    BY <1>1, <1>6, <2>1 DEF Taking
  <2> QED
    BY <2>2, <2>3, <2>4, <2>5, <2>6, <2>7 DEF IInv
<1>7. ASSUME m.call.op = "RESERVE_COMMIT",
             Replying(m, "COMMIT_FAILED", None),
             UNCHANGED node
      PROVE  IInv'
  <2>1. m.call.by \in Confirms
    BY <1>1, <1>7, <1>2, <1>3 DEF Sent, Booker, Sweeper
  <2>2. TypeOK'
    BY <1>1, <1>7, <2>1, BookingAssumption
       DEF IInv, Taking, Replying, TypeOK, platform, calls, InProgress
  <2>3. (OnlyWaitingCallsWake /\ AskedOnce /\ ReceiptStands /\ HeldRowIsBacked)'
    BY <1>1, <1>7, <2>1, BookingAssumption
       DEF IInv, Taking, Replying, TypeOK, platform, calls, OnlyWaitingCallsWake,
           AskedOnce, ReceiptStands, HeldRowIsBacked, NodeLive
  <2>4. Apart'
    BY <1>1, <1>7, <2>1, BookingAssumption
       DEF IInv, Taking, Replying, TypeOK, platform, calls, Apart, GivenUp, InProgress
  <2>5. Progress
    BY <1>1, <1>7, <2>1, BookingAssumption
       DEF IInv, Taking, Replying, TypeOK, platform, calls, Progress, GivenUp, InProgress
  <2>6. \A x \in Ids : \A z \in CallRec : Sent(x, z) => Sent(x, z)'
    BY <2>5, SentStays
  <2>7. CallsKnown'
    BY <1>1, <1>7, <2>1, BookingAssumption, MsgTypes, <2>6
       DEF IInv, Taking, Replying, platform, calls, CallsKnown, Answers
  <2>8. (CommittedStands /\ ChargedIsReservedUnlessOvertaken /\ FreedStands)'
    BY <1>1, <1>7, <2>1, BookingAssumption, SMTT(40)
       DEF IInv, Taking, Replying, TypeOK, platform, calls, CommittedStands,
           ChargedIsReservedUnlessOvertaken, FreedStands, Freed
  <2>9. (OneRequest /\ NothingBehind)'
    BY <1>1, <1>7, <2>1 DEF Taking
  <2> QED
    BY <2>2, <2>3, <2>4, <2>7, <2>8, <2>9 DEF IInv
<1>8. ASSUME m.call.op = "RESERVATION_STATUS_QUERY",
             Replying(m, "RESERVATION_STATUS", node[m.id]),
             UNCHANGED node
      PROVE  IInv'
  <2>1. m.call.by = Sweeper
    BY <1>1, <1>8, <1>2, <1>3, BookingAssumption
       DEF Sent, CallRec, Requests, Owner, IInv, AskedOnce, Taking
  <2>2. TypeOK'
    BY <1>1, <1>8, <2>1, BookingAssumption
       DEF IInv, Taking, Replying, TypeOK, platform, calls, InProgress
  <2>3. (OnlyWaitingCallsWake /\ AskedOnce /\ ReceiptStands /\ HeldRowIsBacked)'
    BY <1>1, <1>8, <2>1, BookingAssumption
       DEF IInv, Taking, Replying, TypeOK, platform, calls, OnlyWaitingCallsWake,
           AskedOnce, ReceiptStands, HeldRowIsBacked, NodeLive
  <2>4. Apart'
    BY <1>1, <1>8, <2>1, BookingAssumption
       DEF IInv, Taking, Replying, TypeOK, platform, calls, Apart, GivenUp, InProgress
  <2>5. Progress
    BY <1>1, <1>8, <2>1, BookingAssumption
       DEF IInv, Taking, Replying, TypeOK, platform, calls, Progress, GivenUp, InProgress
  <2>6. \A x \in Ids : \A z \in CallRec : Sent(x, z) => Sent(x, z)'
    BY <2>5, SentStays
  <2>7. CallsKnown'
    BY <1>1, <1>8, <2>1, BookingAssumption, MsgTypes, <2>6
       DEF IInv, Taking, Replying, Booker, Sweeper, platform, calls, CallsKnown, Answers
  <2>8. (CommittedStands /\ ChargedIsReservedUnlessOvertaken /\ FreedStands)'
    BY <1>1, <1>8, <2>1, BookingAssumption
       DEF IInv, Taking, Replying, TypeOK, platform, calls, CommittedStands,
           ChargedIsReservedUnlessOvertaken, FreedStands, Freed
  <2>9. (OneRequest /\ NothingBehind)'
    BY <1>1, <1>8, <2>1 DEF Taking
  <2> QED
    BY <2>2, <2>3, <2>4, <2>7, <2>8, <2>9 DEF IInv
<1>9. ASSUME m.call.op = "RESERVE_RELEASE",
             node' = [node EXCEPT ![m.id] = IF node[m.id] = None THEN None ELSE "released"],
             Replying(m, "RELEASE_ACK", None)
      PROVE  IInv'
  <2>1. m.call.by = Sweeper
    BY <1>1, <1>9, <1>2, <1>3, BookingAssumption
       DEF Sent, CallRec, Requests, Owner, IInv, AskedOnce, Taking
  <2>2. TypeOK'
    BY <1>1, <1>9, <2>1, BookingAssumption
       DEF IInv, Taking, Replying, TypeOK, platform, calls, InProgress
  <2>3. (OnlyWaitingCallsWake /\ AskedOnce /\ ReceiptStands /\ HeldRowIsBacked)'
    BY <1>1, <1>9, <2>1, BookingAssumption, MsgsFacts
       DEF IInv, Taking, Replying, TypeOK, InProgress, CallRec, Request, Reply, Requests,
           Owner, Replies, Booker, Sweeper, platform, calls, OnlyWaitingCallsWake,
           AskedOnce, ReceiptStands, NodeLive, CallsKnown, Sent, Answers, GivenUp,
           HeldRowIsBacked, Apart
  <2>4. Apart'
    BY <1>1, <1>9, <2>1, BookingAssumption
       DEF IInv, Taking, Replying, TypeOK, platform, calls, Apart, GivenUp, InProgress
  <2>5. Progress
    BY <1>1, <1>9, <2>1, BookingAssumption
       DEF IInv, Taking, Replying, TypeOK, platform, calls, Progress, GivenUp, InProgress
  <2>6. \A x \in Ids : \A z \in CallRec : Sent(x, z) => Sent(x, z)'
    BY <2>5, SentStays
  <2>7. CallsKnown'
    BY <1>1, <1>9, <2>1, BookingAssumption, MsgTypes, <2>6, SMTT(40)
       DEF IInv, Taking, Replying, Booker, Sweeper, platform, calls, CallsKnown, Answers
  <2>8. (CommittedStands /\ ChargedIsReservedUnlessOvertaken /\ FreedStands)'
    BY <1>1, <1>9, <2>1, BookingAssumption, MsgsFacts
       DEF IInv, Taking, Replying, TypeOK, InProgress, CallRec, Request, Reply, Requests,
           Owner, Replies, Booker, Sweeper, platform, calls, CommittedStands, CallsKnown,
           Sent, Answers, GivenUp, Apart, ChargedIsReservedUnlessOvertaken, FreedStands,
           Freed
  <2>9. (OneRequest /\ NothingBehind)'
    BY <1>1, <1>9, <2>1 DEF Taking
  <2> QED
    BY <2>2, <2>3, <2>4, <2>7, <2>8, <2>9 DEF IInv
<1>10. NodeReserve(m) => IInv'
  BY <1>2, <1>4, <1>5, AnswerFacts, GrantFacts DEF NodeReserve, Replies
<1>11. NodeCommit(m) => IInv'
  BY <1>2, <1>6, <1>7, AnswerFacts DEF NodeCommit, Replies
<1>12. NodeStatus(m) => IInv'
  BY <1>2, <1>3, <1>8, AnswerFacts DEF NodeStatus, Replies
<1>13. NodeRelease(m) => IInv'
  BY <1>2, <1>9, AnswerFacts DEF NodeRelease, Replies
<1> QED
  BY <1>1, <1>10, <1>11, <1>12, <1>13 DEF NodeReceive

(* At a heartbeat the node lets lapsed holds go.                           *)
LEMMA NodeHeartbeatStep ==
    ASSUME IInv, NodeHeartbeat
    PROVE  IInv'
<1>1. Lapsing /\ UNCHANGED <<platform, ttl, link, calls, overtaken>>
  BY NodeExpiredFacts DEF IInv, NodeHeartbeat, Lapsing
<1>2. TypeOK'
  BY <1>1, BookingAssumption, MsgsFacts, SMTT(30)
     DEF IInv, Lapsing, TypeOK, platform, link, calls, InProgress, CallRec, Request,
         Reply, Requests, Owner, Replies, Booker, Sweeper
<1>3. OnlyWaitingCallsWake'
  BY <1>1, BookingAssumption, MsgsFacts, SMTT(30)
     DEF IInv, Lapsing, TypeOK, platform, link, calls, OnlyWaitingCallsWake, Booker,
         Sweeper
<1>4. AskedOnce'
  BY <1>1, BookingAssumption, MsgTypes
     DEF IInv, Lapsing, TypeOK, AskedOnce, calls, platform, link
<1>5. ReceiptStands'
  BY <1>1, BookingAssumption, MsgTypes
     DEF IInv, Lapsing, TypeOK, ReceiptStands, NodeLive, calls, platform, link
<1>6. HeldRowIsBacked'
  BY <1>1, BookingAssumption, MsgsFacts, SMTT(30)
     DEF IInv, Lapsing, TypeOK, platform, link, calls, HeldRowIsBacked, NodeLive
<1>7. Apart'
  BY <1>1, BookingAssumption, MsgsFacts, SMTT(30)
     DEF IInv, Lapsing, TypeOK, platform, link, calls, Apart, GivenUp, InProgress
<1>8. Progress
  BY <1>1, BookingAssumption, MsgsFacts
     DEF IInv, Lapsing, TypeOK, platform, link, calls, Progress, GivenUp, InProgress,
         AskedOnce, Apart
<1>9. \A x \in Ids : \A z \in CallRec : Sent(x, z) => Sent(x, z)'
  BY <1>8, SentStays
<1>10. CallsKnown'
  BY <1>1, BookingAssumption, MsgTypes, <1>9, SMTT(30)
     DEF IInv, Lapsing, platform, link, calls, CallsKnown, Answers, TypeOK
<1>11. \A r \in Ids : node[r] = "confirmed" <=> node'[r] = "confirmed"
  BY <1>1, BookingAssumption DEF Lapsing, IInv, TypeOK
<1>12. CommittedStands'
  BY <1>1, MsgTypes, <1>11
     DEF IInv, CommittedStands, Apart, InProgress, TypeOK, platform, calls, link
<1>13. ChargedIsReservedUnlessOvertaken'
  BY <1>1, BookingAssumption
     DEF IInv, Lapsing, TypeOK, platform, link, calls, ChargedIsReservedUnlessOvertaken
<1>14. FreedStands'
  BY <1>1, MsgTypes, <1>11
     DEF IInv, FreedStands, Apart, InProgress, TypeOK, Freed, Sweeper, platform, calls,
         link
<1>15. (OneRequest /\ NothingBehind)'
  BY <1>1, BookingAssumption, MsgsFacts, SMTT(30)
     DEF IInv, Lapsing, TypeOK, platform, link, calls, OneRequest, NothingBehind, Booker,
         Sweeper
<1> QED
  BY <1>2, <1>3, <1>4, <1>5, <1>6, <1>7, <1>10, <1>12, <1>13, <1>14, <1>15 DEF IInv

(* Time passes.                                                            *)
LEMMA ElapseStep ==
    ASSUME IInv, NEW r \in Ids, Elapse(r)
    PROVE  IInv'
<1>1. TypeOK'
  BY BookingAssumption DEF IInv, Elapse, TypeOK, platform, link, calls, InProgress
<1>2. (OnlyWaitingCallsWake /\ AskedOnce /\ ReceiptStands /\ HeldRowIsBacked)'
  BY BookingAssumption
     DEF IInv, Elapse, TypeOK, platform, link, calls, OnlyWaitingCallsWake, AskedOnce,
         ReceiptStands, HeldRowIsBacked, NodeLive
<1>3. Apart'
  BY BookingAssumption
     DEF IInv, Elapse, TypeOK, platform, link, calls, Apart, GivenUp, InProgress
<1>4. Progress
  BY BookingAssumption
     DEF IInv, Elapse, TypeOK, platform, link, calls, Progress, GivenUp, InProgress
<1>5. \A x \in Ids : \A z \in CallRec : Sent(x, z) => Sent(x, z)'
  BY <1>4, SentStays
<1>6. CallsKnown'
  BY BookingAssumption, MsgTypes, <1>5
     DEF IInv, Elapse, platform, link, calls, CallsKnown, Answers
<1>7. (CommittedStands /\ ChargedIsReservedUnlessOvertaken /\ FreedStands)'
  BY BookingAssumption
     DEF IInv, Elapse, TypeOK, platform, link, calls, CommittedStands,
         ChargedIsReservedUnlessOvertaken, FreedStands, Freed
<1>8. (OneRequest /\ NothingBehind)'
  BY BookingAssumption
     DEF IInv, Elapse, TypeOK, platform, link, calls, OneRequest, NothingBehind
<1> QED
  BY <1>1, <1>2, <1>3, <1>6, <1>7, <1>8 DEF IInv

(* What was on the wire is lost.                                           *)
LEMMA LinkDiesStep ==
    ASSUME IInv, LinkDies
    PROVE  IInv'
<1>1. <<>> \in Seq(Request) /\ <<>> \in Seq(Reply)
  OBVIOUS
<1>2. TypeOK'
  BY <1>1, MsgsFacts, <1>1 DEF IInv, LinkDies, TypeOK, platform, provider, calls
<1>3. (OnlyWaitingCallsWake /\ AskedOnce /\ ReceiptStands /\ HeldRowIsBacked)'
  BY <1>1, BookingAssumption, MsgsFacts
     DEF IInv, LinkDies, TypeOK, InProgress, CallRec, Request, Reply, Requests, Owner,
         Replies, Booker, Sweeper, platform, provider, calls, OnlyWaitingCallsWake,
         AskedOnce, ReceiptStands, NodeLive, HeldRowIsBacked
<1>4. Apart'
  BY <1>1, BookingAssumption
     DEF IInv, LinkDies, TypeOK, platform, provider, calls, Apart, GivenUp, InProgress
<1>5. Progress
  BY <1>1, BookingAssumption
     DEF IInv, LinkDies, TypeOK, platform, provider, calls, Progress, GivenUp, InProgress
<1>6. \A x \in Ids : \A z \in CallRec : Sent(x, z) => Sent(x, z)'
  BY <1>5, SentStays
<1>7. CallsKnown'
  BY <1>1, BookingAssumption, MsgTypes, MsgsFacts, <1>6
     DEF IInv, LinkDies, platform, provider, calls, CallsKnown, Answers
<1>8. (CommittedStands /\ ChargedIsReservedUnlessOvertaken /\ FreedStands)'
  BY <1>1, BookingAssumption, MsgsFacts
     DEF IInv, LinkDies, TypeOK, InProgress, CallRec, Request, Reply, Requests, Owner,
         Replies, Booker, Sweeper, platform, provider, calls, CommittedStands,
         ChargedIsReservedUnlessOvertaken, FreedStands, Freed
<1>9. (OneRequest /\ NothingBehind)'
  BY <1>1, BookingAssumption
     DEF IInv, LinkDies, TypeOK, platform, provider, calls, OneRequest, NothingBehind
<1> QED
  BY <1>2, <1>3, <1>4, <1>7, <1>8, <1>9 DEF IInv

(* The hub learns that the socket is gone.                                 *)
LEMMA HubNoticesStep ==
    ASSUME IInv, HubNotices
    PROVE  IInv'
<1>1. TypeOK'
  BY BookingAssumption DEF IInv, HubNotices, TypeOK, platform, provider, calls, InProgress
<1>2. (OnlyWaitingCallsWake /\ AskedOnce /\ ReceiptStands /\ HeldRowIsBacked)'
  BY BookingAssumption
     DEF IInv, HubNotices, TypeOK, platform, provider, calls, OnlyWaitingCallsWake,
         AskedOnce, ReceiptStands, HeldRowIsBacked, NodeLive
<1>3. Apart'
  BY BookingAssumption
     DEF IInv, HubNotices, TypeOK, platform, provider, calls, Apart, GivenUp, InProgress
<1>4. Progress
  BY BookingAssumption
     DEF IInv, HubNotices, TypeOK, platform, provider, calls, Progress, GivenUp,
         InProgress
<1>5. \A x \in Ids : \A z \in CallRec : Sent(x, z) => Sent(x, z)'
  BY <1>4, SentStays
<1>6. CallsKnown'
  BY BookingAssumption, MsgTypes, <1>5
     DEF IInv, HubNotices, platform, provider, calls, CallsKnown, Answers
<1>7. (CommittedStands /\ ChargedIsReservedUnlessOvertaken /\ FreedStands)'
  BY BookingAssumption
     DEF IInv, HubNotices, TypeOK, platform, provider, calls, CommittedStands,
         ChargedIsReservedUnlessOvertaken, FreedStands, Freed
<1>8. (OneRequest /\ NothingBehind)'
  BY BookingAssumption
     DEF IInv, HubNotices, TypeOK, platform, provider, calls, OneRequest, NothingBehind
<1> QED
  BY <1>1, <1>2, <1>3, <1>6, <1>7, <1>8 DEF IInv

(* The node comes back.                                                    *)
LEMMA ReconnectStep ==
    ASSUME IInv, Reconnect
    PROVE  IInv'
<1>1. TypeOK'
  BY BookingAssumption DEF IInv, Reconnect, TypeOK, platform, provider, calls, InProgress
<1>2. (OnlyWaitingCallsWake /\ AskedOnce /\ ReceiptStands /\ HeldRowIsBacked)'
  BY BookingAssumption
     DEF IInv, Reconnect, TypeOK, platform, provider, calls, OnlyWaitingCallsWake,
         AskedOnce, ReceiptStands, HeldRowIsBacked, NodeLive
<1>3. Apart'
  BY BookingAssumption
     DEF IInv, Reconnect, TypeOK, platform, provider, calls, Apart, GivenUp, InProgress
<1>4. Progress
  BY BookingAssumption
     DEF IInv, Reconnect, TypeOK, platform, provider, calls, Progress, GivenUp, InProgress
<1>5. \A x \in Ids : \A z \in CallRec : Sent(x, z) => Sent(x, z)'
  BY <1>4, SentStays
<1>6. CallsKnown'
  BY BookingAssumption, MsgTypes, <1>5
     DEF IInv, Reconnect, platform, provider, calls, CallsKnown, Answers
<1>7. (CommittedStands /\ ChargedIsReservedUnlessOvertaken /\ FreedStands)'
  BY BookingAssumption
     DEF IInv, Reconnect, TypeOK, platform, provider, calls, CommittedStands,
         ChargedIsReservedUnlessOvertaken, FreedStands, Freed
<1>8. (OneRequest /\ NothingBehind)'
  BY BookingAssumption
     DEF IInv, Reconnect, TypeOK, platform, provider, calls, OneRequest, NothingBehind
<1> QED
  BY <1>1, <1>2, <1>3, <1>6, <1>7, <1>8 DEF IInv

(* The platform forgets its calls and handlers, the tables stay.           *)
LEMMA PlatformCrashStep ==
    ASSUME IInv, PlatformCrash
    PROVE  IInv'
<1>1. <<>> \in Seq(Request) /\ <<>> \in Seq(Reply)
  OBVIOUS
<1>2. TypeOK'
  BY <1>1, BookingAssumption, MsgsFacts, <1>1
     DEF IInv, PlatformCrash, TypeOK, InProgress, platform, provider
<1>3. (OnlyWaitingCallsWake /\ AskedOnce /\ ReceiptStands /\ HeldRowIsBacked)'
  BY <1>1, BookingAssumption, MsgsFacts
     DEF IInv, PlatformCrash, TypeOK, InProgress, platform, provider,
         OnlyWaitingCallsWake, AskedOnce, ReceiptStands, HeldRowIsBacked, Booker, Sweeper,
         NodeLive
<1>4. Apart'
  BY <1>1, BookingAssumption
     DEF IInv, PlatformCrash, TypeOK, InProgress, platform, provider, Apart, GivenUp
<1>5. Progress
  BY <1>1, BookingAssumption
     DEF IInv, PlatformCrash, TypeOK, InProgress, platform, provider, Progress, GivenUp
<1>6. \A x \in Ids : \A z \in CallRec : Sent(x, z) => Sent(x, z)'
  BY <1>5, SentStays
<1>7. CallsKnown'
  BY <1>1, BookingAssumption, MsgTypes, MsgsFacts, <1>6
     DEF IInv, PlatformCrash, InProgress, platform, provider, CallsKnown, Answers
<1>8. (CommittedStands /\ ChargedIsReservedUnlessOvertaken /\ FreedStands)'
  BY <1>1, BookingAssumption, MsgsFacts
     DEF IInv, PlatformCrash, TypeOK, InProgress, platform, provider, CommittedStands,
         ChargedIsReservedUnlessOvertaken, FreedStands, Freed, Sweeper
<1>9. (OneRequest /\ NothingBehind)'
  BY <1>1, BookingAssumption
     DEF IInv, PlatformCrash, TypeOK, InProgress, platform, provider, OneRequest,
         NothingBehind
<1> QED
  BY <1>2, <1>3, <1>4, <1>7, <1>8, <1>9 DEF IInv

-----------------------------------------------------------------------------
(* No reservation is known anywhere, and no message is on its way.         *)
LEMMA Start == Init => IInv
<1> SUFFICES ASSUME Init PROVE IInv
  OBVIOUS
<1>1. <<>> \in Seq(Request) /\ <<>> \in Seq(Reply)
  OBVIOUS
<1>2. Msgs(toNode) = {} /\ Msgs(toHub) = {} /\ Len(toNode) = 0
  BY MsgsFacts DEF Init
<1>3. TypeOK
  <2>1. [pc |-> "idle", id |-> None]
           \in [pc : InProgress \cup {"idle", "done"}, id : Ids \cup {None}]
    OBVIOUS
  <2>2. [pc |-> "idle", id |-> None, todo |-> {}]
           \in [pc : {"idle", "next", "query", "confirmed", "release", "mark"},
                id : Ids \cup {None}, todo : SUBSET Ids]
    OBVIOUS
  <2> QED BY <1>1, <2>1, <2>2 DEF Init, TypeOK
<1>4. OnlyWaitingCallsWake /\ CallsKnown
  BY <1>2 DEF Init, OnlyWaitingCallsWake, CallsKnown
<1>5. AskedOnce /\ ReceiptStands /\ HeldRowIsBacked
  BY <1>2, BookingAssumption DEF Init, AskedOnce, ReceiptStands, HeldRowIsBacked
<1>6. Apart /\ CommittedStands
  BY <1>2, BookingAssumption DEF Init, Apart, CommittedStands, InProgress
<1>7. ChargedIsReservedUnlessOvertaken /\ FreedStands
  BY <1>2 DEF Init, ChargedIsReservedUnlessOvertaken, FreedStands
<1>8. OneRequest /\ NothingBehind
  BY <1>2 DEF OneRequest, NothingBehind
<1> QED BY <1>3, <1>4, <1>5, <1>6, <1>7, <1>8 DEF IInv

(* Every step keeps the invariant.                                         *)
LEMMA Step == IInv /\ [Next]_vars => IInv'
<1> SUFFICES ASSUME IInv, [Next]_vars PROVE IInv'
  OBVIOUS
<1>1. CASE Booking
  BY <1>1, BookAskStep, BookTimeoutStep, BookInsertStep DEF Booking
<1>2. ASSUME NEW c \in Confirms, Confirming(c) PROVE IInv'
  BY <1>2, ConfirmReadStep, ConfirmSendStep, ConfirmTimeoutStep, ConfirmGiveUpStep,
     ConfirmCaptureStep
     DEF Confirming
<1>3. CASE Sweeping
  BY <1>3, SweepStartStep, SweepQueryStep, SweepReleaseStep, SweepTimeoutStep,
     SweepMarkStep, SweepEndStep
     DEF Sweeping
<1>4. CASE Environment
  BY <1>4, ElapseStep, LinkDiesStep, HubNoticesStep, ReconnectStep, PlatformCrashStep
     DEF Environment
<1>5. CASE UNCHANGED vars
  <2> USE <1>5 DEF vars, platform, provider, link, calls
  <2>1. TypeOK'
    BY DEF IInv, TypeOK
  <2>2. (OnlyWaitingCallsWake /\ AskedOnce /\ ReceiptStands /\ HeldRowIsBacked)'
    BY DEF IInv, OnlyWaitingCallsWake, AskedOnce, ReceiptStands, HeldRowIsBacked
  <2>3. Apart' /\ CallsKnown'
    BY DEF IInv, Apart, CallsKnown, Sent, GivenUp, Answers
  <2>4. (CommittedStands /\ ChargedIsReservedUnlessOvertaken /\ FreedStands)'
    BY DEF IInv, CommittedStands, ChargedIsReservedUnlessOvertaken, FreedStands, Freed
  <2>5. (OneRequest /\ NothingBehind)'
    BY DEF IInv, OneRequest, NothingBehind, Msgs
  <2> QED
    BY <2>1, <2>2, <2>3, <2>4, <2>5 DEF IInv
<1> QED BY <1>1, <1>2, <1>3, <1>4, <1>5, ExpireStaleHoldsStep, HubReceiveStep,
           NodeReceiveStep, NodeHeartbeatStep
        DEF Next

(* The strengthening holds throughout.                                     *)
THEOREM InductiveInvariant == Spec => []IInv
BY Start, Step, PTL DEF Spec

(* Every variable stays within its type, the queues included.              *)
THEOREM TypeCorrect == Spec => []TypeOK
<1>1. IInv => TypeOK
  BY DEF IInv
<1> QED BY <1>1, InductiveInvariant, PTL

(* hub.js resolves the entry of an id, whoever made the call: a reply      *)
(* finds only callers that still wait for that reservation.                *)
THEOREM RepliesWakeWaiters == Spec => []OnlyWaitingCallsWake
<1>1. IInv => OnlyWaitingCallsWake
  BY DEF IInv
<1> QED BY <1>1, InductiveInvariant, PTL

(* Until its TTL ends, the slot of a held row is the user's at the node    *)
(* too, whatever was lost, late or swept meanwhile.                        *)
THEOREM HeldRowsAreBacked == Spec => []HeldRowIsBacked
<1>1. IInv => HeldRowIsBacked
  BY DEF IInv
<1> QED BY <1>1, InductiveInvariant, PTL

(* What was captured is confirmed in both tables, unless two calls worked  *)
(* on the reservation at once.                                             *)
THEOREM CapturedIsReserved == Spec => []ChargedIsReservedUnlessOvertaken
<1>1. IInv => ChargedIsReservedUnlessOvertaken
  BY DEF IInv
<1> QED BY <1>1, InductiveInvariant, PTL

(* What the sweep marked reconciled no longer takes up the node, with the  *)
(* same proviso.                                                           *)
THEOREM ReconciledIsFree == Spec => []ReconciledIsFreeUnlessOvertaken
<1>1. IInv => ReconciledIsFreeUnlessOvertaken
  BY DEF IInv, FreedStands, Freed, ReconciledIsFreeUnlessOvertaken
<1> QED BY <1>1, InductiveInvariant, PTL
-----------------------------------------------------------------------------
(* A step after which the node lives up to nothing new only drops claims.  *)
LEMMA DropRefines ==
    ASSUME \A r \in Ids : /\ node'[r] \in NodeLive => node[r] \in NodeLive
                          /\ node'[r] = None <=> node[r] = None
    PROVE  [Lock!Next]_Lock!vars
<1> DEFINE gone == Claims \ Claims'
<1>1. Claims' \subseteq Claims /\ Spent' = Spent
  BY DEF Claims, Spent
<1>2. Claims' = Claims \ gone /\ gone \in SUBSET Claims
  BY <1>1
<1>3. Lock!Drop(gone)
  BY <1>1, <1>2 DEF Lock!Drop, Claims, Spent
<1> HIDE DEF gone
<1> QED BY <1>2, <1>3 DEF Lock!Next

(* NodeReserve's grant is the abstract Grant: everything else the node     *)
(* lived up to has lapsed and is dropped.                                  *)
LEMMA GrantRefines ==
    ASSUME IInv, NEW m \in Request, m.id \in Ids, node[m.id] = None, TypeOK',
           \A r \in Ids : NodeExpired[r] \notin NodeLive,
           node' = [NodeExpired EXCEPT ![m.id] = "held"]
    PROVE  [Lock!Next]_Lock!vars
<1> DEFINE w == <<0, 1>>
<1>1. \A r \in Ids : /\ node'[r] \in NodeLive <=> r = m.id
                     /\ node'[r] = None <=> r # m.id /\ node[r] = None
  BY BookingAssumption DEF IInv, TypeOK, NodeExpired, Lapsed, NodeLive
<1>2. Claims' = (Claims \ Claims) \cup {<<m.id, w>>}
  BY <1>1 DEF Claims
<1>3. Spent' = Spent \cup {m.id} /\ m.id \notin Spent
  BY <1>1 DEF Spent
<1>4. Lock!Grant(Claims, m.id, w)
  BY <1>2, <1>3 DEF Lock!Grant, Claims, Spent
<1>5. Claims \in SUBSET Claims
  OBVIOUS
<1> QED BY <1>4, <1>5 DEF Lock!Next

(* What the node does about the next message is a step of the lock.        *)
LEMMA NodeReceiveRefines ==
    ASSUME IInv, NodeReceive
    PROVE  [Lock!Next]_Lock!vars
<1>1. PICK m \in Request : m = Head(toNode) /\ Taking(m)
  BY NodeTakes DEF NodeReceive
<1>2. /\ m.id \in Ids /\ m.call \in CallRec /\ Sent(m.id, m.call)
      /\ m.call.by = Booker => node[m.id] = None
  BY <1>1, MsgTypes DEF IInv, CallsKnown, AskedOnce, Taking
<1>3. ASSUME NodeReserve(m) PROVE [Lock!Next]_Lock!vars
  <2>1. node[m.id] = None
    BY <1>2, <1>3 DEF NodeReserve, Sent
  <2>2. CASE UNCHANGED node
    BY <2>2, DropRefines
  <2>3. CASE /\ \A r \in Ids : NodeExpired[r] \notin NodeLive
             /\ node' = [NodeExpired EXCEPT ![m.id] = "held"]
    BY <1>2, <2>1, <2>3, NodeReceiveStep, GrantRefines DEF IInv
  <2> QED BY <1>3, <2>2, <2>3 DEF NodeReserve
<1>4. ASSUME NodeCommit(m) PROVE [Lock!Next]_Lock!vars
  BY <1>2, <1>4, DropRefines, BookingAssumption
     DEF NodeCommit, IInv, TypeOK, NodeLive
<1>5. ASSUME NodeStatus(m) PROVE [Lock!Next]_Lock!vars
  BY <1>5, DropRefines DEF NodeStatus
<1>6. ASSUME NodeRelease(m) PROVE [Lock!Next]_Lock!vars
  BY <1>2, <1>6, DropRefines, BookingAssumption
     DEF NodeRelease, IInv, TypeOK, NodeLive
<1> QED BY <1>1, <1>3, <1>4, <1>5, <1>6 DEF NodeReceive

(* Only the node's own steps touch its table.                              *)
LEMMA StepRefines == IInv /\ [Next]_vars => [Lock!Next]_Lock!vars
<1> SUFFICES ASSUME IInv, [Next]_vars PROVE [Lock!Next]_Lock!vars
  OBVIOUS
<1>1. CASE UNCHANGED node
  BY <1>1, DropRefines
<1>2. CASE NodeReceive
  BY <1>2, NodeReceiveRefines
<1>3. CASE NodeHeartbeat
  BY <1>3, DropRefines, BookingAssumption
     DEF NodeHeartbeat, NodeExpired, Lapsed, NodeLive, IInv, TypeOK
<1>4. Booking \/ Sweeping \/ (\E c \in Confirms : Confirming(c))
          \/ ExpireStaleHolds \/ HubReceive => UNCHANGED node
  BY DEF Booking, BookAsk, BookTimeout, BookInsert, Sweeping, SweepStart, SweepQuery,
         SweepRelease, SweepTimeout, SweepMark, SweepEnd, Confirming, ConfirmRead,
         ConfirmSend, ConfirmTimeout, ConfirmGiveUp, ConfirmCapture, ExpireStaleHolds,
         HubReceive, platform, provider
<1>5. Environment => UNCHANGED node
  BY DEF Environment, Elapse, LinkDies, HubNotices, Reconnect, PlatformCrash, provider
<1> QED BY <1>1, <1>2, <1>3, <1>4, <1>5 DEF Next, vars, provider

(* The node, asked, committed and released only through lost, late and     *)
(* repeated messages, still implements the abstract slot lock.             *)
THEOREM BookingImplementsSlotLock == Spec => ImplementsSlotLock
<1>1. Init => Lock!Init
  BY BookingAssumption DEF Init, Lock!Init, Claims, Spent, NodeLive
<1> QED BY <1>1, InductiveInvariant, StepRefines, PTL
        DEF ImplementsSlotLock, Lock!Spec, Spec
=============================================================================
