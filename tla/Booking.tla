------------------------------ MODULE Booking ------------------------------
(***************************************************************************)
(* A reservation from POST /reservations to its capture or its expiry: the *)
(* booking and confirm handlers of api/server.js, the hub that correlates  *)
(* the node's replies with calls (ws/hub.js), the two sweeps of            *)
(* reservations/reconciler.js, the WebSocket to one provider node and the  *)
(* node's own ledger.  All reservations ask for the same slot of the node. *)
(*                                                                         *)
(* A handler is cut into one step per await.  Timers may fire at any       *)
(* moment.  The hold's TTL is an absolute time both sides know; it is      *)
(* "fresh", then "lapsed" (hold_expires_at has passed), then "over"        *)
(* (GRACE_MS later), and the clocks agree, as the protocol assumes.        *)
(***************************************************************************)
EXTENDS Integers, Sequences, FiniteSets

CONSTANTS Ids,        \* reservation ids
          Confirms,   \* POST /reservations/:id/confirm requests
          None,       \* no call, no row
          MaxQueue    \* bound on messages in flight when a sweep sends one

Booker == "booker"    \* the POST /reservations handler of an id
Sweeper == "sweeper"  \* reconcileExpiredMismatches

ASSUME BookingAssumption ==
    /\ MaxQueue \in Nat
    /\ Confirms \cap {Booker, Sweeper} = {}
    /\ None \notin Ids \cup Confirms \cup {"held", "confirmed", "expired", "released"}

VARIABLES
    row,         \* reservations.status at the platform
    reconciled,  \* reservations whose reconciled_at is set
    captured,    \* reservations with a 'capture' ledger transaction
    node,        \* local_reservations.status at the node
    ttl,         \* how much of the hold's TTL is left
    up,          \* the socket really works
    online,      \* the hub has a connection for the node
    toNode,      \* messages in flight to the node
    toHub,       \* messages in flight to the platform
    pending,     \* hub._pending: the call awaiting a reply for each id
    book,        \* progress of each id's booking handler
    confirm,     \* progress of each confirm request
    sweep,       \* progress of the reconciliation sweep
    overtaken    \* history: ids two calls were working on at once

platform == <<row, reconciled, captured>>
provider == <<node, ttl>>
link == <<up, online, toNode, toHub>>
calls == <<pending, book, confirm, sweep>>
vars == <<platform, provider, link, calls, overtaken>>

NodeLive == {"held", "confirmed"}
RowLive == {"held", "confirmed"}       \* no_double_booking's statuses, here
Requests == {"RESERVE_REQUEST", "RESERVE_COMMIT",
             "RESERVATION_STATUS_QUERY", "RESERVE_RELEASE"}
Replies == {"RECEIPT", "DENY", "COMMITTED", "COMMIT_FAILED",
            "RESERVATION_STATUS", "RELEASE_ACK"}
InProgress == {"read", "awaiting", "committed", "lost"}

Owner == {Booker, Sweeper} \cup Confirms
CallRec == [by : Owner, op : Requests]
Request == [id : Ids, call : CallRec]
Reply == [type : Replies, id : Ids, status : {None, "held", "confirmed", "released"},
          call : CallRec]     \* `call` is history: what it answers

(* Reservations of S that some confirm other than c is busy with.          *)
BusyElsewhere(S, c) ==
    {r \in S : \E d \in Confirms \ {c} :
                   confirm[d].id = r /\ confirm[d].pc \in InProgress}
-----------------------------------------------------------------------------
Init ==
    /\ row = [r \in Ids |-> None]
    /\ reconciled = {} /\ captured = {} /\ overtaken = {}
    /\ node = [r \in Ids |-> None]
    /\ ttl = [r \in Ids |-> "fresh"]
    /\ up = TRUE /\ online = TRUE
    /\ toNode = <<>> /\ toHub = <<>>
    /\ pending = [r \in Ids |-> None]
    /\ book = [r \in Ids |-> "idle"]
    /\ confirm = [c \in Confirms |-> [pc |-> "idle", id |-> None]]
    /\ sweep = [pc |-> "idle", id |-> None, todo |-> {}]

(* _sendAwait: register the call under the reservation id, over whatever   *)
(* is there, and send; a write to a dead socket disappears.                *)
SendAwait(r, by, op) ==
    LET c == [by |-> by, op |-> op] IN
    /\ pending' = [pending EXCEPT ![r] = c]
    /\ toNode' = IF up THEN Append(toNode, [id |-> r, call |-> c]) ELSE toNode
    /\ UNCHANGED <<up, online, toHub>>

(* Mutant: the timer rejects the promise but leaves the entry behind.      *)
TimerKeepsEntry(r, c) == UNCHANGED <<pending, overtaken>>

(* The timer of a call fires: the entry under its id goes, whoever owns it *)
(* by now.                                                                 *)
TimerFires(r, c) ==
    /\ pending' = [pending EXCEPT ![r] = None]
    /\ overtaken' = IF pending[r] \notin {None, c} THEN overtaken \cup {r}
                                                   ELSE overtaken

StalePending == {r \in Ids : row[r] = "pending" /\ ttl[r] = "over"}  \* mutant
Stale == {r \in Ids : row[r] = "held" /\ ttl[r] = "over"}

(* expireStaleHolds, from the 15 s sweep and before every booking.         *)
ExpireRows ==
    /\ row' = [r \in Ids |-> IF r \in Stale THEN "expired" ELSE row[r]]
    /\ overtaken' = overtaken \cup BusyElsewhere(Stale, None)

ExpireStaleHolds ==
    /\ Stale # {}
    /\ ExpireRows
    /\ UNCHANGED <<reconciled, captured, provider, link, calls>>
-----------------------------------------------------------------------------
(* POST /reservations: expire stale rows, ask the node.  Offline is a 409. *)
BookAsk(r) ==
    /\ book[r] = "idle"
    /\ ExpireRows
    /\ IF online
       THEN /\ SendAwait(r, Booker, "RESERVE_REQUEST")
            /\ book' = [book EXCEPT ![r] = "asking"]
       ELSE /\ book' = [book EXCEPT ![r] = "done"]
            /\ UNCHANGED <<link, pending>>
    /\ UNCHANGED <<reconciled, captured, provider, confirm, sweep>>

(* 504 node_unresponsive.                                                  *)
BookTimeout(r) ==
    /\ book[r] = "asking"
    /\ book' = [book EXCEPT ![r] = "done"]
    /\ TimerFires(r, [by |-> Booker, op |-> "RESERVE_REQUEST"])
    /\ UNCHANGED <<platform, provider, link, confirm, sweep>>

(* admitReceipt turns down a receipt whose hold has lapsed; the exclusion  *)
(* constraint turns down a second live row for the slot.                   *)
BookInsert(r) ==
    /\ book[r] = "receipt"
    /\ book' = [book EXCEPT ![r] = "done"]
    /\ row' = IF ttl[r] = "fresh" /\ \A s \in Ids : row[s] \notin RowLive
              THEN [row EXCEPT ![r] = "held"] ELSE row
    /\ UNCHANGED <<reconciled, captured, provider, link, pending, confirm,
                   sweep, overtaken>>
-----------------------------------------------------------------------------
Advanced(c, pc) == [confirm EXCEPT ![c] = [pc |-> pc, id |-> confirm[c].id]]
SetConfirm(c, pc) == confirm' = Advanced(c, pc)

(* POST /reservations/:id/confirm reads the row; the order and the         *)
(* payments row are written before anything else happens.                  *)
ConfirmRead(c, r) ==
    /\ confirm[c].pc = "idle"
    /\ row[r] = "held"                       \* canTransition(_, CONFIRMED)
    /\ confirm' = [confirm EXCEPT ![c] = [pc |-> "read", id |-> r]]
    /\ UNCHANGED <<platform, provider, link, pending, book, sweep, overtaken>>

(* commitNodeAndCapture: RESERVE_COMMIT, or NodeOffline at once.           *)
ConfirmSend(c) ==
    /\ confirm[c].pc = "read"
    /\ IF online
       THEN SetConfirm(c, "awaiting") /\ SendAwait(confirm[c].id, c, "RESERVE_COMMIT")
       ELSE SetConfirm(c, "lost") /\ UNCHANGED <<link, pending>>
    /\ UNCHANGED <<platform, provider, book, sweep, overtaken>>

ConfirmTimeoutIfOwner(c) ==     \* mutant: overwriting an entry cancels its timer
    /\ confirm[c].pc = "awaiting"
    /\ pending[confirm[c].id] = [by |-> c, op |-> "RESERVE_COMMIT"]
    /\ SetConfirm(c, "lost")
    /\ TimerFires(confirm[c].id, [by |-> c, op |-> "RESERVE_COMMIT"])
    /\ UNCHANGED <<platform, provider, link, book, sweep>>
ConfirmTimeout(c) ==
    /\ confirm[c].pc = "awaiting"
    /\ SetConfirm(c, "lost")
    /\ TimerFires(confirm[c].id, [by |-> c, op |-> "RESERVE_COMMIT"])
    /\ UNCHANGED <<platform, provider, link, book, sweep>>

(* NodeOffline or NodeTimeout: the row is expired, whatever it says now.   *)
ConfirmGiveUp(c) ==
    LET r == confirm[c].id IN
    /\ confirm[c].pc = "lost"
    /\ SetConfirm(c, "done")
    /\ row' = [row EXCEPT ![r] = "expired"]
    /\ overtaken' = overtaken \cup BusyElsewhere({r}, c)
    /\ UNCHANGED <<reconciled, captured, provider, link, pending, book, sweep>>

(* The capture transaction: a second 'capture-<id>' and a second live row  *)
(* for the slot roll it back; the row is confirmed, whatever it says now.  *)
ConfirmCapture(c) ==
    LET r == confirm[c].id
        commits == /\ r \notin captured
                   /\ \A s \in Ids \ {r} : row[s] \notin RowLive
    IN
    /\ confirm[c].pc = "committed"
    /\ SetConfirm(c, "done")
    /\ IF commits
       THEN /\ captured' = captured \cup {r}
            /\ row' = [row EXCEPT ![r] = "confirmed"]
            /\ overtaken' = overtaken \cup BusyElsewhere({r}, c)
       ELSE UNCHANGED <<captured, row, overtaken>>
    /\ UNCHANGED <<reconciled, provider, link, pending, book, sweep>>
-----------------------------------------------------------------------------
(* reconcileExpiredMismatches.  Every expired row has a receipt on file.   *)
SweepStart ==
    LET todo == {r \in Ids : row[r] = "expired" /\ r \notin reconciled} IN
    /\ sweep.pc = "idle"
    /\ todo # {}
    /\ sweep' = [pc |-> "next", id |-> None, todo |-> todo]
    /\ UNCHANGED <<platform, provider, link, pending, book, confirm, overtaken>>

SweepAt(pc) == [pc |-> pc, id |-> sweep.id, todo |-> sweep.todo]
NextRow == [pc |-> "next", id |-> None, todo |-> sweep.todo]

SweepQuery(r) ==
    /\ sweep.pc = "next" /\ r \in sweep.todo
    /\ IF online
       THEN /\ Len(toNode) + Len(toHub) < MaxQueue
            /\ SendAwait(r, Sweeper, "RESERVATION_STATUS_QUERY")
            /\ sweep' = [pc |-> "query", id |-> r, todo |-> sweep.todo \ {r}]
       ELSE /\ sweep' = [pc |-> "next", id |-> sweep.id, todo |-> sweep.todo \ {r}]
            /\ UNCHANGED <<link, pending>>
    /\ UNCHANGED <<platform, provider, book, confirm, overtaken>>

SweepRelease ==
    /\ sweep.pc = "confirmed"                \* what the query resolved to
    /\ IF online
       THEN /\ Len(toNode) + Len(toHub) < MaxQueue
            /\ SendAwait(sweep.id, Sweeper, "RESERVE_RELEASE")
            /\ sweep' = SweepAt("release")
       ELSE sweep' = NextRow /\ UNCHANGED <<link, pending>>
    /\ UNCHANGED <<platform, provider, book, confirm, overtaken>>

SweepTimeout ==
    /\ sweep.pc \in {"query", "release"}
    /\ sweep' = NextRow
    /\ TimerFires(sweep.id,
          [by |-> Sweeper, op |-> IF sweep.pc = "query"
                                  THEN "RESERVATION_STATUS_QUERY"
                                  ELSE "RESERVE_RELEASE"])
    /\ UNCHANGED <<platform, provider, link, book, confirm>>

SweepMark ==
    /\ sweep.pc = "mark"
    /\ reconciled' = reconciled \cup {sweep.id}
    /\ sweep' = NextRow
    /\ UNCHANGED <<row, captured, provider, link, pending, book, confirm,
                   overtaken>>

SweepEnd ==
    /\ sweep.pc = "next" /\ sweep.todo = {}
    /\ sweep' = SweepAt("idle")
    /\ UNCHANGED <<platform, provider, link, pending, book, confirm, overtaken>>
-----------------------------------------------------------------------------
(* What each caller makes of the message that resolved its promise.        *)
BookAfter(m) == IF m.type = "DENY" THEN "done" ELSE "receipt"
ConfirmAfterAny(m) == "committed"         \* mutant: COMMIT_FAILED not looked at
ConfirmAfter(m) == IF m.type = "COMMIT_FAILED" THEN "done" ELSE "committed"
SweepAfterNoRelease(m) == "mark"          \* mutant: never releases
SweepAfter(m) == IF sweep.pc = "query" /\ m.status = "confirmed"
                 THEN "confirmed" ELSE "mark"

(* _resolvePending: a reply goes to whichever call is registered under its *)
(* reservation id, and is dropped if there is none.                        *)
HubReceive ==
    LET m == Head(toHub)
        p == pending[m.id]
    IN
    /\ online /\ toHub # <<>>
    /\ toHub' = Tail(toHub)
    /\ pending' = [pending EXCEPT ![m.id] = None]
    /\ overtaken' = IF p \notin {None, m.call} THEN overtaken \cup {m.id}
                                               ELSE overtaken
    /\ book' = IF p # None /\ p.by = Booker
               THEN [book EXCEPT ![m.id] = BookAfter(m)] ELSE book
    /\ confirm' = IF p # None /\ p.by \in Confirms
                  THEN Advanced(p.by, ConfirmAfter(m)) ELSE confirm
    /\ sweep' = IF p # None /\ p.by = Sweeper
                THEN SweepAt(SweepAfter(m)) ELSE sweep
    /\ UNCHANGED <<platform, provider, up, online, toNode>>
-----------------------------------------------------------------------------
(* The node's ledger after _expire_stale.                                  *)
LapsedAnyHold(r) == node[r] = "held"      \* mutant: ignores hold_expires_at
Lapsed(r) == node[r] = "held" /\ ttl[r] # "fresh"
NodeExpired == [r \in Ids |-> IF Lapsed(r) THEN "released" ELSE node[r]]

Answer(m, type, status) ==
    toHub' = Append(toHub, [type |-> type, id |-> m.id, status |-> status,
                            call |-> m.call])

NodeReserveUnchecked(m) ==                \* mutant: no overlap SELECT
    /\ m.call.op = "RESERVE_REQUEST"
    /\ node' = [NodeExpired EXCEPT ![m.id] = "held"]
    /\ Answer(m, "RECEIPT", None)
NodeReserve(m) ==
    /\ m.call.op = "RESERVE_REQUEST"
    /\ IF \A r \in Ids : NodeExpired[r] \notin NodeLive
       THEN /\ node' = [NodeExpired EXCEPT ![m.id] = "held"]
            /\ Answer(m, "RECEIPT", None)
       ELSE Answer(m, "DENY", None) /\ UNCHANGED node

NodeCommit(m) ==
    /\ m.call.op = "RESERVE_COMMIT"
    /\ IF node[m.id] = "held" /\ ttl[m.id] = "fresh"
       THEN /\ node' = [node EXCEPT ![m.id] = "confirmed"]
            /\ Answer(m, "COMMITTED", None)
       ELSE Answer(m, "COMMIT_FAILED", None) /\ UNCHANGED node

NodeStatus(m) ==
    /\ m.call.op = "RESERVATION_STATUS_QUERY"
    /\ Answer(m, "RESERVATION_STATUS", node[m.id])
    /\ UNCHANGED node

NodeRelease(m) ==
    /\ m.call.op = "RESERVE_RELEASE"
    /\ node' = [node EXCEPT ![m.id] = IF node[m.id] = None THEN None ELSE "released"]
    /\ Answer(m, "RELEASE_ACK", None)

(* _message_loop: one message at a time, in order, each answered.          *)
NodeReceive ==
    /\ up /\ toNode # <<>>
    /\ LET m == Head(toNode) IN
          NodeReserve(m) \/ NodeCommit(m) \/ NodeStatus(m) \/ NodeRelease(m)
    /\ toNode' = Tail(toNode)
    /\ UNCHANGED <<platform, ttl, up, online, calls, overtaken>>

(* The heartbeat's live_count lets lapsed holds go.                        *)
NodeHeartbeat ==
    /\ up /\ \E r \in Ids : Lapsed(r)
    /\ node' = NodeExpired
    /\ UNCHANGED <<platform, ttl, link, calls, overtaken>>

(* Time passes for a hold the node has granted.                            *)
Elapse(r) ==
    /\ node[r] # None /\ ttl[r] # "over"
    /\ ttl' = [ttl EXCEPT ![r] = IF @ = "fresh" THEN "lapsed" ELSE "over"]
    /\ UNCHANGED <<platform, node, link, calls, overtaken>>
-----------------------------------------------------------------------------
(* The connection, or the worker, dies: what is in flight is lost, and the *)
(* hub does not know yet.                                                  *)
LinkDies ==
    /\ up
    /\ up' = FALSE /\ toNode' = <<>> /\ toHub' = <<>>
    /\ UNCHANGED <<platform, provider, online, calls, overtaken>>

(* _onClose, at a clean close or after the missed heartbeats of sweepStale.*)
HubNotices ==
    /\ ~up /\ online
    /\ online' = FALSE
    /\ UNCHANGED <<platform, provider, up, toNode, toHub, calls, overtaken>>

(* The node authenticates a new socket, which replaces any old one.        *)
Reconnect ==
    /\ ~up
    /\ up' = TRUE /\ online' = TRUE
    /\ UNCHANGED <<platform, provider, toNode, toHub, calls, overtaken>>

(* The platform process dies and is restarted: the database stays.         *)
PlatformCrash ==
    /\ up' = FALSE /\ online' = FALSE /\ toNode' = <<>> /\ toHub' = <<>>
    /\ pending' = [r \in Ids |-> None]
    /\ book' = [r \in Ids |-> IF book[r] = "idle" THEN "idle" ELSE "done"]
    /\ confirm' = [c \in Confirms |-> IF confirm[c].pc \in InProgress
                       THEN [pc |-> "done", id |-> confirm[c].id] ELSE confirm[c]]
    /\ sweep' = [pc |-> "idle", id |-> None, todo |-> {}]
    /\ UNCHANGED <<platform, provider, overtaken>>

Booking == \E r \in Ids : BookAsk(r) \/ BookTimeout(r) \/ BookInsert(r)
Confirming(c) == \/ \E r \in Ids : ConfirmRead(c, r)
                 \/ ConfirmSend(c) \/ ConfirmTimeout(c)
                 \/ ConfirmGiveUp(c) \/ ConfirmCapture(c)
Sweeping == \/ SweepStart \/ (\E r \in Ids : SweepQuery(r))
            \/ SweepRelease \/ SweepTimeout \/ SweepMark \/ SweepEnd
Environment == \/ (\E r \in Ids : Elapse(r)) \/ LinkDies \/ HubNotices
               \/ Reconnect \/ PlatformCrash

Next == \/ Booking \/ (\E c \in Confirms : Confirming(c)) \/ Sweeping
        \/ ExpireStaleHolds \/ HubReceive \/ NodeReceive \/ NodeHeartbeat
        \/ Environment

Spec == Init /\ [][Next]_vars

(* Fairness.  Handlers run once the event loop gets to them, timers fire,  *)
(* sweeps are on setInterval, time passes, the hub notices a dead socket   *)
(* (sweepStale), a worker is started again and its session opens with a    *)
(* heartbeat, hence the strong fairness of that.  Nobody has to book,      *)
(* confirm, crash or lose messages.                                        *)
Fairness ==
    /\ \A r \in Ids : /\ WF_vars(BookTimeout(r)) /\ WF_vars(BookInsert(r))
                      /\ WF_vars(Elapse(r))
    /\ \A c \in Confirms : /\ WF_vars(ConfirmSend(c)) /\ WF_vars(ConfirmTimeout(c))
                           /\ WF_vars(ConfirmGiveUp(c))
                           /\ WF_vars(ConfirmCapture(c))
    /\ WF_vars(Sweeping) /\ WF_vars(ExpireStaleHolds)
    /\ WF_vars(HubReceive) /\ WF_vars(NodeReceive) /\ SF_vars(NodeHeartbeat)
    /\ WF_vars(HubNotices) /\ WF_vars(Reconnect)

LiveSpec == Spec /\ Fairness
-----------------------------------------------------------------------------
TypeOK ==
    /\ row \in [Ids -> {None, "held", "confirmed", "expired"}]
    /\ reconciled \subseteq Ids /\ captured \subseteq Ids
    /\ node \in [Ids -> {None, "held", "confirmed", "released"}]
    /\ ttl \in [Ids -> {"fresh", "lapsed", "over"}]
    /\ up \in BOOLEAN /\ online \in BOOLEAN
    /\ toNode \in Seq(Request) /\ toHub \in Seq(Reply)
    /\ pending \in [Ids -> CallRec \cup {None}]
    /\ book \in [Ids -> {"idle", "asking", "receipt", "done"}]
    /\ confirm \in [Confirms -> [pc : InProgress \cup {"idle", "done"},
                                 id : Ids \cup {None}]]
    /\ sweep \in [pc : {"idle", "next", "query", "confirmed", "release", "mark"},
                  id : Ids \cup {None}, todo : SUBSET Ids]
    /\ overtaken \subseteq Ids

(* A reply can only ever wake a call that is still waiting for that id:    *)
(* a call that gave up is never revived by a late answer.                  *)
OnlyWaitingCallsWake ==
    \A r \in Ids : pending[r] # None =>
        LET p == pending[r] IN
        /\ p.by = Booker => book[r] = "asking"
        /\ p.by = Sweeper => sweep.id = r /\ sweep.pc \in {"query", "release"}
        /\ p.by \in Confirms => confirm[p.by] = [pc |-> "awaiting", id |-> r]

(* A row the platform shows as held is backed by the node until the hold's *)
(* TTL: neither a late or lost message nor a sweep takes the slot away     *)
(* from a user who may still pay.                                          *)
HeldRowIsBacked ==
    \A r \in Ids : row[r] = "held" /\ ttl[r] = "fresh" => node[r] \in NodeLive

(* machine.js: never "charged but not reserved".  Both authorities agree   *)
(* on a captured reservation -- as long as no two calls ever worked on it  *)
(* at once (see ChargedIsReserved for what happens otherwise).             *)
ChargedIsReservedUnlessOvertaken ==
    \A r \in captured \ overtaken : row[r] = "confirmed" /\ node[r] = "confirmed"

(* The reconciliation sweep gives a slot back: once reconciled_at is set   *)
(* the node no longer blocks the slot for good -- again unless overtaken.  *)
ReconciledIsFreeUnlessOvertaken ==
    \A r \in reconciled \ overtaken : node[r] # "confirmed"

(* The node as the platform sees it still implements the slot lock.        *)
Claims == {<<r, <<0, 1>>>> : r \in {i \in Ids : node[i] \in NodeLive}}
Spent == {r \in Ids : node[r] # None}
Lock == INSTANCE SlotLock WITH
            Windows <- {<<0, 1>>}, claims <- Claims, spent <- Spent
ImplementsSlotLock == Lock!Spec

(* Every confirm request gets an answer, though its reply may be lost or   *)
(* wake another call and its pending entry may be overwritten or deleted.  *)
ConfirmsEnd == \A c \in Confirms :
    confirm[c].pc \in InProgress ~> confirm[c].pc = "done"

(* Nobody squats on the slot by holding it: a hold ends on both sides,     *)
(* whoever crashed or walked away.                                         *)
HoldsEnd == \A r \in Ids : /\ node[r] = "held" ~> node[r] # "held"
                           /\ row[r] = "held" ~> row[r] # "held"

(* Row five of the failure matrix: once the link is back for good and      *)
(* replies beat their timers, a slot the platform gave up does not stay    *)
(* confirmed at the node.                                                  *)
AnyTimeout == \/ \E r \in Ids : BookTimeout(r)
              \/ \E c \in Confirms : ConfirmTimeout(c)
              \/ SweepTimeout
Settles == <>[]up /\ <>[][~AnyTimeout /\ ~PlatformCrash]_vars
SlotRecovers == Settles =>
    \A r \in Ids : row[r] = "expired"
                      ~> (node[r] # "confirmed" \/ r \in overtaken)
-----------------------------------------------------------------------------
(* What the code says without the proviso; see the README's finding.       *)

(* machine.js:5-6, "never 'charged but not reserved'".                     *)
ChargedIsReserved ==
    \A r \in captured : row[r] = "confirmed" /\ node[r] = "confirmed"

=============================================================================
