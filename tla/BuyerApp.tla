------------------------------ MODULE BuyerApp -------------------------------
(***************************************************************************)
(* The buyer's page (frontend/src): App.jsx with its session, its tabs and *)
(* the bookings it makes, and the two views of a booking, of one node      *)
(* (ActiveReservation.jsx) and of a verified pair (VerifiedPairReservation *)
(* .jsx).  React unmounts and mounts views while their calls are out, and  *)
(* the closures of an old view go on.  The server is cut down to the       *)
(* statuses a buyer sees: "over" is any terminal one, disputes included.   *)
(***************************************************************************)
EXTENDS Naturals, FiniteSets

CONSTANTS Users,
          Resv,       \* numbered 1..n, in the order they are asked for
          MaxViews,   \* bound on views mounted
          MaxConfirms,  \* bound on confirm calls that are out, with their Checkouts
          None

Legs == {"a", "b"}
Booking == [Legs -> Resv \cup {None}]
Statuses == {"held", "confirmed", "running", "over", "expired"}
Seen == [status : Statuses, job : BOOLEAN]
ViewState ==
    [id : 1..MaxViews, res : Booking, st : [Legs -> Statuses \cup {None}],
     busy : SUBSET Legs, read : [Legs -> Seen \cup {None}], hydrating : BOOLEAN,
     job : BOOLEAN, final : [Legs -> Statuses \cup {None}], submitting : BOOLEAN,
     odd : SUBSET {"reused", "skewed", "raced"}]

ASSUME BuyerAppAssumption ==
    /\ Resv \subseteq Nat /\ MaxViews \in Nat
    /\ None \notin Nat \cup Users \cup Statuses \cup {"done"} \cup Seen \cup ViewState

VARIABLES
    session, tab, single, pair,   \* App: who, where, and the two bookings
    primary, reserving,           \* a partner is being picked; a button waits
    asked,                        \* POST /reservations calls that are out
    view, mounts,                 \* the view on screen, and views so far
    confirms, submits,            \* calls of views, whether still mounted or not
    polls, closing,               \* intervals running; onSettled timers set
    row, job,                     \* the server's reservations and their jobs
    late, remounted               \* histories: see the properties

app == <<session, tab, single, pair, primary, reserving, asked>>
calls == <<confirms, submits, polls, closing>>
server == <<row, job>>
history == <<late, remounted>>
vars == <<app, view, mounts, calls, server, history>>

Nothing == [a |-> None, b |-> None]
NoRow == [owner |-> None, status |-> None, with |-> None]

Init ==
    /\ session = None /\ tab = "rent" /\ single = None /\ pair = Nothing
    /\ primary = FALSE /\ reserving = FALSE /\ asked = {}
    /\ view = None /\ mounts = 0
    /\ confirms = {} /\ submits = {} /\ polls = {} /\ closing = {}
    /\ row = [r \in Resv |-> NoRow] /\ job = [r \in Resv |-> None]
    /\ late = {} /\ remounted = {}
-----------------------------------------------------------------------------
(* What App renders, given its state: a view, or the storefront.           *)
Shown(who, where, p, s) ==
    IF where = "share" /\ who # None THEN Nothing
    ELSE IF p # Nothing THEN p ELSE [a |-> s, b |-> None]
Given == Shown(session, tab, pair, single)
Storefront == Shown(session, "rent", pair, single) = Nothing /\ (tab = "rent" \/ session = None)
IsPair(res) == res.b # None

(* A fresh view shows the booking as it was when it was made; the effect   *)
(* of a pair then asks the server, and is hydrating until it has heard.    *)
(* The history `odd` tells what was unusual about a view: it got a second  *)
(* booking, the server's answer was lost or overtaken, or it asked while   *)
(* its job was being submitted.                                            *)
Fresh(res) ==
    [id |-> mounts + 1, res |-> res, st |-> [l \in Legs |-> "held"], busy |-> {},
     read |-> Nothing, hydrating |-> IsPair(res), job |-> FALSE, final |-> Nothing,
     submitting |-> FALSE, odd |-> {}]

(* React keeps a view whose kind does not change, with all its state, and  *)
(* only hands it the new booking.  The view of one node takes it as its    *)
(* own; that of a pair goes on to hold the two it was mounted with, but    *)
(* drops what it has read and asks the server about the new two.           *)
Handed(res) ==
    IF IsPair(res) THEN [view EXCEPT !.hydrating = TRUE, !.read = Nothing,
                                     !.odd = @ \cup {"reused"}]
    ELSE [view EXCEPT !.res = res, !.odd = @ \cup {"reused"}]
Render ==
    LET res == Shown(session', tab', pair', single')
        kept == view # None /\ res # Nothing /\ IsPair(res) = IsPair(view.res)
    IN
    /\ view' = IF res = Nothing THEN None
               ELSE IF ~kept THEN Fresh(res)
               ELSE IF res = Given THEN view ELSE Handed(res)
    /\ mounts' = IF res = Nothing \/ kept THEN mounts ELSE mounts + 1
    /\ mounts' <= MaxViews
    /\ polls' = IF view = None \/ kept THEN polls ELSE {p \in polls : p.view # view.id}
    /\ remounted' = IF view = None \/ kept THEN remounted
                    ELSE remounted \cup {c.r : c \in {d \in confirms : d.view = view.id}}
-----------------------------------------------------------------------------
(* handleAuth.                                                             *)
SignIn(u) ==
    /\ session = None /\ session' = u
    /\ UNCHANGED <<tab, single, pair, primary, reserving, asked, confirms, submits,
                   closing, server, late>>
    /\ Render

ForgetNothing == UNCHANGED <<single, pair, primary>>     \* mutant: keeps the booking
Forget == single' = None /\ pair' = Nothing /\ primary' = FALSE
SignOut ==
    /\ session # None /\ session' = None
    /\ Forget
    /\ UNCHANGED <<tab, reserving, asked, confirms, submits, closing, server, late>>
    /\ Render

SwitchTab ==
    /\ session # None
    /\ tab' = IF tab = "rent" THEN "share" ELSE "rent"
    /\ UNCHANGED <<session, single, pair, primary, reserving, asked, confirms, submits,
                   closing, server, late>>
    /\ Render

(* handleStartVerification; handleCancelVerification or a fresh search.    *)
PickPrimary(on) ==
    /\ Storefront /\ primary # on /\ (on => ~reserving)
    /\ primary' = on
    /\ UNCHANGED <<session, tab, single, pair, reserving, asked, view, mounts, calls,
                   server, history>>

(* reserveWindow and handlePickPartner.  Only the button of the node being *)
(* reserved is off, so another one may be pressed.                         *)
Unused == {r \in Resv : row[r] = NoRow /\ \A q \in asked : r \notin {q.r, q.first}}
Reserve(kind, r) ==
    /\ Storefront /\ session # None
    /\ IF kind = "one" THEN ~primary ELSE primary /\ ~reserving
    /\ r \in Unused /\ \A q \in Unused : r <= q
    /\ asked' = asked \cup {[kind |-> kind, by |-> session, r |-> r, first |-> None]}
    /\ reserving' = TRUE
    /\ UNCHANGED <<session, tab, single, pair, primary, view, mounts, calls, server, history>>

Book(q) == row' = [row EXCEPT ![q.r] = [owner |-> q.by, status |-> "held", with |-> None]]

(* The answers.  api.js takes the token when a call is made, so the second *)
(* node of a pair is booked by whoever is signed in by then.               *)
AnswerOne(q) ==
    /\ q \in asked /\ q.kind = "one"
    /\ Book(q) /\ single' = q.r
    /\ asked' = asked \ {q} /\ reserving' = FALSE
    /\ late' = IF q.by = session THEN late ELSE late \cup {q.r}
    /\ UNCHANGED <<session, tab, pair, primary, confirms, submits, closing, job>>
    /\ Render

AnswerFirst(q) ==
    /\ q \in asked /\ q.kind = "first"
    /\ Book(q)
    /\ \E r \in Unused : asked' = (asked \ {q}) \cup
          {[kind |-> "second", by |-> session, r |-> r, first |-> q.r]}
    /\ reserving' = TRUE
    /\ UNCHANGED <<session, tab, single, pair, primary, view, mounts, calls, job, history>>

AnswerSecond(q) ==
    /\ q \in asked /\ q.kind = "second" /\ q.by # None
    /\ Book(q) /\ pair' = [a |-> q.first, b |-> q.r]
    /\ asked' = asked \ {q} /\ reserving' = FALSE /\ primary' = FALSE
    /\ late' = IF q.by = session /\ row[q.first].owner = session THEN late
               ELSE late \cup {q.first, q.r}
    /\ UNCHANGED <<session, tab, single, confirms, submits, closing, job>>
    /\ Render

(* Refused; or the token has expired, and App signs out whoever is in.     *)
AnswerRefused(q) ==
    /\ q \in asked /\ q.by # None
    /\ asked' = asked \ {q} /\ reserving' = FALSE
    /\ UNCHANGED <<session, tab, single, pair, primary, view, mounts, calls, server, history>>
AnswerUnauthorized(q) ==
    /\ q \in asked
    /\ asked' = asked \ {q} /\ reserving' = FALSE
    /\ session' = None /\ Forget
    /\ UNCHANGED <<tab, confirms, submits, closing, server, late>>
    /\ Render
-----------------------------------------------------------------------------
Mine(r) == row[r].owner = session
Asks(r, l) == Given[l] = r
Mark(what, when) == view' = IF view # None /\ when
                            THEN [view EXCEPT !.odd = @ \cup {what}] ELSE view
Update(id, new) == view' = IF view # None /\ view.id = id THEN new ELSE view

(* confirm and confirmOne, with confirmAndPay.  Checkout stays open when   *)
(* the view that opened it is gone, and also when it has reported a failed *)
(* payment: that ends what the button waits for, but not the Checkout.     *)
Waits(c) == c.stage # "open"
NotBusy(l) == l \notin view.busy
Confirm(l) ==
    /\ view # None /\ view.res[l] # None /\ view.st[l] = "held" /\ NotBusy(l)
    /\ Cardinality(confirms) < MaxConfirms
    /\ view' = [view EXCEPT !.busy = @ \cup {l}]
    /\ confirms' = confirms \cup {[view |-> view.id, leg |-> l, r |-> view.res[l],
                                   stage |-> IF Mine(view.res[l]) THEN "sent" ELSE "refused"]}
    /\ UNCHANGED <<app, mounts, submits, polls, closing, server, history>>
To(c, stage) == confirms' = (confirms \ {c}) \cup {[c EXCEPT !.stage = stage]}

(* The server makes an order for a reservation that is held.  It hears of  *)
(* the payment from the page or, when that call fails, from the gateway.   *)
(* Of a Checkout that has reported a failure before, the page shows no     *)
(* more: its promise is settled.                                           *)
ConfirmServed(c) ==
    /\ c \in confirms /\ c.stage = "sent"
    /\ To(c, IF row[c.r].status = "held" THEN "checkout" ELSE "refused")
    /\ UNCHANGED <<app, view, mounts, submits, polls, closing, server, history>>
CheckoutPaid(c) ==
    /\ c \in confirms /\ c.stage = "checkout" /\ row[c.r].status = "held"
    /\ row' = [row EXCEPT ![c.r].status = "confirmed"]
    /\ \/ /\ To(c, "paid")
          /\ Mark("raced", \E l \in Legs : Asks(c.r, l) /\ view.read[l] # None)
       \/ /\ To(c, "refused")
          /\ Mark("raced", IsPair(view.res) /\ \E l \in Legs : Asks(c.r, l))
    /\ UNCHANGED <<app, mounts, submits, polls, closing, job, history>>
PaidLate(c) ==
    /\ c \in confirms /\ c.stage = "open" /\ row[c.r].status = "held"
    /\ row' = [row EXCEPT ![c.r].status = "confirmed"]
    /\ confirms' = confirms \ {c}
    /\ Mark("raced", IsPair(view.res) /\ \E l \in Legs : Asks(c.r, l))
    /\ UNCHANGED <<app, mounts, submits, polls, closing, job, history>>

(* payment.failed; then ondismiss, which changes nothing when the promise  *)
(* was rejected before.  A payment the server refuses to verify, because   *)
(* the reservation is no longer held, ends the same way.                   *)
PaymentFails(c) ==
    /\ c \in confirms /\ c.stage = "checkout"
    /\ To(c, "open")
    /\ Update(c.view, [view EXCEPT !.busy = @ \ {c.leg}])
    /\ UNCHANGED <<app, mounts, submits, polls, closing, server, history>>
CheckoutDismissedTwice(c) ==               \* mutant: each end gives the button back
    /\ c \in confirms /\ c.stage \in {"checkout", "open"}
    /\ To(c, "refused")
    /\ UNCHANGED <<app, view, mounts, submits, polls, closing, server, history>>
CheckoutDismissed(c) ==
    /\ c \in confirms /\ c.stage \in {"checkout", "open"}
    /\ IF c.stage = "open" THEN confirms' = confirms \ {c} ELSE To(c, "refused")
    /\ UNCHANGED <<app, view, mounts, submits, polls, closing, server, history>>
ConfirmAnswered(c) ==
    /\ c \in confirms /\ c.stage \in {"paid", "refused"}
    /\ confirms' = confirms \ {c}
    /\ Update(c.view, [view EXCEPT !.busy = @ \ {c.leg},
                 !.st = IF c.stage = "paid" THEN [@ EXCEPT ![c.leg] = "confirmed"] ELSE @])
    /\ UNCHANGED <<app, mounts, submits, polls, closing, server, history>>
-----------------------------------------------------------------------------
(* submitJob.                                                              *)
Submit ==
    /\ view # None /\ ~view.submitting /\ ~view.job
    /\ \A l \in Legs : view.res[l] # None => view.st[l] = "confirmed"
    /\ IsPair(view.res) \/ NotBusy("a")
    /\ view' = [view EXCEPT !.submitting = TRUE]
    /\ submits' = submits \cup {[view |-> view.id, res |-> view.res, stage |-> "sent"]}
    /\ UNCHANGED <<app, mounts, confirms, polls, closing, server, history>>
Submitted(s, stage) == submits' = (submits \ {s}) \cup {[s EXCEPT !.stage = stage]}
Ready(r) == r = None \/ (Mine(r) /\ row[r].status = "confirmed" /\ job[r] = None)

(* POST /jobs inserts the job of each node and only then marks its         *)
(* reservation running; the second node may fail to take its job.          *)
SubmitServed(s) ==
    /\ s \in submits /\ s.stage = "sent"
    /\ IF Ready(s.res.a) /\ Ready(s.res.b)
       THEN /\ job' = [job EXCEPT ![s.res.a] = "running"] /\ Submitted(s, "inserted a")
            /\ row' = [row EXCEPT ![s.res.a].with = s.res.b]
       ELSE UNCHANGED server /\ Submitted(s, "refused")
    /\ Mark("skewed", Given = s.res /\ view.hydrating)
    /\ UNCHANGED <<app, mounts, confirms, polls, closing, history>>
SubmitMarks(s, l) ==
    /\ s \in submits /\ s.stage = IF l = "a" THEN "inserted a" ELSE "inserted b"
    /\ row' = [row EXCEPT ![s.res[l]].status = "running"]
    /\ Submitted(s, IF l = "a" /\ IsPair(s.res) THEN "sibling" ELSE "done")
    /\ UNCHANGED <<app, view, mounts, confirms, polls, closing, job, history>>
SubmitSibling(s) ==
    /\ s \in submits /\ s.stage = "sibling"
    /\ \/ /\ job' = [job EXCEPT ![s.res.b] = "running"] /\ Submitted(s, "inserted b")
          /\ UNCHANGED row
       \/ /\ row' = [row EXCEPT ![s.res.a].with = None] /\ Submitted(s, "done")
          /\ UNCHANGED job
    /\ UNCHANGED <<app, view, mounts, confirms, polls, closing, history>>

(* The interval is set even when the view has gone meanwhile, and then     *)
(* nothing clears it.                                                      *)
SubmitAnswered(s) ==
    LET poll == [view |-> s.view, res |-> s.res] IN
    /\ s \in submits /\ s.stage \in {"done", "refused"}
    /\ submits' = submits \ {s}
    /\ polls' = IF s.stage = "done" THEN polls \cup {poll} ELSE polls
    /\ Update(s.view, IF s.stage = "done"
          THEN [view EXCEPT !.submitting = FALSE, !.job = TRUE, !.st = [l \in Legs |-> "running"]]
          ELSE [view EXCEPT !.submitting = FALSE])
    /\ UNCHANGED <<app, mounts, confirms, closing, server, history>>
-----------------------------------------------------------------------------
(* The pair's mount effect: the two GETs, and what is made of them.        *)
Read(r) == [status |-> row[r].status, job |-> job[r] # None]
HydrateRead(l) ==
    /\ view # None /\ view.hydrating /\ view.read[l] = None /\ Mine(Given[l])
    /\ view' = [view EXCEPT !.read = [@ EXCEPT ![l] = Read(Given[l])],
          !.odd = IF \E s \in submits : s.res = Given THEN @ \cup {"skewed"} ELSE @]
    /\ UNCHANGED <<app, mounts, calls, server, history>>

HydrateKeeps(v) == [v EXCEPT !.hydrating = FALSE, !.read = Nothing] \* mutant: trusts the snapshot
Hydrated(v) ==
    LET st == [l \in Legs |-> v.read[l].status]
        found == \E l \in Legs : v.read[l].job
    IN  [v EXCEPT !.hydrating = FALSE, !.st = st, !.job = @ \/ found, !.read = Nothing,
                  !.final = IF found /\ \A l \in Legs : st[l] # "running" THEN st ELSE @]
NotResumed(v) == {}                        \* mutant: the poll is not taken up again
Resumed(v) ==
    IF (\E l \in Legs : v.read[l].job) /\ (\E l \in Legs : v.read[l].status = "running")
    THEN {[view |-> v.id, res |-> Given]} ELSE {}
Hydrate ==
    /\ view # None /\ view.hydrating /\ \A l \in Legs : view.read[l] # None
    /\ view' = Hydrated(view) /\ polls' = polls \cup Resumed(view)
    /\ UNCHANGED <<app, mounts, confirms, submits, closing, server, history>>
HydrateFails ==
    /\ view # None /\ view.hydrating
    /\ view' = [view EXCEPT !.hydrating = FALSE, !.read = Nothing, !.odd = @ \cup {"raced"}]
    /\ UNCHANGED <<app, mounts, calls, server, history>>

(* Both reservations of a pair have to be settled before it is final.      *)
SettledAtOnce(p) == TRUE                   \* mutant: the job's end is enough
Settled(p) == IsPair(p.res) => \A l \in Legs : row[p.res[l]].status # "running"

(* A poll that finds the job done, and in a pair both reservations too; a  *)
(* disputed pair stays on screen, anything else is closed half a second    *)
(* later.                                                                  *)
Poll(p) ==
    LET st == [l \in Legs |-> IF p.res[l] = None THEN None ELSE row[p.res[l]].status] IN
    /\ p \in polls /\ Mine(p.res.a) /\ job[p.res.a] = "done"
    /\ Settled(p)
    /\ polls' = polls \ {p}
    /\ IF IsPair(p.res)
       THEN /\ Update(p.view, [view EXCEPT !.st = st, !.final = st])
            /\ closing' \in {closing, closing \cup {"pair"}}
       ELSE closing' = closing \cup {"one"} /\ UNCHANGED view
    /\ UNCHANGED <<app, mounts, confirms, submits, server, history>>
Close(kind) ==
    /\ kind \in closing /\ closing' = closing \ {kind}
    /\ IF kind = "one" THEN single' = None /\ UNCHANGED pair
                       ELSE pair' = Nothing /\ UNCHANGED single
    /\ primary' = FALSE
    /\ UNCHANGED <<session, tab, reserving, asked, confirms, submits, server, late>>
    /\ Render
-----------------------------------------------------------------------------
(* The server on its own.  Jobs that report early, or never, are in        *)
(* JobSettlement.                                                          *)
HoldExpires(r) ==
    /\ row[r].status = "held" /\ row' = [row EXCEPT ![r].status = "expired"]
    /\ UNCHANGED <<app, view, mounts, calls, job, history>>
JobReports(r) ==
    /\ row[r].status = "running" /\ job[r] = "running"
    /\ job' = [job EXCEPT ![r] = "done"]
    /\ UNCHANGED <<app, view, mounts, calls, row, history>>
JobSettles(r) ==
    /\ row[r].status = "running" /\ job[r] = "done"
    /\ \A q \in Resv : row[r].with = q \/ row[q].with = r => job[q] = "done"
    /\ row' = [row EXCEPT ![r].status = "over"]
    /\ UNCHANGED <<app, view, mounts, calls, job, history>>
-----------------------------------------------------------------------------
Answering(q) == \/ AnswerOne(q) \/ AnswerFirst(q) \/ AnswerSecond(q)
                \/ AnswerRefused(q) \/ AnswerUnauthorized(q)
Confirming(c) == \/ ConfirmServed(c) \/ CheckoutPaid(c) \/ PaidLate(c) \/ PaymentFails(c)
                 \/ CheckoutDismissed(c) \/ ConfirmAnswered(c)
Submitting(s) == \/ SubmitServed(s) \/ SubmitSibling(s) \/ SubmitAnswered(s)
                 \/ \E l \in Legs : SubmitMarks(s, l)
Hydrating == (\E l \in Legs : HydrateRead(l)) \/ Hydrate \/ HydrateFails
Serving(r) == JobReports(r) \/ JobSettles(r)

Next ==
    \/ \E u \in Users : SignIn(u)
    \/ SignOut \/ SwitchTab \/ PickPrimary(TRUE) \/ PickPrimary(FALSE)
    \/ \E kind \in {"one", "first"}, r \in Resv : Reserve(kind, r)
    \/ \E q \in asked : Answering(q)
    \/ \E l \in Legs : Confirm(l)
    \/ \E c \in confirms : Confirming(c)
    \/ Submit
    \/ \E s \in submits : Submitting(s)
    \/ Hydrating
    \/ \E p \in polls : Poll(p)
    \/ \E kind \in {"one", "pair"} : Close(kind)
    \/ \E r \in Resv : HoldExpires(r) \/ Serving(r)

Spec == Init /\ [][Next]_vars
-----------------------------------------------------------------------------
TypeOK ==
    /\ session \in Users \cup {None} /\ tab \in {"rent", "share"}
    /\ single \in Resv \cup {None} /\ pair \in Booking
    /\ primary \in BOOLEAN /\ reserving \in BOOLEAN
    /\ asked \subseteq [kind : {"one", "first", "second"}, by : Users \cup {None},
                        r : Resv, first : Resv \cup {None}]
    /\ view \in ViewState \cup {None} /\ mounts \in 0..MaxViews
    /\ confirms \subseteq [view : 1..MaxViews, leg : Legs, r : Resv,
                           stage : {"sent", "checkout", "open", "paid", "refused"}]
    /\ submits \subseteq [view : 1..MaxViews, res : Booking,
          stage : {"sent", "inserted a", "sibling", "inserted b", "done", "refused"}]
    /\ polls \subseteq [view : 1..MaxViews, res : Booking]
    /\ closing \subseteq {"one", "pair"}
    /\ row \in [Resv -> [owner : Users \cup {None}, status : Statuses \cup {None},
                         with : Resv \cup {None}]]
    /\ job \in [Resv -> {None, "running", "done"}]
    /\ late \subseteq Resv /\ remounted \subseteq Resv

OnScreen == IF view = None THEN {} ELSE {view.res[l] : l \in Legs} \ {None}

(* App.jsx:69: "a signed-out session should not keep showing someone       *)
(* else's booking".  What is on screen was booked by who is signed in,     *)
(* unless its answer came only after its user was gone: that one is shown  *)
(* all the same (App.jsx:102).  Every other one is forgotten in time.      *)
OwnBookingsShown == \A r \in OnScreen \ late : Mine(r)

(* A view is never ahead of the server: what it shows as confirmed is      *)
(* paid, and what it calls final has been settled -- unless two bookings   *)
(* overlapped and the second got the view of the first, or the job was     *)
(* being submitted while the view asked the server.                        *)
NeverAhead == view # None /\ "reused" \notin view.odd =>
    /\ \A l \in Legs : view.res[l] # None /\ view.st[l] = "confirmed" =>
          row[view.res[l]].status \in {"confirmed", "running", "over"}
    /\ view.final # Nothing /\ "skewed" \notin view.odd => row[view.res.a].status = "over"

(* A button that waits is given back by the call it waits for, and by no   *)
(* other: not by a Checkout that failed, stayed open beside a second one   *)
(* and is dismissed or paid after all, nor by the calls of a view before.  *)
ButtonWaitsForItsCall == view # None => \A l \in Legs :
    l \in view.busy <=> \E c \in confirms : c.view = view.id /\ c.leg = l /\ Waits(c)

(* VerifiedPairReservation.jsx:76-87: a pair that was paid for is not      *)
(* offered for payment again once its view has asked the server -- unless  *)
(* it was paid from a Checkout of the view before, from one that had       *)
(* failed, or while the answer was on its way, a call of the view failed,  *)
(* or the view was handed a second pair.                                   *)
PaidIsShown ==
    view # None /\ IsPair(view.res) /\ ~view.hydrating /\ view.odd \cap {"raced", "reused"} = {} =>
    \A l \in Legs : view.st[l] = "held" /\ NotBusy(l) /\ view.res[l] \notin remounted =>
        row[view.res[l]].status \in {"held", "expired"}

(* A job on screen is watched until its end, whichever view submitted it:  *)
(* a poll of this very view is running, or has found the end -- unless the *)
(* view was handed a second booking (reused).  A view that shows a final   *)
(* state watches no more; that a pair which asked the server while its job *)
(* was being submitted (skewed) may show one too early, NeverAhead allows. *)
JobIsWatched == view # None /\ view.job /\ view.final = Nothing =>
    \/ \E p \in polls : p.view = view.id
    \/ ~IsPair(view.res) /\ job[view.res.a] = "done"
    \/ "reused" \in view.odd

=============================================================================
