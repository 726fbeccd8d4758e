# NODEVA in TLA+

NODEVA rents time on other people's GPUs. A user books a window of a provider's
node, pays, submits a container job, and is billed or refunded by how the job
ended. Two authorities must agree about a booking: the platform's PostgreSQL
database (`src/backend`) and the node's own SQLite ledger (`src/worker`), joined
by one WebSocket that may die at any moment. These modules model that protocol,
the settlement of jobs, the money behind them, the marketplace in front of them
and the page a buyer sees it all through; TLC checks them on small
instances, and TLAPS proves the main results for every value of the constants.

To check: `tlc -config <run>.cfg <MC module>.tla` and `tlapm <Module>Proofs.tla`.

## 1. Inventory

| component | state | operations | talks to |
|---|---|---|---|
| Node reservation ledger, `worker/.../reservations.py` | `local_reservations` rows; a wall clock | `try_lock`, `commit`, `release`, `live_count`, `status_of` | called by the worker link, one connection per call |
| Worker link, `worker/.../link.py` | session socket, job tasks | message loop, heartbeat, `_on_*` handlers, `_run_and_report`, reconnect | hub over WebSocket |
| Hub, `backend/src/ws/hub.js` | `_pending` by id, `_conns` by node | `requestReservation`, `commitReservation`, `queryReservationStatus`, `releaseReservation`, `submitJob`, `_onMessage`, `_onClose`, `sweepStale` | API handlers (promises), node (messages), `onPresence` and `onJobResult` callbacks |
| Booking and confirmation, `api/server.js` | `reservations`, `payments` | POST `/reservations`, `/confirm`, `/confirm/verify`, the payment webhook, `commitNodeAndCapture` | hub, database, gateway |
| Sweeps, `reservations/reconciler.js`, `index.js` | `reconciled_at` | `expireStaleHolds`, `reconcileExpiredMismatches`, `hub.sweepStale`, on `setInterval` | hub, database |
| State machine, `reservations/machine.js` | none (the edge table) | `canTransition`, `SETTLEMENT` | every handler that writes a status |
| Jobs and verification, `api/server.js`, `jobs/verification.js` | `jobs`, `dispute_resolutions` | POST `/jobs`, `/tiebreak`, `onJobResult`, `settleVerificationGroup`, `resolveDisputeTiebreaker` | hub, settlement |
| Settlement and ledger, `api/server.js`, `payments/settle.js`, `001_init.sql` | ledger accounts, transactions, entries | `quote`, `split`, `meteredCharge`, `commitNodeAndCapture`, `settleReservation`, `accountId` | database, reputation, refunds |
| Reputation, `providers/reputation.js` | `rep_jobs_total`, `rep_jobs_failed` | `reputationEffect`, `bumpReputation` | settlement, dispute resolution |
| Gateway and refunds, `payments/razorpay.js`, `payments/refunds.js` | `payments`, `refund_retries` | orders, `/confirm/verify`, the webhook, `issueRefund`, `processRefundRetries` | external gateway |
| Cluster relay, `ws/clusterRelay.js` | remote presence, relayed calls | publish, forward, answer, time out | hubs of other instances over Redis |
| Presence, `ws/hub.js`, `api/server.js` | `_nodes`, `compute_nodes.status` | HELLO/CHALLENGE, `_onClose`, `sweepStale`, `onPresence` | worker link, cluster relay, search |
| Enrolment, availability, retirement | `compute_nodes`, `node_availability` | the `/nodes` routes | hub authentication, search |
| Accounts, sessions, limits, `auth/` | users, reset tokens, limiter windows | sign-up, login, reset, `rateLimit` | every route |
| Search and scheduling, `marketplace/` | none | `browseCatalogue`, `searchCandidates`, `subtractBusy`, `coversWindow`, `rank` | database, hub |
| Buyer's page, `frontend/src` | session, bookings, the view on screen, calls and intervals | sign in and out, reserve, confirm and pay, submit, poll, hydrate | API, checkout of the gateway |
| Peers, `worker/.../peer.py` | one connection | mutual authentication | two workers |

What is hard, and what makes each part correct:

* The ledger is called from any number of threads; a clock sample is taken
  before the SQLite write lock is won. *Correct*: no two live rows overlap, and
  a signed receipt is honoured until its `hold_expires_at`.
* The hub matches replies to calls by reservation id alone, so two calls on one
  id may overwrite each other's entry, take each other's answers and delete each
  other's entry when their timer fires. *Correct*: a call is answered or times
  out, and what it concludes is true of its own request.
* Every handler is a chain of awaits: a status read at the start is stale when
  it is written at the end, and most `UPDATE`s do not look at the status.
  *Correct*: never charged but not reserved; a terminal state is terminal.
* The process, the socket and the worker die between any two steps.
  *Correct*: every hold ends, and a slot the platform gave up is freed.
* Job results may come early, late, twice over different jobs, or never.
  *Correct*: nothing is settled but on what its own job reported; every stored
  result settles; each settlement counts once for the provider; a third opinion
  blames only a node it contradicts.
* Verify, the webhook, the settlement and the refund sweep all work on one
  `payments` row with nothing locked, against a gateway whose answers may be
  lost. *Correct*: what is delivered was paid and kept; money taken is always
  somebody's business; it goes back at most once.
* A node may reconnect, to another instance even, while its old socket is still
  closing and its presence writes are still under way. *Correct*: the newest
  connection wins, and status, relay and search follow.
* Search puts three queries and the hub's connections together while bookings,
  enrolments and retirements go on. *Correct*: sold or undeclared time is not
  offered; a machine is not retired from under a booking.
* The page mounts and unmounts views while their calls are out, and one browser
  may change hands. *Correct*: a user sees own bookings, as far as the server
  has them, pays once and learns how the job ended.
* `SELECT ... FOR UPDATE` in `settleReservation` runs outside a transaction and
  so locks nothing: only a unique key stands between two settlements.
  *Correct*: the ledger balances, pays once, in full and as the row says.

`PROJECT.json` lists every component and, under `hazards`, each of these at its
line with the properties that watch it. Where the code does go wrong, a property
leaves the case out by a named history: the hazard's note says so, the comment of
the property says what is left, and section 3 lists those that contradict what the
code says of itself.

## 2. Modules

```
SlotLock            abstract: what a node promises about its slot
  ^  implemented by
  +-- NodeLedger    the SQLite ledger          NodeLedgerProofs
  +-- Booking       both authorities + the link between them    BookingProofs
JobSettlement       jobs, verification groups, disputes, reputation    JobSettlementProofs
Money               integer arithmetic of settle.js
  +-- Billing       capture and settle transactions, the ledger    BillingProofs
Payments            orders, webhook, refunds and their queue    PaymentsProofs
Connections         a node's sockets, at every instance
  +-- Presence      what the database makes of them        PresenceProofs
  +-- ClusterPresence   what the other instances make of them    PresenceProofs
Scheduler           free windows and scores, pure
  +-- Marketplace   enrolment, catalogue, search, booking    MarketplaceProofs
BuyerApp            the page    BuyerAppProofs
MC<Module>          constants for TLC
```

**SlotLock** holds the set of `claims` a node is committed to and the ids it has
`spent`. `Grant` needs a free window and a fresh id and may first drop claims;
`Drop` gives claims up. That is all the rest of the system relies on.

**NodeLedger** is `ReservationStore`. `table` is the SQLite table, `clock` the
wall clock, `call` the progress of each thread. `CallTryLock`, `CallCommit` and
`CallLiveCount` sample the clock (`_now_ms` precedes `BEGIN IMMEDIATE`), and the
matching `TryLockGranted/Refused`, `CommitAccepted/Refused` and `LiveCount` are
the transactions, which begin with `_expire_stale`; a refused booking rolls that
back with the rest. `Release` is one statement; `Abort` is a crash or rollback.
The `receipts` variable is history: what the node has signed.

**Booking** follows reservations that compete for one slot of one node.
A step is what runs between two awaits. `pending` is the hub's `_pending`,
overwritten by `SendAwait` and resolved by `HubReceive` exactly as the hub does,
by id only; `toNode`/`toHub` are the two directions of the socket, ordered and
lost together by `LinkDies`; `online` is what the hub believes. `BookAsk`,
`BookTimeout`, `BookInsert` are POST `/reservations`; `ConfirmRead`,
`ConfirmSend`, `ConfirmTimeout`, `ConfirmGiveUp`, `ConfirmCapture` are
`/confirm` with `commitNodeAndCapture`; the `Sweep*` actions are one pass of
`reconcileExpiredMismatches`; `Node*` are the worker's handlers. `overtaken` is
a history variable: ids on which two calls were at work at once. Two properties
hold only for the others; `BookingCharged` shows that the first needs the
proviso.

**JobSettlement** follows reservations from confirmed to settled. A job is
`<<request, leg>>`, so a verified pair is the two legs of one request. `wire`
is what link and node do with a job; `handler` is the `JOB_RESULT` handler,
which yields between counting its group, comparing it, checking the row
(`SettleCheck`) and the transaction (`SettleTxn`), and, for a tiebreak, between
`ResolveRead` and `Attribute`. The three status vocabularies of the code are
kept apart and translated by `MapJobStatus`, `JobStatusToSettlement` and
`JobRowStatusToOutcome`. `missed` is history: what kept a job's result from being
settled. It came before its row said running (`early`), its job was stripped of
its group when it had finished already (`stripped`), or it was stored when the
platform died and not settled, or its handler had not returned (`crash`).
`EveryResultSettles` exempts these three and the groups that are not `Orderly`: a
second tiebreak, or a reservation with two jobs. `FaultFairlyAttributed` speaks of groups
that are `Single`: each reservation of the group has one job. Without that it is
false: a second `POST /jobs` that read a leg's reservation while it was confirmed
puts the row, disputed by now, back to running (`MarkRunning`, the unconditional
`UPDATE` at `server.js:1116`). If the handler of the other leg was still about to
compare when the tiebreak joined the group, it disputes the tiebreak's reservation
too; the disputed pair is then an original and the tiebreak, the other original
arbitrates between them, and the third node may be blamed.

**Money** has the integer operators `Quote`, `Split`, `MeteredCharge`.
**Billing** has the two transactions that move money. A handler reads the row,
looks for the ledger accounts it needs (`CaptureBegin`, `SettleBegin`) and
commits (`CaptureEnd`, `SettleEnd`); a unique key somebody else committed in
between turns it back (`CaptureClash`, `SettleClash`), a `CHECK` refuses it
(`SettleRefused`), a crash loses it (`Abort`). `ledger[r]` sums the entries of
reservation r's transactions per kind of account. `Manual` is
`ALLOW_MANUAL_SETTLEMENT`.

**Payments** is one reservation at a live gateway. `ConfirmRead` and
`ConfirmInsert` create an order, `UserPays` pays it; a handler (`h`) then takes
it up from the browser (`VerifyRead`) or the webhook (`WebhookRead`), marks the
payment (`Mark`, `WebhookLook`), asks the node (`NodeCommits`, `NodeRefuses`,
`NodeUnreachable`) and captures, or pays back through `Refund`, `Record`,
`Queue`, which are `issueRefund`. `Sweep*` is `processRefundRetries`. Nothing is
locked between two awaits, because `FOR UPDATE` runs outside a transaction. Three
histories name what the code loses track of. `shared`: orders two handlers
worked on at once (then verify may fail a payment the webhook has captured, and
both may commit). `stranded`: the payment was marked captured and the handler
crashed, or the node answered `COMMIT_FAILED`, or the webhook found the
reservation no longer held; none of these refunds or queues anything.
`blurred`: the gateway returned the money but its answer, or the record of it,
was lost, or two sweeps had the row at once, or `issueRefund` revived an
exhausted row; the money may go back twice.

**Connections** is everything a node's sockets can do, at any number of
instances: `run_forever`, the handshake, the replacement of a prior socket, the
`close` event, heartbeats, `sweepStale`, and a network and processes that fail.
`latest` is history, the socket welcomed last. **Presence** adds
`compute_nodes.status` and the `UPDATE`s nobody awaits; `stale` remembers that
one failed, was overtaken by another, or was sent for an instance the node had
left. **ClusterPresence** adds the broadcasts of `clusterRelay.js` and what one
other instance makes of them.

**Scheduler** holds the pure parts: `SubtractBusy`, `CoversWindow` and `Score`
with exact fractions, reliabilities clamped as `expectedCostPaise` does it and
counted in parts of `Percent`; `Unit` is a common multiple of them, over which a
cost is a whole number. `Walk` is the loop of `subtractBusy`, as a recursive
function of the set of bookings the cursor has passed. **Marketplace** composes it
with enrolment, availability, retirement, `browseCatalogue`, `searchCandidates` and
booking, each cut at its queries; a booking is for any machine that has a socket
and any slot (`Asked`), offered or not, since POST `/reservations` looks at neither; `known` is history, the rows there were when a buyer asked, and `late`
the bookings inserted after a retirement had looked.

**BuyerApp** is `App.jsx` with its two views of a booking, one of a node and one
of a verified pair. A view is mounted, kept and handed another booking, or
unmounted while its calls are out, as React does it (`Render`): a kept view of one
node shows the new booking with the old status, a kept view of a pair keeps the old
ids and asks the server about the new ones (`Handed`). The calls,
intervals and timers of an unmounted view go on in `confirms`, `submits`,
`polls` and `closing`. A Checkout that reports a failed payment gives the button
back and stays open (`PaymentFails`); it may be paid after all (`PaidLate`) or
dismissed beside another one of the same leg. `late` (bookings whose answer came to another session),
`remounted` (views left during a checkout) and `odd` are histories. The server
is cut down to the statuses a buyer sees.

## 3. What is checked

| run | instance | what it shows |
|---|---|---|
| `NodeLedger` | 2 ids, 2 threads, windows `[0,2) [1,3) [2,4)`, TTL 1, clock to 3 | no double booking, receipts honoured and disjoint, rows die only by lapse or release, refinement of SlotLock |
| `Booking` | 2 reservations, 2 confirms, at most 2 messages when a sweep sends | both authorities agree on captured rows, a held row is backed by the node, a reply wakes only a waiting call, refinement of SlotLock |
| `BookingLive` | 1 reservation, 2 confirms | every confirm is answered, every hold ends on both sides, a slot given up recovers |
| `JobSettlement` | 2 reservations, a verified and a plain request, 3 kinds of result | settlements are justified by the reservation's own job; counters match settlements |
| `Dispute` | 3 reservations, a verified pair, one tiebreak, 2 outputs | fault falls where the third node says, once; every stored result settles that was not early, stripped or lost in a crash |
| `Billing` | 1 reservation, 2 handlers, prices 1 and 497 paise/h, windows of 60 s, 60.499 s, 119 s, 1 h, compute of 2 s and 1501 s | quotes are fair, the ledger pays once and in full, final rows agree with it |
| `Payments` | 1 reservation, 2 orders, 2 handlers, 2 sweeps, 2 attempts | what is delivered is paid, every payment is tracked, none is refunded beyond what is owed, every payment ends, but for those that are `stranded` or `blurred` |
| `Presence` | 2 instances, 2 sockets, 3 missed heartbeats | the newest connection is held, status follows the hubs, retired nodes stay retired, a dark socket is swept |
| `ClusterPresence` | 2 instances, 3 sockets, an observer | calls are relayed to the instance that has the node |
| `Marketplace` | 1 machine, 2 providers, 1 buyer, 2 reservations, 2 prices, clock 0 and 3, windows `[0,4)` and `[4,5)`, bookings `[1,2)` and `[3,5)`, wish `[1,2)`, 12 candidates | offers are free and declared time, the catalogue is within search, retirement spares bookings it could see, a key keeps its owner, dominated nodes are not ranked higher |
| `BuyerApp` | 2 users, 2 bookings, 2 views, 2 confirms | what is on screen is the user's own, never ahead of the server, not offered again once paid, and watched to the end; a button waits for its own call |

One run must fail; it states what a comment says:

| run | claim | what happens instead |
|---|---|---|
| `BookingCharged` | "charged but not reserved" never happens (`machine.js`) | another call on the same id takes or deletes the pending entry of a commit; the row ends expired though captured, or captured though the node let go |

### Seen while modelling

What follows the modules show, and no run states it as a claim. The properties
leave these cases out by a named history or proviso.

* Hub and sweep: a late COMMITTED resolves the status query the sweep has sent
  for the same id, for the hub keys by id alone; it has no `status`, so the row
  is marked reconciled while the node stays confirmed (against
  `docs/reservation-protocol.md:61`). This is the proviso of
  `ReconciledIsFreeUnlessOvertaken`.
* Rows: an expired row is set back to confirmed by the unconditional `UPDATE` of
  the capture; the `UPDATE ... 'running'` at `server.js:1116` revives a row that
  an early result blaming the provider has settled since the job was inserted,
  and the row then says running for good, though terminal states are to be
  "truly terminal" (`test/machine.test.js:17`, `machine.js:33`).
* Jobs: a node that vanishes mid-job leaves its row running
  (`docs/reservation-protocol.md:62` promises failed_provider and a refund);
  a result that overtakes the `INSERT` of its job is dropped, one that overtakes
  the `UPDATE` to running cannot settle;
  two concurrent submissions both find a reservation confirmed and both run,
  although the comment at `server.js:786` says a second is refused. A job that is
  stripped of its group after it finished, and whose handler had left it to its
  sibling's, is settled by nothing, although `server.js:1148` wants it settled
  "normally, solo, once it finishes" (`stripped`). Two tiebreaks of one group may
  pass the check of `server.js:1192` together; `jobs.find` (`server.js:1554`)
  takes the first, and the other's reservation is not settled, although
  `server.js:1532` says the tiebreaker's is settled "normally" (`Orderly`). The
  verdict stays fair even then: `BlameIsFair` has no bound on tiebreaks.
* Ledger: a unique-key error from two *different* reservations inserting one
  shared ledger account is answered `already_captured` or `already_settled`
  (`server.js:1659`, `1761`, where `1677` has only the idempotency key in mind);
  a charge of exactly one paisa can never be settled, because the provider's
  share is zero and `CHECK (amount_paise <> 0)` refuses it (`OnlyAPaisaIsRefused`
  proves it is the only such charge); `commit` may accept a hold that lapsed
  between its clock sample and its write lock.
* Payments: the ways into `stranded` and `blurred` above; the second of two orders
  that are both paid ends among the former. For `COMMIT_FAILED`, which is thrown
  past the refund, this is against `server.js:901`: a "charge for a slot we cannot
  deliver" needs "an actual refund".
* Retirement is refused "while a booking on this node is still live"
  (`server.js:629`), but a booking inserted between the look and the `UPDATE` goes
  with the machine (`late`).
* Worker: a connection closed with 1000 or 1001 ends two of the three tasks of a
  session and the third waits for ever, so the worker neither reconnects nor
  ends; any other loss in a session ends the process.
* Catalogue: `nodeStore.js:14` wants offers to be "precisely what the database
  would actually accept a booking for", but only bookings that are not over yet
  are subtracted: a window that has begun is advertised from its start, which a
  completed booking may still block. `CatalogueWithinSearch` and `OffersStand`
  speak of what is left of it.
* Presence: an 'offline' that is written after the 'online' that followed it, or
  by an instance the node has left, stands until the next event (`stale`).
* Buyer's page: a "session should not keep showing someone else's booking"
  (`App.jsx:69`), but the answer of a booking that comes after its user signed out
  is shown to whoever is there (`App.jsx:102`); the second node of a pair is booked with whoever's token
  is current; two single bookings at once reuse one view, with the status of the
  first; a single view never asks the server for its status, so after a change
  of tabs a paid booking looks held; a view left during checkout, and a payment that
  failed (`confirmPayment.js:82`), allow a second checkout beside the first, and both
  may be paid; a pair view that is handed another pair goes on paying and submitting
  for the first one with the statuses of the second; an interval of an unmounted view can close another booking's view; a
  hydration that races a submission can set a final `confirmed` and never poll;
  a hydrated final view never calls `onSettled`.

### Bounds

Two threads are enough for the ledger: every transaction holds the write lock,
so a race is between one stale clock sample and one other transaction; the
windows overlap or only touch; TTL 1 and
clock 3 let a hold lapse before, during and after a call. In `Booking` two ids
are needed for the slot to be given to somebody else, and two confirms for one
call to overtake another; `MaxQueue` bounds only what a sweep, which repeats for
ever, may add to the socket. `JobSettlement` needs two legs and one stranger;
`Dispute` exactly three nodes; a second tiebreak is beyond it, and the theorems
have it. `Billing` needs one reservation, since
transactions of two reservations meet only in the accounts; TLC's integers are
32 bits wide, so prices are kept small enough for the products in `QuoteFair`,
and the theorems have no such bound. `Payments` needs two orders for a
reservation to be paid twice, two handlers for verify to race the webhook, two
sweeps to overlap, and two attempts for one to fail before the last; `MaxBusy`
bounds orders begun plus sweeps running, so three allows each pair of these with
a third. In `Presence` two sockets are one reconnection, to the same instance or
another; `ClusterPresence` has three, so that a node can come back, and no
missed heartbeat is forgiven there, since heartbeats have no clock anyway.
`Marketplace` has one machine that two accounts may want and a clock before and
after the wish; its one buyer browses, searches and books in any order, so a list may
be put together while the machine is booked over and over. Ranking is checked over
all pools of twelve candidates with reliabilities of 0, 67 and 100 percent, in the
initial states only, as it depends on no variable. `BuyerApp`
has two views, the one left and the one looked at, and two calls to confirm at once
(`MaxConfirms`), which is a Checkout that failed beside the next; two pairs at once would need
four reservations and are beyond it. Symmetry is used only in runs without
liveness properties.

`Billing`, `Payments`, `Presence`, `ClusterPresence`, `Marketplace` and
`BuyerApp` turn deadlock checking off: a reservation that is over, a socket
bound that is used up, or a clock at its end leaves nothing to do.

Every module has one `TypeOK`. The runs of `NodeLedger` check it, and all of them
are proved; any cfg can be given it. In `Payments` it carries a fact of its own:
no more is ever returned for an order than its price.

### Fairness

`Booking`: handlers run once the event loop gets to them and every awaited reply
has a timer (weak fairness of handler steps); the sweeps are on `setInterval`;
messages on a live socket arrive; a dead socket is noticed (`sweepStale`); a
worker is started again and opens each session with a heartbeat (strong fairness
of `NodeHeartbeat`, since the link may keep dying). Nothing is assumed about
users, crashes or losses. `SlotRecovers` alone adds that the link is back for
good and replies beat their timers. `JobSettlement`: only that handlers under
way run on; nobody need submit, answer or report. `Payments`: handlers and the
refund sweep run, and the gateway repeats a webhook until it is answered; nobody
need pay, and `EveryPaymentEnds` is claimed only if crashes end some day.
`Connections`: `sweepStale` and the auth timer run, a close that was begun is
noticed, a worker that lost its socket finds out; that it reconnects is not
assumed.

## 4. What is proved

`NodeLedgerProofs` (for all ids, threads, windows, TTLs and clock bounds; assumption
`LedgerAssumption`: windows are pairs of naturals, the TTL is a natural and
`None` is no id): type correctness, `NoDoubleBooking`, `ReceiptHonoured`,
`PromisesDisjoint`, `OnlyLapsedOrYielded`, and that `NodeLedger` implements
`SlotLock`. None of these is inductive. `ReceiptHonoured` depends on calls in
progress, which may carry an old clock sample: `IInv` adds that a sample is never
in the future (`CallsSane`), that a row has its window and a held row its expiry
(`RowsWhole`) and that a receipt in force still has its row
(`ReceiptsKept`); a stale sample then can only expire *fewer* rows, never a
promised one. The refinement follows from the same invariant: a transaction that
expires rows and grants one is a single `Grant`.

`BillingProofs` (for all prices, windows, compute times, reservations and
handlers; assumption `BillingAssumption`: prices are positive, amounts of time
natural, `None` is no status): `QuoteFair`, `EveryPaisaAccounted`,
`FinalRowMatchesLedger`, `OnlyOnePaisaRefused` and type correctness. Lemmas
settle the arithmetic first: `QuoteIsFair`, `MeteredIsFair`, `SplitIsExact`,
`SettlementBalances`. What a settlement may do depends on what the ledger holds,
so the invariant says that the five accounts of a reservation are a function of
its quote, of whether it was captured and of what it was settled for
(`CaptureShown`, `EscrowShown`, `NothingShared`, `ChargeShared`), that the quote
is fixed before any handler may read it (`Booked`, `NotYetBooked`,
`CallsBooked`), and that a final row was settled (`FinalIsSettled`). Steps are
sorted by what they do: start, continue or end a handler without moving money
(`StartStep`, `ContinueStep`, `EndStep`, all through `QuietStep`), capture,
settle, or be refused.

`PresenceProofs` (for all instances, sockets and miss limits; assumption
`ConnectionsAssumption`: the bounds are natural and `None` is neither an instance
nor a number): type correctness, `NewestIsHeld`, `StatusTellsPresence`,
`RetiredStays`. `NewestIsHeld` is nearly inductive; it needs that a socket that
was ever opened belongs to an instance (`AtHome`), so that a welcome really
takes a place in `nodes`. `StatusTellsPresence` speaks only of moments when no
write is under way; `StatusFollows` says what holds in between: unless something
went wrong, the *last* write under way says whether a hub has the node. Steps
of the wire that tell nobody leave `nodes` alone (`QuietNodes`), a presence event
appends the new truth (`Announced`), and a write done in order leaves the last
one the last (`Written`, with `WithoutFirst` for the sequence).

The same module has `ClusterPresence` (`ClusterSpec`), over the same wire and from
the same lemmas about it: type correctness and `OwnerIsCurrent`. That speaks of the moment when
every broadcast is in, so the invariant says what the broadcasts still on their
way amount to, unless one was lost or overtaken or an instance died: the last
one an instance has sent tells whether it has the node (`LastWordHolds`); the
instance that has the newest socket is believed, has sent something, or still owes
an answer to the observer's question (`LatestReaches`); and an owner that has the
node no longer has said so, or another has said it has it (`OwnerHasOrHears`).
Channels may be of any length.

`BookingProofs` (for any reservations, confirm requests and queue lengths;
assumption `BookingAssumption`: the two callers that are no confirm request and
`None` are told apart from the rest): type correctness, `OnlyWaitingCallsWake`,
`HeldRowIsBacked`, `ChargedIsReservedUnlessOvertaken`,
`ReconciledIsFreeUnlessOvertaken`, and that `Booking` implements `SlotLock`. No
fairness is needed. What the two tables say of each other is settled by what is
on its way between them, so `IInv` states, of every request and reply in flight,
what it still says of the tables and of the caller it will wake: each call in
`pending` is known to a caller that waits (`CallsKnown`), a booking asks once and
the node has not heard of the id before (`AskedOnce`, `OneRequest`), a receipt in
flight has its hold while the TTL lasts (`ReceiptStands`), a confirm request is
about a held row and the sweep about one given up (`Apart`), COMMITTED is still
true when it is acted upon (`CommittedStands`), and what the sweep has asked about
has no commit behind it in the queue (`FreedStands`, `NothingBehind`). The last
needs the socket to be first in, first out, and nothing else of it. Steps are
sorted by their shape -- a call is sent, a message is taken, answered, delivered,
rows expire, holds lapse, the node grants -- and each shape has one lemma per
conjunct.

`JobSettlementProofs` (for any reservations, nodes, submissions, tiebreaks and
results; assumption `SettlementAssumption`: reservations and requests are finite
sets, submissions are no tiebreaks, and `None` is no row and no outcome): type
correctness, `SettlementJustified`, `FaultFairlyAttributed` and
`ReputationMatchesLedger`. What a handler settles rests on what it read some
awaits ago, so the invariant says which of that can no longer change. A finished
job keeps its status and hash, because its result came over the wire once
(`JobsWhole`, `ResultsOver`). A group that holds anything but its first leg holds
both legs for good: only a first leg that is alone can be stripped, and a
tiebreak joins only a pair that is settled (`GroupShape`, `ContestedWhole`).
Therefore a reservation's justification, in the stronger form `Justified`,
survives every step, and `HandlerWhole` has it for each entry of each handler's
list, unless the entry's reservation is settled and the idempotency key will
refuse it. For blame, the disputed pair of a group must still be that pair when a
tiebreak is accepted and when it is resolved: `PairStays`, `ThirdNode`,
`PairHeldBy`, and `DisputeWaits` for the row that is about to be marked running;
these four need `Single`. The counters are a proof on top of that: of all steps
only `SettleTxn` and `Attribute` touch ledger, resolutions or counters
(`OthersIdle`), and each adds one element to one of three finite sets of one node
(`SettlementCounts`, `AttributeCounts`).

`PaymentsProofs` (for any number of orders, handlers, sweeps and attempts;
assumption `PaymentsAssumption`: at least one attempt, handlers and sweeps are
numbered, `None` is no order and no status): type correctness,
`DeliveredIsPaidUnlessShared`, `DebtTracked` and `RefundedOnce`. The invariant
follows each payment through the hands it is in: which order each handler and
sweep has (`Slots`), that an order that is not shared is in one handler's hands
(`OneHandler`), what the payments row already says at each program counter
(`EarlyRow`, `PayRow`), that nothing went back for an order of which nothing is
owed (`UnowedIsUntouched`), that a settlement owes a part once
(`OneSettlement`, `PartOwedOnce`), and that the order the ledger names was paid
(`LedgerIsPaid`). `DebtTracked` is one of its conjuncts, the other two follow.

`MarketplaceProofs` (for any number of machines, providers, buyers and
reservations, any windows, prices and searches; assumptions
`SchedulerAssumption` and `MarketplaceAssumption`: times and prices are natural,
windows and wishes end after they begin, `Unit` is a multiple of every clamped
reliability -- which only chooses the denominator, there is one for any finite set of
fractions --, reservations and candidates are finite sets, `None` is no row and no
search): type correctness,
`RetiredIsIdle`, `OffersStand`, `CatalogueWithinSearch`, `BetterRanksHigher` and
the action property `OwnerStays`. Retirement rests on what a retirement that has
looked still knows (`RetiringIsIdle`). Offers rest on what a search has read
(`Shown`): windows, which are only ever added, and reservations, which keep their
slot and never block again once they are over.

What is offered is a matter of `subtractBusy`. `FreeIsFree` says that a free piece
lies in the window and meets no booking, `FreeIsAll` that every stretch of the
window that meets none lies within one piece, for any finite set of bookings,
nested or not. Both are inductions over the bookings the cursor has passed, and
the induction theorems of the library take an operator the provers cannot be
given; so they are made with sets. Of the sets of bookings that would refute the
statement there is a smallest, if there are any (`SmallestSet`, from the
well-foundedness of strict inclusion); its latest booking, put aside, leaves a set
for which the statement holds, and one round of the loop brings the contradiction
(`CutFinds`, `CutReaches`). That `Walk` is defined at all (`WalkUnfolds`) and that
a finite set of numbers has a least and a greatest element are shown the same way.
The catalogue is within search because the reservations a search for the rest of a
window reads are among those the catalogue read. For the score, normalising is
shown to keep the order of a pool (`NormalizeKeepsOrder`), and `NoWorseNoLower`
holds for any pool and any number of hours.

`BuyerAppProofs` (for any number of users, reservations, views and calls; assumption
`BuyerAppAssumption`: ids and the bounds are natural, `None` is none of
the values it stands beside): type correctness, `OwnBookingsShown`, `NeverAhead`,
`ButtonWaitsForItsCall`, `PaidIsShown` and `JobIsWatched`. A call outlives the view and the
session that made it, so the invariant says what each call that is out still says
of them. A booking on its way is about a row of its own, and the first leg of a
pair is known to nobody before the second is booked (`AskedSound`); a reservation
belongs to one booking and one leg of it (`BookingsApart`); what is on screen is
what `App` has, and `App` has what its session asked for (`Rendered`, `OwnHeld`);
checkouts and submissions are those of the view on screen or of one that was left
(`ConfirmsSound`, `SubmitsSound`). Of the server it says that a job is of a
reservation that was paid for, and that a submission serves a booking once
(`JobsPaid`, `ServedOnce`). What a view shows may be older than the server's rows:
`ReadStands` and `JobReadStands` say which of what was read can no longer change,
and `PaidWillShow` is `PaidIsShown` for a leg whose payment has not reached the
view. `ButtonWaitsForItsCall` is a conjunct of its own: it holds because no button can
be pressed while it waits, so a view has at most one call that waits for each leg.
Each theorem keeps its property's provisos: `late`, `remounted` and `odd` are what the
page gets wrong.

Each invariant was checked by TLC, on the runs' instances and on smaller directed
ones (for `JobSettlement`, two racing tiebreaks of a disputed pair), before it
was proved.

Only model-checked: liveness, which is out of the prover's reach, like `ENABLED`
(`ConfirmsEnd`, `HoldsEnd`, `SlotRecovers`, `EveryResultSettles`,
`EveryPaymentEnds`, `SilentIsSwept`), and the run that must fail. Every other
property of a run is a theorem.

## 5. Abstractions, and what is left out

* `Booking` has one slot; overlap of different windows is `NodeLedger`'s subject.
  Both sides' clocks agree, as `reservation-protocol.md` assumes, and the TTL is
  fresh, lapsed, or over (`GRACE_MS` later). A sweep does not overlap itself.
* Receipts are taken to say what was asked, except for `hold_expires_at`; the
  canonical encoding and Ed25519 are covered by the interop fixtures.
* In `Booking`, `/confirm` has no live gateway; `Payments` has it, with the node
  cut down to one that acknowledges a commit once, and holds that may lapse.
* `JobSettlement` reads target and sibling of a verified submission in one step,
  merges a node's refusal with the resolution the hub makes of it, and leaves
  ownership, image and resource checks out.
* `Billing` lets a job's outcome be anything the machine allows and tells
  submissions apart only by the reservation they are for; who wins the race of
  results is `JobSettlement`'s subject. `compute_seconds` is a natural number,
  as both callers round it; a manual caller could send something else. A
  handler's account lookups are one step: a later lookup only sees more.
* `Payments` knows two amounts, all and part of the price; signatures are a
  fact about who was charged.
* `Connections` has no clock: timers and heartbeats come in any order. A node's
  signature is taken to be right. `ClusterPresence` follows one node and one
  observer that the node is not connected to; the relayed request and its reply
  are not modelled: at the owner they are a hub call like any other, and their
  timeout is one more way for a caller to give up, which `Booking` has.
* `Marketplace` leaves out hardware filters, the penalty of a long distance and
  the verification hint. `BuyerApp` leaves out the search form, ticks of one
  interval that overlap each other, and the dispute view.
* Not modelled: accounts, sessions, password reset and the rate limiter
  (stateless hashing, mail and single-statement writes no other component
  depends on); the job executor (one docker command, whose result words are
  the input of `JobSettlement`); peer-to-peer introductions (nothing uses the
  connection yet); the provider's dashboard, the dispute view and the reset page
  (forms over calls that `Marketplace` and `JobSettlement` have);
  observability; and `scripts/scheduler_simulation.js`, which is not part of the
  running system. The gateway, Redis, Docker, mail and the HTTP framework are
  external. `PROJECT.json` has the reason for each part.

## 6. Plan

Built: all the modules of section 2, with proofs of every safety property the runs
check. Left:

1. The relayed call of `clusterRelay.js` as a refinement of the hub's call.
2. The hazards no property covers, which `PROJECT.json` lists with the reason:
   a `JOB_RESULT` that is lost with its socket, a payment captured for a slot that is
   not delivered, a second order that is paid, a settlement of one paisa, a worker
   that hangs after a clean close, a relayed call that outlives its caller, and two
   uses of one password-reset token. For most, a property can only be refuted until
   the code changes.
