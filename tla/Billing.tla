------------------------------ MODULE Billing ------------------------------
(***************************************************************************)
(* The money of a reservation: what it is quoted, the capture and settle   *)
(* transactions of api/server.js and the double-entry ledger they write    *)
(* to, under the constraints of migrations/001_init.sql.                   *)
(*                                                                         *)
(* Handlers are cut where another handler can come between: they read the  *)
(* reservation, then look for the ledger accounts they need and make those *)
(* that are missing, then commit.  A transaction's new accounts and rows   *)
(* are seen by others when it commits; a unique key somebody else          *)
(* committed meanwhile (PostgreSQL makes the second insert wait for that)  *)
(* rolls it back with error 23505.                                         *)
(***************************************************************************)
EXTENDS Money

CONSTANTS Resv, Calls,
          UserOf, ProviderOf,   \* whose escrow pays, and who is paid
          Prices,               \* prices in paise per hour
          Slots,                \* lengths of booked windows in ms
          Seconds,              \* compute_seconds a job may report
          Manual,               \* ALLOW_MANUAL_SETTLEMENT
          None

VARIABLES
    row,        \* reservations.status
    slot,       \* length of reservations.slot
    price,      \* reservations.price_paise_hr
    quoted,     \* reservations.quoted_paise
    hasJob,     \* reservations with a row in jobs
    accounts,   \* ledger_accounts
    ledger,     \* ledger_entries of each reservation's transactions, by account
    captured,   \* reservations with a 'capture-<id>' transaction
    settled,    \* what the 'settle-<id>' transaction of each was for
    call,       \* progress of each confirm, job and settle handler
    overridden, \* history: ids settled by hand before any capture
    refused     \* history: settlements a CHECK constraint turned down

booking == <<slot, price, quoted>>
money == <<accounts, ledger, captured, settled>>
history == <<overridden, refused>>
vars == <<row, booking, hasJob, money, call, history>>

(* machine.js: EDGES out of the states a handler can find, and SETTLEMENT. *)
Edges == [held |-> {"confirmed", "expired", "cancelled"},
          confirmed |-> {"running", "cancelled", "failed_provider"},
          running |-> {"completed", "failed_provider", "failed_user", "disputed"}]
CanTransition(from, to) == from \in DOMAIN Edges /\ to \in Edges[from]
JobOutcomes == {"completed", "failed_provider", "failed_user", "disputed"}
Outcomes == JobOutcomes \cup {"expired", "cancelled"}
RowStatus == {"held", "confirmed", "running"} \cup Outcomes
Settlement == [outcome : Outcomes, secs : Seconds \cup {0}]

ASSUME BillingAssumption ==
    /\ Prices \subseteq Nat \ {0} /\ Slots \subseteq Nat /\ Seconds \subseteq Nat
    /\ Manual \in BOOLEAN
    /\ None \notin Resv \cup RowStatus \cup Settlement

(* settleReservation: what is charged for a quote q at a price p.          *)
Charge(q, p, outcome, secs) ==
    IF outcome = "completed" THEN q
    ELSE IF outcome = "failed_user" THEN MeteredCharge(q, p, secs)
    ELSE 0

Kinds == {"gateway_clearing", "user_escrow", "provider_balance",
          "platform_revenue", "refunds"}
Owner(kind, r) == CASE kind = "user_escrow" -> UserOf[r]
                    [] kind = "provider_balance" -> ProviderOf[r]
                    [] OTHER -> None
Account(kind, r) == <<kind, Owner(kind, r)>>

(* The accounts each transaction looks up, and makes if it must.           *)
CaptureNeeds(r) == {Account(k, r) : k \in Kinds \ {"provider_balance"}}
SettleNeeds(r) == {Account(k, r) : k \in Kinds \ {"gateway_clearing"}}

Idle == [op |-> "idle", resv |-> None, outcome |-> None, secs |-> 0, make |-> {}]

Init ==
    /\ row = [r \in Resv |-> None]
    /\ slot = [r \in Resv |-> 0] /\ price = [r \in Resv |-> 0]
    /\ quoted = [r \in Resv |-> 0]
    /\ hasJob = {}
    /\ accounts = {}
    /\ ledger = [r \in Resv |-> [k \in Kinds |-> 0]]
    /\ captured = {}
    /\ settled = [r \in Resv |-> None]
    /\ call = [c \in Calls |-> Idle]
    /\ overridden = {} /\ refused = {}
-----------------------------------------------------------------------------
(* POST /reservations: the price is frozen and the quote must be positive. *)
Book(r, p, ms) ==
    /\ row[r] = None
    /\ QuoteSeconds(ms) > 0
    /\ row' = [row EXCEPT ![r] = "held"]
    /\ slot' = [slot EXCEPT ![r] = ms]
    /\ price' = [price EXCEPT ![r] = p]
    /\ quoted' = [quoted EXCEPT ![r] = Quote(p, ms)]
    /\ UNCHANGED <<hasJob, money, call, history>>

ExpireStaleHolds(r) ==
    /\ row[r] = "held"
    /\ row' = [row EXCEPT ![r] = "expired"]
    /\ UNCHANGED <<booking, hasJob, money, call, history>>

Begin(c, op, r, outcome, secs) ==
    /\ call[c].op = "idle"
    /\ call' = [call EXCEPT ![c] = [op |-> op, resv |-> r, outcome |-> outcome,
                                    secs |-> secs, make |-> {}]]
Continue(c, op, make) ==
    call' = [call EXCEPT ![c] = [op |-> op, resv |-> call[c].resv,
                                 outcome |-> call[c].outcome, secs |-> call[c].secs,
                                 make |-> make]]
Return(c) == call' = [call EXCEPT ![c] = Idle]

(* POST /reservations/:id/confirm, then RESERVE_COMMIT to the node.        *)
ConfirmRead(c, r) ==
    /\ CanTransition(row[r], "confirmed")
    /\ Begin(c, "confirm", r, None, 0)
    /\ UNCHANGED <<row, booking, hasJob, money, history>>

(* The node cannot be reached: expired, whatever the row says by now.      *)
ConfirmGiveUp(c) ==
    /\ call[c].op = "confirm"
    /\ row' = [row EXCEPT ![call[c].resv] = "expired"]
    /\ Return(c)
    /\ UNCHANGED <<booking, hasJob, money, history>>

(* COMMITTED: BEGIN and the account lookups (ensureAccounts).              *)
CaptureBegin(c) ==
    /\ call[c].op = "confirm"
    /\ Continue(c, "capture", CaptureNeeds(call[c].resv) \ accounts)
    /\ UNCHANGED <<row, booking, hasJob, money, history>>

(* Error 23505 is answered 'already_captured' or 'already_settled'.        *)
Clash(c) ==
    /\ Return(c)
    /\ UNCHANGED <<row, booking, hasJob, money, overridden, refused>>

CaptureEntries(q) ==
    [gateway_clearing |-> - q, user_escrow |-> q,
     provider_balance |-> 0, platform_revenue |-> 0, refunds |-> 0]
Posted(balance, entries) == [k \in Kinds |-> balance[k] + entries[k]]

CaptureEnd(c) ==
    LET r == call[c].resv IN
    /\ call[c].op = "capture"
    /\ r \notin captured /\ call[c].make \cap accounts = {}
    /\ captured' = captured \cup {r}
    /\ accounts' = accounts \cup call[c].make
    /\ ledger' = [ledger EXCEPT ![r] = Posted(@, CaptureEntries(quoted[r]))]
    /\ row' = [row EXCEPT ![r] = "confirmed"]
    /\ Return(c)
    /\ UNCHANGED <<booking, hasJob, settled, history>>

CaptureClash(c) ==
    /\ call[c].op = "capture"
    /\ call[c].resv \in captured \/ call[c].make \cap accounts # {}
    /\ Clash(c)
-----------------------------------------------------------------------------
(* POST /reservations/:id/jobs, once the node has taken the job.           *)
SubmitRead(c, r) ==
    /\ row[r] = "confirmed"
    /\ Begin(c, "submit", r, None, 0)
    /\ UNCHANGED <<row, booking, hasJob, money, history>>

InsertJob(c) ==
    /\ call[c].op = "submit"
    /\ hasJob' = hasJob \cup {call[c].resv}
    /\ Continue(c, "mark", {})
    /\ UNCHANGED <<row, booking, money, history>>

MarkRunning(c) ==
    /\ call[c].op = "mark"
    /\ row' = [row EXCEPT ![call[c].resv] = "running"]
    /\ Return(c)
    /\ UNCHANGED <<booking, hasJob, money, history>>
-----------------------------------------------------------------------------
(* settleReservation for a JOB_RESULT, or for POST /complete, which takes  *)
(* any outcome for any reservation where it is enabled.                    *)
SettleRead(c, r, outcome, secs) ==
    /\ (r \in hasJob /\ outcome \in JobOutcomes) \/ Manual
    /\ CanTransition(row[r], outcome)
    /\ Begin(c, "check", r, outcome, secs)
    /\ UNCHANGED <<row, booking, hasJob, money, history>>

SettleBegin(c) ==
    /\ call[c].op = "check"
    /\ Continue(c, "settle", SettleNeeds(call[c].resv) \ accounts)
    /\ UNCHANGED <<row, booking, hasJob, money, history>>

(* The entries of a settlement of a quote q.  A charge of 0 is not split,  *)
(* and its shares, like a refund of 0, are not written.                    *)
SettleEntries(q, charge) ==
    [gateway_clearing |-> 0,
     user_escrow |-> - q,
     provider_balance |-> Split(charge).provider,
     platform_revenue |-> Split(charge).platform,
     refunds |-> q - charge]

Total(entries) == entries["gateway_clearing"] + entries["user_escrow"]
                  + entries["provider_balance"] + entries["platform_revenue"]
                  + entries["refunds"]

(* CHECK (amount_paise <> 0), and the ledger_balanced trigger.             *)
Acceptable(q, charge) ==
    /\ q # 0
    /\ charge > 0 => Split(charge).provider # 0 /\ Split(charge).platform # 0
    /\ Total(SettleEntries(q, charge)) = 0

KeyFreeNever(r) == TRUE         \* mutant: no idempotency key
KeyFree(r) == settled[r] = None

SettleEnd(c) ==
    LET r == call[c].resv
        charge == Charge(quoted[r], price[r], call[c].outcome, call[c].secs)
    IN
    /\ call[c].op = "settle"
    /\ KeyFree(r) /\ call[c].make \cap accounts = {}
    /\ Acceptable(quoted[r], charge)
    /\ settled' = [settled EXCEPT ![r] = [outcome |-> call[c].outcome,
                                          secs |-> call[c].secs]]
    /\ accounts' = accounts \cup call[c].make
    /\ ledger' = [ledger EXCEPT ![r] = Posted(@, SettleEntries(quoted[r], charge))]
    /\ row' = [row EXCEPT ![r] = call[c].outcome]
    /\ overridden' = IF r \in captured THEN overridden ELSE overridden \cup {r}
    /\ Return(c)
    /\ UNCHANGED <<booking, hasJob, captured, refused>>

SettleClash(c) ==
    /\ call[c].op = "settle"
    /\ ~KeyFree(call[c].resv) \/ call[c].make \cap accounts # {}
    /\ Clash(c)

SettleRefused(c) ==
    LET r == call[c].resv
        charge == Charge(quoted[r], price[r], call[c].outcome, call[c].secs)
    IN
    /\ call[c].op = "settle"
    /\ KeyFree(r) /\ call[c].make \cap accounts = {}
    /\ ~Acceptable(quoted[r], charge)
    /\ refused' = refused \cup {[resv |-> r, charge |-> charge]}
    /\ Return(c)
    /\ UNCHANGED <<row, booking, hasJob, money, overridden>>

(* The process dies, or the handler throws: its open transaction is gone.  *)
Abort(c) ==
    /\ call[c].op # "idle"
    /\ Return(c)
    /\ UNCHANGED <<row, booking, hasJob, money, history>>

Confirming(c) == \/ ConfirmGiveUp(c) \/ CaptureBegin(c) \/ CaptureEnd(c)
                 \/ CaptureClash(c) \/ \E r \in Resv : ConfirmRead(c, r)
Submitting(c) == InsertJob(c) \/ MarkRunning(c) \/ \E r \in Resv : SubmitRead(c, r)
Settling(c) == \/ SettleBegin(c) \/ SettleEnd(c) \/ SettleClash(c) \/ SettleRefused(c)
               \/ \E r \in Resv, outcome \in Outcomes, secs \in Seconds :
                      SettleRead(c, r, outcome, secs)

Next == \/ \E r \in Resv : \/ ExpireStaleHolds(r)
                           \/ \E p \in Prices, ms \in Slots : Book(r, p, ms)
        \/ \E c \in Calls : Confirming(c) \/ Submitting(c) \/ Settling(c) \/ Abort(c)

Spec == Init /\ [][Next]_vars
-----------------------------------------------------------------------------
AllAccounts == {Account(k, r) : k \in Kinds, r \in Resv}
CallRec == [op : {"idle", "confirm", "capture", "submit", "mark", "check", "settle"},
            resv : Resv \cup {None}, outcome : Outcomes \cup {None},
            secs : Seconds \cup {0}, make : SUBSET AllAccounts]

(* Type invariant; a handler holds a reservation exactly while it runs.    *)
TypeOK ==
    /\ row \in [Resv -> RowStatus \cup {None}]
    /\ slot \in [Resv -> Nat] /\ price \in [Resv -> Nat] /\ quoted \in [Resv -> Nat]
    /\ hasJob \subseteq Resv /\ captured \subseteq Resv
    /\ accounts \subseteq AllAccounts
    /\ ledger \in [Resv -> [Kinds -> Int]]
    /\ settled \in [Resv -> Settlement \cup {None}]
    /\ call \in [Calls -> CallRec]
    /\ \A c \in Calls : call[c].op = "idle" <=> call[c].resv = None

(* The quote covers every minute of the window that was begun: the user is *)
(* never undercharged for more than the half second Math.round drops, nor  *)
(* overcharged for more than a minute and a paisa.                         *)
Fair(quote, p, ms) == /\ 3600000 * quote >= p * (ms - 500)
                      /\ 3600000 * (quote - 1) < p * (ms + 60500)
QuoteFair == \A r \in Resv : row[r] # None => Fair(quoted[r], price[r], slot[r])

(* Every paisa is in one account: a reservation's entries balance, what was*)
(* captured sits in escrow until it is settled and is then shared out in   *)
(* full, and nothing is shared out that was not captured, but for a        *)
(* settlement forced by hand.  Two settle handlers, or a row set back to   *)
(* running, must not pay twice.                                            *)
EveryPaisaAccounted ==
    \A r \in Resv :
        LET e == ledger[r] IN
        /\ Total(e) = 0
        /\ e["user_escrow"] = (IF r \in captured THEN quoted[r] ELSE 0)
                              - (IF settled[r] # None THEN quoted[r] ELSE 0)
        /\ e["user_escrow"] < 0 => r \in overridden
        /\ e["provider_balance"] >= 0 /\ e["platform_revenue"] >= 0 /\ e["refunds"] >= 0

(* What the row says of a finished reservation is what the ledger did: the *)
(* charge is shared nine to one, the rest refunded, and a job that failed  *)
(* by the user's fault is billed for what it ran and never more than the   *)
(* quote.                                                                  *)
FinalRowMatchesLedger ==
    \A r \in Resv : row[r] \in JobOutcomes =>
        LET e == ledger[r]
            charge == e["provider_balance"] + e["platform_revenue"]
        IN
        /\ settled[r] # None /\ settled[r].outcome = row[r]
        /\ e["refunds"] = quoted[r] - charge
        /\ 10 * e["platform_revenue"] \in charge..(charge + 9)
        /\ row[r] = "completed" => charge = quoted[r]
        /\ row[r] = "failed_user" =>
               /\ charge <= quoted[r]
               /\ charge = quoted[r] \/ 3600 * charge >= price[r] * settled[r].secs
        /\ row[r] \in {"failed_provider", "disputed"} => charge = 0

(* The database turns a settlement down in one case only: a charge of one  *)
(* paisa, whose provider share is zero.  (It then never settles.)          *)
OnlyOnePaisaRefused == \A x \in refused : x.charge = 1
=============================================================================
