------------------------------ MODULE Payments ------------------------------
(***************************************************************************)
(* Money that moves through the live gateway for one reservation: the      *)
(* two-phase confirm, /confirm/verify and the webhook (api/server.js), the *)
(* refund a settlement owes, and the durable retry queue with its sweep    *)
(* (payments/refunds.js).  The gateway, the payer and the provider's node  *)
(* are the environment: the node acknowledges a commit once, a refund may  *)
(* fail, or succeed and its answer be lost.                                *)
(*                                                                         *)
(* SELECT ... FOR UPDATE outside BEGIN locks nothing, so every handler is  *)
(* cut at each await.  The three histories name the ways in which the code *)
(* loses track of a payment; the README discusses each.                    *)
(***************************************************************************)
EXTENDS Naturals, FiniteSets

CONSTANTS Orders,       \* gateway orders created for the reservation
          Handlers,     \* slots 1..n for concurrent HTTP handlers
          Sweeps,       \* slots 1..n for runs of processRefundRetries
          None,
          MaxAttempts,  \* MAX_ATTEMPTS
          MaxBusy       \* bound on orders begun plus sweeps running

Price == 2              \* quoted_paise, so that 1 is a partial refund

ASSUME PaymentsAssumption ==
    /\ MaxAttempts \in Nat \ {0} /\ MaxBusy \in Nat
    /\ None \notin Orders \cup {"created", "captured", "failed", "refunded",
                               "pending", "succeeded", "exhausted"}
    /\ Handlers \cup Sweeps \subseteq Nat

VARIABLES
    row,        \* reservations.status
    ledger,     \* the order whose handler posted the 'capture' transaction
    pay,        \* payments.status of each order
    retry,      \* refund_retries row of each payment
    paid,       \* orders the gateway has charged the user for
    returned,   \* what the gateway has given back
    acked,      \* a handler was woken by the node's COMMITTED
    h,          \* progress of the handlers
    sweep,      \* progress of the sweeps
    owed,       \* history: the refund first asked for
    shared,     \* history: orders two handlers worked on at once
    stranded,   \* history: orders the code has dropped
    blurred     \* history: a refund the database does not know of, or that
                \* two sweeps have in hand

db == <<row, ledger, pay, retry>>
gateway == <<paid, returned>>
history == <<owed, shared, stranded, blurred>>
vars == <<db, gateway, acked, h, sweep, history>>

NoRetry == [status |-> None, attempts |-> 0, amount |-> 0]
Free == [pc |-> "idle", order |-> None, amount |-> 0]
Resting == [pc |-> "idle", order |-> None, attempts |-> 0]

Init ==
    /\ row = "held" /\ ledger = None
    /\ pay = [o \in Orders |-> None]
    /\ retry = [o \in Orders |-> NoRetry]
    /\ paid = {} /\ returned = [o \in Orders |-> 0]
    /\ acked = FALSE
    /\ h = [i \in Handlers |-> Free]
    /\ sweep = [s \in Sweeps |-> Resting]
    /\ owed = [o \in Orders |-> 0]
    /\ shared = {} /\ stranded = {} /\ blurred = {}

At(i, pc) == h[i].pc = pc
(* A request takes the lowest free slot; which one it is says nothing.     *)
Starts(i) == At(i, "idle") /\ \A j \in Handlers : j < i => ~At(j, "idle")
Running == {s \in Sweeps : sweep[s].pc # "idle"}
Begun == {o \in Orders : pay[o] # None \/ \E i \in Handlers : h[i].order = o}
MayBegin == Cardinality(Begun) + Cardinality(Running) < MaxBusy
Go(i, pc) == h' = [h EXCEPT ![i] = [pc |-> pc, order |-> h[i].order, amount |-> h[i].amount]]
Finish(i) == h' = [h EXCEPT ![i] = Free]
-----------------------------------------------------------------------------
(* POST /confirm: the row is looked at, an order created at the gateway,   *)
(* and its payments row inserted whatever became of the reservation.       *)
ConfirmRead(i, o) ==
    /\ Starts(i) /\ row = "held"
    /\ o \notin Begun /\ MayBegin
    /\ h' = [h EXCEPT ![i] = [pc |-> "order", order |-> o, amount |-> 0]]
    /\ UNCHANGED <<db, gateway, acked, sweep, history>>

ConfirmInsert(i) ==
    /\ At(i, "order")
    /\ pay' = [pay EXCEPT ![h[i].order] = "created"]
    /\ Finish(i)
    /\ UNCHANGED <<row, ledger, retry, gateway, acked, sweep, history>>

(* Checkout: the user pays an order, in time or not.                       *)
UserPays(o) ==
    /\ pay[o] # None /\ o \notin paid
    /\ paid' = paid \cup {o}
    /\ UNCHANGED <<db, returned, acked, h, sweep, history>>

Share(o) == shared' = IF \E j \in Handlers : h[j].order = o THEN shared \cup {o}
                                                            ELSE shared

(* A handler reads the payments row of o as 'created'.                     *)
Take(i, o, pc) ==
    /\ Starts(i) /\ pay[o] = "created"
    /\ h' = [h EXCEPT ![i] = [pc |-> pc, order |-> o, amount |-> 0]]
    /\ Share(o)
    /\ UNCHANGED <<db, gateway, acked, sweep, owed, stranded, blurred>>

VerifyRead(i, o) == row = "held" /\ Take(i, o, "verify")

(* The gateway notifies of what was paid, as often as it likes.            *)
WebhookRead(i, o) == o \in paid /\ Take(i, o, "webhook")

SignedByAnyone(o) == TRUE        \* mutant: the browser's word is enough
SignedByGateway(o) == o \in paid \* verifyPaymentSignature

(* An invalid signature fails the payment, whatever it says now.           *)
VerifyReject(i) ==
    /\ At(i, "verify")
    /\ pay' = [pay EXCEPT ![h[i].order] = "failed"]
    /\ stranded' = stranded \cup {h[i].order}
    /\ Finish(i)
    /\ UNCHANGED <<row, ledger, retry, gateway, acked, sweep, owed,
                   shared, blurred>>

(* Both mark the payment captured before anything is delivered.            *)
Mark(i) ==
    /\ (At(i, "verify") /\ SignedByGateway(h[i].order)) \/ At(i, "webhook")
    /\ pay' = [pay EXCEPT ![h[i].order] = "captured"]
    /\ Go(i, IF At(i, "verify") THEN "commit" ELSE "look")
    /\ UNCHANGED <<row, ledger, retry, gateway, acked, sweep, history>>

(* The webhook looks at the reservation only now, and drops the payment if *)
(* it is no longer held.                                                   *)
WebhookLook(i) ==
    /\ At(i, "look")
    /\ IF row = "held" THEN Go(i, "commit") /\ UNCHANGED stranded
       ELSE Finish(i) /\ stranded' = stranded \cup {h[i].order}
    /\ UNCHANGED <<db, gateway, acked, sweep, owed, shared, blurred>>
-----------------------------------------------------------------------------
(* issueRefund is called.                                                  *)
OweNothing(i, o, amount) ==      \* mutant: no compensating refund
    /\ Finish(i)
    /\ UNCHANGED owed
Owe(i, o, amount) ==
    /\ h' = [h EXCEPT ![i] = [pc |-> "refund", order |-> o, amount |-> amount]]
    /\ owed' = [owed EXCEPT ![o] = IF @ = 0 THEN amount ELSE @]

(* commitNodeAndCapture.  The one COMMITTED of the node wakes one handler. *)
NodeCommits(i) ==
    /\ At(i, "commit") /\ ~acked
    /\ acked' = TRUE
    /\ Go(i, "capture")
    /\ UNCHANGED <<db, gateway, sweep, history>>

(* COMMIT_FAILED is thrown to the caller, which answers 500 or logs it.    *)
NodeRefuses(i) ==
    /\ At(i, "commit")
    /\ stranded' = stranded \cup {h[i].order}
    /\ Finish(i)
    /\ UNCHANGED <<db, gateway, acked, sweep, owed, shared, blurred>>

(* Offline or timed out: the row is expired and the payment refunded.      *)
NodeUnreachable(i) ==
    /\ At(i, "commit")
    /\ row' = "expired"
    /\ Owe(i, h[i].order, Price)
    /\ UNCHANGED <<ledger, pay, retry, gateway, acked, sweep, shared,
                   stranded, blurred>>

Capture(i) ==
    /\ At(i, "capture") /\ ledger = None
    /\ ledger' = h[i].order /\ row' = "confirmed"
    /\ Finish(i)
    /\ UNCHANGED <<pay, retry, gateway, acked, sweep, history>>

(* 23505 (also from two first captures that create an account, see         *)
(* Billing): 'already_captured', and a refund.                             *)
CaptureClash(i) ==
    /\ At(i, "capture")
    /\ Owe(i, h[i].order, Price)
    /\ UNCHANGED <<db, gateway, acked, sweep, shared, stranded, blurred>>

(* Another error, as of the exclusion constraint, is rethrown.             *)
CaptureThrows(i) ==
    /\ At(i, "capture")
    /\ stranded' = stranded \cup {h[i].order}
    /\ Finish(i)
    /\ UNCHANGED <<db, gateway, acked, sweep, owed, shared, blurred>>

(* settleReservation's transaction; then any one captured payment of the   *)
(* reservation is refunded what was not charged.                           *)
Settle(i, refund) ==
    /\ Starts(i) /\ row = "confirmed"
    /\ row' = "settled"
    /\ IF refund = 0 THEN UNCHANGED h
       ELSE h' = [h EXCEPT ![i] = [pc |-> "pick", order |-> None, amount |-> refund]]
    /\ UNCHANGED <<ledger, pay, retry, gateway, acked, sweep, history>>

SettlePick(i) ==
    LET captured == {o \in Orders : pay[o] = "captured"} IN
    /\ At(i, "pick")
    /\ IF captured = {} THEN Finish(i) /\ UNCHANGED <<owed, shared>>
       ELSE \E o \in captured : Owe(i, o, h[i].amount) /\ Share(o)
    /\ UNCHANGED <<db, gateway, acked, sweep, stranded, blurred>>
-----------------------------------------------------------------------------
(* gateway.refund.  The gateway never returns more than it was paid.       *)
GatewayReturns(o, amount) ==
    /\ returned[o] + amount <= Price
    /\ returned' = [returned EXCEPT ![o] = @ + amount]
    /\ UNCHANGED paid

Refund(i) ==
    /\ At(i, "refund")
    /\ \/ GatewayReturns(h[i].order, h[i].amount)
          /\ Go(i, "record") /\ UNCHANGED blurred
       \/ GatewayReturns(h[i].order, h[i].amount)        \* the answer is lost
          /\ Go(i, "queue") /\ blurred' = blurred \cup {h[i].order}
       \/ UNCHANGED <<gateway, blurred>> /\ Go(i, "queue")
    /\ UNCHANGED <<db, acked, sweep, owed, shared, stranded>>

Record(i) ==
    /\ At(i, "record")
    /\ pay' = [pay EXCEPT ![h[i].order] = "refunded"]
    /\ Finish(i)
    /\ UNCHANGED <<row, ledger, retry, gateway, acked, sweep, history>>

(* The UPDATE after a refund that went through is under the same catch.    *)
RecordFails(i) ==
    /\ At(i, "record")
    /\ blurred' = blurred \cup {h[i].order}
    /\ Go(i, "queue")
    /\ UNCHANGED <<db, gateway, acked, sweep, owed, shared, stranded>>

(* INSERT ... ON CONFLICT (payment_id): a row that is there already, even  *)
(* a finished one, is pending again; its amount stays.                     *)
Queue(i) ==
    LET o == h[i].order IN
    /\ At(i, "queue")
    /\ retry' = [retry EXCEPT ![o] =
          [status |-> "pending", attempts |-> retry[o].attempts + 1,
           amount |-> IF retry[o].status = None THEN h[i].amount ELSE retry[o].amount]]
    /\ Finish(i)
    /\ UNCHANGED <<row, ledger, pay, gateway, acked, sweep, history>>
-----------------------------------------------------------------------------
(* processRefundRetries, for one row whose next_attempt_at has passed; a   *)
(* run that reads several is as many slots that begin together.            *)
SweepRead(s, o) ==
    /\ s \notin Running /\ {t \in Sweeps : t < s} \subseteq Running
    /\ retry[o].status = "pending" /\ MayBegin
    /\ sweep' = [sweep EXCEPT ![s] =
          [pc |-> "refund", order |-> o, attempts |-> retry[o].attempts]]
    /\ blurred' = IF \/ \E t \in Sweeps : sweep[t].order = o
                     \/ \E i \in Handlers : h[i].order = o
                  THEN blurred \cup {o} ELSE blurred
    /\ UNCHANGED <<db, gateway, acked, h, owed, shared, stranded>>

SweepGo(s, pc) == sweep' = [sweep EXCEPT ![s] =
    [pc |-> pc, order |-> sweep[s].order, attempts |-> sweep[s].attempts]]
SweepNext(s) == sweep' = [sweep EXCEPT ![s] = Resting]

SweepRefund(s) ==
    LET o == sweep[s].order IN
    /\ sweep[s].pc = "refund"
    /\ \/ GatewayReturns(o, retry[o].amount) /\ SweepGo(s, "record")
          /\ UNCHANGED blurred
       \/ GatewayReturns(o, retry[o].amount) /\ SweepGo(s, "failed")
          /\ blurred' = blurred \cup {o}                 \* the answer is lost
       \/ SweepGo(s, "failed") /\ UNCHANGED <<gateway, blurred>>
    /\ UNCHANGED <<db, acked, h, owed, shared, stranded>>

Retried(o, status, attempts) == retry' = [retry EXCEPT ![o] =
    [status |-> status, attempts |-> attempts, amount |-> retry[o].amount]]

SweepRecordPaymentOnly(s) ==     \* mutant: the retry row is forgotten
    /\ sweep[s].pc = "record"
    /\ pay' = [pay EXCEPT ![sweep[s].order] = "refunded"]
    /\ SweepNext(s)
    /\ UNCHANGED <<row, ledger, retry, gateway, acked, h, history>>
SweepRecord(s) ==
    LET o == sweep[s].order IN
    /\ sweep[s].pc = "record"
    /\ pay' = [pay EXCEPT ![o] = "refunded"]
    /\ Retried(o, "succeeded", retry[o].attempts)
    /\ SweepNext(s)
    /\ UNCHANGED <<row, ledger, gateway, acked, h, history>>

(* BEGIN, the two UPDATEs and COMMIT are each sent to whichever connection *)
(* of the pool is free: when one fails, the first UPDATE may be kept.      *)
SweepRecordFails(s) ==
    LET o == sweep[s].order IN
    /\ sweep[s].pc = "record"
    /\ pay' \in {pay, [pay EXCEPT ![o] = "refunded"]}
    /\ SweepGo(s, "failed")
    /\ blurred' = blurred \cup {o}
    /\ UNCHANGED <<row, ledger, retry, gateway, acked, h, owed, shared,
                   stranded>>

SweepFailNoCount(s) ==           \* mutant: attempts is not counted up
    /\ sweep[s].pc = "failed"
    /\ SweepNext(s)
    /\ UNCHANGED <<db, gateway, acked, h, history>>
(* The attempts as read at the start, plus one, decide whether to give up. *)
SweepFail(s) ==
    LET o == sweep[s].order
        attempts == sweep[s].attempts + 1
    IN
    /\ sweep[s].pc = "failed"
    /\ Retried(o, IF attempts >= MaxAttempts THEN "exhausted" ELSE retry[o].status, attempts)
    /\ SweepNext(s)
    /\ UNCHANGED <<row, ledger, pay, gateway, acked, h, history>>
-----------------------------------------------------------------------------
(* expireStaleHolds.                                                       *)
HoldExpires ==
    /\ row = "held" /\ row' = "expired"
    /\ UNCHANGED <<ledger, pay, retry, gateway, acked, h, sweep, history>>

(* The platform dies: whatever a handler had marked and not finished is    *)
(* never taken up again, a refund being recorded is not known of.          *)
Crash ==
    /\ h' = [i \in Handlers |-> Free]
    /\ sweep' = [s \in Sweeps |-> Resting]
    /\ stranded' = stranded \cup {h[i].order : i \in
          {j \in Handlers : h[j].pc \notin {"idle", "order", "verify", "webhook", "pick"}}}
    /\ blurred' = blurred
          \cup {h[i].order : i \in {j \in Handlers : At(j, "record")}}
          \cup {sweep[s].order : s \in {t \in Sweeps : sweep[t].pc = "record"}}
    /\ UNCHANGED <<db, gateway, acked, owed, shared>>

Finishing(i) ==       \* what a handler does once it has begun
    \/ ConfirmInsert(i) \/ VerifyReject(i) \/ Mark(i) \/ WebhookLook(i)
    \/ NodeCommits(i) \/ NodeRefuses(i) \/ NodeUnreachable(i)
    \/ Capture(i) \/ CaptureClash(i) \/ CaptureThrows(i) \/ SettlePick(i)
    \/ Refund(i) \/ Record(i) \/ RecordFails(i) \/ Queue(i)
Sweeping(s) == \/ (\E o \in Orders : SweepRead(s, o)) \/ SweepRefund(s)
               \/ SweepRecord(s) \/ SweepRecordFails(s) \/ SweepFail(s)

Next ==
    \/ \E i \in Handlers :
          \/ \E o \in Orders : ConfirmRead(i, o) \/ VerifyRead(i, o) \/ WebhookRead(i, o)
          \/ \E refund \in 0..Price : Settle(i, refund)
          \/ Finishing(i)
    \/ \E s \in Sweeps : Sweeping(s)
    \/ \E o \in Orders : UserPays(o)
    \/ HoldExpires \/ Crash

(* Handlers and sweeps run, time passes, and the gateway goes on notifying *)
(* of a payment until it is answered.  Nobody has to pay or to settle.     *)
Fairness ==
    /\ \A i \in Handlers : WF_vars(Finishing(i))
    /\ \A s \in Sweeps : WF_vars(Sweeping(s))
    /\ \A o \in Orders : WF_vars(\E i \in Handlers : WebhookRead(i, o))

Spec == Init /\ [][Next]_vars /\ Fairness
-----------------------------------------------------------------------------
TypeOK ==
    /\ row \in {"held", "confirmed", "expired", "settled"}
    /\ ledger \in Orders \cup {None}
    /\ pay \in [Orders -> {None, "created", "captured", "failed", "refunded"}]
    /\ retry \in [Orders -> [status : {None, "pending", "succeeded", "exhausted"},
                             attempts : Nat,
                             amount : 0..Price]]
    /\ paid \subseteq Orders /\ returned \in [Orders -> 0..Price]
    /\ acked \in BOOLEAN
    /\ h \in [Handlers -> [pc : {"idle", "order", "verify", "webhook", "look",
                                 "commit", "capture", "pick", "refund", "record",
                                 "queue"},
                           order : Orders \cup {None}, amount : 0..Price]]
    /\ sweep \in [Sweeps -> [pc : {"idle", "refund", "record", "failed"},
                             order : Orders \cup {None},
                             attempts : Nat]]
    /\ owed \in [Orders -> 0..Price]
    /\ shared \cup stranded \cup blurred \subseteq Orders

(* A reservation is only ever delivered for money the gateway has kept,    *)
(* whichever of verify and webhook comes first, unless both were working   *)
(* on one order at once.                                                   *)
DeliveredIsPaidUnlessShared ==
    row = "confirmed" => \E o \in paid : returned[o] = 0 \/ o \in shared

(* Money taken for an order is always somebody's business: the webhook is  *)
(* still to come, a handler has it, it bought the reservation, it went     *)
(* back, or a row of the retry queue says so.                              *)
DebtTracked == \A o \in paid \ (stranded \cup shared) :
    \/ pay[o] \in {"created", "refunded"} \/ ledger = o
    \/ retry[o].status # None
    \/ \E i \in Handlers : h[i].order = o

(* 003_refund_retries.sql: a payment whose refund failed is "still one     *)
(* debt, not two".  No more goes back than was owed, however many attempts *)
(* it took, as long as every answer of the gateway got recorded.           *)
RefundedOnce == \A o \in Orders \ (blurred \cup shared) : returned[o] <= owed[o]

(* The queue gives every debt its attempts: a payment that is taken ends   *)
(* delivered, refunded, or exhausted for a person to look at, if crashes   *)
(* end some day.                                                           *)
EveryPaymentEnds == (<>[][~Crash]_vars) => \A o \in Orders :
    o \in paid ~> \/ ledger = o \/ pay[o] = "refunded"
                  \/ retry[o].status = "exhausted"
                  \/ o \in stranded

=============================================================================
