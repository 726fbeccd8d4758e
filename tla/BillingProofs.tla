--------------------------- MODULE BillingProofs ---------------------------
(***************************************************************************)
(* Theorems about Billing, for any prices, windows, reservations and       *)
(* handlers.                                                               *)
(*                                                                         *)
(* None of the properties is inductive: whether a settlement may pay       *)
(* depends on what is already in the ledger.  IInv says that the five      *)
(* accounts of a reservation are a function of three facts: whether it was *)
(* captured, what it was settled for, and its quote; and that the quote    *)
(* never changes once a handler may have read it.                          *)
(***************************************************************************)
EXTENDS Billing, TLAPS

(* The arithmetic of settle.js: a price is at least the exact amount, and  *)
(* less than one paisa above it.                                           *)
LEMMA PriceBounds ==
    ASSUME NEW minutes \in Nat, NEW p \in Nat
    PROVE  /\ PriceOf(minutes, p) \in Nat
           /\ 60 * PriceOf(minutes, p) >= p * minutes
           /\ 60 * PriceOf(minutes, p) < p * minutes + 60
<1>1. p * minutes \in Nat
  OBVIOUS
<1>2. \A n \in Nat : /\ (n + 60 - 1) \div 60 \in Nat
                     /\ 60 * ((n + 60 - 1) \div 60) >= n
                     /\ 60 * ((n + 60 - 1) \div 60) < n + 60
  OBVIOUS
<1> QED BY <1>1, <1>2 DEF PriceOf, CeilDiv

LEMMA MinutesBounds ==
    ASSUME NEW s \in Nat
    PROVE  /\ CeilDiv(s, 60) \in Nat
           /\ 60 * CeilDiv(s, 60) >= s
           /\ 60 * CeilDiv(s, 60) < s + 60
  BY DEF CeilDiv

LEMMA SecondsBounds ==
    ASSUME NEW ms \in Nat
    PROVE  /\ QuoteSeconds(ms) \in Nat
           /\ 1000 * QuoteSeconds(ms) >= ms - 500
           /\ 1000 * QuoteSeconds(ms) =< ms + 500
  BY DEF QuoteSeconds, RoundDiv

LEMMA ProductMonotone ==
    ASSUME NEW p \in Nat, NEW a \in Int, NEW b \in Int, a =< b
    PROVE  p * a =< p * b
<1>1. p * (b - a) \in Nat /\ b - a \in Nat
  OBVIOUS
<1>2. p * b = p * a + p * (b - a)
  OBVIOUS
<1> QED BY <1>1, <1>2

(* quote(): never more than half a second's price too low, nor as much as  *)
(* one minute, half a second and a paisa too high.                         *)
LEMMA QuoteIsFair ==
    ASSUME NEW p \in Nat, NEW ms \in Nat
    PROVE  Quote(p, ms) \in Nat /\ Fair(Quote(p, ms), p, ms)
<1> DEFINE s == QuoteSeconds(ms)
           m == CeilDiv(s, 60)
           q == PriceOf(m, p)
<1>1. s \in Nat /\ 1000 * s >= ms - 500 /\ 1000 * s =< ms + 500
  BY SecondsBounds
<1> HIDE DEF s
<1>2. m \in Nat /\ 60 * m >= s /\ 60 * m < s + 60
  BY <1>1, MinutesBounds
<1> HIDE DEF m
<1>3. q \in Nat /\ 60 * q >= p * m /\ 60 * q < p * m + 60
  BY <1>2, PriceBounds
<1>4. Quote(p, ms) = q
  BY DEF Quote, q, m, s
<1> HIDE DEF q
<1>5. ms - 500 =< 60000 * m /\ 60000 * m =< ms + 60500
  BY <1>1, <1>2
<1>6. p * (ms - 500) =< p * (60000 * m) /\ p * (60000 * m) =< p * (ms + 60500)
  BY <1>2, <1>5, ProductMonotone
<1>7. p * (60000 * m) = 60000 * (p * m) /\ p * m \in Nat
  BY <1>2
<1>8. p * (ms - 500) \in Int /\ p * (ms + 60500) \in Int
  OBVIOUS
<1>9. /\ 3600000 * q >= p * (ms - 500)
      /\ 3600000 * (q - 1) < p * (ms + 60500)
  BY <1>3, <1>6, <1>7, <1>8
<1> QED BY <1>3, <1>4, <1>9 DEF Fair

LEMMA QuoteIsPositive ==
    ASSUME NEW p \in Nat \ {0}, NEW ms \in Nat, QuoteSeconds(ms) > 0
    PROVE  Quote(p, ms) > 0
<1> DEFINE m == CeilDiv(QuoteSeconds(ms), 60)
<1>1. m \in Nat \ {0}
  BY SecondsBounds, MinutesBounds
<1> HIDE DEF m
<1>2. p * m > 0 /\ p * m \in Nat
  BY <1>1
<1>3. Quote(p, ms) = PriceOf(m, p)
  BY DEF Quote, m
<1>4. PriceOf(m, p) \in Nat /\ 60 * PriceOf(m, p) >= p * m
  BY <1>1, PriceBounds
<1> QED BY <1>2, <1>3, <1>4

(* meteredCharge(): capped by the quote, and never below what ran.         *)
LEMMA MeteredIsFair ==
    ASSUME NEW q \in Nat, NEW p \in Nat, NEW secs \in Nat
    PROVE  /\ MeteredCharge(q, p, secs) \in 0..q
           /\ \/ MeteredCharge(q, p, secs) = q
              \/ 3600 * MeteredCharge(q, p, secs) >= p * secs
<1> DEFINE m == AtLeast(MinimumMinutes, CeilDiv(secs, 60))
           x == PriceOf(m, p)
<1>1. m \in Nat /\ secs =< 60 * m
  BY MinutesBounds DEF AtLeast, MinimumMinutes
<1> HIDE DEF m
<1>2. x \in Nat /\ 60 * x >= p * m
  BY <1>1, PriceBounds
<1>3. MeteredCharge(q, p, secs) = AtMost(x, q)
  BY DEF MeteredCharge, m, x
<1> HIDE DEF x
<1>4. p * secs =< p * (60 * m)
  BY <1>1, ProductMonotone
<1>5. p * (60 * m) = 60 * (p * m) /\ p * m \in Nat /\ p * secs \in Nat
  BY <1>1
<1>6. 3600 * x >= p * secs
  BY <1>2, <1>4, <1>5
<1> QED BY <1>2, <1>3, <1>6 DEF AtMost

(* split(): exact, a tenth for the platform rounded up, and the provider's *)
(* share is zero only for a total of one paisa.                            *)
LEMMA SplitIsExact ==
    ASSUME NEW total \in Nat
    PROVE  /\ Split(total).platform \in Nat
           /\ Split(total).provider \in Nat
           /\ Split(total).provider + Split(total).platform = total
           /\ 10 * Split(total).platform \in total..(total + 9)
           /\ total > 0 => Split(total).platform # 0
           /\ total > 1 => Split(total).provider # 0
  BY DEF Split, CeilDiv, PlatformFeeBps

LEMMA ChargeBounds ==
    ASSUME NEW q \in Nat, NEW p \in Nat, NEW outcome, NEW secs \in Nat
    PROVE  /\ Charge(q, p, outcome, secs) \in 0..q
           /\ outcome = "completed" => Charge(q, p, outcome, secs) = q
           /\ outcome = "failed_user" =>
                  \/ Charge(q, p, outcome, secs) = q
                  \/ 3600 * Charge(q, p, outcome, secs) >= p * secs
           /\ outcome \notin {"completed", "failed_user"} =>
                  Charge(q, p, outcome, secs) = 0
  BY MeteredIsFair DEF Charge

(* Every settlement balances, so the ledger_balanced trigger never fires.  *)
LEMMA SettlementBalances ==
    ASSUME NEW q \in Nat, NEW charge \in 0..q
    PROVE  /\ SettleEntries(q, charge) \in [Kinds -> Int]
           /\ SettleEntries(q, charge)["gateway_clearing"] = 0
           /\ SettleEntries(q, charge)["user_escrow"] = - q
           /\ SettleEntries(q, charge)["provider_balance"] = Split(charge).provider
           /\ SettleEntries(q, charge)["platform_revenue"] = Split(charge).platform
           /\ SettleEntries(q, charge)["refunds"] = q - charge
           /\ Total(SettleEntries(q, charge)) = 0
<1>1. /\ Split(charge).platform \in Nat /\ Split(charge).provider \in Nat
      /\ Split(charge).provider + Split(charge).platform = charge
  BY SplitIsExact
<1> QED BY <1>1 DEF SettleEntries, Kinds, Total
-----------------------------------------------------------------------------
(* The quote of a booked reservation is the one computed when it was made, *)
(* and a reservation that was never booked has no handler and no money.  A *)
(* settlement under way knows its outcome.                                 *)
Booked ==
    \A r \in Resv : row[r] # None =>
        /\ price[r] \in Prices /\ slot[r] \in Slots /\ QuoteSeconds(slot[r]) > 0
        /\ quoted[r] = Quote(price[r], slot[r])
NotYetBooked ==
    \A r \in Resv : row[r] = None => r \notin captured /\ settled[r] = None
CallsBooked ==
    \A c \in Calls :
        /\ call[c].op # "idle" => row[call[c].resv] # None
        /\ call[c].op \in {"check", "settle"} => call[c].outcome \in Outcomes

(* The five accounts, from what was captured and what was settled.         *)
CaptureShown ==
    \A r \in Resv :
        ledger[r]["gateway_clearing"] = (IF r \in captured THEN - quoted[r] ELSE 0)
EscrowShown ==
    \A r \in Resv :
        ledger[r]["user_escrow"] = (IF r \in captured THEN quoted[r] ELSE 0)
                                   - (IF settled[r] # None THEN quoted[r] ELSE 0)
NothingShared ==
    \A r \in Resv : settled[r] = None =>
        /\ ledger[r]["provider_balance"] = 0
        /\ ledger[r]["platform_revenue"] = 0
        /\ ledger[r]["refunds"] = 0
ChargeShared ==
    \A r \in Resv : settled[r] # None =>
        \E charge \in 0..quoted[r] :
            /\ charge = Charge(quoted[r], price[r], settled[r].outcome, settled[r].secs)
            /\ ledger[r]["provider_balance"] = Split(charge).provider
            /\ ledger[r]["platform_revenue"] = Split(charge).platform
            /\ ledger[r]["refunds"] = quoted[r] - charge
Forced == \A r \in Resv : settled[r] # None => r \in captured \cup overridden
FinalIsSettled ==
    \A r \in Resv : row[r] \in JobOutcomes =>
        settled[r] # None /\ settled[r].outcome = row[r]

Books == /\ Booked /\ NotYetBooked /\ CallsBooked
         /\ CaptureShown /\ EscrowShown /\ NothingShared /\ ChargeShared
         /\ Forced /\ FinalIsSettled
IInv == TypeOK /\ Books /\ OnlyOnePaisaRefused

(* Initially nothing is booked, held or paid.                              *)
LEMMA InitSound == Init => IInv
<1> SUFFICES ASSUME Init PROVE IInv
  OBVIOUS
<1> USE BillingAssumption DEF Init
<1>0. None \notin Outcomes \cup JobOutcomes
  BY DEF RowStatus, Outcomes
<1>1. TypeOK
  BY DEF TypeOK, CallRec, Idle, Kinds, AllAccounts
<1>2. Books
  <2>1. Booked /\ NotYetBooked /\ FinalIsSettled
    BY <1>0 DEF Booked, NotYetBooked, FinalIsSettled
  <2>2. CallsBooked
    BY DEF CallsBooked, Idle
  <2>3. CaptureShown /\ EscrowShown /\ NothingShared /\ ChargeShared /\ Forced
    BY DEF CaptureShown, EscrowShown, NothingShared, ChargeShared, Forced, Kinds
  <2> QED BY <2>1, <2>2, <2>3 DEF Books
<1>3. OnlyOnePaisaRefused
  BY DEF OnlyOnePaisaRefused
<1> QED BY <1>1, <1>2, <1>3 DEF IInv

(* Steps that move no money: they may set the row of a booked reservation  *)
(* to a state no settlement writes, and may start or end a handler.        *)
LEMMA QuietStep ==
    ASSUME IInv,
           UNCHANGED <<booking, ledger, captured, settled, overridden>>,
           \A r \in Resv : \/ row'[r] = row[r]
                           \/ row[r] # None /\ row'[r] \notin JobOutcomes \cup {None},
           CallsBooked'
    PROVE  Books'
<1> USE DEF IInv, Books, booking
<1>1. Booked' /\ NotYetBooked' /\ Forced'
  BY DEF Booked, NotYetBooked, Forced
<1>2. CaptureShown' /\ EscrowShown' /\ NothingShared' /\ ChargeShared'
  BY DEF CaptureShown, EscrowShown, NothingShared, ChargeShared
<1>3. FinalIsSettled'
  BY DEF FinalIsSettled
<1> QED BY <1>1, <1>2, <1>3

(* A handler that has started holds a booked reservation.                  *)
LEMMA HandlerHolds ==
    ASSUME IInv, NEW c \in Calls, call[c].op # "idle"
    PROVE  call[c].resv \in Resv /\ row[call[c].resv] # None
  BY DEF IInv, TypeOK, CallRec, Books, CallsBooked

(* A transition starts from a booked row.                                  *)
LEMMA TransitionBooked ==
    ASSUME NEW to, CanTransition(None, to)
    PROVE  FALSE
  BY BillingAssumption DEF CanTransition, Edges, RowStatus

(* Booking fixes the quote of a reservation nobody has touched yet.        *)
LEMMA BookStep ==
    ASSUME IInv, NEW r \in Resv, NEW p \in Prices, NEW ms \in Slots, Book(r, p, ms)
    PROVE  IInv'
<1> USE DEF IInv, Books, Book, money, history
<1>0. None \notin RowStatus /\ "held" \in RowStatus \ JobOutcomes
  BY BillingAssumption DEF RowStatus, JobOutcomes
<1>1. TypeOK'
  <2>1. Quote(p, ms) \in Nat /\ p \in Nat /\ ms \in Nat
    BY QuoteIsFair, BillingAssumption
  <2> QED BY <1>0, <2>1 DEF TypeOK
<1>2. Booked' /\ NotYetBooked' /\ CallsBooked'
  BY <1>0 DEF Booked, NotYetBooked, CallsBooked, TypeOK
<1>3. r \notin captured /\ settled[r] = None
  BY DEF NotYetBooked
<1>4. CaptureShown' /\ EscrowShown' /\ NothingShared' /\ ChargeShared'
  BY <1>3 DEF CaptureShown, EscrowShown, NothingShared, ChargeShared, TypeOK
<1>5. Forced' /\ FinalIsSettled'
  BY <1>0 DEF Forced, FinalIsSettled, TypeOK
<1>6. OnlyOnePaisaRefused'
  BY DEF OnlyOnePaisaRefused
<1> QED BY <1>1, <1>2, <1>4, <1>5, <1>6

LEMMA ExpireStep ==
    ASSUME IInv, NEW r \in Resv, ExpireStaleHolds(r)
    PROVE  IInv'
<1> USE DEF ExpireStaleHolds, booking, money, history
<1>0. None \notin RowStatus /\ {"held", "expired"} \subseteq RowStatus \ JobOutcomes
  BY BillingAssumption DEF RowStatus, Outcomes, JobOutcomes
<1>1. TypeOK'
  BY <1>0 DEF IInv, TypeOK
<1>2. CallsBooked'
  BY <1>0, <1>1 DEF IInv, Books, CallsBooked, TypeOK
<1>3. Books'
  BY <1>0, <1>2, QuietStep DEF IInv, TypeOK
<1> QED BY <1>1, <1>3 DEF IInv, OnlyOnePaisaRefused

(* A handler that starts: it holds a reservation that is booked.           *)
LEMMA StartStep ==
    ASSUME IInv, NEW c \in Calls, NEW r \in Resv, row[r] # None,
           UNCHANGED <<row, booking, hasJob, money, history>>,
           NEW op \in {"confirm", "submit", "check"},
           NEW outcome \in Outcomes \cup {None}, op = "check" => outcome \in Outcomes,
           NEW secs \in Seconds \cup {0},
           call' = [call EXCEPT ![c] = [op |-> op, resv |-> r, outcome |-> outcome,
                                        secs |-> secs, make |-> {}]]
    PROVE  IInv'
<1> USE DEF booking, money, history
<1>1. TypeOK'
  BY BillingAssumption DEF IInv, TypeOK, CallRec
<1>2. CallsBooked'
  BY DEF IInv, Books, CallsBooked, TypeOK
<1>3. Books'
  BY <1>2, QuietStep
<1> QED BY <1>1, <1>3 DEF IInv, OnlyOnePaisaRefused

(* A handler that goes on to its next step.                                *)
LEMMA ContinueStep ==
    ASSUME IInv, NEW c \in Calls, call[c].op # "idle",
           UNCHANGED <<row, booking, money, history>>, hasJob' \subseteq Resv,
           NEW op \in {"capture", "mark", "settle"}, NEW make \in SUBSET AllAccounts,
           op = "settle" => call[c].op = "check",
           Continue(c, op, make)
    PROVE  IInv'
<1> USE DEF booking, money, history
<1>1. /\ call'[c] \in CallRec /\ call'[c].op = op
      /\ call'[c].resv = call[c].resv /\ call'[c].outcome = call[c].outcome
      /\ \A d \in Calls \ {c} : call'[d] = call[d]
      /\ call' \in [Calls -> CallRec]
  <2>1. call \in [Calls -> CallRec]
    BY DEF IInv, TypeOK
  <2> QED BY <2>1 DEF CallRec, Continue
<1>2. TypeOK'
  BY <1>1 DEF IInv, TypeOK
<1>3. CallsBooked'
  BY <1>1 DEF IInv, Books, CallsBooked, TypeOK
<1>4. Books'
  BY <1>3, QuietStep
<1> QED BY <1>2, <1>4 DEF IInv, OnlyOnePaisaRefused

(* A handler that ends without having moved money.                         *)
LEMMA EndStep ==
    ASSUME IInv, NEW c \in Calls, call[c].op # "idle", Return(c),
           UNCHANGED <<booking, hasJob, money, overridden>>,
           \/ row' = row
           \/ \E s \in {"expired", "running"} : row' = [row EXCEPT ![call[c].resv] = s],
           OnlyOnePaisaRefused'
    PROVE  IInv'
<1> USE DEF booking, money, Return
<1>0. /\ None \notin RowStatus
      /\ {"expired", "running"} \subseteq RowStatus \ JobOutcomes
  BY BillingAssumption DEF RowStatus, Outcomes, JobOutcomes
<1>1. call[c].resv \in Resv /\ row[call[c].resv] # None
  BY HandlerHolds
<1>2. TypeOK'
  BY <1>0, <1>1, SMTT(40) DEF IInv, TypeOK, CallRec, Idle
<1>3. CallsBooked'
  BY <1>0, <1>1 DEF IInv, Books, CallsBooked, TypeOK, CallRec, Idle
<1>4. Books'
  BY <1>0, <1>1, <1>3, QuietStep DEF IInv, TypeOK
<1> QED BY <1>2, <1>4 DEF IInv

(* The capture: its two entries are new, since the key was free.           *)
LEMMA CaptureStep ==
    ASSUME IInv, NEW c \in Calls, CaptureEnd(c)
    PROVE  IInv'
<1> DEFINE r == call[c].resv
<1> USE DEF IInv, Books, booking, history
<1>0. /\ None \notin RowStatus
      /\ "confirmed" \in RowStatus \ JobOutcomes
  BY BillingAssumption DEF RowStatus, Outcomes, JobOutcomes
<1>1. r \in Resv /\ row[r] # None
  BY HandlerHolds DEF CaptureEnd
<1>2. /\ r \notin captured /\ captured' = captured \cup {r}
      /\ accounts' = accounts \cup call[c].make
      /\ ledger' = [ledger EXCEPT ![r] = Posted(ledger[r], CaptureEntries(quoted[r]))]
      /\ row' = [row EXCEPT ![r] = "confirmed"]
      /\ call' = [call EXCEPT ![c] = Idle]
      /\ UNCHANGED <<slot, price, quoted, hasJob, settled, overridden, refused>>
  BY DEF CaptureEnd, Return
<1> HIDE DEF r
<1>3. TypeOK'
  <2>1. ledger[r] \in [Kinds -> Int] /\ quoted[r] \in Nat
    BY <1>1 DEF TypeOK
  <2>2. CaptureEntries(quoted[r]) \in [Kinds -> Int]
    BY <2>1 DEF CaptureEntries, Kinds
  <2>3. Posted(ledger[r], CaptureEntries(quoted[r])) \in [Kinds -> Int]
    BY <2>1, <2>2 DEF Posted
  <2> QED BY <1>0, <1>1, <1>2, <2>3 DEF TypeOK, CallRec, Idle
<1>4. Booked' /\ NotYetBooked' /\ CallsBooked'
  BY <1>0, <1>1, <1>2 DEF Booked, NotYetBooked, CallsBooked, TypeOK, CallRec, Idle
<1>5. /\ ledger'[r] \in [Kinds -> Int]
      /\ ledger'[r]["gateway_clearing"] = ledger[r]["gateway_clearing"] - quoted[r]
      /\ ledger'[r]["user_escrow"] = ledger[r]["user_escrow"] + quoted[r]
      /\ \A k \in Kinds \ {"gateway_clearing", "user_escrow"} : ledger'[r][k] = ledger[r][k]
      /\ \A s \in Resv \ {r} : ledger'[s] = ledger[s]
  BY <1>1, <1>2, <1>3 DEF TypeOK, Kinds, Posted, CaptureEntries
<1>6. CaptureShown' /\ EscrowShown'
  <2>1. /\ ledger[r]["gateway_clearing"] = 0
        /\ ledger[r]["user_escrow"] = 0 - (IF settled[r] # None THEN quoted[r] ELSE 0)
    BY <1>1, <1>2 DEF CaptureShown, EscrowShown
  <2>2. quoted[r] \in Nat
    BY <1>1 DEF TypeOK
  <2>3. /\ ledger'[r]["gateway_clearing"] = - quoted[r]
        /\ ledger'[r]["user_escrow"] = quoted[r]
                                       - (IF settled[r] # None THEN quoted[r] ELSE 0)
    BY <1>5, <2>1, <2>2
  <2> QED BY <1>2, <1>5, <2>3 DEF CaptureShown, EscrowShown
<1>7. NothingShared' /\ ChargeShared'
  <2>1. \A s \in Resv : \A k \in {"provider_balance", "platform_revenue", "refunds"} :
            ledger'[s][k] = ledger[s][k]
    BY <1>5 DEF Kinds
  <2> QED BY <1>2, <2>1 DEF NothingShared, ChargeShared
<1>8. Forced' /\ FinalIsSettled'
  BY <1>0, <1>1, <1>2 DEF Forced, FinalIsSettled, TypeOK
<1>9. OnlyOnePaisaRefused'
  BY <1>2 DEF OnlyOnePaisaRefused
<1> QED BY <1>3, <1>4, <1>6, <1>7, <1>8, <1>9

(* The settlement: nothing was shared out before, since the key was free.  *)
LEMMA SettleStep ==
    ASSUME IInv, NEW c \in Calls, SettleEnd(c)
    PROVE  IInv'
<1> DEFINE r == call[c].resv
           outcome == call[c].outcome
           secs == call[c].secs
           charge == Charge(quoted[r], price[r], outcome, secs)
           entries == SettleEntries(quoted[r], charge)
<1> USE DEF IInv, Books, booking
<1>1. r \in Resv /\ row[r] # None
  BY HandlerHolds DEF SettleEnd
<1>2. /\ settled[r] = None
      /\ settled' = [settled EXCEPT ![r] = [outcome |-> outcome, secs |-> secs]]
      /\ accounts' = accounts \cup call[c].make
      /\ ledger' = [ledger EXCEPT ![r] = Posted(ledger[r], entries)]
      /\ row' = [row EXCEPT ![r] = outcome]
      /\ overridden' = IF r \in captured THEN overridden ELSE overridden \cup {r}
      /\ call' = [call EXCEPT ![c] = Idle]
      /\ UNCHANGED <<slot, price, quoted, hasJob, captured, refused>>
  BY DEF SettleEnd, Return, KeyFree
<1>3. outcome \in Outcomes /\ secs \in Nat /\ secs \in Seconds \cup {0}
  <2>1. call[c].op = "settle" /\ call[c] \in CallRec
    BY DEF SettleEnd, TypeOK
  <2>2. secs \in Seconds \cup {0}
    BY <2>1 DEF CallRec
  <2>3. outcome \in Outcomes
    BY <2>1 DEF CallsBooked
  <2>4. Seconds \cup {0} \subseteq Nat
    BY BillingAssumption
  <2> QED BY <2>2, <2>3, <2>4
<1>4. quoted[r] \in Nat /\ price[r] \in Nat /\ charge \in 0..quoted[r]
  BY <1>1, <1>3, ChargeBounds DEF TypeOK
<1> HIDE DEF r, outcome, secs
<1>5. /\ entries \in [Kinds -> Int]
      /\ entries["gateway_clearing"] = 0
      /\ entries["user_escrow"] = - quoted[r]
      /\ entries["provider_balance"] = Split(charge).provider
      /\ entries["platform_revenue"] = Split(charge).platform
      /\ entries["refunds"] = quoted[r] - charge
  BY <1>4, SettlementBalances
<1> HIDE DEF entries, charge
<1>6. /\ ledger'[r] = [k \in Kinds |-> ledger[r][k] + entries[k]]
      /\ \A s \in Resv \ {r} : ledger'[s] = ledger[s]
      /\ settled'[r] = [outcome |-> outcome, secs |-> secs]
      /\ \A s \in Resv \ {r} : settled'[s] = settled[s]
  BY <1>1, <1>2 DEF TypeOK, Posted
<1>7. None \notin RowStatus \cup Settlement /\ outcome \in RowStatus
  BY <1>3, BillingAssumption DEF RowStatus
<1>8. settled'[r] \in Settlement /\ settled'[r] # None
  BY <1>3, <1>6, <1>7 DEF Settlement
<1>9. ledger'[r] \in [Kinds -> Int]
  BY <1>1, <1>5, <1>6 DEF TypeOK
<1>10. TypeOK'
  BY <1>1, <1>2, <1>7, <1>8, <1>9 DEF TypeOK, CallRec, Idle
<1>11. Booked' /\ NotYetBooked' /\ CallsBooked'
  BY <1>1, <1>2, <1>6, <1>7 DEF Booked, NotYetBooked, CallsBooked, TypeOK, CallRec, Idle
<1>12. CaptureShown' /\ EscrowShown'
  <2>1. ledger[r] \in [Kinds -> Int]
    BY <1>1 DEF TypeOK
  <2>2. /\ ledger'[r]["gateway_clearing"] = ledger[r]["gateway_clearing"]
        /\ ledger'[r]["user_escrow"] = ledger[r]["user_escrow"] - quoted[r]
    BY <1>4, <1>5, <1>6, <2>1 DEF Kinds
  <2> QED BY <1>1, <1>2, <1>4, <1>6, <1>8, <2>2 DEF CaptureShown, EscrowShown
<1>13. NothingShared'
  BY <1>2, <1>6, <1>8 DEF NothingShared
<1>14. ChargeShared'
  <2>1. /\ ledger[r]["provider_balance"] = 0
        /\ ledger[r]["platform_revenue"] = 0
        /\ ledger[r]["refunds"] = 0
    BY <1>1, <1>2 DEF NothingShared
  <2>2. Split(charge).provider \in Nat /\ Split(charge).platform \in Nat
    BY <1>4, SplitIsExact
  <2>3. /\ ledger'[r]["provider_balance"] = Split(charge).provider
        /\ ledger'[r]["platform_revenue"] = Split(charge).platform
        /\ ledger'[r]["refunds"] = quoted[r] - charge
    BY <1>4, <1>5, <1>6, <2>1, <2>2 DEF Kinds
  <2>4. charge = Charge(quoted[r], price[r], settled'[r].outcome, settled'[r].secs)
    BY <1>6 DEF charge
  <2> QED BY <1>1, <1>2, <1>4, <1>6, <2>3, <2>4 DEF ChargeShared
<1>15. Forced'
  BY <1>1, <1>2, <1>6 DEF Forced
<1>16. FinalIsSettled'
  BY <1>1, <1>2, <1>6, <1>8 DEF FinalIsSettled, TypeOK
<1>17. OnlyOnePaisaRefused'
  BY <1>2 DEF OnlyOnePaisaRefused
<1> QED BY <1>10, <1>11, <1>12, <1>13, <1>14, <1>15, <1>16, <1>17

(* A settlement is only turned down for a charge of one paisa.             *)
LEMMA RefusedStep ==
    ASSUME IInv, NEW c \in Calls, SettleRefused(c)
    PROVE  IInv'
<1> DEFINE r == call[c].resv
           charge == Charge(quoted[r], price[r], call[c].outcome, call[c].secs)
<1>1. r \in Resv /\ row[r] # None
  BY HandlerHolds DEF SettleRefused
<1>2. call[c].secs \in Nat
  <2>1. call[c].secs \in Seconds \cup {0}
    BY DEF IInv, TypeOK, CallRec
  <2>2. Seconds \cup {0} \subseteq Nat
    BY BillingAssumption
  <2> QED BY <2>1, <2>2
<1>3. quoted[r] \in Nat /\ price[r] \in Nat /\ charge \in 0..quoted[r]
  BY <1>1, <1>2, ChargeBounds DEF IInv, TypeOK
<1>4. quoted[r] > 0
  <2>1. /\ price[r] \in Prices /\ slot[r] \in Slots /\ QuoteSeconds(slot[r]) > 0
        /\ quoted[r] = Quote(price[r], slot[r])
    BY <1>1 DEF IInv, Books, Booked
  <2>2. price[r] \in Nat \ {0} /\ slot[r] \in Nat
    BY <2>1, BillingAssumption
  <2> QED BY <2>1, <2>2, QuoteIsPositive
<1>5. ~Acceptable(quoted[r], charge)
  BY DEF SettleRefused
<1>6. refused' = refused \cup {[resv |-> r, charge |-> charge]}
  BY DEF SettleRefused
<1>7. Return(c) /\ UNCHANGED <<row, booking, hasJob, money, overridden>>
  BY DEF SettleRefused
<1> HIDE DEF r, charge
<1>8. Total(SettleEntries(quoted[r], charge)) = 0
  BY <1>3, SettlementBalances
<1>9. charge = 1
  BY <1>3, <1>4, <1>5, <1>8, SplitIsExact DEF Acceptable
<1>10. OnlyOnePaisaRefused'
  BY <1>6, <1>9 DEF IInv, OnlyOnePaisaRefused
<1> QED BY <1>7, <1>10, EndStep DEF SettleRefused

(* Every step keeps the invariant: one case per action.                    *)
LEMMA NextPreserves == IInv /\ [Next]_vars => IInv'
<1> SUFFICES ASSUME IInv, [Next]_vars PROVE IInv'
  OBVIOUS
<1>0. \A r \in Resv : CaptureNeeds(r) \subseteq AllAccounts /\ SettleNeeds(r) \subseteq AllAccounts
  BY DEF CaptureNeeds, SettleNeeds, AllAccounts
<1>1. ASSUME NEW r \in Resv, ExpireStaleHolds(r) PROVE IInv'
  BY <1>1, ExpireStep
<1>2. ASSUME NEW r \in Resv, NEW p \in Prices, NEW ms \in Slots, Book(r, p, ms) PROVE IInv'
  BY <1>2, BookStep
<1>3. ASSUME NEW c \in Calls, Confirming(c) PROVE IInv'
  <2>1. CASE ConfirmGiveUp(c)
    <3>1. OnlyOnePaisaRefused'
      BY <2>1 DEF ConfirmGiveUp, history, IInv, OnlyOnePaisaRefused
    <3> QED BY <2>1, <3>1, EndStep DEF ConfirmGiveUp, history
  <2>2. CASE CaptureBegin(c)
    <3>1. call[c].op # "idle" /\ call[c].resv \in Resv
      BY <2>2, HandlerHolds DEF CaptureBegin
    <3>2. CaptureNeeds(call[c].resv) \ accounts \in SUBSET AllAccounts
      BY <1>0, <3>1
    <3>3. hasJob' \subseteq Resv
      BY <2>2 DEF CaptureBegin, IInv, TypeOK
    <3> QED BY <2>2, <3>1, <3>2, <3>3, ContinueStep DEF CaptureBegin
  <2>3. CASE CaptureEnd(c)
    BY <2>3, CaptureStep
  <2>4. CASE CaptureClash(c)
    <3>1. OnlyOnePaisaRefused'
      BY <2>4 DEF CaptureClash, Clash, IInv, OnlyOnePaisaRefused
    <3> QED BY <2>4, <3>1, EndStep DEF CaptureClash, Clash
  <2>5. ASSUME NEW r \in Resv, ConfirmRead(c, r) PROVE IInv'
    <3>1. row[r] # None
      BY <2>5, TransitionBooked DEF ConfirmRead
    <3>2. call' = [call EXCEPT ![c] = [op |-> "confirm", resv |-> r, outcome |-> None,
                                       secs |-> 0, make |-> {}]]
      BY <2>5 DEF ConfirmRead, Begin
    <3> QED BY <2>5, <3>1, <3>2, StartStep DEF ConfirmRead
  <2> QED BY <1>3, <2>1, <2>2, <2>3, <2>4, <2>5 DEF Confirming
<1>4. ASSUME NEW c \in Calls, Submitting(c) PROVE IInv'
  <2>1. CASE InsertJob(c)
    <3>1. call[c].op # "idle" /\ call[c].resv \in Resv
      BY <2>1, HandlerHolds DEF InsertJob
    <3>2. hasJob' \subseteq Resv
      BY <2>1, <3>1 DEF InsertJob, IInv, TypeOK
    <3> QED BY <2>1, <3>1, <3>2, ContinueStep DEF InsertJob
  <2>2. CASE MarkRunning(c)
    <3>1. OnlyOnePaisaRefused'
      BY <2>2 DEF MarkRunning, history, IInv, OnlyOnePaisaRefused
    <3> QED BY <2>2, <3>1, EndStep DEF MarkRunning, history
  <2>3. ASSUME NEW r \in Resv, SubmitRead(c, r) PROVE IInv'
    <3>1. row[r] # None
      BY <2>3, BillingAssumption DEF SubmitRead, RowStatus
    <3>2. call' = [call EXCEPT ![c] = [op |-> "submit", resv |-> r, outcome |-> None,
                                       secs |-> 0, make |-> {}]]
      BY <2>3 DEF SubmitRead, Begin
    <3> QED BY <2>3, <3>1, <3>2, StartStep DEF SubmitRead
  <2> QED BY <1>4, <2>1, <2>2, <2>3 DEF Submitting
<1>5. ASSUME NEW c \in Calls, Settling(c) PROVE IInv'
  <2>1. CASE SettleBegin(c)
    <3>1. call[c].op # "idle" /\ call[c].resv \in Resv
      BY <2>1, HandlerHolds DEF SettleBegin
    <3>2. SettleNeeds(call[c].resv) \ accounts \in SUBSET AllAccounts
      BY <1>0, <3>1
    <3>3. hasJob' \subseteq Resv
      BY <2>1 DEF SettleBegin, IInv, TypeOK
    <3> QED BY <2>1, <3>1, <3>2, <3>3, ContinueStep DEF SettleBegin
  <2>2. CASE SettleEnd(c)
    BY <2>2, SettleStep
  <2>3. CASE SettleClash(c)
    <3>1. OnlyOnePaisaRefused'
      BY <2>3 DEF SettleClash, Clash, IInv, OnlyOnePaisaRefused
    <3> QED BY <2>3, <3>1, EndStep DEF SettleClash, Clash
  <2>4. CASE SettleRefused(c)
    BY <2>4, RefusedStep
  <2>5. ASSUME NEW r \in Resv, NEW outcome \in Outcomes, NEW secs \in Seconds,
               SettleRead(c, r, outcome, secs)
        PROVE  IInv'
    <3>1. row[r] # None
      BY <2>5, TransitionBooked DEF SettleRead
    <3>2. call' = [call EXCEPT ![c] = [op |-> "check", resv |-> r, outcome |-> outcome,
                                       secs |-> secs, make |-> {}]]
      BY <2>5 DEF SettleRead, Begin
    <3> QED BY <2>5, <3>1, <3>2, StartStep DEF SettleRead
  <2> QED BY <1>5, <2>1, <2>2, <2>3, <2>4, <2>5 DEF Settling
<1>6. ASSUME NEW c \in Calls, Abort(c) PROVE IInv'
  <2>1. call[c].op # "idle"
    BY <1>6 DEF Abort
  <2>2. OnlyOnePaisaRefused'
    BY <1>6 DEF Abort, history, IInv, OnlyOnePaisaRefused
  <2> QED BY <1>6, <2>1, <2>2, EndStep DEF Abort, history
<1>7. CASE UNCHANGED vars
  BY <1>7 DEF vars, booking, money, history, IInv, TypeOK, Books, Booked, NotYetBooked,
              CallsBooked, CaptureShown, EscrowShown, NothingShared, ChargeShared, Forced,
              FinalIsSettled, OnlyOnePaisaRefused
<1> QED BY <1>1, <1>2, <1>3, <1>4, <1>5, <1>6, <1>7 DEF Next
-----------------------------------------------------------------------------
(* The strengthening holds in every reachable state.                       *)
THEOREM InductiveInvariant == Spec => []IInv
<1>1. Init => IInv
  BY InitSound
<1>2. IInv /\ [Next]_vars => IInv'
  BY NextPreserves
<1> QED BY <1>1, <1>2, PTL DEF Spec

(* Every variable keeps its type, and a handler holds a reservation exactly*)
(* while it runs.                                                          *)
THEOREM TypeCorrect == Spec => []TypeOK
<1>1. IInv => TypeOK
  BY DEF IInv
<1> QED BY <1>1, InductiveInvariant, PTL

(* quote(), for every price and every window that can be booked.           *)
THEOREM QuotesAreFair == Spec => []QuoteFair
<1>1. IInv => QuoteFair
  <2> SUFFICES ASSUME IInv, NEW r \in Resv, row[r] # None
               PROVE  Fair(quoted[r], price[r], slot[r])
    BY DEF QuoteFair
  <2>1. price[r] \in Nat /\ slot[r] \in Nat
    BY DEF IInv, TypeOK
  <2>2. quoted[r] = Quote(price[r], slot[r])
    BY DEF IInv, Books, Booked
  <2> QED BY <2>1, <2>2, QuoteIsFair
<1> QED BY <1>1, InductiveInvariant, PTL

(* The ledger balances, escrow holds what was captured and not yet settled,*)
(* and no two settlements pay for one reservation, whatever handlers       *)
(* interleave, abort or are turned back by a unique key.                   *)
THEOREM PaisaAccounted == Spec => []EveryPaisaAccounted
<1>1. IInv => EveryPaisaAccounted
  <2> SUFFICES ASSUME IInv, NEW r \in Resv
               PROVE  LET e == ledger[r] IN
                      /\ Total(e) = 0
                      /\ e["user_escrow"] = (IF r \in captured THEN quoted[r] ELSE 0)
                                            - (IF settled[r] # None THEN quoted[r] ELSE 0)
                      /\ e["user_escrow"] < 0 => r \in overridden
                      /\ e["provider_balance"] >= 0 /\ e["platform_revenue"] >= 0
                      /\ e["refunds"] >= 0
    BY DEF EveryPaisaAccounted
  <2>1. quoted[r] \in Nat
    BY DEF IInv, TypeOK
  <2>2. /\ ledger[r]["gateway_clearing"] = (IF r \in captured THEN - quoted[r] ELSE 0)
        /\ ledger[r]["user_escrow"] = (IF r \in captured THEN quoted[r] ELSE 0)
                                      - (IF settled[r] # None THEN quoted[r] ELSE 0)
    BY DEF IInv, Books, CaptureShown, EscrowShown
  <2>3. settled[r] # None => r \in captured \cup overridden
    BY DEF IInv, Books, Forced
  <2>4. CASE settled[r] = None
    <3>1. /\ ledger[r]["provider_balance"] = 0 /\ ledger[r]["platform_revenue"] = 0
          /\ ledger[r]["refunds"] = 0
      BY <2>4 DEF IInv, Books, NothingShared
    <3> QED BY <2>1, <2>2, <2>4, <3>1 DEF Total
  <2>5. CASE settled[r] # None
    <3>1. PICK charge \in 0..quoted[r] :
              /\ ledger[r]["provider_balance"] = Split(charge).provider
              /\ ledger[r]["platform_revenue"] = Split(charge).platform
              /\ ledger[r]["refunds"] = quoted[r] - charge
      BY <2>5 DEF IInv, Books, ChargeShared
    <3>2. /\ Split(charge).platform \in Nat /\ Split(charge).provider \in Nat
          /\ Split(charge).provider + Split(charge).platform = charge
      BY <2>1, SplitIsExact
    <3> QED BY <2>1, <2>2, <2>3, <2>5, <3>1, <3>2 DEF Total
  <2> QED BY <2>4, <2>5
<1> QED BY <1>1, InductiveInvariant, PTL

(* A finished reservation was settled once, for the outcome its row shows, *)
(* and the shares are those settle.js promises.                            *)
THEOREM FinalRowsMatch == Spec => []FinalRowMatchesLedger
<1>1. IInv => FinalRowMatchesLedger
  <2> SUFFICES ASSUME IInv, NEW r \in Resv, row[r] \in JobOutcomes
               PROVE  LET e == ledger[r]
                          charge == e["provider_balance"] + e["platform_revenue"]
                      IN
                      /\ settled[r] # None /\ settled[r].outcome = row[r]
                      /\ e["refunds"] = quoted[r] - charge
                      /\ 10 * e["platform_revenue"] \in charge..(charge + 9)
                      /\ row[r] = "completed" => charge = quoted[r]
                      /\ row[r] = "failed_user" =>
                             /\ charge <= quoted[r]
                             /\ \/ charge = quoted[r]
                                \/ 3600 * charge >= price[r] * settled[r].secs
                      /\ row[r] \in {"failed_provider", "disputed"} => charge = 0
    BY DEF FinalRowMatchesLedger
  <2>1. quoted[r] \in Nat /\ price[r] \in Nat
    BY DEF IInv, TypeOK
  <2>2. settled[r] # None /\ settled[r].outcome = row[r]
    BY DEF IInv, Books, FinalIsSettled
  <2>3. settled[r].secs \in Nat
    <3>1. settled[r] \in Settlement
      BY <2>2 DEF IInv, TypeOK
    <3>2. settled[r].secs \in Seconds \cup {0}
      BY <3>1 DEF Settlement
    <3>3. Seconds \cup {0} \subseteq Nat
      BY BillingAssumption
    <3> QED BY <3>2, <3>3
  <2>4. PICK charge \in 0..quoted[r] :
            /\ charge = Charge(quoted[r], price[r], settled[r].outcome, settled[r].secs)
            /\ ledger[r]["provider_balance"] = Split(charge).provider
            /\ ledger[r]["platform_revenue"] = Split(charge).platform
            /\ ledger[r]["refunds"] = quoted[r] - charge
    BY <2>2 DEF IInv, Books, ChargeShared
  <2>5. /\ Split(charge).platform \in Nat /\ Split(charge).provider \in Nat
        /\ Split(charge).provider + Split(charge).platform = charge
        /\ 10 * Split(charge).platform \in charge..(charge + 9)
    BY <2>1, SplitIsExact
  <2>6. ledger[r]["provider_balance"] + ledger[r]["platform_revenue"] = charge
    BY <2>4, <2>5
  <2>7. /\ row[r] = "completed" => charge = quoted[r]
        /\ row[r] = "failed_user" =>
               charge = quoted[r] \/ 3600 * charge >= price[r] * settled[r].secs
        /\ row[r] \in {"failed_provider", "disputed"} => charge = 0
    BY <2>1, <2>2, <2>3, <2>4, ChargeBounds
  <2> QED BY <2>1, <2>2, <2>4, <2>5, <2>6, <2>7
<1> QED BY <1>1, InductiveInvariant, PTL

(* The CHECK constraint refuses a settlement only when it charges one      *)
(* paisa.                                                                  *)
THEOREM OnlyAPaisaIsRefused == Spec => []OnlyOnePaisaRefused
<1>1. IInv => OnlyOnePaisaRefused
  BY DEF IInv
<1> QED BY <1>1, InductiveInvariant, PTL
=============================================================================
