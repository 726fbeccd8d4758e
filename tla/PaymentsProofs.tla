--------------------------- MODULE PaymentsProofs ---------------------------
(***************************************************************************)
(* What is proved about the payments of a reservation, for any number of   *)
(* orders, handlers and sweeps, any number of attempts and any bound on    *)
(* what is under way.                                                      *)
(***************************************************************************)
EXTENDS Payments, TLAPS

(* The three groups of places a handler that has an order may be at.       *)
Early == {"order", "verify", "webhook", "look", "commit", "capture"}
Repaying == {"refund", "record", "queue"}

(* Who has an order, and what kind of progress that is.                    *)
Slots ==
    /\ \A i \in Handlers :
          /\ h[i].pc = "idle" => h[i].order = None
          /\ h[i].pc = "pick" => h[i].order = None /\ h[i].amount > 0
          /\ h[i].pc \in Early \cup Repaying => h[i].order \in Orders
          /\ h[i].pc \in Repaying => h[i].amount > 0
    /\ \A s \in Sweeps : (sweep[s].pc = "idle") <=> (sweep[s].order = None)

(* Only a shared order is in two hands.                                    *)
OneHandler == \A i, j \in Handlers :
    h[i].order = h[j].order /\ h[i].order # None /\ h[i].order \notin shared => i = j

(* Nothing moves for an order before its refund is asked for.              *)
Untouched(o) ==
    /\ returned[o] = 0 /\ retry[o].status = None
    /\ \A s \in Sweeps : sweep[s].order # o
    /\ \A i \in Handlers : h[i].order = o => h[i].pc \notin Repaying
UnowedIsUntouched == \A o \in Orders : owed[o] = 0 => Untouched(o)

(* What the payments row says of an order that has only one handler.       *)
EarlyRow == \A i \in Handlers :
    LET o == h[i].order IN
    /\ h[i].pc \in {"webhook", "look", "commit", "capture"} => o \in paid
    /\ h[i].pc \in Early /\ o \notin shared =>
          /\ owed[o] = 0
          /\ h[i].pc = "order" => pay[o] = None
          /\ h[i].pc \in {"verify", "webhook"} => pay[o] = "created"
          /\ h[i].pc \in {"look", "commit", "capture"} => pay[o] = "captured"
PayRow == \A o \in Orders :
    /\ pay[o] \in {None, "created"} /\ o \notin shared => owed[o] = 0
    /\ pay[o] = "failed" => o \in stranded
    /\ pay[o] \in {"captured", "refunded"} => o \in paid
    /\ o \in paid => pay[o] # None
    /\ owed[o] # 0 => o \in paid

(* One settlement, after the one capture: until its refund is asked for    *)
(* every debt is a whole price.                                            *)
Whole == \A o \in Orders : owed[o] \in {0, Price}
OneSettlement ==
    /\ row \in {"confirmed", "settled"} => ledger # None
    /\ ledger = None \/ row = "confirmed" => Whole /\ \A i \in Handlers : ~At(i, "pick")
    /\ \A i \in Handlers : At(i, "pick") => Whole /\ \A j \in Handlers : At(j, "pick") => i = j

(* A part of the price that is owed is in one hand at a time.              *)
PartOwedOnce == \A o \in Orders \ (blurred \cup shared) : owed[o] # Price =>
    /\ returned[o] <= owed[o]
    /\ \A i \in Handlers : h[i].order = o /\ h[i].pc \in Repaying =>
          /\ h[i].amount = owed[o] /\ retry[o].status = None
          /\ returned[o] = IF h[i].pc = "record" THEN owed[o] ELSE 0
    /\ retry[o].status # None => retry[o].amount = owed[o]
    /\ \A s \in Sweeps : sweep[s].order = o =>
          /\ retry[o].status = "pending"
          /\ returned[o] = IF sweep[s].pc = "record" THEN owed[o] ELSE 0
          /\ \A t \in Sweeps : sweep[t].order = o => s = t
    /\ retry[o].status = "pending" /\ (\A s \in Sweeps : sweep[s].order # o) => returned[o] = 0

(* What bought the reservation is paid, and not refunded while it lasts.   *)
LedgerIsPaid ==
    /\ ledger # None => ledger \in paid
    /\ row = "confirmed" /\ ledger \notin shared =>
          owed[ledger] = 0 /\ pay[ledger] = "captured" /\ \A i \in Handlers : h[i].order # ledger

IInv == /\ TypeOK /\ Slots /\ OneHandler /\ UnowedIsUntouched /\ EarlyRow /\ PayRow
        /\ OneSettlement /\ PartOwedOnce /\ LedgerIsPaid /\ DebtTracked

-----------------------------------------------------------------------------
(* A new order concerns nobody else.                                       *)
LEMMA ConfirmReadStep ==
    ASSUME IInv, NEW i \in Handlers, NEW o \in Orders, ConfirmRead(i, o)
    PROVE  IInv'
<1>1. (TypeOK /\ Slots /\ OneHandler)'
  BY DEF IInv, ConfirmRead, Starts, Begun, db, gateway, history, At, Running, TypeOK,
         Price, Slots, Early, Repaying, OneHandler
<1>2. UnowedIsUntouched'
  BY DEF IInv, ConfirmRead, Starts, db, gateway, history, At, TypeOK, Price,
         UnowedIsUntouched, Untouched, Repaying
<1>3. (EarlyRow /\ PayRow)'
  BY DEF IInv, ConfirmRead, Starts, Begun, db, gateway, history, At, Running, TypeOK,
         Price, EarlyRow, Early, PayRow
<1>4. OneSettlement'
  BY DEF IInv, ConfirmRead, Starts, db, history, At, Running, TypeOK, Price,
         OneSettlement, Whole
<1>5. PartOwedOnce'
  BY DEF IInv, ConfirmRead, Starts, db, gateway, history, At, TypeOK, Price, PartOwedOnce,
         Repaying
<1>6. (LedgerIsPaid /\ DebtTracked)'
  BY PaymentsAssumption
     DEF IInv, ConfirmRead, Starts, db, gateway, history, At, Running, TypeOK, Price,
         LedgerIsPaid, DebtTracked, Slots, Early, Repaying
<1> QED BY <1>1, <1>2, <1>3, <1>4, <1>5, <1>6 DEF IInv

(* The browser's word starts a second handler; an order in two hands is    *)
(* shared.                                                                 *)
LEMMA VerifyReadStep ==
    ASSUME IInv, NEW i \in Handlers, NEW o \in Orders, VerifyRead(i, o)
    PROVE  IInv'
<1>1. (TypeOK /\ Slots /\ OneHandler)'
  BY DEF IInv, VerifyRead, Take, Starts, Share, db, gateway, At, TypeOK, Price, Slots,
         Repaying, OneHandler
<1>2. UnowedIsUntouched'
  BY DEF IInv, VerifyRead, Take, Starts, Share, db, gateway, At, TypeOK,
         UnowedIsUntouched, Untouched, Repaying
<1>3. (EarlyRow /\ PayRow)'
  BY DEF IInv, VerifyRead, Take, Share, db, gateway, At, TypeOK, EarlyRow, PayRow
<1>4. OneSettlement'
  BY DEF IInv, VerifyRead, Take, db, At, TypeOK, OneSettlement, Whole
<1>5. PartOwedOnce'
  BY DEF IInv, VerifyRead, Take, Starts, Share, db, gateway, At, TypeOK, PartOwedOnce,
         Repaying
<1>6. (LedgerIsPaid /\ DebtTracked)'
  BY PaymentsAssumption
     DEF IInv, VerifyRead, Take, Starts, Share, db, gateway, At, TypeOK, LedgerIsPaid,
         DebtTracked, Slots
<1> QED BY <1>1, <1>2, <1>3, <1>4, <1>5, <1>6 DEF IInv

(* So does the gateway's.                                                  *)
LEMMA WebhookReadStep ==
    ASSUME IInv, NEW i \in Handlers, NEW o \in Orders, WebhookRead(i, o)
    PROVE  IInv'
<1>1. (TypeOK /\ Slots /\ OneHandler)'
  BY DEF IInv, WebhookRead, Take, Starts, Share, db, gateway, At, TypeOK, Price, Slots,
         Repaying, OneHandler
<1>2. UnowedIsUntouched'
  BY DEF IInv, WebhookRead, Take, Starts, Share, db, gateway, At, TypeOK,
         UnowedIsUntouched, Untouched, Repaying
<1>3. (EarlyRow /\ PayRow)'
  BY DEF IInv, WebhookRead, Take, Share, db, gateway, At, TypeOK, EarlyRow, PayRow
<1>4. OneSettlement'
  BY DEF IInv, WebhookRead, Take, db, At, TypeOK, OneSettlement, Whole
<1>5. PartOwedOnce'
  BY DEF IInv, WebhookRead, Take, Starts, Share, db, gateway, At, TypeOK, PartOwedOnce,
         Repaying
<1>6. (LedgerIsPaid /\ DebtTracked)'
  BY PaymentsAssumption
     DEF IInv, WebhookRead, Take, Starts, Share, db, gateway, At, TypeOK, LedgerIsPaid,
         DebtTracked, Slots
<1> QED BY <1>1, <1>2, <1>3, <1>4, <1>5, <1>6 DEF IInv

(* The row is settled once; one handler goes to look for what to refund.   *)
LEMMA SettleStep ==
    ASSUME IInv, NEW i \in Handlers, NEW refund \in 0..Price, Settle(i, refund)
    PROVE  IInv'
<1>1. ASSUME At(i, "idle"), row = "confirmed", row' = "settled",
             UNCHANGED <<h, ledger, pay, retry, gateway, acked, sweep, history>>
      PROVE  IInv'
  <2>1. (TypeOK /\ Slots /\ OneHandler)'
    BY <1>1, PaymentsAssumption
       DEF IInv, TypeOK, Price, At, gateway, history, Slots, Early, Repaying, OneHandler
  <2>2. UnowedIsUntouched'
    BY <1>1, PaymentsAssumption
       DEF IInv, TypeOK, Price, At, gateway, history, UnowedIsUntouched, Untouched,
           Repaying
  <2>3. (EarlyRow /\ PayRow)'
    BY <1>1, PaymentsAssumption
       DEF IInv, TypeOK, Price, At, gateway, history, EarlyRow, Early, PayRow
  <2>4. OneSettlement'
    BY <1>1, PaymentsAssumption
       DEF IInv, TypeOK, Price, At, gateway, history, OneSettlement, Whole
  <2>5. PartOwedOnce'
    BY <1>1, PaymentsAssumption
       DEF IInv, TypeOK, Price, At, gateway, history, PartOwedOnce, Repaying
  <2>6. (LedgerIsPaid /\ DebtTracked)'
    BY <1>1, PaymentsAssumption
       DEF IInv, TypeOK, Price, At, gateway, history, LedgerIsPaid, DebtTracked
  <2> QED BY <2>1, <2>2, <2>3, <2>4, <2>5, <2>6 DEF IInv
<1>2. ASSUME At(i, "idle"), row = "confirmed", row' = "settled", refund # 0,
             h' = [h EXCEPT ![i] = [pc |-> "pick", order |-> None, amount |-> refund]],
             UNCHANGED <<ledger, pay, retry, gateway, acked, sweep, history>>
      PROVE  IInv'
  <2>1. (TypeOK /\ Slots /\ OneHandler)'
    BY <1>2, PaymentsAssumption
       DEF IInv, TypeOK, Price, At, gateway, history, Slots, Early, Repaying, OneHandler
  <2>2. UnowedIsUntouched'
    BY <1>2, PaymentsAssumption
       DEF IInv, TypeOK, Price, At, gateway, history, UnowedIsUntouched, Untouched,
           Repaying
  <2>3. (EarlyRow /\ PayRow)'
    BY <1>2, PaymentsAssumption
       DEF IInv, TypeOK, Price, At, gateway, history, EarlyRow, Early, PayRow
  <2>4. OneSettlement'
    BY <1>2, PaymentsAssumption
       DEF IInv, TypeOK, Price, At, gateway, history, OneSettlement, Whole
  <2>5. PartOwedOnce'
    BY <1>2, PaymentsAssumption
       DEF IInv, TypeOK, Price, At, gateway, history, PartOwedOnce, Repaying
  <2>6. (LedgerIsPaid /\ DebtTracked)'
    BY <1>2, PaymentsAssumption
       DEF IInv, TypeOK, Price, At, gateway, history, LedgerIsPaid, DebtTracked, Slots,
           Early, Repaying
  <2> QED BY <2>1, <2>2, <2>3, <2>4, <2>5, <2>6 DEF IInv
<1> QED BY <1>1, <1>2 DEF Settle, Starts

(* The payments row is there before the order can be paid.                 *)
LEMMA ConfirmInsertStep ==
    ASSUME IInv, NEW i \in Handlers, ConfirmInsert(i)
    PROVE  IInv'
<1>1. (TypeOK /\ Slots /\ OneHandler)'
  BY DEF IInv, ConfirmInsert, At, Finish, gateway, history, Free, TypeOK, Price, Slots,
         Early, Repaying, OneHandler
<1>2. UnowedIsUntouched'
  BY PaymentsAssumption
     DEF IInv, ConfirmInsert, Finish, gateway, history, Free, TypeOK, UnowedIsUntouched,
         Untouched
<1>3. (EarlyRow /\ PayRow)'
  BY PaymentsAssumption
     DEF IInv, ConfirmInsert, At, Finish, gateway, history, Free, TypeOK, EarlyRow, Early,
         PayRow, OneHandler
<1>4. OneSettlement'
  BY DEF IInv, ConfirmInsert, At, Finish, history, Free, TypeOK, OneSettlement, Whole
<1>5. PartOwedOnce'
  BY PaymentsAssumption
     DEF IInv, ConfirmInsert, Finish, gateway, history, Free, TypeOK, PartOwedOnce
<1>6. (LedgerIsPaid /\ DebtTracked)'
  BY DEF IInv, ConfirmInsert, Finish, gateway, history, Free, TypeOK, LedgerIsPaid,
         DebtTracked, OneSettlement, Whole
<1> QED BY <1>1, <1>2, <1>3, <1>4, <1>5, <1>6 DEF IInv

(* An order that fails its signature is left to a person.                  *)
LEMMA VerifyRejectStep ==
    ASSUME IInv, NEW i \in Handlers, VerifyReject(i)
    PROVE  IInv'
<1>1. (TypeOK /\ Slots /\ OneHandler)'
  BY DEF IInv, VerifyReject, At, Finish, gateway, Free, TypeOK, Price, Slots, Early,
         Repaying, OneHandler
<1>2. UnowedIsUntouched'
  BY PaymentsAssumption
     DEF IInv, VerifyReject, Finish, gateway, Free, TypeOK, UnowedIsUntouched, Untouched
<1>3. (EarlyRow /\ PayRow)'
  BY PaymentsAssumption
     DEF IInv, VerifyReject, Finish, gateway, Free, TypeOK, EarlyRow, Early, PayRow,
         OneHandler
<1>4. OneSettlement'
  BY DEF IInv, VerifyReject, At, Finish, Free, TypeOK, OneSettlement, Whole
<1>5. PartOwedOnce'
  BY PaymentsAssumption
     DEF IInv, VerifyReject, Finish, gateway, Free, TypeOK, PartOwedOnce
<1>6. (LedgerIsPaid /\ DebtTracked)'
  BY PaymentsAssumption
     DEF IInv, VerifyReject, At, Finish, gateway, Free, TypeOK, Price, LedgerIsPaid,
         DebtTracked, OneSettlement, Whole
<1> QED BY <1>1, <1>2, <1>3, <1>4, <1>5, <1>6 DEF IInv

(* Only what is paid is marked captured.                                   *)
LEMMA MarkStep ==
    ASSUME IInv, NEW i \in Handlers, Mark(i)
    PROVE  IInv'
<1>1. (TypeOK /\ Slots /\ OneHandler)'
  BY PaymentsAssumption
     DEF IInv, Mark, At, Go, SignedByGateway, gateway, history, TypeOK, Price, Slots,
         Early, Repaying, OneHandler
<1>2. UnowedIsUntouched'
  BY PaymentsAssumption
     DEF IInv, Mark, At, Go, SignedByGateway, gateway, history, TypeOK, Price,
         UnowedIsUntouched, Untouched, Repaying
<1>3. (EarlyRow /\ PayRow)'
  BY PaymentsAssumption
     DEF IInv, Mark, At, Go, SignedByGateway, gateway, history, TypeOK, Price, EarlyRow,
         Early, PayRow, OneHandler
<1>4. OneSettlement'
  BY PaymentsAssumption
     DEF IInv, Mark, At, Go, SignedByGateway, gateway, history, TypeOK, Price,
         OneSettlement, Whole
<1>5. PartOwedOnce'
  BY PaymentsAssumption
     DEF IInv, Mark, At, Go, SignedByGateway, gateway, history, TypeOK, Price,
         PartOwedOnce, Repaying
<1>6. (LedgerIsPaid /\ DebtTracked)'
  BY PaymentsAssumption
     DEF IInv, Mark, At, Go, SignedByGateway, gateway, history, TypeOK, Price,
         LedgerIsPaid, DebtTracked
<1> QED BY <1>1, <1>2, <1>3, <1>4, <1>5, <1>6 DEF IInv

(* The webhook goes on to the node, or leaves the payment to a person.     *)
LEMMA WebhookLookStep ==
    ASSUME IInv, NEW i \in Handlers, WebhookLook(i)
    PROVE  IInv'
<1>1. ASSUME At(i, "look"), row = "held", Go(i, "commit"),
             UNCHANGED <<stranded, db, gateway, acked, sweep, owed, shared, blurred>>
      PROVE  IInv'
  <2>1. (TypeOK /\ Slots /\ OneHandler)'
    BY <1>1, PaymentsAssumption
       DEF IInv, TypeOK, Price, At, Go, db, gateway, Slots, Early, Repaying, OneHandler
  <2>2. UnowedIsUntouched'
    BY <1>1, PaymentsAssumption
       DEF IInv, TypeOK, Price, At, Go, db, gateway, UnowedIsUntouched, Untouched,
           Repaying
  <2>3. (EarlyRow /\ PayRow)'
    BY <1>1, PaymentsAssumption
       DEF IInv, TypeOK, Price, At, Go, db, gateway, EarlyRow, Early, PayRow
  <2>4. OneSettlement'
    BY <1>1, PaymentsAssumption
       DEF IInv, TypeOK, Price, At, Go, db, gateway, OneSettlement, Whole
  <2>5. PartOwedOnce'
    BY <1>1, PaymentsAssumption
       DEF IInv, TypeOK, Price, At, Go, db, gateway, PartOwedOnce, Repaying
  <2>6. (LedgerIsPaid /\ DebtTracked)'
    BY <1>1, PaymentsAssumption
       DEF IInv, TypeOK, Price, At, Go, db, gateway, LedgerIsPaid, DebtTracked
  <2> QED BY <2>1, <2>2, <2>3, <2>4, <2>5, <2>6 DEF IInv
<1>2. ASSUME At(i, "look"), Finish(i), stranded' = stranded \cup {h[i].order},
             UNCHANGED <<db, gateway, acked, sweep, owed, shared, blurred>>
      PROVE  IInv'
  <2>1. (TypeOK /\ Slots /\ OneHandler)'
    BY <1>2, PaymentsAssumption
       DEF IInv, TypeOK, Price, At, Finish, Free, db, gateway, Slots, Early, Repaying,
           OneHandler
  <2>2. UnowedIsUntouched'
    BY <1>2, PaymentsAssumption
       DEF IInv, TypeOK, Price, At, Finish, Free, db, gateway, UnowedIsUntouched,
           Untouched, Repaying
  <2>3. (EarlyRow /\ PayRow)'
    BY <1>2, PaymentsAssumption
       DEF IInv, TypeOK, Price, At, Finish, Free, db, gateway, EarlyRow, Early, PayRow
  <2>4. OneSettlement'
    BY <1>2, PaymentsAssumption
       DEF IInv, TypeOK, Price, At, Finish, Free, db, gateway, OneSettlement, Whole
  <2>5. PartOwedOnce'
    BY <1>2, PaymentsAssumption
       DEF IInv, TypeOK, Price, At, Finish, Free, db, gateway, PartOwedOnce, Repaying
  <2>6. (LedgerIsPaid /\ DebtTracked)'
    BY <1>2, PaymentsAssumption
       DEF IInv, TypeOK, Price, At, Finish, Free, db, gateway, LedgerIsPaid, DebtTracked,
           OneSettlement, Whole
  <2> QED BY <2>1, <2>2, <2>3, <2>4, <2>5, <2>6 DEF IInv
<1> QED BY <1>1, <1>2 DEF WebhookLook

(* The node answers one handler.                                           *)
LEMMA NodeCommitsStep ==
    ASSUME IInv, NEW i \in Handlers, NodeCommits(i)
    PROVE  IInv'
<1>1. (TypeOK /\ Slots /\ OneHandler)'
  BY PaymentsAssumption
     DEF IInv, NodeCommits, At, Go, db, gateway, history, TypeOK, Price, Slots, Early,
         Repaying, OneHandler
<1>2. UnowedIsUntouched'
  BY PaymentsAssumption
     DEF IInv, NodeCommits, At, Go, db, gateway, history, TypeOK, Price,
         UnowedIsUntouched, Untouched, Repaying
<1>3. (EarlyRow /\ PayRow)'
  BY PaymentsAssumption
     DEF IInv, NodeCommits, At, Go, db, gateway, history, TypeOK, Price, EarlyRow, Early,
         PayRow
<1>4. OneSettlement'
  BY PaymentsAssumption
     DEF IInv, NodeCommits, At, Go, db, gateway, history, TypeOK, Price, OneSettlement,
         Whole
<1>5. PartOwedOnce'
  BY PaymentsAssumption
     DEF IInv, NodeCommits, At, Go, db, gateway, history, TypeOK, Price, PartOwedOnce,
         Repaying
<1>6. (LedgerIsPaid /\ DebtTracked)'
  BY PaymentsAssumption
     DEF IInv, NodeCommits, At, Go, db, gateway, history, TypeOK, Price, LedgerIsPaid,
         DebtTracked
<1> QED BY <1>1, <1>2, <1>3, <1>4, <1>5, <1>6 DEF IInv

(* A refusal strands the payment.                                          *)
LEMMA NodeRefusesStep ==
    ASSUME IInv, NEW i \in Handlers, NodeRefuses(i)
    PROVE  IInv'
<1>1. (TypeOK /\ Slots /\ OneHandler)'
  BY PaymentsAssumption
     DEF IInv, NodeRefuses, At, Finish, db, gateway, Free, TypeOK, Price, Slots, Early,
         Repaying, OneHandler
<1>2. UnowedIsUntouched'
  BY PaymentsAssumption
     DEF IInv, NodeRefuses, At, Finish, db, gateway, Free, TypeOK, Price,
         UnowedIsUntouched, Untouched, Repaying
<1>3. (EarlyRow /\ PayRow)'
  BY PaymentsAssumption
     DEF IInv, NodeRefuses, At, Finish, db, gateway, Free, TypeOK, Price, EarlyRow, Early,
         PayRow
<1>4. OneSettlement'
  BY PaymentsAssumption
     DEF IInv, NodeRefuses, At, Finish, db, gateway, Free, TypeOK, Price, OneSettlement,
         Whole
<1>5. PartOwedOnce'
  BY PaymentsAssumption
     DEF IInv, NodeRefuses, At, Finish, db, gateway, Free, TypeOK, Price, PartOwedOnce,
         Repaying
<1>6. (LedgerIsPaid /\ DebtTracked)'
  BY PaymentsAssumption
     DEF IInv, NodeRefuses, At, Finish, db, gateway, Free, TypeOK, Price, LedgerIsPaid,
         DebtTracked, OneSettlement, Whole
<1> QED BY <1>1, <1>2, <1>3, <1>4, <1>5, <1>6 DEF IInv

(* A whole price is owed when the node cannot be reached.                  *)
LEMMA NodeUnreachableStep ==
    ASSUME IInv, NEW i \in Handlers, NodeUnreachable(i)
    PROVE  IInv'
<1>1. (TypeOK /\ Slots /\ OneHandler)'
  BY PaymentsAssumption
     DEF IInv, NodeUnreachable, At, Owe, Price, gateway, TypeOK, Slots, Early, Repaying,
         OneHandler
<1>2. UnowedIsUntouched'
  BY PaymentsAssumption
     DEF IInv, NodeUnreachable, At, Owe, Price, gateway, TypeOK, UnowedIsUntouched,
         Untouched, Repaying
<1>3. (EarlyRow /\ PayRow)'
  BY PaymentsAssumption
     DEF IInv, NodeUnreachable, At, Owe, Price, gateway, TypeOK, EarlyRow, Early, PayRow,
         OneHandler
<1>4. OneSettlement'
  BY PaymentsAssumption
     DEF IInv, NodeUnreachable, At, Owe, Price, gateway, TypeOK, OneSettlement, Whole
<1>5. PartOwedOnce'
  BY PaymentsAssumption
     DEF IInv, NodeUnreachable, At, Owe, Price, gateway, TypeOK, PartOwedOnce, Repaying,
         EarlyRow, Early
<1>6. (LedgerIsPaid /\ DebtTracked)'
  BY PaymentsAssumption
     DEF IInv, NodeUnreachable, At, Owe, Price, gateway, TypeOK, LedgerIsPaid, DebtTracked
<1> QED BY <1>1, <1>2, <1>3, <1>4, <1>5, <1>6 DEF IInv

(* The first capture is the ledger's.                                      *)
LEMMA CaptureStep ==
    ASSUME IInv, NEW i \in Handlers, Capture(i)
    PROVE  IInv'
<1>1. (TypeOK /\ Slots /\ OneHandler)'
  BY PaymentsAssumption
     DEF IInv, Capture, At, Finish, gateway, history, Free, TypeOK, Price, Slots, Early,
         Repaying, OneHandler
<1>2. UnowedIsUntouched'
  BY PaymentsAssumption
     DEF IInv, Capture, At, Finish, gateway, history, Free, TypeOK, Price,
         UnowedIsUntouched, Untouched, Repaying
<1>3. (EarlyRow /\ PayRow)'
  BY PaymentsAssumption
     DEF IInv, Capture, At, Finish, gateway, history, Free, TypeOK, Price, EarlyRow,
         Early, PayRow
<1>4. OneSettlement'
  BY PaymentsAssumption
     DEF IInv, Capture, At, Finish, gateway, history, Free, TypeOK, Price, OneSettlement,
         Whole, EarlyRow, Early
<1>5. PartOwedOnce'
  BY PaymentsAssumption
     DEF IInv, Capture, At, Finish, gateway, history, Free, TypeOK, Price, PartOwedOnce,
         Repaying
<1>6. (LedgerIsPaid /\ DebtTracked)'
  BY PaymentsAssumption
     DEF IInv, Capture, At, Finish, gateway, history, Free, TypeOK, Price, LedgerIsPaid,
         DebtTracked, OneHandler, EarlyRow, Early
<1> QED BY <1>1, <1>2, <1>3, <1>4, <1>5, <1>6 DEF IInv

(* A second capture owes its price back.                                   *)
LEMMA CaptureClashStep ==
    ASSUME IInv, NEW i \in Handlers, CaptureClash(i)
    PROVE  IInv'
<1>1. (TypeOK /\ Slots /\ OneHandler)'
  BY PaymentsAssumption
     DEF IInv, CaptureClash, At, Owe, Price, db, gateway, TypeOK, Slots, Early, Repaying,
         OneHandler
<1>2. UnowedIsUntouched'
  BY PaymentsAssumption
     DEF IInv, CaptureClash, At, Owe, Price, db, gateway, TypeOK, UnowedIsUntouched,
         Untouched, Repaying
<1>3. (EarlyRow /\ PayRow)'
  BY PaymentsAssumption
     DEF IInv, CaptureClash, At, Owe, Price, db, gateway, TypeOK, EarlyRow, Early, PayRow,
         OneHandler
<1>4. OneSettlement'
  BY PaymentsAssumption
     DEF IInv, CaptureClash, At, Owe, Price, db, gateway, TypeOK, OneSettlement, Whole
<1>5. PartOwedOnce'
  BY PaymentsAssumption
     DEF IInv, CaptureClash, At, Owe, Price, db, gateway, TypeOK, PartOwedOnce, Repaying,
         EarlyRow, Early
<1>6. (LedgerIsPaid /\ DebtTracked)'
  BY PaymentsAssumption
     DEF IInv, CaptureClash, At, Owe, Price, db, gateway, TypeOK, LedgerIsPaid,
         DebtTracked
<1> QED BY <1>1, <1>2, <1>3, <1>4, <1>5, <1>6 DEF IInv

(* Any other error strands the payment.                                    *)
LEMMA CaptureThrowsStep ==
    ASSUME IInv, NEW i \in Handlers, CaptureThrows(i)
    PROVE  IInv'
<1>1. (TypeOK /\ Slots /\ OneHandler)'
  BY PaymentsAssumption
     DEF IInv, CaptureThrows, At, Finish, db, gateway, Free, TypeOK, Price, Slots, Early,
         Repaying, OneHandler
<1>2. UnowedIsUntouched'
  BY PaymentsAssumption
     DEF IInv, CaptureThrows, At, Finish, db, gateway, Free, TypeOK, Price,
         UnowedIsUntouched, Untouched, Repaying
<1>3. (EarlyRow /\ PayRow)'
  BY PaymentsAssumption
     DEF IInv, CaptureThrows, At, Finish, db, gateway, Free, TypeOK, Price, EarlyRow,
         Early, PayRow
<1>4. OneSettlement'
  BY PaymentsAssumption
     DEF IInv, CaptureThrows, At, Finish, db, gateway, Free, TypeOK, Price, OneSettlement,
         Whole
<1>5. PartOwedOnce'
  BY PaymentsAssumption
     DEF IInv, CaptureThrows, At, Finish, db, gateway, Free, TypeOK, Price, PartOwedOnce,
         Repaying
<1>6. (LedgerIsPaid /\ DebtTracked)'
  BY PaymentsAssumption
     DEF IInv, CaptureThrows, At, Finish, db, gateway, Free, TypeOK, Price, LedgerIsPaid,
         DebtTracked, OneSettlement, Whole
<1> QED BY <1>1, <1>2, <1>3, <1>4, <1>5, <1>6 DEF IInv

(* The refund of a settlement goes to one captured payment.                *)
LEMMA SettlePickStep ==
    ASSUME IInv, NEW i \in Handlers, SettlePick(i)
    PROVE  IInv'
<1>1. ASSUME At(i, "pick"), Finish(i),
             UNCHANGED <<owed, shared, db, gateway, acked, sweep, stranded, blurred>>
      PROVE  IInv'
  <2>1. (TypeOK /\ Slots /\ OneHandler)'
    BY <1>1, PaymentsAssumption
       DEF IInv, TypeOK, Price, At, Finish, Free, db, gateway, Slots, Early, Repaying,
           OneHandler
  <2>2. UnowedIsUntouched'
    BY <1>1, PaymentsAssumption
       DEF IInv, TypeOK, Price, At, Finish, Free, db, gateway, UnowedIsUntouched,
           Untouched, Repaying
  <2>3. (EarlyRow /\ PayRow)'
    BY <1>1, PaymentsAssumption
       DEF IInv, TypeOK, Price, At, Finish, Free, db, gateway, EarlyRow, Early, PayRow
  <2>4. OneSettlement'
    BY <1>1, PaymentsAssumption
       DEF IInv, TypeOK, Price, At, Finish, Free, db, gateway, OneSettlement, Whole
  <2>5. PartOwedOnce'
    BY <1>1, PaymentsAssumption
       DEF IInv, TypeOK, Price, At, Finish, Free, db, gateway, PartOwedOnce, Repaying
  <2>6. (LedgerIsPaid /\ DebtTracked)'
    BY <1>1, PaymentsAssumption
       DEF IInv, TypeOK, Price, At, Finish, Free, db, gateway, LedgerIsPaid, DebtTracked,
           Slots, Early, Repaying
  <2> QED BY <2>1, <2>2, <2>3, <2>4, <2>5, <2>6 DEF IInv
<1>2. ASSUME At(i, "pick"), NEW o \in Orders, pay[o] = "captured",
             Owe(i, o, h[i].amount), Share(o),
             UNCHANGED <<db, gateway, acked, sweep, stranded, blurred>>
      PROVE  IInv'
  <2>1. (TypeOK /\ Slots /\ OneHandler)'
    BY <1>2, PaymentsAssumption
       DEF IInv, TypeOK, Price, At, Owe, Share, db, gateway, Slots, Early, Repaying,
           OneHandler
  <2>2. UnowedIsUntouched'
    BY <1>2, PaymentsAssumption
       DEF IInv, TypeOK, Price, At, Owe, Share, db, gateway, UnowedIsUntouched, Untouched,
           Repaying, Slots, Early
  <2>3. (EarlyRow /\ PayRow)'
    BY <1>2, PaymentsAssumption
       DEF IInv, TypeOK, Price, At, Owe, Share, db, gateway, EarlyRow, Early, PayRow
  <2>4. OneSettlement'
    BY <1>2, PaymentsAssumption
       DEF IInv, TypeOK, Price, At, Owe, Share, db, gateway, OneSettlement, Whole
  <2>5. PartOwedOnce'
    BY <1>2, PaymentsAssumption
       DEF IInv, TypeOK, Price, At, Owe, Share, db, gateway, PartOwedOnce, Repaying,
           UnowedIsUntouched, Untouched, OneSettlement, Whole
  <2>6. (LedgerIsPaid /\ DebtTracked)'
    BY <1>2, PaymentsAssumption
       DEF IInv, TypeOK, Price, At, Owe, Share, db, gateway, LedgerIsPaid, DebtTracked,
           Slots, Early, Repaying, OneSettlement, Whole
  <2> QED BY <2>1, <2>2, <2>3, <2>4, <2>5, <2>6 DEF IInv
<1> QED BY <1>1, <1>2 DEF SettlePick

(* The gateway returns the amount, and its answer may be lost.             *)
LEMMA RefundStep ==
    ASSUME IInv, NEW i \in Handlers, Refund(i)
    PROVE  IInv'
<1>1. ASSUME At(i, "refund"), GatewayReturns(h[i].order, h[i].amount),
             Go(i, "record"),
             UNCHANGED <<blurred, db, acked, sweep, owed, shared, stranded>>
      PROVE  IInv'
  <2>1. (TypeOK /\ Slots /\ OneHandler)'
    BY <1>1, PaymentsAssumption
       DEF IInv, TypeOK, Price, At, Go, GatewayReturns, db, Slots, Early, Repaying,
           OneHandler
  <2>2. UnowedIsUntouched'
    BY <1>1, PaymentsAssumption
       DEF IInv, TypeOK, Price, At, Go, GatewayReturns, db, UnowedIsUntouched, Untouched,
           Repaying
  <2>3. (EarlyRow /\ PayRow)'
    BY <1>1, PaymentsAssumption
       DEF IInv, TypeOK, Price, At, Go, GatewayReturns, db, EarlyRow, Early, PayRow
  <2>4. OneSettlement'
    BY <1>1, PaymentsAssumption
       DEF IInv, TypeOK, Price, At, Go, GatewayReturns, db, OneSettlement, Whole
  <2>5. PartOwedOnce'
    BY <1>1, PaymentsAssumption
       DEF IInv, TypeOK, Price, At, Go, GatewayReturns, db, PartOwedOnce, Repaying,
           OneHandler
  <2>6. (LedgerIsPaid /\ DebtTracked)'
    BY <1>1, PaymentsAssumption
       DEF IInv, TypeOK, Price, At, Go, GatewayReturns, db, LedgerIsPaid, DebtTracked
  <2> QED BY <2>1, <2>2, <2>3, <2>4, <2>5, <2>6 DEF IInv
<1>2. ASSUME At(i, "refund"), GatewayReturns(h[i].order, h[i].amount),
             Go(i, "queue"), blurred' = blurred \cup {h[i].order},
             UNCHANGED <<db, acked, sweep, owed, shared, stranded>>
      PROVE  IInv'
  <2>1. (TypeOK /\ Slots /\ OneHandler)'
    BY <1>2, PaymentsAssumption
       DEF IInv, TypeOK, Price, At, Go, GatewayReturns, db, Slots, Early, Repaying,
           OneHandler
  <2>2. UnowedIsUntouched'
    BY <1>2, PaymentsAssumption
       DEF IInv, TypeOK, Price, At, Go, GatewayReturns, db, UnowedIsUntouched, Untouched,
           Repaying
  <2>3. (EarlyRow /\ PayRow)'
    BY <1>2, PaymentsAssumption
       DEF IInv, TypeOK, Price, At, Go, GatewayReturns, db, EarlyRow, Early, PayRow
  <2>4. OneSettlement'
    BY <1>2, PaymentsAssumption
       DEF IInv, TypeOK, Price, At, Go, GatewayReturns, db, OneSettlement, Whole
  <2>5. PartOwedOnce'
    BY <1>2, PaymentsAssumption
       DEF IInv, TypeOK, Price, At, Go, GatewayReturns, db, PartOwedOnce, Repaying
  <2>6. (LedgerIsPaid /\ DebtTracked)'
    BY <1>2, PaymentsAssumption
       DEF IInv, TypeOK, Price, At, Go, GatewayReturns, db, LedgerIsPaid, DebtTracked
  <2> QED BY <2>1, <2>2, <2>3, <2>4, <2>5, <2>6 DEF IInv
<1>3. ASSUME At(i, "refund"), Go(i, "queue"),
             UNCHANGED <<gateway, blurred, db, acked, sweep, owed, shared, stranded>>
      PROVE  IInv'
  <2>1. (TypeOK /\ Slots /\ OneHandler)'
    BY <1>3, PaymentsAssumption
       DEF IInv, TypeOK, Price, At, Go, db, gateway, Slots, Early, Repaying, OneHandler
  <2>2. UnowedIsUntouched'
    BY <1>3, PaymentsAssumption
       DEF IInv, TypeOK, Price, At, Go, db, gateway, UnowedIsUntouched, Untouched,
           Repaying
  <2>3. (EarlyRow /\ PayRow)'
    BY <1>3, PaymentsAssumption
       DEF IInv, TypeOK, Price, At, Go, db, gateway, EarlyRow, Early, PayRow
  <2>4. OneSettlement'
    BY <1>3, PaymentsAssumption
       DEF IInv, TypeOK, Price, At, Go, db, gateway, OneSettlement, Whole
  <2>5. PartOwedOnce'
    BY <1>3, PaymentsAssumption
       DEF IInv, TypeOK, Price, At, Go, db, gateway, PartOwedOnce, Repaying
  <2>6. (LedgerIsPaid /\ DebtTracked)'
    BY <1>3, PaymentsAssumption
       DEF IInv, TypeOK, Price, At, Go, db, gateway, LedgerIsPaid, DebtTracked
  <2> QED BY <2>1, <2>2, <2>3, <2>4, <2>5, <2>6 DEF IInv
<1> QED BY <1>1, <1>2, <1>3 DEF Refund

(* The handler records what came back.                                     *)
LEMMA RecordStep ==
    ASSUME IInv, NEW i \in Handlers, Record(i)
    PROVE  IInv'
<1>1. (TypeOK /\ Slots /\ OneHandler)'
  BY PaymentsAssumption
     DEF IInv, Record, At, Finish, gateway, history, Free, TypeOK, Price, Slots, Early,
         Repaying, OneHandler
<1>2. UnowedIsUntouched'
  BY PaymentsAssumption
     DEF IInv, Record, At, Finish, gateway, history, Free, TypeOK, Price,
         UnowedIsUntouched, Untouched, Repaying
<1>3. (EarlyRow /\ PayRow)'
  BY PaymentsAssumption
     DEF IInv, Record, At, Finish, gateway, history, Free, TypeOK, Price, EarlyRow, Early,
         PayRow, UnowedIsUntouched, Untouched, Repaying
<1>4. OneSettlement'
  BY PaymentsAssumption
     DEF IInv, Record, At, Finish, gateway, history, Free, TypeOK, Price, OneSettlement,
         Whole
<1>5. PartOwedOnce'
  BY PaymentsAssumption
     DEF IInv, Record, At, Finish, gateway, history, Free, TypeOK, Price, PartOwedOnce,
         Repaying
<1>6. (LedgerIsPaid /\ DebtTracked)'
  BY PaymentsAssumption
     DEF IInv, Record, At, Finish, gateway, history, Free, TypeOK, Price, LedgerIsPaid,
         DebtTracked, OneSettlement, Whole
<1> QED BY <1>1, <1>2, <1>3, <1>4, <1>5, <1>6 DEF IInv

(* Or fails to, and nobody knows whether the money went back.              *)
LEMMA RecordFailsStep ==
    ASSUME IInv, NEW i \in Handlers, RecordFails(i)
    PROVE  IInv'
<1>1. (TypeOK /\ Slots /\ OneHandler)'
  BY PaymentsAssumption
     DEF IInv, RecordFails, At, Go, db, gateway, TypeOK, Price, Slots, Early, Repaying,
         OneHandler
<1>2. UnowedIsUntouched'
  BY PaymentsAssumption
     DEF IInv, RecordFails, At, Go, db, gateway, TypeOK, Price, UnowedIsUntouched,
         Untouched, Repaying
<1>3. (EarlyRow /\ PayRow)'
  BY PaymentsAssumption
     DEF IInv, RecordFails, At, Go, db, gateway, TypeOK, Price, EarlyRow, Early, PayRow
<1>4. OneSettlement'
  BY PaymentsAssumption
     DEF IInv, RecordFails, At, Go, db, gateway, TypeOK, Price, OneSettlement, Whole
<1>5. PartOwedOnce'
  BY PaymentsAssumption
     DEF IInv, RecordFails, At, Go, db, gateway, TypeOK, Price, PartOwedOnce, Repaying
<1>6. (LedgerIsPaid /\ DebtTracked)'
  BY PaymentsAssumption
     DEF IInv, RecordFails, At, Go, db, gateway, TypeOK, Price, LedgerIsPaid, DebtTracked
<1> QED BY <1>1, <1>2, <1>3, <1>4, <1>5, <1>6 DEF IInv

(* What a handler could not return waits in the queue, under one row.      *)
LEMMA QueueStep ==
    ASSUME IInv, NEW i \in Handlers, Queue(i)
    PROVE  IInv'
<1>1. (TypeOK /\ Slots /\ OneHandler)'
  BY PaymentsAssumption
     DEF IInv, Queue, At, Finish, gateway, history, Free, TypeOK, Price, Slots, Early,
         Repaying, OneHandler
<1>2. UnowedIsUntouched'
  BY PaymentsAssumption
     DEF IInv, Queue, At, Finish, gateway, history, Free, TypeOK, Price,
         UnowedIsUntouched, Untouched, Repaying
<1>3. (EarlyRow /\ PayRow)'
  BY PaymentsAssumption
     DEF IInv, Queue, At, Finish, gateway, history, Free, TypeOK, Price, EarlyRow, Early,
         PayRow
<1>4. OneSettlement'
  BY PaymentsAssumption
     DEF IInv, Queue, At, Finish, gateway, history, Free, TypeOK, Price, OneSettlement,
         Whole
<1>5. PartOwedOnce'
  BY PaymentsAssumption
     DEF IInv, Queue, At, Finish, gateway, history, Free, TypeOK, Price, PartOwedOnce,
         Repaying, OneHandler
<1>6. (LedgerIsPaid /\ DebtTracked)'
  BY PaymentsAssumption
     DEF IInv, Queue, At, Finish, gateway, history, Free, TypeOK, Price, LedgerIsPaid,
         DebtTracked, OneSettlement, Whole
<1> QED BY <1>1, <1>2, <1>3, <1>4, <1>5, <1>6 DEF IInv

(* A sweep takes a row that nobody works on, or the order is blurred.      *)
LEMMA SweepReadStep ==
    ASSUME IInv, NEW s \in Sweeps, NEW o \in Orders, SweepRead(s, o)
    PROVE  IInv'
<1>1. (TypeOK /\ Slots /\ OneHandler)'
  BY PaymentsAssumption
     DEF IInv, SweepRead, db, gateway, TypeOK, Price, Slots, Early, Repaying, OneHandler
<1>2. UnowedIsUntouched'
  BY PaymentsAssumption
     DEF IInv, SweepRead, db, gateway, TypeOK, Price, UnowedIsUntouched, Untouched,
         Repaying
<1>3. (EarlyRow /\ PayRow)'
  BY PaymentsAssumption
     DEF IInv, SweepRead, db, gateway, TypeOK, Price, EarlyRow, Early, PayRow
<1>4. OneSettlement'
  BY PaymentsAssumption
     DEF IInv, SweepRead, db, gateway, TypeOK, Price, OneSettlement, At, Whole
<1>5. PartOwedOnce'
  BY PaymentsAssumption
     DEF IInv, SweepRead, Running, MayBegin, db, gateway, Begun, TypeOK, Price,
         PartOwedOnce, Repaying
<1>6. (LedgerIsPaid /\ DebtTracked)'
  BY PaymentsAssumption
     DEF IInv, SweepRead, db, gateway, TypeOK, Price, LedgerIsPaid, DebtTracked
<1> QED BY <1>1, <1>2, <1>3, <1>4, <1>5, <1>6 DEF IInv

(* It asks the gateway again.                                              *)
LEMMA SweepRefundStep ==
    ASSUME IInv, NEW s \in Sweeps, SweepRefund(s)
    PROVE  IInv'
<1>1. ASSUME sweep[s].pc = "refund",
             GatewayReturns(sweep[s].order, retry[sweep[s].order].amount),
             SweepGo(s, "record"),
             UNCHANGED <<blurred, db, acked, h, owed, shared, stranded>>
      PROVE  IInv'
  <2>1. (TypeOK /\ Slots /\ OneHandler)'
    BY <1>1, PaymentsAssumption, SMTT(60)
       DEF IInv, TypeOK, Price, SweepGo, GatewayReturns, db, Slots, Early, Repaying,
           OneHandler
  <2>2. UnowedIsUntouched'
    BY <1>1, PaymentsAssumption
       DEF IInv, TypeOK, Price, SweepGo, GatewayReturns, db, UnowedIsUntouched, Untouched,
           Repaying
  <2>3. (EarlyRow /\ PayRow)'
    BY <1>1, PaymentsAssumption
       DEF IInv, TypeOK, Price, SweepGo, GatewayReturns, db, EarlyRow, Early, PayRow
  <2>4. OneSettlement'
    BY <1>1, PaymentsAssumption
       DEF IInv, TypeOK, Price, SweepGo, GatewayReturns, db, OneSettlement, At, Whole
  <2>5. PartOwedOnce'
    BY <1>1, PaymentsAssumption
       DEF IInv, TypeOK, Price, SweepGo, GatewayReturns, db, PartOwedOnce, Repaying
  <2>6. (LedgerIsPaid /\ DebtTracked)'
    BY <1>1, PaymentsAssumption
       DEF IInv, TypeOK, Price, SweepGo, GatewayReturns, db, LedgerIsPaid, DebtTracked
  <2> QED BY <2>1, <2>2, <2>3, <2>4, <2>5, <2>6 DEF IInv
<1>2. ASSUME sweep[s].pc = "refund",
             GatewayReturns(sweep[s].order, retry[sweep[s].order].amount),
             SweepGo(s, "failed"), blurred' = blurred \cup {sweep[s].order},
             UNCHANGED <<db, acked, h, owed, shared, stranded>>
      PROVE  IInv'
  <2>1. (TypeOK /\ Slots /\ OneHandler)'
    BY <1>2, PaymentsAssumption
       DEF IInv, TypeOK, Price, SweepGo, GatewayReturns, db, Slots, Early, Repaying,
           OneHandler
  <2>2. UnowedIsUntouched'
    BY <1>2, PaymentsAssumption
       DEF IInv, TypeOK, Price, SweepGo, GatewayReturns, db, UnowedIsUntouched, Untouched,
           Repaying
  <2>3. (EarlyRow /\ PayRow)'
    BY <1>2, PaymentsAssumption
       DEF IInv, TypeOK, Price, SweepGo, GatewayReturns, db, EarlyRow, Early, PayRow
  <2>4. OneSettlement'
    BY <1>2, PaymentsAssumption
       DEF IInv, TypeOK, Price, SweepGo, GatewayReturns, db, OneSettlement, At, Whole
  <2>5. PartOwedOnce'
    BY <1>2, PaymentsAssumption
       DEF IInv, TypeOK, Price, SweepGo, GatewayReturns, db, PartOwedOnce, Repaying
  <2>6. (LedgerIsPaid /\ DebtTracked)'
    BY <1>2, PaymentsAssumption
       DEF IInv, TypeOK, Price, SweepGo, GatewayReturns, db, LedgerIsPaid, DebtTracked
  <2> QED BY <2>1, <2>2, <2>3, <2>4, <2>5, <2>6 DEF IInv
<1>3. ASSUME sweep[s].pc = "refund", SweepGo(s, "failed"),
             UNCHANGED <<gateway, blurred, db, acked, h, owed, shared, stranded>>
      PROVE  IInv'
  <2>1. (TypeOK /\ Slots /\ OneHandler)'
    BY <1>3, PaymentsAssumption
       DEF IInv, TypeOK, Price, SweepGo, db, gateway, Slots, Early, Repaying, OneHandler
  <2>2. UnowedIsUntouched'
    BY <1>3, PaymentsAssumption
       DEF IInv, TypeOK, Price, SweepGo, db, gateway, UnowedIsUntouched, Untouched,
           Repaying
  <2>3. (EarlyRow /\ PayRow)'
    BY <1>3, PaymentsAssumption
       DEF IInv, TypeOK, Price, SweepGo, db, gateway, EarlyRow, Early, PayRow
  <2>4. OneSettlement'
    BY <1>3, PaymentsAssumption
       DEF IInv, TypeOK, Price, SweepGo, db, gateway, OneSettlement, At, Whole
  <2>5. PartOwedOnce'
    BY <1>3, PaymentsAssumption
       DEF IInv, TypeOK, Price, SweepGo, db, gateway, PartOwedOnce, Repaying
  <2>6. (LedgerIsPaid /\ DebtTracked)'
    BY <1>3, PaymentsAssumption
       DEF IInv, TypeOK, Price, SweepGo, db, gateway, LedgerIsPaid, DebtTracked
  <2> QED BY <2>1, <2>2, <2>3, <2>4, <2>5, <2>6 DEF IInv
<1> QED BY <1>1, <1>2, <1>3 DEF SweepRefund

(* A retry that succeeded is not tried again.                              *)
LEMMA SweepRecordStep ==
    ASSUME IInv, NEW s \in Sweeps, SweepRecord(s)
    PROVE  IInv'
<1>1. (TypeOK /\ Slots /\ OneHandler)'
  BY PaymentsAssumption
     DEF IInv, SweepRecord, SweepNext, Retried, gateway, history, Resting, TypeOK, Price,
         Slots, Early, Repaying, OneHandler
<1>2. UnowedIsUntouched'
  BY PaymentsAssumption
     DEF IInv, SweepRecord, SweepNext, Retried, gateway, history, Resting, TypeOK, Price,
         UnowedIsUntouched, Untouched, Repaying
<1>3. (EarlyRow /\ PayRow)'
  BY PaymentsAssumption
     DEF IInv, SweepRecord, SweepNext, Retried, gateway, history, Resting, TypeOK, Price,
         EarlyRow, Early, PayRow, UnowedIsUntouched, Untouched, Repaying
<1>4. OneSettlement'
  BY PaymentsAssumption
     DEF IInv, SweepRecord, SweepNext, Retried, gateway, history, Resting, TypeOK, Price,
         OneSettlement, At, Whole
<1>5. PartOwedOnce'
  BY PaymentsAssumption
     DEF IInv, SweepRecord, SweepNext, Retried, gateway, history, Resting, TypeOK, Price,
         PartOwedOnce, Repaying
<1>6. (LedgerIsPaid /\ DebtTracked)'
  BY PaymentsAssumption
     DEF IInv, SweepRecord, SweepNext, Retried, gateway, history, Resting, TypeOK, Price,
         LedgerIsPaid, DebtTracked, UnowedIsUntouched, Untouched, Repaying
<1> QED BY <1>1, <1>2, <1>3, <1>4, <1>5, <1>6 DEF IInv

(* A retry that could not be recorded is blurred.                          *)
LEMMA SweepRecordFailsStep ==
    ASSUME IInv, NEW s \in Sweeps, SweepRecordFails(s)
    PROVE  IInv'
<1>1. (TypeOK /\ Slots /\ OneHandler)'
  BY PaymentsAssumption, SMTT(40)
     DEF IInv, SweepRecordFails, SweepGo, gateway, TypeOK, Price, Slots, Early, Repaying,
         OneHandler
<1>2. UnowedIsUntouched'
  BY PaymentsAssumption
     DEF IInv, SweepRecordFails, SweepGo, gateway, TypeOK, Price, UnowedIsUntouched,
         Untouched, Repaying
<1>3. (EarlyRow /\ PayRow)'
  BY PaymentsAssumption
     DEF IInv, SweepRecordFails, SweepGo, gateway, TypeOK, Price, EarlyRow, Early, PayRow,
         Slots, Repaying, UnowedIsUntouched, Untouched
<1>4. OneSettlement'
  BY PaymentsAssumption
     DEF IInv, SweepRecordFails, SweepGo, gateway, TypeOK, Price, OneSettlement, At, Whole
<1>5. PartOwedOnce'
  BY PaymentsAssumption
     DEF IInv, SweepRecordFails, SweepGo, gateway, TypeOK, Price, PartOwedOnce, Repaying
<1>6. (LedgerIsPaid /\ DebtTracked)'
  BY PaymentsAssumption
     DEF IInv, SweepRecordFails, SweepGo, gateway, TypeOK, Price, LedgerIsPaid,
         DebtTracked, UnowedIsUntouched, Untouched, Repaying, OneSettlement, At, Whole
<1> QED BY <1>1, <1>2, <1>3, <1>4, <1>5, <1>6 DEF IInv

(* A retry that failed stays, or is exhausted.                             *)
LEMMA SweepFailStep ==
    ASSUME IInv, NEW s \in Sweeps, SweepFail(s)
    PROVE  IInv'
<1>1. (TypeOK /\ Slots /\ OneHandler)'
  BY PaymentsAssumption
     DEF IInv, SweepFail, SweepNext, Retried, gateway, history, Resting, TypeOK, Price,
         Slots, Early, Repaying, OneHandler
<1>2. UnowedIsUntouched'
  BY PaymentsAssumption
     DEF IInv, SweepFail, SweepNext, Retried, gateway, history, Resting, TypeOK, Price,
         UnowedIsUntouched, Untouched, Repaying
<1>3. (EarlyRow /\ PayRow)'
  BY PaymentsAssumption
     DEF IInv, SweepFail, SweepNext, Retried, gateway, history, Resting, TypeOK, Price,
         EarlyRow, Early, PayRow
<1>4. OneSettlement'
  BY PaymentsAssumption
     DEF IInv, SweepFail, SweepNext, Retried, gateway, history, Resting, TypeOK, Price,
         OneSettlement, At, Whole
<1>5. PartOwedOnce'
  BY PaymentsAssumption
     DEF IInv, SweepFail, SweepNext, Retried, gateway, history, Resting, TypeOK, Price,
         PartOwedOnce, Repaying
<1>6. (LedgerIsPaid /\ DebtTracked)'
  BY PaymentsAssumption
     DEF IInv, SweepFail, SweepNext, Retried, gateway, history, Resting, TypeOK, Price,
         LedgerIsPaid, DebtTracked
<1> QED BY <1>1, <1>2, <1>3, <1>4, <1>5, <1>6 DEF IInv

(* Money arrives for an order on record.                                   *)
LEMMA UserPaysStep ==
    ASSUME IInv, NEW o \in Orders, UserPays(o)
    PROVE  IInv'
<1>1. (TypeOK /\ Slots /\ OneHandler)'
  BY PaymentsAssumption
     DEF IInv, UserPays, db, history, TypeOK, Price, Slots, Early, Repaying, OneHandler
<1>2. UnowedIsUntouched'
  BY PaymentsAssumption
     DEF IInv, UserPays, db, history, TypeOK, Price, UnowedIsUntouched, Untouched,
         Repaying
<1>3. (EarlyRow /\ PayRow)'
  BY PaymentsAssumption
     DEF IInv, UserPays, db, history, TypeOK, Price, EarlyRow, Early, PayRow
<1>4. OneSettlement'
  BY PaymentsAssumption
     DEF IInv, UserPays, db, history, TypeOK, Price, OneSettlement, At, Whole
<1>5. PartOwedOnce'
  BY PaymentsAssumption
     DEF IInv, UserPays, db, history, TypeOK, Price, PartOwedOnce, Repaying
<1>6. (LedgerIsPaid /\ DebtTracked)'
  BY PaymentsAssumption
     DEF IInv, UserPays, db, history, TypeOK, Price, LedgerIsPaid, DebtTracked, PayRow
<1> QED BY <1>1, <1>2, <1>3, <1>4, <1>5, <1>6 DEF IInv

(* A hold expires under whoever works on it.                               *)
LEMMA HoldExpiresStep ==
    ASSUME IInv, HoldExpires
    PROVE  IInv'
<1>1. (TypeOK /\ Slots /\ OneHandler)'
  BY PaymentsAssumption
     DEF IInv, HoldExpires, gateway, history, TypeOK, Price, Slots, Early, Repaying,
         OneHandler
<1>2. UnowedIsUntouched'
  BY PaymentsAssumption
     DEF IInv, HoldExpires, gateway, history, TypeOK, Price, UnowedIsUntouched, Untouched,
         Repaying
<1>3. (EarlyRow /\ PayRow)'
  BY PaymentsAssumption
     DEF IInv, HoldExpires, gateway, history, TypeOK, Price, EarlyRow, Early, PayRow
<1>4. OneSettlement'
  BY PaymentsAssumption
     DEF IInv, HoldExpires, gateway, history, TypeOK, Price, OneSettlement, At, Whole
<1>5. PartOwedOnce'
  BY PaymentsAssumption
     DEF IInv, HoldExpires, gateway, history, TypeOK, Price, PartOwedOnce, Repaying
<1>6. (LedgerIsPaid /\ DebtTracked)'
  BY PaymentsAssumption
     DEF IInv, HoldExpires, gateway, history, TypeOK, Price, LedgerIsPaid, DebtTracked
<1> QED BY <1>1, <1>2, <1>3, <1>4, <1>5, <1>6 DEF IInv

(* A crash drops what handlers and sweeps were at, and the histories say   *)
(* so.                                                                     *)
LEMMA CrashStep ==
    ASSUME IInv, Crash
    PROVE  IInv'
<1>1. (TypeOK /\ Slots /\ OneHandler)'
  BY PaymentsAssumption
     DEF IInv, Crash, At, Free, Resting, db, gateway, TypeOK, Price, Slots, Early,
         Repaying, OneHandler
<1>2. UnowedIsUntouched'
  BY PaymentsAssumption
     DEF IInv, Crash, At, Free, Resting, db, gateway, TypeOK, Price, UnowedIsUntouched,
         Untouched, Repaying
<1>3. (EarlyRow /\ PayRow)'
  BY PaymentsAssumption
     DEF IInv, Crash, At, Free, Resting, db, gateway, TypeOK, Price, EarlyRow, Early,
         PayRow
<1>4. OneSettlement'
  BY PaymentsAssumption
     DEF IInv, Crash, At, Free, Resting, db, gateway, TypeOK, Price, OneSettlement, Whole
<1>5. PartOwedOnce'
  BY PaymentsAssumption
     DEF IInv, Crash, At, Free, Resting, db, gateway, TypeOK, Price, PartOwedOnce,
         Repaying
<1>6. (LedgerIsPaid /\ DebtTracked)'
  BY PaymentsAssumption
     DEF IInv, Crash, At, Free, Resting, db, gateway, TypeOK, Price, LedgerIsPaid,
         DebtTracked, Slots, Early, Repaying, EarlyRow, PayRow, OneSettlement, Whole
<1> QED BY <1>1, <1>2, <1>3, <1>4, <1>5, <1>6 DEF IInv

(* The initial state satisfies the inductive invariant: nothing is paid    *)
(* or owed and nobody is at work.                                          *)
LEMMA Start == Init => IInv
<1> SUFFICES ASSUME Init PROVE IInv
  OBVIOUS
<1> USE PaymentsAssumption
<1>1. TypeOK
  <2>1. /\ Free \in [pc : {"idle"}, order : {None}, amount : {0}]
        /\ Resting \in [pc : {"idle"}, order : {None}, attempts : {0}]
        /\ NoRetry \in [status : {None}, attempts : {0}, amount : {0}]
        /\ 0 \in 0..Price
    BY DEF Free, Resting, NoRetry, Price
  <2>2. /\ pay \in [Orders -> {None, "created", "captured", "failed", "refunded"}]
        /\ retry \in [Orders -> [status : {None, "pending", "succeeded", "exhausted"},
                                 attempts : Nat, amount : 0..Price]]
        /\ returned \in [Orders -> 0..Price] /\ owed \in [Orders -> 0..Price]
    BY <2>1 DEF Init
  <2>3. /\ h \in [Handlers -> [pc : {"idle", "order", "verify", "webhook", "look",
                                     "commit", "capture", "pick", "refund", "record",
                                     "queue"},
                               order : Orders \cup {None}, amount : 0..Price]]
        /\ sweep \in [Sweeps -> [pc : {"idle", "refund", "record", "failed"},
                                 order : Orders \cup {None}, attempts : Nat]]
    BY <2>1 DEF Init
  <2> QED BY <2>2, <2>3 DEF Init, TypeOK
<1>2. Slots /\ OneHandler /\ UnowedIsUntouched
  BY DEF Init, Slots, OneHandler, UnowedIsUntouched, Untouched, Free, Resting,
         NoRetry, Early, Repaying
<1>3. EarlyRow /\ PayRow
  BY DEF Init, EarlyRow, PayRow, Free, Early
<1>4. OneSettlement
  BY DEF Init, OneSettlement, Whole, At, Free
<1>5. PartOwedOnce
  BY DEF Init, PartOwedOnce, Free, Resting, NoRetry, Repaying
<1>6. LedgerIsPaid /\ DebtTracked
  BY DEF Init, LedgerIsPaid, DebtTracked
<1> QED BY <1>1, <1>2, <1>3, <1>4, <1>5, <1>6 DEF IInv

(* Every step keeps it.                                                    *)
LEMMA Step == IInv /\ [Next]_vars => IInv'
<1> SUFFICES ASSUME IInv, [Next]_vars PROVE IInv'
  OBVIOUS
<1>1. ASSUME NEW i \in Handlers, NEW o \in Orders,
             ConfirmRead(i, o) \/ VerifyRead(i, o) \/ WebhookRead(i, o)
      PROVE  IInv'
  BY <1>1, ConfirmReadStep, VerifyReadStep, WebhookReadStep
<1>2. ASSUME NEW i \in Handlers, NEW refund \in 0..Price, Settle(i, refund)
      PROVE  IInv'
  BY <1>2, SettleStep
<1>3. ASSUME NEW i \in Handlers, Finishing(i) PROVE IInv'
  <2>1. CASE ConfirmInsert(i) \/ VerifyReject(i) \/ Mark(i) \/ WebhookLook(i)
    BY <2>1, ConfirmInsertStep, VerifyRejectStep, MarkStep, WebhookLookStep
  <2>2. CASE NodeCommits(i) \/ NodeRefuses(i) \/ NodeUnreachable(i)
    BY <2>2, NodeCommitsStep, NodeRefusesStep, NodeUnreachableStep
  <2>3. CASE Capture(i) \/ CaptureClash(i) \/ CaptureThrows(i) \/ SettlePick(i)
    BY <2>3, CaptureStep, CaptureClashStep, CaptureThrowsStep, SettlePickStep
  <2>4. CASE Refund(i) \/ Record(i) \/ RecordFails(i) \/ Queue(i)
    BY <2>4, RefundStep, RecordStep, RecordFailsStep, QueueStep
  <2> QED BY <1>3, <2>1, <2>2, <2>3, <2>4 DEF Finishing
<1>4. ASSUME NEW s \in Sweeps, Sweeping(s) PROVE IInv'
  BY <1>4, SweepReadStep, SweepRefundStep, SweepRecordStep, SweepRecordFailsStep,
     SweepFailStep DEF Sweeping
<1>5. ASSUME NEW o \in Orders, UserPays(o) PROVE IInv'
  BY <1>5, UserPaysStep
<1>6. CASE HoldExpires \/ Crash
  BY <1>6, HoldExpiresStep, CrashStep
<1>7. CASE UNCHANGED vars
  <2>1. UNCHANGED <<row, ledger, pay, retry, paid, returned, acked, h, sweep,
                    owed, shared, stranded, blurred>>
    BY <1>7 DEF vars, db, gateway, history
  <2>2. (TypeOK /\ Slots /\ OneHandler /\ UnowedIsUntouched)'
    BY <2>1 DEF IInv, TypeOK, Slots, OneHandler, UnowedIsUntouched, Untouched
  <2>3. (EarlyRow /\ PayRow /\ OneSettlement)'
    BY <2>1 DEF IInv, EarlyRow, PayRow, OneSettlement, Whole, At
  <2>4. (PartOwedOnce /\ LedgerIsPaid /\ DebtTracked)'
    BY <2>1 DEF IInv, PartOwedOnce, LedgerIsPaid, DebtTracked
  <2> QED BY <2>2, <2>3, <2>4 DEF IInv
<1> QED BY <1>1, <1>2, <1>3, <1>4, <1>5, <1>6, <1>7 DEF Next

-----------------------------------------------------------------------------
(* The strengthening is an invariant.                                      *)
THEOREM InductiveInvariant == Spec => []IInv
<1>1. Init => IInv
  BY Start
<1>2. IInv /\ [Next]_vars => IInv'
  BY Step
<1> QED BY <1>1, <1>2, PTL DEF Spec

(* Every variable keeps its type: in particular no more is ever returned   *)
(* for an order than its price.                                            *)
THEOREM TypeCorrect == Spec => []TypeOK
<1>1. IInv => TypeOK
  BY DEF IInv
<1> QED BY <1>1, InductiveInvariant, PTL

(* Whatever is paid is delivered, returned, queued, in a handler's hands   *)
(* or left to a person, whichever handlers run and wherever they crash.    *)
THEOREM DebtIsTracked == Spec => []DebtTracked
<1>1. IInv => DebtTracked
  BY DEF IInv
<1> QED BY <1>1, InductiveInvariant, PTL

(* A refund is one debt: what the handler, the retry queue and any number  *)
(* of sweeps return for an order together is never more than what is owed, *)
(* while every answer of the gateway gets recorded.                        *)
THEOREM RefundedAtMostOnce == Spec => []RefundedOnce
<1>1. ASSUME IInv PROVE RefundedOnce
  <2>1. ASSUME NEW o \in Orders \ (blurred \cup shared) PROVE returned[o] <= owed[o]
    <3>1. CASE owed[o] # Price
      BY <1>1, <2>1, <3>1 DEF IInv, PartOwedOnce
    <3>2. CASE owed[o] = Price
      BY <1>1, <2>1, <3>2 DEF IInv, TypeOK, Price
    <3> QED BY <3>1, <3>2
  <2> QED BY <2>1 DEF RefundedOnce
<1> QED BY <1>1, InductiveInvariant, PTL

(* A confirmed reservation is paid for with money the gateway has kept.    *)
THEOREM DeliveredIsPaid == Spec => []DeliveredIsPaidUnlessShared
<1>1. ASSUME IInv PROVE DeliveredIsPaidUnlessShared
  <2> SUFFICES ASSUME row = "confirmed"
               PROVE  \E o \in paid : returned[o] = 0 \/ o \in shared
    BY DEF DeliveredIsPaidUnlessShared
  <2>1. ledger # None /\ ledger \in paid
    BY <1>1 DEF IInv, OneSettlement, LedgerIsPaid
  <2>2. ledger \in Orders
    BY <1>1, <2>1 DEF IInv, TypeOK
  <2>3. ledger \notin shared => returned[ledger] = 0
    BY <1>1, <2>2 DEF IInv, LedgerIsPaid, UnowedIsUntouched, Untouched
  <2> QED BY <2>1, <2>3
<1> QED BY <1>1, InductiveInvariant, PTL
=============================================================================
