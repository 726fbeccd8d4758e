-------------------------- MODULE NodeLedgerProofs --------------------------
(***************************************************************************)
(* Theorems about NodeLedger, for any set of ids, threads and windows and  *)
(* any hold TTL.  NoDoubleBooking and ReceiptHonoured are not inductive:   *)
(* the strengthening below adds that a clock sample is never ahead of the  *)
(* clock, that a row is written whole, and what a signed receipt says of   *)
(* the row it was issued for.                                              *)
(***************************************************************************)
EXTENDS NodeLedger, TLAPS

(* A call in progress carries its arguments and a `now` from the past.     *)
CallsSane ==
    \A t \in Threads :
        /\ call[t].now <= clock
        /\ call[t].op = "try_lock" => /\ call[t].id \in Ids
                                      /\ call[t].win \in Windows
        /\ call[t].op = "commit" => call[t].id \in Ids

(* A row has its window, and a held row its expiry.                        *)
RowsWhole ==
    \A id \in Ids : /\ status[id] # None => window[id] \in Windows
                    /\ status[id] = "held" => expires[id] \in Nat

(* What the ledger still knows of a receipt the node has signed.           *)
ReceiptKept(r) ==
    /\ status[r.id] # None
    /\ window[r.id] = r.win
    /\ status[r.id] = "held" => expires[r.id] = r.until
    /\ r.id \in yielded \/ r.until <= clock \/ IsLive(r.id)

ReceiptsKept == \A r \in receipts : ReceiptKept(r)

IInv == TypeOK /\ CallsSane /\ RowsWhole /\ ReceiptsKept /\ NoDoubleBooking

-----------------------------------------------------------------------------
(* A fresh database has no rows and no receipts.                           *)
LEMMA InitIInv == Init => IInv
BY LedgerAssumption
   DEF Init, IInv, TypeOK, CallsSane, RowsWhole, ReceiptsKept, NoDoubleBooking,
       Idle, Call, IsLive, Live, Status

(* Releasing stale holds keeps the rows' types and live rows live rows.    *)
LEMMA ExpiredFacts ==
    ASSUME TypeOK, NEW now \in Nat, NEW id \in Ids
    PROVE  /\ Expired(now) \in [Ids -> Status \cup {None}]
           /\ Expired(now)[id] = None <=> status[id] = None
           /\ Expired(now)[id] \in Live => IsLive(id)
           /\ Expired(now)[id] = "held" => status[id] = "held"
           /\ IsLive(id) => \/ Expired(now)[id] = status[id]
                            \/ status[id] = "held" /\ expires[id] <= now
BY LedgerAssumption DEF TypeOK, Expired, Stale, IsLive, Live, Status

(* try_lock's transaction: the new row overlaps no live row, because the   *)
(* overlap SELECT saw every one of them.                                   *)
LEMMA TryLockStep ==
    ASSUME IInv, NEW t \in Threads, TryLockGranted(t)
    PROVE  IInv'
<1> DEFINE c == call[t]
<1>1. /\ c \in Call /\ c.id \in Ids /\ c.win \in Windows
      /\ c.now \in Nat /\ c.now <= clock /\ c.now + HoldTTL \in Nat
      /\ c.win[1] \in Nat /\ c.win[2] \in Nat
  BY LedgerAssumption DEF IInv, TypeOK, CallsSane, Call, TryLockGranted
<1>2. /\ TypeOK /\ status[c.id] = None
      /\ status' = [Expired(c.now) EXCEPT ![c.id] = "held"]
      /\ window' = [window EXCEPT ![c.id] = c.win]
      /\ expires' = [expires EXCEPT ![c.id] = c.now + HoldTTL]
  BY DEF IInv, TryLockGranted
<1>3. TypeOK'
  <2>1. status' \in [Ids -> Status \cup {None}]
    BY <1>1, <1>2, ExpiredFacts DEF Status, Live
  <2>2. /\ window' \in [Ids -> Windows \cup {None}]
        /\ expires' \in [Ids -> Nat \cup {None}]
    BY <1>1, <1>2 DEF TypeOK
  <2>3. receipts' \subseteq Receipt
    BY <1>1 DEF IInv, TypeOK, TryLockGranted, Receipt
  <2>4. clock' \in Nat /\ call' \in [Threads -> Call] /\ yielded' \subseteq Ids
    BY DEF IInv, TypeOK, TryLockGranted, Return, Idle, Call
  <2> QED BY <2>1, <2>2, <2>3, <2>4 DEF TypeOK
<1>4. CallsSane'
  BY DEF IInv, TypeOK, CallsSane, TryLockGranted, Return, Idle
<1>5. \A id \in Ids : id # c.id =>
          /\ status'[id] = Expired(c.now)[id]
          /\ window'[id] = window[id] /\ expires'[id] = expires[id]
  BY <1>1, <1>2, ExpiredFacts DEF TypeOK
<1>6. /\ status'[c.id] = "held" /\ window'[c.id] = c.win
      /\ expires'[c.id] = c.now + HoldTTL
  BY <1>1, <1>2, ExpiredFacts DEF TypeOK
<1>7. RowsWhole'
  BY <1>1, <1>2, <1>5, <1>6, ExpiredFacts DEF IInv, RowsWhole
<1>8. ReceiptsKept'
  <2> SUFFICES ASSUME NEW r \in receipts' PROVE ReceiptKept(r)'
    BY DEF ReceiptsKept
  <2>1. CASE r \in receipts
    <3>1. ReceiptKept(r) /\ r.id \in Ids /\ r.until \in Nat
      BY <2>1 DEF IInv, ReceiptsKept, TypeOK, Receipt
    <3>2. r.id # c.id
      BY <3>1, <1>2 DEF ReceiptKept
    <3>3. clock' = clock /\ yielded' = yielded
      BY DEF TryLockGranted
    <3> QED BY <1>1, <1>2, <1>5, <3>1, <3>2, <3>3, ExpiredFacts, LedgerAssumption
            DEF ReceiptKept, IsLive, IInv, TypeOK
  <2>2. CASE r = [id |-> c.id, win |-> c.win, until |-> c.now + HoldTTL]
    BY <2>2, <1>6, LedgerAssumption DEF ReceiptKept, IsLive, Live, Status
  <2> QED BY <2>1, <2>2 DEF TryLockGranted
<1>9. NoDoubleBooking'
  <2> SUFFICES ASSUME NEW a \in Ids, NEW b \in Ids, a # b,
                      IsLive(a)', IsLive(b)'
               PROVE  ~Overlap(window'[a], window'[b])
    BY DEF NoDoubleBooking
  <2>0. \A id \in Ids : id # c.id /\ IsLive(id)' =>
            IsLive(id) /\ ~Overlap(window[id], c.win)
    BY <1>1, <1>2, <1>5, ExpiredFacts DEF IsLive, TryLockGranted, Free
  <2>1. CASE a # c.id /\ b # c.id
    BY <2>0, <2>1, <1>5 DEF IInv, NoDoubleBooking
  <2>2. CASE a = c.id
    BY <2>0, <2>2, <1>5, <1>6 DEF Overlap
  <2>3. CASE b = c.id
    BY <2>0, <2>3, <1>5, <1>6 DEF Overlap
  <2> QED BY <2>1, <2>2, <2>3
<1> QED BY <1>3, <1>4, <1>7, <1>8, <1>9 DEF IInv

(* Releasing stale holds, as the heartbeat does.                           *)
LEMMA LiveCountStep ==
    ASSUME IInv, NEW t \in Threads, LiveCount(t)
    PROVE  IInv'
<1> DEFINE now == call[t].now
<1>1. TypeOK /\ now \in Nat /\ now <= clock
  BY DEF IInv, TypeOK, CallsSane, Call
<1>2. /\ status' = Expired(now) /\ window' = window /\ expires' = expires
      /\ receipts' = receipts /\ yielded' = yielded /\ clock' = clock
  BY DEF LiveCount
<1>3. status' \in [Ids -> Status \cup {None}]
  <2>1. CASE Ids = {}
    BY <1>1, <1>2, <2>1 DEF Expired
  <2>2. CASE Ids # {}
    BY <1>1, <1>2, <2>2, ExpiredFacts
  <2> QED BY <2>1, <2>2
<1>4. CallsSane' /\ call' \in [Threads -> Call]
  BY DEF IInv, TypeOK, CallsSane, LiveCount, Return, Idle, Call
<1>5. TypeOK'
  BY <1>1, <1>2, <1>3, <1>4 DEF TypeOK
<1>6. RowsWhole'
  BY <1>1, <1>2, ExpiredFacts DEF IInv, RowsWhole
<1>7. ReceiptsKept'
  <2> SUFFICES ASSUME NEW r \in receipts PROVE ReceiptKept(r)'
    BY <1>2 DEF ReceiptsKept
  <2>1. ReceiptKept(r) /\ r.id \in Ids /\ r.until \in Nat
    BY DEF IInv, ReceiptsKept, TypeOK, Receipt
  <2> QED BY <1>1, <1>2, <2>1, ExpiredFacts
          DEF ReceiptKept, IsLive, IInv, TypeOK
<1>8. NoDoubleBooking'
  BY <1>1, <1>2, ExpiredFacts DEF IInv, NoDoubleBooking, IsLive
<1> QED BY <1>4, <1>5, <1>6, <1>7, <1>8 DEF IInv

(* commit only turns a fresh hold into a permanent one: no slot changes    *)
(* hands.                                                                  *)
LEMMA CommitStep ==
    ASSUME IInv, NEW t \in Threads, CommitAccepted(t)
    PROVE  IInv'
<1> DEFINE id == call[t].id
<1>1. id \in Ids /\ status[id] = "held" /\ IsLive(id)
  BY DEF IInv, CallsSane, CommitAccepted, Committable, IsLive, Live
<1>2. TypeOK' /\ CallsSane'
  BY <1>1 DEF IInv, TypeOK, CallsSane, CommitAccepted, Return, Idle, Call,
              Status, Live
<1>3. \A i \in Ids : /\ window'[i] = window[i]
                     /\ status'[i] = IF i = id THEN "confirmed" ELSE status[i]
                     /\ i # id => expires'[i] = expires[i]
                     /\ IsLive(i)' <=> IsLive(i)
  BY <1>1 DEF IInv, TypeOK, CommitAccepted, IsLive, Live
<1>4. RowsWhole' /\ NoDoubleBooking'
  BY <1>1, <1>3, LedgerAssumption
     DEF IInv, RowsWhole, NoDoubleBooking, Status, Live
<1>5. ReceiptsKept'
  BY <1>1, <1>3, LedgerAssumption
     DEF IInv, ReceiptsKept, ReceiptKept, TypeOK, Receipt, CommitAccepted,
         Status, Live
<1> QED BY <1>2, <1>4, <1>5 DEF IInv

(* release ends a claim, and its receipt with it.                          *)
LEMMA ReleaseStep ==
    ASSUME IInv, NEW id \in Ids, Release(id)
    PROVE  IInv'
<1>1. TypeOK' /\ CallsSane'
  BY DEF IInv, TypeOK, CallsSane, Release, Status
<1>2. \A i \in Ids : /\ window'[i] = window[i] /\ expires'[i] = expires[i]
                     /\ i # id => status'[i] = status[i]
                     /\ status'[id] = IF status[id] = None THEN None
                                                          ELSE "released"
  BY DEF IInv, TypeOK, Release
<1>3. RowsWhole' /\ NoDoubleBooking'
  BY <1>2, LedgerAssumption
     DEF IInv, RowsWhole, NoDoubleBooking, IsLive, Live, Status
<1>4. ReceiptsKept'
  BY <1>2, LedgerAssumption
     DEF IInv, ReceiptsKept, ReceiptKept, TypeOK, Receipt, Release, IsLive,
         Live, Status
<1> QED BY <1>1, <1>3, <1>4 DEF IInv

(* Steps that leave the table alone.                                       *)
LEMMA TableUnchangedStep ==
    ASSUME IInv, UNCHANGED <<table, receipts, yielded>>,
           clock' \in Nat, clock' >= clock,
           call' \in [Threads -> Call], CallsSane'
    PROVE  IInv'
<1>1. TypeOK' /\ RowsWhole' /\ NoDoubleBooking'
  BY DEF IInv, TypeOK, RowsWhole, NoDoubleBooking, table, IsLive
<1>2. ReceiptsKept'
  BY DEF IInv, ReceiptsKept, ReceiptKept, TypeOK, Receipt, table, IsLive
<1> QED BY <1>1, <1>2 DEF IInv

(* Every step of the ledger preserves the strengthening.                   *)
LEMMA NextIInv == IInv /\ [Next]_vars => IInv'
<1> SUFFICES ASSUME IInv, [Next]_vars PROVE IInv'
  OBVIOUS
<1> USE DEF IInv, TypeOK, CallsSane, table
<1>1. CASE Tick
  BY <1>1, TableUnchangedStep, LedgerAssumption DEF Tick, Call
<1>2. ASSUME NEW id \in Ids, Release(id) PROVE IInv'
  BY <1>2, ReleaseStep
<1>3. ASSUME NEW t \in Threads, NEW id \in Ids, NEW w \in Windows,
             CallTryLock(t, id, w)
      PROVE  IInv'
  BY <1>3, TableUnchangedStep DEF CallTryLock, Call
<1>4. ASSUME NEW t \in Threads, NEW id \in Ids, CallCommit(t, id) PROVE IInv'
  BY <1>4, TableUnchangedStep DEF CallCommit, Call
<1>5. ASSUME NEW t \in Threads, CallLiveCount(t) PROVE IInv'
  BY <1>5, TableUnchangedStep DEF CallLiveCount, Call
<1>6. ASSUME NEW t \in Threads, TryLockGranted(t) PROVE IInv'
  BY <1>6, TryLockStep
<1>7. ASSUME NEW t \in Threads, CommitAccepted(t) PROVE IInv'
  BY <1>7, CommitStep
<1>8. ASSUME NEW t \in Threads, LiveCount(t) PROVE IInv'
  BY <1>8, LiveCountStep
<1>9. ASSUME NEW t \in Threads, TryLockRefused(t) \/ CommitRefused(t) \/ Abort(t)
      PROVE  IInv'
  BY <1>9, TableUnchangedStep
     DEF TryLockRefused, CommitRefused, Abort, Return, Idle, Call
<1>10. CASE UNCHANGED vars
  BY <1>10, TableUnchangedStep DEF vars
<1> QED BY <1>1, <1>2, <1>3, <1>4, <1>5, <1>6, <1>7, <1>8, <1>9, <1>10 DEF Next
-----------------------------------------------------------------------------
(* The strengthening holds of every state the ledger can reach.            *)
THEOREM InductiveInvariant == Spec => []IInv
BY InitIInv, NextIInv, PTL DEF Spec

(* Every column and every signed receipt keeps its type.                   *)
THEOREM TypeCorrect == Spec => []TypeOK
<1>1. IInv => TypeOK
  BY DEF IInv
<1> QED BY <1>1, InductiveInvariant, PTL

(* However many threads race through try_lock, with however stale a clock, *)
(* the live rows of the ledger never overlap.                              *)
THEOREM NeverDoubleBooked == Spec => []NoDoubleBooking
<1>1. IInv => NoDoubleBooking
  BY DEF IInv
<1> QED BY <1>1, InductiveInvariant, PTL

(* Both promises about receipts follow from the strengthening.             *)
LEMMA ReceiptsFollow == IInv => ReceiptHonoured /\ PromisesDisjoint
<1> SUFFICES ASSUME IInv PROVE ReceiptHonoured /\ PromisesDisjoint
  OBVIOUS
<1>1. ReceiptHonoured
  BY DEF IInv, TypeOK, Receipt, ReceiptsKept, ReceiptKept, ReceiptHonoured
<1>2. PromisesDisjoint
  <2> SUFFICES ASSUME NEW r \in receipts, NEW s \in receipts, r.id # s.id,
                      clock < r.until, clock < s.until,
                      r.id \notin yielded, s.id \notin yielded
               PROVE  ~Overlap(r.win, s.win)
    BY DEF PromisesDisjoint
  <2>1. r.id \in Ids /\ s.id \in Ids
    BY DEF IInv, TypeOK, Receipt
  <2>2. /\ IsLive(r.id) /\ window[r.id] = r.win
        /\ IsLive(s.id) /\ window[s.id] = s.win
    BY <1>1 DEF ReceiptHonoured
  <2> QED BY <2>1, <2>2 DEF IInv, NoDoubleBooking
<1> QED BY <1>1, <1>2

(* A signed receipt holds the slot until its hold_expires_at, unless the   *)
(* platform itself releases it.                                            *)
THEOREM ReceiptsHonoured == Spec => []ReceiptHonoured
<1>1. IInv => ReceiptHonoured
  BY ReceiptsFollow
<1> QED BY <1>1, InductiveInvariant, PTL

(* Two unexpired receipts never promise the same hardware twice.           *)
THEOREM PromisesNeverOverlap == Spec => []PromisesDisjoint
<1>1. IInv => PromisesDisjoint
  BY ReceiptsFollow
<1> QED BY <1>1, InductiveInvariant, PTL
-----------------------------------------------------------------------------
(* Which steps can end a claim: only the release of stale holds inside     *)
(* try_lock and live_count, and release itself.                            *)
LEMMA ClaimsEnd ==
    ASSUME IInv, [Next]_vars, NEW id \in Ids, IsLive(id),
           status'[id] \notin Live
    PROVE  \/ status[id] = "held" /\ expires[id] <= clock
           \/ id \in yielded'
<1> USE DEF IInv, TypeOK
<1>1. CASE UNCHANGED status
  BY <1>1 DEF IsLive
<1>2. ASSUME NEW t \in Threads, TryLockGranted(t) \/ LiveCount(t)
      PROVE  status[id] = "held" /\ expires[id] <= clock
  <2> DEFINE now == call[t].now
  <2>1. now \in Nat /\ now <= clock
    BY DEF CallsSane, Call
  <2>2. Expired(now)[id] \notin Live
    <3>1. CASE LiveCount(t)
      BY <3>1 DEF LiveCount, IsLive
    <3>2. CASE TryLockGranted(t)
      <4>1. call[t].id # id
        BY <3>2, LedgerAssumption DEF TryLockGranted, IsLive, Live, Status
      <4>2. status' = [Expired(now) EXCEPT ![call[t].id] = "held"]
        BY <3>2 DEF TryLockGranted
      <4>3. status'[id] = Expired(now)[id]
        BY <4>1, <4>2 DEF Expired
      <4> QED BY <4>3 DEF IsLive
    <3> QED BY <1>2, <3>1, <3>2
  <2>3. status[id] = "held" /\ expires[id] \in Nat /\ expires[id] <= now
    BY <2>1, <2>2 DEF Expired, Stale, IsLive, RowsWhole
  <2> QED BY <2>1, <2>3
<1>3. ASSUME NEW t \in Threads, CommitAccepted(t) PROVE FALSE
  BY <1>3 DEF CommitAccepted, IsLive, Live
<1>4. ASSUME NEW i \in Ids, Release(i) PROVE id \in yielded'
  BY <1>4 DEF Release, IsLive
<1> QED BY <1>1, <1>2, <1>3, <1>4
        DEF Next, vars, table, Tick, CallTryLock, CallCommit, CallLiveCount,
            TryLockRefused, CommitRefused, Abort

(* A confirmed slot is given up only on the platform's word, and a hold    *)
(* only then or once its TTL has really elapsed.                           *)
THEOREM GivenUpOnlyLapsedOrYielded == Spec => OnlyLapsedOrYielded
<1>1. IInv /\ [Next]_vars => LapsedOrYielded
  BY ClaimsEnd DEF LapsedOrYielded
<1> QED BY <1>1, InductiveInvariant, PTL
        DEF OnlyLapsedOrYielded, Spec
-----------------------------------------------------------------------------
(* A step that brings no claim and spends no id only drops claims.         *)
LEMMA DropRefines ==
    ASSUME Claims' \subseteq Claims, Spent' = Spent
    PROVE  [Lock!Next]_Lock!vars
<1>1. Claims' = Claims \ (Claims \ Claims') /\ Claims \ Claims' \in SUBSET Claims
  OBVIOUS
<1>2. Lock!Drop(Claims \ Claims')
  BY <1>1 DEF Lock!Drop, Claims, Spent
<1> QED BY <1>1, <1>2 DEF Lock!Next

(* try_lock's transaction is the abstract Grant: the stale holds it        *)
(* releases are the claims it drops.                                       *)
LEMMA GrantRefines ==
    ASSUME IInv, NEW t \in Threads, TryLockGranted(t)
    PROVE  [Lock!Next]_Lock!vars
<1> DEFINE c == call[t]
           gone == {<<id, window[id]>> :
                       id \in {i \in Ids : IsLive(i) /\ Expired(c.now)[i] \notin Live}}
<1>1. /\ TypeOK /\ c.id \in Ids /\ c.win \in Windows /\ c.now \in Nat
      /\ status[c.id] = None /\ ~IsLive(c.id)
  BY LedgerAssumption
     DEF IInv, TypeOK, CallsSane, Call, TryLockGranted, IsLive, Live, Status
<1>2. \A id \in Ids : id # c.id =>
          status'[id] = Expired(c.now)[id] /\ window'[id] = window[id]
  BY <1>1, ExpiredFacts DEF TypeOK, TryLockGranted
<1>3. status'[c.id] = "held" /\ window'[c.id] = c.win
  BY <1>1, ExpiredFacts DEF TypeOK, TryLockGranted
<1>4. Claims' = (Claims \ gone) \cup {<<c.id, c.win>>}
  <2>1. \A id \in Ids : IsLive(id)' <=>
            id = c.id \/ (IsLive(id) /\ Expired(c.now)[id] \in Live)
    BY <1>1, <1>2, <1>3, ExpiredFacts DEF IsLive, Live
  <2> QED BY <1>1, <1>2, <1>3, <2>1 DEF Claims, IsLive
<1>5. Spent' = Spent \cup {c.id} /\ c.id \notin Spent
  BY <1>1, <1>2, <1>3, ExpiredFacts, LedgerAssumption DEF Spent, Status, Live
<1>6. \A k \in Claims \ gone : ~Lock!Overlap(k[2], c.win)
  BY <1>1 DEF Claims, TryLockGranted, Free, IsLive, Overlap, Lock!Overlap
<1>7. Lock!Grant(gone, c.id, c.win)
  BY <1>4, <1>5, <1>6 DEF Lock!Grant, Claims, Spent
<1>8. gone \in SUBSET Claims
  BY DEF Claims, IsLive
<1> QED BY <1>1, <1>7, <1>8 DEF Lock!Next

(* Every step of the ledger is a Drop, a Grant or a stutter of the lock.   *)
LEMMA StepRefines == IInv /\ [Next]_vars => [Lock!Next]_Lock!vars
<1> SUFFICES ASSUME IInv, [Next]_vars PROVE [Lock!Next]_Lock!vars
  OBVIOUS
<1> USE DEF IInv, TypeOK
<1>1. CASE UNCHANGED <<status, window>>
  BY <1>1, DropRefines DEF Claims, Spent
<1>2. ASSUME NEW t \in Threads, TryLockGranted(t) PROVE [Lock!Next]_Lock!vars
  BY <1>2, GrantRefines
<1>3. ASSUME NEW t \in Threads, CommitAccepted(t) PROVE [Lock!Next]_Lock!vars
  <2>1. \A i \in Ids : /\ window'[i] = window[i]
                       /\ IsLive(i)' => IsLive(i)
                       /\ status'[i] = None <=> status[i] = None
    BY <1>3, LedgerAssumption
       DEF CommitAccepted, Committable, IsLive, Live, Status
  <2> QED BY <2>1, DropRefines DEF Claims, IsLive, Spent
<1>4. ASSUME NEW t \in Threads, LiveCount(t) PROVE [Lock!Next]_Lock!vars
  <2>1. \A i \in Ids : /\ window'[i] = window[i]
                       /\ IsLive(i)' => IsLive(i)
                       /\ status'[i] = None <=> status[i] = None
    BY <1>4, LedgerAssumption
       DEF LiveCount, Expired, Stale, IsLive, Live, Status
  <2> QED BY <2>1, DropRefines DEF Claims, IsLive, Spent
<1>5. ASSUME NEW id \in Ids, Release(id) PROVE [Lock!Next]_Lock!vars
  <2>1. \A i \in Ids : /\ window'[i] = window[i]
                       /\ IsLive(i)' => IsLive(i)
                       /\ status'[i] = None <=> status[i] = None
    BY <1>5, LedgerAssumption DEF Release, IsLive, Live, Status
  <2> QED BY <2>1, DropRefines DEF Claims, IsLive, Spent
<1> QED BY <1>1, <1>2, <1>3, <1>4, <1>5
        DEF Next, vars, table, Tick, CallTryLock, CallCommit, CallLiveCount,
            TryLockRefused, CommitRefused, Abort

(* The SQLite ledger implements the abstract slot lock: whatever its       *)
(* threads do, an id is granted once and only for a free window.           *)
THEOREM LedgerImplementsSlotLock == Spec => ImplementsSlotLock
<1>1. Init => Lock!Init
  BY LedgerAssumption DEF Init, Lock!Init, Claims, Spent, Live, Status
<1> QED BY <1>1, InductiveInvariant, StepRefines, PTL
        DEF ImplementsSlotLock, Lock!Spec, Spec
=============================================================================
