----------------------------- MODULE NodeLedger -----------------------------
(***************************************************************************)
(* The provider-local reservation ledger,                                  *)
(* worker/nodeva_worker/reservations.py: a SQLite table that is the truth  *)
(* about what one node has committed to.  Any number of threads call it.   *)
(*                                                                         *)
(* try_lock, commit and live_count read the clock FIRST and only then wait *)
(* for the write lock (BEGIN IMMEDIATE, up to ten seconds), so each is two *)
(* steps here: the call samples `now`, and the transaction uses that       *)
(* possibly stale sample.  A transaction is atomic and durable             *)
(* (synchronous=FULL), hence one step.                                     *)
(***************************************************************************)
EXTENDS Integers

CONSTANTS Ids,        \* reservation ids (the platform mints UUIDs)
          Threads,    \* threads of the worker process
          Windows,    \* <<starts_at, ends_at>> pairs that may be requested
          HoldTTL,    \* hold_ttl_ms
          MaxClock,   \* bound on the clock, for model checking only
          None        \* SQL NULL, and the absence of a row

Live == {"held", "confirmed", "running"}
Status == Live \cup {"completed", "released"}

ASSUME LedgerAssumption ==
    /\ Windows \subseteq Nat \X Nat
    /\ HoldTTL \in Nat
    /\ MaxClock \in Nat
    /\ None \notin Nat \cup Windows \cup Ids \cup Status

VARIABLES clock,      \* time.time() in ms
          status,     \* column status, None where there is no row
          window,     \* columns starts_at and ends_at
          expires,    \* column hold_expires_at, None for NULL
          call,       \* each thread's call in progress
          receipts,   \* bodies of the receipts the node has signed
          yielded     \* history: ids whose row the platform had released

table == <<status, window, expires>>
vars == <<clock, table, call, receipts, yielded>>

Idle == [op |-> "idle", id |-> None, win |-> None, now |-> 0]
Call == [op : {"idle", "try_lock", "commit", "live_count"},
         id : Ids \cup {None}, win : Windows \cup {None}, now : Nat]
Receipt == [id : Ids, win : Windows, until : Nat]

Overlap(v, w) == v[1] < w[2] /\ w[1] < v[2]

(* Rows that occupy their slot, and rows _expire_stale would release.      *)
IsLive(id) == status[id] \in Live
StaleTooSoon(id, now) == status[id] = "held" /\ expires[id] <= now + 1  \* mutant
Stale(id, now) == /\ status[id] = "held"
                  /\ expires[id] # None
                  /\ expires[id] <= now

(* The status column after _expire_stale.                                  *)
ExpiredPlatformWord(now) == [id \in Ids |-> IF Stale(id, now) THEN "expired"
                                            ELSE status[id]]    \* mutant
Expired(now) == [id \in Ids |-> IF Stale(id, now) THEN "released"
                                                  ELSE status[id]]
-----------------------------------------------------------------------------
Init == /\ clock = 0
        /\ status = [id \in Ids |-> None]
        /\ window = [id \in Ids |-> None]
        /\ expires = [id \in Ids |-> None]
        /\ call = [t \in Threads |-> Idle]
        /\ receipts = {}
        /\ yielded = {}

Tick == /\ clock < MaxClock
        /\ clock' = clock + 1
        /\ UNCHANGED <<table, call, receipts, yielded>>

(* try_lock, up to BEGIN IMMEDIATE.  A window that is not positive raises  *)
(* ValueError before anything else happens.                                *)
CallTryLock(t, id, w) ==
    /\ call[t] = Idle
    /\ w[2] > w[1]
    /\ call' = [call EXCEPT ![t] =
                    [op |-> "try_lock", id |-> id, win |-> w, now |-> clock]]
    /\ UNCHANGED <<clock, table, receipts, yielded>>

CallCommit(t, id) ==
    /\ call[t] = Idle
    /\ call' = [call EXCEPT ![t] =
                    [op |-> "commit", id |-> id, win |-> None, now |-> clock]]
    /\ UNCHANGED <<clock, table, receipts, yielded>>

CallLiveCount(t) ==
    /\ call[t] = Idle
    /\ call' = [call EXCEPT ![t] =
                    [op |-> "live_count", id |-> None, win |-> None,
                     now |-> clock]]
    /\ UNCHANGED <<clock, table, receipts, yielded>>

Return(t) == call' = [call EXCEPT ![t] = Idle]

(* The window is free once stale holds are out of the way.                 *)
FreeStartOnly(w, now) == \A id \in Ids :      \* mutant: half of the overlap test
                    Expired(now)[id] \in Live => ~(window[id][1] \in w[1]..(w[2] - 1))
Free(w, now) == \A id \in Ids :
                    Expired(now)[id] \in Live => ~Overlap(window[id], w)

(* Mutant: INSERT OR REPLACE, which brings a released id back to life.     *)
TryLockReplaces(t) ==
    LET c == call[t] IN
    /\ c.op = "try_lock"
    /\ Free(c.win, c.now)
    /\ status' = [Expired(c.now) EXCEPT ![c.id] = "held"]
    /\ window' = [window EXCEPT ![c.id] = c.win]
    /\ expires' = [expires EXCEPT ![c.id] = c.now + HoldTTL]
    /\ UNCHANGED <<clock, receipts, yielded>>
    /\ call' = [call EXCEPT ![t] = Idle]

(* try_lock's transaction, when the window is free: stale holds are        *)
(* released, the row is inserted and a receipt leaves the node.            *)
TryLockGranted(t) ==
    LET c == call[t] IN
    /\ c.op = "try_lock"
    /\ status[c.id] = None
    /\ Free(c.win, c.now)
    /\ status' = [Expired(c.now) EXCEPT ![c.id] = "held"]
    /\ window' = [window EXCEPT ![c.id] = c.win]
    /\ expires' = [expires EXCEPT ![c.id] = c.now + HoldTTL]
    /\ receipts' = receipts \cup
           {[id |-> c.id, win |-> c.win, until |-> c.now + HoldTTL]}
    /\ Return(t)
    /\ UNCHANGED <<clock, yielded>>

(* SlotUnavailable, or a primary-key clash: the transaction is rolled      *)
(* back, the release of the stale holds with it.                           *)
TryLockRefused(t) ==
    LET c == call[t] IN
    /\ c.op = "try_lock"
    /\ status[c.id] # None \/ ~Free(c.win, c.now)
    /\ Return(t)
    /\ UNCHANGED <<clock, table, receipts, yielded>>

(* The condition under which commit makes a hold permanent.                *)
Committable(id, now) ==
    /\ status[id] = "held"
    /\ ~(expires[id] # None /\ expires[id] <= now)

CommitAccepted(t) ==
    LET c == call[t] IN
    /\ c.op = "commit"
    /\ Committable(c.id, c.now)
    /\ status' = [status EXCEPT ![c.id] = "confirmed"]
    /\ expires' = [expires EXCEPT ![c.id] = None]
    /\ Return(t)
    /\ UNCHANGED <<clock, window, receipts, yielded>>

CommitRefused(t) ==
    LET c == call[t] IN
    /\ c.op = "commit"
    /\ ~Committable(c.id, c.now)
    /\ Return(t)
    /\ UNCHANGED <<clock, table, receipts, yielded>>

(* live_count, on every heartbeat, keeps the release of stale holds.       *)
LiveCount(t) ==
    /\ call[t].op = "live_count"
    /\ status' = Expired(call[t].now)
    /\ Return(t)
    /\ UNCHANGED <<clock, window, expires, receipts, yielded>>

(* release: one UPDATE on its own, whatever the row's status.              *)
Release(id) ==
    /\ status' = [status EXCEPT ![id] = IF status[id] = None THEN None
                                                             ELSE "released"]
    /\ yielded' = IF status[id] = None THEN yielded ELSE yielded \cup {id}
    /\ UNCHANGED <<clock, window, expires, call, receipts>>

(* The write lock never came (busy_timeout), or the process died: nothing  *)
(* of the call survives.                                                   *)
Abort(t) ==
    /\ call[t] # Idle
    /\ Return(t)
    /\ UNCHANGED <<clock, table, receipts, yielded>>

Next ==
    \/ Tick
    \/ \E id \in Ids : Release(id)
    \/ \E t \in Threads :
          \/ \E id \in Ids, w \in Windows : CallTryLock(t, id, w)
          \/ \E id \in Ids : CallCommit(t, id)
          \/ CallLiveCount(t)
          \/ TryLockGranted(t)
          \/ TryLockRefused(t)
          \/ CommitAccepted(t)
          \/ CommitRefused(t)
          \/ LiveCount(t)
          \/ Abort(t)

Spec == Init /\ [][Next]_vars
-----------------------------------------------------------------------------
TypeOK ==
    /\ clock \in Nat
    /\ status \in [Ids -> Status \cup {None}]
    /\ window \in [Ids -> Windows \cup {None}]
    /\ expires \in [Ids -> Nat \cup {None}]
    /\ call \in [Threads -> Call]
    /\ receipts \subseteq Receipt
    /\ yielded \subseteq Ids

(* Two requests for overlapping windows can race from different threads;   *)
(* the rows that occupy the hardware never overlap (the module docstring's *)
(* "exactly one must win").                                                *)
NoDoubleBooking ==
    \A a, b \in Ids : a # b /\ IsLive(a) /\ IsLive(b)
                         => ~Overlap(window[a], window[b])

(* A signed receipt is a promise: until its hold_expires_at the slot stays *)
(* with that reservation, unless the platform itself gave it back.  Stale  *)
(* clock samples of other threads must not break it early.                 *)
ReceiptHonoured ==
    \A r \in receipts : clock < r.until /\ r.id \notin yielded
                           => IsLive(r.id) /\ window[r.id] = r.win

(* Hence the node never has two running promises for the same time.        *)
PromisesDisjoint ==
    \A r, s \in receipts :
        /\ r.id # s.id
        /\ clock < r.until /\ clock < s.until
        /\ r.id \notin yielded /\ s.id \notin yielded
        => ~Overlap(r.win, s.win)

(* A slot the node has confirmed (the user was charged for it) is given up *)
(* only because the platform said so, and a hold only then or because its  *)
(* TTL has really elapsed.                                                 *)
LapsedOrYielded ==
    \A id \in Ids : IsLive(id) /\ status'[id] \notin Live =>
        \/ status[id] = "held" /\ expires[id] <= clock
        \/ id \in yielded'

OnlyLapsedOrYielded == [][LapsedOrYielded]_vars

(* The ledger implements the abstract promise.                             *)
Claims == {<<id, window[id]>> : id \in {i \in Ids : status[i] \in Live}}
Spent == {id \in Ids : status[id] # None}
Lock == INSTANCE SlotLock WITH claims <- Claims, spent <- Spent
ImplementsSlotLock == Lock!Spec
=============================================================================
