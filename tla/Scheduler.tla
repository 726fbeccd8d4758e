----------------------------- MODULE Scheduler ------------------------------
(***************************************************************************)
(* The pure part of the marketplace (marketplace/scheduler.js): what of a  *)
(* declared window is still free, which nodes a request may be offered and *)
(* in which order.  Times are integers.  A reliability is a fraction,      *)
(* counted in parts of which Percent make one per cent; costs are counted  *)
(* in a unit so small that every one of them is an integer.                *)
(***************************************************************************)
EXTENDS Integers, FiniteSetsExt

CONSTANTS Percent,   \* parts of a reliability in one per cent
          Unit       \* a common multiple of the reliabilities costs are divided by

ASSUME SchedulerAssumption == Percent \in Nat \ {0} /\ Unit \in Nat \ {0}

Overlap(a, b) == a.start < b.end /\ a.end > b.start

CoversWindow(windows, s) == \E w \in windows : w.start <= s.start /\ w.end >= s.end

(* subtractBusy: the cursor walks through the bookings that touch a        *)
(* window, earliest first.                                                 *)
Touching(w, busy) == {b \in busy : Overlap(b, w)}
CutAtStart(cut, b) ==                      \* mutant: the cursor stops too soon
    [free |-> IF b.start > cut.cursor
              THEN cut.free \cup {[start |-> cut.cursor, end |-> b.start]}
              ELSE cut.free,
     cursor |-> IF b.start > cut.cursor THEN b.start ELSE cut.cursor]
CutAt(cut, b) ==
    [free |-> IF b.start > cut.cursor
              THEN cut.free \cup {[start |-> cut.cursor, end |-> b.start]}
              ELSE cut.free,
     cursor |-> IF b.end > cut.cursor THEN b.end ELSE cut.cursor]
Latest(bookings) == CHOOSE b \in bookings : \A c \in bookings : c.start <= b.start
Walk(w, bookings) ==
    LET cut[walked \in SUBSET bookings] ==
            IF walked = {} THEN [free |-> {}, cursor |-> w.start]
            ELSE CutAt(cut[walked \ {Latest(walked)}], Latest(walked))
    IN  cut[bookings]
FreeOf(w, busy) ==
    LET cut == Walk(w, Touching(w, busy))
    IN  cut.free \cup (IF cut.cursor < w.end
                       THEN {[start |-> cut.cursor, end |-> w.end]} ELSE {})
SubtractBusy(windows, busy) == UNION {FreeOf(w, busy) : w \in windows}
-----------------------------------------------------------------------------
(* rank.  A candidate has a price, a perf score and a reliability.         *)
MODES == {"cheapest", "best_value", "fastest"}
Weight(mode) ==
    CASE mode = "cheapest"   -> [cost |-> 70, perf |-> 5,  reliability |-> 20]
      [] mode = "best_value" -> [cost |-> 35, perf |-> 30, reliability |-> 25]
      [] mode = "fastest"    -> [cost |-> 5,  perf |-> 60, reliability |-> 20]

(* clamp(reliability, 0.01, 1): what a node is taken to deliver at least.  *)
Whole == 100 * Percent
Clamped(reliability) == IF reliability < Percent THEN Percent
                        ELSE IF reliability > Whole THEN Whole ELSE reliability

(* The price of the hours, over the chance that they are not in vain.      *)
ExpectedCost(c, hours) == c.price * hours * (Unit \div Clamped(c.reliability))

Spread(values) == Max(values) - Min(values)
(* normalize, as a numerator over Scale: 0.5 when all candidates agree.    *)
Scale(values) == IF Spread(values) = 0 THEN 2 ELSE Spread(values)
NormalizeAlways(v, values, lowerIsBetter) ==   \* mutant: never inverted
    IF Spread(values) = 0 THEN 1 ELSE v - Min(values)
Normalize(v, values, lowerIsBetter) ==
    IF Spread(values) = 0 THEN 1
    ELSE IF lowerIsBetter THEN Max(values) - v
    ELSE v - Min(values)

(* The score over a denominator that all of the pool share; the latency is *)
(* a placeholder, the same for all.                                        *)
Score(c, pool, hours, mode) ==
    LET costs == {ExpectedCost(d, hours) : d \in pool}
        perfs == {d.perf : d \in pool}
        rels  == {d.reliability : d \in pool}
        w == Weight(mode)
    IN  w.cost * Normalize(ExpectedCost(c, hours), costs, TRUE) * Scale(perfs) * Scale(rels)
      + w.perf * Normalize(c.perf, perfs, FALSE) * Scale(costs) * Scale(rels)
      + w.reliability * Normalize(c.reliability, rels, FALSE) * Scale(costs) * Scale(perfs)

=============================================================================
