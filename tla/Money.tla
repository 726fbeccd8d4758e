------------------------------- MODULE Money -------------------------------
(***************************************************************************)
(* The arithmetic of payments/settle.js.  Amounts are integer paise, so    *)
(* every division says which way it rounds.  Numbers stay far below 2^53,  *)
(* where the doubles of the code are exact (db/pool.js).                   *)
(***************************************************************************)
EXTENDS Integers

(* Math.ceil(a / b) and Math.round(a / b), for a, b >= 0.                  *)
CeilDiv(a, b) == (a + b - 1) \div b
RoundDiv(a, b) == (2 * a + b) \div (2 * b)

AtLeast(a, b) == IF a < b THEN b ELSE a    \* Math.max
AtMost(a, b) == IF a < b THEN a ELSE b     \* Math.min

PlatformFeeBps == 1000
MinimumMinutes == 5

Split(total) ==
    LET platform == CeilDiv(total * PlatformFeeBps, 10000)
    IN  [platform |-> platform, provider |-> total - platform]

(* What a number of minutes costs at a price per hour.                     *)
PriceOf(minutes, pricePaiseHr) == CeilDiv(pricePaiseHr * minutes, 60)

QuoteSeconds(ms) == RoundDiv(ms, 1000)
QuoteRoundedDown(pricePaiseHr, ms) ==   \* mutant: whole minutes, rounded down
    PriceOf(QuoteSeconds(ms) \div 60, pricePaiseHr)
Quote(pricePaiseHr, ms) ==
    PriceOf(CeilDiv(QuoteSeconds(ms), 60), pricePaiseHr)

MeteredUncapped(quoted, pricePaiseHr, seconds) ==   \* mutant: no Math.min
    PriceOf(AtLeast(MinimumMinutes, CeilDiv(seconds, 60)), pricePaiseHr)
MeteredCharge(quoted, pricePaiseHr, seconds) ==
    AtMost(PriceOf(AtLeast(MinimumMinutes, CeilDiv(seconds, 60)), pricePaiseHr),
           quoted)
=============================================================================
