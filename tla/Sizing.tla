------------------------------- MODULE Sizing -------------------------------
(***************************************************************************)
(* resolve_perp_market, size_amount and round_tick of lib/perp.py: which   *)
(* market is traded, how much of it an amount of money buys, at which      *)
(* price it is quoted.                                                     *)
(*                                                                         *)
(* Amounts are in thousandths of the base asset, prices and money in       *)
(* ticks of 0.01.  A market's amount_precision d is the resolution 10^-d,  *)
(* in thousandths too: 1, 10, 100 or 1000.  A filter that is absent, not   *)
(* numeric or zero reads 0 (_num_field, _or).  A tick is never finer than  *)
(* the decimals in which prices are written.                               *)
(***************************************************************************)
EXTENDS Integers, Sequences, FiniteSetsExt

Resolutions == {1, 10, 100, 1000}

CeilDiv(a, b) == (a + b - 1) \div b
AtLeast(a, b) == IF a >= b THEN a ELSE b

\* The nearest multiple of r, the even one of two that are equally near.
Nearest(a, r) ==
    LET k == a \div r
        twice == 2 * (a % r)
    IN  IF twice > r \/ (twice = r /\ k % 2 = 1) THEN (k + 1) * r ELSE k * r

-----------------------------------------------------------------------------
\* A symbol of the exchange's list, as the code reads it.
SymbolOf(wanted, trading, step, min_qty, min_notional, precision, tick) ==
    [wanted |-> wanted, trading |-> trading, step |-> step, min_qty |-> min_qty,
     min_notional |-> min_notional, precision |-> precision, tick |-> tick]

Symbol == [wanted : BOOLEAN, trading : BOOLEAN, step : Nat, min_qty : Nat,
           min_notional : Nat, precision : Resolutions, tick : Nat]

\* The wanted symbol, if possible one that trades; else any that trades; else any:
\* each time the first in the list.
Preferred(symbols) ==
    LET trading == {i \in DOMAIN symbols : symbols[i].trading}
        wanted == {i \in DOMAIN symbols : symbols[i].wanted}
    IN  symbols[IF trading \cap wanted # {} THEN Min(trading \cap wanted)
                ELSE IF wanted # {} THEN Min(wanted)
                ELSE IF trading # {} THEN Min(trading) ELSE 1]

Or(v, fallback) == IF v = 0 THEN fallback ELSE v

ResolveMarket(symbols) ==
    IF symbols = <<>>
    THEN [step |-> 1, min_qty |-> 0, min_notional |-> 0, precision |-> 1, tick |-> 1,
          resolved |-> FALSE]
    ELSE LET chosen == Preferred(symbols)
         IN  [step |-> Or(chosen.step, chosen.precision), min_qty |-> chosen.min_qty,
              min_notional |-> chosen.min_notional, precision |-> chosen.precision,
              tick |-> Or(chosen.tick, 1), resolved |-> chosen.wanted]

-----------------------------------------------------------------------------
\* _decimals_of, as a resolution: the decimals that a step needs.
DecimalsOf(step) ==
  CHOOSE r \in Resolutions :
    /\ step % r = 0
    /\ \A s \in Resolutions : step % s = 0 => s <= r

\* Amounts are written with the finer of the step's decimals and the market's.
Written(step, mkt) == LET r == DecimalsOf(step) IN IF r < mkt.precision THEN r ELSE mkt.precision

\* The smallest notional aimed at, in hundredths of a tick: five percent more than
\* the market asks for.
Aimed(notional, mkt) == AtLeast(100 * notional, 105 * mkt.min_notional)

\* Mutant: rounded down to the lot.
LotsBelow(notional, price, mkt) == (10 * Aimed(notional, mkt)) \div (price * mkt.step)

\* math.ceil(qty / step).
Lots(notional, price, mkt) == CeilDiv(10 * Aimed(notional, mkt), price * mkt.step)

\* The division is one of floats: an exact quotient may come out a little larger
\* and is then rounded up a whole lot.
Exact(notional, price, mkt) == (10 * Aimed(notional, mkt)) % (price * mkt.step) = 0

RaisedToSmallest(qty, mkt) == AtLeast(qty, mkt.min_qty)

\* size_amount; extra is the lot that float division may add.  The loop that follows
\* in the code adds nothing: Aimed is five percent above what it compares with.
SizeAmount(notional, price, mkt, extra) ==
    Nearest(RaisedToSmallest((Lots(notional, price, mkt) + extra) * mkt.step, mkt),
            Written(mkt.step, mkt))

Extras(notional, price, mkt) == IF Exact(notional, price, mkt) THEN {0, 1} ELSE {0}

RoundTick(price, tick) == Nearest(price, tick)

-----------------------------------------------------------------------------
(***************************************************************************)
(* "size target USD notional -> lot-aligned base amount, honour            *)
(* step/minQty/minNotional": the amount is worth what was asked for and    *)
(* what the market asks for, is no smaller than its smallest quantity, is  *)
(* made of whole lots, and is at most two lots more than necessary.        *)
(***************************************************************************)
Worth(amount, price) == amount * price

Honours(amount, notional, price, mkt) ==
    /\ Worth(amount, price) >= 1000 * notional
    /\ Worth(amount, price) >= 1000 * mkt.min_notional
    /\ amount >= mkt.min_qty
    /\ amount % mkt.step = 0
    /\ \/ amount = mkt.min_qty
       \/ 10 * Aimed(notional, mkt) > (amount - 2 * mkt.step) * price

\* What the last two conjuncts need of the market: its smallest quantity is made of
\* whole lots.  The code takes it as it is.
LotAligned(mkt) == mkt.min_qty % mkt.step = 0
=============================================================================
