----------------------------- MODULE MakerQuote -----------------------------
(***************************************************************************)
(* The prices at which the suites rest a maker's order, in the sequence of *)
(* requests that uses them: read the mark, read the top of the book, rest  *)
(* a limit order at the price computed from them, send the counterparty's  *)
(* market order.  Three rules: maker_price_inside_spread of lib/perp.py    *)
(* ("perp", by _leg and capture_subject_maker_fill of lib/fee_flow.py),    *)
(* spot_resting_sell_price of lib/spot.py ("spot", by the competition      *)
(* suites) and its variant that falls back on the mark ("spot_or_mark", by *)
(* suites/nimbus/spot/test_trade.py).                                      *)
(*                                                                         *)
(* Prices are in ticks.  A side of the book is the set of prices at which  *)
(* others rest, stale leftovers far from the mark included; price-time     *)
(* priority decides who is matched.  A side that is empty reads 0.         *)
(***************************************************************************)
EXTENDS Integers, FiniteSets, FiniteSetsExt

CONSTANTS Levels,    \* bound: the prices at which others may rest
          Mark,      \* the mark price of the market
          MaxPerSide,   \* bound: prices on a side of the book at first
          MaxMoves   \* bound: moves of the other traders

ASSUME QuoteAssumption ==
    /\ Levels \subseteq Nat \ {0} /\ IsFiniteSet(Levels) /\ Mark \in Nat \ {0}
    /\ MaxPerSide \in Nat /\ MaxMoves \in Nat

Makers == {"perp", "spot", "spot_or_mark"}

VARIABLES pc,        \* "mark", "read", "rest", "take"; "done" or "raised"
          task,      \* the rule in use
          side,      \* rest_side: the side our maker rests on
          bids, asks,   \* prices at which others rest
          mark,      \* the mark as read: 0 when it is not available
          best_bid, best_ask,   \* the top of book as read
          price,     \* price of our resting order; 0: none rests
          ahead,     \* others at our price were there before us
          met,       \* who traded with our taker, or "taker": our limit order took,
                     \* or "rejected": the exchange refused its price
          moves,     \* moves the others made
          arrived    \* history: sides on which an order of others came in since the read

book == <<bids, asks>>
read == <<mark, best_bid, best_ask>>
vars == <<pc, task, side, book, read, price, ahead, met, moves, arrived>>

HighestOf(S) == Max({0} \cup S)
LowestOf(S) == IF S = {} THEN 0 ELSE Min(S)

\* Best first.
Better(p, q) == IF side = "sell" THEN p < q ELSE p > q
Own == IF side = "sell" THEN asks ELSE bids
Other == IF side = "sell" THEN bids ELSE asks
Uncrossed(b, a) == \A p \in b, q \in a : p < q
Sides == {S \in SUBSET Levels : Cardinality(S) <= MaxPerSide}

AnyBook ==
    /\ bids \in Sides /\ asks \in Sides /\ Uncrossed(bids, asks)
    /\ mark = 0 /\ best_bid = 0 /\ best_ask = 0 /\ price = 0 /\ ahead = FALSE
    /\ met = "nobody" /\ moves = 0 /\ arrived = {}

\* The spot rules read no mark, or only sell.
Init ==
    /\ AnyBook
    /\ task \in Makers /\ side \in {"sell", "buy"}
    /\ task # "perp" => side = "sell"
    /\ pc = IF task = "spot" THEN "read" ELSE "mark"

-----------------------------------------------------------------------------
\* get_perp_mark_price; without a mark the perp drivers raise when they size the
\* order, before anything is placed.
ReadMark ==
    /\ pc = "mark"
    /\ mark' \in {0, Mark}
    /\ pc' = IF mark' = 0 /\ task = "perp" THEN "raised" ELSE "read"
    /\ UNCHANGED <<task, side, book, best_bid, best_ask, price, ahead, met, moves, arrived>>

\* get_perp_top_of_book, get_spot_top_of_book.
ReadTop ==
    /\ pc = "read"
    /\ best_bid' = HighestOf(bids) /\ best_ask' = LowestOf(asks)
    /\ pc' = "rest"
    /\ UNCHANGED <<task, side, book, mark, price, ahead, met, moves, arrived>>

-----------------------------------------------------------------------------
\* Mutants: the quote joins the best price; a stale spot quote is used.
JoinTouch == IF side = "sell" THEN best_ask ELSE best_bid
NeverStale(p) == FALSE

Larger(m, n) == IF m > n THEN m ELSE n
Smaller(m, n) == IF m < n THEN m ELSE n

\* perp: best_ask > best_bid + tick / 2, in ticks any uncrossed book with two sides;
\* spot: best_ask > best_bid + tick.
HasSpread == best_bid > 0 /\ best_ask > best_bid + (IF task = "perp" THEN 0 ELSE 1)

InsideQuote ==
    IF side = "sell" THEN Larger(best_ask - 1, best_bid + 1)
                     ELSE Smaller(best_bid + 1, best_ask - 1)

\* mark * 1.001 or mark * 0.999, to the nearest tick.
MarkQuote == ((IF side = "sell" THEN 1001 ELSE 999) * mark + 500) \div 1000

PerpQuote == IF HasSpread THEN InsideQuote ELSE MarkQuote

\* One-sided: join the ask, or stay above the bid.  An empty book is quoted at zero.
SpotQuote ==
    IF HasSpread THEN InsideQuote
    ELSE IF best_ask > 0 THEN best_ask
    ELSE IF best_bid > 0 THEN best_bid + 1
    ELSE 0

\* STALE_BOOK_DEVIATION: more than 15 percent off a mark that is known.
Distance(p, q) == IF p > q THEN p - q ELSE q - p
StaleVsMark(p) == mark > 0 /\ 100 * Distance(p, mark) > 15 * mark

FromMark == SpotQuote = 0 \/ StaleVsMark(SpotQuote)
SpotQuoteOrMark == IF FromMark THEN mark ELSE SpotQuote

Quote == CASE task = "perp" -> PerpQuote
           [] task = "spot" -> SpotQuote
           [] task = "spot_or_mark" -> SpotQuoteOrMark

-----------------------------------------------------------------------------
\* The limit order arrives.  The exchange refuses a price of zero and one more than
\* a fifth off the mark; one that meets the other side takes, any other rests.
InBand(p) == p > 0 /\ 5 * Distance(p, Mark) <= Mark
Crosses(p) == \E q \in Other : ~Better(q, p)

RestOrder ==
    /\ pc = "rest" /\ task \in Makers
    /\ \/ /\ ~InBand(Quote)
          /\ met' = "rejected" /\ pc' = "raised" /\ UNCHANGED <<price, ahead>>
       \/ /\ InBand(Quote) /\ Crosses(Quote)
          /\ met' = "taker" /\ pc' = "done" /\ UNCHANGED <<price, ahead>>
       \/ /\ InBand(Quote) /\ ~Crosses(Quote)
          /\ price' = Quote /\ ahead' = (Quote \in Own) /\ pc' = "take" /\ UNCHANGED met
    /\ UNCHANGED <<task, side, book, read, moves, arrived>>

\* The market order: the best price of our side, the earliest there.
OursIsBest == price # 0 /\ \A p \in Own : Better(price, p) \/ (p = price /\ ~ahead)

TakeOrder ==
    /\ pc = "take"
    /\ met' = IF OursIsBest THEN "us" ELSE "others"
    /\ pc' = "done"
    /\ UNCHANGED <<task, side, book, read, price, ahead, moves, arrived>>

-----------------------------------------------------------------------------
\* Others cancel at a price, or come to rest at one (external); with our order
\* in the book, too, it stays uncrossed.
Toggle(S, p) == IF p \in S THEN S \ {p} ELSE S \cup {p}
NoteArrival(S, p, at) == arrived' = IF p \in S THEN arrived ELSE arrived \cup {at}
WithOurs(S) == IF price = 0 THEN S ELSE S \cup {price}

Others ==
    /\ pc \in {"rest", "take"} /\ moves < MaxMoves
    /\ \E p \in Levels :
          \/ NoteArrival(bids, p, "buy") /\ asks' = asks /\ bids' = Toggle(bids, p)
          \/ NoteArrival(asks, p, "sell") /\ bids' = bids /\ asks' = Toggle(asks, p)
    /\ IF side = "sell" THEN Uncrossed(bids', WithOurs(asks'))
                        ELSE Uncrossed(WithOurs(bids'), asks')
    /\ ahead' = (ahead /\ price \in (IF side = "sell" THEN asks' ELSE bids'))
    /\ moves' = moves + 1
    /\ UNCHANGED <<pc, task, side, read, price, met>>

\* Somebody else's market order finds ours first.
OthersTakeOurs ==
    /\ pc = "take" /\ moves < MaxMoves
    /\ OursIsBest
    /\ price' = 0 /\ ahead' = FALSE
    /\ arrived' = arrived \cup {IF side = "sell" THEN "buy" ELSE "sell"}
    /\ moves' = moves + 1
    /\ UNCHANGED <<pc, task, side, book, read, met>>

Next == ReadMark \/ ReadTop \/ RestOrder \/ TakeOrder \/ Others \/ OthersTakeOurs

Spec == Init /\ [][Next]_vars

-----------------------------------------------------------------------------
QuoteTypeOK ==
    /\ side \in {"sell", "buy"} /\ mark \in {0, Mark}
    /\ bids \subseteq Levels /\ asks \subseteq Levels /\ Uncrossed(bids, asks)
    /\ best_bid \in Levels \cup {0} /\ best_ask \in Levels \cup {0}
    /\ price \in Nat /\ ahead \in BOOLEAN
    /\ met \in {"nobody", "us", "others", "taker", "rejected"}
    /\ moves \in 0..MaxMoves /\ arrived \subseteq {"sell", "buy"}

(***************************************************************************)
(* "maker rest one tick inside spread -> guaranteed counterparty" (and     *)
(* "maker becomes best ask = guaranteed lift target for market buy"):      *)
(* quoted from a book with room between its best prices, our two orders    *)
(* meet unless an order of somebody else came in after the read; orders    *)
(* that went away, on either side, do no harm.  It says nothing of a book  *)
(* so far off the mark that the quote is refused or not made from it.      *)
(***************************************************************************)
MeetsInSpread ==
    /\ pc = "done" /\ task \in Makers
    /\ HasSpread /\ best_ask - best_bid > 1 /\ arrived = {}
    /\ ~(task = "spot_or_mark" /\ FromMark)
    => met = "us"

(***************************************************************************)
(* "still strictly above best bid": a maker's order made from the book     *)
(* takes only when an order came in on the other side after the read,      *)
(* however narrow the spread and whichever sides the book has.             *)
(***************************************************************************)
FromBook == IF task = "perp" THEN HasSpread ELSE task = "spot" \/ ~FromMark

QuoteRests == met = "taker" /\ task \in Makers => ~FromBook \/ arrived \ {side} # {}

(***************************************************************************)
(* "exchange rejects orders >~20% off; stay well inside that band": a spot *)
(* sell for which the mark was known is never refused for its price, stale *)
(* leftovers in the book or not.                                           *)
(***************************************************************************)
QuoteInBand == met = "rejected" /\ task = "spot_or_mark" => mark = 0

(***************************************************************************)
(* The docstring, lib/perp.py:164-165: "becomes best price on its side     *)
(* (market order on other side guaranteed to match)", with a quote from    *)
(* the mark for a "1-tick book" (line 175); lib/spot.py:46-48 likewise.    *)
(***************************************************************************)
GuaranteedToMatch == pc = "done" /\ HasSpread /\ arrived = {} => met = "us"
=============================================================================
