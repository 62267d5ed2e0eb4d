---------------------------- MODULE RestingOrder ----------------------------
(***************************************************************************)
(* The two tests that let an order rest and cancel it again                *)
(* (suites/nimbus/spot/test_orders.py and suites/nimbus/perp/              *)
(* test_orders.py), with the reads of lib/spot.py and lib/perp.py they     *)
(* make and the teardown of their modules.  They quote from the same book  *)
(* as the makers of MakerQuote, which this module extends.                 *)
(*                                                                         *)
(* The platform (external) does everything a while after it is asked to,   *)
(* and answers reads from replicas that follow at their own pace.  Its     *)
(* stages for our order and the money behind it are counted 0..6.  Orders  *)
(* fill whole, and a post is carried out at most once: ResilientHttp says  *)
(* when that is not so.                                                    *)
(***************************************************************************)
EXTENDS MakerQuote, Sizing

CONSTANTS Replica,     \* copies from which reads are answered
          Listings,    \* answers of exchangeInfo: sequences of symbols
          Notional     \* order_notional_usd, in ticks

ASSUME RestingAssumption ==
    /\ Replica # {} /\ Notional \in Nat \ {0}
    /\ \A symbols \in Listings : symbols \in Seq(Symbol)

Tests == {"rest_spot", "rest_perp"}

Settling == 0   \* the fixture's deposit and transfer are still coming in
Settled == 1    \* at the baseline, no order of ours
Open == 2       \* in the book, the money not locked yet
Locked == 3     \* in the book, the money locked
Left == 4       \* cancelled, the money still locked
Released == 5   \* cancelled, the money back
Filled == 6     \* somebody took it
Stage == Settling..Filled

VARIABLES mkt,        \* the market of a perp test, until the order is sent
          amount,     \* its size, in thousandths, until the order is sent
          fellBack,   \* a market other than the configured one is traded
          world,      \* the platform's stage
          seen,       \* the stage that each replica has reached
          asked,      \* a cancel was accepted and has not taken effect yet
          latest,     \* history: the latest stage that a read answered
          wentBack,   \* history: a read answered from before an earlier one
          during,     \* the balance read while the order was thought locked
          in_history, \* the order was in /orders when read
          outcome,    \* "running", "passed", or how it failed
          swept,      \* history: the stage that the teardown's read answered
          refused     \* history: the teardown's cancel failed

market == <<mkt, amount, fellBack>>
platform == <<world, seen, asked>>
history == <<latest, wentBack, during, in_history>>
teardown == <<swept, refused>>
resting == <<market, platform, history, outcome, teardown>>

NotRead == -1   \* the teardown has not read the orders, or its read raised
NoMarket == [resolved |-> FALSE]

\* Bids play no part when the perp test buys: it reads no book.
RestingInit ==
    /\ AnyBook
    /\ task \in Makers \cup Tests /\ side \in {"sell", "buy"}
    /\ task \in Tests => side = "buy"
    /\ task \in Makers \ {"perp"} => side = "sell"
    /\ task = "rest_perp" => bids = {}
    /\ pc = CASE task = "spot" -> "read" [] task \in {"perp", "spot_or_mark"} -> "mark"
              [] task = "rest_spot" -> "baseline" [] task = "rest_perp" -> "resolve"
    /\ mkt = NoMarket /\ amount = 0 /\ fellBack = FALSE
    /\ world \in (IF task \in Tests THEN {Settling, Settled} ELSE {Settled})
    /\ seen = [r \in Replica |-> world] /\ asked = FALSE
    /\ latest = Settling /\ wentBack = FALSE /\ during = "none" /\ in_history = FALSE
    /\ outcome = "running" /\ swept = NotRead /\ refused = FALSE

-----------------------------------------------------------------------------
\* What a stage looks like to a read: is the order in open_orders, and does the
\* available balance equal the baseline, or the baseline less the lock?  A spot buy
\* that filled has spent exactly the lock; a perp fill has paid a fee besides.
IsOpen(s) == s \in {Open, Locked}
Available(s) == CASE s \in {Settled, Open, Released} -> "base"
                  [] s \in {Locked, Left} -> "less"
                  [] s = Filled -> IF task = "rest_spot" THEN "less" ELSE "other"
                  [] s = Settling -> "other"

\* A read answered by replica r.
Reads(r) ==
    /\ latest' = Larger(latest, seen[r])
    /\ wentBack' = (wentBack \/ seen[r] < latest)

Fail(how) == outcome' = how /\ pc' = "teardown"

\* poll_until: read until the stage seen will do, or raise when the time is up; a
\* read that raises ends it too.
Poll(at, will_do, next) ==
    /\ pc = at
    /\ \/ \E r \in Replica :
             /\ Reads(r)
             /\ IF seen[r] \in will_do THEN pc' = next ELSE pc' = pc
             /\ UNCHANGED outcome
       \/ Fail("gave_up") /\ UNCHANGED <<latest, wentBack>>

local == <<during, in_history>>
quoting == <<task, side, book, read, price, ahead, met, moves, arrived>>

-----------------------------------------------------------------------------
\* resolve_perp_market, then the mark and the size (perp); the assert on the mark.
\* When nothing is listed the market keeps the name that was wanted.
Resolve ==
    /\ pc = "resolve"
    /\ \E symbols \in Listings :
          /\ mkt' = ResolveMarket(symbols)
          /\ fellBack' = (symbols # <<>> /\ ~ResolveMarket(symbols).resolved)
    /\ pc' = "mark"
    /\ UNCHANGED <<quoting, amount, platform, history, outcome, teardown>>

SizeOrder ==
    /\ pc = "mark" /\ task = "rest_perp"
    /\ \/ /\ mark' = Mark
          /\ \E extra \in Extras(Notional, Mark, mkt) :
                amount' = SizeAmount(Notional, Mark, mkt, extra)
          /\ pc' = "baseline" /\ UNCHANGED outcome
       \/ mark' = 0 /\ UNCHANGED amount /\ Fail("no_mark")
    /\ UNCHANGED <<task, side, book, best_bid, best_ask, price, ahead, met, moves, arrived,
                   mkt, fellBack, platform, history, teardown>>

AtBaseline == {s \in Stage : Available(s) = "base"}

\* The perp test prices before this wait, the spot test after it.
PerpRestPrice == RoundTick((95 * mark) \div 100, mkt.tick)

Baseline ==
    /\ Poll("baseline", AtBaseline, IF task = "rest_perp" THEN "rest" ELSE "mark")
    /\ price' = IF pc' = "rest" THEN PerpRestPrice ELSE price
    /\ UNCHANGED <<task, side, book, read, ahead, met, moves, arrived,
                   market, platform, local, teardown>>

-----------------------------------------------------------------------------
\* spot_reference_price_or_mark, ten percent below it, never at the best ask.
Reference == IF best_bid > 0 THEN best_bid ELSE best_ask
ReferenceOrMark == IF Reference = 0 \/ StaleVsMark(Reference) THEN mark ELSE Reference
BelowAsk(p) == IF best_ask > 0 THEN Smaller(p, best_ask - 1) ELSE p
SpotRestPrice == BelowAsk((9 * ReferenceOrMark + 5) \div 10)

RestPrice == IF task = "rest_spot" THEN SpotRestPrice ELSE price

\* create_spot_order, create_perp_order.  From here on the book, the quote and the
\* size matter no more: whether ours is filled is FillOurs.
Forget ==
    /\ bids' = {} /\ asks' = {} /\ best_bid' = 0 /\ best_ask' = 0 /\ mark' = 0
    /\ price' = 0 /\ moves' = 0 /\ mkt' = NoMarket /\ amount' = 0

Post ==
    /\ pc = "rest" /\ task \in Tests
    /\ \/ /\ task = "rest_spot" /\ ReferenceOrMark = 0
          /\ Fail("no_price") /\ UNCHANGED <<met, world>>
       \/ Fail("post_raised") /\ met' = "rejected" /\ UNCHANGED world
       \/ /\ InBand(RestPrice)
          /\ IF Crosses(RestPrice) THEN met' = "taker" /\ world' = Filled
                                   ELSE met' = met /\ world' = Open
          /\ \/ pc' = "visible" /\ UNCHANGED outcome
             \/ Fail("post_raised")
    /\ Forget
    /\ UNCHANGED <<task, side, ahead, arrived, fellBack, seen, asked, history, teardown>>

-----------------------------------------------------------------------------
\* Mutants: the lock is not waited for; the cancel's answer is taken for the release.
LockedAtOnce == Stage
ReleasedAtOnce == Stage

SeenOpen == {s \in Stage : IsOpen(s)}
SeenLocked == {s \in Stage : Available(s) = "less"}
SeenGone == Stage \ SeenOpen
SeenReleased == {s \in Stage : Available(s) = "base"}

AfterPost == UNCHANGED <<quoting, market, platform, teardown>>

Visible == Poll("visible", SeenOpen, "mine") /\ UNCHANGED local /\ AfterPost
WaitLock == Poll("locked", SeenLocked, "during") /\ UNCHANGED local /\ AfterPost
Gone == Poll("gone", SeenGone, "released") /\ UNCHANGED local /\ AfterPost
Release == Poll("released", SeenReleased, "assert") /\ UNCHANGED local /\ AfterPost

\* mine = next(...): one fresh read, StopIteration when the order is not in it.
Mine ==
    /\ pc = "mine"
    /\ \E r \in Replica :
          /\ Reads(r)
          /\ IF IsOpen(seen[r]) THEN pc' = "locked" /\ UNCHANGED outcome ELSE Fail("not_found")
    /\ UNCHANGED local /\ AfterPost

\* during, and for a perp test in_history: fresh reads, asserted at the end.
During ==
    /\ pc = "during"
    /\ \E r \in Replica : Reads(r) /\ during' = Available(seen[r])
    /\ pc' = "history"
    /\ UNCHANGED <<outcome, in_history>> /\ AfterPost

InHistory ==
    /\ pc = "history"
    /\ \E r \in Replica : Reads(r) /\ in_history' = (task = "rest_spot" \/ seen[r] >= Open)
    /\ pc' = "cancel"
    /\ UNCHANGED <<outcome, during>> /\ AfterPost

\* The platform's part of a cancel: it is accepted, or it is not.
CancelAccepted == IsOpen(world) /\ asked' = TRUE
CancelRefused == UNCHANGED asked

Cancel ==
    /\ pc = "cancel"
    /\ \/ CancelAccepted /\ pc' = "gone" /\ UNCHANGED outcome
       \/ CancelAccepted /\ Fail("cancel_raised")
       \/ CancelRefused /\ Fail("cancel_raised")
    /\ UNCHANGED <<quoting, market, world, seen, history, teardown>>

Asserts ==
    /\ pc = "assert"
    /\ IF during = "less" /\ in_history
       THEN outcome' = "passed" /\ pc' = "teardown"
       ELSE Fail("assertion")
    /\ UNCHANGED <<quoting, market, platform, history, teardown>>

-----------------------------------------------------------------------------
\* Mutant: only an order whose identifier the test was told is cancelled.
KnownOrder(r) == IsOpen(seen[r]) /\ ~fellBack /\ outcome # "post_raised"

\* _cancel_leftovers: what open_orders of the configured market lists, if it can be
\* read; a cancel that fails is passed over.
Listed(r) == IsOpen(seen[r]) /\ ~fellBack

CancelLeftovers ==
    /\ pc = "teardown" /\ task \in Tests
    /\ \/ swept' = NotRead /\ UNCHANGED <<refused, asked>>
       \/ \E r \in Replica :
             /\ swept' = seen[r]
             /\ \/ Listed(r) /\ CancelAccepted /\ refused' = FALSE
                \/ Listed(r) /\ CancelRefused /\ refused' = TRUE
                \/ ~Listed(r) /\ refused' = FALSE /\ UNCHANGED asked
    /\ pc' = "over"
    /\ UNCHANGED <<quoting, market, world, seen, history, outcome>>

-----------------------------------------------------------------------------
\* The platform (external), one stage at a time, and its replicas.
Advance ==
    /\ \/ world = Settling /\ world' = Settled /\ UNCHANGED asked
       \/ world = Open /\ world' = Locked /\ UNCHANGED asked
       \/ IsOpen(world) /\ asked /\ asked' = FALSE
          /\ world' = IF world = Open THEN Released ELSE Left
       \/ world = Left /\ world' = Released /\ UNCHANGED asked
       \/ IsOpen(world) /\ world' = Filled /\ asked' = FALSE
    /\ UNCHANGED <<pc, quoting, market, seen, history, outcome, teardown>>

CatchUp ==
    /\ \E r \in Replica : seen[r] # world /\ seen' = [seen EXCEPT ![r] = world]
    /\ UNCHANGED <<pc, quoting, market, world, asked, history, outcome, teardown>>

\* A maker's quote, and the others that move the book.
Quoting ==
    /\ \/ task # "rest_perp" /\ ReadMark
       \/ ReadTop \/ RestOrder \/ TakeOrder \/ Others \/ OthersTakeOurs
    /\ UNCHANGED resting

Test == Resolve \/ SizeOrder \/ Baseline \/ Post \/ Visible \/ Mine \/ WaitLock \/ During
          \/ InHistory \/ Cancel \/ Gone \/ Release \/ Asserts \/ CancelLeftovers

RestingNext == Quoting \/ Test \/ Advance \/ CatchUp

RestingSpec == RestingInit /\ [][RestingNext]_<<vars, resting>>

-----------------------------------------------------------------------------
TypeOK ==
    /\ QuoteTypeOK /\ task \in Makers \cup Tests
    /\ amount \in Nat /\ fellBack \in BOOLEAN
    /\ world \in Stage /\ seen \in [Replica -> Stage] /\ asked \in BOOLEAN
    /\ latest \in Stage /\ wentBack \in BOOLEAN /\ in_history \in BOOLEAN
    /\ during \in {"none", "base", "less", "other"}
    /\ swept \in Stage \cup {NotRead} /\ refused \in BOOLEAN

(***************************************************************************)
(* "never cross the current best ask, including a stale leftover": the     *)
(* spot test's order takes only when a sell came in after the top of the   *)
(* book was read.                                                          *)
(***************************************************************************)
RestsNeverTakes == met = "taker" /\ task = "rest_spot" => "sell" \in arrived

\* The typing, what may make a quote of a maker or of the spot test take, when one is
\* refused, and how far the replicas are: one never shows what has not happened.
QuoteInv ==
    /\ TypeOK /\ QuoteRests /\ QuoteInBand /\ RestsNeverTakes
    /\ \A r \in Replica : seen[r] <= world
    /\ latest <= world

(***************************************************************************)
(* size_amount: in any market whose smallest quantity is made of whole     *)
(* lots, the order that the perp test sends honours the market's filters   *)
(* and the notional asked for.                                             *)
(***************************************************************************)
SizeHonoured ==
    pc = "baseline" /\ task = "rest_perp" /\ LotAligned(mkt)
    => Honours(amount, Notional, Mark, mkt)

(***************************************************************************)
(* "released exactly the locked notional back": when a test passed, its    *)
(* order had left the book unfilled and the money was back - provided that *)
(* no read was answered from before an earlier one.                        *)
(***************************************************************************)
PassMeansReleased == outcome = "passed" /\ ~wentBack => world = Released

(***************************************************************************)
(* The re-reads after a poll (mine, during, in_history) raise no false     *)
(* alarm: when one of them failed the test and no read went back in time,  *)
(* somebody had taken the order.                                           *)
(***************************************************************************)
AlarmsAreReal == outcome \in {"not_found", "assertion"} /\ ~wentBack => world = Filled

(***************************************************************************)
(* "teardown cancels leftovers from failed run": wherever the test         *)
(* stopped, its order stays in the book only when the teardown could not   *)
(* read the orders of its market, read a replica that had not heard of     *)
(* ours yet, was looking at a market that ours is not in, or had the       *)
(* cancel fail.  It is not enough that the post raised, that a poll gave   *)
(* up or that the listing was empty.                                       *)
(***************************************************************************)
LeftoverOnlyIfMissed ==
    pc = "over" /\ IsOpen(world) /\ ~asked => swept < Open \/ fellBack \/ refused
=============================================================================
