---------------------------- MODULE FlattenPair ----------------------------
(***************************************************************************)
(* flatten_perp_pair of lib/perp.py: the seeded teardown of two accounts.  *)
(* Each round reads the two positions one after the other, then lets the   *)
(* holder of the short leg rest a reduce-only bid and the holder of the    *)
(* long leg sell into it; what is left after the rounds goes to            *)
(* close_all_perp_positions.  Meanwhile the exchange goes on matching:     *)
(* these orders, those left over from the test, and those of earlier       *)
(* rounds, none of which is ever cancelled (FeeTierFlow).                  *)
(***************************************************************************)
EXTENDS CloseAllPositions

CONSTANTS a, b,        \* the two PerpParty arguments
          MaxRounds    \* max_rounds (6)

ASSUME FlattenAssumption ==
    /\ Party = {a, b} /\ a # b
    /\ MaxRounds \in Nat \ {0}

VARIABLES round,
          seen,    \* seen[p]: net position of p as last read, a long one positive
          how,     \* "not_called", "running", or how it ended: "flat", "closed", "gave_up"
          inherited  \* history: number of orders it found, and whether it found
                     \* one leg an account and no order that may open another

flatten == <<round, seen, how, inherited>>

FlattenInit ==
    /\ round = 0 /\ seen = [p \in Party |-> 0] /\ how = "not_called"
    /\ inherited = [orders |-> 0, tidy |-> FALSE]

OneLegged == \A p \in Party : pos[p]["long"] = 0 \/ pos[p]["short"] = 0
NothingOpens == \A i \in DOMAIN orders : orders[i].opens => ~Live(i)

\* The call.
BeginFlatten ==
    /\ how = "not_called"
    /\ pc' = "readA" /\ how' = "running"
    /\ inherited' = [orders |-> Len(orders), tidy |-> OneLegged /\ NothingOpens]
    /\ UNCHANGED <<exchange, posts, round, seen>>

-----------------------------------------------------------------------------
Smaller(m, n) == IF m < n THEN m ELSE n

ReadsLong(net) == {p \in Party : net[p] > 0}
ReadsShort(net) == {p \in Party : net[p] < 0}

\* Mutants: one flat account is taken for two; the orders of a round may open.
EitherFlat(net) == \E p \in Party : net[p] = 0
MayOpen == TRUE

BothFlat(net) == \A p \in Party : net[p] = 0
Opening == FALSE

End(outcome) == pc' = "ended" /\ how' = outcome

\* get_perp_positions for a ...
ReadA ==
    /\ pc = "readA"
    /\ seen' = [seen EXCEPT ![a] = Net(a)]
    /\ pc' = "readB"
    /\ UNCHANGED <<exchange, posts, round, how, inherited>>

\* ... and for b; then the branches of the round.
ReadB ==
    /\ pc = "readB"
    /\ seen' = [seen EXCEPT ![b] = Net(b)]
    /\ IF BothFlat(seen') THEN End("flat")
       ELSE /\ how' = how
            /\ pc' = IF ReadsLong(seen') = {} \/ ReadsShort(seen') = {}
                     THEN "closeA" ELSE "bid"
    /\ UNCHANGED <<exchange, posts, round, inherited>>

LongHolder == CHOOSE p \in Party : seen[p] > 0
ShortHolder == CHOOSE p \in Party : seen[p] < 0
Size == Smaller(seen[LongHolder], -seen[ShortHolder])

PlaceBid == Place(ShortHolder, "short", Opening, TRUE, Size)
PlaceSell == Place(LongHolder, "long", Opening, FALSE, Size)

\* Either order was accepted, its answer is lost, and the client posts it again.
OrderAgain ==
    /\ (pc = "bid" /\ PlaceBid) \/ (pc = "sell" /\ PlaceSell)
    /\ Repeats
    /\ UNCHANGED <<pos, pc, posts, flatten>>

RestBid ==
    /\ pc = "bid"
    /\ PlaceBid
    /\ pc' = "sell"
    /\ UNCHANGED <<pos, repeats, posts, round, seen, how, inherited>>

SellIntoBid ==
    /\ pc = "sell"
    /\ PlaceSell
    /\ pc' = "wait"
    /\ UNCHANGED <<pos, repeats, posts, round, seen, how, inherited>>

\* The next round, if any.
WaitOver ==
    /\ pc = "wait" /\ WaitEnds(Len(orders))
    /\ round' = round + 1
    /\ pc' = IF round + 1 < MaxRounds THEN "readA" ELSE "closeA"
    /\ UNCHANGED <<exchange, posts, seen, how, inherited>>

CloseA ==
    /\ CloseTurn(a, "closeA", "closeB")
    /\ UNCHANGED <<round, seen, how, inherited>>

CloseB ==
    /\ CloseTurn(b, "closeB", "ended")
    /\ how' = IF pc' = "ended" THEN "closed" ELSE how
    /\ UNCHANGED <<round, seen, inherited>>

\* A read or a post raises (an order may have been accepted all the same): the
\* function returns there and then.
GiveUp ==
    /\ pc \in {"readA", "readB", "bid", "sell", "wait"}
    /\ End("gave_up")
    /\ \/ UNCHANGED orders
       \/ pc = "bid" /\ PlaceBid
       \/ pc = "sell" /\ PlaceSell
    /\ UNCHANGED <<pos, repeats, posts, round, seen, inherited>>

Teardown ==
    \/ ReadA \/ ReadB \/ RestBid \/ SellIntoBid \/ OrderAgain \/ WaitOver
    \/ CloseA \/ CloseB

FlattenRuns == {"readA", "readB", "bid", "sell", "wait", "closeA", "closeB"}

-----------------------------------------------------------------------------
FlattenTypeOK ==
    /\ how \in {"not_called", "running", "flat", "closed", "gave_up"}
    /\ round \in 0..MaxRounds
    /\ seen \in [Party -> Int]
    /\ inherited \in [orders : 0..Len(orders), tidy : BOOLEAN]

(***************************************************************************)
(* The teardown only takes exposure away: whatever the two stale reads, the*)
(* orders of earlier rounds and the partial fills, no leg grows except by  *)
(* an order the test had left in the book (docstring: "crossing opposing   *)
(* positions REDUCE-ONLY").                                                *)
(***************************************************************************)
LeftOver(p, leg) ==
    \E i \in 1..inherited.orders :
        orders[i].opens /\ orders[i].party = p /\ orders[i].leg = leg /\ Live(i)

Grows(p, leg) == pos'[p][leg] > pos[p][leg]

OnlyReduces == [][how # "not_called" =>
    \A p \in Party : \A leg \in Leg : Grows(p, leg) => LeftOver(p, leg)]_<<exchange, how>>

(***************************************************************************)
(* "return  # both flat": when the teardown returns because both accounts  *)
(* read flat, they are, and stay so -- although the two positions were     *)
(* read at different times and orders of earlier rounds still rest --      *)
(* provided each account held one leg (as after the volume driver: taker   *)
(* long, maker short) and no order that opens was left alive.              *)
(***************************************************************************)
AllFlat == \A p \in Party : pos[p] = NoPosition

FlatReturnIsFlat == how = "flat" /\ inherited.tidy => AllFlat

(***************************************************************************)
(* The comment on the early return, lib/perp.py:473: "both flat".          *)
(***************************************************************************)
BothFlatMeansFlat == how = "flat" => AllFlat
=============================================================================
