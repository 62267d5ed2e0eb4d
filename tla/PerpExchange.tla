---------------------------- MODULE PerpExchange ----------------------------
(***************************************************************************)
(* The perpetual market as the suites use it (external): accounts in hedge *)
(* mode hold a long and a short leg each, orders are matched some time     *)
(* after they are accepted, a unit of step_size at a time, against each    *)
(* other or against the outside world, and a reduce-only order trades only *)
(* while the leg it closes is open.                                        *)
(*                                                                         *)
(* Place is create_perp_order of lib/perp.py.  The four shapes of order    *)
(* the code sends fit one record: the leg it works on and whether it opens *)
(* that leg (reduce_only = False) or closes it (reduce_only = True).  It   *)
(* posts through a client that posts again when the answer is lost         *)
(* (ResilientHttp), although the order may have been accepted: PlaceAgain. *)
(***************************************************************************)
EXTENDS Integers, Sequences, FiniteSets

CONSTANTS Party,      \* accounts trading in this market
          MaxUnits,   \* bound: size of an order that opens a leg, in steps
          MaxRepeats, \* bound: posts carried out whose answer is lost and which are
                      \* posted again
          Unanswered  \* bound: the places among all orders at which that may happen

ASSUME ExchangeAssumption ==
    IsFiniteSet(Party) /\ MaxUnits \in Nat /\ MaxRepeats \in Nat

VARIABLES pos,     \* pos[p][leg]: units held
          orders,  \* every order accepted, in the order of acceptance
          repeats  \* history: posts carried out and posted again

exchange == <<pos, orders, repeats>>

Leg == {"long", "short"}
NoPosition == [leg \in Leg |-> 0]

Order == [party : Party, leg : Leg, opens : BOOLEAN,
          state : {"new", "resting", "done"}, rests : BOOLEAN,
          left : Nat,               \* not yet filled
          made : Nat, took : Nat]   \* filled as maker, as taker

ExchangeTypeOK ==
    /\ pos \in [Party -> [Leg -> Nat]]
    /\ orders \in Seq(Order)
    /\ repeats \in Nat

-----------------------------------------------------------------------------
\* The order record create_perp_order posts: type = "limit" rests, "market" does
\* not; opens is not reduce_only.
NewOrder(p, leg, opens, rests, units) ==
    [party |-> p, leg |-> leg, opens |-> opens, state |-> "new", rests |-> rests,
     left |-> units, made |-> 0, took |-> 0]

Accept(new) == orders' = orders \o new

Place(p, leg, opens, rests, units) ==
    Accept(<<NewOrder(p, leg, opens, rests, units)>>)

\* _send after an exception: the order was accepted, and the post is made once more.
Repeats ==
    /\ repeats < MaxRepeats /\ Len(orders) + 1 \in Unanswered
    /\ repeats' = repeats + 1

PlaceAgain(p, leg, opens, rests, units) == Repeats /\ Place(p, leg, opens, rests, units)

Buys(o) == (o.leg = "long") = o.opens

\* A reduce-only order trades only against a leg that is still open.
CanTrade(o) ==
    /\ o.left > 0 /\ o.state # "done"
    /\ o.opens \/ pos[o.party][o.leg] > 0

Traded(o, role) ==
    [o EXCEPT !.left = @ - 1, ![role] = @ + 1,
              !.state = IF o.left = 1 THEN "done" ELSE @]
Moved(o) == IF o.opens THEN 1 ELSE -1

-----------------------------------------------------------------------------
\* Two of our orders cross: i has just arrived, m rests on the other side.
Cross(i, m) ==
    /\ orders[i].state = "new" /\ orders[m].state = "resting"
    /\ orders[i].party # orders[m].party
    /\ Buys(orders[i]) # Buys(orders[m])
    /\ CanTrade(orders[i]) /\ CanTrade(orders[m])
    /\ orders' = [orders EXCEPT ![i] = Traded(@, "took"), ![m] = Traded(@, "made")]
    /\ pos' = [pos EXCEPT ![orders[i].party][orders[i].leg] = @ + Moved(orders[i]),
                          ![orders[m].party][orders[m].leg] = @ + Moved(orders[m])]

\* One of our orders trades with an outsider: as taker on arrival, as maker once
\* it rests.
CrossOutside(i) ==
    /\ CanTrade(orders[i])
    /\ orders' = [orders EXCEPT ![i] =
                     Traded(@, IF @.state = "new" THEN "took" ELSE "made")]
    /\ pos' = [pos EXCEPT ![orders[i].party][orders[i].leg] = @ + Moved(orders[i])]

\* Matching of an arrival is over: what is left of a limit order rests (good till
\* cancelled, and nothing in the code cancels it), what is left of a market
\* order lapses.
Settle(i) ==
    /\ orders[i].state = "new"
    /\ orders' = [orders EXCEPT ![i].state =
                     IF orders[i].rests THEN "resting" ELSE "done"]
    /\ UNCHANGED pos

\* Orders are matched in the order of their acceptance; those that rest may trade
\* at any time.
Turn(i) == \A j \in 1..(i - 1) : orders[j].state # "new"

Match == \E i \in DOMAIN orders :
    /\ Turn(i)
    /\ \/ \E m \in DOMAIN orders : Cross(i, m)
       \/ CrossOutside(i)
       \/ Settle(i)
    /\ UNCHANGED repeats

-----------------------------------------------------------------------------
Filled(o) == o.made + o.took
Live(i) == orders[i].state # "done" /\ orders[i].left > 0

\* wait_for_perp_fill on the order i may end at any time: when the fill shows, when
\* a part of it does, or when the time is up.  Mutant: only when it shows.
WaitForFill(i) == Filled(orders[i]) > 0
WaitEnds(i) == TRUE

\* The units of the amounts n[i], told apart, and how many they are.
Units(n) == {u \in (DOMAIN n) \X (1..MaxUnits) : u[2] <= n[u[1]]}
Total(n) == Cardinality(Units(n))

FilledIn(S) == [i \in S |-> Filled(orders[i])]

\* Every unit held was filled by an order that opens the leg, and not yet by one that
\* closes it.  With the typing, and with no order larger than MaxUnits, this is
\* inductive: what the proofs about modules that trade from nothing start with.
LegOrders(p, leg, opens) ==
    {i \in DOMAIN orders : orders[i].party = p /\ orders[i].leg = leg /\ orders[i].opens = opens}

PosIsFilled == \A p \in Party : \A leg \in Leg :
    pos[p][leg] + Total(FilledIn(LegOrders(p, leg, FALSE)))
        = Total(FilledIn(LegOrders(p, leg, TRUE)))

OrdersBounded == \A i \in DOMAIN orders : orders[i].left + Filled(orders[i]) <= MaxUnits

ExchangeInv == ExchangeTypeOK /\ OrdersBounded /\ PosIsFilled

\* _net_perp_position: long minus short.
Net(p) == pos[p]["long"] - pos[p]["short"]
=============================================================================
