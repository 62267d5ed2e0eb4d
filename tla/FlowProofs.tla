----------------------------- MODULE FlowProofs -----------------------------
(***************************************************************************)
(* Proofs about the capture of a maker fill and the teardown of the two    *)
(* accounts, for any leftovers, sizes, attempts, rounds and posts, from    *)
(* one inductive invariant: the book and what a step may do to it; the     *)
(* invariant; a step of the capture; a step of the teardown; a step of the *)
(* exchange; and what follows for every run.                               *)
(***************************************************************************)
EXTENDS FeeTierFlow, FiniteSetTheorems, SequenceTheorems, TLAPS

-----------------------------------------------------------------------------
(* The book.                                                               *)

\* The order o, later: the same order, its units accounted for, and not revived.
Kept(o, later) ==
    /\ later.party = o.party /\ later.leg = o.leg
    /\ later.opens = o.opens /\ later.rests = o.rests
    /\ later.left + Filled(later) = o.left + Filled(o)
    /\ later.left > 0 /\ later.state # "done" => o.left > 0 /\ o.state # "done"

\* Orders are added at the end, and those there are kept; repeats are counted.
BookKept ==
    /\ orders' \in Seq(Order) /\ repeats' \in Nat
    /\ Len(orders') >= Len(orders)
    /\ \A i \in 1..Len(orders) : Kept(orders[i], orders'[i])

Added == (Len(orders) + 1)..Len(orders')
NothingOpened == \A i \in Added : ~orders'[i].opens

GrowthExplained == \A p \in Party : \A leg \in Leg : Grows(p, leg) =>
    \E i \in DOMAIN orders :
        orders[i].opens /\ orders[i].party = p /\ orders[i].leg = leg /\ Live(i)

LEMMA BookIsFunction ==
    ASSUME ExchangeTypeOK
    PROVE  /\ Len(orders) \in Nat /\ DOMAIN orders = 1..Len(orders)
           /\ orders \in [1..Len(orders) -> Order]
           /\ \A f \in [1..Len(orders) -> Order] : f \in Seq(Order) /\ Len(f) = Len(orders)
BY SeqDef, LenProperties DEF ExchangeTypeOK

LEMMA OrderParts ==
    ASSUME NEW o \in Order
    PROVE  /\ o.party \in Party /\ o.leg \in Leg /\ o.opens \in BOOLEAN /\ o.rests \in BOOLEAN
           /\ o.left \in Nat /\ o.made \in Nat /\ o.took \in Nat /\ Filled(o) \in Nat
           /\ o.state \in {"new", "resting", "done"}
<1>1. /\ o.party \in Party /\ o.leg \in Leg /\ o.opens \in BOOLEAN /\ o.rests \in BOOLEAN
      /\ o.left \in Nat /\ o.made \in Nat /\ o.took \in Nat
      /\ o.state \in {"new", "resting", "done"}
  BY DEF Order
<1>2. QED
  BY <1>1 DEF Filled

LEMMA TradedIsKept ==
    ASSUME NEW o \in Order, o.left > 0, o.state # "done", NEW role \in {"took", "made"}
    PROVE  Traded(o, role) \in Order /\ Kept(o, Traded(o, role))
<1>1. /\ o.left \in Nat /\ o.made \in Nat /\ o.took \in Nat
      /\ o.state \in {"new", "resting", "done"}
  BY OrderParts
<1> DEFINE st == IF o.left = 1 THEN "done" ELSE o.state
<1>2. st \in {"new", "resting", "done"}
  BY <1>1
<1>3. CASE role = "took"
  <2> DEFINE r == [o EXCEPT !.left = o.left - 1, !.took = o.took + 1, !.state = st]
  <2>1. Traded(o, role) = r
    BY <1>3 DEF Traded
  <2>2. o.left - 1 \in Nat /\ o.took + 1 \in Nat
    BY <1>1
  <2> HIDE DEF st
  <2>3. r \in Order
    BY <1>2, <2>2 DEF Order
  <2>4. /\ r.left = o.left - 1 /\ r.took = o.took + 1 /\ r.made = o.made
        /\ r.party = o.party /\ r.leg = o.leg /\ r.opens = o.opens /\ r.rests = o.rests
    BY DEF Order
  <2> HIDE DEF r
  <2>5. QED
    BY <1>1, <2>1, <2>3, <2>4 DEF Kept, Filled
<1>4. CASE role = "made"
  <2> DEFINE r == [o EXCEPT !.left = o.left - 1, !.made = o.made + 1, !.state = st]
  <2>1. Traded(o, role) = r
    BY <1>4 DEF Traded
  <2>2. o.left - 1 \in Nat /\ o.made + 1 \in Nat
    BY <1>1
  <2> HIDE DEF st
  <2>3. r \in Order
    BY <1>2, <2>2 DEF Order
  <2>4. /\ r.left = o.left - 1 /\ r.made = o.made + 1 /\ r.took = o.took
        /\ r.party = o.party /\ r.leg = o.leg /\ r.opens = o.opens /\ r.rests = o.rests
    BY DEF Order
  <2> HIDE DEF r
  <2>5. QED
    BY <1>1, <2>1, <2>3, <2>4 DEF Kept, Filled
<1>5. QED
  BY <1>3, <1>4

LEMMA KeptAsIs ==
    ASSUME NEW o
    PROVE  Kept(o, o)
BY DEF Kept

\* What an order that trades needs, and does to the leg it works on.
LEMMA TraderParts ==
    ASSUME ExchangeTypeOK, NEW i \in DOMAIN orders, CanTrade(orders[i])
    PROVE  /\ orders[i] \in Order /\ orders[i].party \in Party /\ orders[i].leg \in Leg
           /\ orders[i].left > 0 /\ orders[i].state # "done" /\ Live(i)
           /\ pos[orders[i].party][orders[i].leg] + Moved(orders[i]) \in Nat
           /\ ~orders[i].opens => pos[orders[i].party][orders[i].leg] + Moved(orders[i])
                                    < pos[orders[i].party][orders[i].leg]
<1>1. orders[i] \in Order
  BY BookIsFunction
<1>2. /\ orders[i].party \in Party /\ orders[i].leg \in Leg /\ orders[i].opens \in BOOLEAN
  BY <1>1, OrderParts
<1>3. pos[orders[i].party][orders[i].leg] \in Nat
  BY <1>2 DEF ExchangeTypeOK
<1>4. QED
  BY <1>1, <1>2, <1>3 DEF CanTrade, Moved, Live

\* A step of the exchange keeps the book, and no leg grows but by a live order that
\* opens it.
LEMMA MatchKeeps ==
    ASSUME ExchangeTypeOK, Match
    PROVE  ExchangeTypeOK' /\ BookKept /\ Len(orders') = Len(orders) /\ GrowthExplained
<1>0. PICK i \in DOMAIN orders : \/ \E m \in DOMAIN orders : Cross(i, m)
                                 \/ CrossOutside(i)
                                 \/ Settle(i)
  BY DEF Match
<1>1. /\ DOMAIN orders = 1..Len(orders) /\ orders \in [1..Len(orders) -> Order]
      /\ Len(orders) \in Nat
      /\ \A f \in [1..Len(orders) -> Order] : f \in Seq(Order) /\ Len(f) = Len(orders)
      /\ pos \in [Party -> [Leg -> Nat]] /\ repeats' \in Nat
  BY BookIsFunction DEF ExchangeTypeOK, Match
<1>k. \A o : Kept(o, o)
  BY KeptAsIs
<1>2. CASE Settle(i)
  <2> DEFINE s == IF orders[i].rests THEN "resting" ELSE "done"
             r == [orders[i] EXCEPT !.state = s]
  <2>1. r \in Order /\ Kept(orders[i], r)
    <3>1. orders[i] \in Order /\ orders[i].state = "new"
      BY <1>1, <1>2 DEF Settle
    <3>2. /\ r \in Order /\ r.left = orders[i].left /\ Filled(r) = Filled(orders[i])
          /\ r.party = orders[i].party /\ r.leg = orders[i].leg
          /\ r.opens = orders[i].opens /\ r.rests = orders[i].rests
      BY <3>1 DEF Order, Filled
    <3> HIDE DEF r
    <3>3. QED
      BY <3>1, <3>2 DEF Kept
  <2>2. orders' = [orders EXCEPT ![i] = r] /\ pos' = pos
    BY <1>2 DEF Settle
  <2> HIDE DEF r
  <2>3. orders' \in [1..Len(orders) -> Order] /\ \A j \in 1..Len(orders) : Kept(orders[j], orders'[j])
    BY <1>1, <1>k, <2>1, <2>2
  <2>4. orders' \in Seq(Order) /\ Len(orders') = Len(orders)
    BY <1>1, <2>3
  <2>5. GrowthExplained
    BY <1>1, <2>2 DEF GrowthExplained, Grows
  <2>6. QED
    BY <1>1, <2>2, <2>3, <2>4, <2>5 DEF ExchangeTypeOK, BookKept
<1>3. CASE CrossOutside(i)
  <2> DEFINE role == IF orders[i].state = "new" THEN "took" ELSE "made"
             r == Traded(orders[i], role)
             p == orders[i].party
             l == orders[i].leg
             n == pos[p][l] + Moved(orders[i])
  <2>1. /\ orders[i] \in Order /\ p \in Party /\ l \in Leg
        /\ orders[i].left > 0 /\ orders[i].state # "done" /\ Live(i)
        /\ n \in Nat /\ (~orders[i].opens => n < pos[p][l])
    BY <1>3, TraderParts DEF CrossOutside
  <2>2. orders' = [orders EXCEPT ![i] = r] /\ pos' = [pos EXCEPT ![p][l] = n]
    BY <1>3 DEF CrossOutside
  <2>3. r \in Order /\ Kept(orders[i], r)
    BY <2>1, TradedIsKept
  <2> HIDE DEF r, n
  <2>4. orders' \in [1..Len(orders) -> Order] /\ \A j \in 1..Len(orders) : Kept(orders[j], orders'[j])
    BY <1>1, <1>k, <2>2, <2>3
  <2>5. orders' \in Seq(Order) /\ Len(orders') = Len(orders)
    BY <1>1, <2>4
  <2>6. pos' \in [Party -> [Leg -> Nat]]
    BY <1>1, <2>1, <2>2
  <2>7. ASSUME NEW q \in Party, NEW k \in Leg, Grows(q, k)
        PROVE  orders[i].opens /\ orders[i].party = q /\ orders[i].leg = k /\ Live(i)
    <3>1. pos[q][k] \in Nat /\ pos[p][l] \in Nat
      BY <1>1, <2>1
    <3>2. ~(q = p /\ k = l) => pos'[q][k] = pos[q][k]
      BY <1>1, <2>1, <2>2
    <3>3. q = p /\ k = l
      BY <2>7, <3>1, <3>2 DEF Grows
    <3>4. pos'[q][k] = n
      BY <1>1, <2>1, <2>2, <3>3
    <3> HIDE DEF p, l
    <3>5. orders[i].opens
      BY <2>1, <2>7, <3>1, <3>3, <3>4 DEF Grows
    <3>6. QED
      BY <2>1, <3>3, <3>5 DEF p, l
  <2>8. GrowthExplained
    BY <2>7 DEF GrowthExplained
  <2>9. QED
    BY <1>1, <2>4, <2>5, <2>6, <2>8 DEF ExchangeTypeOK, BookKept
<1>4. ASSUME NEW m \in DOMAIN orders, Cross(i, m)
      PROVE  ExchangeTypeOK' /\ BookKept /\ Len(orders') = Len(orders) /\ GrowthExplained
  <2> DEFINE r == Traded(orders[i], "took")
             s == Traded(orders[m], "made")
             p == orders[i].party
             l == orders[i].leg
             n == pos[p][l] + Moved(orders[i])
             q == orders[m].party
             k == orders[m].leg
             c == pos[q][k] + Moved(orders[m])
  <2>1. /\ orders[i] \in Order /\ p \in Party /\ l \in Leg
        /\ orders[i].left > 0 /\ orders[i].state # "done" /\ Live(i)
        /\ n \in Nat /\ (~orders[i].opens => n < pos[p][l])
    BY <1>4, TraderParts DEF Cross
  <2>2. /\ orders[m] \in Order /\ q \in Party /\ k \in Leg
        /\ orders[m].left > 0 /\ orders[m].state # "done" /\ Live(m)
        /\ c \in Nat /\ (~orders[m].opens => c < pos[q][k])
    BY <1>4, TraderParts DEF Cross
  <2>3. p # q /\ i # m
    BY <1>4 DEF Cross
  <2>4. orders' = [orders EXCEPT ![i] = r, ![m] = s]
    BY <1>4, <2>3 DEF Cross
  <2>5. pos' = [pos EXCEPT ![p][l] = n, ![q][k] = c]
    BY <1>1, <1>4, <2>1, <2>2, <2>3 DEF Cross
  <2>6. r \in Order /\ Kept(orders[i], r) /\ s \in Order /\ Kept(orders[m], s)
    BY <2>1, <2>2, TradedIsKept
  <2> HIDE DEF r, s, n, c
  <2>7. orders' \in [1..Len(orders) -> Order] /\ \A j \in 1..Len(orders) : Kept(orders[j], orders'[j])
    BY <1>1, <1>k, <2>3, <2>4, <2>6
  <2>8. orders' \in Seq(Order) /\ Len(orders') = Len(orders)
    BY <1>1, <2>7
  <2> HIDE DEF p, l, q, k
  <2>9. /\ pos' \in [Party -> [Leg -> Nat]] /\ pos'[p][l] = n /\ pos'[q][k] = c
        /\ \A u \in Party : \A v \in Leg :
              ~(u = p /\ v = l) /\ ~(u = q /\ v = k) => pos'[u][v] = pos[u][v]
    BY <1>1, <2>1, <2>2, <2>3, <2>5
  <2>10. ASSUME NEW u \in Party, NEW v \in Leg, Grows(u, v)
         PROVE  \/ orders[i].opens /\ orders[i].party = u /\ orders[i].leg = v /\ Live(i)
                \/ orders[m].opens /\ orders[m].party = u /\ orders[m].leg = v /\ Live(m)
    <3>1. pos[u][v] \in Nat
      BY <1>1
    <3>2. (u = p /\ v = l) \/ (u = q /\ v = k)
      BY <2>9, <2>10, <3>1 DEF Grows
    <3>3. ASSUME u = p, v = l
          PROVE  orders[i].opens /\ orders[i].party = u /\ orders[i].leg = v /\ Live(i)
      <4>1. pos[p][l] \in Nat /\ n > pos[p][l]
        BY <2>9, <2>10, <3>1, <3>3 DEF Grows
      <4>2. orders[i].opens
        BY <2>1, <4>1
      <4>3. QED
        BY <2>1, <3>3, <4>2 DEF p, l
    <3>4. ASSUME u = q, v = k
          PROVE  orders[m].opens /\ orders[m].party = u /\ orders[m].leg = v /\ Live(m)
      <4>1. pos[q][k] \in Nat /\ c > pos[q][k]
        BY <2>9, <2>10, <3>1, <3>4 DEF Grows
      <4>2. orders[m].opens
        BY <2>2, <4>1
      <4>3. QED
        BY <2>2, <3>4, <4>2 DEF q, k
    <3>5. QED
      BY <3>2, <3>3, <3>4
  <2>11. GrowthExplained
    BY <2>10 DEF GrowthExplained
  <2>12. QED
    BY <1>1, <2>7, <2>8, <2>9, <2>11 DEF ExchangeTypeOK, BookKept
<1>5. QED
  BY <1>0, <1>2, <1>3, <1>4

\* Accepting orders keeps the book.
LEMMA AcceptKeeps ==
    ASSUME ExchangeTypeOK, NEW new \in Seq(Order), Accept(new), repeats' \in Nat
    PROVE  /\ BookKept /\ Len(orders') = Len(orders) + Len(new)
           /\ \A i \in 1..Len(orders) : orders'[i] = orders[i]
           /\ \A i \in Added : i - Len(orders) \in DOMAIN new /\ orders'[i] = new[i - Len(orders)]
<1>1. orders \in Seq(Order) /\ orders' = orders \o new
  BY DEF ExchangeTypeOK, Accept
<1>2. /\ orders' \in Seq(Order) /\ Len(orders') = Len(orders) + Len(new)
      /\ Len(orders) \in Nat /\ Len(new) \in Nat /\ DOMAIN new = 1..Len(new)
  BY <1>1, LenProperties, ConcatProperties
<1>3. \A i \in 1..Len(orders') :
          orders'[i] = IF i <= Len(orders) THEN orders[i] ELSE new[i - Len(orders)]
  BY <1>1, ConcatProperties
<1>4. \A i \in 1..Len(orders) : i \in 1..Len(orders') /\ i <= Len(orders)
  BY <1>2
<1>5. \A i \in 1..Len(orders) : orders'[i] = orders[i]
  BY <1>3, <1>4
<1>6. \A i \in Added : i \in 1..Len(orders') /\ ~(i <= Len(orders)) /\ i - Len(orders) \in 1..Len(new)
  BY <1>2 DEF Added
<1>7. \A i \in 1..Len(orders) : Kept(orders[i], orders'[i])
  BY <1>5, KeptAsIs
<1>8. Len(orders') >= Len(orders)
  BY <1>2
<1>9. QED
  BY <1>2, <1>3, <1>5, <1>6, <1>7, <1>8 DEF BookKept

LEMMA PlaceKeeps ==
    ASSUME ExchangeTypeOK, NEW p \in Party, NEW leg \in Leg, NEW opens \in BOOLEAN,
           NEW rests \in BOOLEAN, NEW units \in Nat, Place(p, leg, opens, rests, units),
           repeats' \in Nat
    PROVE  /\ BookKept /\ Len(orders') = Len(orders) + 1
           /\ \A i \in 1..Len(orders) : orders'[i] = orders[i]
           /\ orders'[Len(orders) + 1] = NewOrder(p, leg, opens, rests, units)
           /\ \A i \in Added : i = Len(orders) + 1
<1> DEFINE o == NewOrder(p, leg, opens, rests, units)
<1>1. o \in Order
  BY DEF NewOrder, Order
<1>2. Accept(<<o>>)
  BY DEF Place
<1> HIDE DEF o
<1>3. <<o>> \in Seq(Order) /\ Len(<<o>>) = 1 /\ <<o>>[1] = o
  BY <1>1
<1>4. /\ BookKept /\ Len(orders') = Len(orders) + 1
      /\ \A i \in 1..Len(orders) : orders'[i] = orders[i]
      /\ \A i \in Added : orders'[i] = <<o>>[i - Len(orders)]
  BY <1>2, <1>3, AcceptKeeps
<1>5. Len(orders) \in Nat
  BY BookIsFunction
<1>6. \A i \in Added : i = Len(orders) + 1
  BY <1>4, <1>5 DEF Added
<1>7. Len(orders) + 1 \in Added /\ (Len(orders) + 1) - Len(orders) = 1
  BY <1>4, <1>5 DEF Added
<1>8. orders'[Len(orders) + 1] = <<o>>[1]
  BY <1>4, <1>7
<1>9. QED
  BY <1>3, <1>4, <1>6, <1>8 DEF o

\* The orders of the close endpoint open nothing.
LEMMA SubmitKeeps ==
    ASSUME ExchangeTypeOK, NEW p \in Party, NEW partial, SubmitCloses(p, partial), repeats' \in Nat
    PROVE  BookKept /\ NothingOpened /\ pos' = pos
<1>1. PICK S \in SUBSET OpenLegs(p) : Accept(CloseOrders(p, S)) /\ pos' = pos
  BY DEF SubmitCloses
<1> DEFINE x == NewOrder(p, "long", FALSE, FALSE, pos[p]["long"])
           y == NewOrder(p, "short", FALSE, FALSE, pos[p]["short"])
           u == IF "long" \in S THEN <<x>> ELSE <<>>
           v == IF "short" \in S THEN <<y>> ELSE <<>>
           new == u \o v
<1>2. x \in Order /\ y \in Order /\ ~x.opens /\ ~y.opens
  <2>1. pos[p]["long"] \in Nat /\ pos[p]["short"] \in Nat
    BY DEF ExchangeTypeOK, Leg
  <2>2. QED
    BY <2>1 DEF NewOrder, Order, Leg
<1>3. Accept(new)
  BY <1>1 DEF CloseOrders
<1> HIDE DEF x, y
<1>4. new \in Seq(Order) /\ \A i \in DOMAIN new : new[i] \in {x, y}
  <2>1. u \in Seq({x, y}) /\ v \in Seq({x, y})
    <3>1. /\ <<x>> \in Seq({x, y}) /\ <<y>> \in Seq({x, y})
          /\ <<>> \in Seq({x, y})
      BY EmptySeq
    <3>2. QED
      BY <3>1
  <2> HIDE DEF u, v
  <2>2. new \in Seq({x, y})
    BY <2>1, ConcatProperties
  <2> HIDE DEF new
  <2>3. \A i \in DOMAIN new : new[i] \in {x, y}
    BY <2>2
  <2>4. new \in Seq(Order)
    BY <1>2, <2>2, SeqDef
  <2>5. QED
    BY <2>3, <2>4
<1> HIDE DEF new
<1>5. /\ BookKept
      /\ \A i \in Added : i - Len(orders) \in DOMAIN new /\ orders'[i] = new[i - Len(orders)]
  BY <1>3, <1>4, AcceptKeeps
<1>6. QED
  BY <1>1, <1>2, <1>4, <1>5 DEF NothingOpened

LEMMA BookAsIs ==
    ASSUME ExchangeTypeOK, orders' = orders, repeats' \in Nat
    PROVE  BookKept /\ Added = {}
<1>1. Len(orders) \in Nat /\ orders \in Seq(Order)
  BY BookIsFunction DEF ExchangeTypeOK
<1>2. Len(orders') >= Len(orders) /\ Added = {}
  BY <1>1 DEF Added
<1>3. QED
  BY <1>1, <1>2, KeptAsIs DEF BookKept

\* A turn of the close loop.
LEMMA CloseTurnKeeps ==
    ASSUME ExchangeTypeOK, posts \in 0..(MaxPosts - 1), NEW p \in Party, NEW here, NEW next,
           CloseTurn(p, here, next)
    PROVE  /\ pc = here /\ pc' \in {here, next} /\ posts' \in 0..(MaxPosts - 1)
           /\ BookKept /\ NothingOpened /\ pos' = pos
<1>1. pc = here /\ pc' \in {here, next}
  BY DEF CloseTurn
<1>2. repeats' \in Nat
  <2>1. repeats' = repeats \/ repeats' = repeats + 1
    BY DEF CloseTurn, Repeats, exchange
  <2>2. QED
    BY <2>1 DEF ExchangeTypeOK
<1>3. MaxPosts \in Nat \ {0}
  BY CloseAssumption DEF CloseAssumption
<1>4. posts' = 0 \/ posts' = posts \/ (OneMore /\ posts' = posts + 1)
  BY DEF CloseTurn
<1>5. posts' \in 0..(MaxPosts - 1)
  BY <1>3, <1>4 DEF OneMore
<1>6. (\E partial \in BOOLEAN : SubmitCloses(p, partial)) \/ UNCHANGED exchange
  BY DEF CloseTurn
<1>7. BookKept /\ NothingOpened /\ pos' = pos
  <2>1. CASE UNCHANGED exchange
    BY <1>2, <2>1, BookAsIs DEF exchange, NothingOpened
  <2>2. CASE \E partial \in BOOLEAN : SubmitCloses(p, partial)
    BY <1>2, <2>2, SubmitKeeps
  <2>3. QED
    BY <1>6, <2>1, <2>2
<1>8. QED
  BY <1>1, <1>5, <1>7

-----------------------------------------------------------------------------
(* The invariant.                                                          *)

RoundPlaces == {"readA", "readB", "bid", "sell", "wait"}
Closing == {"closeSubject", "closeMaker"}

\* Which of the two functions runs; rounds are bounded; a pair of orders is only
\* placed between two accounts on either side.
StageGroup ==
    /\ how = "not_called" => pc \in CaptureRuns \cup CaptureEnded /\ round = 0
    /\ how = "running" => pc \in FlattenRuns
    /\ how \in {"flat", "closed", "gave_up"} => pc = "ended"
    /\ pc \in RoundPlaces => round < MaxRounds
    /\ pc \in {"bid", "sell"} => ReadsLong(seen) # {} /\ ReadsShort(seen) # {}

\* The order that is watched is a sell of this attempt, and accounts for its amount.
Watched ==
    /\ mine \in DOMAIN orders /\ mine > began
    /\ orders[mine].party = Subject /\ orders[mine].rests /\ orders[mine].opens
    /\ orders[mine].left + Filled(orders[mine]) = amount

CaptureGroup ==
    /\ pc \in {"lift", "watch"} => Watched
    /\ CapturedIsThisAttempts

\* What opens a leg was there when the teardown began; on a tidy pair nothing opens
\* one, so that what has been read flat stays flat.
Flat(p) == \A leg \in Leg : pos[p][leg] = 0

TeardownGroup ==
    /\ how # "not_called" =>
          \A i \in DOMAIN orders : orders[i].opens => i <= inherited.orders
    /\ how # "not_called" /\ inherited.tidy => OneLegged /\ NothingOpens
    /\ pc = "readB" /\ inherited.tidy /\ seen[a] = 0 => Flat(a)
    /\ how = "flat" /\ inherited.tidy => \A p \in Party : Flat(p)

FlowIInv == TypeOK /\ StageGroup /\ CaptureGroup /\ TeardownGroup

LEMMA Constants ==
    /\ Party = {a, b} /\ a # b /\ a = Subject /\ b = Maker /\ Subject \in Party /\ Maker \in Party
    /\ MaxRounds \in Nat \ {0} /\ MaxAttempts \in Nat /\ MaxPosts \in Nat \ {0}
    /\ MaxUnits \in Nat /\ Sizes \subseteq 1..MaxUnits
<1>1. Party = {a, b} /\ a # b /\ a = Subject /\ b = Maker /\ MaxRounds \in Nat \ {0}
  BY FlattenAssumption, FlowAssumption DEF FlattenAssumption, FlowAssumption
<1>2. /\ MaxAttempts \in Nat /\ MaxPosts \in Nat \ {0}
      /\ MaxUnits \in Nat /\ Sizes \subseteq 1..MaxUnits
  BY CaptureAssumption, CloseAssumption, ExchangeAssumption
     DEF CaptureAssumption, CloseAssumption, ExchangeAssumption
<1>3. QED
  BY <1>1, <1>2

LEMMA CaptureNotCalled ==
    ASSUME FlowIInv, pc \in CaptureRuns \cup CaptureEnded
    PROVE  how = "not_called" /\ round = 0
<1>1. how \in {"not_called", "running", "flat", "closed", "gave_up"}
  BY DEF FlowIInv, TypeOK, FlattenTypeOK
<1>2. pc \notin FlattenRuns /\ pc # "ended"
  BY DEF CaptureRuns, CaptureEnded, FlattenRuns
<1>3. QED
  BY <1>1, <1>2 DEF FlowIInv, StageGroup

LEMMA FlattenIsRunning ==
    ASSUME FlowIInv, pc \in FlattenRuns
    PROVE  how = "running"
<1>1. how \in {"not_called", "running", "flat", "closed", "gave_up"}
  BY DEF FlowIInv, TypeOK, FlattenTypeOK
<1>2. pc \notin CaptureRuns \cup CaptureEnded /\ pc # "ended"
  BY DEF CaptureRuns, CaptureEnded, FlattenRuns
<1>3. QED
  BY <1>1, <1>2 DEF FlowIInv, StageGroup

LEMMA BookLengths ==
    ASSUME ExchangeTypeOK, BookKept
    PROVE  /\ Len(orders) \in Nat /\ Len(orders') \in Nat /\ Len(orders) <= Len(orders')
           /\ DOMAIN orders = 1..Len(orders) /\ DOMAIN orders' = 1..Len(orders')
           /\ \A i \in 1..Len(orders) : i \in 1..Len(orders')
           /\ \A i \in 1..Len(orders') : i \in 1..Len(orders) \/ i \in Added
<1>1. Len(orders) \in Nat /\ DOMAIN orders = 1..Len(orders)
  BY BookIsFunction
<1>2. Len(orders') \in Nat /\ DOMAIN orders' = 1..Len(orders') /\ Len(orders') >= Len(orders)
  BY LenProperties DEF BookKept
<1>3. QED
  BY <1>1, <1>2 DEF Added

LEMMA CaptureTypeStays ==
    ASSUME ExchangeTypeOK, BookKept, CaptureTypeOK, UNCHANGED capture
    PROVE  CaptureTypeOK'
<1>1. Len(orders) \in Nat /\ Len(orders') \in Nat /\ Len(orders) <= Len(orders')
  BY BookLengths
<1>2. mine \in 0..Len(orders) /\ began \in 0..Len(orders)
  BY DEF CaptureTypeOK
<1>3. mine \in 0..Len(orders') /\ began \in 0..Len(orders')
  BY <1>1, <1>2
<1>4. QED
  BY <1>3 DEF CaptureTypeOK, capture

LEMMA InheritedStays ==
    ASSUME ExchangeTypeOK, BookKept, FlattenTypeOK
    PROVE  inherited \in [orders : 0..Len(orders'), tidy : BOOLEAN]
<1>1. Len(orders) \in Nat /\ Len(orders') \in Nat /\ Len(orders) <= Len(orders')
  BY BookLengths
<1>2. inherited \in [orders : 0..Len(orders), tidy : BOOLEAN]
  BY DEF FlattenTypeOK
<1>3. 0..Len(orders) \subseteq 0..Len(orders')
  BY <1>1
<1>4. QED
  BY <1>2, <1>3

LEMMA FlattenTypeStays ==
    ASSUME ExchangeTypeOK, BookKept, FlattenTypeOK, UNCHANGED flatten
    PROVE  FlattenTypeOK'
BY InheritedStays DEF FlattenTypeOK, flatten

-----------------------------------------------------------------------------
(* A step of the capture.                                                  *)

\* What such a step leaves alone, and what is left to show of it.
LEMMA CaptureStep ==
    ASSUME FlowIInv, pc \in CaptureRuns, pc' \in CaptureRuns \cup CaptureEnded,
           UNCHANGED flatten, BookKept, pos' = pos, posts' \in 0..(MaxPosts - 1),
           CaptureTypeOK', CaptureGroup'
    PROVE  FlowIInv'
<1>1. ExchangeTypeOK'
  BY DEF FlowIInv, TypeOK, ExchangeTypeOK, BookKept
<1>2. FlattenTypeOK'
  BY FlattenTypeStays DEF FlowIInv, TypeOK
<1>3. TypeOK'
  BY <1>1, <1>2 DEF TypeOK
<1>4. how' = "not_called" /\ round' = 0
  BY CaptureNotCalled DEF flatten
<1>5. pc' \notin RoundPlaces
  BY DEF CaptureRuns, CaptureEnded, RoundPlaces
<1>6. StageGroup'
  BY <1>4, <1>5 DEF StageGroup, RoundPlaces
<1>7. TeardownGroup'
  BY <1>4, <1>5 DEF TeardownGroup, RoundPlaces
<1>8. QED
  BY <1>3, <1>6, <1>7 DEF FlowIInv

LEMMA StartAttemptInv ==
    ASSUME FlowIInv, StartAttempt, UNCHANGED flatten
    PROVE  FlowIInv'
<1>1. /\ pc = "loop" /\ pc' = "rest" /\ attempts < MaxAttempts /\ attempts' = attempts + 1
      /\ amount' \in Sizes /\ orders' = orders /\ pos' = pos /\ posts' = posts
      /\ began' = Len(orders) /\ mine' = mine /\ captured' = captured /\ repeats' = repeats
  BY DEF StartAttempt, exchange
<1>2. ExchangeTypeOK /\ CaptureTypeOK /\ posts \in 0..(MaxPosts - 1)
  BY DEF FlowIInv, TypeOK
<1>3. BookKept
  BY <1>1, <1>2, BookAsIs DEF ExchangeTypeOK
<1>4. CaptureTypeOK'
  <2>1. attempts \in 0..MaxAttempts /\ MaxAttempts \in Nat
    BY <1>2, Constants DEF CaptureTypeOK
  <2>2. attempts' \in 0..MaxAttempts
    BY <1>1, <2>1
  <2>3. amount' \in 0..MaxUnits
    BY <1>1, Constants
  <2>4. began' \in 0..Len(orders')
    BY <1>1, <1>2, BookIsFunction
  <2>5. QED
    BY <1>1, <1>2, <2>2, <2>3, <2>4 DEF CaptureTypeOK
<1>5. CaptureGroup'
  BY <1>1 DEF CaptureGroup, CapturedIsThisAttempts
<1>6. QED
  BY <1>1, <1>2, <1>3, <1>4, <1>5, CaptureStep DEF CaptureRuns

LEMMA OutOfAttemptsInv ==
    ASSUME FlowIInv, OutOfAttempts, UNCHANGED flatten
    PROVE  FlowIInv'
<1>1. /\ pc = "loop" /\ pc' = "none" /\ orders' = orders /\ pos' = pos /\ posts' = posts
      /\ repeats' = repeats /\ UNCHANGED capture
  BY DEF OutOfAttempts, exchange, capture
<1>2. ExchangeTypeOK /\ CaptureTypeOK /\ posts \in 0..(MaxPosts - 1)
  BY DEF FlowIInv, TypeOK
<1>3. BookKept
  BY <1>1, <1>2, BookAsIs DEF ExchangeTypeOK
<1>4. CaptureTypeOK'
  BY <1>1, <1>2, <1>3, CaptureTypeStays
<1>5. CaptureGroup'
  BY <1>1 DEF CaptureGroup, Closing, CapturedIsThisAttempts
<1>6. QED
  BY <1>1, <1>2, <1>3, <1>4, <1>5, CaptureStep DEF CaptureRuns, CaptureEnded

LEMMA RestSellInv ==
    ASSUME FlowIInv, RestSell, UNCHANGED flatten
    PROVE  FlowIInv'
<1> DEFINE n == Len(orders)
<1>1. /\ pc = "rest" /\ pc' = "lift" /\ Place(Subject, "short", TRUE, TRUE, amount)
      /\ mine' = n + 1 /\ pos' = pos /\ posts' = posts
      /\ attempts' = attempts /\ began' = began /\ amount' = amount /\ captured' = captured
      /\ repeats' = repeats
  BY DEF RestSell, Watch
<1>2. ExchangeTypeOK /\ CaptureTypeOK /\ posts \in 0..(MaxPosts - 1)
  BY DEF FlowIInv, TypeOK
<1>3. amount \in Nat
  BY <1>2, Constants DEF CaptureTypeOK
<1>4. repeats' \in Nat
  BY <1>1, <1>2 DEF ExchangeTypeOK
<1>5. /\ BookKept /\ Len(orders') = n + 1
      /\ orders'[n + 1] = NewOrder(Subject, "short", TRUE, TRUE, amount)
      /\ \A i \in Added : i = n + 1
  <2>1. Subject \in Party /\ "short" \in Leg /\ TRUE \in BOOLEAN
    BY Constants DEF Leg
  <2>2. QED
    BY <1>1, <1>2, <1>3, <1>4, <2>1, PlaceKeeps
<1>6. n \in Nat /\ began \in 0..n
  BY <1>2, BookIsFunction DEF CaptureTypeOK
<1> HIDE DEF n
<1>7. CaptureTypeOK'
  BY <1>1, <1>2, <1>5, <1>6 DEF CaptureTypeOK
<1>8. CaptureGroup'
  <2>1. n + 1 \in DOMAIN orders' /\ n + 1 > began
    BY <1>5, <1>6, LenProperties DEF BookKept
  <2>2. /\ orders'[n + 1].party = Subject /\ orders'[n + 1].rests /\ orders'[n + 1].opens
        /\ orders'[n + 1].left + Filled(orders'[n + 1]) = amount
    BY <1>3, <1>5 DEF NewOrder, Filled
  <2>3. Watched'
    BY <1>1, <2>1, <2>2 DEF Watched
  <2>4. QED
    BY <1>1, <2>3 DEF CaptureGroup, CapturedIsThisAttempts
<1>9. QED
  BY <1>1, <1>2, <1>5, <1>7, <1>8, CaptureStep DEF CaptureRuns

LEMMA WatchedFacts ==
    ASSUME FlowIInv, Watched
    PROVE  /\ mine \in Nat /\ mine <= Len(orders) /\ mine \in 1..Len(orders)
           /\ orders[mine] \in Order
<1>1. mine \in DOMAIN orders
  BY DEF Watched
<1>2. /\ Len(orders) \in Nat /\ DOMAIN orders = 1..Len(orders)
      /\ orders \in [1..Len(orders) -> Order]
  BY BookIsFunction DEF FlowIInv, TypeOK
<1>3. QED
  BY <1>1, <1>2

\* Orders that are added do not change which one is watched.
LEMMA SameStaysWatched ==
    ASSUME FlowIInv, Watched, BookKept, UNCHANGED capture
    PROVE  Watched'
<1>1. mine \in 1..Len(orders)
  BY WatchedFacts
<1>2. ExchangeTypeOK
  BY DEF FlowIInv, TypeOK
<1>3. mine \in DOMAIN orders' /\ Kept(orders[mine], orders'[mine])
  BY <1>1, <1>2, BookLengths DEF BookKept
<1>4. mine' = mine /\ began' = began /\ amount' = amount
  BY DEF capture
<1>5. QED
  BY <1>3, <1>4 DEF Watched, Kept

LEMMA LiftSellInv ==
    ASSUME FlowIInv, LiftSell, UNCHANGED flatten
    PROVE  FlowIInv'
<1>1. /\ pc = "lift" /\ pc' = "watch" /\ Place(Maker, "long", TRUE, FALSE, amount)
      /\ mine' = mine /\ pos' = pos /\ posts' = posts
      /\ attempts' = attempts /\ amount' = amount /\ captured' = captured
      /\ UNCHANGED capture /\ repeats' = repeats
  BY DEF LiftSell, capture
<1>2. ExchangeTypeOK /\ CaptureTypeOK /\ posts \in 0..(MaxPosts - 1)
  BY DEF FlowIInv, TypeOK
<1>3. amount \in Nat
  BY <1>2, Constants DEF CaptureTypeOK
<1>4. BookKept /\ \A i \in 1..Len(orders) : orders'[i] = orders[i]
  <2>1. Maker \in Party /\ "long" \in Leg /\ TRUE \in BOOLEAN /\ FALSE \in BOOLEAN
    BY Constants DEF Leg
  <2>2. QED
    BY <1>1, <1>2, <1>3, <2>1, PlaceKeeps DEF ExchangeTypeOK
<1>5. CaptureTypeOK'
  BY <1>1, <1>2, <1>4, CaptureTypeStays
<1>6. Watched
  BY <1>1 DEF FlowIInv, CaptureGroup
<1>7. Watched'
  BY <1>1, <1>2, <1>4, <1>6, SameStaysWatched
<1>8. CaptureGroup'
  BY <1>1, <1>7 DEF CaptureGroup, CapturedIsThisAttempts
<1>9. QED
  BY <1>1, <1>2, <1>4, <1>5, <1>8, CaptureStep DEF CaptureRuns

LEMMA SeeFillInv ==
    ASSUME FlowIInv, SeeFill, UNCHANGED flatten
    PROVE  FlowIInv'
<1> DEFINE o == orders[mine]
<1>1. /\ pc = "watch" /\ orders' = orders /\ pos' = pos /\ posts' = posts
      /\ mine' = mine /\ attempts' = attempts /\ began' = began /\ amount' = amount
      /\ repeats' = repeats
      /\ \/ IsMaker(o) /\ pc' = "captured" /\ captured' = [made |-> o.made, took |-> o.took]
         \/ pc' = "closeSubject" /\ captured' = captured
  BY DEF SeeFill, exchange
<1>2. ExchangeTypeOK /\ CaptureTypeOK /\ posts \in 0..(MaxPosts - 1)
  BY DEF FlowIInv, TypeOK
<1>3. BookKept
  BY <1>1, <1>2, BookAsIs DEF ExchangeTypeOK
<1>4. Watched
  BY <1>1 DEF FlowIInv, CaptureGroup
<1>5. o.left \in Nat /\ o.made \in Nat /\ o.took \in Nat /\ o.left + (o.made + o.took) = amount
  BY <1>4, WatchedFacts, OrderParts DEF Watched, Filled
<1> HIDE DEF o
<1>6. amount \in 0..MaxUnits /\ MaxUnits \in Nat
  BY <1>2, Constants DEF CaptureTypeOK
<1>7. o.made \in 0..MaxUnits /\ o.took \in 0..MaxUnits
  BY <1>5, <1>6
<1>8. captured' \in [made : 0..MaxUnits, took : 0..MaxUnits]
  <2>1. captured \in [made : 0..MaxUnits, took : 0..MaxUnits]
    BY <1>2 DEF CaptureTypeOK
  <2>2. QED
    BY <1>1, <1>7, <2>1
<1>9. CaptureTypeOK'
  BY <1>1, <1>2, <1>8 DEF CaptureTypeOK
<1>10. CapturedIsThisAttempts'
  <2> SUFFICES ASSUME pc' = "captured"
               PROVE  captured'.made \in 1..(amount - captured'.took)
    BY <1>1, <1>4 DEF CapturedIsThisAttempts, Watched
  <2>1. o.made > 0 /\ captured' = [made |-> o.made, took |-> o.took]
    BY <1>1 DEF IsMaker
  <2>2. captured'.made = o.made /\ captured'.took = o.took
    BY <2>1
  <2>3. o.made \in 1..(amount - o.took)
    BY <1>5, <1>6, <2>1
  <2>4. QED
    BY <2>2, <2>3
<1>11. CaptureGroup'
  BY <1>1, <1>10 DEF CaptureGroup
<1>12. QED
  BY <1>1, <1>2, <1>3, <1>9, <1>11, CaptureStep DEF CaptureRuns, CaptureEnded

LEMMA CaptureCloseInv ==
    ASSUME FlowIInv, UNCHANGED capture, UNCHANGED flatten,
           \/ CloseTurn(Subject, "closeSubject", "closeMaker")
           \/ CloseTurn(Maker, "closeMaker", "loop")
    PROVE  FlowIInv'
<1>1. ExchangeTypeOK /\ CaptureTypeOK /\ posts \in 0..(MaxPosts - 1)
  BY DEF FlowIInv, TypeOK
<1>2. /\ pc \in Closing /\ pc' \in {"loop"} \cup Closing /\ posts' \in 0..(MaxPosts - 1)
      /\ BookKept /\ NothingOpened /\ pos' = pos
  <2>1. CASE CloseTurn(Subject, "closeSubject", "closeMaker")
    BY <1>1, <2>1, Constants, CloseTurnKeeps DEF Closing
  <2>2. CASE CloseTurn(Maker, "closeMaker", "loop")
    BY <1>1, <2>2, Constants, CloseTurnKeeps DEF Closing
  <2>3. QED
    BY <2>1, <2>2
<1>3. CaptureTypeOK'
  BY <1>1, <1>2, CaptureTypeStays DEF capture
<1>4. CaptureGroup'
  BY <1>2 DEF CaptureGroup, Closing, CapturedIsThisAttempts
<1>5. QED
  BY <1>2, <1>3, <1>4, CaptureStep DEF CaptureRuns, Closing

LEMMA PostAgainInv ==
    ASSUME FlowIInv, PostAgain, UNCHANGED flatten
    PROVE  FlowIInv'
<1>1. /\ pc \in {"rest", "lift"} /\ pc' = pc /\ pos' = pos /\ posts' = posts
      /\ UNCHANGED capture /\ repeats' = repeats + 1
      /\ \/ Place(Subject, "short", TRUE, TRUE, amount)
         \/ Place(Maker, "long", TRUE, FALSE, amount)
  BY DEF PostAgain, PlaceAgain, Repeats
<1>2. ExchangeTypeOK /\ CaptureTypeOK /\ posts \in 0..(MaxPosts - 1)
  BY DEF FlowIInv, TypeOK
<1>3. BookKept
  <2>1. /\ amount \in Nat /\ Subject \in Party /\ Maker \in Party /\ "short" \in Leg /\ "long" \in Leg
        /\ TRUE \in BOOLEAN /\ FALSE \in BOOLEAN /\ repeats' \in Nat
    BY <1>1, <1>2, Constants DEF CaptureTypeOK, ExchangeTypeOK, Leg
  <2>2. CASE Place(Subject, "short", TRUE, TRUE, amount)
    BY <1>2, <2>1, <2>2, PlaceKeeps
  <2>3. CASE Place(Maker, "long", TRUE, FALSE, amount)
    BY <1>2, <2>1, <2>3, PlaceKeeps
  <2>4. QED
    BY <1>1, <2>2, <2>3
<1>4. CaptureTypeOK'
  BY <1>1, <1>2, <1>3, CaptureTypeStays
<1>5. pc = "lift" => Watched'
  BY <1>1, <1>3, SameStaysWatched DEF FlowIInv, CaptureGroup
<1>6. CaptureGroup'
  BY <1>1, <1>5 DEF CaptureGroup, CapturedIsThisAttempts
<1>7. QED
  BY <1>1, <1>2, <1>3, <1>4, <1>6, CaptureStep DEF CaptureRuns

LEMMA RaiseInv ==
    ASSUME FlowIInv, Raise, UNCHANGED flatten
    PROVE  FlowIInv'
<1>1. /\ pc \in {"rest", "lift", "watch"} /\ pc' = "raised" /\ pos' = pos /\ posts' = posts
      /\ UNCHANGED capture /\ repeats' = repeats
      /\ \/ orders' = orders
         \/ Place(Subject, "short", TRUE, TRUE, amount)
         \/ Place(Maker, "long", TRUE, FALSE, amount)
  BY DEF Raise, capture
<1>2. ExchangeTypeOK /\ CaptureTypeOK /\ posts \in 0..(MaxPosts - 1)
  BY DEF FlowIInv, TypeOK
<1>3. BookKept
  <2>1. /\ amount \in Nat /\ Subject \in Party /\ Maker \in Party /\ "short" \in Leg /\ "long" \in Leg
        /\ TRUE \in BOOLEAN /\ FALSE \in BOOLEAN /\ repeats' \in Nat
    BY <1>1, <1>2, Constants DEF CaptureTypeOK, ExchangeTypeOK, Leg
  <2>2. CASE orders' = orders
    BY <1>2, <2>1, <2>2, BookAsIs
  <2>3. CASE Place(Subject, "short", TRUE, TRUE, amount)
    BY <1>2, <2>1, <2>3, PlaceKeeps
  <2>4. CASE Place(Maker, "long", TRUE, FALSE, amount)
    BY <1>2, <2>1, <2>4, PlaceKeeps
  <2>5. QED
    BY <1>1, <2>2, <2>3, <2>4
<1>4. CaptureTypeOK'
  BY <1>1, <1>2, <1>3, CaptureTypeStays
<1>5. CaptureGroup'
  BY <1>1 DEF CaptureGroup, CapturedIsThisAttempts
<1>6. QED
  BY <1>1, <1>2, <1>3, <1>4, <1>5, CaptureStep DEF CaptureRuns, CaptureEnded

-----------------------------------------------------------------------------
(* A step of the teardown.                                                 *)

\* What the teardown begins with.
LEMMA ModuleEndsInv ==
    ASSUME FlowIInv, ModuleEnds
    PROVE  FlowIInv'
<1> DEFINE found == OneLegged /\ NothingOpens
<1>1. /\ pc' = "readA" /\ how' = "running" /\ orders' = orders /\ pos' = pos /\ posts' = posts
      /\ round' = round /\ seen' = seen /\ UNCHANGED capture
      /\ inherited' = [orders |-> Len(orders), tidy |-> found]
      /\ how = "not_called" /\ repeats' = repeats
  BY DEF ModuleEnds, BeginFlatten, exchange
<1>2. ExchangeTypeOK /\ CaptureTypeOK /\ FlattenTypeOK /\ posts \in 0..(MaxPosts - 1)
  BY DEF FlowIInv, TypeOK
<1>3. Len(orders) \in Nat /\ DOMAIN orders = 1..Len(orders)
  BY <1>2, BookIsFunction
<1>4. found \in BOOLEAN
  BY DEF OneLegged, NothingOpens
<1>5. found => OneLegged /\ NothingOpens
  OBVIOUS
<1> HIDE DEF found
<1>6. FlattenTypeOK'
  <2>1. inherited' \in [orders : 0..Len(orders), tidy : BOOLEAN]
    BY <1>1, <1>3, <1>4
  <2>2. QED
    BY <1>1, <1>2, <2>1 DEF FlattenTypeOK
<1>7. TypeOK'
  <2>1. ExchangeTypeOK'
    BY <1>1, <1>2 DEF ExchangeTypeOK
  <2>2. CaptureTypeOK'
    BY <1>1, <1>2 DEF CaptureTypeOK, capture
  <2>3. QED
    BY <1>1, <1>2, <1>6, <2>1, <2>2 DEF TypeOK, FlattenRuns
<1>8. StageGroup'
  <2>1. round = 0
    BY <1>1 DEF FlowIInv, StageGroup
  <2>2. round' < MaxRounds
    BY <1>1, <2>1, Constants
  <2>3. QED
    BY <1>1, <2>2 DEF StageGroup, FlattenRuns
<1>9. CaptureGroup'
  <2>1. pc' \in FlattenRuns
    BY <1>1 DEF FlattenRuns
  <2>2. QED
    BY <2>1 DEF FlattenRuns, CaptureGroup, CapturedIsThisAttempts
<1>10. TeardownGroup'
  <2>1. \A i \in DOMAIN orders : i <= Len(orders)
    BY <1>3
  <2>2. inherited'.orders = Len(orders) /\ inherited'.tidy = found
    BY <1>1
  <2>3. (OneLegged /\ NothingOpens) => (OneLegged /\ NothingOpens)'
    BY <1>1 DEF OneLegged, NothingOpens, Live
  <2>4. QED
    BY <1>1, <1>5, <2>1, <2>2, <2>3 DEF TeardownGroup
<1>11. QED
  BY <1>7, <1>8, <1>9, <1>10 DEF FlowIInv

\* What such a step leaves alone, and what is left to show of it.
ReadsAreOwn ==
    /\ pc = "readB" /\ inherited.tidy /\ seen[a] = 0 => Flat(a)
    /\ how = "flat" /\ inherited.tidy => \A p \in Party : Flat(p)

LEMMA TeardownStep ==
    ASSUME FlowIInv, pc \in FlattenRuns, pc' \in FlattenRuns \cup {"ended"},
           UNCHANGED capture, inherited' = inherited, BookKept, NothingOpened, pos' = pos,
           posts' \in 0..(MaxPosts - 1), round' \in 0..MaxRounds, seen' \in [Party -> Int],
           how' \in {"running", "flat", "closed", "gave_up"}, StageGroup', ReadsAreOwn'
    PROVE  FlowIInv'
<1>1. ExchangeTypeOK /\ CaptureTypeOK /\ FlattenTypeOK
  BY DEF FlowIInv, TypeOK
<1>2. ExchangeTypeOK'
  BY <1>1 DEF ExchangeTypeOK, BookKept
<1>3. FlattenTypeOK'
  BY <1>1, InheritedStays DEF FlattenTypeOK
<1>4. CaptureTypeOK'
  BY <1>1, CaptureTypeStays
<1>5. TypeOK'
  BY <1>2, <1>3, <1>4 DEF TypeOK
<1>6. CaptureGroup'
  BY DEF FlattenRuns, CaptureGroup, CapturedIsThisAttempts
<1>7. how = "running"
  BY FlattenIsRunning
<1>8. /\ \A i \in DOMAIN orders : orders[i].opens => i <= inherited.orders
      /\ inherited.tidy => OneLegged /\ NothingOpens
  BY <1>7 DEF FlowIInv, TeardownGroup
<1>9. ASSUME NEW i \in DOMAIN orders', orders'[i].opens
      PROVE  i \in DOMAIN orders /\ orders[i].opens /\ Kept(orders[i], orders'[i])
  <2>1. i \in 1..Len(orders) \/ i \in Added
    BY <1>1, BookLengths
  <2>2. i \notin Added
    BY <1>9 DEF NothingOpened
  <2>3. i \in 1..Len(orders) /\ DOMAIN orders = 1..Len(orders) /\ Kept(orders[i], orders'[i])
    BY <1>1, <2>1, <2>2, BookLengths DEF BookKept
  <2>4. QED
    BY <1>9, <2>3 DEF Kept
<1>10. \A i \in DOMAIN orders' : orders'[i].opens => i <= inherited'.orders
  BY <1>8, <1>9
<1>11. inherited'.tidy => OneLegged' /\ NothingOpens'
  <2>1. OneLegged => OneLegged'
    BY DEF OneLegged
  <2>2. ASSUME NothingOpens, NEW i \in DOMAIN orders', orders'[i].opens
        PROVE  ~(orders'[i].state # "done" /\ orders'[i].left > 0)
    BY <1>9, <2>2 DEF NothingOpens, Live, Kept
  <2>3. NothingOpens => NothingOpens'
    BY <2>2 DEF NothingOpens, Live
  <2>4. QED
    BY <1>8, <2>1, <2>3
<1>12. TeardownGroup'
  BY <1>10, <1>11 DEF TeardownGroup, ReadsAreOwn
<1>13. QED
  BY <1>5, <1>6, <1>12 DEF FlowIInv

LEMMA FlattenFacts ==
    ASSUME FlowIInv, pc \in FlattenRuns
    PROVE  /\ ExchangeTypeOK /\ CaptureTypeOK /\ posts \in 0..(MaxPosts - 1)
           /\ round \in 0..MaxRounds /\ seen \in [Party -> Int] /\ how = "running"
           /\ inherited.tidy => OneLegged /\ NothingOpens
           /\ \A p \in Party : /\ pos[p]["long"] \in Nat /\ pos[p]["short"] \in Nat
                               /\ Net(p) \in Int
<1>1. /\ ExchangeTypeOK /\ CaptureTypeOK /\ posts \in 0..(MaxPosts - 1)
      /\ round \in 0..MaxRounds /\ seen \in [Party -> Int]
  BY DEF FlowIInv, TypeOK, FlattenTypeOK
<1>2. how = "running"
  BY FlattenIsRunning
<1>3. inherited.tidy => OneLegged /\ NothingOpens
  BY <1>2 DEF FlowIInv, TeardownGroup
<1>4. \A p \in Party : pos[p]["long"] \in Nat /\ pos[p]["short"] \in Nat
  BY <1>1 DEF ExchangeTypeOK, Leg
<1>5. \A p \in Party : Net(p) \in Int
  BY <1>4 DEF Net
<1>6. QED
  BY <1>1, <1>2, <1>3, <1>4, <1>5

\* An account with one leg that reads zero is flat.
LEMMA ZeroIsFlat ==
    ASSUME FlowIInv, pc \in FlattenRuns, inherited.tidy, NEW p \in Party, Net(p) = 0
    PROVE  Flat(p)
<1>1. pos[p]["long"] \in Nat /\ pos[p]["short"] \in Nat
  BY FlattenFacts
<1>2. pos[p]["long"] = 0 \/ pos[p]["short"] = 0
  BY FlattenFacts DEF OneLegged
<1>3. pos[p]["long"] = 0 /\ pos[p]["short"] = 0
  BY <1>1, <1>2 DEF Net
<1>4. QED
  BY <1>3 DEF Flat, Leg

LEMMA ReadAInv ==
    ASSUME FlowIInv, ReadA, UNCHANGED capture
    PROVE  FlowIInv'
<1>1. /\ pc = "readA" /\ pc' = "readB" /\ seen' = [seen EXCEPT ![a] = Net(a)]
      /\ orders' = orders /\ pos' = pos /\ posts' = posts /\ round' = round /\ how' = how
      /\ inherited' = inherited /\ repeats' = repeats
  BY DEF ReadA, exchange
<1>2. pc \in FlattenRuns /\ pc' \in FlattenRuns
  BY <1>1 DEF FlattenRuns
<1>3. /\ ExchangeTypeOK /\ posts \in 0..(MaxPosts - 1) /\ round \in 0..MaxRounds
      /\ seen \in [Party -> Int] /\ how = "running" /\ a \in Party /\ Net(a) \in Int
  BY <1>2, FlattenFacts, Constants
<1>4. BookKept /\ NothingOpened
  BY <1>1, <1>3, BookAsIs DEF NothingOpened, ExchangeTypeOK
<1>5. seen' \in [Party -> Int] /\ seen'[a] = Net(a)
  BY <1>1, <1>3
<1>6. StageGroup'
  <2>1. round < MaxRounds
    BY <1>1 DEF FlowIInv, StageGroup, RoundPlaces
  <2>2. QED
    BY <1>1, <1>2, <1>3, <2>1 DEF StageGroup
<1>7. ReadsAreOwn'
  <2>1. inherited.tidy /\ Net(a) = 0 => Flat(a)
    BY <1>2, <1>3, ZeroIsFlat
  <2>2. Flat(a)' = Flat(a)
    BY <1>1 DEF Flat
  <2>3. QED
    BY <1>1, <1>3, <1>5, <2>1, <2>2 DEF ReadsAreOwn
<1>8. QED
  BY <1>1, <1>2, <1>3, <1>4, <1>5, <1>6, <1>7, TeardownStep

LEMMA ReadBInv ==
    ASSUME FlowIInv, ReadB, UNCHANGED capture
    PROVE  FlowIInv'
<1>1. /\ pc = "readB" /\ seen' = [seen EXCEPT ![b] = Net(b)]
      /\ orders' = orders /\ pos' = pos /\ posts' = posts /\ round' = round
      /\ inherited' = inherited /\ repeats' = repeats
  BY DEF ReadB, exchange
<1>2. \/ BothFlat(seen') /\ pc' = "ended" /\ how' = "flat"
      \/ how' = how /\ pc' = "closeA"
      \/ /\ how' = how /\ pc' = "bid"
         /\ ReadsLong(seen') # {} /\ ReadsShort(seen') # {}
  BY DEF ReadB, End
<1>3. pc \in FlattenRuns /\ pc' \in FlattenRuns \cup {"ended"}
  BY <1>1, <1>2 DEF FlattenRuns
<1>4. /\ ExchangeTypeOK /\ posts \in 0..(MaxPosts - 1) /\ round \in 0..MaxRounds
      /\ seen \in [Party -> Int] /\ how = "running" /\ b \in Party /\ a \in Party /\ Net(b) \in Int
  BY <1>3, FlattenFacts, Constants
<1>5. BookKept /\ NothingOpened
  BY <1>1, <1>4, BookAsIs DEF NothingOpened, ExchangeTypeOK
<1>6. seen' \in [Party -> Int] /\ seen'[b] = Net(b) /\ seen'[a] = seen[a]
  BY <1>1, <1>4, Constants
<1>7. StageGroup'
  <2>1. round < MaxRounds
    BY <1>1 DEF FlowIInv, StageGroup, RoundPlaces
  <2>2. CASE pc' = "ended" /\ how' = "flat"
    BY <2>2 DEF StageGroup, RoundPlaces
  <2>3. CASE how' = how /\ pc' = "closeA"
    BY <1>4, <2>3 DEF StageGroup, RoundPlaces, FlattenRuns
  <2>4. CASE how' = how /\ pc' = "bid" /\ ReadsLong(seen') # {} /\ ReadsShort(seen') # {}
    <3>1. ReadsLong(seen)' # {} /\ ReadsShort(seen)' # {}
      BY <2>4
    <3>2. QED
      BY <1>1, <1>4, <2>1, <2>4, <3>1 DEF StageGroup, FlattenRuns
  <2>5. QED
    BY <1>2, <2>2, <2>3, <2>4
<1>8. ReadsAreOwn'
  <2>1. ASSUME BothFlat(seen'), inherited.tidy
        PROVE  \A p \in Party : Flat(p)
    <3>1. seen[a] = 0 /\ Net(b) = 0
      BY <1>4, <1>6, <2>1 DEF BothFlat
    <3>2. Flat(a)
      BY <1>1, <2>1, <3>1 DEF FlowIInv, TeardownGroup
    <3>3. Flat(b)
      BY <1>3, <1>4, <2>1, <3>1, ZeroIsFlat
    <3>4. QED
      BY <3>2, <3>3, Constants
  <2>2. \A p \in Party : Flat(p)' = Flat(p)
    BY <1>1 DEF Flat
  <2>3. pc' # "readB"
    BY <1>2
  <2>4. how' = "flat" => BothFlat(seen')
    BY <1>2, <1>4
  <2>5. QED
    BY <1>1, <2>1, <2>2, <2>3, <2>4 DEF ReadsAreOwn
<1>9. how' \in {"running", "flat", "closed", "gave_up"}
  BY <1>2, <1>4
<1>10. QED
  BY <1>1, <1>3, <1>4, <1>5, <1>6, <1>7, <1>8, <1>9, TeardownStep

\* The two orders of a round are reduce-only.
LEMMA PairOrders ==
    ASSUME FlowIInv, pc \in {"bid", "sell"}, PlaceBid \/ PlaceSell, repeats' \in Nat
    PROVE  BookKept /\ NothingOpened
<1>1. ReadsLong(seen) # {} /\ ReadsShort(seen) # {} /\ pc \in FlattenRuns
  BY DEF FlowIInv, StageGroup, FlattenRuns
<1>2. ExchangeTypeOK /\ seen \in [Party -> Int]
  BY <1>1, FlattenFacts
<1>3. LongHolder \in Party /\ seen[LongHolder] > 0
  BY <1>1 DEF ReadsLong, LongHolder
<1>4. ShortHolder \in Party /\ seen[ShortHolder] < 0
  BY <1>1 DEF ReadsShort, ShortHolder
<1>5. Size \in Nat
  <2>1. seen[LongHolder] \in Int /\ seen[ShortHolder] \in Int
    BY <1>2, <1>3, <1>4
  <2>2. QED
    BY <1>3, <1>4, <2>1 DEF Size, Smaller
<1>6. /\ Opening \in BOOLEAN /\ TRUE \in BOOLEAN /\ FALSE \in BOOLEAN /\ Opening = FALSE
      /\ "long" \in Leg /\ "short" \in Leg
  BY DEF Opening, Leg
<1>7. CASE PlaceBid
  <2>1. Place(ShortHolder, "short", Opening, TRUE, Size)
    BY <1>7 DEF PlaceBid
  <2>2. /\ BookKept /\ \A i \in Added : i = Len(orders) + 1
        /\ orders'[Len(orders) + 1] = NewOrder(ShortHolder, "short", Opening, TRUE, Size)
    BY <1>2, <1>4, <1>5, <1>6, <2>1, PlaceKeeps
  <2>3. QED
    BY <1>6, <2>2 DEF NothingOpened, NewOrder
<1>8. CASE PlaceSell
  <2>1. Place(LongHolder, "long", Opening, FALSE, Size)
    BY <1>8 DEF PlaceSell
  <2>2. /\ BookKept /\ \A i \in Added : i = Len(orders) + 1
        /\ orders'[Len(orders) + 1] = NewOrder(LongHolder, "long", Opening, FALSE, Size)
    BY <1>2, <1>3, <1>5, <1>6, <2>1, PlaceKeeps
  <2>3. QED
    BY <1>6, <2>2 DEF NothingOpened, NewOrder
<1>9. QED
  BY <1>7, <1>8

LEMMA PairInv ==
    ASSUME FlowIInv, RestBid \/ SellIntoBid \/ OrderAgain, UNCHANGED capture
    PROVE  FlowIInv'
<1>1. /\ pc \in {"bid", "sell"} /\ pc' \in {"bid", "sell", "wait"}
      /\ PlaceBid \/ PlaceSell
      /\ pos' = pos /\ posts' = posts /\ round' = round /\ seen' = seen /\ how' = how
      /\ inherited' = inherited /\ repeats' \in {repeats, repeats + 1}
  BY DEF RestBid, SellIntoBid, OrderAgain, Repeats, flatten
<1>2. pc \in FlattenRuns /\ pc' \in FlattenRuns
  BY <1>1 DEF FlattenRuns
<1>3. /\ posts \in 0..(MaxPosts - 1) /\ round \in 0..MaxRounds
      /\ seen \in [Party -> Int] /\ how = "running" /\ ExchangeTypeOK
  BY <1>2, FlattenFacts
<1>4. BookKept /\ NothingOpened
  <2>1. repeats' \in Nat
    BY <1>1, <1>3 DEF ExchangeTypeOK
  <2>2. QED
    BY <1>1, <2>1, PairOrders
<1>5. StageGroup'
  <2>1. round < MaxRounds /\ ReadsLong(seen) # {} /\ ReadsShort(seen) # {}
    BY <1>1 DEF FlowIInv, StageGroup, RoundPlaces
  <2>2. QED
    BY <1>1, <1>2, <1>3, <2>1 DEF StageGroup
<1>6. ReadsAreOwn'
  BY <1>1, <1>3 DEF ReadsAreOwn
<1>7. QED
  BY <1>1, <1>2, <1>3, <1>4, <1>5, <1>6, TeardownStep

LEMMA WaitOverInv ==
    ASSUME FlowIInv, WaitOver, UNCHANGED capture
    PROVE  FlowIInv'
<1>1. /\ pc = "wait" /\ round' = round + 1
      /\ pc' = IF round + 1 < MaxRounds THEN "readA" ELSE "closeA"
      /\ orders' = orders /\ pos' = pos /\ posts' = posts /\ seen' = seen /\ how' = how
      /\ inherited' = inherited /\ repeats' = repeats
  BY DEF WaitOver, exchange
<1>2. pc \in FlattenRuns /\ pc' \in FlattenRuns
  BY <1>1 DEF FlattenRuns
<1>3. /\ ExchangeTypeOK /\ posts \in 0..(MaxPosts - 1) /\ round \in 0..MaxRounds
      /\ seen \in [Party -> Int] /\ how = "running"
  BY <1>2, FlattenFacts
<1>4. BookKept /\ NothingOpened
  BY <1>1, <1>3, BookAsIs DEF NothingOpened, ExchangeTypeOK
<1>5. round < MaxRounds /\ MaxRounds \in Nat
  BY <1>1, Constants DEF FlowIInv, StageGroup, RoundPlaces
<1>6. round' \in 0..MaxRounds
  BY <1>1, <1>3, <1>5
<1>7. StageGroup'
  BY <1>1, <1>2, <1>3 DEF StageGroup, RoundPlaces
<1>8. ReadsAreOwn'
  BY <1>1, <1>3 DEF ReadsAreOwn
<1>9. QED
  BY <1>1, <1>2, <1>3, <1>4, <1>6, <1>7, <1>8, TeardownStep

LEMMA FinalCloseInv ==
    ASSUME FlowIInv, CloseA \/ CloseB, UNCHANGED capture
    PROVE  FlowIInv'
<1>1. /\ UNCHANGED <<round, seen, inherited>>
      /\ \/ CloseTurn(a, "closeA", "closeB") /\ how' = how
         \/ CloseTurn(b, "closeB", "ended") /\ how' = IF pc' = "ended" THEN "closed" ELSE how
  BY DEF CloseA, CloseB
<1>2. ExchangeTypeOK /\ posts \in 0..(MaxPosts - 1)
  BY DEF FlowIInv, TypeOK
<1>3. /\ pc \in {"closeA", "closeB"} /\ pc' \in {"closeA", "closeB", "ended"}
      /\ posts' \in 0..(MaxPosts - 1) /\ BookKept /\ NothingOpened /\ pos' = pos
      /\ how' = IF pc' = "ended" THEN "closed" ELSE how
  <2>1. CASE CloseTurn(a, "closeA", "closeB") /\ how' = how
    BY <1>2, <2>1, Constants, CloseTurnKeeps
  <2>2. CASE CloseTurn(b, "closeB", "ended") /\ how' = IF pc' = "ended" THEN "closed" ELSE how
    BY <1>2, <2>2, Constants, CloseTurnKeeps
  <2>3. QED
    BY <1>1, <2>1, <2>2
<1>4. pc \in FlattenRuns /\ pc' \in FlattenRuns \cup {"ended"}
  BY <1>3 DEF FlattenRuns
<1>5. round \in 0..MaxRounds /\ seen \in [Party -> Int] /\ how = "running"
  BY <1>4, FlattenFacts
<1>6. StageGroup'
  BY <1>3, <1>5 DEF StageGroup, RoundPlaces, FlattenRuns
<1>7. ReadsAreOwn'
  BY <1>3, <1>5 DEF ReadsAreOwn
<1>8. QED
  BY <1>1, <1>3, <1>4, <1>5, <1>6, <1>7, TeardownStep

LEMMA GiveUpInv ==
    ASSUME FlowIInv, GiveUp, UNCHANGED capture
    PROVE  FlowIInv'
<1>1. /\ pc \in RoundPlaces /\ pc' = "ended" /\ how' = "gave_up"
      /\ pos' = pos /\ posts' = posts /\ round' = round /\ seen' = seen
      /\ inherited' = inherited /\ repeats' = repeats
      /\ \/ orders' = orders
         \/ pc \in {"bid", "sell"} /\ (PlaceBid \/ PlaceSell)
  BY DEF GiveUp, End, RoundPlaces
<1>2. pc \in FlattenRuns
  BY <1>1 DEF FlattenRuns, RoundPlaces
<1>3. /\ ExchangeTypeOK /\ posts \in 0..(MaxPosts - 1) /\ round \in 0..MaxRounds
      /\ seen \in [Party -> Int]
  BY <1>2, FlattenFacts
<1>4. BookKept /\ NothingOpened
  <2>0. repeats' \in Nat
    BY <1>1, <1>3 DEF ExchangeTypeOK
  <2>1. CASE orders' = orders
    BY <1>3, <2>0, <2>1, BookAsIs DEF NothingOpened
  <2>2. CASE pc \in {"bid", "sell"} /\ (PlaceBid \/ PlaceSell)
    BY <2>0, <2>2, PairOrders
  <2>3. QED
    BY <1>1, <2>1, <2>2
<1>5. StageGroup'
  BY <1>1 DEF StageGroup, RoundPlaces
<1>6. ReadsAreOwn'
  BY <1>1 DEF ReadsAreOwn
<1>7. QED
  BY <1>1, <1>2, <1>3, <1>4, <1>5, <1>6, TeardownStep

-----------------------------------------------------------------------------
(* A step of the exchange.                                                 *)

\* No leg of a tidy pair grows while the teardown runs, or after it.
LEMMA TidyShrinks ==
    ASSUME FlowIInv, Match, how # "not_called", inherited.tidy
    PROVE  \A p \in Party : \A leg \in Leg :
              pos'[p][leg] \in Nat /\ pos[p][leg] \in Nat /\ pos'[p][leg] <= pos[p][leg]
<1>1. ExchangeTypeOK /\ ExchangeTypeOK' /\ GrowthExplained
  BY MatchKeeps DEF FlowIInv, TypeOK
<1>2. NothingOpens
  BY DEF FlowIInv, TeardownGroup
<1>3. \A p \in Party : \A leg \in Leg : ~Grows(p, leg)
  BY <1>1, <1>2 DEF GrowthExplained, NothingOpens
<1>4. \A p \in Party : \A leg \in Leg : pos'[p][leg] \in Nat /\ pos[p][leg] \in Nat
  BY <1>1 DEF ExchangeTypeOK
<1>5. QED
  BY <1>3, <1>4 DEF Grows

LEMMA MatchingInv ==
    ASSUME FlowIInv, Matching
    PROVE  FlowIInv'
<1>1. Match /\ pc' = pc /\ posts' = posts /\ UNCHANGED capture /\ UNCHANGED flatten
  BY DEF Matching
<1>2. ExchangeTypeOK /\ CaptureTypeOK /\ FlattenTypeOK
  BY DEF FlowIInv, TypeOK
<1>3. ExchangeTypeOK' /\ BookKept /\ Len(orders') = Len(orders)
  BY <1>1, <1>2, MatchKeeps
<1>4. TypeOK'
  <2>1. CaptureTypeOK' /\ FlattenTypeOK'
    BY <1>1, <1>2, <1>3, CaptureTypeStays, FlattenTypeStays
  <2>2. QED
    BY <1>1, <1>3, <2>1 DEF FlowIInv, TypeOK
<1>5. StageGroup'
  BY <1>1 DEF FlowIInv, StageGroup, flatten
<1>6. Len(orders) \in Nat /\ DOMAIN orders = 1..Len(orders) /\ DOMAIN orders' = 1..Len(orders)
  BY <1>2, <1>3, BookLengths
<1>7. CaptureGroup'
  <2>1. CaptureGroup
    BY DEF FlowIInv
  <2>2. began' = began /\ amount' = amount /\ mine' = mine /\ captured' = captured
    BY <1>1 DEF capture
  <2>3. Watched => Watched'
    BY <1>1, <1>3, SameStaysWatched
  <2>4. CapturedIsThisAttempts'
    <3> SUFFICES ASSUME pc = "captured"
                 PROVE  /\ captured.made \in 1..(amount - captured.took)
                        /\ mine > began
                        /\ orders'[mine].party = Subject /\ orders'[mine].rests
                        /\ orders'[mine].opens
      BY <1>1, <2>2 DEF CapturedIsThisAttempts
    <3>1. /\ captured.made \in 1..(amount - captured.took) /\ mine > began
          /\ orders[mine].party = Subject /\ orders[mine].rests /\ orders[mine].opens
      BY <2>1 DEF CaptureGroup, CapturedIsThisAttempts
    <3>2. mine \in 0..Len(orders) /\ began \in 0..Len(orders)
      BY <1>2 DEF CaptureTypeOK
    <3>3. mine \in 1..Len(orders)
      BY <1>6, <3>1, <3>2
    <3>4. QED
      BY <1>3, <3>1, <3>3 DEF BookKept, Kept
  <2>5. QED
    BY <1>1, <2>1, <2>3, <2>4 DEF CaptureGroup
<1>8. TeardownGroup'
  <2>1. TeardownGroup
    BY DEF FlowIInv
  <2>2. how' = how /\ inherited' = inherited /\ seen' = seen
    BY <1>1 DEF flatten
  <2>3. \A i \in DOMAIN orders : Kept(orders[i], orders'[i])
    BY <1>3, <1>6 DEF BookKept
  <2>4. how # "not_called" => \A i \in DOMAIN orders' : orders'[i].opens => i <= inherited'.orders
    BY <1>6, <2>1, <2>2, <2>3 DEF TeardownGroup, Kept
  <2>5. NothingOpens => NothingOpens'
    BY <1>6, <2>3 DEF NothingOpens, Live, Kept
  <2>6. ASSUME how # "not_called", inherited.tidy
        PROVE  OneLegged' /\ NothingOpens'
    <3>1. OneLegged /\ NothingOpens
      BY <2>1, <2>6 DEF TeardownGroup
    <3>2. "long" \in Leg /\ "short" \in Leg
      BY DEF Leg
    <3>3. \A p \in Party : \A leg \in Leg : pos[p][leg] = 0 => pos'[p][leg] = 0
      BY <1>1, <2>6, TidyShrinks
    <3>4. OneLegged'
      BY <3>1, <3>2, <3>3 DEF OneLegged
    <3>5. QED
      BY <2>5, <3>1, <3>4
  <2>7. ASSUME how # "not_called", inherited.tidy, NEW p \in Party, Flat(p)
        PROVE  Flat(p)'
    <3>1. \A leg \in Leg : pos[p][leg] = 0 => pos'[p][leg] = 0
      BY <1>1, <2>7, TidyShrinks
    <3>2. QED
      BY <2>7, <3>1 DEF Flat
  <2>8. pc = "readB" => how # "not_called"
    BY FlattenIsRunning DEF FlattenRuns
  <2>9. a \in Party
    BY Constants
  <2>10. pc' = "readB" /\ inherited'.tidy /\ seen'[a] = 0 => Flat(a)'
    BY <1>1, <2>1, <2>2, <2>7, <2>8, <2>9 DEF TeardownGroup
  <2>11. how' = "flat" /\ inherited'.tidy => \A p \in Party : Flat(p)'
    BY <2>1, <2>2, <2>7 DEF TeardownGroup
  <2>12. QED
    BY <2>2, <2>4, <2>6, <2>10, <2>11 DEF TeardownGroup
<1>9. QED
  BY <1>4, <1>5, <1>7, <1>8 DEF FlowIInv

-----------------------------------------------------------------------------
(* Every run.                                                              *)

LEMMA InitInv == Init => FlowIInv
<1> SUFFICES ASSUME Init PROVE FlowIInv
  OBVIOUS
<1>1. PICK start \in Starts : /\ pos = start.pos /\ orders = start.orders /\ repeats = 0
                             /\ CaptureInit(start.pc, start.attempts)
  BY DEF Init
<1>2. FlattenInit
  BY DEF Init
<1>3. /\ start.pos \in [Party -> [Leg -> Nat]] /\ start.orders \in Seq(Order)
      /\ start.attempts \in 0..MaxAttempts /\ start.pc \in {"loop", "raised"}
  BY FlowAssumption DEF FlowAssumption
<1>4. ExchangeTypeOK
  BY <1>1, <1>3 DEF ExchangeTypeOK
<1>5. Len(orders) \in Nat
  BY <1>4, BookIsFunction
<1>6. /\ pc \in {"loop", "raised"} /\ posts = 0 /\ amount = 0 /\ mine = 0 /\ began = 0
      /\ attempts \in 0..MaxAttempts /\ captured = Nothing
  BY <1>1, <1>3 DEF CaptureInit
<1>7. CaptureTypeOK
  <2>1. captured \in [made : 0..MaxUnits, took : 0..MaxUnits]
    BY <1>6, Constants DEF Nothing
  <2>2. amount \in 0..MaxUnits /\ mine \in 0..Len(orders) /\ began \in 0..Len(orders)
    BY <1>5, <1>6, Constants
  <2>3. QED
    BY <1>6, <2>1, <2>2 DEF CaptureTypeOK
<1>8. FlattenTypeOK
  <2>1. inherited \in [orders : 0..Len(orders), tidy : BOOLEAN]
    BY <1>2, <1>5 DEF FlattenInit
  <2>2. QED
    BY <1>2, <2>1, Constants DEF FlattenInit, FlattenTypeOK
<1>9. TypeOK
  <2>1. posts \in 0..(MaxPosts - 1)
    BY <1>6, Constants
  <2>2. pc \in CaptureRuns \cup CaptureEnded
    BY <1>6 DEF CaptureRuns, CaptureEnded
  <2>3. QED
    BY <1>4, <1>7, <1>8, <2>1, <2>2 DEF TypeOK
<1>10. StageGroup
  BY <1>2, <1>6 DEF FlattenInit, StageGroup, RoundPlaces, CaptureRuns, CaptureEnded
<1>11. CaptureGroup
  BY <1>6 DEF CaptureGroup, CapturedIsThisAttempts
<1>12. TeardownGroup
  BY <1>2, <1>6 DEF FlattenInit, TeardownGroup
<1>13. QED
  BY <1>9, <1>10, <1>11, <1>12 DEF FlowIInv

LEMMA StepInv ==
    ASSUME FlowIInv, [Next]_vars
    PROVE  FlowIInv'
<1>1. CASE Capture
  <2>1. UNCHANGED flatten
    BY <1>1 DEF Capture
  <2>2. CASE StartAttempt
    BY <2>1, <2>2, StartAttemptInv
  <2>3. CASE OutOfAttempts
    BY <2>1, <2>3, OutOfAttemptsInv
  <2>4. CASE RestSell
    BY <2>1, <2>4, RestSellInv
  <2>5. CASE LiftSell
    BY <2>1, <2>5, LiftSellInv
  <2>6. CASE SeeFill
    BY <2>1, <2>6, SeeFillInv
  <2>7. CASE CloseSubject \/ CloseMaker
    BY <2>1, <2>7, CaptureCloseInv DEF CloseSubject, CloseMaker
  <2>8. CASE PostAgain
    BY <2>1, <2>8, PostAgainInv
  <2>9. QED
    BY <1>1, <2>2, <2>3, <2>4, <2>5, <2>6, <2>7, <2>8 DEF Capture, Try
<1>2. CASE CaptureRaises
  BY <1>2, RaiseInv DEF CaptureRaises
<1>3. CASE ModuleEnds
  BY <1>3, ModuleEndsInv
<1>4. CASE Flatten
  <2>1. UNCHANGED capture
    BY <1>4 DEF Flatten
  <2>2. CASE ReadA
    BY <2>1, <2>2, ReadAInv
  <2>3. CASE ReadB
    BY <2>1, <2>3, ReadBInv
  <2>4. CASE RestBid \/ SellIntoBid \/ OrderAgain
    BY <2>1, <2>4, PairInv
  <2>5. CASE WaitOver
    BY <2>1, <2>5, WaitOverInv
  <2>6. CASE CloseA \/ CloseB
    BY <2>1, <2>6, FinalCloseInv
  <2>7. QED
    BY <1>4, <2>2, <2>3, <2>4, <2>5, <2>6 DEF Flatten, Teardown
<1>5. CASE FlattenRaises
  BY <1>5, GiveUpInv DEF FlattenRaises
<1>6. CASE Matching
  BY <1>6, MatchingInv
<1>7. CASE UNCHANGED vars
  <2>1. /\ pos' = pos /\ orders' = orders /\ repeats' = repeats /\ pc' = pc /\ posts' = posts
        /\ attempts' = attempts /\ began' = began /\ amount' = amount /\ mine' = mine /\ captured' = captured
        /\ round' = round /\ seen' = seen /\ how' = how /\ inherited' = inherited
    BY <1>7 DEF vars, exchange, capture, flatten
  <2>2. TypeOK'
    BY <2>1 DEF FlowIInv, TypeOK, ExchangeTypeOK, CaptureTypeOK, FlattenTypeOK
  <2>3. StageGroup'
    BY <2>1 DEF FlowIInv, StageGroup
  <2>4. CaptureGroup'
    BY <2>1 DEF FlowIInv, CaptureGroup, Watched, CapturedIsThisAttempts
  <2>5. TeardownGroup'
    BY <2>1 DEF FlowIInv, TeardownGroup, OneLegged, NothingOpens, Live, Flat
  <2>6. QED
    BY <2>2, <2>3, <2>4, <2>5 DEF FlowIInv
<1>8. QED
  BY <1>1, <1>2, <1>3, <1>4, <1>5, <1>6, <1>7 DEF Next

LEMMA FlowIInvariant == Spec => []FlowIInv
<1>1. Init => FlowIInv
  BY InitInv
<1>2. FlowIInv /\ [Next]_vars => FlowIInv'
  BY StepInv
<1>3. QED
  BY <1>1, <1>2, PTL DEF Spec

(***************************************************************************)
(* Whatever the volume drive left behind and whatever is filled, refused   *)
(* or lost meanwhile: the maker fill that capture_subject_maker_fill       *)
(* returns is one of this attempt's own order, and it adds up.             *)
(***************************************************************************)
THEOREM FlowInvariant == Spec => []FlowInv
<1>1. FlowIInv => FlowInv
  BY DEF FlowIInv, FlowInv, CaptureGroup
<1>2. QED
  BY <1>1, FlowIInvariant, PTL

(***************************************************************************)
(* flatten_perp_pair returns "flat" for two accounts with one leg each and *)
(* no order alive that opens one: then both are flat, and stay so.         *)
(***************************************************************************)
THEOREM FlatMeansFlat == Spec => []FlatReturnIsFlat
<1>1. FlowIInv => FlatReturnIsFlat
  <2> SUFFICES ASSUME FlowIInv, how = "flat", inherited.tidy, NEW p \in Party
               PROVE  pos[p] = NoPosition
    BY DEF FlatReturnIsFlat, AllFlat
  <2>1. \A leg \in Leg : pos[p][leg] = 0
    BY DEF FlowIInv, TeardownGroup, Flat
  <2>2. pos[p] \in [Leg -> Nat]
    BY DEF FlowIInv, TypeOK, ExchangeTypeOK
  <2>3. QED
    BY <2>1, <2>2 DEF NoPosition
<1>2. QED
  BY <1>1, FlowIInvariant, PTL

(***************************************************************************)
(* From the moment the teardown is called no leg grows, except by an order *)
(* that the tests left alive in the book: its own orders are reduce-only,  *)
(* whatever it has read and however many rounds it takes.                  *)
(***************************************************************************)
THEOREM TeardownOnlyReduces == Spec => OnlyReduces
<1> DEFINE Reduces == how # "not_called" =>
               \A p \in Party : \A leg \in Leg : Grows(p, leg) => LeftOver(p, leg)
<1>1. FlowIInv /\ [Next]_vars => [Reduces]_<<exchange, how>>
  <2> SUFFICES ASSUME FlowIInv, [Next]_vars, how # "not_called",
                      NEW p \in Party, NEW leg \in Leg, Grows(p, leg)
               PROVE  LeftOver(p, leg)
    OBVIOUS
  <2>1. ExchangeTypeOK
    BY DEF FlowIInv, TypeOK
  <2>2. pos' # pos
    <3>1. pos[p][leg] \in Nat
      BY <2>1 DEF ExchangeTypeOK
    <3>2. QED
      BY <3>1 DEF Grows
  <2>3. Match
    <3>1. CASE Capture \/ CaptureRaises
      <4>1. pc \in CaptureRuns
        BY <3>1 DEF Capture, CaptureRaises, Try, Raise, StartAttempt, OutOfAttempts, RestSell,
                    LiftSell, PostAgain, SeeFill, CloseSubject, CloseMaker, CloseTurn, CaptureRuns
      <4>2. QED
        BY <4>1, CaptureNotCalled
    <3>2. CASE ModuleEnds
      BY <2>2, <3>2 DEF ModuleEnds, BeginFlatten, exchange
    <3>3. CASE Flatten \/ FlattenRaises
      BY <2>2, <3>3 DEF Flatten, FlattenRaises, Teardown, ReadA, ReadB, RestBid, SellIntoBid,
                        OrderAgain, WaitOver, CloseA, CloseB, GiveUp, CloseTurn, SubmitCloses, exchange
    <3>4. CASE UNCHANGED vars
      BY <2>2, <3>4 DEF vars, exchange
    <3>5. CASE Matching
      BY <3>5 DEF Matching
    <3>6. QED
      BY <3>1, <3>2, <3>3, <3>4, <3>5 DEF Next
  <2>4. PICK i \in DOMAIN orders :
            orders[i].opens /\ orders[i].party = p /\ orders[i].leg = leg /\ Live(i)
    BY <2>1, <2>3, MatchKeeps DEF GrowthExplained
  <2>5. i <= inherited.orders /\ inherited.orders \in 0..Len(orders)
    BY <2>4 DEF FlowIInv, TeardownGroup, TypeOK, FlattenTypeOK
  <2>6. i \in 1..inherited.orders
    BY <2>1, <2>4, <2>5, BookIsFunction
  <2>7. QED
    BY <2>4, <2>6 DEF LeftOver
<1>2. QED
  BY <1>1, FlowIInvariant, PTL DEF Spec, OnlyReduces
=============================================================================
