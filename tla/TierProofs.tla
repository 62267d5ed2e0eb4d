----------------------------- MODULE TierProofs -----------------------------
(***************************************************************************)
(* Proofs about the volume driver and the tests of fees and tiers, for any *)
(* schedules, standard rates, order sizes and bounds, from the inductive   *)
(* invariants of the two modules: totals of amounts; a step of the         *)
(* exchange; a step of the driver; tiers and rates; a step of each test;   *)
(* a step of the platform; and what follows for every run.                 *)
(***************************************************************************)
EXTENDS TierSettlement, FiniteSetTheorems, SequenceTheorems, WellFoundedInduction, TLAPS

-----------------------------------------------------------------------------
(* Totals.                                                                 *)

LEMMA UnitsAreFinite ==
    ASSUME NEW D, IsFiniteSet(D), NEW n \in [D -> 0..MaxUnits]
    PROVE  IsFiniteSet(Units(n)) /\ Total(n) \in Nat
<1>1. IsFiniteSet(1..MaxUnits)
  BY FS_Interval, ExchangeAssumption DEF ExchangeAssumption
<1>2. IsFiniteSet(D \X (1..MaxUnits))
  BY <1>1, FS_Product
<1>3. Units(n) \in SUBSET (D \X (1..MaxUnits))
  BY DEF Units
<1>4. IsFiniteSet(Units(n))
  BY <1>2, <1>3, FS_Subset
<1>5. QED
  BY <1>4, FS_CardinalityType DEF Total

\* One amount grows by one.
LEMMA TotalGrows ==
    ASSUME NEW D, IsFiniteSet(D), NEW n \in [D -> 0..MaxUnits], NEW m \in [D -> 0..MaxUnits],
           NEW i \in D, m[i] = n[i] + 1, \A j \in D \ {i} : m[j] = n[j]
    PROVE  Total(m) = Total(n) + 1
<1> USE ExchangeAssumption DEF ExchangeAssumption
<1>1. \A j \in D : n[j] \in 0..MaxUnits /\ m[j] \in 0..MaxUnits
  OBVIOUS
<1>2. <<i, m[i]>> \notin Units(n)
  BY <1>1 DEF Units
<1>3. Units(m) = Units(n) \cup {<<i, m[i]>>}
  <2>1. ASSUME NEW j \in D, NEW k \in 1..MaxUnits
        PROVE  <<j, k>> \in Units(m) <=> <<j, k>> \in Units(n) \cup {<<i, m[i]>>}
    <3>1. CASE j = i
      BY <1>1, <3>1 DEF Units
    <3>2. CASE j # i
      BY <1>1, <3>2 DEF Units
    <3>3. QED
      BY <3>1, <3>2
  <2>2. <<i, m[i]>> \in D \X (1..MaxUnits)
    BY <1>1
  <2>3. Units(m) \subseteq D \X (1..MaxUnits) /\ Units(n) \subseteq D \X (1..MaxUnits)
    BY DEF Units
  <2>4. \A u \in D \X (1..MaxUnits) : u \in Units(m) <=> u \in Units(n) \cup {<<i, m[i]>>}
    BY <2>1
  <2>5. QED
    BY <2>2, <2>3, <2>4
<1>4. QED
  BY <1>2, <1>3, UnitsAreFinite, FS_AddElement DEF Total

\* One amount is new.
Amounts(D) == [D -> 0..MaxUnits]
Agree(m, n, D) == \A i \in D : m[i] = n[i]

LEMMA TotalExtends ==
    \A D, k, n, m : /\ IsFiniteSet(D) /\ k \notin D
                   /\ n \in Amounts(D) /\ m \in Amounts(D \cup {k}) /\ Agree(m, n, D)
                   => Total(m) = Total(n) + m[k]
<1> SUFFICES ASSUME NEW D, NEW k, IsFiniteSet(D), k \notin D,
                    NEW n \in [D -> 0..MaxUnits], NEW m \in [D \cup {k} -> 0..MaxUnits],
                    \A j \in D : m[j] = n[j]
             PROVE  Total(m) = Total(n) + m[k]
  BY DEF Amounts, Agree
<1> USE ExchangeAssumption DEF ExchangeAssumption
<1> DEFINE New == {k} \X (1..m[k])
<1>1. m[k] \in 0..MaxUnits /\ \A j \in D : n[j] \in 0..MaxUnits
  OBVIOUS
<1>2. Units(m) = Units(n) \cup New
  <2>1. ASSUME NEW j \in D \cup {k}, NEW c \in 1..MaxUnits
        PROVE  <<j, c>> \in Units(m) <=> <<j, c>> \in Units(n) \cup New
    <3>1. CASE j = k
      BY <1>1, <3>1 DEF Units
    <3>2. CASE j # k
      BY <1>1, <3>2 DEF Units
    <3>3. QED
      BY <3>1, <3>2
  <2>2. /\ Units(m) \subseteq (D \cup {k}) \X (1..MaxUnits)
        /\ Units(n) \subseteq (D \cup {k}) \X (1..MaxUnits)
    BY DEF Units
  <2>3. New \subseteq (D \cup {k}) \X (1..MaxUnits)
    BY <1>1
  <2>4. \A u \in (D \cup {k}) \X (1..MaxUnits) : u \in Units(m) <=> u \in Units(n) \cup New
    BY <2>1
  <2>5. QED
    BY <2>2, <2>3, <2>4
<1>3. Units(n) \cap New = {}
  BY DEF Units
<1>4. IsFiniteSet(New) /\ Cardinality(New) = m[k]
  <2>1. IsFiniteSet(1..m[k]) /\ Cardinality(1..m[k]) = m[k]
    <3>1. m[k] \in Nat /\ m[k] \in Int /\ 1 \in Int
      BY <1>1
    <3>2. /\ IsFiniteSet(1..m[k])
          /\ Cardinality(1..m[k]) = IF 1 > m[k] THEN 0 ELSE m[k] - 1 + 1
      BY <3>1, FS_Interval
    <3>3. QED
      BY <3>1, <3>2
  <2>2. IsFiniteSet({k}) /\ Cardinality({k}) = 1
    BY FS_Singleton
  <2>3. IsFiniteSet(New) /\ Cardinality(New) = Cardinality({k}) * Cardinality(1..m[k])
    BY <2>1, <2>2, FS_Product
  <2>4. QED
    BY <1>1, <2>1, <2>2, <2>3
<1>5. Cardinality(Units(n) \cap New) = 0
  BY <1>3, FS_EmptySet
<1>6. Cardinality(Units(n) \cup New) = Cardinality(Units(n)) + Cardinality(New) - Cardinality(Units(n) \cap New)
  <2>1. IsFiniteSet(Units(n))
    BY UnitsAreFinite
  <2> HIDE DEF New
  <2>2. QED
    BY <1>4, <2>1, FS_Union
<1>7. Total(n) \in Nat
  BY UnitsAreFinite
<1>8. QED
  BY <1>1, <1>2, <1>4, <1>5, <1>6, <1>7 DEF Total

\* Nothing makes nothing.
LEMMA TotalOfNone ==
    ASSUME NEW n, DOMAIN n = {}
    PROVE  Total(n) = 0
<1>1. Units(n) = {}
  BY DEF Units
<1>2. QED
  BY <1>1, FS_EmptySet DEF Total
-----------------------------------------------------------------------------
(* A step of the exchange.                                                 *)

LEMMA TradedOrder ==
    ASSUME NEW o \in Order, o.left > 0, o.left + Filled(o) <= MaxUnits,
           NEW role \in {"took", "made"}
    PROVE  /\ Traded(o, role) \in Order
           /\ Traded(o, role).left = o.left - 1
           /\ Filled(Traded(o, role)) = Filled(o) + 1
           /\ Traded(o, role).party = o.party /\ Traded(o, role).leg = o.leg
           /\ Traded(o, role).opens = o.opens /\ Traded(o, role).rests = o.rests
<1> USE ExchangeAssumption DEF ExchangeAssumption
<1>1. /\ o.left \in Nat /\ o.made \in Nat /\ o.took \in Nat
      /\ o.state \in {"new", "resting", "done"}
  BY DEF Order
<1>2. CASE role = "took"
  <2> DEFINE st == IF o.left = 1 THEN "done" ELSE o.state
             r == [o EXCEPT !.left = o.left - 1, !.took = o.took + 1, !.state = st]
  <2>1. Traded(o, role) = r
    BY <1>2 DEF Traded
  <2>2. st \in {"new", "resting", "done"}
    BY <1>1
  <2>3. o.left - 1 \in Nat /\ o.took + 1 \in Nat
    BY <1>1 DEF Filled
  <2> HIDE DEF st
  <2>4. r \in Order
    BY <2>2, <2>3 DEF Order
  <2>5. /\ r.left = o.left - 1 /\ r.took = o.took + 1 /\ r.made = o.made
        /\ r.party = o.party /\ r.leg = o.leg /\ r.opens = o.opens /\ r.rests = o.rests
    BY DEF Order
  <2> HIDE DEF r
  <2>6. Filled(r) = Filled(o) + 1
    BY <1>1, <2>5 DEF Filled
  <2>7. QED
    BY <2>1, <2>4, <2>5, <2>6
<1>3. CASE role = "made"
  <2> DEFINE st == IF o.left = 1 THEN "done" ELSE o.state
             r == [o EXCEPT !.left = o.left - 1, !.made = o.made + 1, !.state = st]
  <2>1. Traded(o, role) = r
    BY <1>3 DEF Traded
  <2>2. st \in {"new", "resting", "done"}
    BY <1>1
  <2>3. o.left - 1 \in Nat /\ o.made + 1 \in Nat
    BY <1>1 DEF Filled
  <2> HIDE DEF st
  <2>4. r \in Order
    BY <2>2, <2>3 DEF Order
  <2>5. /\ r.left = o.left - 1 /\ r.made = o.made + 1 /\ r.took = o.took
        /\ r.party = o.party /\ r.leg = o.leg /\ r.opens = o.opens /\ r.rests = o.rests
    BY DEF Order
  <2> HIDE DEF r
  <2>6. Filled(r) = Filled(o) + 1
    BY <1>1, <2>5 DEF Filled
  <2>7. QED
    BY <2>1, <2>4, <2>5, <2>6
<1>4. QED
  BY <1>2, <1>3

LEMMA OrderCounts ==
    \A o \in Order : o.left \in Nat /\ Filled(o) \in Nat
<1>1. \A m, n \in Nat : m + n \in Nat /\ m \in Nat
  OBVIOUS
<1>2. QED
  BY <1>1 DEF Order, Filled

LEMMA OrdersAreFunction ==
    ASSUME ExchangeTypeOK
    PROVE  /\ Len(orders) \in Nat /\ DOMAIN orders = 1..Len(orders)
           /\ orders \in [1..Len(orders) -> Order]
           /\ IsFiniteSet(DOMAIN orders)
           /\ \A f \in [1..Len(orders) -> Order] : f \in Seq(Order)
<1>1. /\ Len(orders) \in Nat /\ DOMAIN orders = 1..Len(orders)
      /\ orders \in [1..Len(orders) -> Order]
      /\ \A f \in [1..Len(orders) -> Order] : f \in Seq(Order)
  BY SeqDef, LenProperties DEF ExchangeTypeOK
<1>2. 1 \in Int /\ Len(orders) \in Int
  BY <1>1
<1>3. QED
  BY <1>1, <1>2, FS_Interval

\* The orders of T trade a unit each, the others may change their state.
Trading(T) ==
    /\ T \subseteq DOMAIN orders
    /\ \A i, j \in T : orders[i].party = orders[j].party => i = j
    /\ orders' \in Seq(Order) /\ DOMAIN orders' = DOMAIN orders
    /\ \A i \in DOMAIN orders :
        /\ orders'[i].party = orders[i].party /\ orders'[i].leg = orders[i].leg
        /\ orders'[i].opens = orders[i].opens /\ orders'[i].rests = orders[i].rests
        /\ i \in T => /\ orders[i].left > 0 /\ orders'[i].left = orders[i].left - 1
                      /\ Filled(orders'[i]) = Filled(orders[i]) + 1
        /\ i \notin T => /\ orders'[i].left = orders[i].left
                         /\ Filled(orders'[i]) = Filled(orders[i])
    /\ pos' \in [Party -> [Leg -> Nat]]
    /\ \A i \in T : pos'[orders[i].party][orders[i].leg]
                      = pos[orders[i].party][orders[i].leg] + Moved(orders[i])
    /\ \A p \in Party : \A l \in Leg :
        (\A i \in T : ~(orders[i].party = p /\ orders[i].leg = l)) => pos'[p][l] = pos[p][l]

LEMMA CanMove ==
    ASSUME ExchangeTypeOK, NEW i \in DOMAIN orders, CanTrade(orders[i])
    PROVE  /\ orders[i] \in Order /\ orders[i].party \in Party /\ orders[i].leg \in Leg
           /\ orders[i].left > 0
           /\ pos[orders[i].party][orders[i].leg] + Moved(orders[i]) \in Nat
<1>1. /\ orders[i] \in Order /\ orders[i].party \in Party /\ orders[i].leg \in Leg
      /\ orders[i].opens \in BOOLEAN
  BY OrdersAreFunction DEF Order
<1>2. pos[orders[i].party][orders[i].leg] \in Nat
  BY <1>1 DEF ExchangeTypeOK
<1>3. QED
  BY <1>1, <1>2 DEF CanTrade, Moved

LEMMA MatchTrades ==
    ASSUME ExchangeTypeOK, OrdersBounded, Match
    PROVE  \E T \in SUBSET DOMAIN orders : Trading(T)
<1>0. PICK i \in DOMAIN orders : \/ \E m \in DOMAIN orders : Cross(i, m)
                                 \/ CrossOutside(i)
                                 \/ Settle(i)
  BY DEF Match
<1>1. /\ DOMAIN orders = 1..Len(orders) /\ orders \in [1..Len(orders) -> Order]
      /\ \A f \in [1..Len(orders) -> Order] : f \in Seq(Order)
      /\ pos \in [Party -> [Leg -> Nat]]
  BY OrdersAreFunction DEF ExchangeTypeOK
<1>2. CASE Settle(i)
  <2> DEFINE s == IF orders[i].rests THEN "resting" ELSE "done"
             r == [orders[i] EXCEPT !.state = s]
  <2>1. r \in Order /\ r.left = orders[i].left /\ Filled(r) = Filled(orders[i])
        /\ r.party = orders[i].party /\ r.leg = orders[i].leg
        /\ r.opens = orders[i].opens /\ r.rests = orders[i].rests
    BY <1>1 DEF Order, Filled
  <2>2. orders' = [orders EXCEPT ![i] = r] /\ pos' = pos
    BY <1>2 DEF Settle
  <2> HIDE DEF r
  <2>3. orders' \in Seq(Order) /\ DOMAIN orders' = DOMAIN orders
    BY <1>1, <2>1, <2>2
  <2>4. Trading({})
    BY <1>1, <2>1, <2>2, <2>3 DEF Trading
  <2>5. QED
    BY <2>4
<1>3. CASE CrossOutside(i)
  <2> DEFINE role == IF orders[i].state = "new" THEN "took" ELSE "made"
             r == Traded(orders[i], role)
             p == orders[i].party
             l == orders[i].leg
  <2>1. /\ orders[i] \in Order /\ p \in Party /\ l \in Leg /\ orders[i].left > 0
        /\ pos[p][l] + Moved(orders[i]) \in Nat
    BY <1>3, CanMove DEF CrossOutside
  <2>2. orders' = [orders EXCEPT ![i] = r]
        /\ pos' = [pos EXCEPT ![p][l] = pos[p][l] + Moved(orders[i])]
    BY <1>3 DEF CrossOutside
  <2>3. /\ r \in Order /\ r.left = orders[i].left - 1 /\ Filled(r) = Filled(orders[i]) + 1
        /\ r.party = p /\ r.leg = l
        /\ r.opens = orders[i].opens /\ r.rests = orders[i].rests
    BY <2>1, TradedOrder DEF OrdersBounded
  <2> HIDE DEF r, p, l
  <2>4. orders' \in Seq(Order) /\ DOMAIN orders' = DOMAIN orders
    BY <1>1, <2>2, <2>3
  <2>5. /\ pos' \in [Party -> [Leg -> Nat]] /\ pos'[p][l] = pos[p][l] + Moved(orders[i])
        /\ \A q \in Party : \A k \in Leg : ~(q = p /\ k = l) => pos'[q][k] = pos[q][k]
    BY <1>1, <2>1, <2>2
  <2>6. Trading({i})
    BY <1>1, <2>1, <2>2, <2>3, <2>4, <2>5 DEF Trading, p, l
  <2>7. QED
    BY <2>6
<1>4. ASSUME NEW m \in DOMAIN orders, Cross(i, m)
      PROVE  \E T \in SUBSET DOMAIN orders : Trading(T)
  <2> DEFINE r == Traded(orders[i], "took")
             s == Traded(orders[m], "made")
             p == orders[i].party
             l == orders[i].leg
             q == orders[m].party
             k == orders[m].leg
  <2>1. /\ orders[i] \in Order /\ p \in Party /\ l \in Leg /\ orders[i].left > 0
        /\ pos[p][l] + Moved(orders[i]) \in Nat
        /\ orders[m] \in Order /\ q \in Party /\ k \in Leg /\ orders[m].left > 0
        /\ pos[q][k] + Moved(orders[m]) \in Nat
        /\ p # q /\ i # m
    BY <1>4, CanMove DEF Cross
  <2>2. /\ orders' = [orders EXCEPT ![i] = r, ![m] = s]
        /\ pos' = [pos EXCEPT ![p][l] = pos[p][l] + Moved(orders[i]),
                              ![q][k] = pos[q][k] + Moved(orders[m])]
    <3>1. orders' = [orders EXCEPT ![i] = r, ![m] = s]
      BY <1>4, <2>1 DEF Cross
    <3>2. pos' = [pos EXCEPT ![p][l] = pos[p][l] + Moved(orders[i]),
                             ![q][k] = pos[q][k] + Moved(orders[m])]
      BY <1>1, <1>4, <2>1 DEF Cross
    <3>3. QED
      BY <3>1, <3>2
  <2>3. /\ r \in Order /\ r.left = orders[i].left - 1 /\ Filled(r) = Filled(orders[i]) + 1
        /\ r.party = p /\ r.leg = l
        /\ r.opens = orders[i].opens /\ r.rests = orders[i].rests
        /\ s \in Order /\ s.left = orders[m].left - 1 /\ Filled(s) = Filled(orders[m]) + 1
        /\ s.party = q /\ s.leg = k
        /\ s.opens = orders[m].opens /\ s.rests = orders[m].rests
    BY <2>1, TradedOrder DEF OrdersBounded
  <2> HIDE DEF r, s, p, l, q, k
  <2>4. orders' \in Seq(Order) /\ DOMAIN orders' = DOMAIN orders
        /\ orders'[i] = r /\ orders'[m] = s
        /\ \A j \in DOMAIN orders : j \notin {i, m} => orders'[j] = orders[j]
    BY <1>1, <2>1, <2>2, <2>3
  <2>5. /\ pos' \in [Party -> [Leg -> Nat]]
        /\ pos'[p][l] = pos[p][l] + Moved(orders[i])
        /\ pos'[q][k] = pos[q][k] + Moved(orders[m])
        /\ \A u \in Party : \A v \in Leg :
              ~(u = p /\ v = l) /\ ~(u = q /\ v = k) => pos'[u][v] = pos[u][v]
    BY <1>1, <2>1, <2>2
  <2>6. Trading({i, m})
    BY <1>1, <2>1, <2>3, <2>4, <2>5 DEF Trading, p, l, q, k
  <2>7. QED
    BY <2>6
<1>5. QED
  BY <1>0, <1>2, <1>3, <1>4

\* What they will have been filled for, and ordered, after the step.
FilledAfter(S) == [i \in S |-> Filled(orders'[i])]
OrderedAfter(S) == [i \in S |-> orders'[i].left + Filled(orders'[i])]

LEMMA AmountsTyped ==
    ASSUME ExchangeTypeOK, OrdersBounded, NEW S, S \subseteq DOMAIN orders
    PROVE  /\ IsFiniteSet(S)
           /\ FilledIn(S) \in [S -> 0..MaxUnits] /\ OrderedIn(S) \in [S -> 0..MaxUnits]
           /\ Total(FilledIn(S)) \in Nat /\ Total(OrderedIn(S)) \in Nat
<1> USE ExchangeAssumption DEF ExchangeAssumption
<1>1. IsFiniteSet(S)
  BY OrdersAreFunction, FS_Subset
<1>2. ASSUME NEW i \in S
      PROVE  Filled(orders[i]) \in 0..MaxUnits /\ orders[i].left + Filled(orders[i]) \in 0..MaxUnits
  <2>1. orders[i] \in Order
    BY OrdersAreFunction
  <2>2. orders[i].left + Filled(orders[i]) <= MaxUnits
    BY DEF OrdersBounded
  <2>3. orders[i].left \in Nat /\ orders[i].made \in Nat /\ orders[i].took \in Nat
    BY <2>1 DEF Order
  <2>4. QED
    BY <2>2, <2>3 DEF Filled
<1>3. FilledIn(S) \in [S -> 0..MaxUnits] /\ OrderedIn(S) \in [S -> 0..MaxUnits]
  BY <1>2 DEF FilledIn, OrderedIn
<1>4. QED
  BY <1>1, <1>3, UnitsAreFinite

\* Of a set of orders with at most one of those that trade.
LEMMA TradingTotals ==
    ASSUME ExchangeTypeOK, OrdersBounded, NEW T, Trading(T), NEW S, S \subseteq DOMAIN orders,
           \A i, j \in S \cap T : i = j
    PROVE  /\ S \cap T = {} => Total(FilledAfter(S)) = Total(FilledIn(S))
           /\ S \cap T # {} => Total(FilledAfter(S)) = Total(FilledIn(S)) + 1
           /\ OrderedAfter(S) = OrderedIn(S)
<1> DEFINE after == FilledAfter(S)
<1>1. /\ IsFiniteSet(S) /\ FilledIn(S) \in [S -> 0..MaxUnits]
      /\ \A i \in S : FilledIn(S)[i] = Filled(orders[i])
  BY AmountsTyped DEF FilledIn
<1>2. ASSUME NEW i \in S
      PROVE  /\ orders[i].left \in Nat /\ Filled(orders[i]) \in Nat
             /\ orders[i].left + Filled(orders[i]) <= MaxUnits
  <2>1. orders[i] \in Order
    BY OrdersAreFunction
  <2>2. QED
    BY <2>1 DEF Order, Filled, OrdersBounded
<1>3. \A i \in S : /\ i \in T => /\ orders[i].left > 0 /\ orders'[i].left = orders[i].left - 1
                                 /\ after[i] = Filled(orders[i]) + 1
                   /\ i \notin T => orders'[i].left = orders[i].left /\ after[i] = Filled(orders[i])
                   /\ Filled(orders'[i]) = after[i]
  BY DEF Trading, FilledAfter
<1>4. after \in [S -> 0..MaxUnits]
  <2>1. \A i \in S : after[i] \in 0..MaxUnits
    BY <1>2, <1>3, ExchangeAssumption DEF ExchangeAssumption
  <2>2. QED
    BY <2>1 DEF FilledAfter
<1>5. OrderedAfter(S) = OrderedIn(S)
  <2>1. \A i \in S : orders'[i].left + Filled(orders'[i]) = orders[i].left + Filled(orders[i])
    BY <1>2, <1>3
  <2>2. QED
    BY <2>1 DEF OrderedIn, OrderedAfter
<1>6. CASE S \cap T = {}
  <2>1. after = FilledIn(S)
    BY <1>3, <1>6 DEF FilledIn, FilledAfter
  <2>2. QED
    BY <1>5, <1>6, <2>1
<1>7. ASSUME NEW i \in S \cap T
      PROVE  Total(after) = Total(FilledIn(S)) + 1
  <2>1. after[i] = FilledIn(S)[i] + 1 /\ \A j \in S \ {i} : after[j] = FilledIn(S)[j]
    BY <1>1, <1>3, <1>7
  <2> HIDE DEF after
  <2>2. QED
    BY <1>1, <1>4, <2>1, TotalGrows
<1>8. QED
  BY <1>5, <1>6, <1>7

LEMMA SameOrders ==
    ASSUME NEW T, Trading(T)
    PROVE  /\ SubjectOrders' = SubjectOrders
           /\ \A p \in Party : \A l \in Leg : \A o \in BOOLEAN :
                LegOrders(p, l, o)' = LegOrders(p, l, o)
<1>1. DOMAIN orders' = DOMAIN orders
      /\ \A i \in DOMAIN orders : /\ orders'[i].party = orders[i].party
                                  /\ orders'[i].leg = orders[i].leg
                                  /\ orders'[i].opens = orders[i].opens
  BY DEF Trading
<1>2. QED
  BY <1>1 DEF SubjectOrders, LegOrders

LEMMA TradingExchangeInv ==
    ASSUME ExchangeInv, NEW T, Trading(T), repeats' = repeats
    PROVE  ExchangeInv'
<1>1. ExchangeTypeOK /\ OrdersBounded /\ pos \in [Party -> [Leg -> Nat]]
  BY DEF ExchangeInv, ExchangeTypeOK
<1>2. ExchangeTypeOK'
  <2>1. pos' \in [Party -> [Leg -> Nat]] /\ orders' \in Seq(Order)
    BY DEF Trading
  <2>2. repeats' \in Nat
    BY <1>1 DEF ExchangeTypeOK
  <2>3. QED
    BY <2>1, <2>2 DEF ExchangeTypeOK
<1>3. OrdersBounded'
  <2>1. ASSUME NEW i \in DOMAIN orders
        PROVE  orders'[i].left + Filled(orders'[i]) <= MaxUnits
    <3>1. orders[i] \in Order /\ orders[i].left + Filled(orders[i]) <= MaxUnits
      BY <1>1, OrdersAreFunction DEF OrdersBounded
    <3>2. orders[i].left \in Nat /\ Filled(orders[i]) \in Nat
      BY <3>1, ExchangeAssumption DEF Order, Filled, ExchangeAssumption
    <3>3. orders'[i].left + Filled(orders'[i]) = orders[i].left + Filled(orders[i])
      BY <3>2 DEF Trading
    <3>4. QED
      BY <3>1, <3>3
  <2>2. DOMAIN orders' = DOMAIN orders
    BY DEF Trading
  <2>3. QED
    BY <2>1, <2>2 DEF OrdersBounded
<1>4. PosIsFilled'
  <2> SUFFICES ASSUME NEW p \in Party, NEW l \in Leg
               PROVE  pos'[p][l] + Total(FilledIn(LegOrders(p, l, FALSE)))'
                        = Total(FilledIn(LegOrders(p, l, TRUE)))'
    BY DEF PosIsFilled
  <2> DEFINE A == LegOrders(p, l, TRUE)
             B == LegOrders(p, l, FALSE)
             a == Total(FilledIn(A))
             b == Total(FilledIn(B))
             x == Total(FilledAfter(A))
             y == Total(FilledAfter(B))
  <2>1. A \subseteq DOMAIN orders /\ B \subseteq DOMAIN orders
    BY DEF LegOrders
  <2>2. Total(FilledIn(A))' = x /\ Total(FilledIn(B))' = y
    <3>1. A' = A /\ B' = B
      BY SameOrders
    <3>2. QED
      BY <3>1 DEF FilledIn, FilledAfter
  <2>3. a \in Nat /\ b \in Nat /\ pos[p][l] \in Nat /\ pos[p][l] + b = a
    BY <1>1, <2>1, AmountsTyped DEF ExchangeInv, PosIsFilled
  <2>4. /\ T \subseteq DOMAIN orders
        /\ \A i \in T : \A j \in T : orders[i].party = orders[j].party => i = j
    BY DEF Trading
  <2>5. /\ A \cap T = {} => x = a
        /\ A \cap T # {} => x = a + 1
        /\ B \cap T = {} => y = b
        /\ B \cap T # {} => y = b + 1
    <3>1. (\A i, j \in A \cap T : i = j) /\ (\A i, j \in B \cap T : i = j)
      BY <2>4 DEF LegOrders
    <3> HIDE DEF A, B
    <3>2. QED
      BY <1>1, <2>1, <3>1, TradingTotals
  <2> HIDE DEF a, b, x, y
  <2>6. CASE \A i \in T : ~(orders[i].party = p /\ orders[i].leg = l)
    <3>1. A \cap T = {} /\ B \cap T = {}
      BY <2>6 DEF LegOrders
    <3>2. pos'[p][l] = pos[p][l]
      BY <2>6 DEF Trading
    <3>3. QED
      BY <2>2, <2>3, <2>5, <3>1, <3>2
  <2>7. ASSUME NEW i \in T, orders[i].party = p, orders[i].leg = l
        PROVE  pos'[p][l] + y = x
    <3>1. pos'[p][l] = pos[p][l] + Moved(orders[i])
      BY <2>7 DEF Trading
    <3>2. i \in DOMAIN orders /\ orders[i].opens \in BOOLEAN
      <4>1. i \in DOMAIN orders /\ orders[i] \in Order
        BY <1>1, <2>4, OrdersAreFunction
      <4>2. QED
        BY <4>1 DEF Order
    <3>3. CASE orders[i].opens
      <4>1. A \cap T # {} /\ B \cap T = {}
        BY <2>4, <2>7, <3>2, <3>3 DEF LegOrders
      <4>2. Moved(orders[i]) = 1
        BY <3>3 DEF Moved
      <4> HIDE DEF A, B
      <4>3. QED
        BY <2>3, <2>5, <3>1, <4>1, <4>2
    <3>4. CASE ~orders[i].opens
      <4>1. B \cap T # {} /\ A \cap T = {}
        BY <2>4, <2>7, <3>2, <3>4 DEF LegOrders
      <4>2. Moved(orders[i]) = -1
        BY <3>4 DEF Moved
      <4> HIDE DEF A, B
      <4>3. QED
        BY <2>3, <2>5, <3>1, <4>1, <4>2
    <3>5. QED
      BY <3>3, <3>4
  <2>8. QED
    BY <2>2, <2>6, <2>7
<1>5. QED
  BY <1>2, <1>3, <1>4 DEF ExchangeInv

LEMMA OneMoreOrder ==
    ASSUME ExchangeTypeOK, NEW p \in Party, NEW l \in Leg, NEW o \in BOOLEAN, NEW r \in BOOLEAN,
           NEW u \in 0..MaxUnits, Place(p, l, o, r, u)
    PROVE  /\ Len(orders) + 1 \notin DOMAIN orders
           /\ orders' \in Seq(Order) /\ DOMAIN orders' = DOMAIN orders \cup {Len(orders) + 1}
           /\ \A i \in DOMAIN orders : orders'[i] = orders[i]
           /\ orders'[Len(orders) + 1] = NewOrder(p, l, o, r, u)
           /\ Len(orders') = Len(orders) + 1
<1> USE ExchangeAssumption DEF ExchangeAssumption
<1> DEFINE new == NewOrder(p, l, o, r, u)
<1>1. new \in Order
  BY DEF NewOrder, Order
<1>2. orders' = orders \o <<new>>
  BY DEF Place, Accept
<1> HIDE DEF new
<1>3. <<new>> \in Seq(Order) /\ Len(<<new>>) = 1 /\ <<new>>[1] = new
  BY <1>1
<1>4. /\ Len(orders) \in Nat /\ DOMAIN orders = 1..Len(orders)
      /\ orders \in Seq(Order)
  BY OrdersAreFunction DEF ExchangeTypeOK
<1>5. /\ orders \o <<new>> \in Seq(Order)
      /\ Len(orders \o <<new>>) = Len(orders) + 1
      /\ \A i \in 1..(Len(orders) + 1) :
            (orders \o <<new>>)[i] = IF i <= Len(orders) THEN orders[i] ELSE <<new>>[i - Len(orders)]
  BY <1>3, <1>4, ConcatProperties
<1>6. DOMAIN orders' = 1..(Len(orders) + 1)
  BY <1>2, <1>5, LenProperties
<1>7. orders'[Len(orders) + 1] = new
  BY <1>2, <1>3, <1>4, <1>5
<1>8. \A i \in DOMAIN orders : orders'[i] = orders[i]
  BY <1>2, <1>4, <1>5
<1>9. DOMAIN orders' = DOMAIN orders \cup {Len(orders) + 1}
      /\ Len(orders) + 1 \notin DOMAIN orders
  BY <1>4, <1>6
<1>10. QED
  BY <1>2, <1>5, <1>7, <1>8, <1>9 DEF new

LEMMA PlaceTotals ==
    ASSUME ExchangeTypeOK, OrdersBounded, NEW p \in Party, NEW l \in Leg, NEW o \in BOOLEAN,
           NEW r \in BOOLEAN, NEW u \in 0..MaxUnits, Place(p, l, o, r, u),
           NEW S, S \subseteq DOMAIN orders,
           NEW k, k = Len(orders) + 1
    PROVE  /\ FilledAfter(S) = FilledIn(S)
           /\ OrderedAfter(S) = OrderedIn(S)
           /\ Total(FilledAfter(S \cup {k})) = Total(FilledIn(S))
           /\ Total(OrderedAfter(S \cup {k})) = Total(OrderedIn(S)) + u
<1> USE ExchangeAssumption DEF ExchangeAssumption
<1> DEFINE f == FilledAfter(S \cup {k})
           g == OrderedAfter(S \cup {k})
<1>1. /\ k \notin S /\ \A i \in S : orders'[i] = orders[i]
      /\ orders'[k] = NewOrder(p, l, o, r, u)
  BY OneMoreOrder
<1>2. /\ IsFiniteSet(S) /\ FilledIn(S) \in [S -> 0..MaxUnits] /\ OrderedIn(S) \in [S -> 0..MaxUnits]
      /\ Total(FilledIn(S)) \in Nat
  BY AmountsTyped
<1>3. Filled(orders'[k]) = 0 /\ orders'[k].left + Filled(orders'[k]) = u
  BY <1>1 DEF Filled, NewOrder
<1>4. /\ FilledAfter(S) = FilledIn(S)
      /\ OrderedAfter(S) = OrderedIn(S)
  BY <1>1 DEF FilledIn, OrderedIn, FilledAfter, OrderedAfter
<1>5. \A i \in S : f[i] = FilledIn(S)[i] /\ g[i] = OrderedIn(S)[i]
  BY <1>1 DEF FilledIn, OrderedIn, FilledAfter, OrderedAfter
<1>6. f[k] = 0 /\ g[k] = u
  BY <1>3 DEF FilledAfter, OrderedAfter
<1>8. f \in [S \cup {k} -> 0..MaxUnits] /\ g \in [S \cup {k} -> 0..MaxUnits]
  <2>1. ASSUME NEW i \in S \cup {k}
        PROVE  /\ Filled(orders'[i]) \in 0..MaxUnits
               /\ orders'[i].left + Filled(orders'[i]) \in 0..MaxUnits
    <3>1. CASE i = k
      BY <1>3, <3>1
    <3>2. CASE i \in S
      <4>1. /\ FilledIn(S)[i] = Filled(orders'[i])
            /\ OrderedIn(S)[i] = orders'[i].left + Filled(orders'[i])
        BY <1>1, <3>2 DEF FilledIn, OrderedIn
      <4>2. QED
        BY <1>2, <3>2, <4>1
    <3>3. QED
      BY <3>1, <3>2
  <2>2. QED
    BY <2>1 DEF FilledAfter, OrderedAfter
<1> HIDE DEF f, g
<1>7. k \notin S /\ (\A i \in S : f[i] = FilledIn(S)[i]) /\ (\A i \in S : g[i] = OrderedIn(S)[i])
  BY <1>1, <1>5
<1>9. Total(f) = Total(FilledIn(S)) + f[k] /\ Total(g) = Total(OrderedIn(S)) + g[k]
  <2>1. f \in Amounts(S \cup {k}) /\ g \in Amounts(S \cup {k})
    BY <1>8 DEF Amounts
  <2>2. FilledIn(S) \in Amounts(S) /\ OrderedIn(S) \in Amounts(S)
    BY <1>2 DEF Amounts
  <2>3. Agree(f, FilledIn(S), S) /\ Agree(g, OrderedIn(S), S)
    BY <1>7 DEF Agree
  <2>4. IsFiniteSet(S) /\ k \notin S
    BY <1>2, <1>7
  <2>5. QED
    BY <2>1, <2>2, <2>3, <2>4, TotalExtends
<1>10. Total(f) = Total(FilledIn(S)) /\ Total(g) = Total(OrderedIn(S)) + u
  BY <1>2, <1>6, <1>9
<1>11. QED
  BY <1>4, <1>10 DEF f, g

\* What an accepted order adds to a leg.
LEMMA PlaceLegs ==
    ASSUME ExchangeTypeOK, OrdersBounded, NEW p \in Party, NEW l \in Leg, NEW o \in BOOLEAN,
           NEW r \in BOOLEAN, NEW u \in 0..MaxUnits, Place(p, l, o, r, u),
           NEW q \in Party, NEW m \in Leg, NEW b \in BOOLEAN
    PROVE  /\ Total(FilledIn(LegOrders(q, m, b)))' = Total(FilledIn(LegOrders(q, m, b)))
           /\ Total(OrderedIn(LegOrders(q, m, b)))'
                = Total(OrderedIn(LegOrders(q, m, b))) + (IF q = p /\ m = l /\ b = o THEN u ELSE 0)
<1> DEFINE S == LegOrders(q, m, b)
           k == Len(orders) + 1
<1>1. S \subseteq DOMAIN orders
  BY DEF LegOrders
<1>2. /\ DOMAIN orders' = DOMAIN orders \cup {k} /\ k \notin DOMAIN orders
      /\ \A i \in DOMAIN orders : orders'[i] = orders[i]
      /\ orders'[k].party = p /\ orders'[k].leg = l /\ orders'[k].opens = o
  <2>1. /\ DOMAIN orders' = DOMAIN orders \cup {k} /\ k \notin DOMAIN orders
        /\ \A i \in DOMAIN orders : orders'[i] = orders[i]
        /\ orders'[k] = NewOrder(p, l, o, r, u)
    BY OneMoreOrder, Zenon
  <2>2. /\ NewOrder(p, l, o, r, u).party = p /\ NewOrder(p, l, o, r, u).leg = l
        /\ NewOrder(p, l, o, r, u).opens = o
    BY DEF NewOrder
  <2>3. QED
    BY <2>1, <2>2
<1>3. Total(OrderedIn(S)) \in Nat
  BY <1>1, AmountsTyped
<1>4. CASE q = p /\ m = l /\ b = o
  <2>1. S' = S \cup {k}
    BY <1>2, <1>4 DEF LegOrders
  <2>2. /\ Total(FilledIn(S))' = Total(FilledAfter(S \cup {k}))
        /\ Total(OrderedIn(S))' = Total(OrderedAfter(S \cup {k}))
    BY <2>1 DEF FilledIn, OrderedIn, FilledAfter, OrderedAfter
  <2>3. k = Len(orders) + 1
    OBVIOUS
  <2>4. /\ Total(FilledAfter(S \cup {k})) = Total(FilledIn(S))
        /\ Total(OrderedAfter(S \cup {k})) = Total(OrderedIn(S)) + u
    <3> HIDE DEF S, k
    <3>1. QED
      BY <1>1, <2>3, PlaceTotals
  <2>5. QED
    BY <1>4, <2>2, <2>4
<1>5. CASE ~(q = p /\ m = l /\ b = o)
  <2>1. S' = S
    BY <1>2, <1>5 DEF LegOrders
  <2>2. /\ Total(FilledIn(S))' = Total(FilledAfter(S))
        /\ Total(OrderedIn(S))' = Total(OrderedAfter(S))
    BY <2>1 DEF FilledIn, OrderedIn, FilledAfter, OrderedAfter
  <2>3. /\ FilledAfter(S) = FilledIn(S)
        /\ OrderedAfter(S) = OrderedIn(S)
    <3> HIDE DEF S
    <3>1. QED
      BY <1>1, PlaceTotals
  <2>4. QED
    BY <1>3, <1>5, <2>2, <2>3
<1>6. QED
  BY <1>4, <1>5

LEMMA PlaceExchangeInv ==
    ASSUME ExchangeInv, NEW p \in Party, NEW l \in Leg, NEW o \in BOOLEAN, NEW r \in BOOLEAN,
           NEW u \in 0..MaxUnits, Place(p, l, o, r, u), pos' = pos, repeats' \in Nat
    PROVE  ExchangeInv'
<1>1. ExchangeTypeOK /\ OrdersBounded
  BY DEF ExchangeInv
<1>2. /\ orders' \in Seq(Order) /\ DOMAIN orders' = DOMAIN orders \cup {Len(orders) + 1}
      /\ \A i \in DOMAIN orders : orders'[i] = orders[i]
      /\ orders'[Len(orders) + 1] = NewOrder(p, l, o, r, u)
  BY <1>1, OneMoreOrder
<1>3. ExchangeTypeOK'
  BY <1>1, <1>2 DEF ExchangeTypeOK
<1>4. OrdersBounded'
  <2>1. orders'[Len(orders) + 1].left + Filled(orders'[Len(orders) + 1]) <= MaxUnits
    BY <1>2, ExchangeAssumption DEF NewOrder, Filled, ExchangeAssumption
  <2>2. QED
    BY <1>1, <1>2, <2>1 DEF OrdersBounded
<1>5. PosIsFilled'
  <2> SUFFICES ASSUME NEW q \in Party, NEW m \in Leg
               PROVE  pos'[q][m] + Total(FilledIn(LegOrders(q, m, FALSE)))'
                        = Total(FilledIn(LegOrders(q, m, TRUE)))'
    BY DEF PosIsFilled
  <2>1. /\ Total(FilledIn(LegOrders(q, m, FALSE)))' = Total(FilledIn(LegOrders(q, m, FALSE)))
        /\ Total(FilledIn(LegOrders(q, m, TRUE)))' = Total(FilledIn(LegOrders(q, m, TRUE)))
    <3>1. \A b \in BOOLEAN : Total(FilledIn(LegOrders(q, m, b)))' = Total(FilledIn(LegOrders(q, m, b)))
      BY <1>1, PlaceLegs
    <3>2. QED
      BY <3>1
  <2>2. pos[q][m] + Total(FilledIn(LegOrders(q, m, FALSE))) = Total(FilledIn(LegOrders(q, m, TRUE)))
    BY DEF ExchangeInv, PosIsFilled
  <2>3. QED
    BY <2>1, <2>2
<1>6. QED
  BY <1>3, <1>4, <1>5 DEF ExchangeInv

-----------------------------------------------------------------------------
(* A step of the driver.                                                   *)

Opened(p, l) == Total(OrderedIn(LegOrders(p, l, TRUE)))
Closed(p, l) == Total(OrderedIn(LegOrders(p, l, FALSE)))

Placed(p, l, u, q, m) == IF q = p /\ m = l THEN u ELSE 0

LEMMA PlaceOpensOrCloses ==
    ASSUME ExchangeTypeOK, OrdersBounded, NEW p \in Party, NEW l \in Leg, NEW o \in BOOLEAN,
           NEW r \in BOOLEAN, NEW u \in 0..MaxUnits, Place(p, l, o, r, u),
           NEW q \in Party, NEW m \in Leg
    PROVE  /\ o => /\ Opened(q, m)' = Opened(q, m) + Placed(p, l, u, q, m)
                   /\ Closed(q, m)' = Closed(q, m)
           /\ ~o => /\ Opened(q, m)' = Opened(q, m)
                    /\ Closed(q, m)' = Closed(q, m) + Placed(p, l, u, q, m)
           /\ Opened(q, m) \in Nat /\ Closed(q, m) \in Nat
<1>1. \A b \in BOOLEAN :
        Total(OrderedIn(LegOrders(q, m, b)))'
          = Total(OrderedIn(LegOrders(q, m, b))) + (IF q = p /\ m = l /\ b = o THEN u ELSE 0)
  BY PlaceLegs
<1>2. /\ Opened(q, m)' = Opened(q, m) + (IF q = p /\ m = l /\ TRUE = o THEN u ELSE 0)
      /\ Closed(q, m)' = Closed(q, m) + (IF q = p /\ m = l /\ FALSE = o THEN u ELSE 0)
  BY <1>1 DEF Opened, Closed
<1>3. Opened(q, m) \in Nat /\ Closed(q, m) \in Nat
  <2>1. LegOrders(q, m, TRUE) \subseteq DOMAIN orders /\ LegOrders(q, m, FALSE) \subseteq DOMAIN orders
    BY DEF LegOrders
  <2>2. QED
    BY <2>1, AmountsTyped DEF Opened, Closed
<1>4. CASE o
  BY <1>2, <1>3, <1>4 DEF Placed
<1>5. CASE ~o
  BY <1>2, <1>3, <1>5 DEF Placed
<1>6. QED
  BY <1>4, <1>5

LEMMA OrdersMatchIs ==
    OrdersMatch <=> (pc # "raised" /\ repeats = 0 => \A p \in Party : \A l \in Leg :
                        Opened(p, l) = Closed(p, l) + Outstanding(p, l))
BY DEF OrdersMatch, Opened, Closed

\* The subject's volume when it does not trade.
LEMMA PlaceKeepsVolume ==
    ASSUME ExchangeTypeOK, OrdersBounded, NEW p \in Party, NEW l \in Leg, NEW o \in BOOLEAN,
           NEW r \in BOOLEAN, NEW u \in 0..MaxUnits, Place(p, l, o, r, u)
    PROVE  /\ SubjectVolume' = SubjectVolume
           /\ p = Subject => Len(orders) + 1 \in SubjectOrders'
<1> DEFINE k == Len(orders) + 1
<1>1. SubjectOrders \subseteq DOMAIN orders
  BY DEF SubjectOrders
<1>2. /\ DOMAIN orders' = DOMAIN orders \cup {k} /\ k \notin DOMAIN orders
      /\ \A i \in DOMAIN orders : orders'[i] = orders[i]
      /\ orders'[k].party = p
  <2>1. /\ DOMAIN orders' = DOMAIN orders \cup {k} /\ k \notin DOMAIN orders
        /\ \A i \in DOMAIN orders : orders'[i] = orders[i]
        /\ orders'[k] = NewOrder(p, l, o, r, u)
    BY OneMoreOrder
  <2>2. QED
    BY <2>1 DEF NewOrder
<1>3. /\ FilledAfter(SubjectOrders) = FilledIn(SubjectOrders)
      /\ Total(FilledAfter(SubjectOrders \cup {k})) = Total(FilledIn(SubjectOrders))
  <2>1. k = Len(orders) + 1
    OBVIOUS
  <2> HIDE DEF k
  <2>2. QED
    BY <1>1, <2>1, PlaceTotals
<1>4. CASE p = Subject
  <2>1. SubjectOrders' = SubjectOrders \cup {k}
    BY <1>2, <1>4 DEF SubjectOrders
  <2>2. SubjectVolume' = Total(FilledAfter(SubjectOrders \cup {k}))
    BY <2>1 DEF SubjectVolume, FilledIn, FilledAfter
  <2>3. QED
    BY <1>3, <2>1, <2>2 DEF SubjectVolume
<1>5. CASE p # Subject
  <2>1. SubjectOrders' = SubjectOrders
    BY <1>2, <1>5 DEF SubjectOrders
  <2>2. SubjectVolume' = Total(FilledAfter(SubjectOrders))
    BY <2>1 DEF SubjectVolume, FilledIn, FilledAfter
  <2>3. QED
    BY <1>3, <1>5, <2>2 DEF SubjectVolume
<1>6. QED
  BY <1>4, <1>5

\* When it does: by no less than any one of its orders.
LEMMA TradingVolume ==
    ASSUME ExchangeTypeOK, OrdersBounded, NEW T, Trading(T)
    PROVE  /\ SubjectVolume \in Nat /\ SubjectVolume' \in Nat /\ SubjectVolume' >= SubjectVolume
           /\ \A i \in SubjectOrders :
                /\ Filled(orders[i]) \in Nat
                /\ SubjectVolume' - Filled(orders'[i]) >= SubjectVolume - Filled(orders[i])
<1> DEFINE S == SubjectOrders
<1>1. S \subseteq DOMAIN orders /\ S' = S
  BY SameOrders DEF SubjectOrders
<1>2. \A i, j \in S \cap T : i = j
  BY DEF Trading, SubjectOrders
<1>3. SubjectVolume' = Total(FilledAfter(S))
  BY <1>1 DEF SubjectVolume, FilledIn, FilledAfter
<1>4. SubjectVolume \in Nat
  BY <1>1, AmountsTyped DEF SubjectVolume
<1>5. /\ S \cap T = {} => SubjectVolume' = SubjectVolume
      /\ S \cap T # {} => SubjectVolume' = SubjectVolume + 1
  <2> HIDE DEF S
  <2>1. /\ S \cap T = {} => Total(FilledAfter(S)) = Total(FilledIn(S))
        /\ S \cap T # {} => Total(FilledAfter(S)) = Total(FilledIn(S)) + 1
    BY <1>1, <1>2, TradingTotals
  <2>2. QED
    BY <1>3, <2>1 DEF SubjectVolume, S
<1>6. ASSUME NEW i \in S
      PROVE  /\ Filled(orders[i]) \in Nat
             /\ i \in T => Filled(orders'[i]) = Filled(orders[i]) + 1
             /\ i \notin T => Filled(orders'[i]) = Filled(orders[i])
  <2>1. orders[i] \in Order
    BY <1>1, OrdersAreFunction
  <2>2. Filled(orders[i]) \in Nat
    BY <2>1, ExchangeAssumption DEF Order, Filled, ExchangeAssumption
  <2>3. QED
    BY <1>1, <2>2 DEF Trading
<1> HIDE DEF S
<1>7. ASSUME NEW i \in S
      PROVE  SubjectVolume' - Filled(orders'[i]) >= SubjectVolume - Filled(orders[i])
  <2>1. CASE i \in T
    BY <1>4, <1>5, <1>6, <2>1
  <2>2. CASE i \notin T
    BY <1>4, <1>5, <1>6, <2>2
  <2>3. QED
    BY <2>1, <2>2
<1>8. QED
  BY <1>4, <1>5, <1>6, <1>7 DEF S

LEMMA SameBook ==
    ASSUME ExchangeInv, pos' = pos, orders' = orders, repeats' = repeats
    PROVE  /\ ExchangeInv' /\ SubjectVolume' = SubjectVolume
           /\ \A p \in Party : \A l \in Leg :
                Opened(p, l)' = Opened(p, l) /\ Closed(p, l)' = Closed(p, l)
<1>1. SubjectVolume' = SubjectVolume
  BY DEF SubjectVolume, SubjectOrders, FilledIn
<1>2. \A p \in Party : \A l \in Leg : Opened(p, l)' = Opened(p, l) /\ Closed(p, l)' = Closed(p, l)
  BY DEF Opened, Closed, LegOrders, OrderedIn
<1>3. ExchangeTypeOK' /\ OrdersBounded'
  BY DEF ExchangeInv, ExchangeTypeOK, OrdersBounded
<1>4. PosIsFilled'
  <2>1. \A p \in Party : \A l \in Leg :
           /\ Total(FilledIn(LegOrders(p, l, TRUE)))' = Total(FilledIn(LegOrders(p, l, TRUE)))
           /\ Total(FilledIn(LegOrders(p, l, FALSE)))' = Total(FilledIn(LegOrders(p, l, FALSE)))
    BY DEF FilledIn, LegOrders
  <2>2. QED
    BY <2>1 DEF ExchangeInv, PosIsFilled
<1>5. QED
  BY <1>1, <1>2, <1>3, <1>4 DEF ExchangeInv

\* What all steps of the driver start from.
LEMMA DriverFacts ==
    ASSUME DriverIInv
    PROVE  /\ ExchangeInv /\ ExchangeTypeOK /\ OrdersBounded
           /\ leg \in {"open", "close"} /\ amount \in 0..MaxUnits /\ MaxUnits \in Nat
           /\ Len(orders) \in Nat /\ taker \in 0..Len(orders) /\ repeats \in Nat
           /\ target \in Nat /\ traded \in Nat /\ cycles \in 0..MaxCycles /\ MaxCycles \in Nat
           /\ skipped \in 0..(2 * MaxCycles)
           /\ SubjectVolume \in Nat /\ traded <= SubjectVolume
           /\ Subject \in Party /\ Maker \in Party /\ Subject # Maker
           /\ "long" \in Leg /\ "short" \in Leg
<1>1. /\ ExchangeInv /\ ExchangeTypeOK /\ OrdersBounded
  BY DEF DriverIInv, ExchangeInv
<1>2. SubjectVolume \in Nat
  <2>1. SubjectOrders \subseteq DOMAIN orders
    BY DEF SubjectOrders
  <2>2. QED
    BY <1>1, <2>1, AmountsTyped DEF SubjectVolume
<1>3. Len(orders) \in Nat /\ repeats \in Nat
  BY <1>1, OrdersAreFunction DEF ExchangeTypeOK
<1>4. QED
  BY <1>1, <1>2, <1>3, ExchangeAssumption, DriverAssumption
  DEF DriverIInv, DriverInv, DriverTypeOK, VolumeIsReal, ExchangeAssumption, DriverAssumption, Leg

LEMMA StartCycleInv ==
    ASSUME DriverIInv, StartCycle
    PROVE  DriverIInv'
<1>1. /\ pc = "loop" /\ pc' = "rest" /\ traded < target /\ cycles < MaxCycles
      /\ cycles' = cycles + 1 /\ amount' \in Sizes[cycles'] /\ leg' = "open"
      /\ UNCHANGED <<pos, orders, repeats, taker, target, traded, skipped>>
  BY DEF StartCycle, Goes, exchange
<1>2. cycles' \in 1..MaxCycles /\ amount' \in 1..MaxUnits
  BY <1>1, DriverFacts, DriverAssumption DEF DriverAssumption
<1>3. SubjectVolume' = SubjectVolume
  BY <1>1, DriverFacts, SameBook
<1>4. ExchangeInv'
  BY <1>1, DriverFacts, SameBook
<1>5. DriverInv'
  <2>1. DriverTypeOK'
    BY <1>1, <1>2, <1>4, DriverFacts DEF DriverTypeOK, ExchangeInv
  <2>2. traded' < target' + 2 * amount'
    <3>1. traded \in Nat /\ target \in Nat /\ traded' = traded /\ target' = target
      BY <1>1, DriverFacts
    <3>2. traded < target /\ amount' \in Nat /\ amount' >= 1
      BY <1>1, <1>2, DriverFacts
    <3>3. \A x, y, z \in Nat : x < y /\ z >= 1 => x < y + 2 * z
      OBVIOUS
    <3>4. QED
      BY <3>1, <3>2, <3>3
  <2>3. LegsAccountedFor' /\ OvershootBounded'
    BY <1>1, <2>2 DEF LegsAccountedFor, OvershootBounded
  <2>4. VolumeIsReal'
    BY <1>1, <1>3, DriverFacts DEF VolumeIsReal
  <2>5. QED
    BY <2>1, <2>3, <2>4 DEF DriverInv
<1>6. CycleInv'
  <2>1. LegsToGo = 0 /\ LegsToGo' = 2 /\ InLeg'
    BY <1>1 DEF LegsToGo, InLeg
  <2>2. skipped <= 2 * cycles /\ traded + skipped >= 2 * cycles
    BY <1>1, <2>1, DriverFacts DEF DriverIInv, CycleInv
  <2>3. /\ cycles \in Nat /\ skipped \in Nat /\ traded \in Nat /\ target \in Nat /\ amount' >= 1
    BY <1>2, DriverFacts
  <2>4. QED
    BY <1>1, <2>1, <2>2, <2>3 DEF CycleInv
<1>7. AwaitedInv'
  BY <1>1 DEF AwaitedInv
<1>8. OrdersMatch'
  <2> SUFFICES ASSUME repeats = 0
               PROVE  OrdersMatch'
    BY <1>1 DEF OrdersMatch
  <2>1. \A p \in Party : \A l \in Leg : Opened(p, l)' = Opened(p, l) /\ Closed(p, l)' = Closed(p, l)
    BY <1>1, DriverFacts, SameBook
  <2>2. \A p \in Party : \A l \in Leg : Outstanding(p, l) = 0 /\ Outstanding(p, l)' = 0
    BY <1>1 DEF Outstanding, Unclosed
  <2>3. \A p \in Party : \A l \in Leg : Opened(p, l) = Closed(p, l) + Outstanding(p, l)
    BY <1>1, OrdersMatchIs DEF DriverIInv
  <2>4. \A p \in Party : \A l \in Leg : Opened(p, l)' = Closed(p, l)' + Outstanding(p, l)'
    BY <2>1, <2>2, <2>3
  <2>5. QED
    BY <2>4 DEF OrdersMatch, Opened, Closed
<1>9. QED
  BY <1>4, <1>5, <1>6, <1>7, <1>8 DEF DriverIInv

LEMMA FinishInv ==
    ASSUME DriverIInv, Finish
    PROVE  DriverIInv'
<1>1. /\ pc = "loop" /\ pc' = "done"
      /\ UNCHANGED <<pos, orders, repeats, leg, amount, taker, target, traded, cycles, skipped>>
  BY DEF Finish, exchange, local
<1>2. ExchangeInv'
  BY <1>1, DriverFacts, SameBook
<1>3. SubjectVolume' = SubjectVolume
  BY <1>1, DriverFacts, SameBook
<1>4. DriverInv'
  <2>1. DriverTypeOK'
    BY <1>1, <1>2, DriverFacts DEF DriverTypeOK, ExchangeInv
  <2>2. QED
    BY <1>1, <1>3, <2>1
    DEF DriverIInv, DriverInv, LegsAccountedFor, OvershootBounded, VolumeIsReal
<1>5. CycleInv' /\ AwaitedInv'
  BY <1>1 DEF DriverIInv, CycleInv, AwaitedInv, InLeg, LegsToGo
<1>6. OrdersMatch'
  <2> SUFFICES ASSUME repeats = 0
               PROVE  OrdersMatch'
    BY <1>1 DEF OrdersMatch
  <2>1. \A p \in Party : \A l \in Leg : Opened(p, l)' = Opened(p, l) /\ Closed(p, l)' = Closed(p, l)
    BY <1>1, DriverFacts, SameBook
  <2>2. \A p \in Party : \A l \in Leg : Outstanding(p, l) = 0 /\ Outstanding(p, l)' = 0
    BY <1>1 DEF Outstanding, Unclosed
  <2>3. \A p \in Party : \A l \in Leg : Opened(p, l) = Closed(p, l) + Outstanding(p, l)
    BY <1>1, OrdersMatchIs DEF DriverIInv
  <2>4. \A p \in Party : \A l \in Leg : Opened(p, l)' = Closed(p, l)' + Outstanding(p, l)'
    BY <2>1, <2>2, <2>3
  <2>5. QED
    BY <2>4 DEF OrdersMatch, Opened, Closed
<1>7. QED
  BY <1>2, <1>4, <1>5, <1>6 DEF DriverIInv

LEMMA RestMakerInv ==
    ASSUME DriverIInv, RestMaker
    PROVE  DriverIInv'
<1>1. /\ pc = "rest" /\ pc' = "take" /\ Place(Maker, "short", Opens, TRUE, amount)
      /\ UNCHANGED <<pos, repeats, leg, amount, taker, target, traded, cycles, skipped>>
  BY DEF RestMaker, local
<1>2. Opens \in BOOLEAN
  BY DEF Opens
<1>3. ExchangeInv'
  BY <1>1, <1>2, DriverFacts, PlaceExchangeInv
<1>4. SubjectVolume' = SubjectVolume /\ Len(orders') = Len(orders) + 1
  BY <1>1, <1>2, DriverFacts, PlaceKeepsVolume, OneMoreOrder
<1>5. DriverInv'
  <2>1. DriverTypeOK'
    BY <1>1, <1>3, <1>4, DriverFacts DEF DriverTypeOK, ExchangeInv
  <2>2. QED
    BY <1>1, <1>4, <2>1
    DEF DriverIInv, DriverInv, LegsAccountedFor, OvershootBounded, VolumeIsReal
<1>6. CycleInv' /\ AwaitedInv'
  BY <1>1 DEF DriverIInv, CycleInv, AwaitedInv, InLeg, LegsToGo
<1>7. OrdersMatch'
  <2> SUFFICES ASSUME repeats = 0, NEW p \in Party, NEW l \in Leg
               PROVE  Opened(p, l)' = Closed(p, l)' + Outstanding(p, l)'
    BY <1>1 DEF OrdersMatch, Opened, Closed
  <2> DEFINE added == Placed(Maker, "short", amount, p, l)
  <2>1. Opened(p, l) = Closed(p, l) + Outstanding(p, l)
    BY <1>1, OrdersMatchIs DEF DriverIInv
  <2>2. /\ Opens => Opened(p, l)' = Opened(p, l) + added /\ Closed(p, l)' = Closed(p, l)
        /\ ~Opens => Opened(p, l)' = Opened(p, l) /\ Closed(p, l)' = Closed(p, l) + added
        /\ Opened(p, l) \in Nat /\ Closed(p, l) \in Nat
    <3>1. ExchangeTypeOK /\ OrdersBounded /\ Subject \in Party /\ Maker \in Party
          /\ "long" \in Leg /\ "short" \in Leg
      BY DriverFacts
    <3>2. /\ FALSE \in BOOLEAN /\ TRUE \in BOOLEAN /\ Opens \in BOOLEAN /\ amount \in 0..MaxUnits
          /\ Place(Maker, "short", Opens, TRUE, amount)
      BY <1>1, <1>2, DriverFacts
    <3>3. QED
      BY <3>1, <3>2, PlaceOpensOrCloses, ZenonT(30)
  <2>3. amount \in Nat /\ Subject # Maker /\ leg \in {"open", "close"}
    BY DriverFacts
  <2>4. CASE leg = "open"
    <3>1. Outstanding(p, l) = 0 /\ Outstanding(p, l)' = added
      BY <1>1, <2>3, <2>4 DEF Outstanding, Unclosed, Placed
    <3>2. QED
      BY <2>1, <2>2, <2>3, <2>4, <3>1 DEF Opens, Placed
  <2>5. CASE leg = "close"
    <3>1. /\ p = Maker /\ l = "short" => Outstanding(p, l) = amount /\ Outstanding(p, l)' = 0
          /\ ~(p = Maker /\ l = "short") => Outstanding(p, l)' = Outstanding(p, l)
      BY <1>1, <2>3, <2>5 DEF Outstanding, Unclosed, Placed
    <3>2. QED
      BY <2>1, <2>2, <2>3, <2>5, <3>1 DEF Opens, Placed
  <2>6. QED
    BY <2>3, <2>4, <2>5
<1>8. QED
  BY <1>3, <1>5, <1>6, <1>7 DEF DriverIInv

LEMMA TakeMakerInv ==
    ASSUME DriverIInv, TakeMaker
    PROVE  DriverIInv'
<1>1. /\ pc = "take" /\ pc' = "wait" /\ Place(Subject, "long", Opens, FALSE, amount)
      /\ taker' = Len(orders) + 1
      /\ UNCHANGED <<pos, repeats, leg, amount, target, traded, cycles, skipped>>
  BY DEF TakeMaker
<1>2. Opens \in BOOLEAN
  BY DEF Opens
<1>3. ExchangeInv'
  BY <1>1, <1>2, DriverFacts, PlaceExchangeInv
<1>4. /\ SubjectVolume' = SubjectVolume /\ taker' \in SubjectOrders'
      /\ Len(orders') = Len(orders) + 1
      /\ orders'[taker'] = NewOrder(Subject, "long", Opens, FALSE, amount)
  BY <1>1, <1>2, DriverFacts, PlaceKeepsVolume, OneMoreOrder
<1>5. DriverInv'
  <2>1. DriverTypeOK'
    BY <1>1, <1>3, <1>4, DriverFacts DEF DriverTypeOK, ExchangeInv
  <2>2. QED
    BY <1>1, <1>4, <2>1
    DEF DriverIInv, DriverInv, LegsAccountedFor, OvershootBounded, VolumeIsReal
<1>6. CycleInv'
  BY <1>1 DEF DriverIInv, CycleInv, InLeg, LegsToGo
<1>7. AwaitedInv'
  <2> DEFINE new == NewOrder(Subject, "long", Opens, FALSE, amount)
  <2>1. new.left = amount /\ Filled(new) = 0
    BY DEF NewOrder, Filled
  <2> HIDE DEF new
  <2>2. Filled(orders'[taker']) = 0 /\ orders'[taker'].left = amount
    BY <1>4, <2>1 DEF new
  <2>3. amount' = amount /\ traded' = traded /\ amount \in Nat /\ traded \in Nat
        /\ traded <= SubjectVolume
    BY <1>1, DriverFacts
  <2> DEFINE a == orders'[taker'].left
             b == Filled(orders'[taker'])
             v == SubjectVolume'
  <2>4. a = amount /\ b = 0 /\ v = SubjectVolume
    BY <1>4, <2>2
  <2> HIDE DEF a, b, v
  <2>5. a + b = amount' /\ traded' + b <= v
    BY <2>3, <2>4
  <2>6. QED
    BY <1>4, <2>5 DEF AwaitedInv, a, b, v
<1>8. OrdersMatch'
  <2> SUFFICES ASSUME repeats = 0, NEW p \in Party, NEW l \in Leg
               PROVE  Opened(p, l)' = Closed(p, l)' + Outstanding(p, l)'
    BY <1>1 DEF OrdersMatch, Opened, Closed
  <2> DEFINE added == Placed(Subject, "long", amount, p, l)
  <2>1. Opened(p, l) = Closed(p, l) + Outstanding(p, l)
    BY <1>1, OrdersMatchIs DEF DriverIInv
  <2>2. /\ Opens => Opened(p, l)' = Opened(p, l) + added /\ Closed(p, l)' = Closed(p, l)
        /\ ~Opens => Opened(p, l)' = Opened(p, l) /\ Closed(p, l)' = Closed(p, l) + added
        /\ Opened(p, l) \in Nat /\ Closed(p, l) \in Nat
    <3>1. ExchangeTypeOK /\ OrdersBounded /\ Subject \in Party /\ Maker \in Party
          /\ "long" \in Leg /\ "short" \in Leg
      BY DriverFacts
    <3>2. /\ FALSE \in BOOLEAN /\ TRUE \in BOOLEAN /\ Opens \in BOOLEAN /\ amount \in 0..MaxUnits
          /\ Place(Subject, "long", Opens, FALSE, amount)
      BY <1>1, <1>2, DriverFacts
    <3>3. QED
      BY <3>1, <3>2, PlaceOpensOrCloses, ZenonT(30)
  <2>3. amount \in Nat /\ Subject # Maker /\ leg \in {"open", "close"}
    BY DriverFacts
  <2>4. CASE leg = "open"
    <3>1. /\ p = Subject /\ l = "long" => Outstanding(p, l) = 0 /\ Outstanding(p, l)' = amount
          /\ ~(p = Subject /\ l = "long") => Outstanding(p, l)' = Outstanding(p, l)
      BY <1>1, <2>3, <2>4 DEF Outstanding, Unclosed, Placed
    <3>2. QED
      BY <2>1, <2>2, <2>3, <2>4, <3>1 DEF Opens, Placed
  <2>5. CASE leg = "close"
    <3>1. /\ p = Subject /\ l = "long" => Outstanding(p, l) = amount /\ Outstanding(p, l)' = 0
          /\ ~(p = Subject /\ l = "long") => Outstanding(p, l)' = Outstanding(p, l)
      BY <1>1, <2>3, <2>5 DEF Outstanding, Unclosed, Placed
    <3>2. QED
      BY <2>1, <2>2, <2>3, <2>5, <3>1 DEF Opens, Placed
  <2>6. QED
    BY <2>3, <2>4, <2>5
<1>9. QED
  BY <1>3, <1>5, <1>6, <1>7, <1>8 DEF DriverIInv

LEMMA PostAgainInv ==
    ASSUME DriverIInv, PostAgain
    PROVE  DriverIInv'
<1>1. /\ pc \in {"rest", "take"}
      /\ \/ Place(Maker, "short", Opens, TRUE, amount)
         \/ Place(Subject, "long", Opens, FALSE, amount)
      /\ repeats' = repeats + 1
      /\ UNCHANGED <<pos, pc, leg, amount, taker, target, traded, cycles, skipped>>
  BY DEF PostAgain, PlaceAgain, Repeats, driver, local
<1>2. Opens \in BOOLEAN
  BY DEF Opens
<1>3. repeats' \in Nat /\ repeats' # 0
  BY <1>1, DriverFacts
<1>4. ExchangeInv'
  BY <1>1, <1>2, <1>3, DriverFacts, PlaceExchangeInv
<1>5. SubjectVolume' = SubjectVolume /\ Len(orders') = Len(orders) + 1
  BY <1>1, <1>2, DriverFacts, PlaceKeepsVolume, OneMoreOrder
<1>6. DriverInv'
  <2>1. DriverTypeOK'
    BY <1>1, <1>4, <1>5, DriverFacts DEF DriverTypeOK, ExchangeInv
  <2>2. QED
    BY <1>1, <1>5, <2>1
    DEF DriverIInv, DriverInv, LegsAccountedFor, OvershootBounded, VolumeIsReal
<1>7. CycleInv' /\ AwaitedInv'
  BY <1>1 DEF DriverIInv, CycleInv, AwaitedInv, InLeg, LegsToGo
<1>8. OrdersMatch'
  BY <1>3 DEF OrdersMatch
<1>9. QED
  BY <1>4, <1>6, <1>7, <1>8 DEF DriverIInv

\* A leg that ends, with n units filled or (0) skipped.
LEMMA LegEndsInv ==
    ASSUME DriverIInv, pc = "wait", NextLeg, NEW n \in Nat, n = Filled(orders[taker]),
           traded' = traded + n, skipped' = skipped + (IF n = 0 THEN 1 ELSE 0),
           UNCHANGED <<pos, orders, repeats, amount, taker, target, cycles>>
    PROVE  DriverIInv'
<1>1. /\ leg = "open" => leg' = "close" /\ pc' = "rest"
      /\ leg = "close" => leg' = "close" /\ pc' = "loop"
      /\ leg \in {"open", "close"}
  BY DriverFacts DEF NextLeg
<1>2. ExchangeInv' /\ SubjectVolume' = SubjectVolume
  BY DriverFacts, SameBook
<1>3. /\ amount >= 1 /\ traded < target + (IF leg = "open" THEN 0 ELSE amount)
      /\ skipped + (IF leg = "open" THEN 2 ELSE 1) <= 2 * cycles
      /\ traded + skipped + (IF leg = "open" THEN 2 ELSE 1) >= 2 * cycles
  BY DEF DriverIInv, CycleInv, InLeg, LegsToGo
<1>4. n <= amount /\ traded' <= SubjectVolume
  <2>1. /\ taker \in SubjectOrders /\ orders[taker].left + n = amount
        /\ traded + n <= SubjectVolume
    BY DEF DriverIInv, AwaitedInv
  <2>2. orders[taker] \in Order
    BY <2>1, DriverFacts, OrdersAreFunction DEF SubjectOrders
  <2>3. orders[taker].left \in Nat
    BY <2>2, OrderCounts
  <2>4. QED
    BY <2>1, <2>3
<1>5. /\ traded \in Nat /\ skipped \in Nat /\ cycles \in 0..MaxCycles /\ MaxCycles \in Nat
      /\ target \in Nat /\ amount \in Nat
  BY DriverFacts
<1>6. traded' + skipped' >= traded + skipped + 1
  BY <1>5
<1>7. skipped' \in 0..(2 * MaxCycles)
  BY <1>1, <1>3, <1>5
<1>8. DriverInv'
  <2>1. DriverTypeOK'
    BY <1>1, <1>2, <1>5, <1>7, DriverFacts DEF DriverTypeOK, ExchangeInv
  <2>2. LegsAccountedFor'
    BY <1>1, <1>3, <1>5, <1>6 DEF LegsAccountedFor
  <2>3. OvershootBounded'
    BY <1>1, <1>3, <1>4, <1>5 DEF OvershootBounded
  <2>4. QED
    BY <1>2, <1>4, <2>1, <2>2, <2>3 DEF DriverInv, VolumeIsReal
<1>9. CycleInv' /\ AwaitedInv'
  <2>1. CASE leg = "open"
    BY <1>1, <1>3, <1>4, <1>5, <1>6, <2>1 DEF CycleInv, InLeg, LegsToGo, AwaitedInv
  <2>2. CASE leg = "close"
    BY <1>1, <1>3, <1>4, <1>5, <1>6, <2>2 DEF CycleInv, InLeg, LegsToGo, AwaitedInv
  <2>3. QED
    BY <1>1, <2>1, <2>2
<1>10. OrdersMatch'
  <2> SUFFICES ASSUME repeats = 0
               PROVE  OrdersMatch'
    BY DEF OrdersMatch
  <2>1. \A p \in Party : \A l \in Leg : Opened(p, l)' = Opened(p, l) /\ Closed(p, l)' = Closed(p, l)
    BY DriverFacts, SameBook
  <2>2. \A p \in Party : \A l \in Leg : Outstanding(p, l)' = Outstanding(p, l)
    BY <1>1 DEF Outstanding, Unclosed
  <2>3. \A p \in Party : \A l \in Leg : Opened(p, l) = Closed(p, l) + Outstanding(p, l)
    BY OrdersMatchIs DEF DriverIInv
  <2>4. \A p \in Party : \A l \in Leg : Opened(p, l)' = Closed(p, l)' + Outstanding(p, l)'
    BY <2>1, <2>2, <2>3
  <2>5. QED
    BY <2>4 DEF OrdersMatch, Opened, Closed
<1>11. QED
  BY <1>2, <1>8, <1>9, <1>10 DEF DriverIInv

LEMMA AwaitedFill ==
    ASSUME DriverIInv, pc = "wait"
    PROVE  Filled(orders[taker]) \in Nat
<1>1. taker \in DOMAIN orders
  BY DEF DriverIInv, AwaitedInv, SubjectOrders
<1>2. orders[taker] \in Order
  BY <1>1, DriverFacts, OrdersAreFunction
<1>3. QED
  BY <1>2, OrderCounts

LEMMA WaitOverInv ==
    ASSUME DriverIInv, SeeFill \/ FillTimeout
    PROVE  DriverIInv'
<1>1. /\ pc = "wait" /\ NextLeg /\ UNCHANGED <<pos, orders, repeats, amount, taker, target, cycles>>
      /\ \/ /\ Filled(orders[taker]) > 0
            /\ traded' = traded + Filled(orders[taker]) /\ skipped' = skipped
         \/ Filled(orders[taker]) = 0 /\ traded' = traded /\ skipped' = skipped + 1
  BY DEF SeeFill, FillTimeout, CountFill, CountSkip, exchange
<1>2. Filled(orders[taker]) \in Nat /\ traded \in Nat /\ skipped \in Nat
  BY <1>1, AwaitedFill, DriverFacts
<1>3. /\ traded' = traded + Filled(orders[taker])
      /\ skipped' = skipped + (IF Filled(orders[taker]) = 0 THEN 1 ELSE 0)
  BY <1>1, <1>2
<1>4. QED
  BY <1>1, <1>2, <1>3, LegEndsInv

LEMMA RaiseInv ==
    ASSUME DriverIInv, Raise
    PROVE  DriverIInv'
<1>1. /\ pc \in {"rest", "take", "wait"} /\ pc' = "raised"
      /\ UNCHANGED <<pos, repeats, leg, amount, taker, target, traded, cycles, skipped>>
      /\ \/ orders' = orders
         \/ Place(Maker, "short", Opens, TRUE, amount)
         \/ Place(Subject, "long", Opens, FALSE, amount)
  BY DEF Raise, local
<1>2. Opens \in BOOLEAN
  BY DEF Opens
<1>3. ExchangeInv'
  BY <1>1, <1>2, DriverFacts, SameBook, PlaceExchangeInv
<1>4. SubjectVolume' = SubjectVolume
  BY <1>1, <1>2, DriverFacts, SameBook, PlaceKeepsVolume
<1>5. Len(orders') \in Nat /\ Len(orders') >= Len(orders)
  <2>1. CASE orders' = orders
    BY <2>1, DriverFacts
  <2>2. CASE Len(orders') = Len(orders) + 1
    BY <2>2, DriverFacts
  <2>3. QED
    BY <1>1, <1>2, <2>1, <2>2, DriverFacts, OneMoreOrder
<1>6. DriverInv'
  <2>1. DriverTypeOK'
    BY <1>1, <1>3, <1>5, DriverFacts DEF DriverTypeOK, ExchangeInv
  <2>2. QED
    BY <1>1, <1>4, <2>1
    DEF DriverIInv, DriverInv, LegsAccountedFor, OvershootBounded, VolumeIsReal
<1>7. CycleInv' /\ AwaitedInv'
  <2>1. skipped + LegsToGo <= 2 * cycles /\ LegsToGo \in Nat /\ skipped \in Nat /\ cycles \in Nat
    BY DriverFacts DEF DriverIInv, CycleInv, LegsToGo
  <2>2. skipped <= 2 * cycles
    BY <2>1
  <2>3. QED
    BY <1>1, <2>1, <2>2 DEF CycleInv, AwaitedInv, InLeg, LegsToGo
<1>8. OrdersMatch'
  BY <1>1 DEF OrdersMatch
<1>9. QED
  BY <1>3, <1>6, <1>7, <1>8 DEF DriverIInv

LEMMA TradingBook ==
    ASSUME ExchangeTypeOK, OrdersBounded, NEW T, Trading(T), NEW p \in Party, NEW l \in Leg
    PROVE  Opened(p, l)' = Opened(p, l) /\ Closed(p, l)' = Closed(p, l)
<1> DEFINE A == LegOrders(p, l, TRUE)
           B == LegOrders(p, l, FALSE)
<1>1. A \subseteq DOMAIN orders /\ B \subseteq DOMAIN orders
  BY DEF LegOrders
<1>2. A' = A /\ B' = B
  BY SameOrders
<1>3. (\A i, j \in A \cap T : i = j) /\ (\A i, j \in B \cap T : i = j)
  BY DEF LegOrders, Trading
<1>4. OrderedAfter(A) = OrderedIn(A) /\ OrderedAfter(B) = OrderedIn(B)
  <2> HIDE DEF A, B
  <2>1. QED
    BY <1>1, <1>3, TradingTotals
<1>5. /\ Opened(p, l)' = Total(OrderedAfter(A))
      /\ Closed(p, l)' = Total(OrderedAfter(B))
  BY <1>2 DEF Opened, Closed, OrderedIn, OrderedAfter
<1>6. QED
  BY <1>4, <1>5 DEF Opened, Closed

LEMMA MatchingInv ==
    ASSUME DriverIInv, Matching
    PROVE  DriverIInv'
<1>1. /\ Match /\ pc # "raised"
      /\ UNCHANGED <<pc, repeats, leg, amount, taker, target, traded, cycles, skipped>>
  BY DEF Matching, Match, driver, local
<1>2. PICK T : Trading(T)
  BY <1>1, DriverFacts, MatchTrades
<1>3. ExchangeInv'
  BY <1>1, <1>2, DriverFacts, TradingExchangeInv
<1>4. /\ SubjectVolume' \in Nat /\ SubjectVolume' >= SubjectVolume
      /\ \A i \in SubjectOrders :
           /\ Filled(orders[i]) \in Nat
           /\ SubjectVolume' - Filled(orders'[i]) >= SubjectVolume - Filled(orders[i])
  BY <1>2, DriverFacts, TradingVolume
<1>5. DriverInv'
  <2>1. Len(orders') = Len(orders)
    BY <1>2, LenProperties, DriverFacts DEF Trading, ExchangeTypeOK
  <2>2. DriverTypeOK'
    BY <1>1, <1>3, <2>1, DriverFacts DEF DriverTypeOK, ExchangeInv
  <2>3. VolumeIsReal'
    BY <1>1, <1>4, DriverFacts DEF VolumeIsReal
  <2>4. QED
    BY <1>1, <2>2, <2>3
    DEF DriverIInv, DriverInv, LegsAccountedFor, OvershootBounded
<1>6. CycleInv'
  BY <1>1 DEF DriverIInv, CycleInv, InLeg, LegsToGo
<1>7. AwaitedInv'
  <2> SUFFICES ASSUME pc = "wait"
               PROVE  /\ taker \in SubjectOrders'
                      /\ orders'[taker].left + Filled(orders'[taker]) = amount
                      /\ traded + Filled(orders'[taker]) <= SubjectVolume'
    BY <1>1 DEF AwaitedInv
  <2>1. /\ taker \in SubjectOrders /\ orders[taker].left + Filled(orders[taker]) = amount
        /\ traded + Filled(orders[taker]) <= SubjectVolume
    BY DEF DriverIInv, AwaitedInv
  <2>2. taker \in SubjectOrders'
    BY <1>2, <2>1, SameOrders
  <2>3. orders[taker].left \in Nat /\ Filled(orders[taker]) \in Nat
    <3>1. orders[taker] \in Order
      BY <2>1, DriverFacts, OrdersAreFunction DEF SubjectOrders
    <3>2. QED
      BY <3>1, OrderCounts
  <2> DEFINE a == orders[taker].left
             b == Filled(orders[taker])
             c == orders'[taker].left
             d == Filled(orders'[taker])
  <2>4. (c = a /\ d = b) \/ (c = a - 1 /\ d = b + 1)
    BY <1>2, <2>1 DEF Trading, SubjectOrders
  <2>5. SubjectVolume' - d >= SubjectVolume - b
    BY <1>4, <2>1
  <2>6. SubjectVolume' \in Nat /\ SubjectVolume \in Nat /\ traded \in Nat
    BY <1>4, DriverFacts
  <2>7. a + b = amount /\ traded + b <= SubjectVolume /\ a \in Nat /\ b \in Nat
    BY <2>1, <2>3
  <2> HIDE DEF a, b, c, d
  <2>8. c + d = amount
    BY <2>4, <2>7
  <2>9. traded + d <= SubjectVolume'
    BY <2>4, <2>5, <2>6, <2>7
  <2>10. QED
    BY <2>2, <2>8, <2>9 DEF c, d
<1>8. OrdersMatch'
  <2> SUFFICES ASSUME repeats = 0
               PROVE  OrdersMatch'
    BY <1>1 DEF OrdersMatch
  <2>1. \A p \in Party : \A l \in Leg : Opened(p, l)' = Opened(p, l) /\ Closed(p, l)' = Closed(p, l)
    BY <1>2, DriverFacts, TradingBook
  <2>2. \A p \in Party : \A l \in Leg : Outstanding(p, l)' = Outstanding(p, l)
    BY <1>1 DEF Outstanding, Unclosed
  <2>3. \A p \in Party : \A l \in Leg : Opened(p, l) = Closed(p, l) + Outstanding(p, l)
    BY <1>1, OrdersMatchIs DEF DriverIInv
  <2>4. \A p \in Party : \A l \in Leg : Opened(p, l)' = Closed(p, l)' + Outstanding(p, l)'
    BY <2>1, <2>2, <2>3
  <2>5. QED
    BY <2>4 DEF OrdersMatch, Opened, Closed
<1>9. QED
  BY <1>3, <1>5, <1>6, <1>7, <1>8 DEF DriverIInv

LEMMA DriverStepInv ==
    ASSUME DriverIInv, DriverNext
    PROVE  DriverIInv'
BY StartCycleInv, FinishInv, RestMakerInv, TakeMakerInv, PostAgainInv, WaitOverInv, RaiseInv, MatchingInv
DEF DriverNext, Drive

\* A driver that has nothing to do, or nothing yet.
LEMMA IdleInv ==
    ASSUME DriverIdle, pc \notin {"rest", "take", "wait"}
    PROVE  DriverIInv /\ SubjectVolume = 0
<1> USE ExchangeAssumption, DriverAssumption DEF ExchangeAssumption, DriverAssumption
<1>1. /\ pos = [p \in Party |-> NoPosition] /\ orders = <<>> /\ repeats = 0
      /\ leg = "open" /\ amount = 0 /\ taker = 0 /\ target = 0
      /\ traded = 0 /\ cycles = 0 /\ skipped = 0
  BY DEF DriverIdle
<1>2. DOMAIN orders = {} /\ orders \in Seq(Order) /\ Len(orders) = 0
  BY <1>1
<1>3. \A p \in Party : \A l \in Leg : pos[p][l] = 0
  BY <1>1 DEF NoPosition
<1>4. pos \in [Party -> [Leg -> Nat]]
  BY <1>1 DEF NoPosition
<1>5. \A p \in Party : \A l \in Leg : \A b \in BOOLEAN :
        /\ Total(FilledIn(LegOrders(p, l, b))) = 0
        /\ Total(OrderedIn(LegOrders(p, l, b))) = 0
  <2> SUFFICES ASSUME NEW p \in Party, NEW l \in Leg, NEW b \in BOOLEAN
               PROVE  /\ Total(FilledIn(LegOrders(p, l, b))) = 0
                      /\ Total(OrderedIn(LegOrders(p, l, b))) = 0
    OBVIOUS
  <2>1. LegOrders(p, l, b) = {}
    BY <1>2 DEF LegOrders
  <2>2. DOMAIN FilledIn(LegOrders(p, l, b)) = {} /\ DOMAIN OrderedIn(LegOrders(p, l, b)) = {}
    BY <2>1 DEF FilledIn, OrderedIn
  <2>3. QED
    BY <2>2, TotalOfNone
<1>6. SubjectVolume = 0
  <2>1. DOMAIN FilledIn(SubjectOrders) = {}
    BY <1>2 DEF FilledIn, SubjectOrders
  <2>2. QED
    BY <2>1, TotalOfNone DEF SubjectVolume
<1>7. ExchangeInv
  <2>1. ExchangeTypeOK /\ OrdersBounded
    <3>1. repeats \in Nat
      BY <1>1
    <3>2. QED
      BY <1>2, <1>4, <3>1 DEF ExchangeTypeOK, OrdersBounded
  <2>2. PosIsFilled
    <3> SUFFICES ASSUME NEW p \in Party, NEW l \in Leg
                 PROVE  pos[p][l] + Total(FilledIn(LegOrders(p, l, FALSE)))
                          = Total(FilledIn(LegOrders(p, l, TRUE)))
      BY DEF PosIsFilled
    <3> DEFINE a == Total(FilledIn(LegOrders(p, l, FALSE)))
               b == Total(FilledIn(LegOrders(p, l, TRUE)))
    <3>1. a = 0 /\ b = 0 /\ pos[p][l] = 0
      BY <1>3, <1>5
    <3> HIDE DEF a, b
    <3>2. pos[p][l] + a = b
      BY <3>1
    <3>3. QED
      BY <3>2 DEF a, b
  <2>3. QED
    BY <2>1, <2>2 DEF ExchangeInv
<1>8. DriverInv
  <2>1. DriverTypeOK
    BY <1>1, <1>2, <1>7 DEF DriverTypeOK, ExchangeInv
  <2>2. QED
    BY <1>1, <1>6, <2>1 DEF DriverInv, LegsAccountedFor, OvershootBounded, VolumeIsReal
<1>9. CycleInv /\ AwaitedInv
  BY <1>1 DEF CycleInv, AwaitedInv, InLeg, LegsToGo
<1>10. OrdersMatch
  <2>1. \A p \in Party : \A l \in Leg : Outstanding(p, l) = 0
    BY <1>1 DEF Outstanding, Unclosed
  <2>2. \A p \in Party : \A l \in Leg : Opened(p, l) = 0 /\ Closed(p, l) = 0
    BY <1>5 DEF Opened, Closed
  <2>3. \A p \in Party : \A l \in Leg : Opened(p, l) = Closed(p, l) + Outstanding(p, l)
    BY <2>1, <2>2
  <2>4. QED
    BY <2>3, OrdersMatchIs
<1>11. QED
  BY <1>6, <1>7, <1>8, <1>9, <1>10 DEF DriverIInv

LEMMA FilledIsFlat ==
    ASSUME DriverIInv
    PROVE  FilledCyclesEndFlat
<1> SUFFICES ASSUME pc \in {"loop", "done"}, AllFilled, repeats = 0, NEW p \in Party
             PROVE  pos[p] = NoPosition
  BY DEF FilledCyclesEndFlat, Flat
<1>1. pos \in [Party -> [Leg -> Nat]] /\ ExchangeTypeOK /\ OrdersBounded
  BY DriverFacts DEF ExchangeTypeOK
<1>2. ASSUME NEW l \in Leg
      PROVE  pos[p][l] = 0
  <2> DEFINE A == LegOrders(p, l, TRUE)
             B == LegOrders(p, l, FALSE)
  <2>1. A \subseteq DOMAIN orders /\ B \subseteq DOMAIN orders
    BY DEF LegOrders
  <2>2. \A i \in DOMAIN orders : orders[i].left + Filled(orders[i]) = Filled(orders[i])
    <3>1. ASSUME NEW i \in DOMAIN orders
          PROVE  orders[i].left + Filled(orders[i]) = Filled(orders[i])
      <4>1. orders[i] \in Order
        BY <1>1, OrdersAreFunction
      <4>2. orders[i].left = 0 /\ Filled(orders[i]) \in Nat
        BY <4>1, OrderCounts DEF AllFilled
      <4>3. QED
        BY <4>2
    <3>2. QED
      BY <3>1
  <2>3. OrderedIn(A) = FilledIn(A) /\ OrderedIn(B) = FilledIn(B)
    BY <2>1, <2>2 DEF OrderedIn, FilledIn
  <2>4. Opened(p, l) = Closed(p, l) + Outstanding(p, l) /\ Outstanding(p, l) = 0
    BY OrdersMatchIs DEF DriverIInv, Outstanding, Unclosed
  <2>5. pos[p][l] + Total(FilledIn(B)) = Total(FilledIn(A))
    BY DriverFacts DEF ExchangeInv, PosIsFilled
  <2>6. Total(FilledIn(A)) \in Nat /\ Total(FilledIn(B)) \in Nat /\ pos[p][l] \in Nat
    BY <1>1, <2>1, AmountsTyped
  <2>7. Opened(p, l) = Total(FilledIn(A)) /\ Closed(p, l) = Total(FilledIn(B))
    BY <2>3 DEF Opened, Closed
  <2> HIDE DEF A, B
  <2>8. QED
    BY <2>4, <2>5, <2>6, <2>7
<1>3. QED
  BY <1>1, <1>2 DEF NoPosition

-----------------------------------------------------------------------------
(* Tiers.                                                                  *)

NatLess == {p \in Nat \X Nat : p[1] < p[2]}

LEMMA SmallestOfMany ==
    ASSUME NEW S, S \subseteq Nat, S # {}
    PROVE  \E k \in S : \A j \in S : k <= j
<1>1. IsWellFoundedOn(NatLess, Nat)
  BY NatLessThanWellFounded DEF NatLess, OpToRel
<1>2. PICK k \in S : \A j \in S : ~(<<j, k>> \in NatLess)
  BY <1>1, WFMin
<1>3. ASSUME NEW j \in S
      PROVE  k <= j
  <2>1. <<j, k>> \in Nat \X Nat /\ ~(<<j, k>> \in NatLess)
    BY <1>2
  <2>2. ~(j < k)
    BY <2>1 DEF NatLess
  <2>3. QED
    BY <2>2
<1>4. QED
  BY <1>3

LEMMA GreatestExists ==
    ASSUME NEW n \in Nat, NEW S, S \subseteq 1..n, S # {}
    PROVE  /\ Max(S) \in S
           /\ \A i \in S : i <= Max(S)
<1> DEFINE B == {k \in Nat : \A i \in S : i <= k}
<1>1. n \in B
  OBVIOUS
<1>2. PICK k \in B : \A j \in B : k <= j
  <2>1. B \subseteq Nat /\ B # {}
    BY <1>1
  <2> HIDE DEF B
  <2>2. QED
    BY <2>1, SmallestOfMany
<1>3. k \in S
  <2> SUFFICES ASSUME k \notin S
               PROVE  FALSE
    OBVIOUS
  <2>1. \A i \in S : i \in Nat /\ i <= k /\ i # k /\ i >= 1
    BY <1>2
  <2>2. \A i \in S : i <= k - 1
    BY <1>2, <2>1
  <2>3. k - 1 \in Nat
    <3>1. PICK i \in S : TRUE
      OBVIOUS
    <3>2. i >= 1 /\ i <= k /\ i \in Nat /\ k \in Nat
      BY <1>2, <2>1
    <3>3. QED
      BY <3>2
  <2>4. k - 1 \in B
    BY <2>2, <2>3
  <2>5. QED
    BY <1>2, <2>4
<1>4. \A i \in S : k >= i
  BY <1>2
<1>5. Max(S) \in S /\ \A i \in S : Max(S) >= i
  BY <1>3, <1>4 DEF Max
<1>6. \A i \in S : i \in Int
  OBVIOUS
<1>7. QED
  BY <1>5, <1>6

LEMMA GreaterOfTwo ==
    ASSUME NEW a \in Int, NEW b \in Int
    PROVE  Max({a, b}) = IF a >= b THEN a ELSE b
<1>1. PICK k \in {a, b} : \A x \in {a, b} : k >= x
  OBVIOUS
<1>2. Max({a, b}) \in {a, b} /\ \A x \in {a, b} : Max({a, b}) >= x
  BY <1>1 DEF Max
<1>3. QED
  BY <1>2

LEMMA LeastExists ==
    ASSUME NEW S, S \subseteq Nat, S # {}
    PROVE  Min(S) \in S
<1>1. PICK k \in S : \A j \in S : k <= j
  BY SmallestOfMany
<1>2. QED
  BY <1>1 DEF Min

LEMMA SchedulePlaces ==
    ASSUME NEW ts \in Seq(Tier) \ {<<>>}
    PROVE  /\ Len(ts) \in Nat \ {0} /\ DOMAIN ts = 1..Len(ts) /\ 1 \in DOMAIN ts
           /\ \A i \in DOMAIN ts : /\ ts[i] \in Tier
                                   /\ ts[i].level \in Nat /\ ts[i].vol_min \in Nat
                                   /\ ts[i].nim_min \in Nat /\ ts[i].perp \in Nat
                                   /\ ts[i].spot \in Nat
<1>1. /\ Len(ts) \in Nat \ {0} /\ DOMAIN ts = 1..Len(ts)
      /\ \A i \in DOMAIN ts : ts[i] \in Tier
  OBVIOUS
<1>2. \A t \in Tier : /\ t.level \in Nat /\ t.vol_min \in Nat /\ t.nim_min \in Nat
                      /\ t.perp \in Nat /\ t.spot \in Nat
  BY DEF Tier
<1>3. QED
  BY <1>1, <1>2

\* It is in the schedule; it is the first or it qualifies; none behind it does.
LEMMA DeepestIs ==
    ASSUME NEW ts, NEW n \in Nat \ {0}, DOMAIN ts = 1..n, NEW Q
    PROVE  /\ Deepest(ts, Q) \in 1..n
           /\ Deepest(ts, Q) = 1 \/ Deepest(ts, Q) \in Q
           /\ \A i \in Q : i \in 1..n => i <= Deepest(ts, Q)
<1> DEFINE S == {1} \cup (Q \cap DOMAIN ts)
<1>1. S \subseteq 1..n /\ S # {} /\ n \in Nat
  OBVIOUS
<1>2. Max(S) \in S /\ \A i \in S : i <= Max(S)
  <2> HIDE DEF S
  <2>1. QED
    BY <1>1, GreatestExists
<1>3. QED
  BY <1>1, <1>2 DEF Deepest

LEMMA FirstIs ==
    ASSUME NEW S, S \subseteq Nat
    PROVE  (S = {} /\ First(S) = 0) \/ (S # {} /\ First(S) \in S)
BY LeastExists DEF First

LEMMA GapCovers ==
    ASSUME NEW start \in Nat, tiers[Aim].vol_min \in Nat
    PROVE  Gap(start) \in Nat /\ Gap(start) + start >= tiers[Aim].vol_min
<1> DEFINE v == tiers[Aim].vol_min
           x == (115 * v - 100 * start + 99) \div 100
<1>1. v \in Nat
  OBVIOUS
<1>2. x \in Int /\ 100 * x >= 115 * v - 100 * start
  <2> HIDE DEF v
  <2>1. QED
    BY <1>1
<1>3. Gap(start) = Max({0, x})
  BY DEF Gap
<1> HIDE DEF x, v
<1>4. Gap(start) = IF 0 >= x THEN 0 ELSE x
  BY <1>2, <1>3, GreaterOfTwo
<1>5. Gap(start) \in Nat /\ Gap(start) + start >= v
  BY <1>1, <1>2, <1>4
<1>6. QED
  BY <1>5 DEF v

-----------------------------------------------------------------------------
(* The account and the schedule.                                           *)

Rates == {"perp", "spot"}
Outcomes == {"none", "passed", "failed", "gaveUp", "raised", "thin"}

LEMMA AccountTyped ==
    ASSUME TierTypeOK
    PROVE  /\ task \in {"flow", "nim", "trade"} /\ fault \in Faults
           /\ earned \in Nat /\ late \in Nat /\ counted \in Nat /\ counted <= earned
           /\ deposited \in Nat /\ nim \in Nat /\ hours \in Nat
           /\ active \in BOOLEAN /\ applied \in 0..Len(tiers)
           /\ result \in [Phase -> Outcomes]
           /\ volume \in Nat /\ rate \in Nat /\ pending \in BOOLEAN
<1>1. earned \in Nat /\ counted \in 0..earned
  BY DEF TierTypeOK
<1>2. counted \in Nat /\ counted <= earned
  BY <1>1
<1>3. deposited \in 0..MaxDeposits /\ hours \in 0..MaxHours /\ MaxDeposits \in Nat /\ MaxHours \in Nat
  BY TierAssumption DEF TierTypeOK, TierAssumption
<1>4. deposited \in Nat /\ hours \in Nat
  BY <1>3
<1>5. QED
  BY <1>1, <1>2, <1>4 DEF TierTypeOK, Outcomes

\* What lies in the schedule, and how the overlay's tier stands to the one earned.
LEMMA TierFacts ==
    ASSUME TierTypeOK, PlaceInv
    PROVE  /\ Len(tiers) \in Nat \ {0} /\ DOMAIN tiers = 1..Len(tiers) /\ 1 \in DOMAIN tiers
           /\ Correct \in 1..Len(tiers) /\ OverlayTier \in 1..Len(tiers)
           /\ OverlayTier <= Correct
           /\ fault # "oneBelow" => OverlayTier = Correct
           /\ fault = "oneBelow" => OverlayTier = IF Correct = 1 THEN 1 ELSE Correct - 1
           /\ VolTier \in 1..Len(tiers)
           /\ Aim \in Nat
           /\ Aim # 0 => Aim \in 1..Len(tiers)
           /\ Realizable => Aim \in 1..Len(tiers)
<1> DEFINE n == Len(tiers)
<1>1. n \in Nat \ {0} /\ DOMAIN tiers = 1..n /\ 1 \in DOMAIN tiers
  BY SchedulePlaces DEF PlaceInv
<1>2. Correct \in 1..n /\ VolTier \in 1..n
  BY <1>1, DeepestIs DEF Correct, VolTier, ExpectedCompTier
<1> HIDE DEF n
<1>3. /\ fault # "oneBelow" => OverlayTier = Correct
      /\ fault = "oneBelow" => OverlayTier = IF Correct = 1 THEN 1 ELSE Correct - 1
  <2>1. Max({1, Correct - 1}) = IF 1 >= Correct - 1 THEN 1 ELSE Correct - 1
    BY <1>1, <1>2, GreaterOfTwo
  <2>2. OverlayTier = IF fault = "oneBelow" THEN Max({1, Correct - 1}) ELSE Correct
    BY DEF OverlayTier
  <2>3. Correct \in Nat /\ Correct >= 1
    BY <1>1, <1>2
  <2>4. Max({1, Correct - 1}) = IF Correct = 1 THEN 1 ELSE Correct - 1
    BY <2>1, <2>3
  <2>5. QED
    BY <2>2, <2>4
<1>4. OverlayTier \in 1..n /\ OverlayTier <= Correct
  <2>1. Correct \in Nat /\ Correct >= 1 /\ Correct <= n
    BY <1>1, <1>2
  <2>2. CASE OverlayTier = Correct
    BY <1>1, <1>2, <2>1, <2>2
  <2>3. CASE Correct = 1 /\ OverlayTier = 1
    BY <1>1, <1>2, <2>1, <2>3
  <2>4. CASE Correct # 1 /\ OverlayTier = Correct - 1
    BY <1>1, <2>1, <2>4
  <2>5. QED
    BY <1>3, <2>2, <2>3, <2>4
<1>5. Aim = 0 \/ Aim \in 1..n
  <2>1. CASE task = "nim"
    <3> DEFINE S == {i \in DOMAIN tiers : tiers[i].level > tiers[VolTier].level
                                          /\ tiers[i].nim_min > 0}
    <3>1. S \subseteq 1..n /\ S \subseteq Nat /\ Aim = First(S)
      BY <1>1, <2>1 DEF Aim
    <3> HIDE DEF S
    <3>2. QED
      BY <3>1, FirstIs
  <2>2. CASE task # "nim"
    <3> DEFINE S == {i \in DOMAIN tiers : tiers[i].level = TargetLevel}
    <3>1. S \subseteq 1..n /\ S \subseteq Nat /\ Aim = First(S)
      BY <1>1, <2>2 DEF Aim
    <3> HIDE DEF S
    <3>2. QED
      BY <3>1, FirstIs
  <2>3. QED
    BY <2>1, <2>2
<1>6. Aim \in Nat /\ (Aim # 0 => Aim \in 1..n) /\ (Realizable => Aim # 0)
  BY <1>1, <1>5 DEF Realizable
<1>7. QED
  BY <1>1, <1>2, <1>3, <1>4, <1>6 DEF n

\* The tier of a NIM test is above that of the volume, and asks for a balance.
LEMMA NimAim ==
    ASSUME TierTypeOK, PlaceInv, task = "nim", Aim # 0
    PROVE  tiers[Aim].level > tiers[VolTier].level /\ tiers[Aim].nim_min > 0
<1> DEFINE S == {i \in DOMAIN tiers : tiers[i].level > tiers[VolTier].level
                                      /\ tiers[i].nim_min > 0}
<1>0. DOMAIN tiers = 1..Len(tiers)
  BY TierFacts
<1>1. S \subseteq Nat /\ Aim = First(S)
  BY <1>0 DEF Aim
<1>2. Aim \in S
  <2> HIDE DEF S
  <2>1. QED
    BY <1>1, FirstIs
<1>3. QED
  BY <1>2

LEMMA TierRates ==
    ASSUME PlaceInv, NEW i \in DOMAIN tiers
    PROVE  /\ tiers[i].level \in Nat /\ tiers[i].vol_min \in Nat /\ tiers[i].nim_min \in Nat
           /\ tiers[i].perp \in Nat /\ tiers[i].spot \in Nat
           /\ tiers[i]["perp"] = tiers[i].perp /\ tiers[i]["spot"] = tiers[i].spot
BY SchedulePlaces DEF PlaceInv

LEMMA StandardRates ==
    ASSUME PlaceInv
    PROVE  standard["perp"] \in Nat /\ standard["spot"] \in Nat
BY DEF PlaceInv

\* The better of the standard rate and a tier's.
LEMMA BestOfIs ==
    ASSUME PlaceInv, NEW t \in DOMAIN tiers
    PROVE  /\ BestOf(0, "perp") = standard["perp"] /\ BestOf(0, "spot") = standard["spot"]
           /\ t # 0 =>
                /\ BestOf(t, "perp") = IF standard["perp"] < tiers[t].perp
                                       THEN standard["perp"] ELSE tiers[t].perp
                /\ BestOf(t, "spot") = IF standard["spot"] < tiers[t].spot
                                       THEN standard["spot"] ELSE tiers[t].spot
BY TierRates DEF BestOf, Lower

LEMMA RatesTyped ==
    ASSUME TierTypeOK, PlaceInv, NEW t \in 0..Len(tiers)
    PROVE  BestOf(t, "perp") \in Nat /\ BestOf(t, "spot") \in Nat
<1>1. standard["perp"] \in Nat /\ standard["spot"] \in Nat
  BY StandardRates
<1>2. CASE t = 0
  BY <1>1, <1>2 DEF BestOf
<1>3. CASE t # 0
  <2>1. t \in DOMAIN tiers
    <3>1. DOMAIN tiers = 1..Len(tiers) /\ Len(tiers) \in Nat
      BY TierFacts
    <3>2. QED
      BY <1>3, <3>1
  <2>2. QED
    BY <1>1, <1>3, <2>1, BestOfIs, TierRates
<1>4. QED
  BY <1>2, <1>3

\* Who has the volume or the balance of a tier has earned it.
LEMMA CorrectIs ==
    ASSUME TierTypeOK, PlaceInv
    PROVE  /\ \A i \in DOMAIN tiers :
                \/ counted >= tiers[i].vol_min
                \/ tiers[i].nim_min > 0 /\ nim >= 100 * tiers[i].nim_min
                => i <= Correct
           /\ \/ Correct = 1
              \/ counted >= tiers[Correct].vol_min
              \/ tiers[Correct].nim_min > 0 /\ nim >= 100 * tiers[Correct].nim_min
<1> DEFINE Q == {i \in DOMAIN tiers : \/ counted >= tiers[i].vol_min
                                      \/ tiers[i].nim_min > 0 /\ nim >= 100 * tiers[i].nim_min}
<1>1. Correct = Deepest(tiers, Q)
  BY DEF Correct
<1>2. /\ Len(tiers) \in Nat \ {0} /\ DOMAIN tiers = 1..Len(tiers)
  BY TierFacts
<1>3. /\ Correct = 1 \/ Correct \in Q
      /\ \A i \in Q : i \in DOMAIN tiers => i <= Correct
  <2> HIDE DEF Q
  <2>1. QED
    BY <1>1, <1>2, DeepestIs
<1>4. QED
  BY <1>3

\* Without NIM it is the tier of the volume.
LEMMA CorrectByVolume ==
    ASSUME TierTypeOK, PlaceInv, nim = 0
    PROVE  Correct = ExpectedCompTier(tiers, counted)
<1>1. \A i \in DOMAIN tiers : ~(tiers[i].nim_min > 0 /\ nim >= 100 * tiers[i].nim_min)
  BY TierRates
<1>2. {i \in DOMAIN tiers : \/ counted >= tiers[i].vol_min
                            \/ tiers[i].nim_min > 0 /\ nim >= 100 * tiers[i].nim_min}
        = {i \in DOMAIN tiers : counted >= tiers[i].vol_min}
  BY <1>1
<1>3. QED
  BY <1>2 DEF Correct, ExpectedCompTier

\* More volume or more NIM earns no lower tier.
LEMMA OverlayGrows ==
    ASSUME TierTypeOK, PlaceInv, UNCHANGED <<tiers, fault>>,
           counted' \in Nat, nim' \in Nat, counted' >= counted, nim' >= nim
    PROVE  OverlayTier' >= OverlayTier /\ OverlayTier' \in 1..Len(tiers)
<1> DEFINE Q == {i \in DOMAIN tiers : \/ counted' >= tiers[i].vol_min
                                      \/ tiers[i].nim_min > 0 /\ nim' >= 100 * tiers[i].nim_min}
           c == Deepest(tiers, Q)
<1>1. /\ Len(tiers) \in Nat \ {0} /\ DOMAIN tiers = 1..Len(tiers)
      /\ Correct \in 1..Len(tiers) /\ counted \in Nat /\ nim \in Nat
  <2>1. counted \in Nat /\ nim \in Nat
    BY AccountTyped
  <2>2. QED
    BY <2>1, TierFacts
<1>2. Correct' = c
  BY DEF Correct
<1>3. Correct = 1 \/ Correct \in Q
  BY <1>1, CorrectIs, TierRates
<1>4. c \in 1..Len(tiers) /\ \A i \in Q : i \in 1..Len(tiers) => i <= c
  <2> HIDE DEF Q
  <2>1. QED
    BY <1>1, DeepestIs
<1> HIDE DEF Q, c
<1>5. c >= Correct
  BY <1>1, <1>3, <1>4
<1>6. OverlayTier' = IF fault = "oneBelow" THEN (IF c = 1 THEN 1 ELSE c - 1) ELSE c
  <2>1. Max({1, c - 1}) = IF 1 >= c - 1 THEN 1 ELSE c - 1
    BY <1>1, <1>4, GreaterOfTwo
  <2>2. OverlayTier' = IF fault = "oneBelow" THEN Max({1, c - 1}) ELSE c
    BY <1>2 DEF OverlayTier
  <2>3. c \in Nat /\ c >= 1
    BY <1>1, <1>4
  <2>4. Max({1, c - 1}) = IF c = 1 THEN 1 ELSE c - 1
    BY <2>1, <2>3
  <2>5. QED
    BY <2>2, <2>4
<1>7. /\ fault # "oneBelow" => OverlayTier = Correct
      /\ fault = "oneBelow" => OverlayTier = IF Correct = 1 THEN 1 ELSE Correct - 1
  BY TierFacts
<1>8. /\ c \in Nat /\ c >= 1 /\ c <= Len(tiers) /\ Len(tiers) \in Nat
      /\ Correct \in Nat /\ Correct >= 1 /\ Correct <= c
  BY <1>1, <1>4, <1>5
<1>9. CASE OverlayTier' = c /\ OverlayTier = Correct
  BY <1>8, <1>9
<1>10. CASE /\ OverlayTier' = IF c = 1 THEN 1 ELSE c - 1
            /\ OverlayTier = IF Correct = 1 THEN 1 ELSE Correct - 1
  BY <1>8, <1>10
<1>11. QED
  BY <1>6, <1>7, <1>9, <1>10

\* A deeper tier is no dearer.
LEMMA DeeperIsCheaper ==
    ASSUME PlaceInv, Graded, NEW i \in DOMAIN tiers, NEW j \in DOMAIN tiers
    PROVE  /\ i <= j => tiers[j].perp <= tiers[i].perp /\ tiers[i].level <= tiers[j].level
           /\ i < j => tiers[j].perp < tiers[i].perp /\ tiers[i].level < tiers[j].level
           /\ BestOf(j, "perp") <= standard["perp"]
           /\ i <= j => BestOf(j, "perp") <= BestOf(i, "perp")
<1>1. /\ i \in Nat \ {0} /\ j \in Nat \ {0}
  BY SchedulePlaces DEF PlaceInv
<1>2. /\ tiers[i].perp \in Nat /\ tiers[j].perp \in Nat
      /\ tiers[i].level \in Nat /\ tiers[j].level \in Nat
      /\ standard["perp"] \in Nat
  BY TierRates, StandardRates
<1>3. i < j => tiers[j].perp < tiers[i].perp /\ tiers[i].level < tiers[j].level
  BY DEF Graded
<1>4. i <= j => tiers[j].perp <= tiers[i].perp /\ tiers[i].level <= tiers[j].level
  <2>1. CASE i = j
    BY <1>2, <2>1
  <2>2. CASE i < j
    BY <1>2, <1>3, <2>2
  <2>3. QED
    BY <1>1, <2>1, <2>2
<1>5. /\ BestOf(i, "perp") = IF standard["perp"] < tiers[i].perp
                             THEN standard["perp"] ELSE tiers[i].perp
      /\ BestOf(j, "perp") = IF standard["perp"] < tiers[j].perp
                             THEN standard["perp"] ELSE tiers[j].perp
  BY <1>1, BestOfIs
<1>6. QED
  BY <1>2, <1>3, <1>4, <1>5

-----------------------------------------------------------------------------
(* What a step leaves alone.                                               *)

LEMMA SameAccount ==
    ASSUME UNCHANGED <<chosen, account, counted, nim>>
    PROVE  /\ Correct' = Correct /\ OverlayTier' = OverlayTier
           /\ ShownVolume' = ShownVolume /\ ShownActive' = ShownActive
           /\ BestOf(OverlayTier, "perp")' = BestOf(OverlayTier, "perp")
           /\ Effective("perp")' = Effective("perp") /\ Effective("spot")' = Effective("spot")
           /\ Overlay("perp")' = Overlay("perp") /\ Overlay("spot")' = Overlay("spot")
           /\ Graded' = Graded /\ RightOverlay' = RightOverlay
<1>1. /\ tiers' = tiers /\ standard' = standard /\ fault' = fault /\ active' = active
      /\ applied' = applied /\ counted' = counted /\ nim' = nim
  BY DEF chosen, account
<1>2. Correct' = Correct
  BY <1>1 DEF Correct
<1>3. OverlayTier' = OverlayTier
  BY <1>1, <1>2 DEF OverlayTier
<1>4. Graded' = Graded
  BY <1>1 DEF Graded
<1>5. QED
  BY <1>1, <1>2, <1>3, <1>4
  DEF ShownVolume, ShownActive, BestOf, Effective, Overlay, RightOverlay

LEMMA SameAim ==
    ASSUME UNCHANGED chosen, task = "nim" => volume' = volume
    PROVE  Aim' = Aim /\ Realizable' = Realizable /\ (volume' = volume => VolTier' = VolTier)
<1>1. tiers' = tiers /\ task' = task
  BY DEF chosen
<1>2. volume' = volume => VolTier' = VolTier
  BY <1>1 DEF VolTier
<1>3. Aim' = Aim
  BY <1>1, <1>2 DEF Aim
<1>4. QED
  BY <1>1, <1>2, <1>3 DEF Realizable

LEMMA Idle == DriverIdle /\ ~InLeg => DriverIInv
BY IdleInv DEF InLeg

\* Outside the drive the driver has nothing to do.
LEMMA QuietDriver ==
    ASSUME PlaceInv, pc \notin DrivePlaces, pc' \notin DrivePlaces, UNCHANGED <<exchange, local>>
    PROVE  DriverIdle' /\ DriverIInv'
<1>1. DriverIdle
  BY DEF PlaceInv
<1>2. DriverIdle'
  BY <1>1 DEF DriverIdle, exchange, local
<1>3. ~InLeg'
  BY DEF DrivePlaces, InLeg
<1>4. DriverIInv'
  BY <1>2, <1>3, Idle, PTL
<1>5. QED
  BY <1>2, <1>4

\* The invariant, task by task.
Common == TierTypeOK /\ DriverIInv /\ PlaceInv /\ AccountInv /\ TargetInv
FlowPart == task = "flow" => FlowSeen /\ FlowEarned /\ (fault = "none" /\ Graded => FlowAlarms)
NimPart == task = "nim" => NimSeen /\ NimEarned /\ (fault = "none" /\ Graded => NimAlarms)
TradePart == task = "trade" => TradeSeen /\ TradeEarned /\ (fault = "none" /\ Graded => TradeAlarms)

LEMMA Parts == TierIInv <=> Common /\ FlowPart /\ NimPart /\ TradePart
<1>1. CASE task = "flow"
  BY <1>1 DEF TierIInv, TierInv, DriverIInv, Common, FlowPart, NimPart, TradePart,
     PassesAreEarned, AlarmsExplained, NimSeen, TradeSeen
<1>2. CASE task = "nim"
  BY <1>2 DEF TierIInv, TierInv, DriverIInv, Common, FlowPart, NimPart, TradePart,
     PassesAreEarned, AlarmsExplained, FlowSeen, TradeSeen
<1>3. CASE task = "trade"
  BY <1>3 DEF TierIInv, TierInv, DriverIInv, Common, FlowPart, NimPart, TradePart,
     PassesAreEarned, AlarmsExplained, FlowSeen, NimSeen
<1>4. CASE task \notin {"flow", "nim", "trade"}
  BY <1>4 DEF TierIInv, TierInv, TierTypeOK, Common
<1>5. QED
  BY <1>1, <1>2, <1>3, <1>4

LEMMA FlowStep ==
    ASSUME task = "flow", task' = task, Common', FlowPart'
    PROVE  TierIInv'
<1>1. NimPart' /\ TradePart'
  BY DEF NimPart, TradePart
<1>2. QED
  BY <1>1, Parts, PTL

LEMMA NimStep ==
    ASSUME task = "nim", task' = task, Common', NimPart'
    PROVE  TierIInv'
<1>1. FlowPart' /\ TradePart'
  BY DEF FlowPart, TradePart
<1>2. QED
  BY <1>1, Parts, PTL

LEMMA TradeStep ==
    ASSUME task = "trade", task' = task, Common', TradePart'
    PROVE  TierIInv'
<1>1. FlowPart' /\ NimPart'
  BY DEF FlowPart, NimPart
<1>2. QED
  BY <1>1, Parts, PTL

\* The test looks, and notes what it has seen.
LEMMA LooksCommon ==
    ASSUME Common, Looks, pc \notin DrivePlaces, pc' \notin DrivePlaces,
           result' \in [Phase -> Outcomes], volume' \in Nat, rate' \in Nat, pending' \in BOOLEAN,
           task = "nim" => volume' = 0,
           PlaceInv'
    PROVE  Common'
<1>1. UNCHANGED <<exchange, local, chosen, account, counted, nim, earned, late, deposited, hours>>
  BY DEF Looks, ledger
<1>2. DriverIInv'
  BY <1>1, QuietDriver DEF Common
<1>3. TierTypeOK'
  BY <1>1 DEF Common, TierTypeOK, chosen, account, Outcomes
<1>4. OverlayTier' = OverlayTier
  BY <1>1, SameAccount
<1>5. AccountInv'
  BY <1>1, <1>4 DEF Common, AccountInv, chosen, account
<1>6. TargetInv'
  BY DEF TargetInv
<1>7. QED
  BY <1>2, <1>3, <1>5, <1>6 DEF Common

LEMMA VerdictIs ==
    ASSUME TierTypeOK, NEW n \in Phase, NEW how \in Outcomes, NEW next, Verdict(n, how, next)
    PROVE  /\ pc' = next /\ result' \in [Phase -> Outcomes]
           /\ result'[n] = how
           /\ n # 1 => result'[1] = result[1]
           /\ n # 2 => result'[2] = result[2]
           /\ n # 3 => result'[3] = result[3]
           /\ n # 4 => result'[4] = result[4]
<1>1. result \in [Phase -> Outcomes] /\ result' = [result EXCEPT ![n] = how] /\ pc' = next
  BY AccountTyped DEF Verdict
<1>2. \A m \in Phase : m # n => result'[m] = result[m]
  BY <1>1
<1>3. 1 \in Phase /\ 2 \in Phase /\ 3 \in Phase /\ 4 \in Phase
  BY DEF Phase
<1>4. QED
  BY <1>1, <1>2, <1>3

LEMMA OldResults ==
    ASSUME TierTypeOK, UNCHANGED result
    PROVE  result' \in [Phase -> Outcomes]
BY AccountTyped

LEMMA FourPhases == Phase = {1, 2, 3, 4} /\ 2..4 = {2, 3, 4}
BY DEF Phase

\* Where a flow is, by the place of the test.
FlowPlaces == {"ingest", "snapshot", "settle", "recheck"}

LEMMA FlowPlace ==
    ASSUME TierIInv, pc \in FlowPlaces \/ (task = "flow" /\ pc \in {"fill", "judge"})
    PROVE  /\ task = "flow" /\ Common /\ FlowPart /\ Realizable /\ pc \notin DrivePlaces
           /\ DriverIdle /\ Aim \in DOMAIN tiers
<1>1. Common /\ FlowPart
  BY Parts
<1>2. task = "flow" /\ pc \notin DrivePlaces
  BY <1>1 DEF Common, PlaceInv, TierTypeOK, FlowPlaces, DrivePlaces
<1>3. Realizable /\ DriverIdle
  BY <1>1, <1>2 DEF Common, PlaceInv, FlowPlaces
<1>4. Aim \in DOMAIN tiers
  BY <1>1, <1>3, TierFacts DEF Common
<1>5. QED
  BY <1>1, <1>2, <1>3, <1>4

\* A later phase of the flow looks and goes on.
LEMMA FlowLooksPlace ==
    ASSUME TierIInv, pc \in FlowPlaces \/ (task = "flow" /\ pc \in {"fill", "judge"}),
           UNCHANGED <<exchange, local, chosen, account>>,
           pc' \in {"snapshot", "settle", "recheck", "fill", "judge", "over"},
           pc' = "snapshot" => result'[2] = "none",
           pc' \in {"snapshot", "settle", "recheck"} => result'[3] = "none",
           pc' # "over" => result'[4] = "none"
    PROVE  PlaceInv'
<1>1. task = "flow" /\ Common /\ Realizable /\ pc \notin DrivePlaces
  BY FlowPlace
<1>2. tiers' = tiers /\ task' = task /\ standard' = standard /\ Realizable'
  BY <1>1, SameAim DEF chosen, account
<1>3. DriverIdle'
  BY <1>1, QuietDriver DEF Common, DrivePlaces
<1>4. pc' \notin BeforeReturn
  BY DEF BeforeReturn, DrivePlaces
<1>5. QED
  BY <1>1, <1>2, <1>3, <1>4 DEF Common, PlaceInv

LEMMA FlowLooksCommon ==
    ASSUME TierIInv, Looks, pc \in FlowPlaces \/ (task = "flow" /\ pc \in {"fill", "judge"}),
           UNCHANGED <<volume, rate, pending>>, PlaceInv', pc' \notin DrivePlaces,
           result' \in [Phase -> Outcomes]
    PROVE  Common'
<1>1. task = "flow" /\ Common /\ pc \notin DrivePlaces
  BY FlowPlace
<1>2. volume' \in Nat /\ rate' \in Nat /\ pending' \in BOOLEAN
  BY <1>1, AccountTyped DEF Common
<1>3. QED
  BY <1>1, <1>2, LooksCommon

LEMMA CheckScheduleInv ==
    ASSUME TierIInv, CheckSchedule
    PROVE  TierIInv'
<1>1. Common /\ FlowPart /\ TierTypeOK
  BY Parts DEF Common
<1>2. /\ pc = "schedule" /\ Looks /\ UNCHANGED <<volume, rate, pending>>
      /\ Verdict(1, IF Realizable THEN "passed" ELSE "failed", IF Realizable THEN "start" ELSE "over")
  BY DEF CheckSchedule, Asserts
<1>3. task = "flow" /\ pc \notin DrivePlaces /\ \A m \in 2..4 : result[m] = "none"
  BY <1>1, <1>2 DEF Common, PlaceInv, TierTypeOK, DrivePlaces
<1>4. /\ pc' = IF Realizable THEN "start" ELSE "over"
      /\ result' \in [Phase -> Outcomes]
      /\ result'[2] = result[2] /\ result'[3] = result[3] /\ result'[4] = result[4]
  <2>1. 1 \in Phase /\ (IF Realizable THEN "passed" ELSE "failed") \in Outcomes
    BY DEF Phase, Outcomes
  <2>2. QED
    BY <1>1, <1>2, <2>1, VerdictIs
<1>5. result'[2] = "none" /\ result'[3] = "none" /\ result'[4] = "none"
  BY <1>3, <1>4, FourPhases
<1>6. UNCHANGED <<chosen, account, exchange, local>> /\ Realizable' = Realizable
  BY <1>3, SameAim, <1>2 DEF Looks
<1>7. PlaceInv'
  <2>1. DriverIdle'
    BY <1>1, <1>3, <1>4, <1>6, QuietDriver DEF Common, DrivePlaces
  <2>2. tiers' = tiers /\ task' = task /\ standard' = standard /\ applied' = applied
    BY <1>6 DEF chosen, account
  <2>3. \A m \in 2..4 : result'[m] = "none"
    BY <1>5, FourPhases
  <2>4. applied = 0
    BY <1>1, <1>2, <1>3 DEF Common, PlaceInv, BeforeReturn
  <2>5. QED
    BY <1>1, <1>3, <1>4, <1>5, <1>6, <2>1, <2>2, <2>3, <2>4
    DEF Common, PlaceInv, BeforeReturn, DrivePlaces
<1>8. Common'
  <2>1. volume' \in Nat /\ rate' \in Nat /\ pending' \in BOOLEAN
    BY <1>1, <1>2, AccountTyped
  <2>2. pc' \notin DrivePlaces
    BY <1>4 DEF DrivePlaces
  <2>3. QED
    BY <1>1, <1>2, <1>3, <1>4, <1>7, <2>1, <2>2, LooksCommon
<1>9. FlowPart'
  BY <1>4, <1>5 DEF FlowPart, FlowSeen, FlowEarned, FlowAlarms
<1>10. QED
  BY <1>3, <1>6, <1>8, <1>9, FlowStep DEF chosen

LEMMA AwaitIngestInv ==
    ASSUME TierIInv, AwaitIngest
    PROVE  TierIInv'
<1>1. /\ pc = "ingest" /\ Looks /\ UNCHANGED <<volume, rate, pending>>
      /\ \/ Ingested /\ pc' = "snapshot" /\ UNCHANGED result
         \/ Verdict(2, "gaveUp", "settle")
  BY DEF AwaitIngest, Poll
<1>2. task = "flow" /\ Common /\ FlowPart /\ TierTypeOK /\ PlaceInv /\ Realizable /\ Aim \in DOMAIN tiers
  BY <1>1, FlowPlace DEF FlowPlaces, Common
<1>3. result[2] = "none" /\ result[3] = "none" /\ result[4] = "none"
  BY <1>1, <1>2 DEF Common, PlaceInv
<1>4. /\ pc' \in {"snapshot", "settle"} /\ result' \in [Phase -> Outcomes]
      /\ result'[3] = "none" /\ result'[4] = "none"
      /\ result'[2] # "passed" /\ result'[2] # "failed"
      /\ pc' = "snapshot" => Ingested /\ result'[2] = "none"
  <2>1. CASE UNCHANGED result /\ Ingested /\ pc' = "snapshot"
    BY <1>2, <1>3, <2>1, OldResults
  <2>2. CASE Verdict(2, "gaveUp", "settle")
    <3>1. 2 \in Phase /\ "gaveUp" \in Outcomes
      BY DEF Phase, Outcomes
    <3>2. /\ pc' = "settle" /\ result' \in [Phase -> Outcomes]
          /\ result'[2] = "gaveUp" /\ result'[3] = result[3] /\ result'[4] = result[4]
      BY <1>2, <2>2, <3>1, VerdictIs
    <3>3. QED
      BY <1>3, <3>2
  <2>3. QED
    BY <1>1, <2>1, <2>2
<1>5. /\ UNCHANGED <<chosen, account, exchange, local, counted, nim>> /\ task' = task
      /\ Aim' = Aim /\ tiers' = tiers
  BY <1>1, <1>2, SameAim DEF Looks, ledger, chosen
<1>6. PlaceInv'
  BY <1>1, <1>2, <1>4, <1>5, FlowLooksPlace DEF FlowPlaces
<1>7. Common'
  BY <1>1, <1>2, <1>4, <1>6, FlowLooksCommon DEF FlowPlaces, DrivePlaces
<1>8. FlowPart'
  <2>1. Ingested => active /\ counted >= tiers[Aim].vol_min
    <3>1. tiers[Aim].vol_min \in Nat /\ tiers[Aim].vol_min > 0
      BY <1>2, TierRates DEF Realizable
    <3>2. QED
      BY <3>1 DEF Ingested, ShownVolume
  <2>2. active' = active /\ counted' = counted
    BY <1>5 DEF account
  <2>3. QED
    BY <1>4, <1>5, <2>1, <2>2 DEF FlowPart, FlowSeen, FlowEarned, FlowAlarms
<1>9. QED
  BY <1>2, <1>5, <1>7, <1>8, FlowStep

LEMMA SnapshotInv ==
    ASSUME TierIInv, Snapshot
    PROVE  TierIInv'
<1> DEFINE right == ShownActive /\ Overlay("perp") = Qualified.perp
<1>1. /\ pc = "snapshot" /\ Looks /\ UNCHANGED <<volume, rate, pending>>
      /\ Verdict(2, IF right THEN "passed" ELSE "failed", "settle")
  BY DEF Snapshot, Asserts
<1>2. task = "flow" /\ Common /\ FlowPart /\ TierTypeOK /\ PlaceInv /\ Realizable /\ Aim \in DOMAIN tiers
  BY <1>1, FlowPlace DEF FlowPlaces, Common
<1>3. result[2] = "none" /\ result[3] = "none" /\ result[4] = "none"
  BY <1>1, <1>2 DEF Common, PlaceInv
<1>4. /\ pc' = "settle" /\ result' \in [Phase -> Outcomes]
      /\ result'[2] = (IF right THEN "passed" ELSE "failed")
      /\ result'[3] = "none" /\ result'[4] = "none"
  <2>1. 2 \in Phase /\ (IF right THEN "passed" ELSE "failed") \in Outcomes
    BY DEF Phase, Outcomes
  <2> HIDE DEF right
  <2>2. QED
    BY <1>1, <1>2, <1>3, <2>1, VerdictIs
<1>5. /\ UNCHANGED <<chosen, account, exchange, local, counted, nim>> /\ task' = task
      /\ Aim' = Aim /\ tiers' = tiers /\ active' = active /\ counted' = counted /\ fault' = fault
      /\ Graded' = Graded /\ RightOverlay' = RightOverlay
  BY <1>1, <1>2, SameAim, SameAccount DEF Looks, ledger, chosen, account
<1>6. PlaceInv'
  BY <1>1, <1>2, <1>4, <1>5, FlowLooksPlace DEF FlowPlaces
<1>7. Common'
  BY <1>1, <1>2, <1>4, <1>6, FlowLooksCommon DEF FlowPlaces, DrivePlaces
\* The volume of the target tier was counted: that tier, or a deeper one, is earned.
<1>8. active /\ counted >= tiers[Aim].vol_min /\ Correct >= Aim
  <2>1. active /\ counted >= tiers[Aim].vol_min
    BY <1>1, <1>2 DEF FlowPart, FlowSeen
  <2>2. Correct >= Aim
    BY <1>2, <2>1, CorrectIs, TierFacts
  <2>3. QED
    BY <2>1, <2>2
<1>9. Overlay("perp") = tiers[OverlayTier].perp /\ Qualified.perp = tiers[Correct].perp
  <2>1. nim = 0
    BY <1>2 DEF Common, AccountInv
  <2>2. ShownVolume = counted /\ Correct = ExpectedCompTier(tiers, counted)
    BY <1>2, <1>8, <2>1, CorrectByVolume DEF ShownVolume
  <2>3. tiers[OverlayTier]["perp"] = tiers[OverlayTier].perp
    BY <1>2, TierFacts, TierRates
  <2>4. QED
    BY <1>8, <2>2, <2>3 DEF Overlay, Qualified
<1>10. right => RightOverlay
  <2> SUFFICES ASSUME right, Graded, fault = "oneBelow"
               PROVE  FALSE
    BY DEF RightOverlay, ShownActive
  <2>1. tiers[OverlayTier].perp = tiers[Correct].perp
    BY <1>9
  <2>2. OverlayTier \in DOMAIN tiers /\ Correct \in DOMAIN tiers /\ 1 \in DOMAIN tiers
        /\ OverlayTier <= Correct /\ OverlayTier = IF Correct = 1 THEN 1 ELSE Correct - 1
    BY <1>2, TierFacts
  <2>3. tiers[OverlayTier].perp \in Nat /\ tiers[Correct].perp \in Nat
    BY <1>2, <2>2, TierRates
  <2>4. ~(OverlayTier < Correct)
    BY <1>2, <2>1, <2>2, <2>3, DeeperIsCheaper
  <2>5. Correct \in Nat /\ Aim \in Nat /\ Aim >= 1
    BY <1>2, TierFacts
  <2>6. Correct = 1
    BY <2>2, <2>4, <2>5
  <2>7. Aim = 1
    BY <1>8, <2>5, <2>6
  <2>8. tiers[Aim].perp < tiers[1].perp /\ tiers[1].perp \in Nat
    BY <1>2, <2>2, TierRates DEF Realizable
  <2>9. QED
    BY <2>7, <2>8
<1>11. fault = "none" => right
  <2> SUFFICES ASSUME fault = "none"
               PROVE  right
    OBVIOUS
  <2>1. OverlayTier = Correct
    BY <1>2, TierFacts
  <2>2. QED
    BY <1>8, <1>9, <2>1 DEF ShownActive
<1> HIDE DEF right
<1>12. FlowPart'
  BY <1>4, <1>5, <1>8, <1>10, <1>11 DEF FlowPart, FlowSeen, FlowEarned, FlowAlarms
<1>13. QED
  BY <1>2, <1>5, <1>7, <1>12, FlowStep

\* The rate at the end of the wait: the target's, by the tier applied or the standard one.
LEMMA SettledIs ==
    ASSUME Common, Graded, fault = "none", SettledDown, Aim \in DOMAIN tiers
    PROVE  /\ \/ standard["perp"] <= tiers[Aim].perp
              \/ applied >= Aim /\ applied \in DOMAIN tiers /\ active /\ applied <= OverlayTier
           /\ Effective("perp") = BestOf(applied, "perp")
<1>1. TierTypeOK /\ PlaceInv /\ AccountInv
  BY DEF Common
<1>2. Effective("perp") = BestOf(applied, "perp")
  BY DEF Effective
<1>3. BestOf(applied, "perp") <= tiers[Aim].perp
  BY <1>2 DEF SettledDown
<1>4. CASE applied = 0
  <2>1. BestOf(0, "perp") = standard["perp"]
    BY DEF BestOf
  <2>2. QED
    BY <1>2, <1>3, <1>4, <2>1
<1>5. CASE applied # 0
  <2>1. applied \in DOMAIN tiers /\ active /\ applied <= OverlayTier
    <3>1. DOMAIN tiers = 1..Len(tiers) /\ Len(tiers) \in Nat /\ applied \in 0..Len(tiers)
      BY <1>1, TierFacts, AccountTyped
    <3>2. active /\ applied <= OverlayTier
      BY <1>1, <1>5 DEF AccountInv
    <3>3. QED
      BY <1>5, <3>1, <3>2
  <2>2. BestOf(applied, "perp") = IF standard["perp"] < tiers[applied].perp
                                  THEN standard["perp"] ELSE tiers[applied].perp
    BY <1>1, <1>5, <2>1, BestOfIs
  <2>3. /\ applied \in Nat /\ Aim \in Nat
        /\ tiers[applied].perp \in Nat /\ tiers[Aim].perp \in Nat /\ standard["perp"] \in Nat
    BY <1>1, <2>1, TierFacts, TierRates, StandardRates
  <2>4. applied < Aim => tiers[Aim].perp < tiers[applied].perp
    BY <1>1, <2>1, DeeperIsCheaper
  <2>5. standard["perp"] <= tiers[Aim].perp \/ applied >= Aim
    BY <1>3, <2>2, <2>3, <2>4
  <2>6. QED
    BY <1>2, <2>1, <2>5
<1>6. QED
  BY <1>4, <1>5

LEMMA AwaitSettledInv ==
    ASSUME TierIInv, AwaitSettled
    PROVE  TierIInv'
<1>1. /\ pc = "settle" /\ Looks /\ UNCHANGED <<volume, rate, pending>>
      /\ \/ SettledDown /\ pc' = "recheck" /\ UNCHANGED result
         \/ Verdict(3, "gaveUp", "fill")
  BY DEF AwaitSettled, Poll
<1>2. task = "flow" /\ Common /\ FlowPart /\ TierTypeOK /\ PlaceInv /\ Realizable /\ Aim \in DOMAIN tiers
  BY <1>1, FlowPlace DEF FlowPlaces, Common
<1>3. result[3] = "none" /\ result[4] = "none"
  BY <1>1, <1>2 DEF Common, PlaceInv
<1>4. /\ pc' \in {"recheck", "fill"} /\ result' \in [Phase -> Outcomes]
      /\ result'[2] = result[2] /\ result'[4] = "none"
      /\ result'[3] # "passed" /\ result'[3] # "failed"
      /\ pc' = "recheck" => SettledDown /\ result'[3] = "none"
  <2>1. CASE UNCHANGED result /\ SettledDown /\ pc' = "recheck"
    BY <1>2, <1>3, <2>1, OldResults
  <2>2. CASE Verdict(3, "gaveUp", "fill")
    <3>1. 3 \in Phase /\ "gaveUp" \in Outcomes
      BY DEF Phase, Outcomes
    <3>2. /\ pc' = "fill" /\ result' \in [Phase -> Outcomes]
          /\ result'[3] = "gaveUp" /\ result'[2] = result[2] /\ result'[4] = result[4]
      BY <1>2, <2>2, <3>1, VerdictIs
    <3>3. QED
      BY <1>3, <3>2
  <2>3. QED
    BY <1>1, <2>1, <2>2
<1>5. /\ UNCHANGED <<chosen, account, exchange, local, counted, nim>> /\ task' = task
      /\ Aim' = Aim /\ tiers' = tiers /\ active' = active /\ counted' = counted /\ fault' = fault
      /\ standard' = standard /\ Graded' = Graded /\ RightOverlay' = RightOverlay
      /\ SettledDown' = SettledDown
  <2>1. UNCHANGED <<chosen, account, exchange, local, counted, nim>>
    BY <1>1 DEF Looks, ledger
  <2>2. Aim' = Aim /\ Effective("perp")' = Effective("perp") /\ Graded' = Graded
        /\ RightOverlay' = RightOverlay
    BY <1>2, <2>1, SameAim, SameAccount
  <2>3. QED
    BY <2>1, <2>2 DEF chosen, account, SettledDown
<1>6. PlaceInv'
  BY <1>1, <1>2, <1>4, <1>5, FlowLooksPlace DEF FlowPlaces
<1>7. Common'
  BY <1>1, <1>2, <1>4, <1>6, FlowLooksCommon DEF FlowPlaces, DrivePlaces
<1>8. SettledDown /\ fault = "standardKept" => standard["perp"] <= tiers[Aim].perp
  BY DEF SettledDown, Effective
<1>9. FlowPart'
  BY <1>1, <1>2, <1>4, <1>5, <1>8 DEF FlowPart, FlowSeen, FlowEarned, FlowAlarms
<1>10. QED
  BY <1>2, <1>5, <1>7, <1>9, FlowStep

LEMMA RecheckInv ==
    ASSUME TierIInv, Recheck
    PROVE  TierIInv'
<1> DEFINE right == IsBestOf /\ SteppedDown
<1>1. /\ pc = "recheck" /\ Looks /\ UNCHANGED <<volume, rate, pending>>
      /\ Verdict(3, IF right THEN "passed" ELSE "failed", "fill")
  BY DEF Recheck, Asserts
<1>2. task = "flow" /\ Common /\ FlowPart /\ TierTypeOK /\ PlaceInv /\ Realizable /\ Aim \in DOMAIN tiers
  BY <1>1, FlowPlace DEF FlowPlaces, Common
<1>3. result[3] = "none" /\ result[4] = "none"
  BY <1>1, <1>2 DEF Common, PlaceInv
<1>4. /\ pc' = "fill" /\ result' \in [Phase -> Outcomes]
      /\ result'[3] = (IF right THEN "passed" ELSE "failed")
      /\ result'[2] = result[2] /\ result'[4] = "none"
  <2>1. 3 \in Phase /\ (IF right THEN "passed" ELSE "failed") \in Outcomes
    BY DEF Phase, Outcomes
  <2> HIDE DEF right
  <2>2. QED
    BY <1>1, <1>2, <1>3, <2>1, VerdictIs
<1>5. /\ UNCHANGED <<chosen, account, exchange, local, counted, nim>> /\ task' = task
      /\ Aim' = Aim /\ tiers' = tiers /\ active' = active /\ counted' = counted /\ fault' = fault
      /\ standard' = standard /\ Graded' = Graded /\ RightOverlay' = RightOverlay
      /\ SettledDown' = SettledDown /\ Further' = Further
  <2>1. UNCHANGED <<chosen, account, exchange, local, counted, nim>>
    BY <1>1 DEF Looks, ledger
  <2>2. Aim' = Aim /\ Effective("perp")' = Effective("perp") /\ Graded' = Graded
        /\ RightOverlay' = RightOverlay /\ OverlayTier' = OverlayTier
    BY <1>2, <2>1, SameAim, SameAccount
  <2>3. QED
    BY <2>1, <2>2 DEF chosen, account, SettledDown, Further
<1>6. PlaceInv'
  BY <1>1, <1>2, <1>4, <1>5, FlowLooksPlace DEF FlowPlaces
<1>7. Common'
  BY <1>1, <1>2, <1>4, <1>6, FlowLooksCommon DEF FlowPlaces, DrivePlaces
<1>8. /\ fault = "standardKept" => standard["perp"] <= tiers[Aim].perp
      /\ Graded => SettledDown
  BY <1>1, <1>2 DEF FlowPart, FlowSeen
\* What is shown is the target's rate, or better: only a deeper tier can be missing.
<1>9. fault = "none" /\ Graded => right \/ Further
  <2> SUFFICES ASSUME fault = "none", Graded, ~Further
               PROVE  right
    OBVIOUS
  <2> HIDE DEF right
  <2>1. /\ \/ standard["perp"] <= tiers[Aim].perp
           \/ applied >= Aim /\ applied \in DOMAIN tiers /\ active /\ applied <= OverlayTier
        /\ Effective("perp") = BestOf(applied, "perp")
    BY <1>2, <1>8, SettledIs
  <2>2. /\ OverlayTier \in DOMAIN tiers /\ OverlayTier \in Nat /\ Aim \in Nat
        /\ tiers[OverlayTier].perp \in Nat /\ tiers[Aim].perp \in Nat
        /\ standard["perp"] \in Nat /\ tiers[1].perp \in Nat
        /\ tiers[OverlayTier]["perp"] = tiers[OverlayTier].perp
    <3>1. OverlayTier \in DOMAIN tiers /\ OverlayTier \in Nat /\ Aim \in Nat /\ 1 \in DOMAIN tiers
      BY <1>2, TierFacts
    <3>2. QED
      BY <1>2, <3>1, TierRates, StandardRates
  <2>3. OverlayTier <= Aim
    BY <2>2 DEF Further
  <2>4. SteppedDown
    <3>1. Effective("perp") <= tiers[Aim].perp /\ tiers[Aim].perp < tiers[1].perp
      BY <1>2, <1>8 DEF SettledDown, Realizable
    <3>2. Effective("perp") \in Nat
      <4>1. applied \in 0..Len(tiers)
        BY <1>2, AccountTyped
      <4>2. QED
        BY <1>2, <2>1, <4>1, RatesTyped
    <3>3. QED
      BY <2>2, <3>1, <3>2 DEF SteppedDown
  <2>5. IsBestOf
    <3>1. CASE ~(standard["perp"] <= tiers[Aim].perp)
      <4>1. applied = OverlayTier /\ active /\ applied # 0
        BY <2>1, <2>2, <2>3, <3>1, TierFacts, <1>2
      <4>2. Effective("perp") = Lower(standard["perp"], tiers[OverlayTier]["perp"])
        BY <2>1, <4>1 DEF BestOf
      <4>3. QED
        BY <4>1, <4>2 DEF IsBestOf, Overlay
    <3>2. CASE standard["perp"] <= tiers[Aim].perp
      <4>1. \A t \in DOMAIN tiers : t <= Aim => tiers[Aim].perp <= tiers[t].perp /\ tiers[t].perp \in Nat
        BY <1>2, DeeperIsCheaper, TierRates
      <4>2. standard["perp"] <= tiers[OverlayTier].perp
        BY <2>2, <2>3, <3>2, <4>1
      <4>3. Lower(standard["perp"], Overlay("perp")) = standard["perp"]
        BY <2>2, <4>2 DEF Lower, Overlay
      <4>4. BestOf(applied, "perp") = standard["perp"]
        <5>1. CASE applied = 0
          BY <5>1 DEF BestOf
        <5>2. CASE applied # 0
          <6>1. applied \in DOMAIN tiers /\ applied \in Nat
            BY <1>2, <5>2, AccountTyped, TierFacts
          <6>2. applied <= OverlayTier
            BY <1>2, <5>2 DEF Common, AccountInv
          <6>3. tiers[applied].perp \in Nat /\ standard["perp"] <= tiers[applied].perp
            BY <2>2, <2>3, <3>2, <4>1, <6>1, <6>2
          <6>4. BestOf(applied, "perp") = IF standard["perp"] < tiers[applied].perp
                                          THEN standard["perp"] ELSE tiers[applied].perp
            BY <1>2, <5>2, <6>1, BestOfIs
          <6>5. QED
            BY <2>2, <6>3, <6>4
        <5>3. QED
          BY <5>1, <5>2
      <4>5. QED
        BY <2>1, <4>3, <4>4 DEF IsBestOf
    <3>3. QED
      BY <3>1, <3>2
  <2>6. QED
    BY <2>4, <2>5 DEF right
<1> HIDE DEF right
<1>10. FlowPart'
  BY <1>1, <1>2, <1>4, <1>5, <1>8, <1>9 DEF FlowPart, FlowSeen, FlowEarned, FlowAlarms
<1>11. QED
  BY <1>2, <1>5, <1>7, <1>10, FlowStep

\* What a fill may be charged is a rate, and a standard one under some faults.
LEMMA ChargedIs ==
    ASSUME Common, NEW kind \in Rates, NEW r \in Charged(kind)
    PROVE  /\ r \in Nat
           /\ fault \in {"standardKept", "standardCharged"} => r = standard[kind]
           /\ fault = "none" => \/ r = BestOf(applied, kind)
                                \/ active /\ r = BestOf(OverlayTier, kind)
                                \/ ~active /\ r = BestOf(0, kind)
<1>1. TierTypeOK /\ PlaceInv
  BY DEF Common
<1>2. applied \in 0..Len(tiers) /\ OverlayTier \in 0..Len(tiers) /\ 0 \in 0..Len(tiers)
      /\ kind \in {"perp", "spot"}
  BY <1>1, AccountTyped, TierFacts DEF Rates
<1>3. standard[kind] \in Nat /\ \A t \in 0..Len(tiers) : BestOf(t, kind) \in Nat
  BY <1>1, <1>2, StandardRates, RatesTyped
<1>4. CASE fault \in {"standardKept", "standardCharged"}
  BY <1>3, <1>4 DEF Charged
<1>5. CASE fault \notin {"standardKept", "standardCharged"}
  <2>1. \/ r = BestOf(applied, kind)
        \/ active /\ r = BestOf(OverlayTier, kind)
        \/ ~active /\ r = BestOf(0, kind)
    BY <1>5 DEF Charged
  <2>2. QED
    BY <1>2, <1>3, <1>5, <2>1
<1>6. QED
  BY <1>4, <1>5

LEMMA FillCommon ==
    ASSUME TierIInv, TakeFill, PlaceInv', pc' \notin DrivePlaces, pc \notin DrivePlaces,
           result' \in [Phase -> Outcomes], task # "nim"
    PROVE  Common'
<1>1. Common /\ TierTypeOK /\ PlaceInv
  BY Parts DEF Common
<1>2. /\ UNCHANGED <<exchange, local, chosen, account, late, counted, deposited, nim, hours,
                     volume, pending>>
      /\ \/ earned' = earned + 1 /\ rate' \in Charged(FillKind)
         \/ earned' = earned /\ rate' = rate
  BY DEF TakeFill
<1>3. DriverIInv'
  BY <1>1, <1>2, QuietDriver
<1>4. earned' \in Nat /\ counted <= earned' /\ counted \in Nat /\ rate' \in Nat
  <2>1. FillKind \in Rates
    BY DEF FillKind, Rates
  <2>2. CASE earned' = earned + 1 /\ rate' \in Charged(FillKind)
    BY <1>1, <2>1, <2>2, AccountTyped, ChargedIs
  <2>3. CASE earned' = earned /\ rate' = rate
    BY <1>1, <2>3, AccountTyped
  <2>4. QED
    BY <1>2, <2>2, <2>3
<1>5. counted' \in 0..earned'
  BY <1>2, <1>4
<1>6. TierTypeOK'
  BY <1>1, <1>2, <1>4, <1>5 DEF TierTypeOK, chosen, account, Outcomes
<1>7. OverlayTier' = OverlayTier
  BY <1>2, SameAccount
<1>8. AccountInv'
  BY <1>1, <1>2, <1>7 DEF Common, AccountInv, chosen, account
<1>9. TargetInv'
  BY DEF TargetInv
<1>10. QED
  BY <1>3, <1>6, <1>8, <1>9 DEF Common

LEMMA TakeSpotInv ==
    ASSUME TierIInv, TakeFill, task = "flow"
    PROVE  TierIInv'
<1>1. /\ pc = "fill"
      /\ UNCHANGED <<exchange, local, chosen, account, late, counted, deposited, nim, hours,
                     volume, pending>>
      /\ \/ rate' \in Charged("spot") /\ pc' = "judge" /\ UNCHANGED result
         \/ Verdict(4, "gaveUp", "over") /\ UNCHANGED rate
  BY DEF TakeFill, FillKind, FillPhase
<1>2. Common /\ FlowPart /\ TierTypeOK /\ PlaceInv /\ Realizable /\ Aim \in DOMAIN tiers
      /\ pc \notin DrivePlaces
  BY <1>1, FlowPlace DEF Common
<1>3. result[4] = "none"
  BY <1>1, <1>2 DEF Common, PlaceInv
<1>4. /\ pc' \in {"judge", "over"} /\ result' \in [Phase -> Outcomes]
      /\ result'[2] = result[2] /\ result'[3] = result[3]
      /\ result'[4] # "passed" /\ result'[4] # "failed"
      /\ pc' = "judge" => rate' \in Charged("spot") /\ result'[4] = "none"
  <2>1. CASE rate' \in Charged("spot") /\ pc' = "judge" /\ UNCHANGED result
    BY <1>2, <1>3, <2>1, OldResults
  <2>2. CASE Verdict(4, "gaveUp", "over")
    <3>1. 4 \in Phase /\ "gaveUp" \in Outcomes
      BY DEF Phase, Outcomes
    <3>2. /\ pc' = "over" /\ result' \in [Phase -> Outcomes]
          /\ result'[4] = "gaveUp" /\ result'[2] = result[2] /\ result'[3] = result[3]
      BY <1>2, <2>2, <3>1, VerdictIs
    <3>3. QED
      BY <1>3, <3>2
  <2>3. QED
    BY <1>1, <2>1, <2>2
<1>5. /\ task' = task
      /\ Aim' = Aim /\ tiers' = tiers /\ active' = active /\ counted' = counted /\ fault' = fault
      /\ standard' = standard /\ Graded' = Graded /\ RightOverlay' = RightOverlay
      /\ SettledDown' = SettledDown /\ Further' = Further
      /\ BestOf(Aim, "spot")' = BestOf(Aim, "spot")
  <2>1. UNCHANGED <<chosen, account, counted, nim>>
    BY <1>1
  <2>2. Aim' = Aim /\ Effective("perp")' = Effective("perp") /\ Graded' = Graded
        /\ RightOverlay' = RightOverlay /\ OverlayTier' = OverlayTier
    BY <2>1, SameAim, SameAccount
  <2>3. QED
    BY <2>1, <2>2 DEF chosen, account, SettledDown, Further, BestOf
<1>6. PlaceInv'
  BY <1>1, <1>2, <1>4, FlowLooksPlace
<1>7. Common'
  BY <1>2, <1>4, <1>6, FillCommon DEF DrivePlaces
<1>8. pc' = "judge" =>
        /\ fault \in {"standardKept", "standardCharged"} => rate' = standard["spot"]
        /\ fault = "none" /\ Graded /\ result[2] = "passed" /\ result[3] = "passed" =>
              Further \/ standard["perp"] <= tiers[Aim].perp \/ rate' = BestOf(Aim, "spot")
  <2> SUFFICES ASSUME pc' = "judge"
               PROVE  /\ fault \in {"standardKept", "standardCharged"} => rate' = standard["spot"]
                      /\ fault = "none" /\ Graded /\ result[2] = "passed" /\ result[3] = "passed" =>
                            Further \/ standard["perp"] <= tiers[Aim].perp \/ rate' = BestOf(Aim, "spot")
    OBVIOUS
  <2>1. /\ fault \in {"standardKept", "standardCharged"} => rate' = standard["spot"]
        /\ fault = "none" => \/ rate' = BestOf(applied, "spot")
                             \/ active /\ rate' = BestOf(OverlayTier, "spot")
                             \/ ~active /\ rate' = BestOf(0, "spot")
    <3>1. "spot" \in Rates
      BY DEF Rates
    <3>2. rate' \in Charged("spot")
      BY <1>4
    <3>3. QED
      BY <1>2, <3>1, <3>2, ChargedIs
  <2>2. ASSUME fault = "none", Graded, result[3] = "passed",
               ~Further, ~(standard["perp"] <= tiers[Aim].perp)
        PROVE  rate' = BestOf(Aim, "spot")
    <3>1. SettledDown
      BY <1>2, <2>2 DEF FlowPart, FlowSeen
    <3>2. applied >= Aim /\ active /\ applied <= OverlayTier /\ applied \in DOMAIN tiers
      BY <1>2, <2>2, <3>1, SettledIs
    <3>3. OverlayTier <= Aim /\ applied \in Nat /\ OverlayTier \in Nat /\ Aim \in Nat
      BY <1>2, <2>2, <3>2, TierFacts DEF Further
    <3>4. applied = Aim /\ OverlayTier = Aim
      BY <3>2, <3>3
    <3>5. QED
      BY <2>1, <2>2, <3>2, <3>4
  <2>3. QED
    BY <2>1, <2>2
<1>9. FlowPart'
  BY <1>1, <1>2, <1>4, <1>5, <1>8 DEF FlowPart, FlowSeen, FlowEarned, FlowAlarms
<1>10. QED
  BY <1>5, <1>7, <1>9, FlowStep

LEMMA JudgeSpotInv ==
    ASSUME TierIInv, JudgeSpot
    PROVE  TierIInv'
<1> DEFINE right == rate = Overlay("spot") /\ rate < tiers[1].spot
<1>1. /\ pc = "judge" /\ task = "flow" /\ Looks /\ UNCHANGED <<volume, rate, pending>>
      /\ Verdict(4, IF right THEN "passed" ELSE "failed", "over")
  BY DEF JudgeSpot, Asserts
<1>2. Common /\ FlowPart /\ TierTypeOK /\ PlaceInv /\ Realizable /\ Aim \in DOMAIN tiers
  BY <1>1, FlowPlace DEF Common
<1>4. /\ pc' = "over" /\ result' \in [Phase -> Outcomes]
      /\ result'[4] = (IF right THEN "passed" ELSE "failed")
      /\ result'[2] = result[2] /\ result'[3] = result[3]
  <2>1. 4 \in Phase /\ (IF right THEN "passed" ELSE "failed") \in Outcomes
    BY DEF Phase, Outcomes
  <2> HIDE DEF right
  <2>2. QED
    BY <1>1, <1>2, <2>1, VerdictIs
<1>5. /\ UNCHANGED <<chosen, account, exchange, local, counted, nim>> /\ task' = task
      /\ Aim' = Aim /\ tiers' = tiers /\ active' = active /\ counted' = counted /\ fault' = fault
      /\ standard' = standard /\ Graded' = Graded /\ RightOverlay' = RightOverlay
      /\ SettledDown' = SettledDown /\ Further' = Further /\ Overlay("spot")' = Overlay("spot")
  <2>1. UNCHANGED <<chosen, account, exchange, local, counted, nim>>
    BY <1>1 DEF Looks, ledger
  <2>2. Aim' = Aim /\ Effective("perp")' = Effective("perp") /\ Graded' = Graded
        /\ RightOverlay' = RightOverlay /\ OverlayTier' = OverlayTier
        /\ Overlay("spot")' = Overlay("spot")
    BY <1>1, <2>1, SameAim, SameAccount
  <2>3. QED
    BY <2>1, <2>2 DEF chosen, account, SettledDown, Further
<1>6. PlaceInv'
  BY <1>1, <1>2, <1>4, <1>5, FlowLooksPlace
<1>7. Common'
  BY <1>1, <1>2, <1>4, <1>6, FlowLooksCommon DEF DrivePlaces
<1>8. right => /\ rate < tiers[1].spot
               /\ fault \in {"standardKept", "standardCharged"} => rate = standard["spot"]
  BY <1>1, <1>2 DEF FlowPart, FlowSeen
<1>9. fault = "none" /\ Graded =>
        \/ right \/ Further \/ result[2] # "passed" \/ result[3] # "passed"
        \/ standard["spot"] < Overlay("spot") \/ standard["perp"] <= tiers[Aim].perp
  <2> SUFFICES ASSUME fault = "none", Graded, ~Further, result[2] = "passed", result[3] = "passed",
                      ~(standard["spot"] < Overlay("spot")), ~(standard["perp"] <= tiers[Aim].perp)
               PROVE  right
    OBVIOUS
  <2>1. rate = BestOf(Aim, "spot") /\ active /\ counted >= tiers[Aim].vol_min
    BY <1>1, <1>2 DEF FlowPart, FlowSeen
  <2>2. Correct >= Aim /\ OverlayTier = Correct /\ OverlayTier \in Nat /\ Aim \in Nat /\ Aim # 0
    BY <1>2, <2>1, CorrectIs, TierFacts
  <2>3. OverlayTier = Aim
    BY <2>2 DEF Further
  <2>4. Overlay("spot") = tiers[Aim].spot
    BY <1>2, <2>1, <2>3, TierRates DEF Overlay
  <2>5. standard["spot"] \in Nat /\ tiers[Aim].spot \in Nat /\ tiers[Aim].spot < tiers[1].spot
    BY <1>2, StandardRates, TierRates DEF Realizable
  <2>6. BestOf(Aim, "spot") = IF standard["spot"] < tiers[Aim].spot
                              THEN standard["spot"] ELSE tiers[Aim].spot
    BY <1>2, <2>2, BestOfIs
  <2>7. rate = tiers[Aim].spot
    BY <2>1, <2>4, <2>5, <2>6
  <2>8. QED
    BY <2>4, <2>5, <2>7
<1> HIDE DEF right
<1>10. FlowPart'
  BY <1>1, <1>2, <1>4, <1>5, <1>8, <1>9 DEF FlowPart, FlowSeen, FlowEarned, FlowAlarms
<1>11. QED
  BY <1>1, <1>5, <1>7, <1>10, FlowStep

\* The idle driver gets its target.
LEMMA DriveBegins ==
    ASSUME DriverIdle, DriverIInv, pc = "start", pc' = "loop", target' \in Nat,
           UNCHANGED <<exchange, leg, amount, taker, traded, cycles, skipped>>
    PROVE  DriverIInv'
<1>1. UNCHANGED <<pos, orders, repeats, leg, amount, taker, traded, cycles, skipped>>
      /\ repeats = 0 /\ traded = 0 /\ cycles = 0 /\ skipped = 0
  BY DEF exchange, DriverIdle
<1>2. ExchangeInv' /\ SubjectVolume' = SubjectVolume
  BY <1>1, DriverFacts, SameBook
<1>3. DriverInv'
  <2>1. DriverTypeOK'
    BY <1>1, <1>2, DriverFacts DEF DriverTypeOK, ExchangeInv
  <2>2. QED
    BY <1>1, <1>2, <2>1, DriverFacts
    DEF DriverInv, LegsAccountedFor, OvershootBounded, VolumeIsReal
<1>4. CycleInv' /\ AwaitedInv'
  BY <1>1 DEF CycleInv, AwaitedInv, InLeg, LegsToGo
<1>5. OrdersMatch'
  <2>1. \A p \in Party : \A l \in Leg : Opened(p, l)' = Opened(p, l) /\ Closed(p, l)' = Closed(p, l)
    BY <1>1, DriverFacts, SameBook
  <2>2. \A p \in Party : \A l \in Leg : Outstanding(p, l) = 0 /\ Outstanding(p, l)' = 0
    BY DEF Outstanding, Unclosed
  <2>3. \A p \in Party : \A l \in Leg : Opened(p, l) = Closed(p, l) + Outstanding(p, l)
    BY <1>1, OrdersMatchIs DEF DriverIInv
  <2>4. \A p \in Party : \A l \in Leg : Opened(p, l)' = Closed(p, l)' + Outstanding(p, l)'
    BY <2>1, <2>2, <2>3
  <2>5. QED
    BY <2>4 DEF OrdersMatch, Opened, Closed
<1>6. QED
  BY <1>2, <1>3, <1>4, <1>5 DEF DriverIInv

LEMMA ReadStartInv ==
    ASSUME TierIInv, ReadStart
    PROVE  TierIInv'
<1>1. /\ pc = "start"
      /\ \/ /\ \E start \in {0, counted} : target' = Gap(start)
            /\ pc' = "loop" /\ UNCHANGED result
         \/ Verdict(2, "raised", "settle") /\ UNCHANGED target
      /\ UNCHANGED <<exchange, leg, amount, taker, traded, cycles, skipped, chosen, account,
                     ledger, volume, rate, pending>>
  BY DEF ReadStart
<1>2. Common /\ FlowPart /\ TierTypeOK /\ PlaceInv /\ DriverIInv
  BY Parts DEF Common
<1>3. task = "flow" /\ pc \notin DrivePlaces
  BY <1>1, <1>2 DEF PlaceInv, TierTypeOK, DrivePlaces
<1>4. /\ Realizable /\ DriverIdle /\ applied = 0
      /\ result[2] = "none" /\ result[3] = "none" /\ result[4] = "none"
  BY <1>1, <1>2, <1>3 DEF PlaceInv, BeforeReturn
<1>5. /\ task' = task /\ tiers' = tiers /\ standard' = standard /\ applied' = applied
      /\ Realizable' = Realizable /\ Aim' = Aim /\ OverlayTier' = OverlayTier
  <2>1. UNCHANGED <<chosen, account, counted, nim>>
    BY <1>1 DEF ledger
  <2>2. Realizable' = Realizable /\ Aim' = Aim /\ OverlayTier' = OverlayTier
    BY <1>3, <2>1, SameAim, SameAccount
  <2>3. QED
    BY <2>1, <2>2 DEF chosen, account
<1>6. CASE /\ \E start \in {0, counted} : target' = Gap(start)
           /\ pc' = "loop" /\ UNCHANGED result
  <2>1. PICK start \in {0, counted} : target' = Gap(start)
    BY <1>6
  <2>2. start \in Nat /\ start <= earned /\ earned \in Nat
    BY <1>2, AccountTyped
  <2>3. tiers[Aim].vol_min \in Nat
    BY <1>2, <1>4, TierFacts, TierRates
  <2>4. target' \in Nat /\ target' + start >= tiers[Aim].vol_min
    BY <2>1, <2>2, <2>3, GapCovers
  <2>5. target' + earned >= tiers[Aim].vol_min
    BY <2>2, <2>3, <2>4
  <2>6. DriverIInv'
    BY <1>1, <1>2, <1>4, <1>6, <2>4, DriveBegins
  <2>7. TierTypeOK'
    BY <1>1, <1>2, <1>6 DEF TierTypeOK, chosen, account, ledger
  <2>8. PlaceInv'
    BY <1>2, <1>3, <1>4, <1>5, <1>6 DEF PlaceInv, BeforeReturn, DrivePlaces
  <2>9. AccountInv'
    BY <1>1, <1>2, <1>4, <1>5 DEF Common, AccountInv, ledger, chosen, account
  <2>10. TargetInv'
    BY <1>1, <1>5, <2>5 DEF TargetInv, ledger
  <2>11. FlowPart'
    BY <1>4, <1>6 DEF FlowPart, FlowSeen, FlowEarned, FlowAlarms
  <2>12. QED
    BY <1>3, <1>5, <2>6, <2>7, <2>8, <2>9, <2>10, <2>11, FlowStep DEF Common
<1>7. CASE Verdict(2, "raised", "settle") /\ UNCHANGED target
  <2>1. /\ pc' = "settle" /\ result' \in [Phase -> Outcomes] /\ result'[2] = "raised"
        /\ result'[3] = "none" /\ result'[4] = "none"
    <3>1. 2 \in Phase /\ "raised" \in Outcomes
      BY DEF Phase, Outcomes
    <3>2. /\ pc' = "settle" /\ result' \in [Phase -> Outcomes] /\ result'[2] = "raised"
          /\ result'[3] = result[3] /\ result'[4] = result[4]
      BY <1>2, <1>7, <3>1, VerdictIs
    <3>3. QED
      BY <1>4, <3>2
  <2>2. Looks
    BY <1>1, <1>7 DEF Looks, local
  <2>3. DriverIdle'
    BY <1>2, <1>3, <2>1, <2>2, QuietDriver DEF Looks, DrivePlaces
  <2>4. PlaceInv'
    BY <1>2, <1>3, <1>4, <1>5, <2>1, <2>3 DEF PlaceInv, BeforeReturn, DrivePlaces
  <2>5. Common'
    <3>1. volume' \in Nat /\ rate' \in Nat /\ pending' \in BOOLEAN
      BY <1>1, <1>2, AccountTyped
    <3>2. pc' \notin DrivePlaces
      BY <2>1 DEF DrivePlaces
    <3>3. QED
      BY <1>2, <1>3, <2>1, <2>2, <2>4, <3>1, <3>2, LooksCommon
  <2>6. FlowPart'
    BY <2>1 DEF FlowPart, FlowSeen, FlowEarned, FlowAlarms
  <2>7. QED
    BY <1>3, <1>5, <2>5, <2>6, FlowStep
<1>8. QED
  BY <1>1, <1>6, <1>7

LEMMA LeftTyped ==
    ASSUME DriverIInv
    PROVE  SubjectLeft \in Nat
<1> DEFINE n == [i \in SubjectOrders |-> IF Live(i) THEN orders[i].left ELSE 0]
<1>1. SubjectOrders \subseteq DOMAIN orders
  BY DEF SubjectOrders
<1>2. IsFiniteSet(SubjectOrders) /\ MaxUnits \in Nat
  BY <1>1, DriverFacts, AmountsTyped
<1>3. ASSUME NEW i \in SubjectOrders
      PROVE  (IF Live(i) THEN orders[i].left ELSE 0) \in 0..MaxUnits
  <2>1. orders[i] \in Order
    BY <1>1, DriverFacts, OrdersAreFunction
  <2>2. orders[i].left \in Nat /\ Filled(orders[i]) \in Nat
    BY <2>1, OrderCounts
  <2>3. orders[i].left + Filled(orders[i]) <= MaxUnits
    BY <1>1, DriverFacts DEF OrdersBounded
  <2>4. QED
    BY <1>2, <2>2, <2>3
<1>4. n \in [SubjectOrders -> 0..MaxUnits]
  BY <1>3
<1> HIDE DEF n
<1>5. Total(n) \in Nat
  BY <1>2, <1>4, UnitsAreFinite
<1>6. QED
  BY <1>5 DEF SubjectLeft, n

LEMMA ReturnedInv ==
    ASSUME TierIInv, Returned
    PROVE  TierIInv'
<1>1. /\ task = "flow" /\ pc \in {"done", "raised"}
      /\ \/ Verdict(2, "raised", "settle")
         \/ Verdict(2, "thin", "settle")
         \/ pc' = "ingest" /\ UNCHANGED result
      /\ earned' = earned + SubjectVolume /\ late' = SubjectLeft
      /\ fault' \in Faults /\ standard' \in Standards /\ active' \in BOOLEAN
      /\ UNCHANGED <<chosen, applied, counted, deposited, nim, hours, volume, rate, pending>>
  BY DEF Returned
<1>2. DriverIdle'
  BY DEF Returned, DriverIdle
<1>3. Common /\ FlowPart /\ TierTypeOK /\ PlaceInv /\ DriverIInv
  BY Parts DEF Common
<1>4. /\ Realizable /\ applied = 0
      /\ result[2] = "none" /\ result[3] = "none" /\ result[4] = "none"
  BY <1>1, <1>3 DEF PlaceInv, BeforeReturn, DrivePlaces
<1>5. /\ pc' \in {"settle", "ingest"} /\ result' \in [Phase -> Outcomes]
      /\ result'[2] # "passed" /\ result'[2] # "failed"
      /\ result'[3] = "none" /\ result'[4] = "none"
      /\ pc' = "ingest" => result'[2] = "none"
  <2>0. 2 \in Phase /\ "raised" \in Outcomes /\ "thin" \in Outcomes
    BY DEF Phase, Outcomes
  <2>1. CASE Verdict(2, "raised", "settle")
    <3>1. /\ pc' = "settle" /\ result' \in [Phase -> Outcomes] /\ result'[2] = "raised"
          /\ result'[3] = result[3] /\ result'[4] = result[4]
      BY <1>3, <2>0, <2>1, VerdictIs
    <3>2. QED
      BY <1>4, <3>1
  <2>2. CASE Verdict(2, "thin", "settle")
    <3>1. /\ pc' = "settle" /\ result' \in [Phase -> Outcomes] /\ result'[2] = "thin"
          /\ result'[3] = result[3] /\ result'[4] = result[4]
      BY <1>3, <2>0, <2>2, VerdictIs
    <3>2. QED
      BY <1>4, <3>1
  <2>3. CASE pc' = "ingest" /\ UNCHANGED result
    BY <1>3, <1>4, <2>3, OldResults
  <2>4. QED
    BY <1>1, <2>1, <2>2, <2>3
<1>6. /\ task' = task /\ tiers' = tiers /\ applied' = 0
      /\ Realizable'
  <2>1. UNCHANGED chosen
    BY <1>1
  <2>2. QED
    BY <1>1, <1>4, <2>1, SameAim DEF chosen
<1>7. DriverIInv'
  <2>1. ~InLeg'
    BY <1>5 DEF InLeg
  <2>2. QED
    BY <1>2, <2>1, Idle, PTL
<1>8. TierTypeOK'
  <2>1. SubjectVolume \in Nat /\ SubjectLeft \in Nat
    BY <1>3, DriverFacts, LeftTyped
  <2>2. earned' \in Nat /\ late' \in Nat /\ counted' \in 0..earned'
    BY <1>1, <1>3, <2>1, AccountTyped
  <2>3. QED
    BY <1>1, <1>3, <1>5, <2>2 DEF TierTypeOK, chosen, Outcomes
<1>9. PlaceInv'
  <2>1. standard' \in [{"perp", "spot"} -> Nat]
    BY <1>1, TierAssumption DEF TierAssumption
  <2>2. QED
    BY <1>1, <1>2, <1>3, <1>5, <1>6, <2>1 DEF PlaceInv, BeforeReturn, DrivePlaces
<1>10. AccountInv'
  BY <1>1, <1>3, <1>6 DEF Common, AccountInv
<1>11. TargetInv'
  BY <1>5 DEF TargetInv, DrivePlaces
<1>12. FlowPart'
  BY <1>5 DEF FlowPart, FlowSeen, FlowEarned, FlowAlarms
<1>13. QED
  BY <1>1, <1>6, <1>7, <1>8, <1>9, <1>10, <1>11, <1>12, FlowStep DEF Common

LEMMA DrivingInv ==
    ASSUME TierIInv, Driving
    PROVE  TierIInv'
<1>1. task = "flow" /\ DriverNext /\ UNCHANGED <<chosen, account, ledger, test>>
  BY DEF Driving
<1>2. Common /\ FlowPart /\ TierTypeOK /\ PlaceInv /\ DriverIInv
  BY Parts DEF Common
<1>3. /\ pc \in DrivePlaces \ {"done", "raised"} \/ (pc # "raised" /\ Match /\ pc' = pc)
      /\ pc' \in DrivePlaces \/ pc' = pc
      /\ target' = target
  <2>1. CASE StartCycle \/ Finish \/ RestMaker \/ TakeMaker \/ PostAgain
    BY <2>1 DEF StartCycle, Finish, RestMaker, TakeMaker, PostAgain, driver, local, DrivePlaces
  <2>2. CASE SeeFill \/ FillTimeout
    BY <2>2 DEF SeeFill, FillTimeout, NextLeg, DrivePlaces
  <2>3. CASE Raise
    BY <2>3 DEF Raise, local, DrivePlaces
  <2>4. CASE Matching
    BY <2>4 DEF Matching, driver, local
  <2>5. QED
    BY <1>1, <2>1, <2>2, <2>3, <2>4 DEF DriverNext, Drive
<1>4. pc \in DrivePlaces
  <2> SUFFICES ASSUME pc \notin DrivePlaces, Match
               PROVE  FALSE
    BY <1>3
  <2>1. DOMAIN orders = {}
    BY <1>2 DEF PlaceInv, DriverIdle
  <2>2. QED
    BY <2>1 DEF Match
<1>5. pc' \in DrivePlaces /\ pc # "raised"
  BY <1>3, <1>4
<1>6. /\ Realizable /\ applied = 0
      /\ result[2] = "none" /\ result[3] = "none" /\ result[4] = "none"
  BY <1>1, <1>2, <1>4 DEF PlaceInv, BeforeReturn, DrivePlaces
<1>7. /\ task' = task /\ tiers' = tiers /\ standard' = standard /\ applied' = applied
      /\ Realizable' = Realizable /\ Aim' = Aim /\ OverlayTier' = OverlayTier
      /\ result' = result
  <2>1. UNCHANGED <<chosen, account, counted, nim>> /\ result' = result
    BY <1>1 DEF ledger, test
  <2>2. Realizable' = Realizable /\ Aim' = Aim /\ OverlayTier' = OverlayTier
    BY <1>1, <2>1, SameAim, SameAccount
  <2>3. QED
    BY <2>1, <2>2 DEF chosen, account
<1>8. DriverIInv'
  BY <1>1, <1>2, DriverStepInv
<1>9. TierTypeOK'
  BY <1>1, <1>2 DEF TierTypeOK, chosen, account, ledger, test
<1>10. PlaceInv'
  BY <1>1, <1>2, <1>5, <1>6, <1>7 DEF PlaceInv, BeforeReturn, DrivePlaces
<1>11. AccountInv'
  BY <1>1, <1>2, <1>6, <1>7 DEF Common, AccountInv, ledger
<1>12. TargetInv'
  <2>1. target + earned >= tiers[Aim].vol_min
    BY <1>2, <1>4, <1>5 DEF Common, TargetInv
  <2>2. target' = target /\ earned' = earned
    BY <1>1, <1>3 DEF ledger
  <2>3. QED
    BY <1>7, <2>1, <2>2 DEF TargetInv
<1>13. FlowPart'
  BY <1>5, <1>6, <1>7 DEF FlowPart, FlowSeen, FlowEarned, FlowAlarms, DrivePlaces
<1>14. QED
  BY <1>1, <1>7, <1>8, <1>9, <1>10, <1>11, <1>12, <1>13, FlowStep DEF Common

-----------------------------------------------------------------------------
(* The NIM test.                                                           *)

NimPlaces == {"activate", "resolve", "deposit", "balance", "after"}

LEMMA NimPlace ==
    ASSUME TierIInv, pc \in NimPlaces
    PROVE  /\ task = "nim" /\ Common /\ NimPart /\ TierTypeOK /\ PlaceInv /\ pc \notin DrivePlaces
           /\ DriverIdle /\ result[1] = "none" /\ earned = 0 /\ volume = 0 /\ counted = 0
<1>1. Common /\ NimPart /\ TierTypeOK /\ PlaceInv
  BY Parts DEF Common
<1>2. task = "nim" /\ pc \notin DrivePlaces
  BY <1>1 DEF PlaceInv, TierTypeOK, NimPlaces, BeforeReturn, DrivePlaces
<1>3. DriverIdle /\ result[1] = "none"
  BY <1>1, <1>2 DEF PlaceInv, NimPlaces
<1>4. earned = 0 /\ volume = 0
  BY <1>1, <1>2 DEF Common, AccountInv
<1>5. counted = 0
  BY <1>1, <1>4, AccountTyped
<1>6. QED
  BY <1>1, <1>2, <1>3, <1>4, <1>5

LEMMA NimGoesOn ==
    ASSUME TierIInv, pc \in NimPlaces, UNCHANGED <<exchange, local, chosen, account>>,
           pc' \in NimPlaces \cup {"over"}, pc' # "over" => result'[1] = "none"
    PROVE  PlaceInv' /\ pc' \notin DrivePlaces
<1>1. task = "nim" /\ PlaceInv /\ pc \notin DrivePlaces
  BY NimPlace
<1>2. pc' \notin DrivePlaces
  BY DEF NimPlaces, DrivePlaces
<1>3. DriverIdle'
  BY <1>1, <1>2, QuietDriver
<1>4. tiers' = tiers /\ task' = task /\ standard' = standard
  BY DEF chosen, account
<1>5. PlaceInv'
  BY <1>1, <1>3, <1>4 DEF PlaceInv, NimPlaces
<1>6. QED
  BY <1>2, <1>5

\* What a look of the test leaves as it was.
LEMMA NimSame ==
    ASSUME TierIInv, pc \in NimPlaces, Looks, volume' = volume
    PROVE  /\ task' = task /\ tiers' = tiers /\ active' = active /\ fault' = fault
           /\ standard' = standard /\ nim' = nim /\ applied' = applied
           /\ Aim' = Aim /\ VolTier' = VolTier
           /\ OverlayTier' = OverlayTier /\ Graded' = Graded /\ RightOverlay' = RightOverlay
           /\ Effective("perp")' = Effective("perp") /\ Overlay("perp")' = Overlay("perp")
           /\ Trails' = Trails
           /\ BestOf(0, "perp")' = BestOf(0, "perp")
           /\ BestOf(VolTier, "perp")' = BestOf(VolTier, "perp")
<1>1. UNCHANGED <<chosen, account, counted, nim>>
  BY DEF Looks, ledger
<1>2. /\ Aim' = Aim /\ VolTier' = VolTier
      /\ OverlayTier' = OverlayTier /\ Graded' = Graded /\ RightOverlay' = RightOverlay
      /\ Effective("perp")' = Effective("perp") /\ Overlay("perp")' = Overlay("perp")
  BY <1>1, SameAim, SameAccount
<1>3. QED
  BY <1>1, <1>2 DEF chosen, account, Trails, BestOf

LEMMA AwaitActiveInv ==
    ASSUME TierIInv, AwaitActive
    PROVE  TierIInv'
<1>1. /\ pc = "activate" /\ Looks /\ UNCHANGED <<volume, rate, pending>>
      /\ \/ ShownActive /\ pc' = "resolve" /\ UNCHANGED result
         \/ Verdict(1, "gaveUp", "over")
  BY DEF AwaitActive, Poll
<1>2. /\ task = "nim" /\ Common /\ NimPart /\ TierTypeOK /\ pc \notin DrivePlaces
      /\ pc \in NimPlaces /\ result[1] = "none" /\ volume = 0
  BY <1>1, NimPlace DEF NimPlaces
<1>3. /\ pc' \in {"resolve", "over"} /\ result' \in [Phase -> Outcomes]
      /\ result'[1] # "passed" /\ result'[1] # "failed"
      /\ pc' = "resolve" => ShownActive /\ result'[1] = "none"
  <2>1. CASE ShownActive /\ pc' = "resolve" /\ UNCHANGED result
    BY <1>2, <2>1, OldResults
  <2>2. CASE Verdict(1, "gaveUp", "over")
    <3>1. 1 \in Phase /\ "gaveUp" \in Outcomes
      BY DEF Phase, Outcomes
    <3>2. pc' = "over" /\ result' \in [Phase -> Outcomes] /\ result'[1] = "gaveUp"
      BY <1>2, <2>2, <3>1, VerdictIs
    <3>3. QED
      BY <3>2
  <2>3. QED
    BY <1>1, <2>1, <2>2
<1>4. PlaceInv' /\ pc' \notin DrivePlaces
  BY <1>1, <1>2, <1>3, NimGoesOn DEF NimPlaces, Looks
<1>5. Common'
  <2>1. volume' = 0 /\ volume' \in Nat /\ rate' \in Nat /\ pending' \in BOOLEAN
    BY <1>1, <1>2, AccountTyped
  <2>2. QED
    BY <1>1, <1>2, <1>3, <1>4, <2>1, LooksCommon
<1>6. /\ task' = task /\ active' = active /\ fault' = fault /\ nim' = nim /\ applied' = applied
      /\ OverlayTier' = OverlayTier
  BY <1>1, <1>2, NimSame
<1>7. nim = 0 /\ applied \in {0, OverlayTier}
  BY <1>1, <1>2 DEF NimPart, NimSeen
<1>8. NimPart'
  BY <1>3, <1>6, <1>7 DEF NimPart, NimSeen, NimEarned, NimAlarms, ShownActive
<1>9. QED
  BY <1>2, <1>5, <1>6, <1>8, NimStep

LEMMA ReadPreInv ==
    ASSUME TierIInv, ReadPre
    PROVE  TierIInv'
<1>1. /\ pc = "resolve" /\ Looks /\ volume' = ShownVolume /\ rate' = Effective("perp")
      /\ pending' = pending
      /\ \/ Len(tiers) > 1 /\ Aim' # 0 /\ pc' = "deposit" /\ UNCHANGED result
         \/ ~(Len(tiers) > 1 /\ Aim' # 0) /\ Verdict(1, "failed", "over")
  BY DEF ReadPre
<1>2. /\ task = "nim" /\ Common /\ NimPart /\ TierTypeOK /\ PlaceInv /\ pc \notin DrivePlaces
      /\ pc \in NimPlaces /\ result[1] = "none" /\ volume = 0 /\ counted = 0
  BY <1>1, NimPlace DEF NimPlaces
<1>3. volume' = volume /\ volume' = 0
  BY <1>1, <1>2 DEF ShownVolume
<1>4. /\ pc' \in {"deposit", "over"} /\ result' \in [Phase -> Outcomes]
      /\ result'[1] # "passed" /\ (result'[1] = "failed" => ~(Len(tiers) > 1 /\ Aim' # 0))
      /\ pc' = "deposit" => Aim' # 0 /\ result'[1] = "none"
  <2>1. CASE Len(tiers) > 1 /\ Aim' # 0 /\ pc' = "deposit" /\ UNCHANGED result
    BY <1>2, <2>1, OldResults
  <2>2. CASE ~(Len(tiers) > 1 /\ Aim' # 0) /\ Verdict(1, "failed", "over")
    <3>1. 1 \in Phase /\ "failed" \in Outcomes
      BY DEF Phase, Outcomes
    <3>2. pc' = "over" /\ result' \in [Phase -> Outcomes] /\ result'[1] = "failed"
      BY <1>2, <2>2, <3>1, VerdictIs
    <3>3. QED
      BY <2>2, <3>2
  <2>3. QED
    BY <1>1, <2>1, <2>2
<1>5. PlaceInv' /\ pc' \notin DrivePlaces
  BY <1>1, <1>2, <1>4, NimGoesOn DEF NimPlaces, Looks
<1>6. /\ task' = task /\ tiers' = tiers /\ active' = active /\ fault' = fault
      /\ standard' = standard /\ nim' = nim /\ Aim' = Aim
      /\ BestOf(0, "perp")' = BestOf(0, "perp")
      /\ BestOf(VolTier, "perp")' = BestOf(VolTier, "perp")
  BY <1>1, <1>2, <1>3, NimSame
<1>7. active /\ fault # "inactive" /\ nim = 0 /\ applied \in {0, OverlayTier}
  BY <1>1, <1>2 DEF NimPart, NimSeen
<1>8. Common'
  <2>1. rate' \in Nat
    <3>1. applied \in 0..Len(tiers)
      BY <1>2, AccountTyped
    <3>2. standard["perp"] \in Nat /\ BestOf(applied, "perp") \in Nat
      BY <1>2, <3>1, StandardRates, RatesTyped
    <3>3. QED
      BY <1>1, <3>2 DEF Effective
  <2>2. volume' \in Nat /\ pending' \in BOOLEAN
    BY <1>1, <1>2, <1>3, AccountTyped
  <2>3. QED
    BY <1>1, <1>2, <1>3, <1>4, <1>5, <2>1, <2>2, LooksCommon
<1>9. /\ fault = "standardKept" => rate' = standard["perp"]
      /\ fault = "none" => rate' \in {BestOf(0, "perp"), BestOf(VolTier, "perp")}
  <2>1. fault = "none" => OverlayTier = VolTier
    <3>1. Correct = ExpectedCompTier(tiers, counted)
      BY <1>2, <1>7, CorrectByVolume
    <3>2. QED
      BY <1>2, <3>1, TierFacts DEF VolTier
  <2>2. QED
    BY <1>1, <1>7, <2>1 DEF Effective
\* A schedule of one tier has none above it.
<1>10. result'[1] = "failed" => Aim' = 0
  <2> SUFFICES ASSUME ~(Len(tiers) > 1), Aim # 0
               PROVE  FALSE
    BY <1>4, <1>6
  <2>1. tiers[Aim].level > tiers[VolTier].level
    BY <1>2, NimAim
  <2>2. Aim \in 1..Len(tiers) /\ VolTier \in 1..Len(tiers) /\ Len(tiers) = 1
    BY <1>2, TierFacts
  <2>3. Aim = 1 /\ VolTier = 1 /\ tiers[1].level \in Nat
    BY <1>2, <2>2, TierFacts, TierRates
  <2>4. QED
    BY <2>1, <2>3
<1>11. NimPart'
  BY <1>4, <1>6, <1>7, <1>9, <1>10 DEF NimPart, NimSeen, NimEarned, NimAlarms
<1>12. QED
  BY <1>2, <1>6, <1>8, <1>11, NimStep

LEMMA DepositNimInv ==
    ASSUME TierIInv, DepositNim
    PROVE  TierIInv'
<1>1. /\ pc = "deposit" /\ deposited' \in 0..MaxDeposits
      /\ \/ pc' = "balance" /\ UNCHANGED result
         \/ Verdict(1, "raised", "over")
      /\ UNCHANGED <<exchange, local, chosen, account, earned, late, counted, nim, hours,
                     volume, rate, pending>>
  BY DEF DepositNim
<1>2. /\ task = "nim" /\ Common /\ NimPart /\ TierTypeOK /\ PlaceInv /\ pc \notin DrivePlaces
      /\ pc \in NimPlaces /\ result[1] = "none" /\ volume = 0
  BY <1>1, NimPlace DEF NimPlaces
<1>3. /\ pc' \in {"balance", "over"} /\ result' \in [Phase -> Outcomes]
      /\ result'[1] # "passed" /\ result'[1] # "failed"
      /\ pc' = "balance" => result'[1] = "none"
  <2>1. CASE pc' = "balance" /\ UNCHANGED result
    BY <1>2, <2>1, OldResults
  <2>2. CASE Verdict(1, "raised", "over")
    <3>1. 1 \in Phase /\ "raised" \in Outcomes
      BY DEF Phase, Outcomes
    <3>2. pc' = "over" /\ result' \in [Phase -> Outcomes] /\ result'[1] = "raised"
      BY <1>2, <2>2, <3>1, VerdictIs
    <3>3. QED
      BY <3>2
  <2>3. QED
    BY <1>1, <2>1, <2>2
<1>4. PlaceInv' /\ pc' \notin DrivePlaces
  BY <1>1, <1>2, <1>3, NimGoesOn DEF NimPlaces
<1>5. /\ task' = task /\ active' = active /\ fault' = fault /\ standard' = standard /\ nim' = nim
      /\ Aim' = Aim /\ OverlayTier' = OverlayTier /\ rate' = rate /\ tiers' = tiers
      /\ BestOf(0, "perp")' = BestOf(0, "perp")
      /\ BestOf(VolTier, "perp")' = BestOf(VolTier, "perp")
  <2>1. UNCHANGED <<chosen, account, counted, nim, rate, volume>>
    BY <1>1
  <2>2. Aim' = Aim /\ VolTier' = VolTier /\ OverlayTier' = OverlayTier
    BY <2>1, SameAim, SameAccount
  <2>3. QED
    BY <2>1, <2>2 DEF chosen, account, BestOf
<1>6. Common'
  <2>1. DriverIInv'
    BY <1>1, <1>2, <1>4, QuietDriver
  <2>2. TierTypeOK'
    BY <1>1, <1>2, <1>3 DEF TierTypeOK, chosen, account, Outcomes
  <2>3. AccountInv'
    BY <1>1, <1>2, <1>5 DEF Common, AccountInv, chosen, account
  <2>4. TargetInv'
    BY <1>4 DEF TargetInv
  <2>5. QED
    BY <1>4, <2>1, <2>2, <2>3, <2>4 DEF Common
<1>7. /\ active /\ fault # "inactive" /\ nim = 0 /\ Aim # 0
      /\ fault = "standardKept" => rate = standard["perp"]
      /\ fault = "none" => rate \in {BestOf(0, "perp"), BestOf(VolTier, "perp")}
  BY <1>1, <1>2 DEF NimPart, NimSeen
<1>8. NimPart'
  BY <1>3, <1>5, <1>7 DEF NimPart, NimSeen, NimEarned, NimAlarms
<1>9. QED
  BY <1>2, <1>5, <1>6, <1>8, NimStep

LEMMA AwaitNimInv ==
    ASSUME TierIInv, AwaitNim
    PROVE  TierIInv'
<1>1. /\ pc = "balance" /\ Looks /\ UNCHANGED <<volume, rate, pending>>
      /\ \/ nim >= 100 * tiers[Aim].nim_min /\ pc' = "after" /\ UNCHANGED result
         \/ Verdict(1, "gaveUp", "over")
  BY DEF AwaitNim, Poll
<1>2. /\ task = "nim" /\ Common /\ NimPart /\ TierTypeOK /\ pc \notin DrivePlaces
      /\ pc \in NimPlaces /\ result[1] = "none" /\ volume = 0
  BY <1>1, NimPlace DEF NimPlaces
<1>3. /\ pc' \in {"after", "over"} /\ result' \in [Phase -> Outcomes]
      /\ result'[1] # "passed" /\ result'[1] # "failed"
      /\ pc' = "after" => nim >= 100 * tiers[Aim].nim_min /\ result'[1] = "none"
  <2>1. CASE nim >= 100 * tiers[Aim].nim_min /\ pc' = "after" /\ UNCHANGED result
    BY <1>2, <2>1, OldResults
  <2>2. CASE Verdict(1, "gaveUp", "over")
    <3>1. 1 \in Phase /\ "gaveUp" \in Outcomes
      BY DEF Phase, Outcomes
    <3>2. pc' = "over" /\ result' \in [Phase -> Outcomes] /\ result'[1] = "gaveUp"
      BY <1>2, <2>2, <3>1, VerdictIs
    <3>3. QED
      BY <3>2
  <2>3. QED
    BY <1>1, <2>1, <2>2
<1>4. PlaceInv' /\ pc' \notin DrivePlaces
  BY <1>1, <1>2, <1>3, NimGoesOn DEF NimPlaces, Looks
<1>5. Common'
  <2>1. volume' = 0 /\ volume' \in Nat /\ rate' \in Nat /\ pending' \in BOOLEAN
    BY <1>1, <1>2, AccountTyped
  <2>2. QED
    BY <1>1, <1>2, <1>3, <1>4, <2>1, LooksCommon
<1>6. /\ task' = task /\ tiers' = tiers /\ active' = active /\ fault' = fault
      /\ standard' = standard /\ nim' = nim /\ Aim' = Aim /\ rate' = rate
      /\ BestOf(0, "perp")' = BestOf(0, "perp")
      /\ BestOf(VolTier, "perp")' = BestOf(VolTier, "perp")
  BY <1>1, <1>2, NimSame
<1>7. /\ active /\ fault # "inactive" /\ Aim # 0
      /\ fault = "standardKept" => rate = standard["perp"]
      /\ fault = "none" => rate \in {BestOf(0, "perp"), BestOf(VolTier, "perp")}
  BY <1>1, <1>2 DEF NimPart, NimSeen
<1>8. NimPart'
  BY <1>3, <1>6, <1>7 DEF NimPart, NimSeen, NimEarned, NimAlarms
<1>9. QED
  BY <1>2, <1>5, <1>6, <1>8, NimStep

Either == ExpectedTierEither(InHundredths, volume, nim)

\* The tier that the test expects: none behind it has its volume or its balance.
LEMMA EitherIs ==
    ASSUME TierTypeOK, PlaceInv
    PROVE  /\ Either \in DOMAIN tiers /\ EitherTier = tiers[Either]
           /\ \/ Either = 1
              \/ volume >= tiers[Either].vol_min
              \/ nim >= 100 * tiers[Either].nim_min
           /\ \A i \in DOMAIN tiers :
                volume >= tiers[i].vol_min \/ nim >= 100 * tiers[i].nim_min => i <= Either
<1> DEFINE Q == {i \in DOMAIN InHundredths :
                    volume >= InHundredths[i].vol_min \/ nim >= InHundredths[i].nim_min}
<1>1. Len(tiers) \in Nat \ {0} /\ DOMAIN tiers = 1..Len(tiers)
  BY TierFacts
<1>2. DOMAIN InHundredths = DOMAIN tiers
  BY DEF InHundredths
<1>3. \A i \in DOMAIN tiers : /\ InHundredths[i].vol_min = tiers[i].vol_min
                              /\ InHundredths[i].nim_min = 100 * tiers[i].nim_min
  <2>1. \A i \in DOMAIN tiers : tiers[i] \in Tier
    BY SchedulePlaces DEF PlaceInv
  <2>2. \A i \in DOMAIN tiers :
          InHundredths[i] = [tiers[i] EXCEPT !.nim_min = 100 * tiers[i].nim_min]
    BY DEF InHundredths
  <2>3. QED
    BY <2>1, <2>2 DEF Tier
<1>4. Either = Deepest(InHundredths, Q)
  BY DEF Either, ExpectedTierEither
<1>5. /\ Either \in DOMAIN tiers /\ (Either = 1 \/ Either \in Q)
      /\ \A i \in Q : i \in DOMAIN tiers => i <= Either
  <2> HIDE DEF Q
  <2>1. QED
    BY <1>1, <1>2, <1>4, DeepestIs
<1>6. EitherTier = tiers[Either]
  BY DEF EitherTier, Either
<1>7. QED
  BY <1>2, <1>3, <1>5, <1>6

\* Where the volume asked about is the volume counted.
LEMMA EitherOrCorrect ==
    ASSUME TierTypeOK, PlaceInv, volume = counted
    PROVE  /\ Correct <= Either
           /\ (\A i \in DOMAIN tiers : i > 1 => tiers[i].nim_min > 0) => Either = Correct
<1>1. /\ Correct \in DOMAIN tiers /\ Either \in DOMAIN tiers
      /\ Correct \in Nat /\ Either \in Nat /\ Correct >= 1 /\ Either >= 1
  BY TierFacts, EitherIs
<1>2. Correct <= Either
  BY <1>1, CorrectIs, EitherIs
<1>3. ASSUME \A i \in DOMAIN tiers : i > 1 => tiers[i].nim_min > 0
      PROVE  Either <= Correct
  <2>1. CASE Either = 1
    BY <1>1, <2>1
  <2>2. CASE Either # 1
    <3>1. tiers[Either].nim_min > 0
      BY <1>1, <1>3, <2>2
    <3>2. QED
      BY <1>1, <2>2, <3>1, CorrectIs, EitherIs
  <2>3. QED
    BY <2>1, <2>2
<1>4. QED
  BY <1>1, <1>2, <1>3

\* What a green NIM test shows.
LEMMA RightNimIsEarned ==
    ASSUME TierTypeOK, PlaceInv, volume = counted, active,
           EitherTier.level > tiers[VolTier].level, Overlay("perp") = EitherTier.perp,
           Graded
    PROVE  fault # "oneBelow"
<1> SUFFICES ASSUME fault = "oneBelow"
             PROVE  FALSE
  OBVIOUS
<1>1. /\ Correct \in DOMAIN tiers /\ Either \in DOMAIN tiers /\ OverlayTier \in DOMAIN tiers
      /\ VolTier \in DOMAIN tiers
      /\ Correct \in Nat /\ Either \in Nat /\ OverlayTier \in Nat /\ VolTier \in Nat
      /\ VolTier >= 1
      /\ OverlayTier = IF Correct = 1 THEN 1 ELSE Correct - 1
      /\ EitherTier = tiers[Either]
  BY TierFacts, EitherIs
<1>2. Correct <= Either
  BY EitherOrCorrect
<1>3. tiers[OverlayTier].perp = tiers[Either].perp
  BY <1>1, TierRates DEF Overlay
<1>4. tiers[OverlayTier].perp \in Nat /\ tiers[Either].level \in Nat /\ tiers[VolTier].level \in Nat
  BY <1>1, TierRates
<1>5. ~(OverlayTier < Either)
  BY <1>1, <1>3, <1>4, DeeperIsCheaper
<1>6. Either = 1
  BY <1>1, <1>2, <1>5
<1>7. tiers[Either].level <= tiers[VolTier].level
  BY <1>1, <1>6, DeeperIsCheaper
<1>8. QED
  BY <1>1, <1>4, <1>7

\* When it is red all the same, it is for one of the reasons stated.
LEMMA RedNimIsExplained ==
    ASSUME TierTypeOK, PlaceInv, task = "nim", volume = counted, active, fault = "none", Graded,
           Aim # 0, nim >= 100 * tiers[Aim].nim_min, ~Trails,
           \A i \in DOMAIN tiers : i > 1 => tiers[i].nim_min > 0,
           ~(standard["perp"] <= Overlay("perp")),
           rate \in {BestOf(0, "perp"), BestOf(VolTier, "perp")}
    PROVE  /\ EitherTier.level > tiers[VolTier].level
           /\ Overlay("perp") = EitherTier.perp
           /\ IsBestOf
           /\ Effective("perp") < rate
<1>1. /\ Aim \in DOMAIN tiers /\ Aim \in Nat /\ OverlayTier = Correct
      /\ Correct \in DOMAIN tiers /\ Correct \in Nat /\ Correct # 0
      /\ VolTier \in DOMAIN tiers /\ VolTier \in Nat /\ VolTier # 0
  BY TierFacts
<1>2. Either = Correct /\ EitherTier = tiers[Correct]
  BY EitherOrCorrect, EitherIs
<1>3. tiers[Aim].level > tiers[VolTier].level /\ tiers[Aim].nim_min > 0
  BY NimAim
<1>4. Aim <= Correct
  BY <1>1, <1>3, CorrectIs
<1>5. /\ tiers[Correct].perp \in Nat /\ tiers[VolTier].perp \in Nat /\ standard["perp"] \in Nat
      /\ tiers[Correct].level \in Nat /\ tiers[VolTier].level \in Nat /\ tiers[Aim].level \in Nat
      /\ tiers[Correct]["perp"] = tiers[Correct].perp
  BY <1>1, TierRates, StandardRates
<1>6. tiers[Aim].level <= tiers[Correct].level
  BY <1>1, <1>4, DeeperIsCheaper
<1>7. VolTier < Correct
  <2>1. ~(Aim <= VolTier)
    <3>1. Aim <= VolTier => tiers[Aim].level <= tiers[VolTier].level
      BY <1>1, DeeperIsCheaper
    <3>2. QED
      BY <1>3, <1>5, <3>1
  <2>2. QED
    BY <1>1, <1>4, <2>1
<1>8. tiers[Correct].perp < tiers[VolTier].perp
  BY <1>1, <1>7, DeeperIsCheaper
<1>9. Overlay("perp") = tiers[Correct].perp /\ tiers[Correct].perp < standard["perp"]
  BY <1>1, <1>5 DEF Overlay
<1>10. Effective("perp") = tiers[Correct].perp
  <2>1. Effective("perp") = BestOf(Correct, "perp")
    BY <1>1 DEF Effective, Trails
  <2>2. QED
    BY <1>1, <1>5, <1>9, <2>1, BestOfIs
<1>11. IsBestOf
  BY <1>5, <1>9, <1>10 DEF IsBestOf, Lower
<1>12. rate = standard["perp"] \/ rate = tiers[VolTier].perp
  <2>1. BestOf(0, "perp") = standard["perp"]
    BY DEF BestOf
  <2>2. BestOf(VolTier, "perp") = IF standard["perp"] < tiers[VolTier].perp
                                  THEN standard["perp"] ELSE tiers[VolTier].perp
    BY <1>1, BestOfIs
  <2>3. QED
    BY <2>1, <2>2
<1>13. QED
  BY <1>2, <1>3, <1>5, <1>6, <1>8, <1>9, <1>10, <1>11, <1>12

LEMMA JudgeNimInv ==
    ASSUME TierIInv, JudgeNim
    PROVE  TierIInv'
<1> DEFINE right == /\ EitherTier.level > tiers[VolTier].level
                    /\ Overlay("perp") = EitherTier.perp
                    /\ IsBestOf
                    /\ Effective("perp") < rate
<1>1. /\ pc = "after" /\ Looks /\ UNCHANGED <<volume, rate, pending>>
      /\ Verdict(1, IF right THEN "passed" ELSE "failed", "over")
  BY DEF JudgeNim, Asserts
<1>2. /\ task = "nim" /\ Common /\ NimPart /\ TierTypeOK /\ PlaceInv /\ pc \notin DrivePlaces
      /\ pc \in NimPlaces /\ volume = 0 /\ counted = 0
  BY <1>1, NimPlace DEF NimPlaces
<1>3. /\ pc' = "over" /\ result' \in [Phase -> Outcomes]
      /\ result'[1] = (IF right THEN "passed" ELSE "failed")
  <2>1. 1 \in Phase /\ (IF right THEN "passed" ELSE "failed") \in Outcomes
    BY DEF Phase, Outcomes
  <2> HIDE DEF right
  <2>2. QED
    BY <1>1, <1>2, <2>1, VerdictIs
<1>4. PlaceInv' /\ pc' \notin DrivePlaces
  BY <1>1, <1>2, <1>3, NimGoesOn DEF NimPlaces, Looks
<1>5. Common'
  <2>1. volume' = 0 /\ volume' \in Nat /\ rate' \in Nat /\ pending' \in BOOLEAN
    BY <1>1, <1>2, AccountTyped
  <2>2. QED
    BY <1>1, <1>2, <1>3, <1>4, <2>1, LooksCommon
<1>6. /\ task' = task /\ tiers' = tiers /\ fault' = fault
      /\ standard' = standard /\ nim' = nim /\ Aim' = Aim /\ rate' = rate
      /\ Graded' = Graded /\ RightOverlay' = RightOverlay /\ Trails' = Trails
      /\ Effective("perp")' = Effective("perp") /\ Overlay("perp")' = Overlay("perp")
  BY <1>1, <1>2, NimSame
<1>7. /\ active /\ fault # "inactive" /\ Aim # 0
      /\ fault = "standardKept" => rate = standard["perp"]
      /\ fault = "none" => rate \in {BestOf(0, "perp"), BestOf(VolTier, "perp")}
      /\ nim >= 100 * tiers[Aim].nim_min
  BY <1>1, <1>2 DEF NimPart, NimSeen
<1>8. right => RightOverlay /\ fault # "standardKept" /\ Effective("perp") < rate
  <2> SUFFICES ASSUME right
               PROVE  RightOverlay /\ fault # "standardKept"
    OBVIOUS
  <2>1. Graded => fault # "oneBelow"
    BY <1>2, <1>7, RightNimIsEarned
  <2>2. fault # "standardKept"
    <3>1. fault = "standardKept" => Effective("perp") = rate
      BY <1>7 DEF Effective
    <3>2. rate \in Nat
      BY <1>2, AccountTyped
    <3>3. QED
      BY <3>1, <3>2
  <2>3. QED
    BY <1>7, <2>1, <2>2 DEF RightOverlay
<1>9. fault = "none" /\ Graded =>
        \/ right \/ Aim = 0 \/ Trails
        \/ \E i \in DOMAIN tiers : i > 1 /\ tiers[i].nim_min = 0
        \/ standard["perp"] <= Overlay("perp")
  <2> SUFFICES ASSUME fault = "none", Graded, ~Trails,
                      ~\E i \in DOMAIN tiers : i > 1 /\ tiers[i].nim_min = 0,
                      ~(standard["perp"] <= Overlay("perp"))
               PROVE  right
    OBVIOUS
  <2>1. \A i \in DOMAIN tiers : i > 1 => tiers[i].nim_min > 0
    BY <1>2, TierRates
  <2>2. QED
    BY <1>2, <1>7, <2>1, RedNimIsExplained
<1> HIDE DEF right
<1>10. NimPart'
  BY <1>3, <1>6, <1>7, <1>8, <1>9 DEF NimPart, NimSeen, NimEarned, NimAlarms
<1>11. QED
  BY <1>2, <1>5, <1>6, <1>10, NimStep

-----------------------------------------------------------------------------
(* The trade tests.                                                        *)

LEMMA TradePlace ==
    ASSUME TierIInv, pc \in {"before", "accrue"} \/ (task = "trade" /\ pc \in {"fill", "judge"})
    PROVE  /\ task = "trade" /\ Common /\ TradePart /\ TierTypeOK /\ PlaceInv
           /\ pc \notin DrivePlaces /\ DriverIdle /\ result[1] = "none"
<1>1. Common /\ TradePart /\ TierTypeOK /\ PlaceInv
  BY Parts DEF Common
<1>2. task = "trade" /\ pc \notin DrivePlaces
  BY <1>1 DEF PlaceInv, TierTypeOK, BeforeReturn, DrivePlaces
<1>3. DriverIdle /\ result[1] = "none"
  BY <1>1, <1>2 DEF PlaceInv
<1>4. QED
  BY <1>1, <1>2, <1>3

LEMMA TradeGoesOn ==
    ASSUME TierIInv, pc \in {"before", "accrue"} \/ (task = "trade" /\ pc \in {"fill", "judge"}),
           UNCHANGED <<exchange, local, chosen, account>>,
           pc' \in {"fill", "judge", "accrue", "over"}, pc' # "over" => result'[1] = "none"
    PROVE  PlaceInv' /\ pc' \notin DrivePlaces
<1>1. task = "trade" /\ PlaceInv /\ pc \notin DrivePlaces
  BY TradePlace
<1>2. pc' \notin DrivePlaces
  BY DEF DrivePlaces
<1>3. DriverIdle'
  BY <1>1, <1>2, QuietDriver
<1>4. tiers' = tiers /\ task' = task /\ standard' = standard
  BY DEF chosen, account
<1>5. PlaceInv'
  BY <1>1, <1>3, <1>4 DEF PlaceInv
<1>6. QED
  BY <1>2, <1>5

\* Below the first tier, and where the standard one is as good, there is one rate.
LEMMA OneRate ==
    ASSUME Common, ~(OverlayTier > 1), ~(standard["perp"] > tiers[1].perp)
    PROVE  /\ BestOf(applied, "perp") = standard["perp"]
           /\ BestOf(OverlayTier, "perp") = standard["perp"]
           /\ BestOf(0, "perp") = standard["perp"]
<1>1. TierTypeOK /\ PlaceInv /\ AccountInv
  BY DEF Common
<1>2. /\ 1 \in DOMAIN tiers /\ OverlayTier \in Nat /\ OverlayTier >= 1
      /\ applied \in Nat
  BY <1>1, TierFacts, AccountTyped
<1>3. standard["perp"] \in Nat /\ tiers[1].perp \in Nat
  BY <1>1, <1>2, TierRates, StandardRates
<1>4. OverlayTier = 1 /\ applied \in {0, 1}
  BY <1>1, <1>2 DEF AccountInv
<1>5. BestOf(0, "perp") = standard["perp"]
  BY DEF BestOf
<1>6. BestOf(1, "perp") = standard["perp"]
  BY <1>1, <1>2, <1>3, BestOfIs
<1>7. QED
  BY <1>4, <1>5, <1>6

LEMMA ReadBeforeInv ==
    ASSUME TierIInv, ReadBefore
    PROVE  TierIInv'
<1>1. /\ pc = "before" /\ pc' = "fill" /\ Looks /\ UNCHANGED <<result, rate>>
      /\ volume' = ShownVolume /\ pending' = (ShownVolume < earned)
  BY DEF ReadBefore
<1>2. /\ task = "trade" /\ Common /\ TierTypeOK /\ pc \notin DrivePlaces /\ result[1] = "none"
      /\ result' \in [Phase -> Outcomes]
  BY <1>1, TradePlace, OldResults
<1>3. PlaceInv' /\ pc' \notin DrivePlaces
  BY <1>1, <1>2, TradeGoesOn DEF Looks
<1>4. /\ counted \in Nat /\ earned \in Nat /\ counted <= earned
      /\ ShownVolume \in Nat /\ ShownVolume <= earned
  <2>1. counted \in Nat /\ earned \in Nat /\ counted <= earned
    BY <1>2, AccountTyped
  <2>2. QED
    BY <2>1 DEF ShownVolume
<1>5. Common'
  <2>1. volume' \in Nat /\ rate' \in Nat /\ pending' \in BOOLEAN
    BY <1>1, <1>2, <1>4, AccountTyped
  <2>2. QED
    BY <1>1, <1>2, <1>3, <2>1, LooksCommon
<1>6. task' = task /\ earned' = earned /\ counted' = counted
  BY <1>1 DEF Looks, chosen, ledger
<1>7. ~pending' => volume' = earned /\ counted <= volume'
  <2>1. ~pending' => ~(ShownVolume < earned)
    BY <1>1, Zenon
  <2>2. QED
    BY <1>1, <1>4, <2>1
<1>8. TradePart'
  BY <1>1, <1>2, <1>6, <1>7 DEF TradePart, TradeSeen, TradeEarned, TradeAlarms
<1>9. QED
  BY <1>2, <1>5, <1>6, <1>8, TradeStep

LEMMA TakeTradeInv ==
    ASSUME TierIInv, TakeFill, task = "trade"
    PROVE  TierIInv'
<1>1. /\ pc = "fill"
      /\ UNCHANGED <<exchange, local, chosen, account, late, counted, deposited, nim, hours,
                     volume, pending>>
      /\ \/ rate' \in Charged("perp") /\ pc' = "judge" /\ UNCHANGED result /\ earned' = earned + 1
         \/ Verdict(1, "gaveUp", "over") /\ UNCHANGED rate
  BY DEF TakeFill, FillKind, FillPhase
<1>2. Common /\ TradePart /\ TierTypeOK /\ PlaceInv /\ pc \notin DrivePlaces /\ result[1] = "none"
  BY <1>1, TradePlace
<1>3. /\ pc' \in {"judge", "over"} /\ result' \in [Phase -> Outcomes]
      /\ result'[1] # "passed" /\ result'[1] # "failed"
      /\ pc' = "judge" => /\ rate' \in Charged("perp") /\ result'[1] = "none"
                          /\ earned' = earned + 1
  <2>1. CASE rate' \in Charged("perp") /\ pc' = "judge" /\ UNCHANGED result /\ earned' = earned + 1
    BY <1>2, <2>1, OldResults
  <2>2. CASE Verdict(1, "gaveUp", "over")
    <3>1. 1 \in Phase /\ "gaveUp" \in Outcomes
      BY DEF Phase, Outcomes
    <3>2. pc' = "over" /\ result' \in [Phase -> Outcomes] /\ result'[1] = "gaveUp"
      BY <1>2, <2>2, <3>1, VerdictIs
    <3>3. QED
      BY <3>2
  <2>3. QED
    BY <1>1, <2>1, <2>2
<1>4. PlaceInv' /\ pc' \notin DrivePlaces
  BY <1>1, <1>2, <1>3, TradeGoesOn
<1>5. Common'
  BY <1>2, <1>3, <1>4, FillCommon
<1>6. /\ task' = task /\ fault' = fault /\ OverlayTier' = OverlayTier
      /\ standard' = standard /\ tiers' = tiers
  <2>1. UNCHANGED <<chosen, account, counted, nim>>
    BY <1>1
  <2>2. QED
    BY <2>1, SameAccount DEF chosen, account
<1>7. pc' = "judge" /\ fault = "none" =>
        OverlayTier > 1 \/ standard["perp"] > tiers[1].perp \/ rate' = standard["perp"]
  <2> SUFFICES ASSUME pc' = "judge", fault = "none",
                      ~(OverlayTier > 1), ~(standard["perp"] > tiers[1].perp)
               PROVE  rate' = standard["perp"]
    OBVIOUS
  <2>1. \/ rate' = BestOf(applied, "perp")
        \/ rate' = BestOf(OverlayTier, "perp")
        \/ rate' = BestOf(0, "perp")
    <3>1. "perp" \in Rates
      BY DEF Rates
    <3>2. rate' \in Charged("perp")
      BY <1>3
    <3>3. QED
      BY <1>2, <3>1, <3>2, ChargedIs
  <2>2. QED
    BY <1>2, <2>1, OneRate
<1>8. TradePart'
  BY <1>1, <1>2, <1>3, <1>6, <1>7 DEF TradePart, TradeSeen, TradeEarned, TradeAlarms
<1>9. QED
  BY <1>5, <1>6, <1>8, TradeStep

LEMMA JudgeTradeInv ==
    ASSUME TierIInv, JudgeTrade
    PROVE  TierIInv'
<1>1. /\ pc = "judge" /\ task = "trade" /\ Looks /\ UNCHANGED <<volume, rate, pending>>
      /\ \/ rate = Effective("perp") /\ pc' = "accrue" /\ UNCHANGED result
         \/ rate # Effective("perp") /\ Verdict(1, "failed", "over")
  BY DEF JudgeTrade
<1>2. Common /\ TradePart /\ TierTypeOK /\ PlaceInv /\ pc \notin DrivePlaces /\ result[1] = "none"
  BY <1>1, TradePlace
<1>3. /\ pc' \in {"accrue", "over"} /\ result' \in [Phase -> Outcomes]
      /\ result'[1] # "passed" /\ (result'[1] = "failed" => rate # Effective("perp"))
      /\ pc' = "accrue" => result'[1] = "none"
  <2>1. CASE pc' = "accrue" /\ UNCHANGED result
    BY <1>2, <2>1, OldResults
  <2>2. CASE rate # Effective("perp") /\ Verdict(1, "failed", "over")
    <3>1. 1 \in Phase /\ "failed" \in Outcomes
      BY DEF Phase, Outcomes
    <3>2. pc' = "over" /\ result' \in [Phase -> Outcomes] /\ result'[1] = "failed"
      BY <1>2, <2>2, <3>1, VerdictIs
    <3>3. QED
      BY <2>2, <3>2
  <2>3. QED
    BY <1>1, <2>1, <2>2
<1>4. PlaceInv' /\ pc' \notin DrivePlaces
  BY <1>1, <1>2, <1>3, TradeGoesOn DEF Looks
<1>5. Common'
  <2>1. volume' \in Nat /\ rate' \in Nat /\ pending' \in BOOLEAN
    BY <1>1, <1>2, AccountTyped
  <2>2. QED
    BY <1>1, <1>2, <1>3, <1>4, <2>1, LooksCommon
<1>6. /\ task' = task /\ fault' = fault /\ OverlayTier' = OverlayTier
      /\ standard' = standard /\ tiers' = tiers /\ earned' = earned /\ counted' = counted
  <2>1. UNCHANGED <<chosen, account, counted, nim, earned>>
    BY <1>1 DEF Looks, ledger
  <2>2. QED
    BY <2>1, SameAccount DEF chosen, account
<1>7. fault = "none" /\ rate # Effective("perp") =>
        OverlayTier > 1 \/ standard["perp"] > tiers[1].perp
  <2> SUFFICES ASSUME fault = "none", ~(OverlayTier > 1), ~(standard["perp"] > tiers[1].perp)
               PROVE  rate = Effective("perp")
    OBVIOUS
  <2>1. rate = standard["perp"]
    BY <1>1, <1>2 DEF TradePart, TradeSeen
  <2>2. Effective("perp") = BestOf(applied, "perp")
    BY DEF Effective
  <2>3. QED
    BY <1>2, <2>1, <2>2, OneRate
<1>8. TradePart'
  BY <1>1, <1>2, <1>3, <1>6, <1>7 DEF TradePart, TradeSeen, TradeEarned, TradeAlarms
<1>9. QED
  BY <1>1, <1>5, <1>6, <1>8, TradeStep

LEMMA AwaitAccrualInv ==
    ASSUME TierIInv, AwaitAccrual
    PROVE  TierIInv'
<1>1. /\ pc = "accrue" /\ Looks /\ UNCHANGED <<volume, rate, pending>>
      /\ \/ ShownVolume > volume /\ Verdict(1, "passed", "over")
         \/ Verdict(1, "gaveUp", "over")
  BY DEF AwaitAccrual
<1>2. /\ task = "trade" /\ Common /\ TradePart /\ TierTypeOK /\ pc \notin DrivePlaces
  BY <1>1, TradePlace
<1>3. /\ pc' = "over" /\ result' \in [Phase -> Outcomes]
      /\ result'[1] # "failed" /\ (result'[1] = "passed" => ShownVolume > volume)
  <2>1. 1 \in Phase /\ "gaveUp" \in Outcomes /\ "passed" \in Outcomes
    BY DEF Phase, Outcomes
  <2>2. CASE Verdict(1, "gaveUp", "over")
    <3>1. pc' = "over" /\ result' \in [Phase -> Outcomes] /\ result'[1] = "gaveUp"
      BY <1>2, <2>1, <2>2, VerdictIs
    <3>2. QED
      BY <3>1
  <2>3. CASE ShownVolume > volume /\ Verdict(1, "passed", "over")
    <3>1. pc' = "over" /\ result' \in [Phase -> Outcomes] /\ result'[1] = "passed"
      BY <1>2, <2>1, <2>3, VerdictIs
    <3>2. QED
      BY <2>3, <3>1
  <2>4. QED
    BY <1>1, <2>2, <2>3
<1>4. PlaceInv' /\ pc' \notin DrivePlaces
  BY <1>1, <1>2, <1>3, TradeGoesOn DEF Looks
<1>5. Common'
  <2>1. volume' \in Nat /\ rate' \in Nat /\ pending' \in BOOLEAN
    BY <1>1, <1>2, AccountTyped
  <2>2. QED
    BY <1>1, <1>2, <1>3, <1>4, <2>1, LooksCommon
<1>6. task' = task /\ fault' = fault /\ earned' = earned /\ counted' = counted
  BY <1>1 DEF Looks, chosen, account, ledger
<1>7. ShownVolume > volume => pending \/ (counted = earned /\ fault # "notCounted")
  <2> SUFFICES ASSUME ShownVolume > volume, ~pending
               PROVE  counted = earned /\ fault # "notCounted"
    OBVIOUS
  <2>1. counted \in Nat /\ earned \in Nat /\ counted <= earned /\ volume \in Nat
    BY <1>2, AccountTyped
  <2>2. counted > volume
    BY <2>1 DEF ShownVolume
  <2>3. volume + 1 = earned /\ (fault = "notCounted" => counted <= volume)
    BY <1>1, <1>2 DEF TradePart, TradeSeen
  <2>4. QED
    BY <2>1, <2>2, <2>3
<1>8. TradePart'
  BY <1>1, <1>3, <1>6, <1>7 DEF TradePart, TradeSeen, TradeEarned, TradeAlarms
<1>9. QED
  BY <1>2, <1>5, <1>6, <1>8, TradeStep

-----------------------------------------------------------------------------
(* The platform.                                                           *)

\* It leaves the program where it is, which is outside the drive.
LEMMA ProgramKeeps ==
    ASSUME TierIInv, Watched, Program, UNCHANGED <<standard, fault>>
    PROVE  /\ Common /\ TierTypeOK /\ PlaceInv /\ AccountInv
           /\ pc \notin DrivePlaces /\ pc # "over"
           /\ PlaceInv' /\ DriverIInv' /\ TargetInv'
           /\ pc' = pc /\ task' = task /\ tiers' = tiers /\ result' = result
           /\ volume' = volume /\ rate' = rate /\ pending' = pending
           /\ Aim' = Aim /\ Graded' = Graded /\ RightOverlay' = RightOverlay
           /\ BestOf(0, "perp")' = BestOf(0, "perp")
           /\ BestOf(VolTier, "perp")' = BestOf(VolTier, "perp")
           /\ BestOf(Aim, "spot")' = BestOf(Aim, "spot")
<1>1. Common /\ TierTypeOK /\ PlaceInv /\ AccountInv
  BY Parts DEF Common
<1>2. /\ UNCHANGED <<exchange, local, chosen>>
      /\ pc' = pc /\ task' = task /\ tiers' = tiers /\ result' = result
      /\ volume' = volume /\ rate' = rate /\ pending' = pending
      /\ standard' = standard /\ fault' = fault
  BY DEF Program, driver, chosen, test
<1>3. pc \notin BeforeReturn /\ pc \notin DrivePlaces /\ pc # "over"
  BY DEF Watched, BeforeReturn, DrivePlaces
<1>4. DriverIdle' /\ DriverIInv'
  BY <1>1, <1>2, <1>3, QuietDriver
<1>5. Aim' = Aim /\ Realizable' = Realizable /\ VolTier' = VolTier
  BY <1>2, SameAim
<1>6. PlaceInv'
  BY <1>1, <1>2, <1>3, <1>4, <1>5 DEF PlaceInv
<1>7. TargetInv'
  BY <1>2, <1>3 DEF TargetInv
<1>8. Graded' = Graded
  BY <1>2 DEF Graded
<1>9. QED
  BY <1>1, <1>2, <1>3, <1>4, <1>5, <1>6, <1>7, <1>8 DEF RightOverlay, BestOf

\* What settled stays settled when another tier is applied.
LEMMA StaysSettled ==
    ASSUME Common, Graded, SettledDown, Aim \in DOMAIN tiers,
           UNCHANGED <<tiers, standard, fault>>, Aim' = Aim,
           applied' = applied \/ applied' = OverlayTier
    PROVE  SettledDown'
<1>1. TierTypeOK /\ PlaceInv /\ AccountInv
  BY DEF Common
<1>2. CASE fault = "standardKept" \/ applied' = applied
  BY <1>2 DEF SettledDown, Effective, BestOf
<1>3. CASE fault # "standardKept" /\ applied' = OverlayTier
  <2>1. /\ OverlayTier \in DOMAIN tiers /\ applied \in Nat
        /\ applied # 0 => applied \in DOMAIN tiers /\ applied <= OverlayTier
    <3>1. applied # 0 => applied <= OverlayTier
      BY <1>1 DEF AccountInv
    <3>2. DOMAIN tiers = 1..Len(tiers) /\ Len(tiers) \in Nat /\ applied \in 0..Len(tiers)
      BY <1>1, AccountTyped, TierFacts
    <3>3. QED
      BY <1>1, <3>1, <3>2, TierFacts
  <2>2. BestOf(OverlayTier, "perp") <= BestOf(applied, "perp")
    <3>1. CASE applied = 0
      <4>1. BestOf(0, "perp") = standard["perp"]
        BY DEF BestOf
      <4>2. QED
        BY <1>1, <2>1, <3>1, <4>1, DeeperIsCheaper
    <3>2. CASE applied # 0
      BY <1>1, <2>1, <3>2, DeeperIsCheaper
    <3>3. QED
      BY <3>1, <3>2
  <2>3. BestOf(applied, "perp") <= tiers[Aim].perp
    BY <1>3 DEF SettledDown, Effective
  <2>4. /\ BestOf(OverlayTier, "perp") \in Nat /\ BestOf(applied, "perp") \in Nat
        /\ tiers[Aim].perp \in Nat
    <3>1. applied \in 0..Len(tiers) /\ OverlayTier \in 0..Len(tiers)
      BY <1>1, AccountTyped, TierFacts
    <3>2. QED
      BY <1>1, <3>1, RatesTyped, TierRates
  <2>5. BestOf(OverlayTier, "perp") <= tiers[Aim].perp
    BY <2>2, <2>3, <2>4
  <2>6. Effective("perp")' = BestOf(OverlayTier, "perp")
    BY <1>3 DEF Effective, BestOf
  <2>7. QED
    BY <2>5, <2>6 DEF SettledDown
<1>4. QED
  BY <1>2, <1>3

\* The platform only ever adds to what it has.
LEMMA PlatformAdds ==
    ASSUME TierIInv, Watched, Program, UNCHANGED <<standard, fault, deposited>>,
           earned' \in Nat, late' \in Nat, counted' \in Nat, counted' <= earned',
           nim' \in Nat, hours' \in 0..MaxHours, active' \in BOOLEAN,
           counted <= counted', nim <= nim', active => active',
           task # "flow" => late' = late /\ earned' = earned,
           fault = "notCounted" => counted' = counted,
           nim' # nim => pc \in {"balance", "after"},
           applied' = applied \/ (active /\ applied' = OverlayTier)
    PROVE  TierIInv'
<1>1. /\ Common /\ TierTypeOK /\ PlaceInv /\ AccountInv
      /\ pc \notin DrivePlaces /\ pc # "over"
      /\ PlaceInv' /\ DriverIInv' /\ TargetInv'
      /\ pc' = pc /\ task' = task /\ tiers' = tiers /\ result' = result
      /\ volume' = volume /\ rate' = rate /\ pending' = pending
      /\ Aim' = Aim /\ Graded' = Graded /\ RightOverlay' = RightOverlay
      /\ BestOf(0, "perp")' = BestOf(0, "perp")
      /\ BestOf(VolTier, "perp")' = BestOf(VolTier, "perp")
      /\ BestOf(Aim, "spot")' = BestOf(Aim, "spot")
  BY ProgramKeeps
<1>2. FlowPart /\ NimPart /\ TradePart
  BY Parts
<1>3. OverlayTier' >= OverlayTier /\ OverlayTier' \in 1..Len(tiers)
  BY <1>1, OverlayGrows
<1>4. OverlayTier \in 1..Len(tiers) /\ Len(tiers) \in Nat /\ OverlayTier \in Nat /\ OverlayTier' \in Nat
      /\ Aim \in Nat
  <2>1. OverlayTier \in 1..Len(tiers) /\ Len(tiers) \in Nat /\ Aim \in Nat
    BY <1>1, TierFacts
  <2>2. QED
    BY <1>3, <2>1
<1>5. applied' \in 0..Len(tiers) /\ applied \in Nat
  <2>1. applied \in 0..Len(tiers)
    BY <1>1, AccountTyped
  <2>2. QED
    BY <1>4, <2>1
<1>6. Common'
  <2>1. TierTypeOK'
    <3>1. counted' \in 0..earned'
      OBVIOUS
    <3>2. QED
      BY <1>1, <1>5, <3>1 DEF TierTypeOK
  <2>2. AccountInv'
    <3>1. applied' # 0 => active' /\ applied' <= OverlayTier'
      <4>1. CASE applied' = applied
        BY <1>1, <1>3, <1>4, <1>5, <4>1 DEF AccountInv
      <4>2. CASE active /\ applied' = OverlayTier
        BY <1>3, <1>4, <4>2
      <4>3. QED
        BY <4>1, <4>2
    <3>2. task # "nim" => nim' = 0
      <4>1. task = "nim" \/ pc \notin {"balance", "after"}
        BY <1>1 DEF PlaceInv, TierTypeOK, BeforeReturn, DrivePlaces
      <4>2. QED
        BY <1>1, <4>1 DEF AccountInv
    <3>3. QED
      BY <1>1, <3>1, <3>2 DEF AccountInv
  <2>3. QED
    BY <1>1, <2>1, <2>2 DEF Common
<1>7. Further => Further'
  BY <1>1, <1>3, <1>4 DEF Further
<1>8. CASE task = "flow"
  <2>1. Realizable /\ result[4] = "none" /\ Aim \in DOMAIN tiers
    <3>1. pc \notin BeforeReturn
      BY DEF Watched, BeforeReturn, DrivePlaces
    <3>2. Realizable /\ result[4] = "none"
      BY <1>1, <1>8, <3>1 DEF PlaceInv, BeforeReturn
    <3>3. QED
      BY <1>1, <3>2, TierFacts
  <2>2. counted >= tiers[Aim].vol_min => counted' >= tiers[Aim].vol_min
    <3>1. counted \in Nat /\ tiers[Aim].vol_min \in Nat
      BY <1>1, <2>1, AccountTyped, TierRates
    <3>2. QED
      BY <3>1
  <2>3. Graded /\ SettledDown => SettledDown'
    BY <1>1, <2>1, StaysSettled
  <2>4. FlowPart'
    BY <1>1, <1>2, <1>7, <1>8, <2>1, <2>2, <2>3 DEF FlowPart, FlowSeen, FlowEarned, FlowAlarms
  <2>5. QED
    BY <1>1, <1>6, <1>8, <2>4, FlowStep
<1>9. CASE task = "nim"
  <2>1. result[1] = "none" /\ earned' = 0 /\ counted = 0
    BY <1>1, <1>9, AccountTyped DEF PlaceInv, AccountInv
  <2>2. counted' = counted
    BY <2>1
  <2>3. nim' = nim => OverlayTier' = OverlayTier
    <3>1. nim' = nim => Correct' = Correct
      BY <1>1, <2>2 DEF Correct
    <3>2. QED
      BY <3>1 DEF OverlayTier
  <2>4. nim >= 100 * tiers[Aim].nim_min /\ Aim # 0 => nim' >= 100 * tiers[Aim].nim_min
    <3>1. Aim # 0 => Aim \in DOMAIN tiers
      BY <1>1, TierFacts
    <3>2. Aim # 0 => tiers[Aim].nim_min \in Nat
      BY <1>1, <3>1, TierRates
    <3>3. nim \in Nat
      BY <1>1, AccountTyped
    <3>4. QED
      BY <3>2, <3>3
  <2>5. NimSeen
    BY <1>2, <1>9 DEF NimPart
  <2>6. NimSeen'
    BY <1>1, <1>9, <2>3, <2>4, <2>5 DEF NimSeen
  <2>7. NimPart'
    BY <1>1, <2>1, <2>6 DEF NimPart, NimEarned, NimAlarms
  <2>8. QED
    BY <1>1, <1>6, <1>9, <2>7, NimStep
<1>10. CASE task = "trade"
  <2>1. result[1] = "none" /\ earned' = earned
    BY <1>1, <1>10 DEF PlaceInv
  <2>2. OverlayTier > 1 => OverlayTier' > 1
    BY <1>3, <1>4
  <2>3. TradePart'
    BY <1>1, <1>2, <1>10, <2>1, <2>2 DEF TradePart, TradeSeen, TradeEarned, TradeAlarms
  <2>4. QED
    BY <1>1, <1>6, <1>10, <2>3, TradeStep
<1>11. QED
  BY <1>1, <1>8, <1>9, <1>10, AccountTyped

LEMMA PlatformInv ==
    ASSUME TierIInv, Platform
    PROVE  TierIInv'
<1>1. Common /\ TierTypeOK /\ PlaceInv /\ AccountInv
  BY Parts DEF Common
<1>2. /\ earned \in Nat /\ late \in Nat /\ counted \in Nat /\ counted <= earned
      /\ nim \in Nat /\ active \in BOOLEAN /\ deposited \in Nat /\ MaxHours \in Nat
      /\ hours \in 0..MaxHours
  BY <1>1, AccountTyped, TierAssumption DEF TierAssumption, TierTypeOK
<1>3. CASE LateFill
  <2>1. /\ Watched /\ Program /\ UNCHANGED <<standard, fault, active, applied>>
        /\ UNCHANGED <<counted, deposited, nim, hours>>
        /\ late > 0 /\ late' = late - 1 /\ earned' = earned + 1
    BY <1>3 DEF LateFill, account
  <2>2. task = "flow"
    BY <1>1, <2>1 DEF AccountInv
  <2>3. late' \in Nat /\ earned' \in Nat /\ counted' <= earned'
    BY <1>2, <2>1
  <2>4. QED
    BY <1>2, <2>1, <2>2, <2>3, PlatformAdds
<1>4. CASE Count
  <2>1. /\ Watched /\ Program /\ UNCHANGED <<standard, fault, active, applied>>
        /\ UNCHANGED <<earned, late, deposited, nim, hours>>
        /\ fault # "notCounted" /\ counted' \in (counted + 1)..earned
    BY <1>4 DEF Count, account
  <2>2. counted' \in Nat /\ counted' <= earned' /\ counted <= counted'
    BY <1>2, <2>1
  <2>3. QED
    BY <1>2, <2>1, <2>2, PlatformAdds
<1>5. CASE Hour
  <2>1. /\ Watched /\ Program /\ UNCHANGED <<standard, fault, active, applied>>
        /\ UNCHANGED <<earned, late, counted, deposited>>
        /\ pc \in {"balance", "after"} /\ hours < MaxHours /\ hours' = hours + 1
        /\ nim' = nim + 105 * tiers[Aim].nim_min * deposited
    BY <1>5 DEF Hour, account
  <2>2. 105 * tiers[Aim].nim_min * deposited \in Nat
    <3>1. task = "nim"
      BY <1>1, <2>1 DEF PlaceInv, TierTypeOK, BeforeReturn, DrivePlaces
    <3>2. Aim # 0
      BY <2>1, <3>1 DEF TierIInv, NimSeen
    <3>3. Aim \in DOMAIN tiers
      BY <1>1, <3>2, TierFacts
    <3>4. 105 * tiers[Aim].nim_min \in Nat
      BY <1>1, <3>3, TierRates
    <3>5. \A a, b \in Nat : a * b \in Nat
      OBVIOUS
    <3>6. QED
      BY <1>2, <3>4, <3>5
  <2>3. nim' \in Nat /\ nim <= nim' /\ hours' \in 0..MaxHours
    BY <1>2, <2>1, <2>2
  <2>4. QED
    BY <1>2, <2>1, <2>3, PlatformAdds
<1>6. CASE Activate
  <2>1. /\ Watched /\ Program /\ UNCHANGED <<standard, fault, applied>>
        /\ UNCHANGED <<earned, late, counted, deposited, nim, hours>>
        /\ active' = TRUE
    BY <1>6 DEF Activate, ledger
  <2>2. active' \in BOOLEAN /\ active' /\ (active => active')
    BY <2>1, Zenon
  <2>3. QED
    BY <1>2, <2>1, <2>2, PlatformAdds
<1>7. CASE Apply
  <2>1. /\ Watched /\ Program /\ UNCHANGED <<standard, fault, active>>
        /\ UNCHANGED <<earned, late, counted, deposited, nim, hours>>
        /\ active /\ applied' = OverlayTier
    BY <1>7 DEF Apply, ledger
  <2>2. QED
    BY <1>2, <2>1, PlatformAdds
<1>8. QED
  BY <1>3, <1>4, <1>5, <1>6, <1>7 DEF Platform

-----------------------------------------------------------------------------
(* The first state, every step, and none.                                  *)

\* Sorting a schedule gives a schedule.
LEMMA SortedIsSchedule ==
    ASSUME NEW s \in Seq(Tier) \ {<<>>}, NEW ts \in CompetitionToTiers(s)
    PROVE  ts \in Seq(Tier) \ {<<>>}
<1> DEFINE n == Len(s)
<1>1. n \in Nat \ {0} /\ DOMAIN s = 1..n /\ \A i \in 1..n : s[i] \in Tier
  OBVIOUS
<1>2. PICK place \in [1..n -> 1..n] : ts = [i \in 1..n |-> s[place[i]]]
  BY <1>1 DEF CompetitionToTiers
<1> HIDE DEF n
<1>3. ts \in [1..n -> Tier]
  BY <1>1, <1>2
<1>4. DOMAIN ts = 1..n /\ ts \in Seq(Tier)
  BY <1>1, <1>3
<1>5. ts # <<>>
  <2>1. 1 \in DOMAIN ts
    BY <1>1, <1>4
  <2>2. DOMAIN <<>> = {}
    OBVIOUS
  <2>3. QED
    BY <2>1, <2>2
<1>6. QED
  BY <1>4, <1>5

LEMMA TierInitInv ==
    ASSUME TierInit
    PROVE  TierIInv
<1>1. /\ DriverIdle /\ task \in {"flow", "nim", "trade"}
      /\ pc \in {"schedule", "activate", "before"}
      /\ task = "flow" => pc = "schedule"
      /\ task = "nim" => pc = "activate"
      /\ task = "trade" => pc = "before"
      /\ counted \in 0..earned
      /\ late = 0 /\ deposited = 0 /\ nim = 0 /\ hours = 0 /\ active = FALSE /\ applied = 0
      /\ result = [n \in Phase |-> "none"] /\ volume = 0 /\ rate = 0 /\ pending = FALSE
  BY DEF TierInit
<1>2. fault \in Faults
  BY DEF TierInit, Faults
<1>3. standard \in [{"perp", "spot"} -> Nat]
  <2>1. [perp |-> 0, spot |-> 0] \in [{"perp", "spot"} -> Nat]
    OBVIOUS
  <2>2. standard = [perp |-> 0, spot |-> 0] \/ standard \in Standards
    BY DEF TierInit
  <2>3. QED
    BY <2>1, <2>2, TierAssumption DEF TierAssumption
<1>4. earned \in Nat /\ (task = "nim" => earned = 0)
  <2>1. earned \in 0..(IF task = "nim" THEN 0 ELSE EarlierVolume) /\ EarlierVolume \in Nat
    BY TierAssumption DEF TierInit, TierAssumption
  <2>2. QED
    BY <2>1
<1>5. tiers \in Seq(Tier) \ {<<>>}
  <2>1. PICK s \in Schedules : tiers \in CompetitionToTiers(s)
    BY DEF TierInit
  <2>2. s \in Seq(Tier) \ {<<>>}
    BY TierAssumption DEF TierAssumption
  <2>3. QED
    BY <2>1, <2>2, SortedIsSchedule
<1>6. Len(tiers) \in Nat
  BY <1>5
<1>7. /\ result \in [Phase -> Outcomes]
      /\ result[1] = "none" /\ result[2] = "none" /\ result[3] = "none" /\ result[4] = "none"
  BY <1>1 DEF Phase, Outcomes
<1>8. TierTypeOK
  <2>1. MaxDeposits \in Nat /\ MaxHours \in Nat
    BY TierAssumption DEF TierAssumption
  <2>2. deposited \in 0..MaxDeposits /\ hours \in 0..MaxHours /\ applied \in 0..Len(tiers)
    BY <1>1, <1>6, <2>1
  <2>3. late \in Nat /\ nim \in Nat /\ volume \in Nat /\ rate \in Nat
    BY <1>1
  <2>4. active \in BOOLEAN /\ pending \in BOOLEAN
    BY <1>1
  <2>5. QED
    BY <1>1, <1>2, <1>4, <1>7, <2>2, <2>3, <2>4 DEF TierTypeOK, Outcomes
<1>9. DriverIInv
  BY <1>1, Idle DEF InLeg
<1>10. PlaceInv
  <2>1. pc \notin DrivePlaces /\ (pc = "schedule" => pc \in BeforeReturn) /\ pc # "over"
    BY <1>1 DEF DrivePlaces, BeforeReturn
  <2>2. \A n \in 2..4 : result[n] = "none"
    BY <1>1 DEF Phase
  <2>3. QED
    BY <1>1, <1>3, <1>5, <1>7, <2>1, <2>2 DEF PlaceInv
<1>11. AccountInv /\ TargetInv
  BY <1>1, <1>4 DEF AccountInv, TargetInv, DrivePlaces
<1>12. FlowPart
  BY <1>1, <1>7 DEF FlowPart, FlowSeen, FlowEarned, FlowAlarms
<1>13. NimPart
  BY <1>1, <1>7 DEF NimPart, NimSeen, NimEarned, NimAlarms
<1>14. TradePart
  BY <1>1, <1>7 DEF TradePart, TradeSeen, TradeEarned, TradeAlarms
<1>15. QED
  BY <1>8, <1>9, <1>10, <1>11, <1>12, <1>13, <1>14, Parts DEF Common

LEMMA TestInv ==
    ASSUME TierIInv, Test
    PROVE  TierIInv'
<1>1. CASE TakeFill
  <2>1. task # "nim"
    BY <1>1 DEF TakeFill, TierIInv, PlaceInv
  <2>2. task \in {"flow", "nim", "trade"}
    BY DEF TierIInv, TierInv, TierTypeOK
  <2>3. QED
    BY <1>1, <2>1, <2>2, TakeSpotInv, TakeTradeInv
<1>2. CASE ~TakeFill
  BY <1>2, CheckScheduleInv, ReadStartInv, ReturnedInv, AwaitIngestInv, SnapshotInv,
     AwaitSettledInv, RecheckInv, JudgeSpotInv, ReadBeforeInv, JudgeTradeInv, AwaitAccrualInv,
     AwaitActiveInv, ReadPreInv, DepositNimInv, AwaitNimInv, JudgeNimInv
  DEF Test
<1>3. QED
  BY <1>1, <1>2

LEMMA SameDriver ==
    ASSUME DriverIInv, UNCHANGED <<exchange, driver>>
    PROVE  DriverIInv'
<1>1. /\ pos' = pos /\ orders' = orders /\ repeats' = repeats /\ pc' = pc /\ leg' = leg /\ amount' = amount
      /\ taker' = taker /\ target' = target /\ traded' = traded /\ cycles' = cycles
      /\ skipped' = skipped
  BY DEF exchange, driver, local
<1>2. /\ ExchangeInv' /\ SubjectVolume' = SubjectVolume
      /\ \A p \in Party : \A l \in Leg :
           Opened(p, l)' = Opened(p, l) /\ Closed(p, l)' = Closed(p, l)
  BY <1>1, SameBook DEF DriverIInv
<1>3. DriverInv'
  BY <1>1, <1>2 DEF DriverIInv, DriverInv, DriverTypeOK, ExchangeInv, LegsAccountedFor,
     OvershootBounded, VolumeIsReal
<1>4. CycleInv'
  BY <1>1 DEF DriverIInv, CycleInv, InLeg, LegsToGo
<1>5. AwaitedInv'
  <2>1. SubjectOrders' = SubjectOrders
    BY <1>1 DEF SubjectOrders
  <2>2. QED
    BY <1>1, <1>2, <2>1 DEF DriverIInv, AwaitedInv, Filled
<1>6. OrdersMatch'
  <2>1. \A p \in Party : \A l \in Leg : Outstanding(p, l)' = Outstanding(p, l)
    BY <1>1 DEF Outstanding, Unclosed
  <2>2. pc # "raised" /\ repeats = 0 => \A p \in Party : \A l \in Leg : Opened(p, l) = Closed(p, l) + Outstanding(p, l)
    BY OrdersMatchIs DEF DriverIInv
  <2>3. pc' # "raised" /\ repeats' = 0 => \A p \in Party : \A l \in Leg :
          Opened(p, l)' = Closed(p, l)' + Outstanding(p, l)'
    BY <1>1, <1>2, <2>1, <2>2
  <2>4. QED
    BY <2>3 DEF OrdersMatch, Opened, Closed
<1>7. QED
  BY <1>2, <1>3, <1>4, <1>5, <1>6 DEF DriverIInv

LEMMA TierStutters ==
    ASSUME TierIInv, UNCHANGED tierVars
    PROVE  TierIInv'
<1>1. /\ UNCHANGED <<exchange, driver, local, chosen, account, counted, nim>>
      /\ pc' = pc /\ target' = target /\ task' = task /\ tiers' = tiers
      /\ standard' = standard /\ fault' = fault /\ active' = active /\ applied' = applied
      /\ earned' = earned /\ late' = late /\ counted' = counted /\ deposited' = deposited
      /\ nim' = nim /\ hours' = hours
      /\ result' = result /\ volume' = volume /\ rate' = rate /\ pending' = pending
  BY DEF tierVars, driver, local, chosen, account, ledger, test
<1>2. Common /\ FlowPart /\ NimPart /\ TradePart
  BY Parts
<1>3. /\ Aim' = Aim /\ VolTier' = VolTier /\ Realizable' = Realizable
      /\ OverlayTier' = OverlayTier /\ Graded' = Graded /\ RightOverlay' = RightOverlay
      /\ Effective("perp")' = Effective("perp")
      /\ Overlay("perp")' = Overlay("perp") /\ Overlay("spot")' = Overlay("spot")
  BY <1>1, SameAim, SameAccount
<1>4. /\ SettledDown' = SettledDown /\ Further' = Further /\ Trails' = Trails
      /\ BestOf(0, "perp")' = BestOf(0, "perp")
      /\ BestOf(VolTier, "perp")' = BestOf(VolTier, "perp")
      /\ BestOf(Aim, "spot")' = BestOf(Aim, "spot")
  BY <1>1, <1>3 DEF SettledDown, Further, Trails, BestOf
<1>5. Common'
  <2>1. DriverIInv'
    BY <1>1, <1>2, SameDriver DEF Common
  <2>2. TierTypeOK'
    BY <1>1, <1>2 DEF Common, TierTypeOK
  <2>3. DriverIdle' = DriverIdle
    BY <1>1 DEF DriverIdle, exchange, local
  <2>4. PlaceInv'
    BY <1>1, <1>2, <1>3, <2>3 DEF Common, PlaceInv
  <2>5. AccountInv' /\ TargetInv'
    BY <1>1, <1>2, <1>3 DEF Common, AccountInv, TargetInv
  <2>6. QED
    BY <2>1, <2>2, <2>4, <2>5 DEF Common
<1>6. FlowPart'
  BY <1>1, <1>2, <1>3, <1>4 DEF FlowPart, FlowSeen, FlowEarned, FlowAlarms
<1>7. NimPart'
  BY <1>1, <1>2, <1>3, <1>4 DEF NimPart, NimSeen, NimEarned, NimAlarms
<1>8. TradePart'
  BY <1>1, <1>2, <1>3 DEF TradePart, TradeSeen, TradeEarned, TradeAlarms
<1>9. QED
  BY <1>5, <1>6, <1>7, <1>8, Parts, PTL

LEMMA TierStepInv ==
    ASSUME TierIInv, [TierNext]_tierVars
    PROVE  TierIInv'
BY DrivingInv, TestInv, PlatformInv, TierStutters DEF TierNext

\* Where the volume driven suffices.
LEMMA TargetIsMet ==
    ASSUME TierIInv
    PROVE  TargetSuffices
<1> SUFFICES ASSUME pc = "done", traded >= target
             PROVE  earned + SubjectVolume >= tiers[Aim].vol_min
  BY DEF TargetSuffices
<1>1. target + earned >= tiers[Aim].vol_min
  BY DEF TierIInv, TargetInv, DrivePlaces
<1>2. traded <= SubjectVolume /\ traded \in Nat /\ SubjectVolume \in Nat /\ target \in Nat
  BY DriverFacts DEF TierIInv
<1>3. earned \in Nat /\ tiers[Aim].vol_min \in Nat
  <2>1. TierTypeOK /\ PlaceInv
    BY DEF TierIInv, TierInv
  <2>2. task = "flow" /\ pc # "over" /\ pc # "schedule"
    BY <2>1 DEF PlaceInv, TierTypeOK
  <2>3. Aim \in DOMAIN tiers
    BY <2>1, <2>2, TierFacts DEF PlaceInv
  <2>4. QED
    BY <2>1, <2>3, AccountTyped, TierRates
<1>4. QED
  BY <1>1, <1>2, <1>3

-----------------------------------------------------------------------------
(* What follows for every run.                                             *)

LEMMA TierInduction == TierSpec => []TierIInv
<1>1. TierInit => TierIInv
  BY TierInitInv
<1>2. TierIInv /\ [TierNext]_tierVars => TierIInv'
  BY TierStepInv
<1>3. QED
  BY <1>1, <1>2, PTL DEF TierSpec

\* The types, and the counters of drive_competition_volume (lib/fee_flow.py) for every
\* target the suite computes and every order in which the exchange fills: no more cycles
\* than allowed, every leg told as volume or as skipped, the target overshot by less than
\* one cycle, and no volume reported that was not filled.
THEOREM TierInvariant == TierSpec => []TierInv
<1>1. TierIInv => TierInv
  BY DEF TierIInv
<1>2. QED
  BY <1>1, TierInduction, PTL

\* The hedge of drive_competition_volume (lib/fee_flow.py): once every order it placed is
\* filled whole, both accounts are flat at the end of a cycle, whoever filled them and in
\* whatever order.
THEOREM FilledCyclesAreFlat == TierSpec => []FilledCyclesEndFlat
<1>1. TierIInv => FilledCyclesEndFlat
  BY FilledIsFlat DEF TierIInv
<1>2. QED
  BY <1>1, TierInduction, PTL

\* The gap that phase 2 of test_perp_fee_tier.py computes is enough: a drive that stopped
\* at its target has traded what the target tier asks for, also when the start volume was
\* read before the platform had counted it, or before the overlay was active.
THEOREM TargetIsEnough == TierSpec => []TargetSuffices
<1>1. TierIInv => TargetSuffices
  BY TargetIsMet
<1>2. QED
  BY <1>1, TierInduction, PTL

\* A green phase of the fee-tier flow, a green test_perp_nim_tier.py and a green trade test
\* have shown what they are about, on any platform, with any of the faults.
THEOREM PassesEarned == TierSpec => []PassesAreEarned
<1>1. TierIInv => PassesAreEarned
  BY DEF TierIInv
<1>2. QED
  BY <1>1, TierInduction, PTL

\* On a platform without a fault, whose tiers get cheaper with the volume, no assertion
\* of those tests fails but for one of the reasons listed.
THEOREM AlarmsAreExplained == TierSpec => []AlarmsExplained
<1>1. TierIInv => AlarmsExplained
  BY DEF TierIInv
<1>2. QED
  BY <1>1, TierInduction, PTL
=============================================================================
