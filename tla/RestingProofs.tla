--------------------------- MODULE RestingProofs ---------------------------
(***************************************************************************)
(* Proofs about the resting orders: the size of an order (Sizing), the     *)
(* price of a maker's quote (MakerQuote) and the two tests that let an     *)
(* order rest and cancel it (RestingOrder), for every book, market list,   *)
(* notional and number of replicas.                                        *)
(***************************************************************************)
EXTENDS RestingOrder, FiniteSetTheorems, WellFoundedInduction, TLAPS

(***************************************************************************)
(* The least element of a set of naturals and the greatest of a finite     *)
(* one.                                                                    *)
(***************************************************************************)
LEMMA NatHasLeast ==
    ASSUME NEW S \in SUBSET Nat, S # {}
    PROVE  \E x \in S : \A y \in S : x <= y
<1> DEFINE R == OpToRel(<, Nat)
<1>1. IsWellFoundedOn(R, Nat)
  BY NatLessThanWellFounded
<1>2. \A x, y \in Nat : y < x => <<y, x>> \in R
  BY DEF OpToRel
<1> HIDE DEF R
<1>3. PICK x \in S : \A y \in S : ~(<<y, x>> \in R)
  BY <1>1, WFMin
<1>4. \A y \in S : x \in Nat /\ y \in Nat /\ ~(y < x)
  BY <1>2, <1>3
<1> QED
  BY <1>4

LEMMA MinIsLeast ==
    ASSUME NEW S \in SUBSET Nat, S # {}
    PROVE  Min(S) \in S /\ \A y \in S : Min(S) <= y
BY NatHasLeast DEF Min

\* A smallest counterexample would not be empty, and would have a bound with any one
\* element less.
LEMMA FiniteIsBounded ==
    ASSUME NEW S \in SUBSET Nat, IsFiniteSet(S)
    PROVE  \E n \in Nat : \A y \in S : y <= n
<1> DEFINE Bounded(T) == \E n \in Nat : \A y \in T : y <= n
           Bad == {T \in FiniteSubsetsOf(S) : ~Bounded(T)}
<1> SUFFICES ASSUME ~Bounded(S) PROVE FALSE
  OBVIOUS
<1>1. S \in Bad
  BY DEF FiniteSubsetsOf
<1>2. PICK T \in Bad : \A U \in Bad : ~(<<U, T>> \in StrictSubsetOrdering(S))
  <2>1. Bad \subseteq FiniteSubsetsOf(S) /\ Bad # {}
    BY <1>1
  <2> HIDE DEF Bad
  <2> QED
    BY <2>1, FS_StrictSubsetOrderingWellFounded, WFMin
<1>3. T \in SUBSET S /\ IsFiniteSet(T) /\ ~Bounded(T)
  BY DEF FiniteSubsetsOf
<1>4. PICK z \in T : z \in Nat
  BY <1>3
<1> DEFINE U == T \ {z}
<1>5. U \in FiniteSubsetsOf(S)
  BY <1>3, FS_Subset DEF FiniteSubsetsOf
<1>6. <<U, T>> \in StrictSubsetOrdering(S)
  BY <1>3, <1>4 DEF StrictSubsetOrdering
<1>7. PICK n \in Nat : \A y \in U : y <= n
  BY <1>2, <1>5, <1>6
<1>8. \A y \in T : y <= n + z
  <2> SUFFICES ASSUME NEW y \in T PROVE y <= n + z
    OBVIOUS
  <2>1. y \in Nat /\ (y = z \/ y <= n)
    BY <1>3, <1>7
  <2> QED
    BY <1>4, <2>1
<1> QED
  BY <1>3, <1>4, <1>8

LEMMA MaxIsGreatest ==
    ASSUME NEW S \in SUBSET Nat, IsFiniteSet(S), S # {}
    PROVE  Max(S) \in S /\ \A y \in S : Max(S) >= y
<1>1. PICK top \in Nat : \A y \in S : y <= top
  BY FiniteIsBounded
<1> DEFINE Below == {n \in Nat : \A y \in S : y <= n}
<1>2. PICK n \in Below : \A m \in Below : n <= m
  BY <1>1, NatHasLeast
<1>3. n \in S
  <2> SUFFICES ASSUME n \notin S PROVE FALSE
    OBVIOUS
  <2>1. PICK z \in S : TRUE
    OBVIOUS
  <2>2. n > 0
    BY <1>2, <2>1
  <2>3. \A y \in S : y \in Nat /\ y <= n /\ y # n
    BY <1>2
  <2>4. \A y \in S : y <= n - 1
    BY <2>3, <1>2
  <2>5. n - 1 \in Below
    BY <2>2, <2>4, <1>2
  <2> QED
    BY <1>2, <2>5
<1>4. \A y \in S : n >= y
  BY <1>2
<1> QED
  BY <1>3, <1>4 DEF Max

-----------------------------------------------------------------------------
(***************************************************************************)
(* Arithmetic of Sizing.                                                   *)
(***************************************************************************)
LEMMA CeilDivFacts ==
    ASSUME NEW a \in Nat, NEW b \in Nat \ {0}
    PROVE  /\ CeilDiv(a, b) \in Nat
           /\ CeilDiv(a, b) * b >= a /\ (CeilDiv(a, b) - 1) * b < a
BY DEF CeilDiv

LEMMA MultipleFacts ==
    \A a \in Nat, b \in Nat \ {0} :
        (a * b) % b = 0 /\ (a % b = 0 => a = (a \div b) * b /\ a \div b \in Nat)
OBVIOUS

LEMMA NearestIsNat ==
    ASSUME NEW a \in Nat, NEW r \in Nat \ {0} PROVE Nearest(a, r) \in Nat
<1>1. a \div r \in Nat
  OBVIOUS
<1>2. \A k \in Nat : k * r \in Nat /\ (k + 1) * r \in Nat
  OBVIOUS
<1> QED
  BY <1>1, <1>2 DEF Nearest

LEMMA NearestOfMultiple ==
    ASSUME NEW a \in Nat, NEW r \in Nat \ {0}, a % r = 0 PROVE Nearest(a, r) = a
<1>1. ~(2 * (a % r) > r \/ 2 * (a % r) = r)
  OBVIOUS
<1>2. (a \div r) * r = a
  BY MultipleFacts
<1> QED
  BY <1>1, <1>2 DEF Nearest

LEMMA DecimalsDivide ==
    ASSUME NEW step \in Nat \ {0}
    PROVE  DecimalsOf(step) \in Resolutions /\ step % DecimalsOf(step) = 0
<1>1. \E r \in Resolutions :
         step % r = 0 /\ \A s \in Resolutions : step % s = 0 => s <= r
  <2>1. step % 1 = 0
    OBVIOUS
  <2>2. CASE step % 1000 = 0
    BY <2>2 DEF Resolutions
  <2>3. CASE step % 1000 # 0 /\ step % 100 = 0
    BY <2>3 DEF Resolutions
  <2>4. CASE step % 1000 # 0 /\ step % 100 # 0 /\ step % 10 = 0
    BY <2>4 DEF Resolutions
  <2>5. CASE step % 1000 # 0 /\ step % 100 # 0 /\ step % 10 # 0
    BY <2>1, <2>5 DEF Resolutions
  <2> QED
    BY <2>2, <2>3, <2>4, <2>5
<1> QED
  BY <1>1 DEF DecimalsOf

Market == [step : Nat \ {0}, min_qty : Nat, min_notional : Nat,
           precision : Resolutions, tick : Nat \ {0}, resolved : BOOLEAN]

LEMMA MarketFacts ==
    ASSUME NEW m \in Market
    PROVE  /\ m.step \in Nat \ {0} /\ m.min_qty \in Nat /\ m.min_notional \in Nat
           /\ m.precision \in Resolutions /\ m.tick \in Nat \ {0} /\ m.resolved \in BOOLEAN
BY DEF Market

LEMMA WrittenDivides ==
    ASSUME NEW step \in Nat \ {0}, NEW m \in Market
    PROVE  Written(step, m) \in Nat \ {0} /\ step % Written(step, m) = 0
<1>1. PICK d \in Resolutions : d = DecimalsOf(step) /\ step % d = 0
  BY DecimalsDivide
<1>2. PICK p \in Resolutions : p = m.precision
  BY MarketFacts
<1>3. p <= d => step % p = 0
  BY <1>1 DEF Resolutions
<1>4. Written(step, m) = IF d < p THEN d ELSE p
  BY <1>1, <1>2 DEF Written
<1> QED
  BY <1>1, <1>3, <1>4 DEF Resolutions

\* What an order is sized from: enough lots to be worth what is aimed at, one more
\* perhaps than the quotient needs.
LEMMA LotsSuffice ==
    ASSUME NEW notional \in Nat, NEW p \in Nat \ {0}, NEW m \in Market
    PROVE  LET lots == Lots(notional, p, m)
           IN  /\ lots \in Nat /\ Aimed(notional, m) \in Nat
               /\ lots * m.step * p >= 10 * Aimed(notional, m)
               /\ (lots - 1) * m.step * p < 10 * Aimed(notional, m)
<1> DEFINE a == 10 * Aimed(notional, m)
           b == p * m.step
           lots == Lots(notional, p, m)
<1>1. a \in Nat /\ Aimed(notional, m) \in Nat
  BY MarketFacts DEF Aimed, AtLeast
<1>2. b \in Nat \ {0}
  BY MarketFacts
<1>3. lots = CeilDiv(a, b)
  BY DEF Lots
<1> HIDE DEF a, lots
<1>4. lots \in Nat /\ lots * b >= a /\ (lots - 1) * b < a
  BY <1>1, <1>2, <1>3, CeilDivFacts
<1>5. \A n \in Int : n * b = n * m.step * p
  BY MarketFacts
<1>6. lots * m.step * p >= a /\ (lots - 1) * m.step * p < a
  BY <1>4, <1>5
<1> QED
  BY <1>1, <1>4, <1>6 DEF a, lots

LEMMA SizeIsNat ==
    ASSUME NEW notional \in Nat, NEW p \in Nat \ {0}, NEW m \in Market,
           NEW extra \in {0, 1}
    PROVE  SizeAmount(notional, p, m, extra) \in Nat
<1>1. (Lots(notional, p, m) + extra) * m.step \in Nat
  <2>1. Lots(notional, p, m) \in Nat
    BY LotsSuffice
  <2>2. m.step \in Nat
    BY MarketFacts
  <2> QED
    BY <2>1, <2>2
<1>2. RaisedToSmallest((Lots(notional, p, m) + extra) * m.step, m) \in Nat
  BY <1>1, MarketFacts DEF RaisedToSmallest, AtLeast
<1>3. Written(m.step, m) \in Nat \ {0}
  BY WrittenDivides, MarketFacts
<1> QED
  BY <1>2, <1>3, NearestIsNat DEF SizeAmount

\* Written with the decimals of the step or finer, whole lots are not rounded.
LEMMA SizeIsWholeLots ==
    ASSUME NEW m \in Market, LotAligned(m), NEW k \in Nat
    PROVE  LET qty == RaisedToSmallest(k * m.step, m)
           IN  qty \in Nat /\ qty % m.step = 0 /\ Nearest(qty, Written(m.step, m)) = qty
<1> DEFINE qty == RaisedToSmallest(k * m.step, m)
           w == Written(m.step, m)
           s == m.step
<1>1. s \in Nat \ {0} /\ m.min_qty \in Nat
  BY MarketFacts
<1>2. (k * s) % s = 0 /\ k * s \in Nat
  <2> HIDE DEF s
  <2>1. (k * s) % s = 0
    BY <1>1, MultipleFacts, Zenon
  <2> QED
    BY <1>1, <2>1
<1>3. qty \in Nat /\ qty % s = 0
  BY <1>1, <1>2 DEF RaisedToSmallest, AtLeast, LotAligned
<1>4. w \in Nat \ {0} /\ s % w = 0
  BY <1>1, WrittenDivides
<1> HIDE DEF qty, w, s
<1>5. PICK i \in Nat : qty = i * s
  BY <1>1, <1>3, MultipleFacts
<1>6. PICK j \in Nat : s = j * w
  BY <1>1, <1>4, MultipleFacts
<1>7. qty = (i * j) * w /\ i * j \in Nat
  BY <1>4, <1>5, <1>6
<1>8. qty % w = 0
  BY <1>4, <1>7, MultipleFacts
<1> QED
  BY <1>3, <1>4, <1>8, NearestOfMultiple DEF qty, w, s

(***************************************************************************)
(* size_amount: in a market whose smallest quantity is made of whole lots  *)
(* the amount honours the notional asked for and the market's filters, and *)
(* exceeds what is necessary by less than two lots.                        *)
(***************************************************************************)
LEMMA SizeHonours ==
    ASSUME NEW notional \in Nat, NEW p \in Nat \ {0}, NEW m \in Market,
           LotAligned(m), NEW extra \in {0, 1}
    PROVE  Honours(SizeAmount(notional, p, m, extra), notional, p, m)
<1> DEFINE lots == Lots(notional, p, m)
           k == lots + extra
           aimed == Aimed(notional, m)
           s == m.step
           amt == SizeAmount(notional, p, m, extra)
<1>1. s \in Nat \ {0} /\ m.min_qty \in Nat /\ m.min_notional \in Nat
  BY MarketFacts
<1>2. /\ lots \in Nat /\ aimed \in Nat
      /\ lots * s * p >= 10 * aimed /\ (lots - 1) * s * p < 10 * aimed
  BY LotsSuffice
<1>3. k \in Nat
  BY <1>2
<1>4. amt = RaisedToSmallest(k * s, m) /\ amt % s = 0
  BY <1>3, SizeIsWholeLots DEF SizeAmount
<1>5. 10 * aimed >= 1000 * notional /\ 10 * aimed >= 1000 * m.min_notional
  BY <1>1 DEF Aimed, AtLeast
<1> HIDE DEF lots, aimed, s, amt
<1>6. k * s \in Nat /\ k * s >= lots * s /\ (k * s - 2 * s) = (k - 2) * s
  BY <1>1, <1>2
<1>7. amt \in Nat /\ amt >= k * s /\ amt >= m.min_qty /\ (amt = k * s \/ amt = m.min_qty)
  BY <1>1, <1>4, <1>6 DEF RaisedToSmallest, AtLeast
<1>8. amt * p >= 10 * aimed
  <2>1. lots * s \in Nat /\ amt >= lots * s
    BY <1>1, <1>2, <1>6, <1>7
  <2>2. \A x, y \in Nat : x >= y => x * p >= y * p
    OBVIOUS
  <2>3. amt * p >= (lots * s) * p
    BY <2>1, <2>2, <1>7
  <2> QED
    BY <1>1, <1>2, <1>7, <2>1, <2>3
<1>9. amt = k * s => 10 * aimed > (amt - 2 * s) * p
  <2> SUFFICES ASSUME amt = k * s PROVE 10 * aimed > (amt - 2 * s) * p
    OBVIOUS
  <2>1. (amt - 2 * s) = (k - 2) * s
    BY <1>6
  <2>2. \A x, y \in Int : x <= y => x * s <= y * s /\ x * p <= y * p
    BY <1>1
  <2>3. k - 2 \in Int /\ lots - 1 \in Int /\ k - 2 <= lots - 1
    BY <1>2
  <2>4. (k - 2) * s \in Int /\ (lots - 1) * s \in Int /\ (k - 2) * s <= (lots - 1) * s
    BY <1>1, <2>2, <2>3
  <2> HIDE DEF k
  <2>5. ((k - 2) * s) * p <= ((lots - 1) * s) * p
    BY <2>2, <2>4
  <2> QED
    BY <1>1, <1>2, <2>1, <2>3, <2>4, <2>5
<1>10. 1000 * notional \in Nat /\ 1000 * m.min_notional \in Nat /\ amt * p \in Nat
  BY <1>1, <1>7
<1> QED
  BY <1>2, <1>4, <1>5, <1>7, <1>8, <1>9, <1>10 DEF Honours, Worth, amt, s, aimed

\* The market that resolve_perp_market returns has a step and a tick that are not zero,
\* whatever is listed.
LEMMA PreferredIsListed ==
    ASSUME NEW symbols \in Seq(Symbol), symbols # <<>>
    PROVE  Preferred(symbols) \in Symbol
<1> DEFINE trading == {i \in DOMAIN symbols : symbols[i].trading}
           wanted == {i \in DOMAIN symbols : symbols[i].wanted}
<1>1. DOMAIN symbols \subseteq Nat /\ 1 \in DOMAIN symbols
  OBVIOUS
<1>2. \A i \in DOMAIN symbols : symbols[i] \in Symbol
  OBVIOUS
<1>3. \A S \in SUBSET DOMAIN symbols : S # {} => Min(S) \in DOMAIN symbols
  BY <1>1, MinIsLeast
<1>4. wanted \in SUBSET DOMAIN symbols /\ trading \in SUBSET DOMAIN symbols
  OBVIOUS
<1> HIDE DEF trading, wanted
<1>5. Preferred(symbols) = symbols[IF trading \cap wanted # {} THEN Min(trading \cap wanted)
                                   ELSE IF wanted # {} THEN Min(wanted)
                                   ELSE IF trading # {} THEN Min(trading) ELSE 1]
  BY DEF Preferred, trading, wanted
<1>6. trading \cap wanted \in SUBSET DOMAIN symbols
  BY <1>4
<1> QED
  BY <1>1, <1>2, <1>3, <1>4, <1>5, <1>6

LEMMA ResolveGivesMarket ==
    ASSUME NEW symbols \in Seq(Symbol) PROVE ResolveMarket(symbols) \in Market
<1>1. CASE symbols = <<>>
  BY <1>1 DEF ResolveMarket, Market, Resolutions
<1>2. CASE symbols # <<>>
  <2> DEFINE s == Preferred(symbols)
  <2>1. s \in Symbol
    BY <1>2, PreferredIsListed
  <2> HIDE DEF s
  <2>2. /\ s.wanted \in BOOLEAN /\ s.step \in Nat /\ s.min_qty \in Nat
        /\ s.min_notional \in Nat /\ s.precision \in Resolutions /\ s.tick \in Nat
    BY <2>1 DEF Symbol
  <2>3. Or(s.step, s.precision) \in Nat \ {0} /\ Or(s.tick, 1) \in Nat \ {0}
    BY <2>2 DEF Or, Resolutions
  <2>4. ResolveMarket(symbols) =
          [step |-> Or(s.step, s.precision), min_qty |-> s.min_qty,
           min_notional |-> s.min_notional, precision |-> s.precision,
           tick |-> Or(s.tick, 1), resolved |-> s.wanted]
    BY <1>2 DEF ResolveMarket, s
  <2> QED
    BY <2>2, <2>3, <2>4 DEF Market
<1> QED
  BY <1>1, <1>2

-----------------------------------------------------------------------------
(***************************************************************************)
(* The inductive invariant.                                                *)
(***************************************************************************)
\* Tests buy, spot makers sell; only makers meet a counterparty.
BeforePost == {"resolve", "mark", "read", "baseline", "rest"}

Roles ==
    /\ task \in Makers \cup Tests
    /\ task \in Tests => side = "buy"
    /\ task \in Makers \ {"perp"} => side = "sell"
    /\ pc \in {"take", "done"} => task \in Makers
    /\ task = "rest_perp" => pc # "read"
    /\ pc = "baseline" => task \in Tests
    /\ pc \in BeforePost \ {"rest"} => arrived = {}
    /\ pc \in BeforePost \cup {"take"} => met = "nobody"

\* While no order has come in on a side since the read, nobody there is better than
\* what was read.
BookAsRead ==
    pc \in {"rest", "take"} /\ task # "rest_perp" =>
        /\ "buy" \notin arrived => \A p \in bids : p <= best_bid
        /\ "sell" \notin arrived => \A p \in asks : best_ask > 0 /\ best_ask <= p
        /\ best_bid > 0 /\ best_ask > 0 => best_bid < best_ask

\* Our order rests at the quote until somebody's order takes it.
RestsAtQuote ==
    pc = "take" => \/ price = Quote /\ price > 0
                   \/ arrived # {}

\* The market and the size of a perp test.
SizedInMarket ==
    task = "rest_perp" /\ pc \in {"mark", "baseline"} =>
        /\ mkt \in Market
        /\ pc = "baseline" => mark = Mark /\ (LotAligned(mkt) => Honours(amount, Notional, Mark, mkt))

\* Where the platform is at each place of a test.
BeforeCancel == {"visible", "mine", "locked", "during", "history", "cancel"}
AfterCancel == {"gone", "released", "assert"}
Stopped == {"teardown", "over"}

WorldAt ==
    /\ task \in Makers => world = Settled
    /\ task \in Tests /\ pc \in BeforePost => world \in {Settling, Settled} /\ ~asked
    /\ pc \in BeforeCancel => world \in {Open, Locked, Filled} /\ ~asked
    /\ pc \notin Stopped => outcome = "running"

\* What a replica shows has happened, and the platform has not gone another way since.
Happened(s) ==
    /\ s <= world
    /\ s = Left => world \in {Left, Released}
    /\ s = Released => world = Released

\* What a test knows at each place, if no read went back in time.
Knows ==
    /\ pc \in {"mine", "locked"} => Open <= latest
    /\ pc = "during" => Locked <= latest
    /\ pc \in {"history", "cancel"} \cup AfterCancel =>
          Locked <= latest /\ (during = "less" \/ world = Filled)
    /\ pc \in {"cancel"} \cup AfterCancel => in_history
    /\ pc = "released" => Left <= latest
    /\ pc = "assert" => latest = Released
    /\ outcome = "passed" => latest = Released
    /\ outcome \in {"not_found", "assertion"} => world = Filled

QuoteGroup ==
    /\ QuoteTypeOK /\ Roles /\ BookAsRead /\ RestsAtQuote
    /\ QuoteRests /\ QuoteInBand /\ RestsNeverTakes /\ MeetsInSpread

SizeGroup == amount \in Nat /\ fellBack \in BOOLEAN /\ SizedInMarket

StageTypeOK ==
    /\ world \in Stage /\ seen \in [Replica -> Stage] /\ asked \in BOOLEAN
    /\ latest \in Stage /\ wentBack \in BOOLEAN /\ in_history \in BOOLEAN
    /\ during \in {"none", "base", "less", "other"}
    /\ swept \in Stage \cup {NotRead} /\ refused \in BOOLEAN

StageGroup ==
    /\ StageTypeOK /\ WorldAt
    /\ (\A r \in Replica : Happened(seen[r])) /\ Happened(latest)
    /\ (~wentBack => Knows) /\ LeftoverOnlyIfMissed

RestingIInv == QuoteGroup /\ SizeGroup /\ StageGroup

-----------------------------------------------------------------------------
(***************************************************************************)
(* The quote.                                                              *)
(***************************************************************************)
LEMMA ConstantFacts ==
    /\ Levels \in SUBSET (Nat \ {0}) /\ IsFiniteSet(Levels) /\ Mark \in Nat \ {0}
    /\ MaxMoves \in Nat /\ Notional \in Nat \ {0}
    /\ \A symbols \in Listings : symbols \in Seq(Symbol)
BY QuoteAssumption, RestingAssumption

\* The top of the book is the best of a side that is not empty.
LEMMA TopFacts ==
    ASSUME NEW S \in SUBSET Levels
    PROVE  /\ HighestOf(S) \in Levels \cup {0} /\ \A p \in S : p <= HighestOf(S)
           /\ HighestOf(S) > 0 => HighestOf(S) \in S
           /\ LowestOf(S) \in Levels \cup {0} /\ \A p \in S : LowestOf(S) > 0 /\ LowestOf(S) <= p
           /\ LowestOf(S) > 0 => LowestOf(S) \in S
<1>1. S \in SUBSET Nat /\ IsFiniteSet(S) /\ \A p \in S : p > 0 /\ p \in Levels
  <2>1. IsFiniteSet(S)
    BY ConstantFacts, FS_Subset
  <2> QED
    BY <2>1, ConstantFacts
<1> DEFINE T == {0} \cup S
<1>2. T \in SUBSET Nat /\ T # {} /\ IsFiniteSet(T)
  BY <1>1, FS_AddElement
<1>3. Max(T) \in T /\ \A y \in T : Max(T) >= y
  <2> HIDE DEF T
  <2> QED
    BY <1>2, MaxIsGreatest
<1>4. HighestOf(S) = Max(T)
  BY DEF HighestOf
<1>5. S # {} => LowestOf(S) \in S /\ \A y \in S : LowestOf(S) <= y
  BY <1>1, MinIsLeast DEF LowestOf
<1>6. S = {} => LowestOf(S) = 0
  BY DEF LowestOf
<1>7. Max(T) \in Levels \cup {0} /\ (Max(T) > 0 => Max(T) \in S) /\ \A p \in S : p <= Max(T)
  <2>1. Max(T) = 0 \/ Max(T) \in S
    BY <1>3
  <2>2. \A p \in S : p \in T
    OBVIOUS
  <2> HIDE DEF T
  <2>3. Max(T) \in Nat /\ \A p \in S : p \in Nat /\ Max(T) >= p
    BY <1>1, <1>2, <1>3, <2>2
  <2>4. \A p \in S : p <= Max(T)
    BY <2>3
  <2>5. Max(T) > 0 => Max(T) \in S
    BY <2>1, <2>3
  <2>6. Max(T) \in Levels \cup {0}
    BY <1>1, <2>1
  <2> QED
    BY <2>4, <2>5, <2>6
<1>8. /\ LowestOf(S) \in Levels \cup {0} /\ \A p \in S : LowestOf(S) > 0 /\ LowestOf(S) <= p
      /\ LowestOf(S) > 0 => LowestOf(S) \in S
  <2>1. CASE S = {}
    BY <1>6, <2>1
  <2>2. CASE S # {}
    BY <1>1, <1>5, <2>2
  <2> QED
    BY <2>1, <2>2
<1> QED
  BY <1>4, <1>7, <1>8

LEMMA QuoteTypes ==
    ASSUME QuoteTypeOK
    PROVE  /\ best_bid \in Nat /\ best_ask \in Nat /\ mark \in Nat /\ Mark \in Nat \ {0}
           /\ bids \in SUBSET Nat /\ asks \in SUBSET Nat
BY ConstantFacts DEF QuoteTypeOK

\* A quote made from the book is on its own side of the other side's best, and better
\* than its own side's best where there is room.
LEMMA QuoteFacts ==
    ASSUME QuoteTypeOK, Roles, task \in Makers,
           best_bid > 0 /\ best_ask > 0 => best_bid < best_ask
    PROVE  /\ Quote \in Int
           /\ FromBook /\ Quote > 0 =>
                 IF side = "sell" THEN Quote > best_bid ELSE best_ask > 0 /\ Quote < best_ask
           /\ HasSpread /\ best_ask - best_bid > 1 /\ ~(task = "spot_or_mark" /\ FromMark) =>
                 IF side = "sell" THEN Quote < best_ask ELSE Quote > best_bid
<1>1. best_bid \in Nat /\ best_ask \in Nat /\ mark \in Nat
  BY QuoteTypes
<1>2. MarkQuote \in Int
  <2>1. \A x \in Int : x \div 1000 \in Int
    OBVIOUS
  <2>2. (IF side = "sell" THEN 1001 ELSE 999) * mark + 500 \in Int
    BY <1>1
  <2> QED
    BY <2>1, <2>2 DEF MarkQuote
<1>3. InsideQuote \in Int
  BY <1>1 DEF InsideQuote, Larger, Smaller
<1>4. CASE task = "perp"
  <2>1. Quote = IF HasSpread THEN InsideQuote ELSE MarkQuote
    BY <1>4 DEF Quote, PerpQuote
  <2>2. FromBook = HasSpread /\ HasSpread = (best_bid > 0 /\ best_ask > best_bid)
    BY <1>1, <1>4 DEF FromBook, HasSpread
  <2>3. side \in {"sell", "buy"}
    BY DEF QuoteTypeOK
  <2> QED
    BY <1>1, <1>2, <1>3, <1>4, <2>1, <2>2, <2>3 DEF InsideQuote, Larger, Smaller
<1>5. CASE task \in {"spot", "spot_or_mark"}
  <2>1. side = "sell"
    BY <1>5 DEF Roles, Makers
  <2>2. HasSpread = (best_bid > 0 /\ best_ask > best_bid + 1)
    BY <1>5 DEF HasSpread
  <2>3. /\ SpotQuote \in Int /\ (SpotQuote > 0 => SpotQuote > best_bid)
        /\ HasSpread /\ best_ask - best_bid > 1 => SpotQuote < best_ask
    BY <1>1, <2>1, <2>2 DEF SpotQuote, InsideQuote, Larger
  <2>4. Quote = SpotQuote \/ (task = "spot_or_mark" /\ FromMark /\ Quote = mark)
    BY <1>5 DEF Quote, SpotQuoteOrMark
  <2>5. FromBook => ~(task = "spot_or_mark" /\ FromMark)
    BY <1>5 DEF FromBook
  <2>6. Quote \in Int
    <3>1. mark \in Int
      BY <1>1
    <3> QED
      BY <2>3, <2>4, <3>1, Zenon
  <2>7. FromBook /\ Quote > 0 => Quote > best_bid
    BY <2>3, <2>4, <2>5
  <2>8. HasSpread /\ best_ask - best_bid > 1 /\ ~(task = "spot_or_mark" /\ FromMark)
        => Quote < best_ask
    BY <2>3, <2>4
  <2> QED
    BY <2>1, <2>6, <2>7, <2>8
<1> QED
  BY <1>4, <1>5 DEF Makers

LEMMA SameRead ==
    ASSUME UNCHANGED <<task, side, read>>
    PROVE  Quote' = Quote /\ FromBook' = FromBook /\ HasSpread' = HasSpread /\ FromMark' = FromMark
BY DEF read, Quote, FromBook, HasSpread, FromMark, PerpQuote, SpotQuote, SpotQuoteOrMark,
       InsideQuote, MarkQuote, StaleVsMark, Larger, Smaller, Distance

\* What is left to show when an action does not change what a quote is made of.
LEMMA QuoteKept ==
    ASSUME QuoteGroup, UNCHANGED quoting,
           \/ pc' = pc
           \/ pc' \in BeforeCancel \cup AfterCancel \cup Stopped
           \/ pc \in BeforePost \ {"rest"} /\ pc' = "mark"
    PROVE  QuoteGroup'
<1> USE DEF QuoteGroup, quoting, BeforeCancel, AfterCancel, Stopped
<1>1. /\ Quote' = Quote /\ FromBook' = FromBook /\ HasSpread' = HasSpread
      /\ FromMark' = FromMark
  BY SameRead
<1>2. QuoteTypeOK'
  BY DEF QuoteTypeOK, Uncrossed, book, read
<1>3. Roles'
  BY DEF Roles, BeforePost
<1>4. BookAsRead'
  BY DEF BookAsRead, book, read
<1>5. RestsAtQuote'
  BY <1>1 DEF RestsAtQuote
<1>6. QuoteRests' /\ RestsNeverTakes'
  BY <1>1 DEF QuoteRests, RestsNeverTakes
<1>7. QuoteInBand'
  BY DEF QuoteInBand, read
<1>8. MeetsInSpread'
  BY <1>1 DEF MeetsInSpread, read
<1> QED
  BY <1>2, <1>3, <1>4, <1>5, <1>6, <1>7, <1>8

LEMMA QuoteReadMark ==
    ASSUME QuoteGroup, ReadMark, task # "rest_perp" PROVE QuoteGroup'
<1> USE DEF QuoteGroup, ReadMark
<1>0. pc = "mark" /\ pc' \in {"read", "raised"} /\ met = "nobody" /\ mark' \in {0, Mark}
  BY DEF Roles, BeforePost
<1>1. QuoteTypeOK'
  BY DEF QuoteTypeOK, Uncrossed, book
<1>2. Roles'
  BY <1>0 DEF Roles, BeforePost
<1>3. BookAsRead' /\ RestsAtQuote' /\ MeetsInSpread'
  BY <1>0 DEF BookAsRead, RestsAtQuote, MeetsInSpread
<1>4. QuoteRests' /\ RestsNeverTakes' /\ QuoteInBand'
  BY <1>0 DEF QuoteRests, RestsNeverTakes, QuoteInBand
<1> QED
  BY <1>1, <1>2, <1>3, <1>4

LEMMA QuoteReadTop ==
    ASSUME QuoteGroup, ReadTop PROVE QuoteGroup'
<1> USE DEF QuoteGroup, ReadTop
<1>0. pc = "read" /\ pc' = "rest" /\ met = "nobody" /\ met' = "nobody"
  BY DEF Roles, BeforePost
<1>1. bids \in SUBSET Levels /\ asks \in SUBSET Levels
  BY DEF QuoteTypeOK
<1>2. /\ best_bid' \in Levels \cup {0} /\ \A p \in bids : p <= best_bid'
      /\ best_bid' > 0 => best_bid' \in bids
  BY <1>1, TopFacts
<1>3. /\ best_ask' \in Levels \cup {0} /\ \A p \in asks : best_ask' > 0 /\ best_ask' <= p
      /\ best_ask' > 0 => best_ask' \in asks
  BY <1>1, TopFacts
<1>4. QuoteTypeOK'
  BY <1>2, <1>3 DEF QuoteTypeOK, Uncrossed, book
<1>5. best_bid' > 0 /\ best_ask' > 0 => best_bid' < best_ask'
  BY <1>2, <1>3 DEF QuoteTypeOK, Uncrossed
<1>6. BookAsRead'
  BY <1>2, <1>3, <1>5 DEF BookAsRead, book
<1>7. Roles'
  BY <1>0 DEF Roles, BeforePost
<1>8. RestsAtQuote' /\ MeetsInSpread' /\ QuoteRests' /\ RestsNeverTakes' /\ QuoteInBand'
  BY <1>0 DEF RestsAtQuote, MeetsInSpread, QuoteRests, RestsNeverTakes, QuoteInBand
<1> QED
  BY <1>4, <1>6, <1>7, <1>8

\* A spot sell priced with a known mark is within fifteen percent of it.
LEMMA WithMarkInBand ==
    QuoteTypeOK /\ task = "spot_or_mark" /\ side = "sell" /\ mark # 0 => InBand(Quote)
<1> SUFFICES ASSUME QuoteTypeOK /\ task = "spot_or_mark" /\ side = "sell" /\ mark # 0
    PROVE  InBand(Quote)
  OBVIOUS
<1>1. best_bid \in Nat /\ best_ask \in Nat /\ Mark \in Nat \ {0}
  BY QuoteTypes
<1>2. mark = Mark
  BY DEF QuoteTypeOK
<1>3. SpotQuote \in Nat
  BY <1>1 DEF SpotQuote, HasSpread, InsideQuote, Larger
<1>4. Quote = IF FromMark THEN Mark ELSE SpotQuote
  BY <1>2 DEF Quote, SpotQuoteOrMark
<1>5. ~FromMark => SpotQuote # 0 /\ ~(100 * Distance(SpotQuote, Mark) > 15 * Mark)
  BY <1>1, <1>2 DEF FromMark, StaleVsMark
<1>6. InBand(Mark)
  BY <1>1 DEF InBand, Distance
<1>7. \A d \in Nat : ~(100 * d > 15 * Mark) => 5 * d <= Mark
  BY <1>1
<1>8. Distance(SpotQuote, Mark) \in Nat
  BY <1>1, <1>3 DEF Distance
<1>9. ~FromMark => InBand(SpotQuote)
  BY <1>3, <1>5, <1>7, <1>8 DEF InBand
<1> QED
  BY <1>4, <1>6, <1>9

LEMMA QuoteRestOrder ==
    ASSUME QuoteGroup, RestOrder PROVE QuoteGroup'
<1> USE DEF QuoteGroup
<1>0. /\ pc = "rest" /\ task \in Makers /\ met = "nobody"
      /\ UNCHANGED <<task, side, book, read, moves, arrived>>
  BY DEF RestOrder, Roles, BeforePost
<1>1. /\ Quote' = Quote /\ FromBook' = FromBook /\ HasSpread' = HasSpread
      /\ FromMark' = FromMark
  BY <1>0, SameRead
<1>2. task # "rest_perp"
  BY <1>0 DEF Makers
<1>3. /\ "buy" \notin arrived => \A p \in bids : p <= best_bid
      /\ "sell" \notin arrived => \A p \in asks : best_ask > 0 /\ best_ask <= p
      /\ best_bid > 0 /\ best_ask > 0 => best_bid < best_ask
  BY <1>0, <1>2 DEF BookAsRead
<1>4. /\ Quote \in Int
      /\ FromBook /\ Quote > 0 =>
            IF side = "sell" THEN Quote > best_bid ELSE best_ask > 0 /\ Quote < best_ask
  BY <1>0, <1>3, QuoteFacts
<1>5. side \in {"sell", "buy"} /\ best_bid \in Nat /\ best_ask \in Nat
      /\ bids \in SUBSET Nat /\ asks \in SUBSET Nat
  BY QuoteTypes DEF QuoteTypeOK
<1>6. InBand(Quote) => Quote > 0
  BY DEF InBand
<1>7. BookAsRead'
  <2>1. UNCHANGED <<bids, asks, best_bid, best_ask, arrived>>
    BY <1>0 DEF book, read
  <2> QED
    BY <1>3, <2>1 DEF BookAsRead
<1>8. CASE ~InBand(Quote) /\ met' = "rejected" /\ pc' = "raised" /\ UNCHANGED <<price, ahead>>
  <2>1. QuoteTypeOK'
    BY <1>0, <1>8 DEF QuoteTypeOK, Uncrossed, book, read
  <2>2. Roles'
    BY <1>0, <1>8 DEF Roles, BeforePost
  <2>3. QuoteInBand'
    <3>1. task = "spot_or_mark" /\ mark # 0 => InBand(Quote)
      BY <1>0, WithMarkInBand DEF Roles
    <3> QED
      BY <1>0, <1>8, <3>1 DEF QuoteInBand, read
  <2>4. RestsAtQuote' /\ QuoteRests' /\ RestsNeverTakes' /\ MeetsInSpread'
    BY <1>8 DEF RestsAtQuote, QuoteRests, RestsNeverTakes, MeetsInSpread
  <2> QED
    BY <1>7, <2>1, <2>2, <2>3, <2>4
<1>9. CASE InBand(Quote) /\ Crosses(Quote) /\ met' = "taker" /\ pc' = "done"
           /\ UNCHANGED <<price, ahead>>
  <2>1. QuoteTypeOK'
    BY <1>0, <1>9 DEF QuoteTypeOK, Uncrossed, book, read
  <2>2. Roles'
    BY <1>0, <1>9 DEF Roles, BeforePost
  <2>3. FromBook => arrived \ {side} # {}
    <3> SUFFICES ASSUME FromBook PROVE arrived \ {side} # {}
      OBVIOUS
    <3>1. CASE side = "sell"
      <4>1. PICK q \in bids : ~(q < Quote)
        BY <1>9, <3>1 DEF Crosses, Other, Better
      <4>2. Quote > best_bid /\ q \in Nat
        BY <1>4, <1>5, <1>6, <1>9, <3>1
      <4>3. "buy" \in arrived
        BY <1>3, <1>4, <1>5, <4>1, <4>2
      <4> QED
        BY <3>1, <4>3
    <3>2. CASE side = "buy"
      <4>1. PICK q \in asks : ~(q > Quote)
        BY <1>9, <3>2 DEF Crosses, Other, Better
      <4>2. Quote < best_ask /\ q \in Nat
        BY <1>4, <1>5, <1>6, <1>9, <3>2
      <4>3. "sell" \in arrived
        BY <1>3, <1>4, <1>5, <4>1, <4>2
      <4> QED
        BY <3>2, <4>3
    <3> QED
      BY <1>5, <3>1, <3>2
  <2>4. QuoteRests' /\ QuoteInBand'
    BY <1>0, <1>1, <1>9, <2>3 DEF QuoteRests, QuoteInBand
  <2>5. RestsNeverTakes' /\ RestsAtQuote'
    BY <1>0, <1>9 DEF RestsNeverTakes, RestsAtQuote, Makers
  <2>6. MeetsInSpread'
    <3>1. HasSpread /\ ~(task = "spot_or_mark" /\ FromMark) => FromBook
      BY <1>0 DEF FromBook, Makers
    <3> QED
      BY <1>0, <1>1, <2>3, <3>1 DEF MeetsInSpread
  <2> QED
    BY <1>7, <2>1, <2>2, <2>4, <2>5, <2>6
<1>10. CASE InBand(Quote) /\ price' = Quote /\ ahead' = (Quote \in Own) /\ pc' = "take"
            /\ UNCHANGED met
  <2>1. price' \in Nat /\ price' > 0
    BY <1>4, <1>6, <1>10
  <2>2. QuoteTypeOK'
    BY <1>0, <1>10, <2>1 DEF QuoteTypeOK, Uncrossed, book, read
  <2>3. Roles'
    BY <1>0, <1>10 DEF Roles, BeforePost
  <2>4. RestsAtQuote'
    BY <1>1, <1>10, <2>1 DEF RestsAtQuote
  <2>5. QuoteRests' /\ RestsNeverTakes' /\ QuoteInBand' /\ MeetsInSpread'
    BY <1>0, <1>10 DEF QuoteRests, RestsNeverTakes, QuoteInBand, MeetsInSpread
  <2> QED
    BY <1>7, <2>2, <2>3, <2>4, <2>5
<1> QED
  BY <1>8, <1>9, <1>10 DEF RestOrder

LEMMA QuoteTakeOrder ==
    ASSUME QuoteGroup, TakeOrder PROVE QuoteGroup'
<1> USE DEF QuoteGroup
<1>0. /\ pc = "take" /\ pc' = "done" /\ task \in Makers /\ met = "nobody"
      /\ met' = IF OursIsBest THEN "us" ELSE "others"
      /\ UNCHANGED <<task, side, book, read, price, ahead, moves, arrived>>
  BY DEF TakeOrder, Roles
<1>1. /\ Quote' = Quote /\ FromBook' = FromBook /\ HasSpread' = HasSpread
      /\ FromMark' = FromMark
  BY <1>0, SameRead
<1>2. QuoteTypeOK'
  BY <1>0 DEF QuoteTypeOK, Uncrossed, book, read
<1>3. Roles'
  BY <1>0 DEF Roles, BeforePost
<1>4. BookAsRead' /\ RestsAtQuote' /\ QuoteRests' /\ RestsNeverTakes' /\ QuoteInBand'
  BY <1>0 DEF BookAsRead, RestsAtQuote, QuoteRests, RestsNeverTakes, QuoteInBand
<1>5. ASSUME HasSpread, best_ask - best_bid > 1, arrived = {},
             ~(task = "spot_or_mark" /\ FromMark)
      PROVE  OursIsBest
  <2>1. price = Quote /\ price > 0
    BY <1>0, <1>5 DEF RestsAtQuote
  <2>2. /\ \A p \in bids : p <= best_bid
        /\ \A p \in asks : best_ask > 0 /\ best_ask <= p
        /\ best_bid > 0 /\ best_ask > 0 => best_bid < best_ask
    BY <1>0, <1>5 DEF BookAsRead, Makers
  <2>3. /\ Quote \in Int
        /\ IF side = "sell" THEN Quote < best_ask ELSE Quote > best_bid
    BY <1>0, <1>5, <2>2, QuoteFacts
  <2>4. /\ side \in {"sell", "buy"} /\ best_bid \in Nat /\ best_ask \in Nat
        /\ bids \in SUBSET Nat /\ asks \in SUBSET Nat
    BY QuoteTypes DEF QuoteTypeOK
  <2>5. \A p \in Own : Better(Quote, p)
    <3>1. CASE side = "sell"
      BY <2>2, <2>3, <2>4, <3>1 DEF Own, Better
    <3>2. CASE side = "buy"
      BY <2>2, <2>3, <2>4, <3>2 DEF Own, Better
    <3> QED
      BY <2>4, <3>1, <3>2
  <2>6. price # 0
    BY <2>1, <2>3
  <2> QED
    BY <2>1, <2>5, <2>6 DEF OursIsBest
<1>6. MeetsInSpread'
  BY <1>0, <1>1, <1>5 DEF MeetsInSpread, read
<1> QED
  BY <1>2, <1>3, <1>4, <1>6

LEMMA QuoteOthers ==
    ASSUME QuoteGroup, Others PROVE QuoteGroup'
<1> USE DEF QuoteGroup
<1>0. /\ pc \in {"rest", "take"} /\ moves < MaxMoves /\ moves' = moves + 1
      /\ met = "nobody" /\ UNCHANGED <<pc, task, side, read, price, met>>
      /\ ahead' = (ahead /\ price \in (IF side = "sell" THEN asks' ELSE bids'))
  BY DEF Others, Roles, BeforePost
<1>1. /\ Quote' = Quote /\ FromBook' = FromBook /\ HasSpread' = HasSpread
      /\ FromMark' = FromMark
  BY <1>0, SameRead
<1>2. PICK p \in Levels :
         \/ NoteArrival(bids, p, "buy") /\ asks' = asks /\ bids' = Toggle(bids, p)
         \/ NoteArrival(asks, p, "sell") /\ bids' = bids /\ asks' = Toggle(asks, p)
  BY DEF Others
<1>3. /\ arrived \subseteq arrived' /\ arrived' \subseteq {"sell", "buy"}
      /\ "buy" \notin arrived' => bids' \subseteq bids
      /\ "sell" \notin arrived' => asks' \subseteq asks
  BY <1>2 DEF NoteArrival, Toggle, QuoteTypeOK
<1>4. bids' \subseteq Levels /\ asks' \subseteq Levels
  BY <1>2 DEF Toggle, QuoteTypeOK
<1>5. Uncrossed(bids', asks')
  BY DEF Others, Uncrossed, WithOurs
<1>6. moves' \in 0..MaxMoves
  BY <1>0, ConstantFacts DEF QuoteTypeOK
<1>7. ahead' \in BOOLEAN
  BY <1>0
<1>8. QuoteTypeOK'
  BY <1>0, <1>3, <1>4, <1>5, <1>6, <1>7 DEF QuoteTypeOK, read
<1>9. Roles'
  BY <1>0 DEF Roles, BeforePost
<1>10. BookAsRead'
  BY <1>0, <1>3 DEF BookAsRead, read
<1>11. RestsAtQuote'
  BY <1>0, <1>1, <1>3 DEF RestsAtQuote
<1>12. QuoteRests' /\ RestsNeverTakes' /\ QuoteInBand' /\ MeetsInSpread'
  BY <1>0 DEF QuoteRests, RestsNeverTakes, QuoteInBand, MeetsInSpread
<1> QED
  BY <1>8, <1>9, <1>10, <1>11, <1>12

LEMMA QuoteOthersTakeOurs ==
    ASSUME QuoteGroup, OthersTakeOurs PROVE QuoteGroup'
<1> USE DEF QuoteGroup
<1>0. /\ pc = "take" /\ moves < MaxMoves /\ moves' = moves + 1 /\ met = "nobody"
      /\ price' = 0 /\ ahead' = FALSE /\ UNCHANGED <<pc, task, side, book, read, met>>
      /\ arrived' = arrived \cup {IF side = "sell" THEN "buy" ELSE "sell"}
  BY DEF OthersTakeOurs, Roles
<1>1. moves' \in 0..MaxMoves
  BY <1>0, ConstantFacts DEF QuoteTypeOK
<1>2. QuoteTypeOK'
  BY <1>0, <1>1 DEF QuoteTypeOK, Uncrossed, book, read
<1>3. Roles'
  BY <1>0 DEF Roles, BeforePost
<1>4. BookAsRead' /\ RestsAtQuote'
  BY <1>0 DEF BookAsRead, RestsAtQuote, book, read
<1>5. QuoteRests' /\ RestsNeverTakes' /\ QuoteInBand' /\ MeetsInSpread'
  BY <1>0 DEF QuoteRests, RestsNeverTakes, QuoteInBand, MeetsInSpread
<1> QED
  BY <1>2, <1>3, <1>4, <1>5

LEMMA QuoteQuoting ==
    ASSUME QuoteGroup, Quoting PROVE QuoteGroup'
BY QuoteReadMark, QuoteReadTop, QuoteRestOrder, QuoteTakeOrder, QuoteOthers,
   QuoteOthersTakeOurs DEF Quoting

-----------------------------------------------------------------------------
(***************************************************************************)
(* The first steps of a test: market, size, baseline and the order itself. *)
(***************************************************************************)
LEMMA QuoteTests ==
    ASSUME QuoteGroup, SizeGroup, Resolve \/ SizeOrder \/ Baseline
    PROVE  QuoteGroup' /\ SizeGroup'
<1>1. CASE Resolve
  <2>1. pc = "resolve" /\ pc' = "mark" /\ UNCHANGED <<quoting, amount>> /\ fellBack' \in BOOLEAN
    BY <1>1 DEF Resolve
  <2>2. mkt' \in Market
    BY <1>1, ConstantFacts, ResolveGivesMarket DEF Resolve
  <2>3. QuoteGroup'
    BY <2>1, QuoteKept DEF BeforePost
  <2>4. SizeGroup'
    BY <2>1, <2>2, MarketFacts DEF SizeGroup, SizedInMarket
  <2> QED
    BY <2>3, <2>4
<1>2. CASE SizeOrder
  <2>1. /\ pc = "mark" /\ task = "rest_perp" /\ mkt \in Market /\ amount \in Nat
        /\ UNCHANGED <<task, side, book, best_bid, best_ask, price, ahead, met, moves,
                       arrived, mkt, fellBack>>
    BY <1>2 DEF SizeOrder, SizeGroup, SizedInMarket
  <2>2. mark' \in {0, Mark} /\ pc' \in {"baseline", "teardown"}
    BY <1>2 DEF SizeOrder, Fail
  <2>3. QuoteTypeOK'
    BY <2>1, <2>2 DEF QuoteGroup, QuoteTypeOK, Uncrossed, book
  <2>4. Roles'
    BY <2>1, <2>2 DEF QuoteGroup, Roles, BeforePost, Tests, Makers
  <2>5. BookAsRead' /\ RestsAtQuote' /\ MeetsInSpread'
    BY <2>2 DEF BookAsRead, RestsAtQuote, MeetsInSpread
  <2>6. QuoteRests' /\ RestsNeverTakes' /\ QuoteInBand'
    BY <2>1, <2>4 DEF QuoteGroup, Roles, BeforePost, QuoteRests, RestsNeverTakes, QuoteInBand
  <2>7. /\ amount' \in Nat
        /\ pc' = "baseline" =>
              mark' = Mark /\ (LotAligned(mkt) => Honours(amount', Notional, Mark, mkt))
    <3>1. CASE mark' = 0 /\ UNCHANGED amount /\ Fail("no_mark")
      BY <2>1, <3>1 DEF Fail
    <3>2. CASE /\ mark' = Mark
               /\ \E extra \in Extras(Notional, Mark, mkt) :
                     amount' = SizeAmount(Notional, Mark, mkt, extra)
      <4>1. PICK extra \in {0, 1} : amount' = SizeAmount(Notional, Mark, mkt, extra)
        BY <3>2 DEF Extras
      <4>2. Notional \in Nat /\ Mark \in Nat \ {0}
        BY ConstantFacts
      <4>3. amount' \in Nat
        BY <2>1, <4>1, <4>2, SizeIsNat
      <4>4. LotAligned(mkt) => Honours(amount', Notional, Mark, mkt)
        BY <2>1, <4>1, <4>2, SizeHonours
      <4> QED
        BY <3>2, <4>3, <4>4
    <3> QED
      BY <1>2, <3>1, <3>2 DEF SizeOrder
  <2>8. SizeGroup'
    BY <2>1, <2>2, <2>7 DEF SizeGroup, SizedInMarket, LotAligned, Honours, Worth, Aimed
  <2> QED
    BY <2>3, <2>4, <2>5, <2>6, <2>8 DEF QuoteGroup
<1>3. CASE Baseline
  <2>1. /\ pc = "baseline" /\ task \in Tests
        /\ UNCHANGED <<task, side, book, read, ahead, met, moves, arrived, market>>
    BY <1>3 DEF Baseline, Poll, QuoteGroup, Roles
  <2>2. \/ pc' = pc \/ pc' = "teardown"
        \/ pc' = "mark" /\ task # "rest_perp"
        \/ pc' = "rest" /\ task = "rest_perp"
    BY <1>3, <2>1 DEF Baseline, Poll, Fail
  <2>3. SizeGroup'
    BY <2>1, <2>2 DEF SizeGroup, SizedInMarket, market, read
  <2>4. CASE pc' # "rest"
    <3>1. UNCHANGED quoting
      BY <1>3, <2>1, <2>4 DEF Baseline, quoting
    <3> QED
      BY <2>1, <2>2, <2>3, <2>4, <3>1, QuoteKept DEF Stopped, BeforePost
  <2>5. CASE pc' = "rest"
    <3>1. task = "rest_perp" /\ mkt \in Market /\ mark = Mark
      BY <2>1, <2>2, <2>5 DEF SizeGroup, SizedInMarket
    <3>2. price' \in Nat
      <4>1. (95 * mark) \div 100 \in Nat
        <5>1. \A x \in Nat : x \div 100 \in Nat
          OBVIOUS
        <5>2. 95 * mark \in Nat
          BY <3>1, ConstantFacts
        <5> QED
          BY <5>1, <5>2
      <4>2. mkt.tick \in Nat \ {0}
        BY <3>1, MarketFacts
      <4> QED
        BY <1>3, <2>5, <4>1, <4>2, NearestIsNat DEF Baseline, PerpRestPrice, RoundTick
    <3>3. QuoteTypeOK'
      BY <2>1, <3>2 DEF QuoteGroup, QuoteTypeOK, Uncrossed, book, read
    <3>4. Roles'
      BY <2>1, <2>5 DEF QuoteGroup, Roles, BeforePost, Tests, Makers
    <3>5. BookAsRead' /\ RestsAtQuote' /\ MeetsInSpread'
      BY <2>1, <2>5, <3>1 DEF BookAsRead, RestsAtQuote, MeetsInSpread
    <3>6. QuoteRests' /\ RestsNeverTakes' /\ QuoteInBand'
      BY <2>5, <3>4 DEF Roles, BeforePost, QuoteRests, RestsNeverTakes, QuoteInBand
    <3> QED
      BY <2>3, <3>3, <3>4, <3>5, <3>6 DEF QuoteGroup
  <2> QED
    BY <2>4, <2>5
<1> QED
  BY <1>1, <1>2, <1>3

\* The spot test's price is below what was read as the best ask.
LEMMA RestsBelowAsk ==
    ASSUME QuoteGroup, pc = "rest", task = "rest_spot", "sell" \notin arrived
    PROVE  ~Crosses(SpotRestPrice)
<1>1. /\ side = "buy" /\ asks \in SUBSET Nat /\ best_ask \in Nat /\ best_bid \in Nat
      /\ mark \in Nat
  BY QuoteTypes DEF QuoteGroup, Roles, Tests
<1>2. \A q \in asks : best_ask > 0 /\ best_ask <= q
  BY DEF QuoteGroup, BookAsRead
<1>3. ReferenceOrMark \in Nat
  BY <1>1 DEF ReferenceOrMark, Reference
<1>4. (9 * ReferenceOrMark + 5) \div 10 \in Int
  <2>1. \A x \in Int : x \div 10 \in Int
    OBVIOUS
  <2> QED
    BY <1>3, <2>1
<1>5. SpotRestPrice \in Int /\ (best_ask > 0 => SpotRestPrice < best_ask)
  BY <1>1, <1>4 DEF SpotRestPrice, BelowAsk, Smaller
<1>6. \A q \in asks : q > SpotRestPrice
  BY <1>1, <1>2, <1>5
<1> QED
  BY <1>1, <1>6 DEF Crosses, Other, Better

LEMMA QuotePost ==
    ASSUME QuoteGroup, SizeGroup, Post PROVE QuoteGroup' /\ SizeGroup'
<1>1. /\ pc = "rest" /\ task \in Tests /\ Forget /\ met = "nobody"
      /\ UNCHANGED <<task, side, ahead, arrived, fellBack>>
  BY DEF Post, QuoteGroup, Roles, BeforePost
<1>2. pc' \in {"visible", "teardown"} /\ met' \in {met, "rejected", "taker"}
  BY DEF Post, Fail
<1>3. QuoteTypeOK'
  BY <1>1, <1>2, ConstantFacts DEF QuoteGroup, QuoteTypeOK, Uncrossed, Forget
<1>4. Roles'
  BY <1>1, <1>2 DEF QuoteGroup, Roles, BeforePost
<1>5. BookAsRead' /\ RestsAtQuote' /\ MeetsInSpread'
  BY <1>2 DEF BookAsRead, RestsAtQuote, MeetsInSpread
<1>6. QuoteRests' /\ QuoteInBand'
  BY <1>1 DEF QuoteRests, QuoteInBand, Makers, Tests
<1>7. RestsNeverTakes'
  <2>1. met' = "taker" => Crosses(RestPrice)
    BY <1>1 DEF Post
  <2>2. task = "rest_spot" => RestPrice = SpotRestPrice
    BY DEF RestPrice
  <2> QED
    BY <1>1, <2>1, <2>2, RestsBelowAsk DEF RestsNeverTakes
<1>8. SizeGroup'
  BY <1>1, <1>2 DEF SizeGroup, SizedInMarket, Forget
<1> QED
  BY <1>3, <1>4, <1>5, <1>6, <1>7, <1>8 DEF QuoteGroup

\* Every other step of a test, and those of the platform, leave the quote alone.
LEMMA QuoteLater ==
    ASSUME QuoteGroup, SizeGroup,
           \/ Visible \/ Mine \/ WaitLock \/ During \/ InHistory \/ Cancel \/ Gone \/ Release
           \/ Asserts \/ CancelLeftovers \/ Advance \/ CatchUp
    PROVE  QuoteGroup' /\ SizeGroup'
<1>1. UNCHANGED <<quoting, market>>
  BY DEF Visible, Mine, WaitLock, During, InHistory, Cancel, Gone, Release, Asserts,
         CancelLeftovers, Advance, CatchUp, AfterPost
<1>2. pc' = pc \/ pc' \in BeforeCancel \cup AfterCancel \cup Stopped
  BY DEF Visible, Mine, WaitLock, During, InHistory, Cancel, Gone, Release, Asserts,
         CancelLeftovers, Advance, CatchUp, Poll, Fail, BeforeCancel, AfterCancel, Stopped
<1>3. QuoteGroup'
  BY <1>1, <1>2, QuoteKept
<1>4. SizeGroup'
  BY <1>1, <1>2 DEF SizeGroup, SizedInMarket, quoting, market, read, BeforeCancel,
                    AfterCancel, Stopped
<1> QED
  BY <1>3, <1>4

LEMMA SizeQuoting ==
    ASSUME SizeGroup, Quoting PROVE SizeGroup'
<1>1. UNCHANGED market /\ pc' \notin {"mark", "baseline"}
  BY DEF Quoting, ReadMark, ReadTop, RestOrder, TakeOrder, Others, OthersTakeOurs, resting
<1> QED
  BY <1>1 DEF SizeGroup, SizedInMarket, market

LEMMA QuoteInit ==
    ASSUME RestingInit PROVE QuoteGroup /\ SizeGroup
<1>1. /\ pc \in {"read", "mark", "baseline", "resolve"} /\ met = "nobody" /\ arrived = {}
      /\ task \in Makers \cup Tests
  BY DEF RestingInit, AnyBook, Makers, Tests
<1>2. QuoteTypeOK
  <2>1. bids \subseteq Levels /\ asks \subseteq Levels /\ Uncrossed(bids, asks)
    BY DEF RestingInit, AnyBook, Sides
  <2>2. /\ side \in {"sell", "buy"} /\ mark = 0 /\ best_bid = 0 /\ best_ask = 0
        /\ price = 0 /\ ahead = FALSE /\ moves = 0
    BY DEF RestingInit, AnyBook
  <2>3. moves \in 0..MaxMoves /\ price \in Nat
    BY <2>2, ConstantFacts
  <2> QED
    BY <1>1, <2>1, <2>2, <2>3 DEF QuoteTypeOK
<1>3. Roles
  BY <1>1 DEF RestingInit, Roles, Makers, Tests
<1>4. BookAsRead /\ RestsAtQuote /\ MeetsInSpread
  BY <1>1 DEF BookAsRead, RestsAtQuote, MeetsInSpread
<1>5. QuoteRests /\ RestsNeverTakes /\ QuoteInBand
  BY <1>1 DEF QuoteRests, RestsNeverTakes, QuoteInBand
<1>6. SizeGroup
  BY <1>1 DEF RestingInit, SizeGroup, SizedInMarket
<1> QED
  BY <1>2, <1>3, <1>4, <1>5, <1>6 DEF QuoteGroup

-----------------------------------------------------------------------------
(***************************************************************************)
(* The platform, its replicas, and what a test has read.                   *)
(***************************************************************************)
Stages == {0, 1, 2, 3, 4, 5, 6}

LEMMA StageFacts ==
    /\ Stage = Stages /\ Stages \subseteq Nat
    /\ Settling = 0 /\ Settled = 1 /\ Open = 2 /\ Locked = 3 /\ Left = 4 /\ Released = 5
    /\ Filled = 6
BY DEF Stage, Stages, Settling, Settled, Open, Locked, Left, Released, Filled

\* A read by a test: unless it went back in time, what it answers is now the latest.
LEMMA ReadFacts ==
    ASSUME StageGroup, NEW r \in Replica, Reads(r), UNCHANGED <<world, seen>>
    PROVE  /\ latest' \in Stage /\ wentBack' \in BOOLEAN /\ Happened(latest')
           /\ wentBack => wentBack'
           /\ ~wentBack' => latest' = seen[r] /\ latest <= seen[r]
           /\ seen[r] \in Stage /\ Happened(seen[r]) /\ latest \in Stage
<1>1. /\ seen[r] \in Stage /\ Happened(seen[r]) /\ latest \in Stage /\ Happened(latest)
      /\ wentBack \in BOOLEAN
  BY DEF StageGroup, StageTypeOK
<1>2. latest' = IF latest > seen[r] THEN latest ELSE seen[r]
  BY DEF Reads, Larger
<1>3. wentBack' = (wentBack \/ seen[r] < latest)
  BY DEF Reads
<1>4. wentBack' \in BOOLEAN /\ (wentBack => wentBack') /\ (~wentBack' => ~(seen[r] < latest))
  BY <1>1, <1>3, Zenon
<1>5. ~(seen[r] < latest) => latest' = seen[r] /\ latest <= seen[r]
  BY <1>1, <1>2, StageFacts DEF Stages
<1>6. latest' \in Stage /\ Happened(latest')
  BY <1>1, <1>2
<1> QED
  BY <1>1, <1>4, <1>5, <1>6

LEMMA ReadKeeps ==
    ASSUME StageGroup, NEW r \in Replica, Reads(r),
           UNCHANGED <<world, seen, asked, swept, refused>>,
           in_history' \in BOOLEAN, during' \in {"none", "base", "less", "other"}
    PROVE  StageTypeOK' /\ (\A q \in Replica : Happened(seen[q]))' /\ Happened(latest)'
<1>1. latest' \in Stage /\ wentBack' \in BOOLEAN /\ Happened(latest')
  BY ReadFacts
<1>2. StageTypeOK'
  BY <1>1 DEF StageGroup, StageTypeOK
<1>3. (\A q \in Replica : Happened(seen[q]))' /\ Happened(latest)'
  BY <1>1 DEF StageGroup, Happened
<1> QED
  BY <1>2, <1>3

\* A turn of a poll: it goes on, it has seen what it waits for, or it gives up.
LEMMA PollFacts ==
    ASSUME StageGroup, NEW at, NEW will_do, NEW next, Poll(at, will_do, next),
           UNCHANGED <<platform, local, swept, refused>>
    PROVE  /\ pc = at
           /\ StageTypeOK' /\ (\A q \in Replica : Happened(seen[q]))' /\ Happened(latest)'
           /\ wentBack => wentBack'
           /\ ~wentBack' => latest \in Stages /\ latest' \in Stages /\ latest <= latest'
           /\ \/ pc' = pc /\ outcome' = outcome
              \/ pc' = next /\ outcome' = outcome /\ (~wentBack' => latest' \in will_do)
              \/ pc' = "teardown" /\ outcome' = "gave_up"
<1>1. UNCHANGED <<world, seen, asked, during, in_history, swept, refused>>
  BY DEF platform, local
<1>2. in_history' \in BOOLEAN /\ during' \in {"none", "base", "less", "other"}
  BY <1>1 DEF StageGroup, StageTypeOK
<1>3. CASE \E r \in Replica :
             /\ Reads(r)
             /\ IF seen[r] \in will_do THEN pc' = next ELSE pc' = pc
             /\ UNCHANGED outcome
  <2>1. PICK r \in Replica :
             /\ Reads(r)
             /\ IF seen[r] \in will_do THEN pc' = next ELSE pc' = pc
             /\ UNCHANGED outcome
    BY <1>3
  <2>2. StageTypeOK' /\ (\A q \in Replica : Happened(seen[q]))' /\ Happened(latest)'
    BY <1>1, <1>2, <2>1, ReadKeeps
  <2>3. /\ latest' \in Stage /\ latest \in Stage /\ (wentBack => wentBack')
        /\ ~wentBack' => latest' = seen[r] /\ latest <= seen[r]
    BY <1>1, <2>1, ReadFacts
  <2> QED
    BY <2>1, <2>2, <2>3, StageFacts DEF Poll
<1>4. CASE Fail("gave_up") /\ UNCHANGED <<latest, wentBack>>
  <2>1. StageTypeOK' /\ (\A q \in Replica : Happened(seen[q]))' /\ Happened(latest)'
    BY <1>1, <1>4 DEF StageGroup, StageTypeOK, Happened
  <2>2. latest \in Stages /\ latest <= latest
    BY StageFacts DEF StageGroup, StageTypeOK, Stages
  <2> QED
    BY <1>4, <2>1, <2>2 DEF Poll, Fail
<1> QED
  BY <1>3, <1>4 DEF Poll

LEMMA StageQuoting ==
    ASSUME StageGroup, QuoteGroup, Quoting PROVE StageGroup'
<1>1. /\ UNCHANGED <<world, seen, asked, latest, wentBack, during, in_history, outcome>>
      /\ UNCHANGED <<swept, refused>> /\ task' = task
  BY DEF Quoting, resting, teardown, platform, history, ReadMark, ReadTop, RestOrder, TakeOrder, Others,
         OthersTakeOurs
<1>2. pc \in BeforePost \cup {"take"} /\ pc' \in BeforePost \cup {"take", "done", "raised"}
  BY DEF Quoting, ReadMark, ReadTop, RestOrder, TakeOrder, Others, OthersTakeOurs, BeforePost
<1>3. task \in Tests => pc \in BeforePost
  BY <1>2 DEF QuoteGroup, Roles, Tests, Makers
<1>4. StageTypeOK' /\ (\A q \in Replica : Happened(seen[q]))' /\ Happened(latest)'
  BY <1>1 DEF StageGroup, StageTypeOK, Happened
<1>5. WorldAt'
  BY <1>1, <1>2, <1>3 DEF StageGroup, WorldAt, BeforePost, BeforeCancel, Stopped
<1>6. (~wentBack => Knows)'
  BY <1>1, <1>2 DEF StageGroup, Knows, BeforePost, AfterCancel
<1>7. LeftoverOnlyIfMissed'
  BY <1>2 DEF LeftoverOnlyIfMissed, BeforePost
<1> QED
  BY <1>4, <1>5, <1>6, <1>7 DEF StageGroup

LEMMA StageEarly ==
    ASSUME StageGroup, QuoteGroup, Resolve \/ SizeOrder \/ Baseline PROVE StageGroup'
<1>1. /\ UNCHANGED <<world, seen, asked, during, in_history, swept, refused>> /\ task' = task
      /\ pc \in BeforePost \ {"rest"} /\ pc' \in BeforePost \cup {"teardown"}
  BY DEF Resolve, SizeOrder, Baseline, Poll, Fail, platform, history, local, teardown, quoting,
         BeforePost
<1>2. /\ StageTypeOK' /\ (\A q \in Replica : Happened(seen[q]))' /\ Happened(latest)'
      /\ wentBack => wentBack'
      /\ pc' # "teardown" => outcome' = outcome
      /\ pc' = "teardown" => outcome' \in {"no_mark", "gave_up"}
  <2>1. CASE Resolve \/ SizeOrder
    <3>1. /\ UNCHANGED <<latest, wentBack>>
          /\ pc' # "teardown" => outcome' = outcome
          /\ pc' = "teardown" => outcome' \in {"no_mark", "gave_up"}
      BY <2>1 DEF Resolve, SizeOrder, Fail, history
    <3>2. StageTypeOK' /\ (\A q \in Replica : Happened(seen[q]))' /\ Happened(latest)'
      BY <1>1, <3>1 DEF StageGroup, StageTypeOK, Happened
    <3> QED
      BY <3>1, <3>2
  <2>2. CASE Baseline
    <3>1. UNCHANGED <<platform, local, swept, refused>>
      BY <2>2 DEF Baseline, teardown
    <3>2. Poll("baseline", AtBaseline, IF task = "rest_perp" THEN "rest" ELSE "mark")
      BY <2>2 DEF Baseline
    <3> QED
      BY <3>1, <3>2, PollFacts
  <2> QED
    BY <2>1, <2>2
<1>3. WorldAt'
  BY <1>1, <1>2 DEF StageGroup, WorldAt, BeforePost, BeforeCancel, Stopped
<1>4. outcome = "running"
  BY <1>1 DEF StageGroup, WorldAt, BeforePost, Stopped
<1>5. (~wentBack => Knows)'
  BY <1>1, <1>2, <1>4 DEF StageGroup, Knows, BeforePost, AfterCancel
<1>6. LeftoverOnlyIfMissed'
  BY <1>1 DEF LeftoverOnlyIfMissed, BeforePost
<1> QED
  BY <1>2, <1>3, <1>5, <1>6 DEF StageGroup

LEMMA StagePost ==
    ASSUME StageGroup, Post PROVE StageGroup'
<1>1. /\ pc = "rest" /\ task \in Tests /\ task' = task
      /\ UNCHANGED <<seen, asked, latest, wentBack, during, in_history, swept, refused>>
      /\ world' \in {world, Open, Filled}
  BY DEF Post, history, teardown
<1>2. world \in {Settling, Settled} /\ asked = FALSE /\ outcome = "running"
  BY <1>1 DEF StageGroup, StageTypeOK, WorldAt, BeforePost, Stopped
<1>3. \/ pc' = "visible" /\ world' \in {Open, Filled} /\ outcome' = outcome
      \/ pc' = "teardown" /\ outcome' \in {"no_price", "post_raised"}
  BY DEF Post, Fail
<1>4. \A s \in Stage : Happened(s) => Happened(s)'
  BY <1>1, <1>2, StageFacts DEF Happened, Stages
<1>5. StageTypeOK' /\ (\A q \in Replica : Happened(seen[q]))' /\ Happened(latest)'
  <2>1. world' \in Stage
    BY <1>1, <1>2, StageFacts DEF Stages
  <2>2. StageTypeOK'
    BY <1>1, <2>1 DEF StageGroup, StageTypeOK
  <2> QED
    BY <1>1, <1>4, <2>2 DEF StageGroup, StageTypeOK, Happened
<1>6. WorldAt'
  BY <1>1, <1>2, <1>3 DEF StageGroup, WorldAt, BeforePost, BeforeCancel, Stopped, Tests, Makers
<1>7. (~wentBack => Knows)'
  BY <1>1, <1>3, <1>2 DEF StageGroup, Knows, AfterCancel
<1>8. LeftoverOnlyIfMissed'
  BY <1>3 DEF LeftoverOnlyIfMissed
<1> QED
  BY <1>5, <1>6, <1>7, <1>8 DEF StageGroup

\* What the conditions of the polls say of a stage.
LEMMA SeenFacts ==
    /\ \A s \in SeenOpen : s \in {2, 3}
    /\ \A s \in SeenLocked : s \in {3, 4, 6}
    /\ \A s \in SeenGone : s \in {0, 1, 4, 5, 6}
    /\ \A s \in SeenReleased : s \in {1, 2, 5}
BY StageFacts DEF SeenOpen, SeenLocked, SeenGone, SeenReleased, IsOpen, Available, Stages

LEMMA StagePolls ==
    ASSUME StageGroup, Visible \/ WaitLock \/ Gone \/ Release PROVE StageGroup'
<1>1. /\ UNCHANGED <<platform, local, swept, refused>> /\ task' = task
      /\ UNCHANGED <<world, seen, asked, during, in_history>>
  BY DEF Visible, WaitLock, Gone, Release, AfterPost, quoting, platform, local, teardown
<1>2. outcome = "running" /\ pc \in BeforeCancel \cup AfterCancel
  BY DEF StageGroup, WorldAt, Stopped, Visible, WaitLock, Gone, Release, Poll, BeforeCancel,
         AfterCancel
<1> DEFINE Step(at, will_do, next) ==
              /\ pc = at
              /\ \/ pc' = pc /\ outcome' = outcome
                 \/ pc' = next /\ outcome' = outcome /\ (~wentBack' => latest' \in will_do)
                 \/ pc' = "teardown" /\ outcome' = "gave_up"
<1>3. /\ StageTypeOK' /\ (\A q \in Replica : Happened(seen[q]))' /\ Happened(latest)'
      /\ wentBack => wentBack'
      /\ ~wentBack' => latest \in Stages /\ latest' \in Stages /\ latest <= latest'
      /\ \/ Step("visible", SeenOpen, "mine")
         \/ Step("locked", SeenLocked, "during")
         \/ Step("gone", SeenGone, "released")
         \/ Step("released", SeenReleased, "assert")
  <2>1. CASE Visible
    BY <1>1, <2>1, PollFacts DEF Visible
  <2>2. CASE WaitLock
    BY <1>1, <2>2, PollFacts DEF WaitLock
  <2>3. CASE Gone
    BY <1>1, <2>3, PollFacts DEF Gone
  <2>4. CASE Release
    BY <1>1, <2>4, PollFacts DEF Release
  <2> QED
    BY <2>1, <2>2, <2>3, <2>4
<1>4. WorldAt'
  BY <1>1, <1>2, <1>3 DEF StageGroup, WorldAt, BeforePost, BeforeCancel, AfterCancel, Stopped
<1>5. ASSUME ~wentBack' PROVE Knows'
  <2>1. Knows /\ latest \in Stages /\ latest' \in Stages /\ latest <= latest'
    BY <1>3, <1>5 DEF StageGroup
  <2>2. CASE Step("visible", SeenOpen, "mine")
    BY <1>1, <1>2, <1>5, <2>1, <2>2, SeenFacts, StageFacts DEF Knows, AfterCancel, Stages
  <2>3. CASE Step("locked", SeenLocked, "during")
    BY <1>1, <1>2, <1>5, <2>1, <2>3, SeenFacts, StageFacts DEF Knows, AfterCancel, Stages
  <2>4. CASE Step("gone", SeenGone, "released")
    BY <1>1, <1>2, <1>5, <2>1, <2>4, SeenFacts, StageFacts DEF Knows, AfterCancel, Stages
  <2>5. CASE Step("released", SeenReleased, "assert")
    BY <1>1, <1>2, <1>5, <2>1, <2>5, SeenFacts, StageFacts DEF Knows, AfterCancel, Stages
  <2> QED
    BY <1>3, <2>2, <2>3, <2>4, <2>5
<1>6. LeftoverOnlyIfMissed'
  BY <1>2, <1>3 DEF LeftoverOnlyIfMissed, BeforeCancel, AfterCancel
<1> QED
  BY <1>3, <1>4, <1>5, <1>6 DEF StageGroup

\* The fresh reads: mine, during and in_history.
LEMMA StageReReads ==
    ASSUME StageGroup, Mine \/ During \/ InHistory PROVE StageGroup'
<1>1. /\ task' = task /\ UNCHANGED <<world, seen, asked, swept, refused>>
  BY DEF Mine, During, InHistory, AfterPost, quoting, platform, teardown
<1>2. /\ outcome = "running" /\ pc \in BeforeCancel
      /\ world \in {Open, Locked, Filled} /\ asked = FALSE
  BY DEF StageGroup, StageTypeOK, WorldAt, Stopped, Mine, During, InHistory, BeforeCancel
<1>3. PICK r \in Replica :
        /\ Reads(r)
        /\ \/ /\ pc = "mine" /\ UNCHANGED local
              /\ IF IsOpen(seen[r]) THEN pc' = "locked" /\ UNCHANGED outcome
                                    ELSE Fail("not_found")
           \/ /\ pc = "during" /\ during' = Available(seen[r]) /\ pc' = "history"
              /\ UNCHANGED <<outcome, in_history>>
           \/ /\ pc = "history" /\ in_history' = (task = "rest_spot" \/ seen[r] >= Open)
              /\ pc' = "cancel" /\ UNCHANGED <<outcome, during>>
  BY DEF Mine, During, InHistory
<1>4. /\ latest' \in Stage /\ wentBack' \in BOOLEAN /\ (wentBack => wentBack')
      /\ ~wentBack' => latest' = seen[r] /\ latest <= seen[r]
      /\ seen[r] \in Stage /\ Happened(seen[r]) /\ latest \in Stage
  BY <1>1, <1>3, ReadFacts
<1>5. Available(seen[r]) \in {"base", "less", "other"}
  BY <1>4, StageFacts DEF Available, Stages
<1>6. during' \in {"none", "base", "less", "other"} /\ in_history' \in BOOLEAN
  <2>1. during \in {"none", "base", "less", "other"} /\ in_history \in BOOLEAN
    BY DEF StageGroup, StageTypeOK
  <2>2. (task = "rest_spot" \/ seen[r] >= Open) \in BOOLEAN
    OBVIOUS
  <2> QED
    BY <1>3, <1>5, <2>1, <2>2 DEF local
<1>7. StageTypeOK' /\ (\A q \in Replica : Happened(seen[q]))' /\ Happened(latest)'
  BY <1>1, <1>3, <1>6, ReadKeeps
<1>8. \/ pc' \in BeforeCancel /\ outcome' = outcome
      \/ pc' = "teardown" /\ outcome' = "not_found"
  <2>1. \/ pc' \in {"locked", "history", "cancel"} /\ outcome' = outcome
        \/ Fail("not_found")
    BY <1>3, Zenon
  <2> QED
    BY <2>1 DEF BeforeCancel, Fail
<1>9. WorldAt'
  BY <1>1, <1>2, <1>8 DEF StageGroup, WorldAt, BeforePost, BeforeCancel, Stopped
<1>10. ASSUME ~wentBack' PROVE Knows'
  <2>1. Knows /\ latest' = seen[r] /\ latest <= seen[r] /\ seen[r] \in Stages
        /\ seen[r] \notin {Left, Released} /\ seen[r] <= world /\ latest \in Stages
    BY <1>2, <1>4, <1>10, StageFacts DEF StageGroup, Happened
  <2>2. CASE pc = "mine"
    <3>1. ~IsOpen(seen[r]) => world = Filled
      BY <1>2, <2>1, <2>2, StageFacts DEF Knows, IsOpen, Stages
    <3>2. pc' = "locked" \/ (pc' = "teardown" /\ ~IsOpen(seen[r]))
      BY <1>3, <2>2 DEF Fail
    <3> QED
      BY <1>1, <1>2, <1>8, <2>1, <2>2, <3>1, <3>2, StageFacts DEF Knows, AfterCancel, Stages
  <2>3. CASE pc = "during"
    <3>1. Available(seen[r]) = "less" \/ world = Filled
      BY <1>2, <2>1, <2>3, StageFacts DEF Knows, Available, Stages
    <3> QED
      BY <1>1, <1>2, <1>3, <2>1, <2>3, <3>1, StageFacts DEF Knows, AfterCancel, Stages
  <2>4. CASE pc = "history"
    <3>1. seen[r] >= Open
      BY <2>1, <2>4, StageFacts DEF Knows, Stages
    <3>2. in_history' /\ pc' = "cancel" /\ outcome' = outcome /\ during' = during
      BY <1>3, <2>4, <3>1
    <3> QED
      BY <1>1, <1>2, <2>1, <2>4, <3>2, StageFacts DEF Knows, AfterCancel, Stages
  <2> QED
    BY <1>3, <2>2, <2>3, <2>4
<1>11. LeftoverOnlyIfMissed'
  BY <1>8 DEF LeftoverOnlyIfMissed, BeforeCancel
<1> QED
  BY <1>7, <1>9, <1>10, <1>11 DEF StageGroup

LEMMA StageCancel ==
    ASSUME StageGroup, Cancel \/ Asserts PROVE StageGroup'
<1>1. /\ task' = task
      /\ UNCHANGED <<world, seen, latest, wentBack, during, in_history, swept, refused>>
  BY DEF Cancel, Asserts, platform, history, teardown, quoting
<1>2. outcome = "running"
  BY DEF StageGroup, WorldAt, Stopped, Cancel, Asserts
<1>3. asked' \in BOOLEAN
  BY DEF StageGroup, StageTypeOK, Cancel, Asserts, CancelAccepted, CancelRefused, platform
<1>4. StageTypeOK' /\ (\A q \in Replica : Happened(seen[q]))' /\ Happened(latest)'
  BY <1>1, <1>3 DEF StageGroup, StageTypeOK, Happened
<1>5. CASE Cancel
  <2>1. /\ pc = "cancel"
        /\ \/ pc' = "gone" /\ outcome' = outcome
           \/ pc' = "teardown" /\ outcome' = "cancel_raised"
    BY <1>5 DEF Cancel, Fail
  <2>2. WorldAt'
    BY <1>1, <1>2, <2>1 DEF StageGroup, WorldAt, BeforePost, BeforeCancel, Stopped
  <2>3. (~wentBack => Knows)'
    BY <1>1, <1>2, <2>1 DEF StageGroup, Knows, AfterCancel
  <2>4. LeftoverOnlyIfMissed'
    BY <2>1 DEF LeftoverOnlyIfMissed
  <2> QED
    BY <1>4, <2>2, <2>3, <2>4 DEF StageGroup
<1>6. CASE Asserts
  <2>1. /\ pc = "assert" /\ pc' = "teardown" /\ asked' = asked
        /\ outcome' = IF during = "less" /\ in_history THEN "passed" ELSE "assertion"
    BY <1>6 DEF Asserts, Fail, platform
  <2>2. WorldAt'
    BY <1>1, <1>2, <2>1 DEF StageGroup, WorldAt, BeforePost, BeforeCancel, Stopped
  <2>3. (~wentBack => Knows)'
    BY <1>1, <1>2, <2>1 DEF StageGroup, Knows, AfterCancel
  <2>4. LeftoverOnlyIfMissed'
    BY <2>1 DEF LeftoverOnlyIfMissed
  <2> QED
    BY <1>4, <2>2, <2>3, <2>4 DEF StageGroup
<1> QED
  BY <1>5, <1>6

LEMMA StageTeardown ==
    ASSUME StageGroup, CancelLeftovers PROVE StageGroup'
<1>1. /\ pc = "teardown" /\ pc' = "over" /\ task \in Tests /\ task' = task
      /\ UNCHANGED <<world, seen, latest, wentBack, during, in_history, outcome, fellBack>>
  BY DEF CancelLeftovers, history, quoting, market
<1>2. /\ asked' \in BOOLEAN /\ swept' \in Stage \cup {NotRead} /\ refused' \in BOOLEAN
      /\ IsOpen(world) /\ ~asked' => swept' < Open \/ fellBack \/ refused'
  <2>1. CASE swept' = NotRead /\ UNCHANGED <<refused, asked>>
    BY <2>1, StageFacts DEF StageGroup, StageTypeOK, NotRead
  <2>2. ASSUME NEW r \in Replica, swept' = seen[r],
               \/ CancelAccepted /\ refused' = FALSE
               \/ CancelRefused /\ refused' = TRUE
        PROVE  /\ asked' \in BOOLEAN /\ swept' \in Stage /\ refused' \in BOOLEAN
               /\ ~asked' => refused'
    BY <2>2 DEF CancelAccepted, CancelRefused, StageGroup, StageTypeOK
  <2>3. ASSUME NEW r \in Replica, swept' = seen[r], ~Listed(r), refused' = FALSE,
               UNCHANGED asked
        PROVE  /\ asked' \in BOOLEAN /\ swept' \in Stage /\ refused' \in BOOLEAN
               /\ IsOpen(world) => swept' < Open \/ fellBack
    <3>1. seen[r] \in Stages /\ world \in Stages /\ Happened(seen[r])
      BY StageFacts DEF StageGroup, StageTypeOK
    <3>2. IsOpen(world) => seen[r] < Open \/ fellBack
      BY <2>3, <3>1, StageFacts DEF Listed, IsOpen, Happened, Stages
    <3> QED
      BY <2>3, <3>2 DEF StageGroup, StageTypeOK
  <2> QED
    BY <2>1, <2>2, <2>3 DEF CancelLeftovers
<1>3. StageTypeOK' /\ (\A q \in Replica : Happened(seen[q]))' /\ Happened(latest)'
  BY <1>1, <1>2 DEF StageGroup, StageTypeOK, Happened
<1>4. WorldAt'
  BY <1>1 DEF StageGroup, WorldAt, BeforePost, BeforeCancel, Stopped, Tests, Makers
<1>5. (~wentBack => Knows)'
  BY <1>1 DEF StageGroup, Knows, AfterCancel
<1>6. LeftoverOnlyIfMissed'
  BY <1>1, <1>2 DEF LeftoverOnlyIfMissed, IsOpen, Open
<1> QED
  BY <1>3, <1>4, <1>5, <1>6 DEF StageGroup

\* The platform goes on, and nothing that was shown is taken back.
LEMMA StageAdvance ==
    ASSUME StageGroup, Advance PROVE StageGroup'
<1>1. /\ UNCHANGED <<pc, task, seen, latest, wentBack, during, in_history, outcome>>
      /\ UNCHANGED <<fellBack, swept, refused>>
  BY DEF Advance, quoting, market, history, teardown
<1>2. world \in Stages /\ asked \in BOOLEAN
  BY StageFacts DEF StageGroup, StageTypeOK
<1>3. /\ \/ world = 0 /\ world' = 1 /\ asked' = asked
         \/ world = 2 /\ world' = 3 /\ asked' = asked
         \/ world = 2 /\ asked /\ ~asked' /\ world' = 5
         \/ world = 3 /\ asked /\ ~asked' /\ world' = 4
         \/ world = 4 /\ world' = 5 /\ asked' = asked
         \/ world \in {2, 3} /\ world' = 6 /\ ~asked'
  BY StageFacts DEF Advance, IsOpen
<1>4. asked' \in BOOLEAN
  BY <1>2 DEF Advance
<1>5. \A s \in Stage : Happened(s) => Happened(s)'
  BY <1>3, StageFacts DEF Happened, Stages
<1>6. StageTypeOK' /\ (\A q \in Replica : Happened(seen[q]))' /\ Happened(latest)'
  <2>1. world' \in Stage
    BY <1>3, StageFacts DEF Stages
  <2>2. StageTypeOK'
    BY <1>1, <1>4, <2>1 DEF StageGroup, StageTypeOK
  <2> QED
    BY <1>1, <1>5, <2>2 DEF StageGroup, StageTypeOK, Happened
<1>7. WorldAt'
  BY <1>1, <1>3, StageFacts DEF StageGroup, WorldAt, BeforePost, BeforeCancel, Stopped
<1>8. (~wentBack => Knows)'
  <2>1. world = Filled => FALSE
    BY <1>3, StageFacts
  <2> QED
    BY <1>1, <2>1 DEF StageGroup, Knows
<1>9. LeftoverOnlyIfMissed'
  <2>1. IsOpen(world)' /\ ~asked' => IsOpen(world) /\ ~asked
    BY <1>3, StageFacts DEF IsOpen
  <2> QED
    BY <1>1, <2>1 DEF StageGroup, LeftoverOnlyIfMissed
<1> QED
  BY <1>6, <1>7, <1>8, <1>9 DEF StageGroup

LEMMA StageCatchUp ==
    ASSUME StageGroup, CatchUp PROVE StageGroup'
<1>1. /\ UNCHANGED <<pc, task, world, asked, latest, wentBack, during, in_history, outcome,
                     fellBack, swept, refused>>
      /\ \E r \in Replica : seen' = [seen EXCEPT ![r] = world]
  BY DEF CatchUp, quoting, market, history, teardown
<1>2. Happened(world)
  BY StageFacts DEF StageGroup, StageTypeOK, Happened, Stages
<1>3. \A q \in Replica : seen'[q] \in {seen[q], world}
  BY <1>1 DEF StageGroup, StageTypeOK
<1>4. StageTypeOK'
  BY <1>1 DEF StageGroup, StageTypeOK
<1>5. (\A q \in Replica : Happened(seen[q]))' /\ Happened(latest)'
  BY <1>1, <1>2, <1>3 DEF StageGroup, Happened
<1>6. WorldAt' /\ (~wentBack => Knows)' /\ LeftoverOnlyIfMissed'
  BY <1>1 DEF StageGroup, WorldAt, Knows, LeftoverOnlyIfMissed, IsOpen
<1> QED
  BY <1>4, <1>5, <1>6 DEF StageGroup

LEMMA StageInit ==
    ASSUME RestingInit PROVE StageGroup
<1>1. /\ task \in Makers \cup Tests /\ pc \in BeforePost /\ outcome = "running"
      /\ world \in {0, 1} /\ (task \in Makers => world = 1)
      /\ seen = [r \in Replica |-> world] /\ asked = FALSE /\ latest = 0 /\ wentBack = FALSE
      /\ during = "none" /\ in_history = FALSE /\ swept = NotRead /\ refused = FALSE
  BY StageFacts DEF RestingInit, BeforePost, Makers, Tests
<1>2. StageTypeOK
  BY <1>1, StageFacts DEF StageTypeOK, Stages
<1>3. WorldAt
  BY <1>1, StageFacts DEF WorldAt, BeforePost, BeforeCancel, Stopped
<1>4. (\A r \in Replica : Happened(seen[r])) /\ Happened(latest)
  BY <1>1, StageFacts DEF Happened
<1>5. Knows /\ LeftoverOnlyIfMissed
  BY <1>1 DEF Knows, BeforePost, AfterCancel, LeftoverOnlyIfMissed
<1> QED
  BY <1>2, <1>3, <1>4, <1>5 DEF StageGroup

-----------------------------------------------------------------------------
LEMMA RestingIInvInductive == RestingSpec => []RestingIInv
<1>1. RestingInit => RestingIInv
  BY QuoteInit, StageInit DEF RestingIInv
<1>2. RestingIInv /\ [RestingNext]_<<vars, resting>> => RestingIInv'
  <2> SUFFICES ASSUME RestingIInv, [RestingNext]_<<vars, resting>> PROVE RestingIInv'
    OBVIOUS
  <2>0. QuoteGroup /\ SizeGroup /\ StageGroup
    BY DEF RestingIInv
  <2>1. CASE Quoting
    BY <2>0, <2>1, QuoteQuoting, SizeQuoting, StageQuoting DEF RestingIInv
  <2>2. CASE Resolve \/ SizeOrder \/ Baseline
    BY <2>0, <2>2, QuoteTests, StageEarly DEF RestingIInv
  <2>3. CASE Post
    BY <2>0, <2>3, QuotePost, StagePost DEF RestingIInv
  <2>4. CASE Visible \/ WaitLock \/ Gone \/ Release
    BY <2>0, <2>4, QuoteLater, StagePolls DEF RestingIInv
  <2>5. CASE Mine \/ During \/ InHistory
    BY <2>0, <2>5, QuoteLater, StageReReads DEF RestingIInv
  <2>6. CASE Cancel \/ Asserts
    BY <2>0, <2>6, QuoteLater, StageCancel DEF RestingIInv
  <2>7. CASE CancelLeftovers
    BY <2>0, <2>7, QuoteLater, StageTeardown DEF RestingIInv
  <2>8. CASE Advance
    BY <2>0, <2>8, QuoteLater, StageAdvance DEF RestingIInv
  <2>9. CASE CatchUp
    BY <2>0, <2>9, QuoteLater, StageCatchUp DEF RestingIInv
  <2>10. CASE UNCHANGED <<vars, resting>>
    <3>1. UNCHANGED <<quoting, pc, market, platform, history, outcome, swept, refused>>
      BY <2>10 DEF vars, resting, teardown, quoting, book, read
    <3>2. QuoteGroup'
      BY <2>0, <3>1, QuoteKept
    <3>3. SizeGroup'
      BY <2>0, <3>1 DEF SizeGroup, SizedInMarket, quoting, market, read
    <3>4. StageGroup'
      BY <2>0, <3>1 DEF StageGroup, StageTypeOK, WorldAt, Happened, Knows, LeftoverOnlyIfMissed,
                        IsOpen, platform, history, quoting, market
    <3> QED
      BY <3>2, <3>3, <3>4 DEF RestingIInv
  <2> QED
    BY <2>1, <2>2, <2>3, <2>4, <2>5, <2>6, <2>7, <2>8, <2>9, <2>10 DEF RestingNext, Test
<1> QED
  BY <1>1, <1>2, PTL DEF RestingSpec

(***************************************************************************)
(* QuoteInv: a maker's quote made from the book takes only when somebody's *)
(* order came in on the other side after the read, a spot sell with a      *)
(* known mark is never refused for its price, the spot test's order takes  *)
(* only a sell that came later, and no read shows what has not happened.   *)
(***************************************************************************)
THEOREM QuoteInvariant == RestingSpec => []QuoteInv
<1>1. RestingIInv => QuoteInv
  BY DEF RestingIInv, QuoteGroup, SizeGroup, StageGroup, StageTypeOK, Roles, QuoteInv, TypeOK,
         Happened
<1> QED
  BY <1>1, RestingIInvInductive, PTL

(***************************************************************************)
(* With room between the best prices and nobody coming in after the read,  *)
(* the maker and the counterparty of lib/fee_flow.py meet.                 *)
(***************************************************************************)
THEOREM MakersMeetInSpread == RestingSpec => []MeetsInSpread
<1>1. RestingIInv => MeetsInSpread
  BY DEF RestingIInv, QuoteGroup
<1> QED
  BY <1>1, RestingIInvInductive, PTL

(***************************************************************************)
(* size_amount honours the filters of any market that can be listed, and   *)
(* the notional asked for.                                                 *)
(***************************************************************************)
THEOREM SizesAreHonoured == RestingSpec => []SizeHonoured
<1>1. RestingIInv => SizeHonoured
  BY DEF RestingIInv, SizeGroup, SizedInMarket, SizeHonoured
<1> QED
  BY <1>1, RestingIInvInductive, PTL

(***************************************************************************)
(* A resting-order test that passed, with no read from before an earlier   *)
(* one, has seen its own order cancelled unfilled and the money back.      *)
(***************************************************************************)
THEOREM PassesMeanReleased == RestingSpec => []PassMeansReleased
<1>1. RestingIInv => PassMeansReleased
  BY DEF RestingIInv, StageGroup, Knows, Happened, PassMeansReleased
<1> QED
  BY <1>1, RestingIInvInductive, PTL

(***************************************************************************)
(* A re-read after a poll fails a test only when somebody took its order,  *)
(* or when a read went back in time.                                       *)
(***************************************************************************)
THEOREM RereadAlarmsAreReal == RestingSpec => []AlarmsAreReal
<1>1. RestingIInv => AlarmsAreReal
  BY DEF RestingIInv, StageGroup, Knows, AlarmsAreReal
<1> QED
  BY <1>1, RestingIInvInductive, PTL

(***************************************************************************)
(* _cancel_leftovers leaves an order in the book only for one of the       *)
(* reasons that it can name.                                               *)
(***************************************************************************)
THEOREM LeftoversAreMissed == RestingSpec => []LeftoverOnlyIfMissed
<1>1. RestingIInv => LeftoverOnlyIfMissed
  BY DEF RestingIInv, StageGroup
<1> QED
  BY <1>1, RestingIInvInductive, PTL
=============================================================================
