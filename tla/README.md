# A TLA+ model of neodax-python

neodax-python tests a live trading platform (spot and perpetual futures) from
the outside: pytest suites drive its REST API, Playwright drives its web
application, k6 loads it. The logic that can go wrong in the harness itself is
in `lib/` and `fixtures/`: HTTP calls that are retried, tokens that expire while
a poll loop runs, money that is credited some time after it was sent, orders
that fill late or in parts, market-wide marks that must be put back, and state
shared by the tests of a process and by several pytest processes. These modules
model that logic. The platform is *external*: it is modelled as nondeterminism,
no kinder than what the code must cope with.

Paths below are relative to the root of the repository.

## 1. Inventory

For each part: the state it keeps, its operations, how it meets the others, what
is hard about it, and what makes it correct.

### HTTP (`lib/http.py`, `fixtures/clients.py`, `lib/auth.py`)

* **Rate limiter.** State: `_next_slot`, a lock. `wait()` reserves a slot under
  the lock and sleeps outside it. One limiter is shared by every client of a
  process, so that requests of one account wait for those of another. The suites call
  it from one thread; it is written for several, and modelled so. Correct when slots
  are an interval apart and the pace bound holds at every instant, retries included.
* **Resilient client.** No state between calls; a call keeps its attempt number.
  `_send` sends through the limiter, retries 429, 5xx (if `retry_on_5xx`) and
  every exception, `max_retries` times, with `Retry-After` or an exponential
  backoff. Hard: an exception does not say whether the request was executed.
  Correct when an answer is true of the last attempt, the budget is used exactly,
  and an effect is repeated only after an attempt of unknown fate.
* **Client factory.** Caches nothing but the list of contexts to dispose of.

### Accounts (`fixtures/accounts.py`, `lib/auth.py`, `lib/funding.py`, `lib/poll.py`, two tools)

* **Account tokens.** State: `jwt`, `refresh_token`, `trading_client`,
  `order_client` of a `TradingAccount`; `state["t"]` of `auto_refreshing`.
  Operations: authenticate, `refresh_account_token`, wrapped reads. Hard: refresh
  tokens are single use and the answer that carries the new one may be lost; four
  fields are renewed one after the other; the wrapper's clock is not the token's.
  Correct when an account in use is never half renewed and a wrapped read's token
  is bounded in age.
* **Provisioning.** Mint a wallet, faucet deposit, wait, transfer spot to perp,
  wait, refresh, enroll: in seven recipes, those of the fixtures `account`,
  `enrolled_account`, `perp_maker`, `spot_maker` and of the tools
  `arrange_perf_accounts.py` and `arrange_metamask_e2e.py` (a subject, a maker).
  Hard: credits are asynchronous, posts may take effect twice, or late, or although
  they raised, and the tools do not look at what their waits returned. Correct when
  what a fixture hands out is funded, and what a tool calls funded at least on its way.

### Trading (`lib/perp.py`, `lib/spot.py`, `lib/fee_flow.py`)

* **Perp and spot primitives.** Orders, cancels, fills, `close_all_perp_positions`,
  the top of the book, `resolve_perp_market`, `size_amount`. No state of their own.
  Hard: rounding upon rounding in `size_amount`; books that are empty or one-sided.
* **Maker quote.** `maker_price_inside_spread` and the spot rules, between other
  traders and orders that earlier runs left behind. Correct when the quote rests,
  is not refused, and the counterparty's order meets it.
* **Volume driver.** `drive_competition_volume`: open and close round trips until
  a target or a number of cycles. Counters: traded, cycles, skipped. Hard: fills
  that are late, partial, or with somebody else; orders never cancelled; posts that
  the client repeats, so that one call may leave two orders.
* **Maker capture.** `capture_subject_maker_fill`: attempts at a fill in which the
  subject made the market, both accounts closed between attempts.
* **Pair flattening.** `flatten_perp_pair`: reads two positions one after the
  other, crosses them reduce-only, closes the rest at the market. Correct when it
  takes exposure away only, and a flat return means flat.

### Suites with a protocol of their own (`suites/`)

* **Resting-order tests** (`nimbus/spot/test_orders.py`, `nimbus/perp/test_orders.py`).
  Place an order that rests, see it listed and the money locked, cancel it, see the
  money back; the module's teardown cancels what is left. Hard: every look is
  answered by some replica, polls are followed by fresh reads, and somebody may take
  the order. Correct when a pass means that the money came back, and a failure is real.
* **Competition fees** (`competition/test_perp_fee_tier.py`, `test_perp_nim_tier.py`,
  `test_perp_trade.py`, `test_spot_trade.py`, `lib/fees.py`, `lib/tiers.py`). Drive
  volume or deposit NIM until an account qualifies for a tier, wait until the platform
  has counted it, compare the rates shown and charged. Hard: volume, overlay, rates
  shown and rates charged follow each other, each with a delay. Correct when a green
  phase has shown something, and a red one has found something.

### Liquidation (`lib/liquidation.py`, `lib/mark_price.py`)

* **Stepwise drive.** Injects deeper and deeper marks until the scanner takes a
  tier off the position; the mark is market-wide and must be restored, by the test
  or its module's teardown, also when a read raises.
* **Cross-account drive.** Holds several marks at once, re-injecting from inside
  the poll loop. A mark lasts about 2 s. A turn of the loop sleeps 1.5 s and sends three
  requests or more, each of which waits for a slot of the shared limiter: at the default
  5 a second the turn is nearer to 2 s than to 1.5. Correct when the real mark is never
  back for as long as a window of the scanner.

### Output of a run (`lib/run_context.py`, `lib/report.py`, `lib/artifacts.py`, `fixtures/reporting.py`, `conftest.py`)

* **Run context.** A folder `run-NNNN-<stamp>` made by the controlling process,
  published through the environment, a pointer file and a symlink; workers and
  tools look it up. Hard: concurrent sessions on one file system.
* **Test records.** Module state: the report buffers, the stamp of the running
  test, the set of orders whose trades were saved. Hard: fixtures of wider scope
  run between tests; fill readers are polled across tests.

### Red-green tool (`tools/red_green.py`)

Runs a test file, corrupts the expected values in its asserts, runs it again, puts
the file back. State: the file, on disk, shared with the developer's editor and with
other runs of the tool. Correct when the file is restored and the verdicts are true.

### Other parts, not modelled

Schemas and validation, run parameters, the API suites beyond those named above,
browser tests, load scripts, the coverage tool, CI. Reasons are in section 7 and,
part by part, in `PROJECT.json`.

## 2. Modules

| Module | Models | State and actions |
|---|---|---|
| `CallContract` | what a post promises its caller, whatever the network does (abstract) | per call: phase, effects so far, attempts of unknown fate |
| `ResilientHttp` | `ResilientClient._send` | one action per step of the loop (`Send`, `Receive`, `NetworkError`, `Retry`); the platform executes, refuses or drops each request on its own time |
| `RateLimiter` | `RateLimiter.wait` | `Reserve` is the critical section, `Proceed` the return from the sleep, `Tick` the clock |
| `PacedHttp` | the two together, in time | each attempt takes a slot; sleeps follow `Retry-After` or `Backoff` |
| `TokenLifecycle` | `refresh_account_token`, `auto_refreshing` | ages of the tokens the account and its clients hold; the server's revocation; one action per branch |
| `Provisioning` | the seven recipes, over three `CallContract` calls | the recipe and its program counter, balances, credits on their way, the running wait, the token's age |
| `PerpExchange` | the market the drivers trade on (external), `create_perp_order` | two legs an account, every order accepted; matching a unit at a time, with our orders or with outsiders; `PlaceAgain` is a post that is carried out, whose answer is lost and which the client sends once more |
| `CloseAllPositions` | `close_all_perp_positions` | one action: a turn of its loop |
| `VolumeDriver` | `drive_competition_volume`, `_leg` | the program counter of the loop, its target and counters |
| `Tiers` | `lib/tiers.py` | operators: the schedule as tiers, which one a volume or a balance qualifies for |
| `TierSettlement` | phases 1 to 4 of the fee-tier flow, the NIM test, the trade tests | one action per step of a test; the platform counts, activates, applies late, and may have one of five faults |
| `MakerCapture` | `capture_subject_maker_fill` | attempts, where in the book this one began, the order watched, the fill returned |
| `FlattenPair` | `flatten_perp_pair` | the round, the two reads, how it ended |
| `FeeTierFlow` | phase 5 of the flow: capture, then teardown, on one exchange | composes the two modules above; `Starts` are what the drive or a first attempt leaves |
| `MakerQuote` | the mark, the top of the book, the three price rules and the two orders that rely on them | sets of prices, the top as read, who met whom |
| `Sizing` | `resolve_perp_market`, `size_amount`, `round_tick` | operators on amounts in thousandths and prices in ticks |
| `RestingOrder` | the two resting-order tests and their teardown | the platform's stage for order and money, how far each replica is, one action per poll, read and post |
| `StepwiseLiquidation` | the stepwise drive inside `test_tiered_reduction.py` | steps, sizes, the mark in force, what the teardown knows |
| `CrossLiquidation` | the cross-account drive and `MarkHolder.pump` | time left, what the turn has taken so far, the limiter's slot, the posts still to send and the one under way, the age of each mark |
| `RunContext` | `create_run_context` one file-system call at a time, `run_dir` | folders, pointer, symlink, each process's environment and cache |
| `TestRecords` | `report.py`, `artifacts.py`, `reporting.py` | pytest's phases, the buffers, the stamp, the records; which tests were called, which writes were lost (history) |
| `RedGreen` | `tools/red_green.py` | the file's version, how often it is corrupted and whether a write has emptied it, each run's program counter and verdict, the developer |

`MC...` modules and `.cfg` files are the instances for TLC. `...Proofs` modules
hold theorems. Definitions named "Mutant" in a comment are wrong versions of the definition
they stand beside; each property has one that breaks it.

How they compose. `PacedHttp` EXTENDS `ResilientHttp` and `RateLimiter`.
`ResilientHttp` implements `CallContract` (INSTANCE with a refinement mapping),
and `Provisioning` is built on `CallContract`, not on the client. `TierSettlement`
EXTENDS `VolumeDriver` and `Tiers`: the drive runs inside phase 2, on the exchange;
once it is over the exchange is forgotten but for what the subject traded (`earned`)
and what its orders may still fill (`late`). `FeeTierFlow` EXTENDS `MakerCapture` and
`FlattenPair`, which share `CloseAllPositions` and `PerpExchange`. `RestingOrder`
EXTENDS `MakerQuote` and `Sizing`: the tests price from the same book as the makers.

### Abstractions worth knowing

* Prices and amounts are small integers: units of `step_size`, of notional, of a
  tier, of 50000 USDT; time is in units of 0.25 s or 15 s, said in each `.cfg`.
* An exception of a read or a post is an action of its own; when the request may
  have been executed all the same, both outcomes are alternatives.
* A request is carried out before the attempt that sent it has ended, or never: no
  request is found executed after the client went on to something else. That a post is
  carried out, is not answered and is sent again (`lib/http.py:108-113`) is `PlaceAgain`
  in the modules that trade, and part of `CallContract` for those that provision. In
  `RestingOrder` a post is carried out once at most: a second order locks twice the
  money, which its tests would tell as a failure, and nothing there cancels by order.
* Reads of the account in `TierSettlement` do not go back in time; those of
  `RestingOrder` do, from replicas that lag.
* The run pointer is written in one step. The test file of `RedGreen` is not: a write
  empties it first.
* The exchange matches its arrivals in the order it accepted them; orders that
  rest trade at any time. Outsiders may trade with any order at any moment.
* A history variable (marked "history") records what a property compares with and
  never enables or disables a step.

## 3. Runs

| Run | Question | Bounds, and why they are enough | States |
|---|---|---|---|
| `resilient_http` | do answers tell the truth, when does an effect repeat, is `CallContract` kept? | a read with two retries (a first, a middle and a last attempt) beside an order call with one; every order of delivery | 55 000 |
| `paced_http` | are requests, retries included, paced, and is `Retry-After` honoured? | two threads, one retry each, slots every 2, backoff 2 and 3 (the cap), `Retry-After` 0 or 3, six time units: room for all four requests at the limiter's pace | 1.6 million |
| `token_lifecycle` | is an account in use whole; how old is a token a wrapped read sends? | life of a token 4 units, refresh after 3, three posts; ages saturate at expiry, so time is unbounded | 4 100 |
| `provisioning` | what is a fixture's account worth, what a tool's, and does it end? | seven recipes, two attempts a post, waits of 2 units, token life 4 | 40 500 |
| `fee_tiers` | do the drive's counters mean what they say; what does a green phase show, when is a red one false? | a drive of two cycles, of two units (partial fills) and of one (orders left from the cycle before); one of the opening orders of the second cycle may be carried out twice (`MaxRepeats`, `Unanswered`), which leaves the longest tail of orders before it; two schedules of three tiers, one of them not to be realized; four standard tiers around the target; every fault; one unit of earlier volume, two NIM deposits, two hours. States are told apart by how much of an order is filled, not in which role (`VIEW`): neither the drive nor a property reads the role | 971 000 |
| `fee_tier_flow` | whose order was captured; what may the teardown do to a leg; does a flat return mean flat; does it end? | two attempts, two rounds, two posts of a close loop, units of one; six starts: none, what a first attempt leaves, what the drive leaves (uneven, hedged, an ask still resting); one of the first three orders may be carried out twice, which is a sell, a buy or a close of the capture, or a bid or a sell of the teardown. `MaxBook` follows the teardown only from books of three orders at most | 858 000 |
| `resting_orders` | does a quote rest and meet its taker; what does a pass or a failure of the tests show, and when is an order left behind; is the amount in order? | books of two prices a side out of six around the mark, leftovers outside the 15 and the 20 percent limits included; two moves of the others; two replicas; 144 markets by their filters and six listings that differ in what is listed, an empty one among them | 338 000 |
| `red_green` | is the file restored, are the verdicts true? | every test file of one line or two (the tool treats lines one by one), two runs of the tool, one edit; an interrupt or a kill at every step, between the two halves of a write included | 1.44 million |
| `stepwise_liquidation` | are pieces real, is the cap kept, is the mark restored? | three tiers, three steps, a cap of two | 2 900 |
| `cross_liquidation` | does every window of the scanner see the held marks? | two markets, real times in quarter seconds (the limiter's 0.2 s rounded up to one), a turn that takes a second beyond its sleep at most: three slots and one retry; every order of the posts, every failure among them; more than two turns, because an accepted mark is at most two turns old | 367 000 |
| `run_context` | one folder a run? | two sessions with a worker each and a tool, every interleaving of their file-system calls, a clock that ticks once | 26 000 |
| `test_records` | which tests are reported, whose entries has a report, whose name a record, how often are trades saved? | two tests with fixtures of wider scope before, between and after; two entries each; an order placed by a call or by a teardown, filled in two trades; a disk that may fail at any write | 2.46 million |

All hold. Deadlock is not checked: every one of these programs ends.

The properties, by what they would catch:

* `IInv` (with the exact use of the budget), `AnswersTellTruth`, `RepeatsComeFromDoubt`:
  an off-by-one in either comparison of the budget, an answer of an earlier attempt
  returned, a retry the options forbid. `ImplementsContract` is the refinement:
  a success was executed, an effect repeats at most once per doubtful attempt,
  and every call ends.
* `PaceBound`, `RequestsPaced`, `RetryAfterHonoured`: a slot taken outside the lock, a
  retry that does not pass the limiter, a backoff that shortens what the server asked for.
* `TokenInv`, `WrappedReadBounded`: a client or a token that was not renewed with the
  rest; a timer that lets a read go late.
* `ProvisionInv`, `ReadyIsFunded`, `ArrangedIsOnItsWay`, `ProvisionEnds`: a wait that does
  not wait for what the next step needs, an answer nobody looked at, a wait without end.
* `TierInv` (with `DriverInv`), `FilledCyclesEndFlat`: volume counted that was not traded,
  a leg silently dropped, a loop that does not stop at its target, a closing leg that opens.
  The second holds for cycles without a repeated post: a doubled opening order that fills
  whole is closed once, and what it opened stays open (section 6).
* `TargetSuffices`: a target reached in the drive's own count that leaves the account
  short of its tier.
* `PassesAreEarned`, `AlarmsExplained`: a phase that is green on a platform that does not
  give the discount; a phase that is red on one that does, for a reason nobody has named.
* `FlowInv` (with `CapturedIsThisAttempts`): an earlier attempt's fill returned for this
  one's, also when the post of the sell was repeated.
* `OnlyReduces`, `FlatReturnIsFlat`, `TeardownEnds`: a teardown that opens
  something, one that stops early or never.
* `QuoteInv`, `MeetsInSpread`: a quote that crosses although nobody moved, one that the
  exchange refuses, one that joins a queue.
* `SizeHonoured`: an amount that the market refuses or that is worth less than asked.
* `PassMeansReleased`, `AlarmsAreReal`, `LeftoverOnlyIfMissed`: a pass that did not see the
  money back, a failure that a lagging replica made, an order left without one of the four
  reasons: the teardown's read raised or came from before the order, the test had traded a
  market other than the configured one (of an empty listing `resolve_perp_market` makes the
  configured one), or the cancel failed.
* `RestoreInv`, `VerdictsAreTrue`: a file left corrupted or empty, a verdict about another
  file. The restore survives an interrupt at any place but inside itself.
* `PiecesInv`, `InjectedIsRestored`: pieces that never were, a mark left in force for
  everybody.
* `TurnInv`, `WindowsSee`: a pump that is skipped, an exception of one market that ends
  the pump for the markets after it, a mark thought as young as a turn when its post was
  the last of it.
* `OneFolderPerRun`, `SeenRunsDistinct`, `RunInv` (with `LinksLead`): a worker led
  astray by another session's pointer, a number used again, links to nowhere.
* `DetailIsOwn`, `StampsTrue`: entries or stamps of a neighbouring test. `RecordsInv`
  (with `CalledOnceReported` and `TradesSavedOnce`): a called test that is missing from the
  reports, or there twice; an order whose trades were shown and that has no trade record,
  although no write was lost, or more than one.

What the explanations of `AlarmsExplained` say of the suite: phase 3 may fail when the
drive went past a deeper tier than its target while the rates shown still trail; phase 4
compares with the overlay's rate, not with the better of standard and overlay, and where
the standard tier is as good for perpetuals phase 3 has not waited for the overlay, so
that phase 4 may find a spot rate that still trails; the assertions tell an overlay from
the tier below it only where each tier is cheaper than the one before (`Graded`); the NIM
test waits for the balance but for no rate to settle, although `CONVENTIONS.md:45` says
that the endpoint lags; and a tier without a NIM requirement reads `nim_min = 0`
(`lib/tiers.py`), so that `expected_tier_either` always returns at least that tier.

## 4. Fairness

Only three specifications assume any, and none assumes anything of the platform.

* `ResilientHttp`: weak fairness of each call's own steps. An outstanding request
  always has `NetworkError` enabled: Playwright limits every request in time.
* `Provisioning`: weak fairness of the program and of its clock. Waits are bounded
  by `timeout_s` in `lib/poll.py`, so no credit need ever come.
* `FeeTierFlow`: weak fairness of the program's steps (not of the ones in which
  something raises). `wait_for_perp_fill` may end at any time (`WaitEnds`), which
  is what its deadline gives.

## 5. Proofs

TLAPS proves the following for every value of the constants that satisfies the
named assumption of the module (`LimiterAssumption`, `HttpAssumption`,
`TokenAssumption`, ...), each of which TLC evaluates in a run.

* **HttpProofs**, in three parts.
  *The limiter.* `LimiterInvariant`: the t-th reservation lies at least t - 1 intervals
  after the start, `next_slot` at least an interval past every slot, and only slots that
  have come are used. The pace bound is not inductive (it says nothing of reservations):
  it follows by counting tickets, `LimiterKeepsPace`. `LimiterSpacesSlots` is inductive
  relative to the invariant.
  *The client.* `Invariance` of `IInv`, which relates the requests on the wire, those
  executed, those whose fate is unknown and the attempt number. From it
  `RepeatsExplained`, `AnswersTrue`, `BudgetIsExact`, and `ImplementsContractSafety`: each
  step of the client is a step of `CallContract` or a stutter. The proof maps actions one
  by one; that the number of effects stays within what is doubtful is a fact about
  cardinalities of the sets of executed and of doubtful attempts.
  *The two together.* Each step of `PacedHttp` is a step of the limiter, of the client,
  of both or of neither (`PacedImplementsParts`), so their invariants carry over.
  `PacedInvariant` adds what ties them: requests and used slots are as many, since nobody
  holds a slot that is used or another's, and a sleeping call wakes when the server said
  or later. From it
  `RequestsArePaced`, retries included, and `RetryAfterIsHonoured`.
* **AccountProofs**, in two parts.
  *Tokens.* `TokenInvariant`: as long as a refresh runs, the
  account still holds its old tokens together; the wrapper's timer and the
  history it starts from age in step with the token the client sends. From it
  `WrappedReadsBounded` and `ReadyAccountsWhole`.
  *Provisioning.* `ProvisionInvariant`: the balances are what the effects of the
  posts make them (`Money`), each stage follows a post that succeeded (`Stages`), and a
  fixture goes on only with something credited (`Awaited`). `ReadyAccountsFunded` follows
  because credits come in whole amounts: "more than nothing" is all of it.
  `ArrangedAccountsOnTheirWay`: a transfer was accepted from money, so the deposit had
  come. For any amounts, timeouts and budgets.
* **OutputProofs**, in two parts.
  *Run folders.* `RunInvariant`: numbers once chosen exceed every number seen, a running
  session has published one folder, workers hold their controller's name. From it
  `OneFolder` and `SeenRunsAreDistinct`, for any number of sessions, workers and tools.
  *Records.* `RecordsInvariant` with `DetailsAreOwn` and `StampsAreTrue`: reports are
  about tests that are over or whose call is; from the reset to the end of the call the
  buffer is what the test told since; a trade on file is that of an order marked as
  saved. For any number of tests, entries and trades.
* **TierProofs.** The exchange, the volume driver and the suites that wait for a tier.
  What a leg holds is a sum over orders, which would need induction; here a total is the
  cardinality of a set of units, one for each unit of each order, so that a fill adds one
  element to it. The exchange's invariant (`ExchangeInv`): what an account holds in a leg
  is what its opening orders filled less what its closing orders filled (`PosIsFilled`),
  and orders fill no more than their size. The driver's (`DriverIInv`) adds what each place
  of the loop knows, and that what was ordered to open a leg exceeds what was ordered to
  close it by exactly what is outstanding (`OrdersMatch`). `FilledCyclesAreFlat` follows:
  if every order filled, nothing is held. `TierIInv` adds what each place of a test knows:
  what the account is worth, what the platform counted, applied and showed of it, and what
  each assertion has seen. From it `TierInvariant`, `TargetIsEnough` (the target covers the
  gap although the volume at the start was read late, and a drive that says it reached it
  has), `PassesEarned` and `AlarmsAreExplained`. For any
  schedule, standard tiers, sizes, deposits and hours that satisfy `ExchangeAssumption`,
  `DriverAssumption`, `TierAssumption`. Only `OrdersMatch` and
  `FilledCyclesAreFlat` speak of runs without a repeated post; the rest holds of any.
* **FlowProofs.** The capture and the teardown, from any starts, sizes, attempts, rounds
  and posts. A step keeps the book (`BookKept`): orders are added at its end, those there
  account for their units and are not revived. The invariant (`FlowIInv`) adds that the
  order watched is a sell of the subject, of this attempt's size, accepted after the attempt
  began (`CaptureGroup`); and that what opens a leg was there when the teardown began, so that
  an account with one leg, once read flat, stays flat while the other is read
  (`TeardownGroup`). From it `FlowInvariant`, `FlatMeansFlat`, and, as an action property,
  `TeardownOnlyReduces`: a leg grows only by a trade of a live order that opens it. Assumed
  of the starts (`FlowAssumption`) is their type, and that no more attempts have been begun
  than the function makes. Posts may be repeated at will.
* **RestingProofs.** First the operators: the greatest of a finite set of prices and the
  least (`FiniteIsBounded`, from the library's well-founded orderings: a least
  counterexample where one would use induction); what rounding up to lots, to the minimum
  and to the notional gives (`SizeHonours`); what `resolve_perp_market` returns
  (`ResolveGivesMarket`). Then the invariant (`RestingIInv`): while nobody has come in the
  book is the one that was read but for orders gone (`BookAsRead`), and an order of ours
  rests at its quote (`QuoteGroup`); the amount was made in the market that was resolved
  (`SizeGroup`); where the platform may be at each place of the test, that no replica is
  ahead of it, and what the test knows as long as no read went back (`StageGroup`). From it
  `QuoteInvariant`, `MakersMeetInSpread`, `SizesAreHonoured`, `PassesMeanReleased`,
  `RereadAlarmsAreReal` and `LeftoversAreMissed`, for any finite set of prices, positive
  mark and notional, any listing and any replicas (`QuoteAssumption`, `RestingAssumption`).
* **LiquidationProofs**, in two parts.
  *The stepwise drive.* `PiecesInvariant`: within a step, what is there is at most
  what was read after it, that at most what was read before it, and that at most what
  the pieces so far leave (`StepIsSound`); so a piece counted is a piece lost.
  `MarkPutBack`: the teardown knows the mark before anything is injected.
  *The cross-account drive.* `TurnInvariant`: since the pump began is what the turn has
  taken; an accepted mark that this pump has renewed is no older than that, and one that
  waits for its turn in the pump is older by the turn before at most (with
  `Interval <= Poll`, so that no turn goes by without a pump). `WindowsAreSeen` adds the
  assumption that makes the code right: a mark may age by a sleep and the lateness of two
  turns, its own and the one before, and that stays under the life of a mark and a window
  together (`Poll + 2 * Late < Hold + Scan`). With 1.5 s, 2 s and 2 s it allows a turn a
  little less than 1.25 s beyond its sleep: three slots and a short backoff, not a
  `Retry-After` of seconds. `OutcomeIsTrue`.
* **RedGreenProofs.** `Restored`: while tools do not overlap there is one at work at most,
  it holds what was saved last, and the file is that until its first write (`AtWork`); so
  whatever it finds on disk when it restores, what it writes is right. `VerdictsTrue` needs
  more: after a kill, or an interrupt in the restore, the file is corrupted or empty, and
  the next tool reads it so. If an assert decides, such a tool does not get past its
  baseline (`JudgeInv`), so one that judged had read the file as it was written. For any
  number of runs, any files, any edits.

`SlotsSpaced`, `GivesUpOnlyWhenSpent`, `ReadyAccountWhole` and `OutcomeTrue` are proved but
are in no run: the invariants that imply them are.

Every invariant of every run is stated by one of these theorems, and so is the action
property `OnlyReduces`. Only model-checked is all liveness (TLAPS does not reason about
fairness and ENABLED here): `ProvisionEnds`, `TeardownEnds`, and the liveness part of
`ImplementsContract`. Induction over data is avoided rather than done: totals are
cardinalities, and what holds of every finite set of prices is shown by a least
counterexample.

## 6. Where the code and its words part

The following statements are written down in the modules and were found not to hold
while modelling. They are not runs of the project; to see one, check the
definition as the INVARIANT of the configuration named.

| Statement | Definition, instance | What happens |
|---|---|---|
| `lib/http.py:7-8` order-placing clients turn retries off "to avoid double execution" | `OrderNeverRepeats`, `MCResilientHttp.cfg` | the `except` branch (line 108) retries every exception whatever `retry_on_5xx` says, a lost answer included |
| `fixtures/accounts.py:141-142` "leave headroom for the read itself" | `WrappedReadsAuthorized`, `MCTokenLifecycle.cfg` | the timer starts when the callback is wrapped, not when its token was issued |
| `lib/auth.py:14-16` "the old one stops working immediately" | `NeverPostsUsedToken`, `MCTokenLifecycle.cfg` | the post is retried with a token whose use was executed but not answered |
| `fixtures/accounts.py:117-119` refresh after a step that eats the budget | `FundingAuthorized`, `MCProvisioning.cfg` | both settlement waits read with the first token |
| `tools/arrange_metamask_e2e.py:95,108` "funded" | `PrintedIsFunded`, `MCProvisioning.cfg` | the tool does not look at what its waits returned |
| `lib/fee_flow.py:4` "HEDGE round-trip stay FLAT" | `CyclesEndFlat`, `MCTierSettlement.cfg` | the closing leg assumes the opening one filled; and an opening order whose post was repeated is closed once |
| `test_perp_trade.py:92` "fill notional accrues to subject comp volume" | `OwnFillCounted`, `MCTierSettlement.cfg` | volume traded earlier comes in after it was read, and is taken for this fill's |
| `lib/perp.py:473` "both flat" | `BothFlatMeansFlat`, `MCFeeTierFlow.cfg` | the net of an account with a long and a short leg is zero |
| `lib/fee_flow.py:110` "one clean MAKER fill" | `CapturedIsClean`, `MCFeeTierFlow.cfg` with `Sizes = {2}` and `MaxUnits = 4` | `is_maker` is any of the trades |
| `lib/perp.py:164-165` "guaranteed to match" | `GuaranteedToMatch`, `MCRestingOrder.cfg` | in a book one tick wide the quote joins a queue |
| `lib/liquidation.py:7` "never raises" | `NeverRaises`, `MCStepwiseLiquidation.cfg` | reads of the size are outside the `try` |
| `lib/liquidation.py:37` "stop after this many reductions" | `StopsAfterMaxPieces`, `MCStepwiseLiquidation.cfg` with `OpenSize = 2`, `MaxPieces = 1` | several reductions between two reads count as one |
| `lib/mark_price.py:50-52` "to KEEP a price you must re-submit every ~2s. pump() re-injects" | `MarksHeld`, `MCCrossLiquidation.cfg` | a turn sleeps 1.5 s and needs three slots of the limiter: the mark of the market posted last, or of one whose turn comes late in the pump, lapses until it is posted again (`WindowsSee` bounds for how long) |
| `lib/run_context.py:3` "no collide on concurrent runs" | `RunsDistinct`, `MCRunContext.cfg` | two sessions of the same second choose the same name |
| `CONVENTIONS.md:96` "every order + trade id saved" | `EveryTradeSaved`, `MCTestRecords.cfg` with `DiskFails = FALSE` | the first poll that sees a trade marks the order as saved |
| `tools/red_green.py:7` "file restored always" | `AlwaysRestored`, `MCRedGreen.cfg` | a kill, two runs at once, or an interrupt while `finally` writes the file back |

Seen while reading, without a definition of their own:

* `lib/spot.py:58` "stay well inside that band": a reference 15 % below the mark is taken,
  and the resting test quotes 10 % below it, 23.5 % below the mark, where the exchange
  refuses more than 20 %. The price the perp test rests at looks at no ask.
* `suites/nimbus/spot/test_orders.py:113` uses the poll's own value and not "a fresh
  re-read (different replica risk)"; lines 76 and after do re-read. `AlarmsAreReal` holds
  only without a read that goes back in time.
* `size_amount` raises to `min_qty` as it is; where that is not made of whole lots the
  amount is off the lot, or is written below the minimum.
* `fixtures/reporting.py:34-35`: only the call phase is reported, so that a test whose
  set-up failed is in no report; what it told is dropped by the reset of the next test.
* `tools/red_green.py`: `assert x < N` still passes with N 777 larger (the line kind
  "slack"), which is reported as vacuous; corrupting a corrupted file flips a boolean back.
* `suites/competition/test_perp_nim_tier.py:6-7` "no retries so a retry can't
  double-deposit"; line 57 "retries 5xx on purpose". The model has the retries.
* `lib/fees.py:44` "~2000x tighter" than a gap of 0.1 bps: `RATE_TOLERANCE` is 20 times
  tighter. `Tiers` depends only on its being tighter.

## 7. Not modelled, and why

* **Client factory, schemas, validation, environment**: no decisions in time; what
  a missing field leads to is modelled where it is read (`TokenLifecycle`).
* **Run parameters** (`configs/competition.py`): constants; those that decide something
  are CONSTANTS of the modules.
* **Risk tiers** (`lib/risk_tiers.py`): one look-up in a sorted list, which nothing else
  depends on.
* **Spot fills** (`lib/spot.py`) are added up per order as the perp ones are; only the
  perp code is modelled.
* **API suites** other than those named: assertions about the platform. What they call is
  modelled.
* **Browser tests, load scripts, coverage tool**: Playwright, k6 and a one-shot script.
  Two races in them are planned.
* **Rendering of reports**: formatting.

## 8. Plan

Done in this order: the HTTP client with its contract and proof, the limiter and
the two together; tokens and provisioning; the exchange, the volume driver, the
capture and the teardown and their composition; the quote; both liquidation drives; the
run context; the records; then sizing and the spot rules with the resting-order tests,
the tools that arrange accounts, the red-green tool, the tiers and the suites that wait
for them; the proofs, module by module, until every invariant that a run checks had its
theorem.

Next:

1. `MatchRace` (`e2e/lib/api.py`, `.github/workflows/ci.yml:135`): two runs over one
   resting order. `PerfUsers` (`perf/lib/accounts.js:23`): virtual users with copies
   of a single-use refresh token.
2. `RiskTiers`: the look-up against the bands that `lib/risk_tiers.py` describes.
3. The capture and the teardown behind `TierSettlement`, so that the starts of
   `FeeTierFlow` are reached rather than listed.
4. Proofs: the lemmas about the exchange in `TierProofs` and `FlowProofs` on one footing
   (the two typings of a step of it differ), and the theorems of whatever 1 to 3 add.
