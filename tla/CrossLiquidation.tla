-------------------------- MODULE CrossLiquidation --------------------------
(***************************************************************************)
(* drive_cross_account_liquidation of lib/liquidation.py with MarkHolder   *)
(* of lib/mark_price.py: several adverse marks are held at once, injected  *)
(* again from inside the poll loop (Playwright's objects are not           *)
(* thread-safe), until the account's positions are gone or the time is up. *)
(*                                                                         *)
(* A turn of the loop posts the marks one after the other, sleeps for      *)
(* Poll, and reads the positions.  Every request waits for a slot of the   *)
(* limiter that all clients share, Slot after the one before it.  What a   *)
(* turn takes beyond its sleep - slots, answers, retries, a token that is  *)
(* renewed first - is bounded by Late.  The exchange (external) keeps an   *)
(* injected mark for Hold from the moment it executes the post, and its    *)
(* scanner looks once in Scan.  A request that is executed is executed     *)
(* before its answer or before it is given up.                             *)
(***************************************************************************)
EXTENDS Integers

CONSTANTS Market,    \* the markets whose marks are held
          Size,      \* open size, all legs together, when the drive begins
          Timeout, Poll, Interval,   \* timeout_s, poll_s, interval_s
          Slot,      \* 1 / rps of the limiter
          Hold,      \* how long an injected mark lasts (2 s)
          Scan,      \* the scanner's window (2 s)
          Late       \* bound: what a turn takes beyond its sleep

ASSUME CrossAssumption ==
    /\ {Size, Timeout, Poll, Interval, Slot, Late} \subseteq Nat
    /\ {Hold, Scan} \subseteq Nat \ {0}
    /\ Interval <= Poll    \* both are 1.5 s

Never == -1
None == "none"
ASSUME NoneAssumption == None \notin Market

\* Ages are told apart up to here.
Stale == Hold + Scan

VARIABLES place,
          left,       \* time left before the deadline
          busy, slept,   \* what the turn has taken so far, its sleep apart
          since,      \* time since self._last of the holder; Never: not pumped yet
          idle,       \* time since the last request, up to Slot
          todo,       \* markets this pump has still to post
          sent, hit,  \* the market being posted; has the exchange executed it
          accepted,   \* markets whose last injection was accepted
          age,        \* age[m]: age of the mark injected; Hold and over: the real one
          total,      \* open size at the exchange
          total_before, total_after

turn == <<busy, slept, since>>
clock == <<left, turn, idle>>
posts == <<todo, sent, hit>>
marks == <<accepted, age>>
sizes == <<total, total_before, total_after>>
crossVars == <<place, clock, posts, marks, sizes>>

CrossInit ==
    /\ place = "begin" /\ left = Timeout
    /\ busy = 0 /\ slept = 0 /\ since = Never /\ idle = 0
    /\ todo = {} /\ sent = None /\ hit = FALSE
    /\ accepted = {} /\ age = [m \in Market |-> Stale]
    /\ total = Size /\ total_before = 0 /\ total_after = 0

-----------------------------------------------------------------------------
Begin ==
    /\ place = "begin"
    /\ total_before' = total /\ total_after' = total
    /\ place' = "loop"
    /\ UNCHANGED <<clock, posts, marks, total>>

\* time.monotonic() < deadline
TimeLeft == left > 0

\* pump(): nothing when the last pump is less than interval_s ago.
TooSoon == since # Never /\ since < Interval

\* A turn begins with pump(), which notes the time before it posts anything.
Pump ==
    /\ place = "loop" /\ TimeLeft
    /\ IF TooSoon
       THEN place' = "sleep" /\ UNCHANGED <<since, todo>>
       ELSE place' = "post" /\ since' = 0 /\ todo' = Market
    /\ busy' = 0 /\ slept' = 0
    /\ UNCHANGED <<left, idle, sent, hit, marks, sizes>>

\* The limiter gives a request its slot.
TakesSlot == idle >= Slot /\ idle' = 0

Post ==
    /\ place = "post" /\ sent = None
    /\ \E m \in todo : sent' = m
    /\ hit' = FALSE
    /\ TakesSlot
    /\ UNCHANGED <<place, left, turn, todo, marks, sizes>>

\* An attempt, of a post or of the read, failed: the client sends another.
Retry ==
    /\ sent # None \/ place = "read"
    /\ TakesSlot
    /\ UNCHANGED <<place, left, turn, posts, marks, sizes>>

\* Mutant: an injection that raises ends the pump.
PumpRaises(done) == IF sent \in accepted' THEN todo \ done ELSE {}

\* Markets left to post after this one: an exception is swallowed.
Remaining(done) == todo \ done

\* A post has ended.  It is accepted only if executed; it may fail although it was.
PostEnds ==
    /\ sent # None
    /\ \/ hit /\ accepted' = accepted \cup {sent}
       \/ accepted' = accepted \ {sent}
    /\ todo' = Remaining({sent})
    /\ sent' = None /\ hit' = FALSE
    /\ UNCHANGED <<place, clock, age, sizes>>

\* pump() returns, time.sleep(poll_s) begins.
PumpOver ==
    /\ place = "post" /\ sent = None /\ todo = {}
    /\ place' = "sleep"
    /\ UNCHANGED <<clock, posts, marks, sizes>>

\* The sleep is over: total_size_of() sends its request.
Ask ==
    /\ place = "sleep" /\ slept >= Poll
    /\ TakesSlot
    /\ place' = "read"
    /\ UNCHANGED <<left, turn, posts, marks, sizes>>

\* size_after <= 1e-9 (total_after)
Liquidated(size) == size = 0

\* size_after = total_size_of(), here total_after.
ReadTotal ==
    /\ place = "read"
    /\ total_after' = total
    /\ place' = IF Liquidated(total) THEN "done" ELSE "loop"
    /\ UNCHANGED <<clock, posts, marks, total, total_before>>

GiveUp ==
    /\ place = "loop" /\ ~TimeLeft
    /\ place' = "done"
    /\ UNCHANGED <<clock, posts, marks, sizes>>

\* A read raises: so does the drive.
ReadRaises ==
    /\ place \in {"begin", "read"}
    /\ place' = "raised"
    /\ UNCHANGED <<clock, posts, marks, sizes>>

-----------------------------------------------------------------------------
\* The exchange executes the post that is on its way.
Execute ==
    /\ sent # None
    /\ age' = [age EXCEPT ![sent] = 0] /\ hit' = TRUE
    /\ UNCHANGED <<place, clock, todo, sent, accepted, sizes>>

InForce(m) == age[m] < Hold

UpTo(bound, n) == IF n < bound THEN n ELSE bound

\* Time passes while the drive sleeps, or waits for a slot or an answer.
Tick ==
    /\ \/ /\ place = "sleep" /\ slept < Poll
          /\ slept' = slept + 1 /\ UNCHANGED busy
       \/ /\ place \in {"post", "read"} \/ (place = "sleep" /\ slept = Poll)
          /\ busy < Late
          /\ busy' = busy + 1 /\ UNCHANGED slept
    /\ left' = IF left > 0 THEN left - 1 ELSE 0
    /\ since' = IF since = Never THEN Never ELSE since + 1
    /\ idle' = UpTo(Slot, idle + 1)
    /\ age' = [m \in Market |-> UpTo(Stale, age[m] + 1)]
    /\ UNCHANGED <<place, posts, accepted, sizes>>

\* The scanner takes over some or all of the legs.
TakeOver ==
    /\ \E m \in Market : InForce(m)
    /\ total' \in 0..(total - 1)
    /\ UNCHANGED <<place, clock, posts, marks, total_before, total_after>>

Drive == Begin \/ Pump \/ Post \/ Retry \/ PostEnds \/ PumpOver \/ Ask \/ ReadTotal \/ GiveUp
CrossNext == Drive \/ ReadRaises \/ Execute \/ Tick \/ TakeOver

CrossSpec == CrossInit /\ [][CrossNext]_crossVars

-----------------------------------------------------------------------------
CrossTypeOK ==
    /\ place \in {"begin", "loop", "post", "sleep", "read", "done", "raised"}
    /\ left \in 0..Timeout /\ busy \in 0..Late /\ slept \in 0..Poll
    /\ since \in Nat \cup {Never} /\ idle \in 0..Slot
    /\ todo \subseteq Market /\ sent \in Market \cup {None} /\ hit \in BOOLEAN
    /\ accepted \subseteq Market
    /\ age \in [Market -> 0..Stale]
    /\ total \in 0..Size /\ total_before \in 0..Size /\ total_after \in 0..Size

Driving == place \in {"loop", "post", "sleep", "read"}

(***************************************************************************)
(* "so every 2s scanner window sees it" (lib/mark_price.py:12-13): from    *)
(* the first pump to the end of the drive, a mark whose last injection was *)
(* accepted has been out of force for less than a window, if at all, even  *)
(* while the pump is still at the markets before it, and whatever failed   *)
(* for them.                                                               *)
(***************************************************************************)
WindowsSee == Driving => \A m \in accepted : age[m] < Hold + Scan

(***************************************************************************)
(* "to KEEP a price you must re-submit every ~2s. pump() re-injects"       *)
(* (lib/mark_price.py:50-52): an accepted mark is in force until the drive *)
(* ends.  It is not: a turn sleeps 1.5 s and then needs three slots.       *)
(***************************************************************************)
MarksHeld == Driving => \A m \in accepted : InForce(m)

(***************************************************************************)
(* triggered says the account was liquidated: when the drive reports ~0    *)
(* nothing is open, and it never stops before that or the timeout.         *)
(***************************************************************************)
OutcomeTrue ==
    place = "done" => \/ total_after = 0 /\ total = 0
                      \/ total_after > 0 /\ left = 0

\* The exchange has this turn's injection of m.
Renewed(m) == place # "post" \/ m \notin todo \/ (m = sent /\ hit)

(***************************************************************************)
(* What WindowsSee rests on: no turn goes by without a pump, since is      *)
(* what the turn has taken, an accepted mark that was renewed is not older *)
(* than the turn, and one that was not is older by the turn before at most *)
(* (lib/mark_price.py, pump).                                              *)
(***************************************************************************)
TurnInv ==
    /\ CrossTypeOK
    /\ since = Never => accepted = {} /\ place \notin {"post", "sleep", "read"}
    /\ place = "begin" => since = Never
    /\ sent # None => place = "post" /\ sent \in todo
    /\ hit => sent # None /\ age[sent] <= since
    /\ Driving /\ since # Never =>
          /\ since = busy + slept
          /\ place = "post" => slept = 0
          /\ place \in {"loop", "read"} => slept = Poll
          /\ \A m \in accepted : age[m] <= since + IF Renewed(m) THEN 0 ELSE Poll + Late
=============================================================================
