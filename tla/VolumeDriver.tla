---------------------------- MODULE VolumeDriver ----------------------------
(***************************************************************************)
(* drive_competition_volume of lib/fee_flow.py: cycles of an opening and a *)
(* closing leg.  In each leg the maker rests a limit order (short leg) and *)
(* the subject takes it with a market order (long leg); the subject's      *)
(* filled notional counts towards the target.  Prices are left out: one    *)
(* unit is one unit of notional.  Orders rest until they are filled, and   *)
(* the drive cancels none of them.                                         *)
(***************************************************************************)
EXTENDS PerpExchange

CONSTANTS Subject, Maker,
          MaxCycles,   \* max_cycles
          Sizes        \* Sizes[n]: what size_amount may return in cycle n

ASSUME DriverAssumption ==
    /\ Party = {Subject, Maker} /\ Subject # Maker
    /\ MaxCycles \in Nat
    /\ \A n \in 1..MaxCycles : Sizes[n] \subseteq 1..MaxUnits

VARIABLES pc,        \* "loop", "rest", "take", "wait", "done" or "raised"
          leg,       \* the leg of the cycle: "open" or "close"
          amount,    \* this cycle's order size
          taker,     \* index of the market order whose fill is awaited
          target,    \* target_volume_usd
          traded, cycles, skipped

local == <<leg, amount, taker, target, traded, cycles, skipped>>
driver == <<pc, local>>

\* Nothing ordered, nothing driven.
DriverIdle ==
    /\ pos = [p \in Party |-> NoPosition] /\ orders = <<>> /\ repeats = 0
    /\ leg = "open" /\ amount = 0 /\ taker = 0 /\ target = 0
    /\ traded = 0 /\ cycles = 0 /\ skipped = 0

-----------------------------------------------------------------------------
\* Mutants: the closing leg opens; an unfilled leg is passed over.
AlwaysOpens == TRUE
SkipSilently == UNCHANGED <<skipped, traded>>

\* while traded < target_volume_usd and cycles < max_cycles
Goes == traded < target /\ cycles < MaxCycles

StartCycle ==
    /\ pc = "loop" /\ Goes
    /\ cycles' = cycles + 1
    /\ amount' \in Sizes[cycles']
    /\ leg' = "open"
    /\ pc' = "rest"
    /\ UNCHANGED <<exchange, taker, target, traded, skipped>>

Finish ==
    /\ pc = "loop" /\ ~Goes
    /\ pc' = "done"
    /\ UNCHANGED <<exchange, local>>

\* reduce_only is False for the opening leg only.
Opens == leg = "open"

\* The maker's limit order, inside the spread.
RestMaker ==
    /\ pc = "rest"
    /\ Place(Maker, "short", Opens, TRUE, amount)
    /\ pc' = "take"
    /\ UNCHANGED <<pos, repeats, local>>

\* The subject's market order on the other side; the order that was answered is awaited.
TakeMaker ==
    /\ pc = "take"
    /\ Place(Subject, "long", Opens, FALSE, amount)
    /\ taker' = Len(orders) + 1
    /\ pc' = "wait"
    /\ UNCHANGED <<pos, repeats, leg, amount, target, traded, cycles, skipped>>

\* Either order was accepted, its answer is lost, and the client posts it again.
PostAgain ==
    /\ \/ pc = "rest" /\ PlaceAgain(Maker, "short", Opens, TRUE, amount)
       \/ pc = "take" /\ PlaceAgain(Subject, "long", Opens, FALSE, amount)
    /\ UNCHANGED <<pos, driver>>

CountFill == traded' = traded + Filled(orders[taker]) /\ skipped' = skipped
CountSkip == skipped' = skipped + 1 /\ traded' = traded

NextLeg ==
    IF leg = "open" THEN leg' = "close" /\ pc' = "rest" ELSE leg' = leg /\ pc' = "loop"

\* wait_for_perp_fill returns: with what is filled so far once anything is, or
\* with nothing when the time is up.
SeeFill ==
    /\ pc = "wait"
    /\ Filled(orders[taker]) > 0
    /\ CountFill
    /\ NextLeg
    /\ UNCHANGED <<exchange, amount, taker, target, cycles>>

FillTimeout ==
    /\ pc = "wait"
    /\ Filled(orders[taker]) = 0
    /\ CountSkip
    /\ NextLeg
    /\ UNCHANGED <<exchange, amount, taker, target, cycles>>

\* A read or a post raises; an order whose answer is lost may have been accepted.
Raise ==
    /\ pc \in {"rest", "take", "wait"}
    /\ pc' = "raised"
    /\ \/ UNCHANGED orders
       \/ pc = "rest" /\ Place(Maker, "short", Opens, TRUE, amount)
       \/ pc = "take" /\ Place(Subject, "long", Opens, FALSE, amount)
    /\ UNCHANGED <<pos, repeats, local>>

Drive ==
    \/ StartCycle \/ Finish \/ RestMaker \/ TakeMaker \/ PostAgain \/ SeeFill \/ FillTimeout
\* Bound: the model follows the exchange until the drive raises.
Matching == pc # "raised" /\ Match /\ UNCHANGED driver

DriverNext == Drive \/ Raise \/ Matching

-----------------------------------------------------------------------------
DriverTypeOK ==
    /\ ExchangeTypeOK
    /\ leg \in {"open", "close"}
    /\ amount \in 0..MaxUnits
    /\ taker \in 0..Len(orders) /\ target \in Nat
    /\ traded \in Nat /\ cycles \in 0..MaxCycles /\ skipped \in 0..(2 * MaxCycles)

(***************************************************************************)
(* "only SUBJECT taker fills count to competition volume": what the driver *)
(* reports never exceeds what the exchange filled of the subject's orders, *)
(* however late the fills come and whatever the next leg reads.            *)
(***************************************************************************)
SubjectOrders == {i \in DOMAIN orders : orders[i].party = Subject}
SubjectVolume == Total(FilledIn(SubjectOrders))

VolumeIsReal == traded <= SubjectVolume

(***************************************************************************)
(* "skipped: legs with no fill ... surfaced, never silently dropped": at   *)
(* the end of a cycle every leg has either brought volume or been counted. *)
(***************************************************************************)
LegsAccountedFor == pc \in {"loop", "done"} => traded + skipped >= 2 * cycles

(***************************************************************************)
(* The drive stops at its target: all the volume but that of the last      *)
(* cycle was needed (`while traded < target_volume_usd` is tested once a   *)
(* cycle, of two legs).                                                    *)
(***************************************************************************)
OvershootBounded == traded > 0 => traded < target + 2 * amount

\* The counters: their ranges (never more cycles than max_cycles), every leg of a
\* finished cycle told as volume or as skipped, how far past the target, and that
\* the volume is real.
DriverInv == DriverTypeOK /\ LegsAccountedFor /\ OvershootBounded /\ VolumeIsReal

(***************************************************************************)
(* "HEDGE round-trip stay FLAT", where it is true: when every order so far *)
(* was filled whole, whoever filled it and in whatever order, and none was *)
(* accepted twice because its post was retried, both accounts are flat at  *)
(* the end of the cycle.                                                   *)
(***************************************************************************)
Flat == \A p \in Party : pos[p] = NoPosition
AllFilled == \A i \in DOMAIN orders : orders[i].left = 0

FilledCyclesEndFlat == pc \in {"loop", "done"} /\ AllFilled /\ repeats = 0 => Flat

(***************************************************************************)
(* The inductive strengthening of both, used by TierProofs: how the        *)
(* counters stand within a cycle, that the order awaited brings volume of  *)
(* its own, and that every opening order has, or is about to get, a        *)
(* closing one of its size, as long as no post was repeated.               *)
(***************************************************************************)
InLeg == pc \in {"rest", "take", "wait"}
LegsToGo == IF ~InLeg THEN 0 ELSE IF leg = "open" THEN 2 ELSE 1

CycleInv ==
    /\ InLeg => amount >= 1 /\ traded < target + (IF leg = "open" THEN 0 ELSE amount)
    /\ skipped + LegsToGo <= 2 * cycles
    /\ pc # "raised" => traded + skipped + LegsToGo >= 2 * cycles

AwaitedInv == pc = "wait" =>
    /\ taker \in SubjectOrders
    /\ orders[taker].left + Filled(orders[taker]) = amount
    /\ traded + Filled(orders[taker]) <= SubjectVolume

OrderedIn(S) == [i \in S |-> orders[i].left + Filled(orders[i])]

\* What of this cycle was ordered to open and not yet to close.
Unclosed(p, l) ==
    \/ p = Maker /\ l = "short" /\ leg = "open" /\ pc \in {"take", "wait"}
    \/ p = Maker /\ l = "short" /\ leg = "close" /\ pc = "rest"
    \/ p = Subject /\ l = "long" /\ leg = "open" /\ pc = "wait"
    \/ p = Subject /\ l = "long" /\ leg = "close" /\ pc \in {"rest", "take"}
Outstanding(p, l) == IF Unclosed(p, l) THEN amount ELSE 0

OrdersMatch == pc # "raised" /\ repeats = 0 => \A p \in Party : \A l \in Leg :
    Total(OrderedIn(LegOrders(p, l, TRUE)))
        = Total(OrderedIn(LegOrders(p, l, FALSE))) + Outstanding(p, l)

DriverIInv == DriverInv /\ ExchangeInv /\ CycleInv /\ AwaitedInv /\ OrdersMatch

(***************************************************************************)
(* The module's docstring, lib/fee_flow.py:3-5: "guaranteed counterparty.  *)
(* HEDGE round-trip stay FLAT so margin freed each cycle".                 *)
(***************************************************************************)
CyclesEndFlat == pc \in {"loop", "done"} => Flat
=============================================================================
