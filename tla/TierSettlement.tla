--------------------------- MODULE TierSettlement ---------------------------
(***************************************************************************)
(* What the competition suites assert of fees and campaign volume:         *)
(*   "flow"   phases 1-4 of test_perp_fee_tier.py: the schedule, the       *)
(*            volume drive (VolumeDriver, which this module extends) until *)
(*            the volume counts, the rates as they settle, a spot fill     *)
(*            (phase 5 and the teardown are FeeTierFlow);                  *)
(*   "nim"    test_perp_nim_tier.py: a tier by NIM balance alone;          *)
(*   "trade"  test_perp_trade.py, and test_spot_trade.py likewise: one     *)
(*            fill, its fee, and that it counts.                           *)
(*                                                                         *)
(* The platform (external) counts volume some time after the fills, makes  *)
(* the overlay active some time after the enrolment, and lets the rates it *)
(* shows as effective trail the overlay.  The overlay shown is that of     *)
(* the volume and balance shown with it.  It may have a fault for the      *)
(* tests to find.                                                          *)
(***************************************************************************)
EXTENDS VolumeDriver, Tiers

CONSTANTS Schedules,     \* fee_tiers[] of the competition: sequences of tiers
          TargetLevel,   \* fee_tier_flow.target_tier_level
          Standards,     \* rates of the account's standard tier
          EarlierVolume, \* bound: what tests before traded on the same account
          MaxDeposits,   \* bound: times that the faucet carries out one deposit
          MaxHours       \* bound: hours that begin during a test

ASSUME TierAssumption ==
    /\ Schedules \subseteq Seq(Tier) \ {<<>>}
    /\ Standards \subseteq [{"perp", "spot"} -> Nat]
    /\ EarlierVolume \in Nat /\ MaxDeposits \in Nat \ {0} /\ MaxHours \in Nat

VARIABLES task, tiers,
          standard, fault,
          earned,     \* the subject's volume besides that of the orders followed
          late,       \* what its orders of the drive may still fill
          counted,    \* campaign_volume_usd
          deposited,  \* NIM deposits carried out
          nim,        \* campaign_nim_balance, in hundredths
          hours,      \* hours that began
          active,     \* the overlay is
          applied,    \* the tier whose rates are shown as effective; 0: none
          result,     \* result[n]: outcome of phase n; of "nim" and "trade": result[1]
          volume,     \* volume_before
          rate,       \* the rate charged, or pre_eff_perp_taker
          pending     \* history: at volume_before, volume was not shown yet

chosen == <<task, tiers>>
account == <<standard, fault, active, applied>>
ledger == <<earned, late, counted, deposited, nim, hours>>
test == <<result, volume, rate, pending>>
tierVars == <<exchange, driver, chosen, account, ledger, test>>

Faults == {"none", "inactive", "oneBelow", "standardKept", "standardCharged", "notCounted"}
Phase == 1..4

-----------------------------------------------------------------------------
(* The answer of /account/fee-tier-effective.                              *)

\* What the platform's own rule gives: a tier that asks for no NIM is not earned by NIM.
Correct == Deepest(tiers, {i \in DOMAIN tiers :
    \/ counted >= tiers[i].vol_min
    \/ tiers[i].nim_min > 0 /\ nim >= 100 * tiers[i].nim_min})

OverlayTier == IF fault = "oneBelow" THEN Max({1, Correct - 1}) ELSE Correct
ShownVolume == IF active THEN counted ELSE 0
ShownActive == active /\ fault # "inactive"

Lower(p, q) == IF p < q THEN p ELSE q

\* overlay.<rate> or standard.<rate>
Overlay(kind) == IF active THEN tiers[OverlayTier][kind] ELSE standard[kind]
BestOf(tier, kind) == IF tier = 0 THEN standard[kind] ELSE Lower(standard[kind], tiers[tier][kind])
Effective(kind) == IF fault = "standardKept" THEN standard[kind] ELSE BestOf(applied, kind)

\* A fill is charged by the tier applied, or already by the overlay's.
Charged(kind) ==
    IF fault \in {"standardKept", "standardCharged"} THEN {standard[kind]}
    ELSE {BestOf(t, kind) : t \in {applied, IF active THEN OverlayTier ELSE 0}}

-----------------------------------------------------------------------------
\* target = next(t for t in tiers if ...): by level; for NIM, the first tier above
\* that of the volume which asks for a balance.  0: there is none.
First(S) == IF S = {} THEN 0 ELSE Min(S)
VolTier == ExpectedCompTier(tiers, volume)
Aim == IF task = "nim"
       THEN First({i \in DOMAIN tiers : tiers[i].level > tiers[VolTier].level
                                        /\ tiers[i].nim_min > 0})
       ELSE First({i \in DOMAIN tiers : tiers[i].level = TargetLevel})

Realizable ==
    /\ Len(tiers) > 1 /\ Aim # 0
    /\ tiers[Aim].vol_min > 0
    /\ tiers[Aim].perp < tiers[1].perp /\ tiers[Aim].spot < tiers[1].spot

\* Mutant: the gap to the tier below.
GapBelow(start) == Max({0, (115 * tiers[Max({1, Aim - 1})].vol_min - 100 * start + 99) \div 100})

\* max(0.0, target.vol_min * volume_overshoot - start_vol), up to the next unit.
Gap(start) == Max({0, (115 * tiers[Aim].vol_min - 100 * start + 99) \div 100})

TierInit ==
    /\ DriverIdle
    /\ task \in {"flow", "nim", "trade"}
    /\ \E fee_tiers \in Schedules : tiers \in CompetitionToTiers(fee_tiers)
    /\ pc = CASE task = "flow" -> "schedule" [] task = "nim" -> "activate" [] task = "trade" -> "before"
    /\ IF task = "flow" THEN fault = "none" ELSE fault \in Faults
    /\ standard \in (IF task = "flow" THEN {[perp |-> 0, spot |-> 0]} ELSE Standards)
    /\ earned \in 0..(IF task = "nim" THEN 0 ELSE EarlierVolume) /\ counted \in 0..earned
    /\ late = 0 /\ deposited = 0 /\ nim = 0 /\ hours = 0 /\ active = FALSE /\ applied = 0
    /\ result = [n \in Phase |-> "none"] /\ volume = 0 /\ rate = 0 /\ pending = FALSE

-----------------------------------------------------------------------------
\* How a phase ends; the next one runs whatever became of it.
Verdict(n, how, next) == result' = [result EXCEPT ![n] = how] /\ pc' = next
Asserts(n, holds, next) == Verdict(n, IF holds THEN "passed" ELSE "failed", next)

\* poll_until: goes on when `holds` is read; else it may give up, and a read may raise.
Poll(at, holds, n, next, over) ==
    /\ pc = at
    /\ \/ holds /\ pc' = next /\ UNCHANGED result
       \/ Verdict(n, "gaveUp", over)

Looks == UNCHANGED <<exchange, local, chosen, account, ledger>>

-----------------------------------------------------------------------------
\* Phase 1.
CheckSchedule ==
    /\ pc = "schedule"
    /\ Asserts(1, Realizable, IF Realizable THEN "start" ELSE "over")
    /\ Looks /\ UNCHANGED <<volume, rate, pending>>

\* Phase 2.  The volume is read while the overlay may not be active yet.
ReadStart ==
    /\ pc = "start"
    /\ \/ /\ \E start \in {0, counted} : target' = Gap(start)
          /\ pc' = "loop" /\ UNCHANGED result
       \/ Verdict(2, "raised", "settle") /\ UNCHANGED target
    /\ UNCHANGED <<exchange, leg, amount, taker, traded, cycles, skipped, chosen, account,
                   ledger, volume, rate, pending>>

\* The drive returned or raised.  From here on its orders matter only by what they may
\* still fill, and it is told which platform this is: nothing looked at it before.
SubjectLeft == Total([i \in SubjectOrders |-> IF Live(i) THEN orders[i].left ELSE 0])

Returned ==
    /\ task = "flow" /\ pc \in {"done", "raised"}
    /\ IF pc = "raised" THEN Verdict(2, "raised", "settle")
       ELSE IF skipped > cycles THEN Verdict(2, "thin", "settle")
       ELSE pc' = "ingest" /\ UNCHANGED result
    /\ earned' = earned + SubjectVolume /\ late' = SubjectLeft
    /\ fault' \in Faults /\ standard' \in Standards /\ active' \in BOOLEAN
    /\ pos' = [p \in Party |-> NoPosition] /\ orders' = <<>> /\ repeats' = 0
    /\ leg' = "open" /\ amount' = 0 /\ taker' = 0 /\ target' = 0
    /\ traded' = 0 /\ cycles' = 0 /\ skipped' = 0
    /\ UNCHANGED <<chosen, applied, counted, deposited, nim, hours, volume, rate, pending>>

\* Mutants: any volume will do; the effective rate is not waited for.
IngestedAtAll == TRUE
SettledAtOnce == TRUE

Ingested == ShownVolume >= tiers[Aim].vol_min
SettledDown == Effective("perp") <= tiers[Aim].perp
Qualified == tiers[ExpectedCompTier(tiers, ShownVolume)]

AwaitIngest ==
    /\ Poll("ingest", Ingested, 2, "snapshot", "settle")
    /\ Looks /\ UNCHANGED <<volume, rate, pending>>

Snapshot ==
    /\ pc = "snapshot"
    /\ Asserts(2, ShownActive /\ Overlay("perp") = Qualified.perp, "settle")
    /\ Looks /\ UNCHANGED <<volume, rate, pending>>

\* Phase 3: the wait, then another read.
AwaitSettled ==
    /\ Poll("settle", SettledDown, 3, "recheck", "fill")
    /\ Looks /\ UNCHANGED <<volume, rate, pending>>

IsBestOf == Effective("perp") = Lower(standard["perp"], Overlay("perp"))
SteppedDown == Effective("perp") < tiers[1].perp

Recheck ==
    /\ pc = "recheck"
    /\ Asserts(3, IsBestOf /\ SteppedDown, "fill")
    /\ Looks /\ UNCHANGED <<volume, rate, pending>>

-----------------------------------------------------------------------------
\* Phase 4, and the trade tests: a fill that the maker's order guarantees, or a poll
\* that gives up.
FillKind == IF task = "flow" THEN "spot" ELSE "perp"
FillPhase == IF task = "flow" THEN 4 ELSE 1

TakeFill ==
    /\ pc = "fill"
    /\ \/ /\ rate' \in Charged(FillKind)
          /\ earned' = earned + 1
          /\ pc' = "judge" /\ UNCHANGED result
       \/ Verdict(FillPhase, "gaveUp", "over") /\ UNCHANGED <<rate, earned>>
    /\ UNCHANGED <<exchange, local, chosen, account, late, counted, deposited, nim, hours,
                   volume, pending>>

JudgeSpot ==
    /\ pc = "judge" /\ task = "flow"
    /\ Asserts(4, rate = Overlay("spot") /\ rate < tiers[1].spot, "over")
    /\ Looks /\ UNCHANGED <<volume, rate, pending>>

JudgeTrade ==
    /\ pc = "judge" /\ task = "trade"
    /\ IF rate = Effective("perp") THEN pc' = "accrue" /\ UNCHANGED result
                                   ELSE Verdict(1, "failed", "over")
    /\ Looks /\ UNCHANGED <<volume, rate, pending>>

ReadBefore ==
    /\ pc = "before"
    /\ volume' = ShownVolume
    /\ pending' = (ShownVolume < earned)
    /\ pc' = "fill"
    /\ Looks /\ UNCHANGED <<result, rate>>

AwaitAccrual ==
    /\ pc = "accrue"
    /\ \/ ShownVolume > volume /\ Verdict(1, "passed", "over")
       \/ Verdict(1, "gaveUp", "over")
    /\ Looks /\ UNCHANGED <<volume, rate, pending>>

-----------------------------------------------------------------------------
\* The NIM test.
AwaitActive ==
    /\ Poll("activate", ShownActive, 1, "resolve", "over")
    /\ Looks /\ UNCHANGED <<volume, rate, pending>>

ReadPre ==
    /\ pc = "resolve"
    /\ volume' = ShownVolume /\ rate' = Effective("perp")
    /\ Looks /\ UNCHANGED pending
    /\ IF Len(tiers) > 1 /\ Aim' # 0 THEN pc' = "deposit" /\ UNCHANGED result
                                     ELSE Verdict(1, "failed", "over")

\* The faucet is posted with retries: it may be carried out more than once, and the
\* post may raise although it was.
DepositNim ==
    /\ pc = "deposit"
    /\ deposited' \in 0..MaxDeposits
    /\ \/ deposited' > 0 /\ pc' = "balance" /\ UNCHANGED result
       \/ Verdict(1, "raised", "over")
    /\ UNCHANGED <<exchange, local, chosen, account, earned, late, counted, nim, hours,
                   volume, rate, pending>>

AwaitNim ==
    /\ Poll("balance", nim >= 100 * tiers[Aim].nim_min, 1, "after", "over")
    /\ Looks /\ UNCHANGED <<volume, rate, pending>>

\* expected_tier_either compares the balance with what a tier asks for, or with 0.
InHundredths == [i \in DOMAIN tiers |-> [tiers[i] EXCEPT !.nim_min = 100 * @]]
EitherTier == tiers[ExpectedTierEither(InHundredths, volume, nim)]

JudgeNim ==
    /\ pc = "after"
    /\ Asserts(1, /\ EitherTier.level > tiers[VolTier].level
                  /\ Overlay("perp") = EitherTier.perp
                  /\ IsBestOf
                  /\ Effective("perp") < rate, "over")
    /\ Looks /\ UNCHANGED <<volume, rate, pending>>

-----------------------------------------------------------------------------
(* The platform; nothing that it does during the drive is looked at.       *)
Watched == pc \notin {"schedule", "start", "loop", "rest", "take", "wait", "done", "raised", "over"}

Program == UNCHANGED <<exchange, driver, chosen, test>>

LateFill ==
    /\ Watched /\ late > 0
    /\ late' = late - 1 /\ earned' = earned + 1
    /\ Program /\ UNCHANGED <<account, counted, deposited, nim, hours>>

Count ==
    /\ Watched /\ fault # "notCounted"
    /\ counted' \in (counted + 1)..earned
    /\ Program /\ UNCHANGED <<account, earned, late, deposited, nim, hours>>

\* The average of 24 hours: each hour adds a 24th of 24 * 1.05 times the target's.
Hour ==
    /\ Watched /\ pc \in {"balance", "after"} /\ hours < MaxHours
    /\ hours' = hours + 1
    /\ nim' = nim + 105 * tiers[Aim].nim_min * deposited
    /\ Program /\ UNCHANGED <<account, earned, late, counted, deposited>>

Activate ==
    /\ Watched /\ ~active
    /\ active' = TRUE
    /\ Program /\ UNCHANGED <<ledger, standard, fault, applied>>

Apply ==
    /\ Watched /\ active /\ applied # OverlayTier
    /\ applied' = OverlayTier
    /\ Program /\ UNCHANGED <<ledger, standard, fault, active>>

Platform == LateFill \/ Count \/ Hour \/ Activate \/ Apply

Driving == task = "flow" /\ DriverNext /\ UNCHANGED <<chosen, account, ledger, test>>

Test ==
    \/ CheckSchedule \/ ReadStart \/ Returned \/ AwaitIngest \/ Snapshot
    \/ AwaitSettled \/ Recheck \/ TakeFill \/ JudgeSpot
    \/ ReadBefore \/ JudgeTrade \/ AwaitAccrual
    \/ AwaitActive \/ ReadPre \/ DepositNim \/ AwaitNim \/ JudgeNim

TierNext == Driving \/ Test \/ Platform

TierSpec == TierInit /\ [][TierNext]_tierVars

-----------------------------------------------------------------------------
TierTypeOK ==
    /\ task \in {"flow", "nim", "trade"} /\ fault \in Faults
    /\ earned \in Nat /\ late \in Nat /\ counted \in 0..earned
    /\ deposited \in 0..MaxDeposits /\ nim \in Nat /\ hours \in 0..MaxHours
    /\ active \in BOOLEAN /\ applied \in 0..Len(tiers)
    /\ result \in [Phase -> {"none", "passed", "failed", "gaveUp", "raised", "thin"}]
    /\ volume \in Nat /\ rate \in Nat /\ pending \in BOOLEAN

\* The counters of the drive, here under the targets that the suite computes.
TierInv == TierTypeOK /\ DriverInv

(***************************************************************************)
(* "until subject traded notional covers gap to threshold": when the drive *)
(* stopped at its target, the account has traded what its tier asks for,   *)
(* although the gap was computed from a volume that may lag and the fills  *)
(* may be late, partial or somebody else's.  Only then can the wait for    *)
(* the ingestion, which asks for the tier's volume, end well.              *)
(***************************************************************************)
TargetSuffices ==
    pc = "done" /\ traded >= target => earned + SubjectVolume >= tiers[Aim].vol_min

\* Each tier of the schedule is above the one before it, and cheaper.
Graded == \A i, j \in DOMAIN tiers :
    i < j => tiers[i].level < tiers[j].level /\ tiers[j].perp < tiers[i].perp

(***************************************************************************)
(* A green phase has shown something: the account traded its way to the    *)
(* tier and the overlay is the one it qualifies for (2); the discount is   *)
(* in force, or the standard tier gives as much (3); the spot fill was     *)
(* charged with it (4).  A green NIM test had the balance and the right    *)
(* overlay; a green trade was charged the rate shown and, if no earlier    *)
(* volume was on its way, was counted itself.  (The assertions compare     *)
(* rates, so they tell an overlay from the tier below only when every tier *)
(* is cheaper than the one before.)                                        *)
(***************************************************************************)
RightOverlay == fault # "inactive" /\ (Graded => fault # "oneBelow")

FlowEarned ==
    /\ result[2] = "passed" => counted >= tiers[Aim].vol_min /\ RightOverlay
    /\ result[3] = "passed" => fault # "standardKept" \/ standard["perp"] <= tiers[Aim].perp
    /\ result[4] = "passed" =>
        /\ rate < tiers[1].spot
        /\ fault \in {"standardKept", "standardCharged"} => rate = standard["spot"]

NimEarned == result[1] = "passed" =>
    /\ nim >= 100 * tiers[Aim].nim_min /\ RightOverlay /\ fault # "standardKept"
    /\ Effective("perp") < rate

TradeEarned == result[1] = "passed" =>
    pending \/ (counted = earned /\ fault # "notCounted")

PassesAreEarned ==
    CASE task = "flow" -> FlowEarned [] task = "nim" -> NimEarned [] task = "trade" -> TradeEarned

(***************************************************************************)
(* Without a fault, and with a graded schedule, no assertion fails, but:   *)
(* in phase 3 when more than the target tier was reached and the rates     *)
(* shown still trail (the drive went too far past its target); in phase 4  *)
(* then too, or after an earlier phase did not pass, or when the standard  *)
(* tier is the better one for spot, or is as good for perp, so that phase  *)
(* 3 did not wait for the overlay to be applied; in the NIM test, which    *)
(* waits for no rate to settle, when they trail, when a tier asks for no   *)
(* NIM, or when the standard tier is as good; in a trade when a tier above *)
(* the first was being applied.                                            *)
(***************************************************************************)
Further == OverlayTier > Aim
Trails == applied # OverlayTier

FlowAlarms ==
    /\ result[2] # "failed"
    /\ result[3] = "failed" => Further
    /\ result[4] = "failed" =>
        \/ Further \/ result[2] # "passed" \/ result[3] # "passed"
        \/ standard["spot"] < Overlay("spot") \/ standard["perp"] <= tiers[Aim].perp

NimAlarms == result[1] = "failed" =>
    \/ Aim = 0
    \/ Trails
    \/ \E i \in DOMAIN tiers : i > 1 /\ tiers[i].nim_min = 0
    \/ standard["perp"] <= Overlay("perp")

TradeAlarms == result[1] = "failed" => OverlayTier > 1 \/ standard["perp"] > tiers[1].perp

AlarmsExplained ==
    fault = "none" /\ Graded =>
        CASE task = "flow" -> FlowAlarms [] task = "nim" -> NimAlarms [] task = "trade" -> TradeAlarms

(***************************************************************************)
(* The inductive strengthening of all of this, used by TierProofs: where   *)
(* each test can be, what the account has come to by then, and what the    *)
(* test has seen of it that still holds.                                   *)
(***************************************************************************)
DrivePlaces == {"loop", "rest", "take", "wait", "done", "raised"}
BeforeReturn == {"schedule", "start"} \cup DrivePlaces

PlaceInv ==
    /\ tiers \in Seq(Tier) \ {<<>>} /\ standard \in [{"perp", "spot"} -> Nat]
    /\ task = "flow" =>
        /\ pc \in BeforeReturn \cup {"ingest", "snapshot", "settle", "recheck", "fill", "judge", "over"}
        /\ \/ Realizable /\ pc # "schedule"
           \/ pc \in {"schedule", "over"} /\ \A n \in 2..4 : result[n] = "none"
        /\ pc \in BeforeReturn \cup {"ingest", "snapshot"} => result[2] = "none"
        /\ pc \in BeforeReturn \cup {"ingest", "snapshot", "settle", "recheck"} => result[3] = "none"
        /\ pc # "over" => result[4] = "none"
        /\ pc \in BeforeReturn => applied = 0
    /\ task = "nim" => pc \in {"activate", "resolve", "deposit", "balance", "after", "over"}
    /\ task = "trade" => pc \in {"before", "fill", "judge", "accrue", "over"}
    /\ task # "flow" => (pc # "over" => result[1] = "none")
    /\ pc \notin DrivePlaces => DriverIdle

AccountInv ==
    /\ task # "nim" => nim = 0
    /\ task = "nim" => earned = 0 /\ volume = 0
    /\ task # "flow" => late = 0
    /\ applied # 0 => active /\ applied <= OverlayTier

\* Enough is to be driven, whatever start volume was read.
TargetInv == pc \in DrivePlaces \ {"raised"} => target + earned >= tiers[Aim].vol_min

FlowSeen == task = "flow" =>
    /\ pc = "snapshot" \/ result[2] = "passed" => active /\ counted >= tiers[Aim].vol_min
    /\ pc = "recheck" \/ result[3] = "passed" =>
        /\ fault = "standardKept" => standard["perp"] <= tiers[Aim].perp
        /\ Graded => SettledDown
    /\ pc = "judge" =>
        /\ fault \in {"standardKept", "standardCharged"} => rate = standard["spot"]
        /\ fault = "none" /\ Graded /\ result[2] = "passed" /\ result[3] = "passed" =>
              Further \/ standard["perp"] <= tiers[Aim].perp \/ rate = BestOf(Aim, "spot")

NimSeen == task = "nim" =>
    /\ pc \notin {"activate", "over"} => active /\ fault # "inactive"
    /\ pc \in {"activate", "resolve", "deposit"} => nim = 0
    /\ pc \in {"activate", "resolve"} => applied \in {0, OverlayTier}
    /\ pc \in {"deposit", "balance", "after"} =>
        /\ Aim # 0
        /\ fault = "standardKept" => rate = standard["perp"]
        /\ fault = "none" => rate \in {BestOf(0, "perp"), BestOf(VolTier, "perp")}
    /\ pc = "after" => nim >= 100 * tiers[Aim].nim_min

TradeSeen == task = "trade" =>
    /\ ~pending =>
        /\ pc = "fill" => volume = earned
        /\ pc \in {"judge", "accrue"} => volume + 1 = earned
        /\ pc \in {"fill", "judge", "accrue"} /\ fault = "notCounted" => counted <= volume
    /\ pc = "judge" /\ fault = "none" =>
        OverlayTier > 1 \/ standard["perp"] > tiers[1].perp \/ rate = standard["perp"]

TierIInv ==
    /\ TierInv /\ DriverIInv /\ PlaceInv /\ AccountInv /\ TargetInv
    /\ FlowSeen /\ NimSeen /\ TradeSeen
    /\ PassesAreEarned /\ AlarmsExplained

(***************************************************************************)
(* "fill notional accrues to subject comp volume", test_perp_trade.py:92   *)
(* and :100: a green trade means that its own fill was counted.            *)
(***************************************************************************)
OwnFillCounted == task = "trade" /\ result[1] = "passed" => counted = earned
=============================================================================
