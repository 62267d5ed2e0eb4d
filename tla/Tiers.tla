-------------------------------- MODULE Tiers --------------------------------
(***************************************************************************)
(* lib/tiers.py: the tiers of a competition's fee schedule, and which of   *)
(* them an account's campaign volume, or its NIM balance, qualifies for.   *)
(*                                                                         *)
(* Rates are in hundredths of a basis point, so the conversions of _bps    *)
(* and bps_to_rate change only the unit, and two rates match within        *)
(* RATE_TOLERANCE, or the 1e-6 of the assertions, only if they are equal:  *)
(* the smallest gap between tiers is a tenth of a basis point.  A tier     *)
(* without a NIM requirement reads 0.                                      *)
(***************************************************************************)
EXTENDS Integers, Sequences, FiniteSetsExt

TierOf(level, vol_min, nim_min, perp_taker, spot_taker) ==
    [level |-> level, vol_min |-> vol_min, nim_min |-> nim_min,
     perp |-> perp_taker, spot |-> spot_taker]

Tier == [level : Nat, vol_min : Nat, nim_min : Nat, perp : Nat, spot : Nat]

\* competition_to_tiers, for a schedule that is there: sorted(), which is stable,
\* as the set of its one result.
CompetitionToTiers(fee_tiers) ==
    LET D == DOMAIN fee_tiers
        Before(i, j) == \/ fee_tiers[i].vol_min < fee_tiers[j].vol_min
                        \/ fee_tiers[i].vol_min = fee_tiers[j].vol_min /\ i < j
    IN  {[i \in D |-> fee_tiers[place[i]]] : place \in
            {f \in [D -> D] : \A i, j \in D : i < j => Before(f[i], f[j])}}

\* The position of the last tier that qualifies, or of the first one.
Deepest(tiers, qualified) == Max({1} \cup (qualified \cap DOMAIN tiers))

ExpectedCompTier(tiers, cum_vol) ==
    Deepest(tiers, {i \in DOMAIN tiers : cum_vol >= tiers[i].vol_min})

ExpectedTierEither(tiers, vol, nim) ==
    Deepest(tiers, {i \in DOMAIN tiers : vol >= tiers[i].vol_min \/ nim >= tiers[i].nim_min})
=============================================================================
