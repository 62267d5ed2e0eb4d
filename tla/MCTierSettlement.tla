-------------------------- MODULE MCTierSettlement --------------------------
(* Model-checking instance of TierSettlement, and with it of VolumeDriver. *)
EXTENDS TierSettlement

CONSTANTS subject, maker

MCParty == {subject, maker}
\* One entry more than the cycles the driver may run.
MCSizes == <<{2}, {1}, {1}>>

Base == TierOf(0, 0, 0, 400, 1000)
Vip1 == TierOf(1, 2, 1, 350, 800)
Vip2 == TierOf(2, 5, 4, 300, 600)

\* Listed out of order; and one whose second tier is no cheaper for spot, for phase 1 to
\* find, and whose third asks for no NIM.
MCSchedules == {<<Base, Vip2, Vip1>>,
                <<Base, TierOf(1, 2, 1, 350, 1000), TierOf(2, 5, 0, 300, 600)>>}

\* The first standard tier, two deeper ones, better and worse than the target, and one
\* that is better for perp only.
MCStandards == {[perp |-> 400, spot |-> 1000], [perp |-> 320, spot |-> 700],
                [perp |-> 380, spot |-> 800], [perp |-> 320, spot |-> 900]}

\* The drive and its properties read how much of an order is filled, not in which role.
View == <<pos, repeats, driver, chosen, account, ledger, test,
          [i \in DOMAIN orders |-> [orders[i] EXCEPT !.made = 0, !.took = Filled(orders[i])]]>>
=============================================================================
