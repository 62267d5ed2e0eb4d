--------------------------- MODULE MCRestingOrder ---------------------------
(* Model-checking instance of RestingOrder. *)
EXTENDS RestingOrder, TLC

CONSTANTS r1, r2

\* The wanted market with every combination of the filters, a present one or none.
MCFiltered ==
    {<<SymbolOf(TRUE, TRUE, step, min_qty, min_notional, precision, 1)>> :
        step \in {0, 5, 20, 100}, min_qty \in {0, 1005, 2500, 5000},
        min_notional \in {0, 1000, 2000}, precision \in {1, 10, 1000}}

Plain(wanted, trading, step, tick) == SymbolOf(wanted, trading, step, 0, 0, 1, tick)

\* Nothing listed, only others, the wanted one halted beside one that trades, behind
\* one that trades, and with a coarse tick.
MCLists ==
    {<<>>, <<Plain(FALSE, TRUE, 5, 1)>>, <<Plain(FALSE, FALSE, 5, 1), Plain(FALSE, TRUE, 20, 0)>>,
     <<Plain(FALSE, TRUE, 5, 1), Plain(TRUE, FALSE, 20, 1)>>,
     <<Plain(TRUE, FALSE, 20, 1), Plain(TRUE, TRUE, 100, 1)>>,
     <<Plain(FALSE, TRUE, 5, 1), Plain(TRUE, TRUE, 20, 20)>>}

MCListings == MCFiltered \cup MCLists
MCReplica == {r1, r2}
MCSymmetry == Permutations(MCReplica)
=============================================================================
