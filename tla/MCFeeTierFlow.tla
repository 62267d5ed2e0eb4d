--------------------------- MODULE MCFeeTierFlow ---------------------------
(* Model-checking instance of FeeTierFlow. *)
EXTENDS FeeTierFlow

CONSTANTS subject, maker

MCParty == {subject, maker}

Held(long, short) ==
    [p \in MCParty |-> IF p = subject THEN [long |-> long, short |-> 0]
                                      ELSE [long |-> 0, short |-> short]]

\* A leg that was skipped leaves its ask behind; so does the first attempt of the
\* capture, when an outsider sold to the counterparty.
Ask(p) == [party |-> p, leg |-> "short", opens |-> TRUE, state |-> "resting",
           rests |-> TRUE, left |-> 1, made |-> 0, took |-> 0]

Bought == [party |-> maker, leg |-> "long", opens |-> TRUE, state |-> "done",
           rests |-> FALSE, left |-> 0, made |-> 0, took |-> 1]

\* A first capture; the second attempt of one, the counterparty's close refused;
\* teardowns of what the driver may leave.
MCStarts ==
    {[pc |-> "loop", attempts |-> 0, orders |-> <<>>, pos |-> Held(0, 0)],
     [pc |-> "loop", attempts |-> 1, orders |-> <<Ask(subject), Bought>>,
      pos |-> [Held(1, 0) EXCEPT ![maker]["long"] = 1]],
     [pc |-> "loop", attempts |-> 1, orders |-> <<Ask(maker), Ask(subject), Bought>>,
      pos |-> [Held(1, 0) EXCEPT ![maker]["long"] = 1]],
     [pc |-> "raised", attempts |-> 0, orders |-> <<>>, pos |-> Held(2, 1)],
     [pc |-> "raised", attempts |-> 0, orders |-> <<>>, pos |-> Held(2, 2)],
     [pc |-> "raised", attempts |-> 0, orders |-> <<Ask(maker)>>, pos |-> Held(1, 1)]}
=============================================================================
