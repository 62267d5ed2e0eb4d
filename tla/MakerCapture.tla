---------------------------- MODULE MakerCapture ----------------------------
(***************************************************************************)
(* capture_subject_maker_fill of lib/fee_flow.py: up to MaxAttempts times  *)
(* the subject rests a limit sell one tick inside the spread and the       *)
(* counterparty buys at the market; the first fill of the resting order    *)
(* that shows is_maker is returned, otherwise both accounts are closed and *)
(* the attempt repeated.  The book may have moved by the time the limit    *)
(* order arrives: it then trades as a taker.                               *)
(*                                                                         *)
(* FeeTierFlow lets the exchange match meanwhile and calls the teardown    *)
(* afterwards.                                                             *)
(***************************************************************************)
EXTENDS CloseAllPositions

CONSTANTS Subject, Maker,
          MaxAttempts,   \* max_attempts (3)
          Sizes          \* what size_amount may return

ASSUME CaptureAssumption ==
    /\ Party = {Subject, Maker} /\ Subject # Maker
    /\ MaxAttempts \in Nat
    /\ Sizes \subseteq 1..MaxUnits

VARIABLES attempts,   \* attempts begun
          began,      \* history: orders accepted when this attempt began
          amount,     \* this attempt's size
          mine,       \* index of the subject's limit order of this attempt
          captured    \* the fill returned: what it showed as made and as taken

capture == <<attempts, began, amount, mine, captured>>

Nothing == [made |-> 0, took |-> 0]

\* The function is entered (`at` = "loop"), is between two attempts, or the test failed
\* before it was called ("raised").
CaptureInit(at, made) ==
    /\ pc = at /\ posts = 0
    /\ attempts = made /\ began = 0 /\ amount = 0 /\ mine = 0 /\ captured = Nothing

-----------------------------------------------------------------------------
StartAttempt ==
    /\ pc = "loop" /\ attempts < MaxAttempts
    /\ attempts' = attempts + 1 /\ began' = Len(orders)
    /\ amount' \in Sizes
    /\ pc' = "rest"
    /\ UNCHANGED <<exchange, posts, mine, captured>>

OutOfAttempts ==
    /\ pc = "loop" /\ attempts = MaxAttempts
    /\ pc' = "none"
    /\ UNCHANGED <<exchange, posts, capture>>

\* Mutant: the first attempt's order is watched for good.
WatchFirst == mine' = IF mine = 0 THEN Len(orders) + 1 ELSE mine

Watch == mine' = Len(orders) + 1

\* side = "sell", direction = "short"; the order that was answered is watched.
RestSell ==
    /\ pc = "rest"
    /\ Place(Subject, "short", TRUE, TRUE, amount)
    /\ Watch
    /\ pc' = "lift"
    /\ UNCHANGED <<pos, repeats, posts, attempts, began, amount, captured>>

LiftSell ==
    /\ pc = "lift"
    /\ Place(Maker, "long", TRUE, FALSE, amount)
    /\ pc' = "watch"
    /\ UNCHANGED <<pos, repeats, posts, capture>>

\* Either order was accepted, its answer is lost, and the client posts it again.
PostAgain ==
    /\ \/ pc = "rest" /\ PlaceAgain(Subject, "short", TRUE, TRUE, amount)
       \/ pc = "lift" /\ PlaceAgain(Maker, "long", TRUE, FALSE, amount)
    /\ UNCHANGED <<pos, pc, posts, capture>>

\* fill.fills > 0 and fill.is_maker, where is_maker = any(t.is_maker ...)
IsMaker(o) == o.made > 0

SeeFill ==
    /\ pc = "watch" /\ WaitEnds(mine)
    /\ IF IsMaker(orders[mine])
       THEN /\ pc' = "captured"
            /\ captured' = [made |-> orders[mine].made, took |-> orders[mine].took]
       ELSE pc' = "closeSubject" /\ captured' = captured
    /\ UNCHANGED <<exchange, posts, attempts, began, amount, mine>>

CloseSubject ==
    /\ CloseTurn(Subject, "closeSubject", "closeMaker")
    /\ UNCHANGED capture

CloseMaker ==
    /\ CloseTurn(Maker, "closeMaker", "loop")
    /\ UNCHANGED capture

\* A read or a post raises; an order whose answer is lost may have been accepted.
Raise ==
    /\ pc \in {"rest", "lift", "watch"}
    /\ pc' = "raised"
    /\ \/ UNCHANGED orders
       \/ pc = "rest" /\ Place(Subject, "short", TRUE, TRUE, amount)
       \/ pc = "lift" /\ Place(Maker, "long", TRUE, FALSE, amount)
    /\ UNCHANGED <<pos, repeats, posts, capture>>

Try == \/ StartAttempt \/ OutOfAttempts \/ RestSell \/ LiftSell \/ PostAgain \/ SeeFill
       \/ CloseSubject \/ CloseMaker

CaptureRuns == {"loop", "rest", "lift", "watch", "closeSubject", "closeMaker"}
CaptureEnded == {"none", "captured", "raised"}

-----------------------------------------------------------------------------
CaptureTypeOK ==
    /\ attempts \in 0..MaxAttempts /\ began \in 0..Len(orders)
    /\ amount \in 0..MaxUnits /\ mine \in 0..Len(orders)
    /\ captured \in [made : 0..MaxUnits, took : 0..MaxUnits]

(***************************************************************************)
(* The fill returned shows a maker fill of this attempt's own order: sells *)
(* of earlier attempts, which go on resting and filling, a sell of this    *)
(* one that was accepted unanswered and posted again, the orders that buy  *)
(* from it and the close orders between the attempts are never taken for   *)
(* it.                                                                     *)
(***************************************************************************)
CapturedIsThisAttempts ==
    pc = "captured" =>
        /\ captured.made \in 1..(amount - captured.took)
        /\ mine > began
        /\ orders[mine].party = Subject /\ orders[mine].rests /\ orders[mine].opens

(***************************************************************************)
(* The docstring, lib/fee_flow.py:110: "capture ONE clean MAKER fill".     *)
(***************************************************************************)
CapturedIsClean == pc = "captured" => captured.took = 0
=============================================================================
