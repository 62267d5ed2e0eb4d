---------------------------- MODULE FeeTierFlow ----------------------------
(***************************************************************************)
(* The later phases of suites/competition/test_perp_fee_tier.py on the two *)
(* accounts its tests share: whatever the volume driver of phase 2 left    *)
(* behind, phase 5 captures a maker fill for the subject (MakerCapture),   *)
(* and the module's teardown flattens the pair (FlattenPair).  A test that *)
(* fails does not stop the phases after it.  The exchange matches at any   *)
(* time, also between two phases.                                          *)
(***************************************************************************)
EXTENDS MakerCapture, FlattenPair

CONSTANTS
    MaxBook,   \* bound: a teardown is followed when it finds this many orders at most
    Starts     \* moments to start from: what is held and in the book when phase 5
               \* begins ("loop"), or is between two attempts, or did not get
               \* as far as the capture ("raised")

ASSUME FlowAssumption ==
    /\ a = Subject /\ b = Maker /\ MaxBook \in Nat
    /\ \A start \in Starts :
          /\ start.pos \in [Party -> [Leg -> Nat]]
          /\ start.orders \in Seq(Order)
          /\ start.attempts \in 0..MaxAttempts
          /\ start.pc \in {"loop", "raised"}

vars == <<exchange, pc, posts, capture, flatten>>

Init ==
    /\ \E start \in Starts :
          /\ pos = start.pos /\ orders = start.orders /\ repeats = 0
          /\ CaptureInit(start.pc, start.attempts)
    /\ FlattenInit

Capture == Try /\ UNCHANGED flatten
CaptureRaises == Raise /\ UNCHANGED flatten

\* The phase is over, passed or failed; _flatten_after runs.
ModuleEnds ==
    /\ pc \in CaptureEnded /\ Len(orders) <= MaxBook
    /\ BeginFlatten
    /\ UNCHANGED capture

Flatten == Teardown /\ UNCHANGED capture
FlattenRaises == GiveUp /\ UNCHANGED capture

\* Bound: the model follows the exchange until the teardown raises or has closed
\* what was left; a flat return is watched for good.
Matching == how \notin {"closed", "gave_up"} /\ Match /\ UNCHANGED <<pc, posts, capture, flatten>>

Next == \/ Capture \/ CaptureRaises \/ ModuleEnds
        \/ Flatten \/ FlattenRaises \/ Matching

\* The process goes on by itself; nothing is assumed of the exchange.
Spec == Init /\ [][Next]_vars /\ WF_vars(Capture \/ ModuleEnds \/ Flatten)

-----------------------------------------------------------------------------
TypeOK ==
    /\ ExchangeTypeOK /\ CaptureTypeOK /\ FlattenTypeOK
    /\ pc \in CaptureRuns \cup CaptureEnded \cup FlattenRuns \cup {"ended"}
    /\ posts \in 0..(MaxPosts - 1)

(***************************************************************************)
(* The typing above, and what capture_subject_maker_fill returns: see      *)
(* CapturedIsThisAttempts in MakerCapture.                                 *)
(***************************************************************************)
FlowInv == TypeOK /\ CapturedIsThisAttempts

(***************************************************************************)
(* The capture comes to an end, and so does the teardown, whatever is      *)
(* filled, refused or lost meanwhile: every loop is bounded and every wait *)
(* has a deadline.                                                         *)
(***************************************************************************)
TeardownEnds ==
    /\ <>(pc \in CaptureEnded \/ how # "not_called")
    /\ how = "running" ~> how \in {"flat", "closed", "gave_up"}
=============================================================================
