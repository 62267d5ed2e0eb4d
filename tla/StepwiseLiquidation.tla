------------------------ MODULE StepwiseLiquidation ------------------------
(***************************************************************************)
(* drive_stepwise_liquidation of lib/liquidation.py inside the test that   *)
(* calls it (suites/nimbus/perp/test_tiered_reduction.py): the mark is     *)
(* injected step by step deeper, each level held until the position is     *)
(* seen to shrink or its time is up; the real mark is then put back, by    *)
(* the test or, when the drive raised, by the module's teardown.           *)
(*                                                                         *)
(* The exchange (external) keeps an injected mark for about two seconds    *)
(* and, while one is in force, its scanner may take a tier off the         *)
(* position at any time.  Sizes are counted in tiers.                      *)
(***************************************************************************)
EXTENDS Integers, Sequences

CONSTANTS OpenSize,    \* tiers held when the drive begins
          MaxSteps,    \* max_steps
          MaxPieces    \* max_pieces

ASSUME LiquidationAssumption ==
    /\ OpenSize \in Nat /\ MaxSteps \in Nat
    /\ MaxPieces \in Nat \ {0}

VARIABLES pc,
          n,            \* the step
          size_before, size_after, reductions, steps,
          size,         \* the position at the exchange
          mark,         \* the level in force: 0 is the real mark
          injected,     \* history: an adverse mark was accepted
          restores,     \* state["restore"]: the teardown knows what to put back
          restored      \* history: restore_mark_price was called

drive == <<n, size_before, size_after, reductions, steps>>
world == <<size, mark, injected>>
vars == <<pc, drive, world, restores, restored>>

\* The test has opened the position; the mark has been read, nothing injected.
Init ==
    /\ pc = "remember" /\ n = 1
    /\ size_before = 0 /\ size_after = 0 /\ reductions = 0 /\ steps = <<>>
    /\ size = OpenSize /\ mark = 0 /\ injected = FALSE
    /\ restores = FALSE /\ restored = FALSE

-----------------------------------------------------------------------------
\* Mutants: nothing is remembered; an unchanged size counts.
Forget == FALSE
NotGrown == size_after <= size_before

\* state["restore"].append(...), before anything is injected.
Remembers == TRUE

Remember ==
    /\ pc = "remember"
    /\ restores' = Remembers
    /\ pc' = "before"
    /\ UNCHANGED <<drive, world, restored>>

\* The top of the for loop: size_before = size_of().
ReadBefore ==
    /\ pc = "before"
    /\ IF n > MaxSteps \/ size = 0
       THEN pc' = "driven" /\ UNCHANGED <<size_before, size_after>>
       ELSE pc' = "hold" /\ size_before' = size /\ size_after' = size
    /\ UNCHANGED <<n, reductions, steps, world, restores, restored>>

\* simulate_mark_price, best-effort: an injection may fail unseen.
Inject ==
    /\ pc = "hold"
    /\ \/ mark' = n /\ injected' = TRUE
       \/ UNCHANGED <<mark, injected>>
    /\ pc' = "look"
    /\ UNCHANGED <<drive, size, restores, restored>>

\* After poll_s, size_after = size_of(): a smaller one ends the hold.
Look ==
    /\ pc = "look"
    /\ size_after' = size
    /\ pc' = IF size < size_before THEN "record" ELSE "hold"
    /\ UNCHANGED <<n, size_before, reductions, steps, world, restores, restored>>

\* The deadline of the hold may pass between any two turns of the loop.
HoldOver ==
    /\ pc = "hold"
    /\ pc' = "record"
    /\ UNCHANGED <<drive, world, restores, restored>>

Reduced == size_after < size_before
Pieces == reductions + IF Reduced THEN 1 ELSE 0
CapReached(pieces) == pieces >= MaxPieces

Record ==
    /\ pc = "record"
    /\ steps' = Append(steps, [before |-> size_before, after |-> size_after])
    /\ reductions' = Pieces
    /\ n' = n + 1
    /\ pc' = IF size_after = 0 \/ CapReached(Pieces) THEN "driven" ELSE "before"
    /\ UNCHANGED <<size_before, size_after, world, restores, restored>>

\* size_of reads positions, and refreshes a token first when one is due.
SizeRaises ==
    /\ pc \in {"before", "look"}
    /\ n <= MaxSteps
    /\ pc' = "raised"
    /\ UNCHANGED <<drive, world, restores, restored>>

-----------------------------------------------------------------------------
\* restore_mark_price (best-effort) in the test, after the drive ...
RestoreAsap ==
    /\ pc = "driven"
    /\ mark' \in {0, mark}
    /\ restored' = TRUE
    /\ pc' = "asserts"
    /\ UNCHANGED <<drive, size, injected, restores>>

\* The rest of the test, passing or not.
TestOver ==
    /\ pc \in {"asserts", "raised"}
    /\ pc' = "teardown"
    /\ UNCHANGED <<drive, world, restores, restored>>

\* ... and in _restore_mark, the module's fixture.
Teardown ==
    /\ pc = "teardown"
    /\ IF restores
       THEN mark' \in {0, mark} /\ restored' = TRUE
       ELSE UNCHANGED <<mark, restored>>
    /\ pc' = "ended"
    /\ UNCHANGED <<drive, size, injected, restores>>

-----------------------------------------------------------------------------
\* The exchange.
MarkExpires == mark # 0 /\ mark' = 0 /\ UNCHANGED <<size, injected>>
ScannerReduces ==
    /\ mark # 0 /\ size > 0
    /\ size' = size - 1
    /\ UNCHANGED <<mark, injected>>

Exchange ==
    /\ MarkExpires \/ ScannerReduces
    /\ UNCHANGED <<pc, drive, restores, restored>>

Test ==
    \/ Remember \/ ReadBefore \/ Inject \/ Look \/ HoldOver \/ Record
    \/ RestoreAsap \/ TestOver \/ Teardown

Next == Test \/ SizeRaises \/ Exchange

Spec == Init /\ [][Next]_vars

-----------------------------------------------------------------------------
TypeOK ==
    /\ pc \in {"remember", "before", "hold", "look", "record", "driven", "raised",
               "asserts", "teardown", "ended"}
    /\ n \in 1..(MaxSteps + 1)
    /\ size_before \in 0..OpenSize /\ size_after \in 0..OpenSize
    /\ reductions \in 0..MaxPieces
    /\ steps \in Seq([before : 0..OpenSize, after : 0..OpenSize])
    /\ size \in 0..OpenSize /\ mark \in 0..MaxSteps
    /\ {injected, restores, restored} \subseteq BOOLEAN

(***************************************************************************)
(* The pieces reported are tiers really lost: although sizes are read at   *)
(* moments of the driver's own choosing, no more pieces are counted than   *)
(* the scanner took, and the sizes of the report only go down.             *)
(***************************************************************************)
PiecesAreReal ==
    /\ reductions <= OpenSize - size
    /\ \A i \in DOMAIN steps :
          /\ steps[i].after <= steps[i].before
          /\ i > 1 => steps[i].before <= steps[i - 1].after

\* Within a step: the sizes as read, one behind the other, and what may still come.
Holding == {"hold", "look", "record"}

StepIsSound ==
    /\ pc \in Holding =>
          /\ n <= MaxSteps
          /\ size <= size_after /\ size_after <= size_before
          /\ size_before <= OpenSize - reductions
    /\ pc \in Holding \cup {"remember", "before"} => reductions < MaxPieces
    /\ Len(steps) > 0 =>
          /\ size <= steps[Len(steps)].after
          /\ pc \in Holding => size_before <= steps[Len(steps)].after

\* The typing (never more reductions counted than max_pieces), the pieces, and the
\* step that makes them inductive.
PiecesInv == TypeOK /\ PiecesAreReal /\ StepIsSound

(***************************************************************************)
(* "teardown restore ALL injected marks, even on throw": a market whose    *)
(* mark was moved is put back before the module is over, whichever of the  *)
(* reads raised.                                                           *)
(***************************************************************************)
InjectedIsRestored == pc = "ended" /\ injected => restored

\* The driver's docstring, lib/liquidation.py:7: "never raises."
NeverRaises == pc # "raised"

(***************************************************************************)
(* The comment on max_pieces, lib/liquidation.py:37: "stop after this many *)
(* reductions (1 = single-tier TC-LIQ-030)": a finished drive has seen no  *)
(* more tiers go than it was to stop after.                                *)
(***************************************************************************)
StopsAfterMaxPieces == pc = "driven" => OpenSize - size_after <= MaxPieces
=============================================================================
