-------------------------- MODULE LiquidationProofs --------------------------
(***************************************************************************)
(* Proofs about the two liquidation drives, StepwiseLiquidation and        *)
(* CrossLiquidation, for every value of their constants.                   *)
(***************************************************************************)
EXTENDS StepwiseLiquidation, CrossLiquidation, TLAPS

-----------------------------------------------------------------------------
(***************************************************************************)
(* The stepwise drive, for any position, number of steps and cap on the    *)
(* pieces.                                                                 *)
(***************************************************************************)

\* The last element of a sequence is of its elements.
LEMMA LastElement ==
    ASSUME NEW S, NEW s \in Seq(S), Len(s) > 0 PROVE s[Len(s)] \in S
<1>1. Len(s) \in Nat /\ Len(s) \in 1..Len(s)
  OBVIOUS
<1>2. QED
  BY <1>1

LEMMA PiecesInit == Init => PiecesInv
<1> SUFFICES ASSUME Init PROVE PiecesInv
  OBVIOUS
<1> USE LiquidationAssumption DEF LiquidationAssumption, Init
<1>1. TypeOK
  <2>1. steps \in Seq([before : 0..OpenSize, after : 0..OpenSize])
    OBVIOUS
  <2>2. {injected, restores, restored} \subseteq BOOLEAN
    OBVIOUS
  <2>3. QED
    BY <2>1, <2>2 DEF TypeOK
<1>2. PiecesAreReal
  BY DEF PiecesAreReal
<1>3. StepIsSound
  BY DEF StepIsSound, Holding
<1>4. QED
  BY <1>1, <1>2, <1>3 DEF PiecesInv

\* Steps that change neither sizes nor counts, and do not begin to hold.
LEMMA KeepsAside ==
    ASSUME PiecesInv, UNCHANGED <<drive, size>>,
           mark' \in 0..MaxSteps, {injected', restores', restored'} \subseteq BOOLEAN,
           \/ pc' = pc
           \/ pc' \in {"driven", "raised", "asserts", "teardown", "ended"}
           \/ pc = "remember" /\ pc' = "before"
           \/ pc = "hold" /\ pc' \in {"look", "record"}
    PROVE  PiecesInv'
<1> USE DEF PiecesInv, drive
<1>1. TypeOK'
  BY DEF TypeOK
<1>2. PiecesAreReal'
  BY DEF PiecesAreReal
<1>3. StepIsSound'
  BY DEF StepIsSound, Holding
<1>4. QED
  BY <1>1, <1>2, <1>3

LEMMA KeepsReadBefore == ASSUME PiecesInv, ReadBefore PROVE PiecesInv'
<1> USE LiquidationAssumption DEF LiquidationAssumption, PiecesInv
<1>0. UNCHANGED <<n, reductions, steps, size, mark, injected, restores, restored>>
  BY DEF ReadBefore, world
<1>1. CASE pc' = "driven" /\ UNCHANGED <<size_before, size_after>>
  BY <1>0, <1>1, KeepsAside DEF TypeOK, drive
<1>2. CASE /\ pc = "before" /\ n <= MaxSteps
           /\ pc' = "hold" /\ size_before' = size /\ size_after' = size
  <2>1. TypeOK'
    BY <1>0, <1>2 DEF TypeOK
  <2>2. PiecesAreReal'
    BY <1>0, <1>2 DEF PiecesAreReal
  <2>3. StepIsSound'
    BY <1>0, <1>2 DEF StepIsSound, PiecesAreReal, Holding, TypeOK
  <2>4. QED
    BY <2>1, <2>2, <2>3
<1>3. QED
  BY <1>1, <1>2 DEF ReadBefore, TypeOK

LEMMA KeepsLook == ASSUME PiecesInv, Look PROVE PiecesInv'
<1> USE DEF PiecesInv
<1>0. /\ pc = "look" /\ size_after' = size /\ pc' \in {"record", "hold"}
      /\ UNCHANGED <<n, size_before, reductions, steps, size, mark, injected, restores, restored>>
  BY DEF Look, world
<1>1. TypeOK'
  BY <1>0 DEF TypeOK
<1>2. PiecesAreReal'
  BY <1>0 DEF PiecesAreReal
<1>3. StepIsSound'
  BY <1>0 DEF StepIsSound, Holding, TypeOK
<1>4. QED
  BY <1>1, <1>2, <1>3

\* A piece is counted when the size was seen to go down: what was read before the
\* step is at most what the pieces so far have left, and what was read after it is
\* at least what is there.
LEMMA KeepsRecord == ASSUME PiecesInv, Record PROVE PiecesInv'
<1> USE LiquidationAssumption DEF LiquidationAssumption, PiecesInv
<1> DEFINE step == [before |-> size_before, after |-> size_after]
<1>0. /\ pc = "record" /\ n' = n + 1
      /\ steps' = Append(steps, step)
      /\ reductions' = reductions + IF size_after < size_before THEN 1 ELSE 0
      /\ \/ pc' = "driven"
         \/ pc' = "before" /\ reductions' < MaxPieces
      /\ UNCHANGED <<size_before, size_after, size, mark, injected, restores, restored>>
  BY DEF Record, Pieces, Reduced, CapReached, world, TypeOK
<1>1. /\ n <= MaxSteps /\ size <= size_after /\ size_after <= size_before
      /\ size_before <= OpenSize - reductions /\ reductions < MaxPieces
      /\ Len(steps) > 0 => size_before <= steps[Len(steps)].after
  BY <1>0 DEF StepIsSound, Holding
<1>2. /\ step \in [before : 0..OpenSize, after : 0..OpenSize]
      /\ steps \in Seq([before : 0..OpenSize, after : 0..OpenSize])
  BY DEF TypeOK
<1>3. /\ steps' \in Seq([before : 0..OpenSize, after : 0..OpenSize])
      /\ Len(steps) \in Nat /\ Len(steps') = Len(steps) + 1
      /\ DOMAIN steps = 1..Len(steps) /\ DOMAIN steps' = 1..Len(steps) + 1
      /\ \A i \in 1..Len(steps) : steps'[i] = steps[i]
      /\ steps'[Len(steps) + 1] = step
  BY <1>0, <1>2
<1>4. TypeOK'
  BY <1>0, <1>1, <1>3 DEF TypeOK
<1>5. PiecesAreReal'
  <2>1. reductions' <= OpenSize - size
    BY <1>0, <1>1 DEF TypeOK
  <2>2. ASSUME NEW i \in 1..Len(steps) + 1
        PROVE  /\ steps'[i].after <= steps'[i].before
               /\ i > 1 => steps'[i].before <= steps'[i - 1].after
    <3>1. CASE i \in 1..Len(steps)
      <4>1. steps'[i] = steps[i] /\ i \in DOMAIN steps
        BY <1>3, <3>1
      <4>2. i > 1 => steps'[i - 1] = steps[i - 1]
        <5>1. i > 1 => i - 1 \in 1..Len(steps)
          BY <1>3, <3>1
        <5>2. QED
          BY <1>3, <5>1
      <4>3. QED
        BY <4>1, <4>2 DEF PiecesAreReal
    <3>2. CASE i = Len(steps) + 1
      BY <1>1, <1>3, <3>2
    <3>3. QED
      BY <1>3, <2>2, <3>1, <3>2
  <2>3. QED
    BY <1>0, <1>3, <2>1, <2>2 DEF PiecesAreReal
<1>6. StepIsSound'
  BY <1>0, <1>1, <1>3 DEF StepIsSound, Holding
<1>7. QED
  BY <1>4, <1>5, <1>6

\* The scanner: sizes that were read are behind it.
LEMMA KeepsExchange == ASSUME PiecesInv, Exchange PROVE PiecesInv'
<1> USE LiquidationAssumption DEF LiquidationAssumption, PiecesInv
<1>0. UNCHANGED <<pc, drive, restores, restored, injected>>
  BY DEF Exchange, MarkExpires, ScannerReduces
<1>1. CASE MarkExpires
  BY <1>0, <1>1, KeepsAside DEF MarkExpires, TypeOK
<1>2. CASE ScannerReduces
  <2>0. size > 0 /\ size' = size - 1 /\ UNCHANGED mark
    BY <1>2 DEF ScannerReduces
  <2>1. TypeOK'
    BY <1>0, <2>0 DEF TypeOK, drive
  <2>2. PiecesAreReal'
    BY <1>0, <2>0 DEF PiecesAreReal, drive, TypeOK
  <2>3. StepIsSound'
    <3>1. Len(steps) > 0 => steps[Len(steps)].after \in 0..OpenSize
      <4>1. steps \in Seq([before : 0..OpenSize, after : 0..OpenSize])
        BY DEF TypeOK
      <4>2. Len(steps) > 0 => steps[Len(steps)] \in [before : 0..OpenSize, after : 0..OpenSize]
        BY <4>1, LastElement
      <4>3. QED
        BY <4>2
    <3>2. QED
      BY <1>0, <2>0, <3>1 DEF StepIsSound, Holding, drive, TypeOK
  <2>4. QED
    BY <2>1, <2>2, <2>3
<1>3. QED
  BY <1>1, <1>2 DEF Exchange

(***************************************************************************)
(* The pieces reported are tiers really lost, and never more than          *)
(* max_pieces, whatever the scanner does between the driver's reads        *)
(* (lib/liquidation.py, drive_stepwise_liquidation).                       *)
(***************************************************************************)
THEOREM PiecesInvariant == Spec => []PiecesInv
<1>1. Init => PiecesInv
  BY PiecesInit
<1>2. PiecesInv /\ [Next]_vars => PiecesInv'
  <2> SUFFICES ASSUME PiecesInv, [Next]_vars PROVE PiecesInv'
    OBVIOUS
  <2> USE LiquidationAssumption DEF LiquidationAssumption, PiecesInv
  <2>1. CASE Remember
    BY <2>1, KeepsAside DEF Remember, Remembers, world, TypeOK
  <2>2. CASE ReadBefore
    BY <2>2, KeepsReadBefore
  <2>3. CASE Inject
    <3>1. mark' \in 0..MaxSteps
      BY <2>3 DEF Inject, TypeOK, StepIsSound, Holding
    <3>2. QED
      BY <2>3, <3>1, KeepsAside DEF Inject, TypeOK
  <2>4. CASE Look
    BY <2>4, KeepsLook
  <2>5. CASE HoldOver
    BY <2>5, KeepsAside DEF HoldOver, world, TypeOK
  <2>6. CASE Record
    BY <2>6, KeepsRecord
  <2>7. CASE SizeRaises
    BY <2>7, KeepsAside DEF SizeRaises, world, TypeOK
  <2>8. CASE RestoreAsap
    BY <2>8, KeepsAside DEF RestoreAsap, TypeOK
  <2>9. CASE TestOver
    BY <2>9, KeepsAside DEF TestOver, world, TypeOK
  <2>10. CASE Teardown
    <3>1. /\ mark' \in 0..MaxSteps /\ pc' = "ended" /\ UNCHANGED <<drive, size>>
          /\ {injected', restores', restored'} \subseteq BOOLEAN
      <4>1. CASE restores
        BY <2>10, <4>1 DEF Teardown, TypeOK
      <4>2. CASE ~restores
        BY <2>10, <4>2 DEF Teardown, TypeOK
      <4>3. QED
        BY <4>1, <4>2
    <3>2. QED
      BY <3>1, KeepsAside
  <2>11. CASE Exchange
    BY <2>11, KeepsExchange
  <2>12. CASE UNCHANGED vars
    BY <2>12, KeepsAside DEF vars, world, TypeOK
  <2>13. QED
    BY <2>1, <2>2, <2>3, <2>4, <2>5, <2>6, <2>7, <2>8, <2>9, <2>10, <2>11, <2>12
       DEF Next, Test
<1>3. QED
  BY <1>1, <1>2, PTL DEF Spec

-----------------------------------------------------------------------------
\* The teardown knows what to put back before anything is injected.
Remembered ==
    /\ pc = "remember" => ~injected
    /\ pc # "remember" => restores
    /\ InjectedIsRestored

(***************************************************************************)
(* "teardown restore ALL injected marks, even on throw"                    *)
(* (suites/nimbus/perp/test_tiered_reduction.py): whichever read raised,   *)
(* the mark has been put back when the module is over.                     *)
(***************************************************************************)
THEOREM MarkPutBack == Spec => []InjectedIsRestored
<1>1. Init => Remembered
  BY DEF Init, Remembered, InjectedIsRestored
<1>2. Remembered /\ [Next]_vars => Remembered'
  <2> SUFFICES ASSUME Remembered, [Next]_vars PROVE Remembered'
    OBVIOUS
  <2> USE DEF Remembered, InjectedIsRestored
  <2>1. CASE Remember
    BY <2>1 DEF Remember, Remembers, world
  <2>2. CASE ReadBefore \/ Inject \/ Look \/ HoldOver \/ Record
    BY <2>2 DEF ReadBefore, Inject, Look, HoldOver, Record, world
  <2>3. CASE RestoreAsap \/ TestOver \/ SizeRaises
    BY <2>3 DEF RestoreAsap, TestOver, SizeRaises, world
  <2>4. CASE Teardown
    BY <2>4 DEF Teardown
  <2>5. CASE Exchange
    BY <2>5 DEF Exchange, MarkExpires, ScannerReduces
  <2>6. CASE UNCHANGED vars
    BY <2>6 DEF vars, world
  <2>7. QED
    BY <2>1, <2>2, <2>3, <2>4, <2>5, <2>6 DEF Next, Test
<1>3. QED
  BY <1>1, <1>2, PTL DEF Spec, Remembered

-----------------------------------------------------------------------------
(***************************************************************************)
(* The cross-account drive, for every set of markets, size, timeout,       *)
(* polling period, slot and hold: the pump of every turn bounds the age of *)
(* an accepted mark by what the turn has taken, and until it has posted    *)
(* that mark again by the turn before as well (TurnInv).                   *)
(***************************************************************************)

LEMMA TurnInit == CrossInit => TurnInv
<1> SUFFICES ASSUME CrossInit PROVE TurnInv
  OBVIOUS
<1>1. /\ Timeout \in Nat /\ Late \in Nat /\ Poll \in Nat /\ Slot \in Nat /\ Size \in Nat
      /\ Stale \in Nat
  BY CrossAssumption DEF CrossAssumption, Stale
<1>2. /\ left \in 0..Timeout /\ busy \in 0..Late /\ slept \in 0..Poll /\ idle \in 0..Slot
      /\ total \in 0..Size /\ total_before \in 0..Size /\ total_after \in 0..Size
  BY <1>1 DEF CrossInit
<1>3. age \in [Market -> 0..Stale]
  BY <1>1 DEF CrossInit
<1>4. CrossTypeOK
  BY <1>2, <1>3 DEF CrossInit, CrossTypeOK
<1> QED
  BY <1>4 DEF CrossInit, TurnInv, Driving

\* Steps that change neither the turn, nor the posts, nor the marks.
LEMMA TurnStays ==
    ASSUME TurnInv, UNCHANGED <<busy, slept, since, posts, marks>>,
           left' \in 0..Timeout, idle' \in 0..Slot,
           {total', total_before', total_after'} \subseteq 0..Size,
           \/ place' = place
           \/ place = "begin" /\ place' = "loop"
           \/ place = "read" /\ place' = "loop"
           \/ place = "post" /\ place' = "sleep" /\ sent = None /\ todo = {}
           \/ place = "sleep" /\ place' = "read" /\ slept >= Poll
           \/ place \in {"begin", "loop", "read"} /\ place' \in {"done", "raised"}
    PROVE  TurnInv'
<1> USE CrossAssumption DEF CrossAssumption, posts, marks
<1>1. CrossTypeOK'
  BY DEF TurnInv, CrossTypeOK
<1>2. Driving' /\ since' # Never => Driving /\ since # Never
  BY DEF TurnInv, Driving
<1>3. \A m \in accepted : Renewed(m) => Renewed(m)'
  BY DEF Renewed, TurnInv
<1>4. \A m \in accepted : since # Never /\ Driving' /\ age[m] <= since => age[m]' <= since'
  OBVIOUS
<1>5. ASSUME NEW m \in accepted, Driving', since # Never
      PROVE  age[m]' <= since' + IF Renewed(m)' THEN 0 ELSE Poll + Late
  <2>1. age[m] <= since + IF Renewed(m) THEN 0 ELSE Poll + Late
    BY <1>2, <1>5 DEF TurnInv
  <2>2. Renewed(m) \/ (place' = place /\ ~Renewed(m) /\ ~Renewed(m)')
    BY <1>3 DEF Renewed
  <2> QED
    BY <1>3, <2>1, <2>2
<1>6. Driving' /\ since' # Never => since' = busy' + slept' /\ (place' = "post" => slept' = 0)
  BY <1>2 DEF TurnInv
<1>7. Driving' /\ since' # Never /\ place' \in {"loop", "read"} => slept' = Poll
  BY <1>2 DEF TurnInv, CrossTypeOK
<1>8. /\ since' = Never => accepted' = {} /\ place' \notin {"post", "sleep", "read"}
      /\ place' = "begin" => since' = Never
      /\ sent' # None => place' = "post" /\ sent' \in todo'
      /\ hit' => sent' # None /\ age'[sent'] <= since'
  BY DEF TurnInv
<1> QED
  BY <1>1, <1>5, <1>6, <1>7, <1>8 DEF TurnInv

(***************************************************************************)
(* The pump of a new turn is never too soon: the turn before slept for     *)
(* Poll at least, and Interval <= Poll.                                    *)
(***************************************************************************)
LEMMA PumpPosts ==
    ASSUME TurnInv, Pump
    PROVE  /\ place' = "post" /\ since' = 0 /\ todo' = Market /\ busy' = 0 /\ slept' = 0
           /\ place = "loop" /\ sent = None /\ ~hit
           /\ UNCHANGED <<left, idle, sent, hit, marks, sizes>>
<1>1. ~TooSoon
  BY CrossAssumption
  DEF CrossAssumption, TurnInv, CrossTypeOK, Driving, Pump, TooSoon, Never
<1> QED
  BY <1>1 DEF Pump, TurnInv

LEMMA TurnPump == TurnInv /\ Pump => TurnInv'
<1> SUFFICES ASSUME TurnInv, Pump PROVE TurnInv'
  OBVIOUS
<1> USE CrossAssumption DEF CrossAssumption
<1>1. /\ place' = "post" /\ since' = 0 /\ todo' = Market /\ busy' = 0 /\ slept' = 0
      /\ place = "loop" /\ sent = None /\ ~hit
      /\ UNCHANGED <<left, idle, sent, hit, marks, sizes>>
  BY PumpPosts
<1>2. CrossTypeOK'
  BY <1>1 DEF TurnInv, CrossTypeOK, marks, sizes
<1>3. ASSUME NEW m \in accepted
      PROVE  age[m] <= Poll + Late /\ ~Renewed(m)'
  <2>1. since # Never /\ since <= Poll + Late
    BY <1>1 DEF TurnInv, CrossTypeOK, Driving
  <2>2. Renewed(m) /\ m \in Market /\ age[m] \in Nat
    BY <1>1 DEF Renewed, TurnInv, CrossTypeOK, Stale
  <2>3. age[m] <= since
    BY <1>1, <2>1, <2>2 DEF TurnInv, Driving, CrossTypeOK
  <2> QED
    BY <1>1, <2>1, <2>2, <2>3 DEF Renewed, TurnInv, CrossTypeOK
<1> QED
  BY <1>1, <1>2, <1>3 DEF TurnInv, marks, Never

\* A post is sent: the mark it is to renew has not been renewed in this turn.
LEMMA TurnPost == TurnInv /\ Post => TurnInv'
<1> SUFFICES ASSUME TurnInv, Post PROVE TurnInv'
  OBVIOUS
<1>1. /\ place = "post" /\ sent = None /\ sent' \in todo /\ hit' = FALSE /\ idle' = 0
      /\ UNCHANGED <<place, left, busy, slept, since, todo, accepted, age>>
      /\ UNCHANGED <<total, total_before, total_after>>
  BY DEF Post, TakesSlot, turn, marks, sizes
<1>2. CrossTypeOK' /\ sent' # None
  <2>1. todo \subseteq Market /\ Slot \in Nat
    BY CrossAssumption DEF CrossAssumption, TurnInv, CrossTypeOK
  <2>2. sent' \in Market
    BY <1>1, <2>1
  <2>3. sent' # None
    BY <2>2, NoneAssumption
  <2> QED
    <3>1. CrossTypeOK
      BY DEF TurnInv
    <3>2. idle' \in 0..Slot /\ sent' \in Market \cup {None}
      BY <1>1, <2>1, <2>2
    <3>3. hit' \in BOOLEAN
      BY <1>1
    <3> QED
      BY <1>1, <2>3, <3>1, <3>2, <3>3 DEF CrossTypeOK
<1>3. ASSUME NEW m \in accepted PROVE Renewed(m)' <=> Renewed(m)
  BY <1>1 DEF Renewed, TurnInv
<1> QED
  BY <1>1, <1>2, <1>3 DEF TurnInv, Driving

\* The exchange executes it: that mark is new.
LEMMA TurnExecute == TurnInv /\ Execute => TurnInv'
<1> SUFFICES ASSUME TurnInv, Execute PROVE TurnInv'
  OBVIOUS
<1> USE CrossAssumption DEF CrossAssumption
<1>1. /\ sent # None /\ hit' = TRUE /\ age' = [age EXCEPT ![sent] = 0]
      /\ UNCHANGED <<place, left, busy, slept, since, idle, todo, sent, accepted>>
      /\ UNCHANGED <<total, total_before, total_after>>
  BY DEF Execute, clock, turn, sizes
<1>2. place = "post" /\ sent \in Market /\ since # Never /\ since \in Nat
  BY <1>1 DEF TurnInv, CrossTypeOK
<1>3. CrossTypeOK'
  BY <1>1, <1>2 DEF TurnInv, CrossTypeOK, Stale
<1>4. ASSUME NEW m \in accepted
      PROVE  age'[m] <= since + IF Renewed(m)' THEN 0 ELSE Poll + Late
  <2>1. m \in Market /\ age[m] <= since + IF Renewed(m) THEN 0 ELSE Poll + Late
    BY <1>2 DEF TurnInv, Driving, CrossTypeOK
  <2>2. CASE m = sent
    BY <1>1, <1>2, <2>1, <2>2 DEF TurnInv, CrossTypeOK, Renewed
  <2>3. CASE m # sent
    BY <1>1, <1>2, <2>1, <2>3 DEF TurnInv, CrossTypeOK, Renewed
  <2> QED
    BY <2>2, <2>3
<1>5. age'[sent'] <= since'
  BY <1>1, <1>2 DEF TurnInv, CrossTypeOK
<1> QED
  BY <1>1, <1>2, <1>3, <1>4, <1>5 DEF TurnInv, Driving

\* It ends: if it counts as accepted it was executed, in this turn.
LEMMA TurnPostEnds == TurnInv /\ PostEnds => TurnInv'
<1> SUFFICES ASSUME TurnInv, PostEnds PROVE TurnInv'
  OBVIOUS
<1> USE CrossAssumption DEF CrossAssumption
<1>1. /\ sent # None /\ todo' = todo \ {sent} /\ sent' = None /\ hit' = FALSE
      /\ UNCHANGED <<place, left, busy, slept, since, idle, age>>
      /\ UNCHANGED <<total, total_before, total_after>>
  BY DEF PostEnds, Remaining, clock, turn, sizes
<1>2. \/ hit /\ accepted' = accepted \cup {sent}
      \/ accepted' = accepted \ {sent}
  BY DEF PostEnds
<1>3. place = "post" /\ sent \in Market /\ since # Never /\ since \in Nat
  BY <1>1 DEF TurnInv, CrossTypeOK
<1>4. CrossTypeOK'
  BY <1>1, <1>2, <1>3 DEF TurnInv, CrossTypeOK
<1>5. ASSUME NEW m \in accepted'
      PROVE  age[m] <= since + IF Renewed(m)' THEN 0 ELSE Poll + Late
  <2>0. /\ accepted \subseteq Market /\ since \in Nat
        /\ \A k \in accepted : age[k] <= since + IF Renewed(k) THEN 0 ELSE Poll + Late
    BY <1>3 DEF TurnInv, Driving, CrossTypeOK
  <2>1. CASE m = sent
    <3>1. age[m] <= since
      <4>1. CASE hit
        BY <2>1, <4>1 DEF TurnInv
      <4>2. CASE ~hit
        BY <1>2, <2>1, <4>2
      <4> QED
        BY <4>1, <4>2
    <3>2. Renewed(m)'
      BY <1>1, <2>1 DEF Renewed
    <3> QED
      BY <2>0, <3>1, <3>2
  <2>2. CASE m # sent
    <3>1. m \in accepted /\ (Renewed(m)' <=> Renewed(m))
      BY <1>1, <1>2, <2>2 DEF Renewed
    <3>2. age[m] <= since + IF Renewed(m) THEN 0 ELSE Poll + Late
      BY <1>3, <3>1 DEF TurnInv, Driving
    <3> QED
      BY <3>1, <3>2
  <2> QED
    BY <2>1, <2>2
<1> QED
  BY <1>1, <1>3, <1>4, <1>5 DEF TurnInv, Driving

(***************************************************************************)
(* Time passes for the marks and for the turn alike.                       *)
(***************************************************************************)
LEMMA TurnTick == TurnInv /\ Tick => TurnInv'
<1> SUFFICES ASSUME TurnInv, Tick PROVE TurnInv'
  OBVIOUS
<1> USE CrossAssumption DEF CrossAssumption
<1>0. /\ place \in {"post", "sleep", "read"}
      /\ left' = IF left > 0 THEN left - 1 ELSE 0
      /\ idle' = IF idle + 1 < Slot THEN idle + 1 ELSE Slot
      /\ age' = [m \in Market |-> IF age[m] + 1 < Stale THEN age[m] + 1 ELSE Stale]
      /\ UNCHANGED <<place, todo, sent, hit, accepted, total, total_before, total_after>>
  <2>1. \A a, b \in Int : UpTo(a, b) = IF b < a THEN b ELSE a
    BY DEF UpTo
  <2>2. Slot \in Int /\ Stale \in Int /\ idle + 1 \in Int
    BY DEF TurnInv, CrossTypeOK, Stale
  <2>3. \A m \in Market : age[m] + 1 \in Int
    BY DEF TurnInv, CrossTypeOK, Stale
  <2>4. idle' = UpTo(Slot, idle + 1) /\ age' = [m \in Market |-> UpTo(Stale, age[m] + 1)]
    BY DEF Tick
  <2>5. \A m \in Market :
          UpTo(Stale, age[m] + 1) = IF age[m] + 1 < Stale THEN age[m] + 1 ELSE Stale
    BY <2>1, <2>2, <2>3
  <2>6. idle' = IF idle + 1 < Slot THEN idle + 1 ELSE Slot
    BY <2>1, <2>2, <2>4
  <2>7. age' = [m \in Market |-> IF age[m] + 1 < Stale THEN age[m] + 1 ELSE Stale]
    BY <2>4, <2>5
  <2> QED
    BY <2>6, <2>7 DEF Tick, posts, sizes
<1>1. since \in Nat /\ since # Never /\ since' = since + 1 /\ since = busy + slept
  BY <1>0 DEF Tick, TurnInv, CrossTypeOK, Driving, Never
<1>2. \/ /\ place = "sleep" /\ slept < Poll
         /\ slept' = slept + 1 /\ busy' = busy
      \/ /\ place \in {"post", "read"} \/ (place = "sleep" /\ slept = Poll)
         /\ busy < Late /\ busy' = busy + 1 /\ slept' = slept
  BY DEF Tick
<1>3. \A m \in Market : age'[m] \in 0..Stale /\ age'[m] <= age[m] + 1
  BY <1>0 DEF TurnInv, CrossTypeOK, Stale
<1>4. CrossTypeOK'
  <2>1. busy' \in 0..Late /\ slept' \in 0..Poll /\ idle' \in 0..Slot /\ left' \in 0..Timeout
    BY <1>0, <1>2 DEF TurnInv, CrossTypeOK
  <2>2. age' \in [Market -> 0..Stale]
    BY <1>0, <1>3
  <2> QED
    BY <1>0, <1>1, <2>1, <2>2 DEF TurnInv, CrossTypeOK
<1>5. since' = busy' + slept'
  BY <1>1, <1>2 DEF TurnInv, CrossTypeOK
<1>6. ASSUME NEW m \in accepted
      PROVE  age'[m] <= since' + IF Renewed(m)' THEN 0 ELSE Poll + Late
  <2>1. m \in Market /\ age[m] \in Nat
    BY DEF TurnInv, CrossTypeOK, Stale
  <2>2. age[m] <= since + IF Renewed(m) THEN 0 ELSE Poll + Late
    BY <1>0, <1>1 DEF TurnInv, Driving
  <2>3. Renewed(m)' <=> Renewed(m)
    BY <1>0 DEF Renewed
  <2> QED
    BY <1>1, <1>3, <2>1, <2>2, <2>3
<1>7. /\ place' = "post" => slept' = 0
      /\ place' \in {"loop", "read"} => slept' = Poll
  BY <1>0, <1>1, <1>2 DEF TurnInv, CrossTypeOK, Driving
<1>8. /\ since' # Never /\ place' # "begin"
      /\ sent' # None => place' = "post" /\ sent' \in todo'
      /\ hit' => sent' # None
  BY <1>0, <1>1 DEF TurnInv, Never
<1>9. hit' => age'[sent'] <= since'
  <2> SUFFICES ASSUME hit PROVE age'[sent] <= since'
    BY <1>0
  <2>1. sent \in Market /\ age[sent] <= since /\ age[sent] \in Nat
    BY DEF TurnInv, CrossTypeOK, Stale
  <2> QED
    BY <1>1, <1>3, <2>1
<1> QED
  BY <1>0, <1>4, <1>5, <1>6, <1>7, <1>8, <1>9 DEF TurnInv

(***************************************************************************)
(* The inductive invariant of the drive: its types, and how old a mark may *)
(* be at each place of the loop.                                           *)
(***************************************************************************)
THEOREM TurnInvariant == CrossSpec => []TurnInv
<1>1. TurnInv /\ [CrossNext]_crossVars => TurnInv'
  <2> SUFFICES ASSUME TurnInv, [CrossNext]_crossVars PROVE TurnInv'
    OBVIOUS
  <2> USE CrossAssumption DEF CrossAssumption
  <2>0. /\ left \in 0..Timeout /\ idle \in 0..Slot /\ 0 \in 0..Slot
        /\ {total, total_before, total_after} \subseteq 0..Size
    BY DEF TurnInv, CrossTypeOK
  <2>1. CASE Begin
    BY <2>0, <2>1, TurnStays DEF Begin, clock, turn
  <2>2. CASE Pump
    BY <2>2, TurnPump
  <2>3. CASE Post
    BY <2>3, TurnPost
  <2>4. CASE Retry
    BY <2>0, <2>4, TurnStays DEF Retry, TakesSlot, turn, sizes
  <2>5. CASE PostEnds
    BY <2>5, TurnPostEnds
  <2>6. CASE PumpOver
    BY <2>0, <2>6, TurnStays DEF PumpOver, clock, turn, sizes
  <2>7. CASE Ask
    BY <2>0, <2>7, TurnStays DEF Ask, TakesSlot, turn, sizes
  <2>8. CASE ReadTotal
    BY <2>0, <2>8, TurnStays DEF ReadTotal, clock, turn
  <2>9. CASE GiveUp
    BY <2>0, <2>9, TurnStays DEF GiveUp, clock, turn, sizes
  <2>10. CASE ReadRaises
    BY <2>0, <2>10, TurnStays DEF ReadRaises, clock, turn, sizes
  <2>11. CASE Execute
    BY <2>11, TurnExecute
  <2>12. CASE Tick
    BY <2>12, TurnTick
  <2>13. CASE TakeOver
    BY <2>0, <2>13, TurnStays DEF TakeOver, clock, turn
  <2>14. CASE UNCHANGED crossVars
    BY <2>0, <2>14, TurnStays DEF crossVars, clock, turn, sizes
  <2> QED
    BY <2>1, <2>2, <2>3, <2>4, <2>5, <2>6, <2>7, <2>8, <2>9, <2>10, <2>11, <2>12, <2>13, <2>14
       DEF CrossNext, Drive
<1> QED
  BY <1>1, TurnInit, PTL DEF CrossSpec

(***************************************************************************)
(* MarkHolder's comment ("every 2s scanner window sees it") holds as long  *)
(* as a sleep and what two turns take besides stay under a mark's life and *)
(* a window together, in whatever order the posts go and whichever fail.   *)
(***************************************************************************)
THEOREM WindowsAreSeen ==
    ASSUME Poll + 2 * Late < Hold + Scan
    PROVE  CrossSpec => []WindowsSee
<1>1. TurnInv => WindowsSee
  <2> SUFFICES ASSUME TurnInv, Driving, NEW m \in accepted
               PROVE  age[m] < Hold + Scan
    BY DEF WindowsSee
  <2> USE CrossAssumption DEF CrossAssumption
  <2>1. since # Never /\ m \in Market /\ age[m] \in Nat /\ busy <= Late /\ slept <= Poll
    BY DEF TurnInv, CrossTypeOK, Stale
  <2>2. /\ since = busy + slept /\ (place = "post" => slept = 0)
        /\ age[m] <= since + IF Renewed(m) THEN 0 ELSE Poll + Late
    BY <2>1 DEF TurnInv
  <2>3. Renewed(m) \/ place = "post"
    BY DEF Renewed
  <2>4. busy \in Nat /\ slept \in Nat
    BY DEF TurnInv, CrossTypeOK
  <2> QED
    BY <2>1, <2>2, <2>3, <2>4
<1> QED
  BY <1>1, TurnInvariant, PTL

\* While the drive goes on, the size last read was not ~0, or nothing was open
\* from the beginning.
StillOpen == place = "loop" => total_after > 0 \/ (total_after = 0 /\ total = 0)

(***************************************************************************)
(* What FullLiquidationResult.triggered reports is what the exchange has:  *)
(* a drive that ends at ~0 leaves nothing open, and one that ends with a   *)
(* size left has used its time up.                                         *)
(***************************************************************************)
THEOREM OutcomeIsTrue == CrossSpec => []OutcomeTrue
<1>1. CrossInit => OutcomeTrue /\ StillOpen
  BY DEF CrossInit, OutcomeTrue, StillOpen
<1>2. TurnInv /\ OutcomeTrue /\ StillOpen /\ [CrossNext]_crossVars => (OutcomeTrue /\ StillOpen)'
  <2> SUFFICES ASSUME TurnInv, OutcomeTrue, StillOpen, [CrossNext]_crossVars
               PROVE  (OutcomeTrue /\ StillOpen)'
    OBVIOUS
  <2> USE CrossAssumption
      DEF CrossAssumption, TurnInv, CrossTypeOK, OutcomeTrue, StillOpen, clock, turn, sizes
  <2>1. CASE Begin BY <2>1 DEF Begin
  <2>2. CASE Pump BY <2>2 DEF Pump
  <2>3. CASE Post \/ Retry \/ PostEnds \/ PumpOver
    BY <2>3 DEF Post, Retry, PostEnds, PumpOver
  <2>4. CASE Ask BY <2>4 DEF Ask
  <2>5. CASE ReadTotal BY <2>5 DEF ReadTotal, Liquidated
  <2>6. CASE GiveUp BY <2>6 DEF GiveUp, TimeLeft
  <2>7. CASE ReadRaises BY <2>7 DEF ReadRaises
  <2>8. CASE Execute BY <2>8 DEF Execute
  <2>9. CASE Tick BY <2>9 DEF Tick
  <2>10. CASE TakeOver BY <2>10 DEF TakeOver
  <2>11. CASE UNCHANGED crossVars BY <2>11 DEF crossVars
  <2> QED
    BY <2>1, <2>2, <2>3, <2>4, <2>5, <2>6, <2>7, <2>8, <2>9, <2>10, <2>11 DEF CrossNext, Drive
<1> QED
  BY <1>1, <1>2, TurnInvariant, PTL DEF CrossSpec
=============================================================================
