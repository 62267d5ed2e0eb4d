--------------------------- MODULE RedGreenProofs ---------------------------
(***************************************************************************)
(* Proofs about RedGreen, for any number of runs of the tool, any test     *)
(* file and any number of edits.                                           *)
(***************************************************************************)
EXTENDS RedGreen, TLAPS

\* Contents of the file are versions, corrupted some times.
LEMMA CleanContent == ASSUME NEW v \in Nat PROVE Clean(v) \in Content
  BY DEF Content, Clean

LEMMA CorruptedContent ==
    ASSUME NEW c \in Content PROVE Corrupted(c) \in Content
  BY DEF Content, Corrupted

\* The parts of RestoreInv beside the typing.
Alone == ~overlap => \A t, u \in Tool : Busy(t) /\ Busy(u) => t = u
Following == Undisturbed => \A t \in Tool : Busy(t) => AtWork(t)

LEMMA Parts == RestoreInv <=> TypeOK /\ FileRestored /\ Alone /\ Following
  BY DEF RestoreInv, Alone, Following

LEMMA RestoreInit == Init => RestoreInv
<1> SUFFICES ASSUME Init PROVE RestoreInv
  OBVIOUS
<1>1. Clean(0) \in Content
  BY CleanContent
<1>2. TypeOK
  BY <1>1, RedGreenAssumption DEF RedGreenAssumption, Init, TypeOK, Verdict, Line
<1>3. \A t \in Tool : ~Busy(t)
  BY DEF Init, Busy
<1>4. ~empty /\ content = Clean(saved)
  BY DEF Init
<1>5. QED
  BY <1>2, <1>3, <1>4 DEF RestoreInv, FileRestored

\* A step of one tool that stays at work, or goes out of work, next to others that stay
\* as they are.
LEMMA OthersStay ==
    ASSUME TypeOK, NEW t \in Tool, NEW where,
           pc' = [pc EXCEPT ![t] = where]
    PROVE  /\ pc'[t] = where
           /\ \A u \in Tool : u # t => pc'[u] = pc[u] /\ (Busy(u)' <=> Busy(u))
  BY DEF TypeOK, Busy

-----------------------------------------------------------------------------
LEMMA RestoreType == ASSUME RestoreInv, [Next]_vars PROVE TypeOK'
<1> USE DEF RestoreInv
<1>1. CASE Edit
  <2>1. saved' \in Nat /\ content' \in Content
    BY <1>1, CleanContent DEF Edit, Write, TypeOK
  <2>2. QED
    BY <1>1, <2>1 DEF Edit, Write, TypeOK, file, tools
<1>2. ASSUME NEW t \in Tool, Start(t) PROVE TypeOK'
  BY <1>2 DEF Start, TypeOK, Ends, Goes, Verdict, file
<1>3. ASSUME NEW t \in Tool, Baseline(t) PROVE TypeOK'
  <2>1. flaky' \in [Tool -> BOOLEAN]
    BY <1>3 DEF Baseline, Passes, Fails, TypeOK, AllHold
  <2>2. QED
    BY <1>3, <2>1 DEF Baseline, Ends, Goes, TypeOK, Verdict, file
<1>4. ASSUME NEW t \in Tool, WriteMutated(t) PROVE TypeOK'
  <2>1. content' \in Content
    BY <1>4, CorruptedContent DEF WriteMutated, Write, TypeOK
  <2>2. QED
    BY <1>4, <2>1 DEF WriteMutated, Write, Goes, TypeOK, Verdict, file, history
<1>5. ASSUME NEW t \in Tool, RunMutated(t) PROVE TypeOK'
  <2>1. flaky' \in [Tool -> BOOLEAN]
    BY <1>5 DEF RunMutated, Passes, Fails, TypeOK, AllHold
  <2>2. QED
    BY <1>5, <2>1 DEF RunMutated, TypeOK, Verdict, file
<1>6. ASSUME NEW t \in Tool, Restore(t) PROVE TypeOK'
  BY <1>6 DEF Restore, Write, Goes, TypeOK, file, history
<1>7. ASSUME NEW t \in Tool, Interrupt(t) PROVE TypeOK'
  BY <1>7 DEF Interrupt, AfterInterrupt, TypeOK, Verdict, file, history
<1>8. ASSUME NEW t \in Tool, Kill(t) PROVE TypeOK'
  BY <1>8 DEF Kill, Ends, TypeOK, Verdict, file
<1>9. ASSUME NEW t \in Tool, OpenMutated(t) \/ OpenRestore(t) PROVE TypeOK'
  BY <1>9 DEF OpenMutated, OpenRestore, Truncate, Goes, TypeOK, file, history
<1>10. CASE UNCHANGED vars
  BY <1>10 DEF vars, file, tools, history, TypeOK
<1>11. QED
  BY <1>1, <1>2, <1>3, <1>4, <1>5, <1>6, <1>7, <1>8, <1>9, <1>10 DEF Next, Main

-----------------------------------------------------------------------------
\* Tools that do not overlap: only Start makes one busy, and it looks at the others.
LEMMA StaysAlone == ASSUME RestoreInv, [Next]_vars PROVE Alone'
<1> USE Parts
<1>1. CASE Edit
  BY <1>1 DEF Edit, tools, Alone, Busy
<1>2. ASSUME NEW t \in Tool, Start(t) PROVE Alone'
  <2>1. PICK where : pc' = [pc EXCEPT ![t] = where]
    BY <1>2 DEF Start, Ends, Goes
  <2>2. overlap' = (overlap \/ \E u \in Tool : Busy(u))
    BY <1>2 DEF Start
  <2>3. QED
    BY <2>1, <2>2, OthersStay DEF Alone
<1>3. ASSUME NEW t \in Tool, Busy(t), UNCHANGED overlap,
             \E where : pc' = [pc EXCEPT ![t] = where]
      PROVE  Alone'
  BY <1>3, OthersStay DEF Alone
<1>4. ASSUME NEW t \in Tool,
             \/ Baseline(t) \/ OpenMutated(t) \/ WriteMutated(t) \/ RunMutated(t)
             \/ OpenRestore(t) \/ Restore(t) \/ Interrupt(t) \/ Kill(t)
      PROVE  Alone'
  <2>1. Busy(t) /\ UNCHANGED overlap
    BY <1>4 DEF Baseline, OpenMutated, WriteMutated, RunMutated, OpenRestore, Truncate,
                Restore, Interrupt, Kill, Busy, history
  <2>2. \E where : pc' = [pc EXCEPT ![t] = where]
    BY <1>4 DEF Baseline, OpenMutated, WriteMutated, RunMutated, OpenRestore, Truncate,
                Restore, Interrupt, Kill, Ends, Goes
  <2>3. QED
    BY <1>3, <2>1, <2>2
<1>5. CASE UNCHANGED vars
  BY <1>5 DEF vars, tools, history, Alone, Busy
<1>6. QED
  BY <1>1, <1>2, <1>4, <1>5 DEF Next, Main

-----------------------------------------------------------------------------
\* What the tool at work holds, and the file when the tool is done.  An edit under a
\* tool, a second tool, a kill and an interrupted restore end what is promised.
LEMMA StaysFollowing ==
    ASSUME RestoreInv, [Next]_vars PROVE FileRestored' /\ Following'
<1> USE Parts
<1>1. CASE Edit
  <2>1. CASE \E t \in Tool : Busy(t)
    BY <1>1, <2>1 DEF Edit, FileRestored, Following, Undisturbed
  <2>2. CASE \A t \in Tool : ~Busy(t)
    <3>1. ~empty' /\ content' = Clean(saved') /\ \A t \in Tool : ~Busy(t)'
      BY <1>1, <2>2 DEF Edit, Write, tools, Busy, Clean
    <3>2. QED
      BY <3>1 DEF FileRestored, Following
  <2>3. QED
    BY <2>1, <2>2
<1>2. ASSUME NEW t \in Tool, Start(t) PROVE FileRestored' /\ Following'
  <2>1. /\ overlap' = (overlap \/ \E u \in Tool : Busy(u))
        /\ UNCHANGED <<content, empty, saved, edited, cut, killed>>
    BY <1>2 DEF Start
  <2>2. SUFFICES ASSUME Undisturbed'
                 PROVE  FileRestored' /\ Following'
    BY DEF FileRestored, Following
  <2>3. (\A u \in Tool : ~Busy(u)) /\ Undisturbed
    BY <2>1, <2>2 DEF Undisturbed
  <2>4. ~empty /\ content = Clean(saved)
    BY <2>3 DEF FileRestored
  <2>5. src'[t] = content /\ (pc'[t] = "over" \/ pc'[t] = "baseline")
    BY <1>2, <2>4 DEF Start, Ends, Goes, TypeOK
  <2>6. \A u \in Tool : u # t => ~Busy(u)'
    <3>1. PICK where : pc' = [pc EXCEPT ![t] = where]
      BY <1>2 DEF Start, Ends, Goes
    <3>2. QED
      BY <3>1, <2>3, OthersStay
  <2>7. FileRestored'
    BY <2>1, <2>4 DEF FileRestored, Clean
  <2>8. AtWork(t)'
    BY <2>1, <2>4, <2>5 DEF AtWork, Clean
  <2>9. QED
    BY <2>6, <2>7, <2>8 DEF Following
\* A step of the one tool at work that leaves it at work, or after which the file is
\* what was saved.
<1>3. ASSUME NEW t \in Tool, Busy(t), UNCHANGED <<saved, overlap, edited>>,
             cut => cut', killed => killed', \E where : pc' = [pc EXCEPT ![t] = where],
             Undisturbed' /\ AtWork(t) =>
               IF pc'[t] = "over" THEN ~empty' /\ content' = Clean(saved) ELSE AtWork(t)',
             pc'[t] # "idle"
      PROVE  FileRestored' /\ Following'
  <2>1. SUFFICES ASSUME Undisturbed' PROVE FileRestored' /\ Following'
    BY DEF FileRestored, Following
  <2>2. Undisturbed
    BY <1>3, <2>1 DEF Undisturbed, TypeOK
  <2>3. AtWork(t)
    BY <1>3, <2>2 DEF Following
  <2>4. \A u \in Tool : u # t => ~Busy(u)'
    <3>1. \A u \in Tool : u # t => ~Busy(u)
      BY <1>3, <2>2 DEF Alone, Undisturbed
    <3>2. QED
      BY <1>3, <3>1, OthersStay
  <2>5. CASE pc'[t] = "over"
    <3>1. ~empty' /\ content' = Clean(saved)' /\ ~Busy(t)'
      BY <1>3, <2>1, <2>3, <2>5 DEF Busy, Clean
    <3>2. QED
      BY <3>1, <2>4 DEF FileRestored, Following
  <2>6. CASE pc'[t] # "over"
    <3>1. AtWork(t)' /\ Busy(t)'
      BY <1>3, <2>1, <2>3, <2>6 DEF Busy
    <3>2. QED
      BY <3>1, <2>4 DEF FileRestored, Following
  <2>7. QED
    BY <2>5, <2>6
<1>4. ASSUME NEW t \in Tool, Baseline(t) PROVE FileRestored' /\ Following'
  <2>1. Busy(t) /\ UNCHANGED <<content, empty, saved, src, overlap, edited, cut, killed>>
    BY <1>4 DEF Baseline, Busy
  <2>2. pc' = [pc EXCEPT ![t] = "write"] \/ pc' = [pc EXCEPT ![t] = "over"]
    BY <1>4 DEF Baseline, Ends, Goes
  <2>3. pc'[t] = "write" \/ pc'[t] = "over"
    BY <2>2, OthersStay
  <2>4. AtWork(t) => ~empty /\ content = Clean(saved) /\ src[t] = Clean(saved)
    BY <1>4 DEF Baseline, AtWork
  <2>5. AtWork(t) => IF pc'[t] = "over" THEN ~empty' /\ content' = Clean(saved)
                                        ELSE AtWork(t)'
    BY <2>1, <2>3, <2>4 DEF AtWork, Clean
  <2>6. QED
    BY <1>3, <2>1, <2>2, <2>3, <2>5
\* From its first write to its last the tool only holds what it read.
<1>5. ASSUME NEW t \in Tool, Busy(t), UNCHANGED <<saved, src, overlap, edited, cut, killed>>,
             NEW where \in {"writing", "mutated", "restore", "restoring"},
             pc' = [pc EXCEPT ![t] = where]
      PROVE  FileRestored' /\ Following'
  <2>1. pc'[t] = where
    BY <1>5, OthersStay
  <2>2. AtWork(t) => AtWork(t)'
    BY <1>5, <2>1 DEF AtWork, Clean
  <2>3. QED
    BY <1>3, <1>5, <2>1, <2>2
<1>6. ASSUME NEW t \in Tool,
             OpenMutated(t) \/ WriteMutated(t) \/ RunMutated(t) \/ OpenRestore(t)
      PROVE  FileRestored' /\ Following'
  <2>1. Busy(t) /\ UNCHANGED <<saved, src, overlap, edited, cut, killed>>
    BY <1>6 DEF OpenMutated, OpenRestore, Truncate, WriteMutated, RunMutated, Busy, history
  <2>2. \E where \in {"writing", "mutated", "restore", "restoring"} :
            pc' = [pc EXCEPT ![t] = where]
    BY <1>6 DEF OpenMutated, OpenRestore, Truncate, WriteMutated, RunMutated, Goes
  <2>3. QED
    BY <1>5, <2>1, <2>2
<1>7. ASSUME NEW t \in Tool, Restore(t) PROVE FileRestored' /\ Following'
  <2>1. /\ Busy(t) /\ UNCHANGED <<saved, src, overlap, edited, cut, killed>>
        /\ pc' = [pc EXCEPT ![t] = "over"] /\ content' = src[t] /\ ~empty'
    BY <1>7 DEF Restore, Write, Goes, Busy, history
  <2>2. pc'[t] = "over"
    BY <2>1, OthersStay
  <2>3. AtWork(t) => content' = Clean(saved)
    BY <2>1 DEF AtWork
  <2>4. QED
    BY <1>3, <2>1, <2>2, <2>3
<1>8. ASSUME NEW t \in Tool, Interrupt(t) PROVE FileRestored' /\ Following'
  <2>1. Busy(t) /\ UNCHANGED <<content, empty, saved, src, overlap, edited, killed>>
    BY <1>8 DEF Interrupt, Busy
  <2>2. CASE pc[t] \in {"writing", "mutated"} /\ pc' = [pc EXCEPT ![t] = "restore"] /\ UNCHANGED cut
    BY <1>5, <2>1, <2>2
  <2>3. CASE /\ pc[t] \in {"baseline", "write"} /\ UNCHANGED cut
             /\ pc' = [pc EXCEPT ![t] = "over"]
    <3>1. pc'[t] = "over"
      BY <2>3, OthersStay
    <3>2. AtWork(t) => ~empty' /\ content' = Clean(saved)
      BY <2>1, <2>3 DEF AtWork
    <3>3. QED
      BY <1>3, <2>1, <2>3, <3>1, <3>2
  <2>4. CASE cut' = TRUE /\ pc' = [pc EXCEPT ![t] = "over"]
    <3>1. ~Undisturbed'
      BY <2>4 DEF Undisturbed
    <3>2. QED
      BY <3>1 DEF FileRestored, Following
  <2>5. QED
    BY <1>8, <2>2, <2>3, <2>4 DEF Interrupt, AfterInterrupt
<1>9. ASSUME NEW t \in Tool, Kill(t) PROVE FileRestored' /\ Following'
  <2>1. /\ Busy(t) /\ UNCHANGED <<content, empty, saved, src, overlap, edited, cut>>
        /\ pc' = [pc EXCEPT ![t] = "over"]
        /\ killed' = (killed \/ pc[t] \in {"writing", "mutated", "restore", "restoring"})
    BY <1>9 DEF Kill, Ends
  <2>2. pc'[t] = "over"
    BY <2>1, OthersStay
  <2>3. Undisturbed' => pc[t] \in {"baseline", "write"}
    BY <2>1 DEF Undisturbed, TypeOK, Busy
  <2>4. Undisturbed' /\ AtWork(t) => ~empty' /\ content' = Clean(saved)
    BY <2>1, <2>3 DEF AtWork
  <2>5. QED
    BY <1>3, <2>1, <2>2, <2>4
<1>10. CASE UNCHANGED vars
  <2>1. UNCHANGED <<content, empty, saved, pc, src, overlap, edited, cut, killed>>
    BY <1>10 DEF vars, tools, history
  <2>2. QED
    BY <2>1 DEF FileRestored, Following, Undisturbed, Busy, AtWork, Clean
<1>11. QED
  BY <1>1, <1>2, <1>4, <1>6, <1>7, <1>8, <1>9, <1>10 DEF Next, Main

(***************************************************************************)
(* "file restored always" (tools/red_green.py:7), for every number of runs *)
(* of the tool: once none is at work the file is what the developer saved  *)
(* last, if none overlapped another, none was killed after its first write *)
(* or interrupted in its last, and nothing was saved under one.            *)
(***************************************************************************)
THEOREM Restored == Spec => []RestoreInv
<1>1. Init => RestoreInv
  BY RestoreInit
<1>2. RestoreInv /\ [Next]_vars => RestoreInv'
  <2>1. SUFFICES ASSUME RestoreInv, [Next]_vars PROVE RestoreInv'
    OBVIOUS
  <2>2. TypeOK' /\ FileRestored' /\ Alone' /\ Following'
    BY <2>1, RestoreType, StaysAlone, StaysFollowing
  <2>3. QED
    BY <2>2 DEF RestoreInv, Alone, Following
<1>3. QED
  BY <1>1, <1>2, PTL DEF Spec

-----------------------------------------------------------------------------
(* What the verdicts are worth.  As long as no tools overlap and no edit   *)
(* is saved under one, a tool that got past its baseline on a file whose   *)
(* asserts decide had read it uncorrupted - even after a kill or an        *)
(* interrupted restore.                                                    *)

Calm == ~overlap /\ ~edited
Decided == \E l \in lines : Decides(l)
AllHoldAt(m) == \A l \in lines : l.reached => Holds(l, m)

Tracked(t) ==
    /\ pc[t] \in {"baseline", "write"} => ~empty /\ content = src[t]
    /\ pc[t] = "mutated" => ~empty /\ content = Corrupted(src[t])

Judging(t) ==
    \/ pc[t] \in {"write", "writing", "mutated", "restore", "restoring"}
    \/ verdict[t] \in {"good", "vacuous"}

JudgeInv ==
    /\ Calm /\ Decided => content.m <= 1
    /\ Calm => \A t \in Tool : Tracked(t)
    /\ Calm /\ Decided => \A t \in Tool : Judging(t) => src[t].m = 0
    /\ \A t \in Tool : pc[t] = "idle" => verdict[t] = "none"
    /\ VerdictsAreTrue

\* A line that decides breaks when the file is corrupted once, and no other line does.
LEMMA PassingDecides ==
    ASSUME TypeOK, Decided, NEW m \in Nat, m <= 1, AllHoldAt(m) PROVE m = 0
<1>1. PICK l \in lines : Decides(l)
  BY DEF Decided
<1>2. Holds(l, m) /\ Touched(l) /\ l.kind \in {"value", "flag"}
  BY <1>1 DEF AllHoldAt, Decides, Touched
<1>3. m = 0 \/ m = 1
  OBVIOUS
<1>4. 1 % 2 # 0
  OBVIOUS
<1>5. QED
  BY <1>2, <1>3, <1>4 DEF Holds

LEMMA FailingDecides == ASSUME TypeOK, NEW m \in Nat, ~AllHoldAt(m) PROVE Decided
<1>1. PICK l \in lines : l.reached /\ ~Holds(l, m)
  BY DEF AllHoldAt
<1>2. l \in Line
  BY DEF TypeOK
<1>3. l.asserts /\ l.kind \in {"value", "flag"}
  BY <1>1, <1>2 DEF Holds, Touched, Line, Kind
<1>4. QED
  BY <1>1, <1>3 DEF Decided, Decides

LEMMA JudgeInit == Init => JudgeInv
  BY DEF Init, JudgeInv, Calm, Clean, Tracked, Judging, VerdictsAreTrue, GoodIsEarned,
         VacuousIsTrue

\* A step of the tool at work: what it has to show for itself.
LEMMA JudgeStep ==
    ASSUME RestoreInv, JudgeInv, NEW t \in Tool, Busy(t), NEW where, NEW how,
           pc' = [pc EXCEPT ![t] = where], where # "idle",
           verdict' = [verdict EXCEPT ![t] = how],
           UNCHANGED <<lines, src, overlap, edited>>,
           \A u \in Tool : u # t => flaky'[u] = flaky[u],
           Calm =>
             /\ Tracked(t)'
             /\ Decided => content'.m <= 1
             /\ Decided /\ Judging(t)' => src[t].m = 0
             /\ how = "good" /\ ~flaky'[t] => Decided
             /\ how = "vacuous" => ~Decided
    PROVE  JudgeInv'
<1> USE Parts
<1>1. (Calm' <=> Calm) /\ (Decided' <=> Decided)
  BY DEF Calm, Decided
<1>2. pc'[t] = where /\ \A u \in Tool : u # t => pc'[u] = pc[u]
  BY OthersStay
<1>3. verdict'[t] = how /\ \A u \in Tool : u # t => verdict'[u] = verdict[u]
  BY DEF TypeOK
<1>4. Calm => \A u \in Tool : u # t => ~Busy(u) /\ ~Busy(u)'
  BY <1>2 DEF Alone, Calm, Busy
<1>5. Calm /\ Decided => content'.m <= 1
  OBVIOUS
<1>6. Calm => \A u \in Tool : Tracked(u)'
  BY <1>4 DEF Tracked, Busy
<1>7. Calm /\ Decided => \A u \in Tool : Judging(u)' => src[u].m = 0
  BY <1>2, <1>3 DEF Judging, JudgeInv
<1>8. \A u \in Tool : pc'[u] = "idle" => verdict'[u] = "none"
  BY <1>2, <1>3 DEF JudgeInv
<1>9. ASSUME NEW u \in Tool, Calm
      PROVE  /\ verdict'[u] = "good" /\ ~flaky'[u] => Decided /\ src[u].m = 0
             /\ verdict'[u] = "vacuous" => ~Decided
  <2>1. CASE u = t
    BY <1>3, <1>7, <1>9, <2>1 DEF Judging
  <2>2. CASE u # t
    BY <1>3, <1>9, <2>2 DEF JudgeInv, VerdictsAreTrue, GoodIsEarned, VacuousIsTrue, Calm, Decided
  <2>3. QED
    BY <2>1, <2>2
<1>10. VerdictsAreTrue'
  <2>1. GoodIsEarned'
    BY <1>9 DEF GoodIsEarned, Calm, Decided
  <2>2. VacuousIsTrue'
    BY <1>9 DEF VacuousIsTrue, Calm, Decided
  <2>3. QED
    BY <2>1, <2>2 DEF VerdictsAreTrue
<1>11. QED
  BY <1>1, <1>5, <1>6, <1>7, <1>8, <1>10 DEF JudgeInv

LEMMA JudgeNext == ASSUME RestoreInv, JudgeInv, [Next]_vars PROVE JudgeInv'
<1> USE Parts
\* What holds of a tool at work before its step.
<1>0. ASSUME NEW t \in Tool, Calm
      PROVE  /\ Tracked(t)
             /\ Decided => content.m <= 1 /\ (Judging(t) => src[t].m = 0)
             /\ verdict[t] = "good" /\ ~flaky[t] => Decided
             /\ verdict[t] = "vacuous" => ~Decided
             /\ src[t] \in Content /\ content \in Content
             /\ src[t].m \in Nat /\ content.m \in Nat
             /\ Corrupted(src[t]).m = src[t].m + 1
             /\ verdict = [verdict EXCEPT ![t] = verdict[t]]
             /\ AllHold <=> ~empty /\ AllHoldAt(content.m)
  <2>1. Tracked(t) /\ (Decided => content.m <= 1 /\ (Judging(t) => src[t].m = 0))
    BY <1>0 DEF JudgeInv
  <2>2. /\ verdict[t] = "good" /\ ~flaky[t] => Decided
        /\ verdict[t] = "vacuous" => ~Decided
    BY <1>0 DEF JudgeInv, VerdictsAreTrue, GoodIsEarned, VacuousIsTrue, Calm, Decided
  <2>3. src[t] \in Content /\ content \in Content
    BY DEF TypeOK
  <2>4. /\ src[t].m \in Nat /\ content.m \in Nat
        /\ Corrupted(src[t]).m = src[t].m + 1
    BY <2>3 DEF Content, Corrupted
  <2>5. verdict = [verdict EXCEPT ![t] = verdict[t]]
    BY DEF TypeOK
  <2>6. AllHold <=> ~empty /\ AllHoldAt(content.m)
    BY DEF AllHold, AllHoldAt
  <2>7. QED
    BY <2>1, <2>2, <2>3, <2>4, <2>5, <2>6
<1>1. CASE Edit
  <2>1. UNCHANGED <<lines, pc, src, verdict, flaky, overlap>>
    BY <1>1 DEF Edit, file, tools
  <2>2. Calm' => Calm /\ \A t \in Tool : ~Busy(t)
    BY <1>1 DEF Edit, Calm
  <2>3. content'.m = 0
    BY <1>1 DEF Edit, Write, Clean
  <2>4. QED
    BY <2>1, <2>2, <2>3
       DEF JudgeInv, Decided, Tracked, Judging, Busy, VerdictsAreTrue, GoodIsEarned,
           VacuousIsTrue, Calm
<1>2. ASSUME NEW t \in Tool, Start(t) PROVE JudgeInv'
  <2>1. /\ pc[t] = "idle" /\ UNCHANGED <<lines, content, empty, flaky, edited>>
        /\ src' = [src EXCEPT ![t] = content] \/ (UNCHANGED src /\ pc' = [pc EXCEPT ![t] = "over"])
        /\ overlap' = (overlap \/ \E u \in Tool : Busy(u))
    BY <1>2 DEF Start, Ends, file
  <2>2. verdict[t] = "none"
    BY <2>1 DEF JudgeInv
  <2>3. /\ pc'[t] \in {"baseline", "over"}
        /\ pc'[t] = "baseline" => src'[t] = content /\ ~empty
        /\ verdict'[t] \in {"none", "refused", "nothing to mutate"}
        /\ \A u \in Tool : u # t =>
              pc'[u] = pc[u] /\ verdict'[u] = verdict[u] /\ src'[u] = src[u]
    BY <1>2, <2>1, <2>2 DEF Start, Ends, Goes, TypeOK
  <2>4. /\ Calm' => Calm /\ \A u \in Tool : ~Busy(u)
        /\ Decided' <=> Decided
    BY <2>1 DEF Calm, Decided
  <2>5. Calm' => \A u \in Tool : Tracked(u)'
    BY <2>1, <2>2, <2>3, <2>4 DEF Tracked, Busy
  <2>6. Calm' /\ Decided' => content'.m <= 1 /\ \A u \in Tool : Judging(u)' => src'[u].m = 0
    BY <2>1, <2>2, <2>3, <2>4 DEF JudgeInv, Judging
  <2>7. \A u \in Tool : pc'[u] = "idle" => verdict'[u] = "none"
    BY <2>2, <2>3 DEF JudgeInv
  <2>8. GoodIsEarned'
    BY <2>1, <2>2, <2>3, <2>4 DEF JudgeInv, VerdictsAreTrue, GoodIsEarned, Calm
  <2>9. VacuousIsTrue'
    BY <2>1, <2>2, <2>3, <2>4 DEF JudgeInv, VerdictsAreTrue, VacuousIsTrue, Calm
  <2>10. QED
    BY <2>5, <2>6, <2>7, <2>8, <2>9 DEF JudgeInv, VerdictsAreTrue
<1>3. ASSUME NEW t \in Tool, Baseline(t) PROVE JudgeInv'
  <2>1. /\ pc[t] = "baseline" /\ UNCHANGED <<lines, content, empty, src, overlap, edited>>
        /\ Busy(t) /\ \A u \in Tool : u # t => flaky'[u] = flaky[u]
    BY <1>3 DEF Baseline, file, Busy, Passes, Fails, TypeOK
  <2>2. CASE Passes(t) /\ Goes(t, "write")
    <3>1. Calm /\ Decided => src[t].m = 0
      BY <1>0, <2>1, <2>2, PassingDecides DEF Passes, Tracked
    <3>2. /\ pc' = [pc EXCEPT ![t] = "write"] /\ UNCHANGED <<verdict, flaky>>
          /\ pc'[t] = "write"
      BY <2>2, OthersStay DEF Goes, Passes
    <3>3. Calm => Tracked(t)'
      BY <1>0, <2>1, <3>2 DEF Tracked
    <3>4. verdict' = [verdict EXCEPT ![t] = verdict[t]]
      BY <3>2 DEF TypeOK
    <3>5. QED
      BY <1>0, <2>1, <3>1, <3>2, <3>3, <3>4, JudgeStep
  <2>3. CASE Fails(t) /\ Ends(t, "baseline failed")
    <3>1. /\ pc' = [pc EXCEPT ![t] = "over"]
          /\ verdict' = [verdict EXCEPT ![t] = "baseline failed"]
          /\ pc'[t] = "over" /\ verdict'[t] = "baseline failed"
      BY <2>3, OthersStay DEF Ends, TypeOK
    <3>2. Tracked(t)' /\ ~Judging(t)'
      BY <3>1 DEF Tracked, Judging
    <3>3. QED
      BY <1>0, <2>1, <3>1, <3>2, JudgeStep
  <2>4. QED
    BY <1>3, <2>2, <2>3 DEF Baseline
<1>4. ASSUME NEW t \in Tool, WriteMutated(t) PROVE JudgeInv'
  <2>1. /\ pc[t] = "writing" /\ UNCHANGED <<lines, src, verdict, flaky, overlap, edited>>
        /\ content' = Corrupted(src[t]) /\ ~empty' /\ pc' = [pc EXCEPT ![t] = "mutated"]
    BY <1>4 DEF WriteMutated, Write, Goes, file, history
  <2>2. Busy(t) /\ Judging(t) /\ pc'[t] = "mutated"
    BY <2>1, OthersStay DEF Busy, Judging
  <2>3. verdict' = [verdict EXCEPT ![t] = verdict[t]]
    BY <2>1 DEF TypeOK
  <2>4. Calm => /\ Tracked(t)' /\ (Decided => content'.m <= 1)
                /\ Decided => src[t].m = 0
    BY <1>0, <2>1, <2>2 DEF Tracked, Corrupted
  <2>5. QED
    BY <1>0, <2>1, <2>2, <2>3, <2>4, JudgeStep
<1>5. ASSUME NEW t \in Tool, RunMutated(t) PROVE JudgeInv'
  <2>1. /\ pc[t] = "mutated" /\ pc' = [pc EXCEPT ![t] = "restore"]
        /\ UNCHANGED <<lines, content, empty, src, overlap, edited>>
    BY <1>5 DEF RunMutated, file
  <2>2. Busy(t) /\ Judging(t) /\ pc'[t] = "restore"
    BY <2>1, OthersStay DEF Busy, Judging
  <2>3. Calm => Tracked(t)' /\ content.m = src[t].m + 1 /\ ~empty
    BY <1>0, <2>1, <2>2 DEF Tracked, Corrupted
  <2>4. CASE Passes(t) /\ verdict' = [verdict EXCEPT ![t] = "vacuous"]
    <3>1. Calm => ~Decided
      BY <1>0, <2>2, <2>3, <2>4, PassingDecides DEF Passes
    <3>2. UNCHANGED flaky
      BY <2>4 DEF Passes
    <3>3. QED
      BY <1>0, <2>1, <2>2, <2>3, <2>4, <3>1, <3>2, JudgeStep
  <2>5. CASE Fails(t) /\ verdict' = [verdict EXCEPT ![t] = "good"]
    <3>1. \A u \in Tool : u # t => flaky'[u] = flaky[u]
      BY <2>5 DEF Fails, TypeOK
    <3>2. ~flaky'[t] => ~AllHold
      <4>1. flaky'[t] = (flaky[t] \/ AllHold)
        BY <2>5 DEF Fails, TypeOK
      <4>2. QED
        BY <4>1
    <3>3. Calm /\ ~flaky'[t] => Decided
      BY <1>0, <2>3, <3>2, FailingDecides
    <3>4. QED
      BY <1>0, <2>1, <2>2, <2>3, <2>5, <3>1, <3>3, JudgeStep
  <2>6. QED
    BY <1>5, <2>4, <2>5 DEF RunMutated
<1>6. ASSUME NEW t \in Tool, Restore(t) PROVE JudgeInv'
  <2>1. /\ pc[t] = "restoring" /\ pc' = [pc EXCEPT ![t] = "over"] /\ content' = src[t]
        /\ UNCHANGED <<lines, src, verdict, flaky, overlap, edited>>
    BY <1>6 DEF Restore, Write, Goes, file, history
  <2>2. Busy(t) /\ Judging(t) /\ pc'[t] = "over"
    BY <2>1, OthersStay DEF Busy, Judging
  <2>3. verdict' = [verdict EXCEPT ![t] = verdict[t]]
    BY <2>1 DEF TypeOK
  <2>4. Tracked(t)'
    BY <2>2 DEF Tracked
  <2>5. Calm =>
          /\ Decided => src[t].m = 0 /\ content'.m <= 1
          /\ verdict[t] = "good" /\ ~flaky'[t] => Decided
          /\ verdict[t] = "vacuous" => ~Decided
    BY <1>0, <2>1, <2>2
  <2>6. \A u \in Tool : u # t => flaky'[u] = flaky[u]
    BY <2>1
  <2>7. UNCHANGED <<lines, src, overlap, edited>>
    BY <2>1
  <2>8. QED
    BY <2>1, <2>2, <2>3, <2>4, <2>5, <2>6, <2>7, JudgeStep
<1>7. ASSUME NEW t \in Tool, Interrupt(t) \/ Kill(t) PROVE JudgeInv'
  <2>1. PICK where, how :
          /\ where = "over" \/ (where = "restore" /\ pc[t] \in {"writing", "mutated"})
          /\ how \in {"interrupted", "killed"}
          /\ pc' = [pc EXCEPT ![t] = where] /\ verdict' = [verdict EXCEPT ![t] = how]
    BY <1>7 DEF Interrupt, AfterInterrupt, Kill, Ends
  <2>2. Busy(t) /\ UNCHANGED <<lines, content, src, flaky, overlap, edited>>
    BY <1>7 DEF Interrupt, Kill, Busy, file
  <2>3. pc'[t] = where /\ verdict'[t] = how
    BY <2>1, OthersStay DEF TypeOK
  <2>4. Judging(t)' => Judging(t)
    BY <2>1, <2>3 DEF Judging
  <2>5. Tracked(t)'
    BY <2>1, <2>3 DEF Tracked
  <2>6. QED
    BY <1>0, <2>1, <2>2, <2>4, <2>5, JudgeStep
\* The file is opened to be written, with what it held.
<1>8. ASSUME NEW t \in Tool, OpenMutated(t) \/ OpenRestore(t) PROVE JudgeInv'
  <2>1. PICK where :
          /\ where \in {"writing", "restoring"} /\ pc' = [pc EXCEPT ![t] = where]
          /\ pc[t] \in {"write", "restore"}
    BY <1>8 DEF OpenMutated, OpenRestore, Truncate, Goes
  <2>2. UNCHANGED <<lines, content, src, verdict, flaky, overlap, edited>>
    BY <1>8 DEF OpenMutated, OpenRestore, Truncate, Goes, file, history
  <2>3. Busy(t) /\ Judging(t) /\ pc'[t] = where
    BY <2>1, OthersStay DEF Busy, Judging
  <2>4. Tracked(t)'
    BY <2>1, <2>3 DEF Tracked
  <2>5. verdict' = [verdict EXCEPT ![t] = verdict[t]]
    BY <2>2 DEF TypeOK
  <2>6. QED
    BY <1>0, <2>1, <2>2, <2>3, <2>4, <2>5, JudgeStep
<1>9. CASE UNCHANGED vars
  BY <1>9 DEF vars, file, tools, history, JudgeInv, Calm, Decided, Tracked, Judging, Corrupted,
              VerdictsAreTrue, GoodIsEarned, VacuousIsTrue
<1>10. QED
  BY <1>1, <1>2, <1>3, <1>4, <1>5, <1>6, <1>7, <1>8, <1>9 DEF Next, Main

(***************************************************************************)
(* "it genuinely asserts" and "VACUOUS" (tools/red_green.py:103-107) are   *)
(* true of the file as its developer wrote it, also when an earlier run    *)
(* was killed or interrupted in its restore and left it corrupted or       *)
(* empty, unless tools overlap, an edit is saved under one, or the         *)
(* platform fails a run.                                                   *)
(***************************************************************************)
THEOREM VerdictsTrue == Spec => []VerdictsAreTrue
<1>1. Init => JudgeInv
  BY JudgeInit
<1>2. RestoreInv /\ JudgeInv /\ [Next]_vars => JudgeInv'
  BY JudgeNext
<1>3. JudgeInv => VerdictsAreTrue
  BY DEF JudgeInv
<1>4. QED
  BY <1>1, <1>2, <1>3, Restored, PTL DEF Spec
=============================================================================
