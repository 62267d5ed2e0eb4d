------------------------------ MODULE RedGreen ------------------------------
(***************************************************************************)
(* tools/red_green.py: runs a test file, corrupts the expected values in   *)
(* its assert lines, runs it again and puts the file back.  The file       *)
(* belongs to a developer who may save an edit at any time, interrupt the  *)
(* tool or kill it, or use it in two terminals.                            *)
(*                                                                         *)
(* The content of the file is the version that was saved last and how many *)
(* times it is corrupted: a tool that reads a corrupted file corrupts it   *)
(* once more (numbers move by 777 again, flags flip back).  A test file is *)
(* a set of lines; edits do not change what they are.                      *)
(*                                                                         *)
(* write_text empties the file and then writes it: a tool that is          *)
(* interrupted or killed in between leaves it empty, and another one finds *)
(* nothing in it.  What is left of a tool that has put the file back is    *)
(* one print.                                                              *)
(***************************************************************************)
EXTENDS Integers

CONSTANTS Tool,      \* runs of the tool
          Files,     \* test files: sets of lines
          MaxEdits   \* bound: edits that the developer saves

\* What a line compares with: a literal that 777 more or another string breaks, True
\* or False, a bound that 777 more does not break, or an expression.
Kind == {"value", "flag", "slack", "dynamic"}
Line == [asserts : BOOLEAN, kind : Kind, reached : BOOLEAN]

ASSUME RedGreenAssumption == Files \subseteq SUBSET Line /\ MaxEdits \in Nat

VARIABLES lines,     \* the file's lines
          live,      \* it is marked trades or serial
          force,     \* --force was given
          content,   \* of the file when it was last whole:
                     \*   [v |-> version, m |-> times corrupted]
          empty,     \* a write has emptied it and not (yet) written it
          saved,     \* the version that the developer saved last
          pc,        \* pc[t]: "idle", "baseline", "write", "writing", "mutated",
                     \*   "restore", "restoring" or "over"
          src,       \* src[t]: the content read
          verdict,   \* verdict[t]: "none", or how the run of the tool ended
          flaky,     \* history: a run failed although its asserts hold
          overlap,   \* history: a tool started while another was at work
          edited,    \* history: an edit was saved while a tool was at work
          cut,       \* history: a restore was interrupted before it was done
          killed     \* history: a tool was killed between its first write and its last

file == <<lines, live, force>>
tools == <<pc, src, verdict>>
history == <<flaky, overlap, edited, cut, killed>>
vars == <<file, content, empty, saved, tools, history>>

Clean(v) == [v |-> v, m |-> 0]
Busy(t) == pc[t] \notin {"idle", "over"}

Init ==
    /\ lines \in Files /\ live \in BOOLEAN /\ force \in BOOLEAN
    /\ content = Clean(0) /\ empty = FALSE /\ saved = 0
    /\ pc = [t \in Tool |-> "idle"] /\ src = [t \in Tool |-> Clean(0)]
    /\ verdict = [t \in Tool |-> "none"]
    /\ flaky = [t \in Tool |-> FALSE] /\ overlap = FALSE /\ edited = FALSE
    /\ cut = FALSE /\ killed = FALSE

-----------------------------------------------------------------------------
\* Mutants: lines that arrange are corrupted too; the file is put back only when the
\* run came to its end.
TouchedAnywhere(l) == l.kind # "dynamic"
OverAtOnce == "over"

\* mutate_expected: literals right of a comparison, in assert lines only.
Touched(l) == l.asserts /\ l.kind # "dynamic"

Corrupted(c) == [c EXCEPT !.m = @ + 1]

\* A line when the file is corrupted m times, and a run of the file; with nothing in it
\* pytest collects no test and does not return 0.
Holds(l, m) == Touched(l) => m = 0 \/ l.kind = "slack" \/ (l.kind = "flag" /\ m % 2 = 0)
AllHold == ~empty /\ \A l \in lines : l.reached => Holds(l, content.m)

Passes(t) == AllHold /\ UNCHANGED flaky
Fails(t) == flaky' = [flaky EXCEPT ![t] = @ \/ AllHold]

Ends(t, how) ==
    /\ pc' = [pc EXCEPT ![t] = "over"]
    /\ verdict' = [verdict EXCEPT ![t] = how]
Goes(t, where) == pc' = [pc EXCEPT ![t] = where] /\ UNCHANGED verdict

-----------------------------------------------------------------------------
\* main: the file is read, refused, or found to have nothing to corrupt.
Start(t) ==
    /\ pc[t] = "idle"
    /\ overlap' = (overlap \/ \E u \in Tool : Busy(u))
    /\ \/ empty /\ Ends(t, "nothing to mutate") /\ UNCHANGED src
       \/ /\ ~empty
          /\ src' = [src EXCEPT ![t] = content]
          /\ \/ live /\ ~force /\ Ends(t, "refused")
             \/ (live => force) /\ (\A l \in lines : ~Touched(l)) /\ Ends(t, "nothing to mutate")
             \/ (live => force) /\ (\E l \in lines : Touched(l)) /\ Goes(t, "baseline")
    /\ UNCHANGED <<file, content, empty, saved, flaky, edited, cut, killed>>

Baseline(t) ==
    /\ pc[t] = "baseline"
    /\ \/ Passes(t) /\ Goes(t, "write")
       \/ Fails(t) /\ Ends(t, "baseline failed")
    /\ UNCHANGED <<file, content, empty, saved, src, overlap, edited, cut, killed>>

\* Path.write_text opens the file, which empties it ...
Truncate(t, before, after) ==
    /\ pc[t] = before
    /\ empty' = TRUE
    /\ Goes(t, after)
    /\ UNCHANGED <<file, content, saved, src, history>>

\* ... and writes it.
Write(c) == content' = c /\ empty' = FALSE

OpenMutated(t) == Truncate(t, "write", "writing")

WriteMutated(t) ==
    /\ pc[t] = "writing"
    /\ Write(Corrupted(src[t]))
    /\ Goes(t, "mutated")
    /\ UNCHANGED <<file, saved, src, history>>

\* The run under try: it passes, or it fails.
RunMutated(t) ==
    /\ pc[t] = "mutated"
    /\ \/ Passes(t) /\ verdict' = [verdict EXCEPT ![t] = "vacuous"]
       \/ Fails(t) /\ verdict' = [verdict EXCEPT ![t] = "good"]
    /\ pc' = [pc EXCEPT ![t] = "restore"]
    /\ UNCHANGED <<file, content, empty, saved, src, overlap, edited, cut, killed>>

\* A KeyboardInterrupt: what is under try goes through finally; another one in finally
\* is the end of the tool.
AfterInterrupt == "restore"

Interrupt(t) ==
    /\ \/ pc[t] \in {"baseline", "write"} /\ pc' = [pc EXCEPT ![t] = "over"] /\ UNCHANGED cut
       \/ /\ pc[t] \in {"writing", "mutated"}
          /\ pc' = [pc EXCEPT ![t] = AfterInterrupt]
          /\ UNCHANGED cut
       \/ /\ pc[t] \in {"restore", "restoring"}
          /\ pc' = [pc EXCEPT ![t] = "over"]
          /\ cut' = TRUE
    /\ verdict' = [verdict EXCEPT ![t] = "interrupted"]
    /\ UNCHANGED <<file, content, empty, saved, src, flaky, overlap, edited, killed>>

OpenRestore(t) == Truncate(t, "restore", "restoring")

Restore(t) ==
    /\ pc[t] = "restoring"
    /\ Write(src[t])
    /\ Goes(t, "over")
    /\ UNCHANGED <<file, saved, src, history>>

-----------------------------------------------------------------------------
\* The process is killed (external): no finally.
Kill(t) ==
    /\ Busy(t)
    /\ Ends(t, "killed")
    /\ killed' = (killed \/ pc[t] \in {"writing", "mutated", "restore", "restoring"})
    /\ UNCHANGED <<file, content, empty, saved, src, flaky, overlap, edited, cut>>

\* The developer saves what is in the editor (external).
Edit ==
    /\ saved < MaxEdits
    /\ saved' = saved + 1 /\ Write(Clean(saved + 1))
    /\ edited' = (edited \/ \E t \in Tool : Busy(t))
    /\ UNCHANGED <<file, tools, flaky, overlap, cut, killed>>

Main(t) ==
    \/ Start(t) \/ Baseline(t) \/ OpenMutated(t) \/ WriteMutated(t) \/ RunMutated(t)
    \/ OpenRestore(t) \/ Restore(t)

Next == Edit \/ \E t \in Tool : Main(t) \/ Interrupt(t) \/ Kill(t)

Spec == Init /\ [][Next]_vars

-----------------------------------------------------------------------------
Verdict == {"none", "refused", "nothing to mutate", "baseline failed", "vacuous", "good",
            "interrupted", "killed"}
Content == [v : Nat, m : Nat]

TypeOK ==
    /\ lines \subseteq Line /\ live \in BOOLEAN /\ force \in BOOLEAN
    /\ content \in Content /\ empty \in BOOLEAN /\ saved \in Nat
    /\ pc \in [Tool -> {"idle", "baseline", "write", "writing", "mutated", "restore",
                         "restoring", "over"}]
    /\ src \in [Tool -> Content] /\ verdict \in [Tool -> Verdict]
    /\ flaky \in [Tool -> BOOLEAN]
    /\ overlap \in BOOLEAN /\ edited \in BOOLEAN /\ cut \in BOOLEAN /\ killed \in BOOLEAN

(***************************************************************************)
(* "file restored always": once no tool is at work the file is what the    *)
(* developer saved last, whatever passed or failed and wherever the first  *)
(* interrupt came - unless two tools overlapped, an edit was saved under   *)
(* one, one was interrupted while it put the file back, or one was killed  *)
(* between its first write and its last.                                   *)
(***************************************************************************)
Undisturbed == ~overlap /\ ~edited /\ ~cut /\ ~killed

FileRestored ==
    (\A t \in Tool : ~Busy(t)) /\ Undisturbed => ~empty /\ content = Clean(saved)

(***************************************************************************)
(* While one tool is at work undisturbed it holds what was saved last, and *)
(* until its first write the file is that: the strengthening that makes    *)
(* FileRestored inductive.                                                 *)
(***************************************************************************)
AtWork(t) ==
    /\ src[t] = Clean(saved)
    /\ pc[t] \in {"baseline", "write"} => ~empty /\ content = src[t]

RestoreInv ==
    /\ TypeOK
    /\ FileRestored
    /\ ~overlap => \A t, u \in Tool : Busy(t) /\ Busy(u) => t = u
    /\ Undisturbed => \A t \in Tool : Busy(t) => AtWork(t)

(***************************************************************************)
(* "it genuinely asserts": a test that the tool calls good has an assert   *)
(* that is reached and that its values decide, and the tool had read the   *)
(* file uncorrupted - even when an earlier run was killed, or interrupted  *)
(* in its restore, and left it corrupted or empty, but not when tools      *)
(* overlap or the platform fails a run.                                    *)
(***************************************************************************)
Decides(l) == l.asserts /\ l.reached /\ l.kind \in {"value", "flag"}

GoodIsEarned ==
    \A t \in Tool : verdict[t] = "good" /\ ~flaky[t] /\ ~overlap /\ ~edited =>
        (\E l \in lines : Decides(l)) /\ src[t].m = 0

(***************************************************************************)
(* "STILL PASSED ... VACUOUS": no reached assert compares with a literal   *)
(* that the corruption breaks.  (It may compare with a bound that it does  *)
(* not: see the README.)                                                   *)
(***************************************************************************)
VacuousIsTrue ==
    \A t \in Tool : verdict[t] = "vacuous" /\ ~overlap /\ ~edited =>
        ~\E l \in lines : Decides(l)

\* Both verdicts.
VerdictsAreTrue == GoodIsEarned /\ VacuousIsTrue

\* "file restored always", as the docstring has it, line 7.
AlwaysRestored == (\A t \in Tool : pc[t] = "over") => ~empty /\ content.m = 0
=============================================================================
