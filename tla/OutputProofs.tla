---------------------------- MODULE OutputProofs ----------------------------
(***************************************************************************)
(* Proofs about what a run leaves on disk: RunContext (its folder), for    *)
(* any number of runs, workers and tools, and TestRecords (what is written *)
(* there), for any number of tests, entries, orders and trades.            *)
(***************************************************************************)
EXTENDS RunContext, TestRecords, FiniteSetTheorems, SequenceTheorems, TLAPS

-----------------------------------------------------------------------------
(* RunContext.                                                             *)

\* None is no folder.
LEMMA NoneIsNoFolder ==
    /\ None \notin RunDir /\ None \notin AdhocDir
    /\ \A d \in AdhocDir : d \notin RunDir
<1>1. DOMAIN None = {"none"}
  BY DEF None
<1>2. \A d \in RunDir : DOMAIN d = {"id", "stamp"}
  BY DEF RunDir
<1>3. \A d \in AdhocDir : DOMAIN d = {"pid", "stamp"}
  BY DEF AdhocDir
<1>4. QED
  BY <1>1, <1>2, <1>3

LEMMA MaxIsGreatest ==
    ASSUME NEW S, NEW x \in S, \A y \in S : x >= y
    PROVE  Max(S) \in S /\ \A y \in S : Max(S) >= y
  BY DEF Max

\* _next_id gives a number above every number in the listing.
LEMMA NextIdAbove ==
    ASSUME dirs \subseteq Folder, \E n \in {0} \cup {d.id : d \in RunsIn(dirs)} : Greatest(n)
    PROVE  NextId \in Nat /\ \A d \in RunsIn(dirs) : d.id < NextId
<1> DEFINE Numbers == {0} \cup {d.id : d \in RunsIn(dirs)}
<1>1. \A x \in Numbers : x \in Nat
  BY DEF RunsIn, RunDir
<1>2. \E x \in Numbers : \A y \in Numbers : x >= y
  <2>1. PICK n \in Numbers : Greatest(n)
    OBVIOUS
  <2>2. n \in Nat /\ \A y \in Numbers : y \in Nat /\ (y = 0 \/ \E d \in RunsIn(dirs) : d.id = y)
    BY <1>1
  <2>3. \A y \in Numbers : n >= y
    BY <2>1, <2>2 DEF Greatest
  <2>4. QED
    BY <2>3
<1>3. Max(Numbers) \in Numbers /\ \A y \in Numbers : Max(Numbers) >= y
  BY <1>2, MaxIsGreatest
<1>4. NextId = Max(Numbers) + 1
  BY DEF NextId
<1>5. \A d \in RunsIn(dirs) : d.id \in Numbers
  OBVIOUS
<1>6. QED
  <2> HIDE DEF Numbers
  <2>1. Max(Numbers) \in Nat
    BY <1>1, <1>3
  <2>2. \A d \in RunsIn(dirs) : d.id \in Nat /\ Max(Numbers) >= d.id
    BY <1>1, <1>3, <1>5
  <2>3. QED
    BY <1>4, <2>1, <2>2

LEMMA RunInit == Init => RunInv
<1> SUFFICES ASSUME Init PROVE RunInv
  OBVIOUS
<1>1. TypeOK
  BY RunAssumption DEF RunAssumption, Init, TypeOK
<1>2. NumbersGrow
  BY DEF Init, NumbersGrow, Greatest, RunsIn
<1>3. QED
  BY <1>1, <1>2, RunAssumption
  DEF RunAssumption, Init, RunInv, Process, MintersPublish, WorkersFollow,
      OneFolderPerRun, SeenRunsDistinct, LinksLead

(***************************************************************************)
(* The properties need no steps of their own: they follow from RunInv.     *)
(***************************************************************************)
LEMMA GrowthSeparates ==
    ASSUME TypeOK, NumbersGrow
    PROVE  SeenRunsDistinct
<1> SUFFICES ASSUME NEW m \in Main, NEW n \in Main,
                    run[n] # None, run[n] \in listed[m]
             PROVE  run[m] # run[n]
  BY DEF SeenRunsDistinct
<1>1. run[n] \in RunsIn(listed[m]) /\ run[n].id \in Nat
  BY DEF TypeOK, RunsIn, RunDir
<1>2. run[n].id < id[m] /\ id[m] \in Nat
  BY <1>1 DEF NumbersGrow, TypeOK
<1>3. run[m] # None => run[m].id = id[m]
  BY DEF NumbersGrow
<1>4. QED
  BY <1>1, <1>2, <1>3

LEMMA FollowersShare ==
    ASSUME MintersPublish, WorkersFollow
    PROVE  OneFolderPerRun
  BY RunAssumption DEF RunAssumption, MintersPublish, WorkersFollow, OneFolderPerRun

(***************************************************************************)
(* Every step, a part of the invariant at a time.                          *)
(***************************************************************************)
LEMMA RunStep == RunInv /\ [Next]_vars => RunInv'
<1> SUFFICES ASSUME RunInv, [Next]_vars PROVE RunInv'
  OBVIOUS
<1> USE RunAssumption, NoneIsNoFolder DEF RunAssumption, Folder
<1>a. Main \subseteq Process /\ Worker \subseteq Process /\ Tool \subseteq Process
  BY DEF Process
<1>1. CASE Tick
  <2>1. TypeOK'
    BY <1>1, <1>a DEF Tick, files, RunInv, TypeOK, RunDir, AdhocDir
  <2>2. MintersPublish'
    BY <1>1, <1>a DEF Tick, files, RunInv, TypeOK, MintersPublish
  <2>3. WorkersFollow'
    BY <1>1, <1>a DEF Tick, files, RunInv, TypeOK, MintersPublish, WorkersFollow
  <2>4. NumbersGrow'
    BY <1>1, <1>a DEF Tick, files, RunInv, TypeOK, MintersPublish, NumbersGrow, Greatest, RunsIn
  <2>5. LinksLead'
    BY <1>1, <1>a DEF Tick, files, RunInv, TypeOK, MintersPublish, LinksLead
  <2>6. QED
    BY <2>1, <2>2, <2>3, <2>4, <2>5 DEF RunInv
<1>2. ASSUME NEW m \in Main, List(m) PROVE RunInv'
  <2> NextId \in Nat /\ \A d \in RunsIn(dirs) : d.id < NextId
    BY NextIdAbove DEF RunInv, TypeOK, NumbersGrow
  <2>1. TypeOK'
    BY <1>2, <1>a DEF List, Goto, files, RunInv, TypeOK, RunDir, AdhocDir
  <2>2. MintersPublish'
    BY <1>2, <1>a DEF List, Goto, files, RunInv, TypeOK, MintersPublish
  <2>3. WorkersFollow'
    BY <1>2, <1>a DEF List, Goto, files, RunInv, TypeOK, MintersPublish, WorkersFollow
  <2>4. NumbersGrow'
    BY <1>2, <1>a DEF List, Goto, files, RunInv, TypeOK, MintersPublish, NumbersGrow, Greatest, RunsIn
  <2>5. LinksLead'
    BY <1>2, <1>a DEF List, Goto, files, RunInv, TypeOK, MintersPublish, LinksLead
  <2>6. QED
    BY <2>1, <2>2, <2>3, <2>4, <2>5 DEF RunInv
<1>3. ASSUME NEW m \in Main, Stamp(m) PROVE RunInv'
  <2>1. TypeOK'
    BY <1>3, <1>a DEF Stamp, Goto, files, RunInv, TypeOK, RunDir, AdhocDir
  <2>0. run' = [run EXCEPT ![m] = [id |-> id[m], stamp |-> now]]
        /\ [id |-> id[m], stamp |-> now] \in RunDir
    BY <1>3 DEF Stamp, RunInv, TypeOK, RunDir
  <2>2. MintersPublish'
    BY <1>3, <1>a, <2>0 DEF Stamp, Goto, files, RunInv, TypeOK, MintersPublish
  <2>3. WorkersFollow'
    BY <1>3, <1>a DEF Stamp, Goto, files, RunInv, TypeOK, MintersPublish, WorkersFollow
  <2>4. NumbersGrow'
    BY <1>3, <1>a DEF Stamp, Goto, files, RunInv, TypeOK, MintersPublish, NumbersGrow, Greatest, RunsIn
  <2>5. LinksLead'
    BY <1>3, <1>a DEF Stamp, Goto, files, RunInv, TypeOK, MintersPublish, LinksLead
  <2>6. QED
    BY <2>1, <2>2, <2>3, <2>4, <2>5 DEF RunInv
<1>4. ASSUME NEW m \in Main, MakeDir(m) PROVE RunInv'
  <2>0. run[m] \in RunDir
    BY <1>4 DEF MakeDir, RunInv, TypeOK, MintersPublish
  <2>1. TypeOK'
    BY <1>4, <1>a, <2>0 DEF MakeDir, Goto, files, RunInv, TypeOK
  <2>2. MintersPublish'
    BY <1>4, <1>a DEF MakeDir, Goto, files, RunInv, TypeOK, MintersPublish
  <2>3. WorkersFollow'
    BY <1>4, <1>a DEF MakeDir, Goto, files, RunInv, TypeOK, MintersPublish, WorkersFollow
  <2>4. NumbersGrow'
    <3>1. PICK n \in {0} \cup {d.id : d \in RunsIn(dirs)} : Greatest(n)
      BY DEF RunInv, NumbersGrow
    <3>2. RunsIn(dirs') = RunsIn(dirs) \cup {run[m]} /\ run[m].id \in Nat
      BY <1>4, <2>0 DEF MakeDir, RunsIn, RunDir
    <3>3. n \in Nat /\ \A d \in RunsIn(dirs) : d.id \in Nat /\ d.id <= n
      BY <3>1 DEF RunsIn, RunDir, Greatest
    <3>4. CASE run[m].id <= n
      <4>1. Greatest(n)' /\ n \in {0} \cup {d.id : d \in RunsIn(dirs')}
        BY <3>1, <3>2, <3>4 DEF Greatest
      <4>2. QED
        BY <1>4, <4>1 DEF MakeDir, files, RunInv, NumbersGrow, RunsIn
    <3>5. CASE n < run[m].id
      <4>1. /\ \A d \in RunsIn(dirs') : d.id <= run[m].id
            /\ run[m] \in RunsIn(dirs')
        BY <3>2, <3>3, <3>5
      <4>2. \E k \in {0} \cup {d.id : d \in RunsIn(dirs')} : Greatest(k)'
        BY <4>1 DEF Greatest
      <4>3. QED
        BY <1>4, <4>2 DEF MakeDir, files, RunInv, NumbersGrow, RunsIn
    <3>6. QED
      BY <3>2, <3>3, <3>4, <3>5
  <2>5. LinksLead'
    BY <1>4, <1>a DEF MakeDir, Goto, files, RunInv, TypeOK, MintersPublish, LinksLead
  <2>6. QED
    BY <2>1, <2>2, <2>3, <2>4, <2>5 DEF RunInv
<1>5. ASSUME NEW m \in Main, Publish(m) PROVE RunInv'
  <2>1. TypeOK'
    BY <1>5, <1>a DEF Publish, Goto, files, RunInv, TypeOK, RunDir, AdhocDir
  <2>2. MintersPublish'
    BY <1>5, <1>a DEF Publish, Goto, files, RunInv, TypeOK, MintersPublish
  <2>3. WorkersFollow'
    BY <1>5, <1>a DEF Publish, Goto, files, RunInv, TypeOK, MintersPublish, WorkersFollow
  <2>4. NumbersGrow'
    BY <1>5, <1>a DEF Publish, Goto, files, RunInv, TypeOK, MintersPublish, NumbersGrow, Greatest, RunsIn
  <2>5. LinksLead'
    BY <1>5, <1>a DEF Publish, Goto, files, RunInv, TypeOK, MintersPublish, LinksLead
  <2>6. QED
    BY <2>1, <2>2, <2>3, <2>4, <2>5 DEF RunInv
<1>6. ASSUME NEW m \in Main, CheckLatest(m) PROVE RunInv'
  <2>1. TypeOK'
    BY <1>6, <1>a DEF CheckLatest, Goto, files, RunInv, TypeOK, RunDir, AdhocDir
  <2>2. MintersPublish'
    BY <1>6, <1>a DEF CheckLatest, Goto, files, RunInv, TypeOK, MintersPublish
  <2>3. WorkersFollow'
    BY <1>6, <1>a DEF CheckLatest, Goto, files, RunInv, TypeOK, MintersPublish, WorkersFollow
  <2>4. NumbersGrow'
    BY <1>6, <1>a DEF CheckLatest, Goto, files, RunInv, TypeOK, MintersPublish, NumbersGrow, Greatest, RunsIn
  <2>5. LinksLead'
    BY <1>6, <1>a DEF CheckLatest, Goto, files, RunInv, TypeOK, MintersPublish, LinksLead
  <2>6. QED
    BY <2>1, <2>2, <2>3, <2>4, <2>5 DEF RunInv
<1>7. ASSUME NEW m \in Main, Unlink(m) PROVE RunInv'
  <2>1. TypeOK'
    BY <1>7, <1>a DEF Unlink, Goto, files, RunInv, TypeOK, RunDir, AdhocDir
  <2>2. MintersPublish'
    BY <1>7, <1>a DEF Unlink, Goto, files, RunInv, TypeOK, MintersPublish
  <2>3. WorkersFollow'
    BY <1>7, <1>a DEF Unlink, Goto, files, RunInv, TypeOK, MintersPublish, WorkersFollow
  <2>4. NumbersGrow'
    BY <1>7, <1>a DEF Unlink, Goto, files, RunInv, TypeOK, MintersPublish, NumbersGrow, Greatest, RunsIn
  <2>5. LinksLead'
    BY <1>7, <1>a DEF Unlink, Goto, files, RunInv, TypeOK, MintersPublish, LinksLead
  <2>6. QED
    BY <2>1, <2>2, <2>3, <2>4, <2>5 DEF RunInv
<1>8. ASSUME NEW m \in Main, Symlink(m) PROVE RunInv'
  <2>1. TypeOK'
    BY <1>8, <1>a DEF Symlink, Goto, files, RunInv, TypeOK, RunDir, AdhocDir
  <2>2. MintersPublish'
    BY <1>8, <1>a DEF Symlink, Goto, files, RunInv, TypeOK, MintersPublish
  <2>3. WorkersFollow'
    BY <1>8, <1>a DEF Symlink, Goto, files, RunInv, TypeOK, MintersPublish, WorkersFollow
  <2>4. NumbersGrow'
    BY <1>8, <1>a DEF Symlink, Goto, files, RunInv, TypeOK, MintersPublish, NumbersGrow, Greatest, RunsIn
  <2>5. LinksLead'
    BY <1>8, <1>a DEF Symlink, Goto, files, RunInv, TypeOK, MintersPublish, LinksLead
  <2>6. QED
    BY <2>1, <2>2, <2>3, <2>4, <2>5 DEF RunInv
<1>9. ASSUME NEW m \in Main, Cache(m) PROVE RunInv'
  <2>1. TypeOK'
    BY <1>9, <1>a DEF Cache, Goto, files, RunInv, TypeOK, RunDir, AdhocDir
  <2>2. MintersPublish'
    BY <1>9, <1>a DEF Cache, Goto, files, RunInv, TypeOK, MintersPublish
  <2>3. WorkersFollow'
    BY <1>9, <1>a DEF Cache, Goto, files, RunInv, TypeOK, MintersPublish, WorkersFollow
  <2>4. NumbersGrow'
    BY <1>9, <1>a DEF Cache, Goto, files, RunInv, TypeOK, MintersPublish, NumbersGrow, Greatest, RunsIn
  <2>5. LinksLead'
    BY <1>9, <1>a DEF Cache, Goto, files, RunInv, TypeOK, MintersPublish, LinksLead
  <2>6. QED
    BY <2>1, <2>2, <2>3, <2>4, <2>5 DEF RunInv
<1>10. ASSUME NEW m \in Main, Abort(m) PROVE RunInv'
  <2>1. TypeOK'
    BY <1>10, <1>a DEF Abort, Goto, files, RunInv, TypeOK, RunDir, AdhocDir
  <2>2. MintersPublish'
    BY <1>10, <1>a DEF Abort, Goto, files, RunInv, TypeOK, MintersPublish
  <2>3. WorkersFollow'
    BY <1>10, <1>a DEF Abort, Goto, files, RunInv, TypeOK, MintersPublish, WorkersFollow
  <2>4. NumbersGrow'
    BY <1>10, <1>a DEF Abort, Goto, files, RunInv, TypeOK, MintersPublish, NumbersGrow, Greatest, RunsIn
  <2>5. LinksLead'
    BY <1>10, <1>a DEF Abort, Goto, files, RunInv, TypeOK, MintersPublish, LinksLead
  <2>6. QED
    BY <2>1, <2>2, <2>3, <2>4, <2>5 DEF RunInv
<1>11. ASSUME NEW w \in Worker, StartWorker(w) PROVE RunInv'
  <2>1. TypeOK'
    BY <1>11, <1>a DEF StartWorker, InheritedEnv, files, RunInv, TypeOK, RunDir, AdhocDir
  <2>2. MintersPublish'
    BY <1>11, <1>a DEF StartWorker, InheritedEnv, files, RunInv, TypeOK, MintersPublish
  <2>3. WorkersFollow'
    BY <1>11, <1>a DEF StartWorker, InheritedEnv, files, RunInv, TypeOK, MintersPublish, WorkersFollow
  <2>4. NumbersGrow'
    BY <1>11, <1>a DEF StartWorker, InheritedEnv, files, RunInv, TypeOK, MintersPublish, NumbersGrow, Greatest, RunsIn
  <2>5. LinksLead'
    BY <1>11, <1>a DEF StartWorker, InheritedEnv, files, RunInv, TypeOK, MintersPublish, LinksLead
  <2>6. QED
    BY <2>1, <2>2, <2>3, <2>4, <2>5 DEF RunInv
<1>12. ASSUME NEW p \in Worker \cup Tool, Resolve(p) PROVE RunInv'
  <2>1. TypeOK'
    BY <1>12, <1>a DEF Resolve, Published, Started, files, RunInv, TypeOK, RunDir, AdhocDir
  <2>2. MintersPublish'
    BY <1>12, <1>a DEF Resolve, Published, Started, files, RunInv, TypeOK, MintersPublish
  <2>3. WorkersFollow'
    BY <1>12, <1>a DEF Resolve, Published, Started, files, RunInv, TypeOK, MintersPublish, WorkersFollow
  <2>4. NumbersGrow'
    <3>1. [pid |-> p, stamp |-> now] \notin RunDir
      BY <1>a DEF RunInv, TypeOK, AdhocDir
    <3>2. RunsIn(dirs') = RunsIn(dirs)
      BY <1>12, <3>1 DEF Resolve, RunsIn
    <3>3. UNCHANGED <<run, id, listed>>
      BY <1>12 DEF Resolve
    <3>4. QED
      BY <3>2, <3>3 DEF RunInv, NumbersGrow, Greatest, RunsIn
  <2>5. LinksLead'
    BY <1>12, <1>a DEF Resolve, Published, Started, files, RunInv, TypeOK, MintersPublish, LinksLead
  <2>6. QED
    BY <2>1, <2>2, <2>3, <2>4, <2>5 DEF RunInv
<1>13. CASE UNCHANGED vars
  <2>1. TypeOK'
    BY <1>13, <1>a DEF vars, files, RunInv, TypeOK, RunDir, AdhocDir
  <2>2. MintersPublish'
    BY <1>13, <1>a DEF vars, files, RunInv, TypeOK, MintersPublish
  <2>3. WorkersFollow'
    BY <1>13, <1>a DEF vars, files, RunInv, TypeOK, MintersPublish, WorkersFollow
  <2>4. NumbersGrow'
    BY <1>13, <1>a DEF vars, files, RunInv, TypeOK, MintersPublish, NumbersGrow, Greatest, RunsIn
  <2>5. LinksLead'
    BY <1>13, <1>a DEF vars, files, RunInv, TypeOK, MintersPublish, LinksLead
  <2>6. QED
    BY <2>1, <2>2, <2>3, <2>4, <2>5 DEF RunInv
<1>14. QED
  BY <1>1, <1>2, <1>3, <1>4, <1>5, <1>6, <1>7, <1>8, <1>9, <1>10, <1>11, <1>12, <1>13
  DEF Next, Mint

(***************************************************************************)
(* The inductive invariant.                                                *)
(***************************************************************************)
THEOREM RunInvariant == Spec => []RunInv
<1>1. QED
  BY RunInit, RunStep, PTL DEF Spec

(***************************************************************************)
(* All output of a run lands in one folder: workers never leave the folder *)
(* of the process that started them.                                       *)
(***************************************************************************)
THEOREM OneFolder == Spec => []OneFolderPerRun
<1>1. RunInv => OneFolderPerRun
  BY FollowersShare DEF RunInv
<1>2. QED
  BY <1>1, RunInvariant, PTL

(***************************************************************************)
(* Runs one of which saw the other's folder never share it.                *)
(***************************************************************************)
THEOREM SeenRunsAreDistinct == Spec => []SeenRunsDistinct
<1>1. RunInv => SeenRunsDistinct
  BY GrowthSeparates DEF RunInv
<1>2. QED
  BY <1>1, RunInvariant, PTL

-----------------------------------------------------------------------------
(* TestRecords.                                                            *)

\* One more entry told is one more entry of the sequence.
LEMMA EntriesGrow ==
    ASSUME NEW t, NEW first \in Nat, NEW last \in Nat, first <= last + 1
    PROVE  Append(Entries(t, first, last), [test |-> t, n |-> last + 1])
             = Entries(t, first, last + 1)
<1> DEFINE n == last - first + 1
           E(i) == [test |-> t, n |-> first + i - 1]
           S == {E(i) : i \in 1..(n + 1)}
<1>1. n \in Nat /\ (last + 1) - first + 1 = n + 1 /\ first + (n + 1) - 1 = last + 1
  OBVIOUS
<1>2. /\ Entries(t, first, last) = [i \in 1..n |-> E(i)]
      /\ Entries(t, first, last + 1) = [i \in 1..(n + 1) |-> E(i)]
      /\ [test |-> t, n |-> last + 1] = E(n + 1)
  BY <1>1 DEF Entries
<1> HIDE DEF n, E
<1>3. /\ [i \in 1..n |-> E(i)] \in [1..n -> S]
      /\ [i \in 1..(n + 1) |-> E(i)] \in [1..(n + 1) -> S]
      /\ E(n + 1) \in S
  BY <1>1
<1> HIDE DEF S
<1>4. /\ [i \in 1..n |-> E(i)] \in Seq(S) /\ Len([i \in 1..n |-> E(i)]) = n
      /\ [i \in 1..(n + 1) |-> E(i)] \in Seq(S) /\ Len([i \in 1..(n + 1) |-> E(i)]) = n + 1
  BY <1>1, <1>3, SeqDef
<1>5. /\ Append([i \in 1..n |-> E(i)], E(n + 1)) \in Seq(S)
      /\ Len(Append([i \in 1..n |-> E(i)], E(n + 1))) = n + 1
      /\ \A i \in 1..(n + 1) : Append([j \in 1..n |-> E(j)], E(n + 1))[i] = E(i)
  BY <1>1, <1>3, <1>4
<1>6. Append([i \in 1..n |-> E(i)], E(n + 1)) = [i \in 1..(n + 1) |-> E(i)]
  BY <1>4, <1>5, SeqEqual
<1>7. QED
  BY <1>2, <1>6

\* "Nobody" is one of the values of test and current.
LEMMA NobodyIsAnIndex ==
    NoTest \in 0..Tests
BY RecordsAssumption DEF RecordsAssumption, NoTest

LEMMA TestsAreNumbers ==
    RecordsIInv => test \in Nat /\ \A i \in DOMAIN reports : reports[i].test \in Nat
<1> SUFFICES ASSUME RecordsIInv
             PROVE  test \in Nat /\ \A i \in DOMAIN reports : reports[i].test \in Nat
  OBVIOUS
<1>1. /\ Tests \in Nat /\ test \in 0..Tests
      /\ reports \in Seq([test : 1..Tests, detail : Seq(Entry)])
  BY RecordsAssumption DEF RecordsAssumption, RecordsIInv, RecordsInv, RecordsTypeOK, Test
<1>2. \A i \in DOMAIN reports : reports[i] \in [test : 1..Tests, detail : Seq(Entry)]
  BY <1>1, LenProperties, ElementOfSeq
<1>3. QED
  BY <1>1, <1>2

LEMMA AtMostItself == \A n \in Nat : n <= n
  OBVIOUS

LEMMA CalledAreNumbers == RecordsIInv => \A t \in called : t \in Nat
<1>1. RecordsIInv => called \subseteq 1..Tests
  BY DEF RecordsIInv, RecordsInv, RecordsTypeOK, Test
<1>2. \A t \in 1..Tests : t \in Nat
  BY RecordsAssumption DEF RecordsAssumption
<1>3. QED
  BY <1>1, <1>2

LEMMA RecordsInitInv == RecordsInit => RecordsIInv
<1> SUFFICES ASSUME RecordsInit PROVE RecordsIInv
  OBVIOUS
<1> USE RecordsAssumption DEF RecordsAssumption, RecordsInit
<1>1. RecordsTypeOK
  BY DEF RecordsTypeOK, Test, NoTest, NoWindow
<1>2. DOMAIN reports = {}
  OBVIOUS
<1>3. \A o \in Order : TradeRecords(o) = {}
  BY DEF TradeRecords
<1>4. TradesSavedOnce
  <2>1. \A o \in Order : Cardinality(TradeRecords(o)) = 0
    BY <1>3, FS_EmptySet
  <2>2. \A o \in Order : ~(shown[o] > 0 /\ o \notin lost)
    OBVIOUS
  <2>3. QED
    BY <2>1, <2>2 DEF TradesSavedOnce
<1>5. ReportedTests = {} /\ CalledOver = {}
  BY <1>2 DEF ReportedTests, CalledOver
<1>6. ShownMarked
  BY DEF ShownMarked
<1>7. QED
  BY <1>1, <1>2, <1>3, <1>4, <1>5, <1>6 DEF RecordsIInv, RecordsInv, CalledOnceReported,
     DetailIsOwn, StampsTrue, ReportsBehind, CalledBehind, BufferIsOwn, TradesMarked

(***************************************************************************)
(* The parts of the invariant that the records, and those that the reports *)
(* are about.  A step that leaves the one kind of variables alone keeps    *)
(* that kind of invariant.                                                 *)
(***************************************************************************)
LEMMA SavedKept ==
    ASSUME RecordsIInv, UNCHANGED <<saved, traded, lost, shown, fills>>
    PROVE  TradesSavedOnce' /\ StampsTrue' /\ TradesMarked' /\ ShownMarked'
  BY DEF RecordsIInv, RecordsInv, TradesSavedOnce, StampsTrue, TradesMarked, TradeRecords,
         ShownMarked

\* A record is stamped with the test that writes it, or with none.
LEMMA WriteStamps ==
    ASSUME RecordsIInv, NEW type, NEW placed, NEW ids, Busy, Write(type, placed, ids)
    PROVE  StampsTrue'
<1>1. /\ current \in {NoTest, test}
      /\ phase = "call" => current = test
  BY DEF RecordsIInv, RecordsInv, RecordsTypeOK, Busy, NoTest
<1>2. \A rec \in saved' : \/ rec \in saved
                          \/ /\ rec.stamp = current /\ rec.by = test
                             /\ rec.inCall = (phase = "call")
  BY DEF Write
<1>3. QED
  BY <1>1, <1>2 DEF RecordsIInv, StampsTrue

\* A record that is no trade leaves the trades as they are.
LEMMA WriteOther ==
    ASSUME RecordsIInv, NEW type, NEW placed, NEW ids, Write(type, placed, ids),
           type # "trade", UNCHANGED <<traded, shown, fills>>
    PROVE  TradesSavedOnce' /\ TradesMarked' /\ ShownMarked' /\ lost' = lost
<1>1. \A rec \in saved' : rec \in saved \/ rec.type # "trade"
  BY DEF Write
<1>2. saved \subseteq saved'
  BY DEF Write
<1>3. \A o \in Order : TradeRecords(o)' = TradeRecords(o)
  BY <1>1, <1>2 DEF TradeRecords
<1>4. lost' = lost
  BY DEF Write
<1>5. QED
  BY <1>1, <1>3, <1>4 DEF RecordsIInv, RecordsInv, TradesSavedOnce, TradesMarked, ShownMarked

\* A trade is written for an order that had none, or its write is lost.
LEMMA WriteTrade ==
    ASSUME RecordsIInv, NEW o \in Order, NEW ids, o \notin traded,
           Write("trade", {o}, ids), traded' = traded \cup {o},
           shown' = [shown EXCEPT ![o] = fills[o]], fills[o] # 0, fills' = fills
    PROVE  TradesSavedOnce' /\ TradesMarked' /\ ShownMarked' /\ lost' \subseteq Order
<1>1. PICK rec : /\ rec.type = "trade" /\ rec.orders = {o}
                 /\ \/ saved' = saved \cup {rec} /\ lost' = lost
                    \/ saved' = saved /\ lost' = lost \cup {o}
  <2> DEFINE written == [type |-> "trade", orders |-> {o}, trade_ids |-> ids,
                         stamp |-> current, by |-> test, inCall |-> phase = "call"]
  <2>1. \/ saved' = saved \cup {written} /\ lost' = lost
        \/ saved' = saved /\ lost' = lost \cup {o}
    BY DEF Write
  <2>2. written.type = "trade" /\ written.orders = {o}
    OBVIOUS
  <2>3. QED
    BY <2>1, <2>2
<1>2. TradeRecords(o) = {} /\ o \notin lost /\ lost \subseteq Order /\ lost \subseteq traded
  BY DEF RecordsIInv, RecordsInv, RecordsTypeOK, TradesMarked
<1>3. TradeRecords(o)' = IF lost' = lost THEN {rec} ELSE {}
  BY <1>1, <1>2 DEF TradeRecords
<1>4. \A q \in Order \ {o} : /\ TradeRecords(q)' = TradeRecords(q)
                             /\ q \in lost' <=> q \in lost
  BY <1>1 DEF TradeRecords
<1>5. /\ fills[o] \in Nat /\ fills[o] > 0 /\ shown'[o] = fills[o]
      /\ \A q \in Order \ {o} : shown'[q] = shown[q]
  <2>1. fills \in [Order -> 0..MaxFills] /\ shown \in [Order -> 0..MaxFills]
    BY DEF RecordsIInv, RecordsInv, RecordsTypeOK
  <2>2. fills[o] \in Nat
    BY <2>1, RecordsAssumption DEF RecordsAssumption
  <2>3. QED
    BY <2>1, <2>2
<1>6. TradesMarked'
  BY <1>1, <1>2, <1>4 DEF RecordsIInv, TradesMarked
<1>7. ShownMarked'
  <2>1. \A q \in Order \ {o} :
            shown'[q] <= fills[q] /\ (q \in traded' <=> shown'[q] > 0)
    BY <1>5 DEF RecordsIInv, ShownMarked
  <2>2. shown'[o] <= fills[o] /\ (o \in traded' <=> shown'[o] > 0)
    BY <1>5
  <2>3. QED
    BY <2>1, <2>2 DEF ShownMarked
<1>8. Cardinality(TradeRecords(o)') = IF shown'[o] > 0 /\ o \notin lost' THEN 1 ELSE 0
  <2>1. CASE lost' = lost
    BY <1>2, <1>3, <1>5, <2>1, FS_Singleton
  <2>2. CASE lost' = lost \cup {o}
    BY <1>2, <1>3, <1>5, <2>2, FS_EmptySet
  <2>3. QED
    BY <1>1, <2>1, <2>2
<1>9. TradesSavedOnce'
  BY <1>4, <1>5, <1>8 DEF RecordsIInv, RecordsInv, TradesSavedOnce
<1>10. QED
  BY <1>1, <1>2, <1>6, <1>7, <1>9

\* What is reported stays as it is while no window of a reported test moves.
LEMMA ReportedKept ==
    ASSUME RecordsIInv, reports' = reports, test' = test,
           \A i \in DOMAIN reports : window'[reports[i].test] = window[reports[i].test],
           phase' \in {"wide", "setup", "call"} => phase \in {"wide", "setup", "call"},
           CalledOver' = CalledOver
    PROVE  CalledOnceReported' /\ DetailIsOwn' /\ ReportsBehind'
<1>1. \A i \in DOMAIN reports : Between(reports[i].test)' = Between(reports[i].test)
  BY DEF Between, Entries
<1>2. DetailIsOwn'
  BY <1>1 DEF RecordsIInv, DetailIsOwn
<1>3. ReportsBehind'
  BY DEF RecordsIInv, ReportsBehind
<1>4. CalledOnceReported'
  <2>1. test \in Nat /\ \A i \in DOMAIN reports : reports[i].test \in Nat
    BY TestsAreNumbers
  <2>2. ReportedTests' = ReportedTests
    BY DEF ReportedTests
  <2>3. QED
    BY <2>1, <2>2 DEF RecordsIInv, RecordsInv, CalledOnceReported
<1>5. QED
  BY <1>2, <1>3, <1>4

LEMMA BeginTestInv ==
    ASSUME RecordsIInv, BeginTest
    PROVE  RecordsIInv'
<1> USE RecordsAssumption DEF RecordsAssumption
<1>1. /\ phase = "idle" /\ phase' = "wide" /\ test' = test + 1 /\ test < Tests
      /\ UNCHANGED <<current, saved, traded, buffer, reports, uuid, fills, told, window, called,
                     shown, lost>>
  BY DEF BeginTest, artifacts, report, market, history
<1>2. test \in Nat /\ \A i \in DOMAIN reports : reports[i].test \in Nat
  BY TestsAreNumbers
<1>3. RecordsTypeOK'
  <2>1. test' \in 0..Tests /\ test' \in Test
    BY <1>1, <1>2 DEF Test
  <2>2. QED
    BY <1>1, <2>1 DEF RecordsIInv, RecordsInv, RecordsTypeOK
<1>4. DetailIsOwn'
  BY <1>1 DEF RecordsIInv, DetailIsOwn, Between, Entries
<1>5. /\ CalledOnceReported' /\ ReportsBehind' /\ CalledBehind' /\ BufferIsOwn'
  <2>1. \A t \in called : t <= test' /\ t # test'
    BY <1>1, <1>2, CalledAreNumbers DEF RecordsIInv, CalledBehind
  <2>2. ReportedTests' = ReportedTests /\ CalledOver' = CalledOver
    BY <1>1 DEF ReportedTests, CalledOver
  <2>3. QED
    BY <1>1, <1>2, <2>1, <2>2
    DEF RecordsIInv, RecordsInv, CalledOnceReported, ReportsBehind, CalledBehind, BufferIsOwn
<1>6. QED
  BY <1>1, <1>3, <1>4, <1>5, SavedKept DEF RecordsIInv, RecordsInv

LEMMA EnterArtifactsInv ==
    ASSUME RecordsIInv, EnterArtifacts
    PROVE  RecordsIInv'
<1> USE RecordsAssumption DEF RecordsAssumption
<1>1. /\ phase = "wide" /\ phase' = "setup" /\ current' = test /\ buffer' = <<>>
      /\ UNCHANGED <<test, saved, traded, reports, uuid, fills, told, called, shown, lost>>
  BY DEF EnterArtifacts, Reset, market
<1>2. /\ test \in Test /\ told \in [Test -> 0..MaxTold]
      /\ window \in [Test -> [first : 1..(MaxTold + 1), last : 0..MaxTold]]
  BY <1>1 DEF RecordsIInv, RecordsInv, RecordsTypeOK
<1>3. /\ window' = [window EXCEPT ![test] = [first |-> told[test] + 1, last |-> told[test]]]
      /\ told[test] \in 0..MaxTold
  BY <1>2 DEF EnterArtifacts
<1>4. window' \in [Test -> [first : 1..(MaxTold + 1), last : 0..MaxTold]]
  BY <1>2, <1>3
<1>5. RecordsTypeOK'
  <2>1. buffer' \in Seq(Entry)
    BY <1>1
  <2>2. test' \in 0..Tests /\ current' \in 0..Tests
    BY <1>1 DEF RecordsIInv, RecordsInv, RecordsTypeOK
  <2>3. QED
    BY <1>1, <1>2, <1>4, <2>1, <2>2 DEF RecordsIInv, RecordsInv, RecordsTypeOK
<1>6. CalledOnceReported' /\ DetailIsOwn' /\ ReportsBehind'
  <2>1. \A i \in DOMAIN reports : reports[i].test # test
    BY <1>1, TestsAreNumbers DEF RecordsIInv, ReportsBehind
  <2>2. \A i \in DOMAIN reports : window'[reports[i].test] = window[reports[i].test]
    BY <1>2, <1>3, <2>1
  <2>3. CalledOver' = CalledOver
    BY <1>1 DEF CalledOver
  <2>4. QED
    BY <1>1, <2>2, <2>3, ReportedKept
<1>7. BufferIsOwn'
  <2>1. window'[test].first = told[test] + 1 /\ told[test] \in Nat
    BY <1>2, <1>3
  <2>2. Entries(test, told[test] + 1, told[test]) = <<>>
    BY <2>1 DEF Entries
  <2>3. QED
    BY <1>1, <2>1, <2>2 DEF BufferIsOwn
<1>8. CalledBehind'
  BY <1>1 DEF RecordsIInv, CalledBehind
<1>9. QED
  BY <1>1, <1>5, <1>6, <1>7, <1>8, SavedKept DEF RecordsIInv, RecordsInv

\* Between the end of a phase and the next only the call's end reports.
LEMMA QuietPhaseInv ==
    ASSUME RecordsIInv, test' = test, current' \in {current, NoTest},
           UNCHANGED <<saved, traded, buffer, reports, uuid, fills, told, window, shown, lost>>,
           called' = IF phase' = "call" THEN called \cup {test} ELSE called,
           \/ phase = "setup" /\ phase' = "call" /\ current' = current
           \/ phase \in {"wide", "setup"} /\ phase' = "down" /\ current' = current
           \/ phase = "down" /\ phase' = "wide down" /\ current' = NoTest
           \/ phase = "wide down" /\ phase' = "idle" /\ current' = current
    PROVE  RecordsIInv'
<1> USE RecordsAssumption DEF RecordsAssumption
<1>1. RecordsTypeOK'
  <2>1. /\ test \in 0..Tests /\ current \in 0..Tests
        /\ test \in Test \/ phase = "idle"
        /\ current = test \/ phase \notin {"setup", "call"}
        /\ current = NoTest \/ phase \notin {"idle", "wide", "wide down"}
        /\ called' \subseteq Test
    BY DEF RecordsIInv, RecordsInv, RecordsTypeOK
  <2>2. NoTest \in 0..Tests
    BY NobodyIsAnIndex
  <2>3. /\ test' \in 0..Tests /\ current' \in 0..Tests
        /\ test' \in Test \/ phase' = "idle"
        /\ phase' \in {"call", "down", "wide down", "idle"}
        /\ current' = test' \/ phase' \notin {"setup", "call"}
        /\ current' = NoTest \/ phase' \notin {"idle", "wide", "wide down"}
    BY <2>1, <2>2
  <2>4. QED
    BY <2>1, <2>3 DEF RecordsIInv, RecordsInv, RecordsTypeOK
<1>2. CalledOver' = CalledOver
  BY DEF RecordsIInv, CalledBehind, CalledOver
<1>3. CalledOnceReported' /\ DetailIsOwn' /\ ReportsBehind'
  BY <1>2, ReportedKept
<1>4. BufferIsOwn'
  BY DEF RecordsIInv, BufferIsOwn
<1>5. CalledBehind'
  <2>1. test <= test
    BY TestsAreNumbers, AtMostItself
  <2>2. phase' \notin {"wide", "setup"} /\ (phase' = "call" => test \in called')
    OBVIOUS
  <2>3. \A t \in called' : t \in called \/ t = test
    OBVIOUS
  <2>4. QED
    BY <2>1, <2>2, <2>3 DEF RecordsIInv, CalledBehind
<1>6. QED
  BY <1>1, <1>3, <1>4, <1>5, SavedKept DEF RecordsIInv, RecordsInv

LEMMA SetupEndsInv ==
    ASSUME RecordsIInv, SetupEnds
    PROVE  RecordsIInv'
<1>1. /\ \/ phase = "setup" /\ phase' = "call"
         \/ phase \in {"wide", "setup"} /\ phase' = "down"
      /\ UNCHANGED <<test, current, saved, traded, buffer, reports, uuid, fills, told, window,
                     shown, lost>>
      /\ called' = IF phase' = "call" THEN called \cup {test} ELSE called
  BY DEF SetupEnds, MakeReport, Reported, artifacts, market
<1>2. QED
  BY <1>1, QuietPhaseInv

LEMMA LeaveArtifactsInv ==
    ASSUME RecordsIInv, LeaveArtifacts
    PROVE  RecordsIInv'
<1>1. /\ phase = "down" /\ phase' = "wide down" /\ current' = NoTest
      /\ UNCHANGED <<test, saved, traded, buffer, reports, uuid, fills, told, window, called,
                     shown, lost>>
  BY DEF LeaveArtifacts, NoStamp, report, market, history
<1>2. QED
  BY <1>1, QuietPhaseInv

LEMMA TeardownEndsInv ==
    ASSUME RecordsIInv, TeardownEnds
    PROVE  RecordsIInv'
<1>1. /\ phase = "wide down" /\ phase' = "idle"
      /\ UNCHANGED <<test, current, saved, traded, buffer, reports, uuid, fills, told, window,
                     called, shown, lost>>
  BY DEF TeardownEnds, MakeReport, Reported, artifacts, market
<1>2. QED
  BY <1>1, QuietPhaseInv

LEMMA CallEndsInv ==
    ASSUME RecordsIInv, CallEnds
    PROVE  RecordsIInv'
<1> USE RecordsAssumption DEF RecordsAssumption
<1>1. /\ phase = "call" /\ phase' = "down"
      /\ reports' = Append(reports, [test |-> test, detail |-> buffer])
      /\ window' = [window EXCEPT ![test].last = told[test]]
      /\ UNCHANGED <<test, current, saved, traded, buffer, uuid, fills, told, called, shown, lost>>
  BY DEF CallEnds, MakeReport, Reported, artifacts, market
<1>2. /\ test \in Test /\ told \in [Test -> 0..MaxTold] /\ buffer \in Seq(Entry)
      /\ window \in [Test -> [first : 1..(MaxTold + 1), last : 0..MaxTold]]
      /\ reports \in Seq([test : Test, detail : Seq(Entry)])
  BY <1>1 DEF RecordsIInv, RecordsInv, RecordsTypeOK
<1> DEFINE rep == [test |-> test, detail |-> buffer]
<1>3. rep \in [test : Test, detail : Seq(Entry)] /\ rep.test = test /\ rep.detail = buffer
  BY <1>2
<1> HIDE DEF rep
<1>4. /\ reports' \in Seq([test : Test, detail : Seq(Entry)])
      /\ Len(reports) \in Nat /\ Len(reports') = Len(reports) + 1
      /\ \A i \in 1..Len(reports) : reports'[i] = reports[i]
      /\ reports'[Len(reports) + 1] = rep
      /\ DOMAIN reports = 1..Len(reports) /\ DOMAIN reports' = 1..(Len(reports) + 1)
  <2>1. reports' = Append(reports, rep)
    BY <1>1 DEF rep
  <2>2. QED
    BY <1>2, <1>3, <2>1, AppendProperties, LenProperties
<1>5. /\ window' \in [Test -> [first : 1..(MaxTold + 1), last : 0..MaxTold]]
      /\ window'[test].first = window[test].first /\ window'[test].last = told[test]
      /\ \A t \in Test \ {test} : window'[t] = window[t]
  <2>1. window[test] \in [first : 1..(MaxTold + 1), last : 0..MaxTold] /\ told[test] \in 0..MaxTold
    BY <1>2
  <2>2. [window[test] EXCEPT !.last = told[test]] \in [first : 1..(MaxTold + 1), last : 0..MaxTold]
    BY <2>1
  <2>3. QED
    BY <1>1, <1>2, <2>1, <2>2
<1>6. \A i \in 1..Len(reports) : reports[i].test \in Test /\ reports[i].test < test
  <2>1. \A i \in 1..Len(reports) : reports[i] \in [test : Test, detail : Seq(Entry)]
    BY <1>2, ElementOfSeq
  <2>2. QED
    BY <1>1, <1>4, <2>1 DEF RecordsIInv, ReportsBehind
<1>7. RecordsTypeOK'
  BY <1>1, <1>2, <1>4, <1>5 DEF RecordsIInv, RecordsInv, RecordsTypeOK, NoTest
<1>8. DetailIsOwn'
  <2> DEFINE Here(t) == Entries(t, window'[t].first, window'[t].last)
  <2>1. ASSUME NEW i \in 1..Len(reports)
        PROVE  reports'[i].detail = Here(reports'[i].test)
    <3>1. reports[i].detail = Between(reports[i].test) /\ reports'[i] = reports[i]
      BY <1>4 DEF RecordsIInv, DetailIsOwn
    <3>2. window'[reports[i].test] = window[reports[i].test]
      <4>1. reports[i].test \in Test /\ reports[i].test < test /\ test \in Nat
        BY <1>6, TestsAreNumbers
      <4>2. reports[i].test \in Test \ {test}
        BY <4>1 DEF Test
      <4>3. QED
        BY <1>5, <4>2
    <3>3. QED
      BY <3>1, <3>2 DEF Between
  <2>2. rep.detail = Here(rep.test)
    <3>1. buffer = Entries(test, window[test].first, told[test])
      BY <1>1 DEF RecordsIInv, BufferIsOwn
    <3>2. QED
      BY <1>3, <1>5, <3>1
  <2>3. ASSUME NEW i \in 1..(Len(reports) + 1)
        PROVE  reports'[i].detail = Here(reports'[i].test)
    <3>1. CASE i \in 1..Len(reports)
      BY <2>1, <3>1
    <3>2. CASE i = Len(reports) + 1
      BY <1>4, <2>2, <3>2
    <3>3. QED
      BY <1>4, <3>1, <3>2
  <2>4. QED
    BY <1>4, <2>3 DEF DetailIsOwn, Between, Entries
<1>9. CalledOnceReported'
  <2>1. ASSUME NEW i \in 1..(Len(reports) + 1), NEW j \in 1..(Len(reports) + 1), i < j
        PROVE  reports'[i].test < reports'[j].test
    <3>1. i \in 1..Len(reports) /\ reports'[i] = reports[i]
      BY <1>4, <2>1
    <3>2. CASE j \in 1..Len(reports)
      BY <1>4, <2>1, <3>1, <3>2 DEF RecordsIInv, RecordsInv, CalledOnceReported
    <3>3. CASE j = Len(reports) + 1
      BY <1>3, <1>4, <1>6, <3>1, <3>3
    <3>4. QED
      BY <1>4, <3>2, <3>3
  <2>2. ReportedTests' = ReportedTests \cup {test}
    <3>1. /\ \A i \in 1..Len(reports) : reports'[i].test = reports[i].test
          /\ reports'[Len(reports) + 1].test = test
      BY <1>3, <1>4
    <3>2. /\ \A i \in 1..(Len(reports) + 1) : i \in 1..Len(reports) \/ i = Len(reports) + 1
          /\ \A i \in 1..Len(reports) : i \in 1..(Len(reports) + 1)
          /\ Len(reports) + 1 \in 1..(Len(reports) + 1)
      BY <1>4
    <3>3. ReportedTests' = {reports'[i].test : i \in 1..(Len(reports) + 1)}
      BY <1>4 DEF ReportedTests
    <3>4. ReportedTests = {reports[i].test : i \in 1..Len(reports)}
      BY <1>4 DEF ReportedTests
    <3>5. \A t \in ReportedTests' : t \in ReportedTests \/ t = test
      BY <3>1, <3>2, <3>3, <3>4
    <3>6. test \in ReportedTests' /\ \A t \in ReportedTests : t \in ReportedTests'
      BY <3>1, <3>2, <3>3, <3>4
    <3>7. QED
      BY <3>5, <3>6
  <2>3. /\ CalledOver' = called /\ CalledOver = called \ {test} /\ test \in called
        /\ ReportedTests = CalledOver
    BY <1>1 DEF CalledOver, RecordsIInv, RecordsInv, CalledOnceReported, CalledBehind
  <2>4. ReportedTests' = CalledOver'
    BY <2>2, <2>3
  <2>5. QED
    BY <1>1, <1>4, <2>1, <2>4 DEF CalledOnceReported
<1>10. ReportsBehind'
  <2>1. ASSUME NEW i \in 1..(Len(reports) + 1)
        PROVE  reports'[i].test <= test
    <3>1. CASE i \in 1..Len(reports)
      BY <1>4, <3>1 DEF RecordsIInv, ReportsBehind
    <3>2. CASE i = Len(reports) + 1
      BY <1>3, <1>4, <3>2, TestsAreNumbers
    <3>3. QED
      BY <1>4, <3>1, <3>2
  <2>2. QED
    BY <1>1, <1>4, <2>1 DEF ReportsBehind
<1>11. BufferIsOwn'
  BY <1>1 DEF BufferIsOwn
<1>12. CalledBehind'
  BY <1>1 DEF RecordsIInv, CalledBehind
<1>13. QED
  BY <1>1, <1>7, <1>8, <1>9, <1>10, <1>11, <1>12, SavedKept DEF RecordsIInv, RecordsInv

LEMMA TellInv ==
    ASSUME RecordsIInv, Tell
    PROVE  RecordsIInv'
<1> USE RecordsAssumption DEF RecordsAssumption
<1>1. /\ Busy /\ told[test] < MaxTold
      /\ told' = [told EXCEPT ![test] = told[test] + 1]
      /\ buffer' = Append(buffer, [test |-> test, n |-> told[test] + 1])
      /\ UNCHANGED <<test, phase, current, saved, traded, reports, uuid, fills, window, called,
                     shown, lost>>
  BY DEF Tell, pytest, artifacts, market
<1>2. /\ test \in Test /\ told \in [Test -> 0..MaxTold] /\ buffer \in Seq(Entry)
      /\ window \in [Test -> [first : 1..(MaxTold + 1), last : 0..MaxTold]]
  BY <1>1 DEF RecordsIInv, RecordsInv, RecordsTypeOK, Busy
<1>3. /\ told[test] \in Nat /\ told'[test] = told[test] + 1 /\ told' \in [Test -> 0..MaxTold]
      /\ [test |-> test, n |-> told[test] + 1] \in Entry
      /\ window[test].first \in Nat
  BY <1>1, <1>2 DEF Entry
<1>4. RecordsTypeOK'
  <2>1. buffer' \in Seq(Entry)
    BY <1>1, <1>2, <1>3
  <2>2. QED
    BY <1>1, <1>3, <2>1 DEF RecordsIInv, RecordsInv, RecordsTypeOK, NoTest
<1>5. CalledOnceReported' /\ DetailIsOwn' /\ ReportsBehind' /\ CalledBehind'
  BY <1>1, ReportedKept DEF RecordsIInv, CalledBehind, CalledOver
<1>6. BufferIsOwn'
  <2> SUFFICES ASSUME phase \in {"setup", "call"}
               PROVE  /\ window[test].first <= told[test] + 2
                      /\ buffer' = Entries(test, window[test].first, told[test] + 1)
    BY <1>1, <1>3 DEF BufferIsOwn
  <2>1. /\ window[test].first <= told[test] + 1
        /\ buffer = Entries(test, window[test].first, told[test])
    BY DEF RecordsIInv, BufferIsOwn
  <2>2. Append(Entries(test, window[test].first, told[test]), [test |-> test, n |-> told[test] + 1])
          = Entries(test, window[test].first, told[test] + 1)
    BY <1>3, <2>1, EntriesGrow
  <2>3. QED
    BY <1>1, <1>3, <2>1, <2>2
<1>7. QED
  BY <1>1, <1>4, <1>5, <1>6, SavedKept DEF RecordsIInv, RecordsInv

\* What neither reports nor tells anything.
LEMMA ReportsUntouched ==
    ASSUME RecordsIInv,
           UNCHANGED <<test, phase, current, buffer, reports, told, window, called>>
    PROVE  CalledOnceReported' /\ DetailIsOwn' /\ ReportsBehind' /\ CalledBehind' /\ BufferIsOwn'
<1>1. CalledOnceReported' /\ DetailIsOwn' /\ ReportsBehind' /\ CalledBehind'
  BY ReportedKept DEF RecordsIInv, CalledBehind, CalledOver
<1>2. BufferIsOwn'
  BY DEF RecordsIInv, BufferIsOwn, Entries
<1>3. QED
  BY <1>1, <1>2

LEMMA RecordAccountInv ==
    ASSUME RecordsIInv, RecordAccount
    PROVE  RecordsIInv'
<1>1. /\ Busy /\ Write("account", {}, {})
      /\ UNCHANGED <<test, phase, current, traded, buffer, reports, uuid, fills, told, window, called,
                     shown>>
  BY DEF RecordAccount, pytest, report, market
<1>2. RecordsTypeOK'
  BY <1>1, WriteOther DEF RecordsIInv, RecordsInv, RecordsTypeOK
<1>3. QED
  BY <1>1, <1>2, WriteStamps, WriteOther, ReportsUntouched DEF RecordsIInv, RecordsInv

LEMMA PlaceOrderInv ==
    ASSUME RecordsIInv, NEW o \in Order, PlaceOrder(o)
    PROVE  RecordsIInv'
<1>1. /\ phase \in {"call", "wide down"} /\ Write("order", {o}, {}) /\ uuid' = uuid \cup {o}
      /\ UNCHANGED <<test, phase, current, traded, buffer, reports, fills, told, window, called,
                     shown>>
  BY DEF PlaceOrder, pytest, report
<1>2. RecordsTypeOK'
  BY <1>1, WriteOther DEF RecordsIInv, RecordsInv, RecordsTypeOK
<1>3. StampsTrue'
  BY <1>1, WriteStamps DEF Busy
<1>4. QED
  BY <1>1, <1>2, <1>3, WriteOther, ReportsUntouched DEF RecordsIInv, RecordsInv

LEMMA ReadFillsInv ==
    ASSUME RecordsIInv, NEW o \in Order, ReadFills(o)
    PROVE  RecordsIInv'
<1> USE RecordsAssumption DEF RecordsAssumption
<1>1. /\ phase \in {"call", "wide down"} /\ o \in uuid
      /\ shown' = [shown EXCEPT ![o] = fills[o]]
      /\ UNCHANGED <<test, phase, current, buffer, reports, uuid, fills, told, window, called>>
  BY DEF ReadFills, pytest, report, market
<1>2. /\ fills \in [Order -> 0..MaxFills] /\ shown \in [Order -> 0..MaxFills]
      /\ shown' \in [Order -> 0..MaxFills] /\ fills[o] \in Nat /\ shown[o] \in Nat
      /\ shown'[o] = fills[o] /\ \A q \in Order \ {o} : shown'[q] = shown[q]
  <2>1. fills \in [Order -> 0..MaxFills] /\ shown \in [Order -> 0..MaxFills]
    BY DEF RecordsIInv, RecordsInv, RecordsTypeOK
  <2>2. fills[o] \in Nat /\ shown[o] \in Nat /\ fills[o] \in 0..MaxFills
    BY <2>1
  <2>3. shown' \in [Order -> 0..MaxFills]
    BY <1>1, <2>1, <2>2
  <2>4. shown'[o] = fills[o] /\ \A q \in Order \ {o} : shown'[q] = shown[q]
    BY <1>1, <2>1
  <2>5. QED
    BY <2>1, <2>2, <2>3, <2>4
\* What is shown again, or nothing.
<1>3. CASE (fills[o] = 0 \/ o \in traded) /\ UNCHANGED <<traded, saved, lost>>
  <2>1. \A q \in Order : shown'[q] > 0 <=> shown[q] > 0
    <3>1. /\ o \in traded <=> shown[o] > 0
          /\ shown[o] <= fills[o]
      BY DEF RecordsIInv, ShownMarked
    <3>2. fills[o] > 0 <=> shown[o] > 0
      BY <1>2, <1>3, <3>1
    <3>3. QED
      BY <1>2, <3>2
  <2>2. ShownMarked'
    <3>1. \A q \in Order : q \in traded' <=> shown'[q] > 0
      BY <1>3, <2>1 DEF RecordsIInv, ShownMarked
    <3>2. \A q \in Order \ {o} : shown'[q] <= fills[q]
      BY <1>2 DEF RecordsIInv, ShownMarked
    <3>3. shown'[o] <= fills[o]
      BY <1>2
    <3>4. QED
      BY <1>1, <3>1, <3>2, <3>3 DEF ShownMarked
  <2>3. TradesSavedOnce' /\ StampsTrue' /\ TradesMarked'
    BY <1>3, <2>1 DEF RecordsIInv, RecordsInv, TradesSavedOnce, StampsTrue, TradesMarked,
                      TradeRecords
  <2>4. RecordsTypeOK'
    BY <1>1, <1>2, <1>3 DEF RecordsIInv, RecordsInv, RecordsTypeOK
  <2>5. QED
    BY <1>1, <2>2, <2>3, <2>4, ReportsUntouched DEF RecordsIInv, RecordsInv
<1>4. CASE /\ fills[o] # 0 /\ o \notin traded /\ traded' = traded \cup {o}
           /\ Write("trade", {o}, 1..fills[o])
  <2>1. TradesSavedOnce' /\ TradesMarked' /\ ShownMarked' /\ lost' \subseteq Order
    BY <1>1, <1>4, WriteTrade
  <2>2. StampsTrue'
    BY <1>1, <1>4, WriteStamps DEF Busy
  <2>3. RecordsTypeOK'
    BY <1>1, <1>2, <1>4, <2>1 DEF RecordsIInv, RecordsInv, RecordsTypeOK
  <2>4. QED
    BY <1>1, <2>1, <2>2, <2>3, ReportsUntouched DEF RecordsIInv, RecordsInv
<1>5. QED
  BY <1>3, <1>4 DEF ReadFills, Saved

LEMMA FillInv ==
    ASSUME RecordsIInv, NEW o \in Order, Fill(o)
    PROVE  RecordsIInv'
<1> USE RecordsAssumption DEF RecordsAssumption
<1>1. /\ fills[o] < MaxFills /\ fills' = [fills EXCEPT ![o] = fills[o] + 1]
      /\ UNCHANGED <<test, phase, current, saved, traded, buffer, reports, uuid, told, window, called,
                     shown, lost>>
  BY DEF Fill, pytest, artifacts, report, history
<1>2. RecordsTypeOK'
  <2>1. fills \in [Order -> 0..MaxFills]
    BY DEF RecordsIInv, RecordsInv, RecordsTypeOK
  <2>2. fills' \in [Order -> 0..MaxFills]
    BY <1>1, <2>1
  <2>3. QED
    BY <1>1, <2>2 DEF RecordsIInv, RecordsInv, RecordsTypeOK
<1>3. ShownMarked'
  <2>1. /\ fills \in [Order -> 0..MaxFills] /\ shown \in [Order -> 0..MaxFills]
    BY DEF RecordsIInv, RecordsInv, RecordsTypeOK
  <2>2. \A q \in Order : shown[q] <= fills'[q]
    BY <1>1, <2>1 DEF RecordsIInv, ShownMarked
  <2>3. QED
    BY <1>1, <2>2 DEF RecordsIInv, ShownMarked
<1>4. TradesSavedOnce' /\ StampsTrue' /\ TradesMarked'
  BY <1>1 DEF RecordsIInv, RecordsInv, TradesSavedOnce, StampsTrue, TradesMarked, TradeRecords
<1>5. QED
  BY <1>1, <1>2, <1>3, <1>4, ReportsUntouched DEF RecordsIInv, RecordsInv

LEMMA RecordsStepInv == RecordsIInv /\ [RecordsNext]_recordsVars => RecordsIInv'
<1> SUFFICES ASSUME RecordsIInv, [RecordsNext]_recordsVars
             PROVE  RecordsIInv'
  OBVIOUS
<1>1. CASE UNCHANGED recordsVars
  <2>1. UNCHANGED <<test, phase, current, saved, traded, buffer, reports, uuid, fills, told,
                    window, called, shown, lost>>
    BY <1>1 DEF recordsVars, pytest, artifacts, report, market, history
  <2>2. RecordsTypeOK'
    BY <2>1 DEF RecordsIInv, RecordsInv, RecordsTypeOK
  <2>3. QED
    BY <2>1, <2>2, SavedKept, ReportsUntouched DEF RecordsIInv, RecordsInv
<1>2. CASE RecordsNext
  BY <1>2, BeginTestInv, EnterArtifactsInv, SetupEndsInv, CallEndsInv, LeaveArtifactsInv,
     TeardownEndsInv, TellInv, RecordAccountInv, PlaceOrderInv, ReadFillsInv, FillInv
     DEF RecordsNext
<1>3. QED
  BY <1>1, <1>2

LEMMA RecordsIInvAlways == RecordsSpec => []RecordsIInv
<1>1. QED
  BY RecordsInitInv, RecordsStepInv, PTL DEF RecordsSpec

(***************************************************************************)
(* The typing, that the tests reported are those whose call is over, each  *)
(* once and in order, and that an order whose trades were shown has one    *)
(* trade record, or none when its one write was lost.                      *)
(***************************************************************************)
THEOREM RecordsInvariant == RecordsSpec => []RecordsInv
<1>1. RecordsIInv => RecordsInv
  BY DEF RecordsIInv
<1>2. QED
  BY <1>1, RecordsIInvAlways, PTL

(***************************************************************************)
(* A report holds what its test recorded from the reset to the end of its  *)
(* call, whatever the fixtures of wider scope recorded around it.          *)
(***************************************************************************)
THEOREM DetailsAreOwn == RecordsSpec => []DetailIsOwn
<1>1. RecordsIInv => DetailIsOwn
  BY DEF RecordsIInv
<1>2. QED
  BY <1>1, RecordsIInvAlways, PTL

(***************************************************************************)
(* A record never carries the name of another test.                        *)
(***************************************************************************)
THEOREM StampsAreTrue == RecordsSpec => []StampsTrue
<1>1. RecordsIInv => StampsTrue
  BY DEF RecordsIInv
<1>2. QED
  BY <1>1, RecordsIInvAlways, PTL
=============================================================================
