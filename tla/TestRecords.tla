---------------------------- MODULE TestRecords ----------------------------
(***************************************************************************)
(* What one pytest process writes down about its tests: the buffers of     *)
(* lib/report.py and the report made from them (fixtures/reporting.py),    *)
(* and the account, order and trade records of lib/artifacts.py, stamped   *)
(* with the test that runs.  All of it is module state shared by tests     *)
(* that run one after the other, and by fixtures of wider scope that run   *)
(* between them.                                                           *)
(*                                                                         *)
(* pytest (external) sets up the wider fixtures a test asks for first, the *)
(* automatic fixture _artifacts before the test's own ones, and tears them *)
(* down in the opposite order.                                             *)
(***************************************************************************)
EXTENDS Naturals, Sequences, FiniteSets

CONSTANTS Tests,     \* number of tests, which run in the order 1, 2, ...
          Order,     \* orders the tests may place
          MaxTold,   \* bound: report entries each test makes
          MaxFills,  \* bound: trades of one order
          DiskFails  \* whether a write may raise OSError

ASSUME RecordsAssumption ==
    /\ Tests \in Nat /\ MaxTold \in Nat /\ MaxFills \in Nat
    /\ DiskFails \in BOOLEAN

VARIABLES test, phase,     \* the test that runs, and how far pytest is with it
          current,         \* _current_test; NoTest: None
          buffer,          \* _actions, _records, _checks and _notes together
          reports,         \* _test_reports
          saved,           \* the records in the worker's artifacts file
          traded,          \* _traded_orders
          uuid,            \* orders whose uuid the tests hold
          fills,           \* fills[o]: trades of o at the exchange
          told,            \* history, told[t]: entries made while t ran
          window,          \* history, window[t]: entries made from reset to harvest
          called,          \* history: tests whose call began
          shown,           \* history, shown[o]: trades the fill readers were shown
          lost             \* history: orders whose trades were being written on an OSError

pytest == <<test, phase>>
artifacts == <<current, saved, traded>>
report == <<buffer, reports>>
market == <<uuid, fills>>
history == <<told, window, called, shown, lost>>
recordsVars == <<pytest, artifacts, report, market, history>>

Test == 1..Tests
NoTest == 0
NoWindow == [first |-> 1, last |-> 0]

RecordsInit ==
    /\ test = NoTest /\ phase = "idle" /\ current = NoTest
    /\ buffer = <<>> /\ reports = <<>> /\ saved = {} /\ traded = {}
    /\ uuid = {} /\ fills = [o \in Order |-> 0]
    /\ told = [t \in Test |-> 0] /\ window = [t \in Test |-> NoWindow]
    /\ called = {} /\ shown = [o \in Order |-> 0] /\ lost = {}

-----------------------------------------------------------------------------
(* Fixtures and hooks.                                                     *)

\* Mutants: the buffer, or the stamp, is not cleared; every phase is reported.
KeepBuffer == buffer
KeepStamp == current
AnyPhase(when) == TRUE

\* The next test: its session and module fixtures come first.
BeginTest ==
    /\ phase = "idle" /\ test < Tests
    /\ test' = test + 1 /\ phase' = "wide"
    /\ UNCHANGED <<artifacts, report, market, history>>

\* _artifacts before the yield: report.reset(), in one go.
Reset == <<>>

EnterArtifacts ==
    /\ phase = "wide"
    /\ current' = test
    /\ buffer' = Reset
    /\ window' = [window EXCEPT ![test] = [first |-> told[test] + 1, last |-> told[test]]]
    /\ phase' = "setup"
    /\ UNCHANGED <<test, saved, traded, reports, market, told, called, shown, lost>>

\* rep.when == "call"
Reported(when) == when = "call"

\* pytest_runtest_makereport at the end of a phase: harvest() copies the buffer.
\* (The outcome and the wording it gets are left out.)
MakeReport(when) ==
    IF Reported(when)
    THEN /\ reports' = Append(reports, [test |-> test, detail |-> buffer])
         /\ window' = [window EXCEPT ![test].last = told[test]]
    ELSE UNCHANGED <<reports, window>>

SetupEnds ==
    /\ phase \in {"wide", "setup"}
    /\ \/ phase = "setup" /\ phase' = "call" /\ called' = called \cup {test}
       \/ phase' = "down" /\ UNCHANGED called     \* failed or skipped: no call
    /\ MakeReport("setup")
    /\ UNCHANGED <<test, artifacts, buffer, market, told, shown, lost>>

CallEnds ==
    /\ phase = "call"
    /\ MakeReport("call")
    /\ phase' = "down"
    /\ UNCHANGED <<test, artifacts, buffer, market, told, called, shown, lost>>

NoStamp == NoTest

\* _artifacts after the yield, if it was entered; then the wider fixtures.
LeaveArtifacts ==
    /\ phase = "down"
    /\ current' = NoStamp
    /\ phase' = "wide down"
    /\ UNCHANGED <<test, saved, traded, report, market, history>>

TeardownEnds ==
    /\ phase = "wide down"
    /\ MakeReport("teardown")
    /\ phase' = "idle"
    /\ UNCHANGED <<test, artifacts, buffer, market, told, called, shown, lost>>

-----------------------------------------------------------------------------
(* What fixtures and tests do meanwhile.                                   *)

Busy == phase \notin {"idle", "down"}

\* step(), stepping(), record(), record_check(), annotate(): one more entry, made
\* when the step ends, whether or not it raises.
Tell ==
    /\ Busy /\ told[test] < MaxTold
    /\ told' = [told EXCEPT ![test] = @ + 1]
    /\ buffer' = Append(buffer, [test |-> test, n |-> told[test] + 1])
    /\ UNCHANGED <<pytest, artifacts, reports, market, window, called, shown, lost>>

\* _write, of the orders that a record is about: stamped with the current test; dropped
\* on an OSError.
Write(type, placed, trade_ids) ==
    \/ /\ saved' = saved \cup {[type |-> type, orders |-> placed, trade_ids |-> trade_ids,
                                stamp |-> current, by |-> test, inCall |-> phase = "call"]}
       /\ UNCHANGED lost
    \/ /\ DiskFails /\ saved' = saved
       /\ lost' = IF type = "trade" THEN lost \cup placed ELSE lost

\* _mint_account
RecordAccount ==
    /\ Busy
    /\ Write("account", {}, {})
    /\ UNCHANGED <<pytest, current, traded, report, market, told, window, called, shown>>

\* create_perp_order, create_spot_order: recorded when the answer has the uuid; an
\* order accepted without an answer that can be read is known to the exchange only.
\* Tests place orders, and module teardowns that flatten what is left.
PlaceOrder(o) ==
    /\ phase \in {"call", "wide down"} /\ o \notin uuid
    /\ uuid' = uuid \cup {o}
    /\ Write("order", {o}, {})
    /\ UNCHANGED <<pytest, current, traded, report, fills, told, window, called, shown>>

\* key in _traded_orders
Saved(o) == o \in traded

\* get_perp_fills_for_order, get_spot_fills_for_order: read, and record_trade.
ReadFills(o) ==
    /\ phase \in {"call", "wide down"} /\ o \in uuid
    /\ shown' = [shown EXCEPT ![o] = fills[o]]
    /\ IF fills[o] = 0 \/ Saved(o)
       THEN UNCHANGED <<traded, saved, lost>>
       ELSE /\ traded' = traded \cup {o}
            /\ Write("trade", {o}, 1..fills[o])
    /\ UNCHANGED <<pytest, current, report, market, told, window, called>>

\* The exchange (external) fills an order bit by bit.
Fill(o) ==
    /\ o \in uuid /\ fills[o] < MaxFills
    /\ fills' = [fills EXCEPT ![o] = @ + 1]
    /\ UNCHANGED <<pytest, artifacts, report, uuid, history>>

RecordsNext ==
    \/ BeginTest \/ EnterArtifacts \/ SetupEnds \/ CallEnds
    \/ LeaveArtifacts \/ TeardownEnds
    \/ Tell \/ RecordAccount
    \/ \E o \in Order : PlaceOrder(o) \/ ReadFills(o) \/ Fill(o)

RecordsSpec == RecordsInit /\ [][RecordsNext]_recordsVars

-----------------------------------------------------------------------------
Entry == [test : Test, n : 1..MaxTold]

RecordsTypeOK ==
    /\ test \in 0..Tests /\ current \in 0..Tests
    /\ test \in Test \/ phase = "idle"
    /\ phase \in {"idle", "wide", "setup", "call", "down", "wide down"}
    /\ buffer \in Seq(Entry)
    /\ reports \in Seq([test : Test, detail : Seq(Entry)])
    /\ traded \subseteq uuid /\ uuid \subseteq Order
    /\ called \subseteq Test /\ lost \subseteq Order
    /\ fills \in [Order -> 0..MaxFills] /\ shown \in [Order -> 0..MaxFills]
    /\ told \in [Test -> 0..MaxTold]
    /\ window \in [Test -> [first : 1..(MaxTold + 1), last : 0..MaxTold]]
    /\ current = test \/ phase \notin {"setup", "call"}
    /\ current = NoTest \/ phase \notin {"idle", "wide", "wide down"}

(***************************************************************************)
(* The report of a test has what was recorded from the reset to the end of *)
(* the call, all of it in order, and nothing of its neighbours -- neither  *)
(* what a wider fixture tore down after the test before, nor what it set   *)
(* up for this one.                                                        *)
(***************************************************************************)
Entries(t, first, last) ==
    [i \in 1..(last - first + 1) |-> [test |-> t, n |-> first + i - 1]]

Between(t) == Entries(t, window[t].first, window[t].last)

DetailIsOwn == \A i \in DOMAIN reports :
    reports[i].detail = Between(reports[i].test)

(***************************************************************************)
(* The tests that are reported are those whose call is over, all of them,  *)
(* each once and in the order of the run (a test whose set-up failed is    *)
(* not: see the README).                                                   *)
(***************************************************************************)
ReportedTests == {reports[i].test : i \in DOMAIN reports}
CalledOver == IF phase = "call" THEN called \ {test} ELSE called

CalledOnceReported ==
    /\ \A i, j \in DOMAIN reports : i < j => reports[i].test < reports[j].test
    /\ ReportedTests = CalledOver

(***************************************************************************)
(* "stamp artifact records with the running test name": a record never     *)
(* carries the name of another test, and carries its own whenever it was   *)
(* made by the test's call.                                                *)
(***************************************************************************)
StampsTrue == \A rec \in saved :
    /\ rec.stamp \in {NoTest, rec.by}
    /\ rec.inCall => rec.stamp = rec.by

(***************************************************************************)
(* "dedupe: once per order (fill readers get polled many times)", also     *)
(* when the polls of one test go on in another's teardown: an order whose  *)
(* trades a reader was shown has exactly one trade record - or none, and   *)
(* none ever, when the write of that one record failed.                    *)
(***************************************************************************)
TradeRecords(o) == {rec \in saved : rec.type = "trade" /\ o \in rec.orders}
TradesSavedOnce == \A o \in Order :
    Cardinality(TradeRecords(o)) = IF shown[o] > 0 /\ o \notin lost THEN 1 ELSE 0

\* The typing (the stamp is that of the running test while it sets up and is
\* called, and nobody's between tests), whom the reports are about, and how often the
\* trades of an order are saved.
RecordsInv == RecordsTypeOK /\ CalledOnceReported /\ TradesSavedOnce

(***************************************************************************)
(* The inductive strengthening, used by OutputProofs: reports are about    *)
(* tests that are over, or whose call is; from the reset to the end of the *)
(* call the buffer is what the test told since; the orders marked as saved *)
(* are those whose trades a reader was shown, and one of them at most is   *)
(* in a trade record.                                                      *)
(***************************************************************************)
ReportsBehind == \A i \in DOMAIN reports :
    /\ reports[i].test <= test
    /\ phase \in {"wide", "setup", "call"} => reports[i].test < test

CalledBehind ==
    /\ \A t \in called : t <= test
    /\ phase \in {"wide", "setup"} => test \notin called
    /\ phase = "call" => test \in called

BufferIsOwn == phase \in {"setup", "call"} =>
    /\ window[test].first <= told[test] + 1
    /\ buffer = Entries(test, window[test].first, told[test])

TradesMarked ==
    /\ \A o \in Order : TradeRecords(o) # {} => o \in traded
    /\ lost \subseteq traded
    /\ \A rec \in saved : rec.type = "trade" => \E o \in Order : rec.orders = {o}

ShownMarked == \A o \in Order :
    shown[o] <= fills[o] /\ (o \in traded <=> shown[o] > 0)

RecordsIInv ==
    /\ RecordsInv /\ DetailIsOwn /\ StampsTrue
    /\ ReportsBehind /\ CalledBehind /\ BufferIsOwn /\ TradesMarked
    /\ ShownMarked

(***************************************************************************)
(* CONVENTIONS.md, section 12: "every order + trade id saved": the trades  *)
(* a fill reader was shown are in the file.                                *)
(***************************************************************************)
EveryTradeSaved == \A o \in Order :
    shown[o] > 0 => \E rec \in TradeRecords(o) : 1..shown[o] \subseteq rec.trade_ids
=============================================================================
