-------------------------------- MODULE TestRun --------------------------------
(***************************************************************************)
(* A run of the tests: Mocha's runner, to which BaseReporter listens       *)
(* (testing-common/); TestCollector, which has the results                 *)
(* (testing-server/); and between the two nothing for the tests of the     *)
(* server (ServerTests, CollectingReporter), or, for those of the client,  *)
(* the console of a browser (EventReporter, ClientTests, EventReceiver).   *)
(***************************************************************************)
EXTENDS Naturals, Sequences, SequencesExt, FiniteSets

CONSTANTS
  MaxTests,    \* bound: tests, which have numbers for titles
  MaxSuites,   \* bound: suites
  MaxLogs      \* bound: lines that tests log

VARIABLES
  where,       \* "server" or "client": where the tests run
  runner,      \* of Mocha: [phase, suites, begun, lines]
  reporter,    \* [capturing, console, suiteDepth]
  wire,        \* what the console of the browser has said and nobody has read
  collector,   \* [suites, resultLines, failLines, stats, done]
  outcome,     \* "none"; of the run: "passed" or "failed"
  happened,    \* every test that ended: [title, status, suites, console]
  logs         \* lines that were logged

vars == <<where, runner, reporter, wire, collector, outcome, happened, logs>>

Statuses == {"fail", "pass", "pending"}
Line(depth, text) == [depth |-> depth, text |-> text]

-----------------------------------------------------------------------------
(* TestCollector                                                           *)

NewCollector ==
  [suites |-> <<>>, resultLines |-> <<>>, failLines |-> <<>>,
   stats |-> [s \in Statuses |-> 0], total |-> 0, done |-> FALSE]

SuiteStart(c, title) ==
  [c EXCEPT !.suites = Append(@, title),
            !.resultLines = Append(@, Line(Len(c.suites), <<"suite", title>>))]

SuiteEnd(c) == [c EXCEPT !.suites = Front(@)]

\* _linesForTest(): what was logged, then the error
LinesForTest(details) ==
  [i \in DOMAIN details.console |-> <<"console", details.console[i]>>]
    \o (IF details.status = "fail" THEN <<<<"trace", details.title>>>> ELSE <<>>)

\* Mutant: only the innermost suite is told with a failure.
TestResultAlone(c, details) ==
  LET depth == Len(c.suites)
      fails == <<Line(depth, <<"fail", details.title>>)>>
  IN [c EXCEPT
       !.stats[details.status] = @ + 1, !.total = @ + 1,
       !.resultLines = @ \o <<Line(depth, <<details.status, details.title>>)>>
         \o [i \in DOMAIN LinesForTest(details) |-> Line(depth, LinesForTest(details)[i])],
       !.failLines = IF details.status = "fail" THEN @ \o fails ELSE @]

TestResult(c, details) ==
  LET depth == Len(c.suites)
      lines == LinesForTest(details)
      fails == [i \in 1..depth |-> Line(i - 1, <<"suite", c.suites[i]>>)]
                 \o <<Line(depth, <<"fail", details.title>>)>>
                 \o [i \in DOMAIN lines |-> Line(1, lines[i])]
  IN [c EXCEPT
       !.stats[details.status] = @ + 1, !.total = @ + 1,
       !.resultLines = @ \o <<Line(depth, <<details.status, details.title>>)>>
         \o [i \in DOMAIN lines |-> Line(depth, lines[i])],
       !.failLines = IF details.status = "fail" THEN @ \o fails ELSE @]

AllDone(c) ==
  [c EXCEPT !.done = TRUE,
            !.resultLines = @ \o c.failLines \o <<Line(0, <<"summary", c.stats, c.total>>)>>]

AnyFailed(c) == c.stats["fail"] # 0

-----------------------------------------------------------------------------
(* From the reporter to the collector.  An event is <<name>> or <<name,     *)
(* argument>>; consoleLine() of the receiver calls the same functions as    *)
(* the CollectingReporter.                                                  *)

Handle(c, event) ==
  CASE event[1] = "allDone" -> AllDone(c)
    [] event[1] = "suiteStart" -> SuiteStart(c, event[2])
    [] event[1] = "suiteEnd" -> SuiteEnd(c)
    [] event[1] = "testResult" -> TestResult(c, event[2])

\* EventReporter._emit(), or CollectingReporter._impl_...()
Emit(events) ==
  IF where = "client" THEN wire' = wire \o events /\ UNCHANGED collector
  ELSE collector' = FoldLeft(Handle, collector, events) /\ UNCHANGED wire

\* Mutant: no lock makes the messages wait for each other.
HandleConsoleAny ==
  \E i \in DOMAIN wire :
    /\ outcome = "none"
    /\ wire' = RemoveAt(wire, i)
    /\ collector' = IF wire[i][1] = "line" THEN collector ELSE Handle(collector, wire[i])
    /\ UNCHANGED <<where, runner, reporter, outcome, happened, logs>>

\* handleConsole() of ClientTests, under the lock that keeps the messages in
\* order; what is no event (EventReceiver.consoleLine()) is a line of its own.
HandleConsole ==
  /\ outcome = "none" /\ wire # <<>>
  /\ wire' = Tail(wire)
  /\ collector' = IF Head(wire)[1] = "line" THEN collector ELSE Handle(collector, Head(wire))
  /\ UNCHANGED <<where, runner, reporter, outcome, happened, logs>>

-----------------------------------------------------------------------------
(* Mocha's runner, and BaseReporter with it                                *)

Init ==
  /\ where \in {"server", "client"}
  /\ runner = [phase |-> "between", suites |-> <<>>, begun |-> {}, lines |-> 0]
  /\ reporter = [capturing |-> FALSE, console |-> <<>>, suiteDepth |-> 1]  \* in the root suite
  /\ wire = <<>> /\ collector = NewCollector
  /\ outcome = "none" /\ happened = <<>> /\ logs = 0

MoreTests == Len(happened) < MaxTests

\* 'suite': the root suite, which has no title, is not told.
BeginSuite ==
  /\ runner.phase = "between" /\ Cardinality(runner.begun) < MaxSuites
  /\ LET title == <<"suite", Cardinality(runner.begun)>>
     IN /\ runner' = [runner EXCEPT !.suites = Append(@, title), !.begun = @ \cup {title}]
        /\ Emit(<<<<"suiteStart", title>>>>)
  /\ reporter' = [reporter EXCEPT !.suiteDepth = @ + 1]
  /\ UNCHANGED <<where, outcome, happened, logs>>

\* 'suite end'
EndSuite ==
  /\ runner.phase = "between" /\ runner.suites # <<>>
  /\ runner' = [runner EXCEPT !.suites = Front(@)]
  /\ reporter' = [reporter EXCEPT !.suiteDepth = @ - 1]
  /\ Emit(IF reporter.suiteDepth - 1 # 0 THEN <<<<"suiteEnd">>>> ELSE <<>>)
  /\ UNCHANGED <<where, outcome, happened, logs>>

\* Mutant: the console of the test before stays.
TestKeeping ==
  /\ runner.phase = "between" /\ MoreTests
  /\ runner' = [runner EXCEPT !.phase = "testing"]
  /\ reporter' = [reporter EXCEPT !.capturing = TRUE]
  /\ UNCHANGED <<where, wire, collector, outcome, happened, logs>>

\* 'test'
Test ==
  /\ runner.phase = "between" /\ MoreTests
  /\ runner' = [runner EXCEPT !.phase = "testing"]
  /\ reporter' = [reporter EXCEPT !.capturing = TRUE, !.console = <<>>]
  /\ UNCHANGED <<where, wire, collector, outcome, happened, logs>>

\* console.log(), by a test or by what a test left behind: _log(), or the
\* original.
Log ==
  /\ runner.phase # "done" /\ logs < MaxLogs
  /\ logs' = logs + 1
  /\ reporter' = IF reporter.capturing THEN [reporter EXCEPT !.console = Append(@, logs)]
                 ELSE reporter
  /\ Emit(IF where = "client" THEN <<<<"line", logs>>>> ELSE <<>>)
  /\ runner' = IF runner.phase = "testing" THEN [runner EXCEPT !.lines = @ + 1] ELSE runner
  /\ UNCHANGED <<where, outcome, happened>>

\* _testResult(), and 'test end'
Report(status) ==
  LET title == Len(happened) + 1
      details == [title |-> title, status |-> status, console |-> reporter.console]
  IN /\ reporter' = [reporter EXCEPT !.capturing = FALSE]
     /\ Emit(<<<<"testResult", details>>>>)
     /\ happened' = Append(happened, [title |-> title, status |-> status,
                                      suites |-> runner.suites, console |-> reporter.console])

\* 'pass' or 'fail' of a test that ran
Finish(status) ==
  /\ runner.phase = "testing" /\ status \in {"pass", "fail"} /\ MoreTests
  /\ Report(status)
  /\ runner' = [runner EXCEPT !.phase = "between", !.lines = 0]
  /\ UNCHANGED <<where, outcome, logs>>

\* 'pending' without a 'test', or 'fail' of a hook: neither ran as a test.
Skip(status) ==
  /\ runner.phase = "between" /\ status \in {"pending", "fail"} /\ MoreTests
  /\ Report(status)
  /\ UNCHANGED <<where, runner, outcome, logs>>

\* The runner has ended: done() of the reporter.  ServerTests.run() returns
\* what Mocha counted.
End ==
  /\ runner.phase = "between" /\ runner.suites = <<>>
  /\ runner' = [runner EXCEPT !.phase = "done"]
  /\ Emit(<<<<"allDone">>>>)
  /\ outcome' = IF where = "client" THEN outcome
                ELSE IF \E h \in ToSet(happened) : h.status = "fail" THEN "failed" ELSE "passed"
  /\ UNCHANGED <<where, reporter, happened, logs>>

\* The loop of ClientTests.run() looks now and then; after a minute it gives up.
Poll ==
  /\ where = "client" /\ outcome = "none" /\ collector.done
  /\ outcome' = IF AnyFailed(collector) THEN "failed" ELSE "passed"
  /\ UNCHANGED <<where, runner, reporter, wire, collector, happened, logs>>

GiveUp ==
  /\ where = "client" /\ outcome = "none" /\ ~ collector.done
  /\ outcome' = "failed"
  /\ UNCHANGED <<where, runner, reporter, wire, collector, happened, logs>>

Next ==
  /\ where = "client" => outcome = "none"
  /\ \/ HandleConsole \/ BeginSuite \/ EndSuite \/ Test \/ Log \/ End \/ Poll \/ GiveUp
     \/ \E status \in Statuses : Finish(status) \/ Skip(status)

-----------------------------------------------------------------------------
(* Properties *)

\* The collector's report of what has happened so far
ReportOf(results) ==
  LET Fails(h) ==
        IF h.status # "fail" THEN <<>>
        ELSE [i \in DOMAIN h.suites |-> Line(i - 1, <<"suite", h.suites[i]>>)]
               \o <<Line(Len(h.suites), <<"fail", h.title>>)>>
               \o [i \in DOMAIN LinesForTest(h) |-> Line(1, LinesForTest(h)[i])]
  IN FoldLeft(LAMBDA lines, h : lines \o Fails(h), <<>>, results)

\* What the collector tells is what has happened, in order: each failure in its
\* suites, the counts as they are, and with each test that ran what was logged
\* while it ran; the run has failed if a test has, and passed only if the
\* report is whole.
ReportIsTrue ==
  LET shown == SelectSeq(collector.resultLines, LAMBDA l : l.text[1] \in Statuses)
      known == SubSeq(happened, 1, collector.total)
  IN /\ collector.total <= Len(happened)
     /\ \A s \in Statuses :
          collector.stats[s] = Cardinality({i \in DOMAIN known : known[i].status = s})
     /\ collector.failLines = ReportOf(known)
     /\ \A i \in DOMAIN known :
          shown[i] = Line(Len(known[i].suites), <<known[i].status, known[i].title>>)
     /\ collector.done => known = happened
     /\ outcome = "passed" => collector.done
     /\ collector.done /\ outcome # "none" =>
          (outcome = "failed") = (\E h \in ToSet(happened) : h.status = "fail")

\* With a test goes what was logged while it ran, and nothing else.
ConsoleIsOwn == runner.phase = "testing" => Len(reporter.console) = runner.lines
=============================================================================
