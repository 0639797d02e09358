---------------------------- MODULE MachineProofs ----------------------------
(***************************************************************************)
(* Proofs about ServerProcess, for any number of starts of the program, of *)
(* connections and of errors; and about the smaller machines: Connection,  *)
(* for any number of calls, authors, sessions and tokens; CallPiler, for   *)
(* any number of callers and runs; TrafficSignal, for any load and any     *)
(* steps of time; DevMode, for any files in any number of directories.     *)
(***************************************************************************)
EXTENDS ServerProcess, Inductions, FiniteSetTheorems, TLAPS


-----------------------------------------------------------------------------
(* The inductive invariant                                                 *)

Promises == {"serverClosed", "allClosed"}

ProcStates ==
  [phase   : {"off", "built", "checking", "booting", "up", "dead"},
   info    : Counts,
   asked   : BOOLEAN,
   exiting : BOOLEAN,
   words   : Nat,
   waits   : SUBSET Promises,
   race    : SUBSET Promises,
   ending  : {"no", "begun", "pausing", "racing"},
   drain   : {"no", "looking", "closing", "done"},
   conns   : SUBSET Socks,
   end     : {"none", "clean", "late", "error", "crash"}]

SockStates ==
  [owner : Procs \cup {Nobody},
   state : {"none", "ws", "wsClosing", "post", "flushing", "idle"}]

TypeOK ==
  /\ shutdownFile \in BOOLEAN /\ stoppedFile \in BOOLEAN /\ overlap \in BOOLEAN
  /\ pidFile \in Procs \cup {Nobody} /\ port \in Procs \cup {Nobody}
  /\ bootFile \in Counts
  /\ proc \in [Procs -> ProcStates]
  /\ sock \in [Socks -> SockStates]

\* The port is held by whoever is up and has not begun to stop.
PortIsUp == \A p \in Procs : port = p <=> proc[p].phase = "up" /\ proc[p].drain = "no"

\* Connections are those of a server that is up.
SocksAreUp ==
  \A s \in Socks :
    /\ sock[s].owner = Nobody <=> sock[s].state = "none"
    /\ \A p \in Procs : sock[s].owner = p => proc[p].phase = "up"

\* A shutdown begins when it is asked for; nothing has been asked of, or has
\* begun in, a process that does not watch; only a race has runners.
EndingsSuit ==
  \A p \in Procs :
    /\ proc[p].asked <=> proc[p].ending # "no"
    /\ proc[p].phase \notin {"checking", "booting", "up"} => ~ proc[p].asked
    /\ proc[p].phase # "up" => proc[p].drain = "no"
    /\ proc[p].ending # "racing" => proc[p].race = {}
    /\ proc[p].phase \in {"off", "dead"} => ~ proc[p].exiting

\* From the moment a server stops to listen, its shutdown waits, or is going
\* to wait, for as long as there is a connection.
SocksAwaited ==
  \A p \in Procs : proc[p].phase = "up" /\ proc[p].drain # "no" =>
    "serverClosed" \in proc[p].waits \cup proc[p].race \/ SocksOf(p) = {}

Started == {p \in Procs : proc[p].phase # "off"}
Ended(n) == {p \in Procs : proc[p].words = n}

\* What the control files say of the one process that runs.
FilesSuit ==
  ~ overlap =>
    /\ \A p, q \in Procs : Live(p) /\ Live(q) => p = q
    /\ \A p \in Procs : HasPid(p) => pidFile = p
    /\ \A p \in Procs : stoppedFile => ~ Watches(p)
    /\ \A p \in Procs : Live(p) => proc[p].info = bootFile

\* What boot-info.txt has counted.
Books ==
  /\ IsFiniteSet(Started)
  /\ \A p \in Procs : proc[p].phase = "off" => proc[p].words = 0
  /\ ~ overlap =>
       /\ bootFile.boots = Cardinality(Started)
       /\ (\A p \in Procs : proc[p].words < 2) =>
            bootFile.clean + bootFile.errors = Cardinality(Ended(1))

IInv ==
  /\ TypeOK /\ PortIsUp /\ SocksAreUp /\ EndingsSuit /\ SocksAwaited
  /\ FilesSuit /\ Books

-----------------------------------------------------------------------------
(* What the actions do to the record of a process                          *)

\* p's record becomes r; nobody else's changes.
Becomes(p, r) == proc' = [proc EXCEPT ![p] = r]

LEMMA BecomesMeans ==
  ASSUME TypeOK, NEW p \in Procs, NEW r \in ProcStates, Becomes(p, r)
  PROVE  /\ proc' \in [Procs -> ProcStates]
         /\ proc'[p] = r
         /\ \A q \in Procs : q # p => proc'[q] = proc[q]
BY DEF Becomes, TypeOK

Failed(r, info, words) == [r EXCEPT !.info = info, !.exiting = TRUE, !.words = words]

LEMMA RecordErrorMeans ==
  ASSUME NEW info \in Counts
  PROVE  /\ RecordError(info) \in Counts
         /\ RecordError(info).boots = info.boots
         /\ RecordError(info).clean = info.clean
         /\ RecordError(info).errors = info.errors + 1
BY DEF RecordError, Counts

LEMMA FailingIsFailed ==
  ASSUME NEW rec \in ProcStates
  PROVE  /\ Failing(rec) = Failed(rec, RecordError(rec.info), rec.words + 1)
         /\ rec.info \in Counts /\ rec.words + 1 \in Nat
BY DEF Failing, Failed, ProcStates

LEMMA LoopHeadMeans ==
  ASSUME NEW r \in ProcStates, r.race = {}
  PROVE  /\ LoopHead(r) \in ProcStates
         /\ LoopHead(r).ending \in {"pausing", "racing"}
         /\ LoopHead(r).ending # "racing" => LoopHead(r).race = {}
         /\ LoopHead(r).waits \cup LoopHead(r).race = r.waits
         /\ LoopHead(r).phase = r.phase /\ LoopHead(r).asked = r.asked
         /\ LoopHead(r).info = r.info /\ LoopHead(r).words = r.words
         /\ LoopHead(r).drain = r.drain /\ LoopHead(r).exiting = r.exiting
         /\ LoopHead(r).end = r.end
<1>1. CASE r.waits = {}
  BY <1>1 DEF LoopHead, ProcStates
<1>2. CASE r.waits # {}
  BY <1>2 DEF LoopHead, ProcStates
<1> QED
  BY <1>1, <1>2

\* The record of a process that has ended.
Dead(how, words) ==
  [NotStarted EXCEPT !.phase = "dead", !.end = how, !.words = words]

LEMMA DeadMeans ==
  ASSUME NEW how \in {"none", "clean", "late", "error", "crash"}, NEW words \in Nat
  PROVE  /\ Dead(how, words) \in ProcStates
         /\ Dead(how, words).phase = "dead" /\ Dead(how, words).words = words
         /\ ~ Dead(how, words).asked /\ ~ Dead(how, words).exiting
         /\ Dead(how, words).ending = "no" /\ Dead(how, words).drain = "no"
         /\ Dead(how, words).race = {} /\ Dead(how, words).end = how
BY DEF Dead, NotStarted, ProcStates, Counts
-----------------------------------------------------------------------------
(* Steps that the control files have nothing to say about                  *)

\* Nobody's phase, counts or words change.
Quiet ==
  /\ \A p \in Procs :
       /\ proc'[p].phase = proc[p].phase
       /\ proc'[p].info = proc[p].info /\ proc'[p].words = proc[p].words
  /\ UNCHANGED <<stoppedFile, pidFile, bootFile, overlap>>

LEMMA QuietFiles ==
  ASSUME FilesSuit, Quiet
  PROVE  FilesSuit'
BY DEF FilesSuit, Quiet, Live, HasPid, Watches

\* Nobody starts, and nobody says that it ends.
Wordless ==
  /\ \A p \in Procs :
       /\ proc'[p].phase = "off" <=> proc[p].phase = "off"
       /\ proc'[p].words = proc[p].words
  /\ UNCHANGED <<bootFile, overlap>>

LEMMA WordlessBooks ==
  ASSUME Books, Wordless
  PROVE  Books'
<1>1. Started' = Started
  BY DEF Wordless, Started
<1>2. Ended(1)' = Ended(1)
  BY DEF Wordless, Ended
<1> QED
  BY <1>1, <1>2 DEF Wordless, Books

\* p, which runs, says that it ends, by an error or otherwise.
Speaks(p) ==
  /\ \A q \in Procs : proc'[q].phase = "off" <=> proc[q].phase = "off"
  /\ \A q \in Procs : q # p => proc'[q].words = proc[q].words
  /\ proc'[p].words = proc[p].words + 1
  /\ bootFile'.boots = proc[p].info.boots
  /\ bootFile'.clean + bootFile'.errors = proc[p].info.clean + proc[p].info.errors + 1
  /\ overlap' = overlap

LEMMA SpeaksBooks ==
  ASSUME TypeOK, FilesSuit, Books, NEW p \in Procs, Live(p), Speaks(p)
  PROVE  Books'
<1>1. Started' = Started
  BY DEF Speaks, Started
<1>2. \A q \in Procs : proc'[q].phase = "off" => proc'[q].words = 0
  BY DEF Speaks, Books, Live
<1>3. ASSUME ~ overlap', \A q \in Procs : proc'[q].words < 2
      PROVE  bootFile'.clean + bootFile'.errors = Cardinality(Ended(1)')
  <2>1. ~ overlap /\ proc[p].info = bootFile
    BY <1>3 DEF Speaks, FilesSuit
  <2>2. \A q \in Procs : proc[q].words \in Nat
    BY DEF TypeOK, ProcStates
  <2>3. proc[p].words = 0 /\ proc'[p].words = 1
    BY <1>3, <2>2 DEF Speaks
  <2>4. \A q \in Procs : proc[q].words < 2
    BY <1>3, <2>3 DEF Speaks
  <2>5. bootFile.clean + bootFile.errors = Cardinality(Ended(1))
    BY <2>1, <2>4 DEF Books
  <2>6. Ended(1)' = Ended(1) \cup {p} /\ p \notin Ended(1)
    BY <2>3 DEF Ended, Speaks
  <2>7. Ended(1) \subseteq Started
    BY DEF Ended, Started, Books
  <2>8. IsFiniteSet(Ended(1))
    BY <2>7, FS_Subset DEF Books
  <2>9. Cardinality(Ended(1)') = Cardinality(Ended(1)) + 1
    BY <2>6, <2>8, FS_AddElement
  <2> QED
    BY <2>1, <2>5, <2>9 DEF Speaks
<1>4. ~ overlap' => bootFile'.boots = Cardinality(Started')
  BY <1>1 DEF Speaks, Books, FilesSuit
<1>5. IsFiniteSet(Started')
  BY <1>1 DEF Books
<1> QED
  BY <1>2, <1>3, <1>4, <1>5 DEF Books

-----------------------------------------------------------------------------
(* Starting                                                                *)

LEMMA BootKeeps ==
  ASSUME IInv, NEW p \in Procs, Boot(p)
  PROVE  IInv'
<1> DEFINE info == [bootFile EXCEPT !.boots = bootFile.boots + 1]
           r == [proc[p] EXCEPT !.phase = "built", !.info = info]
<1> USE DEF IInv
<1>1. /\ info \in Counts /\ info.boots = bootFile.boots + 1
      /\ info.clean = bootFile.clean /\ info.errors = bootFile.errors
  BY DEF TypeOK, Counts
<1>2. proc[p] \in ProcStates /\ proc[p].phase = "off"
  BY DEF Boot, TypeOK
<1>3. Becomes(p, r) /\ bootFile' = info
  BY <1>2 DEF Boot, Becomes, TypeOK, ProcStates
<1> HIDE DEF info
<1>4. /\ r \in ProcStates /\ r.phase = "built" /\ r.info = info
      /\ r.asked = proc[p].asked /\ r.words = proc[p].words
      /\ r.waits = proc[p].waits /\ r.race = proc[p].race
      /\ r.drain = proc[p].drain /\ r.ending = proc[p].ending
      /\ r.exiting = proc[p].exiting /\ r.end = proc[p].end
  BY <1>1, <1>2 DEF ProcStates
<1> HIDE DEF r
<1>5. /\ proc' \in [Procs -> ProcStates] /\ proc'[p] = r
      /\ \A q \in Procs : q # p => proc'[q] = proc[q]
  BY <1>3, <1>4, BecomesMeans
<1>6. overlap' = (overlap \/ \E q \in Procs : Live(q))
      /\ UNCHANGED <<shutdownFile, stoppedFile, pidFile, port, sock>>
  BY DEF Boot
<1>7. TypeOK'
  BY <1>1, <1>3, <1>5, <1>6 DEF TypeOK
<1>8. PortIsUp' /\ SocksAreUp' /\ EndingsSuit'
  BY <1>2, <1>4, <1>5, <1>6 DEF PortIsUp, SocksAreUp, EndingsSuit
<1>9. SocksAwaited'
  BY <1>2, <1>4, <1>5, <1>6 DEF SocksAwaited, SocksOf
<1>10. FilesSuit'
  <2> SUFFICES ASSUME ~ overlap' PROVE FilesSuit'
    BY DEF FilesSuit
  <2>1. ~ overlap /\ \A q \in Procs : ~ Live(q)
    BY <1>6
  <2>2. \A q \in Procs : q # p => ~ Live(q)'
    BY <2>1, <1>5 DEF Live
  <2>3. \A q \in Procs : ~ HasPid(q)' /\ ~ Watches(q)'
    BY <2>1, <1>4, <1>5 DEF Live, HasPid, Watches
  <2> QED
    BY <2>2, <2>3, <1>3, <1>4, <1>5 DEF FilesSuit
<1>11. Books'
  <2>1. Started' = Started \cup {p} /\ p \notin Started
    BY <1>2, <1>4, <1>5 DEF Started
  <2>2. IsFiniteSet(Started') /\ Cardinality(Started') = Cardinality(Started) + 1
    BY <2>1, FS_AddElement DEF Books
  <2>3. \A q \in Procs : proc'[q].words = proc[q].words
    BY <1>4, <1>5
  <2>4. Ended(1)' = Ended(1)
    BY <2>3 DEF Ended
  <2>5. ~ overlap' => ~ overlap
    BY <1>6
  <2>6. \A q \in Procs : proc'[q].phase = "off" => proc[q].phase = "off"
    BY <1>4, <1>5
  <2> QED
    BY <2>2, <2>3, <2>4, <2>5, <2>6, <1>1, <1>3 DEF Books
<1> QED
  BY <1>7, <1>8, <1>9, <1>10, <1>11

\* A process that goes on to its next phase.
LEMMA NextPhaseKeeps ==
  ASSUME IInv, NEW p \in Procs, NEW to \in {"checking", "booting", "up"},
         proc[p].phase \in {"built", "checking", "booting"},
         proc' = [proc EXCEPT ![p].phase = to],
         IF to = "up" THEN port = Nobody /\ port' = p ELSE port' = port,
         CASE to = "checking" -> pidFile' = pidFile
           [] to = "booting" -> pidFile' = p
           [] to = "up" -> proc[p].phase = "booting" /\ pidFile' = pidFile,
         proc[p].phase = "built" => ~ stoppedFile,
         UNCHANGED <<shutdownFile, stoppedFile, bootFile, sock, overlap>>
  PROVE  IInv'
<1> DEFINE r == [proc[p] EXCEPT !.phase = to]
<1> USE DEF IInv
<1>1. proc[p] \in ProcStates
  BY DEF TypeOK
<1>2. Becomes(p, r)
  BY <1>1 DEF Becomes, TypeOK, ProcStates
<1>3. /\ r \in ProcStates /\ r.phase = to
      /\ r.asked = proc[p].asked /\ r.words = proc[p].words
      /\ r.waits = proc[p].waits /\ r.race = proc[p].race
      /\ r.drain = proc[p].drain /\ r.ending = proc[p].ending
      /\ r.exiting = proc[p].exiting /\ r.info = proc[p].info
  BY <1>1 DEF ProcStates
<1> HIDE DEF r
<1>4. /\ proc' \in [Procs -> ProcStates] /\ proc'[p] = r
      /\ \A q \in Procs : q # p => proc'[q] = proc[q]
  BY <1>2, <1>3, BecomesMeans
<1>5. proc[p].drain = "no" /\ port # p
  BY DEF EndingsSuit, PortIsUp
<1>6. TypeOK'
  BY <1>4 DEF TypeOK
<1>7. PortIsUp'
  BY <1>3, <1>4, <1>5, ProcessAssumption DEF PortIsUp
<1>8. SocksAreUp'
  BY <1>3, <1>4 DEF SocksAreUp
<1>9. EndingsSuit'
  BY <1>3, <1>4, <1>5 DEF EndingsSuit
<1>10. SocksAwaited'
  BY <1>3, <1>4, <1>5 DEF SocksAwaited, SocksOf
<1>11. FilesSuit'
  <2> SUFFICES ASSUME ~ overlap PROVE FilesSuit'
    BY DEF FilesSuit
  <2>1. Live(p) /\ \A q \in Procs : q # p => ~ Live(q) /\ ~ HasPid(q) /\ ~ Watches(q)
    BY DEF FilesSuit, Live, HasPid, Watches
  <2>2. \A q \in Procs : q # p => ~ Live(q)' /\ ~ HasPid(q)' /\ ~ Watches(q)'
    BY <2>1, <1>4 DEF Live, HasPid, Watches
  <2>3. HasPid(p)' => pidFile' = p
    BY <1>3, <1>4 DEF FilesSuit, HasPid
  <2>4. stoppedFile => ~ Watches(p)'
    BY DEF FilesSuit, Watches
  <2>5. proc'[p].info = bootFile'
    BY <2>1, <1>3, <1>4 DEF FilesSuit
  <2> QED
    BY <2>2, <2>3, <2>4, <2>5 DEF FilesSuit
<1>12. Books'
  <2>1. Wordless
    BY <1>3, <1>4 DEF Wordless
  <2> QED
    BY <2>1, WordlessBooks
<1> QED
  BY <1>6, <1>7, <1>8, <1>9, <1>10, <1>11, <1>12

\* A process that fails, which may leave a `stopped` file when it has not
\* begun to watch.
LEMMA FailKeeps ==
  ASSUME IInv, NEW p \in Procs, Live(p), Fail(p),
         stoppedFile' \in BOOLEAN, stoppedFile' => stoppedFile \/ ~ Watches(p),
         UNCHANGED <<shutdownFile, pidFile, port, sock, overlap>>
  PROVE  IInv'
<1> DEFINE r == Failing(proc[p])
<1> USE DEF IInv
<1>1. proc[p] \in ProcStates /\ proc[p].info \in Counts
  BY DEF TypeOK, ProcStates
<1>2. Becomes(p, r) /\ bootFile' = RecordError(proc[p].info)
  BY DEF Becomes, Fail, TypeOK
<1>3. /\ r \in ProcStates /\ r.words = proc[p].words + 1
      /\ r.info = RecordError(proc[p].info)
      /\ r.phase = proc[p].phase /\ r.asked = proc[p].asked
      /\ r.waits = proc[p].waits /\ r.race = proc[p].race
      /\ r.drain = proc[p].drain /\ r.ending = proc[p].ending
  <2> DEFINE i == RecordError(proc[p].info)
             w == proc[p].words + 1
  <2>1. r = Failed(proc[p], i, w) /\ i \in Counts /\ w \in Nat
    BY <1>1, FailingIsFailed, RecordErrorMeans
  <2> HIDE DEF r, i, w
  <2>2. /\ r \in ProcStates /\ r.words = w /\ r.info = i
        /\ r.phase = proc[p].phase /\ r.asked = proc[p].asked
        /\ r.waits = proc[p].waits /\ r.race = proc[p].race
        /\ r.drain = proc[p].drain /\ r.ending = proc[p].ending
    BY <1>1, <2>1 DEF Failed, ProcStates
  <2> QED
    BY <2>2 DEF i, w
<1> HIDE DEF r
<1>4. /\ proc' \in [Procs -> ProcStates] /\ proc'[p] = r
      /\ \A q \in Procs : q # p => proc'[q] = proc[q]
  BY <1>2, <1>3, BecomesMeans
<1>5. /\ bootFile' \in Counts /\ bootFile'.boots = proc[p].info.boots
      /\ bootFile'.clean = proc[p].info.clean
      /\ bootFile'.errors = proc[p].info.errors + 1
  BY <1>1, <1>2, RecordErrorMeans
<1>6. TypeOK'
  BY <1>4, <1>5 DEF TypeOK
<1>7. PortIsUp' /\ SocksAreUp'
  BY <1>3, <1>4 DEF PortIsUp, SocksAreUp
<1>8. EndingsSuit'
  BY <1>3, <1>4 DEF EndingsSuit, Live
<1>9. SocksAwaited'
  BY <1>3, <1>4 DEF SocksAwaited, SocksOf
<1>10. FilesSuit'
  <2> SUFFICES ASSUME ~ overlap PROVE FilesSuit'
    BY DEF FilesSuit
  <2>1. \A q \in Procs : q # p => ~ Live(q) /\ ~ Watches(q)
    BY DEF FilesSuit, Live, Watches
  <2>2. \A q \in Procs : /\ Live(q)' = Live(q) /\ HasPid(q)' = HasPid(q)
                         /\ Watches(q)' = Watches(q)
    BY <1>3, <1>4 DEF Live, HasPid, Watches
  <2>3. proc'[p].info = bootFile'
    BY <1>2, <1>3, <1>4
  <2> QED
    BY <2>1, <2>2, <2>3 DEF FilesSuit
<1>11. Books'
  <2>1. Speaks(p)
    BY <1>1, <1>3, <1>4, <1>5 DEF Speaks, Counts
  <2> QED
    BY <2>1, SpeaksBooks
<1> QED
  BY <1>6, <1>7, <1>8, <1>9, <1>10, <1>11

LEMMA InitEnvKeeps ==
  ASSUME IInv, NEW p \in Procs, InitEnv(p)
  PROVE  IInv'
<1>1. CASE stoppedFile \/ shutdownFile
  BY <1>1, FailKeeps DEF InitEnv, Live, Watches
<1>2. CASE ~ (stoppedFile \/ shutdownFile) /\ pidFile # Nobody /\ Live(pidFile)
  BY <1>2, NextPhaseKeeps DEF InitEnv
<1>3. CASE ~ (stoppedFile \/ shutdownFile) /\ ~ (pidFile # Nobody /\ Live(pidFile))
  BY <1>3, NextPhaseKeeps DEF InitEnv
<1> QED
  BY <1>1, <1>2, <1>3

LEMMA CheckedKeeps ==
  ASSUME IInv, NEW p \in Procs, Checked(p)
  PROVE  IInv'
<1>1. CASE Fail(p) /\ UNCHANGED pidFile
  BY <1>1, FailKeeps DEF Checked, Live, IInv, TypeOK
<1>2. CASE /\ proc' = [proc EXCEPT ![p].phase = "booting"]
           /\ pidFile' = p
           /\ UNCHANGED bootFile
  BY <1>2, NextPhaseKeeps DEF Checked
<1> QED
  BY <1>1, <1>2 DEF Checked

LEMMA ListenKeeps ==
  ASSUME IInv, NEW p \in Procs, Listen(p)
  PROVE  IInv'
<1>1. CASE port = Nobody
  BY <1>1, NextPhaseKeeps DEF Listen
<1>2. CASE port # Nobody
  BY <1>2, FailKeeps DEF Listen, Live, IInv, TypeOK
<1> QED
  BY <1>1, <1>2

LEMMA UncaughtKeeps ==
  ASSUME IInv, NEW p \in Procs, Uncaught(p)
  PROVE  IInv'
BY FailKeeps DEF Uncaught, IInv, TypeOK

-----------------------------------------------------------------------------
(* Stopping                                                                *)

\* A step in which only p's record changes, and in it nothing that the
\* control files are about.
Turns(p, r) ==
  /\ Becomes(p, r)
  /\ r.phase = proc[p].phase /\ r.info = proc[p].info /\ r.words = proc[p].words
  /\ r.exiting = proc[p].exiting
  /\ UNCHANGED <<files, overlap>>

LEMMA TurnsMeans ==
  ASSUME IInv, NEW p \in Procs, NEW r \in ProcStates, Turns(p, r)
  PROVE  /\ proc' \in [Procs -> ProcStates] /\ proc'[p] = r
         /\ \A q \in Procs : q # p => proc'[q] = proc[q]
         /\ \A q \in Procs : proc'[q].phase = proc[q].phase
         /\ FilesSuit' /\ Books'
         /\ UNCHANGED <<shutdownFile, stoppedFile, pidFile, bootFile, overlap>>
<1>1. /\ proc' \in [Procs -> ProcStates] /\ proc'[p] = r
      /\ \A q \in Procs : q # p => proc'[q] = proc[q]
  BY BecomesMeans DEF Turns, IInv
<1>2. UNCHANGED <<shutdownFile, stoppedFile, pidFile, bootFile, overlap>>
  BY DEF Turns, files
<1>3. Quiet /\ Wordless
  BY <1>1, <1>2 DEF Quiet, Wordless, Turns
<1>4. FilesSuit' /\ Books'
  BY <1>3, QuietFiles, WordlessBooks DEF IInv
<1>5. \A q \in Procs : proc'[q].phase = proc[q].phase
  BY <1>3 DEF Quiet
<1> QED
  BY <1>1, <1>2, <1>4, <1>5

LEMMA CheckForShutdownRequestKeeps ==
  ASSUME IInv, NEW p \in Procs, CheckForShutdownRequest(p)
  PROVE  IInv'
<1> DEFINE r == [proc[p] EXCEPT !.asked = TRUE, !.ending = "begun"]
<1> USE DEF IInv
<1>1. proc[p] \in ProcStates
  BY DEF TypeOK
<1>2. /\ r \in ProcStates /\ r.asked = TRUE /\ r.ending = "begun"
      /\ r.phase = proc[p].phase /\ r.info = proc[p].info
      /\ r.words = proc[p].words /\ r.exiting = proc[p].exiting
      /\ r.waits = proc[p].waits /\ r.race = proc[p].race
      /\ r.drain = proc[p].drain
  BY <1>1 DEF ProcStates
<1>3. Turns(p, r)
  BY <1>1, <1>2 DEF CheckForShutdownRequest, Turns, Becomes, TypeOK, ProcStates
<1> HIDE DEF r
<1>4. /\ proc' \in [Procs -> ProcStates] /\ proc'[p] = r
      /\ \A q \in Procs : q # p => proc'[q] = proc[q]
      /\ FilesSuit' /\ Books'
      /\ UNCHANGED <<shutdownFile, stoppedFile, pidFile, bootFile, overlap>>
  BY <1>2, <1>3, TurnsMeans
<1>5. UNCHANGED <<port, sock>> /\ Watches(p) /\ ~ proc[p].asked
  BY DEF CheckForShutdownRequest
<1>6. TypeOK'
  BY <1>4, <1>5 DEF TypeOK
<1>7. PortIsUp' /\ SocksAreUp'
  BY <1>2, <1>4, <1>5 DEF PortIsUp, SocksAreUp
<1>8. EndingsSuit'
  BY <1>2, <1>4, <1>5 DEF EndingsSuit, Watches
<1>9. SocksAwaited'
  BY <1>2, <1>4, <1>5 DEF SocksAwaited, SocksOf
<1> QED
  BY <1>4, <1>6, <1>7, <1>8, <1>9

LEMMA HandleSystemShutdownKeeps ==
  ASSUME IInv, NEW p \in Procs, HandleSystemShutdown(p)
  PROVE  IInv'
<1> DEFINE r == [proc[p] EXCEPT !.drain = "looking",
                                !.waits = proc[p].waits \cup {"serverClosed", "allClosed"}]
<1> USE DEF IInv
<1>1. proc[p] \in ProcStates
  BY DEF TypeOK
<1>2. /\ r \in ProcStates /\ r.asked = proc[p].asked /\ r.ending = proc[p].ending
      /\ r.phase = proc[p].phase /\ r.info = proc[p].info
      /\ r.words = proc[p].words /\ r.exiting = proc[p].exiting
      /\ "serverClosed" \in r.waits /\ r.race = proc[p].race
      /\ r.drain = "looking"
  BY <1>1 DEF ProcStates, Promises
<1>3. Turns(p, r)
  BY <1>1, <1>2 DEF HandleSystemShutdown, Turns, Becomes, TypeOK, ProcStates
<1> HIDE DEF r
<1>4. /\ proc' \in [Procs -> ProcStates] /\ proc'[p] = r
      /\ \A q \in Procs : q # p => proc'[q] = proc[q]
      /\ FilesSuit' /\ Books'
      /\ UNCHANGED <<shutdownFile, stoppedFile, pidFile, bootFile, overlap>>
  BY <1>2, <1>3, TurnsMeans
<1>5. port' = Nobody /\ sock' = sock /\ proc[p].phase = "up" /\ proc[p].drain = "no"
  BY DEF HandleSystemShutdown
<1>6. port = p
  BY <1>5 DEF PortIsUp
<1>7. TypeOK'
  BY <1>4, <1>5 DEF TypeOK
<1>8. PortIsUp'
  BY <1>2, <1>4, <1>5, <1>6, ProcessAssumption DEF PortIsUp
<1>9. SocksAreUp' /\ EndingsSuit'
  BY <1>2, <1>4, <1>5 DEF SocksAreUp, EndingsSuit
<1>10. SocksAwaited'
  BY <1>2, <1>4, <1>5 DEF SocksAwaited, SocksOf
<1> QED
  BY <1>4, <1>7, <1>8, <1>9, <1>10

\* A step of _doShutdown, which keeps all that waits or is awaited, except
\* what has been kept.
LEMMA LoopKeeps ==
  ASSUME IInv, NEW p \in Procs, NEW r \in ProcStates, Turns(p, r),
         r.asked = proc[p].asked, r.drain = proc[p].drain,
         proc[p].ending # "no", r.ending # "no",
         r.ending # "racing" => r.race = {},
         \/ "serverClosed" \in proc[p].waits \cup proc[p].race =>
              "serverClosed" \in r.waits \cup r.race
         \/ SocksOf(p) = {},
         UNCHANGED <<port, sock>>
  PROVE  IInv'
<1> USE DEF IInv
<1>1. /\ proc' \in [Procs -> ProcStates] /\ proc'[p] = r
      /\ \A q \in Procs : q # p => proc'[q] = proc[q]
      /\ FilesSuit' /\ Books'
      /\ UNCHANGED <<shutdownFile, stoppedFile, pidFile, bootFile, overlap>>
  BY TurnsMeans
<1>2. r.phase = proc[p].phase /\ r.exiting = proc[p].exiting
  BY DEF Turns
<1>3. TypeOK'
  BY <1>1 DEF TypeOK
<1>4. PortIsUp' /\ SocksAreUp' /\ EndingsSuit'
  BY <1>1, <1>2 DEF PortIsUp, SocksAreUp, EndingsSuit
<1>5. SocksAwaited'
  BY <1>1, <1>2 DEF SocksAwaited, SocksOf
<1> QED
  BY <1>1, <1>3, <1>4, <1>5

LEMMA BeginShutdownKeeps ==
  ASSUME IInv, NEW p \in Procs, proc[p].ending \in {"begun", "pausing"},
         proc' = [proc EXCEPT ![p] = LoopHead(@)],
         UNCHANGED <<files, port, sock, overlap>>
  PROVE  IInv'
<1>1. PICK old : old = proc[p]
  OBVIOUS
<1>2. old \in ProcStates /\ old.race = {}
  BY <1>1 DEF IInv, TypeOK, EndingsSuit
<1>3. PICK r : r = LoopHead(old)
  OBVIOUS
<1>4. /\ r \in ProcStates /\ r.ending \in {"pausing", "racing"}
      /\ r.ending # "racing" => r.race = {}
      /\ r.waits \cup r.race = old.waits
      /\ r.phase = old.phase /\ r.asked = old.asked
      /\ r.info = old.info /\ r.words = old.words
      /\ r.drain = old.drain /\ r.exiting = old.exiting
  BY <1>2, <1>3, LoopHeadMeans
<1>5. Turns(p, r)
  BY <1>1, <1>3, <1>4 DEF Turns, Becomes, IInv, TypeOK
<1>6. \/ "serverClosed" \in proc[p].waits \cup proc[p].race =>
           "serverClosed" \in r.waits \cup r.race
      \/ SocksOf(p) = {}
  BY <1>1, <1>2, <1>4
<1> QED
  BY <1>1, <1>4, <1>5, <1>6, LoopKeeps

LEMMA PromisesKeptKeeps ==
  ASSUME IInv, NEW p \in Procs, PromisesKept(p)
  PROVE  IInv'
<1>1. PICK old : old = [proc[p] EXCEPT !.race = {}]
  OBVIOUS
<1>2. proc[p] \in ProcStates
  BY DEF IInv, TypeOK
<1>3. /\ old \in ProcStates /\ old.race = {} /\ old.waits = proc[p].waits
      /\ old.phase = proc[p].phase /\ old.asked = proc[p].asked
      /\ old.info = proc[p].info /\ old.words = proc[p].words
      /\ old.drain = proc[p].drain /\ old.exiting = proc[p].exiting
  BY <1>1, <1>2 DEF ProcStates
<1>4. PICK r : r = LoopHead(old)
  OBVIOUS
<1>5. /\ r \in ProcStates /\ r.ending \in {"pausing", "racing"}
      /\ r.ending # "racing" => r.race = {}
      /\ r.waits \cup r.race = old.waits
      /\ r.phase = old.phase /\ r.asked = old.asked
      /\ r.info = old.info /\ r.words = old.words
      /\ r.drain = old.drain /\ r.exiting = old.exiting
  BY <1>3, <1>4, LoopHeadMeans
<1>6. Turns(p, r)
  BY <1>1, <1>3, <1>4, <1>5 DEF PromisesKept, Turns, Becomes, IInv, TypeOK
<1>7. "serverClosed" \in proc[p].race => SocksOf(p) = {}
  BY DEF PromisesKept, Kept
<1>8. \/ "serverClosed" \in proc[p].waits \cup proc[p].race =>
           "serverClosed" \in r.waits \cup r.race
      \/ SocksOf(p) = {}
  BY <1>3, <1>5, <1>7
<1>9. proc[p].ending # "no" /\ UNCHANGED <<port, sock>>
  BY DEF PromisesKept
<1> QED
  BY <1>3, <1>5, <1>6, <1>8, <1>9, LoopKeeps

-----------------------------------------------------------------------------
(* Connections                                                             *)

\* Of p only the set of connections, or the way it closes them, is new.
SameButConns(q) ==
  /\ proc'[q].phase = proc[q].phase /\ proc'[q].info = proc[q].info
  /\ proc'[q].words = proc[q].words /\ proc'[q].exiting = proc[q].exiting
  /\ proc'[q].asked = proc[q].asked /\ proc'[q].ending = proc[q].ending
  /\ proc'[q].waits = proc[q].waits /\ proc'[q].race = proc[q].race
  /\ proc'[q].drain = "no" <=> proc[q].drain = "no"

LEMMA ConnectionsKeep ==
  ASSUME IInv, proc' \in [Procs -> ProcStates], sock' \in [Socks -> SockStates],
         \A q \in Procs : SameButConns(q),
         \A s \in Socks : sock'[s].owner = Nobody <=> sock'[s].state = "none",
         \A s \in Socks : \/ sock'[s].owner = sock[s].owner
                          \/ sock'[s].owner = Nobody
                          \/ sock'[s].owner = port /\ port # Nobody,
         UNCHANGED <<files, port, overlap>>
  PROVE  IInv'
<1> USE DEF IInv
<1>1. UNCHANGED <<shutdownFile, stoppedFile, pidFile, bootFile, overlap>>
  BY DEF files
<1>2. TypeOK'
  BY <1>1 DEF TypeOK
<1>3. PortIsUp'
  BY <1>1 DEF PortIsUp, SameButConns
<1>4. SocksAreUp'
  BY ProcessAssumption DEF SocksAreUp, SameButConns, PortIsUp
<1>5. EndingsSuit'
  BY DEF EndingsSuit, SameButConns
<1>6. SocksAwaited'
  <2> SUFFICES ASSUME NEW p \in Procs, proc'[p].phase = "up", proc'[p].drain # "no"
               PROVE  "serverClosed" \in proc'[p].waits \cup proc'[p].race \/ SocksOf(p)' = {}
    BY DEF SocksAwaited
  <2>1. port # p
    BY DEF PortIsUp, SameButConns
  <2>2. SocksOf(p)' \subseteq SocksOf(p)
    BY <2>1, ProcessAssumption DEF SocksOf
  <2> QED
    BY <2>2 DEF SocksAwaited, SameButConns
<1>7. Quiet /\ Wordless
  BY <1>1 DEF Quiet, Wordless, SameButConns
<1> QED
  BY <1>2, <1>3, <1>4, <1>5, <1>6, <1>7, QuietFiles, WordlessBooks

LEMMA NewConns ==
  ASSUME TypeOK, NEW p \in Procs, NEW conns \in SUBSET Socks,
         proc' = [proc EXCEPT ![p].conns = conns]
  PROVE  proc' \in [Procs -> ProcStates] /\ \A q \in Procs : SameButConns(q)
<1>1. PICK r : r = [proc[p] EXCEPT !.conns = conns]
  OBVIOUS
<1>2. proc[p] \in ProcStates
  BY DEF TypeOK
<1>3. /\ r \in ProcStates /\ r.asked = proc[p].asked /\ r.ending = proc[p].ending
      /\ r.phase = proc[p].phase /\ r.info = proc[p].info
      /\ r.words = proc[p].words /\ r.exiting = proc[p].exiting
      /\ r.waits = proc[p].waits /\ r.race = proc[p].race
      /\ r.drain = proc[p].drain
  BY <1>1, <1>2 DEF ProcStates
<1>4. Becomes(p, r)
  BY <1>1, <1>2 DEF Becomes, TypeOK, ProcStates
<1>5. /\ proc' \in [Procs -> ProcStates] /\ proc'[p] = r
      /\ \A q \in Procs : q # p => proc'[q] = proc[q]
  BY <1>3, <1>4, BecomesMeans
<1> QED
  BY <1>3, <1>5 DEF SameButConns

LEMMA NewDrain ==
  ASSUME TypeOK, NEW p \in Procs, NEW drain \in {"looking", "closing", "done"},
         proc[p].drain # "no", proc' = [proc EXCEPT ![p].drain = drain]
  PROVE  proc' \in [Procs -> ProcStates] /\ \A q \in Procs : SameButConns(q)
<1>1. PICK r : r = [proc[p] EXCEPT !.drain = drain]
  OBVIOUS
<1>2. proc[p] \in ProcStates
  BY DEF TypeOK
<1>3. /\ r \in ProcStates /\ r.asked = proc[p].asked /\ r.ending = proc[p].ending
      /\ r.phase = proc[p].phase /\ r.info = proc[p].info
      /\ r.words = proc[p].words /\ r.exiting = proc[p].exiting
      /\ r.waits = proc[p].waits /\ r.race = proc[p].race
      /\ r.drain = drain
  BY <1>1, <1>2 DEF ProcStates
<1>4. Becomes(p, r)
  BY <1>1, <1>2 DEF Becomes, TypeOK, ProcStates
<1>5. /\ proc' \in [Procs -> ProcStates] /\ proc'[p] = r
      /\ \A q \in Procs : q # p => proc'[q] = proc[q]
  BY <1>3, <1>4, BecomesMeans
<1> QED
  BY <1>3, <1>5 DEF SameButConns

LEMMA SameProcs ==
  ASSUME TypeOK, proc' = proc
  PROVE  proc' \in [Procs -> ProcStates] /\ \A q \in Procs : SameButConns(q)
BY DEF TypeOK, SameButConns

LEMMA CloseConnectionsKeeps ==
  ASSUME IInv, NEW p \in Procs, CloseConnections(p)
  PROVE  IInv'
<1> DEFINE open == {s \in proc[p].conns : IsOpen(s)}
           drain == IF open = {} THEN "done" ELSE "closing"
<1>1. proc' \in [Procs -> ProcStates] /\ \A q \in Procs : SameButConns(q)
  <2>1. proc' = [proc EXCEPT ![p].drain = drain] /\ proc[p].drain # "no"
    BY DEF CloseConnections
  <2>2. drain \in {"looking", "closing", "done"}
    OBVIOUS
  <2> HIDE DEF drain
  <2> QED
    BY <2>1, <2>2, NewDrain DEF IInv
<1>2. ASSUME NEW s \in Socks
      PROVE  /\ sock'[s] \in SockStates
             /\ sock'[s].owner = sock[s].owner
             /\ sock'[s].state = "none" <=> sock[s].state = "none"
  <2>1. sock[s] \in SockStates
    BY DEF IInv, TypeOK
  <2>2. \/ sock'[s] = sock[s]
        \/ sock[s].state = "ws" /\ sock'[s] = [sock[s] EXCEPT !.state = "wsClosing"]
    BY DEF CloseConnections
  <2> QED
    BY <2>1, <2>2 DEF SockStates
<1>3. sock' \in [Socks -> SockStates]
  <2>1. sock' = [s \in Socks |-> sock'[s]]
    BY DEF CloseConnections
  <2> QED
    BY <2>1, <1>2
<1>4. \A s \in Socks : sock'[s].owner = Nobody <=> sock'[s].state = "none"
  BY <1>2 DEF IInv, SocksAreUp
<1> QED
  BY <1>1, <1>2, <1>3, <1>4, ConnectionsKeep DEF CloseConnections

LEMMA LookAgainKeeps ==
  ASSUME IInv, NEW p \in Procs, LookAgain(p)
  PROVE  IInv'
<1>1. proc' \in [Procs -> ProcStates] /\ \A q \in Procs : SameButConns(q)
  BY NewDrain DEF LookAgain, IInv
<1>2. UNCHANGED <<files, port, sock, overlap>>
  BY DEF LookAgain
<1> QED
  BY <1>1, <1>2, ConnectionsKeep DEF IInv, TypeOK, SocksAreUp

LEMMA UpdateConnectionsKeeps ==
  ASSUME IInv, NEW p \in Procs, UpdateConnections(p)
  PROVE  IInv'
<1> DEFINE conns == {s \in proc[p].conns : IsOpen(s)}
<1>1. proc' \in [Procs -> ProcStates] /\ \A q \in Procs : SameButConns(q)
  <2>1. conns \in SUBSET Socks
    BY DEF IInv, TypeOK, ProcStates
  <2>2. proc' = [proc EXCEPT ![p].conns = conns]
    BY DEF UpdateConnections
  <2> HIDE DEF conns
  <2> QED
    BY <2>1, <2>2, NewConns DEF IInv
<1>2. UNCHANGED <<files, port, sock, overlap>>
  BY DEF UpdateConnections
<1> QED
  BY <1>1, <1>2, ConnectionsKeep DEF IInv, TypeOK, SocksAreUp

LEMMA AcceptKeeps ==
  ASSUME IInv, NEW s \in Socks, Accept(s)
  PROVE  IInv'
<1>1. port \in Procs
  BY DEF IInv, TypeOK, Accept
<1>2. proc' \in [Procs -> ProcStates] /\ \A q \in Procs : SameButConns(q)
  <2>1. PICK p \in Procs : p = port
    BY <1>1
  <2> DEFINE conns == proc[p].conns \cup {s}
  <2>2. conns \in SUBSET Socks
    BY DEF IInv, TypeOK, ProcStates
  <2>3. proc' = [proc EXCEPT ![p].conns = conns]
    BY <2>1 DEF Accept
  <2> HIDE DEF conns
  <2> QED
    BY <2>2, <2>3, NewConns DEF IInv
<1>3. PICK state \in {"ws", "post"} :
        sock' = [sock EXCEPT ![s] = [owner |-> port, state |-> state]]
  BY DEF Accept
<1>4. sock' \in [Socks -> SockStates]
  BY <1>1, <1>3 DEF IInv, TypeOK, SockStates
<1>5. \A t \in Socks : sock'[t].owner = Nobody <=> sock'[t].state = "none"
  BY <1>1, <1>3, ProcessAssumption DEF IInv, TypeOK, SocksAreUp
<1>6. \A t \in Socks : sock'[t].owner = sock[t].owner \/ sock'[t].owner = port
  BY <1>3 DEF IInv, TypeOK
<1> QED
  BY <1>1, <1>2, <1>4, <1>5, <1>6, ProcessAssumption, ConnectionsKeep DEF Accept

LEMMA SetKeepsOwners ==
  ASSUME IInv, NEW s \in Socks, NEW state \in {"post", "flushing", "idle"},
         sock[s].state # "none", Set(s, state)
  PROVE  /\ sock' \in [Socks -> SockStates]
         /\ \A t \in Socks : sock'[t].owner = Nobody <=> sock'[t].state = "none"
         /\ \A t \in Socks : sock'[t].owner = sock[t].owner
<1>1. sock \in [Socks -> SockStates]
  BY DEF IInv, TypeOK
<1>2. sock' = [sock EXCEPT ![s].state = state]
  BY DEF Set
<1> QED
  BY <1>1, <1>2 DEF SockStates, IInv, SocksAreUp

LEMMA PostAgainKeeps ==
  ASSUME IInv, NEW s \in Socks, PostAgain(s)
  PROVE  IInv'
<1>1. PICK p \in Procs : p = sock[s].owner
  BY DEF IInv, TypeOK, SockStates, SocksAreUp, PostAgain
<1>2. proc' \in [Procs -> ProcStates] /\ \A q \in Procs : SameButConns(q)
  <2> DEFINE conns == proc[p].conns \cup {s}
  <2>1. conns \in SUBSET Socks
    BY DEF IInv, TypeOK, ProcStates
  <2>2. proc' = [proc EXCEPT ![p].conns = conns]
    BY <1>1 DEF PostAgain
  <2> HIDE DEF conns
  <2> QED
    BY <2>1, <2>2, NewConns DEF IInv
<1> QED
  BY <1>2, SetKeepsOwners, ConnectionsKeep DEF PostAgain

LEMMA RespondKeeps ==
  ASSUME IInv, NEW s \in Socks, Respond(s)
  PROVE  IInv'
<1>1. proc' \in [Procs -> ProcStates] /\ \A q \in Procs : SameButConns(q)
  BY SameProcs DEF Respond, IInv
<1> QED
  BY <1>1, SetKeepsOwners, ConnectionsKeep DEF Respond

LEMMA SocketClosesKeeps ==
  ASSUME IInv, NEW s \in Socks, SocketCloses(s)
  PROVE  IInv'
<1>1. PICK p \in Procs : p = sock[s].owner
  BY DEF IInv, TypeOK, SockStates, SocksAreUp, SocketCloses
<1>2. proc' \in [Procs -> ProcStates] /\ \A q \in Procs : SameButConns(q)
  <2> DEFINE conns == proc[p].conns \ {s}
  <2>1. conns \in SUBSET Socks
    BY DEF IInv, TypeOK, ProcStates
  <2>2. proc' = [proc EXCEPT ![p].conns = conns]
    BY <1>1 DEF SocketCloses
  <2> HIDE DEF conns
  <2> QED
    BY <2>1, <2>2, NewConns DEF IInv
<1>3. sock' = [sock EXCEPT ![s] = NoSock] /\ NoSock \in SockStates
      /\ NoSock.owner = Nobody /\ NoSock.state = "none"
  BY DEF SocketCloses, NoSock, SockStates
<1>4. sock' \in [Socks -> SockStates]
  BY <1>3 DEF IInv, TypeOK
<1>5. \A t \in Socks : /\ sock'[t].owner = Nobody <=> sock'[t].state = "none"
                       /\ sock'[t].owner = sock[t].owner \/ sock'[t].owner = Nobody
  BY <1>3 DEF IInv, TypeOK, SocksAreUp
<1> QED
  BY <1>2, <1>4, <1>5, ConnectionsKeep DEF SocketCloses

-----------------------------------------------------------------------------
(* The end of a process                                                    *)

LEMMA GoneKeeps ==
  ASSUME IInv, NEW p \in Procs, Live(p),
         NEW how \in {"clean", "late", "error", "crash"}, Gone(p, how),
         pidFile' = Nobody \/ pidFile' = pidFile, stoppedFile' \in BOOLEAN,
         IF how \in {"clean", "late"}
         THEN bootFile' = [proc[p].info EXCEPT !.clean = @ + 1]
         ELSE bootFile' = bootFile,
         UNCHANGED <<shutdownFile, overlap>>
  PROVE  IInv'
<1> DEFINE words == proc[p].words + IF how \in {"clean", "late"} THEN 1 ELSE 0
<1> USE DEF IInv
<1>1. proc[p] \in ProcStates /\ proc[p].info \in Counts /\ proc[p].words \in Nat
  BY DEF TypeOK, ProcStates
<1>2. words \in Nat
  BY <1>1
<1>3. PICK r : r = Dead(how, words)
  OBVIOUS
<1>4. Becomes(p, r)
  BY <1>3 DEF Gone, Becomes, Dead
<1>5. /\ r \in ProcStates /\ r.phase = "dead" /\ r.words = words
      /\ ~ r.asked /\ ~ r.exiting /\ r.ending = "no" /\ r.drain = "no"
      /\ r.race = {} /\ r.end = how
  <2> HIDE DEF words
  <2> QED
    BY <1>2, <1>3 DEF Dead, NotStarted, ProcStates, Counts
<1>6. /\ proc' \in [Procs -> ProcStates] /\ proc'[p] = r
      /\ \A q \in Procs : q # p => proc'[q] = proc[q]
  BY <1>4, <1>5, BecomesMeans
<1>7. bootFile' \in Counts
  BY <1>1 DEF TypeOK, Counts
<1>8. /\ port' = IF port = p THEN Nobody ELSE port
      /\ sock' = [s \in Socks |-> IF sock[s].owner = p THEN NoSock ELSE sock[s]]
  BY DEF Gone
<1>9. NoSock \in SockStates /\ NoSock.owner = Nobody /\ NoSock.state = "none"
  BY DEF NoSock, SockStates
<1>10. sock' \in [Socks -> SockStates]
  BY <1>8, <1>9 DEF TypeOK
<1>11. TypeOK'
  BY <1>6, <1>7, <1>8, <1>10 DEF TypeOK
<1>12. PortIsUp'
  BY <1>5, <1>6, <1>8, ProcessAssumption DEF PortIsUp
<1>13. SocksAreUp'
  BY <1>5, <1>6, <1>8, <1>9, ProcessAssumption DEF SocksAreUp
<1>14. EndingsSuit'
  BY <1>5, <1>6 DEF EndingsSuit
<1>15. SocksAwaited'
  <2> SUFFICES ASSUME NEW q \in Procs, proc'[q].phase = "up", proc'[q].drain # "no"
               PROVE  "serverClosed" \in proc'[q].waits \cup proc'[q].race \/ SocksOf(q)' = {}
    BY DEF SocksAwaited
  <2>1. q # p /\ proc'[q] = proc[q]
    BY <1>5, <1>6
  <2>2. SocksOf(q)' \subseteq SocksOf(q)
    BY <1>8, <1>9, ProcessAssumption DEF SocksOf
  <2> QED
    BY <2>1, <2>2 DEF SocksAwaited
<1>16. FilesSuit'
  <2> SUFFICES ASSUME ~ overlap PROVE FilesSuit'
    BY DEF FilesSuit
  <2>1. \A q \in Procs : q # p => ~ Live(q)
    BY DEF FilesSuit
  <2>2. \A q \in Procs : ~ Live(q)'
    BY <2>1, <1>5, <1>6 DEF Live
  <2>3. \A q \in Procs : ~ HasPid(q)' /\ ~ Watches(q)'
    BY <2>2 DEF Live, HasPid, Watches
  <2> QED
    BY <2>2, <2>3 DEF FilesSuit
<1>17. Books'
  <2>1. \A q \in Procs : proc'[q].phase = "off" <=> proc[q].phase = "off"
    BY <1>5, <1>6 DEF Live
  <2>2. CASE how \in {"clean", "late"}
    <3>1. proc'[p].words = proc[p].words + 1
      BY <2>2, <1>5, <1>6
    <3>2. /\ bootFile'.boots = proc[p].info.boots
          /\ bootFile'.clean + bootFile'.errors = proc[p].info.clean + proc[p].info.errors + 1
      BY <2>2, <1>1 DEF Counts
    <3>3. Speaks(p)
      BY <2>1, <3>1, <3>2, <1>6 DEF Speaks
    <3> QED
      BY <3>3, SpeaksBooks
  <2>3. CASE how \notin {"clean", "late"}
    <3>1. proc'[p].words = proc[p].words
      BY <2>3, <1>1, <1>5, <1>6
    <3>2. Wordless
      BY <2>1, <2>3, <3>1, <1>6 DEF Wordless
    <3> QED
      BY <3>2, WordlessBooks
  <2> QED
    BY <2>2, <2>3
<1> QED
  BY <1>11, <1>12, <1>13, <1>14, <1>15, <1>16, <1>17

LEMMA FinishShutdownKeeps ==
  ASSUME IInv, NEW p \in Procs, proc[p].ending # "no",
         NEW how \in {"clean", "late"}, FinishShutdown(p, how)
  PROVE  IInv'
<1>1. Live(p)
  BY DEF Live, IInv, EndingsSuit
<1>2. stoppedFile' \in BOOLEAN
  BY DEF FinishShutdown, OnExit
<1> QED
  BY <1>1, <1>2, GoneKeeps DEF FinishShutdown, OnExit

LEMMA PauseOverKeeps ==
  ASSUME IInv, NEW p \in Procs, PauseOver(p)
  PROVE  IInv'
<1>1. CASE proc[p].waits = {}
  BY <1>1, FinishShutdownKeeps DEF PauseOver
<1>2. CASE proc[p].waits # {}
  BY <1>2, BeginShutdownKeeps DEF PauseOver
<1> QED
  BY <1>1, <1>2

LEMMA ErrorExitKeeps ==
  ASSUME IInv, NEW p \in Procs, ErrorExit(p)
  PROVE  IInv'
<1>1. Live(p)
  BY DEF Live, IInv, EndingsSuit, ErrorExit
<1>2. stoppedFile' \in BOOLEAN
  BY DEF ErrorExit, OnExit
<1> QED
  BY <1>1, <1>2, GoneKeeps DEF ErrorExit, OnExit

LEMMA ViolenceKeeps ==
  ASSUME IInv, NEW p \in Procs, HandleSignal(p) \/ Kill(p)
  PROVE  IInv'
BY GoneKeeps DEF HandleSignal, Kill, files, IInv, TypeOK

LEMMA OperatorKeeps ==
  ASSUME IInv, PlaceShutdownFile \/ ClearControlFiles
  PROVE  IInv'
<1> USE DEF IInv
<1>1. UNCHANGED <<pidFile, bootFile, port, proc, sock, overlap>>
  BY DEF PlaceShutdownFile, ClearControlFiles
<1>2. TypeOK'
  BY <1>1 DEF TypeOK, PlaceShutdownFile, ClearControlFiles
<1>3. PortIsUp' /\ SocksAreUp' /\ EndingsSuit'
  BY <1>1 DEF PortIsUp, SocksAreUp, EndingsSuit
<1>4. SocksAwaited'
  BY <1>1 DEF SocksAwaited, SocksOf
<1>5. Books'
  BY <1>1, WordlessBooks DEF Wordless
<1>6. FilesSuit'
  <2>1. \A p \in Procs : stoppedFile' => stoppedFile \/ ~ Watches(p)
    BY DEF PlaceShutdownFile, ClearControlFiles, Live, Watches
  <2> QED
    BY <1>1, <2>1 DEF FilesSuit, Live, HasPid, Watches
<1> QED
  BY <1>2, <1>3, <1>4, <1>5, <1>6

-----------------------------------------------------------------------------
(* The theorems                                                            *)

LEMMA Beginning == Init => IInv
<1> SUFFICES ASSUME Init PROVE IInv
  OBVIOUS
<1>1. NotStarted \in ProcStates
  BY DEF NotStarted, ProcStates, Counts
<1>2. NoSock \in SockStates
  BY DEF NoSock, SockStates
<1>3. TypeOK
  BY <1>1, <1>2 DEF Init, TypeOK, Counts
<1>4. /\ \A p \in Procs : proc[p] = NotStarted
      /\ \A s \in Socks : sock[s] = NoSock
  BY DEF Init
<1>5. /\ NotStarted.phase = "off" /\ NotStarted.words = 0
      /\ ~ NotStarted.asked /\ ~ NotStarted.exiting /\ NotStarted.ending = "no"
      /\ NotStarted.drain = "no" /\ NotStarted.race = {}
  BY DEF NotStarted
<1>6. PortIsUp
  BY <1>4, <1>5, ProcessAssumption DEF PortIsUp, Init
<1>7. SocksAreUp
  BY <1>4, ProcessAssumption DEF SocksAreUp, NoSock
<1>8. EndingsSuit /\ SocksAwaited
  BY <1>4, <1>5 DEF EndingsSuit, SocksAwaited
<1>9. FilesSuit
  BY <1>4, <1>5 DEF FilesSuit, Live, HasPid, Watches
<1>10. Books
  <2>1. Started = {} /\ Ended(1) = {}
    BY <1>4, <1>5 DEF Started, Ended
  <2> QED
    BY <2>1, <1>4, <1>5, FS_EmptySet DEF Books, Init
<1> QED
  BY <1>3, <1>6, <1>7, <1>8, <1>9, <1>10 DEF IInv

LEMMA EveryStep == IInv /\ [Next]_vars => IInv'
<1> SUFFICES ASSUME IInv, [Next]_vars PROVE IInv'
  OBVIOUS
<1>1. ASSUME NEW p \in Procs,
             Boot(p) \/ InitEnv(p) \/ Checked(p) \/ Listen(p) \/ Uncaught(p)
      PROVE  IInv'
  BY <1>1, BootKeeps, InitEnvKeeps, CheckedKeeps, ListenKeeps, UncaughtKeeps
<1>2. ASSUME NEW p \in Procs, Ending(p)
      PROVE  IInv'
  <2>1. CASE CheckForShutdownRequest(p)
    BY <2>1, CheckForShutdownRequestKeeps
  <2>2. CASE HandleSystemShutdown(p)
    BY <2>2, HandleSystemShutdownKeeps
  <2>3. CASE BeginShutdown(p)
    BY <2>3, BeginShutdownKeeps DEF BeginShutdown
  <2>4. CASE PauseOver(p)
    BY <2>4, PauseOverKeeps
  <2>5. CASE PromisesKept(p)
    BY <2>5, PromisesKeptKeeps
  <2>6. CASE ShutdownTimesOut(p)
    BY <2>6, FinishShutdownKeeps DEF ShutdownTimesOut
  <2>7. CASE ErrorExit(p)
    BY <2>7, ErrorExitKeeps
  <2> QED
    BY <1>2, <2>1, <2>2, <2>3, <2>4, <2>5, <2>6, <2>7 DEF Ending
<1>3. ASSUME NEW p \in Procs,
             CloseConnections(p) \/ LookAgain(p) \/ UpdateConnections(p)
      PROVE  IInv'
  BY <1>3, CloseConnectionsKeeps, LookAgainKeeps, UpdateConnectionsKeeps
<1>4. ASSUME NEW p \in Procs, HandleSignal(p) \/ Kill(p)
      PROVE  IInv'
  BY <1>4, ViolenceKeeps
<1>5. ASSUME NEW s \in Socks,
             Accept(s) \/ PostAgain(s) \/ Respond(s) \/ SocketCloses(s)
      PROVE  IInv'
  BY <1>5, AcceptKeeps, PostAgainKeeps, RespondKeeps, SocketClosesKeeps
<1>6. CASE PlaceShutdownFile \/ ClearControlFiles
  BY <1>6, OperatorKeeps
<1>7. CASE UNCHANGED vars
  <2>1. UNCHANGED <<shutdownFile, stoppedFile, pidFile, bootFile, port, proc, sock, overlap>>
    BY <1>7 DEF vars, files
  <2> QED
    BY <2>1 DEF IInv, TypeOK, PortIsUp, SocksAreUp, EndingsSuit, SocksAwaited, SocksOf,
                FilesSuit, Books, Live, HasPid, Watches, Started, Ended
<1> QED
  BY <1>1, <1>2, <1>3, <1>4, <1>5, <1>6, <1>7 DEF Next

THEOREM Invariance == Spec => []IInv
BY Beginning, EveryStep, PTL DEF Spec

\* What every process has when it looks into the counts it has read: it is the
\* only one that lives, and whoever has been started and has ended said so once
\* or never.
LEMMA CrashesCounted ==
  ASSUME IInv, ~ overlap, \A q \in Procs : proc[q].words < 2,
         NEW p \in Procs, proc[p].phase = "built", proc[p].words = 0
  PROVE  proc[p].info.boots - 1 - proc[p].info.clean - proc[p].info.errors
           = Cardinality({q \in Procs : proc[q].phase = "dead" /\ proc[q].words = 0})
<1> DEFINE crashed == {q \in Procs : proc[q].phase = "dead" /\ proc[q].words = 0}
<1> USE DEF IInv
<1>1. Live(p) /\ \A q \in Procs : Live(q) => q = p
  BY DEF FilesSuit, Live
<1>2. \A q \in Procs : /\ proc[q].words \in Nat
                       /\ proc[q].phase \in {"off", "dead"} \/ q = p
                       /\ proc[q].phase = "off" => proc[q].words = 0
  BY <1>1 DEF TypeOK, ProcStates, Live, Books
<1>3. Started = (crashed \cup Ended(1)) \cup {p}
  BY <1>2 DEF Started, Ended
<1>4. p \notin crashed \cup Ended(1) /\ crashed \cap Ended(1) = {}
  BY DEF Ended
<1>5. /\ IsFiniteSet(crashed) /\ IsFiniteSet(Ended(1))
      /\ IsFiniteSet(crashed \cup Ended(1))
  BY <1>3, FS_Subset DEF Books
<1>6. Cardinality(Started) = Cardinality(crashed \cup Ended(1)) + 1
  BY <1>3, <1>4, <1>5, FS_AddElement
<1>7. Cardinality(crashed \cup Ended(1)) = Cardinality(crashed) + Cardinality(Ended(1))
  <2>1. Cardinality(crashed \cap Ended(1)) = 0
    BY <1>4, FS_EmptySet
  <2>2. /\ Cardinality(crashed) \in Nat /\ Cardinality(Ended(1)) \in Nat
    BY <1>5, FS_CardinalityType
  <2>3. Cardinality(crashed \cup Ended(1))
          = Cardinality(crashed) + Cardinality(Ended(1)) - Cardinality(crashed \cap Ended(1))
    BY <1>5, FS_Union
  <2> HIDE DEF crashed
  <2> QED
    BY <2>1, <2>2, <2>3
<1>8. /\ bootFile.boots = Cardinality(Started)
      /\ bootFile.clean + bootFile.errors = Cardinality(Ended(1))
  BY DEF Books
<1>9. proc[p].info = bootFile
  BY <1>1 DEF FilesSuit
<1>10. /\ bootFile.boots \in Nat /\ bootFile.clean \in Nat /\ bootFile.errors \in Nat
  BY DEF TypeOK, Counts
<1>11. Cardinality(crashed) \in Nat
  BY <1>5, FS_CardinalityType
<1> HIDE DEF crashed
<1>12. bootFile.boots - 1 - bootFile.clean - bootFile.errors = Cardinality(crashed)
  BY <1>6, <1>7, <1>8, <1>10, <1>11
<1> QED
  BY <1>9, <1>12 DEF crashed

\* The control files tell the operator the truth, however often the server was
\* started, asked to stop, killed, or failed, as long as no process was started
\* beside another (BootInfo, PidFile, ServerEnv, ShutdownManager).
THEOREM AlwaysControlFilesTrue == Spec => []ControlFilesTrue
<1>1. IInv => ControlFilesTrue
  <2> SUFFICES ASSUME IInv, ~ overlap
               PROVE  /\ port # Nobody => pidFile = port
                      /\ stoppedFile => port = Nobody
    BY CrashesCounted DEF ControlFilesTrue
  <2>1. ASSUME port # Nobody
        PROVE  port \in Procs /\ proc[port].phase = "up"
    BY <2>1 DEF IInv, TypeOK, PortIsUp
  <2> QED
    BY <2>1 DEF IInv, FilesSuit, HasPid, Watches
<1> QED
  BY <1>1, Invariance, PTL

\* How a process ended is said when it ends.
LEMMA EndIsSaid ==
  ASSUME IInv, Next, NEW p \in Procs
  PROVE  \/ proc'[p].end = proc[p].end
         \/ proc'[p].end \in {"late", "error", "crash"}
         \/ PauseOver(p) /\ proc[p].waits = {}
<1>1. proc \in [Procs -> ProcStates]
  BY DEF IInv, TypeOK
<1>2. ASSUME NEW q \in Procs, NEW how \in {"clean", "late", "error", "crash"}, Gone(q, how)
      PROVE  proc'[p].end = IF p = q THEN how ELSE proc[p].end
  BY <1>1, <1>2 DEF Gone, NotStarted
<1>3. ASSUME NEW q \in Procs, Fail(q)
      PROVE  proc'[p].end = proc[p].end
  BY <1>1, <1>3 DEF Fail, Failing, ProcStates
<1>4. ASSUME NEW q \in Procs, proc' = [proc EXCEPT ![q] = LoopHead(@)]
      PROVE  proc'[p].end = proc[p].end
  BY <1>1, <1>4 DEF LoopHead, ProcStates
<1>5. ASSUME NEW q \in Procs, Boot(q) \/ InitEnv(q) \/ Checked(q) \/ Listen(q) \/ Uncaught(q)
      PROVE  proc'[p].end = proc[p].end
  <2>1. CASE Fail(q)
    BY <1>3, <2>1
  <2>2. CASE ~ Fail(q)
    BY <1>1, <1>5, <2>2 DEF Boot, InitEnv, Checked, Listen, Uncaught, ProcStates
  <2> QED
    BY <2>1, <2>2
<1>6. ASSUME NEW q \in Procs, CheckForShutdownRequest(q) \/ HandleSystemShutdown(q)
      PROVE  proc'[p].end = proc[p].end
  BY <1>1, <1>6 DEF CheckForShutdownRequest, HandleSystemShutdown, ProcStates
<1>7. ASSUME NEW q \in Procs, PauseOver(q)
      PROVE  proc'[p].end = proc[p].end \/ (p = q /\ proc[q].waits = {})
  <2>1. CASE proc[q].waits = {}
    BY <1>2, <1>7, <2>1 DEF PauseOver, FinishShutdown
  <2>2. CASE proc[q].waits # {}
    BY <1>4, <1>7, <2>2 DEF PauseOver
  <2> QED
    BY <2>1, <2>2
<1>8. ASSUME NEW q \in Procs, PromisesKept(q)
      PROVE  proc'[p].end = proc[p].end
  BY <1>1, <1>8 DEF PromisesKept, LoopHead, ProcStates
<1>9. ASSUME NEW q \in Procs, ShutdownTimesOut(q) \/ ErrorExit(q) \/ HandleSignal(q) \/ Kill(q)
      PROVE  proc'[p].end \in {proc[p].end, "late", "error", "crash"}
  BY <1>2, <1>9 DEF ShutdownTimesOut, FinishShutdown, ErrorExit, HandleSignal, Kill
<1>10. ASSUME NEW q \in Procs, CloseConnections(q) \/ LookAgain(q) \/ UpdateConnections(q)
       PROVE  proc'[p].end = proc[p].end
  BY <1>1, <1>10 DEF CloseConnections, LookAgain, UpdateConnections, ProcStates
<1>11. ASSUME NEW s \in Socks, Accept(s) \/ PostAgain(s) \/ Respond(s) \/ SocketCloses(s)
       PROVE  proc'[p].end = proc[p].end
  BY <1>1, <1>11 DEF Accept, PostAgain, Respond, SocketCloses, ProcStates
<1>12. CASE PlaceShutdownFile \/ ClearControlFiles
  BY <1>12 DEF PlaceShutdownFile, ClearControlFiles
<1>13. ASSUME NEW q \in Procs, BeginShutdown(q)
       PROVE  proc'[p].end = proc[p].end
  BY <1>4, <1>13 DEF BeginShutdown
<1> QED
  BY <1>5, <1>6, <1>7, <1>8, <1>9, <1>10, <1>11, <1>12, <1>13 DEF Next, Ending

\* A process that has found nothing to wait for in the half second after it
\* began to stop has no connection.
LEMMA NobodyLeft ==
  ASSUME IInv, NEW p \in Procs, PauseOver(p), proc[p].waits = {}
  PROVE  SocksOf(p) = {}
<1>1. CASE proc[p].phase = "up"
  <2>1. proc[p].race = {} /\ proc[p].drain # "no"
    BY <1>1 DEF PauseOver, Settled, IInv, EndingsSuit
  <2> QED
    BY <1>1, <2>1 DEF IInv, SocksAwaited
<1>2. CASE proc[p].phase # "up"
  BY <1>2 DEF IInv, SocksAreUp, SocksOf
<1> QED
  BY <1>1, <1>2

\* A shutdown that exits before its minute is over leaves no connection, for
\* any number of connections and whatever their clients do (ShutdownManager,
\* ServerUtil.handleSystemShutdown, Application._closeConnections).
THEOREM AlwaysNothingCutOff == Spec => NothingCutOff
<1> DEFINE Politely == \A p \in Procs :
             proc[p].end = "none" /\ proc[p].end' = "clean" => SocksOf(p) = {}
<1>1. IInv /\ [Next]_vars => [Politely]_vars
  <2> SUFFICES ASSUME IInv, Next, NEW p \in Procs,
                      proc[p].end = "none", proc[p].end' = "clean"
               PROVE  SocksOf(p) = {}
    OBVIOUS
  <2>1. PauseOver(p) /\ proc[p].waits = {}
    BY EndIsSaid
  <2> QED
    BY <2>1, NobodyLeft
<1> QED
  BY <1>1, Invariance, PTL DEF Spec, NothingCutOff

-----------------------------------------------------------------------------
(* Connection *)

CONSTANTS
  Authors, MaxCalls, MaxSessions, LocalIds, Width, MaxWhileClosing, NeedCookies

VARIABLES
  kind, hasCookies, state, socketUp, whileClosing, targets, remotes, call,
  pending, mint, drawn, registered

Api == INSTANCE Connection

\* What the constants are: there is a sequence of numbers for the mint, and the
\* root token, which stands for no author, is nobody's.
Sensible ==
  /\ MaxCalls \in Nat /\ Width \in Nat \ {0}
  /\ Api!NoOne \notin Authors

Bound == {"cookies", "authorize", "found", "called"}
Fields == {"stage", "to", "obj"}
Stages == {"none", "unknown"} \cup Bound \cup Api!Ends

\* A call is made up as its stage tells, and one that waits for authorization
\* has a token whose ID there is.
CallsShaped ==
  /\ DOMAIN call = Api!Msgs
  /\ \A m \in Api!Msgs :
       /\ call[m].stage \in Stages
       /\ Api!At(m, "none") => call[m] = Api!NoCall
       /\ call[m].stage \in Bound =>
            /\ DOMAIN call[m] = Fields
            /\ call[m].to.by = "token" => call[m].to.token.id \in DOMAIN mint
       /\ call[m].stage \in {"cookies", "authorize"} => call[m].to.by = "token"

\* Whose a token is, and that no two have one ID.
MintTrue ==
  /\ drawn \in 0..Width - 1
  /\ Api!RootToken.id \in DOMAIN mint /\ mint[Api!RootToken.id].token = Api!RootToken
  /\ Api!NoToken.id \notin DOMAIN mint
  /\ \A id \in DOMAIN mint :
       /\ mint[id].token.id = id
       /\ mint[id].author = Api!NoOne <=> id = Api!RootToken.id

\* The two maps are each other's inverse.
MapsInverse ==
  /\ \A id \in DOMAIN targets :
       targets[id].obj \in DOMAIN remotes /\ remotes[targets[id].obj] = id
  /\ \A obj \in DOMAIN remotes :
       remotes[obj] \in DOMAIN targets /\ targets[remotes[obj]].obj = obj

\* A target that a token controls is what the token gives access to; another
\* is nothing that a token guards.
TargetsTrue ==
  \A id \in DOMAIN targets :
    LET token == targets[id].token
        obj == targets[id].obj
    IN IF token = Api!NoToken
       THEN obj.class \in {"meta", "session"}
       ELSE /\ token.id = id /\ Api!HasAuthority(token)
            /\ obj.class = (IF token = Api!RootToken THEN "root" ELSE "author")
            /\ obj.of = mint[id].author

Named(to) == IF to.by = "token" THEN to.token.id ELSE to.id
Guard(to) == IF to.by = "token" THEN to.token ELSE Api!NoToken

\* A call that has found its target has what the map has.
CallsTrue ==
  \A m \in Api!Msgs : call[m].stage \in {"found", "called"} =>
    LET id == Named(call[m].to)
    IN /\ id \in DOMAIN targets
       /\ targets[id].token = Guard(call[m].to)
       /\ targets[id].obj = call[m].obj

CallInv ==
  /\ kind \in {"ws", "post"}
  /\ CallsShaped /\ MintTrue /\ MapsInverse /\ TargetsTrue /\ CallsTrue
  /\ Api!AnsweredOnClosing

-----------------------------------------------------------------------------
(* Numbers                                                                 *)

\* A message that comes is a new one.
LEMMA FreshIsNew ==
  ASSUME Sensible, Api!Used # Api!Msgs
  PROVE  Api!Fresh \in Api!Msgs \ Api!Used
<1>1. Api!Msgs \ Api!Used # {} /\ Api!Msgs \ Api!Used \in SUBSET Nat
  BY DEF Api!Used, Api!Msgs, Sensible
<1>2. \E m \in Api!Msgs \ Api!Used : \A n \in Api!Msgs \ Api!Used : m <= n
  BY <1>1, LeastNatural
<1> QED
  BY <1>2 DEF Api!Fresh

\* Every number of the sequence comes up.
LEMMA EveryNumberComes ==
  ASSUME NEW w \in Nat \ {0}, NEW d \in 0..w - 1, NEW n \in 0..w - 1
  PROVE  \E i \in 0..w - 1 : (d + i) % w = n
<1>1. CASE n >= d
  <2>1. n - d \in 0..w - 1 /\ (d + (n - d)) % w = n
    BY <1>1
  <2> QED
    BY <2>1
<1>2. CASE n < d
  <2>1. n + w - d \in 0..w - 1 /\ d + (n + w - d) = n + w
    BY <1>2
  <2>2. (n + w) % w = n
    OBVIOUS
  <2> QED
    BY <2>1, <2>2
<1> QED
  BY <1>1, <1>2

LEMMA RemainderBelow ==
  ASSUME NEW w \in Nat \ {0}, NEW x \in Nat
  PROVE  x % w \in 0..w - 1
OBVIOUS

-----------------------------------------------------------------------------
(* Tokens                                                                  *)

\* What a token was minted for stays.
MintGrows ==
  \A id \in DOMAIN mint : id \in DOMAIN mint' /\ mint'[id] = mint[id]

\* A number that is minted is a new one.
LEMMA MintedIsNew ==
  ASSUME Sensible, MintTrue, Api!CanMint, NEW a
  PROVE  /\ Api!Minted(a).author = a /\ ~ Api!Taken(Api!Minted(a).token.id)
         /\ Api!Minted(a).token.id[1] = "autr"
         /\ Api!Minted(a).next \in Nat
<1> DEFINE Free(i) == /\ ~ Api!Taken(Api!Id("autr", (drawn + i) % Width))
                      /\ \A j \in 0..i - 1 : Api!Taken(Api!Id("autr", (drawn + j) % Width))
           S == {i \in 0..Width - 1 : ~ Api!Taken(Api!Id("autr", (drawn + i) % Width))}
<1>1. PICK n \in 0..Width - 1 : ~ Api!Taken(Api!Id("autr", n))
  BY DEF Api!CanMint
<1>2. drawn \in 0..Width - 1 /\ Width \in Nat \ {0}
  BY DEF MintTrue, Sensible
<1>3. PICK i \in 0..Width - 1 : (drawn + i) % Width = n
  BY <1>2, EveryNumberComes
<1>4. i \in S /\ S \in SUBSET Nat
  BY <1>1, <1>3
<1>5. PICK l \in S : \A k \in S : l <= k
  BY <1>4, LeastNatural
<1>6. l \in 0..Width - 1 /\ Free(l)
  <2>1. l \in 0..Width - 1 /\ ~ Api!Taken(Api!Id("autr", (drawn + l) % Width))
    OBVIOUS
  <2>2. ASSUME NEW j \in 0..l - 1, ~ Api!Taken(Api!Id("autr", (drawn + j) % Width))
        PROVE  FALSE
    <3>1. j \in 0..Width - 1
      BY <1>2, <2>1
    <3>2. j \in S
      BY <2>2, <3>1
    <3> QED
      BY <1>5, <2>1, <3>2
  <2> QED
    BY <2>1, <2>2
<1> DEFINE k == CHOOSE x \in 0..Width - 1 : Free(x)
           new == (drawn + k) % Width
<1>7. k \in 0..Width - 1 /\ Free(k)
  BY <1>6
<1>8. ~ Api!Taken(Api!Id("autr", new)) /\ new \in Nat
  <2>1. ~ Api!Taken(Api!Id("autr", new))
    BY <1>7
  <2>2. k \in 0..Width - 1
    BY <1>7
  <2> HIDE DEF k
  <2>3. drawn + k \in Nat
    BY <1>2, <2>2
  <2>4. (drawn + k) % Width \in 0..Width - 1
    BY <1>2, <2>3, RemainderBelow
  <2> QED
    BY <2>1, <2>4
<1>9. Api!Minted(a) = [token |-> [id |-> Api!Id("autr", new), secret |-> (new + 1) % Width],
                   author |-> a, next |-> new + 2]
  BY DEF Api!Minted
<1> HIDE DEF new, k
<1> QED
  BY <1>8, <1>9 DEF Api!Id

LEMMA MintSame ==
  ASSUME MintTrue, mint' = mint, drawn' = drawn
  PROVE  MintTrue' /\ MintGrows
BY DEF MintTrue, MintGrows

LEMMA MintExtended ==
  ASSUME Sensible, MintTrue, Api!CanMint, NEW a \in Authors,
         mint' = Api!With(mint, Api!Minted(a).token.id,
                           [token |-> Api!Minted(a).token, author |-> a]),
         drawn' = Api!Minted(a).next % Width
  PROVE  MintTrue' /\ MintGrows
<1>1. PICK new : new = Api!Minted(a)
  OBVIOUS
<1>2. /\ ~ Api!Taken(new.token.id) /\ new.token.id[1] = "autr" /\ new.next \in Nat
  BY <1>1, MintedIsNew
<1>3. /\ DOMAIN mint' = DOMAIN mint \cup {new.token.id}
      /\ \A id \in DOMAIN mint : mint'[id] = mint[id]
      /\ mint'[new.token.id] = [token |-> new.token, author |-> a]
  BY <1>1, <1>2 DEF Api!Taken, Api!With
<1>4. drawn' \in 0..Width - 1
  BY <1>1, <1>2, RemainderBelow DEF Sensible
<1>5. Api!NoToken.id[1] = "none" /\ Api!RootToken.id[1] = "root"
  BY DEF Api!NoToken, Api!RootToken, Api!Id
<1>6. Api!NoToken.id \notin DOMAIN mint' /\ new.token.id # Api!RootToken.id
  BY <1>2, <1>3, <1>5 DEF MintTrue
<1>7. /\ mint'[new.token.id].token.id = new.token.id
      /\ mint'[new.token.id].author # Api!NoOne
  BY <1>3 DEF Sensible
<1>8. \A id \in DOMAIN mint' :
        /\ mint'[id].token.id = id
        /\ mint'[id].author = Api!NoOne <=> id = Api!RootToken.id
  BY <1>3, <1>6, <1>7 DEF MintTrue
<1>9. Api!RootToken.id \in DOMAIN mint' /\ mint'[Api!RootToken.id].token = Api!RootToken
  BY <1>3 DEF MintTrue
<1> QED
  BY <1>3, <1>4, <1>6, <1>8, <1>9 DEF MintTrue, MintGrows

-----------------------------------------------------------------------------
(* Targets                                                                 *)

\* What an ID names stays.
TargetsGrow ==
  \A id \in DOMAIN targets : id \in DOMAIN targets' /\ targets'[id] = targets[id]

LEMMA TargetsSame ==
  ASSUME MapsInverse, TargetsTrue, MintGrows, UNCHANGED <<targets, remotes>>
  PROVE  MapsInverse' /\ TargetsTrue' /\ TargetsGrow
<1>1. MapsInverse' /\ TargetsGrow
  BY DEF MapsInverse, TargetsGrow
<1>2. TargetsTrue'
  BY DEF TargetsTrue, MintGrows, Api!HasAuthority, Api!Taken
<1> QED
  BY <1>1, <1>2

LEMMA TargetAdded ==
  ASSUME MapsInverse, TargetsTrue, mint' = mint,
         NEW id, NEW token, NEW obj, Api!MayAdd(id, obj), Api!AddTarget(id, token, obj),
         IF token = Api!NoToken
         THEN obj.class \in {"meta", "session"}
         ELSE /\ token.id = id /\ Api!HasAuthority(token)
              /\ obj.class = (IF token = Api!RootToken THEN "root" ELSE "author")
              /\ obj.of = mint[id].author
  PROVE  /\ MapsInverse' /\ TargetsTrue' /\ TargetsGrow
         /\ id \in DOMAIN targets' /\ targets'[id].token = token /\ targets'[id].obj = obj
<1>1. /\ DOMAIN targets' = DOMAIN targets \cup {id}
      /\ \A x \in DOMAIN targets : targets'[x] = targets[x]
      /\ targets'[id] = [token |-> token, obj |-> obj]
  BY DEF Api!AddTarget, Api!MayAdd, Api!With
<1>2. /\ DOMAIN remotes' = DOMAIN remotes \cup {obj}
      /\ \A x \in DOMAIN remotes : remotes'[x] = remotes[x]
      /\ remotes'[obj] = id
  BY DEF Api!AddTarget, Api!MayAdd, Api!With
<1>3. targets'[id].token = token /\ targets'[id].obj = obj
  BY <1>1
<1>4. MapsInverse'
  <2>1. ASSUME NEW x \in DOMAIN targets'
        PROVE  targets'[x].obj \in DOMAIN remotes' /\ remotes'[targets'[x].obj] = x
    BY <1>1, <1>2, <1>3 DEF MapsInverse
  <2>2. ASSUME NEW x \in DOMAIN remotes'
        PROVE  remotes'[x] \in DOMAIN targets' /\ targets'[remotes'[x]].obj = x
    BY <1>1, <1>2, <1>3 DEF MapsInverse
  <2> QED
    BY <2>1, <2>2 DEF MapsInverse
<1>5. TargetsTrue'
  BY <1>1, <1>3 DEF TargetsTrue, Api!HasAuthority, Api!Taken
<1>6. TargetsGrow
  BY <1>1 DEF TargetsGrow
<1> QED
  BY <1>1, <1>3, <1>4, <1>5, <1>6

-----------------------------------------------------------------------------
(* Calls                                                                   *)

\* A call that has found its target, and how a step leaves the others.
FoundTrue(m) ==
  LET id == Named(call[m].to)
  IN /\ id \in DOMAIN targets
     /\ targets[id].token = Guard(call[m].to)
     /\ targets[id].obj = call[m].obj

WellShaped(m) ==
  /\ call[m].stage \in Stages
  /\ Api!At(m, "none") => call[m] = Api!NoCall
  /\ call[m].stage \in Bound =>
       /\ DOMAIN call[m] = Fields
       /\ call[m].to.by = "token" => call[m].to.token.id \in DOMAIN mint
  /\ call[m].stage \in {"cookies", "authorize"} => call[m].to.by = "token"

LEMMA CallKeeps ==
  ASSUME CallsShaped, CallsTrue, MintGrows, TargetsGrow,
         NEW m \in Api!Msgs, DOMAIN call' = Api!Msgs,
         \A n \in Api!Msgs \ {m} : call'[n] = call[n],
         WellShaped(m)', call'[m].stage \in {"found", "called"} => FoundTrue(m)'
  PROVE  CallsShaped' /\ CallsTrue'
<1>1. \A n \in Api!Msgs : WellShaped(n)'
  BY DEF CallsShaped, WellShaped, MintGrows, Api!At
<1>2. ASSUME NEW n \in Api!Msgs, call'[n].stage \in {"found", "called"}
      PROVE  FoundTrue(n)'
  BY <1>2 DEF CallsTrue, FoundTrue, TargetsGrow
<1>3. CallsShaped'
  BY <1>1 DEF CallsShaped, WellShaped, Api!At
<1>4. CallsTrue'
  BY <1>2 DEF CallsTrue, FoundTrue
<1> QED
  BY <1>3, <1>4

\* A call is one of a message that has come.
LEMMA AtMeans ==
  ASSUME CallsShaped, NEW m \in Api!Msgs
  PROVE  (m \in Api!Used <=> call[m].stage # "none")
BY DEF CallsShaped, Api!Used, Api!At, Api!NoCall

-----------------------------------------------------------------------------
(* The end of a call                                                       *)

\* What Over does to the calls, and that the log forgets it.
LEMMA OverMeans ==
  ASSUME CallInv, NEW m \in Api!Used, Api!Over(m)
  PROVE  /\ DOMAIN call' = Api!Msgs /\ \A n \in Api!Msgs \ {m} : call'[n] = call[n]
         /\ WellShaped(m)' /\ call'[m].stage \notin {"found", "called"}
         /\ kind' = kind /\ Api!AnsweredOnClosing'
<1>1. m \in Api!Msgs /\ DOMAIN call = Api!Msgs
  BY DEF Api!Used, CallInv, CallsShaped
<1>2. PICK end \in {"answered", "lost"} : call' = [call EXCEPT ![m] = [stage |-> end]]
  <2> DEFINE end == IF state # "closed" /\ socketUp THEN "answered" ELSE "lost"
  <2>1. call' = [call EXCEPT ![m] = [stage |-> end]]
    BY DEF Api!Over, Api!Answered
  <2> QED
    BY <2>1
<1>3. /\ DOMAIN call' = Api!Msgs /\ call'[m] = [stage |-> end]
      /\ \A n \in Api!Msgs \ {m} : call'[n] = call[n]
  BY <1>1, <1>2
<1>4. call'[m].stage = end
  BY <1>3
<1>5. WellShaped(m)'
  BY <1>4 DEF WellShaped, Api!At, Stages, Api!Ends, Bound
<1>6. call'[m] # Api!NoCall /\ call[m] # Api!NoCall
  BY <1>4 DEF Api!NoCall, Api!Used
<1>7. Api!Used' = Api!Used
  BY <1>1, <1>3, <1>6 DEF Api!Used
<1>8. kind' = kind /\ (kind = "ws" => state' = state)
  BY DEF Api!Over, CallInv
<1>9. pending' = pending \ {m}
  BY DEF Api!Over
<1>10. pending' = {n \in Api!Used' : Api!At(n, "called")'}
  BY <1>3, <1>4, <1>7, <1>9 DEF CallInv, Api!AnsweredOnClosing, Api!At, Api!Used
<1>11. Api!Working' \subseteq Api!Working
  BY <1>3, <1>4, <1>7 DEF Api!Working, Api!Ends, Api!Used
<1>12. Api!AnsweredOnClosing'
  BY <1>8, <1>10, <1>11 DEF Api!AnsweredOnClosing, CallInv
<1> QED
  BY <1>3, <1>4, <1>5, <1>8, <1>12

LEMMA OverKeeps ==
  ASSUME CallInv, NEW m \in Api!Used, Api!Over(m), MintTrue', MintGrows,
         MapsInverse', TargetsTrue', TargetsGrow
  PROVE  CallInv'
<1>1. m \in Api!Msgs
  BY DEF Api!Used
<1>2. CallsShaped' /\ CallsTrue'
  BY <1>1, OverMeans, CallKeeps DEF CallInv
<1> QED
  BY <1>2, OverMeans DEF CallInv

LEMMA CallFailKeeps ==
  ASSUME CallInv, NEW m \in Api!Used, Api!Fail(m)
  PROVE  CallInv' /\ MintGrows
<1>1. MintTrue' /\ MintGrows
  BY MintSame DEF Api!Fail, CallInv
<1>2. MapsInverse' /\ TargetsTrue' /\ TargetsGrow
  BY <1>1, TargetsSame DEF Api!Fail, CallInv
<1> QED
  BY <1>1, <1>2, OverKeeps DEF Api!Fail

-----------------------------------------------------------------------------
(* Steps in which a call goes on                                           *)

LEMMA StepKeeps ==
  ASSUME CallInv, NEW m \in Api!Msgs, DOMAIN call' = Api!Msgs,
         \A n \in Api!Msgs \ {m} : call'[n] = call[n],
         WellShaped(m)', call'[m].stage \in {"found", "called"} => FoundTrue(m)',
         call'[m].stage # "none",
         call'[m].stage \notin Api!Ends => m \in Api!Working \/ kind = "post" \/ state # "closed",
         pending' = IF call'[m].stage = "called" THEN pending \cup {m} ELSE pending,
         call[m].stage # "called",
         MapsInverse', TargetsTrue', TargetsGrow,
         UNCHANGED <<kind, state, mint, drawn>>
  PROVE  CallInv' /\ MintGrows
<1>1. MintTrue' /\ MintGrows
  BY MintSame DEF CallInv
<1>2. CallsShaped' /\ CallsTrue'
  BY <1>1, CallKeeps DEF CallInv
<1>3. Api!Used' = Api!Used \cup {m}
  BY DEF Api!Used, Api!NoCall
<1>4. pending' = {n \in Api!Used' : Api!At(n, "called")'}
  BY <1>3 DEF CallInv, Api!AnsweredOnClosing, Api!At, Api!Used
<1>5. kind = "ws" /\ state = "closed" => Api!Working' = {}
  <2> SUFFICES ASSUME kind = "ws", state = "closed", NEW n \in Api!Working' PROVE FALSE
    OBVIOUS
  <2>1. Api!Working = {}
    BY DEF CallInv, Api!AnsweredOnClosing
  <2>2. CASE n = m
    BY <2>1, <2>2 DEF Api!Working
  <2>3. CASE n # m
    BY <1>3, <2>1, <2>3 DEF Api!Working, Api!Used
  <2> QED
    BY <2>2, <2>3
<1>6. Api!AnsweredOnClosing'
  BY <1>4, <1>5 DEF Api!AnsweredOnClosing
<1> QED
  BY <1>1, <1>2, <1>6 DEF CallInv

LEMMA NewCallKeeps ==
  ASSUME Sensible, CallInv, NEW m, Api!Used # Api!Msgs, m = Api!Fresh, Api!Allowed,
         NEW c, call' = [call EXCEPT ![m] = c],
         /\ c.stage \in {"unknown", "found", "cookies", "ignored"}
         /\ c.stage \in Bound =>
              /\ DOMAIN c = Fields
              /\ c.to.by = "token" => c.to.token.id \in DOMAIN mint
         /\ c.stage = "cookies" => c.to.by = "token"
         /\ c.stage = "found" =>
              /\ Named(c.to) \in DOMAIN targets
              /\ targets[Named(c.to)].token = Guard(c.to)
              /\ targets[Named(c.to)].obj = c.obj,
         UNCHANGED <<kind, hasCookies, state, socketUp, targets, remotes, pending>>,
         UNCHANGED Api!mintVars
  PROVE  CallInv' /\ MintGrows
<1>1. m \in Api!Msgs /\ m \notin Api!Used
  BY FreshIsNew
<1>2. call[m] = Api!NoCall
  BY <1>1 DEF Api!Used
<1>3. /\ DOMAIN call' = Api!Msgs /\ call'[m] = c
      /\ \A n \in Api!Msgs \ {m} : call'[n] = call[n]
  BY <1>1 DEF CallInv, CallsShaped
<1>4. UNCHANGED <<mint, drawn, targets, remotes, kind, state, pending>>
  BY DEF Api!mintVars
<1>5. WellShaped(m)'
  BY <1>3, <1>4 DEF WellShaped, Api!At, Stages, Bound, Api!Ends
<1>6. call'[m].stage \in {"found", "called"} => FoundTrue(m)'
  BY <1>3, <1>4 DEF FoundTrue, Named, Guard
<1>7. MapsInverse' /\ TargetsTrue' /\ TargetsGrow
  BY <1>4, TargetsSame, MintSame DEF CallInv
<1>8. call'[m].stage # "none" /\ call'[m].stage # "called" /\ call[m].stage # "called"
  BY <1>2, <1>3 DEF Api!NoCall
<1>9. kind = "post" \/ state # "closed"
  BY DEF Api!Allowed, CallInv
<1> QED
  BY <1>1, <1>3, <1>4, <1>5, <1>6, <1>7, <1>8, <1>9, StepKeeps

LEMMA ReceiveKeeps ==
  ASSUME Sensible, CallInv, NEW m \in Api!Msgs, Api!Receive(m)
  PROVE  CallInv' /\ MintGrows
<1>1. PICK to \in Api!Addressees :
        LET stage == IF Api!Found(to) THEN "found"
                     ELSE IF to.by = "token" THEN "cookies" ELSE "unknown"
        IN call' = [call EXCEPT ![m] = [stage |-> stage, to |-> to,
                                        obj |-> IF Api!Found(to) THEN Api!TargetOf(to) ELSE Api!Meta]]
  BY DEF Api!Receive
<1>2. PICK stage \in {"found", "cookies", "unknown"} :
        stage = IF Api!Found(to) THEN "found"
                ELSE IF to.by = "token" THEN "cookies" ELSE "unknown"
  OBVIOUS
<1>3. PICK obj : obj = IF Api!Found(to) THEN Api!TargetOf(to) ELSE Api!Meta
  OBVIOUS
<1>4. PICK c : c = [stage |-> stage, to |-> to, obj |-> obj]
  OBVIOUS
<1>5. call' = [call EXCEPT ![m] = c]
  BY <1>1, <1>2, <1>3, <1>4
<1>6. c.stage = stage /\ c.to = to /\ c.obj = obj
  BY <1>4
<1>7. c.stage \in Bound =>
        /\ DOMAIN c = Fields
        /\ c.to.by = "token" => c.to.token.id \in DOMAIN mint
  <2>1. DOMAIN c = Fields
    BY <1>4 DEF Fields
  <2>2. ASSUME to.by = "token" PROVE to.token.id \in DOMAIN mint
    <3>1. to \in [by : {"token"}, token : Api!Tokens \cup {Api!Wrong(t) : t \in Api!Tokens}]
      BY <2>2 DEF Api!Addressees
    <3>2. PICK t \in Api!Tokens : to.token = t \/ to.token = Api!Wrong(t)
      BY <3>1
    <3>3. t.id \in DOMAIN mint
      BY DEF Api!Tokens, CallInv, MintTrue
    <3>4. Api!Wrong(t).id = t.id
      <4>1. PICK id \in DOMAIN mint : t = mint[id].token
        BY DEF Api!Tokens
      <4> QED
        BY DEF Api!Wrong
    <3> QED
      BY <3>2, <3>3, <3>4
  <2> QED
    BY <1>6, <2>1, <2>2
<1>8. c.stage = "cookies" => c.to.by = "token"
  BY <1>2, <1>6
<1>9. c.stage = "found" =>
        /\ Named(c.to) \in DOMAIN targets
        /\ targets[Named(c.to)].token = Guard(c.to)
        /\ targets[Named(c.to)].obj = c.obj
  BY <1>2, <1>3, <1>6 DEF Api!Found, Api!TargetOf, Named, Guard
<1>10. /\ Api!Used # Api!Msgs /\ m = Api!Fresh /\ Api!Allowed
       /\ UNCHANGED <<kind, hasCookies, state, socketUp, targets, remotes, pending>>
       /\ UNCHANGED Api!mintVars
  BY DEF Api!Receive
<1>11. c.stage \in {"unknown", "found", "cookies", "ignored"}
  BY <1>6
<1> QED
  BY <1>5, <1>7, <1>8, <1>9, <1>10, <1>11, NewCallKeeps

LEMMA NobodysCallKeeps ==
  ASSUME Sensible, CallInv, NEW m \in Api!Msgs, Api!Ignore(m) \/ Api!Nonsense(m)
  PROVE  CallInv' /\ MintGrows
<1>1. PICK end \in {"ignored", "unknown"} : call' = [call EXCEPT ![m] = [stage |-> end]]
  BY DEF Api!Ignore, Api!Nonsense
<1> DEFINE new == [stage |-> end]
<1>4. call' = [call EXCEPT ![m] = new] /\ new.stage = end
  BY <1>1
<1> HIDE DEF new
<1>2. /\ Api!Used # Api!Msgs /\ m = Api!Fresh /\ Api!Allowed
      /\ UNCHANGED <<kind, hasCookies, state, socketUp, targets, remotes, pending>>
      /\ UNCHANGED Api!mintVars
  BY DEF Api!Ignore, Api!Nonsense, Api!connVars
<1>3. end \notin Bound /\ end # "found" /\ end # "cookies"
  BY DEF Bound
<1> QED
  BY <1>2, <1>3, <1>4, NewCallKeeps

\* What a call becomes that goes on to another stage.
Goes(m, stage, obj) ==
  /\ DOMAIN call' = Api!Msgs /\ \A n \in Api!Msgs \ {m} : call'[n] = call[n]
  /\ DOMAIN call'[m] = Fields
  /\ call'[m].stage = stage /\ call'[m].to = call[m].to /\ call'[m].obj = obj

LEMMA GoesWell ==
  ASSUME CallsShaped, NEW m \in Api!Msgs, call[m].stage \in Bound,
         NEW stage \in Bound, NEW obj, Goes(m, stage, obj), mint' = mint,
         stage \in {"cookies", "authorize"} => call[m].to.by = "token"
  PROVE  WellShaped(m)'
BY DEF Goes, CallsShaped, WellShaped, Api!At, Stages, Bound

LEMMA GoToMeans ==
  ASSUME CallsShaped, NEW m \in Api!Msgs, call[m].stage \in Bound, NEW stage
  PROVE  /\ Api!GoTo(m, stage) => Goes(m, stage, call[m].obj)
         /\ \A obj : call' = [call EXCEPT ![m].stage = stage, ![m].obj = obj]
                     => Goes(m, stage, obj)
<1>1. DOMAIN call[m] = Fields /\ DOMAIN call = Api!Msgs
  BY DEF CallsShaped
<1>2. ASSUME Api!GoTo(m, stage) PROVE Goes(m, stage, call[m].obj)
  <2>1. DOMAIN call' = Api!Msgs /\ \A n \in Api!Msgs \ {m} : call'[n] = call[n]
    BY <1>1, <1>2 DEF Api!GoTo
  <2>2. call'[m] = [call[m] EXCEPT !.stage = stage]
    BY <1>1, <1>2 DEF Api!GoTo
  <2>3. PICK c : c = call[m]
    OBVIOUS
  <2>4. PICK d : d = [c EXCEPT !.stage = stage]
    OBVIOUS
  <2>5. DOMAIN d = Fields /\ d.stage = stage /\ d.to = c.to /\ d.obj = c.obj
    BY <1>1, <2>3, <2>4 DEF Fields
  <2> QED
    BY <2>1, <2>2, <2>3, <2>4, <2>5 DEF Goes
<1>3. ASSUME NEW obj, call' = [call EXCEPT ![m].stage = stage, ![m].obj = obj]
      PROVE  Goes(m, stage, obj)
  <2>1. DOMAIN call' = Api!Msgs /\ \A n \in Api!Msgs \ {m} : call'[n] = call[n]
    BY <1>1, <1>3
  <2>2. call'[m] = [call[m] EXCEPT !.stage = stage, !.obj = obj]
    BY <1>1, <1>3
  <2>3. PICK c : c = call[m]
    OBVIOUS
  <2>4. PICK d : d = [c EXCEPT !.stage = stage, !.obj = obj]
    OBVIOUS
  <2>5. DOMAIN d = Fields /\ d.stage = stage /\ d.to = c.to /\ d.obj = obj
    BY <1>1, <2>3, <2>4 DEF Fields
  <2> QED
    BY <2>1, <2>2, <2>3, <2>4, <2>5 DEF Goes
<1> QED
  BY <1>2, <1>3

LEMMA WorkingMeans ==
  ASSUME CallInv, NEW m \in Api!Msgs, call[m].stage \in Bound \cup {"unknown"}
  PROVE  m \in Api!Used /\ m \in Api!Working
<1>1. call[m].stage # "none" /\ call[m].stage \notin Api!Ends
  BY DEF Bound, Api!Ends
<1> QED
  BY <1>1, AtMeans DEF CallInv, Api!Working

LEMMA CookiesKeeps ==
  ASSUME CallInv, NEW m \in Api!Msgs, Api!Cookies(m)
  PROVE  CallInv' /\ MintGrows
<1>1. call[m].stage = "cookies"
  BY DEF Api!Cookies, Api!At
<1>2. m \in Api!Used /\ m \in Api!Working
  BY <1>1, WorkingMeans DEF Bound
<1>3. CASE Api!Fail(m)
  BY <1>2, <1>3, CallFailKeeps
<1>4. CASE ~ Api!Fail(m)
  <2>1. /\ Api!GoTo(m, "authorize")
        /\ UNCHANGED <<targets, remotes, pending>>
        /\ UNCHANGED Api!connVars /\ UNCHANGED Api!mintVars
    BY <1>4 DEF Api!Cookies
  <2>2. UNCHANGED <<targets, remotes, pending, kind, state, mint, drawn>>
    BY <2>1 DEF Api!connVars, Api!mintVars
  <2>3. Goes(m, "authorize", call[m].obj)
    BY <1>1, <2>1, GoToMeans DEF CallInv, Bound
  <2>4. WellShaped(m)'
    <3>1. call[m].to.by = "token"
      BY <1>1 DEF CallInv, CallsShaped
    <3> QED
      BY <1>1, <2>2, <2>3, <3>1, GoesWell DEF CallInv, Bound
  <2>6. MapsInverse' /\ TargetsTrue' /\ TargetsGrow
    BY <2>2, TargetsSame, MintSame DEF CallInv
  <2> QED
    BY <1>1, <1>2, <2>2, <2>3, <2>4, <2>6, StepKeeps DEF Goes
<1> QED
  BY <1>3, <1>4

\* What an authorization finds out about a token.
LEMMA AuthorizedTargetMeans ==
  ASSUME MintTrue, NEW token, Api!HasAuthority(token), NEW m
  PROVE  /\ token # Api!NoToken
         /\ Api!AuthorizedTarget(token, m).class = (IF token = Api!RootToken THEN "root" ELSE "author")
         /\ Api!AuthorizedTarget(token, m).of = mint[token.id].author
<1>1. token.id \in DOMAIN mint /\ mint[token.id].token = token
  BY DEF Api!HasAuthority, Api!Taken
<1>2. token # Api!NoToken
  BY <1>1 DEF MintTrue
<1>3. token = Api!RootToken <=> mint[token.id].author = Api!NoOne
  BY <1>1 DEF MintTrue
<1>4. CASE token = Api!RootToken
  BY <1>2, <1>3, <1>4 DEF Api!AuthorizedTarget, Api!Root, Api!Object
<1>5. CASE token # Api!RootToken
  BY <1>2, <1>3, <1>5 DEF Api!AuthorizedTarget, Api!Object
<1> QED
  BY <1>4, <1>5

LEMMA AuthorizeKeeps ==
  ASSUME CallInv, NEW m \in Api!Msgs, Api!Authorize(m)
  PROVE  CallInv' /\ MintGrows
<1>1. call[m].stage = "authorize"
  BY DEF Api!Authorize, Api!At
<1>2. m \in Api!Used /\ m \in Api!Working
  BY <1>1, WorkingMeans DEF Bound
<1>3. CASE Api!Fail(m)
  BY <1>2, <1>3, CallFailKeeps
<1>4. CASE ~ Api!Fail(m)
  <2>1. PICK token : token = call[m].to.token
    OBVIOUS
  <2>2. PICK obj : obj = Api!AuthorizedTarget(token, m)
    OBVIOUS
  <2>3. /\ Api!HasAuthority(token) /\ Api!MayAdd(token.id, obj) /\ Api!AddTarget(token.id, token, obj)
        /\ call' = [call EXCEPT ![m].stage = "found", ![m].obj = obj]
        /\ UNCHANGED pending /\ UNCHANGED Api!connVars /\ UNCHANGED Api!mintVars
    BY <1>4, <2>1, <2>2 DEF Api!Authorize
  <2>4. UNCHANGED <<pending, kind, state, mint, drawn>>
    BY <2>3 DEF Api!connVars, Api!mintVars
  <2>5. call[m].to.by = "token"
    BY <1>1 DEF CallInv, CallsShaped
  <2>6. Goes(m, "found", obj)
    BY <1>1, <2>3, GoToMeans DEF CallInv, Bound
  <2>7. WellShaped(m)'
    BY <1>1, <2>4, <2>5, <2>6, GoesWell DEF CallInv, Bound
  <2>8. /\ token # Api!NoToken
        /\ obj.class = (IF token = Api!RootToken THEN "root" ELSE "author")
        /\ obj.of = mint[token.id].author
    BY <2>2, <2>3, AuthorizedTargetMeans DEF CallInv
  <2>9. /\ MapsInverse' /\ TargetsTrue' /\ TargetsGrow
        /\ token.id \in DOMAIN targets' /\ targets'[token.id].token = token
        /\ targets'[token.id].obj = obj
    BY <2>3, <2>4, <2>8, TargetAdded DEF CallInv
  <2>10. FoundTrue(m)'
    BY <2>1, <2>5, <2>6, <2>9 DEF FoundTrue, Named, Guard, Goes
  <2> QED
    BY <1>1, <1>2, <2>4, <2>6, <2>7, <2>9, <2>10, StepKeeps DEF Goes
<1> QED
  BY <1>3, <1>4

LEMMA ActKeeps ==
  ASSUME CallInv, NEW m \in Api!Msgs, Api!Act(m)
  PROVE  CallInv' /\ MintGrows
<1>1. call[m].stage = "found"
  BY DEF Api!Act, Api!At
<1>2. m \in Api!Used /\ m \in Api!Working
  BY <1>1, WorkingMeans DEF Bound
<1>3. CASE Api!Fail(m)
  BY <1>2, <1>3, CallFailKeeps
<1>4. CASE ~ Api!Fail(m)
  <2>1. /\ Api!GoTo(m, "called") /\ pending' = pending \cup {m}
        /\ UNCHANGED <<targets, remotes>> /\ UNCHANGED Api!connVars /\ UNCHANGED Api!mintVars
    BY <1>4 DEF Api!Act
  <2>2. UNCHANGED <<targets, remotes, kind, state, mint, drawn>>
    BY <2>1 DEF Api!connVars, Api!mintVars
  <2>3. Goes(m, "called", call[m].obj)
    BY <1>1, <2>1, GoToMeans DEF CallInv, Bound
  <2>4. WellShaped(m)'
    BY <1>1, <2>2, <2>3, GoesWell DEF CallInv, Bound
  <2>6. MapsInverse' /\ TargetsTrue' /\ TargetsGrow
    BY <2>2, TargetsSame, MintSame DEF CallInv
  <2>7. FoundTrue(m)'
    BY <1>1, <2>2, <2>3 DEF FoundTrue, Named, Guard, CallInv, CallsTrue, Goes
  <2> QED
    BY <1>1, <1>2, <2>1, <2>2, <2>3, <2>4, <2>6, <2>7, StepKeeps DEF Goes
<1> QED
  BY <1>3, <1>4

-----------------------------------------------------------------------------
(* Methods                                                                 *)

LEMMA MakeSessionInfoKeeps ==
  ASSUME Sensible, CallInv, NEW m \in Api!Used, Api!MakeSessionInfo(m)
  PROVE  CallInv' /\ MintGrows
<1>1. MintTrue' /\ MintGrows
  <2>1. PICK a \in Authors :
          IF registered[a] = Api!NoToken
          THEN /\ Api!CanMint
               /\ LET new == Api!Minted(a) IN
                  /\ mint' = Api!With(mint, new.token.id, [token |-> new.token, author |-> a])
                  /\ drawn' = new.next % Width
          ELSE UNCHANGED <<mint, drawn>>
    BY DEF Api!MakeSessionInfo
  <2>2. CASE registered[a] = Api!NoToken
    BY <2>1, <2>2, MintExtended DEF CallInv
  <2>3. CASE registered[a] # Api!NoToken
    BY <2>1, <2>3, MintSame DEF CallInv
  <2> QED
    BY <2>2, <2>3
<1>2. MapsInverse' /\ TargetsTrue' /\ TargetsGrow
  BY <1>1, TargetsSame DEF Api!MakeSessionInfo, CallInv
<1> QED
  BY <1>1, <1>2, OverKeeps DEF Api!MakeSessionInfo

LEMMA UseTokenKeeps ==
  ASSUME CallInv, NEW m \in Api!Used, Api!UseToken(m)
  PROVE  CallInv' /\ MintGrows
<1>1. MintTrue' /\ MintGrows
  BY MintSame DEF Api!UseToken, CallInv
<1>2. MapsInverse' /\ TargetsTrue' /\ TargetsGrow
  BY <1>1, TargetsSame DEF Api!UseToken, CallInv
<1> QED
  BY <1>1, <1>2, OverKeeps DEF Api!UseToken

LEMMA MakeSessionKeeps ==
  ASSUME CallInv, NEW m \in Api!Used, Api!MakeSession(m)
  PROVE  CallInv' /\ MintGrows
<1>1. UNCHANGED <<mint, drawn>> /\ Api!Over(m)
  BY DEF Api!MakeSession, Api!mintVars
<1>2. MintTrue' /\ MintGrows
  BY <1>1, MintSame DEF CallInv
<1>3. PICK session :
        /\ session.class = "session"
        /\ \/ UNCHANGED <<targets, remotes>>
           \/ /\ session \notin DOMAIN remotes
              /\ \E n \in LocalIds :
                   /\ Api!Id("local", n) \notin DOMAIN targets
                   /\ Api!AddTarget(Api!Id("local", n), Api!NoToken, session)
  <2>1. PICK k \in 1..MaxSessions :
          LET session == Api!Object("session", call[m].obj.of, k) IN
          IF session \in DOMAIN remotes \/ state = "closed"
          THEN UNCHANGED <<targets, remotes>>
          ELSE \E n \in LocalIds :
                 /\ Api!Id("local", n) \notin DOMAIN targets
                 /\ Api!AddTarget(Api!Id("local", n), Api!NoToken, session)
    BY DEF Api!MakeSession
  <2>2. Api!Object("session", call[m].obj.of, k).class = "session"
    BY DEF Api!Object
  <2> QED
    BY <2>1, <2>2
<1>4. MapsInverse' /\ TargetsTrue' /\ TargetsGrow
  <2>1. CASE UNCHANGED <<targets, remotes>>
    BY <1>2, <2>1, TargetsSame DEF CallInv
  <2>2. CASE ~ UNCHANGED <<targets, remotes>>
    <3>1. PICK id : id \notin DOMAIN targets /\ Api!AddTarget(id, Api!NoToken, session)
      BY <1>3, <2>2
    <3>2. Api!MayAdd(id, session)
      BY <1>3, <2>2, <3>1 DEF Api!MayAdd
    <3> QED
      BY <1>1, <1>3, <3>1, <3>2, TargetAdded DEF CallInv
  <2> QED
    BY <2>1, <2>2
<1> QED
  BY <1>1, <1>2, <1>4, OverKeeps

-----------------------------------------------------------------------------
(* Closing                                                                 *)

LEMMA ClosingKeeps ==
  ASSUME CallInv, UNCHANGED <<kind, targets, remotes, call, pending, mint, drawn>>,
         kind = "ws" /\ state' = "closed" => state = "closed" \/ Api!Working = {}
  PROVE  CallInv' /\ MintGrows
<1>1. MintTrue' /\ MintGrows
  BY MintSame DEF CallInv
<1>2. MapsInverse' /\ TargetsTrue' /\ TargetsGrow
  BY <1>1, TargetsSame DEF CallInv
<1>3. CallsShaped'
  BY DEF CallInv, CallsShaped, Api!At
<1>4. CallsTrue'
  BY DEF CallInv, CallsTrue
<1>5. Api!AnsweredOnClosing'
  BY DEF CallInv, Api!AnsweredOnClosing, Api!Working, Api!Used, Api!At
<1> QED
  BY <1>1, <1>2, <1>3, <1>4, <1>5 DEF CallInv

-----------------------------------------------------------------------------
(* The theorems                                                            *)

LEMMA CallBeginning ==
  ASSUME Sensible, Api!Init
  PROVE  CallInv
<1>1. /\ DOMAIN targets = {Api!Id("meta", 0)}
      /\ targets[Api!Id("meta", 0)] = [token |-> Api!NoToken, obj |-> Api!Meta]
      /\ DOMAIN remotes = {Api!Meta} /\ remotes[Api!Meta] = Api!Id("meta", 0)
  BY DEF Api!Init, Api!Only
<1>2. /\ targets[Api!Id("meta", 0)].token = Api!NoToken /\ targets[Api!Id("meta", 0)].obj = Api!Meta
  BY <1>1
<1>3. /\ DOMAIN mint = {Api!RootToken.id}
      /\ mint[Api!RootToken.id] = [token |-> Api!RootToken, author |-> Api!NoOne]
  BY DEF Api!Init, Api!Only
<1>4. mint[Api!RootToken.id].token = Api!RootToken /\ mint[Api!RootToken.id].author = Api!NoOne
  BY <1>3
<1>5. Api!NoToken.id # Api!RootToken.id
  BY DEF Api!NoToken, Api!RootToken, Api!Id
<1>6. CallsShaped
  BY DEF Api!Init, CallsShaped, Api!NoCall, Stages, Bound, Api!At
<1>7. MintTrue
  BY <1>3, <1>4, <1>5 DEF MintTrue, Api!Init, Sensible
<1>8. MapsInverse
  BY <1>1, <1>2 DEF MapsInverse
<1>9. TargetsTrue
  BY <1>1, <1>2 DEF TargetsTrue, Api!Meta, Api!Object
<1>10. CallsTrue
  BY DEF Api!Init, CallsTrue, Api!NoCall
<1>11. Api!AnsweredOnClosing
  BY DEF Api!Init, Api!AnsweredOnClosing, Api!Used, Api!At
<1> QED
  BY <1>6, <1>7, <1>8, <1>9, <1>10, <1>11 DEF CallInv, Api!Init

LEMMA CallStep ==
  ASSUME Sensible, CallInv, [Api!Next]_(Api!vars)
  PROVE  CallInv' /\ MintGrows
<1>1. ASSUME NEW m \in Api!Msgs, Api!Receive(m) \/ Api!Ignore(m) \/ Api!Nonsense(m)
      PROVE  CallInv' /\ MintGrows
  BY <1>1, ReceiveKeeps, NobodysCallKeeps
<1>2. ASSUME NEW m \in Api!Msgs, Api!Handle(m)
      PROVE  CallInv' /\ MintGrows
  <2>1. m \in Api!Used
    <3>1. call[m].stage \in Bound \cup {"unknown"}
      BY <1>2 DEF Api!Handle, Api!Unknown, Api!Cookies, Api!Authorize, Api!Act, Api!Return,
                  Api!MakeSessionInfo,
                  Api!UseToken, Api!MakeSession, Api!Calling, Api!At, Bound
    <3> QED
      BY <3>1, WorkingMeans
  <2>2. CASE Api!Unknown(m) \/ Api!Return(m)
    BY <2>1, <2>2, CallFailKeeps DEF Api!Unknown, Api!Return
  <2>3. CASE Api!Cookies(m) \/ Api!Authorize(m) \/ Api!Act(m)
    BY <2>3, CookiesKeeps, AuthorizeKeeps, ActKeeps
  <2>4. CASE Api!MakeSessionInfo(m) \/ Api!UseToken(m) \/ Api!MakeSession(m)
    BY <2>1, <2>4, MakeSessionInfoKeeps, UseTokenKeeps, MakeSessionKeeps
  <2> QED
    BY <1>2, <2>2, <2>3, <2>4 DEF Api!Handle
<1>3. CASE Api!BeginClose \/ Api!SocketGone \/ Api!EndClose
  BY <1>3, ClosingKeeps DEF Api!BeginClose, Api!SocketGone, Api!EndClose, Api!mintVars
<1>4. CASE UNCHANGED Api!vars
  BY <1>4, ClosingKeeps DEF Api!vars
<1> QED
  BY <1>1, <1>2, <1>3, <1>4 DEF Api!Next

THEOREM CallInvariance == Sensible /\ Api!Spec => []CallInv
<1>1. Sensible /\ Api!Init => CallInv
  BY CallBeginning
<1>2. Sensible /\ CallInv /\ [Api!Next]_(Api!vars) => CallInv'
  BY CallStep
<1>3. ASSUME Sensible PROVE Api!Spec => []CallInv
  <2>1. Api!Init => CallInv
    BY <1>1, <1>3
  <2>2. CallInv /\ [Api!Next]_(Api!vars) => CallInv'
    BY <1>2, <1>3
  <2> QED
    BY <2>1, <2>2, PTL DEF Api!Spec
<1> QED
  BY <1>3

LEMMA CallsReach == CallInv => Api!CallsReachTheirObject
<1> SUFFICES ASSUME CallInv PROVE Api!CallsReachTheirObject
  OBVIOUS
<1>1. Api!MapsAgree
  BY DEF CallInv, MapsInverse, Api!MapsAgree
<1>2. \A id \in DOMAIN mint : mint[id].token.id = id
  BY DEF CallInv, MintTrue
<1>3. ASSUME NEW m \in Api!Used, Api!At(m, "called")
      PROVE  LET to == call[m].to
                 obj == call[m].obj
             IN IF to.by = "token"
                THEN /\ Api!HasAuthority(to.token)
                     /\ obj.class = (IF to.token = Api!RootToken THEN "root" ELSE "author")
                     /\ obj.of = mint[to.token.id].author
                ELSE remotes[obj] = to.id /\ obj.class \in {"meta", "session"}
  <2>1. m \in Api!Msgs /\ call[m].stage = "called" /\ call[m].stage \in Bound
    BY <1>3 DEF Api!Used, Api!At, Bound
  <2>2. /\ Named(call[m].to) \in DOMAIN targets
        /\ targets[Named(call[m].to)].token = Guard(call[m].to)
        /\ targets[Named(call[m].to)].obj = call[m].obj
    BY <2>1 DEF CallInv, CallsTrue
  <2>3. CASE call[m].to.by = "token"
    <3>1. call[m].to.token.id \in DOMAIN mint /\ call[m].to.token # Api!NoToken
      BY <2>1, <2>3 DEF CallInv, CallsShaped, MintTrue
    <3> QED
      BY <2>2, <2>3, <3>1 DEF CallInv, TargetsTrue, Named, Guard
  <2>4. CASE call[m].to.by # "token"
    BY <2>2, <2>4 DEF CallInv, TargetsTrue, MapsInverse, Named, Guard
  <2> QED
    BY <2>3, <2>4
<1> QED
  BY <1>1, <1>2, <1>3 DEF Api!CallsReachTheirObject

\* However many calls are handled at a time, and whenever their authorizations
\* come in: a call is made on the object that it names, with the authority that
\* its token was minted for; the two maps of the Context agree; a call that has
\* been let through is answered on a connection that closes; and a token stays
\* good for its author (Context, TokenMint, AppAuthorizer, RootAccess,
\* BaseConnection, ApiLog).
THEOREM CallsAlwaysReach ==
  ASSUME Sensible
  PROVE  Api!Spec => [](Api!CallsReachTheirObject /\ Api!AnsweredOnClosing) /\ Api!TokensStay
<1>1. CallInv => Api!CallsReachTheirObject /\ Api!AnsweredOnClosing
  BY CallsReach DEF CallInv
<1>2. CallInv /\ [Api!Next]_(Api!vars)
        => [\A id \in DOMAIN mint : id \in DOMAIN mint' /\ mint'[id] = mint[id]]_mint
  BY CallStep DEF MintGrows
<1>3. Api!Spec => []CallInv
  BY CallInvariance
<1> QED
  BY <1>1, <1>2, <1>3, PTL DEF Api!Spec, Api!TokensStay

-----------------------------------------------------------------------------
(* CallPiler *)

CONSTANTS Callers, MaxRuns
VARIABLES resultProm, run, piled

Pile == INSTANCE CallPiler WITH call <- piled

PileTyped ==
  /\ resultProm \in Pile!Runs \cup {Pile!NoRun}
  /\ run \in [Pile!Runs -> {"none", "running", "settled"}]
  /\ piled \in [Callers -> Pile!Runs \cup {Pile!NoRun}]

PileInv == PileTyped /\ Pile!OneRun

LEMMA NoRunIsNone == Pile!NoRun \notin Pile!Runs
BY DEF Pile!NoRun, Pile!Runs

LEMMA PileInitIsGood == Pile!Init => PileInv
BY DEF Pile!Init, PileInv, PileTyped, Pile!OneRun

\* A run begins only when no promise is there, and so when none is running.
LEMMA PileCallKeeps ==
  ASSUME PileInv, NEW c \in Callers, Pile!Call(c)
  PROVE  PileInv'
<1> USE DEF PileInv, PileTyped
<1>1. CASE resultProm # Pile!NoRun
  BY <1>1 DEF Pile!Call, Pile!OneRun
<1>2. CASE resultProm = Pile!NoRun
  <2>1. PICK k \in Pile!Runs : /\ run' = [run EXCEPT ![k] = "running"]
                          /\ resultProm' = k
                          /\ piled' = [piled EXCEPT ![c] = k]
    BY <1>2 DEF Pile!Call
  <2>2. \A j \in Pile!Runs : run[j] # "running"
    BY <1>2, NoRunIsNone DEF Pile!OneRun
  <2>3. \A j \in Pile!Runs : run'[j] = "running" => j = k
    BY <2>1, <2>2
  <2> QED
    BY <2>1, <2>3 DEF Pile!OneRun
<1> QED
  BY <1>1, <1>2

\* What is cleared is the promise of a run that has settled.
LEMMA PileReturnKeeps ==
  ASSUME PileInv, NEW c \in Callers, Pile!Return(c)
  PROVE  PileInv'
<1> USE DEF PileInv, PileTyped
<1>1. PileTyped'
  BY DEF Pile!Return
<1>2. \A k \in Pile!Runs : run[k] = "running" => k # piled[c]
  BY DEF Pile!Return
<1>3. Pile!OneRun'
  BY <1>2 DEF Pile!Return, Pile!OneRun
<1> QED
  BY <1>1, <1>3

LEMMA PileSettleKeeps ==
  ASSUME PileInv, NEW k \in Pile!Runs, Pile!Settle(k)
  PROVE  PileInv'
<1>1. PileTyped'
  BY DEF PileInv, PileTyped, Pile!Settle
<1>2. \A j \in Pile!Runs : run'[j] = "running" => run[j] = "running"
  BY DEF PileInv, PileTyped, Pile!Settle
<1>3. Pile!OneRun'
  BY <1>2 DEF PileInv, Pile!Settle, Pile!OneRun
<1> QED
  BY <1>1, <1>3 DEF PileInv

\* However many callers there are, and however long they take to go on after
\* a run: never are two runs of the function active.  (CallPiler.call())
THEOREM RunsOneAtATime == Pile!Spec => []Pile!OneRun
<1>1. PileInv /\ [Pile!Next]_(Pile!vars) => PileInv'
  <2> SUFFICES ASSUME PileInv, [Pile!Next]_(Pile!vars) PROVE PileInv'
    OBVIOUS
  <2>1. CASE UNCHANGED Pile!vars
    BY <2>1 DEF Pile!vars, PileInv, PileTyped, Pile!OneRun
  <2>2. CASE \E c \in Callers : Pile!Call(c)
    BY <2>2, PileCallKeeps
  <2>3. CASE \E c \in Callers : Pile!Return(c)
    BY <2>3, PileReturnKeeps
  <2>4. CASE \E k \in Pile!Runs : Pile!Settle(k)
    BY <2>4, PileSettleKeeps
  <2> QED
    BY <2>1, <2>2, <2>3, <2>4 DEF Pile!Next
<1> QED
  BY PileInitIsGood, <1>1, PTL DEF Pile!Spec, PileInv

-----------------------------------------------------------------------------
(* TrafficSignal *)

CONSTANTS Loads, Steps, MaxAsked
VARIABLES signal, factor, busy, healthy, poll, held, log

Signal == INSTANCE TrafficSignal

Sizes == {"conns", "docs", "docSize", "fileSize", "files", "sessions"}

\* What the constants are: loads and times are natural numbers.
Measured ==
  /\ Loads \subseteq [Sizes -> Nat]
  /\ Steps \subseteq Nat

SignalTyped ==
  /\ signal \in [allow : BOOLEAN, redFor : Nat, greenFor : Nat, shuttingDown : BOOLEAN]
  /\ factor \in [conns : Nat, docs : Nat, files : Nat, size : Nat, sessions : Nat]
  /\ busy \in [Sizes -> Nat]
  /\ held \in Nat

\* As long as the signal is green, the time that it has to stay so and the time
\* that it has been so make a minute at least.
GreenCounts ==
  /\ signal.greenFor <= Signal!Minute /\ held <= Signal!Minute
  /\ signal.allow => held + signal.greenFor >= Signal!Minute

SignalInv == SignalTyped /\ GreenCounts

LEMMA DivBounded ==
  ASSUME NEW a \in Nat, NEW b \in Nat \ {0}, NEW k \in Nat, a < b * (k + 1)
  PROVE  a \div b \in 0..k
OBVIOUS

\* Of a time m a share s / r, rounded, is between nothing and the whole of it.
LEMMA ShareBounded ==
  ASSUME NEW s \in Nat, NEW r \in Nat \ {0}, s <= r, NEW m \in Nat
  PROVE  (2 * (s * m) + r) \div (2 * r) \in 0..m
<1> DEFINE a == 2 * (s * m) + r
           b == 2 * r
<1>1. s * m \in Nat /\ r * m \in Nat
  OBVIOUS
<1>2. s * m <= r * m
  <2>1. PICK e \in Nat : r = s + e
    <3>1. r - s \in Nat /\ r = s + (r - s)
      OBVIOUS
    <3> QED
      BY <3>1
  <2>2. r * m = s * m + e * m /\ e * m \in Nat
    BY <2>1
  <2> QED
    BY <1>1, <2>2
<1>3. b * (m + 1) = 2 * (r * m) + 2 * r
  OBVIOUS
<1>4. a < b * (m + 1)
  BY <1>1, <1>2, <1>3
<1>5. a \in Nat /\ b \in Nat \ {0}
  BY <1>1
<1> HIDE DEF a, b
<1>6. a \div b \in 0..m
  BY <1>4, <1>5, DivBounded
<1> QED
  BY <1>6 DEF a, b

\* The numerals themselves are kept from the provers.
LEMMA MinuteTyped == Signal!Minute \in Nat /\ Signal!Minute > 0
BY SMT DEF Signal!Minute

LEMMA NeverTyped == Signal!Never \in Nat
BY SMT DEF Signal!Never

\* The signal is red for a minute at most, however heavy the load is.
LEMMA OffTimeBounded ==
  ASSUME NEW load \in Nat
  PROVE  Signal!OffTime(load) \in 0..Signal!Minute
<1>1. CASE load < Signal!MinLoad
  BY <1>1, MinuteTyped DEF Signal!OffTime
<1>2. CASE ~ (load < Signal!MinLoad)
  <2> DEFINE over == Signal!Smaller(load, Signal!MaxLoad) - Signal!MinLoad
             share == 70 + 4 * over
             rest == 700 - share
  <2>1. over \in 0..70
    BY <1>2, SMT DEF Signal!Smaller, Signal!MinLoad, Signal!MaxLoad
  <2> HIDE DEF over
  <2>2. share \in Nat /\ rest \in Nat \ {0} /\ share <= rest
    BY <2>1, SMT
  <2>3. Signal!OffTime(load) = Signal!Round(share * Signal!Minute, rest)
    BY <1>2 DEF Signal!OffTime, over
  <2> HIDE DEF share, rest
  <2>4. PICK m \in Nat : m = Signal!Minute
    BY MinuteTyped
  <2>5. (2 * (share * m) + rest) \div (2 * rest) \in 0..m
    BY <2>2, ShareBounded
  <2> QED
    BY <2>3, <2>4, <2>5 DEF Signal!Round
<1> QED
  BY <1>1, <1>2

LEMMA SumTyped ==
  ASSUME NEW c \in Nat, NEW d \in Nat, NEW f \in Nat, NEW z \in Nat, NEW n \in Nat
  PROVE  Signal!CeilDiv(50 * c + 5 * Signal!Larger(d, f) + 8 * z + 4 * n, 200) \in Nat
<1> DEFINE sum == 50 * c + 5 * Signal!Larger(d, f) + 8 * z + 4 * n
<1>1. Signal!Larger(d, f) \in Nat
  BY DEF Signal!Larger
<1>2. sum + 200 - 1 \in Nat
  BY <1>1
<1>3. Signal!CeilDiv(sum, 200) = (sum + 200 - 1) \div 200
  BY DEF Signal!CeilDiv
<1> HIDE DEF sum
<1>4. (sum + 200 - 1) \div 200 \in Nat
  BY <1>2
<1> QED
  BY <1>3, <1>4 DEF sum

LEMMA ValueTyped ==
  ASSUME NEW f \in [conns : Nat, docs : Nat, files : Nat, size : Nat, sessions : Nat]
  PROVE  Signal!Value(f) \in Nat
BY SumTyped DEF Signal!Value

\* What shouldAllowTraffic() makes of the signal: red for a minute at most
\* unless the server is ill or ending, and from green to red only when there
\* is nothing left of the minute.
LEMMA RecalcKeeps ==
  ASSUME NEW s \in [allow : BOOLEAN, redFor : Nat, greenFor : Nat, shuttingDown : BOOLEAN],
         NEW well \in BOOLEAN, NEW load \in Nat,
         s.greenFor <= Signal!Minute,
         NEW t, t = Signal!Recalc(s, well, load)
  PROVE  /\ t \in [allow : BOOLEAN, redFor : Nat, greenFor : Nat, shuttingDown : BOOLEAN]
         /\ t.shuttingDown = s.shuttingDown
         /\ t.greenFor <= Signal!Minute
         /\ s.allow /\ t.allow => t.greenFor = s.greenFor
         /\ ~ s.allow /\ t.allow => t.greenFor = Signal!Minute
         /\ s.allow /\ ~ t.allow /\ well /\ ~ s.shuttingDown =>
              s.greenFor = 0 /\ t.redFor <= Signal!Minute
<1>1. CASE s.shuttingDown \/ ~ well
  <2>1. t = [s EXCEPT !.allow = FALSE, !.redFor = Signal!Never]
    BY <1>1 DEF Signal!Recalc
  <2> QED
    BY <1>1, <2>1, NeverTyped
<1>2. CASE ~ (s.shuttingDown \/ ~ well)
  <2> DEFINE u == IF s.redFor = Signal!Never THEN [s EXCEPT !.redFor = 0] ELSE s
  <2>1. /\ u \in [allow : BOOLEAN, redFor : Nat, greenFor : Nat, shuttingDown : BOOLEAN]
        /\ u.allow = s.allow /\ u.greenFor = s.greenFor /\ u.shuttingDown = s.shuttingDown
    OBVIOUS
  <2>2. t = Signal!Cycle(u, load)
    BY <1>2 DEF Signal!Recalc
  <2> HIDE DEF u
  <2>3. Signal!OffTime(load) \in 0..Signal!Minute /\ Signal!Minute \in Nat
    BY OffTimeBounded, MinuteTyped
  <2>4. CASE ~ u.allow /\ u.redFor = 0
    <3>1. t = [u EXCEPT !.allow = TRUE, !.greenFor = Signal!Minute]
      BY <2>2, <2>4 DEF Signal!Cycle
    <3>2. /\ t \in [allow : BOOLEAN, redFor : Nat, greenFor : Nat, shuttingDown : BOOLEAN]
          /\ t.allow = TRUE /\ t.greenFor = Signal!Minute /\ t.shuttingDown = u.shuttingDown
      BY <2>1, <2>3, <3>1
    <3> QED
      BY <2>1, <2>3, <2>4, <3>2
  <2>5. CASE u.allow /\ ~ (u.greenFor > 0 \/ load < Signal!MinLoad)
    <3>1. t = [u EXCEPT !.allow = FALSE, !.redFor = Signal!OffTime(load)]
      BY <2>2, <2>5 DEF Signal!Cycle
    <3>2. u.greenFor = 0
      BY <2>1, <2>5
    <3>3. PICK off \in Nat : off = Signal!OffTime(load) /\ off <= Signal!Minute
      BY <2>3
    <3>4. /\ t \in [allow : BOOLEAN, redFor : Nat, greenFor : Nat, shuttingDown : BOOLEAN]
          /\ t.allow = FALSE /\ t.redFor = off /\ t.greenFor = u.greenFor
          /\ t.shuttingDown = u.shuttingDown
      BY <2>1, <3>1, <3>3
    <3> QED
      BY <2>1, <2>3, <2>5, <3>2, <3>3, <3>4
  <2>6. CASE (~ u.allow /\ u.redFor # 0)
             \/ (u.allow /\ (u.greenFor > 0 \/ load < Signal!MinLoad))
    BY <2>1, <2>2, <2>6 DEF Signal!Cycle
  <2> QED
    BY <2>4, <2>5, <2>6
<1> QED
  BY <1>1, <1>2

\* A question, after which nothing else may have changed that counts; when the
\* server begins to end, its signal knows.
LEMMA AskingKeeps ==
  ASSUME SignalInv, healthy \in BOOLEAN,
         NEW s \in {signal, [signal EXCEPT !.shuttingDown = TRUE]},
         NEW load \in Nat,
         signal' = Signal!Recalc(s, healthy, load),
         held' = IF signal'.allow /\ ~ signal.allow THEN 0 ELSE held
  PROVE  /\ signal' \in [allow : BOOLEAN, redFor : Nat, greenFor : Nat, shuttingDown : BOOLEAN]
         /\ held' \in Nat
         /\ GreenCounts'
         /\ signal.allow /\ ~ signal'.allow /\ healthy /\ ~ signal'.shuttingDown
              => held = Signal!Minute /\ signal'.redFor <= Signal!Minute
<1>1. /\ s \in [allow : BOOLEAN, redFor : Nat, greenFor : Nat, shuttingDown : BOOLEAN]
      /\ s.allow = signal.allow /\ s.greenFor = signal.greenFor
  BY DEF SignalInv, SignalTyped
<1>2. /\ held \in Nat /\ held <= Signal!Minute /\ s.greenFor <= Signal!Minute
      /\ signal.allow => held + s.greenFor >= Signal!Minute
      /\ Signal!Minute \in Nat
  BY <1>1, MinuteTyped DEF SignalInv, SignalTyped, GreenCounts
<1>3. /\ signal' \in [allow : BOOLEAN, redFor : Nat, greenFor : Nat, shuttingDown : BOOLEAN]
      /\ signal'.shuttingDown = s.shuttingDown
      /\ signal'.greenFor <= Signal!Minute
      /\ s.allow /\ signal'.allow => signal'.greenFor = s.greenFor
      /\ ~ s.allow /\ signal'.allow => signal'.greenFor = Signal!Minute
      /\ s.allow /\ ~ signal'.allow /\ healthy /\ ~ s.shuttingDown =>
           s.greenFor = 0 /\ signal'.redFor <= Signal!Minute
  <2>1. PICK t : t = signal'
    OBVIOUS
  <2> QED
    BY <1>1, <1>2, <2>1, RecalcKeeps
<1> QED
  BY <1>1, <1>2, <1>3 DEF GreenCounts

LEMMA SignalStep ==
  ASSUME Measured, SignalInv, healthy \in BOOLEAN, [Signal!Next]_(Signal!vars)
  PROVE  /\ SignalInv' /\ healthy' \in BOOLEAN
         /\ signal.allow /\ ~ signal'.allow /\ healthy /\ ~ signal'.shuttingDown
              => held = Signal!Minute /\ signal'.redFor <= Signal!Minute
<1>1. ASSUME NEW d \in Steps, Signal!Tick(d)
      PROVE  SignalInv' /\ healthy' \in BOOLEAN /\ signal'.allow = signal.allow
  <2>1. d \in Nat
    BY DEF Measured
  <2>2. PICK red, green \in Nat : red = signal.redFor /\ green = signal.greenFor
    BY DEF SignalInv, SignalTyped
  <2>3. /\ Signal!Left(red, d) \in Nat /\ Signal!Left(green, d) \in Nat
        /\ Signal!Left(green, d) <= green
        /\ green <= Signal!Minute => Signal!Left(green, d) >= green - d
    BY <2>1, <2>2, NeverTyped, MinuteTyped DEF Signal!Left, Signal!Larger
  <2>4. /\ signal' \in [allow : BOOLEAN, redFor : Nat, greenFor : Nat, shuttingDown : BOOLEAN]
        /\ signal'.allow = signal.allow /\ signal'.greenFor = Signal!Left(green, d)
    BY <1>1, <2>2, <2>3 DEF Signal!Tick, SignalInv, SignalTyped
  <2>5. held' = Signal!Smaller(held + d, Signal!Minute) /\ held \in Nat
    BY <1>1 DEF Signal!Tick, SignalInv, SignalTyped
  <2>6. held' \in Nat /\ GreenCounts'
    BY <2>1, <2>2, <2>3, <2>4, <2>5, MinuteTyped
       DEF Signal!Smaller, SignalInv, GreenCounts
  <2> QED
    BY <1>1, <2>4, <2>6 DEF Signal!Tick, SignalInv, SignalTyped
<1>2. ASSUME Signal!StartPoll \/ Signal!AggregationTimer \/ Signal!LoadChanges
               \/ Signal!HealthChanges \/ UNCHANGED Signal!vars
      PROVE  SignalInv' /\ healthy' \in BOOLEAN /\ signal'.allow = signal.allow
  <2>1. signal' = signal /\ held' = held /\ healthy' \in BOOLEAN
    BY <1>2 DEF Signal!StartPoll, Signal!AggregationTimer, Signal!LoadChanges,
                Signal!HealthChanges, Signal!vars
  <2>2. /\ factor' \in [conns : Nat, docs : Nat, files : Nat, size : Nat, sessions : Nat]
        /\ busy' \in [Sizes -> Nat]
    BY <1>2 DEF Signal!StartPoll, Signal!AggregationTimer, Signal!LoadChanges,
                Signal!HealthChanges, Signal!vars, SignalInv, SignalTyped, Sizes, Measured
  <2> QED
    BY <2>1, <2>2 DEF SignalInv, SignalTyped, GreenCounts
<1>3. ASSUME Signal!FinishPoll
      PROVE  SignalInv' /\ healthy' \in BOOLEAN
             /\ (signal.allow /\ ~ signal'.allow /\ healthy /\ ~ signal'.shuttingDown
                   => held = Signal!Minute /\ signal'.redFor <= Signal!Minute)
  <2>1. factor' = Signal!Consumption(factor, busy) /\ busy' = busy /\ healthy' = healthy
    BY <1>3 DEF Signal!FinishPoll
  <2>2. factor' \in [conns : Nat, docs : Nat, files : Nat, size : Nat, sessions : Nat]
    <3>1. /\ factor \in [conns : Nat, docs : Nat, files : Nat, size : Nat, sessions : Nat]
          /\ \A k \in Sizes : busy[k] \in Nat
      BY DEF SignalInv, SignalTyped
    <3>2. PICK d, f, s, z \in Nat : /\ d = busy.docs /\ f = busy.files /\ s = busy.sessions
                                   /\ z = IF busy.docSize + busy.fileSize # 0
                                          THEN busy.docSize + busy.fileSize ELSE factor.size
      BY <3>1 DEF Sizes
    <3>3. factor' = [factor EXCEPT !.docs = d, !.files = f, !.sessions = s, !.size = z]
      BY <2>1, <3>2 DEF Signal!Consumption
    <3> QED
      BY <3>1, <3>3
  <2>3. Signal!Value(factor') \in Nat
    BY <2>2, ValueTyped
  <2>4. /\ signal' = Signal!Recalc(signal, healthy, Signal!Value(factor'))
        /\ held' = IF signal'.allow /\ ~ signal.allow THEN 0 ELSE held
    BY <1>3 DEF Signal!FinishPoll, Signal!ShouldAllowTraffic
  <2>5. PICK load \in Nat : load = Signal!Value(factor')
    BY <2>3
  <2>6. signal' = Signal!Recalc(signal, healthy, load)
    BY <2>4, <2>5
  <2> QED
    BY <2>1, <2>2, <2>4, <2>6, AskingKeeps DEF SignalInv, SignalTyped
<1>4. ASSUME NEW s \in {signal, [signal EXCEPT !.shuttingDown = TRUE]},
             Signal!ShouldAllowTraffic(s, factor),
             UNCHANGED <<factor, busy, healthy>>
      PROVE  SignalInv' /\ healthy' \in BOOLEAN
             /\ (signal.allow /\ ~ signal'.allow /\ healthy /\ ~ signal'.shuttingDown
                   => held = Signal!Minute /\ signal'.redFor <= Signal!Minute)
  <2>1. PICK load \in Nat : load = Signal!Value(factor)
    BY ValueTyped DEF SignalInv, SignalTyped
  <2>2. /\ signal' = Signal!Recalc(s, healthy, load)
        /\ held' = IF signal'.allow /\ ~ signal.allow THEN 0 ELSE held
    BY <1>4, <2>1 DEF Signal!ShouldAllowTraffic
  <2> QED
    BY <1>4, <2>2, AskingKeeps DEF SignalInv, SignalTyped
<1>5. CASE Signal!Ask
  BY <1>4, <1>5 DEF Signal!Ask
<1>6. CASE Signal!ShuttingDown
  BY <1>4, <1>6 DEF Signal!ShuttingDown
<1> QED
  BY <1>1, <1>2, <1>3, <1>5, <1>6 DEF Signal!Next

\* Whatever load comes, however time passes between polls, and whoever asks:
\* load makes the signal red only after a minute of green, and then for a
\* minute at most (TrafficSignal._recalc(), Application, Monitor).
THEOREM GreenAlwaysHolds ==
  ASSUME Measured
  PROVE  Signal!Spec => Signal!GreenHolds
<1> DEFINE Inv == SignalInv /\ healthy \in BOOLEAN
           Holds == signal.allow /\ ~ signal'.allow /\ healthy /\ ~ signal'.shuttingDown
                      => held = Signal!Minute /\ signal'.redFor <= Signal!Minute
<1>1. Signal!Init => Inv
  BY MinuteTyped DEF Signal!Init, SignalInv, SignalTyped, GreenCounts, Signal!NoLoad, Sizes
<1>2. Inv /\ [Signal!Next]_(Signal!vars) => Inv' /\ Holds
  BY SignalStep
<1> HIDE DEF Inv
<1>3. Signal!Spec => [][Holds]_(Signal!vars)
  <2> HIDE DEF Holds
  <2> QED
    BY <1>1, <1>2, PTL DEF Signal!Spec
<1> QED
  BY <1>3 DEF Signal!GreenHolds

-----------------------------------------------------------------------------
(* DevMode: what a build would make of a file, and which changes matter     *)

CONSTANTS ClientFiles, ServerFiles, Layers, Contents, Absent, MaxEdits, HiddenReappear
VARIABLES source, out, watching, recent, changes, process, edits

Develop == INSTANCE DevMode

\* The directories of a tree that have a file, and the one on top of them.
HaveIt(tree, file) == {d \in 1..Layers : tree[d][file] # Absent}

IsTop(tree, file, d) == d \in HaveIt(tree, file) /\ \A e \in HaveIt(tree, file) : d <= e

Matters(tree, file, d) == HaveIt(tree, file) = {} \/ IsTop(tree, file, d)

\* What a build makes of a file.
IsBuilt(tree, file, contents) ==
  /\ HaveIt(tree, file) = {} => contents = Absent
  /\ \A d \in 1..Layers : IsTop(tree, file, d) => contents = tree[d][file]

\* If some directory has it, one is on top, which FromPath() chooses.
LEMMA TopIsThere ==
  ASSUME Layers \in Nat, NEW tree, NEW file, HaveIt(tree, file) # {}
  PROVE  \E top \in 1..Layers :
           /\ IsTop(tree, file, top) /\ \A d : IsTop(tree, file, d) => d = top
           /\ top = CHOOSE d \in HaveIt(tree, file) : \A e \in HaveIt(tree, file) : d <= e
<1>1. PICK S : S = HaveIt(tree, file)
  OBVIOUS
<1>2. S \in SUBSET Nat /\ S # {} /\ S \subseteq 1..Layers
  BY <1>1 DEF HaveIt
<1>3. PICK top \in S : \A e \in S : top <= e
  BY <1>2, LeastNatural
<1>4. \A d \in S : (\A e \in S : d <= e) => d = top
  BY <1>2, <1>3
<1>5. (CHOOSE d \in S : \A e \in S : d <= e) = top
  BY <1>3, <1>4
<1> QED
  BY <1>1, <1>2, <1>3, <1>4, <1>5 DEF IsTop

\* There is one thing only that a build makes of a file.
LEMMA OneBuilt ==
  ASSUME Layers \in Nat, NEW tree, NEW file, NEW x, NEW y,
         IsBuilt(tree, file, x), IsBuilt(tree, file, y)
  PROVE  x = y
BY TopIsThere DEF IsBuilt

\* A build makes that.
LEMMA BuiltIs ==
  ASSUME Layers \in Nat, NEW file \in Develop!Files
  PROVE  IsBuilt(source, file, Develop!Built[file])
<1>1. PICK tree : tree = source
  OBVIOUS
<1>2. Develop!Candidates(file) = HaveIt(tree, file)
  BY <1>1 DEF Develop!Candidates, Develop!Dirs, HaveIt
<1>3. CASE HaveIt(tree, file) = {}
  BY <1>1, <1>2, <1>3 DEF Develop!Built, IsBuilt, IsTop
<1>4. CASE HaveIt(tree, file) # {}
  <2>1. PICK top \in 1..Layers :
          /\ \A d : IsTop(tree, file, d) => d = top
          /\ top = CHOOSE d \in HaveIt(tree, file) : \A e \in HaveIt(tree, file) : d <= e
    BY <1>4, TopIsThere
  <2>2. Develop!FromPath(file) = top
    BY <1>2, <2>1 DEF Develop!FromPath
  <2>3. Develop!Built[file] = tree[top][file]
    BY <1>1, <1>2, <1>4, <2>2 DEF Develop!Built
  <2> QED
    BY <1>1, <1>4, <2>1, <2>3 DEF IsBuilt
<1> QED
  BY <1>3, <1>4

\* A change is salient if it matters.
LEMMA SalientIs ==
  ASSUME Layers \in Nat, NEW file, NEW d
  PROVE  Develop!Salient(d, file) <=> Matters(source, file, d)
<1>1. PICK tree : tree = source
  OBVIOUS
<1>2. Develop!Candidates(file) = HaveIt(tree, file)
  BY <1>1 DEF Develop!Candidates, Develop!Dirs, HaveIt
<1>3. CASE HaveIt(tree, file) = {}
  BY <1>1, <1>2, <1>3 DEF Develop!Salient, Matters
<1>4. CASE HaveIt(tree, file) # {}
  <2>1. PICK top \in 1..Layers :
          /\ IsTop(tree, file, top) /\ \A e : IsTop(tree, file, e) => e = top
          /\ top = CHOOSE e \in HaveIt(tree, file) : \A x \in HaveIt(tree, file) : e <= x
    BY <1>4, TopIsThere
  <2>2. Develop!FromPath(file) = top
    BY <1>2, <2>1 DEF Develop!FromPath
  <2> QED
    BY <1>1, <1>2, <1>4, <2>1, <2>2 DEF Develop!Salient, Matters
<1> QED
  BY <1>3, <1>4

\* A file is edited: what is built of it stays, or the change matters; and what
\* has mattered goes on to do so, or this one does.
LEMMA EditMatters ==
  ASSUME Layers \in Nat, NEW tree, NEW tree2, NEW file, NEW d \in 1..Layers, NEW contents,
         \A e \in 1..Layers : tree2[e][file] = IF e = d THEN contents ELSE tree[e][file],
         contents = Absent => ~ IsTop(tree, file, d) \/ HaveIt(tree, file) = {d}
  PROVE  \/ Matters(tree2, file, d)
         \/ /\ \A x : IsBuilt(tree, file, x) <=> IsBuilt(tree2, file, x)
            /\ \A e \in 1..Layers : Matters(tree, file, e) => Matters(tree2, file, e)
<1> SUFFICES ASSUME ~ Matters(tree2, file, d)
             PROVE  /\ \A x : IsBuilt(tree, file, x) <=> IsBuilt(tree2, file, x)
                    /\ \A e \in 1..Layers : Matters(tree, file, e) => Matters(tree2, file, e)
  OBVIOUS
<1>1. PICK S, T : S = HaveIt(tree, file) /\ T = HaveIt(tree2, file)
  OBVIOUS
<1>2. /\ S \subseteq 1..Layers /\ T \subseteq 1..Layers
      /\ T = IF contents = Absent THEN S \ {d} ELSE S \cup {d}
  BY <1>1 DEF HaveIt
<1>3. T # {}
  BY <1>1 DEF Matters
<1>4. PICK top \in 1..Layers : IsTop(tree2, file, top) /\ \A e : IsTop(tree2, file, e) => e = top
  BY <1>1, <1>3, TopIsThere
<1>5. top # d /\ top \in S /\ top \in T /\ \A e \in T : top <= e
  BY <1>1, <1>2, <1>4 DEF Matters, IsTop
<1>6. \A e \in S : top <= e
  <2>1. CASE contents # Absent
    BY <1>2, <1>5, <2>1
  <2>2. CASE contents = Absent
    <3>1. S # {d}
      BY <1>5
    <3>2. ~ IsTop(tree, file, d)
      BY <1>1, <2>2, <3>1
    <3>3. d \in S => \E e \in S : e < d
      BY <1>1, <1>2, <3>2 DEF IsTop
    <3>4. d \in S => top <= d
      BY <1>2, <1>5, <2>2, <3>3
    <3> QED
      BY <1>2, <1>5, <2>2, <3>4
  <2> QED
    BY <2>1, <2>2
<1>7. \A e \in 1..Layers : IsTop(tree, file, e) <=> e = top
  BY <1>1, <1>2, <1>5, <1>6 DEF IsTop
<1>8. tree2[top][file] = tree[top][file]
  BY <1>5
<1>9. S # {}
  BY <1>5
<1> QED
  BY <1>1, <1>3, <1>4, <1>7, <1>8, <1>9 DEF IsBuilt, Matters

\* Only what the directories have of that file counts.
LEMMA BuiltOfFile ==
  ASSUME NEW tree, NEW tree2, NEW file,
         \A e \in 1..Layers : tree2[e][file] = tree[e][file]
  PROVE  /\ \A x : IsBuilt(tree, file, x) <=> IsBuilt(tree2, file, x)
         /\ \A e : Matters(tree, file, e) <=> Matters(tree2, file, e)
<1>1. HaveIt(tree, file) = HaveIt(tree2, file)
  BY DEF HaveIt
<1>2. \A e : IsTop(tree, file, e) <=> IsTop(tree2, file, e)
  BY <1>1 DEF IsTop
<1> QED
  BY <1>1, <1>2 DEF IsBuilt, Matters

\* A file is as it is built, or a change of it that matters is yet to be told of.
Follows(tree, o, told, file) ==
  \/ IsBuilt(tree, file, o[file])
  \/ \E d \in 1..Layers : <<d, file>> \in told /\ Matters(tree, file, d)

DevelopTyped ==
  /\ source \in [1..Layers -> [Develop!Files -> Contents \cup {Absent}]]
  /\ out \in [Develop!Files -> Contents \cup {Absent}]
  /\ process \in {"running", "exiting", "exited"}
  /\ \A p \in recent : /\ p \in (1..Layers) \X Develop!Files
                       /\ Develop!Watched(p[2]) \notin watching

\* While the process runs, every file follows.
DevelopInv ==
  /\ DevelopTyped
  /\ process = "running" =>
       \A file \in Develop!Files : Follows(source, out, changes \cup recent, file)

LEMMA BuiltTyped ==
  ASSUME Layers \in Nat, source \in [1..Layers -> [Develop!Files -> Contents \cup {Absent}]]
  PROVE  Develop!Built \in [Develop!Files -> Contents \cup {Absent}]
<1> SUFFICES ASSUME NEW file \in Develop!Files PROVE Develop!Built[file] \in Contents \cup {Absent}
  BY DEF Develop!Built
<1>1. PICK tree : tree = source
  OBVIOUS
<1>2. PICK x : x = Develop!Built[file]
  OBVIOUS
<1>3. IsBuilt(tree, file, x)
  BY <1>1, <1>2, BuiltIs
<1>4. CASE HaveIt(tree, file) = {}
  BY <1>2, <1>3, <1>4 DEF IsBuilt
<1>5. CASE HaveIt(tree, file) # {}
  <2>1. PICK top \in 1..Layers : IsTop(tree, file, top)
    BY <1>5, TopIsThere
  <2> QED
    BY <1>1, <1>2, <1>3, <2>1 DEF IsBuilt
<1> QED
  BY <1>4, <1>5

LEMMA DevelopBegins == Layers \in Nat /\ Develop!Init => DevelopInv
<1> SUFFICES ASSUME Layers \in Nat, Develop!Init PROVE DevelopInv
  OBVIOUS
<1>1. DevelopTyped
  BY BuiltTyped DEF Develop!Init, Develop!Dirs, DevelopTyped
<1>2. ASSUME NEW file \in Develop!Files PROVE Follows(source, out, changes \cup recent, file)
  BY BuiltIs DEF Develop!Init, Follows
<1> QED
  BY <1>1, <1>2 DEF DevelopInv

LEMMA EditFollows ==
  ASSUME Layers \in Nat, ~ HiddenReappear, DevelopInv,
         NEW d \in 1..Layers, NEW file \in Develop!Files, NEW c \in Contents \cup {Absent},
         Develop!Edit(d, file, c)
  PROVE  DevelopInv'
<1>1. PICK tree, tree2, o, told, told2 :
        /\ tree = source /\ tree2 = source' /\ o = out
        /\ told = changes \cup recent /\ told2 = (changes \cup recent)'
  OBVIOUS
<1>2. /\ tree \in [1..Layers -> [Develop!Files -> Contents \cup {Absent}]]
      /\ tree2 = [tree EXCEPT ![d][file] = c]
      /\ told2 = told \cup {<<d, file>>}
      /\ UNCHANGED <<out, process, watching>>
  BY <1>1 DEF Develop!Edit, DevelopInv, DevelopTyped
<1>3. /\ tree2 \in [1..Layers -> [Develop!Files -> Contents \cup {Absent}]]
      /\ \A e \in 1..Layers : tree2[e][file] = IF e = d THEN c ELSE tree[e][file]
      /\ \A e \in 1..Layers, f \in Develop!Files \ {file} : tree2[e][f] = tree[e][f]
  BY <1>2
<1>4. DevelopTyped'
  <2>1. recent' \subseteq recent \cup {<<d, file>>}
    BY DEF Develop!Edit
  <2>2. <<d, file>> \in recent' =>
          Develop!Watched(file) \notin watching \/ <<d, file>> \in recent
    BY DEF Develop!Edit
  <2>3. ASSUME NEW p \in recent'
        PROVE  p \in (1..Layers) \X Develop!Files /\ Develop!Watched(p[2]) \notin watching
    <3>1. CASE p \in recent
      BY <3>1 DEF DevelopInv, DevelopTyped
    <3>2. CASE p = <<d, file>> /\ p \notin recent
      BY <2>2, <2>3, <3>2
    <3> QED
      BY <2>1, <3>1, <3>2
  <2> QED
    BY <1>1, <1>2, <1>3, <2>3 DEF DevelopInv, DevelopTyped, Develop!Files, Develop!Watched
<1>5. c = Absent => ~ IsTop(tree, file, d) \/ HaveIt(tree, file) = {d}
  <2> SUFFICES ASSUME c = Absent PROVE ~ IsTop(tree, file, d) \/ HaveIt(tree, file) = {d}
    OBVIOUS
  <2>1. Develop!Candidates(file) = HaveIt(tree, file)
    BY <1>1 DEF Develop!Candidates, Develop!Dirs, HaveIt
  <2>2. Develop!FromPath(file) # d \/ HaveIt(tree, file) = {d}
    BY <2>1 DEF Develop!Edit
  <2>3. CASE IsTop(tree, file, d)
    <3>1. PICK top \in 1..Layers :
            /\ \A e : IsTop(tree, file, e) => e = top
            /\ top = CHOOSE e \in HaveIt(tree, file) : \A x \in HaveIt(tree, file) : e <= x
      BY <2>3, TopIsThere DEF IsTop
    <3>2. Develop!FromPath(file) = d
      BY <2>1, <2>3, <3>1 DEF Develop!FromPath
    <3> QED
      BY <2>2, <3>2
  <2> QED
    BY <2>3
<1>6. ASSUME process = "running", NEW f \in Develop!Files
      PROVE  Follows(tree2, o, told2, f)
  <2>1. Follows(tree, o, told, f)
    BY <1>1, <1>6 DEF DevelopInv
  <2>2. CASE f # file
    <3>1. /\ \A x : IsBuilt(tree, f, x) <=> IsBuilt(tree2, f, x)
          /\ \A e : Matters(tree, f, e) <=> Matters(tree2, f, e)
      BY <1>3, <2>2, BuiltOfFile
    <3> QED
      BY <1>2, <2>1, <3>1 DEF Follows
  <2>3. CASE f = file
    <3>1. \/ Matters(tree2, file, d)
          \/ /\ \A x : IsBuilt(tree, file, x) <=> IsBuilt(tree2, file, x)
             /\ \A e \in 1..Layers : Matters(tree, file, e) => Matters(tree2, file, e)
      BY <1>3, <1>5, EditMatters
    <3>2. CASE Matters(tree2, file, d)
      BY <1>2, <2>3, <3>2 DEF Follows
    <3>3. CASE ~ Matters(tree2, file, d)
      BY <1>2, <2>1, <2>3, <3>1, <3>3 DEF Follows
    <3> QED
      BY <3>2, <3>3
  <2> QED
    BY <2>2, <2>3
<1> QED
  BY <1>1, <1>2, <1>4, <1>6 DEF DevelopInv, Develop!Files

LEMMA HandleFollows ==
  ASSUME Layers \in Nat, DevelopInv,
         NEW d \in 1..Layers, NEW file \in Develop!Files, Develop!Handle(d, file)
  PROVE  DevelopInv'
<1>1. PICK tree, o, o2, told, told2 :
        /\ tree = source /\ o = out /\ o2 = out'
        /\ told = changes \cup recent /\ told2 = (changes \cup recent)'
  OBVIOUS
<1>2. /\ tree \in [1..Layers -> [Develop!Files -> Contents \cup {Absent}]]
      /\ o \in [Develop!Files -> Contents \cup {Absent}]
      /\ told \ {<<d, file>>} \subseteq told2
      /\ UNCHANGED <<source, watching, recent>>
      /\ process \in {"running", "exiting"}
      /\ process' \in {process, "exiting"}
  BY <1>1 DEF Develop!Handle, DevelopInv, DevelopTyped
<1>3. Develop!Salient(d, file) <=> Matters(tree, file, d)
  BY <1>1, SalientIs
<1>4. \/ o2 = o
      \/ /\ file \in ClientFiles /\ Matters(tree, file, d)
         /\ o2 = [o EXCEPT ![file] = tree[d][file]]
  BY <1>1, <1>3 DEF Develop!Handle, Develop!ClientChanged
<1>5. DevelopTyped'
  BY <1>1, <1>2, <1>4 DEF DevelopInv, DevelopTyped, Develop!Files, Develop!Watched
<1>6. ASSUME process' = "running", NEW f \in Develop!Files
      PROVE  Follows(tree, o2, told2, f)
  <2>1. process = "running" /\ Follows(tree, o, told, f)
    BY <1>1, <1>2, <1>6 DEF DevelopInv
  <2>2. CASE f # file
    BY <1>2, <1>4, <2>1, <2>2 DEF Follows
  <2>3. CASE f = file /\ ~ Matters(tree, file, d)
    BY <1>2, <1>4, <2>1, <2>3 DEF Follows
  <2>4. CASE f = file /\ Matters(tree, file, d)
    <3>1. file \in ClientFiles
      BY <1>3, <1>6, <2>1, <2>4 DEF Develop!Handle, Develop!Exits, Develop!Files
    <3>2. o2[file] = tree[d][file]
      BY <1>1, <1>2, <1>3, <2>1, <2>4, <3>1 DEF Develop!Handle, Develop!ClientChanged
    <3>3. IsBuilt(tree, file, tree[d][file])
      <4>1. CASE HaveIt(tree, file) = {}
        BY <4>1 DEF HaveIt, IsBuilt, IsTop
      <4>2. CASE IsTop(tree, file, d)
        <5>1. HaveIt(tree, file) # {}
          BY <4>2 DEF IsTop
        <5>2. PICK top \in 1..Layers : \A e : IsTop(tree, file, e) => e = top
          BY <5>1, TopIsThere
        <5> QED
          BY <4>2, <5>1, <5>2 DEF IsBuilt
      <4> QED
        BY <2>4, <4>1, <4>2 DEF Matters
    <3> QED
      BY <2>4, <3>2, <3>3 DEF Follows
  <2> QED
    BY <2>2, <2>3, <2>4
<1> QED
  BY <1>1, <1>2, <1>5, <1>6 DEF DevelopInv, Develop!Files

LEMMA ReadyFollows ==
  ASSUME Layers \in Nat, DevelopInv,
         NEW watcher \in {"client", "server"}, Develop!Ready(watcher)
  PROVE  DevelopInv'
<1> DEFINE salient == {file \in Develop!FilesOf(watcher) :
                         \E d \in Develop!Dirs : /\ <<d, file>> \in recent
                                                 /\ Develop!Salient(d, file)}
<1>1. PICK tree, o, o2, told, told2 :
        /\ tree = source /\ o = out /\ o2 = out'
        /\ told = changes \cup recent /\ told2 = (changes \cup recent)'
  OBVIOUS
<1>2. /\ tree \in [1..Layers -> [Develop!Files -> Contents \cup {Absent}]]
      /\ o \in [Develop!Files -> Contents \cup {Absent}]
      /\ UNCHANGED <<source, changes>>
      /\ watching' = watching \cup {watcher}
      /\ recent' = recent \ ((1..Layers) \X Develop!FilesOf(watcher))
      /\ process \in {"running", "exiting"}
      /\ process' \in {process, "exiting"}
  BY <1>1 DEF Develop!Ready, Develop!Dirs, DevelopInv, DevelopTyped
<1>3. \A file, d : Develop!Salient(d, file) <=> Matters(tree, file, d)
  BY <1>1, SalientIs
<1>4. \A file : file \in salient <=>
        /\ file \in Develop!FilesOf(watcher)
        /\ \E d \in 1..Layers : <<d, file>> \in recent /\ Matters(tree, file, d)
  BY <1>3 DEF Develop!Dirs
<1>5. /\ watcher = "client" /\ process = "running" =>
           o2 = [file \in Develop!Files |->
                   IF file \in salient THEN Develop!Built[file] ELSE out[file]]
      /\ watcher = "client" /\ process # "running" => o2 = o
      /\ watcher = "server" => o2 = o /\ (process' = "running" => salient = {})
  BY <1>1, <1>2 DEF Develop!Ready
<1> HIDE DEF salient
<1>6. \A file \in Develop!Files : Develop!Built[file] \in Contents \cup {Absent}
  BY BuiltTyped DEF DevelopInv, DevelopTyped
<1>7. o2 \in [Develop!Files -> Contents \cup {Absent}]
  BY <1>1, <1>2, <1>5, <1>6
<1>8. DevelopTyped'
  <2>1. ASSUME NEW p \in recent'
        PROVE  /\ p \in (1..Layers) \X Develop!Files
               /\ Develop!Watched(p[2]) \notin watching \cup {watcher}
    <3>1. /\ p \in recent /\ p \in (1..Layers) \X Develop!Files
          /\ Develop!Watched(p[2]) \notin watching
      BY <1>2, <2>1 DEF DevelopInv, DevelopTyped
    <3>2. p[2] \notin Develop!FilesOf(watcher) /\ p[2] \in ClientFiles \cup ServerFiles
      BY <1>2, <2>1, <3>1 DEF Develop!Files
    <3>3. Develop!Watched(p[2]) # watcher
      BY <3>2 DEF Develop!FilesOf, Develop!Watched
    <3> QED
      BY <3>1, <3>3
  <2> QED
    BY <1>1, <1>2, <1>7, <2>1 DEF DevelopInv, DevelopTyped, Develop!Files, Develop!Watched
<1>9. ASSUME process' = "running", NEW f \in Develop!Files
      PROVE  Follows(tree, o2, told2, f)
  <2>1. process = "running" /\ Follows(tree, o, told, f)
    BY <1>1, <1>2, <1>9 DEF DevelopInv
  <2>2. CASE f \in salient
    <3>1. watcher = "client"
      BY <1>5, <1>9, <2>2
    <3>2. o2[f] = Develop!Built[f]
      BY <1>5, <2>1, <2>2, <3>1
    <3>3. IsBuilt(source, f, Develop!Built[f])
      BY BuiltIs
    <3> QED
      BY <1>1, <3>2, <3>3 DEF Follows
  <2>3. CASE f \notin salient
    <3>1. o2[f] = o[f]
      BY <1>1, <1>5, <2>1, <2>3
    <3>2. ASSUME NEW d \in 1..Layers, <<d, f>> \in told, Matters(tree, f, d)
          PROVE  <<d, f>> \in told2
      <4>1. CASE <<d, f>> \in changes
        BY <1>1, <1>2, <4>1
      <4>2. CASE <<d, f>> \in recent
        <5>1. f \notin Develop!FilesOf(watcher)
          BY <1>4, <2>3, <3>2, <4>2
        <5> QED
          BY <1>1, <1>2, <4>2, <5>1
      <4> QED
        BY <1>1, <3>2, <4>1, <4>2
    <3> QED
      BY <2>1, <3>1, <3>2 DEF Follows
  <2> QED
    BY <2>2, <2>3
<1> QED
  BY <1>1, <1>2, <1>8, <1>9 DEF DevelopInv, Develop!Files

LEMMA RestartFollows ==
  ASSUME Layers \in Nat, DevelopInv, Develop!Exit \/ Develop!Restart
  PROVE  DevelopInv'
<1>1. CASE Develop!Exit
  BY <1>1 DEF Develop!Exit, DevelopInv, DevelopTyped, Develop!Files, Develop!Watched
<1>2. CASE Develop!Restart
  <2>1. PICK tree, o2 : tree = source /\ o2 = out'
    OBVIOUS
  <2>2. o2 = Develop!Built /\ source' = tree /\ recent' = {} /\ process' = "running"
    BY <1>2, <2>1 DEF Develop!Restart
  <2>3. DevelopTyped'
    BY <2>1, <2>2, BuiltTyped DEF DevelopInv, DevelopTyped, Develop!Files
  <2>4. ASSUME NEW f \in Develop!Files, NEW told PROVE Follows(tree, o2, told, f)
    BY <2>1, <2>2, BuiltIs DEF Follows
  <2> QED
    BY <2>1, <2>2, <2>3, <2>4 DEF DevelopInv, Develop!Files
<1> QED
  BY <1>1, <1>2

\* Once everything has been told of, the output is what a build would make of
\* the source files, for any number of directories, files and changes; unless
\* a file is removed from above another (ClientBundle's and the server's
\* watchers, DevMode._resolveChange()).
THEOREM OutputAlwaysFollows ==
  ASSUME Layers \in Nat, ~ HiddenReappear
  PROVE  Develop!Spec => []Develop!OutputFollows
<1>1. Develop!Init => DevelopInv
  BY DevelopBegins
<1>2. DevelopInv /\ [Develop!Next]_Develop!vars => DevelopInv'
  <2> SUFFICES ASSUME DevelopInv, [Develop!Next]_Develop!vars PROVE DevelopInv'
    OBVIOUS
  <2>1. ASSUME NEW d \in 1..Layers, NEW file \in Develop!Files, Develop!Handle(d, file)
        PROVE  DevelopInv'
    BY <2>1, HandleFollows
  <2>2. ASSUME NEW d \in 1..Layers, NEW file \in Develop!Files, NEW c \in Contents \cup {Absent},
               Develop!Edit(d, file, c)
        PROVE  DevelopInv'
    BY <2>2, EditFollows
  <2>3. ASSUME NEW watcher \in {"client", "server"}, Develop!Ready(watcher) PROVE DevelopInv'
    BY <2>3, ReadyFollows
  <2>4. CASE Develop!Exit \/ Develop!Restart
    BY <2>4, RestartFollows
  <2>5. CASE UNCHANGED Develop!vars
    BY <2>5 DEF Develop!vars, DevelopInv, DevelopTyped, Develop!Files, Develop!Watched
  <2> QED
    BY <2>1, <2>2, <2>3, <2>4, <2>5 DEF Develop!Next, Develop!Dirs
<1>3. DevelopInv => Develop!OutputFollows
  <2> SUFFICES ASSUME DevelopInv, watching = {"client", "server"}, changes = {},
                      process = "running"
               PROVE  out = Develop!Built
    BY DEF Develop!OutputFollows
  <2>1. recent = {}
    BY DEF DevelopInv, DevelopTyped, Develop!Watched
  <2>2. ASSUME NEW file \in Develop!Files PROVE out[file] = Develop!Built[file]
    <3>1. PICK tree, o, x, told :
            tree = source /\ o = out /\ x = Develop!Built[file] /\ told = changes \cup recent
      OBVIOUS
    <3>2. Follows(tree, o, told, file) /\ told = {}
      BY <2>1, <3>1 DEF DevelopInv
    <3>3. IsBuilt(tree, file, o[file]) /\ IsBuilt(tree, file, x)
      BY <3>1, <3>2, BuiltIs DEF Follows
    <3> QED
      BY <3>1, <3>3, OneBuilt
  <2>3. Develop!Built \in [Develop!Files -> Contents \cup {Absent}]
    BY BuiltTyped DEF DevelopInv, DevelopTyped
  <2> QED
    BY <2>2, <2>3 DEF DevelopInv, DevelopTyped
<1> QED
  BY <1>1, <1>2, <1>3, PTL DEF Develop!Spec
=============================================================================
