--------------------------- MODULE ServerProcess ---------------------------
(***************************************************************************)
(* The life of a server process: the control files it shares with every    *)
(* other start of the program on the machine (env-server: BootInfo,        *)
(* PidFile, ServerEnv, ShutdownManager), the handling of errors that       *)
(* nobody caught (top-server: TopErrorHandler), and what the application   *)
(* does with its connections when it is asked to stop (app-setup:          *)
(* Application, ServerUtil; api-server: PostConnection).                   *)
(*                                                                         *)
(* A member of Procs is one start of the program.  The processes run at    *)
(* the same time when they are started so; what keeps them apart is the    *)
(* pid file, the port, and a request to the server that seems to run.      *)
(*                                                                         *)
(* Timers fire at any moment after they were set, with two exceptions that *)
(* the code relies on: half a second is long enough for the callbacks of a *)
(* condition that has become true (Settled), and the minute given to a     *)
(* shutdown is longer than that half second.                               *)
(***************************************************************************)
EXTENDS Integers, FiniteSets

CONSTANTS
    Procs,      \* starts of the program
    Socks,      \* connections of clients
    Nobody,     \* no process
    MaxErrors   \* errors that nobody catches, of one process

ASSUME ProcessAssumption == Nobody \notin Procs /\ MaxErrors \in Nat

VARIABLES
    shutdownFile, stoppedFile, \* the control files an operator reads and writes
    pidFile,                   \* the process in pid.txt, or Nobody
    bootFile,                  \* the counts in boot-info.txt
    port,                      \* who listens on the port, or Nobody
    proc,                      \* [Procs -> the state of the process]
    sock,                      \* [Socks -> owner and state of the connection]
    overlap                    \* has a process ever been started beside another?

files == <<shutdownFile, stoppedFile, pidFile, bootFile>>
vars  == <<files, port, proc, sock, overlap>>

-----------------------------------------------------------------------------
(* The state of a process *)

Counts == [boots : Nat, clean : Nat, errors : Nat]

(* Phases: "off"; "built", ServerEnv is made; "checking", asking whether    *)
(* a server runs already; "booting", the pid file is written; "up",         *)
(* listening; "dead".                                                       *)
NotStarted ==
    [ phase   |-> "off",
      info    |-> [boots |-> 0, clean |-> 0, errors |-> 0],
      asked   |-> FALSE,   \* _shutdownCondition
      exiting |-> FALSE,   \* an error has been recorded: exit(1) is on a timer
      words   |-> 0,       \* how often its end has been recorded (history)
      waits   |-> {},      \* _shutdownPromises
      race    |-> {},      \* the promises that _doShutdown awaits
      ending  |-> "no",    \* _doShutdown: "no", "begun", "pausing", "racing"
      drain   |-> "no",    \* _closeConnections: "no", "looking", "closing", "done"
      conns   |-> {},      \* Application._connections, those that can be open
      end     |-> "none" ] \* how the process ended: "clean", "late",
                           \* "error", "crash"

NoSock == [owner |-> Nobody, state |-> "none"]

Live(p)    == proc[p].phase \notin {"off", "dead"}
(* ShutdownManager.init has gone through: signals and polls are looked at   *)
Watches(p) == proc[p].phase \in {"checking", "booting", "up"}
HasPid(p)  == proc[p].phase \in {"booting", "up"}
SocksOf(p) == {s \in Socks : sock[s].owner = p}

Init ==
    /\ shutdownFile = FALSE /\ stoppedFile = FALSE
    /\ pidFile = Nobody
    /\ bootFile = [boots |-> 0, clean |-> 0, errors |-> 0]
    /\ port = Nobody
    /\ proc = [p \in Procs |-> NotStarted]
    /\ sock = [s \in Socks |-> NoSock]
    /\ overlap = FALSE

-----------------------------------------------------------------------------
(* Starting *)

(* BootInfo: read the counts, count this start, and write them back.        *)
Boot(p) ==
    /\ proc[p].phase = "off"
    /\ LET info == [bootFile EXCEPT !.boots = @ + 1]
       IN  /\ bootFile' = info
           /\ proc' = [proc EXCEPT ![p].phase = "built", ![p].info = info]
    /\ overlap' = (overlap \/ \E q \in Procs : Live(q))
    /\ UNCHANGED <<shutdownFile, stoppedFile, pidFile, port, sock>>

(* recordError: every count this process holds is written, and with them   *)
(* over whatever another process has written since.                        *)
RecordError(info) == [info EXCEPT !.errors = @ + 1]

(* An error that reaches the top: it is recorded, and the process ends a    *)
(* quarter of a second later.                                               *)
Failing(r) == [r EXCEPT !.info = RecordError(@), !.exiting = TRUE, !.words = @ + 1]

(* A start that fails: `Server told not to run.`, another server is running,*)
(* or the port is taken.                                                    *)
Fail(p) ==
    /\ proc' = [proc EXCEPT ![p] = Failing(@)]
    /\ bootFile' = RecordError(proc[p].info)

(* A mutant: only the request to shut down is looked for, not `stopped`.    *)
InitEnvIfStopped(p) ==
    /\ proc[p].phase = "built" /\ ~proc[p].exiting
    /\ IF shutdownFile
       THEN Fail(p) /\ stoppedFile' = TRUE /\ UNCHANGED pidFile
       ELSE /\ UNCHANGED <<stoppedFile, bootFile>>
            /\ IF pidFile # Nobody /\ Live(pidFile)
               THEN proc' = [proc EXCEPT ![p].phase = "checking"] /\ UNCHANGED pidFile
               ELSE proc' = [proc EXCEPT ![p].phase = "booting"] /\ pidFile' = p
    /\ UNCHANGED <<shutdownFile, port, sock, overlap>>

(* ServerEnv.init, up to the request to the server that seems to run        *)
InitEnv(p) ==
    /\ proc[p].phase = "built" /\ ~proc[p].exiting
    /\ IF stoppedFile \/ shutdownFile
       THEN Fail(p) /\ stoppedFile' = TRUE /\ UNCHANGED pidFile
       ELSE /\ UNCHANGED <<stoppedFile, bootFile>>
            /\ IF pidFile # Nobody /\ Live(pidFile)
               THEN proc' = [proc EXCEPT ![p].phase = "checking"] /\ UNCHANGED pidFile
               ELSE proc' = [proc EXCEPT ![p].phase = "booting"] /\ pidFile' = p
    /\ UNCHANGED <<shutdownFile, port, sock, overlap>>

(* isAlreadyRunningLocally: the answer to the request.  A server that is up *)
(* answers, or is too slow to do so in ten seconds.                         *)
Checked(p) ==
    /\ proc[p].phase = "checking" /\ ~proc[p].exiting
    /\ \/ port # Nobody /\ Fail(p) /\ UNCHANGED pidFile
       \/ /\ proc' = [proc EXCEPT ![p].phase = "booting"]
          /\ pidFile' = p
          /\ UNCHANGED bootFile
    /\ UNCHANGED <<shutdownFile, stoppedFile, port, sock, overlap>>

(* Application.start: the port is taken, or cannot be.                      *)
Listen(p) ==
    /\ proc[p].phase = "booting" /\ ~proc[p].exiting
    /\ IF port = Nobody
       THEN /\ proc' = [proc EXCEPT ![p].phase = "up"]
            /\ port' = p
            /\ UNCHANGED bootFile
       ELSE Fail(p) /\ UNCHANGED port
    /\ UNCHANGED <<shutdownFile, stoppedFile, pidFile, sock, overlap>>

-----------------------------------------------------------------------------
(* Stopping *)

(* _checkForShutdownRequest, on SIGHUP or once a minute; the loop in init   *)
(* goes on to _doShutdown as soon as the condition is true.                 *)
CheckForShutdownRequest(p) ==
    /\ Watches(p) /\ ~proc[p].asked
    /\ shutdownFile
    /\ proc' = [proc EXCEPT ![p].asked = TRUE, ![p].ending = "begun"]
    /\ UNCHANGED <<files, port, sock, overlap>>

(* What waits for the condition: ServerUtil.handleSystemShutdown stops      *)
(* listening, and Application._handleSystemShutdown begins to close the     *)
(* connections; each registers a promise with the shutdown manager.  A      *)
(* server that comes up when the condition is true already does it at once. *)
HandleSystemShutdown(p) ==
    /\ proc[p].asked /\ proc[p].phase = "up" /\ proc[p].drain = "no"
    /\ proc' = [proc EXCEPT ![p].drain = "looking",
                            ![p].waits = @ \union {"serverClosed", "allClosed"}]
    /\ port' = Nobody
    /\ UNCHANGED <<files, sock, overlap>>

(* BaseConnection.isOpen: a websocket that is not closing, or a POST whose  *)
(* response has been ended but not sent (PostConnection: `finished`).       *)
IsOpen(s) == sock[s].state \in {"ws", "flushing"}

(* _closeConnections, one round: close what is open.  A websocket closes;   *)
(* a POST is waited for.                                                    *)
CloseConnections(p) ==
    /\ proc[p].drain = "looking"
    /\ LET open == {s \in proc[p].conns : IsOpen(s)}
       IN  /\ proc' = [proc EXCEPT ![p].drain = IF open = {} THEN "done" ELSE "closing"]
           /\ sock' = [s \in Socks |-> IF s \in open /\ sock[s].state = "ws"
                                       THEN [sock[s] EXCEPT !.state = "wsClosing"] ELSE sock[s]]
    /\ UNCHANGED <<files, port, overlap>>

(* ... and look again, when all that was open has been closed               *)
LookAgain(p) ==
    /\ proc[p].drain = "closing"
    /\ \A s \in proc[p].conns : sock[s].state \notin {"wsClosing", "flushing"}
    /\ proc' = [proc EXCEPT ![p].drain = "looking"]
    /\ UNCHANGED <<files, port, sock, overlap>>

Kept(p, promise) ==
    IF promise = "allClosed" THEN proc[p].drain = "done"
                             ELSE port # p /\ SocksOf(p) = {}

(* The callbacks that run as soon as the condition is true have run.        *)
Settled(p) == proc[p].phase = "up" => proc[p].drain # "no"

(* _doShutdown, the head of its loop: wait for what there is, or a moment   *)
(* for somebody to say what to wait for.                                    *)
LoopHead(r) ==
    IF r.waits = {} THEN [r EXCEPT !.ending = "pausing"]
                    ELSE [r EXCEPT !.ending = "racing", !.race = r.waits, !.waits = {}]

BeginShutdown(p) ==
    /\ proc[p].ending = "begun"
    /\ proc' = [proc EXCEPT ![p] = LoopHead(@)]
    /\ UNCHANGED <<files, port, sock, overlap>>

PromisesKept(p) ==
    /\ proc[p].ending = "racing"
    /\ \A w \in proc[p].race : Kept(p, w)
    /\ proc' = [proc EXCEPT ![p] = LoopHead([@ EXCEPT !.race = {}])]
    /\ UNCHANGED <<files, port, sock, overlap>>

(* The end of the process: its connections break, the port is free.         *)
Gone(p, how) ==
    /\ proc' = [proc EXCEPT ![p] = [NotStarted EXCEPT !.phase = "dead", !.end = how,
                              !.words = proc[p].words + IF how \in {"clean", "late"} THEN 1 ELSE 0]]
    /\ sock' = [s \in Socks |-> IF sock[s].owner = p THEN NoSock ELSE sock[s]]
    /\ port' = IF port = p THEN Nobody ELSE port

(* process.exit runs the `exit` handlers that are there: PidFile._erasePid, *)
(* which erases whatever file there is, and ShutdownManager's.              *)
OnExit(p) ==
    /\ pidFile' = IF HasPid(p) THEN Nobody ELSE pidFile
    /\ stoppedFile' = (stoppedFile \/ proc[p].ending \notin {"no", "begun"})

FinishShutdown(p, how) ==
    /\ bootFile' = [proc[p].info EXCEPT !.clean = @ + 1]
    /\ OnExit(p) /\ Gone(p, how)
    /\ UNCHANGED <<shutdownFile, overlap>>

(* A mutant: the pause is shorter than the callbacks.                       *)
PauseTooShort(p) ==
    /\ proc[p].ending = "pausing"
    /\ IF proc[p].waits = {}
       THEN FinishShutdown(p, "clean")
       ELSE /\ proc' = [proc EXCEPT ![p] = LoopHead(@)]
            /\ UNCHANGED <<files, port, sock, overlap>>

(* Half a second has passed: there is something to wait for, or there is    *)
(* nothing and the process exits.                                           *)
PauseOver(p) ==
    /\ proc[p].ending = "pausing" /\ Settled(p)
    /\ IF proc[p].waits = {}
       THEN FinishShutdown(p, "clean")
       ELSE /\ proc' = [proc EXCEPT ![p] = LoopHead(@)]
            /\ UNCHANGED <<files, port, sock, overlap>>

(* A mutant: a shutdown waits for its promises without a limit.             *)
NeverLate(p) == FALSE

(* A minute has passed since _doShutdown began.                             *)
ShutdownTimesOut(p) == proc[p].ending = "racing" /\ FinishShutdown(p, "late")

-----------------------------------------------------------------------------
(* Errors and violence *)

(* TopErrorHandler._handleProblem                                           *)
Uncaught(p) ==
    /\ Live(p) /\ proc[p].info.errors < MaxErrors
    /\ Fail(p)
    /\ UNCHANGED <<shutdownFile, stoppedFile, pidFile, port, sock, overlap>>

ErrorExit(p) ==
    /\ proc[p].exiting
    /\ OnExit(p) /\ Gone(p, "error")
    /\ UNCHANGED <<shutdownFile, bootFile, overlap>>

(* PidFile._handleSignal, for SIGINT and SIGTERM                            *)
HandleSignal(p) ==
    /\ Live(p)
    /\ pidFile' = IF HasPid(p) THEN Nobody ELSE pidFile
    /\ Gone(p, "crash")
    /\ UNCHANGED <<shutdownFile, stoppedFile, bootFile, overlap>>

(* SIGKILL, or the machine goes down.                                       *)
Kill(p) ==
    /\ Live(p) /\ Gone(p, "crash")
    /\ UNCHANGED <<files, overlap>>

(* The operator asks the server to stop, and once nothing runs any more     *)
(* clears the way for a new start.                                          *)
PlaceShutdownFile ==
    /\ ~shutdownFile /\ ~stoppedFile
    /\ shutdownFile' = TRUE
    /\ UNCHANGED <<stoppedFile, pidFile, bootFile, port, proc, sock, overlap>>

ClearControlFiles ==
    /\ stoppedFile /\ \A p \in Procs : ~Live(p)
    /\ shutdownFile' = FALSE /\ stoppedFile' \in BOOLEAN
    /\ UNCHANGED <<pidFile, bootFile, port, proc, sock, overlap>>

-----------------------------------------------------------------------------
(* Connections *)

Set(s, state) == sock' = [sock EXCEPT ![s].state = state]

(* A client connects: a websocket, or a connection that carries a POST.     *)
Accept(s) ==
    /\ port # Nobody /\ sock[s].state = "none"
    /\ \E state \in {"ws", "post"} : sock' = [sock EXCEPT ![s] = [owner |-> port, state |-> state]]
    /\ proc' = [proc EXCEPT ![port].conns = @ \union {s}]
    /\ UNCHANGED <<files, port, overlap>>

(* The next POST on a connection that was kept alive, a PostConnection anew *)
PostAgain(s) ==
    /\ sock[s].state = "idle" /\ Set(s, "post")
    /\ proc' = [proc EXCEPT ![sock[s].owner].conns = @ \union {s}]
    /\ UNCHANGED <<files, port, overlap>>

(* PostConnection._handleEnd ends the response; then it has been sent.      *)
Respond(s) ==
    /\ \/ sock[s].state = "post" /\ Set(s, "flushing")
       \/ sock[s].state = "flushing" /\ Set(s, "idle")
    /\ UNCHANGED <<files, port, proc, overlap>>

(* The socket is closed: by the client, by the server's close of the        *)
(* websocket, or because an HTTP connection has been idle.                  *)
SocketCloses(s) ==
    /\ sock[s].state # "none"
    /\ sock' = [sock EXCEPT ![s] = NoSock]
    /\ proc' = [proc EXCEPT ![sock[s].owner].conns = @ \ {s}]
    /\ UNCHANGED <<files, port, overlap>>

(* Application._updateConnections, once a minute                            *)
UpdateConnections(p) ==
    /\ proc[p].phase = "up"
    /\ proc' = [proc EXCEPT ![p].conns = {s \in @ : IsOpen(s)}]
    /\ UNCHANGED <<files, port, sock, overlap>>

(* What goes on by itself once it has begun: callbacks and timers.          *)
Ending(p) ==
    \/ CheckForShutdownRequest(p) \/ HandleSystemShutdown(p)
    \/ BeginShutdown(p) \/ PauseOver(p) \/ PromisesKept(p)
    \/ ShutdownTimesOut(p) \/ ErrorExit(p)

Next ==
    \/ \E p \in Procs :
        \/ Boot(p) \/ InitEnv(p) \/ Checked(p) \/ Listen(p)
        \/ Ending(p)
        \/ CloseConnections(p) \/ LookAgain(p) \/ UpdateConnections(p)
        \/ Uncaught(p) \/ HandleSignal(p) \/ Kill(p)
    \/ \E s \in Socks : Accept(s) \/ PostAgain(s) \/ Respond(s) \/ SocketCloses(s)
    \/ PlaceShutdownFile \/ ClearControlFiles

(* Nothing is asked of clients, of the operator, or of the code that closes *)
(* connections: only that the shutdown manager's timers fire.               *)
Spec == Init /\ [][Next]_vars /\ \A p \in Procs : WF_vars(Ending(p))

-----------------------------------------------------------------------------
(* Properties *)

(* doc/running.md: a server that was asked to stop ends, whatever its       *)
(* clients do: websockets that never close and requests that are never      *)
(* answered delay it, and a promise that is registered late is waited for,  *)
(* but never for ever.                                                      *)
ShutdownEnds == \A p \in Procs : shutdownFile /\ Watches(p) ~> ~Live(p)

(* A shutdown that has not run out of time cuts nobody off: when the        *)
(* process exits no connection is left, though the shutdown begins before   *)
(* anything has been registered to be waited for.                           *)
NothingCutOff ==
    [][\A p \in Procs : proc[p].end = "none" /\ proc[p].end' = "clean" => SocksOf(p) = {}]_vars

(* The control files tell the operator the truth, as long as no process is  *)
(* started beside another: the pid file names the server that listens, once *)
(* there is a `stopped` file nobody does, and the crashes that a start finds*)
(* in BootInfo are the earlier starts that ended without a word (unless one *)
(* records its end twice: for two errors within a quarter of a second, or   *)
(* for an error during a shutdown).                                         *)
ControlFilesTrue ==
    ~overlap =>
        /\ port # Nobody => pidFile = port
        /\ stoppedFile => port = Nobody
        /\ (\A q \in Procs : proc[q].words < 2) =>
            \A p \in Procs : proc[p].phase = "built" /\ proc[p].words = 0 =>
                proc[p].info.boots - 1 - proc[p].info.clean - proc[p].info.errors
                    = Cardinality({q \in Procs : proc[q].phase = "dead" /\ proc[q].words = 0})

=============================================================================
