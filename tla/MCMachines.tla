----------------------------- MODULE MCMachines -----------------------------
(***************************************************************************)
(* The smaller machines of the system for TLC, side by side: a behavior is *)
(* one of one of them, which `part` tells, and the others stay as they     *)
(* began.                                                                  *)
(***************************************************************************)
EXTENDS Integers, TLC

(* TrafficSignal: an idle server, a busy one, an overloaded one; time in    *)
(* steps of 20 or 60 seconds; two questions by the proxy                    *)
VARIABLES signal, factor, busy, healthy, poll, held, log

Loads ==
  { [conns |-> 0, docs |-> 0, files |-> 0, docSize |-> 0, fileSize |-> 0, sessions |-> 0],
    [conns |-> 100, docs |-> 1500, files |-> 1600, docSize |-> 300, fileSize |-> 200, sessions |-> 100],
    [conns |-> 700, docs |-> 100, files |-> 120, docSize |-> 0, fileSize |-> 0, sessions |-> 600] }
Steps == {20000, 60000}
MaxAsked == 2

Signal == INSTANCE TrafficSignal

(* Page: two pages, one of them may recover; two visits, or one and a       *)
(* failure                                                                  *)
VARIABLES title, page, quill, loop, push, unsent, happened

Pages == {"p1", "p2"}
Titles == {"t1", "t2"}
Untitled == "untitled"
NoTitle == "no title"
MaxHappenings == 2
CarefulUsers == TRUE

Editing == INSTANCE Page WITH MaxSessions <- 2

(* Connection: three calls (one to make a token, and two at a time with     *)
(* it, or one and another for the session that it gets)                     *)
VARIABLES
  kind, hasCookies, state, socketUp, whileClosing, targets, remotes, call,
  pending, mint, drawn, registered

Authors == {"a1", "a2"}
MaxCalls == 3
LocalIds == {0}
Width == 2
MaxWhileClosing == 1
NeedCookies == {"autr"}

Api == INSTANCE Connection WITH MaxSessions <- 1

(* Mutex and CallPiler: three at a time                                     *)
VARIABLES lockedBy, waiters, stage, resultProm, run, piled

Lockers == {"p", "q", "r"}
Nobody == "nobody"
MaxRuns == 3

Lock == INSTANCE Mutex
Pile == INSTANCE CallPiler WITH Callers <- Lockers, call <- piled

(* EventChain: three events beside the stub                                 *)
VARIABLES payload, nextNow, current, copying, follower

Names == {"x", "y"}
Followers == {"f"}
MaxEvents == 4

Chain == INSTANCE EventChain

(* DevMode: one file for the client and one for the server, two layers      *)
VARIABLES source, out, watching, recent, changes, process, edits

ClientFiles == {"a"}
ServerFiles == {"b"}
Layers == 2
Contents == {"x", "y"}
Absent == "absent"
MaxEdits == 2
HiddenReappear == FALSE

Develop == INSTANCE DevMode

-----------------------------------------------------------------------------
VARIABLE part

signalVars == <<signal, factor, busy, healthy, poll, held, log>>
pageVars == <<title, page, quill, loop, push, unsent, happened>>
connectionVars ==
  <<kind, hasCookies, state, socketUp, whileClosing, targets, remotes, call,
    pending, mint, drawn, registered>>
mutexVars == <<lockedBy, waiters, stage>>
pilerVars == <<resultProm, run, piled>>
chainVars == <<payload, nextNow, current, copying, follower>>
developVars == <<source, out, watching, recent, changes, process, edits>>

vars ==
  <<part, signalVars, pageVars, connectionVars, mutexVars, pilerVars, chainVars,
    developVars>>

Init ==
  /\ part \in {"signal", "page", "connection", "mutex", "piler", "chain", "develop"}
  /\ Signal!Init /\ Editing!Init /\ Lock!Init /\ Pile!Init /\ Chain!Init
  /\ Api!Init /\ (part # "connection" => kind = "ws" /\ hasCookies)
  /\ Develop!Init
  /\ part # "develop" => \A d \in 1..Layers : \A f \in {"a", "b"} : source[d][f] = "x"

Rest(p) ==
  /\ UNCHANGED part
  /\ p # "signal" => UNCHANGED signalVars
  /\ p # "page" => UNCHANGED pageVars
  /\ p # "connection" => UNCHANGED connectionVars
  /\ p # "mutex" => UNCHANGED mutexVars
  /\ p # "piler" => UNCHANGED pilerVars
  /\ p # "chain" => UNCHANGED chainVars
  /\ p # "develop" => UNCHANGED developVars

Next ==
  \/ part = "signal" /\ Signal!Next /\ Rest("signal")
  \/ part = "page" /\ Editing!Next /\ Rest("page")
  \/ part = "connection" /\ Api!Next /\ Rest("connection")
  \/ part = "mutex" /\ Lock!Next /\ Rest("mutex")
  \/ part = "piler" /\ Pile!Next /\ Rest("piler")
  \/ part = "chain" /\ Chain!Next /\ Rest("chain")
  \/ part = "develop" /\ Develop!Next /\ Rest("develop")

\* The fairness of each.  What is not begun has nothing to do, but for the
\* clock of the signal.
OfSignal(A) == part = "signal" /\ A

Fairness ==
  /\ WF_signalVars(OfSignal(\E d \in Steps : Signal!Tick(d)))
  /\ WF_signalVars(OfSignal(Signal!StartPoll))
  /\ WF_signalVars(OfSignal(Signal!FinishPoll))
  /\ Editing!Fairness /\ Lock!Fairness /\ Chain!Fairness

Spec == Init /\ [][Next]_vars /\ Fairness

-----------------------------------------------------------------------------
(* The properties of the machines, as their modules state them              *)

\* Load alone never makes the signal red for ever; green lasts for a minute at
\* least, and red for a minute at most.  (TrafficSignal, Application)
SignalHolds == Signal!GreenReturns /\ Signal!GreenHolds

\* Two pages that edit a title do not chase each other, and come to show what
\* the server has; a title that is typed and left gets to the server, and
\* nothing disturbs the typing.  (TitleClient, EditorComplex, PropertyClient)
TitlesKept == Editing!Converges /\ Editing!TypedArrives /\ Editing!TypingUndisturbed

\* Concurrent calls with tokens and IDs reach what these stand for, and tokens
\* stay good; a closing connection answers what it has let through, and its log
\* forgets what is over.  (Context, TokenMint, AppAuthorizer, RootAccess;
\* WsConnection, BaseConnection, ApiLog)
CallsReachTheirObject ==
  [](Api!CallsReachTheirObject /\ Api!AnsweredOnClosing) /\ Api!TokensStay

\* Whoever waits for a mutex gets it; calls that are piled up make one run at
\* a time; whoever follows a chain of events sees every one, once and in order.
\* (Mutex, CallPiler, EventSource, ChainedEvent)
PromisesKept ==
  Lock!WaitersEnter /\ [][Pile!OneRun']_(Pile!vars) /\ Chain!FollowersMissNothing

\* The output follows the source files.  (DevMode)
OutputFollows == Develop!OutputFollows
=============================================================================
