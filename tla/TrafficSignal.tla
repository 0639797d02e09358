--------------------------- MODULE TrafficSignal ---------------------------
(***************************************************************************)
(* Whether a server wants new traffic: the load factor, the signal that is *)
(* made from it, the loop that measures once a minute, and the monitor     *)
(* endpoint where a reverse proxy asks (app-setup: LoadFactor,             *)
(* TrafficSignal, Application, Monitor, RequestAggregateData).             *)
(*                                                                         *)
(* Times are in msec and relative to now: the time that is left until the  *)
(* moment that the code keeps, 0 when it has passed.  The clock never goes *)
(* back.  Rough sizes are in units of a million.                           *)
(***************************************************************************)
EXTENDS Integers

CONSTANTS
    Loads,      \* what the server may be busy with: a set of records
    Steps,      \* lengths of time that pass at once
    MaxAsked    \* requests to the monitor

Minute == 60000

(* TrafficSignal: the constants of the duty cycle *)
MinLoad == 80
MaxLoad == 150
Never   == 2147483647

VARIABLES
    signal,     \* TrafficSignal
    factor,     \* LoadFactor
    busy,       \* what the server is busy with
    healthy,    \* isHealthy(): whatever it may answer one day
    poll,       \* _pollingUpdateLoop: "measuring", or the time until it is
    held,       \* how long the signal has been green, up to a minute (history)
    log         \* RequestAggregateData, and how many requests were made

vars == <<signal, factor, busy, healthy, poll, held, log>>

-----------------------------------------------------------------------------
(* LoadFactor *)

Larger(a, b)  == IF a < b THEN b ELSE a
Smaller(a, b) == IF a < b THEN a ELSE b
CeilDiv(a, b) == (a + b - 1) \div b

NoLoad == [conns |-> 0, docs |-> 0, files |-> 0, docSize |-> 0, fileSize |-> 0, sessions |-> 0]

(* _recalc: 100 for 400 connections, for 4000 documents or files, for a     *)
(* rough size of 2500 million, or for 5000 sessions; the sum of all.        *)
Value(f) ==
    CeilDiv(50 * f.conns + 5 * Larger(f.docs, f.files) + 8 * f.size + 4 * f.sessions, 200)

(* resourceConsumption: a rough size of zero counts as one that is not known*)
Consumption(f, stats) ==
    LET size == stats.docSize + stats.fileSize
    IN  [f EXCEPT !.docs = stats.docs, !.files = stats.files, !.sessions = stats.sessions,
                  !.size = IF size # 0 THEN size ELSE @]

-----------------------------------------------------------------------------
(* TrafficSignal *)

Round(a, b) == (2 * a + b) \div (2 * b)   \* Math.round(a / b)

(* _offTimeMsecFromLoadFactor: N = F * T / (1 - F), with a share F of the   *)
(* time that goes from 0.1 to 0.5, all multiplied by 700.                   *)
OffTime(load) ==
    IF load < MinLoad THEN 0
    ELSE LET share == 70 + 4 * (Smaller(load, MaxLoad) - MinLoad)
         IN  Round(share * Minute, 700 - share)

(* A mutant: nothing forces the signal to stay green.                       *)
CycleFreely(s, load) ==
    IF ~s.allow
    THEN IF s.redFor = 0 THEN [s EXCEPT !.allow = TRUE, !.greenFor = Minute] ELSE s
    ELSE IF load < MinLoad THEN s
         ELSE [s EXCEPT !.allow = FALSE, !.redFor = OffTime(load)]

(* _recalc, while the server is healthy and not shutting down               *)
Cycle(s, load) ==
    IF ~s.allow
    THEN IF s.redFor = 0 THEN [s EXCEPT !.allow = TRUE, !.greenFor = Minute] ELSE s
    ELSE IF s.greenFor > 0 \/ load < MinLoad THEN s
         ELSE [s EXCEPT !.allow = FALSE, !.redFor = OffTime(load)]

(* A mutant: a server that is well again still waits for never.             *)
RecalcOnce(s, well, load) ==
    IF s.shuttingDown \/ ~well
    THEN [s EXCEPT !.allow = FALSE, !.redFor = Never]
    ELSE Cycle(s, load)

Recalc(s, well, load) ==
    IF s.shuttingDown \/ ~well
    THEN [s EXCEPT !.allow = FALSE, !.redFor = Never]
    ELSE Cycle(IF s.redFor = Never THEN [s EXCEPT !.redFor = 0] ELSE s, load)

(* Application.shouldAllowTraffic; the answer is signal'.allow.             *)
ShouldAllowTraffic(s, f) ==
    /\ signal' = Recalc(s, healthy, Value(f))
    /\ held' = IF signal'.allow /\ ~signal.allow THEN 0 ELSE held

-----------------------------------------------------------------------------
(* RequestAggregateData *)

NoLog == [counts |-> [green |-> 0, red |-> 0], timer |-> FALSE, made |-> 0]

RequestMade(l, status) ==
    [l EXCEPT !.counts[status] = @ + 1, !.timer = TRUE, !.made = @ + 1]

LogAndReset(l) ==
    [l EXCEPT !.counts = [green |-> 0, red |-> 0], !.timer = FALSE]

-----------------------------------------------------------------------------
Init ==
    /\ signal = [allow |-> TRUE, redFor |-> 0, greenFor |-> 0, shuttingDown |-> FALSE]
    /\ factor = [conns |-> 0, docs |-> 0, files |-> 0, size |-> 0, sessions |-> 0]
    /\ busy = NoLoad
    /\ healthy = TRUE
    /\ poll = Minute
    /\ held = Minute
    /\ log = NoLog

Left(t, d) == IF t = Never THEN t ELSE Larger(t - d, 0)

(* Time passes; the loop's timer fires when it is due.                      *)
Tick(d) ==
    /\ poll \in Nat => poll > 0
    /\ poll' = IF poll \in Nat THEN Left(poll, d) ELSE poll
    /\ signal' = [signal EXCEPT !.redFor = Left(@, d), !.greenFor = Left(@, d)]
    /\ held' = Smaller(held + d, Minute)
    /\ UNCHANGED <<factor, busy, healthy, log>>

(* _updateConnections, and the wait for the figures of the documents and    *)
(* the files                                                                *)
StartPoll ==
    /\ poll = 0
    /\ factor' = [factor EXCEPT !.conns = busy.conns]
    /\ poll' = -1
    /\ UNCHANGED <<signal, busy, healthy, held, log>>

(* _updateResourceConsumption, and the question that updates the signal     *)
FinishPoll ==
    /\ poll = -1
    /\ factor' = Consumption(factor, busy)
    /\ ShouldAllowTraffic(signal, factor')
    /\ poll' = Minute
    /\ UNCHANGED <<busy, healthy, log>>

(* Monitor, /traffic-signal: the answer, and the request that is counted    *)
Ask ==
    /\ log.made < MaxAsked
    /\ ShouldAllowTraffic(signal, factor)
    /\ log' = RequestMade(log, IF signal'.allow THEN "green" ELSE "red")
    /\ UNCHANGED <<factor, busy, healthy, poll>>

AggregationTimer ==
    /\ log.timer
    /\ log' = LogAndReset(log)
    /\ UNCHANGED <<signal, factor, busy, healthy, poll, held>>

(* Application._handleSystemShutdown: the signal, and a question            *)
ShuttingDown ==
    /\ ~signal.shuttingDown
    /\ ShouldAllowTraffic([signal EXCEPT !.shuttingDown = TRUE], factor)
    /\ UNCHANGED <<factor, busy, healthy, poll, log>>

LoadChanges ==
    /\ busy' \in Loads
    /\ UNCHANGED <<signal, factor, healthy, poll, held, log>>

HealthChanges ==
    /\ healthy' = ~healthy
    /\ UNCHANGED <<signal, factor, busy, poll, held, log>>

Next ==
    \/ \E d \in Steps : Tick(d)
    \/ StartPoll \/ FinishPoll \/ Ask \/ AggregationTimer
    \/ ShuttingDown \/ LoadChanges \/ HealthChanges

(* Time goes on, and the loop does.                                         *)
Spec ==
    /\ Init /\ [][Next]_vars
    /\ WF_vars(\E d \in Steps : Tick(d)) /\ WF_vars(StartPoll) /\ WF_vars(FinishPoll)

-----------------------------------------------------------------------------
(* Properties *)

(* The promise of TrafficSignal's header: load alone never makes the signal *)
(* red for ever, however heavy it is, and a server that is well again goes  *)
(* back to green.                                                           *)
GreenReturns == <>[](healthy /\ ~signal.shuttingDown) => []<>signal.allow

(* Load makes the signal red only after a minute of green, whoever asks and *)
(* how the load changes, and then for a minute at most: the heaviest load   *)
(* takes half of the time away.                                             *)
GreenHolds ==
    [][signal.allow /\ ~signal'.allow /\ healthy /\ ~signal'.shuttingDown
        => held = Minute /\ signal'.redFor <= Minute]_vars
=============================================================================
