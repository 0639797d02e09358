------------------------------ MODULE CallPiler ------------------------------
(***************************************************************************)
(* CallPiler of promise-util: calls made while the function is running     *)
(* share its result.                                                       *)
(***************************************************************************)
EXTENDS Naturals

CONSTANTS Callers, MaxRuns   \* bound: runs of the function

Runs == 1..MaxRuns
NoRun == 0

VARIABLES
  resultProm,  \* the run whose promise is there, or NoRun
  run,         \* run -> not begun, running, settled
  call         \* caller -> the run it waits for, or NoRun

vars == <<resultProm, run, call>>

Init ==
  /\ resultProm = NoRun
  /\ run = [k \in Runs |-> "none"]
  /\ call = [c \in Callers |-> NoRun]

\* call(): _doCall() runs the function, unless there is a promise already.
Call(c) ==
  /\ call[c] = NoRun
  /\ IF resultProm # NoRun
     THEN /\ call' = [call EXCEPT ![c] = resultProm]
          /\ UNCHANGED <<resultProm, run>>
     ELSE \E k \in Runs :
            /\ run[k] = "none" /\ \A j \in Runs : j < k => run[j] # "none"
            /\ run' = [run EXCEPT ![k] = "running"]
            /\ resultProm' = k
            /\ call' = [call EXCEPT ![c] = k]

Settle(k) ==
  /\ run[k] = "running"
  /\ run' = [run EXCEPT ![k] = "settled"]
  /\ UNCHANGED <<resultProm, call>>

\* Mutant: the promise is cleared whichever it is.
ReturnAndClear(c) ==
  /\ call[c] # NoRun /\ run[call[c]] = "settled"
  /\ resultProm' = NoRun
  /\ call' = [call EXCEPT ![c] = NoRun]
  /\ UNCHANGED run

\* The first to go on after the run clears the promise.
Return(c) ==
  /\ call[c] # NoRun /\ run[call[c]] = "settled"
  /\ resultProm' = IF resultProm = call[c] THEN NoRun ELSE resultProm
  /\ call' = [call EXCEPT ![c] = NoRun]
  /\ UNCHANGED run

Next ==
  \/ \E c \in Callers : Call(c) \/ Return(c)
  \/ \E k \in Runs : Settle(k)

Spec == Init /\ [][Next]_vars

\* One call of the function is active at any given time, and who calls waits
\* for it, however late the callers of the run before go on.
OneRun ==
  \A k \in Runs : run[k] = "running" => resultProm = k
=============================================================================
