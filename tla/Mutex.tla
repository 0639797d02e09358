-------------------------------- MODULE Mutex --------------------------------
(***************************************************************************)
(* The mutex of promise-util, as withLockHeld() uses it.  Promises call    *)
(* back later: between the release of a waiter and the moment at which it  *)
(* goes on, what was to be run before it is run, and may call lock().      *)
(***************************************************************************)
EXTENDS Sequences

CONSTANTS Lockers, Nobody

VARIABLES
  lockedBy,
  waiters,  \* in the order in which they came
  stage     \* locker -> idle, waiting, released (but not yet there), holding

vars == <<lockedBy, waiters, stage>>

Init ==
  /\ lockedBy = Nobody
  /\ waiters = <<>>
  /\ stage = [p \in Lockers |-> "idle"]

\* lock(): at once, or when released
Lock(p) ==
  /\ stage[p] = "idle"
  /\ IF lockedBy = Nobody
     THEN /\ lockedBy' = p
          /\ stage' = [stage EXCEPT ![p] = "holding"]
          /\ UNCHANGED waiters
     ELSE /\ waiters' = Append(waiters, p)
          /\ stage' = [stage EXCEPT ![p] = "waiting"]
          /\ UNCHANGED lockedBy

\* Mutant: the waiter stays in the list.
EnterAndStay(p) ==
  /\ stage[p] = "released"
  /\ lockedBy' = p
  /\ stage' = [stage EXCEPT ![p] = "holding"]
  /\ UNCHANGED waiters

\* The waiter goes on in lock(), without another look.
Enter(p) ==
  /\ stage[p] = "released"
  /\ waiters' = Tail(waiters)
  /\ lockedBy' = p
  /\ stage' = [stage EXCEPT ![p] = "holding"]

\* unlock() throws if another holds the lock.
Unlock(p) ==
  /\ stage[p] = "holding"
  /\ IF lockedBy # p \/ waiters = <<>>
     THEN stage' = [stage EXCEPT ![p] = "idle"]
     ELSE stage' = [stage EXCEPT ![p] = "idle", ![Head(waiters)] = "released"]
  /\ lockedBy' = IF lockedBy = p THEN Nobody ELSE lockedBy
  /\ UNCHANGED waiters

Next == \E p \in Lockers : Lock(p) \/ Enter(p) \/ Unlock(p)

Spec == Init /\ [][Next]_vars

\* What is to be run is run, and what the lock is held for ends.
Fairness == \A p \in Lockers : WF_vars(Enter(p)) /\ WF_vars(Unlock(p))

FairSpec == Spec /\ Fairness

-----------------------------------------------------------------------------
(* Properties *)

\* Whoever waits gets the lock, though others take it first and then fail to
\* unlock it.
WaitersEnter == \A p \in Lockers : stage[p] = "waiting" ~> stage[p] = "holding"

\* "This provides non-reentrant mutual exclusion": one holder at a time.  It
\* does not: lock() takes the lock that was freed for a waiter (Mutex.js:65),
\* and the waiter takes it, too.
MutualExclusion ==
  \A p, q \in Lockers : stage[p] = "holding" /\ stage[q] = "holding" => p = q
=============================================================================
