------------------------------ MODULE LocalFile ------------------------------
(***************************************************************************)
(* A file of the file store kept in a directory of the local disk          *)
(* (file-store-local/LocalFile.js), through crashes of the server.         *)
(*                                                                         *)
(* All changes are held in memory.  Calls answer from there, and note what *)
(* remains to be written; a timer later flushes it to disk, one blob per   *)
(* change.  Calls of whenPathIsNot() look at a snapshot, then sleep on a   *)
(* condition that every modification of the file sets.  Every `await' in   *)
(* the code is a point where the steps of others may come in between.      *)
(***************************************************************************)
EXTENDS Naturals, FiniteSets, FiniteSetsExt

CONSTANTS
  Calls,         \* calls of appendChange(), each with a change of its own
  Touching,      \* the calls whose change alters the path that is waited for
  Flushes,       \* calls of flush()
  Waiters,       \* calls of whenPathIsNot()
  FirstChange,   \* FileChange.FIRST
  Nobody, Timer, \* who runs a flush when it is no call of flush()
  MaxCrashes, MaxDeletes,
  CarefulCallers \* nobody creates a file again once it was deleted, or flushes
                 \* one that does not exist

ASSUME CallersAssumption ==
  /\ Touching \subseteq Calls /\ FirstChange \notin Calls
  /\ Nobody \notin Flushes /\ Timer \notin Flushes /\ Nobody # Timer
ASSUME BoundsAssumption ==
  MaxCrashes \in Nat /\ MaxDeletes \in Nat /\ CarefulCallers \in BOOLEAN

VARIABLES
  ready,        \* whether _readStorage() is yet to run, succeeded or failed
  shouldExist,  \* _fileShouldExist
  changes,      \* _changes, an array that may have holes
  toWrite,      \* _storageToWrite: what is to be written, by revision
  dirty,        \* _storageIsDirty
  condition,    \* the value of _changeCondition
  directory,    \* whether the directory exists on disk
  disk,         \* the blobs in it, by revision
  timers,       \* how many flushes wait for their time or for _writeMutex
  running,      \* the flush that holds _writeMutex, and what it has yet to do
  append,       \* append[c]: how far the call c of appendChange() got
  flush,        \* flush[f]: how far f got, and what was in the file at its call
  waiter,       \* waiter[w]: how far w got, and what it knows
  crashes, deletes

memory == <<ready, shouldExist, changes, toWrite, dirty>>
store  == <<directory, disk>>
counts == <<crashes, deletes>>
vars   == <<memory, condition, store, timers, running, append, flush, waiter, counts>>

Nothing == [r \in {} |-> FirstChange]

\* A function made to yield v at x, and one made undefined at x.
With(f, x, v)  == [y \in DOMAIN f \cup {x} |-> IF y = x THEN v ELSE f[y]]
Without(f, x)  == [y \in DOMAIN f \ {x} |-> f[y]]

\* The length of an array: _currentRevNum + 1.
Length(array) == IF array = Nothing THEN 0 ELSE 1 + Max(DOMAIN array)

NoFlush == [by |-> Nobody, phase |-> "none", values |-> Nothing]

Init ==
  /\ ready = "no" /\ shouldExist = FALSE
  /\ changes = Nothing /\ toWrite = Nothing
  /\ dirty = FALSE /\ condition = TRUE
  /\ directory = FALSE /\ disk = Nothing
  /\ timers = 0 /\ running = NoFlush
  /\ append = [c \in Calls |-> [pc |-> "idle", revNum |-> 0]]
  /\ flush = [f \in Flushes |-> [pc |-> "idle", owed |-> Nothing]]
  /\ waiter = [w \in Waiters |-> [pc |-> "idle", base |-> 0, changed |-> FALSE]]
  /\ crashes = 0 /\ deletes = 0

-----------------------------------------------------------------------------
(* What happens when the file is modified *)

\* Setting the condition lets go of everyone who waits for it.
SetCondition ==
  /\ condition' = TRUE
  /\ waiter' = [w \in Waiters |-> IF waiter[w].pc = "waiting"
                                  THEN [waiter[w] EXCEPT !.pc = "loop"]
                                  ELSE waiter[w]]

\* Mutant: nobody is woken while a flush is pending.
NeedsFlushQuietly ==
  IF dirty
  THEN UNCHANGED <<dirty, timers, condition, waiter>>
  ELSE SetCondition /\ dirty' = TRUE /\ timers' = timers + 1

\* _storageNeedsFlush()
StorageNeedsFlush ==
  /\ SetCondition
  /\ dirty' = TRUE
  /\ timers' = IF dirty THEN timers ELSE timers + 1

\* _readStorage(): take what is on disk, unless a blob is missing in between.
Read ==
  /\ ready = "no"
  /\ IF DOMAIN disk = 0..(Length(disk) - 1)
     THEN /\ ready' = "yes"
          /\ shouldExist' = (disk # Nothing)
          /\ changes' = disk
          /\ SetCondition
     ELSE /\ ready' = "failed"
          /\ UNCHANGED <<shouldExist, changes, condition, waiter>>
  /\ UNCHANGED <<toWrite, dirty, store, timers, running, append, flush, counts>>

Create ==
  /\ ready = "yes" /\ ~ shouldExist
  /\ CarefulCallers => deletes = 0
  /\ shouldExist' = TRUE
  /\ changes' = With(changes, 0, FirstChange)
  /\ toWrite' = With(toWrite, 0, FirstChange)
  /\ StorageNeedsFlush
  /\ UNCHANGED <<ready, store, running, append, flush, counts>>

\* What is still to be written stays in _storageToWrite.
Delete ==
  /\ ready = "yes" /\ shouldExist
  /\ deletes < MaxDeletes
  /\ deletes' = deletes + 1
  /\ shouldExist' = FALSE
  /\ changes' = Nothing
  /\ StorageNeedsFlush
  /\ UNCHANGED <<ready, toWrite, store, running, append, flush, crashes>>

\* appendChange() is called: its revision must not be too far ahead.
CallAppend(c) ==
  /\ append[c].pc = "idle"
  /\ ready = "yes"
  /\ \E r \in 1..Length(changes) :
       append' = [append EXCEPT ![c] = [pc |-> "called", revNum |-> r]]
  /\ UNCHANGED <<memory, condition, store, timers, running, flush, waiter, counts>>

\* Mutant: a change may replace the one that is there.
NeverBehind(r) == FALSE

\* Whether a change for revision r has lost the race for it.
Behind(r) == r < Length(changes)

\* The rest of appendChange(), after an await.
Append(c) ==
  LET r == append[c].revNum
  IN /\ append[c].pc = "called"
     /\ \/ /\ ~ shouldExist
           /\ append' = [append EXCEPT ![c].pc = "failed"]
           /\ UNCHANGED <<memory, condition, timers, waiter>>
        \/ /\ shouldExist /\ Behind(r)
           /\ append' = [append EXCEPT ![c].pc = "lost"]
           /\ UNCHANGED <<memory, condition, timers, waiter>>
        \/ /\ shouldExist /\ ~ Behind(r)
           /\ append' = [append EXCEPT ![c].pc = "won"]
           /\ changes' = With(changes, r, c)
           /\ toWrite' = With(toWrite, r, c)
           /\ StorageNeedsFlush
           /\ UNCHANGED <<ready, shouldExist>>
     /\ UNCHANGED <<store, running, flush, counts>>

-----------------------------------------------------------------------------
(* Flushing *)

\* Mutant: nothing to do if nothing is dirty.
ReturnUnlessDirty(f) ==
  /\ flush[f].pc = "idle"
  /\ ready = "yes" /\ (CarefulCallers => shouldExist)
  /\ flush' = [flush EXCEPT ![f] = [pc   |-> IF dirty THEN "waiting" ELSE "done",
                                    owed |-> changes]]
  /\ UNCHANGED <<memory, condition, store, timers, running, append, waiter, counts>>

\* flush() is called, and waits for the mutex.
CallFlush(f) ==
  /\ flush[f].pc = "idle"
  /\ ready = "yes" /\ (CarefulCallers => shouldExist)
  /\ flush' = [flush EXCEPT ![f] = [pc |-> "waiting", owed |-> changes]]
  /\ UNCHANGED <<memory, condition, store, timers, running, append, waiter, counts>>

\* Mutant: the flag is left for the end of the flush, and forgotten.
TakeAllButFlag(by) ==
  IF shouldExist
  THEN /\ running' = [by |-> by, phase |-> "mkdir", values |-> toWrite]
       /\ toWrite' = Nothing
       /\ UNCHANGED dirty
  ELSE /\ running' = [by |-> by, phase |-> "exists", values |-> Nothing]
       /\ UNCHANGED <<toWrite, dirty>>

\* What a flush does first, with the mutex: take all that is to be written, if
\* the file is to be.
TakeAll(by) ==
  IF shouldExist
  THEN /\ running' = [by |-> by, phase |-> "mkdir", values |-> toWrite]
       /\ toWrite' = Nothing
       /\ dirty' = FALSE
  ELSE /\ running' = [by |-> by, phase |-> "exists", values |-> Nothing]
       /\ UNCHANGED <<toWrite, dirty>>

\* _flushPendingStorage() gets the mutex.
StartFlush ==
  /\ running = NoFlush
  /\ \/ /\ timers > 0
        /\ timers' = timers - 1
        /\ TakeAll(Timer)
        /\ UNCHANGED flush
     \/ \E f \in Flushes :
          /\ flush[f].pc = "waiting"
          /\ flush' = [flush EXCEPT ![f].pc = "running"]
          /\ TakeAll(f)
          /\ UNCHANGED timers
  /\ UNCHANGED <<ready, shouldExist, changes, condition, store, append, waiter, counts>>

MakeDirectory ==
  /\ running.phase = "mkdir"
  /\ running' = [running EXCEPT !.phase = "write"]
  /\ directory' = TRUE
  /\ UNCHANGED <<memory, condition, disk, timers, append, flush, waiter, counts>>

\* The blobs are written in parallel: they get to disk in any order.
WriteBlob ==
  /\ running.phase = "write"
  /\ \E r \in DOMAIN running.values :
       /\ disk' = With(disk, r, running.values[r])
       /\ running' = [running EXCEPT !.values = Without(@, r)]
  /\ UNCHANGED <<memory, condition, directory, timers, append, flush, waiter, counts>>

\* The mutex is released; the call of flush() returns if it was one.
Release ==
  /\ running' = NoFlush
  /\ flush' = [f \in Flushes |-> IF f = running.by
                                 THEN [flush[f] EXCEPT !.pc = "done"] ELSE flush[f]]

EndWrite ==
  /\ running.phase = "write" /\ running.values = Nothing
  /\ Release
  /\ UNCHANGED <<memory, condition, store, timers, append, waiter, counts>>

\* _deleteStorage() finds a directory or not.
CheckDirectory ==
  /\ running.phase = "exists"
  /\ IF directory
     THEN running' = [running EXCEPT !.phase = "remove"] /\ UNCHANGED flush
     ELSE Release
  /\ UNCHANGED <<memory, condition, store, timers, append, waiter, counts>>

\* The deep removal of the directory takes one blob after the other.
RemoveBlob ==
  /\ running.phase = "remove"
  /\ \E r \in DOMAIN disk : disk' = Without(disk, r)
  /\ UNCHANGED <<memory, condition, directory, timers, running, append, flush, waiter, counts>>

RemoveDirectory ==
  /\ running.phase = "remove" /\ disk = Nothing
  /\ directory' = FALSE
  /\ running' = [running EXCEPT !.phase = "reset"]
  /\ UNCHANGED <<memory, condition, disk, timers, append, flush, waiter, counts>>

\* Back in _deleteStorage(): the instance variables are reset once more.
EndDelete ==
  /\ running.phase = "reset"
  /\ shouldExist' = FALSE
  /\ changes' = Nothing
  /\ Release
  /\ UNCHANGED <<ready, toWrite, dirty, condition, store, timers, append, waiter, counts>>

-----------------------------------------------------------------------------
(* Waiting for a path to change *)

\* whenPathIsNot() is called with the hash that the path had at a revision.
CallWait(w) ==
  /\ waiter[w].pc = "idle"
  /\ ready = "yes"
  /\ \E base \in DOMAIN changes :
       waiter' = [waiter EXCEPT ![w].pc = "loop", ![w].base = base]
  /\ UNCHANGED <<memory, condition, store, timers, running, append, flush, counts>>

PathChanged(w) ==
  \E r \in DOMAIN changes : r > waiter[w].base /\ changes[r] \in Touching

\* The top of the loop: getSnapshot() settles on the current revision.
Look(w) ==
  /\ waiter[w].pc = "loop"
  /\ waiter' = IF shouldExist
               THEN [waiter EXCEPT ![w].pc = "looking", ![w].changed = PathChanged(w)]
               ELSE [waiter EXCEPT ![w].pc = "failed"]
  /\ UNCHANGED <<memory, condition, store, timers, running, append, flush, counts>>

\* The snapshot arrives.  If its path has not changed, reset the condition and
\* wait for it to be set, though the file may have moved on in the meantime.
Check(w) ==
  /\ waiter[w].pc = "looking"
  /\ IF waiter[w].changed
     THEN /\ waiter' = [waiter EXCEPT ![w].pc = "done"]
          /\ UNCHANGED condition
     ELSE /\ waiter' = [waiter EXCEPT ![w].pc = "waiting"]
          /\ condition' = FALSE
  /\ UNCHANGED <<memory, store, timers, running, append, flush, counts>>

TimeOut(w) ==
  /\ waiter[w].pc \in {"loop", "looking", "waiting"}
  /\ waiter' = [waiter EXCEPT ![w].pc = "timedOut"]
  /\ UNCHANGED <<memory, condition, store, timers, running, append, flush, counts>>

-----------------------------------------------------------------------------
\* The server stops at any moment and starts anew: only the disk stays.
Crash ==
  LET dropped(state, pcs) ==
        IF state.pc \in pcs THEN [state EXCEPT !.pc = "crashed"] ELSE state
  IN /\ crashes < MaxCrashes
     /\ crashes' = crashes + 1
     /\ ready' = "no" /\ shouldExist' = FALSE
     /\ changes' = Nothing /\ toWrite' = Nothing
     /\ dirty' = FALSE /\ condition' = TRUE
     /\ timers' = 0 /\ running' = NoFlush
     /\ append' = [c \in Calls |-> dropped(append[c], {"called"})]
     /\ flush' = [f \in Flushes |-> dropped(flush[f], {"waiting", "running"})]
     /\ waiter' = [w \in Waiters |-> dropped(waiter[w], {"loop", "looking", "waiting"})]
     /\ UNCHANGED <<store, deletes>>

FlushStep ==
  \/ StartFlush
  \/ MakeDirectory
  \/ WriteBlob
  \/ EndWrite
  \/ CheckDirectory
  \/ RemoveBlob
  \/ RemoveDirectory
  \/ EndDelete

Next ==
  \/ Read
  \/ Create
  \/ Delete
  \/ \E c \in Calls : CallAppend(c) \/ Append(c)
  \/ \E f \in Flushes : CallFlush(f)
  \/ FlushStep
  \/ \E w \in Waiters : CallWait(w) \/ Look(w) \/ Check(w) \/ TimeOut(w)
  \/ Crash

Spec == Init /\ [][Next]_vars

\* Timers fire, the disk answers, and the event loop resumes who can go on.
Fairness ==
  /\ WF_vars(FlushStep)
  /\ \A c \in Calls : WF_vars(Append(c))
  /\ \A w \in Waiters : WF_vars(Look(w) \/ Check(w))

FairSpec == Spec /\ Fairness

-----------------------------------------------------------------------------
(* Properties *)

\* While the file exists, the disk holds nothing but what memory holds, and
\* what memory holds is on disk, being written, or waits for a flush that will
\* come: nothing has slipped from _storageToWrite and no flush was forgotten.
NothingForgotten ==
  shouldExist =>
    /\ DOMAIN changes = 0..(Length(changes) - 1)
    /\ \A r \in DOMAIN disk : r \in DOMAIN changes /\ disk[r] = changes[r]
    /\ \A r \in DOMAIN changes :
         \/ r \in DOMAIN disk
         \/ r \in DOMAIN running.values /\ running.values[r] = changes[r]
         \/ r \in DOMAIN toWrite /\ toWrite[r] = changes[r] /\ timers > 0

\* What was in the file when flush() was called is on disk once it returned,
\* and survives every crash from then on, unless the file is deleted.
FlushSettles ==
  \A f \in Flushes : flush[f].pc = "done" /\ deletes = 0 =>
    \A r \in DOMAIN flush[f].owed : r \in DOMAIN disk /\ disk[r] = flush[f].owed[r]

\* Nobody sleeps through a modification of the file.
ModificationsWake ==
  [][\A w \in Waiters : waiter[w].pc = "waiting" /\ waiter'[w].pc = "waiting" =>
       changes' = changes /\ shouldExist' = shouldExist]_vars

\* An appended change gets to disk, unless memory loses it in a crash or
\* because the file is deleted.
AppendedReachesDisk ==
  \A c \in Calls :
    (\E r \in DOMAIN changes : changes[r] = c) ~>
      \/ \E r \in DOMAIN disk : disk[r] = c
      \/ \A r \in DOMAIN changes : changes[r] # c

=============================================================================
