---------------------------- MODULE CaretControl ----------------------------
(***************************************************************************)
(* The caret part of a document on the server: doc-server/CaretControl.js  *)
(* with its SnapshotManager.js, over the file and the update protocol of   *)
(* BaseControl.js, and the sessions that move the carets (ViewSession.js). *)
(*                                                                         *)
(* Carets are ephemeral: whenever a snapshot is stored, old changes are    *)
(* erased, and a revision can be had only if it can be composed from the   *)
(* stored snapshot or from a snapshot that the server still has in memory. *)
(* Carets nobody moves for a while are removed by a task that any reader   *)
(* may start.                                                              *)
(*                                                                         *)
(* A call that needs the snapshot of a revision waits for the snapshot     *)
(* manager; every `await' is a point where other calls run.  To read the   *)
(* revision number and to look it up in the cache is one step.  The races  *)
(* that an append loses to other parts of the file are BaseControl's.      *)
(***************************************************************************)
EXTENDS CaretDelta, FiniteSets

CONSTANTS
  Spots,           \* where a caret may be in the text
  MaxIdle,         \* MAX_CARET_IDLE_MSEC
  IdleCheckPeriod, \* a quarter of it in the code
  ChangesPerStoredSnapshot,
  Cleaner,         \* the call of _removeIdleCarets()
  Viewer,          \* the calls of a client that watches the carets
  Nowhere,         \* no position
  MaxRev, MaxNow, MaxTroubles  \* bounds

ASSUME CallersAssumption == Cleaner \notin Ids /\ Viewer \notin Ids /\ Viewer # Cleaner
ASSUME StoredAssumption == ChangesPerStoredSnapshot \in Nat \ {0}
ASSUME TimesAssumption == MaxIdle \in Nat /\ IdleCheckPeriod \in Nat /\ MaxNow \in Nat
ASSUME FieldsAssumption ==
  /\ Fields = {"at", "lastActive"}
  /\ Spots \cup {Nowhere} \cup 0..MaxNow \subseteq FieldValues

\* A session controls the caret of its ID; it makes calls, and so do the cleaner
\* and who watches.
Callers == Ids \cup {Cleaner, Viewer}

VARIABLES
  now,        \* the clock of the server
  revNum,     \* revision number of the part
  changes,    \* deltas of the changes in the file, by revision number
  stored,     \* the stored snapshot, [revNum, contents], or NoSnapshot
  history,    \* what the contents were at each revision
  cache,      \* SnapshotManager._snapshots: promises by revision number
  retrievalRejected, \* whether _storedSnapshotRetrieved is a rejected promise
  nextIdleCheck,
  call,       \* local variables of each caller's call
  saves,      \* the running _maybeWriteStoredSnapshot() calls
  troubles    \* counts failures and restarts

file   == <<revNum, changes, stored, history>>
memory == <<cache, retrievalRejected>>
serverVars == <<now, file, memory, nextIdleCheck, call, saves, troubles>>

NoSnapshot == [revNum |-> 0, contents |-> NotCarets]
NoChange == [revNum |-> 0, delta |-> NoCarets]

Idle == [pc |-> "idle", want |-> 0, change |-> NoChange,
         expected |-> NoCarets, toAppend |-> NoChange, spot |-> Nowhere]

Caret(spot) == [at |-> spot, lastActive |-> now]

ServerInit ==
  /\ now = 0 /\ revNum = 0 /\ troubles = 0
  /\ changes = [r \in {0} |-> NoCarets]
  /\ stored = NoSnapshot
  /\ history = [r \in {0} |-> NoCarets]
  /\ cache = <<>> /\ retrievalRejected = FALSE /\ nextIdleCheck = 0
  /\ call = [c \in Callers |-> Idle]
  /\ saves = {}

Put(f, r, v) == [x \in DOMAIN f \cup {r} |-> IF x = r THEN v ELSE f[x]]

MaxOf(S) == CHOOSE x \in S : \A y \in S : y <= x

-----------------------------------------------------------------------------
(* The snapshot manager *)

Settled(contents) == [rejected |-> FALSE, contents |-> contents]
Rejected == [rejected |-> TRUE, contents |-> NoCarets]

\* The revisions whose snapshots a call waits for.
WantedBy(c) ==
  IF call[c].pc \in {"look", "introduce", "prepare", "clean", "attempt", "result", "view"}
  THEN {call[c].want}
  ELSE IF call[c].pc = "diff" THEN {call[c].change.revNum, call[c].want} ELSE {}

Wanted == (UNION {WantedBy(c) : c \in Callers})
          \cup {s.revNum : s \in {s \in saves : s.phase = "get"}}

\* The nearest cached snapshot at or before r.
Bases(r) == {b \in DOMAIN cache : b <= r}

Available(r) == r \in DOMAIN cache /\ ~ cache[r].rejected

\* What getSnapshot(r) throws for: the retrieval was rejected, the snapshot
\* could not be made, or it is of a revision that is no longer to be had.
Unavailable(r) ==
  \/ cache = <<>> /\ retrievalRejected
  \/ cache # <<>> /\ Bases(r) = {}
  \/ r \in DOMAIN cache /\ cache[r].rejected

\* getComposedChanges(): all the changes have to be there.
InFile(first, last) == first..last \subseteq DOMAIN changes

Composed(contents, first, last) ==
  ComposeAllCarets(contents, [i \in 1..(last + 1 - first) |-> changes[first + i - 1]])

\* Mutant: the last change is left out.
MakeWithoutLast(base, contents, r) ==
  IF InFile(base + 1, r) THEN Settled(Composed(contents, base + 1, r - 1)) ELSE Rejected

\* _makeSnapshot(): compose the changes after the base on top of it.
Make(base, contents, r) ==
  IF InFile(base + 1, r) THEN Settled(Composed(contents, base + 1, r)) ELSE Rejected

\* The first call that finds the cache empty reads the stored snapshot, and
\* those that come meanwhile wait for the same promise.  If there is none yet,
\* the cache stays empty until change 0 has been read as well.
Retrieve ==
  /\ Wanted # {} /\ cache = <<>> /\ ~ retrievalRejected
  /\ \/ /\ stored # NoSnapshot
        /\ cache' = Put(cache, stored.revNum, Settled(stored.contents))
     \/ /\ stored = NoSnapshot /\ 0 \in DOMAIN changes
        /\ cache' = Put(cache, 0, Settled(NoCarets))
  /\ UNCHANGED <<now, file, retrievalRejected, nextIdleCheck, call, saves, troubles>>

\* _makeSnapshot0() comes after the stored snapshot, unless change 0 is erased
\* by then.  A call that comes in between finds that snapshot in the cache and
\* waits no longer; the calls that came before are taken to be such calls too.
MakeSnapshot0 ==
  /\ cache # <<>> /\ 0 \in DOMAIN changes \ DOMAIN cache
  /\ cache' = Put(cache, 0, Settled(NoCarets))
  /\ UNCHANGED <<now, file, retrievalRejected, nextIdleCheck, call, saves, troubles>>

\* Reading the file fails.  The rejected promise is never replaced by null.
FailRetrieval ==
  /\ Wanted # {} /\ cache = <<>> /\ ~ retrievalRejected
  /\ troubles < MaxTroubles
  /\ retrievalRejected' = TRUE
  /\ troubles' = troubles + 1
  /\ UNCHANGED <<now, file, cache, nextIdleCheck, call, saves>>

\* A snapshot that is wanted is cached as a promise, made from the nearest base.
\* It stays there when it is rejected, and so do those that are based on it.
MakeSnapshot(r) ==
  /\ r \in Wanted \ DOMAIN cache /\ Bases(r) # {}
  /\ LET base == MaxOf(Bases(r))
     IN cache' = Put(cache, r, IF cache[base].rejected THEN Rejected
                               ELSE Make(base, cache[base].contents, r))
  /\ UNCHANGED <<now, file, retrievalRejected, nextIdleCheck, call, saves, troubles>>

FailSnapshot(r) ==
  /\ r \in Wanted \ DOMAIN cache /\ Bases(r) # {}
  /\ troubles < MaxTroubles
  /\ cache' = Put(cache, r, Rejected)
  /\ troubles' = troubles + 1
  /\ UNCHANGED <<now, file, retrievalRejected, nextIdleCheck, call, saves>>

-----------------------------------------------------------------------------
(* Calls: caret_update() of a session, and _removeIdleCarets() *)

\* getSnapshot() with no revision number asks for the current one.  On its way
\* to the snapshot manager it starts the idle check, if one is due.
Ask(c, pc, current) == [call[c] EXCEPT !.pc = pc, !.want = current]

IdleCheckDue == now >= nextIdleCheck

MaybeRemoveIdleCarets ==
  nextIdleCheck' = IF IdleCheckDue THEN now + IdleCheckPeriod ELSE nextIdleCheck

\* The calls, with the cleaner started if the idle check is due.  There is one
\* cleaner at a time here: it takes far less than the period between checks.
WithCleaner(calls, current) ==
  IF IdleCheckDue /\ calls[Cleaner].pc = "idle"
  THEN [calls EXCEPT ![Cleaner] = [Idle EXCEPT !.pc = "clean", !.want = current]]
  ELSE calls

Goes(c, local) ==
  /\ call' = WithCleaner([call EXCEPT ![c] = local], local.want)
  /\ MaybeRemoveIdleCarets

Current(c) == cache[call[c].want].contents

\* caret_update() first looks whether the session's caret is there.
CaretUpdate(c, spot) ==
  /\ call[c].pc = "idle"
  /\ Goes(c, [Ask(c, "look", revNum) EXCEPT !.spot = spot])

\* update(): the snapshot the change was made from, which it asks for again, is
\* in the cache.  Other parameters of update() are always good.
Update(c, delta) ==
  [Ask(c, "attempt", revNum) EXCEPT
     !.change = [revNum |-> call[c].want + 1, delta |-> delta],
     !.expected = ComposeCarets(Current(c), delta)]

Look(c) ==
  /\ call[c].pc = "look" /\ Available(call[c].want)
  /\ Goes(c, Ask(c, IF c \in DOMAIN Current(c) THEN "prepare" ELSE "introduce", revNum))
  /\ UNCHANGED <<now, file, memory, saves, troubles>>

\* changeForNewCaret(), then update() with it.
Introduce(c) ==
  /\ call[c].pc = "introduce" /\ Available(call[c].want)
  /\ Goes(c, Update(c, [id \in {c} |-> Add(Caret(Nowhere))]))
  /\ UNCHANGED <<now, file, memory, saves, troubles>>

\* A call has thrown.  Who watches tells trouble with getting a change from
\* trouble with getting a snapshot.
Failed(local) ==
  [Idle EXCEPT !.pc = IF local.pc \in {"after", "diff"} THEN "trouble" ELSE "failed"]

Fail(c) == call' = [call EXCEPT ![c] = Failed(@)]

\* changeForUpdate(), then update() with it; it throws for an unknown caret.
Prepare(c) ==
  /\ call[c].pc = "prepare" /\ Available(call[c].want)
  /\ IF c \in DOMAIN Current(c)
     THEN /\ Goes(c, [Update(c, [id \in {c} |-> Add(Caret(call[c].spot))])
                        EXCEPT !.spot = Nowhere])
     ELSE /\ Fail(c)
          /\ UNCHANGED nextIdleCheck
  /\ UNCHANGED <<now, file, memory, saves, troubles>>

\* Mutant: a caret is idle as soon as time has passed since it was active.
IdleAtOnce(caret) == caret.lastActive < now

IsIdle(caret) == caret.lastActive < now - MaxIdle

\* _removeIdleCarets(), from the time it has its snapshot.
RemoveIdle ==
  LET idle == {id \in DOMAIN Current(Cleaner) : IsIdle(Current(Cleaner)[id])}
  IN /\ call[Cleaner].pc = "clean" /\ Available(call[Cleaner].want)
     /\ IF idle = {}
        THEN /\ call' = [call EXCEPT ![Cleaner] = Idle]
             /\ UNCHANGED nextIdleCheck
        ELSE Goes(Cleaner, Update(Cleaner, [id \in idle |-> Delete]))
     /\ UNCHANGED <<now, file, memory, saves, troubles>>

\* _impl_rebase(), unless the change directly follows its base.
Rebased(expected, change, current) ==
  RebaseCarets(expected,
    [i \in 1..(current - change.revNum + 1) |-> changes[change.revNum + i - 1]],
    cache[current].contents)

\* The next thing the caller does when an update() has succeeded.
Return(c, current) ==
  IF call[c].spot = Nowhere
  THEN /\ call' = [call EXCEPT ![c] = [Idle EXCEPT !.pc = "done"]]
       /\ UNCHANGED nextIdleCheck
  ELSE Goes(c, Ask(c, "prepare", current))

\* _attemptUpdate(), from its current snapshot to its appendChange().
Attempt(c) ==
  LET current == call[c].want
      sent    == call[c].change
      delta   == IF current = sent.revNum - 1 THEN sent.delta
                 ELSE IF InFile(sent.revNum, current)
                 THEN Rebased(call[c].expected, sent, current)
                 ELSE NotCarets
  IN /\ call[c].pc = "attempt" /\ Available(current)
     /\ \/ delta = NotCarets /\ Fail(c) /\ UNCHANGED nextIdleCheck
        \/ delta = NoCarets /\ Return(c, revNum)
        \/ /\ delta \notin {NotCarets, NoCarets}
           /\ call' = [call EXCEPT ![c].pc = "append",
                         ![c].toAppend = [revNum |-> current + 1, delta |-> delta]]
           /\ UNCHANGED nextIdleCheck
     /\ UNCHANGED <<now, file, memory, saves, troubles>>

\* _maybeWriteStoredSnapshot(), which nobody waits for.
MaybeSave(r) ==
  saves' = IF r % ChangesPerStoredSnapshot = 0
           THEN saves \cup {[revNum |-> r, phase |-> "get", contents |-> NoCarets]}
           ELSE saves

\* appendChange(): a compare-and-swap on the revision number.
AppendChange(c) ==
  LET r == call[c].toAppend.revNum
  IN /\ call[c].pc = "append" /\ r = revNum + 1 /\ revNum < MaxRev
     /\ revNum' = r
     /\ changes' = Put(changes, r, call[c].toAppend.delta)
     /\ history' = Put(history, r, ComposeCarets(history[r - 1], call[c].toAppend.delta))
     /\ MaybeSave(r)
     /\ IF call[c].toAppend = call[c].change
        THEN Return(c, r)
        ELSE Goes(c, [call[c] EXCEPT !.pc = "result", !.want = r])
     /\ UNCHANGED <<now, stored, memory, troubles>>

\* A lost race: update() goes round its loop.  If it was the file that refused,
\* and not the prerequisites, storing a snapshot is considered all the same.
LoseRace(c) ==
  /\ call[c].pc = "append" /\ call[c].toAppend.revNum # revNum + 1
  /\ MaybeSave(call[c].toAppend.revNum) \/ UNCHANGED saves
  /\ Goes(c, Ask(c, "attempt", revNum))
  /\ UNCHANGED <<now, file, memory, troubles>>

\* update() gets the snapshot of what it appended, for its correction.
Result(c) ==
  /\ call[c].pc = "result" /\ Available(call[c].want)
  /\ Return(c, revNum)
  /\ UNCHANGED <<now, file, memory, saves, troubles>>

\* getSnapshot() throws, and with it the call.
Refuse(c) ==
  /\ \E r \in WantedBy(c) : Unavailable(r)
  /\ Fail(c)
  /\ UNCHANGED <<now, file, memory, nextIdleCheck, saves, troubles>>

\* Whether removing idle carets succeeded or failed, it may be done again.
Forget ==
  /\ call[Cleaner].pc \in {"done", "failed"}
  /\ call' = [call EXCEPT ![Cleaner] = Idle]
  /\ UNCHANGED <<now, file, memory, nextIdleCheck, saves, troubles>>

-----------------------------------------------------------------------------
(* Storing a snapshot *)

GetSnapshotToSave(s) ==
  /\ s.phase = "get"
  /\ \/ /\ Available(s.revNum)
        /\ saves' = (saves \ {s}) \cup
             {[s EXCEPT !.phase = "write", !.contents = cache[s.revNum].contents]}
     \/ /\ Unavailable(s.revNum)
        /\ saves' = saves \ {s}
  /\ UNCHANGED <<now, file, memory, nextIdleCheck, call, troubles>>

DeleteBefore(r) ==
  IF r > ChangesPerStoredSnapshot THEN r - ChangesPerStoredSnapshot ELSE 0

\* _writeStoredSnapshot(): one append to the file, which takes the place of
\* the stored snapshot and erases changes that are old enough.
WriteStoredSnapshot(s) ==
  /\ s.phase = "write"
  /\ stored' = [revNum |-> s.revNum, contents |-> s.contents]
  /\ changes' = [r \in {r \in DOMAIN changes : r >= DeleteBefore(s.revNum)} |-> changes[r]]
  /\ saves' = saves \ {s}
  /\ UNCHANGED <<now, revNum, history, memory, nextIdleCheck, call, troubles>>

\* The file has moved on between its revision number and the append.
LoseSave(s) ==
  /\ s.phase = "write"
  /\ saves' = saves \ {s}
  /\ UNCHANGED <<now, file, memory, nextIdleCheck, call, troubles>>

-----------------------------------------------------------------------------
\* What the server does by itself.
Step(c) ==
  Look(c) \/ Introduce(c) \/ Prepare(c) \/ Attempt(c) \/ AppendChange(c) \/ LoseRace(c)
  \/ Result(c) \/ Refuse(c)

Manage == Retrieve \/ MakeSnapshot0 \/ \E r \in Wanted : MakeSnapshot(r)

Save(s) == GetSnapshotToSave(s) \/ WriteStoredSnapshot(s) \/ LoseSave(s)

ServerNext ==
  \/ \E c \in Callers : Step(c)
  \/ Manage
  \/ FailRetrieval \/ \E r \in Wanted : FailSnapshot(r)
  \/ RemoveIdle \/ Forget
  \/ \E s \in saves : Save(s)

Tick ==
  /\ now < MaxNow /\ now' = now + 1
  /\ UNCHANGED <<file, memory, nextIdleCheck, call, saves, troubles>>

\* The process ends and another one starts: only the file is left.  It is left in
\* whole: what the end of a process takes of a file that was not yet flushed is
\* modelled in LocalFile, and in Documents.
Restart ==
  /\ troubles < MaxTroubles
  /\ troubles' = troubles + 1
  /\ cache' = <<>> /\ retrievalRejected' = FALSE /\ nextIdleCheck' = 0 /\ saves' = {}
  /\ call' = [c \in Callers |-> IF call[c].pc \in {"idle", "done", "trouble"} THEN call[c]
                                ELSE Failed(call[c])]
  /\ UNCHANGED <<now, file>>
=============================================================================
