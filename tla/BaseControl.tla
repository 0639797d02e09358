----------------------------- MODULE BaseControl -----------------------------
(***************************************************************************)
(* The server's update protocol (doc-server/BaseControl.js).               *)
(*                                                                         *)
(* A document is one file, shared by several parts (body, properties,      *)
(* carets).  Each part keeps in it a revision number, one change per       *)
(* revision and now and then a stored snapshot.  The only way to write is  *)
(* appendChange() of the file: a compare-and-swap on the revision number   *)
(* of the WHOLE file, so that parts lose races against each other as well  *)
(* as against themselves.                                                  *)
(*                                                                         *)
(* Calls of update() run concurrently: every `await' in the code is a      *)
(* point where any other call may run.  The data algebra (how a delta      *)
(* applies, how two contents differ, how a change is rebased) is a         *)
(* parameter: PropertyDelta and BodyDelta give its two instances.          *)
(***************************************************************************)
EXTENDS Naturals, Sequences, FiniteSets, Bags
INSTANCE BagsExt

CONSTANTS
  Parts,               \* document parts that share the file
  Calls,               \* calls of update(), each made at most once
  Contents,            \* valid ("document") contents of a part
  EmptyDelta,          \* deltaClass.EMPTY
  Compose(_, _),       \* contents, delta: the composition, a document or not
  Diff(_, _),          \* contents, newer contents: a delta between them
  Rebase(_, _, _, _),  \* delta, expected contents, server's deltas, current
                       \* contents: _impl_rebase() of the concrete class
  Submittable(_, _),   \* call, contents: deltas it may send against them
  BootDelta,           \* deltas of the changes FileBootstrap leaves, from 1 on
  BootContents,        \* contents of revisions 0, 1, ... after FileBootstrap
  ChangesPerStoredSnapshot,
  NoCall,              \* the author of the changes that FileBootstrap makes
  BadValue             \* what stands for a thrown badValue or badUse error

BootRev == Len(BootDelta)

\* A function made to yield v at x.
With(f, x, v) == [y \in DOMAIN f \cup {x} |-> IF y = x THEN v ELSE f[y]]

\* What new snapshotClass(revNum, contents.compose(delta, true)) gives: it
\* throws when the result is not a document.
NewContents(old, delta) ==
  IF old \in Contents /\ Compose(old, delta) \in Contents
  THEN Compose(old, delta)
  ELSE BadValue

ASSUME CallsAssumption == NoCall \notin Calls
ASSUME BadValueAssumption == BadValue \notin Contents
ASSUME PeriodAssumption == ChangesPerStoredSnapshot \in Nat \ {0}

\* FileBootstrap leaves at least revision 0, and servable contents.
ASSUME BootAssumption ==
  /\ BootRev \in Nat
  /\ BootContents \in [0..BootRev -> Contents]
  /\ \A r \in 1..BootRev :
       BootContents[r] = NewContents(BootContents[r - 1], BootDelta[r])

\* What the operational-transform library promises.
ASSUME EmptyAssumption ==
  \A c \in Contents : Compose(c, EmptyDelta) = c
ASSUME DiffAssumption ==
  \A c, e \in Contents : Compose(c, Diff(c, e)) = e

VARIABLES
  fileRev,    \* revision number of the file
  revNum,     \* revNum[p]: what the path revision_number of p holds
  changes,    \* changes[p]: the changes stored for p, by revision number
  snapshots,  \* snapshots[p]: what getSnapshot() makes of them, by revision
  stored,     \* stored[p]: revision of the stored snapshot, 0 if there is none
  call,       \* call[c]: local variables of the call c of update()
  saves       \* bag of the running _maybeWriteStoredSnapshot() calls

vars == <<fileRev, revNum, changes, snapshots, stored, call, saves>>

\* One change as stored: who made it stands for its author and timestamp.
Change(c, delta) == [by |-> c, delta |-> delta]

NoChange == [revNum |-> 0, delta |-> EmptyDelta]

Init ==
  /\ fileRev = 1 + BootRev
  /\ revNum = [p \in Parts |-> BootRev]
  /\ changes = [p \in Parts |->
                  [r \in 0..BootRev |->
                     Change(NoCall, IF r = 0 THEN EmptyDelta ELSE BootDelta[r])]]
  /\ snapshots = [p \in Parts |-> BootContents]
  /\ stored = [p \in Parts |-> 0]
  /\ \E partOf \in [Calls -> Parts] :
       call = [c \in Calls |->
                 [pc |-> "idle", part |-> partOf[c],
                  change |-> NoChange, toAppend |-> NoChange,
                  fileRev |-> 0, result |-> NoChange]]
  /\ saves = EmptyBag

-----------------------------------------------------------------------------
(* One call of update() *)

Expected(c) ==
  NewContents(snapshots[call[c].part][call[c].change.revNum - 1],
              call[c].change.delta)

\* Mutant: the range starts one too late, as if first were exclusive.
DeltasAfter(p, first, last) ==
  [i \in 1..(last - first) |-> changes[p][first + i].delta]

\* Deltas of the changes from revision first through last, in order.
DeltasOf(p, first, last) ==
  [i \in 1..(last + 1 - first) |-> changes[p][first + i - 1].delta]

\* The change that c sent, made fit to become revision r of its part: as it is
\* if r directly follows its base, else rebased onto revision r - 1.
RebasedChange(c, r) ==
  LET p    == call[c].part
      sent == call[c].change
  IN IF sent.revNum = r
     THEN sent
     ELSE [revNum |-> r,
           delta  |-> Rebase(sent.delta, Expected(c),
                             DeltasOf(p, sent.revNum, r - 1), snapshots[p][r - 1])]

Finish(c, pc, result) ==
  call' = [call EXCEPT ![c].pc = pc, ![c].result = result]

\* The part of update() up to its loop.  The base must be a revision that
\* exists, and its snapshot must compose with the change.
Submit(c) ==
  /\ call[c].pc = "idle"
  /\ \E base \in 0..revNum[call[c].part] :
       LET old == snapshots[call[c].part][base]
       IN \E delta \in Submittable(c, old) :
            call' = [call EXCEPT
              ![c].change = [revNum |-> base + 1, delta |-> delta],
              ![c].pc = IF NewContents(old, delta) = BadValue
                        THEN "failed" ELSE "loop"]
  /\ UNCHANGED <<fileRev, revNum, changes, snapshots, stored, saves>>

\* _attemptUpdate() up to its appendChange(): take the current snapshot,
\* rebase onto it unless it is the base, and stop if nothing is left to do.
AttemptUpdate(c) ==
  LET p       == call[c].part
      rebased == RebasedChange(c, revNum[p] + 1)
  IN /\ call[c].pc = "loop"
     /\ \/ /\ snapshots[p][revNum[p]] = BadValue
           /\ Finish(c, "failed", NoChange)
        \/ /\ snapshots[p][revNum[p]] # BadValue
           /\ rebased.delta = EmptyDelta
           /\ Finish(c, "done", [revNum |-> revNum[p], delta |-> EmptyDelta])
        \/ /\ snapshots[p][revNum[p]] # BadValue
           /\ rebased.delta # EmptyDelta
           /\ call' = [call EXCEPT ![c].pc = "append", ![c].toAppend = rebased]
     /\ UNCHANGED <<fileRev, revNum, changes, snapshots, stored, saves>>

\* Mutant: the file's revision number is trusted to catch every race.
NoPrerequisites(p, r) == TRUE

\* appendChange() up to file.appendChange(): the prerequisites are checked
\* against a snapshot of the file; when they fail the race is lost.
PrerequisitesHold(p, r) == revNum[p] = r - 1 /\ r \notin DOMAIN changes[p]

CheckPrerequisites(c) ==
  /\ call[c].pc = "append"
  /\ call' = IF PrerequisitesHold(call[c].part, call[c].toAppend.revNum)
             THEN [call EXCEPT ![c].pc = "cas", ![c].fileRev = fileRev]
             ELSE [call EXCEPT ![c].pc = "loop"]
  /\ UNCHANGED <<fileRev, revNum, changes, snapshots, stored, saves>>

\* Mutant: the file takes what it is given.
NeverLost(seen) == FALSE

\* file.appendChange() refuses a change that is not ahead of the file.
LostRace(seen) == seen + 1 <= fileRev

\* _maybeWriteStoredSnapshot() is called whether the append was won or lost.
MaybeSave(p, r) ==
  saves' = IF r % ChangesPerStoredSnapshot = 0
           THEN BagAdd(saves, [part |-> p, revNum |-> r,
                               phase |-> "get", fileRev |-> 0])
           ELSE saves

\* Mutant: only a change that went in as it was sent counts as a success.
AppendedUnlessRebased(c) ==
  IF call[c].toAppend = call[c].change
  THEN Finish(c, "done", [revNum |-> call[c].change.revNum, delta |-> EmptyDelta])
  ELSE call' = [call EXCEPT ![c].pc = "loop"]

\* A change that went in as it was sent needs no correction.
Appended(c) ==
  IF call[c].toAppend = call[c].change
  THEN Finish(c, "done", [revNum |-> call[c].change.revNum, delta |-> EmptyDelta])
  ELSE call' = [call EXCEPT ![c].pc = "correct"]

\* file.appendChange() finds the file at the revision the call saw.
AppendWon(c) ==
  LET p     == call[c].part
      r     == call[c].toAppend.revNum
      delta == call[c].toAppend.delta
  IN /\ call[c].pc = "cas"
     /\ ~ LostRace(call[c].fileRev)
     /\ fileRev' = fileRev + 1
     /\ revNum' = [revNum EXCEPT ![p] = r]
     /\ changes' = [changes EXCEPT ![p] = With(@, r, Change(c, delta))]
     /\ snapshots' = [snapshots EXCEPT
                       ![p] = With(@, r, NewContents(@[r - 1], delta))]
     /\ Appended(c)
     /\ MaybeSave(p, r)
     /\ UNCHANGED stored

\* Mutant: only the last step is tried again.
AppendAgain(c) ==
  /\ call[c].pc = "cas"
  /\ LostRace(call[c].fileRev)
  /\ MaybeSave(call[c].part, call[c].toAppend.revNum)
  /\ UNCHANGED <<fileRev, revNum, changes, snapshots, stored, call>>

\* The file has moved on: sleep, then go round the loop of update().
AppendLost(c) ==
  /\ call[c].pc = "cas"
  /\ LostRace(call[c].fileRev)
  /\ call' = [call EXCEPT ![c].pc = "loop"]
  /\ MaybeSave(call[c].part, call[c].toAppend.revNum)
  /\ UNCHANGED <<fileRev, revNum, changes, snapshots, stored>>

\* Mutant: the two sides of the diff are exchanged.
CorrectionBack(c, result) == Diff(result, Expected(c))

\* What leads from the contents the caller expects to the result's.
Correction(c, result) == Diff(Expected(c), result)

\* The end of _attemptUpdate() for a rebased change: the result is the revision
\* just appended, even when there are newer ones.
MakeCorrection(c) ==
  LET r      == call[c].toAppend.revNum
      result == snapshots[call[c].part][r]
  IN /\ call[c].pc = "correct"
     /\ IF result = BadValue
        THEN Finish(c, "failed", NoChange)
        ELSE Finish(c, "done", [revNum |-> r, delta |-> Correction(c, result)])
     /\ UNCHANGED <<fileRev, revNum, changes, snapshots, stored, saves>>

\* A file operation, or the loop of update() itself, runs out of time.  In
\* "correct" the change has been appended: the caller cannot tell.
TimeOut(c) ==
  /\ call[c].pc \in {"loop", "append", "cas", "correct"}
  /\ Finish(c, "timedOut", NoChange)
  /\ UNCHANGED <<fileRev, revNum, changes, snapshots, stored, saves>>

-----------------------------------------------------------------------------
(* _maybeWriteStoredSnapshot(), which update() does not wait for *)

Replace(s, t) == BagAdd(BagRemove(saves, s), t)

\* Get the snapshot (any error ends the attempt), then the file's revision.
StartSave(s) ==
  /\ s.phase = "get"
  /\ saves' = IF s.revNum <= revNum[s.part] /\ snapshots[s.part][s.revNum] # BadValue
              THEN Replace(s, [s EXCEPT !.phase = "write", !.fileRev = fileRev])
              ELSE BagRemove(saves, s)
  /\ UNCHANGED <<fileRev, revNum, changes, snapshots, stored, call>>

\* Append the write of the stored snapshot; losing the race is ignored.
WriteStoredSnapshot(s) ==
  /\ s.phase = "write"
  /\ IF LostRace(s.fileRev)
     THEN UNCHANGED <<stored, fileRev>>
     ELSE /\ stored' = [stored EXCEPT ![s.part] = s.revNum]
          /\ fileRev' = fileRev + 1
  /\ saves' = BagRemove(saves, s)
  /\ UNCHANGED <<revNum, changes, snapshots, call>>

-----------------------------------------------------------------------------
\* The steps of a call that are its own doing (not the client's, not a clock's).
Step(c) ==
  \/ AttemptUpdate(c)
  \/ CheckPrerequisites(c)
  \/ AppendWon(c)
  \/ AppendLost(c)
  \/ MakeCorrection(c)

Save(s) == StartSave(s) \/ WriteStoredSnapshot(s)

Next ==
  \/ \E c \in Calls :
       \/ Submit(c)
       \/ Step(c)
       \/ TimeOut(c)
  \/ \E s \in BagToSet(saves) : Save(s)

Spec == Init /\ [][Next]_vars

\* Node's event loop runs every resumed call; clients and timeouts are free.
Fairness ==
  /\ \A c \in Calls : WF_vars(Step(c))
  /\ WF_vars(\E s \in BagToSet(saves) : Save(s))

FairSpec == Spec /\ Fairness

-----------------------------------------------------------------------------
(* Properties *)

\* The changes that the call c made.
MadeBy(c) ==
  {r \in DOMAIN changes[call[c].part] : changes[call[c].part][r].by = c}

FileTyped ==
  /\ fileRev \in Nat
  /\ revNum \in [Parts -> Nat]
  /\ stored \in [Parts -> Nat]
  /\ DOMAIN changes = Parts
  /\ DOMAIN snapshots = Parts
  /\ \A p \in Parts : \A r \in DOMAIN snapshots[p] :
       snapshots[p][r] \in Contents \cup {BadValue}

CallTyped(c) ==
  /\ DOMAIN call[c] = {"pc", "part", "change", "toAppend", "fileRev", "result"}
  /\ call[c].pc \in {"idle", "loop", "append", "cas", "correct",
                    "done", "failed", "timedOut"}
  /\ call[c].part \in Parts
  /\ call[c].fileRev \in 0..fileRev
  /\ call[c].change.revNum \in Nat
  /\ call[c].toAppend.revNum \in Nat
  /\ call[c].result.revNum \in Nat

SaveTyped(s) ==
  /\ DOMAIN s = {"part", "revNum", "phase", "fileRev"}
  /\ s.part \in Parts
  /\ s.revNum \in Nat
  /\ s.fileRev \in 0..fileRev
  /\ s.phase \in {"get", "write"}

\* The shape of the state: every call and every attempt to store a snapshot is
\* about a part and about revisions, and saw the file as it is or was.
TypeOK ==
  /\ FileTyped
  /\ DOMAIN call = Calls
  /\ \A c \in Calls : CallTyped(c)
  /\ \A s \in BagToSet(saves) : SaveTyped(s)

\* The stored changes of a part are exactly those of revisions 0 through the
\* stored revision number: no race leaves a gap, or a change past the end.
ChangesContiguous ==
  \A p \in Parts :
    /\ DOMAIN changes[p] = 0..revNum[p]
    /\ DOMAIN snapshots[p] = 0..revNum[p]

\* What a call holds is true of the log as it is now, however old: its base is
\* there, and the change it is about to append is made for its place.  If the
\* file has not moved since the prerequisites held, that place is the next.
InOrder(c) ==
  LET last     == revNum[call[c].part]
      sent     == call[c].change
      toAppend == call[c].toAppend
  IN /\ call[c].pc \in {"loop", "append", "cas", "correct"} =>
          /\ sent.revNum \in 1..(last + 1)
          /\ Expected(c) # BadValue
     /\ call[c].pc \in {"append", "cas"} =>
          /\ toAppend.revNum \in sent.revNum..(last + 1)
          /\ toAppend = RebasedChange(c, toAppend.revNum)
          /\ toAppend.delta # EmptyDelta
     /\ call[c].pc = "cas" /\ call[c].fileRev = fileRev =>
          toAppend.revNum = last + 1
     /\ call[c].pc = "correct" =>
          toAppend.revNum \in (sent.revNum + 1)..last

CallsInOrder == \A c \in Calls : InOrder(c)

\* A call's change is in the log once if the call said so, at the revision it
\* answered; never twice, whatever it lost and retried; and not at all while
\* it is still trying.  A call that timed out or failed may have been applied.
AppliedOnce ==
  \A c \in Calls :
    /\ Cardinality(MadeBy(c)) <= 1
    /\ call[c].pc \in {"idle", "loop", "append", "cas"} => MadeBy(c) = {}
    /\ call[c].pc = "correct" => MadeBy(c) = {call[c].toAppend.revNum}
    /\ call[c].pc = "done" => MadeBy(c) \subseteq {call[c].result.revNum}

\* What update() documents of its result: composing the correction with the
\* expected contents gives the contents of the revision it names.  This holds
\* of a call whose change was appended; the README says what a change gets that
\* became empty when it was rebased.
AppendedCorrectionYieldsResult ==
  \A c \in Calls :
    call[c].pc = "done" /\ MadeBy(c) # {} =>
      Compose(Expected(c), call[c].result.delta) =
        snapshots[call[c].part][call[c].result.revNum]

\* Every revision that was accepted can be served: rebasing never appends a
\* change that does not fit the revision before it.
AlwaysServable ==
  \A p \in Parts : \A r \in 0..revNum[p] : snapshots[p][r] # BadValue

\* A step writes at most one part of the file, and only at the revision after
\* its current one: what was once read of a revision stays true.
GrowsOnly ==
  /\ \A p \in Parts :
       /\ revNum'[p] \in {revNum[p], revNum[p] + 1}
       /\ \A r \in 0..revNum[p] : /\ changes'[p][r] = changes[p][r]
                                  /\ snapshots'[p][r] = snapshots[p][r]
  /\ \A p, q \in Parts :
       revNum'[p] # revNum[p] /\ (revNum'[q] # revNum[q] \/ stored'[q] # stored[q])
         => p = q /\ stored'[q] = stored[q]
  /\ fileRev' = fileRev => revNum' = revNum /\ stored' = stored

HistoryOnlyGrows == [][GrowsOnly]_<<fileRev, revNum, changes, snapshots, stored>>

\* What a call looks like from outside: whether it is open, took effect or was
\* answered, and not how often it has tried.
Asked == [c \in Calls |-> [part |-> call[c].part, change |-> call[c].change]]

StatusAt(pc) ==
  CASE pc \in {"loop", "append", "cas"} -> "open"
    [] pc = "correct" -> "applied"
    [] pc \in {"failed", "timedOut"} -> "gaveUp"
    [] pc \in {"idle", "done"} -> pc

Status == [c \in Calls |-> StatusAt(call[c].pc)]

AnswerOf(state) ==
  CASE state.pc = "correct" ->
         [revNum |-> state.toAppend.revNum, delta |-> EmptyDelta]
    [] state.pc = "done" -> state.result
    [] state.pc \notin {"correct", "done"} -> NoChange

Answer == [c \in Calls |-> AnswerOf(call[c])]

Log == INSTANCE DocLog WITH asked <- Asked, status <- Status, answer <- Answer

\* The calls of update() are linearizable: races, retries and stored snapshots
\* notwithstanding, each takes effect at one instant or not at all, rebased
\* onto exactly the changes that came before it, and is answered accordingly.
ImplementsLog == Log!Spec

\* However many races it loses, a call ends without the help of a timeout.
EveryCallReturns ==
  \A c \in Calls :
    call[c].pc = "loop" ~> call[c].pc \in {"done", "failed", "timedOut"}
=============================================================================
