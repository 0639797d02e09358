-------------------------- MODULE BaseControlProofs --------------------------
(***************************************************************************)
(* Proofs about BaseControl, for any number of parts and of calls and any  *)
(* data algebra that satisfies the assumptions.                            *)
(***************************************************************************)
EXTENDS BaseControl, PropertyDelta, Inductions, FiniteSetTheorems, TLAPS

\* The inductive invariant.
IInv == TypeOK /\ ChangesContiguous /\ CallsInOrder

\* What no step may undo: the revisions that exist, and their contents.
HistoryKept ==
  \A p \in Parts :
    /\ revNum'[p] >= revNum[p]
    /\ \A r \in 0..revNum[p] : /\ changes'[p][r] = changes[p][r]
                               /\ snapshots'[p][r] = snapshots[p][r]

-----------------------------------------------------------------------------
(* Lemmas about the data *)

\* NewContents() gives contents or BadValue, whatever it is given.
LEMMA NewContentsType ==
  ASSUME NEW old, NEW delta
  PROVE  NewContents(old, delta) \in Contents \cup {BadValue}
BY DEF NewContents

\* What is in the bag of saves was there before, or is what was added.
LEMMA BagAddElements ==
  ASSUME NEW B, NEW s
  PROVE  BagToSet(BagAdd(B, s)) = BagToSet(B) \cup {s}
BY DEF BagToSet, BagAdd

LEMMA BagRemoveElements ==
  ASSUME NEW B, NEW s
  PROVE  BagToSet(BagRemove(B, s)) \subseteq BagToSet(B)
BY DEF BagToSet, BagRemove

-----------------------------------------------------------------------------
(* What the log's past determines stays as it is *)

\* The change that wins the race for the file goes to the next revision.
LEMMA WinnerIsNext ==
  ASSUME IInv, NEW c \in Calls, AppendWon(c)
  PROVE  call[c].toAppend.revNum = revNum[call[c].part] + 1
<1>1. call[c].fileRev \in 0..fileRev /\ fileRev \in Nat
  BY DEF IInv, TypeOK, FileTyped, CallTyped
<1>2. call[c].fileRev = fileRev
  BY <1>1 DEF AppendWon, LostRace
<1> QED
  BY <1>2 DEF IInv, CallsInOrder, InOrder, AppendWon

\* All that the winner does to the log.
LEMMA WinnerExtendsLog ==
  ASSUME IInv, NEW c \in Calls, AppendWon(c),
         NEW p, p = call[c].part,
         NEW r, r = call[c].toAppend.revNum
  PROVE  /\ p \in Parts
         /\ r = revNum[p] + 1
         /\ revNum' = [revNum EXCEPT ![p] = r]
         /\ DOMAIN changes' = Parts
         /\ DOMAIN snapshots' = Parts
         /\ DOMAIN changes'[p] = 0..r
         /\ DOMAIN snapshots'[p] = 0..r
         /\ changes'[p][r] = Change(c, call[c].toAppend.delta)
         /\ snapshots'[p][r] =
              NewContents(snapshots[p][r - 1], call[c].toAppend.delta)
         /\ \A k \in 0..revNum[p] : /\ changes'[p][k] = changes[p][k]
                                     /\ snapshots'[p][k] = snapshots[p][k]
         /\ \A q \in Parts \ {p} : /\ changes'[q] = changes[q]
                                   /\ snapshots'[q] = snapshots[q]
<1>1. r = revNum[p] + 1
  BY WinnerIsNext
<1>2. p \in Parts /\ revNum \in [Parts -> Nat]
  BY DEF IInv, TypeOK, FileTyped, CallTyped
<1>3. DOMAIN changes = Parts /\ DOMAIN snapshots = Parts
  BY DEF IInv, TypeOK, FileTyped, CallTyped
<1>4. DOMAIN changes[p] = 0..revNum[p] /\ DOMAIN snapshots[p] = 0..revNum[p]
  BY <1>2 DEF IInv, ChangesContiguous
<1> DEFINE newChange == Change(c, call[c].toAppend.delta)
           newContents == NewContents(snapshots[p][r - 1], call[c].toAppend.delta)
<1>5. /\ revNum' = [revNum EXCEPT ![p] = r]
      /\ changes' = [changes EXCEPT ![p] = With(changes[p], r, newChange)]
      /\ snapshots' = [snapshots EXCEPT ![p] = With(snapshots[p], r, newContents)]
  BY DEF AppendWon
<1>6. 0..r = (0..revNum[p]) \cup {r} /\ r \notin 0..revNum[p]
  BY <1>1, <1>2
<1> HIDE DEF newChange, newContents
<1>7. changes'[p] = With(changes[p], r, newChange)
  BY <1>2, <1>3, <1>5
<1>8. snapshots'[p] = With(snapshots[p], r, newContents)
  BY <1>2, <1>3, <1>5
<1>9. /\ DOMAIN changes'[p] = 0..r
      /\ changes'[p][r] = newChange
      /\ \A k \in 0..revNum[p] : changes'[p][k] = changes[p][k]
  <2>1. /\ DOMAIN With(changes[p], r, newChange) = DOMAIN changes[p] \cup {r}
        /\ With(changes[p], r, newChange)[r] = newChange
        /\ \A y \in DOMAIN changes[p] \ {r} :
             With(changes[p], r, newChange)[y] = changes[p][y]
    BY DEF With
  <2> QED
    BY <2>1, <1>4, <1>6, <1>7
<1>10. /\ DOMAIN snapshots'[p] = 0..r
       /\ snapshots'[p][r] = newContents
       /\ \A k \in 0..revNum[p] : snapshots'[p][k] = snapshots[p][k]
  <2>1. /\ DOMAIN With(snapshots[p], r, newContents) = DOMAIN snapshots[p] \cup {r}
        /\ With(snapshots[p], r, newContents)[r] = newContents
        /\ \A y \in DOMAIN snapshots[p] \ {r} :
             With(snapshots[p], r, newContents)[y] = snapshots[p][y]
    BY DEF With
  <2> QED
    BY <2>1, <1>4, <1>6, <1>8
<1>11. /\ DOMAIN changes' = Parts /\ DOMAIN snapshots' = Parts
       /\ \A q \in Parts \ {p} : changes'[q] = changes[q] /\ snapshots'[q] = snapshots[q]
  BY <1>3, <1>5
<1> QED
  BY <1>1, <1>2, <1>5, <1>9, <1>10, <1>11 DEF newChange, newContents

\* Only the winner of a race touches a log.
LEMMA OnlyWinnersWrite ==
  ASSUME [Next]_vars
  PROVE  \/ \E c \in Calls : AppendWon(c)
         \/ UNCHANGED <<revNum, changes, snapshots>>
<1>1. ASSUME NEW c \in Calls, Submit(c) \/ TimeOut(c)
      PROVE  UNCHANGED <<revNum, changes, snapshots>>
  <2>1. CASE Submit(c)
    BY <2>1, Zenon DEF Submit
  <2>2. CASE TimeOut(c)
    BY <2>2, Zenon DEF TimeOut
  <2> QED
    BY <1>1, <2>1, <2>2
<1>2. ASSUME NEW c \in Calls, Step(c), ~ AppendWon(c)
      PROVE  UNCHANGED <<revNum, changes, snapshots>>
  <2>1. CASE AttemptUpdate(c)
    BY <2>1, Zenon DEF AttemptUpdate
  <2>2. CASE CheckPrerequisites(c)
    BY <2>2, Zenon DEF CheckPrerequisites
  <2>3. CASE AppendLost(c)
    BY <2>3, Zenon DEF AppendLost
  <2>4. CASE MakeCorrection(c)
    BY <2>4, Zenon DEF MakeCorrection
  <2> QED
    BY <1>2, <2>1, <2>2, <2>3, <2>4 DEF Step
<1>3. ASSUME NEW s, Save(s)
      PROVE  UNCHANGED <<revNum, changes, snapshots>>
  BY <1>3, Zenon DEF Save, StartSave, WriteStoredSnapshot
<1>4. CASE UNCHANGED vars
  BY <1>4, Zenon DEF vars
<1> QED
  BY <1>1, <1>2, <1>3, <1>4 DEF Next

\* No step undoes history.
LEMMA NextKeepsHistory ==
  ASSUME IInv, [Next]_vars
  PROVE  HistoryKept
<1>1. ASSUME NEW c \in Calls, AppendWon(c)
      PROVE  HistoryKept
  <2>1. revNum \in [Parts -> Nat]
    BY DEF IInv, TypeOK, FileTyped, CallTyped
  <2> QED
    BY <1>1, <2>1, WinnerExtendsLog DEF HistoryKept
<1>2. ASSUME UNCHANGED <<revNum, changes, snapshots>>
      PROVE  HistoryKept
  <2>1. revNum \in [Parts -> Nat]
    BY DEF IInv, TypeOK, FileTyped, CallTyped
  <2> QED
    BY <1>2, <2>1 DEF HistoryKept
<1> QED
  BY <1>1, <1>2, OnlyWinnersWrite
\* What a caller expects depends on the past alone.
LEMMA ExpectedStable ==
  ASSUME IInv, HistoryKept, NEW c \in Calls,
         call'[c].part = call[c].part,
         call'[c].change = call[c].change,
         call[c].change.revNum \in 1..(revNum[call[c].part] + 1)
  PROVE  Expected(c)' = Expected(c)
<1>1. call[c].part \in Parts /\ revNum[call[c].part] \in Nat
  BY DEF IInv, TypeOK, FileTyped, CallTyped
<1>2. call[c].change.revNum - 1 \in 0..revNum[call[c].part]
  BY <1>1
<1>3. snapshots'[call[c].part][call[c].change.revNum - 1] =
        snapshots[call[c].part][call[c].change.revNum - 1]
  BY <1>1, <1>2 DEF HistoryKept
<1> QED
  BY <1>3 DEF Expected

\* So does what its change becomes, up to the next revision.
LEMMA RebasedStable ==
  ASSUME IInv, HistoryKept, NEW c \in Calls,
         call'[c].part = call[c].part,
         call'[c].change = call[c].change,
         call[c].change.revNum \in 1..(revNum[call[c].part] + 1),
         NEW r \in call[c].change.revNum..(revNum[call[c].part] + 1)
  PROVE  RebasedChange(c, r)' = RebasedChange(c, r)
<1> DEFINE p == call[c].part
           first == call[c].change.revNum
<1>1. p \in Parts /\ revNum[p] \in Nat
  BY DEF IInv, TypeOK, FileTyped, CallTyped
<1>2. CASE r = first
  BY <1>2 DEF RebasedChange
<1>3. CASE r # first
  <2>1. \A i \in 1..((r - 1) + 1 - first) :
          changes'[p][first + i - 1] = changes[p][first + i - 1]
    <3>1. \A i \in 1..((r - 1) + 1 - first) : first + i - 1 \in 0..revNum[p]
      BY <1>1
    <3> QED
      BY <1>1, <3>1 DEF HistoryKept
  <2>2. DeltasOf(p, first, r - 1)' = DeltasOf(p, first, r - 1)
    BY <2>1 DEF DeltasOf
  <2>3. snapshots'[p][r - 1] = snapshots[p][r - 1]
    <3>1. r - 1 \in 0..revNum[p]
      BY <1>1, <1>3
    <3> QED
      BY <1>1, <3>1 DEF HistoryKept
  <2>4. Expected(c)' = Expected(c)
    BY ExpectedStable
  <2> QED
    BY <2>2, <2>3, <2>4 DEF RebasedChange
<1> QED
  BY <1>2, <1>3

\* A call that does not move stays in order whatever the others do, provided
\* that who writes to a log also advances the file.
LEMMA OthersStayInOrder ==
  ASSUME IInv, HistoryKept, NEW c \in Calls,
         call'[c] = call[c],
         fileRev' \in Nat, fileRev' >= fileRev,
         fileRev' = fileRev => revNum' = revNum,
         revNum' \in [Parts -> Nat]
  PROVE  InOrder(c)'
<1> DEFINE p == call[c].part
<1>1. /\ p \in Parts /\ revNum[p] \in Nat /\ revNum'[p] \in Nat
      /\ revNum'[p] >= revNum[p]
  BY DEF IInv, TypeOK, FileTyped, CallTyped, HistoryKept
<1>2. InOrder(c) /\ call[c].fileRev \in 0..fileRev /\ fileRev \in Nat
  BY DEF IInv, TypeOK, FileTyped, CallTyped, CallsInOrder
<1>3. /\ call[c].change.revNum \in Nat
      /\ call[c].toAppend.revNum \in Nat
  BY DEF IInv, TypeOK, FileTyped, CallTyped
<1>4. ASSUME call[c].pc \in {"loop", "append", "cas", "correct"}
      PROVE  /\ call[c].change.revNum \in 1..(revNum'[p] + 1)
             /\ Expected(c)' # BadValue
  <2>1. call[c].change.revNum \in 1..(revNum[p] + 1) /\ Expected(c) # BadValue
    BY <1>2, <1>4 DEF InOrder
  <2> QED
    BY <1>1, <2>1, ExpectedStable
<1>5. ASSUME call[c].pc \in {"append", "cas"}
      PROVE  /\ call[c].toAppend.revNum \in call[c].change.revNum..(revNum'[p] + 1)
             /\ call[c].toAppend = RebasedChange(c, call[c].toAppend.revNum)'
             /\ call[c].toAppend.delta # EmptyDelta
  <2>1. /\ call[c].change.revNum \in 1..(revNum[p] + 1)
        /\ call[c].toAppend.revNum \in call[c].change.revNum..(revNum[p] + 1)
        /\ call[c].toAppend = RebasedChange(c, call[c].toAppend.revNum)
        /\ call[c].toAppend.delta # EmptyDelta
    BY <1>2, <1>5 DEF InOrder
  <2>2. \A r \in call[c].change.revNum..(revNum[p] + 1) :
          RebasedChange(c, r)' = RebasedChange(c, r)
    BY <2>1, RebasedStable
  <2> QED
    BY <1>1, <1>3, <2>1, <2>2 DEF RebasedChange
<1>6. ASSUME call[c].pc = "cas", call[c].fileRev = fileRev'
      PROVE  call[c].toAppend.revNum = revNum'[p] + 1
  <2>1. fileRev' = fileRev
    BY <1>2, <1>6
  <2> QED
    BY <1>2, <1>6, <2>1 DEF InOrder
<1>7. ASSUME call[c].pc = "correct"
      PROVE  call[c].toAppend.revNum \in (call[c].change.revNum + 1)..revNum'[p]
  BY <1>1, <1>2, <1>3, <1>7 DEF InOrder
<1> QED
  BY <1>4, <1>5, <1>6, <1>7 DEF InOrder
-----------------------------------------------------------------------------
(* The invariant is inductive *)

\* The attempts to store a snapshot wait while a call moves.
LEMMA SavesStay ==
  ASSUME IInv, saves' = saves, fileRev' = fileRev
  PROVE  \A s \in BagToSet(saves)' : SaveTyped(s)'
BY DEF IInv, TypeOK, SaveTyped

\* A step of one call that leaves the file alone.
LEMMA QuietStep ==
  ASSUME IInv, NEW c \in Calls,
         UNCHANGED <<fileRev, revNum, changes, snapshots, stored>>,
         \A s \in BagToSet(saves)' : SaveTyped(s)',
         DOMAIN call' = Calls,
         \A d \in Calls \ {c} : call'[d] = call[d],
         CallTyped(c)', InOrder(c)'
  PROVE  IInv'
<1>1. HistoryKept
  <2>1. revNum \in [Parts -> Nat]
    BY DEF IInv, TypeOK, FileTyped
  <2> QED
    BY <2>1 DEF HistoryKept
<1>2. TypeOK'
  <2>1. FileTyped'
    BY DEF IInv, TypeOK, FileTyped
  <2>2. \A d \in Calls : CallTyped(d)'
    BY DEF IInv, TypeOK, CallTyped
  <2> QED
    BY <2>1, <2>2 DEF TypeOK
<1>3. ChangesContiguous'
  BY DEF IInv, ChangesContiguous
<1>4. CallsInOrder'
  <2>1. fileRev \in Nat /\ revNum \in [Parts -> Nat]
    BY DEF IInv, TypeOK, FileTyped
  <2>2. \A d \in Calls \ {c} : InOrder(d)'
    BY <1>1, <2>1, OthersStayInOrder
  <2> QED
    BY <2>2 DEF CallsInOrder
<1> QED
  BY <1>2, <1>3, <1>4 DEF IInv

LEMMA SubmitPreserves ==
  ASSUME IInv, NEW c \in Calls, Submit(c)
  PROVE  IInv'
<1> DEFINE p == call[c].part
<1>1. PICK base \in 0..revNum[p] : \E delta \in Submittable(c, snapshots[p][base]) :
        call' = [call EXCEPT
          ![c].change = [revNum |-> base + 1, delta |-> delta],
          ![c].pc = IF NewContents(snapshots[p][base], delta) = BadValue
                    THEN "failed" ELSE "loop"]
  BY DEF Submit
<1>2. PICK delta \in Submittable(c, snapshots[p][base]) :
        call' = [call EXCEPT
          ![c].change = [revNum |-> base + 1, delta |-> delta],
          ![c].pc = IF NewContents(snapshots[p][base], delta) = BadValue
                    THEN "failed" ELSE "loop"]
  BY <1>1
<1>3. UNCHANGED <<fileRev, revNum, changes, snapshots, stored, saves>>
  BY DEF Submit
<1>4. /\ DOMAIN call = Calls /\ CallTyped(c)
      /\ p \in Parts /\ revNum[p] \in Nat
  BY DEF IInv, TypeOK, CallTyped, FileTyped
<1>5. /\ DOMAIN call' = Calls
      /\ \A d \in Calls \ {c} : call'[d] = call[d]
      /\ DOMAIN call'[c] = DOMAIN call[c]
      /\ call'[c].pc = IF NewContents(snapshots[p][base], delta) = BadValue
                       THEN "failed" ELSE "loop"
      /\ call'[c].change = [revNum |-> base + 1, delta |-> delta]
      /\ call'[c].part = p
      /\ call'[c].toAppend = call[c].toAppend
      /\ call'[c].fileRev = call[c].fileRev
      /\ call'[c].result = call[c].result
  BY <1>2, <1>4 DEF CallTyped
<1>6. CallTyped(c)'
  BY <1>3, <1>4, <1>5 DEF CallTyped
<1>7. InOrder(c)'
  <2>1. Expected(c)' = NewContents(snapshots[p][base], delta)
    BY <1>3, <1>4, <1>5 DEF Expected
  <2> QED
    BY <1>3, <1>4, <1>5, <2>1 DEF InOrder
<1> QED
  BY <1>3, <1>5, <1>6, <1>7, SavesStay, QuietStep

\* What Finish() does to the call, and to no other.
LEMMA FinishEffect ==
  ASSUME IInv, NEW c \in Calls, NEW pc, NEW result, Finish(c, pc, result)
  PROVE  /\ DOMAIN call' = Calls
         /\ \A d \in Calls \ {c} : call'[d] = call[d]
         /\ DOMAIN call'[c] = DOMAIN call[c]
         /\ call'[c].pc = pc
         /\ call'[c].result = result
         /\ call'[c].part = call[c].part
         /\ call'[c].change = call[c].change
         /\ call'[c].toAppend = call[c].toAppend
         /\ call'[c].fileRev = call[c].fileRev
<1>1. DOMAIN call = Calls /\ CallTyped(c)
  BY DEF IInv, TypeOK
<1> QED
  BY <1>1 DEF Finish, CallTyped

\* A call that ends is in order.
LEMMA FinishPreserves ==
  ASSUME IInv, NEW c \in Calls, NEW pc, NEW result, Finish(c, pc, result),
         UNCHANGED <<fileRev, revNum, changes, snapshots, stored, saves>>,
         pc \in {"done", "failed", "timedOut"},
         result.revNum \in Nat
  PROVE  IInv'
<1>1. /\ DOMAIN call' = Calls
      /\ \A d \in Calls \ {c} : call'[d] = call[d]
      /\ DOMAIN call'[c] = DOMAIN call[c]
      /\ call'[c].pc = pc
      /\ call'[c].result = result
      /\ call'[c].part = call[c].part
      /\ call'[c].change = call[c].change
      /\ call'[c].toAppend = call[c].toAppend
      /\ call'[c].fileRev = call[c].fileRev
  BY FinishEffect
<1>2. CallTyped(c)
  BY DEF IInv, TypeOK
<1>3. CallTyped(c)'
  BY <1>1, <1>2 DEF CallTyped
<1>4. InOrder(c)'
  BY <1>1 DEF InOrder
<1> QED
  BY <1>1, <1>3, <1>4, SavesStay, QuietStep

LEMMA AttemptUpdatePreserves ==
  ASSUME IInv, NEW c \in Calls, AttemptUpdate(c)
  PROVE  IInv'
<1> DEFINE p == call[c].part
           r == revNum[p] + 1
           rebased == RebasedChange(c, r)
<1>1. UNCHANGED <<fileRev, revNum, changes, snapshots, stored, saves>>
  BY DEF AttemptUpdate
<1>2. /\ DOMAIN call = Calls /\ CallTyped(c)
      /\ p \in Parts /\ revNum[p] \in Nat
  BY DEF IInv, TypeOK, CallTyped, FileTyped
<1>3. CASE Finish(c, "failed", NoChange)
  BY <1>1, <1>3, FinishPreserves DEF NoChange
<1>4. CASE Finish(c, "done", [revNum |-> revNum[p], delta |-> EmptyDelta])
  BY <1>1, <1>2, <1>4, FinishPreserves
<1>5. CASE /\ rebased.delta # EmptyDelta
           /\ call' = [call EXCEPT ![c].pc = "append", ![c].toAppend = rebased]
  <2>1. /\ DOMAIN call' = Calls
        /\ \A d \in Calls \ {c} : call'[d] = call[d]
        /\ DOMAIN call'[c] = DOMAIN call[c]
        /\ call'[c].pc = "append"
        /\ call'[c].toAppend = rebased
        /\ call'[c].part = call[c].part
        /\ call'[c].change = call[c].change
        /\ call'[c].result = call[c].result
        /\ call'[c].fileRev = call[c].fileRev
    BY <1>2, <1>5 DEF CallTyped
  <2>2. /\ call[c].change.revNum \in 1..(revNum[p] + 1)
        /\ Expected(c) # BadValue
    BY DEF AttemptUpdate, IInv, CallsInOrder, InOrder
  <2>3. rebased.revNum = r
    BY DEF RebasedChange
  <2>4. CallTyped(c)'
    BY <1>1, <1>2, <2>1, <2>3 DEF CallTyped
  <2>5. HistoryKept
    BY <1>1, <1>2 DEF HistoryKept, IInv, TypeOK, FileTyped
  <2>6. Expected(c)' = Expected(c)
    BY <2>1, <2>2, <2>5, ExpectedStable
  <2>7. \A k \in call[c].change.revNum..(revNum[p] + 1) :
          RebasedChange(c, k)' = RebasedChange(c, k)
    BY <2>1, <2>2, <2>5, RebasedStable
  <2>8. r \in call[c].change.revNum..(revNum[p] + 1)
    BY <1>2, <2>2
  <2>9. call'[c].toAppend = RebasedChange(c, call[c].toAppend.revNum)'
    BY <2>1, <2>3, <2>7, <2>8 DEF RebasedChange
  <2>10. InOrder(c)'
    BY <1>1, <1>2, <1>5, <2>1, <2>2, <2>3, <2>6, <2>8, <2>9 DEF InOrder
  <2> QED
    BY <1>1, <2>1, <2>4, <2>10, SavesStay, QuietStep
<1> QED
  BY <1>3, <1>4, <1>5 DEF AttemptUpdate

LEMMA CheckPrerequisitesPreserves ==
  ASSUME IInv, NEW c \in Calls, CheckPrerequisites(c)
  PROVE  IInv'
<1> DEFINE p == call[c].part
           r == call[c].toAppend.revNum
<1>1. UNCHANGED <<fileRev, revNum, changes, snapshots, stored, saves>>
  BY DEF CheckPrerequisites
<1>2. /\ DOMAIN call = Calls /\ CallTyped(c)
      /\ p \in Parts /\ revNum[p] \in Nat /\ fileRev \in Nat
  BY DEF IInv, TypeOK, CallTyped, FileTyped
<1>3. InOrder(c) /\ call[c].pc = "append"
  BY DEF IInv, CallsInOrder, CheckPrerequisites
<1>4. PICK pc \in {"cas", "loop"}, seen \in {fileRev, call[c].fileRev} :
        /\ call' = [call EXCEPT ![c].pc = pc, ![c].fileRev = seen]
        /\ pc = "cas" => PrerequisitesHold(p, r)
  <2>1. CASE call' = [call EXCEPT ![c].pc = "loop"]
    <3>1. call' = [call EXCEPT ![c].pc = "loop", ![c].fileRev = call[c].fileRev]
      BY <1>2, <2>1 DEF CallTyped
    <3> QED
      BY <3>1
  <2>2. CASE /\ PrerequisitesHold(p, r)
             /\ call' = [call EXCEPT ![c].pc = "cas", ![c].fileRev = fileRev]
    BY <2>2
  <2> QED
    BY <2>1, <2>2 DEF CheckPrerequisites
<1>5. /\ DOMAIN call' = Calls
      /\ \A d \in Calls \ {c} : call'[d] = call[d]
      /\ DOMAIN call'[c] = DOMAIN call[c]
      /\ call'[c].pc = pc
      /\ call'[c].fileRev = seen
      /\ call'[c].part = call[c].part
      /\ call'[c].change = call[c].change
      /\ call'[c].toAppend = call[c].toAppend
      /\ call'[c].result = call[c].result
  BY <1>2, <1>4 DEF CallTyped
<1>6. CallTyped(c)'
  BY <1>1, <1>2, <1>5 DEF CallTyped
<1>7. HistoryKept
  BY <1>1, <1>2 DEF HistoryKept, IInv, TypeOK, FileTyped
<1>8. /\ call[c].change.revNum \in 1..(revNum[p] + 1)
      /\ r \in call[c].change.revNum..(revNum[p] + 1)
  BY <1>3 DEF InOrder
<1>9. Expected(c)' = Expected(c) /\ RebasedChange(c, r)' = RebasedChange(c, r)
  BY <1>5, <1>7, <1>8, ExpectedStable, RebasedStable
<1>10. pc = "cas" => r = revNum[p] + 1
  BY <1>2, <1>4, <1>8 DEF PrerequisitesHold, CallTyped
<1>11. InOrder(c)'
  BY <1>1, <1>3, <1>5, <1>8, <1>9, <1>10 DEF InOrder
<1> QED
  BY <1>1, <1>5, <1>6, <1>11, SavesStay, QuietStep

LEMMA EndPreserves ==
  ASSUME IInv, NEW c \in Calls, MakeCorrection(c) \/ TimeOut(c)
  PROVE  IInv'
<1>1. UNCHANGED <<fileRev, revNum, changes, snapshots, stored, saves>>
  BY Zenon DEF MakeCorrection, TimeOut
<1>2. CallTyped(c)
  BY DEF IInv, TypeOK
<1>3. CASE \E pc \in {"failed", "timedOut"} : Finish(c, pc, NoChange)
  BY <1>1, <1>3, FinishPreserves DEF NoChange
<1>4. CASE \E delta : Finish(c, "done", [revNum |-> call[c].toAppend.revNum,
                                         delta |-> delta])
  <2>1. PICK delta : Finish(c, "done", [revNum |-> call[c].toAppend.revNum,
                                         delta |-> delta])
    BY <1>4
  <2>2. call[c].toAppend.revNum \in Nat
    BY <1>2 DEF CallTyped
  <2> QED
    BY <1>1, <2>1, <2>2, FinishPreserves
<1> QED
  BY <1>3, <1>4 DEF MakeCorrection, TimeOut

\* The attempt that an append starts.
LEMMA MaybeSaveTyped ==
  ASSUME IInv, NEW p \in Parts, NEW r \in Nat, MaybeSave(p, r),
         fileRev' \in Nat, fileRev' >= fileRev
  PROVE  \A s \in BagToSet(saves)' : SaveTyped(s)'
<1> DEFINE new == [part |-> p, revNum |-> r, phase |-> "get", fileRev |-> 0]
<1>1. BagToSet(saves)' \subseteq BagToSet(saves) \cup {new}
  BY BagAddElements DEF MaybeSave
<1>2. SaveTyped(new)'
  BY DEF SaveTyped
<1>3. \A s \in BagToSet(saves) : SaveTyped(s)'
  BY DEF IInv, TypeOK, FileTyped, SaveTyped
<1> QED
  BY <1>1, <1>2, <1>3

LEMMA AppendLostPreserves ==
  ASSUME IInv, NEW c \in Calls, AppendLost(c)
  PROVE  IInv'
<1>1. /\ UNCHANGED <<fileRev, revNum, changes, snapshots, stored>>
      /\ call' = [call EXCEPT ![c].pc = "loop"]
      /\ MaybeSave(call[c].part, call[c].toAppend.revNum)
  BY DEF AppendLost
<1>2. /\ DOMAIN call = Calls /\ CallTyped(c) /\ fileRev \in Nat
      /\ call[c].part \in Parts /\ revNum[call[c].part] \in Nat
  BY DEF IInv, TypeOK, CallTyped, FileTyped
<1>3. \A s \in BagToSet(saves)' : SaveTyped(s)'
  BY <1>1, <1>2, MaybeSaveTyped DEF CallTyped
<1>4. /\ DOMAIN call' = Calls
      /\ \A d \in Calls \ {c} : call'[d] = call[d]
      /\ DOMAIN call'[c] = DOMAIN call[c]
      /\ call'[c].pc = "loop"
      /\ call'[c].fileRev = call[c].fileRev
      /\ call'[c].part = call[c].part
      /\ call'[c].change = call[c].change
      /\ call'[c].toAppend = call[c].toAppend
      /\ call'[c].result = call[c].result
  BY <1>1, <1>2 DEF CallTyped
<1>5. CallTyped(c)'
  BY <1>1, <1>2, <1>4 DEF CallTyped
<1>6. HistoryKept
  BY <1>1, <1>2 DEF HistoryKept, IInv, TypeOK, FileTyped
<1>7. call[c].change.revNum \in 1..(revNum[call[c].part] + 1) /\ Expected(c) # BadValue
  BY DEF IInv, CallsInOrder, InOrder, AppendLost
<1>8. InOrder(c)'
  BY <1>1, <1>4, <1>6, <1>7, ExpectedStable DEF InOrder
<1> QED
  BY <1>1, <1>3, <1>4, <1>5, <1>8, QuietStep

LEMMA AppendWonPreserves ==
  ASSUME IInv, NEW c \in Calls, AppendWon(c)
  PROVE  IInv'
<1> DEFINE p == call[c].part
           r == call[c].toAppend.revNum
<1>1. /\ fileRev' = fileRev + 1 /\ stored' = stored
      /\ MaybeSave(p, r) /\ Appended(c) /\ call[c].pc = "cas"
  BY DEF AppendWon
<1>2. /\ DOMAIN call = Calls /\ CallTyped(c) /\ fileRev \in Nat
      /\ revNum \in [Parts -> Nat] /\ stored \in [Parts -> Nat]
      /\ \A q \in Parts : \A k \in DOMAIN snapshots[q] :
           snapshots[q][k] \in Contents \cup {BadValue}
  BY DEF IInv, TypeOK, FileTyped
<1>3. \A q \in Parts : /\ DOMAIN changes[q] = 0..revNum[q]
                       /\ DOMAIN snapshots[q] = 0..revNum[q]
  BY DEF IInv, ChangesContiguous
<1>4. /\ p \in Parts
      /\ r = revNum[p] + 1
      /\ revNum' = [revNum EXCEPT ![p] = r]
      /\ DOMAIN changes' = Parts
      /\ DOMAIN snapshots' = Parts
      /\ DOMAIN changes'[p] = 0..r
      /\ DOMAIN snapshots'[p] = 0..r
      /\ snapshots'[p][r] = NewContents(snapshots[p][r - 1], call[c].toAppend.delta)
      /\ \A k \in 0..revNum[p] : snapshots'[p][k] = snapshots[p][k]
      /\ \A q \in Parts \ {p} : /\ changes'[q] = changes[q]
                                /\ snapshots'[q] = snapshots[q]
  BY WinnerExtendsLog
<1>5. revNum' \in [Parts -> Nat]
  BY <1>2, <1>4
<1>6. HistoryKept
  BY <1>2, <1>4, WinnerExtendsLog DEF HistoryKept
<1> DEFINE Ends(pc, result) ==
             /\ call' = [call EXCEPT ![c].pc = pc, ![c].result = result]
             /\ result.revNum \in Nat
             /\ pc = "correct" => call[c].toAppend # call[c].change
<1>7a. \E pc \in {"done", "correct"} : \E result : Ends(pc, result)
  <2>1. CASE Finish(c, "done", [revNum |-> call[c].change.revNum, delta |-> EmptyDelta])
    <3> DEFINE result == [revNum |-> call[c].change.revNum, delta |-> EmptyDelta]
    <3>1. call' = [call EXCEPT ![c].pc = "done", ![c].result = result]
      BY <2>1 DEF Finish
    <3>2. result.revNum \in Nat
      BY <1>2 DEF CallTyped
    <3> HIDE DEF result
    <3> QED
      BY <3>1, <3>2
  <2>2. CASE /\ call[c].toAppend # call[c].change
             /\ call' = [call EXCEPT ![c].pc = "correct"]
    <3>1. call' = [call EXCEPT ![c].pc = "correct", ![c].result = call[c].result]
      BY <1>2, <2>2 DEF CallTyped
    <3> QED
      BY <1>2, <2>2, <3>1 DEF CallTyped
  <2> QED
    BY <1>1, <2>1, <2>2 DEF Appended
<1>7b. PICK pc \in {"done", "correct"} : \E result : Ends(pc, result)
  BY <1>7a
<1>7. PICK result : Ends(pc, result)
  BY <1>7b
<1>8. /\ DOMAIN call' = Calls
      /\ \A d \in Calls \ {c} : call'[d] = call[d]
      /\ DOMAIN call'[c] = DOMAIN call[c]
      /\ call'[c].pc = pc
      /\ call'[c].result = result
      /\ call'[c].part = call[c].part
      /\ call'[c].change = call[c].change
      /\ call'[c].toAppend = call[c].toAppend
      /\ call'[c].fileRev = call[c].fileRev
  BY <1>2, <1>7 DEF CallTyped
<1>9. TypeOK'
  <2>1. \A q \in Parts : \A k \in DOMAIN snapshots'[q] :
          snapshots'[q][k] \in Contents \cup {BadValue}
    <3>1. \A k \in 0..r : k \in 0..revNum[p] \/ k = r
      BY <1>2, <1>4
    <3>2. snapshots'[p][r] \in Contents \cup {BadValue}
      BY <1>4, NewContentsType
    <3>3. \A k \in 0..revNum[p] : snapshots'[p][k] \in Contents \cup {BadValue}
      BY <1>2, <1>3, <1>4
    <3>4. \A k \in DOMAIN snapshots'[p] : snapshots'[p][k] \in Contents \cup {BadValue}
      BY <1>4, <3>1, <3>2, <3>3
    <3> QED
      BY <1>2, <1>4, <3>4
  <2>2. FileTyped'
    BY <1>1, <1>2, <1>4, <1>5, <2>1 DEF FileTyped
  <2>3. \A d \in Calls : CallTyped(d)'
    <3>1. CallTyped(c)'
      BY <1>1, <1>2, <1>7, <1>8 DEF CallTyped
    <3>2. \A d \in Calls \ {c} : CallTyped(d)'
      BY <1>1, <1>2, <1>8 DEF IInv, TypeOK, CallTyped
    <3> QED
      BY <3>1, <3>2
  <2>4. \A s \in BagToSet(saves)' : SaveTyped(s)'
    BY <1>1, <1>2, <1>4, MaybeSaveTyped DEF CallTyped
  <2> QED
    BY <1>8, <2>2, <2>3, <2>4 DEF TypeOK
<1>10. ChangesContiguous'
  BY <1>2, <1>3, <1>4 DEF ChangesContiguous
<1>11. CallsInOrder'
  <2>1. \A d \in Calls \ {c} : InOrder(d)'
    BY <1>1, <1>2, <1>5, <1>6, <1>8, OthersStayInOrder
  <2>2. /\ call[c].change.revNum \in 1..(revNum[p] + 1)
        /\ Expected(c) # BadValue
        /\ r \in call[c].change.revNum..(revNum[p] + 1)
        /\ call[c].toAppend = RebasedChange(c, r)
    BY <1>1 DEF IInv, CallsInOrder, InOrder
  <2>3. Expected(c)' = Expected(c)
    BY <1>6, <1>8, <2>2, ExpectedStable
  <2>4. pc = "correct" => r # call[c].change.revNum
    BY <1>7, <2>2 DEF RebasedChange
  <2>5. revNum'[p] = r
    BY <1>2, <1>4
  <2>6. call[c].change.revNum \in Nat /\ revNum[p] \in Nat /\ r \in Nat
    BY <1>2, <1>4 DEF CallTyped
  <2>7. pc = "correct" => r \in (call[c].change.revNum + 1)..r
    BY <2>2, <2>4, <2>6
  <2>8. call[c].change.revNum \in 1..(r + 1)
    BY <1>4, <2>2, <2>6
  <2>9. InOrder(c)'
    BY <1>7, <1>8, <2>2, <2>3, <2>5, <2>7, <2>8 DEF InOrder
  <2> QED
    BY <2>1, <2>9 DEF CallsInOrder
<1> QED
  BY <1>9, <1>10, <1>11 DEF IInv

LEMMA SavePreserves ==
  ASSUME IInv, NEW s \in BagToSet(saves), Save(s)
  PROVE  IInv'
<1> DEFINE moved == [s EXCEPT !.phase = "write", !.fileRev = fileRev]
<1>1. /\ SaveTyped(s) /\ fileRev \in Nat
      /\ revNum \in [Parts -> Nat] /\ stored \in [Parts -> Nat]
  BY DEF IInv, TypeOK, FileTyped
<1>2. UNCHANGED <<revNum, changes, snapshots, call>>
  BY Zenon DEF Save, StartSave, WriteStoredSnapshot
<1>3. fileRev' \in {fileRev, fileRev + 1}
  BY DEF Save, StartSave, WriteStoredSnapshot
<1>4. stored' \in [Parts -> Nat]
  BY <1>1 DEF Save, StartSave, WriteStoredSnapshot, SaveTyped
<1>5. BagToSet(saves)' \subseteq BagToSet(saves) \cup {moved}
  <2>1. BagToSet(BagRemove(saves, s)) \subseteq BagToSet(saves)
    BY BagRemoveElements
  <2>2. BagToSet(Replace(s, moved)) \subseteq BagToSet(saves) \cup {moved}
    BY <2>1, BagAddElements DEF Replace
  <2>3. saves' \in {BagRemove(saves, s), Replace(s, moved)}
    BY DEF Save, StartSave, WriteStoredSnapshot
  <2>4. BagToSet(saves)' \in {BagToSet(BagRemove(saves, s)), BagToSet(Replace(s, moved))}
    BY <2>3 DEF BagToSet
  <2> HIDE DEF moved
  <2> QED
    BY <2>1, <2>2, <2>4
<1>6. TypeOK'
  <2>1. FileTyped'
    BY <1>1, <1>2, <1>3, <1>4 DEF IInv, TypeOK, FileTyped
  <2>2. DOMAIN call' = Calls /\ \A c \in Calls : CallTyped(c)'
    BY <1>1, <1>2, <1>3 DEF IInv, TypeOK, CallTyped
  <2>3. \A t : t = moved => SaveTyped(t)'
    BY <1>1, <1>3 DEF SaveTyped
  <2>4. \A t \in BagToSet(saves) : SaveTyped(t)'
    BY <1>1, <1>3 DEF IInv, TypeOK, SaveTyped
  <2> HIDE DEF moved
  <2>5. \A t \in BagToSet(saves)' : SaveTyped(t)'
    BY <1>5, <2>3, <2>4
  <2> QED
    BY <2>1, <2>2, <2>5 DEF TypeOK
<1>7. ChangesContiguous'
  BY <1>2 DEF IInv, ChangesContiguous
<1>8. CallsInOrder'
  <2>1. HistoryKept
    BY <1>1, <1>2 DEF HistoryKept
  <2> QED
    BY <1>1, <1>2, <1>3, <2>1, OthersStayInOrder DEF CallsInOrder
<1> QED
  BY <1>6, <1>7, <1>8 DEF IInv

LEMMA InitHolds ==
  ASSUME Init
  PROVE  IInv
<1>1. /\ BootRev \in Nat
      /\ BootContents \in [0..BootRev -> Contents]
  BY BootAssumption
<1>2. PICK partOf \in [Calls -> Parts] :
        call = [c \in Calls |->
                 [pc |-> "idle", part |-> partOf[c],
                  change |-> NoChange, toAppend |-> NoChange,
                  fileRev |-> 0, result |-> NoChange]]
  BY DEF Init
<1>3. FileTyped
  BY <1>1 DEF Init, FileTyped
<1>4. \A c \in Calls : CallTyped(c)
  BY <1>2, <1>3 DEF CallTyped, FileTyped, NoChange
<1>5. BagToSet(saves) = {}
  BY DEF Init, BagToSet, EmptyBag, SetToBag
<1>6. DOMAIN call = Calls
  BY <1>2
<1>7. ChangesContiguous
  BY <1>1 DEF Init, ChangesContiguous
<1>8. CallsInOrder
  BY <1>2 DEF CallsInOrder, InOrder
<1> QED
  BY <1>3, <1>4, <1>5, <1>6, <1>7, <1>8 DEF IInv, TypeOK

\* The invariant is inductive.
LEMMA NextPreserves ==
  ASSUME IInv, [Next]_vars
  PROVE  IInv'
<1>1. ASSUME NEW c \in Calls, Submit(c) \/ TimeOut(c)
      PROVE  IInv'
  BY <1>1, SubmitPreserves, EndPreserves
<1>2. ASSUME NEW c \in Calls, Step(c)
      PROVE  IInv'
  BY <1>2, AttemptUpdatePreserves, CheckPrerequisitesPreserves, AppendWonPreserves,
    AppendLostPreserves, EndPreserves DEF Step
<1>3. ASSUME NEW s \in BagToSet(saves), Save(s)
      PROVE  IInv'
  BY <1>3, SavePreserves
<1>4. CASE UNCHANGED vars
  BY <1>4 DEF vars, IInv, TypeOK, FileTyped, CallTyped, SaveTyped, ChangesContiguous,
    CallsInOrder, InOrder, Expected, RebasedChange, DeltasOf
<1> QED
  BY <1>1, <1>2, <1>3, <1>4 DEF Next

\* Whatever the calls and the data: the invariant holds throughout.
THEOREM Invariance == Spec => []IInv
<1>1. Init => IInv
  BY InitHolds
<1>2. IInv /\ [Next]_vars => IInv'
  BY NextPreserves
<1> QED
  BY <1>1, <1>2, PTL DEF Spec

-----------------------------------------------------------------------------
(* What follows *)

\* Every call and save is about revisions, and remembers the file's past.
THEOREM TypeCorrectness == Spec => []TypeOK
<1>1. IInv => TypeOK
  BY DEF IInv
<1> QED
  BY <1>1, Invariance, PTL

\* No race leaves a gap in a log, or a change past its end.
THEOREM Contiguity == Spec => []ChangesContiguous
<1>1. IInv => ChangesContiguous
  BY DEF IInv
<1> QED
  BY <1>1, Invariance, PTL

\* The change a call is about to append is made for the log as it stands, or
\* else the file has moved and the append will be refused.
THEOREM Order == Spec => []CallsInOrder
<1>1. IInv => CallsInOrder
  BY DEF IInv
<1> QED
  BY <1>1, Invariance, PTL

\* No step rewrites a revision, skips one, or writes two parts at once.
THEOREM History == Spec => HistoryOnlyGrows
<1>1. ASSUME IInv, [Next]_vars
      PROVE  GrowsOnly
  <2>1. fileRev \in Nat /\ revNum \in [Parts -> Nat]
    BY <1>1 DEF IInv, TypeOK, FileTyped
  <2>2. HistoryKept
    BY <1>1, NextKeepsHistory
  <2>3. ASSUME NEW c \in Calls, AppendWon(c)
        PROVE  GrowsOnly
    <3> DEFINE p == call[c].part
               r == call[c].toAppend.revNum
    <3>1. /\ p \in Parts
          /\ r = revNum[p] + 1
          /\ revNum' = [revNum EXCEPT ![p] = r]
      BY <1>1, <2>3, WinnerExtendsLog
    <3>2. fileRev' = fileRev + 1 /\ stored' = stored
      BY <2>3 DEF AppendWon
    <3> QED
      BY <2>1, <2>2, <3>1, <3>2 DEF GrowsOnly, HistoryKept
  <2>4. ASSUME UNCHANGED revNum, fileRev' = fileRev => stored' = stored
        PROVE  GrowsOnly
    BY <2>1, <2>2, <2>4 DEF GrowsOnly, HistoryKept
  <2>5. fileRev' = fileRev => stored' = stored
    <3>1. ASSUME NEW c \in Calls, Submit(c) \/ TimeOut(c) \/ Step(c)
          PROVE  stored' = stored
      BY <3>1, Zenon DEF Submit, TimeOut, Step, AttemptUpdate, CheckPrerequisites,
        AppendWon, AppendLost, MakeCorrection
    <3>2. ASSUME NEW s \in BagToSet(saves), Save(s), fileRev' = fileRev
          PROVE  stored' = stored
      BY <2>1, <3>2 DEF Save, StartSave, WriteStoredSnapshot
    <3>3. CASE UNCHANGED vars
      BY <3>3 DEF vars
    <3> QED
      BY <1>1, <3>1, <3>2, <3>3 DEF Next
  <2> QED
    BY <1>1, <2>3, <2>4, <2>5, OnlyWinnersWrite
<1> QED
  BY <1>1, Invariance, PTL DEF Spec, HistoryOnlyGrows

-----------------------------------------------------------------------------
(***************************************************************************)
(* What the calls of update() are answered: each change is in the log at   *)
(* most once, at the revision that its answer names, and the answer's      *)
(* correction leads to the contents of that revision.                      *)
(***************************************************************************)

\* The answer of a call that made revision r is about r, is about the past, and
\* is right.
AnswerRight(c) ==
  /\ call[c].change.revNum \in 1..(revNum[call[c].part] + 1)
  /\ call[c].result.revNum \in 0..revNum[call[c].part]
  /\ Compose(Expected(c), call[c].result.delta) =
       snapshots[call[c].part][call[c].result.revNum]

\* What AppliedOnce and AppendedCorrectionYieldsResult say of one call, and
\* what it takes for them to stay true as the log grows.
Answered(c) ==
  /\ \E r \in Nat : MadeBy(c) \subseteq {r}
  /\ call[c].pc \in {"idle", "loop", "append", "cas"} => MadeBy(c) = {}
  /\ call[c].pc = "correct" => MadeBy(c) = {call[c].toAppend.revNum}
  /\ call[c].pc = "done" => MadeBy(c) \subseteq {call[c].result.revNum}
  /\ call[c].pc = "done" /\ MadeBy(c) # {} => AnswerRight(c)

AllAnswered == \A c \in Calls : Answered(c)

-----------------------------------------------------------------------------
(* Who made what *)

\* Without a change to the log, nobody has made a new one.
LEMMA MadeByStays ==
  ASSUME NEW c \in Calls, changes' = changes, call'[c].part = call[c].part
  PROVE  MadeBy(c)' = MadeBy(c)
BY DEF MadeBy

\* The winner has made one more, and the others none.
LEMMA MadeByWinner ==
  ASSUME IInv, NEW c \in Calls, AppendWon(c), NEW d \in Calls,
         call'[d].part = call[d].part
  PROVE  MadeBy(d)' = IF d = c THEN MadeBy(d) \cup {call[c].toAppend.revNum}
                               ELSE MadeBy(d)
<1> DEFINE p == call[c].part
           r == call[c].toAppend.revNum
           q == call[d].part
<1>1. /\ p \in Parts
      /\ r = revNum[p] + 1
      /\ DOMAIN changes'[p] = 0..r
      /\ changes'[p][r] = Change(c, call[c].toAppend.delta)
      /\ \A k \in 0..revNum[p] : changes'[p][k] = changes[p][k]
      /\ \A o \in Parts \ {p} : changes'[o] = changes[o]
  BY WinnerExtendsLog
<1>2. q \in Parts /\ revNum[p] \in Nat /\ DOMAIN changes[p] = 0..revNum[p]
  BY <1>1 DEF IInv, TypeOK, FileTyped, CallTyped, ChangesContiguous
<1>3. changes'[p][r].by = c
  BY <1>1 DEF Change
<1>4. CASE q # p
  <2>1. MadeBy(d)' = MadeBy(d) /\ d # c
    BY <1>1, <1>2, <1>4 DEF MadeBy
  <2> QED
    BY <2>1
<1>5. CASE q = p
  <2>1. MadeBy(d)' = {k \in 0..r : changes'[p][k].by = d}
    BY <1>1, <1>5 DEF MadeBy
  <2>2. MadeBy(d) = {k \in 0..revNum[p] : changes[p][k].by = d}
    BY <1>2, <1>5 DEF MadeBy
  <2>3. 0..r = (0..revNum[p]) \cup {r} /\ r \notin 0..revNum[p]
    BY <1>1, <1>2
  <2> HIDE DEF r, p, q
  <2>4. \A k \in 0..revNum[p] : changes'[p][k].by = changes[p][k].by
    BY <1>1
  <2> QED
    BY <1>3, <2>1, <2>2, <2>3, <2>4 DEF r
<1> QED
  BY <1>4, <1>5

-----------------------------------------------------------------------------
(* The answers stay right *)

\* A right answer stays right, for it is about the past.
LEMMA RightStaysRight ==
  ASSUME IInv, HistoryKept, NEW c \in Calls, AnswerRight(c),
         call'[c].part = call[c].part,
         call'[c].change = call[c].change,
         call'[c].result = call[c].result,
         revNum' \in [Parts -> Nat]
  PROVE  AnswerRight(c)'
<1> DEFINE p == call[c].part
<1>1. p \in Parts /\ revNum[p] \in Nat /\ revNum'[p] \in Nat /\ revNum'[p] >= revNum[p]
  BY DEF IInv, TypeOK, FileTyped, CallTyped, HistoryKept
<1>2. Expected(c)' = Expected(c)
  BY ExpectedStable DEF AnswerRight
<1>3. snapshots'[p][call[c].result.revNum] = snapshots[p][call[c].result.revNum]
  BY <1>1 DEF AnswerRight, HistoryKept
<1> QED
  BY <1>1, <1>2, <1>3 DEF AnswerRight

\* A call that does not move, and made no change, stays answered.
LEMMA OthersStayAnswered ==
  ASSUME IInv, HistoryKept, NEW c \in Calls, Answered(c),
         call'[c] = call[c], MadeBy(c)' = MadeBy(c),
         revNum' \in [Parts -> Nat]
  PROVE  Answered(c)'
<1>1. CASE call[c].pc = "done" /\ MadeBy(c) # {}
  <2>1. AnswerRight(c)'
    BY <1>1, RightStaysRight DEF Answered
  <2> QED
    BY <2>1 DEF Answered
<1>2. CASE ~ (call[c].pc = "done" /\ MadeBy(c) # {})
  BY <1>2 DEF Answered
<1> QED
  BY <1>1, <1>2

\* A step of one call that leaves the log alone.
LEMMA QuietAnswer ==
  ASSUME IInv, AllAnswered, NEW c \in Calls,
         UNCHANGED <<revNum, changes, snapshots>>,
         \A d \in Calls \ {c} : call'[d] = call[d],
         MadeBy(c)' = MadeBy(c) => Answered(c)',
         call'[c].part = call[c].part
  PROVE  AllAnswered'
<1>1. revNum \in [Parts -> Nat]
  BY DEF IInv, TypeOK, FileTyped
<1>2. HistoryKept
  BY <1>1 DEF HistoryKept
<1>3. Answered(c)'
  BY MadeByStays
<1>4. ASSUME NEW d \in Calls \ {c}
      PROVE  Answered(d)'
  <2>1. MadeBy(d)' = MadeBy(d)
    BY <1>4, MadeByStays
  <2> QED
    BY <1>1, <1>2, <1>4, <2>1, OthersStayAnswered DEF AllAnswered
<1> QED
  BY <1>3, <1>4 DEF AllAnswered

-----------------------------------------------------------------------------
(* Each action *)

\* A call that has made no change is answered, unless it claims one.
LEMMA NothingMade ==
  ASSUME NEW c \in Calls, MadeBy(c)' = {}, call'[c].pc # "correct"
  PROVE  Answered(c)'
BY DEF Answered

LEMMA SubmitAnswers ==
  ASSUME IInv, AllAnswered, NEW c \in Calls, Submit(c)
  PROVE  AllAnswered'
<1>1. PICK base, delta :
        call' = [call EXCEPT
          ![c].change = [revNum |-> base + 1, delta |-> delta],
          ![c].pc = IF NewContents(snapshots[call[c].part][base], delta) = BadValue
                    THEN "failed" ELSE "loop"]
  BY DEF Submit
<1>2. DOMAIN call = Calls /\ CallTyped(c)
  BY DEF IInv, TypeOK
<1>3. /\ \A d \in Calls \ {c} : call'[d] = call[d]
      /\ call'[c].part = call[c].part
      /\ call'[c].pc # "correct"
  BY <1>1, <1>2 DEF CallTyped
<1>4. MadeBy(c) = {}
  BY DEF AllAnswered, Answered, Submit
<1>5. UNCHANGED <<revNum, changes, snapshots>>
  BY DEF Submit
<1> QED
  BY <1>3, <1>4, <1>5, NothingMade, QuietAnswer

LEMMA AttemptUpdateAnswers ==
  ASSUME IInv, AllAnswered, NEW c \in Calls, AttemptUpdate(c)
  PROVE  AllAnswered'
<1>1. DOMAIN call = Calls /\ CallTyped(c)
  BY DEF IInv, TypeOK
<1>2. /\ \A d \in Calls \ {c} : call'[d] = call[d]
      /\ call'[c].part = call[c].part
      /\ call'[c].pc # "correct"
  BY <1>1 DEF AttemptUpdate, Finish, CallTyped
<1>3. MadeBy(c) = {}
  BY DEF AllAnswered, Answered, AttemptUpdate
<1>4. UNCHANGED <<revNum, changes, snapshots>>
  BY DEF AttemptUpdate
<1> QED
  BY <1>2, <1>3, <1>4, NothingMade, QuietAnswer

LEMMA CheckPrerequisitesAnswers ==
  ASSUME IInv, AllAnswered, NEW c \in Calls, CheckPrerequisites(c)
  PROVE  AllAnswered'
<1>1. DOMAIN call = Calls /\ CallTyped(c)
  BY DEF IInv, TypeOK
<1>2. /\ \A d \in Calls \ {c} : call'[d] = call[d]
      /\ call'[c].part = call[c].part
      /\ call'[c].pc # "correct"
  BY <1>1 DEF CheckPrerequisites, CallTyped
<1>3. MadeBy(c) = {}
  BY DEF AllAnswered, Answered, CheckPrerequisites
<1>4. UNCHANGED <<revNum, changes, snapshots>>
  BY DEF CheckPrerequisites
<1> QED
  BY <1>2, <1>3, <1>4, NothingMade, QuietAnswer

LEMMA AppendLostAnswers ==
  ASSUME IInv, AllAnswered, NEW c \in Calls, AppendLost(c)
  PROVE  AllAnswered'
<1>1. DOMAIN call = Calls /\ CallTyped(c)
  BY DEF IInv, TypeOK
<1>2. /\ \A d \in Calls \ {c} : call'[d] = call[d]
      /\ call'[c].part = call[c].part
      /\ call'[c].pc # "correct"
  BY <1>1 DEF AppendLost, CallTyped
<1>3. MadeBy(c) = {}
  BY DEF AllAnswered, Answered, AppendLost
<1>4. UNCHANGED <<revNum, changes, snapshots>>
  BY DEF AppendLost
<1> QED
  BY <1>2, <1>3, <1>4, NothingMade, QuietAnswer

\* Who times out may have made a change, and is told nothing of it.
LEMMA TimeOutAnswers ==
  ASSUME IInv, AllAnswered, NEW c \in Calls, TimeOut(c)
  PROVE  AllAnswered'
<1>1. /\ \A d \in Calls \ {c} : call'[d] = call[d]
      /\ call'[c].part = call[c].part
      /\ call'[c].pc = "timedOut"
  BY FinishEffect DEF TimeOut
<1>2. UNCHANGED <<revNum, changes, snapshots>>
  BY DEF TimeOut
<1>3. MadeBy(c)' = MadeBy(c) => Answered(c)'
  BY <1>1 DEF AllAnswered, Answered
<1> QED
  BY <1>1, <1>2, <1>3, QuietAnswer

\* The correction leads to the revision that the call made.
LEMMA MakeCorrectionAnswers ==
  ASSUME IInv, AllAnswered, NEW c \in Calls, MakeCorrection(c)
  PROVE  AllAnswered'
<1> DEFINE p == call[c].part
           r == call[c].toAppend.revNum
           result == snapshots[p][r]
<1>1. UNCHANGED <<revNum, changes, snapshots>>
  BY DEF MakeCorrection
<1>2. /\ MadeBy(c) = {r}
      /\ r \in (call[c].change.revNum + 1)..revNum[p]
      /\ call[c].change.revNum \in 1..(revNum[p] + 1)
      /\ Expected(c) # BadValue
  BY DEF AllAnswered, Answered, IInv, CallsInOrder, InOrder, MakeCorrection
<1>3. p \in Parts /\ revNum[p] \in Nat
  BY DEF IInv, TypeOK, FileTyped, CallTyped
<1>4. CASE result = BadValue
  <2>1. Finish(c, "failed", NoChange)
    BY <1>4 DEF MakeCorrection
  <2>2. /\ \A d \in Calls \ {c} : call'[d] = call[d]
        /\ call'[c].part = p
        /\ call'[c].pc = "failed"
    BY <2>1, FinishEffect
  <2>3. MadeBy(c)' = MadeBy(c) => Answered(c)'
    BY <1>2, <1>3, <2>2 DEF Answered
  <2> QED
    BY <1>1, <2>2, <2>3, QuietAnswer
<1>5. CASE result # BadValue
  <2> DEFINE answer == [revNum |-> r, delta |-> Diff(Expected(c), result)]
  <2>1. Finish(c, "done", answer)
    BY <1>5 DEF MakeCorrection, Correction
  <2>2. /\ \A d \in Calls \ {c} : call'[d] = call[d]
        /\ call'[c].part = p
        /\ call'[c].change = call[c].change
        /\ call'[c].pc = "done"
        /\ call'[c].result = answer
    BY <2>1, FinishEffect
  <2>3. r \in 0..revNum[p] /\ call[c].change.revNum - 1 \in 0..revNum[p]
    BY <1>2, <1>3
  <2>4. result \in Contents
    BY <1>3, <1>5, <2>3 DEF IInv, TypeOK, FileTyped, ChangesContiguous
  <2>5. Expected(c) \in Contents /\ Expected(c)' = Expected(c)
    BY <1>1, <1>2, <2>2, NewContentsType DEF Expected
  <2>6. Compose(Expected(c), answer.delta) = result
    BY <2>4, <2>5, DiffAssumption
  <2>7. AnswerRight(c)'
    BY <1>1, <1>2, <2>2, <2>3, <2>5, <2>6 DEF AnswerRight
  <2>8. MadeBy(c)' = MadeBy(c) => Answered(c)'
    BY <1>2, <1>3, <2>2, <2>7 DEF Answered
  <2> QED
    BY <1>1, <2>2, <2>8, QuietAnswer
<1> QED
  BY <1>4, <1>5

\* The winner has made one change; if it went in as it was sent, the contents
\* are what the caller expects.
LEMMA AppendWonAnswers ==
  ASSUME IInv, AllAnswered, NEW c \in Calls, AppendWon(c), IInv'
  PROVE  AllAnswered'
<1> DEFINE p == call[c].part
           r == call[c].toAppend.revNum
<1>1. HistoryKept
  BY NextKeepsHistory DEF Next, Step
<1>2. /\ p \in Parts
      /\ r = revNum[p] + 1
      /\ revNum' = [revNum EXCEPT ![p] = r]
      /\ snapshots'[p][r] = NewContents(snapshots[p][r - 1], call[c].toAppend.delta)
  BY WinnerExtendsLog
<1>3. revNum \in [Parts -> Nat] /\ revNum' \in [Parts -> Nat]
  BY DEF IInv, TypeOK, FileTyped
<1>4. DOMAIN call = Calls /\ CallTyped(c)
  BY DEF IInv, TypeOK
<1>5. /\ \A d \in Calls \ {c} : call'[d] = call[d]
      /\ call'[c].part = p
      /\ call'[c].change = call[c].change
      /\ call'[c].toAppend = call[c].toAppend
      /\ \/ /\ call[c].toAppend = call[c].change
            /\ call'[c].pc = "done"
            /\ call'[c].result = [revNum |-> call[c].change.revNum, delta |-> EmptyDelta]
         \/ call'[c].pc = "correct"
  BY <1>4, FinishEffect DEF AppendWon, Appended, CallTyped
<1>6. ASSUME NEW d \in Calls \ {c}
      PROVE  Answered(d)'
  <2>1. MadeBy(d)' = MadeBy(d)
    BY <1>5, <1>6, MadeByWinner
  <2> QED
    BY <1>1, <1>3, <1>5, <1>6, <2>1, OthersStayAnswered DEF AllAnswered
<1>7. MadeBy(c)' = {r} /\ r \in Nat
  <2>1. MadeBy(c) = {}
    BY DEF AllAnswered, Answered, AppendWon
  <2>2. MadeBy(c)' = MadeBy(c) \cup {r}
    BY <1>5, MadeByWinner
  <2> QED
    BY <1>2, <1>3, <2>1, <2>2
<1>8. ASSUME call'[c].pc = "correct"
      PROVE  Answered(c)'
  BY <1>5, <1>7, <1>8 DEF Answered
<1>9. ASSUME call'[c].pc # "correct"
      PROVE  Answered(c)'
  <2>1. /\ call[c].change.revNum = r
        /\ call[c].change = call[c].toAppend
        /\ call'[c].pc = "done"
        /\ call'[c].result = [revNum |-> r, delta |-> EmptyDelta]
    BY <1>5, <1>9
  <2>2. call[c].change.revNum \in 1..(revNum[p] + 1) /\ Expected(c) # BadValue
    BY DEF IInv, CallsInOrder, InOrder, AppendWon
  <2>3. Expected(c)' = Expected(c)
    BY <1>1, <1>5, <2>2, ExpectedStable
  <2>4. Expected(c) = snapshots'[p][r]
    BY <1>2, <2>1 DEF Expected
  <2>5. Compose(Expected(c), EmptyDelta) = Expected(c)
    BY <2>2, NewContentsType, EmptyAssumption DEF Expected
  <2>6. AnswerRight(c)'
    BY <1>2, <1>3, <1>5, <2>1, <2>2, <2>3, <2>4, <2>5 DEF AnswerRight
  <2> QED
    BY <1>7, <2>1, <2>6 DEF Answered
<1> QED
  BY <1>6, <1>8, <1>9 DEF AllAnswered

\* Stored snapshots, and nothing at all, leave every answer as it is.
LEMMA IdleAnswers ==
  ASSUME IInv, AllAnswered, UNCHANGED <<revNum, changes, snapshots, call>>
  PROVE  AllAnswered'
<1>1. revNum \in [Parts -> Nat] /\ HistoryKept
  BY DEF IInv, TypeOK, FileTyped, HistoryKept
<1>2. ASSUME NEW c \in Calls
      PROVE  Answered(c)'
  <2>1. MadeBy(c)' = MadeBy(c)
    BY MadeByStays
  <2> QED
    BY <1>1, <2>1, OthersStayAnswered DEF AllAnswered
<1> QED
  BY <1>2 DEF AllAnswered

LEMMA NextAnswers ==
  ASSUME IInv, AllAnswered, [Next]_vars
  PROVE  AllAnswered'
<1>1. ASSUME NEW c \in Calls, Submit(c) \/ TimeOut(c)
      PROVE  AllAnswered'
  BY <1>1, SubmitAnswers, TimeOutAnswers
<1>2. ASSUME NEW c \in Calls, Step(c)
      PROVE  AllAnswered'
  <2>1. IInv'
    BY NextPreserves
  <2> QED
    BY <1>2, <2>1, AttemptUpdateAnswers, CheckPrerequisitesAnswers, AppendWonAnswers,
      AppendLostAnswers, MakeCorrectionAnswers DEF Step
<1>3. ASSUME NEW s \in BagToSet(saves), Save(s)
      PROVE  AllAnswered'
  BY <1>3, IdleAnswers, Zenon DEF Save, StartSave, WriteStoredSnapshot
<1>4. CASE UNCHANGED vars
  BY <1>4, IdleAnswers DEF vars
<1> QED
  BY <1>1, <1>2, <1>3, <1>4 DEF Next

\* FileBootstrap's changes are nobody's.
LEMMA InitAnswers ==
  ASSUME Init
  PROVE  AllAnswered
<1>1. ASSUME NEW c \in Calls
      PROVE  Answered(c)
  <2>1. call[c].pc = "idle" /\ call[c].part \in Parts
    BY DEF Init
  <2>2. \A p \in Parts : \A r \in DOMAIN changes[p] : changes[p][r].by = NoCall
    BY DEF Init, Change
  <2>3. MadeBy(c) = {}
    BY <2>1, <2>2, CallsAssumption DEF MadeBy
  <2> QED
    BY <2>1, <2>3 DEF Answered
<1> QED
  BY <1>1 DEF AllAnswered

\* The two invariants together are inductive.
LEMMA AnswersInvariant == Spec => [](IInv /\ AllAnswered)
<1>1. Init => IInv /\ AllAnswered
  BY InitHolds, InitAnswers
<1>2. IInv /\ AllAnswered /\ [Next]_vars => (IInv /\ AllAnswered)'
  BY NextPreserves, NextAnswers
<1> QED
  BY <1>1, <1>2, PTL DEF Spec

-----------------------------------------------------------------------------
(* What follows *)

\* However many races a call loses, its change is in the log at most once: at
\* the revision it was answered, and not before it has won.
THEOREM Once == Spec => []AppliedOnce
<1>1. ASSUME AllAnswered
      PROVE  AppliedOnce
  <2>1. ASSUME NEW c \in Calls
        PROVE  Cardinality(MadeBy(c)) <= 1
    <3>1. PICK r \in Nat : MadeBy(c) \subseteq {r}
      BY <1>1 DEF AllAnswered, Answered
    <3>2. MadeBy(c) = {} \/ MadeBy(c) = {r}
      BY <3>1
    <3>3. Cardinality({r}) = 1 /\ Cardinality({}) = 0
      BY FS_EmptySet, FS_Singleton
    <3> QED
      BY <3>2, <3>3
  <2> QED
    BY <1>1, <2>1 DEF AllAnswered, Answered, AppliedOnce
<1> QED
  BY <1>1, AnswersInvariant, PTL

\* The answer of a call whose change went in leads from what the caller expects
\* to the contents of the revision it names, whatever was rebased onto what.
THEOREM Corrections == Spec => []AppendedCorrectionYieldsResult
<1>1. AllAnswered => AppendedCorrectionYieldsResult
  BY DEF AllAnswered, Answered, AnswerRight, AppendedCorrectionYieldsResult
<1> QED
  BY <1>1, AnswersInvariant, PTL

-----------------------------------------------------------------------------

(***************************************************************************)
(* BaseControl implements DocLog: the calls of update() are linearizable,  *)
(* for any number of parts and calls and any data algebra that satisfies   *)
(* the assumptions.                                                        *)
(***************************************************************************)

(* Both modules speak of the same things *)

\* What c asks for is what it was called with.
LEMMA AskedOf ==
  ASSUME NEW c \in Calls
  PROVE  Asked[c].part = call[c].part /\ Asked[c].change = call[c].change
BY DEF Asked

LEMMA SameNewContents ==
  ASSUME NEW old, NEW delta
  PROVE  Log!NewContents(old, delta) = NewContents(old, delta)
BY DEF NewContents, Log!NewContents

LEMMA SameExpected ==
  ASSUME NEW c \in Calls
  PROVE  Log!Expected(c) = Expected(c)
BY AskedOf, SameNewContents DEF Log!Expected, Expected

\* What the log makes of a change is what the call makes of it.
LEMMA SameRebased ==
  ASSUME NEW c \in Calls, NEW r \in Nat, call[c].change.revNum \in Nat
  PROVE  Log!RebasedDelta(c, r) = RebasedChange(c, r).delta
<1> DEFINE first == call[c].change.revNum
           p == call[c].part
<1>1. Asked[c].change = call[c].change /\ Asked[c].part = p
  BY AskedOf
<1>2. (r - 1) + 1 - first = r - first
  OBVIOUS
<1>3. DeltasOf(p, first, r - 1) = [i \in 1..(r - first) |-> changes[p][first + i - 1].delta]
  BY <1>2 DEF DeltasOf
<1> QED
  BY <1>1, <1>3, SameExpected DEF Log!RebasedDelta, RebasedChange

\* How the calls look from outside after a step that moves one of them.
LEMMA OneMoves ==
  ASSUME NEW c \in Calls, \A d \in Calls \ {c} : call'[d] = call[d]
  PROVE  /\ Asked' = [Asked EXCEPT ![c] = Asked'[c]]
         /\ Status' = [Status EXCEPT ![c] = Status'[c]]
         /\ Answer' = [Answer EXCEPT ![c] = Answer'[c]]
BY DEF Asked, Status, Answer

\* A call that keeps its part and its change keeps what it asks for.
LEMMA AskedStays ==
  ASSUME NEW c \in Calls, \A d \in Calls \ {c} : call'[d] = call[d],
         call'[c].part = call[c].part, call'[c].change = call[c].change
  PROVE  Asked' = Asked
BY DEF Asked

-----------------------------------------------------------------------------
(* Every step is a step of the log, or none *)

LEMMA InitRefines ==
  ASSUME Init
  PROVE  Log!Init
<1>1. IInv
  BY InitHolds
<1>2. \A c \in Calls : call[c].pc = "idle"
  BY DEF Init
<1>3. \A c \in Calls : Asked[c].part \in Parts
  BY <1>1, AskedOf DEF IInv, TypeOK, CallTyped
<1>4. Status = [c \in Calls |-> "idle"]
  BY <1>2 DEF Status, StatusAt
<1>5. Answer = [c \in Calls |-> Log!NoAnswer]
  BY <1>2 DEF Answer, AnswerOf, NoChange, Log!NoAnswer
<1> QED
  BY <1>1, <1>3, <1>4, <1>5 DEF Log!Init, IInv, TypeOK, FileTyped, ChangesContiguous

\* Steps that the log does not see.
LEMMA Stutter ==
  ASSUME UNCHANGED <<revNum, changes, snapshots>>, NEW c \in Calls,
         \A d \in Calls \ {c} : call'[d] = call[d],
         call'[c].part = call[c].part, call'[c].change = call[c].change,
         Status'[c] = Status[c], Answer'[c] = Answer[c]
  PROVE  UNCHANGED Log!vars
<1>1. Asked' = Asked
  BY AskedStays
<1>2. Status' = Status
  <2>1. Status' = [Status EXCEPT ![c] = Status[c]]
    BY OneMoves
  <2> QED
    BY <2>1 DEF Status, StatusAt
<1>3. Answer' = Answer
  <2>1. Answer' = [Answer EXCEPT ![c] = Answer[c]]
    BY OneMoves
  <2> QED
    BY <2>1 DEF Answer, AnswerOf
<1> QED
  BY <1>1, <1>2, <1>3 DEF Log!vars

LEMMA SubmitRefines ==
  ASSUME IInv, NEW c \in Calls, Submit(c)
  PROVE  Log!Open(c)
<1> DEFINE p == call[c].part
<1>1. PICK base \in 0..revNum[p] : \E delta \in Submittable(c, snapshots[p][base]) :
        call' = [call EXCEPT
          ![c].change = [revNum |-> base + 1, delta |-> delta],
          ![c].pc = IF NewContents(snapshots[p][base], delta) = BadValue
                    THEN "failed" ELSE "loop"]
  BY DEF Submit
<1>2. PICK delta \in Submittable(c, snapshots[p][base]) :
        call' = [call EXCEPT
          ![c].change = [revNum |-> base + 1, delta |-> delta],
          ![c].pc = IF NewContents(snapshots[p][base], delta) = BadValue
                    THEN "failed" ELSE "loop"]
  BY <1>1
<1>3. UNCHANGED <<revNum, changes, snapshots>> /\ call[c].pc = "idle"
  BY DEF Submit
<1>4. DOMAIN call = Calls /\ CallTyped(c)
  BY DEF IInv, TypeOK
<1>5. /\ \A d \in Calls \ {c} : call'[d] = call[d]
      /\ call'[c].part = p
      /\ call'[c].change = [revNum |-> base + 1, delta |-> delta]
      /\ call'[c].pc = IF NewContents(snapshots[p][base], delta) = BadValue
                       THEN "failed" ELSE "loop"
  BY <1>2, <1>4 DEF CallTyped
<1>6. Asked[c].part = p /\ Status[c] = "idle"
  BY <1>3, AskedOf DEF Status, StatusAt
<1>7. Asked'[c] = [part |-> p, change |-> [revNum |-> base + 1, delta |-> delta]]
  BY <1>5 DEF Asked
<1>8. Status'[c] = IF Log!NewContents(snapshots[p][base], delta) = BadValue
                   THEN "gaveUp" ELSE "open"
  BY <1>5, SameNewContents DEF Status, StatusAt
<1>9. Answer' = Answer
  <2>1. Answer'[c] = Answer[c]
    BY <1>3, <1>5 DEF Answer, AnswerOf
  <2> QED
    BY <1>5, <2>1, OneMoves DEF Answer, AnswerOf
<1>10. /\ Asked' = [Asked EXCEPT ![c] =
                     [part |-> p, change |-> [revNum |-> base + 1, delta |-> delta]]]
       /\ Status' = [Status EXCEPT ![c] =
                     IF Log!NewContents(snapshots[p][base], delta) = BadValue
                     THEN "gaveUp" ELSE "open"]
  BY <1>5, <1>7, <1>8, OneMoves
<1> HIDE DEF p
<1> QED
  BY <1>3, <1>6, <1>9, <1>10, Zenon DEF Log!Open

LEMMA GiveUpRefines ==
  ASSUME IInv, NEW c \in Calls, NEW pc \in {"failed", "timedOut"},
         Finish(c, pc, NoChange), UNCHANGED <<revNum, changes, snapshots>>,
         call[c].pc \in {"loop", "append", "cas", "correct"}
  PROVE  Log!GiveUp(c)
<1>1. /\ \A d \in Calls \ {c} : call'[d] = call[d]
      /\ call'[c].pc = pc
      /\ call'[c].part = call[c].part
      /\ call'[c].change = call[c].change
  BY FinishEffect
<1>2. Status[c] \in {"open", "applied"} /\ Status'[c] = "gaveUp"
  BY <1>1 DEF Status, StatusAt
<1>3. Answer'[c] = Log!NoAnswer
  BY <1>1 DEF Answer, AnswerOf, NoChange, Log!NoAnswer
<1>4. Asked' = Asked
  BY <1>1, AskedStays
<1> QED
  BY <1>1, <1>2, <1>3, <1>4, OneMoves DEF Log!GiveUp

LEMMA AttemptUpdateRefines ==
  ASSUME IInv, NEW c \in Calls, AttemptUpdate(c)
  PROVE  Log!Skip(c) \/ Log!GiveUp(c) \/ UNCHANGED Log!vars
<1> DEFINE p == call[c].part
           r == revNum[p]
           rebased == RebasedChange(c, r + 1)
<1>1. UNCHANGED <<revNum, changes, snapshots>> /\ call[c].pc = "loop"
  BY DEF AttemptUpdate
<1>2. DOMAIN call = Calls /\ CallTyped(c) /\ r \in Nat
  BY DEF IInv, TypeOK, FileTyped, CallTyped
<1>3. CASE Finish(c, "failed", NoChange)
  BY <1>1, <1>3, GiveUpRefines
<1>4. CASE /\ rebased.delta = EmptyDelta
           /\ Finish(c, "done", [revNum |-> r, delta |-> EmptyDelta])
  <2>1. /\ \A d \in Calls \ {c} : call'[d] = call[d]
        /\ call'[c].pc = "done"
        /\ call'[c].part = call[c].part
        /\ call'[c].change = call[c].change
        /\ call'[c].result = [revNum |-> r, delta |-> EmptyDelta]
    BY <1>4, FinishEffect
  <2>2. Status[c] = "open" /\ Status'[c] = "done"
    BY <1>1, <2>1 DEF Status, StatusAt
  <2>3. Answer'[c] = [revNum |-> r, delta |-> EmptyDelta]
    BY <2>1 DEF Answer, AnswerOf
  <2>4. Asked' = Asked /\ Asked[c].part = p
    BY <2>1, AskedOf, AskedStays
  <2>5. Log!RebasedDelta(c, r + 1) = EmptyDelta
    BY <1>2, <1>4, SameRebased DEF CallTyped
  <2> QED
    BY <1>1, <2>1, <2>2, <2>3, <2>4, <2>5, OneMoves DEF Log!Skip
<1>5. CASE call' = [call EXCEPT ![c].pc = "append", ![c].toAppend = rebased]
  <2>1. /\ \A d \in Calls \ {c} : call'[d] = call[d]
        /\ call'[c].pc = "append"
        /\ call'[c].part = call[c].part
        /\ call'[c].change = call[c].change
    BY <1>2, <1>5 DEF CallTyped
  <2>2. Status'[c] = Status[c] /\ Answer'[c] = Answer[c]
    BY <1>1, <2>1 DEF Status, StatusAt, Answer, AnswerOf
  <2> QED
    BY <1>1, <2>1, <2>2, Stutter
<1> QED
  BY <1>3, <1>4, <1>5 DEF AttemptUpdate

LEMMA RetryRefines ==
  ASSUME IInv, NEW c \in Calls, CheckPrerequisites(c) \/ AppendLost(c)
  PROVE  UNCHANGED Log!vars
<1>1. UNCHANGED <<revNum, changes, snapshots>> /\ call[c].pc \in {"append", "cas"}
  BY DEF CheckPrerequisites, AppendLost
<1>2. DOMAIN call = Calls /\ CallTyped(c)
  BY DEF IInv, TypeOK
<1>3. /\ \A d \in Calls \ {c} : call'[d] = call[d]
      /\ call'[c].pc \in {"cas", "loop"}
      /\ call'[c].part = call[c].part
      /\ call'[c].change = call[c].change
  <2>1. \/ call' = [call EXCEPT ![c].pc = "cas", ![c].fileRev = fileRev]
        \/ call' = [call EXCEPT ![c].pc = "loop"]
    BY DEF CheckPrerequisites, AppendLost
  <2> QED
    BY <1>2, <2>1 DEF CallTyped
<1>4. Status'[c] = Status[c] /\ Answer'[c] = Answer[c]
  BY <1>1, <1>3 DEF Status, StatusAt, Answer, AnswerOf
<1> QED
  BY <1>1, <1>3, <1>4, Stutter

\* The append takes effect for the log at the instant it wins the race.
LEMMA AppendWonRefines ==
  ASSUME IInv, NEW c \in Calls, AppendWon(c)
  PROVE  Log!Apply(c)
<1> DEFINE p == call[c].part
           r == call[c].toAppend.revNum
           delta == call[c].toAppend.delta
<1>1. DOMAIN call = Calls /\ CallTyped(c) /\ call[c].pc = "cas"
  BY DEF IInv, TypeOK, AppendWon
<1>2. r = revNum[p] + 1
  BY WinnerIsNext
<1>3. /\ call[c].toAppend = RebasedChange(c, r)
      /\ delta # EmptyDelta
      /\ call[c].change.revNum \in Nat /\ r \in Nat
  BY <1>1 DEF IInv, CallsInOrder, InOrder, CallTyped
<1>4. Log!RebasedDelta(c, r) = delta
  BY <1>3, SameRebased
<1>5. call[c].toAppend = call[c].change <=> r = call[c].change.revNum
  BY <1>3 DEF RebasedChange
<1>6. /\ \A d \in Calls \ {c} : call'[d] = call[d]
      /\ call'[c].part = call[c].part
      /\ call'[c].change = call[c].change
      /\ Status'[c] = IF r = call[c].change.revNum THEN "done" ELSE "applied"
      /\ Answer'[c] = [revNum |-> r, delta |-> EmptyDelta]
  <2>1. CASE r = call[c].change.revNum
    <3>1. Finish(c, "done", [revNum |-> r, delta |-> EmptyDelta])
      BY <1>5, <2>1 DEF AppendWon, Appended
    <3>2. /\ \A d \in Calls \ {c} : call'[d] = call[d]
          /\ call'[c].pc = "done"
          /\ call'[c].part = call[c].part
          /\ call'[c].change = call[c].change
          /\ call'[c].result = [revNum |-> r, delta |-> EmptyDelta]
      BY <3>1, FinishEffect
    <3> QED
      BY <2>1, <3>2 DEF Status, StatusAt, Answer, AnswerOf
  <2>2. CASE r # call[c].change.revNum
    <3>1. call' = [call EXCEPT ![c].pc = "correct"]
      BY <1>5, <2>2 DEF AppendWon, Appended
    <3>2. /\ \A d \in Calls \ {c} : call'[d] = call[d]
          /\ call'[c].pc = "correct"
          /\ call'[c].part = call[c].part
          /\ call'[c].change = call[c].change
          /\ call'[c].toAppend = call[c].toAppend
      BY <1>1, <3>1 DEF CallTyped
    <3> QED
      BY <2>2, <3>2 DEF Status, StatusAt, Answer, AnswerOf
  <2> QED
    BY <2>1, <2>2
<1>7. /\ revNum' = [revNum EXCEPT ![p] = r]
      /\ changes' = [changes EXCEPT ![p] = Log!With(@, r, [by |-> c, delta |-> delta])]
      /\ snapshots' = [snapshots EXCEPT
                         ![p] = Log!With(@, r, Log!NewContents(@[r - 1], delta))]
  BY SameNewContents DEF AppendWon, With, Log!With, Change
<1>8. Asked[c].part = p /\ Asked[c].change = call[c].change /\ Status[c] = "open"
  BY <1>1, AskedOf DEF Status, StatusAt
<1>9. Asked' = Asked
  BY <1>6, AskedStays
<1>10. /\ Status' = [Status EXCEPT
                      ![c] = IF r = Asked[c].change.revNum THEN "done" ELSE "applied"]
       /\ Answer' = [Answer EXCEPT ![c] = [revNum |-> r, delta |-> EmptyDelta]]
  BY <1>6, <1>8, OneMoves
<1> HIDE DEF p, r, delta
<1> QED
  BY <1>2, <1>3, <1>4, <1>7, <1>8, <1>9, <1>10, Zenon DEF Log!Apply

LEMMA MakeCorrectionRefines ==
  ASSUME IInv, NEW c \in Calls, MakeCorrection(c)
  PROVE  Log!Answer(c) \/ Log!GiveUp(c)
<1> DEFINE p == call[c].part
           r == call[c].toAppend.revNum
           correction == Diff(Expected(c), snapshots[p][r])
<1>1. UNCHANGED <<revNum, changes, snapshots>> /\ call[c].pc = "correct"
  BY DEF MakeCorrection
<1>2. /\ p \in Parts /\ revNum[p] \in Nat
      /\ call[c].change.revNum \in Nat /\ r \in Nat
      /\ DOMAIN snapshots[p] = 0..revNum[p]
      /\ \A k \in DOMAIN snapshots[p] : snapshots[p][k] \in Contents \cup {BadValue}
  BY DEF IInv, TypeOK, FileTyped, CallTyped, ChangesContiguous
<1>3. CASE Finish(c, "failed", NoChange)
  BY <1>1, <1>3, GiveUpRefines
<1>4. CASE /\ snapshots[p][r] # BadValue
           /\ Finish(c, "done", [revNum |-> r, delta |-> correction])
  <2>1. /\ \A d \in Calls \ {c} : call'[d] = call[d]
        /\ call'[c].pc = "done"
        /\ call'[c].part = call[c].part
        /\ call'[c].change = call[c].change
        /\ call'[c].result = [revNum |-> r, delta |-> correction]
    BY <1>4, FinishEffect
  <2>2. snapshots[p][r] \in Contents
    <3>1. /\ r \in (call[c].change.revNum + 1)..revNum[p]
          /\ call[c].change.revNum \in 1..(revNum[p] + 1)
      BY <1>1 DEF IInv, CallsInOrder, InOrder
    <3>2. r \in DOMAIN snapshots[p]
      BY <1>2, <3>1
    <3> QED
      BY <1>2, <1>4, <3>2
  <2>3. Expected(c) \in Contents
    <3>1. Expected(c) # BadValue
      BY <1>1 DEF IInv, CallsInOrder, InOrder
    <3> QED
      BY <3>1, NewContentsType DEF Expected
  <2>4. Compose(Expected(c), correction) = snapshots[p][r]
    BY <2>2, <2>3, DiffAssumption
  <2> HIDE DEF correction
  <2>5. Status[c] = "applied" /\ Status'[c] = "done"
    BY <1>1, <2>1 DEF Status, StatusAt
  <2>6. /\ Answer[c].revNum = r
        /\ Answer'[c] = [revNum |-> r, delta |-> correction]
    BY <1>1, <2>1 DEF Answer, AnswerOf
  <2>7. Asked' = Asked /\ Asked[c].part = p
    BY <2>1, AskedOf, AskedStays
  <2>8. Compose(Log!Expected(c), Answer'[c].delta) = snapshots[p][r]
    BY <2>4, <2>6, SameExpected
  <2>9. /\ Status' = [Status EXCEPT ![c] = "done"]
        /\ Answer' = [Answer EXCEPT ![c] = [revNum |-> r, delta |-> Answer'[c].delta]]
    BY <2>1, <2>5, <2>6, OneMoves
  <2> HIDE DEF p, r
  <2> QED
    BY <1>1, <1>4, <2>5, <2>6, <2>7, <2>8, <2>9, Zenon DEF Log!Answer
<1> QED
  BY <1>3, <1>4 DEF MakeCorrection, Correction

\* Storing a snapshot is no business of the log's.
LEMMA SaveRefines ==
  ASSUME NEW s, Save(s)
  PROVE  UNCHANGED Log!vars
<1>1. UNCHANGED <<revNum, changes, snapshots, call>>
  BY Zenon DEF Save, StartSave, WriteStoredSnapshot
<1> QED
  BY <1>1 DEF Log!vars, Asked, Status, Answer

LEMMA NextRefines ==
  ASSUME IInv, [Next]_vars
  PROVE  [Log!Next]_(Log!vars)
<1>1. ASSUME NEW c \in Calls, Submit(c)
      PROVE  Log!Next
  BY <1>1, SubmitRefines, Zenon DEF Log!Next
<1>2. ASSUME NEW c \in Calls, TimeOut(c)
      PROVE  Log!Next
  <2>1. Log!GiveUp(c)
    BY <1>2, GiveUpRefines DEF TimeOut
  <2> QED
    BY <2>1, Zenon DEF Log!Next
<1>3. ASSUME NEW c \in Calls, Step(c)
      PROVE  Log!Next \/ UNCHANGED Log!vars
  <2>1. CASE AttemptUpdate(c)
    BY <2>1, AttemptUpdateRefines, Zenon DEF Log!Next
  <2>2. CASE CheckPrerequisites(c) \/ AppendLost(c)
    BY <2>2, RetryRefines, Zenon
  <2>3. CASE AppendWon(c)
    BY <2>3, AppendWonRefines, Zenon DEF Log!Next
  <2>4. CASE MakeCorrection(c)
    BY <2>4, MakeCorrectionRefines, Zenon DEF Log!Next
  <2> QED
    BY <1>3, <2>1, <2>2, <2>3, <2>4, Zenon DEF Step
<1>4. CASE UNCHANGED vars
  <2>1. UNCHANGED <<revNum, changes, snapshots, call>>
    BY <1>4, Zenon DEF vars
  <2> QED
    BY <2>1 DEF Log!vars, Asked, Status, Answer
<1>5. ASSUME NEW s, Save(s)
      PROVE  UNCHANGED Log!vars
  BY <1>5, SaveRefines
<1> QED
  BY <1>1, <1>2, <1>3, <1>4, <1>5, Zenon DEF Next

-----------------------------------------------------------------------------
\* The calls of update() are linearizable: each takes effect at one instant or
\* not at all, rebased onto exactly the changes before it, whatever races it
\* lost on the way, and its answer is the log's.
THEOREM Linearizable == Spec => ImplementsLog
<1>1. Init => Log!Init
  BY InitRefines
<1>2. IInv /\ [Next]_vars => [Log!Next]_(Log!vars)
  BY NextRefines
<1> QED
  BY <1>1, <1>2, Invariance, PTL DEF Spec, ImplementsLog, Log!Spec

-----------------------------------------------------------------------------
(***************************************************************************)
(* Every revision can be served.  appendChange() does not look at what it  *)
(* stores; that what it stores always fits is up to the rebase.            *)
(***************************************************************************)

\* What the data algebra has to promise: there is a kind of changes, those that
\* `good` has with the contents they are made for, which fit and which clients
\* send; and a change that a client sends, rebased onto good changes of the same
\* contents, is a good one of what these lead to.
RebaseFits(good) ==
  /\ \A pair \in good : /\ pair[1] \in Contents
                        /\ Compose(pair[1], pair[2]) \in Contents
  /\ \A r \in 1..BootRev : <<BootContents[r - 1], BootDelta[r]>> \in good
  /\ \A c \in Calls, old \in Contents : \A delta \in Submittable(c, old) :
       Compose(old, delta) \in Contents => <<old, delta>> \in good
  /\ \A n \in Nat \ {0} : \A texts \in [0..n -> Contents] :
     \A c \in Calls : \A delta \in Submittable(c, texts[0]) : \A deltas :
       /\ deltas = [i \in 1..n |-> deltas[i]]
       /\ <<texts[0], delta>> \in good
       /\ \A i \in 1..n : /\ <<texts[i - 1], deltas[i]>> \in good
                          /\ texts[i] = Compose(texts[i - 1], deltas[i])
       => <<texts[n],
            Rebase(delta, Compose(texts[0], delta), deltas, texts[n])>> \in good

\* The changes in the log are good, and lead from contents to contents.
LogFits(good) ==
  \A p \in Parts : \A r \in 0..revNum[p] :
    /\ snapshots[p][r] \in Contents
    /\ r > 0 => /\ <<snapshots[p][r - 1], changes[p][r].delta>> \in good
                /\ snapshots[p][r] = Compose(snapshots[p][r - 1], changes[p][r].delta)

\* The change that a call was made with may be sent, and is good for its base.
CallFits(good, c) ==
  call[c].pc \in {"loop", "append", "cas"} =>
    /\ <<snapshots[call[c].part][call[c].change.revNum - 1], call[c].change.delta>> \in good
    /\ call[c].change.delta \in
         Submittable(c, snapshots[call[c].part][call[c].change.revNum - 1])

CallsFit(good) == \A c \in Calls : CallFits(good, c)

\* What a call appends is good for the last revision.
LEMMA RebasedIsGood ==
  ASSUME NEW CONSTANT good, RebaseFits(good), IInv, LogFits(good), CallsFit(good),
         NEW c \in Calls, AppendWon(c),
         NEW p, p = call[c].part,
         NEW r, r = call[c].toAppend.revNum
  PROVE  <<snapshots[p][r - 1], call[c].toAppend.delta>> \in good
<1> DEFINE first == call[c].change.revNum
           sent == call[c].change.delta
<1>1. p \in Parts /\ revNum[p] \in Nat /\ r = revNum[p] + 1 /\ call[c].pc = "cas"
  BY WinnerIsNext DEF IInv, TypeOK, FileTyped, CallTyped, AppendWon
<1>2. /\ first \in 1..r
      /\ Expected(c) # BadValue
      /\ call[c].toAppend = RebasedChange(c, r)
  BY <1>1 DEF IInv, CallsInOrder, InOrder
<1>3. /\ <<snapshots[p][first - 1], sent>> \in good
      /\ sent \in Submittable(c, snapshots[p][first - 1])
  BY <1>1 DEF CallsFit, CallFits
<1>4. CASE first = r
  BY <1>2, <1>3, <1>4 DEF RebasedChange
<1>5. CASE first # r
  <2> DEFINE n == r - first
             texts == [i \in 0..n |-> snapshots[p][first - 1 + i]]
             deltas == DeltasOf(p, first, r - 1)
  <2>1. n \in Nat \ {0}
    BY <1>1, <1>2, <1>5
  <2>2. \A i \in 0..n : first - 1 + i \in 0..revNum[p]
    BY <1>1, <1>2
  <2>3. texts \in [0..n -> Contents]
    BY <1>1, <2>2 DEF LogFits
  <2>4. texts[0] = snapshots[p][first - 1] /\ texts[n] = snapshots[p][r - 1]
    <3>1. 0 \in 0..n /\ n \in 0..n /\ first - 1 + 0 = first - 1 /\ first - 1 + n = r - 1
      BY <1>1, <1>2, <2>1
    <3> HIDE DEF n
    <3>2. texts[0] = snapshots[p][first - 1 + 0] /\ texts[n] = snapshots[p][first - 1 + n]
      BY <3>1
    <3> QED
      BY <3>1, <3>2
  <2>5. /\ deltas = [i \in 1..n |-> deltas[i]]
        /\ \A i \in 1..n : deltas[i] = changes[p][first - 1 + i].delta
    <3>1. (r - 1) + 1 - first = n
      BY <1>1, <1>2
    <3>2. deltas = [i \in 1..n |-> changes[p][first + i - 1].delta]
      BY <3>1 DEF DeltasOf
    <3>3. \A i \in 1..n : first + i - 1 = first - 1 + i
      BY <1>1, <1>2
    <3> HIDE DEF n, deltas
    <3> QED
      BY <3>2, <3>3
  <2>6. ASSUME NEW i \in 1..n
        PROVE  /\ <<texts[i - 1], deltas[i]>> \in good
               /\ texts[i] = Compose(texts[i - 1], deltas[i])
    <3>1. /\ i \in 0..n /\ i - 1 \in 0..n
          /\ first - 1 + i \in 0..revNum[p] /\ first - 1 + i > 0
          /\ (first - 1 + i) - 1 = first - 1 + (i - 1)
      BY <1>1, <1>2, <2>2
    <3>2. /\ <<snapshots[p][(first - 1 + i) - 1], changes[p][first - 1 + i].delta>> \in good
          /\ snapshots[p][first - 1 + i] =
               Compose(snapshots[p][(first - 1 + i) - 1], changes[p][first - 1 + i].delta)
      BY <1>1, <3>1 DEF LogFits
    <3>3. texts[i] = snapshots[p][first - 1 + i] /\ texts[i - 1] = snapshots[p][first - 1 + (i - 1)]
      BY <3>1
    <3>4. deltas[i] = changes[p][first - 1 + i].delta
      BY <2>5
    <3> HIDE DEF texts, deltas
    <3> QED
      BY <3>1, <3>2, <3>3, <3>4
  <2>7. Expected(c) = Compose(texts[0], sent)
    BY <1>2, <2>4 DEF Expected, NewContents
  <2>8. call[c].toAppend.delta = Rebase(sent, Expected(c), deltas, texts[n])
    <3>1. call[c].toAppend.delta = Rebase(sent, Expected(c), deltas, snapshots[p][r - 1])
      BY <1>2, <1>5 DEF RebasedChange
    <3> HIDE DEF texts, n, deltas
    <3> QED
      BY <2>4, <3>1
  <2> HIDE DEF texts, deltas, n
  <2>9. <<texts[n], Rebase(sent, Compose(texts[0], sent), deltas, texts[n])>> \in good
    BY <1>3, <2>1, <2>3, <2>4, <2>5, <2>6 DEF RebaseFits
  <2> QED
    BY <2>4, <2>7, <2>8, <2>9
<1> QED
  BY <1>4, <1>5

\* Nobody but the winner of a race writes to a log, and a call keeps the change
\* that it was made with.
LEMMA ChangesStay ==
  ASSUME IInv, [Next]_vars, NEW c \in Calls, ~ Submit(c)
  PROVE  /\ call'[c].part = call[c].part
         /\ call'[c].change = call[c].change
         /\ call'[c].pc \in {"loop", "append", "cas"} =>
              call[c].pc \in {"loop", "append", "cas"}
<1>1. DOMAIN call = Calls /\ CallTyped(c)
  BY DEF IInv, TypeOK
<1>2. ASSUME NEW d \in Calls, Submit(d) PROVE call'[c] = call[c]
  <2>1. d # c
    BY <1>2
  <2> QED
    BY <1>1, <1>2, <2>1 DEF Submit
<1>3. ASSUME NEW d \in Calls, AttemptUpdate(d) \/ TimeOut(d) \/ MakeCorrection(d)
      PROVE  /\ call'[c].part = call[c].part /\ call'[c].change = call[c].change
             /\ call'[c].pc \in {"loop", "append", "cas"} =>
                  call[c].pc \in {"loop", "append", "cas"}
  BY <1>1, <1>3 DEF AttemptUpdate, TimeOut, MakeCorrection, Finish, CallTyped
<1>4. ASSUME NEW d \in Calls, CheckPrerequisites(d) \/ AppendLost(d)
      PROVE  /\ call'[c].part = call[c].part /\ call'[c].change = call[c].change
             /\ call'[c].pc \in {"loop", "append", "cas"} =>
                  call[c].pc \in {"loop", "append", "cas"}
  BY <1>1, <1>4 DEF CheckPrerequisites, AppendLost, CallTyped
<1>5. ASSUME NEW d \in Calls, AppendWon(d)
      PROVE  /\ call'[c].part = call[c].part /\ call'[c].change = call[c].change
             /\ call'[c].pc \in {"loop", "append", "cas"} =>
                  call[c].pc \in {"loop", "append", "cas"}
  BY <1>1, <1>5 DEF AppendWon, Appended, Finish, CallTyped
<1>6. CASE UNCHANGED call
  BY <1>6
<1>7. CASE \E s \in BagToSet(saves) : Save(s)
  BY <1>7 DEF Save, StartSave, WriteStoredSnapshot
<1>8. CASE UNCHANGED vars
  BY <1>8 DEF vars
<1> QED
  BY <1>2, <1>3, <1>4, <1>5, <1>7, <1>8 DEF Next, Step

LEMMA CallsStayFit ==
  ASSUME NEW CONSTANT good, RebaseFits(good), IInv, LogFits(good), CallsFit(good),
         [Next]_vars, HistoryKept
  PROVE  CallsFit(good)'
<1> SUFFICES ASSUME NEW c \in Calls PROVE CallFits(good, c)'
  BY DEF CallsFit
<1>1. CASE Submit(c)
  <2> DEFINE p == call[c].part
  <2>1. PICK base \in 0..revNum[p] : \E delta \in Submittable(c, snapshots[p][base]) :
          call' = [call EXCEPT
            ![c].change = [revNum |-> base + 1, delta |-> delta],
            ![c].pc = IF NewContents(snapshots[p][base], delta) = BadValue
                      THEN "failed" ELSE "loop"]
    BY <1>1 DEF Submit
  <2>0. PICK delta \in Submittable(c, snapshots[p][base]) :
          call' = [call EXCEPT
            ![c].change = [revNum |-> base + 1, delta |-> delta],
            ![c].pc = IF NewContents(snapshots[p][base], delta) = BadValue
                      THEN "failed" ELSE "loop"]
    BY <2>1
  <2>2. DOMAIN call = Calls /\ CallTyped(c) /\ p \in Parts /\ revNum[p] \in Nat
    BY DEF IInv, TypeOK, FileTyped, CallTyped
  <2>3. /\ call'[c].part = p
        /\ call'[c].change.revNum = base + 1 /\ call'[c].change.delta = delta
        /\ call'[c].pc = IF NewContents(snapshots[p][base], delta) = BadValue
                         THEN "failed" ELSE "loop"
    BY <2>0, <2>2 DEF CallTyped
  <2>4. snapshots' = snapshots /\ (base + 1) - 1 = base
    BY <1>1, <2>2 DEF Submit
  <2>5. snapshots[p][base] \in Contents
    BY <2>2 DEF LogFits
  <2>6. ASSUME call'[c].pc = "loop"
        PROVE  /\ <<snapshots[p][base], delta>> \in good
               /\ delta \in Submittable(c, snapshots[p][base])
    <3>1. Compose(snapshots[p][base], delta) \in Contents
      BY <2>3, <2>6 DEF NewContents
    <3> QED
      BY <2>5, <3>1 DEF RebaseFits
  <2> QED
    BY <2>3, <2>4, <2>6 DEF CallFits
<1>2. CASE ~ Submit(c)
  <2> SUFFICES ASSUME call'[c].pc \in {"loop", "append", "cas"}
               PROVE  /\ <<snapshots'[call'[c].part][call'[c].change.revNum - 1],
                           call'[c].change.delta>> \in good
                      /\ call'[c].change.delta \in
                           Submittable(c, snapshots'[call'[c].part][call'[c].change.revNum - 1])
    BY DEF CallFits
  <2>1. /\ call'[c].part = call[c].part /\ call'[c].change = call[c].change
        /\ call[c].pc \in {"loop", "append", "cas"}
    BY <1>2, ChangesStay
  <2>2. /\ <<snapshots[call[c].part][call[c].change.revNum - 1], call[c].change.delta>> \in good
        /\ call[c].change.delta \in
             Submittable(c, snapshots[call[c].part][call[c].change.revNum - 1])
    BY <2>1 DEF CallsFit, CallFits
  <2>3. /\ call[c].part \in Parts /\ revNum[call[c].part] \in Nat
        /\ call[c].change.revNum \in 1..(revNum[call[c].part] + 1)
    BY <2>1 DEF IInv, TypeOK, FileTyped, CallTyped, CallsInOrder, InOrder
  <2>4. call[c].change.revNum - 1 \in 0..revNum[call[c].part]
    BY <2>3
  <2>5. snapshots'[call[c].part][call[c].change.revNum - 1] =
          snapshots[call[c].part][call[c].change.revNum - 1]
    BY <2>3, <2>4 DEF HistoryKept
  <2> QED
    BY <2>1, <2>2, <2>5
<1> QED
  BY <1>1, <1>2

LEMMA LogStaysFit ==
  ASSUME NEW CONSTANT good, RebaseFits(good), IInv, LogFits(good), CallsFit(good),
         [Next]_vars
  PROVE  LogFits(good)'
<1>1. ASSUME NEW c \in Calls, AppendWon(c) PROVE LogFits(good)'
  <2> DEFINE p == call[c].part
             r == call[c].toAppend.revNum
             delta == call[c].toAppend.delta
  <2>1. /\ p \in Parts /\ revNum \in [Parts -> Nat] /\ r = revNum[p] + 1
        /\ revNum' = [revNum EXCEPT ![p] = r]
        /\ changes'[p][r] = Change(c, delta)
        /\ snapshots'[p][r] = NewContents(snapshots[p][r - 1], delta)
        /\ \A k \in 0..revNum[p] : /\ changes'[p][k] = changes[p][k]
                                    /\ snapshots'[p][k] = snapshots[p][k]
        /\ \A q \in Parts \ {p} : /\ changes'[q] = changes[q]
                                  /\ snapshots'[q] = snapshots[q]
    BY <1>1, WinnerExtendsLog DEF IInv, TypeOK, FileTyped
  <2>2. <<snapshots[p][r - 1], delta>> \in good
    BY <1>1, RebasedIsGood
  <2>3. snapshots[p][r - 1] \in Contents /\ Compose(snapshots[p][r - 1], delta) \in Contents
    BY <2>2 DEF RebaseFits
  <2>4. snapshots'[p][r] = Compose(snapshots[p][r - 1], delta)
    BY <2>1, <2>3 DEF NewContents
  <2>5. changes'[p][r].delta = delta
    BY <2>1 DEF Change
  <2> HIDE DEF p, r, delta
  <2> SUFFICES ASSUME NEW q \in Parts, NEW k \in 0..revNum'[q]
               PROVE  /\ snapshots'[q][k] \in Contents
                      /\ k > 0 =>
                           /\ <<snapshots'[q][k - 1], changes'[q][k].delta>> \in good
                           /\ snapshots'[q][k] =
                                Compose(snapshots'[q][k - 1], changes'[q][k].delta)
    BY DEF LogFits
  <2>6. CASE q = p /\ k = r
    <3>1. r - 1 \in 0..revNum[p]
      BY <2>1
    <3>2. snapshots'[p][r - 1] = snapshots[p][r - 1]
      BY <2>1, <3>1
    <3> QED
      BY <2>2, <2>3, <2>4, <2>5, <2>6, <3>2
  <2>7. CASE ~ (q = p /\ k = r)
    <3>1. k \in 0..revNum[q] /\ (k > 0 => k - 1 \in 0..revNum[q])
      BY <2>1, <2>7
    <3>2. /\ snapshots'[q][k] = snapshots[q][k] /\ changes'[q][k] = changes[q][k]
          /\ k > 0 => snapshots'[q][k - 1] = snapshots[q][k - 1]
      BY <2>1, <3>1
    <3>3. /\ snapshots[q][k] \in Contents
          /\ k > 0 => /\ <<snapshots[q][k - 1], changes[q][k].delta>> \in good
                      /\ snapshots[q][k] = Compose(snapshots[q][k - 1], changes[q][k].delta)
      BY <3>1 DEF LogFits
    <3> QED
      BY <3>2, <3>3
  <2> QED
    BY <2>6, <2>7
<1>2. CASE UNCHANGED <<revNum, changes, snapshots>>
  BY <1>2 DEF LogFits
<1> QED
  BY <1>1, <1>2, OnlyWinnersWrite

LEMMA InitFits ==
  ASSUME NEW CONSTANT good, RebaseFits(good), Init
  PROVE  LogFits(good) /\ CallsFit(good)
<1>1. CallsFit(good)
  BY DEF Init, CallsFit, CallFits
<1>2. ASSUME NEW p \in Parts, NEW r \in 0..revNum[p]
      PROVE  /\ snapshots[p][r] \in Contents
             /\ r > 0 => /\ <<snapshots[p][r - 1], changes[p][r].delta>> \in good
                         /\ snapshots[p][r] = Compose(snapshots[p][r - 1], changes[p][r].delta)
  <2>1. revNum[p] = BootRev /\ snapshots[p] = BootContents /\ BootRev \in Nat
    BY BootAssumption DEF Init
  <2>2. r \in 0..BootRev /\ BootContents[r] \in Contents
    BY <2>1, BootAssumption
  <2>3. ASSUME r > 0
        PROVE  /\ <<BootContents[r - 1], BootDelta[r]>> \in good
               /\ BootContents[r] = Compose(BootContents[r - 1], BootDelta[r])
               /\ changes[p][r].delta = BootDelta[r]
    <3>1. r \in 1..BootRev
      BY <2>1, <2>2, <2>3
    <3>2. <<BootContents[r - 1], BootDelta[r]>> \in good
      BY <3>1 DEF RebaseFits
    <3>3. BootContents[r] = NewContents(BootContents[r - 1], BootDelta[r])
      BY <3>1, BootAssumption
    <3>4. BootContents[r] = Compose(BootContents[r - 1], BootDelta[r])
      BY <2>2, <3>3, BadValueAssumption DEF NewContents
    <3>5. changes[p][r] = Change(NoCall, BootDelta[r])
      BY <2>2, <2>3 DEF Init
    <3> QED
      BY <3>2, <3>4, <3>5 DEF Change
  <2> QED
    BY <2>1, <2>2, <2>3
<1> QED
  BY <1>1, <1>2 DEF LogFits

\* Whatever races calls lose, whatever their changes are rebased onto, and
\* whoever else writes to the file: if rebasing one good change onto good ones
\* gives a good one, then no revision is ever stored that cannot be served
\* (BaseControl.update(), appendChange(), which does not validate).
THEOREM AlwaysServed ==
  ASSUME NEW CONSTANT good, RebaseFits(good)
  PROVE  Spec => []AlwaysServable
<1> DEFINE Inv == IInv /\ LogFits(good) /\ CallsFit(good)
<1>1. Init => Inv
  BY InitHolds, InitFits
<1>2. Inv /\ [Next]_vars => Inv'
  <2> SUFFICES ASSUME Inv, [Next]_vars PROVE Inv'
    OBVIOUS
  <2>1. IInv' /\ HistoryKept
    BY NextPreserves, NextKeepsHistory
  <2> QED
    BY <2>1, LogStaysFit, CallsStayFit
<1>3. Inv => AlwaysServable
  BY BadValueAssumption DEF LogFits, AlwaysServable
<1> HIDE DEF Inv
<1> QED
  BY <1>1, <1>2, <1>3, PTL DEF Spec

-----------------------------------------------------------------------------
(***************************************************************************)
(* Properties (PropertyDelta) keep that promise, and the others that       *)
(* BaseControl asks of the data algebra.                                   *)
(***************************************************************************)

LEMMA ComposedProperties ==
  ASSUME NEW contents \in PropertyContents, NEW delta \in PropertyDeltas
  PROVE  ComposeProperties(contents, delta) \in PropertyContents
<1> DEFINE N == (DOMAIN contents \cup DOMAIN delta) \ {n \in DOMAIN delta : delta[n] = Deleted}
<1>1. PICK A \in SUBSET Names : contents \in [A -> Values]
  BY DEF PropertyContents
<1>2. PICK B \in SUBSET Names : delta \in [B -> Values \cup {Deleted}]
  BY DEF PropertyDeltas
<1>3. N \in SUBSET Names
  BY <1>1, <1>2
<1>4. ComposeProperties(contents, delta) \in [N -> Values]
  BY <1>1, <1>2 DEF ComposeProperties
<1> QED
  BY <1>3, <1>4 DEF PropertyContents

LEMMA DiffedProperties ==
  ASSUME NEW old \in PropertyContents, NEW new \in PropertyContents
  PROVE  DiffProperties(old, new) \in PropertyDeltas
<1> DEFINE N == {n \in DOMAIN new : n \notin DOMAIN old \/ old[n] # new[n]}
                  \cup (DOMAIN old \ DOMAIN new)
<1>1. PICK A \in SUBSET Names : old \in [A -> Values]
  BY DEF PropertyContents
<1>2. PICK B \in SUBSET Names : new \in [B -> Values]
  BY DEF PropertyContents
<1>3. N \in SUBSET Names
  BY <1>1, <1>2
<1>4. DiffProperties(old, new) \in [N -> Values \cup {Deleted}]
  BY <1>1, <1>2 DEF DiffProperties
<1> QED
  BY <1>3, <1>4 DEF PropertyDeltas

\* Folding is induction over the sequence; that there is a function as the
\* definition of the fold asks for comes first.
LEMMA FoldedProperties ==
  ASSUME NEW n \in Nat, NEW base \in PropertyContents,
         NEW deltas \in [1..n -> PropertyDeltas]
  PROVE  FoldLeft(ComposeProperties, base, deltas) \in PropertyContents
<1> DEFINE Does(iter) ==
             iter = [S \in SUBSET (1..n) |->
                       IF S = {} THEN base
                       ELSE ComposeProperties(iter[S \ {Max(S)}], deltas[Max(S)])]
           fold == CHOOSE iter : Does(iter)
<1>1. \E iter : Does(iter)
  <2> DEFINE step == [ic \in (1..n) \X PropertyContents |->
                        ComposeProperties(ic[2], deltas[ic[1]])]
  <2>1. step \in [(1..n) \X PropertyContents -> PropertyContents]
    BY ComposedProperties
  <2>2. \A i \in 1..n, c \in PropertyContents : step[i, c] = ComposeProperties(c, deltas[i])
    OBVIOUS
  <2> HIDE DEF step
  <2>0. \E iter \in [SUBSET (1..n) -> PropertyContents] : IsFold(iter, n, base, step)
    BY <2>1, FoldOnSubsets
  <2>3. PICK iter \in [SUBSET (1..n) -> PropertyContents] : \A S \in SUBSET (1..n) :
          iter[S] = IF S = {} THEN base ELSE step[Max(S), iter[S \ {Max(S)}]]
    BY <2>0 DEF IsFold
  <2>4. ASSUME NEW S \in SUBSET (1..n)
        PROVE  iter[S] = IF S = {} THEN base
                         ELSE ComposeProperties(iter[S \ {Max(S)}], deltas[Max(S)])
    <3>1. CASE S = {}
      BY <2>3, <3>1
    <3>2. CASE S # {}
      <4>1. Max(S) \in 1..n /\ S \ {Max(S)} \in SUBSET (1..n)
        BY <3>2, MaxIsThere
      <4> QED
        BY <2>2, <2>3, <3>2, <4>1
    <3> QED
      BY <3>1, <3>2
  <2>5. Does(iter)
    BY <2>3, <2>4
  <2> QED
    BY <2>5
<1>2. Does(fold)
  BY <1>1
<1>3. FoldLeft(ComposeProperties, base, deltas) = fold[1..n]
  BY DEF FoldLeft, MapThenFoldSet
<1> DEFINE Typed == {k \in Nat : k <= n => fold[1..k] \in PropertyContents}
<1> HIDE DEF fold
<1>4. 0 \in Typed
  BY <1>2, MaxOfInterval
<1>5. ASSUME NEW k \in Nat, k \in Typed PROVE k + 1 \in Typed
  <2> SUFFICES ASSUME k + 1 <= n PROVE fold[1..k + 1] \in PropertyContents
    OBVIOUS
  <2>1. /\ Max(1..k + 1) = k + 1 /\ (1..k + 1) \ {k + 1} = 1..k /\ 1..k + 1 # {}
    BY MaxOfInterval
  <2>4. 1..k + 1 \in SUBSET (1..n)
    OBVIOUS
  <2>2. fold[1..k + 1] = ComposeProperties(fold[1..k], deltas[k + 1])
    BY <1>2, <2>1, <2>4
  <2>3. fold[1..k] \in PropertyContents /\ deltas[k + 1] \in PropertyDeltas
    BY <1>5
  <2> QED
    BY <2>2, <2>3, ComposedProperties
<1> HIDE DEF Typed
<1>6. n \in Typed
  BY <1>4, <1>5, Induction
<1> QED
  BY <1>3, <1>6 DEF Typed

\* The parameters of BaseControl as the property part has them: any deltas may
\* be sent.
OverProperties ==
  /\ Contents = PropertyContents
  /\ \A old, delta : Compose(old, delta) = ComposeProperties(old, delta)
  /\ \A delta, expected, deltas, current :
       Rebase(delta, expected, deltas, current) =
         RebaseProperties(delta, expected, deltas, current)
  /\ \A c \in Calls, old \in Contents : Submittable(c, old) \subseteq PropertyDeltas
  /\ \A r \in 1..BootRev : BootDelta[r] \in PropertyDeltas

LEMMA PropertiesFit ==
  ASSUME OverProperties
  PROVE  RebaseFits(PropertyContents \X PropertyDeltas)
<1> DEFINE good == PropertyContents \X PropertyDeltas
<1>1. \A pair \in good : pair[1] \in Contents /\ Compose(pair[1], pair[2]) \in Contents
  BY ComposedProperties DEF OverProperties
<1>2. \A r \in 1..BootRev : <<BootContents[r - 1], BootDelta[r]>> \in good
  <2> TAKE r \in 1..BootRev
  <2>1. r - 1 \in 0..BootRev
    BY BootAssumption
  <2>2. BootContents[r - 1] \in PropertyContents
    BY <2>1, BootAssumption DEF OverProperties
  <2> QED
    BY <2>2 DEF OverProperties
<1>3. \A c \in Calls, old \in Contents : \A delta \in Submittable(c, old) :
        <<old, delta>> \in good
  BY DEF OverProperties
<1>4. ASSUME NEW n \in Nat \ {0}, NEW texts \in [0..n -> Contents], NEW c \in Calls,
             NEW delta \in Submittable(c, texts[0]), NEW deltas,
             deltas = [i \in 1..n |-> deltas[i]],
             <<texts[0], delta>> \in good,
             \A i \in 1..n : /\ <<texts[i - 1], deltas[i]>> \in good
                            /\ texts[i] = Compose(texts[i - 1], deltas[i])
      PROVE  <<texts[n],
               Rebase(delta, Compose(texts[0], delta), deltas, texts[n])>> \in good
  <2>1. texts[0] \in PropertyContents /\ texts[n] \in PropertyContents
    BY DEF OverProperties
  <2> DEFINE expected == ComposeProperties(texts[0], delta)
  <2>2. expected \in PropertyContents
    BY <1>4, ComposedProperties
  <2>3. \A i \in 1..n : deltas[i] \in PropertyDeltas
    BY <1>4
  <2>4. deltas \in [1..n -> PropertyDeltas]
    BY <1>4, <2>3
  <2>5. FoldLeft(ComposeProperties, expected, deltas) \in PropertyContents
    <3> HIDE DEF expected
    <3> QED
      BY <2>2, <2>4, FoldedProperties
  <2>6. RebaseProperties(delta, expected, deltas, texts[n]) \in PropertyDeltas
    BY <2>1, <2>5, DiffedProperties DEF RebaseProperties
  <2>7. Rebase(delta, Compose(texts[0], delta), deltas, texts[n]) =
          RebaseProperties(delta, expected, deltas, texts[n])
    BY DEF OverProperties
  <2> QED
    BY <2>1, <2>6, <2>7
<1> HIDE DEF good
<1>5. \A n \in Nat \ {0} : \A texts \in [0..n -> Contents] :
      \A c \in Calls : \A delta \in Submittable(c, texts[0]) : \A deltas :
       /\ deltas = [i \in 1..n |-> deltas[i]]
       /\ <<texts[0], delta>> \in good
       /\ \A i \in 1..n : /\ <<texts[i - 1], deltas[i]>> \in good
                          /\ texts[i] = Compose(texts[i - 1], deltas[i])
       => <<texts[n],
            Rebase(delta, Compose(texts[0], delta), deltas, texts[n])>> \in good
  BY <1>4
<1>6. RebaseFits(good)
  BY <1>1, <1>2, <1>3, <1>5 DEF RebaseFits
<1> QED
  BY <1>6 DEF good

\* The properties of a document can be served at every revision, whatever their
\* names and values are and whatever clients send (PropertyControl._impl_rebase(),
\* PropertyDelta, PropertySnapshot).
THEOREM PropertiesAlwaysServed ==
  ASSUME OverProperties
  PROVE  Spec => []AlwaysServable
BY AlwaysServed, PropertiesFit

\* The laws of composition and diff that BaseControl assumes hold of properties:
\* nothing composed changes nothing, and a diff leads from the one to the other.
THEOREM PropertyLaws ==
  ASSUME Deleted \notin Values
  PROVE  /\ \A c \in PropertyContents : ComposeProperties(c, NoProperties) = c
         /\ \A c, e \in PropertyContents : ComposeProperties(c, DiffProperties(c, e)) = e
<1>1. ASSUME NEW c \in PropertyContents PROVE ComposeProperties(c, NoProperties) = c
  <2>1. PICK A \in SUBSET Names : c \in [A -> Values]
    BY DEF PropertyContents
  <2>2. DOMAIN NoProperties = {}
    BY DEF NoProperties
  <2> QED
    BY <2>1, <2>2 DEF ComposeProperties
<1>2. ASSUME NEW c \in PropertyContents, NEW e \in PropertyContents
      PROVE  ComposeProperties(c, DiffProperties(c, e)) = e
  <2>1. PICK A \in SUBSET Names : c \in [A -> Values]
    BY DEF PropertyContents
  <2>2. PICK B \in SUBSET Names : e \in [B -> Values]
    BY DEF PropertyContents
  <2> DEFINE diff == DiffProperties(c, e)
             changed == {n \in B : n \notin A \/ c[n] # e[n]}
  <2>3. /\ DOMAIN diff = changed \cup (A \ B)
        /\ \A n \in DOMAIN diff : diff[n] = IF n \in B THEN e[n] ELSE Deleted
    BY <2>1, <2>2 DEF DiffProperties
  <2> HIDE DEF diff
  <2>4. {n \in DOMAIN diff : diff[n] = Deleted} = A \ B
    BY <2>1, <2>2, <2>3
  <2>5. (A \cup DOMAIN diff) \ (A \ B) = B
    BY <2>3
  <2>6. \A n \in B : (IF n \in DOMAIN diff THEN diff[n] ELSE c[n]) = e[n]
    BY <2>1, <2>2, <2>3
  <2>7. ComposeProperties(c, diff) =
          [n \in B |-> IF n \in DOMAIN diff THEN diff[n] ELSE c[n]]
    BY <2>1, <2>4, <2>5 DEF ComposeProperties
  <2>8. ComposeProperties(c, diff) = [n \in B |-> e[n]]
    BY <2>6, <2>7
  <2> QED
    BY <2>2, <2>8 DEF diff
<1> QED
  BY <1>1, <1>2
=============================================================================
