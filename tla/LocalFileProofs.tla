--------------------------- MODULE LocalFileProofs ---------------------------
(***************************************************************************)
(* Proofs about LocalFile, for any number of calls, flushes, waiters,      *)
(* crashes and deletes, as long as callers are careful.                    *)
(***************************************************************************)
EXTENDS LocalFile, Inductions, TLAPS

-----------------------------------------------------------------------------
(* The inductive invariant                                                 *)

Values == Calls \cup {FirstChange}
Bounded == {D \in SUBSET Nat : \E n \in Nat : D \subseteq 0 .. n}
Arrays == UNION {[D -> Values] : D \in Bounded}

FlushPhases == {"none", "mkdir", "write", "exists", "remove", "reset"}
FlushStates ==
  [pc : {"idle", "waiting", "running", "done", "crashed"}, owed : Arrays]

WaiterStates ==
  [pc : {"idle", "loop", "looking", "waiting", "done", "failed", "timedOut", "crashed"},
   base : Nat, changed : BOOLEAN]

Typed ==
  /\ ready \in {"no", "yes", "failed"}
  /\ shouldExist \in BOOLEAN /\ dirty \in BOOLEAN
  /\ changes \in Arrays /\ toWrite \in Arrays /\ disk \in Arrays
  /\ timers \in Nat /\ deletes \in Nat
  /\ running \in [by : Flushes \cup {Timer, Nobody}, phase : FlushPhases, values : Arrays]
  /\ append \in [Calls ->
       [pc : {"idle", "called", "won", "lost", "failed", "crashed"}, revNum : Nat]]
  /\ flush \in [Flushes -> FlushStates]
  /\ waiter \in [Waiters -> WaiterStates]

\* Whatever f holds, g holds as well.
PartOf(f, g) == \A r \in DOMAIN f : r \in DOMAIN g /\ f[r] = g[r]

Contiguous == \E n \in Nat : DOMAIN changes = 0 .. n - 1

\* Nothing is going on that was begun while there was a file.
AtRest ==
  /\ toWrite = Nothing /\ ~ dirty /\ timers = 0 /\ running = NoFlush
  /\ \A f \in Flushes : flush[f].pc \notin {"waiting", "running"}
  /\ \A c \in Calls : append[c].pc # "called"

\* No trace of a file that never was, or is not read yet.
NoFileNoTrace ==
  /\ ready # "yes" => ~ shouldExist
  /\ ~ shouldExist => changes = Nothing
  /\ ~ shouldExist /\ (deletes = 0 \/ ready # "yes") => AtRest
  /\ ~ shouldExist /\ deletes = 0 /\ ready = "yes" => disk = Nothing

\* Whoever removes the file does so for good.
RemovedIsGone == running.phase \in {"exists", "remove", "reset"} => ~ shouldExist

\* Disk, flush and what waits for a flush hold nothing but what memory holds.
AllAgree ==
  shouldExist =>
    PartOf(disk, changes) /\ PartOf(running.values, changes) /\ PartOf(toWrite, changes)

\* Each change has got somewhere, and the timer is set as long as one has not.
Kept ==
  shouldExist =>
    /\ dirty => timers > 0
    /\ \A r \in DOMAIN changes :
         \/ r \in DOMAIN disk
         \/ r \in DOMAIN running.values
         \/ r \in DOMAIN toWrite /\ timers > 0

\* A call that waits to go on is at most one revision ahead.
NotAhead ==
  \A c \in Calls : append[c].pc = "called" /\ shouldExist =>
    append[c].revNum - 1 \in DOMAIN changes

\* The mutex, and what the flush that holds it owes.
FlushOwes ==
  /\ \A f \in Flushes : flush[f].pc = "running" <=> running.by = f
  /\ deletes = 0 =>
       \A f \in Flushes :
         /\ flush[f].pc = "waiting" => PartOf(flush[f].owed, changes)
         /\ flush[f].pc = "running" =>
              \A r \in DOMAIN flush[f].owed :
                \/ r \in DOMAIN disk /\ disk[r] = flush[f].owed[r]
                \/ r \in DOMAIN running.values /\ running.values[r] = flush[f].owed[r]
         /\ flush[f].pc = "done" => PartOf(flush[f].owed, disk)

IInv ==
  /\ Typed /\ Contiguous /\ NoFileNoTrace /\ RemovedIsGone
  /\ AllAgree /\ Kept /\ NotAhead /\ FlushOwes

-----------------------------------------------------------------------------
(* Arrays                                                                  *)

LEMMA NothingMeans ==
  /\ Nothing \in Arrays /\ DOMAIN Nothing = {}
  /\ \A a \in Arrays : DOMAIN a = {} => a = Nothing
<1>1. {} \in Bounded
  BY DEF Bounded
<1> QED
  BY <1>1 DEF Nothing, Arrays

LEMMA ArrayMeans ==
  ASSUME NEW a \in Arrays
  PROVE  /\ DOMAIN a \in Bounded /\ DOMAIN a \subseteq Nat
         /\ \A r \in DOMAIN a : a[r] \in Values
BY DEF Arrays, Bounded

LEMMA WithMeans ==
  ASSUME NEW a \in Arrays, NEW x \in Nat, NEW v \in Values
  PROVE  /\ With(a, x, v) \in Arrays
         /\ DOMAIN With(a, x, v) = DOMAIN a \cup {x}
         /\ With(a, x, v)[x] = v
         /\ \A r \in DOMAIN a \ {x} : With(a, x, v)[r] = a[r]
<1>1. With(a, x, v) \in [DOMAIN a \cup {x} -> Values]
  BY ArrayMeans DEF With
<1>2. DOMAIN a \cup {x} \in Bounded
  <2>1. PICK n \in Nat : DOMAIN a \subseteq 0 .. n
    BY ArrayMeans DEF Bounded
  <2>2. DOMAIN a \cup {x} \subseteq 0 .. n + x /\ n + x \in Nat
    BY <2>1
  <2> QED
    BY <2>2, ArrayMeans DEF Bounded
<1>3. With(a, x, v) \in Arrays
  BY <1>1, <1>2 DEF Arrays
<1> QED
  BY <1>3 DEF With

LEMMA WithoutMeans ==
  ASSUME NEW a \in Arrays, NEW x
  PROVE  /\ Without(a, x) \in Arrays
         /\ DOMAIN Without(a, x) = DOMAIN a \ {x}
         /\ \A r \in DOMAIN a \ {x} : Without(a, x)[r] = a[r]
<1>1. Without(a, x) \in [DOMAIN a \ {x} -> Values]
  BY ArrayMeans DEF Without
<1>2. DOMAIN a \ {x} \in Bounded
  BY ArrayMeans DEF Bounded
<1>3. Without(a, x) \in Arrays
  BY <1>1, <1>2 DEF Arrays
<1> QED
  BY <1>3 DEF Without

\* An array that is not empty has a last element.
LEMMA LastOfArray ==
  ASSUME NEW a \in Arrays, a # Nothing
  PROVE  Max(DOMAIN a) \in DOMAIN a /\ \A r \in DOMAIN a : r <= Max(DOMAIN a)
<1>1. PICK n \in Nat : DOMAIN a \subseteq 0 .. n
  BY ArrayMeans DEF Bounded
<1> DEFINE fromTop == {n - r : r \in DOMAIN a}
<1>2. fromTop \in SUBSET Nat /\ fromTop # {}
  <2>1. DOMAIN a # {}
    BY NothingMeans
  <2>2. \A r \in DOMAIN a : n - r \in Nat
    BY <1>1
  <2> QED
    BY <2>1, <2>2
<1>3. PICK m \in fromTop : \A k \in fromTop : m <= k
  BY <1>2, LeastNatural
<1>4. PICK x \in DOMAIN a : m = n - x
  BY <1>3
<1>5. \A y \in DOMAIN a : x >= y
  <2> SUFFICES ASSUME NEW y \in DOMAIN a PROVE x >= y
    OBVIOUS
  <2>1. m <= n - y /\ x \in Nat /\ y \in Nat
    BY <1>1, <1>3
  <2> QED
    BY <1>4, <2>1
<1>6. Max(DOMAIN a) \in DOMAIN a /\ \A y \in DOMAIN a : Max(DOMAIN a) >= y
  BY <1>5 DEF Max
<1> QED
  BY <1>1, <1>6

\* The length of an array without holes.
LEMMA LengthMeans ==
  ASSUME NEW a \in Arrays
  PROVE  /\ Length(a) \in Nat
         /\ \A n \in Nat : DOMAIN a = 0 .. n - 1 => Length(a) = n
<1>1. CASE a = Nothing
  <2>1. \A n \in Nat : 0 .. n - 1 = {} => n = 0
    OBVIOUS
  <2> QED
    BY <1>1, <2>1, NothingMeans DEF Length
<1>2. CASE a # Nothing
  <2>1. /\ Max(DOMAIN a) \in DOMAIN a /\ Max(DOMAIN a) \in Nat
        /\ \A r \in DOMAIN a : r <= Max(DOMAIN a)
    BY <1>2, LastOfArray, ArrayMeans
  <2>2. Length(a) = 1 + Max(DOMAIN a)
    BY <1>2 DEF Length
  <2>3. ASSUME NEW n \in Nat, DOMAIN a = 0 .. n - 1 PROVE Max(DOMAIN a) = n - 1
    BY <2>1, <2>3
  <2> QED
    BY <2>1, <2>2, <2>3
<1> QED
  BY <1>1, <1>2

LEMMA PartOfItself ==
  ASSUME NEW a, NEW b, NEW c
  PROVE  /\ PartOf(a, a) /\ PartOf(Nothing, a)
         /\ PartOf(a, b) /\ PartOf(b, c) => PartOf(a, c)
BY NothingMeans DEF PartOf

LEMMA PartOfWith ==
  ASSUME NEW a \in Arrays, NEW b \in Arrays, NEW x \in Nat, NEW v \in Values
  PROVE  /\ PartOf(a, b) /\ x \notin DOMAIN b => PartOf(a, With(b, x, v))
         /\ PartOf(a, b) => PartOf(With(a, x, v), With(b, x, v))
         /\ PartOf(a, b) /\ x \in DOMAIN b /\ b[x] = v =>
              PartOf(With(a, x, v), b) /\ PartOf(a, With(b, x, v))
         /\ PartOf(a, b) => PartOf(Without(a, x), b)
<1>1. /\ DOMAIN With(b, x, v) = DOMAIN b \cup {x} /\ With(b, x, v)[x] = v
      /\ \A r \in DOMAIN b \ {x} : With(b, x, v)[r] = b[r]
  BY WithMeans
<1>2. /\ DOMAIN With(a, x, v) = DOMAIN a \cup {x} /\ With(a, x, v)[x] = v
      /\ \A r \in DOMAIN a \ {x} : With(a, x, v)[r] = a[r]
  BY WithMeans
<1>3. /\ DOMAIN Without(a, x) = DOMAIN a \ {x}
      /\ \A r \in DOMAIN a \ {x} : Without(a, x)[r] = a[r]
  BY WithoutMeans
<1>4. PartOf(a, b) /\ x \notin DOMAIN b => PartOf(a, With(b, x, v))
  BY <1>1 DEF PartOf
<1>5. PartOf(a, b) => PartOf(With(a, x, v), With(b, x, v))
  BY <1>1, <1>2 DEF PartOf
<1>6. ASSUME PartOf(a, b), x \in DOMAIN b, b[x] = v
      PROVE  PartOf(With(a, x, v), b) /\ PartOf(a, With(b, x, v))
  BY <1>1, <1>2, <1>6 DEF PartOf
<1>7. PartOf(a, b) => PartOf(Without(a, x), b)
  BY <1>3 DEF PartOf
<1> QED
  BY <1>4, <1>5, <1>6, <1>7

-----------------------------------------------------------------------------
(* Typing                                                                  *)

LEMMA TypedAtFirst == Init => Typed
<1> SUFFICES ASSUME Init PROVE Typed
  OBVIOUS
<1>1. Nothing \in Arrays
  BY NothingMeans
<1>2. running \in [by : Flushes \cup {Timer, Nobody}, phase : FlushPhases, values : Arrays]
  BY <1>1 DEF Init, NoFlush, FlushPhases
<1>3. flush \in [Flushes -> FlushStates]
  BY <1>1 DEF Init, FlushStates
<1>4. /\ append \in [Calls ->
           [pc : {"idle", "called", "won", "lost", "failed", "crashed"}, revNum : Nat]]
      /\ waiter \in [Waiters -> WaiterStates]
  BY DEF Init, WaiterStates
<1> QED
  BY <1>1, <1>2, <1>3, <1>4 DEF Init, Typed

LEMMA SetConditionWakes ==
  ASSUME Typed, SetCondition
  PROVE  /\ waiter' \in [Waiters -> WaiterStates]
         /\ \A w \in Waiters : waiter'[w].pc # "waiting"
<1>1. ASSUME NEW w \in Waiters PROVE waiter'[w] \in WaiterStates /\ waiter'[w].pc # "waiting"
  <2>1. waiter[w] \in WaiterStates
    BY DEF Typed
  <2>2. waiter'[w] = IF waiter[w].pc = "waiting" THEN [waiter[w] EXCEPT !.pc = "loop"]
                                                ELSE waiter[w]
    BY DEF SetCondition
  <2>3. ASSUME NEW s \in WaiterStates, NEW t, t = [s EXCEPT !.pc = "loop"]
        PROVE  t \in WaiterStates /\ t.pc = "loop"
    BY <2>3 DEF WaiterStates
  <2> QED
    BY <2>1, <2>2, <2>3
<1> QED
  BY <1>1 DEF SetCondition

LEMMA ReleaseIsTyped ==
  ASSUME Typed, Release
  PROVE  /\ running' \in [by : Flushes \cup {Timer, Nobody}, phase : FlushPhases, values : Arrays]
         /\ flush' \in [Flushes -> FlushStates]
         /\ \A f \in Flushes : /\ flush'[f].owed = flush[f].owed
                              /\ flush'[f].pc = IF f = running.by THEN "done" ELSE flush[f].pc
<1>1. running' \in [by : Flushes \cup {Timer, Nobody}, phase : FlushPhases, values : Arrays]
  BY NothingMeans DEF Release, NoFlush, FlushPhases
<1>2. ASSUME NEW f \in Flushes
      PROVE  /\ flush'[f] \in FlushStates /\ flush'[f].owed = flush[f].owed
             /\ flush'[f].pc = IF f = running.by THEN "done" ELSE flush[f].pc
  <2>1. flush[f] \in FlushStates
    BY DEF Typed
  <2>2. flush'[f] = IF f = running.by THEN [flush[f] EXCEPT !.pc = "done"] ELSE flush[f]
    BY DEF Release
  <2>3. ASSUME NEW s \in FlushStates, NEW t, t = [s EXCEPT !.pc = "done"]
        PROVE  t \in FlushStates /\ t.owed = s.owed /\ t.pc = "done"
    BY <2>3 DEF FlushStates
  <2> QED
    BY <2>1, <2>2, <2>3
<1>3. flush' \in [Flushes -> FlushStates]
  BY <1>2 DEF Release
<1> QED
  BY <1>1, <1>2, <1>3

\* How a flush takes what is to be written.
LEMMA TakeAllIsTyped ==
  ASSUME Typed, NEW by \in Flushes \cup {Timer, Nobody}, TakeAll(by)
  PROVE  /\ running' \in [by : Flushes \cup {Timer, Nobody}, phase : FlushPhases, values : Arrays]
         /\ running'.by = by
         /\ toWrite' \in Arrays /\ dirty' \in BOOLEAN
         /\ shouldExist => running'.phase = "mkdir" /\ running'.values = toWrite
         /\ ~ shouldExist => running'.phase = "exists" /\ running'.values = Nothing
<1>1. Nothing \in Arrays /\ toWrite \in Arrays
  BY NothingMeans DEF Typed
<1>2. CASE shouldExist
  <2>1. /\ running' = [by |-> by, phase |-> "mkdir", values |-> toWrite]
        /\ toWrite' = Nothing /\ dirty' = FALSE
    BY <1>2 DEF TakeAll
  <2> QED
    BY <1>1, <1>2, <2>1 DEF FlushPhases
<1>3. CASE ~ shouldExist
  BY <1>1, <1>3 DEF TakeAll, FlushPhases, Typed
<1> QED
  BY <1>2, <1>3

\* What becomes of the state of a call of flush().
LEMMA FlushMoves ==
  ASSUME Typed, NEW f \in Flushes, NEW pc \in {"waiting", "running"},
         NEW owed \in Arrays,
         \/ flush' = [flush EXCEPT ![f] = [pc |-> pc, owed |-> owed]]
         \/ flush' = [flush EXCEPT ![f].pc = pc] /\ owed = flush[f].owed
  PROVE  /\ flush' \in [Flushes -> FlushStates]
         /\ flush'[f].pc = pc /\ flush'[f].owed = owed
         /\ \A g \in Flushes \ {f} : flush'[g] = flush[g]
<1>1. flush[f] \in FlushStates
  BY DEF Typed
<1>2. \/ flush'[f] = [pc |-> pc, owed |-> owed]
      \/ flush'[f] = [flush[f] EXCEPT !.pc = pc] /\ owed = flush[f].owed
  BY DEF Typed
<1>3. ASSUME NEW s \in FlushStates, NEW t,
             \/ t = [pc |-> pc, owed |-> owed]
             \/ t = [s EXCEPT !.pc = pc] /\ owed = s.owed
      PROVE  t \in FlushStates /\ t.pc = pc /\ t.owed = owed
  BY <1>3 DEF FlushStates
<1>4. flush'[f] \in FlushStates /\ flush'[f].pc = pc /\ flush'[f].owed = owed
  BY <1>1, <1>2, <1>3
<1> QED
  BY <1>4 DEF Typed

-----------------------------------------------------------------------------
(* The invariant holds at first, and every step keeps it                   *)

LEMMA InitIsGood == Init => IInv
<1> SUFFICES ASSUME Init PROVE IInv
  OBVIOUS
<1>1. Typed
  BY TypedAtFirst
<1>2. Contiguous
  <2>1. DOMAIN changes = 0 .. 0 - 1
    BY NothingMeans DEF Init
  <2> QED
    BY <2>1 DEF Contiguous
<1>3. NoFileNoTrace /\ RemovedIsGone /\ AllAgree /\ Kept /\ NotAhead
  BY DEF Init, NoFileNoTrace, AtRest, RemovedIsGone, AllAgree, Kept, NotAhead, NoFlush
<1>4. FlushOwes
  BY CallersAssumption DEF Init, FlushOwes, NoFlush
<1> QED
  BY <1>1, <1>2, <1>3, <1>4 DEF IInv

LEMMA ReadKeeps ==
  ASSUME IInv, Read
  PROVE  IInv'
<1> USE DEF IInv
<1>1. /\ ready = "no" /\ ~ shouldExist /\ changes = Nothing /\ AtRest
      /\ UNCHANGED <<toWrite, dirty, directory, disk, timers, running, append, flush, crashes, deletes>>
  BY DEF Read, NoFileNoTrace, store, counts
<1>2. CASE DOMAIN disk = 0..(Length(disk) - 1)
  <2>1. /\ ready' = "yes" /\ shouldExist' = (disk # Nothing) /\ changes' = disk
        /\ waiter' \in [Waiters -> WaiterStates]
    BY <1>2, SetConditionWakes DEF Read
  <2>2. disk \in Arrays
    BY DEF Typed
  <2>3. Typed'
    BY <1>1, <2>1 DEF Typed
  <2>4. Contiguous'
    BY <1>2, <2>1, <2>2, LengthMeans DEF Contiguous
  <2>5. NoFileNoTrace' /\ RemovedIsGone' /\ AllAgree' /\ Kept' /\ NotAhead'
    BY <1>1, <2>1, PartOfItself
    DEF NoFileNoTrace, AtRest, RemovedIsGone, AllAgree, Kept, NotAhead, NoFlush
  <2>6. FlushOwes'
    BY <1>1, <2>1 DEF FlushOwes, AtRest
  <2> QED
    BY <2>3, <2>4, <2>5, <2>6
<1>3. CASE DOMAIN disk # 0..(Length(disk) - 1)
  <2>1. ready' = "failed" /\ UNCHANGED <<shouldExist, changes, waiter>>
    BY <1>3 DEF Read
  <2>2. Typed' /\ Contiguous'
    BY <1>1, <2>1 DEF Typed, Contiguous
  <2>3. NoFileNoTrace' /\ RemovedIsGone' /\ AllAgree' /\ Kept' /\ NotAhead'
    BY <1>1, <2>1 DEF NoFileNoTrace, AtRest, RemovedIsGone, AllAgree, Kept, NotAhead
  <2>4. FlushOwes'
    BY <1>1, <2>1 DEF FlushOwes
  <2> QED
    BY <2>2, <2>3, <2>4
<1> QED
  BY <1>2, <1>3

\* Who makes a change known to the timer and to those who wait.
LEMMA NeedsFlushMeans ==
  ASSUME Typed, StorageNeedsFlush
  PROVE  /\ dirty' = TRUE /\ timers' \in Nat /\ waiter' \in [Waiters -> WaiterStates]
         /\ timers' >= timers
         /\ (dirty => timers > 0) => timers' > 0
BY SetConditionWakes DEF StorageNeedsFlush, Typed

LEMMA CreateKeeps ==
  ASSUME CarefulCallers, IInv, Create
  PROVE  IInv'
<1> USE DEF IInv
<1>1. /\ ready = "yes" /\ ~ shouldExist /\ deletes = 0
      /\ changes = Nothing /\ AtRest /\ disk = Nothing
  BY DEF Create, NoFileNoTrace
<1>2. /\ shouldExist' = TRUE
      /\ changes' = With(Nothing, 0, FirstChange) /\ toWrite' = With(Nothing, 0, FirstChange)
      /\ UNCHANGED <<ready, directory, disk, running, append, flush, crashes, deletes>>
  BY <1>1 DEF Create, AtRest, store, counts
<1>3. FirstChange \in Values /\ Nothing \in Arrays /\ DOMAIN Nothing = {}
  BY NothingMeans DEF Values
<1>4. /\ changes' \in Arrays /\ toWrite' \in Arrays
      /\ DOMAIN changes' = {0} /\ toWrite' = changes'
  <2>1. /\ With(Nothing, 0, FirstChange) \in Arrays
        /\ DOMAIN With(Nothing, 0, FirstChange) = DOMAIN Nothing \cup {0}
    BY <1>3, WithMeans
  <2> QED
    BY <1>2, <1>3, <2>1
<1>5. dirty' = TRUE /\ timers' \in Nat /\ timers' > 0 /\ waiter' \in [Waiters -> WaiterStates]
  BY <1>1, NeedsFlushMeans DEF Create, AtRest
<1>6. Typed'
  BY <1>2, <1>4, <1>5 DEF Typed
<1>7. Contiguous'
  <2>1. DOMAIN changes' = 0 .. 1 - 1
    BY <1>4
  <2> QED
    BY <2>1 DEF Contiguous
<1>8. NoFileNoTrace' /\ RemovedIsGone' /\ NotAhead'
  BY <1>1, <1>2 DEF NoFileNoTrace, AtRest, RemovedIsGone, NotAhead, NoFlush
<1>9. AllAgree' /\ Kept'
  BY <1>1, <1>2, <1>4, <1>5, PartOfItself DEF AllAgree, Kept, AtRest, NoFlush
<1>10. FlushOwes'
  BY <1>1, <1>2 DEF FlushOwes, AtRest
<1> QED
  BY <1>6, <1>7, <1>8, <1>9, <1>10

LEMMA DeleteKeeps ==
  ASSUME IInv, Delete
  PROVE  IInv'
<1> USE DEF IInv
<1>1. /\ ready = "yes" /\ shouldExist /\ deletes' = deletes + 1 /\ deletes \in Nat
      /\ shouldExist' = FALSE /\ changes' = Nothing
      /\ UNCHANGED <<ready, toWrite, directory, disk, running, append, flush, crashes>>
  BY DEF Delete, Typed, store
<1>2. timers' \in Nat /\ dirty' = TRUE /\ waiter' \in [Waiters -> WaiterStates]
  BY NeedsFlushMeans DEF Delete
<1>3. Typed'
  <2>1. changes' \in Arrays /\ deletes' \in Nat
    BY <1>1, NothingMeans
  <2> QED
    BY <1>1, <1>2, <2>1 DEF Typed
<1>4. Contiguous'
  <2>1. DOMAIN changes' = 0 .. 0 - 1
    BY <1>1, NothingMeans
  <2> QED
    BY <2>1 DEF Contiguous
<1>5. NoFileNoTrace' /\ RemovedIsGone' /\ AllAgree' /\ Kept' /\ NotAhead' /\ FlushOwes'
  BY <1>1 DEF NoFileNoTrace, RemovedIsGone, AllAgree, Kept, NotAhead, FlushOwes
<1> QED
  BY <1>3, <1>4, <1>5

LEMMA CallAppendKeeps ==
  ASSUME IInv, NEW c \in Calls, CallAppend(c)
  PROVE  IInv'
<1> USE DEF IInv
<1>1. PICK r \in 1..Length(changes) :
        append' = [append EXCEPT ![c] = [pc |-> "called", revNum |-> r]]
  BY DEF CallAppend
<1>2. ready = "yes" /\ UNCHANGED <<memory, store, timers, running, flush, waiter, counts>>
  BY DEF CallAppend
<1>3. PICK n \in Nat : DOMAIN changes = 0 .. n - 1
  BY DEF Contiguous
<1>4. Length(changes) = n
  BY <1>3, LengthMeans DEF Typed
<1>5. r \in Nat /\ r - 1 \in DOMAIN changes /\ shouldExist
  BY <1>1, <1>3, <1>4, NothingMeans DEF NoFileNoTrace
<1>6. Typed'
  BY <1>1, <1>2, <1>5 DEF Typed, memory, store, counts
<1>7. NotAhead'
  BY <1>1, <1>2, <1>5 DEF NotAhead, Typed, memory
<1> QED
  BY <1>2, <1>5, <1>6, <1>7 DEF memory, store, counts,
     Contiguous, NoFileNoTrace, RemovedIsGone, AllAgree, Kept, FlushOwes

\* A call of appendChange() goes on; others do not notice.
LEMMA AppendMoves ==
  ASSUME Typed, NEW c \in Calls, NEW pc \in {"won", "lost", "failed"},
         append' = [append EXCEPT ![c].pc = pc]
  PROVE  /\ append' \in [Calls ->
              [pc : {"idle", "called", "won", "lost", "failed", "crashed"}, revNum : Nat]]
         /\ append'[c].pc = pc
         /\ \A d \in Calls \ {c} : append'[d] = append[d]
BY DEF Typed

LEMMA AppendKeeps ==
  ASSUME IInv, NEW c \in Calls, Append(c)
  PROVE  IInv'
<1> DEFINE r == append[c].revNum
<1> USE DEF IInv
<1>1. /\ append[c].pc = "called"
      /\ UNCHANGED <<ready, directory, disk, running, flush, crashes, deletes>>
  BY DEF Append, memory, store, counts
<1>2. ASSUME NEW pc \in {"lost", "failed"}, append' = [append EXCEPT ![c].pc = pc],
             UNCHANGED <<memory, condition, timers, waiter>>
      PROVE  IInv'
  <2>1. Typed'
    BY <1>1, <1>2, AppendMoves DEF Typed, memory, store, counts
  <2>2. NotAhead' /\ NoFileNoTrace'
    BY <1>1, <1>2, AppendMoves DEF NotAhead, NoFileNoTrace, AtRest, memory, store, counts
  <2> QED
    BY <1>1, <1>2, <2>1, <2>2
    DEF memory, store, counts, Contiguous, RemovedIsGone, AllAgree, Kept, FlushOwes
<1>3. CASE /\ shouldExist /\ ~ Behind(r)
           /\ append' = [append EXCEPT ![c].pc = "won"]
           /\ changes' = With(changes, r, c)
           /\ toWrite' = With(toWrite, r, c)
           /\ StorageNeedsFlush
           /\ UNCHANGED <<ready, shouldExist>>
  <2>1. PICK n \in Nat : DOMAIN changes = 0 .. n - 1
    BY DEF Contiguous
  <2>2. Length(changes) = n /\ r \in Nat /\ r - 1 \in DOMAIN changes
    BY <1>1, <1>3, <2>1, LengthMeans DEF Typed, NotAhead
  <2>3. r = n /\ r \notin DOMAIN changes
    BY <1>3, <2>1, <2>2 DEF Behind
  <2>4. c \in Values /\ changes \in Arrays /\ toWrite \in Arrays /\ disk \in Arrays
        /\ running.values \in Arrays
    BY DEF Values, Typed
  <2>5. /\ changes' \in Arrays /\ toWrite' \in Arrays
        /\ DOMAIN changes' = DOMAIN changes \cup {r}
        /\ DOMAIN toWrite' = DOMAIN toWrite \cup {r}
    <3>1. /\ With(changes, r, c) \in Arrays /\ With(toWrite, r, c) \in Arrays
          /\ DOMAIN With(changes, r, c) = DOMAIN changes \cup {r}
          /\ DOMAIN With(toWrite, r, c) = DOMAIN toWrite \cup {r}
      <4>1. ASSUME NEW a \in Arrays, NEW x \in Nat
            PROVE  With(a, x, c) \in Arrays /\ DOMAIN With(a, x, c) = DOMAIN a \cup {x}
        BY <2>4, WithMeans
      <4> QED
        BY <2>2, <2>4, <4>1
    <3> QED
      BY <1>3, <3>1
  <2>6. timers' \in Nat /\ timers' > 0 /\ dirty' = TRUE /\ waiter' \in [Waiters -> WaiterStates]
    BY <1>3, NeedsFlushMeans DEF Kept
  <2>7. Typed'
    BY <1>1, <1>3, <2>5, <2>6, AppendMoves DEF Typed, store, counts
  <2>8. Contiguous'
    <3>1. DOMAIN changes' = 0 .. (n + 1) - 1
      BY <2>1, <2>3, <2>5
    <3> QED
      BY <3>1 DEF Contiguous
  <2>9. NoFileNoTrace' /\ RemovedIsGone'
    BY <1>1, <1>3 DEF NoFileNoTrace, RemovedIsGone
  <2>10. AllAgree'
    <3>1. PartOf(disk, changes) /\ PartOf(running.values, changes) /\ PartOf(toWrite, changes)
      BY <1>3 DEF AllAgree
    <3>2. PartOf(disk, changes') /\ PartOf(running.values, changes')
      BY <1>3, <2>2, <2>3, <2>4, <3>1, PartOfWith
    <3>3. PartOf(toWrite', changes')
      BY <1>3, <2>2, <2>4, <3>1, PartOfWith
    <3> QED
      BY <1>1, <3>2, <3>3 DEF AllAgree, store
  <2>11. Kept'
    BY <1>1, <1>3, <2>5, <2>6 DEF Kept, store
  <2>12. NotAhead'
    BY <1>1, <1>3, <2>5, AppendMoves DEF NotAhead
  <2>13. FlushOwes'
    <3>1. ASSUME NEW f \in Flushes, PartOf(flush[f].owed, changes)
          PROVE  PartOf(flush[f].owed, changes')
      <4>1. flush[f].owed \in Arrays
        BY DEF Typed, FlushStates
      <4> QED
        BY <1>3, <2>2, <2>3, <2>4, <3>1, <4>1, PartOfWith
    <3> QED
      BY <1>1, <3>1 DEF FlushOwes, store, counts
  <2> QED
    BY <2>7, <2>8, <2>9, <2>10, <2>11, <2>12, <2>13
<1> QED
  BY <1>2, <1>3 DEF Append

LEMMA CallFlushKeeps ==
  ASSUME IInv, CarefulCallers, NEW f \in Flushes, CallFlush(f)
  PROVE  IInv'
<1> USE DEF IInv
<1>1. /\ ready = "yes" /\ shouldExist /\ flush[f].pc = "idle"
      /\ flush' = [flush EXCEPT ![f] = [pc |-> "waiting", owed |-> changes]]
      /\ UNCHANGED <<memory, store, timers, running, append, waiter, counts>>
  BY DEF CallFlush
<1>2. /\ flush' \in [Flushes -> FlushStates]
      /\ flush'[f].pc = "waiting" /\ flush'[f].owed = changes
      /\ \A g \in Flushes \ {f} : flush'[g] = flush[g]
  BY <1>1, FlushMoves DEF Typed
<1>3. Typed'
  BY <1>1, <1>2 DEF Typed, memory, store, counts
<1>4. NoFileNoTrace'
  BY <1>1 DEF NoFileNoTrace, memory
<1>5. FlushOwes'
  BY <1>1, <1>2, PartOfItself DEF FlushOwes, memory, store, counts
<1> QED
  BY <1>1, <1>3, <1>4, <1>5
  DEF memory, store, counts, Contiguous, RemovedIsGone, AllAgree, Kept, NotAhead

\* What a flush takes is owed by it, and by no other.
LEMMA StartFlushKeeps ==
  ASSUME IInv, StartFlush
  PROVE  IInv'
<1> USE DEF IInv
<1>1. /\ running = NoFlush
      /\ UNCHANGED <<ready, shouldExist, changes, store, append, waiter, counts>>
  BY DEF StartFlush
<1>2. ASSUME NEW by \in Flushes \cup {Timer}, TakeAll(by),
             flush' \in [Flushes -> FlushStates],
             \A f \in Flushes :
               /\ flush'[f].owed = flush[f].owed
               /\ flush'[f].pc = IF f = by THEN "running" ELSE flush[f].pc
               /\ f = by => flush[f].pc = "waiting",
             timers' \in Nat,
             by = Timer \/ timers' = timers,
             ~ AtRest
      PROVE  IInv'
  <2>1. /\ running' \in [by : Flushes \cup {Timer, Nobody}, phase : FlushPhases, values : Arrays]
        /\ running'.by = by
        /\ toWrite' \in Arrays /\ dirty' \in BOOLEAN
        /\ shouldExist => running'.phase = "mkdir" /\ running'.values = toWrite
        /\ ~ shouldExist => running'.phase = "exists" /\ running'.values = Nothing
    BY <1>2, TakeAllIsTyped
  <2>2. shouldExist => toWrite' = Nothing /\ ~ dirty'
    BY <1>2 DEF TakeAll
  <2>3. Typed'
    BY <1>1, <1>2, <2>1 DEF Typed, store, counts
  <2>4. Contiguous' /\ NotAhead'
    BY <1>1 DEF Contiguous, NotAhead
  <2>5. NoFileNoTrace' /\ RemovedIsGone'
    BY <1>1, <1>2, <2>1 DEF NoFileNoTrace, RemovedIsGone, store, counts
  <2>6. AllAgree' /\ Kept'
    BY <1>1, <2>1, <2>2, PartOfItself, NothingMeans DEF AllAgree, Kept, NoFlush, store
  <2>7. \A f \in Flushes : flush'[f].pc = "running" <=> running'.by = f
    BY <1>1, <1>2, <2>1, CallersAssumption DEF FlushOwes, NoFlush
  <2>8. ASSUME deletes = 0, NEW f \in Flushes
        PROVE  /\ flush'[f].pc = "waiting" => PartOf(flush[f].owed, changes)
               /\ flush'[f].pc = "running" =>
                    \A r \in DOMAIN flush[f].owed :
                      \/ r \in DOMAIN disk /\ disk[r] = flush[f].owed[r]
                      \/ r \in DOMAIN running'.values /\ running'.values[r] = flush[f].owed[r]
               /\ flush'[f].pc = "done" => PartOf(flush[f].owed, disk)
    <3>1. CASE f # by
      BY <1>1, <1>2, <2>8, <3>1, CallersAssumption DEF FlushOwes, NoFlush
    <3>2. CASE f = by
      <4>1. flush[f].pc = "waiting" /\ PartOf(flush[f].owed, changes) /\ shouldExist
        BY <1>2, <2>8, <3>2 DEF FlushOwes, NoFileNoTrace
      <4>2. PartOf(disk, changes) /\ PartOf(toWrite, changes)
        BY <4>1 DEF AllAgree
      <4>3. \A r \in DOMAIN changes : r \in DOMAIN disk \/ r \in DOMAIN toWrite
        BY <1>1, <4>1, NothingMeans DEF Kept, NoFlush
      <4>4. running'.values = toWrite /\ flush'[f].pc = "running"
        BY <1>2, <2>1, <3>2, <4>1
      <4> QED
        BY <4>1, <4>2, <4>3, <4>4 DEF PartOf
    <3> QED
      BY <3>1, <3>2
  <2>9. FlushOwes'
    BY <1>1, <1>2, <2>7, <2>8 DEF FlushOwes, store, counts
  <2> QED
    BY <2>3, <2>4, <2>5, <2>6, <2>9
<1>3. CASE timers > 0 /\ timers' = timers - 1 /\ TakeAll(Timer) /\ UNCHANGED flush
  BY <1>2, <1>3, CallersAssumption DEF Typed, AtRest
<1>4. ASSUME NEW f \in Flushes, flush[f].pc = "waiting",
             flush' = [flush EXCEPT ![f].pc = "running"], TakeAll(f), UNCHANGED timers
      PROVE  IInv'
  <2>1. /\ flush' \in [Flushes -> FlushStates]
        /\ flush'[f].pc = "running" /\ flush'[f].owed = flush[f].owed
        /\ \A g \in Flushes \ {f} : flush'[g] = flush[g]
    <3>1. flush[f].owed \in Arrays
      BY DEF Typed, FlushStates
    <3> QED
      BY <1>4, <3>1, FlushMoves
  <2> QED
    BY <1>2, <1>4, <2>1 DEF Typed, AtRest
<1> QED
  BY <1>3, <1>4 DEF StartFlush

\* A step of a flush that ends its phase and nothing else.
LEMMA PhaseKeeps ==
  ASSUME IInv, NEW phase \in FlushPhases, running' = [running EXCEPT !.phase = phase],
         running.phase # "none",
         phase \in {"exists", "remove", "reset"} => ~ shouldExist,
         UNCHANGED <<memory, disk, timers, append, flush, waiter, counts>>
  PROVE  IInv'
<1> USE DEF IInv
<1>1. /\ running' \in [by : Flushes \cup {Timer, Nobody}, phase : FlushPhases, values : Arrays]
      /\ running'.phase = phase /\ running'.by = running.by /\ running'.values = running.values
  BY DEF Typed
<1>2. Typed'
  BY <1>1 DEF Typed, memory, counts
<1>3. NoFileNoTrace'
  BY <1>1 DEF NoFileNoTrace, AtRest, NoFlush, memory, counts
<1>4. RemovedIsGone'
  BY <1>1 DEF RemovedIsGone, memory
<1> QED
  BY <1>1, <1>2, <1>3, <1>4
  DEF Contiguous, AllAgree, Kept, NotAhead, FlushOwes, memory, counts

LEMMA WriteBlobKeeps ==
  ASSUME IInv, WriteBlob
  PROVE  IInv'
<1> USE DEF IInv
<1>1. PICK r \in DOMAIN running.values :
        /\ disk' = With(disk, r, running.values[r])
        /\ running' = [running EXCEPT !.values = Without(running.values, r)]
  BY DEF WriteBlob
<1>2. running.phase = "write" /\ UNCHANGED <<memory, directory, timers, append, flush, waiter, counts>>
  BY DEF WriteBlob
<1>3. /\ running.values \in Arrays /\ disk \in Arrays /\ r \in Nat
      /\ running.values[r] \in Values
  BY ArrayMeans DEF Typed
<1>4. /\ disk' \in Arrays
      /\ DOMAIN disk' = DOMAIN disk \cup {r}
      /\ disk'[r] = running.values[r]
      /\ \A q \in DOMAIN disk \ {r} : disk'[q] = disk[q]
  <2>1. ASSUME NEW v \in Values, disk' = With(disk, r, v)
        PROVE  /\ disk' \in Arrays /\ DOMAIN disk' = DOMAIN disk \cup {r} /\ disk'[r] = v
               /\ \A q \in DOMAIN disk \ {r} : disk'[q] = disk[q]
    <3>1. /\ With(disk, r, v) \in Arrays /\ DOMAIN With(disk, r, v) = DOMAIN disk \cup {r}
          /\ With(disk, r, v)[r] = v
          /\ \A q \in DOMAIN disk \ {r} : With(disk, r, v)[q] = disk[q]
      BY <1>3, WithMeans
    <3> QED
      BY <2>1, <3>1
  <2> QED
    BY <1>1, <1>3, <2>1
<1>5. /\ running' \in [by : Flushes \cup {Timer, Nobody}, phase : FlushPhases, values : Arrays]
      /\ running'.phase = "write" /\ running'.by = running.by
      /\ DOMAIN running'.values = DOMAIN running.values \ {r}
      /\ \A q \in DOMAIN running.values \ {r} : running'.values[q] = running.values[q]
  <2>1. /\ Without(running.values, r) \in Arrays
        /\ DOMAIN Without(running.values, r) = DOMAIN running.values \ {r}
        /\ \A q \in DOMAIN running.values \ {r} :
              Without(running.values, r)[q] = running.values[q]
    BY <1>3, WithoutMeans
  <2>2. running'.values = Without(running.values, r)
    BY <1>1 DEF Typed
  <2> QED
    BY <1>1, <1>2, <2>1, <2>2 DEF Typed
<1>6. Typed'
  BY <1>2, <1>4, <1>5 DEF Typed, memory, counts
<1>7. Contiguous' /\ NotAhead' /\ RemovedIsGone'
  BY <1>2, <1>5 DEF Contiguous, NotAhead, RemovedIsGone, memory
<1>8. ~ shouldExist => deletes # 0 /\ ready = "yes"
  BY <1>2 DEF NoFileNoTrace, AtRest, NoFlush
<1>9. NoFileNoTrace'
  BY <1>2, <1>8 DEF NoFileNoTrace, memory, counts
<1>10. AllAgree'
  BY <1>2, <1>4, <1>5 DEF AllAgree, PartOf, memory
<1>11. Kept'
  BY <1>2, <1>4, <1>5 DEF Kept, memory
<1>12. FlushOwes'
  <2>1. ASSUME deletes = 0, NEW q \in DOMAIN disk PROVE disk'[q] = disk[q]
    BY <1>4, <1>8, <2>1 DEF AllAgree, PartOf
  <2>2. ASSUME deletes = 0, NEW f \in Flushes
        PROVE  /\ flush[f].pc = "waiting" => PartOf(flush[f].owed, changes)
               /\ flush[f].pc = "running" =>
                    \A q \in DOMAIN flush[f].owed :
                      \/ q \in DOMAIN disk' /\ disk'[q] = flush[f].owed[q]
                      \/ q \in DOMAIN running'.values /\ running'.values[q] = flush[f].owed[q]
               /\ flush[f].pc = "done" => PartOf(flush[f].owed, disk')
    <3>1. flush[f].pc = "waiting" => PartOf(flush[f].owed, changes)
      BY <2>2 DEF FlushOwes
    <3>2. ASSUME flush[f].pc = "running", NEW q \in DOMAIN flush[f].owed
          PROVE  \/ q \in DOMAIN disk' /\ disk'[q] = flush[f].owed[q]
                 \/ q \in DOMAIN running'.values /\ running'.values[q] = flush[f].owed[q]
      <4>1. \/ q \in DOMAIN disk /\ disk[q] = flush[f].owed[q]
            \/ q \in DOMAIN running.values /\ running.values[q] = flush[f].owed[q]
        BY <2>2, <3>2 DEF FlushOwes
      <4> QED
        BY <1>4, <1>5, <2>1, <2>2, <4>1
    <3>3. flush[f].pc = "done" => PartOf(flush[f].owed, disk')
      <4>1. flush[f].pc = "done" => PartOf(flush[f].owed, disk)
        BY <2>2 DEF FlushOwes
      <4> QED
        BY <1>4, <2>1, <2>2, <4>1 DEF PartOf
    <3> QED
      BY <3>1, <3>2, <3>3
  <2>3. \A f \in Flushes : flush[f].pc = "running" <=> running'.by = f
    BY <1>5 DEF FlushOwes
  <2> QED
    BY <1>2, <2>2, <2>3 DEF FlushOwes, memory, counts
<1> QED
  BY <1>6, <1>7, <1>9, <1>10, <1>11, <1>12

\* A flush ends.  It has settled what it owed, unless the file is gone.
LEMMA ReleaseKeeps ==
  ASSUME IInv, Release, running.phase # "none",
         running.values = Nothing \/ ~ shouldExist,
         changes' = changes \/ changes' = Nothing, ~ shouldExist => changes' = Nothing,
         shouldExist => changes' = changes,
         UNCHANGED <<ready, shouldExist, toWrite, dirty, disk, timers, append, waiter, counts>>
  PROVE  IInv'
<1> USE DEF IInv
<1>1. /\ running' = NoFlush
      /\ running' \in [by : Flushes \cup {Timer, Nobody}, phase : FlushPhases, values : Arrays]
      /\ flush' \in [Flushes -> FlushStates]
      /\ \A f \in Flushes : /\ flush'[f].owed = flush[f].owed
                           /\ flush'[f].pc = IF f = running.by THEN "done" ELSE flush[f].pc
  BY ReleaseIsTyped DEF Release
<1>2. ~ shouldExist => deletes # 0 /\ ready = "yes"
  BY DEF NoFileNoTrace, AtRest, NoFlush
<1>3. changes' = changes
  BY DEF NoFileNoTrace
<1>4. Typed'
  BY <1>1, <1>3 DEF Typed, counts
<1>5. Contiguous' /\ NotAhead'
  BY <1>3 DEF Contiguous, NotAhead
<1>6. NoFileNoTrace' /\ RemovedIsGone'
  BY <1>1, <1>2, <1>3 DEF NoFileNoTrace, RemovedIsGone, NoFlush, counts
<1>7. AllAgree'
  BY <1>1, <1>3, PartOfItself DEF AllAgree, NoFlush
<1>8. Kept'
  BY <1>3, NothingMeans DEF Kept
<1>9. \A f \in Flushes : flush'[f].pc = "running" <=> running'.by = f
  BY <1>1, CallersAssumption DEF FlushOwes, NoFlush
<1>10. FlushOwes'
  BY <1>1, <1>2, <1>3, <1>9, NothingMeans DEF FlushOwes, PartOf, counts
<1> QED
  BY <1>4, <1>5, <1>6, <1>7, <1>8, <1>10

LEMMA RemoveBlobKeeps ==
  ASSUME IInv, RemoveBlob
  PROVE  IInv'
<1> USE DEF IInv
<1>1. PICK r \in DOMAIN disk : disk' = Without(disk, r)
  BY DEF RemoveBlob
<1>2. /\ running.phase = "remove" /\ ~ shouldExist
      /\ UNCHANGED <<memory, directory, timers, running, append, flush, waiter, counts>>
  BY DEF RemoveBlob, RemovedIsGone
<1>3. deletes # 0 /\ ready = "yes"
  BY <1>2 DEF NoFileNoTrace, AtRest, NoFlush
<1>4. disk' \in Arrays
  BY <1>1, WithoutMeans DEF Typed
<1>5. Typed'
  BY <1>2, <1>4 DEF Typed, memory, counts
<1> QED
  BY <1>2, <1>3, <1>5
  DEF Contiguous, NoFileNoTrace, RemovedIsGone, AllAgree, Kept, NotAhead, FlushOwes, memory, counts

\* The flush goes on.  What EndDelete resets is reset already.
LEMMA FlushStepKeeps ==
  ASSUME IInv, FlushStep
  PROVE  IInv' /\ (EndDelete => changes' = changes /\ shouldExist' = shouldExist)
<1> USE DEF IInv, FlushPhases
<1>1. running.phase \in {"exists", "remove", "reset"} => ~ shouldExist /\ changes = Nothing
  BY DEF RemovedIsGone, NoFileNoTrace
<1>2. EndDelete => changes' = changes /\ shouldExist' = shouldExist
  BY <1>1 DEF EndDelete, Typed
<1>3. CASE MakeDirectory
  <2>1. /\ running' = [running EXCEPT !.phase = "write"] /\ running.phase = "mkdir"
        /\ UNCHANGED <<memory, disk, timers, append, flush, waiter, counts>>
    BY <1>3 DEF MakeDirectory
  <2> QED
    BY <2>1, PhaseKeeps DEF memory
<1>4. CASE EndWrite
  <2>1. Release /\ running.phase = "write" /\ running.values = Nothing
    BY <1>4 DEF EndWrite
  <2>2. UNCHANGED <<ready, shouldExist, changes, toWrite, dirty, disk, timers, append, waiter, counts>>
    BY <1>4 DEF EndWrite, memory, store
  <2> QED
    BY <2>1, <2>2, ReleaseKeeps DEF NoFileNoTrace
<1>5. CASE CheckDirectory
  <2>1. /\ running.phase = "exists"
        /\ UNCHANGED <<ready, shouldExist, changes, toWrite, dirty, disk, timers, append, waiter, counts>>
    BY <1>5 DEF CheckDirectory, memory, store
  <2>2. CASE Release
    BY <1>1, <2>1, <2>2, ReleaseKeeps
  <2>3. CASE running' = [running EXCEPT !.phase = "remove"] /\ UNCHANGED flush
    BY <1>1, <2>1, <2>3, PhaseKeeps DEF memory
  <2> QED
    BY <1>5, <2>2, <2>3 DEF CheckDirectory
<1>6. CASE RemoveDirectory
  <2>1. /\ running' = [running EXCEPT !.phase = "reset"] /\ running.phase = "remove"
        /\ UNCHANGED <<memory, disk, timers, append, flush, waiter, counts>>
    BY <1>6 DEF RemoveDirectory
  <2> QED
    BY <1>1, <2>1, PhaseKeeps DEF memory
<1>7. CASE EndDelete
  <2>1. /\ Release /\ running.phase = "reset" /\ changes' = Nothing
        /\ UNCHANGED <<ready, shouldExist, toWrite, dirty, disk, timers, append, waiter, counts>>
    BY <1>2, <1>7 DEF EndDelete, store
  <2> QED
    BY <1>1, <2>1, ReleaseKeeps
<1> QED
  BY <1>2, <1>3, <1>4, <1>5, <1>6, <1>7, StartFlushKeeps, WriteBlobKeeps, RemoveBlobKeeps
  DEF FlushStep

LEMMA WaitersKeep ==
  ASSUME IInv, NEW w \in Waiters, CallWait(w) \/ Look(w) \/ Check(w) \/ TimeOut(w)
  PROVE  IInv' /\ UNCHANGED <<changes, shouldExist>>
<1> USE DEF IInv
<1>1. UNCHANGED <<memory, store, timers, running, append, flush, counts>>
  BY DEF CallWait, Look, Check, TimeOut
<1>2. waiter' \in [Waiters -> WaiterStates]
  <2>1. CASE CallWait(w)
    <3>1. PICK base \in DOMAIN changes :
            waiter' = [waiter EXCEPT ![w].pc = "loop", ![w].base = base]
      BY <2>1 DEF CallWait
    <3>2. base \in Nat
      BY ArrayMeans DEF Typed
    <3>3. ASSUME NEW s \in WaiterStates PROVE [s EXCEPT !.pc = "loop", !.base = base] \in WaiterStates
      BY <3>2 DEF WaiterStates
    <3>4. waiter' = [waiter EXCEPT ![w] = [waiter[w] EXCEPT !.pc = "loop", !.base = base]]
      BY <3>1 DEF Typed
    <3> QED
      BY <3>3, <3>4 DEF Typed
  <2>2. CASE Look(w)
    <3>1. PICK b \in BOOLEAN :
            \/ waiter' = [waiter EXCEPT ![w].pc = "looking", ![w].changed = b]
            \/ waiter' = [waiter EXCEPT ![w].pc = "failed"]
      BY <2>2 DEF Look, PathChanged
    <3>2. ASSUME NEW s \in WaiterStates
          PROVE  /\ [s EXCEPT !.pc = "looking", !.changed = b] \in WaiterStates
                 /\ [s EXCEPT !.pc = "failed"] \in WaiterStates
      BY DEF WaiterStates
    <3>3. \/ waiter' = [waiter EXCEPT ![w] = [waiter[w] EXCEPT !.pc = "looking", !.changed = b]]
          \/ waiter' = [waiter EXCEPT ![w] = [waiter[w] EXCEPT !.pc = "failed"]]
      BY <3>1 DEF Typed
    <3>4. PICK t \in WaiterStates : waiter' = [waiter EXCEPT ![w] = t]
      <4>1. waiter[w] \in WaiterStates
        BY DEF Typed
      <4> QED
        BY <3>2, <3>3, <4>1
    <3> QED
      BY <3>4 DEF Typed
  <2>3. CASE Check(w) \/ TimeOut(w)
    <3>1. PICK pc \in {"done", "waiting", "timedOut"} : waiter' = [waiter EXCEPT ![w].pc = pc]
      BY <2>3 DEF Check, TimeOut
    <3>2. ASSUME NEW s \in WaiterStates PROVE [s EXCEPT !.pc = pc] \in WaiterStates
      BY DEF WaiterStates
    <3> QED
      BY <3>1, <3>2 DEF Typed
  <2> QED
    BY <2>1, <2>2, <2>3
<1>3. Typed'
  BY <1>1, <1>2 DEF Typed, memory, store, counts
<1> QED
  BY <1>1, <1>3
  DEF memory, store, counts, Contiguous, NoFileNoTrace, AtRest, RemovedIsGone, AllAgree, Kept,
      NotAhead, FlushOwes

\* What is on disk stays there, and calls that were under way are no more.
LEMMA CrashKeeps ==
  ASSUME IInv, Crash
  PROVE  IInv'
<1> USE DEF IInv
<1>1. /\ ready' = "no" /\ shouldExist' = FALSE /\ changes' = Nothing /\ toWrite' = Nothing
      /\ dirty' = FALSE /\ timers' = 0 /\ running' = NoFlush
      /\ UNCHANGED <<directory, disk, deletes>>
  BY DEF Crash, store
<1>2. /\ append' \in [Calls ->
           [pc : {"idle", "called", "won", "lost", "failed", "crashed"}, revNum : Nat]]
      /\ \A c \in Calls : append'[c].pc # "called"
  BY DEF Crash, Typed
<1>3. ASSUME NEW f \in Flushes
      PROVE  /\ flush'[f] \in FlushStates /\ flush'[f].pc \notin {"waiting", "running"}
             /\ flush'[f].owed = flush[f].owed
             /\ flush'[f].pc = "done" => flush[f].pc = "done"
  <2>1. flush[f] \in FlushStates
    BY DEF Typed
  <2>2. flush'[f] = IF flush[f].pc \in {"waiting", "running"}
                      THEN [flush[f] EXCEPT !.pc = "crashed"] ELSE flush[f]
    BY DEF Crash
  <2>3. ASSUME NEW s \in FlushStates, NEW t, t = [s EXCEPT !.pc = "crashed"]
        PROVE  t \in FlushStates /\ t.pc = "crashed" /\ t.owed = s.owed
    BY <2>3 DEF FlushStates
  <2> QED
    BY <2>1, <2>2, <2>3
<1>4. waiter' \in [Waiters -> WaiterStates] /\ flush' \in [Flushes -> FlushStates]
  <2>1. ASSUME NEW w \in Waiters PROVE waiter'[w] \in WaiterStates
    <3>1. waiter[w] \in WaiterStates
      BY DEF Typed
    <3>2. waiter'[w] = IF waiter[w].pc \in {"loop", "looking", "waiting"}
                         THEN [waiter[w] EXCEPT !.pc = "crashed"] ELSE waiter[w]
      BY DEF Crash
    <3>3. ASSUME NEW s \in WaiterStates PROVE [s EXCEPT !.pc = "crashed"] \in WaiterStates
      BY DEF WaiterStates
    <3> QED
      BY <3>1, <3>2, <3>3
  <2> QED
    BY <1>3, <2>1 DEF Crash
<1>5. Nothing \in Arrays
      /\ NoFlush \in [by : Flushes \cup {Timer, Nobody}, phase : FlushPhases, values : Arrays]
  BY NothingMeans DEF NoFlush, FlushPhases
<1>6. Typed'
  BY <1>1, <1>2, <1>4, <1>5 DEF Typed
<1>7. Contiguous'
  <2>1. DOMAIN changes' = 0 .. 0 - 1
    BY <1>1, NothingMeans
  <2> QED
    BY <2>1 DEF Contiguous
<1>8. NoFileNoTrace' /\ RemovedIsGone' /\ AllAgree' /\ Kept' /\ NotAhead'
  BY <1>1, <1>2, <1>3
  DEF NoFileNoTrace, AtRest, RemovedIsGone, AllAgree, Kept, NotAhead, NoFlush
<1>9. FlushOwes'
  BY <1>1, <1>3, CallersAssumption DEF FlushOwes, NoFlush
<1> QED
  BY <1>6, <1>7, <1>8, <1>9

LEMMA Inductive == CarefulCallers /\ IInv /\ [Next]_vars => IInv'
<1> SUFFICES ASSUME CarefulCallers, IInv, [Next]_vars PROVE IInv'
  OBVIOUS
<1>1. ASSUME NEW c \in Calls, CallAppend(c) \/ Append(c) PROVE IInv'
  BY <1>1, CallAppendKeeps, AppendKeeps
<1>2. ASSUME NEW f \in Flushes, CallFlush(f) PROVE IInv'
  BY <1>2, CallFlushKeeps
<1>3. ASSUME NEW w \in Waiters, CallWait(w) \/ Look(w) \/ Check(w) \/ TimeOut(w) PROVE IInv'
  BY <1>3, WaitersKeep
<1>4. CASE UNCHANGED vars
  <2>1. UNCHANGED <<ready, shouldExist, changes, toWrite, dirty, directory, disk, timers, running,
                    append, flush, waiter, crashes, deletes>>
    BY <1>4 DEF vars, memory, store, counts
  <2>2. Typed'
    BY <2>1 DEF Typed, IInv
  <2> QED
    BY <2>1, <2>2 DEF IInv, Contiguous, NoFileNoTrace, AtRest, RemovedIsGone, AllAgree, Kept,
                      NotAhead, FlushOwes
<1> QED
  BY <1>1, <1>2, <1>3, <1>4, ReadKeeps, CreateKeeps, DeleteKeeps, FlushStepKeeps, CrashKeeps
  DEF Next

LEMMA AlwaysIInv == CarefulCallers /\ Spec => []IInv
<1>1. CASE CarefulCallers
  <2>1. IInv /\ [Next]_vars => IInv'
    BY <1>1, Inductive
  <2> QED
    BY <2>1, InitIsGood, PTL DEF Spec
<1>2. CASE ~ CarefulCallers
  BY <1>2
<1> QED
  BY <1>1, <1>2

-----------------------------------------------------------------------------
(* What follows from the invariant                                         *)

LEMMA NothingForgottenNow == IInv => NothingForgotten
<1> SUFFICES ASSUME IInv, shouldExist
             PROVE  /\ DOMAIN changes = 0..(Length(changes) - 1)
                    /\ \A r \in DOMAIN disk : r \in DOMAIN changes /\ disk[r] = changes[r]
                    /\ \A r \in DOMAIN changes :
                         \/ r \in DOMAIN disk
                         \/ r \in DOMAIN running.values /\ running.values[r] = changes[r]
                         \/ r \in DOMAIN toWrite /\ toWrite[r] = changes[r] /\ timers > 0
  BY DEF NothingForgotten
<1>1. DOMAIN changes = 0..(Length(changes) - 1)
  BY LengthMeans DEF IInv, Contiguous, Typed
<1> QED
  BY <1>1 DEF IInv, AllAgree, Kept, PartOf

(* However appends, flushes, timers, crashes and removals interleave: while *)
(* the file exists, everything that LocalFile holds in memory is on disk,   *)
(* being written or waiting for a timer that is set, and nothing else is    *)
(* on disk.                                                                 *)
THEOREM AlwaysNothingForgotten == CarefulCallers /\ Spec => []NothingForgotten
BY AlwaysIInv, NothingForgottenNow, PTL

LEMMA FlushSettlesNow == IInv => FlushSettles
BY DEF IInv, FlushOwes, PartOf, FlushSettles

(* What was in the file when flush() was called is on disk once the call   *)
(* returned, and no crash takes it away.                                   *)
THEOREM AlwaysFlushSettles == CarefulCallers /\ Spec => []FlushSettles
BY AlwaysIInv, FlushSettlesNow, PTL

LEMMA ModificationWakes ==
  ASSUME CarefulCallers, IInv, [Next]_vars, NEW w \in Waiters,
         waiter[w].pc = "waiting", waiter'[w].pc = "waiting"
  PROVE  changes' = changes /\ shouldExist' = shouldExist
<1>1. Typed /\ ~ SetCondition
  BY SetConditionWakes DEF IInv
<1>2. ~ Crash
  <2>1. Crash => waiter'[w] = [waiter[w] EXCEPT !.pc = "crashed"]
    BY DEF Crash
  <2>2. waiter[w] \in WaiterStates
    BY <1>1 DEF Typed
  <2> QED
    BY <2>1, <2>2 DEF WaiterStates
<1>3. ASSUME \/ Read \/ Create \/ Delete
             \/ \E c \in Calls : CallAppend(c) \/ Append(c)
             \/ \E f \in Flushes : CallFlush(f)
             \/ UNCHANGED vars
      PROVE  changes' = changes /\ shouldExist' = shouldExist
  BY <1>1, <1>3
  DEF Read, Create, Delete, CallAppend, Append, CallFlush, StorageNeedsFlush, vars, memory
<1>4. CASE FlushStep
  <2>1. CASE EndDelete
    BY <1>4, <2>1, FlushStepKeeps
  <2>2. CASE ~ EndDelete
    BY <1>4, <2>2 DEF FlushStep, StartFlush, MakeDirectory, WriteBlob, EndWrite, CheckDirectory,
                      RemoveBlob, RemoveDirectory, memory
  <2> QED
    BY <2>1, <2>2
<1> QED
  BY <1>2, <1>3, <1>4, WaitersKeep DEF Next

(* Nobody who waits for a path to change sleeps through a modification of  *)
(* the file: the ones that wake nobody, like the reset at the end of a     *)
(* removal, change nothing.                                                *)
THEOREM AlwaysModificationsWake == CarefulCallers /\ Spec => ModificationsWake
<1>1. CASE CarefulCallers
  <2>1. IInv /\ [Next]_vars =>
          [\A w \in Waiters : waiter[w].pc = "waiting" /\ waiter'[w].pc = "waiting" =>
             changes' = changes /\ shouldExist' = shouldExist]_vars
    BY <1>1, ModificationWakes
  <2>2. Spec => []IInv
    BY <1>1, AlwaysIInv
  <2> QED
    BY <2>1, <2>2, PTL DEF Spec, ModificationsWake
<1>2. CASE ~ CarefulCallers
  BY <1>2
<1> QED
  BY <1>1, <1>2
=============================================================================
