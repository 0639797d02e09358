---------------------------- MODULE CaretsProofs ----------------------------
(***************************************************************************)
(* Proofs about Carets: whoever holds a snapshot of a revision holds the   *)
(* contents of that revision, and only idle carets go.                     *)
(***************************************************************************)
EXTENDS Carets, Inductions

-----------------------------------------------------------------------------
(* Carets, contents and deltas whose times are times *)

Timed == {x \in Carets : x.lastActive \in Nat}
Contents == UNION {[D -> Timed] : D \in SUBSET Ids}

TimedFields == {f \in PartialCarets : "lastActive" \in DOMAIN f => f.lastActive \in Nat}
TimedOps == {Add(x) : x \in Timed} \cup {Delete} \cup {Set(f) : f \in TimedFields}
Deltas == UNION {[D -> TimedOps] : D \in SUBSET Ids}

-----------------------------------------------------------------------------
(* The inductive invariant *)

\* What the part was at each revision, and what of that is in the file.
FileTrue ==
  /\ now \in 0..MaxNow /\ revNum \in Nat
  /\ history \in [0..revNum -> Contents] /\ history[0] = NoCarets
  /\ DOMAIN changes \subseteq 0..revNum
  /\ changes = [r \in DOMAIN changes |-> changes[r]]
  /\ \A r \in DOMAIN changes :
       /\ changes[r] \in Deltas
       /\ r > 0 => history[r] = ComposeCarets(history[r - 1], changes[r])
  /\ stored.revNum \in 0..revNum
  /\ stored # NoSnapshot => stored.contents = history[stored.revNum]

\* What is in memory, fulfilled or rejected, and what is to be written.
CacheTrue ==
  /\ DOMAIN cache \subseteq 0..revNum
  /\ \A r \in DOMAIN cache :
       /\ cache[r] \in [rejected : BOOLEAN, contents : Contents]
       /\ ~ cache[r].rejected => cache[r].contents = history[r]

SavesTrue ==
  /\ saves \subseteq [revNum : 0..revNum, phase : {"get", "write"}, contents : Contents]
  /\ \A s \in saves : s.phase = "write" => s.contents = history[s.revNum]

\* The carets that are in one and not in the other have been idle at that time.
LostIdle(old, new, time) ==
  \A id \in DOMAIN old \ DOMAIN new : old[id].lastActive + MaxIdle < time

Making == {"attempt", "append", "result"}

\* A change in the making leads from the contents it was made for to those the
\* caller expects, and takes out nothing but idle carets; so does what is
\* appended for it.
MakesTrue(local, hist, rev, time) ==
  /\ local.change.revNum \in 1..rev + 1
  /\ local.want >= local.change.revNum - 1
  /\ local.expected \in Contents
  /\ local.expected = ComposeCarets(hist[local.change.revNum - 1], local.change.delta)
  /\ LostIdle(hist[local.change.revNum - 1], local.expected, time)

AppendsTrue(local, hist, rev, time) ==
  LET old == hist[local.toAppend.revNum - 1]
      new == ComposeCarets(old, local.toAppend.delta)
  IN  /\ local.toAppend.revNum \in 1..rev + 1
      /\ new \in Contents
      /\ LostIdle(old, new, time)

PcsOf(c) ==
  IF c = Viewer THEN {"idle", "view", "after", "diff", "trouble", "failed"}
  ELSE IF c = Cleaner THEN {"idle", "clean", "done", "failed"} \cup Making
  ELSE {"idle", "look", "introduce", "prepare", "done", "failed"} \cup Making

ChangesUpTo(rev) == [revNum : 0..rev, delta : Deltas]

\* One call, seen from the contents so far, the time, and the watcher's view.
Fits(c, local, hist, rev, time, seen) ==
  /\ local \in [pc : PcsOf(c), want : 0..rev, change : ChangesUpTo(rev + 1),
                expected : Contents, toAppend : ChangesUpTo(rev + 1),
                spot : Spots \cup {Nowhere}]
  /\ c \notin Ids => local.spot = Nowhere
  /\ local.pc \in Making => MakesTrue(local, hist, rev, time)
  /\ local.pc = "append" => AppendsTrue(local, hist, rev, time)
  /\ local.pc \in {"after", "diff"} => seen # NothingSeen
  /\ local.pc = "diff" => local.change.revNum = seen.revNum

CallsTrue ==
  /\ DOMAIN call = Callers
  /\ \A c \in Callers : Fits(c, call[c], history, revNum, now, view)

\* What the watcher has seen; the overlay is one snapshot behind at most.
ViewTrue ==
  /\ view.revNum \in 0..revNum
  /\ Seen => view.contents = history[view.revNum]
  /\ overlay.started => Seen
  /\ overlay.revNum \in 0..revNum
  /\ overlay.contents \in Contents
  /\ overlay.started => overlay.contents = history[overlay.revNum]
  /\ avatars = DOMAIN overlay.contents
  /\ call[Viewer].pc # "idle" /\ Seen => CaughtUp

\* The screen, where it matters: if nobody watches yet or the overlay has caught
\* up, and when the overlay would leave it as it is.
ScreenTrue ==
  /\ ~ Seen \/ CaughtUp => drawn = Others(overlay.contents)
  /\ Seen /\ ~ NeedsUpdate(DiffCarets(overlay.contents, view.contents))
       => drawn = Others(view.contents)

Core == FileTrue /\ CacheTrue /\ SavesTrue /\ CallsTrue /\ ViewTrue /\ ScreenTrue

\* What the uploading clients remember.
TrackersTrue == tracker \in [Ids -> [latestCaret : Spots \cup {Nowhere}, updating : BOOLEAN]]

IInv == Core /\ TrackersTrue

\* The variables of the client that watches.
watching == <<view, overlay, avatars, drawn>>

-----------------------------------------------------------------------------
(* The algebra of carets *)

LEMMA ContentsShape ==
  ASSUME NEW c \in Contents
  PROVE  /\ DOMAIN c \in SUBSET Ids
         /\ c \in [DOMAIN c -> Timed]
         /\ c = [id \in DOMAIN c |-> c[id]]
BY DEF Contents

LEMMA DeltaShape ==
  ASSUME NEW d \in Deltas
  PROVE  /\ DOMAIN d \in SUBSET Ids
         /\ d \in [DOMAIN d -> TimedOps]
         /\ d = [id \in DOMAIN d |-> d[id]]
BY DEF Deltas

LEMMA IsContents ==
  ASSUME NEW D \in SUBSET Ids, NEW c \in [D -> Timed]
  PROVE  c \in Contents
BY DEF Contents

LEMMA IsDelta ==
  ASSUME NEW D \in SUBSET Ids, NEW d \in [D -> TimedOps]
  PROVE  d \in Deltas
BY DEF Deltas

LEMMA OpShape ==
  ASSUME NEW op \in TimedOps
  PROVE  \/ op = Delete /\ op.op = "delete"
         \/ op = Add(op.fields) /\ op.op = "add" /\ op.fields \in Timed
         \/ op = Set(op.fields) /\ op.op = "setField" /\ op.fields \in TimedFields
BY DEF TimedOps, Add, Delete, Set

LEMMA IsOp ==
  /\ Delete \in TimedOps /\ Delete.op = "delete"
  /\ \A x \in Timed : Add(x) \in TimedOps /\ Add(x).op = "add" /\ Add(x).fields = x
  /\ \A f \in TimedFields : Set(f) \in TimedOps /\ Set(f).op = "setField" /\ Set(f).fields = f
BY DEF TimedOps, Add, Delete, Set

\* A delta never makes what is no contents.
LEMMA NoContents == NotCarets \notin Contents /\ NoCarets \in Contents /\ NoCarets \in Deltas
<1>1. Contents \subseteq UNION {[D -> [Fields -> FieldValues]] : D \in SUBSET Ids}
  BY DEF Contents, Timed, Carets
<1>2. NotCarets \notin Contents
  BY <1>1, NotCaretsAssumption
<1>3. NoCarets \in [{} -> Timed] /\ NoCarets \in [{} -> TimedOps] /\ {} \in SUBSET Ids
  BY DEF NoCarets
<1> QED
  BY <1>2, <1>3, IsContents, IsDelta

LEMMA UpdatedCaret ==
  ASSUME NEW x \in Timed, NEW f \in TimedFields
  PROVE  Updated(x, f) \in Timed
<1>1. PICK F \in SUBSET Fields : f \in [F -> FieldValues]
  BY DEF TimedFields, PartialCarets
<1>2. x \in [Fields -> FieldValues] /\ x.lastActive \in Nat /\ "lastActive" \in Fields
  BY FieldsAssumption DEF Timed, Carets
<1>3. Updated(x, f) = [k \in Fields |-> IF k \in F THEN f[k] ELSE x[k]]
  BY <1>1, <1>2 DEF Updated
<1>4. Updated(x, f) \in [Fields -> FieldValues]
  BY <1>1, <1>2, <1>3
<1>5. Updated(x, f).lastActive \in Nat
  BY <1>1, <1>2, <1>3 DEF TimedFields
<1> QED
  BY <1>4, <1>5 DEF Timed, Carets

LEMMA UpdatedFields ==
  ASSUME NEW e \in TimedFields, NEW f \in TimedFields
  PROVE  Updated(e, f) \in TimedFields
<1>1. PICK E \in SUBSET Fields : e \in [E -> FieldValues]
  BY DEF TimedFields, PartialCarets
<1>2. PICK F \in SUBSET Fields : f \in [F -> FieldValues]
  BY DEF TimedFields, PartialCarets
<1>3. Updated(e, f) = [k \in E \cup F |-> IF k \in F THEN f[k] ELSE e[k]]
  BY <1>1, <1>2 DEF Updated
<1>4. Updated(e, f) \in [E \cup F -> FieldValues] /\ E \cup F \in SUBSET Fields
  BY <1>1, <1>2, <1>3
<1>5. "lastActive" \in DOMAIN Updated(e, f) => Updated(e, f).lastActive \in Nat
  BY <1>1, <1>2, <1>3 DEF TimedFields
<1> QED
  BY <1>4, <1>5 DEF TimedFields, PartialCarets

\* Updating twice is updating with both.
LEMMA UpdatedTwice ==
  ASSUME NEW x, NEW e, NEW f
  PROVE  Updated(Updated(x, e), f) = Updated(x, Updated(e, f))
<1> DEFINE a == Updated(Updated(x, e), f)
           b == Updated(x, Updated(e, f))
<1>1. /\ a = [k \in DOMAIN a |-> a[k]] /\ b = [k \in DOMAIN b |-> b[k]]
      /\ DOMAIN a = (DOMAIN x \cup DOMAIN e) \cup DOMAIN f
      /\ DOMAIN b = DOMAIN x \cup (DOMAIN e \cup DOMAIN f)
  BY DEF Updated
<1>2. \A k \in DOMAIN a : a[k] = b[k]
  BY DEF Updated
<1>3. DOMAIN a = DOMAIN b
  BY <1>1
<1> HIDE DEF a, b
<1> QED
  BY <1>1, <1>2, <1>3 DEF a, b

\* What composing gives, if it gives contents.
LEMMA Composing ==
  ASSUME NEW c \in Contents, NEW d \in Deltas, Applicable(c, d)
  PROVE  /\ ComposeCarets(c, d) \in Contents
         /\ DOMAIN ComposeCarets(c, d) = (DOMAIN c \cup DOMAIN d) \ Deleted(d)
         /\ \A id \in DOMAIN ComposeCarets(c, d) :
              ComposeCarets(c, d)[id] =
                IF id \notin DOMAIN d THEN c[id]
                ELSE IF d[id].op = "add" THEN d[id].fields
                ELSE Updated(c[id], d[id].fields)
<1> DEFINE D == (DOMAIN c \cup DOMAIN d) \ Deleted(d)
           new(id) == IF id \notin DOMAIN d THEN c[id]
                      ELSE IF d[id].op = "add" THEN d[id].fields
                      ELSE Updated(c[id], d[id].fields)
<1>1. c # NotCarets
  BY NoContents
<1>2. ComposeCarets(c, d) = [id \in D |-> new(id)]
  BY <1>1 DEF ComposeCarets
<1>3. ASSUME NEW id \in D PROVE new(id) \in Timed
  <2>1. CASE id \notin DOMAIN d
    BY <2>1, ContentsShape
  <2>2. CASE id \in DOMAIN d
    <3>1. d[id] \in TimedOps /\ d[id].op # "delete"
      BY <2>2, DeltaShape DEF Deleted
    <3>2. CASE d[id].op = "add"
      BY <2>2, <3>1, <3>2, OpShape
    <3>3. CASE d[id].op # "add"
      <4>1. d[id].op = "setField" /\ d[id].fields \in TimedFields
        BY <3>1, <3>3, OpShape
      <4>2. id \in DOMAIN c
        BY <2>2, <4>1 DEF Applicable
      <4>3. c[id] \in Timed
        BY <4>2, ContentsShape
      <4> QED
        BY <2>2, <3>3, <4>1, <4>3, UpdatedCaret
    <3> QED
      BY <3>2, <3>3
  <2> QED
    BY <2>1, <2>2
<1>4. D \in SUBSET Ids
  BY ContentsShape, DeltaShape
<1> HIDE DEF D, new
<1>5. [id \in D |-> new(id)] \in [D -> Timed]
  BY <1>3
<1>6. ComposeCarets(c, d) \in Contents
  BY <1>2, <1>4, <1>5, IsContents
<1>7. /\ DOMAIN ComposeCarets(c, d) = D
      /\ \A id \in D : ComposeCarets(c, d)[id] = new(id)
  BY <1>2
<1> QED
  BY <1>6, <1>7 DEF D, new

\* Composing gives contents, or what stands for none; only contents give contents.
LEMMA ComposingEither ==
  ASSUME NEW c \in Contents \cup {NotCarets}, NEW d \in Deltas
  PROVE  /\ ComposeCarets(c, d) \in Contents \cup {NotCarets}
         /\ ComposeCarets(c, d) # NotCarets => c \in Contents /\ Applicable(c, d)
<1>1. CASE c \in Contents /\ Applicable(c, d)
  BY <1>1, Composing
<1>2. CASE ~ (c \in Contents /\ Applicable(c, d))
  <2>1. ComposeCarets(c, d) = NotCarets
    BY <1>2 DEF ComposeCarets
  <2> QED
    BY <2>1
<1> QED
  BY <1>1, <1>2

\* A diff leads from the one to the other contents.
LEMMA Diffing ==
  ASSUME NEW old \in Contents, NEW new \in Contents
  PROVE  /\ DiffCarets(old, new) \in Deltas
         /\ ComposeCarets(old, DiffCarets(old, new)) = new
         /\ Deleted(DiffCarets(old, new)) = DOMAIN old \ DOMAIN new
<1> DEFINE d == DiffCarets(old, new)
           changed == {id \in DOMAIN old \cap DOMAIN new : old[id] # new[id]}
           D == changed \cup (DOMAIN new \ DOMAIN old) \cup (DOMAIN old \ DOMAIN new)
<1>1. /\ DOMAIN d = D
      /\ \A id \in D : d[id] = IF id \in changed THEN Set(DiffFields(old[id], new[id]))
                               ELSE IF id \in DOMAIN new THEN Add(new[id]) ELSE Delete
      /\ d = [id \in D |-> d[id]]
  BY DEF DiffCarets
<1> HIDE DEF d
<1>2. ASSUME NEW x \in Timed, NEW y \in Timed
      PROVE  DiffFields(x, y) \in TimedFields /\ Updated(x, DiffFields(x, y)) = y
  <2>1. x \in [Fields -> FieldValues] /\ y \in [Fields -> FieldValues] /\ y.lastActive \in Nat
    BY DEF Timed, Carets
  <2> DEFINE F == {f \in Fields : x[f] # y[f]}
  <2>2. DiffFields(x, y) = [f \in F |-> y[f]]
    BY DEF DiffFields
  <2>3. DiffFields(x, y) \in [F -> FieldValues] /\ F \in SUBSET Fields
    BY <2>1, <2>2
  <2>4. DiffFields(x, y) \in TimedFields
    BY <2>1, <2>2, <2>3 DEF TimedFields, PartialCarets
  <2>5. Updated(x, DiffFields(x, y)) = [k \in Fields |-> IF k \in F THEN y[k] ELSE x[k]]
    BY <2>1, <2>2 DEF Updated
  <2>6. \A k \in Fields : (IF k \in F THEN y[k] ELSE x[k]) = y[k]
    OBVIOUS
  <2> HIDE DEF F
  <2> QED
    BY <2>1, <2>4, <2>5, <2>6
<1>3. /\ \A id \in DOMAIN old : old[id] \in Timed
      /\ \A id \in DOMAIN new : new[id] \in Timed
      /\ DOMAIN old \in SUBSET Ids /\ DOMAIN new \in SUBSET Ids
  BY ContentsShape
<1>4. ASSUME NEW id \in D
      PROVE  /\ d[id] \in TimedOps
             /\ id \in changed => /\ d[id].op = "setField"
                                  /\ Updated(old[id], d[id].fields) = new[id]
             /\ id \notin changed /\ id \in DOMAIN new =>
                  d[id].op = "add" /\ d[id].fields = new[id]
             /\ id \notin changed /\ id \notin DOMAIN new => d[id].op = "delete"
  <2>1. CASE id \in changed
    <3>1. old[id] \in Timed /\ new[id] \in Timed
      BY <1>3, <2>1
    <3>2. d[id] = Set(DiffFields(old[id], new[id]))
      BY <1>1, <2>1
    <3> QED
      BY <1>2, <2>1, <3>1, <3>2, IsOp
  <2>2. CASE id \notin changed /\ id \in DOMAIN new
    <3>1. d[id] = Add(new[id]) /\ new[id] \in Timed
      BY <1>1, <1>3, <2>2
    <3> QED
      BY <2>2, <3>1, IsOp
  <2>3. CASE id \notin changed /\ id \notin DOMAIN new
    <3>1. d[id] = Delete
      BY <1>1, <2>3
    <3> QED
      BY <2>3, <3>1, IsOp
  <2> QED
    BY <2>1, <2>2, <2>3
<1>5. d \in Deltas
  <2>1. D \in SUBSET Ids
    BY <1>3
  <2> HIDE DEF D
  <2>2. d \in [D -> TimedOps]
    BY <1>1, <1>4
  <2> QED
    BY <2>1, <2>2, IsDelta
<1>6. Deleted(d) = DOMAIN old \ DOMAIN new
  <2>1. \A id \in D : d[id].op = "delete" <=> id \notin changed /\ id \notin DOMAIN new
    BY <1>4
  <2> QED
    BY <1>1, <2>1 DEF Deleted
<1>7. Applicable(old, d)
  <2>1. \A id \in D : d[id].op = "setField" => id \in changed
    BY <1>4
  <2> QED
    BY <1>1, <2>1 DEF Applicable
<1> DEFINE c == ComposeCarets(old, d)
<1>8. /\ c \in Contents /\ DOMAIN c = (DOMAIN old \cup D) \ (DOMAIN old \ DOMAIN new)
      /\ \A id \in DOMAIN c : c[id] = IF id \notin D THEN old[id]
                                      ELSE IF d[id].op = "add" THEN d[id].fields
                                      ELSE Updated(old[id], d[id].fields)
  <2>1. DOMAIN d = D
    BY <1>1
  <2> HIDE DEF D, changed
  <2>2. /\ c \in Contents /\ DOMAIN c = (DOMAIN old \cup DOMAIN d) \ Deleted(d)
        /\ \A id \in DOMAIN c : c[id] = IF id \notin DOMAIN d THEN old[id]
                                        ELSE IF d[id].op = "add" THEN d[id].fields
                                        ELSE Updated(old[id], d[id].fields)
    BY <1>5, <1>7, Composing
  <2> HIDE DEF c
  <2> QED
    BY <1>6, <2>1, <2>2
<1> HIDE DEF c
<1>9. DOMAIN c = DOMAIN new
  BY <1>8
<1>10. ASSUME NEW id \in DOMAIN new PROVE c[id] = new[id]
  BY <1>4, <1>8, <1>9
<1>11. c = new
  <2>1. c = [id \in DOMAIN c |-> c[id]] /\ new = [id \in DOMAIN new |-> new[id]]
    BY <1>8, ContentsShape
  <2> QED
    BY <1>9, <1>10, <2>1
<1> QED
  BY <1>5, <1>6, <1>11 DEF c, d

LEMMA ThenTyped ==
  ASSUME NEW op \in TimedOps, NEW later \in TimedOps
  PROVE  Then(op, later) \in TimedOps
<1>1. CASE later.op # "setField"
  BY <1>1 DEF Then
<1>2. CASE later.op = "setField" /\ op.op = "delete"
  BY <1>2 DEF Then
<1>3. CASE later.op = "setField" /\ op.op # "delete"
  <2> DEFINE fields == Updated(op.fields, later.fields)
  <2>1. Then(op, later) = [op |-> op.op, fields |-> fields]
    BY <1>3 DEF Then
  <2>2. later.fields \in TimedFields
    BY <1>3, OpShape
  <2>3. CASE op.op = "add"
    <3>1. op.fields \in Timed
      BY <2>3, OpShape
    <3>2. fields \in Timed
      BY <2>2, <3>1, UpdatedCaret
    <3> QED
      BY <2>1, <2>3, <3>2 DEF TimedOps, Add
  <2>4. CASE op.op = "setField"
    <3>1. op.fields \in TimedFields
      BY <2>4, OpShape
    <3>2. fields \in TimedFields
      BY <2>2, <3>1, UpdatedFields
    <3> QED
      BY <2>1, <2>4, <3>2 DEF TimedOps, Set
  <2> QED
    BY <1>3, <2>3, <2>4, OpShape
<1> QED
  BY <1>1, <1>2, <1>3

LEMMA ComposedDeltas ==
  ASSUME NEW d \in Deltas, NEW e \in Deltas
  PROVE  /\ ComposeCaretDeltas(d, e) \in Deltas
         /\ DOMAIN ComposeCaretDeltas(d, e) = DOMAIN d \cup DOMAIN e
         /\ \A id \in DOMAIN d \cup DOMAIN e :
              ComposeCaretDeltas(d, e)[id] = IF id \notin DOMAIN e THEN d[id]
                                             ELSE IF id \notin DOMAIN d THEN e[id]
                                             ELSE Then(d[id], e[id])
<1> DEFINE D == DOMAIN d \cup DOMAIN e
           op(id) == IF id \notin DOMAIN e THEN d[id]
                     ELSE IF id \notin DOMAIN d THEN e[id]
                     ELSE Then(d[id], e[id])
<1>1. ComposeCaretDeltas(d, e) = [id \in D |-> op(id)]
  BY DEF ComposeCaretDeltas
<1>2. ASSUME NEW id \in D PROVE op(id) \in TimedOps
  <2>1. id \in DOMAIN d => d[id] \in TimedOps
    BY DeltaShape
  <2>2. id \in DOMAIN e => e[id] \in TimedOps
    BY DeltaShape
  <2> QED
    BY <2>1, <2>2, ThenTyped
<1>3. D \in SUBSET Ids
  BY DeltaShape
<1> HIDE DEF D, op
<1>4. [id \in D |-> op(id)] \in [D -> TimedOps]
  BY <1>2
<1>5. ComposeCaretDeltas(d, e) \in Deltas
  BY <1>1, <1>3, <1>4, IsDelta
<1>6. DOMAIN ComposeCaretDeltas(d, e) = D /\ \A id \in D : ComposeCaretDeltas(d, e)[id] = op(id)
  BY <1>1
<1> QED
  BY <1>5, <1>6 DEF D, op

\* What is there after two deltas that can be applied one after the other is
\* what the two composed lead to.
LEMMA ComposedAtOnce ==
  ASSUME NEW c \in Contents, NEW d \in Deltas, NEW e \in Deltas,
         Applicable(c, d), Applicable(ComposeCarets(c, d), e)
  PROVE  ComposeCarets(c, ComposeCaretDeltas(d, e)) = ComposeCarets(ComposeCarets(c, d), e)
<1>1. PICK m \in Contents : m = ComposeCarets(c, d)
  BY Composing
<1>2. PICK b \in Deltas :
        /\ b = ComposeCaretDeltas(d, e)
        /\ DOMAIN b = DOMAIN d \cup DOMAIN e
        /\ \A id \in DOMAIN d \cup DOMAIN e :
             b[id] = IF id \notin DOMAIN e THEN d[id]
                     ELSE IF id \notin DOMAIN d THEN e[id] ELSE Then(d[id], e[id])
  BY ComposedDeltas
<1>3. /\ DOMAIN b = DOMAIN d \cup DOMAIN e
      /\ \A id \in DOMAIN b : b[id] = IF id \notin DOMAIN e THEN d[id]
                                      ELSE IF id \notin DOMAIN d THEN e[id]
                                      ELSE Then(d[id], e[id])
  BY <1>2
<1>4. /\ DOMAIN m = (DOMAIN c \cup DOMAIN d) \ Deleted(d)
      /\ \A id \in DOMAIN m : m[id] = IF id \notin DOMAIN d THEN c[id]
                                      ELSE IF d[id].op = "add" THEN d[id].fields
                                      ELSE Updated(c[id], d[id].fields)
  BY <1>1, Composing
<1>5. Applicable(m, e)
  BY <1>1
<1>6. ASSUME NEW id \in DOMAIN d \cap DOMAIN e
      PROVE  \/ /\ e[id].op # "setField" /\ b[id] = e[id]
             \/ /\ e[id].op = "setField" /\ d[id].op # "delete" /\ id \in DOMAIN m
                /\ b[id].op = d[id].op
                /\ b[id].fields = Updated(d[id].fields, e[id].fields)
  <2>1. b[id] = Then(d[id], e[id])
    BY <1>3
  <2>2. CASE e[id].op # "setField"
    BY <2>1, <2>2 DEF Then
  <2>3. CASE e[id].op = "setField"
    <3>1. id \in DOMAIN m
      BY <1>5, <2>3 DEF Applicable
    <3>2. d[id].op # "delete"
      BY <1>4, <3>1 DEF Deleted
    <3> QED
      BY <2>1, <2>3, <3>1, <3>2 DEF Then
  <2> QED
    BY <2>2, <2>3
<1>7. Applicable(c, b)
  <2> SUFFICES ASSUME NEW id \in DOMAIN b, b[id].op = "setField" PROVE id \in DOMAIN c
    BY DEF Applicable
  <2>1. CASE id \notin DOMAIN e
    BY <1>3, <2>1 DEF Applicable
  <2>2. CASE id \in DOMAIN e /\ id \notin DOMAIN d
    <3>1. id \in DOMAIN m
      BY <1>3, <1>5, <2>2 DEF Applicable
    <3> QED
      BY <1>4, <2>2, <3>1
  <2>3. CASE id \in DOMAIN d \cap DOMAIN e
    <3>1. d[id].op = "setField"
      BY <1>6, <2>3
    <3> QED
      BY <2>3, <3>1 DEF Applicable
  <2> QED
    BY <1>3, <2>1, <2>2, <2>3
<1>8. PICK x \in Contents : x = ComposeCarets(c, b)
  BY <1>7, Composing
<1>9. /\ DOMAIN x = (DOMAIN c \cup DOMAIN b) \ Deleted(b)
      /\ \A id \in DOMAIN x : x[id] = IF id \notin DOMAIN b THEN c[id]
                                      ELSE IF b[id].op = "add" THEN b[id].fields
                                      ELSE Updated(c[id], b[id].fields)
  <2>1. /\ DOMAIN ComposeCarets(c, b) = (DOMAIN c \cup DOMAIN b) \ Deleted(b)
        /\ \A id \in DOMAIN ComposeCarets(c, b) :
             ComposeCarets(c, b)[id] = IF id \notin DOMAIN b THEN c[id]
                                       ELSE IF b[id].op = "add" THEN b[id].fields
                                       ELSE Updated(c[id], b[id].fields)
    BY <1>7, Composing
  <2> QED
    BY <1>8, <2>1
<1>10. PICK y \in Contents : y = ComposeCarets(m, e)
  BY <1>5, Composing
<1>11. /\ DOMAIN y = (DOMAIN m \cup DOMAIN e) \ Deleted(e)
       /\ \A id \in DOMAIN y : y[id] = IF id \notin DOMAIN e THEN m[id]
                                       ELSE IF e[id].op = "add" THEN e[id].fields
                                       ELSE Updated(m[id], e[id].fields)
  <2>1. /\ DOMAIN ComposeCarets(m, e) = (DOMAIN m \cup DOMAIN e) \ Deleted(e)
        /\ \A id \in DOMAIN ComposeCarets(m, e) :
             ComposeCarets(m, e)[id] = IF id \notin DOMAIN e THEN m[id]
                                       ELSE IF e[id].op = "add" THEN e[id].fields
                                       ELSE Updated(m[id], e[id].fields)
    BY <1>5, Composing
  <2> QED
    BY <1>10, <2>1
<1>12. ASSUME NEW id
       PROVE  /\ id \in DOMAIN x <=> id \in DOMAIN y
              /\ id \in DOMAIN x => x[id] = y[id]
  <2>1. CASE id \notin DOMAIN d /\ id \notin DOMAIN e
    BY <1>3, <1>4, <1>9, <1>11, <2>1 DEF Deleted
  <2>2. CASE id \in DOMAIN d /\ id \notin DOMAIN e
    <3>1. b[id] = d[id] /\ id \in DOMAIN b
      BY <1>3, <2>2
    <3> QED
      BY <1>4, <1>9, <1>11, <2>2, <3>1 DEF Deleted
  <2>3. CASE id \notin DOMAIN d /\ id \in DOMAIN e
    <3>1. b[id] = e[id] /\ id \in DOMAIN b
      BY <1>3, <2>3
    <3>2. id \in DOMAIN m <=> id \in DOMAIN c
      BY <1>4, <2>3 DEF Deleted
    <3>3. id \in DOMAIN m => m[id] = c[id]
      BY <1>4, <2>3
    <3>4. e[id].op = "setField" => id \in DOMAIN m
      BY <1>5, <2>3 DEF Applicable
    <3>5. e[id] \in TimedOps
      BY <2>3, DeltaShape
    <3> QED
      BY <1>9, <1>11, <2>3, <3>1, <3>2, <3>3, <3>4, <3>5, OpShape DEF Deleted
  <2>4. CASE id \in DOMAIN d \cap DOMAIN e
    <3>0. id \in DOMAIN b /\ d[id] \in TimedOps /\ e[id] \in TimedOps
      BY <1>3, <2>4, DeltaShape
    <3>1. CASE e[id].op # "setField" /\ b[id] = e[id]
      BY <1>9, <1>11, <2>4, <3>0, <3>1, OpShape DEF Deleted
    <3>2. CASE /\ e[id].op = "setField" /\ d[id].op # "delete" /\ id \in DOMAIN m
               /\ b[id].op = d[id].op
               /\ b[id].fields = Updated(d[id].fields, e[id].fields)
      <4>1. id \in DOMAIN x /\ id \in DOMAIN y
        BY <1>9, <1>11, <3>0, <3>2 DEF Deleted
      <4>2. y[id] = Updated(m[id], e[id].fields)
        BY <1>11, <2>4, <3>2, <4>1
      <4>3. CASE d[id].op = "add"
        BY <1>4, <1>9, <2>4, <3>0, <3>2, <4>1, <4>2, <4>3
      <4>4. CASE d[id].op = "setField"
        <5>1. m[id] = Updated(c[id], d[id].fields)
          BY <1>4, <2>4, <3>2, <4>4
        <5>2. x[id] = Updated(c[id], Updated(d[id].fields, e[id].fields))
          BY <1>9, <3>0, <3>2, <4>1, <4>4
        <5> QED
          BY <4>1, <4>2, <5>1, <5>2, UpdatedTwice
      <4> QED
        BY <3>0, <3>2, <4>3, <4>4, OpShape
    <3> QED
      BY <1>6, <2>4, <3>1, <3>2
  <2> QED
    BY <2>1, <2>2, <2>3, <2>4
<1>13. x = y
  <2>1. DOMAIN x = DOMAIN y
    BY <1>12
  <2>2. x = [id \in DOMAIN x |-> x[id]] /\ y = [id \in DOMAIN y |-> y[id]]
    BY ContentsShape
  <2> QED
    BY <1>12, <2>1, <2>2
<1> QED
  BY <1>1, <1>2, <1>8, <1>10, <1>13

\* If the same delta is applied to two contents, what the one has and the other
\* has not was so before.
LEMMA ComposedSideBySide ==
  ASSUME NEW a \in Contents, NEW b \in Contents, NEW d \in Deltas,
         Applicable(a, d), Applicable(b, d),
         NEW id \in DOMAIN ComposeCarets(a, d) \ DOMAIN ComposeCarets(b, d)
  PROVE  /\ id \in DOMAIN a \ DOMAIN b
         /\ ComposeCarets(a, d)[id] = a[id]
<1>1. id \in (DOMAIN a \cup DOMAIN d) \ Deleted(d)
  BY Composing
<1>2. id \notin (DOMAIN b \cup DOMAIN d) \ Deleted(d)
  BY Composing
<1>3. id \notin DOMAIN d
  BY <1>1, <1>2
<1>4. ComposeCarets(a, d)[id] = a[id]
  BY <1>3, Composing
<1> QED
  BY <1>1, <1>2, <1>3, <1>4

-----------------------------------------------------------------------------
(* Folds over deltas *)

\* Folding ComposeCarets goes over what each step gives.
LEMMA ContentsTrace ==
  ASSUME NEW n \in Nat, NEW base \in Contents \cup {NotCarets}, NEW deltas \in [1..n -> Deltas]
  PROVE  \E trace \in [0..n -> Contents \cup {NotCarets}] :
           /\ trace[0] = base
           /\ \A i \in 1..n : trace[i] = ComposeCarets(trace[i - 1], deltas[i])
           /\ ComposeAllCarets(base, deltas) = trace[n]
<1> DEFINE V == Contents \cup {NotCarets}
           Does(iter) ==
             iter = [S \in SUBSET (1..n) |->
                       IF S = {} THEN base
                       ELSE ComposeCarets(iter[S \ {Max(S)}], deltas[Max(S)])]
           fold == CHOOSE iter : Does(iter)
<1>0. \A c \in V, d \in Deltas : ComposeCarets(c, d) \in V
  BY ComposingEither
<1> HIDE DEF V
<1>1. \E iter : Does(iter)
  <2> DEFINE step == [ic \in (1..n) \X V |-> ComposeCarets(ic[2], deltas[ic[1]])]
  <2>1. step \in [(1..n) \X V -> V]
    BY <1>0
  <2>2. \A i \in 1..n, c \in V : step[i, c] = ComposeCarets(c, deltas[i])
    OBVIOUS
  <2> HIDE DEF step
  <2>0. base \in V
    BY DEF V
  <2>3. \E iter \in [SUBSET (1..n) -> V] : IsFold(iter, n, base, step)
    BY <2>0, <2>1, FoldOnSubsets
  <2>4. PICK iter \in [SUBSET (1..n) -> V] : \A S \in SUBSET (1..n) :
          iter[S] = IF S = {} THEN base ELSE step[Max(S), iter[S \ {Max(S)}]]
    BY <2>3 DEF IsFold
  <2>5. ASSUME NEW S \in SUBSET (1..n)
        PROVE  iter[S] = IF S = {} THEN base
                         ELSE ComposeCarets(iter[S \ {Max(S)}], deltas[Max(S)])
    <3>1. CASE S = {}
      BY <2>4, <3>1
    <3>2. CASE S # {}
      <4>1. Max(S) \in 1..n /\ S \ {Max(S)} \in SUBSET (1..n)
        BY <3>2, MaxIsThere
      <4> QED
        BY <2>2, <2>4, <3>2, <4>1
    <3> QED
      BY <3>1, <3>2
  <2>6. Does(iter)
    BY <2>4, <2>5
  <2> QED
    BY <2>6
<1>2. Does(fold)
  BY <1>1
<1>3. ComposeAllCarets(base, deltas) = fold[1..n]
  BY DEF ComposeAllCarets, FoldLeft, MapThenFoldSet
<1> HIDE DEF fold
<1>4. fold[1..0] = base
  BY <1>2, MaxOfInterval
<1>5. ASSUME NEW k \in Nat, k + 1 <= n
      PROVE  fold[1..k + 1] = ComposeCarets(fold[1..k], deltas[k + 1])
  <2>1. /\ Max(1..k + 1) = k + 1 /\ (1..k + 1) \ {k + 1} = 1..k /\ 1..k + 1 # {}
    BY MaxOfInterval
  <2>2. 1..k + 1 \in SUBSET (1..n)
    BY <1>5
  <2> QED
    BY <1>2, <2>1, <2>2
<1> HIDE DEF Does
<1> DEFINE Typed == {k \in Nat : k <= n => fold[1..k] \in V}
<1>6. 0 \in Typed
  BY <1>4 DEF V
<1>7. ASSUME NEW k \in Nat, k \in Typed PROVE k + 1 \in Typed
  <2> SUFFICES ASSUME k + 1 <= n PROVE fold[1..k + 1] \in V
    OBVIOUS
  <2>1. fold[1..k] \in V /\ deltas[k + 1] \in Deltas
    BY <1>7
  <2> QED
    BY <1>0, <1>5, <2>1
<1> HIDE DEF Typed
<1>8. \A k \in Nat : k \in Typed
  BY <1>6, <1>7, Induction
<1>9. \A k \in 0..n : fold[1..k] \in V
  BY <1>8 DEF Typed
<1> DEFINE trace == [k \in 0..n |-> fold[1..k]]
<1>10. trace \in [0..n -> V] /\ trace[0] = base /\ trace[n] = fold[1..n]
  BY <1>4, <1>9
<1>11. ASSUME NEW i \in 1..n PROVE trace[i] = ComposeCarets(trace[i - 1], deltas[i])
  <2>1. i - 1 \in Nat /\ (i - 1) + 1 = i /\ i - 1 \in 0..n
    OBVIOUS
  <2>2. fold[1..i] = ComposeCarets(fold[1..i - 1], deltas[i])
    BY <1>5, <2>1
  <2> QED
    BY <2>1, <2>2
<1> HIDE DEF trace
<1> QED
  BY <1>3, <1>10, <1>11 DEF V

\* Folding ComposeCaretDeltas goes over what each step gives.
LEMMA DeltasTrace ==
  ASSUME NEW n \in Nat, NEW deltas \in [1..n -> Deltas]
  PROVE  \E trace \in [0..n -> Deltas] :
           /\ trace[0] = NoCarets
           /\ \A i \in 1..n : trace[i] = ComposeCaretDeltas(trace[i - 1], deltas[i])
           /\ ComposeAllDeltas(deltas) = trace[n]
<1> DEFINE V == Deltas
           Does(iter) ==
             iter = [S \in SUBSET (1..n) |->
                       IF S = {} THEN NoCarets
                       ELSE ComposeCaretDeltas(iter[S \ {Max(S)}], deltas[Max(S)])]
           fold == CHOOSE iter : Does(iter)
<1>0. \A c \in V, d \in Deltas : ComposeCaretDeltas(c, d) \in V
  BY ComposedDeltas
<1> HIDE DEF V
<1>1. \E iter : Does(iter)
  <2> DEFINE step == [ic \in (1..n) \X V |-> ComposeCaretDeltas(ic[2], deltas[ic[1]])]
  <2>1. step \in [(1..n) \X V -> V]
    BY <1>0
  <2>2. \A i \in 1..n, c \in V : step[i, c] = ComposeCaretDeltas(c, deltas[i])
    OBVIOUS
  <2> HIDE DEF step
  <2>0. NoCarets \in V
    BY NoContents DEF V
  <2>3. \E iter \in [SUBSET (1..n) -> V] : IsFold(iter, n, NoCarets, step)
    BY <2>0, <2>1, FoldOnSubsets
  <2>4. PICK iter \in [SUBSET (1..n) -> V] : \A S \in SUBSET (1..n) :
          iter[S] = IF S = {} THEN NoCarets ELSE step[Max(S), iter[S \ {Max(S)}]]
    BY <2>3 DEF IsFold
  <2>5. ASSUME NEW S \in SUBSET (1..n)
        PROVE  iter[S] = IF S = {} THEN NoCarets
                         ELSE ComposeCaretDeltas(iter[S \ {Max(S)}], deltas[Max(S)])
    <3>1. CASE S = {}
      BY <2>4, <3>1
    <3>2. CASE S # {}
      <4>1. Max(S) \in 1..n /\ S \ {Max(S)} \in SUBSET (1..n)
        BY <3>2, MaxIsThere
      <4> QED
        BY <2>2, <2>4, <3>2, <4>1
    <3> QED
      BY <3>1, <3>2
  <2>6. Does(iter)
    BY <2>4, <2>5
  <2> QED
    BY <2>6
<1>2. Does(fold)
  BY <1>1
<1>3. ComposeAllDeltas(deltas) = fold[1..n]
  BY DEF ComposeAllDeltas, FoldLeft, MapThenFoldSet
<1> HIDE DEF fold
<1>4. fold[1..0] = NoCarets
  BY <1>2, MaxOfInterval
<1>5. ASSUME NEW k \in Nat, k + 1 <= n
      PROVE  fold[1..k + 1] = ComposeCaretDeltas(fold[1..k], deltas[k + 1])
  <2>1. /\ Max(1..k + 1) = k + 1 /\ (1..k + 1) \ {k + 1} = 1..k /\ 1..k + 1 # {}
    BY MaxOfInterval
  <2>2. 1..k + 1 \in SUBSET (1..n)
    BY <1>5
  <2> QED
    BY <1>2, <2>1, <2>2
<1> HIDE DEF Does
<1> DEFINE Typed == {k \in Nat : k <= n => fold[1..k] \in V}
<1>6. 0 \in Typed
  BY <1>4, NoContents DEF V
<1>7. ASSUME NEW k \in Nat, k \in Typed PROVE k + 1 \in Typed
  <2> SUFFICES ASSUME k + 1 <= n PROVE fold[1..k + 1] \in V
    OBVIOUS
  <2>1. fold[1..k] \in V /\ deltas[k + 1] \in Deltas
    BY <1>7
  <2> QED
    BY <1>0, <1>5, <2>1
<1> HIDE DEF Typed
<1>8. \A k \in Nat : k \in Typed
  BY <1>6, <1>7, Induction
<1>9. \A k \in 0..n : fold[1..k] \in V
  BY <1>8 DEF Typed
<1> DEFINE trace == [k \in 0..n |-> fold[1..k]]
<1>10. trace \in [0..n -> V] /\ trace[0] = NoCarets /\ trace[n] = fold[1..n]
  BY <1>4, <1>9
<1>11. ASSUME NEW i \in 1..n PROVE trace[i] = ComposeCaretDeltas(trace[i - 1], deltas[i])
  <2>1. i - 1 \in Nat /\ (i - 1) + 1 = i /\ i - 1 \in 0..n
    OBVIOUS
  <2>2. fold[1..i] = ComposeCaretDeltas(fold[1..i - 1], deltas[i])
    BY <1>5, <2>1
  <2> QED
    BY <2>1, <2>2
<1> HIDE DEF trace
<1> QED
  BY <1>3, <1>10, <1>11 DEF V

\* Deltas that lead from one contents to the next.
Leads(hist, deltas, n) ==
  /\ hist \in [0..n -> Contents]
  /\ deltas \in [1..n -> Deltas]
  /\ \A i \in 1..n : hist[i] = ComposeCarets(hist[i - 1], deltas[i])

\* One after the other they lead from the first to the last contents
\* (SnapshotManager._makeSnapshot()),
LEMMA Replay ==
  ASSUME NEW n \in Nat, NEW hist, NEW deltas, Leads(hist, deltas, n)
  PROVE  ComposeAllCarets(hist[0], deltas) = hist[n]
<1>0. /\ hist[0] \in Contents /\ deltas \in [1..n -> Deltas]
      /\ \A i \in 1..n : hist[i] = ComposeCarets(hist[i - 1], deltas[i])
  BY DEF Leads
<1>1. PICK trace \in [0..n -> Contents \cup {NotCarets}] :
        /\ trace[0] = hist[0]
        /\ \A i \in 1..n : trace[i] = ComposeCarets(trace[i - 1], deltas[i])
        /\ ComposeAllCarets(hist[0], deltas) = trace[n]
  BY <1>0, ContentsTrace
<1> DEFINE Same == {k \in Nat : k <= n => trace[k] = hist[k]}
<1>2. 0 \in Same
  BY <1>1
<1>3. ASSUME NEW k \in Nat, k \in Same PROVE k + 1 \in Same
  <2> SUFFICES ASSUME k + 1 <= n PROVE trace[k + 1] = hist[k + 1]
    OBVIOUS
  <2>1. k + 1 \in 1..n /\ (k + 1) - 1 = k /\ trace[k] = hist[k]
    BY <1>3
  <2> QED
    BY <1>0, <1>1, <2>1
<1> HIDE DEF Same
<1>4. n \in Same
  BY <1>2, <1>3, Induction
<1> QED
  BY <1>1, <1>4 DEF Same

\* and composed with each other they do so at once (BaseControl.getDiff()).
LEMMA ReplayAtOnce ==
  ASSUME NEW n \in Nat, NEW hist, NEW deltas, Leads(hist, deltas, n)
  PROVE  ComposeCarets(hist[0], ComposeAllDeltas(deltas)) = hist[n]
<1>0. /\ hist \in [0..n -> Contents] /\ deltas \in [1..n -> Deltas]
      /\ \A i \in 1..n : hist[i] = ComposeCarets(hist[i - 1], deltas[i])
  BY DEF Leads
<1>1. PICK trace \in [0..n -> Deltas] :
        /\ trace[0] = NoCarets
        /\ \A i \in 1..n : trace[i] = ComposeCaretDeltas(trace[i - 1], deltas[i])
        /\ ComposeAllDeltas(deltas) = trace[n]
  BY <1>0, NoContents, DeltasTrace
<1> DEFINE Same == {k \in Nat : k <= n => ComposeCarets(hist[0], trace[k]) = hist[k]}
<1>2. 0 \in Same
  <2>1. PICK c \in Contents : c = hist[0]
    BY <1>0
  <2>2. DOMAIN NoCarets = {} /\ Deleted(NoCarets) = {} /\ Applicable(c, NoCarets)
    BY DEF NoCarets, Deleted, Applicable
  <2>3. c # NotCarets /\ c = [id \in DOMAIN c |-> c[id]]
    BY NoContents, ContentsShape
  <2>4. ComposeCarets(c, NoCarets) = c
    BY <2>2, <2>3 DEF ComposeCarets
  <2> QED
    BY <1>1, <2>1, <2>4
<1>3. ASSUME NEW k \in Nat, k \in Same PROVE k + 1 \in Same
  <2> SUFFICES ASSUME k + 1 <= n PROVE ComposeCarets(hist[0], trace[k + 1]) = hist[k + 1]
    OBVIOUS
  <2>1. /\ k + 1 \in 1..n /\ (k + 1) - 1 = k /\ k \in 0..n /\ 0 \in 0..n /\ k + 1 \in 0..n
        /\ ComposeCarets(hist[0], trace[k]) = hist[k]
    BY <1>3
  <2>2. PICK c, old, new \in Contents : c = hist[0] /\ old = hist[k] /\ new = hist[k + 1]
    BY <1>0, <2>1
  <2>3. PICK d, e \in Deltas : d = trace[k] /\ e = deltas[k + 1]
    BY <1>0, <1>1, <2>1
  <2>4. old = ComposeCarets(c, d) /\ new = ComposeCarets(old, e)
    BY <1>0, <2>1, <2>2, <2>3
  <2>5. Applicable(c, d) /\ Applicable(old, e)
    BY <2>4, NoContents, ComposingEither
  <2>6. ComposeCarets(c, ComposeCaretDeltas(d, e)) = new
    BY <2>4, <2>5, ComposedAtOnce
  <2>7. trace[k + 1] = ComposeCaretDeltas(d, e)
    BY <1>1, <2>1, <2>3
  <2> QED
    BY <2>2, <2>6, <2>7
<1> HIDE DEF Same
<1>4. n \in Same
  BY <1>2, <1>3, Induction
<1> QED
  BY <1>1, <1>4 DEF Same

\* Composed onto other contents they may not fit; if they do, what is missing
\* in the end was missing at the beginning, and nobody has touched it
\* (CaretControl._impl_rebase()).
LEMMA ReplayElsewhere ==
  ASSUME NEW n \in Nat, NEW hist, NEW deltas, Leads(hist, deltas, n),
         NEW other \in Contents,
         ComposeAllCarets(other, deltas) # NotCarets
  PROVE  /\ ComposeAllCarets(other, deltas) \in Contents
         /\ \A id \in DOMAIN hist[n] \ DOMAIN ComposeAllCarets(other, deltas) :
              id \in DOMAIN hist[0] \ DOMAIN other /\ hist[n][id] = hist[0][id]
<1>0. /\ hist \in [0..n -> Contents] /\ deltas \in [1..n -> Deltas]
      /\ \A i \in 1..n : hist[i] = ComposeCarets(hist[i - 1], deltas[i])
  BY DEF Leads
<1>1. PICK trace \in [0..n -> Contents \cup {NotCarets}] :
        /\ trace[0] = other
        /\ \A i \in 1..n : trace[i] = ComposeCarets(trace[i - 1], deltas[i])
        /\ ComposeAllCarets(other, deltas) = trace[n]
  BY <1>0, ContentsTrace
<1> DEFINE Untouched(k) ==
             \A id \in DOMAIN hist[k] \ DOMAIN trace[k] :
               id \in DOMAIN hist[0] \ DOMAIN other /\ hist[k][id] = hist[0][id]
           Good == {k \in Nat : k <= n /\ trace[k] # NotCarets => Untouched(k)}
<1>2. 0 \in Good
  BY <1>1
<1>3. ASSUME NEW k \in Nat, k \in Good PROVE k + 1 \in Good
  <2> SUFFICES ASSUME k + 1 <= n, trace[k + 1] # NotCarets PROVE Untouched(k + 1)
    OBVIOUS
  <2>1. /\ k + 1 \in 1..n /\ (k + 1) - 1 = k /\ k \in 0..n /\ k + 1 \in 0..n
    OBVIOUS
  <2>2. PICK a, a2 \in Contents : a = hist[k] /\ a2 = hist[k + 1]
    BY <1>0, <2>1
  <2>3. PICK d \in Deltas : d = deltas[k + 1]
    BY <1>0, <2>1
  <2>4. PICK b \in Contents \cup {NotCarets} : b = trace[k]
    BY <1>1, <2>1
  <2>5. trace[k + 1] = ComposeCarets(b, d) /\ a2 = ComposeCarets(a, d)
    BY <1>0, <1>1, <2>1, <2>2, <2>3, <2>4
  <2>6. b \in Contents /\ Applicable(b, d) /\ Applicable(a, d)
    BY <2>5, NoContents, ComposingEither
  <2>7. Untouched(k)
    BY <1>3, <2>4, <2>6, NoContents
  <2>8. ASSUME NEW id \in DOMAIN a2 \ DOMAIN trace[k + 1]
        PROVE  id \in DOMAIN hist[0] \ DOMAIN other /\ a2[id] = hist[0][id]
    <3>1. id \in DOMAIN a \ DOMAIN b /\ a2[id] = a[id]
      BY <2>5, <2>6, ComposedSideBySide
    <3> QED
      BY <2>2, <2>4, <2>7, <3>1
  <2> QED
    BY <2>2, <2>8
<1> HIDE DEF Good
<1>4. n \in Good
  BY <1>2, <1>3, Induction
<1> QED
  BY <1>1, <1>4 DEF Good

-----------------------------------------------------------------------------
(* Calls *)

FitsAll(calls, hist, rev, time, seen) ==
  /\ DOMAIN calls = Callers
  /\ \A c \in Callers : Fits(c, calls[c], hist, rev, time, seen)

\* The contents of more revisions than before, if any.
Extends(hist, rev, hist2, rev2) ==
  /\ rev \in Nat /\ rev2 \in Nat /\ rev <= rev2
  /\ hist \in [0..rev -> Contents] /\ hist2 \in [0..rev2 -> Contents]
  /\ \A r \in 0..rev : hist2[r] = hist[r]

LEMMA LostIdleLater ==
  ASSUME NEW old \in Contents, NEW new, NEW time \in Nat, NEW time2 \in Nat,
         time <= time2, LostIdle(old, new, time)
  PROVE  LostIdle(old, new, time2)
<1> SUFFICES ASSUME NEW id \in DOMAIN old \ DOMAIN new
             PROVE  old[id].lastActive + MaxIdle < time2
  BY DEF LostIdle
<1>1. old[id].lastActive \in Nat
  BY ContentsShape DEF Timed
<1>2. old[id].lastActive + MaxIdle < time
  BY DEF LostIdle
<1> QED
  BY <1>1, <1>2, TimesAssumption

\* What holds of a call goes on to hold as the part and the time move on.
LEMMA FitsLater ==
  ASSUME NEW c, NEW local, NEW hist, NEW rev, NEW time \in Nat, NEW seen,
         NEW hist2, NEW rev2, NEW time2 \in Nat,
         Fits(c, local, hist, rev, time, seen),
         Extends(hist, rev, hist2, rev2), time <= time2
  PROVE  Fits(c, local, hist2, rev2, time2, seen)
<1>1. /\ rev \in Nat /\ rev2 \in Nat /\ rev <= rev2
      /\ hist \in [0..rev -> Contents]
      /\ \A r \in 0..rev : hist2[r] = hist[r]
  BY DEF Extends
<1>2. 0..rev \subseteq 0..rev2 /\ ChangesUpTo(rev + 1) \subseteq ChangesUpTo(rev2 + 1)
  <2>1. 0..rev \subseteq 0..rev2 /\ 0..rev + 1 \subseteq 0..rev2 + 1
    BY <1>1
  <2> QED
    BY <2>1 DEF ChangesUpTo
<1>3. local \in [pc : PcsOf(c), want : 0..rev2, change : ChangesUpTo(rev2 + 1),
                 expected : Contents, toAppend : ChangesUpTo(rev2 + 1),
                 spot : Spots \cup {Nowhere}]
  BY <1>2 DEF Fits
<1>4. ASSUME local.pc \in Making PROVE MakesTrue(local, hist2, rev2, time2)
  <2>1. MakesTrue(local, hist, rev, time)
    BY <1>4 DEF Fits
  <2>2. local.change.revNum - 1 \in 0..rev /\ local.change.revNum \in 1..rev2 + 1
    BY <1>1, <2>1 DEF MakesTrue
  <2>3. PICK old \in Contents : old = hist[local.change.revNum - 1]
    BY <1>1, <2>2
  <2>4. hist2[local.change.revNum - 1] = old
    BY <1>1, <2>2, <2>3
  <2>5. LostIdle(old, local.expected, time2)
    BY <2>1, <2>3, LostIdleLater DEF MakesTrue
  <2> QED
    BY <2>1, <2>2, <2>3, <2>4, <2>5 DEF MakesTrue
<1>5. ASSUME local.pc = "append" PROVE AppendsTrue(local, hist2, rev2, time2)
  <2>1. AppendsTrue(local, hist, rev, time)
    BY <1>5 DEF Fits
  <2>2. local.toAppend.revNum - 1 \in 0..rev /\ local.toAppend.revNum \in 1..rev2 + 1
    BY <1>1, <2>1 DEF AppendsTrue
  <2>3. PICK old \in Contents : old = hist[local.toAppend.revNum - 1]
    BY <1>1, <2>2
  <2>4. hist2[local.toAppend.revNum - 1] = old
    BY <1>1, <2>2, <2>3
  <2>5. PICK new : new = ComposeCarets(old, local.toAppend.delta)
    OBVIOUS
  <2>6. new \in Contents /\ LostIdle(old, new, time)
    BY <2>1, <2>3, <2>5 DEF AppendsTrue
  <2>7. LostIdle(old, new, time2)
    BY <2>6, LostIdleLater
  <2> QED
    BY <2>2, <2>4, <2>5, <2>6, <2>7 DEF AppendsTrue
<1> QED
  BY <1>3, <1>4, <1>5 DEF Fits

LEMMA AllFitLater ==
  ASSUME NEW calls, NEW hist, NEW rev, NEW time \in Nat, NEW seen,
         NEW hist2, NEW rev2, NEW time2 \in Nat,
         FitsAll(calls, hist, rev, time, seen),
         Extends(hist, rev, hist2, rev2), time <= time2
  PROVE  FitsAll(calls, hist2, rev2, time2, seen)
BY FitsLater DEF FitsAll

\* A call that asks for a snapshot, or does not go on.
LEMMA AskingFits ==
  ASSUME NEW c, NEW local, NEW hist, NEW rev \in Nat, NEW time, NEW seen,
         Fits(c, local, hist, rev, time, seen),
         NEW pc \in PcsOf(c) \ (Making \cup {"after", "diff"}), NEW want \in 0..rev
  PROVE  /\ Fits(c, [local EXCEPT !.pc = pc, !.want = want], hist, rev, time, seen)
         /\ Fits(c, [local EXCEPT !.pc = pc], hist, rev, time, seen)
<1>1. local \in [pc : PcsOf(c), want : 0..rev, change : ChangesUpTo(rev + 1),
                 expected : Contents, toAppend : ChangesUpTo(rev + 1),
                 spot : Spots \cup {Nowhere}]
  BY DEF Fits
<1>2. pc \notin Making /\ pc # "append" /\ pc # "diff" /\ pc \notin {"after", "diff"}
  BY DEF Making
<1>3. ASSUME NEW new,
             new = [local EXCEPT !.pc = pc, !.want = want] \/ new = [local EXCEPT !.pc = pc]
      PROVE  Fits(c, new, hist, rev, time, seen)
  <2>1. /\ new \in [pc : PcsOf(c), want : 0..rev, change : ChangesUpTo(rev + 1),
                    expected : Contents, toAppend : ChangesUpTo(rev + 1),
                    spot : Spots \cup {Nowhere}]
        /\ new.pc = pc /\ new.spot = local.spot
    BY <1>1, <1>3
  <2> QED
    BY <1>2, <2>1 DEF Fits
<1> QED
  BY <1>3

\* Calls that are not under way fit anything.
LEMMA IdleFits ==
  ASSUME NEW c, NEW hist, NEW rev \in Nat, NEW time, NEW seen
  PROVE  Fits(c, Idle, hist, rev, time, seen)
<1>1. NoChange \in ChangesUpTo(rev + 1) /\ NoCarets \in Contents /\ 0 \in 0..rev
  BY NoContents DEF NoChange, ChangesUpTo
<1>2. "idle" \in PcsOf(c) /\ "idle" \notin Making
  BY DEF PcsOf, Making
<1>3. Idle \in [pc : PcsOf(c), want : 0..rev, change : ChangesUpTo(rev + 1),
                expected : Contents, toAppend : ChangesUpTo(rev + 1),
                spot : Spots \cup {Nowhere}]
  BY <1>1, <1>2 DEF Idle
<1>4. Idle.pc = "idle" /\ Idle.spot = Nowhere
  BY DEF Idle
<1> HIDE DEF Idle
<1> QED
  BY <1>2, <1>3, <1>4 DEF Fits

LEMMA RestingFits ==
  ASSUME NEW c, NEW pc \in PcsOf(c) \ (Making \cup {"after", "diff"}),
         NEW hist, NEW rev \in Nat, NEW time, NEW seen, NEW want \in 0..rev
  PROVE  /\ Fits(c, [Idle EXCEPT !.pc = pc, !.want = want], hist, rev, time, seen)
         /\ Fits(c, [Idle EXCEPT !.pc = pc], hist, rev, time, seen)
BY IdleFits, AskingFits

LEMMA WithCleanerFits ==
  ASSUME NEW calls, NEW hist, NEW rev \in Nat, NEW time, NEW seen,
         FitsAll(calls, hist, rev, time, seen), NEW want \in 0..rev
  PROVE  /\ FitsAll(WithCleaner(calls, want), hist, rev, time, seen)
         /\ WithCleaner(calls, want)[Viewer] = calls[Viewer]
<1>1. CASE WithCleaner(calls, want) = calls
  BY <1>1
<1>2. CASE WithCleaner(calls, want) # calls
  <2> DEFINE local == [Idle EXCEPT !.pc = "clean", !.want = want]
  <2>1. WithCleaner(calls, want) = [calls EXCEPT ![Cleaner] = local]
    BY <1>2 DEF WithCleaner
  <2>2. "clean" \in PcsOf(Cleaner) \ (Making \cup {"after", "diff"})
    BY CallersAssumption DEF PcsOf, Making
  <2>3. Fits(Cleaner, local, hist, rev, time, seen)
    BY <2>2, RestingFits
  <2> HIDE DEF local
  <2> QED
    BY <2>1, <2>3, CallersAssumption DEF FitsAll, Callers
<1> QED
  BY <1>1, <1>2

LEMMA GoesFits ==
  ASSUME NEW hist, NEW rev \in Nat, NEW time, NEW seen,
         FitsAll(call, hist, rev, time, seen),
         NEW c \in Callers, NEW local, Fits(c, local, hist, rev, time, seen),
         Goes(c, local)
  PROVE  /\ FitsAll(call', hist, rev, time, seen)
         /\ call'[Viewer] = IF c = Viewer THEN local ELSE call[Viewer]
<1>1. PICK calls : calls = call
  OBVIOUS
<1>2. PICK next : next = [calls EXCEPT ![c] = local]
  OBVIOUS
<1>3. FitsAll(calls, hist, rev, time, seen)
  BY <1>1
<1>4. /\ FitsAll(next, hist, rev, time, seen)
      /\ next[Viewer] = IF c = Viewer THEN local ELSE calls[Viewer]
  BY <1>2, <1>3 DEF FitsAll, Callers
<1>5. PICK want \in 0..rev : want = local.want
  BY DEF Fits
<1>6. call' = WithCleaner(next, want)
  BY <1>1, <1>2, <1>5 DEF Goes
<1>7. /\ FitsAll(WithCleaner(next, want), hist, rev, time, seen)
      /\ WithCleaner(next, want)[Viewer] = next[Viewer]
  BY <1>4, WithCleanerFits
<1> QED
  BY <1>1, <1>4, <1>6, <1>7

-----------------------------------------------------------------------------
(* The server's steps *)

LEMMA ExtendsItself == FileTrue => Extends(history, revNum, history, revNum) /\ now \in Nat
BY TimesAssumption DEF FileTrue, Extends

LEMMA CallsFit == CallsTrue <=> FitsAll(call, history, revNum, now, view)
BY DEF CallsTrue, FitsAll

\* What is left alone stays true as revisions are added.
LEMMA PartMovesOn ==
  ASSUME Core, FileTrue', Extends(history, revNum, history', revNum'), SavesTrue',
         UNCHANGED <<memory, watching>>,
         FitsAll(call', history', revNum', now', view),
         call'[Viewer].pc # "idle" /\ Seen => CaughtUp
  PROVE  Core'
<1>1. /\ revNum \in Nat /\ revNum' \in Nat /\ revNum <= revNum'
      /\ \A r \in 0..revNum : r \in 0..revNum' /\ history'[r] = history[r]
  BY DEF Extends
<1>2. CacheTrue'
  BY <1>1 DEF Core, CacheTrue, memory
<1>3. CallsTrue'
  BY DEF CallsTrue, FitsAll, watching
<1>4. ViewTrue'
  BY <1>1 DEF Core, ViewTrue, watching, Seen, CaughtUp
<1>5. ScreenTrue'
  BY DEF Core, ScreenTrue, watching, Seen, CaughtUp
<1> QED
  BY <1>2, <1>3, <1>4, <1>5 DEF Core

\* A step of a call that leaves the file as it is.
LEMMA CallMovesOn ==
  ASSUME Core, UNCHANGED <<now, file, memory, watching>>, SavesTrue',
         FitsAll(call', history, revNum, now, view),
         call'[Viewer].pc # "idle" /\ Seen => CaughtUp
  PROVE  Core'
<1>1. FileTrue' /\ history' = history /\ revNum' = revNum /\ now' = now
  BY DEF Core, FileTrue, file
<1>2. Extends(history, revNum, history, revNum)
  BY ExtendsItself DEF Core
<1> QED
  BY <1>1, <1>2, PartMovesOn

LEMMA SavesStay ==
  ASSUME Core, UNCHANGED <<file, saves>>
  PROVE  SavesTrue'
BY DEF Core, SavesTrue, file

LEMMA WatcherKept ==
  ASSUME Core, call'[Viewer] = call[Viewer]
  PROVE  call'[Viewer].pc # "idle" /\ Seen => CaughtUp
BY DEF Core, ViewTrue

\* A call that goes on, as Goes() has it.
LEMMA GoesKeeps ==
  ASSUME Core, UNCHANGED <<now, file, memory, saves, watching>>,
         NEW c \in Callers \ {Viewer}, NEW local, Goes(c, local),
         Fits(c, local, history, revNum, now, view)
  PROVE  Core'
<1>1. FitsAll(call, history, revNum, now, view) /\ revNum \in Nat
  BY CallsFit DEF Core, FileTrue
<1>2. FitsAll(call', history, revNum, now, view) /\ call'[Viewer] = call[Viewer]
  <2>1. PICK hist, rev, time, seen :
          hist = history /\ rev = revNum /\ time = now /\ seen = view
    OBVIOUS
  <2>2. FitsAll(call, hist, rev, time, seen) /\ rev \in Nat /\ Fits(c, local, hist, rev, time, seen)
    BY <1>1, <2>1
  <2>3. FitsAll(call', hist, rev, time, seen) /\ call'[Viewer] = call[Viewer]
    BY <2>2, GoesFits
  <2> QED
    BY <2>1, <2>3
<1> QED
  BY <1>2, SavesStay, WatcherKept, CallMovesOn

\* A call that only ends or waits for something else.
LEMMA OneCallKeeps ==
  ASSUME Core, UNCHANGED <<now, file, memory, saves, watching>>,
         NEW c \in Callers, NEW local, call' = [call EXCEPT ![c] = local],
         Fits(c, local, history, revNum, now, view),
         c = Viewer /\ local.pc # "idle" /\ Seen => CaughtUp
  PROVE  Core'
<1>1. /\ FitsAll(call', history, revNum, now, view)
      /\ call'[Viewer] = IF c = Viewer THEN local ELSE call[Viewer]
  BY DEF Core, CallsTrue, FitsAll, Callers
<1>2. call'[Viewer].pc # "idle" /\ Seen => CaughtUp
  BY <1>1 DEF Core, ViewTrue
<1> QED
  BY <1>1, <1>2, SavesStay, CallMovesOn

\* What a call has at its pc.
LEMMA CallIs ==
  ASSUME Core, NEW c \in Callers
  PROVE  /\ Fits(c, call[c], history, revNum, now, view)
         /\ call[c] \in [pc : PcsOf(c), want : 0..revNum, change : ChangesUpTo(revNum + 1),
                         expected : Contents, toAppend : ChangesUpTo(revNum + 1),
                         spot : Spots \cup {Nowhere}]
         /\ revNum \in Nat /\ now \in Nat
BY ExtendsItself DEF Core, CallsTrue, Fits, FileTrue

LEMMA FailKeeps ==
  ASSUME Core, UNCHANGED <<now, file, memory, saves, watching>>,
         NEW c \in Callers, call[c].pc \notin {"idle", "done"}, Fail(c)
  PROVE  Core'
<1>1. /\ call[c].pc \in PcsOf(c) /\ revNum \in Nat
  BY CallIs
<1>2. PICK pc : pc = IF call[c].pc \in {"after", "diff"} THEN "trouble" ELSE "failed"
  OBVIOUS
<1>3. pc \in PcsOf(c) \ (Making \cup {"after", "diff"})
  BY <1>1, <1>2 DEF PcsOf, Making
<1>4. PICK local : local = [Idle EXCEPT !.pc = pc]
  OBVIOUS
<1>5. Fits(c, local, history, revNum, now, view)
  <2>1. PICK hist, rev, time, seen :
          hist = history /\ rev = revNum /\ time = now /\ seen = view
    OBVIOUS
  <2>2. Fits(c, [Idle EXCEPT !.pc = pc], hist, rev, time, seen)
    <3>1. 0 \in 0..rev /\ rev \in Nat
      BY <1>1, <2>1
    <3> QED
      BY <1>3, <3>1, RestingFits
  <2> QED
    BY <1>4, <2>1, <2>2
<1>6. call' = [call EXCEPT ![c] = local]
  BY <1>2, <1>4 DEF Fail, Failed
<1>7. c = Viewer /\ Seen => CaughtUp
  BY DEF Core, ViewTrue
<1> QED
  BY <1>5, <1>6, <1>7, OneCallKeeps

LEMMA AvailableIs ==
  ASSUME Core, NEW r, Available(r)
  PROVE  r \in 0..revNum /\ cache[r].contents = history[r] /\ history[r] \in Contents
<1>1. r \in 0..revNum /\ cache[r].contents = history[r]
  BY DEF Core, CacheTrue, Available
<1>2. history \in [0..revNum -> Contents]
  BY DEF Core, FileTrue
<1> QED
  BY <1>1, <1>2

LEMMA CaretIsTimed ==
  ASSUME Core, NEW spot \in Spots \cup {Nowhere}
  PROVE  Caret(spot) \in Timed
<1>1. now \in 0..MaxNow /\ now \in Nat
  BY TimesAssumption DEF Core, FileTrue
<1>2. PICK time \in 0..MaxNow : time = now /\ time \in Nat
  BY <1>1
<1>3. spot \in FieldValues /\ time \in FieldValues
  BY FieldsAssumption
<1>4. Caret(spot) = [at |-> spot, lastActive |-> time]
  BY <1>2 DEF Caret
<1>5. [at |-> spot, lastActive |-> time] \in [{"at", "lastActive"} -> FieldValues]
  BY <1>3
<1>6. [at |-> spot, lastActive |-> time].lastActive \in Nat
  BY <1>2
<1> QED
  BY <1>4, <1>5, <1>6, FieldsAssumption DEF Timed, Carets

\* The change that adds a caret, or puts it anew, fits any contents.
LEMMA AddedCaret ==
  ASSUME NEW c \in Ids, NEW x \in Timed, NEW old \in Contents, NEW time,
         NEW d, d = [id \in {c} |-> Add(x)]
  PROVE  d \in Deltas /\ Applicable(old, d) /\ LostIdle(old, ComposeCarets(old, d), time)
<1>1. Add(x) \in TimedOps /\ Add(x).op = "add"
  BY IsOp
<1>2. d \in [{c} -> TimedOps] /\ {c} \in SUBSET Ids
  BY <1>1
<1>3. d \in Deltas
  BY <1>2, IsDelta
<1>4. Applicable(old, d) /\ Deleted(d) = {}
  BY <1>1 DEF Applicable, Deleted
<1>5. DOMAIN ComposeCarets(old, d) = DOMAIN old \cup DOMAIN d
  <2>1. DOMAIN ComposeCarets(old, d) = (DOMAIN old \cup DOMAIN d) \ Deleted(d)
    BY <1>3, <1>4, Composing
  <2> QED
    BY <1>4, <2>1
<1> QED
  BY <1>3, <1>4, <1>5 DEF LostIdle

\* The change that removes carets fits if they are there.
LEMMA RemovedCarets ==
  ASSUME NEW old \in Contents, NEW time \in Nat,
         NEW gone \in SUBSET DOMAIN old,
         \A id \in gone : old[id].lastActive < time - MaxIdle,
         NEW d, d = [id \in gone |-> Delete]
  PROVE  d \in Deltas /\ Applicable(old, d) /\ LostIdle(old, ComposeCarets(old, d), time)
<1>1. Delete \in TimedOps /\ Delete.op = "delete"
  BY IsOp
<1>2. d \in [gone -> TimedOps] /\ gone \in SUBSET Ids
  BY <1>1, ContentsShape
<1>3. d \in Deltas
  BY <1>2, IsDelta
<1>4. Applicable(old, d) /\ Deleted(d) = gone
  BY <1>1 DEF Applicable, Deleted
<1>5. DOMAIN ComposeCarets(old, d) = DOMAIN old \ gone
  <2>1. DOMAIN ComposeCarets(old, d) = (DOMAIN old \cup DOMAIN d) \ Deleted(d)
    BY <1>3, <1>4, Composing
  <2>2. DOMAIN d = gone /\ gone \subseteq DOMAIN old
    BY <1>2
  <2> QED
    BY <1>4, <2>1, <2>2
<1>6. ASSUME NEW id \in gone PROVE old[id].lastActive + MaxIdle < time
  <2>1. old[id].lastActive \in Nat /\ old[id].lastActive < time - MaxIdle
    BY ContentsShape DEF Timed
  <2> QED
    BY <2>1, TimesAssumption
<1> QED
  BY <1>3, <1>4, <1>5, <1>6 DEF LostIdle

\* update() begins with what its caller has seen.
LEMMA UpdateFits ==
  ASSUME Core, NEW c \in Ids \cup {Cleaner}, Available(call[c].want),
         NEW d \in Deltas, Applicable(history[call[c].want], d),
         LostIdle(history[call[c].want], ComposeCarets(history[call[c].want], d), now)
  PROVE  /\ Fits(c, Update(c, d), history, revNum, now, view)
         /\ Fits(c, [Update(c, d) EXCEPT !.spot = Nowhere], history, revNum, now, view)
<1>1. c \in Callers /\ c # Viewer
  BY CallersAssumption DEF Callers
<1>2. PICK local : local = call[c]
  OBVIOUS
<1>3. /\ local \in [pc : PcsOf(c), want : 0..revNum, change : ChangesUpTo(revNum + 1),
                    expected : Contents, toAppend : ChangesUpTo(revNum + 1),
                    spot : Spots \cup {Nowhere}]
      /\ c \notin Ids => local.spot = Nowhere
      /\ revNum \in Nat
  BY <1>1, <1>2, CallIs DEF Fits
<1>4. PICK old \in Contents : old = history[local.want] /\ Current(c) = old
  BY <1>2, AvailableIs DEF Current
<1>5. PICK new \in Contents : new = ComposeCarets(old, d)
  BY <1>2, <1>4, Composing
<1>6. PICK change : change = [revNum |-> local.want + 1, delta |-> d]
  OBVIOUS
<1>7. /\ change \in ChangesUpTo(revNum + 1) /\ change.revNum = local.want + 1
      /\ change.delta = d /\ change.revNum \in 1..revNum + 1
  BY <1>3, <1>6 DEF ChangesUpTo
<1>8. "attempt" \in PcsOf(c)
  BY <1>1 DEF PcsOf, Making
<1>9. Update(c, d) = [local EXCEPT !.pc = "attempt", !.want = revNum,
                                   !.change = change, !.expected = new]
  BY <1>2, <1>4, <1>5, <1>6 DEF Update, Ask
<1>10. ASSUME NEW l, l = Update(c, d) \/ l = [Update(c, d) EXCEPT !.spot = Nowhere]
       PROVE  Fits(c, l, history, revNum, now, view)
  <2>1. /\ l \in [pc : PcsOf(c), want : 0..revNum, change : ChangesUpTo(revNum + 1),
                  expected : Contents, toAppend : ChangesUpTo(revNum + 1),
                  spot : Spots \cup {Nowhere}]
        /\ l.pc = "attempt" /\ l.want = revNum /\ l.change = change /\ l.expected = new
        /\ l.spot = local.spot \/ l.spot = Nowhere
    <3>1. PICK u : u = Update(c, d)
      OBVIOUS
    <3>2. revNum \in 0..revNum
      BY <1>3
    <3>3. /\ u \in [pc : PcsOf(c), want : 0..revNum, change : ChangesUpTo(revNum + 1),
                    expected : Contents, toAppend : ChangesUpTo(revNum + 1),
                    spot : Spots \cup {Nowhere}]
          /\ u.pc = "attempt" /\ u.want = revNum /\ u.change = change /\ u.expected = new
          /\ u.spot = local.spot
      BY <1>3, <1>7, <1>8, <1>9, <3>1, <3>2
    <3> QED
      BY <1>10, <3>1, <3>3
  <2>2. change.revNum - 1 = local.want /\ revNum >= change.revNum - 1
    BY <1>3, <1>7
  <2>3. LostIdle(old, new, now)
    BY <1>2, <1>4, <1>5
  <2>4. MakesTrue(l, history, revNum, now)
    BY <1>4, <1>5, <1>7, <2>1, <2>2, <2>3 DEF MakesTrue
  <2> QED
    BY <1>3, <2>1, <2>4 DEF Fits
<1> QED
  BY <1>10

LEMMA WhoseCall ==
  ASSUME Core, NEW c \in Callers
  PROVE  /\ call[c].pc \in {"look", "introduce", "prepare"} => c \in Ids
         /\ call[c].pc \in Making => c \in Ids \cup {Cleaner}
         /\ c \in Ids \cup {Cleaner} => c # Viewer
         /\ call[c].pc \in {"view", "after", "diff", "trouble"} => c = Viewer
<1>1. call[c].pc \in PcsOf(c)
  BY CallIs
<1> QED
  BY <1>1, CallersAssumption DEF PcsOf, Making, Callers

\* A step to another wait for the current snapshot.
LEMMA AskKeeps ==
  ASSUME Core, UNCHANGED <<now, file, memory, saves, watching>>,
         NEW c \in Callers \ {Viewer},
         NEW pc \in PcsOf(c) \ (Making \cup {"after", "diff"}), Goes(c, Ask(c, pc, revNum))
  PROVE  Core'
<1>1. Fits(c, call[c], history, revNum, now, view) /\ revNum \in Nat
  BY CallIs
<1>2. PICK local, hist, rev, time, seen :
        local = call[c] /\ hist = history /\ rev = revNum /\ time = now /\ seen = view
  OBVIOUS
<1>3. Fits(c, [local EXCEPT !.pc = pc, !.want = rev], hist, rev, time, seen)
  <2>1. Fits(c, local, hist, rev, time, seen) /\ rev \in Nat /\ rev \in 0..rev
    BY <1>1, <1>2
  <2> QED
    BY <2>1, AskingFits
<1>4. PICK new : new = [local EXCEPT !.pc = pc, !.want = rev]
  OBVIOUS
<1>5. Goes(c, new) /\ Fits(c, new, history, revNum, now, view)
  BY <1>2, <1>3, <1>4 DEF Ask
<1> QED
  BY <1>5, GoesKeeps

LEMMA LookKeeps ==
  ASSUME Core, NEW c \in Callers, Look(c), UNCHANGED watching
  PROVE  Core'
<1>1. c \in Ids /\ c # Viewer /\ c # Cleaner
  BY WhoseCall, CallersAssumption DEF Look
<1>2. PICK pc \in {"prepare", "introduce"} : Goes(c, Ask(c, pc, revNum))
  BY DEF Look
<1>3. pc \in PcsOf(c) \ (Making \cup {"after", "diff"})
  BY <1>1 DEF PcsOf, Making
<1> QED
  BY <1>1, <1>2, <1>3, AskKeeps DEF Look

LEMMA IntroduceKeeps ==
  ASSUME Core, NEW c \in Callers, Introduce(c), UNCHANGED watching
  PROVE  Core'
<1>1. c \in Ids /\ c # Viewer
  BY WhoseCall DEF Introduce
<1>2. PICK old \in Contents : old = history[call[c].want]
  BY AvailableIs DEF Introduce
<1>3. PICK d : d = [id \in {c} |-> Add(Caret(Nowhere))]
  OBVIOUS
<1>4. PICK x \in Timed : x = Caret(Nowhere)
  BY CaretIsTimed
<1>5. d = [id \in {c} |-> Add(x)]
  BY <1>3, <1>4
<1>6. PICK time : time = now
  OBVIOUS
<1>7. d \in Deltas /\ Applicable(old, d) /\ LostIdle(old, ComposeCarets(old, d), time)
  BY <1>1, <1>5, AddedCaret
<1>8. Fits(c, Update(c, d), history, revNum, now, view)
  BY <1>1, <1>2, <1>6, <1>7, UpdateFits DEF Introduce
<1>9. Goes(c, Update(c, d))
  BY <1>3 DEF Introduce
<1> QED
  BY <1>1, <1>8, <1>9, GoesKeeps DEF Introduce

LEMMA PrepareKeeps ==
  ASSUME Core, NEW c \in Callers, Prepare(c), UNCHANGED watching
  PROVE  Core'
<1>1. c \in Ids /\ c # Viewer
  BY WhoseCall DEF Prepare
<1>2. CASE c \in DOMAIN Current(c)
  <2>1. PICK old \in Contents : old = history[call[c].want]
    BY AvailableIs DEF Prepare
  <2>2. call[c].spot \in Spots \cup {Nowhere}
    BY CallIs
  <2>3. PICK d : d = [id \in {c} |-> Add(Caret(call[c].spot))]
    OBVIOUS
  <2>4. PICK x \in Timed : x = Caret(call[c].spot)
    BY <2>2, CaretIsTimed
  <2>5. d = [id \in {c} |-> Add(x)]
    BY <2>3, <2>4
  <2>6. PICK time : time = now
    OBVIOUS
  <2>7. d \in Deltas /\ Applicable(old, d) /\ LostIdle(old, ComposeCarets(old, d), time)
    BY <1>1, <2>5, AddedCaret
  <2>8. Fits(c, [Update(c, d) EXCEPT !.spot = Nowhere], history, revNum, now, view)
    BY <1>1, <2>1, <2>6, <2>7, UpdateFits DEF Prepare
  <2>9. Goes(c, [Update(c, d) EXCEPT !.spot = Nowhere])
    BY <1>2, <2>3 DEF Prepare
  <2> QED
    BY <1>1, <2>8, <2>9, GoesKeeps DEF Prepare
<1>3. CASE c \notin DOMAIN Current(c)
  BY <1>3, FailKeeps DEF Prepare
<1> QED
  BY <1>2, <1>3

LEMMA RemoveIdleKeeps ==
  ASSUME Core, RemoveIdle, UNCHANGED watching
  PROVE  Core'
<1>1. Cleaner \in Callers /\ Cleaner # Viewer
  BY CallersAssumption DEF Callers
<1>2. PICK idle : idle = {id \in DOMAIN Current(Cleaner) : IsIdle(Current(Cleaner)[id])}
  OBVIOUS
<1>3. CASE idle = {}
  <2>1. call' = [call EXCEPT ![Cleaner] = Idle]
    BY <1>2, <1>3 DEF RemoveIdle
  <2>2. Fits(Cleaner, Idle, history, revNum, now, view)
    <3>1. PICK hist, rev, time, seen :
            hist = history /\ rev = revNum /\ time = now /\ seen = view /\ rev \in Nat
      BY <1>1, CallIs
    <3> QED
      BY <3>1, IdleFits
  <2>3. PICK local : local = Idle
    OBVIOUS
  <2> QED
    BY <1>1, <2>1, <2>2, <2>3, OneCallKeeps DEF RemoveIdle
<1>4. CASE idle # {}
  <2>1. PICK old \in Contents : old = history[call[Cleaner].want] /\ Current(Cleaner) = old
    BY AvailableIs DEF RemoveIdle, Current
  <2>2. PICK d : d = [id \in idle |-> Delete]
    OBVIOUS
  <2>3. PICK time \in Nat : time = now
    BY <1>1, CallIs
  <2>4. idle \in SUBSET DOMAIN old /\ \A id \in idle : old[id].lastActive < time - MaxIdle
    BY <1>2, <2>1, <2>3 DEF IsIdle
  <2>5. d \in Deltas /\ Applicable(old, d) /\ LostIdle(old, ComposeCarets(old, d), time)
    BY <2>2, <2>4, RemovedCarets
  <2>6. Fits(Cleaner, Update(Cleaner, d), history, revNum, now, view)
    BY <2>1, <2>3, <2>5, UpdateFits DEF RemoveIdle
  <2>7. Goes(Cleaner, Update(Cleaner, d))
    BY <1>2, <1>4, <2>2 DEF RemoveIdle
  <2> QED
    BY <1>1, <2>6, <2>7, GoesKeeps DEF RemoveIdle
<1> QED
  BY <1>3, <1>4

LEMMA ForgetKeeps ==
  ASSUME Core, Forget, UNCHANGED watching
  PROVE  Core'
<1>1. Cleaner \in Callers /\ Cleaner # Viewer
  BY CallersAssumption DEF Callers
<1>2. Fits(Cleaner, Idle, history, revNum, now, view)
  <2>1. PICK hist, rev, time, seen :
          hist = history /\ rev = revNum /\ time = now /\ seen = view /\ rev \in Nat
    BY <1>1, CallIs
  <2> QED
    BY <2>1, IdleFits
<1>3. PICK local : local = Idle
  OBVIOUS
<1> QED
  BY <1>1, <1>2, <1>3, OneCallKeeps DEF Forget

LEMMA RefuseKeeps ==
  ASSUME Core, NEW c \in Callers, Refuse(c), UNCHANGED watching
  PROVE  Core'
<1>1. call[c].pc \notin {"idle", "done"}
  BY DEF Refuse, WantedBy
<1> QED
  BY <1>1, FailKeeps DEF Refuse

\* What update() does when it has succeeded, in the state that it leads to.
LEMMA ReturnFits ==
  ASSUME NEW hist, NEW rev \in Nat, NEW time, NEW seen,
         FitsAll(call, hist, rev, time, seen),
         NEW c \in Callers \ {Viewer}, Return(c, rev)
  PROVE  /\ FitsAll(call', hist, rev, time, seen)
         /\ call'[Viewer] = call[Viewer]
<1>0. PICK local : local = call[c] /\ Fits(c, local, hist, rev, time, seen)
  BY DEF FitsAll
<1>1. CASE local.spot = Nowhere
  <2>1. "done" \in PcsOf(c) \ (Making \cup {"after", "diff"}) /\ 0 \in 0..rev
    BY DEF PcsOf, Making
  <2>2. PICK new : new = [Idle EXCEPT !.pc = "done"]
    OBVIOUS
  <2>3. Fits(c, new, hist, rev, time, seen)
    BY <2>1, <2>2, RestingFits
  <2>4. call' = [call EXCEPT ![c] = new]
    BY <1>0, <1>1, <2>2 DEF Return
  <2> QED
    BY <2>3, <2>4 DEF FitsAll, Callers
<1>2. CASE local.spot # Nowhere
  <2>1. c \in Ids
    BY <1>0, <1>2 DEF Fits
  <2>2. "prepare" \in PcsOf(c) \ (Making \cup {"after", "diff"}) /\ rev \in 0..rev
    BY <2>1, CallersAssumption DEF PcsOf, Making
  <2>3. PICK new : new = [local EXCEPT !.pc = "prepare", !.want = rev]
    OBVIOUS
  <2>4. Fits(c, new, hist, rev, time, seen)
    BY <1>0, <2>2, <2>3, AskingFits
  <2>5. Goes(c, new)
    BY <1>0, <1>2, <2>3 DEF Return, Ask
  <2> QED
    BY <2>4, <2>5, GoesFits
<1> QED
  BY <1>1, <1>2

LEMMA ReturnKeeps ==
  ASSUME Core, UNCHANGED <<now, file, memory, saves, watching>>,
         NEW c \in Callers \ {Viewer}, Return(c, revNum)
  PROVE  Core'
<1>1. PICK hist, rev, time, seen :
        hist = history /\ rev = revNum /\ time = now /\ seen = view
  OBVIOUS
<1>2. FitsAll(call, hist, rev, time, seen) /\ rev \in Nat /\ Return(c, rev)
  BY <1>1, CallsFit, CallIs DEF Core
<1>3. FitsAll(call', hist, rev, time, seen) /\ call'[Viewer] = call[Viewer]
  BY <1>2, ReturnFits
<1> QED
  BY <1>1, <1>3, SavesStay, WatcherKept, CallMovesOn

LEMMA ResultKeeps ==
  ASSUME Core, NEW c \in Callers, Result(c), UNCHANGED watching
  PROVE  Core'
<1>1. c # Viewer
  BY WhoseCall DEF Result, Making
<1> QED
  BY <1>1, ReturnKeeps DEF Result

\* The changes in the file lead from one revision's contents to another's.
LEMMA FileLeads ==
  ASSUME Core, NEW base \in Nat, NEW n \in Nat, base + n <= revNum,
         \A i \in 1..n : base + i \in DOMAIN changes
  PROVE  \E hist : /\ Leads(hist, [i \in 1..n |-> changes[base + i]], n)
                   /\ hist[0] = history[base] /\ hist[n] = history[base + n]
<1>0. PICK deltas : deltas = [i \in 1..n |-> changes[base + i]]
  OBVIOUS
<1>1. /\ history \in [0..revNum -> Contents] /\ revNum \in Nat
      /\ \A r \in DOMAIN changes :
           /\ changes[r] \in Deltas
           /\ r > 0 => history[r] = ComposeCarets(history[r - 1], changes[r])
  BY DEF Core, FileTrue
<1>2. PICK hist : hist = [i \in 0..n |-> history[base + i]]
  OBVIOUS
<1>3. hist \in [0..n -> Contents]
  <2>1. \A i \in 0..n : base + i \in 0..revNum
    BY <1>1
  <2> QED
    BY <1>1, <1>2, <2>1
<1>4. deltas \in [1..n -> Deltas]
  BY <1>0, <1>1
<1>5. ASSUME NEW i \in 1..n PROVE hist[i] = ComposeCarets(hist[i - 1], deltas[i])
  <2>1. /\ base + i > 0 /\ base + i \in DOMAIN changes /\ (base + i) - 1 = base + (i - 1)
        /\ i \in 0..n /\ i - 1 \in 0..n
    OBVIOUS
  <2>2. history[base + i] = ComposeCarets(history[base + (i - 1)], changes[base + i])
    BY <1>1, <2>1
  <2>3. hist[i] = history[base + i] /\ hist[i - 1] = history[base + (i - 1)]
    BY <1>2, <2>1
  <2>4. deltas[i] = changes[base + i]
    BY <1>0
  <2> QED
    BY <2>2, <2>3, <2>4
<1>6. hist[0] = history[base] /\ hist[n] = history[base + n]
  BY <1>2
<1>7. Leads(hist, deltas, n)
  BY <1>3, <1>4, <1>5 DEF Leads
<1> QED
  BY <1>0, <1>6, <1>7

\* A rebased change takes out no carets but those that the change took out.
LEMMA Rebasing ==
  ASSUME NEW n \in Nat, NEW hist, NEW deltas, Leads(hist, deltas, n),
         NEW expected \in Contents, NEW time, LostIdle(hist[0], expected, time),
         NEW delta, delta = RebaseCarets(expected, deltas, hist[n]), delta # NotCarets
  PROVE  /\ delta \in Deltas
         /\ ComposeCarets(hist[n], delta) \in Contents
         /\ LostIdle(hist[n], ComposeCarets(hist[n], delta), time)
<1>1. PICK final : final = ComposeAllCarets(expected, deltas)
  OBVIOUS
<1>2. final # NotCarets /\ delta = DiffCarets(hist[n], final)
  BY <1>1 DEF RebaseCarets
<1>3. /\ final \in Contents
      /\ \A id \in DOMAIN hist[n] \ DOMAIN final :
           id \in DOMAIN hist[0] \ DOMAIN expected /\ hist[n][id] = hist[0][id]
  BY <1>1, <1>2, ReplayElsewhere
<1>4. PICK old \in Contents : old = hist[n]
  BY DEF Leads
<1>5. delta \in Deltas /\ ComposeCarets(old, delta) = final
  BY <1>2, <1>3, <1>4, Diffing
<1>6. LostIdle(old, final, time)
  BY <1>3, <1>4 DEF LostIdle
<1> QED
  BY <1>3, <1>4, <1>5, <1>6

\* What an attempt is going to append is for the contents it was made for.
LEMMA AttemptedFits ==
  ASSUME Core, NEW c \in Callers, call[c].pc = "attempt", Available(call[c].want),
         NEW sent, sent = call[c].change, NEW current, current = call[c].want,
         NEW delta, delta # NotCarets,
         delta = IF current = sent.revNum - 1 THEN sent.delta
                 ELSE IF InFile(sent.revNum, current)
                 THEN Rebased(call[c].expected, sent, current)
                 ELSE NotCarets
  PROVE  /\ delta \in Deltas
         /\ ComposeCarets(history[current], delta) \in Contents
         /\ LostIdle(history[current], ComposeCarets(history[current], delta), now)
<1>1. /\ MakesTrue(call[c], history, revNum, now)
      /\ sent.delta \in Deltas /\ current \in 0..revNum /\ revNum \in Nat
  BY CallIs DEF Fits, Making, ChangesUpTo
<1>2. PICK base \in Nat : base = sent.revNum - 1 /\ base <= current /\ sent.revNum = base + 1
  BY <1>1 DEF MakesTrue
<1>3. PICK expected \in Contents :
        /\ expected = call[c].expected
        /\ expected = ComposeCarets(history[base], sent.delta)
        /\ LostIdle(history[base], expected, now)
  BY <1>1, <1>2 DEF MakesTrue
<1>4. CASE current = base
  BY <1>1, <1>2, <1>3, <1>4
<1>5. CASE current # base
  <2>0. PICK n \in Nat : current = base + n
    <3>1. current \in Nat /\ base <= current
      BY <1>1, <1>2
    <3>2. current - base \in Nat /\ current = base + (current - base)
      BY <3>1
    <3> QED
      BY <3>2
  <2>1. base + n = current /\ current - sent.revNum + 1 = n
    <3>1. (base + n) - (base + 1) + 1 = n
      OBVIOUS
    <3> QED
      BY <1>2, <2>0, <3>1
  <2>2. InFile(sent.revNum, current) /\ delta = Rebased(expected, sent, current)
    BY <1>2, <1>3, <1>5
  <2>3. PICK deltas : deltas = [i \in 1..n |-> changes[base + i]]
    OBVIOUS
  <2>4. \A i \in 1..n : sent.revNum + i - 1 = base + i /\ base + i \in sent.revNum..current
    <3>1. sent.revNum = base + 1 /\ current = base + n /\ base \in Nat /\ n \in Nat
      BY <1>2, <2>1
    <3>2. \A i \in 1..n : (base + 1) + i - 1 = base + i /\ base + i \in base + 1..base + n
      OBVIOUS
    <3> QED
      BY <3>1, <3>2
  <2>5. [i \in 1..n |-> changes[sent.revNum + i - 1]] = deltas
    BY <2>3, <2>4
  <2>6. delta = RebaseCarets(expected, deltas, cache[current].contents)
    BY <2>1, <2>2, <2>5 DEF Rebased
  <2>7. \A i \in 1..n : base + i \in DOMAIN changes
    BY <2>2, <2>4 DEF InFile
  <2>8. base + n <= revNum
    BY <1>1, <2>1
  <2>9. PICK hist : Leads(hist, deltas, n) /\ hist[0] = history[base] /\ hist[n] = history[base + n]
    <3>1. \E hist : /\ Leads(hist, [i \in 1..n |-> changes[base + i]], n)
                    /\ hist[0] = history[base] /\ hist[n] = history[base + n]
      BY <2>7, <2>8, FileLeads
    <3> QED
      BY <2>3, <3>1
  <2>10. cache[current].contents = hist[n] /\ hist[n] = history[current]
    BY <2>1, <2>9, AvailableIs
  <2>11. PICK time : time = now
    OBVIOUS
  <2>12. LostIdle(hist[0], expected, time)
    BY <1>3, <2>9, <2>11
  <2>13. delta = RebaseCarets(expected, deltas, hist[n])
    BY <2>6, <2>10
  <2>14. /\ delta \in Deltas
         /\ ComposeCarets(hist[n], delta) \in Contents
         /\ LostIdle(hist[n], ComposeCarets(hist[n], delta), time)
    BY <2>9, <2>12, <2>13, Rebasing
  <2> QED
    BY <2>10, <2>11, <2>14
<1> QED
  BY <1>4, <1>5

LEMMA AttemptKeeps ==
  ASSUME Core, NEW c \in Callers, Attempt(c), UNCHANGED watching
  PROVE  Core'
<1>1. c # Viewer /\ call[c].pc = "attempt"
  BY WhoseCall DEF Attempt, Making
<1>2. PICK sent, current : sent = call[c].change /\ current = call[c].want
  OBVIOUS
<1>3. PICK delta :
        delta = IF current = sent.revNum - 1 THEN sent.delta
                ELSE IF InFile(sent.revNum, current)
                THEN Rebased(call[c].expected, sent, current)
                ELSE NotCarets
  OBVIOUS
<1>4. \/ delta = NotCarets /\ Fail(c)
      \/ delta = NoCarets /\ Return(c, revNum)
      \/ /\ delta \notin {NotCarets, NoCarets}
         /\ call' = [call EXCEPT ![c].pc = "append",
                       ![c].toAppend = [revNum |-> current + 1, delta |-> delta]]
  BY <1>2, <1>3 DEF Attempt
<1>5. CASE delta = NotCarets /\ Fail(c)
  BY <1>1, <1>5, FailKeeps DEF Attempt
<1>6. CASE delta = NoCarets /\ Return(c, revNum)
  BY <1>1, <1>6, ReturnKeeps DEF Attempt
<1>7. CASE /\ delta \notin {NotCarets, NoCarets}
           /\ call' = [call EXCEPT ![c].pc = "append",
                         ![c].toAppend = [revNum |-> current + 1, delta |-> delta]]
  <2>1. /\ delta \in Deltas
        /\ ComposeCarets(history[current], delta) \in Contents
        /\ LostIdle(history[current], ComposeCarets(history[current], delta), now)
    BY <1>1, <1>2, <1>3, <1>7, AttemptedFits DEF Attempt
  <2>2. PICK old : old = call[c]
    OBVIOUS
  <2>3. /\ Fits(c, old, history, revNum, now, view)
        /\ old \in [pc : PcsOf(c), want : 0..revNum, change : ChangesUpTo(revNum + 1),
                    expected : Contents, toAppend : ChangesUpTo(revNum + 1),
                    spot : Spots \cup {Nowhere}]
        /\ revNum \in Nat
    BY <2>2, CallIs
  <2>4. PICK change : change = [revNum |-> current + 1, delta |-> delta]
    OBVIOUS
  <2>5. PICK local : local = [old EXCEPT !.pc = "append", !.toAppend = change]
    OBVIOUS
  <2>6. call' = [call EXCEPT ![c] = local]
    BY <1>7, <2>2, <2>4, <2>5
  <2>7. current \in 0..revNum /\ current + 1 \in 1..revNum + 1 /\ (current + 1) - 1 = current
    BY <1>2, <2>2, <2>3
  <2>8. change \in ChangesUpTo(revNum + 1) /\ change.revNum = current + 1 /\ change.delta = delta
    BY <2>1, <2>4, <2>7 DEF ChangesUpTo
  <2>9. "append" \in PcsOf(c) /\ old.pc = "attempt"
    BY <1>1, <2>2, WhoseCall DEF PcsOf, Making
  <2>10. /\ local \in [pc : PcsOf(c), want : 0..revNum, change : ChangesUpTo(revNum + 1),
                       expected : Contents, toAppend : ChangesUpTo(revNum + 1),
                       spot : Spots \cup {Nowhere}]
         /\ local.pc = "append" /\ local.toAppend = change
         /\ local.want = old.want /\ local.change = old.change
         /\ local.expected = old.expected /\ local.spot = old.spot
    BY <2>3, <2>5, <2>8, <2>9
  <2>11. MakesTrue(local, history, revNum, now)
    BY <2>3, <2>9, <2>10 DEF Fits, MakesTrue, Making
  <2>12. AppendsTrue(local, history, revNum, now)
    BY <2>1, <2>7, <2>8, <2>10 DEF AppendsTrue
  <2>13. Fits(c, local, history, revNum, now, view)
    BY <2>3, <2>10, <2>11, <2>12 DEF Fits
  <2> QED
    BY <1>1, <2>6, <2>13, OneCallKeeps DEF Attempt
<1> QED
  BY <1>4, <1>5, <1>6, <1>7

\* Considering to store a snapshot of a revision that there is.
LEMMA MaybeSaveKeeps ==
  ASSUME Core, UNCHANGED file, NEW r \in 0..revNum, MaybeSave(r) \/ UNCHANGED saves
  PROVE  SavesTrue'
<1>1. CASE UNCHANGED saves
  BY <1>1, SavesStay
<1>2. CASE MaybeSave(r)
  <2>1. PICK s : s = [revNum |-> r, phase |-> "get", contents |-> NoCarets]
    OBVIOUS
  <2>2. /\ s \in [revNum : 0..revNum, phase : {"get", "write"}, contents : Contents]
        /\ s.phase # "write"
    BY <2>1, NoContents
  <2>3. saves' \subseteq saves \cup {s}
    BY <1>2, <2>1 DEF MaybeSave
  <2>4. revNum' = revNum /\ history' = history
    BY DEF file
  <2> QED
    BY <2>2, <2>3, <2>4 DEF Core, SavesTrue
<1> QED
  BY <1>1, <1>2

LEMMA LoseRaceKeeps ==
  ASSUME Core, NEW c \in Callers, LoseRace(c), UNCHANGED watching
  PROVE  Core'
<1>1. c # Viewer /\ call[c].pc = "append"
  BY WhoseCall DEF LoseRace, Making
<1>2. PICK old : old = call[c]
  OBVIOUS
<1>3. /\ Fits(c, old, history, revNum, now, view)
      /\ old \in [pc : PcsOf(c), want : 0..revNum, change : ChangesUpTo(revNum + 1),
                  expected : Contents, toAppend : ChangesUpTo(revNum + 1),
                  spot : Spots \cup {Nowhere}]
      /\ revNum \in Nat
  BY <1>2, CallIs
<1>4. MakesTrue(old, history, revNum, now) /\ AppendsTrue(old, history, revNum, now)
  BY <1>1, <1>2, <1>3 DEF Fits, Making
<1>5. PICK r \in 0..revNum : r = old.toAppend.revNum
  <2>1. old.toAppend.revNum \in 1..revNum + 1 /\ old.toAppend.revNum # revNum + 1
    BY <1>2, <1>4 DEF AppendsTrue, LoseRace
  <2>2. old.toAppend.revNum \in 0..revNum
    BY <1>3, <2>1
  <2> QED
    BY <2>2
<1>6. UNCHANGED file /\ (MaybeSave(r) \/ UNCHANGED saves)
  BY <1>2, <1>5 DEF LoseRace
<1>7. SavesTrue'
  BY <1>6, MaybeSaveKeeps
<1>8. PICK local : local = [old EXCEPT !.pc = "attempt", !.want = revNum]
  OBVIOUS
<1>9. Goes(c, local)
  BY <1>2, <1>8 DEF LoseRace, Ask
<1>10. "attempt" \in PcsOf(c) /\ revNum \in 0..revNum
  BY <1>1, <1>3, WhoseCall DEF PcsOf, Making
<1>11. /\ local \in [pc : PcsOf(c), want : 0..revNum, change : ChangesUpTo(revNum + 1),
                     expected : Contents, toAppend : ChangesUpTo(revNum + 1),
                     spot : Spots \cup {Nowhere}]
       /\ local.pc = "attempt" /\ local.want = revNum /\ local.change = old.change
       /\ local.expected = old.expected /\ local.spot = old.spot
  BY <1>3, <1>8, <1>10
<1>12. revNum >= old.change.revNum - 1
  BY <1>3, <1>4 DEF MakesTrue
<1>13. MakesTrue(local, history, revNum, now)
  BY <1>4, <1>11, <1>12 DEF MakesTrue
<1>14. Fits(c, local, history, revNum, now, view)
  BY <1>3, <1>11, <1>13 DEF Fits
<1>15. PICK hist, rev, time, seen :
         hist = history /\ rev = revNum /\ time = now /\ seen = view
  OBVIOUS
<1>16. /\ FitsAll(call, hist, rev, time, seen) /\ rev \in Nat
       /\ Fits(c, local, hist, rev, time, seen)
  BY <1>3, <1>14, <1>15, CallsFit DEF Core
<1>17. FitsAll(call', hist, rev, time, seen) /\ call'[Viewer] = call[Viewer]
  BY <1>1, <1>9, <1>16, GoesFits
<1> QED
  BY <1>7, <1>15, <1>17, WatcherKept, CallMovesOn DEF LoseRace

\* One more revision, by the change that leads to it.
LEMMA RevisionAdded ==
  ASSUME FileTrue, NEW r, r = revNum + 1, NEW delta \in Deltas,
         NEW new \in Contents, new = ComposeCarets(history[revNum], delta),
         revNum' = r, history' = Put(history, r, new), changes' = Put(changes, r, delta),
         UNCHANGED <<now, stored>>
  PROVE  FileTrue' /\ Extends(history, revNum, history', revNum')
<1>1. /\ now \in 0..MaxNow /\ revNum \in Nat
      /\ history \in [0..revNum -> Contents] /\ history[0] = NoCarets
      /\ DOMAIN changes \subseteq 0..revNum
      /\ \A x \in DOMAIN changes :
           /\ changes[x] \in Deltas
           /\ x > 0 => history[x] = ComposeCarets(history[x - 1], changes[x])
      /\ stored.revNum \in 0..revNum
      /\ stored # NoSnapshot => stored.contents = history[stored.revNum]
  BY DEF FileTrue
<1>2. /\ 0..r = 0..revNum \cup {r} /\ r \notin 0..revNum /\ r - 1 = revNum /\ r \in Nat
      /\ revNum \in 0..revNum /\ 0 \in 0..revNum
  BY <1>1
<1>3. PICK hist : hist = Put(history, r, new)
  OBVIOUS
<1>4. /\ DOMAIN hist = 0..r /\ hist[r] = new /\ hist = [x \in 0..r |-> hist[x]]
      /\ \A x \in 0..revNum : hist[x] = history[x]
  <2>1. DOMAIN history = 0..revNum /\ r \notin 0..revNum
    BY <1>1, <1>2
  <2>2. /\ DOMAIN hist = 0..revNum \cup {r} /\ hist[r] = new
        /\ hist = [x \in DOMAIN hist |-> hist[x]]
        /\ \A x \in 0..revNum : hist[x] = history[x]
    BY <1>3, <2>1 DEF Put
  <2> QED
    BY <1>2, <2>2
<1>5. hist \in [0..r -> Contents] /\ hist[0] = NoCarets
  <2>1. \A x \in 0..r : hist[x] \in Contents
    BY <1>1, <1>2, <1>4
  <2> QED
    BY <1>1, <1>2, <1>4, <2>1
<1>6. PICK chs : chs = Put(changes, r, delta)
  OBVIOUS
<1>7. /\ DOMAIN chs = DOMAIN changes \cup {r} /\ chs[r] = delta
      /\ \A x \in DOMAIN changes : chs[x] = changes[x]
      /\ chs = [x \in DOMAIN chs |-> chs[x]]
  <2>1. r \notin DOMAIN changes
    BY <1>1, <1>2
  <2> QED
    BY <1>6, <2>1 DEF Put
<1>8. DOMAIN chs \subseteq 0..r
  BY <1>1, <1>2, <1>7
<1>9. ASSUME NEW x \in DOMAIN chs
      PROVE  chs[x] \in Deltas /\ (x > 0 => hist[x] = ComposeCarets(hist[x - 1], chs[x]))
  <2>1. CASE x = r
    BY <1>2, <1>4, <1>7, <2>1
  <2>2. CASE x \in DOMAIN changes
    <3>1. x \in 0..revNum /\ (x > 0 => x - 1 \in 0..revNum)
      BY <1>1, <2>2
    <3> QED
      BY <1>1, <1>4, <1>7, <2>2, <3>1
  <2> QED
    BY <1>7, <2>1, <2>2
<1>10. revNum' = r /\ history' = hist /\ changes' = chs /\ now' = now /\ stored' = stored
  BY <1>3, <1>6
<1>11. stored.revNum \in 0..r /\ (stored # NoSnapshot => stored.contents = hist[stored.revNum])
  BY <1>1, <1>2, <1>4
<1>12. FileTrue'
  <2>1. now' \in 0..MaxNow /\ revNum' \in Nat
    BY <1>1, <1>2, <1>10
  <2>2. history' \in [0..revNum' -> Contents] /\ history'[0] = NoCarets
    BY <1>5, <1>10
  <2>3. DOMAIN changes' \subseteq 0..revNum' /\ changes' = [x \in DOMAIN changes' |-> changes'[x]]
    BY <1>7, <1>8, <1>10
  <2>4. \A x \in DOMAIN changes' :
          /\ changes'[x] \in Deltas
          /\ x > 0 => history'[x] = ComposeCarets(history'[x - 1], changes'[x])
    BY <1>9, <1>10
  <2>5. /\ stored'.revNum \in 0..revNum'
        /\ stored' # NoSnapshot => stored'.contents = history'[stored'.revNum]
    BY <1>10, <1>11
  <2> QED
    BY <2>1, <2>2, <2>3, <2>4, <2>5 DEF FileTrue
<1>13. Extends(history, revNum, history', revNum')
  BY <1>1, <1>2, <1>4, <1>5, <1>10 DEF Extends
<1> QED
  BY <1>12, <1>13

LEMMA AppendChangeKeeps ==
  ASSUME Core, NEW c \in Callers, AppendChange(c), UNCHANGED watching
  PROVE  Core'
<1>1. c # Viewer /\ call[c].pc = "append"
  BY WhoseCall DEF AppendChange, Making
<1>2. PICK old : old = call[c]
  OBVIOUS
<1>3. PICK r, delta : r = old.toAppend.revNum /\ delta = old.toAppend.delta
  OBVIOUS
<1>4. /\ r = revNum + 1 /\ revNum' = r
      /\ changes' = Put(changes, r, delta)
      /\ history' = Put(history, r, ComposeCarets(history[r - 1], delta))
      /\ MaybeSave(r)
      /\ IF old.toAppend = old.change
         THEN Return(c, r)
         ELSE Goes(c, [old EXCEPT !.pc = "result", !.want = r])
      /\ UNCHANGED <<now, stored, memory, troubles>>
  BY <1>2, <1>3 DEF AppendChange
<1>5. /\ Fits(c, old, history, revNum, now, view)
      /\ old \in [pc : PcsOf(c), want : 0..revNum, change : ChangesUpTo(revNum + 1),
                  expected : Contents, toAppend : ChangesUpTo(revNum + 1),
                  spot : Spots \cup {Nowhere}]
      /\ revNum \in Nat /\ now \in Nat
  BY <1>2, CallIs
<1>6. delta \in Deltas /\ r - 1 = revNum /\ r \in Nat
  BY <1>3, <1>4, <1>5 DEF ChangesUpTo
<1>7. PICK new \in Contents : new = ComposeCarets(history[revNum], delta)
  <2>1. AppendsTrue(old, history, revNum, now)
    BY <1>1, <1>2, <1>5 DEF Fits
  <2>2. ComposeCarets(history[revNum], delta) \in Contents
    BY <1>3, <1>6, <2>1 DEF AppendsTrue
  <2> QED
    BY <2>2
<1>8. history' = Put(history, r, new)
  BY <1>4, <1>6, <1>7
<1>9. FileTrue' /\ Extends(history, revNum, history', revNum')
  BY <1>4, <1>6, <1>7, <1>8, RevisionAdded DEF Core
<1>10. SavesTrue'
  <2>1. PICK s : s = [revNum |-> r, phase |-> "get", contents |-> NoCarets]
    OBVIOUS
  <2>2. /\ s \in [revNum : 0..r, phase : {"get", "write"}, contents : Contents]
        /\ s.phase # "write"
    BY <1>6, <2>1, NoContents
  <2>3. saves' \subseteq saves \cup {s}
    BY <1>4, <2>1 DEF MaybeSave
  <2>4. /\ saves \subseteq [revNum : 0..revNum, phase : {"get", "write"}, contents : Contents]
        /\ \A x \in saves : x.phase = "write" => x.contents = history[x.revNum]
    BY DEF Core, SavesTrue
  <2>5. \A x \in 0..revNum : x \in 0..r /\ history'[x] = history[x]
    BY <1>4, <1>5, <1>9 DEF Extends
  <2>6. ASSUME NEW x \in saves'
        PROVE  /\ x \in [revNum : 0..r, phase : {"get", "write"}, contents : Contents]
               /\ x.phase = "write" => x.contents = history'[x.revNum]
    BY <2>2, <2>3, <2>4, <2>5
  <2>7. revNum' = r
    BY <1>4
  <2>8. saves' \subseteq [revNum : 0..revNum', phase : {"get", "write"}, contents : Contents]
    BY <2>6, <2>7
  <2> QED
    BY <2>6, <2>8 DEF SavesTrue
<1>11. PICK hist, rev, time, seen, hist2 :
         /\ hist = history /\ rev = revNum /\ time = now /\ seen = view
         /\ hist2 = history'
  OBVIOUS
<1>12. FitsAll(call, hist2, r, time, seen)
  <2>1. FitsAll(call, hist, rev, time, seen) /\ Extends(hist, rev, hist2, r)
    BY <1>4, <1>9, <1>11, CallsFit DEF Core
  <2>2. time \in Nat /\ time <= time
    BY <1>5, <1>11
  <2> QED
    BY <2>1, <2>2, AllFitLater
<1>13. FitsAll(call', hist2, r, time, seen) /\ call'[Viewer] = call[Viewer]
  <2>1. CASE Return(c, r)
    BY <1>1, <1>6, <1>12, <2>1, ReturnFits
  <2>2. CASE Goes(c, [old EXCEPT !.pc = "result", !.want = r])
    <3>1. PICK local : local = [old EXCEPT !.pc = "result", !.want = r]
      OBVIOUS
    <3>2. Fits(c, old, hist2, r, time, seen)
      BY <1>2, <1>12 DEF FitsAll
    <3>3. "result" \in PcsOf(c) /\ r \in 0..r
      BY <1>1, <1>2, <1>6, WhoseCall DEF PcsOf, Making
    <3>4. /\ local \in [pc : PcsOf(c), want : 0..r, change : ChangesUpTo(r + 1),
                        expected : Contents, toAppend : ChangesUpTo(r + 1),
                        spot : Spots \cup {Nowhere}]
          /\ local.pc = "result" /\ local.want = r /\ local.change = old.change
          /\ local.expected = old.expected /\ local.spot = old.spot
      BY <3>1, <3>2, <3>3 DEF Fits
    <3>5. MakesTrue(old, hist2, r, time)
      BY <1>1, <1>2, <3>2 DEF Fits, Making
    <3>6. MakesTrue(local, hist2, r, time)
      BY <1>6, <3>4, <3>5 DEF MakesTrue
    <3>7. Fits(c, local, hist2, r, time, seen)
      BY <3>2, <3>4, <3>6 DEF Fits
    <3>8. Goes(c, local)
      BY <2>2, <3>1
    <3> QED
      BY <1>1, <1>6, <1>12, <3>7, <3>8, GoesFits
  <2> QED
    BY <1>4, <2>1, <2>2
<1>14. FitsAll(call', history', revNum', now', view)
  BY <1>4, <1>11, <1>13
<1>15. call'[Viewer].pc # "idle" /\ Seen => CaughtUp
  BY <1>13, WatcherKept
<1> QED
  BY <1>4, <1>9, <1>10, <1>14, <1>15, PartMovesOn

LEMMA StepKeeps ==
  ASSUME Core, NEW c \in Callers, Step(c), UNCHANGED watching
  PROVE  Core'
BY LookKeeps, IntroduceKeeps, PrepareKeeps, AttemptKeeps, AppendChangeKeeps,
   LoseRaceKeeps, ResultKeeps, RefuseKeeps
   DEF Step

-----------------------------------------------------------------------------
(* Storing snapshots *)

LEMMA NoCallMoves ==
  ASSUME Core, UNCHANGED <<call, view>>
  PROVE  /\ FitsAll(call', history, revNum, now, view)
         /\ call'[Viewer].pc # "idle" /\ Seen => CaughtUp
BY CallsFit DEF Core, ViewTrue

LEMMA SaveKeeps ==
  ASSUME Core, NEW s \in saves, Save(s), UNCHANGED watching
  PROVE  Core'
<1>1. /\ saves \subseteq [revNum : 0..revNum, phase : {"get", "write"}, contents : Contents]
      /\ \A x \in saves : x.phase = "write" => x.contents = history[x.revNum]
  BY DEF Core, SavesTrue
<1>2. UNCHANGED <<now, memory, call, watching, revNum, history>>
  BY DEF Save, GetSnapshotToSave, WriteStoredSnapshot, LoseSave, file
<1>3. /\ FitsAll(call', history, revNum, now, view)
      /\ call'[Viewer].pc # "idle" /\ Seen => CaughtUp
  BY <1>2, NoCallMoves DEF watching
<1>4. CASE GetSnapshotToSave(s)
  <2>1. CASE saves' = saves \ {s}
    <3>1. SavesTrue'
      BY <1>1, <1>2, <2>1 DEF SavesTrue
    <3> QED
      BY <1>2, <1>3, <1>4, <3>1, CallMovesOn DEF GetSnapshotToSave
  <2>2. CASE /\ Available(s.revNum)
             /\ saves' = (saves \ {s}) \cup
                  {[s EXCEPT !.phase = "write", !.contents = cache[s.revNum].contents]}
    <3>1. PICK contents \in Contents : contents = cache[s.revNum].contents
                                       /\ contents = history[s.revNum]
      BY <2>2, AvailableIs
    <3>2. PICK new : new = [s EXCEPT !.phase = "write", !.contents = contents]
      OBVIOUS
    <3>3. /\ new \in [revNum : 0..revNum, phase : {"get", "write"}, contents : Contents]
          /\ new.contents = history[new.revNum]
      BY <1>1, <3>1, <3>2
    <3>4. saves' = (saves \ {s}) \cup {new}
      BY <2>2, <3>1, <3>2
    <3>5. SavesTrue'
      BY <1>1, <1>2, <3>3, <3>4 DEF SavesTrue
    <3> QED
      BY <1>2, <1>3, <1>4, <3>5, CallMovesOn DEF GetSnapshotToSave
  <2> QED
    BY <1>4, <2>1, <2>2 DEF GetSnapshotToSave
<1>5. CASE LoseSave(s)
  <2>1. SavesTrue'
    BY <1>1, <1>2, <1>5 DEF SavesTrue, LoseSave
  <2> QED
    BY <1>2, <1>3, <1>5, <2>1, CallMovesOn DEF LoseSave
<1>6. CASE WriteStoredSnapshot(s)
  <2>1. s.revNum \in 0..revNum /\ s.contents = history[s.revNum]
    BY <1>1, <1>6 DEF WriteStoredSnapshot
  <2>2. stored' = [revNum |-> s.revNum, contents |-> s.contents]
    BY <1>6 DEF WriteStoredSnapshot
  <2>3. PICK kept : kept = {r \in DOMAIN changes : r >= DeleteBefore(s.revNum)}
    OBVIOUS
  <2>4. changes' = [r \in kept |-> changes[r]] /\ kept \subseteq DOMAIN changes
    BY <1>6, <2>3 DEF WriteStoredSnapshot
  <2>5. DOMAIN changes' = kept /\ \A r \in kept : changes'[r] = changes[r]
    BY <2>4
  <2>6. FileTrue
    BY DEF Core
  <2>7. FileTrue'
    <3>1. /\ now' \in 0..MaxNow /\ revNum' \in Nat
          /\ history' \in [0..revNum' -> Contents] /\ history'[0] = NoCarets
      BY <1>2, <2>6 DEF FileTrue
    <3>2. /\ DOMAIN changes' \subseteq 0..revNum'
          /\ changes' = [r \in DOMAIN changes' |-> changes'[r]]
      BY <1>2, <2>4, <2>5, <2>6 DEF FileTrue
    <3>3. \A r \in DOMAIN changes' :
            /\ changes'[r] \in Deltas
            /\ r > 0 => history'[r] = ComposeCarets(history'[r - 1], changes'[r])
      BY <1>2, <2>4, <2>5, <2>6 DEF FileTrue
    <3>4. stored'.revNum \in 0..revNum' /\ stored'.contents = history'[stored'.revNum]
      BY <1>2, <2>1, <2>2
    <3> QED
      BY <3>1, <3>2, <3>3, <3>4 DEF FileTrue
  <2>8. SavesTrue'
    BY <1>1, <1>2, <1>6 DEF SavesTrue, WriteStoredSnapshot
  <2>9. Extends(history, revNum, history', revNum')
    BY <1>2, ExtendsItself DEF Core
  <2>10. FitsAll(call', history', revNum', now', view)
    BY <1>2, <1>3
  <2> QED
    BY <1>2, <1>3, <2>7, <2>8, <2>9, <2>10, PartMovesOn
<1> QED
  BY <1>4, <1>5, <1>6 DEF Save

-----------------------------------------------------------------------------
(* The snapshot manager *)

LEMMA WantedThere ==
  ASSUME Core, NEW r \in Wanted
  PROVE  r \in 0..revNum
<1>1. CASE \E s \in saves : r = s.revNum
  BY <1>1 DEF Core, SavesTrue
<1>2. CASE \E c \in Callers : r \in WantedBy(c)
  <2>1. PICK c \in Callers : r \in WantedBy(c)
    BY <1>2
  <2>2. /\ call[c].want \in 0..revNum
        /\ call[c].pc = "diff" => call[c].change.revNum = view.revNum
    BY CallIs DEF Fits
  <2>3. view.revNum \in 0..revNum
    BY DEF Core, ViewTrue
  <2> QED
    BY <2>1, <2>2, <2>3 DEF WantedBy
<1> QED
  BY <1>1, <1>2 DEF Wanted

LEMMA GreatestBase ==
  ASSUME NEW r \in Nat, NEW S \in SUBSET (0..r), S # {}
  PROVE  MaxOf(S) \in S
<1> DEFINE Below == {r - x : x \in S}
<1>0. \A x \in S : x \in 0..r
  OBVIOUS
<1>1. Below \in SUBSET Nat /\ Below # {}
  BY <1>0
<1>2. PICK m \in Below : \A k \in Below : m <= k
  BY <1>1, LeastNatural
<1>3. PICK x \in S : m = r - x
  BY <1>2
<1>4. ASSUME NEW y \in S PROVE y <= x
  <2>1. m <= r - y /\ x \in 0..r /\ y \in 0..r
    BY <1>0, <1>2
  <2> QED
    BY <1>3, <2>1
<1> QED
  BY <1>4 DEF MaxOf

\* Snapshots in memory, seen from the contents so far.
CacheFits(snapshots, hist, rev) ==
  /\ DOMAIN snapshots \subseteq 0..rev
  /\ \A r \in DOMAIN snapshots :
       /\ snapshots[r] \in [rejected : BOOLEAN, contents : Contents]
       /\ ~ snapshots[r].rejected => snapshots[r].contents = hist[r]

LEMMA CachedMore ==
  ASSUME NEW hist, NEW rev, NEW snapshots, CacheFits(snapshots, hist, rev), NEW r \in 0..rev,
         NEW promise \in [rejected : BOOLEAN, contents : Contents],
         ~ promise.rejected => promise.contents = hist[r]
  PROVE  CacheFits(Put(snapshots, r, promise), hist, rev)
<1>1. PICK more : more = Put(snapshots, r, promise)
  OBVIOUS
<1>2. /\ DOMAIN more = DOMAIN snapshots \cup {r} /\ more[r] = promise
      /\ \A x \in DOMAIN snapshots \ {r} : more[x] = snapshots[x]
  BY <1>1 DEF Put
<1>3. CacheFits(more, hist, rev)
  BY <1>2 DEF CacheFits
<1> QED
  BY <1>1, <1>3

\* A step of the manager leaves everything but the cache as it is.
LEMMA CacheMovesOn ==
  ASSUME Core, UNCHANGED <<now, file, call, saves, watching>>,
         CacheFits(cache', history, revNum)
  PROVE  Core'
<1>1. FileTrue' /\ SavesTrue'
  BY SavesStay DEF Core, FileTrue, file
<1>2. CacheTrue'
  BY DEF CacheFits, CacheTrue, file
<1>3. CallsTrue'
  BY DEF Core, CallsTrue, file, watching
<1>4. ViewTrue' /\ ScreenTrue'
  BY DEF Core, ViewTrue, ScreenTrue, watching, file, Seen, CaughtUp
<1> QED
  BY <1>1, <1>2, <1>3, <1>4 DEF Core

LEMMA CacheIs ==
  ASSUME Core
  PROVE  CacheFits(cache, history, revNum) /\ revNum \in Nat /\ history \in [0..revNum -> Contents]
BY DEF Core, CacheTrue, FileTrue, CacheFits

LEMMA Promises ==
  /\ \A c \in Contents :
       /\ Settled(c) \in [rejected : BOOLEAN, contents : Contents]
       /\ Settled(c).contents = c
  /\ Rejected \in [rejected : BOOLEAN, contents : Contents] /\ Rejected.rejected
BY NoContents DEF Settled, Rejected

LEMMA FailRetrievalKeeps ==
  ASSUME Core, FailRetrieval, UNCHANGED watching
  PROVE  Core'
<1>1. CacheFits(cache', history, revNum)
  BY CacheIs DEF FailRetrieval
<1> QED
  BY <1>1, CacheMovesOn DEF FailRetrieval

\* One more snapshot in memory, or the promise of one that was rejected.
LEMMA OneSnapshotKeeps ==
  ASSUME Core, UNCHANGED <<now, file, call, saves, watching>>,
         NEW r \in 0..revNum, NEW promise \in [rejected : BOOLEAN, contents : Contents],
         ~ promise.rejected => promise.contents = history[r],
         cache' = Put(cache, r, promise)
  PROVE  Core'
<1>1. PICK hist, rev, snapshots : hist = history /\ rev = revNum /\ snapshots = cache
  OBVIOUS
<1>2. /\ CacheFits(snapshots, hist, rev) /\ r \in 0..rev
      /\ ~ promise.rejected => promise.contents = hist[r]
  BY <1>1, CacheIs
<1>3. CacheFits(Put(snapshots, r, promise), hist, rev)
  BY <1>2, CachedMore
<1>4. CacheFits(cache', history, revNum)
  BY <1>1, <1>3
<1> QED
  BY <1>4, CacheMovesOn

\* The stored snapshot is read, or, where there is none, change 0.
LEMMA ZeroKeeps ==
  ASSUME Core, UNCHANGED <<now, file, call, saves, watching>>,
         cache' = Put(cache, 0, Settled(NoCarets))
  PROVE  Core'
<1>1. PICK promise \in [rejected : BOOLEAN, contents : Contents] :
        promise = Settled(NoCarets) /\ promise.contents = history[0]
  BY Promises, NoContents DEF Core, FileTrue
<1>2. 0 \in 0..revNum
  BY CacheIs
<1> QED
  BY <1>1, <1>2, OneSnapshotKeeps

LEMMA RetrieveKeeps ==
  ASSUME Core, Retrieve, UNCHANGED watching
  PROVE  Core'
<1>1. UNCHANGED <<now, file, call, saves, watching>>
  BY DEF Retrieve
<1>2. CASE stored # NoSnapshot /\ cache' = Put(cache, stored.revNum, Settled(stored.contents))
  <2>1. PICK r \in 0..revNum : r = stored.revNum
    BY DEF Core, FileTrue
  <2>2. PICK c \in Contents : c = stored.contents /\ c = history[r]
    BY <1>2, <2>1 DEF Core, FileTrue
  <2>3. PICK promise \in [rejected : BOOLEAN, contents : Contents] :
          promise = Settled(c) /\ promise.contents = history[r]
    BY <2>2, Promises
  <2>4. cache' = Put(cache, r, promise)
    BY <1>2, <2>1, <2>2, <2>3
  <2> QED
    BY <1>1, <2>3, <2>4, OneSnapshotKeeps
<1>3. CASE cache' = Put(cache, 0, Settled(NoCarets))
  BY <1>1, <1>3, ZeroKeeps
<1> QED
  BY <1>2, <1>3 DEF Retrieve

LEMMA MakeSnapshot0Keeps ==
  ASSUME Core, MakeSnapshot0, UNCHANGED watching
  PROVE  Core'
BY ZeroKeeps DEF MakeSnapshot0

\* What is made from a true snapshot is true.
LEMMA MakingIsTrue ==
  ASSUME Core, NEW r \in 0..revNum, NEW base \in 0..r, NEW contents, contents = history[base]
  PROVE  /\ Make(base, contents, r) \in [rejected : BOOLEAN, contents : Contents]
         /\ ~ Make(base, contents, r).rejected => Make(base, contents, r).contents = history[r]
<1>1. CASE ~ InFile(base + 1, r)
  BY <1>1, Promises DEF Make
<1>2. CASE InFile(base + 1, r)
  <2>1. revNum \in Nat /\ base \in Nat /\ r \in Nat /\ base <= r /\ r <= revNum
    BY CallIs DEF Core, FileTrue
  <2>2. PICK n \in Nat : r = base + n
    <3>1. r - base \in Nat /\ r = base + (r - base)
      BY <2>1
    <3> QED
      BY <3>1
  <2>3. r + 1 - (base + 1) = n /\ base + n <= revNum
    BY <2>1, <2>2
  <2>4. \A i \in 1..n : (base + 1) + i - 1 = base + i /\ base + i \in base + 1..base + n
    BY <2>1
  <2>5. PICK deltas : deltas = [i \in 1..n |-> changes[base + i]]
    OBVIOUS
  <2>6. [i \in 1..n |-> changes[base + 1 + i - 1]] = deltas
    BY <2>4, <2>5
  <2>7. Composed(contents, base + 1, r) = ComposeAllCarets(contents, deltas)
    BY <2>3, <2>6 DEF Composed
  <2>8. \A i \in 1..n : base + i \in DOMAIN changes
    BY <1>2, <2>2, <2>4 DEF InFile
  <2>9. PICK hist : Leads(hist, deltas, n) /\ hist[0] = history[base] /\ hist[n] = history[base + n]
    <3>1. \E hist : /\ Leads(hist, [i \in 1..n |-> changes[base + i]], n)
                    /\ hist[0] = history[base] /\ hist[n] = history[base + n]
      BY <2>1, <2>3, <2>8, FileLeads
    <3> QED
      BY <2>5, <3>1
  <2>10. ComposeAllCarets(hist[0], deltas) = hist[n] /\ hist[n] \in Contents
    <3>1. Leads(hist, deltas, n) /\ n \in Nat
      BY <2>1, <2>9
    <3>2. ComposeAllCarets(hist[0], deltas) = hist[n]
      BY <3>1, Replay
    <3> QED
      BY <3>1, <3>2 DEF Leads
  <2>11. PICK c \in Contents : c = history[r] /\ Composed(contents, base + 1, r) = c
    BY <2>2, <2>7, <2>9, <2>10
  <2>12. Make(base, contents, r) = Settled(c)
    BY <1>2, <2>11 DEF Make
  <2> QED
    BY <2>11, <2>12, Promises
<1> QED
  BY <1>1, <1>2

LEMMA MakeSnapshotKeeps ==
  ASSUME Core, NEW r \in Wanted, MakeSnapshot(r), UNCHANGED watching
  PROVE  Core'
<1>1. r \in 0..revNum /\ r \in Nat
  BY WantedThere DEF Core, FileTrue
<1>2. PICK bases : bases = Bases(r)
  OBVIOUS
<1>3. bases # {} /\ bases \in SUBSET (0..r) /\ bases \subseteq DOMAIN cache
  BY <1>1, <1>2 DEF MakeSnapshot, Bases, Core, CacheTrue
<1>4. PICK base \in bases : base = MaxOf(bases)
  BY <1>1, <1>3, GreatestBase
<1>5. PICK promise : promise = IF cache[base].rejected THEN Rejected
                               ELSE Make(base, cache[base].contents, r)
  OBVIOUS
<1>6. /\ promise \in [rejected : BOOLEAN, contents : Contents]
      /\ ~ promise.rejected => promise.contents = history[r]
  <2>1. CASE cache[base].rejected
    BY <1>5, <2>1, Promises
  <2>2. CASE ~ cache[base].rejected
    <3>1. base \in 0..r /\ cache[base].contents = history[base]
      BY <1>3, <1>4, <2>2 DEF Core, CacheTrue
    <3>2. PICK contents : contents = cache[base].contents /\ contents = history[base]
      BY <3>1
    <3>3. /\ Make(base, contents, r) \in [rejected : BOOLEAN, contents : Contents]
          /\ ~ Make(base, contents, r).rejected =>
               Make(base, contents, r).contents = history[r]
      BY <1>1, <3>1, <3>2, MakingIsTrue
    <3> QED
      BY <1>5, <2>2, <3>2, <3>3
  <2> QED
    BY <2>1, <2>2
<1>7. cache' = Put(cache, r, promise)
  BY <1>2, <1>4, <1>5 DEF MakeSnapshot
<1> QED
  BY <1>1, <1>6, <1>7, OneSnapshotKeeps DEF MakeSnapshot

LEMMA FailSnapshotKeeps ==
  ASSUME Core, NEW r \in Wanted, FailSnapshot(r), UNCHANGED watching
  PROVE  Core'
<1>1. r \in 0..revNum
  BY WantedThere
<1>2. PICK promise \in [rejected : BOOLEAN, contents : Contents] :
        promise = Rejected /\ promise.rejected
  BY Promises
<1>3. cache' = Put(cache, r, promise)
  BY <1>2 DEF FailSnapshot
<1> QED
  BY <1>1, <1>2, <1>3, OneSnapshotKeeps DEF FailSnapshot

-----------------------------------------------------------------------------
(* The clock, and a new process *)

LEMMA TickKeeps ==
  ASSUME Core, Tick, UNCHANGED watching
  PROVE  Core'
<1>1. UNCHANGED <<file, memory, call, saves, watching>> /\ now < MaxNow /\ now' = now + 1
  BY DEF Tick
<1>2. FileTrue /\ now \in 0..MaxNow /\ MaxNow \in Nat
  BY TimesAssumption DEF Core, FileTrue
<1>3. now' \in 0..MaxNow /\ now' \in Nat /\ now \in Nat /\ now <= now'
  BY <1>1, <1>2
<1>4. FileTrue'
  BY <1>1, <1>2, <1>3 DEF FileTrue, file
<1>5. SavesTrue'
  BY <1>1, SavesStay
<1>6. Extends(history, revNum, history', revNum')
  BY <1>1, <1>2, ExtendsItself DEF file
<1>7. PICK calls, hist, rev, time, seen, time2 :
        /\ calls = call /\ hist = history /\ rev = revNum /\ time = now /\ seen = view
        /\ time2 = now'
  OBVIOUS
<1>8. FitsAll(calls, hist, rev, time2, seen)
  <2>1. FitsAll(calls, hist, rev, time, seen) /\ Extends(hist, rev, hist, rev)
    BY <1>2, <1>7, CallsFit, ExtendsItself DEF Core
  <2>2. time \in Nat /\ time2 \in Nat /\ time <= time2
    BY <1>3, <1>7
  <2> QED
    BY <2>1, <2>2, AllFitLater
<1>9. FitsAll(call', history', revNum', now', view)
  BY <1>1, <1>7, <1>8 DEF file
<1>10. call'[Viewer].pc # "idle" /\ Seen => CaughtUp
  BY <1>1, NoCallMoves DEF watching
<1> QED
  BY <1>1, <1>4, <1>5, <1>6, <1>9, <1>10, PartMovesOn

LEMMA FailedFits ==
  ASSUME NEW c \in Callers, NEW local, NEW hist, NEW rev \in Nat, NEW time, NEW seen,
         Fits(c, local, hist, rev, time, seen)
  PROVE  Fits(c, Failed(local), hist, rev, time, seen)
<1>1. local.pc \in PcsOf(c)
  BY DEF Fits
<1>2. PICK pc : pc = IF local.pc \in {"after", "diff"} THEN "trouble" ELSE "failed"
  OBVIOUS
<1>3. pc \in PcsOf(c) \ (Making \cup {"after", "diff"})
  BY <1>1, <1>2 DEF PcsOf, Making
<1>4. Fits(c, [Idle EXCEPT !.pc = pc], hist, rev, time, seen)
  <2>1. 0 \in 0..rev
    OBVIOUS
  <2> QED
    BY <1>3, <2>1, RestingFits
<1>5. Failed(local) = [Idle EXCEPT !.pc = pc]
  BY <1>2 DEF Failed
<1> QED
  BY <1>4, <1>5

LEMMA RestartKeeps ==
  ASSUME Core, Restart, UNCHANGED watching
  PROVE  Core'
<1>1. UNCHANGED <<now, file, watching>> /\ cache' = <<>> /\ saves' = {}
  BY DEF Restart
<1>2. FileTrue' /\ SavesTrue'
  BY <1>1 DEF Core, FileTrue, SavesTrue, file
<1>3. CacheTrue'
  <2>1. DOMAIN cache' = {}
    BY <1>1
  <2> QED
    BY <2>1 DEF CacheTrue
<1>4. PICK calls, hist, rev, time, seen :
        calls = call /\ hist = history /\ rev = revNum /\ time = now /\ seen = view
  OBVIOUS
<1>5. FitsAll(calls, hist, rev, time, seen) /\ rev \in Nat
  BY <1>4, CallsFit DEF Core, FileTrue
<1>6. PICK next : next = [c \in Callers |->
                            IF calls[c].pc \in {"idle", "done", "trouble"} THEN calls[c]
                            ELSE Failed(calls[c])]
  OBVIOUS
<1>7. FitsAll(next, hist, rev, time, seen)
  BY <1>5, <1>6, FailedFits DEF FitsAll
<1>8. call' = next
  BY <1>4, <1>6 DEF Restart
<1>9. CallsTrue'
  BY <1>1, <1>4, <1>7, <1>8 DEF CallsTrue, FitsAll, file, watching
<1>10. call'[Viewer].pc # "idle" => call[Viewer].pc # "idle"
  BY <1>4, <1>6, <1>8 DEF Callers
<1>11. ViewTrue' /\ ScreenTrue'
  BY <1>1, <1>10 DEF Core, ViewTrue, ScreenTrue, watching, file, Seen, CaughtUp
<1> QED
  BY <1>2, <1>3, <1>9, <1>11 DEF Core

LEMMA ServerKeeps ==
  ASSUME Core, ServerNext \/ Tick \/ Restart, UNCHANGED watching
  PROVE  Core'
BY StepKeeps, RetrieveKeeps, MakeSnapshot0Keeps, MakeSnapshotKeeps, FailRetrievalKeeps,
   FailSnapshotKeeps, RemoveIdleKeeps, ForgetKeeps, SaveKeeps, TickKeeps, RestartKeeps
   DEF ServerNext, Manage

-----------------------------------------------------------------------------
(* The clients that move carets *)

LEMMA StillKeeps ==
  ASSUME Core, UNCHANGED <<serverVars, watching>>
  PROVE  Core'
BY DEF Core, FileTrue, CacheTrue, SavesTrue, CallsTrue, ViewTrue, ScreenTrue,
       serverVars, file, memory, watching, Seen, CaughtUp

LEMMA SendKeeps ==
  ASSUME IInv, NEW c \in Ids, Send(c)
  PROVE  IInv'
<1>1. PICK spot \in Spots : spot = tracker[c].latestCaret
  BY DEF IInv, TrackersTrue, Send
<1>2. c \in Callers /\ c # Viewer /\ c # Cleaner
  BY CallersAssumption DEF Callers
<1>3. PICK old : old = call[c]
  OBVIOUS
<1>4. Fits(c, old, history, revNum, now, view) /\ revNum \in Nat
  BY <1>2, <1>3, CallIs DEF IInv
<1>5. PICK hist, rev, time, seen :
        hist = history /\ rev = revNum /\ time = now /\ seen = view
  OBVIOUS
<1>6. PICK asks : asks = [old EXCEPT !.pc = "look", !.want = rev]
  OBVIOUS
<1>7. Fits(c, asks, hist, rev, time, seen)
  <2>1. "look" \in PcsOf(c) \ (Making \cup {"after", "diff"}) /\ rev \in 0..rev /\ rev \in Nat
    BY <1>2, <1>4, <1>5 DEF PcsOf, Making
  <2>2. Fits(c, old, hist, rev, time, seen)
    BY <1>4, <1>5
  <2> QED
    BY <1>6, <2>1, <2>2, AskingFits
<1>8. PICK local : local = [asks EXCEPT !.spot = spot]
  OBVIOUS
<1>9. Fits(c, local, hist, rev, time, seen)
  <2>1. asks.pc = "look"
    BY <1>4, <1>6 DEF Fits
  <2>2. /\ local \in [pc : PcsOf(c), want : 0..rev, change : ChangesUpTo(rev + 1),
                      expected : Contents, toAppend : ChangesUpTo(rev + 1),
                      spot : Spots \cup {Nowhere}]
        /\ local.pc = "look"
    BY <1>7, <1>8, <2>1 DEF Fits
  <2> QED
    BY <2>2 DEF Fits, Making
<1>10. Goes(c, local)
  BY <1>1, <1>3, <1>5, <1>6, <1>8 DEF Send, CaretUpdate, Ask
<1>11. UNCHANGED <<now, file, memory, saves, watching>>
  BY DEF Send, watching
<1>12. Core'
  BY <1>2, <1>5, <1>9, <1>10, <1>11, GoesKeeps DEF IInv
<1>13. TrackersTrue'
  BY DEF IInv, TrackersTrue, Send
<1> QED
  BY <1>12, <1>13 DEF IInv

LEMMA SentKeeps ==
  ASSUME Core, NEW c \in Callers, call' = [call EXCEPT ![c] = Idle],
         UNCHANGED <<now, file, memory, saves, watching>>
  PROVE  Core'
<1>0. Idle.pc = "idle"
  BY DEF Idle
<1>1. PICK local : local = Idle
  OBVIOUS
<1>2. Fits(c, local, history, revNum, now, view)
  <2>1. PICK hist, rev, time, seen :
          hist = history /\ rev = revNum /\ time = now /\ seen = view /\ rev \in Nat
    BY CallIs
  <2> QED
    BY <1>1, <2>1, IdleFits
<1> QED
  BY <1>0, <1>1, <1>2, OneCallKeeps

LEMMA UploadKeeps ==
  ASSUME IInv, NEW c \in Ids, Upload(c) \/ \E spot \in Spots : Move(c, spot)
  PROVE  IInv'
<1>1. CASE Send(c)
  BY <1>1, SendKeeps
<1>2. CASE Sent(c)
  <2>1. Core'
    BY <1>2, SentKeeps DEF IInv, Sent, Callers, client, watching
  <2>2. TrackersTrue'
    BY <1>2 DEF IInv, TrackersTrue, Sent, client
  <2> QED
    BY <2>1, <2>2 DEF IInv
<1>3. CASE StopTracking(c)
  <2>1. Core'
    BY <1>3, StillKeeps DEF IInv, StopTracking, watching
  <2>2. TrackersTrue'
    BY <1>3 DEF IInv, TrackersTrue, StopTracking
  <2> QED
    BY <2>1, <2>2 DEF IInv
<1>4. ASSUME NEW spot \in Spots, Move(c, spot) PROVE IInv'
  <2>1. Core'
    BY <1>4, StillKeeps DEF IInv, Move, watching
  <2>2. TrackersTrue'
    BY <1>4 DEF IInv, TrackersTrue, Move
  <2> QED
    BY <2>1, <2>2 DEF IInv
<1> QED
  BY <1>1, <1>2, <1>3, <1>4 DEF Upload

-----------------------------------------------------------------------------
(* The client that watches *)

LEMMA WatcherIs ==
  ASSUME Core
  PROVE  /\ Viewer \in Callers
         /\ Fits(Viewer, call[Viewer], history, revNum, now, view)
         /\ call[Viewer].want \in 0..revNum /\ revNum \in Nat
         /\ call[Viewer].pc # "idle" /\ Seen => CaughtUp
         /\ call[Viewer].pc \in {"after", "diff"} => Seen
         /\ view.revNum \in 0..revNum
         /\ Seen => view.contents = history[view.revNum]
<1>1. Viewer \in Callers
  BY DEF Callers
<1>2. Fits(Viewer, call[Viewer], history, revNum, now, view) /\ revNum \in Nat
  BY <1>1, CallIs
<1> QED
  BY <1>1, <1>2 DEF Fits, Seen, Core, ViewTrue

LEMMA WatcherGoesKeeps ==
  ASSUME Core, UNCHANGED <<now, file, memory, saves, watching>>,
         NEW local, Goes(Viewer, local), Seen => CaughtUp,
         Fits(Viewer, local, history, revNum, now, view)
  PROVE  Core'
<1>1. PICK hist, rev, time, seen :
        hist = history /\ rev = revNum /\ time = now /\ seen = view
  OBVIOUS
<1>2. /\ FitsAll(call, hist, rev, time, seen) /\ rev \in Nat /\ Viewer \in Callers
      /\ Fits(Viewer, local, hist, rev, time, seen)
  BY <1>1, CallsFit, WatcherIs DEF Core
<1>3. FitsAll(call', hist, rev, time, seen)
  BY <1>2, GoesFits
<1> QED
  BY <1>1, <1>3, SavesStay, CallMovesOn

LEMMA AskSnapshotKeeps ==
  ASSUME Core, AskSnapshot
  PROVE  Core'
<1>1. PICK old, hist, rev, time, seen :
        old = call[Viewer] /\ hist = history /\ rev = revNum /\ time = now /\ seen = view
  OBVIOUS
<1>2. Fits(Viewer, old, hist, rev, time, seen) /\ rev \in Nat /\ rev \in 0..rev
  BY <1>1, WatcherIs
<1>3. "view" \in PcsOf(Viewer) \ (Making \cup {"after", "diff"})
  BY DEF PcsOf, Making
<1>4. PICK local : local = [old EXCEPT !.pc = "view", !.want = rev]
  OBVIOUS
<1>5. Fits(Viewer, local, hist, rev, time, seen)
  BY <1>2, <1>3, <1>4, AskingFits
<1>6. Goes(Viewer, local)
  BY <1>1, <1>4 DEF AskSnapshot, Ask
<1>7. Seen => CaughtUp
  BY WatcherIs DEF AskSnapshot
<1>8. UNCHANGED <<now, file, memory, saves, watching>>
  BY DEF AskSnapshot, client, watching
<1> QED
  BY <1>1, <1>5, <1>6, <1>7, <1>8, WatcherGoesKeeps

\* What the overlay leaves as it is looks the same.
LEMMA NoUpdateNeeded ==
  ASSUME NEW old \in Contents, NEW new \in Contents, ~ NeedsUpdate(DiffCarets(old, new))
  PROVE  Others(old) = Others(new) /\ DOMAIN old = DOMAIN new
<1> DEFINE changed == {id \in DOMAIN old \cap DOMAIN new : old[id] # new[id]}
           D == changed \cup (DOMAIN new \ DOMAIN old) \cup (DOMAIN old \ DOMAIN new)
<1>1. PICK d : d = DiffCarets(old, new)
  OBVIOUS
<1>2. /\ DOMAIN d = D
      /\ \A id \in D : d[id] = IF id \in changed THEN Set(DiffFields(old[id], new[id]))
                               ELSE IF id \in DOMAIN new THEN Add(new[id]) ELSE Delete
  BY <1>1 DEF DiffCarets
<1>3. \A id \in D : d[id].op = "setField" /\ id = Own
  BY <1>1, <1>2 DEF NeedsUpdate
<1>4. ASSUME NEW id \in D \ changed PROVE d[id].op # "setField"
  <2>1. CASE id \in DOMAIN new
    <3>1. new[id] \in Timed /\ d[id] = Add(new[id])
      BY <1>2, <1>4, <2>1, ContentsShape
    <3> QED
      BY <3>1, IsOp
  <2>2. CASE id \notin DOMAIN new
    <3>1. d[id] = Delete
      BY <1>2, <1>4, <2>2
    <3> QED
      BY <3>1, IsOp
  <2> QED
    BY <2>1, <2>2
<1>5. D \subseteq changed
  BY <1>3, <1>4
<1>6. DOMAIN old = DOMAIN new /\ \A id \in DOMAIN new \ {Own} : old[id] = new[id]
  BY <1>3, <1>5
<1> QED
  BY <1>6 DEF Others

\* A snapshot arrives; the overlay has dealt with the one before.
LEMMA ReceiveKeeps ==
  ASSUME Core, NEW revision \in 0..revNum, NEW contents, contents = history[revision],
         Receive(revision, contents), Seen => CaughtUp
  PROVE  Core'
<1>1. UNCHANGED <<now, file, memory, saves, overlay, avatars, drawn>>
  BY DEF Receive
<1>2. FileTrue' /\ CacheTrue' /\ SavesTrue'
  BY <1>1, SavesStay DEF Core, FileTrue, CacheTrue, file, memory
<1>3. contents \in Contents /\ contents # NotCarets /\ revNum \in Nat
  BY NoContents DEF Core, FileTrue
<1>4. PICK seen : seen = [revNum |-> revision, contents |-> contents]
  OBVIOUS
<1>5. view' = seen /\ seen.revNum = revision /\ seen.contents = contents /\ seen # NothingSeen
  <2>1. NothingSeen.contents = NotCarets
    BY DEF NothingSeen
  <2> QED
    BY <1>3, <1>4, <2>1 DEF Receive
<1>6. Seen'
  BY <1>5 DEF Seen
<1>7. CallsTrue'
  <2>1. PICK idle : idle = Idle
    OBVIOUS
  <2>2. call' = [call EXCEPT ![Viewer] = idle]
    BY <2>1 DEF Receive
  <2>3. PICK hist, rev, time :
          hist = history /\ rev = revNum /\ time = now /\ rev \in Nat
    BY <1>3
  <2>4. Fits(Viewer, idle, hist, rev, time, seen)
    BY <2>1, <2>3, IdleFits
  <2>5. DOMAIN call = Callers /\ \A c \in Callers : Fits(c, call[c], hist, rev, time, view)
    BY <2>3 DEF Core, CallsTrue
  <2>6. ASSUME NEW c \in Callers \ {Viewer} PROVE Fits(c, call[c], hist, rev, time, seen)
    <3>1. call[c].pc \notin {"after", "diff"} /\ call[c].pc # "diff"
      BY <2>5 DEF Fits, PcsOf, Making
    <3> QED
      BY <2>5, <3>1 DEF Fits
  <2>7. DOMAIN call' = Callers /\ \A c \in Callers : Fits(c, call'[c], hist, rev, time, seen)
    BY <2>2, <2>4, <2>5, <2>6
  <2> QED
    BY <1>1, <1>5, <2>3, <2>7 DEF CallsTrue, file
<1>8. ViewTrue'
  <2>1. call'[Viewer].pc = "idle"
    BY WatcherIs DEF Receive, Idle, Core, CallsTrue
  <2> QED
    BY <1>1, <1>5, <1>6, <2>1 DEF Core, ViewTrue, file
<1>9. ScreenTrue'
  <2>1. drawn = Others(overlay.contents) /\ overlay.contents \in Contents
    BY DEF Core, ScreenTrue, ViewTrue
  <2>2. PICK old \in Contents : old = overlay.contents
    BY <2>1
  <2>3. ~ NeedsUpdate(DiffCarets(old, contents)) => Others(old) = Others(contents)
    BY <1>3, NoUpdateNeeded
  <2> QED
    BY <1>1, <1>5, <2>1, <2>2, <2>3 DEF ScreenTrue
<1> QED
  BY <1>2, <1>7, <1>8, <1>9 DEF Core

LEMMA GetSnapshotKeeps ==
  ASSUME Core, GetSnapshot
  PROVE  Core'
<1>1. PICK revision \in 0..revNum : revision = call[Viewer].want
  BY WatcherIs
<1>2. PICK contents : contents = Current(Viewer)
  OBVIOUS
<1>3. contents = history[revision]
  BY <1>1, <1>2, AvailableIs DEF GetSnapshot, Current
<1>4. Receive(revision, contents)
  BY <1>1, <1>2 DEF GetSnapshot
<1>5. Seen => CaughtUp
  BY WatcherIs DEF GetSnapshot
<1> QED
  BY <1>3, <1>4, <1>5, ReceiveKeeps

LEMMA AskChangeAfterKeeps ==
  ASSUME Core, AskChangeAfter
  PROVE  Core'
<1>1. PICK old : old = call[Viewer]
  OBVIOUS
<1>2. Fits(Viewer, old, history, revNum, now, view) /\ revNum \in Nat /\ Viewer \in Callers
  BY <1>1, WatcherIs
<1>3. PICK local : local = [old EXCEPT !.pc = "after"]
  OBVIOUS
<1>4. "after" \in PcsOf(Viewer)
  BY DEF PcsOf
<1>5. /\ local \in [pc : PcsOf(Viewer), want : 0..revNum, change : ChangesUpTo(revNum + 1),
                    expected : Contents, toAppend : ChangesUpTo(revNum + 1),
                    spot : Spots \cup {Nowhere}]
      /\ local.pc = "after" /\ local.spot = old.spot
  BY <1>2, <1>3, <1>4 DEF Fits
<1>6. Fits(Viewer, local, history, revNum, now, view)
  BY <1>2, <1>5 DEF Fits, Making, AskChangeAfter, Seen
<1>7. call' = [call EXCEPT ![Viewer] = local]
  BY <1>1, <1>3 DEF AskChangeAfter
<1>8. UNCHANGED <<now, file, memory, saves, watching>> /\ CaughtUp
  BY DEF AskChangeAfter, client, watching
<1> QED
  BY <1>2, <1>6, <1>7, <1>8, OneCallKeeps

LEMMA GetComposedChangeKeeps ==
  ASSUME Core, GetComposedChange
  PROVE  Core'
<1>1. /\ call[Viewer].pc = "after" /\ Seen /\ CaughtUp /\ revNum \in Nat /\ Viewer \in Callers
      /\ view.revNum \in 0..revNum /\ view.contents = history[view.revNum]
  BY WatcherIs DEF GetComposedChange
<1>2. PICK base \in Nat : base = view.revNum
  BY <1>1
<1>3. PICK n \in Nat : revNum = base + n
  <2>1. base \in Nat /\ base <= revNum
    BY <1>1, <1>2
  <2>2. revNum - base \in Nat /\ revNum = base + (revNum - base)
    BY <1>1, <2>1
  <2> QED
    BY <2>2
<1>4. revNum - view.revNum = n /\ base + n <= revNum
  BY <1>2, <1>3
<1>5. CASE InFile(base + 1, revNum)
  <2>1. PICK deltas : deltas = [i \in 1..n |-> changes[base + i]]
    OBVIOUS
  <2>2. [i \in 1..(revNum - view.revNum) |-> changes[view.revNum + i]] = deltas
    BY <1>2, <1>4, <2>1
  <2>3. \A i \in 1..n : base + i \in base + 1..base + n
    OBVIOUS
  <2>4. \A i \in 1..n : base + i \in DOMAIN changes
    BY <1>3, <1>5, <2>3 DEF InFile
  <2>5. PICK hist : Leads(hist, deltas, n) /\ hist[0] = history[base] /\ hist[n] = history[base + n]
    <3>1. \E hist : /\ Leads(hist, [i \in 1..n |-> changes[base + i]], n)
                    /\ hist[0] = history[base] /\ hist[n] = history[base + n]
      BY <1>4, <2>4, FileLeads
    <3> QED
      BY <2>1, <3>1
  <2>6. ComposeCarets(hist[0], ComposeAllDeltas(deltas)) = hist[n]
    BY <2>5, ReplayAtOnce
  <2>7. PICK contents : contents = ComposeCarets(view.contents, ComposeAllDeltas(deltas))
    OBVIOUS
  <2>8. contents = history[revNum] /\ revNum \in 0..revNum
    BY <1>1, <1>2, <1>3, <2>5, <2>6, <2>7
  <2>9. Receive(revNum, contents)
    BY <1>2, <1>5, <2>2, <2>7 DEF GetComposedChange
  <2> QED
    BY <1>1, <2>8, <2>9, ReceiveKeeps
<1>6. CASE ~ InFile(base + 1, revNum)
  <2>1. Fail(Viewer) /\ UNCHANGED <<now, file, memory, saves, watching>>
    BY <1>2, <1>6 DEF GetComposedChange, client, watching
  <2> QED
    BY <1>1, <2>1, FailKeeps
<1> QED
  BY <1>5, <1>6

LEMMA AskDiffKeeps ==
  ASSUME Core, AskDiff
  PROVE  Core'
<1>1. PICK old, hist, rev, time, seen :
        old = call[Viewer] /\ hist = history /\ rev = revNum /\ time = now /\ seen = view
  OBVIOUS
<1>2. /\ Fits(Viewer, old, hist, rev, time, seen) /\ rev \in Nat
      /\ seen.revNum \in 0..rev /\ seen # NothingSeen /\ CaughtUp /\ old.pc = "after"
  BY <1>1, WatcherIs DEF AskDiff, Seen
<1>3. PICK change : change = [old.change EXCEPT !.revNum = seen.revNum]
  OBVIOUS
<1>4. PICK asks : asks = [old EXCEPT !.pc = "diff", !.want = rev]
  OBVIOUS
<1>5. PICK local : local = [asks EXCEPT !.change = change]
  OBVIOUS
<1>6. old.change \in ChangesUpTo(rev + 1) /\ seen.revNum \in 0..rev + 1
  BY <1>2 DEF Fits
<1>7. change \in ChangesUpTo(rev + 1) /\ change.revNum = seen.revNum
  BY <1>3, <1>6 DEF ChangesUpTo
<1>8. "diff" \in PcsOf(Viewer) /\ rev \in 0..rev
  BY <1>2 DEF PcsOf
<1>9. /\ asks \in [pc : PcsOf(Viewer), want : 0..rev, change : ChangesUpTo(rev + 1),
                   expected : Contents, toAppend : ChangesUpTo(rev + 1),
                   spot : Spots \cup {Nowhere}]
      /\ asks.pc = "diff" /\ asks.spot = old.spot /\ asks.change = old.change
  BY <1>2, <1>4, <1>8 DEF Fits
<1>10. /\ local \in [pc : PcsOf(Viewer), want : 0..rev, change : ChangesUpTo(rev + 1),
                     expected : Contents, toAppend : ChangesUpTo(rev + 1),
                     spot : Spots \cup {Nowhere}]
       /\ local.pc = "diff" /\ local.spot = old.spot /\ local.change = change
  BY <1>5, <1>7, <1>9
<1>11. Fits(Viewer, local, hist, rev, time, seen)
  BY <1>2, <1>7, <1>10 DEF Fits, Making
<1>12. Goes(Viewer, local)
  <2>1. local = [asks EXCEPT !.change.revNum = seen.revNum]
    BY <1>3, <1>5, <1>9
  <2> QED
    BY <1>1, <1>4, <2>1 DEF AskDiff, Ask
<1>13. UNCHANGED <<now, file, memory, saves, watching>>
  BY DEF AskDiff, client, watching
<1> QED
  BY <1>1, <1>2, <1>11, <1>12, <1>13, WatcherGoesKeeps

LEMMA GetDiffKeeps ==
  ASSUME Core, GetDiff
  PROVE  Core'
<1>1. /\ call[Viewer].pc = "diff" /\ Seen /\ CaughtUp
      /\ call[Viewer].change.revNum = view.revNum
      /\ view.contents = history[view.revNum]
  BY WatcherIs DEF GetDiff, Fits
<1>2. PICK revision \in 0..revNum : revision = call[Viewer].want
  BY WatcherIs
<1>3. PICK old \in Contents : old = view.contents /\ old = cache[view.revNum].contents
  BY <1>1, AvailableIs DEF GetDiff
<1>4. PICK new \in Contents : new = history[revision] /\ new = Current(Viewer)
  BY <1>2, AvailableIs DEF GetDiff, Current
<1>5. ComposeCarets(old, DiffCarets(old, new)) = new
  BY Diffing
<1>6. Receive(revision, new)
  BY <1>1, <1>2, <1>3, <1>4, <1>5 DEF GetDiff
<1> QED
  BY <1>1, <1>4, <1>6, ReceiveKeeps

LEMMA WatchKeeps ==
  ASSUME IInv, Watch
  PROVE  IInv'
<1>1. Core'
  <2>1. CASE StartOver
    <3>1. Viewer \in Callers /\ UNCHANGED <<now, file, memory, saves, watching>>
      BY <2>1 DEF StartOver, Callers, client, watching
    <3> QED
      BY <2>1, <3>1, SentKeeps DEF IInv, StartOver
  <2> QED
    BY <2>1, AskSnapshotKeeps, GetSnapshotKeeps, AskChangeAfterKeeps,
       GetComposedChangeKeeps, AskDiffKeeps, GetDiffKeeps
       DEF IInv, Watch
<1>2. UNCHANGED tracker
  BY DEF Watch, AskSnapshot, StartOver, GetSnapshot, AskChangeAfter, GetComposedChange,
         AskDiff, GetDiff, Receive, client
<1> QED
  BY <1>1, <1>2 DEF IInv, TrackersTrue

-----------------------------------------------------------------------------
(* The overlay *)

\* The carets that a diff adds are those that the new contents have more.
LEMMA DiffAdds ==
  ASSUME NEW old \in Contents, NEW new \in Contents
  PROVE  {id \in DOMAIN DiffCarets(old, new) : DiffCarets(old, new)[id].op = "add"}
           = DOMAIN new \ DOMAIN old
<1> DEFINE changed == {id \in DOMAIN old \cap DOMAIN new : old[id] # new[id]}
           D == changed \cup (DOMAIN new \ DOMAIN old) \cup (DOMAIN old \ DOMAIN new)
<1>1. PICK d : d = DiffCarets(old, new)
  OBVIOUS
<1>2. /\ DOMAIN d = D
      /\ \A id \in D : d[id] = IF id \in changed THEN Set(DiffFields(old[id], new[id]))
                               ELSE IF id \in DOMAIN new THEN Add(new[id]) ELSE Delete
  BY <1>1 DEF DiffCarets
<1>3. ASSUME NEW id \in D PROVE d[id].op = "add" <=> id \in DOMAIN new \ DOMAIN old
  <2>1. CASE id \in changed
    <3>1. PICK fields : d[id] = Set(fields)
      BY <1>2, <2>1
    <3>2. d[id].op = "setField"
      BY <3>1 DEF Set
    <3> QED
      BY <2>1, <3>2
  <2>2. CASE id \in DOMAIN new \ DOMAIN old
    <3>1. new[id] \in Timed /\ d[id] = Add(new[id])
      BY <1>2, <2>2, ContentsShape
    <3> QED
      BY <2>2, <3>1, IsOp
  <2>3. CASE id \in DOMAIN old \ DOMAIN new
    <3>1. d[id] = Delete
      BY <1>2, <2>3
    <3> QED
      BY <2>3, <3>1, IsOp
  <2> QED
    BY <2>1, <2>2, <2>3
<1>4. {id \in DOMAIN d : d[id].op = "add"} = DOMAIN new \ DOMAIN old
  BY <1>2, <1>3
<1> QED
  BY <1>1, <1>4

LEMMA ViewIs ==
  ASSUME Core, Seen
  PROVE  view.contents \in Contents /\ overlay.contents \in Contents
BY DEF Core, ViewTrue, FileTrue

LEMMA OnCaretChangeKeeps ==
  ASSUME Core, OnCaretChange
  PROVE  Core'
<1>1. PICK old, new \in Contents : old = overlay.contents /\ new = view.contents
  BY ViewIs DEF OnCaretChange
<1>2. /\ Seen /\ UNCHANGED <<serverVars, view>>
      /\ overlay' = [started |-> TRUE, revNum |-> view.revNum, contents |-> new]
      /\ drawn' = IF NeedsUpdate(DiffCarets(old, new)) THEN Others(new) ELSE drawn
      /\ avatars' = (avatars \cup {id \in DOMAIN DiffCarets(old, new) :
                                     DiffCarets(old, new)[id].op = "add"})
                      \ Deleted(DiffCarets(old, new))
  BY <1>1 DEF OnCaretChange
<1>3. FileTrue' /\ CacheTrue' /\ SavesTrue' /\ CallsTrue'
  BY <1>2 DEF Core, FileTrue, CacheTrue, SavesTrue, CallsTrue, serverVars, file, memory
<1>4. /\ overlay'.started /\ overlay'.revNum = view.revNum /\ overlay'.contents = new
      /\ Seen' /\ CaughtUp' /\ view' = view /\ call' = call
      /\ history' = history /\ revNum' = revNum
  BY <1>2 DEF Seen, CaughtUp, serverVars, file
<1>5. avatars' = DOMAIN new
  <2>1. avatars = DOMAIN old
    BY <1>1 DEF Core, ViewTrue
  <2>2. avatars' = (DOMAIN old \cup (DOMAIN new \ DOMAIN old)) \ (DOMAIN old \ DOMAIN new)
    BY <1>2, <2>1, Diffing, DiffAdds
  <2> QED
    BY <2>2
<1>6. view.revNum \in 0..revNum /\ new = history[view.revNum]
  BY <1>1, <1>2, WatcherIs
<1>7. ViewTrue'
  BY <1>1, <1>4, <1>5, <1>6 DEF ViewTrue
<1>8. drawn' = Others(new)
  <2>1. CASE NeedsUpdate(DiffCarets(old, new))
    BY <1>2, <2>1
  <2>2. CASE ~ NeedsUpdate(DiffCarets(old, new))
    BY <1>1, <1>2, <2>2 DEF Core, ScreenTrue
  <2> QED
    BY <2>1, <2>2
<1>9. ScreenTrue'
  BY <1>1, <1>4, <1>8 DEF ScreenTrue
<1> QED
  BY <1>3, <1>7, <1>9 DEF Core

LEMMA OnLocalEditKeeps ==
  ASSUME Core, OnLocalEdit
  PROVE  Core'
<1>1. PICK old, new \in Contents : old = overlay.contents /\ new = view.contents
  BY ViewIs DEF OnLocalEdit
<1>2. Seen /\ UNCHANGED <<serverVars, view, overlay, avatars>>
  BY DEF OnLocalEdit
<1>3. FileTrue' /\ CacheTrue' /\ SavesTrue' /\ CallsTrue'
  BY <1>2 DEF Core, FileTrue, CacheTrue, SavesTrue, CallsTrue, serverVars, file, memory
<1>4. ViewTrue' /\ (Seen' <=> Seen) /\ (CaughtUp' <=> CaughtUp)
  BY <1>2 DEF Core, ViewTrue, Seen, CaughtUp, serverVars, file
<1>5. avatars = DOMAIN old
  BY <1>1 DEF Core, ViewTrue
<1>6. PICK S : /\ DOMAIN Others(new) \subseteq avatars => S = DOMAIN Others(new)
               /\ drawn' = [id \in S |-> Others(new)[id]]
  BY <1>1 DEF OnLocalEdit
<1>7. ASSUME DOMAIN new = DOMAIN old PROVE drawn' = Others(new)
  <2>1. /\ DOMAIN Others(new) \subseteq avatars
        /\ Others(new) = [id \in DOMAIN Others(new) |-> Others(new)[id]]
    BY <1>5, <1>7 DEF Others
  <2> QED
    BY <1>6, <2>1
<1>8. ASSUME CaughtUp PROVE drawn' = Others(old)
  <2>1. old = new
    BY <1>1, <1>2, <1>8, WatcherIs DEF Core, ViewTrue, CaughtUp
  <2> QED
    BY <1>7, <2>1
<1>9. ASSUME ~ NeedsUpdate(DiffCarets(old, new)) PROVE drawn' = Others(new)
  BY <1>7, <1>9, NoUpdateNeeded
<1>10. ScreenTrue'
  BY <1>1, <1>2, <1>4, <1>8, <1>9 DEF ScreenTrue
<1> QED
  BY <1>3, <1>4, <1>10 DEF Core

-----------------------------------------------------------------------------
(* The invariant, and what follows from it *)

LEMMA Initially == Init => IInv
<1> SUFFICES ASSUME Init PROVE IInv
  OBVIOUS
<1>1. /\ now = 0 /\ revNum = 0 /\ changes = [r \in {0} |-> NoCarets] /\ stored = NoSnapshot
      /\ history = [r \in {0} |-> NoCarets] /\ cache = <<>>
      /\ call = [c \in Callers |-> Idle] /\ saves = {}
      /\ tracker = [c \in Ids |-> [latestCaret |-> Nowhere, updating |-> FALSE]]
      /\ view = NothingSeen /\ avatars = {} /\ drawn = NoCarets
      /\ overlay = [started |-> FALSE, revNum |-> 0, contents |-> NoCarets]
  BY DEF Init, ServerInit
<1>2. 0..0 = {0} /\ 0 \in 0..MaxNow /\ 0 \in Nat
  BY TimesAssumption
<1>3. FileTrue
  <2>1. history \in [0..revNum -> Contents] /\ history[0] = NoCarets
    BY <1>1, <1>2, NoContents
  <2>2. /\ DOMAIN changes = {0} /\ changes[0] \in Deltas
        /\ changes = [r \in DOMAIN changes |-> changes[r]]
    BY <1>1, NoContents
  <2>3. stored.revNum \in 0..revNum
    BY <1>1, <1>2 DEF NoSnapshot
  <2> QED
    BY <1>1, <1>2, <2>1, <2>2, <2>3 DEF FileTrue
<1>4. CacheTrue
  <2>1. DOMAIN cache = {}
    BY <1>1
  <2> QED
    BY <2>1 DEF CacheTrue
<1>5. SavesTrue
  BY <1>1 DEF SavesTrue
<1>6. CallsTrue
  <2>1. PICK hist, rev, time, seen :
          hist = history /\ rev = revNum /\ time = now /\ seen = view
    OBVIOUS
  <2>2. \A c \in Callers : Fits(c, Idle, hist, rev, time, seen)
    BY <1>1, <2>1, IdleFits
  <2>3. DOMAIN call = Callers /\ \A c \in Callers : call[c] = Idle
    BY <1>1
  <2> QED
    BY <2>1, <2>2, <2>3 DEF CallsTrue
<1>7. ViewTrue
  <2>1. view.revNum = 0 /\ ~ Seen
    BY <1>1 DEF NothingSeen, Seen
  <2>2. /\ ~ overlay.started /\ overlay.revNum = 0 /\ overlay.contents = NoCarets
        /\ DOMAIN NoCarets = {}
    BY <1>1 DEF NoCarets
  <2> QED
    BY <1>1, <1>2, <2>1, <2>2, NoContents DEF ViewTrue
<1>8. ScreenTrue
  <2>1. Others(NoCarets) = NoCarets
    BY DEF Others, NoCarets
  <2> QED
    BY <1>1, <2>1 DEF ScreenTrue, Seen
<1>9. TrackersTrue
  BY <1>1 DEF TrackersTrue
<1> QED
  BY <1>3, <1>4, <1>5, <1>6, <1>7, <1>8, <1>9 DEF IInv, Core

LEMMA Inductive == IInv /\ [Next]_vars => IInv'
<1> SUFFICES ASSUME IInv, [Next]_vars PROVE IInv'
  OBVIOUS
<1>1. CASE UNCHANGED vars
  <2>1. UNCHANGED <<serverVars, watching>> /\ UNCHANGED tracker
    BY <1>1 DEF vars, client, watching
  <2> QED
    BY <2>1, StillKeeps DEF IInv, TrackersTrue
<1>2. CASE (ServerNext \/ Tick \/ Restart) /\ UNCHANGED client
  <2>1. UNCHANGED watching /\ UNCHANGED tracker
    BY <1>2 DEF client, watching
  <2> QED
    BY <1>2, <2>1, ServerKeeps DEF IInv, TrackersTrue
<1>3. CASE \E c \in Ids : Upload(c) \/ \E spot \in Spots : Move(c, spot)
  BY <1>3, UploadKeeps
<1>4. CASE Watch
  BY <1>4, WatchKeeps
<1>5. CASE OnCaretChange
  BY <1>5, OnCaretChangeKeeps DEF IInv, TrackersTrue, OnCaretChange
<1>6. CASE OnLocalEdit
  BY <1>6, OnLocalEditKeeps DEF IInv, TrackersTrue, OnLocalEdit
<1> QED
  BY <1>1, <1>2, <1>3, <1>4, <1>5, <1>6 DEF Next, UnwatchedNext

LEMMA AlwaysIInv == Spec => []IInv
<1> QED
  BY Initially, Inductive, PTL DEF Spec

\* Whoever holds a snapshot of a revision holds the contents of that revision:
\* SnapshotManager, _maybeWriteStoredSnapshot(), CaretState; and CaretOverlay
\* shows the others' carets of the last one that it has dealt with.
THEOREM AlwaysSnapshotsTrue == Spec => []SnapshotsTrue
<1>1. IInv => SnapshotsTrue
  <2> SUFFICES ASSUME IInv PROVE SnapshotsTrue
    OBVIOUS
  <2>1. Seen /\ CaughtUp => drawn = Others(view.contents)
    <3>1. ASSUME Seen, CaughtUp PROVE overlay.contents = view.contents
      BY <3>1, WatcherIs DEF IInv, Core, ViewTrue, CaughtUp
    <3> QED
      BY <3>1 DEF IInv, Core, ScreenTrue
  <2> QED
    BY <2>1 DEF IInv, Core, FileTrue, CacheTrue, SavesTrue, ViewTrue, SnapshotsTrue
<1> QED
  BY <1>1, AlwaysIInv, PTL

\* Only a change that is appended takes carets away (CaretControl._attemptUpdate(),
\* _removeIdleCarets()); each of them has been idle for long enough.
LEMMA IdleGo ==
  ASSUME IInv, [Next]_vars
  PROVE  \A id \in DOMAIN history[revNum] :
           \/ id \in DOMAIN history'[revNum']
           \/ history[revNum][id].lastActive + MaxIdle < now
<1>1. CASE UNCHANGED <<revNum, history>>
  BY <1>1
<1>2. ASSUME NEW c \in Callers, AppendChange(c)
      PROVE  \A id \in DOMAIN history[revNum] :
               \/ id \in DOMAIN history'[revNum']
               \/ history[revNum][id].lastActive + MaxIdle < now
  <2>1. PICK r, delta : r = call[c].toAppend.revNum /\ delta = call[c].toAppend.delta
    OBVIOUS
  <2>2. /\ r = revNum + 1 /\ revNum' = r /\ call[c].pc = "append"
        /\ history' = Put(history, r, ComposeCarets(history[r - 1], delta))
    BY <1>2, <2>1 DEF AppendChange
  <2>3. AppendsTrue(call[c], history, revNum, now) /\ revNum \in Nat
    BY <2>2, CallIs DEF IInv, Fits
  <2>4. r - 1 = revNum
    BY <2>2, <2>3
  <2>5. LostIdle(history[revNum], ComposeCarets(history[revNum], delta), now)
    BY <2>1, <2>3, <2>4 DEF AppendsTrue
  <2>6. history'[revNum'] = ComposeCarets(history[revNum], delta)
    BY <2>2, <2>4 DEF Put
  <2> QED
    BY <2>5, <2>6 DEF LostIdle
<1>3. (\E c \in Callers : AppendChange(c)) \/ UNCHANGED <<revNum, history>>
  <2>1. CASE UNCHANGED vars
    BY <2>1 DEF vars, serverVars, file
  <2>2. CASE ServerNext
    BY <2>2 DEF ServerNext, Step, Look, Introduce, Prepare, Attempt, LoseRace, Result, Refuse,
       Manage, Retrieve, MakeSnapshot0, MakeSnapshot, FailRetrieval, FailSnapshot, RemoveIdle, Forget,
       Save, GetSnapshotToSave, WriteStoredSnapshot, LoseSave, file
  <2>3. CASE Tick \/ Restart
    BY <2>3 DEF Tick, Restart, file
  <2>4. CASE \E c \in Ids : Upload(c) \/ \E spot \in Spots : Move(c, spot)
    BY <2>4 DEF Upload, Send, Sent, StopTracking, Move, serverVars, file
  <2>5. CASE Watch
    BY <2>5 DEF Watch, AskSnapshot, StartOver, GetSnapshot, AskChangeAfter,
       GetComposedChange, AskDiff, GetDiff, Receive, file
  <2>6. CASE OnCaretChange \/ OnLocalEdit
    BY <2>6 DEF OnCaretChange, OnLocalEdit, serverVars, file
  <2> QED
    BY <2>1, <2>2, <2>3, <2>4, <2>5, <2>6 DEF Next, UnwatchedNext
<1> QED
  BY <1>1, <1>2, <1>3

\* A caret goes only if it has been idle for longer than MAX_CARET_IDLE_MSEC
\* (CaretControl._removeIdleCarets()), also if the removal is rebased.
THEOREM AlwaysOnlyIdleCaretsGo == Spec => OnlyIdleCaretsGo
<1>1. IInv /\ [Next]_vars =>
        [\A id \in DOMAIN history[revNum] :
           \/ id \in DOMAIN history'[revNum']
           \/ history[revNum][id].lastActive + MaxIdle < now]_vars
  BY IdleGo
<1> QED
  BY <1>1, AlwaysIInv, PTL DEF Spec, OnlyIdleCaretsGo
=============================================================================
