--------------------------- MODULE DocumentsProofs ---------------------------
(***************************************************************************)
(* Proofs about Documents, for any number of requests, updates, complexes, *)
(* files, failures and crashes.                                            *)
(***************************************************************************)
EXTENDS Documents, FiniteSetTheorems, TLAPS

-----------------------------------------------------------------------------
(* The inductive invariant                                                 *)

Texts == {"first", "note", "old", "edit"}
Contents == [exists : BOOLEAN, schema : {"none", "old", "now"}, body : Seq(Texts), rest : Nat]
Phases == {"none", "ready", "dead"} \cup Making
Fields ==
  [phase : Phases, file : Nat, part : Parts, seen : Nat,
   text : {"none", "first", "note"}, calm : BOOLEAN, late : BOOLEAN]
\* Who writes to the file knows the first text.
ComplexStates ==
  {s \in Fields : s.phase \in {"create", "append", "text"} => s.text # "none"}
RequestStates == {Idle} \cup [pc : {"waiting", "using"}, of : Complexes]
UpdateStates ==
  {Idle} \cup [pc : {"going", "saving"}, part : Parts, of : Complexes, file : Nat]

\* TypeOK without the bounds on lengths, which only TLC needs.
Typed ==
  /\ content \in Contents /\ disk \in Contents
  /\ complex \in [Complexes -> ComplexStates]
  /\ instance \in [Files -> {"none", "making", "live", "dead"}]
  /\ request \in [Requests -> RequestStates]
  /\ update \in [Updates -> UpdateStates]
  /\ troubles \in Nat /\ crashes \in Nat /\ beaten \in BOOLEAN

\* The cache's entry tells of every complex that there is, also of a dead one
\* whose callback has not come yet: so there is one at most.
EntryOfComplex ==
  /\ \A c \in Complexes :
       /\ complex[c].phase \in Making => complexEntry = Promised(c)
       /\ complex[c].phase \in {"ready", "dead"} => complexEntry = Weak(c)
  /\ complexEntry.kind = "promise" =>
       complexEntry.of \in Complexes /\ complex[complexEntry.of].phase \in Making

EntryOfFile ==
  \A f \in Files :
    /\ instance[f] = "making" => fileEntry = Promised(f)
    /\ instance[f] \in {"live", "dead"} => fileEntry = Weak(f)

MakerHasFile ==
  \A c \in Complexes : At(c, "getFile") =>
    complex[c].file \in Files /\ instance[complex[c].file] = "making"

\* Whoever waits, waits for a complex that is being made, and whoever uses one,
\* keeps it alive.
RequestsHold ==
  \A r \in Requests :
    /\ request[r].pc = "waiting" => complex[request[r].of].phase \in Making
    /\ request[r].pc = "using" => complex[request[r].of].phase = "ready"

LookupInv == Typed /\ EntryOfComplex /\ EntryOfFile /\ MakerHasFile /\ RequestsHold

\* Whoever may still write to the file began when it was initialized; and no
\* update of the body outlives its complex.
UpdatesHold ==
  \A u \in Updates :
    /\ update[u] # Idle => content.schema = "now"
    /\ update[u].pc = "going" /\ update[u].part = "body" =>
         complex[update[u].of].phase = "ready"

\* What any contents of the file are, also those that a crash brings back.
Sound(x) ==
  /\ x.schema # "none" => x.exists
  /\ x.schema # "now" => \A i \in DOMAIN x.body : x.body[i] # "edit"

SoleText(x) ==
  \A i, j \in DOMAIN x.body : {x.body[i], x.body[j]} \subseteq {"first", "note"} => i = j

SoleTexts == ~ beaten => SoleText(content) /\ SoleText(disk)

\* What a maker has found out, or done, still holds, or it is late; and then
\* it is not the body where something changed.
Knows(c) ==
  /\ complex[c].late => complex[c].part = "rest"
  /\ complex[c].phase \in {"number", "list"} => content.schema = "now"
  /\ At(c, "list") => complex[c].late \/ Changes(complex[c].part) = complex[c].seen
  /\ complex[c].phase \in {"create", "append"} => content.schema # "now" \/ complex[c].late
  /\ At(c, "append") => content.schema = "now" \/ complex[c].calm
  /\ At(c, "text") => content.schema = "now" /\ (content.body = << >> \/ beaten)
  /\ complex[c].phase \in {"done", "ready"} => content.schema = "now"

MakersKnow == \A c \in Complexes : Knows(c)

\* Without trouble only its maker sees an initialized file without a text.
EmptyIsBeingMade ==
  troubles = 0 /\ crashes = 0 /\ content.schema = "now" /\ content.body = << >> =>
    \E c \in Complexes : At(c, "text")

FileInv == Sound(content) /\ Sound(disk) /\ SoleTexts /\ MakersKnow /\ EmptyIsBeingMade
IInv == LookupInv /\ UpdatesHold /\ FileInv

\* What a step leaves alone of what a maker knows of changes that came late.
SameView(c) ==
  complex'[c].late = complex[c].late /\ complex'[c].part = complex[c].part

-----------------------------------------------------------------------------
(* Helper facts                                                            *)

LEMMA PhasesDiffer ==
  /\ "none" \notin Making /\ "ready" \notin Making /\ "dead" \notin Making
  /\ Making \subseteq Phases /\ {"none", "ready", "dead"} \subseteq Phases
BY DEF Making, Phases

\* The fields of the states.
LEMMA StateFields ==
  ASSUME Typed
  PROVE  /\ \A c \in Complexes :
              /\ complex[c] \in ComplexStates
              /\ complex[c].phase \in Phases
         /\ \A r \in Requests :
              \/ request[r] = Idle
              \/ /\ request[r].pc \in {"waiting", "using"} /\ request[r].of \in Complexes
                 /\ request[r] = [pc |-> request[r].pc, of |-> request[r].of]
BY DEF Typed, ComplexStates, Fields, RequestStates

LEMMA NewPhase ==
  ASSUME Typed, NEW c \in Complexes, NEW phase \in Phases,
         phase \notin {"create", "append", "text"},
         complex' = [complex EXCEPT ![c].phase = phase]
  PROVE  /\ complex' \in [Complexes -> ComplexStates]
         /\ complex'[c] = [complex[c] EXCEPT !.phase = phase]
         /\ complex'[c].phase = phase /\ SameView(c)
         /\ \A d \in Complexes \ {c} : complex'[d] = complex[d]
<1>1. complex'[c] = [complex[c] EXCEPT !.phase = phase]
  BY DEF Typed
<1>2. complex'[c] \in ComplexStates /\ complex'[c].phase = phase
  BY <1>1 DEF Typed, ComplexStates, Fields
<1>3. SameView(c)
  BY <1>1 DEF Typed, ComplexStates, Fields, SameView
<1> QED
  BY <1>1, <1>2, <1>3 DEF Typed

\* What the changes of a complex's state leave it with.
LEMMA WhenNext ==
  ASSUME NEW s \in ComplexStates, NEW t,
         t = [s EXCEPT !.phase = "number", !.part = "rest"]
  PROVE  t \in ComplexStates /\ t.phase = "number" /\ t.part = "rest"
BY DEF ComplexStates, Fields, Phases, Making, Parts

LEMMA WhenCreated ==
  ASSUME NEW s \in ComplexStates, NEW t, s.phase = "create",
         t = [s EXCEPT !.phase = "append", !.calm = TRUE]
  PROVE  /\ t \in ComplexStates /\ t.phase = "append" /\ t.text = s.text /\ t.calm
         /\ t.late = s.late /\ t.part = s.part
BY DEF ComplexStates, Fields, Phases, Making

LEMMA WhenAppended ==
  ASSUME NEW s \in ComplexStates, NEW t, s.phase = "append",
         t = [s EXCEPT !.phase = "text"]
  PROVE  /\ t \in ComplexStates /\ t.phase = "text" /\ t.text = s.text
         /\ t.late = s.late /\ t.part = s.part
BY DEF ComplexStates, Fields, Phases, Making

LEMMA WhenPublished ==
  ASSUME NEW s \in ComplexStates, NEW t,
         t = [Unmade EXCEPT !.phase = "ready", !.file = s.file]
  PROVE  t \in ComplexStates /\ t.phase = "ready" /\ ~ t.late
BY DEF ComplexStates, Fields, Phases, Making, Unmade, Parts

LEMMA InitIsGood == Init => LookupInv
<1> SUFFICES ASSUME Init PROVE LookupInv
  OBVIOUS
<1>1. NoFile \in Contents /\ OldFile \in Contents
  <2>1. <<"first", "old">> \in Seq(Texts) /\ << >> \in Seq(Texts)
    BY DEF Texts
  <2> QED
    BY <2>1 DEF NoFile, OldFile, Contents
<1>2. Typed
  BY <1>1, PhasesDiffer
  DEF Init, Typed, ComplexStates, Fields, RequestStates, UpdateStates, Unmade, Idle, Parts
<1>3. EntryOfComplex /\ EntryOfFile /\ MakerHasFile /\ RequestsHold
  BY PhasesDiffer
  DEF Init, EntryOfComplex, EntryOfFile, MakerHasFile, RequestsHold, Unmade, Idle, At, NoEntry
<1> QED
  BY <1>2, <1>3 DEF LookupInv

LEMMA getDocComplexKeeps ==
  ASSUME LookupInv, NEW r \in Requests, getDocComplex(r)
  PROVE  LookupInv'
<1> DEFINE found == Lookup(complexEntry, LiveComplexes, TRUE)
<1> USE PhasesDiffer DEF LookupInv
<1>1. EntryOfFile'
  BY DEF getDocComplex, EntryOfFile
<1>2. CASE found = "object" /\ Use(r, complexEntry.of) /\ UNCHANGED <<complexEntry, complex>>
  <2>1. complexEntry.of \in Complexes /\ complex[complexEntry.of].phase = "ready"
    BY <1>2 DEF LiveComplexes, Lookup, IsAlive
  <2>2. Typed'
    BY <1>2, <2>1 DEF getDocComplex, Typed, Use, budget, RequestStates
  <2>3. EntryOfComplex' /\ MakerHasFile'
    BY <1>2 DEF getDocComplex, EntryOfComplex, MakerHasFile, At
  <2>4. RequestsHold'
    BY <1>2, <2>1 DEF RequestsHold, Use, Typed
  <2> QED
    BY <1>1, <2>2, <2>3, <2>4
<1>3. CASE found = "promise" /\ Wait(r, complexEntry.of) /\ UNCHANGED <<complexEntry, complex>>
  <2>1. complexEntry.of \in Complexes /\ complex[complexEntry.of].phase \in Making
    BY <1>3 DEF LiveComplexes, Lookup, IsAlive, EntryOfComplex
  <2>2. Typed'
    BY <1>3, <2>1 DEF getDocComplex, Typed, Wait, budget, RequestStates
  <2>3. EntryOfComplex' /\ MakerHasFile'
    BY <1>3 DEF getDocComplex, EntryOfComplex, MakerHasFile, At
  <2>4. RequestsHold'
    BY <1>3, <2>1 DEF RequestsHold, Wait, Typed
  <2> QED
    BY <1>1, <2>2, <2>3, <2>4
<1>4. CASE UNCHANGED <<request, complex>> /\ complexEntry' = AfterLookup(complexEntry)
  <2>1. Typed'
    BY <1>4 DEF getDocComplex, Typed, budget
  <2>2. EntryOfComplex'
    BY <1>4 DEF EntryOfComplex, AfterLookup, Promised, Weak, Rejected, NoEntry
  <2>3. MakerHasFile' /\ RequestsHold'
    BY <1>4 DEF getDocComplex, MakerHasFile, RequestsHold, At
  <2> QED
    BY <1>1, <2>1, <2>2, <2>3
<1>5. ASSUME NEW c \in Complexes,
             found = "null",
             complex' = [complex EXCEPT ![c].phase = "info"],
             complexEntry' = Promised(c),
             Wait(r, c)
      PROVE  LookupInv'
  <2>1. complexEntry = NoEntry
    BY <1>5 DEF Lookup, IsAlive, NoEntry
  <2>2. \A d \in Complexes : complex[d].phase = "none"
    BY <2>1, StateFields DEF EntryOfComplex, Phases, NoEntry, Promised, Weak
  <2>3. "info" \in Making
    BY DEF Making
  <2>4. /\ complex' \in [Complexes -> ComplexStates]
        /\ complex'[c].phase = "info"
        /\ \A d \in Complexes \ {c} : complex'[d] = complex[d]
    BY <1>5, <2>3, NewPhase
  <2>5. Typed'
    BY <1>5, <2>4 DEF getDocComplex, Typed, Wait, budget, RequestStates
  <2>6. EntryOfComplex'
    BY <1>5, <2>2, <2>3, <2>4 DEF EntryOfComplex, Promised
  <2>7. MakerHasFile'
    BY <2>2, <2>4 DEF MakerHasFile, At
  <2>8. \A q \in Requests \ {r} : request[q] = Idle
    BY <2>2, StateFields DEF RequestsHold
  <2>9. RequestsHold'
    BY <1>5, <2>3, <2>4, <2>8 DEF RequestsHold, Wait, Typed, Idle
  <2> QED
    BY <1>1, <2>5, <2>6, <2>7, <2>9
<1> QED
  BY <1>2, <1>3, <1>4, <1>5 DEF getDocComplex

\* A complex that is being made is the only one.
LEMMA MakerIsAlone ==
  ASSUME LookupInv, NEW c \in Complexes, complex[c].phase \in Making,
         NEW d \in Complexes, d # c
  PROVE  complex[d].phase = "none"
<1>1. complex[d].phase \in Phases
  BY StateFields DEF LookupInv
<1> QED
  BY <1>1 DEF LookupInv, EntryOfComplex, Phases, Promised, Weak

\* Requests stay right as long as the maker that they wait for goes on.
LEMMA RequestsOfOthers ==
  ASSUME LookupInv, NEW c \in Complexes,
         complex[c].phase \in Making, complex'[c].phase \in Making,
         \A d \in Complexes \ {c} : complex'[d] = complex[d],
         request' = request
  PROVE  RequestsHold'
<1> USE PhasesDiffer DEF LookupInv
<1> SUFFICES ASSUME NEW r \in Requests, request[r].pc \in {"waiting", "using"}
             PROVE  /\ request[r].pc = "waiting" => complex'[request[r].of].phase \in Making
                    /\ request[r].pc = "using" => complex'[request[r].of].phase = "ready"
  BY DEF RequestsHold
<1>1. request[r].of \in Complexes
  BY DEF Typed, RequestStates, Idle
<1>2. CASE request[r].of = c
  BY <1>2 DEF RequestsHold
<1>3. CASE request[r].of # c
  BY <1>1, <1>3 DEF RequestsHold
<1> QED
  BY <1>2, <1>3

\* The maker goes on, and nobody else is concerned.
LEMMA MakerMovesOn ==
  ASSUME LookupInv, NEW c \in Complexes,
         complex[c].phase \in Making, complex'[c].phase \in Making \ {"getFile"},
         \A d \in Complexes \ {c} : complex'[d] = complex[d],
         UNCHANGED <<complexEntry, fileEntry, instance, request>>
  PROVE  EntryOfComplex' /\ EntryOfFile' /\ MakerHasFile' /\ RequestsHold'
<1> USE PhasesDiffer DEF LookupInv
<1>1. EntryOfComplex' /\ EntryOfFile'
  BY DEF EntryOfComplex, EntryOfFile
<1>2. MakerHasFile'
  BY DEF MakerHasFile, At
<1>3. RequestsHold'
  BY RequestsOfOthers
<1> QED
  BY <1>1, <1>2, <1>3

\* The maker fails: all that is left of it is the rejection.
LEMMA MakerFails ==
  ASSUME LookupInv, NEW c \in Complexes, complex[c].phase \in Making, Fails(c)
  PROVE  /\ \A d \in Complexes : complex'[d].phase = "none"
         /\ complex' \in [Complexes -> ComplexStates]
         /\ request' \in [Requests -> RequestStates]
         /\ EntryOfComplex' /\ MakerHasFile' /\ RequestsHold'
<1> USE PhasesDiffer DEF LookupInv
<1>1. \A d \in Complexes : complex'[d].phase = "none"
  BY MakerIsAlone DEF Fails, Typed, Unmade
<1>2. complex' \in [Complexes -> ComplexStates]
  BY DEF Fails, Typed, ComplexStates, Fields, Unmade, Parts
<1>3. \A r \in Requests : request'[r] = Idle
  <2> SUFFICES ASSUME NEW r \in Requests, request[r] # Idle
               PROVE  request[r] = [pc |-> "waiting", of |-> c]
    BY DEF Fails, Answer
  <2>1. /\ request[r].pc \in {"waiting", "using"} /\ request[r].of \in Complexes
        /\ request[r] = [pc |-> request[r].pc, of |-> request[r].of]
    BY StateFields
  <2>2. complex[request[r].of].phase # "none"
    BY <2>1 DEF RequestsHold
  <2>3. request[r].of = c /\ request[r].pc = "waiting"
    BY <2>1, <2>2, MakerIsAlone DEF RequestsHold
  <2> QED
    BY <2>1, <2>3
<1>4. request' \in [Requests -> RequestStates]
  BY <1>3 DEF Fails, Answer, RequestStates
<1>5. EntryOfComplex' /\ MakerHasFile'
  BY <1>1 DEF Fails, EntryOfComplex, MakerHasFile, At, Rejected
<1>6. RequestsHold'
  BY <1>3 DEF RequestsHold, Idle
<1> QED
  BY <1>1, <1>2, <1>4, <1>5, <1>6

LEMMA TroubleKeeps ==
  ASSUME LookupInv, NEW c \in Complexes, Trouble(c)
  PROVE  LookupInv'
<1> USE DEF LookupInv
<1>1. complex[c].phase \in Making /\ Fails(c)
  BY DEF Trouble
<1>2. Typed'
  BY <1>1, MakerFails DEF Trouble, Typed
<1>3. EntryOfFile'
  BY DEF Trouble, EntryOfFile, Typed, MakerHasFile, At, Promised, Weak
<1> QED
  BY <1>1, <1>2, <1>3, MakerFails

LEMMA StartGetFileKeeps ==
  ASSUME LookupInv, NEW c \in Complexes, StartGetFile(c)
  PROVE  LookupInv'
<1> DEFINE found == Lookup(fileEntry, LiveFiles, TRUE)
<1> USE PhasesDiffer DEF LookupInv
<1>1. complex[c].phase = "info" /\ {"info", "check", "getFile"} \subseteq Making
  BY DEF StartGetFile, At, Making
<1>2. Files \subseteq Nat
  BY DocumentsAssumption DEF Files
<1>3. ASSUME NEW f \in Files, NEW phase \in {"check", "getFile"},
             complex' = [complex EXCEPT ![c].phase = phase, ![c].file = f]
      PROVE  /\ complex' \in [Complexes -> ComplexStates]
             /\ complex'[c].phase = phase /\ complex'[c].file = f
             /\ \A d \in Complexes \ {c} : complex'[d] = complex[d]
  <2>1. complex[c] \in ComplexStates /\ phase \in Phases /\ f \in Nat
    BY <1>1, <1>2, StateFields
  <2>2. complex'[c] = [complex[c] EXCEPT !.phase = phase, !.file = f]
    BY <1>3 DEF Typed
  <2>3. complex'[c] \in ComplexStates /\ complex'[c].phase = phase /\ complex'[c].file = f
    BY <2>1, <2>2 DEF ComplexStates, Fields
  <2> QED
    BY <1>3, <2>3 DEF Typed
<1>4. CASE /\ found = "object"
           /\ complex' = [complex EXCEPT ![c].phase = "check", ![c].file = fileEntry.of]
           /\ UNCHANGED <<complexEntry, fileEntry, instance, request>>
  <2>1. fileEntry.of \in Files
    BY <1>4 DEF LiveFiles, Lookup, IsAlive
  <2>2. /\ complex' \in [Complexes -> ComplexStates]
        /\ complex'[c].phase = "check"
        /\ \A d \in Complexes \ {c} : complex'[d] = complex[d]
    BY <1>3, <1>4, <2>1
  <2>3. Typed'
    BY <1>4, <2>2 DEF StartGetFile, Typed, budget
  <2> QED
    BY <1>1, <1>4, <2>2, <2>3, MakerMovesOn
<1>5. CASE /\ fileEntry' = AfterLookup(fileEntry)
           /\ Fails(c)
           /\ UNCHANGED instance
  <2>1. Typed'
    BY <1>1, <1>5, MakerFails DEF StartGetFile, Typed, budget
  <2>2. EntryOfFile'
    BY <1>5 DEF EntryOfFile, AfterLookup, Promised, Weak, Rejected
  <2> QED
    BY <1>1, <1>5, <2>1, <2>2, MakerFails
<1>6. ASSUME NEW f \in Files,
             found = "null",
             instance' = [instance EXCEPT ![f] = "making"],
             fileEntry' = Promised(f),
             complex' = [complex EXCEPT ![c].phase = "getFile", ![c].file = f],
             UNCHANGED <<complexEntry, request>>
      PROVE  LookupInv'
  <2>1. fileEntry = NoEntry
    BY <1>6 DEF Lookup, IsAlive, NoEntry
  <2>2. \A g \in Files : instance[g] = "none"
    BY <2>1 DEF EntryOfFile, Typed, NoEntry, Promised, Weak
  <2>3. /\ complex' \in [Complexes -> ComplexStates]
        /\ complex'[c].phase = "getFile" /\ complex'[c].file = f
        /\ \A d \in Complexes \ {c} : complex'[d] = complex[d]
    BY <1>3, <1>6
  <2>4. Typed'
    BY <1>6, <2>3 DEF StartGetFile, Typed, budget
  <2>5. EntryOfComplex'
    BY <1>1, <1>6, <2>3 DEF EntryOfComplex
  <2>6. RequestsHold'
    BY <1>1, <1>6, <2>3, RequestsOfOthers
  <2>7. EntryOfFile'
    BY <1>6, <2>2 DEF EntryOfFile, Typed
  <2>8. MakerHasFile'
    BY <1>1, <1>6, <2>3, MakerIsAlone DEF MakerHasFile, At, Typed
  <2> QED
    BY <2>4, <2>5, <2>6, <2>7, <2>8
<1> QED
  BY <1>4, <1>5, <1>6 DEF StartGetFile

LEMMA GotFileKeeps ==
  ASSUME LookupInv, NEW c \in Complexes, GotFile(c)
  PROVE  LookupInv'
<1> USE PhasesDiffer DEF LookupInv
<1>1. complex[c].phase = "getFile" /\ "getFile" \in Making /\ "check" \in Making
  BY DEF GotFile, At, Making
<1>2. complex[c].file \in Files /\ fileEntry = Promised(complex[c].file)
  BY <1>1 DEF MakerHasFile, EntryOfFile, At
<1>3. /\ complex' \in [Complexes -> ComplexStates]
      /\ complex'[c].phase = "check"
      /\ \A d \in Complexes \ {c} : complex'[d] = complex[d]
  BY <1>1, NewPhase DEF GotFile, GoTo
<1>4. Typed'
  BY <1>2, <1>3 DEF GotFile, Typed, budget
<1>5. EntryOfComplex'
  BY <1>1, <1>3 DEF GotFile, EntryOfComplex
<1>6. RequestsHold'
  BY <1>1, <1>3, RequestsOfOthers DEF GotFile
<1>7. EntryOfFile'
  BY <1>2 DEF GotFile, EntryOfFile, Typed, Resolved, Added, IsAlive, Promised, Weak, NoEntry
<1>8. MakerHasFile'
  BY <1>1, <1>3, MakerIsAlone DEF MakerHasFile, At
<1> QED
  BY <1>4, <1>5, <1>6, <1>7, <1>8

LEMMA PublishMeans ==
  ASSUME Typed, NEW c \in Complexes, Publish(c)
  PROVE  /\ complex' \in [Complexes -> ComplexStates]
         /\ complex'[c].phase = "ready" /\ ~ complex'[c].late
         /\ \A d \in Complexes \ {c} : complex'[d] = complex[d]
<1>1. complex'[c] = [Unmade EXCEPT !.phase = "ready", !.file = complex[c].file]
  BY DEF Publish, Typed
<1>2. complex'[c] \in ComplexStates /\ complex'[c].phase = "ready" /\ ~ complex'[c].late
  BY <1>1, WhenPublished DEF Typed
<1> QED
  BY <1>2 DEF Publish, Typed

\* The last thing that a maker does.
LEMMA PublishKeeps ==
  ASSUME LookupInv, NEW c \in Complexes, Publish(c)
  PROVE  LookupInv'
<1> USE PhasesDiffer DEF LookupInv
<1>1. complex[c].phase = "done" /\ "done" \in Making
  BY DEF Publish, At, Making
<1>2. /\ complex' \in [Complexes -> ComplexStates]
      /\ complex'[c].phase = "ready" /\ ~ complex'[c].late
      /\ \A d \in Complexes \ {c} : complex'[d] = complex[d]
  BY PublishMeans
<1>3. Typed'
  BY <1>2 DEF Publish, Answer, Typed, RequestStates, budget
<1>4. EntryOfComplex'
  BY <1>1, <1>2, MakerIsAlone
  DEF Publish, EntryOfComplex, Resolved, Added, IsAlive, NoEntry, Weak
<1>5. EntryOfFile' /\ MakerHasFile'
  BY <1>1, <1>2, MakerIsAlone DEF Publish, EntryOfFile, MakerHasFile, At
<1>6. RequestsHold'
  <2> SUFFICES ASSUME NEW r \in Requests, request'[r].pc \in {"waiting", "using"}
               PROVE  request'[r] = [pc |-> "using", of |-> c]
    BY <1>2 DEF RequestsHold
  <2>1. CASE request[r] = [pc |-> "waiting", of |-> c]
    BY <2>1 DEF Publish, Answer
  <2>2. CASE request[r] # [pc |-> "waiting", of |-> c]
    <3>1. request[r].pc \in {"waiting", "using"}
      BY <2>2 DEF Publish, Answer
    <3>2. request[r].of \in Complexes /\ request[r] = [pc |-> request[r].pc, of |-> request[r].of]
      BY <3>1 DEF Typed, RequestStates, Idle
    <3>3. request[r].of = c
      BY <3>1, <3>2, <1>1, MakerIsAlone DEF RequestsHold
    <3>4. request[r].pc = "waiting"
      BY <3>1, <3>3, <1>1 DEF RequestsHold
    <3> QED
      BY <2>2, <3>2, <3>3, <3>4
  <2> QED
    BY <2>1, <2>2
<1> QED
  BY <1>3, <1>4, <1>5, <1>6

\* What the maker becomes by what it has found.
LEMMA BecomesMeans ==
  ASSUME Typed, NEW c \in Complexes, NEW status, Becomes(c, status)
  PROVE  /\ complex' \in [Complexes -> ComplexStates]
         /\ complex'[c].phase = IF status = "ok" THEN "done" ELSE "create"
         /\ SameView(c)
         /\ \A d \in Complexes \ {c} : complex'[d] = complex[d]
<1> DEFINE phase == IF status = "ok" THEN "done" ELSE "create"
           text == CASE status = "ok" -> "none"
                     [] status = "notFound" -> "first"
                     [] OTHER -> "note"
<1>1. /\ phase \in Phases /\ text \in {"none", "first", "note"}
      /\ status # "ok" => text # "none"
      /\ phase \in {"create", "append", "text"} => text # "none"
  BY DEF Phases, Making
<1>2. complex' = [complex EXCEPT ![c].phase = phase, ![c].seen = 0, ![c].text = text]
  BY DEF Becomes
<1> HIDE DEF phase, text
<1>3. complex[c] \in ComplexStates
  BY DEF Typed
<1>4. complex'[c] = [complex[c] EXCEPT !.phase = phase, !.seen = 0, !.text = text]
  BY <1>2 DEF Typed
<1>5. complex'[c] \in ComplexStates /\ complex'[c].phase = phase /\ SameView(c)
  <2>1. ASSUME NEW s \in ComplexStates, NEW t,
               t = [s EXCEPT !.phase = phase, !.seen = 0, !.text = text]
        PROVE  t \in ComplexStates /\ t.phase = phase /\ t.late = s.late /\ t.part = s.part
    BY <1>1, <2>1 DEF ComplexStates, Fields
  <2> QED
    BY <1>3, <1>4, <2>1 DEF SameView
<1>6. complex' \in [Complexes -> ComplexStates] /\ \A d \in Complexes \ {c} : complex'[d] = complex[d]
  BY <1>2, <1>5 DEF Typed
<1> QED
  BY <1>1, <1>5, <1>6 DEF phase

\* The maker reads the revision number of a part.
LEMMA ListingMeans ==
  ASSUME Typed, NEW c \in Complexes, StartValidation(c)
  PROVE  /\ complex' \in [Complexes -> ComplexStates]
         /\ complex'[c].phase = "list" /\ complex'[c].seen = Changes(complex[c].part)
         /\ SameView(c)
         /\ \A d \in Complexes \ {c} : complex'[d] = complex[d]
<1> DEFINE seen == Changes(complex[c].part)
<1>1. seen \in Nat /\ complex[c] \in ComplexStates
  BY DEF Typed, Contents, Changes
<1>2. complex' = [complex EXCEPT ![c].phase = "list", ![c].seen = seen]
  BY DEF StartValidation
<1> HIDE DEF seen
<1>3. complex'[c] = [complex[c] EXCEPT !.phase = "list", !.seen = seen]
  BY <1>2 DEF Typed
<1>4. /\ complex'[c] \in ComplexStates /\ complex'[c].phase = "list"
      /\ complex'[c].seen = seen /\ SameView(c)
  <2>1. ASSUME NEW s \in ComplexStates, NEW t,
               t = [s EXCEPT !.phase = "list", !.seen = seen]
        PROVE  /\ t \in ComplexStates /\ t.phase = "list" /\ t.seen = seen
               /\ t.late = s.late /\ t.part = s.part
    BY <1>1, <2>1 DEF ComplexStates, Fields, Phases, Making
  <2> QED
    BY <1>1, <1>3, <2>1 DEF SameView
<1> QED
  BY <1>2, <1>4 DEF Typed, seen

\* After the body comes the rest.
LEMMA NextPartMeans ==
  ASSUME Typed, NEW c \in Complexes,
         complex' = [complex EXCEPT ![c].phase = "number", ![c].part = "rest"]
  PROVE  /\ complex' \in [Complexes -> ComplexStates]
         /\ complex'[c].phase = "number" /\ complex'[c].part = "rest"
         /\ \A d \in Complexes \ {c} : complex'[d] = complex[d]
<1>1. complex'[c] = [complex[c] EXCEPT !.phase = "number", !.part = "rest"]
  BY DEF Typed
<1>2. /\ complex'[c] \in ComplexStates
      /\ complex'[c].phase = "number" /\ complex'[c].part = "rest"
  BY <1>1, WhenNext DEF Typed
<1> QED
  BY <1>2 DEF Typed

\* What the validation of a part comes to.
LEMMA EndingMeans ==
  ASSUME Typed, NEW c \in Complexes, EndValidation(c)
  PROVE  \/ Changes(complex[c].part) > complex[c].seen /\ Becomes(c, "error")
         \/ complex' = [complex EXCEPT ![c].phase = "number", ![c].part = "rest"]
         \/ Becomes(c, "ok")
BY DEF EndValidation

LEMMA ValidationKeeps ==
  ASSUME LookupInv, NEW c \in Complexes,
         CheckSchema(c) \/ StartValidation(c) \/ EndValidation(c)
  PROVE  LookupInv'
<1> USE DEF LookupInv
<1>1. /\ complex[c].phase \in Making
      /\ {"number", "list", "create", "done"} \subseteq Making \ {"getFile"}
  BY DEF CheckSchema, StartValidation, EndValidation, At, Making
<1>2. \/ \E status : Becomes(c, status)
      \/ GoTo(c, "number")
      \/ StartValidation(c)
      \/ complex' = [complex EXCEPT ![c].phase = "number", ![c].part = "rest"]
  BY EndingMeans DEF CheckSchema
<1>3. /\ complex' \in [Complexes -> ComplexStates]
      /\ complex'[c].phase \in {"number", "list", "create", "done"}
      /\ \A d \in Complexes \ {c} : complex'[d] = complex[d]
  <2>1. "number" \in Phases
    BY DEF Phases, Making
  <2> QED
    BY <1>2, <2>1, BecomesMeans, ListingMeans, NextPartMeans, NewPhase DEF GoTo
<1>4. UNCHANGED <<content, disk, caches, instance, request, update, budget>>
  BY DEF CheckSchema, StartValidation, EndValidation
<1>5. Typed'
  BY <1>3, <1>4 DEF Typed, budget
<1> QED
  BY <1>1, <1>3, <1>4, <1>5, MakerMovesOn DEF caches

\* The steps that write to the file.
LEMMA WritingMeans ==
  ASSUME Typed, NEW c \in Complexes, CreateFile(c) \/ AppendInitOps(c)
  PROVE  /\ content' \in Contents
         /\ complex' \in [Complexes -> ComplexStates]
         /\ complex[c].phase \in {"create", "append"}
         /\ complex'[c].phase = IF At(c, "create") THEN "append" ELSE "text"
         /\ complex'[c].text = complex[c].text
         /\ At(c, "create") => complex'[c].calm
         /\ SameView(c)
         /\ \A d \in Complexes \ {c} : complex'[d] = complex[d]
<1>1. content' \in Contents
  <2>1. content \in Contents /\ << >> \in Seq(Texts)
    BY DEF Typed
  <2>2. CASE CreateFile(c)
    BY <2>1, <2>2 DEF CreateFile, Contents
  <2>3. CASE AppendInitOps(c)
    BY <2>1, <2>3 DEF AppendInitOps, Contents
  <2> QED
    BY <2>2, <2>3
<1>2. complex[c] \in ComplexStates /\ {"append", "text"} \subseteq Phases
  BY DEF Typed, Phases, Making
<1>3. CASE CreateFile(c)
  <2>1. complex'[c] = [complex[c] EXCEPT !.phase = "append", !.calm = TRUE]
    BY <1>3 DEF CreateFile, Typed
  <2>2. /\ complex'[c] \in ComplexStates
        /\ complex'[c].phase = "append" /\ complex'[c].text = complex[c].text
        /\ complex'[c].calm /\ SameView(c)
    BY <1>2, <1>3, <2>1, WhenCreated DEF CreateFile, At, SameView
  <2> QED
    BY <1>1, <1>3, <2>2 DEF CreateFile, Typed, At
<1>4. CASE AppendInitOps(c)
  <2>1. complex'[c] = [complex[c] EXCEPT !.phase = "text"]
    BY <1>4 DEF AppendInitOps, GoTo, Typed
  <2>2. /\ complex'[c] \in ComplexStates
        /\ complex'[c].phase = "text" /\ complex'[c].text = complex[c].text
        /\ SameView(c)
    BY <1>2, <1>4, <2>1, WhenAppended DEF AppendInitOps, At, SameView
  <2> QED
    BY <1>1, <1>4, <2>2 DEF AppendInitOps, GoTo, Typed, At
<1> QED
  BY <1>3, <1>4

LEMMA WritingKeeps ==
  ASSUME LookupInv, NEW c \in Complexes, CreateFile(c) \/ AppendInitOps(c)
  PROVE  LookupInv'
<1> USE DEF LookupInv
<1>1. /\ UNCHANGED <<disk, caches, instance, request, update, troubles, crashes>>
      /\ beaten' \in BOOLEAN
  BY DEF CreateFile, AppendInitOps, budget, Typed
<1>2. Typed'
  BY <1>1, WritingMeans DEF Typed
<1>3. complex[c].phase \in Making /\ complex'[c].phase \in Making \ {"getFile"}
  BY WritingMeans DEF Making
<1> QED
  BY <1>1, <1>2, <1>3, WritingMeans, MakerMovesOn DEF caches

\* The first text is there once the maker is done.
LEMMA FirstTextMeans ==
  ASSUME Typed, NEW c \in Complexes, WriteFirstText(c), content.schema # "none"
  PROVE  /\ content' \in Contents
         /\ content' = [content EXCEPT !.body = Append(content.body, complex[c].text)]
         /\ complex' \in [Complexes -> ComplexStates]
         /\ complex'[c].phase = "done" /\ SameView(c)
         /\ \A d \in Complexes \ {c} : complex'[d] = complex[d]
         /\ UNCHANGED <<caches, request>>
<1> DEFINE body == Append(content.body, complex[c].text)
<1>1. body \in Seq(Texts)
  <2>1. complex[c].phase = "text"
    BY DEF WriteFirstText, At
  <2>2. complex[c].text \in Texts /\ content.body \in Seq(Texts)
    BY <2>1 DEF Typed, ComplexStates, Fields, Contents, Texts
  <2> QED
    BY <2>2
<1>2. content' = [content EXCEPT !.body = body]
  BY DEF WriteFirstText
<1> HIDE DEF body
<1>3. content' \in Contents
  BY <1>1, <1>2 DEF Typed, Contents
<1>4. /\ complex' \in [Complexes -> ComplexStates]
      /\ complex'[c].phase = "done" /\ SameView(c)
      /\ \A d \in Complexes \ {c} : complex'[d] = complex[d]
  <2>1. "done" \in Phases
    BY DEF Phases, Making
  <2> QED
    BY <2>1, NewPhase DEF WriteFirstText, GoTo
<1> QED
  BY <1>2, <1>3, <1>4 DEF WriteFirstText, body

LEMMA WriteFirstTextKeeps ==
  ASSUME LookupInv, NEW c \in Complexes, WriteFirstText(c)
  PROVE  LookupInv'
<1> USE DEF LookupInv
<1>1. complex[c].phase \in Making /\ "done" \in Making \ {"getFile"}
  BY DEF WriteFirstText, At, Making
<1>2. UNCHANGED <<disk, instance, update, budget>>
  BY DEF WriteFirstText
<1>3. CASE content.schema = "none"
  <2>1. Fails(c) /\ UNCHANGED <<content, fileEntry, recent>>
    BY <1>3 DEF WriteFirstText
  <2>2. Typed'
    BY <1>1, <1>2, <2>1, MakerFails DEF Typed, budget
  <2>3. EntryOfFile'
    BY <1>2, <2>1 DEF EntryOfFile
  <2> QED
    BY <1>1, <2>1, <2>2, <2>3, MakerFails
<1>4. CASE content.schema # "none"
  <2>1. Typed'
    BY <1>2, <1>4, FirstTextMeans DEF Typed, budget, caches
  <2> QED
    BY <1>1, <1>2, <1>4, <2>1, FirstTextMeans, MakerMovesOn DEF caches
<1> QED
  BY <1>3, <1>4

\* Requests stay right as long as nothing happens to the complexes that live.
LEMMA RequestsStay ==
  ASSUME LookupInv, request' = request,
         \A c \in Complexes : complex[c].phase \in Making \cup {"ready"} =>
                              complex'[c].phase = complex[c].phase
  PROVE  RequestsHold'
<1> SUFFICES ASSUME NEW r \in Requests, request[r].pc \in {"waiting", "using"}
             PROVE  /\ request[r].pc = "waiting" => complex'[request[r].of].phase \in Making
                    /\ request[r].pc = "using" => complex'[request[r].of].phase = "ready"
  BY DEF RequestsHold
<1>1. request[r].of \in Complexes
  BY DEF LookupInv, Typed, RequestStates, Idle
<1> QED
  BY <1>1 DEF LookupInv, RequestsHold

LEMMA ReleaseKeeps ==
  ASSUME LookupInv, NEW r \in Requests, Release(r)
  PROVE  LookupInv'
<1> USE DEF LookupInv, Release
<1>1. Typed'
  BY DEF Typed, caches, budget, RequestStates
<1>2. EntryOfComplex' /\ EntryOfFile' /\ MakerHasFile'
  BY DEF caches, EntryOfComplex, EntryOfFile, MakerHasFile, At
<1>3. RequestsHold'
  BY DEF RequestsHold, Typed, Idle
<1> QED
  BY <1>1, <1>2, <1>3

LEMMA StartUpdateKeeps ==
  ASSUME LookupInv, NEW u \in Updates, NEW r \in Requests, NEW part \in Parts,
         StartUpdate(u, r, part)
  PROVE  LookupInv'
<1> USE DEF LookupInv
<1>1. EntryOfComplex' /\ EntryOfFile' /\ MakerHasFile' /\ RequestsHold'
  BY DEF StartUpdate, caches, EntryOfComplex, EntryOfFile, MakerHasFile, RequestsHold, At
<1>2. request[r].of \in Complexes
  BY DEF StartUpdate, Typed, RequestStates, Idle
<1>3. complex[request[r].of].file \in Nat
  BY <1>2 DEF Typed, ComplexStates, Fields
<1>4. Typed'
  BY <1>2, <1>3 DEF StartUpdate, Typed, UpdateStates, caches, budget
<1> QED
  BY <1>1, <1>4

\* What gets into the file is seen by a maker only as something late, or as
\* what makes its append fail.
LEMMA DisturbMeans ==
  ASSUME Typed, NEW part, Disturb(part)
  PROVE  /\ complex' \in [Complexes -> ComplexStates]
         /\ \A c \in Complexes :
              /\ complex'[c].phase = complex[c].phase /\ complex'[c].file = complex[c].file
              /\ complex'[c].seen = complex[c].seen /\ complex'[c].part = complex[c].part
              /\ complex'[c].late = (complex[c].late \/ (At(c, "list") /\ complex[c].part = part))
<1>1. ASSUME NEW c \in Complexes
      PROVE  /\ complex'[c] \in ComplexStates
             /\ complex'[c].phase = complex[c].phase /\ complex'[c].file = complex[c].file
             /\ complex'[c].seen = complex[c].seen /\ complex'[c].part = complex[c].part
             /\ complex'[c].late = (complex[c].late \/ (At(c, "list") /\ complex[c].part = part))
  <2> DEFINE calm == complex[c].calm /\ ~ At(c, "append")
             late == complex[c].late \/ (At(c, "list") /\ complex[c].part = part)
  <2>1. complex[c] \in ComplexStates /\ calm \in BOOLEAN /\ late \in BOOLEAN
    BY DEF Typed, ComplexStates, Fields, At
  <2>2. complex'[c] = [complex[c] EXCEPT !.calm = calm, !.late = late]
    BY DEF Disturb
  <2> HIDE DEF calm, late
  <2>3. /\ complex'[c] \in ComplexStates
        /\ complex'[c].phase = complex[c].phase /\ complex'[c].file = complex[c].file
        /\ complex'[c].seen = complex[c].seen /\ complex'[c].part = complex[c].part
        /\ complex'[c].late = late
    <3>1. ASSUME NEW s \in ComplexStates, NEW t,
                 t = [s EXCEPT !.calm = calm, !.late = late]
          PROVE  /\ t \in ComplexStates /\ t.phase = s.phase /\ t.file = s.file
                 /\ t.seen = s.seen /\ t.part = s.part /\ t.late = late
      BY <2>1, <3>1 DEF ComplexStates, Fields
    <3> QED
      BY <2>1, <2>2, <3>1
  <2> QED
    BY <2>3 DEF late
<1>2. complex' = [c \in Complexes |-> complex'[c]]
  BY DEF Disturb
<1> QED
  BY <1>1, <1>2

\* Neither the phase nor the file of a complex depends on the updates.
LEMMA UpdatesKeep ==
  ASSUME LookupInv, NEW u \in Updates, LandUpdate(u) \/ LandStoredSnapshot(u) \/ GiveUp(u)
  PROVE  LookupInv'
<1> USE DEF LookupInv
<1>1. UNCHANGED <<disk, complexEntry, fileEntry, instance, request, troubles, crashes, beaten>>
  BY DEF LandUpdate, LandStoredSnapshot, GiveUp, caches, budget
<1>2. /\ complex' \in [Complexes -> ComplexStates]
      /\ \A c \in Complexes : /\ complex'[c].phase = complex[c].phase
                             /\ complex'[c].file = complex[c].file
  BY DisturbMeans DEF LandUpdate, LandStoredSnapshot, GiveUp, Typed
<1>3. content' \in Contents
  <2>1. content \in Contents /\ content.body \in Seq(Texts) /\ "edit" \in Texts
    BY DEF Typed, Contents, Texts
  <2>2. Append(content.body, "edit") \in Seq(Texts)
    BY <2>1
  <2>3. \/ content' = content
        \/ content' = [content EXCEPT !.body = Append(content.body, "edit")]
        \/ content' = [content EXCEPT !.rest = content.rest + 1]
    BY DEF LandUpdate, LandStoredSnapshot, GiveUp
  <2> QED
    BY <2>1, <2>2, <2>3 DEF Contents
<1>4. update' \in [Updates -> UpdateStates]
  <2>1. update[u] \in UpdateStates /\ Idle \in UpdateStates
    BY DEF Typed, UpdateStates
  <2>2. ASSUME update[u].pc = "going"
        PROVE  [update[u] EXCEPT !.pc = "saving", !.part = "rest"] \in UpdateStates
    <3>1. update[u] \in [pc : {"going", "saving"}, part : Parts, of : Complexes, file : Nat]
      BY <2>1, <2>2 DEF UpdateStates, Idle
    <3>2. "rest" \in Parts
      BY DEF Parts
    <3>3. ASSUME NEW s \in [pc : {"going", "saving"}, part : Parts, of : Complexes, file : Nat],
                 NEW t, t = [s EXCEPT !.pc = "saving", !.part = "rest"]
          PROVE  t \in [pc : {"going", "saving"}, part : Parts, of : Complexes, file : Nat]
      BY <3>2, <3>3
    <3> QED
      BY <3>1, <3>3 DEF UpdateStates
  <2>3. \E next \in UpdateStates : update' = [update EXCEPT ![u] = next]
    BY <2>1, <2>2 DEF LandUpdate, LandStoredSnapshot, GiveUp
  <2> QED
    BY <2>3 DEF Typed
<1>5. Typed'
  BY <1>1, <1>2, <1>3, <1>4 DEF Typed
<1>6. EntryOfComplex'
  BY <1>1, <1>2 DEF EntryOfComplex
<1>7. EntryOfFile' /\ MakerHasFile'
  BY <1>1, <1>2 DEF EntryOfFile, MakerHasFile, At
<1>8. RequestsHold'
  BY <1>1, <1>2, RequestsStay
<1> QED
  BY <1>5, <1>6, <1>7, <1>8

LEMMA CollectKeeps ==
  ASSUME LookupInv, NEW c \in Complexes, Collect(c)
  PROVE  LookupInv'
<1> USE PhasesDiffer DEF LookupInv
<1>1. complex[c].phase = "ready" /\ UNCHANGED <<content, disk, caches, instance, request, update, budget>>
  BY DEF Collect, At
<1>2. /\ complex' \in [Complexes -> ComplexStates]
      /\ complex'[c].phase = "dead"
      /\ \A d \in Complexes \ {c} : complex'[d] = complex[d]
  BY <1>1, NewPhase DEF Collect, GoTo
<1>3. Typed'
  BY <1>1, <1>2 DEF Typed, budget
<1>4. EntryOfComplex'
  BY <1>1, <1>2 DEF EntryOfComplex, caches
<1>5. EntryOfFile' /\ MakerHasFile'
  BY <1>1, <1>2 DEF EntryOfFile, MakerHasFile, At, caches
<1>6. RequestsHold'
  <2> SUFFICES ASSUME NEW r \in Requests, request[r].pc \in {"waiting", "using"}
               PROVE  request[r].of \in Complexes \ {c}
    BY <1>1, <1>2 DEF RequestsHold
  <2>1. /\ request[r].of \in Complexes
        /\ request[r] = [pc |-> request[r].pc, of |-> request[r].of]
    BY StateFields DEF Idle
  <2> QED
    BY <1>1, <2>1 DEF RequestsHold, Collect, Held
<1> QED
  BY <1>3, <1>4, <1>5, <1>6

LEMMA ReapKeeps ==
  ASSUME LookupInv, NEW c \in Complexes, Reap(c)
  PROVE  /\ LookupInv' /\ complex'[c].phase = "none" /\ ~ complex'[c].late
         /\ (\A d \in Complexes \ {c} : complex'[d] = complex[d])
<1> USE PhasesDiffer DEF LookupInv
<1>1. /\ complex[c].phase = "dead"
      /\ UNCHANGED <<content, disk, fileEntry, recent, instance, request, update, troubles, crashes, beaten>>
  BY DEF Reap, At, budget
<1>2. /\ complex' \in [Complexes -> ComplexStates]
      /\ complex'[c].phase = "none" /\ ~ complex'[c].late
      /\ \A d \in Complexes \ {c} : complex'[d] = complex[d]
  BY DEF Reap, Typed, Unmade, ComplexStates, Fields, Phases, Parts
<1>3. Typed'
  BY <1>1, <1>2 DEF Typed
<1>4. complexEntry = Weak(c)
  BY <1>1 DEF EntryOfComplex
<1>5. complexEntry' = NoEntry
  BY <1>1, <1>4 DEF Reap, AfterReaping, IsAlive, LiveComplexes, Weak
<1>6. \A d \in Complexes \ {c} : complex[d].phase = "none"
  BY <1>4, StateFields DEF EntryOfComplex, Phases, Weak, Promised
<1>7. EntryOfComplex'
  BY <1>2, <1>5, <1>6 DEF EntryOfComplex, NoEntry
<1>8. EntryOfFile' /\ MakerHasFile'
  BY <1>1, <1>2 DEF EntryOfFile, MakerHasFile, At
<1>9. RequestsHold'
  BY <1>1, <1>2, PhasesDiffer, RequestsStay
<1> QED
  BY <1>2, <1>3, <1>7, <1>8, <1>9

LEMMA FilesKeep ==
  ASSUME LookupInv, NEW f \in Files, CollectFile(f) \/ ReapFile(f)
  PROVE  LookupInv'
<1> USE DEF LookupInv
<1>1. UNCHANGED <<content, disk, complexEntry, complex, request, update, troubles, crashes, beaten>>
  BY DEF CollectFile, ReapFile, caches, budget
<1>2. instance' \in [Files -> {"none", "making", "live", "dead"}]
  BY DEF CollectFile, ReapFile, Typed
<1>3. Typed'
  BY <1>1, <1>2 DEF Typed
<1>4. EntryOfComplex' /\ RequestsHold'
  BY <1>1 DEF EntryOfComplex, RequestsHold
<1>5. EntryOfFile'
  <2>1. CASE CollectFile(f)
    BY <2>1 DEF CollectFile, EntryOfFile, Typed, caches
  <2>2. CASE ReapFile(f)
    <3>1. fileEntry = Weak(f)
      BY <2>2 DEF ReapFile, EntryOfFile
    <3>2. \A g \in Files \ {f} : instance[g] = "none"
      BY <3>1 DEF EntryOfFile, Typed, Weak, Promised
    <3> QED
      BY <2>2, <3>2 DEF ReapFile, EntryOfFile, Typed
  <2> QED
    BY <2>1, <2>2
<1>6. MakerHasFile'
  BY <1>1 DEF CollectFile, ReapFile, MakerHasFile, At, Typed
<1> QED
  BY <1>3, <1>4, <1>5, <1>6

LEMMA EnvironmentKeeps ==
  ASSUME LookupInv, Flush \/ Forget \/ Age \/ Crash
  PROVE  LookupInv'
<1> USE DEF LookupInv
<1>1. CASE Flush \/ Forget
  <2>1. UNCHANGED <<content, complexEntry, fileEntry, complex, instance, request, update,
                    troubles, crashes, beaten>> /\ disk' \in {disk, content}
    BY <1>1 DEF Flush, Forget, caches, budget
  <2> QED
    BY <2>1 DEF Typed, EntryOfComplex, EntryOfFile, MakerHasFile, RequestsHold, At
<1>2. CASE Age
  <2>1. UNCHANGED <<content, disk, complex, instance, request, update, troubles, crashes, beaten>>
    BY <1>2 DEF Age, budget
  <2>2. EntryOfComplex' /\ EntryOfFile'
    BY <1>2 DEF Age, EntryOfComplex, EntryOfFile, Rejected, Promised, Weak
  <2> QED
    BY <2>1, <2>2 DEF Typed, MakerHasFile, RequestsHold, At
<1>3. CASE Crash
  <2>1. Typed'
    BY <1>3 DEF Crash, Typed, Unmade, ComplexStates, Fields, Phases, RequestStates, UpdateStates, Parts
  <2> QED
    BY <1>3, <2>1, PhasesDiffer
    DEF Crash, Unmade, Idle, NoEntry, EntryOfComplex, EntryOfFile, MakerHasFile, RequestsHold, At
<1> QED
  BY <1>1, <1>2, <1>3

LEMMA LookupInductive == LookupInv /\ [Next]_vars => LookupInv'
<1> SUFFICES ASSUME LookupInv, [Next]_vars PROVE LookupInv'
  OBVIOUS
<1>1. ASSUME NEW c \in Complexes, Make(c) PROVE LookupInv'
  BY <1>1, StartGetFileKeeps, GotFileKeeps, ValidationKeeps, WritingKeeps,
     WriteFirstTextKeeps, PublishKeeps DEF Make
<1>2. ASSUME NEW c \in Complexes, Trouble(c) \/ Collect(c) \/ Reap(c) PROVE LookupInv'
  BY <1>2, TroubleKeeps, CollectKeeps, ReapKeeps
<1>3. ASSUME NEW r \in Requests, getDocComplex(r) \/ Release(r) PROVE LookupInv'
  BY <1>3, getDocComplexKeeps, ReleaseKeeps
<1>4. ASSUME NEW u \in Updates,
             \/ LandUpdate(u) \/ LandStoredSnapshot(u) \/ GiveUp(u)
             \/ \E r \in Requests, part \in Parts : StartUpdate(u, r, part)
      PROVE  LookupInv'
  BY <1>4, UpdatesKeep, StartUpdateKeeps
<1>5. CASE UNCHANGED vars
  BY <1>5 DEF vars, caches, budget, LookupInv, Typed, EntryOfComplex, EntryOfFile,
              MakerHasFile, RequestsHold, At
<1> QED
  BY <1>1, <1>2, <1>3, <1>4, <1>5, FilesKeep, EnvironmentKeeps DEF Next

LEMMA AlwaysLookupInv == Spec => []LookupInv
<1> QED
  BY InitIsGood, LookupInductive, PTL DEF Spec

LEMMA LookupInvImpliesOneComplex == LookupInv => OneComplex
<1> SUFFICES ASSUME LookupInv PROVE OneComplex
  OBVIOUS
<1>1. ASSUME NEW c \in Complexes, NEW d \in Complexes,
             {complex[c].phase, complex[d].phase} \subseteq Making \cup {"ready"}
      PROVE  c = d
  BY <1>1 DEF LookupInv, EntryOfComplex, Promised, Weak
<1>2. ASSUME NEW f \in Files, NEW g \in Files,
             {instance[f], instance[g]} \subseteq {"making", "live"}
      PROVE  f = g
  BY <1>2 DEF LookupInv, EntryOfFile, Promised, Weak
<1> QED
  BY <1>1, <1>2 DEF OneComplex

(* Whatever fails, crashes, ages or is collected late, and also if updates *)
(* outlive their complexes: getDocComplex() and getFile() never let two    *)
(* complexes, or two instances of the file, exist at a time.               *)
THEOREM AlwaysOneComplex == Spec => []OneComplex
BY AlwaysLookupInv, LookupInvImpliesOneComplex, PTL

-----------------------------------------------------------------------------
(* The file, with what lands in it while it is validated and written       *)

LEMMA InitIsWhole == Init => IInv
<1> SUFFICES ASSUME Init PROVE IInv
  OBVIOUS
<1>1. LookupInv
  BY InitIsGood
<1>2. Sound(content) /\ Sound(disk) /\ SoleText(content) /\ SoleText(disk)
  BY DEF Init, NoFile, OldFile, Sound, SoleText
<1>3. UpdatesHold /\ MakersKnow /\ EmptyIsBeingMade
  BY DEF Init, NoFile, OldFile, Unmade, Idle, UpdatesHold, MakersKnow, Knows, At, EmptyIsBeingMade
<1> QED
  BY <1>1, <1>2, <1>3 DEF IInv, FileInv, SoleTexts

\* While a complex is being made there are no updates of the body.
LEMMA NoBodyUpdatesYet ==
  ASSUME LookupInv, UpdatesHold, NEW c \in Complexes, complex[c].phase \in Making,
         NEW u \in Updates, update[u].pc = "going"
  PROVE  update[u].part = "rest"
<1> SUFFICES ASSUME update[u].part = "body" PROVE FALSE
  BY DEF LookupInv, Typed, UpdateStates, Idle, Parts
<1>1. update[u].of \in Complexes
  BY DEF LookupInv, Typed, UpdateStates, Idle
<1>2. complex[update[u].of].phase = "ready"
  BY DEF UpdatesHold
<1> QED
  BY <1>1, <1>2, MakerIsAlone, PhasesDiffer

\* Updates are safe in every step that leaves them, the schema and the complexes
\* alone that those of the body keep alive.
LEMMA UpdatesStay ==
  ASSUME LookupInv, UpdatesHold, update' = update,
         content.schema = "now" => content'.schema = "now",
         \A c \in Complexes : complex[c].phase = "ready" =>
            \/ complex'[c].phase = "ready"
            \/ \A u \in Updates :
                 ~ (update[u].pc = "going" /\ update[u].part = "body" /\ update[u].of = c)
  PROVE  UpdatesHold'
<1>1. ASSUME NEW u \in Updates, update[u].pc = "going", update[u].part = "body"
      PROVE  complex'[update[u].of].phase = "ready"
  <2>1. update[u].of \in Complexes /\ complex[update[u].of].phase = "ready"
    BY <1>1 DEF LookupInv, Typed, UpdateStates, Idle, UpdatesHold
  <2> QED
    BY <1>1, <2>1
<1> QED
  BY <1>1 DEF UpdatesHold

\* A step of the maker has to care only for itself.
LEMMA MakerCares ==
  ASSUME IInv, NEW c \in Complexes, complex[c].phase \in Making,
         \A d \in Complexes \ {c} : complex'[d] = complex[d],
         update' = update, content.schema = "now" => content'.schema = "now"
  PROVE  UpdatesHold' /\ (Knows(c)' => MakersKnow')
<1>1. UpdatesHold'
  BY UpdatesStay, PhasesDiffer DEF IInv
<1>2. ASSUME NEW d \in Complexes \ {c} PROVE Knows(d)'
  <2>1. complex'[d] = complex[d] /\ complex[d].phase = "none"
    BY MakerIsAlone DEF IInv
  <2>2. complex[d].late => complex[d].part = "rest"
    BY DEF IInv, FileInv, MakersKnow, Knows
  <2> QED
    BY <2>1, <2>2 DEF Knows, At
<1> QED
  BY <1>1, <1>2 DEF MakersKnow

\* A maker that fails leaves the file as it is.
LEMMA FailsIsSafe ==
  ASSUME IInv, NEW c \in Complexes, complex[c].phase \in Making, Fails(c),
         UNCHANGED <<content, disk, update, crashes, beaten>>,
         (troubles' = troubles /\ ~ At(c, "text")) \/ troubles' = troubles + 1
  PROVE  UpdatesHold' /\ FileInv'
<1>1. \A d \in Complexes : complex'[d].phase = "none"
  BY MakerFails DEF IInv
<1>2. complex' = [complex EXCEPT ![c] = Unmade]
  BY DEF Fails
<1>3. UpdatesHold'
  BY UpdatesStay, MakerIsAlone, PhasesDiffer, <1>2 DEF IInv
<1>4. MakersKnow'
  <2> SUFFICES ASSUME NEW d \in Complexes PROVE Knows(d)'
    BY DEF MakersKnow
  <2>1. complex'[d].late => complex'[d].part = "rest"
    BY <1>2 DEF Unmade, IInv, LookupInv, Typed, FileInv, MakersKnow, Knows
  <2> QED
    BY <1>1, <2>1 DEF Knows, At
<1>5. EmptyIsBeingMade'
  <2>1. CASE troubles' = troubles + 1
    BY <2>1 DEF EmptyIsBeingMade, IInv, LookupInv, Typed
  <2>2. CASE troubles' = troubles /\ ~ At(c, "text")
    <3>1. \A d \in Complexes : ~ At(d, "text")
      BY <2>2, MakerIsAlone DEF At, IInv
    <3> QED
      BY <2>2, <3>1 DEF EmptyIsBeingMade, IInv, FileInv
  <2> QED
    BY <2>1, <2>2
<1>6. Sound(content)' /\ Sound(disk)' /\ SoleTexts'
  BY DEF IInv, FileInv, SoleTexts
<1> QED
  BY <1>3, <1>4, <1>5, <1>6 DEF FileInv

\* Nobody fails, and nothing is written: what has to hold is what the maker knows.
LEMMA MakerReads ==
  ASSUME IInv, NEW c \in Complexes, complex[c].phase \in Making, ~ At(c, "text"),
         \A d \in Complexes \ {c} : complex'[d] = complex[d],
         UNCHANGED <<content, disk, update, troubles, crashes, beaten>>,
         Knows(c)'
  PROVE  UpdatesHold' /\ FileInv'
<1>1. UpdatesHold' /\ MakersKnow'
  BY MakerCares
<1>2. \A d \in Complexes : ~ At(d, "text")
  BY MakerIsAlone DEF At, IInv
<1>3. EmptyIsBeingMade'
  BY <1>2 DEF EmptyIsBeingMade, IInv, FileInv
<1>4. Sound(content)' /\ Sound(disk)' /\ SoleTexts'
  BY DEF IInv, FileInv, SoleTexts
<1> QED
  BY <1>1, <1>3, <1>4 DEF FileInv

\* What the maker found to be late stays so, unless the step changes it.
LEMMA LateStays ==
  ASSUME IInv, NEW c \in Complexes, SameView(c)
  PROVE  complex'[c].late => complex'[c].part = "rest"
BY DEF IInv, FileInv, MakersKnow, Knows, SameView

LEMMA StartGetFileIsSafe ==
  ASSUME IInv, NEW c \in Complexes, StartGetFile(c)
  PROVE  UpdatesHold' /\ FileInv'
<1>1. /\ complex[c].phase = "info" /\ complex[c].phase \in Making /\ ~ At(c, "text")
      /\ UNCHANGED <<content, disk, update, troubles, crashes, beaten>>
  BY DEF StartGetFile, At, Making, budget
<1>2. CASE Fails(c)
  BY <1>1, <1>2, FailsIsSafe
<1>3. ASSUME NEW f, NEW phase \in {"check", "getFile"},
             complex' = [complex EXCEPT ![c].phase = phase, ![c].file = f]
      PROVE  UpdatesHold' /\ FileInv'
  <2>1. /\ complex'[c] = [complex[c] EXCEPT !.phase = phase, !.file = f]
        /\ complex[c] \in Fields
        /\ \A d \in Complexes \ {c} : complex'[d] = complex[d]
    BY <1>3 DEF IInv, LookupInv, Typed, ComplexStates
  <2>2. complex'[c].phase = phase /\ SameView(c)
    BY <2>1 DEF Fields, SameView
  <2>3. Knows(c)'
    BY <2>2, LateStays DEF Knows, At
  <2> QED
    BY <1>1, <2>1, <2>3, MakerReads
<1> QED
  BY <1>2, <1>3 DEF StartGetFile

LEMMA GotFileIsSafe ==
  ASSUME IInv, NEW c \in Complexes, GotFile(c)
  PROVE  UpdatesHold' /\ FileInv'
<1>1. /\ complex[c].phase = "getFile" /\ complex[c].phase \in Making /\ ~ At(c, "text")
      /\ UNCHANGED <<content, disk, update, troubles, crashes, beaten>>
  BY DEF GotFile, At, Making, budget
<1>2. /\ complex'[c].phase = "check" /\ SameView(c)
      /\ \A d \in Complexes \ {c} : complex'[d] = complex[d]
  <2>1. "check" \in Phases /\ Typed
    BY DEF Phases, Making, IInv, LookupInv
  <2> QED
    BY <2>1, NewPhase DEF GotFile, GoTo
<1>3. Knows(c)'
  BY <1>2, LateStays DEF Knows, At
<1> QED
  BY <1>1, <1>2, <1>3, MakerReads

LEMMA CheckSchemaIsSafe ==
  ASSUME IInv, NEW c \in Complexes, CheckSchema(c)
  PROVE  UpdatesHold' /\ FileInv'
<1> USE DEF IInv, LookupInv, FileInv
<1>1. /\ complex[c].phase = "check" /\ complex[c].phase \in Making /\ ~ At(c, "text")
      /\ UNCHANGED <<content, disk, update, troubles, crashes, beaten>>
  BY DEF CheckSchema, At, Making, budget
<1>2. CASE ~ content.exists \/ content.schema # "now"
  <2>1. \E status : status # "ok" /\ Becomes(c, status)
    BY <1>2 DEF CheckSchema, Typed, Contents
  <2>2. /\ complex'[c].phase = "create" /\ SameView(c)
        /\ \A d \in Complexes \ {c} : complex'[d] = complex[d]
    BY <2>1, BecomesMeans
  <2>3. content.schema # "now"
    BY <1>2 DEF Sound
  <2>4. Knows(c)'
    BY <1>1, <2>2, <2>3, LateStays DEF Knows, At
  <2> QED
    BY <1>1, <2>2, <2>4, MakerReads
<1>3. CASE content.exists /\ content.schema = "now"
  <2>1. GoTo(c, "number")
    BY <1>3 DEF CheckSchema
  <2>2. "number" \in Phases
    BY DEF Phases, Making
  <2>3. /\ complex'[c].phase = "number" /\ SameView(c)
        /\ \A d \in Complexes \ {c} : complex'[d] = complex[d]
    BY <2>1, <2>2, NewPhase DEF GoTo
  <2>4. Knows(c)'
    BY <1>1, <1>3, <2>3, LateStays DEF Knows, At
  <2> QED
    BY <1>1, <2>3, <2>4, MakerReads
<1> QED
  BY <1>2, <1>3

LEMMA StartValidationIsSafe ==
  ASSUME IInv, NEW c \in Complexes, StartValidation(c)
  PROVE  UpdatesHold' /\ FileInv'
<1> USE DEF IInv, LookupInv, FileInv
<1>1. /\ complex[c].phase = "number" /\ complex[c].phase \in Making /\ ~ At(c, "text")
      /\ UNCHANGED <<content, disk, update, troubles, crashes, beaten>>
  BY DEF StartValidation, At, Making, budget
<1>2. /\ complex'[c].phase = "list" /\ complex'[c].seen = Changes(complex[c].part)
      /\ SameView(c)
      /\ \A d \in Complexes \ {c} : complex'[d] = complex[d]
  BY ListingMeans
<1>3. Changes(complex[c].part)' = Changes(complex[c].part)
  BY <1>1, <1>2 DEF Changes, SameView
<1>4. content.schema = "now"
  BY <1>1 DEF MakersKnow, Knows
<1>5. Knows(c)'
  BY <1>1, <1>2, <1>3, <1>4, LateStays DEF Knows, At
<1> QED
  BY <1>1, <1>2, <1>5, MakerReads

\* More changes than the revision number says are found only if one came late.
LEMMA EndValidationIsSafe ==
  ASSUME IInv, NEW c \in Complexes, EndValidation(c)
  PROVE  UpdatesHold' /\ FileInv'
<1> USE DEF IInv, LookupInv, FileInv
<1>1. /\ complex[c].phase = "list" /\ complex[c].phase \in Making /\ ~ At(c, "text")
      /\ UNCHANGED <<content, disk, update, troubles, crashes, beaten>>
  BY DEF EndValidation, At, Making, budget
<1>2. /\ content.schema = "now"
      /\ complex[c].late \/ Changes(complex[c].part) = complex[c].seen
      /\ Changes(complex[c].part) \in Nat
  BY <1>1 DEF MakersKnow, Knows, At, Typed, Contents, Changes
<1>3. CASE Changes(complex[c].part) > complex[c].seen /\ Becomes(c, "error")
  <2>1. complex[c].late
    BY <1>2, <1>3
  <2>2. /\ complex'[c].phase = "create" /\ SameView(c)
        /\ \A d \in Complexes \ {c} : complex'[d] = complex[d]
    BY <1>3, BecomesMeans
  <2>3. Knows(c)'
    BY <2>1, <2>2, LateStays DEF Knows, At, SameView
  <2> QED
    BY <1>1, <2>2, <2>3, MakerReads
<1>4. CASE complex' = [complex EXCEPT ![c].phase = "number", ![c].part = "rest"]
  <2>1. /\ complex'[c].phase = "number" /\ complex'[c].part = "rest"
        /\ \A d \in Complexes \ {c} : complex'[d] = complex[d]
    BY <1>4, NextPartMeans
  <2>2. Knows(c)'
    BY <1>1, <1>2, <2>1 DEF Knows, At
  <2> QED
    BY <1>1, <2>1, <2>2, MakerReads
<1>5. CASE Becomes(c, "ok")
  <2>1. /\ complex'[c].phase = "done" /\ SameView(c)
        /\ \A d \in Complexes \ {c} : complex'[d] = complex[d]
    BY <1>5, BecomesMeans
  <2>2. Knows(c)'
    BY <1>1, <1>2, <2>1, LateStays DEF Knows, At
  <2> QED
    BY <1>1, <2>1, <2>2, MakerReads
<1> QED
  BY <1>3, <1>4, <1>5, EndingMeans

LEMMA PublishIsSafe ==
  ASSUME IInv, NEW c \in Complexes, Publish(c)
  PROVE  UpdatesHold' /\ FileInv'
<1>1. /\ complex[c].phase = "done" /\ complex[c].phase \in Making /\ ~ At(c, "text")
      /\ UNCHANGED <<content, disk, update, troubles, crashes, beaten>>
  BY DEF Publish, At, Making, budget
<1>2. /\ complex'[c].phase = "ready" /\ ~ complex'[c].late
      /\ \A d \in Complexes \ {c} : complex'[d] = complex[d]
  BY PublishMeans DEF IInv, LookupInv
<1>3. content.schema = "now"
  BY <1>1 DEF IInv, FileInv, MakersKnow, Knows
<1>4. Knows(c)'
  BY <1>1, <1>2, <1>3 DEF Knows, At
<1> QED
  BY <1>1, <1>2, <1>4, MakerReads

\* Only what is not initialized is written to, or what a late change has made
\* the maker take for damaged.
LEMMA WritingIsSafe ==
  ASSUME IInv, NEW c \in Complexes, CreateFile(c) \/ AppendInitOps(c)
  PROVE  UpdatesHold' /\ FileInv'
<1> USE DEF IInv, LookupInv, FileInv
<1>1. /\ complex[c].phase \in {"create", "append"} /\ complex[c].phase \in Making
      /\ complex'[c].phase = IF At(c, "create") THEN "append" ELSE "text"
      /\ At(c, "create") => complex'[c].calm
      /\ SameView(c)
      /\ \A d \in Complexes \ {c} : complex'[d] = complex[d]
      /\ UNCHANGED <<disk, update, troubles, crashes>>
  BY WritingMeans DEF CreateFile, AppendInitOps, Making, budget
<1>2. /\ content \in Contents
      /\ content.schema # "now" \/ complex[c].late
      /\ \A d \in Complexes : ~ At(d, "text")
  BY <1>1, MakerIsAlone DEF MakersKnow, Knows, Typed, At
<1>3. CASE CreateFile(c)
  <2>1. /\ content'.exists /\ content'.schema = content.schema /\ content'.body = content.body
        /\ complex'[c].phase = "append" /\ complex'[c].calm /\ beaten' = beaten
    BY <1>1, <1>2, <1>3 DEF CreateFile, Contents, At, budget
  <2>2. Sound(content)'
    BY <2>1 DEF Sound
  <2>3. SoleTexts'
    BY <1>1, <2>1 DEF SoleTexts, SoleText
  <2>4. Knows(c)'
    BY <1>1, <1>2, <2>1, LateStays DEF Knows, At, SameView
  <2>5. EmptyIsBeingMade'
    BY <1>1, <1>2, <2>1 DEF EmptyIsBeingMade
  <2> QED
    BY <1>1, <2>1, <2>2, <2>3, <2>4, <2>5, MakerCares
<1>4. CASE AppendInitOps(c)
  <2>1. /\ complex[c].phase = "append" /\ complex'[c].phase = "text"
        /\ beaten' = (beaten \/ ~ complex[c].calm) /\ beaten \in BOOLEAN
    BY <1>1, <1>4 DEF AppendInitOps, At, Typed
  <2>2. CASE complex[c].calm
    <3>1. content' = [exists |-> TRUE, schema |-> "now", body |-> << >>, rest |-> 0]
      BY <1>4, <2>2 DEF AppendInitOps
    <3>2. Sound(content)'
      BY <3>1 DEF Sound
    <3>3. SoleTexts'
      BY <1>1, <2>1, <3>1 DEF SoleTexts, SoleText
    <3>4. Knows(c)' /\ EmptyIsBeingMade'
      BY <1>1, <2>1, <3>1, LateStays DEF Knows, At, EmptyIsBeingMade
    <3> QED
      BY <1>1, <3>1, <3>2, <3>3, <3>4, MakerCares
  <2>3. CASE ~ complex[c].calm
    <3>1. content' = content /\ beaten'
      BY <1>4, <2>1, <2>3 DEF AppendInitOps
    <3>2. content.schema = "now"
      BY <2>1, <2>3 DEF MakersKnow, Knows, At
    <3>3. Sound(content)' /\ SoleTexts'
      BY <3>1 DEF SoleTexts
    <3>4. Knows(c)' /\ EmptyIsBeingMade'
      BY <1>1, <2>1, <3>1, <3>2, LateStays DEF Knows, At, EmptyIsBeingMade
    <3> QED
      BY <1>1, <3>1, <3>3, <3>4, MakerCares
  <2> QED
    BY <2>2, <2>3
<1> QED
  BY <1>3, <1>4

LEMMA WriteFirstTextIsSafe ==
  ASSUME IInv, NEW c \in Complexes, WriteFirstText(c)
  PROVE  /\ UpdatesHold' /\ FileInv'
         /\ content'.body = Append(content.body, complex[c].text)
<1> USE DEF IInv, LookupInv, FileInv
<1>1. /\ complex[c].phase = "text" /\ complex[c].phase \in Making
      /\ content.schema = "now"
      /\ content.body = << >> \/ beaten
      /\ content \in Contents /\ content.body \in Seq(Texts)
      /\ complex[c].text \in {"first", "note"}
      /\ UNCHANGED <<disk, update, troubles, crashes, beaten>>
  BY DEF WriteFirstText, At, Making, MakersKnow, Knows, Typed, budget, Contents, ComplexStates, Fields
<1>2. /\ content' = [content EXCEPT !.body = Append(content.body, complex[c].text)]
      /\ complex'[c].phase = "done" /\ SameView(c)
      /\ \A d \in Complexes \ {c} : complex'[d] = complex[d]
  BY <1>1, FirstTextMeans
<1>3. /\ content'.exists = content.exists /\ content'.schema = "now"
      /\ content'.body = Append(content.body, complex[c].text)
  BY <1>1, <1>2 DEF Contents
<1>4. Sound(content)'
  BY <1>1, <1>3 DEF Sound
<1>5. SoleTexts'
  <2>1. CASE content.body = << >>
    BY <1>1, <1>3, <2>1 DEF SoleTexts, SoleText
  <2>2. CASE beaten
    BY <1>1, <2>2 DEF SoleTexts
  <2> QED
    BY <1>1, <2>1, <2>2
<1>6. content'.body # << >>
  BY <1>1, <1>3
<1>7. Knows(c)' /\ EmptyIsBeingMade'
  BY <1>2, <1>3, <1>6, LateStays DEF Knows, At, EmptyIsBeingMade
<1> QED
  BY <1>1, <1>2, <1>3, <1>4, <1>5, <1>7, MakerCares

\* What an update puts into the file, and what the makers see of it: for the
\* body has no update while a complex is being made.
LEMMA LandUpdateIsSafe ==
  ASSUME IInv, NEW u \in Updates, LandUpdate(u)
  PROVE  /\ UpdatesHold' /\ FileInv'
         /\ content'.body \in {content.body, Append(content.body, "edit")}
<1> USE DEF IInv, LookupInv, FileInv
<1>1. /\ update[u].pc = "going" /\ update[u].part \in Parts
      /\ update[u].of \in Complexes /\ update[u] # Idle
      /\ UNCHANGED <<disk, troubles, crashes, beaten>>
  BY DEF LandUpdate, Typed, UpdateStates, Idle, budget
<1>2. /\ content.schema = "now" /\ content \in Contents /\ content.exists
      /\ content.body \in Seq(Texts) /\ content.rest \in Nat
  BY <1>1 DEF UpdatesHold, Typed, Sound, Contents
<1>3. \A c \in Complexes :
        /\ complex'[c].phase = complex[c].phase /\ complex'[c].part = complex[c].part
        /\ complex'[c].seen = complex[c].seen
        /\ complex'[c].late =
             (complex[c].late \/ (At(c, "list") /\ complex[c].part = update[u].part))
  BY DisturbMeans DEF LandUpdate
<1>4. \/ /\ update[u].part = "body"
         /\ content' = [content EXCEPT !.body = Append(content.body, "edit")]
      \/ /\ update[u].part = "rest"
         /\ content' = [content EXCEPT !.rest = content.rest + 1]
  BY <1>1 DEF LandUpdate, Parts
<1>5. /\ content'.exists /\ content'.schema = "now"
      /\ \/ /\ update[u].part = "body" /\ content'.body = Append(content.body, "edit")
            /\ content'.rest = content.rest
         \/ /\ update[u].part = "rest" /\ content'.body = content.body
            /\ content'.rest = content.rest + 1
  BY <1>2, <1>4 DEF Contents
<1>6. UpdatesHold'
  <2>1. ASSUME NEW v \in Updates, update'[v].pc = "going", update'[v].part = "body"
        PROVE  update'[v] = update[v]
    <3>1. PICK next \in {Idle, [update[u] EXCEPT !.pc = "saving", !.part = "rest"]} :
            update' = [update EXCEPT ![u] = next]
      BY DEF LandUpdate
    <3>2. next.pc # "going"
      <4>1. update[u] \in [pc : {"going", "saving"}, part : Parts, of : Complexes, file : Nat]
        BY <1>1 DEF Typed, UpdateStates
      <4>2. [update[u] EXCEPT !.pc = "saving", !.part = "rest"].pc = "saving"
        BY <4>1
      <4>3. Idle.pc = "idle"
        BY DEF Idle
      <4>4. next = Idle \/ next = [update[u] EXCEPT !.pc = "saving", !.part = "rest"]
        BY <3>1
      <4> QED
        BY <4>2, <4>3, <4>4
    <3> QED
      BY <2>1, <3>1, <3>2 DEF Typed
  <2>2. \A v \in Updates : update'[v].pc = "going" /\ update'[v].part = "body" =>
          update[v].of \in Complexes /\ update'[v].of = update[v].of
    BY <2>1 DEF Typed, UpdateStates, Idle
  <2> QED
    BY <1>3, <1>5, <2>1, <2>2 DEF UpdatesHold
<1>7. Sound(content)'
  BY <1>2, <1>5 DEF Sound
<1>8. SoleTexts'
  <2>1. ASSUME content'.body = Append(content.body, "edit"), SoleText(content)
        PROVE  SoleText(content')
    BY <1>2, <2>1 DEF SoleText
  <2>2. ASSUME content'.body = content.body, SoleText(content)
        PROVE  SoleText(content')
    BY <2>2 DEF SoleText
  <2> QED
    BY <1>1, <1>5, <2>1, <2>2 DEF SoleTexts
<1>9. MakersKnow'
  <2> SUFFICES ASSUME NEW c \in Complexes PROVE Knows(c)'
    BY DEF MakersKnow
  <2>1. complex[c].phase \in Making => update[u].part = "rest"
    BY <1>1, NoBodyUpdatesYet
  <2>2. Knows(c) /\ complex[c].part \in Parts
    BY DEF MakersKnow, Typed, ComplexStates, Fields
  <2>3. /\ complex[c].late => complex'[c].late
        /\ complex[c].phase = "list" /\ complex[c].part = update[u].part => complex'[c].late
        /\ complex'[c].late =>
             complex[c].late \/ (complex[c].phase = "list" /\ complex[c].part = update[u].part)
    BY <1>3 DEF At
  <2>4. complex'[c].late => complex'[c].part = "rest"
    BY <1>3, <2>1, <2>2, <2>3 DEF Knows, Making
  <2>5. At(c, "list")' => complex'[c].late \/ Changes(complex[c].part)' = complex'[c].seen
    <3> SUFFICES ASSUME complex[c].phase = "list", ~ complex'[c].late
                 PROVE  Changes(complex[c].part)' = complex'[c].seen
      BY <1>3 DEF At
    <3>1. update[u].part = "rest" /\ complex[c].part = "body" /\ ~ complex[c].late
      BY <1>1, <2>1, <2>2, <2>3 DEF Making, Parts
    <3> QED
      BY <1>3, <1>5, <2>2, <3>1 DEF Knows, At, Changes
  <2>6. At(c, "text")' => content'.body = << >> \/ beaten'
    BY <1>1, <1>3, <1>5, <2>1, <2>2 DEF Knows, At, Making
  <2>7. complex'[c].phase \in {"create", "append"} => content'.schema # "now" \/ complex'[c].late
    BY <1>2, <1>3, <2>2, <2>3 DEF Knows
  <2> QED
    BY <1>5, <2>4, <2>5, <2>6, <2>7 DEF Knows, At
<1>10. EmptyIsBeingMade'
  <2>1. content'.body = << >> => content.body = << >>
    BY <1>2, <1>5
  <2> QED
    BY <1>1, <1>2, <1>3, <2>1 DEF EmptyIsBeingMade, At
<1> QED
  BY <1>1, <1>5, <1>6, <1>7, <1>8, <1>9, <1>10

\* The write of a stored snapshot is no change: only an append that comes after
\* it loses its race.
LEMMA EndsOfUpdatesAreSafe ==
  ASSUME IInv, NEW u \in Updates, LandStoredSnapshot(u) \/ GiveUp(u)
  PROVE  UpdatesHold' /\ FileInv'
<1> USE DEF IInv, LookupInv, FileInv
<1>1. /\ UNCHANGED <<content, disk, troubles, crashes, beaten>>
      /\ update' = [update EXCEPT ![u] = Idle]
      /\ LandStoredSnapshot(u) => content.schema = "now"
  BY DEF LandStoredSnapshot, GiveUp, budget, UpdatesHold, Idle
<1>2. \A c \in Complexes :
        /\ complex'[c].phase = complex[c].phase /\ complex'[c].part = complex[c].part
        /\ complex'[c].seen = complex[c].seen /\ complex'[c].late = complex[c].late
        /\ complex'[c].calm = complex[c].calm \/ content.schema = "now"
  <2>1. CASE LandStoredSnapshot(u)
    <3>1. \A c \in Complexes : complex[c].part # "none" /\ complex[c].late \in BOOLEAN
      BY DEF Typed, ComplexStates, Fields, Parts
    <3> QED
      BY <1>1, <2>1, <3>1, DisturbMeans DEF LandStoredSnapshot
  <2>2. CASE GiveUp(u)
    BY <2>2 DEF GiveUp
  <2> QED
    BY <2>1, <2>2
<1>3. UpdatesHold'
  <2>1. \A v \in Updates : update'[v] # Idle =>
          /\ update'[v] = update[v]
          /\ update[v].pc = "going" => update[v].of \in Complexes
    BY <1>1 DEF Typed, UpdateStates, Idle
  <2>2. Idle.pc # "going"
    BY DEF Idle
  <2> QED
    BY <1>1, <1>2, <2>1, <2>2 DEF UpdatesHold
<1>4. MakersKnow'
  <2> SUFFICES ASSUME NEW c \in Complexes PROVE Knows(c)'
    BY DEF MakersKnow
  <2>1. Knows(c) /\ Changes(complex[c].part)' = Changes(complex[c].part)
    BY <1>1, <1>2 DEF MakersKnow, Changes
  <2> QED
    BY <1>1, <1>2, <2>1 DEF Knows, At
<1>5. EmptyIsBeingMade'
  BY <1>1, <1>2 DEF EmptyIsBeingMade, At
<1>6. Sound(content)' /\ Sound(disk)' /\ SoleTexts'
  BY <1>1 DEF SoleTexts
<1> QED
  BY <1>3, <1>4, <1>5, <1>6

LEMMA RequestsAreSafe ==
  ASSUME IInv, NEW r \in Requests, getDocComplex(r) \/ Release(r)
  PROVE  UpdatesHold' /\ FileInv'
<1> USE DEF IInv, LookupInv, FileInv
<1>1. /\ UNCHANGED <<content, disk, update, troubles, crashes, beaten>>
      /\ Sound(content)' /\ Sound(disk)' /\ SoleTexts'
  BY DEF getDocComplex, Release, budget, SoleTexts
<1>2. CASE UNCHANGED complex
  BY <1>1, <1>2 DEF UpdatesHold, MakersKnow, Knows, At, Changes, EmptyIsBeingMade
<1>3. ASSUME NEW c \in Complexes, At(c, "none"),
             complex' = [complex EXCEPT ![c].phase = "info"]
      PROVE  UpdatesHold' /\ FileInv'
  <2>1. "info" \in Phases
    BY DEF Phases, Making
  <2>2. /\ complex'[c].phase = "info" /\ SameView(c)
        /\ \A d \in Complexes \ {c} : complex'[d] = complex[d]
    BY <1>3, <2>1, NewPhase
  <2>3. UpdatesHold'
    BY <1>1, <1>3, <2>2, UpdatesStay DEF At
  <2>4. ASSUME NEW d \in Complexes PROVE Knows(d)'
    <3>1. CASE d = c
      BY <2>2, <3>1, LateStays DEF Knows, At
    <3>2. CASE d # c
      BY <1>1, <2>2, <3>2 DEF MakersKnow, Knows, At, Changes
    <3> QED
      BY <3>1, <3>2
  <2>5. EmptyIsBeingMade'
    BY <1>1, <1>3, <2>2 DEF EmptyIsBeingMade, At
  <2> QED
    BY <1>1, <2>3, <2>4, <2>5 DEF MakersKnow
<1> QED
  BY <1>2, <1>3 DEF getDocComplex, Release, caches

LEMMA StartUpdateIsSafe ==
  ASSUME IInv, NEW u \in Updates, NEW r \in Requests, NEW part \in Parts,
         StartUpdate(u, r, part)
  PROVE  UpdatesHold' /\ FileInv'
<1> USE DEF IInv, LookupInv, FileInv
<1>1. request[r].of \in Complexes /\ complex[request[r].of].phase = "ready"
  BY DEF StartUpdate, Typed, RequestStates, RequestsHold, Idle
<1>2. content.schema = "now"
  BY <1>1 DEF MakersKnow, Knows
<1>3. UpdatesHold'
  BY <1>1, <1>2 DEF StartUpdate, UpdatesHold, Typed
<1>4. Sound(content)' /\ Sound(disk)' /\ SoleTexts'
  BY DEF StartUpdate, budget, SoleTexts
<1> QED
  BY <1>3, <1>4 DEF StartUpdate, MakersKnow, Knows, At, Changes, EmptyIsBeingMade, budget

\* Here it matters that an update of the body keeps its complex alive.
LEMMA CollectIsSafe ==
  ASSUME IInv, NEW c \in Complexes, Collect(c) \/ Reap(c)
  PROVE  UpdatesHold' /\ FileInv'
<1> USE DEF IInv, LookupInv, FileInv
<1>1. /\ complex[c].phase \in {"ready", "dead"}
      /\ UNCHANGED <<content, disk, update, troubles, crashes, beaten>>
      /\ Sound(content)' /\ Sound(disk)' /\ SoleTexts'
  BY DEF Collect, Reap, At, budget, SoleTexts
<1>2. /\ complex'[c].phase \in {"dead", "none"}
      /\ complex'[c].late => complex'[c].part = "rest"
      /\ \A d \in Complexes \ {c} : complex'[d] = complex[d]
  <2>1. "dead" \in Phases
    BY DEF Phases
  <2> QED
    BY <2>1, NewPhase, ReapKeeps, LateStays DEF Collect, GoTo
<1>3. UpdatesHold'
  <2>1. complex[c].phase = "ready" => \A u \in Updates :
          ~ (update[u].pc = "going" /\ update[u].part = "body" /\ update[u].of = c)
    BY DEF Collect, Reap, At, Held
  <2> QED
    BY <1>1, <1>2, <2>1, UpdatesStay
<1>4. ASSUME NEW d \in Complexes PROVE Knows(d)'
  <2>1. CASE d = c
    BY <1>2, <2>1 DEF Knows, At
  <2>2. CASE d # c
    BY <1>1, <1>2, <2>2 DEF MakersKnow, Knows, At, Changes
  <2> QED
    BY <2>1, <2>2
<1>5. EmptyIsBeingMade'
  BY <1>1, <1>2 DEF EmptyIsBeingMade, At
<1> QED
  BY <1>1, <1>3, <1>4, <1>5 DEF MakersKnow

LEMMA EnvironmentIsSafe ==
  ASSUME IInv, \/ Flush \/ Forget \/ Age \/ Crash
               \/ \E f \in Files : CollectFile(f) \/ ReapFile(f)
  PROVE  UpdatesHold' /\ FileInv'
<1> USE DEF IInv, LookupInv, FileInv
<1>1. CASE Crash
  <2>1. /\ content' = disk /\ disk' = disk /\ beaten' = beaten
        /\ crashes' = crashes + 1 /\ crashes \in Nat
    BY <1>1 DEF Crash, Typed
  <2>2. MakersKnow' /\ UpdatesHold'
    BY <1>1 DEF Crash, Unmade, Idle, MakersKnow, Knows, At, UpdatesHold
  <2>3. EmptyIsBeingMade'
    BY <2>1 DEF EmptyIsBeingMade
  <2>4. Sound(content)' /\ Sound(disk)' /\ SoleTexts'
    BY <2>1 DEF SoleTexts
  <2> QED
    BY <2>2, <2>3, <2>4
<1>2. CASE ~ Crash
  <2>1. UNCHANGED <<content, complex, update, troubles, crashes, beaten>> /\ disk' \in {disk, content}
    BY <1>2 DEF Flush, Forget, Age, CollectFile, ReapFile, caches, budget
  <2>2. Sound(content)' /\ Sound(disk)' /\ SoleTexts'
    BY <2>1 DEF SoleTexts
  <2> QED
    BY <2>1, <2>2 DEF UpdatesHold, MakersKnow, Knows, At, Changes, EmptyIsBeingMade
<1> QED
  BY <1>1, <1>2

LEMMA FileInductive == IInv /\ [Next]_vars => IInv'
<1> SUFFICES ASSUME IInv, [Next]_vars PROVE UpdatesHold' /\ FileInv'
  BY LookupInductive DEF IInv
<1>1. ASSUME NEW c \in Complexes, Make(c) PROVE UpdatesHold' /\ FileInv'
  BY <1>1, StartGetFileIsSafe, GotFileIsSafe, CheckSchemaIsSafe, StartValidationIsSafe,
     EndValidationIsSafe, WritingIsSafe, WriteFirstTextIsSafe, PublishIsSafe DEF Make
<1>2. ASSUME NEW c \in Complexes, Trouble(c) PROVE UpdatesHold' /\ FileInv'
  BY <1>2, FailsIsSafe DEF Trouble
<1>3. ASSUME NEW c \in Complexes, Collect(c) \/ Reap(c) PROVE UpdatesHold' /\ FileInv'
  BY <1>3, CollectIsSafe
<1>4. ASSUME NEW r \in Requests, getDocComplex(r) \/ Release(r) PROVE UpdatesHold' /\ FileInv'
  BY <1>4, RequestsAreSafe
<1>5. ASSUME NEW u \in Updates,
             \/ LandUpdate(u) \/ LandStoredSnapshot(u) \/ GiveUp(u)
             \/ \E r \in Requests, part \in Parts : StartUpdate(u, r, part)
      PROVE  UpdatesHold' /\ FileInv'
  BY <1>5, LandUpdateIsSafe, EndsOfUpdatesAreSafe, StartUpdateIsSafe
<1>6. CASE UNCHANGED vars
  BY <1>6 DEF vars, caches, budget, IInv, FileInv, SoleTexts, UpdatesHold, MakersKnow, Knows, At,
              Changes, EmptyIsBeingMade
<1> QED
  BY <1>1, <1>2, <1>3, <1>4, <1>5, <1>6, EnvironmentIsSafe DEF Next

LEMMA AlwaysIInv == Spec => []IInv
BY InitIsWhole, FileInductive, PTL DEF Spec

\* A set of which all members are the same has one at most.
LEMMA AtMostOne ==
  ASSUME NEW S, \A x, y \in S : x = y
  PROVE  Cardinality(S) <= 1
<1>1. CASE S = {}
  BY <1>1, FS_EmptySet
<1>2. CASE \E x \in S : S = {x}
  BY <1>2, FS_Singleton
<1> QED
  BY <1>1, <1>2

LEMMA WholeWhenInductive == IInv => ServedWhole
<1> SUFFICES ASSUME IInv PROVE ServedWhole
  OBVIOUS
<1> USE DEF IInv, LookupInv, FileInv
<1>1. ASSUME NEW r \in Requests, request[r].pc = "using"
      PROVE  /\ content.exists /\ content.schema = "now"
             /\ troubles = 0 /\ crashes = 0 => content.body # << >>
  <2>1. request[r].of \in Complexes /\ complex[request[r].of].phase = "ready"
    BY <1>1 DEF Typed, RequestStates, Idle, RequestsHold
  <2>2. content.schema = "now" /\ content.exists
    BY <2>1 DEF MakersKnow, Knows, Sound
  <2>3. \A c \in Complexes : ~ At(c, "text")
    BY <2>1 DEF At, EntryOfComplex, Making, Promised, Weak
  <2> QED
    BY <2>2, <2>3 DEF EmptyIsBeingMade
<1>2. ASSUME ~ beaten
      PROVE  Cardinality({i \in DOMAIN content.body : content.body[i] \in {"first", "note"}}) <= 1
  BY <1>2, AtMostOne DEF SoleTexts, SoleText
<1> QED
  BY <1>1, <1>2 DEF ServedWhole

(* Whoever has got a complex finds an initialized file, one with a first   *)
(* text if nothing failed; and no document gets a text of initialization   *)
(* on top of another unless the append that was to clear it lost a race:   *)
(* whatever validation, failures, crashes and collections do in between,   *)
(* and whatever lands meanwhile of updates that outlive their complex.     *)
THEOREM AlwaysServedWhole == Spec => []ServedWhole
BY AlwaysIInv, WholeWhenInductive, PTL

\* What has been appended to has what it was as its beginning.
LEMMA AppendedHasPrefix ==
  ASSUME NEW S, NEW s \in Seq(S), NEW x
  PROVE  IsPrefix(s, s) /\ IsPrefix(s, Append(s, x))
BY DEF IsPrefix

LEMMA StepKeepsEdits ==
  ASSUME IInv, [Next]_vars, "edit" \in Range(content.body), crashes' = crashes
  PROVE  \/ IsPrefix(content.body, content'.body)
         \/ \E c \in Complexes :
              At(c, "append") /\ complex[c].late /\ complex[c].part = "rest"
<1> USE DEF IInv, LookupInv, FileInv
<1>1. content \in Contents /\ content.body \in Seq(Texts) /\ crashes \in Nat
  BY DEF Typed, Contents
<1>2. content.schema = "now"
  BY DEF Sound, Range
<1>3. CASE content'.body = content.body
  BY <1>1, <1>3, AppendedHasPrefix
<1>4. ASSUME NEW c \in Complexes, CreateFile(c) \/ AppendInitOps(c)
      PROVE  \/ content'.body = content.body
             \/ At(c, "append") /\ complex[c].late /\ complex[c].part = "rest"
  <2>1. CASE CreateFile(c)
    BY <1>1, <2>1 DEF CreateFile, Contents
  <2>2. CASE AppendInitOps(c)
    BY <1>2, <2>2 DEF AppendInitOps, MakersKnow, Knows, At
  <2> QED
    BY <1>4, <2>1, <2>2
<1>5. ASSUME NEW c \in Complexes, WriteFirstText(c)
      PROVE  IsPrefix(content.body, content'.body)
  <2>1. content'.body = Append(content.body, complex[c].text)
    BY <1>5, WriteFirstTextIsSafe
  <2> QED
    BY <1>1, <2>1, AppendedHasPrefix
<1>6. ASSUME NEW u \in Updates, LandUpdate(u)
      PROVE  IsPrefix(content.body, content'.body)
  <2>1. content'.body \in {content.body, Append(content.body, "edit")}
    BY <1>6, LandUpdateIsSafe
  <2> QED
    BY <1>1, <2>1, AppendedHasPrefix
<1>7. ~ Crash
  BY <1>1 DEF Crash
<1>8. ASSUME NEW c \in Complexes, Make(c) \/ Trouble(c) \/ Collect(c) \/ Reap(c)
      PROVE  content' = content \/ CreateFile(c) \/ AppendInitOps(c) \/ WriteFirstText(c)
  BY <1>8 DEF Make, StartGetFile, GotFile, CheckSchema, StartValidation, EndValidation, Publish,
              Trouble, Collect, Reap
<1>9. /\ \A r \in Requests : getDocComplex(r) \/ Release(r) => content' = content
      /\ \A u \in Updates :
           /\ LandStoredSnapshot(u) \/ GiveUp(u) => content' = content
           /\ \A r \in Requests, part \in Parts : StartUpdate(u, r, part) => content' = content
      /\ \A f \in Files : CollectFile(f) \/ ReapFile(f) => content' = content
      /\ Flush \/ Forget \/ Age \/ UNCHANGED vars => content' = content
  BY DEF getDocComplex, Release, StartUpdate, LandStoredSnapshot, GiveUp, CollectFile,
         ReapFile, Flush, Forget, Age, vars
<1>10. ASSUME NEW c \in Complexes, Make(c) \/ Trouble(c) \/ Collect(c) \/ Reap(c)
       PROVE  \/ IsPrefix(content.body, content'.body)
              \/ \E d \in Complexes :
                   At(d, "append") /\ complex[d].late /\ complex[d].part = "rest"
  <2>1. CASE content' = content
    BY <1>3, <2>1
  <2>2. CASE CreateFile(c) \/ AppendInitOps(c)
    <3>1. \/ content'.body = content.body
          \/ At(c, "append") /\ complex[c].late /\ complex[c].part = "rest"
      BY <1>4, <2>2
    <3> QED
      BY <1>3, <3>1
  <2>3. CASE WriteFirstText(c)
    BY <1>5, <2>3
  <2> QED
    BY <1>8, <1>10, <2>1, <2>2, <2>3
<1>11. CASE content' = content
  BY <1>3, <1>11
<1> HIDE DEF IInv, LookupInv, FileInv
<1> QED
  BY <1>6, <1>7, <1>9, <1>10, <1>11 DEF Next

(* No step but a crash takes anything of a body that users have edited,    *)
(* however many times and with whatever failures the document is opened    *)
(* again, unless a caret or a property changed after the maker had read    *)
(* that part's revision number and before it listed its changes; a change  *)
(* of the body never comes there.                                          *)
THEOREM AlwaysEditsStay == Spec => EditsStay
<1>1. IInv /\ [Next]_vars =>
        [ \/ "edit" \notin Range(content.body)
          \/ crashes' # crashes
          \/ IsPrefix(content.body, content'.body)
          \/ \E c \in Complexes :
               At(c, "append") /\ complex[c].late /\ complex[c].part = "rest" ]_vars
  BY StepKeepsEdits
<1> QED
  BY <1>1, AlwaysIInv, PTL DEF Spec, EditsStay
=============================================================================
