------------------------------ MODULE Documents ------------------------------
(***************************************************************************)
(* How the server opens a document: DocServer.getDocComplex() with the     *)
(* caches of complexes and files, FileBootstrap with the validation and    *)
(* initialization of the file, the collection of what is no longer used,   *)
(* failures of the storage and crashes.  One document; the other documents *)
(* appear only as what pushes this one out of the lists of recently used   *)
(* objects.                                                                *)
(***************************************************************************)
EXTENDS Naturals, Sequences, FiniteSets, SequencesExt, WeakCache

CONSTANTS
  Requests,      \* calls of getDocComplex() that may be open at once
  Updates,       \* updates of the document that may be under way at once
  MaxComplexes,  \* bound: complexes that exist at a time, dead ones included
  MaxFiles,      \* bound: file instances that exist at a time
  MaxEdits,      \* bound: changes in the file for which an update begins
  MaxTroubles,   \* bound: failures of the storage
  MaxCrashes     \* bound: crashes of the server

ASSUME DocumentsAssumption ==
  {MaxComplexes, MaxFiles, MaxEdits, MaxTroubles, MaxCrashes} \subseteq Nat

Complexes == 1 .. MaxComplexes
Files == 1 .. MaxFiles

VARIABLES
  content,     \* the file as its instance serves it
  disk,        \* the file as a crash leaves it
  complexEntry, fileEntry,   \* the caches' entries for the document
  recent,      \* the complexes and files that the caches keep alive
  complex,     \* complex -> where it is in its life, and its file
  instance,    \* file instance -> where it is in its life
  request,     \* request -> what it is doing
  update,      \* update -> what it is doing
  troubles, crashes,
  beaten       \* history: whether a maker's append ever lost its race

caches == <<complexEntry, fileEntry, recent>>
budget == <<troubles, crashes, beaten>>
vars == <<content, disk, caches, complex, instance, request, update, budget>>

(* A file: whether it exists, the schema it was initialized with, the body *)
(* as the texts that were put into it, one by one, and how many changes    *)
(* the rest has, which is the carets and the properties.  "first" and      *)
(* "note" are the texts of initialization, "old" is from an earlier        *)
(* version of the program, and an "edit" is an accepted update.            *)
NoFile == [exists |-> FALSE, schema |-> "none", body |-> << >>, rest |-> 0]
OldFile == [exists |-> TRUE, schema |-> "old", body |-> <<"first", "old">>, rest |-> 0]

Parts == {"body", "rest"}
Changes(part) == IF part = "body" THEN Len(content.body) ELSE content.rest

(* What a maker knows: the part that it validates and the changes that     *)
(* this had by its revision number, the text to begin anew with, and       *)
(* whether the revision number that it read for its append is still good.  *)
(* "late" is history: a change of the part came after the number was read. *)
Unmade == [phase |-> "none", file |-> 0, part |-> "body", seen |-> 0, text |-> "none",
           calm |-> TRUE, late |-> FALSE]
Making ==
  {"info", "getFile", "check", "number", "list", "create", "append", "text", "done"}
Idle == [pc |-> "idle"]

LiveComplexes == {c \in Complexes : complex[c].phase = "ready"}
LiveFiles == {f \in Files : instance[f] = "live"}

TypeOK ==
  /\ {content, disk} \subseteq
       [exists : BOOLEAN, schema : {"none", "old", "now"},
        body : BoundedSeq({"first", "note", "old", "edit"}, 2 * MaxEdits + 1),
        rest : 0 .. MaxEdits]
  /\ complexEntry \in Entries(Complexes)
  /\ fileEntry \in Entries(Files)
  /\ recent \subseteq ({"complex"} \X Complexes) \cup ({"file"} \X Files)
  /\ complex \in [Complexes ->
       [phase : {"none", "ready", "dead"} \cup Making,
        file : 0 .. MaxFiles, part : Parts, seen : 0 .. 2 * MaxEdits + 1,
        text : {"none", "first", "note"}, calm : BOOLEAN, late : BOOLEAN]]
  /\ instance \in [Files -> {"none", "making", "live", "dead"}]
  /\ request \in [Requests -> {Idle} \cup [pc : {"waiting", "using"}, of : Complexes]]
  /\ update \in [Updates -> {Idle} \cup
       [pc : {"going", "saving"}, part : Parts, of : Complexes, file : Files]]
  /\ troubles \in 0 .. MaxTroubles
  /\ crashes \in 0 .. MaxCrashes
  /\ beaten \in BOOLEAN

Init ==
  /\ content \in {NoFile, OldFile}
  /\ disk = content
  /\ complexEntry = NoEntry /\ fileEntry = NoEntry
  /\ recent = {}
  /\ complex = [c \in Complexes |-> Unmade]
  /\ instance = [f \in Files |-> "none"]
  /\ request = [r \in Requests |-> Idle]
  /\ update = [u \in Updates |-> Idle]
  /\ troubles = 0 /\ crashes = 0 /\ beaten = FALSE

-----------------------------------------------------------------------------
(* Requests.  Only the lookup that finds nothing makes a complex; one that *)
(* finds a complex being made waits for it.  A request that finds an error *)
(* or a dead reference fails at once and is idle again.                    *)

At(c, phase) == complex[c].phase = phase
GoTo(c, phase) == complex' = [complex EXCEPT ![c].phase = phase]

Use(r, c) == request' = [request EXCEPT ![r] = [pc |-> "using", of |-> c]]
Wait(r, c) == request' = [request EXCEPT ![r] = [pc |-> "waiting", of |-> c]]

getDocComplex(r) ==
  LET found == Lookup(complexEntry, LiveComplexes, TRUE) IN
  /\ request[r] = Idle
  /\ \/ /\ found = "object"
        /\ Use(r, complexEntry.of)
        /\ recent' = recent \cup {<<"complex", complexEntry.of>>}
        /\ UNCHANGED <<complexEntry, complex>>
     \/ /\ found = "promise"
        /\ Wait(r, complexEntry.of)
        /\ UNCHANGED <<complexEntry, complex, recent>>
     \/ /\ found \in {"throw", "weird"}
        /\ complexEntry' = AfterLookup(complexEntry)
        /\ UNCHANGED <<request, complex, recent>>
     \/ \E c \in Complexes :
        /\ found = "null"
        /\ At(c, "none") /\ \A d \in 1 .. c - 1 : ~ At(d, "none")
        /\ complex' = [complex EXCEPT ![c].phase = "info"]
        /\ complexEntry' = Promised(c)
        /\ Wait(r, c)
        /\ UNCHANGED recent
  /\ UNCHANGED <<content, disk, fileEntry, instance, update, budget>>

(* The caller is done: its session ends or its connection closes.          *)
Release(r) ==
  /\ request[r].pc = "using"
  /\ request' = [request EXCEPT ![r] = Idle]
  /\ UNCHANGED <<content, disk, caches, complex, instance, update, budget>>

-----------------------------------------------------------------------------
(* Making a complex.  Each await of the code is a step of its own.         *)

\* mutant: the rejection is stored but never passed on
FailsSilently(c) ==
  /\ complex' = [complex EXCEPT ![c] = Unmade]
  /\ complexEntry' = Rejected("fresh")
  /\ UNCHANGED request

(* The promise of a maker settles: everyone who waits gets the complex or  *)
(* the error.                                                              *)
Answer(c, outcome) ==
  request' = [r \in Requests |->
    IF request[r] = [pc |-> "waiting", of |-> c] THEN outcome ELSE request[r]]

Fails(c) ==
  /\ complex' = [complex EXCEPT ![c] = Unmade]
  /\ complexEntry' = Rejected("fresh")
  /\ Answer(c, Idle)

(* Any call of the storage may fail or take too long.  What it did not do  *)
(* then stays undone, and what was done before it stays done.              *)
Trouble(c) ==
  /\ complex[c].phase \in Making
  /\ troubles < MaxTroubles
  /\ troubles' = troubles + 1
  /\ Fails(c)
  /\ IF At(c, "getFile") /\ fileEntry = Promised(complex[c].file)
       THEN /\ fileEntry' = Rejected("fresh")
            /\ instance' = [instance EXCEPT ![complex[c].file] = "none"]
       ELSE UNCHANGED <<fileEntry, instance>>
  /\ UNCHANGED <<content, disk, recent, update, crashes, beaten>>

(* BaseFileStore.getFile(), after the checks of the IDs.  A promise is     *)
(* never found here, for one complex at a time is made (OneComplex).       *)
StartGetFile(c) ==
  LET found == Lookup(fileEntry, LiveFiles, TRUE) IN
  /\ At(c, "info")
  /\ \/ /\ found = "object"
        /\ complex' = [complex EXCEPT ![c].phase = "check", ![c].file = fileEntry.of]
        /\ recent' = recent \cup {<<"file", fileEntry.of>>}
        /\ UNCHANGED <<complexEntry, fileEntry, instance, request>>
     \/ /\ found \in {"throw", "weird"}
        /\ fileEntry' = AfterLookup(fileEntry)
        /\ Fails(c)
        /\ UNCHANGED <<instance, recent>>
     \/ \E f \in Files :
        /\ found = "null"
        /\ instance[f] = "none" /\ \A g \in 1 .. f - 1 : instance[g] # "none"
        /\ instance' = [instance EXCEPT ![f] = "making"]
        /\ fileEntry' = Promised(f)
        /\ complex' = [complex EXCEPT ![c].phase = "getFile", ![c].file = f]
        /\ UNCHANGED <<complexEntry, recent, request>>
  /\ UNCHANGED <<content, disk, update, budget>>

GotFile(c) ==
  LET f == complex[c].file IN
  /\ At(c, "getFile")
  /\ instance' = [instance EXCEPT ![f] = "live"]
  /\ fileEntry' = Resolved(fileEntry, f)
  /\ recent' = recent \cup {<<"file", f>>}
  /\ GoTo(c, "check")
  /\ UNCHANGED <<content, disk, complexEntry, request, update, budget>>

\* mutant: a maker that takes any file that can be read
BecomesLenient(c, status) ==
  complex' = [complex EXCEPT
    ![c].phase = IF status \in {"ok", "error"} THEN "done" ELSE "create",
    ![c].text = CASE status \in {"ok", "error"} -> "none"
                  [] status = "notFound" -> "first"
                  [] OTHER -> "note"]

(* What init() does after the validation: nothing, or to begin anew with a *)
(* text that says why.                                                     *)
Becomes(c, status) ==
  complex' = [complex EXCEPT
    ![c].phase = IF status = "ok" THEN "done" ELSE "create",
    ![c].seen = 0,
    ![c].text = CASE status = "ok" -> "none"
                  [] status = "notFound" -> "first"
                  [] OTHER -> "note"]

(* What an older version of the program wrote, or nobody, is not looked    *)
(* into any further.                                                       *)
CheckSchema(c) ==
  /\ At(c, "check")
  /\ CASE ~ content.exists -> Becomes(c, "notFound")
       [] content.exists /\ content.schema = "none" -> Becomes(c, "error")
       [] content.exists /\ content.schema = "old" -> Becomes(c, "migrate")
       [] OTHER -> GoTo(c, "number")
  /\ UNCHANGED <<content, disk, caches, instance, request, update, budget>>

(* The parts are validated in turn.  The revision number comes from one    *)
(* snapshot of the file and the changes past it from a later one: also     *)
(* those that somebody made in between.  The rest is the carets and then   *)
(* the properties, in the same way; a change of the one while the other is *)
(* looked at is as good as one before either is.                           *)
StartValidation(c) ==
  /\ At(c, "number")
  /\ complex' = [complex EXCEPT ![c].phase = "list", ![c].seen = Changes(complex[c].part)]
  /\ UNCHANGED <<content, disk, caches, instance, request, update, budget>>

\* mutant: the first change past the revision number is the one at it
EndValidationOffByOne(c) ==
  /\ At(c, "list")
  /\ CASE Changes(complex[c].part) >= complex[c].seen -> Becomes(c, "error")
       [] OTHER -> Becomes(c, "ok")
  /\ UNCHANGED <<content, disk, caches, instance, request, update, budget>>

EndValidation(c) ==
  /\ At(c, "list")
  /\ CASE Changes(complex[c].part) > complex[c].seen -> Becomes(c, "error")
       [] complex[c].part = "body" /\ Len(content.body) <= complex[c].seen ->
            complex' = [complex EXCEPT ![c].phase = "number", ![c].part = "rest"]
       [] OTHER -> Becomes(c, "ok")
  /\ UNCHANGED <<content, disk, caches, instance, request, update, budget>>

(* create() does nothing to a file that exists.  The revision number that  *)
(* the next append is for is read right after it.                          *)
CreateFile(c) ==
  /\ At(c, "create")
  /\ content' = [content EXCEPT !.exists = TRUE]
  /\ complex' = [complex EXCEPT ![c].phase = "append", ![c].calm = TRUE]
  /\ UNCHANGED <<disk, caches, instance, request, update, budget>>

\* mutant: the old contents are not deleted first
AppendInitOpsOnly(c) ==
  /\ At(c, "append")
  /\ content' = IF complex[c].calm
                  THEN [content EXCEPT !.exists = TRUE, !.schema = "now"]
                  ELSE content
  /\ beaten' = (beaten \/ ~ complex[c].calm)
  /\ GoTo(c, "text")
  /\ UNCHANGED <<disk, caches, instance, request, update, troubles, crashes>>

(* Deletes all there is and writes the parts' initial state.  Whether the  *)
(* append took place is not looked at.                                     *)
AppendInitOps(c) ==
  /\ At(c, "append")
  /\ content' = IF complex[c].calm
                  THEN [exists |-> TRUE, schema |-> "now", body |-> << >>, rest |-> 0]
                  ELSE content
  /\ beaten' = (beaten \/ ~ complex[c].calm)
  /\ GoTo(c, "text")
  /\ UNCHANGED <<disk, caches, instance, request, update, troubles, crashes>>

(* The first text is an update like any other: on top of what is there.    *)
WriteFirstText(c) ==
  /\ At(c, "text")
  /\ \/ /\ content.schema = "none"
        /\ Fails(c)
        /\ UNCHANGED <<content, fileEntry, recent>>
     \/ /\ content.schema # "none"
        /\ content' = [content EXCEPT !.body = Append(@, complex[c].text)]
        /\ GoTo(c, "done")
        /\ UNCHANGED <<caches, request>>
  /\ UNCHANGED <<disk, instance, update, budget>>

Publish(c) ==
  /\ At(c, "done")
  /\ complex' = [complex EXCEPT
       ![c] = [Unmade EXCEPT !.phase = "ready", !.file = complex[c].file]]
  /\ complexEntry' = Resolved(complexEntry, c)
  /\ recent' = recent \cup {<<"complex", c>>}
  /\ Answer(c, [pc |-> "using", of |-> c])
  /\ UNCHANGED <<content, disk, fileEntry, instance, update, budget>>

Make(c) ==
  \/ StartGetFile(c) \/ GotFile(c)
  \/ CheckSchema(c) \/ StartValidation(c) \/ EndValidation(c)
  \/ CreateFile(c) \/ AppendInitOps(c) \/ WriteFirstText(c) \/ Publish(c)

-----------------------------------------------------------------------------
(* Updates come through a session, which holds its complex.  body_update() *)
(* uses its session when it is done and so keeps it alive.  The updates of *)
(* carets and properties leave all to the control of their part, which has *)
(* the file but not the complex, and so does the write of a stored         *)
(* snapshot that goes on behind an update: these may go on when nobody     *)
(* uses the complex any more, and land in the file while another complex   *)
(* is being made for it.                                                   *)

StartUpdate(u, r, part) ==
  /\ update[u] = Idle
  /\ request[r].pc = "using"
  /\ Len(content.body) + content.rest + Cardinality({v \in Updates : update[v] # Idle})
       < MaxEdits
  /\ update' = [update EXCEPT
       ![u] = [pc |-> "going", part |-> part, of |-> request[r].of,
               file |-> complex[request[r].of].file]]
  /\ UNCHANGED <<content, disk, caches, complex, instance, request, budget>>

(* Something gets into the file, in the part if it is a change.            *)
Disturb(part) ==
  complex' = [c \in Complexes |-> [complex[c] EXCEPT
    !.calm = @ /\ ~ At(c, "append"),
    !.late = @ \/ (At(c, "list") /\ complex[c].part = part)]]

(* update() retries until its append is the next of the file.  Every so    *)
(* often it leaves the write of a stored snapshot behind.                  *)
LandUpdate(u) ==
  LET part == update[u].part IN
  /\ update[u].pc = "going" /\ content.schema # "none"
  /\ content' = IF part = "body"
                  THEN [content EXCEPT !.body = Append(@, "edit")]
                  ELSE [content EXCEPT !.rest = @ + 1]
  /\ Disturb(part)
  /\ \E next \in {Idle, [update[u] EXCEPT !.pc = "saving", !.part = "rest"]} :
       update' = [update EXCEPT ![u] = next]
  /\ UNCHANGED <<disk, caches, instance, request, budget>>

LandStoredSnapshot(u) ==
  /\ update[u].pc = "saving"
  /\ Disturb("none")
  /\ update' = [update EXCEPT ![u] = Idle]
  /\ UNCHANGED <<content, disk, caches, instance, request, budget>>

(* An update may come to nothing when it is rebased, be refused or run out *)
(* of time; the write of a stored snapshot is given up if it loses a race. *)
GiveUp(u) ==
  /\ update[u] # Idle
  /\ update' = [update EXCEPT ![u] = Idle]
  /\ UNCHANGED <<content, disk, caches, complex, instance, request, budget>>

-----------------------------------------------------------------------------
(* The environment: the file instance writes itself to the disk after a    *)
(* while; other documents take the places in the lists of recently used    *)
(* objects; the collector takes what nothing refers to, and the callback   *)
(* for it runs some time later; rejections age; the server crashes.        *)

Flush ==
  /\ disk # content
  /\ disk' = content
  /\ UNCHANGED <<content, caches, complex, instance, request, update, budget>>

Forget ==
  /\ \E o \in recent : recent' = recent \ {o}
  /\ UNCHANGED <<content, disk, complexEntry, fileEntry, complex, instance,
                 request, update, budget>>

\* mutant: only who has a session keeps the complex alive
HeldByUsers(c) ==
  \/ <<"complex", c>> \in recent
  \/ \E r \in Requests : request[r] = [pc |-> "using", of |-> c]

Held(c) ==
  \/ <<"complex", c>> \in recent
  \/ \E r \in Requests : request[r] = [pc |-> "using", of |-> c]
  \/ \E u \in Updates :
       update[u].pc = "going" /\ update[u].part = "body" /\ update[u].of = c

(* An instance with something to write is held by its timer.               *)
FileHeld(f) ==
  \/ <<"file", f>> \in recent
  \/ disk # content
  \/ \E c \in Complexes : complex[c].file = f /\ complex[c].phase \in Making \cup {"ready"}
  \/ \E u \in Updates : update[u].pc \in {"going", "saving"} /\ update[u].file = f

Collect(c) ==
  /\ At(c, "ready") /\ ~ Held(c)
  /\ GoTo(c, "dead")
  /\ UNCHANGED <<content, disk, caches, instance, request, update, budget>>

CollectFile(f) ==
  /\ instance[f] = "live" /\ ~ FileHeld(f)
  /\ instance' = [instance EXCEPT ![f] = "dead"]
  /\ UNCHANGED <<content, disk, caches, complex, request, update, budget>>

Reap(c) ==
  /\ At(c, "dead")
  /\ complex' = [complex EXCEPT ![c] = Unmade]
  /\ complexEntry' = AfterReaping(complexEntry, LiveComplexes)
  /\ UNCHANGED <<content, disk, fileEntry, recent, instance, request, update, budget>>

ReapFile(f) ==
  /\ instance[f] = "dead"
  /\ instance' = [instance EXCEPT ![f] = "none"]
  /\ fileEntry' = AfterReaping(fileEntry, LiveFiles)
  /\ UNCHANGED <<content, disk, complexEntry, recent, complex, request, update, budget>>

Age ==
  /\ \/ /\ complexEntry = Rejected("fresh")
        /\ complexEntry' = Rejected("old")
        /\ UNCHANGED fileEntry
     \/ /\ fileEntry = Rejected("fresh")
        /\ fileEntry' = Rejected("old")
        /\ UNCHANGED complexEntry
  /\ UNCHANGED <<content, disk, recent, complex, instance, request, update, budget>>

Crash ==
  /\ crashes < MaxCrashes
  /\ crashes' = crashes + 1
  /\ content' = disk
  /\ complexEntry' = NoEntry /\ fileEntry' = NoEntry /\ recent' = {}
  /\ complex' = [c \in Complexes |-> Unmade]
  /\ instance' = [f \in Files |-> "none"]
  /\ request' = [r \in Requests |-> Idle]
  /\ update' = [u \in Updates |-> Idle]
  /\ UNCHANGED <<disk, troubles, beaten>>

-----------------------------------------------------------------------------
Next ==
  \/ \E r \in Requests : getDocComplex(r) \/ Release(r)
  \/ \E c \in Complexes : Make(c) \/ Trouble(c) \/ Collect(c) \/ Reap(c)
  \/ \E u \in Updates :
       \/ LandUpdate(u) \/ LandStoredSnapshot(u) \/ GiveUp(u)
       \/ \E r \in Requests, part \in Parts : StartUpdate(u, r, part)
  \/ \E f \in Files : CollectFile(f) \/ ReapFile(f)
  \/ Flush \/ Forget \/ Age \/ Crash

(* Every await of the maker ends, by the storage's answer or its timeout.  *)
Spec == Init /\ [][Next]_vars
FairSpec == Spec /\ \A c \in Complexes : WF_vars(Make(c))

-----------------------------------------------------------------------------
(* Never do two complexes of a document exist that are being made or are   *)
(* alive, and never two instances of its file: each would believe that it  *)
(* alone works on the file, and write over what the other wrote.  It takes *)
(* the reservation in resolveOrAdd(), the collector, the late callback and *)
(* rejections that age to get this wrong.                                  *)
OneComplex ==
  /\ \A c, d \in Complexes :
       {complex[c].phase, complex[d].phase} \subseteq Making \cup {"ready"} => c = d
  /\ \A f, g \in Files : {instance[f], instance[g]} \subseteq {"making", "live"} => f = g

(* Whoever has got a complex finds an initialized file, whatever crashed   *)
(* or failed before, and whatever landed while the file was validated and  *)
(* written; and one with a first text, if nothing failed.  No document     *)
(* gets a text of initialization on top of another, however many times it  *)
(* was opened and however its making was cut short, unless the append that *)
(* was to clear it lost a race.                                            *)
ServedWhole ==
  /\ \A r \in Requests : request[r].pc = "using" =>
         /\ content.exists /\ content.schema = "now"
         /\ troubles = 0 /\ crashes = 0 => content.body # << >>
  /\ ~ beaten =>
       Cardinality({i \in DOMAIN content.body : content.body[i] \in {"first", "note"}}) <= 1

(* What users have put into the body stays there, but for what a crash     *)
(* takes before the file has written it, and in one case: a caret or a     *)
(* property changed while that part was being validated by the maker that  *)
(* clears the document.  Nothing else makes opening it clear it, and no    *)
(* update of the body is such a change: these keep the complex alive, and  *)
(* while there is one, no other is made.                                   *)
EditsStay ==
  [][ \/ "edit" \notin Range(content.body)
      \/ crashes' # crashes
      \/ IsPrefix(content.body, content'.body)
      \/ \E c \in Complexes :
           At(c, "append") /\ complex[c].late /\ complex[c].part = "rest" ]_vars

(* No request waits for ever, also when the making of its complex failed.  *)
EveryRequestEnds ==
  \A r \in Requests : request[r].pc = "waiting" ~> request[r].pc # "waiting"
=============================================================================
