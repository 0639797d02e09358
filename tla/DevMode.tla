------------------------------- MODULE DevMode -------------------------------
(***************************************************************************)
(* Development mode: the output is kept like the source files that it was  *)
(* built from, for the client; a change of one for the server ends the     *)
(* process, and a script builds everything and starts another.  Several    *)
(* source directories may be laid over each other.                         *)
(***************************************************************************)
EXTENDS Naturals, FiniteSets

CONSTANTS
  ClientFiles, ServerFiles,  \* in the output directory
  Layers,       \* source directories are 1..Layers, the first on top
  Contents,     \* what files may have in them
  Absent,
  MaxEdits,     \* bound: changes of source files
  HiddenReappear   \* a file may be removed from above another

Files == ClientFiles \cup ServerFiles
Dirs == 1..Layers
FilesOf(watcher) == IF watcher = "client" THEN ClientFiles ELSE ServerFiles
Watched(file) == IF file \in ClientFiles THEN "client" ELSE "server"

VARIABLES
  source,    \* directory -> file -> contents, or Absent
  out,       \* file -> contents, or Absent
  watching,  \* which watchers are ready, the client's or the server's
  recent,    \* source files changed just before that
  changes,   \* changes that the watcher will tell of
  process,   \* running, about to exit, or exited
  edits

vars == <<source, out, watching, recent, changes, process, edits>>

\* _getFromPath(): where a file of the output comes from, if it is anywhere
Candidates(file) == {d \in Dirs : source[d][file] # Absent}

FromPath(file) ==
  CHOOSE d \in Candidates(file) : \A e \in Candidates(file) : d <= e

Built == [file \in Files |->
            IF Candidates(file) = {} THEN Absent ELSE source[FromPath(file)][file]]

Init ==
  /\ source \in [Dirs -> [Files -> Contents \cup {Absent}]]
  /\ out = Built
  /\ watching = {}
  /\ recent = {}
  /\ changes = {}
  /\ process = "running"
  /\ edits = 0

-----------------------------------------------------------------------------
(* Somebody edits, adds or removes a source file.  Before the watcher is    *)
(* ready it is found later by its date, unless it has been removed.         *)

Edit(d, file, contents) ==
  /\ edits < MaxEdits /\ process # "exited"
  /\ source[d][file] # contents
  /\ contents = Absent =>
       /\ Watched(file) \in watching
       /\ HiddenReappear \/ FromPath(file) # d \/ Candidates(file) = {d}
  /\ source' = [source EXCEPT ![d][file] = contents]
  /\ IF Watched(file) \in watching
     THEN changes' = changes \cup {<<d, file>>} /\ UNCHANGED recent
     ELSE recent' = recent \cup {<<d, file>>} /\ UNCHANGED changes
  /\ edits' = edits + 1
  /\ UNCHANGED <<out, watching, process>>

-----------------------------------------------------------------------------
(* _resolveChange(): a file that is not the one on top is of no interest.   *)

\* Mutant: every file is.
SalientToAll(d, file) == TRUE

Salient(d, file) == Candidates(file) = {} \/ FromPath(file) = d

\* _handleClientChange() copies the file, or removes it from the output;
\* _handleServerChange() begins to exit.
ClientChanged(o, d, file) ==
  IF file \notin ClientFiles \/ ~ Salient(d, file) THEN o
  ELSE [o EXCEPT ![file] = source[d][file]]

Exits(d, file) == file \in ServerFiles /\ Salient(d, file)

Handle(d, file) ==
  /\ process # "exited"
  /\ <<d, file>> \in changes
  /\ changes' = changes \ {<<d, file>>}
  /\ IF process = "exiting"
     THEN UNCHANGED <<out, process>>
     ELSE /\ out' = ClientChanged(out, d, file)
          /\ process' = IF Exits(d, file) THEN "exiting" ELSE process
  /\ UNCHANGED <<source, watching, recent, edits>>

\* _initialChanges(): what was changed recently is handled at once.
Ready(watcher) ==
  LET salient == {file \in FilesOf(watcher) :
                    \E d \in Dirs : <<d, file>> \in recent /\ Salient(d, file)}
  IN /\ watcher \notin watching /\ process # "exited"
     /\ watching' = watching \cup {watcher}
     /\ recent' = recent \ (Dirs \X FilesOf(watcher))
     /\ IF watcher = "client"
        THEN /\ out' = IF process = "exiting" THEN out
                      ELSE [file \in Files |-> IF file \in salient THEN Built[file]
                                              ELSE out[file]]
             /\ UNCHANGED process
        ELSE /\ process' = IF salient = {} THEN process ELSE "exiting"
             /\ UNCHANGED out
     /\ UNCHANGED <<source, changes, edits>>

\* Five seconds later
Exit ==
  /\ process = "exiting"
  /\ process' = "exited"
  /\ UNCHANGED <<source, out, watching, recent, changes, edits>>

\* The script builds everything, and starts the program again.  (External)
Restart ==
  /\ process = "exited"
  /\ out' = Built
  /\ watching' = {}
  /\ recent' = {} /\ changes' = {}
  /\ process' = "running"
  /\ UNCHANGED <<source, edits>>

Next ==
  \/ \E d \in Dirs, file \in Files :
       \/ Handle(d, file)
       \/ \E c \in Contents \cup {Absent} : Edit(d, file, c)
  \/ \E watcher \in {"client", "server"} : Ready(watcher)
  \/ Exit \/ Restart

Spec == Init /\ [][Next]_vars

\* Once every change has been told of, the output is what a build would make,
\* whatever was changed meanwhile and in whichever directory; the process does
\* not go on with an old server.  (It is not if a file is removed from above
\* another: the one below is taken for a change of no interest.)
OutputFollows ==
  watching = {"client", "server"} /\ changes = {} /\ process = "running" => out = Built
=============================================================================
