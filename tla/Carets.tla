------------------------------- MODULE Carets -------------------------------
(***************************************************************************)
(* Carets from the hand that moves one to the eyes that see it: the        *)
(* client's upload loop (doc-client/CaretTracker.js), the server           *)
(* (CaretControl), the client's watch loop (doc-ui/CaretState.js) and the  *)
(* overlay that draws what it gets (doc-ui/CaretOverlay.js).               *)
(*                                                                         *)
(* There is an uploading client for each caret, and one that watches.      *)
(***************************************************************************)
EXTENDS CaretControl

CONSTANTS
  Own,                        \* the caret of the client that watches
  MaxComposedChangesForDiff,
  Users, MaxMoves             \* bounds what users do

ASSUME OwnAssumption == Own \in Ids

VARIABLES
  tracker,   \* CaretTracker of each client: _latestCaret, _updating
  moves,     \* where each user went last, and how many moves there were
  view,      \* CaretState._snapshot, or NothingSeen
  overlay,   \* what _watchCarets() of CaretOverlay has dealt with
  avatars,   \* _useReferences: the carets that can be drawn
  drawn      \* the carets of others on the screen

client == <<tracker, moves, view, overlay, avatars, drawn>>
vars == <<serverVars, client>>

NothingSeen == [revNum |-> 0, contents |-> NotCarets]

Init ==
  /\ ServerInit
  /\ tracker = [c \in Ids |-> [latestCaret |-> Nowhere, updating |-> FALSE]]
  /\ moves = [last |-> [c \in Ids |-> Nowhere], count |-> 0]
  /\ view = NothingSeen
  /\ overlay = [started |-> FALSE, revNum |-> 0, contents |-> NoCarets]
  /\ avatars = {} /\ drawn = NoCarets

-----------------------------------------------------------------------------
(* CaretTracker *)

\* update(): remember the position, and see to it that the loop runs.
Move(c, spot) ==
  /\ c \in Users /\ moves.count < MaxMoves
  /\ moves' = [last |-> [moves.last EXCEPT ![c] = spot], count |-> moves.count + 1]
  /\ tracker' = [tracker EXCEPT ![c] = [latestCaret |-> spot, updating |-> TRUE]]
  /\ UNCHANGED <<serverVars, view, overlay, avatars, drawn>>

\* The loop sends the latest position; then it waits for the call.
Send(c) ==
  /\ tracker[c].updating /\ tracker[c].latestCaret # Nowhere
  /\ CaretUpdate(c, tracker[c].latestCaret)
  /\ tracker' = [tracker EXCEPT ![c].latestCaret = Nowhere]
  /\ UNCHANGED <<now, file, memory, saves, troubles, moves, view, overlay, avatars, drawn>>

Sent(c) ==
  /\ call[c].pc = "done"
  /\ call' = [call EXCEPT ![c] = Idle]
  /\ UNCHANGED <<now, file, memory, nextIdleCheck, saves, troubles, client>>

\* Nothing was moved for MAX_IDLE_TIME_MSEC.  A loop whose call has failed is
\* not here any more, but _updating stays as it is.
StopTracking(c) ==
  /\ tracker[c].updating /\ tracker[c].latestCaret = Nowhere /\ call[c].pc = "idle"
  /\ tracker' = [tracker EXCEPT ![c].updating = FALSE]
  /\ UNCHANGED <<serverVars, moves, view, overlay, avatars, drawn>>

-----------------------------------------------------------------------------
(* CaretState *)

Seen == view # NothingSeen

\* The overlay has had the time between two requests to take the last snapshot.
CaughtUp == overlay.started /\ overlay.revNum = view.revNum

\* Mutant: after trouble it goes on with the snapshot that it has.
AskSnapshotOnce ==
  /\ call[Viewer].pc = "idle" /\ ~ Seen
  /\ Goes(Viewer, Ask(Viewer, "view", revNum))
  /\ UNCHANGED <<now, file, memory, saves, troubles, client>>

\* Without a snapshot, or after trouble with getting a change, get one.
AskSnapshot ==
  /\ call[Viewer].pc = "trouble" \/ (call[Viewer].pc = "idle" /\ ~ Seen)
  /\ Goes(Viewer, Ask(Viewer, "view", revNum))
  /\ UNCHANGED <<now, file, memory, saves, troubles, client>>

\* After trouble with that as well, start over: what there was is kept.
StartOver ==
  /\ call[Viewer].pc = "failed"
  /\ call' = [call EXCEPT ![Viewer] = Idle]
  /\ UNCHANGED <<now, file, memory, nextIdleCheck, saves, troubles, client>>

Receive(revision, contents) ==
  /\ view' = [revNum |-> revision, contents |-> contents]
  /\ call' = [call EXCEPT ![Viewer] = Idle]
  /\ UNCHANGED <<now, file, memory, nextIdleCheck, saves, troubles,
                 tracker, moves, overlay, avatars, drawn>>

GetSnapshot ==
  /\ call[Viewer].pc = "view" /\ Available(call[Viewer].want)
  /\ Receive(call[Viewer].want, Current(Viewer))

AskChangeAfter ==
  /\ call[Viewer].pc = "idle" /\ Seen /\ CaughtUp
  /\ call' = [call EXCEPT ![Viewer].pc = "after"]
  /\ UNCHANGED <<now, file, memory, nextIdleCheck, saves, troubles, client>>

\* getChangeAfter() waits for a newer revision.  getDiff() composes the changes
\* since then, if they are few; for an erased one it throws.
GetComposedChange ==
  LET first == view.revNum + 1
  IN /\ call[Viewer].pc = "after" /\ revNum \in first..(view.revNum + MaxComposedChangesForDiff)
     /\ IF InFile(first, revNum)
        THEN Receive(revNum, ComposeCarets(view.contents,
               ComposeAllDeltas([i \in 1..(revNum - view.revNum) |-> changes[view.revNum + i]])))
        ELSE /\ Fail(Viewer)
             /\ UNCHANGED <<now, file, memory, nextIdleCheck, saves, troubles, client>>

\* If they are many, it gets both snapshots instead.
AskDiff ==
  /\ call[Viewer].pc = "after" /\ revNum > view.revNum + MaxComposedChangesForDiff
  /\ Goes(Viewer, [Ask(Viewer, "diff", revNum) EXCEPT !.change.revNum = view.revNum])
  /\ UNCHANGED <<now, file, memory, saves, troubles, client>>

GetDiff ==
  LET base == call[Viewer].change.revNum
  IN /\ call[Viewer].pc = "diff" /\ Available(base) /\ Available(call[Viewer].want)
     /\ Receive(call[Viewer].want,
          ComposeCarets(view.contents, DiffCarets(cache[base].contents, Current(Viewer))))

-----------------------------------------------------------------------------
(* CaretOverlay *)

Others(contents) == [id \in DOMAIN contents \ {Own} |-> contents[id]]

\* Mutant: the display is brought up to date only when a caret comes or goes.
NeedsUpdateIfNew(delta) == \E id \in DOMAIN delta : delta[id].op # "setField"

\* Changes of a caret's fields matter unless it is the client's own.
NeedsUpdate(delta) ==
  \E id \in DOMAIN delta : delta[id].op # "setField" \/ id # Own

\* _onCaretChange(): keep the avatars, then draw everything anew if need be.
OnCaretChange ==
  LET delta == DiffCarets(overlay.contents, view.contents)
      added == {id \in DOMAIN delta : delta[id].op = "add"}
  IN /\ Seen /\ ~ CaughtUp
     /\ overlay' = [started |-> TRUE, revNum |-> view.revNum, contents |-> view.contents]
     /\ avatars' = (avatars \cup added) \ Deleted(delta)
     /\ drawn' = IF NeedsUpdate(delta) THEN Others(view.contents) ELSE drawn
     /\ UNCHANGED <<serverVars, tracker, moves, view>>

\* _watchLocalEdits(): the text has moved, draw again.  It may be ahead of
\* _watchCarets(): then it fails at a caret without an avatar, half done.
OnLocalEdit ==
  /\ Seen
  /\ LET all == Others(view.contents)
     IN \E S \in SUBSET (DOMAIN all \cap avatars) :
          /\ DOMAIN all \subseteq avatars => S = DOMAIN all
          /\ drawn' = [id \in S |-> all[id]]
  /\ UNCHANGED <<serverVars, tracker, moves, view, overlay, avatars>>

-----------------------------------------------------------------------------
Upload(c) == Send(c) \/ Sent(c) \/ StopTracking(c)

Watch ==
  \/ AskSnapshot \/ StartOver \/ GetSnapshot
  \/ AskChangeAfter \/ GetComposedChange \/ AskDiff \/ GetDiff

UnwatchedNext ==
  \/ ServerNext /\ UNCHANGED client
  \/ (Tick \/ Restart) /\ UNCHANGED client
  \/ \E c \in Ids : Upload(c) \/ \E spot \in Spots : Move(c, spot)

Next ==
  \/ UnwatchedNext
  \/ Watch
  \/ OnCaretChange
  \/ OnLocalEdit

\* Nobody watches: the server and those who upload.
UnwatchedSpec == Init /\ [][UnwatchedNext]_vars

Spec == Init /\ [][Next]_vars

\* Event loops run what is ready; users, clocks and failures are free.
Fairness ==
  /\ \A c \in Callers : WF_vars(Step(c) /\ UNCHANGED client)
  /\ WF_vars(Manage /\ UNCHANGED client)
  /\ WF_vars((RemoveIdle \/ Forget) /\ UNCHANGED client)
  /\ WF_vars((\E s \in saves : Save(s)) /\ UNCHANGED client)
  /\ \A c \in Ids : WF_vars(Upload(c))
  /\ WF_vars(Watch)
  /\ WF_vars(OnCaretChange)

FairSpec == Spec /\ Fairness

-----------------------------------------------------------------------------
(* Properties *)

\* Whoever holds a snapshot of a revision, holds the contents that the part had
\* at that revision: in memory, in the file, on its way there, at the client.
\* Restarts, erased changes and the two ways to make a diff change nothing.
\* What is on the screen is what the overlay was told last, though it draws
\* only when it thinks it must, and sometimes ahead of time and half.
SnapshotsTrue ==
  /\ \A r \in DOMAIN cache : ~ cache[r].rejected => cache[r].contents = history[r]
  /\ stored # NoSnapshot => stored.contents = history[stored.revNum]
  /\ \A s \in saves : s.phase = "write" => s.contents = history[s.revNum]
  /\ Seen => view.contents = history[view.revNum]
  /\ Seen /\ CaughtUp => drawn = Others(view.contents)

\* A caret goes only if it has been idle for longer than MAX_CARET_IDLE_MSEC:
\* a removal that loses a race against the caret's own update does no harm.
OnlyIdleCaretsGo ==
  [][\A id \in DOMAIN history[revNum] :
       \/ id \in DOMAIN history'[revNum']
       \/ history[revNum][id].lastActive + MaxIdle < now]_vars

\* Once the users rest, who watches sees every caret that is there where its
\* user put it, unless something failed: a read of the file that made the
\* server's cache unusable, or the call that was to tell the server.
Trouble ==
  \/ retrievalRejected \/ \E r \in DOMAIN cache : cache[r].rejected
  \/ \E c \in Ids : call[c].pc = "failed"

MovesSeen ==
  <>[](Trouble \/ (/\ Seen /\ view.revNum = revNum
                   /\ \A c \in DOMAIN view.contents : view.contents[c].at = moves.last[c]
                   /\ drawn = Others(view.contents)))
=============================================================================
