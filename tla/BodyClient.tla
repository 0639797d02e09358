----------------------------- MODULE BodyClient -----------------------------
(***************************************************************************)
(* The editor's side of the body (doc-client/BodyClient.js, a StateMachine *)
(* of state-machine/): it collects what the user types in Quill, sends it  *)
(* with body_update(), asks for the changes of others with                 *)
(* body_getChangeAfter(), and merges them under what was typed meanwhile.  *)
(*                                                                         *)
(* The machine handles one event of its queue at a time.  Between two      *)
(* events, and while a handler awaits something, the user types, timers    *)
(* fire, answers come in and the connection drops.                         *)
(*                                                                         *)
(* The server is the log that BaseControl implements (see DocLog).         *)
(* Left out: caret (selection) events, undo history, a second client bound *)
(* to the same Quill, and detach().                                        *)
(***************************************************************************)
EXTENDS BodyDelta

CONSTANTS
  BootText,         \* the document at revision 1
  Placeholder,      \* what Quill shows before the document is there
  UserEdits(_),     \* the deltas that the user may make of a text
  OthersEdits(_),   \* the deltas that others may make of a text
  MaxUserEdits, MaxOthersEdits,
  MaxTroubles,      \* bounds failures, timeouts and stops in total
  MaxDisturbances,  \* bounds troubles and others' edits together
  ErrorsTolerated   \* how many errors are not yet "unrecoverable"

ASSUME ErrorsAssumption == ErrorsTolerated \in Nat \ {0}

VARIABLES
  changes, texts,   \* the server: delta and text of each revision
  state, queue,     \* of the state machine
  busy,             \* what the handler in progress awaits, or "nothing"
  running,          \* _running
  snapshot,         \* _snapshot, [revNum, text], or NoSnapshot
  chain,            \* the Quill events after _currentEvent: [source, delta]
  pendingChangeAfter, pendingQuillAwait,
  errors,           \* length of _errorStamps
  editor, enabled,  \* Quill: its text, and whether it takes input
  awaits,           \* promises for the next Quill event: [revNum, resolved]
  timers,           \* in the order in which they were set
  connection,       \* ApiClient: "open", "closing" (the server has announced
                    \* it) or "closed"
  calls, replies,   \* API calls at the server, answers on their way
  spent,            \* counts for the bounds
  asked             \* what was called last: start() or stop()

server   == <<changes, texts>>
machine  == <<state, queue, busy, running>>
document == <<snapshot, chain, editor, awaits>>
pending  == <<pendingChangeAfter, pendingQuillAwait>>
wire     == <<calls, replies, connection>>
world    == <<spent, asked>>
vars     == <<server, machine, document, pending, wire, world,
              errors, enabled, timers>>

NoSnapshot == [revNum |-> 0, text |-> <<>>]

\* Whether the world may still do something to the client.
Undisturbed == spent.troubles + spent.others < MaxDisturbances
MayTrouble == spent.troubles < MaxTroubles /\ Undisturbed
MayEdit == spent.others < MaxOthersEdits /\ Undisturbed

Event(name) == [name |-> name]

Init ==
  /\ changes = <<EmptyBodyDelta>> /\ texts = <<BootText>>
  /\ state = "detached" /\ queue = <<Event("start")>> /\ asked = "start"
  /\ busy = "nothing" /\ running = FALSE
  /\ snapshot = NoSnapshot /\ chain = <<>>
  /\ pendingChangeAfter = FALSE /\ pendingQuillAwait = FALSE
  /\ errors = 0 /\ editor = Placeholder /\ enabled = FALSE
  /\ awaits = <<>> /\ timers = <<>>
  /\ calls = <<>> /\ replies = <<>> /\ connection = "closed"
  /\ spent = [user |-> 0, others |-> 0, troubles |-> 0]

-----------------------------------------------------------------------------
(* Quill, and the machinery of StateMachine *)

\* Quill takes a delta and emits it: the promises for its next event resolve.
\* `before' is the chain that the event comes after.
Emit(before, source, delta) ==
  /\ chain' = Append(before, [source |-> source, delta |-> delta])
  /\ editor' = ComposeBody(editor, delta)
  /\ awaits' = [i \in 1..Len(awaits) |-> [awaits[i] EXCEPT !.resolved = TRUE]]

\* updateContents() by this client.
UpdateQuill(before, delta) ==
  IF delta = EmptyBodyDelta
  THEN chain' = before /\ UNCHANGED <<editor, awaits>>
  ELSE Emit(before, "client", delta)

\* The next event of the queue, when no handler is in progress.
Handling(name) == busy = "nothing" /\ queue # <<>> /\ Head(queue).name = name

HandledIn(s, name) == state = s /\ Handling(name)

\* What a handler leaves in the queue: nothing new, or one event at either end.
Handled == queue' = Tail(queue)
Enqueue(event) == queue' = Append(Tail(queue), event)
Push(event) == queue' = <<event>> \o Tail(queue)

\* An exception in a handler becomes an `error' event.
Throw == Enqueue(Event("error")) /\ UNCHANGED state

BecomeDisabled(next) ==
  /\ state' = "becomeDisabled"
  /\ Push([name |-> "nextState", next |-> next])

BecomeUnrecoverable == state' = "unrecoverableError" /\ Push(Event("stop"))

\* Mutant: nothing more is wanted.
BecomeIdleQuietly ==
  IF running THEN state' = "idle" /\ Handled ELSE state' = "detached" /\ Handled

BecomeIdle ==
  IF running THEN state' = "idle" /\ Enqueue(Event("wantInput"))
             ELSE state' = "detached" /\ Handled

\* _validateSnapshot()
IsValidText(text) == text # <<>> /\ Last(text) \in Newlines

\* An API call, which fails at once unless the connection is open: `rest' is
\* the queue without that.
Call(call, rest) ==
  /\ calls' = IF connection = "open" THEN Append(calls, call) ELSE calls
  /\ queue' = IF connection = "open" THEN rest ELSE Append(rest, Event("apiError"))

SetTimer(timer) == timers' = Append(timers, timer)

-----------------------------------------------------------------------------
(* Starting and stopping *)

\* detached_start, up to what it awaits: a session, then a snapshot.  A closed
\* connection is opened anew; one that is closing counts as open.
StartDetached ==
  /\ HandledIn("detached", "start")
  /\ running' = TRUE
  /\ IF connection = "closing"
     THEN Enqueue(Event("apiError")) /\ UNCHANGED <<busy, calls, connection>>
     ELSE /\ connection' = "open"
          /\ calls' = Append(calls, [method |-> "getSnapshot"])
          /\ busy' = "starting" /\ Handled
  /\ UNCHANGED <<server, state, document, pending, replies, world,
                 errors, enabled, timers>>

\* The rest of detached_start: what Quill showed is replaced by the snapshot,
\* and the chain is followed from there on.  _validateSnapshot() throws for a
\* text without a newline at its end, which no revision of this server has: Quill
\* keeps that newline in every edit.
GotSnapshot(new) ==
  /\ snapshot' = new /\ chain' = <<>> /\ editor' = new.text
  /\ awaits' = IF editor = new.text THEN awaits
               ELSE [i \in 1..Len(awaits) |-> [awaits[i] EXCEPT !.resolved = TRUE]]
  /\ busy' = "nothing" /\ state' = "becomeEnabled"
  /\ queue' = Append(queue, Event("start"))
  /\ UNCHANGED running

StartEnabled ==
  /\ HandledIn("becomeEnabled", "start")
  /\ enabled' = TRUE
  /\ BecomeIdle
  /\ UNCHANGED <<server, busy, running, document, pending, wire, world, errors, timers>>

StartAfterError ==
  /\ HandledIn("errorWait", "start")
  /\ snapshot' = NoSnapshot /\ chain' = <<>>
  /\ pendingChangeAfter' = FALSE /\ pendingQuillAwait' = FALSE
  /\ state' = "detached" /\ Enqueue(Event("start"))
  /\ UNCHANGED <<server, busy, running, editor, awaits, wire, world,
                 errors, enabled, timers>>

\* any_stop
StopNow ==
  /\ Handling("stop")
  /\ state \notin {"collecting", "merging", "unrecoverableError", "errorWait"}
  /\ running' = FALSE
  /\ BecomeDisabled("detached")
  /\ UNCHANGED <<server, busy, document, pending, wire, world, errors, enabled, timers>>

\* collecting_stop and merging_stop: let what is under way complete.
WaitThenStop ==
  /\ Handling("stop") /\ state \in {"collecting", "merging"}
  /\ SetTimer([kind |-> "stopPoll", msec |-> 500])
  /\ BecomeDisabled(state)
  /\ UNCHANGED <<server, busy, running, document, pending, wire, world, errors, enabled>>

StopUnrecoverable ==
  /\ HandledIn("unrecoverableError", "stop")
  /\ BecomeDisabled("detached")
  /\ UNCHANGED <<server, busy, running, document, pending, wire, world,
                 errors, enabled, timers>>

NextState ==
  /\ HandledIn("becomeDisabled", "nextState")
  /\ enabled' = FALSE
  /\ state' = Head(queue).next /\ Handled
  /\ UNCHANGED <<server, busy, running, document, pending, wire, world, errors, timers>>

\* any_apiError: wait and start again, unless there were too many errors.
ApiError ==
  /\ Handling("apiError") /\ state # "errorWait"
  /\ IF ~ running
     THEN Handled /\ UNCHANGED <<state, errors, timers>>
     ELSE /\ errors' = errors + 1
          /\ IF errors + 1 > ErrorsTolerated
             THEN BecomeUnrecoverable /\ UNCHANGED timers
             ELSE /\ SetTimer([kind |-> "restart",
                               msec |-> IF errors = 0 THEN 1000 ELSE 5000])
                  /\ BecomeDisabled("errorWait")
  /\ UNCHANGED <<server, busy, running, document, pending, wire, world, enabled>>

\* any_error
Error ==
  /\ Handling("error") /\ state # "errorWait"
  /\ BecomeUnrecoverable
  /\ UNCHANGED <<server, busy, running, document, pending, wire, world,
                 errors, enabled, timers>>

-----------------------------------------------------------------------------
(* What the user types *)

\* idle_wantInput: ask Quill and the server, unless they have been asked.
WantInput ==
  /\ HandledIn("idle", "wantInput")
  /\ pendingQuillAwait' = TRUE
  /\ pendingChangeAfter' = (pendingChangeAfter \/ connection = "open")
  /\ awaits' = IF pendingQuillAwait THEN awaits
               ELSE Append(awaits, [revNum |-> snapshot.revNum,
                                    resolved |-> chain # <<>>])
  /\ IF pendingChangeAfter THEN Handled /\ UNCHANGED calls
     ELSE Call([method |-> "getChangeAfter", revNum |-> snapshot.revNum], Tail(queue))
  /\ UNCHANGED <<server, state, busy, running, snapshot, chain, editor, replies,
                 connection, world, errors, enabled, timers>>

\* The code that awaits the next Quill event resumes.
NoticeQuillEvent ==
  /\ awaits # <<>> /\ Head(awaits).resolved
  /\ awaits' = Tail(awaits)
  /\ pendingQuillAwait' = FALSE
  /\ queue' = Append(queue, [name |-> "gotQuillEvent", revNum |-> Head(awaits).revNum])
  /\ UNCHANGED <<server, state, busy, running, snapshot, chain, editor,
                 pendingChangeAfter, wire, world, errors, enabled, timers>>

\* Mutant: an event of our own is taken for the user's.
NeverOurs(event) == FALSE

IsOurs(event) == event.source = "client"

\* idle_gotQuillEvent: skip an event of our own; collect for a while what the
\* user types; ignore what is stale.
GotQuillEvent ==
  /\ HandledIn("idle", "gotQuillEvent")
  /\ \/ /\ snapshot.revNum # Head(queue).revNum \/ chain = <<>>
        /\ BecomeIdle /\ UNCHANGED <<chain, timers>>
     \/ /\ snapshot.revNum = Head(queue).revNum /\ chain # <<>>
        /\ IsOurs(Head(chain))
        /\ chain' = Tail(chain)
        /\ BecomeIdle /\ UNCHANGED timers
     \/ /\ snapshot.revNum = Head(queue).revNum /\ chain # <<>>
        /\ ~ IsOurs(Head(chain))
        /\ SetTimer([kind |-> "push", msec |-> 1000, revNum |-> snapshot.revNum])
        /\ state' = "collecting" /\ Handled /\ UNCHANGED chain
  /\ UNCHANGED <<server, busy, running, snapshot, editor, awaits, pending, wire,
                 world, errors, enabled>>

\* The composition of the deltas of some events.
Composed(events) ==
  FoldLeft(ComposeDeltas, EmptyBodyDelta, [i \in 1..Len(events) |-> events[i].delta])

\* _consumeLocalChanges(false) takes the events up to the first of our own,
\* and that one as well, but only composes the others.
Collected ==
  LET byUser == {n \in 0..Len(chain) : \A i \in 1..n : chain[i].source = "user"}
  IN SubSeq(chain, 1, CHOOSE n \in byUser : \A m \in byUser : m <= n)

AfterCollected == SubSeq(chain, Len(Collected) + 2, Len(chain))

\* collecting_wantToUpdate
WantToUpdate ==
  LET delta == Composed(Collected)
  IN /\ HandledIn("collecting", "wantToUpdate")
     /\ IF snapshot.revNum # Head(queue).revNum
        THEN BecomeIdle /\ UNCHANGED <<chain, calls>>
        ELSE /\ chain' = AfterCollected
             /\ IF delta = EmptyBodyDelta
                THEN /\ IF Collected = <<>> THEN Throw ELSE BecomeIdle
                     /\ UNCHANGED calls
                ELSE /\ Call([method |-> "update", revNum |-> snapshot.revNum,
                              delta |-> delta], Tail(queue))
                     /\ state' = "merging"
     /\ UNCHANGED <<server, busy, running, snapshot, editor, awaits, pending,
                    replies, connection, world, errors, enabled, timers>>

-----------------------------------------------------------------------------
(* What the server answers *)

\* _updateWithChange(), its errors included: `unread' is the chain as its caller
\* has consumed it, `before' as its caller leaves it, `then' what comes next.
UpdateWithChange(change, quillDelta, unread, before, then) ==
  LET text == ComposeBody(snapshot.text, change.delta)
  IN IF IsValidText(text)
     THEN /\ snapshot' = [revNum |-> change.revNum, text |-> text]
          /\ UpdateQuill(before, quillDelta)
          /\ then
     ELSE Throw /\ chain' = unread /\ UNCHANGED <<snapshot, editor, awaits>>

\* Mutants: the one or the other half of StillApplies is forgotten.
ForThisEditor(event) == chain = <<>>
ForThisRevision(event) == snapshot.revNum = event.revNum

StillApplies(event) == snapshot.revNum = event.revNum /\ chain = <<>>

\* idle_gotChangeAfter: take the change if it is for this very text.
GotChangeAfter ==
  LET change == Head(queue).change
      delayed == Enqueue(Event("wantInputAfterDelay")) /\ UNCHANGED state
  IN /\ HandledIn("idle", "gotChangeAfter")
     /\ IF StillApplies(Head(queue))
        THEN UpdateWithChange(change, change.delta, <<>>, <<>>, delayed)
        ELSE delayed /\ UNCHANGED document
     /\ UNCHANGED <<server, busy, running, pending, wire, world,
                    errors, enabled, timers>>

\* idle_wantInputAfterDelay keeps the machine busy until its timer fires.
WantInputAfterDelay ==
  /\ HandledIn("idle", "wantInputAfterDelay")
  /\ busy' = "pausing" /\ SetTimer([kind |-> "pull", msec |-> 1000])
  /\ Handled
  /\ UNCHANGED <<server, state, running, document, pending, wire, world,
                 errors, enabled>>

\* merging_gotUpdate: no correction, a correction, or a correction that has to
\* go under what the user has typed since.
GotUpdate ==
  LET delta      == Head(queue).delta
      revNum     == Head(queue).change.revNum
      correction == Head(queue).change.delta
      corrected  == [revNum |-> revNum, delta |-> ComposeDeltas(delta, correction)]
      more       == Composed(chain)
      newMore    == [source |-> "user", delta |-> TransformAs(correction, more, TRUE)]
  IN /\ HandledIn("merging", "gotUpdate")
     /\ \/ /\ correction = EmptyBodyDelta
           /\ UpdateWithChange([revNum |-> revNum, delta |-> delta],
                               EmptyBodyDelta, chain, chain, BecomeIdle)
        \/ /\ correction # EmptyBodyDelta /\ chain = <<>>
           /\ UpdateWithChange(corrected, correction, <<>>, <<>>, BecomeIdle)
        \/ /\ correction # EmptyBodyDelta /\ chain # <<>>
           /\ UpdateWithChange(corrected, TransformAs(more, correction, FALSE),
                               <<>>, <<newMore>>, BecomeIdle)
     /\ UNCHANGED <<server, busy, running, pending, wire, world,
                    errors, enabled, timers>>

-----------------------------------------------------------------------------
(* The handlers for any state, and for any event *)

\* Events that only one state acts on.
Ignore ==
  /\ \/ /\ \E name \in {"gotChangeAfter", "gotQuillEvent", "wantInput",
                        "wantInputAfterDelay"} : Handling(name)
        /\ state \notin {"idle", "errorWait"}
     \/ Handling("start") /\ state \notin {"detached", "becomeEnabled", "errorWait"}
     \/ /\ busy = "nothing" /\ state = "errorWait"
        /\ queue # <<>> /\ Head(queue).name # "start"
  /\ Handled
  /\ UNCHANGED <<server, state, busy, running, document, pending, wire, world,
                 errors, enabled, timers>>

\* any_any: an event that a state has no handler for.
Unexpected ==
  /\ \/ Handling("gotUpdate") /\ state \notin {"merging", "errorWait"}
     \/ Handling("wantToUpdate") /\ state \notin {"collecting", "errorWait"}
  /\ Throw
  /\ UNCHANGED <<server, busy, running, document, pending, wire, world,
                 errors, enabled, timers>>

Dispatch ==
  \/ StartDetached \/ StartEnabled \/ StartAfterError
  \/ StopNow \/ WaitThenStop \/ StopUnrecoverable
  \/ NextState \/ ApiError \/ Error
  \/ WantInput \/ GotQuillEvent \/ WantToUpdate
  \/ GotChangeAfter \/ WantInputAfterDelay \/ GotUpdate
  \/ Ignore \/ Unexpected

-----------------------------------------------------------------------------
(* Timers *)

\* Of two timers, the one set first fires first unless it is the longer one.
MayFire(i) == \A j \in 1..(i - 1) : timers[j].msec > timers[i].msec

FireTimer(i) ==
  LET timer == timers[i]
  IN /\ MayFire(i)
     /\ timers' = RemoveAt(timers, i)
     /\ \/ /\ timer.kind = "push"
           /\ queue' = Append(queue, [name |-> "wantToUpdate", revNum |-> timer.revNum])
           /\ UNCHANGED busy
        \/ /\ timer.kind = "restart"
           /\ queue' = IF running THEN Append(queue, Event("start")) ELSE queue
           /\ UNCHANGED busy
        \/ /\ timer.kind = "stopPoll"
           /\ queue' = Append(queue, Event("stop"))
           /\ UNCHANGED busy
        \/ /\ timer.kind = "pull"
           /\ queue' = Append(queue, Event("wantInput"))
           /\ busy' = "nothing"
     /\ UNCHANGED <<server, state, running, document, pending, wire, world,
                    errors, enabled>>

-----------------------------------------------------------------------------
(* The server, and the connection to it *)

LastRev == Len(texts)

DeltaAfter(revNum) ==
  FoldLeft(ComposeDeltas, EmptyBodyDelta, SubSeq(changes, revNum + 1, LastRev))

AppendChange(delta) ==
  /\ changes' = Append(changes, delta)
  /\ texts' = Append(texts, ComposeBody(texts[LastRev], delta))

\* What is left of an update at the last revision.
Rebased(call) ==
  IF call.revNum = LastRev THEN call.delta
  ELSE Transform(DeltaAfter(call.revNum), call.delta)

\* What an update that was appended is answered: what to add to the text that
\* its caller expects.
Correction(call, result) ==
  IF call.revNum = LastRev THEN EmptyBodyDelta
  ELSE DiffBody(ComposeBody(texts[call.revNum], call.delta), result)

\* The i-th call is carried out and answered; an answer is written as the event
\* that the code awaiting it makes of it.
Answer(i, event) ==
  /\ calls' = RemoveAt(calls, i)
  /\ replies' = Append(replies, [call |-> calls[i], event |-> event])

GotUpdateEvent(call, revNum, correction) ==
  [name |-> "gotUpdate", delta |-> call.delta,
   change |-> [revNum |-> revNum, delta |-> correction]]

\* Snapshots and changes are answered from the last revision; getChangeAfter()
\* waits until there is one.
ServeRead(i) ==
  /\ \/ /\ calls[i].method = "getSnapshot"
        /\ Answer(i, [name |-> "gotSnapshot",
                      snapshot |-> [revNum |-> LastRev, text |-> texts[LastRev]]])
     \/ /\ calls[i].method = "getChangeAfter" /\ calls[i].revNum < LastRev
        /\ Answer(i, [name |-> "gotChangeAfter", revNum |-> calls[i].revNum,
                      change |-> [revNum |-> LastRev,
                                  delta |-> DeltaAfter(calls[i].revNum)]])
  /\ UNCHANGED <<server, machine, document, pending, connection, world,
                    errors, enabled, timers>>

\* update() as its callers see it: it takes effect at one instant.
ServeUpdate(i) ==
  LET delta == Rebased(calls[i])
  IN /\ calls[i].method = "update"
     /\ IF delta = EmptyBodyDelta
        THEN /\ Answer(i, GotUpdateEvent(calls[i], LastRev, EmptyBodyDelta))
             /\ UNCHANGED server
        ELSE /\ AppendChange(delta)
             /\ Answer(i, GotUpdateEvent(calls[i], LastRev + 1,
                              Correction(calls[i], texts'[LastRev + 1])))
     /\ UNCHANGED <<machine, document, pending, connection, world,
                    errors, enabled, timers>>

\* getChangeAfter() has waited long enough.  (Counted as long as the connection
\* is open, as it can happen over and over.)
ChangeAfterTimesOut(i) ==
  /\ calls[i].method = "getChangeAfter" /\ calls[i].revNum = LastRev
  /\ \/ connection = "closing" /\ UNCHANGED spent
     \/ /\ connection = "open" /\ MayTrouble
        /\ spent' = [spent EXCEPT !.troubles = @ + 1]
  /\ Answer(i, Event("wantInput"))
  /\ UNCHANGED <<server, machine, document, pending, connection, asked,
                    errors, enabled, timers>>

\* update() fails, by running out of time for instance: whether it has taken
\* effect, its caller cannot know.
UpdateFails(i) ==
  LET delta == Rebased(calls[i])
  IN /\ calls[i].method = "update"
     /\ MayTrouble
     /\ spent' = [spent EXCEPT !.troubles = @ + 1]
     /\ \/ UNCHANGED server
        \/ delta # EmptyBodyDelta /\ AppendChange(delta)
     /\ Answer(i, Event("apiError"))
     /\ UNCHANGED <<machine, document, pending, connection, asked,
                    errors, enabled, timers>>

\* An update whose caller has lost its connection takes effect all the same.
ServeOrphan(i) ==
  LET delta == Rebased(calls[i])
  IN /\ calls[i].method = "orphan"
     /\ calls' = RemoveAt(calls, i)
     /\ IF delta = EmptyBodyDelta THEN UNCHANGED server ELSE AppendChange(delta)
     /\ UNCHANGED <<machine, document, pending, replies, connection, world,
                    errors, enabled, timers>>

OthersEdit ==
  /\ MayEdit
  /\ spent' = [spent EXCEPT !.others = @ + 1]
  /\ \E delta \in OthersEdits(texts[LastRev]) : AppendChange(delta)
  /\ UNCHANGED <<machine, document, pending, wire, asked, errors, enabled, timers>>

\* The next answer reaches the code that awaits it.
Receive ==
  LET call  == Head(replies).call
      event == Head(replies).event
  IN /\ replies # <<>>
     /\ replies' = Tail(replies)
     /\ IF event.name = "gotSnapshot"
        THEN GotSnapshot(event.snapshot)
        ELSE /\ queue' = Append(queue, event)
             /\ UNCHANGED <<state, busy, running, document>>
     /\ pendingChangeAfter' = (pendingChangeAfter /\ call.method # "getChangeAfter")
     /\ UNCHANGED <<server, pendingQuillAwait, calls, connection, world,
                    errors, enabled, timers>>

\* The calls at the server that await an answer.
Awaited == {i \in DOMAIN calls : calls[i].method # "orphan"}

\* An update whose caller gives up stays at the server.
Abandon(stay, call) ==
  IF call.method \in {"update", "orphan"}
  THEN Append(stay, [method |-> "orphan", revNum |-> call.revNum, delta |-> call.delta])
  ELSE stay

LeftBehind == FoldLeft(Abandon, <<>>, calls)

\* The server wants to close the connection: it answers what it has been asked
\* before it does.  While detached_start waits for its snapshot no other call is
\* made and no event handled, and the snapshot is answered all the same, so that
\* such an announcement is one that is made when the snapshot has come.
AnnounceClose ==
  /\ connection = "open" /\ busy # "starting"
  /\ MayTrouble
  /\ spent' = [spent EXCEPT !.troubles = @ + 1]
  /\ connection' = "closing"
  /\ UNCHANGED <<server, machine, document, pending, calls, replies, asked,
                 errors, enabled, timers>>

Close ==
  /\ connection = "closing" /\ Awaited = {} /\ replies = <<>>
  /\ connection' = "closed"
  /\ UNCHANGED <<server, machine, document, pending, calls, replies, world,
                 errors, enabled, timers>>

\* The connection drops: every call that awaits an answer fails.  Updates that
\* have reached the server stay there.
Disconnect ==
  LET failed == Cardinality(Awaited) + Len(replies)
  IN /\ connection # "closed" /\ MayTrouble
     /\ spent' = [spent EXCEPT !.troubles = @ + 1]
     /\ connection' = "closed"
     /\ calls' = LeftBehind
     /\ replies' = <<>>
     /\ queue' = queue \o [i \in 1..failed |-> Event("apiError")]
     /\ busy' = IF busy = "starting" THEN "nothing" ELSE busy
     /\ pendingChangeAfter' =
          (/\ pendingChangeAfter
           /\ \A i \in Awaited : calls[i].method # "getChangeAfter"
           /\ \A i \in DOMAIN replies : replies[i].call.method # "getChangeAfter")
     /\ UNCHANGED <<server, state, running, document, pendingQuillAwait, asked,
                    errors, enabled, timers>>

-----------------------------------------------------------------------------
(* The user, and the user of this class *)

UserEdit ==
  /\ enabled /\ spent.user < MaxUserEdits
  /\ spent' = [spent EXCEPT !.user = @ + 1]
  /\ \E delta \in UserEdits(editor) : Emit(chain, "user", delta)
  /\ UNCHANGED <<server, machine, snapshot, pending, wire, asked,
                 errors, enabled, timers>>

\* stop() and start() of the class.
Stop ==
  /\ asked = "start" /\ MayTrouble
  /\ spent' = [spent EXCEPT !.troubles = @ + 1]
  /\ asked' = "stop"
  /\ queue' = Append(queue, Event("stop"))
  /\ UNCHANGED <<server, state, busy, running, document, pending, wire,
                 errors, enabled, timers>>

Start ==
  /\ asked = "stop"
  /\ asked' = "start"
  /\ queue' = Append(queue, Event("start"))
  /\ UNCHANGED <<server, state, busy, running, document, pending, wire, spent,
                 errors, enabled, timers>>

Serve ==
  \E i \in 1..Len(calls) : ServeRead(i) \/ ServeUpdate(i) \/ ChangeAfterTimesOut(i)

Fire == \E i \in 1..Len(timers) : FireTimer(i)

FireOldest == timers # <<>> /\ FireTimer(1)

Next ==
  \/ Dispatch \/ NoticeQuillEvent \/ Fire
  \/ Serve \/ Receive
  \/ \E i \in 1..Len(calls) :
       UpdateFails(i) \/ ServeOrphan(i)
  \/ OthersEdit \/ AnnounceClose \/ Close \/ Disconnect
  \/ UserEdit \/ Stop \/ Start

Spec == Init /\ [][Next]_vars

CanDispatch == busy = "nothing" /\ queue # <<>>
CanNotice   == awaits # <<>> /\ Head(awaits).resolved
CanServe    ==
  \E i \in 1..Len(calls) :
    \/ calls[i].method \in {"getSnapshot", "update"}
    \/ /\ calls[i].method = "getChangeAfter"
       /\ \/ calls[i].revNum < LastRev \/ connection = "closing"
          \/ connection = "open" /\ MayTrouble

\* The event loop runs, the oldest timer fires, and the server answers what it
\* can.  Users and failures are free.  This is weak fairness of each action,
\* with what enables it written out: TLC would take very long to compute it.
Fairness ==
  /\ []<>(~ CanDispatch) \/ []<><<Dispatch>>_vars
  /\ []<>(~ CanNotice) \/ []<><<NoticeQuillEvent>>_vars
  /\ []<>(timers = <<>>) \/ []<><<FireOldest>>_vars
  /\ []<>(~ CanServe) \/ []<><<Serve>>_vars
  /\ []<>(replies = <<>>) \/ []<><<Receive>>_vars
  /\ WF_vars(Close)

FairSpec == Spec /\ Fairness

-----------------------------------------------------------------------------
(* Properties *)

\* What the client takes for a revision of the document is that revision,
\* whatever was merged on either side to get there; and on the way no event
\* comes in a state that has no handler for it, and no handler throws.
SnapshotAgrees ==
  /\ snapshot # NoSnapshot => snapshot.text = texts[snapshot.revNum]
  /\ \A i \in 1..Len(queue) : queue[i].name # "error"

\* The deltas of the updates whose outcome the machine has not yet handled.
InFlight ==
  LET sent == {i \in DOMAIN calls : calls[i].method = "update"}
      underWay == {i \in DOMAIN replies : replies[i].call.method = "update"}
      answered == {i \in DOMAIN queue : queue[i].name = "gotUpdate"}
  IN {calls[i].delta : i \in sent} \cup {replies[i].call.delta : i \in underWay}
       \cup {queue[i].delta : i \in answered}

\* A text as an event of the chain leaves it, if the user made it; what the
\* client made is in the text already.
TypedOnto(text, event) == IF IsOurs(event) THEN text ELSE ComposeBody(text, event.delta)

Typed(text) == FoldLeft(TypedOnto, text, chain)

\* While the client follows the document, the editor shows the snapshot with
\* the update in flight and what the user has typed since, and nothing else:
\* no correction from the server overwrites what is typed as it arrives.
EditorInSync ==
  /\ state \in {"idle", "collecting"} => InFlight = {} /\ editor = Typed(snapshot.text)
  /\ state = "merging" =>
       \A delta \in InFlight : editor = Typed(ComposeBody(snapshot.text, delta))

\* The client was stopped, or has given up after too many errors.
AtRest == state = "detached" /\ (~ running \/ errors > ErrorsTolerated)

\* When nobody types any more, the editor comes to show the last revision
\* and stays so, unless the client is at rest.
Converges == <>[](AtRest \/ (editor = texts[LastRev] /\ chain = <<>>))

=============================================================================
