# Bayou in TLA+

Models, model-checking runs and proofs for Bayou, a server and browser client
for collaborative editing of documents. The reference is the source code under
`local-modules/@bayou/`; paths below are relative to that directory. All the
modules are plain TLA+; `PROJECT.json` lists the runs, the mutants that show
that each property can fail, and for every definition the lines it models.

## 1. The system

A document lives in one *file*: an append-only sequence of file changes, each
of which writes or deletes paths. Three document *parts* share the file: the
body (rich text), the properties (name/value pairs) and the carets (who edits
where). Each part has a *control* on the server, which keeps in the file, under
paths of its own, a revision number, one change per revision and now and then a
stored snapshot. A client sends a change together with the revision it is based
on; the control rebases it onto the current revision, appends it, and answers
with a correction that takes the client from what it expected to what there is.

Everything runs on one event loop, in the server and in the browser: two steps
interleave exactly where the code says `await` (or registers a callback).

### Components

| component | state | operations | interacts by | hard behaviour | what makes it correct |
|---|---|---|---|---|---|
| update protocol, `doc-server/BaseControl.js` | in the file: revision number, changes, stored snapshot per part | `update`, `appendChange`, `getSnapshot`, `getChangeAfter`, `_maybeWriteStoredSnapshot` | appends to the shared file; calls `_impl_rebase` of its subclass | several calls and parts race for one revision number of the file; retry after a lost race; timeout after the append; background writes | no gap and no rewrite in a log, a change applied at most once, the answer's correction right, linearizable, no livelock |
| body data, `doc-common/BodyDelta.js`, `doc-server/BodyControl.js` | none | `compose`, `diff`, `transform`, `_impl_rebase` | called by the update protocol | rebased edits that no longer fit the text | each accepted revision can be served; nobody's insertion is lost |
| property data, `doc-common/PropertyDelta.js`, `doc-server/PropertyControl.js` | none | `compose`, `diff`, `_impl_rebase` | as above | rebase by composing and diffing, may become empty | answers of the update protocol are right |
| carets, `doc-server/CaretControl.js`, `EphemeralControl.js`, `doc-client/CaretTracker.js`, `doc-ui/CaretState.js`, `CaretOverlay.js` | as a control, but old changes are erased; at the client the last position and what is drawn | `changeForNewCaret`, `changeForUpdate`, idle removal, `getDiff`, upload and watch loops | update protocol, timers | removal of an idle caret races its revival; changes age out while read; restarts; two loops that call each other's results | a caret is removed only if idle; what one holds of a revision is true; who watches sees the last position |
| snapshot cache, `doc-server/SnapshotManager.js` | promises by revision number | `getSnapshot`, `clear` | reads through the control | promises cached before they settle | a cached snapshot is what the log composes to |
| initialization, `doc-server/FileBootstrap.js`, `SchemaHandler.js` | the file | `ensureReadyToUse`, validation | creates the file, first appends | crash between the steps; updates meanwhile | whoever gets a document finds it initialized; edits are never cleared |
| document server and complex, `doc-server/DocServer.js`, `DocComplex.js`, `SessionCache.js` | weakly held complexes and sessions | `getDocComplex`, `findExistingSession`, `makeNewSession` | caches, file, carets | asynchronous making, collection, calls left over from a lost connection | one complex per document, one session per caret |
| local file, `file-store-local/LocalFile.js` | changes in memory, set of blobs to write, dirty flag, condition, directory on disk | `create`, `delete`, `appendChange`, `flush`, `whenPathIsNot` | timer, writer mutex, disk | append while a flush is writing; crash in the middle; waiting readers | nothing forgotten, flushed data survives, no lost wake-up |
| file store and weak cache, `file-store`, `weak-lru-cache` | objects by identity, weak and strong | `getFile`, `resolveOrAdd`, `add` | constructors that are asynchronous | collection during construction; late callbacks; rejections that age out | one live object per identity |
| file algebra, `file-store-ot` | none | compose, diff of file operations | called by the file | deletes of everything, of a prefix or a range meet single writes | composition equals successive application |
| body client, `doc-client/BodyClient.js` on `state-machine/StateMachine.js` | state name, server's snapshot, pending editor events, session | events `gotQuillEvent`, `gotUpdate`, `gotChangeAfter`, `apiError`, `start`, `stop` | API calls to the update protocol, events of the Quill editor | answers that come late, typing while a request is under way, connection loss | the client's snapshot is the server's at the same revision; once all is quiet, the editor shows it |
| client session, `doc-client/DocSession.js`, `api-client/ApiClient.js` | API client, promise of the session proxy; calls under way, targets | `getSessionProxy`, calls, answers | websocket | several callers while the connection opens, breaks or closes | a caller that asks again gets a session on a good connection |
| page and title, `top-client/TopControl.js`, `doc-ui/EditorComplex.js`, `TitleClient.js`, `doc-client/PropertyClient.js` | sessions one after the other; title field; push under way | start, recover, `_syncLoop`, `set`, `getUpdate` | property client, Quill | updates race with the focus; the loop of an old session lives on | pages agree; what is typed arrives |
| API server, `api-server` | targets, tokens, calls under way, log of calls | `handleMessage`, authorization, `close` | the connection; the authorizer | concurrent first calls with a token; closing with calls under way | a call reaches the object it names and is answered |
| server application, `app-setup`, `top-server`, `env-server` | connections, load, traffic signal; process files | routes, polling, shutdown | clock, proxy, operator, other starts on the machine | shutdown with calls under way; two starts; held and forced signals | shutdown ends and cuts nobody off; files tell the truth; load alone never keeps the signal red |
| promise utilities, `promise-util` | lock holder and queue; condition value and waiters; chain of events | `lock`, `unlock`, `whenTrue`, `call`, `emit` | used by `LocalFile`, `BodyClient`, ... | a caller that arrives between release and take-over | nobody waits for ever; no event is missed |
| logging, `see-all*` | recent log, widths, time since the last line | `log` | sinks | clock set back; layout edges | each line can be dated; text is whole |
| values, `codec`, `typecheck`, `util-*`, `ot-common`, `api-common`, `proppy` | none | conversions, checks | everywhere | numeric and structural edges | what is encoded comes back; checks accept what they say |
| development and tests, `dev-mode`, `testing-*`, `client-bundle` | output directory, watchers; results | copy, exit, collect | file system, Mocha, webpack | overlaid directories; events that come late | the output follows the sources; reports are true |
| `config-*`, `doc-*-default`, HTML export, other user interface | - | - | - | - | - |

`PROJECT.json` repeats the list with the status of each ("components"), and
names under "hazards" each place where the code can go wrong in a way a test
would hardly reach, with the properties that would notice.

## 2. The modules

| module | what it is |
|---|---|
| **Documents on the server** | |
| `BaseControl` | the update protocol: concurrent calls of `update()` on the parts of one file, stored snapshots, timeouts; the data algebra is a parameter |
| `DocLog` | what the update protocol promises: one log per part, to which a call is applied at one instant or not at all |
| `PropertyDelta`, `BodyDelta` | the algebra and rebase of properties and of texts (whose laws are in `BodyProofs`) |
| `MCPropertyControl`, `MCBodyControl` | `BaseControl` over either algebra, for TLC |
| `BaseControlProofs` | proofs about `BaseControl`: its inductive invariant, what calls are answered, that it implements `DocLog`, what can be read back |
| `CaretDelta`, `CaretColor` | the algebra of carets; the choice of a hue |
| `CaretControl` | the caret part on the server, with `SnapshotManager` and erased changes |
| `Carets` | `CaretControl` composed with the clients that move carets and the one that watches |
| `CaretsProofs` | proofs about `Carets`, and the laws of the algebra of carets |
| `WeakCache` | the entries of a `BaseCache` |
| `Documents` | opening a document: the caches, `FileBootstrap`, collection, failures, crashes |
| `DocumentsProofs` | proofs about `Documents` |
| `LocalFile` | one file of the local store, through flushes, waits and crashes |
| `LocalFileProofs` | proofs about `LocalFile` |
| **Client and connection** | |
| `BodyClient`, `MCBodyClient` | the editor's side of the body: a state machine, Quill, the wire, and a server that is the log of `DocLog` |
| `BodyProofs` | the laws of the algebra of texts, and proofs about `BodyClient` and about `BaseControl` over texts |
| `SessionServer` | the server's side of connections and of editing sessions |
| `Sessions` | `SessionServer` composed with `DocSession` and `ApiClient` |
| `SessionsProofs` | proofs about `Sessions` |
| `Connection` | one connection of the API server: targets, tokens, concurrent calls, closing |
| `Page` | pages that edit one title, and recover |
| **Processes and utilities** | |
| `ServerProcess` | starts of the program, control files, shutdown |
| `TrafficSignal` | load factor, traffic signal, polling |
| `Mutex`, `CallPiler`, `EventChain` | `promise-util` |
| `DevMode` | development mode |
| `MachineProofs` | proofs about `ServerProcess`, `Connection`, `CallPiler`, `TrafficSignal`, `DevMode` |
| `MCMachines` | `TrafficSignal`, `Page`, `Connection`, `Mutex`, `CallPiler`, `EventChain`, `DevMode` side by side, for TLC |
| `TestRun` | a run of the tests |
| **Values, as operators** | |
| `FileAlgebra` | file operations, deltas, snapshots, paths |
| `Data`, `Codec` | data values; their encoding |
| `DocOps` | the ops of the three parts, their order, and Quill's form of them |
| `OtCommon`, `Checks`, `Objects` | timestamps and revision numbers; argument checks; objects, errors and bytes |
| `Logging` | log records, their text, redaction and layout; and the sinks of the log, as a state machine |
| `StartUp` | options, actions, bundles, property files |
| `MCLaws` | laws about all of these, for TLC, together with `Logging` and `TestRun` |
| `Inductions` | induction over numbers, and what a fold gives, for the proofs |

`Data`, `Codec`, `Logging`, `Objects`, `StartUp` and so `MCLaws` use RECURSIVE
operators, because their values are trees; they are checked and not proved about.

### BaseControl and the code

Variables: `fileRev` is the file's revision number; `revNum[p]`, `changes[p]`
and `stored[p]` are what the paths of part `p` hold (`Paths.js`);
`snapshots[p][r]` is what `getSnapshot(r)` computes from them, `BadValue` if it
throws, kept as a history so that properties can speak of it; `call[c]` holds
the local variables of one call of `update()` and where it is; `saves` is a bag
of running `_maybeWriteStoredSnapshot()` calls.

| action | code |
|---|---|
| `Submit` | `update()` up to its loop: checks of the change, base snapshot, expected snapshot |
| `AttemptUpdate` | `_attemptUpdate()` up to `appendChange()`: current snapshot, rebase, empty change |
| `CheckPrerequisites` | `appendChange()` up to `file.appendChange()`: file snapshot and its checks |
| `AppendWon`, `AppendLost` | `file.appendChange()`, the answer of `appendChange()`, the start of `_maybeWriteStoredSnapshot()` (which runs for a lost race too), the retry |
| `MakeCorrection` | the rest of `_attemptUpdate()` |
| `TimeOut` | the timeouts of the file operations and of the loop |
| `StartSave`, `WriteStoredSnapshot` | `_maybeWriteStoredSnapshot()` and `_writeStoredSnapshot()` |

Abstractions. The author and timestamp of a change are represented by the call
that made it. The reads that `_attemptUpdate()` makes one after the other
(current revision, base snapshot, changes in between) are one step: all but the
first are of revisions that exist already, and those never change
(`HistoryOnlyGrows`, proved). Sleep times are left out: a call that slept may
be scheduled at any moment. A snapshot is computed from the log and not from
the stored snapshot: `stored` matters for the races it causes.

The data algebra enters through `Contents`, `Compose`, `Diff`, `Rebase`. The
proofs assume of it that composing the empty delta changes nothing
(`EmptyAssumption`) and that a diff leads from its first argument to its second
(`DiffAssumption`); nothing at all is assumed of `Rebase`, which may return
deltas that do not fit. `PropertyDelta` and `BodyDelta` are two instances, on
which TLC evaluates the assumptions.

### CaretControl, Carets and the code

Here reading is the hard part: a stored snapshot is written and the changes
before it are erased in one append (`WriteStoredSnapshot`, `DeleteBefore`), and
a revision can be had only from what is left or from `cache`, the promises of
`SnapshotManager`. A call is at `pc` in one of the methods of `CaretControl`;
`Ask` is the entry of `getSnapshot()` (which may start the removal of idle
carets), `Retrieve` and `MakeSnapshot0` are the manager's two first reads, with
calls that come between them, `MakeSnapshot`, `FailSnapshot` and `FailRetrieval`
its promises, `CaretUpdate`, `Introduce` and `Prepare` make the
change, `Attempt` rebases it and `AppendChange` or `LoseRace` end it.
`RemoveIdle` is what `_removeIdleCarets()` does once it has its snapshot.
`Restart` loses memory. In `Carets` each client has the `_latestCaret` and
`_updating` of its `CaretTracker` (`Move`, `Send`, `Sent`, `StopTracking`), and
one watches: `AskSnapshot`, `AskChangeAfter`, `AskDiff` and `Receive` are the
loop of `CaretState`, `OnCaretChange` and `OnLocalEdit` those of `CaretOverlay`.
Abstractions: a caret has a position and a time of last activity; the races of
an append with other parts of the file are left to `BaseControl`. The manager's
reads of changes for one snapshot are one step, at the end of which its promise
is settled. A call that finds the cache empty waits for both first reads in the
code; in the model it may go on after the first, as a call that comes in between
does, and so it may be refused a revision that it would have got. If there is no
stored snapshot the two are one step, which nobody can look into, as the cache is
empty until the second. Only the read of the stored snapshot fails
(`FailRetrieval`), not that of change 0 after it. `Restart` keeps the whole
file: what a crash takes of a file that was not yet flushed is modelled in
`LocalFile`, and what comes of it for a document in `Documents`.

### Documents and the code

`complex[c].phase` goes through the awaits of `DocServer`'s constructor
function and of `FileBootstrap.init()`: asking the store for the document's
information, getting the file, validating it, creating it, appending the
initial operations, writing the first text. `CheckSchema` looks at the schema;
then each part is validated by `StartValidation`, which reads its revision
number, and `EndValidation`, which lists the changes past it, and the file may
change in between. `CreateFile` reads the revision number for
`AppendInitOps`, whose append may be beaten by another; the code does not look.
`complexEntry` and `fileEntry` are the entries of the two `BaseCache`s
(`WeakCache`), `recent` what these keep alive. `Collect` takes an object that
nobody holds, `Reap` is the late callback, `Age` the aging of a rejection.
`Flush` brings the file to disk and `Crash` goes back to what the disk has.

Updates land in the file at any time (`StartUpdate`, `LandUpdate`, `GiveUp`).
`body_update()` uses its session after its await and so keeps the complex
(`Held`). `property_update()` and `caret_update()` return the promise of their
control, which has the file and not the complex, and so has the write of a
stored snapshot that `BaseControl.appendChange()` starts and does not await
(`LandStoredSnapshot`): these may go on when nobody holds the complex any more,
and land while another complex is made for the file.

Abstractions. The carets and the properties are one part, `rest`, of which the
number of changes counts. They are validated alike and one after the other, and
a change of the one while the other is looked at is as good as one before either
is. The removal of idle carets is an update of them. Left out: that a stored
snapshot of carets erases changes, which are those of more than a hundred
revisions before it, so that a validation meets them only where the stored
snapshot before that was not written; and a stored snapshot written behind the
maker's own first text.

### LocalFile and the code

Variables carry the code's names without the underscore. `timers` counts the
`_storageNeedsFlush()` blocks that sleep or wait for the mutex, `running` is
the flush that holds it, `disk` and `directory` are the file system. Actions:
`Read`, `Create`, `Delete`, `CallAppend`/`Append` (before and after the await),
`CallFlush`, `StartFlush`, `MakeDirectory`, `WriteBlob`, `EndWrite`
(`_writeStorage()`), `CheckDirectory`, `RemoveBlob`, `RemoveDirectory`,
`EndDelete` (`_deleteStorage()`), `CallWait`, `Look`, `Check`, `TimeOut`
(`whenPathIsNot()`), `Crash`.

Abstractions. Writing one blob is atomic; the blobs of a flush get written in
any order, as `Promise.all` allows. Writes do not fail (the code has no
handling: a TODO). The mutex excludes, which a caller in the instant between a
release and the resumption of the waiter could break (`Mutex`); that instant is
left out here. Operations start after the storage has been read. A waiter's path
is a set of changes that touch it. With `CarefulCallers`, nobody creates a file
anew after deleting it, nor flushes one that does not exist; nothing under
`doc-server` does either. `ModificationsWake` is about waiters that sleep: a
change between a waiter's look and its sleep goes past it (known issue 13).

### BodyClient and the code

`state` and `queue` are `StateMachine`'s; `busy` says what the handler in
progress awaits (only `detached_start` and `idle_wantInputAfterDelay` await
anything), and no other event is handled until it ends. There is one action per
handler, named for it (`any_apiError` is `ApiError`, `merging_gotUpdate` is
`GotUpdate`, ...); `Ignore` stands for the empty handlers and `errorWait_any`,
`Unexpected` for `any_any`. An exception in a handler becomes an `error` event
(`Throw`). `chain` is what lies after `_currentEvent` on Quill's event chain,
`awaits` the blocks that await its next event (`NoticeQuillEvent` resumes one),
`timers` the pending `Delay`s: of two, the one set first fires first unless it
is the longer one. A timer of the same length fires in order, as in a browser.

The server is one log: `ServeUpdate` does at one instant what `update()` does,
which is what `Linearizable` proves of `BaseControl`, with `BodyControl`'s
rebase and correction. `ServeRead` answers the last revision, and
`getChangeAfter()` waits for one. Calls are carried out in any order and
answers arrive in the order they were given. The connection drops
(`Disconnect`: what awaits an answer fails, updates that have reached the
server take effect later or never: `ServeOrphan`), or the server announces that
it closes (`AnnounceClose`): then calls fail though the client takes the
connection for open. `UpdateFails` is an update that is answered with an error,
before or after it took effect.

Abstractions. `getLogInfo()` and `body_getSnapshot()`, awaited one after the
other, are one call. `_validateSnapshot()` is left out of `GotSnapshot` and of
the merges: it throws for a text without a newline at its end, which no revision
has as long as the users leave that newline alone (below; `TextsAreDocuments` in
the proofs, and `body_control` for the server's side). `AnnounceClose` does not
happen while `detached_start` waits for its snapshot: until that comes, no other
call is made and no event handled, and the server answers what it was asked, so
that an announcement in that time is one that comes right after the snapshot.
A connection that drops in that time is in the model. Errors count as unrecoverable from the
`ErrorsTolerated + 1`st on; the code wants a rate over three minutes and a
minimal duration, so that eight errors are always tolerated. Caret events, undo,
`detach()` and a second client on one Quill are left out. The users leave the
last newline alone, as Quill does, and each character is typed once, so that
texts can be told apart. In `MCBodyClient.cfg` the others only insert
(`OthersDelete = FALSE`); with `TRUE`, `SnapshotAgrees` fails: it is the second
of the known issues below, seen from the client, whose comment
(BodyClient.js:1038-1043) takes the empty correction for "no other client got
in front of us".

### SessionServer, Sessions and the code

`Sessions` has the client's side (`DocSession`, `ApiClient`) and composes it
with `SessionServer`. `fetch[f]` is one run of `_fetchSessionProxy()` and the
call of the API it waits for; `promise` is `_sessionProxyPromise`, `api[n]` the
`ApiClient` of connection `n`. `getSessionProxy`, `Opened`, `Check` and
`Fetched` are `DocSession`'s, `Connect`, `HandleTermination`, `Continue` and
`Reply` are the client's events. On the server `work[w]` is a call under way,
from `Receive` over `Authorize`, `Act`, `Look`, `FindCaret`, `ReadCarets` and
`AppendCaret` to its answer; `Activate` makes the session and puts it in the
cache, or fails if a living one is there. `BeginClose` and `EndClose` are
`WsConnection`'s, `Collect` and `Reap` the cache's. A call that a broken
connection left behind runs on. Carets may be removed as idle and the author's
permission may change. Abstractions: one document and one author; all calls of
the API but those that find, make and describe sessions are left out.

### The smaller machines and the code

* `Connection`: each message is `Receive`d, waits in `Authorize` for its
  target (by token, or by ID), is `Act`ed on, and `Return`s. `targets` and
  `remotes` are the two maps of `Context`, `pending` is `ApiLog`'s, `mint` and
  `drawn` are `TokenMint`'s, whose sequence of numbers wraps (`Width`).
* `Page`: `loop[p][k]` is `TitleClient._syncLoop()` of the `k`th session of
  page `p`, `push` a `PropertyClient.set()` under way; `Tell`, `Answer`,
  `ReadToPush`, `Land`, `PushFails` and `UpdateFails` are its steps, `Focus`,
  `Type`, `Leave`, `Enter` the user's.
* `TrafficSignal`: times are what is left until the moments that the code keeps.
  `StartPoll` and `FinishPoll` are the loop of `Application`, `Ask` is
  `/traffic-signal`.
* `ServerProcess`: `Boot`, `InitEnv`, `Checked`, `Listen` are the start of one
  process; `BeginShutdown`, `PromisesKept`, `PauseOver`, `ShutdownTimesOut` are
  `ShutdownManager`'s steps; `Uncaught`, `HandleSignal`, `Kill` the other ways
  to end; `Accept`, `Respond`, `SocketCloses` what clients do, and
  `PlaceShutdownFile`, `ClearControlFiles` what the operator does.
* `Mutex`, `CallPiler`, `EventChain`: one action per method, with the moment
  between the settling of a promise and the callback as a state of its own.
* `DevMode`: `Edit` is somebody's change of a source file, `Handle` the
  watcher's event about it, which may come late and for several edits at once.
* `Logging`: `Log` is one record on its way through `AllSinks` to every sink.
* `TestRun`: Mocha's events, the reporter, the console of a browser between it
  and the collector, which is read now and then.

### The laws and the code

`FileAlgebra`, `Codec`, `DocOps` and the others say what a method returns for
given arguments, an error being a value of its own. A state of `MCLaws` is one
question: arguments taken from bounded sets that hold every kind of them (each
op, each class, each kind of value, empty and missing ones, both sides of each
bound). The laws compare the operators with a reference: composed deltas with
ops performed one by one, what is decoded with what was encoded, a range check
with a number and with its neighbours, op lists with the map they stand for.

## 3. The runs

| run | question | bounds |
|---|---|---|
| `property_control` | do races, retries, timeouts and stored snapshots leave the logs whole and linearizable, and does every call return? | 3 calls, 2 parts, 2 names |
| `body_control` | can every revision be served, and is every insertion kept? | 3 calls on a text of one line |
| `carets` | is what anybody holds of a revision true, do only idle carets go, and does the watcher see every move? | 2 carets, 4 revisions, a snapshot at every revision, 1 move, 1 failure or restart, 2 ticks |
| `documents` | is there one complex and one file at a time, always initialized, and when are edits cleared? | 2 requests, 1 update with its stored snapshot, 2 complexes, 2 files, 3 changes, 1 failure, 2 crashes |
| `local_file` | is anything forgotten between memory and disk? | 2 appends, 1 flush, 1 waiter, 1 crash, 1 deletion |
| `body_client` | do corrections and typing merge at any moment? | 3 edits of the user, 1 of others; symmetric |
| `body_client_converges` | does the editor come to show the document, and is it in between never wrong for good? | 1 edit each, 2 failures, timeouts or stops |
| `sessions` | is there one session per caret, does it last, and is no call cut off? | 2 callers, 2 connections, 3 sessions, 3 fetches, 2 calls at the server, 1 fault |
| `sessions_reconnect` | does a caller get a session in the end? | 1 caller, 3 connections (2 of them break or close), 1 fault |
| `server_process` | does a shutdown end and cut nobody off, do the files tell the truth? | 2 starts, 1 connection, 1 uncaught error |
| `machines` | traffic signal, title, API connection, promises, development mode | 3 loads, steps of 20 and 60 s; 2 pages, 2 sessions, 2 happenings; 3 calls, 2 authors; 3 lockers; 4 events; 2 layers, 2 edits |
| `laws` | is what has no state right? | all the questions of `MCLaws`; 5 log lines; 2 tests in 2 suites |

Why the bounds are enough. Three calls are the least with which one call can
lose to another after having been rebased onto a third, on the same or on
different parts; two parts are the least that contend for a file without
contending for a revision; with a snapshot stored at every second revision
(the code: every hundredth) three calls cause several stores that race the
calls and each other. Each call is made at most once, which bounds the log.
In `carets` a snapshot at every revision makes every read reach back past it;
four revisions let a caret come, move, go idle and come again. In `documents`
two complexes and two files are the least of which one is dead and unreaped and
another is being made; two requests are the least that race for one, and that
open the document again while the first is in use. One update, which may leave
the write of a stored snapshot behind, is enough for something to land at every
await of the maker: TLC finds a lost race of `AppendInitOps`, a second text of
initialization after it, and an edit that is cleared, if the exceptions for these
are taken out of the properties. Three changes are an edit that is lost, the
change that passes the validation, and one more; with two crashes an
initialization is cut short twice, and the second start is of a half-made one.
The proofs take any number of everything. In `LocalFile` two appends are the least that can be written
out of order, so that a crash leaves a hole; one flush besides the timer's is
the least that competes for the mutex. In `BodyClient` three edits of the user
are the least that reach the hard case of `merging_gotUpdate` (one is in flight,
one is typed meanwhile) and type on while the rebased edit is collected; one
edit of the others makes one correction. A second correction in a row is not
reached. Two failures are the least after which the client gives up
(`ErrorsTolerated = 1`), or an old answer, timer or update meets the next start.
In `sessions` two connections let the calls of the first run on beside those of
the second. Three lockers are the least of which one barges between two. The
mint's sequence has width 2 so that it wraps.

Deadlock is not checked: in every model all calls may have ended, users rest and
bounded failures are used up. In `ServerProcess` every process may have ended.

Fairness. The event loop runs every callback whose promise is settled, timers
fire, and the code's own waits have timeouts; that much is assumed, and nothing
else. `BaseControl`: every step of a call that does not wait for a client or a
clock, and the background writes; nothing is assumed of races, sleeps and
timeouts. `LocalFile`: the flush, calls under way, waiters that have something
to do. `CaretControl` and `Carets`: calls, the manager's promises, the cleaner,
saves, and the two loops of the clients. `Documents`: the making of a complex.
`Sessions`: promises, the network, the server's work, late callbacks of the
collector, and that a part of the editor asks again, as its loops do; the last
connection does not break. `ServerProcess`: the timers of the shutdown only.
`TrafficSignal`: time passes and the loop runs. `Page`: calls are answered,
each loop's and each push on its own. `Mutex`, `EventChain`: callbacks, and that
what is done under the lock ends. `BodyClient`: the event loop dispatches,
promises resume, the oldest timer fires, the server answers what it can, answers
arrive and a closing connection closes; users, others and failures are free.
Its fairness conditions are written out with explicit guards instead of
`WF_vars`, as TLC takes very long to compute `ENABLED` of actions that merge
texts; the guards were compared with `ENABLED` by TLC on a small instance.

### What the properties say

* `ChangesContiguous`, `CallsInOrder`, `HistoryOnlyGrows`: the logs have no gap
  and are never rewritten; what a call holds of the past stays true; a change
  that is about to be appended was made for the place it gets, or else the file
  has moved and the append is refused.
* `AppliedOnce`, `AppendedCorrectionYieldsResult`: a change is in the log at
  most once, at the revision that was answered, and the correction leads there.
* `ImplementsLog`: the calls are linearizable (see `DocLog`).
* `EveryCallReturns`: no livelock, between calls or with stored snapshots.
* `AlwaysServable`, `IntentionsPreserved`: the rebase of texts.
* `SnapshotsTrue`: what the cache, the file, a save, or the watching client holds
  as the contents of a revision are those contents, however changes were erased,
  memory lost, and diffs made; and the screen shows it. `OnlyIdleCaretsGo`: a
  removal that was decided on an old snapshot never takes a caret that moved.
  `MovesSeen`: neither loop stops, unless a failed read poisoned the cache.
* `OneComplex`: two requests, collection, late callbacks and aging rejections
  never make two complexes or files for one document. `ServedWhole`: whatever
  crashed or failed when, and whatever landed during the validation, a document
  that is served is initialized, and has no second text of initialization unless
  the append that was to clear it lost a race. `EditsStay`: what users wrote in
  the body is cleared in one case only, when a caret or a property changed while
  the maker validated that part; and by a crash. `EveryRequestEnds`.
* `NothingForgotten`, `FlushSettles`, `AppendedReachesDisk`,
  `ModificationsWake`: memory and disk of a file.
* `SnapshotAgrees`: what the client takes for a revision is that revision,
  whichever way it was merged. `EditorInSync`: the editor shows that, plus the
  update in flight, plus what was typed since: the merge neither loses nor
  doubles a keystroke. `Converges`: no lost event leaves the client deaf.
* `OneSession`, `GivenIsKept`, `NothingCutOff` (`Sessions`), `Reconnects`: see
  the runs. `Reconnects` excepts a living session with another permission, which
  refuses every new one (known issue).
* `ControlFilesTrue`, `NothingCutOff` (`ServerProcess`), `ShutdownEnds`.
* `SignalHolds`, `TitlesKept`, `CallsReachTheirObject`, `PromisesKept`,
  `OutputFollows` (`MCMachines`): each is the conjunction of what the modules of
  the same machine state.
* `FileLaws`, `DataLaws`, `BoundLaws`, `LogLaws`, `OpLaws` (`MCLaws`): each is
  the conjunction of the laws of one field, named and commented one by one.

### Known issues

What modelling found out about the code. The properties leave these cases out,
as their comments say, or hold in spite of them.

Update protocol and body
1. A change that becomes empty when rebased is answered with the *current*
   revision number and an empty delta (BaseControl.js:1034). If other changes
   came in, the documented contract of `update()` (BaseControl.js:656-658)
   fails: the client is told to be at a revision whose contents it does not have.
2. The rebase of `BodyControl` (BodyControl.js:105) may drop the newline at the
   end of a text, after which no snapshot can be made any more. The editor keeps
   that newline; `body_control` shows that clients which do so are safe, but the
   server neither checks nor repairs it.
3. A delayed write of an older stored snapshot can replace a newer one
   (BaseControl.js:1241), also when the newer one erased changes.
4. `getComposedChanges()` and `getChangeAfter()` throw `badUse` where the docs
   promise `revisionNotAvailable`.

Carets and snapshots
5. A rejected promise stays in `SnapshotManager` until `clear()`: one failed
   read makes a revision fail for good. A failed first `getSnapshot()` of
   `_removeIdleCarets()` is an unhandled rejection.
6. After a failed update `CaretTracker` keeps `_updating` set (about line 106):
   no caret is sent any more.
7. Composing a delta [delete, setField] that was never normalized with a
   document throws (`CaretDelta`).

Documents, sessions, caches
8. A crash between the append of the initial operations and that of the first
   text leaves a document without first text for ever (FileBootstrap.js:249).
9. A change that is added while a document is validated counts as an extra
   change past the revision number (BaseControl.js:979-994, with a TODO), and
   the document is taken for a corrupt one and initialized anew, though the
   status stands for data that cannot be interpreted (ValidationStatus.js:15);
   it is the exception that `EditsStay` makes. It gets there because
   updates of carets and properties do not keep their session, and the complex
   can be collected and made again meanwhile (EditSession.js:84-94). What users
   wrote in the body is gone then. If the change comes later, between
   `currentRevNum()` and the append (FileBootstrap.js:242-244), or a stored
   snapshot does, the append loses its race unnoticed and the first text is put
   on top of what is there.
10. Looking up a dead weak reference in a `BaseCache` throws 'Weird cache
    entry.' where null is promised (BaseCache.js:126-129).
11. After a change of the author's permission `findExistingSession()` means to
    make a new session (DocComplex.js:154-160), but `_sessions.add()` throws as
    long as the old one lives: no session can be had for that caret.
12. `AuthorAccess` swallows errors other than `badId` and then fails on
    `undefined`.

Local file
13. `whenPathIsNot()` awaits a snapshot and clears the condition afterwards
    (LocalFile.js:384): a change in between is overlooked.
14. A deletion, at its end, resets the state of a file that was created again in
    the meantime (LocalFile.js:440); dirty paths stay after a deletion (248);
    flushing a file that was never read removes it (470).
15. A crash in the middle of a flush may leave a hole, after which the file
    cannot be read (616).

Client
16. `detached_start` ends with a `start` for the next state: if `stop()` came
    while it waited, the client starts again (BodyClient.js:828). `errorWait`
    ignores `stop` (618).
17. `ApiClient._resetConnection()` leaves `_serverClosing` set; `isOpen()` is
    true of a connection that refuses every call; `PropertyClient` keeps its
    first proxy (PropertyClient.js:38), and so the connection it was made for.
18. `TitleClient`: typing and leaving during a push loses the edit; an update
    that arrives is pushed back and may overwrite a newer title (133-135); after
    a recovery the old loop lives on; an error other than a timeout ends the
    loop silently.

API server, processes
19. Two concurrent first calls with one token: the second throws for a duplicate
    target (Context.js:358). A response that cannot be encoded is never answered
    and closes the connection (BaseConnection.js:387). Messages beyond the
    hundredth are ignored while a connection closes. Token numbers wrap at 2^32.
20. Two starts that overlap overwrite or erase each other's `pid.txt`; `BootInfo`
    counts an end twice, or loses an update. A start that was aborted counts as
    a shutdown by error.
21. `LoadFactor` keeps an old rough size when the sum is 0; `/traffic-signal`
    fails when the clock goes back.

Utilities
22. `Mutex.unlock()` frees the lock before the waiter resumes: two holders, and
    an unlock that throws. `CallPiler`: a call between the settling of a run and
    its clean-up gets the old result.
23. `DevMode` ignores the removal of a file above another; removals before the
    watcher is ready are missed.
24. `FrozenBuffer.isHash()` accepts longer texts (64); `TNumber.range()` lets
    NaN pass; `BaseOp.isValidName()` never finds an empty name; an error that is
    its own `cause` makes `fullTraceLines()` endless; JSON turns NaN and infinity
    into null; `BaseChange.roughSize` reads a field that does not exist.
25. `ClientBundle._handleCompilation()` reads the compilation before it checks
    for an error, so that a fatal error never settles `build()`; `Options`
    documents `--prog-name` and nobody uses it; `Dirs` throws away its own error
    when a file is in the way; pending tests and failing hooks are reported with
    the console lines of the test before (BaseReporter.js:30).

## 4. The proofs

They hold for every value of the constants that satisfies the assumptions the
modules name: for any numbers of parts, calls, documents, connections,
processes or carets, of revisions, crashes and failures. The bounds of TLC's
runs are constants too, and none is assumed to be small. Each component has its
proofs in a module of its own, but for the smaller machines and the server
process, which share `MachineProofs`: an inductive invariant `IInv` as a conjunction
of named parts, one lemma per action (`...Keeps`), and the properties from it.
TLC has checked each `IInv` on the instance of the component's run, as an
invariant, before it was proved.

**`BaseControlProofs`** (any data algebra that satisfies the assumptions named
in `BaseControl`).

* `Invariance`: `IInv == TypeOK /\ ChangesContiguous /\ CallsInOrder` is an
  inductive invariant. Contiguity alone is not inductive: that the winner of the
  race appends *next* needs `CallsInOrder`, whose third conjunct says that if
  the file has not moved since the prerequisites were checked, neither has the
  part. That in turn needs every write to a log to advance the file, and what
  calls remember to stay true as logs grow (`ExpectedStable`, `RebasedStable`,
  `OthersStayInOrder`). The winner's step is the only one that touches a log
  (`WinnerExtendsLog`, `OnlyWinnersWrite`). `TypeCorrectness`, `Contiguity`,
  `Order`, `History` follow.
* `Once` and `Corrections` come from a second invariant, `AllAnswered`, relative
  to the first: how many changes a call has made at each of its stages, and that
  a right answer stays right. `Corrections` is where `DiffAssumption` and
  `EmptyAssumption` are needed.
* `Linearizable`: every step of `BaseControl` is, seen through `Asked`, `Status`
  and `Answer`, a step of `DocLog` or a stutter. A call takes effect where the
  append is won; an empty rebased change where it is found to be empty.
* `AlwaysServed`: every revision can be read. `appendChange()` does not look at
  what it stores, so this rests on the algebra: `RebaseFits` asks for a kind of
  *good* changes, those that clients send, such that what a client sends is, when
  it is rebased onto good changes, good for what these lead to. The invariant is
  that all changes in the log are good and lead from revision to revision
  (`LogFits`), and that what a call was made with is still good for its base
  (`CallsFit`). `PropertiesAlwaysServed` discharges `RebaseFits` for properties,
  by induction over the deltas that a rebase composes, and `PropertyLaws` the
  assumptions of the other theorems. Texts are in `BodyProofs`.

**`DocumentsProofs`**. `OneComplex` follows from `LookupInv`: which entry of a
cache names which object (`EntryOfComplex`, `EntryOfFile`), what the maker of a
complex has in hand at each step (`MakerHasFile`), and what those who wait are
waiting for (`RequestsHold`). `ServedWhole` and `EditsStay` need more: what the
updates under way hold (`UpdatesHold`), that memory and disk are each a sound
state of an initialization (`Sound`), that a maker knows what is in the file
(`MakersKnow`), and that only one of them makes it (`EmptyIsBeingMade`).
Nothing is assumed of the updates: those of carets and properties, and stored
snapshots, outlive their complex and land where they will. That an update of the
body holds a complex (`UpdatesHold`), and that there is one complex
(`OneComplex`), is why a maker that has been passed by a change while it
validated a part (`late`) was validating the carets or the properties
(`MakersKnow`); any other that begins anew found no text of users. And as long
as no append of a maker lost its race (`beaten`), a body that has a text of
initialization gets no other (`SoleTexts`).

**`LocalFileProofs`**. `NothingForgotten`, `FlushSettles` and
`ModificationsWake` from an invariant about the disk (`Contiguous`: the files on
it are a beginning of the log and maybe some of the flush under way), a deleted
file (`NoFileNoTrace`, `RemovedIsGone`), what is written, about to be, or owed
(`Kept`, `NotAhead`, `FlushOwes`, `AllAgree`). Stated for `CarefulCallers`, as
the runs are and as the callers in `doc-server` are: nobody creates a file again
once it was deleted, or flushes one that does not exist.

**`SessionsProofs`**. `OneSession`, `GivenIsKept`, `NothingCutOff` and
`TypeCorrectness` from `ServerInv` (`StagesSuit`: what a call has at each of its
stages; `EntriesTell`: the entry of a caret names its living session, unless
that is being made; `RemotesLive`, `WorksStay`) and `ClientInv`
(`ConnectionsMatch`, `WorksAwaited`, `FetchesMatch`, `FetchesCared`,
`ConnectionsBegun`, `SessionsKept`: the two ends of a connection, each of which
learns of the other's end late). `OneSession` is about calls that connections
left behind, which go on looking and making sessions.

**`MachineProofs`**.

* `AlwaysControlFilesTrue` and `AlwaysNothingCutOff` (`ServerProcess`), from who
  has the port (`PortIsUp`), whose connections there are (`SocksAreUp`,
  `SocksAwaited`), how far each end has come (`EndingsSuit`), and what each stage
  has put in the control files (`FilesSuit`, `Books`).
* `CallsAlwaysReach` (`Connection`): the two maps of a context are inverse to
  each other (`MapsInverse`), tokens are minted for one target each, however the
  sequence of numbers wraps (`MintTrue`), so targets are what calls take them for
  (`TargetsTrue`, `CallsTrue`). It assumes that the bounds are numbers and that
  no author is nobody (`Sensible`).
* `RunsOneAtATime` (`CallPiler`): `OneRun` says that the promise kept is that of
  the running run; with the types it is inductive, because a run begins only
  when there is no promise, and what a late caller clears belongs to a settled
  run.
* `GreenAlwaysHolds` (`TrafficSignal`): while the signal is green, the time that
  it has been so and the time for which it is forced make up a minute
  (`GreenCounts`); and the time that it is red is a rounded share of a minute at
  most (`OffTimeBounded`). Loads and times are any numbers (`Measured`).
* `OutputAlwaysFollows` (`DevMode`): while the process runs, every file is what a
  build makes of it, or a change of it that matters, one in the directory on top,
  is yet to be told of (`Follows`). An edit that does not matter does not change
  what is built, and what has mattered goes on to do so (`EditMatters`); here it
  counts that no file is removed from above another. `Layers` is any number.

**`CaretsProofs`**. Carets are a data algebra of their own, with contents and
changes that are functions, and most of the work is its laws, for any set of
carets: what composing gives (`Composing`), that a diff leads from the one to
the other (`Diffing`), that two changes composed with each other do what they do
one after the other (`ComposedAtOnce`), and, by induction over the changes in
the file, that composing them onto an old snapshot gives the newer one
(`Replay`, for the snapshot manager), that composing them with each other first
gives the same (`ReplayAtOnce`, for the client's changes), and that composed
onto what a caller expects they make nobody's caret disappear that the caller's
change has not taken out (`ReplayElsewhere`, for the rebase).

`IInv` is `FileTrue` (each change in the file leads from one revision's contents
to the next), `CacheTrue`, `SavesTrue`, `CallsTrue` (a change in the making was
made from a revision's contents and expects what it leads to: `MakesTrue`; what
is about to be appended is for the revision before: `AppendsTrue`; both take out
only what is idle: `LostIdle`), `ViewTrue`, `ScreenTrue` and `TrackersTrue`.
`SnapshotsTrue` is not inductive alone: snapshots are made from changes, so the
changes in the file must be what the contents came from, and a change that is
rebased is a diff to what is composed onto the expectation, so that has to be
what the change itself leads to. That an overlay which draws only when
`NeedsUpdate` says so shows the truth is `ScreenTrue`: what it leaves alone looks
the same (`NoUpdateNeeded`). `OnlyIdleCaretsGo` is `LostIdle` of what is
appended; it stays true as time passes, and a caret that moved in the meantime
stays: composed onto an expectation without it, its update puts it back, or
makes the rebase throw (`ReplayElsewhere`). The proofs use that a caret's fields are
its place and the time it was last active, and that the bounds are numbers
(`FieldsAssumption`, `TimesAssumption`).

**`BodyProofs`**, in three parts.

*The algebra of texts*, for any alphabet and any texts. A delta is a length and a
row of characters and kept positions; everything about it rests on one operator,
the substitution of one such row into another, which is associative
(`SubstituteAgain`, `ComposedRows`). `ComposedDeltas`: composing deltas with each other does at once what they do one
after the other. `ReplayAtOnce`: the same for any number of them. `DiffIs`: a
diff leads from the one text to the other. `Transformed`: what transforming
gives is a delta that fits. `EitherFirst`: the two sides of a merge meet. For
that the transformed row is described without reference to how it is built: gap
by gap of the common text, what each of the two inserts there, in the order of
their priority, and each character of the text that both keep. `IntentionsKept`:
a transformed delta inserts what was to be inserted and no more, and keeps what
the other has inserted and what was to be kept and no more. That is what
`IntentionsPreserved` says of the log in the run `body_control`, of one rebase and
of any texts. It says which characters are inserted, not how often or in what
order. Nothing of this depends on the client.

*The client.* `IInv == errors <= 1 => Inv`, where `Inv` is `Flow /\ Data`.

* `Flow` is what is under way in which state, without a look at texts: what the
  rows hold (`Rows`), that the handler in progress suits the state (`Modes`), that
  while an update is out there is exactly one of it among calls, answers and
  events, and else none (`Updates`), that while changes are being collected there
  is one push timer or event to end that (`Pushes`), and a restart timer only
  after an error, one (`Restarts`), and that a read that somebody believes to be
  pending is, once (`Reading`). An event without a handler is an event from the
  wrong place in this, so `SnapshotAgrees` needs all of it.
* `Data` is that everything on its way fits the text that it will meet: each
  change in the log leads from one revision to the next (`ServerTrue`); the
  client's snapshot is a revision, and Quill's chain leads from what the client
  knows to what the editor shows (`Document`); and each call, answer and event
  that holds a delta or a correction suits the revision it names (`Messages`).
  In particular an update that was answered satisfies: snapshot, then update,
  then correction is the revision that was answered, and the user's events since,
  moved over the correction, lead to the corrected editor. That is
  `EitherFirst`, and it is where the algebra enters. `EditorInSync` alone says
  nothing of a correction until it has arrived, so it is far from inductive.

There is one lemma per handler for each half, and lemmas on what adding to the
rows and taking from them does to each part of `Flow`, since all handlers do it.
`StepInv` puts them together, and from it come `ClientFollows` (with
`SnapshotAgrees`), `EditorFollows` (with `EditorInSync`) and
`UndisturbedFollows`. `EditsFit` says of the constants that `BootText` and `Placeholder`
are texts and that an edit of a text is a delta that fits it, which the run's
constants satisfy. The hypotheses about behaviours were each found to be needed:

* `errors <= 1`. After a second error the two properties are *false*. An API
  error that is handled while a `start` event is queued leaves a restart timer
  behind that belongs to no wait; it later restarts the client early, beside a
  push timer of the life before, whose `wantToUpdate` then arrives in `merging`,
  where nothing handles it. And after the client has given up, a push timer that
  is still pending brings its event into `detached`. `any_any` makes an error of
  both. `stop()` followed by `start()` within the delay does the same, hence
  `asked = "start"` in `Ordinary`. What comes of the client then is for
  `Converges`, which is checked with two failures and stops.
* `NoneVanishes`: no update turns into nothing when it is rebased over a changed
  document. If one does, the client takes the empty correction for "nobody got
  in front of us" (known issue, BaseControl.js:1034, seen from
  BodyClient.js:1038-1043), and its snapshot is wrong. It happens if others
  delete the very thing that the user deletes, along with another change, or if
  an update that a broken connection left at the server takes effect after the
  client has read an older revision and sends the same text again.
* `TextsAreDocuments`: every revision is a text that `_validateSnapshot` accepts.
  This cannot be had from `EditsFit`: a diff that prefers the longest common
  prefix may explain an insertion of `"\n"` before the last newline as one after
  it, and rebased over a concurrent insertion that leaves a text without a last
  newline, though every client left its own alone.

TLC finds `NoneVanishes` and `TextsAreDocuments` true in every state of
`MCBodyClient.cfg`, which has `MaxTroubles = 0` and `OthersDelete = FALSE`: the
conclusions are not empty there, and `UndisturbedFollows` (`MaxTroubles = 0`:
the invariant `Calm` has no error in it at all) is what that run shows of three
edits, for any. `ClientFollows` and `EditorFollows` say more than the run: they
have failing calls and broken connections in them.

*The server.* `TextsAlwaysServed` is `AlwaysServed` of texts: `Control` is
`BaseControlProofs` with `ComposeBody`, `DiffBody` and `RebaseBody` for its
algebra and all texts that are documents for its contents, and `ControlLaws`
shows that the laws it assumes of them hold. `RebaseFits` holds of no set that
has every change of a document: a client that deletes all of `"a\n"` and another
that inserts `x` at its beginning leave `"x"`, which is no document, because it
has no last newline. So it is stated for clients that leave the last newline
alone, and last, and send nothing to the empty document, which is FileBootstrap's
to fill (`ClientsKeepEnd`). So are the clients in the run of `MCBodyControl`, and
so is Quill with an editor's text; a delta that is a diff need not be, as said of
`TextsAreDocuments` above. Such changes are closed under composition
(`ComposeKeepsEnd`) and under transformation (`TransformKeepsEnd`: both sides
keep the last character, so the gap after it is empty on both), hence, by
induction over the deltas that a rebase composes, under the rebase
(`RebaseKeepsEnd`), and they make a document of a document (`DocumentStays`).

**`Inductions`**. The library's induction theorems take an operator, which the
provers cannot instantiate. `Induction` is stated with a set instead, from the
least counterexample; `FoldOnSubsets` says what the community modules' fold is
on intervals, on which `FoldLeft` rests.

Only model-checked: all liveness properties (the prover does not reach them);
`IntentionsPreserved` of whole logs (`IntentionsKept` is about one rebase); the
laws (`MCLaws`), whose values are mostly trees and whose definitions are
RECURSIVE; what becomes of carets when users rest (`MovesSeen`); of the smaller
machines `TitlesKept`, what of `SignalHolds` and `PromisesKept` is about
something that must come about, and the order in which followers of an
`EventChain` see events (its definitions go along a chain of any length).

## 5. The plan

*Done:* the update protocol, the local file, documents, sessions, the server
process, connections, carets, shared runs, the traffic signal and development
mode, the body client, the algebra of texts and the server's log of them, with
their proofs; the other machines and the laws, checked.

Next are proofs: the safety part of `PromisesKept` (`EventChain`), and
`IntentionsPreserved` as an invariant, for texts whose characters all differ.

## 6. Not modelled

HTML export of a body (a third-party library's conversion); configuration and
deployment hooks; geometry, keys and toolbars of the user interface; routing,
debugging pages and metrics of the application; webpack, the compiler, Mocha
and the browser; composition of text attributes (quill-delta). Within the parts
that are modelled, what each leaves out is with the component in
`PROJECT.json`.
