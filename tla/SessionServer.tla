---------------------------- MODULE SessionServer ----------------------------
(***************************************************************************)
(* The server's side of the API and of editing sessions: WsConnection,     *)
(* BaseConnection and Context, which take calls from a connection, find    *)
(* what they are for and answer; AuthorAccess, which the calls are made    *)
(* on; and DocComplex, which finds or makes the session for a caret, with  *)
(* its SessionCache.  One document, one author.                            *)
(***************************************************************************)
EXTENDS Naturals, FiniteSets, WeakCache

CONSTANTS
  Carets,        \* the IDs that carets of the document may have
  Sessions,      \* identities of session objects
  Works,         \* calls that the server may be working on at once
  Fetches,       \* the client's attempts to get a session (Sessions.tla)
  MaxConns,      \* bound: connections made; the last one does not fail
  MaxFaults      \* bound: calls that fail in the depths of the server,
                 \* carets removed for being idle, and changes of the
                 \* author's permission, taken together

ASSUME SessionServerAssumption == MaxConns \in Nat /\ MaxFaults \in Nat

Conns == 1 .. MaxConns
NoCaret == "no caret"
None == "none"

VARIABLES
  caretState,  \* caret -> unused, present in the document, or removed again
  session,     \* session object -> its caret, what it may do, is it alive
  entry,       \* caret -> the cache's entry for it
  server,      \* connection -> the server's end of it
  work,        \* calls that the server works on
  mayEdit,     \* the author's permission
  faults       \* how many there have been

serverVars == <<caretState, session, entry, server, work, mayEdit, faults>>

NoSession == [state |-> "none"]
NoServer == [state |-> "none", token |-> FALSE, remotes |-> {}]
NoWork == [stage |-> "none"]

Answers ==
  [kind : {"error", "null"}]
    \cup [kind : {"session"}, of : Sessions] \cup [kind : {"caret"}, of : Carets]
Stages == {"auth", "act", "look", "snapshot", "read", "append"}
Calls == [call : {"find"}, on : Carets] \cup [call : {"make"}, on : {NoCaret}]
           \cup [call : {"getCaret"}, on : Sessions]

ServerTypeOK ==
  /\ caretState \in [Carets -> {"unused", "present", "gone"}]
  /\ session \in [Sessions -> {NoSession} \cup
       [state : {"live", "dead"}, caret : Carets, edit : BOOLEAN]]
  /\ entry \in [Carets -> Entries(Sessions)]
  /\ server \in [Conns -> [state : {"none", "open", "closing", "closed"},
                           token : BOOLEAN, remotes : SUBSET Sessions]]
  /\ work \in [Works -> {NoWork} \cup
       [stage : Stages, conn : Conns, fetch : Fetches, what : Calls,
        edit : BOOLEAN, moved : BOOLEAN] \cup
       [stage : {"reply"}, conn : Conns, fetch : Fetches, answer : Answers]]
  /\ mayEdit \in BOOLEAN
  /\ faults \in 0 .. MaxFaults

ServerInit ==
  /\ caretState = [c \in Carets |-> "unused"]
  /\ session = [s \in Sessions |-> NoSession]
  /\ entry = [c \in Carets |-> NoEntry]
  /\ server = [n \in Conns |-> NoServer]
  /\ work = [w \in Works |-> NoWork]
  /\ mayEdit = TRUE
  /\ faults = 0

(* An unused identity: which one makes no difference.                      *)
Unused(of, identities, unused) ==
  LET free == {x \in identities : of[x] = unused}
  IN IF free = {} THEN {} ELSE {CHOOSE x \in free : TRUE}

Fault == faults < MaxFaults /\ faults' = faults + 1

LiveSessions == {s \in Sessions : session[s].state = "live"}
At(w, stage) == work[w].stage = stage
WorkOn(n) == {w \in Works : work[w] # NoWork /\ work[w].conn = n}
GoTo(w, stage) == work' = [work EXCEPT ![w].stage = stage]
Answered(works, w, answer) ==
  [works EXCEPT ![w] = [stage |-> "reply", conn |-> works[w].conn,
                        fetch |-> works[w].fetch, answer |-> answer]]
Error == [kind |-> "error"]

-----------------------------------------------------------------------------
(* A call comes in.  What it is for is found first, also when the          *)
(* connection is closing: a session by its ID, an author by a token.       *)

Receive(w, n, f, what) ==
  /\ w \in Unused(work, Works, NoWork)
  /\ server[n].state \in {"open", "closing"}
  /\ work' = [work EXCEPT ![w] =
       [stage |-> IF what.call = "getCaret" \/ server[n].token THEN "act" ELSE "auth",
        conn |-> n, fetch |-> f, what |-> what, edit |-> FALSE, moved |-> FALSE]]
  /\ UNCHANGED <<caretState, session, entry, server, mayEdit, faults>>

(* _actOnMessage(): a closing connection takes no more calls.  Otherwise   *)
(* the session tells its caret at once, or AuthorAccess looks up what the  *)
(* author may do.                                                          *)
Acted(w) ==
  LET what == work[w].what IN
  IF server[work[w].conn].state # "open" THEN Answered(work, w, Error)
  ELSE IF what.call = "getCaret"
    THEN Answered(work, w, [kind |-> "caret", of |-> session[what.on].caret])
  ELSE [work EXCEPT ![w].edit = mayEdit,
                    ![w].stage = IF what.call = "find" THEN "look" ELSE "read"]

Act(w) ==
  /\ At(w, "act")
  /\ work' = Acted(w)
  /\ UNCHANGED <<caretState, session, entry, server, mayEdit, faults>>

(* The first call with a token waits for its authorization.  Another one   *)
(* may have been authorized meanwhile; the target is then there already,   *)
(* and a second one with its ID is refused.                                *)
Authorize(w) ==
  LET n == work[w].conn IN
  /\ At(w, "auth")
  /\ IF server[n].token
       THEN /\ work' = Answered(work, w, Error)
            /\ UNCHANGED server
       ELSE /\ server' = [server EXCEPT ![n].token = TRUE]
            /\ work' = Acted(w)
  /\ UNCHANGED <<caretState, session, entry, mayEdit, faults>>

Trouble(w) ==
  /\ work[w].stage \in {"look", "snapshot", "read", "append"}
  /\ Fault
  /\ work' = Answered(work, w, Error)
  /\ UNCHANGED <<caretState, session, entry, server, mayEdit>>

-----------------------------------------------------------------------------
(* DocComplex.  The answer with a session puts it among the connection's   *)
(* targets, which keeps it alive (the list of recent ones in the cache     *)
(* does so too for a while, which Collect waits for).                      *)

AnswerSession(works, w, s) ==
  /\ work' = Answered(works, w, [kind |-> "session", of |-> s])
  /\ server' = [server EXCEPT ![work[w].conn].remotes = @ \cup {s}]

ActivateBlindly(works, w, c) ==
  \E s \in Unused(session, Sessions, NoSession) :
    /\ session' = [session EXCEPT
         ![s] = [state |-> "live", caret |-> c, edit |-> work[w].edit]]
    /\ entry' = [entry EXCEPT ![c] = Added(@, LiveSessions, s)]
    /\ AnswerSession(works, w, s)

(* _activateSession(): the cache refuses it if the caret has a living one. *)
(* AuthorAccess swallows that error, and stumbles over the missing session.*)
Activate(works, w, c) ==
  IF IsAlive(entry[c], LiveSessions)
    THEN /\ work' = Answered(works, w, Error)
         /\ UNCHANGED <<session, entry, server>>
    ELSE \E s \in Unused(session, Sessions, NoSession) :
         /\ session' = [session EXCEPT
              ![s] = [state |-> "live", caret |-> c, edit |-> work[w].edit]]
         /\ entry' = [entry EXCEPT ![c] = Added(@, LiveSessions, s)]
         /\ AnswerSession(works, w, s)

(* findExistingSession(): the cache first.                                 *)
Look(w) ==
  LET e == entry[work[w].what.on]
      found == Lookup(e, LiveSessions, FALSE)
  IN /\ At(w, "look")
     /\ IF found \in {"throw", "weird"}
          THEN /\ work' = Answered(work, w, Error)
               /\ UNCHANGED server
        ELSE IF found = "object" /\ session[e.of].edit = work[w].edit
          THEN AnswerSession(work, w, e.of)
        ELSE /\ GoTo(w, "snapshot")
             /\ UNCHANGED server
     /\ UNCHANGED <<caretState, session, entry, mayEdit, faults>>

(* ... and then the carets of the document.                                *)
FindCaret(w) ==
  LET c == work[w].what.on IN
  /\ At(w, "snapshot")
  /\ IF caretState[c] = "present" THEN Activate(work, w, c)
     ELSE /\ work' = Answered(work, w, [kind |-> "null"])
          /\ UNCHANGED <<session, entry, server>>
  /\ UNCHANGED <<caretState, mayEdit, faults>>

(* makeNewSession(): a new caret for a snapshot, which is appended unless  *)
(* the carets have changed since; then once more, until the time is up.    *)
ReadCarets(w) ==
  /\ At(w, "read")
  /\ work' = [work EXCEPT ![w].stage = "append", ![w].moved = FALSE]
  /\ UNCHANGED <<caretState, session, entry, server, mayEdit, faults>>

CaretsMoved(works) ==
  [w \in Works |->
    IF works[w].stage = "append" THEN [works[w] EXCEPT !.moved = TRUE] ELSE works[w]]

AppendCaret(w) ==
  /\ At(w, "append")
  /\ \/ /\ work[w].moved
        /\ GoTo(w, "read")
        /\ UNCHANGED <<caretState, session, entry, server>>
     \/ /\ work[w].moved
        /\ work' = Answered(work, w, Error)
        /\ UNCHANGED <<caretState, session, entry, server>>
     \/ \E c \in Unused(caretState, Carets, "unused") :
        /\ ~ work[w].moved
        /\ caretState' = [caretState EXCEPT ![c] = "present"]
        /\ Activate(CaretsMoved(work), w, c)
  /\ UNCHANGED <<mayEdit, faults>>

-----------------------------------------------------------------------------
(* Closing.  A connection is told to close when the server shuts down, or  *)
(* finds that the other end is gone.  It refuses new calls, waits for the  *)
(* answers of those under way, closes the socket and forgets its targets.  *)

BeginClose(n) ==
  /\ server[n].state = "open"
  /\ server' = [server EXCEPT ![n].state = "closing"]
  /\ UNCHANGED <<caretState, session, entry, work, mayEdit, faults>>

EndCloseAtOnce(n) ==
  /\ server[n].state = "closing"
  /\ server' = [server EXCEPT ![n] = [NoServer EXCEPT !.state = "closed"]]
  /\ UNCHANGED <<caretState, session, entry, work, mayEdit, faults>>

EndClose(n) ==
  /\ server[n].state = "closing"
  /\ WorkOn(n) = {}
  /\ server' = [server EXCEPT ![n] = [NoServer EXCEPT !.state = "closed"]]
  /\ UNCHANGED <<caretState, session, entry, work, mayEdit, faults>>

-----------------------------------------------------------------------------
(* What happens to sessions and carets otherwise: the collector takes a    *)
(* session when no connection has it and other carets have pushed it out   *)
(* of the list of recent ones, and its callback comes later; a caret is    *)
(* removed for being idle; the author's permission changes.                *)

Collect(s) ==
  /\ s \in LiveSessions
  /\ \A n \in Conns : s \notin server[n].remotes
  /\ session' = [session EXCEPT ![s].state = "dead"]
  /\ UNCHANGED <<caretState, entry, server, work, mayEdit, faults>>

Reap(s) ==
  /\ session[s].state = "dead"
  /\ session' = [session EXCEPT ![s] = NoSession]
  /\ entry' = [entry EXCEPT ![session[s].caret] = AfterReaping(@, LiveSessions)]
  /\ UNCHANGED <<caretState, server, work, mayEdit, faults>>

RemoveIdleCaret(c) ==
  /\ caretState[c] = "present"
  /\ Fault
  /\ caretState' = [caretState EXCEPT ![c] = "gone"]
  /\ work' = CaretsMoved(work)
  /\ UNCHANGED <<session, entry, server, mayEdit>>

ChangePermission ==
  /\ Fault
  /\ mayEdit' = ~ mayEdit
  /\ UNCHANGED <<caretState, session, entry, server, work>>

Serve(w) ==
  \/ Authorize(w) \/ Act(w) \/ Look(w) \/ FindCaret(w)
  \/ ReadCarets(w) \/ AppendCaret(w)
=============================================================================
